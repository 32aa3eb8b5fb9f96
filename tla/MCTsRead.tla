--------------------------------- MODULE MCTsRead ---------------------------------
(* Instances of ZdbTsRead for TLC. *)
EXTENDS ZdbTsRead, TLC

CONSTANTS t1, t2, s1

(* One thread reads, and may close its handle before its cursor; the other one  *)
(* appends and comes and goes.                                                  *)
WalkCalls == (t1 :> {"open", "close"}) @@ (t2 :> {"open", "append", "close"})

(* One thread appends and consumes, beside the work queue. *)
SoloCalls == (t1 :> {"open", "append"})

AllWindows == {<<0, 0>>, <<2, 3>>}
Everything == {<<0, 0>>}
================================================================================
