---------------------------------- MODULE MCTs ----------------------------------
(* Instances of ZdbTs for TLC. *)
EXTENDS ZdbTs, TLC

CONSTANTS t1, t2, s1

(* Two threads append; one comes and goes, the other one waits for flushes. *)
LogCalls == (t1 :> {"open", "append", "close"})
            @@ (t2 :> {"open", "append", "flush_sync"})

(* One thread waits for its flush while the other one appends and flushes. *)
SyncCalls == (t1 :> {"open", "append", "flush_sync", "close"})
             @@ (t2 :> {"open", "append", "flush_async", "close"})

(* Two threads wait for a flush. *)
TwoSyncCalls == (t1 :> {"open", "flush_sync"}) @@ (t2 :> {"open", "flush_sync"})

(* One thread appends and never closes. *)
OpenCalls == (t1 :> {"open", "append"}) @@ (t2 :> {})
================================================================================
