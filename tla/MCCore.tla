--------------------------------- MODULE MCCore ---------------------------------
(* Instances of ZdbCore for TLC. *)
EXTENDS ZdbCore, TLC

CONSTANTS t1, t2, t3
================================================================================
