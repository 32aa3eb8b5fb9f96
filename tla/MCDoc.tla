---------------------------------- MODULE MCDoc ----------------------------------
(* Instances of ZdbDoc and ZdbDocQuery for TLC. *)
EXTENDS ZdbDocQuery, TLC

CONSTANTS t1, t2, d1, d2, f1, f2, n1, b1

(* Each file system with the failures under which it keeps its promise. *)
CrashFaults == ("littlefs" :> {"write", "rename", "unlink", "heap"})
               @@ ("fat" :> {"unlink", "heap"})
OnceEach == ("littlefs" :> 1) @@ ("fat" :> 1)

(* All documents, and those with a certain value in a certain field. *)
QueryFilters == {{}, {<<f1, b1>>}}

DocSymmetry == Permutations(Threads) \cup Permutations(Docs)
================================================================================
