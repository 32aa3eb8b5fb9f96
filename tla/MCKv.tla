---------------------------------- MODULE MCKv ----------------------------------
(* Instances of ZdbKv for TLC. *)
EXTENDS ZdbKv, TLC

CONSTANTS t1, t2, k1, k2, k3, k4, n1, n2, v1, v2

(* k1 and k2 share a slot; the slot of k3 starts with foreign bytes. *)
KvNsOf == [k \in Keys |-> IF k = k4 THEN n2 ELSE n1]
KvIdOf == [k \in Keys |-> CASE k \in {k1, k2} -> 1 [] k = k3 -> 2 [] OTHER -> 3]
KvDefaults == << [key |-> k1, val |-> v1] >>

(* One thread deletes and walks the index while the other one stores keys. *)
IndexCalls == (t1 :> {"delete", "iter", "reset"}) @@ (t2 :> {"set"})

(* Both threads write the slot that two keys share. *)
FaultCalls == (t1 :> {"set", "reset"}) @@ (t2 :> {"set", "delete", "get", "defaults"})

(* One thread stores keys. *)
SoloCalls == (t1 :> {"set"}) @@ (t2 :> {})
================================================================================
