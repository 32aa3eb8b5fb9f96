------------------------------- MODULE ZdbKvMap -------------------------------
(***************************************************************************)
(* What the key-value API promises its callers, without record slots,      *)
(* hashes, index or lock: a map from keys to values that zdb_kv_set() and  *)
(* zdb_kv_delete() change one key at a time.  A request takes effect at    *)
(* most once, atomically, at some moment between the call and its return;  *)
(* a request that fails leaves every stored value as it was.  A power      *)
(* loss forgets the requests and keeps the map.                            *)
(***************************************************************************)
CONSTANTS Threads, Keys, Values, NoVal, NoReq

VARIABLES
  map,    \* the stored value of each key, NoVal when the key is absent
  req     \* the set or delete each thread has in progress

vars == <<map, req>>

Request == [op : {"set", "delete"}, key : Keys, val : Values \cup {NoVal},
            done : BOOLEAN]

TypeOK ==
  /\ map \in [Keys -> Values \cup {NoVal}]
  /\ req \in [Threads -> Request \cup {NoReq}]

Init ==
  /\ map \in [Keys -> {NoVal}]
  /\ req = [t \in Threads |-> NoReq]

Call(t) ==
  /\ req[t] = NoReq
  /\ \E r \in Request :
        /\ ~r.done
        /\ req' = [req EXCEPT ![t] = r]
  /\ UNCHANGED map

(* The request takes effect: exactly its own key changes. *)
Apply(t) ==
  /\ req[t] # NoReq
  /\ ~req[t].done
  /\ map' = [map EXCEPT ![req[t].key] = IF req[t].op = "set" THEN req[t].val ELSE NoVal]
  /\ req' = [req EXCEPT ![t] = [req[t] EXCEPT !.done = TRUE]]

(* The request is given up, or returns after it took effect. *)
Leave(t) ==
  /\ req[t] # NoReq
  /\ req' = [req EXCEPT ![t] = NoReq]
  /\ UNCHANGED map

PowerLoss ==
  /\ req' = [t \in Threads |-> NoReq]
  /\ UNCHANGED map

Next ==
  \/ \E t \in Threads : Call(t) \/ Apply(t) \/ Leave(t)
  \/ PowerLoss

Spec == Init /\ [][Next]_vars
================================================================================
