-------------------------------- MODULE ZdbTsLog --------------------------------
(***************************************************************************)
(* What the time-series store promises its callers, without slots, segment *)
(* files, lock or work queue: per stream a log in two parts, the stored    *)
(* samples and the newest ones, which are only in RAM.  Samples enter at   *)
(* the end and leave the RAM part all at once and in order, whoever asked  *)
(* for it.  A closed stream has nothing in RAM.  Rollover takes from the   *)
(* old end and leaves Retain samples at least; a power loss costs a suffix *)
(* of what is in RAM, Capacity samples at most; shutting the instance down *)
(* costs nothing; stored samples are lost in the middle or from the new    *)
(* end only once storage was damaged.                                      *)
(***************************************************************************)
EXTENDS Naturals, Sequences, SequencesExt

CONSTANTS
  Streams,
  Samples,
  Capacity,  \* samples a stream keeps in RAM
  Retain     \* samples rollover leaves

VARIABLES
  stored,    \* per stream: what a reader finds in storage
  ram,       \* per stream: what a reader finds in the ingest buffer
  open,      \* the streams that are open
  damaged,   \* stored bytes went bad, at some time
  outages    \* power losses so far

vars == <<stored, ram, open, damaged, outages>>

Init ==
  /\ stored = [s \in Streams |-> <<>>]
  /\ ram = [s \in Streams |-> <<>>]
  /\ open = {}
  /\ damaged = FALSE
  /\ outages = 0

(* The first handle on s; opening a damaged stream may cost its new end. *)
Claim(s) == s \notin open /\ open' = open \cup {s} /\ UNCHANGED <<stored, ram, damaged, outages>>
Recover(s) ==
  /\ s \in open
  /\ damaged
  /\ ram[s] = <<>>
  /\ UNCHANGED <<ram, open, damaged, outages>>
  /\ stored' # stored
  /\ \E n \in 0..Len(stored[s]) : stored' = [stored EXCEPT ![s] = SubSeq(@, 1, n)]

AppendSample(s) ==
  /\ s \in open
  /\ Len(ram[s]) < Capacity
  /\ UNCHANGED <<open, damaged, outages>>
  /\ ram' # ram
  /\ \E x \in Samples \ (Range(stored[s]) \cup Range(ram[s])) :
       ram' = [ram EXCEPT ![s] = Append(@, x)]
  /\ UNCHANGED stored

Flush(s) ==
  /\ s \in open
  /\ UNCHANGED <<open, damaged, outages>>
  /\ ram[s] # <<>>
  /\ ram' = [ram EXCEPT ![s] = <<>>]
  /\ stored' = [stored EXCEPT ![s] = @ \o ram[s]]

(* The last handle on s is closed. *)
Release(s) ==
  /\ s \in open
  /\ ram[s] = <<>>
  /\ open' = open \ {s}
  /\ UNCHANGED <<stored, ram, damaged, outages>>

Discard(s) ==
  /\ s \in open
  /\ UNCHANGED <<ram, open, damaged, outages>>
  /\ stored' # stored
  /\ \E n \in 0..Len(stored[s]) :
       /\ damaged \/ n >= Retain
       /\ stored' = [stored EXCEPT ![s] = SubSeq(@, Len(@) - n + 1, Len(@))]

(* zdb_deinit() "Closes any active TS stream", and closing writes out "samples   *)
(* still buffered for the stream" (zephyrdb.h): it loses nothing.                *)
Shutdown ==
  /\ open' = {}
  /\ ram' = [s \in Streams |-> <<>>]
  /\ stored' = [s \in Streams |-> stored[s] \o ram[s]]
  /\ UNCHANGED <<damaged, outages>>

(* The power fails. *)
PowerLoss ==
  /\ outages' = outages + 1
  /\ open' = {}
  /\ ram' = [s \in Streams |-> <<>>]
  /\ UNCHANGED damaged
  /\ \A s \in Streams : \E n \in 0..Len(ram[s]) : stored'[s] = stored[s] \o SubSeq(ram[s], 1, n)
  /\ DOMAIN stored' = Streams

Damage(s) ==
  /\ s \notin open
  /\ damaged' = TRUE
  /\ UNCHANGED <<ram, open, outages>>
  /\ \E i \in 1..Len(stored[s]) : stored' = [stored EXCEPT ![s] = RemoveAt(@, i)]

Next ==
  \/ \E s \in Streams : Claim(s) \/ Recover(s) \/ AppendSample(s) \/ Flush(s) \/ Release(s)
                        \/ Discard(s) \/ Damage(s)
  \/ Shutdown
  \/ PowerLoss

Spec == Init /\ [][Next]_vars
================================================================================
