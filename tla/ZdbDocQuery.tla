------------------------------- MODULE ZdbDocQuery -------------------------------
(***************************************************************************)
(* zdb_doc_query() over the document store ZdbDoc.  The query holds the    *)
(* lock from its first fs_opendir() to its last fs_closedir() and writes   *)
(* nothing, so that it is a function of the files at one moment: of the    *)
(* order in which fs_readdir() lists them, and of the allocations that     *)
(* fail on the way.                                                        *)
(***************************************************************************)
EXTENDS ZdbDoc, SequencesExt

CONSTANTS
  FilterSets,  \* sets of <<field, value>> filters
  Limits,      \* values of query->limit, 0 for none
  Capacities   \* values of *out_count

ASSUME QueryConstants ==
  /\ FilterSets \subseteq SUBSET (Fields \X (Scalars \cup Blobs))
  /\ Limits \subseteq Nat
  /\ Capacities \subseteq Nat

(* buffer: out_metadata is not NULL. *)
Queries == [filters : FilterSets, limit : Limits, capacity : Capacities, buffer : BOOLEAN]

(* zdb_doc_matches_query(): every filter is met by a field of its type and      *)
(* value; a STRING or BYTES field without its copy meets none.  (Saved and      *)
(* parsed again such a STRING is the empty one; filters are on other values.)   *)
matches_query(c, q) == \A filter \in q.filters : c[filter[1]] = filter[2]

BelowLimit(q, n) == q.limit = 0 \/ n < q.limit

(* The scan so far: the entries written to out_metadata, the number of matches, *)
(* why it stopped, if it did, and (history) whether a document could not be     *)
(* opened.                                                                      *)
Blank == [found |-> <<>>, matched |-> 0, stop |-> FALSE, partial |-> FALSE, skipped |-> FALSE]

(* A match takes an entry while there is room, and the last one ends the scan. *)
Report(q, sc, d) ==
  IF q.buffer /\ Len(sc.found) < q.capacity
  THEN [sc EXCEPT !.found = Append(@, d), !.matched = @ + 1,
                  !.stop = Len(sc.found) + 1 >= q.capacity]
  ELSE [sc EXCEPT !.matched = @ + 1]

(* What the heap can make of a match: the document is not opened and left out,  *)
(* or its names not copied, which ends the query with what it has.              *)
HeapFails(q, sc) ==
  IF ~Fails("heap") THEN {}
  ELSE {[sc EXCEPT !.skipped = TRUE]}
       \cup IF q.buffer /\ Len(sc.found) < q.capacity
            THEN {[sc EXCEPT !.stop = TRUE, !.partial = TRUE]} ELSE {}

(* Mutant: a staging file is taken for the newer document. *)
VisitStaged(q, sc, d) ==
  LET c == IF Parses(tmp[d]) THEN tmp[d] ELSE live[d]
  IN  IF sc.stop \/ ~BelowLimit(q, sc.matched) \/ ~Parses(c) \/ ~matches_query(c, q)
      THEN {sc}
      ELSE {Report(q, sc, d)} \cup HeapFails(q, sc)
(* One "<id>.zdoc" file of the listing; staging files are passed over. *)
Visit(q, sc, d) ==
  IF sc.stop \/ ~BelowLimit(q, sc.matched) \/ ~Parses(live[d]) \/ ~matches_query(live[d], q)
  THEN {sc}
  ELSE {Report(q, sc, d)} \cup HeapFails(q, sc)

(* The scans a query may make of the files, listed in some order. *)
Scans(q) ==
  UNION {FoldLeft(LAMBDA scans, d : UNION {Visit(q, sc, d) : sc \in scans}, {Blank}, order) :
           order \in SetToSeqs({d \in Docs : live[d] # Absent})}

(* Mutant: a caller without room for a single entry is told of none. *)
out_count_written(q, sc) == IF sc.partial \/ q.buffer THEN Len(sc.found) ELSE sc.matched
(* *out_count: entries written, or matches for a caller that takes no entries. *)
out_count(q, sc) ==
  IF sc.partial \/ (q.buffer /\ q.capacity > 0) THEN Len(sc.found) ELSE sc.matched

--------------------------------------------------------------------------------
(* Properties *)

(* The query stopped early: at its limit, with its array full, or for want of   *)
(* memory; or it passed over a document it could not open.                      *)
Cut(q, sc) == sc.stop \/ sc.skipped \/ ~BelowLimit(q, sc.matched)

(* The document exists and matches, whichever of the calls that a power loss    *)
(* interrupted took effect.                                                     *)
SurelyMatches(d, q) == \A c \in may[d] : Parses(c) /\ matches_query(c, q)

(* What a query reports is what the saves and deletes left.  An entry names a   *)
(* document that the next open finds with fields that match, once, and that no  *)
(* completed delete removed; and a query that was not cut short misses no       *)
(* document that surely exists and matches.  Across failing saves and deletes   *)
(* and a power loss at any step; but on FAT, after a power loss, a document     *)
(* that was being overwritten is missing until an open promotes its staging     *)
(* file, and one that cannot be allocated is left out without a word.           *)
QueryFindsStored ==
  lock = NoThread =>
     \A q \in Queries : \A sc \in Scans(q) :
        LET found == {sc.found[i] : i \in 1..Len(sc.found)}
        IN  /\ Cardinality(found) = Len(sc.found)
            /\ \A d \in found : /\ may[d] # {Absent}
                                /\ Parses(Visible(d)) /\ matches_query(Visible(d), q)
            /\ (q.buffer /\ q.capacity > 0 /\ ~Cut(q, sc) /\ (fs = "littlefs" \/ boots = 0)) =>
                  {d \in Docs : SurelyMatches(d, q)} \subseteq found

(* The number in *out_count is the number of entries to read and to free, never *)
(* above the capacity or the limit; a caller that offers no room is told the    *)
(* number of matches, up to the limit.                                          *)
QueryCounts ==
  lock = NoThread =>
     \A q \in Queries : \A sc \in Scans(q) :
        LET n == out_count(q, sc)
            all == Cardinality({d \in Docs : Parses(live[d]) /\ matches_query(live[d], q)})
        IN  /\ q.limit # 0 => n <= q.limit
            /\ (q.buffer /\ q.capacity > 0) => n = Len(sc.found) /\ n <= q.capacity
            /\ (~q.buffer \/ q.capacity = 0) /\ ~sc.skipped =>
                  n = IF BelowLimit(q, all) THEN all ELSE q.limit
================================================================================
