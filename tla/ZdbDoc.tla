--------------------------------- MODULE ZdbDoc ---------------------------------
(***************************************************************************)
(* The document store of one zdb_t: handles that hold fields in RAM, and   *)
(* documents that are saved through a staging file and a rename, opened    *)
(* (promoting a staging file that an interrupted save left), and deleted.  *)
(* A power loss may strike between any two file system calls.              *)
(*                                                                         *)
(* The file system decides what rename does to an existing destination:    *)
(* LittleFS replaces it, FAT refuses.  Timestamps are left out;            *)
(* zdb_doc_query(), which changes nothing, is in ZdbDocQuery.              *)
(***************************************************************************)
EXTENDS Integers, FiniteSets

CONSTANTS
  Threads,      \* threads that share the instance, one document handle each
  Docs,         \* (collection, document ID) pairs
  Fields,       \* field names
  Scalars,      \* INT64, DOUBLE and BOOL values
  Blobs,        \* STRING and BYTES values, kept in heap copies
  MaxFields,    \* CONFIG_ZDB_DOC_MAX_FIELD_COUNT
  FileSystems,  \* the file systems considered
  Faults,       \* per file system, which of its calls may fail
  MaxBoots,     \* bound: power losses, per file system
  NoThread, NoDoc, NoVal, Hollow, Absent, Partial

(* "unlink" is the removal of a live file, "unlink_tmp" of a staging file. *)
FaultKinds == {"write", "rename", "unlink", "unlink_tmp", "heap"}
Values == Scalars \cup Blobs \cup {Hollow}

ASSUME DocConstants ==
  /\ MaxFields \in Nat \ {0}
  /\ FileSystems \subseteq {"littlefs", "fat"}
  /\ Faults \in [FileSystems -> SUBSET FaultKinds]
  /\ MaxBoots \in [FileSystems -> Nat]
  /\ IsFiniteSet(Fields)
  /\ Scalars \cap Blobs = {}
  /\ NoThread \notin Threads
  /\ NoDoc \notin Docs
  /\ Hollow \notin Scalars \cup Blobs
  /\ NoVal \notin Values
  /\ Absent \notin [Fields -> Values \cup {NoVal}]
  /\ Partial \notin [Fields -> Values \cup {NoVal}] \cup {Absent}

VARIABLES
  fs,      \* the file system the instance is mounted on
  live,    \* flash: per document, what "<id>.zdoc" holds
  tmp,     \* flash: per document, what "<id>.zdoc.tmp" holds
  lock,    \* owner of db->lock, or NoThread
  pc,      \* per thread: the next step it takes
  hd,      \* per thread: the document its handle is for
  target,  \* per thread: the document the call in progress writes
  fields,  \* per thread: the fields in its handle
  boots,   \* power losses so far
  may      \* history: per document, what its next open may find

vars == <<fs, live, tmp, lock, pc, hd, target, fields, boots, may>>
flashVars == <<live, tmp>>

--------------------------------------------------------------------------------
(* Documents and files. *)

(* Hollow is a STRING or BYTES field without its heap copy: it is stored as     *)
(* an empty one.                                                                *)
Used(c) == {f \in Fields : c[f] # NoVal}
Content == {c \in [Fields -> Values \cup {NoVal}] : Cardinality(Used(c)) <= MaxFields}
NoFields == [f \in Fields |-> NoVal]

(* A file is absent, fails to parse (it was not written to its end, so its CRC  *)
(* does not hold), or is a document.                                            *)
File == Content \cup {Absent, Partial}
Parses(file) == file \notin {Absent, Partial}

(* What zdb_doc_open() finds for document d: the staging file counts only when  *)
(* there is no live file.                                                       *)
Visible(d) == IF live[d] # Absent THEN live[d]
              ELSE IF Parses(tmp[d]) THEN tmp[d] ELSE Absent

Fails(kind) == kind \in Faults[fs]

Idle(t) == pc[t] = "idle"
Go(t, place) == pc' = [pc EXCEPT ![t] = place]

--------------------------------------------------------------------------------
(* Handles *)

(* zdb_doc_create() *)
Create(t) ==
  /\ Idle(t) /\ hd[t] = NoDoc
  /\ \E d \in Docs : hd' = [hd EXCEPT ![t] = d]
  /\ fields' = [fields EXCEPT ![t] = NoFields]
  /\ UNCHANGED <<fs, flashVars, lock, pc, target, boots, may>>

(* zdb_doc_open(): the live file, or a staging file that parses and is then     *)
(* renamed; a handle is left only on success.  When that rename fails, or a     *)
(* file cannot be read, the call returns an error and changes nothing.          *)
Open(t) ==
  /\ Idle(t) /\ hd[t] = NoDoc
  /\ lock = NoThread
  /\ \E d \in Docs :
       /\ may' = [may EXCEPT ![d] = {Visible(d)}]
       /\ \/ /\ Parses(live[d])
             /\ hd' = [hd EXCEPT ![t] = d]
             /\ fields' = [fields EXCEPT ![t] = live[d]]
             /\ UNCHANGED flashVars
          \/ /\ live[d] = Absent /\ Parses(tmp[d])
             /\ hd' = [hd EXCEPT ![t] = d]
             /\ fields' = [fields EXCEPT ![t] = tmp[d]]
             /\ live' = [live EXCEPT ![d] = tmp[d]]
             /\ tmp' = [tmp EXCEPT ![d] = Absent]
          \/ /\ live[d] = Absent /\ ~Parses(tmp[d])
             /\ UNCHANGED <<hd, fields, flashVars>>
  /\ UNCHANGED <<fs, lock, pc, target, boots>>

(* zdb_doc_close() *)
Close(t) ==
  /\ Idle(t) /\ hd[t] # NoDoc
  /\ hd' = [hd EXCEPT ![t] = NoDoc]
  /\ fields' = [fields EXCEPT ![t] = NoFields]
  /\ UNCHANGED <<fs, flashVars, lock, pc, target, boots, may>>

(* Mutant: the capacity of the handle is not looked at. *)
find_or_create_unbounded(t, f) == TRUE
(* The field exists, or there is room for one more. *)
find_or_create(t, f) == f \in Used(fields[t]) \/ Cardinality(Used(fields[t])) < MaxFields

(* zdb_doc_field_set_*() *)
SetField(t) ==
  /\ Idle(t) /\ hd[t] # NoDoc
  /\ \E f \in Fields, v \in Scalars \cup Blobs :
       /\ find_or_create(t, f)
       /\ fields' = [fields EXCEPT ![t][f] = v]
  /\ UNCHANGED <<fs, flashVars, lock, pc, hd, target, boots, may>>

(* The copy of a string or of bytes cannot be allocated: the field has its new  *)
(* type already, and a value of another type (bytes under a string, too) is     *)
(* gone.                                                                        *)
SetFieldFails(t) ==
  /\ Idle(t) /\ hd[t] # NoDoc
  /\ Fails("heap")
  /\ \E f \in Fields :
       /\ find_or_create(t, f)
       /\ fields' = [fields EXCEPT ![t][f] = Hollow]
  /\ UNCHANGED <<fs, flashVars, lock, pc, hd, target, boots, may>>

--------------------------------------------------------------------------------
(* zdb_doc_save() *)

CallSave(t) ==
  /\ Idle(t) /\ hd[t] # NoDoc
  /\ lock = NoThread
  /\ lock' = t
  /\ target' = [target EXCEPT ![t] = hd[t]]
  /\ Go(t, "stage")
  /\ UNCHANGED <<fs, flashVars, hd, fields, boots, may>>

(* Thread t unlocks and returns; the call left the files of its document as n.  *)
Return(t, n) ==
  /\ lock' = NoThread
  /\ target' = [target EXCEPT ![t] = NoDoc]
  /\ may' = [may EXCEPT ![target[t]] = n]
  /\ Go(t, "idle")

(* The staging file is written to its end and closed. *)
SaveStage(t) ==
  /\ pc[t] = "stage"
  /\ tmp' = [tmp EXCEPT ![target[t]] = fields[t]]
  /\ Go(t, "rename")
  /\ UNCHANGED <<fs, live, lock, hd, target, fields, boots, may>>

(* The staging file of the call is removed, if that works. *)
DropStaging(t, left) ==
  {[tmp EXCEPT ![target[t]] = f] : f \in {Absent} \cup IF Fails("unlink_tmp") THEN {left} ELSE {}}

(* Mutant: the staging file stays. *)
SaveStageFailsDirty(t) ==
  /\ pc[t] = "stage"
  /\ Fails("write")
  /\ tmp' = [tmp EXCEPT ![target[t]] = Partial]
  /\ Return(t, may[target[t]])
  /\ UNCHANGED <<fs, live, hd, fields, boots>>
(* The staging file cannot be opened, or a write or the close fails and it is   *)
(* removed.  When only the close failed, what cannot be removed may be whole.   *)
SaveStageFails(t) ==
  /\ pc[t] = "stage"
  /\ Fails("write")
  /\ tmp' \in {tmp} \cup DropStaging(t, Partial) \cup DropStaging(t, fields[t])
  /\ Return(t, may[target[t]])
  /\ UNCHANGED <<fs, live, hd, fields, boots>>

Refused(t) == fs = "fat" /\ live[target[t]] # Absent

SaveRename(t) ==
  /\ pc[t] = "rename"
  /\ ~Refused(t)
  /\ live' = [live EXCEPT ![target[t]] = tmp[target[t]]]
  /\ tmp' = [tmp EXCEPT ![target[t]] = Absent]
  /\ Return(t, {fields[t]})
  /\ UNCHANGED <<fs, hd, fields, boots>>

(* -EEXIST: the live file is removed, and the rename tried again. *)
SaveUnlink(t) ==
  /\ pc[t] = "rename"
  /\ Refused(t)
  /\ live' = [live EXCEPT ![target[t]] = Absent]
  /\ UNCHANGED <<fs, tmp, lock, pc, hd, target, fields, boots, may>>

(* An error other than -EEXIST, or a live file that cannot be removed either:   *)
(* the staging file is removed.                                                 *)
SaveRenameFails(t) ==
  /\ pc[t] = "rename"
  /\ Fails("rename") \/ (Refused(t) /\ Fails("unlink"))
  /\ tmp' \in DropStaging(t, tmp[target[t]])
  /\ Return(t, may[target[t]])
  /\ UNCHANGED <<fs, live, hd, fields, boots>>

--------------------------------------------------------------------------------
(* zdb_doc_delete(), which needs no handle *)

CallDelete(t) ==
  /\ Idle(t)
  /\ lock = NoThread
  /\ lock' = t
  /\ \E d \in Docs : target' = [target EXCEPT ![t] = d]
  /\ Go(t, "unlink")
  /\ UNCHANGED <<fs, flashVars, hd, fields, boots, may>>

(* The live file goes first; it may be absent, which ends in ZDB_ERR_NOT_FOUND. *)
DeleteLive(t) ==
  /\ pc[t] = "unlink"
  /\ live' = [live EXCEPT ![target[t]] = Absent]
  /\ Go(t, "unlink_tmp")
  /\ UNCHANGED <<fs, tmp, lock, hd, target, fields, boots, may>>

DeleteLiveFails(t) ==
  /\ pc[t] = "unlink"
  /\ Fails("unlink") /\ live[target[t]] # Absent
  /\ Go(t, "unlink_tmp")
  /\ UNCHANGED <<fs, flashVars, lock, hd, target, fields, boots, may>>

(* Mutant: a staging file that an interrupted save left stays. *)
DeleteTmpSkipped(t) ==
  /\ pc[t] = "unlink_tmp"
  /\ Return(t, IF live[target[t]] = Absent THEN {Absent} ELSE may[target[t]])
  /\ UNCHANGED <<fs, flashVars, hd, fields, boots>>
(* Then the staging file, whatever became of the live one, and whatever comes   *)
(* of this.                                                                     *)
DeleteTmp(t) ==
  /\ pc[t] = "unlink_tmp"
  /\ tmp' \in DropStaging(t, tmp[target[t]])
  /\ Return(t, IF live[target[t]] = Absent THEN {Absent} ELSE may[target[t]])
  /\ UNCHANGED <<fs, live, hd, fields, boots>>

--------------------------------------------------------------------------------
(* What a power loss leaves of the staging file of document d: while it is      *)
(* being written, what it was before, or a part.                                *)
CrashImages(d) ==
  IF \E t \in Threads : pc[t] = "stage" /\ target[t] = d THEN {tmp[d], Partial} ELSE {tmp[d]}

(* A call that was interrupted may have taken effect or not. *)
Interrupted(d) ==
  {fields[t] : t \in {u \in Threads : pc[u] \in {"stage", "rename"} /\ target[u] = d}}
  \cup {Absent : t \in {u \in Threads : pc[u] \in {"unlink", "unlink_tmp"} /\ target[u] = d}}

PowerLoss ==
  /\ boots < MaxBoots[fs]
  /\ boots' = boots + 1
  /\ \E image \in [Docs -> File] :
       /\ \A d \in Docs : image[d] \in CrashImages(d)
       /\ tmp' = image
  /\ may' = [d \in Docs |-> may[d] \cup Interrupted(d)]
  /\ lock' = NoThread
  /\ pc' = [t \in Threads |-> "idle"]
  /\ hd' = [t \in Threads |-> NoDoc]
  /\ target' = [t \in Threads |-> NoDoc]
  /\ fields' = [t \in Threads |-> NoFields]
  /\ UNCHANGED <<fs, live>>

Init ==
  /\ fs \in FileSystems
  /\ live = [d \in Docs |-> Absent]
  /\ tmp = [d \in Docs |-> Absent]
  /\ lock = NoThread
  /\ pc = [t \in Threads |-> "idle"]
  /\ hd = [t \in Threads |-> NoDoc]
  /\ target = [t \in Threads |-> NoDoc]
  /\ fields = [t \in Threads |-> NoFields]
  /\ boots = 0
  /\ may = [d \in Docs |-> {Absent}]

HandleStep(t) == Create(t) \/ Open(t) \/ Close(t) \/ SetField(t) \/ SetFieldFails(t)
SaveStep(t) ==
  \/ CallSave(t) \/ SaveStage(t) \/ SaveStageFails(t)
  \/ SaveRename(t) \/ SaveUnlink(t) \/ SaveRenameFails(t)
DeleteStep(t) == CallDelete(t) \/ DeleteLive(t) \/ DeleteLiveFails(t) \/ DeleteTmp(t)

Next == (\E t \in Threads : HandleStep(t) \/ SaveStep(t) \/ DeleteStep(t)) \/ PowerLoss

Spec == Init /\ [][Next]_vars

--------------------------------------------------------------------------------
(* Properties *)

Places == {"idle", "stage", "rename", "unlink", "unlink_tmp"}

FlashType ==
  /\ fs \in FileSystems
  /\ live \in [Docs -> File \ {Partial}]
  /\ tmp \in [Docs -> File]
ThreadType ==
  /\ lock \in Threads \cup {NoThread}
  /\ pc \in [Threads -> Places]
  /\ hd \in [Threads -> Docs \cup {NoDoc}]
  /\ target \in [Threads -> Docs \cup {NoDoc}]
  /\ fields \in [Threads -> Content]
HistoryType == boots \in 0..MaxBoots[fs] /\ may \in [Docs -> SUBSET File]

(* Type invariant: every variable stays in its range; neither a handle nor a    *)
(* file holds more fields than CONFIG_ZDB_DOC_MAX_FIELD_COUNT, and a live file  *)
(* is always whole.                                                             *)
TypeOK == FlashType /\ ThreadType /\ HistoryType

(* "An interrupted save leaves the previously stored document intact", and      *)
(* after a delete "a later open cannot resurrect the document": whenever the    *)
(* lock is free, also right after a power loss, an open finds what the last     *)
(* call that returned left, or what a call that a power loss interrupted since  *)
(* wrote; a call that failed changed nothing.                                   *)
StoredIntact == lock = NoThread => \A d \in Docs : Visible(d) \in may[d]

(* No power was lost, and staging files can be removed. *)
Clean == boots = 0 /\ ~Fails("unlink_tmp")

(* "On failure the staging file is removed": every way out of a save or a       *)
(* delete leaves no staging file; only a power loss does, or a file system that *)
(* cannot remove it.                                                            *)
StagingTransient == (lock = NoThread /\ Clean) => \A d \in Docs : tmp[d] = Absent
================================================================================
