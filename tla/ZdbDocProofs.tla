------------------------------ MODULE ZdbDocProofs ------------------------------
(***************************************************************************)
(* Proofs about ZdbDoc, for any number of threads, documents and fields,   *)
(* on either file system, whichever of its calls fail and however often    *)
(* the power is lost; and about zdb_doc_query(), for any filters, limit    *)
(* and capacity and any order of the directory listing: what a query       *)
(* reports is what the saves and deletes left, and what it counts is what  *)
(* it reports.                                                             *)
(*                                                                         *)
(* The scan is a fold over the listing.  ScanFold turns it into steps, one *)
(* document each, and Scanned is the invariant those steps keep.           *)
(***************************************************************************)
EXTENDS ZdbDocQuery, FiniteSetTheorems, TLAPS

(* Only the thread that holds the lock is inside a save or a delete. *)
LockHeld ==
  \A t \in Threads : pc[t] # "idle" => lock = t /\ target[t] \in Docs

(* Between the staging and the rename, the staging file is what the save wrote. *)
Staged ==
  \A t \in Threads : pc[t] = "rename" => tmp[target[t]] = fields[t]

(* Before the first power loss, and if staging files can be removed, the only   *)
(* one is that of a save that is about to rename it.                            *)
OneStaged ==
  Clean =>
    \A d \in Docs : tmp[d] # Absent =>
       \E t \in Threads : pc[t] = "rename" /\ target[t] = d

(* The inductive invariant. *)
Inv == TypeOK /\ LockHeld /\ Staged /\ OneStaged

--------------------------------------------------------------------------------
(* Documents. *)

LEMMA ContentFunction == Content \subseteq [Fields -> Values \cup {NoVal}]
  BY DEF Content

LEMMA ContentIsFile ==
  ASSUME NEW c \in Content
  PROVE  c \in File /\ c # Partial /\ c # Absent /\ Parses(c)
  BY ContentFunction, DocConstants DEF File, Parses

LEMMA FileParses ==
  ASSUME NEW f \in File, Parses(f)
  PROVE  f \in Content
  BY DEF File, Parses

LEMMA UsedFinite ==
  ASSUME NEW c
  PROVE  IsFiniteSet(Used(c)) /\ Cardinality(Used(c)) \in Nat
  <1>1. Used(c) \subseteq Fields /\ IsFiniteSet(Fields)
    BY DocConstants DEF Used
  <1>2. IsFiniteSet(Used(c))
    BY <1>1, FS_Subset
  <1> QED BY <1>2, FS_CardinalityType

LEMMA EmptyContent == NoFields \in Content
  <1>1. NoFields \in [Fields -> Values \cup {NoVal}]
    BY DEF NoFields
  <1>2. Used(NoFields) = {}
    BY DEF Used, NoFields
  <1>3. Cardinality(Used(NoFields)) = 0
    BY <1>2, FS_EmptySet
  <1>4. MaxFields \in Nat
    BY DocConstants
  <1> QED BY <1>1, <1>3, <1>4 DEF Content

(* A field that find_or_create() grants keeps the handle within its capacity. *)
LEMMA SetKeepsContent ==
  ASSUME NEW c \in Content, NEW f \in Fields, NEW v \in Values,
         f \in Used(c) \/ Cardinality(Used(c)) < MaxFields
  PROVE  [c EXCEPT ![f] = v] \in Content
  <1> DEFINE e == [c EXCEPT ![f] = v]
  <1>1. c \in [Fields -> Values \cup {NoVal}]
    BY ContentFunction
  <1>2. e \in [Fields -> Values \cup {NoVal}]
    BY <1>1
  <1>3. v # NoVal
    BY DocConstants
  <1>4. Used(e) = Used(c) \cup {f}
    BY <1>1, <1>3 DEF Used
  <1>5. Cardinality(Used(c)) <= MaxFields /\ MaxFields \in Nat
    BY DocConstants DEF Content
  <1>6. Cardinality(Used(e)) <= MaxFields
    <2>1. CASE f \in Used(c)
      <3>1. Used(e) = Used(c)
        BY <1>4, <2>1
      <3> QED BY <3>1, <1>5
    <2>2. CASE f \notin Used(c)
      <3>1. Cardinality(Used(c) \cup {f}) = Cardinality(Used(c)) + 1
        BY <2>2, UsedFinite, FS_AddElement
      <3>2. Cardinality(Used(c)) < MaxFields
        BY <2>2
      <3> HIDE DEF e
      <3> QED BY <3>1, <3>2, <1>4, <1>5, UsedFinite
    <2> QED BY <2>1, <2>2
  <1> QED BY <1>2, <1>6 DEF Content

LEMMA VisibleType ==
  ASSUME FlashType, NEW d \in Docs
  PROVE  Visible(d) \in File
  BY DEF FlashType, Visible, File

--------------------------------------------------------------------------------
(* The invariant holds initially and is kept by every step. *)

LEMMA InvInit == Init => Inv
  <1> SUFFICES ASSUME Init PROVE Inv
    OBVIOUS
  <1>1. FlashType
    BY DocConstants DEF Init, FlashType, File
  <1>2. ThreadType
    BY EmptyContent DEF Init, ThreadType, Places
  <1>3. HistoryType
    <2>1. MaxBoots[fs] \in Nat
      BY DocConstants DEF Init
    <2>2. boots \in 0..MaxBoots[fs]
      BY <2>1 DEF Init
    <2> QED BY <2>2 DEF Init, HistoryType, File
  <1>4. LockHeld /\ Staged /\ OneStaged
    BY DEF Init, LockHeld, Staged, OneStaged,
          Clean, Fails
  <1> QED BY <1>1, <1>2, <1>3, <1>4 DEF Inv, TypeOK

LEMMA HandleKeeps ==
  ASSUME Inv, NEW t \in Threads, HandleStep(t)
  PROVE  Inv'
  <1> USE DEF Inv, TypeOK
  <1>1. CASE Create(t)
    <2>1. FlashType' /\ HistoryType'
      BY <1>1 DEF Create, flashVars, FlashType, HistoryType
    <2>2. ThreadType'
      BY <1>1, EmptyContent DEF Create, ThreadType
    <2>3. LockHeld' /\ Staged' /\ OneStaged'
      BY <1>1 DEF Create, Idle, flashVars, LockHeld, Staged, OneStaged, Clean, Fails, ThreadType
    <2> QED BY <2>1, <2>2, <2>3
  <1>2. CASE Close(t)
    <2>1. FlashType' /\ HistoryType'
      BY <1>2 DEF Close, flashVars, FlashType, HistoryType
    <2>2. ThreadType'
      BY <1>2, EmptyContent DEF Close, ThreadType
    <2>3. LockHeld' /\ Staged' /\ OneStaged'
      BY <1>2 DEF Close, Idle, flashVars, LockHeld, Staged, OneStaged, Clean, Fails, ThreadType
    <2> QED BY <2>1, <2>2, <2>3
  <1>3. CASE SetField(t)
    <2>1. FlashType' /\ HistoryType'
      BY <1>3 DEF SetField, flashVars, FlashType, HistoryType
    <2>2. PICK f \in Fields, v \in Scalars \cup Blobs :
            find_or_create(t, f) /\ fields' = [fields EXCEPT ![t][f] = v]
      BY <1>3 DEF SetField
    <2>3. [fields[t] EXCEPT ![f] = v] \in Content
      BY <2>2, SetKeepsContent DEF find_or_create, ThreadType, Values
    <2>4. ThreadType'
      BY <1>3, <2>2, <2>3 DEF SetField, ThreadType
    <2>5. LockHeld' /\ Staged' /\ OneStaged'
      BY <1>3, <2>2
       DEF SetField, Idle, flashVars, LockHeld, Staged, OneStaged, Clean, Fails, ThreadType
    <2> QED BY <2>1, <2>4, <2>5
  <1>4. CASE SetFieldFails(t)
    <2>1. FlashType' /\ HistoryType'
      BY <1>4 DEF SetFieldFails, flashVars, FlashType, HistoryType
    <2>2. PICK f \in Fields :
            find_or_create(t, f) /\ fields' = [fields EXCEPT ![t][f] = Hollow]
      BY <1>4 DEF SetFieldFails
    <2>3. [fields[t] EXCEPT ![f] = Hollow] \in Content
      BY <2>2, SetKeepsContent DEF find_or_create, ThreadType, Values
    <2>4. ThreadType'
      BY <1>4, <2>2, <2>3 DEF SetFieldFails, ThreadType
    <2>5. LockHeld' /\ Staged' /\ OneStaged'
      BY <1>4, <2>2
       DEF SetFieldFails, Idle, flashVars, LockHeld, Staged, OneStaged, Clean, Fails,
           ThreadType
    <2> QED BY <2>1, <2>4, <2>5
  <1>5. CASE Open(t)
    <2> PICK d \in Docs :
          /\ may' = [may EXCEPT ![d] = {Visible(d)}]
          /\ \/ /\ Parses(live[d])
                /\ hd' = [hd EXCEPT ![t] = d]
                /\ fields' = [fields EXCEPT ![t] = live[d]]
                /\ UNCHANGED flashVars
             \/ /\ live[d] = Absent /\ Parses(tmp[d])
                /\ hd' = [hd EXCEPT ![t] = d]
                /\ fields' = [fields EXCEPT ![t] = tmp[d]]
                /\ live' = [live EXCEPT ![d] = tmp[d]]
                /\ tmp' = [tmp EXCEPT ![d] = Absent]
             \/ /\ live[d] = Absent /\ ~Parses(tmp[d])
                /\ UNCHANGED <<hd, fields, flashVars>>
      BY <1>5 DEF Open
    <2>1. lock = NoThread /\ NoThread \notin Threads /\ pc[t] = "idle"
      BY <1>5, DocConstants DEF Open, Idle
    <2>2. \A u \in Threads : pc[u] = "idle"
      BY <2>1 DEF LockHeld
    <2>3. HistoryType'
      <3>1. may' \in [Docs -> SUBSET File]
        BY VisibleType DEF HistoryType
      <3> QED BY <1>5, <3>1 DEF Open, HistoryType
    <2>4. Parses(tmp[d]) => tmp[d] \in Content
      BY FileParses DEF FlashType
    <2>5. Parses(live[d]) => live[d] \in Content
      BY FileParses DEF FlashType
    <2>6. FlashType'
      <3>1. Absent \in File
        BY DEF File
      <3> QED BY <1>5, <2>4, <3>1, ContentIsFile DEF Open, flashVars, FlashType
    <2>7. ThreadType'
      BY <1>5, <2>4, <2>5 DEF Open, ThreadType
    <2>8. LockHeld' /\ Staged'
      BY <1>5, <2>2 DEF Open, LockHeld, Staged
    <2>9. OneStaged'
      BY <1>5, <2>2 DEF Open, OneStaged, Clean, Fails, flashVars, FlashType
    <2> QED BY <2>3, <2>6, <2>7, <2>8, <2>9
  <1> QED BY <1>1, <1>2, <1>3, <1>4, <1>5 DEF HandleStep

(* The end of a call: the lock is free, every thread is idle. *)
LEMMA ReturnKeeps ==
  ASSUME Inv, NEW t \in Threads, lock = t, pc[t] # "idle", NEW n \in SUBSET File,
         Return(t, n), UNCHANGED <<fs, hd, fields, boots>>, FlashType',
         Clean => \A d \in Docs : tmp'[d] = Absent
  PROVE  Inv'
  <1> USE DEF Inv, TypeOK
  <1>1. target[t] \in Docs
    BY DEF LockHeld
  <1>2. \A u \in Threads : pc'[u] = "idle"
    BY DEF Return, Go, LockHeld, ThreadType
  <1>3. ThreadType'
    BY DEF Return, Go, ThreadType, Places
  <1>4. HistoryType'
    BY <1>1 DEF Return, HistoryType
  <1>5. LockHeld' /\ Staged' /\ OneStaged'
    BY <1>2 DEF LockHeld, Staged, OneStaged,
          Clean, Fails
  <1> QED BY <1>3, <1>4, <1>5

(* Before the first power loss, a call that does not rename sees no staging     *)
(* file, and a call that does sees its own only.                                *)
LEMMA OthersAbsent ==
  ASSUME Inv, NEW t \in Threads, lock = t, Clean, NEW d \in Docs,
         pc[t] # "rename" \/ d # target[t]
  PROVE  tmp[d] = Absent
  BY DEF Inv, LockHeld, OneStaged

LEMMA SaveKeeps ==
  ASSUME Inv, NEW t \in Threads, SaveStep(t)
  PROVE  Inv'
  <1> USE DEF Inv, TypeOK
  <1>1. CASE CallSave(t)
    <2>1. lock = NoThread /\ NoThread \notin Threads /\ pc[t] = "idle" /\ hd[t] \in Docs
      BY <1>1, DocConstants DEF CallSave, Idle, ThreadType
    <2>2. \A u \in Threads : pc[u] = "idle"
      BY <2>1 DEF LockHeld
    <2>3. FlashType' /\ HistoryType'
      BY <1>1 DEF CallSave, flashVars, FlashType, HistoryType
    <2>4. ThreadType'
      BY <1>1, <2>1 DEF CallSave, Go, ThreadType, Places
    <2>5. LockHeld' /\ Staged' /\ OneStaged'
      BY <1>1, <2>1, <2>2
       DEF CallSave, Go, flashVars, LockHeld, Staged, OneStaged, Clean, Fails, ThreadType
    <2> QED BY <2>3, <2>4, <2>5
  <1>2. CASE SaveStage(t)
    <2>1. lock = t /\ pc[t] = "stage" /\ target[t] \in Docs /\ fields[t] \in Content
      BY <1>2 DEF SaveStage, LockHeld, ThreadType
    <2>2. \A u \in Threads : u # t => pc[u] = "idle"
      BY <2>1 DEF LockHeld
    <2>3. FlashType'
      BY <1>2, <2>1, ContentIsFile DEF SaveStage, FlashType
    <2>4. HistoryType'
      BY <1>2 DEF SaveStage, HistoryType
    <2>5. ThreadType'
      BY <1>2 DEF SaveStage, Go, ThreadType, Places
    <2>6. LockHeld' /\ Staged'
      BY <1>2, <2>1, <2>2 DEF SaveStage, Go, LockHeld, Staged, ThreadType, FlashType
    <2>7. OneStaged'
      <3> SUFFICES ASSUME Clean', NEW d \in Docs, tmp'[d] # Absent
                   PROVE  \E u \in Threads : pc'[u] = "rename" /\ target'[u] = d
        BY DEF OneStaged
      <3>1. tmp[d] = Absent
        BY <1>2, <2>1, OthersAbsent DEF SaveStage, Clean, Fails
      <3>2. d = target[t]
        BY <1>2, <3>1 DEF SaveStage, FlashType
      <3> QED BY <1>2, <3>2 DEF SaveStage, Go, ThreadType
    <2> QED BY <2>3, <2>4, <2>5, <2>6, <2>7
  <1>3. CASE SaveStageFails(t)
    <2>1. lock = t /\ pc[t] = "stage" /\ target[t] \in Docs
      BY <1>3 DEF SaveStageFails, LockHeld
    <2>2. FlashType'
      <3>1. fields[t] \in File
        BY ContentIsFile DEF ThreadType
      <3> QED BY <1>3, <3>1 DEF SaveStageFails, DropStaging, FlashType, File
    <2>3. Clean => \A d \in Docs : tmp'[d] = Absent
      BY <1>3, <2>1, OthersAbsent DEF SaveStageFails, DropStaging, Clean, FlashType
    <2>4. Return(t, may[target[t]]) /\ may[target[t]] \in SUBSET File
      BY <1>3, <2>1 DEF SaveStageFails, HistoryType
    <2> QED BY <1>3, <2>1, <2>2, <2>3, <2>4, ReturnKeeps DEF SaveStageFails
  <1>4. CASE SaveRename(t)
    <2>1. lock = t /\ pc[t] = "rename" /\ target[t] \in Docs
      BY <1>4 DEF SaveRename, LockHeld
    <2>2. fields[t] \in Content /\ tmp[target[t]] = fields[t]
      BY <2>1 DEF Staged, ThreadType
    <2>3. FlashType'
      BY <1>4, <2>2, ContentIsFile DEF SaveRename, FlashType, File
    <2>4. Clean => \A d \in Docs : tmp'[d] = Absent
      BY <1>4, <2>1, OthersAbsent DEF SaveRename, FlashType
    <2>5. Return(t, {fields[t]}) /\ {fields[t]} \in SUBSET File
      BY <1>4, <2>2, ContentIsFile DEF SaveRename
    <2> QED BY <1>4, <2>1, <2>3, <2>4, <2>5, ReturnKeeps DEF SaveRename
  <1>5. CASE SaveUnlink(t)
    <2>1. FlashType'
      BY <1>5, DocConstants DEF SaveUnlink, FlashType, File
    <2>2. ThreadType' /\ HistoryType'
      BY <1>5 DEF SaveUnlink, ThreadType, HistoryType
    <2>3. LockHeld' /\ Staged' /\ OneStaged'
      BY <1>5 DEF SaveUnlink, LockHeld, Staged, OneStaged,
          Clean, Fails
    <2> QED BY <2>1, <2>2, <2>3
  <1>6. CASE SaveRenameFails(t)
    <2>1. lock = t /\ pc[t] = "rename" /\ target[t] \in Docs
      BY <1>6 DEF SaveRenameFails, LockHeld
    <2>2. FlashType'
      BY <1>6 DEF SaveRenameFails, DropStaging, FlashType, File
    <2>3. Clean => \A d \in Docs : tmp'[d] = Absent
      BY <1>6, <2>1, OthersAbsent DEF SaveRenameFails, DropStaging, Clean, FlashType
    <2>4. Return(t, may[target[t]]) /\ may[target[t]] \in SUBSET File
      BY <1>6, <2>1 DEF SaveRenameFails, HistoryType
    <2> QED BY <1>6, <2>1, <2>2, <2>3, <2>4, ReturnKeeps DEF SaveRenameFails
  <1> QED BY <1>1, <1>2, <1>3, <1>4, <1>5, <1>6 DEF SaveStep

LEMMA DeleteKeeps ==
  ASSUME Inv, NEW t \in Threads, DeleteStep(t)
  PROVE  Inv'
  <1> USE DEF Inv, TypeOK
  <1>1. CASE CallDelete(t)
    <2>1. PICK d \in Docs : target' = [target EXCEPT ![t] = d]
      BY <1>1 DEF CallDelete
    <2>2. \A u \in Threads : pc[u] = "idle"
      BY <1>1, DocConstants DEF CallDelete, LockHeld
    <2>3. FlashType' /\ HistoryType'
      BY <1>1 DEF CallDelete, flashVars, FlashType, HistoryType
    <2>4. ThreadType'
      BY <1>1, <2>1 DEF CallDelete, Go, ThreadType, Places
    <2>5. LockHeld' /\ Staged' /\ OneStaged'
      BY <1>1, <2>1, <2>2
       DEF CallDelete, Go, flashVars, LockHeld, Staged, OneStaged, Clean, Fails, ThreadType
    <2> QED BY <2>3, <2>4, <2>5
  <1>2. CASE DeleteLive(t) \/ DeleteLiveFails(t)
    <2>1. pc[t] = "unlink" /\ lock = t
      BY <1>2 DEF DeleteLive, DeleteLiveFails, LockHeld
    <2>2. \A u \in Threads : u # t => pc[u] = "idle"
      BY <2>1 DEF LockHeld
    <2>3. FlashType'
      BY <1>2, DocConstants DEF DeleteLive, DeleteLiveFails, flashVars, FlashType, File
    <2>4. ThreadType' /\ HistoryType'
      BY <1>2 DEF DeleteLive, DeleteLiveFails, Go, ThreadType, HistoryType, Places
    <2>5. LockHeld' /\ Staged'
      BY <1>2, <2>1, <2>2
         DEF DeleteLive, DeleteLiveFails, Go, flashVars, LockHeld, Staged, ThreadType
    <2>6. OneStaged'
      BY <1>2, <2>1, <2>2, OthersAbsent 
         DEF DeleteLive, DeleteLiveFails, flashVars, OneStaged, Clean, Fails
    <2> QED BY <2>3, <2>4, <2>5, <2>6
  <1>3. CASE DeleteTmp(t)
    <2> DEFINE n == IF live[target[t]] = Absent THEN {Absent} ELSE may[target[t]]
    <2>1. lock = t /\ pc[t] = "unlink_tmp" /\ target[t] \in Docs
      BY <1>3 DEF DeleteTmp, LockHeld
    <2>2. FlashType'
      BY <1>3 DEF DeleteTmp, DropStaging, FlashType, File
    <2>3. Clean => \A d \in Docs : tmp'[d] = Absent
      BY <1>3, <2>1, OthersAbsent DEF DeleteTmp, DropStaging, Clean, FlashType
    <2>4. Return(t, n)
      BY <1>3 DEF DeleteTmp
    <2>5. n \in SUBSET File
      BY <2>1 DEF HistoryType, File
    <2> QED BY <1>3, <2>1, <2>2, <2>3, <2>4, <2>5, ReturnKeeps DEF DeleteTmp
  <1> QED BY <1>1, <1>2, <1>3 DEF DeleteStep

LEMMA PowerLossKeeps ==
  ASSUME Inv, PowerLoss
  PROVE  Inv'
  <1> USE DEF Inv, TypeOK
  <1>1. FlashType'
    BY DEF PowerLoss, FlashType
  <1>2. ThreadType'
    BY EmptyContent DEF PowerLoss, ThreadType, Places
  <1>3. HistoryType'
    <2>1. MaxBoots[fs] \in Nat
      BY DocConstants DEF FlashType
    <2>2. boots' \in 0..MaxBoots[fs]'
      BY <2>1 DEF PowerLoss, HistoryType
    <2>3. ASSUME NEW d \in Docs PROVE Interrupted(d) \subseteq File
      BY ContentIsFile DEF Interrupted, ThreadType, File
    <2>4. may' \in [Docs -> SUBSET File]
      BY <2>3 DEF PowerLoss, HistoryType
    <2> QED BY <2>2, <2>4 DEF HistoryType
  <1>4. LockHeld' /\ Staged'
    BY DEF PowerLoss, LockHeld, Staged
  <1>5. OneStaged'
    <2>1. MaxBoots[fs] \in Nat /\ boots \in 0..MaxBoots[fs]
      BY DocConstants DEF FlashType, HistoryType
    <2>2. boots' # 0
      BY <2>1 DEF PowerLoss
    <2> QED BY <2>2 DEF OneStaged, Clean, Fails
  <1> QED BY <1>1, <1>2, <1>3, <1>4, <1>5

LEMMA InvStutter ==
  ASSUME Inv, UNCHANGED vars
  PROVE  Inv'
  BY DEF vars, Inv, TypeOK, FlashType, ThreadType, HistoryType, LockHeld, Staged, OneStaged,
          Clean, Fails

LEMMA InvNext ==
  ASSUME Inv, [Next]_vars
  PROVE  Inv'
  <1>1. CASE PowerLoss
    BY <1>1, PowerLossKeeps
  <1>2. ASSUME NEW t \in Threads, HandleStep(t) \/ SaveStep(t) \/ DeleteStep(t)
        PROVE  Inv'
    BY <1>2, HandleKeeps, SaveKeeps, DeleteKeeps
  <1>3. CASE UNCHANGED vars
    BY <1>3, InvStutter
  <1> QED BY <1>1, <1>2, <1>3 DEF Next

LEMMA InvAlways == Spec => []Inv
  BY InvInit, InvNext, PTL DEF Spec

--------------------------------------------------------------------------------

(* Every variable stays in its range: whichever file system calls fail, and at  *)
(* whichever point the power is lost, zdb_doc_save() never puts a file that was *)
(* not written to its end in the place of a document, and no handle or file has *)
(* more fields than CONFIG_ZDB_DOC_MAX_FIELD_COUNT.                             *)
THEOREM TypeCorrect == Spec => []TypeOK
  <1>1. Inv => TypeOK
    BY DEF Inv
  <1> QED BY <1>1, InvAlways, PTL

(* zdb_doc_save() and zdb_doc_delete() remove the staging file on every way     *)
(* out: without a power loss, and if it can be removed, there is none while     *)
(* nobody holds the lock.                                                       *)
THEOREM StagingRemoved == Spec => []StagingTransient
  <1>1. Inv => StagingTransient
    <2> SUFFICES ASSUME Inv, lock = NoThread, Clean, NEW d \in Docs
                 PROVE  tmp[d] = Absent
      BY DEF StagingTransient
    <2>1. \A t \in Threads : pc[t] = "idle"
      BY DocConstants DEF Inv, LockHeld
    <2> QED BY <2>1 DEF Inv, OneStaged
  <1> QED BY <1>1, InvAlways, PTL

--------------------------------------------------------------------------------
(* What an open may find. *)

(* When the store keeps its promise: one power loss at most, because a second   *)
(* one between the two unlinks of a delete brings a stale staging file back; a  *)
(* staging file can be removed; and on FAT, where a save removes the live file  *)
(* before its second rename, neither that rename fails nor a write after it.    *)
DocAssumptions ==
  \A f \in FileSystems :
    /\ MaxBoots[f] <= 1
    /\ "unlink_tmp" \notin Faults[f]
    /\ f = "fat" => Faults[f] \cap {"write", "rename"} = {}

(* A call is at place p with document d. *)
At(q, g, d, p) == \E t \in Threads : q[t] = p /\ g[t] = d

(* A document with live file l and staging file m, of which y may be found; a   *)
(* save of it is about to rename, or a delete removed the live file.  The live  *)
(* file, a staging file that an open would promote, and the absence of both     *)
(* were promised; on LittleFS also the absence of the live file alone, so that  *)
(* a save that fails may drop what an interrupted one staged.                   *)
Promised(l, m, y, renames, deletes) ==
  /\ l # Absent => l \in y
  /\ l = Absent /\ Parses(m) /\ ~renames /\ ~deletes => m \in y
  /\ l = Absent /\ ~deletes /\ (fs = "littlefs" \/ (~Parses(m) /\ ~renames)) => Absent \in y

KeptDoc(d) ==
  Promised(live[d], tmp[d], may[d], At(pc, target, d, "rename"), At(pc, target, d, "unlink_tmp"))
Kept == \A d \in Docs : KeptDoc(d)

LEMMA AloneAt ==
  ASSUME NEW q, NEW g, NEW t \in Threads, \A u \in Threads : u # t => q[u] = "idle",
         NEW d, NEW p, p # "idle"
  PROVE  At(q, g, d, p) <=> q[t] = p /\ g[t] = d
  BY DEF At

LEMMA NobodyAt ==
  ASSUME NEW q, NEW g, \A u \in Threads : q[u] = "idle", NEW d, NEW p, p # "idle"
  PROVE  ~At(q, g, d, p)
  BY DEF At

(* A document that the step leaves alone, files, promise and calls. *)
LEMMA KeptSame ==
  ASSUME NEW d, KeptDoc(d), fs' = fs, live'[d] = live[d], tmp'[d] = tmp[d], may'[d] = may[d],
         At(pc', target', d, "rename") <=> At(pc, target, d, "rename"),
         At(pc', target', d, "unlink_tmp") <=> At(pc, target, d, "unlink_tmp")
  PROVE  KeptDoc(d)'
  BY DEF KeptDoc, Promised, At

LEMMA Unlocked ==
  ASSUME Inv, lock = NoThread
  PROVE  \A t \in Threads : pc[t] = "idle"
  BY DocConstants DEF Inv, LockHeld

LEMMA OthersIdle ==
  ASSUME Inv, NEW t \in Threads, pc[t] # "idle"
  PROVE  lock = t /\ target[t] \in Docs /\ \A u \in Threads : u # t => pc[u] = "idle"
  BY DEF Inv, LockHeld

LEMMA KeptInit == Init => Kept
  BY DocConstants DEF Init, Kept, KeptDoc, Promised, Parses

LEMMA HandleKept ==
  ASSUME Inv, Kept, NEW t \in Threads, HandleStep(t)
  PROVE  Kept'
  <1>1. CASE Create(t) \/ Close(t) \/ SetField(t) \/ SetFieldFails(t)
    <2>1. UNCHANGED <<fs, live, tmp, may, pc, target>>
      BY <1>1 DEF Create, Close, SetField, SetFieldFails, flashVars
    <2> QED BY <2>1, KeptSame DEF Kept
  <1>2. CASE Open(t)
    <2>1. fs' = fs /\ pc' = pc /\ target' = target /\ \A u \in Threads : pc[u] = "idle"
      BY <1>2, Unlocked DEF Open
    <2>2. PICK d \in Docs :
            /\ may' = [may EXCEPT ![d] = {Visible(d)}]
            /\ \/ Parses(live[d]) /\ UNCHANGED flashVars
               \/ /\ live[d] = Absent /\ Parses(tmp[d])
                  /\ live' = [live EXCEPT ![d] = tmp[d]]
                  /\ tmp' = [tmp EXCEPT ![d] = Absent]
               \/ live[d] = Absent /\ ~Parses(tmp[d]) /\ UNCHANGED flashVars
      BY <1>2 DEF Open
    <2>3. /\ live \in [Docs -> File \ {Partial}] /\ tmp \in [Docs -> File]
          /\ may \in [Docs -> SUBSET File]
      BY DEF Inv, TypeOK, FlashType, HistoryType
    <2>4. ASSUME NEW e \in Docs, e # d PROVE KeptDoc(e)'
      BY <2>1, <2>2, <2>3, <2>4, KeptSame DEF Kept, flashVars
    <2>5. KeptDoc(d)'
      BY <2>2, <2>3 DEF KeptDoc, Promised, Visible, Parses, flashVars
    <2> QED BY <2>4, <2>5 DEF Kept
  <1> QED BY <1>1, <1>2 DEF HandleStep

(* The document of the call in progress is the only one whose files, promise    *)
(* or place change.                                                             *)
LEMMA CallKept ==
  ASSUME Inv, Kept, NEW t \in Threads, pc[t] # "idle", fs' = fs, NEW c \in Docs, target[t] = c,
         \A u \in Threads : u # t => pc'[u] = pc[u],
         \/ pc'[t] = "idle"
         \/ target'[t] = c,
         \A d \in Docs : d # c => live'[d] = live[d] /\ tmp'[d] = tmp[d] /\ may'[d] = may[d],
         KeptDoc(c)'
  PROVE  Kept'
  <1>1. \A u \in Threads : u # t => pc[u] = "idle" /\ pc'[u] = "idle"
    BY OthersIdle
  <1>2. ASSUME NEW d \in Docs, d # c PROVE KeptDoc(d)'
    <2>1. /\ ~At(pc, target, d, "rename") /\ ~At(pc, target, d, "unlink_tmp")
          /\ ~At(pc', target', d, "rename") /\ ~At(pc', target', d, "unlink_tmp")
      BY <1>1, <1>2 DEF At
    <2> QED BY <1>2, <2>1, KeptSame DEF Kept
  <1> QED BY <1>2 DEF Kept

LEMMA NoStagingFault ==
  ASSUME DocAssumptions, Inv
  PROVE  /\ ~Fails("unlink_tmp") /\ MaxBoots[fs] \in Nat /\ MaxBoots[fs] <= 1
         /\ fs \in {"littlefs", "fat"}
         /\ Fails("write") \/ Fails("rename") => fs = "littlefs"
  BY DocConstants DEF DocAssumptions, Inv, TypeOK, FlashType, Fails

LEMMA DropsStaging ==
  ASSUME DocAssumptions, Inv, NEW t \in Threads, target[t] \in Docs, NEW left,
         tmp' \in DropStaging(t, left)
  PROVE  tmp' = [tmp EXCEPT ![target[t]] = Absent]
  BY NoStagingFault DEF DropStaging

LEMMA SaveKept ==
  ASSUME DocAssumptions, Inv, Kept, NEW t \in Threads, SaveStep(t)
  PROVE  Kept'
  <1>1. CASE CallSave(t)
    <2>1. UNCHANGED <<fs, live, tmp, may>> /\ pc' = [pc EXCEPT ![t] = "stage"]
      BY <1>1 DEF CallSave, Go, flashVars
    <2>2. pc \in [Threads -> Places] /\ \A u \in Threads : pc[u] = "idle"
      BY <1>1, Unlocked DEF CallSave, Inv, TypeOK, ThreadType
    <2>3. ASSUME NEW d \in Docs PROVE KeptDoc(d)'
      <3>1. /\ ~At(pc, target, d, "rename") /\ ~At(pc, target, d, "unlink_tmp")
            /\ ~At(pc', target', d, "rename") /\ ~At(pc', target', d, "unlink_tmp")
        BY <2>1, <2>2 DEF At
      <3> QED BY <2>1, <3>1, KeptSame DEF Kept
    <2> QED BY <2>3 DEF Kept
  <1>2. CASE ~CallSave(t)
    <2>1. pc[t] \in {"stage", "rename"} /\ fs' = fs
      BY <1>2 DEF SaveStep, SaveStage, SaveStageFails, SaveRename, SaveUnlink, SaveRenameFails
    <2>2. PICK d \in Docs : d = target[t]
      BY <2>1, OthersIdle
    <2>3. lock = t /\ \A u \in Threads : u # t => pc[u] = "idle"
      BY <2>1, OthersIdle
    <2>4. /\ live \in [Docs -> File \ {Partial}] /\ tmp \in [Docs -> File]
          /\ may \in [Docs -> SUBSET File] /\ pc \in [Threads -> Places]
          /\ target \in [Threads -> Docs \cup {NoDoc}] /\ fields[t] \in Content
      BY DEF Inv, TypeOK, FlashType, HistoryType, ThreadType
    <2>5. /\ At(pc, target, d, "rename") <=> pc[t] = "rename"
          /\ ~At(pc, target, d, "unlink_tmp")
      BY <2>1, <2>2, <2>3, AloneAt
    <2>6. KeptDoc(d)
      BY DEF Kept
    <2>7. CASE SaveStage(t)
      <3>1. /\ tmp' = [tmp EXCEPT ![d] = fields[t]] /\ live' = live /\ may' = may
            /\ target' = target /\ pc' = [pc EXCEPT ![t] = "rename"]
        BY <2>2, <2>7 DEF SaveStage, Go
      <3>2. pc'[t] = "rename" /\ \A u \in Threads : u # t => pc'[u] = pc[u]
        BY <2>4, <3>1
      <3>3. At(pc', target', d, "rename") /\ ~At(pc', target', d, "unlink_tmp")
        BY <2>2, <2>3, <3>1, <3>2 DEF At
      <3>4. KeptDoc(d)'
        BY <2>1, <2>5, <2>6, <2>7, <3>1, <3>3 DEF KeptDoc, Promised, SaveStage
      <3> QED BY <2>1, <2>2, <2>4, <3>1, <3>2, <3>4, CallKept
    <2>8. ASSUME pc' = [pc EXCEPT ![t] = "idle"], live' = live, may' = may,
                 tmp' \in {tmp, [tmp EXCEPT ![d] = Absent]},
                 live[d] = Absent => fs = "littlefs",
                 tmp' = tmp => pc[t] = "stage"
          PROVE  Kept'
      <3>1. pc'[t] = "idle" /\ \A u \in Threads : u # t => pc'[u] = pc[u]
        BY <2>4, <2>8
      <3>2. ~At(pc', target', d, "rename") /\ ~At(pc', target', d, "unlink_tmp")
        BY <2>3, <3>1 DEF At
      <3>3. tmp'[d] = Absent \/ (tmp'[d] = tmp[d] /\ pc[t] = "stage")
        BY <2>4, <2>8
      <3>4. KeptDoc(d)'
        BY <2>1, <2>5, <2>6, <2>8, <3>2, <3>3 DEF KeptDoc, Promised, Parses
      <3>5. \A e \in Docs : e # d => live'[e] = live[e] /\ tmp'[e] = tmp[e] /\ may'[e] = may[e]
        BY <2>4, <2>8
      <3> QED BY <2>1, <2>2, <3>1, <3>4, <3>5, CallKept
    <2>9. CASE SaveStageFails(t)
      <3>1. fs = "littlefs" /\ live' = live /\ pc[t] = "stage"
        BY <2>9, NoStagingFault DEF SaveStageFails
      <3>2. tmp' \in {tmp, [tmp EXCEPT ![d] = Absent]}
        BY <2>2, <2>9, DropsStaging DEF SaveStageFails
      <3>3. pc' = [pc EXCEPT ![t] = "idle"] /\ may' = [may EXCEPT ![d] = may[d]]
        BY <2>2, <2>9 DEF SaveStageFails, Return, Go
      <3>4. may' = may
        BY <2>4, <3>3
      <3> QED BY <2>8, <3>1, <3>2, <3>3, <3>4
    <2>10. CASE SaveRenameFails(t)
      <3>1. live' = live /\ tmp' = [tmp EXCEPT ![d] = Absent] /\ pc[t] = "rename"
        BY <2>2, <2>10, DropsStaging DEF SaveRenameFails
      <3>2. live[d] = Absent => fs = "littlefs"
        BY <2>2, <2>10, NoStagingFault DEF SaveRenameFails, Refused
      <3>3. pc' = [pc EXCEPT ![t] = "idle"] /\ may' = [may EXCEPT ![d] = may[d]]
        BY <2>2, <2>10 DEF SaveRenameFails, Return, Go
      <3>4. may' = may
        BY <2>4, <3>3
      <3>5. tmp' # tmp
        <4>1. tmp[d] = fields[t] /\ tmp[d] # Absent
          BY <2>2, <2>4, <3>1, ContentIsFile DEF Inv, Staged
        <4> QED BY <2>4, <3>1, <4>1
      <3> QED BY <2>8, <3>1, <3>2, <3>3, <3>4, <3>5
    <2>11. CASE SaveRename(t)
      <3>1. tmp[d] = fields[t] /\ fields[t] # Absent
        BY <2>2, <2>4, <2>11, ContentIsFile DEF SaveRename, Inv, Staged
      <3>2. /\ live' = [live EXCEPT ![d] = fields[t]] /\ tmp' = [tmp EXCEPT ![d] = Absent]
            /\ may' = [may EXCEPT ![d] = {fields[t]}] /\ pc' = [pc EXCEPT ![t] = "idle"]
        BY <2>2, <2>11, <3>1 DEF SaveRename, Return, Go
      <3>3. pc'[t] = "idle" /\ \A u \in Threads : u # t => pc'[u] = pc[u]
        BY <2>4, <3>2
      <3>4. live'[d] = fields[t] /\ may'[d] = {fields[t]}
        BY <2>4, <3>2
      <3>5. KeptDoc(d)'
        BY <3>1, <3>4 DEF KeptDoc, Promised
      <3>6. \A e \in Docs : e # d => live'[e] = live[e] /\ tmp'[e] = tmp[e] /\ may'[e] = may[e]
        BY <2>4, <3>2
      <3> QED BY <2>1, <2>2, <3>3, <3>5, <3>6, CallKept
    <2>12. CASE SaveUnlink(t)
      <3>1. /\ live' = [live EXCEPT ![d] = Absent] /\ pc[t] = "rename" /\ fs = "fat"
            /\ UNCHANGED <<tmp, may, pc, target>>
        BY <2>2, <2>12 DEF SaveUnlink, Refused
      <3>2. At(pc', target', d, "rename") /\ live'[d] = Absent
        BY <2>4, <2>5, <3>1
      <3>3. KeptDoc(d)'
        BY <2>1, <3>1, <3>2 DEF KeptDoc, Promised
      <3>4. \A e \in Docs : e # d => live'[e] = live[e] /\ tmp'[e] = tmp[e] /\ may'[e] = may[e]
        BY <2>4, <3>1
      <3> QED BY <2>1, <2>2, <3>1, <3>3, <3>4, CallKept
    <2> QED BY <1>2, <2>7, <2>9, <2>10, <2>11, <2>12 DEF SaveStep
  <1> QED BY <1>1, <1>2

LEMMA DeleteKept ==
  ASSUME DocAssumptions, Inv, Kept, NEW t \in Threads, DeleteStep(t)
  PROVE  Kept'
  <1>1. CASE CallDelete(t)
    <2>1. UNCHANGED <<fs, live, tmp, may>> /\ pc' = [pc EXCEPT ![t] = "unlink"]
      BY <1>1 DEF CallDelete, Go, flashVars
    <2>2. pc \in [Threads -> Places] /\ \A u \in Threads : pc[u] = "idle"
      BY <1>1, Unlocked DEF CallDelete, Inv, TypeOK, ThreadType
    <2>3. ASSUME NEW d \in Docs PROVE KeptDoc(d)'
      <3>1. /\ ~At(pc, target, d, "rename") /\ ~At(pc, target, d, "unlink_tmp")
            /\ ~At(pc', target', d, "rename") /\ ~At(pc', target', d, "unlink_tmp")
        BY <2>1, <2>2 DEF At
      <3> QED BY <2>1, <3>1, KeptSame DEF Kept
    <2> QED BY <2>3 DEF Kept
  <1>2. CASE ~CallDelete(t)
    <2>1. pc[t] \in {"unlink", "unlink_tmp"} /\ fs' = fs
      BY <1>2 DEF DeleteStep, DeleteLive, DeleteLiveFails, DeleteTmp
    <2>2. PICK d \in Docs : d = target[t]
      BY <2>1, OthersIdle
    <2>3. \A u \in Threads : u # t => pc[u] = "idle"
      BY <2>1, OthersIdle
    <2>4. /\ live \in [Docs -> File \ {Partial}] /\ tmp \in [Docs -> File]
          /\ may \in [Docs -> SUBSET File] /\ pc \in [Threads -> Places]
      BY DEF Inv, TypeOK, FlashType, HistoryType, ThreadType
    <2>5. KeptDoc(d)
      BY DEF Kept
    <2>6. CASE DeleteLive(t) \/ DeleteLiveFails(t)
      <3>1. /\ live' \in {live, [live EXCEPT ![d] = Absent]} /\ UNCHANGED <<tmp, may, target>>
            /\ pc' = [pc EXCEPT ![t] = "unlink_tmp"]
        BY <2>2, <2>6 DEF DeleteLive, DeleteLiveFails, Go, flashVars
      <3>2. pc'[t] = "unlink_tmp" /\ \A u \in Threads : u # t => pc'[u] = pc[u]
        BY <2>4, <3>1
      <3>3. At(pc', target', d, "unlink_tmp")
        BY <2>2, <3>1, <3>2 DEF At
      <3>4. live'[d] \in {live[d], Absent}
        BY <2>4, <3>1
      <3>5. KeptDoc(d)'
        BY <2>5, <3>1, <3>3, <3>4 DEF KeptDoc, Promised
      <3>6. \A e \in Docs : e # d => live'[e] = live[e] /\ tmp'[e] = tmp[e] /\ may'[e] = may[e]
        BY <2>4, <3>1
      <3> QED BY <2>1, <2>2, <3>1, <3>2, <3>5, <3>6, CallKept
    <2>7. CASE DeleteTmp(t)
      <3>1. live' = live /\ tmp' = [tmp EXCEPT ![d] = Absent] /\ pc' = [pc EXCEPT ![t] = "idle"]
        BY <2>2, <2>7, DropsStaging DEF DeleteTmp, Return, Go
      <3>2. may' = [may EXCEPT ![d] = IF live[d] = Absent THEN {Absent} ELSE may[d]]
        BY <2>2, <2>7 DEF DeleteTmp, Return
      <3>3. pc'[t] = "idle" /\ \A u \in Threads : u # t => pc'[u] = pc[u]
        BY <2>4, <3>1
      <3>4. tmp'[d] = Absent /\ may'[d] = IF live[d] = Absent THEN {Absent} ELSE may[d]
        BY <2>4, <3>1, <3>2
      <3>5. KeptDoc(d)'
        BY <2>5, <3>1, <3>4 DEF KeptDoc, Promised, Parses
      <3>6. \A e \in Docs : e # d => live'[e] = live[e] /\ tmp'[e] = tmp[e] /\ may'[e] = may[e]
        BY <2>4, <3>1, <3>2
      <3> QED BY <2>1, <2>2, <3>3, <3>5, <3>6, CallKept
    <2> QED BY <1>2, <2>6, <2>7 DEF DeleteStep
  <1> QED BY <1>1, <1>2

(* The first power loss finds no staging file but that of a save about to       *)
(* rename it, or one that is being written.                                     *)
LEMMA PowerLossKept ==
  ASSUME DocAssumptions, Inv, Kept, PowerLoss
  PROVE  Kept'
  <1>1. Clean
    <2>1. boots \in 0..MaxBoots[fs] /\ boots < MaxBoots[fs]
      BY DEF PowerLoss, Inv, TypeOK, HistoryType
    <2>2. boots = 0
      BY <2>1, NoStagingFault
    <2> QED BY <2>2, NoStagingFault DEF Clean
  <1>2. /\ fs' = fs /\ live' = live /\ may' = [d \in Docs |-> may[d] \cup Interrupted(d)]
        /\ \A u \in Threads : pc'[u] = "idle"
        /\ \A d \in Docs : tmp'[d] \in CrashImages(d)
    BY DEF PowerLoss
  <1> SUFFICES ASSUME NEW d \in Docs PROVE KeptDoc(d)'
    BY DEF Kept
  <1>3. KeptDoc(d) /\ may'[d] = may[d] \cup Interrupted(d)
    BY <1>2 DEF Kept
  <1>4. ~At(pc', target', d, "rename") /\ ~At(pc', target', d, "unlink_tmp")
    BY <1>2 DEF At
  <1>5. CASE At(pc, target, d, "rename")
    <2>1. PICK t \in Threads : pc[t] = "rename" /\ target[t] = d
      BY <1>5 DEF At
    <2>2. \A u \in Threads : u # t => pc[u] = "idle"
      BY <2>1, OthersIdle
    <2>3. tmp[d] = fields[t] /\ fields[t] \in Content
      BY <2>1 DEF Inv, Staged, TypeOK, ThreadType
    <2>4. CrashImages(d) = {tmp[d]} /\ fields[t] \in Interrupted(d)
      BY <2>1, <2>2 DEF CrashImages, Interrupted
    <2>5. ~At(pc, target, d, "unlink_tmp")
      BY <2>1, <2>2 DEF At
    <2>6. tmp'[d] = fields[t] /\ Parses(tmp'[d])
      BY <1>2, <2>3, <2>4, ContentIsFile
    <2> QED BY <1>2, <1>3, <1>4, <2>4, <2>5, <2>6 DEF KeptDoc, Promised
  <1>6. CASE ~At(pc, target, d, "rename")
    <2>1. tmp[d] = Absent
      BY <1>1, <1>6 DEF Inv, OneStaged, At
    <2>2. tmp'[d] \in {Absent, Partial}
      BY <1>2, <2>1 DEF CrashImages
    <2>3. At(pc, target, d, "unlink_tmp") => Absent \in Interrupted(d)
      <3>1. ASSUME NEW t \in Threads, pc[t] = "unlink_tmp", target[t] = d
            PROVE  Absent \in Interrupted(d)
        BY <3>1 DEF Interrupted
      <3> QED BY <3>1 DEF At
    <2> QED BY <1>2, <1>3, <1>4, <1>6, <2>1, <2>2, <2>3 DEF KeptDoc, Promised, Parses
  <1> QED BY <1>5, <1>6

LEMMA KeptNext ==
  ASSUME DocAssumptions, Inv, Kept, [Next]_vars
  PROVE  Kept'
  <1>1. CASE PowerLoss
    BY <1>1, PowerLossKept
  <1>2. ASSUME NEW t \in Threads, HandleStep(t) \/ SaveStep(t) \/ DeleteStep(t)
        PROVE  Kept'
    BY <1>2, HandleKept, SaveKept, DeleteKept
  <1>3. CASE UNCHANGED vars
    BY <1>3, KeptSame DEF Kept, vars
  <1> QED BY <1>1, <1>2, <1>3 DEF Next

LEMMA KeptAlways ==
  ASSUME DocAssumptions
  PROVE  Spec => []Kept
  <1>1. Inv /\ Kept /\ [Next]_vars => Kept'
    BY KeptNext
  <1> QED BY <1>1, KeptInit, InvAlways, PTL DEF Spec

(* zdb_doc_save(), zdb_doc_delete() and zdb_doc_open() with a power loss at any *)
(* point and the failures of DocAssumptions: for any number of threads,         *)
(* documents and fields, an open finds what the last call that returned left,   *)
(* or what the call that the power loss interrupted wrote; never a part of a    *)
(* file, and never an older version that a failed or interrupted call left.     *)
THEOREM DocumentsSurvive ==
  ASSUME DocAssumptions
  PROVE  Spec => []StoredIntact
  <1>1. Inv /\ Kept => StoredIntact
    <2> SUFFICES ASSUME Inv, Kept, lock = NoThread, NEW d \in Docs
                 PROVE  Visible(d) \in may[d]
      BY DEF StoredIntact
    <2>1. ~At(pc, target, d, "rename") /\ ~At(pc, target, d, "unlink_tmp")
      BY Unlocked DEF At
    <2>2. KeptDoc(d)
      BY DEF Kept
    <2> QED BY <2>1, <2>2 DEF KeptDoc, Promised, Visible
  <1> QED BY <1>1, InvAlways, KeptAlways, PTL

--------------------------------------------------------------------------------
(* Numbers and folds *)

LEMMA LeastOf ==
  ASSUME NEW S \in SUBSET Nat, S # {}
  PROVE  \E i \in S : \A j \in S : i <= j
  <1> DEFINE R == OpToRel(<, Nat)
  <1>1. IsWellFoundedOn(R, Nat)
    BY NatLessThanWellFounded
  <1>2. PICK i \in S : \A j \in S : <<j, i>> \notin R
    <2> HIDE DEF R
    <2> QED BY <1>1, WFMin
  <1>3. \A j \in S : ~(j < i)
    BY <1>2 DEF OpToRel
  <1> QED BY <1>3

(* Induction on a number, for a set of numbers. *)
LEMMA CountingUp ==
  ASSUME NEW S \in SUBSET Nat, 0 \in S, \A n \in S : n + 1 \in S
  PROVE  S = Nat
  <1> SUFFICES ASSUME Nat \ S # {} PROVE FALSE
    OBVIOUS
  <1>1. PICK n \in Nat \ S : \A m \in Nat \ S : n <= m
    BY LeastOf
  <1>2. n # 0 /\ n - 1 \in Nat /\ n - 1 \in S
    BY <1>1
  <1> QED BY <1>1, <1>2

LEMMA MaxIn ==
  ASSUME NEW N \in Nat, NEW T \in SUBSET (1..N), T # {}
  PROVE  Max(T) \in T /\ \A j \in T : Max(T) >= j
  <1> DEFINE U == {u \in Nat : \A j \in T : j <= u}
  <1>1. N \in U /\ U \in SUBSET Nat
    OBVIOUS
  <1>2. PICK u \in U : \A v \in U : u <= v
    BY <1>1, LeastOf
  <1>3. u \in T
    <2> SUFFICES ASSUME u \notin T PROVE FALSE
      OBVIOUS
    <2>1. \A j \in T : j < u /\ j \in Nat
      BY <1>2
    <2>2. PICK j \in T : TRUE
      OBVIOUS
    <2>3. u - 1 \in Nat /\ \A k \in T : k <= u - 1
      BY <1>2, <2>1, <2>2
    <2> QED BY <1>2, <2>3
  <1>4. \A j \in T : u >= j
    BY <1>2
  <1> QED BY <1>3, <1>4 DEF Max

LEMMA MaxPrefix ==
  ASSUME NEW n \in Nat
  PROVE  Max(1..(n + 1)) = n + 1 /\ (1..(n + 1)) \ {n + 1} = 1..n /\ 1..(n + 1) # {}
  <1>1. n + 1 \in Nat /\ n + 1 \in 1..(n + 1) /\ 1..(n + 1) \in SUBSET (1..(n + 1))
    OBVIOUS
  <1>2. Max(1..(n + 1)) \in 1..(n + 1) /\ Max(1..(n + 1)) >= n + 1
    BY <1>1, MaxIn
  <1> QED BY <1>1, <1>2

(* What the scans of X become at document d. *)
Grow(q, X, d) == UNION {Visit(q, sc, d) : sc \in X}

(* g is the recursive function FoldLeft is defined with. *)
Folds(g, q, f, N) ==
  g = [T \in SUBSET (1..N) |->
         IF T = {} THEN {Blank} ELSE Grow(q, g[T \ {Max(T)}], f[Max(T)])]

LEMMA PartSize ==
  ASSUME NEW N \in Nat, NEW T \in SUBSET (1..N)
  PROVE  /\ Cardinality(T) \in Nat /\ Cardinality(T) <= N
         /\ T # {} => Cardinality(T \ {Max(T)}) = Cardinality(T) - 1
         /\ T = {} => Cardinality(T) = 0
         /\ T # {} => Cardinality(T) > 0
  <1>1. IsFiniteSet(1..N) /\ Cardinality(1..N) = N
    BY FS_Interval
  <1>2. IsFiniteSet(T) /\ Cardinality(T) <= N /\ Cardinality(T) \in Nat
    BY <1>1, FS_Subset, FS_CardinalityType
  <1>3. T = {} <=> Cardinality(T) = 0
    BY <1>2, FS_EmptySet
  <1>4. T # {} => Cardinality(T \ {Max(T)}) = Cardinality(T) - 1
    BY <1>2, FS_RemoveElement, MaxIn
  <1>5. Cardinality(T) # 0 => Cardinality(T) > 0
    BY <1>2
  <1> QED BY <1>2, <1>3, <1>4, <1>5, Zenon

LEMMA FoldExists ==
  ASSUME NEW q, NEW N \in Nat, NEW f
  PROVE  \E g : Folds(g, q, f, N)
  <1> DEFINE Parts == SUBSET (1..N)
             Step(g, T) == IF T = {} THEN {Blank} ELSE Grow(q, g[T \ {Max(T)}], f[Max(T)])
             UpTo(n) == \E g : \A T \in Parts : Cardinality(T) <= n => g[T] = Step(g, T)
             S == {n \in Nat : UpTo(n)}
  <1>1. UpTo(0)
    <2> DEFINE g == [T \in Parts |-> {Blank}]
    <2>1. \A T \in Parts : Cardinality(T) <= 0 => g[T] = Step(g, T)
      BY PartSize, SMTT(30)
    <2> QED BY <2>1
  <1>2. ASSUME NEW n \in S PROVE UpTo(n + 1)
    <2>1. PICK g : \A T \in Parts : Cardinality(T) <= n => g[T] = Step(g, T)
      OBVIOUS
    <2> DEFINE h == [T \in Parts |-> Step(g, T)]
    <2>2. ASSUME NEW T \in Parts, Cardinality(T) <= n + 1, T # {}
          PROVE  h[T \ {Max(T)}] = g[T \ {Max(T)}]
      <3> DEFINE V == T \ {Max(T)}
      <3>1. V \in Parts /\ Cardinality(V) <= n
        <4>1. Cardinality(V) = Cardinality(T) - 1 /\ Cardinality(T) \in Nat
          BY <2>2, PartSize
        <4>2. n \in Nat /\ Cardinality(T) <= n + 1
          BY <2>2
        <4>3. V \in Parts
          OBVIOUS
        <4> HIDE DEF V, S
        <4> QED BY <4>1, <4>2, <4>3
      <3>2. h[V] = Step(g, V)
        BY <3>1
      <3> QED BY <2>1, <3>1, <3>2
    <2>3. \A T \in Parts : Cardinality(T) <= n + 1 => h[T] = Step(h, T)
      BY <2>2
    <2> HIDE DEF h
    <2> QED BY <2>3
  <1>3. S = Nat
    <2> HIDE DEF UpTo
    <2>1. S \in SUBSET Nat /\ 0 \in S
      BY <1>1
    <2>2. \A n \in S : n + 1 \in S
      BY <1>2
    <2> HIDE DEF S
    <2> QED BY <2>1, <2>2, CountingUp
  <1>4. PICK g : \A T \in Parts : g[T] = Step(g, T)
    <2>1. UpTo(N)
      BY <1>3
    <2> QED BY <2>1, PartSize
  <1> DEFINE h == [T \in Parts |-> g[T]]
  <1>5. h = [T \in Parts |-> Step(h, T)]
    <2>1. \A T \in Parts : Step(h, T) = Step(g, T)
      BY MaxIn
    <2> QED BY <1>4, <2>1
  <1> QED BY <1>5 DEF Folds

(* The scans over a listing, and its steps. *)
ScansOf(q, f) ==
  FoldLeft(LAMBDA scans, d : UNION {Visit(q, sc, d) : sc \in scans}, {Blank}, f)

ScanSteps(g, q, f, N) ==
  /\ ScansOf(q, f) = g[1..N] /\ g[1..0] = {Blank}
  /\ \A n \in 0..(N - 1) : g[1..(n + 1)] = Grow(q, g[1..n], f[n + 1])

LEMMA ScanFold ==
  ASSUME NEW q, NEW N \in Nat, NEW f, DOMAIN f = 1..N
  PROVE  \E g : ScanSteps(g, q, f, N)
  <1> DEFINE D(g) == Folds(g, q, f, N)
  <1>1. ScansOf(q, f) = (CHOOSE g : D(g))[1..N]
    BY Zenon DEF ScansOf, FoldLeft, MapThenFoldSet, Folds, Grow
  <1>2. \E g : D(g)
    BY FoldExists
  <1>3. PICK g : g = CHOOSE h : D(h)
    OBVIOUS
  <1>4. D(g)
    <2> HIDE DEF D
    <2> QED BY <1>2, <1>3
  <1>5. \A T \in SUBSET (1..N) :
          g[T] = IF T = {} THEN {Blank} ELSE Grow(q, g[T \ {Max(T)}], f[Max(T)])
    BY <1>4 DEF Folds
  <1>6. g[1..0] = {Blank}
    <2>1. 1..0 = {}
      OBVIOUS
    <2> QED BY <1>5, <2>1
  <1>7. ASSUME NEW n \in 0..(N - 1) PROVE g[1..(n + 1)] = Grow(q, g[1..n], f[n + 1])
    <2>1. n \in Nat /\ 1..(n + 1) \in SUBSET (1..N)
      OBVIOUS
    <2> QED BY <1>5, <2>1, MaxPrefix, ZenonT(30)
  <1>8. ScansOf(q, f) = g[1..N]
    BY <1>1, <1>3, Zenon
  <1> QED BY <1>6, <1>7, <1>8 DEF ScanSteps

--------------------------------------------------------------------------------
(* The scan *)

Hits(q, d) == Parses(live[d]) /\ matches_query(live[d], q)
(* The caller takes entries. *)
Takes(q) == q.buffer /\ q.capacity > 0

(* The documents that match, of the first n of the listing. *)
Met(q, f, n) == {d \in Docs : Hits(q, d) /\ \E k \in 1..n : f[k] = d}
Found(sc) == {sc.found[i] : i \in 1..Len(sc.found)}

ScanType ==
  [found : Seq(Docs), matched : Nat, stop : BOOLEAN, partial : BOOLEAN, skipped : BOOLEAN]

(* Entries: each once, a match, and no more than there is room for. *)
Entries(q, f, n, sc) ==
  /\ \A i, j \in 1..Len(sc.found) : sc.found[i] = sc.found[j] => i = j
  /\ Found(sc) \subseteq Met(q, f, n)
  /\ Takes(q) => Len(sc.found) <= q.capacity /\ (sc.stop \/ Len(sc.found) < q.capacity)
  /\ Takes(q) /\ ~Cut(q, sc) => Met(q, f, n) \subseteq Found(sc)

(* The number up to the limit. *)
Capped(q, n) == IF BelowLimit(q, n) THEN n ELSE q.limit

(* Counts: no more than the limit, and exact for a caller that takes no entries. *)
Counts(q, f, n, sc) ==
  /\ Len(sc.found) <= sc.matched
  /\ q.limit # 0 => sc.matched <= q.limit
  /\ ~Takes(q) => sc.found = <<>> /\ ~sc.stop /\ ~sc.partial
  /\ ~Takes(q) /\ ~sc.skipped => sc.matched = Capped(q, Cardinality(Met(q, f, n)))

(* The invariant of a scan that has come to the n-th document. *)
Scanned(q, f, n, sc) == sc \in ScanType /\ Entries(q, f, n, sc) /\ Counts(q, f, n, sc)

IsQuery(q) == q.limit \in Nat /\ q.capacity \in Nat /\ q.buffer \in BOOLEAN

LEMMA QueryType == ASSUME NEW q \in Queries PROVE IsQuery(q)
  BY QueryConstants DEF Queries, IsQuery

LEMMA MetEmpty == ASSUME NEW q, NEW f PROVE Met(q, f, 0) = {}
  BY DEF Met

(* One more document: it was not met before. *)
LEMMA MetGrows ==
  ASSUME IsFiniteSet(Docs), NEW q, NEW N \in Nat, NEW f \in [1..N -> Docs],
         \A i, j \in 1..N : i # j => f[i] # f[j], NEW n \in 0..(N - 1)
  PROVE  /\ f[n + 1] \in Docs /\ f[n + 1] \notin Met(q, f, n)
         /\ Met(q, f, n + 1) =
              IF Hits(q, f[n + 1]) THEN Met(q, f, n) \cup {f[n + 1]} ELSE Met(q, f, n)
         /\ Cardinality(Met(q, f, n)) \in Nat
         /\ Cardinality(Met(q, f, n + 1)) =
              IF Hits(q, f[n + 1]) THEN Cardinality(Met(q, f, n)) + 1
              ELSE Cardinality(Met(q, f, n))
  <1>1. n + 1 \in 1..N /\ f[n + 1] \in Docs /\ n \in Nat
    OBVIOUS
  <1>2. f[n + 1] \notin Met(q, f, n)
    <2> SUFFICES ASSUME NEW k \in 1..n, f[k] = f[n + 1] PROVE FALSE
      BY DEF Met
    <2>1. k \in 1..N /\ k # n + 1
      OBVIOUS
    <2> QED BY <1>1, <2>1
  <1>3. \A k : k \in 1..(n + 1) <=> k \in 1..n \/ k = n + 1
    BY <1>1
  <1>4. Met(q, f, n + 1) =
          IF Hits(q, f[n + 1]) THEN Met(q, f, n) \cup {f[n + 1]} ELSE Met(q, f, n)
    <2>1. ASSUME NEW d \in Docs
          PROVE  (\E k \in 1..(n + 1) : f[k] = d) <=> (\E k \in 1..n : f[k] = d) \/ d = f[n + 1]
      BY <1>3
    <2>2. \A d \in Docs : d \in Met(q, f, n + 1)
            <=> d \in Met(q, f, n) \/ (Hits(q, d) /\ d = f[n + 1])
      BY <2>1 DEF Met
    <2>3. Met(q, f, n) \subseteq Docs /\ Met(q, f, n + 1) \subseteq Docs
      BY DEF Met
    <2> QED BY <1>1, <2>2, <2>3
  <1>5. IsFiniteSet(Met(q, f, n))
    BY FS_Subset DEF Met
  <1>6. Cardinality(Met(q, f, n)) \in Nat
    BY <1>5, FS_CardinalityType
  <1>7. Cardinality(Met(q, f, n) \cup {f[n + 1]}) = Cardinality(Met(q, f, n)) + 1
    BY <1>2, <1>5, FS_AddElement
  <1> QED BY <1>1, <1>2, <1>4, <1>6, <1>7

LEMMA FoundAppend ==
  ASSUME NEW x \in Seq(Docs), NEW d \in Docs, \A i \in 1..Len(x) : x[i] # d,
         \A i, j \in 1..Len(x) : x[i] = x[j] => i = j
  PROVE  LET y == Append(x, d)
         IN  /\ y \in Seq(Docs) /\ Len(y) = Len(x) + 1 /\ Len(x) \in Nat
             /\ {y[i] : i \in 1..Len(y)} = {x[i] : i \in 1..Len(x)} \cup {d}
             /\ \A i, j \in 1..Len(y) : y[i] = y[j] => i = j
  <1> DEFINE y == Append(x, d)
  <1>1. y \in Seq(Docs) /\ Len(y) = Len(x) + 1 /\ Len(x) \in Nat
    OBVIOUS
  <1>2. y[Len(x) + 1] = d /\ \A i \in 1..Len(x) : y[i] = x[i]
    OBVIOUS
  <1>3. \A i : i \in 1..Len(y) <=> i \in 1..Len(x) \/ i = Len(x) + 1
    BY <1>1
  <1> HIDE DEF y
  <1>4. {y[i] : i \in 1..Len(y)} = {x[i] : i \in 1..Len(x)} \cup {d}
    <2>1. ASSUME NEW e \in {y[i] : i \in 1..Len(y)} PROVE e \in {x[i] : i \in 1..Len(x)} \cup {d}
      BY <1>2, <1>3
    <2>2. ASSUME NEW e \in {x[i] : i \in 1..Len(x)} PROVE e \in {y[i] : i \in 1..Len(y)}
      BY <1>2, <1>3
    <2>3. d \in {y[i] : i \in 1..Len(y)}
      BY <1>2, <1>3
    <2> QED BY <2>1, <2>2, <2>3
  <1>5. ASSUME NEW i \in 1..Len(y), NEW j \in 1..Len(y), y[i] = y[j] PROVE i = j
    BY <1>2, <1>3, <1>5
  <1> QED BY <1>1, <1>4, <1>5 DEF y

LEMMA BlankScanned ==
  ASSUME NEW q, IsQuery(q), NEW f
  PROVE  Scanned(q, f, 0, Blank)
  <1>1. Blank \in ScanType /\ Blank.found = <<>> /\ Blank.matched = 0
        /\ ~Blank.stop /\ ~Blank.partial /\ ~Blank.skipped
    BY DEF Blank, ScanType
  <1>2. Met(q, f, 0) = {} /\ Cardinality(Met(q, f, 0)) = 0
    BY MetEmpty, FS_EmptySet
  <1>3. Entries(q, f, 0, Blank)
    BY <1>1, <1>2 DEF Entries, Found, Takes, IsQuery
  <1>4. Capped(q, 0) = 0
    BY DEF Capped, BelowLimit, IsQuery
  <1>5. Counts(q, f, 0, Blank)
    BY <1>1, <1>2, <1>4 DEF Counts, IsQuery
  <1> QED BY <1>1, <1>3, <1>5 DEF Scanned

(* A document is passed over, reported, or lost to the heap. *)
LEMMA VisitKeeps ==
  ASSUME IsFiniteSet(Docs), NEW q, IsQuery(q), NEW N \in Nat, NEW f \in [1..N -> Docs],
         \A i, j \in 1..N : i # j => f[i] # f[j], NEW n \in 0..(N - 1),
         NEW sc, Scanned(q, f, n, sc), NEW nx \in Visit(q, sc, f[n + 1])
  PROVE  Scanned(q, f, n + 1, nx)
  <1> DEFINE d == f[n + 1]
             A == Met(q, f, n)
             B == Met(q, f, n + 1)
  <1>1. /\ d \in Docs /\ d \notin A /\ B = IF Hits(q, d) THEN A \cup {d} ELSE A
        /\ Cardinality(A) \in Nat
        /\ Cardinality(B) = IF Hits(q, d) THEN Cardinality(A) + 1 ELSE Cardinality(A)
    BY MetGrows
  <1>2. /\ sc \in ScanType /\ sc.found \in Seq(Docs) /\ Len(sc.found) \in Nat /\ sc.matched \in Nat
        /\ q.limit \in Nat /\ q.capacity \in Nat /\ q.buffer \in BOOLEAN
    BY DEF Scanned, ScanType, IsQuery
  <1>3. Entries(q, f, n, sc) /\ Counts(q, f, n, sc)
    BY DEF Scanned
  <1> DEFINE Pass == sc.stop \/ ~BelowLimit(q, sc.matched) \/ ~Hits(q, d)
  <1>4. \/ Pass /\ nx = sc
        \/ ~Pass /\ nx \in {Report(q, sc, d)} \cup HeapFails(q, sc)
    BY DEF Visit, Hits
  <1> HIDE DEF d, A, B, Pass
  <1>5. CASE Pass /\ nx = sc
    <2>1. Entries(q, f, n + 1, sc)
      BY <1>1, <1>3, <1>5 DEF Entries, Pass, Cut, A, B
    <2>2. ~Takes(q) /\ ~sc.skipped => sc.matched = Capped(q, Cardinality(B))
      <3> SUFFICES ASSUME ~Takes(q), ~sc.skipped PROVE sc.matched = Capped(q, Cardinality(B))
        OBVIOUS
      <3>1. ~sc.stop /\ sc.matched = Capped(q, Cardinality(A))
        BY <1>3 DEF Counts, A
      <3>2. CASE ~Hits(q, d)
        BY <1>1, <3>1, <3>2
      <3>3. CASE Hits(q, d)
        <4>1. ~BelowLimit(q, sc.matched) /\ Cardinality(B) = Cardinality(A) + 1
          BY <1>1, <1>5, <3>1, <3>3 DEF Pass
        <4> QED BY <1>1, <1>2, <3>1, <4>1 DEF Capped, BelowLimit
      <3> QED BY <3>2, <3>3
    <2>3. Counts(q, f, n + 1, sc)
      BY <1>3, <2>2 DEF Counts, B
    <2> QED BY <1>2, <1>5, <2>1, <2>3 DEF Scanned
  <1>6. CASE ~Pass
    <2>1. ~sc.stop /\ BelowLimit(q, sc.matched) /\ Hits(q, d)
      BY <1>6 DEF Pass
    <2>2. B = A \cup {d} /\ Cardinality(B) = Cardinality(A) + 1
      BY <1>1, <2>1
    <2>3. ~Takes(q) /\ ~sc.skipped => sc.matched + 1 = Capped(q, Cardinality(B))
      <3>1. ~Takes(q) /\ ~sc.skipped => sc.matched = Capped(q, Cardinality(A))
        BY <1>3 DEF Counts, A
      <3> QED BY <1>1, <1>2, <2>1, <2>2, <3>1 DEF Capped, BelowLimit
    <2>4. q.limit # 0 => sc.matched + 1 <= q.limit
      BY <1>2, <2>1 DEF BelowLimit
    <2>5. Takes(q) => Len(sc.found) < q.capacity
      BY <1>3, <2>1 DEF Entries
    <2>6. Found(sc) \subseteq A /\ Len(sc.found) <= sc.matched
      BY <1>3 DEF Entries, Counts, A
    <2>7. Takes(q) <=> q.buffer /\ Len(sc.found) < q.capacity
      <3>1. ~Takes(q) => sc.found = <<>>
        BY <1>3 DEF Counts
      <3>2. sc.found = <<>> => Len(sc.found) = 0
        OBVIOUS
      <3> QED BY <1>2, <2>5, <3>1, <3>2 DEF Takes
    <2>8. CASE nx = Report(q, sc, d) /\ Takes(q)
      <3>1. nx = [sc EXCEPT !.found = Append(@, d), !.matched = @ + 1,
                            !.stop = Len(sc.found) + 1 >= q.capacity]
        BY <2>7, <2>8 DEF Report
      <3>2. /\ nx.found = Append(sc.found, d) /\ nx.matched = sc.matched + 1
            /\ nx.stop = (Len(sc.found) + 1 >= q.capacity) /\ nx.skipped = sc.skipped
        BY <1>2, <3>1 DEF ScanType
      <3>3. \A i \in 1..Len(sc.found) : sc.found[i] # d
        BY <1>1, <2>6 DEF Found
      <3>4. /\ nx.found \in Seq(Docs) /\ Len(nx.found) = Len(sc.found) + 1
            /\ Found(nx) = Found(sc) \cup {d}
            /\ \A i, j \in 1..Len(nx.found) : nx.found[i] = nx.found[j] => i = j
        <4>1. \A i, j \in 1..Len(sc.found) : sc.found[i] = sc.found[j] => i = j
          BY <1>3 DEF Entries
        <4> QED BY <1>1, <1>2, <3>2, <3>3, <4>1, FoundAppend, SMTT(30) DEF Found
      <3>5. nx \in ScanType
        <4>1. PICK b \in BOOLEAN, m \in Nat, x \in Seq(Docs) :
                 /\ b = (Len(sc.found) + 1 >= q.capacity) /\ m = sc.matched + 1
                 /\ x = Append(sc.found, d)
          <5>1. sc.matched + 1 \in Nat /\ Append(sc.found, d) \in Seq(Docs)
            BY <1>1, <1>2
          <5>2. (Len(sc.found) + 1 >= q.capacity) \in BOOLEAN
            BY <1>2
          <5> QED BY <5>1, <5>2, Zenon
        <4>2. nx = [sc EXCEPT !.found = x, !.matched = m, !.stop = b]
          BY <3>1, <4>1, Zenon
        <4> QED BY <1>2, <4>2 DEF ScanType
      <3>6. Takes(q) => Len(nx.found) <= q.capacity /\ (nx.stop \/ Len(nx.found) < q.capacity)
        <4>1. CASE Len(sc.found) + 1 >= q.capacity
          <5>1. nx.stop
            BY <3>2, <4>1, Zenon
          <5> QED BY <1>2, <2>5, <3>4, <5>1
        <4>2. CASE ~(Len(sc.found) + 1 >= q.capacity)
          BY <1>2, <2>5, <3>4, <4>2
        <4> QED BY <4>1, <4>2
      <3>7. ~Cut(q, nx) => A \subseteq Found(sc)
        <4>1. ~Cut(q, nx) => ~Cut(q, sc)
          BY <2>1, <3>2 DEF Cut
        <4> QED BY <1>3, <2>8, <4>1 DEF Entries, A
      <3>8. Entries(q, f, n + 1, nx)
        BY <2>2, <2>6, <3>4, <3>6, <3>7 DEF Entries, B
      <3>9. Counts(q, f, n + 1, nx)
        BY <1>2, <2>4, <2>6, <2>8, <3>2, <3>4 DEF Counts
      <3> QED BY <3>5, <3>8, <3>9 DEF Scanned
    <2>9. CASE nx = Report(q, sc, d) /\ ~Takes(q)
      <3>1. nx = [sc EXCEPT !.matched = @ + 1]
        BY <2>7, <2>9 DEF Report
      <3>2. /\ nx.found = sc.found /\ nx.matched = sc.matched + 1 /\ nx.stop = sc.stop
            /\ nx.skipped = sc.skipped /\ nx.partial = sc.partial
        BY <1>2, <3>1 DEF ScanType
      <3>3. nx \in ScanType
        <4>1. PICK m \in Nat : m = sc.matched + 1
          BY <1>2
        <4>2. nx = [sc EXCEPT !.matched = m]
          BY <3>1, <4>1, Zenon
        <4> QED BY <1>2, <4>2 DEF ScanType
      <3>4. Entries(q, f, n + 1, nx)
        BY <1>3, <2>2, <2>6, <2>9, <3>2, SMTT(30) DEF Entries, Found, B
      <3>5. Counts(q, f, n + 1, nx)
        BY <1>2, <1>3, <2>3, <2>4, <2>6, <2>9, <3>2 DEF Counts, B
      <3> QED BY <3>3, <3>4, <3>5 DEF Scanned
    <2>10. CASE nx \in HeapFails(q, sc)
      <3>1. \/ nx = [sc EXCEPT !.skipped = TRUE]
            \/ nx = [sc EXCEPT !.stop = TRUE, !.partial = TRUE] /\ Takes(q)
        BY <2>7, <2>10 DEF HeapFails
      <3>2. /\ nx.found = sc.found /\ nx.matched = sc.matched
            /\ Cut(q, nx)
            /\ \/ nx.skipped /\ nx.stop = sc.stop /\ nx.partial = sc.partial
               \/ nx.stop /\ Takes(q)
        BY <1>2, <3>1 DEF ScanType, Cut
      <3>3. nx \in ScanType
        BY <1>2, <3>1 DEF ScanType
      <3>4. Entries(q, f, n + 1, nx)
        BY <1>3, <2>1, <2>2, <2>6, <3>2 DEF Entries, Found, B
      <3>5. Counts(q, f, n + 1, nx)
        BY <1>3, <2>6, <3>2 DEF Counts
      <3> QED BY <3>3, <3>4, <3>5 DEF Scanned
    <2> QED BY <1>4, <1>6, <2>8, <2>9, <2>10
  <1> QED BY <1>4, <1>5, <1>6

LEMMA ListingScanned ==
  ASSUME IsFiniteSet(Docs), NEW q, IsQuery(q), NEW N \in Nat, NEW f \in [1..N -> Docs],
         \A i, j \in 1..N : i # j => f[i] # f[j], NEW sc \in ScansOf(q, f)
  PROVE  Scanned(q, f, N, sc)
  <1>1. PICK g : ScanSteps(g, q, f, N)
    <2>1. DOMAIN f = 1..N
      OBVIOUS
    <2> QED BY <2>1, ScanFold
  <1> DEFINE Good(n) == \A x \in g[1..n] : Scanned(q, f, n, x)
             S == {n \in Nat : n <= N => Good(n)}
  <1>2. Good(0)
    BY <1>1, BlankScanned DEF ScanSteps
  <1>3. ASSUME NEW n \in Nat, n + 1 <= N, Good(n) PROVE Good(n + 1)
    <2>1. n \in 0..(N - 1) /\ g[1..(n + 1)] = Grow(q, g[1..n], f[n + 1])
      BY <1>1, <1>3 DEF ScanSteps
    <2>2. ASSUME NEW nx \in g[1..(n + 1)] PROVE Scanned(q, f, n + 1, nx)
      <3>1. PICK x \in g[1..n] : nx \in Visit(q, x, f[n + 1])
        BY <2>1 DEF Grow
      <3>2. Scanned(q, f, n, x)
        BY <1>3, <3>1
      <3> QED BY <2>1, <3>1, <3>2, VisitKeeps
    <2> QED BY <2>2
  <1>4. S = Nat
    <2> HIDE DEF Good
    <2>1. S \in SUBSET Nat /\ 0 \in S
      BY <1>2
    <2>2. ASSUME NEW n \in S PROVE n + 1 \in S
      BY <1>3
    <2> HIDE DEF S
    <2> QED BY <2>1, <2>2, CountingUp
  <1>5. Good(N)
    BY <1>4
  <1> QED BY <1>1, <1>5 DEF ScanSteps

Listed == {d \in Docs : live[d] # Absent}

(* Every order of the listing has every listed document, once. *)
LEMMA ListingComplete ==
  ASSUME IsFiniteSet(Docs), NEW f \in SetToSeqs(Listed)
  PROVE  \E N \in Nat : /\ f \in [1..N -> Docs]
                        /\ \A i, j \in 1..N : i # j => f[i] # f[j]
                        /\ \A d \in Listed : \E k \in 1..N : f[k] = d
  <1> DEFINE N == Cardinality(Listed)
  <1>1. IsFiniteSet(Listed) /\ N \in Nat /\ Listed \in SUBSET Docs
    BY FS_Subset, FS_CardinalityType DEF Listed
  <1>2. f \in [1..N -> Listed] /\ \A i, j \in 1..N : i # j => f[i] # f[j]
    BY DEF SetToSeqs
  <1>3. f \in Injection(1..N, Listed)
    BY <1>2 DEF Injection, IsInjective
  <1>4. Cardinality(1..N) = N
    BY <1>1, FS_Interval
  <1>5. f \in Surjection(1..N, Listed)
    BY <1>1, <1>3, <1>4, FS_Injection
  <1>6. \A d \in Listed : \E k \in 1..N : f[k] = d
    BY <1>5 DEF Surjection
  <1> QED BY <1>1, <1>2, <1>6

(* What every scan of a query is at its end. *)
LEMMA ScansEnd ==
  ASSUME IsFiniteSet(Docs), NEW q \in Queries, NEW sc \in Scans(q)
  PROVE  \E f, N : Scanned(q, f, N, sc) /\ Met(q, f, N) = {d \in Docs : Hits(q, d)}
  <1>1. PICK f \in SetToSeqs(Listed) : sc \in ScansOf(q, f)
    BY DEF Scans, ScansOf, Listed
  <1>2. PICK N \in Nat : /\ f \in [1..N -> Docs]
                         /\ \A i, j \in 1..N : i # j => f[i] # f[j]
                         /\ \A d \in Listed : \E k \in 1..N : f[k] = d
    BY <1>1, ListingComplete
  <1>3. Scanned(q, f, N, sc)
    BY <1>1, <1>2, QueryType, ListingScanned
  <1>4. Met(q, f, N) = {d \in Docs : Hits(q, d)}
    BY <1>2 DEF Met, Hits, Listed, Parses
  <1> QED BY <1>3, <1>4

LEMMA FoundSize ==
  ASSUME NEW sc \in ScanType, \A i, j \in 1..Len(sc.found) : sc.found[i] = sc.found[j] => i = j
  PROVE  Cardinality(Found(sc)) = Len(sc.found)
  <1> DEFINE n == Len(sc.found)
             h == [i \in 1..n |-> sc.found[i]]
  <1>1. n \in Nat
    BY DEF ScanType
  <1>2. h \in Bijection(1..n, Found(sc))
    BY DEF Bijection, Injection, Surjection, IsInjective, Found
  <1>3. ExistsBijection(1..n, Found(sc))
    BY <1>2 DEF ExistsBijection
  <1>4. IsFiniteSet(1..n) /\ Cardinality(1..n) = n
    <2> HIDE DEF n
    <2>1. /\ IsFiniteSet(1..n)
          /\ Cardinality(1..n) = IF 1 > n THEN 0 ELSE n - 1 + 1
      BY <1>1, FS_Interval
    <2> QED BY <1>1, <2>1
  <1> HIDE DEF n
  <1> QED BY <1>3, <1>4, FS_Bijection DEF n

--------------------------------------------------------------------------------
(* Theorems *)

(* zdb_doc_query() and *out_count: for any set of documents, filters, limit,    *)
(* capacity and order of the listing, whichever allocations fail, in every      *)
(* state the store can be in: *out_count is the number of entries written and   *)
(* within capacity and limit, and for a caller without room it is the number of *)
(* matches up to the limit.                                                     *)
THEOREM QueryCountsRight ==
  ASSUME IsFiniteSet(Docs)
  PROVE  Spec => []QueryCounts
  <1>1. QueryCounts
    <2> SUFFICES ASSUME NEW q \in Queries, NEW sc \in Scans(q)
                 PROVE  LET n == out_count(q, sc)
                            all == Cardinality({d \in Docs : Hits(q, d)})
                        IN  /\ q.limit # 0 => n <= q.limit
                            /\ Takes(q) => n = Len(sc.found) /\ n <= q.capacity
                            /\ ~Takes(q) /\ ~sc.skipped => n = Capped(q, all)
      <3>1. \A q \in Queries : ~Takes(q) <=> ~q.buffer \/ q.capacity = 0
        BY QueryType DEF IsQuery, Takes
      <3> QED BY <3>1, Zenon DEF QueryCounts, Hits, Takes, Capped
    <2>1. PICK f, N : Scanned(q, f, N, sc) /\ Met(q, f, N) = {d \in Docs : Hits(q, d)}
      BY ScansEnd
    <2>2. /\ sc.matched \in Nat /\ Len(sc.found) \in Nat /\ q.limit \in Nat /\ q.capacity \in Nat
          /\ Entries(q, f, N, sc) /\ Counts(q, f, N, sc)
      BY <2>1, QueryType DEF Scanned, ScanType, IsQuery
    <2>3. out_count(q, sc) = IF Takes(q) THEN Len(sc.found) ELSE sc.matched
      BY <2>2 DEF out_count, Takes, Counts
    <2> QED BY <2>1, <2>2, <2>3 DEF Entries, Counts
  <1> QED BY <1>1, PTL

(* zdb_doc_query(): for any set of documents, filters, limit and capacity and   *)
(* any order of the listing, with one power loss at any step and the failures   *)
(* of DocAssumptions: an entry names a document that an open finds with fields  *)
(* that match, once, and that no completed delete removed; and a query that was *)
(* not cut short misses none that surely exists and matches, but on FAT after   *)
(* the power loss.                                                              *)
THEOREM QueryReportsStored ==
  ASSUME DocAssumptions, IsFiniteSet(Docs)
  PROVE  Spec => []QueryFindsStored
  <1>1. Inv /\ Kept => QueryFindsStored
    <2> SUFFICES ASSUME Inv, Kept, lock = NoThread, NEW q \in Queries, NEW sc \in Scans(q)
                 PROVE  /\ Cardinality(Found(sc)) = Len(sc.found)
                        /\ \A d \in Found(sc) :
                             /\ may[d] # {Absent}
                             /\ Parses(Visible(d)) /\ matches_query(Visible(d), q)
                        /\ Takes(q) /\ ~Cut(q, sc) /\ (fs = "littlefs" \/ boots = 0) =>
                             {d \in Docs : SurelyMatches(d, q)} \subseteq Found(sc)
      BY DEF QueryFindsStored, Found, Takes
    <2>1. PICK f, N : Scanned(q, f, N, sc) /\ Met(q, f, N) = {d \in Docs : Hits(q, d)}
      BY ScansEnd
    <2>2. sc \in ScanType /\ Entries(q, f, N, sc)
      BY <2>1 DEF Scanned
    <2>3. Cardinality(Found(sc)) = Len(sc.found)
      BY <2>2, FoundSize DEF Entries
    <2>4. ASSUME NEW d \in Found(sc)
          PROVE  may[d] # {Absent} /\ Parses(Visible(d)) /\ matches_query(Visible(d), q)
      <3>1. d \in Docs /\ Parses(live[d]) /\ matches_query(live[d], q)
        BY <2>1, <2>2 DEF Entries, Hits
      <3>2. live[d] # Absent /\ Visible(d) = live[d]
        BY <3>1 DEF Parses, Visible
      <3>3. live[d] \in may[d]
        BY <3>1, <3>2 DEF Kept, KeptDoc, Promised
      <3> QED BY <3>1, <3>2, <3>3
    <2>5. ASSUME Takes(q), ~Cut(q, sc), fs = "littlefs" \/ boots = 0,
                 NEW d \in Docs, SurelyMatches(d, q)
          PROVE  d \in Found(sc)
      <3>1. KeptDoc(d) /\ ~At(pc, target, d, "rename") /\ ~At(pc, target, d, "unlink_tmp")
        BY Unlocked DEF At, Kept
      <3>2. fs = "littlefs" \/ tmp[d] = Absent
        <4>1. boots = 0 => tmp[d] = Absent
          BY <3>1, NoStagingFault DEF Inv, OneStaged, Clean, At
        <4> QED BY <2>5, <4>1
      <3>3. live[d] # Absent
        <4> SUFFICES ASSUME live[d] = Absent PROVE FALSE
          OBVIOUS
        <4>1. Absent \in may[d]
          BY <3>1, <3>2 DEF KeptDoc, Promised, Parses
        <4> QED BY <2>5, <4>1 DEF SurelyMatches, Parses
      <3>4. live[d] \in may[d]
        BY <3>1, <3>3 DEF KeptDoc, Promised
      <3>5. Hits(q, d)
        BY <2>5, <3>4 DEF SurelyMatches, Hits
      <3> QED BY <2>1, <2>2, <2>5, <3>5 DEF Entries
    <2> QED BY <2>3, <2>4, <2>5
  <1> QED BY <1>1, InvAlways, KeptAlways, PTL

================================================================================
