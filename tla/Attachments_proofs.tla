------------------------- MODULE Attachments_proofs -------------------------
(***************************************************************************)
(* What Attachments promises for any number of goroutines, memos,          *)
(* attachments and faults: the types; that file and row stand or fall      *)
(* together; and that a deleted memo leaves no attachment behind, as long  *)
(* as no memo has more of them than a listing returns.                     *)
(***************************************************************************)
EXTENDS Attachments, FiniteSetTheorems, TLAPS

USE DEF rows, locals, history, vars, At, Begin, MayWrite

(***************************************************************************)
(* Types, and what the locals of a request may name: attachments that were *)
(* ever issued an id, and a memo where the handler needs one.              *)
(***************************************************************************)
Known ==
    /\ \A a \in AttachmentIds : HasRow(a) => a \in ids
    /\ \A p \in Procs : todo[p] \cup link[p] \cup victim[p] \subseteq ids

Targets(p) ==
    /\ pc[p] \in {"createMemo", "begin", "txNext", "txFile", "list"} => target[p] \in Memos
    /\ pc[p] = "createMemo" => target[p] \in memoIds

TypeInv == TypeOK /\ Known /\ \A p \in Procs : Targets(p)

\* A listing is of attachments that have a row, of the memo that was asked for.
LEMMA ListingIsOfMemo ==
  ASSUME NEW m, NEW S \in Listings(m)
  PROVE  S \subseteq AttachmentIds /\ \A a \in S : attached[a] = m
BY DEF Listings, Of

LEMMA TypeArrive ==
  ASSUME TypeInv, NEW p \in Procs, Arrive(p)
  PROVE  TypeInv'
<1> USE DEF TypeInv, TypeOK, Known, Targets, HasRow, PCs
<1>1. ASSUME NEW a \in AttachmentIds, DeleteOne(p, a) PROVE TypeInv'
  BY <1>1 DEF DeleteOne
<1>2. ASSUME NEW a \in AttachmentIds, NEW m \in Memos \cup {Unlinked}, Upload(p, a, m)
      PROVE TypeInv'
  BY <1>2 DEF Upload
<1>3. ASSUME NEW m \in Memos, DeleteMemo(p, m) PROVE TypeInv'
  BY <1>3 DEF DeleteMemo
<1>4. ASSUME NEW S \in SUBSET ids, BatchDelete(p, S) PROVE TypeInv'
  BY <1>4 DEF BatchDelete
<1>5. ASSUME NEW m \in Memos, NEW S \in SUBSET ids, CreateMemo(p, m, S) PROVE TypeInv'
  BY <1>5 DEF CreateMemo
<1>6. ASSUME NEW m \in Memos, NEW S \in SUBSET ids, SetAttachments(p, m, S) PROVE TypeInv'
  BY <1>6 DEF SetAttachments
<1>7. QED
  BY <1>1, <1>2, <1>3, <1>4, <1>5, <1>6 DEF Arrive

LEMMA TypeServe ==
  ASSUME TypeInv, NEW p \in Procs, Serve(p)
  PROVE  TypeInv'
<1> USE DEF TypeInv, TypeOK, Known, Targets, HasRow, PCs
<1>1. CASE SaveFile(p)
  BY <1>1 DEF SaveFile
<1>2. CASE InsertRow(p)
  <2>1. /\ UNCHANGED <<memo, memoIds, ids, file, writer, target, todo, link, victim, faults,
                       interrupted, overtaken>>
        /\ pc' \in [Procs -> PCs] /\ \A q \in Procs : pc'[q] \in {pc[q], "idle"}
    BY <1>2 DEF InsertRow
  <2>2. \A a \in AttachmentIds : attached'[a] \in {attached[a], target[p]} /\ (attached'[a] # attached[a] => a \in ids)
    BY <1>2 DEF InsertRow
  <2>3. attached' \in [AttachmentIds -> Memos \cup {Absent, Unlinked}]
    BY <1>2, <2>2 DEF InsertRow
  <2>4. TypeOK'
    BY <2>1, <2>3
  <2>5. Known'
    BY <2>1, <2>2
  <2>6. \A q \in Procs : Targets(q)'
    BY <2>1
  <2>7. QED
    BY <2>4, <2>5, <2>6
<1>3. CASE InsertMemo(p)
  BY <1>3 DEF InsertMemo
<1>4. CASE ListCurrent(p)
  <2>1. PICK current \in Listings(target[p]) : todo' = [todo EXCEPT ![p] = current \ link[p]]
    BY <1>4 DEF ListCurrent
  <2>2. target[p] \in Memos
    BY <1>4 DEF ListCurrent
  <2>3. current \subseteq AttachmentIds /\ current \subseteq ids
    BY <2>2, ListingIsOfMemo, AttachmentAssumption
  <2>4. QED
    BY <1>4, <2>1, <2>3 DEF ListCurrent
<1>5. CASE Resolve(p)
  BY <1>5 DEF Resolve
<1>6. CASE NextVictim(p)
  BY <1>6 DEF NextVictim
<1>7. CASE RemoveFile(p)
  BY <1>7 DEF RemoveFile
<1>8. CASE RemoveRow(p)
  BY <1>8 DEF RemoveRow
<1>9. CASE LinkOne(p)
  <2>1. PICK a \in link[p] :
            /\ link' = [link EXCEPT ![p] = @ \ {a}]
            /\ attached' = [attached EXCEPT ![a] = IF HasRow(a) THEN target[p] ELSE Absent]
    BY <1>9 DEF LinkOne
  <2>2. a \in AttachmentIds /\ a \in ids
    BY <2>1
  <2>3. attached' \in [AttachmentIds -> Memos \cup {Absent, Unlinked}]
    BY <2>1, <2>2
  <2>4. \A b \in AttachmentIds : attached'[b] = attached[b] \/ b \in ids
    BY <2>1, <2>2
  <2>5. TypeOK'
    BY <1>9, <2>1, <2>3 DEF LinkOne
  <2>6. Known'
    BY <1>9, <2>1, <2>4 DEF LinkOne
  <2>7. \A q \in Procs : Targets(q)'
    BY <1>9 DEF LinkOne
  <2>8. QED
    BY <2>5, <2>6, <2>7
<1>10. CASE Finish(p)
  BY <1>10 DEF Finish
<1>11. CASE BatchRows(p)
  BY <1>11 DEF BatchRows
<1>12. CASE BatchFile(p)
  BY <1>12 DEF BatchFile
<1>13. CASE TxBegin(p)
  <2>1. PICK current \in Listings(target[p]) : todo' = [todo EXCEPT ![p] = current]
    BY <1>13 DEF TxBegin
  <2>2. target[p] \in Memos
    BY <1>13 DEF TxBegin
  <2>3. current \subseteq AttachmentIds /\ current \subseteq ids
    BY <2>2, ListingIsOfMemo, AttachmentAssumption
  <2>4. QED
    BY <1>13, <2>1, <2>3 DEF TxBegin
<1>14. CASE TxNext(p)
  BY <1>14 DEF TxNext
<1>15. CASE TxFile(p)
  BY <1>15 DEF TxFile
<1>16. CASE TxCommit(p)
  BY <1>16 DEF TxCommit
<1>17. QED
  BY <1>1, <1>2, <1>3, <1>4, <1>5, <1>6, <1>7, <1>8, <1>9, <1>10, <1>11, <1>12, <1>13,
     <1>14, <1>15, <1>16 DEF Serve

LEMMA TypeInvariant == Spec => []TypeInv
<1> USE DEF TypeInv, TypeOK, Known, Targets, HasRow, PCs
<1>1. Init => TypeInv
  BY AttachmentAssumption DEF Init
<1>2. TypeInv /\ [Next]_vars => TypeInv'
  <2> SUFFICES ASSUME TypeInv, [Next]_vars PROVE TypeInv'
    OBVIOUS
  <2>1. CASE UNCHANGED vars
    BY <2>1
  <2>2. ASSUME NEW p \in Procs PROVE HalfDone(p) \subseteq AttachmentIds
    BY DEF HalfDone
  <2>3. CASE Crash
    <3>1. interrupted' \subseteq AttachmentIds /\ faults' \in 0 .. MaxFaults
      BY <2>2, <2>3, AttachmentAssumption DEF Crash
    <3>2. QED
      BY <2>3, <3>1 DEF Crash
  <2>4. ASSUME NEW p \in Procs, Fail(p) PROVE TypeInv'
    <3>1. interrupted' \subseteq AttachmentIds /\ faults' \in 0 .. MaxFaults
      BY <2>2, <2>4, AttachmentAssumption DEF Fail
    <3>2. QED
      BY <2>4, <3>1 DEF Fail
  <2>5. QED
    BY <2>1, <2>3, <2>4, TypeArrive, TypeServe DEF Next
<1>3. QED
  BY <1>1, <1>2, PTL DEF Spec

\* The types, with any interleaving of requests, failures and crashes.
THEOREM AttachmentTypesCorrect == Spec => []TypeOK
<1>1. TypeInv => TypeOK
  BY DEF TypeInv
<1>2. QED
  BY <1>1, TypeInvariant, PTL

-----------------------------------------------------------------------------
(***************************************************************************)
(* File and row.  An attachment that is being uploaded is nobody else's to *)
(* delete, since ids are not reused and only what has a row is listed; and *)
(* what is deleted never comes back, neither file nor row.  So whenever    *)
(* one of the two is there without the other, the request that made it so  *)
(* is still under way.                                                     *)
(***************************************************************************)
Uploading(p) == pc[p] \in {"save", "insert"}

Fresh(p) ==
    Uploading(p) =>
        /\ \A a \in link[p] :
              /\ ~HasRow(a)
              /\ \A q \in Procs : a \notin todo[q] \cup victim[q]
              /\ \A q \in Procs \ {p} : Uploading(q) => a \notin link[q]
        /\ pc[p] = "insert" => link[p] \subseteq file

Gone(p) ==
    /\ pc[p] = "begin" => victim[p] = {}
    /\ pc[p] \in {"row", "txNext", "txFile"} => victim[p] \cap file = {}
    /\ pc[p] = "batchFiles" => \A a \in todo[p] : ~HasRow(a)

\* Who answers for a row without its file, and for a file without its row
DeletesRow(a) == \E p \in Procs : pc[p] \in {"row", "txNext", "txFile"} /\ a \in victim[p]
HoldsFile(a) ==
    \E p \in Procs : \/ pc[p] = "insert" /\ a \in link[p]
                     \/ pc[p] = "batchFiles" /\ a \in todo[p]

Balanced(a) ==
    \/ a \in interrupted
    \/ /\ HasRow(a) /\ a \notin file => DeletesRow(a)
       /\ ~HasRow(a) /\ a \in file => HoldsFile(a)

FileInv ==
    /\ \A p \in Procs : Fresh(p) /\ Gone(p)
    /\ \A a \in AttachmentIds : Balanced(a)

LEMMA FileArrive ==
  ASSUME TypeInv, FileInv, NEW p \in Procs, Arrive(p)
  PROVE  FileInv'
<1> USE DEF TypeInv, TypeOK, Known, Targets, HasRow
<1>1. /\ pc[p] = "idle" /\ pc'[p] \notin {"idle", "insert", "row", "txNext", "txFile", "batchFiles"}
      /\ UNCHANGED <<file, interrupted, attached>> /\ ids \subseteq ids'
      /\ \A q \in Procs \ {p} : pc'[q] = pc[q] /\ link'[q] = link[q] /\ todo'[q] = todo[q] /\ victim'[q] = victim[q]
      /\ victim'[p] = {} /\ \A a \in todo'[p] : HasRow(a)
  BY DEF Arrive, DeleteOne, Upload, DeleteMemo, BatchDelete, CreateMemo, SetAttachments
<1>2. Uploading(p)' => \E a \in AttachmentIds \ ids : link'[p] = {a} /\ todo'[p] = {}
  BY DEF Uploading, Arrive, DeleteOne, Upload, DeleteMemo, BatchDelete, CreateMemo, SetAttachments
<1>3. \A q \in Procs : Gone(q)'
  BY <1>1 DEF FileInv, Gone
<1>4. ASSUME NEW q \in Procs PROVE Fresh(q)'
  <2>1. CASE q = p
    BY <1>1, <1>2, <2>1 DEF FileInv, Fresh, Uploading
  <2>2. CASE q # p
    BY <1>1, <1>2, <2>2 DEF FileInv, Fresh, Uploading
  <2>3. QED
    BY <2>1, <2>2
<1>5. \A a \in AttachmentIds : Balanced(a)'
  BY <1>1 DEF FileInv, Balanced, DeletesRow, HoldsFile
<1>6. QED
  BY <1>3, <1>4, <1>5 DEF FileInv

\* The steps of an upload, and of a request that lists or creates a memo
LEMMA FileUpload ==
  ASSUME TypeInv, FileInv, NEW p \in Procs,
         SaveFile(p) \/ InsertRow(p) \/ InsertMemo(p) \/ ListCurrent(p) \/ Resolve(p) \/ Finish(p)
  PROVE  FileInv'
<1> USE DEF TypeInv, TypeOK, Known, Targets, HasRow, FileInv, Fresh, Gone, Uploading, Balanced, DeletesRow, HoldsFile
<1>1. CASE SaveFile(p)
  BY <1>1 DEF SaveFile
<1>2. CASE InsertRow(p)
  <2>1. /\ UNCHANGED <<file, target, todo, link, victim, interrupted>>
        /\ pc[p] = "insert" /\ pc'[p] = "idle" /\ \A q \in Procs \ {p} : pc'[q] = pc[q]
        /\ \A a \in AttachmentIds : attached'[a] = IF a \in link[p] THEN target[p] ELSE attached[a]
        /\ target[p] # Absent
    BY <1>2, AttachmentAssumption DEF InsertRow
  <2>2. \A q \in Procs : Fresh(q)'
    BY <2>1
  <2>3. \A q \in Procs : Gone(q)'
    BY <2>1
  <2>4. \A a \in AttachmentIds : Balanced(a)'
    BY <2>1
  <2>5. QED
    BY <2>2, <2>3, <2>4
<1>3. CASE InsertMemo(p)
  BY <1>3 DEF InsertMemo
<1>4. CASE ListCurrent(p)
  <2>1. PICK current \in Listings(target[p]) : todo' = [todo EXCEPT ![p] = current \ link[p]]
    BY <1>4 DEF ListCurrent
  <2>2. \A a \in current : HasRow(a)
    BY <1>4, ListingIsOfMemo, AttachmentAssumption DEF ListCurrent
  <2>3. QED
    BY <1>4, <2>1, <2>2 DEF ListCurrent
<1>5. CASE Resolve(p)
  BY <1>5 DEF Resolve
<1>6. CASE Finish(p)
  BY <1>6 DEF Finish
<1>7. QED
  BY <1>1, <1>2, <1>3, <1>4, <1>5, <1>6

\* The steps of a deletion outside a transaction, of linking and of a batch
LEMMA FileDelete ==
  ASSUME TypeInv, FileInv, NEW p \in Procs,
         \/ NextVictim(p) \/ RemoveFile(p) \/ RemoveRow(p) \/ LinkOne(p)
         \/ BatchRows(p) \/ BatchFile(p)
  PROVE  FileInv'
<1> USE DEF TypeInv, TypeOK, Known, Targets, HasRow, FileInv, Fresh, Gone, Uploading, Balanced, DeletesRow, HoldsFile
<1>1. CASE NextVictim(p)
  BY <1>1 DEF NextVictim
<1>2. CASE RemoveFile(p)
  BY <1>2 DEF RemoveFile
<1>3. CASE RemoveRow(p)
  BY <1>3 DEF RemoveRow
<1>4. CASE LinkOne(p)
  <2>1. PICK b \in link[p] :
            /\ link' = [link EXCEPT ![p] = @ \ {b}]
            /\ attached' = [attached EXCEPT ![b] = IF HasRow(b) THEN target[p] ELSE Absent]
    BY <1>4 DEF LinkOne
  <2>2. \A a \in AttachmentIds : HasRow(a)' <=> HasRow(a)
    BY <2>1, AttachmentAssumption
  <2>3. /\ UNCHANGED <<file, pc, todo, victim, interrupted>> /\ pc[p] = "next"
        /\ \A q \in Procs \ {p} : link'[q] = link[q]
    BY <1>4, <2>1 DEF LinkOne
  <2> HIDE DEF HasRow
  <2>4. QED
    BY <2>2, <2>3
<1>5. CASE BatchRows(p)
  BY <1>5 DEF BatchRows
<1>6. CASE BatchFile(p)
  BY <1>6 DEF BatchFile
<1>7. QED
  BY <1>1, <1>2, <1>3, <1>4, <1>5, <1>6

\* The steps of the transaction that deletes a memo
LEMMA FileTransaction ==
  ASSUME TypeInv, FileInv, NEW p \in Procs,
         TxBegin(p) \/ TxNext(p) \/ TxFile(p) \/ TxCommit(p)
  PROVE  FileInv'
<1> USE DEF TypeInv, TypeOK, Known, Targets, HasRow, FileInv, Fresh, Gone, Uploading, Balanced, DeletesRow, HoldsFile
<1>1. CASE TxBegin(p)
  <2>1. PICK current \in Listings(target[p]) : todo' = [todo EXCEPT ![p] = current]
    BY <1>1 DEF TxBegin
  <2>2. \A a \in current : HasRow(a)
    BY <1>1, ListingIsOfMemo, AttachmentAssumption DEF TxBegin
  <2>3. QED
    BY <1>1, <2>1, <2>2 DEF TxBegin
<1>2. CASE TxNext(p)
  BY <1>2 DEF TxNext
<1>3. CASE TxFile(p)
  BY <1>3 DEF TxFile
<1>4. CASE TxCommit(p)
  BY <1>4 DEF TxCommit
<1>5. QED
  BY <1>1, <1>2, <1>3, <1>4

\* A request that fails leaves what it had half-done to the record of failures.
LEMMA FileFailure ==
  ASSUME TypeInv, FileInv, Crash \/ \E p \in Procs : Fail(p)
  PROVE  FileInv'
<1> USE DEF FileInv, Fresh, Gone, Uploading
<1>1. /\ UNCHANGED <<attached, file, todo, link, victim>> /\ interrupted \subseteq interrupted'
      /\ \A q \in Procs : pc'[q] = pc[q] \/ (pc'[q] = "idle" /\ HalfDone(q) \subseteq interrupted')
  BY DEF Crash, Fail, TypeInv, TypeOK
<1>2. \A q \in Procs : Fresh(q)' /\ Gone(q)'
  BY <1>1 DEF HasRow
<1>3. ASSUME NEW a \in AttachmentIds PROVE Balanced(a)'
  <2>1. ASSUME NEW q \in Procs, a \notin HalfDone(q)
        PROVE  /\ ~(pc[q] \in {"row", "txNext", "txFile"} /\ a \in victim[q])
               /\ ~(pc[q] = "insert" /\ a \in link[q]) /\ ~(pc[q] = "batchFiles" /\ a \in todo[q])
    BY <2>1 DEF HalfDone
  <2>2. QED
    BY <1>1, <2>1 DEF Balanced, DeletesRow, HoldsFile, HasRow
<1>4. QED
  BY <1>2, <1>3

\* The strengthening is invariant.
LEMMA FileInvariant == Spec => []FileInv
<1>1. Init => FileInv
  BY DEF Init, FileInv, Fresh, Gone, Uploading, Balanced, HasRow
<1>2. TypeInv /\ FileInv /\ [Next]_vars => FileInv'
  <2> SUFFICES ASSUME TypeInv, FileInv, [Next]_vars PROVE FileInv'
    OBVIOUS
  <2>1. CASE UNCHANGED vars
    BY <2>1 DEF FileInv, Fresh, Gone, Uploading, Balanced, DeletesRow, HoldsFile, HasRow
  <2>2. ASSUME NEW p \in Procs, Serve(p) PROVE FileInv'
    BY <2>2, FileUpload, FileDelete, FileTransaction DEF Serve
  <2>3. QED
    BY <2>1, <2>2, FileArrive, FileFailure DEF Next
<1>3. QED
  BY <1>1, <1>2, TypeInvariant, PTL DEF Spec

\* However requests interleave, also on the same attachment: unless a failure
\* hit it half-way, an attachment has its file exactly if it has its row, but
\* for one that is under way; and a row is without its file only in the hands
\* of a request that deletes the row next.
THEOREM FilesMatchRows == Spec => []FileIffRow
<1>1. FileInv => FileIffRow
  <2> SUFFICES ASSUME FileInv, NEW a \in AttachmentIds, a \notin interrupted
               PROVE  /\ InTransit(a) \/ (a \in file <=> HasRow(a))
                      /\ HasRow(a) /\ a \notin file => DeletesRow(a)
    BY DEF FileIffRow, DeletesRow
  <2>1. DeletesRow(a) \/ HoldsFile(a) => InTransit(a)
    BY DEF DeletesRow, HoldsFile, InTransit, HalfDone
  <2>2. QED
    BY <2>1 DEF FileInv, Balanced
<1>2. QED
  BY <1>1, FileInvariant, PTL

-----------------------------------------------------------------------------
(***************************************************************************)
(* Attachments of deleted memos.  A listing that is cut off at its limit   *)
(* leaves the rest behind, so this one needs every memo to fit.  A request *)
(* links only to a memo that it found, and while a deletion has listed the *)
(* attachments of a memo its transaction lets nobody link another.         *)
(***************************************************************************)
ListingsAreComplete == \A m \in Memos : Cardinality(Of(m)) <= ListLimit

Found(p) ==
    pc[p] \notin {"idle", "createMemo"} /\ target[p] \in Memos => target[p] \in memo \cup overtaken

Listed(p) ==
    pc[p] \in {"txNext", "txFile"} =>
        writer = p /\ Of(target[p]) \subseteq todo[p] \cup victim[p]

StrayInv == NoStrayAttachments /\ \A p \in Procs : Found(p) /\ Listed(p)

LEMMA CompleteListing ==
  ASSUME ListingsAreComplete, NEW m \in Memos, NEW S \in Listings(m)
  PROVE  S = Of(m)
<1>1. Of(m) \subseteq AttachmentIds /\ S \subseteq Of(m)
  BY DEF Of, Listings
<1>2. IsFiniteSet(Of(m)) /\ Cardinality(Of(m)) \in Nat
  BY <1>1, AttachmentAssumption, FS_Subset, FS_CardinalityType
<1>3. Cardinality(S) = Cardinality(Of(m))
  BY <1>2, AttachmentAssumption DEF Listings, ListingsAreComplete
<1>4. QED
  BY <1>1, <1>2, <1>3, FS_Subset

LEMMA StrayArrive ==
  ASSUME TypeInv, StrayInv, NEW p \in Procs, Arrive(p)
  PROVE  StrayInv'
<1> USE DEF TypeInv, TypeOK
<1>1. /\ UNCHANGED <<attached, memo, writer, overtaken>>
      /\ \A q \in Procs \ {p} : /\ pc'[q] = pc[q] /\ target'[q] = target[q]
                                /\ todo'[q] = todo[q] /\ victim'[q] = victim[q]
      /\ pc'[p] \notin {"txNext", "txFile"}
      /\ pc'[p] # "createMemo" => target'[p] \in memo \cup {Unlinked}
  BY DEF Arrive, DeleteOne, Upload, DeleteMemo, BatchDelete, CreateMemo, SetAttachments
<1>2. QED
  BY <1>1, AttachmentAssumption DEF StrayInv, NoStrayAttachments, Found, Listed, Of

LEMMA StrayServe ==
  ASSUME TypeInv, StrayInv, ListingsAreComplete, NEW p \in Procs, Serve(p)
  PROVE  StrayInv'
<1> USE DEF TypeInv, TypeOK, Targets, StrayInv, NoStrayAttachments, Found, Listed, Of, HasRow
<1>1. CASE \/ SaveFile(p) \/ ListCurrent(p) \/ Resolve(p) \/ NextVictim(p) \/ RemoveFile(p)
           \/ Finish(p) \/ BatchFile(p)
  <2>1. /\ UNCHANGED <<attached, memo, writer, target, overtaken>>
        /\ \A q \in Procs \ {p} : pc'[q] = pc[q] /\ todo'[q] = todo[q] /\ victim'[q] = victim[q]
        /\ pc[p] \notin {"idle", "createMemo"} /\ pc'[p] \notin {"txNext", "txFile"}
    BY <1>1 DEF SaveFile, ListCurrent, Resolve, NextVictim, RemoveFile, Finish, BatchFile
  <2>2. QED
    BY <2>1
<1>2. CASE InsertRow(p)
  BY <1>2, AttachmentAssumption DEF InsertRow
<1>3. CASE InsertMemo(p)
  BY <1>3, AttachmentAssumption DEF InsertMemo
<1>4. CASE RemoveRow(p) \/ BatchRows(p)
  BY <1>4, AttachmentAssumption DEF RemoveRow, BatchRows
<1>5. CASE LinkOne(p)
  BY <1>5, AttachmentAssumption DEF LinkOne
<1>6. CASE TxBegin(p)
  <2>1. PICK current \in Listings(target[p]) : todo' = [todo EXCEPT ![p] = current]
    BY <1>6 DEF TxBegin
  <2>2. current = Of(target[p])
    BY <1>6, CompleteListing DEF TxBegin
  <2>3. QED
    BY <1>6, <2>1, <2>2, AttachmentAssumption DEF TxBegin
<1>7. CASE TxNext(p)
  BY <1>7 DEF TxNext
<1>8. CASE TxFile(p)
  BY <1>8 DEF TxFile
<1>9. CASE TxCommit(p)
  BY <1>9, AttachmentAssumption DEF TxCommit, Serving
<1>10. QED
  BY <1>1, <1>2, <1>3, <1>4, <1>5, <1>6, <1>7, <1>8, <1>9 DEF Serve

\* A deleted memo leaves no attachment behind, except to a request that was
\* about the same memo and had looked it up before: as long as no memo ever has
\* more attachments than ListAttachments returns.
THEOREM DeletionIsComplete == Spec /\ []ListingsAreComplete => []NoStrayAttachments
<1>1. Init => StrayInv
  BY DEF Init, StrayInv, NoStrayAttachments, Found, Listed
<1>2. TypeInv /\ StrayInv /\ ListingsAreComplete /\ [Next]_vars => StrayInv'
  <2> SUFFICES ASSUME TypeInv, StrayInv, ListingsAreComplete, [Next]_vars PROVE StrayInv'
    OBVIOUS
  <2>1. CASE UNCHANGED vars
    BY <2>1 DEF StrayInv, NoStrayAttachments, Found, Listed, Of
  <2>2. CASE Crash \/ \E p \in Procs : Fail(p)
    <3>1. /\ UNCHANGED <<memo, attached, target, todo, victim, overtaken>>
          /\ \A q \in Procs : pc'[q] \in {pc[q], "idle"}
          /\ \A q \in Procs : pc'[q] # "idle" /\ writer = q => writer' = q
      BY <2>2 DEF Crash, Fail, TypeInv, TypeOK
    <3>2. QED
      BY <3>1 DEF StrayInv, NoStrayAttachments, Found, Listed, Of
  <2>3. QED
    BY <2>1, <2>2, StrayArrive, StrayServe DEF Next
<1>3. StrayInv => NoStrayAttachments
  BY DEF StrayInv
<1>4. QED
  BY <1>1, <1>2, <1>3, TypeInvariant, PTL DEF Spec
=============================================================================
