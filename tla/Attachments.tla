---------------------------- MODULE Attachments ----------------------------
(***************************************************************************)
(* Attachments, the local files that hold their blobs, and the memos they  *)
(* are linked to: the handlers of attachment_service.go,                   *)
(* memo_attachment_service.go and memo_service.go with the store functions *)
(* they call (store/attachment.go, store/memo.go, store/db/sqlite).        *)
(*                                                                         *)
(* Every request runs in a goroutine of its own.  A statement is atomic; a *)
(* transaction excludes the other writers from its first write to its end, *)
(* while readers go on seeing what was there before.  The file system      *)
(* knows no transactions.  Foreign keys are off.                           *)
(***************************************************************************)
EXTENDS Naturals, FiniteSets

CONSTANTS
    Procs,          \* the goroutines; each serves one request after another
    Memos,          \* memo ids; AUTOINCREMENT never reuses one
    AttachmentIds,  \* attachment ids, likewise
    Absent,         \* the memo of an attachment that has no row
    Unlinked,       \* ... of one that has no memo
    Nobody,         \* the writer when no transaction is open
    ListLimit,      \* the default limit of ListAttachments (100 in the code)
    MaxFaults       \* bound: errors and crashes in a behaviour

ASSUME AttachmentAssumption ==
    /\ ListLimit \in Nat \ {0}
    /\ MaxFaults \in Nat
    /\ Nobody \notin Procs
    /\ {Absent, Unlinked} \cap Memos = {} /\ Absent # Unlinked
    /\ IsFiniteSet(AttachmentIds)

VARIABLES
    memo,       \* the memos that have a row
    memoIds,    \* the memo ids that were ever used
    attached,   \* attached[a]: memo_id of the row of a, or Unlinked, or Absent
    ids,        \* the attachment ids that were ever used
    file,       \* the attachments whose file exists
    writer,     \* the goroutine whose transaction has written
    pc,         \* pc[p]: where the handler of p stands
    target,     \* target[p]: the memo its request is about
    todo,       \* todo[p]: attachments it has still to delete
    link,       \* link[p]: attachments it is to link to target[p]
    victim,     \* victim[p]: the attachments it is deleting, or has deleted
                \* in its open transaction
    faults,     \* errors and crashes so far
    interrupted,\* history: the attachments a failure hit half-way
    overtaken   \* history: the memos deleted under another request's feet

rows == <<memo, memoIds, attached, ids>>
locals == <<target, todo, link, victim>>
history == <<interrupted, overtaken>>
vars == <<memo, memoIds, attached, ids, file, writer, pc, target, todo, link,
          victim, faults, interrupted, overtaken>>

PCs == {"idle", "save", "insert", "createMemo", "list", "resolve", "next",
        "file", "row", "begin", "txNext", "txFile", "batchRows", "batchFiles"}

Init ==
    /\ memo = {} /\ memoIds = {}
    /\ attached = [a \in AttachmentIds |-> Absent]
    /\ ids = {}
    /\ file = {}
    /\ writer = Nobody
    /\ pc = [p \in Procs |-> "idle"]
    /\ target = [p \in Procs |-> Unlinked]
    /\ todo = [p \in Procs |-> {}]
    /\ link = [p \in Procs |-> {}]
    /\ victim = [p \in Procs |-> {}]
    /\ faults = 0
    /\ interrupted = {} /\ overtaken = {}

HasRow(a) == attached[a] # Absent
Of(m) == {a \in AttachmentIds : attached[a] = m}

\* ListAttachments for a memo: the newest rows, as many as the limit allows
Listings(m) ==
    {S \in SUBSET Of(m) :
        Cardinality(S) = IF Cardinality(Of(m)) < ListLimit
                           THEN Cardinality(Of(m)) ELSE ListLimit}

At(p, from, to) ==
    /\ pc[p] = from
    /\ pc' = [pc EXCEPT ![p] = to]

\* Another goroutine's transaction keeps p's statement waiting.
MayWrite == writer = Nobody

Begin(p, to, m, todo0, link0) ==
    /\ At(p, "idle", to)
    /\ target' = [target EXCEPT ![p] = m]
    /\ todo' = [todo EXCEPT ![p] = todo0]
    /\ link' = [link EXCEPT ![p] = link0]
    /\ victim' = [victim EXCEPT ![p] = {}]
    /\ UNCHANGED <<file, writer, faults, history>>

-----------------------------------------------------------------------------
\* Mutation of Upload: ids are reused.
UploadReusingIds(p, a, m) ==
    /\ a \notin ids
    /\ m \in memo \cup {Unlinked}
    /\ Begin(p, "save", m, {}, {a})
    /\ UNCHANGED rows

\* CreateAttachment: the memo, if one is named, is looked up first ...
Upload(p, a, m) ==
    /\ a \notin ids
    /\ m \in memo \cup {Unlinked}
    /\ Begin(p, "save", m, {}, {a})
    /\ ids' = ids \cup {a}
    /\ UNCHANGED <<memo, memoIds, attached>>

\* ... SaveAttachmentBlob writes the file ...
SaveFile(p) ==
    /\ At(p, "save", "insert")
    /\ file' = file \cup link[p]
    /\ UNCHANGED <<rows, writer, locals, faults, history>>

\* ... and the row is inserted last, whatever has become of the memo
InsertRow(p) ==
    /\ MayWrite
    /\ At(p, "insert", "idle")
    /\ attached' = [a \in AttachmentIds |-> IF a \in link[p] THEN target[p] ELSE attached[a]]
    /\ UNCHANGED <<memo, memoIds, ids, file, writer, locals, faults, history>>

\* CreateMemo inserts the memo before it sets its attachments
CreateMemo(p, m, requested) ==
    /\ m \notin memoIds
    /\ memoIds' = memoIds \cup {m}
    /\ Begin(p, "createMemo", m, {}, requested)
    /\ UNCHANGED <<memo, attached, ids>>

InsertMemo(p) ==
    /\ MayWrite
    /\ \/ link[p] # {} /\ At(p, "createMemo", "list")
       \/ link[p] = {} /\ At(p, "createMemo", "idle")
    /\ memo' = memo \cup {target[p]}
    /\ UNCHANGED <<memoIds, attached, ids, file, writer, locals, faults, history>>

\* SetMemoAttachments, or the attachments of UpdateMemo
SetAttachments(p, m, requested) ==
    /\ m \in memo
    /\ Begin(p, "list", m, {}, requested)
    /\ UNCHANGED rows

\* setMemoAttachmentsInternal: what is linked but not requested is to go ...
ListCurrent(p) ==
    /\ At(p, "list", "resolve")
    /\ \E current \in Listings(target[p]) :
           todo' = [todo EXCEPT ![p] = current \ link[p]]
    /\ UNCHANGED <<rows, file, writer, target, link, victim, faults, history>>

\* ... unless a requested attachment does not exist
Resolve(p) ==
    /\ IF \A a \in link[p] : HasRow(a) THEN At(p, "resolve", "next")
                                       ELSE At(p, "resolve", "idle")
    /\ UNCHANGED <<rows, file, writer, locals, faults, history>>

\* the DeleteAttachment handler
DeleteOne(p, a) ==
    /\ HasRow(a)
    /\ Begin(p, "next", Unlinked, {a}, {})
    /\ UNCHANGED rows

\* store.DeleteAttachment, outside any transaction: look the row up, ...
NextVictim(p) ==
    /\ \E a \in todo[p] :
          /\ IF HasRow(a) THEN At(p, "next", "file") ELSE At(p, "next", "idle")
          /\ victim' = [victim EXCEPT ![p] = {a}]
          /\ todo' = [todo EXCEPT ![p] = @ \ {a}]
    /\ UNCHANGED <<rows, file, writer, target, link, faults, history>>

\* ... remove the file (none is as good), ...
RemoveFile(p) ==
    /\ At(p, "file", "row")
    /\ file' = file \ victim[p]
    /\ UNCHANGED <<rows, writer, locals, faults, history>>

\* ... then the row, by id and if it is still there
RemoveRow(p) ==
    /\ MayWrite
    /\ At(p, "row", "next")
    /\ attached' = [a \in AttachmentIds |-> IF a \in victim[p] THEN Absent ELSE attached[a]]
    /\ UNCHANGED <<memo, memoIds, ids, file, writer, locals, faults, history>>

\* The requested ones are linked one by one: an UPDATE of no row is no error,
\* and nothing asks whether the memo still exists.
LinkOne(p) ==
    /\ MayWrite
    /\ pc[p] = "next" /\ todo[p] = {}
    /\ \E a \in link[p] :
          /\ link' = [link EXCEPT ![p] = @ \ {a}]
          /\ attached' = [attached EXCEPT ![a] = IF HasRow(a) THEN target[p] ELSE Absent]
    /\ UNCHANGED <<memo, memoIds, ids, file, writer, pc, target, todo, victim,
                   faults, history>>

Finish(p) ==
    /\ todo[p] = {} /\ link[p] = {}
    /\ At(p, "next", "idle")
    /\ UNCHANGED <<rows, file, writer, locals, faults, history>>

-----------------------------------------------------------------------------
\* BatchDeleteAttachments: every row is looked up, ...
BatchDelete(p, S) ==
    /\ S # {} /\ \A a \in S : HasRow(a)
    /\ Begin(p, "batchRows", Unlinked, S, {})
    /\ UNCHANGED rows

\* ... all of them are deleted in one transaction ...
BatchRows(p) ==
    /\ MayWrite
    /\ At(p, "batchRows", "batchFiles")
    /\ attached' = [a \in AttachmentIds |-> IF a \in todo[p] THEN Absent ELSE attached[a]]
    /\ UNCHANGED <<memo, memoIds, ids, file, writer, locals, faults, history>>

\* Mutation of BatchFile: the files are forgotten.
BatchFileKept(p) ==
    /\ pc[p] = "batchFiles"
    /\ pc' = [pc EXCEPT ![p] = "idle"]
    /\ UNCHANGED <<rows, file, writer, locals, faults, history>>

\* ... and then the files, one by one
BatchFile(p) ==
    /\ pc[p] = "batchFiles"
    /\ \E a \in todo[p] :
          /\ file' = file \ {a}
          /\ todo' = [todo EXCEPT ![p] = @ \ {a}]
          /\ pc' = [pc EXCEPT ![p] = IF todo[p] = {a} THEN "idle" ELSE @]
    /\ UNCHANGED <<rows, writer, target, link, victim, faults, history>>

-----------------------------------------------------------------------------
\* DeleteMemo looks the memo up ...
DeleteMemo(p, m) ==
    /\ m \in memo
    /\ Begin(p, "begin", m, {}, {})
    /\ UNCHANGED rows

\* ... and store.DeleteMemo opens a transaction, writes in it (relations), and
\* lists the attachments of the memo
TxBegin(p) ==
    /\ MayWrite
    /\ At(p, "begin", "txNext")
    /\ writer' = p
    /\ \E current \in Listings(target[p]) : todo' = [todo EXCEPT ![p] = current]
    /\ UNCHANGED <<rows, file, target, link, victim, faults, history>>

\* For each of them the file goes at once, the row with the transaction.
TxNext(p) ==
    /\ todo[p] # {}
    /\ At(p, "txNext", "txFile")
    /\ UNCHANGED <<rows, file, writer, locals, faults, history>>

TxFile(p) ==
    /\ At(p, "txFile", "txNext")
    /\ \E a \in todo[p] :
          /\ file' = file \ {a}
          /\ todo' = [todo EXCEPT ![p] = @ \ {a}]
          /\ victim' = [victim EXCEPT ![p] = @ \cup {a}]
    /\ UNCHANGED <<rows, writer, target, link, faults, history>>

Serving(p, m) == pc[p] # "idle" /\ target[p] = m

\* Mutation of TxCommit: the rows of the attachments stay.
TxCommitMemoOnly(p) ==
    /\ todo[p] = {}
    /\ At(p, "txNext", "idle")
    /\ memo' = memo \ {target[p]}
    /\ writer' = Nobody
    /\ overtaken' = overtaken \cup
           {m \in {target[p]} : \E q \in Procs \ {p} : Serving(q, m)}
    /\ UNCHANGED <<memoIds, attached, ids, file, locals, faults, interrupted>>

TxCommit(p) ==
    /\ todo[p] = {}
    /\ At(p, "txNext", "idle")
    /\ memo' = memo \ {target[p]}
    /\ attached' = [a \in AttachmentIds |-> IF a \in victim[p] THEN Absent ELSE attached[a]]
    /\ writer' = Nobody
    /\ overtaken' = overtaken \cup
           {m \in {target[p]} : \E q \in Procs \ {p} : Serving(q, m)}
    /\ UNCHANGED <<memoIds, ids, file, locals, faults, interrupted>>

-----------------------------------------------------------------------------
\* What a request that ends here has left half-done: the file without its row
\* (insert, batchFiles), or the row without its file (row, and a transaction
\* that is rolled back).
HalfDone(p) ==
    CASE pc[p] \in {"save", "insert"} -> link[p]
      [] pc[p] \in {"row", "txNext", "txFile"} -> victim[p]
      [] pc[p] = "batchFiles" -> todo[p]
      [] OTHER -> {}

\* Mutation of Fail: the transaction is not rolled back.
FailHoldingLock(p) ==
    /\ faults < MaxFaults
    /\ pc[p] # "idle"
    /\ pc' = [pc EXCEPT ![p] = "idle"]
    /\ interrupted' = interrupted \cup HalfDone(p)
    /\ faults' = faults + 1
    /\ UNCHANGED <<rows, file, writer, locals, overtaken>>

\* A statement or the removal of a file fails: the handler returns the error,
\* and an open transaction is rolled back.
Fail(p) ==
    /\ faults < MaxFaults
    /\ pc[p] # "idle"
    /\ pc' = [pc EXCEPT ![p] = "idle"]
    /\ interrupted' = interrupted \cup HalfDone(p)
    /\ writer' = IF writer = p THEN Nobody ELSE writer
    /\ faults' = faults + 1
    /\ UNCHANGED <<rows, file, locals, overtaken>>

\* The process dies; the journal rolls back what was not committed.
Crash ==
    /\ faults < MaxFaults
    /\ pc' = [p \in Procs |-> "idle"]
    /\ interrupted' = interrupted \cup UNION {HalfDone(p) : p \in Procs}
    /\ writer' = Nobody
    /\ faults' = faults + 1
    /\ UNCHANGED <<rows, file, locals, overtaken>>

\* A request arrives.
Arrive(p) ==
    \/ \E a \in AttachmentIds : DeleteOne(p, a)
    \/ \E a \in AttachmentIds, m \in Memos \cup {Unlinked} : Upload(p, a, m)
    \/ \E m \in Memos : DeleteMemo(p, m)
    \/ \E S \in SUBSET ids : BatchDelete(p, S)
    \/ \E m \in Memos, S \in SUBSET ids : CreateMemo(p, m, S) \/ SetAttachments(p, m, S)

\* A request is served.
Serve(p) ==
    \/ SaveFile(p) \/ InsertRow(p) \/ InsertMemo(p)
    \/ ListCurrent(p) \/ Resolve(p) \/ NextVictim(p) \/ RemoveFile(p)
    \/ RemoveRow(p) \/ LinkOne(p) \/ Finish(p)
    \/ BatchRows(p) \/ BatchFile(p)
    \/ TxBegin(p) \/ TxNext(p) \/ TxFile(p) \/ TxCommit(p)

Next == Crash \/ \E p \in Procs : Arrive(p) \/ Serve(p) \/ Fail(p)

Spec == Init /\ [][Next]_vars

(***************************************************************************)
(* The Go scheduler runs every goroutine that can run; a statement that    *)
(* waits for the write lock retries until it gets it.                      *)
(***************************************************************************)
FairSpec == Spec /\ \A p \in Procs : SF_vars(Serve(p))

-----------------------------------------------------------------------------
TypeOK ==
    /\ memo \subseteq memoIds /\ memoIds \subseteq Memos
    /\ attached \in [AttachmentIds -> Memos \cup {Absent, Unlinked}]
    /\ ids \subseteq AttachmentIds
    /\ file \subseteq ids
    /\ writer \in Procs \cup {Nobody}
    /\ pc \in [Procs -> PCs]
    /\ target \in [Procs -> Memos \cup {Unlinked}]
    /\ todo \in [Procs -> SUBSET AttachmentIds]
    /\ link \in [Procs -> SUBSET AttachmentIds]
    /\ victim \in [Procs -> SUBSET AttachmentIds]
    /\ faults \in 0 .. MaxFaults
    /\ interrupted \subseteq AttachmentIds
    /\ overtaken \subseteq Memos

\* Some request is between the file and the row of a.
InTransit(a) == \E p \in Procs : a \in HalfDone(p)

\* However uploads, unlinkings, single and batch deletions and deletions of
\* memos interleave, on the same attachments too: file and row stand or fall
\* together, but for a request under way or one that failed half-way; and a
\* row loses its file only in the hands of a request that deletes the row next:
\* an upload is visible with its file or not at all.
FileIffRow ==
    \A a \in AttachmentIds \ interrupted :
        /\ InTransit(a) \/ (a \in file <=> HasRow(a))
        /\ HasRow(a) /\ a \notin file =>
               \E p \in Procs : pc[p] \in {"row", "txNext", "txFile"} /\ a \in victim[p]

\* A deleted memo leaves no attachment behind, except to a request that was
\* about the same memo and had looked it up before.
NoStrayAttachments ==
    \A a \in AttachmentIds :
        attached[a] \in memo \cup {Unlinked, Absent} \cup overtaken

\* Every request is answered: nobody waits for ever for the write lock that a
\* deletion holds while it removes files.
RequestsEnd == \A p \in Procs : pc[p] # "idle" ~> pc[p] = "idle"
=============================================================================
