----------------------------- MODULE WebImport -----------------------------
(***************************************************************************)
(* Export and import of memos (ImportExportSection, importService, zip).   *)
(* An export writes the memos of a fetched list and downloads their        *)
(* attachments into an archive; an import compares an archive with the     *)
(* list that was at hand when it was dropped, shows what it would do, and  *)
(* then works through it, one memo after another, while the memos may      *)
(* change elsewhere, other files are still being read, and any call may    *)
(* fail.                                                                   *)
(***************************************************************************)
EXTENDS Orders, Integers, FiniteSetsExt, SequencesExt

CONSTANTS
    MemoKeys,       \* content and creation time of a memo, by which it is recognised
    Filenames,
    EntryLimit,     \* 2^16: the archive counts its entries in 16 bits
    ListLimit,      \* 1000: memos in a list, the page size asked for and the server's greatest
    MaxIds,         \* bound: memos and attachments ever made
    MaxEvents,      \* bound: files dropped, and changes by another browser
    MaxExports      \* bound: archives written

ASSUME ImportAssumption ==
    /\ IsFiniteSet(MemoKeys) /\ IsFiniteSet(Filenames)
    /\ {EntryLimit, ListLimit} \subseteq Nat \ {0}
    /\ {MaxIds, MaxEvents, MaxExports} \subseteq Nat

VARIABLES
    vault,          \* the user's memos on the server
    next,           \* the identity of the next memo or attachment
    known,          \* memoList: the list as it was last fetched
    archive,        \* the file that was exported last
    exports,        \* bound: how many were
    events,         \* bound: how many files were dropped, and memos changed elsewhere
    reading,        \* those that parseImportFile has not read yet, with the list at hand
    step,           \* importStep: the panel that is shown
    offered,        \* parsedImport and importPreview: the file that was read last
    phase,          \* where the import that runs is: at an upload, or at the memo
    parsed,         \* the file that it is of, as it was when that was confirmed
    plan,           \* what it has still to do
    sent,           \* the attachments it has uploaded for the first of these
    tally,          \* its result
    saw             \* history: of the memos, what the import has seen

importVars == <<vault, next, known, archive, exports, events, reading, step, offered,
                phase, parsed, plan, sent, tally, saw>>

\* What an import that was confirmed goes by
importing == <<phase, parsed, plan, sent, tally, saw>>

\* A filename, with the counters that exports have appended to it
Name(file) == file.name
Named(files) == {Name(f) : f \in files}

NoArchive == [memos |-> <<>>, data |-> {}, readable |-> FALSE]
NoneParsed == [memos |-> <<>>, data |-> {}]
NoneOffered == [memos |-> <<>>, data |-> {}, list |-> {}]
NoPlan == [todo |-> <<>>, skipped |-> 0]
NoTally == [created |-> 0, updated |-> 0, skipped |-> 0, failed |-> 0, attachmentsFailed |-> 0]
NotSent == {}

\* The order of the attachments of a memo, in which they were added, and of the
\* list; that is by creation time, which the identities stand for.
Ordered(S) ==
    [n \in 1..Cardinality(S) |-> CHOOSE x \in S : Cardinality({y \in S : y.id <= x.id}) = n]

-----------------------------------------------------------------------------
\* "Deduplicate file names": a counter is appended to a name that is in use.
Renamed(name, used) ==
    IF name \notin used THEN name
    ELSE name \o <<Min({i \in 1..(Cardinality(used) + 1) : name \o <<i>> \notin used})>>

\* The names that the attachments of the memos get, in the order of the list
ExportNames(memos) ==
    FoldLeft(LAMBDA names, f : [names EXCEPT ![f] = Renamed(f.name, {names[g] : g \in DOMAIN names})],
            [f \in UNION {m.files : m \in memos} |-> <<>>],
            FlattenSeq([i \in 1..Cardinality(memos) |-> Ordered(Ordered(memos)[i].files)]))

\* The attachments that were downloaded follow data.json in the archive, which
\* is read up to the number of entries that it states.
Packed(memos, lost) ==
    LET names == ExportNames(memos)
        got == [i \in 1..Cardinality(memos) |-> SelectSeq(Ordered(Ordered(memos)[i].files), LAMBDA f : f \notin lost)]
        stated == (1 + Len(FlattenSeq(got))) % EntryLimit
    IN [memos |-> [i \in DOMAIN got |-> [key |-> Ordered(memos)[i].key, names |-> {names[f] : f \in Ordered(memos)[i].files \ lost}]],
        data |-> {names[FlattenSeq(got)[i]] : i \in 1..(stated - 1)},
        readable |-> stated > 0]

\* What can be selected, by filters and boxes or with "select all": any of them
Selections(memos) == SUBSET memos \ {{}}

\* handleExport
Export ==
    /\ exports < MaxExports
    /\ exports' = exports + 1
    /\ \E memos \in Selections(known) : \E lost \in SUBSET UNION {m.files : m \in memos} :
          archive' = Packed(memos, lost)
    /\ UNCHANGED <<vault, next, known, events, reading, step, offered, importing>>

\* What a list may have of the memos: it is cut, and the memos of others, which
\* count as well, are dropped from it; which ones it has depends on creation times.
Listings(memos) == {S \in SUBSET memos : Cardinality(S) <= ListLimit}

\* useMemos: the query is fetched again when it is stale; an import does not
\* invalidate it.
ListFetched ==
    /\ known' \in Listings(vault) \ {known}
    /\ UNCHANGED <<vault, next, archive, exports, events, reading, step, offered, importing>>

\* generateImportPreview: a Map of the key keeps the last memo that has it; of
\* two that were created at the same time the list has the later one first.
Existing(key, list) == {m \in list : m.key = key /\ \A n \in list : n.key = key => m.id <= n.id}

\* getNewAttachments
Missing(e, m) == e.names \ Named(m.files)

IsNew(e, list) == Existing(e.key, list) = {}
Lacks(e, list) == \E m \in Existing(e.key, list) : Missing(e, m) # {}

Additions(memos, list) == Chosen(memos, {i \in DOMAIN memos : IsNew(memos[i], list)})
Updates(memos, list) == Chosen(memos, {i \in DOMAIN memos : Lacks(memos[i], list)})

\* Mutation of Preview: every memo of the file counts as new.
PreviewAllNew(memos, list) ==
    [todo |-> [i \in DOMAIN memos |-> [of |-> memos[i], memo |-> {}]], skipped |-> 0]

\* What confirming would do: the new memos, then those with attachments to add
Preview(memos, list) ==
    LET todo == Additions(memos, list) \o Updates(memos, list) IN
    [todo |-> [i \in DOMAIN todo |-> [of |-> todo[i], memo |-> Existing(todo[i].key, list)]],
     skipped |-> Len(memos) - Len(todo)]

Twins(memos) == \E m, n \in memos : m # n /\ m.key = n.key

\* handleFileSelected, until parseImportFile is awaited: the archive, or its
\* data.json alone.  Nothing shows that it is being read, so the next file may be
\* dropped meanwhile.  What cannot be parsed is an error and nothing else.
SelectFile(alone) ==
    /\ step = "idle" /\ archive.readable
    /\ events < MaxEvents /\ events' = events + 1
    /\ reading' = reading \cup {[number |-> events, memos |-> archive.memos,
                                data |-> IF alone THEN {} ELSE archive.data, list |-> known]}
    /\ UNCHANGED <<vault, next, known, archive, exports, step, offered, importing>>

\* The rest of it, whatever is shown by then: the preview compares the file with
\* the list of the time when it was dropped.
FileParsed(file) ==
    /\ reading' = reading \ {file}
    /\ offered' = [memos |-> file.memos, data |-> file.data, list |-> file.list]
    /\ step' = "preview"
    /\ UNCHANGED <<vault, next, known, archive, exports, events, importing>>

OfferedPlan == Preview(offered.memos, offered.list)

\* How much an import knows: each memo as it is, and no two alike ("all"); some
\* of them, or two alike ("some"); or memos that are not there any more, or a file
\* that has two alike ("neither").
Sight(memos, list) ==
    IF ~(list \subseteq vault) \/ \E i, j \in DOMAIN memos : i # j /\ memos[i].key = memos[j].key THEN "neither"
    ELSE IF list # vault \/ Twins(vault) THEN "some" ELSE "all"

\* The panels that the import shows, and their buttons.  A preview may come up
\* while an import runs; only one import at a time is a bound.
CanConfirm == step = "preview" /\ OfferedPlan.todo # <<>> /\ phase = "none"
CanReset == step \in {"preview", "done"}

ConfirmImport ==
    /\ CanConfirm
    /\ step' = "importing" /\ phase' = "upload"
    /\ parsed' = [memos |-> offered.memos, data |-> offered.data]
    /\ plan' = OfferedPlan
    /\ tally' = [NoTally EXCEPT !.skipped = OfferedPlan.skipped]
    /\ saw' = Sight(offered.memos, offered.list)
    /\ UNCHANGED <<vault, next, known, archive, exports, events, reading, offered, sent>>

\* handleResetImport: an import that runs goes on.
ResetImport ==
    /\ CanReset
    /\ step' = "idle" /\ offered' = NoneOffered
    /\ IF phase = "none" THEN parsed' = NoneParsed /\ plan' = NoPlan /\ tally' = NoTally
                         ELSE UNCHANGED <<parsed, plan, tally>>
    /\ UNCHANGED <<vault, next, known, archive, exports, events, reading, phase, sent, saw>>

Task == Head(plan.todo)
WantedFiles(task) == IF task.memo = {} THEN task.of.names ELSE UNION {Missing(task.of, m) : m \in task.memo}

\* uploadMany: those with data in the archive are uploaded together, and any of
\* them may fail.
UploadMany ==
    /\ phase = "upload"
    /\ \E ok \in SUBSET (WantedFiles(Task) \cap parsed.data) :
          /\ next + Cardinality(ok) <= MaxIds
          /\ LET names == SetToSeq(ok) IN
             sent' = {[name |-> names[i], id |-> next + i - 1] : i \in DOMAIN names}
          /\ next' = next + Cardinality(ok)
          /\ tally' = [tally EXCEPT !.attachmentsFailed = @ + Cardinality(WantedFiles(Task) \ ok)]
    /\ phase' = "send"
    /\ UNCHANGED <<vault, known, archive, exports, events, reading, step, offered, parsed, plan, saw>>

\* The last of them shows the result, instead of whatever is shown by then.
Proceed(field) ==
    /\ plan' = [plan EXCEPT !.todo = Tail(@)]
    /\ IF Len(plan.todo) = 1 THEN phase' = "none" /\ step' = "done" ELSE phase' = "upload" /\ UNCHANGED step
    /\ tally' = [tally EXCEPT ![field] = @ + 1]
    /\ sent' = NotSent
    /\ UNCHANGED <<known, archive, exports, events, reading, offered, parsed, saw>>

\* CreateMemo makes the memo and then gives it its attachments; when it fails in
\* between, the memo stays with those it has got.
CreateImported(answered) ==
    /\ phase = "send" /\ Task.memo = {}
    /\ \E given \in SUBSET sent :
          /\ answered => given = sent
          /\ vault' = vault \cup {[id |-> next, key |-> Task.of.key, files |-> given]}
    /\ next' = next + 1
    /\ Proceed(IF answered THEN "created" ELSE "failed")

\* Mutation of OrderedFiles: only what is new is sent.
OrderedFilesNew(m) == sent

\* ordered: the attachments that the file names, one of each name; those that
\* the memo had at the preview, and those that are new.
OrderedFiles(m) ==
    {f \in m.files : f.name \in Task.of.names /\ \A g \in m.files : g.name = f.name => g.id <= f.id} \cup sent

\* normalizeMemoAttachmentRequest refuses a request that names an attachment that
\* does not exist: one that was deleted meanwhile, or whose upload has failed.
Acceptable(m) ==
    /\ Named(sent) = WantedFiles(Task)
    /\ \E n \in vault : n.id = m.id /\ OrderedFiles(m) \ sent \subseteq n.files

\* setMemoAttachmentsInternal deletes the attachments that are not in the request
\* and then links those that are: how far it may have come when it fails.
Halfway(old, wanted) ==
    {got \in SUBSET (old \cup wanted) : old \cap wanted \subseteq got /\ (got \subseteq old \/ got \subseteq wanted)}

UpdateImported(answered) ==
    /\ phase = "send"
    /\ \E m \in Task.memo : \E n \in vault :
          /\ n.id = m.id /\ Acceptable(m)
          /\ \E got \in IF answered THEN {OrderedFiles(m)} ELSE Halfway(n.files, OrderedFiles(m)) :
                vault' = (vault \ {n}) \cup {[n EXCEPT !.files = got]}
    /\ Proceed(IF answered THEN "updated" ELSE "failed")
    /\ UNCHANGED next

ImportRefused ==
    /\ phase = "send"
    /\ Proceed("failed")
    /\ UNCHANGED <<vault, next>>

\* Another browser deletes a memo or an attachment, or adds an attachment.
ChangeElsewhere ==
    /\ events < MaxEvents /\ events' = events + 1
    /\ \E m \in vault :
          \/ vault' = vault \ {m} /\ UNCHANGED next
          \/ \E f \in m.files :
                vault' = (vault \ {m}) \cup {[m EXCEPT !.files = @ \ {f}]} /\ UNCHANGED next
          \/ \E name \in Filenames :
                /\ next < MaxIds /\ next' = next + 1
                /\ vault' = (vault \ {m}) \cup {[m EXCEPT !.files = @ \cup {[name |-> <<name>>, id |-> next]}]}
    /\ saw' = "neither"
    /\ UNCHANGED <<known, archive, exports, reading, step, offered, phase, parsed, plan, sent, tally>>

ImportInit ==
    /\ \E full \in SUBSET MemoKeys :
          LET keys == SetToSeq(MemoKeys)
              names == SetToSeq(Filenames)
              id(i, j) == (i - 1) * (Len(names) + 1) + j
          IN /\ vault = {[id |-> id(i, 1), key |-> keys[i],
                          files |-> IF keys[i] \in full
                                    THEN {[name |-> <<names[j]>>, id |-> id(i, j + 1)] : j \in DOMAIN names}
                                    ELSE {}] : i \in DOMAIN keys}
             /\ next = id(Len(keys) + 1, 1)
    /\ known = {}
    /\ archive = NoArchive /\ exports = 0
    /\ events = 0 /\ reading = {} /\ step = "idle" /\ offered = NoneOffered
    /\ phase = "none" /\ parsed = NoneParsed /\ plan = NoPlan /\ sent = NotSent /\ tally = NoTally
    /\ saw = "neither"

ImportNext ==
    \/ Export \/ ListFetched
    \/ \E alone \in BOOLEAN : SelectFile(alone)
    \/ \E file \in reading : FileParsed(file)
    \/ ConfirmImport \/ ResetImport \/ UploadMany
    \/ \E answered \in BOOLEAN : CreateImported(answered) \/ UpdateImported(answered)
    \/ ImportRefused \/ ChangeElsewhere

ImportSpec == ImportInit /\ [][ImportNext]_importVars

-----------------------------------------------------------------------------
ImportTypeOK ==
    /\ step \in {"idle", "preview", "importing", "done"} /\ phase \in {"none", "upload", "send"}
    /\ phase = "none" <=> plan.todo = <<>>
    /\ \A m \in vault \cup known \cup offered.list : m.key \in MemoKeys /\ m.id < next
    /\ exports \in 0..MaxExports /\ events \in 0..MaxEvents
    /\ DOMAIN tally = DOMAIN NoTally /\ saw \in {"all", "some", "neither"}

\* When the result of an import is shown, each memo of its file is counted once,
\* whatever other files were read meanwhile.  Unless it shows a failure, each memo
\* of the file is there with all its attachments, even if the list had been cut or
\* was not fetched again, so that what it lacked is there twice: this is not said
\* when a memo of that list was changed or deleted, or one is changed by another
\* browser, or the file has two memos alike.  And if the list was complete and no
\* two memos were alike, none are now: to import the file once more would do nothing.
ImportIsComplete ==
    step = "done" =>
        /\ tally.created + tally.updated + tally.skipped + tally.failed = Len(parsed.memos)
        /\ tally.failed + tally.attachmentsFailed = 0 =>
               /\ saw # "neither" => \A i \in DOMAIN parsed.memos : \E m \in vault :
                                         m.key = parsed.memos[i].key /\ Missing(parsed.memos[i], m) = {}
               /\ saw = "all" => ~Twins(vault) /\ Preview(parsed.memos, vault).todo = <<>>

\* Importing touches no memo that the file has nothing for, and leaves a memo
\* that it updates one attachment of each name in the file, even when the update
\* fails half-way; it may remove others, although that is meant to add attachments
\* only.  The second part is not said of memos that have changed elsewhere.
ImportKeepsWhatTheFileHas ==
    [][phase = "send" /\ events' = events => \A m \in vault : \E n \in vault' :
           /\ n.id = m.id
           /\ m # n => \E t \in Task.memo : t.id = m.id
           /\ saw # "neither" => \A f \in m.files : f.name \in Task.of.names => f.name \in Named(n.files)]_importVars
=============================================================================
