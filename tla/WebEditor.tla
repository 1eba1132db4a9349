----------------------------- MODULE WebEditor -----------------------------
(***************************************************************************)
(* The memo editor: what is typed into it, the draft of it that the        *)
(* browser keeps (cacheService, useAutoSave), the files picked for it, and *)
(* the save that uploads these and writes the memo.  The buttons are       *)
(* disabled while a save is under way, but typing and picking are not; the *)
(* view with the editor may be left, and the page go away at any time.     *)
(***************************************************************************)
EXTENDS Naturals, FiniteSets

CONSTANTS
    Writings,       \* what can be typed
    Nothing,        \* the empty text, not in Writings
    NoWriting,      \* no text at all: nothing pending, nothing discarded
    Files,          \* the files that can be picked
    MaxUploads,     \* bound: attachments created
    MaxMemos        \* bound: memos written

ASSUME EditorAssumption ==
    /\ {Nothing, NoWriting} \cap Writings = {} /\ Nothing # NoWriting
    /\ MaxUploads \in Nat /\ MaxMemos \in Nat

VARIABLES
    editor,         \* "closed", or what it is open for: "create", "comment", "edit"
    text,           \* state.content
    picked,         \* state.localFiles
    held,           \* state.metadata.attachments
    discarded,      \* useAutoSave's discardedContentRef
    pending,        \* cacheService's pendingSaves
    draft,          \* the entry of localStorage
    save,           \* the save under way, if any
    rows,           \* the memos on the server
    edited,         \* the one that an edit is about
    uploads,        \* bound: how many attachments were created
    typed,          \* history: what the user last left, until it was saved
    muddled         \* history: what the editor makes no promise about has happened

editorVars == <<editor, text, picked, held, discarded, pending, draft, save, rows, edited, uploads,
                typed, muddled>>

Content == Writings \cup {Nothing}
Attachment == [file : Files, number : 1..MaxUploads]
Memo == [number : Nat, text : Content, files : SUBSET Attachment]
NoSave == [phase |-> "none"]
Drafting == editor \in {"create", "comment"}

Closed ==
    /\ editor' = "closed" /\ text' = Nothing /\ picked' = {} /\ held' = {} /\ discarded' = NoWriting

\* useMemoInit: a new memo starts from the draft.  Opening it while the save of
\* one that was closed goes on is muddled: its success clears the draft.
OpenDraft(kind) ==
    /\ editor = "closed"
    /\ editor' = kind /\ text' = draft /\ typed' = draft
    /\ picked' = {} /\ held' = {} /\ discarded' = NoWriting
    /\ pending' = draft
    /\ muddled' = (muddled \/ save # NoSave)
    /\ UNCHANGED <<draft, save, rows, edited, uploads>>

\* memoService.fromMemo; the drafts of edits have a key of their own
OpenEdit ==
    /\ editor = "closed" /\ save = NoSave
    /\ \E m \in rows :
          /\ editor' = "edit" /\ edited' = m.number
          /\ text' = m.text /\ held' = m.files
    /\ picked' = {} /\ discarded' = NoWriting
    /\ UNCHANGED <<pending, draft, save, rows, uploads, typed, muddled>>

\* UPDATE_CONTENT, and the effects of useAutoSave on it
TypeText(t) ==
    /\ editor # "closed" /\ t # text
    /\ text' = t
    /\ IF Drafting
       THEN pending' = t /\ typed' = t /\ discarded' = IF discarded # t THEN NoWriting ELSE discarded
       ELSE UNCHANGED <<pending, typed, discarded>>
    /\ muddled' = (muddled \/ save # NoSave)
    /\ UNCHANGED <<editor, picked, held, draft, save, rows, edited, uploads>>

\* ADD_LOCAL_FILE: picked, dropped or pasted (bound: no file that a memo has)
Pick(f) ==
    /\ editor # "closed"
    /\ f \notin picked
    /\ \A m \in rows : \A a \in m.files : a.file # f
    /\ picked' = picked \cup {f}
    /\ muddled' = (muddled \/ save # NoSave)
    /\ UNCHANGED <<editor, text, held, discarded, pending, draft, save, rows, edited, uploads, typed>>

\* REMOVE_LOCAL_FILE, REMOVE_ATTACHMENT
Drop ==
    /\ editor # "closed"
    /\ \/ \E f \in picked : picked' = picked \ {f} /\ UNCHANGED held
       \/ \E a \in held : held' = held \ {a} /\ UNCHANGED picked
    /\ muddled' = (muddled \/ save # NoSave)
    /\ UNCHANGED <<editor, text, discarded, pending, draft, save, rows, edited, uploads, typed>>

\* The timer of cacheService.save
WriteEntry ==
    /\ pending # NoWriting
    /\ draft' = pending /\ pending' = NoWriting
    /\ UNCHANGED <<editor, text, picked, held, discarded, save, rows, edited, uploads, typed, muddled>>

\* flushDraft: on leaving the page for another, and when the editor is closed
Flush ==
    IF Drafting /\ discarded # text
    THEN draft' = text /\ pending' = NoWriting
    ELSE UNCHANGED <<draft, pending>>

PageHidden ==
    /\ editor # "closed" /\ Flush
    /\ UNCHANGED <<editor, text, picked, held, discarded, save, rows, edited, uploads, typed, muddled>>

\* onCancel, unless there is a save; or the view that holds the editor is left,
\* and a save goes on.
CloseEditor ==
    /\ editor # "closed" /\ Flush /\ Closed
    /\ save' = IF save = NoSave THEN NoSave ELSE [save EXCEPT !.shown = FALSE]
    /\ UNCHANGED <<rows, edited, uploads, typed, muddled>>

\* The browser ends without saying so; what waited for the timer is not kept.
CrashTab ==
    /\ editor # "closed"
    /\ Closed /\ save' = NoSave /\ pending' = NoWriting
    /\ typed' = IF pending = NoWriting /\ save = NoSave THEN typed ELSE draft
    /\ muddled' = (muddled \/ save # NoSave)
    /\ UNCHANGED <<draft, rows, edited, uploads>>

\* validationService.canSave, on the save button of EditorToolbar
CanSave ==
    /\ editor # "closed" /\ save = NoSave
    /\ text # Nothing \/ held # {} \/ picked # {}

\* handleSave
StartSave ==
    /\ CanSave
    /\ save' = [phase |-> "upload", of |-> editor, shown |-> TRUE, text |-> text, held |-> held,
                files |-> picked, uploaded |-> {}]
    /\ UNCHANGED <<editor, text, picked, held, discarded, pending, draft, rows, edited, uploads, typed, muddled>>

\* uploadService: one file after another
Upload ==
    /\ save.phase = "upload" /\ uploads < MaxUploads
    /\ \E f \in save.files :
          /\ \A a \in save.uploaded : a.file # f
          /\ save' = [save EXCEPT !.uploaded = @ \cup {[file |-> f, number |-> uploads + 1]}]
    /\ uploads' = uploads + 1
    /\ UNCHANGED <<editor, text, picked, held, discarded, pending, draft, rows, edited, typed, muddled>>

\* createMemo, createMemoComment; updateMemo with what buildUpdateMask finds
\* different, which makes the memo what the editor shows
WriteMemo ==
    /\ save.phase = "upload"
    /\ {a.file : a \in save.uploaded} = save.files
    /\ LET files == save.held \cup save.uploaded IN
       IF save.of = "edit"
       THEN \E m \in rows :
               /\ m.number = edited
               /\ rows' = (rows \ {m}) \cup {[m EXCEPT !.text = save.text, !.files = files]}
               /\ save' = [save EXCEPT !.phase = IF m.text = save.text /\ m.files = files THEN "same" ELSE "written"]
       ELSE /\ Cardinality(rows) < MaxMemos
            /\ rows' = rows \cup {[number |-> Cardinality(rows) + 1, text |-> save.text, files |-> files]}
            /\ save' = [save EXCEPT !.phase = "written"]
    /\ UNCHANGED <<editor, text, picked, held, discarded, pending, draft, edited, uploads, typed, muddled>>

\* An error, also one that hides that the memo was written
SaveFails ==
    /\ save.phase \in {"upload", "written"}
    /\ save' = NoSave
    /\ muddled' = (muddled \/ (save.phase = "written" /\ save.of # "edit"))
    /\ UNCHANGED <<editor, text, picked, held, discarded, pending, draft, rows, edited, uploads, typed>>

\* "No changes detected"
NothingChanged ==
    /\ save.phase = "same"
    /\ save' = NoSave
    /\ IF save.shown THEN Closed ELSE UNCHANGED <<editor, text, picked, held, discarded>>
    /\ UNCHANGED <<pending, draft, rows, edited, uploads, typed, muddled>>

\* Mutation of DiscardDraft: the content is not remembered as discarded.
DiscardEntry(t) == draft' = Nothing /\ pending' = NoWriting /\ UNCHANGED discarded

\* useAutoSave's discardDraft
DiscardDraft(t) ==
    /\ draft' = Nothing /\ pending' = NoWriting
    /\ discarded' = IF save.shown THEN t ELSE discarded

\* The memo is written: "clear localStorage cache on successful save and prevent
\* the unmount flush from writing the just-saved content back as a stale draft".
SaveSucceeds ==
    /\ save.phase = "written"
    /\ save' = [save EXCEPT !.phase = "settling"]
    /\ IF save.of = "edit" THEN UNCHANGED <<draft, pending, discarded, typed>>
       ELSE DiscardDraft(text) /\ typed' = Nothing
    /\ UNCHANGED <<editor, text, picked, held, rows, edited, uploads, muddled>>

\* Mutation of Emptied: the files stay.
EmptiedOfText == text' = Nothing /\ held' = {} /\ UNCHANGED picked

\* RESET
Emptied == text' = Nothing /\ held' = {} /\ picked' = {}

\* The lists are fetched again; then the editor is emptied, and closed by the
\* onConfirm of a comment or an edit before it is drawn empty.
Reset ==
    /\ save.phase = "settling"
    /\ save' = NoSave
    /\ IF ~save.shown THEN UNCHANGED <<editor, text, picked, held, discarded, pending, draft>>
       ELSE IF save.of = "create"
       THEN /\ Emptied
            /\ pending' = IF text # Nothing THEN Nothing ELSE pending
            /\ discarded' = IF discarded # Nothing THEN NoWriting ELSE discarded
            /\ UNCHANGED <<editor, draft>>
       ELSE Flush /\ Closed
    /\ UNCHANGED <<rows, edited, uploads, typed, muddled>>

EditorInit ==
    /\ editor = "closed" /\ text = Nothing /\ picked = {} /\ held = {}
    /\ discarded = NoWriting /\ pending = NoWriting /\ draft = Nothing
    /\ save = NoSave /\ rows = {} /\ edited = 0 /\ uploads = 0
    /\ typed = Nothing /\ muddled = FALSE

EditorNext ==
    \/ \E kind \in {"create", "comment"} : OpenDraft(kind)
    \/ OpenEdit
    \/ \E t \in Content : TypeText(t)
    \/ \E f \in Files : Pick(f)
    \/ Drop \/ WriteEntry \/ PageHidden \/ CloseEditor \/ CrashTab
    \/ StartSave \/ Upload \/ WriteMemo \/ SaveFails \/ NothingChanged \/ SaveSucceeds \/ Reset

EditorSpec == EditorInit /\ [][EditorNext]_editorVars

-----------------------------------------------------------------------------
EditorTypeOK ==
    /\ editor \in {"closed", "create", "comment", "edit"}
    /\ {text, draft, typed} \subseteq Content /\ {discarded, pending} \subseteq Content \cup {NoWriting}
    /\ picked \subseteq Files /\ held \subseteq Attachment
    /\ save.phase \in {"none", "upload", "written", "same", "settling"}
    /\ \A m \in rows : m.number \in 1..MaxMemos /\ m.text \in Content /\ m.files \subseteq Attachment
    /\ edited \in 0..MaxMemos /\ uploads \in 0..MaxUploads /\ muddled \in BOOLEAN

\* Once the editor is closed the browser keeps exactly what was last typed and
\* not yet saved: no text is lost between the timer, the flush and the save, and
\* none that was saved comes back as a draft.
DraftIsWhatWasLeft ==
    editor = "closed" /\ save = NoSave /\ ~muddled =>
        draft = typed /\ pending \in {NoWriting, draft}

\* A file ends up in one memo and once in it, however often the save failed
\* before and whatever is saved next.
FileGoesIntoOneMemo ==
    ~muddled => \A m, n \in rows : \A a \in m.files, b \in n.files : a.file = b.file => m = n /\ a = b
=============================================================================
