---------------------------- MODULE WebMemo_proofs ---------------------------
(* Theorems about the modules of a memo in the browser: the drafts and the    *)
(* files of WebEditor, for any texts, files and memos; the recordings of      *)
(* WebRecorder, for any number of them; the views of WebMemoCache, for any    *)
(* memos, pages and buffer, and any number of changes and faults; the         *)
(* checkboxes of WebTasks, for any lines and any number of clicks; the lists  *)
(* of WebAttachmentList, for any files; the imports of WebImport, for any     *)
(* memos and filenames; and what they say of the instance that runs them all. *)
EXTENDS MCWeb, Orders_proofs

EditorKinds == {"create", "comment", "edit"}
SaveFields == {"phase", "of", "shown", "text", "held", "files", "uploaded"}

\* What a save is, as far as drafts go
SaveShape ==
    \/ save = NoSave
    \/ /\ save = [x \in SaveFields |-> save[x]]
       /\ save.phase \in {"upload", "written", "same", "settling"}
       /\ save.of \in EditorKinds /\ save.shown \in BOOLEAN
       /\ save.phase = "same" => save.of = "edit"

DraftTypes ==
    /\ editor \in {"closed"} \cup EditorKinds
    /\ {draft, typed} \subseteq Content /\ (Drafting => text \in Content)
    /\ pending \in Content \cup {NoWriting}
    /\ SaveShape

\* The save under way is that of the editor on the screen, if there is one.
SaveOfEditor ==
    save # NoSave => IF editor = "closed" THEN ~save.shown ELSE save.shown /\ save.of = editor

\* Unless it has just been discarded, what is in the editor is what was typed,
\* and it waits for the timer or has been written.
DraftOfEditor ==
    Drafting =>
        /\ discarded \in {NoWriting, text}
        /\ pending \in {NoWriting, text}
        /\ discarded = text => pending = NoWriting /\ draft = Nothing /\ typed = Nothing
        /\ discarded # text => typed = text /\ (pending = NoWriting => draft = text)
        /\ save.phase = "settling" => discarded = text

\* Without an editor for it, the entry is what was left.
DraftAtRest == ~Drafting => draft = typed /\ pending \in {NoWriting, draft}

DraftInv == DraftTypes /\ (~muddled => SaveOfEditor /\ DraftOfEditor /\ DraftAtRest)

-----------------------------------------------------------------------------
\* The parts of the invariant that do not speak of the save
USE DEF EditorKinds, Drafting

LEMMA TextFacts == NoWriting \notin Content /\ Nothing \in Content
PROOF
  BY EditorAssumption DEF Content

LEMMA NoSaveFacts == NoSave.phase = "none" /\ (SaveShape /\ save.phase # "none" => save # NoSave)
PROOF
  BY DEF NoSave

\* A save that changes its phase keeps the rest.
LEMMA PhaseStep ==
    ASSUME SaveShape, save # NoSave, NEW p \in {"written", "same", "settling"},
           save' = [save EXCEPT !.phase = p], p = "same" => save.of = "edit"
    PROVE  SaveShape' /\ save' # NoSave /\ save'.phase = p /\ save'.of = save.of /\ save'.shown = save.shown
PROOF
<1>1. save = [x \in SaveFields |-> save[x]] /\ save.of \in EditorKinds /\ save.shown \in BOOLEAN
  BY DEF SaveShape
<1>2. save' = [x \in SaveFields |-> IF x = "phase" THEN p ELSE save[x]]
  BY <1>1 DEF SaveFields
<1>3. save'.phase = p /\ save'.of = save.of /\ save'.shown = save.shown
  BY <1>2 DEF SaveFields
<1>4. save' = [x \in SaveFields |-> save'[x]]
  BY <1>2
<1>5. save' # NoSave
  BY <1>3, NoSaveFacts
<1>6. QED
  BY <1>1, <1>3, <1>4, <1>5 DEF SaveShape

\* Opening the editor
LEMMA OpenStep ==
    ASSUME DraftInv, OpenEdit \/ \E kind \in {"create", "comment"} : OpenDraft(kind)
    PROVE  DraftInv'
PROOF
<1> USE DEF DraftInv, DraftTypes
<1>1. ASSUME NEW kind \in {"create", "comment"}, OpenDraft(kind) PROVE DraftInv'
  <2>1. DraftTypes'
    BY <1>1, TextFacts DEF OpenDraft, SaveShape
  <2>2. ~muddled' => SaveOfEditor' /\ DraftOfEditor' /\ DraftAtRest'
    BY <1>1, TextFacts, NoSaveFacts DEF OpenDraft, SaveOfEditor, DraftOfEditor, DraftAtRest
  <2>3. QED
    BY <2>1, <2>2
<1>2. CASE OpenEdit
  BY <1>2, TextFacts DEF OpenEdit, SaveShape, SaveOfEditor, DraftOfEditor, DraftAtRest
<1>3. QED
  BY <1>1, <1>2

\* Working in it
LEMMA WorkStep ==
    ASSUME DraftInv,
           \/ \E t \in Content : TypeText(t)
           \/ \E f \in Files : Pick(f)
           \/ Drop \/ WriteEntry \/ PageHidden
    PROVE  DraftInv'
PROOF
<1> USE DEF DraftInv, DraftTypes, SaveShape, SaveOfEditor, DraftOfEditor, DraftAtRest
<1>1. ASSUME NEW t \in Content, TypeText(t) PROVE DraftInv'
  <2>1. DraftTypes'
    BY <1>1 DEF TypeText
  <2>2. ASSUME ~muddled' PROVE SaveOfEditor' /\ DraftOfEditor' /\ DraftAtRest'
    <3>1. ~muddled /\ save = NoSave /\ save' = NoSave /\ save'.phase = "none"
      BY <1>1, <2>2, NoSaveFacts DEF TypeText
    <3>2. CASE Drafting
      BY <1>1, <3>1, <3>2, TextFacts DEF TypeText
    <3>3. CASE ~Drafting
      BY <1>1, <3>1, <3>3 DEF TypeText
    <3>4. QED
      BY <3>2, <3>3
  <2>3. QED
    BY <2>1, <2>2
<1>2. ASSUME NEW f \in Files, Pick(f) PROVE DraftInv'
  BY <1>2 DEF Pick
<1>3. CASE Drop
  BY <1>3 DEF Drop
<1>4. CASE WriteEntry
  BY <1>4, TextFacts DEF WriteEntry
<1>5. CASE PageHidden
  BY <1>5, TextFacts DEF PageHidden, Flush
<1>6. QED
  BY <1>1, <1>2, <1>3, <1>4, <1>5

\* Leaving it
LEMMA LeaveStep ==
    ASSUME DraftInv, CloseEditor \/ CrashTab
    PROVE  DraftInv'
PROOF
<1> USE DEF DraftInv, DraftTypes, SaveOfEditor, DraftOfEditor, DraftAtRest
<1>1. CASE CloseEditor
  <2>1. SaveShape' /\ (save' # NoSave => ~save'.shown)
    <3>1. CASE save = NoSave
      BY <1>1, <3>1 DEF CloseEditor, SaveShape
    <3>2. CASE save # NoSave
      <4>1. save = [x \in SaveFields |-> save[x]] /\ save.phase \in {"upload", "written", "same", "settling"}
            /\ save.of \in EditorKinds /\ (save.phase = "same" => save.of = "edit")
        BY <3>2 DEF SaveShape
      <4>2. save' = [x \in SaveFields |-> IF x = "shown" THEN FALSE ELSE save[x]]
        BY <1>1, <3>2, <4>1 DEF CloseEditor, SaveFields
      <4>3. save'.shown = FALSE /\ save'.phase = save.phase /\ save'.of = save.of
        BY <4>2 DEF SaveFields
      <4>4. save' = [x \in SaveFields |-> save'[x]]
        BY <4>2
      <4>5. QED
        BY <4>1, <4>3, <4>4 DEF SaveShape
    <3>3. QED
      BY <3>1, <3>2
  <2>2. editor' = "closed" /\ typed' = typed /\ muddled' = muddled
    BY <1>1 DEF CloseEditor, Closed
  <2>3. CASE Drafting /\ discarded # text
    <3>1. draft' = text /\ pending' = NoWriting
      BY <1>1, <2>3 DEF CloseEditor, Flush
    <3>2. QED
      BY <2>1, <2>2, <2>3, <3>1, TextFacts
  <2>4. CASE ~(Drafting /\ discarded # text)
    <3>1. draft' = draft /\ pending' = pending
      BY <1>1, <2>4 DEF CloseEditor, Flush
    <3>2. QED
      BY <2>1, <2>2, <2>4, <3>1, TextFacts
  <2>5. QED
    BY <2>3, <2>4
<1>2. CASE CrashTab
  BY <1>2, TextFacts DEF CrashTab, Closed, SaveShape
<1>3. QED
  BY <1>1, <1>2

\* A save, until the memo is written
LEMMA SaveStep ==
    ASSUME DraftInv, StartSave \/ Upload \/ WriteMemo \/ SaveFails \/ NothingChanged
    PROVE  DraftInv'
PROOF
<1> USE DEF DraftInv, DraftTypes, SaveOfEditor, DraftOfEditor, DraftAtRest
<1>1. CASE StartSave
  <2>1. save' = [phase |-> "upload", of |-> editor, shown |-> TRUE, text |-> text, held |-> held,
                files |-> picked, uploaded |-> {}]
    BY <1>1 DEF StartSave
  <2>2. editor \in EditorKinds
    BY <1>1 DEF StartSave, CanSave
  <2>3. save' = [x \in SaveFields |-> save'[x]]
    BY <2>1 DEF SaveFields
  <2>4. save'.phase = "upload" /\ save'.of = editor /\ save'.shown
    BY <2>1
  <2>5. SaveShape'
    BY <2>2, <2>3, <2>4 DEF SaveShape
  <2>6. QED
    BY <1>1, <2>2, <2>4, <2>5, NoSaveFacts DEF StartSave
<1>2. CASE Upload
  <2>1. save # NoSave
    BY <1>2, NoSaveFacts DEF Upload
  <2>2. save = [x \in SaveFields |-> save[x]]
    BY <2>1 DEF SaveShape
  <2>3. PICK u : save' = [save EXCEPT !.uploaded = u]
    BY <1>2 DEF Upload
  <2>4. save' = [x \in SaveFields |-> IF x = "uploaded" THEN u ELSE save[x]]
    BY <2>2, <2>3 DEF SaveFields
  <2>5. save'.phase = save.phase /\ save'.of = save.of /\ save'.shown = save.shown
    BY <2>4 DEF SaveFields
  <2>6. save' = [x \in SaveFields |-> save'[x]]
    BY <2>4
  <2>7. SaveShape'
    BY <2>1, <2>5, <2>6 DEF SaveShape
  <2>8. QED
    BY <1>2, <2>1, <2>5, <2>7 DEF Upload
<1>3. CASE WriteMemo
  <2>1. save # NoSave /\ save.phase = "upload"
    BY <1>3, NoSaveFacts DEF WriteMemo
  <2>2. PICK p \in {"written", "same"} :
            save' = [save EXCEPT !.phase = p] /\ (p = "same" => save.of = "edit")
    BY <1>3 DEF WriteMemo
  <2>3. SaveShape' /\ save' # NoSave /\ save'.phase = p /\ save'.of = save.of /\ save'.shown = save.shown
    BY <2>1, <2>2, PhaseStep
  <2>4. QED
    BY <1>3, <2>1, <2>3 DEF WriteMemo
<1>4. CASE SaveFails
  BY <1>4, NoSaveFacts DEF SaveFails, SaveShape
<1>5. CASE NothingChanged
  <2>1. save # NoSave /\ save.of = "edit"
    BY <1>5, NoSaveFacts DEF NothingChanged, SaveShape
  <2>2. QED
    BY <1>5, <2>1, NoSaveFacts DEF NothingChanged, SaveShape, Closed
<1>6. QED
  BY <1>1, <1>2, <1>3, <1>4, <1>5

\* What follows when it is written
LEMMA SettleStep ==
    ASSUME DraftInv, SaveSucceeds \/ Reset
    PROVE  DraftInv'
PROOF
<1> USE DEF DraftInv, DraftTypes, SaveOfEditor, DraftOfEditor, DraftAtRest
<1>1. CASE SaveSucceeds
  <2>1. save # NoSave /\ save' = [save EXCEPT !.phase = "settling"]
    BY <1>1, NoSaveFacts DEF SaveSucceeds
  <2>2. SaveShape' /\ save' # NoSave /\ save'.phase = "settling" /\ save'.of = save.of /\ save'.shown = save.shown
    BY <2>1, PhaseStep
  <2>3. CASE save.of = "edit"
    BY <1>1, <2>1, <2>2, <2>3 DEF SaveSucceeds
  <2>4. CASE save.of # "edit"
    BY <1>1, <2>1, <2>2, <2>4, TextFacts DEF SaveSucceeds, DiscardDraft
  <2>5. QED
    BY <2>3, <2>4
<1>2. CASE Reset
  <2>1. save # NoSave /\ save' = NoSave /\ save.phase = "settling" /\ save'.phase = "none" /\ SaveShape'
    BY <1>2, NoSaveFacts DEF Reset, SaveShape
  <2>2. CASE ~save.shown
    BY <1>2, <2>1, <2>2 DEF Reset
  <2>3. CASE save.shown /\ save.of = "create"
    BY <1>2, <2>1, <2>3, TextFacts DEF Reset, Emptied
  <2>4. CASE save.shown /\ save.of # "create"
    BY <1>2, <2>1, <2>4, TextFacts DEF Reset, Flush, Closed
  <2>5. QED
    BY <2>2, <2>3, <2>4
<1>3. QED
  BY <1>1, <1>2

\* Text, entry and what was typed agree, until the editor makes no promise.
LEMMA DraftInvariant == EditorSpec => []DraftInv
PROOF
<1>1. EditorInit => DraftInv
  BY TextFacts, NoSaveFacts
  DEF EditorInit, DraftInv, DraftTypes, SaveShape, SaveOfEditor, DraftOfEditor, DraftAtRest
<1>2. DraftInv /\ [EditorNext]_editorVars => DraftInv'
  <2> SUFFICES ASSUME DraftInv, [EditorNext]_editorVars PROVE DraftInv'
    OBVIOUS
  <2>1. CASE EditorNext
    BY <2>1, OpenStep, WorkStep, LeaveStep, SaveStep, SettleStep DEF EditorNext
  <2>2. CASE UNCHANGED editorVars
    BY <2>2 DEF editorVars, DraftInv, DraftTypes, SaveShape, SaveOfEditor, DraftOfEditor, DraftAtRest
  <2>3. QED
    BY <2>1, <2>2
<1>3. QED
  BY <1>1, <1>2, PTL DEF EditorSpec

\* cacheService and useAutoSave: whatever is typed, saved, closed, hidden and
\* crashed in whatever order, the timer pending or not, the entry of a closed
\* editor is what was last typed and not yet saved.
THEOREM DraftKept == EditorSpec => []DraftIsWhatWasLeft
PROOF
<1>1. DraftInv => DraftIsWhatWasLeft
  BY DEF DraftInv, DraftAtRest, DraftIsWhatWasLeft
<1>2. QED
  BY <1>1, DraftInvariant, PTL

HIDE DEF EditorKinds, Drafting

-----------------------------------------------------------------------------
(* FileGoesIntoOneMemo: what is to be sent is in no other memo yet.           *)

SaveRecord ==
    [phase : {"upload", "written", "same", "settling"}, of : EditorKinds, shown : BOOLEAN, text : Content,
     held : SUBSET Attachment, files : SUBSET Files, uploaded : SUBSET Attachment]

\* EditorTypeOK, the shape of a save, and memos numbered in turn
EditorTypes ==
    /\ EditorTypeOK
    /\ save \in SaveRecord \cup {NoSave}
    /\ IsFiniteSet(rows) /\ rows \subseteq Memo
    /\ \A m, n \in rows : m.number \in 1..Cardinality(rows) /\ (m.number = n.number => m = n)

\* What an editor that is open for `of` shows or sends: attachments of the memo
\* that it edits, and files that no other memo has.
Fresh(of, attached, files) ==
    /\ \A a \in attached : a.file \notin files
    /\ IF of = "edit"
       THEN /\ \E m \in rows : m.number = edited /\ attached \subseteq m.files
            /\ \A m \in rows : m.number # edited => \A a \in m.files : a.file \notin files
       ELSE attached = {} /\ \A m \in rows : \A a \in m.files : a.file \notin files

\* Until its memo is written; the files of an edit are in its own memo then.
EditorFresh ==
    IF editor = "closed" THEN picked = {} /\ held = {}
    ELSE save.phase \in {"none", "upload"} \/ editor = "edit" => Fresh(editor, held, picked)

SaveFresh ==
    save.phase = "upload" =>
        /\ Fresh(save.of, save.held, save.files)
        /\ \A a, b \in save.uploaded : a.file \in save.files /\ (a.file = b.file => a = b)
        /\ editor # "closed" => save.held = held /\ save.files = picked

FilesInv == EditorTypes /\ (~muddled => SaveOfEditor /\ EditorFresh /\ SaveFresh /\ FileGoesIntoOneMemo)

LEMMA NoSaveIsNoRecord == NoSave \notin SaveRecord
PROOF
BY NoSaveFacts DEF SaveRecord

\* A memo more
LEMMA RowAdded ==
    ASSUME EditorTypes, Cardinality(rows) < MaxMemos, NEW t \in Content, NEW fs \in SUBSET Attachment,
           rows' = rows \cup {[number |-> Cardinality(rows) + 1, text |-> t, files |-> fs]}
    PROVE  /\ IsFiniteSet(rows') /\ rows' \subseteq Memo
           /\ \A m \in rows' : m.number \in 1..MaxMemos
           /\ \A m, n \in rows' : m.number \in 1..Cardinality(rows') /\ (m.number = n.number => m = n)
PROOF
<1> DEFINE new == [number |-> Cardinality(rows) + 1, text |-> t, files |-> fs]
<1>1. Cardinality(rows) \in Nat /\ IsFiniteSet(rows)
  BY FS_CardinalityType DEF EditorTypes
<1>2. new \in Memo /\ new.number = Cardinality(rows) + 1
  BY <1>1 DEF Memo
<1>3. new \notin rows
  BY <1>1, <1>2 DEF EditorTypes
<1>4. rows' = rows \cup {new}
  OBVIOUS
<1> HIDE DEF new
<1>5. IsFiniteSet(rows') /\ Cardinality(rows') = Cardinality(rows) + 1
  BY <1>1, <1>3, <1>4, FS_AddElement
<1>6. \A m \in rows : m.number \in 1..Cardinality(rows) /\ m.number \in 1..MaxMemos
  BY DEF EditorTypes, EditorTypeOK
<1>7. new.number \in 1..MaxMemos
  BY <1>1, <1>2, EditorAssumption
<1>8. \A m \in rows' : m.number \in 1..MaxMemos
  BY <1>4, <1>6, <1>7
<1>9. \A m \in rows' : m.number \in 1..Cardinality(rows')
  BY <1>1, <1>2, <1>4, <1>5, <1>6
<1>10. \A m, n \in rows' : m.number = n.number => m = n
  <2>1. \A m \in rows : m.number # new.number
    BY <1>1, <1>2, <1>6
  <2>2. QED
    BY <1>4, <2>1 DEF EditorTypes
<1>11. rows' \subseteq Memo
  BY <1>2, <1>4 DEF EditorTypes
<1>12. QED
  BY <1>5, <1>8, <1>9, <1>10, <1>11

\* A memo that is written anew
LEMMA RowReplaced ==
    ASSUME EditorTypes, NEW m \in rows, NEW n \in Memo, n.number = m.number,
           rows' = (rows \ {m}) \cup {n}
    PROVE  /\ IsFiniteSet(rows') /\ rows' \subseteq Memo
           /\ \A k \in rows' : k.number \in 1..MaxMemos
           /\ \A k, l \in rows' : k.number \in 1..Cardinality(rows') /\ (k.number = l.number => k = l)
PROOF
<1>1. Cardinality(rows) \in Nat /\ IsFiniteSet(rows)
  BY FS_CardinalityType DEF EditorTypes
<1>2. IsFiniteSet(rows \ {m}) /\ Cardinality(rows \ {m}) = Cardinality(rows) - 1
  BY <1>1, FS_RemoveElement
<1>3. n \notin rows \ {m}
  BY DEF EditorTypes
<1>4. IsFiniteSet(rows') /\ Cardinality(rows') = Cardinality(rows)
  BY <1>1, <1>2, <1>3, FS_AddElement
<1>5. QED
  BY <1>1, <1>4 DEF EditorTypes, EditorTypeOK

\* What is in the save keeps its type when one field is replaced.
LEMMA SaveFields1 ==
    ASSUME EditorTypes, save # NoSave
    PROVE  /\ save \in SaveRecord
           /\ \A p \in {"upload", "written", "same", "settling"} :
                  LET s == [save EXCEPT !.phase = p]
                  IN  /\ s \in SaveRecord /\ s.phase = p
                      /\ s.of = save.of /\ s.shown = save.shown /\ s.text = save.text
                      /\ s.held = save.held /\ s.files = save.files /\ s.uploaded = save.uploaded
           /\ \A b \in BOOLEAN :
                  LET s == [save EXCEPT !.shown = b]
                  IN  /\ s \in SaveRecord /\ s.shown = b
                      /\ s.of = save.of /\ s.phase = save.phase /\ s.text = save.text
                      /\ s.held = save.held /\ s.files = save.files /\ s.uploaded = save.uploaded
           /\ \A u \in SUBSET Attachment :
                  LET s == [save EXCEPT !.uploaded = u]
                  IN  /\ s \in SaveRecord /\ s.uploaded = u
                      /\ s.of = save.of /\ s.phase = save.phase /\ s.text = save.text
                      /\ s.held = save.held /\ s.files = save.files /\ s.shown = save.shown
PROOF
<1>1. save \in SaveRecord
  BY DEF EditorTypes
<1>2. QED
  BY <1>1 DEF SaveRecord

\* Opening the editor, working in it and leaving it change no memo.
LEMMA OpenFiles ==
    ASSUME FilesInv, OpenEdit \/ \E kind \in {"create", "comment"} : OpenDraft(kind)
    PROVE  FilesInv'
PROOF
<1>1. ASSUME NEW kind \in {"create", "comment"}, OpenDraft(kind) PROVE FilesInv'
  <2>1. EditorTypes'
    BY <1>1, TextFacts DEF OpenDraft, FilesInv, EditorTypes, EditorTypeOK
  <2>2. ASSUME ~muddled' PROVE SaveOfEditor' /\ EditorFresh' /\ SaveFresh' /\ FileGoesIntoOneMemo'
    <3>1. ~muddled /\ save' = NoSave /\ save'.phase = "none" /\ rows' = rows
      BY <1>1, <2>2, NoSaveFacts DEF OpenDraft
    <3>2. Fresh(editor, held, picked)'
      BY <1>1 DEF OpenDraft, Fresh
    <3>3. QED
      BY <1>1, <3>1, <3>2 DEF OpenDraft, FilesInv, EditorFresh, SaveFresh, SaveOfEditor, FileGoesIntoOneMemo
  <2>3. QED
    BY <2>1, <2>2 DEF FilesInv
<1>2. CASE OpenEdit
  <2>1. PICK m \in rows : editor' = "edit" /\ edited' = m.number /\ text' = m.text /\ held' = m.files
    BY <1>2 DEF OpenEdit
  <2>2. /\ picked' = {} /\ discarded' = NoWriting /\ save = NoSave /\ save'.phase = "none"
        /\ UNCHANGED <<pending, draft, save, rows, uploads, typed, muddled>>
    BY <1>2, NoSaveFacts DEF OpenEdit
  <2>3. m \in Memo /\ m.number \in 1..MaxMemos
    BY DEF FilesInv, EditorTypes, EditorTypeOK
  <2>4. m.text \in Content /\ m.files \subseteq Attachment /\ m.number \in 0..MaxMemos
    BY <2>3 DEF Memo
  <2>5. EditorTypes'
    BY <2>1, <2>2, <2>4 DEF FilesInv, EditorTypes, EditorTypeOK
  <2>6. Fresh(editor, held, picked)'
    BY <2>1, <2>2 DEF Fresh
  <2>7. QED
    BY <2>1, <2>2, <2>5, <2>6 DEF FilesInv, EditorFresh, SaveFresh, SaveOfEditor, FileGoesIntoOneMemo
<1>3. QED
  BY <1>1, <1>2

LEMMA WorkFiles ==
    ASSUME FilesInv,
           \/ \E t \in Content : TypeText(t)
           \/ \E f \in Files : Pick(f)
           \/ Drop \/ WriteEntry \/ PageHidden
    PROVE  FilesInv'
PROOF
<1> USE DEF FilesInv
<1>1. ASSUME NEW t \in Content, TypeText(t) PROVE FilesInv'
  <2>1. EditorTypes'
    BY <1>1 DEF TypeText, EditorTypes, EditorTypeOK
  <2>2. QED
    BY <1>1, <2>1 DEF TypeText, EditorFresh, Fresh, SaveFresh, SaveOfEditor, FileGoesIntoOneMemo
<1>2. ASSUME NEW f \in Files, Pick(f) PROVE FilesInv'
  <2>1. EditorTypes'
    BY <1>2 DEF Pick, EditorTypes, EditorTypeOK
  <2>2. ASSUME ~muddled' PROVE SaveOfEditor' /\ EditorFresh' /\ SaveFresh' /\ FileGoesIntoOneMemo'
    <3>1. ~muddled /\ save = NoSave /\ save' = NoSave /\ save.phase = "none" /\ Fresh(editor, held, picked)
      BY <1>2, <2>2, NoSaveFacts DEF Pick, EditorFresh
    <3>2. Fresh(editor, held, picked)'
      BY <1>2, <3>1 DEF Pick, Fresh
    <3>3. QED
      BY <1>2, <3>1, <3>2 DEF Pick, EditorFresh, SaveFresh, SaveOfEditor, FileGoesIntoOneMemo
  <2>3. QED
    BY <2>1, <2>2
<1>3. CASE Drop
  <2>1. picked' \subseteq picked /\ held' \subseteq held /\ editor # "closed"
        /\ muddled' = (muddled \/ save # NoSave)
        /\ UNCHANGED <<editor, text, discarded, pending, draft, save, rows, edited, uploads, typed>>
    BY <1>3 DEF Drop
  <2>2. EditorTypes'
    BY <2>1 DEF EditorTypes, EditorTypeOK
  <2>3. Fresh(editor, held, picked) => Fresh(editor, held, picked)'
    BY <2>1 DEF Fresh
  <2>4. QED
    BY <2>1, <2>2, <2>3, NoSaveFacts DEF EditorFresh, SaveFresh, SaveOfEditor, FileGoesIntoOneMemo
<1>4. CASE WriteEntry
  <2>1. EditorTypes'
    BY <1>4 DEF WriteEntry, EditorTypes, EditorTypeOK
  <2>2. QED
    BY <1>4, <2>1 DEF WriteEntry, EditorFresh, Fresh, SaveFresh, SaveOfEditor, FileGoesIntoOneMemo
<1>5. CASE PageHidden
  <2>1. EditorTypes'
    BY <1>5 DEF PageHidden, Flush, EditorTypes, EditorTypeOK
  <2>2. QED
    BY <1>5, <2>1 DEF PageHidden, EditorFresh, Fresh, SaveFresh, SaveOfEditor, FileGoesIntoOneMemo
<1>6. QED
  BY <1>1, <1>2, <1>3, <1>4, <1>5

LEMMA LeaveFiles ==
    ASSUME FilesInv, CloseEditor \/ CrashTab
    PROVE  FilesInv'
PROOF
<1> USE DEF FilesInv
<1>1. CASE CloseEditor
  <2>1. editor' = "closed" /\ picked' = {} /\ held' = {} /\ UNCHANGED <<rows, edited, uploads, typed, muddled>>
    BY <1>1 DEF CloseEditor, Closed
  <2>2. /\ save = NoSave => save' = NoSave
        /\ save # NoSave => /\ save' \in SaveRecord /\ ~save'.shown /\ save'.phase = save.phase
                            /\ save'.of = save.of /\ save'.held = save.held /\ save'.files = save.files
                            /\ save'.uploaded = save.uploaded
    BY <1>1, SaveFields1 DEF CloseEditor
  <2>3. text' \in Content /\ draft' \in Content /\ {pending', discarded'} \subseteq Content \cup {NoWriting}
    BY <1>1, TextFacts DEF CloseEditor, Closed, Flush, EditorTypes, EditorTypeOK
  <2>4. save' = NoSave \/ save' \in SaveRecord
    BY <2>2
  <2>5. save'.phase \in {"none", "upload", "written", "same", "settling"}
    BY <2>4, NoSaveFacts DEF SaveRecord
  <2>6. EditorTypes'
    BY <2>1, <2>3, <2>4, <2>5 DEF EditorTypes, EditorTypeOK
  <2>7. SaveFresh => SaveFresh'
    BY <2>1, <2>2, NoSaveFacts DEF SaveFresh, Fresh
  <2>8. QED
    BY <2>1, <2>2, <2>6, <2>7 DEF EditorFresh, SaveOfEditor, FileGoesIntoOneMemo
<1>2. CASE CrashTab
  <2>1. EditorTypes'
    BY <1>2, NoSaveFacts, TextFacts DEF CrashTab, Closed, EditorTypes, EditorTypeOK
  <2>2. save' = NoSave /\ save'.phase = "none"
    BY <1>2, NoSaveFacts DEF CrashTab
  <2>3. QED
    BY <1>2, <2>1, <2>2 DEF CrashTab, Closed, EditorFresh, SaveFresh, SaveOfEditor, FileGoesIntoOneMemo
<1>3. QED
  BY <1>1, <1>2

LEMMA SendFiles ==
    ASSUME FilesInv, StartSave \/ Upload
    PROVE  FilesInv'
PROOF
<1> USE DEF FilesInv
<1>1. CASE StartSave
  <2>1. /\ save' = [phase |-> "upload", of |-> editor, shown |-> TRUE, text |-> text, held |-> held,
                    files |-> picked, uploaded |-> {}]
        /\ editor # "closed" /\ save = NoSave
        /\ UNCHANGED <<editor, text, picked, held, discarded, pending, draft, rows, edited, uploads, typed, muddled>>
    BY <1>1 DEF StartSave, CanSave
  <2>2. /\ save'.phase = "upload" /\ save'.of = editor /\ save'.shown /\ save'.held = held
        /\ save'.files = picked /\ save'.uploaded = {}
    BY <2>1
  <2>3. save' \in SaveRecord
    BY <2>1 DEF SaveRecord, EditorTypes, EditorTypeOK, EditorKinds
  <2>4. EditorTypes'
    BY <2>1, <2>2, <2>3 DEF EditorTypes, EditorTypeOK
  <2>5. ASSUME ~muddled PROVE Fresh(editor, held, picked) /\ Fresh(editor, held, picked)'
    BY <2>1, <2>5, NoSaveFacts DEF EditorFresh, Fresh
  <2>6. ~muddled => EditorFresh' /\ SaveFresh'
    BY <2>1, <2>2, <2>5 DEF EditorFresh, SaveFresh
  <2>7. QED
    BY <2>1, <2>2, <2>4, <2>6 DEF SaveOfEditor, FileGoesIntoOneMemo
<1>2. CASE Upload
  <2>1. save # NoSave /\ save.phase = "upload"
    BY <1>2, NoSaveFacts DEF Upload
  <2>2. PICK f \in save.files :
            /\ \A a \in save.uploaded : a.file # f
            /\ save' = [save EXCEPT !.uploaded = @ \cup {[file |-> f, number |-> uploads + 1]}]
    BY <1>2 DEF Upload
  <2> DEFINE new == [file |-> f, number |-> uploads + 1]
  <2>3. save \in SaveRecord /\ f \in Files /\ uploads \in Nat /\ uploads < MaxUploads
    BY <1>2, <2>1, EditorAssumption DEF Upload, EditorTypes, EditorTypeOK, SaveRecord
  <2>4. new \in Attachment /\ new.file = f
    BY <2>3, EditorAssumption DEF Attachment
  <2> HIDE DEF new
  <2>5. save' = [save EXCEPT !.uploaded = save.uploaded \cup {new}] /\ save.uploaded \cup {new} \in SUBSET Attachment
    BY <2>2, <2>3, <2>4 DEF new, SaveRecord
  <2>6. /\ save' \in SaveRecord /\ save'.uploaded = save.uploaded \cup {new}
        /\ save'.of = save.of /\ save'.phase = save.phase /\ save'.held = save.held
        /\ save'.files = save.files /\ save'.shown = save.shown
    BY <2>1, <2>5, SaveFields1
  <2>7. /\ uploads' = uploads + 1
        /\ UNCHANGED <<editor, text, picked, held, discarded, pending, draft, rows, edited, typed, muddled>>
    BY <1>2 DEF Upload
  <2>8. EditorTypes'
    BY <2>1, <2>3, <2>6, <2>7, EditorAssumption DEF EditorTypes, EditorTypeOK
  <2>9. save' # NoSave
    BY <2>6, NoSaveIsNoRecord
  <2>10. \A of, h, fs : Fresh(of, h, fs) => Fresh(of, h, fs)'
    BY <2>7 DEF Fresh
  <2>11. ASSUME ~muddled PROVE SaveFresh'
    BY <2>1, <2>2, <2>4, <2>6, <2>7, <2>11 DEF SaveFresh, Fresh
  <2>12. QED
    BY <2>1, <2>6, <2>7, <2>8, <2>9, <2>11 DEF EditorFresh, Fresh, SaveOfEditor, FileGoesIntoOneMemo
<1>3. QED
  BY <1>1, <1>2

\* The memo is written: of a new memo the files were in none, of an edit in no other.
LEMMA WriteFiles ==
    ASSUME FilesInv, WriteMemo
    PROVE  FilesInv'
PROOF
<1> USE DEF FilesInv
<1> DEFINE files == save.held \cup save.uploaded
<1>1. /\ save # NoSave /\ save.phase = "upload" /\ {a.file : a \in save.uploaded} = save.files
      /\ UNCHANGED <<editor, text, picked, held, discarded, pending, draft, edited, uploads, typed, muddled>>
  BY NoSaveFacts DEF WriteMemo
<1>2. save \in SaveRecord /\ files \in SUBSET Attachment /\ save.text \in Content
  BY <1>1 DEF EditorTypes, SaveRecord
<1>3. PICK p \in {"written", "same"} : save' = [save EXCEPT !.phase = p]
  BY DEF WriteMemo
<1>4. /\ save' \in SaveRecord /\ save'.phase = p /\ save'.of = save.of /\ save'.shown = save.shown /\ save' # NoSave
  BY <1>1, <1>3, SaveFields1, NoSaveIsNoRecord
<1>5. ASSUME ~muddled
      PROVE  /\ Fresh(save.of, save.held, save.files) /\ SaveOfEditor /\ FileGoesIntoOneMemo
             /\ \A a, b \in save.uploaded : a.file \in save.files /\ (a.file = b.file => a = b)
             /\ editor # "closed" => save.held = held /\ save.files = picked
  BY <1>1, <1>5 DEF SaveFresh
<1>6. SaveFresh' /\ (SaveOfEditor => SaveOfEditor')
  BY <1>1, <1>4 DEF SaveFresh, SaveOfEditor
<1> HIDE DEF files
<1>7. CASE save.of = "edit"
  <2>1. PICK m \in rows : m.number = edited /\ rows' = (rows \ {m}) \cup {[m EXCEPT !.text = save.text, !.files = files]}
    BY <1>7 DEF WriteMemo, files
  <2> DEFINE new == [m EXCEPT !.text = save.text, !.files = files]
  <2>2. new \in Memo /\ new.number = m.number /\ new.files = files
    BY <1>2, <2>1 DEF EditorTypes, Memo
  <2> HIDE DEF new
  <2>3. rows' = (rows \ {m}) \cup {new}
    BY <2>1 DEF new
  <2>4. EditorTypes'
    <3>1. /\ IsFiniteSet(rows') /\ rows' \subseteq Memo
          /\ \A k \in rows' : k.number \in 1..MaxMemos
          /\ \A k, l \in rows' : k.number \in 1..Cardinality(rows') /\ (k.number = l.number => k = l)
      BY <2>2, <2>3, RowReplaced
    <3>2. \A k \in rows' : k.text \in Content /\ k.files \subseteq Attachment
      BY <3>1 DEF Memo
    <3>3. QED
      BY <1>1, <1>4, <3>1, <3>2 DEF EditorTypes, EditorTypeOK
  <2>5. ASSUME ~muddled PROVE EditorFresh' /\ FileGoesIntoOneMemo'
    <3>1. save.held \subseteq m.files /\ (\A a \in save.held : a.file \notin save.files)
          /\ \A n \in rows \ {m} : \A a \in n.files : a.file \notin save.files
      BY <1>5, <1>7, <2>1, <2>5 DEF Fresh, EditorTypes
    <3>2. \A a \in files : a \in save.held \/ (a \in save.uploaded /\ a.file \in save.files)
      BY <1>5, <2>5 DEF files
    <3>3. \A a, b \in files : a.file = b.file => a = b
      BY <1>5, <2>5, <3>1, <3>2 DEF FileGoesIntoOneMemo
    <3>4. \A n \in rows \ {m} : \A a \in n.files, b \in files : a.file # b.file
      BY <1>5, <2>5, <3>1, <3>2 DEF FileGoesIntoOneMemo
    <3>5. FileGoesIntoOneMemo'
      BY <1>5, <2>2, <2>3, <2>5, <3>3, <3>4 DEF FileGoesIntoOneMemo
    <3>6. CASE editor = "closed"
      BY <1>1, <2>5, <3>5, <3>6 DEF EditorFresh
    <3>7. CASE editor # "closed"
      <4>1. editor = "edit" /\ save.held = held /\ save.files = picked
        BY <1>1, <1>5, <1>7, <2>5, <3>7 DEF SaveOfEditor
      <4>2. held \subseteq new.files /\ new \in rows' /\ new.number = edited
        BY <2>1, <2>2, <2>3, <4>1 DEF files
      <4>3. \A n \in rows' : n.number # edited => \A a \in n.files : a.file \notin picked
        BY <2>1, <2>2, <2>3, <3>1, <4>1
      <4>4. Fresh(editor, held, picked)'
        BY <1>1, <3>1, <4>1, <4>2, <4>3 DEF Fresh
      <4>5. QED
        BY <1>1, <3>5, <3>7, <4>4 DEF EditorFresh
    <3>8. QED
      BY <3>6, <3>7
  <2>6. QED
    BY <1>1, <1>5, <1>6, <2>4, <2>5
<1>8. CASE save.of # "edit"
  <2> DEFINE new == [number |-> Cardinality(rows) + 1, text |-> save.text, files |-> files]
  <2>1. Cardinality(rows) < MaxMemos /\ rows' = rows \cup {new} /\ p = "written"
    BY <1>2, <1>3, <1>8, SaveFields1 DEF WriteMemo, files, SaveRecord
  <2>2. new.files = files
    OBVIOUS
  <2>3. EditorTypes'
    <3>1. /\ IsFiniteSet(rows') /\ rows' \subseteq Memo
          /\ \A m \in rows' : m.number \in 1..MaxMemos
          /\ \A m, n \in rows' : m.number \in 1..Cardinality(rows') /\ (m.number = n.number => m = n)
      BY <1>2, <2>1, RowAdded
    <3>2. \A k \in rows' : k.text \in Content /\ k.files \subseteq Attachment
      BY <3>1 DEF Memo
    <3>3. QED
      BY <1>1, <1>4, <3>1, <3>2 DEF EditorTypes, EditorTypeOK
  <2> HIDE DEF new
  <2>4. ASSUME ~muddled PROVE EditorFresh' /\ FileGoesIntoOneMemo'
    <3>1. save.held = {} /\ \A m \in rows : \A a \in m.files : a.file \notin save.files
      BY <1>5, <1>8, <2>4 DEF Fresh
    <3>2. \A a \in files : a \in save.uploaded /\ a.file \in save.files
      BY <1>5, <2>4, <3>1 DEF files
    <3>3. FileGoesIntoOneMemo'
      BY <1>5, <2>1, <2>2, <2>4, <3>1, <3>2 DEF FileGoesIntoOneMemo
    <3>4. editor # "edit"
      BY <1>1, <1>5, <1>8, <2>4 DEF SaveOfEditor
    <3>5. QED
      BY <1>1, <1>4, <2>1, <2>4, <3>3, <3>4 DEF EditorFresh
  <2>5. QED
    BY <1>1, <1>5, <1>6, <2>3, <2>4
<1>9. QED
  BY <1>7, <1>8

\* Only the failure of an edit that was written leaves an editor with files that
\* a memo has; it is the memo it edits, and the next save replaces them there.
LEMMA EndFiles ==
    ASSUME FilesInv, SaveFails \/ NothingChanged \/ SaveSucceeds \/ Reset
    PROVE  FilesInv'
PROOF
<1> USE DEF FilesInv
<1>1. CASE SaveFails
  <2>1. /\ save # NoSave /\ save' = NoSave /\ save'.phase = "none"
        /\ muddled' = (muddled \/ (save.phase = "written" /\ save.of # "edit"))
        /\ UNCHANGED <<editor, text, picked, held, discarded, pending, draft, rows, edited, uploads, typed>>
    BY <1>1, NoSaveFacts DEF SaveFails
  <2>2. EditorTypes'
    BY <2>1 DEF EditorTypes, EditorTypeOK
  <2>3. ASSUME ~muddled' PROVE EditorFresh'
    <3>1. editor # "closed" => save.phase = "upload" \/ editor = "edit"
      BY <1>1, <2>1, <2>3 DEF SaveFails, SaveOfEditor
    <3>2. QED
      BY <2>1, <2>3, <3>1 DEF EditorFresh, Fresh
  <2>4. QED
    BY <2>1, <2>2, <2>3 DEF SaveFresh, SaveOfEditor, FileGoesIntoOneMemo
<1>2. CASE NothingChanged
  <2>1. save # NoSave /\ save' = NoSave /\ save'.phase = "none" /\ UNCHANGED <<pending, draft, rows, edited, uploads, typed, muddled>>
    BY <1>2, NoSaveFacts DEF NothingChanged
  <2>2. EditorTypes'
    BY <1>2, <2>1, TextFacts DEF NothingChanged, Closed, EditorTypes, EditorTypeOK
  <2>3. ASSUME ~muddled PROVE editor' = "closed" /\ picked' = {} /\ held' = {}
    BY <1>2, <2>1, <2>3 DEF NothingChanged, Closed, SaveOfEditor, EditorFresh
  <2>4. QED
    BY <2>1, <2>2, <2>3 DEF SaveFresh, EditorFresh, SaveOfEditor, FileGoesIntoOneMemo
<1>3. CASE SaveSucceeds
  <2>1. /\ save # NoSave /\ save.phase = "written" /\ save' = [save EXCEPT !.phase = "settling"]
        /\ UNCHANGED <<editor, text, picked, held, rows, edited, uploads, muddled>>
    BY <1>3, NoSaveFacts DEF SaveSucceeds
  <2>2. /\ save' \in SaveRecord /\ save'.phase = "settling" /\ save'.of = save.of /\ save'.shown = save.shown
        /\ save' # NoSave
    BY <2>1, SaveFields1, NoSaveIsNoRecord
  <2>3. typed' \in Content /\ draft' \in Content /\ {pending', discarded'} \subseteq Content \cup {NoWriting}
    BY <1>3, TextFacts DEF SaveSucceeds, DiscardDraft, EditorTypes, EditorTypeOK
  <2>4. EditorTypes'
    BY <2>1, <2>2, <2>3 DEF EditorTypes, EditorTypeOK
  <2>5. QED
    BY <2>1, <2>2, <2>4 DEF SaveFresh, EditorFresh, Fresh, SaveOfEditor, FileGoesIntoOneMemo
<1>4. CASE Reset
  <2>1. save # NoSave /\ save' = NoSave /\ save'.phase = "none" /\ UNCHANGED <<rows, edited, uploads, typed, muddled>>
    BY <1>4, NoSaveFacts DEF Reset
  <2>2. EditorTypes'
    BY <1>4, <2>1, TextFacts DEF Reset, Flush, Closed, Emptied, EditorTypes, EditorTypeOK
  <2>3. ASSUME ~muddled PROVE picked' = {} /\ held' = {} /\ (editor' = "closed" \/ editor' = "create")
    BY <1>4, <2>1, <2>3 DEF Reset, Emptied, Closed, SaveOfEditor, EditorFresh
  <2>4. ASSUME ~muddled PROVE EditorFresh'
    BY <2>3, <2>4 DEF EditorFresh, Fresh
  <2>5. QED
    BY <2>1, <2>2, <2>4 DEF SaveFresh, SaveOfEditor, FileGoesIntoOneMemo
<1>5. QED
  BY <1>1, <1>2, <1>3, <1>4

LEMMA FilesInvariant == EditorSpec => []FilesInv
PROOF
<1>1. EditorInit => FilesInv
  <2> SUFFICES ASSUME EditorInit PROVE FilesInv
    OBVIOUS
  <2>1. IsFiniteSet(rows) /\ rows = {}
    BY FS_EmptySet DEF EditorInit
  <2>2. EditorTypes
    <3>1. EditorTypeOK
      <4>1. 0 \in 0..MaxMemos /\ 0 \in 0..MaxUploads
        BY EditorAssumption
      <4>2. save.phase = "none"
        BY NoSaveFacts DEF EditorInit
      <4>3. QED
        BY <4>1, <4>2, TextFacts DEF EditorInit, EditorTypeOK
    <3>2. save = NoSave /\ rows \subseteq Memo
      BY DEF EditorInit
    <3>3. QED
      BY <2>1, <3>1, <3>2 DEF EditorTypes
  <2>3. QED
    BY <2>1, <2>2, NoSaveFacts DEF EditorInit, FilesInv, EditorFresh, SaveFresh, SaveOfEditor, FileGoesIntoOneMemo
<1>2. FilesInv /\ [EditorNext]_editorVars => FilesInv'
  <2> SUFFICES ASSUME FilesInv, [EditorNext]_editorVars PROVE FilesInv'
    OBVIOUS
  <2>1. CASE EditorNext
    BY <2>1, OpenFiles, WorkFiles, LeaveFiles, SendFiles, WriteFiles, EndFiles DEF EditorNext
  <2>2. CASE UNCHANGED editorVars
    BY <2>2 DEF editorVars, FilesInv, EditorTypes, EditorTypeOK, SaveOfEditor, EditorFresh, SaveFresh, Fresh,
                FileGoesIntoOneMemo
  <2>3. QED
    BY <2>1, <2>2
<1>3. QED
  BY <1>1, <1>2, PTL DEF EditorSpec

\* The editor's state keeps its types, and the memos are numbered in turn.
THEOREM EditorTypesCorrect == EditorSpec => []EditorTypeOK
PROOF
<1>1. FilesInv => EditorTypeOK
  BY DEF FilesInv, EditorTypes
<1>2. QED
  BY <1>1, FilesInvariant, PTL

\* uploadService and memoService.save: for any number of files, attempts and
\* memos, a file that is picked ends up in one memo and once in it, unless a
\* save was overtaken by typing, picking or reopening, or was written in secret.
THEOREM FilesGoIntoOneMemo == EditorSpec => []FileGoesIntoOneMemo
PROOF
<1>1. FilesInv => FileGoesIntoOneMemo
  BY DEF FilesInv, FileGoesIntoOneMemo
<1>2. QED
  BY <1>1, FilesInvariant, PTL

-----------------------------------------------------------------------------
(* RecordingIsShownUntilItEnds, for any number of recordings: each request   *)
(* has one number, which is that of a prompt, then of a recorder, then of a   *)
(* transcript or a fate.                                                      *)

PromptType == [id : Nat, able : BOOLEAN]
RecordingType == [id : Nat, able : BOOLEAN, stopping : BOOLEAN]

Ended == {f[1] : f \in fates}

\* RecorderTypeOK, by its parts; a request is counted when one may be wanted.
RecorderTypes ==
    /\ {present, able, panel, transcribing, saving} \subseteq BOOLEAN
    /\ status \in {"idle", "requesting", "recording", "error"} /\ mode \in {"attach", "transcribe"}
    /\ astray \subseteq {"overlap", "reset", "left"}
    /\ request \in Nat /\ request <= MaxRecordings + 1 /\ (MaxRecordings = 0 => request = 0)
    /\ Busy => request \in 1..MaxRecordings
    /\ current \in 0..request
    /\ prompts \subseteq PromptType /\ recorders \subseteq RecordingType
    /\ fates \subseteq Nat \X {"file", "text", "empty", "cancelled"}
    /\ \A p \in prompts : p.id \in 1..request /\ p.id <= MaxRecordings
    /\ \A r \in recorders : r.id \in 1..request
    /\ streams \cup transcripts \cup begun \cup Ended \subseteq 1..request

Apart ==
    /\ \A p, q \in prompts : p.id = q.id => p = q
    /\ \A q, r \in recorders : q.id = r.id => q = r
    /\ \A p \in prompts, r \in recorders : p.id # r.id

\* What may still end has not ended.
Unsettled ==
    /\ \A t \in transcripts : t \notin Ended
    /\ \/ Busy
       \/ \E p \in prompts : p.id = request
       \/ \E r \in recorders : r.id = request
       => request \notin transcripts \cup Ended
    /\ \A f, g \in fates : f[1] = g[1] => f = g

\* The microphone is on for what the editor shows.
MicrophoneShown ==
    astray \cap {"left", "reset"} = {} =>
        /\ prompts # {} => present
        /\ \A id \in streams : present /\ status = "recording" /\ id = current /\ id = request

\* While none is begun before the other has ended
OneAtATime ==
    astray = {} =>
        /\ \A p \in prompts : p.id = request => panel /\ recorders = {} /\ transcripts = {}
        /\ recorders # {} => transcripts = {} /\ \A q, r \in recorders : q = r
        /\ \A r \in recorders : r.id = request \/ r.id \in Ended
        /\ \A id \in streams : panel /\ \E r \in recorders : r.id = id
        /\ \A b \in begun : b \in Ended \cup transcripts \/ \E r \in recorders : r.id = b
        /\ transcribing => transcripts # {} \/ (mode = "transcribe" /\ \E r \in recorders : r.id = request)

RecorderInv == RecorderTypes /\ Apart /\ Unsettled /\ MicrophoneShown /\ OneAtATime

-----------------------------------------------------------------------------
LEMMA TypesSayRecorderTypeOK == RecorderTypes => RecorderTypeOK
PROOF
<1> SUFFICES ASSUME RecorderTypes PROVE RecorderTypeOK
  OBVIOUS
<1>1. request \in 0..(2 * MaxRecordings)
  <2>1. request \in Nat /\ request <= MaxRecordings + 1 /\ (MaxRecordings = 0 => request = 0)
    BY DEF RecorderTypes
  <2>2. QED
    BY <2>1, RecorderAssumption
<1>2. {p.id : p \in prompts} \subseteq 1..request /\ {r.id : r \in recorders} \subseteq 1..request
  BY DEF RecorderTypes
<1>3. {p.id : p \in prompts} \cup {r.id : r \in recorders} \cup streams \cup transcripts \cup begun \subseteq 1..request
  BY <1>2 DEF RecorderTypes
<1>4. /\ {present, able, panel, transcribing, saving} \subseteq BOOLEAN
      /\ status \in {"idle", "requesting", "recording", "error"} /\ mode \in {"attach", "transcribe"}
      /\ current \in 0..request /\ astray \subseteq {"overlap", "reset", "left"}
  BY DEF RecorderTypes
<1>5. QED
  BY <1>1, <1>3, <1>4, Zenon DEF RecorderTypeOK

LEMMA RecorderInitially == RecorderInit => RecorderInv
PROOF
<1> SUFFICES ASSUME RecorderInit PROVE RecorderInv
  OBVIOUS
<1>1. Ended = {} /\ ~Busy
  BY DEF RecorderInit, Ended, Busy
<1>2. RecorderTypes
  <2>1. request = 0 /\ request \in Nat /\ request <= MaxRecordings + 1 /\ current \in 0..request
    BY RecorderAssumption DEF RecorderInit
  <2>2. /\ {present, able, panel, transcribing, saving} \subseteq BOOLEAN
        /\ status \in {"idle", "requesting", "recording", "error"} /\ mode \in {"attach", "transcribe"}
    BY DEF RecorderInit
  <2>3. QED
    BY <1>1, <2>1, <2>2 DEF RecorderInit, RecorderTypes
<1>3. Apart /\ Unsettled /\ MicrophoneShown /\ OneAtATime
  BY <1>1 DEF RecorderInit, Apart, Unsettled, MicrophoneShown, OneAtATime
<1>4. QED
  BY <1>2, <1>3 DEF RecorderInv

\* A fate is noted.
LEMMA FateNoted ==
    ASSUME NEW id, NEW fate, fates' = fates \cup {<<id, fate>>}
    PROVE  Ended' = Ended \cup {id}
PROOF
<1>1. <<id, fate>>[1] = id
  OBVIOUS
<1>2. \A x : x \in Ended' <=> x \in Ended \/ x = id
  BY <1>1 DEF Ended
<1>3. QED
  BY <1>2

\* The AI setting comes, or the editor is left: what is recorded is let go.
LEMMA TearDown ==
    ASSUME RecorderInv, SettingArrives \/ LeaveEditor
    PROVE  RecorderInv'
PROOF
<1> USE DEF RecorderInv
<1>1. Ended' = Ended
  BY DEF SettingArrives, LeaveEditor, Ended
<1>2. /\ streams' \subseteq streams /\ current' = 0 /\ current \notin streams'
      /\ UNCHANGED <<request, prompts, recorders, mode, panel, transcribing, transcripts, saving, begun, fates>>
      /\ status' \in {status, "idle"} /\ {present', able'} \subseteq BOOLEAN
  BY DEF SettingArrives, LeaveEditor, ResetRefs, RecorderTypes
<1>3. astray' \in {astray, astray \cup {"left"}}
  BY DEF SettingArrives, LeaveEditor
<1>4. RecorderTypes'
  BY <1>1, <1>2, <1>3 DEF RecorderTypes, Busy
<1>5. Apart' /\ Unsettled' /\ OneAtATime'
  BY <1>1, <1>2, <1>3 DEF Apart, Unsettled, OneAtATime, Busy
<1>6. ASSUME astray' \cap {"left", "reset"} = {}
      PROVE  streams' = {} /\ (prompts' # {} => present')
  BY <1>2, <1>3, <1>6 DEF SettingArrives, LeaveEditor, MicrophoneShown
<1>7. QED
  BY <1>4, <1>5, <1>6 DEF MicrophoneShown

\* A request is made; it has a number of its own.
LEMMA RequestStep ==
    ASSUME RecorderInv, ClickRecord
    PROVE  RecorderInv'
PROOF
<1> USE DEF RecorderInv
<1> DEFINE new == [id |-> request + 1, able |-> able]
<1>1. new \in PromptType /\ new.id = request + 1
  BY DEF PromptType, RecorderTypes
<1>2. /\ present /\ ~Busy /\ request < MaxRecordings
      /\ panel' = TRUE /\ status' = "requesting" /\ request' = request + 1 /\ prompts' = prompts \cup {new}
      /\ astray' = IF recorders # {} \/ transcripts # {} THEN astray \cup {"overlap"} ELSE astray
      /\ UNCHANGED <<present, able, recorders, streams, current, mode, transcribing, transcripts, saving, begun, fates>>
  BY DEF ClickRecord
<1>3. Ended' = Ended
  BY <1>2 DEF Ended
<1> HIDE DEF new
<1>4. RecorderTypes'
  BY <1>1, <1>2, <1>3, RecorderAssumption DEF RecorderTypes, Busy
<1>5. Apart'
  BY <1>1, <1>2 DEF RecorderTypes, Apart
<1>6. Unsettled'
  <2>1. request' \notin transcripts' \cup Ended'
    BY <1>2, <1>3 DEF RecorderTypes
  <2>2. QED
    BY <1>2, <1>3, <2>1 DEF Unsettled
<1>7. MicrophoneShown'
  BY <1>2 DEF MicrophoneShown, Busy
<1>8. OneAtATime'
  <2> SUFFICES ASSUME astray' = {} PROVE OneAtATime'
    BY DEF OneAtATime
  <2>1. recorders = {} /\ transcripts = {} /\ astray = {}
    BY <1>2
  <2>2. streams = {} /\ ~transcribing
    BY <2>1 DEF OneAtATime
  <2>3. QED
    BY <1>2, <1>3, <2>1, <2>2 DEF OneAtATime
<1>9. QED
  BY <1>4, <1>5, <1>6, <1>7, <1>8

\* The user or the browser answers it.
LEMMA PromptStep ==
    ASSUME RecorderInv, NEW p \in prompts, Granted(p) \/ PromptRefused(p)
    PROVE  RecorderInv'
PROOF
<1> USE DEF RecorderInv
<1>1. prompts' = prompts \ {p} /\ p \in PromptType /\ p.id \in 1..request /\ Ended' = Ended
      /\ UNCHANGED <<present, able, request, mode, transcribing, transcripts, saving, fates, astray>>
  BY DEF Granted, PromptRefused, RecorderTypes, Ended
<1>2. CASE UNCHANGED <<recorders, streams, current, status, begun, panel>>
  <2>1. RecorderTypes'
    BY <1>1, <1>2 DEF RecorderTypes, Busy
  <2>2. QED
    BY <1>1, <1>2, <2>1 DEF Busy, Apart, Unsettled, MicrophoneShown, OneAtATime
<1>3. CASE Granted(p) /\ p.id = request
  <2> DEFINE new == [id |-> p.id, able |-> p.able, stopping |-> FALSE]
  <2>1. new \in RecordingType /\ new.id = request
    BY <1>1, <1>3 DEF RecordingType, PromptType
  <2>2. /\ recorders' = recorders \cup {new} /\ streams' = streams \cup {request} /\ current' = request
        /\ status' = "recording" /\ begun' = begun \cup {request} /\ UNCHANGED panel
    BY <1>3 DEF Granted, Wanted
  <2> HIDE DEF new
  <2>3. RecorderTypes'
    <3>1. request \in 1..MaxRecordings /\ request \in 1..request
      BY <1>1, <1>3, RecorderAssumption DEF RecorderTypes
    <3>2. /\ recorders' \subseteq RecordingType /\ \A r \in recorders' : r.id \in 1..request
          /\ streams' \cup begun' \subseteq 1..request /\ current' \in 0..request
      BY <2>1, <2>2, <3>1 DEF RecorderTypes
    <3>3. status' \in {"idle", "requesting", "recording", "error"}
      BY <2>2
    <3>4. prompts' \subseteq prompts
      BY <1>1
    <3>5. transcripts' \cup Ended' \subseteq 1..request
      BY <1>1 DEF RecorderTypes
    <3>6. request' = request /\ {present', able', panel', transcribing', saving'} \subseteq BOOLEAN
      BY <1>1, <2>2 DEF RecorderTypes
    <3>7. QED
      BY <1>1, <3>1, <3>2, <3>3, <3>4, <3>5, <3>6 DEF RecorderTypes
  <2>4. Apart'
    BY <1>1, <1>3, <2>1, <2>2 DEF Apart
  <2>5. Unsettled'
    BY <1>1, <1>3, <2>1, <2>2 DEF Unsettled
  <2>6. MicrophoneShown'
    BY <1>1, <1>3, <2>1, <2>2 DEF MicrophoneShown
  <2>7. OneAtATime'
    BY <1>1, <1>3, <2>1, <2>2 DEF OneAtATime, Apart
  <2>8. QED
    BY <2>3, <2>4, <2>5, <2>6, <2>7
<1>4. CASE PromptRefused(p) /\ p.id = request
  <2>1. /\ current' = 0 /\ streams' = streams \ {current} /\ status' = "error" /\ panel' = FALSE
        /\ UNCHANGED <<recorders, begun>>
    BY <1>4 DEF PromptRefused, ResetRefs, Wanted
  <2>2. RecorderTypes'
    <3>1. ~Busy' /\ status' \in {"idle", "requesting", "recording", "error"} /\ current' \in 0..request'
      BY <1>1, <2>1 DEF RecorderTypes, Busy
    <3>2. prompts' \subseteq prompts /\ streams' \subseteq streams
      BY <1>1, <2>1
    <3>3. {present', able', panel', transcribing', saving'} \subseteq BOOLEAN
      BY <1>1, <2>1 DEF RecorderTypes
    <3>4. QED
      BY <1>1, <2>1, <3>1, <3>2, <3>3 DEF RecorderTypes
  <2>3. Apart' /\ Unsettled' /\ MicrophoneShown'
    BY <1>1, <2>1 DEF Apart, Unsettled, MicrophoneShown, Busy
  <2>4. OneAtATime'
    BY <1>1, <1>4, <2>1 DEF OneAtATime, Apart
  <2>5. QED
    BY <2>2, <2>3, <2>4
<1>5. QED
  BY <1>2, <1>3, <1>4 DEF Granted, PromptRefused, Wanted

\* The recorder is told to stop.
LEMMA StopStep ==
    ASSUME RecorderInv, NEW m \in {"attach", "transcribe"}, StopRecording(m)
    PROVE  RecorderInv'
PROOF
<1> USE DEF RecorderInv
<1>1. PICK r \in recorders :
          /\ r.id = current /\ ~r.stopping /\ r.id \in streams
          /\ recorders' = (recorders \ {r}) \cup {[r EXCEPT !.stopping = TRUE]}
  BY DEF StopRecording
<1> DEFINE new == [r EXCEPT !.stopping = TRUE]
<1>2. new \in RecordingType /\ new.id = r.id /\ r.id \in 1..request
  BY DEF RecorderTypes, RecordingType
<1>3. recorders' = (recorders \ {r}) \cup {new}
  BY <1>1
<1> HIDE DEF new
<1>4. /\ mode' = m /\ transcribing' = (m = "transcribe") /\ ~transcribing
      /\ UNCHANGED <<present, able, request, prompts, streams, current, status, panel, transcripts, saving,
                     begun, fates, astray>>
  BY DEF StopRecording, RecorderTypes
<1>5. Ended' = Ended
  BY <1>4 DEF Ended
<1>6. \A id : (\E q \in recorders' : q.id = id) <=> (\E q \in recorders : q.id = id)
  BY <1>2, <1>3
<1>7. RecorderTypes'
  <2>1. recorders' \subseteq RecordingType /\ \A q \in recorders' : q.id \in 1..request
    BY <1>2, <1>3 DEF RecorderTypes
  <2>2. {present', able', panel', transcribing', saving'} \subseteq BOOLEAN
    BY <1>4 DEF RecorderTypes
  <2>3. QED
    BY <1>4, <1>5, <2>1, <2>2 DEF RecorderTypes, Busy
<1>8. Apart'
  BY <1>2, <1>3, <1>4 DEF Apart
<1>9. Unsettled' /\ MicrophoneShown'
  BY <1>4, <1>5, <1>6 DEF Unsettled, MicrophoneShown, Busy
<1>10. OneAtATime'
  <2> SUFFICES ASSUME astray = {} PROVE OneAtATime'
    BY <1>4 DEF OneAtATime
  <2>1. r.id = request /\ recorders = {r} /\ recorders' = {new}
    BY <1>1, <1>3 DEF OneAtATime, MicrophoneShown
  <2>2. QED
    BY <1>1, <1>2, <1>4, <1>5, <2>1 DEF OneAtATime
<1>11. QED
  BY <1>7, <1>8, <1>9, <1>10

\* The last of a recorder: heard, it ends or waits for its text.
LEMMA EventStep ==
    ASSUME RecorderInv, NEW r \in recorders, NEW empty \in BOOLEAN, StopEvent(r, empty)
    PROVE  RecorderInv'
PROOF
<1> USE DEF RecorderInv
<1>1. /\ recorders' = recorders \ {r} /\ r \in RecordingType /\ r.id \in 1..request
      /\ r.stopping \/ r.id \notin streams
      /\ UNCHANGED <<present, able, request, prompts, saving, begun, astray>>
  BY DEF StopEvent, RecorderTypes
<1>2. CASE r.id # request
  <2>1. UNCHANGED <<mode, status, streams, current, panel, transcribing, transcripts, fates>>
    BY <1>2 DEF StopEvent, Heard
  <2>2. Ended' = Ended
    BY <2>1 DEF Ended
  <2>3. RecorderTypes' /\ Apart' /\ Unsettled' /\ MicrophoneShown'
    BY <1>1, <2>1, <2>2 DEF RecorderTypes, Apart, Unsettled, MicrophoneShown, Busy
  <2>4. OneAtATime'
    <3> SUFFICES ASSUME astray = {} PROVE OneAtATime'
      BY <1>1 DEF OneAtATime
    <3>1. recorders = {r} /\ r.id \in Ended /\ recorders' = {} /\ transcripts = {}
      BY <1>1, <1>2 DEF OneAtATime
    <3>2. streams = {} /\ ~transcribing
      BY <1>2, <3>1 DEF OneAtATime, MicrophoneShown
    <3>3. QED
      BY <1>1, <2>1, <2>2, <3>1, <3>2 DEF OneAtATime
  <2>5. QED
    BY <2>3, <2>4
<1>3. CASE r.id = request
  <2>1. /\ mode' = "attach" /\ status' = "idle" /\ current' = 0 /\ streams' = streams \ {current}
        /\ Complete(r, empty)
    BY <1>3 DEF StopEvent, Heard, ResetRefs
  <2>2. request \notin transcripts \cup Ended
    BY <1>3 DEF Unsettled
  <2>3. ~Busy' /\ (\A q \in recorders' : q.id # request) /\ (\A p \in prompts' : p.id # request)
    BY <1>1, <1>3, <2>1 DEF Busy, Apart
  <2>4. \/ /\ transcripts' = transcripts \cup {request} /\ UNCHANGED <<panel, transcribing, fates>> /\ Ended' = Ended
        \/ /\ panel' = FALSE /\ transcribing' = (transcribing /\ mode # "transcribe") /\ UNCHANGED transcripts
           /\ fates' = fates \cup {<<request, IF empty THEN "empty" ELSE "file">>} /\ Ended' = Ended \cup {request}
    BY <1>3, <2>1, FateNoted DEF Complete, Ended
  <2>5. RecorderTypes'
    <3>1. fates' \subseteq Nat \X {"file", "text", "empty", "cancelled"}
      BY <2>4 DEF RecorderTypes
    <3>2. streams' \cup transcripts' \cup begun' \cup Ended' \subseteq 1..request'
      BY <1>1, <1>3, <2>1, <2>4 DEF RecorderTypes
    <3>3. {present', able', panel', transcribing', saving'} \subseteq BOOLEAN
      BY <1>1, <2>4 DEF RecorderTypes
    <3>4. status' \in {"idle", "requesting", "recording", "error"} /\ mode' \in {"attach", "transcribe"}
          /\ current' \in 0..request' /\ recorders' \subseteq recorders
      BY <1>1, <2>1 DEF RecorderTypes
    <3>5. QED
      BY <1>1, <2>3, <3>1, <3>2, <3>3, <3>4 DEF RecorderTypes
  <2>6. Apart'
    BY <1>1 DEF Apart
  <2>7. Unsettled'
    <3>1. \A t \in transcripts' : t \notin Ended'
      BY <2>2, <2>4 DEF Unsettled
    <3>2. \A f, g \in fates' : f[1] = g[1] => f = g
      BY <2>2, <2>4 DEF Unsettled, Ended
    <3>3. QED
      BY <1>1, <2>3, <3>1, <3>2 DEF Unsettled
  <2>8. MicrophoneShown'
    BY <1>1, <2>1 DEF MicrophoneShown
  <2>9. OneAtATime'
    <3> SUFFICES ASSUME astray = {} PROVE OneAtATime'
      BY <1>1 DEF OneAtATime
    <3>1. recorders = {r} /\ recorders' = {} /\ transcripts = {} /\ (transcribing => mode = "transcribe")
      BY <1>1 DEF OneAtATime
    <3>2. streams' = {}
      BY <2>1 DEF MicrophoneShown
    <3>3. request \in Ended' \cup transcripts'
      BY <2>4
    <3>4. \A b \in begun' : b \in Ended' \cup transcripts'
      BY <1>1, <1>3, <2>4, <3>1, <3>3 DEF OneAtATime
    <3>5. transcribing' => transcripts' # {}
      BY <2>4, <3>1 DEF RecorderTypes
    <3>6. QED
      BY <1>1, <2>3, <3>1, <3>2, <3>4, <3>5 DEF OneAtATime
  <2>10. QED
    BY <2>5, <2>6, <2>7, <2>8, <2>9
<1>4. QED
  BY <1>2, <1>3

\* The text of a recording comes, or the file is left.
LEMMA TranscriptStep ==
    ASSUME RecorderInv, NEW id \in transcripts, NEW fate \in {"text", "file"}, TranscriptArrives(id, fate)
    PROVE  RecorderInv'
PROOF
<1> USE DEF RecorderInv
<1>1. /\ transcripts' = transcripts \ {id} /\ transcribing' = FALSE /\ panel' = FALSE
      /\ fates' = fates \cup {<<id, fate>>}
      /\ UNCHANGED <<present, able, request, prompts, recorders, streams, current, mode, status, saving,
                     begun, astray>>
  BY DEF TranscriptArrives
<1>2. Ended' = Ended \cup {id} /\ id \in 1..request /\ id \notin Ended
  BY <1>1, FateNoted DEF RecorderTypes, Unsettled
<1>3. RecorderTypes'
  <2>1. fates' \subseteq Nat \X {"file", "text", "empty", "cancelled"}
    BY <1>1, <1>2 DEF RecorderTypes
  <2>2. streams' \cup transcripts' \cup begun' \cup Ended' \subseteq 1..request'
    BY <1>1, <1>2 DEF RecorderTypes
  <2>3. {present', able', panel', transcribing', saving'} \subseteq BOOLEAN
    BY <1>1 DEF RecorderTypes
  <2>4. QED
    BY <1>1, <2>1, <2>2, <2>3 DEF RecorderTypes, Busy
<1>4. Apart' /\ MicrophoneShown'
  BY <1>1 DEF Apart, MicrophoneShown
<1>5. Unsettled'
  <2>1. \A t \in transcripts' : t \notin Ended'
    BY <1>1, <1>2 DEF Unsettled
  <2>2. \A f, g \in fates' : f[1] = g[1] => f = g
    BY <1>1, <1>2 DEF Unsettled, Ended
  <2>3. Busy \/ (\E p \in prompts : p.id = request) \/ (\E r \in recorders : r.id = request) => id # request
    BY DEF Unsettled
  <2>4. QED
    BY <1>1, <1>2, <2>1, <2>2, <2>3 DEF Unsettled, Busy
<1>6. OneAtATime'
  <2> SUFFICES ASSUME astray = {} PROVE OneAtATime'
    BY <1>1 DEF OneAtATime
  <2>1. recorders = {} /\ streams = {} /\ \A p \in prompts : p.id # request
    BY DEF OneAtATime
  <2>2. QED
    BY <1>1, <1>2, <2>1 DEF OneAtATime
<1>7. QED
  BY <1>3, <1>4, <1>5, <1>6

\* The recording is cancelled: what its recorder still has is not heard.
LEMMA CancelStep ==
    ASSUME RecorderInv, CancelRecording
    PROVE  RecorderInv'
PROOF
<1> USE DEF RecorderInv
<1>1. /\ Busy /\ ~transcribing
      /\ request' = request + 1 /\ mode' = "attach" /\ status' = "idle"
      /\ current' = 0 /\ streams' = streams \ {current} /\ panel' = FALSE
      /\ fates' = fates \cup {<<request, "cancelled">>}
      /\ UNCHANGED <<present, able, prompts, recorders, transcribing, transcripts, saving, begun, astray>>
  BY DEF CancelRecording, PanelShown, ResetRefs
<1>2. Ended' = Ended \cup {request} /\ request \notin transcripts \cup Ended /\ request \in 1..MaxRecordings
  BY <1>1, FateNoted DEF Unsettled, RecorderTypes
<1>3. ~Busy' /\ (\A r \in recorders : r.id # request') /\ (\A p \in prompts : p.id # request')
  BY <1>1, <1>2, RecorderAssumption DEF Busy, RecorderTypes
<1>4. RecorderTypes'
  <2>1. fates' \subseteq Nat \X {"file", "text", "empty", "cancelled"}
    BY <1>1, <1>2 DEF RecorderTypes
  <2>2. 1..request \subseteq 1..request' /\ request \in 1..request' /\ request' \in Nat /\ request' <= MaxRecordings + 1
        /\ MaxRecordings # 0 /\ 0 \in 0..request'
    BY <1>1, <1>2, RecorderAssumption
  <2>3. streams' \cup transcripts' \cup begun' \cup Ended' \subseteq 1..request'
    BY <1>1, <1>2, <2>2 DEF RecorderTypes
  <2>4. {present', able', panel', transcribing', saving'} \subseteq BOOLEAN
    BY <1>1 DEF RecorderTypes
  <2>5. status' \in {"idle", "requesting", "recording", "error"} /\ mode' \in {"attach", "transcribe"}
    BY <1>1
  <2>6. (\A p \in prompts' : p.id \in 1..request' /\ p.id <= MaxRecordings) /\ (\A r \in recorders' : r.id \in 1..request')
    BY <1>1, <2>2 DEF RecorderTypes
  <2>7. QED
    BY <1>1, <1>3, <2>1, <2>2, <2>3, <2>4, <2>5, <2>6 DEF RecorderTypes
<1>5. Apart' /\ MicrophoneShown'
  BY <1>1 DEF Apart, MicrophoneShown
<1>6. Unsettled'
  <2>1. \A t \in transcripts' : t \notin Ended'
    BY <1>1, <1>2 DEF Unsettled
  <2>2. \A f, g \in fates' : f[1] = g[1] => f = g
    BY <1>1, <1>2 DEF Unsettled, Ended
  <2>3. QED
    BY <1>1, <1>3, <2>1, <2>2 DEF Unsettled
<1>7. OneAtATime'
  <2> SUFFICES ASSUME astray = {} PROVE OneAtATime'
    BY <1>1 DEF OneAtATime
  <2>1. streams' = {} /\ \A r \in recorders : r.id \in Ended'
    BY <1>1, <1>2 DEF OneAtATime, MicrophoneShown
  <2>2. QED
    BY <1>1, <1>2, <1>3, <2>1 DEF OneAtATime, RecorderTypes
<1>8. QED
  BY <1>4, <1>5, <1>6, <1>7

\* The device ends, or the memo is saved.
LEMMA OtherStep ==
    ASSUME RecorderInv, TrackEnds \/ SaveNote \/ \E ok \in BOOLEAN : SaveEnds(ok)
    PROVE  RecorderInv'
PROOF
<1> USE DEF RecorderInv
<1>1. /\ streams' \subseteq streams /\ saving' \in BOOLEAN /\ status' \in {status, "idle"}
      /\ UNCHANGED <<present, able, request, prompts, recorders, current, mode, panel, transcribing, transcripts,
                     begun, fates>>
      /\ astray' = astray \/ (astray' = astray \cup {"reset"} /\ Busy)
      /\ status' # status => ~Busy \/ "reset" \in astray'
  BY DEF TrackEnds, SaveNote, SaveEnds, RecorderTypes
<1>2. Ended' = Ended /\ (Busy' => Busy)
  BY <1>1 DEF Ended, Busy
<1>3. RecorderTypes'
  <2>1. {present', able', panel', transcribing', saving'} \subseteq BOOLEAN
    BY <1>1 DEF RecorderTypes
  <2>2. status' \in {"idle", "requesting", "recording", "error"} /\ astray' \subseteq {"overlap", "reset", "left"}
    BY <1>1 DEF RecorderTypes
  <2>3. QED
    BY <1>1, <1>2, <2>1, <2>2 DEF RecorderTypes
<1>4. Apart' /\ Unsettled' /\ OneAtATime'
  BY <1>1, <1>2 DEF Apart, Unsettled, OneAtATime
<1>5. MicrophoneShown'
  BY <1>1 DEF MicrophoneShown, Busy
<1>6. QED
  BY <1>3, <1>4, <1>5

LEMMA RecorderInvariant == RecorderSpec => []RecorderInv
PROOF
<1>1. RecorderInv /\ [RecorderNext]_recorderVars => RecorderInv'
  <2> SUFFICES ASSUME RecorderInv, [RecorderNext]_recorderVars PROVE RecorderInv'
    OBVIOUS
  <2>1. CASE RecorderNext
    BY <2>1, TearDown, RequestStep, PromptStep, StopStep, EventStep, TranscriptStep, CancelStep, OtherStep
    DEF RecorderNext
  <2>2. CASE UNCHANGED recorderVars
    BY <2>2 DEF recorderVars, RecorderInv, RecorderTypes, Ended, Busy, Apart, Unsettled, MicrophoneShown, OneAtATime
  <2>3. QED
    BY <2>1, <2>2
<1>2. QED
  BY <1>1, RecorderInitially, PTL DEF RecorderSpec

\* The recorder's state keeps its types; a request that may still be granted has
\* a number within the bound.
THEOREM RecorderTypesCorrect == RecorderSpec => []RecorderTypeOK
PROOF
<1>1. RecorderInv => RecorderTypeOK
  BY TypesSayRecorderTypeOK DEF RecorderInv
<1>2. QED
  BY <1>1, RecorderInvariant, PTL

\* useAudioRecorder: for any number of recordings, the microphone is on for what
\* the editor shows and for nothing else, each recording ends in one way, and
\* when none is under way each has ended and the editor waits for none, save for
\* what the editor does not provide for.
THEOREM RecordingsAreShownUntilTheyEnd == RecorderSpec => []RecordingIsShownUntilItEnds
PROOF
<1>1. RecorderInv => RecordingIsShownUntilItEnds
  BY DEF RecorderInv, Unsettled, MicrophoneShown, OneAtATime, RecordingIsShownUntilItEnds, Ended
<1>2. QED
  BY <1>1, RecorderInvariant, PTL

-----------------------------------------------------------------------------
(***************************************************************************)
(* The views of the cache.  What is cached of a query is what the server   *)
(* would answer, unless something is to come that makes the tab fetch it   *)
(* again, or the query is known to be behind.                              *)
(***************************************************************************)
RowTypes(b) == [memo : 1..b, content : Contents]
PageTypes(b) == [rows : Seq(RowTypes(b)), next : BOOLEAN]
PagesTyped(pages, b) == pages \in Seq(PageTypes(b)) /\ \A n \in DOMAIN pages : Len(pages[n].rows) <= PageSize
StreamTypes == [tab : {"off", "stopped", "connecting", "reading"}, server : BOOLEAN, once : BOOLEAN]
EventTypes == [type : {"created", "updated", "deleted"}, memo : 1..MemoCount]

UpdateTyped(u, b) ==
    /\ u \in [op : {"none", "created", "updated", "deleted"}, memo : 0..MemoCount, content : Contents \cup {Absent},
              previous : Seq(RowTypes(b)), state : {"idle", "sent", "done", "refused"}, tries : 0..1]
    /\ IF u.op = "none" THEN u = NoUpdate ELSE u.state # "idle"
    /\ u.op = "created" => u.content # Absent /\ (u.state = "done" => u.memo \in 1..b)
    /\ u.op = "updated" => /\ u.content # Absent /\ u.memo \in 1..b
                           /\ Len(u.previous) = 1 /\ u.previous[1].memo = u.memo
    /\ u.op = "deleted" => u.content = Absent /\ u.memo \in 1..b

ServerTyped(ms, b) ==
    /\ ms \in [1..MemoCount -> Contents \cup {Absent}]
    /\ b \in 0..MemoCount /\ \A i \in 1..MemoCount : i > b => ms[i] = Absent

\* What the cache holds of query k, and a fetch of it: the page of a memo shows the memo.
CachedTyped(k, q, b) ==
    /\ q \in [pages : Seq(PageTypes(b)), invalid : BOOLEAN] /\ PagesTyped(q.pages, b)
    /\ q.invalid => q.pages # <<>>
    /\ k = "detail" => \A n \in DOMAIN q.pages : q.pages[n].rows # <<>>

FetchTyped(k, f, b) ==
    /\ f \in [state : {"idle", "asked", "answered"}, pages : Seq(PageTypes(b)), want : Nat] /\ PagesTyped(f.pages, b)
    /\ f.state = "idle" => f = NoFetch
    /\ k = "detail" => Len(f.pages) <= 1 /\ (f.state = "asked" => f.pages = <<>>)
    /\ f.state = "answered" => f.pages # <<>>

QueriesTyped(qs, fs, b) ==
    /\ qs = [k \in Keys |-> qs[k]] /\ fs = [k \in Keys |-> fs[k]]
    /\ \A k \in Keys : CachedTyped(k, qs[k], b) /\ FetchTyped(k, fs[k], b)

CacheTypes ==
    /\ ServerTyped(memos, born) /\ UpdateTyped(update, born) /\ QueriesTyped(cache, asking, born)
    /\ viewed \subseteq Keys /\ behind \subseteq Keys
    /\ stream \in StreamTypes /\ pipe \in Seq(EventTypes) /\ Len(pipe) <= PipeSize

\* An event that makes the tab fetch k is on its way.
Coming(k) == \E n \in DOMAIN pipe : k \in Affected(pipe[n])
Told(k) == k \notin behind /\ ~Coming(k)

\* The memo whose update is shown before it is made, 0 where there is none
Shown == IF update.op = "updated" THEN update.memo ELSE 0

\* Pages that differ at most in what memo i holds
Alike(p, q, i) == \A c \in Contents : PatchPage(p, [memo |-> i, content |-> c]) = PatchPage(q, [memo |-> i, content |-> c])

\* Page n of query k is what the server would answer, but for memo i where an update of it is shown.
Right(k, p, n, ms, i) ==
    IF k = "detail" THEN p.rows # <<>> => p = DetailPage(ms)
    ELSE IF i = 0 THEN p = ListPage(ms, n)
    ELSE Alike(p, ListPage(ms, n), i)

AllRight(k, pages, ms, i) == \A n \in DOMAIN pages : Right(k, pages[n], n, ms, i)

\* So are the pages that a fetch has brought, and, where no fetch is to replace them, those that are cached.
Sound(k, q, f, ms, i) ==
    /\ AllRight(k, f.pages, ms, i)
    /\ f = NoFetch /\ ~q.invalid /\ ~(k = "detail" /\ i = 1) => AllRight(k, q.pages, ms, i)

UpToDate(k) == Told(k) => Sound(k, cache[k], asking[k], memos, Shown)

CacheInv == CacheTypes /\ \A k \in Keys : UpToDate(k)


-----------------------------------------------------------------------------
\* What the server answers.  The rows exist, as many as there are memos.
LEMMA RowsTyped ==
  ASSUME NEW ms, NEW b, ServerTyped(ms, b)
  PROVE  /\ Rows(ms) \in Seq(RowTypes(b))
         /\ \A n \in 1..Len(Rows(ms)) : Rows(ms)[n].content = ms[Rows(ms)[n].memo]
PROOF
<1> DEFINE S == Present(ms)
           nth(n) == CHOOSE i \in S : Cardinality({j \in S : j >= i}) = n
<1>1. S \in SUBSET (1..b) /\ b \in Nat
  BY CacheAssumption DEF ServerTyped, Present
<1>2. Cardinality(S) \in Nat /\ \A n \in 1..Cardinality(S) : nth(n) \in S
  BY <1>1, NthExists
<1>3. \A i \in S : i \in 1..b /\ ms[i] \in Contents
  BY <1>1 DEF ServerTyped, Present
<1>4. Rows(ms) = [n \in 1..Cardinality(S) |-> [memo |-> nth(n), content |-> ms[nth(n)]]]
  BY DEF Rows
<1> HIDE DEF nth, S
<1>5. \A n \in 1..Cardinality(S) : [memo |-> nth(n), content |-> ms[nth(n)]] \in RowTypes(b)
  BY <1>2, <1>3 DEF RowTypes
<1>6. Rows(ms) \in Seq(RowTypes(b)) /\ Len(Rows(ms)) = Cardinality(S)
  BY <1>2, <1>4, <1>5
<1>7. \A n \in 1..Cardinality(S) : Rows(ms)[n].memo = nth(n) /\ Rows(ms)[n].content = ms[nth(n)]
  BY <1>4
<1>8. QED
  BY <1>6, <1>7

LEMMA SmallerOf == ASSUME NEW a \in Nat, NEW b \in Nat PROVE Min({a, b}) \in Nat /\ Min({a, b}) <= a /\ Min({a, b}) <= b
PROOF
<1>1. \E x \in {a, b} : \A y \in {a, b} : x <= y
  OBVIOUS
<1>2. Min({a, b}) \in {a, b} /\ \A y \in {a, b} : Min({a, b}) <= y
  BY <1>1 DEF Min
<1>3. QED
  BY <1>2

LEMMA PartTyped ==
  ASSUME NEW R, NEW s \in Seq(R), NEW m \in Nat \ {0}, NEW k \in Nat, k <= Len(s)
  PROVE  /\ SubSeq(s, m, k) \in Seq(R)
         /\ \A x \in 1..Len(SubSeq(s, m, k)) : SubSeq(s, m, k)[x] = s[x + m - 1] /\ x + m - 1 \in 1..Len(s)
         /\ m = 1 => Len(SubSeq(s, m, k)) = k
PROOF
OBVIOUS

LEMMA ListPageTyped ==
  ASSUME NEW ms, NEW b, ServerTyped(ms, b), NEW n \in Nat \ {0}
  PROVE  /\ ListPage(ms, n) \in PageTypes(b) /\ Len(ListPage(ms, n).rows) <= PageSize
         /\ \A m \in DOMAIN ListPage(ms, n).rows :
                ListPage(ms, n).rows[m].content = ms[ListPage(ms, n).rows[m].memo]
PROOF
<1> DEFINE all == Rows(ms)
           first == (n - 1) * PageSize + 1
           rest == SubSeq(all, first, Len(all))
           size == Min({PageSize, Len(rest)})
           shown == SubSeq(rest, 1, size)
<1>1. all \in Seq(RowTypes(b)) /\ \A m \in 1..Len(all) : all[m].content = ms[all[m].memo]
  BY RowsTyped
<1>2. first \in Nat \ {0} /\ PageSize \in Nat
  <2>1. n - 1 \in Nat /\ PageSize \in Nat
    BY CacheAssumption
  <2>2. (n - 1) * PageSize \in Nat
    BY <2>1
  <2>3. QED
    BY <2>1, <2>2
<1>3. ListPage(ms, n) = [rows |-> shown, next |-> Len(rest) > PageSize]
  BY DEF ListPage
<1> HIDE DEF all, first
<1>4. rest \in Seq(RowTypes(b)) /\ \A m \in 1..Len(rest) : rest[m].content = ms[rest[m].memo]
  BY <1>1, <1>2, PartTyped
<1> HIDE DEF rest
<1>5. size \in Nat /\ size <= PageSize /\ size <= Len(rest)
  BY <1>2, <1>4, SmallerOf
<1> HIDE DEF size
<1>6. shown \in Seq(RowTypes(b)) /\ Len(shown) = size /\ \A m \in 1..Len(shown) : shown[m].content = ms[shown[m].memo]
  BY <1>4, <1>5, PartTyped
<1> HIDE DEF shown
<1>7. QED
  BY <1>2, <1>3, <1>4, <1>5, <1>6 DEF PageTypes

LEMMA DetailPageTyped ==
  ASSUME NEW ms, NEW b, ServerTyped(ms, b)
  PROVE  DetailPage(ms) \in PageTypes(b) /\ Len(DetailPage(ms).rows) <= PageSize /\ ~DetailPage(ms).next
PROOF
<1>1. 1 \in 1..MemoCount /\ PageSize \in Nat \ {0}
  BY CacheAssumption
<1>2. CASE ms[1] = Absent
  BY <1>1, <1>2 DEF DetailPage, PageTypes
<1>3. CASE ms[1] # Absent
  <2>1. 1 \in 1..b /\ ms[1] \in Contents
    BY <1>1, <1>3, CacheAssumption DEF ServerTyped
  <2>2. <<[memo |-> 1, content |-> ms[1]]>> \in Seq(RowTypes(b))
    BY <2>1 DEF RowTypes
  <2>3. QED
    BY <1>1, <1>3, <2>2 DEF DetailPage, PageTypes
<1>4. QED
  BY <1>2, <1>3

\* What a change in place does to a page
LEMMA PatchTyped ==
  ASSUME NEW b, NEW p \in PageTypes(b), NEW row \in RowTypes(b)
  PROVE  /\ PatchPage(p, row) \in PageTypes(b) /\ Len(PatchPage(p, row).rows) = Len(p.rows)
         /\ PatchPage(p, row).next = p.next
         /\ PatchPage(p, row).rows = [n \in DOMAIN p.rows |-> IF p.rows[n].memo = row.memo THEN row ELSE p.rows[n]]
PROOF
<1>1. PatchPage(p, row) = [rows |-> [n \in 1..Len(p.rows) |-> IF p.rows[n].memo = row.memo THEN row ELSE p.rows[n]],
                           next |-> p.next]
  BY DEF PatchPage, PageTypes
<1>2. [n \in 1..Len(p.rows) |-> IF p.rows[n].memo = row.memo THEN row ELSE p.rows[n]] \in Seq(RowTypes(b))
  BY DEF PageTypes
<1>3. QED
  BY <1>1, <1>2 DEF PageTypes

LEMMA PatchShape ==
  ASSUME NEW b, NEW p \in PageTypes(b), NEW row \in RowTypes(b)
  PROVE  PatchPage(p, row) \in PageTypes(b) /\ Len(PatchPage(p, row).rows) = Len(p.rows)
PROOF
<1>1. PatchPage(p, row) \in PageTypes(b)
  BY PatchTyped
<1>2. Len(PatchPage(p, row).rows) = Len(p.rows)
  BY PatchTyped
<1>3. QED
  BY <1>1, <1>2

LEMMA SamePage ==
  ASSUME NEW b, NEW p \in PageTypes(b), NEW q \in PageTypes(b), p.next = q.next, DOMAIN p.rows = DOMAIN q.rows,
         \A n \in DOMAIN p.rows : p.rows[n] = q.rows[n]
  PROVE  p = q
PROOF
<1>1. p.rows = q.rows
  BY DEF PageTypes
<1>2. QED
  BY <1>1 DEF PageTypes

LEMMA PatchTwice ==
  ASSUME NEW b, NEW p \in PageTypes(b), NEW i \in 1..b, NEW c \in Contents, NEW d \in Contents
  PROVE  PatchPage(PatchPage(p, [memo |-> i, content |-> c]), [memo |-> i, content |-> d]) = PatchPage(p, [memo |-> i, content |-> d])
PROOF
<1> DEFINE before == [memo |-> i, content |-> c]
           after == [memo |-> i, content |-> d]
<1>1. before \in RowTypes(b) /\ after \in RowTypes(b) /\ before.memo = i /\ after.memo = i
  BY DEF RowTypes
<1> HIDE DEF before, after
<1> DEFINE q == PatchPage(p, before)
<1>2. /\ q \in PageTypes(b) /\ q.next = p.next
      /\ q.rows = [n \in DOMAIN p.rows |-> IF p.rows[n].memo = i THEN before ELSE p.rows[n]]
  BY <1>1, PatchTyped
<1> HIDE DEF q
<1>3. /\ PatchPage(q, after) \in PageTypes(b) /\ PatchPage(q, after).next = p.next
      /\ PatchPage(q, after).rows = [n \in DOMAIN p.rows |-> IF q.rows[n].memo = i THEN after ELSE q.rows[n]]
  <2>1. DOMAIN q.rows = DOMAIN p.rows
    BY <1>2
  <2>2. /\ PatchPage(q, after) \in PageTypes(b) /\ PatchPage(q, after).next = q.next
        /\ PatchPage(q, after).rows = [n \in DOMAIN q.rows |-> IF q.rows[n].memo = after.memo THEN after ELSE q.rows[n]]
    <3>1. q \in PageTypes(b) /\ after \in RowTypes(b)
      BY <1>1, <1>2
    <3>2. QED
      BY <3>1, PatchTyped
  <2>3. QED
    BY <1>1, <1>2, <2>1, <2>2
<1>4. /\ PatchPage(p, after) \in PageTypes(b) /\ PatchPage(p, after).next = p.next
      /\ PatchPage(p, after).rows = [n \in DOMAIN p.rows |-> IF p.rows[n].memo = i THEN after ELSE p.rows[n]]
  BY <1>1, PatchTyped
<1>5. \A n \in DOMAIN p.rows : PatchPage(q, after).rows[n] = PatchPage(p, after).rows[n]
  BY <1>1, <1>2, <1>3, <1>4
<1>6. PatchPage(q, after) = PatchPage(p, after)
  BY <1>3, <1>4, <1>5, SamePage
<1>7. QED
  BY <1>6 DEF q, before, after

\* A page in which memo i, where it shows it, holds c
LEMMA PatchIdle ==
  ASSUME NEW b, NEW p \in PageTypes(b), NEW i \in 1..b, NEW c \in Contents,
         \A n \in DOMAIN p.rows : p.rows[n].memo = i => p.rows[n].content = c
  PROVE  PatchPage(p, [memo |-> i, content |-> c]) = p
PROOF
<1> DEFINE row == [memo |-> i, content |-> c]
<1>1. row \in RowTypes(b) /\ row.memo = i /\ row.content = c
  BY DEF RowTypes
<1>2. \A r \in RowTypes(b) : r.memo = i /\ r.content = c => r = row
  BY DEF RowTypes
<1> HIDE DEF row
<1>3. \A n \in DOMAIN p.rows : p.rows[n] \in RowTypes(b)
  BY DEF PageTypes
<1>4. /\ PatchPage(p, row) \in PageTypes(b) /\ PatchPage(p, row).next = p.next
      /\ PatchPage(p, row).rows = [n \in DOMAIN p.rows |-> IF p.rows[n].memo = i THEN row ELSE p.rows[n]]
  BY <1>1, PatchTyped
<1>5. PatchPage(p, row) = p
  BY <1>2, <1>3, <1>4, SamePage
<1>6. QED
  BY <1>5 DEF row

\* A page that shows no row of the memo, and one that shows nothing
LEMMA PatchOther ==
  ASSUME NEW b, NEW p \in PageTypes(b), NEW i \in 1..b, NEW c \in Contents, \A n \in DOMAIN p.rows : p.rows[n].memo # i
  PROVE  PatchPage(p, [memo |-> i, content |-> c]) = p
PROOF
BY PatchIdle

LEMMA NoneLeft == ASSUME NEW R, NEW s \in Seq(R), \A n \in DOMAIN s : FALSE PROVE s = <<>>
PROOF
<1>1. Len(s) \in Nat /\ DOMAIN s = 1..Len(s)
  OBVIOUS
<1>2. Len(s) = 0
  <2>1. CASE Len(s) # 0
    <3>1. 1 \in DOMAIN s
      BY <1>1, <2>1
    <3>2. QED
      BY <3>1
  <2>2. QED
    BY <2>1
<1>3. QED
  BY <1>2

LEMMA SeqGrows == ASSUME NEW R, NEW T, R \subseteq T, NEW s \in Seq(R) PROVE s \in Seq(T)
PROOF
<1>1. s \in [1..Len(s) -> T] /\ Len(s) \in Nat
  OBVIOUS
<1>2. QED
  BY <1>1

\* A memo that is created leaves what is there of its type.
LEMMA TypesGrow ==
  ASSUME NEW b \in Nat, NEW a \in Nat, b <= a
  PROVE  /\ \A k, q : CachedTyped(k, q, b) => CachedTyped(k, q, a)
         /\ \A k, f : FetchTyped(k, f, b) => FetchTyped(k, f, a)
         /\ \A u : UpdateTyped(u, b) => UpdateTyped(u, a)
PROOF
<1>1. RowTypes(b) \subseteq RowTypes(a)
  BY DEF RowTypes
<1>2. Seq(RowTypes(b)) \subseteq Seq(RowTypes(a))
  BY <1>1, SeqGrows
<1>3. PageTypes(b) \subseteq PageTypes(a)
  BY <1>2 DEF PageTypes
<1>4. Seq(PageTypes(b)) \subseteq Seq(PageTypes(a))
  BY <1>3, SeqGrows
<1>5. ASSUME NEW k, NEW q, CachedTyped(k, q, b) PROVE CachedTyped(k, q, a)
  <2>1. q \in [pages : Seq(PageTypes(a)), invalid : BOOLEAN]
    BY <1>4, <1>5 DEF CachedTyped
  <2>2. q.pages \in Seq(PageTypes(a))
    BY <2>1
  <2>3. QED
    BY <1>5, <2>1, <2>2 DEF CachedTyped, PagesTyped
<1>6. ASSUME NEW k, NEW f, FetchTyped(k, f, b) PROVE FetchTyped(k, f, a)
  <2>1. f \in [state : {"idle", "asked", "answered"}, pages : Seq(PageTypes(a)), want : Nat]
    BY <1>4, <1>6 DEF FetchTyped
  <2>2. f.pages \in Seq(PageTypes(a))
    BY <2>1
  <2>3. QED
    BY <1>6, <2>1, <2>2 DEF FetchTyped, PagesTyped
<1>7. ASSUME NEW u, UpdateTyped(u, b) PROVE UpdateTyped(u, a)
  <2>1. u \in [op : {"none", "created", "updated", "deleted"}, memo : 0..MemoCount, content : Contents \cup {Absent},
               previous : Seq(RowTypes(a)), state : {"idle", "sent", "done", "refused"}, tries : 0..1]
    BY <1>2, <1>7 DEF UpdateTyped
  <2>2. \A m \in 1..b : m \in 1..a
    OBVIOUS
  <2>3. QED
    BY <1>7, <2>1, <2>2 DEF UpdateTyped
<1>8. QED
  BY <1>5, <1>6, <1>7

LEMMA NothingTyped ==
  /\ \A k, b : CachedTyped(k, Unknown, b) /\ FetchTyped(k, NoFetch, b)
  /\ \A b : UpdateTyped(NoUpdate, b)
PROOF
<1>1. ASSUME NEW k, NEW b PROVE CachedTyped(k, Unknown, b)
  BY DEF CachedTyped, PagesTyped, Unknown
<1>2. ASSUME NEW k, NEW b PROVE FetchTyped(k, NoFetch, b)
  BY DEF FetchTyped, PagesTyped, NoFetch
<1>3. ASSUME NEW b PROVE UpdateTyped(NoUpdate, b)
  BY CacheAssumption DEF UpdateTyped, NoUpdate, Absent
<1>4. QED
  BY <1>1, <1>2, <1>3

\* A memo's page, as the hooks write it
LEMMA OnePageTyped ==
  ASSUME NEW b, NEW k, NEW row \in RowTypes(b)
  PROVE  CachedTyped(k, [pages |-> << [rows |-> <<row>>, next |-> FALSE] >>, invalid |-> FALSE], b)
PROOF
<1> DEFINE page == [rows |-> <<row>>, next |-> FALSE]
           q == [pages |-> <<page>>, invalid |-> FALSE]
<1>1. <<row>> \in Seq(RowTypes(b)) /\ <<row>> # <<>> /\ Len(<<row>>) = 1
  OBVIOUS
<1>2. page \in PageTypes(b) /\ page.rows # <<>> /\ Len(page.rows) <= PageSize
  BY <1>1, CacheAssumption DEF PageTypes
<1> HIDE DEF page
<1>3. <<page>> \in Seq(PageTypes(b)) /\ \A n \in DOMAIN <<page>> : <<page>>[n] = page
  BY <1>2
<1>4. PagesTyped(<<page>>, b) /\ \A n \in DOMAIN <<page>> : <<page>>[n].rows # <<>>
  BY <1>2, <1>3 DEF PagesTyped
<1>5. q.pages = <<page>> /\ q.invalid = FALSE /\ q \in [pages : Seq(PageTypes(b)), invalid : BOOLEAN]
  BY <1>3
<1> HIDE DEF q
<1>6. CachedTyped(k, q, b)
  BY <1>4, <1>5 DEF CachedTyped
<1>7. QED
  BY <1>6 DEF q, page

LEMMA RefetchTyped ==
  ASSUME NEW b, NEW k, CachedTyped(k, cache[k], b)
  PROVE  FetchTyped(k, Refetch(k), b) /\ Refetch(k).pages = <<>> /\ Refetch(k) # NoFetch
PROOF
<1>1. Len(cache[k].pages) \in Nat
  BY DEF CachedTyped
<1>2. QED
  BY <1>1 DEF FetchTyped, PagesTyped, Refetch, NoFetch

LEMMA InvalidTyped ==
  ASSUME NEW b, NEW k, NEW q, CachedTyped(k, q, b)
  PROVE  LET r == [q EXCEPT !.invalid = (q.pages # <<>>)]
         IN  CachedTyped(k, r, b) /\ r.pages = q.pages /\ (r.invalid <=> q.pages # <<>>)
PROOF
<1>1. q = [pages |-> q.pages, invalid |-> q.invalid]
  BY DEF CachedTyped
<1>2. [q EXCEPT !.invalid = (q.pages # <<>>)] = [pages |-> q.pages, invalid |-> q.pages # <<>>]
  BY <1>1
<1>3. QED
  BY <1>2 DEF CachedTyped, PagesTyped

\* What is left to say of a query of which nothing is cached, or nothing is to be said
LEMMA NothingShown ==
  ASSUME NEW k, NEW q, NEW f, NEW ms, NEW i, f.pages = <<>>, f # NoFetch \/ q.invalid \/ q.pages = <<>>
  PROVE  Sound(k, q, f, ms, i)
PROOF
BY DEF Sound, AllRight

\* What is shown and fetched again, and what is not shown and marked, is up to date
\* whatever the server holds.
LEMMA AskedAgain ==
  ASSUME NEW b, NEW k, CachedTyped(k, cache[k], b), FetchTyped(k, asking[k], b),
         NEW q, CachedTyped(k, q, b), q.pages # <<>> <=> Known(k),
         NEW r, r = [q EXCEPT !.invalid = Known(k)],
         NEW f, f = IF k \in viewed /\ Known(k) THEN Refetch(k) ELSE asking[k]
  PROVE  /\ CachedTyped(k, r, b) /\ FetchTyped(k, f, b)
         /\ asking[k].pages = <<>> \/ (Known(k) /\ k \in viewed) => \A ms, i : Sound(k, r, f, ms, i)
PROOF
<1>1. r = [q EXCEPT !.invalid = (q.pages # <<>>)]
  <2>1. Known(k) = (q.pages # <<>>)
    BY DEF Known
  <2>2. QED
    BY <2>1
<1>2. CachedTyped(k, r, b) /\ r.pages = q.pages /\ (r.invalid <=> q.pages # <<>>)
  BY <1>1, InvalidTyped
<1>3. FetchTyped(k, Refetch(k), b) /\ Refetch(k).pages = <<>> /\ Refetch(k) # NoFetch
  BY RefetchTyped
<1>4. FetchTyped(k, f, b)
  BY <1>3
<1>5. ASSUME NEW ms, NEW i, asking[k].pages = <<>> \/ (Known(k) /\ k \in viewed)
      PROVE  Sound(k, r, f, ms, i)
  <2>1. f.pages = <<>>
    BY <1>3, <1>5
  <2>2. f # NoFetch \/ r.invalid \/ r.pages = <<>>
    BY <1>2
  <2>3. QED
    BY <2>1, <2>2, NothingShown
<1>6. QED
  BY <1>2, <1>4, <1>5

LEMMA InvalidateMakesGood ==
  ASSUME NEW b, QueriesTyped(cache, asking, b), NEW ks \in SUBSET Keys, Invalidate(ks)
  PROVE  /\ QueriesTyped(cache', asking', b)
         /\ \A k \in Keys \ ks : cache'[k] = cache[k] /\ asking'[k] = asking[k]
         /\ \A k \in ks \ KeptFetches(ks) : \A ms, i : Sound(k, cache'[k], asking'[k], ms, i)
PROOF
<1>1. cache' = [k \in Keys |-> cache'[k]] /\ asking' = [k \in Keys |-> asking'[k]]
  BY DEF Invalidate
<1>2. \A k \in Keys \ ks : cache'[k] = cache[k] /\ asking'[k] = asking[k]
  BY DEF Invalidate
<1>3. ASSUME NEW k \in ks
      PROVE  /\ CachedTyped(k, cache'[k], b) /\ FetchTyped(k, asking'[k], b)
             /\ k \notin KeptFetches(ks) => \A ms, i : Sound(k, cache'[k], asking'[k], ms, i)
  <2>1. CachedTyped(k, cache[k], b) /\ FetchTyped(k, asking[k], b)
    BY DEF QueriesTyped
  <2>2. asking'[k] = IF k \in viewed /\ Known(k) THEN Refetch(k) ELSE asking[k]
    BY DEF Invalidate
  <2>3. cache'[k] = [cache[k] EXCEPT !.invalid = Known(k)]
    <3>1. cache[k] = [pages |-> cache[k].pages, invalid |-> cache[k].invalid] /\ cache[k].invalid \in BOOLEAN
      BY <2>1 DEF CachedTyped
    <3>2. CASE Known(k)
      BY <3>2 DEF Invalidate
    <3>3. CASE ~Known(k)
      <4>1. cache'[k] = cache[k] /\ cache[k].invalid = FALSE
        BY <2>1, <3>1, <3>3 DEF Invalidate, CachedTyped, Known
      <4>2. [cache[k] EXCEPT !.invalid = Known(k)] = [pages |-> cache[k].pages, invalid |-> Known(k)]
        BY <3>1
      <4>3. Known(k) = FALSE
        BY <3>3 DEF Known
      <4>4. QED
        BY <3>1, <4>1, <4>2, <4>3
    <3>4. QED
      BY <3>2, <3>3
  <2>4. cache[k].pages # <<>> <=> Known(k)
    BY DEF Known
  <2>5. /\ CachedTyped(k, cache'[k], b) /\ FetchTyped(k, asking'[k], b)
        /\ asking[k].pages = <<>> \/ (Known(k) /\ k \in viewed) => \A ms, i : Sound(k, cache'[k], asking'[k], ms, i)
    BY <2>1, <2>2, <2>3, <2>4, AskedAgain
  <2>6. k \notin KeptFetches(ks) => asking[k].pages = <<>> \/ (Known(k) /\ k \in viewed)
    BY DEF KeptFetches
  <2>7. QED
    BY <2>5, <2>6
<1>4. \A k \in Keys \ ks : CachedTyped(k, cache'[k], b) /\ FetchTyped(k, asking'[k], b)
  BY <1>2 DEF QueriesTyped
<1>5. QED
  BY <1>1, <1>2, <1>3, <1>4 DEF QueriesTyped

\* A change in place: of the memo's own page, and of the rows of the list
LEMMA PatchedTyped ==
  ASSUME NEW b \in Nat, QueriesTyped(cache, asking, b), NEW row \in RowTypes(b), NEW k \in Keys
  PROVE  /\ CachedTyped(k, PatchMemo(row)[k], b) /\ ~PatchMemo(row)[k].invalid
         /\ k = "detail" /\ row.memo = 1 => PatchMemo(row)[k].pages = << [rows |-> <<row>>, next |-> FALSE] >>
         /\ ~(k = "detail" /\ row.memo = 1) =>
                /\ DOMAIN PatchMemo(row)[k].pages = DOMAIN cache[k].pages
                /\ \A n \in DOMAIN cache[k].pages : PatchMemo(row)[k].pages[n] = PatchPage(cache[k].pages[n], row)
PROOF
<1>1. CachedTyped(k, cache[k], b) /\ PageSize \in Nat \ {0}
  BY CacheAssumption DEF QueriesTyped
<1>2. cache[k].pages \in Seq(PageTypes(b)) /\ \A n \in DOMAIN cache[k].pages : cache[k].pages[n] \in PageTypes(b)
  BY <1>1 DEF CachedTyped
<1>3. CASE k = "detail" /\ row.memo = 1
  <2> DEFINE own == << [rows |-> <<row>>, next |-> FALSE] >>
  <2>1. PatchMemo(row)[k] = [pages |-> own, invalid |-> FALSE]
    BY <1>3 DEF PatchMemo, Keys
  <2>2. CachedTyped(k, PatchMemo(row)[k], b)
    BY <2>1, OnePageTyped
  <2> HIDE DEF own
  <2>3. PatchMemo(row)[k].pages = own /\ PatchMemo(row)[k].invalid = FALSE
    BY <2>1
  <2>4. PatchMemo(row)[k].pages = << [rows |-> <<row>>, next |-> FALSE] >>
    BY <2>3 DEF own
  <2>5. QED
    BY <1>3, <2>2, <2>3, <2>4
<1>4. CASE ~(k = "detail" /\ row.memo = 1)
  <2> DEFINE patched == [n \in DOMAIN cache[k].pages |-> PatchPage(cache[k].pages[n], row)]
  <2>1. PatchMemo(row)[k] = [pages |-> patched, invalid |-> FALSE]
    BY <1>4 DEF PatchMemo
  <2>2. \A n \in DOMAIN cache[k].pages :
            /\ PatchPage(cache[k].pages[n], row) \in PageTypes(b)
            /\ Len(PatchPage(cache[k].pages[n], row).rows) = Len(cache[k].pages[n].rows)
    <3>1. TAKE n \in DOMAIN cache[k].pages
    <3>2. cache[k].pages[n] \in PageTypes(b)
      BY <1>2
    <3>3. QED
      BY <3>2, PatchShape
  <2>3. patched \in Seq(PageTypes(b)) /\ DOMAIN patched = DOMAIN cache[k].pages
    <3>1. DOMAIN cache[k].pages = 1..Len(cache[k].pages) /\ Len(cache[k].pages) \in Nat
      BY <1>2
    <3>2. QED
      BY <2>2, <3>1
  <2>4. \A n \in DOMAIN patched : patched[n] = PatchPage(cache[k].pages[n], row)
    OBVIOUS
  <2> HIDE DEF patched
  <2>5. \A n \in DOMAIN patched : Len(patched[n].rows) <= PageSize /\ (k = "detail" => patched[n].rows # <<>>)
    <3>1. \A n \in DOMAIN cache[k].pages : cache[k].pages[n].rows \in Seq(RowTypes(b)) /\ Len(cache[k].pages[n].rows) <= PageSize
      BY <1>1, <1>2 DEF CachedTyped, PagesTyped, PageTypes
    <3>2. k = "detail" => \A n \in DOMAIN cache[k].pages : Len(cache[k].pages[n].rows) # 0
      BY <1>1, <3>1 DEF CachedTyped
    <3>3. QED
      BY <2>2, <2>3, <2>4, <3>1, <3>2
  <2>6. QED
    BY <1>4, <2>1, <2>3, <2>4, <2>5 DEF CachedTyped, PagesTyped
<1>5. QED
  BY <1>3, <1>4

\* A change of the server is announced, or the queries that it is about are behind.
LEMMA CommitTells ==
  ASSUME CacheTypes, NEW op \in {"created", "updated", "deleted"}, NEW i \in 1..MemoCount, NEW c \in Contents \cup {Absent},
         IF op = "created" THEN i = born + 1 /\ c # Absent ELSE i \in 1..born,
         Commit(op, i, c)
  PROVE  /\ ServerTyped(memos', born') /\ born \in Nat /\ born' \in Nat /\ born <= born' /\ i \in 1..born'
         /\ pipe' \in Seq(EventTypes) /\ Len(pipe') <= PipeSize /\ behind' \subseteq Keys
         /\ \A k \in Keys : Told(k)' => Told(k) /\ k \notin Affected([type |-> op, memo |-> i])
PROOF
<1> DEFINE event == [type |-> op, memo |-> i]
<1>1. event \in EventTypes /\ Affected(event) \subseteq Keys
  BY DEF EventTypes, Affected, Keys
<1>2. ServerTyped(memos, born) /\ born \in Nat /\ pipe \in Seq(EventTypes) /\ Len(pipe) <= PipeSize /\ PipeSize \in Nat
  BY CacheAssumption DEF CacheTypes, ServerTyped
<1>3. /\ memos' = [memos EXCEPT ![i] = c] /\ born' = IF op = "created" THEN born + 1 ELSE born
      /\ \/ pipe' = Append(pipe, event) /\ Len(pipe) < PipeSize /\ behind' = behind
         \/ pipe' = pipe /\ behind' = behind \cup Affected(event)
  BY DEF Commit
<1> HIDE DEF event
<1>4. born' \in Nat /\ born <= born' /\ i \in 1..born' /\ born' <= MemoCount
  BY <1>2, <1>3, CacheAssumption DEF ServerTyped
<1>5. ServerTyped(memos', born')
  <2>1. memos' \in [1..MemoCount -> Contents \cup {Absent}] /\ \A j \in 1..MemoCount : j # i => memos'[j] = memos[j]
    BY <1>2, <1>3 DEF ServerTyped
  <2>2. QED
    BY <1>2, <1>4, <2>1 DEF ServerTyped
<1>6. pipe' \in Seq(EventTypes) /\ Len(pipe') <= PipeSize
  BY <1>1, <1>2, <1>3
<1>7. behind' \subseteq Keys
  BY <1>1, <1>3 DEF CacheTypes
<1>8. ASSUME NEW k \in Keys, Told(k)' PROVE Told(k) /\ k \notin Affected(event)
  <2>1. k \notin behind' /\ \A n \in DOMAIN pipe' : k \notin Affected(pipe'[n])
    <3>1. (\E n \in DOMAIN pipe : k \in Affected(pipe[n]))' <=> \E n \in DOMAIN pipe' : k \in Affected(pipe'[n])
      BY DEF Affected
    <3>2. QED
      BY <1>8, <3>1 DEF Told, Coming
  <2>2. CASE pipe' = Append(pipe, event) /\ behind' = behind
    <3>1. \A n \in DOMAIN pipe : n \in DOMAIN pipe' /\ pipe'[n] = pipe[n]
      BY <1>2, <2>2
    <3>2. Len(pipe) + 1 \in DOMAIN pipe' /\ pipe'[Len(pipe) + 1] = event
      BY <1>2, <2>2
    <3>3. QED
      BY <2>1, <2>2, <3>1, <3>2 DEF Told, Coming
  <2>3. CASE pipe' = pipe /\ behind' = behind \cup Affected(event)
    BY <2>1, <2>3 DEF Told, Coming
  <2>4. QED
    BY <1>3, <2>2, <2>3
<1>9. QED
  BY <1>2, <1>4, <1>5, <1>6, <1>7, <1>8 DEF event

\* Before the first memo is there, no page shows a row.
LEMMA NoRowsYet == ASSUME NEW p \in PageTypes(0) PROVE p.rows = <<>>
PROOF
<1>1. RowTypes(0) = {}
  BY DEF RowTypes
<1>2. p.rows \in Seq({})
  BY <1>1 DEF PageTypes
<1>3. QED
  BY <1>2

\* A query that the change is not about is as it was.
LEMMA CommitKeeps ==
  ASSUME CacheTypes, NEW op \in {"created", "updated", "deleted"}, NEW i \in 1..MemoCount, NEW c \in Contents \cup {Absent},
         IF op = "created" THEN i = born + 1 /\ c # Absent ELSE i \in 1..born,
         Commit(op, i, c),
         NEW k \in Keys, UpToDate(k), Told(k)'
  PROVE  \A j : j = Shown => Sound(k, cache[k], asking[k], memos', j)
PROOF
<1>1. Told(k) /\ k \notin Affected([type |-> op, memo |-> i])
  BY CommitTells
<1>2. k = "detail" /\ (i # 1 \/ op = "created")
  BY <1>1 DEF Affected, Keys
<1>3. CachedTyped(k, cache[k], born) /\ FetchTyped(k, asking[k], born) /\ ServerTyped(memos, born)
  BY DEF CacheTypes, QueriesTyped
<1>4. CASE i # 1
  <2>1. memos'[1] = memos[1]
    BY <1>3, <1>4, CacheAssumption DEF Commit, ServerTyped
  <2>2. DetailPage(memos') = DetailPage(memos)
    BY <2>1 DEF DetailPage
  <2>3. \A p, n, j : Right(k, p, n, memos', j) <=> Right(k, p, n, memos, j)
    BY <1>2, <2>2 DEF Right
  <2>4. Sound(k, cache[k], asking[k], memos, Shown)
    BY <1>1 DEF UpToDate
  <2>5. QED
    BY <2>3, <2>4 DEF Sound, AllRight
<1>5. CASE i = 1
  <2>1. born = 0
    BY <1>2, <1>3, <1>5 DEF ServerTyped
  <2>2. \A n \in DOMAIN cache[k].pages : cache[k].pages[n] \in PageTypes(0) /\ cache[k].pages[n].rows # <<>>
    BY <1>2, <1>3, <2>1 DEF CachedTyped
  <2>3. cache[k].pages = <<>>
    <3>1. \A n \in DOMAIN cache[k].pages : FALSE
      BY <2>2, NoRowsYet
    <3>2. cache[k].pages \in Seq(PageTypes(born))
      BY <1>3 DEF CachedTyped
    <3>3. QED
      BY <3>1, <3>2, NoneLeft
  <2>4. \A n \in DOMAIN asking[k].pages : asking[k].pages[n].rows = <<>>
    <3>1. \A n \in DOMAIN asking[k].pages : asking[k].pages[n] \in PageTypes(0)
      BY <1>3, <2>1 DEF FetchTyped
    <3>2. QED
      BY <3>1, NoRowsYet
  <2>5. QED
    BY <1>2, <2>3, <2>4 DEF Sound, AllRight, Right
<1>6. QED
  BY <1>4, <1>5

\* What a step has to show, in general and where it changes few of the parts
LEMMA StepKeeps ==
  ASSUME ServerTyped(memos', born'), UpdateTyped(update', born'), QueriesTyped(cache', asking', born'),
         viewed' \subseteq Keys, behind' \subseteq Keys, stream' \in StreamTypes, pipe' \in Seq(EventTypes), Len(pipe') <= PipeSize,
         \A k \in Keys : Told(k)' => Sound(k, cache'[k], asking'[k], memos', Shown')
  PROVE  CacheInv'
PROOF
<1>1. CacheTypes'
  BY DEF CacheTypes
<1>2. ASSUME NEW k \in Keys PROVE UpToDate(k)'
  BY DEF UpToDate
<1>3. QED
  BY <1>1, <1>2 DEF CacheInv

LEMMA SameToldAs ==
  ASSUME pipe' = pipe, NEW k, k \notin behind' => k \notin behind
  PROVE  Told(k)' => Told(k)
PROOF
BY DEF Told, Coming, Affected

LEMMA QueriesKept ==
  ASSUME CacheInv, UNCHANGED <<memos, born, cache, asking>>, UpdateTyped(update', born), Shown' = Shown,
         viewed' \subseteq Keys, behind' \subseteq Keys, stream' \in StreamTypes, pipe' \in Seq(EventTypes), Len(pipe') <= PipeSize,
         \A k \in Keys : Told(k)' => Told(k)
  PROVE  CacheInv'
PROOF
<1>1. ServerTyped(memos', born') /\ UpdateTyped(update', born') /\ QueriesTyped(cache', asking', born')
  BY DEF CacheInv, CacheTypes
<1>2. ASSUME NEW k \in Keys, Told(k)' PROVE Sound(k, cache'[k], asking'[k], memos', Shown')
  BY <1>2 DEF CacheInv, UpToDate
<1>3. QED
  BY <1>1, <1>2, StepKeeps

LEMMA OneQueryChanges ==
  ASSUME CacheInv, UNCHANGED <<memos, born, update, stream, pipe>>, viewed' \subseteq Keys, behind' \subseteq Keys,
         cache' = [k \in Keys |-> cache'[k]], asking' = [k \in Keys |-> asking'[k]], NEW k \in Keys,
         \A j \in Keys \ {k} : cache'[j] = cache[j] /\ asking'[j] = asking[j] /\ (j \in behind => j \in behind'),
         CachedTyped(k, cache'[k], born), FetchTyped(k, asking'[k], born),
         Told(k)' => Sound(k, cache'[k], asking'[k], memos, Shown)
  PROVE  CacheInv'
PROOF
<1>1. ServerTyped(memos', born') /\ UpdateTyped(update', born')
  BY DEF CacheInv, CacheTypes
<1>2. QueriesTyped(cache', asking', born')
  BY DEF CacheInv, CacheTypes, QueriesTyped
<1>3. stream' \in StreamTypes /\ pipe' \in Seq(EventTypes) /\ Len(pipe') <= PipeSize
  BY DEF CacheInv, CacheTypes
<1>4. Shown' = Shown /\ memos' = memos
  BY DEF Shown
<1>5. ASSUME NEW j \in Keys, Told(j)' PROVE Sound(j, cache'[j], asking'[j], memos', Shown')
  <2>1. CASE j = k
    BY <1>4, <1>5, <2>1
  <2>2. CASE j # k
    <3>1. j \notin behind' => j \notin behind
      BY <2>2
    <3>2. Told(j)
      BY <1>5, <3>1, SameToldAs
    <3>3. Sound(j, cache[j], asking[j], memos, Shown)
      BY <3>2 DEF CacheInv, UpToDate
    <3>4. QED
      BY <1>4, <2>2, <3>3
  <2>3. QED
    BY <2>1, <2>2
<1>6. QED
  BY <1>1, <1>2, <1>3, <1>5, StepKeeps

LEMMA QueryFacts ==
  ASSUME CacheInv
  PROVE  /\ \A k \in Keys : CachedTyped(k, cache[k], born) /\ FetchTyped(k, asking[k], born) /\ UpToDate(k)
         /\ cache = [k \in Keys |-> cache[k]] /\ asking = [k \in Keys |-> asking[k]]
         /\ ServerTyped(memos, born) /\ born \in Nat /\ UpdateTyped(update, born)
         /\ viewed \subseteq Keys /\ behind \subseteq Keys
         /\ stream \in StreamTypes /\ pipe \in Seq(EventTypes) /\ Len(pipe) <= PipeSize
PROOF
<1>1. born \in Nat
  BY CacheAssumption DEF CacheInv, CacheTypes, ServerTyped
<1>2. QED
  BY <1>1 DEF CacheInv, CacheTypes, QueriesTyped

LEMMA CacheInitially == CacheInit => CacheInv
PROOF
<1> SUFFICES ASSUME CacheInit PROVE CacheInv
  OBVIOUS
<1>1. MemoCount \in Nat \ {0} /\ PipeSize \in Nat \ {0} /\ \A c \in Contents : c \in Nat \ {0}
  BY CacheAssumption
<1>2. (CHOOSE c \in Contents : TRUE) \in Contents
  BY CacheAssumption
<1>3. ServerTyped(memos, born)
  BY <1>1, <1>2 DEF CacheInit, ServerTyped, Absent
<1>4. UpdateTyped(update, born)
  BY NothingTyped DEF CacheInit
<1>5. \A k \in Keys : cache[k] = Unknown /\ asking[k] = NoFetch
  BY DEF CacheInit
<1>6. QueriesTyped(cache, asking, born)
  <2>1. cache = [k \in Keys |-> cache[k]] /\ asking = [k \in Keys |-> asking[k]]
    BY DEF CacheInit
  <2>2. QED
    BY <1>5, <2>1, NothingTyped DEF QueriesTyped
<1>7. CacheTypes
  <2>1. stream \in StreamTypes /\ pipe \in Seq(EventTypes) /\ Len(pipe) <= PipeSize
    BY <1>1 DEF CacheInit, StreamTypes
  <2>2. viewed \subseteq Keys /\ behind \subseteq Keys
    BY DEF CacheInit
  <2>3. QED
    BY <1>3, <1>4, <1>6, <2>1, <2>2 DEF CacheTypes
<1>8. ASSUME NEW k \in Keys PROVE UpToDate(k)
  <2>1. asking[k].pages = <<>> /\ cache[k].pages = <<>>
    BY <1>5 DEF Unknown, NoFetch
  <2>2. QED
    BY <2>1, NothingShown DEF UpToDate
<1>9. QED
  BY <1>7, <1>8 DEF CacheInv

\* A fetch that begins has brought nothing yet, and is to replace what is cached.
LEMMA MountKeeps == ASSUME CacheInv, NEW k \in Keys, Mount(k) PROVE CacheInv'
PROOF
<1>1. CachedTyped(k, cache[k], born) /\ FetchTyped(k, asking[k], born) /\ UpToDate(k)
  BY QueryFacts
<1>2. /\ UNCHANGED <<memos, born, cache, stream, pipe, update, behind>> /\ viewed' = viewed \cup {k}
      /\ cache = [j \in Keys |-> cache[j]] /\ asking = [j \in Keys |-> asking[j]]
  BY QueryFacts DEF Mount
<1>3. viewed' \subseteq Keys /\ behind' \subseteq Keys
  BY <1>2, QueryFacts
<1>4. CASE asking' = asking
  BY <1>1, <1>2, <1>3, <1>4, SameToldAs, OneQueryChanges DEF UpToDate
<1>5. CASE asking' # asking
  <2> DEFINE w == IF Known(k) THEN Len(cache[k].pages) ELSE 1
             f == [state |-> "asked", pages |-> <<>>, want |-> w]
  <2>1. asking' = [asking EXCEPT ![k] = f]
    <3>1. asking' = [asking EXCEPT ![k] = IF asking[k] # NoFetch THEN @ ELSE [Refetch(k) EXCEPT !.want = IF Known(k) THEN @ ELSE 1]]
      BY <1>5 DEF Mount
    <3>2. asking[k] = NoFetch
      BY <1>2, <1>5, <3>1
    <3>3. [Refetch(k) EXCEPT !.want = IF Known(k) THEN @ ELSE 1] = f
      BY DEF Refetch
    <3>4. QED
      BY <3>1, <3>2, <3>3
  <2>2. FetchTyped(k, f, born) /\ f.pages = <<>> /\ f # NoFetch
    <3>1. w \in Nat
      BY <1>1 DEF CachedTyped
    <3> HIDE DEF w
    <3>2. QED
      BY <3>1 DEF FetchTyped, PagesTyped, NoFetch
  <2> HIDE DEF f
  <2>3. asking'[k] = f /\ \A j \in Keys \ {k} : asking'[j] = asking[j]
    BY <1>2, <2>1
  <2>4. asking' = [j \in Keys |-> asking'[j]]
    BY <1>2, <2>1
  <2>5. Sound(k, cache'[k], asking'[k], memos, Shown)
    BY <1>2, <2>2, <2>3, NothingShown
  <2>6. QED
    BY <1>1, <1>2, <1>3, <2>2, <2>3, <2>4, <2>5, OneQueryChanges
<1>6. QED
  BY <1>4, <1>5

LEMMA WindowFocusKeeps == ASSUME CacheInv, NEW k \in Keys, WindowFocus(k) PROVE CacheInv'
PROOF
<1>1. CachedTyped(k, cache[k], born)
  BY QueryFacts
<1>2. /\ UNCHANGED <<memos, born, cache, stream, pipe, update, behind, viewed>>
      /\ cache = [j \in Keys |-> cache[j]] /\ asking = [j \in Keys |-> asking[j]]
  BY QueryFacts DEF WindowFocus
<1>3. viewed' \subseteq Keys /\ behind' \subseteq Keys
  BY <1>2, QueryFacts
<1>4. FetchTyped(k, Refetch(k), born) /\ Refetch(k).pages = <<>> /\ Refetch(k) # NoFetch
  BY <1>1, RefetchTyped
<1>5. /\ asking'[k] = Refetch(k) /\ \A j \in Keys \ {k} : asking'[j] = asking[j]
      /\ asking' = [j \in Keys |-> asking'[j]]
  BY <1>2 DEF WindowFocus
<1>6. Sound(k, cache'[k], asking'[k], memos, Shown)
  BY <1>4, <1>5, NothingShown
<1>7. QED
  BY <1>1, <1>2, <1>3, <1>4, <1>5, <1>6, OneQueryChanges

\* A first page is what the server holds now; the others are right when nothing changed meanwhile.
LEMMA ServedKeeps == ASSUME CacheInv, NEW k \in Keys, Served(k) PROVE CacheInv'
PROOF
<1> DEFINE m == Len(asking[k].pages) + 1
           page == ServerPage(k, m)
           pages == Append(asking[k].pages, page)
           f == [state |-> IF page.next /\ Len(pages) < asking[k].want THEN "asked" ELSE "answered",
                 pages |-> pages, want |-> asking[k].want]
<1>1. CachedTyped(k, cache[k], born) /\ FetchTyped(k, asking[k], born) /\ UpToDate(k) /\ ServerTyped(memos, born)
  BY QueryFacts
<1>2. /\ UNCHANGED <<memos, born, cache, stream, pipe, update, viewed>> /\ asking[k].state = "asked"
      /\ cache = [j \in Keys |-> cache[j]] /\ asking = [j \in Keys |-> asking[j]]
      /\ behind' = IF asking[k].pages = <<>> THEN behind \ {k} ELSE behind
  BY QueryFacts DEF Served
<1>3. viewed' \subseteq Keys /\ behind' \subseteq Keys
  BY <1>2, QueryFacts
<1>4. asking' = [asking EXCEPT ![k] = f]
  BY DEF Served
<1>5. asking'[k] = f /\ asking' = [j \in Keys |-> asking'[j]] /\ \A j \in Keys \ {k} : asking'[j] = asking[j]
  BY <1>2, <1>4
<1>6. asking[k].pages \in Seq(PageTypes(born)) /\ PagesTyped(asking[k].pages, born) /\ m \in Nat \ {0} /\ asking[k].want \in Nat
  BY <1>1 DEF FetchTyped
<1>7. page \in PageTypes(born) /\ Len(page.rows) <= PageSize /\ (k = "detail" => ~page.next)
  BY <1>1, <1>6, ListPageTyped, DetailPageTyped DEF ServerPage
<1>8. Right(k, page, m, memos, Shown)
  BY DEF Right, Alike, ServerPage, Keys
<1> HIDE DEF page
<1>9. /\ pages \in Seq(PageTypes(born)) /\ Len(pages) = m /\ pages # <<>>
      /\ \A n \in DOMAIN pages : IF n = m THEN pages[n] = page ELSE n \in DOMAIN asking[k].pages /\ pages[n] = asking[k].pages[n]
  BY <1>6, <1>7
<1> HIDE DEF pages
<1>10. FetchTyped(k, f, born)
  <2>1. PagesTyped(pages, born)
    BY <1>6, <1>7, <1>9 DEF PagesTyped
  <2>2. k = "detail" => Len(pages) <= 1 /\ ~page.next
    <3>1. k = "detail" => asking[k].pages = <<>>
      BY <1>1, <1>2 DEF FetchTyped
    <3>2. QED
      BY <1>7, <1>9, <3>1
  <2>3. page.next \in BOOLEAN
    BY <1>7 DEF PageTypes
  <2>4. QED
    BY <1>6, <1>9, <2>1, <2>2, <2>3 DEF FetchTyped
<1>11. ASSUME Told(k)' PROVE Sound(k, cache'[k], asking'[k], memos, Shown)
  <2>1. f.pages = pages /\ f.state # "idle" /\ f # NoFetch
    BY DEF NoFetch
  <2>2. AllRight(k, pages, memos, Shown)
    <3>1. CASE asking[k].pages = <<>>
      BY <1>8, <1>9, <3>1 DEF AllRight
    <3>2. CASE asking[k].pages # <<>>
      <4>1. Told(k)
        BY <1>2, <1>11, <3>2, SameToldAs
      <4>2. AllRight(k, asking[k].pages, memos, Shown)
        BY <1>1, <4>1 DEF UpToDate, Sound
      <4>3. QED
        BY <1>8, <1>9, <4>2 DEF AllRight
    <3>3. QED
      BY <3>1, <3>2
  <2>3. QED
    BY <1>5, <2>1, <2>2 DEF Sound
<1>12. \A j \in Keys \ {k} : j \in behind => j \in behind'
  BY <1>2
<1>13. QED
  BY <1>1, <1>2, <1>3, <1>5, <1>10, <1>11, <1>12, OneQueryChanges

LEMMA ReceivedKeeps == ASSUME CacheInv, NEW k \in Keys, Received(k) PROVE CacheInv'
PROOF
<1> DEFINE q == [pages |-> asking[k].pages, invalid |-> FALSE]
<1>1. CachedTyped(k, cache[k], born) /\ FetchTyped(k, asking[k], born) /\ UpToDate(k)
  BY QueryFacts
<1>2. /\ UNCHANGED <<memos, born, stream, pipe, update, viewed, behind>>
      /\ asking[k].state = "answered" /\ (asking[k].pages[1].rows # <<>> \/ k = "list")
      /\ cache = [j \in Keys |-> cache[j]] /\ asking = [j \in Keys |-> asking[j]]
  BY QueryFacts DEF Received
<1>3. viewed' \subseteq Keys /\ behind' \subseteq Keys
  BY <1>2, QueryFacts
<1>4. cache' = [cache EXCEPT ![k] = q] /\ asking' = [asking EXCEPT ![k] = NoFetch]
  BY DEF Received
<1>5. q.pages = asking[k].pages /\ q.invalid = FALSE /\ NoFetch.pages = <<>>
  BY DEF NoFetch
<1>6. CachedTyped(k, q, born)
  <2>1. PagesTyped(asking[k].pages, born) /\ asking[k].pages \in Seq(PageTypes(born)) /\ asking[k].pages # <<>>
    BY <1>1, <1>2 DEF FetchTyped
  <2>2. k = "detail" => \A n \in DOMAIN asking[k].pages : n = 1
    BY <1>1, <2>1 DEF FetchTyped
  <2>3. q \in [pages : Seq(PageTypes(born)), invalid : BOOLEAN]
    BY <2>1
  <2> HIDE DEF q
  <2>4. k = "detail" => \A n \in DOMAIN q.pages : q.pages[n].rows # <<>>
    BY <1>2, <1>5, <2>2
  <2>5. QED
    BY <1>5, <2>1, <2>3, <2>4 DEF CachedTyped
<1> HIDE DEF q
<1>7. /\ cache'[k] = q /\ cache' = [j \in Keys |-> cache'[j]] /\ \A j \in Keys \ {k} : cache'[j] = cache[j]
      /\ asking'[k] = NoFetch /\ asking' = [j \in Keys |-> asking'[j]] /\ \A j \in Keys \ {k} : asking'[j] = asking[j]
  BY <1>2, <1>4
<1>8. ASSUME Told(k)' PROVE Sound(k, cache'[k], asking'[k], memos, Shown)
  <2>1. AllRight(k, asking[k].pages, memos, Shown)
    BY <1>1, <1>2, <1>8, SameToldAs DEF UpToDate, Sound
  <2>2. AllRight(k, <<>>, memos, Shown)
    BY DEF AllRight
  <2>3. QED
    BY <1>5, <1>7, <2>1, <2>2 DEF Sound
<1>9. FetchTyped(k, asking'[k], born)
  BY <1>7, NothingTyped
<1>10. QED
  BY <1>2, <1>3, <1>6, <1>7, <1>8, <1>9, OneQueryChanges

\* A fetch that fails leaves what is cached to be fetched again.
LEMMA FailureKeeps ==
  ASSUME CacheInv, NEW k \in Keys, FailedFetch(k), UNCHANGED <<memos, born, stream, pipe, update, behind>>, viewed' \subseteq Keys
  PROVE  CacheInv'
PROOF
<1> DEFINE q == [cache[k] EXCEPT !.invalid = (cache[k].pages # <<>>)]
<1>1. CachedTyped(k, cache[k], born) /\ cache = [j \in Keys |-> cache[j]] /\ asking = [j \in Keys |-> asking[j]] /\ behind' \subseteq Keys
  BY QueryFacts
<1>2. CachedTyped(k, q, born) /\ q.pages = cache[k].pages /\ (q.invalid <=> q.pages # <<>>)
  BY <1>1, InvalidTyped
<1>3. cache' = [cache EXCEPT ![k] = q] /\ asking' = [asking EXCEPT ![k] = NoFetch]
  BY DEF FailedFetch, Known
<1> HIDE DEF q
<1>4. /\ cache'[k] = q /\ cache' = [j \in Keys |-> cache'[j]] /\ \A j \in Keys \ {k} : cache'[j] = cache[j]
      /\ asking'[k] = NoFetch /\ asking' = [j \in Keys |-> asking'[j]] /\ \A j \in Keys \ {k} : asking'[j] = asking[j]
  BY <1>1, <1>3
<1>5. NoFetch.pages = <<>> /\ (q.invalid \/ q.pages = <<>>)
  BY <1>2 DEF NoFetch
<1>6. Sound(k, cache'[k], asking'[k], memos, Shown)
  BY <1>4, <1>5, NothingShown
<1>7. FetchTyped(k, asking'[k], born)
  BY <1>4, NothingTyped
<1>8. QED
  BY <1>1, <1>2, <1>4, <1>6, <1>7, OneQueryChanges

\* The pages that are kept are those that are cached; a refetch that is given up is behind.
LEMMA FetchNextPageKeeps == ASSUME CacheInv, FetchNextPage PROVE CacheInv'
PROOF
<1> DEFINE w == Len(cache["list"].pages) + 1
           f == [state |-> "asked", pages |-> cache["list"].pages, want |-> w]
<1>0. "list" \in Keys
  BY DEF Keys
<1>1. CachedTyped("list", cache["list"], born) /\ FetchTyped("list", asking["list"], born) /\ UpToDate("list")
  BY <1>0, QueryFacts
<1>2. /\ UNCHANGED <<memos, born, cache, stream, pipe, update, viewed>>
      /\ behind' = IF asking["list"].state # "idle" \/ cache["list"].invalid THEN behind \cup {"list"} ELSE behind
      /\ cache = [j \in Keys |-> cache[j]] /\ asking = [j \in Keys |-> asking[j]]
  BY QueryFacts DEF FetchNextPage
<1>3. viewed' \subseteq Keys /\ behind' \subseteq Keys /\ (\A j \in Keys \ {"list"} : j \in behind => j \in behind')
  BY <1>0, <1>2, QueryFacts
<1>4. asking' = [asking EXCEPT !["list"] = f]
  BY DEF FetchNextPage
<1>5. FetchTyped("list", f, born)
  <2>1. PagesTyped(cache["list"].pages, born) /\ cache["list"].pages \in Seq(PageTypes(born)) /\ w \in Nat
    BY <1>1 DEF CachedTyped
  <2> HIDE DEF w
  <2>2. QED
    BY <2>1 DEF FetchTyped
<1>6. f.pages = cache["list"].pages /\ f.state = "asked" /\ f # NoFetch
  BY DEF NoFetch
<1> HIDE DEF f
<1>7. asking'["list"] = f /\ asking' = [j \in Keys |-> asking'[j]] /\ \A j \in Keys \ {"list"} : asking'[j] = asking[j]
  BY <1>0, <1>2, <1>4
<1>8. ASSUME Told("list")' PROVE Sound("list", cache'["list"], asking'["list"], memos, Shown)
  <2>1. asking["list"].state = "idle" /\ ~cache["list"].invalid /\ Told("list")
    <3>1. "list" \notin behind'
      BY <1>8 DEF Told
    <3>2. QED
      BY <1>2, <1>8, <3>1, SameToldAs
  <2>2. asking["list"] = NoFetch
    BY <1>1, <2>1 DEF FetchTyped
  <2>3. AllRight("list", cache["list"].pages, memos, Shown)
    BY <1>1, <2>1, <2>2 DEF UpToDate, Sound
  <2>4. QED
    BY <1>6, <1>7, <2>3 DEF Sound
<1>9. QED
  BY <1>0, <1>1, <1>2, <1>3, <1>5, <1>7, <1>8, OneQueryChanges

\* What another client, or the tab's own request, changes on the server
LEMMA ElsewhereChangedKeeps ==
  ASSUME CacheInv, NEW op \in {"created", "updated", "deleted"}, NEW i \in 1..MemoCount, NEW c \in Contents \cup {Absent},
         ElsewhereChanged(op, i, c)
  PROVE  CacheInv'
PROOF
<1>1. CacheTypes /\ (\A k \in Keys : UpToDate(k)) /\ Commit(op, i, c) /\ UNCHANGED <<cache, asking, viewed, stream, update>>
  BY DEF CacheInv, ElsewhereChanged
<1>2. IF op = "created" THEN i = born + 1 /\ c # Absent ELSE i \in 1..born
  BY CacheAssumption DEF ElsewhereChanged, Changeable, Absent
<1>3. /\ ServerTyped(memos', born') /\ born \in Nat /\ born' \in Nat /\ born <= born'
      /\ pipe' \in Seq(EventTypes) /\ Len(pipe') <= PipeSize /\ behind' \subseteq Keys
  BY <1>1, <1>2, CommitTells
<1>4. UpdateTyped(update', born') /\ QueriesTyped(cache', asking', born')
  <2>1. UpdateTyped(update, born) /\ QueriesTyped(cache, asking, born)
    BY <1>1 DEF CacheTypes
  <2>2. UpdateTyped(update, born') /\ QueriesTyped(cache, asking, born')
    BY <1>3, <2>1, TypesGrow DEF QueriesTyped
  <2>3. QED
    BY <1>1, <2>2
<1>5. ASSUME NEW k \in Keys, Told(k)' PROVE Sound(k, cache'[k], asking'[k], memos', Shown')
  <2>1. Sound(k, cache[k], asking[k], memos', Shown)
    BY <1>1, <1>2, <1>5, CommitKeeps
  <2>2. Shown' = Shown
    BY <1>1 DEF Shown
  <2>3. QED
    BY <1>1, <2>1, <2>2
<1>6. stream' \in StreamTypes /\ viewed' \subseteq Keys
  BY <1>1 DEF CacheTypes
<1>7. QED
  BY <1>3, <1>4, <1>5, <1>6, StepKeeps

LEMMA MutationServedKeeps == ASSUME CacheInv, MutationServed PROVE CacheInv'
PROOF
<1> DEFINE i == IF update.op = "created" THEN born + 1 ELSE update.memo
<1>1. /\ CacheTypes /\ (\A k \in Keys : UpToDate(k)) /\ update.state = "sent" /\ UNCHANGED <<cache, asking, viewed, stream>>
      /\ UpdateTyped(update, born) /\ ServerTyped(memos, born) /\ born \in Nat
  BY QueryFacts DEF CacheInv, MutationServed
<1>2. update.op \in {"created", "updated", "deleted"}
  BY <1>1 DEF UpdateTyped, NoUpdate
<1>3. CASE i <= MemoCount /\ (update.op = "created" \/ memos[i] # Absent)
  <2>1. Commit(update.op, i, update.content) /\ update' = [update EXCEPT !.state = "done", !.memo = i]
    BY <1>3 DEF MutationServed
  <2>2. i \in 1..MemoCount /\ update.content \in Contents \cup {Absent}
    BY <1>1, <1>2, <1>3, CacheAssumption DEF UpdateTyped, ServerTyped
  <2>3. IF update.op = "created" THEN i = born + 1 /\ update.content # Absent ELSE i \in 1..born
    BY <1>1, <1>2 DEF UpdateTyped
  <2>4. /\ ServerTyped(memos', born') /\ born' \in Nat /\ born <= born' /\ i \in 1..born'
        /\ pipe' \in Seq(EventTypes) /\ Len(pipe') <= PipeSize /\ behind' \subseteq Keys
    BY <1>1, <1>2, <2>1, <2>2, <2>3, CommitTells
  <2>5. UpdateTyped(update, born') /\ QueriesTyped(cache', asking', born')
    BY <1>1, <2>4, TypesGrow DEF QueriesTyped, CacheTypes
  <2>6. /\ update'.op = update.op /\ update'.content = update.content /\ update'.previous = update.previous
        /\ update'.state = "done" /\ update'.tries = update.tries /\ update'.memo = i
        /\ update' = [op |-> update.op, memo |-> i, content |-> update.content, previous |-> update.previous,
                      state |-> "done", tries |-> update.tries]
    BY <1>1, <2>1 DEF UpdateTyped
  <2>7. update.op # "created" => i = update.memo
    OBVIOUS
  <2> HIDE DEF i
  <2>8. UpdateTyped(update', born')
    BY <1>2, <2>2, <2>4, <2>5, <2>6, <2>7 DEF UpdateTyped
  <2>9. Shown' = Shown
    BY <2>6, <2>7 DEF Shown
  <2>10. ASSUME NEW k \in Keys, Told(k)' PROVE Sound(k, cache'[k], asking'[k], memos', Shown')
    BY <1>1, <1>2, <2>1, <2>2, <2>3, <2>9, <2>10, CommitKeeps
  <2>11. stream' \in StreamTypes /\ viewed' \subseteq Keys
    BY <1>1 DEF CacheTypes
  <2>12. QED
    BY <2>4, <2>5, <2>8, <2>10, <2>11, StepKeeps
<1>4. CASE ~(i <= MemoCount /\ (update.op = "created" \/ memos[i] # Absent))
  <2>1. update' = [update EXCEPT !.state = "refused"] /\ UNCHANGED <<memos, born, pipe, behind>>
    BY <1>4 DEF MutationServed
  <2>2. update' = [op |-> update.op, memo |-> update.memo, content |-> update.content, previous |-> update.previous,
                   state |-> "refused", tries |-> update.tries]
    BY <1>1, <2>1 DEF UpdateTyped
  <2>3. UpdateTyped(update', born)
    BY <1>1, <1>2, <2>2 DEF UpdateTyped
  <2>4. Shown' = Shown
    BY <2>2 DEF Shown
  <2>5. \A k \in Keys : Told(k)' => Told(k)
    BY <2>1, SameToldAs
  <2>6. QED
    BY <1>1, <2>1, <2>3, <2>4, <2>5, QueriesKept DEF CacheTypes
<1>5. QED
  BY <1>3, <1>4

\* The rows that a component shows are of memos that were there.
LEMMA RowOfTyped ==
  ASSUME CacheInv, NEW k \in Keys, NEW i, NEW r \in RowOf(k, i)
  PROVE  r \in RowTypes(born) /\ r.memo = i /\ i \in 1..born
PROOF
<1>1. PICK m \in DOMAIN cache[k].pages : r \in {cache[k].pages[m].rows[n] : n \in DOMAIN cache[k].pages[m].rows}
  BY DEF RowOf
<1>2. cache[k].pages \in Seq(PageTypes(born))
  BY QueryFacts DEF CachedTyped
<1>3. cache[k].pages[m] \in PageTypes(born)
  BY <1>1, <1>2
<1>4. r \in RowTypes(born)
  BY <1>1, <1>3 DEF PageTypes
<1>5. QED
  BY <1>4 DEF RowOf, RowTypes

LEMMA VisibleExists == ASSUME CacheInv, NEW i, Visible(i) PROVE i \in 1..born
PROOF
<1>1. PICK k \in viewed : \E r : r \in RowOf(k, i)
  BY DEF Visible
<1>2. QED
  BY <1>1, QueryFacts, RowOfTyped

\* Steps that leave the queries and the server alone
LEMMA OthersKeep ==
  ASSUME CacheInv
  PROVE  /\ \A k \in Keys : Unmount(k) => CacheInv'
         /\ \A i \in 1..MemoCount : DeleteMemo(i) => CacheInv'
         /\ \A c \in Contents : CreateMemo(c) => CacheInv'
         /\ MutationLost => CacheInv'
         /\ Connect \/ ServerSubscribes => CacheInv'
PROOF
<1>1. /\ viewed \subseteq Keys /\ behind \subseteq Keys /\ UpdateTyped(update, born) /\ born \in Nat
      /\ stream \in StreamTypes /\ pipe \in Seq(EventTypes) /\ Len(pipe) <= PipeSize
  BY QueryFacts
<1>2. ASSUME NEW k \in Keys, Unmount(k) PROVE CacheInv'
  <2>1. UNCHANGED <<memos, born, cache, asking, stream, pipe, update, behind>> /\ viewed' \subseteq Keys
    BY <1>1, <1>2 DEF Unmount
  <2>2. Shown' = Shown /\ \A j \in Keys : Told(j)' => Told(j)
    BY <2>1, SameToldAs DEF Shown
  <2>3. QED
    BY <1>1, <2>1, <2>2, QueriesKept
<1>3. ASSUME UNCHANGED <<memos, born, cache, asking, viewed, stream, pipe, behind>>, UpdateTyped(update', born), Shown' = Shown
      PROVE  CacheInv'
  <2>1. \A j \in Keys : Told(j)' => Told(j)
    BY <1>3, SameToldAs
  <2>2. QED
    BY <1>1, <1>3, <2>1, QueriesKept
<1>4. ASSUME NEW op \in {"created", "deleted"}, NEW i, NEW c, SendMutation(op, i, c),
             op = "created" => i = 0 /\ c \in Contents, op = "deleted" => i \in 1..born /\ i <= MemoCount /\ c = Absent
      PROVE  UpdateTyped(update', born) /\ Shown' = Shown
  <2>1. update = NoUpdate /\ update' = [op |-> op, memo |-> i, content |-> c, previous |-> <<>>, state |-> "sent", tries |-> 0]
    BY <1>4 DEF SendMutation
  <2>2. i \in 0..MemoCount /\ c \in Contents \cup {Absent} /\ (op = "created" => c # Absent)
    BY <1>1, <1>4, CacheAssumption DEF Absent
  <2>3. UpdateTyped(update', born)
    BY <1>4, <2>1, <2>2 DEF UpdateTyped
  <2>4. QED
    BY <1>4, <2>1, <2>3 DEF Shown, NoUpdate
<1>5. ASSUME NEW i \in 1..MemoCount, DeleteMemo(i) PROVE CacheInv'
  <2>1. i \in 1..born /\ SendMutation("deleted", i, Absent)
    BY <1>5, VisibleExists DEF DeleteMemo
  <2>2. UpdateTyped(update', born) /\ Shown' = Shown
    BY <1>4, <2>1
  <2>3. QED
    BY <1>3, <1>5, <2>2 DEF DeleteMemo
<1>6. ASSUME NEW c \in Contents, CreateMemo(c) PROVE CacheInv'
  <2>1. UpdateTyped(update', born) /\ Shown' = Shown
    BY <1>4, <1>6 DEF CreateMemo
  <2>2. QED
    BY <1>3, <1>6, <2>1 DEF CreateMemo
<1>7. ASSUME MutationLost PROVE CacheInv'
  <2> DEFINE s == IF update.tries = 0 THEN "sent" ELSE "refused"
  <2>1. update.state \in {"sent", "done"} /\ update.op # "created" /\ update' = [update EXCEPT !.state = s, !.tries = 1]
    BY <1>7 DEF MutationLost
  <2>2. update' = [op |-> update.op, memo |-> update.memo, content |-> update.content, previous |-> update.previous,
                   state |-> s, tries |-> 1]
    BY <1>1, <2>1 DEF UpdateTyped
  <2>3. s \in {"sent", "refused"}
    OBVIOUS
  <2> HIDE DEF s
  <2>4. UpdateTyped(update', born)
    BY <1>1, <2>1, <2>2, <2>3 DEF UpdateTyped, NoUpdate
  <2>5. Shown' = Shown
    BY <2>2 DEF Shown
  <2>6. QED
    BY <1>3, <1>7, <2>4, <2>5 DEF MutationLost
<1>8. ASSUME Connect \/ ServerSubscribes PROVE CacheInv'
  <2>1. UNCHANGED <<memos, born, cache, asking, viewed, pipe, update, behind>>
    BY <1>8 DEF Connect, ServerSubscribes
  <2>2. stream' \in StreamTypes
    BY <1>1, <1>8 DEF Connect, ServerSubscribes, StreamTypes
  <2>3. Shown' = Shown /\ \A j \in Keys : Told(j)' => Told(j)
    BY <2>1, SameToldAs DEF Shown
  <2>4. QED
    BY <1>1, <2>1, <2>2, <2>3, QueriesKept
<1>9. QED
  BY <1>2, <1>5, <1>6, <1>7, <1>8

\* The events that are lost with a connection leave what they are about behind.
LEMMA DisconnectedKeeps == ASSUME CacheInv, Disconnected PROVE CacheInv'
PROOF
<1>1. /\ viewed \subseteq Keys /\ behind \subseteq Keys /\ UpdateTyped(update, born)
      /\ stream \in StreamTypes /\ pipe \in Seq(EventTypes) /\ PipeSize \in Nat
  BY CacheAssumption, QueryFacts
<1>2. /\ UNCHANGED <<memos, born, cache, asking, viewed, update>> /\ pipe' = <<>>
      /\ stream' = [stream EXCEPT !.tab = "off", !.server = FALSE]
      /\ behind' = behind \cup UNION {Affected(pipe[n]) : n \in DOMAIN pipe}
  BY DEF Disconnected
<1>3. stream' \in StreamTypes
  BY <1>1, <1>2 DEF StreamTypes
<1>4. behind' \subseteq Keys
  BY <1>1, <1>2 DEF Affected, Keys
<1>5. \A k \in Keys : Told(k)' => Told(k)
  <2>1. TAKE k \in Keys
  <2>2. k \notin behind' => k \notin behind /\ ~ \E n \in DOMAIN pipe : k \in Affected(pipe[n])
    BY <1>2
  <2>3. QED
    BY <2>2 DEF Told, Coming
<1>6. Shown' = Shown
  BY <1>2 DEF Shown
<1>7. pipe' \in Seq(EventTypes) /\ Len(pipe') <= PipeSize
  BY <1>1, <1>2
<1>8. QED
  BY <1>1, <1>2, <1>3, <1>4, <1>5, <1>6, <1>7, QueriesKept

\* After a new connection, only what a kept fetch brings can be behind.
LEMMA ConnectedKeeps == ASSUME CacheInv, Connected PROVE CacheInv'
PROOF
<1>1. /\ viewed \subseteq Keys /\ behind \subseteq Keys /\ UpdateTyped(update, born) /\ ServerTyped(memos, born)
      /\ stream \in StreamTypes /\ pipe \in Seq(EventTypes) /\ Len(pipe) <= PipeSize /\ QueriesTyped(cache, asking, born)
  BY QueryFacts DEF QueriesTyped
<1>2. UNCHANGED <<memos, born, viewed, pipe, update>> /\ stream' = [stream EXCEPT !.tab = "reading", !.once = TRUE]
  BY DEF Connected, ReadStream
<1>3. stream' \in StreamTypes /\ Shown' = Shown
  BY <1>1, <1>2 DEF StreamTypes, Shown
<1>4. CASE ~stream.once
  <2>1. UNCHANGED <<cache, asking, behind>>
    BY <1>4 DEF Connected
  <2>2. \A k \in Keys : Told(k)' => Told(k)
    BY <1>2, <2>1, SameToldAs
  <2>3. QED
    BY <1>1, <1>2, <1>3, <2>1, <2>2, QueriesKept
<1>5. CASE stream.once
  <2>1. Invalidate(Keys) /\ behind' = KeptFetches(Keys)
    BY <1>5 DEF Connected
  <2>2. QueriesTyped(cache', asking', born) /\ \A k \in Keys \ KeptFetches(Keys) : \A ms, i : Sound(k, cache'[k], asking'[k], ms, i)
    BY <1>1, <2>1, InvalidateMakesGood
  <2>3. \A k \in Keys : Told(k)' => k \notin KeptFetches(Keys)
    BY <2>1 DEF Told
  <2>4. behind' \subseteq Keys
    BY <2>1 DEF KeptFetches
  <2>5. ServerTyped(memos', born') /\ UpdateTyped(update', born') /\ QueriesTyped(cache', asking', born')
    BY <1>1, <1>2, <2>2
  <2>6. QED
    BY <1>1, <1>2, <1>3, <2>2, <2>3, <2>4, <2>5, StepKeeps
<1>6. QED
  BY <1>4, <1>5

\* An event makes the tab fetch what it is about, or forget it.
LEMMA EventArrivesKeeps == ASSUME CacheInv, EventArrives PROVE CacheInv'
PROOF
<1> DEFINE event == Head(pipe)
           ks == Affected(event)
<1>1. /\ viewed \subseteq Keys /\ behind \subseteq Keys /\ UpdateTyped(update, born) /\ ServerTyped(memos, born)
      /\ stream \in StreamTypes /\ pipe \in Seq(EventTypes) /\ Len(pipe) <= PipeSize /\ QueriesTyped(cache, asking, born)
      /\ \A k \in Keys : UpToDate(k)
  BY QueryFacts DEF QueriesTyped
<1>2. /\ pipe # <<>> /\ pipe' = Tail(pipe) /\ behind' = behind \cup KeptFetches(ks)
      /\ UNCHANGED <<memos, born, viewed, stream, update>>
  BY DEF EventArrives
<1>3. /\ pipe' \in Seq(EventTypes) /\ Len(pipe') <= PipeSize /\ ks \in SUBSET Keys /\ event = pipe[1]
      /\ \A n \in DOMAIN pipe : n = 1 \/ (n - 1 \in DOMAIN pipe' /\ pipe'[n - 1] = pipe[n])
  <2>1. pipe' \in Seq(EventTypes) /\ Len(pipe') = Len(pipe) - 1 /\ Len(pipe) \in Nat /\ PipeSize \in Nat
    BY <1>1, <1>2, CacheAssumption
  <2>2. ks \in SUBSET Keys
    BY DEF Affected, Keys
  <2>3. event = pipe[1]
    BY <1>1, <1>2
  <2>4. \A n \in DOMAIN pipe : n = 1 \/ (n - 1 \in DOMAIN pipe' /\ pipe'[n - 1] = pipe[n])
    BY <1>1, <1>2
  <2>5. QED
    BY <1>1, <2>1, <2>2, <2>3, <2>4
<1> HIDE DEF event
<1>4. \A k \in Keys : Told(k)' => (k \in ks \/ Told(k)) /\ k \notin KeptFetches(ks)
  <2>1. SUFFICES ASSUME NEW k \in Keys, Told(k)' PROVE (k \in ks \/ Told(k)) /\ k \notin KeptFetches(ks)
    OBVIOUS
  <2>2. k \notin behind' /\ \A n \in DOMAIN pipe' : k \notin Affected(pipe'[n])
    BY <2>1 DEF Told, Coming, Affected
  <2>3. k \notin ks => \A n \in DOMAIN pipe : k \notin Affected(pipe[n])
    BY <1>3, <2>2
  <2>4. QED
    BY <1>2, <2>2, <2>3 DEF Told, Coming
<1>5. Shown' = Shown
  BY <1>2 DEF Shown
<1>6. /\ QueriesTyped(cache', asking', born)
      /\ \A k \in Keys \ ks : cache'[k] = cache[k] /\ asking'[k] = asking[k]
      /\ \A k \in ks \ KeptFetches(ks) : \A ms, i : Sound(k, cache'[k], asking'[k], ms, i)
  <2>1. CASE ~(event.type = "deleted" /\ event.memo = 1)
    <3>1. Invalidate(ks)
      BY <2>1 DEF EventArrives, event
    <3> HIDE DEF ks
    <3>2. QED
      BY <1>1, <1>3, <3>1, InvalidateMakesGood
  <2>2. CASE event.type = "deleted" /\ event.memo = 1
    <3> DEFINE q == [cache["list"] EXCEPT !.invalid = Known("list")]
               f == IF "list" \in viewed /\ Known("list") THEN Refetch("list") ELSE asking["list"]
    <3>1. /\ cache' = [Without("detail") EXCEPT !["list"].invalid = Known("list")]
          /\ asking' = [asking EXCEPT !["detail"] = NoFetch,
                 !["list"] = IF Known("list") /\ "list" \in viewed THEN Refetch("list") ELSE @]
      BY <2>2 DEF EventArrives, event
    <3>2. /\ cache = [k \in Keys |-> cache[k]] /\ asking = [k \in Keys |-> asking[k]]
          /\ CachedTyped("list", cache["list"], born) /\ FetchTyped("list", asking["list"], born)
      BY <1>1 DEF QueriesTyped, Keys
    <3>3. cache' = [k \in Keys |-> IF k = "detail" THEN Unknown ELSE q]
      BY <3>1, <3>2 DEF Without, Keys
    <3>4. asking' = [k \in Keys |-> IF k = "detail" THEN NoFetch ELSE f]
      BY <3>1, <3>2 DEF Keys
    <3>5. /\ CachedTyped("list", q, born) /\ FetchTyped("list", f, born)
          /\ asking["list"].pages = <<>> \/ (Known("list") /\ "list" \in viewed) => \A ms, i : Sound("list", q, f, ms, i)
      <4>1. cache["list"].pages # <<>> <=> Known("list")
        BY DEF Known
      <4>2. QED
        BY <3>2, <4>1, AskedAgain
    <3> HIDE DEF q, f
    <3>6. CachedTyped("detail", Unknown, born) /\ FetchTyped("detail", NoFetch, born) /\ Unknown.pages = <<>> /\ NoFetch.pages = <<>>
      BY NothingTyped DEF Unknown, NoFetch
    <3>7. /\ cache' = [k \in Keys |-> cache'[k]] /\ asking' = [k \in Keys |-> asking'[k]]
          /\ cache'["detail"] = Unknown /\ asking'["detail"] = NoFetch /\ cache'["list"] = q /\ asking'["list"] = f
      BY <3>3, <3>4 DEF Keys
    <3>8. QueriesTyped(cache', asking', born)
      BY <3>5, <3>6, <3>7 DEF QueriesTyped, Keys
    <3>9. Keys \ ks = {}
      BY <2>2 DEF Affected, Keys
    <3>10. "list" \notin KeptFetches(ks) => asking["list"].pages = <<>> \/ (Known("list") /\ "list" \in viewed)
      BY DEF KeptFetches, Affected
    <3>11. \A ms, i : Sound("detail", cache'["detail"], asking'["detail"], ms, i)
      BY <3>6, <3>7, NothingShown
    <3>12. ASSUME NEW k \in ks \ KeptFetches(ks) PROVE \A ms, i : Sound(k, cache'[k], asking'[k], ms, i)
      <4>1. k \in {"list", "detail"}
        BY DEF Affected
      <4>2. CASE k = "detail"
        BY <3>11, <4>2
      <4>3. CASE k = "list"
        BY <3>5, <3>7, <3>10, <3>12, <4>3
      <4>4. QED
        BY <4>1, <4>2, <4>3
    <3>13. QED
      BY <3>8, <3>9, <3>12
  <2>3. QED
    BY <2>1, <2>2
<1>7. behind' \subseteq Keys
  BY <1>1, <1>2, <1>3 DEF KeptFetches
<1>8. ASSUME NEW k \in Keys, Told(k)' PROVE Sound(k, cache'[k], asking'[k], memos', Shown')
  <2>1. CASE k \in ks
    BY <1>4, <1>6, <1>8, <2>1
  <2>2. CASE k \notin ks
    BY <1>1, <1>2, <1>4, <1>5, <1>6, <1>8, <2>2 DEF UpToDate
  <2>3. QED
    BY <2>1, <2>2
<1>9. ServerTyped(memos', born') /\ UpdateTyped(update', born') /\ QueriesTyped(cache', asking', born')
  BY <1>1, <1>2, <1>6
<1>10. stream' \in StreamTypes /\ viewed' \subseteq Keys
  BY <1>1, <1>2
<1>11. QED
  BY <1>3, <1>7, <1>8, <1>9, <1>10, StepKeeps

\* A page of a memo that another memo's change is written to is as it was.
LEMMA PatchedDetail ==
  ASSUME CacheInv, NEW row \in RowTypes(born), row.memo # 1, NEW i, NEW j,
         AllRight("detail", cache["detail"].pages, memos, i)
  PROVE  AllRight("detail", PatchMemo(row)["detail"].pages, memos, j)
PROOF
<1>1. "detail" \in Keys /\ born \in Nat /\ QueriesTyped(cache, asking, born) /\ CachedTyped("detail", cache["detail"], born)
  BY QueryFacts DEF Keys, QueriesTyped
<1>2. /\ DOMAIN PatchMemo(row)["detail"].pages = DOMAIN cache["detail"].pages
      /\ \A n \in DOMAIN cache["detail"].pages : PatchMemo(row)["detail"].pages[n] = PatchPage(cache["detail"].pages[n], row)
  BY <1>1, PatchedTyped
<1>3. ASSUME NEW n \in DOMAIN cache["detail"].pages PROVE PatchMemo(row)["detail"].pages[n] = DetailPage(memos)
  <2>1. cache["detail"].pages[n] = DetailPage(memos) /\ cache["detail"].pages[n] \in PageTypes(born)
    BY <1>1 DEF CachedTyped, AllRight, Right
  <2>2. \A m \in DOMAIN DetailPage(memos).rows : DetailPage(memos).rows[m].memo = 1
    BY DEF DetailPage
  <2>3. row.memo \in 1..born /\ row.content \in Contents /\ row = [memo |-> row.memo, content |-> row.content]
    BY DEF RowTypes
  <2>4. \A m \in DOMAIN DetailPage(memos).rows : DetailPage(memos).rows[m].memo # row.memo
    BY <2>2
  <2>5. PatchPage(DetailPage(memos), [memo |-> row.memo, content |-> row.content]) = DetailPage(memos)
    BY <2>1, <2>3, <2>4, PatchOther
  <2>6. QED
    BY <1>2, <2>1, <2>3, <2>5
<1>4. QED
  BY <1>2, <1>3 DEF AllRight, Right

\* The page of the memo that the server holds as the row says
LEMMA OwnPage ==
  ASSUME CacheInv, NEW row \in RowTypes(born), row.memo = 1, memos[1] = row.content, NEW j
  PROVE  AllRight("detail", PatchMemo(row)["detail"].pages, memos, j)
PROOF
<1>1. "detail" \in Keys /\ born \in Nat /\ QueriesTyped(cache, asking, born)
  BY QueryFacts DEF Keys, QueriesTyped
<1>2. PatchMemo(row)["detail"].pages = << [rows |-> <<row>>, next |-> FALSE] >>
  BY <1>1, PatchedTyped
<1>3. row = [memo |-> 1, content |-> memos[1]] /\ memos[1] # Absent
  BY CacheAssumption DEF RowTypes, Absent
<1>4. [rows |-> <<row>>, next |-> FALSE] = DetailPage(memos)
  BY <1>3 DEF DetailPage
<1>5. PatchMemo(row)["detail"].pages = <<DetailPage(memos)>>
  BY <1>2, <1>4
<1>6. \A n \in DOMAIN <<DetailPage(memos)>> : <<DetailPage(memos)>>[n] = DetailPage(memos)
  OBVIOUS
<1>7. QED
  BY <1>5, <1>6 DEF AllRight, Right

\* The list, when a change is shown before it is made
LEMMA PatchedList ==
  ASSUME CacheInv, NEW row \in RowTypes(born), AllRight("list", cache["list"].pages, memos, 0)
  PROVE  AllRight("list", PatchMemo(row)["list"].pages, memos, row.memo)
PROOF
<1>1. "list" \in Keys /\ born \in Nat /\ QueriesTyped(cache, asking, born) /\ CachedTyped("list", cache["list"], born)
  BY QueryFacts DEF Keys, QueriesTyped
<1>2. /\ DOMAIN PatchMemo(row)["list"].pages = DOMAIN cache["list"].pages
      /\ \A n \in DOMAIN cache["list"].pages : PatchMemo(row)["list"].pages[n] = PatchPage(cache["list"].pages[n], row)
  BY <1>1, PatchedTyped
<1>3. row.memo \in 1..born /\ row.memo # 0 /\ row.content \in Contents /\ row = [memo |-> row.memo, content |-> row.content]
  BY DEF RowTypes
<1>4. ASSUME NEW n \in DOMAIN cache["list"].pages PROVE Alike(PatchMemo(row)["list"].pages[n], ListPage(memos, n), row.memo)
  <2>1. cache["list"].pages[n] = ListPage(memos, n) /\ cache["list"].pages[n] \in PageTypes(born)
    BY <1>1 DEF CachedTyped, AllRight, Right
  <2>2. \A c \in Contents : PatchPage(PatchPage(ListPage(memos, n), row), [memo |-> row.memo, content |-> c])
                              = PatchPage(ListPage(memos, n), [memo |-> row.memo, content |-> c])
    BY <1>3, <2>1, PatchTwice
  <2>3. QED
    BY <1>2, <2>1, <2>2 DEF Alike
<1>5. QED
  BY <1>2, <1>3, <1>4 DEF AllRight, Right

\* The list, when the row that the server holds is put back
LEMMA PatchedBack ==
  ASSUME CacheInv, NEW row \in RowTypes(born), memos[row.memo] = row.content, AllRight("list", cache["list"].pages, memos, row.memo)
  PROVE  AllRight("list", PatchMemo(row)["list"].pages, memos, 0)
PROOF
<1>1. /\ "list" \in Keys /\ born \in Nat /\ QueriesTyped(cache, asking, born) /\ CachedTyped("list", cache["list"], born)
      /\ ServerTyped(memos, born)
  BY QueryFacts DEF Keys, QueriesTyped
<1>2. /\ DOMAIN PatchMemo(row)["list"].pages = DOMAIN cache["list"].pages
      /\ \A n \in DOMAIN cache["list"].pages : PatchMemo(row)["list"].pages[n] = PatchPage(cache["list"].pages[n], row)
  BY <1>1, PatchedTyped
<1>3. row.memo \in 1..born /\ row.memo # 0 /\ row.content \in Contents /\ row = [memo |-> row.memo, content |-> row.content]
  BY DEF RowTypes
<1>4. ASSUME NEW n \in DOMAIN cache["list"].pages PROVE PatchMemo(row)["list"].pages[n] = ListPage(memos, n)
  <2>1. Alike(cache["list"].pages[n], ListPage(memos, n), row.memo)
    BY <1>3 DEF AllRight, Right
  <2>2. n \in Nat \ {0}
    BY <1>1 DEF CachedTyped
  <2>3. /\ ListPage(memos, n) \in PageTypes(born)
        /\ \A m \in DOMAIN ListPage(memos, n).rows :
               ListPage(memos, n).rows[m].content = memos[ListPage(memos, n).rows[m].memo]
    BY <1>1, <2>2, ListPageTyped
  <2>4. PatchPage(ListPage(memos, n), [memo |-> row.memo, content |-> row.content]) = ListPage(memos, n)
    BY <1>3, <2>3, PatchIdle
  <2>5. PatchPage(cache["list"].pages[n], row) = PatchPage(ListPage(memos, n), row)
    BY <1>3, <2>1 DEF Alike
  <2>6. QED
    BY <1>2, <1>3, <2>4, <2>5
<1>5. QED
  BY <1>2, <1>4 DEF AllRight, Right

LEMMA PatchedEmpty ==
  ASSUME CacheInv, NEW row \in RowTypes(born), NEW k \in Keys, ~(k = "detail" /\ row.memo = 1)
  PROVE  PatchMemo(row)[k].pages = <<>> <=> ~Known(k)
PROOF
<1>1. born \in Nat /\ QueriesTyped(cache, asking, born)
  BY QueryFacts DEF QueriesTyped
<1>2. DOMAIN PatchMemo(row)[k].pages = DOMAIN cache[k].pages /\ CachedTyped(k, PatchMemo(row)[k], born)
  BY <1>1, PatchedTyped
<1>3. PatchMemo(row)[k].pages \in Seq(PageTypes(born)) /\ cache[k].pages \in Seq(PageTypes(born))
  BY <1>1, <1>2 DEF CachedTyped, QueriesTyped
<1>4. CASE PatchMemo(row)[k].pages = <<>>
  <2>1. \A n \in DOMAIN cache[k].pages : FALSE
    BY <1>2, <1>4
  <2>2. cache[k].pages = <<>>
    BY <1>3, <2>1, NoneLeft
  <2>3. QED
    BY <1>4, <2>2 DEF Known
<1>5. CASE cache[k].pages = <<>>
  <2>1. \A n \in DOMAIN PatchMemo(row)[k].pages : FALSE
    BY <1>2, <1>5
  <2>2. PatchMemo(row)[k].pages = <<>>
    BY <1>3, <2>1, NoneLeft
  <2>3. QED
    BY <1>5, <2>2 DEF Known
<1>6. QED
  BY <1>4, <1>5 DEF Known

\* What is patched is what the hooks leave in the cache, with nothing under way.
LEMMA PatchedQueries ==
  ASSUME CacheInv, NEW row \in RowTypes(born)
  PROVE  /\ PatchMemo(row) = [k \in Keys |-> PatchMemo(row)[k]]
         /\ \A k \in Keys : CachedTyped(k, PatchMemo(row)[k], born) /\ ~PatchMemo(row)[k].invalid
PROOF
<1>1. born \in Nat /\ QueriesTyped(cache, asking, born)
  BY QueryFacts DEF QueriesTyped
<1>2. \A k \in Keys : CachedTyped(k, PatchMemo(row)[k], born) /\ ~PatchMemo(row)[k].invalid
  BY <1>1, PatchedTyped
<1>3. PatchMemo(row) = [k \in Keys |-> PatchMemo(row)[k]]
  BY DEF PatchMemo
<1>4. QED
  BY <1>2, <1>3

\* A change that is shown before it is made: a fetch that it cancels is behind.
LEMMA UpdateMemoKeeps ==
  ASSUME CacheInv, NEW i \in 1..MemoCount, NEW c \in Contents, UpdateMemo(i, c)
  PROVE  CacheInv'
PROOF
<1> DEFINE row == [memo |-> i, content |-> c]
<1>1. /\ viewed \subseteq Keys /\ behind \subseteq Keys /\ stream \in StreamTypes /\ pipe \in Seq(EventTypes) /\ Len(pipe) <= PipeSize
      /\ ServerTyped(memos, born) /\ born \in Nat /\ \A k \in Keys : UpToDate(k)
  BY QueryFacts
<1>2. /\ update = NoUpdate /\ Visible(i) /\ cache' = PatchMemo(row) /\ asking' = [k \in Keys |-> NoFetch]
      /\ behind' = behind \cup {k \in Keys : Known(k) /\ (cache[k].invalid \/ asking[k] # NoFetch)}
      /\ UNCHANGED <<memos, born, viewed, stream, pipe>>
  BY DEF UpdateMemo
<1>3. PICK previous \in Previous(i) :
          update' = [op |-> "updated", memo |-> i, content |-> c, previous |-> <<previous>>, state |-> "sent", tries |-> 0]
  BY DEF UpdateMemo
<1>4. i \in 1..born /\ previous \in RowTypes(born) /\ previous.memo = i /\ c # Absent
  <2>1. previous \in RowOf("detail", i) \/ previous \in RowOf("list", i)
    BY DEF Previous
  <2>2. QED
    BY <2>1, RowOfTyped, CacheAssumption DEF Keys, Absent
<1>5. row \in RowTypes(born) /\ row.memo = i
  BY <1>4 DEF RowTypes
<1>6. UpdateTyped(update', born)
  <2>1. <<previous>> \in Seq(RowTypes(born)) /\ Len(<<previous>>) = 1 /\ <<previous>>[1] = previous
    BY <1>4
  <2>2. QED
    BY <1>3, <1>4, <2>1 DEF UpdateTyped
<1> HIDE DEF row
<1>7. Shown = 0 /\ Shown' = i
  BY <1>2, <1>3 DEF Shown, NoUpdate
<1>8. QueriesTyped(cache', asking', born)
  <2>1. cache' = [k \in Keys |-> cache'[k]] /\ asking' = [k \in Keys |-> asking'[k]]
    BY <1>2, <1>5, PatchedQueries
  <2>2. \A k \in Keys : CachedTyped(k, cache'[k], born) /\ FetchTyped(k, asking'[k], born)
    BY <1>2, <1>5, PatchedQueries, NothingTyped
  <2>3. QED
    BY <2>1, <2>2 DEF QueriesTyped
<1>9. ASSUME NEW k \in Keys, Told(k)' PROVE Sound(k, cache'[k], asking'[k], memos', Shown')
  <2>1. k \notin behind' /\ Told(k)
    <3>1. k \notin behind'
      BY <1>9 DEF Told
    <3>2. QED
      BY <1>2, <1>9, <3>1, SameToldAs
  <2>2. Sound(k, cache[k], asking[k], memos, 0)
    BY <1>1, <1>7, <2>1 DEF UpToDate
  <2>3. Known(k) => ~cache[k].invalid /\ asking[k] = NoFetch
    BY <1>2, <2>1
  <2>4. asking'[k].pages = <<>>
    BY <1>2 DEF NoFetch
  <2>5. CASE k = "detail" /\ i = 1
    BY <1>7, <2>4, <2>5 DEF Sound, AllRight
  <2>6. CASE ~(k = "detail" /\ i = 1) /\ ~Known(k)
    <3>1. cache'[k].pages = <<>>
      BY <1>2, <1>5, <2>6, PatchedEmpty
    <3>2. QED
      BY <2>4, <3>1, NothingShown
  <2>7. CASE ~(k = "detail" /\ i = 1) /\ Known(k)
    <3>1. AllRight(k, cache[k].pages, memos, 0)
      BY <2>2, <2>3, <2>7 DEF Sound
    <3>2. AllRight(k, PatchMemo(row)[k].pages, memos, i)
      <4>1. CASE k = "detail"
        BY <1>5, <2>7, <3>1, <4>1, PatchedDetail
      <4>2. CASE k = "list"
        BY <1>5, <3>1, <4>2, PatchedList
      <4>3. QED
        BY <4>1, <4>2 DEF Keys
    <3>3. QED
      BY <1>2, <1>7, <2>4, <3>2 DEF Sound, AllRight
  <2>8. QED
    BY <2>5, <2>6, <2>7
<1>10. ServerTyped(memos', born') /\ UpdateTyped(update', born') /\ QueriesTyped(cache', asking', born')
  BY <1>1, <1>2, <1>6, <1>8
<1>11. viewed' \subseteq Keys /\ behind' \subseteq Keys /\ stream' \in StreamTypes /\ pipe' \in Seq(EventTypes) /\ Len(pipe') <= PipeSize
  BY <1>1, <1>2
<1>12. QED
  BY <1>9, <1>10, <1>11, StepKeeps

\* What was shown before is right when the server holds it, and nothing is under way.
LEMMA MutationRefusedKeeps == ASSUME CacheInv, MutationRefused PROVE CacheInv'
PROOF
<1>1. /\ viewed \subseteq Keys /\ behind \subseteq Keys /\ stream \in StreamTypes /\ pipe \in Seq(EventTypes) /\ Len(pipe) <= PipeSize
      /\ ServerTyped(memos, born) /\ born \in Nat /\ UpdateTyped(update, born)
      /\ \A k \in Keys : UpToDate(k) /\ CachedTyped(k, cache[k], born) /\ FetchTyped(k, asking[k], born)
  BY QueryFacts
<1>2. update' = NoUpdate /\ UNCHANGED <<memos, born, asking, viewed, stream, pipe>>
  BY DEF MutationRefused
<1>3. UpdateTyped(update', born) /\ Shown' = 0
  BY <1>2, NothingTyped DEF Shown, NoUpdate
<1>4. CASE update.op # "updated"
  <2>1. UNCHANGED <<cache, behind>>
    BY <1>4 DEF MutationRefused
  <2>2. Shown' = Shown
    BY <1>3, <1>4 DEF Shown
  <2>3. \A k \in Keys : Told(k)' => Told(k)
    BY <1>2, <2>1, SameToldAs
  <2>4. QED
    BY <1>1, <1>2, <1>3, <2>1, <2>2, <2>3, QueriesKept
<1>5. CASE update.op = "updated"
  <2> DEFINE row == update.previous[1]
  <2>1. /\ cache' = PatchMemo(row)
        /\ behind' = behind \cup Wiped \cup (IF memos[row.memo] # row.content THEN Keys ELSE {})
                            \cup (IF asking["list"].pages # <<>> THEN {"list"} ELSE {})
    BY <1>5 DEF MutationRefused
  <2>2. row \in RowTypes(born) /\ row.memo = update.memo /\ Shown = row.memo
    <3>1. update.previous \in Seq(RowTypes(born)) /\ Len(update.previous) = 1 /\ row.memo = update.memo
      BY <1>1, <1>5 DEF UpdateTyped
    <3>2. row \in RowTypes(born)
      BY <3>1
    <3>3. QED
      BY <1>5, <3>1, <3>2 DEF Shown
  <2> HIDE DEF row
  <2>3. QueriesTyped(cache', asking', born)
    <3>1. cache' = [k \in Keys |-> cache'[k]] /\ asking' = [k \in Keys |-> asking'[k]]
      BY <1>2, <2>1, <2>2, PatchedQueries, QueryFacts
    <3>2. \A k \in Keys : CachedTyped(k, cache'[k], born) /\ FetchTyped(k, asking'[k], born)
      BY <1>1, <1>2, <2>1, <2>2, PatchedQueries
    <3>3. QED
      BY <3>1, <3>2 DEF QueriesTyped
  <2>4. ASSUME NEW k \in Keys, Told(k)' PROVE Sound(k, cache'[k], asking'[k], memos', Shown')
    <3>1. k \notin behind' /\ Told(k)
      <4>1. k \notin behind'
        BY <2>4 DEF Told
      <4>2. QED
        BY <1>2, <2>1, <2>4, <4>1, SameToldAs
    <3>2. memos[row.memo] = row.content /\ (k = "list" => asking[k].pages = <<>>) /\ k \notin Wiped
      BY <2>1, <3>1
    <3>3. Sound(k, cache[k], asking[k], memos, row.memo)
      BY <1>1, <2>2, <3>1 DEF UpToDate
    <3>4. AllRight(k, asking'[k].pages, memos, 0)
      <4>1. CASE k = "list"
        BY <1>2, <3>2, <4>1 DEF AllRight
      <4>2. CASE k = "detail"
        BY <1>2, <3>3, <4>2 DEF Sound, AllRight, Right
      <4>3. QED
        BY <4>1, <4>2 DEF Keys
    <3>5. ASSUME asking'[k] = NoFetch PROVE AllRight(k, cache'[k].pages, memos, 0)
      <4>1. ~cache[k].invalid
        BY <1>1, <1>2, <3>2, <3>5 DEF Wiped, CachedTyped, Known
      <4>2. CASE k = "detail" /\ row.memo = 1
        BY <2>1, <2>2, <3>2, <4>2, OwnPage
      <4>3. CASE ~(k = "detail" /\ row.memo = 1)
        <5>1. AllRight(k, cache[k].pages, memos, row.memo)
          BY <1>2, <3>3, <3>5, <4>1, <4>3 DEF Sound
        <5>2. CASE k = "detail"
          BY <2>1, <2>2, <4>3, <5>1, <5>2, PatchedDetail
        <5>3. CASE k = "list"
          BY <2>1, <2>2, <3>2, <5>1, <5>3, PatchedBack
        <5>4. QED
          BY <5>2, <5>3 DEF Keys
      <4>4. QED
        BY <4>2, <4>3
    <3>6. QED
      BY <1>2, <1>3, <3>4, <3>5 DEF Sound
  <2>5. behind' \subseteq Keys
    BY <1>1, <2>1 DEF Wiped, Keys
  <2>6. ServerTyped(memos', born') /\ UpdateTyped(update', born') /\ QueriesTyped(cache', asking', born')
    BY <1>1, <1>2, <1>3, <2>3
  <2>7. viewed' \subseteq Keys /\ stream' \in StreamTypes /\ pipe' \in Seq(EventTypes) /\ Len(pipe') <= PipeSize
    BY <1>1, <1>2
  <2>8. QED
    BY <2>4, <2>5, <2>6, <2>7, StepKeeps
<1>6. QED
  BY <1>4, <1>5

\* An answer that the server still holds is right on the memo's page; the list is fetched again.
LEMMA MutationSucceededKeeps == ASSUME CacheInv, MutationSucceeded PROVE CacheInv'
PROOF
<1> DEFINE row == [memo |-> update.memo, content |-> update.content]
           patched == CASE update.op = "updated" -> PatchMemo(row)
                        [] update.op = "created" ->
                               IF row.memo = 1 THEN [cache EXCEPT !["detail"] = PatchMemo(row)["detail"]] ELSE cache
                        [] update.op = "deleted" -> IF row.memo = 1 THEN Without("detail") ELSE cache
           own == update.memo = 1
           gone == update.op = "deleted" /\ own
           again == IF "list" \in viewed /\ Known("list") THEN Refetch("list") ELSE asking["list"]
           q == [patched["list"] EXCEPT !.invalid = Known("list")]
<1>1. /\ viewed \subseteq Keys /\ behind \subseteq Keys /\ stream \in StreamTypes /\ pipe \in Seq(EventTypes) /\ Len(pipe) <= PipeSize
      /\ ServerTyped(memos, born) /\ born \in Nat /\ UpdateTyped(update, born)
      /\ \A k \in Keys : UpToDate(k) /\ CachedTyped(k, cache[k], born) /\ FetchTyped(k, asking[k], born)
      /\ cache = [k \in Keys |-> cache[k]] /\ asking = [k \in Keys |-> asking[k]] /\ "list" \in Keys /\ "detail" \in Keys
  BY QueryFacts DEF Keys
<1>2. /\ update.state = "done" /\ update' = NoUpdate /\ UNCHANGED <<memos, born, viewed, stream, pipe>>
      /\ cache' = [patched EXCEPT !["list"].invalid = Known("list")]
      /\ asking' = [asking EXCEPT !["list"] = IF Known("list") /\ "list" \in viewed THEN Refetch("list") ELSE @,
                                  !["detail"] = IF update.op = "deleted" /\ row.memo = 1 THEN NoFetch ELSE @]
      /\ behind' = behind \cup (IF update.op = "updated" THEN Wiped \ {"list"} ELSE {})
                          \cup (IF row.memo = 1 /\ memos[1] # row.content THEN {"detail"} ELSE {})
                          \cup KeptFetches({"list"})
  BY DEF MutationSucceeded
<1>3. update.op \in {"created", "updated", "deleted"} /\ update.memo \in 1..born
  BY <1>1, <1>2 DEF UpdateTyped, NoUpdate
<1>4. row.memo = update.memo /\ row.content = update.content
  OBVIOUS
<1>5. update.op # "deleted" => row \in RowTypes(born)
  <2>1. update.op # "deleted" => update.content \in Contents
    BY <1>1, <1>3 DEF UpdateTyped
  <2>2. QED
    BY <1>3, <2>1 DEF RowTypes
<1>6. Shown' = 0
  BY <1>2 DEF Shown, NoUpdate
<1> HIDE DEF row
<1>7. /\ patched = [k \in Keys |-> patched[k]] /\ CachedTyped("list", patched["list"], born)
      /\ CachedTyped("detail", patched["detail"], born) /\ (patched["list"].pages # <<>> <=> Known("list"))
  <2>1. CASE update.op = "updated"
    <3>1. patched = PatchMemo(row)
      BY <2>1
    <3>2. PatchMemo(row)["list"].pages # <<>> <=> Known("list")
      <4>1. ~("list" = "detail" /\ row.memo = 1)
        OBVIOUS
      <4>2. QED
        BY <1>1, <1>5, <2>1, <4>1, PatchedEmpty
    <3>3. QED
      BY <1>1, <1>5, <2>1, <3>1, <3>2, PatchedQueries
  <2>2. CASE update.op = "created" /\ own
    <3>1. patched = [cache EXCEPT !["detail"] = PatchMemo(row)["detail"]]
      BY <1>4, <2>2
    <3>2. patched = [k \in Keys |-> patched[k]] /\ patched["list"] = cache["list"] /\ patched["detail"] = PatchMemo(row)["detail"]
      BY <1>1, <3>1
    <3>3. QED
      BY <1>1, <1>5, <2>2, <3>2, PatchedQueries DEF Known
  <2>3. CASE gone
    <3>1. patched = [cache EXCEPT !["detail"] = Unknown]
      BY <1>4, <2>3 DEF Without
    <3>2. patched = [k \in Keys |-> patched[k]] /\ patched["list"] = cache["list"] /\ patched["detail"] = Unknown
      BY <1>1, <3>1
    <3>3. QED
      BY <1>1, <3>2, NothingTyped DEF Known
  <2>4. CASE update.op \in {"created", "deleted"} /\ ~own
    <3>1. patched = cache
      BY <1>4, <2>4
    <3>2. QED
      BY <1>1, <3>1 DEF Known
  <2>5. QED
    BY <1>3, <2>1, <2>2, <2>3, <2>4
<1>8. /\ cache' = [k \in Keys |-> cache'[k]] /\ cache'["list"] = q /\ cache'["detail"] = patched["detail"]
      /\ asking' = [k \in Keys |-> asking'[k]] /\ asking'["list"] = again
      /\ asking'["detail"] = IF gone THEN NoFetch ELSE asking["detail"]
  <2>1. cache' = [k \in Keys |-> cache'[k]] /\ cache'["list"] = q /\ cache'["detail"] = patched["detail"]
    <3> HIDE DEF patched
    <3>1. QED
      BY <1>1, <1>2, <1>7
  <2>2. QED
    BY <1>1, <1>2, <1>4, <2>1
<1>9. /\ CachedTyped("list", q, born) /\ FetchTyped("list", again, born)
      /\ asking["list"].pages = <<>> \/ (Known("list") /\ "list" \in viewed) => \A ms, i : Sound("list", q, again, ms, i)
  <2> HIDE DEF patched
  <2>1. QED
    BY <1>1, <1>7, AskedAgain
<1> HIDE DEF q, again
<1>10. QueriesTyped(cache', asking', born)
  <2>1. FetchTyped("detail", asking'["detail"], born)
    BY <1>1, <1>8, NothingTyped
  <2>2. QED
    BY <1>7, <1>8, <1>9, <2>1 DEF QueriesTyped, Keys
<1>11. Told("list")' => Sound("list", cache'["list"], asking'["list"], memos, 0)
  <2>1. Told("list")' => "list" \notin KeptFetches({"list"})
    BY <1>2 DEF Told
  <2>2. "list" \notin KeptFetches({"list"}) => asking["list"].pages = <<>> \/ (Known("list") /\ "list" \in viewed)
    BY DEF KeptFetches
  <2>3. QED
    BY <1>8, <1>9, <2>1, <2>2
<1>12. ASSUME Told("detail")' PROVE Sound("detail", cache'["detail"], asking'["detail"], memos, 0)
  <2>1. /\ "detail" \notin behind' /\ Told("detail")
        /\ (update.op = "updated" => "detail" \notin Wiped) /\ (own => memos[1] = row.content)
    <3>1. "detail" \notin behind'
      BY <1>12 DEF Told
    <3>2. Told("detail")
      BY <1>2, <1>12, <3>1, SameToldAs
    <3>3. QED
      BY <1>2, <1>4, <3>1, <3>2
  <2>2. Sound("detail", cache["detail"], asking["detail"], memos, Shown)
    BY <1>1, <2>1 DEF UpToDate
  <2>3. CASE gone
    <3>1. patched["detail"] = Unknown
      <4>1. patched = [cache EXCEPT !["detail"] = Unknown]
        BY <1>4, <2>3 DEF Without
      <4>2. QED
        BY <1>1, <4>1
    <3>2. QED
      BY <1>8, <2>3, <3>1, NothingShown DEF Unknown, NoFetch
  <2>4. CASE ~gone
    <3>1. asking'["detail"] = asking["detail"]
      BY <1>8, <2>4
    <3>2. AllRight("detail", asking["detail"].pages, memos, 0)
      BY <2>2 DEF Sound, AllRight, Right
    <3>3. ASSUME asking["detail"] = NoFetch, ~cache'["detail"].invalid PROVE AllRight("detail", cache'["detail"].pages, memos, 0)
      <4>1. CASE own
        <5>1. patched["detail"] = PatchMemo(row)["detail"]
          <6>1. CASE update.op = "updated"
            BY <6>1
          <6>2. CASE update.op = "created"
            <7>1. patched = [cache EXCEPT !["detail"] = PatchMemo(row)["detail"]]
              BY <1>4, <4>1, <6>2
            <7>2. QED
              BY <1>1, <7>1
          <6>3. QED
            BY <1>3, <2>4, <4>1, <6>1, <6>2
        <5>2. row \in RowTypes(born) /\ row.memo = 1 /\ memos[1] = row.content
          BY <1>3, <1>4, <1>5, <2>1, <2>4, <4>1
        <5>3. QED
          BY <1>8, <5>1, <5>2, OwnPage
      <4>2. CASE ~own /\ update.op = "updated"
        <5>1. ~cache["detail"].invalid
          BY <1>1, <2>1, <3>3, <4>2 DEF Wiped, CachedTyped, Known
        <5>2. Shown # 1
          BY <4>2 DEF Shown
        <5>3. AllRight("detail", cache["detail"].pages, memos, Shown)
          BY <2>2, <3>3, <5>1, <5>2 DEF Sound
        <5>4. patched["detail"] = PatchMemo(row)["detail"]
          BY <4>2
        <5>5. QED
          BY <1>4, <1>5, <1>8, <4>2, <5>3, <5>4, PatchedDetail
      <4>3. CASE ~own /\ update.op # "updated"
        <5>1. patched = cache
          BY <1>3, <1>4, <4>3
        <5>2. ~cache["detail"].invalid /\ Shown = 0
          BY <1>8, <3>3, <4>3, <5>1 DEF Shown
        <5>3. AllRight("detail", cache["detail"].pages, memos, 0)
          BY <2>2, <3>3, <5>2 DEF Sound
        <5>4. QED
          BY <1>8, <5>1, <5>3
      <4>4. QED
        BY <4>1, <4>2, <4>3
    <3>4. QED
      BY <3>1, <3>2, <3>3 DEF Sound
  <2>5. QED
    BY <2>3, <2>4
<1>13. \A k \in Keys : Told(k)' => Sound(k, cache'[k], asking'[k], memos', Shown')
  BY <1>2, <1>6, <1>11, <1>12 DEF Keys
<1>14. behind' \subseteq Keys
  BY <1>1, <1>2 DEF Wiped, KeptFetches, Keys
<1>15. ServerTyped(memos', born') /\ UpdateTyped(update', born') /\ QueriesTyped(cache', asking', born')
  BY <1>1, <1>2, <1>10, NothingTyped
<1>16. viewed' \subseteq Keys /\ stream' \in StreamTypes /\ pipe' \in Seq(EventTypes) /\ Len(pipe') <= PipeSize
  BY <1>1, <1>2
<1>17. QED
  BY <1>13, <1>14, <1>15, <1>16, StepKeeps

LEMMA CacheStep == CacheInv /\ [CacheNext]_cacheVars => CacheInv'
PROOF
<1> SUFFICES ASSUME CacheInv, [CacheNext]_cacheVars PROVE CacheInv'
  OBVIOUS
<1>1. ASSUME NEW op \in {"created", "updated", "deleted"}, NEW i \in 1..MemoCount, NEW c \in Contents \cup {Absent},
             ElsewhereChanged(op, i, c)
      PROVE  CacheInv'
  BY <1>1, ElsewhereChangedKeeps
<1>2. ASSUME NEW k \in Keys, Mount(k) \/ Unmount(k) \/ Served(k) \/ Received(k) \/ FetchFailed(k) \/ WindowFocus(k)
      PROVE  CacheInv'
  <2>1. CASE FetchFailed(k)
    <3>1. FailedFetch(k) /\ UNCHANGED <<memos, born, stream, pipe, update, behind, viewed>> /\ viewed \subseteq Keys
      BY <2>1, QueryFacts DEF FetchFailed
    <3>2. QED
      BY <3>1, FailureKeeps
  <2>2. QED
    BY <1>2, <2>1, MountKeeps, OthersKeep, ServedKeeps, ReceivedKeeps, WindowFocusKeeps
<1>3. CASE FetchNextPage
  BY <1>3, FetchNextPageKeeps
<1>4. CASE ReceivedNotFound
  <2>1. /\ FailedFetch("detail") /\ UNCHANGED <<memos, born, stream, pipe, update, behind>> /\ viewed' = viewed \ {"detail"}
        /\ viewed \subseteq Keys /\ "detail" \in Keys
    BY <1>4, QueryFacts DEF ReceivedNotFound, Keys
  <2>2. viewed' \subseteq Keys
    BY <2>1
  <2>3. QED
    BY <2>1, <2>2, FailureKeeps
<1>5. ASSUME NEW i \in 1..MemoCount, DeleteMemo(i) \/ \E c \in Contents : UpdateMemo(i, c) PROVE CacheInv'
  BY <1>5, OthersKeep, UpdateMemoKeeps
<1>6. ASSUME NEW c \in Contents, CreateMemo(c) PROVE CacheInv'
  BY <1>6, OthersKeep
<1>7. CASE MutationServed \/ MutationLost \/ MutationSucceeded \/ MutationRefused
  BY <1>7, MutationServedKeeps, OthersKeep, MutationSucceededKeeps, MutationRefusedKeeps
<1>8. CASE Connect \/ ServerSubscribes \/ Connected \/ Disconnected \/ EventArrives
  BY <1>8, OthersKeep, ConnectedKeeps, DisconnectedKeeps, EventArrivesKeeps
<1>9. CASE UNCHANGED cacheVars
  <2>1. UNCHANGED <<memos, born, cache, asking, viewed, stream, pipe, update, behind>>
    BY <1>9 DEF cacheVars
  <2>2. Shown' = Shown /\ \A k \in Keys : Told(k)' => Told(k)
    BY <2>1, SameToldAs DEF Shown
  <2>3. QED
    BY <2>1, <2>2, QueryFacts, QueriesKept
<1>10. QED
  BY <1>1, <1>2, <1>3, <1>4, <1>5, <1>6, <1>7, <1>8, <1>9 DEF CacheNext

\* Types: what the server, the cache, a fetch and a mutation hold, and that no page is
\* longer than PageSize.
THEOREM CacheTypesCorrect == CacheSpec => []CacheTypeOK
PROOF
<1>1. CacheInv => CacheTypeOK
  <2> SUFFICES ASSUME CacheInv PROVE CacheTypeOK
    OBVIOUS
  <2>1. \A k \in Keys : /\ asking[k].state \in {"idle", "asked", "answered"} /\ (cache[k].invalid => Known(k))
                        /\ \A n \in DOMAIN cache[k].pages : Len(cache[k].pages[n].rows) <= PageSize
    BY QueryFacts DEF CachedTyped, FetchTyped, PagesTyped, Known
  <2>2. update.state \in {"idle", "sent", "done", "refused"}
    BY QueryFacts DEF UpdateTyped
  <2>3. QED
    BY <2>1, <2>2, QueryFacts DEF CacheTypeOK, ServerTyped, StreamTypes
<1>2. QED
  BY <1>1, CacheInitially, CacheStep, PTL DEF CacheSpec

\* A view of the tab that nothing is under way for shows, page by page, what the server
\* would answer: events, refetches, changes in place and connections that are made again
\* (web/src/hooks/useLiveMemoRefresh.ts, useMemoQueries.ts) leave no other query behind
\* than those that the model names where it sets behind.
THEOREM ViewsComeToAgree == CacheSpec => []ViewsConverge
PROOF
<1>1. CacheInv => ViewsConverge
  <2> SUFFICES ASSUME CacheInv, NEW k \in viewed \ behind, pipe = <<>>, update = NoUpdate, asking[k] = NoFetch,
                      Known(k), ~cache[k].invalid, NEW n \in DOMAIN cache[k].pages
               PROVE  cache[k].pages[n] = ServerPage(k, n)
    BY DEF ViewsConverge
  <2>1. k \in Keys /\ CachedTyped(k, cache[k], born) /\ UpToDate(k)
    BY QueryFacts
  <2>2. Told(k) /\ Shown = 0
    BY DEF Told, Coming, Shown, NoUpdate
  <2>3. Right(k, cache[k].pages[n], n, memos, 0)
    BY <2>1, <2>2 DEF UpToDate, Sound, AllRight
  <2>4. QED
    BY <2>1, <2>3 DEF Right, ServerPage, CachedTyped, Keys
<1>2. QED
  BY <1>1, CacheInitially, CacheStep, PTL DEF CacheSpec

-----------------------------------------------------------------------------
(***************************************************************************)
(* The checkboxes.                                                         *)
(***************************************************************************)
Marking == [content : Seq(Line), previous : Seq(Line), shown : BOOLEAN, state : {"sent", "written"}]

TaskTypes ==
    /\ content \in Seq(Line) /\ seen \in Seq(Line) /\ intended \in Seq(Line)
    /\ marking \in Seq(Marking) /\ clicked \in 0..MaxClicks /\ edits \in 0..MaxEdits /\ overtaken \in BOOLEAN
    /\ missed \subseteq Nat

Sent(n) == marking[n].state = "sent"

\* While nobody is overtaken, the updates that are not written yet are the latest,
\* and the last of them is what is meant, apart from the marks that were missed.
LatestIsMeant ==
    ~overtaken => /\ \A m, n \in DOMAIN marking : m < n /\ Sent(m) => Sent(n)
                  /\ IF \E n \in DOMAIN marking : Sent(n) THEN SameMarks(marking[Len(marking)].content, intended, missed)
                     ELSE SameMarks(content, intended, missed)

TasksInv == TaskTypes /\ LatestIsMeant

\* A checkbox finds its own line, by the number of those before it.
LEMMA TaskFound ==
  ASSUME NEW c \in Seq(Line), NEW l \in DOMAIN c, IsTask(c[l])
  PROVE  /\ TaskIndex(c, l) \in Nat /\ TaskIndex(c, l) < Len(extractTasksFromAst(c))
         /\ extractTasksFromAst(c)[TaskIndex(c, l) + 1] = l
PROOF
<1> DEFINE lines == {k \in DOMAIN c : IsTask(c[k])}
           UpTo(m) == {k \in lines : k <= m}
           before == {k \in DOMAIN c : k < l /\ IsTask(c[k])}
<1>1. lines \subseteq 1..Len(c) /\ Len(c) \in Nat /\ l \in lines
  OBVIOUS
<1>2. IsFiniteSet(lines) /\ Cardinality(lines) \in Nat
  <2>1. IsFiniteSet(1..Len(c))
    BY <1>1, FS_Interval
  <2>2. QED
    BY <1>1, <2>1, FS_Subset, FS_CardinalityType
<1>3. ASSUME NEW m \in lines PROVE IsFiniteSet(UpTo(m)) /\ Cardinality(UpTo(m)) \in Nat /\ Cardinality(UpTo(m)) <= Cardinality(lines)
  <2>1. UpTo(m) \subseteq lines
    OBVIOUS
  <2>2. QED
    BY <1>2, <2>1, FS_Subset, FS_CardinalityType
<1>4. Cardinality(UpTo(l)) = TaskIndex(c, l) + 1 /\ TaskIndex(c, l) \in Nat
  <2>1. UpTo(l) = before \cup {l} /\ l \notin before
    BY <1>1
  <2>2. IsFiniteSet(before)
    <3>1. before \subseteq lines
      OBVIOUS
    <3>2. QED
      BY <1>2, <3>1, FS_Subset
  <2>3. Cardinality(UpTo(l)) = Cardinality(before) + 1 /\ Cardinality(before) \in Nat
    BY <2>1, <2>2, FS_AddElement, FS_CardinalityType
  <2>4. QED
    BY <2>3 DEF TaskIndex
<1>5. ASSUME NEW m \in lines, NEW n \in lines, m < n PROVE Cardinality(UpTo(m)) # Cardinality(UpTo(n))
  <2>1. UpTo(m) \subseteq UpTo(n)
    BY <1>1, <1>5
  <2>2. n \in UpTo(n) /\ n \notin UpTo(m)
    BY <1>1, <1>5
  <2>3. QED
    BY <1>3, <2>1, <2>2, FS_Subset
<1>6. \A m \in lines : Cardinality(UpTo(m)) = Cardinality(UpTo(l)) => m = l
  <2> HIDE DEF lines, UpTo
  <2>1. \A m \in lines : m < l \/ l < m \/ m = l
    BY <1>1
  <2>2. QED
    BY <1>1, <1>5, <2>1
<1>7. l = CHOOSE m \in lines : Cardinality(UpTo(m)) = TaskIndex(c, l) + 1
  BY <1>1, <1>4, <1>6
<1>8. TaskIndex(c, l) + 1 \in 1..Cardinality(lines)
  BY <1>1, <1>2, <1>3, <1>4
<1>9. extractTasksFromAst(c) = [n \in 1..Cardinality(lines) |-> CHOOSE m \in lines : Cardinality(UpTo(m)) = n]
  BY DEF extractTasksFromAst, InOrder
<1> HIDE DEF lines, UpTo
<1>10. Len(extractTasksFromAst(c)) = Cardinality(lines)
  BY <1>2, <1>9
<1>11. extractTasksFromAst(c)[TaskIndex(c, l) + 1] = l
  BY <1>7, <1>8, <1>9
<1>12. TaskIndex(c, l) < Len(extractTasksFromAst(c))
  BY <1>2, <1>4, <1>8, <1>10
<1>13. QED
  BY <1>4, <1>11, <1>12

LEMMA ToggleTouchesItsLine ==
  ASSUME NEW c \in Seq(Line), NEW l \in DOMAIN c, IsTask(c[l]), NEW checked \in BOOLEAN
  PROVE  toggleTaskAtIndex(c, TaskIndex(c, l), checked) = IF c[l].kind = "bullet" THEN Marked(c, l, checked) ELSE c
PROOF
<1>1. /\ TaskIndex(c, l) < Len(extractTasksFromAst(c))
      /\ extractTasksFromAst(c)[TaskIndex(c, l) + 1] = l
  BY TaskFound
<1>2. QED
  BY <1>1 DEF toggleTaskAtIndex

LEMMA MarksTyped ==
  ASSUME NEW c \in Seq(Line), NEW checked \in BOOLEAN
  PROVE  /\ \A l \in DOMAIN c : Marked(c, l, checked) \in Seq(Line)
         /\ setAllTaskMarkers(c, checked) \in Seq(Line)
PROOF
<1>1. ASSUME NEW l \in DOMAIN c PROVE c[l] \in Line /\ [c[l] EXCEPT !.checked = checked] \in Line
  <2>1. c[l] \in Line
    OBVIOUS
  <2>2. [c[l] EXCEPT !.checked = checked] \in Line
    BY <2>1 DEF Line
  <2>3. QED
    BY <2>1, <2>2
<1>2. \A l \in DOMAIN c : Marked(c, l, checked) \in Seq(Line)
  <2>1. TAKE l \in DOMAIN c
  <2>2. Marked(c, l, checked) = [c EXCEPT ![l] = [c[l] EXCEPT !.checked = checked]]
    BY DEF Marked
  <2>3. QED
    BY <1>1, <2>2
<1>3. setAllTaskMarkers(c, checked) \in Seq(Line)
  <2>1. DOMAIN c = 1..Len(c) /\ Len(c) \in Nat
    OBVIOUS
  <2>2. QED
    BY <1>1, <2>1 DEF setAllTaskMarkers
<1>4. QED
  BY <1>2, <1>3

LEMMA SecondPart ==
  ASSUME NEW R, NEW s \in Seq(R), NEW t \in Seq(R), NEW m \in (Len(s) + 1)..(Len(s) + Len(t))
  PROVE  (s \o t)[m] = t[m - Len(s)]
PROOF
OBVIOUS

LEMMA WithoutOne ==
  ASSUME NEW R, NEW s \in Seq(R), NEW n \in DOMAIN s
  PROVE  /\ RemoveAt(s, n) \in Seq(R) /\ Len(RemoveAt(s, n)) = Len(s) - 1
         /\ \A m \in 1..(Len(s) - 1) : RemoveAt(s, n)[m] = IF m < n THEN s[m] ELSE s[m + 1]
PROOF
<1> DEFINE a == SubSeq(s, 1, n - 1)
           b == SubSeq(s, n + 1, Len(s))
<1>1. n \in 1..Len(s) /\ Len(s) \in Nat
  OBVIOUS
<1>2. a \in Seq(R) /\ Len(a) = n - 1 /\ \A m \in 1..(n - 1) : a[m] = s[m]
  BY <1>1
<1>3. b \in Seq(R) /\ Len(b) = Len(s) - n /\ \A m \in 1..(Len(s) - n) : b[m] = s[m + n]
  BY <1>1
<1>4. RemoveAt(s, n) = a \o b
  BY DEF RemoveAt
<1> HIDE DEF a, b
<1>5. a \o b \in Seq(R) /\ Len(a \o b) = Len(s) - 1
  BY <1>1, <1>2, <1>3
<1>6. ASSUME NEW m \in 1..(Len(s) - 1) PROVE (a \o b)[m] = IF m < n THEN s[m] ELSE s[m + 1]
  <2>1. CASE m < n
    BY <1>1, <1>2, <1>3, <2>1
  <2>2. CASE ~(m < n)
    <3>0. m - (n - 1) \in 1..(Len(s) - n) /\ m \in (Len(a) + 1)..(Len(a) + Len(b))
      <4>1. Len(a) = n - 1 /\ Len(b) = Len(s) - n
        BY <1>2, <1>3
      <4>2. n \in Nat /\ m \in Nat /\ Len(s) \in Nat /\ 1 <= m /\ m <= Len(s) - 1 /\ n <= m
        BY <1>1, <2>2
      <4>3. QED
        BY <4>1, <4>2
    <3>1. (a \o b)[m] = b[m - (n - 1)]
      <4>1. (a \o b)[m] = b[m - Len(a)]
        BY <1>2, <1>3, <3>0, SecondPart
      <4>2. QED
        BY <1>2, <4>1
    <3>2. b[m - (n - 1)] = s[(m - (n - 1)) + n]
      BY <1>3, <3>0
    <3>3. (m - (n - 1)) + n = m + 1
      BY <1>1
    <3>4. QED
      BY <2>2, <3>1, <3>2, <3>3
  <2>3. QED
    BY <2>1, <2>2
<1>7. QED
  BY <1>4, <1>5, <1>6

LEMMA TasksInitially == TasksInit => TasksInv
PROOF
<1> SUFFICES ASSUME TasksInit PROVE TasksInv
  OBVIOUS
<1>1. content \in Seq(Line) /\ seen = content /\ intended = content /\ marking = <<>> /\ clicked = 0 /\ edits = 0 /\ overtaken = FALSE /\ missed = {}
  BY TaskAssumption DEF TasksInit
<1>2. TaskTypes
  <2>1. 0 \in 0..MaxClicks /\ 0 \in 0..MaxEdits
    BY TaskAssumption
  <2>2. <<>> \in Seq(Marking)
    OBVIOUS
  <2>3. QED
    BY <1>1, <2>1, <2>2 DEF TaskTypes
<1>3. LatestIsMeant
  BY <1>1 DEF LatestIsMeant, Sent, SameMarks
<1>4. QED
  BY <1>2, <1>3 DEF TasksInv

\* What is sent is what is meant, when it was made of what is meant.
LEMMA SendKeeps ==
  ASSUME TasksInv, NEW c \in Seq(Line), NEW meant \in Seq(Line), Send(c, meant), missed' \subseteq Nat,
         SameMarks(seen, intended, missed) => SameMarks(c, meant, missed')
  PROVE  TasksInv'
PROOF
<1> DEFINE new == [content |-> c, previous |-> seen, shown |-> FALSE, state |-> "sent"]
<1>1. TaskTypes /\ LatestIsMeant
  BY DEF TasksInv
<1>2. /\ clicked < MaxClicks /\ clicked' = clicked + 1 /\ marking' = Append(marking, new) /\ intended' = meant
      /\ overtaken' = (overtaken \/ ~SameMarks(seen, intended, missed)) /\ UNCHANGED <<content, seen, edits>>
  BY DEF Send
<1>3. new \in Marking /\ new.content = c /\ new.state = "sent"
  BY <1>1 DEF TaskTypes, Marking
<1> HIDE DEF new
<1>4. /\ marking' \in Seq(Marking) /\ Len(marking') = Len(marking) + 1 /\ Len(marking) \in Nat
      /\ marking'[Len(marking')] = new /\ \A n \in DOMAIN marking : marking'[n] = marking[n]
      /\ \A n \in DOMAIN marking' : n \in DOMAIN marking \/ n = Len(marking')
  BY <1>1, <1>2, <1>3 DEF TaskTypes
<1>5. TaskTypes'
  BY <1>1, <1>2, <1>4, TaskAssumption DEF TaskTypes
<1>6. ASSUME ~overtaken' PROVE /\ \A m, n \in DOMAIN marking' : m < n /\ marking'[m].state = "sent" => marking'[n].state = "sent"
                               /\ \E n \in DOMAIN marking' : marking'[n].state = "sent"
                               /\ SameMarks(marking'[Len(marking')].content, intended', missed')
  <2>1. ~overtaken /\ SameMarks(seen, intended, missed)
    BY <1>1, <1>2, <1>6 DEF TaskTypes
  <2>2. \A m, n \in DOMAIN marking : m < n /\ marking[m].state = "sent" => marking[n].state = "sent"
    BY <1>1, <2>1 DEF LatestIsMeant, Sent
  <2>3. \A m, n \in DOMAIN marking' : m < n /\ marking'[m].state = "sent" => marking'[n].state = "sent"
    BY <1>3, <1>4, <2>2
  <2>4. Len(marking') \in DOMAIN marking'
    BY <1>4
  <2>5. QED
    BY <1>2, <1>3, <1>4, <2>1, <2>3, <2>4
<1>7. LatestIsMeant'
  BY <1>6 DEF LatestIsMeant, Sent
<1>8. QED
  BY <1>5, <1>7 DEF TasksInv

\* A mark on both of two contents, or one on either that is not compared
LEMMA MarkedAlike ==
  ASSUME NEW c \in Seq(Line), NEW d \in Seq(Line), NEW M, SameMarks(c, d, M), NEW l \in DOMAIN c, NEW checked \in BOOLEAN
  PROVE  /\ SameMarks(Marked(c, l, checked), Marked(d, l, checked), M \ {l})
         /\ SameMarks(c, Marked(d, l, checked), M \cup {l})
PROOF
<1>1. DOMAIN c = DOMAIN d /\ \A k \in DOMAIN c : c[k] \in Line /\ d[k] \in Line
  BY DEF SameMarks
<1>2. ASSUME NEW a \in Seq(Line), DOMAIN a = DOMAIN c
      PROVE  /\ DOMAIN Marked(a, l, checked) = DOMAIN a
             /\ \A k \in DOMAIN a : /\ Marked(a, l, checked)[k].kind = a[k].kind
                                    /\ Marked(a, l, checked)[k].checked = IF k = l THEN checked ELSE a[k].checked
  <2> DEFINE new == [a[l] EXCEPT !.checked = checked]
  <2>1. a[l] \in Line
    BY <1>2
  <2>2. new.kind = a[l].kind /\ new.checked = checked
    BY <2>1 DEF Line
  <2>3. Marked(a, l, checked) = [a EXCEPT ![l] = new]
    BY DEF Marked
  <2> HIDE DEF new
  <2>4. QED
    BY <1>2, <2>2, <2>3
<1>3. QED
  BY <1>1, <1>2 DEF SameMarks, IsTask

LEMMA ClickTaskKeeps == ASSUME TasksInv, NEW l \in DOMAIN seen, ClickTask(l) PROVE TasksInv'
PROOF
<1> DEFINE checked == ~seen[l].checked
           c == toggleTaskAtIndex(seen, TaskIndex(seen, l), checked)
           meant == IF l \in DOMAIN intended THEN Marked(intended, l, checked) ELSE intended
<1>1. /\ seen \in Seq(Line) /\ intended \in Seq(Line) /\ IsTask(seen[l]) /\ Send(c, meant) /\ missed \subseteq Nat
      /\ missed' = IF seen[l].kind = "bullet" THEN missed \ {l} ELSE missed \cup {l}
  BY DEF TasksInv, TaskTypes, ClickTask
<1>2. checked \in BOOLEAN
  OBVIOUS
<1> HIDE DEF checked
<1>3. c = IF seen[l].kind = "bullet" THEN Marked(seen, l, checked) ELSE seen
  BY <1>1, <1>2, ToggleTouchesItsLine
<1>4. c \in Seq(Line) /\ meant \in Seq(Line) /\ missed' \subseteq Nat
  <2>1. l \in Nat
    BY <1>1
  <2>2. QED
    BY <1>1, <1>2, <1>3, <2>1, MarksTyped
<1>5. ASSUME SameMarks(seen, intended, missed) PROVE SameMarks(c, meant, missed')
  <2>1. l \in DOMAIN intended
    BY <1>5 DEF SameMarks
  <2>2. meant = Marked(intended, l, checked)
    BY <2>1
  <2>3. /\ SameMarks(Marked(seen, l, checked), Marked(intended, l, checked), missed \ {l})
        /\ SameMarks(seen, Marked(intended, l, checked), missed \cup {l})
    BY <1>1, <1>2, <1>5, MarkedAlike
  <2>4. QED
    BY <1>1, <1>3, <2>2, <2>3
<1> HIDE DEF c, meant
<1>6. QED
  BY <1>1, <1>4, <1>5, SendKeeps

LEMMA MarkAllKeeps == ASSUME TasksInv, NEW checked \in BOOLEAN, MarkAll(checked) PROVE TasksInv'
PROOF
<1> DEFINE c == setAllTaskMarkers(seen, checked)
           meant == [l \in DOMAIN intended |-> IF IsTask(intended[l]) THEN [intended[l] EXCEPT !.checked = checked] ELSE intended[l]]
<1>1. /\ seen \in Seq(Line) /\ intended \in Seq(Line) /\ Send(c, meant)
      /\ missed' = {l \in DOMAIN seen : seen[l].kind = "quoted"}
  BY DEF TasksInv, TaskTypes, MarkAll
<1>2. ASSUME NEW a \in Seq(Line), NEW l \in DOMAIN a
      PROVE  /\ a[l] \in Line /\ [a[l] EXCEPT !.checked = checked] \in Line
             /\ [a[l] EXCEPT !.checked = checked].kind = a[l].kind /\ [a[l] EXCEPT !.checked = checked].checked = checked
  <2>1. a[l] \in Line
    BY <1>2
  <2>2. QED
    BY <2>1 DEF Line
<1>3. c \in Seq(Line) /\ missed' \subseteq Nat
  BY <1>1, MarksTyped
<1>4. meant \in Seq(Line)
  <2>1. DOMAIN intended = 1..Len(intended) /\ Len(intended) \in Nat
    BY <1>1
  <2>2. \A l \in DOMAIN intended : (IF IsTask(intended[l]) THEN [intended[l] EXCEPT !.checked = checked] ELSE intended[l]) \in Line
    BY <1>1, <1>2
  <2>3. QED
    BY <2>1, <2>2
<1>5. ASSUME SameMarks(seen, intended, missed) PROVE SameMarks(c, meant, missed')
  <2>1. DOMAIN seen = DOMAIN intended /\ DOMAIN c = DOMAIN seen /\ DOMAIN meant = DOMAIN intended
        /\ \A l \in DOMAIN seen : seen[l].kind = intended[l].kind
    BY <1>5 DEF SameMarks, setAllTaskMarkers
  <2>2. ASSUME NEW l \in DOMAIN seen
        PROVE  c[l].kind = meant[l].kind /\ (IsTask(c[l]) /\ l \notin missed' => c[l].checked = meant[l].checked)
    <3>1. c[l] = IF seen[l].kind \in {"bullet", "number"} THEN [seen[l] EXCEPT !.checked = checked] ELSE seen[l]
      BY DEF setAllTaskMarkers
    <3>2. meant[l] = IF IsTask(intended[l]) THEN [intended[l] EXCEPT !.checked = checked] ELSE intended[l]
      BY <2>1
    <3>3. seen[l] \in Line /\ c[l].kind = seen[l].kind /\ (seen[l].kind \in {"bullet", "number"} => c[l].checked = checked)
      BY <1>1, <1>2, <3>1
    <3>4. meant[l].kind = seen[l].kind /\ (IsTask(intended[l]) => meant[l].checked = checked)
      BY <1>1, <1>2, <2>1, <3>2
    <3>5. seen[l].kind \in Kinds
      BY <3>3 DEF Line
    <3> HIDE DEF c, meant
    <3>6. QED
      BY <1>1, <2>1, <3>3, <3>4, <3>5 DEF IsTask, Kinds
  <2> HIDE DEF c, meant
  <2>3. QED
    BY <2>1, <2>2 DEF SameMarks
<1> HIDE DEF c, meant
<1>6. QED
  BY <1>1, <1>3, <1>4, <1>5, SendKeeps

\* An update that arrives before an earlier one overtakes it.
LEMMA MarkingKeeps ==
  ASSUME TasksInv, NEW n \in DOMAIN marking
  PROVE  /\ ShowMarked(n) => TasksInv'
         /\ WriteMarked(n) => TasksInv'
         /\ MarkedAnswered(n) => TasksInv'
         /\ MarkingFails(n) => TasksInv'
PROOF
<1>1. /\ TaskTypes /\ LatestIsMeant /\ marking \in Seq(Marking) /\ marking[n] \in Marking /\ Len(marking) \in Nat /\ n \in 1..Len(marking)
      /\ DOMAIN marking = 1..Len(marking)
  BY DEF TasksInv, TaskTypes
<1>2. ASSUME ShowMarked(n) PROVE TasksInv'
  <2> DEFINE new == [marking[n] EXCEPT !.shown = TRUE, !.previous = seen]
  <2>1. marking' = [marking EXCEPT ![n] = new] /\ seen' = marking[n].content /\ UNCHANGED <<content, clicked, edits, intended, missed, overtaken>>
    BY <1>1, <1>2 DEF ShowMarked
  <2>2. new \in Marking /\ new.content = marking[n].content /\ new.state = marking[n].state
    BY <1>1 DEF Marking, TaskTypes
  <2> HIDE DEF new
  <2>3. /\ marking' \in Seq(Marking) /\ Len(marking') = Len(marking) /\ DOMAIN marking' = DOMAIN marking
        /\ \A m \in DOMAIN marking : marking'[m].content = marking[m].content /\ marking'[m].state = marking[m].state
    BY <1>1, <2>1, <2>2
  <2>4. seen' \in Seq(Line)
    BY <1>1, <2>1 DEF Marking
  <2>5. TaskTypes'
    BY <1>1, <2>1, <2>3, <2>4 DEF TaskTypes
  <2>6. LatestIsMeant'
    <3>1. (\E m \in DOMAIN marking : Sent(m)) => marking'[Len(marking')].content = marking[Len(marking)].content
      BY <1>1, <2>3
    <3>2. QED
      BY <1>1, <2>1, <2>3, <3>1 DEF LatestIsMeant, Sent
  <2>7. QED
    BY <2>5, <2>6 DEF TasksInv
<1>3. ASSUME WriteMarked(n) PROVE TasksInv'
  <2> DEFINE new == [marking[n] EXCEPT !.state = "written"]
  <2>1. /\ marking[n].state = "sent" /\ content' = marking[n].content /\ marking' = [marking EXCEPT ![n] = new]
        /\ overtaken' = (overtaken \/ \E m \in 1..(n - 1) : marking[m].state = "sent") /\ UNCHANGED <<seen, clicked, edits, intended, missed>>
    BY <1>1, <1>3 DEF WriteMarked
  <2>2. new \in Marking /\ new.content = marking[n].content /\ new.state = "written"
    BY <1>1 DEF Marking
  <2> HIDE DEF new
  <2>3. /\ marking' \in Seq(Marking) /\ Len(marking') = Len(marking) /\ DOMAIN marking' = DOMAIN marking
        /\ \A m \in DOMAIN marking : marking'[m].content = marking[m].content
        /\ \A m \in DOMAIN marking : marking'[m].state = IF m = n THEN "written" ELSE marking[m].state
    BY <1>1, <2>1, <2>2
  <2>4. content' \in Seq(Line) /\ overtaken' \in BOOLEAN
    BY <1>1, <2>1 DEF Marking
  <2>5. TaskTypes'
    BY <1>1, <2>1, <2>3, <2>4 DEF TaskTypes
  <2>6. ASSUME ~overtaken'
        PROVE  /\ \A m, o \in DOMAIN marking' : m < o /\ marking'[m].state = "sent" => marking'[o].state = "sent"
               /\ IF \E m \in DOMAIN marking' : marking'[m].state = "sent" THEN SameMarks(marking'[Len(marking')].content, intended', missed')
                  ELSE SameMarks(content', intended', missed')
    <3>1. ~overtaken /\ \A m \in 1..(n - 1) : marking[m].state # "sent"
      BY <1>1, <2>1, <2>6 DEF TaskTypes
    <3>2. (\A m, o \in DOMAIN marking : m < o /\ marking[m].state = "sent" => marking[o].state = "sent") /\ SameMarks(marking[Len(marking)].content, intended, missed)
      BY <1>1, <2>1, <3>1 DEF LatestIsMeant, Sent
    <3>3. \A m, o \in DOMAIN marking' : m < o /\ marking'[m].state = "sent" => marking'[o].state = "sent"
      BY <1>1, <2>3, <3>1, <3>2
    <3>4. CASE n = Len(marking)
      BY <1>1, <2>1, <2>3, <3>1, <3>2, <3>3, <3>4
    <3>5. CASE n # Len(marking)
      <4>1. Len(marking) \in DOMAIN marking' /\ marking'[Len(marking)].state = "sent"
        BY <1>1, <2>1, <2>3, <3>2, <3>5
      <4>2. QED
        BY <2>1, <2>3, <3>2, <3>3, <4>1
    <3>6. QED
      BY <3>4, <3>5
  <2>7. LatestIsMeant'
    BY <2>6 DEF LatestIsMeant, Sent
  <2>8. QED
    BY <2>5, <2>7 DEF TasksInv
<1>4. /\ RemoveAt(marking, n) \in Seq(Marking) /\ Len(RemoveAt(marking, n)) = Len(marking) - 1
      /\ \A m \in 1..(Len(marking) - 1) : RemoveAt(marking, n)[m] = IF m < n THEN marking[m] ELSE marking[m + 1]
  BY <1>1, WithoutOne
<1>5. ASSUME MarkedAnswered(n) PROVE TasksInv'
  <2>1. marking[n].state = "written" /\ seen' = marking[n].content /\ marking' = RemoveAt(marking, n) /\ UNCHANGED <<content, clicked, edits, intended, missed, overtaken>>
    BY <1>5 DEF MarkedAnswered
  <2>2. seen' \in Seq(Line)
    BY <1>1, <2>1 DEF Marking
  <2>3. TaskTypes'
    BY <1>1, <1>4, <2>1, <2>2 DEF TaskTypes
  <2>4. DOMAIN marking' = 1..(Len(marking) - 1) /\ Len(marking') = Len(marking) - 1
    BY <1>4, <2>1
  <2>5. ASSUME ~overtaken'
        PROVE  /\ \A m, o \in DOMAIN marking' : m < o /\ marking'[m].state = "sent" => marking'[o].state = "sent"
               /\ IF \E m \in DOMAIN marking' : marking'[m].state = "sent" THEN SameMarks(marking'[Len(marking')].content, intended', missed')
                  ELSE SameMarks(content', intended', missed')
    <3>1. /\ ~overtaken /\ \A m, o \in DOMAIN marking : m < o /\ marking[m].state = "sent" => marking[o].state = "sent"
          /\ IF \E m \in DOMAIN marking : marking[m].state = "sent" THEN SameMarks(marking[Len(marking)].content, intended, missed) ELSE SameMarks(content, intended, missed)
      BY <1>1, <2>1, <2>5 DEF LatestIsMeant, Sent
    <3>2. \A m \in DOMAIN marking' : marking'[m] = IF m < n THEN marking[m] ELSE marking[m + 1]
      BY <1>4, <2>1, <2>4
    <3>3. \A m, o \in DOMAIN marking' : m < o /\ marking'[m].state = "sent" => marking'[o].state = "sent"
      <4>1. SUFFICES ASSUME NEW m \in DOMAIN marking', NEW o \in DOMAIN marking', m < o, marking'[m].state = "sent"
                     PROVE  marking'[o].state = "sent"
        OBVIOUS
      <4>2. PICK x \in DOMAIN marking, y \in DOMAIN marking : x < y /\ marking'[m] = marking[x] /\ marking'[o] = marking[y]
        <5> DEFINE x == IF m < n THEN m ELSE m + 1
                   y == IF o < n THEN o ELSE o + 1
        <5>1. x \in DOMAIN marking /\ y \in DOMAIN marking /\ x < y
          BY <1>1, <2>4, <4>1
        <5>2. marking'[m] = marking[x] /\ marking'[o] = marking[y]
          BY <3>2
        <5>3. QED
          BY <5>1, <5>2
      <4>3. QED
        BY <3>1, <4>1, <4>2
    <3>4. CASE \E m \in DOMAIN marking' : marking'[m].state = "sent"
      <4>1. PICK m \in DOMAIN marking' : marking'[m].state = "sent"
        BY <3>4
      <4>2. PICK x \in DOMAIN marking : marking[x].state = "sent"
        <5>1. m \in DOMAIN marking /\ m + 1 \in DOMAIN marking
          BY <1>1, <2>4
        <5>2. QED
          BY <3>2, <4>1, <5>1
      <4>3. marking[Len(marking)].state = "sent"
        BY <1>1, <3>1, <4>2
      <4>4. n # Len(marking)
        BY <2>1, <4>3
      <4>5. Len(marking') \in DOMAIN marking' /\ ~(Len(marking') < n) /\ Len(marking') + 1 = Len(marking)
        BY <1>1, <2>4, <4>1, <4>4
      <4>6. marking'[Len(marking')] = marking[Len(marking)]
        BY <3>2, <4>5
      <4>7. QED
        BY <2>1, <3>1, <3>3, <3>4, <4>2, <4>6
    <3>5. CASE ~ \E m \in DOMAIN marking' : marking'[m].state = "sent"
      <4>1. ASSUME NEW x \in DOMAIN marking, marking[x].state = "sent" PROVE FALSE
        <5>1. CASE x < n
          <6>1. x \in DOMAIN marking' /\ marking'[x] = marking[x]
            BY <1>1, <2>4, <3>2, <5>1
          <6>2. QED
            BY <3>5, <4>1, <6>1
        <5>2. CASE x > n
          <6>1. x - 1 \in DOMAIN marking' /\ ~(x - 1 < n) /\ (x - 1) + 1 = x
            BY <1>1, <2>4, <5>2
          <6>2. marking'[x - 1] = marking[x]
            BY <3>2, <6>1
          <6>3. QED
            BY <3>5, <4>1, <6>1, <6>2
        <5>3. QED
          BY <1>1, <2>1, <4>1, <5>1, <5>2
      <4>2. QED
        BY <2>1, <3>1, <3>3, <3>5, <4>1
    <3>6. QED
      BY <3>4, <3>5
  <2>6. LatestIsMeant'
    BY <2>5 DEF LatestIsMeant, Sent
  <2>7. QED
    BY <2>3, <2>6 DEF TasksInv
<1>6. ASSUME MarkingFails(n) PROVE TasksInv'
  <2>1. /\ seen' = marking[n].previous /\ marking' = RemoveAt(marking, n) /\ intended' = content /\ missed' = {}
        /\ overtaken' = (overtaken \/ Len(marking) > 1) /\ UNCHANGED <<content, clicked, edits>>
    BY <1>6 DEF MarkingFails
  <2>2. seen' \in Seq(Line) /\ overtaken' \in BOOLEAN
    BY <1>1, <2>1 DEF Marking
  <2>3. TaskTypes'
    BY <1>1, <1>4, <2>1, <2>2 DEF TaskTypes
  <2>4. ~overtaken' => ~(Len(marking) > 1)
    BY <2>1
  <2>5. ~(Len(marking) > 1) => \A m \in DOMAIN marking' : FALSE
    BY <1>1, <1>4, <2>1
  <2>6. LatestIsMeant'
    BY <2>1, <2>4, <2>5 DEF LatestIsMeant, Sent, SameMarks
  <2>7. QED
    BY <2>3, <2>6 DEF TasksInv
<1>7. QED
  BY <1>2, <1>3, <1>5, <1>6

LEMMA TasksStep == TasksInv /\ [TasksNext]_taskVars => TasksInv'
PROOF
<1> SUFFICES ASSUME TasksInv, [TasksNext]_taskVars PROVE TasksInv'
  OBVIOUS
<1>1. TaskTypes /\ LatestIsMeant
  BY DEF TasksInv
<1>2. CASE \E l \in DOMAIN seen : ClickTask(l)
  BY <1>2, ClickTaskKeeps
<1>3. CASE \E checked \in BOOLEAN : MarkAll(checked)
  BY <1>3, MarkAllKeeps
<1>4. CASE \E n \in DOMAIN marking : ShowMarked(n) \/ WriteMarked(n) \/ MarkedAnswered(n) \/ MarkingFails(n)
  BY <1>4, MarkingKeeps
<1>5. CASE Refreshed
  <2>1. seen' = content /\ UNCHANGED <<content, marking, clicked, edits, intended, missed, overtaken>>
    BY <1>5 DEF Refreshed
  <2>2. QED
    BY <1>1, <2>1 DEF TasksInv, TaskTypes, LatestIsMeant, Sent
<1>6. CASE EditElsewhere
  <2>1. /\ edits < MaxEdits /\ edits' = edits + 1 /\ intended' = content' /\ missed' = {} /\ UNCHANGED <<seen, marking, clicked>>
        /\ overtaken' = (overtaken \/ \E n \in DOMAIN marking : marking[n].state = "sent")
    BY <1>6 DEF EditElsewhere
  <2>2. content' \in Seq(Line)
    <3>1. CASE \E l \in DOMAIN content : content' = Marked(content, l, ~content[l].checked)
      <4>1. PICK l \in DOMAIN content : content' = Marked(content, l, ~content[l].checked)
        BY <3>1
      <4>2. content \in Seq(Line)
        BY <1>1 DEF TaskTypes
      <4>3. (~content[l].checked) \in BOOLEAN
        OBVIOUS
      <4>4. QED
        BY <4>1, <4>2, <4>3, MarksTyped
    <3>2. CASE \E line \in Line : content' = <<line>> \o content
      BY <1>1, <3>2 DEF TaskTypes
    <3>3. QED
      BY <1>6, <3>1, <3>2 DEF EditElsewhere
  <2>3. TaskTypes'
    BY <1>1, <2>1, <2>2, TaskAssumption DEF TaskTypes
  <2>4. LatestIsMeant'
    BY <1>1, <2>1 DEF LatestIsMeant, Sent, TaskTypes, SameMarks
  <2>5. QED
    BY <2>3, <2>4 DEF TasksInv
<1>7. CASE UNCHANGED taskVars
  BY <1>1, <1>7 DEF taskVars, TasksInv, TaskTypes, LatestIsMeant, Sent
<1>8. QED
  BY <1>2, <1>3, <1>4, <1>5, <1>6, <1>7 DEF TasksNext

\* Types: what the contents and the updates under way hold.
THEOREM TaskTypesCorrect == TasksSpec => []TasksTypeOK
PROOF
<1>1. TasksInv => TasksTypeOK
  <2> SUFFICES ASSUME TasksInv PROVE TasksTypeOK
    OBVIOUS
  <2>1. \A n \in DOMAIN marking : marking[n] \in Marking
    BY DEF TasksInv, TaskTypes
  <2>2. QED
    BY <2>1 DEF TasksInv, TaskTypes, TasksTypeOK, Marking
<1>2. QED
  BY <1>1, TasksInitially, TasksStep, PTL DEF TasksSpec

\* Each checkbox changes the line it is shown beside (web/src/utils/markdown-manipulation.ts)
\* or none, and updates that are sent one after the other and arrive in order leave on
\* the server the lines that there were and the marks that were clicked, whatever the
\* contents and the number of clicks, apart from those on the kinds of task that the
\* last click there does not heed: a single click heeds no number and no quotation, and
\* "check all" no quotation.
THEOREM MarksComeOut == TasksSpec => []MarksAreWhatWasClicked
PROOF
<1>1. TasksInv => MarksAreWhatWasClicked
  BY DEF TasksInv, LatestIsMeant, Sent, MarksAreWhatWasClicked
<1>2. QED
  BY <1>1, TasksInitially, TasksStep, PTL DEF TasksSpec

-----------------------------------------------------------------------------
\* A file as the lists have it
Listing ==
    [name : {f.name : f \in Available}, type : {f.type : f \in Available},
     group : {NoGroup} \cup ({f.stem : f \in Available} \X SUBSET Available)]

\* Two files of one group, a picture and a film, and no third
Mates(S, f) == {g \in S : g = f \/ (f.group # NoGroup /\ g.group = f.group)}

PairedUp(S) ==
    \A f \in S : f.group # NoGroup => \E g \in S : IsImage(g) # IsImage(f) /\ Mates(S, f) = {f, g}

ListedOnce(list) == \A i, j \in DOMAIN list : list[i].name = list[j].name => i = j

Orderly(list) == list \in Seq(Listing) /\ ListedOnce(list) /\ PairedUp(FilesOf(list))

\* Items of two files at most, each file in one place
ItemsApart(items) ==
    /\ items \in Seq(Seq(Listing))
    /\ \A k \in DOMAIN items : Len(items[k]) \in 1..2
    /\ \A k, l \in DOMAIN items : \A m \in DOMAIN items[k], n \in DOMAIN items[l] :
           items[k][m].name = items[l][n].name => k = l /\ m = n

FilesIn(items) == UNION {FilesOf(items[k]) : k \in DOMAIN items}

\* An item has its file, and the other half of a live photo.
LEMMA ItemIsMates ==
  ASSUME NEW list, Orderly(list), NEW f \in FilesOf(list)
  PROVE  /\ Item(list, f) \in Seq(Listing) /\ Len(Item(list, f)) \in 1..2
         /\ FilesOf(Item(list, f)) = Mates(FilesOf(list), f)
         /\ \A m, n \in DOMAIN Item(list, f) : Item(list, f)[m] = Item(list, f)[n] => m = n
         /\ f.group # NoGroup => Len(Item(list, f)) = 2
         /\ \A g \in Mates(FilesOf(list), f) : Item(list, g) = Item(list, f)
PROOF
<1> DEFINE S == FilesOf(list)
           still(g) == {h \in S : h.group = g.group /\ IsImage(h)}
           video(g) == {h \in S : h.group = g.group /\ ~IsImage(h)}
<1>1. S \subseteq Listing /\ PairedUp(S)
  BY DEF Orderly, FilesOf
<1>2. \A g \in S : Item(list, g) = IF g.group # NoGroup /\ Cardinality(still(g)) = 1 /\ Cardinality(video(g)) = 1
                                   THEN <<CHOOSE h \in still(g) : TRUE, CHOOSE h \in video(g) : TRUE>> ELSE <<g>>
  BY DEF Item
<1>3. CASE f.group = NoGroup
  <2>1. Item(list, f) = <<f>>
    BY <1>2, <1>3
  <2>2. Mates(S, f) = {f}
    BY <1>3 DEF Mates
  <2>3. <<f>> \in Seq(Listing) /\ Len(<<f>>) = 1 /\ DOMAIN <<f>> = {1} /\ <<f>>[1] = f
    BY <1>1
  <2>4. FilesOf(<<f>>) = {f}
    BY <2>3 DEF FilesOf
  <2> HIDE DEF S
  <2>5. QED
    BY <1>3, <2>1, <2>2, <2>3, <2>4 DEF S
<1>4. CASE f.group # NoGroup
  <2>1. PICK g \in S : IsImage(g) # IsImage(f) /\ Mates(S, f) = {f, g}
    BY <1>1, <1>4 DEF PairedUp
  <2>2. g \in Mates(S, f)
    BY <2>1
  <2>3. g.group = f.group /\ \A h \in S : h.group = f.group <=> h = f \/ h = g
    BY <1>4, <2>1, <2>2 DEF Mates
  <2>4. PICK p \in {f, g}, v \in {f, g} : IsImage(p) /\ ~IsImage(v)
    BY <2>1 DEF IsImage
  <2>5. {p, v} = {f, g} /\ p # v
    BY <2>1, <2>4
  <2>6. \A h \in {f, g} : still(h) = {p} /\ video(h) = {v}
    BY <1>1, <2>1, <2>3, <2>4, <2>5
  <2>7. \A h \in {f, g} : Item(list, h) = <<p, v>>
    <3>1. \A h \in {f, g} : Cardinality(still(h)) = 1 /\ Cardinality(video(h)) = 1
      BY <2>6, FS_Singleton
    <3>2. \A h \in {f, g} : (CHOOSE x \in still(h) : TRUE) = p /\ (CHOOSE x \in video(h) : TRUE) = v
      BY <2>6
    <3>3. \A h \in {f, g} : h \in S /\ h.group # NoGroup
      BY <1>4, <2>3
    <3> HIDE DEF still, video, S
    <3>4. QED
      BY <1>2, <3>1, <3>2, <3>3
  <2>8. <<p, v>> \in Seq(Listing) /\ Len(<<p, v>>) = 2 /\ DOMAIN <<p, v>> = {1, 2} /\ <<p, v>>[1] = p /\ <<p, v>>[2] = v
    BY <1>1, <2>4
  <2>9. FilesOf(<<p, v>>) = {p, v}
    BY <2>8 DEF FilesOf
  <2> HIDE DEF S
  <2>10. Item(list, f) = <<p, v>> /\ \A h \in Mates(S, f) : Item(list, h) = <<p, v>>
    BY <2>1, <2>7
  <2>11. \A m, n \in DOMAIN <<p, v>> : <<p, v>>[m] = <<p, v>>[n] => m = n
    BY <2>5, <2>8
  <2> DEFINE pair == <<p, v>>
  <2>12. pair \in Seq(Listing) /\ Len(pair) = 2 /\ FilesOf(pair) = Mates(S, f)
    BY <2>1, <2>5, <2>8, <2>9
  <2> HIDE DEF pair
  <2>13. QED
    BY <2>10, <2>11, <2>12 DEF S, pair
<1>5. QED
  BY <1>3, <1>4

\* The items of a list have its files, each once.
LEMMA ItemsHaveTheFiles ==
  ASSUME NEW list, Orderly(list)
  PROVE  /\ ItemsApart(Items(list))
         /\ FilesIn(Items(list)) = FilesOf(list)
         /\ \A k \in DOMAIN Items(list) : \E f \in FilesOf(list) : Items(list)[k] = Item(list, f)
PROOF
<1> DEFINE item == [i \in DOMAIN list |-> Item(list, list[i])]
           first == {i \in DOMAIN list : \A j \in 1..(i - 1) : item[j] # item[i]}
           S == FilesOf(list)
           its == Chosen(item, first)
           at == InOrder(first)
<1>0. Items(list) = its
  BY DEF Items
<1>1. list \in Seq(Listing) /\ DOMAIN list = 1..Len(list) /\ Len(list) \in Nat
  BY DEF Orderly
<1>2. \A i \in DOMAIN list : list[i] \in S
  BY DEF FilesOf
<1>3. \A f \in S : \E i \in DOMAIN list : f = list[i]
  BY DEF FilesOf
<1>4. \A i \in DOMAIN list : item[i] = Item(list, list[i]) /\ item[i] \in Seq(Listing)
  BY <1>2, ItemIsMates
<1>5. item \in Seq(Seq(Listing)) /\ DOMAIN item = DOMAIN list
  <2>1. item \in [1..Len(list) -> Seq(Listing)]
    BY <1>1, <1>4
  <2>2. QED
    BY <1>1, <2>1, NumberedIsSeq
<1> HIDE DEF item, S
<1>6. /\ its \in Seq(Seq(Listing)) /\ at \in [DOMAIN its -> first]
      /\ \A n \in DOMAIN its : its[n] = item[at[n]]
      /\ \A m, n \in DOMAIN its : at[m] = at[n] => m = n
      /\ \A i \in first : \E n \in DOMAIN its : at[n] = i
  <2>1. first \in SUBSET DOMAIN item
    BY <1>5
  <2> DEFINE R == Seq(Listing)
  <2>2. item \in Seq(R)
    BY <1>5
  <2> HIDE DEF first, R
  <2>3. /\ Chosen(item, first) \in Seq(R) /\ InOrder(first) \in [DOMAIN Chosen(item, first) -> first]
        /\ \A n \in DOMAIN Chosen(item, first) : Chosen(item, first)[n] = item[InOrder(first)[n]]
        /\ \A m, n \in DOMAIN Chosen(item, first) : InOrder(first)[m] = InOrder(first)[n] => m = n
        /\ \A i \in first : \E n \in DOMAIN Chosen(item, first) : InOrder(first)[n] = i
    BY <2>1, <2>2, ChosenElements
  <2>4. QED
    BY <2>3 DEF R
<1>7. \A i, j \in first : item[i] = item[j] => i = j
  BY <1>1
<1>8. ASSUME NEW i \in DOMAIN list PROVE \E n \in DOMAIN its : its[n] = item[i]
  <2> DEFINE same == {j \in DOMAIN list : item[j] = item[i]}
  <2>1. same \in SUBSET Nat /\ i \in same
    BY <1>1
  <2>2. PICK j \in same : \A k \in same : j <= k
    BY <2>1, Smallest
  <2>3. j \in first
    BY <1>1, <2>2
  <2> HIDE DEF first
  <2>4. QED
    BY <1>6, <2>2, <2>3
<1> HIDE DEF its, at
<1>9. first \subseteq DOMAIN list
  OBVIOUS
<1> HIDE DEF first
<1>10. ASSUME NEW k \in DOMAIN its
       PROVE  \E f \in S : /\ its[k] = Item(list, f) /\ Len(its[k]) \in 1..2 /\ FilesOf(its[k]) = Mates(S, f)
                           /\ \A m, n \in DOMAIN its[k] : its[k][m] = its[k][n] => m = n
                           /\ \A g \in Mates(S, f) : Item(list, g) = its[k]
  <2>1. at[k] \in DOMAIN list
    BY <1>6, <1>9
  <2>2. its[k] = Item(list, list[at[k]]) /\ list[at[k]] \in S
    BY <1>2, <1>4, <1>6, <2>1
  <2>3. QED
    BY <2>2, ItemIsMates DEF S
<1>11. ASSUME NEW k \in DOMAIN its, NEW l \in DOMAIN its, its[k] = its[l] PROVE k = l
  BY <1>6, <1>7, <1>11
<1>12. \A f, g \in S : f.name = g.name => f = g
  BY <1>3 DEF Orderly, ListedOnce
<1>13. ASSUME NEW k \in DOMAIN its, NEW l \in DOMAIN its, NEW m \in DOMAIN its[k], NEW n \in DOMAIN its[l],
              its[k][m].name = its[l][n].name
       PROVE  k = l /\ m = n
  <2>1. PICK f \in S : FilesOf(its[k]) = Mates(S, f) /\ (\A x, y \in DOMAIN its[k] : its[k][x] = its[k][y] => x = y)
                       /\ \A g \in Mates(S, f) : Item(list, g) = its[k]
    BY <1>10
  <2>2. PICK h \in S : FilesOf(its[l]) = Mates(S, h) /\ \A g \in Mates(S, h) : Item(list, g) = its[l]
    BY <1>10
  <2>3. its[k][m] \in Mates(S, f) /\ its[l][n] \in Mates(S, h)
    <3>1. its[k][m] \in FilesOf(its[k]) /\ its[l][n] \in FilesOf(its[l])
      BY DEF FilesOf
    <3>2. QED
      BY <2>1, <2>2, <3>1
  <2>4. its[k][m] \in S /\ its[l][n] \in S
    BY <2>3 DEF Mates
  <2>5. its[k][m] = its[l][n]
    BY <1>12, <1>13, <2>4
  <2>6. its[k] = its[l]
    BY <2>1, <2>2, <2>3, <2>5
  <2>7. k = l
    BY <1>11, <2>6
  <2>8. QED
    BY <2>1, <2>5, <2>7
<1>14. ItemsApart(its)
  <2>1. \A k \in DOMAIN its : Len(its[k]) \in 1..2
    BY <1>10
  <2>2. QED
    BY <1>6, <1>13, <2>1 DEF ItemsApart
<1>15. FilesIn(its) = S
  <2>1. ASSUME NEW k \in DOMAIN its, NEW g \in FilesOf(its[k]) PROVE g \in S
    BY <1>10 DEF Mates
  <2>2. ASSUME NEW g \in S PROVE \E k \in DOMAIN its : g \in FilesOf(its[k])
    <3>1. PICK i \in DOMAIN list : g = list[i]
      BY <1>3
    <3>2. PICK n \in DOMAIN its : its[n] = Item(list, g)
      BY <1>4, <1>8, <3>1
    <3>3. FilesOf(Item(list, g)) = Mates(S, g)
      BY ItemIsMates DEF S
    <3>4. QED
      BY <3>2, <3>3 DEF Mates
  <2>3. QED
    BY <2>1, <2>2 DEF FilesIn
<1>16. \A k \in DOMAIN its : \E f \in S : its[k] = Item(list, f)
  BY <1>10
<1>17. QED
  BY <1>0, <1>14, <1>15, <1>16 DEF S

\* The files of two lists, one after the other
LEMMA FilesOfBoth ==
  ASSUME NEW R, NEW s \in Seq(R), NEW t \in Seq(R)
  PROVE  FilesOf(s \o t) = FilesOf(s) \cup FilesOf(t)
PROOF
<1>1. ASSUME NEW f \in FilesOf(s) PROVE f \in FilesOf(s \o t)
  <2>1. PICK n \in DOMAIN s : f = s[n]
    BY DEF FilesOf
  <2>2. n \in DOMAIN (s \o t) /\ (s \o t)[n] = s[n]
    BY TwoParts
  <2>3. QED
    BY <2>1, <2>2 DEF FilesOf
<1>2. ASSUME NEW f \in FilesOf(t) PROVE f \in FilesOf(s \o t)
  <2>1. PICK n \in DOMAIN t : f = t[n]
    BY DEF FilesOf
  <2>2. Len(s) + n \in DOMAIN (s \o t) /\ (s \o t)[Len(s) + n] = t[n]
    BY TwoParts
  <2>3. QED
    BY <2>1, <2>2 DEF FilesOf
<1>3. ASSUME NEW f \in FilesOf(s \o t) PROVE f \in FilesOf(s) \cup FilesOf(t)
  <2>1. PICK n \in DOMAIN (s \o t) : f = (s \o t)[n]
    BY DEF FilesOf
  <2>2. \/ n \in DOMAIN s /\ (s \o t)[n] = s[n]
        \/ n - Len(s) \in DOMAIN t /\ (s \o t)[n] = t[n - Len(s)]
    BY TwoParts
  <2>3. QED
    BY <2>1, <2>2 DEF FilesOf
<1>4. QED
  BY <1>1, <1>2, <1>3

LEMMA OnceInBoth ==
  ASSUME NEW s \in Seq(Listing), NEW t \in Seq(Listing), ListedOnce(s), ListedOnce(t),
         \A f \in FilesOf(s), g \in FilesOf(t) : f.name # g.name
  PROVE  ListedOnce(s \o t)
PROOF
<1> SUFFICES ASSUME NEW i \in DOMAIN (s \o t), NEW j \in DOMAIN (s \o t), (s \o t)[i].name = (s \o t)[j].name PROVE i = j
  BY DEF ListedOnce
<1>0. i \in Int /\ j \in Int /\ Len(s) \in Int
  BY TwoParts
<1>1. ASSUME NEW n \in DOMAIN (s \o t)
      PROVE  \/ n \in DOMAIN s /\ (s \o t)[n] = s[n] /\ s[n] \in FilesOf(s)
             \/ n - Len(s) \in DOMAIN t /\ (s \o t)[n] = t[n - Len(s)] /\ t[n - Len(s)] \in FilesOf(t)
  BY TwoParts DEF FilesOf
<1>2. CASE i \in DOMAIN s /\ (s \o t)[i] = s[i] /\ s[i] \in FilesOf(s)
  <2>1. CASE j \in DOMAIN s /\ (s \o t)[j] = s[j]
    BY <1>2, <2>1 DEF ListedOnce
  <2>2. CASE (s \o t)[j] = t[j - Len(s)] /\ t[j - Len(s)] \in FilesOf(t)
    BY <1>2, <2>2
  <2>3. QED
    BY <1>1, <2>1, <2>2
<1>3. CASE i - Len(s) \in DOMAIN t /\ (s \o t)[i] = t[i - Len(s)] /\ t[i - Len(s)] \in FilesOf(t)
  <2>1. CASE j \in DOMAIN s /\ (s \o t)[j] = s[j] /\ s[j] \in FilesOf(s)
    BY <1>3, <2>1
  <2>2. CASE j - Len(s) \in DOMAIN t /\ (s \o t)[j] = t[j - Len(s)]
    <3>1. i - Len(s) = j - Len(s)
      BY <1>3, <2>2 DEF ListedOnce
    <3>2. QED
      BY <1>0, <3>1
  <2>3. QED
    BY <1>1, <2>1, <2>2
<1>4. QED
  BY <1>1, <1>2, <1>3

\* A piece of a list that leaves no live photo in halves is as orderly.
LEMMA OrderlyPart ==
  ASSUME NEW list, Orderly(list), NEW S \in SUBSET DOMAIN list,
         \A f, g \in FilesOf(list) : f \in {list[i] : i \in S} /\ f.group # NoGroup /\ g.group = f.group => g \in {list[i] : i \in S}
  PROVE  Orderly(Chosen(list, S)) /\ FilesOf(Chosen(list, S)) = {list[i] : i \in S}
PROOF
<1> DEFINE piece == Chosen(list, S)
           F == {list[i] : i \in S}
<1>1. list \in Seq(Listing)
  BY DEF Orderly
<1>2. /\ piece \in Seq(Listing) /\ InOrder(S) \in [DOMAIN piece -> S]
      /\ \A n \in DOMAIN piece : piece[n] = list[InOrder(S)[n]]
      /\ \A m, n \in DOMAIN piece : InOrder(S)[m] = InOrder(S)[n] => m = n
      /\ \A i \in S : \E n \in DOMAIN piece : InOrder(S)[n] = i
  BY <1>1, ChosenElements
<1> HIDE DEF piece
<1>3. FilesOf(piece) = F
  <2>1. ASSUME NEW n \in DOMAIN piece PROVE piece[n] \in F
    BY <1>2
  <2>2. ASSUME NEW i \in S PROVE \E n \in DOMAIN piece : piece[n] = list[i]
    BY <1>2
  <2>3. QED
    BY <2>1, <2>2 DEF FilesOf
<1>4. ListedOnce(piece)
  <2> SUFFICES ASSUME NEW m \in DOMAIN piece, NEW n \in DOMAIN piece, piece[m].name = piece[n].name PROVE m = n
    BY DEF ListedOnce
  <2>1. InOrder(S)[m] \in DOMAIN list /\ InOrder(S)[n] \in DOMAIN list
    BY <1>2
  <2>2. InOrder(S)[m] = InOrder(S)[n]
    BY <1>2, <2>1 DEF Orderly, ListedOnce
  <2>3. QED
    BY <1>2, <2>2
<1>5. PairedUp(F)
  <2> SUFFICES ASSUME NEW f \in F, f.group # NoGroup PROVE \E g \in F : IsImage(g) # IsImage(f) /\ Mates(F, f) = {f, g}
    BY DEF PairedUp
  <2>1. F \subseteq FilesOf(list)
    BY DEF FilesOf
  <2>2. PICK g \in FilesOf(list) : IsImage(g) # IsImage(f) /\ Mates(FilesOf(list), f) = {f, g}
    BY <2>1 DEF Orderly, PairedUp
  <2>3. g.group = f.group
    <3>1. g \in Mates(FilesOf(list), f)
      BY <2>2
    <3>2. QED
      BY <3>1 DEF Mates
  <2>4. g \in F
    BY <2>1, <2>3
  <2>5. Mates(F, f) = {f, g}
    BY <2>1, <2>2, <2>3, <2>4 DEF Mates
  <2>6. QED
    BY <2>2, <2>4, <2>5
<1>6. QED
  BY <1>2, <1>3, <1>4, <1>5 DEF Orderly, piece

\* What is shown of a list, in two parts of which the second has no live photos: items apart, of the files of the
\* parts, each with the mates of its files.
LEMMA ItemsOfBoth ==
  ASSUME NEW list, Orderly(list), NEW S \in SUBSET DOMAIN list, NEW T \in SUBSET DOMAIN list, S \cap T = {},
         \A i \in DOMAIN list : list[i].group # NoGroup => i \in S
  PROVE  LET items == Items(Chosen(list, S)) \o Items(Chosen(list, T)) IN
         /\ ItemsApart(items)
         /\ FilesIn(items) = {list[i] : i \in S \cup T}
         /\ \A k \in DOMAIN items : \A f \in FilesOf(items[k]) : FilesOf(items[k]) = Mates(FilesOf(list), f)
         /\ \A f \in FilesOf(list) : f.group # NoGroup => \E k \in DOMAIN items : f \in FilesOf(items[k]) /\ Len(items[k]) = 2
PROOF
<1> DEFINE F(P) == {list[i] : i \in P}
           its(P) == Items(Chosen(list, P))
           items == its(S) \o its(T)
<1>1. \A f \in FilesOf(list) : \E i \in DOMAIN list : f = list[i]
  BY DEF FilesOf
<1>2. /\ Orderly(Chosen(list, S)) /\ FilesOf(Chosen(list, S)) = F(S)
      /\ Orderly(Chosen(list, T)) /\ FilesOf(Chosen(list, T)) = F(T)
  <2>1. \A f, g \in FilesOf(list) : f \in F(S) /\ f.group # NoGroup /\ g.group = f.group => g \in F(S)
    BY <1>1
  <2>2. \A i, j \in DOMAIN list : list[i] = list[j] => i = j
    BY DEF Orderly, ListedOnce
  <2>3. \A f \in F(T) : f.group = NoGroup
    OBVIOUS
  <2>4. QED
    BY <2>1, <2>3, OrderlyPart
<1>3. ASSUME NEW P \in {S, T}
      PROVE  /\ ItemsApart(its(P)) /\ FilesIn(its(P)) = F(P)
             /\ \A k \in DOMAIN its(P) : \E f \in F(P) : its(P)[k] = Item(Chosen(list, P), f)
  BY <1>2, ItemsHaveTheFiles
<1>4. ASSUME NEW P \in {S, T}, NEW f \in F(P) PROVE Mates(F(P), f) = Mates(FilesOf(list), f)
  <2>1. F(P) \subseteq FilesOf(list)
    BY DEF FilesOf
  <2>2. ASSUME NEW g \in FilesOf(list), f.group # NoGroup, g.group = f.group PROVE g \in F(P)
    <3>1. P = S
      BY <2>2
    <3>2. QED
      BY <1>1, <2>2, <3>1
  <2>3. QED
    BY <2>1, <2>2 DEF Mates
<1>5. ASSUME NEW P \in {S, T}, NEW k \in DOMAIN its(P), NEW f \in FilesOf(its(P)[k])
      PROVE  f \in F(P) /\ FilesOf(its(P)[k]) = Mates(FilesOf(list), f) /\ (f.group # NoGroup => Len(its(P)[k]) = 2)
  <2>1. PICK g \in F(P) : its(P)[k] = Item(Chosen(list, P), g)
    BY <1>3
  <2>2. FilesOf(its(P)[k]) = Mates(F(P), g) /\ (g.group # NoGroup => Len(its(P)[k]) = 2)
        /\ \A h \in Mates(F(P), g) : Item(Chosen(list, P), h) = its(P)[k]
    BY <1>2, <2>1, ItemIsMates
  <2>3. f \in F(P) /\ f \in Mates(F(P), g)
    BY <2>2 DEF Mates
  <2>4. FilesOf(its(P)[k]) = Mates(F(P), f) /\ (f.group # NoGroup => Len(its(P)[k]) = 2)
    <3> DEFINE piece == Chosen(list, P)
    <3>1. Item(piece, f) = its(P)[k]
      BY <2>2, <2>3
    <3>2. Orderly(piece) /\ FilesOf(piece) = F(P)
      BY <1>2
    <3> HIDE DEF piece
    <3>3. FilesOf(Item(piece, f)) = Mates(F(P), f) /\ (f.group # NoGroup => Len(Item(piece, f)) = 2)
      BY <2>3, <3>2, ItemIsMates
    <3>4. QED
      BY <3>1, <3>3
  <2>5. QED
    BY <1>4, <2>3, <2>4
<1> HIDE DEF its
<1>6. its(S) \in Seq(Seq(Listing)) /\ its(T) \in Seq(Seq(Listing))
  BY <1>3 DEF ItemsApart
<1>7. /\ items \in Seq(Seq(Listing))
      /\ \A k \in DOMAIN items : \/ k \in DOMAIN its(S) /\ items[k] = its(S)[k]
                                 \/ k - Len(its(S)) \in DOMAIN its(T) /\ items[k] = its(T)[k - Len(its(S))]
      /\ \A k \in DOMAIN its(S) : k \in DOMAIN items /\ items[k] = its(S)[k]
      /\ \A k \in DOMAIN its(T) : Len(its(S)) + k \in DOMAIN items /\ items[Len(its(S)) + k] = its(T)[k]
      /\ DOMAIN items \subseteq Int /\ Len(its(S)) \in Int
  <2> DEFINE R == Seq(Listing)
  <2>1. its(S) \in Seq(R) /\ its(T) \in Seq(R)
    BY <1>6
  <2> HIDE DEF R
  <2>2. /\ items \in Seq(R)
        /\ \A k \in DOMAIN items : \/ k \in DOMAIN its(S) /\ items[k] = its(S)[k]
                                   \/ k - Len(its(S)) \in DOMAIN its(T) /\ items[k] = its(T)[k - Len(its(S))]
        /\ \A k \in DOMAIN its(S) : k \in DOMAIN items /\ items[k] = its(S)[k]
        /\ \A k \in DOMAIN its(T) : Len(its(S)) + k \in DOMAIN items /\ items[Len(its(S)) + k] = its(T)[k]
        /\ DOMAIN items \subseteq Int /\ Len(its(S)) \in Int
    BY <2>1, TwoParts
  <2>3. QED
    BY <2>2 DEF R
<1> HIDE DEF items
<1>8. \A f \in F(S), g \in F(T) : f.name # g.name
  BY DEF Orderly, ListedOnce
<1>9. \A P \in {S, T} : \A k \in DOMAIN its(P) : \A m \in DOMAIN its(P)[k] : its(P)[k][m] \in F(P)
  BY <1>5 DEF FilesOf
<1>10. ASSUME NEW k \in DOMAIN items, NEW l \in DOMAIN items, NEW m \in DOMAIN items[k], NEW n \in DOMAIN items[l],
              items[k][m].name = items[l][n].name
       PROVE  k = l /\ m = n
  <2>1. CASE k \in DOMAIN its(S) /\ items[k] = its(S)[k]
    <3>1. CASE l \in DOMAIN its(S) /\ items[l] = its(S)[l]
      BY <1>3, <1>10, <2>1, <3>1 DEF ItemsApart
    <3>2. CASE l - Len(its(S)) \in DOMAIN its(T) /\ items[l] = its(T)[l - Len(its(S))]
      BY <1>8, <1>9, <1>10, <2>1, <3>2
    <3>3. QED
      BY <1>7, <3>1, <3>2
  <2>2. CASE k - Len(its(S)) \in DOMAIN its(T) /\ items[k] = its(T)[k - Len(its(S))]
    <3>1. CASE l \in DOMAIN its(S) /\ items[l] = its(S)[l]
      BY <1>8, <1>9, <1>10, <2>2, <3>1
    <3>2. CASE l - Len(its(S)) \in DOMAIN its(T) /\ items[l] = its(T)[l - Len(its(S))]
      <4>1. k - Len(its(S)) = l - Len(its(S)) /\ m = n
        BY <1>3, <1>10, <2>2, <3>2 DEF ItemsApart
      <4>2. QED
        BY <1>7, <4>1
    <3>3. QED
      BY <1>7, <3>1, <3>2
  <2>3. QED
    BY <1>7, <2>1, <2>2
<1>11. \A k \in DOMAIN items : \E P \in {S, T} : \E l \in DOMAIN its(P) : items[k] = its(P)[l]
  BY <1>7
<1>12. \A P \in {S, T} : \A l \in DOMAIN its(P) : \E k \in DOMAIN items : items[k] = its(P)[l]
  BY <1>7
<1>13. ItemsApart(items)
  <2>1. \A k \in DOMAIN items : Len(items[k]) \in 1..2
    BY <1>3, <1>11 DEF ItemsApart
  <2>2. QED
    BY <1>7, <1>10, <2>1 DEF ItemsApart
<1>14. FilesIn(items) = F(S \cup T)
  <2>1. \A f \in FilesIn(items) : f \in F(S) \/ f \in F(T)
    <3> SUFFICES ASSUME NEW k \in DOMAIN items, NEW f \in FilesOf(items[k]) PROVE f \in F(S) \/ f \in F(T)
      BY DEF FilesIn
    <3>1. PICK P \in {S, T} : \E l \in DOMAIN its(P) : items[k] = its(P)[l]
      BY <1>11
    <3>2. f \in F(P)
      BY <1>5, <3>1
    <3>3. QED
      BY <3>2
  <2>2. ASSUME NEW P \in {S, T}, NEW f \in F(P) PROVE f \in FilesIn(items)
    <3>1. f \in FilesIn(its(P))
      BY <1>3
    <3>2. PICK l \in DOMAIN its(P) : f \in FilesOf(its(P)[l])
      BY <3>1 DEF FilesIn
    <3>3. QED
      BY <1>12, <3>2 DEF FilesIn
  <2>3. F(S \cup T) = F(S) \cup F(T)
    OBVIOUS
  <2>4. QED
    BY <2>1, <2>2, <2>3
<1>15. \A k \in DOMAIN items : \A f \in FilesOf(items[k]) :
          FilesOf(items[k]) = Mates(FilesOf(list), f) /\ (f.group # NoGroup => Len(items[k]) = 2)
  BY <1>5, <1>11
<1>16. \A f \in FilesOf(list) : f.group # NoGroup => \E k \in DOMAIN items : f \in FilesOf(items[k]) /\ Len(items[k]) = 2
  <2> SUFFICES ASSUME NEW f \in FilesOf(list), f.group # NoGroup PROVE \E k \in DOMAIN items : f \in FilesOf(items[k])
    BY <1>15
  <2>1. f \in F(S \cup T)
    BY <1>1
  <2>2. QED
    BY <1>14, <2>1 DEF FilesIn
<1>17. QED
  BY <1>13, <1>14, <1>15, <1>16 DEF items, its

\* Exchanging two items leaves the files, each once.
LEMMA MovedKeeps ==
  ASSUME NEW items, ItemsApart(items), NEW i \in DOMAIN items, NEW j \in DOMAIN items
  PROVE  /\ Moved(items, i, j) \in Seq(Listing) /\ ListedOnce(Moved(items, i, j))
         /\ FilesOf(Moved(items, i, j)) = FilesIn(items)
PROOF
<1> DEFINE swapped == [items EXCEPT ![i] = items[j], ![j] = items[i]]
           back(k) == IF k = i THEN j ELSE IF k = j THEN i ELSE k
           moved == Concatenated(swapped)
<1>1. /\ swapped \in Seq(Seq(Listing)) /\ DOMAIN swapped = DOMAIN items
      /\ \A k \in DOMAIN items : back(k) \in DOMAIN items /\ swapped[k] = items[back(k)] /\ back(back(k)) = k
  <2> DEFINE R == Seq(Listing)
  <2>1. items \in Seq(R)
    BY DEF ItemsApart
  <2> HIDE DEF R
  <2>2. /\ swapped \in Seq(R) /\ DOMAIN swapped = DOMAIN items
        /\ \A k \in DOMAIN items : back(k) \in DOMAIN items /\ swapped[k] = items[back(k)] /\ back(back(k)) = k
    BY <2>1
  <2>3. QED
    BY <2>2 DEF R
<1> HIDE DEF swapped, back
<1>2. \A k \in DOMAIN swapped : Len(swapped[k]) <= 2
  <2>1. \A k \in DOMAIN items : Len(items[k]) <= 2
    <3>1. \A k \in DOMAIN items : Len(items[k]) \in 1..2
      BY Zenon DEF ItemsApart
    <3>2. \A n \in 1..2 : n <= 2
      OBVIOUS
    <3>3. QED
      BY <3>1, <3>2, Zenon
  <2> TAKE k \in DOMAIN swapped
  <2>2. back(k) \in DOMAIN items /\ swapped[k] = items[back(k)]
    BY <1>1
  <2>3. QED
    BY <2>1, <2>2
<1>3. PICK nth \in [DOMAIN moved -> Places(swapped)] :
         /\ \A n \in DOMAIN moved : moved[n] = swapped[nth[n][1]][nth[n][2]]
         /\ \A m, n \in DOMAIN moved : nth[m] = nth[n] => m = n
         /\ \A p \in Places(swapped) : \E n \in DOMAIN moved : nth[n] = p
  BY <1>1, <1>2, ConcatenatedPlaces
<1>4. moved \in Seq(Listing)
  BY <1>1, <1>2, ConcatenatedPlaces
<1> HIDE DEF moved
<1>5. ASSUME NEW n \in DOMAIN moved
      PROVE  /\ nth[n] = <<nth[n][1], nth[n][2]>> /\ nth[n][1] \in DOMAIN items
             /\ back(nth[n][1]) \in DOMAIN items /\ nth[n][2] \in DOMAIN items[back(nth[n][1])]
             /\ moved[n] = items[back(nth[n][1])][nth[n][2]]
  <2>1. nth[n] \in Places(swapped)
    BY <1>3
  <2>2. nth[n] = <<nth[n][1], nth[n][2]>> /\ nth[n][1] \in DOMAIN swapped /\ nth[n][2] \in DOMAIN swapped[nth[n][1]]
    BY <2>1, PlaceIsPair
  <2>3. QED
    BY <1>1, <1>3, <2>2
<1>6. ASSUME NEW m \in DOMAIN moved, NEW n \in DOMAIN moved, moved[m].name = moved[n].name PROVE m = n
  <2>1. back(nth[m][1]) = back(nth[n][1]) /\ nth[m][2] = nth[n][2]
    BY <1>5, <1>6 DEF ItemsApart
  <2>2. nth[m][1] = nth[n][1]
    BY <1>1, <1>5, <2>1
  <2>3. nth[m] = nth[n]
    BY <1>5, <2>1, <2>2
  <2>4. QED
    BY <1>3, <2>3
<1>7. ASSUME NEW n \in DOMAIN moved PROVE moved[n] \in FilesIn(items)
  BY <1>5 DEF FilesIn, FilesOf
<1>8. ASSUME NEW k \in DOMAIN items, NEW m \in DOMAIN items[k] PROVE \E n \in DOMAIN moved : moved[n] = items[k][m]
  <2>1. back(k) \in DOMAIN swapped /\ swapped[back(k)] = items[k]
    BY <1>1
  <2>2. <<back(k), m>> \in Places(swapped)
    BY <2>1 DEF Places
  <2>3. PICK n \in DOMAIN moved : nth[n] = <<back(k), m>>
    BY <1>3, <2>2
  <2>4. moved[n] = swapped[back(k)][m]
    BY <1>3, <2>3
  <2>5. QED
    BY <2>1, <2>4
<1>9. FilesOf(moved) = FilesIn(items)
  BY <1>7, <1>8 DEF FilesOf, FilesIn
<1>10. Moved(items, i, j) = moved
  BY DEF Moved, moved, swapped
<1>11. QED
  BY <1>4, <1>6, <1>9, <1>10 DEF ListedOnce

\* What holds of the two lists, a and b, and of the files picked and not removed
Kept(a, b, rem, ever) ==
    /\ Orderly(a) /\ Orderly(b)
    /\ rem \subseteq ever /\ ever \subseteq Available
    /\ \A e \in FilesOf(a), g \in FilesOf(b) : e.name # g.name /\ (e.group = g.group => e.group = NoGroup)
    /\ \A e \in FilesOf(a) \cup FilesOf(b) :
           /\ \E f \in rem : f.name = e.name /\ f.type = e.type
           /\ e.group # NoGroup => e.group[2] \subseteq ever /\ e.group[2] # ever
    /\ \A f \in rem : f.type = "psd" \/ \E e \in FilesOf(a) \cup FilesOf(b) : e.name = f.name

ListInv == Kept(attachments, localFiles, remaining, everPicked)

LEMMA EitherList ==
  ASSUME NEW a, NEW b, NEW rem, NEW ever, Kept(a, b, rem, ever)
  PROVE  Kept(b, a, rem, ever)
PROOF
BY DEF Kept

LEMMA EmptyList == Orderly(<<>>) /\ FilesOf(<<>>) = {}
PROOF
<1>1. <<>> \in Seq(Listing) /\ DOMAIN <<>> = {}
  OBVIOUS
<1>2. FilesOf(<<>>) = {}
  BY <1>1 DEF FilesOf
<1>3. QED
  BY <1>1, <1>2 DEF Orderly, ListedOnce, PairedUp

\* Two orderly lists that have neither a file nor a live photo in common are one.
LEMMA OrderlyBoth ==
  ASSUME NEW s, NEW t, Orderly(s), Orderly(t),
         \A e \in FilesOf(s), g \in FilesOf(t) : e.name # g.name /\ (e.group = g.group => e.group = NoGroup)
  PROVE  Orderly(s \o t) /\ FilesOf(s \o t) = FilesOf(s) \cup FilesOf(t)
PROOF
<1>1. s \in Seq(Listing) /\ t \in Seq(Listing)
  BY DEF Orderly
<1>2. FilesOf(s \o t) = FilesOf(s) \cup FilesOf(t)
  BY <1>1, FilesOfBoth
<1>3. ListedOnce(s \o t)
  BY <1>1, OnceInBoth DEF Orderly
<1>4. s \o t \in Seq(Listing)
  BY <1>1
<1>5. PairedUp(FilesOf(s) \cup FilesOf(t))
  <2> SUFFICES ASSUME NEW f \in FilesOf(s) \cup FilesOf(t), f.group # NoGroup
               PROVE  \E g \in FilesOf(s) \cup FilesOf(t) :
                         IsImage(g) # IsImage(f) /\ Mates(FilesOf(s) \cup FilesOf(t), f) = {f, g}
    BY DEF PairedUp
  <2>1. ASSUME NEW u, NEW w, PairedUp(FilesOf(u)), f \in FilesOf(u), FilesOf(u) \cup FilesOf(w) = FilesOf(s) \cup FilesOf(t),
               \A g \in FilesOf(w) : g.group # f.group /\ g # f
        PROVE  \E g \in FilesOf(s) \cup FilesOf(t) :
                  IsImage(g) # IsImage(f) /\ Mates(FilesOf(s) \cup FilesOf(t), f) = {f, g}
    <3>1. PICK g \in FilesOf(u) : IsImage(g) # IsImage(f) /\ Mates(FilesOf(u), f) = {f, g}
      BY <2>1 DEF PairedUp
    <3>2. Mates(FilesOf(u) \cup FilesOf(w), f) = Mates(FilesOf(u), f)
      BY <2>1 DEF Mates
    <3>3. QED
      BY <2>1, <3>1, <3>2
  <2>2. CASE f \in FilesOf(s)
    BY <2>1, <2>2 DEF Orderly
  <2>3. CASE f \in FilesOf(t)
    <3>1. FilesOf(t) \cup FilesOf(s) = FilesOf(s) \cup FilesOf(t)
      OBVIOUS
    <3>2. \A g \in FilesOf(s) : g.group # f.group /\ g # f
      BY <2>3
    <3>3. QED
      BY <2>1, <2>3, <3>1, <3>2 DEF Orderly
  <2>4. QED
    BY <2>2, <2>3
<1>6. QED
  BY <1>2, <1>3, <1>4, <1>5 DEF Orderly

\* A list made anew may leave out a PSD.
LEMMA NewListKeeps ==
  ASSUME NEW a, NEW b, NEW rem, NEW ever, Kept(a, b, rem, ever),
         NEW new, Orderly(new), FilesOf(new) \subseteq FilesOf(a), \A e \in FilesOf(a) \ FilesOf(new) : e.type = "psd"
  PROVE  Kept(new, b, rem, ever)
PROOF
<1>1. ASSUME NEW f \in rem, f.type # "psd" PROVE \E e \in FilesOf(new) \cup FilesOf(b) : e.name = f.name
  <2>1. PICK e \in FilesOf(a) \cup FilesOf(b) : e.name = f.name
    BY <1>1 DEF Kept
  <2>2. PICK g \in rem : g.name = e.name /\ g.type = e.type
    BY DEF Kept
  <2>3. g = f
    BY <2>1, <2>2, ListAssumption DEF Kept
  <2>4. QED
    BY <1>1, <2>1, <2>2, <2>3
<1>2. QED
  BY <1>1 DEF Kept

\* Moving an item of a list that is shown in two parts, of which the second has no live photos
LEMMA MoveInListKeeps ==
  ASSUME NEW a, NEW b, NEW rem, NEW ever, Kept(a, b, rem, ever),
         NEW S \in SUBSET DOMAIN a, NEW T \in SUBSET DOMAIN a, S \cap T = {},
         \A n \in DOMAIN a : a[n].group # NoGroup => n \in S,
         \A n \in DOMAIN a : n \in S \cup T \/ a[n].type = "psd",
         NEW items, items = Items(Chosen(a, S)) \o Items(Chosen(a, T)),
         NEW i \in DOMAIN items, NEW j \in DOMAIN items
  PROVE  Kept(Moved(items, i, j), b, rem, ever)
PROOF
<1> DEFINE new == Moved(items, i, j)
           F == {a[n] : n \in S \cup T}
<1>1. Orderly(a)
  BY DEF Kept
<1>2. ItemsApart(items) /\ FilesIn(items) = F
  BY <1>1, ItemsOfBoth
<1>3. new \in Seq(Listing) /\ ListedOnce(new) /\ FilesOf(new) = F
  BY <1>2, MovedKeeps
<1>4. PairedUp(F)
  <2>1. \A f, g \in FilesOf(a) : f \in F /\ f.group # NoGroup /\ g.group = f.group => g \in F
    BY DEF FilesOf
  <2>2. S \cup T \in SUBSET DOMAIN a
    OBVIOUS
  <2>3. Orderly(Chosen(a, S \cup T)) /\ FilesOf(Chosen(a, S \cup T)) = F
    BY <1>1, <2>1, <2>2, OrderlyPart
  <2> HIDE DEF F
  <2>4. QED
    BY <2>3 DEF Orderly
<1>5. F \subseteq FilesOf(a) /\ \A e \in FilesOf(a) \ F : e.type = "psd"
  BY DEF FilesOf
<1> HIDE DEF new, F
<1>6. Orderly(new)
  BY <1>3, <1>4 DEF Orderly
<1>7. Kept(new, b, rem, ever)
  BY <1>3, <1>5, <1>6, NewListKeeps
<1>8. QED
  BY <1>7 DEF new

\* What is shown of a list
ShownInParts(a, S, T, items) ==
    /\ S \subseteq DOMAIN a /\ T \subseteq DOMAIN a /\ S \cap T = {}
    /\ \A n \in DOMAIN a : a[n].group # NoGroup => n \in S
    /\ items = Items(Chosen(a, S)) \o Items(Chosen(a, T))

Unnamed(rem, item) == {f \in rem : \A g \in FilesOf(item) : g.name # f.name}

\* Removing such an item
LEMMA RemoveFromListKeeps ==
  ASSUME NEW a, NEW b, NEW rem, NEW ever, Kept(a, b, rem, ever),
         NEW S, NEW T, NEW items, ShownInParts(a, S, T, items), NEW i \in DOMAIN items, NEW item, item = items[i]
  PROVE  Kept(Removed(a, item), b, Unnamed(rem, item), ever)
PROOF
<1> USE DEF ShownInParts
<1> DEFINE new == Removed(a, item)
           gone == FilesOf(item)
           left == {f \in rem : \A g \in gone : g.name # f.name}
           at == {n \in DOMAIN a : a[n] \notin gone}
<1>1. Orderly(a)
  BY DEF Kept
<1>2. /\ FilesIn(items) = {a[n] : n \in S \cup T}
      /\ \A k \in DOMAIN items : \A f \in FilesOf(items[k]) : FilesOf(items[k]) = Mates(FilesOf(a), f)
  BY <1>1, ItemsOfBoth
<1>3. gone \subseteq FilesOf(a)
  <2>1. gone \subseteq FilesIn(items)
    BY DEF FilesIn
  <2>2. {a[n] : n \in S \cup T} \subseteq FilesOf(a)
    BY DEF FilesOf
  <2> HIDE DEF gone
  <2>3. QED
    BY <1>2, <2>1, <2>2
<1>4. \A h \in gone : gone = Mates(FilesOf(a), h)
  BY <1>2
<1> HIDE DEF gone
<1>5. \A f, g \in FilesOf(a) : f \in {a[n] : n \in at} /\ f.group # NoGroup /\ g.group = f.group => g \in {a[n] : n \in at}
  <2> SUFFICES ASSUME NEW f \in FilesOf(a), NEW g \in FilesOf(a), f \notin gone, f.group # NoGroup, g.group = f.group
               PROVE  g \notin gone
    BY DEF FilesOf
  <2>1. ASSUME g \in gone PROVE FALSE
    <3>1. gone = Mates(FilesOf(a), g)
      BY <1>4, <2>1
    <3>2. f \in Mates(FilesOf(a), g)
      BY DEF Mates
    <3>3. QED
      BY <3>1, <3>2
  <2>2. QED
    BY <2>1
<1>6. {a[n] : n \in at} = FilesOf(a) \ gone
  BY DEF FilesOf
<1>7. at \in SUBSET DOMAIN a
  OBVIOUS
<1>8. new = Chosen(a, at)
  BY DEF Removed, gone
<1> HIDE DEF new, at
<1>9. Orderly(new) /\ FilesOf(new) = FilesOf(a) \ gone
  BY <1>1, <1>5, <1>6, <1>7, <1>8, OrderlyPart
<1>10. \A e, g \in FilesOf(a) : e.name = g.name => e = g
  BY <1>1 DEF Orderly, ListedOnce, FilesOf
<1>11. ASSUME NEW e \in FilesOf(new) \cup FilesOf(b) PROVE \E f \in left : f.name = e.name /\ f.type = e.type
  <2>1. PICK f \in rem : f.name = e.name /\ f.type = e.type
    BY <1>9 DEF Kept
  <2>2. \A g \in gone : g.name # e.name
    BY <1>3, <1>9, <1>10 DEF Kept
  <2>3. QED
    BY <2>1, <2>2
<1>12. ASSUME NEW f \in left PROVE f.type = "psd" \/ \E e \in FilesOf(new) \cup FilesOf(b) : e.name = f.name
  BY <1>9 DEF Kept
<1>13. left \subseteq rem
  OBVIOUS
<1> HIDE DEF left
<1>14. Kept(new, b, left, ever)
  BY <1>9, <1>11, <1>12, <1>13 DEF Kept
<1>15. QED
  BY <1>14 DEF new, left, gone, Unnamed

\* A finite set in any order
LEMMA AnyOrder ==
  ASSUME NEW S, IsFiniteSet(S), NEW s \in SetToSeqs(S)
  PROVE  /\ s \in Seq(S)
         /\ \A i, j \in DOMAIN s : s[i] = s[j] => i = j
         /\ \A x \in S : \E i \in DOMAIN s : s[i] = x
PROOF
<1> DEFINE D == 1..Cardinality(S)
<1>1. s \in [D -> S] /\ \A i, j \in D : i # j => s[i] # s[j]
  BY DEF SetToSeqs
<1>2. Cardinality(S) \in Nat
  BY FS_CardinalityType
<1>3. s \in Seq(S)
  BY <1>1, <1>2
<1>4. IsFiniteSet(D) /\ Cardinality(D) = Cardinality(S)
  BY <1>2, FS_Interval
<1> HIDE DEF D
<1>5. s \in Injection(D, S)
  BY <1>1 DEF Injection, IsInjective
<1>6. s \in Surjection(D, S)
  BY <1>4, <1>5, FS_Injection
<1>7. \A x \in S : \E i \in D : s[i] = x
  BY <1>6 DEF Surjection
<1>8. QED
  BY <1>1, <1>3, <1>7

\* The files of a selection as they are listed
Entry(S, f) == [name |-> f.name, type |-> f.type, group |-> IF f \in Pair(S, f) THEN <<f.stem, everPicked>> ELSE NoGroup]

LEMMA PairsOfOneStem ==
  ASSUME NEW S, IsFiniteSet(S), NEW f \in S, f \in Pair(S, f)
  PROVE  \E g \in S : IsImage(g) # IsImage(f) /\ g.stem = f.stem /\ Pair(S, f) = {f, g} /\ Pair(S, g) = {f, g}
PROOF
<1> DEFINE images == {g \in S : IsImage(g) /\ g.stem = f.stem}
           videos == {g \in S : g.type = "video" /\ g.stem = f.stem}
<1>1. Cardinality(images) = 1 /\ Cardinality(videos) = 1 /\ Pair(S, f) = images \cup videos
  BY DEF Pair
<1>2. IsFiniteSet(images) /\ IsFiniteSet(videos)
  BY FS_Subset
<1>3. PICK x : images = {x}
  BY <1>1, <1>2, FS_Singleton
<1>4. PICK y : videos = {y}
  BY <1>1, <1>2, FS_Singleton
<1>5. x \in S /\ y \in S /\ x.stem = f.stem /\ y.stem = f.stem /\ IsImage(x) /\ y.type = "video"
  BY <1>3, <1>4
<1>6. ~IsImage(y)
  BY <1>5 DEF IsImage
<1>7. ASSUME NEW g \in S, g.stem = f.stem PROVE Pair(S, g) = Pair(S, f)
  BY <1>7 DEF Pair
<1>8. Pair(S, f) = {x, y} /\ Pair(S, x) = {x, y} /\ Pair(S, y) = {x, y}
  BY <1>1, <1>3, <1>4, <1>5, <1>7
<1>9. f = x \/ f = y
  BY <1>8
<1> HIDE DEF images, videos
<1>10. QED
  BY <1>5, <1>6, <1>8, <1>9

\* Files picked together, in any order, are orderly, and no live photo of before is theirs.
LEMMA ChosenIsOrderly ==
  ASSUME NEW S \in SUBSET Available, everPicked \subseteq Available, NEW chosen \in SetToSeqs(PairUp(S))
  PROVE  /\ Orderly(chosen)
         /\ FilesOf(chosen) = {Entry(S, f) : f \in S}
PROOF
<1>1. IsFiniteSet(S)
  BY ListAssumption, FS_Subset
<1>2. PairUp(S) = {Entry(S, f) : f \in S}
  BY DEF PairUp, Entry
<1> DEFINE E == {Entry(S, f) : f \in S}
           entry == [f \in S |-> Entry(S, f)]
<1>3. entry \in Surjection(S, E)
  BY DEF Surjection
<1>4. IsFiniteSet(E)
  BY <1>1, <1>3, FS_Surjection
<1>5. /\ chosen \in Seq(E)
      /\ \A i, j \in DOMAIN chosen : chosen[i] = chosen[j] => i = j
      /\ \A x \in E : \E i \in DOMAIN chosen : chosen[i] = x
  <2> HIDE DEF E
  <2>1. QED
    BY <1>2, <1>4, AnyOrder DEF E
<1>6. FilesOf(chosen) = E
  <2> HIDE DEF E
  <2>1. \A i \in DOMAIN chosen : chosen[i] \in E
    BY <1>5
  <2>2. QED
    BY <1>5, <2>1 DEF FilesOf
<1>7. \A f \in S : /\ Entry(S, f).name = f.name /\ Entry(S, f).type = f.type
                   /\ Entry(S, f).group = IF f \in Pair(S, f) THEN <<f.stem, everPicked>> ELSE NoGroup
  BY DEF Entry
<1>8. E \subseteq Listing
  <2> SUFFICES ASSUME NEW f \in S PROVE Entry(S, f) \in Listing
    OBVIOUS
  <2>1. f.name \in {g.name : g \in Available} /\ f.type \in {g.type : g \in Available} /\ f.stem \in {g.stem : g \in Available}
    OBVIOUS
  <2>2. QED
    BY <2>1 DEF Entry, Listing
<1>9. \A e, g \in E : e.name = g.name => e = g
  <2> SUFFICES ASSUME NEW f \in S, NEW g \in S, Entry(S, f).name = Entry(S, g).name PROVE Entry(S, f) = Entry(S, g)
    OBVIOUS
  <2>1. f.name = g.name
    BY <1>7
  <2>2. f = g
    BY <2>1, ListAssumption
  <2>3. QED
    BY <2>2
<1>10. \A f \in S : f \in Pair(S, f) => <<f.stem, everPicked>> # NoGroup
  BY ListAssumption
<1>11. PairedUp(E)
  <2> SUFFICES ASSUME NEW f \in S, Entry(S, f).group # NoGroup
               PROVE  \E d \in E : IsImage(d) # IsImage(Entry(S, f)) /\ Mates(E, Entry(S, f)) = {Entry(S, f), d}
    BY DEF PairedUp
  <2>1. f \in Pair(S, f) /\ Entry(S, f).group = <<f.stem, everPicked>>
    BY <1>7
  <2>2. PICK g \in S : IsImage(g) # IsImage(f) /\ g.stem = f.stem /\ Pair(S, f) = {f, g} /\ Pair(S, g) = {f, g}
    BY <1>1, <2>1, PairsOfOneStem
  <2>3. Entry(S, g).group = <<f.stem, everPicked>> /\ Entry(S, g) \in E
    BY <1>7, <2>2
  <2>4. IsImage(Entry(S, g)) # IsImage(Entry(S, f))
    BY <1>7, <2>2 DEF IsImage
  <2>5. ASSUME NEW h \in S, Entry(S, h).group = Entry(S, f).group PROVE h = f \/ h = g
    <3>1. h \in Pair(S, h) /\ <<h.stem, everPicked>> = <<f.stem, everPicked>>
      BY <1>7, <2>1, <2>5
    <3>2. h.stem = f.stem
      BY <3>1
    <3>3. Pair(S, h) = Pair(S, f)
      BY <3>2 DEF Pair
    <3>4. QED
      BY <2>2, <3>1, <3>3
  <2>6. Mates(E, Entry(S, f)) = {Entry(S, f), Entry(S, g)}
    <3>1. \A d \in E : d.group = Entry(S, f).group => d \in {Entry(S, f), Entry(S, g)}
      BY <2>5
    <3>2. Entry(S, f) \in E
      OBVIOUS
    <3>3. Entry(S, g).group = Entry(S, f).group
      BY <2>1, <2>3
    <3> HIDE DEF E
    <3>4. QED
      BY <2>3, <3>1, <3>2, <3>3 DEF Mates
  <2>7. QED
    BY <2>3, <2>4, <2>6
<1> HIDE DEF E
<1>12. ListedOnce(chosen)
  <2>1. \A i \in DOMAIN chosen : chosen[i] \in E
    BY <1>5
  <2>2. QED
    BY <1>5, <1>9, <2>1 DEF ListedOnce
<1>13. chosen \in Seq(Listing)
  BY <1>5, <1>8
<1>14. QED
  BY <1>6, <1>11, <1>12, <1>13 DEF Orderly, E

LEMMA SelectFilesKeeps == ASSUME ListInv, NEW S \in SUBSET Available, SelectFiles(S) PROVE ListInv'
PROOF
<1> DEFINE ever == everPicked \cup S
           rem == remaining \cup S
<1>1. Kept(attachments, localFiles, remaining, everPicked)
  BY DEF ListInv
<1>2. PICK chosen \in SetToSeqs(PairUp(S)) : localFiles' = localFiles \o chosen
  BY DEF SelectFiles
<1>3. /\ S # {} /\ S \cap everPicked = {} /\ attachments' = attachments /\ remaining' = rem /\ everPicked' = ever
  BY DEF SelectFiles
<1>4. everPicked \subseteq Available /\ remaining \subseteq everPicked
  BY <1>1 DEF Kept
<1>5. Orderly(chosen) /\ FilesOf(chosen) = {Entry(S, f) : f \in S}
  BY <1>4, ChosenIsOrderly
<1>6. ASSUME NEW e \in FilesOf(chosen)
      PROVE  /\ \E f \in S : f.name = e.name /\ f.type = e.type
             /\ e.group # NoGroup => e.group[2] = everPicked
  BY <1>5 DEF Entry
<1>7. \A f \in S : \E e \in FilesOf(chosen) : e.name = f.name
  <2> TAKE f \in S
  <2>1. Entry(S, f) \in FilesOf(chosen)
    BY <1>5
  <2>2. Entry(S, f).name = f.name
    BY DEF Entry
  <2>3. QED
    BY <2>1, <2>2
<1>8. ASSUME NEW e \in FilesOf(attachments) \cup FilesOf(localFiles), NEW g \in FilesOf(chosen)
      PROVE  e.name # g.name /\ (e.group = g.group => e.group = NoGroup)
  <2>1. PICK f \in remaining : f.name = e.name
    BY <1>1 DEF Kept
  <2>2. PICK h \in S : h.name = g.name
    BY <1>6
  <2>3. f # h /\ f \in Available /\ h \in Available
    BY <1>3, <1>4
  <2>4. e.name # g.name
    BY <2>1, <2>2, <2>3, ListAssumption
  <2>5. e.group # NoGroup => e.group[2] # everPicked
    BY <1>1 DEF Kept
  <2>6. QED
    BY <1>6, <2>4, <2>5
<1>9. Orderly(localFiles) /\ Orderly(attachments)
  BY <1>1 DEF Kept
<1> DEFINE new == localFiles \o chosen
<1>10. Orderly(new) /\ FilesOf(new) = FilesOf(localFiles) \cup FilesOf(chosen)
  BY <1>5, <1>8, <1>9, OrderlyBoth
<1> HIDE DEF new
<1>11. rem \subseteq ever /\ ever \subseteq Available
  BY <1>4
<1>12. ASSUME NEW e \in FilesOf(attachments), NEW g \in FilesOf(new) PROVE e.name # g.name /\ (e.group = g.group => e.group = NoGroup)
  BY <1>1, <1>8, <1>10 DEF Kept
<1>13. ASSUME NEW e \in FilesOf(attachments) \cup FilesOf(new)
       PROVE  /\ \E f \in rem : f.name = e.name /\ f.type = e.type
              /\ e.group # NoGroup => e.group[2] \subseteq ever /\ e.group[2] # ever
  <2>1. CASE e \in FilesOf(chosen)
    <3>1. everPicked \subseteq ever /\ everPicked # ever
      BY <1>3
    <3>2. \E f \in rem : f.name = e.name /\ f.type = e.type
      BY <1>6, <2>1
    <3> HIDE DEF ever, rem
    <3>3. QED
      BY <1>6, <2>1, <3>1, <3>2
  <2>2. CASE e \in FilesOf(attachments) \cup FilesOf(localFiles)
    <3>1. /\ \E f \in remaining : f.name = e.name /\ f.type = e.type
          /\ e.group # NoGroup => e.group[2] \subseteq everPicked
      BY <1>1, <2>2 DEF Kept
    <3>2. PICK x \in S : x \notin everPicked
      BY <1>3
    <3>3. QED
      BY <3>1, <3>2
  <2>3. QED
    BY <1>10, <2>1, <2>2
<1>14. ASSUME NEW f \in rem PROVE f.type = "psd" \/ \E e \in FilesOf(attachments) \cup FilesOf(new) : e.name = f.name
  <2>1. CASE f \in S
    BY <1>7, <1>10, <2>1
  <2>2. CASE f \in remaining
    BY <1>1, <1>10, <2>2 DEF Kept
  <2>3. QED
    BY <2>1, <2>2
<1> HIDE DEF rem, ever
<1>15. Kept(attachments, new, rem, ever)
  BY <1>9, <1>10, <1>11, <1>12, <1>13, <1>14 DEF Kept
<1>16. attachments' = attachments /\ localFiles' = new /\ remaining' = rem /\ everPicked' = ever
  BY <1>2, <1>3 DEF new
<1>17. ListInv' = Kept(attachments', localFiles', remaining', everPicked')
  BY DEF ListInv
<1>18. QED
  BY <1>15, <1>16, <1>17

LEMMA ListInitially == ListInit => ListInv
PROOF
<1> SUFFICES ASSUME ListInit PROVE ListInv
  OBVIOUS
<1>1. attachments = <<>> /\ localFiles = <<>> /\ everPicked = {} /\ remaining = {}
  BY DEF ListInit
<1>2. QED
  BY <1>1, EmptyList DEF ListInv, Kept

\* The two parts that each list is shown in
LEMMA PartsOfAttachments ==
  ASSUME ListInv
  PROVE  \E S, T \in SUBSET DOMAIN attachments :
            /\ S \cap T = {} /\ \A n \in DOMAIN attachments : attachments[n].group # NoGroup => n \in S
            /\ \A n \in DOMAIN attachments : n \in S \cup T \/ attachments[n].type = "psd"
            /\ AttachmentItems = Items(Chosen(attachments, S)) \o Items(Chosen(attachments, T))
PROOF
<1> DEFINE S == {i \in DOMAIN attachments : Visual(attachments[i])}
           T == {i \in DOMAIN attachments : ~Visual(attachments[i]) /\ Listed(attachments[i])}
<1>1. S \in SUBSET DOMAIN attachments /\ T \in SUBSET DOMAIN attachments /\ S \cap T = {}
  OBVIOUS
<1>2. \A n \in DOMAIN attachments : attachments[n].group # NoGroup => n \in S
  BY DEF Visual
<1>3. ASSUME NEW n \in DOMAIN attachments, n \notin S \cup T PROVE attachments[n].type = "psd"
  <2>1. attachments[n].type \in {f.type : f \in Available}
    <3>1. attachments[n] \in Listing
      BY DEF ListInv, Kept, Orderly
    <3>2. QED
      BY <3>1 DEF Listing
  <2>2. attachments[n].type \in {"image", "psd", "video", "document", "audio"}
    BY <2>1, ListAssumption
  <2>3. QED
    BY <1>3, <2>2 DEF Visual, Listed
<1>4. AttachmentItems = Items(Chosen(attachments, S)) \o Items(Chosen(attachments, T))
  BY DEF AttachmentItems
<1> HIDE DEF S, T
<1>5. QED
  BY <1>1, <1>2, <1>3, <1>4

LEMMA PartsOfLocalFiles ==
  \E S, T \in SUBSET DOMAIN localFiles :
     /\ S \cap T = {} /\ \A n \in DOMAIN localFiles : localFiles[n].group # NoGroup => n \in S
     /\ \A n \in DOMAIN localFiles : n \in S \cup T
     /\ LocalItems = Items(Chosen(localFiles, S)) \o Items(Chosen(localFiles, T))
PROOF
<1> DEFINE S == {i \in DOMAIN localFiles : localFiles[i].group # NoGroup}
           T == {i \in DOMAIN localFiles : localFiles[i].group = NoGroup}
<1>1. S \in SUBSET DOMAIN localFiles /\ T \in SUBSET DOMAIN localFiles /\ S \cap T = {}
  OBVIOUS
<1>2. \A n \in DOMAIN localFiles : (localFiles[n].group # NoGroup => n \in S) /\ n \in S \cup T
  OBVIOUS
<1>3. LocalItems = Items(Chosen(localFiles, S)) \o Items(Chosen(localFiles, T))
  BY DEF LocalItems
<1> HIDE DEF S, T
<1>4. QED
  BY <1>1, <1>2, <1>3

LEMMA MoveAttachmentKeeps == ASSUME ListInv, MoveAttachment PROVE ListInv'
PROOF
<1>1. PICK S, T \in SUBSET DOMAIN attachments :
            /\ S \cap T = {} /\ \A n \in DOMAIN attachments : attachments[n].group # NoGroup => n \in S
            /\ \A n \in DOMAIN attachments : n \in S \cup T \/ attachments[n].type = "psd"
            /\ AttachmentItems = Items(Chosen(attachments, S)) \o Items(Chosen(attachments, T))
  BY PartsOfAttachments
<1>2. PICK n \in Neighbours(AttachmentItems) : attachments' = Moved(AttachmentItems, n[1], n[2])
  BY DEF MoveAttachment
<1>3. n[1] \in DOMAIN AttachmentItems /\ n[2] \in DOMAIN AttachmentItems
  BY DEF Neighbours
<1>4. Kept(attachments, localFiles, remaining, everPicked)
  BY DEF ListInv
<1> DEFINE items == AttachmentItems
<1>5. items = Items(Chosen(attachments, S)) \o Items(Chosen(attachments, T)) /\ n[1] \in DOMAIN items /\ n[2] \in DOMAIN items
  BY <1>1, <1>3
<1> HIDE DEF items
<1>6. Kept(Moved(items, n[1], n[2]), localFiles, remaining, everPicked)
  BY <1>1, <1>4, <1>5, MoveInListKeeps
<1>7. attachments' = Moved(items, n[1], n[2]) /\ localFiles' = localFiles /\ remaining' = remaining /\ everPicked' = everPicked
  BY <1>2 DEF MoveAttachment, items
<1>8. ListInv' = Kept(attachments', localFiles', remaining', everPicked')
  BY DEF ListInv
<1>9. QED
  BY <1>6, <1>7, <1>8

LEMMA MoveLocalFileKeeps == ASSUME ListInv, MoveLocalFile PROVE ListInv'
PROOF
<1>1. PICK S, T \in SUBSET DOMAIN localFiles :
            /\ S \cap T = {} /\ \A n \in DOMAIN localFiles : localFiles[n].group # NoGroup => n \in S
            /\ \A n \in DOMAIN localFiles : n \in S \cup T
            /\ LocalItems = Items(Chosen(localFiles, S)) \o Items(Chosen(localFiles, T))
  BY PartsOfLocalFiles
<1>2. PICK n \in Neighbours(LocalItems) : localFiles' = Moved(LocalItems, n[1], n[2])
  BY DEF MoveLocalFile
<1>3. n[1] \in DOMAIN LocalItems /\ n[2] \in DOMAIN LocalItems
  BY DEF Neighbours
<1>4. Kept(localFiles, attachments, remaining, everPicked)
  BY EitherList DEF ListInv
<1> DEFINE items == LocalItems
<1>5. items = Items(Chosen(localFiles, S)) \o Items(Chosen(localFiles, T)) /\ n[1] \in DOMAIN items /\ n[2] \in DOMAIN items
  BY <1>1, <1>3
<1> HIDE DEF items
<1>6. Kept(Moved(items, n[1], n[2]), attachments, remaining, everPicked)
  BY <1>1, <1>4, <1>5, MoveInListKeeps
<1>7. localFiles' = Moved(items, n[1], n[2]) /\ attachments' = attachments /\ remaining' = remaining /\ everPicked' = everPicked
  BY <1>2 DEF MoveLocalFile, items
<1>8. ListInv' = Kept(attachments', localFiles', remaining', everPicked')
  BY DEF ListInv
<1>9. QED
  BY <1>6, <1>7, <1>8, EitherList

LEMMA RemoveItemKeeps == ASSUME ListInv, NEW item, RemoveItem(item) PROVE ListInv'
PROOF
<1> DEFINE left == Unnamed(remaining, item)
<1>1. remaining' = left /\ everPicked' = everPicked
  BY DEF RemoveItem, Unnamed
<1>2. ListInv' = Kept(attachments', localFiles', remaining', everPicked')
  BY DEF ListInv
<1>3. Kept(attachments, localFiles, remaining, everPicked) /\ Kept(localFiles, attachments, remaining, everPicked)
  BY EitherList DEF ListInv
<1>4. CASE item \in FilesOf(AttachmentItems) /\ attachments' = Removed(attachments, item) /\ UNCHANGED localFiles
  <2>1. PICK S, T \in SUBSET DOMAIN attachments :
            /\ S \cap T = {} /\ \A n \in DOMAIN attachments : attachments[n].group # NoGroup => n \in S
            /\ AttachmentItems = Items(Chosen(attachments, S)) \o Items(Chosen(attachments, T))
    BY PartsOfAttachments
  <2> DEFINE items == AttachmentItems
  <2>2. PICK i \in DOMAIN items : item = items[i]
    BY <1>4 DEF FilesOf
  <2>3. items = Items(Chosen(attachments, S)) \o Items(Chosen(attachments, T))
    BY <2>1
  <2> HIDE DEF items
  <2>4. ShownInParts(attachments, S, T, items)
    BY <2>1, <2>3 DEF ShownInParts
  <2>5. Kept(Removed(attachments, item), localFiles, left, everPicked)
    BY <1>3, <2>2, <2>4, RemoveFromListKeeps
  <2> HIDE DEF left
  <2>6. QED
    BY <1>1, <1>2, <1>4, <2>5
<1>5. CASE item \in FilesOf(LocalItems) /\ localFiles' = Removed(localFiles, item) /\ UNCHANGED attachments
  <2>1. PICK S, T \in SUBSET DOMAIN localFiles :
            /\ S \cap T = {} /\ \A n \in DOMAIN localFiles : localFiles[n].group # NoGroup => n \in S
            /\ LocalItems = Items(Chosen(localFiles, S)) \o Items(Chosen(localFiles, T))
    BY PartsOfLocalFiles
  <2> DEFINE items == LocalItems
  <2>2. PICK i \in DOMAIN items : item = items[i]
    BY <1>5 DEF FilesOf
  <2>3. items = Items(Chosen(localFiles, S)) \o Items(Chosen(localFiles, T))
    BY <2>1
  <2> HIDE DEF items
  <2>4. ShownInParts(localFiles, S, T, items)
    BY <2>1, <2>3 DEF ShownInParts
  <2>5. Kept(Removed(localFiles, item), attachments, left, everPicked)
    BY <1>3, <2>2, <2>4, RemoveFromListKeeps
  <2> HIDE DEF left
  <2>6. QED
    BY <1>1, <1>2, <1>5, <2>5, EitherList
<1>6. QED
  BY <1>4, <1>5 DEF RemoveItem

LEMMA SaveAttachmentsKeeps == ASSUME ListInv, SaveAttachments PROVE ListInv'
PROOF
<1> DEFINE new == attachments \o localFiles
<1>1. Kept(attachments, localFiles, remaining, everPicked)
  BY DEF ListInv
<1>2. Orderly(new) /\ FilesOf(new) = FilesOf(attachments) \cup FilesOf(localFiles)
  BY <1>1, OrderlyBoth DEF Kept
<1> HIDE DEF new
<1>3. Kept(new, <<>>, remaining, everPicked)
  BY <1>1, <1>2, EmptyList DEF Kept
<1>4. attachments' = new /\ localFiles' = <<>> /\ remaining' = remaining /\ everPicked' = everPicked
  BY DEF SaveAttachments, new
<1>5. ListInv' = Kept(attachments', localFiles', remaining', everPicked')
  BY DEF ListInv
<1>6. QED
  BY <1>3, <1>4, <1>5

LEMMA ListInvariant == ListSpec => []ListInv
PROOF
<1>1. ListInv /\ [ListNext]_listVars => ListInv'
  <2> SUFFICES ASSUME ListInv, [ListNext]_listVars PROVE ListInv'
    OBVIOUS
  <2>1. ASSUME NEW S \in SUBSET Available, SelectFiles(S) PROVE ListInv'
    BY <2>1, SelectFilesKeeps
  <2>2. CASE MoveAttachment
    BY <2>2, MoveAttachmentKeeps
  <2>3. CASE MoveLocalFile
    BY <2>3, MoveLocalFileKeeps
  <2>4. CASE SaveAttachments
    BY <2>4, SaveAttachmentsKeeps
  <2>5. ASSUME NEW item, RemoveItem(item) PROVE ListInv'
    BY <2>5, RemoveItemKeeps
  <2>6. CASE UNCHANGED listVars
    BY <2>6 DEF listVars, ListInv
  <2>7. QED
    BY <2>1, <2>2, <2>3, <2>4, <2>5, <2>6 DEF ListNext
<1>2. QED
  BY <1>1, ListInitially, PTL DEF ListSpec

\* The variables have their types, and every motion group is of files that were
\* picked.
THEOREM ListTypesCorrect == ListSpec => []ListTypeOK
PROOF
<1>1. ListInv => ListTypeOK
  <2> SUFFICES ASSUME ListInv PROVE ListTypeOK
    OBVIOUS
  <2>1. Kept(attachments, localFiles, remaining, everPicked)
    BY DEF ListInv
  <2>2. FilesOf(attachments \o localFiles) = FilesOf(attachments) \cup FilesOf(localFiles)
    BY <2>1, OrderlyBoth DEF Kept
  <2>3. remaining \subseteq everPicked /\ everPicked \subseteq Available
    BY <2>1 DEF Kept
  <2>4. ASSUME NEW e \in FilesOf(attachments) \cup FilesOf(localFiles)
        PROVE  e.name \in {g.name : g \in Available} /\ (e.group = NoGroup \/ e.group[2] \subseteq Available)
    BY <2>1, <2>4 DEF Kept
  <2>5. QED
    BY <2>2, <2>3, <2>4 DEF ListTypeOK
<1>2. QED
  BY <1>1, ListInvariant, PTL

\* Whatever is moved, saved and removed in whatever order, the lists hold what
\* was picked and not removed, once each, and a live photo never loses one of
\* its halves; only a PSD that is listed nowhere may be missing.
THEOREM AttachmentsStay == ListSpec => []AttachmentsAreKept
PROOF
<1>1. ListInv => AttachmentsAreKept
  <2> SUFFICES ASSUME ListInv PROVE AttachmentsAreKept
    OBVIOUS
  <2> DEFINE list == attachments \o localFiles
             has(f) == {i \in DOMAIN list : list[i].name = f.name}
             both == FilesOf(attachments) \cup FilesOf(localFiles)
  <2>1. Kept(attachments, localFiles, remaining, everPicked)
    BY DEF ListInv
  <2>2. Orderly(list) /\ FilesOf(list) = both
    BY <2>1, OrderlyBoth DEF Kept
  <2> HIDE DEF list
  <2>3. ASSUME NEW f \in remaining PROVE Cardinality(has(f)) = 1 \/ (f.type = "psd" /\ Cardinality(has(f)) = 0)
    <3>1. CASE \E e \in FilesOf(list) : e.name = f.name
      <4>1. PICK i \in DOMAIN list : list[i].name = f.name
        BY <3>1 DEF FilesOf
      <4>2. \A j \in has(f) : j = i
        BY <2>2, <4>1 DEF Orderly, ListedOnce
      <4>3. has(f) = {i}
        BY <4>1, <4>2
      <4> HIDE DEF has
      <4>4. QED
        BY <4>3, FS_Singleton
    <3>2. CASE ~\E e \in FilesOf(list) : e.name = f.name
      <4>1. has(f) = {}
        BY <3>2 DEF FilesOf
      <4>2. f.type = "psd"
        BY <2>1, <2>2, <3>2 DEF Kept
      <4> HIDE DEF has
      <4>3. QED
        BY <4>1, <4>2, FS_EmptySet
    <3>3. QED
      BY <3>1, <3>2
  <2>4. \A f \in FilesOf(list) : \E g \in remaining : g.name = f.name
    BY <2>1, <2>2 DEF Kept
  <2>5. ASSUME NEW f \in FilesOf(list), f.group # NoGroup
        PROVE  \E item \in FilesOf(AttachmentItems \o LocalItems) : f \in FilesOf(item) /\ Len(item) = 2
    <3>1. PICK S, T \in SUBSET DOMAIN attachments :
            /\ S \cap T = {} /\ \A n \in DOMAIN attachments : attachments[n].group # NoGroup => n \in S
            /\ AttachmentItems = Items(Chosen(attachments, S)) \o Items(Chosen(attachments, T))
      BY PartsOfAttachments
    <3>2. PICK U, V \in SUBSET DOMAIN localFiles :
            /\ U \cap V = {} /\ \A n \in DOMAIN localFiles : localFiles[n].group # NoGroup => n \in U
            /\ LocalItems = Items(Chosen(localFiles, U)) \o Items(Chosen(localFiles, V))
      BY PartsOfLocalFiles
    <3>3. Orderly(attachments) /\ Orderly(localFiles)
      BY <2>1 DEF Kept
    <3>4. /\ ItemsApart(AttachmentItems)
          /\ \A g \in FilesOf(attachments) : g.group # NoGroup =>
                \E k \in DOMAIN AttachmentItems : g \in FilesOf(AttachmentItems[k]) /\ Len(AttachmentItems[k]) = 2
      BY <3>1, <3>3, ItemsOfBoth
    <3>5. /\ ItemsApart(LocalItems)
          /\ \A g \in FilesOf(localFiles) : g.group # NoGroup =>
                \E k \in DOMAIN LocalItems : g \in FilesOf(LocalItems[k]) /\ Len(LocalItems[k]) = 2
      BY <3>2, <3>3, ItemsOfBoth
    <3>6. FilesOf(AttachmentItems \o LocalItems) = FilesOf(AttachmentItems) \cup FilesOf(LocalItems)
      BY <3>4, <3>5, FilesOfBoth DEF ItemsApart
    <3>7. \/ \E item \in FilesOf(AttachmentItems) : f \in FilesOf(item) /\ Len(item) = 2
          \/ \E item \in FilesOf(LocalItems) : f \in FilesOf(item) /\ Len(item) = 2
      BY <2>2, <2>5, <3>4, <3>5 DEF FilesOf
    <3>8. QED
      BY <3>6, <3>7
  <2>6. QED
    BY <2>3, <2>4, <2>5 DEF AttachmentsAreKept, list
<1>2. QED
  BY <1>1, ListInvariant, PTL

-----------------------------------------------------------------------------
(* Import and export *)

\* A memo and its attachments, made before the number b was given out
MemoTyped(m, b) ==
    /\ m = [id |-> m.id, key |-> m.key, files |-> m.files]
    /\ m.id \in 1..(b - 1) /\ m.key \in MemoKeys
    /\ IsFiniteSet(m.files) /\ \A f \in m.files : f.id \in 1..(b - 1)

MemosTyped(V, b) ==
    /\ IsFiniteSet(V) /\ \A m \in V : MemoTyped(m, b)
    /\ \A m, n \in V : m.id = n.id => m = n

EntryTyped(e) == e.key \in MemoKeys /\ IsFiniteSet(e.names)

\* A sequence of whatever it has
IsList(s) == s \in Seq(Range(s))

EntriesTyped(s) == IsList(s) /\ \A e \in Range(s) : EntryTyped(e)

TodoTyped(s, b) == IsList(s) /\ \A t \in Range(s) : EntryTyped(t.of) /\ \A m \in t.memo : MemoTyped(m, b)

\* What an import has to do for an entry, over a list of memos
Needs(e, list) == IsNew(e, list) \/ Lacks(e, list)

\* A sequence has the elements that it lists.
LEMMA ListFacts ==
  ASSUME NEW R, NEW s \in Seq(R)
  PROVE  /\ IsList(s) /\ Range(s) \subseteq R /\ DOMAIN s = 1..Len(s) /\ Len(s) \in Nat
         /\ \A i \in DOMAIN s : s[i] \in Range(s)
         /\ \A x \in Range(s) : \E i \in DOMAIN s : x = s[i]
PROOF
<1>1. DOMAIN s = 1..Len(s) /\ Len(s) \in Nat /\ \A i \in DOMAIN s : s[i] \in R
  OBVIOUS
<1>2. /\ \A i \in DOMAIN s : s[i] \in Range(s)
      /\ \A x \in Range(s) : \E i \in DOMAIN s : x = s[i]
  BY DEF Range
<1>3. s \in [1..Len(s) -> Range(s)]
  BY <1>1, <1>2
<1>4. IsList(s)
  BY <1>1, <1>3, NumberedIsSeq DEF IsList
<1>5. QED
  BY <1>1, <1>2, <1>4

\* The memos of a list in its order
LEMMA OrderedMembers ==
  ASSUME NEW S, IsFiniteSet(S), \A x \in S : x.id \in Nat, \A x, y \in S : x.id = y.id => x = y
  PROVE  Cardinality(S) \in Nat /\ \A n \in 1..Cardinality(S) : Ordered(S)[n] \in S
PROOF
<1> DEFINE D == [x \in S |-> {y \in S : y.id <= x.id}]
<1>1. IsChain(S, D)
  <2>1. D \in [S -> SUBSET S] /\ \A x \in S : x \in D[x]
    OBVIOUS
  <2>2. ASSUME NEW x \in S, NEW z \in S, x.id < z.id PROVE D[x] # D[z] /\ D[x] \subseteq D[z]
    <3>1. z \in D[z] /\ z \notin D[x]
      BY <2>2
    <3>2. \A y \in S : y.id <= x.id => y.id <= z.id
      BY <2>2
    <3>3. QED
      BY <3>1, <3>2
  <2>3. \A x, z \in S : x # z => x.id < z.id \/ z.id < x.id
    OBVIOUS
  <2> HIDE DEF D
  <2>4. \A x, z \in S : x # z => D[x] # D[z] /\ (D[x] \subseteq D[z] \/ D[z] \subseteq D[x])
    BY <2>2, <2>3
  <2>5. QED
    BY <2>1, <2>4 DEF IsChain
<1>2. Cardinality(S) \in Nat /\ AreRanks(S, D)
  <2> HIDE DEF D
  <2>1. QED
    BY <1>1, RanksAreOneToOne
<1>3. ASSUME NEW n \in 1..Cardinality(S) PROVE Ordered(S)[n] \in S
  <2>1. PICK x \in S : Cardinality(D[x]) = n
    BY <1>2 DEF AreRanks
  <2>2. Cardinality({y \in S : y.id <= x.id}) = n
    BY <2>1
  <2>3. Ordered(S)[n] = CHOOSE z \in S : Cardinality({y \in S : y.id <= z.id}) = n
    BY DEF Ordered
  <2>4. QED
    BY <2>2, <2>3
<1>4. QED
  BY <1>2, <1>3

\* What an export has written
LEMMA PackedTyped ==
  ASSUME NEW b \in Nat, NEW some, MemosTyped(some, b), NEW lost
  PROVE  EntriesTyped(Packed(some, lost).memos)
PROOF
<1> DEFINE N == Cardinality(some)
           names == ExportNames(some)
           entry(i) == [key |-> Ordered(some)[i].key, names |-> {names[f] : f \in Ordered(some)[i].files \ lost}]
           written == [i \in 1..N |-> entry(i)]
<1>1. Packed(some, lost).memos = written
  BY DEF Packed
<1>2. N \in Nat /\ \A i \in 1..N : Ordered(some)[i] \in some
  <2>1. \A m \in some : m.id \in Nat
    BY DEF MemosTyped, MemoTyped
  <2>2. QED
    BY <2>1, OrderedMembers DEF MemosTyped
<1>3. ASSUME NEW i \in 1..N PROVE EntryTyped(entry(i))
  <2> DEFINE m == Ordered(some)[i]
             kept == m.files \ lost
             named == [f \in kept |-> names[f]]
             T == {names[f] : f \in kept}
  <2>1. m.key \in MemoKeys /\ IsFiniteSet(kept)
    <3>1. MemoTyped(m, b)
      BY <1>2 DEF MemosTyped
    <3>2. QED
      BY <3>1, FS_Subset DEF MemoTyped
  <2> HIDE DEF kept, names, m
  <2>2. named \in Surjection(kept, T)
    BY DEF Surjection
  <2>3. IsFiniteSet(T)
    BY <2>1, <2>2, FS_Surjection
  <2>4. entry(i) = [key |-> m.key, names |-> T]
    BY DEF kept, m
  <2>5. QED
    BY <2>1, <2>3, <2>4 DEF EntryTyped
<1> HIDE DEF N, entry
<1>4. Len(written) = N /\ DOMAIN written = 1..N /\ written \in Seq({entry(i) : i \in 1..N})
  <2> DEFINE R == {entry(i) : i \in 1..N}
  <2>1. written \in [1..N -> R]
    OBVIOUS
  <2> HIDE DEF R, written
  <2>2. QED
    BY <1>2, <2>1, NumberedIsSeq DEF R
<1>5. IsList(written) /\ Range(written) \subseteq {entry(i) : i \in 1..N}
  BY <1>4, ListFacts
<1>6. QED
  BY <1>1, <1>3, <1>5 DEF EntriesTyped

\* An entry is new or has attachments to add, not both.
LEMMA NewOrLacking ==
  ASSUME NEW e, NEW list
  PROVE  ~(IsNew(e, list) /\ Lacks(e, list))
PROOF
BY DEF IsNew, Lacks

\* Work for the entries that need it, each once: the n-th is for the one at at[n]
Serves(todo, at, entries, list) ==
    /\ at \in [DOMAIN todo -> DOMAIN entries]
    /\ \A n \in DOMAIN todo : /\ todo[n].of = entries[at[n]] /\ Needs(entries[at[n]], list)
                              /\ todo[n].memo = Existing(entries[at[n]].key, list)
    /\ \A m, n \in DOMAIN todo : at[m] = at[n] => m = n
    /\ \A i \in DOMAIN entries : Needs(entries[i], list) => \E n \in DOMAIN todo : at[n] = i

\* The work that a preview finds: each entry that needs it, once, and the memo it is for.
LEMMA PreviewFinds ==
  ASSUME NEW entries, IsList(entries), NEW list
  PROVE  LET P == Preview(entries, list) IN
         /\ P = [todo |-> P.todo, skipped |-> P.skipped]
         /\ IsList(P.todo) /\ P.skipped \in Nat /\ P.skipped + Len(P.todo) = Len(entries)
         /\ \E at : Serves(P.todo, at, entries, list)
PROOF
<1> DEFINE R == Range(entries)
           D == DOMAIN entries
           A == {i \in D : IsNew(entries[i], list)}
           U == {i \in D : Lacks(entries[i], list)}
           added == Chosen(entries, A)
           updated == Chosen(entries, U)
           both == added \o updated
           job(n) == [of |-> both[n], memo |-> Existing(both[n].key, list)]
           todo == [n \in DOMAIN both |-> job(n)]
           skip == Len(entries) - Len(both)
<1>1. Preview(entries, list) = [todo |-> todo, skipped |-> skip]
  <2>1. both = Additions(entries, list) \o Updates(entries, list)
    BY DEF Additions, Updates
  <2> HIDE DEF both
  <2>2. QED
    BY <2>1 DEF Preview
<1>2. entries \in Seq(R) /\ D = 1..Len(entries) /\ Len(entries) \in Nat
  BY DEF IsList
<1>3. A \in SUBSET DOMAIN entries /\ U \in SUBSET DOMAIN entries /\ A \cap U = {}
  BY NewOrLacking
<1>4. ASSUME NEW i \in D PROVE i \in A \cup U <=> Needs(entries[i], list)
  BY DEF Needs
<1> HIDE DEF R, A, U
<1>5. /\ added \in Seq(R) /\ Len(added) = Cardinality(A) /\ IsFiniteSet(A) /\ InOrder(A) \in [DOMAIN added -> A]
      /\ \A n \in DOMAIN added : added[n] = entries[InOrder(A)[n]]
      /\ \A m, n \in DOMAIN added : InOrder(A)[m] = InOrder(A)[n] => m = n
      /\ \A i \in A : \E n \in DOMAIN added : InOrder(A)[n] = i
  BY <1>2, <1>3, ChosenElements
<1>6. /\ updated \in Seq(R) /\ Len(updated) = Cardinality(U) /\ IsFiniteSet(U) /\ InOrder(U) \in [DOMAIN updated -> U]
      /\ \A n \in DOMAIN updated : updated[n] = entries[InOrder(U)[n]]
      /\ \A m, n \in DOMAIN updated : InOrder(U)[m] = InOrder(U)[n] => m = n
      /\ \A i \in U : \E n \in DOMAIN updated : InOrder(U)[n] = i
  BY <1>2, <1>3, ChosenElements
<1>7. Cardinality(A) + Cardinality(U) <= Len(entries)
  <2>1. Cardinality(A \cup U) = Cardinality(A) + Cardinality(U) - Cardinality(A \cap U)
    BY <1>5, <1>6, FS_Union
  <2>2. Cardinality(A \cap U) = 0
    BY <1>3, FS_EmptySet
  <2>3. IsFiniteSet(1..Len(entries)) /\ Cardinality(1..Len(entries)) = Len(entries)
    BY <1>2, FS_Interval
  <2>4. A \cup U \subseteq 1..Len(entries)
    BY <1>2, <1>3
  <2>5. Cardinality(A \cup U) <= Len(entries)
    BY <2>3, <2>4, FS_Subset
  <2>6. Cardinality(A) \in Nat /\ Cardinality(U) \in Nat
    BY <1>5, <1>6, FS_CardinalityType
  <2>7. QED
    BY <2>1, <2>2, <2>5, <2>6
<1> HIDE DEF added, updated
<1>8. /\ both \in Seq(R) /\ Len(both) = Len(added) + Len(updated)
      /\ DOMAIN both = 1..(Len(added) + Len(updated)) /\ Len(added) \in Nat /\ Len(updated) \in Nat
      /\ \A n \in DOMAIN added : n \in DOMAIN both /\ both[n] = added[n]
      /\ \A n \in DOMAIN updated : Len(added) + n \in DOMAIN both /\ both[Len(added) + n] = updated[n]
      /\ \A n \in DOMAIN both : \/ n \in DOMAIN added /\ both[n] = added[n]
                                \/ n - Len(added) \in DOMAIN updated /\ both[n] = updated[n - Len(added)]
  BY <1>5, <1>6, TwoParts
<1>9. DOMAIN added = 1..Len(added) /\ DOMAIN updated = 1..Len(updated)
  BY <1>5, <1>6
<1> DEFINE at == [n \in DOMAIN both |-> IF n <= Len(added) THEN InOrder(A)[n] ELSE InOrder(U)[n - Len(added)]]
<1> HIDE DEF both
<1>10. ASSUME NEW n \in DOMAIN both
       PROVE  \/ n \in DOMAIN added /\ at[n] = InOrder(A)[n] /\ at[n] \in A /\ both[n] = entries[at[n]]
              \/ n - Len(added) \in DOMAIN updated /\ n > Len(added) /\ at[n] = InOrder(U)[n - Len(added)] /\ at[n] \in U
                 /\ both[n] = entries[at[n]]
  <2>1. CASE n <= Len(added)
    <3>1. n \in DOMAIN added /\ at[n] = InOrder(A)[n]
      BY <1>8, <1>9, <2>1
    <3>2. both[n] = added[n]
      BY <1>8, <3>1
    <3>3. QED
      BY <1>5, <3>1, <3>2
  <2>2. CASE ~(n <= Len(added))
    <3>1. n - Len(added) \in DOMAIN updated /\ n > Len(added) /\ at[n] = InOrder(U)[n - Len(added)]
      BY <1>8, <1>9, <2>2
    <3>2. both[n] = updated[n - Len(added)]
      BY <1>8, <1>9, <2>2
    <3>3. QED
      BY <1>6, <3>1, <3>2
  <2>3. QED
    BY <2>1, <2>2
<1>11. at \in [DOMAIN both -> D]
  <2>1. \A n \in DOMAIN both : at[n] \in D
    BY <1>3, <1>10
  <2>2. QED
    BY <2>1
<1>12. ASSUME NEW m \in DOMAIN both, NEW n \in DOMAIN both, at[m] = at[n] PROVE m = n
  <2>1. CASE m \in DOMAIN added /\ at[m] = InOrder(A)[m] /\ at[m] \in A
    <3>1. n \in DOMAIN added /\ at[n] = InOrder(A)[n]
      BY <1>3, <1>10, <1>12, <2>1
    <3>2. QED
      BY <1>5, <1>12, <2>1, <3>1
  <2>2. CASE m - Len(added) \in DOMAIN updated /\ at[m] = InOrder(U)[m - Len(added)] /\ at[m] \in U
    <3>1. n - Len(added) \in DOMAIN updated /\ at[n] = InOrder(U)[n - Len(added)]
      BY <1>3, <1>10, <1>12, <2>2
    <3>2. m - Len(added) = n - Len(added)
      BY <1>6, <1>12, <2>2, <3>1
    <3>3. QED
      BY <1>8, <3>2
  <2>3. QED
    BY <1>10, <2>1, <2>2
<1>13. ASSUME NEW i \in D, Needs(entries[i], list) PROVE \E n \in DOMAIN both : at[n] = i
  <2>1. CASE i \in A
    <3>1. PICK n \in DOMAIN added : InOrder(A)[n] = i
      BY <1>5, <2>1
    <3>2. n \in DOMAIN both /\ n <= Len(added)
      BY <1>8, <1>9
    <3>3. QED
      BY <3>1, <3>2
  <2>2. CASE i \in U
    <3>1. PICK n \in DOMAIN updated : InOrder(U)[n] = i
      BY <1>6, <2>2
    <3>2. Len(added) + n \in DOMAIN both /\ ~(Len(added) + n <= Len(added)) /\ (Len(added) + n) - Len(added) = n
      BY <1>8, <1>9
    <3>3. at[Len(added) + n] = i
      BY <3>1, <3>2
    <3>4. QED
      BY <3>2, <3>3
  <2>3. QED
    BY <1>4, <1>13, <2>1, <2>2
<1>14. \A n \in DOMAIN both : Needs(entries[at[n]], list) /\ both[n] = entries[at[n]] /\ at[n] \in D
  BY <1>4, <1>10, <1>11
<1> HIDE DEF at
<1>15. DOMAIN todo = DOMAIN both /\ \A n \in DOMAIN todo : todo[n].of = entries[at[n]] /\ todo[n].memo = Existing(entries[at[n]].key, list)
  BY <1>14
<1>16. IsList(todo) /\ Len(todo) = Len(both)
  <2> DEFINE T == {job(n) : n \in DOMAIN both}
             k == Len(both)
  <2>1. DOMAIN both = 1..k /\ k \in Nat
    BY <1>8
  <2>2. todo \in [1..k -> T]
    BY <2>1
  <2> HIDE DEF T, todo, k
  <2>3. todo \in Seq(T) /\ Len(todo) = k
    BY <2>1, <2>2, NumberedIsSeq
  <2>4. IsList(todo)
    BY <2>3, ListFacts
  <2>5. QED
    BY <2>3, <2>4 DEF k
<1> HIDE DEF todo
<1>17. skip \in Nat /\ skip + Len(todo) = Len(entries)
  <2>1. Len(both) <= Len(entries) /\ Len(both) \in Nat
    BY <1>5, <1>6, <1>7, <1>8
  <2>2. QED
    BY <1>2, <1>16, <2>1
<1> HIDE DEF skip, D
<1> DEFINE P == Preview(entries, list)
<1>18. P.todo = todo /\ P.skipped = skip /\ P = [todo |-> P.todo, skipped |-> P.skipped]
  BY <1>1
<1>19. Serves(todo, at, entries, list)
  <2>1. \A m, n \in DOMAIN todo : at[m] = at[n] => m = n
    BY <1>12, <1>15
  <2>2. \A i \in DOMAIN entries : Needs(entries[i], list) => \E n \in DOMAIN todo : at[n] = i
    BY <1>13, <1>15 DEF D
  <2>3. at \in [DOMAIN todo -> DOMAIN entries]
    BY <1>11, <1>15 DEF D
  <2>4. \A n \in DOMAIN todo : /\ todo[n].of = entries[at[n]] /\ Needs(entries[at[n]], list)
                               /\ todo[n].memo = Existing(entries[at[n]].key, list)
    BY <1>14, <1>15
  <2>5. QED
    BY <2>1, <2>2, <2>3, <2>4 DEF Serves
<1> HIDE DEF P
<1>20. QED
  BY <1>16, <1>17, <1>18, <1>19 DEF P

\* Nothing is left to do for a file when none of its entries needs anything.
LEMMA NothingToDo ==
  ASSUME NEW entries, IsList(entries), NEW list, \A e \in Range(entries) : ~Needs(e, list)
  PROVE  Preview(entries, list).todo = <<>>
PROOF
<1> DEFINE todo == Preview(entries, list).todo
<1>0. IsList(todo) /\ \E at : Serves(todo, at, entries, list)
  BY PreviewFinds
<1>1. IsList(todo) /\ \A n \in DOMAIN todo : \E i \in DOMAIN entries : Needs(entries[i], list)
  BY <1>0 DEF Serves
<1>2. \A i \in DOMAIN entries : entries[i] \in Range(entries)
  BY DEF Range
<1> HIDE DEF todo
<1>3. \A n \in DOMAIN todo : FALSE
  BY <1>1, <1>2
<1>4. todo = <<>>
  BY <1>1, <1>3, NoneLeft DEF IsList
<1>5. QED
  BY <1>4 DEF todo

\* Without twins the memo of a key is the only one.
LEMMA TheOneMemo ==
  ASSUME NEW list, ~Twins(list), \A m \in list : m.id \in Nat, NEW k
  PROVE  Existing(k, list) = {m \in list : m.key = k}
PROOF
BY DEF Twins, Existing

\* The elements of a finite set in a row, each of them once
LEMMA RowOfAll ==
  ASSUME NEW S, IsFiniteSet(S)
  PROVE  LET row == SetToSeq(S) IN
         /\ Cardinality(S) \in Nat /\ row \in [1..Cardinality(S) -> S]
         /\ Len(row) = Cardinality(S) /\ DOMAIN row = 1..Cardinality(S)
         /\ \A x \in S : \E i \in DOMAIN row : row[i] = x
         /\ \A i, j \in DOMAIN row : row[i] = row[j] => i = j
PROOF
<1> DEFINE N == Cardinality(S)
           row == SetToSeq(S)
<1>1. N \in Nat /\ \E f \in [1..N -> S] : IsInjective(f)
  BY FS_CardinalityType DEF ExistsBijection, Bijection, Injection
<1>2. row \in [1..N -> S] /\ IsInjective(row)
  BY <1>1 DEF SetToSeq
<1> HIDE DEF N, row
<1>3. DOMAIN row = 1..N /\ Len(row) = N /\ row \in Seq(S)
  BY <1>1, <1>2, NumberedIsSeq
<1>4. IsFiniteSet(1..N) /\ Cardinality(1..N) = N
  BY <1>1, FS_Interval
<1>5. row \in Injection(1..N, S)
  BY <1>2 DEF Injection
<1>6. row \in Surjection(1..N, S)
  BY <1>1, <1>4, <1>5, FS_Injection DEF N
<1>7. \A x \in S : \E i \in 1..N : row[i] = x
  BY <1>6 DEF Surjection
<1>8. \A i, j \in DOMAIN row : row[i] = row[j] => i = j
  BY <1>2 DEF IsInjective
<1>9. QED
  BY <1>1, <1>2, <1>3, <1>7, <1>8 DEF N, row

\* The rest of a list, when its first element is taken
LEMMA RestOfList ==
  ASSUME NEW s, IsList(s), s # <<>>
  PROVE  /\ IsList(Tail(s)) /\ Len(Tail(s)) = Len(s) - 1 /\ Len(s) \in Nat \ {0} /\ DOMAIN s = 1..Len(s)
         /\ DOMAIN Tail(s) = 1..(Len(s) - 1)
         /\ \A n \in DOMAIN Tail(s) : n + 1 \in DOMAIN s /\ Tail(s)[n] = s[n + 1]
         /\ Range(Tail(s)) \subseteq Range(s) /\ Head(s) = s[1] /\ 1 \in DOMAIN s /\ Head(s) \in Range(s)
PROOF
<1> DEFINE R == Range(s)
<1>1. s \in Seq(R) /\ Len(s) \in Nat /\ DOMAIN s = 1..Len(s)
  BY DEF IsList
<1>2. Len(s) # 0
  BY <1>1
<1> HIDE DEF R
<1>3. /\ Tail(s) \in Seq(R) /\ Len(Tail(s)) = Len(s) - 1
      /\ DOMAIN Tail(s) = 1..(Len(s) - 1)
      /\ \A n \in DOMAIN Tail(s) : n + 1 \in DOMAIN s /\ Tail(s)[n] = s[n + 1]
      /\ Head(s) = s[1] /\ 1 \in DOMAIN s
  BY <1>1, <1>2
<1>4. IsList(Tail(s)) /\ Range(Tail(s)) \subseteq R
  BY <1>3, ListFacts
<1>5. Head(s) \in R
  BY <1>3 DEF R, Range
<1>6. QED
  BY <1>1, <1>2, <1>3, <1>4, <1>5 DEF R

-----------------------------------------------------------------------------
PlanTyped ==
    /\ plan = [todo |-> plan.todo, skipped |-> plan.skipped]
    /\ TodoTyped(plan.todo, next) /\ plan.skipped \in Nat

Tallies == [created : Nat, updated : Nat, skipped : Nat, failed : Nat, attachmentsFailed : Nat]

SentTyped(S, b) == IsFiniteSet(S) /\ \A f \in S : f.id \in 1..(b - 1)

StepTyped ==
    /\ step \in {"idle", "preview", "importing", "done"} /\ phase \in {"none", "upload", "send"}
    /\ phase = "none" <=> plan.todo = <<>>
    /\ step = "done" => phase = "none"

\* A file with the list that was at hand when it was dropped
FileTyped(file, b) == EntriesTyped(file.memos) /\ MemosTyped(file.list, b)

FilesTyped == FileTyped(offered, next) /\ \A file \in reading : FileTyped(file, next)

ImportTypes ==
    /\ next \in Nat \ {0} /\ MemosTyped(vault, next) /\ MemosTyped(known, next)
    /\ EntriesTyped(archive.memos) /\ EntriesTyped(parsed.memos) /\ FilesTyped
    /\ PlanTyped /\ tally \in Tallies /\ SentTyped(sent, next) /\ StepTyped
    /\ exports \in 0..MaxExports /\ events \in 0..MaxEvents /\ saw \in {"all", "some", "neither"}

\* What was made before an identity was given out was made before any later one.
LEMMA LaterMemo ==
  ASSUME NEW b \in Nat, NEW c \in Nat, b <= c, NEW m, MemoTyped(m, b)
  PROVE  MemoTyped(m, c)
PROOF
BY DEF MemoTyped

LEMMA LaterMemos ==
  ASSUME NEW b \in Nat, NEW c \in Nat, b <= c, NEW V, MemosTyped(V, b)
  PROVE  MemosTyped(V, c)
PROOF
BY LaterMemo DEF MemosTyped

LEMMA LaterFiles ==
  ASSUME next \in Nat, next' \in Nat, next <= next', FilesTyped, UNCHANGED <<offered, reading>>
  PROVE  FilesTyped'
PROOF
<1>1. ASSUME NEW file, FileTyped(file, next) PROVE FileTyped(file, next')
  BY <1>1, LaterMemos DEF FileTyped
<1>2. QED
  BY <1>1 DEF FilesTyped

LEMMA LaterTodo ==
  ASSUME NEW b \in Nat, NEW c \in Nat, b <= c, NEW s, TodoTyped(s, b)
  PROVE  TodoTyped(s, c)
PROOF
BY LaterMemo DEF TodoTyped

LEMMA LaterSent ==
  ASSUME NEW b \in Nat, NEW c \in Nat, b <= c, NEW S, SentTyped(S, b)
  PROVE  SentTyped(S, c)
PROOF
BY DEF SentTyped

\* A memo with other attachments, in place of what it was
LEMMA ReplacedMemo ==
  ASSUME NEW b \in Nat, NEW m, MemoTyped(m, b), NEW F, SentTyped(F, b)
  PROVE  LET n == [m EXCEPT !.files = F] IN
         MemoTyped(n, b) /\ n.id = m.id /\ n.key = m.key /\ n.files = F
PROOF
<1> DEFINE n == [m EXCEPT !.files = F]
<1>1. PICK i, k, f : m = [id |-> i, key |-> k, files |-> f]
  BY DEF MemoTyped
<1>2. n = [id |-> i, key |-> k, files |-> F]
  BY <1>1
<1>3. m.id = i /\ m.key = k
  BY <1>1
<1> HIDE DEF n
<1>4. n.id = i /\ n.key = k /\ n.files = F /\ n = [id |-> n.id, key |-> n.key, files |-> n.files]
  BY <1>2
<1>5. MemoTyped(n, b)
  BY <1>3, <1>4 DEF MemoTyped, SentTyped
<1>6. QED
  BY <1>3, <1>4, <1>5 DEF n

\* The files that are wanted for a memo are among those that the entry names.
LEMMA WantedIsNamed ==
  ASSUME NEW t, EntryTyped(t.of)
  PROVE  WantedFiles(t) \subseteq t.of.names /\ IsFiniteSet(WantedFiles(t))
PROOF
<1>1. WantedFiles(t) \subseteq t.of.names
  BY DEF WantedFiles, Missing
<1>2. QED
  BY <1>1, FS_Subset DEF EntryTyped

\* Every operation keeps the types.
LEMMA ExportTypes == ASSUME ImportTypes, Export PROVE ImportTypes'
PROOF
<1> USE DEF ImportTypes, Export
<1>1. PICK some, lost : some \in Selections(known) /\ archive' = Packed(some, lost)
  OBVIOUS
<1>2. MemosTyped(some, next)
  <2>1. some \subseteq known
    BY <1>1 DEF Selections
  <2>2. QED
    BY <2>1, FS_Subset DEF MemosTyped
<1>3. EntriesTyped(archive'.memos)
  BY <1>1, <1>2, PackedTyped
<1>4. exports' \in 0..MaxExports
  BY ImportAssumption
<1>5. PlanTyped' /\ StepTyped' /\ FilesTyped'
  BY DEF PlanTyped, StepTyped, FilesTyped, importing
<1>6. QED
  BY <1>3, <1>4, <1>5 DEF importing

LEMMA ListFetchedTypes == ASSUME ImportTypes, ListFetched PROVE ImportTypes'
PROOF
<1>1. known' \subseteq vault /\ IsFiniteSet(vault)
  BY DEF ImportTypes, ListFetched, Listings, MemosTyped
<1>2. MemosTyped(known', next)
  BY <1>1, FS_Subset DEF ImportTypes, MemosTyped
<1>3. QED
  BY <1>2 DEF ImportTypes, ListFetched, PlanTyped, StepTyped, FilesTyped, importing

\* What a preview plans has its type.
LEMMA PreviewTyped ==
  ASSUME NEW b \in Nat, NEW list, MemosTyped(list, b), NEW entries, EntriesTyped(entries)
  PROVE  LET P == Preview(entries, list) IN
         /\ P = [todo |-> P.todo, skipped |-> P.skipped] /\ P.skipped \in Nat /\ TodoTyped(P.todo, b)
PROOF
<1> DEFINE P == Preview(entries, list)
           todo == P.todo
<1>0. IsList(entries)
  BY DEF EntriesTyped
<1>1. /\ P = [todo |-> P.todo, skipped |-> P.skipped] /\ P.skipped \in Nat /\ IsList(todo)
      /\ \A n \in DOMAIN todo : \E i \in DOMAIN entries :
            todo[n].of = entries[i] /\ todo[n].memo = Existing(entries[i].key, list)
  <2>1. PICK at : Serves(todo, at, entries, list)
    BY <1>0, PreviewFinds
  <2>2. /\ P = [todo |-> P.todo, skipped |-> P.skipped] /\ P.skipped \in Nat /\ IsList(todo)
    BY <1>0, PreviewFinds
  <2> HIDE DEF P
  <2>3. \A n \in DOMAIN todo : /\ at[n] \in DOMAIN entries /\ todo[n].of = entries[at[n]]
                               /\ todo[n].memo = Existing(entries[at[n]].key, list)
    BY <2>1 DEF Serves
  <2>4. QED
    BY <2>2, <2>3
<1> HIDE DEF P
<1>2. ASSUME NEW t \in Range(todo) PROVE EntryTyped(t.of) /\ \A m \in t.memo : MemoTyped(m, b)
  <2>1. PICK n \in DOMAIN todo : t = todo[n]
    BY DEF Range
  <2>2. PICK i \in DOMAIN entries : t.of = entries[i] /\ t.memo = Existing(entries[i].key, list)
    BY <1>1, <2>1
  <2>3. entries[i] \in Range(entries)
    BY DEF Range
  <2>4. QED
    BY <2>2, <2>3 DEF EntriesTyped, MemosTyped, Existing
<1>3. QED
  BY <1>1, <1>2 DEF TodoTyped, P

LEMMA SelectFileTypes == ASSUME ImportTypes, NEW alone \in BOOLEAN, SelectFile(alone) PROVE ImportTypes'
PROOF
<1> USE DEF ImportTypes, SelectFile, importing
<1> DEFINE file == [number |-> events, memos |-> archive.memos,
                    data |-> IF alone THEN {} ELSE archive.data, list |-> known]
<1>1. FileTyped(file, next) /\ reading' = reading \cup {file} /\ UNCHANGED <<offered, next>>
  BY DEF FileTyped
<1> HIDE DEF file
<1>2. FilesTyped'
  BY <1>1 DEF FilesTyped
<1>3. PlanTyped' /\ StepTyped' /\ events' \in 0..MaxEvents
  BY ImportAssumption DEF PlanTyped, StepTyped
<1>4. QED
  BY <1>2, <1>3

LEMMA FileParsedTypes == ASSUME ImportTypes, NEW file \in reading, FileParsed(file) PROVE ImportTypes'
PROOF
<1> USE DEF ImportTypes, FileParsed, importing
<1>1. offered'.memos = file.memos /\ offered'.list = file.list /\ UNCHANGED next
  OBVIOUS
<1>2. FilesTyped'
  BY <1>1 DEF FilesTyped, FileTyped
<1>3. PlanTyped' /\ StepTyped'
  BY DEF PlanTyped, StepTyped
<1>4. QED
  BY <1>2, <1>3

LEMMA ConfirmImportTypes == ASSUME ImportTypes, ConfirmImport PROVE ImportTypes'
PROOF
<1> USE DEF ImportTypes, ConfirmImport
<1>1. EntriesTyped(offered.memos) /\ MemosTyped(offered.list, next) /\ next \in Nat /\ parsed'.memos = offered.memos
  BY DEF FilesTyped, FileTyped
<1>2. PlanTyped'
  BY <1>1, PreviewTyped DEF PlanTyped, OfferedPlan
<1>3. StepTyped'
  BY DEF StepTyped, CanConfirm
<1>4. tally' \in Tallies
  BY <1>2 DEF Tallies, NoTally, PlanTyped
<1>5. FilesTyped' /\ saw' \in {"all", "some", "neither"}
  BY DEF FilesTyped, Sight
<1>6. QED
  BY <1>1, <1>2, <1>3, <1>4, <1>5

\* Lists of nothing
LEMMA NothingInList == ASSUME NEW s, IsList(s) PROVE s = <<>> <=> Len(s) = 0
PROOF
<1> DEFINE R == Range(s)
<1>1. s \in Seq(R)
  BY DEF IsList
<1> HIDE DEF R
<1>2. QED
  BY <1>1

LEMMA NoListTyped == IsList(<<>>) /\ Range(<<>>) = {} /\ Len(<<>>) = 0
PROOF
BY DEF IsList, Range

LEMMA ResetImportTypes == ASSUME ImportTypes, ResetImport PROVE ImportTypes'
PROOF
<1> USE DEF ImportTypes, ResetImport
<1>1. EntriesTyped(<<>>) /\ TodoTyped(<<>>, next)
  BY NoListTyped DEF EntriesTyped, TodoTyped
<1>2. MemosTyped({}, next)
  BY FS_EmptySet DEF MemosTyped
<1>3. FilesTyped'
  BY <1>1, <1>2 DEF FilesTyped, FileTyped, NoneOffered
<1>4. CASE phase = "none"
  <2>1. plan'.todo = <<>> /\ plan'.skipped = 0 /\ plan' = [todo |-> plan'.todo, skipped |-> plan'.skipped]
    BY <1>4 DEF NoPlan
  <2>2. PlanTyped' /\ StepTyped'
    BY <1>1, <1>4, <2>1 DEF PlanTyped, StepTyped
  <2>3. EntriesTyped(parsed'.memos) /\ tally' \in Tallies
    BY <1>1, <1>4 DEF NoneParsed, NoTally, Tallies
  <2>4. QED
    BY <1>3, <2>2, <2>3
<1>5. CASE phase # "none"
  <2>1. PlanTyped' /\ StepTyped'
    BY <1>5 DEF PlanTyped, StepTyped
  <2>2. QED
    BY <1>3, <1>5, <2>1
<1>6. QED
  BY <1>4, <1>5

\* The first of the work, while there is some
LEMMA TaskTyped ==
  ASSUME ImportTypes, phase \in {"upload", "send"}
  PROVE  /\ EntryTyped(Task.of) /\ (\A m \in Task.memo : MemoTyped(m, next))
         /\ Task \in Range(plan.todo) /\ IsList(plan.todo) /\ plan.todo # <<>>
PROOF
BY RestOfList DEF ImportTypes, Task, PlanTyped, TodoTyped, StepTyped

\* What has been uploaded: the chosen names, each with an identity of its own
LEMMA Uploaded ==
  ASSUME NEW b \in Nat \ {0}, NEW ok, IsFiniteSet(ok)
  PROVE  LET names == SetToSeq(ok)
             made == {[name |-> names[i], id |-> b + i - 1] : i \in DOMAIN names}
         IN  SentTyped(made, b + Cardinality(ok)) /\ Named(made) = ok /\ Cardinality(ok) \in Nat
PROOF
<1> DEFINE names == SetToSeq(ok)
           N == Cardinality(ok)
           file == [i \in 1..N |-> [name |-> names[i], id |-> b + i - 1]]
           made == {[name |-> names[i], id |-> b + i - 1] : i \in DOMAIN names}
<1>1. /\ N \in Nat /\ DOMAIN names = 1..N /\ \A i \in 1..N : names[i] \in ok
      /\ \A x \in ok : \E i \in 1..N : names[i] = x
  BY RowOfAll
<1> HIDE DEF names, N
<1>2. \A f : f \in made <=> \E i \in 1..N : f = file[i]
  BY <1>1
<1>3. \A i \in 1..N : file[i].name = names[i] /\ file[i].id = b + i - 1
  OBVIOUS
<1>4. file \in Surjection(1..N, made)
  BY <1>2 DEF Surjection
<1> HIDE DEF file, made
<1>5. IsFiniteSet(made)
  <2>1. IsFiniteSet(1..N)
    BY <1>1, FS_Interval
  <2>2. QED
    BY <1>4, <2>1, FS_Surjection
<1>6. ASSUME NEW f \in made PROVE f.id \in 1..((b + N) - 1)
  <2>1. PICK i \in 1..N : f = file[i]
    BY <1>2
  <2>2. f.id = b + i - 1
    BY <1>3, <2>1
  <2>3. QED
    BY <1>1, <2>2
<1>7. Named(made) = ok
  <2>1. \A x : x \in Named(made) <=> \E f \in made : x = f.name
    BY DEF Named, Name
  <2>2. \A x : x \in Named(made) <=> \E i \in 1..N : x = names[i]
    BY <1>2, <1>3, <2>1
  <2>3. \A x : x \in Named(made) <=> x \in ok
    BY <1>1, <2>2
  <2>4. QED
    BY <2>3, Zenon
<1>8. QED
  BY <1>1, <1>5, <1>6, <1>7 DEF SentTyped, made, N, names

\* Counting more of anything
LEMMA TallyMore ==
  ASSUME tally \in Tallies, NEW n \in Nat
  PROVE  \A field \in DOMAIN tally : [tally EXCEPT ![field] = @ + n] \in Tallies
PROOF
<1>1. \A field \in {"created", "updated", "skipped", "failed", "attachmentsFailed"} : tally[field] + n \in Nat
  BY DEF Tallies
<1>2. DOMAIN tally = {"created", "updated", "skipped", "failed", "attachmentsFailed"}
  BY DEF Tallies
<1>3. QED
  BY <1>1, <1>2 DEF Tallies

LEMMA UploadManyTypes == ASSUME ImportTypes, UploadMany PROVE ImportTypes'
PROOF
<1> USE DEF ImportTypes, UploadMany
<1>1. PICK ok \in SUBSET (WantedFiles(Task) \cap parsed.data) :
          /\ sent' = {[name |-> SetToSeq(ok)[i], id |-> next + i - 1] : i \in DOMAIN SetToSeq(ok)}
          /\ next' = next + Cardinality(ok)
          /\ tally' = [tally EXCEPT !.attachmentsFailed = @ + Cardinality(WantedFiles(Task) \ ok)]
  BY Zenon
<1>2. IsFiniteSet(WantedFiles(Task))
  BY TaskTyped, WantedIsNamed
<1>3. IsFiniteSet(ok) /\ IsFiniteSet(WantedFiles(Task) \ ok)
  BY <1>1, <1>2, FS_Subset
<1>4. SentTyped(sent', next') /\ Cardinality(ok) \in Nat /\ Cardinality(WantedFiles(Task) \ ok) \in Nat
  BY <1>1, <1>3, Uploaded, FS_CardinalityType
<1>5. next' \in Nat \ {0} /\ next <= next' /\ next \in Nat
  BY <1>1, <1>4
<1>6. MemosTyped(vault', next') /\ MemosTyped(known', next') /\ TodoTyped(plan'.todo, next') /\ FilesTyped'
  BY <1>5, LaterMemos, LaterTodo, LaterFiles DEF PlanTyped
<1>7. tally' \in Tallies
  <2>1. "attachmentsFailed" \in DOMAIN tally
    BY DEF Tallies
  <2>2. QED
    BY <1>1, <1>4, <2>1, TallyMore
<1>8. PlanTyped' /\ StepTyped'
  <2>1. phase = "upload" /\ phase' = "send" /\ UNCHANGED <<plan, step>>
    OBVIOUS
  <2>2. QED
    BY <1>6, <2>1 DEF PlanTyped, StepTyped
<1>9. QED
  BY <1>4, <1>5, <1>6, <1>7, <1>8

\* The next of the work, when the memos have their types
LEMMA ProceedTypes ==
  ASSUME ImportTypes, phase = "send", NEW field \in {"created", "updated", "failed"}, Proceed(field),
         next' \in Nat, next <= next'
  PROVE  /\ PlanTyped' /\ StepTyped' /\ tally' \in Tallies /\ SentTyped(sent', next')
         /\ MemosTyped(known', next') /\ FilesTyped'
PROOF
<1> USE DEF ImportTypes, Proceed
<1>1. IsList(plan.todo) /\ plan.todo # <<>>
  BY TaskTyped
<1>2. plan'.todo = Tail(plan.todo) /\ plan'.skipped = plan.skipped /\ plan' = [todo |-> plan'.todo, skipped |-> plan'.skipped]
  <2>1. PICK a, c : plan = [todo |-> a, skipped |-> c]
    BY DEF PlanTyped
  <2>2. plan' = [todo |-> Tail(a), skipped |-> c]
    BY <2>1
  <2>3. QED
    BY <2>1, <2>2
<1>3. TodoTyped(plan'.todo, next')
  <2>1. TodoTyped(Tail(plan.todo), next)
    BY <1>1, RestOfList DEF PlanTyped, TodoTyped
  <2>2. QED
    BY <1>2, <2>1, LaterTodo
<1>4. StepTyped'
  <2>1. Len(plan.todo) \in Nat \ {0} /\ Len(plan'.todo) = Len(plan.todo) - 1 /\ IsList(plan'.todo)
    BY <1>1, <1>2, RestOfList
  <2>2. plan'.todo = <<>> <=> Len(plan'.todo) = 0
    BY <2>1, NothingInList
  <2>3. plan'.todo = <<>> <=> Len(plan.todo) = 1
    BY <2>1, <2>2
  <2>4. QED
    BY <2>3 DEF StepTyped
<1>5. tally' \in Tallies
  <2>1. field \in DOMAIN tally
    BY DEF Tallies
  <2>2. QED
    BY <2>1, TallyMore
<1>6. SentTyped(sent', next')
  BY FS_EmptySet DEF SentTyped, NotSent
<1>7. PlanTyped'
  BY <1>2, <1>3 DEF PlanTyped
<1>8. MemosTyped(known', next') /\ FilesTyped'
  BY LaterMemos, LaterFiles
<1>9. QED
  BY <1>4, <1>5, <1>6, <1>7, <1>8

\* A memo that nothing has been made after
LEMMA OneMoreMemo ==
  ASSUME NEW b \in Nat \ {0}, NEW V, MemosTyped(V, b), NEW k \in MemoKeys, NEW F, SentTyped(F, b)
  PROVE  MemosTyped(V \cup {[id |-> b, key |-> k, files |-> F]}, b + 1)
PROOF
<1> DEFINE m == [id |-> b, key |-> k, files |-> F]
<1>1. m.id = b /\ m.key = k /\ m.files = F /\ m = [id |-> m.id, key |-> m.key, files |-> m.files]
  OBVIOUS
<1> HIDE DEF m
<1>2. MemoTyped(m, b + 1)
  BY <1>1 DEF MemoTyped, SentTyped
<1>3. MemosTyped(V, b + 1)
  BY LaterMemos
<1>4. \A n \in V : n.id # b
  BY DEF MemosTyped, MemoTyped
<1>5. IsFiniteSet(V \cup {m})
  BY FS_AddElement DEF MemosTyped
<1>6. \A x \in V \cup {m} : MemoTyped(x, b + 1)
  BY <1>2, <1>3 DEF MemosTyped
<1>7. \A x, y \in V \cup {m} : x.id = y.id => x = y
  BY <1>1, <1>3, <1>4 DEF MemosTyped
<1>8. QED
  BY <1>5, <1>6, <1>7 DEF MemosTyped, m

LEMMA CreateImportedTypes == ASSUME ImportTypes, NEW answered \in BOOLEAN, CreateImported(answered) PROVE ImportTypes'
PROOF
<1> USE DEF ImportTypes, CreateImported
<1>1. Task.of.key \in MemoKeys
  BY TaskTyped DEF EntryTyped
<1>2. next' \in Nat \ {0} /\ next <= next' /\ next \in Nat /\ next' = next + 1
  OBVIOUS
<1>3. PICK given \in SUBSET sent : vault' = vault \cup {[id |-> next, key |-> Task.of.key, files |-> given]}
  OBVIOUS
<1>4. SentTyped(given, next)
  BY <1>3, FS_Subset DEF SentTyped
<1>5. MemosTyped(vault', next')
  BY <1>1, <1>2, <1>3, <1>4, OneMoreMemo
<1>6. PICK field \in {"created", "updated", "failed"} : Proceed(field)
  OBVIOUS
<1>7. PlanTyped' /\ StepTyped' /\ tally' \in Tallies /\ SentTyped(sent', next') /\ MemosTyped(known', next') /\ FilesTyped'
  BY <1>2, <1>6, ProceedTypes
<1>8. QED
  BY <1>2, <1>5, <1>6, <1>7 DEF Proceed

\* The attachments that an update asks for exist.
LEMMA OrderedFilesTyped ==
  ASSUME ImportTypes, NEW m, MemoTyped(m, next)
  PROVE  SentTyped(OrderedFiles(m), next)
PROOF
<1> DEFINE old == {f \in m.files : f.name \in Task.of.names /\ \A g \in m.files : g.name = f.name => g.id <= f.id}
<1>1. old \subseteq m.files /\ IsFiniteSet(m.files) /\ (\A f \in m.files : f.id \in 1..(next - 1)) /\ OrderedFiles(m) = old \cup sent
  BY DEF OrderedFiles, MemoTyped
<1>2. SentTyped(sent, next)
  BY DEF ImportTypes
<1> HIDE DEF old
<1>3. IsFiniteSet(old \cup sent)
  BY <1>1, <1>2, FS_Subset, FS_Union DEF SentTyped
<1>4. QED
  BY <1>1, <1>2, <1>3 DEF SentTyped

\* One memo with other attachments in place of what it was
LEMMA OneReplaced ==
  ASSUME NEW b \in Nat, NEW V, MemosTyped(V, b), NEW m \in V, NEW F, SentTyped(F, b)
  PROVE  MemosTyped((V \ {m}) \cup {[m EXCEPT !.files = F]}, b)
PROOF
<1> DEFINE n == [m EXCEPT !.files = F]
<1>1. MemoTyped(n, b) /\ n.id = m.id
  BY ReplacedMemo DEF MemosTyped
<1> HIDE DEF n
<1>2. IsFiniteSet((V \ {m}) \cup {n})
  BY FS_Subset, FS_AddElement DEF MemosTyped
<1>3. \A x, y \in (V \ {m}) \cup {n} : x.id = y.id => x = y
  BY <1>1 DEF MemosTyped
<1>4. QED
  BY <1>1, <1>2, <1>3 DEF MemosTyped, n

LEMMA UpdateImportedTypes == ASSUME ImportTypes, NEW answered \in BOOLEAN, UpdateImported(answered) PROVE ImportTypes'
PROOF
<1> USE DEF ImportTypes, UpdateImported
<1>1. PICK m \in Task.memo, n \in vault :
          \E got \in IF answered THEN {OrderedFiles(m)} ELSE Halfway(n.files, OrderedFiles(m)) :
             vault' = (vault \ {n}) \cup {[n EXCEPT !.files = got]}
  BY Zenon
<1>2. PICK got \in IF answered THEN {OrderedFiles(m)} ELSE Halfway(n.files, OrderedFiles(m)) :
          vault' = (vault \ {n}) \cup {[n EXCEPT !.files = got]}
  BY <1>1
<1>3. SentTyped(OrderedFiles(m), next) /\ SentTyped(n.files, next)
  <2>1. MemoTyped(m, next) /\ MemoTyped(n, next)
    BY <1>1, TaskTyped DEF MemosTyped
  <2>2. QED
    BY <2>1, OrderedFilesTyped DEF MemoTyped, SentTyped
<1>4. got \subseteq n.files \cup OrderedFiles(m)
  BY <1>2 DEF Halfway
<1>5. SentTyped(got, next)
  <2>1. IsFiniteSet(n.files \cup OrderedFiles(m))
    BY <1>3, FS_Union DEF SentTyped
  <2>2. QED
    BY <1>3, <1>4, <2>1, FS_Subset DEF SentTyped
<1>6. MemosTyped(vault', next)
  BY <1>1, <1>2, <1>5, OneReplaced
<1>7. PICK field \in {"created", "updated", "failed"} : Proceed(field)
  OBVIOUS
<1>8. PlanTyped' /\ StepTyped' /\ tally' \in Tallies /\ SentTyped(sent', next') /\ MemosTyped(known', next') /\ FilesTyped'
  BY <1>7, ProceedTypes
<1>9. QED
  BY <1>6, <1>7, <1>8 DEF Proceed

LEMMA ImportRefusedTypes == ASSUME ImportTypes, ImportRefused PROVE ImportTypes'
PROOF
<1> USE DEF ImportTypes, ImportRefused
<1>1. PlanTyped' /\ StepTyped' /\ tally' \in Tallies /\ SentTyped(sent', next') /\ MemosTyped(known', next') /\ FilesTyped'
  BY ProceedTypes
<1>2. QED
  BY <1>1 DEF Proceed

LEMMA ChangeElsewhereTypes == ASSUME ImportTypes, ChangeElsewhere PROVE ImportTypes'
PROOF
<1> USE DEF ImportTypes, ChangeElsewhere
<1>1. PICK m \in vault :
          \/ vault' = vault \ {m} /\ UNCHANGED next
          \/ \E f \in m.files :
                vault' = (vault \ {m}) \cup {[m EXCEPT !.files = @ \ {f}]} /\ UNCHANGED next
          \/ \E name \in Filenames :
                /\ next < MaxIds /\ next' = next + 1
                /\ vault' = (vault \ {m}) \cup {[m EXCEPT !.files = @ \cup {[name |-> <<name>>, id |-> next]}]}
  BY Zenon
<1>2. MemoTyped(m, next) /\ SentTyped(m.files, next) /\ next \in Nat
  BY DEF MemosTyped, MemoTyped, SentTyped
<1>3. next' \in Nat \ {0} /\ next <= next' /\ MemosTyped(vault', next')
  <2>1. CASE vault' = vault \ {m} /\ UNCHANGED next
    BY <2>1, FS_Subset DEF MemosTyped
  <2>2. CASE \E f \in m.files : vault' = (vault \ {m}) \cup {[m EXCEPT !.files = @ \ {f}]} /\ UNCHANGED next
    <3>1. PICK f \in m.files : vault' = (vault \ {m}) \cup {[m EXCEPT !.files = m.files \ {f}]} /\ UNCHANGED next
      BY <2>2
    <3>2. SentTyped(m.files \ {f}, next)
      BY <1>2, FS_Subset DEF SentTyped
    <3>3. MemosTyped((vault \ {m}) \cup {[m EXCEPT !.files = m.files \ {f}]}, next)
      BY <3>2, <1>2, OneReplaced
    <3>4. vault' = (vault \ {m}) \cup {[m EXCEPT !.files = m.files \ {f}]} /\ next' = next
      BY <3>1
    <3>5. QED
      BY <3>3, <3>4, <1>2
  <2>3. CASE \E name \in Filenames :
                /\ next < MaxIds /\ next' = next + 1
                /\ vault' = (vault \ {m}) \cup {[m EXCEPT !.files = @ \cup {[name |-> <<name>>, id |-> next]}]}
    <3>1. PICK name \in Filenames :
                /\ next' = next + 1
                /\ vault' = (vault \ {m}) \cup {[m EXCEPT !.files = m.files \cup {[name |-> <<name>>, id |-> next]}]}
      BY <2>3
    <3> DEFINE f == [name |-> <<name>>, id |-> next]
    <3>2. f.id = next
      OBVIOUS
    <3> HIDE DEF f
    <3>3. SentTyped(m.files \cup {f}, next')
      BY <1>2, <3>1, <3>2, FS_AddElement DEF SentTyped
    <3>4. MemosTyped(vault, next') /\ next' \in Nat
      BY <1>2, <3>1, LaterMemos
    <3>5. MemosTyped((vault \ {m}) \cup {[m EXCEPT !.files = m.files \cup {f}]}, next')
      BY <3>3, <3>4, OneReplaced
    <3>6. QED
      BY <1>2, <3>1, <3>5 DEF f
  <2>4. QED
    BY <1>1, <2>1, <2>2, <2>3
<1>4. MemosTyped(known', next') /\ PlanTyped' /\ SentTyped(sent', next') /\ FilesTyped'
  BY <1>2, <1>3, LaterMemos, LaterTodo, LaterSent, LaterFiles DEF PlanTyped
<1>5. events' \in 0..MaxEvents
  BY ImportAssumption
<1>6. StepTyped'
  BY DEF StepTyped
<1>7. QED
  BY <1>3, <1>4, <1>5, <1>6

\* The numbers of an array of n columns, row after row: those of the rows
\* before the k-th are below its first.
LEMMA RowBelow ==
  ASSUME NEW i \in Nat, NEW k \in Nat, NEW n \in Nat, i <= k
  PROVE  i * n <= k * n /\ i * n \in Nat /\ k * n \in Nat
PROOF
<1>1. k - i \in Nat /\ k = i + (k - i)
  OBVIOUS
<1>2. (k - i) * n \in Nat /\ k * n = i * n + (k - i) * n
  BY <1>1
<1>3. i * n \in Nat /\ k * n \in Nat
  OBVIOUS
<1>4. QED
  BY <1>2, <1>3

\* Each place of the array has a number within it.
LEMMA OwnNumber ==
  ASSUME NEW i \in Nat \ {0}, NEW k \in Nat, NEW n \in Nat, NEW j \in 1..(n + 1), i <= k
  PROVE  /\ (i - 1) * (n + 1) + j \in 1..(k * (n + 1)) /\ k * (n + 1) + 1 \in Nat \ {0}
PROOF
<1>1. i - 1 \in Nat /\ i <= k /\ n + 1 \in Nat
  OBVIOUS
<1>2. (i - 1) * (n + 1) \in Nat /\ i * (n + 1) = (i - 1) * (n + 1) + (n + 1)
  BY <1>1
<1>3. i * (n + 1) <= k * (n + 1) /\ k * (n + 1) \in Nat
  BY <1>1, RowBelow
<1>4. QED
  BY <1>2, <1>3

\* Rows begin at different numbers.
LEMMA OwnRow ==
  ASSUME NEW i \in Nat \ {0}, NEW k \in Nat \ {0}, NEW n \in Nat, (i - 1) * (n + 1) + 1 = (k - 1) * (n + 1) + 1
  PROVE  i = k
PROOF
<1>1. ASSUME NEW a \in Nat \ {0}, NEW c \in Nat \ {0}, a < c
      PROVE  (a - 1) * (n + 1) + 1 # (c - 1) * (n + 1) + 1
  <2>1. a - 1 \in Nat /\ c - 1 \in Nat /\ n + 1 \in Nat /\ a <= c - 1 /\ a \in Nat
    <3>1. a <= c - 1
      BY <1>1
    <3>2. QED
      BY <3>1
  <2>2. a * (n + 1) <= (c - 1) * (n + 1) /\ a * (n + 1) \in Nat /\ (c - 1) * (n + 1) \in Nat
    BY <2>1, RowBelow
  <2>3. a * (n + 1) = (a - 1) * (n + 1) + (n + 1) /\ (a - 1) * (n + 1) \in Nat
    BY <2>1
  <2>4. QED
    BY <2>2, <2>3
<1>2. i < k \/ k < i \/ i = k
  OBVIOUS
<1>3. QED
  BY <1>1, <1>2

\* The memos at first are numbered with their attachments, row by row.
LEMMA InitialMemos == ASSUME ImportInit PROVE next \in Nat \ {0} /\ MemosTyped(vault, next)
PROOF
<1> DEFINE keys == SetToSeq(MemoKeys)
           names == SetToSeq(Filenames)
           K == Cardinality(MemoKeys)
           N == Cardinality(Filenames)
           id(i, j) == (i - 1) * (N + 1) + j
           file(i, j) == [name |-> <<names[j]>>, id |-> id(i, j + 1)]
<1>1. /\ K \in Nat /\ Len(keys) = K /\ DOMAIN keys = 1..K /\ \A i \in 1..K : keys[i] \in MemoKeys
  BY RowOfAll, ImportAssumption
<1>2. N \in Nat /\ Len(names) = N /\ DOMAIN names = 1..N
  BY RowOfAll, ImportAssumption
<1> DEFINE first(a, i, j) == (i - 1) * (Len(a) + 1) + j
           filed(a, b, full) ==
              /\ vault = {[id |-> first(b, i, 1), key |-> a[i],
                           files |-> IF a[i] \in full
                                     THEN {[name |-> <<b[j]>>, id |-> first(b, i, j + 1)] : j \in DOMAIN b}
                                     ELSE {}] : i \in DOMAIN a}
              /\ next = first(b, Len(a) + 1, 1)
<1>3. PICK full \in SUBSET MemoKeys : filed(keys, names, full)
  BY Zenon DEF ImportInit
<1> HIDE DEF keys, names, K, N
<1> DEFINE files(i) == IF keys[i] \in full THEN {file(i, j) : j \in 1..N} ELSE {}
           memo == [i \in 1..K |-> [id |-> id(i, 1), key |-> keys[i], files |-> files(i)]]
<1>4. next = K * (N + 1) + 1 /\ \A m : m \in vault <=> \E i \in 1..K : m = memo[i]
  <2>1. vault = {[id |-> id(i, 1), key |-> keys[i], files |-> files(i)] : i \in 1..K}
    BY <1>1, <1>2, <1>3
  <2>2. next = K * (N + 1) + 1
    <3>1. K + 1 - 1 = K
      BY <1>1
    <3>2. QED
      BY <3>1, <1>1, <1>2, <1>3
  <2>3. QED
    BY <2>1, <2>2
<1>5. next \in Nat \ {0} /\ \A i \in 1..K : \A j \in 1..(N + 1) : id(i, j) \in 1..(next - 1)
  <2>1. ASSUME NEW i \in 1..K, NEW j \in 1..(N + 1) PROVE id(i, j) \in 1..(K * (N + 1))
    BY <1>1, <1>2, OwnNumber
  <2>2. K * (N + 1) \in Nat
    BY <1>1, <1>2
  <2> HIDE DEF id
  <2>3. next \in Nat \ {0} /\ next - 1 = K * (N + 1)
    BY <1>4, <2>2
  <2>4. QED
    BY <2>1, <2>3
<1>6. ASSUME NEW i \in 1..K PROVE IsFiniteSet(files(i)) /\ \A f \in files(i) : f.id \in 1..(next - 1)
  <2> DEFINE made == [j \in 1..N |-> file(i, j)]
             S == {file(i, j) : j \in 1..N}
  <2>1. made \in Surjection(1..N, S)
    BY DEF Surjection
  <2>2. IsFiniteSet(1..N)
    BY <1>2, FS_Interval
  <2>3. ASSUME NEW f \in S PROVE f.id \in 1..(next - 1)
    <3>1. PICK j \in 1..N : f = file(i, j)
      OBVIOUS
    <3>2. f.id = id(i, j + 1) /\ j + 1 \in 1..(N + 1)
      BY <3>1, <1>2
    <3>3. QED
      BY <3>2, <1>5
  <2> HIDE DEF S, made
  <2>4. IsFiniteSet(S)
    BY <2>1, <2>2, FS_Surjection
  <2>5. files(i) = S \/ files(i) = {}
    BY DEF S
  <2> HIDE DEF files
  <2>6. QED
    BY <2>3, <2>4, <2>5, FS_EmptySet
<1> HIDE DEF files
<1>7. ASSUME NEW i \in 1..K PROVE MemoTyped(memo[i], next) /\ memo[i].id = id(i, 1)
  <2> DEFINE m == memo[i]
  <2>1. m.id = id(i, 1) /\ m.key = keys[i] /\ m.files = files(i) /\ m = [id |-> m.id, key |-> m.key, files |-> m.files]
    OBVIOUS
  <2>2. id(i, 1) \in 1..(next - 1)
    BY <1>2, <1>5
  <2> HIDE DEF m, id
  <2>3. MemoTyped(m, next)
    BY <1>1, <1>6, <2>1, <2>2 DEF MemoTyped
  <2>4. QED
    BY <2>1, <2>3 DEF m
<1>8. IsFiniteSet(vault)
  <2>1. memo \in Surjection(1..K, vault)
    <3>1. memo \in [1..K -> vault] /\ \A m \in vault : \E i \in 1..K : memo[i] = m
      <4>1. \A i \in 1..K : memo[i] \in vault
        BY <1>4
      <4>2. \A m \in vault : \E i \in 1..K : memo[i] = m
        BY <1>4
      <4>3. DOMAIN memo = 1..K /\ memo = [i \in 1..K |-> memo[i]]
        OBVIOUS
      <4> HIDE DEF memo
      <4>4. QED
        BY <4>1, <4>2, <4>3
    <3> HIDE DEF memo
    <3>2. QED
      BY <3>1 DEF Surjection
  <2>2. IsFiniteSet(1..K)
    BY <1>1, FS_Interval
  <2> HIDE DEF memo
  <2>3. QED
    BY <2>1, <2>2, FS_Surjection
<1>9. ASSUME NEW m \in vault, NEW n \in vault, m.id = n.id PROVE m = n
  <2>1. PICK i \in 1..K, k \in 1..K : m = memo[i] /\ n = memo[k]
    BY <1>4
  <2>2. id(i, 1) = id(k, 1)
    BY <1>7, <1>9, <2>1
  <2>3. i = k
    BY <1>1, <1>2, <2>2, OwnRow
  <2>4. QED
    BY <2>1, <2>3
<1> HIDE DEF memo
<1>10. \A m \in vault : MemoTyped(m, next)
  BY <1>4, <1>7
<1>11. QED
  BY <1>5, <1>8, <1>9, <1>10 DEF MemosTyped

LEMMA InitialTypes == ASSUME ImportInit PROVE ImportTypes
PROOF
<1>1. next \in Nat \ {0} /\ MemosTyped(vault, next)
  BY InitialMemos
<1>2. EntriesTyped(<<>>) /\ TodoTyped(<<>>, next)
  BY NoListTyped DEF EntriesTyped, TodoTyped
<1>3. MemosTyped({}, next)
  BY FS_EmptySet DEF MemosTyped
<1>4. /\ known = {} /\ archive = NoArchive /\ exports = 0 /\ events = 0 /\ reading = {} /\ step = "idle"
      /\ offered = NoneOffered /\ phase = "none" /\ parsed = NoneParsed /\ plan = NoPlan /\ sent = NotSent
      /\ tally = NoTally /\ saw = "neither"
  BY DEF ImportInit
<1>5. EntriesTyped(archive.memos) /\ EntriesTyped(parsed.memos) /\ MemosTyped(known, next) /\ FilesTyped
  BY <1>2, <1>3, <1>4 DEF NoArchive, NoneParsed, NoneOffered, FilesTyped, FileTyped
<1>6. PlanTyped
  BY <1>2, <1>4 DEF PlanTyped, NoPlan
<1>7. tally \in Tallies /\ SentTyped(sent, next) /\ StepTyped
  BY <1>4, FS_EmptySet DEF Tallies, NoTally, SentTyped, NotSent, StepTyped, NoPlan
<1>8. exports \in 0..MaxExports /\ events \in 0..MaxEvents
  <2>1. MaxExports \in Nat /\ MaxEvents \in Nat
    BY ImportAssumption
  <2>2. 0 \in 0..MaxExports /\ 0 \in 0..MaxEvents
    BY <2>1
  <2>3. QED
    BY <1>4, <2>2
<1>9. QED
  BY <1>1, <1>4, <1>5, <1>6, <1>7, <1>8 DEF ImportTypes

LEMMA TypesStay == ASSUME ImportTypes, [ImportNext]_importVars PROVE ImportTypes'
PROOF
<1>1. CASE Export
  BY <1>1, ExportTypes
<1>2. CASE ListFetched
  BY <1>2, ListFetchedTypes
<1>3. ASSUME NEW alone \in BOOLEAN, SelectFile(alone) PROVE ImportTypes'
  BY <1>3, SelectFileTypes
<1>4. CASE ConfirmImport
  BY <1>4, ConfirmImportTypes
<1>5. CASE ResetImport
  BY <1>5, ResetImportTypes
<1>6. CASE UploadMany
  BY <1>6, UploadManyTypes
<1>7. ASSUME NEW answered \in BOOLEAN, CreateImported(answered) PROVE ImportTypes'
  BY <1>7, CreateImportedTypes
<1>8. ASSUME NEW answered \in BOOLEAN, UpdateImported(answered) PROVE ImportTypes'
  BY <1>8, UpdateImportedTypes
<1>9. CASE ImportRefused
  BY <1>9, ImportRefusedTypes
<1>10. CASE ChangeElsewhere
  BY <1>10, ChangeElsewhereTypes
<1>11. CASE UNCHANGED importVars
  BY <1>11 DEF importVars, ImportTypes, PlanTyped, StepTyped, FilesTyped
<1>12. ASSUME NEW file \in reading, FileParsed(file) PROVE ImportTypes'
  BY <1>12, FileParsedTypes
<1>13. QED
  BY <1>1, <1>2, <1>3, <1>4, <1>5, <1>6, <1>7, <1>8, <1>9, <1>10, <1>11, <1>12 DEF ImportNext

LEMMA TypesSuffice == ASSUME ImportTypes PROVE ImportTypeOK
PROOF
<1>1. \A m \in vault \cup known \cup offered.list : m.key \in MemoKeys /\ m.id < next
  BY DEF ImportTypes, FilesTyped, FileTyped, MemosTyped, MemoTyped
<1>2. DOMAIN tally = DOMAIN NoTally
  BY DEF ImportTypes, Tallies, NoTally
<1>3. QED
  BY <1>1, <1>2 DEF ImportTypes, ImportTypeOK, StepTyped

\* The variables of an import have their types.
THEOREM ImportTypesCorrect == ImportSpec => []ImportTypeOK
PROOF
<1>1. ImportInit => ImportTypes
  BY InitialTypes
<1>2. ImportTypes /\ [ImportNext]_importVars => ImportTypes'
  BY TypesStay
<1>3. ImportTypes => ImportTypeOK
  BY TypesSuffice
<1>4. QED
  BY <1>1, <1>2, <1>3, PTL DEF ImportSpec

\* Every memo of the file is accounted for: done, failed, passed over or still to do.
Counted ==
    (tally.created + tally.updated + tally.skipped + tally.failed) + Len(plan.todo) = Len(parsed.memos)

\* What has been uploaded is what is wanted, when no upload has failed.
SentIsWanted == phase = "send" /\ tally.attachmentsFailed = 0 => Named(sent) = WantedFiles(Task)

NothingFailed == tally.failed = 0 /\ tally.attachmentsFailed = 0

OneEach(entries) == \A i, j \in DOMAIN entries : entries[i].key = entries[j].key => i = j

WorkIsDistinct(todo) == \A i, j \in DOMAIN todo : todo[i].of.key = todo[j].of.key => i = j

\* Each task is for an entry of the file and for one memo of its key that is there, or none.
TaskIsFor(task, entries, V) ==
    /\ task.of \in Range(entries)
    /\ \A m \in task.memo : m \in V /\ m.key = task.of.key
    /\ \A m, n \in task.memo : m = n

WorkIsFor(todo, entries, V) == \A n \in DOMAIN todo : TaskIsFor(todo[n], entries, V)

\* No task is for a key of which there is a memo that it does not know.
KnowsAll(task, V) == \A m \in V : m.key = task.of.key => m \in task.memo

WorkKnowsAll(todo, V) == \A n \in DOMAIN todo : KnowsAll(todo[n], V)

\* A memo has all that the file has for it
Satisfied(e, V) == \E m \in V : m.key = e.key /\ Missing(e, m) = {}

RestIsSatisfied(todo, entries, V) ==
    \A e \in Range(entries) : Satisfied(e, V) \/ \E n \in DOMAIN todo : todo[n].of = e

Seen ==
    /\ saw # "neither" => /\ OneEach(parsed.memos)
                          /\ WorkIsDistinct(plan.todo) /\ WorkIsFor(plan.todo, parsed.memos, vault)
                          /\ NothingFailed => RestIsSatisfied(plan.todo, parsed.memos, vault)
    /\ saw = "all" => ~Twins(vault) /\ WorkKnowsAll(plan.todo, vault)

ImportRest == Counted /\ SentIsWanted /\ Seen

ImportInv == ImportTypes /\ ImportRest

\* Nothing that an import looks at changes.
LEMMA RestUnchanged ==
  ASSUME ImportRest, UNCHANGED <<vault, phase, parsed, plan, sent, tally, saw>>
  PROVE  ImportRest'
PROOF
BY DEF ImportRest, Counted, SentIsWanted, Task, NothingFailed, Seen

\* What a file has for a memo is there if and only if a preview finds nothing to do.
LEMMA SatisfiedNeedsNothing ==
  ASSUME NEW V, ~Twins(V), \A m \in V : m.id \in Nat, NEW e
  PROVE  Satisfied(e, V) <=> ~Needs(e, V)
PROOF
<1>1. Existing(e.key, V) = {m \in V : m.key = e.key}
  BY TheOneMemo
<1>2. \A m, n \in V : m.key = n.key => m = n
  BY DEF Twins
<1>3. QED
  BY <1>1, <1>2 DEF Satisfied, Needs, IsNew, Lacks

\* A preview knows one memo of a key at most.
LEMMA OneOfEachKey ==
  ASSUME NEW b, NEW list, MemosTyped(list, b), NEW k, NEW m \in Existing(k, list), NEW n \in Existing(k, list)
  PROVE  m = n
PROOF
<1>1. m.id <= n.id /\ n.id <= m.id /\ m \in list /\ n \in list
  BY DEF Existing
<1>2. m.id \in Int /\ n.id \in Int
  BY <1>1 DEF MemosTyped, MemoTyped
<1>3. m.id = n.id
  BY <1>1, <1>2
<1>4. QED
  BY <1>1, <1>3 DEF MemosTyped

\* An entry that needs nothing has its memo.
LEMMA UnneededIsSatisfied ==
  ASSUME NEW V, NEW list, list \subseteq V, NEW e, ~Needs(e, list)
  PROVE  Satisfied(e, V)
PROOF
<1>1. ~IsNew(e, list) /\ ~Lacks(e, list)
  BY DEF Needs
<1>2. PICK m : m \in Existing(e.key, list)
  BY <1>1 DEF IsNew
<1>3. Missing(e, m) = {}
  BY <1>1, <1>2 DEF Lacks
<1>4. m \in V /\ m.key = e.key
  BY <1>2 DEF Existing
<1>5. QED
  BY <1>3, <1>4 DEF Satisfied

\* What a preview plans, when the memos that it saw are as they were
LEMMA PlannedWell ==
  ASSUME NEW entries, IsList(entries), OneEach(entries), NEW b, NEW list, MemosTyped(list, b), NEW V, list \subseteq V,
         NEW todo, todo = Preview(entries, list).todo
  PROVE  /\ WorkIsDistinct(todo) /\ WorkIsFor(todo, entries, V) /\ RestIsSatisfied(todo, entries, V)
         /\ list = V /\ ~Twins(V) => WorkKnowsAll(todo, V)
PROOF
<1>1. \E at : Serves(todo, at, entries, list)
  BY PreviewFinds
<1>2. PICK at : Serves(todo, at, entries, list)
  BY <1>1
<1>3. \A n \in DOMAIN todo : /\ at[n] \in DOMAIN entries /\ todo[n].of = entries[at[n]]
                             /\ todo[n].memo = Existing(todo[n].of.key, list)
  BY <1>2 DEF Serves
<1>4. WorkIsFor(todo, entries, V)
  <2>1. ASSUME NEW n \in DOMAIN todo PROVE TaskIsFor(todo[n], entries, V)
    <3>1. todo[n].of \in Range(entries) /\ todo[n].memo = Existing(todo[n].of.key, list)
      BY <1>3 DEF Range
    <3>2. \A x, y \in todo[n].memo : x = y
      BY <3>1, OneOfEachKey
    <3>3. \A m \in todo[n].memo : m \in V /\ m.key = todo[n].of.key
      BY <3>1 DEF Existing
    <3>4. QED
      BY <3>1, <3>2, <3>3 DEF TaskIsFor
  <2>2. QED
    BY <2>1 DEF WorkIsFor
<1>5. WorkIsDistinct(todo)
  <2>1. \A i, j \in DOMAIN todo : todo[i].of.key = todo[j].of.key => at[i] = at[j]
    BY <1>3 DEF OneEach
  <2>2. \A i, j \in DOMAIN todo : at[i] = at[j] => i = j
    BY <1>2 DEF Serves
  <2>3. QED
    BY <2>1, <2>2 DEF WorkIsDistinct
<1>6. RestIsSatisfied(todo, entries, V)
  <2>1. ASSUME NEW e \in Range(entries), ~Satisfied(e, V) PROVE \E n \in DOMAIN todo : todo[n].of = e
    <3>1. PICK i \in DOMAIN entries : e = entries[i]
      BY DEF Range
    <3>2. Needs(entries[i], list)
      BY <2>1, <3>1, UnneededIsSatisfied
    <3>3. PICK n \in DOMAIN todo : at[n] = i
      BY <1>2, <3>2 DEF Serves
    <3>4. QED
      BY <1>3, <3>1, <3>3
  <2>2. QED
    BY <2>1 DEF RestIsSatisfied
<1>7. ASSUME list = V, ~Twins(V) PROVE WorkKnowsAll(todo, V)
  <2>1. \A m \in V : m.id \in Nat
    BY <1>7 DEF MemosTyped, MemoTyped
  <2>2. \A n \in DOMAIN todo : todo[n].memo = {m \in V : m.key = todo[n].of.key}
    BY <1>3, <1>7, <2>1, TheOneMemo
  <2>3. QED
    BY <2>2 DEF WorkKnowsAll, KnowsAll
<1>8. QED
  BY <1>4, <1>5, <1>6, <1>7

LEMMA ConfirmImportRest == ASSUME ImportInv, ConfirmImport PROVE ImportRest'
PROOF
<1> DEFINE entries == offered.memos
           list == offered.list
           todo == plan'.todo
<1>1. /\ IsList(entries) /\ MemosTyped(list, next) /\ parsed'.memos = entries /\ plan' = Preview(entries, list)
      /\ phase' = "upload" /\ UNCHANGED vault /\ saw' = Sight(entries, list)
  BY DEF ConfirmImport, OfferedPlan, ImportInv, ImportTypes, FilesTyped, FileTyped, EntriesTyped
<1>2. plan'.skipped \in Nat /\ plan'.skipped + Len(todo) = Len(entries)
  BY <1>1, PreviewFinds
<1>3. Counted'
  <2>1. tally'.skipped = plan'.skipped /\ tally'.created = 0 /\ tally'.updated = 0 /\ tally'.failed = 0
    BY DEF NoTally, ConfirmImport, OfferedPlan
  <2>2. (0 + 0 + plan'.skipped) + 0 = plan'.skipped
    BY <1>2
  <2>3. QED
    BY <1>1, <1>2, <2>1, <2>2 DEF Counted
<1>4. SentIsWanted'
  BY <1>1 DEF SentIsWanted
<1>5. Seen'
  <2>1. saw' # "neither" => list \subseteq vault /\ OneEach(entries)
    BY <1>1 DEF Sight, OneEach
  <2>2. saw' = "all" => list = vault /\ ~Twins(vault)
    BY <1>1 DEF Sight
  <2> HIDE DEF entries, list
  <2>3. saw' # "neither" => /\ WorkIsDistinct(todo) /\ WorkIsFor(todo, entries, vault) /\ RestIsSatisfied(todo, entries, vault)
                            /\ list = vault /\ ~Twins(vault) => WorkKnowsAll(todo, vault)
    BY <1>1, <2>1, PlannedWell
  <2>4. saw' = "all" => saw' # "neither"
    OBVIOUS
  <2> HIDE DEF todo
  <2>5. /\ saw' # "neither" => /\ OneEach(parsed'.memos) /\ WorkIsDistinct(todo) /\ WorkIsFor(todo, parsed'.memos, vault')
                               /\ RestIsSatisfied(todo, parsed'.memos, vault')
        /\ saw' = "all" => ~Twins(vault') /\ WorkKnowsAll(todo, vault')
    BY <1>1, <2>1, <2>2, <2>3, <2>4
  <2>6. QED
    BY <2>5 DEF Seen, todo
<1>6. QED
  BY <1>3, <1>4, <1>5 DEF ImportRest

LEMMA ResetImportRest == ASSUME ImportInv, ResetImport PROVE ImportRest'
PROOF
<1>1. CASE phase # "none"
  BY <1>1, RestUnchanged DEF ResetImport, ImportInv
<1>2. CASE phase = "none"
  <2>1. /\ parsed'.memos = <<>> /\ plan'.todo = <<>> /\ tally' = NoTally /\ phase' = "none" /\ UNCHANGED <<vault, saw>>
    BY <1>2 DEF ResetImport, NoneParsed, NoPlan
  <2>2. Len(<<>>) = 0 /\ DOMAIN (<<>>) = {} /\ Range(<<>>) = {}
    BY DEF Range
  <2>3. Counted' /\ SentIsWanted'
    BY <2>1, <2>2 DEF Counted, SentIsWanted, NoTally
  <2>4. OneEach(<<>>) /\ WorkIsDistinct(<<>>) /\ WorkIsFor(<<>>, <<>>, vault) /\ RestIsSatisfied(<<>>, <<>>, vault) /\ WorkKnowsAll(<<>>, vault)
    BY <2>2 DEF OneEach, WorkIsDistinct, WorkIsFor, RestIsSatisfied, WorkKnowsAll
  <2>5. saw = "all" => ~Twins(vault)
    BY DEF ImportInv, ImportRest, Seen
  <2>6. Seen'
    BY <2>1, <2>4, <2>5 DEF Seen
  <2>7. QED
    BY <2>3, <2>6 DEF ImportRest
<1>3. QED
  BY <1>1, <1>2

LEMMA UploadManyRest == ASSUME ImportInv, UploadMany PROVE ImportRest'
PROOF
<1> USE DEF ImportInv, ImportRest
<1>1. PICK ok \in SUBSET (WantedFiles(Task) \cap parsed.data) :
          /\ sent' = {[name |-> SetToSeq(ok)[i], id |-> next + i - 1] : i \in DOMAIN SetToSeq(ok)}
          /\ tally' = [tally EXCEPT !.attachmentsFailed = @ + Cardinality(WantedFiles(Task) \ ok)]
  BY Zenon DEF UploadMany
<1>2. /\ phase = "upload" /\ phase' = "send" /\ UNCHANGED <<vault, parsed, plan, saw>>
      /\ IsFiniteSet(WantedFiles(Task)) /\ tally \in Tallies /\ next \in Nat \ {0}
  BY TaskTyped, WantedIsNamed DEF UploadMany, ImportTypes
<1> DEFINE lost == Cardinality(WantedFiles(Task) \ ok)
<1>3. IsFiniteSet(ok) /\ IsFiniteSet(WantedFiles(Task) \ ok) /\ lost \in Nat /\ (lost = 0 => ok = WantedFiles(Task))
  <2>1. IsFiniteSet(ok) /\ IsFiniteSet(WantedFiles(Task) \ ok)
    BY <1>1, <1>2, FS_Subset
  <2>2. lost \in Nat /\ (lost = 0 => WantedFiles(Task) \ ok = {})
    BY <2>1, FS_CardinalityType, FS_EmptySet
  <2>3. QED
    BY <1>1, <2>1, <2>2
<1> HIDE DEF lost
<1>4. /\ tally'.created = tally.created /\ tally'.updated = tally.updated /\ tally'.skipped = tally.skipped
      /\ tally'.failed = tally.failed /\ tally'.attachmentsFailed = tally.attachmentsFailed + lost
      /\ tally.attachmentsFailed \in Nat
  BY <1>1, <1>2 DEF lost, Tallies
<1>5. Counted'
  BY <1>2, <1>4 DEF Counted
<1>6. SentIsWanted'
  <2>1. Named(sent') = ok
    BY <1>1, <1>2, <1>3, Uploaded
  <2>2. tally'.attachmentsFailed = 0 => lost = 0
    BY <1>3, <1>4
  <2>3. Task' = Task
    BY <1>2 DEF Task
  <2>4. QED
    BY <1>3, <2>1, <2>2, <2>3 DEF SentIsWanted
<1>7. Seen'
  <2>1. Seen
    OBVIOUS
  <2>2. NothingFailed' => NothingFailed
    BY <1>3, <1>4 DEF NothingFailed
  <2>3. QED
    BY <1>2, <2>1, <2>2 DEF Seen
<1>8. QED
  BY <1>2, <1>5, <1>6, <1>7

LEMMA ChangeElsewhereRest == ASSUME ImportInv, ChangeElsewhere PROVE ImportRest'
PROOF
<1>1. UNCHANGED <<phase, parsed, plan, sent, tally>> /\ saw' = "neither"
  BY DEF ChangeElsewhere
<1>2. Counted' /\ SentIsWanted'
  BY <1>1 DEF ImportInv, ImportRest, Counted, SentIsWanted, Task
<1>3. QED
  BY <1>1, <1>2 DEF ImportRest, Seen

\* One more of the work is done, and counted.
LEMMA ProceedCounts ==
  ASSUME ImportInv, phase = "send", NEW field \in {"created", "updated", "failed"}, Proceed(field)
  PROVE  /\ Counted' /\ SentIsWanted' /\ plan'.todo = Tail(plan.todo)
         /\ NothingFailed' => NothingFailed /\ field # "failed"
PROOF
<1> USE DEF ImportInv, ImportRest
<1>1. IsList(plan.todo) /\ plan.todo # <<>>
  BY TaskTyped
<1>2. Len(Tail(plan.todo)) = Len(plan.todo) - 1 /\ Len(plan.todo) \in Nat \ {0}
  BY <1>1, RestOfList
<1>3. plan'.todo = Tail(plan.todo) /\ phase' \in {"upload", "none"} /\ UNCHANGED parsed
  <2>1. PICK a, c : plan = [todo |-> a, skipped |-> c]
    BY DEF ImportTypes, PlanTyped
  <2>2. plan' = [todo |-> Tail(a), skipped |-> c]
    BY <2>1 DEF Proceed
  <2>3. QED
    BY <2>1, <2>2 DEF Proceed
<1>4. tally' = [tally EXCEPT ![field] = @ + 1] /\ tally \in Tallies
  BY DEF Proceed, ImportTypes
<1>5. (tally'.created + tally'.updated + tally'.skipped + tally'.failed)
         = (tally.created + tally.updated + tally.skipped + tally.failed) + 1
  BY <1>4 DEF Tallies
<1>6. (tally.created + tally.updated + tally.skipped + tally.failed) + Len(plan.todo) = Len(parsed.memos)
  BY DEF Counted
<1>7. (tally.created + tally.updated + tally.skipped + tally.failed) \in Nat
  BY <1>4 DEF Tallies
<1>8. Counted'
  BY <1>2, <1>3, <1>5, <1>6, <1>7 DEF Counted
<1>9. SentIsWanted'
  BY <1>3 DEF SentIsWanted
<1>10. NothingFailed' => NothingFailed /\ field # "failed"
  BY <1>4 DEF NothingFailed, Tallies
<1>11. QED
  BY <1>3, <1>8, <1>9, <1>10

\* The memos of another key are the same.
OthersStay(k, V, W) == \A m : m.key # k => (m \in V <=> m \in W)

\* What is left of the work, when the memos that it is for stay and those of
\* the entries that are dealt with are as they should be
LEMMA RestOfWork ==
  ASSUME NEW todo, IsList(todo), todo # <<>>, NEW entries, NEW V, NEW W,
         WorkIsDistinct(todo), WorkIsFor(todo, entries, V),
         OthersStay(Head(todo).of.key, V, W)
  PROVE  /\ WorkIsDistinct(Tail(todo)) /\ WorkIsFor(Tail(todo), entries, W)
         /\ WorkKnowsAll(todo, V) => WorkKnowsAll(Tail(todo), W)
         /\ \A e : e.key # Head(todo).of.key /\ Satisfied(e, V) => Satisfied(e, W)
         /\ \A e : (\E n \in DOMAIN todo : todo[n].of = e) =>
                      e = Head(todo).of \/ \E n \in DOMAIN Tail(todo) : Tail(todo)[n].of = e
PROOF
<1> DEFINE rest == Tail(todo)
           task == Head(todo)
<1>1. /\ \A n \in DOMAIN rest : n + 1 \in DOMAIN todo /\ rest[n] = todo[n + 1] /\ n \in Nat \ {0}
      /\ DOMAIN todo = 1..Len(todo) /\ DOMAIN rest = 1..(Len(todo) - 1) /\ Len(todo) \in Nat /\ 1 \in DOMAIN todo /\ task = todo[1]
  BY RestOfList
<1> HIDE DEF rest, task
<1>2. \A n \in DOMAIN rest : rest[n].of.key # task.of.key
  BY <1>1 DEF WorkIsDistinct
<1>3. WorkIsDistinct(rest)
  <2>1. ASSUME NEW i \in DOMAIN rest, NEW j \in DOMAIN rest, rest[i].of.key = rest[j].of.key PROVE i = j
    <3>1. i + 1 = j + 1 /\ i \in Nat /\ j \in Nat
      BY <1>1, <2>1 DEF WorkIsDistinct
    <3>2. QED
      BY <3>1
  <2>2. QED
    BY <2>1 DEF WorkIsDistinct
<1>4. WorkIsFor(rest, entries, W)
  <2>1. ASSUME NEW n \in DOMAIN rest
        PROVE  TaskIsFor(rest[n], entries, W)
    <3>1. TaskIsFor(rest[n], entries, V)
      BY <1>1 DEF WorkIsFor
    <3>2. \A m : m.key = rest[n].of.key => (m \in V <=> m \in W)
      BY <1>2 DEF task, OthersStay
    <3>3. QED
      BY <3>1, <3>2 DEF TaskIsFor
  <2>2. QED
    BY <2>1 DEF WorkIsFor
<1>5. \A e : e.key # task.of.key /\ Satisfied(e, V) => Satisfied(e, W)
  BY DEF Satisfied, task, OthersStay
<1>6. ASSUME NEW n \in DOMAIN todo PROVE todo[n].of = task.of \/ \E i \in DOMAIN rest : rest[i].of = todo[n].of
  <2>1. CASE n = 1
    BY <1>1, <2>1
  <2>2. CASE n # 1
    <3>1. n - 1 \in DOMAIN rest /\ (n - 1) + 1 = n
      BY <1>1, <2>2
    <3>2. rest[n - 1] = todo[n]
      BY <1>1, <3>1
    <3>3. QED
      BY <3>1, <3>2
  <2>3. QED
    BY <2>1, <2>2
<1>7. ASSUME WorkKnowsAll(todo, V) PROVE WorkKnowsAll(rest, W)
  <2>1. ASSUME NEW n \in DOMAIN rest PROVE KnowsAll(rest[n], W)
    <3>1. KnowsAll(rest[n], V)
      BY <1>1, <1>7 DEF WorkKnowsAll
    <3>2. \A m : m.key = rest[n].of.key => (m \in V <=> m \in W)
      BY <1>2 DEF task, OthersStay
    <3>3. QED
      BY <3>1, <3>2 DEF KnowsAll
  <2>2. QED
    BY <2>1 DEF WorkKnowsAll
<1>8. QED
  BY <1>3, <1>4, <1>5, <1>6, <1>7 DEF rest, task

\* The entry of the task and the other entries of its key
LEMMA OneEntry ==
  ASSUME NEW entries, OneEach(entries), NEW d \in Range(entries), NEW e \in Range(entries), d.key = e.key
  PROVE  d = e
PROOF
BY DEF OneEach, Range

\* What one step has done, when the entry that it was for has all its files now
LEMMA SeenAfter ==
  ASSUME ImportInv, phase = "send", saw # "neither", NEW field \in {"created", "updated", "failed"}, Proceed(field),
         saw = "all" => ~Twins(vault'),
         OthersStay(Task.of.key, vault, vault'),
         NothingFailed' => Satisfied(Task.of, vault')
  PROVE  Seen'
PROOF
<1>1. /\ Seen /\ plan'.todo = Tail(plan.todo) /\ (NothingFailed' => NothingFailed) /\ IsList(plan.todo) /\ plan.todo # <<>>
      /\ UNCHANGED <<parsed, saw>>
  BY ProceedCounts, TaskTyped DEF ImportInv, ImportRest, Proceed
<1>2. /\ WorkIsDistinct(plan'.todo) /\ WorkIsFor(plan'.todo, parsed.memos, vault')
      /\ WorkKnowsAll(plan.todo, vault) => WorkKnowsAll(plan'.todo, vault')
      /\ \A e : e.key # Task.of.key /\ Satisfied(e, vault) => Satisfied(e, vault')
      /\ \A e : (\E n \in DOMAIN plan.todo : plan.todo[n].of = e) =>
                   e = Task.of \/ \E n \in DOMAIN plan'.todo : plan'.todo[n].of = e
  <2> DEFINE todo == plan.todo
             rest == plan'.todo
             entries == parsed.memos
             V == vault
             W == vault'
  <2>1. WorkIsDistinct(todo) /\ WorkIsFor(todo, entries, V)
    BY <1>1 DEF Seen
  <2>2. OthersStay(Head(todo).of.key, V, W)
    BY DEF Task
  <2>3. IsList(todo) /\ todo # <<>> /\ rest = Tail(todo) /\ Task = Head(todo)
    BY <1>1 DEF Task
  <2> HIDE DEF todo, rest, entries, V, W
  <2>4. /\ WorkIsDistinct(Tail(todo)) /\ WorkIsFor(Tail(todo), entries, W)
        /\ WorkKnowsAll(todo, V) => WorkKnowsAll(Tail(todo), W)
        /\ \A e : e.key # Head(todo).of.key /\ Satisfied(e, V) => Satisfied(e, W)
        /\ \A e : (\E n \in DOMAIN todo : todo[n].of = e) =>
                     e = Head(todo).of \/ \E n \in DOMAIN Tail(todo) : Tail(todo)[n].of = e
    BY <2>1, <2>2, <2>3, RestOfWork, Zenon
  <2>5. QED
    BY <2>3, <2>4 DEF todo, rest, entries, V, W
<1>3. Task.of \in Range(parsed.memos)
  <2>1. 1 \in DOMAIN plan.todo /\ Task = plan.todo[1]
    BY <1>1, RestOfList DEF Task
  <2>2. QED
    BY <1>1, <2>1 DEF Seen, WorkIsFor, TaskIsFor
<1>4. ASSUME NothingFailed' PROVE RestIsSatisfied(plan'.todo, parsed.memos, vault')
  <2>1. ASSUME NEW e \in Range(parsed.memos) PROVE Satisfied(e, vault') \/ \E n \in DOMAIN plan'.todo : plan'.todo[n].of = e
    <3>1. CASE e = Task.of
      BY <1>4, <3>1
    <3>2. CASE e # Task.of
      <4>1. e.key # Task.of.key
        BY <1>1, <1>3, <3>2, OneEntry DEF Seen
      <4>2. Satisfied(e, vault) \/ \E n \in DOMAIN plan.todo : plan.todo[n].of = e
        BY <1>1, <1>4 DEF Seen, RestIsSatisfied
      <4>3. QED
        BY <1>2, <3>2, <4>1, <4>2
    <3>3. QED
      BY <3>1, <3>2
  <2>2. QED
    BY <2>1 DEF RestIsSatisfied
<1>5. OneEach(parsed.memos)
  BY <1>1 DEF Seen
<1>6. saw = "all" => WorkKnowsAll(plan'.todo, vault')
  BY <1>1, <1>2 DEF Seen
<1>7. QED
  BY <1>1, <1>2, <1>4, <1>5, <1>6 DEF Seen

\* The first of the work is for one memo of its key, as it is now, or for a new one.
LEMMA TaskFor ==
  ASSUME ImportInv, phase = "send", saw # "neither"
  PROVE  Seen /\ TaskIsFor(Task, parsed.memos, vault) /\ (saw = "all" => KnowsAll(Task, vault))
PROOF
<1>1. Seen /\ IsList(plan.todo) /\ plan.todo # <<>>
  BY TaskTyped DEF ImportInv, ImportRest
<1>2. 1 \in DOMAIN plan.todo /\ Task = plan.todo[1]
  BY <1>1, RestOfList DEF Task
<1>3. QED
  BY <1>1, <1>2 DEF Seen, WorkIsFor, WorkKnowsAll

LEMMA CreateImportedRest == ASSUME ImportInv, NEW answered \in BOOLEAN, CreateImported(answered) PROVE ImportRest'
PROOF
<1>1. PICK field \in {"created", "failed"} : Proceed(field) /\ (field = "created" <=> answered)
  BY DEF CreateImported
<1>2. PICK given \in SUBSET sent :
          /\ answered => given = sent
          /\ vault' = vault \cup {[id |-> next, key |-> Task.of.key, files |-> given]}
  BY DEF CreateImported
<1> DEFINE made == [id |-> next, key |-> Task.of.key, files |-> given]
<1>3. phase = "send" /\ Task.memo = {} /\ vault' = vault \cup {made} /\ saw' = saw
  BY <1>2 DEF CreateImported, Proceed
<1>4. made.key = Task.of.key /\ made.files = given
  OBVIOUS
<1> HIDE DEF made
<1>5. Counted' /\ SentIsWanted' /\ (NothingFailed' => NothingFailed /\ answered)
  BY <1>1, <1>3, ProceedCounts
<1>6. ASSUME saw # "neither" PROVE Seen'
  <2>1. Seen /\ (saw = "all" => \A m \in vault : m.key # Task.of.key)
    BY <1>3, <1>6, TaskFor DEF KnowsAll
  <2>2. saw = "all" => ~Twins(vault')
    BY <1>3, <1>4, <2>1 DEF Seen, Twins
  <2>3. OthersStay(Task.of.key, vault, vault')
    BY <1>3, <1>4 DEF OthersStay
  <2>4. ASSUME NothingFailed' PROVE Satisfied(Task.of, vault')
    <3>1. given = sent /\ Named(sent) = Task.of.names
      BY <1>2, <1>3, <1>5, <2>4 DEF NothingFailed, SentIsWanted, WantedFiles, ImportInv, ImportRest
    <3>2. Missing(Task.of, made) = {}
      BY <1>4, <3>1 DEF Missing
    <3>3. QED
      BY <1>3, <1>4, <3>2 DEF Satisfied
  <2>5. QED
    BY <1>1, <1>3, <1>6, <2>2, <2>3, <2>4, SeenAfter
<1>7. saw = "neither" => Seen'
  BY <1>3 DEF Seen
<1>8. QED
  BY <1>5, <1>6, <1>7 DEF ImportRest

LEMMA ImportRefusedRest == ASSUME ImportInv, ImportRefused PROVE ImportRest'
PROOF
<1>1. phase = "send" /\ Proceed("failed") /\ UNCHANGED <<vault, saw>>
  BY DEF ImportRefused, Proceed
<1>2. Counted' /\ SentIsWanted' /\ ~NothingFailed'
  BY <1>1, ProceedCounts
<1>3. ASSUME saw # "neither" PROVE Seen'
  <2>1. saw = "all" => ~Twins(vault')
    BY <1>1 DEF Seen, ImportInv, ImportRest
  <2>2. OthersStay(Task.of.key, vault, vault')
    BY <1>1 DEF OthersStay
  <2>3. QED
    BY <1>1, <1>2, <1>3, <2>1, <2>2, SeenAfter
<1>4. saw = "neither" => Seen'
  BY <1>1 DEF Seen
<1>5. QED
  BY <1>2, <1>3, <1>4 DEF ImportRest

\* Of each name in the file that the memo had, the update keeps an attachment.
LEMMA OldIsKept ==
  ASSUME NEW b \in Nat \ {0}, NEW m, MemoTyped(m, b), NEW f \in m.files, f.name \in Task.of.names
  PROVE  f.name \in Named({g \in m.files : g \in OrderedFiles(m)})
PROOF
<1> DEFINE ids == {i \in 1..(b - 1) : \E g \in m.files : g.name = f.name /\ g.id = i}
<1>1. b - 1 \in Nat /\ \A g \in m.files : g.id \in 1..(b - 1)
  BY DEF MemoTyped
<1>2. ids \in SUBSET (1..(b - 1)) /\ ids # {}
  BY <1>1
<1>3. PICK x \in ids : \A y \in ids : y <= x
  BY <1>1, <1>2, Largest
<1>4. PICK g \in m.files : g.name = f.name /\ g.id = x
  OBVIOUS
<1>5. \A h \in m.files : h.name = g.name => h.id <= g.id
  BY <1>1, <1>3, <1>4
<1>6. g \in OrderedFiles(m)
  BY <1>4, <1>5 DEF OrderedFiles
<1>7. QED
  BY <1>4, <1>6 DEF Named, Name

LEMMA OrderedKeeps ==
  ASSUME NEW b \in Nat \ {0}, NEW m, MemoTyped(m, b)
  PROVE  \A f \in m.files : f.name \in Task.of.names => f.name \in Named(OrderedFiles(m))
PROOF
BY OldIsKept DEF Named

Refiled(n, F, V, W) == W = (V \ {n}) \cup {[n EXCEPT !.files = F]}

BecameIn(n, F, V, W) ==
    \E w \in W : /\ w.id = n.id /\ w.key = n.key /\ w.files = F
                 /\ \A v : v \in W <=> v = w \/ (v \in V /\ v # n)

\* What becomes of the memos when one of them gets other attachments
LEMMA OneChanged ==
  ASSUME NEW b \in Nat, NEW V, MemosTyped(V, b), NEW n \in V, NEW F, NEW W, Refiled(n, F, V, W)
  PROVE  BecameIn(n, F, V, W)
PROOF
<1> DEFINE w == [n EXCEPT !.files = F]
<1>1. MemoTyped(n, b)
  BY DEF MemosTyped
<1>2. w.id = n.id /\ w.key = n.key /\ w.files = F
  BY <1>1 DEF MemoTyped
<1> HIDE DEF w
<1>3. w \in W /\ \A v : v \in W <=> v = w \/ (v \in V /\ v # n)
  BY DEF w, Refiled
<1>4. QED
  BY <1>2, <1>3 DEF BecameIn

\* What an update writes: some of what it asks for and what there was
UpdateWrites(m, n, answered) ==
    /\ m \in Task.memo /\ n \in vault /\ n.id = m.id /\ Acceptable(m)
    /\ \E F : /\ vault' = (vault \ {n}) \cup {[n EXCEPT !.files = F]}
              /\ answered => F = OrderedFiles(m)
              /\ n.files \cap OrderedFiles(m) \subseteq F

LEMMA UpdateIsWrite ==
  ASSUME NEW answered \in BOOLEAN, UpdateImported(answered)
  PROVE  \E m, n : UpdateWrites(m, n, answered)
PROOF
<1>1. PICK m \in Task.memo, n \in vault :
          /\ n.id = m.id /\ Acceptable(m)
          /\ \E got \in IF answered THEN {OrderedFiles(m)} ELSE Halfway(n.files, OrderedFiles(m)) :
                vault' = (vault \ {n}) \cup {[n EXCEPT !.files = got]}
  BY DEF UpdateImported
<1>2. PICK got \in IF answered THEN {OrderedFiles(m)} ELSE Halfway(n.files, OrderedFiles(m)) :
          vault' = (vault \ {n}) \cup {[n EXCEPT !.files = got]}
  BY <1>1
<1>3. (answered => got = OrderedFiles(m)) /\ n.files \cap OrderedFiles(m) \subseteq got
  BY <1>2 DEF Halfway
<1>4. QED
  BY <1>1, <1>2, <1>3 DEF UpdateWrites

\* An update of a memo that is as it was at the preview
LEMMA UpdateInPlace ==
  ASSUME ImportInv, phase = "send", saw # "neither", NEW answered \in BOOLEAN, NEW m, NEW n, UpdateWrites(m, n, answered)
  PROVE  /\ m = n /\ OthersStay(Task.of.key, vault, vault')
         /\ saw = "all" => ~Twins(vault')
         /\ answered => Satisfied(Task.of, vault')
PROOF
<1>1. TaskIsFor(Task, parsed.memos, vault) /\ Seen
  BY TaskFor
<1>2. /\ m \in Task.memo /\ m \in vault /\ m.key = Task.of.key /\ m = n /\ Task.memo = {m} /\ Acceptable(m)
      /\ MemosTyped(vault, next) /\ next \in Nat \ {0} /\ MemoTyped(m, next)
  BY <1>1 DEF TaskIsFor, UpdateWrites, ImportInv, ImportTypes, MemosTyped
<1>3. PICK F : vault' = (vault \ {m}) \cup {[m EXCEPT !.files = F]} /\ (answered => F = OrderedFiles(m))
  BY <1>2 DEF UpdateWrites
<1>4. PICK w \in vault' : /\ w.id = m.id /\ w.key = m.key /\ w.files = F
                          /\ \A v : v \in vault' <=> v = w \/ (v \in vault /\ v # m)
  <2>1. Refiled(m, F, vault, vault')
    BY <1>3 DEF Refiled
  <2>2. BecameIn(m, F, vault, vault')
    BY <1>2, <2>1, OneChanged
  <2>3. QED
    BY <2>2 DEF BecameIn
<1>5. OthersStay(Task.of.key, vault, vault')
  BY <1>2, <1>4 DEF OthersStay
<1>6. saw = "all" => ~Twins(vault')
  BY <1>1, <1>2, <1>4 DEF Seen, Twins
<1>7. ASSUME answered PROVE Satisfied(Task.of, vault')
  <2>1. w.files = OrderedFiles(m)
    BY <1>3, <1>4, <1>7
  <2>2. Named(sent) = Missing(Task.of, m)
    <3>1. WantedFiles(Task) = Missing(Task.of, m)
      BY <1>2 DEF WantedFiles
    <3>2. QED
      BY <1>2, <3>1 DEF Acceptable
  <2>3. Named(sent) \subseteq Named(OrderedFiles(m))
    BY DEF Named, OrderedFiles
  <2>4. \A x \in Named(m.files) : x \in Task.of.names => x \in Named(OrderedFiles(m))
    BY <1>2, OrderedKeeps DEF Named, Name
  <2>5. Task.of.names \subseteq Named(OrderedFiles(m))
    BY <2>2, <2>3, <2>4 DEF Missing
  <2>6. Missing(Task.of, w) = {}
    BY <2>1, <2>5 DEF Missing
  <2>7. QED
    BY <1>2, <1>4, <2>6 DEF Satisfied
<1>8. QED
  BY <1>2, <1>5, <1>6, <1>7

LEMMA UpdateImportedRest == ASSUME ImportInv, NEW answered \in BOOLEAN, UpdateImported(answered) PROVE ImportRest'
PROOF
<1>1. PICK field \in {"updated", "failed"} : Proceed(field) /\ (field = "updated" <=> answered)
  BY DEF UpdateImported
<1>2. \E m, n : UpdateWrites(m, n, answered)
  BY UpdateIsWrite
<1>3. phase = "send" /\ saw' = saw
  BY <1>1 DEF UpdateImported, Proceed
<1>4. Counted' /\ SentIsWanted' /\ (NothingFailed' => answered)
  BY <1>1, <1>3, ProceedCounts
<1>5. ASSUME saw # "neither" PROVE Seen'
  <2>1. /\ saw = "all" => ~Twins(vault')
        /\ OthersStay(Task.of.key, vault, vault')
        /\ answered => Satisfied(Task.of, vault')
    BY <1>2, <1>3, <1>5, UpdateInPlace
  <2>2. QED
    BY <1>1, <1>3, <1>4, <1>5, <2>1, SeenAfter
<1>6. saw = "neither" => Seen'
  BY <1>3 DEF Seen
<1>7. QED
  BY <1>4, <1>5, <1>6 DEF ImportRest

\* Every operation keeps the invariant, which holds at first.
LEMMA ImportInvStays == ASSUME ImportInv, [ImportNext]_importVars PROVE ImportInv'
PROOF
<1>1. ImportTypes'
  BY TypesStay DEF ImportInv
<1>2. ImportRest'
  <2>1. CASE Export
    BY <2>1, RestUnchanged DEF Export, ImportInv, importing
  <2>2. CASE ListFetched
    BY <2>2, RestUnchanged DEF ListFetched, ImportInv, importing
  <2>3. ASSUME NEW alone \in BOOLEAN, SelectFile(alone) PROVE ImportRest'
    BY <2>3, RestUnchanged DEF SelectFile, ImportInv, importing
  <2>4. CASE ConfirmImport
    BY <2>4, ConfirmImportRest
  <2>5. CASE ResetImport
    BY <2>5, ResetImportRest
  <2>6. CASE UploadMany
    BY <2>6, UploadManyRest
  <2>7. ASSUME NEW answered \in BOOLEAN, CreateImported(answered) PROVE ImportRest'
    BY <2>7, CreateImportedRest
  <2>8. ASSUME NEW answered \in BOOLEAN, UpdateImported(answered) PROVE ImportRest'
    BY <2>8, UpdateImportedRest
  <2>9. CASE ImportRefused
    BY <2>9, ImportRefusedRest
  <2>10. CASE ChangeElsewhere
    BY <2>10, ChangeElsewhereRest
  <2>11. CASE UNCHANGED importVars
    BY <2>11, RestUnchanged DEF importVars, ImportInv
  <2>12. ASSUME NEW file \in reading, FileParsed(file) PROVE ImportRest'
    BY <2>12, RestUnchanged DEF FileParsed, ImportInv, importing
  <2>13. QED
    BY <2>1, <2>2, <2>3, <2>4, <2>5, <2>6, <2>7, <2>8, <2>9, <2>10, <2>11, <2>12 DEF ImportNext
<1>3. QED
  BY <1>1, <1>2 DEF ImportInv

LEMMA ImportInvAtFirst == ASSUME ImportInit PROVE ImportInv
PROOF
<1>1. ImportTypes
  BY InitialTypes
<1>2. phase = "none" /\ tally = NoTally /\ plan.todo = <<>> /\ parsed.memos = <<>> /\ saw = "neither"
  BY DEF ImportInit, NoPlan, NoneParsed
<1>3. Counted
  BY <1>2 DEF Counted, NoTally
<1>4. QED
  BY <1>1, <1>2, <1>3 DEF ImportInv, ImportRest, SentIsWanted, Seen

LEMMA InvIsComplete == ASSUME ImportInv PROVE ImportIsComplete
PROOF
<1> DEFINE Each == \A i \in DOMAIN parsed.memos : \E m \in vault : m.key = parsed.memos[i].key /\ Missing(parsed.memos[i], m) = {}
<1>1. SUFFICES ASSUME step = "done", plan.todo = <<>>
               PROVE  /\ tally.created + tally.updated + tally.skipped + tally.failed = Len(parsed.memos)
                      /\ tally.failed + tally.attachmentsFailed = 0 =>
                            /\ saw # "neither" => Each
                            /\ saw = "all" => ~Twins(vault) /\ Preview(parsed.memos, vault).todo = <<>>
  BY DEF ImportInv, ImportTypes, StepTyped, ImportIsComplete
<1>2. Len(plan.todo) = 0 /\ DOMAIN plan.todo = {}
  BY <1>1
<1>3. tally.created + tally.updated + tally.skipped + tally.failed = Len(parsed.memos)
  <2>1. (tally.created + tally.updated + tally.skipped + tally.failed) \in Nat
    BY DEF ImportInv, ImportTypes, Tallies
  <2>2. (tally.created + tally.updated + tally.skipped + tally.failed) + Len(plan.todo) = Len(parsed.memos)
    BY DEF ImportInv, ImportRest, Counted
  <2>3. QED
    BY <1>2, <2>1, <2>2
<1>4. ASSUME saw # "neither", tally.failed + tally.attachmentsFailed = 0 PROVE \A e \in Range(parsed.memos) : Satisfied(e, vault)
  <2>1. NothingFailed
    BY <1>4 DEF NothingFailed, ImportInv, ImportTypes, Tallies
  <2>2. QED
    BY <1>2, <1>4, <2>1 DEF ImportInv, ImportRest, Seen, RestIsSatisfied
<1>5. ASSUME saw # "neither", tally.failed + tally.attachmentsFailed = 0 PROVE Each
  BY <1>4, <1>5 DEF Range, Satisfied
<1>6. ASSUME saw = "all", tally.failed + tally.attachmentsFailed = 0
      PROVE  ~Twins(vault) /\ Preview(parsed.memos, vault).todo = <<>>
  <2>1. ~Twins(vault) /\ \A m \in vault : m.id \in Nat
    BY <1>6 DEF Seen, ImportInv, ImportRest, ImportTypes, MemosTyped, MemoTyped
  <2>2. \A e \in Range(parsed.memos) : ~Needs(e, vault)
    BY <1>4, <1>6, <2>1, SatisfiedNeedsNothing
  <2>3. IsList(parsed.memos)
    BY DEF ImportInv, ImportTypes, EntriesTyped
  <2>4. QED
    BY <2>1, <2>2, <2>3, NothingToDo
<1> HIDE DEF Each
<1>7. QED
  BY <1>3, <1>5, <1>6

\* When an import shows its result, each memo of its file was counted once, whatever
\* other files were read meanwhile; unless it shows a failure each is there with its
\* attachments, and nothing of the file is left to import when the list was complete.
\* The second part is for a file without two memos alike and a list whose memos have
\* not changed since, even one that was cut; the third for a complete list of memos
\* of which no two are alike.
THEOREM ImportsComplete == ImportSpec => []ImportIsComplete
PROOF
<1>1. ImportInit => ImportInv
  BY ImportInvAtFirst
<1>2. ImportInv /\ [ImportNext]_importVars => ImportInv'
  BY ImportInvStays
<1>3. ImportInv => ImportIsComplete
  BY InvIsComplete
<1>4. QED
  BY <1>1, <1>2, <1>3, PTL DEF ImportSpec

\* What a step of an import does to one memo on the server
MemoIsKept(m) ==
    \E n \in vault' :
       /\ n.id = m.id
       /\ m # n => \E t \in Task.memo : t.id = m.id
       /\ saw # "neither" => \A f \in m.files : f.name \in Task.of.names => f.name \in Named(n.files)

\* A memo that stays as it is
LEMMA UntouchedIsKept == ASSUME NEW m, m \in vault' PROVE MemoIsKept(m)
PROOF
<1>1. \A f \in m.files : f.name \in Named(m.files)
  BY DEF Named, Name
<1>2. QED
  BY <1>1 DEF MemoIsKept

\* An update loses no name that the file has.
LEMMA UpdateKeeps ==
  ASSUME ImportInv, NEW answered \in BOOLEAN, UpdateImported(answered), NEW v \in vault
  PROVE  MemoIsKept(v)
PROOF
<1>1. phase = "send"
  BY DEF UpdateImported
<1>2. PICK m, n : UpdateWrites(m, n, answered)
  BY UpdateIsWrite
<1>3. /\ MemosTyped(vault, next) /\ next \in Nat \ {0} /\ MemoTyped(m, next)
      /\ m \in Task.memo /\ n \in vault /\ n.id = m.id
  BY <1>1, <1>2, TaskTyped DEF ImportInv, ImportTypes, UpdateWrites
<1>4. PICK F : vault' = (vault \ {n}) \cup {[n EXCEPT !.files = F]} /\ n.files \cap OrderedFiles(m) \subseteq F
  BY <1>2 DEF UpdateWrites
<1>5. PICK w \in vault' : /\ w.id = n.id /\ w.key = n.key /\ w.files = F
                          /\ \A x : x \in vault' <=> x = w \/ (x \in vault /\ x # n)
  <2>1. Refiled(n, F, vault, vault')
    BY <1>4 DEF Refiled
  <2>2. BecameIn(n, F, vault, vault')
    BY <1>3, <2>1, OneChanged
  <2>3. QED
    BY <2>2 DEF BecameIn
<1>6. CASE v # n
  BY <1>5, <1>6, UntouchedIsKept
<1>7. CASE v = n
  <2>1. ASSUME saw # "neither", NEW f \in n.files, f.name \in Task.of.names PROVE f.name \in Named(F)
    <3>1. m = n
      BY <1>1, <1>2, <2>1, UpdateInPlace
    <3>2. f.name \in Named({g \in n.files : g \in OrderedFiles(m)})
      BY <1>3, <2>1, <3>1, OldIsKept
    <3>3. QED
      BY <1>4, <3>2 DEF Named
  <2>2. saw # "neither" => \A f \in v.files : f.name \in Task.of.names => f.name \in Named(w.files)
    BY <1>5, <1>7, <2>1
  <2>3. QED
    BY <1>3, <1>5, <1>7, <2>2 DEF MemoIsKept
<1>8. QED
  BY <1>6, <1>7

\* An import touches no memo that its file has nothing for, and leaves those
\* that it updates an attachment of each name that the file has for them.
THEOREM ImportsKeepTheFiles == ImportSpec => ImportKeepsWhatTheFileHas
PROOF
<1>1. ImportInit => ImportInv
  BY ImportInvAtFirst
<1>2. ImportInv /\ [ImportNext]_importVars => ImportInv'
  BY ImportInvStays
<1> DEFINE MemosAreKept == phase = "send" /\ events' = events => \A m \in vault : MemoIsKept(m)
<1>3. ASSUME ImportInv, [ImportNext]_importVars PROVE [MemosAreKept]_importVars
  <2>1. SUFFICES ASSUME phase = "send", events' = events, NEW m \in vault, ImportNext
                 PROVE  MemoIsKept(m)
    BY <1>3
  <2>2. CASE vault' = vault
    BY <2>2, UntouchedIsKept
  <2>3. ASSUME NEW answered \in BOOLEAN, CreateImported(answered) PROVE MemoIsKept(m)
    <3>1. m \in vault'
      BY <2>3 DEF CreateImported
    <3>2. QED
      BY <3>1, UntouchedIsKept
  <2>4. ASSUME NEW answered \in BOOLEAN, UpdateImported(answered) PROVE MemoIsKept(m)
    BY <1>3, <2>4, UpdateKeeps
  <2>5. ~ChangeElsewhere
    <3>1. events \in Nat
      BY <1>3, ImportAssumption DEF ImportInv, ImportTypes
    <3>2. QED
      BY <2>1, <3>1 DEF ChangeElsewhere
  <2>6. QED
    BY <2>1, <2>2, <2>3, <2>4, <2>5
       DEF ImportNext, Export, ListFetched, SelectFile, FileParsed, ConfirmImport, ResetImport, UploadMany, ImportRefused
<1>4. [MemosAreKept]_importVars <=> [phase = "send" /\ events' = events => \A m \in vault : \E n \in vault' :
           /\ n.id = m.id
           /\ m # n => \E t \in Task.memo : t.id = m.id
           /\ saw # "neither" => \A f \in m.files : f.name \in Task.of.names => f.name \in Named(n.files)]_importVars
  BY DEF MemoIsKept
<1>5. QED
  BY <1>1, <1>2, <1>3, <1>4, PTL DEF ImportSpec, ImportKeepsWhatTheFileHas

-----------------------------------------------------------------------------
(* The modules together: a behaviour of the instance is a behaviour of each. *)

LEMMA EachPartRuns ==
  WebSpec => /\ [](part \in Parts)
             /\ CacheSpec /\ EditorSpec /\ RecorderSpec /\ ImportSpec /\ ListSpec /\ TasksSpec
PROOF
<1>1. WebInit => part \in Parts /\ CacheInit /\ EditorInit /\ RecorderInit /\ ImportInit /\ ListInit /\ TasksInit
  BY DEF WebInit
<1>2. [WebNext]_webVars =>
         /\ part' = part
         /\ [CacheNext]_cacheVars /\ [EditorNext]_editorVars /\ [RecorderNext]_recorderVars
         /\ [ImportNext]_importVars /\ [ListNext]_listVars /\ [TasksNext]_taskVars
  BY DEF WebNext, webVars
<1>3. part \in Parts /\ part' = part => (part \in Parts)'
  OBVIOUS
<1>4. QED
  BY <1>1, <1>2, <1>3, PTL DEF WebSpec, CacheSpec, EditorSpec, RecorderSpec, ImportSpec, ListSpec, TasksSpec

\* The variables of each part have their types, whatever the parts do.
THEOREM WebTypesCorrect == WebSpec => []WebTypeOK
PROOF
<1>1. part \in Parts /\ CacheTypeOK /\ EditorTypeOK /\ RecorderTypeOK /\ ImportTypeOK /\ ListTypeOK /\ TasksTypeOK
         => WebTypeOK
  BY DEF WebTypeOK
<1>2. QED
  BY <1>1, EachPartRuns, CacheTypesCorrect, EditorTypesCorrect, RecorderTypesCorrect, ImportTypesCorrect, ListTypesCorrect,
     TaskTypesCorrect, PTL
=============================================================================
