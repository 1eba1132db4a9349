------------------------------- MODULE MCWeb -------------------------------
(* Instances of the modules about memos.  They share no state: a behaviour  *)
(* exercises one of them, and the others stay as they are at first.         *)
EXTENDS WebMemoCache, WebEditor, WebRecorder, WebImport, WebAttachmentList, WebTasks, TLC

VARIABLE part   \* which of them

Parts == {"cache", "editor", "recorder", "import", "list", "tasks"}

\* A live photo's picture and film, another picture of the same name, a document
File(name, type, stem) == [name |-> name, type |-> type, stem |-> stem]
FourFiles == {File("i", "image", "s"), File("v", "video", "s"), File("p", "psd", "s"), File("d", "document", "t")}

\* Two lines of any kind before a task that is ticked
ThreeLines ==
    LET Plain(k) == [kind |-> k, checked |-> FALSE]
    IN  {<<Plain(k1), Plain(k2), [kind |-> "bullet", checked |-> TRUE]>> : k1, k2 \in Kinds}

WebInit ==
    /\ part \in Parts
    /\ CacheInit /\ EditorInit /\ RecorderInit /\ ImportInit /\ ListInit /\ TasksInit
    /\ IF part = "import"
       THEN \A m, n \in vault : m.id < n.id /\ n.files # {} => m.files # {}
       ELSE \A m \in vault : m.files = {}
    /\ part # "tasks" => \A l \in DOMAIN content : content[l].kind = "bullet"

WebNext ==
    /\ \/ /\ part = "cache" /\ CacheNext
          /\ UNCHANGED <<editorVars, recorderVars, importVars, listVars, taskVars>>
       \/ /\ part = "editor" /\ EditorNext
          /\ UNCHANGED <<cacheVars, recorderVars, importVars, listVars, taskVars>>
       \/ /\ part = "recorder" /\ RecorderNext
          /\ UNCHANGED <<cacheVars, editorVars, importVars, listVars, taskVars>>
       \/ /\ part = "import" /\ ImportNext
          /\ UNCHANGED <<cacheVars, editorVars, recorderVars, listVars, taskVars>>
       \/ /\ part = "list" /\ ListNext
          /\ UNCHANGED <<cacheVars, editorVars, recorderVars, importVars, taskVars>>
       \/ /\ part = "tasks" /\ TasksNext
          /\ UNCHANGED <<cacheVars, editorVars, recorderVars, importVars, listVars>>
    /\ UNCHANGED part

webVars == <<part, cacheVars, editorVars, recorderVars, importVars, listVars, taskVars>>

WebSpec == WebInit /\ [][WebNext]_webVars

\* The variables of each part have their types.
WebTypeOK ==
    /\ part \in Parts
    /\ CacheTypeOK /\ EditorTypeOK /\ RecorderTypeOK /\ ImportTypeOK /\ ListTypeOK /\ TasksTypeOK
=============================================================================
