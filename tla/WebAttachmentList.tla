-------------------------- MODULE WebAttachmentList --------------------------
(***************************************************************************)
(* The attachments of a memo as the editor lists them: those it has on the *)
(* server, then the files that wait for the next save.  What is shown are  *)
(* items, not files: the picture and the film of a live photo are one, and *)
(* are moved and removed together.  Moving an item makes the list anew out *)
(* of the items.                                                           *)
(***************************************************************************)
EXTENDS Orders, SequencesExt

CONSTANTS
    Available,      \* the files that may be picked: [name, type, stem]
    NoGroup         \* the motion group of a file that is no part of a live photo

\* A file is an object of its own, with a name (a blob URL) that no other has.
ASSUME ListAssumption ==
    /\ IsFiniteSet(Available)
    /\ \A f \in Available : f.type \in {"image", "psd", "video", "document", "audio"}
    /\ \A f, g \in Available : f.name = g.name => f = g
    /\ \A f \in Available, S \in SUBSET Available : NoGroup # <<f.stem, S>>

VARIABLES
    attachments,    \* those on the server, in their order
    localFiles,     \* those that wait
    everPicked,     \* history: what was ever picked
    remaining       \* history: what was picked and not removed

listVars == <<attachments, localFiles, everPicked, remaining>>

FilesOf(list) == {list[i] : i \in DOMAIN list}

-----------------------------------------------------------------------------
\* pairAppleLivePhotoFiles: one image and one video of the same name, picked
\* together, are a live photo.  A PSD is an image/ type as well.
IsImage(f) == f.type \in {"image", "psd"}

Pair(S, f) ==
    LET images == {g \in S : IsImage(g) /\ g.stem = f.stem}
        videos == {g \in S : g.type = "video" /\ g.stem = f.stem}
    IN  IF Cardinality(images) = 1 /\ Cardinality(videos) = 1 THEN images \cup videos ELSE {}

PairUp(S) == {[name |-> f.name, type |-> f.type,
                 group |-> IF f \in Pair(S, f) THEN <<f.stem, everPicked>> ELSE NoGroup] : f \in S}

\* buildAppleMotionItem and toLocalMotionItems: the picture, then the film;
\* buildSingleAttachmentItem, attachmentGroupToItem and fileToItem
Item(list, f) ==
    LET still == {g \in FilesOf(list) : g.group = f.group /\ IsImage(g)}
        video == {g \in FilesOf(list) : g.group = f.group /\ ~IsImage(g)}
    IN  IF f.group # NoGroup /\ Cardinality(still) = 1 /\ Cardinality(video) = 1
        THEN <<CHOOSE g \in still : TRUE, CHOOSE g \in video : TRUE>>
        ELSE <<f>>

\* The items of a list, in the order of their first files
Items(list) ==
    LET item == [i \in DOMAIN list |-> Item(list, list[i])]
    IN  Chosen(item, {i \in DOMAIN list : \A j \in 1..(i - 1) : item[j] # item[i]})

\* toAttachmentItems: pictures, films and live photos first; of the rest, what
\* categorizeFile calls audio or a document, which leaves out a PSD.
Visual(f) == f.type \in {"image", "video"} \/ f.group # NoGroup
Listed(f) == Visual(f) \/ f.type \in {"document", "audio"}

AttachmentItems ==
    Items(Chosen(attachments, {i \in DOMAIN attachments : Visual(attachments[i])}))
        \o Items(Chosen(attachments, {i \in DOMAIN attachments : ~Visual(attachments[i]) /\ Listed(attachments[i])}))

\* toLocalMotionItems: the live photos first
LocalItems ==
    Items(Chosen(localFiles, {i \in DOMAIN localFiles : localFiles[i].group # NoGroup}))
        \o Items(Chosen(localFiles, {i \in DOMAIN localFiles : localFiles[i].group = NoGroup}))

\* Mutation of Moved: the list is made of the first file of each item.
MovedFirst(items, i, j) ==
    LET swapped == [items EXCEPT ![i] = items[j], ![j] = items[i]]
    IN  [k \in DOMAIN swapped |-> swapped[k][1]]

\* The list that has the items i and j exchanged
Moved(items, i, j) == Concatenated([items EXCEPT ![i] = items[j], ![j] = items[i]])

Neighbours(items) == {n \in (DOMAIN items) \X (DOMAIN items) : n[1] = n[2] + 1 \/ n[2] = n[1] + 1}

-----------------------------------------------------------------------------
\* handleFileInputChange, with the files of one selection in any order
SelectFiles(S) ==
    /\ S # {} /\ S \cap everPicked = {}
    /\ \E chosen \in SetToSeqs(PairUp(S)) : localFiles' = localFiles \o chosen
    /\ remaining' = remaining \cup S
    /\ everPicked' = everPicked \cup S
    /\ UNCHANGED attachments

\* handleMoveAttachments
MoveAttachment ==
    /\ \E n \in Neighbours(AttachmentItems) : attachments' = Moved(AttachmentItems, n[1], n[2])
    /\ UNCHANGED <<localFiles, everPicked, remaining>>

\* handleMoveLocalFiles
MoveLocalFile ==
    /\ \E n \in Neighbours(LocalItems) : localFiles' = Moved(LocalItems, n[1], n[2])
    /\ UNCHANGED <<attachments, everPicked, remaining>>

\* handleRemoveItem
Removed(list, item) == Chosen(list, {i \in DOMAIN list : list[i] \notin FilesOf(item)})

RemoveItem(item) ==
    /\ \/ item \in FilesOf(AttachmentItems)
          /\ attachments' = Removed(attachments, item) /\ UNCHANGED localFiles
       \/ item \in FilesOf(LocalItems)
          /\ localFiles' = Removed(localFiles, item) /\ UNCHANGED attachments
    /\ remaining' = {f \in remaining : \A g \in FilesOf(item) : g.name # f.name}
    /\ UNCHANGED everPicked

\* memoService.save, which uploads the files in their order; the server removes
\* what is not among the attachments, and keeps the order of the others.
SaveAttachments ==
    /\ localFiles # <<>>
    /\ attachments' = attachments \o localFiles
    /\ localFiles' = <<>>
    /\ UNCHANGED <<everPicked, remaining>>

ListInit ==
    /\ attachments = <<>> /\ localFiles = <<>>
    /\ everPicked = {} /\ remaining = {}

ListNext ==
    \/ \E S \in SUBSET Available : SelectFiles(S)
    \/ MoveAttachment \/ MoveLocalFile \/ SaveAttachments
    \/ \E item \in FilesOf(AttachmentItems \o LocalItems) : RemoveItem(item)

ListSpec == ListInit /\ [][ListNext]_listVars

-----------------------------------------------------------------------------
ListTypeOK ==
    /\ \A f \in FilesOf(attachments \o localFiles) :
           /\ f.name \in {g.name : g \in Available}
           /\ f.group = NoGroup \/ f.group[2] \subseteq Available
    /\ remaining \subseteq everPicked /\ everPicked \subseteq Available

\* Whatever is moved, saved and removed in whatever order, the lists hold what
\* was picked and not removed, once each: a live photo never loses one of its
\* halves, and nothing that was removed comes back.  Only a PSD that is saved
\* without being half of a live photo may be missing: it is not listed, and the
\* next move leaves it out.
AttachmentsAreKept ==
    LET list == attachments \o localFiles
        times(f) == Cardinality({i \in DOMAIN list : list[i].name = f.name})
    IN  /\ \A f \in remaining : times(f) = 1 \/ (f.type = "psd" /\ times(f) = 0)
        /\ \A f \in FilesOf(list) : \E g \in remaining : g.name = f.name
        /\ \A f \in FilesOf(list) : f.group # NoGroup =>
               \E item \in FilesOf(AttachmentItems \o LocalItems) : f \in FilesOf(item) /\ Len(item) = 2
=============================================================================
