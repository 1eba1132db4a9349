------------------------------ MODULE WebTasks ------------------------------
(***************************************************************************)
(* The checkboxes of the tasks in a memo.  A click finds its task by       *)
(* counting the rendered items, changes the mark in a copy of the content, *)
(* and the content is written whole; so does the menu that ticks all of    *)
(* them.  The change is shown before it is made, and clicks do not wait    *)
(* for each other.  What a write does to the other memos that are shown is *)
(* WebMemoCache's.                                                         *)
(***************************************************************************)
EXTENDS Orders, SequencesExt

CONSTANTS
    Memos,          \* contents that the memo may have at first: sequences of lines
    MaxClicks,      \* bound: clicks
    MaxEdits        \* bound: edits on another device

VARIABLES
    content,        \* of the memo on the server
    seen,           \* of the memo as it is shown
    marking,        \* updates under way, in the order of the clicks
    clicked,        \* how many there were
    edits,          \* how many edits elsewhere
    intended,       \* history: the content as those who edit it mean it to be
    missed,         \* history: its lines whose kind the last click there does not heed
    overtaken       \* history: they did not wait for each other

taskVars == <<content, seen, marking, clicked, edits, intended, missed, overtaken>>

\* A line: a task whose mark follows a bullet or a number, one that does so
\* behind the sign of a quotation, or anything else.
Kinds == {"bullet", "number", "quoted", "text"}
Line == [kind : Kinds, checked : BOOLEAN]
IsTask(line) == line.kind # "text"

ASSUME TaskAssumption == Memos \subseteq Seq(Line) /\ MaxClicks \in Nat /\ MaxEdits \in Nat

\* Mutation of extractTasksFromAst: the tasks that follow a number are not counted.
extractBullets(c) == InOrder({l \in DOMAIN c : c[l].kind \in {"bullet", "quoted"}})

\* The lines of the tasks; those in a block of code are no tasks.
extractTasksFromAst(c) == InOrder({l \in DOMAIN c : IsTask(c[l])})

\* The task list items that are rendered before that of line l; splitting the
\* lists that mix tasks and other items keeps their order.
TaskIndex(c, l) == Cardinality({k \in DOMAIN c : k < l /\ IsTask(c[k])})

Marked(c, l, checked) == [c EXCEPT ![l].checked = checked]

\* toggleTaskAtLine knows bullets only.
toggleTaskAtIndex(c, i, checked) ==
    LET tasks == extractTasksFromAst(c)
    IN  IF i < Len(tasks) /\ c[tasks[i + 1]].kind = "bullet" THEN Marked(c, tasks[i + 1], checked) ELSE c

\* checkAllTasks and uncheckAllTasks know numbers as well.
setAllTaskMarkers(c, checked) ==
    [l \in DOMAIN c |-> IF c[l].kind \in {"bullet", "number"} THEN [c[l] EXCEPT !.checked = checked] ELSE c[l]]

\* The same lines, and the same marks on the tasks but for some
SameMarks(c, d, but) ==
    /\ DOMAIN c = DOMAIN d
    /\ \A l \in DOMAIN c : c[l].kind = d[l].kind /\ (IsTask(c[l]) /\ l \notin but => c[l].checked = d[l].checked)

-----------------------------------------------------------------------------
\* useUpdateMemo: what is to be shown waits until the fetches are cancelled.
Send(c, meant) ==
    /\ clicked < MaxClicks
    /\ clicked' = clicked + 1
    /\ marking' = Append(marking, [content |-> c, previous |-> seen, shown |-> FALSE, state |-> "sent"])
    /\ intended' = meant
    /\ overtaken' = (overtaken \/ ~SameMarks(seen, intended, missed))
    /\ UNCHANGED <<content, seen, edits>>

\* TaskListItem.handleChange, on the checkbox of line l, which every task has: the
\* click means its mark, of whatever kind it is.  An update is sent even when it
\* changes nothing.
ClickTask(l) ==
    /\ IsTask(seen[l])
    /\ Send(toggleTaskAtIndex(seen, TaskIndex(seen, l), ~seen[l].checked),
            IF l \in DOMAIN intended THEN Marked(intended, l, ~seen[l].checked) ELSE intended)
    /\ missed' = IF seen[l].kind = "bullet" THEN missed \ {l} ELSE missed \cup {l}

\* handleCheckAllTaskListItemsClick, handleUncheckAllTaskListItemsClick: they mean
\* the marks of all the tasks.
MarkAll(checked) ==
    /\ setAllTaskMarkers(seen, checked) # seen
    /\ Send(setAllTaskMarkers(seen, checked),
            [l \in DOMAIN intended |-> IF IsTask(intended[l]) THEN [intended[l] EXCEPT !.checked = checked] ELSE intended[l]])
    /\ missed' = {l \in DOMAIN seen : seen[l].kind = "quoted"}

\* onMutate: the queries are cancelled, and the content is shown.
ShowMarked(n) ==
    /\ ~marking[n].shown
    /\ marking' = [marking EXCEPT ![n].shown = TRUE, ![n].previous = seen]
    /\ seen' = marking[n].content
    /\ UNCHANGED <<content, clicked, edits, intended, missed, overtaken>>

\* The server writes what it is sent, in the order in which that arrives.
WriteMarked(n) ==
    /\ marking[n].shown /\ marking[n].state = "sent"
    /\ content' = marking[n].content
    /\ marking' = [marking EXCEPT ![n].state = "written"]
    /\ overtaken' = (overtaken \/ \E m \in 1..(n - 1) : marking[m].state = "sent")
    /\ UNCHANGED <<seen, clicked, edits, intended, missed>>

\* onSuccess: the answer is shown.
MarkedAnswered(n) ==
    /\ marking[n].state = "written"
    /\ seen' = marking[n].content
    /\ marking' = RemoveAt(marking, n)
    /\ UNCHANGED <<content, clicked, edits, intended, missed, overtaken>>

\* onError: what was shown before is shown again.
MarkingFails(n) ==
    /\ marking[n].shown
    /\ seen' = marking[n].previous
    /\ marking' = RemoveAt(marking, n)
    /\ intended' = content /\ missed' = {}
    /\ overtaken' = (overtaken \/ Len(marking) > 1)
    /\ UNCHANGED <<content, clicked, edits>>

\* The memo is fetched again.
Refreshed ==
    /\ seen # content
    /\ \A n \in DOMAIN marking : marking[n].state = "written"
    /\ seen' = content
    /\ UNCHANGED <<content, marking, clicked, edits, intended, missed, overtaken>>

\* Another device ticks a task, or writes a line before the others.
EditElsewhere ==
    /\ edits < MaxEdits
    /\ edits' = edits + 1
    /\ \/ \E l \in DOMAIN content : IsTask(content[l]) /\ content' = Marked(content, l, ~content[l].checked)
       \/ \E line \in Line : ~line.checked /\ content' = <<line>> \o content
    /\ intended' = content' /\ missed' = {}
    /\ overtaken' = (overtaken \/ \E n \in DOMAIN marking : marking[n].state = "sent")
    /\ UNCHANGED <<seen, marking, clicked>>

TasksInit ==
    /\ content \in Memos
    /\ seen = content /\ intended = content /\ missed = {}
    /\ marking = <<>> /\ clicked = 0 /\ edits = 0
    /\ overtaken = FALSE

TasksNext ==
    \/ \E l \in DOMAIN seen : ClickTask(l)
    \/ \E checked \in BOOLEAN : MarkAll(checked)
    \/ \E n \in DOMAIN marking : ShowMarked(n) \/ WriteMarked(n) \/ MarkedAnswered(n) \/ MarkingFails(n)
    \/ Refreshed \/ EditElsewhere

TasksSpec == TasksInit /\ [][TasksNext]_taskVars

-----------------------------------------------------------------------------
TasksTypeOK ==
    /\ {content, seen, intended} \subseteq Seq(Line)
    /\ \A n \in DOMAIN marking : marking[n].content \in Seq(Line) /\ marking[n].previous \in Seq(Line)
    /\ clicked \in 0..MaxClicks /\ overtaken \in BOOLEAN /\ missed \subseteq Nat

\* Several tasks may be ticked one after the other without waiting for the
\* server: as long as each click was made on what the ones before it had made of
\* the content, and the updates arrive in order, the memo on the server has the
\* lines that it had and the marks that were clicked, all of them and no others,
\* whatever other lines there are between the tasks.  Except for missed: nothing is
\* said of a mark that was last clicked on a task that follows a number or is
\* quoted, which the code has a checkbox for and does not write, nor of one that is
\* quoted since all were ticked together.
MarksAreWhatWasClicked ==
    ~overtaken /\ (\A n \in DOMAIN marking : marking[n].state = "written") => SameMarks(content, intended, missed)
=============================================================================
