---------------------------- MODULE WebMemoCache ----------------------------
(***************************************************************************)
(* What one tab shows of the memos: the query cache                        *)
(* (web/src/hooks/useMemoQueries.ts), the paged list                       *)
(* (components/PagedMemoList), the menu that changes memos                 *)
(* (components/MemoActionMenu) and the stream of change events that keeps  *)
(* the cache up to date (hooks/useLiveMemoRefresh.ts), against a server    *)
(* whose memos other clients change too.                                   *)
(*                                                                         *)
(* The cache itself is the TanStack Query library: what it does with a     *)
(* fetch, an invalidation or a cancellation is external, and modelled as   *)
(* the hooks use it.                                                       *)
(***************************************************************************)
EXTENDS Integers, Sequences, FiniteSetsExt

CONSTANTS
    MemoCount,      \* bound: memos are numbered 1..MemoCount, by time of creation
    PageSize,       \* memos on a page of the list
    Contents,       \* what a memo can hold (positive numbers)
    PipeSize,       \* events the server buffers for the tab
    MaxChanges,     \* bound: changes made by other clients, and by the tab
    MaxFaults       \* bound: failures, lost connections, and pages left

ASSUME CacheAssumption ==
    /\ MemoCount \in Nat \ {0} /\ PageSize \in Nat \ {0}
    /\ PipeSize \in Nat \ {0} /\ MaxChanges \in Nat /\ MaxFaults \in Nat
    /\ Contents \subseteq Nat \ {0} /\ Contents # {}

VARIABLES
    memos,          \* on the server: what memo i holds, 0 where there is none
    born,           \* memos that the server ever created
    cache,          \* the cached queries
    asking,         \* the fetch of each query that is under way
    viewed,         \* queries that a mounted component observes
    stream,         \* the event stream, as the tab and as the server see it
    pipe,           \* events on their way to the tab
    update,         \* the mutation that the tab has under way
    changes,        \* history: changes made, and faults, so far
    behind          \* history: queries that may be out of date unnoticed

cacheVars == <<memos, born, cache, asking, viewed, stream, pipe, update, changes, behind>>

Keys == {"list", "detail"}      \* memoKeys.list(...) and memoKeys.detail(memo 1)
Absent == 0

\* A query that the cache does not hold has no pages.
Unknown == [pages |-> <<>>, invalid |-> FALSE]
NoFetch == [state |-> "idle", pages |-> <<>>, want |-> 0]
NoUpdate == [op |-> "none", memo |-> 0, content |-> 0, previous |-> <<>>, state |-> "idle", tries |-> 0]
Known(k) == cache[k].pages # <<>>

-----------------------------------------------------------------------------
(* The server: what it answers, and what it announces.                     *)

Present(ms) == {i \in DOMAIN ms : ms[i] # Absent}

\* The latest memo first: with the n-th there are n that are as late.
Rows(ms) == LET nth(n) == CHOOSE i \in Present(ms) : Cardinality({j \in Present(ms) : j >= i}) = n
            IN  [n \in 1..Cardinality(Present(ms)) |-> [memo |-> nth(n), content |-> ms[nth(n)]]]

\* Mutation of ListPage: the row that tells whether there is a next page stays.
ListPageUntrimmed(ms, n) ==
    LET rows == Rows(ms)
        rest == SubSeq(rows, (n - 1) * PageSize + 1, Len(rows))
    IN  [rows |-> SubSeq(rest, 1, Min({PageSize + 1, Len(rest)})), next |-> Len(rest) > PageSize]

\* The page token is an offset.
ListPage(ms, n) ==
    LET rows == Rows(ms)
        rest == SubSeq(rows, (n - 1) * PageSize + 1, Len(rows))
    IN  [rows |-> SubSeq(rest, 1, Min({PageSize, Len(rest)})), next |-> Len(rest) > PageSize]

DetailPage(ms) == [rows |-> IF ms[1] = Absent THEN <<>> ELSE << [memo |-> 1, content |-> ms[1]] >>,
                   next |-> FALSE]

ServerPage(k, n) == IF k = "list" THEN ListPage(memos, n) ELSE DetailPage(memos)

\* The queries that an event of this kind is about.
Affected(event) ==
    {"list"} \cup (IF event.type # "created" /\ event.memo = 1 THEN {"detail"} ELSE {})

\* A change is announced to a subscribed client whose buffer has room.
Commit(op, i, c) ==
    LET event == [type |-> op, memo |-> i]
    IN  /\ memos' = [memos EXCEPT ![i] = c]
        /\ born' = IF op = "created" THEN born + 1 ELSE born
        /\ IF stream.server /\ Len(pipe) < PipeSize
           THEN pipe' = Append(pipe, event) /\ UNCHANGED behind
           ELSE UNCHANGED pipe /\ behind' = behind \cup Affected(event)

Fault == changes.faults < MaxFaults /\ changes' = [changes EXCEPT !.faults = @ + 1]

Changeable(op, i, c) ==
    \/ op = "created" /\ i = born + 1 /\ i <= MemoCount /\ c \in Contents
    \/ op = "updated" /\ i \in 1..born /\ memos[i] # Absent /\ c \in Contents \ {memos[i]}
    \/ op = "deleted" /\ i \in 1..born /\ memos[i] # Absent /\ c = Absent

ElsewhereChanged(op, i, c) ==
    /\ changes.others < MaxChanges
    /\ changes' = [changes EXCEPT !.others = @ + 1]
    /\ Changeable(op, i, c)
    /\ Commit(op, i, c)
    /\ UNCHANGED <<cache, asking, viewed, stream, update>>

-----------------------------------------------------------------------------
(* The query cache.                                                        *)

Refetch(k) == [state |-> "asked", pages |-> <<>>, want |-> Len(cache[k].pages)]

\* invalidateQueries(ks): what is shown is fetched again, in place of a fetch
\* under way; a first fetch and that of a query no longer shown are kept, although
\* what they bring may have been read before the change.
Invalidate(ks) ==
    /\ cache' = [k \in Keys |-> IF k \in ks /\ Known(k) THEN [cache[k] EXCEPT !.invalid = TRUE]
                                ELSE cache[k]]
    /\ asking' = [k \in Keys |-> IF k \in ks \cap viewed /\ Known(k) THEN Refetch(k) ELSE asking[k]]

KeptFetches(ks) == {k \in ks : asking[k].pages # <<>> /\ ~(Known(k) /\ k \in viewed)}

\* A component mounts: its query is fetched when it is unknown or invalid (and,
\* as staleTime passes, when it is neither).
Mount(k) ==
    /\ k \notin viewed
    /\ viewed' = viewed \cup {k}
    /\ \/ asking' = [asking EXCEPT ![k] = IF asking[k] # NoFetch THEN @
                                          ELSE [Refetch(k) EXCEPT !.want = IF Known(k) THEN @ ELSE 1]]
       \/ Known(k) /\ ~cache[k].invalid /\ UNCHANGED asking
    /\ UNCHANGED <<memos, born, cache, stream, pipe, update, changes, behind>>

Unmount(k) ==
    /\ Fault
    /\ k \in viewed
    /\ viewed' = viewed \ {k}
    /\ UNCHANGED <<memos, born, cache, asking, stream, pipe, update, behind>>

\* The pages of an infinite query are fetched one after the other, from the
\* first, as long as there is a next one.
Served(k) ==
    /\ asking[k].state = "asked"
    /\ LET page == ServerPage(k, Len(asking[k].pages) + 1)
           pages == Append(asking[k].pages, page)
       IN  asking' = [asking EXCEPT ![k] =
               [state |-> IF page.next /\ Len(pages) < @.want THEN "asked" ELSE "answered",
                pages |-> pages, want |-> @.want]]
    /\ behind' = IF asking[k].pages = <<>> THEN behind \ {k} ELSE behind
    /\ UNCHANGED <<memos, born, cache, viewed, stream, pipe, update, changes>>

Received(k) ==
    /\ asking[k].state = "answered"
    /\ asking[k].pages[1].rows # <<>> \/ k = "list"
    /\ cache' = [cache EXCEPT ![k] = [pages |-> asking[k].pages, invalid |-> FALSE]]
    /\ asking' = [asking EXCEPT ![k] = NoFetch]
    /\ UNCHANGED <<memos, born, viewed, stream, pipe, update, changes, behind>>

FailedFetch(k) ==
    /\ asking' = [asking EXCEPT ![k] = NoFetch]
    /\ cache' = [cache EXCEPT ![k].invalid = Known(k)]

\* A detail that the server no longer has is an error, and the page is left
\* (useMemoDetailError).
ReceivedNotFound ==
    /\ asking["detail"].state = "answered"
    /\ asking["detail"].pages[1].rows = <<>>
    /\ FailedFetch("detail")
    /\ viewed' = viewed \ {"detail"}
    /\ UNCHANGED <<memos, born, stream, pipe, update, changes, behind>>

\* After its retry (shouldRetry); what is cached counts as invalid.
FetchFailed(k) ==
    /\ Fault
    /\ asking[k].state = "asked"
    /\ FailedFetch(k)
    /\ UNCHANGED <<memos, born, viewed, stream, pipe, update, behind>>

\* The window gets the focus (or the network comes back): what is stale is
\* fetched again.
WindowFocus(k) ==
    /\ k \in viewed /\ Known(k) /\ asking[k] = NoFetch
    /\ asking' = [asking EXCEPT ![k] = Refetch(k)]
    /\ UNCHANGED <<memos, born, cache, viewed, stream, pipe, update, changes, behind>>

\* PagedMemoList, near the end of what it shows: fetchNextPage, unless the next
\* page is already under way.  It takes the place of a refetch of the pages
\* that are there.
FetchNextPage ==
    /\ "list" \in viewed /\ Known("list")
    /\ cache["list"].pages[Len(cache["list"].pages)].next
    /\ ~(asking["list"].state # "idle" /\ asking["list"].want > Len(cache["list"].pages))
    /\ asking' = [asking EXCEPT !["list"] =
           [state |-> "asked", pages |-> cache["list"].pages, want |-> Len(cache["list"].pages) + 1]]
    /\ behind' = IF asking["list"].state # "idle" \/ cache["list"].invalid THEN behind \cup {"list"}
                 ELSE behind
    /\ UNCHANGED <<memos, born, cache, viewed, stream, pipe, update, changes>>

-----------------------------------------------------------------------------
(* The hooks that change a memo.                                           *)

RowOf(k, i) == {r \in UNION {{p.rows[n] : n \in DOMAIN p.rows} : p \in {cache[k].pages[m] : m \in DOMAIN cache[k].pages}} :
                   r.memo = i}
Visible(i) == \E k \in viewed : RowOf(k, i) # {}

\* The cached detail comes before a row of a list.
Previous(i) == IF RowOf("detail", i) # {} THEN RowOf("detail", i) ELSE RowOf("list", i)

\* setQueryData on the detail, and patchMemoInCollectionQueries.  Every query
\* that is written to counts as valid again, those that are left as they were
\* included.
PatchPage(p, row) == [p EXCEPT !.rows = [n \in DOMAIN p.rows |-> IF p.rows[n].memo = row.memo THEN row ELSE p.rows[n]]]
PatchMemo(row) ==
    [k \in Keys |->
        [pages |-> IF k = "detail" /\ row.memo = 1 THEN << [rows |-> <<row>>, next |-> FALSE] >>
                   ELSE [n \in DOMAIN cache[k].pages |-> PatchPage(cache[k].pages[n], row)],
         invalid |-> FALSE]]
Wiped == {k \in Keys : Known(k) /\ cache[k].invalid /\ asking[k] = NoFetch}

SendMutation(op, i, c) ==
    /\ update = NoUpdate
    /\ changes.own < MaxChanges
    /\ changes' = [changes EXCEPT !.own = @ + 1]
    /\ update' = [op |-> op, memo |-> i, content |-> c, previous |-> <<>>, state |-> "sent", tries |-> 0]

\* useUpdateMemo.onMutate (the pin, state, task and edit actions of the menu):
\* fetches are cancelled, and the change is shown before it is made.
UpdateMemo(i, c) ==
    /\ update = NoUpdate
    /\ changes.own < MaxChanges
    /\ Visible(i)
    /\ \E previous \in Previous(i) :
           /\ c # previous.content
           /\ changes' = [changes EXCEPT !.own = @ + 1]
           /\ update' = [op |-> "updated", memo |-> i, content |-> c, previous |-> <<previous>>,
                         state |-> "sent", tries |-> 0]
    /\ cache' = PatchMemo([memo |-> i, content |-> c])
    /\ asking' = [k \in Keys |-> NoFetch]
    /\ behind' = behind \cup {k \in Keys : Known(k) /\ (cache[k].invalid \/ asking[k] # NoFetch)}
    /\ UNCHANGED <<memos, born, viewed, stream, pipe>>

CreateMemo(c) ==
    /\ born < MemoCount
    /\ SendMutation("created", 0, c)
    /\ UNCHANGED <<memos, born, cache, asking, viewed, stream, pipe, behind>>

DeleteMemo(i) ==
    /\ Visible(i)
    /\ SendMutation("deleted", i, Absent)
    /\ UNCHANGED <<memos, born, cache, asking, viewed, stream, pipe, behind>>

\* The server makes the change (an update may be made a second time, by the
\* retry), or refuses it.
MutationServed ==
    /\ update.state = "sent"
    /\ LET i == IF update.op = "created" THEN born + 1 ELSE update.memo
       IN  IF i <= MemoCount /\ (update.op = "created" \/ memos[i] # Absent)
           THEN /\ Commit(update.op, i, update.content)
                /\ update' = [update EXCEPT !.state = "done", !.memo = i]
           ELSE /\ update' = [update EXCEPT !.state = "refused"]
                /\ UNCHANGED <<memos, born, pipe, behind>>
    /\ UNCHANGED <<cache, asking, viewed, stream, changes>>

\* A request, or its answer, is lost: it is sent once more.
MutationLost ==
    /\ Fault
    /\ update.state \in {"sent", "done"}
    /\ update.op # "created"    \* (bound: a create whose answer is lost is not repeated)
    /\ update' = [update EXCEPT !.state = IF update.tries = 0 THEN "sent" ELSE "refused", !.tries = 1]
    /\ UNCHANGED <<memos, born, cache, asking, viewed, stream, pipe, behind>>

Without(k) == [cache EXCEPT ![k] = Unknown]

\* onSuccess of useUpdateMemo, useCreateMemo and useDeleteMemo
MutationSucceeded ==
    /\ update.state = "done"
    /\ LET row == [memo |-> update.memo, content |-> update.content]
           patched == CASE update.op = "updated" -> PatchMemo(row)
                        [] update.op = "created" ->
                               IF row.memo = 1 THEN [cache EXCEPT !["detail"] = PatchMemo(row)["detail"]] ELSE cache
                        [] update.op = "deleted" -> IF row.memo = 1 THEN Without("detail") ELSE cache
       IN  /\ cache' = [patched EXCEPT !["list"].invalid = Known("list")]
           /\ asking' = [asking EXCEPT
                  !["list"] = IF Known("list") /\ "list" \in viewed THEN Refetch("list") ELSE @,
                  !["detail"] = IF update.op = "deleted" /\ row.memo = 1 THEN NoFetch ELSE @]
           /\ behind' = behind
                  \cup (IF update.op = "updated" THEN Wiped \ {"list"} ELSE {})
                  \cup (IF row.memo = 1 /\ memos[1] # row.content THEN {"detail"} ELSE {})
                  \cup KeptFetches({"list"})
    /\ update' = NoUpdate
    /\ UNCHANGED <<memos, born, viewed, stream, pipe, changes>>

\* onError: what was shown before the change is shown again.
MutationRefused ==
    /\ update.state = "refused"
    /\ update' = NoUpdate
    /\ IF update.op = "updated"
       THEN LET row == update.previous[1]
            IN  /\ cache' = PatchMemo(row)
                /\ behind' = behind \cup Wiped
                       \cup (IF memos[row.memo] # row.content THEN Keys ELSE {})
                       \cup (IF asking["list"].pages # <<>> THEN {"list"} ELSE {})
       ELSE UNCHANGED <<cache, behind>>
    /\ UNCHANGED <<memos, born, asking, viewed, stream, pipe, changes>>

-----------------------------------------------------------------------------
(* The event stream.                                                       *)

\* The effect asks for the stream; without a token it does not try again.
Connect ==
    /\ stream.tab = "off"
    /\ \E s \in {"connecting", "stopped"} : stream' = [stream EXCEPT !.tab = s]
    /\ UNCHANGED <<memos, born, cache, asking, viewed, pipe, update, changes, behind>>

\* The server answers before it subscribes the client to the hub.
ServerSubscribes ==
    /\ stream.tab \in {"connecting", "reading"}
    /\ ~stream.server
    /\ stream' = [stream EXCEPT !.server = TRUE]
    /\ UNCHANGED <<memos, born, cache, asking, viewed, pipe, update, changes, behind>>

ReadStream == stream' = [stream EXCEPT !.tab = "reading", !.once = TRUE]

\* Mutation of Connected: no resync.
ConnectedOnly ==
    /\ stream.tab = "connecting"
    /\ ReadStream
    /\ behind' = IF stream.once THEN {} ELSE behind
    /\ UNCHANGED <<memos, born, cache, asking, viewed, pipe, update, changes>>

\* A connection after the first makes good what may have been missed.
Connected ==
    /\ stream.tab = "connecting"
    /\ ReadStream
    /\ IF stream.once
       THEN /\ Invalidate(Keys)
            /\ behind' = KeptFetches(Keys)
       ELSE UNCHANGED <<cache, asking, behind>>
    /\ UNCHANGED <<memos, born, viewed, pipe, update, changes>>

\* The connection fails or is lost, with the events on their way; connect is
\* called again after the delay.
Disconnected ==
    /\ Fault
    /\ stream.tab \in {"connecting", "reading"}
    /\ stream' = [stream EXCEPT !.tab = "off", !.server = FALSE]
    /\ pipe' = <<>>
    /\ behind' = behind \cup UNION {Affected(pipe[n]) : n \in DOMAIN pipe}
    /\ UNCHANGED <<memos, born, cache, asking, viewed, update>>

\* handleSSEEvent
EventArrives ==
    /\ stream.tab = "reading"
    /\ pipe # <<>>
    /\ pipe' = Tail(pipe)
    /\ LET event == Head(pipe)
       IN  /\ IF event.type = "deleted" /\ event.memo = 1
              THEN /\ cache' = [Without("detail") EXCEPT !["list"].invalid = Known("list")]
                   /\ asking' = [asking EXCEPT !["detail"] = NoFetch,
                          !["list"] = IF Known("list") /\ "list" \in viewed THEN Refetch("list") ELSE @]
              ELSE Invalidate(Affected(event))
           /\ behind' = behind \cup KeptFetches(Affected(event))
    /\ UNCHANGED <<memos, born, viewed, stream, update, changes>>

-----------------------------------------------------------------------------
CacheInit ==
    /\ memos = [i \in 1..MemoCount |-> IF i < MemoCount THEN CHOOSE c \in Contents : TRUE ELSE Absent]
    /\ born = MemoCount - 1
    /\ cache = [k \in Keys |-> Unknown]
    /\ asking = [k \in Keys |-> NoFetch]
    /\ viewed = {}
    /\ stream = [tab |-> "off", server |-> FALSE, once |-> FALSE]
    /\ pipe = <<>>
    /\ update = NoUpdate
    /\ changes = [others |-> 0, own |-> 0, faults |-> 0]
    /\ behind = {}

CacheNext ==
    \/ \E op \in {"created", "updated", "deleted"}, i \in 1..MemoCount, c \in Contents \cup {Absent} :
           ElsewhereChanged(op, i, c)
    \/ \E k \in Keys : Mount(k) \/ Unmount(k) \/ Served(k) \/ Received(k) \/ FetchFailed(k) \/ WindowFocus(k)
    \/ FetchNextPage \/ ReceivedNotFound
    \/ \E i \in 1..MemoCount : DeleteMemo(i) \/ \E c \in Contents : UpdateMemo(i, c)
    \/ \E c \in Contents : CreateMemo(c)
    \/ MutationServed \/ MutationLost \/ MutationSucceeded \/ MutationRefused
    \/ Connect \/ ServerSubscribes \/ Connected \/ Disconnected \/ EventArrives

CacheSpec == CacheInit /\ [][CacheNext]_cacheVars

-----------------------------------------------------------------------------
CacheTypeOK ==
    /\ memos \in [1..MemoCount -> Contents \cup {Absent}]
    /\ born \in 0..MemoCount
    /\ \A k \in Keys :
           /\ asking[k].state \in {"idle", "asked", "answered"}
           /\ cache[k].invalid => Known(k)
           /\ \A n \in DOMAIN cache[k].pages : Len(cache[k].pages[n].rows) <= PageSize
    /\ viewed \subseteq Keys /\ behind \subseteq Keys
    /\ stream.tab \in {"off", "stopped", "connecting", "reading"}
    /\ Len(pipe) <= PipeSize
    /\ update.state \in {"idle", "sent", "done", "refused"}

\* "This enables real-time updates across all open instances of the app", "Resync
\* active collaborative views after reconnect": once no event and no request is
\* under way, a view shows the pages that the server would answer, unless it is
\* behind for one of the reasons that this module names where it sets behind.
ViewsConverge ==
    \A k \in viewed \ behind :
        (pipe = <<>> /\ update = NoUpdate /\ asking[k] = NoFetch /\ Known(k) /\ ~cache[k].invalid)
        => \A n \in DOMAIN cache[k].pages : cache[k].pages[n] = ServerPage(k, n)
=============================================================================
