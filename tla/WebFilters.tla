----------------------------- MODULE WebFilters -----------------------------
(***************************************************************************)
(* The filters of the memo lists are kept twice: in the state of           *)
(* MemoFilterProvider, which the lists and the chips read, and in the      *)
(* query of the URL, which is what a bookmark, a link and the history of   *)
(* the browser hold.  Each is brought up to date with the other by an      *)
(* effect of the provider, and RootLayout drops the filters of a page that *)
(* is left.  React renders a changed state and a changed location          *)
(* separately, and the effects of a rendering see what was rendered.       *)
(***************************************************************************)
EXTENDS Orders

CONSTANTS
    Lists,          \* pages that list memos
    Details,        \* pages of one memo, whose paths start with /m
    Tags, Words, Dates,  \* what may be filtered by: tagSearch, contentSearch, displayTime
    Spellings,      \* of a query that stringifyFilters does not write: other encodings, malformed ones
    ShortcutIds,
    NoShortcut,
    MaxActions      \* bound: what the user does

ASSUME FilterAssumption ==
    /\ Lists # {} /\ Lists \cap Details = {}
    /\ Tags \cap Words = {} /\ Dates \cap (Tags \cup Words) = {} /\ NoShortcut \notin ShortcutIds
    /\ "own" \notin Spellings
    /\ MaxActions \in Nat

VARIABLES
    url,            \* the location of the router: a path and a query
    location,       \* the location as it was last rendered
    filters,        \* the state as it was last rendered
    queued,         \* the state with the updates to come, and whether there are any
    lastSyncedUrl,
    lastSyncedStore,  \* as the filters that it is written from
    shortcut,       \* the shortcut that is selected
    wanted,         \* history: the filters that the last action asked for
    hurried,        \* history: what was done before what came before it was rendered
    commits,        \* history: renderings since the last action
    actions         \* bound: actions

filterVars == <<url, location, filters, queued, lastSyncedUrl, lastSyncedStore, shortcut, wanted, hurried, commits, actions>>

Paths == Lists \cup Details
Filters == Tags \cup Words \cup Dates

\* What stringifyFilters writes, nothing when there are none; and what
\* parseFilterQuery reads, none when the query is malformed
stringifyFilters(fs) == [spelling |-> "own", filters |-> fs]
parseFilterQuery(query) == query.filters
NoQuery == stringifyFilters(<<>>)

\* A query of any spelling: a malformed one has none of the filters.
Queries(fss) == {[spelling |-> s, filters |-> fs] : s \in Spellings \cup {"own"}, fs \in fss}

Has(fs, f) == \E i \in DOMAIN fs : fs[i] = f
Without(fs, S) == Chosen(fs, {i \in DOMAIN fs : fs[i] \notin S})
With(fs, f) == IF Has(fs, f) THEN fs ELSE Append(fs, f)

\* Tag, TagTree and TagsSection: a tag takes the place of the others, or goes.
Toggled(fs, t, active) == IF active THEN Without(fs, {t}) ELSE Append(Without(fs, Tags), t)

Rendered == ~queued.pending /\ url = location

-----------------------------------------------------------------------------
\* What the user does; updates are functions of the state that is queued.

Act(w, how) ==
    /\ actions < MaxActions
    /\ actions' = actions + 1
    /\ wanted' = w
    /\ hurried' = IF Rendered THEN hurried ELSE hurried \cup {how}
    /\ commits' = 0

SetFilters(fs) ==
    /\ queued' = [pending |-> TRUE, value |-> fs]
    /\ Act(fs, "set")
    /\ UNCHANGED <<url, location, filters, lastSyncedUrl, lastSyncedStore>>

\* navigate: a link, the history of the browser, a date of the calendar
Navigate(u) ==
    /\ url' = u
    /\ Act(parseFilterQuery(u.query), "navigate")
    /\ UNCHANGED <<location, filters, queued, lastSyncedUrl, lastSyncedStore, shortcut>>

\* A tag of the list of tags
ToggleTag(t) == SetFilters(Toggled(queued.value, t, Has(filters, t))) /\ UNCHANGED shortcut

\* A tag in a memo: on the page of a memo it leads back to a list.
ClickTag(t) ==
    IF location.path \in Details
    THEN \E p \in Lists : Navigate([path |-> p, query |-> stringifyFilters(<<t>>)])
    ELSE ToggleTag(t)

\* SearchBar
AddWord(w) == SetFilters(With(queued.value, w)) /\ UNCHANGED shortcut

\* The cross on a chip of MemoFilters
RemoveChip(f) ==
    /\ Has(filters, f)
    /\ SetFilters(Without(queued.value, {f}))
    /\ UNCHANGED shortcut

PickDate(d) == Navigate([path |-> location.path, query |-> stringifyFilters(<<d>>)])

FollowLink(p) == p # location.path /\ Navigate([path |-> p, query |-> NoQuery])

\* Home, while at home with filters; back to where the page was opened
ClearQuery == url.query # NoQuery /\ Navigate([url EXCEPT !.query = NoQuery])

\* A bookmark, an entry of the history, or a URL that was typed
VisitUrl(p, query) == Navigate([path |-> p, query |-> query])

\* setShortcut: words and a shortcut do not go together (issue #5462).
SetShortcut(s) ==
    /\ shortcut' = s
    /\ IF s = NoShortcut
       THEN UNCHANGED <<url, location, filters, queued, lastSyncedUrl, lastSyncedStore, wanted, hurried, commits, actions>>
       ELSE SetFilters(Without(queued.value, Words))

-----------------------------------------------------------------------------
\* The effects of a rendering, one after the other: first that of RootLayout,
\* which is inside the provider.

\* Mutation of FromUrl: what was stored is not noted with it.
FromUrlOnly(loc) ==
    IF loc.query # lastSyncedUrl
    THEN [url |-> loc.query, store |-> lastSyncedStore, adopt |-> TRUE]
    ELSE [url |-> lastSyncedUrl, store |-> lastSyncedStore, adopt |-> FALSE]

\* After the first effect of the provider: the URL has changed from outside.
FromUrl(loc) ==
    IF loc.query # lastSyncedUrl
    THEN [url |-> loc.query, store |-> parseFilterQuery(loc.query), adopt |-> TRUE]
    ELSE [url |-> lastSyncedUrl, store |-> lastSyncedStore, adopt |-> FALSE]

\* Whether the second one writes the state to the URL
ToUrl(fs, synced) == fs # synced.store /\ stringifyFilters(fs) # synced.url

Effects(loc, fs, q) ==
    LET left == loc.path # location.path /\ loc.query = NoQuery
        changed == loc.query # location.query
        synced == IF changed THEN FromUrl(loc)
                  ELSE [url |-> lastSyncedUrl, store |-> lastSyncedStore, adopt |-> FALSE]
        writes == (changed \/ q # queued) /\ ToUrl(fs, synced)
    IN  /\ queued' = IF synced.adopt THEN [pending |-> TRUE, value |-> parseFilterQuery(loc.query)]
                     ELSE IF left THEN [pending |-> TRUE, value |-> <<>>] ELSE q
        /\ lastSyncedStore' = IF writes THEN fs ELSE synced.store
        /\ lastSyncedUrl' = IF writes THEN stringifyFilters(fs) ELSE synced.url
        /\ url' = IF writes THEN [url EXCEPT !.query = stringifyFilters(fs)] ELSE url

\* A rendering of the state: the queue is empty, and the location as it was.
RenderState ==
    /\ queued.pending
    /\ filters' = queued.value
    /\ Effects(location, queued.value, [queued EXCEPT !.pending = FALSE])
    /\ commits' = commits + 1
    /\ UNCHANGED <<location, shortcut, wanted, hurried, actions>>

\* A rendering of the location, which is a transition
RenderLocation ==
    /\ url # location
    /\ location' = url
    /\ Effects(url, filters, queued)
    /\ commits' = commits + 1
    /\ UNCHANGED <<filters, shortcut, wanted, hurried, actions>>

\* The queries that a URL is opened with: a filter or none
AtMostOne == {<<>>} \cup {<<f>> : f \in Filters}

\* The provider is mounted with the filters of the URL, and its effects have run.
FiltersInit ==
    /\ \E p \in Paths, query \in Queries(AtMostOne) :
           LET fs == parseFilterQuery(query) IN
           /\ url = [path |-> p, query |-> query] /\ lastSyncedUrl = query
           /\ filters = fs /\ lastSyncedStore = fs /\ wanted = fs
    /\ location = url /\ queued = [pending |-> FALSE, value |-> filters]
    /\ shortcut = NoShortcut
    /\ hurried = {} /\ commits = 0 /\ actions = 0

FiltersNext ==
    \/ \E t \in Tags : ClickTag(t)
    \/ \E w \in Words : AddWord(w)
    \/ \E f \in Filters : RemoveChip(f)
    \/ \E d \in Dates : PickDate(d)
    \/ \E p \in Paths : FollowLink(p) \/ \E query \in Queries(AtMostOne) : VisitUrl(p, query)
    \/ ClearQuery
    \/ \E s \in ShortcutIds \cup {NoShortcut} : SetShortcut(s)
    \/ RenderState \/ RenderLocation

FiltersSpec == FiltersInit /\ [][FiltersNext]_filterVars

-----------------------------------------------------------------------------
FiltersTypeOK ==
    /\ {url.path, location.path} \subseteq Paths
    /\ {url.query.spelling, location.query.spelling, lastSyncedUrl.spelling} \subseteq Spellings \cup {"own"}
    /\ \A fs \in {url.query.filters, location.query.filters, lastSyncedUrl.filters,
                   filters, queued.value, lastSyncedStore, wanted} :
           \A i \in DOMAIN fs : fs[i] \in Filters /\ \A j \in DOMAIN fs : fs[i] = fs[j] => i = j
    /\ shortcut \in ShortcutIds \cup {NoShortcut} /\ hurried \subseteq {"set", "navigate"}

\* Issue #5462 and the two effects of MemoFilterProvider: whatever the order of
\* the renderings, however the query is spelt, and also when the user does not
\* wait for them, the two settle within five renderings, on the same filters;
\* which, if he waits, are those he asked for.
UrlSaysTheFilters ==
    /\ commits <= 5
    /\ Rendered /\ "navigate" \notin hurried => parseFilterQuery(url.query) = filters
    /\ Rendered /\ hurried = {} => filters = wanted
=============================================================================
