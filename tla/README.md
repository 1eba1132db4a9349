# A formal model of bubumemos

bubumemos (a fork of memos) is a note-taking server: a Go process that serves
a React client over gRPC/Connect, keeps memos, attachments, users and settings
in SQLite (or MySQL, PostgreSQL), attachment blobs in files or S3, and pushes
change events to browsers over server-sent events. Every request runs in a
goroutine of its own; almost nothing is locked, so what holds between requests
rests on single SQL statements, three in-memory caches and the order in which
a handler calls the store. The client is single-threaded but asynchronous: any
number of requests, timers, events of the stream and other tabs may interleave
between two `await`s. These modules say what that amounts to, on both sides.

## Inventory

| Component (source) | State it keeps | Operations | What is hard | What makes it correct |
|---|---|---|---|---|
| SSE hub and handler (`server/router/api/v1/sse_hub.go`, `sse_handler.go`) | registered clients, closed flag, a bounded channel per client | Subscribe, Unsubscribe, Close, Broadcast; a handler loop per connection | three operations close or send on the same channels; stalled peers; shutdown | no panic, delivery to exactly those who may see an event, no blocking, an end to every handler |
| User setting rows (`store/user_setting.go`) | one row per user and key, one cache entry per row | get, add, remove, touch | unlocked read-modify-write; read-through cache filled late; errors after the fact | nothing lost, cache as good as the row, a revoked token stays revoked |
| Sessions (`auth_service.go`, `server/auth`) | refresh tokens in a setting row, one cookie per browser | SignIn, RefreshToken (rotation), SignOut | swallowed errors, lost answers, concurrent rotations | a browser stays signed in; a replaced token is dead |
| Personal access tokens (`user_service.go`, `server/auth/authenticator.go`) | hashed tokens in a setting row | create, delete, accept, record a use in the background | the background write | issued tokens work, deleted ones do not |
| Attachments (`attachment_service.go`, `memo_attachment_service.go`, `store/attachment.go`) | rows, files, links to memos | upload, link, unlink, delete one, delete many, delete with the memo | two stores without a common transaction; foreign keys off | file and row stand or fall together; no link to a memo that is gone |
| Memos, comments, relations (`memo_service.go`, `memo_relation_service.go`, `store/memo.go`) | memo rows, relation rows | create, update, comment, delete with comments | a comment is two inserts; a deletion is one transaction per comment | no comment without its parent; a comment no more visible than its parent |
| Accounts (`store/user.go`, `user_service.go`) | user rows, user cache | first set-up, create, update, archive, delete | stale cache entries | archived means refused |
| In-memory cache (`store/cache/cache.go`) | a map and an item count | set, get, delete, periodic and forced clean-up | test-delete-store is not atomic, the count is kept apart | the count bounds the map |
| SSO identities (`auth_service.go`, `store/user_identity.go`) | provider id to user | resolve, bind | concurrent first sign-ins | one user per identity |
| Instance settings (`store/instance_setting.go`) | rows, cache | get, upsert | as user settings | as user settings |
| Scheduler, cron (`internal/scheduler`, `internal/cron`) | jobs, their goroutines | register, start, stop | stop while jobs run | every job ends, none starts after Stop |
| Runners (`server/runner`) | none of their own | refresh presigned URLs, rebuild payloads | runs beside deletions | never brings a deleted row back |
| Start and shutdown (`server/server.go`, `cmd/memos`) | runner contexts, listeners | Start, Shutdown | phases with timeouts | everything ended before the database closes |
| Webhooks, e-mail, inbox, reactions, shares | rows or nothing | fire and forget | left-overs of deleted memos | none of note |
| Filter language, Markdown, AI, RSS, file server, migrations | none, or read-only | pure functions, I/O | text | outside this model |

The client (`web/src`):

| Component (source) | State it keeps | Operations | What is hard | What makes it correct |
|---|---|---|---|---|
| Session (`auth-state.ts`, `connect.ts`, `contexts/AuthContext.tsx`, `utils/auth-redirect.ts`, `router/`) | access token in memory and in localStorage, a broadcast channel, a refresh under way, the cookie | request, refresh, start-up, focus, sign in and out, redirect | a rotating refresh token shared by calls and tabs; expiry between check and use | no needless sign-in; no guest's data for a user; a sign-out sticks |
| SSO flow (`utils/oauth.ts`, `pages/AuthCallback.tsx`) | one slot of sessionStorage | start, callback, exchange | callbacks late, twice, of another flow, for another user | a flow is completed once, in time, as it was started |
| Memo cache (`hooks/useMemoQueries.ts`, `useLiveMemoRefresh.ts`, `PagedMemoList`) | query cache, fetches, event stream | fetch, page, optimistic update, invalidate, reconnect | four writers of one entry; events lost | what is shown converges to what the server answers |
| Dialogs (`Create*Dialog`, `Update*Dialog`, `ConfirmDialog`, the settings sections) | open or not, target, fields, loading | open, type, cancel, confirm, answer | reopened while a request is under way; fields kept while closed | what was typed for one thing is never sent for another |
| Instance settings (`contexts/InstanceContext.tsx`, `components/Settings`) | a copy of each setting, a draft per section | fetch, edit, save | a setting written whole from two editors | neither undoes the other; a draft survives |
| Preferences (`UserMenu.tsx`, `utils/theme.ts`, `hooks/useUserTheme.ts`, `i18n.ts`) | row, context, localStorage, the page | choose, apply, store, refetch | applied before stored; four copies | once all is calm they agree |
| Filters (`contexts/MemoFilterContext.tsx`) | React state and the URL | add, remove, navigate, go back | two effects that overwrite each other | they settle, on what was asked for |
| Memo editor (`components/MemoEditor`) | text, files, draft in localStorage, save | type, pick, save, close | timer, flush and save write one entry; retries | the draft is what was left; a file goes into one memo |
| Voice recorder (`useAudioRecorder.ts`) | microphone, recorder, transcription | start, stop, cancel, leave | late prompts and late data | the microphone is on only for what is shown |
| Import and export (`ImportExportSection.tsx`, `services`, `utils/zip.ts`) | archive, plan, progress | export, preview, select, run | calls that fail half-way; a list that is cut or stale; a file still being read while another is imported | what the file has is there; a complete import has nothing left to do |
| Attachment list (`AttachmentListEditor.tsx`, `types/attachment.ts`) | order and groups | pick, move, remove | items are not files | nothing is lost or brought back by moving |
| Task checkboxes (`TaskListItem.tsx`, `markdown-manipulation.ts`) | the content shown | click, tick all | whole-content writes that overlap | the marks are what was clicked |
| Rendering and pages | none of their own | show | | outside this model |

How they interact: handlers call each other directly and the store; memo
handlers call `SSEHub.Broadcast` at their end, in their own goroutine; the
authenticator reads setting rows through the same cache that sign-in and
sign-out write, and starts a goroutine per use of a personal access token;
`store.DeleteMemo` calls `store.DeleteAttachment` inside its transaction;
`Server.Shutdown` calls `SSEHub.Close`. In the client every call passes the
interceptor of `connect.ts`; mutations write the query cache, the stream of
`SSEHub` invalidates it, and the settings, the filters and the theme reach the
components through contexts.

## Modules

| Module | Models | Uses |
|---|---|---|
| `SSEHub` | the hub and `handleSSE` | `Feed == INSTANCE LiveFeed` |
| `LiveFeed` | abstract: what the hub promises, a feed per client | |
| `UserSetting` | one row of tokens with its cache entry | `AtomicList == INSTANCE TokenList` |
| `TokenList` | abstract: what a row promises, a list read or changed in one step | |
| `Sessions` | sign-in, rotation, sign-out | `Setting == INSTANCE UserSetting` |
| `AccessTokens` | personal access tokens | `Setting == INSTANCE UserSetting` |
| `Attachments` | attachments, files, memos | |
| `WebSession` | tokens, interceptor, start-up, sign-out of the tabs of a browser | |
| `WebOAuth` | SSO flows of a tab | |
| `WebMemoCache` | list and detail queries, mutations, event stream | |
| `WebDialogs` | twenty dialogs as rows of one table | |
| `WebSettings` | instance settings as edited | |
| `WebPreferences` | theme, language, visibility | |
| `WebFilters` | filters and URL | |
| `WebEditor`, `WebAttachmentList`, `WebRecorder` | the memo editor: text, draft and save; its list of files; recording | |
| `WebImport` | export and import | |
| `WebTasks` | checkboxes | |
| `SSEHub_proofs`, `UserSetting_proofs`, `Attachments_proofs` | theorems and their proofs | extend the module, and `TLAPS` |
| `Sessions_proofs`, `AccessTokens_proofs` | the same, on top of the row | also `Row == INSTANCE UserSetting_proofs` |
| `Orders` | filters and concatenations of sequences, by rank | `WebFilters`, `WebImport`, `WebAttachmentList`, `WebTasks` extend it |
| `Orders_proofs` | lemmas about them and about least and greatest numbers | extends `Orders`, and `TLAPS` |
| `WebAccount_proofs`, `WebMemo_proofs` | theorems about the parts of `MCWebAccount` and of `MCWeb`, and about these instances | extend these, and `Orders_proofs` |
| `MC...` | finite instances, symmetry sets | extend the module |
| `MCWebAccount`, `MCWeb` | six of the client's modules each, a behaviour exercising one (`part`) | extend the modules |

The parts of the client share next to no state (a token, a row), and are
checked one at a time: `MCWebAccount` and `MCWeb` choose the part at the
start of a behaviour and hold the others where they begin. The server is in each
of these modules only as far as the part sees it: rows that a request reads and
writes in one step, a token that is accepted or refused.

In every module an operator whose comment begins with "Mutation" is not part
of the system: it is a variant of the definition that follows it with a bug
that code could have. Putting it in place of that definition makes TLC find a
property violated, which shows that the property looks at that code.

### SSEHub

`clients`, `closed`, `chan` and `buf` are the fields of the hub and its
channels; `hstate` is where each `handleSSE` stands. The lock of the hub is not
a variable: `Broadcast` holds it for reading while its `bstate` is "sending",
`Close` for writing while `closing`; `Subscribe` and `Unsubscribe` take it for
one step. `Broadcast` visits one client per step, so that handlers receive, peers
vanish and other broadcasts run in between. "writing" is a write to the
response, which ends (`WriteOk`), fails once the peer is gone (`WriteFail`) or
lasts for ever. `got`, `dropped`, `audience` and `panic` are history.

`LiveFeed` has no channels, locks or handlers: members, for each event the
members it is still due to, and for each client the events it was ever sent, how
many of them it has taken and which it was too slow for. `Feed` maps the hub to it:
a feed is what the channel ever took in (`Queued`), what was taken is `got`, and an
event under broadcast is due to the clients yet to be visited that may see it (`Due`).
`Leave` and `End` demand that nothing is due, which the hub owes to its lock alone.

### UserSetting

`row` is the list in the table (or no row), `cache` the cached list (or none).
An access is `Lookup` (cache), `List` (table), `Fill` twice (cache, as
`ListUserSettings` and `GetUserSetting` both store what was read), then for a
writer `Write` (table) and `Store` (cache). `DbError` fails without effect,
`DbAnswerLost` fails after the statement took effect (the case of a connection
that breaks or a request whose context ends). `Evict` covers expiry, clean-up
and the moment between the `Delete` and the `Store` of `SetWithTTL`; `Crash`
loses the cache and every goroutine. `Marshalled` covers the data race of two
`append`s to one cached slice: Go's `append` may write into spare capacity that
two adders share, and then either may store the other's token.

`live` is the list that the accesses that took effect would have left had each
been atomic; `disturbed` becomes true when a write overlaps another access, or
when a failed statement took effect. The invariants are stated for undisturbed
behaviours, since the code promises nothing else; what happens in the others
is shown by the two race runs.

`TokenList` is what the callers take a row for: a list without a cache, on which a
writer takes effect once, between its call and its return, from which a reader
returns the list as it is when it returns, and on which an access that fails has no
effect. `AtomicList` maps the row to it: an access has been `asked` until it
replaces the row, `applied` until the cache has been told, and the steps of
`GetUserSetting` before the list is handed out are none of the list's.

### Sessions and AccessTokens

A handler starts an access with `Setting!Start`, and goes on when the access is
"ok" or "failed". Steps of the store are `StoreStep`. `doSignIn` ignores an
error of the store and sets the cookie (`SignInUnstored`); a rotation is
`Refresh`, `Authenticated` (add), `Added` (remove), `RefreshAnswer`; an answer may be
lost (`Answer`). `excused` are browsers that signed out or met a failure.
`Accept` reads the table directly, as `GetUserByPATHash` does, and `RecordUse`
is the goroutine that `Authenticate` leaves behind.

### Attachments

Rows (`attached`), memo rows (`memo`), files (`file`) and one position (`pc`)
per goroutine. Statements are single steps. The write lock of SQLite is `writer`: a
transaction takes it with its first write and keeps it to its end, and other
writers wait (`MayWrite`), while readers see what was there before. `Fail` is an
error of a statement or of a file operation at any point, `Crash` the death of
the process; either may leave a request half done, which `HalfDone` defines and
`interrupted` remembers. `Listings` applies the default limit of
`ListAttachments`. A path belongs to one attachment, as the default path template
(with its `{uuid}`) guarantees. The requested set of a link request is the set
that `normalizeMemoAttachmentRequest` returns. The deletion of a memo's
comments is a sequence of deletions of memos.

### The client's modules

A step is what JavaScript runs between two awaits. Where the code makes no
promise about what overlaps, a history variable notes that it has happened, and
the property speaks of the other behaviours; the overlapping steps are taken all
the same, and everything that the properties say without such a condition holds
in them too. These variables, and what sets them:

* `WebSession`: `mem`, `stored`, `cookie` are the token of a tab's memory, of
  localStorage and of the cookie; `bus` a broadcast not yet heard; `refresh` the
  promise of `tokenRefreshManager`; `task` the async functions of a tab, each
  waiting for an answer or for that promise (`at`). `left` is a token's
  remaining life and `Tick` makes it shorter. `disturbed`: a call failed
  on the network, or two requests that rotate, start or end the session
  overlapped, and not all is calm again. A start-up that finds no token, even after
  a refresh, clears nothing (`StartAsGuest`), so that an expired token may stay in
  localStorage; one whose user cannot be loaded clears both (`BecomeGuest`).
* `WebOAuth`: `oauthSlot` is the entry `oauth_state`, `callback` the flow in the
  address, `exchange` the request of the callback page. No condition: its
  property holds in every behaviour.
* `WebMemoCache`: `cache`, `asking` and `viewed` are the entries, fetches and
  observers of the query library, which is external; `stream` and `pipe` the
  event stream from both ends; `update` the mutation under way. `behind` names
  the queries that may be out of date with nothing to tell: an event that the
  server could not queue or that was lost with the connection, a fetch that was
  under way and kept when its query was invalidated, and what an answered or
  refused mutation overwrites. A reconnection clears it, as the resync is for.
* `WebDialogs`: a row of `Dialogs` says when the fields are set anew, what is
  disabled during a request, and how it ends; an answer closes whichever opening
  is on the screen. `typed` is for which targets what is in the fields was typed.
  All dialogs stay mounted while they are closed. `Choose`, which picks the dialog
  of a behaviour, is the model's own. No condition.
* `WebSettings`: `row`, `setting` and `form` are the setting on the server, its
  copy in `InstanceContext` and the section's draft; `own` is what the form
  edits, `other` what a dialog beside it does. `mixed`: a save was sent before
  the copy was up to date.
* `WebPreferences`: `general` is the row, `userGeneralSetting` its copy,
  `applied` localStorage, `shown` the page. `crossed`: choices overlapped or
  failed since the page was loaded.
* `WebFilters`: `url` and `location` (as rendered), `filters` and `queued` (as
  set); one action is one rendering with its effects. A query is its spelling and the
  filters that `parseFilterQuery` reads in it, none if it is malformed; `Spellings` are
  those that `stringifyFilters` does not write. `hurried`: the user did not
  wait for the renderings.
* `WebEditor`: `pending` is the timer's text, `draft` the entry, `discarded` the
  ref of `useAutoSave`, `save` the save under way. `muddled`: something was typed
  or picked while a save was under way (the editor is emptied at its end), or a
  memo was written whose answer did not come.
* `WebRecorder`: `request` is `startRequestIdRef`; `prompts`, `recorders`,
  `streams`, `transcripts` what is under way. `astray`: a recording was started
  while another was still being handed over or transcribed, a save emptied the
  editor during one, or the editor was left with the prompt open.
* `WebImport`: `known` is the fetched list, any part of the memos that one page
  may hold; `reading` the files that are dropped and not yet parsed, each with the
  list at hand; `offered` what is previewed, `parsed` and `plan` what is being
  imported (`phase`), which goes on whatever panel (`step`) another file brings up.
  A creation whose answer fails may leave the memo with any of its files, an update
  any state between deleting and linking (`Halfway`). `saw` is how much the
  import knew: "all" of the memos, no two alike; "some", from a list that was cut
  or not fetched again; or "neither", when a listed memo was changed or deleted since
  or the file has two memos alike.
* `WebAttachmentList`: no condition; what the property excepts are PSDs.
* `WebTasks`: `seen` is what is shown, `content` what is stored, `intended` what
  those who clicked mean, whatever kind of task they clicked on. `missed`: the lines
  whose last click was on a task that the code does not write, a numbered or quoted
  one, or under "check all" a quoted one. `overtaken`: a click was not made on what
  the clicks before it meant, or writes arrived in another order.

## Runs

| Run | Checks | Bounds |
|---|---|---|
| `sse_hub` | types, `NoPanic`, `NoClientAfterClose`, `DeliveredToAudience` | 2 clients (a user, an administrator), a private event of a third user, one of the user's own, a public one and one of unknown visibility, `BufferCap` 1 |
| `sse_live` | `ServesFeeds`; `BroadcastTerminates`, `HandlersEnd` | creator and another user, a private and a public event, `BufferCap` 1 |
| `user_setting` | types, `NothingLost`, `CacheCoherent`, `ActsAtomically` | 2 goroutines, 2 tokens, `MaxFaults` 1 |
| `sessions` | types, `SessionKept`, `RotatedStaysDead` | 3 requests, 1 browser, `MaxFaults` 1 |
| `sessions_race` | violates `RefreshSurvivesRaces` | 2 requests |
| `access_tokens` | types, `IssuedIsAccepted`, `DeletedIsRefused` | 3 requests, 2 existing tokens, `MaxFaults` 1 |
| `access_tokens_race` | violates `DeletedAtOnce` | 2 requests |
| `attachments` | types, `FileIffRow`, `NoStrayAttachments` | 2 goroutines, 2 memos, 2 attachments, `MaxFaults` 2 |
| `attachments_limit` | violates `NoStrayAttachments` | 1 goroutine, 2 attachments, `ListLimit` 1 |
| `attachments_live` | `RequestsEnd` | 2 goroutines, 1 memo, 2 attachments, `MaxFaults` 1 |
| `web_account` | types; `NoNeedlessSignIn`, `GuestDataOnlyAfterFailure`, `SignOutSticks`; `OAuthCompletesWhatWasStarted`; `FieldsGoToTheirTarget`; `SettingHoldsWhatWasConfirmed`, `DraftSurvivesOtherSaves`; `PreferencesAgree`; `UrlSaysTheFilters` | two tabs of one task or one tab of two, `Life` 2; 2 flows, 2 users; 2 targets, 3 openings, 3 requests; 2 items, 2 saves; 2 themes, 2 choices, 1 event; 3 actions on filters, a query of one other spelling |
| `web` | types; `ViewsConverge`; `DraftIsWhatWasLeft`, `FileGoesIntoOneMemo`; `RecordingIsShownUntilItEnds`; `ImportIsComplete`, `ImportKeepsWhatTheFileHas`; `AttachmentsAreKept`; `MarksAreWhatWasClicked` | 2 memos, pages of 1, 1 change by each side, 1 fault; 2 texts, 1 file, 3 uploads, 2 memos; 3 recordings; 2 memos of 2 filenames, 2 files dropped or changes elsewhere, 2 memos to a list, 4 entries to an archive; 4 files; 3 lines, 2 clicks, 1 edit |

Why they are enough: a channel of capacity 1 is full, empty and refilled with
the events that an administrator gets, the user gets his own and the public one
but not the third user's, and every hub operation meets every other; conflicts in a setting
row are between two accesses, and a third request in `sessions` and
`access_tokens` lets a completed access precede a pair; conflicts over an
attachment are between two goroutines, each of which serves any number of
requests one after another. `MaxFaults` bounds errors and crashes. The runs turn
deadlock checking off: when every request has been served the system rests. The
race on spare capacity needs a cached list of three tokens and two adders, more
than the runs have; it matters only to disturbed behaviours, and the
proofs cover it.

The client's parts meet their conflicts in pairs: two tabs or two calls over one
token, an open dialog and a request of an earlier opening, a save and an edit
beside it; three openings let a third one meet an answer to the first. In
`WebSession` time is counted in units of the answer to a refresh: a broadcast is
heard and a refresh answered within one, and `Life` 2 with buffers of 1 has tokens
that are fresh, about to expire and expired. Its further bounds: one disturbance
at a time, during which nobody starts anything new; the network fails only while
a single tab is open; a page is reloaded while nothing is under way in it; only
the last broadcast is kept; users sign in or out in one place at a time; four
names of tokens, reused once nobody holds them. In `WebMemoCache` the tab has one
mutation under way, and a creation whose answer was lost is not repeated. In
`WebEditor` a file that a memo has is not picked again. In `WebImport` any
subset may be selected, `EntryLimit` 4 stands for 2^16 and `ListLimit` 2 for 1000;
`MaxEvents` 2 lets a second file be dropped while the first is read or imported, or
another browser change a memo; one import runs at a time, that is, a preview that
comes up during one is not confirmed before it ends. In the run (not in
the theorems) the memos with attachments are the first ones, which spares a
symmetric half of the initial states. In `WebRecorder` the
browser can record, and transcription only becomes available, as the AI setting
arrives. More tabs, memos or lines would repeat these pairs.

Two refinements are checked on the way. `ServesFeeds` is `Feed!Spec`: in `sse_live` the
creator gets two events into a channel that holds one, and the other user may
not see the private one. `ActsAtomically` says of every undisturbed step that it is a
step of `TokenList` or none; since nothing undoes `disturbed`, a behaviour follows the
list until accesses first overlap, and nothing is promised after that. What the
proofs need besides, `OpenIffRegistered` and `RevokedStaysRevoked` among it, is a part
of the inductive invariants and no property of a run of its own.

Symmetry: requests, goroutines, memos and attachments are interchangeable in
the runs of invariants; the runs with liveness use none. `TokenList` treats all goroutines and tokens
alike, so that the action property `ActsAtomically` is symmetric. In `web_account`
the names of tokens are; its action properties compare what tokens are to each
other and are no liveness, so that a permutation of names changes nothing in
them.

Fairness: `sse_live` assumes that the Go scheduler runs what can run (weak
fairness of broadcasts and of `Close`), that `select` picks among ready cases at
random, and that a mutex is not withheld for ever from a waiter (strong
fairness of `Receive`, `ObserveClosed`, `ContextDone`, `Unsubscribe`). Nothing
obliges a peer to read, to leave or to connect. `attachments_live` assumes
strong fairness of each goroutine's steps: a waiting statement retries until the
lock is free (`busy_timeout`).

## What the runs show to be otherwise

* `sessions_race`: `auth_service.go` says "add before remove to handle race
  conditions". Two overlapping requests of one user, say a sign-in on a phone
  and a rotation on a laptop, read the same list; the second write drops
  the token the first had added, and a browser that did nothing wrong is
  signed out.
* `access_tokens_race`: `user_service.go` says that deleting a token "immediately
  invalidates" it. A goroutine recording a use, or the creation of another
  token, that has read the list before the deletion writes the token back.
* `attachments_limit`: "store.DeleteMemo handles relation and attachment
  cleanup", but at most the first 100 attachments of a memo are listed and
  deleted; the others stay, linked to a memo that is gone. One client suffices.

What the properties of the client except is worth a reader's attention too:

* Moving an attachment drops a PSD from the memo (`AttachmentsAreKept`).
* An import may remove attachments that the archive lacks, although the comment says
  that only missing ones are added (`ImportKeepsWhatTheFileHas`). From a list that
  was cut at 1000 or not fetched again it makes memos a second time (`saw` = "some").
  A file that takes long to read puts its preview over an import that runs.
* Text typed while a save is under way is lost (`muddled`).
* A prompt answered after the editor was left turns the microphone on for nobody
  (`astray`).
* A click on a task behind a number or in a quotation writes the memo unchanged
  (`toggleTaskAtIndex`, from `markdown-manipulation.ts:48`), although such a task has
  a checkbox and a test takes `1. [ ] ordered` for a task of "check all"
  (`tests/markdown-task-actions.test.ts:6`); "check all" leaves quoted tasks out. The
  property says so: `missed`.
* The answer to an earlier request closes the dialog that is open, whatever it was
  opened for since; the list of identity providers, fetched after it, does so once
  more. `ConfirmDialog/README.md:11` says that a question cannot be dismissed while
  its request is under way; that of deleting a member does not wait for it
  (`DeleteMember`). What the user typed may be lost by this, and is never sent for
  something else.

## What is proved

For all values of the constants, under the named assumptions of each module.
These say that bounds are numbers, that what stands for nothing is nothing else,
that the sets named apart are apart, and in `HubAssumption` that a channel has a
positive capacity and roles and visibilities are of the right kind, in
`SettingAssumption` that there is a token and the initial ones are among them, in
`AttachmentAssumption` that there are finitely many attachments, in
`RowAssumption` that `NoRow` is no row of preferences, in `ImportAssumption` that
there are finitely many keys and filenames, in `ListAssumption` that there are
finitely many files, known apart by their names. TLC evaluates each in the runs.

* `SSEHub_proofs`: `TypeCorrect`; `HubNeverPanics`, `OpenChannelsAreRegistered` and
  `ClosedHubStaysEmpty`. `NoPanic` is
  not inductive: `panic` stays false because channels are closed and sent on
  only while open, which `OpenIffRegistered` gives, and that in turn needs to
  know that a broadcast under way visits registered clients only (nobody can
  leave while it holds the lock) and that `Close` leaves the hub closed.
  `HubInvariant` is this conjunction; `ClientStep` and `EventStep` are the
  preservation by the actions of a handler and of a broadcast.
  `EventsReachTheirAudience`: `DeliveryInv` says of every client that a broadcast
  has visited what `DeliveredToAudience` says once all have been, and that the
  event is in the queue of no other, so that a second copy would need a second
  visit. Events move from the channel to `got` without
  changing what was queued (`TakenStaysQueued`).
  `HubServesFeeds`: the hub implements `LiveFeed`. Each kind of step has a lemma
  that names the step of the feeds it is (`SubscribeJoins`, `RemovalLeaves`,
  `ReceiveTakes`, `BroadcastPublishes`, `VisitOffers`, `CloseEnds`) or says that it is
  none. A removal needs `HubInv`: whoever holds the lock for writing knows that no
  broadcast is under way; a visit needs that whom it visits is registered.
* `UserSetting_proofs`: `RowTypeCorrect`; `SettingInvariant`, and from it
  `UndisturbedLosesNothing`, `UndisturbedCacheCoherent`, `UndisturbedRevocation`.
  The strengthening `SettingInv` says that accesses under way exclude each
  other unless they only read (`Exclusive`), that a writer about to write has seen the
  very list it replaces and a reader about to fill the cache holds what
  the row still holds (`UpToDate`), and that only minted tokens are ever revoked
  (`MintedFirst`). One lemma per kind of step shows that it is kept;
  `MarshalledAlone` shows that an undisturbed adder never meets the data race.
  `RowActsAtomically`: undisturbed, the row with its cache acts as `TokenList`
  (`UndisturbedRowIsList` is the implication between specifications). A hit of the
  cache is a read of the list as it is, since nobody then stands between the two
  writes of a writer (`CachedIsStored`); a late fill hands out what the row still
  holds (`UpToDate`); and a write is one step of the list, since it is computed from
  the list it replaces.
* `AccessTokens_proofs` and `Sessions_proofs`: the handlers use the row as
  `UserSetting` allows and in no other way (`ImplementsRow`: every behaviour of
  `Spec` is one of `Row!Spec`, `Row` being an instance of `UserSetting_proofs`), so
  the theorems about the row hold of both. From them:
  * `TokenTypesCorrect`, `DeletedStaysRefused`, `IssuedStaysAccepted`. What was
    issued and not deleted is to be followed into `live`: `TokenInv` says that a
    request creates its own token only, which is issued when it is done, and that a
    removal under way is one that was asked for.
  * `SessionTypesCorrect`, `SessionsAreKept`, `RotatedTokensStayDead`. `SessionInv` says
    where the token of each handler stands at each of its positions
    (`HandlerInv`), that a cookie and an answer on its way are of their
    browser and of a finished request (`CookieInv`), and that a browser's token is in
    `live` or a rotation of it is just removing it, whose answer brings the next (`Kept`).
* `Attachments_proofs`: `AttachmentTypesCorrect`, `FilesMatchRows`, `DeletionIsComplete`.
  For `FileIffRow`, `FileInv` says that an attachment being uploaded is nobody
  else's to delete (`Fresh`) and that what is deleted does not come back (`Gone`), so
  that a file or a row without the other is in the hands of the request that made
  it so (`Balanced`). `DeletionIsComplete` is `NoStrayAttachments` under
  `[]ListingsAreComplete`: no memo ever has more attachments than one listing
  returns. Without it the property is false, which is what `attachments_limit`
  shows. `StrayInv` says that a request links only to a memo it has found, and that
  while a deletion goes through what it listed its transaction lets nobody
  link another.
* `WebAccount_proofs`, dialogs: `DialogTypesCorrect` and `FieldsKeepToTheirTarget`, for
  any number of targets, openings and requests. The invariant `DialogInv` says of
  the fields what the property says of what is sent: they hold what was typed for
  the last target, open or not (`TypedForLast`), and a dialog that never sets them anew
  has one target only (`OneTarget`), as the table of dialogs has it (`DialogFacts`).
* `WebAccount_proofs`, settings: `SettingsTypesCorrect`, and `DraftSurvives`, an action
  property: `AdoptFacts` says what a new copy does to a draft, and one lemma per
  kind of step that no other step changes the copy. `SettingsHoldWhatWasConfirmed`
  is about the row; `ConfirmedInv` says what the page holds meanwhile: every own
  part in the row, the copy or on its way was confirmed (`OwnIsConfirmed`), and unless
  saves mixed there is one at a time, made of the row as it still is (`OneEditor`).
* `WebAccount_proofs`, SSO: `OAuthTypesCorrect` and `FlowsCompleteAsStarted`. What a
  callback may use is the slot, and `SlotIsOpen` says that a slot in use is that
  of a flow not yet completed, of its mode, user and age; `validateOAuthState`
  empties it.
* `WebAccount_proofs`, preferences: `PreferencesComeToAgree`. While something is under
  way the copies differ; `PreferencesInv` says by how much: the row has all that was
  chosen but for the field that the one update is bringing (`RowIsChosen`), and
  where the page is not in step with its copy, what is to come differs from the copy,
  so that taking it over sets the page right (`PageFollows`).
* `WebAccount_proofs`, session: `SessionTypesHold` and `SignOutsStick`, for any number
  of tabs. `SignOutSticks` is not inductive: the answer to a refresh sent before the
  sign-out would bring the session back, and `NothingReturns` says that there is
  none. And the two action properties, `NoSignInIsNeedless` and `GuestDataNeedsAFailure`,
  from one invariant about the state before the step, `TabsInv`, which has three parts to say of
  each tab: the user is loaded or signed in by one function at a time (`OneEnters`);
  a member has a token, and a function that loads one has what it used
  (`TokenHeld`); the token of a refresh is valid when those go on that it has resumed
  (`TokenFresh`), so that none of them sends a guest's request. While nothing
  disturbs the session `RefreshAlone` says that a refresh runs beside no sign-in, sign-out or
  other refresh, so that a refused one means that the cookie is dead for good.
* `WebAccount_proofs`, filters: `UrlComesToSayTheFilters`, for any number of actions. What is
  rendered is what the two effects last took the filters and the URL to be (`Synced`),
  and `ToCome` counts the renderings that a state can still set off, five at most:
  the effects do not chase each other. `UrlFollows` and `WantedComes` say
  that URL and filters are behind only while such a rendering is to come.
* `WebMemo_proofs`, editor: `DraftKept`. The invariant says of an open editor what it says
  of a closed one at the next flush: the text is what was typed and waits for the
  timer or has been written, unless it has just been discarded
  (`DraftOfEditor`); and that the save under way is that of the editor on the
  screen (`SaveOfEditor`), or else its `discardDraft` would clear another's.
  `EditorTypesCorrect`, and `FilesGoIntoOneMemo`: `FilesInv` says that what an editor
  shows, or a save is uploading, is in no other memo yet (`EditorFresh`, `SaveFresh`),
  that an edit is of a memo that is there, and that memos are numbered in turn.
* `WebMemo_proofs`, recorder: `RecorderTypesCorrect` and `RecordingsAreShownUntilTheyEnd`.
  Each request has a number, which is that of one prompt, recorder or
  transcript at a time (`Apart`, `Unsettled`); `MicrophoneShown` extends the property to
  the prompts that may yet turn the microphone on, and `OneAtATime` says what is left
  under way while recordings follow one another.
* `WebMemo_proofs`, memo cache: `CacheTypesCorrect` and `ViewsComeToAgree`, for any memos,
  page size, event buffer and number of changes and faults. `ViewsConverge` speaks of a
  tab for which nothing is under way; `UpToDate` says of every query that is not behind,
  and that no event on its way is about (`Told`), that the pages a fetch has brought so far
  and, unless a fetch or a mark is to replace them, the cached ones are those of the
  server (`Sound`). While an update is shown before it is made, the list differs from the
  server's in that memo at most (`Alike`), so that the answer, or the row put back when
  the update is refused, sets it right (`PatchTwice`, `PatchIdle`); and a change that is
  announced leaves every query that it is not about as it was (`CommitTells`, `CommitKeeps`).
  `NthExists`, by the least counterexample, says that the rows of a page exist.
* `WebMemo_proofs`, checkboxes: `TaskTypesCorrect` and `MarksComeOut`, for any lines, clicks
  and edits. `TaskFound` says that the task at the index of a checkbox is on the line of the
  checkbox, by counting the tasks up to it, and `ToggleTouchesItsLine` that only bullets
  change. `LatestIsMeant` is the invariant: unless something was overtaken, the updates not
  yet written are the latest, and the last of them is what is meant, but for the marks
  in `missed`.

* `WebMemo_proofs`, attachment list: `ListTypesCorrect` and `AttachmentsStay`, for any
  files. The lists are regrouped with every move, so that the invariant `ListInv` is
  about files and not about items: each list names a file once and its groups are
  pairs of one stem (`Orderly`), and what is not removed is in one of the two. `ItemsHaveTheFiles`
  says that items are made of exactly the files of a list, but for the PSDs they leave
  out, and `MovedKeeps` that moving one item before or behind another loses and
  doubles nothing.
* `WebMemo_proofs`, import: `ImportTypesCorrect`, `ImportsComplete` and the action property
  `ImportsKeepTheFiles`, for any memos, filenames and size of archives. `Counted` adds up
  what is done and what is still to do, whatever else is read or shown meanwhile. `Seen` says,
  as long as no listed memo was changed elsewhere, that the work left is for distinct keys,
  each with a memo of the list that is still as it was (`WorkIsFor`), and that every
  other entry of the file has what it names, unless something failed
  (`RestIsSatisfied`); and of a complete list, that no two memos are alike.
  `SentIsWanted`: an upload without failures has brought all that the update counts on.
  `PreviewFinds` and `PlannedWell` establish this: the preview has each entry that needs
  something once, and no other; `SeenAfter` keeps it, one entry after another.
  `UpdateIsWrite` and `OrderedKeeps` say that even an update that fails half-way leaves
  the attachments that the file names.
* `AccountTypesCorrect` and `WebTypesCorrect`: a behaviour of `MCWebAccount` or
  `MCWeb` is a behaviour of each of its parts (`EachPartRuns`), so that the theorems about
  the parts hold there, those about their types among them.
* `Orders_proofs`: the n-th of a finite set exists and is one
  (`InOrderNumbers`, from `RanksAreOneToOne`: along a chain of finite sets, sizes tell the
  elements apart), a filter keeps what it selects (`ChosenElements`), and a concatenation has each
  element of each part in one place (`ConcatenatedPlaces`).

Only model-checked, and why:

* `BroadcastTerminates`, `HandlersEnd`, `RequestsEnd`: liveness under fairness, and with
  it ENABLED, is out of the prover's reach.
* That an archive has the names and the data that its memos had: `ExportNames` and
  the counting of entries in `Packed` fold over data, which needs induction. The theorems about
  imports hold for whatever an archive contains. What else was recursive is stated in
  `Orders` and in `Rows` of `WebMemoCache` without recursion, by rank.
* The properties of the runs that expect a violation are false.

## Not modelled

Authentication details (passwords, signatures, expiry times), authorisation
by creator or administrator other than for SSE delivery, S3 storage, motion
photo groups, thumbnails, webhooks of users, the MySQL and PostgreSQL drivers
with their isolation levels, several server processes on one database, and the
components that the inventory marks as pure functions or I/O. In the client:
rendering (Markdown, maps, calendars, previews), the queries of comments,
reactions, shares and statistics, which follow the pattern of `WebMemoCache`
without its optimistic writes, location, relations and visibility in the editor,
the validation of fields, the Markdown export, which cannot be imported, and
the generated API types but for the messages that the models' state consists of.

## Plan

1. Done: `SSEHub`, `UserSetting`, `Sessions`, `AccessTokens`, `Attachments`, with the
   theorems above; the client's modules, with theirs.
2. `Comments`: creation of a comment in two steps against deletion and change
   of visibility of the parent, cascade one transaction at a time, relations,
   what is left of reactions and shares. `Accounts`:
   user cache against archiving and deletion, sessions of deleted users.
   `Cache`: `SetWithTTL`, `Get`, clean-up and the item count; an abstract cache that
   `UserSetting` and `Accounts` may rely on.
   `Scheduler` and `Shutdown`: life of jobs, phases of `Server.Shutdown`, with
   `SSEHub` as one of its parts. SSO identities under a unique constraint. Webhook lists as a
   further use of `UserSetting`.
3. Abstract specifications. Done: `LiveFeed`, implemented by `SSEHub`; `TokenList`,
   implemented by undisturbed `UserSetting`; `UserSetting` itself, implemented by
   `Sessions` and `AccessTokens`. Next: an attachment and its file as one object,
   between the failures that part them.
4. Proofs: that an archived user is refused, with `Accounts`; no comment without its
   parent, with `Comments`.
