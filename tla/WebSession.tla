----------------------------- MODULE WebSession -----------------------------
(***************************************************************************)
(* The browser side of a session: the access token that the tabs of one    *)
(* browser share (web/src/auth-state.ts), the interceptor that refreshes   *)
(* it and resends a refused request (web/src/connect.ts), start-up and     *)
(* sign-out (contexts/AuthContext.tsx), and where the user is sent when    *)
(* the session turns out to be over (utils/auth-redirect.ts).              *)
(*                                                                         *)
(* A token stands for an access token and for the refresh token that the   *)
(* server issued with it.  JavaScript runs to completion, so a step is what *)
(* happens between two awaits.  A tab has a few tasks, each of them an      *)
(* async function that is waiting for something.  A request is handled in  *)
(* the step that sends it, and answered later; the answer to a refresh is  *)
(* back within a unit of time, which the buffers are there to allow for.   *)
(***************************************************************************)
EXTENDS Integers

CONSTANTS
    Tabs,           \* the tabs of the browser
    Layouts,        \* bound: the tabs that are open and, for each of them, the
                    \* slots for async functions that it runs at a time
    Life,           \* how long an access token is valid
    RequestBuffer,  \* REQUEST_TOKEN_EXPIRY_BUFFER_MS
    FocusBuffer,    \* FOCUS_TOKEN_EXPIRY_BUFFER_MS
    Tokens,         \* bound: the tokens in use at a time; a fresh one takes
                    \* the name of one that nobody has any more
    NoToken         \* where there is none

ASSUME WebSessionAssumption ==
    /\ {Life, RequestBuffer, FocusBuffer} \subseteq Nat
    /\ 0 < RequestBuffer /\ RequestBuffer <= FocusBuffer /\ FocusBuffer < Life
    /\ NoToken \notin Tokens
    /\ \A slots \in Layouts : DOMAIN slots = Tabs

VARIABLES
    left,       \* left[k]: how long access token k is still valid
    alive,      \* server: the refresh tokens that are in the user's row
    cookie,     \* browser: the refresh token in the cookie, shared by the tabs
    stored,     \* browser: the access token in localStorage, shared by the tabs
    mem,        \* mem[t]: accessToken and tokenExpiresAt of tab t
    bus,        \* bus[t]: the last token broadcast to t, not heard of yet (bound: one)
    page,       \* page[t]: the kind of route that t shows
    account,    \* account[t]: what the AuthContext of t knows of the user
    refresh,    \* refresh[t]: the refresh request of t that is under way
    task,       \* task[t][i]: the async function in slot i
    signedOut,  \* history: the session was ended by a sign-out
    disturbed   \* history: a call failed on the network, or two that rotate
                \* or end the session overlapped, and not all is calm again

sessionVars == <<left, alive, cookie, stored, mem, bus, page, account, refresh,
                 task, signedOut, disturbed>>
serverVars == <<left, alive>>
tokenVars == <<cookie, stored, mem, bus>>

MaybeToken == {NoToken} \cup Tokens

Pages == {"private", "public", "auth"}
Waits == {"atStart", "missing", "preflight", "refused", "onFocus"}
Kinds == {"getCurrentUser", "call", "publicCall", "signOut", "signIn", "focus"}
Answers == {"none", "ok", "guest", "unauthenticated", "lost"}

\* A slot: what runs in it; where it stands: "idle", "sent", or waiting for a
\* refresh, and why; what became of that refresh; the token that it holds; the
\* answer of the server; whether the request is sent for the second time.
TaskType == [kind : Kinds, at : {"idle", "sent"} \cup Waits,
             woken : {"no", "refreshed", "rejected"}, token : MaybeToken,
             answer : Answers, retried : BOOLEAN]

IdleTask == [kind |-> "call", at |-> "idle", woken |-> "no", token |-> NoToken,
             answer |-> "none", retried |-> FALSE]

\* Its refresh has settled: it runs next.
Woken(t) == \E i \in DOMAIN task[t] : task[t][i].woken # "no"

NoRefresh == [busy |-> FALSE, token |-> NoToken]

-----------------------------------------------------------------------------
(* auth-state.ts *)

\* isTokenExpired: without an expiry a token counts as expired.
IsTokenExpired(token, buffer) == token = NoToken \/ left[token] <= buffer

\* getAccessToken: the token of this tab, or the stored one unless it has
\* expired.  The result stays in memory, where it is kept however old it gets.
GetAccessToken(t) ==
    IF mem[t] # NoToken THEN mem[t]
    ELSE IF stored # NoToken /\ left[stored] > 0 THEN stored ELSE NoToken

HasStoredToken(t) == mem[t] # NoToken \/ stored # NoToken

\* Mutation of SetAccessToken: the token in memory is left as it is.
SetAccessTokenStale(t, token) ==
    /\ mem' = mem
    /\ stored' = token
    /\ bus' = [s \in Tabs |-> IF s = t \/ DOMAIN task[s] = {} THEN bus[s] ELSE token]

\* setAccessToken in tab t, and its broadcast to the other tabs
SetAccessToken(t, token) ==
    /\ mem' = [mem EXCEPT ![t] = token]
    /\ stored' = token
    /\ bus' = [s \in Tabs |-> IF s = t \/ DOMAIN task[s] = {} THEN bus[s] ELSE token]

\* Another tab has refreshed: its token is adopted, in memory only.
AdoptBroadcast(t) ==
    /\ bus[t] # NoToken
    /\ ~Woken(t)
    /\ mem' = [mem EXCEPT ![t] = bus[t]]
    /\ bus' = [bus EXCEPT ![t] = NoToken]
    /\ UNCHANGED <<serverVars, cookie, stored, page, account, refresh, task,
                   signedOut, disturbed>>

-----------------------------------------------------------------------------
(* Tabs, documents and routes *)

\* A token that nobody holds: the name of the next one.
Unused == {k \in Tokens : /\ k \notin {cookie, stored}
                         /\ \A t \in Tabs : /\ k \notin {mem[t], bus[t], refresh[t].token}
                                            /\ \A i \in DOMAIN task[t] : task[t][i].token # k}

\* The server issues a token, and takes another out of the row.
Issue(new, old) ==
    /\ new \in Unused
    /\ left' = [k \in Tokens |-> IF k = new THEN Life ELSE IF k \in Unused THEN 0 ELSE left[k]]
    /\ alive' = {new} \cup (alive \ (Unused \cup {old}))

\* RefreshToken: the server rotates a refresh token that it knows, and refuses
\* another.
SendRefresh(t, token) ==
    \/ \E new \in Tokens :
          /\ token \in alive
          /\ Issue(new, token)
          /\ refresh' = [refresh EXCEPT ![t] = [busy |-> TRUE, token |-> new]]
    \/ /\ token \notin alive
       /\ refresh' = [refresh EXCEPT ![t] = [busy |-> TRUE, token |-> NoToken]]
       /\ UNCHANGED serverVars

\* Tab s waits for the answer to a sign-in or sign-out.
Switching(s, tasks) ==
    \E i \in DOMAIN tasks[s] : tasks[s][i].kind \in {"signOut", "signIn"} /\ tasks[s][i].at = "sent"

\* No async function of t is waiting for anything.
Quiet(t) == ~refresh[t].busy /\ \A i \in DOMAIN task[t] : task[t][i].at = "idle"

\* A refresh of t collides with another request that rotates, starts or ends
\* the session.
Collision(t) ==
    \/ \E s \in Tabs \ {t} : refresh[s].busy
    \/ \E s \in Tabs : Switching(s, task')

\* A document is loaded in tab t: nothing of the old one is left, and main.tsx
\* starts AuthContext.initialize, which refreshes if there is no token to use.
StartUp(t, storedToken, cookieToken) ==
    LET first == CHOOSE i \in DOMAIN task[t] : TRUE
        usable == storedToken # NoToken /\ left[storedToken] > 0
        begun == [IdleTask EXCEPT !.kind = "getCurrentUser", !.at = "atStart",
                                  !.woken = IF usable THEN "refreshed" ELSE "no"]
    IN  /\ task' = [task EXCEPT ![t] = [i \in DOMAIN task[t] |-> IF i = first THEN begun ELSE IdleTask]]
        /\ IF usable THEN refresh' = [refresh EXCEPT ![t] = NoRefresh] /\ UNCHANGED serverVars
           ELSE SendRefresh(t, cookieToken)
        /\ mem' = [mem EXCEPT ![t] = IF usable THEN storedToken ELSE NoToken]
        /\ bus' = [bus EXCEPT ![t] = NoToken]
        /\ account' = [account EXCEPT ![t] = "loading"]
        /\ stored' = storedToken
        /\ disturbed' = (disturbed \/ refresh[t].busy \/ (~usable /\ Collision(t)))

\* The application runs in tab t (bound: while there is a disturbance, nobody
\* starts anything new).
Usable(t) == account[t] \notin {"closed", "loading"} /\ ~disturbed

\* The user reloads the page (bound: not while something is under way in it).
Reload(t) ==
    /\ Usable(t)
    /\ Quiet(t)
    /\ StartUp(t, stored, cookie)
    /\ UNCHANGED <<cookie, page, signedOut>>

\* RequireAuthRoute, LandingRoute and RequireGuestRoute: what is shown once
\* the user is known.
GuardRoutes(t, who) ==
    \E p \in Pages :
        /\ IF who = "member" THEN p = (IF page[t] = "auth" THEN "private" ELSE page[t])
           ELSE IF page[t] = "private" THEN p # "private" ELSE p = page[t]
        /\ page' = [page EXCEPT ![t] = p]

Know(t, who) == account' = [account EXCEPT ![t] = who] /\ GuardRoutes(t, who)

\* A link of the application is followed.
Visit(t, p) ==
    /\ Usable(t)
    /\ p # page[t]
    /\ p = "private" => account[t] = "member"
    /\ p = "auth" => account[t] = "guest"
    /\ page' = [page EXCEPT ![t] = p]
    /\ UNCHANGED <<serverVars, tokenVars, account, refresh, task, signedOut, disturbed>>

-----------------------------------------------------------------------------
(* connect.ts: the refresh manager *)

SetTask(t, i, new) == task' = [task EXCEPT ![t][i] = new]

\* tokenRefreshManager.refresh: a refresh under way is joined.
AwaitRefresh(t, i, new, why) ==
    /\ SetTask(t, i, [new EXCEPT !.at = why, !.woken = "no"])
    /\ IF refresh[t].busy THEN UNCHANGED <<serverVars, refresh, disturbed>>
       ELSE SendRefresh(t, cookie) /\ disturbed' = (disturbed \/ Collision(t))

\* Mutation of Settle: the promise is dropped before its waiters are resumed.
SettleForgetful(t, ok) ==
    /\ refresh' = [refresh EXCEPT ![t] = NoRefresh]
    /\ UNCHANGED task

\* The promise of the refresh settles: whoever waits for it is resumed.
Settle(t, ok) ==
    /\ refresh' = [refresh EXCEPT ![t] = NoRefresh]
    /\ task' = [task EXCEPT ![t] = [i \in DOMAIN task[t] |->
                   IF task[t][i].at \in Waits
                   THEN [task[t][i] EXCEPT !.woken = IF ok THEN "refreshed" ELSE "rejected"]
                   ELSE task[t][i]]]

RefreshAnswered(t) ==
    /\ refresh[t].busy
    /\ Settle(t, refresh[t].token # NoToken)
    /\ IF refresh[t].token # NoToken
       THEN cookie' = refresh[t].token /\ SetAccessToken(t, refresh[t].token)
       ELSE UNCHANGED tokenVars
    /\ UNCHANGED <<serverVars, page, account, signedOut, disturbed>>

\* Bound: the network fails only while nothing else disturbs the session, and
\* while a single tab is open.
MayFail == ~disturbed /\ \E t \in Tabs : \A s \in Tabs \ {t} : account[s] = "closed"

\* A refresh fails on the network.
RefreshLost(t) ==
    /\ refresh[t].busy
    /\ MayFail
    /\ disturbed' = TRUE
    /\ Settle(t, FALSE)
    /\ UNCHANGED <<serverVars, tokenVars, page, account, signedOut>>

-----------------------------------------------------------------------------
(* connect.ts: the interceptor *)

\* The request leaves with the given token, and is handled.  Access tokens are
\* stateless: a sign-out does not end them.  What becomes of the answer to a
\* call that succeeds at once, or of one that a guest makes, makes no difference.
Send(t, i, new, token) ==
    LET valid == token # NoToken /\ left[token] > 0
        answer == IF valid \/ new.kind = "signIn" THEN "ok"
                  ELSE IF new.kind = "publicCall" THEN "guest" ELSE "unauthenticated"
        sent == [new EXCEPT !.at = "sent", !.woken = "no", !.answer = answer, !.token = NoToken]
        dull == /\ new.kind \in {"call", "publicCall"}
                /\ (answer = "ok" /\ ~new.retried) \/ (answer = "guest" /\ account[t] = "guest")
    IN  /\ \/ \E granted \in Tokens :
                 /\ new.kind = "signIn"
                 /\ Issue(granted, NoToken)
                 /\ SetTask(t, i, [sent EXCEPT !.token = granted])
           \/ /\ new.kind # "signIn"
              /\ alive' = IF new.kind = "signOut" /\ valid THEN alive \ {cookie} ELSE alive
              /\ SetTask(t, i, IF dull THEN IdleTask ELSE sent)
              /\ UNCHANGED left
        /\ disturbed' = (disturbed \/ (/\ new.kind \in {"signIn", "signOut"}
                                     /\ \E s \in Tabs : refresh[s].busy \/ Switching(s, task)))
        /\ UNCHANGED refresh

\* Mutation of GetRequestToken: no preflight refresh.
GetRequestTokenUnchecked(t, i, new) ==
    LET token == GetAccessToken(t)
    IN  /\ mem' = [mem EXCEPT ![t] = token]
        /\ Send(t, i, new, token)

\* getRequestToken: no request leaves with a token that is about to expire
\* unless it could not be refreshed.
GetRequestToken(t, i, new) ==
    LET token == GetAccessToken(t)
    IN  /\ mem' = [mem EXCEPT ![t] = token]
        /\ IF token = NoToken /\ stored # NoToken THEN AwaitRefresh(t, i, new, "missing")
           ELSE IF token # NoToken /\ IsTokenExpired(token, RequestBuffer)
           THEN AwaitRefresh(t, i, [new EXCEPT !.token = token], "preflight")
           ELSE Send(t, i, new, token)

\* An async function of the application starts with a request (bound: the user
\* signs in or out in one place at a time).
Begin(t, i, kind) ==
    /\ Usable(t)
    /\ task[t][i].at = "idle"
    /\ kind \in {"call", "signOut"} => account[t] = "member"
    /\ kind = "signIn" => account[t] = "guest" /\ page[t] = "auth"
    /\ kind \in {"signIn", "signOut"} =>
           \A s \in Tabs : \A j \in DOMAIN task[s] :
               task[s][j].at = "idle" \/ task[s][j].kind \notin {kind, "getCurrentUser"}
    /\ GetRequestToken(t, i, [IdleTask EXCEPT !.kind = kind])
    /\ UNCHANGED <<cookie, stored, bus, page, account, signedOut>>

\* useTokenRefreshOnFocus: the tab becomes visible.
Focus(t, i) ==
    /\ Usable(t)
    /\ account[t] = "member"
    /\ task[t][i].at = "idle"
    /\ HasStoredToken(t)
    /\ IsTokenExpired(mem[t], FocusBuffer)
    /\ AwaitRefresh(t, i, [IdleTask EXCEPT !.kind = "focus"], "onFocus")
    /\ UNCHANGED <<tokenVars, page, account, signedOut>>

\* initialize has no token even after a refresh: the user is taken for a guest,
\* and a stored token that has expired stays where it is.
StartAsGuest(t, i) ==
    /\ SetTask(t, i, IdleTask)
    /\ Know(t, "guest")
    /\ UNCHANGED <<serverVars, stored, mem, bus, refresh, disturbed>>

\* initialize has a token, but getCurrentUser throws: clearAccessToken, and the
\* routes of a guest
BecomeGuest(t, i) ==
    /\ mem' = [mem EXCEPT ![t] = NoToken]
    /\ stored' = NoToken
    /\ SetTask(t, i, IdleTask)
    /\ Know(t, "guest")
    /\ UNCHANGED <<serverVars, bus, refresh, disturbed>>

\* handleSignOut of UserMenu.tsx, after logout: localStorage is cleared and the
\* sign-in page loaded.
LeaveSignedOut(t) == page' = [page EXCEPT ![t] = "auth"] /\ StartUp(t, NoToken, cookie)

\* An async function throws: initialize gives up the user, logout goes on as
\* if the server had answered, the others report the error.
Thrown(t, i) ==
    CASE task[t][i].kind = "getCurrentUser" -> BecomeGuest(t, i)
      [] task[t][i].kind = "signOut" -> LeaveSignedOut(t)
      [] OTHER -> /\ SetTask(t, i, IdleTask)
                  /\ UNCHANGED <<serverVars, stored, mem, bus, page, account, refresh, disturbed>>

\* redirectOnAuthFailure: nothing on public and auth pages, otherwise the
\* token is given up and the sign-in page loaded.
AuthFailure(t, i) ==
    IF page[t] = "private" THEN LeaveSignedOut(t) ELSE Thrown(t, i)

\* An async function goes on after the refresh that it waited for.
Resume(t, i) ==
    LET this == task[t][i]
        token == GetAccessToken(t)
        usable == this.woken = "refreshed" /\ token # NoToken
        Request(new, with) == /\ Send(t, i, new, with)
                              /\ mem' = [mem EXCEPT ![t] = token]
                              /\ UNCHANGED <<stored, bus, page, account>>
    IN  /\ this.woken # "no"
        /\ CASE this.at = "onFocus" ->
                   /\ SetTask(t, i, IdleTask)
                   /\ UNCHANGED <<serverVars, stored, mem, bus, page, account, refresh, disturbed>>
             [] this.at = "atStart" /\ token = NoToken -> StartAsGuest(t, i)
             [] this.at = "atStart" /\ token # NoToken ->
                   GetRequestToken(t, i, this) /\ UNCHANGED <<stored, bus, page, account>>
             [] this.at \in {"missing", "preflight"} ->
                   Request(this, IF usable THEN token ELSE this.token)
             [] this.at = "refused" /\ usable -> Request([this EXCEPT !.retried = TRUE], token)
             [] this.at = "refused" /\ ~usable -> AuthFailure(t, i)
        /\ UNCHANGED <<cookie, signedOut>>

\* A request was refused: it is sent again, once, with a new token.
Refused(t, i) ==
    LET this == task[t][i]
    IN  /\ this.at = "sent"
        /\ this.answer = "unauthenticated"
        /\ IF this.retried THEN AuthFailure(t, i)
           ELSE /\ AwaitRefresh(t, i, [this EXCEPT !.answer = "none"], "refused")
                /\ UNCHANGED <<stored, mem, bus, page, account>>
        /\ UNCHANGED <<cookie, signedOut>>

\* The answer is lost on the network ...
RequestLost(t, i) ==
    /\ task[t][i].at = "sent"
    /\ MayFail
    /\ disturbed' = TRUE
    /\ SetTask(t, i, [task[t][i] EXCEPT !.answer = "lost", !.token = NoToken])
    /\ UNCHANGED <<serverVars, tokenVars, page, account, refresh, signedOut>>

\* ... and the call fails.  Whatever the error of a resent request is, it
\* counts as the end of the session.
Failed(t, i) ==
    /\ task[t][i].at = "sent"
    /\ task[t][i].answer = "lost"
    /\ IF task[t][i].retried THEN AuthFailure(t, i) ELSE Thrown(t, i)
    /\ UNCHANGED <<cookie, signedOut>>

-----------------------------------------------------------------------------
(* AuthContext.tsx *)

Answered(t, i, kinds) ==
    /\ task[t][i].at = "sent"
    /\ task[t][i].answer \in {"ok", "guest"}
    /\ task[t][i].kind \in kinds

\* initialize has the user.  The requests for the settings and the shortcuts,
\* which follow with the same consequences when they fail, are part of this one.
UserAnswered(t, i) ==
    /\ Answered(t, i, {"getCurrentUser"})
    /\ Know(t, "member")
    /\ SetTask(t, i, IdleTask)
    /\ UNCHANGED <<serverVars, tokenVars, refresh, signedOut, disturbed>>

CallAnswered(t, i) ==
    /\ Answered(t, i, {"call", "publicCall"})
    /\ SetTask(t, i, IdleTask)
    /\ UNCHANGED <<serverVars, tokenVars, page, account, refresh, signedOut, disturbed>>

\* PasswordSignInForm.tsx and SignUp.tsx: the token of the answer is kept, then initialize.
SignedIn(t, i) ==
    /\ Answered(t, i, {"signIn"})
    /\ cookie' = task[t][i].token
    /\ SetAccessToken(t, task[t][i].token)
    /\ SetTask(t, i, [IdleTask EXCEPT !.kind = "getCurrentUser", !.at = "atStart", !.woken = "refreshed"])
    /\ signedOut' = FALSE
    /\ disturbed' = (disturbed \/ \E s \in Tabs \ {t} : ~Quiet(s))
    /\ UNCHANGED <<serverVars, page, account, refresh>>

\* Mutation of SignOutAnswered: localStorage is not cleared.
SignOutAnsweredUncleared(t, i) ==
    /\ Answered(t, i, {"signOut"})
    /\ cookie' = NoToken
    /\ page' = [page EXCEPT ![t] = "auth"]
    /\ StartUp(t, stored, NoToken)
    /\ signedOut' = TRUE

\* logout and handleSignOut; the answer has cleared the cookie
SignOutAnswered(t, i) ==
    /\ Answered(t, i, {"signOut"})
    /\ cookie' = NoToken
    /\ page' = [page EXCEPT ![t] = "auth"]
    /\ StartUp(t, NoToken, NoToken)
    /\ signedOut' = TRUE

-----------------------------------------------------------------------------
\* A unit of time passes: no refresh takes as long, and no broadcast.
Tick ==
    /\ \A t \in Tabs : ~Woken(t) /\ ~refresh[t].busy /\ bus[t] = NoToken
    /\ ~disturbed
    /\ \E k \in Tokens : left[k] > 0
    /\ left' = [k \in Tokens |-> IF left[k] > 0 /\ k \notin Unused THEN left[k] - 1 ELSE 0]
    /\ UNCHANGED <<alive, tokenVars, page, account, refresh, task, signedOut, disturbed>>

\* History: nothing is under way any more, so that what comes next is not the
\* doing of the disturbance.
CalmAgain ==
    /\ disturbed
    /\ \A t \in Tabs : Quiet(t) /\ bus[t] = NoToken
    /\ disturbed' = FALSE
    /\ signedOut' = (signedOut /\ cookie \notin alive /\ stored = NoToken)
    /\ UNCHANGED <<serverVars, tokenVars, page, account, refresh, task>>

\* One tab is open and signed in, another is about to start.
SessionInit ==
    \E first \in Tokens, slots \in Layouts :
        /\ left = [k \in Tokens |-> IF k = first THEN Life ELSE 0]
        /\ alive = {first}
        /\ cookie = first
        /\ stored = first
        /\ mem = [t \in Tabs |-> IF slots[t] = {} THEN NoToken ELSE first]
        /\ bus = [t \in Tabs |-> NoToken]
        /\ page = [t \in Tabs |-> "private"]
        /\ account = [t \in Tabs |-> IF slots[t] = {} THEN "closed" ELSE "member"]
        /\ refresh = [t \in Tabs |-> NoRefresh]
        /\ task = [t \in Tabs |-> [i \in slots[t] |-> IdleTask]]
        /\ signedOut = FALSE
        /\ disturbed = FALSE

TaskNext(t, i) ==
    \/ Focus(t, i) \/ Resume(t, i) \/ Refused(t, i) \/ RequestLost(t, i) \/ Failed(t, i)
    \/ UserAnswered(t, i) \/ CallAnswered(t, i)
    \/ SignedIn(t, i) \/ SignOutAnswered(t, i)
    \/ \E kind \in {"call", "publicCall", "signOut", "signIn"} : Begin(t, i, kind)

TabNext(t) ==
    \/ AdoptBroadcast(t) \/ RefreshAnswered(t) \/ RefreshLost(t) \/ Reload(t)
    \/ \E p \in Pages : Visit(t, p)
    \/ \E i \in DOMAIN task[t] : TaskNext(t, i)

SessionNext == Tick \/ CalmAgain \/ \E t \in Tabs : TabNext(t)

SessionSpec == SessionInit /\ [][SessionNext]_sessionVars

-----------------------------------------------------------------------------
SessionTypeOK ==
    /\ left \in [Tokens -> 0..Life]
    /\ alive \subseteq Tokens
    /\ {cookie, stored} \subseteq MaybeToken
    /\ mem \in [Tabs -> MaybeToken]
    /\ bus \in [Tabs -> MaybeToken]
    /\ page \in [Tabs -> Pages]
    /\ account \in [Tabs -> {"closed", "loading", "guest", "member"}]
    /\ refresh \in [Tabs -> [busy : BOOLEAN, token : MaybeToken]]
    /\ \E slots \in Layouts : \A t \in Tabs : task[t] \in [slots[t] -> TaskType]
    /\ {signedOut, disturbed} \subseteq BOOLEAN
    /\ \A t \in Tabs : \A i \in DOMAIN task[t] :
           task[t][i].at \in Waits => task[t][i].woken # "no" \/ refresh[t].busy

\* "Keep existing reactive 401 flow as fallback", "adopt the token in-memory so
\* we don't fire our own refresh request": as long as no call fails on the
\* network and no two tabs rotate the session at the same moment, the stored
\* token is given up, and a user turned into a guest, only when the refresh
\* token of the browser is no longer known to the server - whatever tokens
\* expire meanwhile, in which tab, and whoever is told of the new one when.
NoNeedlessSignIn ==
    [][(\/ stored # NoToken /\ stored' = NoToken
        \/ \E t \in Tabs : account[t] # "guest" /\ account'[t] = "guest")
       => disturbed' \/ cookie' \notin alive']_sessionVars

\* "avoid sending requests with expired access tokens [...] could otherwise be
\* treated as anonymous and return guest-scoped data": a tab of a signed-in
\* user sends a request that is answered as a guest's only when a refresh has
\* just failed for that request.
GuestDataOnlyAfterFailure ==
    [][\A t \in Tabs : \A i \in DOMAIN task[t] :
          /\ account[t] = "member"
          /\ task[t][i].answer # "guest"
          /\ task'[t][i].answer = "guest"
          => task[t][i].woken = "rejected"]_sessionVars

\* "Tokens are cleared on logout": after a sign-out that no refresh ran beside,
\* neither the cookie nor localStorage brings a session back, whatever the
\* other tabs, which are not told, go on to do with the tokens they hold.
SignOutSticks == signedOut /\ ~disturbed => cookie \notin alive /\ stored = NoToken
=============================================================================
