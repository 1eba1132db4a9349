------------------------------ MODULE Sessions ------------------------------
(***************************************************************************)
(* Browser sessions of one user: SignIn, RefreshToken and SignOut of       *)
(* server/router/api/v1/auth_service.go, on the row of refresh tokens that *)
(* UserSetting models.                                                     *)
(*                                                                         *)
(* A browser keeps one refresh token, in a cookie that it sends with every *)
(* request and that an answer replaces.  A request issues at most one      *)
(* token, which goes by the name of the request; the token that a browser  *)
(* was signed in with from the start goes by the name of the browser.      *)
(* Access tokens are stateless and are not modelled.                       *)
(***************************************************************************)
EXTENDS Naturals, FiniteSets

CONSTANTS
    Requests,   \* the requests of the user's browsers, each served once
    Browsers,   \* the browsers
    SignedIn,   \* those that are signed in when the model starts
    NoCookie,   \* the cookie of a browser that is not
    MaxFaults   \* bound: database errors and crashes in a behaviour

ASSUME SessionAssumption ==
    /\ SignedIn \subseteq Browsers
    /\ NoCookie \notin Requests \cup Browsers
    /\ Requests \cap Browsers = {} /\ Browsers # {}
    /\ MaxFaults \in Nat

VARIABLES
    row, cache, step, access, seen, minted, revoked, live, disturbed, faults,
    hstate,     \* hstate[p]: where the handler of request p stands
    browser,    \* browser[p]: who sent it
    sent,       \* sent[p]: the token its handler took from the cookie
    cookie,     \* cookie[b]: the refresh token browser b holds
    rotated,    \* history: the tokens that refreshes have reported replaced
    excused     \* history: the browsers that signed out, or met a failure

Tokens == Requests \cup Browsers

Setting == INSTANCE UserSetting
             WITH Procs <- Requests, InitialTokens <- SignedIn

rowVars == <<row, cache, step, access, seen, minted, revoked, live,
             disturbed, faults>>
requestVars == <<hstate, browser, sent>>
browserVars == <<cookie, rotated, excused>>
vars == <<row, cache, step, access, seen, minted, revoked, live,
          disturbed, faults, hstate, browser, sent, cookie, rotated, excused>>

HandlerStates == {"new", "signIn", "authenticate", "add", "remove",
                  "signOut", "done"}

Init ==
    /\ Setting!Init
    /\ hstate = [p \in Requests |-> "new"]
    /\ browser = [p \in Requests |-> CHOOSE b \in Browsers : TRUE]
    /\ sent = [p \in Requests |-> NoCookie]
    /\ cookie = [b \in Browsers |-> IF b \in SignedIn THEN b ELSE NoCookie]
    /\ rotated = {}
    /\ excused = {}

\* Browser b sends request p, whose handler is interested in the given token.
Send(p, b, token, state) ==
    /\ hstate[p] = "new"
    /\ hstate' = [hstate EXCEPT ![p] = state]
    /\ browser' = [browser EXCEPT ![p] = b]
    /\ sent' = [sent EXCEPT ![p] = token]
    /\ UNCHANGED <<cookie, rotated>>

\* The call of user_setting.go that the handler waits for has returned.
Returned(p, state, result) ==
    /\ hstate[p] = state
    /\ step[p] = result

Goto(p, state) ==
    /\ hstate' = [hstate EXCEPT ![p] = state]
    /\ UNCHANGED <<browser, sent>>

\* The answer arrives with a new cookie, or is lost on its way.
Answer(p, newCookie) ==
    /\ Goto(p, "done")
    /\ \/ cookie' = [cookie EXCEPT ![browser[p]] = newCookie] /\ UNCHANGED excused
       \/ excused' = excused \cup {browser[p]} /\ UNCHANGED cookie

\* doSignIn stores the new token.  An error is logged; the cookie is set
\* either way.
SignIn(p, b) ==
    /\ Send(p, b, NoCookie, "signIn")
    /\ Setting!Start(p, "add", p)
    /\ UNCHANGED excused

SignInAnswer(p) ==
    /\ Returned(p, "signIn", "ok")
    /\ Answer(p, p)
    /\ UNCHANGED <<rowVars, rotated>>

SignInUnstored(p) ==
    /\ Returned(p, "signIn", "failed")
    /\ Goto(p, "done")
    /\ cookie' = [cookie EXCEPT ![browser[p]] = p]
    /\ excused' = excused \cup {browser[p]}
    /\ UNCHANGED <<rowVars, rotated>>

\* RefreshToken: without a cookie it is refused at once, with one its token
\* is looked up
Refresh(p, b) ==
    /\ cookie[b] # NoCookie
    /\ Send(p, b, cookie[b], "authenticate")
    /\ Setting!Start(p, "read", cookie[b])
    /\ UNCHANGED excused

\* Mutation of Authenticated: the new token is never stored.
AuthenticatedUnstored(p) ==
    /\ Returned(p, "authenticate", "ok")
    /\ sent[p] \in seen[p]
    /\ Setting!Start(p, "remove", sent[p])
    /\ Goto(p, "remove")
    /\ UNCHANGED browserVars

\* the list has the token, and its user exists and is not archived: the new
\* token is added first
Authenticated(p) ==
    /\ Returned(p, "authenticate", "ok")
    /\ sent[p] \in seen[p]
    /\ Setting!Start(p, "add", p)
    /\ Goto(p, "add")
    /\ UNCHANGED browserVars

\* Mutation of Refused: the answer does not wait for the store.
RefusedEarly(p) ==
    /\ hstate[p] = "authenticate"
    /\ Goto(p, "done")
    /\ UNCHANGED <<rowVars, browserVars>>

\* it has not, or the token or its user has expired, or the call failed
Refused(p) ==
    /\ hstate[p] = "authenticate"
    /\ step[p] \in {"ok", "failed"}
    /\ Goto(p, "done")
    /\ UNCHANGED <<rowVars, browserVars>>

NotAdded(p) ==
    /\ Returned(p, "add", "failed")
    /\ Goto(p, "done")
    /\ UNCHANGED <<rowVars, browserVars>>

\* Mutation of Added: the new token is removed instead of the old one.
AddedRemovesNew(p) ==
    /\ Returned(p, "add", "ok")
    /\ Setting!Start(p, "remove", p)
    /\ Goto(p, "remove")
    /\ UNCHANGED browserVars

\* ... and the old one is removed after it
Added(p) ==
    /\ Returned(p, "add", "ok")
    /\ Setting!Start(p, "remove", sent[p])
    /\ Goto(p, "remove")
    /\ UNCHANGED browserVars

\* an error of the removal is logged and the new cookie set all the same
RefreshAnswer(p) ==
    /\ hstate[p] = "remove"
    /\ step[p] \in {"ok", "failed"}
    /\ Answer(p, p)
    /\ rotated' = rotated \cup (IF step[p] = "ok" THEN {sent[p]} ELSE {})
    /\ UNCHANGED rowVars

\* SignOut removes the token of the cookie, whatever comes of it, and clears
\* the cookie.
SignOut(p, b) ==
    /\ cookie[b] # NoCookie
    /\ Send(p, b, cookie[b], "signOut")
    /\ Setting!Start(p, "remove", cookie[b])
    /\ excused' = excused \cup {b}

SignOutAnswer(p) ==
    /\ hstate[p] = "signOut"
    /\ step[p] \in {"ok", "failed"}
    /\ Goto(p, "done")
    /\ \/ cookie' = [cookie EXCEPT ![browser[p]] = NoCookie]
       \/ UNCHANGED cookie
    /\ UNCHANGED <<rowVars, rotated, excused>>

\* The store goes on serving p's call.
StoreStep(p) ==
    /\ Setting!AccessNext(p)
    /\ UNCHANGED <<requestVars, browserVars>>

Evict ==
    /\ Setting!Evict
    /\ UNCHANGED <<requestVars, browserVars>>

\* The server dies and restarts: no request under way is ever answered.
Crash ==
    /\ Setting!Crash
    /\ hstate' = [p \in Requests |-> IF hstate[p] = "new" THEN "new" ELSE "done"]
    /\ excused' = excused \cup
           {browser[p] : p \in {r \in Requests : hstate[r] \notin {"new", "done"}}}
    /\ UNCHANGED <<browser, sent, cookie, rotated>>

RequestNext(p) ==
    \/ SignInAnswer(p) \/ SignInUnstored(p)
    \/ Authenticated(p) \/ Refused(p) \/ NotAdded(p) \/ Added(p) \/ RefreshAnswer(p)
    \/ SignOutAnswer(p) \/ StoreStep(p)
    \/ \E b \in Browsers : SignIn(p, b) \/ Refresh(p, b) \/ SignOut(p, b)

Next == Evict \/ Crash \/ \E p \in Requests : RequestNext(p)

Spec == Init /\ [][Next]_vars

-----------------------------------------------------------------------------
TypeOK ==
    /\ Setting!TypeOK
    /\ hstate \in [Requests -> HandlerStates]
    /\ browser \in [Requests -> Browsers]
    /\ sent \in [Requests -> Tokens \cup {NoCookie}]
    /\ cookie \in [Browsers -> Tokens \cup {NoCookie}]
    /\ rotated \subseteq Tokens
    /\ excused \subseteq Browsers
    /\ \A p \in Requests : Setting!Busy(p) => hstate[p] \notin {"new", "done"}

\* Browser b can still refresh its session, or is about to be handed the
\* token of a refresh that has already given up the old one.
HoldsSession(b) ==
    \/ cookie[b] \in Setting!Contents
    \/ \E p \in Requests :
           browser[p] = b /\ hstate[p] = "remove" /\ p \in Setting!Contents

\* "Sliding window sessions: active users stay logged in": a browser that has
\* not signed out, and lost no answer, keeps a token that the table has, in
\* every state of every rotation, also of rotations sent with the same cookie
\* - provided that no two accesses to the row overlapped.
SessionKept ==
    \A b \in Browsers :
        ~disturbed /\ b \notin excused /\ cookie[b] # NoCookie => HoldsSession(b)

\* "add before remove to handle race conditions": a browser whose token came
\* from a refresh keeps its session whatever else goes on meanwhile.
RefreshSurvivesRaces ==
    \A p \in Requests :
        LET b == browser[p]
        IN  cookie[b] = p /\ sent[p] # NoCookie /\ b \notin excused => HoldsSession(b)

\* "stolen refresh tokens become invalid after legitimate refresh": what a
\* refresh has replaced stays out of the table.
RotatedStaysDead == ~disturbed => rotated \cap Setting!Contents = {}
=============================================================================
