------------------------------ MODULE WebOAuth ------------------------------
(***************************************************************************)
(* Signing in, and linking an account, at an OAuth2 identity provider: the *)
(* one slot of sessionStorage that ties a callback to the flow that the tab *)
(* started (web/src/utils/oauth.ts), the pages that start a flow           *)
(* (pages/SignIn.tsx, components/Settings/LinkedIdentitySection.tsx) and   *)
(* the page that the provider sends the tab back to                        *)
(* (pages/AuthCallback.tsx).                                               *)
(*                                                                         *)
(* The tab may come back with any flow that was ever started in it, also   *)
(* twice: through the history, a reload, or a second answer of the         *)
(* provider.  Meanwhile other tabs sign the browser in and out.            *)
(***************************************************************************)
EXTENDS Naturals

CONSTANTS
    Flows,          \* state values, one for every flow that the tab starts
    Users,          \* the users of the browser
    Nobody,         \* where there is no flow, or no user
    StateExpiry     \* STATE_EXPIRY_MS, in units of time

ASSUME WebOAuthAssumption ==
    StateExpiry \in Nat \ {0} /\ Nobody \notin Users \cup Flows

VARIABLES
    browserUser,    \* whose session the browser holds
    docAt,          \* where the tab is: in the application, at the provider,
                    \* on the callback page, or waiting for its request
    docUser,        \* currentUser of its AuthContext
    oauthSlot,      \* the entry oauth_state of its sessionStorage
    callback,       \* the flow in the address of the callback page
    exchange,       \* what the callback page asks of the server
    started,        \* history: started[f], how flow f was started, and its age
    completed       \* history: what the server was asked to complete, and how often

oauthVars == <<browserUser, docAt, docUser, oauthSlot, callback, exchange, started, completed>>

Modes == {"signin", "link"}
Unstarted == [mode |-> "none", user |-> Nobody, age |-> 0]
Entry(f, mode, user) == [state |-> f, flowMode |-> mode, linkingUserName |-> user, age |-> 0]
EmptySlot == Entry(Nobody, "none", Nobody)
NoExchange == [flow |-> Nobody, mode |-> "none", user |-> Nobody]

\* storeOAuthState replaces whatever the slot held.
StoreOAuthState(f, mode, user) ==
    /\ started[f] = Unstarted
    /\ oauthSlot' = Entry(f, mode, user)
    /\ started' = [started EXCEPT ![f] = [mode |-> mode, user |-> user, age |-> 0]]

\* The tab leaves for the provider.
Leave(f, mode, user) ==
    /\ docAt = "app"
    /\ StoreOAuthState(f, mode, user)
    /\ docAt' = "provider"
    /\ UNCHANGED <<browserUser, docUser, callback, exchange, completed>>

\* handleSignInWithIdentityProvider, on a page for guests
SignInWithProvider(f) == docUser = Nobody /\ Leave(f, "signin", Nobody)

\* handleLinkIdentityProvider, on the settings page
LinkProvider(f) == docUser # Nobody /\ Leave(f, "link", docUser)

Expired(entry) == entry.age > StateExpiry

\* A document is loaded: App drops an expired entry, and the user is whoever
\* the browser is signed in as by then.
Load(where) ==
    /\ docAt' = where
    /\ docUser' = browserUser
    /\ oauthSlot' = IF Expired(oauthSlot) THEN EmptySlot ELSE oauthSlot
    /\ exchange' = NoExchange
    /\ UNCHANGED <<browserUser, started, completed>>

\* The provider, or the history, opens the callback page for a flow.
OpenCallback(f) ==
    /\ docAt # "exchange"
    /\ started[f] # Unstarted
    /\ Load("callback")
    /\ callback' = f

\* The user comes back without an answer, or with an error of the provider, or
\* reloads.
OpenApp == docAt # "app" /\ Load("app") /\ callback' = Nobody

\* Mutation of ValidateOAuthState: any entry will do.
ValidateAnyState(f) == oauthSlot # EmptySlot /\ ~Expired(oauthSlot)

\* validateOAuthState: the entry is there, not expired, and of this flow.
\* Whatever comes of it, the entry is gone afterwards.
ValidateOAuthState(f) ==
    /\ oauthSlot # EmptySlot
    /\ ~Expired(oauthSlot)
    /\ oauthSlot.state = f

\* Who a link may be asked for: the signed-in user, if the flow was his.
LinkAllowed(entry) ==
    /\ docUser # Nobody
    /\ entry.linkingUserName # Nobody => entry.linkingUserName = docUser

\* The effect of AuthCallback, once the user is known: the error is shown ...
CallbackRefused ==
    /\ docAt = "callback"
    /\ ~(ValidateOAuthState(callback) /\ (oauthSlot.flowMode = "link" => LinkAllowed(oauthSlot)))
    /\ docAt' = "app"
    /\ oauthSlot' = EmptySlot
    /\ callback' = Nobody
    /\ UNCHANGED <<browserUser, docUser, exchange, started, completed>>

\* ... or the code is handed to the server.
CallbackAccepted ==
    /\ docAt = "callback"
    /\ ValidateOAuthState(callback)
    /\ oauthSlot.flowMode = "link" => LinkAllowed(oauthSlot)
    /\ exchange' = [flow |-> callback, mode |-> oauthSlot.flowMode,
                    user |-> IF oauthSlot.flowMode = "link" THEN docUser ELSE Nobody]
    /\ completed' = [completed EXCEPT ![callback] =
           [mode |-> exchange'.mode, user |-> exchange'.user,
            late |-> Expired(started[callback]), times |-> @.times + 1]]
    /\ docAt' = "exchange"
    /\ oauthSlot' = EmptySlot
    /\ UNCHANGED <<browserUser, docUser, callback, started>>

\* The server links the identity to the user of the request, who must be the
\* one that the browser is signed in as; a sign-in brings a user of its own.
\* initialize follows, with the token of the answer.
ExchangeDone ==
    /\ docAt = "exchange"
    /\ \/ /\ exchange.mode = "link"
          /\ exchange.user = browserUser
          /\ UNCHANGED browserUser
       \/ /\ exchange.mode = "signin"
          /\ browserUser' \in Users
    /\ docUser' = browserUser'
    /\ docAt' = "app"
    /\ exchange' = NoExchange
    /\ callback' = Nobody
    /\ UNCHANGED <<oauthSlot, started, completed>>

ExchangeFailed ==
    /\ docAt = "exchange"
    /\ docAt' = "app"
    /\ exchange' = NoExchange
    /\ callback' = Nobody
    /\ UNCHANGED <<browserUser, docUser, oauthSlot, started, completed>>

\* Another tab of the browser signs in or out.
OtherTab ==
    /\ browserUser' \in (Users \cup {Nobody}) \ {browserUser}
    /\ UNCHANGED <<docAt, docUser, oauthSlot, callback, exchange, started, completed>>

\* Time passes (bound: an age is not counted beyond the expiry).
Older(r) == [r EXCEPT !.age = IF @ > StateExpiry THEN @ ELSE @ + 1]
Age ==
    /\ \E f \in Flows : started[f] # Unstarted /\ ~Expired(started[f])
    /\ oauthSlot' = IF oauthSlot = EmptySlot THEN EmptySlot ELSE Older(oauthSlot)
    /\ started' = [f \in Flows |-> IF started[f] = Unstarted THEN Unstarted ELSE Older(started[f])]
    /\ UNCHANGED <<browserUser, docAt, docUser, callback, exchange, completed>>

OAuthInit ==
    /\ browserUser = Nobody
    /\ docAt = "app"
    /\ docUser = Nobody
    /\ oauthSlot = EmptySlot
    /\ callback = Nobody
    /\ exchange = NoExchange
    /\ started = [f \in Flows |-> Unstarted]
    /\ completed = [f \in Flows |-> [mode |-> "none", user |-> Nobody, late |-> FALSE, times |-> 0]]

OAuthNext ==
    \/ \E f \in Flows : SignInWithProvider(f) \/ LinkProvider(f) \/ OpenCallback(f)
    \/ OpenApp \/ CallbackRefused \/ CallbackAccepted \/ ExchangeDone \/ ExchangeFailed
    \/ OtherTab \/ Age

OAuthSpec == OAuthInit /\ [][OAuthNext]_oauthVars

-----------------------------------------------------------------------------
OAuthTypeOK ==
    /\ browserUser \in Users \cup {Nobody}
    /\ docAt \in {"app", "provider", "callback", "exchange"}
    /\ docUser \in Users \cup {Nobody}
    /\ oauthSlot.state \in Flows \cup {Nobody}
    /\ callback \in Flows \cup {Nobody}
    /\ exchange.flow \in Flows \cup {Nobody}
    /\ \A f \in Flows : started[f].mode \in Modes \cup {"none"} /\ started[f].age \in 0..StateExpiry + 1
    /\ docAt \in {"callback", "exchange"} => callback # Nobody

\* "One-time OAuth state", "the signed-in user changed before the OAuth callback
\* completed": whatever callbacks the tab opens, in whatever order, and whoever
\* the browser is signed in as meanwhile, a flow is completed at most once, in
\* time, in the mode it was started in, and a link only for the user who asked
\* for it.
OAuthCompletesWhatWasStarted ==
    \A f \in Flows :
        completed[f].times > 0 =>
            /\ completed[f].times = 1
            /\ ~completed[f].late
            /\ completed[f].mode = started[f].mode
            /\ completed[f].user = started[f].user
=============================================================================
