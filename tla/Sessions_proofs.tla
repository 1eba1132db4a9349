-------------------------- MODULE Sessions_proofs --------------------------
(***************************************************************************)
(* What Sessions promises for any number of browsers, requests and faults. *)
(* The handlers use the row only as UserSetting allows, so that what is    *)
(* proved of the row holds here; a session is then followed from cookie to *)
(* cookie through any rotations of it that are under way.                  *)
(***************************************************************************)
EXTENDS Sessions, TLAPS

Row == INSTANCE UserSetting_proofs
         WITH Procs <- Requests, InitialTokens <- SignedIn

USE DEF Goto, Returned, rowVars, requestVars, browserVars, vars,
        Row!stored, Row!settingHistory, Row!settingVars,
        Setting!stored, Setting!settingHistory, Setting!settingVars

\* The two instances of UserSetting say the same.
LEMMA SameState ==
    /\ Setting!TypeOK <=> Row!TypeOK
    /\ Setting!Contents = Row!Contents
    /\ Setting!RevokedStaysRevoked <=> Row!RevokedStaysRevoked
    /\ Setting!NothingLost <=> Row!NothingLost
<1> USE DEF Setting!Contents, Row!Contents
<1>1. Setting!TypeOK <=> Row!TypeOK
  BY DEF Setting!TypeOK, Row!TypeOK, Setting!AtMostOne, Row!AtMostOne, Setting!Steps, Row!Steps,
         Setting!Accesses, Row!Accesses, Setting!Ops, Row!Ops
<1>2. Setting!NothingLost <=> Row!NothingLost
  BY DEF Setting!NothingLost, Row!NothingLost
<1>3. Setting!RevokedStaysRevoked <=> Row!RevokedStaysRevoked
  BY DEF Setting!RevokedStaysRevoked, Row!RevokedStaysRevoked
<1>4. QED
  BY <1>1, <1>2, <1>3

LEMMA SameStart ==
    \A p, op, t : Setting!Start(p, op, t) <=> Row!Start(p, op, t)
BY DEF Setting!Start, Row!Start, Setting!Busy, Row!Busy, Setting!Conflict, Row!Conflict

LEMMA SameAccess ==
    \A p : Setting!AccessNext(p) <=> Row!AccessNext(p)
<1> SUFFICES ASSUME NEW p PROVE Setting!AccessNext(p) <=> Row!AccessNext(p)
  OBVIOUS
<1>1. Setting!Handed(p) = Row!Handed(p) /\ Setting!Contents = Row!Contents
  BY DEF Setting!Handed, Row!Handed, Setting!Contents, Row!Contents
<1>2. Setting!Marshalled(p) = Row!Marshalled(p)
  <2>1. \A S : Setting!Cardinality(S) = Row!Cardinality(S)
    BY Zenon DEF Setting!Cardinality, Row!Cardinality
  <2>2. \A op, t, list : Setting!Updated(op, t, list) = Row!Updated(op, t, list)
    BY DEF Setting!Updated, Row!Updated
  <2>3. \A S : Setting!SpareSlot(S) <=> Row!SpareSlot(S)
    BY <2>1 DEF Setting!SpareSlot, Row!SpareSlot
  <2>4. QED
    BY <2>2, <2>3 DEF Setting!Marshalled, Row!Marshalled
<1>3. \A list : Setting!Applied(p, list) <=> Row!Applied(p, list)
  BY DEF Setting!Applied, Row!Applied, Setting!Updated, Row!Updated
<1>4. QED
  BY <1>1, <1>2, <1>3
     DEF Setting!AccessNext, Row!AccessNext, Setting!Lookup, Row!Lookup, Setting!List, Row!List,
         Setting!Fill, Row!Fill, Setting!Write, Row!Write, Setting!Store, Row!Store,
         Setting!DbError, Row!DbError, Setting!DbAnswerLost, Row!DbAnswerLost

\* The types of what the handlers and the browsers hold.  A handler that goes
\* on to rotate a token has taken one from the cookie.
TypesOfSessions ==
    /\ hstate \in [Requests -> HandlerStates]
    /\ browser \in [Requests -> Browsers]
    /\ sent \in [Requests -> Tokens \cup {NoCookie}]
    /\ cookie \in [Browsers -> Tokens \cup {NoCookie}]
    /\ rotated \subseteq Tokens
    /\ excused \subseteq Browsers
    /\ \A p \in Requests :
           hstate[p] \in {"authenticate", "add", "remove", "signOut"} => sent[p] \in Tokens

LEMMA SessionTypesInvariant == Spec => []TypesOfSessions
<1> USE DEF TypesOfSessions, HandlerStates, Tokens
<1>1. Init => TypesOfSessions
  BY SessionAssumption DEF Init
<1>2. TypesOfSessions /\ [Next]_vars => TypesOfSessions'
  <2> SUFFICES ASSUME TypesOfSessions, [Next]_vars PROVE TypesOfSessions'
    OBVIOUS
  <2>1. CASE UNCHANGED vars
    BY <2>1
  <2>2. CASE Evict \/ Crash
    BY <2>2 DEF Evict, Crash
  <2>3. ASSUME NEW p \in Requests, RequestNext(p) PROVE TypesOfSessions'
    <3>1. ASSUME NEW b \in Browsers, SignIn(p, b) \/ Refresh(p, b) \/ SignOut(p, b)
          PROVE  TypesOfSessions'
      BY <3>1 DEF SignIn, Refresh, SignOut, Send
    <3>2. CASE Authenticated(p) \/ Refused(p) \/ NotAdded(p) \/ Added(p) \/ StoreStep(p)
      BY <3>2 DEF Authenticated, Refused, NotAdded, Added, StoreStep
    <3>3. CASE SignInAnswer(p) \/ SignInUnstored(p) \/ RefreshAnswer(p) \/ SignOutAnswer(p)
      <4>1. /\ hstate' \in [Requests -> HandlerStates]
            /\ UNCHANGED <<browser, sent>>
            /\ \A q \in Requests : hstate'[q] \in {hstate[q], "done"}
        BY <3>3 DEF SignInAnswer, SignInUnstored, RefreshAnswer, SignOutAnswer, Answer
      <4>2. /\ cookie' \in [Browsers -> Tokens \cup {NoCookie}]
            /\ excused' \subseteq Browsers
        BY <3>3 DEF SignInAnswer, SignInUnstored, RefreshAnswer, SignOutAnswer, Answer
      <4>3. rotated' \subseteq Tokens
        BY <3>3 DEF SignInAnswer, SignInUnstored, RefreshAnswer, SignOutAnswer
      <4>4. QED
        BY <4>1, <4>2, <4>3
    <3>4. QED
      BY <2>3, <3>1, <3>2, <3>3 DEF RequestNext
  <2>4. QED
    BY <2>1, <2>2, <2>3 DEF Next
<1>3. QED
  BY <1>1, <1>2, PTL DEF Spec

\* The handlers use the row in no other way than UserSetting describes.
LEMMA ImplementsRow == Spec => Row!Spec
<1>1. Init => Row!Init
  BY DEF Init, Setting!Init, Row!Init
<1>2. TypesOfSessions /\ [Next]_vars => [Row!Next]_Row!settingVars
  <2> SUFFICES ASSUME TypesOfSessions, [Next]_vars PROVE [Row!Next]_Row!settingVars
    OBVIOUS
  <2>1. CASE UNCHANGED vars
    BY <2>1
  <2>2. CASE Evict \/ Crash
    BY <2>2 DEF Evict, Crash, Setting!Evict, Row!Evict, Setting!Crash, Row!Crash, Row!Next
  <2>3. ASSUME NEW p \in Requests, RequestNext(p)
        PROVE  [Row!Next]_Row!settingVars
    <3>1. CASE \/ Authenticated(p) \/ Added(p)
               \/ \E b \in Browsers : SignIn(p, b) \/ Refresh(p, b) \/ SignOut(p, b)
      <4>1. p \in Tokens /\ {"add", "remove", "read"} \subseteq Row!Ops
        BY DEF Tokens, Row!Ops
      <4>2. /\ \A b \in Browsers : cookie[b] # NoCookie => cookie[b] \in Tokens
            /\ hstate[p] = "add" => sent[p] \in Tokens
        BY DEF TypesOfSessions
      <4>3. \E op \in Row!Ops, t \in Tokens : Row!Start(p, op, t)
        BY <3>1, <4>1, <4>2, SameStart DEF Authenticated, Added, SignIn, Refresh, SignOut
      <4>4. QED
        BY <4>3 DEF Row!Next
    <3>2. CASE \/ SignInAnswer(p) \/ SignInUnstored(p) \/ Refused(p) \/ NotAdded(p)
               \/ RefreshAnswer(p) \/ SignOutAnswer(p)
      BY <3>2 DEF SignInAnswer, SignInUnstored, Refused, NotAdded, RefreshAnswer, SignOutAnswer
    <3>3. CASE StoreStep(p)
      BY <3>3, SameAccess DEF StoreStep, Row!Next
    <3>4. QED
      BY <2>3, <3>1, <3>2, <3>3 DEF RequestNext
  <2>4. QED
    BY <2>1, <2>2, <2>3 DEF Next
<1>3. QED
  BY <1>1, <1>2, SessionTypesInvariant, PTL DEF Spec, Row!Spec

\* What UserSetting_proofs shows of the row, here: its types, ...
LEMMA RowTypes == Spec => []Setting!TypeOK
<1>1. Row!SettingAssumption
  BY SessionAssumption DEF Row!SettingAssumption, Tokens
<1>2. QED
  BY <1>1, ImplementsRow, SameState, Row!RowTypeCorrect, PTL

\* ... that without overlap it is what the accesses amount to, ...
LEMMA RowLosesNothing == Spec => []Setting!NothingLost
<1>1. Row!SettingAssumption
  BY SessionAssumption DEF Row!SettingAssumption, Tokens
<1>2. QED
  BY <1>1, ImplementsRow, SameState, Row!UndisturbedLosesNothing, PTL

\* ... and that what was removed stays out of it.
LEMMA RowKeepsRevoked == Spec => []Setting!RevokedStaysRevoked
<1>1. Row!SettingAssumption
  BY SessionAssumption DEF Row!SettingAssumption, Tokens
<1>2. QED
  BY <1>1, ImplementsRow, SameState, Row!UndisturbedRevocation, PTL

-----------------------------------------------------------------------------
(***************************************************************************)
(* The inductive invariant, about the list that the accesses amount to     *)
(* (live), with any overlap and any faults.                                *)
(***************************************************************************)

\* The browser that a token was issued to
Owner(t) == IF t \in Browsers THEN t ELSE browser[t]

\* Each state of a handler goes with one access.  The token of a request is in
\* the list from its addition to its answer, and the one it replaces is revoked.
HandlerInv(p) ==
    /\ hstate[p] \in {"new", "done"} => ~Setting!Busy(p)
    /\ hstate[p] \in {"signIn", "add"} =>
          /\ access[p].op = "add" /\ access[p].token = p
          /\ step[p] \in {"store", "ok"} => p \in live
    /\ hstate[p] = "authenticate" => access[p].op = "read"
    /\ hstate[p] = "remove" => p \in live
    /\ hstate[p] \in {"remove", "signOut"} =>
          /\ access[p].op = "remove" /\ access[p].token = sent[p]
          /\ step[p] = "ok" => sent[p] \in revoked
    /\ hstate[p] = "signOut" => browser[p] \in excused

\* A token reaches a cookie with the answer of its request, and only that of
\* its own browser, which is where other requests have it from.
CookieInv ==
    /\ \A b \in Browsers : cookie[b] \in Tokens =>
          Owner(cookie[b]) = b /\ (cookie[b] \in Requests => hstate[cookie[b]] = "done")
    /\ \A p \in Requests : sent[p] \in Tokens =>
          Owner(sent[p]) = browser[p] /\ (sent[p] \in Requests => hstate[sent[p]] = "done")

\* A browser's token is in the list, or a rotation of it is about to answer.
Kept(b) ==
    \/ b \in excused
    \/ cookie[b] = NoCookie
    \/ cookie[b] \in live
    \/ \E p \in Requests : browser[p] = b /\ hstate[p] = "remove"

SessionInv ==
    /\ TypesOfSessions
    /\ \A p \in Requests : HandlerInv(p)
    /\ CookieInv
    /\ \A b \in Browsers : Kept(b)
    /\ rotated \subseteq revoked

\* A request arrives.
LEMMA ArriveStep ==
  ASSUME Setting!TypeOK, SessionInv, NEW p \in Requests, NEW b \in Browsers,
         SignIn(p, b) \/ Refresh(p, b) \/ SignOut(p, b)
  PROVE  SessionInv'
<1> USE DEF SessionInv, TypesOfSessions, HandlerStates
<1>1. PICK op \in {"add", "read", "remove"}, t \in Tokens :
          /\ Setting!Start(p, op, t)
          /\ op = "add" => hstate'[p] = "signIn" /\ t = p /\ sent'[p] = NoCookie
          /\ op = "read" => hstate'[p] = "authenticate" /\ sent'[p] = cookie[b]
          /\ op = "remove" => hstate'[p] = "signOut" /\ t = cookie[b] /\ sent'[p] = t /\ b \in excused'
  BY DEF SignIn, Refresh, SignOut, Send, Tokens
<1>2. /\ hstate[p] = "new" /\ hstate'[p] \in HandlerStates \ {"new", "done", "remove", "add"}
      /\ browser'[p] = b
      /\ sent'[p] \in {NoCookie, cookie[b]}
      /\ \A q \in Requests \ {p} :
            hstate'[q] = hstate[q] /\ browser'[q] = browser[q] /\ sent'[q] = sent[q]
      /\ UNCHANGED <<cookie, rotated>> /\ excused \subseteq excused'
      /\ TypesOfSessions'
  BY DEF SignIn, Refresh, SignOut, Send, Tokens
<1>3. /\ step'[p] = "lookup" /\ access'[p].op = op /\ access'[p].token = t
      /\ \A q \in Requests \ {p} : step'[q] = step[q] /\ access'[q] = access[q]
      /\ UNCHANGED <<live, revoked>>
  BY <1>1 DEF Setting!Start, Setting!TypeOK
<1>4. \A q \in Requests : HandlerInv(q)'
  BY <1>1, <1>2, <1>3 DEF HandlerInv, Setting!Busy
<1>5. \A t2 \in Tokens : t2 # p => Owner(t2)' = Owner(t2)
  BY <1>2 DEF Owner, Tokens
<1>6. CookieInv'
  <2>1. \A c \in Browsers : cookie[c] # p
    BY <1>2 DEF CookieInv, Tokens
  <2>2. \A q \in Requests : sent[q] # p
    BY <1>2 DEF CookieInv, Tokens
  <2>3. NoCookie \notin Tokens
    BY SessionAssumption DEF Tokens
  <2>4. QED
    BY <1>2, <1>5, <2>1, <2>2, <2>3 DEF CookieInv
<1>7. \A c \in Browsers : Kept(c)'
  BY <1>2, <1>3 DEF Kept
<1>8. QED
  BY <1>2, <1>3, <1>4, <1>6, <1>7

\* A refresh goes on: the token was found, or the new one was added.
LEMMA RotateStep ==
  ASSUME Setting!TypeOK, SessionInv, NEW p \in Requests, Authenticated(p) \/ Added(p)
  PROVE  SessionInv'
<1> USE DEF SessionInv, TypesOfSessions, HandlerStates
<1>1. \/ /\ hstate[p] = "authenticate" /\ hstate'[p] = "add" /\ Setting!Start(p, "add", p)
      \/ /\ hstate[p] = "add" /\ step[p] = "ok" /\ hstate'[p] = "remove"
         /\ Setting!Start(p, "remove", sent[p])
  BY DEF Authenticated, Added
<1>2. /\ \A q \in Requests \ {p} : hstate'[q] = hstate[q]
      /\ UNCHANGED <<browser, sent, cookie, rotated, excused>>
      /\ TypesOfSessions'
  BY DEF Authenticated, Added
<1>3. /\ step'[p] = "lookup"
      /\ \A q \in Requests \ {p} : step'[q] = step[q] /\ access'[q] = access[q]
      /\ UNCHANGED <<live, revoked>>
      /\ hstate[p] = "authenticate" => access'[p].op = "add" /\ access'[p].token = p
      /\ hstate[p] = "add" => access'[p].op = "remove" /\ access'[p].token = sent[p]
  BY <1>1 DEF Setting!Start, Setting!TypeOK
<1>4. \A q \in Requests : HandlerInv(q)'
  BY <1>1, <1>2, <1>3 DEF HandlerInv, Setting!Busy
<1>5. CookieInv'
  BY <1>1, <1>2 DEF CookieInv, Owner
<1>6. \A c \in Browsers : Kept(c)'
  BY <1>1, <1>2, <1>3 DEF Kept
<1>7. QED
  BY <1>2, <1>3, <1>4, <1>5, <1>6

\* A request is answered, or refused.
LEMMA AnswerStep ==
  ASSUME Setting!TypeOK, SessionInv, NEW p \in Requests,
         \/ SignInAnswer(p) \/ SignInUnstored(p) \/ Refused(p) \/ NotAdded(p)
         \/ RefreshAnswer(p) \/ SignOutAnswer(p)
  PROVE  SessionInv'
<1> USE DEF SessionInv, TypesOfSessions, HandlerStates
<1> PICK b \in Browsers : b = browser[p]
  OBVIOUS
<1>1. /\ hstate[p] \notin {"new", "done"} /\ hstate'[p] = "done"
      /\ \A q \in Requests \ {p} : hstate'[q] = hstate[q]
      /\ UNCHANGED <<browser, sent, step, access, live, revoked>> /\ excused \subseteq excused'
      /\ excused' \subseteq Browsers /\ hstate' \in [Requests -> HandlerStates]
      /\ ~Setting!Busy(p)
  BY DEF SignInAnswer, SignInUnstored, Refused, NotAdded, RefreshAnswer, SignOutAnswer, Answer, Setting!Busy
<1>2. /\ b \in Browsers
      /\ cookie' \in {cookie, [cookie EXCEPT ![b] = p], [cookie EXCEPT ![b] = NoCookie]}
  BY DEF SignInAnswer, SignInUnstored, Refused, NotAdded, RefreshAnswer, SignOutAnswer, Answer
<1>3. rotated' \subseteq revoked /\ rotated' \subseteq Tokens
  BY DEF SignInAnswer, SignInUnstored, Refused, NotAdded, RefreshAnswer, SignOutAnswer, HandlerInv
<1>4. TypesOfSessions'
  BY <1>1, <1>2, <1>3 DEF Tokens
<1>5. \A q \in Requests : HandlerInv(q)'
  BY <1>1 DEF HandlerInv, Setting!Busy
<1>6. CookieInv'
  <2>1. NoCookie \notin Tokens /\ p \in Tokens /\ p \notin Browsers
    BY SessionAssumption DEF Tokens
  <2>2. \A t \in Tokens : Owner(t)' = Owner(t)
    BY <1>1 DEF Owner
  <2>3. Owner(p) = b
    BY <2>1 DEF Owner
  <2>4. QED
    BY <1>1, <1>2, <1>4, <2>1, <2>2, <2>3 DEF CookieInv
<1>7. \A c \in Browsers : Kept(c)'
  <2>1. ASSUME NEW c \in Browsers, c # b PROVE Kept(c)'
    BY <1>1, <1>2, <2>1 DEF Kept
  <2>2. b \in excused' \/ cookie'[b] \in {NoCookie, p} \/ (cookie' = cookie /\ hstate[p] # "remove")
    BY <1>2 DEF SignInAnswer, SignInUnstored, Refused, NotAdded, RefreshAnswer, SignOutAnswer, Answer
  <2>3. cookie'[b] = p /\ cookie' # cookie => b \in excused' \/ p \in live
    BY <1>2 DEF SignInAnswer, SignInUnstored, Refused, NotAdded, RefreshAnswer, SignOutAnswer, Answer, HandlerInv
  <2>4. cookie[b] # p
    BY <1>1 DEF CookieInv, Tokens
  <2>5. Kept(b)'
    BY <1>1, <1>2, <2>2, <2>3, <2>4 DEF Kept
  <2>6. QED
    BY <2>1, <2>5
<1>8. QED
  BY <1>1, <1>3, <1>4, <1>5, <1>6, <1>7

\* The store serves a call.  What it takes out of the list is the token of a
\* browser that signs out, or of one whose next token is in the list.
LEMMA ServeStep ==
  ASSUME Setting!TypeOK, SessionInv, NEW p \in Requests, StoreStep(p)
  PROVE  SessionInv'
<1> USE DEF SessionInv, TypesOfSessions, HandlerStates
<1>1. /\ UNCHANGED <<hstate, browser, sent, cookie, rotated, excused, access>>
      /\ Setting!Busy(p)
      /\ \A q \in Requests \ {p} : step'[q] = step[q]
      /\ Setting!AccessNext(p)
  BY DEF StoreStep, Setting!AccessNext, Setting!Lookup, Setting!List, Setting!Fill, Setting!Write,
         Setting!Store, Setting!DbError, Setting!DbAnswerLost, Setting!Busy, Setting!TypeOK
<1>2. /\ revoked \subseteq revoked'
      /\ access[p].op = "remove" /\ step'[p] = "ok" => access[p].token \in revoked'
  BY <1>1 DEF Setting!AccessNext, Setting!Lookup, Setting!List, Setting!Fill, Setting!Write,
         Setting!Store, Setting!DbError, Setting!DbAnswerLost, Setting!TypeOK, Setting!Handed
<1>3. access[p].op = "add" /\ step'[p] \in {"store", "ok"} =>
         \/ step[p] = "store" /\ live' = live
         \/ access[p].token \in live'
  <2>1. CASE Setting!Write(p) \/ Setting!DbAnswerLost(p)
    <3>1. live' = Setting!Updated(access[p].op, access[p].token, live)
      BY <2>1 DEF Setting!Write, Setting!DbAnswerLost, Setting!Applied
    <3>2. QED
      BY <3>1 DEF Setting!Updated
  <2>2. QED
    BY <1>1, <2>1 DEF Setting!AccessNext, Setting!Lookup, Setting!List, Setting!Fill,
         Setting!Store, Setting!DbError, Setting!TypeOK, Setting!Handed
<1>4. \A t \in live \ live' : hstate[p] \in {"remove", "signOut"} /\ t = sent[p]
  <2>1. CASE Setting!Write(p) \/ Setting!DbAnswerLost(p)
    <3>1. live' = Setting!Updated(access[p].op, access[p].token, live)
      BY <2>1 DEF Setting!Write, Setting!DbAnswerLost, Setting!Applied
    <3>2. \A t \in live \ live' : access[p].op = "remove" /\ t = access[p].token
      BY <3>1 DEF Setting!Updated
    <3>3. QED
      BY <1>1, <3>2 DEF HandlerInv
  <2>2. QED
    BY <1>1, <2>1 DEF Setting!AccessNext, Setting!Lookup, Setting!List, Setting!Fill,
         Setting!Store, Setting!DbError
<1>5. \A q \in Requests : hstate[q] \in {"signIn", "add", "remove"} /\ q \in live => q \in live'
  BY <1>4 DEF CookieInv, Tokens
<1>6. \A q \in Requests : HandlerInv(q)'
  BY <1>1, <1>2, <1>3, <1>5 DEF HandlerInv, Setting!Busy
<1>7. CookieInv'
  BY <1>1 DEF CookieInv, Owner
<1>8. ASSUME NEW b \in Browsers PROVE Kept(b)'
  <2>1. CASE cookie[b] \in live \ live'
    <3>1. cookie[b] = sent[p] /\ sent[p] \in Tokens
      BY <1>4, <2>1
    <3>2. browser[p] = b
      BY <3>1 DEF CookieInv
    <3>3. QED
      BY <1>1, <1>4, <2>1, <3>2 DEF Kept, HandlerInv
  <2>2. QED
    BY <1>1, <2>1 DEF Kept
<1>9. QED
  BY <1>1, <1>2, <1>6, <1>7, <1>8

\* The strengthening is invariant.
LEMMA SessionInvariant == Spec => []SessionInv
<1>1. Init => SessionInv
  <2> SUFFICES ASSUME Init PROVE SessionInv
    OBVIOUS
  <2>1. TypesOfSessions
    BY SessionAssumption DEF Init, TypesOfSessions, HandlerStates, Tokens
  <2>2. \A p \in Requests : HandlerInv(p)
    BY DEF Init, Setting!Init, HandlerInv, Setting!Busy
  <2>3. CookieInv /\ \A b \in Browsers : Kept(b)
    BY SessionAssumption DEF Init, Setting!Init, CookieInv, Owner, Kept, Tokens
  <2>4. QED
    BY <2>1, <2>2, <2>3 DEF Init, SessionInv
<1>2. Setting!TypeOK /\ SessionInv /\ [Next]_vars => SessionInv'
  <2> SUFFICES ASSUME Setting!TypeOK, SessionInv, [Next]_vars PROVE SessionInv'
    OBVIOUS
  <2> USE DEF SessionInv, TypesOfSessions
  <2>1. CASE UNCHANGED vars
    BY <2>1 DEF HandlerInv, CookieInv, Owner, Kept, Setting!Busy
  <2>2. CASE Evict
    BY <2>2 DEF Evict, Setting!Evict, HandlerInv, CookieInv, Owner, Kept, Setting!Busy
  <2>3. CASE Crash
    <3>1. /\ \A q \in Requests : ~Setting!Busy(q)' /\ hstate'[q] \in {"new", "done"}
          /\ \A q \in Requests : hstate[q] = "done" => hstate'[q] = "done"
          /\ UNCHANGED <<browser, sent, cookie, rotated, live, revoked>>
          /\ excused \subseteq excused'
      BY <2>3 DEF Crash, Setting!Crash, Setting!Busy
    <3>2. \A q \in Requests : HandlerInv(q)'
      BY <3>1 DEF HandlerInv
    <3>3. CookieInv'
      BY <3>1 DEF CookieInv, Owner, Tokens
    <3>4. \A b \in Browsers : Kept(b)'
      BY <2>3, <3>1 DEF Crash, Kept
    <3>5. TypesOfSessions'
      BY <2>3 DEF Crash, HandlerStates
    <3>6. QED
      BY <3>1, <3>2, <3>3, <3>4, <3>5
  <2>4. ASSUME NEW p \in Requests, RequestNext(p) PROVE SessionInv'
    BY <2>4, ArriveStep, RotateStep, AnswerStep, ServeStep DEF RequestNext
  <2>5. QED
    BY <2>1, <2>2, <2>3, <2>4 DEF Next
<1>3. QED
  BY <1>1, <1>2, RowTypes, PTL DEF Spec

\* The types; and no call of the store is under way but for a request that is.
THEOREM SessionTypesCorrect == Spec => []TypeOK
<1>1. Setting!TypeOK /\ SessionInv => TypeOK
  BY DEF SessionInv, TypesOfSessions, HandlerInv, TypeOK
<1>2. QED
  BY <1>1, RowTypes, SessionInvariant, PTL

\* A browser that was signed in, has not signed out and has lost no answer can
\* still refresh its session in every state of every rotation, also of several
\* at once with the same cookie, as long as the accesses to the row do not overlap.
THEOREM SessionsAreKept == Spec => []SessionKept
<1>1. SessionInv /\ Setting!NothingLost => SessionKept
  BY DEF SessionInv, HandlerInv, Kept, SessionKept, HoldsSession, Setting!NothingLost
<1>2. QED
  BY <1>1, SessionInvariant, RowLosesNothing, PTL

\* A token that a refresh has replaced is never accepted again.
THEOREM RotatedTokensStayDead == Spec => []RotatedStaysDead
<1>1. SessionInv /\ Setting!RevokedStaysRevoked => RotatedStaysDead
  BY DEF SessionInv, Setting!RevokedStaysRevoked, RotatedStaysDead
<1>2. QED
  BY <1>1, SessionInvariant, RowKeepsRevoked, PTL
=============================================================================
