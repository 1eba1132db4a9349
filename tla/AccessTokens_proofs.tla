------------------------ MODULE AccessTokens_proofs ------------------------
(***************************************************************************)
(* What AccessTokens promises for any number of requests and tokens.  The  *)
(* handlers use the row only as UserSetting allows, so that what is proved *)
(* of the row holds here; what was shown to a user and not deleted is then *)
(* followed from the handler that created it into the row.                 *)
(***************************************************************************)
EXTENDS AccessTokens, TLAPS

Row == INSTANCE UserSetting_proofs
         WITH Procs <- Requests, InitialTokens <- Existing

USE DEF Goto, rowVars, vars, Row!stored, Row!settingHistory, Row!settingVars,
        Setting!stored, Setting!settingHistory, Setting!settingVars

\* The two instances of UserSetting say the same.
LEMMA SameState ==
    /\ Setting!TypeOK <=> Row!TypeOK
    /\ Setting!Contents = Row!Contents
    /\ Setting!RevokedStaysRevoked <=> Row!RevokedStaysRevoked
    /\ Setting!NothingLost <=> Row!NothingLost
<1> USE DEF Setting!Contents, Row!Contents
<1>1. Setting!TypeOK <=> Row!TypeOK
  BY DEF Setting!TypeOK, Row!TypeOK, Setting!AtMostOne, Row!AtMostOne, Setting!Steps, Row!Steps,
         Setting!Accesses, Row!Accesses, Setting!Ops, Row!Ops
<1>2. Setting!NothingLost <=> Row!NothingLost
  BY DEF Setting!NothingLost, Row!NothingLost
<1>3. Setting!RevokedStaysRevoked <=> Row!RevokedStaysRevoked
  BY DEF Setting!RevokedStaysRevoked, Row!RevokedStaysRevoked
<1>4. QED
  BY <1>1, <1>2, <1>3

LEMMA SameStart ==
    \A p, op, t : Setting!Start(p, op, t) <=> Row!Start(p, op, t)
BY DEF Setting!Start, Row!Start, Setting!Busy, Row!Busy, Setting!Conflict, Row!Conflict

LEMMA SameAccess ==
    \A p : Setting!AccessNext(p) <=> Row!AccessNext(p)
<1> SUFFICES ASSUME NEW p PROVE Setting!AccessNext(p) <=> Row!AccessNext(p)
  OBVIOUS
<1>1. Setting!Handed(p) = Row!Handed(p) /\ Setting!Contents = Row!Contents
  BY DEF Setting!Handed, Row!Handed, Setting!Contents, Row!Contents
<1>2. Setting!Marshalled(p) = Row!Marshalled(p)
  <2>1. \A S : Setting!Cardinality(S) = Row!Cardinality(S)
    BY Zenon DEF Setting!Cardinality, Row!Cardinality
  <2>2. \A op, t, list : Setting!Updated(op, t, list) = Row!Updated(op, t, list)
    BY DEF Setting!Updated, Row!Updated
  <2>3. \A S : Setting!SpareSlot(S) <=> Row!SpareSlot(S)
    BY <2>1 DEF Setting!SpareSlot, Row!SpareSlot
  <2>4. QED
    BY <2>2, <2>3 DEF Setting!Marshalled, Row!Marshalled
<1>3. \A list : Setting!Applied(p, list) <=> Row!Applied(p, list)
  BY DEF Setting!Applied, Row!Applied, Setting!Updated, Row!Updated
<1>4. QED
  BY <1>1, <1>2, <1>3
     DEF Setting!AccessNext, Row!AccessNext, Setting!Lookup, Row!Lookup, Setting!List, Row!List,
         Setting!Fill, Row!Fill, Setting!Write, Row!Write, Setting!Store, Row!Store,
         Setting!DbError, Row!DbError, Setting!DbAnswerLost, Row!DbAnswerLost

\* The handlers use the row in no other way than UserSetting describes.
LEMMA ImplementsRow == Spec => Row!Spec
<1>1. Init => Row!Init
  BY DEF Init, Setting!Init, Row!Init
<1>2. [Next]_vars => [Row!Next]_Row!settingVars
  <2> SUFFICES ASSUME [Next]_vars PROVE [Row!Next]_Row!settingVars
    OBVIOUS
  <2>1. CASE UNCHANGED vars
    BY <2>1
  <2>2. CASE Evict \/ Crash
    BY <2>2 DEF Evict, Crash, Setting!Evict, Row!Evict, Setting!Crash, Row!Crash, Row!Next
  <2>3. ASSUME NEW p \in Requests, RequestNext(p)
        PROVE  [Row!Next]_Row!settingVars
    <3>1. CASE Create(p) \/ \E t \in Tokens : Delete(p, t) \/ RecordUse(p, t)
      <4>1. p \in Tokens /\ {"add", "remove", "touch"} \subseteq Row!Ops
        BY DEF Tokens, Row!Ops
      <4>2. \E op \in Row!Ops, t \in Tokens : Row!Start(p, op, t)
        BY <3>1, <4>1, SameStart DEF Create, Delete, RecordUse
      <4>3. QED
        BY <4>2 DEF Row!Next
    <3>2. CASE CreateAnswer(p) \/ DeleteAnswer(p) \/ Accept(p) \/ UseRecorded(p)
      BY <3>2 DEF CreateAnswer, DeleteAnswer, Accept, UseRecorded
    <3>3. CASE StoreStep(p)
      BY <3>3, SameAccess DEF StoreStep, Row!Next
    <3>4. QED
      BY <2>3, <3>1, <3>2, <3>3 DEF RequestNext
  <2>4. QED
    BY <2>1, <2>2, <2>3 DEF Next
<1>3. QED
  BY <1>1, <1>2, PTL DEF Spec, Row!Spec

\* What UserSetting_proofs shows of the row, here: its types, ...
LEMMA RowTypes == Spec => []Setting!TypeOK
<1>1. Row!SettingAssumption
  BY TokenAssumption DEF Row!SettingAssumption, Tokens
<1>2. QED
  BY <1>1, ImplementsRow, SameState, Row!RowTypeCorrect, PTL

\* ... that without overlap it is what the accesses amount to, ...
LEMMA RowLosesNothing == Spec => []Setting!NothingLost
<1>1. Row!SettingAssumption
  BY TokenAssumption DEF Row!SettingAssumption, Tokens
<1>2. QED
  BY <1>1, ImplementsRow, SameState, Row!UndisturbedLosesNothing, PTL

\* ... and that what was removed stays out of it: a deleted token is refused
\* ever after, also when a use of it, or of another, is recorded later.
THEOREM DeletedStaysRefused == Spec => []DeletedIsRefused
<1>1. Row!SettingAssumption
  BY TokenAssumption DEF Row!SettingAssumption, Tokens
<1>2. Setting!RevokedStaysRevoked <=> DeletedIsRefused
  BY DEF Setting!RevokedStaysRevoked, DeletedIsRefused
<1>3. QED
  BY <1>1, <1>2, ImplementsRow, SameState, Row!UndisturbedRevocation, PTL

-----------------------------------------------------------------------------
\* A request that creates a token adds that one; once it has, the token is in
\* the list that the accesses amount to, and nobody can name it before the
\* answer.  Only tokens whose deletion was asked for are ever removed.
CreatesItsOwn(p) ==
    hstate[p] = "create" =>
        /\ access[p].op = "add" /\ access[p].token = p
        /\ step[p] \in {"store", "ok"} => p \in live

TokenInv ==
    /\ hstate \in [Requests -> HandlerStates]
    /\ issued \subseteq Tokens /\ deleted \subseteq issued
    /\ issued \ deleted \subseteq live
    /\ \A p \in Requests :
          /\ CreatesItsOwn(p)
          /\ p \in issued => hstate[p] = "done"
          /\ Setting!Busy(p) /\ access[p].op = "remove" => access[p].token \in deleted

\* A call of the store begins.
LEMMA CallStep ==
  ASSUME Setting!TypeOK, TokenInv, NEW p \in Requests,
         Create(p) \/ \E t \in Tokens : Delete(p, t) \/ RecordUse(p, t)
  PROVE  TokenInv'
<1>1. PICK op \in {"add", "remove", "touch"}, t \in Tokens :
          /\ Setting!Start(p, op, t)
          /\ op = "add" => hstate'[p] = "create" /\ t = p
          /\ op # "add" => hstate'[p] # "create"
          /\ op = "remove" => t \in deleted'
  BY DEF Create, Delete, RecordUse, TokenInv, Tokens
<1>2. /\ \A q \in Requests \ {p} : hstate'[q] = hstate[q] /\ step'[q] = step[q] /\ access'[q] = access[q]
      /\ step'[p] = "lookup" /\ access'[p].op = op /\ access'[p].token = t
      /\ live' = live
  BY <1>1 DEF Setting!Start, Create, Delete, RecordUse, Setting!TypeOK, TokenInv
<1>3. /\ hstate' \in [Requests -> HandlerStates] /\ hstate[p] \in {"new", "accepted"}
      /\ issued' = issued /\ deleted \subseteq deleted' /\ deleted' \subseteq issued
  BY DEF Create, Delete, RecordUse, TokenInv, HandlerStates
<1>4. QED
  BY <1>1, <1>2, <1>3 DEF TokenInv, CreatesItsOwn, Setting!Busy

\* The handler goes on after the call, or without one.
LEMMA AnswerStep ==
  ASSUME Setting!TypeOK, TokenInv, NEW p \in Requests,
         CreateAnswer(p) \/ DeleteAnswer(p) \/ Accept(p) \/ UseRecorded(p)
  PROVE  TokenInv'
<1>1. UNCHANGED <<step, access, live, deleted>>
  BY DEF CreateAnswer, DeleteAnswer, Accept, UseRecorded
<1>2. /\ hstate' \in [Requests -> HandlerStates] /\ hstate'[p] \in {"accepted", "done"}
      /\ \A q \in Requests \ {p} : hstate'[q] = hstate[q]
      /\ hstate[p] # "done"
  BY DEF CreateAnswer, DeleteAnswer, Accept, UseRecorded, TokenInv, HandlerStates
<1>3. issued' = issued \/ (issued' = issued \cup {p} /\ hstate'[p] = "done" /\ p \in live)
  BY DEF CreateAnswer, DeleteAnswer, Accept, UseRecorded, TokenInv, CreatesItsOwn
<1>4. p \in Tokens
  BY DEF Tokens
<1>5. QED
  BY <1>1, <1>2, <1>3, <1>4 DEF TokenInv, CreatesItsOwn, Setting!Busy

\* The store serves a call.  What it takes out of the list was to be deleted,
\* and so is no token of a request that is still at work.
LEMMA ServeStep ==
  ASSUME Setting!TypeOK, TokenInv, NEW p \in Requests, StoreStep(p)
  PROVE  TokenInv'
<1>1. /\ UNCHANGED <<hstate, issued, deleted, access>> /\ Setting!Busy(p)
      /\ \A q \in Requests \ {p} : step'[q] = step[q]
      /\ Setting!AccessNext(p)
  BY DEF StoreStep, Setting!AccessNext, Setting!Lookup, Setting!List, Setting!Fill, Setting!Write,
         Setting!Store, Setting!DbError, Setting!DbAnswerLost, Setting!Busy, Setting!TypeOK
<1>2. CASE ~(Setting!Write(p) \/ Setting!DbAnswerLost(p))
  <2>1. live' = live /\ (access[p].op = "add" /\ step'[p] \in {"store", "ok"} => step[p] = "store")
    BY <1>1, <1>2 DEF Setting!AccessNext, Setting!Lookup, Setting!List, Setting!Fill,
           Setting!Store, Setting!DbError, Setting!TypeOK, Setting!Handed
  <2>2. QED
    BY <1>1, <2>1 DEF TokenInv, CreatesItsOwn, Setting!Busy
<1>3. CASE Setting!Write(p) \/ Setting!DbAnswerLost(p)
  <2>1. live' = Setting!Updated(access[p].op, access[p].token, live)
    BY <1>3 DEF Setting!Write, Setting!DbAnswerLost, Setting!Applied
  <2>2. \A t \in live \ live' : t \in deleted
    BY <1>1, <2>1 DEF Setting!Updated, TokenInv
  <2>3. access[p].op = "add" => access[p].token \in live'
    BY <2>1 DEF Setting!Updated
  <2>4. \A q \in Requests : hstate[q] = "create" => q \notin deleted
    BY DEF TokenInv
  <2>5. QED
    BY <1>1, <2>2, <2>3, <2>4 DEF TokenInv, CreatesItsOwn, Setting!Busy
<1>4. QED
  BY <1>2, <1>3

\* The strengthening is invariant.
LEMMA TokenInvariant == Spec => []TokenInv
<1>1. Init => TokenInv
  BY TokenAssumption DEF Init, Setting!Init, TokenInv, CreatesItsOwn, HandlerStates, Tokens, Setting!Busy
<1>2. Setting!TypeOK /\ TokenInv /\ [Next]_vars => TokenInv'
  <2> SUFFICES ASSUME Setting!TypeOK, TokenInv, [Next]_vars PROVE TokenInv'
    OBVIOUS
  <2>1. CASE UNCHANGED vars
    BY <2>1 DEF TokenInv, CreatesItsOwn, Setting!Busy
  <2>2. CASE Evict
    BY <2>2 DEF Evict, Setting!Evict, TokenInv, CreatesItsOwn, Setting!Busy
  <2>3. CASE Crash
    <3>1. \A q \in Requests : ~Setting!Busy(q)' /\ hstate'[q] \in {"new", "done"}
      BY <2>3 DEF Crash, Setting!Crash, Setting!Busy
    <3>2. QED
      BY <2>3, <3>1 DEF Crash, Setting!Crash, TokenInv, CreatesItsOwn, HandlerStates
  <2>4. ASSUME NEW p \in Requests, RequestNext(p) PROVE TokenInv'
    BY <2>4, CallStep, AnswerStep, ServeStep DEF RequestNext
  <2>5. QED
    BY <2>1, <2>2, <2>3, <2>4 DEF Next
<1>3. QED
  BY <1>1, <1>2, RowTypes, PTL DEF Spec

\* The types, with any overlap and any faults.
THEOREM TokenTypesCorrect == Spec => []TypeOK
<1>1. Setting!TypeOK /\ TokenInv => TypeOK
  BY DEF TokenInv, TypeOK
<1>2. QED
  BY <1>1, RowTypes, TokenInvariant, PTL

\* A token that its user was shown, and has not asked to delete, is accepted,
\* however many uses are recorded and whatever fails meanwhile.
THEOREM IssuedStaysAccepted == Spec => []IssuedIsAccepted
<1>1. TokenInv /\ Setting!NothingLost => IssuedIsAccepted
  BY DEF TokenInv, Setting!NothingLost, IssuedIsAccepted
<1>2. QED
  BY <1>1, TokenInvariant, RowLosesNothing, PTL
=============================================================================
