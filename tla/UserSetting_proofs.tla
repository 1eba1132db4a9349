------------------------- MODULE UserSetting_proofs -------------------------
(***************************************************************************)
(* What the unlocked row and its cache promise for any number of           *)
(* goroutines and tokens, and any number of faults, as long as no write    *)
(* overlaps another access.                                                *)
(***************************************************************************)
EXTENDS UserSetting, TLAPS

USE DEF stored, settingHistory, settingVars

\* The list that replaces the row is a list of tokens.
LEMMA UpdatedType ==
  ASSUME NEW op \in Ops, NEW t \in Tokens, NEW list \in SUBSET Tokens
  PROVE  Updated(op, t, list) \in SUBSET Tokens
BY DEF Updated

LEMMA MarshalledType ==
  ASSUME TypeOK, NEW p \in Procs, NEW list \in Marshalled(p)
  PROVE  list \in SUBSET Tokens
<1>1. /\ access[p].op \in Ops /\ access[p].token \in Tokens
      /\ seen[p] \in SUBSET Tokens
  BY DEF TypeOK, Accesses
<1>2. CASE list = Updated(access[p].op, access[p].token, seen[p])
  BY <1>1, <1>2, UpdatedType
<1>3. CASE \E q \in Procs : list = seen[p] \cup {access[q].token}
  BY <1>1, <1>3 DEF TypeOK, Accesses
<1>4. QED
  BY <1>2, <1>3 DEF Marshalled

\* A write leaves well-typed values, whether or not its answer arrives.
LEMMA AppliedType ==
  ASSUME TypeOK, NEW p \in Procs, NEW list \in Marshalled(p), Applied(p, list)
  PROVE  /\ row' \subseteq SUBSET Tokens /\ AtMostOne(row)'
         /\ seen' \in [Procs -> SUBSET Tokens]
         /\ live' \subseteq Tokens
<1>1. list \in SUBSET Tokens
  BY MarshalledType
<1>2. access[p].op \in Ops /\ access[p].token \in Tokens
  BY DEF TypeOK, Accesses
<1>3. live' \in SUBSET Tokens
  BY <1>2, UpdatedType DEF Applied, TypeOK
<1>4. row' = {list}
  BY DEF Applied
<1>5. AtMostOne(row)'
  BY <1>4 DEF AtMostOne
<1>6. seen' \in [Procs -> SUBSET Tokens]
  BY <1>1 DEF Applied, TypeOK
<1>7. QED
  BY <1>1, <1>3, <1>4, <1>5, <1>6

\* The types, with any overlap and any faults.
THEOREM RowTypeCorrect == Spec => []TypeOK
<1> USE DEF TypeOK, Steps, Accesses
<1>1. Init => TypeOK
  <2> SUFFICES ASSUME Init PROVE TypeOK
    OBVIOUS
  <2>1. (CHOOSE t \in Tokens : TRUE) \in Tokens
    BY SettingAssumption
  <2>2. access \in [Procs -> Accesses]
    BY <2>1 DEF Init, Ops
  <2>3. row \subseteq SUBSET Tokens /\ AtMostOne(row)
    BY SettingAssumption DEF Init, AtMostOne
  <2>4. cache \subseteq SUBSET Tokens /\ AtMostOne(cache)
    BY DEF Init, AtMostOne
  <2>5. faults \in 0 .. MaxFaults
    BY SettingAssumption DEF Init
  <2>6. QED
    BY <2>2, <2>3, <2>4, <2>5, SettingAssumption DEF Init
<1>2. TypeOK /\ [Next]_settingVars => TypeOK'
  <2> SUFFICES ASSUME TypeOK, [Next]_settingVars
               PROVE  TypeOK'
    OBVIOUS
  <2>1. CASE Evict
    BY <2>1 DEF Evict, AtMostOne
  <2>2. CASE Crash
    <3>1. faults' \in 0 .. MaxFaults
      BY <2>2, SettingAssumption DEF Crash
    <3>2. QED
      BY <2>2, <3>1 DEF Crash, AtMostOne
  <2>3. ASSUME NEW p \in Procs, NEW op \in Ops, NEW t \in Tokens, Start(p, op, t)
        PROVE  TypeOK'
    <3>1. access' \in [Procs -> Accesses]
      BY <2>3 DEF Start
    <3>2. disturbed' \in BOOLEAN
      BY <2>3 DEF Start, Conflict
    <3>3. minted' \subseteq Tokens
      BY <2>3 DEF Start
    <3>4. step' \in [Procs -> Steps]
      BY <2>3 DEF Start
    <3>5. QED
      BY <2>3, <3>1, <3>2, <3>3, <3>4 DEF Start, AtMostOne
  <2>4. ASSUME NEW p \in Procs, AccessNext(p)
        PROVE  TypeOK'
    <3>1. CASE Lookup(p)
      BY <3>1 DEF Lookup, Handed, AtMostOne
    <3>2. CASE List(p)
      BY <3>2 DEF List, Handed, Contents, AtMostOne
    <3>3. CASE Fill(p)
      BY <3>3 DEF Fill, Handed, AtMostOne
    <3>4. CASE Write(p)
      <4>1. PICK list \in Marshalled(p) : Applied(p, list)
        BY <3>4 DEF Write
      <4>2. QED
        BY <3>4, <4>1, AppliedType DEF Write, AtMostOne
    <3>5. CASE Store(p)
      BY <3>5 DEF Store, AtMostOne
    <3>6. CASE DbError(p)
      <4>1. faults' \in 0 .. MaxFaults
        BY <3>6, SettingAssumption DEF DbError
      <4>2. QED
        BY <3>6, <4>1 DEF DbError, AtMostOne
    <3>7. CASE DbAnswerLost(p)
      <4>1. PICK list \in Marshalled(p) : Applied(p, list)
        BY <3>7 DEF DbAnswerLost
      <4>2. faults' \in 0 .. MaxFaults
        BY <3>7, SettingAssumption DEF DbAnswerLost
      <4>3. QED
        BY <3>7, <4>1, <4>2, AppliedType DEF DbAnswerLost, AtMostOne
    <3>8. QED
      BY <2>4, <3>1, <3>2, <3>3, <3>4, <3>5, <3>6, <3>7 DEF AccessNext
  <2>5. CASE UNCHANGED settingVars
    BY <2>5 DEF AtMostOne
  <2>6. QED
    BY <2>1, <2>2, <2>3, <2>4, <2>5 DEF Next
<1>3. QED
  BY <1>1, <1>2, PTL DEF Spec

\* A row's contents are its list.
LEMMA UnionSingleton == \A S : UNION {S} = S
OBVIOUS

\* An undisturbed write replaces the row by exactly what the accesses so far
\* amount to: the race on spare capacity needs a second adder.
LEMMA MarshalledAlone ==
  ASSUME SettingInv, ~disturbed, NEW p \in Procs, step[p] = "write",
         NEW list \in Marshalled(p)
  PROVE  list = Updated(access[p].op, access[p].token, Contents)
<1>1. seen[p] = Contents
  BY DEF SettingInv, UpToDate
<1>2. ASSUME NEW q \in Procs \ {p}, access[q].op = "add",
             step[q] \in {"write", "store"}
      PROVE  FALSE
  <2>1. Busy(p) /\ Busy(q)
    BY <1>2 DEF Busy
  <2>2. QED
    BY <1>2, <2>1 DEF SettingInv, Exclusive
<1>3. QED
  BY <1>1, <1>2 DEF Marshalled

\* Starting an access.
LEMMA StartKeepsInv ==
  ASSUME TypeOK, SettingInv, NEW p \in Procs, NEW op \in Ops, NEW t \in Tokens,
         Start(p, op, t)
  PROVE  SettingInv'
<1> USE DEF SettingInv
<1>1. UNCHANGED <<row, cache, seen, revoked, live>> /\ step'[p] = "lookup"
  BY DEF Start, TypeOK
<1>2. \A q \in Procs \ {p} : step'[q] = step[q] /\ access'[q] = access[q]
  BY DEF Start, TypeOK
<1>3. access'[p].op = op /\ access'[p].token = t
  BY DEF Start, TypeOK
<1>4. MintedFirst' /\ (op = "add" => t \notin revoked)
  <2>1. t \in minted' /\ minted \subseteq minted' /\ UNCHANGED revoked
    BY DEF Start
  <2>2. op = "add" => t \notin revoked
    BY DEF Start, MintedFirst
  <2>3. QED
    BY <1>2, <1>3, <2>1, <2>2 DEF MintedFirst, Busy
<1>5. ASSUME ~disturbed'
      PROVE  Exclusive' /\ \A q \in Procs : UpToDate(q)'
  <2>1. ~disturbed /\ ~Conflict(p, op)
    BY <1>5 DEF Start
  <2>2. \A q \in Procs \ {p} : Busy(q) => op = "read" /\ access[q].op = "read"
    BY <2>1 DEF Conflict
  <2>3. Exclusive'
    BY <1>2, <1>3, <2>1, <2>2 DEF Exclusive, Busy
  <2>4. \A q \in Procs : UpToDate(q)'
    BY <1>1, <1>2, <1>3, <1>4, <2>1 DEF UpToDate, Busy, Contents
  <2>5. QED
    BY <2>3, <2>4
<1>6. ~disturbed' => ~disturbed
  BY DEF Start
<1>7. NothingLost' /\ RevokedStaysRevoked'
  BY <1>1, <1>6 DEF NothingLost, RevokedStaysRevoked, Contents
<1>8. CacheCoherent'
  <2>1. step[p] # "store"
    BY DEF Start, Busy
  <2>2. QED
    BY <1>1, <1>2, <1>6, <2>1 DEF CacheCoherent
<1>9. QED
  BY <1>4, <1>5, <1>7, <1>8

\* Being handed the list, from the cache or from the table, and filling the
\* cache with it.
LEMMA ReadKeepsInv ==
  ASSUME TypeOK, SettingInv, NEW p \in Procs, Lookup(p) \/ List(p) \/ Fill(p)
  PROVE  SettingInv'
<1> USE DEF SettingInv
<1>1. /\ UNCHANGED <<row, access, minted, revoked, live, disturbed>>
      /\ Busy(p)
      /\ \A q \in Procs \ {p} : step'[q] = step[q] /\ seen'[q] = seen[q]
      /\ step'[p] \in {"list", "fill", "refill", "ok", "write"}
      /\ step'[p] = "write" => access[p].op # "read"
  BY DEF Lookup, List, Fill, Handed, TypeOK, Busy
<1>11. MintedFirst'
  BY <1>1 DEF MintedFirst, Busy
<1>2. SUFFICES ASSUME ~disturbed
               PROVE  /\ Exclusive'
                      /\ \A q \in Procs : UpToDate(q)'
                      /\ CacheCoherent'
  BY <1>1, <1>11 DEF NothingLost, RevokedStaysRevoked, CacheCoherent, Contents
<1>3. Exclusive'
  BY <1>1, <1>2 DEF Exclusive, Busy
<1>4. \A q \in Procs \ {p} : UpToDate(q)'
  BY <1>1, <1>2 DEF UpToDate, Busy, Contents
<1>5. \A q \in Procs : step'[q] = "store" <=> step[q] = "store"
  BY <1>1 DEF Lookup, List, Fill
<1>10. access'[p].op = "add" => access'[p].token \notin revoked'
  BY <1>1, <1>2 DEF UpToDate
<1>6. CASE Lookup(p)
  <2>1. access[p].op # "read" => \A q \in Procs : step[q] # "store"
    BY <1>1, <1>2, <1>6 DEF Exclusive, Busy, Lookup
  <2>2. cache # {} /\ access[p].op # "read" => UNION cache = Contents
    BY <1>2, <2>1 DEF CacheCoherent, Contents
  <2>3. UpToDate(p)'
    <3>1. step'[p] \in {"list", "ok"} \/ (cache # {} /\ step'[p] = "write")
      BY <1>6 DEF Lookup, Handed, TypeOK
    <3>2. cache # {} => seen'[p] = UNION cache
      BY <1>6 DEF Lookup, TypeOK
    <3>3. Contents' = Contents
      BY <1>1 DEF Contents
    <3>4. QED
      BY <1>10, <1>1, <2>2, <3>1, <3>2, <3>3 DEF UpToDate
  <2>4. QED
    BY <1>1, <1>2, <1>3, <1>4, <1>5, <1>6, <2>3 DEF Lookup, CacheCoherent
<1>7. CASE List(p)
  <2>1. seen'[p] = Contents
    BY <1>7 DEF List, TypeOK
  <2>2. row # {} => row = {Contents}
    <3>1. \A x, y \in row : x = y
      BY DEF TypeOK, AtMostOne
    <3>2. SUFFICES ASSUME NEW x \in row PROVE row = {Contents}
      OBVIOUS
    <3>3. row = {x}
      BY <3>1
    <3>4. QED
      BY <3>3, UnionSingleton DEF Contents
  <2>3. UpToDate(p)'
    <3>1. step'[p] \in {"ok", "write"} \/ (row # {} /\ step'[p] = "fill")
      BY <1>7 DEF List, Handed, TypeOK
    <3>2. Contents' = Contents
      BY <1>1 DEF Contents
    <3>3. QED
      BY <1>10, <1>1, <2>1, <2>2, <3>1, <3>2 DEF UpToDate
  <2>4. QED
    BY <1>1, <1>2, <1>3, <1>4, <1>5, <1>7, <2>3 DEF List, CacheCoherent
<1>8. CASE Fill(p)
  <2>1. row = {seen[p]} /\ seen'[p] = seen[p] /\ cache' = row
    BY <1>2, <1>8 DEF Fill, UpToDate
  <2>2. seen[p] = Contents
    BY <2>1, UnionSingleton DEF Contents
  <2>3. UpToDate(p)'
    BY <1>1, <1>2, <1>8, <2>1, <2>2 DEF Fill, UpToDate, Contents, Busy, TypeOK
  <2>4. QED
    BY <1>1, <1>2, <1>3, <1>4, <2>1, <2>3 DEF CacheCoherent
<1>9. QED
  BY <1>6, <1>7, <1>8

\* The write to the table.
LEMMA WriteKeepsInv ==
  ASSUME TypeOK, SettingInv, NEW p \in Procs, Write(p)
  PROVE  SettingInv'
<1> USE DEF SettingInv
<1>1. PICK list \in Marshalled(p) : Applied(p, list)
  BY DEF Write
<1>2. /\ UNCHANGED <<cache, access, minted, revoked, disturbed>>
      /\ row' = {list} /\ seen'[p] = list /\ step'[p] = "store"
      /\ live' = Updated(access[p].op, access[p].token, live)
      /\ \A q \in Procs \ {p} : step'[q] = step[q] /\ seen'[q] = seen[q]
      /\ Busy(p)
  BY <1>1 DEF Write, Applied, TypeOK, Busy
<1>11. MintedFirst'
  BY <1>2 DEF MintedFirst, Busy
<1>3. SUFFICES ASSUME ~disturbed
               PROVE  /\ Exclusive'
                      /\ \A q \in Procs : UpToDate(q)'
                      /\ NothingLost'
                      /\ CacheCoherent'
                      /\ RevokedStaysRevoked'
  BY <1>2, <1>11 DEF NothingLost, RevokedStaysRevoked, CacheCoherent
<1>4. /\ step[p] = "write" /\ access[p].op \in Ops \ {"read"}
      /\ access[p].op = "add" => access[p].token \notin revoked
  BY <1>2, <1>3 DEF Write, UpToDate, TypeOK, Accesses
<1>5. list = Updated(access[p].op, access[p].token, Contents)
  BY <1>3, <1>4, MarshalledAlone
<1>6. Contents' = list
  BY <1>2, UnionSingleton DEF Contents
<1>7. NothingLost'
  BY <1>2, <1>3, <1>5, <1>6 DEF NothingLost
<1>8. RevokedStaysRevoked'
  BY <1>2, <1>3, <1>4, <1>5, <1>6 DEF RevokedStaysRevoked, Updated, Ops
<1>9. Exclusive'
  BY <1>2, <1>3 DEF Exclusive, Busy
<1>10. \A q \in Procs \ {p} : ~Busy(q)
  BY <1>2, <1>3, <1>4 DEF Exclusive
<1>14. ASSUME NEW q \in Procs
       PROVE  UpToDate(q)'
  <2>1. CASE q = p
    <3>1. access[p].op = "remove" => access[p].token \notin list
      BY <1>5 DEF Updated
    <3>2. QED
      BY <1>2, <1>4, <2>1, <3>1 DEF UpToDate, Busy
  <2>2. CASE q # p
    BY <1>2, <1>10, <2>2 DEF UpToDate, Busy
  <2>3. QED
    BY <2>1, <2>2
<1>12. CacheCoherent'
  BY <1>2 DEF CacheCoherent
<1>13. QED
  BY <1>7, <1>8, <1>9, <1>14, <1>12


\* The write to the cache that follows it.
LEMMA StoreKeepsInv ==
  ASSUME TypeOK, SettingInv, NEW p \in Procs, Store(p)
  PROVE  SettingInv'
<1> USE DEF SettingInv
<1>1. /\ UNCHANGED <<row, access, seen, minted, live, disturbed>>
      /\ cache' = {seen[p]} /\ step[p] = "store" /\ step'[p] = "ok"
      /\ \A q \in Procs \ {p} : step'[q] = step[q]
      /\ revoked' = revoked \cup
            (IF access[p].op = "remove" THEN {access[p].token} ELSE {})
      /\ Busy(p)
  BY DEF Store, TypeOK, Busy
<1>2. MintedFirst'
  BY <1>1 DEF MintedFirst, Busy
<1>3. SUFFICES ASSUME ~disturbed
               PROVE  /\ Exclusive'
                      /\ \A q \in Procs : UpToDate(q)'
                      /\ CacheCoherent'
                      /\ RevokedStaysRevoked'
  BY <1>1, <1>2 DEF NothingLost, RevokedStaysRevoked, CacheCoherent, Contents
<1>4. /\ row = {seen[p]}
      /\ access[p].op = "remove" => access[p].token \notin seen[p]
  BY <1>1, <1>3 DEF UpToDate
<1>5. access[p].op # "read"
  BY <1>1, <1>3 DEF UpToDate
<1>6. \A q \in Procs \ {p} : ~Busy(q)
  BY <1>1, <1>3, <1>5 DEF Exclusive
<1>7. \A q \in Procs : ~Busy(q)'
  BY <1>1, <1>6 DEF Busy
<1>8. Exclusive' /\ \A q \in Procs : UpToDate(q)'
  BY <1>7 DEF Exclusive, UpToDate, Busy
<1>9. CacheCoherent'
  BY <1>1, <1>4 DEF CacheCoherent
<1>10. RevokedStaysRevoked'
  <2>1. Contents' = seen[p] /\ Contents = seen[p]
    BY <1>1, <1>4, UnionSingleton DEF Contents
  <2>2. QED
    BY <1>1, <1>3, <1>4, <2>1 DEF RevokedStaysRevoked
<1>11. QED
  BY <1>8, <1>9, <1>10

\* Errors of the database: an honest one ends the access with nothing done,
\* a lost answer takes the proviso away.
LEMMA FailureKeepsInv ==
  ASSUME TypeOK, SettingInv, NEW p \in Procs, DbError(p) \/ DbAnswerLost(p)
  PROVE  SettingInv'
<1> USE DEF SettingInv
<1>1. /\ UNCHANGED <<cache, access, minted, revoked>>
      /\ step[p] \in {"list", "write"} /\ step'[p] = "failed"
      /\ \A q \in Procs \ {p} : step'[q] = step[q]
  BY DEF DbError, DbAnswerLost, TypeOK
<1>2. MintedFirst'
  BY <1>1 DEF MintedFirst, Busy
<1>3. CASE DbError(p)
  <2>1. UNCHANGED <<row, seen, live, disturbed>>
    BY <1>3 DEF DbError
  <2>2. \A q \in Procs : Busy(q)' => Busy(q)
    BY <1>1 DEF Busy
  <2>3. \A q \in Procs : UpToDate(q) => UpToDate(q)'
    BY <1>1, <2>1, <2>2 DEF UpToDate, Contents
  <2>4. Exclusive => Exclusive'
    BY <1>1, <2>2 DEF Exclusive
  <2>5. CacheCoherent'
    BY <1>1, <2>1 DEF CacheCoherent
  <2>6. QED
    BY <1>1, <1>2, <2>1, <2>3, <2>4, <2>5
       DEF NothingLost, RevokedStaysRevoked, Contents
<1>4. CASE DbAnswerLost(p)
  <2>1. disturbed'
    BY <1>4 DEF DbAnswerLost
  <2>2. QED
    BY <1>2, <2>1 DEF NothingLost, CacheCoherent, RevokedStaysRevoked
<1>5. QED
  BY <1>3, <1>4

\* The entry may leave the cache, and the whole process may die, at any time.
LEMMA LossKeepsInv ==
  ASSUME TypeOK, SettingInv, Evict \/ Crash
  PROVE  SettingInv'
<1>1. /\ UNCHANGED <<row, access, seen, minted, revoked, live, disturbed>>
      /\ cache' = {}
      /\ \A q \in Procs : step'[q] \in {step[q], "idle"}
  BY DEF Evict, Crash, TypeOK
<1>2. \A q \in Procs : Busy(q)' => Busy(q) /\ step'[q] = step[q]
  BY <1>1 DEF Busy
<1>3. \A q \in Procs : UpToDate(q) => UpToDate(q)'
  BY <1>1, <1>2 DEF UpToDate, Contents
<1>4. Exclusive => Exclusive'
  BY <1>1, <1>2 DEF Exclusive
<1>5. QED
  BY <1>1, <1>2, <1>3, <1>4
     DEF SettingInv, MintedFirst, NothingLost, CacheCoherent,
         RevokedStaysRevoked, Contents

\* The inductive invariant holds, with any number of goroutines and faults.
THEOREM SettingInvariant == Spec => []SettingInv
<1>1. Init => SettingInv
  <2> SUFFICES ASSUME Init PROVE SettingInv
    OBVIOUS
  <2>1. Contents = InitialTokens
    BY UnionSingleton DEF Init, Contents
  <2>2. \A p \in Procs : ~Busy(p) /\ step[p] = "idle"
    BY DEF Init, Busy
  <2>3. revoked = {} /\ cache = {} /\ live = InitialTokens
    BY DEF Init
  <2>4. QED
    BY <2>1, <2>2, <2>3
       DEF SettingInv, MintedFirst, Exclusive, UpToDate, NothingLost,
           CacheCoherent, RevokedStaysRevoked
<1>2. TypeOK /\ SettingInv /\ [Next]_settingVars => SettingInv'
  <2> SUFFICES ASSUME TypeOK, SettingInv, [Next]_settingVars
               PROVE  SettingInv'
    OBVIOUS
  <2>1. CASE Evict \/ Crash
    BY <2>1, LossKeepsInv
  <2>2. ASSUME NEW p \in Procs, AccessNext(p)
        PROVE  SettingInv'
    BY <2>2, ReadKeepsInv, WriteKeepsInv, StoreKeepsInv, FailureKeepsInv
       DEF AccessNext
  <2>3. CASE \E p \in Procs, op \in Ops, t \in Tokens : Start(p, op, t)
    BY <2>3, StartKeepsInv
  <2>4. CASE UNCHANGED settingVars
    BY <2>4 DEF SettingInv, MintedFirst, Exclusive, UpToDate, NothingLost,
                CacheCoherent, RevokedStaysRevoked, Contents, Busy
  <2>5. QED
    BY <2>1, <2>2, <2>3, <2>4 DEF Next
<1>3. QED
  BY <1>1, <1>2, RowTypeCorrect, PTL DEF Spec

\* Without overlap nothing is lost: the row is what the accesses amount to.
THEOREM UndisturbedLosesNothing == Spec => []NothingLost
<1>1. SettingInv => NothingLost
  BY DEF SettingInv
<1>2. QED
  BY <1>1, SettingInvariant, PTL

\* Without overlap the cache is stale only between the two writes of a writer.
THEOREM UndisturbedCacheCoherent == Spec => []CacheCoherent
<1>1. SettingInv => CacheCoherent
  BY DEF SettingInv
<1>2. QED
  BY <1>1, SettingInvariant, PTL

\* Without overlap a revoked token stays revoked.
THEOREM UndisturbedRevocation == Spec => []RevokedStaysRevoked
<1>1. SettingInv => RevokedStaysRevoked
  BY DEF SettingInv
<1>2. QED
  BY <1>1, SettingInvariant, PTL

-----------------------------------------------------------------------------
(***************************************************************************)
(* The row and its cache implement one list that every access reads or     *)
(* changes in a single step.                                               *)
(***************************************************************************)

\* Undisturbed, nobody stands between the two writes of a writer while a reader
\* is under way, so that what the cache holds is the row.
LEMMA CachedIsStored ==
  ASSUME SettingInv, ~disturbed, NEW p \in Procs, Busy(p), step[p] # "store",
         cache # {}
  PROVE  cache = row
<1>1. \A q \in Procs : step[q] # "store"
  <2> SUFFICES ASSUME NEW q \in Procs, step[q] = "store" PROVE FALSE
    OBVIOUS
  <2>1. Busy(q) /\ q # p /\ access[q].op # "read"
    BY DEF Busy, SettingInv, UpToDate
  <2>2. QED
    BY <2>1 DEF SettingInv, Exclusive
<1>2. QED
  BY <1>1 DEF SettingInv, CacheCoherent

\* A step of one goroutine moves its access alone.
LEMMA OneMoves ==
  ASSUME NEW p \in Procs, access' = access,
         \A q \in Procs \ {p} : step'[q] = step[q] /\ seen'[q] = seen[q],
         NEW s, AtomicStatus(p)' = s, NEW a, AtomicAnswer(p)' = a
  PROVE  /\ [q \in Procs |-> AtomicStatus(q)]'
              = [[q \in Procs |-> AtomicStatus(q)] EXCEPT ![p] = s]
         /\ [q \in Procs |-> AtomicAnswer(q)]'
              = [[q \in Procs |-> AtomicAnswer(q)] EXCEPT ![p] = a]
<1>1. \A q \in Procs \ {p} : AtomicStatus(q)' = AtomicStatus(q)
                             /\ AtomicAnswer(q)' = AtomicAnswer(q)
  BY DEF AtomicStatus, AtomicAnswer, Busy
<1>2. QED
  BY <1>1

\* The steps before an access is handed the list for good: nothing to see.
LEMMA NothingToSee ==
  ASSUME NEW p \in Procs, access' = access, Contents' = Contents,
         \A q \in Procs \ {p} : step'[q] = step[q] /\ seen'[q] = seen[q],
         Busy(p), step[p] # "store", Busy(p)', step'[p] # "store"
  PROVE  UNCHANGED AtomicList!listVars
<1>1. /\ AtomicStatus(p)' = AtomicStatus(p)
      /\ AtomicAnswer(p)' = AtomicAnswer(p)
  BY DEF AtomicStatus, AtomicAnswer, Busy
<1>2. \A q \in Procs : AtomicStatus(q)' = AtomicStatus(q)
                       /\ AtomicAnswer(q)' = AtomicAnswer(q)
  BY <1>1 DEF AtomicStatus, AtomicAnswer, Busy
<1>3. QED
  BY <1>2 DEF AtomicList!listVars

\* The read of GetUserSetting ends: the answer is the list as it is now.
LEMMA ReadReturns ==
  ASSUME NEW p \in Procs, access' = access, Contents' = Contents,
         \A q \in Procs \ {p} : step'[q] = step[q] /\ seen'[q] = seen[q],
         Busy(p), step[p] # "store", access[p].op = "read",
         step'[p] = "ok", seen'[p] = Contents
  PROVE  AtomicList!Return(p)
<1>1. /\ AtomicStatus(p) = "asked"
      /\ AtomicStatus(p)' = "ok"
      /\ AtomicAnswer(p)' = Contents
  BY DEF AtomicStatus, AtomicAnswer, Busy
<1>2. QED
  BY <1>1, OneMoves DEF AtomicList!Return

\* An access under way is handed the list, or comes nearer to it.
LEMMA HandedOrNot ==
  ASSUME NEW p \in Procs, access' = access, Contents' = Contents,
         \A q \in Procs \ {p} : step'[q] = step[q] /\ seen'[q] = seen[q],
         Busy(p), step[p] # "store", step'[p] = Handed(p), seen'[p] = Contents
  PROVE  AtomicList!Return(p) \/ UNCHANGED AtomicList!listVars
<1>1. CASE access[p].op = "read"
  BY <1>1, ReadReturns DEF Handed
<1>2. CASE access[p].op # "read"
  <2>1. step'[p] = "write"
    BY <1>2 DEF Handed
  <2>2. QED
    BY <2>1, NothingToSee DEF Busy
<1>3. QED
  BY <1>1, <1>2

\* The steps of GetUserSetting.
LEMMA ReadImplements ==
  ASSUME TypeOK, SettingInv, ~disturbed, NEW p \in Procs,
         Lookup(p) \/ List(p) \/ Fill(p)
  PROVE  AtomicList!Return(p) \/ UNCHANGED AtomicList!listVars
<1>1. /\ access' = access /\ row' = row /\ Contents' = Contents
      /\ \A q \in Procs \ {p} : step'[q] = step[q] /\ seen'[q] = seen[q]
  BY DEF TypeOK, Lookup, List, Fill, Contents
<1>2. Busy(p) /\ step[p] # "store"
  BY DEF Lookup, List, Fill, Busy
<1>3. CASE Lookup(p)
  <2>1. CASE cache # {}
    <3>1. cache = row
      BY <1>2, <2>1, CachedIsStored
    <3>2. step'[p] = Handed(p) /\ seen'[p] = Contents
      BY <1>3, <2>1, <3>1 DEF Lookup, Contents, TypeOK
    <3>3. QED
      BY <1>1, <1>2, <3>2, HandedOrNot
  <2>2. CASE cache = {}
    <3>1. step'[p] = "list"
      BY <1>3, <2>2 DEF Lookup, TypeOK
    <3>2. QED
      BY <1>1, <1>2, <3>1, NothingToSee DEF Busy
  <2>3. QED
    BY <2>1, <2>2
<1>4. CASE List(p)
  <2>1. CASE row = {}
    <3>1. step'[p] = Handed(p) /\ seen'[p] = Contents
      BY <1>4, <2>1 DEF List, TypeOK
    <3>2. QED
      BY <1>1, <1>2, <3>1, HandedOrNot
  <2>2. CASE row # {}
    <3>1. step'[p] = "fill"
      BY <1>4, <2>2 DEF List, TypeOK
    <3>2. QED
      BY <1>1, <1>2, <3>1, NothingToSee DEF Busy
  <2>3. QED
    BY <2>1, <2>2
<1>5. CASE Fill(p)
  <2>1. CASE step[p] = "fill"
    <3>1. step'[p] = "refill"
      BY <1>5, <2>1 DEF Fill, TypeOK
    <3>2. QED
      BY <1>1, <1>2, <3>1, NothingToSee DEF Busy
  <2>2. CASE step[p] = "refill"
    <3>1. row = {seen[p]}
      BY <2>2 DEF SettingInv, UpToDate
    <3>2. seen'[p] = Contents
      BY <1>5, <3>1, UnionSingleton DEF Fill, Contents
    <3>3. step'[p] = Handed(p)
      BY <1>5, <2>2 DEF Fill, TypeOK
    <3>4. QED
      BY <1>1, <1>2, <3>2, <3>3, HandedOrNot
  <2>3. QED
    BY <1>5, <2>1, <2>2 DEF Fill
<1>6. QED
  BY <1>3, <1>4, <1>5

\* UpsertUserSetting takes effect where it replaces the row, and returns once
\* the cache has been told.
LEMMA WriteImplements ==
  ASSUME TypeOK, SettingInv, ~disturbed, NEW p \in Procs, Write(p)
  PROVE  AtomicList!Apply(p)
<1>1. PICK list \in Marshalled(p) : Applied(p, list)
  BY DEF Write
<1>2. step[p] = "write" /\ access' = access
  BY DEF Write
<1>3. list = Updated(access[p].op, access[p].token, Contents)
  BY <1>2, MarshalledAlone
<1>4. Contents' = Updated(access[p].op, access[p].token, Contents)
  BY <1>1, <1>3, UnionSingleton DEF Applied, Contents
<1>5. /\ step'[p] = "store"
      /\ \A q \in Procs \ {p} : step'[q] = step[q] /\ seen'[q] = seen[q]
  BY <1>1 DEF Write, Applied, TypeOK
<1>6. access[p].op # "read"
  BY <1>2 DEF SettingInv, UpToDate
<1>7. /\ AtomicStatus(p) = "asked" /\ AtomicStatus(p)' = "applied"
      /\ AtomicAnswer(p) = {} /\ AtomicAnswer(p)' = {}
  BY <1>2, <1>5 DEF AtomicStatus, AtomicAnswer, Busy
<1>8. [q \in Procs |-> AtomicAnswer(q)]' = [q \in Procs |-> AtomicAnswer(q)]
  BY <1>2, <1>5, <1>7, OneMoves
<1>9. QED
  BY <1>2, <1>4, <1>5, <1>6, <1>7, <1>8, OneMoves DEF AtomicList!Apply, Updated

LEMMA StoreImplements ==
  ASSUME TypeOK, SettingInv, ~disturbed, NEW p \in Procs, Store(p)
  PROVE  AtomicList!Confirm(p)
<1>1. /\ step[p] = "store" /\ step'[p] = "ok"
      /\ access' = access /\ Contents' = Contents
      /\ \A q \in Procs \ {p} : step'[q] = step[q] /\ seen'[q] = seen[q]
  BY DEF Store, Contents, TypeOK
<1>2. access[p].op # "read"
  BY <1>1 DEF SettingInv, UpToDate
<1>3. /\ AtomicStatus(p) = "applied" /\ AtomicStatus(p)' = "ok"
      /\ AtomicAnswer(p) = {} /\ AtomicAnswer(p)' = {}
  BY <1>1, <1>2 DEF AtomicStatus, AtomicAnswer, Busy
<1>4. [q \in Procs |-> AtomicAnswer(q)]' = [q \in Procs |-> AtomicAnswer(q)]
  BY <1>1, <1>3, OneMoves
<1>5. QED
  BY <1>1, <1>3, <1>4, OneMoves DEF AtomicList!Confirm

LEMMA ErrorImplements ==
  ASSUME TypeOK, NEW p \in Procs, DbError(p)
  PROVE  AtomicList!Fail(p)
<1>1. /\ step[p] \in {"list", "write"} /\ step'[p] = "failed"
      /\ access' = access /\ Contents' = Contents
      /\ \A q \in Procs \ {p} : step'[q] = step[q] /\ seen'[q] = seen[q]
  BY DEF DbError, Contents, TypeOK
<1>2. /\ AtomicStatus(p) = "asked" /\ AtomicStatus(p)' = "failed"
      /\ AtomicAnswer(p) = {} /\ AtomicAnswer(p)' = {}
  BY <1>1 DEF AtomicStatus, AtomicAnswer, Busy
<1>3. [q \in Procs |-> AtomicAnswer(q)]' = [q \in Procs |-> AtomicAnswer(q)]
  BY <1>1, <1>2, OneMoves
<1>4. QED
  BY <1>1, <1>2, <1>3, OneMoves DEF AtomicList!Fail

LEMMA StartImplements ==
  ASSUME TypeOK, NEW p \in Procs, NEW op \in Ops, NEW t \in Tokens,
         Start(p, op, t)
  PROVE  AtomicList!Ask(p, [op |-> op, token |-> t])
<1>1. /\ ~Busy(p) /\ step'[p] = "lookup" /\ Contents' = Contents
      /\ access' = [access EXCEPT ![p] = [op |-> op, token |-> t]]
      /\ \A q \in Procs \ {p} : /\ step'[q] = step[q] /\ seen'[q] = seen[q]
                                /\ access'[q] = access[q]
  BY DEF Start, Contents, TypeOK
<1>2. /\ AtomicStatus(p) \notin {"asked", "applied"}
      /\ AtomicStatus(p)' = "asked" /\ AtomicAnswer(p)' = {}
  BY <1>1 DEF AtomicStatus, AtomicAnswer, Busy
<1>3. \A q \in Procs \ {p} : AtomicStatus(q)' = AtomicStatus(q)
                             /\ AtomicAnswer(q)' = AtomicAnswer(q)
  BY <1>1 DEF AtomicStatus, AtomicAnswer, Busy
<1>4. QED
  BY <1>1, <1>2, <1>3 DEF AtomicList!Ask, AtomicList!Pending

LEMMA CrashImplements ==
  ASSUME TypeOK, Crash
  PROVE  AtomicList!Crash
<1>1. step' = [p \in Procs |-> "idle"] /\ UNCHANGED <<row, access>>
  BY DEF Crash
<1>2. \A p \in Procs : AtomicStatus(p)' = "idle" /\ AtomicAnswer(p)' = {}
  BY <1>1 DEF AtomicStatus, AtomicAnswer, Busy
<1>3. QED
  BY <1>1, <1>2 DEF AtomicList!Crash, Contents

\* Once accesses have overlapped nothing undoes it.
LEMMA DisturbedStays ==
  ASSUME TypeOK, Next, ~disturbed'
  PROVE  ~disturbed
<1> SUFFICES ASSUME disturbed PROVE FALSE
  OBVIOUS
<1>1. CASE Evict \/ Crash
  BY <1>1 DEF Evict, Crash
<1>2. ASSUME NEW p \in Procs, AccessNext(p) PROVE FALSE
  BY <1>2 DEF AccessNext, Lookup, List, Fill, Write, Store, DbError, DbAnswerLost
<1>3. ASSUME NEW p \in Procs, NEW op \in Ops, NEW t \in Tokens, Start(p, op, t)
      PROVE  FALSE
  BY <1>3 DEF Start
<1>4. QED
  BY <1>1, <1>2, <1>3 DEF Next

\* Every undisturbed step is a step of the list, or none.
LEMMA StepImplements ==
  ASSUME TypeOK, SettingInv, ~disturbed, ~disturbed', [Next]_settingVars
  PROVE  [AtomicList!Next]_AtomicList!listVars
<1> USE DEF AtomicList!Next
<1>1. CASE Crash
  BY <1>1, CrashImplements
<1>2. CASE Evict \/ UNCHANGED settingVars
  <2>1. UNCHANGED <<row, step, access, seen>>
    BY <1>2 DEF Evict
  <2>2. QED
    BY <2>1 DEF AtomicList!listVars, AtomicStatus, AtomicAnswer, Busy, Contents
<1>3. ASSUME NEW p \in Procs, AccessNext(p)
      PROVE  [AtomicList!Next]_AtomicList!listVars
  <2>1. ~DbAnswerLost(p)
    BY DEF DbAnswerLost
  <2>2. CASE Lookup(p) \/ List(p) \/ Fill(p)
    BY <2>2, ReadImplements
  <2>3. CASE Write(p)
    BY <2>3, WriteImplements
  <2>4. CASE Store(p)
    BY <2>4, StoreImplements
  <2>5. CASE DbError(p)
    BY <2>5, ErrorImplements
  <2>6. QED
    BY <1>3, <2>1, <2>2, <2>3, <2>4, <2>5 DEF AccessNext
<1>4. ASSUME NEW p \in Procs, NEW op \in Ops, NEW t \in Tokens, Start(p, op, t)
      PROVE  [AtomicList!Next]_AtomicList!listVars
  <2>1. [op |-> op, token |-> t] \in AtomicList!Calls
    BY DEF AtomicList!Calls, Ops
  <2>2. QED
    BY <1>4, <2>1, StartImplements
<1>5. QED
  BY <1>1, <1>2, <1>3, <1>4 DEF Next

\* The row starts as the list does.
LEMMA InitImplements ==
  ASSUME Init
  PROVE  AtomicList!Init
<1>1. Contents = InitialTokens
  BY UnionSingleton DEF Init, Contents
<1>2. \A p \in Procs : AtomicStatus(p) = "idle" /\ AtomicAnswer(p) = {}
  BY DEF Init, AtomicStatus, AtomicAnswer, Busy
<1>3. PICK t \in Tokens : access = [p \in Procs |-> [op |-> "read", token |-> t]]
  BY DEF Init
<1>4. access \in [Procs -> AtomicList!Calls]
  BY <1>3 DEF AtomicList!Calls
<1>5. QED
  BY <1>1, <1>2, <1>4 DEF AtomicList!Init

\* As long as it is undisturbed, the row with its cache acts as a list that each
\* access reads or changes in one step (ActsAtomically): for any goroutines and
\* tokens, and through any evictions, errors and crashes.
THEOREM RowActsAtomically == Spec => ActsAtomically
<1>1. Init => AtomicList!Init
  BY InitImplements
<1>2. TypeOK /\ SettingInv /\ [Next]_settingVars
        => [~disturbed' => AtomicList!Next \/ UNCHANGED AtomicList!listVars]_settingVars
  <2> SUFFICES ASSUME TypeOK, SettingInv, Next, ~disturbed'
               PROVE  AtomicList!Next \/ UNCHANGED AtomicList!listVars
    OBVIOUS
  <2>1. ~disturbed
    BY DisturbedStays
  <2>2. QED
    BY <2>1, StepImplements
<1>3. QED
  BY <1>1, <1>2, RowTypeCorrect, SettingInvariant, PTL DEF Spec, ActsAtomically

\* A row that nothing ever disturbs implements the list.
THEOREM UndisturbedRowIsList == UndisturbedSpec => AtomicList!Spec
<1>1. Init => AtomicList!Init
  BY InitImplements
<1>2. Init => ~disturbed
  BY DEF Init
<1>3. ~disturbed /\ [Next /\ ~disturbed']_settingVars => ~disturbed'
  OBVIOUS
<1>4. TypeOK /\ SettingInv /\ ~disturbed /\ ~disturbed' /\ [Next]_settingVars
        => [AtomicList!Next]_(AtomicList!listVars)
  BY StepImplements
<1>5. [Next /\ ~disturbed']_settingVars => [Next]_settingVars
  OBVIOUS
<1>6. QED
  BY <1>1, <1>2, <1>3, <1>4, <1>5, RowTypeCorrect, SettingInvariant, PTL
     DEF UndisturbedSpec, Spec, AtomicList!Spec
=============================================================================
