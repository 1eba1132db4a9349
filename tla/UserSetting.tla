---------------------------- MODULE UserSetting ----------------------------
(***************************************************************************)
(* One row of the user_setting table that holds a list of tokens, and its  *)
(* entry in the in-memory userSettingCache (store/user_setting.go).  The   *)
(* refresh tokens of a user are one such row (Sessions), his personal      *)
(* access tokens another (AccessTokens).                                   *)
(*                                                                         *)
(* Nothing locks the row.  Every access starts with GetUserSetting; an     *)
(* access that writes computes the new list from what it was handed and    *)
(* writes the whole list back.  Any number of goroutines do so at once.    *)
(***************************************************************************)
EXTENDS Naturals, FiniteSets

CONSTANTS
    Procs,          \* the goroutines that access the row
    Tokens,         \* token ids (UUIDs: each is added once)
    InitialTokens,  \* what the row holds when the model starts
    MaxFaults       \* bound: database errors and crashes in a behaviour

ASSUME SettingAssumption ==
    /\ Tokens # {} /\ InitialTokens \subseteq Tokens
    /\ MaxFaults \in Nat

VARIABLES
    row,        \* {} when the table has no such row, else {its list}
    cache,      \* {} when the key is not cached, else {the cached list}
    step,       \* step[p]: where the access of p stands
    access,     \* access[p]: the access, [op, token]
    seen,       \* seen[p]: the list p was handed, then the one it wrote
    minted,     \* history: the tokens that were ever to be added
    revoked,    \* history: the tokens whose removal was reported to succeed
    live,       \* history: the list if each applied access had been atomic
    disturbed,  \* history: two accesses overlapped, or an error was not one
    faults      \* history: database errors and crashes so far

stored == <<row, cache>>
settingHistory == <<minted, revoked, live, disturbed, faults>>
settingVars == <<row, cache, step, access, seen, minted, revoked, live,
                 disturbed, faults>>

Ops == {"read", "add", "remove", "touch"}
Accesses == [op : Ops, token : Tokens]
Steps == {"idle", "lookup", "list", "fill", "refill", "write", "store",
          "ok", "failed"}

Contents == UNION row
Busy(p) == step[p] \notin {"idle", "ok", "failed"}

Init ==
    /\ row = IF InitialTokens = {} THEN {} ELSE {InitialTokens}
    /\ cache = {}
    /\ step = [p \in Procs |-> "idle"]
    /\ \E t \in Tokens : access = [p \in Procs |-> [op |-> "read", token |-> t]]
    /\ seen = [p \in Procs |-> {}]
    /\ minted = InitialTokens
    /\ revoked = {}
    /\ live = InitialTokens
    /\ disturbed = FALSE
    /\ faults = 0

\* The new list: AddUser..., RemoveUser..., and UpdatePATLastUsed, which
\* changes a field of a token but not the list.
Updated(op, t, list) ==
    CASE op = "add" -> list \cup {t}
      [] op = "remove" -> list \ {t}
      [] OTHER -> list

\* Two accesses get in each other's way unless both only read.
Conflict(p, op) ==
    \E q \in Procs \ {p} : Busy(q) /\ (op # "read" \/ access[q].op # "read")

\* A goroutine calls one of the functions of user_setting.go.
Start(p, op, t) ==
    /\ ~Busy(p)
    /\ IF op = "add" THEN t \notin minted ELSE t \in minted
    /\ minted' = minted \cup (IF op = "add" THEN {t} ELSE {})
    /\ access' = [access EXCEPT ![p] = [op |-> op, token |-> t]]
    /\ step' = [step EXCEPT ![p] = "lookup"]
    /\ disturbed' = (disturbed \/ Conflict(p, op))
    /\ UNCHANGED <<stored, seen, revoked, live, faults>>

\* A goroutine that was handed the list goes on to write, or is done.
Handed(p) == IF access[p].op = "read" THEN "ok" ELSE "write"

\* Mutation of Lookup: a cache miss passes for an empty list.
LookupCacheOnly(p) ==
    /\ step[p] = "lookup"
    /\ seen' = [seen EXCEPT ![p] = UNION cache]
    /\ step' = [step EXCEPT ![p] = Handed(p)]
    /\ UNCHANGED <<stored, access, settingHistory>>

\* GetUserSetting: the cache is asked first
Lookup(p) ==
    /\ step[p] = "lookup"
    /\ IF cache # {}
         THEN /\ seen' = [seen EXCEPT ![p] = UNION cache]
              /\ step' = [step EXCEPT ![p] = Handed(p)]
         ELSE /\ step' = [step EXCEPT ![p] = "list"]
              /\ UNCHANGED seen
    /\ UNCHANGED <<stored, access, settingHistory>>

\* ListUserSettings: the driver reads the row; no row is not cached
List(p) ==
    /\ step[p] = "list"
    /\ seen' = [seen EXCEPT ![p] = Contents]
    /\ step' = [step EXCEPT ![p] = IF row = {} THEN Handed(p) ELSE "fill"]
    /\ UNCHANGED <<stored, access, settingHistory>>

\* ... and what it read goes into the cache, later: once in
\* ListUserSettings, once more in GetUserSetting
Fill(p) ==
    /\ step[p] \in {"fill", "refill"}
    /\ cache' = {seen[p]}
    /\ step' = [step EXCEPT ![p] = IF @ = "fill" THEN "refill" ELSE Handed(p)]
    /\ UNCHANGED <<row, access, seen, settingHistory>>

\* The list p is about to marshal.  append may write p's token into spare
\* capacity of an array that it shares with another adder that was handed the
\* same list: a data race, after which p may find the other's token there.
\* The decoder grows a list by doubling, so lists of 3, 5, 6, 7... have room.
SpareSlot(list) ==
    LET n == Cardinality(list) IN n # 0 /\ \A k \in 0 .. n : n # 2^k
Marshalled(p) ==
    LET mine == Updated(access[p].op, access[p].token, seen[p])
        raced(q) == /\ access[q].op = "add"
                    /\ \/ step[q] = "write" /\ seen[q] = seen[p]
                       \/ step[q] = "store" /\ seen[q] = seen[p] \cup {access[q].token}
    IN  {mine} \cup
        IF access[p].op = "add" /\ SpareSlot(seen[p])
          THEN {seen[p] \cup {access[q].token} : q \in {r \in Procs \ {p} : raced(r)}}
          ELSE {}

\* Mutation of Applied: an INSERT without ON CONFLICT DO UPDATE.
AppliedAsInsert(p, list) ==
    /\ row' = row \cup {list}
    /\ seen' = [seen EXCEPT ![p] = list]
    /\ live' = Updated(access[p].op, access[p].token, live)

\* UpsertUserSetting: the driver replaces the row ...
Applied(p, list) ==
    /\ row' = {list}
    /\ seen' = [seen EXCEPT ![p] = list]
    /\ live' = Updated(access[p].op, access[p].token, live)

Write(p) ==
    /\ step[p] = "write"
    /\ \E list \in Marshalled(p) : Applied(p, list)
    /\ step' = [step EXCEPT ![p] = "store"]
    /\ UNCHANGED <<cache, access, minted, revoked, disturbed, faults>>

\* Mutation of Store: the cache is not told of the write.
StoreUncached(p) ==
    /\ step[p] = "store"
    /\ step' = [step EXCEPT ![p] = "ok"]
    /\ revoked' = revoked \cup
           (IF access[p].op = "remove" THEN {access[p].token} ELSE {})
    /\ UNCHANGED <<stored, access, seen, minted, live, disturbed, faults>>

\* ... and then the cache
Store(p) ==
    /\ step[p] = "store"
    /\ cache' = {seen[p]}
    /\ step' = [step EXCEPT ![p] = "ok"]
    /\ revoked' = revoked \cup
           (IF access[p].op = "remove" THEN {access[p].token} ELSE {})
    /\ UNCHANGED <<row, access, seen, minted, live, disturbed, faults>>

\* Mutation of DbError: the error goes unnoticed and the cache is written.
DbErrorUnnoticed(p) ==
    /\ faults < MaxFaults
    /\ step[p] \in {"list", "write"}
    /\ step' = [step EXCEPT ![p] = "store"]
    /\ faults' = faults + 1
    /\ UNCHANGED <<stored, access, seen, minted, revoked, live, disturbed>>

\* The driver fails and has done nothing.
DbError(p) ==
    /\ faults < MaxFaults
    /\ step[p] \in {"list", "write"}
    /\ step' = [step EXCEPT ![p] = "failed"]
    /\ faults' = faults + 1
    /\ UNCHANGED <<stored, access, seen, minted, revoked, live, disturbed>>

\* The driver reports an error although the statement was executed: the
\* connection broke, or the request's context ended, before the answer came.
DbAnswerLost(p) ==
    /\ faults < MaxFaults
    /\ step[p] = "write"
    /\ \E list \in Marshalled(p) : Applied(p, list)
    /\ step' = [step EXCEPT ![p] = "failed"]
    /\ disturbed' = TRUE
    /\ faults' = faults + 1
    /\ UNCHANGED <<cache, access, minted, revoked>>

\* The entry expires (10 minutes), or is among the oldest of a full cache, or
\* is looked up between the Delete and the Store of SetWithTTL.
Evict ==
    /\ cache # {}
    /\ cache' = {}
    /\ UNCHANGED <<row, step, access, seen, settingHistory>>

\* The server dies with all its goroutines; the table stays.
Crash ==
    /\ faults < MaxFaults
    /\ cache' = {}
    /\ step' = [p \in Procs |-> "idle"]
    /\ faults' = faults + 1
    /\ UNCHANGED <<row, access, seen, minted, revoked, live, disturbed>>

AccessNext(p) ==
    \/ Lookup(p) \/ List(p) \/ Fill(p) \/ Write(p) \/ Store(p)
    \/ DbError(p) \/ DbAnswerLost(p)

Next ==
    \/ Evict \/ Crash
    \/ \E p \in Procs : AccessNext(p)
    \/ \E p \in Procs, op \in Ops, t \in Tokens : Start(p, op, t)

Spec == Init /\ [][Next]_settingVars

-----------------------------------------------------------------------------
AtMostOne(S) == \A x, y \in S : x = y

TypeOK ==
    /\ row \subseteq SUBSET Tokens /\ AtMostOne(row)
    /\ cache \subseteq SUBSET Tokens /\ AtMostOne(cache)
    /\ step \in [Procs -> Steps]
    /\ access \in [Procs -> Accesses]
    /\ seen \in [Procs -> SUBSET Tokens]
    /\ minted \subseteq Tokens
    /\ revoked \subseteq Tokens
    /\ live \subseteq Tokens
    /\ disturbed \in BOOLEAN
    /\ faults \in 0 .. MaxFaults

\* As long as no write overlapped another access, the unlocked
\* read-modify-write cycle is as good as an atomic one: the row holds what the
\* accesses that took effect amount to, through evictions, failures and crashes.
NothingLost == ~disturbed => Contents = live

\* ... and the cache then agrees with the row, except while a writer stands
\* between its database write and its cache write.
CacheCoherent ==
    ~disturbed /\ cache # {} =>
        cache = row \/ \E p \in Procs : step[p] = "store"

\* A token whose removal was reported to succeed stays removed, whatever later
\* accesses read from the cache.
RevokedStaysRevoked == ~disturbed => revoked \cap Contents = {}

(***************************************************************************)
(* The inductive invariant behind them: accesses under way exclude each    *)
(* other, so a writer about to write has seen the very list it replaces,   *)
(* and a reader about to fill the cache holds what the row still holds.    *)
(***************************************************************************)
Exclusive ==
    \A p, q \in Procs :
        p # q /\ Busy(p) /\ Busy(q) => access[p].op = "read" /\ access[q].op = "read"

UpToDate(p) ==
    /\ step[p] \in {"fill", "refill"} => row = {seen[p]}
    /\ step[p] = "write" => seen[p] = Contents /\ access[p].op # "read"
    /\ step[p] = "store" =>
          /\ row = {seen[p]} /\ access[p].op # "read"
          /\ access[p].op = "remove" => access[p].token \notin seen[p]
    /\ Busy(p) /\ access[p].op = "add" => access[p].token \notin revoked

MintedFirst ==
    /\ revoked \subseteq minted
    /\ \A p \in Procs : Busy(p) => access[p].token \in minted

SettingInv ==
    /\ MintedFirst
    /\ ~disturbed => Exclusive /\ \A p \in Procs : UpToDate(p)
    /\ NothingLost
    /\ CacheCoherent
    /\ RevokedStaysRevoked

(***************************************************************************)
(* The row and its cache as one list.  An access takes effect when it      *)
(* replaces the row, or when it has been handed the list for good.         *)
(***************************************************************************)
AtomicStatus(p) ==
    IF step[p] = "store" THEN "applied"
                         ELSE IF Busy(p) THEN "asked" ELSE step[p]

AtomicAnswer(p) ==
    IF step[p] = "ok" /\ access[p].op = "read" THEN seen[p] ELSE {}

AtomicList == INSTANCE TokenList WITH
    list <- Contents,
    status <- [p \in Procs |-> AtomicStatus(p)],
    request <- access,
    answer <- [p \in Procs |-> AtomicAnswer(p)]

\* As long as nothing overlaps and every error is one, the row acts as a list
\* that each access reads or changes in one step: nobody can tell the row, its
\* cache and the unlocked steps of GetUserSetting and UpsertUserSetting from
\* it, through evictions, failures and crashes.
ActsAtomically ==
    /\ AtomicList!Init
    /\ [][~disturbed' => AtomicList!Next \/ UNCHANGED AtomicList!listVars]_settingVars

\* The behaviours in which that is so for good.
UndisturbedSpec == Init /\ [][Next /\ ~disturbed']_settingVars
=============================================================================
