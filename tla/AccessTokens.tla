---------------------------- MODULE AccessTokens ----------------------------
(***************************************************************************)
(* Personal access tokens of one user: CreatePersonalAccessToken and       *)
(* DeletePersonalAccessToken of server/router/api/v1/user_service.go, and  *)
(* Authenticate of server/auth/authenticator.go, which looks a token up in *)
(* the table itself and then lets a goroutine of its own record the use.   *)
(* The token a request creates goes by the name of the request.            *)
(***************************************************************************)
EXTENDS Naturals, FiniteSets

CONSTANTS
    Requests,   \* the requests, each served once
    Existing,   \* the tokens that exist when the model starts
    MaxFaults   \* bound: database errors and crashes in a behaviour

ASSUME TokenAssumption ==
    /\ Requests \cap Existing = {} /\ Requests \cup Existing # {}
    /\ MaxFaults \in Nat

VARIABLES
    row, cache, step, access, seen, minted, revoked, live, disturbed, faults,
    hstate,     \* hstate[p]: where request p, or its goroutine, stands
    issued,     \* history: the tokens users have been given
    deleted     \* history: the tokens whose deletion was asked for

Tokens == Requests \cup Existing

Setting == INSTANCE UserSetting
             WITH Procs <- Requests, InitialTokens <- Existing

rowVars == <<row, cache, step, access, seen, minted, revoked, live,
             disturbed, faults>>
vars == <<row, cache, step, access, seen, minted, revoked, live,
          disturbed, faults, hstate, issued, deleted>>

HandlerStates == {"new", "create", "delete", "accepted", "recordUse", "done"}

Init ==
    /\ Setting!Init
    /\ hstate = [p \in Requests |-> "new"]
    /\ issued = Existing
    /\ deleted = {}

Goto(p, from, to) ==
    /\ hstate[p] = from
    /\ hstate' = [hstate EXCEPT ![p] = to]

Create(p) ==
    /\ Goto(p, "new", "create")
    /\ Setting!Start(p, "add", p)
    /\ UNCHANGED <<issued, deleted>>

\* Mutation of CreateAnswer: the token is shown although storing it failed.
CreateAnswerAlways(p) ==
    /\ Goto(p, "create", "done")
    /\ step[p] \in {"ok", "failed"}
    /\ issued' = issued \cup {p}
    /\ UNCHANGED <<rowVars, deleted>>

\* the token is shown once, if it was stored
CreateAnswer(p) ==
    /\ Goto(p, "create", "done")
    /\ step[p] \in {"ok", "failed"}
    /\ issued' = issued \cup (IF step[p] = "ok" THEN {p} ELSE {})
    /\ UNCHANGED <<rowVars, deleted>>

\* Mutation of Delete: a token is deleted before anybody was told of it.
DeleteUnissued(p, t) ==
    /\ Goto(p, "new", "delete")
    /\ Setting!Start(p, "remove", t)
    /\ deleted' = deleted \cup {t}
    /\ UNCHANGED issued

Delete(p, t) ==
    /\ t \in issued
    /\ Goto(p, "new", "delete")
    /\ Setting!Start(p, "remove", t)
    /\ deleted' = deleted \cup {t}
    /\ UNCHANGED issued

DeleteAnswer(p) ==
    /\ Goto(p, "delete", "done")
    /\ step[p] \in {"ok", "failed"}
    /\ UNCHANGED <<rowVars, issued, deleted>>

\* GetUserByPATHash asks the table, not the cache.
Accept(p) ==
    /\ Setting!Contents # {}
    /\ Goto(p, "new", "accepted")
    /\ UNCHANGED <<rowVars, issued, deleted>>

\* The request goes its way, and UpdatePATLastUsed runs in a goroutine of its
\* own.  Whose use it records makes no difference to the list it writes back.
RecordUse(p, t) ==
    /\ Goto(p, "accepted", "recordUse")
    /\ Setting!Start(p, "touch", t)
    /\ UNCHANGED <<issued, deleted>>

UseRecorded(p) ==
    /\ Goto(p, "recordUse", "done")
    /\ step[p] \in {"ok", "failed"}
    /\ UNCHANGED <<rowVars, issued, deleted>>

\* The store goes on serving p's call.
StoreStep(p) ==
    /\ Setting!AccessNext(p)
    /\ UNCHANGED <<hstate, issued, deleted>>

Evict ==
    /\ Setting!Evict
    /\ UNCHANGED <<hstate, issued, deleted>>

Crash ==
    /\ Setting!Crash
    /\ hstate' = [p \in Requests |-> IF hstate[p] = "new" THEN "new" ELSE "done"]
    /\ UNCHANGED <<issued, deleted>>

RequestNext(p) ==
    \/ Create(p) \/ CreateAnswer(p) \/ DeleteAnswer(p)
    \/ Accept(p) \/ UseRecorded(p) \/ StoreStep(p)
    \/ \E t \in Tokens : Delete(p, t) \/ RecordUse(p, t)

Next == Evict \/ Crash \/ \E p \in Requests : RequestNext(p)

Spec == Init /\ [][Next]_vars

-----------------------------------------------------------------------------
TypeOK ==
    /\ Setting!TypeOK
    /\ hstate \in [Requests -> HandlerStates]
    /\ issued \subseteq Tokens
    /\ deleted \subseteq issued

\* Recording uses never costs anybody a token: one that was shown to its user,
\* and that he has not asked to delete, is accepted.
IssuedIsAccepted ==
    ~disturbed => issued \ deleted \subseteq Setting!Contents

\* A token whose deletion has succeeded is not accepted any more, nor is it
\* brought back by recording the use of this or another token.
DeletedIsRefused == ~disturbed => revoked \cap Setting!Contents = {}

\* "Immediately invalidates the token (subsequent API calls with it will
\* fail)", in the words of DeletePersonalAccessToken: without the proviso that
\* nobody accessed the row at the same time.
DeletedAtOnce == revoked \cap Setting!Contents = {}
=============================================================================
