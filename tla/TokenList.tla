----------------------------- MODULE TokenList -----------------------------
(***************************************************************************)
(* What the callers of store/user_setting.go take a list of tokens for: a  *)
(* single list without a cache, that every access reads or changes in one  *)
(* step between its call and its return.  UserSetting implements it as     *)
(* long as no write overlaps another access.                               *)
(***************************************************************************)
CONSTANTS
    Procs,          \* the goroutines that access the list
    Tokens,         \* token ids
    InitialTokens   \* the list when the model starts

VARIABLES
    list,       \* the list
    status,     \* status[p]: where the access of p stands
    request,    \* request[p]: the access, [op, token]
    answer      \* answer[p]: the list that a read of p returned

listVars == <<list, status, request, answer>>

Calls == [op : {"read", "add", "remove", "touch"}, token : Tokens]
Pending(p) == status[p] \in {"asked", "applied"}

Init ==
    /\ list = InitialTokens
    /\ status = [p \in Procs |-> "idle"]
    /\ request \in [Procs -> Calls]
    /\ answer = [p \in Procs |-> {}]

\* The call: the answer to an earlier one is forgotten.
Ask(p, r) ==
    /\ ~Pending(p)
    /\ status' = [status EXCEPT ![p] = "asked"]
    /\ request' = [request EXCEPT ![p] = r]
    /\ answer' = [answer EXCEPT ![p] = {}]
    /\ UNCHANGED list

\* A writer takes effect, on the list as it is now.
Apply(p) ==
    /\ status[p] = "asked"
    /\ request[p].op # "read"
    /\ list' = CASE request[p].op = "add" -> list \cup {request[p].token}
                 [] request[p].op = "remove" -> list \ {request[p].token}
                 [] OTHER -> list
    /\ status' = [status EXCEPT ![p] = "applied"]
    /\ UNCHANGED <<request, answer>>

\* A writer returns success only after it took effect ...
Confirm(p) ==
    /\ status[p] = "applied"
    /\ status' = [status EXCEPT ![p] = "ok"]
    /\ UNCHANGED <<list, request, answer>>

\* ... a reader returns the list as it is now, and not an older one
Return(p) ==
    /\ status[p] = "asked"
    /\ request[p].op = "read"
    /\ status' = [status EXCEPT ![p] = "ok"]
    /\ answer' = [answer EXCEPT ![p] = list]
    /\ UNCHANGED <<list, request>>

\* An access that returns an error has not taken effect.
Fail(p) ==
    /\ status[p] = "asked"
    /\ status' = [status EXCEPT ![p] = "failed"]
    /\ UNCHANGED <<list, request, answer>>

\* A crash ends every access, wherever it stands, and keeps the list.
Crash ==
    /\ status' = [p \in Procs |-> "idle"]
    /\ answer' = [p \in Procs |-> {}]
    /\ UNCHANGED <<list, request>>

Next ==
    \/ Crash
    \/ \E p \in Procs : Apply(p) \/ Confirm(p) \/ Return(p) \/ Fail(p)
    \/ \E p \in Procs, r \in Calls : Ask(p, r)

Spec == Init /\ [][Next]_listVars
=============================================================================
