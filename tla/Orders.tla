------------------------------- MODULE Orders -------------------------------
(***************************************************************************)
(* Sequences by rank: the n-th of a set is the one that n of them do not   *)
(* come after.  Nothing here recurses, so that what is said of every       *)
(* sequence can be proved.                                                 *)
(***************************************************************************)
EXTENDS Naturals, Sequences, FiniteSets

\* The numbers of S, the least first
InOrder(S) ==
    [n \in 1..Cardinality(S) |-> CHOOSE i \in S : Cardinality({k \in S : k <= i}) = n]

\* The elements of s at the positions in S, as a filter leaves them
Chosen(s, S) ==
    LET at == InOrder(S) IN [n \in DOMAIN at |-> s[at[n]]]

\* Sequences, one after another
Places(s) == UNION {{<<k, m>> : m \in DOMAIN s[k]} : k \in DOMAIN s}

UpToPlace(s, p) == {q \in Places(s) : q[1] < p[1] \/ (q[1] = p[1] /\ q[2] <= p[2])}

Concatenated(s) ==
    LET nth(n) == CHOOSE p \in Places(s) : Cardinality(UpToPlace(s, p)) = n
    IN  [n \in 1..Cardinality(Places(s)) |-> s[nth(n)[1]][nth(n)[2]]]
=============================================================================
