------------------------------ MODULE LiveFeed ------------------------------
(***************************************************************************)
(* What the live refresh promises its clients: a feed for each of them, to *)
(* which every published event goes that the client may see, once, in the  *)
(* order of its own feed, unless the client lags behind by as much as the  *)
(* server keeps for it.  There are no channels, locks or handlers here;    *)
(* SSEHub implements it.                                                   *)
(***************************************************************************)
EXTENDS Naturals, Sequences

CONSTANTS
    Clients,    \* the clients
    Events,     \* the events; each one is published at most once
    Entitled,   \* Entitled[e]: the clients that may see e
    Capacity    \* how many events the server keeps for a client

VARIABLES
    members,    \* the clients that are connected
    ended,      \* whether the server has begun to shut down
    published,  \* the events that were published
    due,        \* due[e]: the members that are still to be offered e
    feed,       \* feed[c]: what c was ever sent, oldest first
    taken,      \* taken[c]: how much of its feed c has taken
    lost        \* lost[c]: the events that c was too slow for

feedVars == <<members, ended, published, due, feed, taken, lost>>

Init ==
    /\ members = {}
    /\ ended = FALSE
    /\ published = {}
    /\ due = [e \in Events |-> {}]
    /\ feed = [c \in Clients |-> <<>>]
    /\ taken = [c \in Clients |-> 0]
    /\ lost = [c \in Clients |-> {}]

\* Nobody connects any more once the server shuts down.
Join(c) ==
    /\ ~ended
    /\ members' = members \cup {c}
    /\ UNCHANGED <<ended, published, due, feed, taken, lost>>

\* A client goes, or is sent away, owed nothing.
Leave(c) ==
    /\ c \in members
    /\ \A e \in Events : c \notin due[e]
    /\ members' = members \ {c}
    /\ UNCHANGED <<ended, published, due, feed, taken, lost>>

\* An event is for those who are connected now and may see it.
Publish(e) ==
    /\ e \notin published
    /\ published' = published \cup {e}
    /\ due' = [due EXCEPT ![e] = members \cap Entitled[e]]
    /\ UNCHANGED <<members, ended, feed, taken, lost>>

Backlog(c) == Len(feed[c]) - taken[c]

\* Each of them, and only they, is offered it, while still connected.
Offer(e, c) ==
    /\ c \in due[e] \cap members
    /\ due' = [due EXCEPT ![e] = @ \ {c}]
    /\ \/ /\ Backlog(c) < Capacity
          /\ feed' = [feed EXCEPT ![c] = Append(@, e)]
          /\ UNCHANGED lost
       \/ /\ Backlog(c) = Capacity
          /\ lost' = [lost EXCEPT ![c] = @ \cup {e}]
          /\ UNCHANGED feed
    /\ UNCHANGED <<members, ended, published, taken>>

\* A client reads on, even after it was sent away.
Take(c) ==
    /\ taken[c] < Len(feed[c])
    /\ taken' = [taken EXCEPT ![c] = @ + 1]
    /\ UNCHANGED <<members, ended, published, due, feed, lost>>

\* The server shuts down when nobody is owed an event.
End ==
    /\ ~ended
    /\ \A e \in Events : due[e] = {}
    /\ ended' = TRUE
    /\ UNCHANGED <<members, published, due, feed, taken, lost>>

Next ==
    \/ End
    \/ \E c \in Clients : Join(c) \/ Leave(c) \/ Take(c)
    \/ \E e \in Events : Publish(e) \/ \E c \in Clients : Offer(e, c)

Spec == Init /\ [][Next]_feedVars
=============================================================================
