------------------------------- MODULE SSEHub -------------------------------
(***************************************************************************)
(* The live-refresh hub of server/router/api/v1/sse_hub.go together with   *)
(* the HTTP handler that serves one connection (sse_handler.go).           *)
(*                                                                         *)
(* Every connection runs handleSSE in a goroutine of its own and is named  *)
(* by the client it subscribes; every event is broadcast once, by the      *)
(* goroutine of the request that caused it.  The mutex of the hub is not a *)
(* variable: Broadcast holds it for reading while its state is "sending",  *)
(* Close holds it for writing while `closing`, and the operations that     *)
(* hold it for one step only require that nobody holds it.                 *)
(***************************************************************************)
EXTENDS Naturals, Sequences, FiniteSets

CONSTANTS
    Clients,        \* the connections; each one subscribes at most once
    Events,         \* the events; each one is broadcast at most once
    UserOf,         \* UserOf[c]: user id captured when c connected
    RoleOf,         \* RoleOf[c]: role captured when c connected
    VisibilityOf,   \* VisibilityOf[e]: SSEEvent.Visibility
    CreatorOf,      \* CreatorOf[e]: SSEEvent.CreatorID
    BufferCap       \* capacity of a client's channel (32 in the code)

Visibilities == {"PRIVATE", "PROTECTED", "PUBLIC", "", "UNKNOWN"}

ASSUME HubAssumption ==
    /\ BufferCap \in Nat \ {0}
    /\ RoleOf \in [Clients -> {"USER", "ADMIN"}]
    /\ VisibilityOf \in [Events -> Visibilities]

VARIABLES
    clients,    \* h.clients
    closed,     \* h.closed
    closing,    \* Close is iterating over the clients, with the lock held
    chan,       \* chan[c]: "nil" before Subscribe, then "open", then "closed"
    buf,        \* buf[c]: what the channel of c holds
    hstate,     \* hstate[c]: where the handler of c stands
    conn,       \* conn[c]: whether the peer of c is still there
    bstate,     \* bstate[e]: where the broadcast of e stands
    btodo,      \* btodo[e]: the clients its loop has still to visit
    audience,   \* history: the clients registered when e was broadcast
    got,        \* history: what the handler of c took from its channel
    dropped,    \* history: the events dropped because the buffer was full
    panic       \* history: a send on, or a close of, a closed channel

hubVars == <<clients, closed, closing, chan, buf>>
bcVars  == <<bstate, btodo, audience>>
histVars == <<got, dropped, panic>>
vars == <<clients, closed, closing, chan, buf, hstate, conn,
          bstate, btodo, audience, got, dropped, panic>>

HandlerStates == {"new", "writing", "running", "leaving", "done"}

Init ==
    /\ clients = {}
    /\ closed = FALSE
    /\ closing = FALSE
    /\ chan = [c \in Clients |-> "nil"]
    /\ buf = [c \in Clients |-> <<>>]
    /\ hstate = [c \in Clients |-> "new"]
    /\ conn = [c \in Clients |-> "up"]
    /\ bstate = [e \in Events |-> "idle"]
    /\ btodo = [e \in Events |-> {}]
    /\ audience = [e \in Events |-> {}]
    /\ got = [c \in Clients |-> <<>>]
    /\ dropped = [c \in Clients |-> {}]
    /\ panic = FALSE

(***************************************************************************)
(* The read-write mutex: h.mu.Lock needs it free, h.mu.RLock only needs    *)
(* that no writer holds it.                                                *)
(***************************************************************************)
CanRLock == ~closing
CanLock  == CanRLock /\ \A e \in Events : bstate[e] # "sending"

\* close(c.events): closing a channel that is not open panics
CloseChannel(c) ==
    /\ chan' = [chan EXCEPT ![c] = "closed"]
    /\ panic' = (panic \/ chan[c] # "open")

\* Mutation of Subscribe: without the test of h.closed a late request
\* registers with a hub that will never be closed again.
SubscribeAlways(c) ==
    /\ hstate[c] = "new"
    /\ CanLock
    /\ chan' = [chan EXCEPT ![c] = "open"]
    /\ clients' = clients \cup {c}
    /\ hstate' = [hstate EXCEPT ![c] = "writing"]
    /\ UNCHANGED <<closed, closing, buf, conn, bcVars, histVars>>

\* Subscribe: a hub that is already closed hands out a closed channel.
\* handleSSE then writes its initial comment.
Subscribe(c) ==
    /\ hstate[c] = "new"
    /\ CanLock
    /\ IF closed
         THEN /\ chan' = [chan EXCEPT ![c] = "closed"]
              /\ UNCHANGED clients
         ELSE /\ chan' = [chan EXCEPT ![c] = "open"]
              /\ clients' = clients \cup {c}
    /\ hstate' = [hstate EXCEPT ![c] = "writing"]
    /\ UNCHANGED <<closed, closing, buf, conn, bcVars, histVars>>

\* Mutation of Unsubscribe: without the membership test it closes a channel
\* that Close has closed.
UnsubscribeUnchecked(c) ==
    /\ hstate[c] = "leaving"
    /\ CanLock
    /\ clients' = clients \ {c}
    /\ CloseChannel(c)
    /\ hstate' = [hstate EXCEPT ![c] = "done"]
    /\ UNCHANGED <<closed, closing, buf, conn, bcVars, got, dropped>>

\* Mutation of Unsubscribe: the lock is not taken, so that a client leaves in
\* the middle of a broadcast.
UnsubscribeUnlocked(c) ==
    /\ hstate[c] = "leaving"
    /\ IF c \in clients
         THEN clients' = clients \ {c} /\ CloseChannel(c)
         ELSE UNCHANGED <<clients, chan, panic>>
    /\ hstate' = [hstate EXCEPT ![c] = "done"]
    /\ UNCHANGED <<closed, closing, buf, conn, bcVars, got, dropped>>

\* Unsubscribe, deferred by the handler: a client that Close has already
\* removed is left alone.
Unsubscribe(c) ==
    /\ hstate[c] = "leaving"
    /\ CanLock
    /\ IF c \in clients
         THEN clients' = clients \ {c} /\ CloseChannel(c)
         ELSE UNCHANGED <<clients, chan, panic>>
    /\ hstate' = [hstate EXCEPT ![c] = "done"]
    /\ UNCHANGED <<closed, closing, buf, conn, bcVars, got, dropped>>

(***************************************************************************)
(* Close: the loop over the clients is one step per client, because the    *)
(* handlers receive from their channels without the lock.                  *)
(***************************************************************************)
CloseBegin ==
    /\ CanLock
    /\ ~closed
    /\ closed' = TRUE
    /\ closing' = TRUE
    /\ UNCHANGED <<clients, chan, buf, hstate, conn, bcVars, histVars>>


\* Mutation of CloseOne: the client is forgotten with its channel left open.
CloseOneSilently(c) ==
    /\ closing
    /\ c \in clients
    /\ clients' = clients \ {c}
    /\ UNCHANGED <<closed, closing, chan, buf, hstate, conn, bcVars, histVars>>

CloseOne(c) ==
    /\ closing
    /\ c \in clients
    /\ clients' = clients \ {c}
    /\ CloseChannel(c)
    /\ UNCHANGED <<closed, closing, buf, hstate, conn, bcVars, got, dropped>>

CloseEnd ==
    /\ closing
    /\ clients = {}
    /\ closing' = FALSE
    /\ UNCHANGED <<clients, closed, chan, buf, hstate, conn, bcVars, histVars>>

(***************************************************************************)
(* Broadcast: under the read lock, a non-blocking send to every client     *)
(* that may see the event.  Several broadcasts can be under way at once.   *)
(***************************************************************************)

\* Mutation of CanReceive: an unknown visibility is let through.
CanReceiveByDefault(c, e) ==
    VisibilityOf[e] = "PRIVATE" => UserOf[c] = CreatorOf[e] \/ RoleOf[c] = "ADMIN"

CanReceive(c, e) ==
    CASE VisibilityOf[e] = "PRIVATE" ->
             UserOf[c] = CreatorOf[e] \/ RoleOf[c] = "ADMIN"
      [] VisibilityOf[e] \in {"PUBLIC", "PROTECTED", ""} -> TRUE
      [] OTHER -> FALSE

BroadcastBegin(e) ==
    /\ bstate[e] = "idle"
    /\ CanRLock
    /\ bstate' = [bstate EXCEPT ![e] = "sending"]
    /\ btodo' = [btodo EXCEPT ![e] = clients]
    /\ audience' = [audience EXCEPT ![e] = clients]
    /\ UNCHANGED <<hubVars, hstate, conn, histVars>>

\* Mutation of HasRoom: off by one.
HasRoomAndOneMore(c) == Len(buf[c]) <= BufferCap

\* the select: its send is ready if the channel has room
HasRoom(c) == Len(buf[c]) < BufferCap

\* Mutation of BroadcastOne: a send without a default case waits for room.
BroadcastOneWaiting(e, c) ==
    /\ bstate[e] = "sending"
    /\ c \in btodo[e]
    /\ btodo' = [btodo EXCEPT ![e] = @ \ {c}]
    /\ IF ~CanReceive(c, e)
         THEN UNCHANGED <<buf, panic>>
         ELSE /\ HasRoom(c)
              /\ panic' = (panic \/ chan[c] # "open")
              /\ buf' = [buf EXCEPT ![c] = Append(@, e)]
    /\ UNCHANGED <<clients, closed, closing, chan, hstate, conn,
                   bstate, audience, got, dropped>>

BroadcastOne(e, c) ==
    /\ bstate[e] = "sending"
    /\ c \in btodo[e]
    /\ btodo' = [btodo EXCEPT ![e] = @ \ {c}]
    /\ IF ~CanReceive(c, e)
         THEN UNCHANGED <<buf, dropped, panic>>
         ELSE /\ panic' = (panic \/ chan[c] # "open")
              /\ IF HasRoom(c)
                   THEN /\ buf' = [buf EXCEPT ![c] = Append(@, e)]
                        /\ UNCHANGED dropped
                   ELSE /\ dropped' = [dropped EXCEPT ![c] = @ \cup {e}]
                        /\ UNCHANGED buf
    /\ UNCHANGED <<clients, closed, closing, chan, hstate, conn,
                   bstate, audience, got>>

BroadcastEnd(e) ==
    /\ bstate[e] = "sending"
    /\ btodo[e] = {}
    /\ bstate' = [bstate EXCEPT ![e] = "done"]
    /\ UNCHANGED <<hubVars, hstate, conn, btodo, audience, histVars>>

(***************************************************************************)
(* handleSSE.  "writing" is a write to the response in progress (the       *)
(* initial comment, an event or a heartbeat): it blocks for as long as the *)
(* peer neither reads nor goes away.                                       *)
(***************************************************************************)
Handler(c, from, to) ==
    /\ hstate[c] = from
    /\ hstate' = [hstate EXCEPT ![c] = to]

\* a request that fails authentication is answered before it subscribes
Reject(c) ==
    /\ Handler(c, "new", "done")
    /\ UNCHANGED <<hubVars, conn, bcVars, histVars>>

\* the write ends, if only in a socket buffer
WriteOk(c) ==
    /\ Handler(c, "writing", "running")
    /\ UNCHANGED <<hubVars, conn, bcVars, histVars>>

WriteFail(c) ==
    /\ Handler(c, "writing", "leaving")
    /\ conn[c] = "down"
    /\ UNCHANGED <<hubVars, conn, bcVars, histVars>>

\* a closed channel still yields what it buffered
Receive(c) ==
    /\ Handler(c, "running", "writing")
    /\ buf[c] # <<>>
    /\ buf' = [buf EXCEPT ![c] = Tail(@)]
    /\ got' = [got EXCEPT ![c] = Append(@, Head(buf[c]))]
    /\ UNCHANGED <<clients, closed, closing, chan, conn, bcVars, dropped, panic>>

ObserveClosed(c) ==
    /\ Handler(c, "running", "leaving")
    /\ chan[c] = "closed"
    /\ buf[c] = <<>>
    /\ UNCHANGED <<hubVars, conn, bcVars, histVars>>

Heartbeat(c) ==
    /\ Handler(c, "running", "writing")
    /\ UNCHANGED <<hubVars, conn, bcVars, histVars>>

\* ctx.Done: net/http cancels the request's context when the peer is gone
ContextDone(c) ==
    /\ Handler(c, "running", "leaving")
    /\ conn[c] = "down"
    /\ UNCHANGED <<hubVars, conn, bcVars, histVars>>

\* the peer goes away
Disconnect(c) ==
    /\ conn[c] = "up"
    /\ conn' = [conn EXCEPT ![c] = "down"]
    /\ UNCHANGED <<hubVars, hstate, bcVars, histVars>>

-----------------------------------------------------------------------------
ClientNext(c) ==
    \/ Subscribe(c) \/ Unsubscribe(c) \/ CloseOne(c)
    \/ Reject(c) \/ WriteOk(c) \/ WriteFail(c) \/ Receive(c)
    \/ ObserveClosed(c) \/ Heartbeat(c) \/ ContextDone(c) \/ Disconnect(c)

EventNext(e) ==
    \/ BroadcastBegin(e) \/ BroadcastEnd(e)
    \/ \E c \in Clients : BroadcastOne(e, c)

Next ==
    \/ CloseBegin \/ CloseEnd
    \/ \E c \in Clients : ClientNext(c)
    \/ \E e \in Events : EventNext(e)

Spec == Init /\ [][Next]_vars

(***************************************************************************)
(* Fairness: the Go scheduler runs every goroutine that can run, and its   *)
(* select picks among the ready cases at random, hence strong fairness for *)
(* the cases a heartbeat can keep pre-empting.  Nothing obliges a peer to  *)
(* read (WriteOk), to go away (Disconnect) or to connect (Subscribe).      *)
(***************************************************************************)
HandlerFairness(c) ==
    /\ WF_vars(WriteFail(c))
    /\ SF_vars(Receive(c))
    /\ SF_vars(ObserveClosed(c))
    /\ SF_vars(ContextDone(c))
    /\ SF_vars(Unsubscribe(c))

Fairness ==
    /\ WF_vars(CloseEnd)
    /\ \A c \in Clients : HandlerFairness(c) /\ WF_vars(CloseOne(c))
    /\ \A e \in Events : WF_vars(BroadcastEnd(e))
    /\ \A e \in Events, c \in Clients : WF_vars(BroadcastOne(e, c))

FairSpec == Spec /\ Fairness

-----------------------------------------------------------------------------
TypeOK ==
    /\ clients \subseteq Clients
    /\ closed \in BOOLEAN
    /\ closing \in BOOLEAN
    /\ chan \in [Clients -> {"nil", "open", "closed"}]
    /\ buf \in [Clients -> Seq(Events)]
    /\ \A c \in Clients : Len(buf[c]) <= BufferCap
    /\ hstate \in [Clients -> HandlerStates]
    /\ conn \in [Clients -> {"up", "down"}]
    /\ bstate \in [Events -> {"idle", "sending", "done"}]
    /\ btodo \in [Events -> SUBSET Clients]
    /\ audience \in [Events -> SUBSET Clients]
    /\ got \in [Clients -> Seq(Events)]
    /\ dropped \in [Clients -> SUBSET Events]
    /\ panic \in BOOLEAN

\* What the channel of c has taken in so far, oldest first.
Queued(c) == got[c] \o buf[c]
Elements(s) == {s[i] : i \in DOMAIN s}

\* Subscribe, Unsubscribe, Close and Broadcast interleave at will, and two of
\* them close channels while a third sends on them: nothing is ever sent on a
\* closed channel and no channel is closed twice (either would panic).
NoPanic == ~panic

\* A channel is open exactly as long as its client is registered, and a
\* broadcast under way only has registered clients left to visit: the reason
\* why NoPanic holds.
OpenIffRegistered ==
    /\ \A c \in Clients : c \in clients <=> chan[c] = "open"
    /\ \A e \in Events : bstate[e] = "sending" => btodo[e] \subseteq clients
    /\ closing => \A e \in Events : bstate[e] # "sending"

\* Once Close has returned no client is registered, and none ever will be,
\* whatever request was still on its way to Subscribe.
NoClientAfterClose == closed /\ ~closing => clients = {}

\* What a finished broadcast has done, against who was registered when it took
\* the lock: each of them that may see the event was offered it exactly once,
\* and nobody else has it.  A private event is for its creator and for
\* administrators, an event of unknown visibility for nobody.  A client loses an
\* event only to its own slowness: before the first loss its channel was filled.
MaySee(c, e) ==
    /\ VisibilityOf[e] # "UNKNOWN"
    /\ VisibilityOf[e] = "PRIVATE" =>
           RoleOf[c] = "ADMIN" \/ UserOf[c] = CreatorOf[e]

DeliveredToAudience ==
    /\ \A e \in Events, c \in Clients :
           LET copies == {i \in DOMAIN Queued(c) : Queued(c)[i] = e}
           IN  /\ copies # {} \/ e \in dropped[c] => MaySee(c, e) /\ c \in audience[e]
               /\ bstate[e] = "done" /\ c \in audience[e] /\ MaySee(c, e) =>
                      IF e \in dropped[c] THEN copies = {}
                                          ELSE Cardinality(copies) = 1
    /\ \A c \in Clients : dropped[c] # {} => Len(Queued(c)) >= BufferCap

\* Broadcast never waits for a slow client: it ends with no fairness at all
\* for the handlers' writes.
BroadcastTerminates ==
    \A e \in Events : bstate[e] = "sending" ~> bstate[e] = "done"

\* Close disconnects everybody: afterwards the only handlers that have not
\* ended are those a stalled peer holds in a write.
HandlersEnd ==
    \A c \in Clients :
        <>[](closed => \/ hstate[c] \in {"new", "done"}
                       \/ hstate[c] = "writing" /\ conn[c] = "up")

(***************************************************************************)
(* The hub as a feed per client: a client's feed is what its channel ever  *)
(* took in, and the loop of a broadcast still owes the event to the        *)
(* clients it has to visit, those excepted that may not see it.            *)
(***************************************************************************)
Due(e) == IF bstate[e] = "sending" THEN {c \in btodo[e] : MaySee(c, e)} ELSE {}

Feed == INSTANCE LiveFeed WITH
    Entitled <- [e \in Events |-> {c \in Clients : MaySee(c, e)}],
    Capacity <- BufferCap,
    members <- clients,
    ended <- closed,
    published <- {e \in Events : bstate[e] # "idle"},
    due <- [e \in Events |-> Due(e)],
    feed <- [c \in Clients |-> Queued(c)],
    taken <- [c \in Clients |-> Len(got[c])],
    lost <- dropped

\* Whatever the handlers, broadcasts and Close do at the same time, a client
\* sees a feed: events only grow it at its end, at most once each, all of those
\* published while it is connected that it may see, and nobody leaves or is sent
\* away while an event is owed to him.
ServesFeeds == Feed!Spec
=============================================================================
