--------------------------- MODULE SSEHub_proofs ---------------------------
(***************************************************************************)
(* What SSEHub promises for every set of connections and events and every  *)
(* channel capacity: its types, that no channel is sent on or closed after *)
(* it was closed, that a closed hub stays empty, and that each event is    *)
(* offered once to every client that may see it and to nobody else.        *)
(***************************************************************************)
EXTENDS SSEHub, FiniteSetTheorems, TLAPS

USE DEF hubVars, bcVars, histVars, vars, CloseChannel, Handler, HasRoom

\* The type invariant holds in every state of the hub and its handlers.
THEOREM TypeCorrect == Spec => []TypeOK
<1> USE DEF TypeOK, HandlerStates
<1>0. BufferCap \in Nat
  BY HubAssumption
<1>1. Init => TypeOK
  <2> SUFFICES ASSUME Init PROVE TypeOK
    OBVIOUS
  <2>1. <<>> \in Seq(Events) /\ Len(<<>>) = 0
    OBVIOUS
  <2>2. buf \in [Clients -> Seq(Events)] /\ got \in [Clients -> Seq(Events)]
    BY <2>1 DEF Init
  <2>3. \A c \in Clients : Len(buf[c]) <= BufferCap
    BY <1>0, <2>1 DEF Init
  <2>4. dropped \in [Clients -> SUBSET Events] /\ panic \in BOOLEAN
    BY DEF Init
  <2>5. /\ btodo \in [Events -> SUBSET Clients]
        /\ audience \in [Events -> SUBSET Clients]
        /\ bstate \in [Events -> {"idle", "sending", "done"}]
    BY DEF Init
  <2>6. /\ chan \in [Clients -> {"nil", "open", "closed"}]
        /\ hstate \in [Clients -> HandlerStates]
        /\ conn \in [Clients -> {"up", "down"}]
    BY DEF Init
  <2>7. clients \subseteq Clients /\ closed \in BOOLEAN /\ closing \in BOOLEAN
    BY DEF Init
  <2>8. QED
    BY <2>2, <2>3, <2>4, <2>5, <2>6, <2>7
<1>2. TypeOK /\ [Next]_vars => TypeOK'
  <2> SUFFICES ASSUME TypeOK, [Next]_vars
               PROVE  TypeOK'
    OBVIOUS
  <2>1. CASE CloseBegin
    BY <2>1 DEF CloseBegin
  <2>2. CASE CloseEnd
    BY <2>2 DEF CloseEnd
  <2>3. ASSUME NEW c \in Clients, ClientNext(c)
        PROVE  TypeOK'
    <3>1. CASE Subscribe(c)
      BY <3>1 DEF Subscribe
    <3>2. CASE Unsubscribe(c)
      BY <3>2 DEF Unsubscribe
    <3>3. CASE CloseOne(c)
      BY <3>3 DEF CloseOne
    <3>4. CASE Reject(c) \/ WriteOk(c) \/ WriteFail(c) \/ Heartbeat(c)
      BY <3>4 DEF Reject, WriteOk, WriteFail, Heartbeat
    <3>5. CASE ObserveClosed(c) \/ ContextDone(c) \/ Disconnect(c)
      BY <3>5 DEF ObserveClosed, ContextDone, Disconnect
    <3>6. CASE Receive(c)
      <4>1. /\ buf[c] \in Seq(Events) /\ buf[c] # <<>>
            /\ got[c] \in Seq(Events) /\ Len(buf[c]) <= BufferCap
        BY <3>6 DEF Receive
      <4>2. /\ Tail(buf[c]) \in Seq(Events) /\ Len(Tail(buf[c])) <= BufferCap
            /\ Append(got[c], Head(buf[c])) \in Seq(Events)
        BY <1>0, <4>1
      <4>3. /\ buf' \in [Clients -> Seq(Events)]
            /\ \A d \in Clients : Len(buf'[d]) <= BufferCap
            /\ got' \in [Clients -> Seq(Events)]
        BY <3>6, <4>2 DEF Receive
      <4>4. QED
        BY <3>6, <4>3 DEF Receive
    <3>7. QED
      BY <2>3, <3>1, <3>2, <3>3, <3>4, <3>5, <3>6 DEF ClientNext
  <2>4. ASSUME NEW e \in Events, EventNext(e)
        PROVE  TypeOK'
    <3>1. CASE BroadcastBegin(e)
      BY <3>1 DEF BroadcastBegin
    <3>2. CASE BroadcastEnd(e)
      BY <3>2 DEF BroadcastEnd
    <3>3. ASSUME NEW c \in Clients, BroadcastOne(e, c)
          PROVE  TypeOK'
      <4>1. /\ UNCHANGED <<clients, closed, closing, chan, hstate, conn,
                           bstate, audience, got>>
            /\ btodo' \in [Events -> SUBSET Clients]
        BY <3>3 DEF BroadcastOne
      <4>2. dropped' \in [Clients -> SUBSET Events]
        <5>1. \/ UNCHANGED dropped
              \/ dropped' = [dropped EXCEPT ![c] = @ \cup {e}]
          BY <3>3 DEF BroadcastOne
        <5>2. dropped[c] \cup {e} \in SUBSET Events
          BY <3>3
        <5>3. QED
          BY <5>1, <5>2
      <4>3. panic' \in BOOLEAN
        <5>1. panic' = panic \/ panic' = (panic \/ chan[c] # "open")
          BY <3>3 DEF BroadcastOne
        <5>2. QED
          BY <5>1
      <4>4. \/ UNCHANGED buf
            \/ Len(buf[c]) < BufferCap /\ buf' = [buf EXCEPT ![c] = Append(@, e)]
        BY <3>3 DEF BroadcastOne
      <4>5. /\ buf' \in [Clients -> Seq(Events)]
            /\ \A d \in Clients : Len(buf'[d]) <= BufferCap
        <5>1. CASE UNCHANGED buf
          BY <5>1
        <5>2. CASE Len(buf[c]) < BufferCap /\ buf' = [buf EXCEPT ![c] = Append(@, e)]
          <6>1. /\ buf[c] \in Seq(Events) /\ Len(buf[c]) \in Nat
                /\ Append(buf[c], e) \in Seq(Events)
                /\ Len(Append(buf[c], e)) = Len(buf[c]) + 1
            BY <3>3
          <6>2. Len(Append(buf[c], e)) <= BufferCap
            BY <1>0, <5>2, <6>1
          <6>3. QED
            BY <3>3, <5>2, <6>1, <6>2
        <5>3. QED
          BY <4>4, <5>1, <5>2
      <4>6. QED
        BY <4>1, <4>2, <4>3, <4>5
    <3>4. QED
      BY <2>4, <3>1, <3>2, <3>3 DEF EventNext
  <2>5. CASE UNCHANGED vars
    BY <2>5
  <2>6. QED
    BY <2>1, <2>2, <2>3, <2>4, <2>5 DEF Next
<1>3. QED
  BY <1>1, <1>2, PTL DEF Spec

(***************************************************************************)
(* The inductive invariant.  OpenIffRegistered alone is not inductive:     *)
(* Subscribe must find no channel in place, and Close must have set the    *)
(* flag that keeps late subscribers out before it empties the hub.         *)
(***************************************************************************)
HubInv ==
    /\ OpenIffRegistered
    /\ NoPanic
    /\ NoClientAfterClose
    /\ closing => closed
    /\ \A c \in Clients : hstate[c] = "new" => chan[c] = "nil"

\* No step of a connection breaks the invariant.
LEMMA ClientStep ==
  ASSUME TypeOK, HubInv, NEW c \in Clients, ClientNext(c)
  PROVE  HubInv'
<1> USE DEF TypeOK, HubInv, OpenIffRegistered, NoPanic, NoClientAfterClose,
            CanLock, CanRLock
<1>1. CASE Subscribe(c)
  BY <1>1 DEF Subscribe
<1>2. CASE Unsubscribe(c)
  BY <1>2 DEF Unsubscribe
<1>3. CASE CloseOne(c)
  BY <1>3 DEF CloseOne
<1>4. CASE Reject(c) \/ WriteOk(c) \/ WriteFail(c) \/ Heartbeat(c)
  BY <1>4 DEF Reject, WriteOk, WriteFail, Heartbeat
<1>5. CASE ObserveClosed(c) \/ ContextDone(c) \/ Disconnect(c) \/ Receive(c)
  BY <1>5 DEF ObserveClosed, ContextDone, Disconnect, Receive
<1>6. QED
  BY <1>1, <1>2, <1>3, <1>4, <1>5 DEF ClientNext

\* No step of a broadcast breaks the invariant.
LEMMA EventStep ==
  ASSUME TypeOK, HubInv, NEW e \in Events, EventNext(e)
  PROVE  HubInv'
<1> USE DEF TypeOK, HubInv, OpenIffRegistered, NoPanic, NoClientAfterClose,
            CanRLock
<1>1. CASE BroadcastBegin(e)
  BY <1>1 DEF BroadcastBegin
<1>2. CASE BroadcastEnd(e)
  BY <1>2 DEF BroadcastEnd
<1>3. ASSUME NEW c \in Clients, BroadcastOne(e, c)
      PROVE  HubInv'
  <2>1. c \in clients /\ chan[c] = "open"
    BY <1>3 DEF BroadcastOne
  <2>2. panic' = FALSE
    BY <1>3, <2>1 DEF BroadcastOne
  <2>3. /\ UNCHANGED <<clients, closed, closing, chan, hstate, bstate>>
        /\ \A f \in Events : btodo'[f] \subseteq btodo[f]
    BY <1>3 DEF BroadcastOne
  <2>4. QED
    BY <2>2, <2>3
<1>4. QED
  BY <1>1, <1>2, <1>3 DEF EventNext

\* The strengthening is invariant.
LEMMA HubInvariant == Spec => []HubInv
<1>1. Init => HubInv
  BY DEF Init, HubInv, OpenIffRegistered, NoPanic, NoClientAfterClose
<1>2. TypeOK /\ HubInv /\ [Next]_vars => HubInv'
  <2> SUFFICES ASSUME TypeOK, HubInv, [Next]_vars
               PROVE  HubInv'
    OBVIOUS
  <2> USE DEF HubInv, OpenIffRegistered, NoPanic, NoClientAfterClose
  <2>1. CASE CloseBegin
    BY <2>1 DEF CloseBegin, CanLock, CanRLock, TypeOK
  <2>2. CASE CloseEnd
    BY <2>2 DEF CloseEnd
  <2>3. CASE \E c \in Clients : ClientNext(c)
    BY <2>3, ClientStep
  <2>4. CASE \E e \in Events : EventNext(e)
    BY <2>4, EventStep
  <2>5. CASE UNCHANGED vars
    BY <2>5
  <2>6. QED
    BY <2>1, <2>2, <2>3, <2>4, <2>5 DEF Next
<1>3. QED
  BY <1>1, <1>2, TypeCorrect, PTL DEF Spec

\* However subscriptions, departures, broadcasts and Close interleave, no
\* goroutine sends on a closed channel and no channel is closed twice.
THEOREM HubNeverPanics == Spec => []NoPanic
<1>1. HubInv => NoPanic
  BY DEF HubInv
<1>2. QED
  BY <1>1, HubInvariant, PTL

\* A channel is open exactly while its client is in the map that Broadcast walks
\* and Close empties: no handler waits on a channel that nobody will ever close.
THEOREM OpenChannelsAreRegistered == Spec => []OpenIffRegistered
<1>1. HubInv => OpenIffRegistered
  BY DEF HubInv
<1>2. QED
  BY <1>1, HubInvariant, PTL

\* After Close the hub has no client and gets none, so http.Server.Shutdown
\* waits for no stream that nobody will end.
THEOREM ClosedHubStaysEmpty == Spec => []NoClientAfterClose
<1>1. HubInv => NoClientAfterClose
  BY DEF HubInv
<1>2. QED
  BY <1>1, HubInvariant, PTL

(***************************************************************************)
(* Delivery.  What DeliveredToAudience says of a finished broadcast is     *)
(* said here of each client as soon as the loop has visited it: only then  *)
(* was it offered the event, so a second visit would be the only way to a  *)
(* second copy, and there is none.                                         *)
(***************************************************************************)
Has(c, e) == \E i \in DOMAIN Queued(c) : Queued(c)[i] = e
Visited(e) == IF bstate[e] = "idle" THEN {} ELSE audience[e] \ btodo[e]

DeliveryInv ==
    /\ \A e \in Events : bstate[e] = "done" => btodo[e] = {}
    /\ \A e \in Events, c \in Clients :
           /\ Has(c, e) \/ e \in dropped[c] <=> c \in Visited(e) /\ MaySee(c, e)
           /\ ~(Has(c, e) /\ e \in dropped[c])
           /\ bstate[e] # "idle" => btodo[e] \subseteq audience[e]
    /\ \A c \in Clients : \A i, j \in DOMAIN Queued(c) : Queued(c)[i] = Queued(c)[j] => i = j
    /\ \A c \in Clients : dropped[c] # {} => Len(Queued(c)) >= BufferCap

\* Taking the head of the channel moves it from one end of Queued to the other.
LEMMA TakenStaysQueued ==
  ASSUME NEW S, NEW s \in Seq(S), NEW t \in Seq(S), t # <<>>
  PROVE  Append(s, Head(t)) \o Tail(t) = s \o t
PROOF
<1>1. /\ Append(s, Head(t)) \in Seq(S) /\ Tail(t) \in Seq(S)
      /\ Len(Append(s, Head(t))) = Len(s) + 1
      /\ Len(t) \in Nat \ {0} /\ Len(Tail(t)) = Len(t) - 1 /\ Len(s) \in Nat
  OBVIOUS
<1> DEFINE l == Append(s, Head(t)) \o Tail(t)
           r == s \o t
<1>2. l \in Seq(S) /\ r \in Seq(S) /\ Len(l) = Len(s) + Len(t) /\ Len(r) = Len(s) + Len(t)
  BY <1>1
<1>3. ASSUME NEW i \in 1..(Len(s) + Len(t)) PROVE l[i] = r[i]
  <2>1. CASE i <= Len(s)
    BY <1>1, <2>1
  <2>2. CASE i = Len(s) + 1
    BY <1>1, <2>2
  <2>3. CASE i > Len(s) + 1
    BY <1>1, <2>3
  <2>4. QED
    BY <1>1, <2>1, <2>2, <2>3
<1>4. QED
  BY <1>2, <1>3

\* A send to the channel of c puts one more event at the end of Queued.
LEMMA SentIsQueuedLast ==
  ASSUME NEW s \in Seq(Events), NEW t \in Seq(Events), NEW e \in Events
  PROVE  /\ s \o Append(t, e) \in Seq(Events)
         /\ Len(s \o Append(t, e)) = Len(s \o t) + 1
         /\ Len(s \o t) = Len(s) + Len(t)
         /\ \A i \in 1..Len(s \o t) : (s \o Append(t, e))[i] = (s \o t)[i]
         /\ (s \o Append(t, e))[Len(s \o t) + 1] = e
PROOF
<1>1. Append(t, e) \in Seq(Events) /\ Len(Append(t, e)) = Len(t) + 1 /\ Len(s) \in Nat /\ Len(t) \in Nat
  OBVIOUS
<1>2. /\ s \o Append(t, e) \in Seq(Events) /\ Len(s \o Append(t, e)) = Len(s) + Len(t) + 1
      /\ Len(s \o t) = Len(s) + Len(t)
  BY <1>1
<1>3. ASSUME NEW i \in 1..Len(s \o t) PROVE (s \o Append(t, e))[i] = (s \o t)[i]
  <2>1. CASE i <= Len(s)
    BY <1>1, <2>1
  <2>2. CASE i > Len(s)
    BY <1>1, <1>2, <2>2
  <2>3. QED
    BY <1>1, <1>2, <2>1, <2>2
<1>4. (s \o Append(t, e))[Len(s \o t) + 1] = e
  BY <1>1, <1>2
<1>5. QED
  BY <1>2, <1>3, <1>4

\* The switch of canReceive grants exactly what MaySee allows.
LEMMA CanReceiveIsMaySee ==
  ASSUME NEW c \in Clients, NEW e \in Events
  PROVE  CanReceive(c, e) <=> MaySee(c, e)
PROOF
<1>1. VisibilityOf[e] \in Visibilities
  BY HubAssumption
<1>2. QED
  BY <1>1 DEF Visibilities, CanReceive, MaySee

\* A step that leaves Queued, the losses and the loops alone changes nothing.
LEMMA DeliveryUnchanged ==
  ASSUME DeliveryInv, UNCHANGED <<bstate, btodo, audience, dropped>>,
         \A c \in Clients : Queued(c)' = Queued(c)
  PROVE  DeliveryInv'
PROOF
<1>1. \A e \in Events, c \in Clients : Has(c, e)' <=> Has(c, e)
  BY DEF Has
<1>2. \A e \in Events : Visited(e)' = Visited(e)
  BY DEF Visited
<1>3. QED
  BY <1>1, <1>2 DEF DeliveryInv, MaySee

\* The send of a broadcast to one client, or its loss.
LEMMA OneStep ==
  ASSUME TypeOK, DeliveryInv, NEW e \in Events, NEW c \in Clients, BroadcastOne(e, c)
  PROVE  DeliveryInv'
PROOF
<1>1. /\ UNCHANGED <<bstate, audience, got>>
      /\ bstate[e] = "sending" /\ c \in btodo[e] /\ btodo' = [btodo EXCEPT ![e] = @ \ {c}]
  BY DEF BroadcastOne
<1>2. /\ c \notin Visited(e) /\ ~Has(c, e) /\ e \notin dropped[c]
      /\ c \in Visited(e)'
      /\ \A f \in Events, d \in Clients : f # e \/ d # c => (d \in Visited(f)' <=> d \in Visited(f))
      /\ \A f \in Events : bstate'[f] # "idle" => btodo'[f] \subseteq audience'[f]
      /\ \A f \in Events : bstate'[f] = "done" => btodo'[f] = {}
  BY <1>1 DEF DeliveryInv, Visited, TypeOK
<1>3. CASE ~CanReceive(c, e)
  <2>1. UNCHANGED <<buf, dropped>>
    BY <1>3 DEF BroadcastOne
  <2>2. \A d \in Clients : Queued(d)' = Queued(d)
    BY <1>1, <2>1 DEF Queued
  <2>3. \A f \in Events, d \in Clients : Has(d, f)' <=> Has(d, f)
    BY <2>2 DEF Has
  <2>4. ~MaySee(c, e)
    BY <1>3, CanReceiveIsMaySee
  <2>5. QED
    BY <1>1, <1>2, <2>1, <2>2, <2>3, <2>4 DEF DeliveryInv, MaySee
<1>4. CASE CanReceive(c, e) /\ ~HasRoom(c)
  <2>1. UNCHANGED buf /\ dropped' = [dropped EXCEPT ![c] = @ \cup {e}]
    BY <1>4 DEF BroadcastOne
  <2>2. \A d \in Clients : Queued(d)' = Queued(d)
    BY <1>1, <2>1 DEF Queued
  <2>3. \A f \in Events, d \in Clients : Has(d, f)' <=> Has(d, f)
    BY <2>2 DEF Has
  <2>4. MaySee(c, e)
    BY <1>4, CanReceiveIsMaySee
  <2>5. \A f \in Events, d \in Clients :
            f \in dropped'[d] <=> f \in dropped[d] \/ (f = e /\ d = c)
    BY <2>1 DEF TypeOK
  <2>6. Len(Queued(c)) >= BufferCap
    <3>1. got[c] \in Seq(Events) /\ buf[c] \in Seq(Events)
      BY DEF TypeOK
    <3>2. Len(got[c] \o buf[c]) = Len(got[c]) + Len(buf[c]) /\ Len(got[c]) \in Nat /\ Len(buf[c]) \in Nat
      BY <3>1
    <3>3. Len(buf[c]) >= BufferCap /\ BufferCap \in Nat
      BY <1>4, <3>2, HubAssumption
    <3>4. Len(got[c] \o buf[c]) >= BufferCap
      <4> DEFINE n == Len(got[c] \o buf[c])
                 g == Len(got[c])
                 b == Len(buf[c])
      <4>1. n = g + b /\ g \in Nat /\ b \in Nat /\ b >= BufferCap /\ BufferCap \in Nat
        BY <3>2, <3>3
      <4> HIDE DEF n, g, b
      <4>2. n >= BufferCap
        BY ONLY <4>1
      <4>3. QED
        BY <4>2 DEF n
    <3>5. QED
      BY <3>4 DEF Queued
  <2>7. \A d \in Clients : dropped'[d] # {} => Len(Queued(d)') >= BufferCap
    BY <2>1, <2>2, <2>6 DEF DeliveryInv, TypeOK
  <2>8. QED
    BY <1>1, <1>2, <2>2, <2>3, <2>4, <2>5, <2>7 DEF DeliveryInv, MaySee
<1>5. CASE CanReceive(c, e) /\ HasRoom(c)
  <2>1. UNCHANGED dropped /\ buf' = [buf EXCEPT ![c] = Append(@, e)]
    BY <1>5 DEF BroadcastOne
  <2>2. \A d \in Clients : d # c => Queued(d)' = Queued(d)
    BY <1>1, <2>1 DEF Queued, TypeOK
  <2>3. MaySee(c, e)
    BY <1>5, CanReceiveIsMaySee
  <2> DEFINE q == Queued(c)
             r == Queued(c)'
  <2>4. /\ q \in Seq(Events) /\ r \in Seq(Events) /\ Len(r) = Len(q) + 1
        /\ \A i \in 1..Len(q) : r[i] = q[i]
        /\ r[Len(q) + 1] = e
    <3>1. got[c] \in Seq(Events) /\ buf[c] \in Seq(Events)
      BY DEF TypeOK
    <3>2. q = got[c] \o buf[c] /\ r = got[c] \o Append(buf[c], e)
      BY <1>1, <2>1 DEF Queued, TypeOK
    <3>3. q \in Seq(Events)
      BY <3>1, <3>2
    <3>4. /\ got[c] \o Append(buf[c], e) \in Seq(Events)
          /\ Len(got[c] \o Append(buf[c], e)) = Len(got[c] \o buf[c]) + 1
          /\ \A i \in 1..Len(got[c] \o buf[c]) : (got[c] \o Append(buf[c], e))[i] = (got[c] \o buf[c])[i]
          /\ (got[c] \o Append(buf[c], e))[Len(got[c] \o buf[c]) + 1] = e
      <4>1. e \in Events
        OBVIOUS
      <4> DEFINE g == got[c]
                 b == buf[c]
      <4>2. g \in Seq(Events) /\ b \in Seq(Events)
        BY <3>1
      <4> HIDE DEF g, b
      <4>3. /\ g \o Append(b, e) \in Seq(Events)
            /\ Len(g \o Append(b, e)) = Len(g \o b) + 1
            /\ \A i \in 1..Len(g \o b) : (g \o Append(b, e))[i] = (g \o b)[i]
            /\ (g \o Append(b, e))[Len(g \o b) + 1] = e
        BY ONLY <4>1, <4>2, SentIsQueuedLast, Zenon
      <4>4. QED
        BY <4>3 DEF g, b
    <3> HIDE DEF q, r
    <3>5. QED
      BY ONLY <3>2, <3>3, <3>4
  <2>5. DOMAIN q = 1..Len(q) /\ DOMAIN r = 1..(Len(q) + 1) /\ Len(q) \in Nat
    <3> HIDE DEF q, r
    <3>1. QED
      BY <2>4
  <2>6. \A f \in Events : Has(c, f)' <=> Has(c, f) \/ f = e
    <3>1. \A f \in Events : (\E i \in DOMAIN r : r[i] = f) <=> (\E i \in DOMAIN q : q[i] = f) \/ f = e
      <4> HIDE DEF q, r
      <4>1. QED
        BY <2>4, <2>5
    <3>2. QED
      BY <3>1 DEF Has
  <2>7. \A f \in Events, d \in Clients : Has(d, f)' <=> Has(d, f) \/ (f = e /\ d = c)
    BY <2>2, <2>6 DEF Has
  <2>8. \A i, j \in DOMAIN r : r[i] = r[j] => i = j
    <3>1. \A i, j \in DOMAIN q : q[i] = q[j] => i = j
      BY DEF DeliveryInv
    <3>2. \A i \in DOMAIN q : q[i] # e
      BY <1>2 DEF Has
    <3> HIDE DEF q, r
    <3>3. QED
      BY <2>4, <2>5, <3>1, <3>2
  <2>9. \A d \in Clients : dropped'[d] # {} => Len(Queued(d)') >= BufferCap
    <3>1. ASSUME NEW d \in Clients, dropped[d] # {} PROVE Len(Queued(d)') >= BufferCap
      <4>1. CASE d # c
        BY <2>2, <3>1, <4>1 DEF DeliveryInv
      <4>2. CASE d = c
        <5>1. Len(q) >= BufferCap /\ BufferCap \in Nat
          BY <3>1, <4>2, HubAssumption DEF DeliveryInv
        <5> HIDE DEF q, r
        <5>2. Len(r) >= BufferCap
          BY <2>4, <2>5, <5>1
        <5>3. QED
          BY <4>2, <5>2 DEF r
      <4>3. QED
        BY <4>1, <4>2
    <3>2. QED
      BY <2>1, <3>1
  <2>10. \A d \in Clients : \A i, j \in DOMAIN Queued(d)' : Queued(d)'[i] = Queued(d)'[j] => i = j
    BY <2>2, <2>8 DEF DeliveryInv
  <2>11. QED
    BY <1>1, <1>2, <2>1, <2>3, <2>7, <2>9, <2>10 DEF DeliveryInv, MaySee
<1>6. QED
  BY <1>3, <1>4, <1>5

\* No other step of a broadcast breaks the invariant: it starts with the clients
\* of the moment, none of them visited, and ends with none left to visit.
LEMMA LoopStep ==
  ASSUME TypeOK, DeliveryInv, NEW e \in Events, BroadcastBegin(e) \/ BroadcastEnd(e)
  PROVE  DeliveryInv'
PROOF
<1>1. UNCHANGED <<buf, got, dropped>>
  BY DEF BroadcastBegin, BroadcastEnd
<1>2. \A c \in Clients : Queued(c)' = Queued(c)
  BY <1>1 DEF Queued
<1>3. \A f \in Events, c \in Clients : Has(c, f)' <=> Has(c, f)
  BY <1>2 DEF Has
<1>4. \A f \in Events : Visited(f)' = Visited(f)
  <2>1. CASE BroadcastBegin(e)
    <3>1. /\ bstate[e] = "idle" /\ bstate' = [bstate EXCEPT ![e] = "sending"]
          /\ btodo' = [btodo EXCEPT ![e] = clients] /\ audience' = [audience EXCEPT ![e] = clients]
      BY <2>1 DEF BroadcastBegin
    <3>2. Visited(e) = {} /\ Visited(e)' = {}
      BY <3>1 DEF Visited, TypeOK
    <3>3. \A f \in Events : f # e => Visited(f)' = Visited(f)
      BY <3>1 DEF Visited, TypeOK
    <3>4. QED
      BY <3>2, <3>3
  <2>2. CASE BroadcastEnd(e)
    <3>1. /\ bstate[e] = "sending" /\ bstate' = [bstate EXCEPT ![e] = "done"]
          /\ UNCHANGED <<btodo, audience>>
      BY <2>2 DEF BroadcastEnd
    <3>2. \A f \in Events : bstate'[f] = "idle" <=> bstate[f] = "idle"
      BY <3>1 DEF TypeOK
    <3>3. QED
      BY <3>1, <3>2 DEF Visited
  <2>3. QED
    BY <2>1, <2>2
<1>5. \A f \in Events : /\ bstate'[f] # "idle" => btodo'[f] \subseteq audience'[f]
                        /\ bstate'[f] = "done" => btodo'[f] = {}
  <2>1. CASE BroadcastBegin(e)
    BY <2>1 DEF BroadcastBegin, TypeOK, DeliveryInv
  <2>2. CASE BroadcastEnd(e)
    <3>1. \A f \in Events : bstate[f] # "idle" => \A c \in Clients : btodo[f] \subseteq audience[f]
      BY DEF DeliveryInv
    <3>2. btodo[e] = {} /\ bstate' = [bstate EXCEPT ![e] = "done"] /\ UNCHANGED <<btodo, audience>>
      BY <2>2 DEF BroadcastEnd
    <3>3. \A f \in Events : bstate[f] = "done" => btodo[f] = {}
      BY DEF DeliveryInv
    <3>4. \A f \in Events : btodo[f] \subseteq Clients
      BY DEF TypeOK
    <3>5. QED
      BY <3>1, <3>2, <3>3, <3>4 DEF TypeOK
  <2>3. QED
    BY <2>1, <2>2
<1>6. QED
  BY <1>1, <1>2, <1>3, <1>4, <1>5 DEF DeliveryInv, MaySee

\* The strengthening is invariant.
LEMMA DeliveryInvariant == Spec => []DeliveryInv
PROOF
<1>1. Init => DeliveryInv
  <2> SUFFICES ASSUME Init PROVE DeliveryInv
    OBVIOUS
  <2>1. \A c \in Clients : Queued(c) = <<>> \o <<>> /\ dropped[c] = {}
    BY DEF Init, Queued
  <2>2. <<>> \o <<>> = <<>> /\ DOMAIN <<>> = {}
    OBVIOUS
  <2>3. \A c \in Clients : DOMAIN Queued(c) = {}
    BY <2>1, <2>2
  <2>4. \A e \in Events : bstate[e] = "idle" /\ btodo[e] = {}
    BY DEF Init
  <2>5. QED
    BY <2>1, <2>3, <2>4 DEF DeliveryInv, Has, Visited
<1>2. TypeOK /\ DeliveryInv /\ [Next]_vars => DeliveryInv'
  <2> SUFFICES ASSUME TypeOK, DeliveryInv, [Next]_vars
               PROVE  DeliveryInv'
    OBVIOUS
  <2>1. CASE CloseBegin \/ CloseEnd \/ UNCHANGED vars
    <3>1. UNCHANGED <<buf, got, bstate, btodo, audience, dropped>>
      BY <2>1 DEF CloseBegin, CloseEnd
    <3>2. \A c \in Clients : Queued(c)' = Queued(c)
      BY <3>1 DEF Queued
    <3>3. QED
      BY <3>1, <3>2, DeliveryUnchanged
  <2>2. ASSUME NEW c \in Clients, ClientNext(c)
        PROVE  DeliveryInv'
    <3>1. CASE Receive(c)
      <4>1. /\ UNCHANGED <<bstate, btodo, audience, dropped>>
            /\ buf[c] \in Seq(Events) /\ got[c] \in Seq(Events) /\ buf[c] # <<>>
            /\ buf' = [buf EXCEPT ![c] = Tail(@)]
            /\ got' = [got EXCEPT ![c] = Append(@, Head(buf[c]))]
        BY <3>1 DEF Receive, TypeOK
      <4>2. Append(got[c], Head(buf[c])) \o Tail(buf[c]) = got[c] \o buf[c]
        BY <4>1, TakenStaysQueued
      <4>3. Queued(c)' = Queued(c)
        BY <4>1, <4>2 DEF Queued, TypeOK
      <4>4. \A d \in Clients : Queued(d)' = Queued(d)
        BY <4>1, <4>3 DEF Queued, TypeOK
      <4>5. QED
        BY <4>1, <4>4, DeliveryUnchanged
    <3>2. CASE ~Receive(c)
      <4>1. UNCHANGED <<buf, got, bstate, btodo, audience, dropped>>
        BY <2>2, <3>2 DEF ClientNext, Subscribe, Unsubscribe, CloseOne, Reject, WriteOk, WriteFail,
           ObserveClosed, Heartbeat, ContextDone, Disconnect
      <4>2. \A d \in Clients : Queued(d)' = Queued(d)
        BY <4>1 DEF Queued
      <4>3. QED
        BY <4>1, <4>2, DeliveryUnchanged
    <3>3. QED
      BY <3>1, <3>2
  <2>3. ASSUME NEW e \in Events, EventNext(e)
        PROVE  DeliveryInv'
    BY <2>3, OneStep, LoopStep DEF EventNext
  <2>4. QED
    BY <2>1, <2>2, <2>3 DEF Next
<1>3. QED
  BY <1>1, <1>2, TypeCorrect, PTL DEF Spec

\* Every client registered when an event was broadcast is offered it exactly
\* once if it may see it, nobody else ever has it, and an event is lost only by
\* a client whose channel was full, whatever the number of connections and
\* events and the capacity of the channels.
THEOREM EventsReachTheirAudience == Spec => []DeliveredToAudience
PROOF
<1>1. TypeOK /\ DeliveryInv => DeliveredToAudience
  <2> SUFFICES ASSUME TypeOK, DeliveryInv PROVE DeliveredToAudience
    OBVIOUS
  <2>1. ASSUME NEW e \in Events, NEW c \in Clients
        PROVE  LET copies == {i \in DOMAIN Queued(c) : Queued(c)[i] = e}
               IN  /\ copies # {} \/ e \in dropped[c] => MaySee(c, e) /\ c \in audience[e]
                   /\ bstate[e] = "done" /\ c \in audience[e] /\ MaySee(c, e) =>
                          IF e \in dropped[c] THEN copies = {}
                                              ELSE Cardinality(copies) = 1
    <3> DEFINE copies == {i \in DOMAIN Queued(c) : Queued(c)[i] = e}
    <3>1. copies # {} <=> Has(c, e)
      BY DEF Has
    <3>2. copies # {} \/ e \in dropped[c] => MaySee(c, e) /\ c \in audience[e]
      BY <3>1 DEF DeliveryInv, Visited
    <3>3. ASSUME bstate[e] = "done", c \in audience[e], MaySee(c, e)
          PROVE  IF e \in dropped[c] THEN copies = {} ELSE Cardinality(copies) = 1
      <4>1. (copies # {} \/ e \in dropped[c]) /\ ~(copies # {} /\ e \in dropped[c])
        BY <3>1, <3>3 DEF DeliveryInv, Visited
      <4>2. ASSUME e \notin dropped[c] PROVE Cardinality(copies) = 1
        <5>1. PICK i : i \in copies
          BY <4>1, <4>2
        <5>2. copies = {i}
          BY <5>1 DEF DeliveryInv
        <5>3. QED
          BY <5>2, FS_Singleton
      <4>3. QED
        BY <4>1, <4>2
    <3>4. QED
      BY <3>2, <3>3
  <2>2. \A c \in Clients : dropped[c] # {} => Len(Queued(c)) >= BufferCap
    BY DEF DeliveryInv
  <2>3. QED
    BY <2>1, <2>2 DEF DeliveredToAudience
<1>2. QED
  BY <1>1, TypeCorrect, DeliveryInvariant, PTL

-----------------------------------------------------------------------------
(***************************************************************************)
(* The hub implements a feed per client.                                   *)
(***************************************************************************)
\* The feeds are what they were if the channels, together with what was taken
\* from them, and the broadcasts are.
LEMMA FeedsUnchanged ==
  ASSUME UNCHANGED <<bstate, btodo, got, buf, dropped>>
  PROVE  /\ {e \in Events : bstate[e] # "idle"}' = {e \in Events : bstate[e] # "idle"}
         /\ [e \in Events |-> Due(e)]' = [e \in Events |-> Due(e)]
         /\ [c \in Clients |-> Queued(c)]' = [c \in Clients |-> Queued(c)]
         /\ [c \in Clients |-> Len(got[c])]' = [c \in Clients |-> Len(got[c])]
         /\ dropped' = dropped
<1>1. \A e \in Events : Due(e)' = Due(e)
  BY DEF Due, MaySee
<1>2. \A c \in Clients : Queued(c)' = Queued(c)
  BY DEF Queued
<1>3. QED
  BY <1>1, <1>2

\* What a client has not taken of its feed is what its channel holds.
LEMMA FeedLength ==
  ASSUME TypeOK, NEW c \in Clients
  PROVE  /\ Len(got[c]) \in Nat /\ Len(buf[c]) \in Nat
         /\ Len(Queued(c)) = Len(got[c]) + Len(buf[c])
<1>1. got[c] \in Seq(Events) /\ buf[c] \in Seq(Events)
  BY DEF TypeOK
<1> DEFINE s == got[c]
           t == buf[c]
<1>2. s \in Seq(Events) /\ t \in Seq(Events)
  BY <1>1
<1>3. Len(s) \in Nat /\ Len(t) \in Nat /\ Len(s \o t) = Len(s) + Len(t)
  <2> HIDE DEF s, t
  <2> QED
    BY <1>2
<1>4. QED
  BY <1>3 DEF Queued

\* While the lock is held for writing no event is owed to anybody.
LEMMA NothingDue ==
  ASSUME \A e \in Events : bstate[e] # "sending"
  PROVE  \A e \in Events : [f \in Events |-> Due(f)][e] = {}
BY DEF Due

\* Subscribe joins, unless the hub is closed.
LEMMA SubscribeJoins ==
  ASSUME NEW c \in Clients, Subscribe(c)
  PROVE  Feed!Join(c) \/ UNCHANGED Feed!feedVars
<1>1. UNCHANGED <<closed, bstate, btodo, got, buf, dropped>>
  BY DEF Subscribe
<1>2. CASE closed
  <2>1. clients' = clients
    BY <1>2 DEF Subscribe
  <2>2. QED
    BY <1>1, <2>1, FeedsUnchanged DEF Feed!feedVars
<1>3. CASE ~closed
  <2>1. clients' = clients \cup {c}
    BY <1>3 DEF Subscribe
  <2>2. QED
    BY <1>1, <1>3, <2>1, FeedsUnchanged DEF Feed!Join
<1>4. QED
  BY <1>2, <1>3

\* Unsubscribe and Close let a client go that is owed nothing.
LEMMA RemovalLeaves ==
  ASSUME HubInv, NEW c \in Clients, Unsubscribe(c) \/ CloseOne(c)
  PROVE  Feed!Leave(c) \/ UNCHANGED Feed!feedVars
<1>1. UNCHANGED <<closed, bstate, btodo, got, buf, dropped>>
  BY DEF Unsubscribe, CloseOne
<1>2. \A e \in Events : bstate[e] # "sending"
  BY DEF Unsubscribe, CloseOne, CanLock, HubInv, OpenIffRegistered
<1>3. \A e \in Events : c \notin [f \in Events |-> Due(f)][e]
  BY <1>2, NothingDue
<1>4. CASE c \in clients
  <2>1. clients' = clients \ {c}
    BY <1>4 DEF Unsubscribe, CloseOne
  <2>2. QED
    BY <1>1, <1>3, <1>4, <2>1, FeedsUnchanged DEF Feed!Leave
<1>5. CASE c \notin clients
  <2>1. clients' = clients
    BY <1>5 DEF Unsubscribe, CloseOne
  <2>2. QED
    BY <1>1, <2>1, FeedsUnchanged DEF Feed!feedVars
<1>6. QED
  BY <1>4, <1>5

\* Receiving from the channel moves the reader on in its feed, which stays.
LEMMA ReceiveTakes ==
  ASSUME TypeOK, NEW c \in Clients, Receive(c)
  PROVE  Feed!Take(c)
<1>1. /\ UNCHANGED <<clients, closed, bstate, btodo, dropped>>
      /\ buf[c] \in Seq(Events) /\ got[c] \in Seq(Events) /\ buf[c] # <<>>
      /\ buf' = [buf EXCEPT ![c] = Tail(@)]
      /\ got' = [got EXCEPT ![c] = Append(@, Head(buf[c]))]
  BY DEF Receive, TypeOK
<1>2. Append(got[c], Head(buf[c])) \o Tail(buf[c]) = got[c] \o buf[c]
  BY <1>1, TakenStaysQueued
<1>3. \A d \in Clients : Queued(d)' = Queued(d)
  BY <1>1, <1>2 DEF Queued, TypeOK
<1>4. /\ Len(got'[c]) = Len(got[c]) + 1
      /\ \A d \in Clients \ {c} : got'[d] = got[d]
  BY <1>1 DEF TypeOK
<1>5. Len(got[c]) < Len(Queued(c))
  <2> DEFINE m == Len(got[c])
             n == Len(buf[c])
             q == Len(Queued(c))
  <2>1. n # 0
    BY <1>1
  <2>2. m \in Nat /\ n \in Nat /\ q = m + n
    BY FeedLength
  <2>3. m < q
    <3> HIDE DEF m, n, q
    <3> QED
      BY <2>1, <2>2
  <2>4. QED
    BY <2>3
<1>6. \A e \in Events : Due(e)' = Due(e)
  BY <1>1 DEF Due, MaySee
<1>7. [d \in Clients |-> Len(got[d])]'
        = [[d \in Clients |-> Len(got[d])] EXCEPT ![c] = @ + 1]
  BY <1>4
<1>8. QED
  BY <1>1, <1>3, <1>5, <1>6, <1>7 DEF Feed!Take

\* The steps of a handler that neither join, leave nor take.
LEMMA HandlerStutters ==
  ASSUME NEW c \in Clients,
         \/ Reject(c) \/ WriteOk(c) \/ WriteFail(c) \/ ObserveClosed(c)
         \/ Heartbeat(c) \/ ContextDone(c) \/ Disconnect(c)
  PROVE  UNCHANGED Feed!feedVars
<1>1. UNCHANGED <<clients, closed, bstate, btodo, got, buf, dropped>>
  BY DEF Reject, WriteOk, WriteFail, ObserveClosed, Heartbeat, ContextDone,
         Disconnect
<1>2. QED
  BY <1>1, FeedsUnchanged DEF Feed!feedVars

\* Broadcast takes the lock: the event is published for the clients of now.
LEMMA BroadcastPublishes ==
  ASSUME TypeOK, NEW e \in Events, BroadcastBegin(e)
  PROVE  Feed!Publish(e)
<1>1. /\ bstate[e] = "idle" /\ bstate'[e] = "sending" /\ btodo'[e] = clients
      /\ \A f \in Events \ {e} : bstate'[f] = bstate[f] /\ btodo'[f] = btodo[f]
      /\ UNCHANGED <<clients, closed, got, buf, dropped>>
  BY DEF BroadcastBegin, TypeOK
<1>2. {f \in Events : bstate[f] # "idle"}'
        = {f \in Events : bstate[f] # "idle"} \cup {e}
  BY <1>1
<1>3. Due(e)' = clients \cap {c \in Clients : MaySee(c, e)}
  BY <1>1 DEF Due, MaySee, TypeOK
<1>4. \A f \in Events \ {e} : Due(f)' = Due(f)
  BY <1>1 DEF Due, MaySee
<1>5. \A c \in Clients : Queued(c)' = Queued(c)
  BY <1>1 DEF Queued
<1>6. QED
  BY <1>1, <1>2, <1>3, <1>4, <1>5 DEF Feed!Publish

\* The loop of a broadcast ends: nobody was left.
LEMMA BroadcastEndStutters ==
  ASSUME TypeOK, NEW e \in Events, BroadcastEnd(e)
  PROVE  UNCHANGED Feed!feedVars
<1>1. /\ bstate[e] = "sending" /\ bstate'[e] = "done" /\ btodo[e] = {}
      /\ \A f \in Events \ {e} : bstate'[f] = bstate[f]
      /\ UNCHANGED <<clients, closed, btodo, got, buf, dropped>>
  BY DEF BroadcastEnd, TypeOK
<1>2. \A f \in Events : Due(f)' = Due(f)
  BY <1>1 DEF Due, MaySee
<1>3. \A c \in Clients : Queued(c)' = Queued(c)
  BY <1>1 DEF Queued
<1>4. {f \in Events : bstate[f] # "idle"}' = {f \in Events : bstate[f] # "idle"}
  BY <1>1
<1>5. QED
  BY <1>1, <1>2, <1>3, <1>4 DEF Feed!feedVars

\* A send grows the feed at its end.
LEMMA SentGrowsTheFeed ==
  ASSUME NEW s \in Seq(Events), NEW t \in Seq(Events), NEW e \in Events
  PROVE  s \o Append(t, e) = Append(s \o t, e)
<1> DEFINE l == s \o Append(t, e)
           r == Append(s \o t, e)
<1>1. /\ s \o t \in Seq(Events) /\ Len(s \o t) \in Nat
      /\ l \in Seq(Events) /\ r \in Seq(Events)
      /\ Len(l) = Len(s \o t) + 1 /\ Len(r) = Len(s \o t) + 1
  BY SentIsQueuedLast
<1>2. ASSUME NEW i \in 1 .. Len(s \o t) + 1
      PROVE  l[i] = r[i]
  BY <1>1, <1>2, SentIsQueuedLast
<1>3. QED
  BY <1>1, <1>2

\* The visit of a client that may see the event offers it to him; any other
\* visit shows nothing.
LEMMA VisitOffers ==
  ASSUME TypeOK, HubInv, NEW e \in Events, NEW c \in Clients, BroadcastOne(e, c)
  PROVE  Feed!Offer(e, c) \/ UNCHANGED Feed!feedVars
<1>1. /\ UNCHANGED <<clients, closed, bstate, got>>
      /\ bstate[e] = "sending" /\ c \in btodo[e] /\ c \in clients
      /\ btodo' = [btodo EXCEPT ![e] = @ \ {c}]
  BY DEF BroadcastOne, HubInv, OpenIffRegistered
<1>2. /\ \A f \in Events \ {e} : Due(f)' = Due(f)
      /\ Due(e)' = Due(e) \ {c}
      /\ c \in Due(e) <=> MaySee(c, e)
  BY <1>1 DEF Due, MaySee, TypeOK
<1>3. [f \in Events |-> Due(f)]'
        = [[f \in Events |-> Due(f)] EXCEPT ![e] = @ \ {c}]
  BY <1>2
<1>4. /\ {f \in Events : bstate[f] # "idle"}' = {f \in Events : bstate[f] # "idle"}
      /\ [d \in Clients |-> Len(got[d])]' = [d \in Clients |-> Len(got[d])]
  BY <1>1
<1>5. CASE ~MaySee(c, e)
  <2>1. UNCHANGED <<buf, dropped>>
    BY <1>5, CanReceiveIsMaySee DEF BroadcastOne
  <2>2. [d \in Clients |-> Queued(d)]' = [d \in Clients |-> Queued(d)]
    BY <1>1, <2>1 DEF Queued
  <2>3. \A f \in Events : Due(f)' = Due(f)
    BY <1>2, <1>5
  <2>4. [f \in Events |-> Due(f)]' = [f \in Events |-> Due(f)]
    BY <2>3
  <2>5. QED
    BY <1>1, <1>4, <2>1, <2>2, <2>4 DEF Feed!feedVars
<1>6. CASE MaySee(c, e)
  <2>1. CanReceive(c, e) /\ c \in Due(e)
    BY <1>2, <1>6, CanReceiveIsMaySee
  <2>2. /\ buf[c] \in Seq(Events) /\ got[c] \in Seq(Events)
        /\ Len(buf[c]) \in Nat /\ Len(buf[c]) <= BufferCap
    BY DEF TypeOK
  <2>3. Len(Queued(c)) - Len(got[c]) = Len(buf[c])
    <3>1. /\ Len(got[c]) \in Nat /\ Len(buf[c]) \in Nat
          /\ Len(Queued(c)) = Len(got[c]) + Len(buf[c])
      BY FeedLength
    <3>2. QED
      BY <3>1
  <2>4. [d \in Clients |-> Queued(d)][c] = Queued(c)
        /\ [d \in Clients |-> Len(got[d])][c] = Len(got[c])
    OBVIOUS
  <2>5. Feed!Backlog(c) = Len(buf[c])
    BY <2>3, <2>4 DEF Feed!Backlog
  <2>6. CASE Len(buf[c]) < BufferCap
    <3>1. buf' = [buf EXCEPT ![c] = Append(@, e)] /\ dropped' = dropped
      BY <2>1, <2>6 DEF BroadcastOne
    <3>2. got[c] \o Append(buf[c], e) = Append(got[c] \o buf[c], e)
      BY <2>2, SentGrowsTheFeed
    <3>3. /\ Queued(c)' = Append(Queued(c), e)
          /\ \A d \in Clients \ {c} : Queued(d)' = Queued(d)
      BY <1>1, <3>1, <3>2 DEF Queued, TypeOK
    <3>4. [d \in Clients |-> Queued(d)]'
            = [[d \in Clients |-> Queued(d)] EXCEPT ![c] = Append(@, e)]
      BY <3>3
    <3>5. QED
      BY <1>1, <1>3, <1>4, <2>1, <2>5, <2>6, <3>1, <3>4 DEF Feed!Offer
  <2>7. CASE ~(Len(buf[c]) < BufferCap)
    <3>1. dropped' = [dropped EXCEPT ![c] = @ \cup {e}] /\ buf' = buf
      BY <2>1, <2>7 DEF BroadcastOne
    <3>2. Len(buf[c]) = BufferCap
      BY <2>2, <2>7, HubAssumption
    <3>3. [d \in Clients |-> Queued(d)]' = [d \in Clients |-> Queued(d)]
      BY <1>1, <3>1 DEF Queued
    <3>4. QED
      BY <1>1, <1>3, <1>4, <2>1, <2>5, <3>1, <3>2, <3>3 DEF Feed!Offer
  <2>8. QED
    BY <2>6, <2>7
<1>7. QED
  BY <1>5, <1>6

\* Close begins when no broadcast is under way.
LEMMA CloseEnds ==
  ASSUME CloseBegin
  PROVE  Feed!End
<1>1. /\ ~closed /\ closed' = TRUE
      /\ \A e \in Events : bstate[e] # "sending"
      /\ UNCHANGED <<clients, bstate, btodo, got, buf, dropped>>
  BY DEF CloseBegin, CanLock
<1>2. \A e \in Events : [f \in Events |-> Due(f)][e] = {}
  BY <1>1, NothingDue
<1>3. QED
  BY <1>1, <1>2, FeedsUnchanged DEF Feed!End

\* Every step of the hub is a step of the feeds, or none.
LEMMA StepServesFeeds ==
  ASSUME TypeOK, HubInv, [Next]_vars
  PROVE  [Feed!Next]_(Feed!feedVars)
<1> USE DEF Feed!Next
<1>1. CASE CloseBegin
  BY <1>1, CloseEnds
<1>2. CASE CloseEnd \/ UNCHANGED vars
  <2>1. UNCHANGED <<clients, closed, bstate, btodo, got, buf, dropped>>
    BY <1>2 DEF CloseEnd
  <2>2. QED
    BY <2>1, FeedsUnchanged DEF Feed!feedVars
<1>3. ASSUME NEW c \in Clients, ClientNext(c)
      PROVE  [Feed!Next]_(Feed!feedVars)
  BY <1>3, SubscribeJoins, RemovalLeaves, ReceiveTakes, HandlerStutters
     DEF ClientNext
<1>4. ASSUME NEW e \in Events, EventNext(e)
      PROVE  [Feed!Next]_(Feed!feedVars)
  BY <1>4, BroadcastPublishes, BroadcastEndStutters, VisitOffers DEF EventNext
<1>5. QED
  BY <1>1, <1>2, <1>3, <1>4 DEF Next

\* The hub serves each client a feed (ServesFeeds), for any clients, events and
\* capacity, and however its operations interleave.
THEOREM HubServesFeeds == Spec => ServesFeeds
<1>1. Init => Feed!Init
  <2> SUFFICES ASSUME Init PROVE Feed!Init
    OBVIOUS
  <2>1. \A c \in Clients : Queued(c) = <<>> /\ Len(got[c]) = 0
    BY DEF Init, Queued
  <2>2. \A e \in Events : bstate[e] = "idle" /\ Due(e) = {}
    BY DEF Init, Due
  <2>3. QED
    BY <2>1, <2>2 DEF Init, Feed!Init
<1>2. TypeOK /\ HubInv /\ [Next]_vars => [Feed!Next]_(Feed!feedVars)
  BY StepServesFeeds
<1>3. QED
  BY <1>1, <1>2, TypeCorrect, HubInvariant, PTL DEF Spec, ServesFeeds, Feed!Spec
=============================================================================
