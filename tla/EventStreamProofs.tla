-------------------------- MODULE EventStreamProofs --------------------------
(***************************************************************************)
(* Theorems about the event stream, for any number of clients, publishers  *)
(* and events and any capacity of the channels.                            *)
(***************************************************************************)
EXTENDS EventStream, SequenceTheorems, TLAPS

(***************************************************************************)
(* The inductive invariant.                                                *)
(***************************************************************************)
\* The map holds the streams between their Subscribe and their Unsubscribe, and a
\* channel is closed only after it has left the map.
MembershipInv ==
    /\ clients = {s \in Stream : pc[s] \in {"select", "write", "leave"}}
    /\ closed = {s \in Stream : pc[s] = "done"}

\* A broadcast has only clients of the map to visit: nobody leaves it before the
\* broadcast is over.
LockInv ==
    \A p \in Publisher : /\ todo[p] \subseteq clients
                         /\ event[p] = 0 => todo[p] = {}

StreamInv == TypeOK /\ MembershipInv /\ LockInv

-----------------------------------------------------------------------------
\* What Len, Append and Tail do to the type and the length of a channel.
LEMMA ChannelTypes ==
    ASSUME NEW q \in Seq(Event)
    PROVE  /\ \A e \in Event : Append(q, e) \in Seq(Event) /\ Len(Append(q, e)) = Len(q) + 1
           /\ q # <<>> => /\ Head(q) \in Event
                          /\ Tail(q) \in Seq(Event)
                          /\ Len(Tail(q)) = Len(q) - 1
           /\ Len(q) \in Nat
  OBVIOUS

\* The types, the map and the lock are right at the start.
LEMMA StreamInit == Init => StreamInv
  BY EventStreamAssumption
  DEF Init, StreamInv, TypeOK, MembershipInv, LockInv, StreamPC, Event

\* A step of a publisher keeps the invariant.
LEMMA PublisherStep ==
    ASSUME StreamInv, NEW p \in Publisher, Broadcast(p) \/ Visit(p) PROVE StreamInv'
<1> USE EventStreamAssumption DEF StreamInv, MembershipInv, LockInv, hubVars
<1>t. TypeOK
  OBVIOUS
<1>1. CASE Broadcast(p)
  <2>1. published' \in Event
    BY <1>1 DEF Broadcast, TypeOK, Event
  <2>2. TypeOK'
    BY <1>1, <2>1 DEF Broadcast, TypeOK, Event
  <2>3. MembershipInv'
    BY <1>1 DEF Broadcast
  <2>4. LockInv'
    BY <1>1, <2>1 DEF Broadcast, TypeOK, Event
  <2> QED
    BY <2>2, <2>3, <2>4
<1>2. ASSUME NEW s \in Stream, Offer(p, s) PROVE StreamInv'
  <2>1. event[p] \in Event
    <3>1. event[p] # 0
      BY <1>2 DEF Offer
    <3>2. event[p] \in 0..MaxEvents
      BY DEF TypeOK
    <3> QED
      BY <3>1, <3>2 DEF Event
  <2>2. channel' \in [Stream -> Seq(Event)] /\ \A q \in Stream : Len(channel'[q]) <= Capacity
    <3>1. CASE Full(s)
      BY <1>2, <3>1 DEF Offer, TypeOK
    <3>2. CASE ~Full(s)
      <4>1. channel' = [channel EXCEPT ![s] = Append(channel[s], event[p])]
        BY <1>2, <3>2 DEF Offer
      <4>2. channel[s] \in Seq(Event)
        BY DEF TypeOK
      <4>3. /\ Append(channel[s], event[p]) \in Seq(Event)
            /\ Len(Append(channel[s], event[p])) <= Capacity
        BY <2>1, <3>2, <4>2, ChannelTypes DEF Full
      <4> QED
        BY <4>1, <4>3 DEF TypeOK
    <3> QED
      BY <3>1, <3>2
  <2>3. missed' \in [Stream -> SUBSET Event]
    <3>1. missed' = missed \/ missed' = [missed EXCEPT ![s] = missed[s] \cup {event[p]}]
      BY <1>2 DEF Offer
    <3>2. missed \in [Stream -> SUBSET Event]
      BY DEF TypeOK
    <3> HIDE DEF StreamInv
    <3>3. missed[s] \cup {event[p]} \in SUBSET Event
      BY <2>1, <3>2
    <3> QED
      BY <3>1, <3>2, <3>3
  <2>4. TypeOK'
    BY <1>2, <2>2, <2>3 DEF Offer, TypeOK
  <2>5. MembershipInv' /\ LockInv'
    BY <1>2 DEF Offer, TypeOK
  <2> QED
    BY <2>4, <2>5
<1>3. CASE EndBroadcast(p)
  BY <1>3 DEF EndBroadcast, TypeOK
<1> QED
  BY <1>1, <1>2, <1>3 DEF Visit

\* A step of a handler or of its client keeps it.
LEMMA StreamStep ==
    ASSUME StreamInv, NEW s \in Stream,
           Subscribe(s) \/ Handler(s) \/ Write(s) \/ End(s) \/ Break(s)
    PROVE  StreamInv'
<1> USE DEF StreamInv, MembershipInv, LockInv, hubVars, publisherVars, Goes, StreamPC
<1>1. CASE Subscribe(s)
  BY <1>1 DEF Subscribe, TypeOK
<1>2. CASE Notified(s)
  BY <1>2 DEF Notified, TypeOK
<1>3. CASE Receive(s)
  <2>1. channel[s] \in Seq(Event) /\ received[s] \in Seq(Event)
    BY DEF TypeOK
  <2>2. /\ Tail(channel[s]) \in Seq(Event) /\ Len(Tail(channel[s])) <= Capacity
        /\ Append(received[s], Head(channel[s])) \in Seq(Event)
    <3>1. Len(channel[s]) <= Capacity
      BY DEF TypeOK
    <3> QED
      BY <1>3, <2>1, <3>1, ChannelTypes, EventStreamAssumption DEF Receive
  <2>3. /\ channel' = [channel EXCEPT ![s] = Tail(channel[s])]
        /\ received' = [received EXCEPT ![s] = Append(received[s], Head(channel[s]))]
        /\ pc' = [pc EXCEPT ![s] = "write"] /\ pc[s] = "select"
        /\ UNCHANGED <<clients, closed, published, event, todo, audience, ended, broken,
                       missed>>
    BY <1>3 DEF Receive
  <2>4. TypeOK'
    BY <2>2, <2>3 DEF TypeOK
  <2>5. MembershipInv' /\ LockInv'
    BY <2>3 DEF TypeOK
  <2> QED
    BY <2>4, <2>5
<1>4. CASE Keepalive(s)
  BY <1>4 DEF Keepalive, TypeOK
<1>5. CASE Write(s)
  BY <1>5 DEF Write, TypeOK
<1>6. CASE Unsubscribe(s)
  BY <1>6 DEF Unsubscribe, Unlocked, TypeOK
<1>7. CASE Close(s)
  BY <1>7 DEF Close, TypeOK
<1>8. CASE End(s) \/ Break(s)
  BY <1>8 DEF End, Break, TypeOK
<1> QED
  BY <1>1, <1>2, <1>3, <1>4, <1>5, <1>6, <1>7, <1>8 DEF Handler, Unsubscribing

\* Together they are inductive.
LEMMA StreamInvCorrect == Spec => []StreamInv
<1>1. StreamInv /\ [Next]_vars => StreamInv'
  <2>1. ASSUME StreamInv, UNCHANGED vars PROVE StreamInv'
    BY <2>1 DEF StreamInv, TypeOK, MembershipInv, LockInv, vars, hubVars, publisherVars
  <2> QED
    BY <2>1, PublisherStep, StreamStep DEF Next
<1> QED
  BY <1>1, StreamInit, PTL DEF Spec

(***************************************************************************)
(* The types, among them that no channel holds more than its capacity.     *)
(***************************************************************************)
THEOREM TypeCorrect == Spec => []TypeOK
<1>1. StreamInv => TypeOK
  BY DEF StreamInv
<1> QED
  BY <1>1, StreamInvCorrect, PTL

(***************************************************************************)
(* No publisher ever sends on a closed channel, whoever subscribes, leaves *)
(* and publishes at the same time.                                         *)
(***************************************************************************)
THEOREM NeverSendsOnClosedHolds == Spec => []NeverSendsOnClosed
<1>1. StreamInv => NeverSendsOnClosed
  BY DEF StreamInv, MembershipInv, LockInv, NeverSendsOnClosed
<1> QED
  BY <1>1, StreamInvCorrect, PTL

-----------------------------------------------------------------------------
(***************************************************************************)
(* What a client has been sent, read or not.                               *)
(***************************************************************************)
Sent(s) == received[s] \o channel[s]

Distinct(q) == \A i, j \in 1..Len(q) : i # j => q[i] # q[j]

\* A read moves the boundary between the two parts and changes nothing else.
LEMMA ReadMoves ==
    ASSUME NEW q \in Seq(Event), NEW c \in Seq(Event), c # <<>>
    PROVE  Append(q, Head(c)) \o Tail(c) = q \o c
<1> DEFINE a == Append(q, Head(c))
           l == a \o Tail(c)
           t == q \o c
<1>1. /\ Head(c) \in Event /\ Head(c) = c[1] /\ Tail(c) \in Seq(Event)
      /\ Len(Tail(c)) = Len(c) - 1 /\ Len(c) \in Nat \ {0} /\ Len(q) \in Nat
      /\ \A i \in 1..Len(Tail(c)) : Tail(c)[i] = c[i + 1]
  BY HeadTailProperties
<1>2. /\ a \in Seq(Event) /\ Len(a) = Len(q) + 1
      /\ \A i \in 1..Len(q) : a[i] = q[i]
      /\ a[Len(q) + 1] = c[1]
  BY <1>1, AppendProperties
<1> HIDE DEF a
<1>3. /\ l \in Seq(Event) /\ Len(l) = Len(q) + Len(c)
      /\ \A i \in 1..(Len(q) + Len(c)) :
            l[i] = IF i <= Len(q) + 1 THEN a[i] ELSE Tail(c)[i - (Len(q) + 1)]
  <2> DEFINE r == Tail(c)
  <2>1. r \in Seq(Event) /\ Len(r) = Len(c) - 1
    BY <1>1
  <2> HIDE DEF r
  <2>2. /\ a \o r \in Seq(Event) /\ Len(a \o r) = Len(a) + Len(r)
        /\ \A i \in 1..(Len(a) + Len(r)) :
              (a \o r)[i] = IF i <= Len(a) THEN a[i] ELSE r[i - Len(a)]
    BY <1>2, <2>1, ConcatProperties
  <2>3. Len(a) + Len(r) = Len(q) + Len(c)
    BY <1>1, <1>2, <2>1
  <2> QED
    BY <1>2, <2>2, <2>3 DEF r
<1>4. /\ t \in Seq(Event) /\ Len(t) = Len(q) + Len(c)
      /\ \A i \in 1..(Len(q) + Len(c)) : t[i] = IF i <= Len(q) THEN q[i] ELSE c[i - Len(q)]
  BY ConcatProperties
<1> HIDE DEF l, t
<1>5. ASSUME NEW i \in 1..(Len(q) + Len(c)) PROVE l[i] = t[i]
  <2>1. CASE i <= Len(q)
    BY <1>1, <1>2, <1>3, <1>4, <2>1
  <2>2. CASE i = Len(q) + 1
    <3>1. i - Len(q) = 1 /\ ~(i <= Len(q)) /\ i <= Len(q) + 1
      BY <1>1, <2>2
    <3>2. t[i] = c[1]
      BY <1>4, <3>1
    <3>3. l[i] = a[i]
      BY <1>3, <3>1
    <3> QED
      BY <1>2, <2>2, <3>2, <3>3
  <2>3. CASE i > Len(q) + 1
    <3>1. /\ i - (Len(q) + 1) \in 1..Len(Tail(c))
          /\ i - (Len(q) + 1) + 1 = i - Len(q)
      BY <1>1, <2>3
    <3> QED
      BY <1>1, <1>3, <1>4, <2>3, <3>1
  <2> QED
    BY <1>1, <2>1, <2>2, <2>3
<1>6. l = t
  BY <1>3, <1>4, <1>5, SeqEqual
<1> QED
  BY <1>6 DEF l, t, a

\* A send adds its event at the end.
LEMMA SendAppends ==
    ASSUME NEW q \in Seq(Event), NEW c \in Seq(Event), NEW e \in Event
    PROVE  q \o Append(c, e) = Append(q \o c, e)
<1>1. Append(c, e) = c \o <<e>> /\ <<e>> \in Seq(Event) /\ q \o c \in Seq(Event)
  BY AppendIsConcat, ConcatProperties
<1>2. (q \o c) \o <<e>> = q \o (c \o <<e>>)
  BY <1>1, ConcatAssociative
<1> QED
  BY <1>1, <1>2, AppendIsConcat

\* The events of a longer sequence, which stays without repetition if the event is new.
LEMMA AppendEvents ==
    ASSUME NEW q \in Seq(Event), NEW e \in Event
    PROVE  /\ ToSet(Append(q, e)) = ToSet(q) \cup {e}
           /\ Distinct(q) /\ e \notin ToSet(q) => Distinct(Append(q, e))
<1>1. /\ Append(q, e) \in Seq(Event) /\ Len(Append(q, e)) = Len(q) + 1 /\ Len(q) \in Nat
      /\ \A i \in 1..Len(q) : Append(q, e)[i] = q[i]
      /\ Append(q, e)[Len(q) + 1] = e
      /\ DOMAIN q = 1..Len(q) /\ DOMAIN Append(q, e) = 1..Len(Append(q, e))
  BY AppendProperties, LenProperties
<1>2. 1..(Len(q) + 1) = (1..Len(q)) \cup {Len(q) + 1}
  BY <1>1
<1> DEFINE l == Append(q, e)
<1> HIDE DEF l
<1>3. ToSet(l) = ToSet(q) \cup {e}
  BY <1>1, <1>2 DEF ToSet, l
<1>4. ASSUME Distinct(q), e \notin ToSet(q), NEW i \in 1..Len(l), NEW j \in 1..Len(l), i # j
      PROVE  l[i] # l[j]
  <2>1. \A k \in 1..Len(q) : q[k] # e
    BY <1>1, <1>4 DEF ToSet
  <2> QED
    BY <1>1, <1>2, <1>4, <2>1 DEF Distinct, l
<1> QED
  BY <1>3, <1>4 DEF Distinct, l

-----------------------------------------------------------------------------
(***************************************************************************)
(* The invariant of the events.                                            *)
(***************************************************************************)
\* Events are numbered as they are published, and no two broadcasts have the same.
NumberInv ==
    /\ \A p \in Publisher : event[p] <= published
    /\ \A p, q \in Publisher : p # q /\ event[p] # 0 => event[p] # event[q]
    /\ \A s \in Stream : \A e \in ToSet(Sent(s)) : e <= published

\* A client that a broadcast has still to visit has not got its event.
OnceInv ==
    /\ \A s \in Stream : Distinct(Sent(s))
    /\ \A p \in Publisher : \A s \in todo[p] : event[p] \notin ToSet(Sent(s))

\* Of the clients a broadcast began with, it has still to visit those without the event.
OfferInv ==
    \A e \in Event : e <= published => \A s \in audience[e] :
        \/ e \in ToSet(Sent(s)) \cup missed[s]
        \/ \E p \in Publisher : event[p] = e /\ s \in todo[p]

EventInv == NumberInv /\ OnceInv /\ OfferInv

\* What a client has been sent is a sequence of events.
LEMMA SentType ==
    ASSUME TypeOK, NEW s \in Stream
    PROVE  /\ received[s] \in Seq(Event) /\ channel[s] \in Seq(Event)
           /\ Sent(s) \in Seq(Event) /\ ToSet(Sent(s)) \subseteq Event
<1>1. received[s] \in Seq(Event) /\ channel[s] \in Seq(Event)
  BY DEF TypeOK
<1>2. Sent(s) \in Seq(Event)
  BY <1>1, ConcatProperties DEF Sent
<1>3. \A i \in 1..Len(Sent(s)) : Sent(s)[i] \in Event
  BY <1>2, ElementOfSeq
<1>4. DOMAIN Sent(s) = 1..Len(Sent(s))
  BY <1>2, LenProperties
<1> QED
  BY <1>1, <1>2, <1>3, <1>4 DEF ToSet

\* Before the first broadcast there is nothing to send.
LEMMA EventInit == Init => EventInv
<1> SUFFICES ASSUME Init PROVE EventInv
  OBVIOUS
<1>1. ASSUME NEW s \in Stream PROVE Sent(s) = <<>>
  BY ConcatEmptySeq DEF Init, Sent
<1>2. \A s \in Stream : ToSet(Sent(s)) = {} /\ Distinct(Sent(s))
  BY <1>1 DEF ToSet, Distinct
<1> QED
  BY <1>2, EventStreamAssumption DEF Init, EventInv, NumberInv, OnceInv, OfferInv, Event

\* Steps that send nothing and leave the publishers alone keep the invariant.
LEMMA QuietStep ==
    ASSUME TypeOK, EventInv, UNCHANGED <<publisherVars, missed>>,
           \A s \in Stream : Sent(s)' = Sent(s)
    PROVE  EventInv'
<1>1. UNCHANGED <<published, event, todo, audience, missed>>
  BY DEF publisherVars
<1>2. /\ \A p \in Publisher : todo[p] \subseteq Stream
      /\ \A e \in Event : audience[e] \subseteq Stream
  BY DEF TypeOK
<1>3. NumberInv'
  BY <1>1 DEF EventInv, NumberInv
<1>4. OnceInv'
  BY <1>1, <1>2 DEF EventInv, OnceInv
<1>5. OfferInv'
  BY <1>1, <1>2 DEF EventInv, OfferInv
<1> QED
  BY <1>3, <1>4, <1>5 DEF EventInv

\* A read is one of them.
LEMMA ReadIsQuiet ==
    ASSUME TypeOK, NEW s \in Stream, Receive(s), NEW q \in Stream
    PROVE  Sent(q)' = Sent(q)
<1>1. received[s] \in Seq(Event) /\ channel[s] \in Seq(Event)
  BY SentType
<1>2. channel[s] # <<>>
  BY DEF Receive
<1>3. CASE q = s
  <2>1. received'[q] = Append(received[s], Head(channel[s])) /\ channel'[q] = Tail(channel[s])
    BY <1>3 DEF Receive, TypeOK
  <2>2. Append(received[s], Head(channel[s])) \o Tail(channel[s]) = received[s] \o channel[s]
    BY <1>1, <1>2, ReadMoves
  <2> QED
    BY <1>3, <2>1, <2>2 DEF Sent
<1>4. CASE q # s
  BY <1>4 DEF Receive, TypeOK, Sent
<1> QED
  BY <1>3, <1>4

\* A broadcast begins: all clients are still to be visited, with a number nobody has.
LEMMA BroadcastEvents ==
    ASSUME StreamInv, EventInv, NEW p \in Publisher, Broadcast(p) PROVE EventInv'
<1>1. /\ event[p] = 0 /\ published < MaxEvents /\ published' = published + 1
      /\ event' = [event EXCEPT ![p] = published + 1]
      /\ todo' = [todo EXCEPT ![p] = clients]
      /\ audience' = [audience EXCEPT ![published + 1] = clients]
      /\ UNCHANGED <<missed, channel, received>>
  BY DEF Broadcast
<1>2. /\ published \in Nat /\ published + 1 \in Event /\ clients \subseteq Stream
      /\ event \in [Publisher -> 0..MaxEvents] /\ todo \in [Publisher -> SUBSET Stream]
      /\ audience \in [Event -> SUBSET Stream]
  BY <1>1, EventStreamAssumption DEF StreamInv, TypeOK, Event
<1>3. \A s \in Stream : Sent(s)' = Sent(s) /\ ToSet(Sent(s)) \subseteq Event
  BY <1>1, SentType DEF StreamInv, Sent
<1>4. /\ \A q \in Publisher : event[q] <= published /\ event[q] \in Nat
      /\ \A s \in Stream : \A e \in ToSet(Sent(s)) : e <= published /\ e \in Nat
  BY <1>2, <1>3 DEF EventInv, NumberInv, Event
<1>5. NumberInv'
  <2>1. \A q \in Publisher : event'[q] <= published'
    BY <1>1, <1>2, <1>4
  <2>2. \A q, r \in Publisher : q # r /\ event'[q] # 0 => event'[q] # event'[r]
    BY <1>1, <1>2, <1>4 DEF EventInv, NumberInv
  <2>3. \A s \in Stream : \A e \in ToSet(Sent(s)) : e <= published'
    BY <1>1, <1>2, <1>4
  <2> QED
    BY <1>3, <2>1, <2>2, <2>3 DEF NumberInv
<1>6. OnceInv'
  <2>1. \A s \in Stream : published + 1 \notin ToSet(Sent(s))
    BY <1>2, <1>4
  <2>2. ASSUME NEW q \in Publisher, NEW s \in todo'[q] PROVE event'[q] \notin ToSet(Sent(s))
    BY <1>1, <1>2, <2>1, <2>2 DEF EventInv, OnceInv
  <2>3. \A q \in Publisher : todo'[q] \subseteq Stream
    BY <1>1, <1>2
  <2> QED
    BY <1>3, <2>2, <2>3 DEF EventInv, OnceInv
<1>7. OfferInv'
  <2> SUFFICES ASSUME NEW e \in Event, e <= published + 1, NEW s \in audience'[e]
               PROVE  \/ e \in ToSet(Sent(s)) \cup missed[s]
                      \/ \E q \in Publisher : event'[q] = e /\ s \in todo'[q]
    <3>1. \A e \in Event : audience'[e] \subseteq Stream
      BY <1>1, <1>2
    <3> QED
      BY <1>1, <1>3, <3>1 DEF OfferInv
  <2>1. CASE e = published + 1
    BY <1>1, <1>2, <2>1
  <2>2. CASE e # published + 1
    <3>1. s \in audience[e] /\ e <= published
      BY <1>1, <1>2, <2>2 DEF Event
    <3>2. CASE e \in ToSet(Sent(s)) \cup missed[s]
      BY <3>2
    <3>3. ASSUME NEW q \in Publisher, event[q] = e, s \in todo[q]
          PROVE  event'[q] = e /\ s \in todo'[q]
      <4>1. q # p
        BY <1>1, <3>3 DEF Event
      <4> QED
        BY <1>1, <1>2, <3>3, <4>1
    <3> QED
      BY <3>1, <3>2, <3>3 DEF EventInv, OfferInv
  <2> QED
    BY <2>1, <2>2
<1> QED
  BY <1>5, <1>6, <1>7 DEF EventInv

\* A broadcast ends: it had nobody left to visit.
LEMMA EndBroadcastEvents ==
    ASSUME StreamInv, EventInv, NEW p \in Publisher, EndBroadcast(p) PROVE EventInv'
<1>1. /\ event[p] # 0 /\ todo[p] = {} /\ event' = [event EXCEPT ![p] = 0]
      /\ UNCHANGED <<published, todo, audience, missed, channel, received>>
  BY DEF EndBroadcast
<1>2. /\ event \in [Publisher -> 0..MaxEvents] /\ todo \in [Publisher -> SUBSET Stream]
      /\ audience \in [Event -> SUBSET Stream] /\ published \in Nat
  BY EventStreamAssumption DEF StreamInv, TypeOK
<1>3. \A s \in Stream : Sent(s)' = Sent(s)
  BY <1>1 DEF Sent
<1>4. NumberInv'
  BY <1>1, <1>2, <1>3 DEF EventInv, NumberInv
<1>5. OnceInv'
  BY <1>1, <1>2, <1>3 DEF EventInv, OnceInv
<1>6. OfferInv'
  <2>1. \A q \in Publisher, s \in Stream : s \in todo[q] => q # p
    BY <1>1
  <2>2. \A q \in Publisher : q # p => event'[q] = event[q]
    BY <1>1, <1>2
  <2> QED
    BY <1>1, <1>2, <1>3, <2>1, <2>2 DEF EventInv, OfferInv
<1> QED
  BY <1>4, <1>5, <1>6 DEF EventInv

\* A client is visited: it is sent the event or misses it, and the others get nothing.
LEMMA OfferSends ==
    ASSUME StreamInv, EventInv, NEW p \in Publisher, NEW s \in Stream, Offer(p, s)
    PROVE  /\ event[p] \in Event /\ event[p] <= published
           /\ \A q \in Stream : q # s => Sent(q)' = Sent(q) /\ missed'[q] = missed[q]
           /\ \/ Sent(s)' = Sent(s) /\ missed'[s] = missed[s] \cup {event[p]}
              \/ Sent(s)' = Append(Sent(s), event[p]) /\ missed'[s] = missed[s]
<1>1. /\ s \in todo[p] /\ UNCHANGED received
      /\ event \in [Publisher -> 0..MaxEvents]
      /\ missed \in [Stream -> SUBSET Event] /\ TypeOK
  BY DEF Offer, StreamInv, TypeOK
<1>2. event[p] \in Event /\ event[p] <= published
  <2>1. event[p] # 0
    BY <1>1 DEF StreamInv, LockInv
  <2> QED
    BY <1>1, <2>1 DEF Event, EventInv, NumberInv
<1>3. \A q \in Stream : q # s => Sent(q)' = Sent(q) /\ missed'[q] = missed[q]
  BY <1>1 DEF Offer, TypeOK, Sent
<1>4. CASE Full(s)
  BY <1>1, <1>2, <1>3, <1>4 DEF Offer, Sent
<1>5. CASE ~Full(s)
  <2>1. /\ channel'[s] = Append(channel[s], event[p])
        /\ received'[s] = received[s] /\ missed'[s] = missed[s]
    BY <1>1, <1>5 DEF Offer, TypeOK
  <2>2. received[s] \o Append(channel[s], event[p])
          = Append(received[s] \o channel[s], event[p])
    BY <1>1, <1>2, SentType, SendAppends
  <2>3. Sent(s)' = Append(Sent(s), event[p])
    BY <2>1, <2>2 DEF Sent
  <2> QED
    BY <1>2, <1>3, <2>1, <2>3
<1> QED
  BY <1>4, <1>5

\* A visit keeps the invariant: the client has not got the event yet.
LEMMA OfferEvents ==
    ASSUME StreamInv, EventInv, NEW p \in Publisher, NEW s \in Stream, Offer(p, s)
    PROVE  EventInv'
<1>1. /\ s \in todo[p] /\ todo' = [todo EXCEPT ![p] = todo[p] \ {s}]
      /\ UNCHANGED <<published, event, audience, received>>
  BY DEF Offer
<1>2. /\ event \in [Publisher -> 0..MaxEvents] /\ todo \in [Publisher -> SUBSET Stream]
      /\ audience \in [Event -> SUBSET Stream] /\ published \in Nat
      /\ missed \in [Stream -> SUBSET Event] /\ TypeOK
  BY EventStreamAssumption DEF StreamInv, TypeOK
<1>3. event[p] \in Event /\ event[p] <= published
  BY OfferSends
<1>4. \A q \in Stream : q # s => Sent(q)' = Sent(q) /\ missed'[q] = missed[q]
  BY OfferSends
<1>5. \/ Sent(s)' = Sent(s) /\ missed'[s] = missed[s] \cup {event[p]}
      \/ Sent(s)' = Append(Sent(s), event[p]) /\ missed'[s] = missed[s]
  BY OfferSends
<1>6. event[p] \notin ToSet(Sent(s))
  BY <1>1 DEF EventInv, OnceInv
<1>7. /\ ToSet(Sent(s)') \subseteq ToSet(Sent(s)) \cup {event[p]}
      /\ ToSet(Sent(s)) \subseteq ToSet(Sent(s)')
      /\ event[p] \in ToSet(Sent(s)') \cup missed'[s]
      /\ Distinct(Sent(s)')
  <2>1. Distinct(Sent(s))
    BY DEF EventInv, OnceInv
  <2>2. Sent(s) \in Seq(Event)
    BY <1>2, SentType
  <2>3. /\ ToSet(Append(Sent(s), event[p])) = ToSet(Sent(s)) \cup {event[p]}
        /\ Distinct(Append(Sent(s), event[p]))
    BY <1>3, <1>6, <2>1, <2>2, AppendEvents
  <2> QED
    BY <1>5, <2>1, <2>3
<1>8. NumberInv'
  <2>1. ASSUME NEW q \in Stream, NEW e \in ToSet(Sent(q)') PROVE e <= published
    BY <1>3, <1>4, <1>7, <2>1 DEF EventInv, NumberInv
  <2>2. /\ \A q \in Publisher : event'[q] <= published'
        /\ \A q, r \in Publisher : q # r /\ event'[q] # 0 => event'[q] # event'[r]
    BY <1>1 DEF EventInv, NumberInv
  <2>3. published' = published
    BY <1>1
  <2> QED
    BY <2>1, <2>2, <2>3 DEF NumberInv
<1>9. OnceInv'
  <2>1. \A q \in Stream : Distinct(Sent(q)')
    BY <1>4, <1>7 DEF EventInv, OnceInv
  <2>2. ASSUME NEW r \in Publisher, NEW q \in todo'[r] PROVE event[r] \notin ToSet(Sent(q)')
    <3>1. q \in todo[r] /\ q \in Stream /\ ~(q = s /\ r = p)
      BY <1>1, <1>2, <2>2
    <3>2. event[r] \notin ToSet(Sent(q))
      BY <3>1 DEF EventInv, OnceInv
    <3>3. CASE q # s
      BY <1>4, <3>1, <3>2, <3>3
    <3>4. CASE q = s
      <4>1. event[r] # 0
        BY <3>1 DEF StreamInv, LockInv
      <4>2. event[r] # event[p]
        BY <3>1, <3>4, <4>1 DEF EventInv, NumberInv
      <4> QED
        BY <1>7, <3>2, <3>4, <4>2
    <3> QED
      BY <3>3, <3>4
  <2>3. event' = event
    BY <1>1
  <2> QED
    BY <2>1, <2>2, <2>3 DEF OnceInv
<1>10. OfferInv'
  <2>1. ASSUME NEW e \in Event, e <= published, NEW q \in audience[e]
        PROVE  \/ e \in ToSet(Sent(q)') \cup missed'[q]
               \/ \E r \in Publisher : event[r] = e /\ q \in todo'[r]
    <3>1. q \in Stream
      BY <1>2, <2>1
    <3>2. CASE e \in ToSet(Sent(q)) \cup missed[q]
      BY <1>4, <1>5, <1>7, <3>1, <3>2
    <3>3. ASSUME NEW r \in Publisher, event[r] = e, q \in todo[r]
          PROVE  e \in ToSet(Sent(q)') \cup missed'[q] \/ q \in todo'[r]
      BY <1>1, <1>2, <1>7, <3>3
    <3> QED
      BY <2>1, <3>2, <3>3 DEF EventInv, OfferInv
  <2>2. UNCHANGED <<published, event, audience>>
    BY <1>1
  <2> QED
    BY <2>1, <2>2 DEF OfferInv
<1> QED
  BY <1>8, <1>9, <1>10 DEF EventInv

\* Every step keeps the invariant.
LEMMA EventStep == ASSUME StreamInv, EventInv, [Next]_vars PROVE EventInv'
<1>1. TypeOK
  BY DEF StreamInv
<1>2. ASSUME UNCHANGED <<publisherVars, missed, received, channel>> PROVE EventInv'
  <2>1. \A s \in Stream : Sent(s)' = Sent(s)
    BY <1>2 DEF Sent
  <2> QED
    BY <1>1, <1>2, <2>1, QuietStep
<1>3. ASSUME NEW p \in Publisher, Broadcast(p) \/ Visit(p) PROVE EventInv'
  BY <1>3, BroadcastEvents, EndBroadcastEvents, OfferEvents DEF Visit
<1>4. ASSUME NEW s \in Stream, Receive(s) PROVE EventInv'
  <2>1. UNCHANGED <<publisherVars, missed>>
    BY <1>4 DEF Receive
  <2> QED
    BY <1>1, <1>4, <2>1, ReadIsQuiet, QuietStep
<1>5. ASSUME NEW s \in Stream,
             \/ Subscribe(s) \/ Notified(s) \/ Keepalive(s) \/ Unsubscribing(s)
             \/ Write(s) \/ End(s) \/ Break(s)
      PROVE  EventInv'
  BY <1>2, <1>5 DEF Subscribe, Notified, Keepalive, Unsubscribing, Unsubscribe, Close, Write,
                    End, Break
<1>6. CASE UNCHANGED vars
  BY <1>2, <1>6 DEF vars
<1> QED
  BY <1>3, <1>4, <1>5, <1>6 DEF Next, Handler

\* With the first invariant it is inductive.
LEMMA EventInvCorrect == Spec => []EventInv
<1>1. StreamInv /\ EventInv /\ [Next]_vars => EventInv'
  BY EventStep
<1> QED
  BY <1>1, EventInit, StreamInvCorrect, PTL DEF Spec

(***************************************************************************)
(* When a broadcast is over, each client it began with has been sent the   *)
(* event or had no room for it, whatever the other clients did.            *)
(***************************************************************************)
THEOREM EveryClientIsOfferedHolds == Spec => []EveryClientIsOffered
<1>1. EventInv => EveryClientIsOffered
  BY DEF EventInv, OfferInv, EveryClientIsOffered, Over, Sent
<1> QED
  BY <1>1, EventInvCorrect, PTL

(***************************************************************************)
(* No client gets an event twice.                                          *)
(***************************************************************************)
THEOREM NothingTwiceHolds == Spec => []NothingTwice
<1>1. EventInv => NothingTwice
  BY DEF EventInv, OnceInv, NothingTwice, Distinct, Sent
<1> QED
  BY <1>1, EventInvCorrect, PTL
-----------------------------------------------------------------------------
(***************************************************************************)
(* Broadcasts that overlap may reach two clients in different orders: all  *)
(* hold the lock for reading.  But what was published when a broadcast was *)
(* already over reaches no client ahead of that broadcast's event.         *)
(***************************************************************************)
NeverBefore(d, e) ==
    \A s \in Stream : \A i, j \in 1..Len(Sent(s)) :
        i < j /\ Sent(s)[i] = d => Sent(s)[j] # e

InOrder == \A e, d \in Event : [](Over(e) /\ published < d => []NeverBefore(d, e))

\* A client is sent nothing but the event of a broadcast that is under way.
LEMMA SentGrows ==
    ASSUME StreamInv, EventInv, [Next]_vars, NEW s \in Stream
    PROVE  \/ Sent(s)' = Sent(s)
           \/ \E p \in Publisher : /\ event[p] \in Event
                                   /\ Sent(s)' = Append(Sent(s), event[p])
<1>1. CASE UNCHANGED <<received, channel>>
  BY <1>1 DEF Sent
<1>2. ASSUME NEW p \in Publisher, NEW q \in Stream, Offer(p, q)
      PROVE  \/ Sent(s)' = Sent(s)
             \/ event[p] \in Event /\ Sent(s)' = Append(Sent(s), event[p])
  BY <1>2, OfferSends
<1>3. ASSUME NEW q \in Stream, Receive(q) PROVE Sent(s)' = Sent(s)
  BY <1>3, ReadIsQuiet DEF StreamInv
<1>4. \/ UNCHANGED <<received, channel>>
      \/ \E p \in Publisher, q \in Stream : Offer(p, q)
      \/ \E q \in Stream : Receive(q)
  BY DEF Next, Broadcast, Visit, EndBroadcast, Subscribe, Handler, Notified, Keepalive,
         Unsubscribing, Unsubscribe, Close, Write, End, Break, vars
<1> QED
  BY <1>1, <1>2, <1>3, <1>4

\* A broadcast that is over stays over: the next one has a number nobody had.
LEMMA OverStays ==
    ASSUME StreamInv, [Next]_vars, NEW e \in Event, Over(e) PROVE Over(e)'
<1>1. published \in Nat /\ event \in [Publisher -> 0..MaxEvents] /\ e \in Nat /\ e # 0
  BY EventStreamAssumption DEF StreamInv, TypeOK, Event
<1>2. \/ UNCHANGED <<published, event>>
      \/ \E p \in Publisher : \/ Broadcast(p)
                             \/ EndBroadcast(p)
  BY DEF Next, Visit, Offer, Subscribe, Handler, Notified, Receive, Keepalive,
         Unsubscribing, Unsubscribe, Close, Write, End, Break, vars, publisherVars
<1> QED
  BY <1>1, <1>2 DEF Broadcast, EndBroadcast, Over

\* An event whose broadcast is over is sent to nobody again.
LEMMA OrderStep ==
    ASSUME StreamInv, EventInv, [Next]_vars,
           NEW e \in Event, NEW d \in Event, Over(e), NeverBefore(d, e)
    PROVE  NeverBefore(d, e)'
<1> SUFFICES ASSUME NEW s \in Stream,
                    NEW i \in 1..Len(Sent(s)'), NEW j \in 1..Len(Sent(s)'),
                    i < j, Sent(s)'[i] = d
             PROVE  Sent(s)'[j] # e
  BY DEF NeverBefore
<1>1. CASE Sent(s)' = Sent(s)
  BY <1>1 DEF NeverBefore
<1>2. ASSUME NEW p \in Publisher, event[p] \in Event,
             Sent(s)' = Append(Sent(s), event[p])
      PROVE  Sent(s)'[j] # e
  <2> DEFINE q == Sent(s)
  <2>1. q \in Seq(Event)
    BY SentType DEF StreamInv
  <2>2. event[p] # e
    BY DEF Over
  <2>3. \A k, l \in 1..Len(q) : k < l /\ q[k] = d => q[l] # e
    BY DEF NeverBefore
  <2>4. /\ Len(Append(q, event[p])) = Len(q) + 1 /\ Len(q) \in Nat
        /\ \A k \in 1..Len(q) : Append(q, event[p])[k] = q[k]
        /\ Append(q, event[p])[Len(q) + 1] = event[p]
    BY <1>2, <2>1, AppendProperties, LenProperties
  <2>5. Sent(s)' = Append(q, event[p])
    BY <1>2
  <2> HIDE DEF q
  <2> QED
    BY <2>2, <2>3, <2>4, <2>5
<1> QED
  BY <1>1, <1>2, SentGrows

(***************************************************************************)
(* Broadcasts that do not overlap arrive at every client in their order,   *)
(* for any number of publishers and clients that lag and leave.            *)
(***************************************************************************)
THEOREM InOrderHolds == Spec => InOrder
<1> SUFFICES ASSUME NEW e \in Event, NEW d \in Event
             PROVE  Spec => [](Over(e) /\ published < d => []NeverBefore(d, e))
  BY DEF InOrder
<1>1. StreamInv /\ EventInv /\ Over(e) /\ published < d => NeverBefore(d, e)
  <2> SUFFICES ASSUME StreamInv, EventInv, published < d, NEW s \in Stream
               PROVE  \A i \in 1..Len(Sent(s)) : Sent(s)[i] # d
    BY DEF NeverBefore
  <2>1. published \in Nat /\ d \in Nat
    BY EventStreamAssumption DEF StreamInv, TypeOK, Event
  <2>2. Sent(s) \in Seq(Event)
    BY SentType DEF StreamInv
  <2>3. \A i \in 1..Len(Sent(s)) : Sent(s)[i] \in ToSet(Sent(s))
    BY <2>2, LenProperties DEF ToSet
  <2> QED
    BY <2>1, <2>3 DEF EventInv, NumberInv
<1>2. StreamInv /\ EventInv /\ [Next]_vars /\ Over(e) /\ NeverBefore(d, e)
      => Over(e)' /\ NeverBefore(d, e)'
  BY OverStays, OrderStep
<1> QED
  BY <1>1, <1>2, StreamInvCorrect, EventInvCorrect, PTL DEF Spec
=============================================================================
