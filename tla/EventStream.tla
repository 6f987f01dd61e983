---------------------------- MODULE EventStream ----------------------------
(***************************************************************************)
(* The hub of server-sent events and the handlers of GET /api/events       *)
(* (internal/api/sse.go).  A Stream is one request; a Publisher is a       *)
(* goroutine that calls Broadcast.  The program has no such call yet, so   *)
(* publishers are external.  An event is known by its number.              *)
(*                                                                         *)
(* h.mu is an RWMutex: broadcasts hold it for reading while they go        *)
(* through the clients, in any order; Subscribe and Unsubscribe change the *)
(* map when no broadcast holds it.  Whether the context of a request ends  *)
(* when its client leaves, and whether a write then fails or only fills a  *)
(* buffer, is decided by the web framework: both may happen or not.        *)
(***************************************************************************)
EXTENDS Naturals, Sequences, SequencesExt

CONSTANTS
    Stream,
    Publisher,
    Capacity,       \* of a client's channel (16)
    MaxEvents       \* a bound on the events published

ASSUME EventStreamAssumption == Capacity \in Nat \ {0} /\ MaxEvents \in Nat

VARIABLES
    \* SSEHub
    clients,        \* the streams whose channel is in SSEHub.clients
    channel,        \* what each channel holds
    closed,         \* the streams whose channel is closed
    \* Broadcast
    published,      \* events so far; the number of the newest one
    event,          \* publisher -> its event, 0 while it publishes none
    todo,           \* publisher -> clients its loop has still to visit
    \* handleSSE
    pc,             \* control point of each stream
    received,       \* the events taken from the channel so far
    ended,          \* streams whose context is done
    broken,         \* streams whose writes fail
    \* observer, read by properties only
    audience,       \* event -> the clients when its broadcast began
    missed          \* stream -> events that found its channel full

hubVars == <<clients, closed>>
publisherVars == <<published, event, todo, audience>>
vars == <<hubVars, channel, publisherVars, pc, received, ended, broken, missed>>

Event == 1..MaxEvents

StreamPC == {"idle",
             "select",  \* in the select of handleSSE
             "write",   \* in c.Write
             "leave",   \* returned: Unsubscribe is about to take the lock
             "close",   \* Unsubscribe has released it
             "done"}

TypeOK ==
    /\ clients \in SUBSET Stream
    /\ closed \in SUBSET Stream
    /\ channel \in [Stream -> Seq(Event)]
    /\ \A s \in Stream : Len(channel[s]) <= Capacity
    /\ published \in 0..MaxEvents
    /\ event \in [Publisher -> 0..MaxEvents]
    /\ todo \in [Publisher -> SUBSET Stream]
    /\ pc \in [Stream -> StreamPC]
    /\ received \in [Stream -> Seq(Event)]
    /\ ended \in SUBSET Stream
    /\ broken \in SUBSET Stream
    /\ audience \in [Event -> SUBSET Stream]
    /\ missed \in [Stream -> SUBSET Event]

Init ==
    /\ clients = {}
    /\ closed = {}
    /\ channel = [s \in Stream |-> <<>>]
    /\ published = 0
    /\ event = [p \in Publisher |-> 0]
    /\ todo = [p \in Publisher |-> {}]
    /\ pc = [s \in Stream |-> "idle"]
    /\ received = [s \in Stream |-> <<>>]
    /\ ended = {}
    /\ broken = {}
    /\ audience = [e \in Event |-> {}]
    /\ missed = [s \in Stream |-> {}]

-----------------------------------------------------------------------------
Goes(s, from, to) == pc[s] = from /\ pc' = [pc EXCEPT ![s] = to]

\* No broadcast holds h.mu for reading, so a writer can take it.
Unlocked == \A p \in Publisher : event[p] = 0

(***************************************************************************)
(* Broadcast: the lock is taken, each client is offered the event without  *)
(* waiting for room, and the lock is released.                             *)
(***************************************************************************)
Broadcast(p) ==
    /\ event[p] = 0 /\ published < MaxEvents
    /\ published' = published + 1
    /\ event' = [event EXCEPT ![p] = published']
    /\ todo' = [todo EXCEPT ![p] = clients]
    /\ audience' = [audience EXCEPT ![published'] = clients]
    /\ UNCHANGED <<hubVars, channel, pc, received, ended, broken, missed>>

Full(s) == Len(channel[s]) >= Capacity

\* Mutant of Offer: the send has no default and waits for room.
OfferWaiting(p, s) ==
    /\ s \in todo[p] /\ ~Full(s)
    /\ todo' = [todo EXCEPT ![p] = @ \ {s}]
    /\ channel' = [channel EXCEPT ![s] = Append(@, event[p])]
    /\ UNCHANGED <<hubVars, published, event, audience, pc, received, ended, broken, missed>>

\* Mutant of Offer: the loop ends at the first client without room.
OfferOrReturn(p, s) ==
    /\ s \in todo[p]
    /\ IF Full(s)
       THEN /\ todo' = [todo EXCEPT ![p] = {}]
            /\ missed' = [missed EXCEPT ![s] = @ \cup {event[p]}]
            /\ UNCHANGED channel
       ELSE /\ todo' = [todo EXCEPT ![p] = @ \ {s}]
            /\ channel' = [channel EXCEPT ![s] = Append(@, event[p])]
            /\ UNCHANGED missed
    /\ UNCHANGED <<hubVars, published, event, audience, pc, received, ended, broken>>

\* Mutant of Offer: the channel takes one event more than it has room for.
OfferUnbounded(p, s) ==
    /\ s \in todo[p]
    /\ todo' = [todo EXCEPT ![p] = @ \ {s}]
    /\ channel' = [channel EXCEPT ![s] = Append(@, event[p])]
    /\ UNCHANGED <<hubVars, published, event, audience, pc, received, ended, broken, missed>>

Offer(p, s) ==
    /\ s \in todo[p]
    /\ todo' = [todo EXCEPT ![p] = @ \ {s}]
    /\ IF Full(s)
       THEN missed' = [missed EXCEPT ![s] = @ \cup {event[p]}] /\ UNCHANGED channel
       ELSE channel' = [channel EXCEPT ![s] = Append(@, event[p])] /\ UNCHANGED missed
    /\ UNCHANGED <<hubVars, published, event, audience, pc, received, ended, broken>>

EndBroadcast(p) ==
    /\ event[p] # 0 /\ todo[p] = {}
    /\ event' = [event EXCEPT ![p] = 0]
    /\ UNCHANGED <<hubVars, channel, published, todo, audience, pc, received, ended,
                   broken, missed>>

-----------------------------------------------------------------------------
(***************************************************************************)
(* handleSSE: Subscribe, the select and its three cases, a write that goes *)
(* through or ends the handler, and the deferred Unsubscribe.              *)
(***************************************************************************)
Subscribe(s) ==
    /\ Unlocked
    /\ Goes(s, "idle", "select")
    /\ clients' = clients \cup {s}
    /\ UNCHANGED <<closed, channel, publisherVars, received, ended, broken, missed>>

Notified(s) ==
    /\ s \in ended
    /\ Goes(s, "select", "leave")
    /\ UNCHANGED <<hubVars, channel, publisherVars, received, ended, broken, missed>>

\* Mutant of Receive: the event that is written stays in the channel.
ReceiveKeeping(s) ==
    /\ channel[s] # <<>> /\ Len(received[s]) < MaxEvents
    /\ Goes(s, "select", "write")
    /\ received' = [received EXCEPT ![s] = Append(@, Head(channel[s]))]
    /\ UNCHANGED <<hubVars, channel, publisherVars, ended, broken, missed>>

Receive(s) ==
    /\ channel[s] # <<>>
    /\ Goes(s, "select", "write")
    /\ received' = [received EXCEPT ![s] = Append(@, Head(channel[s]))]
    /\ channel' = [channel EXCEPT ![s] = Tail(@)]
    /\ UNCHANGED <<hubVars, publisherVars, ended, broken, missed>>

Keepalive(s) ==
    /\ Goes(s, "select", "write")
    /\ UNCHANGED <<hubVars, channel, publisherVars, received, ended, broken, missed>>

\* Mutant of Write: the error of a failed write is dropped.
WriteOn(s) ==
    /\ Goes(s, "write", "select")
    /\ UNCHANGED <<hubVars, channel, publisherVars, received, ended, broken, missed>>

Write(s) ==
    /\ IF s \in broken THEN Goes(s, "write", "leave") ELSE Goes(s, "write", "select")
    /\ UNCHANGED <<hubVars, channel, publisherVars, received, ended, broken, missed>>

\* Mutant of Unsubscribe: the channel is closed before it leaves the map.
UnsubscribeClosing(s) ==
    /\ Goes(s, "leave", "close")
    /\ closed' = closed \cup {s}
    /\ UNCHANGED <<clients, channel, publisherVars, received, ended, broken, missed>>

Unsubscribe(s) ==
    /\ Unlocked
    /\ Goes(s, "leave", "close")
    /\ clients' = clients \ {s}
    /\ UNCHANGED <<closed, channel, publisherVars, received, ended, broken, missed>>

Close(s) ==
    /\ Goes(s, "close", "done")
    /\ closed' = closed \cup {s}
    /\ UNCHANGED <<clients, channel, publisherVars, received, ended, broken, missed>>

-----------------------------------------------------------------------------
\* The context of a request ends, or its connection stops taking data.
End(s) ==
    /\ pc[s] \in {"select", "write"} /\ s \notin ended
    /\ ended' = ended \cup {s}
    /\ UNCHANGED <<hubVars, channel, publisherVars, pc, received, broken, missed>>

Break(s) ==
    /\ pc[s] \in {"select", "write"} /\ s \notin broken
    /\ broken' = broken \cup {s}
    /\ UNCHANGED <<hubVars, channel, publisherVars, pc, received, ended, missed>>

Visit(p) == EndBroadcast(p) \/ \E s \in Stream : Offer(p, s)
Unsubscribing(s) == Unsubscribe(s) \/ Close(s)
Handler(s) == Notified(s) \/ Receive(s) \/ Keepalive(s) \/ Unsubscribing(s)

Next ==
    \/ \E p \in Publisher : Broadcast(p) \/ Visit(p)
    \/ \E s \in Stream : \/ Subscribe(s) \/ Handler(s) \/ Write(s)
                         \/ End(s) \/ Break(s)

Spec == Init /\ [][Next]_vars

(***************************************************************************)
(* Goroutines that can run do; the ticker of a stream keeps its select     *)
(* from waiting for ever, and select picks among ready cases at random, so *)
(* a context that is done is noticed in the end.  A write to a client that *)
(* neither reads nor leaves may block: only a broken one has to return.    *)
(* The bound on events makes broadcasts stop; in the program it is the     *)
(* preference of RWMutex for writers that lets Unsubscribe in.             *)
(***************************************************************************)
Fairness ==
    /\ \A p \in Publisher : WF_vars(Visit(p))
    /\ \A s \in Stream : /\ WF_vars(Handler(s))
                         /\ SF_vars(Notified(s))
                         /\ WF_vars(s \in broken /\ Write(s))

FairSpec == Spec /\ Fairness

-----------------------------------------------------------------------------
(***************************************************************************)
(* Properties.                                                             *)
(***************************************************************************)
(***************************************************************************)
(* A broadcast never sends on a closed channel, which would panic in the   *)
(* publisher: Unsubscribe closes it outside the lock, after every          *)
(* broadcast that knew the client has gone past it.                        *)
(***************************************************************************)
NeverSendsOnClosed == \A p \in Publisher : todo[p] \cap closed = {}

(***************************************************************************)
(* Once a broadcast is over, each client it began with has the event: it   *)
(* has been taken or waits in the channel, unless this very channel was    *)
(* full.  A client that lags costs no other client an event.               *)
(***************************************************************************)
Over(e) == e <= published /\ \A p \in Publisher : event[p] # e

EveryClientIsOffered ==
    \A e \in Event : Over(e) => \A s \in audience[e] :
        e \in ToSet(received[s] \o channel[s]) \cup missed[s]

(***************************************************************************)
(* A client gets no event twice, however broadcasts of several publishers  *)
(* and its own reads interleave.                                           *)
(***************************************************************************)
NothingTwice ==
    \A s \in Stream : LET all == received[s] \o channel[s] IN
        \A i, j \in 1..Len(all) : i # j => all[i] # all[j]

(***************************************************************************)
(* A broadcast ends whatever the clients do, also when one of them blocks  *)
(* in a write for ever and its channel is full.                            *)
(***************************************************************************)
BroadcastsEnd == \A p \in Publisher : event[p] # 0 ~> event[p] = 0

(***************************************************************************)
(* A handler whose writes fail returns, unsubscribed and with its channel  *)
(* closed, by the keepalive alone if nothing is published; and so does one *)
(* whose context is done, unless it is in one write for ever.              *)
(***************************************************************************)
StreamsEnd ==
    \A s \in Stream :
        /\ s \in broken ~> (pc[s] = "done" /\ s \notin clients)
        /\ <>[](s \in ended => pc[s] \in {"write", "done"})
=============================================================================
