------------------------------- MODULE Tunnel -------------------------------
(***************************************************************************)
(* One CONNECT request of the HTTP proxy (HTTPProxy.handleConnect in       *)
(* internal/proxy/http.go): dial the destination, take the connection over *)
(* from net/http, and let two goroutines copy, one per direction, until    *)
(* one of them is done.  Tunnels share nothing, so one is enough.          *)
(*                                                                         *)
(* Data is counted, not kept: connections are FIFO.  A peer may stop       *)
(* sending (half), or disappear or reset (gone), at any time, may stop     *)
(* reading, and has a receive window.  net/http lifts its timeouts from a  *)
(* connection that is taken over, and forgets it.                          *)
(***************************************************************************)
EXTENDS Integers

CONSTANTS
    MaxData, \* a bound on what each peer sends
    Window   \* what a peer that does not read still accepts

ASSUME TunnelAssumption == MaxData \in Nat /\ Window \in Nat \ {0}

Peer == {"client", "dest"}
\* A direction is named after the peer it comes from.
To(p) == IF p = "client" THEN "dest" ELSE "client"

VARIABLES
    pc,       \* the handler
    conn,     \* clientConn and destConn
    copier,   \* the goroutine that reads from a peer
    done,     \* signals in the channel of that name
    \* the peers and the network
    peer,     \* what a peer still does
    sent,     \* by a peer
    read,     \* from a peer, by its copier or into a buffer that is dropped
    written,  \* of what a peer sent, to the other one
    received, \* of what a peer sent, by the other one
    \* observer, read by properties only
    dropped,  \* of what a peer sent, with the buffer of net/http
    cut       \* net/http closed the client's connection while it knew it

dataVars == <<sent, read, written, received, dropped>>
vars == <<pc, conn, copier, done, peer, dataVars, cut>>

TypeOK ==
    /\ pc \in {"dial", "hijack", "answer", "wait", "closeClient", "closeDest", "over"}
    /\ conn \in [Peer -> {"none", "open", "closed"}]
    /\ copier \in [Peer -> {"none", "read", "write", "signal", "ended"}]
    /\ done \in 0..2
    /\ peer \in [Peer -> {"open", "half", "gone"}]
    /\ sent \in [Peer -> Nat] /\ read \in [Peer -> Nat] /\ written \in [Peer -> Nat]
    /\ received \in [Peer -> Nat] /\ dropped \in [Peer -> Nat]
    /\ cut \in BOOLEAN
    /\ pc \in {"hijack", "answer", "wait", "closeClient", "closeDest"} =>
          conn["dest"] = "open"
    /\ pc \in {"dial", "hijack", "answer"} => \A p \in Peer : copier[p] = "none"

Zero == [p \in Peer |-> 0]

Init ==
    /\ pc = "dial"
    /\ conn = [p \in Peer |-> IF p = "client" THEN "open" ELSE "none"]
    /\ copier = [p \in Peer |-> "none"]
    /\ done = 0
    /\ peer = [p \in Peer |-> "open"]
    /\ sent = Zero /\ read = Zero /\ written = Zero /\ received = Zero
    /\ dropped = Zero
    /\ cut = FALSE

-----------------------------------------------------------------------------
(***************************************************************************)
(* handleConnect.                                                          *)
(***************************************************************************)
Goes(from, to) == pc = from /\ pc' = to

DialSucceeds ==
    /\ Goes("dial", "hijack")
    /\ conn' = [conn EXCEPT !["dest"] = "open"]
    /\ UNCHANGED <<copier, done, peer, dataVars, cut>>

\* Mutant of DialFails: the handler does not return.
DialFailsOn ==
    /\ Goes("dial", "hijack")
    /\ UNCHANGED <<conn, copier, done, peer, dataVars, cut>>

DialFails ==
    /\ Goes("dial", "over")
    /\ UNCHANGED <<conn, copier, done, peer, dataVars, cut>>

(***************************************************************************)
(* What net/http has read behind the request goes with the buffer that     *)
(* Hijack returns and the handler drops.                                   *)
(***************************************************************************)
Hijack ==
    /\ Goes("hijack", "answer")
    /\ \E n \in 0..sent["client"] :
          /\ read' = [read EXCEPT !["client"] = n]
          /\ dropped' = [dropped EXCEPT !["client"] = n]
    /\ UNCHANGED <<conn, copier, done, peer, sent, written, received, cut>>

\* Only the destination's connection is closed by a deferred call yet.
HijackFails ==
    /\ Goes("hijack", "closeDest")
    /\ UNCHANGED <<conn, copier, done, peer, dataVars, cut>>

\* The answer, whose error nobody looks at, and the two goroutines.
Answer ==
    /\ Goes("answer", "wait")
    /\ copier' = [p \in Peer |-> "read"]
    /\ UNCHANGED <<conn, done, peer, dataVars, cut>>

\* Mutant of Wait: the handler returns at once.
WaitForNone ==
    /\ Goes("wait", "closeClient")
    /\ UNCHANGED <<conn, copier, done, peer, dataVars, cut>>

Wait ==
    /\ done > 0
    /\ Goes("wait", "closeClient")
    /\ done' = done - 1
    /\ UNCHANGED <<conn, copier, peer, dataVars, cut>>

\* The deferred calls, last first.
CloseClient ==
    /\ Goes("closeClient", "closeDest")
    /\ conn' = [conn EXCEPT !["client"] = "closed"]
    /\ UNCHANGED <<copier, done, peer, dataVars, cut>>

CloseDest ==
    /\ Goes("closeDest", "over")
    /\ conn' = [conn EXCEPT !["dest"] = "closed"]
    /\ UNCHANGED <<copier, done, peer, dataVars, cut>>

-----------------------------------------------------------------------------
(***************************************************************************)
(* The goroutine that copies from p: io.Copy, then a signal.               *)
(***************************************************************************)
CopierGoes(p, from, to) == copier[p] = from /\ copier' = [copier EXCEPT ![p] = to]

Read(p) ==
    /\ conn[p] = "open" /\ read[p] < sent[p]
    /\ CopierGoes(p, "read", "write")
    /\ read' = [read EXCEPT ![p] = @ + 1]
    /\ UNCHANGED <<pc, conn, done, peer, sent, written, received, dropped, cut>>

\* End of file, a reset, or a connection the handler has closed.
NothingToRead(p) ==
    \/ conn[p] = "closed"
    \/ peer[p] = "half" /\ read[p] = sent[p]
    \/ peer[p] = "gone"

ReadEnds(p) ==
    /\ NothingToRead(p)
    /\ CopierGoes(p, "read", "signal")
    /\ UNCHANGED <<pc, conn, done, peer, dataVars, cut>>

\* A write waits while the window of the receiver is full.
Write(p) ==
    /\ conn[To(p)] = "open" /\ peer[To(p)] # "gone"
    /\ written[p] - received[p] < Window
    /\ CopierGoes(p, "write", "read")
    /\ written' = [written EXCEPT ![p] = @ + 1]
    /\ UNCHANGED <<pc, conn, done, peer, sent, read, received, dropped, cut>>

NobodyToWriteTo(p) == conn[To(p)] = "closed" \/ peer[To(p)] = "gone"

WriteFails(p) ==
    /\ NobodyToWriteTo(p)
    /\ CopierGoes(p, "write", "signal")
    /\ UNCHANGED <<pc, conn, done, peer, dataVars, cut>>

\* Mutant of Room: the channel has no buffer.
RoomUnbuffered == pc = "wait" /\ done = 0

\* The channel holds two signals: nobody need wait for the second one.
Room == done < 2

Signal(p) ==
    /\ Room
    /\ CopierGoes(p, "signal", "ended")
    /\ done' = done + 1
    /\ UNCHANGED <<pc, conn, peer, dataVars, cut>>

-----------------------------------------------------------------------------
\* Mutant of ServerClose: it finds a connection that was taken over, too.
ServerCloseTunnels ==
    /\ pc \in {"dial", "hijack", "answer", "wait"} /\ ~cut
    /\ conn' = [conn EXCEPT !["client"] = "closed"]
    /\ cut' = (pc \in {"dial", "hijack"})
    /\ UNCHANGED <<pc, copier, done, peer, dataVars>>

\* Manager.StopProxy: http.Server.Close closes the connections it still knows.
ServerClose ==
    /\ pc \in {"dial", "hijack"} /\ ~cut
    /\ conn' = [conn EXCEPT !["client"] = "closed"]
    /\ cut' = TRUE
    /\ UNCHANGED <<pc, copier, done, peer, dataVars>>

\* The client may also send before it is answered.
Send(p) ==
    /\ conn[p] = "open" /\ peer[p] = "open" /\ sent[p] < MaxData
    /\ sent' = [sent EXCEPT ![p] = @ + 1]
    /\ UNCHANGED <<pc, conn, copier, done, peer, read, written, received, dropped, cut>>

Receive(p) ==
    /\ peer[To(p)] # "gone" /\ received[p] < written[p]
    /\ received' = [received EXCEPT ![p] = @ + 1]
    /\ UNCHANGED <<pc, conn, copier, done, peer, sent, read, written, dropped, cut>>

Leave(p) ==
    /\ conn[p] # "none"
    /\ \/ peer[p] = "open" /\ peer' = [peer EXCEPT ![p] = "half"]
       \/ peer[p] # "gone" /\ peer' = [peer EXCEPT ![p] = "gone"]
    /\ UNCHANGED <<pc, conn, copier, done, dataVars, cut>>

Handler ==
    \/ DialSucceeds \/ DialFails
    \/ Hijack \/ HijackFails
    \/ Answer
    \/ Wait
    \/ CloseClient \/ CloseDest

Copier(p) == Read(p) \/ ReadEnds(p) \/ Write(p) \/ WriteFails(p) \/ Signal(p)

Next ==
    \/ Handler
    \/ ServerClose
    \/ \E p \in Peer : Copier(p) \/ Send(p) \/ Receive(p) \/ Leave(p)

Spec == Init /\ [][Next]_vars

\* The goroutines run.  Nothing is asked of the peers.
Fairness == WF_vars(Handler) /\ \A p \in Peer : WF_vars(Copier(p))

FairSpec == Spec /\ Fairness

-----------------------------------------------------------------------------
(***************************************************************************)
(* Properties.                                                             *)
(***************************************************************************)
PassedOn(p) == written[p] + dropped[p] = sent[p]

(***************************************************************************)
(* What a tunnel may lose.  The first goroutine that ends cuts the other   *)
(* one off in mid-copy, so a peer that stops sending but still reads may   *)
(* miss the rest of the answer.  Nothing else is lost: when no peer reset  *)
(* its connection, all that a peer sent was passed on (but for what the    *)
(* client sent before it was answered), unless the receiver had stopped    *)
(* sending and everything of its own was passed on.  So a receiver that    *)
(* has not stopped sending misses nothing, nor is anything lost in both    *)
(* directions.                                                             *)
(***************************************************************************)
LostOnlyBehindAHalfClose ==
    /\ pc = "over" /\ copier["client"] # "none" /\ ~cut
    /\ \A p \in Peer : peer[p] # "gone"
    => \A p \in Peer : PassedOn(p) \/ (peer[To(p)] = "half" /\ PassedOn(To(p)))

(***************************************************************************)
(* A tunnel that stands ends because of its peers alone.  Its handler goes *)
(* on to close both connections only once a peer has stopped sending or    *)
(* left: neither a stop of the proxy, whose net/http no longer knows the   *)
(* connection, nor any of its timeouts ends it.                            *)
(***************************************************************************)
EndsOnlyByAPeer ==
    /\ copier["client"] # "none" /\ ~cut
    /\ \/ pc # "wait"
       \/ \E p \in Peer : copier[p] \in {"signal", "ended"}
    => \E p \in Peer : peer[p] # "open"

(***************************************************************************)
(* The end of one direction ends the tunnel: both goroutines, the handler  *)
(* and both connections, although the other peer may neither send nor read *)
(* nor leave and no timeout is left.                                       *)
(***************************************************************************)
TunnelOver ==
    /\ pc = "over"
    /\ \A p \in Peer : conn[p] = "closed" /\ copier[p] = "ended"

OneEndEndsAll == \A p \in Peer : copier[p] = "signal" ~> TunnelOver
=============================================================================
