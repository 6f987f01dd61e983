---------------------------- MODULE TunnelProofs ----------------------------
(***************************************************************************)
(* Theorems about a CONNECT tunnel, for any amount of data and any window. *)
(***************************************************************************)
EXTENDS Tunnel, TLAPS

\* The inductive step of the types.
LEMMA TypeStep == TypeOK /\ [Next]_vars => TypeOK'
<1> SUFFICES ASSUME TypeOK, [Next]_vars PROVE TypeOK'
  OBVIOUS
<1>1. CASE Handler
  <2>1. CASE DialSucceeds \/ DialFails \/ Answer \/ Wait
    BY <2>1 DEF TypeOK, Peer, DialSucceeds, DialFails, Answer, Wait, Goes, dataVars
  <2>2. CASE Hijack
    BY <2>2 DEF TypeOK, Peer, Hijack, Goes
  <2>3. CASE HijackFails \/ CloseClient \/ CloseDest
    BY <2>3 DEF TypeOK, Peer, HijackFails, CloseClient, CloseDest, Goes, dataVars
  <2> QED BY <1>1, <2>1, <2>2, <2>3 DEF Handler
<1>2. CASE ServerClose
  BY <1>2 DEF TypeOK, Peer, ServerClose, dataVars
<1>3. ASSUME NEW p \in Peer, Copier(p) PROVE TypeOK'
  <2>1. CASE Read(p) \/ Write(p)
    BY <1>3, <2>1 DEF TypeOK, Read, Write, CopierGoes
  <2>2. CASE ReadEnds(p) \/ WriteFails(p) \/ Signal(p)
    BY <1>3, <2>2 DEF TypeOK, ReadEnds, WriteFails, Signal, Room, CopierGoes, dataVars
  <2> QED BY <1>3, <2>1, <2>2 DEF Copier
<1>4. ASSUME NEW p \in Peer, Send(p) \/ Receive(p) \/ Leave(p) PROVE TypeOK'
  BY <1>4 DEF TypeOK, Send, Receive, Leave, dataVars
<1>5. CASE UNCHANGED vars
  BY <1>5 DEF TypeOK, vars, dataVars
<1> QED BY <1>1, <1>2, <1>3, <1>4, <1>5 DEF Next

(***************************************************************************)
(* The handler never goes on without a connection to the destination, and  *)
(* the channel never holds more signals than it has room for.              *)
(***************************************************************************)
THEOREM TypeCorrect == Spec => []TypeOK
<1>1. ASSUME Init PROVE TypeOK
  <2>1. /\ conn \in [Peer -> {"none", "open", "closed"}]
        /\ copier \in [Peer -> {"none", "read", "write", "signal", "ended"}]
        /\ peer \in [Peer -> {"open", "half", "gone"}]
        /\ Zero \in [Peer -> Nat]
    BY <1>1 DEF Init, Zero
  <2>2. \A p \in Peer : copier[p] = "none"
    BY <1>1 DEF Init
  <2>3. pc = "dial" /\ done = 0 /\ cut \in BOOLEAN
    BY <1>1 DEF Init
  <2> QED BY <1>1, <2>1, <2>2, <2>3 DEF Init, TypeOK
<1> QED BY <1>1, TypeStep, PTL DEF Spec

-----------------------------------------------------------------------------
\* What a goroutine has read it has written, but for what it holds.
CopyInv ==
    \A p \in Peer :
        /\ read[p] <= sent[p]
        /\ copier[p] \in {"none", "read"} => read[p] = written[p] + dropped[p]
        /\ copier[p] = "write" => read[p] = written[p] + dropped[p] + 1

\* A reason to end: a peer that is gone, or a direction that is complete.
GoodEnd(p) ==
    \/ peer[p] = "gone" \/ peer[To(p)] = "gone"
    \/ peer[p] = "half" /\ PassedOn(p)

\* Something has ended after the tunnel stood.
Ending ==
    /\ copier["client"] # "none" /\ ~cut
    /\ \/ pc \in {"closeClient", "closeDest", "over"}
       \/ done > 0
       \/ \E p \in Peer : copier[p] \in {"signal", "ended"} \/ conn[p] = "closed"

\* Both goroutines start together, while the handler waits for neither yet.
StartInv ==
    /\ copier["client"] = "none" <=> copier["dest"] = "none"
    /\ pc = "wait" => copier["client"] # "none"
    /\ copier["client"] = "none" => done = 0
    /\ pc \in {"dial", "hijack", "answer"} /\ ~cut => \A p \in Peer : conn[p] # "closed"
    /\ pc \in {"dial", "hijack"} => written = Zero /\ dropped = Zero

EndInv == Ending => \E p \in Peer : GoodEnd(p)

TunnelInv == StartInv /\ CopyInv /\ EndInv

\* A good end stays one: the peer sends no more, so nothing is left to write.
LEMMA GoodEndStays ==
    ASSUME TypeOK, CopyInv, [Next]_vars, copier["client"] # "none", StartInv,
           NEW p \in Peer, GoodEnd(p)
    PROVE  GoodEnd(p)'
<1> USE DEF TypeOK, Peer, To, GoodEnd, PassedOn
<1>1. CASE Handler
  BY <1>1
  DEF Handler, DialSucceeds, DialFails, Hijack, HijackFails, Answer, Wait, CloseClient,
      CloseDest, Goes, dataVars
<1>2. CASE ServerClose
  BY <1>2 DEF ServerClose, dataVars
<1>3. ASSUME NEW q \in Peer, Copier(q) PROVE GoodEnd(p)'
  <2>1. CASE Write(q)
    BY <1>3, <2>1 DEF Write, CopierGoes, CopyInv
  <2>2. CASE Read(q) \/ ReadEnds(q) \/ WriteFails(q) \/ Signal(q)
    BY <2>2 DEF Read, ReadEnds, WriteFails, Signal, dataVars
  <2> QED BY <1>3, <2>1, <2>2 DEF Copier
<1>4. ASSUME NEW q \in Peer, Send(q) \/ Receive(q) \/ Leave(q) PROVE GoodEnd(p)'
  BY <1>4 DEF Send, Receive, Leave, dataVars
<1>5. CASE UNCHANGED vars
  BY <1>5 DEF vars, dataVars
<1> QED BY <1>1, <1>2, <1>3, <1>4, <1>5 DEF Next

\* The inductive step of the start and of the counts.
LEMMA CopyStep ==
    ASSUME TypeOK, StartInv, CopyInv, [Next]_vars PROVE StartInv' /\ CopyInv'
<1> USE DEF TypeOK, Peer, StartInv, CopyInv, Zero
<1>1. CASE Handler
  <2>1. CASE DialSucceeds \/ DialFails \/ HijackFails
    BY <2>1 DEF DialSucceeds, DialFails, HijackFails, Goes, dataVars
  <2>2. CASE Hijack
    BY <2>2 DEF Hijack, Goes
  <2>3. CASE Answer \/ Wait
    BY <2>3 DEF Answer, Wait, Goes, dataVars
  <2>4. CASE CloseClient \/ CloseDest
    BY <2>4 DEF CloseClient, CloseDest, Goes, dataVars
  <2> QED BY <1>1, <2>1, <2>2, <2>3, <2>4 DEF Handler
<1>2. CASE ServerClose
  BY <1>2 DEF ServerClose, dataVars
<1>3. ASSUME NEW p \in Peer, Copier(p) PROVE StartInv' /\ CopyInv'
  <2>1. CASE Read(p) \/ Write(p)
    BY <1>3, <2>1 DEF Read, Write, CopierGoes
  <2>2. CASE ReadEnds(p) \/ WriteFails(p) \/ Signal(p)
    BY <1>3, <2>2 DEF ReadEnds, WriteFails, Signal, Room, CopierGoes, dataVars
  <2> QED BY <1>3, <2>1, <2>2 DEF Copier
<1>4. ASSUME NEW p \in Peer, Send(p) \/ Receive(p) \/ Leave(p) PROVE StartInv' /\ CopyInv'
  <2>1. CASE Send(p)
    BY <1>4, <2>1 DEF Send
  <2>2. CASE Receive(p)
    BY <2>2 DEF Receive
  <2>3. CASE Leave(p)
    BY <2>3 DEF Leave, dataVars
  <2> QED BY <1>4, <2>1, <2>2, <2>3
<1>5. CASE UNCHANGED vars
  BY <1>5 DEF vars, dataVars
<1> QED BY <1>1, <1>2, <1>3, <1>4, <1>5 DEF Next

\* The first end is a good one; what ends later does so because of it.
LEMMA EndStep ==
    ASSUME TypeOK, TunnelInv, [Next]_vars PROVE EndInv'
<1> SUFFICES ASSUME Ending', ~Ending PROVE \E p \in Peer : GoodEnd(p)'
  <2>1. Ending => copier["client"] # "none"
    BY DEF Ending
  <2> QED BY <2>1, GoodEndStays DEF EndInv, TunnelInv
<1> USE DEF TypeOK, Peer, To, Ending
<1>1. CASE Handler
  BY <1>1
  DEF TunnelInv, StartInv, Handler, DialSucceeds, DialFails, Hijack, HijackFails, Answer,
      Wait, CloseClient, CloseDest, Goes
<1>2. CASE ServerClose
  BY <1>2 DEF ServerClose
<1>3. ASSUME NEW q \in Peer, Copier(q) PROVE \E p \in Peer : GoodEnd(p)'
  <2>1. CASE ReadEnds(q)
    <3>1. copier[q] = "read" /\ UNCHANGED <<peer, dataVars, cut>>
      BY <2>1 DEF ReadEnds, CopierGoes
    <3>2. conn[q] # "closed"
      BY <1>3, <3>1 DEF TunnelInv, StartInv
    <3>3. peer[q] = "gone" \/ (peer[q] = "half" /\ read[q] = sent[q])
      BY <2>1, <3>2 DEF ReadEnds, NothingToRead
    <3>4. GoodEnd(q)'
      BY <1>3, <3>1, <3>3 DEF GoodEnd, PassedOn, dataVars, TunnelInv, CopyInv
    <3> QED BY <1>3, <3>4
  <2>2. CASE WriteFails(q)
    <3>1. peer[To(q)] = "gone" /\ UNCHANGED peer
      BY <2>2 DEF WriteFails, NobodyToWriteTo, CopierGoes, TunnelInv, StartInv
    <3> QED BY <3>1 DEF GoodEnd
  <2>3. CASE Read(q) \/ Write(q) \/ Signal(q)
    BY <2>3 DEF Read, Write, Signal, CopierGoes
  <2> QED BY <1>3, <2>1, <2>2, <2>3 DEF Copier
<1>4. ASSUME NEW q \in Peer, Send(q) \/ Receive(q) \/ Leave(q)
      PROVE  \E p \in Peer : GoodEnd(p)'
  BY <1>4 DEF Send, Receive, Leave
<1>5. CASE UNCHANGED vars
  BY <1>5 DEF vars
<1> QED BY <1>1, <1>2, <1>3, <1>4, <1>5 DEF Next

\* The three parts hold together in every reachable state.
LEMMA TunnelCorrect == Spec => []TunnelInv
<1>1. Init => TunnelInv
  BY DEF Init, TunnelInv, StartInv, CopyInv, EndInv, Ending, Peer, Zero
<1>2. TypeOK /\ TunnelInv /\ [Next]_vars => TunnelInv'
  BY CopyStep, EndStep DEF TunnelInv
<1> QED BY <1>1, <1>2, TypeCorrect, PTL DEF Spec

(***************************************************************************)
(* Whichever goroutine ends first: data is lost only to a peer that has    *)
(* stopped sending, behind all that peer sent, for any amount of data and  *)
(* any window.                                                             *)
(***************************************************************************)
THEOREM LostOnlyBehindAHalfCloseHolds == Spec => []LostOnlyBehindAHalfClose
<1>1. TypeOK /\ TunnelInv => LostOnlyBehindAHalfClose
  <2> SUFFICES ASSUME TypeOK, TunnelInv, pc = "over", copier["client"] # "none", ~cut,
                      \A q \in Peer : peer[q] # "gone", NEW p \in Peer
               PROVE  PassedOn(p) \/ (peer[To(p)] = "half" /\ PassedOn(To(p)))
    BY DEF LostOnlyBehindAHalfClose
  <2>1. PICK q \in Peer : GoodEnd(q)
    BY DEF TunnelInv, EndInv, Ending
  <2>2. peer[q] = "half" /\ PassedOn(q)
    BY <2>1 DEF GoodEnd, Peer, To
  <2>3. q = p \/ q = To(p)
    BY DEF Peer, To
  <2> QED BY <2>2, <2>3
<1> QED BY <1>1, TypeCorrect, TunnelCorrect, PTL

(***************************************************************************)
(* A tunnel that stood has ended because a peer stopped sending or left.   *)
(***************************************************************************)
THEOREM EndsOnlyByAPeerHolds == Spec => []EndsOnlyByAPeer
<1>1. TypeOK /\ TunnelInv => EndsOnlyByAPeer
  <2> SUFFICES ASSUME TypeOK, TunnelInv, copier["client"] # "none", ~cut,
                      \/ pc # "wait"
                      \/ \E p \in Peer : copier[p] \in {"signal", "ended"}
               PROVE  \E p \in Peer : peer[p] # "open"
    BY DEF EndsOnlyByAPeer
  <2>1. Ending
    BY DEF TypeOK, Ending, Peer
  <2> QED BY <2>1 DEF TunnelInv, EndInv, GoodEnd, Peer, To
<1> QED BY <1>1, TunnelCorrect, TypeCorrect, PTL

-----------------------------------------------------------------------------
\* The signals in the channel are those of goroutines that have ended, and while the
\* handler waits none has been taken; behind the handler the connections are closed.
SignalInv ==
    /\ pc = "wait" /\ (\E p \in Peer : copier[p] = "ended") => done > 0
    /\ done > 0 => \E p \in Peer : copier[p] = "ended"
    /\ done = 2 => \A p \in Peer : copier[p] = "ended"
    /\ copier["client"] # "none" /\ pc \in {"closeDest", "over"} =>
          conn["client"] = "closed"
    /\ copier["client"] # "none" /\ pc = "over" => conn["dest"] = "closed"

\* The inductive step of the signals.
LEMMA SignalStep ==
    ASSUME TypeOK, StartInv, SignalInv, [Next]_vars PROVE SignalInv'
<1> USE DEF TypeOK, Peer, StartInv, SignalInv
<1>1. CASE Handler
  <2>1. CASE DialSucceeds \/ DialFails \/ Hijack \/ HijackFails \/ Answer
    BY <2>1 DEF DialSucceeds, DialFails, Hijack, HijackFails, Answer, Goes
  <2>2. CASE Wait
    BY <2>2 DEF Wait, Goes
  <2>3. CASE CloseClient \/ CloseDest
    BY <2>3 DEF CloseClient, CloseDest, Goes
  <2> QED BY <1>1, <2>1, <2>2, <2>3 DEF Handler
<1>2. CASE ServerClose
  BY <1>2 DEF ServerClose
<1>3. ASSUME NEW p \in Peer, Copier(p) PROVE SignalInv'
  <2>1. CASE Read(p) \/ ReadEnds(p) \/ Write(p) \/ WriteFails(p)
    BY <1>3, <2>1 DEF Read, ReadEnds, Write, WriteFails, CopierGoes
  <2>2. CASE Signal(p)
    BY <1>3, <2>2 DEF Signal, Room, CopierGoes
  <2> QED BY <1>3, <2>1, <2>2 DEF Copier
<1>4. ASSUME NEW p \in Peer, Send(p) \/ Receive(p) \/ Leave(p) PROVE SignalInv'
  BY <1>4 DEF Send, Receive, Leave
<1>5. CASE UNCHANGED vars
  BY <1>5 DEF vars
<1> QED BY <1>1, <1>2, <1>3, <1>4, <1>5 DEF Next

\* A step of the handler, or of a copier, that waits for no peer.
HandlerMayGo == pc \in {"closeClient", "closeDest"} \/ (pc = "wait" /\ done > 0)

CopierMayEnd(p) ==
    \/ copier[p] = "read" /\ NothingToRead(p)
    \/ copier[p] = "write" /\ NobodyToWriteTo(p)
    \/ copier[p] = "signal" /\ Room

(***************************************************************************)
(* Once a direction has ended the tunnel is never stuck, however the peers *)
(* behave: until all is closed and both goroutines have ended, one of the  *)
(* three goroutines has a step that waits for nobody.                      *)
(***************************************************************************)
EndIsNeverStuck ==
    (\E p \in Peer : copier[p] \in {"signal", "ended"}) =>
        TunnelOver \/ HandlerMayGo \/ \E p \in Peer : CopierMayEnd(p)

(***************************************************************************)
(* After the first end one of the three goroutines can always go on, until *)
(* the tunnel is over: the part of OneEndEndsAll that is not fairness.     *)
(***************************************************************************)
THEOREM EndIsNeverStuckHolds == Spec => []EndIsNeverStuck
<1>1. Init => SignalInv
  BY DEF Init, SignalInv, Peer
<1>2. TypeOK /\ TunnelInv /\ SignalInv /\ [Next]_vars => SignalInv'
  BY SignalStep DEF TunnelInv
<1>3. TypeOK /\ TunnelInv /\ SignalInv => EndIsNeverStuck
  <2> SUFFICES ASSUME TypeOK, StartInv, SignalInv,
                      NEW q \in Peer, copier[q] \in {"signal", "ended"},
                      ~TunnelOver, ~HandlerMayGo
               PROVE  \E p \in Peer : CopierMayEnd(p)
    BY DEF EndIsNeverStuck, TunnelInv
  <2> USE DEF TypeOK, Peer, StartInv, SignalInv, CopierMayEnd
  <2>1. copier["client"] # "none" /\ pc \in {"wait", "over"}
    BY DEF HandlerMayGo
  <2>2. CASE pc = "wait"
    <3>1. copier[q] = "signal" /\ Room
      BY <2>2 DEF HandlerMayGo, Room
    <3> QED BY <3>1
  <2>3. CASE pc = "over"
    <3>1. \A p \in Peer : conn[p] = "closed"
      BY <2>1, <2>3
    <3>2. PICK p \in Peer : copier[p] # "ended"
      BY <2>3, <3>1 DEF TunnelOver
    <3>3. copier[p] # "none"
      BY <2>1
    <3>4. copier[p] = "signal" => Room
      BY DEF Room
    <3> QED BY <3>1, <3>2, <3>3, <3>4 DEF NothingToRead, NobodyToWriteTo, To
  <2> QED BY <2>1, <2>2, <2>3
<1> QED BY <1>1, <1>2, <1>3, TypeCorrect, TunnelCorrect, PTL DEF Spec
=============================================================================
