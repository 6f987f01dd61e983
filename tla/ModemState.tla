----------------------------- MODULE ModemState -----------------------------
(***************************************************************************)
(* The life of the modems as the status pages and the event log show it:   *)
(* the states of internal/modem/state.go and the changes between them that *)
(* the worker's handlers are written for.  A lost connection is always     *)
(* announced as disconnected before anything is dialled, and a modem that  *)
(* has failed can only come back connected.                                *)
(***************************************************************************)
CONSTANT Worker

VARIABLE state      \* the state of each worker incarnation

\* StateRotating is declared in state.go but nothing ever assigns it.
State == {"disconnected", "connecting", "connected", "failed"}

Init == state = [w \in Worker |-> "disconnected"]

Change(w, from, to) ==
    /\ state[w] \in from
    /\ state' = [state EXCEPT ![w] = to]

Dial(w) == Change(w, {"disconnected"}, "connecting")
Up(w)   == Change(w, {"disconnected", "connecting", "failed"}, "connected")
Lose(w) == Change(w, {"connected"}, "disconnected")
Fail(w) == Change(w, {"disconnected", "connecting"}, "failed")

Next == \E w \in Worker : Dial(w) \/ Up(w) \/ Lose(w) \/ Fail(w)

Spec == Init /\ [][Next]_state
=============================================================================
