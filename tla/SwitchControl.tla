---------------------------- MODULE SwitchControl ----------------------------
(***************************************************************************)
(* What NetworkSwitch promises to the window that drives it: the switch is *)
(* always in one of four phases (NetworkSwitch::SwitchState) and moves     *)
(* between them along five edges only.  SwitchLifecycle, which has the     *)
(* threads, the flags and the steps of every call, implements it.          *)
(***************************************************************************)

VARIABLE phase

Phase == {"Idle", "RunningNetwork", "RunningRest", "Stopping"}

Init == phase = "Idle"

Move(from, to) == phase \in from /\ phase' \in to

\* Forwarding starts, and only from rest.
Start == Move({"Idle"}, {"RunningNetwork"})

\* The REST server is brought up, only on top of running forwarding.
RestUp == Move({"RunningNetwork"}, {"RunningRest"})

\* The REST server is told to stop.  Forwarding may go on, may have been told
\* to stop just before, or may already have ended.
RestDown == Move({"RunningRest"}, {"RunningNetwork", "Stopping", "Idle"})

\* Forwarding was told to stop or ended by itself; Idle if nothing is left.
NetworkDown == Move({"RunningNetwork"}, {"Stopping", "Idle"})

\* The last thread is gone.
Drained == Move({"Stopping"}, {"Idle"})

Next == Start \/ RestUp \/ RestDown \/ NetworkDown \/ Drained

Spec == Init /\ [][Next]_phase

==============================================================================
