--------------------------- MODULE ConnLifecycle ----------------------------
(* What the connection registry promises of one session number, whoever     *)
(* opens, closes and collects it: its record appears once, is closed once,  *)
(* is removed once, and never returns; but for the session of a CONNECT     *)
(* tunnel, which is registered once more when its target has been dialled.  *)
EXTENDS Naturals

CONSTANTS MaxSess
VARIABLES phase, relay

Session == 1 .. MaxSess
Phases == {"unborn", "Active", "Closed", "gone"}

Move(s, from, to) ==
  /\ phase[s] \in from
  /\ phase' = [phase EXCEPT ![s] = to]

Relay(s, from, to) ==
  /\ relay[s] = from
  /\ relay' = [relay EXCEPT ![s] = to]

Open(s) == Move(s, {"unborn"}, "Active") /\ UNCHANGED relay
Close(s) == Move(s, {"Active"}, "Closed") /\ UNCHANGED relay
Remove(s) == Move(s, {"Active", "Closed"}, "gone") /\ UNCHANGED relay

Tunnel(s) == phase[s] # "unborn" /\ Relay(s, "no", "due") /\ UNCHANGED phase
Register(s) == Relay(s, "due", "done") /\ Move(s, Phases \ {"unborn"}, "Active")

Init ==
  /\ phase = [s \in Session |-> "unborn"]
  /\ relay = [s \in Session |-> "no"]
Next == \E s \in Session :
          Open(s) \/ Close(s) \/ Remove(s) \/ Tunnel(s) \/ Register(s)
Spec == Init /\ [][Next]_<<phase, relay>>
=============================================================================
