----------------------------- MODULE MCEventHub -----------------------------
(* Instances of EventHub for TLC. *)
EXTENDS EventHub

CONSTANTS k1, k2

TwoLinesOneExchange == [f \in Feeds |-> IF f = "logs" THEN 2 ELSE 1]
InfoThenWarn == <<1, 2>>
OneWantsWarn == [k \in Clients |-> IF k = k2 THEN {2} ELSE {1}]
=============================================================================
