---------------------------- MODULE MCEventRaces ----------------------------
(* The instance of EventRaces that TLC checks.                             *)
EXTENDS MCEventGpio, EventRaces
=============================================================================
