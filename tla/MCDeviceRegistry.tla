---------------------------- MODULE MCDeviceRegistry ----------------------------
(***************************************************************************)
(* DeviceRegistry for TLC: a switch, at the address that an infrared hub   *)
(* of another gateway has, and a light; a group of buttons and one of      *)
(* lights.                                                                 *)
(***************************************************************************)
EXTENDS DeviceRegistry

CONSTANTS switch, light, tv, pair, lights

Place(g, u) == [gateway |-> g, unicast |-> u]
Places == [d \in {switch, light, tv} |->
             CASE d = switch -> Place("first", "0002")
               [] d = light  -> Place("first", "0004")
               [] OTHER      -> Place("second", "0002")]
Offers == [g \in {pair, lights} |-> IF g = pair THEN {switch, light} ELSE {light}]
=============================================================================
