----------------------------- MODULE MCBleSender -----------------------------
(* Instances of BleSender small enough for TLC. *)
EXTENDS BleSender, TLC

CONSTANTS d1, d2

MCDevices == {d1, d2}
OneDevice == {d1}
DeviceSymmetry == Permutations(MCDevices)
=============================================================================
