---------------------------- MODULE MCGroupUpdate ----------------------------
(* Instances of GroupUpdate: two groups, and the buttons and lights of them. *)
EXTENDS GroupUpdate

CONSTANTS g1, g2

MCGroups     == {g1, g2}
OneGroup     == {g1}
TwoLights    == {<<"d1", 1>>, <<"d2", 1>>}
TwoButtons   == {<<"d1", 1>>, <<"d1", 2>>}
==============================================================================
