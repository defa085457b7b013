----------------------------- MODULE MCAwsBridge -----------------------------
(* Instances of AwsBridge: two devices on two pages for the safety properties,
   one device for the liveness properties; no watched service.               *)
EXTENDS AwsBridge

CONSTANTS d1, d2

TwoDevices == {d1, d2}
TwoPages   == {1, 2}
PageMap    == [d \in TwoDevices |-> IF d = d1 THEN 1 ELSE 2]
OneDevice  == {d1}
OnePage    == {1}
OnePageMap == [d \in OneDevice |-> 1]
NoLimits   == [s \in {} |-> 0]
==============================================================================
