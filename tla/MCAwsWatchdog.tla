---------------------------- MODULE MCAwsWatchdog ----------------------------
(* An instance of AwsWatchdog: the WIFI service, whose message thread dies with
   the broker, and a BLE service that does not see its pings.                  *)
EXTENDS AwsWatchdog

CONSTANTS wifi, ble

Both   == {wifi, ble}
WIFI   == {wifi}
Limits == [s \in Both |-> IF s = wifi THEN 5 ELSE 6]
==============================================================================
