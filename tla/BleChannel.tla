------------------------------ MODULE BleChannel ------------------------------
(***************************************************************************)
(* What the BLE service promises its clients about one Bluetooth channel:  *)
(* each accepted request is sent on its own, an answer is believed only if *)
(* one was heard, and a TIMEOUT is reported to CORE only when none was -   *)
(* until as many requests were sent without expecting an answer as the     *)
(* channel has room for: from then on it may be deaf to an answer.         *)
(* BleSender (app/ble_process.c) is shown to implement this module.        *)
(***************************************************************************)
EXTENDS Naturals, FiniteSets

CONSTANTS
    MaxRequests,    \* bound on the requests of a behaviour
    Capacity        \* silent requests after which the channel may go deaf

Requests == 1..MaxRequests

(* How a request ends: acknowledged, timed out, sent without expecting an
   answer, or overwritten in the frame buffer before it was sent.           *)
Final == {"acked", "timeout", "silent", "lost"}
Outcomes == {"unsent", "pending", "sending"} \cup Final

VARIABLES
    outcome,    \* request -> where it stands
    current,    \* the request the channel is busy with, 0 if idle
    heard,      \* an answer to the current request arrived
    deaf,       \* no answer to the current request can be noticed
    reported    \* requests whose TIMEOUT was sent to CORE

vars == <<outcome, current, heard, deaf, reported>>

Init ==
    /\ outcome = [r \in Requests |-> "unsent"]
    /\ current = 0
    /\ heard = FALSE
    /\ deaf = FALSE
    /\ reported = {}

(* A request is accepted; the buffer may drop a pending one for it. *)
Accept ==
    /\ \E r \in Requests, dropped \in SUBSET {q \in Requests : outcome[q] = "pending"} :
          /\ outcome[r] = "unsent"
          /\ \A p, q \in dropped : p = q
          /\ outcome' = [q \in Requests |->
                IF q = r THEN "pending" ELSE IF q \in dropped THEN "lost" ELSE outcome[q]]
    /\ UNCHANGED <<current, heard, deaf, reported>>

Start ==
    /\ current = 0
    /\ \E r \in Requests :
          /\ outcome[r] = "pending"
          /\ outcome' = [outcome EXCEPT ![r] = "sending"]
          /\ current' = r
    /\ heard' = FALSE
    /\ deaf' = FALSE
    /\ UNCHANGED reported

(* The current request finds no room for its answer. *)
GoDeaf ==
    /\ current # 0
    /\ outcome[current] = "sending"
    /\ ~heard
    /\ Cardinality({r \in Requests : outcome[r] = "silent"}) >= Capacity
    /\ deaf' = TRUE
    /\ UNCHANGED <<outcome, current, heard, reported>>

Hear ==
    /\ current # 0
    /\ heard' = TRUE
    /\ UNCHANGED <<outcome, current, deaf, reported>>

(* The current request is settled; the channel may stay busy for a pause
   (or for a useless retransmission) before it is released.                 *)
Settle ==
    /\ current # 0
    /\ outcome[current] = "sending"
    /\ \/ /\ heard /\ ~deaf
          /\ outcome' = [outcome EXCEPT ![current] = "acked"]
          /\ reported' = reported
          /\ current' \in {current, 0}
       \/ /\ ~heard \/ deaf
          /\ outcome' = [outcome EXCEPT ![current] = "timeout"]
          /\ reported' \in {reported, reported \cup {current}}
          /\ current' = 0
       \/ /\ outcome' = [outcome EXCEPT ![current] = "silent"]
          /\ reported' = reported
          /\ current' = current
    /\ UNCHANGED <<heard, deaf>>

Release ==
    /\ current # 0
    /\ outcome[current] \in {"acked", "silent"}
    /\ current' = 0
    /\ UNCHANGED <<outcome, heard, deaf, reported>>

Next == Accept \/ Start \/ GoDeaf \/ Hear \/ Settle \/ Release

Spec == Init /\ [][Next]_vars
=============================================================================
