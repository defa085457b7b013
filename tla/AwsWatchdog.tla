------------------------------ MODULE AwsWatchdog ------------------------------
(***************************************************************************)
(* How the AWS service watches the others (app/main_aws.c).  Every 500 ms  *)
(* Aws_SendMergePayload counts a tick for each watched service; every      *)
(* PingEvery + 1 ticks it pings all of them over the local broker; a pong  *)
(* takes the counter of its service back to zero; a counter that passes    *)
(* its limit restarts the service.                                         *)
(*                                                                         *)
(* Pings and pongs travel over a connection that the main loop mends       *)
(* itself (Mosq_ProcessLoop, Mosq_Init).  The functions of the main loop   *)
(* are steps and may follow each other in any order.  The watched services *)
(* and the broker are the environment: a service may stop answering, the   *)
(* broker may go down, the connection may drop.                            *)
(***************************************************************************)
EXTENDS Naturals

CONSTANTS
    Services,       \* the watched services
    Reached,        \* those that subscribe to the topic of their ping
    Fragile,        \* those whose message thread ends with the first broker error
    Limit,          \* ticks without a pong that a service is allowed
    PingEvery,      \* pingServiceCount is compared with it
    MaxLag          \* ticks within which a service that is well answers

ASSUME ServicesAssumption == Reached \subseteq Services /\ Fragile \subseteq Services
ASSUME CountsAssumption   == /\ PingEvery \in Nat /\ MaxLag \in Nat
                             /\ Limit \in [Services -> Nat]
(* A service that is well answers a ping before the next one, and its limit
   spans a ping period and the time of an answer.                            *)
ASSUME MarginAssumption   == /\ MaxLag <= PingEvery
                             /\ \A s \in Services : PingEvery + 1 + MaxLag <= Limit[s]

VARIABLES
    pingCount,      \* pingServiceCount
    dog,            \* g_wifiServiceWatchdog, g_coreServiceWatchdog, g_bleServiceWatchdog
    asked,          \* services with a ping on its way to them
    answered,       \* services with a pong on its way to AWS
    broker,         \* the local broker is up
    link,           \* the connection of AWS to it is intact
    mosq,           \* g_mosqIsConnected, and whether the object mosq still exists
    hung,           \* services that do not answer
    \* History:
    age,            \* ticks since the ping that s has not answered, to MaxLag + 1
    trusted         \* services that AWS has had no reason to doubt

dogVars == <<pingCount, dog, asked, answered, broker, link, mosq, hung, age, trusted>>

DogTypeOK ==
    /\ pingCount \in 0..PingEvery
    /\ dog \in [Services -> Nat]
    /\ \A s \in Services : dog[s] <= Limit[s]
    /\ asked \subseteq Reached
    /\ answered \subseteq Reached
    /\ broker \in BOOLEAN
    /\ link \in BOOLEAN
    /\ mosq \in {"up", "down", "freed"}
    /\ hung \subseteq Services
    /\ age \in [Services -> 0..(MaxLag + 1)]
    /\ trusted \subseteq Reached

Zero == [s \in Services |-> 0]

DogInit ==
    /\ pingCount = 0
    /\ dog = Zero
    /\ asked = {}
    /\ answered = {}
    /\ broker = TRUE
    /\ link = TRUE
    /\ mosq = "up"
    /\ hung = {}
    /\ age = Zero
    /\ trusted = Reached

Connected == mosq = "up" /\ link

-----------------------------------------------------------------------------
(* The main loop of AWS *)

OverdueFaulty(s) == dog[s] > Limit[s]        \* before it is counted

Overdue(s) == dog[s] + 1 > Limit[s]
PingDueFaulty == pingCount > PingEvery        \* one tick late

PingDue    == pingCount + 1 > PingEvery

(* The timing assumption: a service that is well has answered, and the main
   loop has seen the answer, within MaxLag ticks of the ping.               *)
Prompt == \A s \in trusted : s \in asked \cup answered => age[s] < MaxLag

(* Each ping starts the counters again. *)
TickServicesFaulty ==
    /\ Prompt
    /\ pingCount' = IF PingDue THEN 0 ELSE pingCount + 1
    /\ dog' = [s \in Services |-> IF Overdue(s) \/ PingDue THEN 0 ELSE dog[s] + 1]
    /\ asked' = asked \cup (IF PingDue /\ Connected THEN Reached ELSE {})
    /\ hung' = hung \ {s \in Services : Overdue(s)}
    /\ UNCHANGED <<answered, broker, link, mosq, age, trusted>>

(* The first part of Aws_SendMergePayload.  A service that is restarted loses
   the ping that was sent to it just before; its pongs are still delivered.  *)
TickServices ==
    LET restarted == {s \in Services : Overdue(s)} IN
    /\ Prompt
    /\ pingCount' = IF PingDue THEN 0 ELSE pingCount + 1
    /\ dog' = [s \in Services |-> IF Overdue(s) THEN 0 ELSE dog[s] + 1]
    /\ asked' = (asked \cup (IF PingDue /\ Connected THEN Reached ELSE {})) \ restarted
    /\ age' = [s \in Services |->
                  IF s \notin asked \cup answered THEN 0
                  ELSE IF age[s] > MaxLag THEN age[s] ELSE age[s] + 1]
    /\ hung' = hung \ restarted
    /\ UNCHANGED <<answered, broker, link, mosq, trusted>>

(* Mosq_ReceivedHandler, for a pong. *)
ReceivePong(s) ==
    /\ Connected
    /\ s \in answered
    /\ answered' = answered \ {s}
    /\ dog' = [dog EXCEPT ![s] = 0]
    /\ age' = [age EXCEPT ![s] = 0]
    /\ trusted' = IF s \in hung THEN trusted ELSE trusted \cup {s}
    /\ UNCHANGED <<pingCount, asked, broker, link, mosq, hung>>

(* Mosq_ProcessLoop finds the connection broken. *)
LoseMosq ==
    /\ mosq = "up" /\ ~link
    /\ mosq' = "down"
    /\ UNCHANGED <<pingCount, dog, asked, answered, broker, link, hung, age, trusted>>

MendMosqFaulty ==      \* only the first time
    /\ mosq = "down"
    /\ mosq' = IF broker THEN "up" ELSE "freed"
    /\ link' = broker
    /\ UNCHANGED <<pingCount, dog, asked, answered, broker, hung, age, trusted>>

(* Mosq_ProcessLoop connects again.  Mosq_Init destroys the object when it
   cannot connect, and the next call destroys it once more: the process goes
   on, or it dies (AbortAws).                                                *)
MendMosq ==
    /\ mosq # "up"
    /\ mosq' = IF broker THEN "up" ELSE "freed"
    /\ link' = broker
    /\ mosq' # mosq
    /\ UNCHANGED <<pingCount, dog, asked, answered, broker, hung, age, trusted>>

(* The second mosquitto_destroy of an object, or a ping published with it, ends
   the process; the service manager starts it again, with counters of zero, and
   main calls Mosq_Init.                                                       *)
AbortAws ==
    /\ mosq = "freed"
    /\ pingCount' = 0
    /\ dog' = Zero
    /\ mosq' = IF broker THEN "up" ELSE "freed"
    /\ link' = broker
    /\ UNCHANGED <<asked, answered, broker, hung, age, trusted>>

-----------------------------------------------------------------------------
(* The environment *)

(* The message callback of a service answers a ping at once. *)
Answer(s) ==
    /\ broker
    /\ s \in asked \ hung
    /\ asked' = asked \ {s}
    /\ answered' = IF Connected THEN answered \cup {s} ELSE answered
    /\ UNCHANGED <<pingCount, dog, broker, link, mosq, hung, age, trusted>>

(* The message thread of a service ends, or waits for something. *)
Hang(s) ==
    /\ s \notin hung
    /\ hung' = hung \cup {s}
    /\ trusted' = trusted \ {s}
    /\ UNCHANGED <<pingCount, dog, asked, answered, broker, link, mosq, age>>

DropLink ==
    /\ link
    /\ link' = FALSE
    /\ answered' = {}
    /\ trusted' = {}
    /\ UNCHANGED <<pingCount, dog, asked, broker, mosq, hung, age>>

BrokerDown ==
    /\ broker
    /\ broker' = FALSE
    /\ link' = FALSE
    /\ asked' = {}
    /\ answered' = {}
    /\ hung' = hung \cup Fragile
    /\ trusted' = {}
    /\ UNCHANGED <<pingCount, dog, mosq, age>>

BrokerUp ==
    /\ ~broker
    /\ broker' = TRUE
    /\ UNCHANGED <<pingCount, dog, asked, answered, link, mosq, hung, age, trusted>>

MosqStep == LoseMosq \/ MendMosq \/ AbortAws
Trouble  == (\E s \in Services : Hang(s)) \/ DropLink \/ BrokerDown \/ BrokerUp

DogNext == \/ TickServices
           \/ \E s \in Services : ReceivePong(s) \/ Answer(s)
           \/ MosqStep
           \/ Trouble

DogSpec == DogInit /\ [][DogNext]_dogVars

(* The main loop never stops, time passes, and a service that is well
   answers.  Nothing is asked of the broker or of a service that hangs.     *)
DogFairSpec ==
    /\ DogSpec
    /\ SF_dogVars(TickServices)
    /\ WF_dogVars(LoseMosq \/ MendMosq)
    /\ \A s \in Services : SF_dogVars(ReceivePong(s)) /\ WF_dogVars(Answer(s))

-----------------------------------------------------------------------------
(* Properties *)

(* A service that answers its pings, while the connection of AWS stays up, is
   never restarted: its counter goes back to zero only when its pong arrives.  *)
SparesTheResponsive ==
    [][\A s \in trusted : dog[s] > 0 /\ dog'[s] = 0 => s \in answered]_dogVars

(* A service that has stopped answering is restarted in the end, provided that
   the broker stays up: while it is down the AWS service may keep dying, and
   each time the counters start again.                                        *)
HungIsReplaced ==
    <>[]broker => \A s \in Services : s \in hung ~> s \notin hung

(* The connection to the local broker is mended whenever the broker is up, also
   after an attempt that failed.                                              *)
ConnectionIsMended == []<>(Connected \/ ~broker)
==============================================================================
