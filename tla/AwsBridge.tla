------------------------------- MODULE AwsBridge -------------------------------
(***************************************************************************)
(* The AWS service between CORE and the cloud (app/main_aws.c).  What the  *)
(* devices report is queued (queue_mos_sub), merged page by page in        *)
(* g_mergePayloads, and one page is published at each tick; a kick-out is  *)
(* published at once.  What the app asks is queued (queue_received_aws)    *)
(* and sent to CORE.  Thread_ConnectToAws keeps the session with the cloud *)
(* while the main loop uses it; both tell the CFG service about it.        *)
(*                                                                         *)
(* The ticks and the connection to the local broker are those of           *)
(* AwsWatchdog.  A step is a function of the main loop, or a part of one   *)
(* of the two threads between two accesses to what they share.  A report   *)
(* is its stamp: what a field of a device holds is the stamp of the report *)
(* that set it.                                                            *)
(***************************************************************************)
EXTENDS AwsWatchdog, Sequences, FiniteSets, SequencesExt

CONSTANTS
    Devices,
    Pages, PageOf,      \* the page of the shadow that holds a device
    QueueSize,          \* QUEUE_SIZE
    MaxReports,         \* bound on the reports of CORE
    MaxRequests,        \* bound on the requests of the app
    MaxBus,             \* bound on what the broker holds for AWS
    MaxDrops            \* bound on the failures of the two connections, and on
                        \* sessions that are closed in the place of the old one

ASSUME PagesAssumption  == PageOf \in [Devices -> Pages] /\ IsFiniteSet(Pages)
ASSUME BridgeAssumption == /\ QueueSize \in Nat \ {0} /\ MaxBus \in Nat \ {0}
                           /\ MaxReports \in Nat /\ MaxRequests \in Nat /\ MaxDrops \in Nat

VARIABLES
    bus,            \* what the broker holds for AWS
    queue,          \* queue_mos_sub
    pages, merged,  \* g_mergePayloads: its pages, oldest first, and their devices
    requests,       \* queue_received_aws
    net,            \* the internet is there
    session,        \* mqttContext and networkContext
    connected,      \* g_awsIsConnected
    thread,         \* where Thread_ConnectToAws is
    main,           \* where the main loop is: in Aws_ProcessLoop, or elsewhere
    shadow,         \* the devices in the cloud
    told,           \* what CFG has been told
    forwarded,      \* the requests that were sent to CORE
    \* History:
    stamp,          \* the last report of each device
    reports, asks, drops,
    kicked,         \* devices that CORE has deleted
    buried,         \* of them, those whose deletion found no report to be published
    lost,           \* devices of which a report was lost, and requests that were
    untold          \* a message to CFG was lost

mergeVars   == <<pages, merged>>
sessionVars == <<net, session, connected, thread, main>>
cfgVars     == <<told, untold>>
reportVars  == <<bus, queue, pages, merged, shadow, stamp, reports, kicked, buried>>
requestVars == <<requests, asks, forwarded>>
bridgeVars  == <<bus, queue, pages, merged, requests, net, session, connected, thread, main,
                 shadow, told, forwarded, stamp, reports, asks, drops, kicked, buried, lost,
                 untold>>
vars == <<dogVars, bridgeVars>>

(* The fields of a device; 0 when it has none. *)
Entry  == [state : 0..MaxReports, dp : 0..MaxReports]
Absent == [state |-> 0, dp |-> 0]
Message == [kind : {"onoff", "online", "kickout"}, dev : Devices, stamp : 0..MaxReports]

TypeOK ==
    /\ DogTypeOK
    /\ bus \in BoundedSeq(Message, MaxBus)
    /\ queue \in BoundedSeq(Message, QueueSize)
    /\ pages \in BoundedSeq(Pages, Cardinality(Pages)) /\ IsInjective(pages)
    /\ merged \in [Devices -> Entry]
    /\ requests \in Seq(1..MaxRequests) /\ Len(requests) <= QueueSize
    /\ net \in BOOLEAN
    /\ session \in {"none", "opening", "up"}
    /\ connected \in BOOLEAN
    /\ thread \in {"idle", "opening", "subscribing", "telling"}
    /\ main \in {"loop", "telling", "closing"}
    /\ shadow \in [Devices -> Entry]
    /\ told \in {"AWS_CONNECTED", "AWS_DISCONNECTED"}
    /\ forwarded \in Seq(1..MaxRequests)
    /\ stamp \in [Devices -> 0..MaxReports]
    /\ reports \in 0..MaxReports
    /\ asks \in 0..MaxRequests
    /\ drops \in 0..MaxDrops
    /\ buried \subseteq kicked /\ kicked \subseteq Devices
    /\ lost \subseteq Devices \cup 1..MaxRequests
    /\ untold \in BOOLEAN

Init ==
    /\ DogInit
    /\ bus = <<>> /\ queue = <<>> /\ requests = <<>>
    /\ pages = <<>> /\ merged = [d \in Devices |-> Absent]
    /\ net = TRUE /\ session = "none" /\ connected = FALSE
    /\ thread = "idle" /\ main = "loop"
    /\ shadow = [d \in Devices |-> Absent]
    /\ told = "AWS_DISCONNECTED" /\ untold = FALSE
    /\ forwarded = <<>>
    /\ stamp = [d \in Devices |-> 0]
    /\ reports = 0 /\ asks = 0 /\ drops = 0
    /\ kicked = {} /\ buried = {} /\ lost = {}

DevicesOf(messages) == {messages[i].dev : i \in DOMAIN messages}
On(page) == {d \in Devices : PageOf[d] = page}

(* The message on the way to CFG is lost while the local connection is broken. *)
Tell(what) == /\ told' = IF Connected THEN what ELSE told
              /\ untold' = (untold \/ ~Connected)

(* A publication reaches the cloud in an open session; in one that is being
   opened by the other thread it is lost, and may spoil the session.           *)
Publish(update) ==
    /\ shadow' = IF session = "up" THEN update ELSE shadow
    /\ session' \in IF session = "opening" THEN {"opening", "none"} ELSE {session}

-----------------------------------------------------------------------------
(* CORE *)

(* Aws_SaveDpValue ("onoff", which also says that the device is online) and
   Aws_SaveDeviceState ("online").                                            *)
Report(kind, d) ==
    /\ reports < MaxReports /\ d \notin kicked /\ Len(bus) < MaxBus
    /\ reports' = reports + 1
    /\ stamp' = [stamp EXCEPT ![d] = reports']
    /\ bus' = IF Connected
              THEN Append(bus, [kind |-> kind, dev |-> d, stamp |-> reports']) ELSE bus
    /\ lost' = IF Connected THEN lost ELSE lost \cup {d}
    /\ UNCHANGED <<dogVars, queue, mergeVars, sessionVars, shadow, cfgVars, requestVars,
                   drops, kicked, buried>>

(* Aws_DeleteDevice *)
KickOut(d) ==
    /\ d \notin kicked /\ stamp[d] > 0 /\ Len(bus) < MaxBus
    /\ kicked' = kicked \cup {d}
    /\ bus' = IF Connected
              THEN Append(bus, [kind |-> "kickout", dev |-> d, stamp |-> 0]) ELSE bus
    /\ lost' = IF Connected THEN lost ELSE lost \cup {d}
    /\ UNCHANGED <<dogVars, queue, mergeVars, sessionVars, shadow, cfgVars, requestVars,
                   stamp, reports, drops, buried>>

-----------------------------------------------------------------------------
(* The main loop *)

ReceiveFaulty ==       \* the last message first
    /\ main = "loop" /\ Connected
    /\ bus # <<>> /\ Len(queue) < QueueSize
    /\ bus' = Front(bus) /\ queue' = Append(queue, Last(bus))
    /\ UNCHANGED <<dogVars, mergeVars, sessionVars, shadow, cfgVars, requestVars, stamp,
                   reports, drops, kicked, buried, lost>>

(* Mosq_ReceivedHandler: a message that finds the queue full is dropped. *)
Receive ==
    /\ main = "loop" /\ Connected
    /\ bus # <<>>
    /\ bus' = Tail(bus)
    /\ queue' = IF Len(queue) < QueueSize THEN Append(queue, Head(bus)) ELSE queue
    /\ lost' = IF Len(queue) < QueueSize THEN lost ELSE lost \cup {Head(bus).dev}
    /\ UNCHANGED <<dogVars, mergeVars, sessionVars, shadow, cfgVars, requestVars, stamp,
                   reports, drops, kicked, buried>>

(* g_mergePayloads with a report in it. *)
PagesWithFaulty(page) == Append(pages, page)

PagesWith(page) == IF page \in ToSet(pages) THEN pages ELSE Append(pages, page)

UpdatedFaulty(entry, m) ==     \* leaves the state alone
    [entry EXCEPT !.dp = IF m.kind = "onoff" THEN m.stamp ELSE @]

Updated(entry, m) ==
    [entry EXCEPT !.state = m.stamp, !.dp = IF m.kind = "onoff" THEN m.stamp ELSE @]

(* Mosq_ProcessMessage, GW_RESP_ONOFF_STATE and GW_RESP_ONLINE_STATE *)
MergeReport ==
    LET m == Head(queue) IN
    /\ main = "loop"
    /\ queue # <<>> /\ m.kind # "kickout"
    /\ queue' = Tail(queue)
    /\ pages' = PagesWith(PageOf[m.dev])
    /\ merged' = [merged EXCEPT ![m.dev] = Updated(@, m)]
    /\ UNCHANGED <<dogVars, bus, sessionVars, shadow, cfgVars, requestVars, stamp, reports,
                   drops, kicked, buried, lost>>

DeletedFaulty(d) == [shadow EXCEPT ![d].state = 0]      \* leaves the values

Deleted(d) == [shadow EXCEPT ![d] = Absent]

(* Mosq_ProcessMessage, GW_RESPONSE_DEVICE_KICKOUT *)
PublishKickOut ==
    LET d == Head(queue).dev IN
    /\ main = "loop"
    /\ queue # <<>> /\ Head(queue).kind = "kickout"
    /\ queue' = Tail(queue)
    /\ Publish(Deleted(d))
    /\ buried' = IF session = "up" /\ merged[d] = Absent THEN buried \cup {d} ELSE buried
    /\ lost' = IF session = "up" THEN lost ELSE lost \cup {d}
    /\ UNCHANGED <<dogVars, bus, mergeVars, net, connected, thread, main, cfgVars,
                   requestVars, stamp, reports, drops, kicked>>

(* Aws_SendMergePayload: the tick of the watchdogs, then the oldest page; it is
   removed whether or not the cloud has taken it.                             *)
OverlayFaulty(old, new) ==     \* keeps what the cloud has
    [f \in {"state", "dp"} |-> IF old[f] = 0 THEN new[f] ELSE old[f]]

Overlay(old, new) == [f \in {"state", "dp"} |-> IF new[f] = 0 THEN old[f] ELSE new[f]]
Fresh(page) == {d \in On(page) : merged[d] # Absent}

Tick ==
    /\ main = "loop"
    /\ TickServices
    /\ IF pages = <<>>
       THEN UNCHANGED <<mergeVars, shadow, session, lost>>
       ELSE LET page == Head(pages) IN
            /\ Publish([d \in Devices |-> IF d \in On(page)
                                          THEN Overlay(shadow[d], merged[d]) ELSE shadow[d]])
            /\ pages' = Tail(pages)
            /\ merged' = [d \in Devices |-> IF d \in On(page) THEN Absent ELSE merged[d]]
            /\ lost' = IF session = "up" THEN lost ELSE lost \cup Fresh(page)
    /\ UNCHANGED <<bus, queue, net, connected, thread, main, cfgVars, requestVars, stamp,
                   reports, drops, kicked, buried>>

(* Mosq_ProcessLoop without a message, or with a pong. *)
ServePongs ==
    /\ main = "loop"
    /\ LoseMosq \/ MendMosq \/ \E s \in Services : ReceivePong(s)
    /\ UNCHANGED bridgeVars

(* main: one request of the app goes to CORE. *)
Forward ==
    /\ main = "loop"
    /\ requests # <<>>
    /\ forwarded' = IF Connected THEN Append(forwarded, Head(requests)) ELSE forwarded
    /\ lost' = IF Connected THEN lost ELSE lost \cup {Head(requests)}
    /\ requests' = Tail(requests)
    /\ UNCHANGED <<dogVars, reportVars, sessionVars, cfgVars, asks, drops>>

FindBrokenFaulty ==    \* leaves g_awsIsConnected
    /\ main = "loop" /\ connected /\ session # "up"
    /\ main' = "telling"
    /\ UNCHANGED <<dogVars, reportVars, net, session, connected, thread, cfgVars, requestVars,
                   drops, lost>>

(* Aws_ProcessLoop: MQTT_ProcessLoop fails, and the session is given up. *)
FindBroken ==
    /\ main = "loop" /\ connected /\ session # "up"
    /\ connected' = FALSE
    /\ main' = "telling"
    /\ UNCHANGED <<dogVars, reportVars, net, session, thread, cfgVars, requestVars, drops, lost>>

TellDisconnected ==
    /\ main = "telling"
    /\ Tell("AWS_DISCONNECTED")
    /\ main' = "closing"
    /\ UNCHANGED <<dogVars, reportVars, net, session, connected, thread, requestVars, drops, lost>>

CloseSession ==
    /\ main = "closing"
    /\ session' = "none"
    /\ main' = "loop"
    /\ UNCHANGED <<dogVars, reportVars, net, connected, thread, cfgVars, requestVars, drops, lost>>

-----------------------------------------------------------------------------
(* Thread_ConnectToAws *)

Dial ==
    /\ thread = "idle" /\ ~connected /\ net
    /\ session' = "opening"
    /\ thread' = "opening"
    /\ UNCHANGED <<dogVars, reportVars, net, connected, main, cfgVars, requestVars, drops, lost>>

(* establishMqttSession; when it fails the session is closed and dialled again.
   The handshakes may be done before the main loop is past the two calls in which
   it gives the old session up: its Openssl_Disconnect then closes the new one.
   That counts as a failure, since it could happen again and again.              *)
Established ==
    /\ thread = "opening"
    /\ drops' = IF main = "loop" THEN drops ELSE drops + 1
    /\ drops' <= MaxDrops
    /\ session' = IF session = "opening" THEN "up" ELSE "none"
    /\ thread' = IF session = "opening" THEN "subscribing" ELSE "idle"
    /\ UNCHANGED <<dogVars, reportVars, net, connected, main, cfgVars, requestVars, lost>>

(* subscribeToTopic sends its packets without waiting for an answer: in a session
   that has just broken it fails or not.                                        *)
Subscribed ==
    /\ thread = "subscribing"
    /\ \/ connected' = TRUE /\ thread' = "telling"
       \/ session # "up" /\ connected' = connected /\ thread' = "idle"
    /\ UNCHANGED <<dogVars, reportVars, net, session, main, cfgVars, requestVars, drops, lost>>

TellConnected ==
    /\ thread = "telling"
    /\ Tell("AWS_CONNECTED")
    /\ thread' = "idle"
    /\ UNCHANGED <<dogVars, reportVars, net, session, connected, main, requestVars, drops, lost>>

-----------------------------------------------------------------------------
(* The environment *)

(* Aws_ReceivedHandler, or Mosq_ReceivedHandler for an app in the home: what the
   gateway itself published comes back and is left out by its sender.           *)
Ask ==
    /\ asks < MaxRequests
    /\ main = "loop"
    /\ (connected /\ session = "up") \/ Connected
    /\ asks' = asks + 1
    /\ requests' = IF Len(requests) < QueueSize THEN Append(requests, asks') ELSE requests
    /\ lost' = IF Len(requests) < QueueSize THEN lost ELSE lost \cup {asks'}
    /\ UNCHANGED <<dogVars, reportVars, sessionVars, cfgVars, forwarded, drops>>

NetChange ==
    /\ net' = ~net
    /\ session' = IF net THEN "none" ELSE session
    /\ drops' = IF net THEN drops + 1 ELSE drops
    /\ drops' <= MaxDrops
    /\ UNCHANGED <<dogVars, reportVars, connected, thread, main, cfgVars, requestVars, lost>>

(* The cloud closes the session. *)
LoseSession ==
    /\ session # "none" /\ drops < MaxDrops
    /\ session' = "none"
    /\ drops' = drops + 1
    /\ UNCHANGED <<dogVars, reportVars, net, connected, thread, main, cfgVars, requestVars, lost>>

(* What the broker holds for AWS is lost with the connection. *)
LocalTrouble ==
    /\ Trouble \/ \E s \in Services : Answer(s)
    /\ drops' = IF link' # link THEN drops + 1 ELSE drops
    /\ drops' <= MaxDrops
    /\ bus' = IF link' THEN bus ELSE <<>>
    /\ lost' = IF link' THEN lost ELSE lost \cup DevicesOf(bus)
    /\ UNCHANGED <<queue, mergeVars, sessionVars, shadow, cfgVars, requestVars, stamp,
                   reports, kicked, buried>>

(* AWS starts again, after an abort, with nothing. *)
Restart ==
    /\ AbortAws
    /\ bus' = <<>> /\ queue' = <<>> /\ pages' = <<>> /\ requests' = <<>>
    /\ merged' = [d \in Devices |-> Absent]
    /\ session' = "none" /\ connected' = FALSE /\ thread' = "idle" /\ main' = "loop"
    /\ lost' = lost \cup DevicesOf(bus) \cup DevicesOf(queue) \cup ToSet(requests)
                    \cup {d \in Devices : merged[d] # Absent}
    /\ UNCHANGED <<net, shadow, cfgVars, forwarded, stamp, reports, asks, drops, kicked, buried>>

Core   == \E d \in Devices : KickOut(d) \/ \E kind \in {"onoff", "online"} : Report(kind, d)
Connect == Dial \/ Established \/ Subscribed \/ TellConnected
Next ==
    \/ Core
    \/ Receive \/ MergeReport \/ PublishKickOut \/ Tick \/ ServePongs \/ Forward
    \/ FindBroken \/ TellDisconnected \/ CloseSession
    \/ Connect
    \/ Ask \/ NetChange \/ LoseSession \/ LocalTrouble \/ Restart

Spec == Init /\ [][Next]_vars

(* Both threads run for ever, and every function of the main loop comes again. *)
FairSpec ==
    /\ Spec
    /\ WF_vars(Connect)
    /\ WF_vars(FindBroken) /\ WF_vars(TellDisconnected) /\ WF_vars(CloseSession)
    /\ SF_vars(Receive) /\ SF_vars(MergeReport \/ PublishKickOut) /\ SF_vars(Tick)
    /\ SF_vars(ServePongs) /\ SF_vars(Forward)

-----------------------------------------------------------------------------
(* Properties *)

(* The cloud never goes back to an older report of a device: reports are merged,
   queued and published in the order in which CORE made them.                   *)
NeverOlder ==
    [][\A d \in Devices, f \in {"state", "dp"} :
          shadow'[d][f] # 0 => shadow'[d][f] >= shadow[d][f]]_vars

(* The last report of a device is on its way or in the cloud, unless a report of
   it met a broken connection, a full queue or a restart.                       *)
ReportIsKept(d) ==
    \/ \E i \in DOMAIN bus : bus[i].dev = d /\ bus[i].stamp = stamp[d]
    \/ \E i \in DOMAIN queue : queue[i].dev = d /\ queue[i].stamp = stamp[d]
    \/ merged[d].state = stamp[d]
    \/ merged[d] = Absent /\ shadow[d].state = stamp[d]

(* Nothing is lost but for such a reason: no report of a device, and no request of
   the app, which is queued or was sent to CORE, once and in its turn.            *)
NothingLostQuietly ==
    /\ \A d \in Devices \ (lost \cup kicked) : stamp[d] > 0 => ReportIsKept(d)
    /\ \A r \in 1..asks : r \in lost \/ r \in ToSet(forwarded) \/ r \in ToSet(requests)
    /\ \A i, j \in DOMAIN forwarded : i < j => forwarded[i] < forwarded[j]

(* A device whose deletion was published with none of its reports left to publish
   does not come back in the cloud.  (One with a report left does: the page that
   holds the report is published after the deletion.)                           *)
BuriedStaysBuried ==
    \A d \in buried : shadow[d] = Absent

(* Every report reaches the cloud in the end, is overtaken by a later one, or met
   a failure.                                                                   *)
CloudCatchesUp ==
    \A d \in Devices : <>[](d \in lost \cup kicked \/ shadow[d].state = stamp[d])

(* When the internet and the local broker stay, the session is up in the end and
   stays up, whatever the two threads did to each other's session before.  (While
   the broker is down the service may die again and again before it is up.)     *)
ReconnectsForGood ==
    <>[](net /\ broker) => <>[](connected /\ session = "up" /\ (told = "AWS_CONNECTED" \/ untold))
==============================================================================
