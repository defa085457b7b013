------------------------------- MODULE BleSender -------------------------------
(***************************************************************************)
(* The sending half of the BLE service (app/ble_process.c): the frame      *)
(* buffer g_uartSendingFrames filled by the message handlers, the response *)
(* table g_uartDeviceResps written by the UART receiver, and the state     *)
(* machine BLE_SendToGateway that the main loop steps.                     *)
(*                                                                         *)
(* Time is abstract: whether the timeout of the frame in flight, or the    *)
(* pause after it, has expired is a nondeterministic choice.  Frame        *)
(* contents are abstract too: a frame is known by the number of the        *)
(* request it was written for.                                             *)
(***************************************************************************)
EXTENDS Naturals, FiniteSets

CONSTANTS
    NFrames,        \* UART_SENDING_FRAME_SIZE, 1000 in the code
    NResps,         \* UART_DEVICE_RESP_SIZE, 100 in the code
    Devices,        \* unicast addresses
    All,            \* FFFF or a group address: no device answers from it
    Kinds,          \* kinds of requests the clients make
    MaxRequests,    \* bound on the requests of a behaviour
    MaxBroadcasts,  \* bound on the status broadcasts among them
    MaxMistagged    \* bound on the scene actions whose blink mode is malformed

ASSUME NFramesAssumption == NFrames \in Nat /\ NFrames >= 2
ASSUME NRespsAssumption  == NResps \in Nat /\ NResps >= 1
ASSUME AllAssumption     == All \notin Devices
ASSUME BoundsAssumption  == /\ MaxRequests \in Nat
                            /\ MaxBroadcasts \in Nat
                            /\ MaxMistagged \in Nat
                            /\ Kinds \subseteq {"control", "ir", "config", "group",
                                               "scene", "poll", "broadcast"}

FrameSlots == 0..(NFrames - 1)
RespSlots  == 0..(NResps - 1)
Requests   == 1..MaxRequests
Addrs      == Devices \cup {All}

None == "none"                                 \* respType 0: the slot is free
ReportedTypes == {"group", "scene", "onoff"}   \* whose TIMEOUT goes to CORE
RespTypes   == ReportedTypes \cup {"any"}      \* "any" is 0xff
AnswerTypes == ReportedTypes \cup {"other"}

Final == {"acked", "timeout", "silent", "lost"}
Outcomes == {"unsent", "pending", "sending"} \cup Final

VARIABLES
    frames,         \* g_uartSendingFrames
    lastIdx,        \* g_uartSendingFramesIdx
    resps,          \* g_uartDeviceResps
    state,          \* statics of BLE_SendToGateway: state,
    sent,           \*   sentFrame,
    failedCount,    \*   failedCount,
    respIdx,        \*   respIdx
    busy,           \*   and sendingIsBusy
    reported,       \* requests whose TIMEOUT was sent to CORE
    \* History:
    accepted,       \* number of requests accepted so far
    broadcasts,     \* those of them that were status broadcasts
    burst,          \* ... of requests since the buffer was last empty
    mistagged,      \* number of frames tagged by a handler that wrote none
    outcome,        \* what became of each request
    tx,             \* transmissions of the frame in flight
    heard,          \* a matching answer arrived since the first of them
    deaf,           \* the response table was full at the first of them
    revived         \* requests whose frame was tagged after it had been taken

bufferVars == <<frames, lastIdx>>
senderVars == <<state, sent, failedCount, respIdx, busy, tx, deaf>>
countVars  == <<accepted, broadcasts, burst, mistagged, revived>>
vars == <<frames, lastIdx, resps, state, sent, failedCount, respIdx, busy,
          reported, accepted, broadcasts, burst, mistagged, outcome, tx, heard, deaf,
          revived>>

Frame == [respType : RespTypes \cup {None}, addr : Addrs, priority : 0..2,
          retryCount : 0..3, timed : BOOLEAN, id : Requests \cup {0}]

NoFrame == [respType |-> None, addr |-> All, priority |-> 0,
            retryCount |-> 0, timed |-> FALSE, id |-> 0]

RespSlot == [respType : RespTypes \cup {None}, addr : Addrs, answered : BOOLEAN]
FreeResp == [respType |-> None, addr |-> All, answered |-> FALSE]

TypeOK ==
    /\ frames \in [FrameSlots -> Frame]
    /\ lastIdx \in FrameSlots
    /\ resps \in [RespSlots -> RespSlot]
    /\ state \in 0..3
    /\ sent \in Frame
    /\ failedCount \in 0..3
    /\ respIdx \in RespSlots
    /\ busy \in BOOLEAN
    /\ reported \subseteq Requests
    /\ accepted \in 0..MaxRequests
    /\ broadcasts \subseteq Requests
    /\ burst \in 0..MaxRequests
    /\ mistagged \in 0..MaxMistagged
    /\ outcome \in [Requests -> Outcomes]
    /\ tx \in 0..3
    /\ heard \in BOOLEAN
    /\ deaf \in BOOLEAN
    /\ revived \subseteq Requests

Init ==
    /\ frames = [i \in FrameSlots |-> NoFrame]
    /\ lastIdx = 0
    /\ resps = [i \in RespSlots |-> FreeResp]
    /\ state = 0
    /\ sent = NoFrame
    /\ failedCount = 0
    /\ respIdx = 0
    /\ busy = FALSE
    /\ reported = {}
    /\ accepted = 0
    /\ broadcasts = {}
    /\ burst = 0
    /\ mistagged = 0
    /\ outcome = [r \in Requests |-> "unsent"]
    /\ tx = 0
    /\ heard = FALSE
    /\ deaf = FALSE
    /\ revived = {}

-------------------------------------------------------------------------------
(* Requests: the handlers of app/main_ble.c and the frames they write. *)

Pending == {i \in FrameSlots : frames[i].respType # None}

(* sendFrameToGwIndex: the slot after the last used one, slot 0 after the
   last slot of all; slot 1 when the buffer is empty.                        *)
IsLatest(l) ==
    \/ l \in Pending /\ \A j \in Pending : j <= l
    \/ Pending = {} /\ l = 0

IsEmptyIndexFaulty(e) ==    \* reuses the last used slot
    \E l \in FrameSlots : IsLatest(l) /\ e = IF l = NFrames - 1 THEN 0 ELSE l

IsEmptyIndex(e) ==
    \E l \in FrameSlots :
        /\ IsLatest(l)
        /\ e = IF l = NFrames - 1 THEN 0 ELSE l + 1

sendFrameToGwIndex(e, f) ==
    /\ IsEmptyIndex(e)
    /\ frames' = [frames EXCEPT ![e] = f]
    /\ lastIdx' = e

(* What sendFrameToGwIndex sets, then what the caller changes. *)
FrameTo(a, type, prio, retries, timed) ==
    [respType |-> type, addr |-> a, priority |-> prio, retryCount |-> retries,
     timed |-> timed, id |-> accepted + 1]

ControlFrame(a) == FrameTo(a, "any", 0, 3, TRUE)
IrFrame(a)      == FrameTo(a, "any", 0, 1, TRUE)
ConfigFrame(a)  == FrameTo(a, "any", 1, 3, TRUE)
GroupFrame(a)   == FrameTo(a, "group", 1, 3, TRUE)
SceneFrame(a)   == FrameTo(a, "scene", 1, 3, TRUE)
PollFrame(a)    == FrameTo(a, "onoff", 2, 1, TRUE)
BroadcastFrame  == FrameTo(All, "any", 1, 3, FALSE)

(* History of an accepted request written to slot e: a frame still pending
   there is lost.                                                            *)
Record(e) ==
    /\ accepted < MaxRequests
    /\ accepted' = accepted + 1
    /\ burst' = IF Pending = {} THEN 1 ELSE burst + 1
    /\ outcome' = [r \in Requests |->
          IF r = accepted + 1 THEN "pending"
          ELSE IF e \in Pending /\ r = frames[e].id THEN "lost" ELSE outcome[r]]

Request(f) ==
    /\ \E e \in FrameSlots : sendFrameToGwIndex(e, f) /\ Record(e)
    /\ UNCHANGED <<resps, senderVars, reported, mistagged, heard, revived>>

Control ==
    /\ "control" \in Kinds
    /\ \E a \in Addrs : Request(ControlFrame(a))
    /\ UNCHANGED broadcasts

ControlIr ==
    /\ "ir" \in Kinds
    /\ \E a \in Devices : Request(IrFrame(a))
    /\ UNCHANGED broadcasts

Configure ==
    /\ "config" \in Kinds
    /\ \E a \in Addrs : Request(ConfigFrame(a))
    /\ UNCHANGED broadcasts

UpdateGroup ==
    /\ "group" \in Kinds
    /\ \E a \in Devices : Request(GroupFrame(a))
    /\ UNCHANGED broadcasts

UpdateScene ==
    /\ "scene" \in Kinds
    /\ \E a \in Devices : Request(SceneFrame(a))
    /\ UNCHANGED broadcasts


(* GW_GetDeviceOnOffState: no second poll of a device while one is pending. *)
PollPending(a) ==
    \E i \in Pending : frames[i].addr = a /\ frames[i].priority = 2

GetDeviceOnOffState ==
    /\ "poll" \in Kinds
    /\ \E a \in Devices : ~PollPending(a) /\ Request(PollFrame(a))
    /\ UNCHANGED broadcasts

(* GetDevicesStateProcess: every GWCFG_GET_ONLINE_TIME a frame to FFFF for
   which timeout handling is disabled.                                       *)
GetDevicesOnOffBroadcast ==
    /\ "broadcast" \in Kinds
    /\ Cardinality(broadcasts) < MaxBroadcasts
    /\ Request(BroadcastFrame)
    /\ broadcasts' = broadcasts \cup {accepted + 1}

(* addSceneActions, an RGB action whose blink mode does not parse: no frame is
   written, but addRespTypeToSendingFrame marks the one written last: one that
   was already taken is pending again.                                       *)
AddSceneActionNoFrame ==
    /\ mistagged < MaxMistagged
    /\ mistagged' = mistagged + 1
    /\ frames' = [frames EXCEPT ![lastIdx].respType = "scene"]
    /\ revived' = IF lastIdx \in Pending \/ frames[lastIdx].id = 0 THEN revived
                  ELSE revived \cup {frames[lastIdx].id}
    /\ UNCHANGED <<lastIdx, resps, senderVars, reported, accepted, broadcasts, burst,
                   outcome, heard>>

-------------------------------------------------------------------------------
(* BLE_SetDeviceResp: a frame of type t from device a was received; the first
   matching entry of the response table is marked as answered.               *)
Matches(slotType, t) == slotType = "any" \/ slotType = t

IsAnsweredSlotFaulty(i, t, a) ==   \* forgets the entries of type 0xff
    resps[i].respType = t /\ resps[i].addr = a

IsAnsweredSlot(i, t, a) ==
    /\ Matches(resps[i].respType, t) /\ resps[i].addr = a
    /\ \A j \in RespSlots :
          Matches(resps[j].respType, t) /\ resps[j].addr = a => i <= j

SetDeviceResp(t, a) ==
    /\ resps' = [i \in RespSlots |->
          IF IsAnsweredSlot(i, t, a) THEN [resps[i] EXCEPT !.answered = TRUE]
                                     ELSE resps[i]]
    /\ heard' = (heard \/ (tx > 0 /\ state \in {1, 2} /\ sent.addr = a
                           /\ Matches(sent.respType, t)))
    /\ UNCHANGED <<frames, lastIdx, senderVars, reported, countVars, outcome>>

Answer == \E t \in AnswerTypes, a \in Devices : SetDeviceResp(t, a)

-------------------------------------------------------------------------------
(* BLE_SendToGateway. *)

(* findFrameToSend: least priority number, then least index. *)
IsFrameToSendFaulty(i) ==     \* scans the buffer from its end
    /\ i \in Pending
    /\ \A j \in Pending : \/ frames[i].priority < frames[j].priority
                          \/ frames[i].priority = frames[j].priority /\ i >= j

IsFrameToSend(i) ==
    /\ i \in Pending
    /\ \A j \in Pending : \/ frames[i].priority < frames[j].priority
                          \/ frames[i].priority = frames[j].priority /\ i <= j

ClearFrameFaulty(i) == frames' = frames    \* leaves the frame in the buffer
ClearFrame(i) == frames' = [frames EXCEPT ![i].respType = None]

TakeFrame ==
    /\ state = 0
    /\ busy = FALSE
    /\ \E i \in FrameSlots :
          /\ IsFrameToSend(i)
          /\ sent' = frames[i]
          /\ ClearFrame(i)
          /\ outcome' = IF frames[i].id \in Requests /\ outcome[frames[i].id] = "pending"
                        THEN [outcome EXCEPT ![frames[i].id] = "sending"]
                        ELSE outcome
    /\ state' = 1
    /\ failedCount' = 0
    /\ busy' = TRUE
    /\ tx' = 0
    /\ heard' = FALSE
    /\ deaf' = FALSE
    /\ UNCHANGED <<lastIdx, resps, respIdx, reported, countVars>>

(* Only the first transmission takes an entry of the response table, the first
   free one; when none is free respIdx keeps naming an older entry, and the
   sender is deaf to the answers to this frame.                              *)
FreeResps == {i \in RespSlots : resps[i].respType = None}

NewEntryFaulty(i) ==    \* keeps the status of the entry's last user
    [resps[i] EXCEPT !.respType = sent.respType, !.addr = sent.addr]

NewEntry(i) == [respType |-> sent.respType, addr |-> sent.addr, answered |-> FALSE]

AllocateResp ==
    IF failedCount = 0 /\ FreeResps # {}
    THEN \E i \in FreeResps :
            /\ \A j \in FreeResps : i <= j
            /\ resps' = [resps EXCEPT ![i] = NewEntry(i)]
            /\ respIdx' = i
    ELSE UNCHANGED <<resps, respIdx>>

Settled(o) ==
    IF sent.id \in Requests /\ outcome[sent.id] = "sending"
    THEN [outcome EXCEPT ![sent.id] = o] ELSE outcome

Transmit ==
    /\ state = 1
    /\ AllocateResp
    /\ state' = IF sent.timed THEN 2 ELSE 3
    /\ outcome' = IF sent.timed THEN outcome ELSE Settled("silent")
    /\ tx' = tx + 1
    /\ deaf' = IF failedCount = 0 THEN sent.timed /\ FreeResps = {} ELSE deaf
    /\ UNCHANGED <<bufferVars, sent, failedCount, busy, reported, countVars, heard>>

Answered == resps[respIdx].respType # None /\ resps[respIdx].answered
LastTryFaulty == failedCount + 1 > sent.retryCount
LastTry  == failedCount + 1 >= sent.retryCount
FreeRespIdx == resps' = [resps EXCEPT ![respIdx].respType = None, ![respIdx].addr = All]

(* "Response is OK": the entry is freed and the frame loses its type, so that
   no TIMEOUT of it can be reported any more.                                *)
ResponseIsOkFaulty ==   \* leaves the type of the frame
    Answered /\ FreeRespIdx /\ sent' = sent /\ outcome' = Settled("acked")

ResponseIsOk ==
    /\ Answered
    /\ FreeRespIdx
    /\ sent' = [sent EXCEPT !.respType = None]
    /\ outcome' = Settled("acked")

ReleaseFaulty == busy' = busy /\ state' = 0     \* leaves the channel busy
Release == busy' = FALSE /\ state' = 0

Acknowledge ==
    /\ state = 2
    /\ ResponseIsOk
    /\ state' = 3
    /\ UNCHANGED <<bufferVars, failedCount, respIdx, busy, reported, countVars, tx, heard, deaf>>

(* The answer and the timeout are seen by the same step: the frame counts as
   answered, and the timeout branch below it still decides where to go.      *)
AcknowledgeLate ==
    /\ state = 2
    /\ ResponseIsOk
    /\ failedCount' = failedCount + 1
    /\ IF LastTry THEN Release ELSE state' = 1 /\ busy' = busy
    /\ UNCHANGED <<bufferVars, respIdx, reported, countVars, tx, heard, deaf>>

Retry ==
    /\ state = 2
    /\ ~Answered
    /\ ~LastTry
    /\ failedCount' = failedCount + 1
    /\ state' = 1
    /\ UNCHANGED <<bufferVars, resps, sent, respIdx, busy, reported, countVars, outcome, tx, heard, deaf>>

GiveUp ==
    /\ state = 2
    /\ ~Answered
    /\ LastTry
    /\ FreeRespIdx
    /\ reported' = IF sent.respType \in ReportedTypes THEN reported \cup {sent.id} ELSE reported
    /\ outcome' = Settled("timeout")
    /\ failedCount' = failedCount + 1
    /\ Release
    /\ UNCHANGED <<bufferVars, sent, respIdx, countVars, tx, heard, deaf>>

EndPause ==
    /\ state = 3
    /\ Release
    /\ UNCHANGED <<bufferVars, resps, sent, failedCount, respIdx, reported, countVars,
                   outcome, tx, heard, deaf>>

-------------------------------------------------------------------------------
Submit == \/ Control \/ ControlIr \/ Configure \/ UpdateGroup \/ UpdateScene
          \/ GetDeviceOnOffState \/ GetDevicesOnOffBroadcast \/ AddSceneActionNoFrame

BLE_SendToGateway == \/ TakeFrame \/ Transmit \/ Acknowledge \/ AcknowledgeLate
                     \/ Retry \/ GiveUp \/ EndPause

Next == Submit \/ Answer \/ BLE_SendToGateway

Spec == Init /\ [][Next]_vars

(* The main loop calls BLE_SendToGateway on every pass and the clock moves. *)
FairSpec == Spec /\ WF_vars(BLE_SendToGateway)
-------------------------------------------------------------------------------
(* Properties. *)

(* A pending request is overwritten only at the end of a long burst: at least
   NFrames requests were accepted since the buffer was last empty
   (sendFrameToGwIndex never checks that the slot it writes is free).        *)
LossOnlyInLongBurst ==
    [][\A r \in Requests :
          outcome[r] = "pending" /\ outcome'[r] = "lost" => burst >= NFrames]_vars

(* Requests of one priority are sent in the order they were accepted, unless
   the buffer wrapped around since it was last empty (findFrameToSend goes by
   index, not by age).                                                       *)
Overtakes(i, j) ==
    /\ frames[i].id \in Requests
    /\ outcome[frames[i].id] = "pending" /\ outcome'[frames[i].id] = "sending"
    /\ frames[j].id < frames[i].id
    /\ frames[j].priority = frames[i].priority

SentInOrder ==
    [][\A i, j \in Pending : Overtakes(i, j) => burst >= NFrames]_vars

(* A request counts as acknowledged only if an answer of its type arrived from
   its address since it was first transmitted: no answer left over in the
   response table from an earlier request is taken for it.                   *)
AckWasHeard ==
    [][\A r \in Requests :
          outcome[r] = "sending" /\ outcome'[r] = "acked" => heard]_vars

(* A request times out only when it was transmitted as often as its retryCount
   allows.  A device that did answer meanwhile is reported as TIMEOUT only if
   the response table had no free entry when the request was first sent
   (BLE_SendToGateway, case 1: respIdx then names the entry of an old
   broadcast), which takes as many broadcasts as the table has entries.  The
   code gets there: a broadcast goes out every GWCFG_GET_ONLINE_TIME for as long
   as the service runs, and nobody frees its entry.                          *)
NoFalseTimeout ==
    [][\A r \in Requests :
          outcome[r] = "sending" /\ outcome'[r] = "timeout"
             => /\ tx = sent.retryCount
                /\ heard => deaf /\ Cardinality(broadcasts) >= NResps]_vars

(* What became of a request is settled once: in particular one that was
   acknowledged is never reported as timed out later, and one that was lost is
   never sent.  Excepted are the requests whose frame was taken and then tagged
   again by a scene action that wrote no frame (addRespTypeToSendingFrame): they
   are sent twice.                                                           *)
SettledOnce ==
    /\ [][\A r \in Requests \ revived : outcome[r] \in Final => outcome'[r] = outcome[r]]_vars
    /\ [](\A r \in reported \ revived : outcome[r] = "timeout")

(* The sender never gets stuck: every accepted request is settled, provided the
   requests stop coming (their number is bounded here).                      *)
EveryRequestSettled ==
    \A r \in Requests : outcome[r] = "pending" ~> outcome[r] \in Final

(* The sender keeps what BleChannel promises, as long as no handler tags a frame
   it did not write; the channel's capacity is the size of the response table.
   *)
Channel == INSTANCE BleChannel WITH
    current <- IF busy THEN sent.id ELSE 0, Capacity <- NResps
ChannelSpec == Channel!Spec
=============================================================================
