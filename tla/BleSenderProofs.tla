---------------------------- MODULE BleSenderProofs ----------------------------
(* Proofs about BleSender. *)
EXTENDS BleSender, TLAPS

USE NFramesAssumption, NRespsAssumption, AllAssumption, BoundsAssumption

-------------------------------------------------------------------------------
(* Type correctness. *)

(* The counters of BLE_SendToGateway bound the transmissions of a frame. *)
Counting ==
    /\ burst <= accepted
    /\ state = 1 => tx = failedCount /\ failedCount <= 2
    /\ state = 2 => tx = failedCount + 1 /\ failedCount <= 2

(* A frame that waits for an answer belongs to a request. *)
Identified ==
    /\ \A i \in FrameSlots : frames[i].timed => frames[i].id \in Requests
    /\ sent.timed => sent.id \in Requests
    /\ state = 2 => sent.timed

TypeInv == TypeOK /\ Counting /\ Identified

LEMMA InitTypeInv == Init => TypeInv
<1> SUFFICES ASSUME Init PROVE TypeInv
  OBVIOUS
<1>1. NoFrame \in Frame /\ FreeResp \in RespSlot
  BY DEF NoFrame, Frame, FreeResp, RespSlot, Addrs
<1>2. 0 \in FrameSlots /\ 0 \in RespSlots
  BY DEF FrameSlots, RespSlots
<1>3. frames \in [FrameSlots -> Frame] /\ resps \in [RespSlots -> RespSlot] /\ sent \in Frame
  BY <1>1 DEF Init
<1>4. outcome \in [Requests -> Outcomes]
  BY DEF Init, Outcomes
<1>5. busy \in BOOLEAN /\ heard \in BOOLEAN /\ deaf \in BOOLEAN
  BY DEF Init
<1>6. TypeOK /\ Counting
  BY <1>2, <1>3, <1>4, <1>5 DEF Init, TypeOK, Counting
<1>7. Identified
  BY DEF Init, Identified, NoFrame
<1> QED BY <1>6, <1>7 DEF TypeInv

(* A handler that writes one well-formed frame keeps the types. *)
LEMMA RequestTypeInv ==
    ASSUME TypeInv, NEW f, accepted < MaxRequests => f \in Frame /\ f.id \in Requests,
           Request(f),
           broadcasts' \subseteq Requests
    PROVE  TypeInv'
<1>1. accepted < MaxRequests /\ f \in Frame /\ f.id \in Requests
  BY DEF Request, Record
<1>2. frames' \in [FrameSlots -> Frame] /\ lastIdx' \in FrameSlots
  BY <1>1 DEF Request, sendFrameToGwIndex, TypeInv, TypeOK
<1>3. accepted' \in 0..MaxRequests /\ burst' \in 0..MaxRequests /\ burst' <= accepted'
  BY <1>1 DEF Request, Record, TypeInv, TypeOK, Counting
<1>4. outcome' \in [Requests -> Outcomes]
  BY DEF Request, Record, TypeInv, TypeOK, Outcomes, Final
<1>5. UNCHANGED <<resps, state, sent, failedCount, respIdx, busy, tx, reported,
                  mistagged, heard, deaf, revived>>
  BY DEF Request, senderVars
<1>6. Identified'
  BY <1>1, <1>5 DEF Request, sendFrameToGwIndex, TypeInv, TypeOK, Identified
<1> QED BY <1>2, <1>3, <1>4, <1>5, <1>6 DEF TypeInv, TypeOK, Counting

LEMMA FramesWellFormed ==
    ASSUME TypeOK, accepted < MaxRequests, NEW a \in Addrs
    PROVE  \A f \in {ControlFrame(a), IrFrame(a), ConfigFrame(a), GroupFrame(a),
                      SceneFrame(a), PollFrame(a), BroadcastFrame} :
               f \in Frame /\ f.id \in Requests
<1>1. accepted + 1 \in Requests
  BY DEF TypeOK, Requests
<1>2. {"any", "group", "scene", "onoff"} \subseteq RespTypes /\ All \in Addrs
  BY DEF RespTypes, ReportedTypes, Addrs
<1>3. ControlFrame(a) \in Frame
  BY <1>1, <1>2 DEF ControlFrame, FrameTo, Frame
<1>4. IrFrame(a) \in Frame
  BY <1>1, <1>2 DEF IrFrame, FrameTo, Frame
<1>5. ConfigFrame(a) \in Frame /\ GroupFrame(a) \in Frame /\ SceneFrame(a) \in Frame
  BY <1>1, <1>2 DEF ConfigFrame, GroupFrame, SceneFrame, FrameTo, Frame
<1>6. PollFrame(a) \in Frame /\ BroadcastFrame \in Frame
  BY <1>1, <1>2 DEF PollFrame, BroadcastFrame, FrameTo, Frame
<1>7. \A f \in {ControlFrame(a), IrFrame(a), ConfigFrame(a), GroupFrame(a),
                SceneFrame(a), PollFrame(a), BroadcastFrame} : f.id = accepted + 1
  BY DEF ControlFrame, IrFrame, ConfigFrame, GroupFrame, SceneFrame, PollFrame,
     BroadcastFrame, FrameTo
<1> QED
  BY <1>1, <1>3, <1>4, <1>5, <1>6, <1>7

LEMMA SubmitTypeInv == TypeInv /\ Submit => TypeInv'
<1> SUFFICES ASSUME TypeInv, Submit PROVE TypeInv'
  OBVIOUS
<1>0. TypeOK /\ Devices \subseteq Addrs /\ All \in Addrs
  BY DEF TypeInv, Addrs
<1>1. CASE Control
  BY <1>0, <1>1, FramesWellFormed, RequestTypeInv DEF Control, TypeOK
<1>2. CASE ControlIr
  BY <1>0, <1>2, FramesWellFormed, RequestTypeInv DEF ControlIr, TypeOK
<1>3. CASE Configure
  BY <1>0, <1>3, FramesWellFormed, RequestTypeInv DEF Configure, TypeOK
<1>4. CASE UpdateGroup
  BY <1>0, <1>4, FramesWellFormed, RequestTypeInv DEF UpdateGroup, TypeOK
<1>5. CASE UpdateScene
  BY <1>0, <1>5, FramesWellFormed, RequestTypeInv DEF UpdateScene, TypeOK
<1>6. CASE GetDeviceOnOffState
  BY <1>0, <1>6, FramesWellFormed, RequestTypeInv DEF GetDeviceOnOffState, TypeOK
<1>7. CASE GetDevicesOnOffBroadcast
  <2>1. broadcasts' \subseteq Requests
    BY <1>0, <1>7 DEF GetDevicesOnOffBroadcast, Request, Record, TypeOK, Requests
  <2> QED BY <1>0, <1>7, <2>1, FramesWellFormed, RequestTypeInv DEF GetDevicesOnOffBroadcast
<1>8. CASE AddSceneActionNoFrame
  <2>1. frames' \in [FrameSlots -> Frame]
    BY <1>0, <1>8 DEF AddSceneActionNoFrame, TypeOK, Frame, RespTypes, ReportedTypes
  <2>2. Identified'
    BY <1>0, <1>8 DEF AddSceneActionNoFrame, TypeInv, TypeOK, Identified, Frame, senderVars
  <2>3. revived' \subseteq Requests
    BY <1>0, <1>8 DEF AddSceneActionNoFrame, TypeOK, Frame
  <2> QED
    BY <1>8, <2>1, <2>2, <2>3 DEF AddSceneActionNoFrame, TypeInv, TypeOK, Counting, senderVars
<1> QED
  BY <1>1, <1>2, <1>3, <1>4, <1>5, <1>6, <1>7, <1>8 DEF Submit

LEMMA AnswerTypeInv == TypeInv /\ Answer => TypeInv'
<1> SUFFICES ASSUME TypeInv, NEW t \in AnswerTypes, NEW a \in Devices, SetDeviceResp(t, a)
             PROVE  TypeInv'
  BY DEF Answer
<1>1. resps' \in [RespSlots -> RespSlot]
  BY DEF SetDeviceResp, TypeInv, TypeOK, RespSlot
<1>2. heard' \in BOOLEAN
  BY DEF SetDeviceResp, TypeInv, TypeOK
<1> QED
  BY <1>1, <1>2 DEF SetDeviceResp, TypeInv, TypeOK, Counting, Identified, senderVars,
     countVars

LEMMA SettledType ==
    ASSUME TypeOK, NEW o \in Outcomes PROVE Settled(o) \in [Requests -> Outcomes]
BY DEF TypeOK, Settled

LEMMA FreeRespIdxType ==
    ASSUME TypeOK, FreeRespIdx PROVE resps' \in [RespSlots -> RespSlot]
BY DEF TypeOK, FreeRespIdx, RespSlot, Addrs

LEMMA SenderTypeInv == TypeInv /\ BLE_SendToGateway => TypeInv'
<1> SUFFICES ASSUME TypeInv, BLE_SendToGateway PROVE TypeInv'
  OBVIOUS
<1> USE DEF bufferVars, countVars
<1>0. TypeOK /\ Counting /\ Identified
  BY DEF TypeInv
<1>o. {"acked", "timeout", "silent"} \subseteq Outcomes
  BY DEF Outcomes, Final
<1>1. CASE TakeFrame
  <2> PICK i \in FrameSlots : /\ sent' = frames[i]
                              /\ ClearFrame(i)
                              /\ outcome' \in [Requests -> Outcomes]
    BY <1>0, <1>1 DEF TakeFrame, TypeOK, Outcomes
  <2>1. sent' \in Frame /\ frames' \in [FrameSlots -> Frame]
    BY <1>0 DEF ClearFrame, TypeOK, Frame
  <2>2. busy' \in BOOLEAN /\ heard' \in BOOLEAN /\ deaf' \in BOOLEAN
    BY <1>1 DEF TakeFrame
  <2>3. Identified'
    BY <1>0, <1>1 DEF TakeFrame, ClearFrame, TypeOK, Identified, Frame
  <2>4. TypeOK'
    BY <1>0, <1>1, <2>1, <2>2 DEF TakeFrame, TypeOK
  <2>5. Counting'
    BY <1>0, <1>1 DEF TakeFrame, Counting
  <2> QED BY <2>3, <2>4, <2>5 DEF TypeInv
<1>2. CASE Transmit
  <2>1. resps' \in [RespSlots -> RespSlot] /\ respIdx' \in RespSlots
    <3>1. CASE failedCount = 0 /\ FreeResps # {}
      <4> PICK i \in FreeResps : resps' = [resps EXCEPT ![i] = NewEntry(i)] /\ respIdx' = i
        BY <1>2, <3>1 DEF Transmit, AllocateResp
      <4>1. i \in RespSlots /\ NewEntry(i) \in RespSlot
        BY <1>0 DEF FreeResps, NewEntry, RespSlot, TypeOK, Frame
      <4> QED BY <1>0, <4>1 DEF TypeOK
    <3>2. CASE ~(failedCount = 0 /\ FreeResps # {})
      BY <1>0, <1>2, <3>2 DEF Transmit, AllocateResp, TypeOK
    <3> QED BY <3>1, <3>2
  <2>2. outcome' \in [Requests -> Outcomes]
    BY <1>0, <1>o, <1>2, SettledType DEF Transmit, TypeOK
  <2>3. state' \in 0..3 /\ tx' \in 0..3 /\ Counting' /\ Identified'
    BY <1>0, <1>2 DEF Transmit, TypeOK, Counting, Identified
  <2> QED BY <1>0, <1>2, <2>1, <2>2, <2>3 DEF Transmit, TypeInv, TypeOK
<1>3. CASE Acknowledge \/ AcknowledgeLate
  <2>1. ResponseIsOk /\ state = 2
    BY <1>3 DEF Acknowledge, AcknowledgeLate
  <2>2. /\ resps' \in [RespSlots -> RespSlot]
        /\ sent' \in Frame
        /\ sent'.timed = sent.timed /\ sent'.id = sent.id /\ sent'.retryCount = sent.retryCount
        /\ outcome' \in [Requests -> Outcomes]
    BY <1>0, <1>o, <2>1, SettledType, FreeRespIdxType DEF ResponseIsOk, TypeOK, Frame
  <2>3. CASE Acknowledge
    BY <1>0, <2>2, <2>3 DEF Acknowledge, TypeInv, TypeOK, Counting, Identified
  <2>4. CASE AcknowledgeLate
    <3>1. CASE LastTry
      <4>1. state' = 0 /\ busy' \in BOOLEAN
        BY <2>4, <3>1 DEF AcknowledgeLate, Release
      <4> QED
        BY <1>0, <2>1, <2>2, <2>4, <4>1
           DEF AcknowledgeLate, TypeInv, TypeOK, Counting, Identified
    <3>2. CASE ~LastTry
      <4>1. state' = 1 /\ busy' = busy
        BY <2>4, <3>2 DEF AcknowledgeLate
      <4>2. failedCount + 1 < 3
        BY <1>0, <3>2 DEF LastTry, TypeOK, Frame
      <4> QED
        BY <1>0, <2>1, <2>2, <2>4, <4>1, <4>2
           DEF AcknowledgeLate, TypeInv, TypeOK, Counting, Identified
    <3> QED BY <3>1, <3>2
  <2> QED BY <1>3, <2>3, <2>4
<1>4. CASE Retry
  <2>1. failedCount + 1 < 3
    BY <1>0, <1>4 DEF Retry, LastTry, TypeOK, Frame
  <2> QED BY <1>0, <1>4, <2>1 DEF Retry, TypeInv, TypeOK, Counting, Identified
<1>5. CASE GiveUp
  <2>1. resps' \in [RespSlots -> RespSlot] /\ outcome' \in [Requests -> Outcomes]
    BY <1>0, <1>o, <1>5, SettledType, FreeRespIdxType DEF GiveUp
  <2>2. reported' \subseteq Requests
    BY <1>0, <1>5 DEF GiveUp, TypeOK, Identified
  <2>3. state' = 0 /\ busy' \in BOOLEAN
    BY <1>5 DEF GiveUp, Release
  <2>4. failedCount' \in 0..3
    BY <1>0, <1>5 DEF GiveUp, Counting, TypeOK
  <2> QED
    BY <1>0, <1>5, <2>1, <2>2, <2>3, <2>4 DEF GiveUp, TypeInv, TypeOK, Counting, Identified
<1>6. CASE EndPause
  <2>1. state' = 0 /\ busy' \in BOOLEAN
    BY <1>6 DEF EndPause, Release
  <2> QED BY <1>0, <1>6, <2>1 DEF EndPause, TypeInv, TypeOK, Counting, Identified
<1> QED
  BY <1>1, <1>2, <1>3, <1>4, <1>5, <1>6 DEF BLE_SendToGateway

LEMMA NextTypeInv == TypeInv /\ [Next]_vars => TypeInv'
<1>1. TypeInv /\ UNCHANGED vars => TypeInv'
  BY DEF TypeInv, TypeOK, Counting, Identified, vars
<1> QED BY <1>1, SubmitTypeInv, AnswerTypeInv, SenderTypeInv DEF Next

THEOREM TypeInvariant == Spec => []TypeInv
BY InitTypeInv, NextTypeInv, PTL DEF Spec

(* Every variable keeps its type, for any size of the tables and any number of
   requests.                                                                  *)
THEOREM TypeCorrect == Spec => []TypeOK
BY TypeInvariant, PTL DEF TypeInv

-------------------------------------------------------------------------------
(* The frame buffer: when frames are lost and in which order they are sent. *)

(* Slots are filled in order from slot 1; slot 0 is used only once the buffer
   has wrapped around.                                                       *)
BurstInv == \A i \in Pending : IF i = 0 THEN burst >= NFrames ELSE i <= burst

(* Pending frames belong to different requests, and until the buffer wraps
   around they lie in the order of their requests.                           *)
OrderInv ==
    /\ \A i \in Pending : frames[i].id \in 1..accepted
    /\ \A i, j \in Pending : frames[i].id = frames[j].id => i = j
    /\ burst < NFrames => \A i, j \in Pending : i < j => frames[i].id < frames[j].id

BufferInv == BurstInv /\ OrderInv

(* Every request writes a frame that carries its number; the frames without a
   timeout are the status broadcasts.                                        *)
Counted(f) ==
    \/ f.timed /\ UNCHANGED broadcasts
    \/ /\ ~f.timed /\ f.addr = All
       /\ Cardinality(broadcasts) < MaxBroadcasts
       /\ broadcasts' = broadcasts \cup {accepted + 1}

LEMMA SubmitCases ==
    ASSUME TypeInv, Submit
    PROVE  \/ \E f : /\ Request(f) /\ Counted(f)
                     /\ f \in Frame /\ f.id = accepted + 1 /\ f.respType # None
                     /\ f.retryCount >= 1
           \/ AddSceneActionNoFrame
<1> DEFINE Goal == \E f : /\ Request(f) /\ Counted(f)
                          /\ f \in Frame /\ f.id = accepted + 1 /\ f.respType # None
                          /\ f.retryCount >= 1
<1>0. TypeOK /\ Devices \subseteq Addrs /\ All \in Addrs
  BY DEF TypeInv, Addrs
<1>1. \A f : Request(f) => accepted < MaxRequests
  BY DEF Request, Record
<1>2. \A a : \A f \in {ControlFrame(a), IrFrame(a), ConfigFrame(a), GroupFrame(a),
                SceneFrame(a), PollFrame(a), BroadcastFrame} :
                   f.id = accepted + 1 /\ f.respType # None /\ f.retryCount >= 1
  BY DEF ControlFrame, IrFrame, ConfigFrame, GroupFrame, SceneFrame, PollFrame,
     BroadcastFrame, FrameTo, None
<1>3. \A a : \A f \in {ControlFrame(a), IrFrame(a), ConfigFrame(a), GroupFrame(a),
                SceneFrame(a), PollFrame(a)} : f.timed
  BY DEF ControlFrame, IrFrame, ConfigFrame, GroupFrame, SceneFrame, PollFrame, FrameTo
<1>4. ~BroadcastFrame.timed /\ BroadcastFrame.addr = All
  BY DEF BroadcastFrame, FrameTo
<1>5. \A a \in Addrs : UNCHANGED broadcasts =>
        /\ Request(ControlFrame(a)) \/ Request(IrFrame(a)) \/ Request(ConfigFrame(a)) => Goal
        /\ Request(GroupFrame(a)) \/ Request(SceneFrame(a)) \/ Request(PollFrame(a)) => Goal
  BY <1>0, <1>1, <1>2, <1>3, FramesWellFormed DEF Counted
<1>6. GetDevicesOnOffBroadcast => Goal
  BY <1>0, <1>1, <1>2, <1>4, FramesWellFormed DEF Counted, GetDevicesOnOffBroadcast
<1> HIDE DEF Goal
<1>7. Submit /\ ~AddSceneActionNoFrame => Goal
  BY <1>0, <1>5, <1>6 DEF Submit, Control, ControlIr, Configure, UpdateGroup, UpdateScene,
     GetDeviceOnOffState
<1> QED
  BY <1>7 DEF Goal

(* What a request does to the buffer. *)
LEMMA RequestBuffer ==
    ASSUME TypeOK, BufferInv, NEW f \in Frame, f.id = accepted + 1, f.respType # None,
           NEW e \in FrameSlots, sendFrameToGwIndex(e, f), Record(e)
    PROVE  /\ Pending' = Pending \cup {e}
           /\ e \in Pending => e = 0 /\ burst >= NFrames
           /\ burst' < NFrames => \A i \in Pending : i < e
           /\ BufferInv'
<1>1. PICK l \in FrameSlots : IsLatest(l) /\ e = IF l = NFrames - 1 THEN 0 ELSE l + 1
  BY DEF sendFrameToGwIndex, IsEmptyIndex
<1>2. frames' = [frames EXCEPT ![e] = f] /\ frames \in [FrameSlots -> Frame]
  BY DEF sendFrameToGwIndex, TypeOK
<1>3. Pending' = Pending \cup {e}
  BY <1>2 DEF Pending
<1>4. Pending \subseteq FrameSlots /\ FrameSlots \subseteq Nat
  BY DEF Pending, FrameSlots
<1>5. accepted' = accepted + 1 /\ burst \in Nat /\ accepted \in Nat
      /\ burst' = IF Pending = {} THEN 1 ELSE burst + 1
  BY DEF Record, TypeOK
<1>6. CASE Pending = {}
  <2>1. l = 0 /\ e = 1
    BY <1>1, <1>6 DEF IsLatest
  <2>2. BurstInv' /\ OrderInv'
    BY <1>2, <1>3, <1>5, <1>6, <2>1 DEF BurstInv, OrderInv
  <2> QED BY <1>3, <1>6, <2>2 DEF BufferInv
<1>7. CASE Pending # {}
  <2>1. l \in Pending /\ \A j \in Pending : j <= l
    BY <1>1, <1>7 DEF IsLatest
  <2>2. burst' = burst + 1
    BY <1>5, <1>7
  <2>3. CASE l = NFrames - 1
    <3>1. e = 0 /\ burst' >= NFrames
      BY <1>1, <1>5, <2>1, <2>2, <2>3 DEF BufferInv, BurstInv
    <3>2. e \in Pending => burst >= NFrames
      BY <3>1 DEF BufferInv, BurstInv
    <3>3. BurstInv'
      BY <1>3, <1>4, <1>5, <2>2, <3>1 DEF BufferInv, BurstInv
    <3>4. OrderInv'
      BY <1>2, <1>3, <1>4, <1>5, <2>2, <3>1 DEF BufferInv, OrderInv
    <3> QED BY <1>3, <1>5, <3>1, <3>2, <3>3, <3>4 DEF BufferInv
  <2>4. CASE l # NFrames - 1
    <3>1. e = l + 1 /\ e \notin Pending /\ e # 0
      BY <1>1, <1>4, <2>1, <2>4
    <3>2. l <= burst \/ l = 0
      BY <2>1 DEF BufferInv, BurstInv
    <3>3. BurstInv'
      BY <1>3, <1>4, <1>5, <2>2, <3>1, <3>2 DEF BufferInv, BurstInv
    <3>4. \A i \in Pending : i < e
      BY <1>4, <2>1, <3>1
    <3>5. OrderInv'
      <4>1. \A i \in Pending' : frames'[i].id \in 1..accepted'
        BY <1>2, <1>3, <1>4, <1>5 DEF BufferInv, OrderInv
      <4>2. \A i \in Pending : frames'[i] = frames[i] /\ frames[i].id \in 1..accepted
        BY <1>2, <1>4, <3>1 DEF BufferInv, OrderInv
      <4>3. frames'[e].id = accepted + 1
        BY <1>2
      <4>4. \A i, j \in Pending' : frames'[i].id = frames'[j].id => i = j
        BY <1>3, <1>5, <4>2, <4>3 DEF BufferInv, OrderInv
      <4>5. burst' < NFrames =>
              \A i, j \in Pending' : i < j => frames'[i].id < frames'[j].id
        BY <1>3, <1>4, <1>5, <2>2, <3>4, <4>2, <4>3 DEF BufferInv, OrderInv
      <4> QED BY <4>1, <4>4, <4>5 DEF OrderInv
    <3> QED BY <1>3, <3>1, <3>3, <3>4, <3>5 DEF BufferInv
  <2> QED BY <2>3, <2>4
<1> QED BY <1>6, <1>7

LEMMA InitBufferInv == Init => BufferInv
BY DEF Init, BufferInv, BurstInv, OrderInv, Pending, NoFrame

LEMMA NextBufferInv ==
    ASSUME MaxMistagged = 0, TypeInv, BufferInv, [Next]_vars
    PROVE  BufferInv'
<1>0. TypeOK
  BY DEF TypeInv
<1>1. CASE Submit
  <2>1. ~AddSceneActionNoFrame
    BY <1>0 DEF AddSceneActionNoFrame, TypeOK
  <2>2. PICK f : Request(f) /\ f \in Frame /\ f.id = accepted + 1 /\ f.respType # None
    BY <1>1, <2>1, SubmitCases
  <2> QED BY <1>0, <2>2, RequestBuffer DEF Request
<1>2. CASE TakeFrame
  <2>1. PICK i \in FrameSlots : ClearFrame(i)
    BY <1>2 DEF TakeFrame
  <2>2. /\ Pending' \subseteq Pending
        /\ \A j \in Pending' : frames'[j].id = frames[j].id
    BY <1>0, <2>1 DEF ClearFrame, Pending, TypeOK, Frame
  <2>3. UNCHANGED <<accepted, burst>>
    BY <1>2 DEF TakeFrame, countVars
  <2> QED BY <2>2, <2>3 DEF BufferInv, BurstInv, OrderInv
<1>3. CASE UNCHANGED <<frames, accepted, burst>>
  BY <1>3 DEF BufferInv, BurstInv, OrderInv, Pending
<1>4. Answer => UNCHANGED <<frames, accepted, burst>>
  BY DEF Answer, SetDeviceResp, countVars
<1>5. BLE_SendToGateway => TakeFrame \/ UNCHANGED <<frames, accepted, burst>>
  BY DEF BLE_SendToGateway, Transmit, Acknowledge, AcknowledgeLate, Retry, GiveUp, EndPause,
     bufferVars, countVars
<1> QED BY <1>1, <1>2, <1>3, <1>4, <1>5 DEF Next, vars

LEMMA BufferInvariant == MaxMistagged = 0 => (Spec => [](TypeInv /\ BufferInv))
<1> SUFFICES ASSUME MaxMistagged = 0 PROVE Spec => [](TypeInv /\ BufferInv)
  OBVIOUS
<1>1. Init => TypeInv /\ BufferInv
  BY InitTypeInv, InitBufferInv
<1>2. TypeInv /\ BufferInv /\ [Next]_vars => (TypeInv /\ BufferInv)'
  BY NextTypeInv, NextBufferInv
<1> QED BY <1>1, <1>2, PTL DEF Spec

(* No step of the sender, and no answer, loses a pending frame. *)
LEMMA OnlyRequestsLose ==
    ASSUME TypeInv, Next, ~Submit, NEW r \in Requests, outcome[r] = "pending"
    PROVE  outcome'[r] \in {"pending", "sending", "acked", "silent", "timeout"}
<1>1. outcome \in [Requests -> Outcomes]
  BY DEF TypeInv, TypeOK
<1>2. ASSUME NEW o \in {"acked", "silent", "timeout"} PROVE Settled(o)[r] \in {"pending", o}
  BY <1>1 DEF Settled
<1>3. CASE Answer
  BY <1>3 DEF Answer, SetDeviceResp
<1>4. CASE TakeFrame
  BY <1>1, <1>4 DEF TakeFrame
<1>5. CASE Transmit
  BY <1>2, <1>5 DEF Transmit
<1>6. CASE Acknowledge \/ AcknowledgeLate
  BY <1>2, <1>6 DEF Acknowledge, AcknowledgeLate, ResponseIsOk
<1>7. CASE GiveUp
  BY <1>2, <1>7 DEF GiveUp
<1>8. CASE Retry \/ EndPause
  BY <1>8 DEF Retry, EndPause
<1> QED
  BY <1>3, <1>4, <1>5, <1>6, <1>7, <1>8 DEF Next, BLE_SendToGateway

(* A frame is lost only in a burst that has already filled the buffer once,
   whatever the size of the buffer.                                          *)
THEOREM LossBounded == MaxMistagged = 0 => (Spec => LossOnlyInLongBurst)
<1> SUFFICES ASSUME MaxMistagged = 0 PROVE Spec => LossOnlyInLongBurst
  OBVIOUS
<1>1. ASSUME TypeInv, BufferInv, [Next]_vars, NEW r \in Requests,
             outcome[r] = "pending", outcome'[r] = "lost"
      PROVE  burst >= NFrames
  <2>1. Next
    BY <1>1 DEF vars
  <2>2. Submit
    BY <1>1, <2>1, OnlyRequestsLose
  <2>3. ~AddSceneActionNoFrame
    BY <1>1 DEF AddSceneActionNoFrame, TypeInv, TypeOK
  <2>4. PICK f : Request(f) /\ f \in Frame /\ f.id = accepted + 1 /\ f.respType # None
    BY <1>1, <2>2, <2>3, SubmitCases
  <2>5. PICK e \in FrameSlots : sendFrameToGwIndex(e, f) /\ Record(e)
    BY <2>4 DEF Request
  <2>6. e \in Pending
    BY <1>1, <2>5 DEF Record
  <2> QED BY <1>1, <2>4, <2>5, <2>6, RequestBuffer DEF TypeInv
<1>2. TypeInv /\ BufferInv /\ [Next]_vars =>
        [\A r \in Requests :
            outcome[r] = "pending" /\ outcome'[r] = "lost" => burst >= NFrames]_vars
  BY <1>1
<1>3. Spec => [](TypeInv /\ BufferInv)
  BY BufferInvariant
<1> QED BY <1>2, <1>3, PTL DEF Spec, LossOnlyInLongBurst

(* Requests of one priority leave in the order they came, until the buffer
   wraps around.                                                             *)
THEOREM OrderKept == MaxMistagged = 0 => (Spec => SentInOrder)
<1> SUFFICES ASSUME MaxMistagged = 0 PROVE Spec => SentInOrder
  OBVIOUS
<1>1. ASSUME TypeInv, BufferInv, [Next]_vars, NEW i \in Pending, NEW j \in Pending,
             Overtakes(i, j)
      PROVE  burst >= NFrames
  <2>1. outcome[frames[i].id] = "pending" /\ outcome'[frames[i].id] = "sending"
        /\ frames[i].id \in Requests /\ frames[j].id < frames[i].id
        /\ frames[j].priority = frames[i].priority
    BY <1>1 DEF Overtakes
  <2>2. /\ outcome \in [Requests -> Outcomes] /\ frames \in [FrameSlots -> Frame]
        /\ burst \in Nat /\ accepted \in Nat
    BY <1>1 DEF TypeInv, TypeOK
  <2>3. TakeFrame
    <3>1. ASSUME NEW o \in {"acked", "silent", "timeout"}
          PROVE  Settled(o)[frames[i].id] # "sending"
      BY <2>1, <2>2 DEF Settled
    <3>2. ~(Answer \/ UNCHANGED vars)
      BY <2>1 DEF Answer, SetDeviceResp, vars
    <3>3. ~Submit
      <4>1. \A f : ~Request(f)
        BY <2>1 DEF Request, Record
      <4>2. ~AddSceneActionNoFrame
        BY <2>1 DEF AddSceneActionNoFrame
      <4> QED BY <1>1, <4>1, <4>2, SubmitCases
    <3>4. ~(Transmit \/ Acknowledge \/ AcknowledgeLate \/ Retry \/ GiveUp \/ EndPause)
      BY <2>1, <3>1 DEF Transmit, Acknowledge, AcknowledgeLate, ResponseIsOk, Retry, GiveUp,
         EndPause
    <3> QED BY <1>1, <3>2, <3>3, <3>4 DEF Next, BLE_SendToGateway
  <2>4. PICK k \in FrameSlots :
           /\ IsFrameToSend(k)
           /\ outcome' = IF frames[k].id \in Requests /\ outcome[frames[k].id] = "pending"
                         THEN [outcome EXCEPT ![frames[k].id] = "sending"] ELSE outcome
    BY <2>3 DEF TakeFrame
  <2>5. frames[k].id = frames[i].id /\ k \in Pending
    BY <2>1, <2>2, <2>4 DEF IsFrameToSend
  <2>6. k = i
    BY <1>1, <2>5 DEF BufferInv, OrderInv
  <2>7. i \in FrameSlots /\ j \in FrameSlots /\ i \in Nat /\ j \in Nat
    BY DEF Pending, FrameSlots
  <2>8. frames[i].id \in Nat /\ frames[j].id \in Nat /\ frames[i].priority \in Nat
    <3>1. frames[i].priority \in 0..2
      BY <2>2, <2>7 DEF Frame
    <3> QED BY <1>1, <3>1 DEF BufferInv, OrderInv
  <2>9. i <= j
    BY <2>1, <2>4, <2>6, <2>8 DEF IsFrameToSend
  <2>10. i < j
    BY <2>1, <2>7, <2>8, <2>9
  <2> QED BY <1>1, <2>1, <2>2, <2>8, <2>10 DEF BufferInv, OrderInv
<1>2. TypeInv /\ BufferInv /\ [Next]_vars =>
        [\A i, j \in Pending : Overtakes(i, j) => burst >= NFrames]_vars
  BY <1>1
<1>3. Spec => [](TypeInv /\ BufferInv)
  BY BufferInvariant
<1> QED BY <1>2, <1>3, PTL DEF Spec, SentInOrder
=============================================================================
