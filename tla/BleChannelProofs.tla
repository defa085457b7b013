--------------------------- MODULE BleChannelProofs ---------------------------
(* BleSender implements BleChannel. *)
EXTENDS BleSenderProofs, FiniteSetTheorems

USE NFramesAssumption, NRespsAssumption, AllAssumption, BoundsAssumption

-------------------------------------------------------------------------------
(* The frame in flight still waits for an answer; it owns entry respIdx unless
   it found the response table full.                                         *)
Waiting == sent.respType # None /\ (state = 2 \/ (state = 1 /\ failedCount > 0))

UsedResps == {i \in RespSlots : resps[i].respType # None}
OwnResp   == IF Waiting /\ ~deaf THEN {respIdx} ELSE {}
Silent    == {r \in Requests : outcome[r] = "silent"}

FlightInv ==
    /\ busy <=> state # 0
    /\ state # 0 => sent.id \in 1..accepted
    /\ state \in {1, 2} =>
          \/ outcome[sent.id] = "sending" /\ sent.respType # None
          \/ outcome[sent.id] = "acked" /\ sent.respType = None /\ (state = 1 => failedCount > 0)
    /\ state \in {1, 2} => failedCount < sent.retryCount
    /\ state = 3 => outcome[sent.id] \in {"acked", "silent"}
    /\ state = 1 /\ failedCount = 0 => heard = FALSE /\ deaf = FALSE
    /\ state = 1 /\ ~sent.timed => failedCount = 0 /\ sent.id \in broadcasts /\ sent.addr = All

RequestInv ==
    /\ \A r \in Requests : r > accepted => outcome[r] = "unsent"
    /\ \A i \in Pending : outcome[frames[i].id] = "pending"
    /\ \A i \in Pending : ~frames[i].timed => frames[i].id \in broadcasts /\ frames[i].addr = All
    /\ \A i \in Pending : frames[i].retryCount >= 1
    /\ broadcasts \subseteq 1..accepted
    /\ Silent \subseteq broadcasts
    /\ Cardinality(broadcasts) <= MaxBroadcasts

(* The entry of the frame in flight holds its type and address and is marked
   as answered exactly when an answer was heard.                             *)
EntryInv ==
    Waiting /\ ~deaf =>
               /\ resps[respIdx].respType = sent.respType
               /\ resps[respIdx].addr = sent.addr
               /\ resps[respIdx].answered = heard

(* All other entries in use were left behind by broadcasts, and no device
   answers to them; the table is full only after NResps broadcasts.          *)
LeakInv ==
    /\ \A i \in UsedResps \ OwnResp : resps[i].addr = All /\ ~resps[i].answered
    /\ deaf => NResps <= Cardinality(Silent)
    /\ Cardinality(UsedResps \ OwnResp) <= Cardinality(Silent)

ChannelInv == FlightInv /\ RequestInv /\ EntryInv /\ LeakInv

AllInv == TypeInv /\ BufferInv /\ ChannelInv

LEMMA FiniteSets ==
    ASSUME TypeOK
    PROVE  /\ IsFiniteSet(RespSlots) /\ Cardinality(RespSlots) = NResps
           /\ IsFiniteSet(UsedResps \ OwnResp) /\ IsFiniteSet(UsedResps)
           /\ IsFiniteSet(Silent) /\ IsFiniteSet(broadcasts)
<1>1. IsFiniteSet(RespSlots) /\ Cardinality(RespSlots) = NResps
  BY FS_Interval DEF RespSlots
<1>2. IsFiniteSet(Requests)
  BY FS_Interval DEF Requests
<1> QED BY <1>1, <1>2, FS_Subset DEF UsedResps, Silent, TypeOK

LEMMA InitChannelInv == Init => ChannelInv
<1> SUFFICES ASSUME Init PROVE ChannelInv
  OBVIOUS
<1>1. UsedResps \ OwnResp = {} /\ Silent = {} /\ Pending = {}
  BY DEF Init, UsedResps, Silent, Pending, FreeResp, NoFrame
<1>2. FlightInv
  BY DEF Init, FlightInv
<1>3. EntryInv
  BY DEF Init, EntryInv, Waiting, NoFrame
<1>4. RequestInv
  BY <1>1, FS_EmptySet DEF Init, RequestInv
<1>5. LeakInv
  BY <1>1, FS_EmptySet DEF Init, LeakInv
<1> QED BY <1>2, <1>3, <1>4, <1>5 DEF ChannelInv

(* A new request does not touch the sender. *)
LEMMA RequestChannelInv ==
    ASSUME AllInv, NEW f \in Frame, Request(f), Counted(f),
           f.id = accepted + 1, f.respType # None, f.retryCount >= 1
    PROVE  /\ ChannelInv'
           /\ Channel!Accept
<1>0. TypeOK /\ BufferInv /\ FlightInv /\ RequestInv /\ EntryInv /\ LeakInv
  BY DEF AllInv, ChannelInv, TypeInv
<1>1. PICK e \in FrameSlots : sendFrameToGwIndex(e, f) /\ Record(e)
  BY DEF Request
<1>2. UNCHANGED <<resps, state, sent, failedCount, respIdx, busy, tx, reported, heard, deaf>>
  BY DEF Request, senderVars
<1>3. /\ accepted < MaxRequests /\ accepted' = accepted + 1 /\ accepted \in Nat
      /\ frames' = [frames EXCEPT ![e] = f] /\ frames \in [FrameSlots -> Frame]
      /\ outcome \in [Requests -> Outcomes]
      /\ accepted + 1 \in Requests
  BY <1>0, <1>1 DEF Record, sendFrameToGwIndex, TypeOK, Requests
<1>4. Pending' = Pending \cup {e}
  BY <1>0, <1>1, RequestBuffer
<1>5. \A i \in Pending : frames[i].id \in 1..accepted /\ outcome[frames[i].id] = "pending"
  BY <1>0 DEF BufferInv, OrderInv, RequestInv
<1>6. outcome' = [r \in Requests |->
          IF r = accepted + 1 THEN "pending"
          ELSE IF e \in Pending /\ r = frames[e].id THEN "lost" ELSE outcome[r]]
  BY <1>1 DEF Record
<1>7. outcome[accepted + 1] = "unsent"
  BY <1>0, <1>3 DEF RequestInv
<1>8. \A r \in 1..accepted : r \in Requests /\ r # accepted + 1
  BY <1>3 DEF Requests
<1>9. \A r \in Requests : outcome[r] \notin {"unsent", "pending"} => outcome'[r] = outcome[r]
  BY <1>3, <1>5, <1>6, <1>7
<1>10. Silent' = Silent
  <2>1. \A r \in Requests : outcome'[r] = "silent" <=> outcome[r] = "silent"
    BY <1>6, <1>7, <1>9
  <2> QED BY <2>1 DEF Silent
<1>11. FlightInv'
  <2>1. broadcasts \subseteq broadcasts'
    BY DEF Counted
  <2> QED BY <1>0, <1>2, <1>3, <1>8, <1>9, <2>1 DEF FlightInv
<1>12. RequestInv'
  <2>1. \A r \in Requests : r > accepted' => outcome'[r] = "unsent"
    BY <1>0, <1>3, <1>5, <1>6 DEF RequestInv, Requests
  <2>2. \A i \in Pending' : outcome'[frames'[i].id] = "pending"
    <3>1. outcome'[frames'[e].id] = "pending"
      <4>1. frames'[e].id = accepted + 1
        BY <1>3
      <4>2. outcome'[accepted + 1] = "pending"
        <5>1. accepted + 1 \in Requests
          BY <1>3
        <5> QED BY <1>6, <5>1
      <4> QED BY <4>1, <4>2
    <3>2. ASSUME NEW i \in Pending, i # e PROVE outcome'[frames'[i].id] = "pending"
      <4>1. frames'[i] = frames[i] /\ frames[i].id \in Requests /\ frames[i].id # accepted + 1
        BY <1>3, <1>5, <1>8, <3>2 DEF Pending
      <4>2. e \in Pending => frames[e].id # frames[i].id
        BY <1>0, <3>2 DEF BufferInv, OrderInv
      <4> QED BY <1>5, <1>6, <4>1, <4>2
    <3> QED BY <1>4, <3>1, <3>2
  <2>3. /\ broadcasts' \subseteq 1..accepted'
        /\ Cardinality(broadcasts') <= MaxBroadcasts
        /\ broadcasts \subseteq broadcasts'
    <3>1. CASE UNCHANGED broadcasts
      BY <1>0, <1>3, <3>1 DEF RequestInv
    <3>2. CASE /\ Cardinality(broadcasts) < MaxBroadcasts
               /\ broadcasts' = broadcasts \cup {accepted + 1}
      <4>1. IsFiniteSet(broadcasts) /\ Cardinality(broadcasts) \in Nat
        BY <1>0, FiniteSets, FS_CardinalityType
      <4>2. Cardinality(broadcasts \cup {accepted + 1}) \in {Cardinality(broadcasts),
                                                            Cardinality(broadcasts) + 1}
        BY <4>1, FS_AddElement
      <4>3. Cardinality(broadcasts') <= MaxBroadcasts
        BY <3>2, <4>1, <4>2
      <4>4. broadcasts' \subseteq 1..accepted'
        <5>1. broadcasts \subseteq 1..accepted
          BY <1>0 DEF RequestInv
        <5> QED BY <1>3, <3>2, <5>1
      <4> QED BY <3>2, <4>3, <4>4
    <3> QED BY <3>1, <3>2 DEF Counted
  <2>4. \A i \in Pending' : ~frames'[i].timed =>
           frames'[i].id \in broadcasts' /\ frames'[i].addr = All
    <3>1. ~f.timed => f.id \in broadcasts' /\ f.addr = All
      BY DEF Counted
    <3>2. \A i \in Pending' : frames'[i] = f \/ (i \in Pending /\ frames'[i] = frames[i])
      BY <1>3, <1>4 DEF Pending
    <3> QED BY <1>0, <2>3, <3>1, <3>2 DEF RequestInv
  <2>5. Silent' \subseteq broadcasts'
    BY <1>0, <1>10, <2>3 DEF RequestInv
  <2>6. \A i \in Pending' : frames'[i].retryCount >= 1
    <3>1. \A i \in Pending' : frames'[i] = f \/ (i \in Pending /\ frames'[i] = frames[i])
      BY <1>3, <1>4 DEF Pending
    <3> QED BY <1>0, <3>1 DEF RequestInv
  <2> QED BY <2>1, <2>2, <2>3, <2>4, <2>5, <2>6 DEF RequestInv
<1>13. EntryInv' /\ LeakInv'
  <2>1. Waiting' = Waiting /\ UsedResps' = UsedResps /\ OwnResp' = OwnResp
    BY <1>2 DEF Waiting, UsedResps, OwnResp
  <2> QED BY <1>0, <1>2, <1>10, <2>1 DEF EntryInv, LeakInv
<1>14. Channel!Accept
  <2> DEFINE dropped == IF e \in Pending THEN {frames[e].id} ELSE {}
  <2>1. dropped \in SUBSET {q \in Requests : outcome[q] = "pending"}
        /\ \A p, q \in dropped : p = q
    BY <1>5, <1>8
  <2>2. outcome' = [q \in Requests |->
         IF q = accepted + 1 THEN "pending" ELSE IF q \in dropped THEN "lost" ELSE outcome[q]]
    BY <1>6
  <2> HIDE DEF dropped
  <2>3. UNCHANGED <<IF busy THEN sent.id ELSE 0, heard, deaf, reported>>
    BY <1>2
  <2> QED
    BY <1>3, <1>7, <2>1, <2>2, <2>3 DEF Channel!Accept, Channel!Requests, Requests
<1> QED BY <1>11, <1>12, <1>13, <1>14 DEF ChannelInv

(* An answer marks at most the entry of the frame in flight. *)
LEMMA AnswerChannelInv ==
    ASSUME AllInv, Answer
    PROVE  /\ ChannelInv'
           /\ Channel!Hear \/ UNCHANGED Channel!vars
<1>0. TypeOK /\ FlightInv /\ RequestInv /\ EntryInv /\ LeakInv /\ Counting
  BY DEF AllInv, ChannelInv, TypeInv
<1>1. PICK t \in AnswerTypes, a \in Devices : SetDeviceResp(t, a)
  BY DEF Answer
<1>2. UNCHANGED <<frames, state, sent, failedCount, respIdx, busy, tx, reported,
                  accepted, broadcasts, outcome, deaf>>
  BY <1>1 DEF SetDeviceResp, senderVars, countVars
<1>3. a # All /\ t # None
  BY DEF AnswerTypes, ReportedTypes, None
<1>4. /\ resps \in [RespSlots -> RespSlot]
      /\ resps' = [i \in RespSlots |->
            IF IsAnsweredSlot(i, t, a) THEN [resps[i] EXCEPT !.answered = TRUE]
                                       ELSE resps[i]]
  BY <1>0, <1>1 DEF SetDeviceResp, TypeOK
<1>5. \A i \in RespSlots : /\ resps'[i].respType = resps[i].respType
                           /\ resps'[i].addr = resps[i].addr
                           /\ resps'[i].answered = (resps[i].answered \/ IsAnsweredSlot(i, t, a))
  BY <1>4 DEF RespSlot
<1>6. Waiting' = Waiting /\ UsedResps' = UsedResps /\ OwnResp' = OwnResp /\ Silent' = Silent
  BY <1>2, <1>5 DEF Waiting, UsedResps, OwnResp, Silent
<1>7. heard' = (heard \/ (tx > 0 /\ state \in {1, 2} /\ sent.addr = a
                           /\ Matches(sent.respType, t)))
  BY <1>1 DEF SetDeviceResp
<1>8. EntryInv'
  <2> SUFFICES ASSUME Waiting, ~deaf PROVE resps'[respIdx].answered = heard'
    BY <1>0, <1>2, <1>5, <1>6 DEF EntryInv, TypeOK
  <2>1. /\ resps[respIdx].respType = sent.respType
        /\ resps[respIdx].addr = sent.addr
        /\ resps[respIdx].answered = heard
        /\ respIdx \in RespSlots
    BY <1>0 DEF EntryInv, TypeOK
  <2>2. \A j \in RespSlots : Matches(resps[j].respType, t) /\ resps[j].addr = a => j = respIdx
    <3>1. \A j \in RespSlots : Matches(resps[j].respType, t) => j \in UsedResps
      BY <1>3 DEF Matches, UsedResps, None
    <3> QED BY <1>0, <1>3, <3>1 DEF LeakInv, OwnResp
  <2>3. respIdx <= respIdx
    BY <2>1 DEF RespSlots
  <2>4. IsAnsweredSlot(respIdx, t, a) <=> (Matches(sent.respType, t) /\ sent.addr = a)
    BY <2>1, <2>2, <2>3 DEF IsAnsweredSlot
  <2>5. tx > 0 /\ state \in {1, 2}
    BY <1>0 DEF Waiting, Counting, TypeOK
  <2> QED BY <1>5, <1>7, <2>1, <2>4, <2>5
<1>9. LeakInv'
  BY <1>0, <1>2, <1>3, <1>5, <1>6 DEF LeakInv, UsedResps, IsAnsweredSlot
<1>10. RequestInv'
  BY <1>0, <1>2, <1>6 DEF RequestInv, Pending
<1>11. FlightInv'
  <2>1. state = 1 /\ failedCount = 0 => heard' = heard
    BY <1>0, <1>7 DEF Counting, TypeOK
  <2> QED BY <1>0, <1>2, <2>1 DEF FlightInv
<1>12. Channel!Hear \/ UNCHANGED Channel!vars
  <2>1. UNCHANGED <<outcome, IF busy THEN sent.id ELSE 0, deaf, reported>>
    BY <1>2
  <2>2. CASE heard' = heard
    BY <2>1, <2>2 DEF Channel!vars
  <2>3. CASE heard' # heard
    <3>1. heard' = TRUE /\ state \in {1, 2}
      BY <1>0, <1>7, <2>3 DEF TypeOK
    <3>2. busy /\ sent.id \in 1..accepted
      BY <1>0, <3>1 DEF FlightInv
    <3>3. (IF busy THEN sent.id ELSE 0) # 0
      BY <3>2
    <3> QED BY <2>1, <3>1, <3>3 DEF Channel!Hear
  <2> QED BY <2>2, <2>3
<1> QED BY <1>8, <1>9, <1>10, <1>11, <1>12 DEF ChannelInv

-------------------------------------------------------------------------------
(* The steps of BLE_SendToGateway. *)

(* TakeFrame starts the request of the frame it takes. *)
LEMMA TakeChannelInv ==
    ASSUME AllInv, TakeFrame
    PROVE  ChannelInv' /\ Channel!Start
<1>0. TypeOK /\ BufferInv /\ FlightInv /\ RequestInv /\ EntryInv /\ LeakInv
  BY DEF AllInv, ChannelInv, TypeInv
<1>1. PICK i \in FrameSlots :
         /\ IsFrameToSend(i)
         /\ sent' = frames[i]
         /\ ClearFrame(i)
         /\ outcome' = IF frames[i].id \in Requests /\ outcome[frames[i].id] = "pending"
                       THEN [outcome EXCEPT ![frames[i].id] = "sending"]
                       ELSE outcome
  BY DEF TakeFrame
<1>2. /\ state = 0 /\ state' = 1 /\ failedCount' = 0 /\ busy' = TRUE /\ heard' = FALSE
      /\ deaf' = FALSE
      /\ busy = FALSE
      /\ UNCHANGED <<resps, respIdx, reported, accepted, broadcasts>>
  BY DEF TakeFrame, countVars
<1>3. /\ i \in Pending /\ frames[i].respType # None
      /\ frames[i].id \in 1..accepted /\ frames[i].id \in Requests
      /\ outcome[frames[i].id] = "pending"
  BY <1>0, <1>1 DEF IsFrameToSend, Pending, BufferInv, OrderInv, RequestInv, TypeOK, Requests
<1>4. outcome' = [outcome EXCEPT ![frames[i].id] = "sending"] /\ outcome \in [Requests -> Outcomes]
  BY <1>0, <1>1, <1>3 DEF TypeOK
<1>5. \A j \in Pending' : j \in Pending /\ j # i /\ frames'[j] = frames[j]
  BY <1>0, <1>1 DEF ClearFrame, Pending, TypeOK
<1>6. Silent' = Silent
  BY <1>3, <1>4 DEF Silent
<1>7. UsedResps' = UsedResps /\ OwnResp = {} /\ OwnResp' = {} /\ ~Waiting'
  BY <1>2 DEF UsedResps, OwnResp, Waiting
<1>8. FlightInv'
  <2>1. outcome'[sent'.id] = "sending" /\ sent'.respType # None /\ sent'.id \in 1..accepted
    BY <1>1, <1>3, <1>4
  <2>2. ~sent'.timed => sent'.id \in broadcasts /\ sent'.addr = All
    BY <1>0, <1>1, <1>3 DEF RequestInv
  <2>3. 0 < sent'.retryCount
    <3>1. frames[i].retryCount \in 0..3
      BY <1>0, <1>3 DEF TypeOK, Pending, Frame
    <3> QED BY <1>0, <1>1, <1>3, <3>1 DEF RequestInv
  <2> QED BY <1>2, <2>1, <2>2, <2>3 DEF FlightInv
<1>9. RequestInv'
  <2>1. \A j \in Pending' : frames[j].id \in Requests /\ frames[j].id # frames[i].id
    BY <1>0, <1>3, <1>5 DEF BufferInv, OrderInv, Requests, TypeOK
  <2>2. \A j \in Pending' : outcome'[frames'[j].id] = "pending"
    BY <1>0, <1>4, <1>5, <2>1 DEF RequestInv
  <2>3. \A r \in Requests : r > accepted' => outcome'[r] = "unsent"
    BY <1>0, <1>2, <1>3, <1>4 DEF RequestInv, TypeOK
  <2> QED BY <1>0, <1>2, <1>5, <1>6, <2>2, <2>3 DEF RequestInv
<1>10. EntryInv' /\ LeakInv'
  BY <1>0, <1>2, <1>6, <1>7 DEF EntryInv, LeakInv
<1>11. Channel!Start
  BY <1>1, <1>2, <1>3, <1>4 DEF Channel!Start, Channel!Requests, Requests
<1> QED BY <1>8, <1>9, <1>10, <1>11 DEF ChannelInv

(* What a step in flight that only settles the current request keeps. *)
LEMMA RequestInvKept ==
    ASSUME TypeOK, RequestInv, UNCHANGED <<frames, accepted, broadcasts>>,
           \A r \in Requests : outcome'[r] = outcome[r] \/ outcome[r] = "sending",
           BufferInv, Silent' \subseteq broadcasts
    PROVE  RequestInv'
<1>1. \A i \in Pending : frames[i].id \in Requests
  BY DEF BufferInv, OrderInv, Requests, TypeOK
<1>2. Pending' = Pending
  BY DEF Pending
<1>3. \A i \in Pending' : outcome'[frames'[i].id] = "pending"
  BY <1>1, <1>2 DEF RequestInv
<1>4. \A r \in Requests : r > accepted' => outcome'[r] = "unsent"
  BY DEF RequestInv
<1> QED BY <1>2, <1>3, <1>4 DEF RequestInv

(* Entries that stop being in use only help. *)
LEMMA LeakInvKept ==
    ASSUME TypeOK, LeakInv, Silent' = Silent, deaf' = deaf,
           \A j \in UsedResps' \ OwnResp' : j \in UsedResps \ OwnResp /\ resps'[j] = resps[j]
    PROVE  LeakInv'
<1>1. UsedResps' \ OwnResp' \in SUBSET (UsedResps \ OwnResp)
  OBVIOUS
<1>2. IsFiniteSet(UsedResps \ OwnResp) /\ IsFiniteSet(Silent)
  BY FiniteSets
<1>3. /\ IsFiniteSet(UsedResps' \ OwnResp')
      /\ Cardinality(UsedResps' \ OwnResp') <= Cardinality(UsedResps \ OwnResp)
  BY <1>1, <1>2, FS_Subset
<1>4. /\ Cardinality(UsedResps' \ OwnResp') \in Nat
      /\ Cardinality(UsedResps \ OwnResp) \in Nat /\ Cardinality(Silent) \in Nat
  BY <1>2, <1>3, FS_CardinalityType
<1>5. Cardinality(UsedResps' \ OwnResp') <= Cardinality(Silent')
  BY <1>3, <1>4 DEF LeakInv
<1> QED BY <1>5 DEF LeakInv

(* A first transmission finds the table full only after NResps broadcasts. *)
LEMMA FullTable ==
    ASSUME TypeOK, LeakInv, OwnResp = {}, FreeResps = {}
    PROVE  NResps <= Cardinality(Silent)
<1>1. UsedResps \ OwnResp = RespSlots
  BY DEF FreeResps, UsedResps
<1> QED BY <1>1, FiniteSets DEF LeakInv

(* The channel counts its silent requests with the same operator. *)
LEMMA ChannelCardinality == \A S : Channel!Cardinality(S) = Cardinality(S)
BY DEF Channel!Cardinality, Cardinality

(* The first transmission takes a free entry, and that of a broadcast keeps it;
   when none is free the sender goes deaf.                                   *)
LEMMA TransmitChannelInv ==
    ASSUME AllInv, Transmit
    PROVE  /\ ChannelInv'
           /\ Channel!Settle \/ Channel!GoDeaf \/ UNCHANGED Channel!vars
<1>0. TypeOK /\ BufferInv /\ FlightInv /\ RequestInv /\ EntryInv /\ LeakInv /\ Identified
  BY DEF AllInv, ChannelInv, TypeInv
<1>1. /\ state = 1 /\ AllocateResp
      /\ state' = IF sent.timed THEN 2 ELSE 3
      /\ outcome' = IF sent.timed THEN outcome ELSE Settled("silent")
      /\ UNCHANGED <<frames, sent, failedCount, busy, reported, accepted, broadcasts, heard>>
      /\ deaf' = IF failedCount = 0 THEN sent.timed /\ FreeResps = {} ELSE deaf
  BY DEF Transmit, bufferVars, countVars
<1>2. /\ busy /\ sent.id \in 1..accepted /\ sent.id \in Requests
      /\ resps \in [RespSlots -> RespSlot] /\ outcome \in [Requests -> Outcomes]
  BY <1>0, <1>1 DEF FlightInv, TypeOK, Requests
<1>3. CASE failedCount = 0 /\ FreeResps # {}
  <2>1. OwnResp = {} /\ outcome[sent.id] = "sending" /\ sent.respType # None /\ heard = FALSE
    BY <1>0, <1>1, <1>3 DEF FlightInv, OwnResp, Waiting
  <2>2. deaf' = FALSE
    BY <1>1, <1>3
  <2>3. PICK i \in FreeResps : resps' = [resps EXCEPT ![i] = NewEntry(i)] /\ respIdx' = i
    BY <1>1, <1>3 DEF AllocateResp
  <2>4. i \in RespSlots /\ i \notin UsedResps
    BY DEF FreeResps, UsedResps
  <2>5. /\ resps'[i].respType = sent.respType
        /\ resps'[i].addr = sent.addr
        /\ resps'[i].answered = FALSE
        /\ \A j \in RespSlots : j # i => resps'[j] = resps[j]
    BY <1>2, <2>3, <2>4 DEF NewEntry
  <2>6. UsedResps' = UsedResps \cup {i}
    BY <2>1, <2>4, <2>5 DEF UsedResps
  <2>7. CASE sent.timed
    <3>1. state' = 2 /\ outcome' = outcome /\ Silent' = Silent
      BY <1>1, <2>7 DEF Silent
    <3>2. Waiting' /\ OwnResp' = {i}
      BY <1>1, <2>1, <2>2, <2>3, <3>1 DEF Waiting, OwnResp
    <3>3. UsedResps' \ OwnResp' = UsedResps \ OwnResp
      BY <2>1, <2>4, <2>6, <3>2
    <3>4. LeakInv'
      <4>1. \A j \in UsedResps \ OwnResp : resps'[j] = resps[j]
        BY <2>4, <2>5 DEF UsedResps
      <4> QED BY <1>0, <2>2, <3>1, <3>3, <4>1 DEF LeakInv
    <3>5. EntryInv'
      BY <1>1, <2>1, <2>3, <2>5 DEF EntryInv
    <3>6. FlightInv'
      BY <1>0, <1>1, <1>2, <2>1, <2>2, <3>1 DEF FlightInv
    <3>7. RequestInv'
      BY <1>0, <1>1, <3>1, RequestInvKept DEF RequestInv
    <3>8. UNCHANGED Channel!vars
      <4>1. deaf = FALSE
        BY <1>0, <1>1, <1>3 DEF FlightInv
      <4> QED BY <1>1, <2>2, <3>1, <4>1 DEF Channel!vars
    <3> QED BY <3>4, <3>5, <3>6, <3>7, <3>8 DEF ChannelInv
  <2>8. CASE ~sent.timed
    <3>1. state' = 3 /\ outcome' = [outcome EXCEPT ![sent.id] = "silent"]
      BY <1>1, <1>2, <2>1, <2>8 DEF Settled
    <3>2. sent.id \in broadcasts /\ sent.addr = All
      BY <1>0, <1>1, <2>8 DEF FlightInv
    <3>3. Silent' = Silent \cup {sent.id} /\ sent.id \notin Silent
      BY <1>2, <2>1, <3>1 DEF Silent
    <3>4. ~Waiting' /\ OwnResp' = {}
      BY <3>1 DEF Waiting, OwnResp
    <3>5. RequestInv'
      <4>1. \A r \in Requests : outcome'[r] = outcome[r] \/ outcome[r] = "sending"
        BY <1>2, <2>1, <3>1
      <4>2. Silent' \subseteq broadcasts
        BY <1>0, <3>2, <3>3 DEF RequestInv
      <4> QED BY <1>0, <1>1, <4>1, <4>2, RequestInvKept
    <3>6. LeakInv'
      <4>1. UsedResps' \ OwnResp' = UsedResps \cup {i}
        BY <2>6, <3>4
      <4>2. \A j \in UsedResps \cup {i} : resps'[j].addr = All /\ ~resps'[j].answered
        BY <1>0, <2>1, <2>4, <2>5, <3>2 DEF LeakInv, UsedResps
      <4>3. Cardinality(UsedResps \cup {i}) = Cardinality(UsedResps) + 1
        BY <1>0, <2>4, FiniteSets, FS_AddElement
      <4>4. Cardinality(Silent \cup {sent.id}) = Cardinality(Silent) + 1
        BY <1>0, <3>3, FiniteSets, FS_AddElement
      <4>5. UsedResps \ OwnResp = UsedResps
        BY <2>1
      <4>6. Cardinality(UsedResps) \in Nat /\ Cardinality(Silent) \in Nat
        BY <1>0, FiniteSets, FS_CardinalityType
      <4>7. Cardinality(UsedResps) <= Cardinality(Silent)
        BY <1>0, <4>5 DEF LeakInv
      <4>8. Cardinality(UsedResps \cup {i}) <= Cardinality(Silent')
        BY <3>3, <4>3, <4>4, <4>6, <4>7
      <4> QED BY <2>2, <4>1, <4>2, <4>8 DEF LeakInv
    <3>7. FlightInv'
      BY <1>1, <1>2, <3>1 DEF FlightInv
    <3>8. EntryInv'
      BY <3>4 DEF EntryInv
    <3>9. Channel!Settle
      <4>1. (IF busy THEN sent.id ELSE 0) = sent.id /\ (IF busy' THEN sent'.id ELSE 0) = sent.id
        BY <1>1, <1>2
      <4>2. sent.id # 0
        BY <1>2 DEF Requests
      <4>3. deaf = FALSE
        BY <1>0, <1>1, <1>3 DEF FlightInv
      <4> QED BY <1>1, <2>1, <2>2, <3>1, <4>1, <4>2, <4>3 DEF Channel!Settle
    <3> QED BY <3>5, <3>6, <3>7, <3>8, <3>9 DEF ChannelInv
  <2> QED BY <2>7, <2>8
<1>4. CASE failedCount > 0
  <2>1. sent.timed
    BY <1>0, <1>1, <1>4 DEF FlightInv
  <2>2. state' = 2 /\ UNCHANGED <<outcome, resps, respIdx, deaf>>
    BY <1>1, <1>4, <2>1 DEF AllocateResp
  <2>3. Waiting' = Waiting /\ OwnResp' = OwnResp /\ UsedResps' = UsedResps /\ Silent' = Silent
    BY <1>1, <1>4, <2>2 DEF Waiting, OwnResp, UsedResps, Silent
  <2>4. EntryInv' /\ LeakInv'
    BY <1>0, <1>1, <2>2, <2>3 DEF EntryInv, LeakInv
  <2>5. FlightInv'
    BY <1>0, <1>1, <1>2, <2>2 DEF FlightInv
  <2>6. RequestInv'
    BY <1>0, <1>1, <2>2, <2>3, RequestInvKept DEF RequestInv
  <2>7. UNCHANGED Channel!vars
    BY <1>1, <2>2 DEF Channel!vars
  <2> QED BY <2>4, <2>5, <2>6, <2>7 DEF ChannelInv
<1>5. CASE failedCount = 0 /\ FreeResps = {}
  <2>1. /\ OwnResp = {} /\ outcome[sent.id] = "sending" /\ sent.respType # None
        /\ heard = FALSE /\ deaf = FALSE
    BY <1>0, <1>1, <1>5 DEF FlightInv, OwnResp, Waiting
  <2>2. UNCHANGED <<resps, respIdx>> /\ deaf' = sent.timed
    BY <1>0, <1>1, <1>5 DEF AllocateResp, TypeOK, Frame
  <2>3. NResps <= Cardinality(Silent)
    BY <1>0, <1>5, <2>1, FullTable
  <2>4. (IF busy THEN sent.id ELSE 0) = sent.id /\ (IF busy' THEN sent'.id ELSE 0) = sent.id
        /\ sent.id # 0
    BY <1>1, <1>2 DEF Requests
  <2>5. UsedResps' = UsedResps /\ OwnResp' = {}
    BY <1>1, <2>2 DEF UsedResps, OwnResp, Waiting
  <2>6. CASE sent.timed
    <3>1. state' = 2 /\ outcome' = outcome /\ Silent' = Silent
      BY <1>1, <2>6 DEF Silent
    <3>2. LeakInv' /\ EntryInv'
      BY <1>0, <2>1, <2>2, <2>3, <2>5, <2>6, <3>1 DEF LeakInv, EntryInv
    <3>3. FlightInv'
      BY <1>0, <1>1, <1>2, <2>1, <3>1 DEF FlightInv
    <3>4. RequestInv'
      BY <1>0, <1>1, <3>1, RequestInvKept DEF RequestInv
    <3>5. Channel!GoDeaf
      <4>1. {r \in Channel!Requests : outcome[r] = "silent"} = Silent
        BY DEF Channel!Requests, Requests, Silent
      <4>2. Channel!Cardinality({r \in Channel!Requests : outcome[r] = "silent"})
               = Cardinality(Silent)
        BY <4>1, ChannelCardinality
      <4>3. Channel!Cardinality({r \in Channel!Requests : outcome[r] = "silent"}) >= NResps
        BY <1>0, <2>3, <4>2, FiniteSets, FS_CardinalityType
      <4>4. deaf' = TRUE
        BY <1>0, <1>1, <1>5, <2>6 DEF TypeOK, Frame
      <4> QED BY <1>1, <2>1, <2>4, <3>1, <4>3, <4>4 DEF Channel!GoDeaf
    <3> QED BY <3>2, <3>3, <3>4, <3>5 DEF ChannelInv
  <2>7. CASE ~sent.timed
    <3>1. state' = 3 /\ outcome' = [outcome EXCEPT ![sent.id] = "silent"] /\ deaf' = FALSE
      BY <1>1, <1>2, <2>1, <2>2, <2>7 DEF Settled
    <3>2. Silent' = Silent \cup {sent.id} /\ sent.id \notin Silent
      BY <1>2, <2>1, <3>1 DEF Silent
    <3>3. RequestInv'
      <4>1. \A r \in Requests : outcome'[r] = outcome[r] \/ outcome[r] = "sending"
        BY <1>2, <2>1, <3>1
      <4>2. Silent' \subseteq broadcasts
        BY <1>0, <1>1, <2>7, <3>2 DEF RequestInv, FlightInv
      <4> QED BY <1>0, <1>1, <4>1, <4>2, RequestInvKept
    <3>4. LeakInv'
      <4>1. Cardinality(Silent \cup {sent.id}) = Cardinality(Silent) + 1
        BY <1>0, <3>2, FiniteSets, FS_AddElement
      <4>2. Cardinality(UsedResps) \in Nat /\ Cardinality(Silent) \in Nat
        BY <1>0, FiniteSets, FS_CardinalityType
      <4>3. Cardinality(UsedResps) <= Cardinality(Silent')
        <5>1. UsedResps \ OwnResp = UsedResps
          BY <2>1
        <5>2. Cardinality(UsedResps) <= Cardinality(Silent)
          BY <1>0, <5>1 DEF LeakInv
        <5> QED BY <3>2, <4>1, <4>2, <5>2
      <4>4. UsedResps' \ OwnResp' = UsedResps \ OwnResp /\ UsedResps \ OwnResp = UsedResps
        BY <2>1, <2>5
      <4> QED BY <1>0, <2>2, <3>1, <4>3, <4>4 DEF LeakInv
    <3>5. FlightInv' /\ EntryInv'
      BY <1>1, <1>2, <3>1 DEF FlightInv, EntryInv, Waiting
    <3>6. Channel!Settle
      BY <1>1, <2>1, <2>4, <3>1 DEF Channel!Settle
    <3> QED BY <3>3, <3>4, <3>5, <3>6 DEF ChannelInv
  <2> QED BY <2>6, <2>7
<1> QED BY <1>0, <1>3, <1>4, <1>5 DEF TypeOK

(* An answer seen by the sender settles the request it is busy with, unless it
   is already settled.                                                       *)
LEMMA ResponseFacts ==
    ASSUME AllInv, state = 2, ResponseIsOk,
           UNCHANGED <<frames, accepted, broadcasts, respIdx, deaf>>
    PROVE  /\ outcome'[sent.id] = "acked" /\ sent' = [sent EXCEPT !.respType = None]
           /\ RequestInv' /\ LeakInv' /\ EntryInv'
           /\ \/ /\ outcome[sent.id] = "sending" /\ heard /\ ~deaf
                 /\ outcome' = [outcome EXCEPT ![sent.id] = "acked"]
              \/ outcome[sent.id] = "acked" /\ outcome' = outcome
<1>0. TypeOK /\ BufferInv /\ FlightInv /\ RequestInv /\ EntryInv /\ LeakInv
  BY DEF AllInv, ChannelInv, TypeInv
<1>1. /\ sent.id \in Requests /\ outcome \in [Requests -> Outcomes]
      /\ resps \in [RespSlots -> RespSlot] /\ respIdx \in RespSlots /\ sent \in Frame
  BY <1>0 DEF FlightInv, TypeOK, Requests
<1>2. /\ Answered /\ FreeRespIdx /\ sent' = [sent EXCEPT !.respType = None]
      /\ outcome' = Settled("acked")
  BY DEF ResponseIsOk
<1>3. \/ /\ outcome[sent.id] = "sending" /\ heard /\ ~deaf
         /\ outcome' = [outcome EXCEPT ![sent.id] = "acked"]
      \/ outcome[sent.id] = "acked" /\ outcome' = outcome
  <2>1. CASE sent.respType # None
    <3>1. outcome[sent.id] = "sending" /\ Waiting
      BY <1>0, <2>1 DEF FlightInv, Waiting
    <3>2. ~deaf
      BY <1>0, <1>1, <1>2, <3>1 DEF LeakInv, Answered, UsedResps, OwnResp
    <3>3. heard
      BY <1>0, <1>2, <3>1, <3>2 DEF EntryInv, Answered
    <3> QED BY <1>1, <1>2, <3>1, <3>2, <3>3 DEF Settled
  <2>2. CASE sent.respType = None
    <3>1. outcome[sent.id] = "acked"
      BY <1>0, <2>2 DEF FlightInv
    <3> QED BY <1>2, <3>1 DEF Settled
  <2> QED BY <2>1, <2>2
<1>4. outcome'[sent.id] = "acked"
  BY <1>1, <1>3
<1>5. sent'.respType = None /\ ~Waiting' /\ OwnResp' = {}
  BY <1>1, <1>2 DEF Waiting, OwnResp, Frame
<1>6. Silent' = Silent
  BY <1>1, <1>3 DEF Silent
<1>7. RequestInv'
  BY <1>0, <1>1, <1>3, <1>6, RequestInvKept DEF RequestInv
<1>8. LeakInv'
  <2>1. \A j \in UsedResps' : j \in UsedResps \ OwnResp /\ resps'[j] = resps[j]
    BY <1>1, <1>2 DEF FreeRespIdx, UsedResps, OwnResp, RespSlot
  <2> QED BY <1>0, <1>6, <2>1, LeakInvKept
<1>9. EntryInv'
  BY <1>5 DEF EntryInv
<1> QED BY <1>2, <1>3, <1>4, <1>7, <1>8, <1>9

LEMMA AcknowledgeChannelInv ==
    ASSUME AllInv, Acknowledge \/ AcknowledgeLate
    PROVE  /\ ChannelInv'
           /\ Channel!Settle \/ Channel!Release \/ UNCHANGED Channel!vars
<1>0. TypeOK /\ FlightInv
  BY DEF AllInv, ChannelInv, TypeInv
<1>1. /\ state = 2 /\ ResponseIsOk
      /\ UNCHANGED <<frames, accepted, broadcasts, respIdx, reported, heard, deaf>>
  BY DEF Acknowledge, AcknowledgeLate, bufferVars, countVars
<1>2. /\ outcome'[sent.id] = "acked" /\ sent' = [sent EXCEPT !.respType = None]
      /\ RequestInv' /\ LeakInv' /\ EntryInv'
      /\ \/ /\ outcome[sent.id] = "sending" /\ heard /\ ~deaf
            /\ outcome' = [outcome EXCEPT ![sent.id] = "acked"]
         \/ outcome[sent.id] = "acked" /\ outcome' = outcome
  BY <1>1, ResponseFacts
<1>3. /\ sent'.respType = None /\ sent'.id = sent.id /\ sent'.timed = sent.timed
      /\ sent'.retryCount = sent.retryCount
  BY <1>0, <1>2 DEF TypeOK, Frame
<1>4. busy /\ sent.id \in 1..accepted /\ sent.id # 0 /\ sent.timed
  BY <1>0, <1>1 DEF FlightInv, AllInv, TypeInv, Identified
<1>5. \/ /\ busy'
         /\ state' = 3 \/ (state' = 1 /\ failedCount' > 0 /\ failedCount' < sent.retryCount)
      \/ ~busy' /\ state' = 0
  <2>1. failedCount + 1 > 0 /\ failedCount + 1 \in Nat /\ sent.retryCount \in Nat
    BY <1>0 DEF TypeOK, Frame
  <2>2. CASE Acknowledge
    BY <1>4, <2>2 DEF Acknowledge
  <2>3. CASE AcknowledgeLate
    <3>1. CASE LastTry
      BY <2>3, <3>1 DEF AcknowledgeLate, Release
    <3>2. CASE ~LastTry
      <4>1. state' = 1 /\ busy' = busy /\ failedCount' = failedCount + 1
        BY <2>3, <3>2 DEF AcknowledgeLate
      <4>2. failedCount + 1 < sent.retryCount
        BY <2>1, <3>2 DEF LastTry
      <4> QED BY <1>4, <2>1, <4>1, <4>2
    <3> QED BY <3>1, <3>2
  <2> QED BY <2>2, <2>3
<1>6. FlightInv'
  BY <1>1, <1>2, <1>3, <1>4, <1>5 DEF FlightInv
<1>7. Channel!Settle \/ Channel!Release \/ UNCHANGED Channel!vars
  <2>1. (IF busy THEN sent.id ELSE 0) = sent.id /\ (IF busy' THEN sent'.id ELSE 0) \in {sent.id, 0}
    BY <1>3, <1>4
  <2>2. CASE outcome[sent.id] = "sending"
    BY <1>1, <1>2, <1>4, <2>1, <2>2 DEF Channel!Settle
  <2>3. CASE outcome[sent.id] = "acked"
    BY <1>1, <1>2, <1>4, <2>1, <2>3 DEF Channel!Release, Channel!vars
  <2> QED BY <1>2, <2>2, <2>3
<1> QED BY <1>2, <1>6, <1>7 DEF ChannelInv

LEMMA RetryChannelInv ==
    ASSUME AllInv, Retry
    PROVE  ChannelInv' /\ UNCHANGED Channel!vars
<1>0. TypeOK /\ BufferInv /\ FlightInv /\ RequestInv /\ EntryInv /\ LeakInv /\ Identified
  BY DEF AllInv, ChannelInv, TypeInv
<1>1. /\ state = 2 /\ state' = 1 /\ failedCount' = failedCount + 1
      /\ UNCHANGED <<frames, accepted, broadcasts, resps, sent, respIdx, busy, reported,
                     outcome, heard, deaf>>
  BY DEF Retry, bufferVars, countVars
<1>2. /\ failedCount' > 0 /\ sent.timed
      /\ failedCount' < sent.retryCount
  <2>1. ~(failedCount + 1 >= sent.retryCount)
    BY DEF Retry, LastTry
  <2>2. failedCount \in Nat /\ sent.retryCount \in Nat
    BY <1>0 DEF TypeOK, Frame
  <2> QED BY <1>0, <1>1, <2>1, <2>2 DEF Identified
<1>3. Waiting' = Waiting /\ OwnResp' = OwnResp /\ UsedResps' = UsedResps /\ Silent' = Silent
  BY <1>1, <1>2 DEF Waiting, OwnResp, UsedResps, Silent
<1>4. EntryInv' /\ LeakInv'
  BY <1>0, <1>1, <1>3 DEF EntryInv, LeakInv
<1>5. FlightInv'
  BY <1>0, <1>1, <1>2 DEF FlightInv
<1>6. RequestInv'
  BY <1>0, <1>1, <1>3, RequestInvKept DEF RequestInv
<1>7. UNCHANGED Channel!vars
  BY <1>1 DEF Channel!vars
<1> QED BY <1>4, <1>5, <1>6, <1>7 DEF ChannelInv

LEMMA GiveUpChannelInv ==
    ASSUME AllInv, GiveUp
    PROVE  ChannelInv' /\ (Channel!Settle \/ Channel!Release)
<1>0. TypeOK /\ BufferInv /\ FlightInv /\ RequestInv /\ EntryInv /\ LeakInv
  BY DEF AllInv, ChannelInv, TypeInv
<1>1. /\ state = 2 /\ ~Answered /\ FreeRespIdx /\ outcome' = Settled("timeout")
      /\ reported' = IF sent.respType \in ReportedTypes THEN reported \cup {sent.id} ELSE reported
      /\ busy' = FALSE /\ state' = 0
      /\ UNCHANGED <<frames, accepted, broadcasts, sent, respIdx, heard, deaf>>
  BY DEF GiveUp, Release, bufferVars, countVars
<1>2. /\ sent.id \in Requests /\ sent.id # 0 /\ outcome \in [Requests -> Outcomes]
      /\ resps \in [RespSlots -> RespSlot] /\ respIdx \in RespSlots /\ busy
  BY <1>0, <1>1 DEF FlightInv, TypeOK, Requests
<1>3. \/ /\ outcome[sent.id] = "sending" /\ (~heard \/ deaf)
         /\ outcome' = [outcome EXCEPT ![sent.id] = "timeout"]
      \/ /\ outcome[sent.id] = "acked" /\ outcome' = outcome /\ reported' = reported
  <2>1. CASE sent.respType # None
    <3>1. outcome[sent.id] = "sending" /\ Waiting
      BY <1>0, <1>1, <2>1 DEF FlightInv, Waiting
    <3>2. ~heard \/ deaf
      BY <1>0, <1>1, <2>1, <3>1 DEF EntryInv, Answered
    <3> QED BY <1>1, <1>2, <3>1, <3>2 DEF Settled
  <2>2. CASE sent.respType = None
    <3>1. outcome[sent.id] = "acked"
      BY <1>0, <1>1, <2>2 DEF FlightInv
    <3>2. None \notin ReportedTypes
      BY DEF None, ReportedTypes
    <3> QED BY <1>1, <2>2, <3>1, <3>2 DEF Settled
  <2> QED BY <2>1, <2>2
<1>4. ~Waiting' /\ OwnResp' = {} /\ Silent' = Silent
  BY <1>1, <1>2, <1>3 DEF Waiting, OwnResp, Silent
<1>5. RequestInv'
  BY <1>0, <1>1, <1>2, <1>3, <1>4, RequestInvKept DEF RequestInv
<1>6. LeakInv'
  <2>1. \A j \in UsedResps' : j \in UsedResps \ OwnResp /\ resps'[j] = resps[j]
    BY <1>1, <1>2 DEF FreeRespIdx, UsedResps, OwnResp, RespSlot
  <2> QED BY <1>0, <1>1, <1>4, <2>1, LeakInvKept
<1>7. EntryInv' /\ FlightInv'
  BY <1>1, <1>4 DEF EntryInv, FlightInv
<1>8. Channel!Settle \/ Channel!Release
  <2>1. (IF busy THEN sent.id ELSE 0) = sent.id /\ (IF busy' THEN sent'.id ELSE 0) = 0
    BY <1>1, <1>2
  <2>2. reported' \in {reported, reported \cup {sent.id}} /\ heard' = heard
    BY <1>1
  <2>3. CASE outcome[sent.id] = "sending"
    BY <1>1, <1>2, <1>3, <2>1, <2>2, <2>3 DEF Channel!Settle
  <2>4. CASE outcome[sent.id] = "acked"
    BY <1>1, <1>2, <1>3, <2>1, <2>2, <2>4 DEF Channel!Release
  <2> QED BY <1>3, <2>3, <2>4
<1> QED BY <1>5, <1>6, <1>7, <1>8 DEF ChannelInv

LEMMA EndPauseChannelInv ==
    ASSUME AllInv, EndPause
    PROVE  ChannelInv' /\ Channel!Release
<1>0. TypeOK /\ BufferInv /\ FlightInv /\ RequestInv /\ EntryInv /\ LeakInv
  BY DEF AllInv, ChannelInv, TypeInv
<1>1. /\ state = 3 /\ busy' = FALSE /\ state' = 0
      /\ UNCHANGED <<frames, accepted, broadcasts, resps, sent, respIdx, reported, outcome, heard, deaf>>
  BY DEF EndPause, Release, bufferVars, countVars
<1>2. /\ busy /\ sent.id # 0 /\ outcome[sent.id] \in {"acked", "silent"}
  BY <1>0, <1>1 DEF FlightInv
<1>3. ~Waiting' /\ OwnResp' = {} /\ OwnResp = {} /\ UsedResps' = UsedResps /\ Silent' = Silent
  BY <1>1 DEF Waiting, OwnResp, UsedResps, Silent
<1>4. RequestInv'
  BY <1>0, <1>1, <1>3, RequestInvKept DEF RequestInv
<1>5. LeakInv' /\ EntryInv' /\ FlightInv'
  BY <1>0, <1>1, <1>3 DEF LeakInv, EntryInv, FlightInv
<1>6. Channel!Release
  BY <1>1, <1>2 DEF Channel!Release
<1> QED BY <1>4, <1>5, <1>6 DEF ChannelInv

-------------------------------------------------------------------------------
LEMMA NextChannelInv ==
    ASSUME MaxMistagged = 0, AllInv, [Next]_vars
    PROVE  AllInv' /\ [Channel!Next]_Channel!vars
<1>0. TypeInv' /\ BufferInv'
  BY NextTypeInv, NextBufferInv DEF AllInv
<1> SUFFICES ChannelInv' /\ (Channel!Next \/ UNCHANGED Channel!vars)
  BY <1>0 DEF AllInv
<1>1. CASE Submit
  <2>1. ~AddSceneActionNoFrame
    BY DEF AddSceneActionNoFrame, AllInv, TypeInv, TypeOK
  <2>2. PICK f : /\ Request(f) /\ f \in Frame /\ f.id = accepted + 1 /\ f.respType # None
                 /\ Counted(f) /\ f.retryCount >= 1
    BY <1>1, <2>1, SubmitCases DEF AllInv, TypeInv
  <2> QED BY <2>2, RequestChannelInv DEF Channel!Next
<1>2. CASE Answer
  BY <1>2, AnswerChannelInv DEF Channel!Next
<1>3. CASE BLE_SendToGateway
  <2>1. CASE TakeFrame
    BY <2>1, TakeChannelInv DEF Channel!Next
  <2>2. CASE Transmit
    BY <2>2, TransmitChannelInv DEF Channel!Next
  <2>3. CASE Acknowledge \/ AcknowledgeLate
    BY <2>3, AcknowledgeChannelInv DEF Channel!Next
  <2>4. CASE Retry
    BY <2>4, RetryChannelInv
  <2>5. CASE GiveUp
    BY <2>5, GiveUpChannelInv DEF Channel!Next
  <2>6. CASE EndPause
    BY <2>6, EndPauseChannelInv DEF Channel!Next
  <2> QED BY <1>3, <2>1, <2>2, <2>3, <2>4, <2>5, <2>6 DEF BLE_SendToGateway
<1>4. CASE UNCHANGED vars
  BY <1>4 DEF AllInv, ChannelInv, FlightInv, RequestInv, EntryInv, LeakInv, Waiting, UsedResps,
     OwnResp, Silent, Pending, vars, Channel!vars
<1> QED BY <1>1, <1>2, <1>3, <1>4 DEF Next

LEMMA InitAllInv == Init => AllInv /\ Channel!Init
<1> SUFFICES ASSUME Init PROVE Channel!Init
  BY InitTypeInv, InitBufferInv, InitChannelInv DEF AllInv
<1> QED BY DEF Init, Channel!Init, Channel!Requests, Requests

LEMMA AllInvariant ==
    MaxMistagged = 0 => (Spec => []AllInv)
<1> SUFFICES ASSUME MaxMistagged = 0 PROVE Spec => []AllInv
  OBVIOUS
<1>1. Init => AllInv
  BY InitAllInv
<1>2. AllInv /\ [Next]_vars => AllInv'
  BY NextChannelInv
<1> QED BY <1>1, <1>2, PTL DEF Spec

(* The sender implements the channel, for tables, buffers and numbers of
   requests of any size.                                                     *)
THEOREM ChannelImplemented ==
    MaxMistagged = 0 => (Spec => ChannelSpec)
<1> SUFFICES ASSUME MaxMistagged = 0 PROVE Spec => ChannelSpec
  OBVIOUS
<1>1. Init => Channel!Init
  BY InitAllInv
<1>2. AllInv /\ [Next]_vars => [Channel!Next]_Channel!vars
  BY NextChannelInv
<1>3. Spec => []AllInv
  BY AllInvariant
<1> QED BY <1>1, <1>2, <1>3, PTL DEF Spec, ChannelSpec, Channel!Spec

-------------------------------------------------------------------------------
(* What a step of the channel may do to a request in flight. *)
LEMMA ChannelSteps ==
    ASSUME [Channel!Next]_Channel!vars, outcome \in [Requests -> Outcomes], NEW r \in Requests,
           outcome[r] = "sending"
    PROVE  /\ outcome'[r] = "acked" => heard
           /\ outcome'[r] = "timeout" => ~heard \/ deaf
<1> DEFINE c == IF busy THEN sent.id ELSE 0
<1>1. CASE Channel!Accept
  BY <1>1 DEF Channel!Accept, Channel!Requests, Requests
<1>2. CASE Channel!Start
  BY <1>2 DEF Channel!Start, Channel!Requests, Requests
<1>3. CASE Channel!Hear \/ Channel!GoDeaf \/ Channel!Release \/ UNCHANGED Channel!vars
  BY <1>3 DEF Channel!Hear, Channel!GoDeaf, Channel!Release, Channel!vars
<1>4. CASE Channel!Settle
  <2>1. \/ heard /\ outcome' = [outcome EXCEPT ![c] = "acked"]
        \/ (~heard \/ deaf) /\ outcome' = [outcome EXCEPT ![c] = "timeout"]
        \/ outcome' = [outcome EXCEPT ![c] = "silent"]
    BY <1>4 DEF Channel!Settle
  <2> HIDE DEF c
  <2> QED BY <2>1
<1> QED BY <1>1, <1>2, <1>3, <1>4 DEF Channel!Next

(* No answer left over from an earlier request is taken for the answer to a
   later one.                                                                *)
THEOREM NoStaleAck ==
    MaxMistagged = 0 => (Spec => AckWasHeard)
<1> SUFFICES ASSUME MaxMistagged = 0 PROVE Spec => AckWasHeard
  OBVIOUS
<1>1. ASSUME AllInv, [Next]_vars
      PROVE  \A r \in Requests : outcome[r] = "sending" /\ outcome'[r] = "acked" => heard
  BY <1>1, NextChannelInv, ChannelSteps DEF AllInv, TypeInv, TypeOK
<1>2. AllInv /\ [Next]_vars =>
        [\A r \in Requests : outcome[r] = "sending" /\ outcome'[r] = "acked" => heard]_vars
  BY <1>1
<1>3. Spec => []AllInv
  BY AllInvariant
<1> QED BY <1>2, <1>3, PTL DEF Spec, AckWasHeard

(* A TIMEOUT means that the frame was transmitted as often as its retryCount
   allows; and if an answer to it arrived all the same, the response table had
   been filled by NResps broadcasts before the first transmission.           *)
THEOREM TimeoutIsReal ==
    MaxMistagged = 0 => (Spec => NoFalseTimeout)
<1> SUFFICES ASSUME MaxMistagged = 0 PROVE Spec => NoFalseTimeout
  OBVIOUS
<1>1. ASSUME AllInv, [Next]_vars, NEW r \in Requests,
             outcome[r] = "sending", outcome'[r] = "timeout"
      PROVE  /\ tx = sent.retryCount
             /\ heard => deaf /\ Cardinality(broadcasts) >= NResps
  <2>1. /\ TypeOK /\ Counting /\ FlightInv /\ RequestInv /\ LeakInv
        /\ outcome \in [Requests -> Outcomes]
    BY <1>1 DEF AllInv, TypeInv, ChannelInv, TypeOK
  <2>2. ~heard \/ deaf
    BY <1>1, <2>1, NextChannelInv, ChannelSteps
  <2>3. deaf => Cardinality(broadcasts) >= NResps
    <3>1. Cardinality(Silent) <= Cardinality(broadcasts)
      BY <2>1, FiniteSets, FS_Subset DEF RequestInv
    <3>2. Cardinality(Silent) \in Nat /\ Cardinality(broadcasts) \in Nat
      BY <2>1, FiniteSets, FS_CardinalityType
    <3> QED BY <2>1, <3>1, <3>2 DEF LeakInv
  <2>4. GiveUp
    <3>1. \A o \in {"acked", "silent"} : Settled(o)[r] # "timeout"
      BY <1>1, <2>1 DEF Settled
    <3>2. ~(Answer \/ UNCHANGED vars)
      BY <1>1 DEF Answer, SetDeviceResp, vars
    <3>3. ~Submit
      <4>1. \A f : ~Request(f)
        BY <1>1 DEF Request, Record
      <4>2. ~AddSceneActionNoFrame
        BY <1>1 DEF AddSceneActionNoFrame
      <4> QED BY <1>1, <4>1, <4>2, SubmitCases DEF AllInv
    <3>4. ~(TakeFrame \/ Transmit \/ Acknowledge \/ AcknowledgeLate \/ Retry \/ EndPause)
      BY <1>1, <2>1, <3>1 DEF TakeFrame, Transmit, Acknowledge, AcknowledgeLate, ResponseIsOk,
         Retry, EndPause
    <3> QED BY <1>1, <3>2, <3>3, <3>4 DEF Next, BLE_SendToGateway
  <2>5. state = 2 /\ failedCount + 1 >= sent.retryCount
    BY <2>4 DEF GiveUp, LastTry
  <2>6. sent.retryCount \in Nat /\ failedCount \in Nat
    BY <2>1 DEF TypeOK, Frame
  <2>7. tx = sent.retryCount
    BY <2>1, <2>5, <2>6 DEF Counting, FlightInv
  <2> QED BY <2>2, <2>3, <2>7
<1>2. AllInv /\ [Next]_vars =>
        [\A r \in Requests : outcome[r] = "sending" /\ outcome'[r] = "timeout"
             => /\ tx = sent.retryCount
                /\ heard => deaf /\ Cardinality(broadcasts) >= NResps]_vars
  BY <1>1
<1>3. Spec => []AllInv
  BY AllInvariant
<1> QED BY <1>2, <1>3, PTL DEF Spec, NoFalseTimeout

-------------------------------------------------------------------------------
(* Settling a request, whatever the handlers tag. *)

(* A frame that was not revived is on its way to being settled once: pending in
   one slot, then sending while it still has its type.                       *)
SettleInv ==
    /\ \A i \in FrameSlots : frames[i].id <= accepted
    /\ \A i, j \in FrameSlots : frames[i].id = frames[j].id /\ frames[i].id # 0 => i = j
    /\ \A r \in Requests : r > accepted => outcome[r] = "unsent"
    /\ \A i \in Pending : frames[i].id \in Requests \ revived => outcome[frames[i].id] = "pending"
    /\ state \in {1, 2} /\ sent.respType # None /\ sent.id \in Requests \ revived
          => outcome[sent.id] = "sending"
    /\ \A r \in reported \ revived : outcome[r] = "timeout"

SettleStep ==
    \A r \in Requests \ revived : outcome[r] \in Final => outcome'[r] = outcome[r]

LEMMA InitSettleInv == Init => SettleInv
BY DEF Init, SettleInv, NoFrame, Pending

(* A new frame overwrites at most a pending one. *)
LEMMA RequestSettleInv ==
    ASSUME TypeInv, SettleInv, NEW f \in Frame, Request(f), f.id = accepted + 1,
           f.respType # None
    PROVE  SettleInv' /\ SettleStep
<1>0. TypeOK
  BY DEF TypeInv
<1>1. PICK e \in FrameSlots : sendFrameToGwIndex(e, f) /\ Record(e)
  BY DEF Request
<1>2. UNCHANGED <<state, sent, reported, revived>>
  BY DEF Request, senderVars
<1>3. /\ accepted' = accepted + 1 /\ accepted \in Nat /\ accepted + 1 \in Requests
      /\ frames' = [frames EXCEPT ![e] = f] /\ frames \in [FrameSlots -> Frame]
      /\ outcome' = [r \in Requests |->
            IF r = accepted + 1 THEN "pending"
            ELSE IF e \in Pending /\ r = frames[e].id THEN "lost" ELSE outcome[r]]
  BY <1>0, <1>1 DEF Record, sendFrameToGwIndex, TypeOK, Requests
<1>4. \A i \in FrameSlots : frames[i].id \in Requests \cup {0} /\ frames[i].id # accepted + 1
  BY <1>3 DEF SettleInv, Frame, Requests
<1>5. outcome[accepted + 1] = "unsent"
  BY <1>3 DEF SettleInv
<1>6. \A r \in Requests : r # accepted + 1 /\ outcome'[r] # outcome[r] =>
         e \in Pending /\ r = frames[e].id
  BY <1>3
<1>7. \A r \in Requests \ revived : r # accepted + 1 /\ outcome'[r] # outcome[r] =>
         outcome[r] = "pending"
  BY <1>6 DEF SettleInv
<1>8. SettleStep
  BY <1>5, <1>7 DEF SettleStep, Final
<1>9. \A i \in FrameSlots : frames'[i] = IF i = e THEN f ELSE frames[i]
  BY <1>3
<1>10. \A i \in FrameSlots : frames'[i].id <= accepted'
  BY <1>3, <1>4, <1>9 DEF SettleInv, Requests
<1>11. \A i, j \in FrameSlots : frames'[i].id = frames'[j].id /\ frames'[i].id # 0 => i = j
  BY <1>4, <1>9 DEF SettleInv
<1>12. \A r \in Requests : r > accepted' => outcome'[r] = "unsent"
  <2> SUFFICES ASSUME NEW r \in Requests, r > accepted + 1 PROVE outcome'[r] = "unsent"
    BY <1>3
  <2>1. outcome[r] = "unsent" /\ r # accepted + 1
    BY <1>3 DEF SettleInv, Requests
  <2>2. e \in Pending => r # frames[e].id
    BY <1>3 DEF SettleInv, Requests
  <2> QED BY <1>6, <2>1, <2>2
<1>13. \A i \in Pending' : frames'[i].id \in Requests \ revived =>
          outcome'[frames'[i].id] = "pending"
  <2> SUFFICES ASSUME NEW i \in Pending', frames'[i].id \in Requests \ revived
               PROVE  outcome'[frames'[i].id] = "pending"
    OBVIOUS
  <2>1. CASE i = e
    BY <1>3, <1>9, <2>1 DEF Pending
  <2>2. CASE i # e
    <3>1. i \in Pending /\ frames'[i] = frames[i] /\ i \in FrameSlots
      BY <1>9, <2>2 DEF Pending
    <3>2. outcome[frames[i].id] = "pending" /\ frames[i].id # accepted + 1
      BY <1>4, <3>1 DEF SettleInv
    <3>3. frames[e].id # frames[i].id
      BY <2>2, <3>1 DEF SettleInv, Requests
    <3> QED BY <1>6, <3>1, <3>2, <3>3
  <2> QED BY <2>1, <2>2
<1>14. \A r \in Requests \ revived : outcome[r] \in {"sending", "timeout"} =>
          outcome'[r] = outcome[r]
  BY <1>5, <1>7
<1>15. reported \subseteq Requests
  BY <1>0 DEF TypeOK
<1>16. /\ state' \in {1, 2} /\ sent'.respType # None /\ sent'.id \in Requests \ revived'
            => outcome'[sent'.id] = "sending"
       /\ \A r \in reported' \ revived' : outcome'[r] = "timeout"
  BY <1>2, <1>14, <1>15 DEF SettleInv
<1> QED BY <1>2, <1>8, <1>10, <1>11, <1>12, <1>13, <1>16 DEF SettleInv

LEMMA TagSettleInv ==
    ASSUME TypeInv, SettleInv, AddSceneActionNoFrame
    PROVE  SettleInv' /\ SettleStep
<1>1. /\ frames \in [FrameSlots -> Frame] /\ lastIdx \in FrameSlots
      /\ frames' = [frames EXCEPT ![lastIdx].respType = "scene"]
      /\ UNCHANGED <<state, sent, reported, accepted, outcome>>
      /\ revived' = IF lastIdx \in Pending \/ frames[lastIdx].id = 0 THEN revived
                    ELSE revived \cup {frames[lastIdx].id}
  BY DEF AddSceneActionNoFrame, senderVars, TypeInv, TypeOK
<1>2. \A i \in FrameSlots : frames'[i].id = frames[i].id
  BY <1>1 DEF Frame
<1>3. Pending' = Pending \cup {lastIdx}
  BY <1>1 DEF Pending, None, Frame
<1>4. revived \subseteq revived'
  BY <1>1
<1>5. \A i \in Pending' : frames[i].id \in Requests \ revived' => i \in Pending
  BY <1>1, <1>3 DEF Requests
<1>6. \A i \in Pending' : i \in FrameSlots
  BY DEF Pending
<1> QED BY <1>1, <1>2, <1>4, <1>5, <1>6 DEF SettleInv, SettleStep

LEMMA SenderSettleInv ==
    ASSUME TypeInv, SettleInv, BLE_SendToGateway \/ Answer
    PROVE  SettleInv' /\ SettleStep
<1>0. TypeOK /\ Identified
  BY DEF TypeInv
<1>1. /\ frames \in [FrameSlots -> Frame] /\ outcome \in [Requests -> Outcomes]
      /\ reported \subseteq Requests
      /\ UNCHANGED <<accepted, revived>>
  BY <1>0 DEF TypeOK, BLE_SendToGateway, TakeFrame, Transmit, Acknowledge, AcknowledgeLate,
     Retry, GiveUp, EndPause, Answer, SetDeviceResp, countVars
<1>2. CASE TakeFrame
  <2>1. PICK i \in FrameSlots :
           /\ IsFrameToSend(i)
           /\ sent' = frames[i]
           /\ frames' = [frames EXCEPT ![i].respType = None]
           /\ outcome' = IF frames[i].id \in Requests /\ outcome[frames[i].id] = "pending"
                         THEN [outcome EXCEPT ![frames[i].id] = "sending"]
                         ELSE outcome
    BY <1>2 DEF TakeFrame, ClearFrame
  <2>2. UNCHANGED reported /\ i \in Pending
    BY <1>2, <2>1 DEF TakeFrame, IsFrameToSend
  <2>3. \A j \in FrameSlots : frames'[j].id = frames[j].id
    BY <1>1, <2>1 DEF Frame
  <2>4. \A j \in Pending' : j \in Pending /\ j # i /\ j \in FrameSlots
    BY <1>1, <2>1 DEF Pending, Frame
  <2>5. \A r \in Requests : outcome'[r] = outcome[r] \/ (outcome[r] = "pending" /\ r = frames[i].id)
    BY <1>1, <2>1
  <2>6. SettleStep
    BY <2>5 DEF SettleStep, Final
  <2>7. \A j \in Pending' : frames'[j].id \in Requests \ revived => outcome'[frames'[j].id] = "pending"
    <3> SUFFICES ASSUME NEW j \in Pending', frames'[j].id \in Requests \ revived
                 PROVE  outcome'[frames'[j].id] = "pending"
      OBVIOUS
    <3>1. frames'[j].id = frames[j].id /\ frames[j].id # frames[i].id
      BY <2>3, <2>4 DEF SettleInv, Requests
    <3>2. outcome[frames[j].id] = "pending"
      BY <2>4, <3>1 DEF SettleInv
    <3> QED BY <2>5, <3>1, <3>2
  <2>8. sent'.id \in Requests \ revived => outcome'[sent'.id] = "sending"
    BY <1>1, <2>1, <2>2 DEF SettleInv
  <2>9. \A r \in Requests : r > accepted => outcome'[r] = "unsent"
    BY <2>5 DEF SettleInv
  <2>10. \A r \in reported \ revived : outcome'[r] = "timeout"
    BY <1>1, <2>5 DEF SettleInv
  <2> QED BY <1>1, <2>2, <2>3, <2>6, <2>7, <2>8, <2>9, <2>10 DEF SettleInv
<1>3. ASSUME UNCHANGED frames,
             \/ outcome' = outcome
             \/ \E o \in {"acked", "silent", "timeout"} : outcome' = Settled(o),
             sent'.respType # None /\ state' \in {1, 2} =>
                state \in {1, 2} /\ sent' = sent /\ outcome' = outcome,
             \A r \in reported' \ revived : r \in reported \/ outcome'[r] = "timeout"
      PROVE  SettleInv' /\ SettleStep
  <2>1. \A r \in Requests : outcome'[r] = outcome[r] \/ outcome[r] = "sending"
    BY <1>1, <1>3 DEF Settled
  <2>2. SettleStep
    BY <2>1 DEF SettleStep, Final
  <2>3. Pending' = Pending
    BY <1>3 DEF Pending
  <2>4. \A i \in Pending' : frames'[i].id \in Requests \ revived' => outcome'[frames'[i].id] = "pending"
    BY <1>1, <1>3, <2>1, <2>3 DEF SettleInv
  <2>5. \A r \in Requests : r > accepted' => outcome'[r] = "unsent"
    BY <1>1, <2>1 DEF SettleInv
  <2>6. \A r \in reported' \ revived' : outcome'[r] = "timeout"
    BY <1>1, <1>3, <2>1 DEF SettleInv
  <2>7. state' \in {1, 2} /\ sent'.respType # None /\ sent'.id \in Requests \ revived'
          => outcome'[sent'.id] = "sending"
    BY <1>1, <1>3 DEF SettleInv
  <2> QED BY <1>1, <1>3, <2>2, <2>4, <2>5, <2>6, <2>7 DEF SettleInv
<1>4. CASE Transmit
  BY <1>3, <1>4 DEF Transmit, bufferVars
<1>5. CASE Acknowledge \/ AcknowledgeLate
  <2>1. sent'.respType = None
    BY <1>0, <1>5 DEF Acknowledge, AcknowledgeLate, ResponseIsOk, TypeOK, Frame
  <2> QED BY <1>3, <1>5, <2>1 DEF Acknowledge, AcknowledgeLate, ResponseIsOk, bufferVars
<1>6. CASE GiveUp
  <2>1. outcome' = Settled("timeout") /\ state = 2 /\ state' = 0 /\ UNCHANGED frames
        /\ reported' = IF sent.respType \in ReportedTypes THEN reported \cup {sent.id} ELSE reported
    BY <1>6 DEF GiveUp, Release, bufferVars
  <2>2. sent.id \in Requests
    BY <1>0, <2>1 DEF Identified
  <2>3. sent.respType \in ReportedTypes /\ sent.id \notin revived => outcome'[sent.id] = "timeout"
    BY <1>1, <2>1, <2>2 DEF SettleInv, Settled, ReportedTypes, None
  <2> QED BY <1>3, <2>1, <2>3
<1>7. CASE Retry \/ EndPause \/ Answer
  BY <1>3, <1>7 DEF Retry, EndPause, Release, Answer, SetDeviceResp, bufferVars, senderVars
<1> QED BY <1>2, <1>4, <1>5, <1>6, <1>7 DEF BLE_SendToGateway

LEMMA NextSettleInv ==
    ASSUME TypeInv, SettleInv, [Next]_vars
    PROVE  SettleInv' /\ SettleStep
<1>1. CASE Submit
  <2>1. CASE AddSceneActionNoFrame
    BY <2>1, TagSettleInv
  <2>2. CASE ~AddSceneActionNoFrame
    BY <1>1, <2>2, SubmitCases, RequestSettleInv
  <2> QED BY <2>1, <2>2
<1>2. CASE UNCHANGED vars
  BY <1>2 DEF vars, SettleInv, SettleStep, Pending
<1> QED BY <1>1, <1>2, SenderSettleInv DEF Next

(* What became of a request is settled once, and only timed out requests are
   reported to CORE, unless its frame was tagged after it had been taken.    *)
THEOREM OutcomeSettledOnce == Spec => SettledOnce
<1>1. Init => SettleInv
  BY InitSettleInv
<1>2. TypeInv /\ SettleInv /\ [Next]_vars => SettleInv' /\ [SettleStep]_vars
  BY NextSettleInv
<1>3. SettleInv => \A r \in reported \ revived : outcome[r] = "timeout"
  BY DEF SettleInv
<1>4. Spec => [](\A r \in reported \ revived : outcome[r] = "timeout") /\ [][SettleStep]_vars
  BY <1>1, <1>2, <1>3, TypeInvariant, PTL DEF Spec
<1> QED BY <1>4, PTL DEF SettledOnce, SettleStep
=============================================================================
