-------------------------- MODULE DeviceRegistryProofs --------------------------
(* Proofs about DeviceRegistry: its types, that the cloud shows what the table
   says, and that no group holds a device that is gone for another reason than
   the two that are known, for any devices, addresses, groups and limits.      *)
EXTENDS DeviceRegistry, TLAPS

(* What a request under way will write back. *)
UpdateInv ==
    update.devices \subseteq known \cup forgotten

RegistryInv == TypeOK /\ CloudAgrees /\ NoGhosts /\ UpdateInv

LEMMA InitInv == Init => RegistryInv
BY RegistryAssumption
   DEF Init, RegistryInv, TypeOK, CloudAgrees, NoGhosts, UpdateInv, NoUpdate, Update

-----------------------------------------------------------------------------
(* What a packet with online states is found to say: nobody is online and offline,
   and nobody is missed whose offlineCount is at its end.                          *)
Sound(o) ==
    /\ o.on \subseteq known /\ o.off \subseteq known
    /\ o.on \cap o.off = {}
    /\ o.missed \subseteq {d \in known : offlineCount[d] # Tolerated}

LEMMA OutcomeIsSound ==
    ASSUME NEW item \in Item, NEW o \in Outcomes(item)
    PROVE  /\ Sound(o)
           /\ o.on \subseteq Found(item.place) /\ o.off \subseteq Found(item.place)
BY DEF Outcomes, Nobody, Found, Sound

LEMMA SinglePacketIsSound ==
    ASSUME NEW p \in Item, NEW o \in PacketOutcomes(<<p>>)
    PROVE  Sound(o)
<1>1. Len(<<p>>) = 1 /\ <<p>>[1] = p
  OBVIOUS
<1>2. o \in Outcomes(p)
  BY <1>1 DEF PacketOutcomes
<1> QED
  BY <1>2, OutcomeIsSound

LEMMA DoublePacketIsSound ==
    ASSUME NEW p \in Item, NEW q \in Item, p.place # q.place,
           NEW o \in PacketOutcomes(<<p, q>>)
    PROVE  Sound(o)
<1>1. Len(<<p, q>>) = 2 /\ <<p, q>>[1] = p /\ Last(<<p, q>>) = q
  BY DEF Last
<1>2. CASE o \in Outcomes(p)
  BY <1>2, OutcomeIsSound
<1>3. CASE o \notin Outcomes(p)
  <2>1. PICK first \in Outcomes(p), second \in Outcomes(q) : o = Both(first, second)
    BY <1>1, <1>3 DEF PacketOutcomes
  <2>2. /\ Sound(first) /\ Sound(second)
        /\ first.on \subseteq Found(p.place) /\ first.off \subseteq Found(p.place)
        /\ second.on \subseteq Found(q.place) /\ second.off \subseteq Found(q.place)
    BY OutcomeIsSound
  <2>3. Found(p.place) \cap Found(q.place) = {}
    BY DEF Found
  <2>4. /\ o.on = first.on \cup second.on
        /\ o.off = first.off \cup second.off
        /\ o.missed = first.missed \cup second.missed
    BY <2>1 DEF Both
  <2> QED
    BY <2>2, <2>3, <2>4 DEF Sound
<1> QED
  BY <1>2, <1>3

-----------------------------------------------------------------------------
(* Actions that leave groups and requests alone, and forget nothing. *)
LEMMA GroupsKept ==
    ASSUME RegistryInv, UNCHANGED groupVars, known \cup forgotten \subseteq known' \cup forgotten'
    PROVE  NoGhosts' /\ UpdateInv'
BY DEF RegistryInv, NoGhosts, UpdateInv, groupVars

LEMMA OnOffInv ==
    ASSUME RegistryInv, NEW d \in Devices, NEW polled \in BOOLEAN, NEW changed \in BOOLEAN,
           OnOff(d, polled, changed)
    PROVE  RegistryInv'
<1> DEFINE others == IF polled THEN {} ELSE Linked(d) \ {d}
           heard  == Fellows(d) \cup {d}
           told   == {e \in heard : e # d /\ state[e] = "offline"} \cup others
                         \cup {e \in {d} : Tells(d, polled, changed)}
<1> USE RegistryAssumption
<1>1. /\ d \in known /\ known' = known /\ forgotten' = forgotten
      /\ state' = Set(state, heard, "online")
      /\ age' = Set(age, heard, 0)
      /\ offlineCount' = Set(offlineCount, heard, 0)
      /\ cloud' = Set(cloud, told, "online")
      /\ presumed' = (presumed \ heard) \cup {e \in others : state[e] = "offline"}
      /\ UNCHANGED groupVars
  BY DEF OnOff
<1>2. heard \subseteq known /\ others \subseteq known /\ known \subseteq Devices
  BY <1>1 DEF Linked, Fellows, Found, RegistryInv, TypeOK
<1>3. TypeOK'
  <2>1. /\ state' \in [Devices -> {"online", "offline"}]
        /\ offlineCount' \in [Devices -> 0..Tolerated]
        /\ age' \in [Devices -> 0..(Silence + 1)]
        /\ cloud' \in [Devices -> {"absent", "online", "offline"}]
    BY <1>1 DEF Set, RegistryInv, TypeOK
  <2> QED
    BY <1>1, <1>2, <2>1 DEF RegistryInv, TypeOK, groupVars
<1>4. CloudAgrees'
  <2> SUFFICES ASSUME NEW e \in known
               PROVE  cloud'[e] = state'[e] \/ (e \in presumed' /\ cloud'[e] = "online")
    BY <1>1 DEF CloudAgrees
  <2>1. /\ e \in Devices
        /\ state[e] \in {"online", "offline"}
        /\ state'[e] = IF e \in heard THEN "online" ELSE state[e]
        /\ cloud'[e] = IF e \in told THEN "online" ELSE cloud[e]
        /\ cloud[e] = state[e] \/ (e \in presumed /\ cloud[e] = "online")
    BY <1>1, <1>2 DEF Set, RegistryInv, TypeOK, CloudAgrees
  <2>2. CASE e \in heard
    <3>1. CASE state[e] = "offline"
      BY <2>1, <2>2, <3>1 DEF Tells
    <3>2. CASE state[e] = "online"
      BY <2>1, <2>2, <3>2
    <3> QED
      BY <2>1, <3>1, <3>2
  <2>3. CASE e \notin heard
    BY <1>1, <2>1, <2>3
  <2> QED
    BY <2>2, <2>3
<1> QED
  BY <1>1, <1>3, <1>4, GroupsKept DEF RegistryInv

LEMMA ValueInv ==
    ASSUME RegistryInv, NEW d \in Devices, Value(d)
    PROVE  RegistryInv'
<1> USE RegistryAssumption
<1>1. TypeOK'
  <2>1. /\ state' \in [Devices -> {"online", "offline"}]
        /\ age' \in [Devices -> 0..(Silence + 1)]
        /\ cloud' \in [Devices -> {"absent", "online", "offline"}]
    BY DEF Set, Value, RegistryInv, TypeOK
  <2> QED
    BY <2>1 DEF Value, RegistryInv, TypeOK, groupVars
<1>2. CloudAgrees'
  BY DEF Set, Value, RegistryInv, TypeOK, CloudAgrees
<1> QED
  BY <1>1, <1>2, GroupsKept DEF Value, RegistryInv

(* A value that is told to the cloud, wherever it comes from. *)
LEMMA ShowValuesInv ==
    ASSUME RegistryInv, NEW S \in SUBSET Devices, ShowValues(S)
    PROVE  RegistryInv'
<1>1. TypeOK'
  <2>1. cloud' \in [Devices -> {"absent", "online", "offline"}]
    BY DEF Set, ShowValues, RegistryInv, TypeOK
  <2> QED
    BY <2>1 DEF ShowValues, RegistryInv, TypeOK, deviceVars, groupVars
<1>2. CloudAgrees'
  BY DEF Set, ShowValues, RegistryInv, TypeOK, CloudAgrees, deviceVars
<1> QED
  BY <1>1, <1>2, GroupsKept DEF ShowValues, RegistryInv

LEMMA SyncStatusInv ==
    ASSUME RegistryInv, SyncStatus
    PROVE  RegistryInv'
<1>1. TypeOK'
  <2>1. cloud' \in [Devices -> {"absent", "online", "offline"}]
    BY DEF SyncStatus, RegistryInv, TypeOK
  <2> QED
    BY <2>1 DEF SyncStatus, RegistryInv, TypeOK, deviceVars, groupVars
<1>2. CloudAgrees'
  BY DEF SyncStatus, RegistryInv, TypeOK, CloudAgrees, deviceVars
<1> QED
  BY <1>1, <1>2, GroupsKept DEF SyncStatus, RegistryInv

LEMMA OnlineStateInv ==
    ASSUME RegistryInv, NEW packet, OnlineState(packet),
           \A o \in PacketOutcomes(packet) : Sound(o)
    PROVE  RegistryInv'
<1> USE RegistryAssumption
<1>1. PICK o \in PacketOutcomes(packet) :
        /\ state' = Set(Set(state, o.on, "online"), o.off, "offline")
        /\ offlineCount' = [d \in Devices |-> IF d \in o.missed THEN offlineCount[d] + 1
                                              ELSE IF d \in o.on \cup o.off THEN 0
                                              ELSE offlineCount[d]]
        /\ age' = Set(age, o.on \cup o.off \cup o.missed, 0)
        /\ cloud' = Set(Set(cloud, Told(o) \cap o.on, "online"), Told(o) \cap o.off, "offline")
        /\ presumed' = presumed \ Told(o)
        /\ UNCHANGED <<known, groupVars, forgotten>>
  BY DEF OnlineState
<1>2. Sound(o)
  OBVIOUS
<1>3. TypeOK'
  <2>1. /\ state' \in [Devices -> {"online", "offline"}]
        /\ age' \in [Devices -> 0..(Silence + 1)]
        /\ cloud' \in [Devices -> {"absent", "online", "offline"}]
    BY <1>1 DEF Set, RegistryInv, TypeOK
  <2>2. offlineCount' \in [Devices -> 0..Tolerated]
    <3>1. ASSUME NEW d \in Devices
          PROVE  (IF d \in o.missed THEN offlineCount[d] + 1
                  ELSE IF d \in o.on \cup o.off THEN 0 ELSE offlineCount[d]) \in 0..Tolerated
      <4>1. offlineCount[d] \in 0..Tolerated /\ Tolerated \in Nat
        BY DEF RegistryInv, TypeOK
      <4>2. d \in o.missed => offlineCount[d] # Tolerated
        BY <1>2 DEF Sound
      <4> QED
        BY <4>1, <4>2
    <3> QED
      BY <1>1, <3>1
  <2> QED
    BY <1>1, <2>1, <2>2 DEF RegistryInv, TypeOK, groupVars
<1>4. CloudAgrees'
  <2> SUFFICES ASSUME NEW d \in known
               PROVE  cloud'[d] = state'[d] \/ (d \in presumed' /\ cloud'[d] = "online")
    BY <1>1 DEF CloudAgrees
  <2>1. /\ d \in Devices /\ state[d] \in {"online", "offline"}
        /\ cloud[d] = state[d] \/ (d \in presumed /\ cloud[d] = "online")
    BY DEF RegistryInv, TypeOK, CloudAgrees
  <2>2. /\ Set(state, o.on, "online") \in [Devices -> {"online", "offline"}]
        /\ Set(cloud, Told(o) \cap o.on, "online") \in [Devices -> {"absent", "online", "offline"}]
    BY DEF Set, RegistryInv, TypeOK
  <2>3. /\ state'[d] = IF d \in o.off THEN "offline" ELSE IF d \in o.on THEN "online" ELSE state[d]
        /\ cloud'[d] = IF d \in Told(o) \cap o.off THEN "offline"
                       ELSE IF d \in Told(o) \cap o.on THEN "online" ELSE cloud[d]
    BY <1>1, <2>1, <2>2 DEF Set, RegistryInv, TypeOK
  <2>4. CASE d \in o.on \cup o.off
    <3>1. ~(d \in o.on /\ d \in o.off)
      BY <1>2 DEF Sound
    <3>2. CASE d \in Told(o)
      BY <2>3, <2>4, <3>1, <3>2
    <3>3. CASE d \notin Told(o)
      <4>1. state'[d] = state[d] /\ cloud'[d] = cloud[d]
        BY <2>3, <2>4, <3>1, <3>3 DEF Told
      <4> QED
        BY <1>1, <2>1, <3>3, <4>1
    <3> QED
      BY <3>2, <3>3
  <2>5. CASE d \notin o.on \cup o.off
    <3>1. d \notin Told(o)
      BY <2>5 DEF Told
    <3> QED
      BY <1>1, <2>1, <2>3, <2>5, <3>1
  <2> QED
    BY <2>4, <2>5
<1> QED
  BY <1>1, <1>3, <1>4, GroupsKept DEF RegistryInv

-----------------------------------------------------------------------------
(* Time, and devices that come and go *)

LEMMA TimeInv ==
    ASSUME RegistryInv, Period \/ CheckDeviceOffline
    PROVE  RegistryInv'
<1> USE RegistryAssumption
<1>1. CASE Period
  <2>1. age' \in [Devices -> 0..(Silence + 1)]
    BY <1>1 DEF Period, Fresh, RegistryInv, TypeOK
  <2> QED
    BY <1>1, <2>1 DEF Period, RegistryInv, TypeOK, CloudAgrees, NoGhosts, UpdateInv,
                      groupVars, historyVars
<1>2. CASE CheckDeviceOffline
  <2>1. TypeOK'
    <3>1. /\ state' \in [Devices -> {"online", "offline"}]
          /\ age' \in [Devices -> 0..(Silence + 1)]
          /\ cloud' \in [Devices -> {"absent", "online", "offline"}]
      BY <1>2 DEF Set, CheckDeviceOffline, RegistryInv, TypeOK
    <3> QED
      BY <1>2, <3>1 DEF CheckDeviceOffline, RegistryInv, TypeOK, groupVars
  <2>2. CloudAgrees'
    BY <1>2 DEF Set, CheckDeviceOffline, Silent, RegistryInv, TypeOK, CloudAgrees
  <2> QED
    BY <1>2, <2>1, <2>2, GroupsKept DEF CheckDeviceOffline, RegistryInv
<1> QED
  BY <1>1, <1>2

LEMMA AddDeviceInv ==
    ASSUME RegistryInv, NEW d \in Devices, NEW st \in {"online", "offline"}, AddDevice(d, st)
    PROVE  RegistryInv'
<1> USE RegistryAssumption
<1>1. TypeOK'
  <2>1. /\ state' \in [Devices -> {"online", "offline"}]
        /\ offlineCount' \in [Devices -> 0..Tolerated]
        /\ age' \in [Devices -> 0..(Silence + 1)]
        /\ cloud' \in [Devices -> {"absent", "online", "offline"}]
    BY DEF Set, AddDevice, RegistryInv, TypeOK
  <2> QED
    BY <2>1 DEF AddDevice, RegistryInv, TypeOK, groupVars
<1>2. CloudAgrees'
  BY DEF Set, AddDevice, RegistryInv, TypeOK, CloudAgrees
<1> QED
  BY <1>1, <1>2, GroupsKept DEF AddDevice, RegistryInv

(* What Forget does, with a cloud that keeps the devices that stay. *)
LEMMA ForgetKeeps ==
    ASSUME RegistryInv, NEW S \in SUBSET Devices, Forget(S),
           NEW T \in SUBSET S, cloud' = Set(cloud, T, "absent")
    PROVE  /\ known' \subseteq Devices /\ presumed' \subseteq Devices
           /\ state' \in [Devices -> {"online", "offline"}]
           /\ offlineCount' \in [Devices -> 0..Tolerated]
           /\ age' \in [Devices -> 0..(Silence + 1)]
           /\ cloud' \in [Devices -> {"absent", "online", "offline"}]
           /\ CloudAgrees'
<1> USE RegistryAssumption
<1>1. /\ state' \in [Devices -> {"online", "offline"}]
      /\ offlineCount' \in [Devices -> 0..Tolerated]
      /\ age' \in [Devices -> 0..(Silence + 1)]
      /\ cloud' \in [Devices -> {"absent", "online", "offline"}]
  BY DEF Set, Forget, RegistryInv, TypeOK
<1>2. CloudAgrees'
  BY DEF Set, Forget, RegistryInv, TypeOK, CloudAgrees
<1> QED
  BY <1>1, <1>2 DEF Forget, RegistryInv, TypeOK

(* A device that leaves with its memberships: TYPE_DEL_DEVICE, or a kick-out. *)
LEMMA LeaveInv ==
    ASSUME RegistryInv, NEW d \in Devices, Forget({d}), DeleteFromGroups(d),
           cloud' = Set(cloud, {d}, "absent"), UNCHANGED update
    PROVE  RegistryInv'
<1> USE RegistryAssumption
<1>1. /\ known' \subseteq Devices /\ presumed' \subseteq Devices
      /\ state' \in [Devices -> {"online", "offline"}]
      /\ offlineCount' \in [Devices -> 0..Tolerated]
      /\ age' \in [Devices -> 0..(Silence + 1)]
      /\ cloud' \in [Devices -> {"absent", "online", "offline"}]
      /\ CloudAgrees'
  <2>1. {d} \in SUBSET Devices /\ {d} \in SUBSET {d}
    OBVIOUS
  <2> QED
    BY <2>1, ForgetKeeps
<1>2. /\ groups' \subseteq Groups
      /\ members' \in [Groups -> SUBSET Devices]
      /\ forgotten' \subseteq Devices
      /\ \A g \in groups' : g \in groups /\ members'[g] = members[g] \ {d}
      /\ \A g \in Groups : members'[g] \subseteq members[g]
  BY DEF DeleteFromGroups, RegistryInv, TypeOK
<1>3. TypeOK'
  BY <1>1, <1>2 DEF RegistryInv, TypeOK
<1>4. known' = known \ {d} /\ forgotten \subseteq forgotten'
      /\ (d \in update.devices => d \in forgotten')
  BY DEF Forget, DeleteFromGroups
<1>5. NoGhosts'
  BY <1>2, <1>4 DEF RegistryInv, NoGhosts
<1>6. UpdateInv'
  BY <1>1, <1>2, <1>4 DEF RegistryInv, UpdateInv
<1> QED
  BY <1>1, <1>3, <1>5, <1>6 DEF RegistryInv

LEMMA KickOutHubInv ==
    ASSUME RegistryInv, NEW d \in Devices, KickOutHub(d)
    PROVE  RegistryInv'
<1> DEFINE struck == {e \in known : At[e].unicast = At[d].unicast}
<1> USE RegistryAssumption
<1>1. /\ struck \in SUBSET Devices /\ Fellows(d) \in SUBSET struck
      /\ Forget(struck) /\ cloud' = Set(cloud, Fellows(d), "absent")
      /\ forgotten' = forgotten \cup struck /\ UNCHANGED groupVars
  BY DEF KickOutHub, Fellows, Found, RegistryInv, TypeOK
<1>2. /\ known' \subseteq Devices /\ presumed' \subseteq Devices
      /\ state' \in [Devices -> {"online", "offline"}]
      /\ offlineCount' \in [Devices -> 0..Tolerated]
      /\ age' \in [Devices -> 0..(Silence + 1)]
      /\ cloud' \in [Devices -> {"absent", "online", "offline"}]
      /\ CloudAgrees'
  <2> HIDE DEF struck
  <2> QED
    BY <1>1, ForgetKeeps
<1>3. TypeOK'
  BY <1>1, <1>2 DEF RegistryInv, TypeOK, groupVars
<1>4. known \cup forgotten \subseteq known' \cup forgotten'
  BY <1>1 DEF Forget
<1> QED
  BY <1>1, <1>2, <1>3, <1>4, GroupsKept DEF RegistryInv

-----------------------------------------------------------------------------
(* Groups *)

LEMMA GroupInv ==
    ASSUME RegistryInv,
           \/ \E g \in Groups : DeleteGroup(g) \/ \E S \in SUBSET Devices : SaveGroup(g, S)
           \/ \E S \in SUBSET Devices : EndUpdate(S)
           \/ Restart
    PROVE  RegistryInv'
<1> USE RegistryAssumption
<1>1. ASSUME NEW g \in Groups, DeleteGroup(g) PROVE RegistryInv'
  BY <1>1 DEF DeleteGroup, RegistryInv, TypeOK, CloudAgrees, NoGhosts, UpdateInv,
              deviceVars, historyVars
<1>2. ASSUME NEW g \in Groups, NEW S \in SUBSET Devices, SaveGroup(g, S) PROVE RegistryInv'
  <2>1. /\ groups' = groups \cup {g} /\ members' = [members EXCEPT ![g] = S]
        /\ update' = [group |-> g, devices |-> S] /\ S \subseteq known
        /\ UNCHANGED <<known, deviceVars, cloud, historyVars>>
    BY <1>2 DEF SaveGroup
  <2>2. TypeOK'
    BY <2>1 DEF RegistryInv, TypeOK, Update, deviceVars, historyVars
  <2>3. CloudAgrees'
    BY <2>1 DEF RegistryInv, CloudAgrees, deviceVars, historyVars
  <2>4. NoGhosts' /\ UpdateInv'
    BY <2>1 DEF RegistryInv, TypeOK, NoGhosts, UpdateInv, historyVars
  <2> QED
    BY <2>2, <2>3, <2>4 DEF RegistryInv
<1>3. ASSUME NEW S \in SUBSET Devices, EndUpdate(S) PROVE RegistryInv'
  <2>1. /\ S \subseteq update.devices
        /\ members' = IF update.group \in groups
                      THEN [members EXCEPT ![update.group] = S] ELSE members
        /\ update' = NoUpdate
        /\ UNCHANGED <<known, deviceVars, cloud, groups, historyVars>>
    BY <1>3 DEF EndUpdate
  <2>2. TypeOK'
    BY <2>1 DEF RegistryInv, TypeOK, Update, deviceVars, historyVars
  <2>3. CloudAgrees'
    BY <2>1 DEF RegistryInv, CloudAgrees, deviceVars, historyVars
  <2>4. \A g \in Groups : members'[g] = members[g] \/ members'[g] = S
    BY <2>1 DEF RegistryInv, TypeOK
  <2>5. NoGhosts' /\ UpdateInv'
    BY <2>1, <2>4 DEF RegistryInv, TypeOK, NoGhosts, UpdateInv, NoUpdate, historyVars
  <2> QED
    BY <2>2, <2>3, <2>5 DEF RegistryInv
<1>4. CASE Restart
  BY <1>4 DEF Restart, RegistryInv, TypeOK, CloudAgrees, NoGhosts, UpdateInv,
              NoUpdate, Update, deviceVars, historyVars
<1> QED
  BY <1>1, <1>2, <1>3, <1>4

LEMMA NextInv == RegistryInv /\ [Next]_vars => RegistryInv'
<1> SUFFICES ASSUME RegistryInv, [Next]_vars PROVE RegistryInv'
  OBVIOUS
<1>1. CASE Reports
  <2>1. ASSUME NEW d \in Devices, NEW polled \in BOOLEAN, NEW changed \in BOOLEAN,
               OnOff(d, polled, changed)
        PROVE  RegistryInv'
    BY <2>1, OnOffInv
  <2>2. ASSUME NEW d \in Devices, Value(d) \/ ValueByAddr(d) PROVE RegistryInv'
    BY <2>2, ValueInv DEF ValueByAddr
  <2>3. ASSUME NEW p \in Item, OnlineState(<<p>>) PROVE RegistryInv'
    BY <2>3, OnlineStateInv, SinglePacketIsSound
  <2>4. ASSUME NEW p \in Item, NEW q \in Item, p.place # q.place, OnlineState(<<p, q>>)
        PROVE  RegistryInv'
    BY <2>4, OnlineStateInv, DoublePacketIsSound
  <2>5. ASSUME NEW d \in Devices, Sensed(d) \/ Forwarded(d) PROVE RegistryInv'
    BY <2>5, ShowValuesInv DEF Sensed, Forwarded
  <2>6. ASSUME NEW p, NEW S \in SUBSET Devices, RemoteUsed(p, S) PROVE RegistryInv'
    BY <2>6, ShowValuesInv DEF RemoteUsed
  <2> QED
    BY <1>1, <2>1, <2>2, <2>3, <2>4, <2>5, <2>6 DEF Reports
<1>2. CASE Period \/ CheckDeviceOffline
  BY <1>2, TimeInv
<1>3. ASSUME NEW d \in Devices,
             \/ \E st \in {"online", "offline"} : AddDevice(d, st)
             \/ DeleteDevice(d) \/ KickOut(d) \/ KickOutHub(d)
      PROVE  RegistryInv'
  <2>1. CASE \E st \in {"online", "offline"} : AddDevice(d, st)
    BY <2>1, AddDeviceInv
  <2>2. CASE DeleteDevice(d) \/ KickOut(d)
    BY <2>2, LeaveInv DEF DeleteDevice, KickOut
  <2>3. CASE KickOutHub(d)
    BY <2>3, KickOutHubInv
  <2> QED
    BY <1>3, <2>1, <2>2, <2>3
<1>4. CASE \/ \E g \in Groups : DeleteGroup(g) \/ \E S \in SUBSET Devices : SaveGroup(g, S)
           \/ \E S \in SUBSET Devices : EndUpdate(S)
           \/ Restart
  BY <1>4, GroupInv
<1>5. CASE Controls
  <2>1. ASSUME NEW d \in Devices, ControlDevice(d) PROVE RegistryInv'
    BY <2>1, ShowValuesInv DEF ControlDevice
  <2>2. ASSUME NEW g \in Groups, ControlGroup(g) PROVE RegistryInv'
    <3>1. members[g] \cap known \in SUBSET Devices /\ ShowValues(members[g] \cap known)
      BY <2>2 DEF ControlGroup, RegistryInv, TypeOK
    <3> QED
      BY <3>1, ShowValuesInv
  <2>3. ASSUME NEW S \in SUBSET Devices, ControlScene(S) PROVE RegistryInv'
    BY <2>3, ShowValuesInv DEF ControlScene
  <2>4. CASE SyncStatus
    BY <2>4, SyncStatusInv
  <2> QED
    BY <1>5, <2>1, <2>2, <2>3, <2>4 DEF Controls
<1>6. CASE UNCHANGED vars
  BY <1>6 DEF vars, deviceVars, groupVars, historyVars, RegistryInv, TypeOK, CloudAgrees,
              NoGhosts, UpdateInv
<1> QED
  BY <1>1, <1>2, <1>3, <1>4, <1>5, <1>6 DEF Next

-----------------------------------------------------------------------------
(* What takes back the counts of a device that is silent.                      *)

Heard(d) == state'[d] = "online" \/ cloud'[d] = "offline"
SilenceStep ==
    \A d \in ((Watched \ Infrared) \cap known) \cap known' :
        /\ offlineCount'[d] < offlineCount[d] => Heard(d)
        /\ age'[d] < age[d] => Heard(d) \/ offlineCount'[d] = offlineCount[d] + 1

LEMMA CountsAreNumbers ==
    ASSUME RegistryInv, NEW d \in Devices
    PROVE  age[d] \in Nat /\ offlineCount[d] \in Nat
BY RegistryAssumption DEF RegistryInv, TypeOK

LEMMA CountsStay ==
    ASSUME RegistryInv, age' = age, offlineCount' = offlineCount
    PROVE  SilenceStep
BY CountsAreNumbers, RegistryAssumption DEF SilenceStep

LEMMA OnlineStateCounts ==
    ASSUME RegistryInv, NEW packet, OnlineState(packet)
    PROVE  SilenceStep
<1>1. PICK o \in PacketOutcomes(packet) :
        /\ state' = Set(Set(state, o.on, "online"), o.off, "offline")
        /\ offlineCount' = [d \in Devices |-> IF d \in o.missed THEN offlineCount[d] + 1
                                              ELSE IF d \in o.on \cup o.off THEN 0
                                              ELSE offlineCount[d]]
        /\ age' = Set(age, o.on \cup o.off \cup o.missed, 0)
        /\ cloud' = Set(Set(cloud, Told(o) \cap o.on, "online"), Told(o) \cap o.off, "offline")
  BY DEF OnlineState
<1> SUFFICES ASSUME NEW d \in Devices, d \notin Infrared
             PROVE  /\ offlineCount'[d] < offlineCount[d] => Heard(d)
                    /\ age'[d] < age[d] => Heard(d) \/ offlineCount'[d] = offlineCount[d] + 1
  BY RegistryAssumption DEF SilenceStep
<1>2. /\ DOMAIN state = Devices /\ DOMAIN age = Devices /\ DOMAIN cloud = Devices
      /\ age[d] \in Nat /\ offlineCount[d] \in Nat
  BY CountsAreNumbers DEF RegistryInv, TypeOK
<1>3. CASE d \in o.off
  <2>1. d \in Told(o)
    BY <1>3 DEF Told
  <2>2. cloud'[d] = "offline"
    BY <1>1, <1>2, <1>3, <2>1 DEF Set
  <2> QED BY <2>2 DEF Heard
<1>4. CASE d \in o.on /\ d \notin o.off
  <2>1. state'[d] = "online"
    BY <1>1, <1>2, <1>4 DEF Set
  <2> QED BY <2>1 DEF Heard
<1>5. CASE d \notin o.on \cup o.off
  <2>1. age'[d] = IF d \in o.missed THEN 0 ELSE age[d]
    BY <1>1, <1>2, <1>5 DEF Set
  <2>2. offlineCount'[d] = IF d \in o.missed THEN offlineCount[d] + 1 ELSE offlineCount[d]
    BY <1>1, <1>5
  <2> QED BY <1>2, <2>1, <2>2
<1> QED BY <1>3, <1>4, <1>5

LEMMA ReportsCount ==
    ASSUME RegistryInv, Reports
    PROVE  SilenceStep
<1>1. ASSUME NEW d \in Devices, NEW polled, NEW changed, OnOff(d, polled, changed)
      PROVE  SilenceStep
  <2> DEFINE S == Fellows(d) \cup {d}
  <2>1. /\ state' = Set(state, S, "online") /\ age' = Set(age, S, 0)
        /\ offlineCount' = Set(offlineCount, S, 0)
    BY <1>1 DEF OnOff
  <2> HIDE DEF S
  <2> QED BY <2>1, CountsAreNumbers, RegistryAssumption DEF SilenceStep, Heard, Set, RegistryInv, TypeOK
<1>2. ASSUME NEW d \in Devices, Value(d)
      PROVE  SilenceStep
  <2>1. /\ state' = Set(state, {d}, "online") /\ age' = Set(age, {d}, 0) /\ UNCHANGED offlineCount
    BY <1>2 DEF Value
  <2> QED BY <2>1, CountsAreNumbers, RegistryAssumption DEF SilenceStep, Heard, Set, RegistryInv, TypeOK
<1>3. ASSUME NEW S, ShowValues(S)
      PROVE  SilenceStep
  BY <1>3, CountsStay DEF ShowValues, deviceVars
<1> QED
  BY <1>1, <1>2, <1>3, OnlineStateCounts
     DEF Reports, ValueByAddr, Sensed, Forwarded, RemoteUsed

LEMMA TimeCounts ==
    ASSUME RegistryInv, Period \/ CheckDeviceOffline
    PROVE  SilenceStep
<1>1. CASE Period
  <2>1. offlineCount' = offlineCount /\ \A d \in Devices : age'[d] \in {age[d], age[d] + 1}
    BY <1>1 DEF Period
  <2> QED BY <2>1, CountsAreNumbers, RegistryAssumption DEF SilenceStep
<1>2. CASE CheckDeviceOffline
  <2>1. /\ cloud' = Set(cloud, Silent, "offline") /\ age' = Set(age, Silent, 0)
        /\ UNCHANGED offlineCount
    BY <1>2 DEF CheckDeviceOffline
  <2> QED BY <2>1, CountsAreNumbers, RegistryAssumption DEF SilenceStep, Heard, Set, RegistryInv, TypeOK
<1> QED
  BY <1>1, <1>2

LEMMA ComingAndGoingCounts ==
    ASSUME RegistryInv, NEW d \in Devices,
           \/ \E st \in {"online", "offline"} : AddDevice(d, st)
           \/ DeleteDevice(d) \/ KickOut(d) \/ KickOutHub(d)
    PROVE  SilenceStep
<1>1. ASSUME NEW st \in {"online", "offline"}, AddDevice(d, st)
      PROVE  SilenceStep
  <2>1. /\ state' = Set(state, {d}, st) /\ cloud' = Set(cloud, {d}, st)
        /\ age' = Set(age, {d}, 0) /\ offlineCount' = Set(offlineCount, {d}, 0)
    BY <1>1 DEF AddDevice
  <2> QED BY <2>1, CountsAreNumbers, RegistryAssumption DEF SilenceStep, Heard, Set, RegistryInv, TypeOK
<1>2. ASSUME NEW S, Forget(S)
      PROVE  SilenceStep
  <2>1. /\ known' = known \ S /\ age' = Set(age, S, 0) /\ offlineCount' = Set(offlineCount, S, 0)
    BY <1>2 DEF Forget
  <2> QED BY <2>1, CountsAreNumbers, RegistryAssumption DEF SilenceStep, Heard, Set, RegistryInv, TypeOK
<1> QED
  BY <1>1, <1>2 DEF DeleteDevice, KickOut, KickOutHub

LEMMA NextCounts == RegistryInv /\ [Next]_vars => SilenceStep
<1> SUFFICES ASSUME RegistryInv, [Next]_vars PROVE SilenceStep
  OBVIOUS
<1>1. ASSUME NEW S, ShowValues(S)
      PROVE  SilenceStep
  BY <1>1, CountsStay DEF ShowValues, deviceVars
<1>2. CASE Controls
  BY <1>1, <1>2, CountsStay DEF Controls, ControlDevice, ControlGroup, ControlScene, SyncStatus, deviceVars
<1>3. CASE \/ \E g \in Groups : DeleteGroup(g) \/ \E S \in SUBSET Devices : SaveGroup(g, S)
           \/ \E S \in SUBSET Devices : EndUpdate(S)
           \/ Restart \/ UNCHANGED vars
  BY <1>3, CountsStay DEF DeleteGroup, SaveGroup, EndUpdate, Restart, vars, deviceVars
<1> QED
  BY <1>2, <1>3, ReportsCount, TimeCounts, ComingAndGoingCounts DEF Next

-----------------------------------------------------------------------------
(* The tables of devices and groups and the update under way have their types: in
   particular no offlineCount passes the limit at which it is looked at.          *)
THEOREM TypeCorrect == Spec => []TypeOK
<1>1. RegistryInv => TypeOK
  BY DEF RegistryInv
<1> QED
  BY <1>1, InitInv, NextInv, PTL DEF Spec

(* Whatever is reported, polled, found silent, added or deleted, the cloud shows the
   state of each known device, but for offline ones of which it was told a value.   *)
THEOREM CloudFollows == Spec => []CloudAgrees
<1>1. RegistryInv => CloudAgrees
  BY DEF RegistryInv
<1> QED
  BY <1>1, InitInv, NextInv, PTL DEF Spec

(* A group only ever holds a device that CORE does not know when the device left
   during an update of a group, or with a hub.                                   *)
THEOREM GhostsExplained == Spec => []NoGhosts
<1>1. RegistryInv => NoGhosts
  BY DEF RegistryInv
<1> QED
  BY <1>1, InitInv, NextInv, PTL DEF Spec

(* Nothing hides the silence of a watched device.  Its periods without news start
   anew only when it was heard, is shown offline in the cloud, or an offline report of
   it was counted; and that count starts anew only in the first two cases.  Values
   that the cloud is told of it, and what the app controls, change neither
   (Db_SaveOfflineCountForDevice, Db_SaveDeviceState and their callers in main_core.c).
   A hub is left out: an offline one is reported without the cloud being told.     *)
SilenceCounts ==
    [][\A d \in ((Watched \ Infrared) \cap known) \cap known' :
          LET heard == state'[d] = "online" \/ cloud'[d] = "offline" IN
          /\ offlineCount'[d] < offlineCount[d] => heard
          /\ age'[d] < age[d] => heard \/ offlineCount'[d] = offlineCount[d] + 1]_vars

(* A watched device that keeps silent is counted, report by report, towards the one
   that shows it offline.                                                          *)
THEOREM SilenceIsNotHidden == Spec => SilenceCounts
<1>1. RegistryInv /\ [Next]_vars
        => [\A d \in ((Watched \ Infrared) \cap known) \cap known' :
               LET heard == state'[d] = "online" \/ cloud'[d] = "offline" IN
               /\ offlineCount'[d] < offlineCount[d] => heard
               /\ age'[d] < age[d] => heard \/ offlineCount'[d] = offlineCount[d] + 1]_vars
  BY NextCounts DEF SilenceStep, Heard
<1> QED
  BY <1>1, InitInv, NextInv, PTL DEF Spec, SilenceCounts
==============================================================================
