----------------------------- MODULE DeviceRegistry -----------------------------
(***************************************************************************)
(* The devices that CORE knows (app/main_core.c, the tables devices_inf    *)
(* and group_inf of app/database.c): whether each is online, what the      *)
(* cloud is told of it, and what becomes of the groups of a device that is *)
(* deleted or kicked out of the mesh.                                      *)
(*                                                                         *)
(* Each action is one pass of the loop of main: a handler with all that it *)
(* writes, the check for silent devices, or the end of a group request.    *)
(* GroupUpdate has the inside of a group request; here it is the devices   *)
(* it was made with, and those that are left when it ends.  SceneEngine    *)
(* has what a deletion does to scenes.  A message to the AWS service       *)
(* counts as taken by the cloud: AwsBridge has how it can be lost.         *)
(***************************************************************************)
EXTENDS Naturals, Sequences, FiniteSets, SequencesExt

CONSTANTS
    Devices,
    At,             \* the gateway and the unicast address of a device
    Infrared,       \* HG_BLE_IR_FULL: a hub and the devices behind it, at one address
    Watched,        \* the products that CheckDeviceOffline looks at
    Stated,         \* the products that TYPE_SYNC_DEVICE_STATUS looks at
    Groups,
    Links,          \* the groups of buttons
    Offered,        \* the devices that the app offers for a group
    Tolerated,      \* an offline report counts when offlineCount has come to this
    Silence         \* polling periods without news that CheckDeviceOffline bears

ASSUME RegistryAssumption ==
    /\ Infrared \subseteq Devices /\ Watched \subseteq Devices /\ Stated \subseteq Devices
    /\ Links \subseteq Groups
    /\ Offered \in [Groups -> SUBSET (Devices \ Infrared)]
    /\ Tolerated \in Nat /\ Silence \in Nat
    /\ At \in [Devices -> [gateway : STRING, unicast : STRING]]
    /\ \A d, e \in Devices : d \in Infrared /\ At[d] = At[e] => e \in Infrared
    /\ \A d, e \in Devices \ Infrared : At[d] = At[e] => d = e

VARIABLES
    known,          \* the devices with a row in devices_inf
    state,          \* devices_inf.state
    offlineCount,   \* devices_inf.offlineCount
    age,            \* periods since devices_inf.last_updated, of a device that is watched
    cloud,          \* the devices in the cloud: their state, or absent
    groups,         \* the groups with a row in group_inf
    members,        \* group_inf.devices
    update,         \* g_groupTobeUpdated: the group and the devices of a request under way
    \* History:
    presumed,       \* offline devices that the cloud shows online, as it was told a value of theirs
    forgotten       \* devices that were removed while a request was under way, or with a hub

deviceVars  == <<state, offlineCount, age>>
groupVars   == <<groups, members, update>>
historyVars == <<presumed, forgotten>>
vars == <<known, deviceVars, cloud, groupVars, historyVars>>

NoGroup  == "none"
NoUpdate == [group |-> NoGroup, devices |-> {}]
Update   == [group : Groups, devices : SUBSET Devices] \cup {NoUpdate}

TypeOK ==
    /\ known \subseteq Devices
    /\ state \in [Devices -> {"online", "offline"}]
    /\ offlineCount \in [Devices -> 0..Tolerated]
    /\ age \in [Devices -> 0..(Silence + 1)]
    /\ cloud \in [Devices -> {"absent", "online", "offline"}]
    /\ groups \subseteq Groups
    /\ members \in [Groups -> SUBSET Devices]
    /\ update \in Update
    /\ presumed \subseteq Devices /\ forgotten \subseteq Devices

Init ==
    /\ known = {}
    /\ state = [d \in Devices |-> "offline"]
    /\ offlineCount = [d \in Devices |-> 0]
    /\ age = [d \in Devices |-> 0]
    /\ cloud = [d \in Devices |-> "absent"]
    /\ groups = {} /\ members = [g \in Groups |-> {}]
    /\ update = NoUpdate
    /\ presumed = {} /\ forgotten = {}

(* A function with one value at the elements of a set. *)
Set(f, S, v) == [x \in DOMAIN f |-> IF x \in S THEN v ELSE f[x]]

(* The devices that a query by gateway and address finds. *)
Found(place) == {d \in known : At[d] = place}
Fellows(d) == IF d \in Infrared THEN Found(At[d]) ELSE {}

-----------------------------------------------------------------------------
(* What devices report *)

(* GetDeviceStatusForGroup: the cloud is told a value for every button of the
   link groups of the device, which shows it online as well.                 *)
Linked(d) == known \cap UNION {members[g] : g \in {h \in groups \cap Links : d \in members[h]}}

(* GW_RESP_ONOFF_STATE: a change made at the device, or the answer to a poll
   (0x8201), which the cloud is only told when it says something new.        *)
TellsFaulty(d, polled, changed) == ~polled \/ changed       \* a value is all that is new

Tells(d, polled, changed) == ~polled \/ changed \/ state[d] = "offline"

OnOff(d, polled, changed) ==
    LET others == IF polled THEN {} ELSE Linked(d) \ {d}
        heard  == Fellows(d) \cup {d}
    IN  /\ d \in known
        /\ state' = Set(state, heard, "online")
        /\ age' = Set(age, heard, 0)
        /\ offlineCount' = Set(offlineCount, heard, 0)
        /\ cloud' = Set(cloud, {e \in heard : e # d /\ state[e] = "offline"} \cup others
                               \cup {e \in {d} : Tells(d, polled, changed)}, "online")
        /\ presumed' = (presumed \ heard) \cup {e \in others : state[e] = "offline"}
        /\ UNCHANGED <<known, groupVars, forgotten>>

(* The values of lights (GW_RESPONSE_LIGHT_RD_CONTROL, GW_RESPONSE_RGB_COLOR),
   which leave offlineCount alone.                                             *)
Value(d) ==
    /\ d \in known \ Infrared
    /\ state' = Set(state, {d}, "online")
    /\ age' = Set(age, {d}, 0)
    /\ cloud' = Set(cloud, {d}, "online")
    /\ presumed' = presumed \ {d}
    /\ UNCHANGED <<known, offlineCount, groupVars, forgotten>>

(* SaveDpValueByAddr: those of presence sensors and curtains, in the same way. *)
ValueByAddr(d) == Value(d)

(* A value goes to the cloud with "state": 2, which shows the device online.  What
   follows leaves the row of the device as it is.                                 *)
ShowValues(S) ==
    /\ S # {} /\ S \subseteq known
    /\ cloud' = Set(cloud, S, "online")
    /\ presumed' = presumed \cup {d \in S : state[d] = "offline"}
    /\ UNCHANGED <<known, deviceVars, groupVars, forgotten>>

(* GW_RESPONSE_SENSOR_*, GW_RESPONSE_SMOKE_SENSOR, GW_RESP_MODULE *)
Sensed(d) == ShowValues({d})

(* GW_RESPONSE_FORWARD_ONLY *)
Forwarded(d) == ShowValues({d})

(* GW_RESPONSE_IR of an air conditioner: the devices with a first value at that
   address, of whatever gateway, that have the brand and the remote it names.   *)
RemoteUsed(place, S) ==
    /\ \A d \in S : At[d].unicast = place.unicast
    /\ ShowValues(S)

(* GW_RESP_ONLINE_STATE with one or two devices.  What it does is written down
   as the devices it finds online, those it finds offline, and those whose
   offlineCount it increments; the last end the loop over the packet, or that
   over the devices behind a hub, whose order is the database's.              *)
Nobody == [on |-> {}, off |-> {}, missed |-> {}]

OutcomesFaulty(item) ==        \* one report more than offlineCount can count
    LET S     == Found(item.place)
        ready == {d \in S : offlineCount[d] > Tolerated}
    IN  IF item.online THEN {[Nobody EXCEPT !.on = S]}
        ELSE {o \in [on : {{}}, off : SUBSET ready, missed : SUBSET (S \ ready)] :
                 Cardinality(o.missed) <= 1 /\ (o.missed = {} => o.off = S)}

Outcomes(item) ==
    LET S     == Found(item.place)
        ready == {d \in S : offlineCount[d] = Tolerated}
    IN  IF item.online THEN {[Nobody EXCEPT !.on = S]}
        ELSE {o \in [on : {{}}, off : SUBSET ready, missed : SUBSET (S \ ready)] :
                 Cardinality(o.missed) <= 1 /\ (o.missed = {} => o.off = S)}

(* The break of a hub leaves the loop over its devices only. *)
EndsPacket(o) == o.missed # {} /\ o.missed \cap Infrared = {}

Both(o, p) == [on |-> o.on \cup p.on, off |-> o.off \cup p.off, missed |-> o.missed \cup p.missed]

PacketOutcomes(packet) ==
    {o \in Outcomes(packet[1]) : Len(packet) = 1 \/ EndsPacket(o)}
    \cup UNION {{Both(o, p) : p \in Outcomes(Last(packet))} :
                   o \in {o \in Outcomes(packet[1]) : Len(packet) = 2 /\ ~EndsPacket(o)}}

(* A device behind a hub is only told to the cloud when it changes. *)
Told(o) == {d \in o.on \cup o.off : d \in Infrared => state[d] # IF d \in o.on THEN "online" ELSE "offline"}

OnlineState(packet) ==
    \E o \in PacketOutcomes(packet) :
        /\ state' = Set(Set(state, o.on, "online"), o.off, "offline")
        /\ offlineCount' = [d \in Devices |-> IF d \in o.missed THEN offlineCount[d] + 1
                                              ELSE IF d \in o.on \cup o.off THEN 0
                                              ELSE offlineCount[d]]
        /\ age' = Set(age, o.on \cup o.off \cup o.missed, 0)
        /\ cloud' = Set(Set(cloud, Told(o) \cap o.on, "online"), Told(o) \cap o.off, "offline")
        /\ presumed' = presumed \ Told(o)
        /\ UNCHANGED <<known, groupVars, forgotten>>

-----------------------------------------------------------------------------
(* Time *)

Fresh == {d \in known \cap Watched : age[d] <= Silence}

Period ==
    /\ Fresh # {}
    /\ age' = [d \in Devices |-> IF d \in Fresh THEN age[d] + 1 ELSE age[d]]
    /\ UNCHANGED <<known, state, offlineCount, cloud, groupVars, historyVars>>

(* CheckDeviceOffline.  A device that stays silent is found again, and told to the
   cloud again, after as many periods.                                           *)
SilentFaulty == {d \in known \cap Watched : age[d] > Silence /\ state[d] = "online"}

Silent == {d \in known \cap Watched : age[d] > Silence}

CheckDeviceOffline ==
    /\ Silent # {}
    /\ state' = Set(state, Silent, "offline")
    /\ cloud' = Set(cloud, Silent, "offline")
    /\ age' = Set(age, Silent, 0)
    /\ presumed' = presumed \ Silent
    /\ UNCHANGED <<known, offlineCount, groupVars, forgotten>>

-----------------------------------------------------------------------------
(* What the app controls *)

(* TYPE_CTR_DEVICE of the mode of a light, and the same by a scene. *)
ControlDevice(d) == ShowValues({d})

(* TYPE_CTR_GROUP_NORMAL, and the same by a scene: a group of lights. *)
ControlGroup(g) ==
    /\ g \in groups \ Links
    /\ ShowValues(members[g] \cap known)

(* TYPE_CTR_SCENE of a scene that runs in the devices, which are any. *)
ControlScene(S) == ShowValues(S)

(* TYPE_SYNC_DEVICE_STATUS *)
SyncStatus ==
    /\ known \cap Stated # {}
    /\ cloud' = [d \in Devices |-> IF d \in known \cap Stated THEN state[d] ELSE cloud[d]]
    /\ presumed' = presumed \ Stated
    /\ UNCHANGED <<known, deviceVars, groupVars, forgotten>>

-----------------------------------------------------------------------------
(* Devices come and go *)

(* TYPE_ADD_DEVICE; the app has put the device in the cloud with the same state.
   A device that is known is deleted first, which leaves its groups alone.      *)
AddDevice(d, st) ==
    /\ known' = known \cup {d}
    /\ state' = Set(state, {d}, st)
    /\ offlineCount' = Set(offlineCount, {d}, 0)
    /\ age' = Set(age, {d}, 0)
    /\ cloud' = Set(cloud, {d}, st)
    /\ presumed' = presumed \ {d}
    /\ forgotten' = forgotten \ {d}
    /\ UNCHANGED groupVars

(* The row of a device is gone. *)
Forget(S) ==
    /\ known' = known \ S
    /\ presumed' = presumed \ S
    /\ state' = Set(state, S, "offline")
    /\ offlineCount' = Set(offlineCount, S, 0)
    /\ age' = Set(age, S, 0)

DeleteFromGroupsFaulty(d) ==   \* saves no group that stays
    /\ groups' = {g \in groups : members[g] \ {d} # {}}
    /\ members' = [g \in Groups |-> IF g \in groups' THEN members[g] ELSE {}]
    /\ forgotten' = IF d \in update.devices THEN forgotten \cup {d} ELSE forgotten

(* DeleteDeviceFromGroups: a group without devices is deleted. *)
DeleteFromGroups(d) ==
    /\ groups' = {g \in groups : members[g] \ {d} # {}}
    /\ members' = [g \in Groups |-> IF g \in groups' THEN members[g] \ {d} ELSE {}]
    /\ forgotten' = IF d \in update.devices THEN forgotten \cup {d} ELSE forgotten

(* TYPE_DEL_DEVICE; the app has taken the device out of the cloud. *)
DeleteDevice(d) ==
    /\ d \in known
    /\ Forget({d})
    /\ DeleteFromGroups(d)
    /\ cloud' = Set(cloud, {d}, "absent")
    /\ UNCHANGED update

(* GW_RESPONSE_DEVICE_KICKOUT of a device with an address of its own. *)
KickOut(d) ==
    /\ d \in known \ Infrared
    /\ Forget({d})
    /\ DeleteFromGroups(d)
    /\ cloud' = Set(cloud, {d}, "absent")
    /\ UNCHANGED update

(* GW_RESPONSE_DEVICE_KICKOUT of a hub: the devices behind it go as well.  The rows
   are deleted by their address alone, with those of other gateways.               *)
KickOutHub(d) ==
    LET struck == {e \in known : At[e].unicast = At[d].unicast} IN
    /\ d \in known \cap Infrared
    /\ Forget(struck)
    /\ cloud' = Set(cloud, Fellows(d), "absent")
    /\ forgotten' = forgotten \cup struck
    /\ UNCHANGED groupVars

-----------------------------------------------------------------------------
(* Groups *)

(* TYPE_ADD_GROUP_*, TYPE_UPDATE_GROUP_*: the devices are saved at once, to be
   saved again when all have answered.                                        *)
SaveGroup(g, S) ==
    /\ update = NoUpdate
    /\ S # {} /\ S \subseteq known \cap Offered[g]
    /\ groups' = groups \cup {g}
    /\ members' = [members EXCEPT ![g] = S]
    /\ update' = [group |-> g, devices |-> S]
    /\ UNCHANGED <<known, deviceVars, cloud, historyVars>>

(* The end of the request: the devices that were added, or could not be removed,
   are saved if the group is still there.                                       *)
EndUpdate(S) ==
    /\ update # NoUpdate /\ S \subseteq update.devices
    /\ members' = IF update.group \in groups
                  THEN [members EXCEPT ![update.group] = S] ELSE members
    /\ update' = NoUpdate
    /\ UNCHANGED <<known, deviceVars, cloud, groups, historyVars>>

(* TYPE_DEL_GROUP_* *)
DeleteGroup(g) ==
    /\ g \in groups
    /\ groups' = groups \ {g}
    /\ members' = [members EXCEPT ![g] = {}]
    /\ UNCHANGED <<known, deviceVars, cloud, update, historyVars>>

(* CORE starts again, with its tables. *)
Restart ==
    /\ update # NoUpdate
    /\ update' = NoUpdate
    /\ UNCHANGED <<known, deviceVars, cloud, groups, members, historyVars>>

-----------------------------------------------------------------------------
Item == [place : {At[d] : d \in Devices}, online : BOOLEAN]

Reports ==
    \/ \E d \in Devices, polled, changed \in BOOLEAN : OnOff(d, polled, changed)
    \/ \E d \in Devices : Value(d) \/ ValueByAddr(d) \/ Sensed(d) \/ Forwarded(d)
    \/ \E p \in {At[d] : d \in Devices}, S \in SUBSET Devices : RemoteUsed(p, S)
    \/ \E p \in Item : OnlineState(<<p>>)
    \/ \E p, q \in Item : /\ p.place.gateway = q.place.gateway /\ p.place # q.place
                          /\ OnlineState(<<p, q>>)

Controls ==
    \/ \E d \in Devices : ControlDevice(d)
    \/ \E g \in Groups : ControlGroup(g)
    \/ \E S \in SUBSET Devices : ControlScene(S)
    \/ SyncStatus

Next ==
    \/ Reports \/ Controls
    \/ Period \/ CheckDeviceOffline
    \/ \E d \in Devices : \/ \E st \in {"online", "offline"} : AddDevice(d, st)
                          \/ DeleteDevice(d) \/ KickOut(d) \/ KickOutHub(d)
    \/ \E g \in Groups : DeleteGroup(g) \/ \E S \in SUBSET Devices : SaveGroup(g, S)
    \/ \E S \in SUBSET Devices : EndUpdate(S)
    \/ Restart

Spec == Init /\ [][Next]_vars
FairSpec == Spec /\ WF_vars(Period) /\ WF_vars(CheckDeviceOffline)

-----------------------------------------------------------------------------
(* Properties *)

(* The cloud shows each device that CORE knows as the table has it, but for an
   offline device of which the cloud was told a value since.                   *)
CloudAgrees ==
    \A d \in known : cloud[d] = state[d] \/ (d \in presumed /\ cloud[d] = "online")

(* Every device in a group is known, unless it was removed while an update of its
   group was under way, or its row went with those of a hub.                      *)
NoGhosts ==
    \A g \in groups : members[g] \subseteq known \cup forgotten

(* A watched device from which nothing is heard is shown offline again and again,
   whatever is reported of it, and whatever is controlled.  This is not so of a hub:
   one that is shown online only for a value stays so while offline reports come.   *)
SilentIsShown ==
    \A d \in Watched \ Infrared :
        []<>(d \in known => cloud[d] = "offline" \/ (state[d] = "online" /\ age[d] = 0))
==============================================================================
