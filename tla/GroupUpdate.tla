------------------------------ MODULE GroupUpdate ------------------------------
(***************************************************************************)
(* How the CORE service changes the members of a group (app/main_core.c,   *)
(* app/core_api.c).  A request of the app is saved as it came, sent to the *)
(* BLE service, and entered in g_checkRespList; ResponseWaiting collects   *)
(* the answers of the devices and, when all have answered or the time is   *)
(* up, saves what really happened and publishes it to AWS.                 *)
(*                                                                         *)
(* CORE is single threaded: one handler, or the check of one item of       *)
(* g_checkRespList, is one step.  The BLE service and the mesh behind it   *)
(* are the environment: commands and answers are lost, late and reordered.  *)
(* Time is abstract: an item of g_checkRespList expires.                   *)
(***************************************************************************)
EXTENDS Naturals, Sequences, FiniteSets, SequencesExt

CONSTANTS
    Groups,
    LinkGroups,     \* groups of switch buttons; the others are groups of lights
    Elements,       \* <<device, dpId>>; element 1 has the address of its device
    NoRow,          \* a group that is not in the table, or not in the shadow
    Patient,        \* the app waits for the end of a request of a group
    MaxRequests,    \* bound on the requests of a behaviour
    MaxTtl,         \* bound on those of them that set a TTL
    MaxRestarts,    \* bound on the restarts of CORE
    MaxFaults       \* bound on refusals, timeouts and lost answers

InGroup  == "in"          \* "state" 0 of a member
Failed   == "failed"      \* -1, or the status byte of an element that refused
Adding   == "adding"      \* -2, or no "state" at all
Removing == "removing"    \* -3
Out      == "out"         \* not in the list of members
States   == {InGroup, Failed, Adding, Removing, Out}

Lists    == [Elements -> States]
Statuses == {"ok", "failed", "waiting"}     \* 0, -1 or more than 0, -2

Device(e) == e[1]
Addr(d) == <<d, 1>>       \* the address of a device is that of its element 1

ASSUME ElementsAssumption == /\ IsFiniteSet(Elements)
                             /\ \A e \in Elements : Addr(Device(e)) \in Elements
ASSUME PairsAssumption    == \A e \in Elements : e = <<Device(e), e[2]>>
ASSUME GroupsAssumption   == /\ Groups # {} /\ LinkGroups \subseteq Groups
                             /\ NoRow \notin Lists
ASSUME PatientAssumption  == Patient \in BOOLEAN
ASSUME BoundsAssumption   == /\ MaxRequests \in Nat /\ MaxTtl \in Nat
                             /\ MaxRestarts \in Nat /\ MaxFaults \in Nat

Members(g) == IF g \in LinkGroups THEN Elements ELSE {e \in Elements : e[2] = 1}

VARIABLES
    saved,          \* group_inf.devices of each group
    respList,       \* g_checkRespList
    tobe,           \* g_groupTobeUpdated
    scan,           \* ResponseWaiting: its i, respCount (0 outside it) and reqId
    undefined,      \* freed memory was used: nothing is said of what follows
    shadow,         \* the groups in the cloud
    mesh,           \* the elements that really are subscribed to each group
    commands,       \* commands that BLE has not finished with
    answers,        \* answers on their way to CORE
    \* History:
    requests, ttls, restarts, faults,
    muddled,        \* groups requested while an earlier request was under way
    interrupted     \* groups whose request was cut off by a restart of CORE

coreVars == <<respList, tobe, scan, undefined>>
meshVars == <<mesh, commands, answers>>
histVars == <<requests, ttls, restarts, faults, muddled, interrupted>>
vars == <<saved, respList, tobe, scan, undefined, shadow, mesh, commands,
          answers, requests, ttls, restarts, faults, muddled, interrupted>>

Ops       == {"add", "update", "ttl"}
Item      == [op : Ops, group : Groups, entries : Seq([elem : Elements, status : Statuses]),
              expired : BOOLEAN]
Command   == [op : {"add", "remove", "ttl"}, elem : Elements, group : Groups,
              id : 1..MaxRequests]
AnswerMsg == [kind : {"group", "ttl"}, addr : Elements, group : Groups,
              status : {"ok", "failed"}, id : 1..MaxRequests]
ToBe      == [memory : {"none", "live", "freed"}, group : Groups, devices : Lists]

TypeOK ==
    /\ saved \in [Groups -> Lists \cup {NoRow}]
    /\ respList \in Seq(Item)
    /\ tobe \in ToBe
    /\ scan \in [i : Nat, n : Nat, reqId : Ops]
    /\ undefined \in BOOLEAN
    /\ shadow \in [Groups -> Lists \cup {NoRow}]
    /\ mesh \in [Groups -> SUBSET Elements]
    /\ commands \subseteq Command
    /\ answers \subseteq AnswerMsg
    /\ requests \in 0..MaxRequests
    /\ ttls \in 0..MaxTtl
    /\ restarts \in 0..MaxRestarts
    /\ faults \in 0..MaxFaults
    /\ muddled \subseteq Groups
    /\ interrupted \subseteq Groups

Listed(list, states) == {e \in Elements : list[e] \in states}

Empty == [e \in Elements |-> Out]
SomeGroup == CHOOSE g \in Groups : TRUE
NoScan == [i |-> 1, n |-> 0, reqId |-> "ttl"]
NoToBe == [memory |-> "none", group |-> SomeGroup, devices |-> Empty]

(* CORE starts with the groups it finds in the database, some of them there
   already and in agreement with the mesh.                                   *)
Init ==
    /\ saved \in [Groups -> {NoRow} \cup [Elements -> {InGroup, Out}]]
    /\ \A g \in Groups : saved[g] # NoRow =>
          Listed(saved[g], {InGroup}) \in (SUBSET Members(g)) \ {{}}
    /\ respList = <<>>
    /\ tobe = NoToBe
    /\ scan = NoScan
    /\ undefined = FALSE
    /\ shadow = saved
    /\ mesh = [g \in Groups |-> IF saved[g] = NoRow THEN {} ELSE Listed(saved[g], {InGroup})]
    /\ commands = {}
    /\ answers = {}
    /\ requests = 0
    /\ ttls = 0
    /\ restarts = 0
    /\ faults = 0
    /\ muddled = {}
    /\ interrupted = {}

-------------------------------------------------------------------------------
(* g_checkRespList (core_api.c). *)

IsItem(i, op, g) == respList[i].op = op /\ (op = "ttl" \/ respList[i].group = g)

requestIsInRespList(op, g) == \E i \in DOMAIN respList : IsItem(i, op, g)

Entries(s) == [k \in DOMAIN s |-> [elem |-> s[k], status |-> "waiting"]]

(* addDeviceToRespList for each element of s: they join the item of an earlier
   request of the same type for the same group.                              *)
Register(op, g, s) ==
    IF s = <<>> THEN respList
    ELSE IF requestIsInRespList(op, g)
    THEN [i \in DOMAIN respList |->
            IF IsItem(i, op, g)
            THEN [respList[i] EXCEPT !.entries = @ \o Entries(s), !.expired = FALSE]
            ELSE respList[i]]
    ELSE Append(respList, [op |-> op, group |-> g, entries |-> Entries(s), expired |-> FALSE])

WithStatusFaulty(entries, a, status) ==      \* whatever the address
    [k \in DOMAIN entries |-> [entries[k] EXCEPT !.status = status]]

WithStatus(entries, a, status) ==
    [k \in DOMAIN entries |->
        IF entries[k].elem = a THEN [entries[k] EXCEPT !.status = status] ELSE entries[k]]

updateDeviceRespStatus(op, g, a, status) ==
    respList' = [i \in DOMAIN respList |->
        IF IsItem(i, op, g)
        THEN [respList[i] EXCEPT !.entries = WithStatus(@, a, status)]
        ELSE respList[i]]

-------------------------------------------------------------------------------
(* Requests of the app.  It writes the group to the shadow itself, its members
   in any order; CORE then takes the request from its queue.                 *)

Idle == scan.n = 0 /\ ~undefined

Waiting(g) == requestIsInRespList("add", g) \/ requestIsInRespList("update", g)

(* A patient app waits for the "done" notification of a request that changes a
   group before the next such request, and asks for nothing else meanwhile.  *)
AppIsReady ==
    /\ requests < MaxRequests
    /\ Patient => ~\E g \in Groups : Waiting(g)

(* History: g is requested while commands or answers of it are under way. *)
NoteRequest(g) ==
    /\ requests' = requests + 1
    /\ muddled' = IF \E c \in commands \cup answers : c.group = g THEN muddled \cup {g}
                  ELSE muddled

Commands(op, g, S) == [op : {op}, elem : S, group : {g}, id : {requests + 1}]

AddGroup(g) ==
    /\ Idle /\ AppIsReady
    /\ saved[g] = NoRow
    /\ \E S \in (SUBSET Members(g)) \ {{}} :
          LET list == [e \in Elements |-> IF e \in S THEN Adding ELSE Out] IN
          /\ saved' = [saved EXCEPT ![g] = list]
          /\ shadow' = [shadow EXCEPT ![g] = list]
          /\ tobe' = [memory |-> "live", group |-> g, devices |-> list]
          /\ \E s \in SetToSeqs(S) : respList' = Register("add", g, s)
          /\ commands' = commands \cup Commands("add", g, S)
    /\ NoteRequest(g)
    /\ UNCHANGED <<scan, undefined, mesh, answers, ttls, restarts, faults, interrupted>>

(* The lists the app can make of the one in the shadow: it marks members to be
   removed, elements to be added, and may leave a failed member as it is.    *)
Edit(s) == IF s = InGroup THEN {InGroup, Removing}
           ELSE IF s = Out THEN {Out, Adding} ELSE {s, Adding, Removing}

Edits(g) == {list \in Lists : \A e \in Elements :
                IF e \in Members(g) THEN list[e] \in Edit(shadow[g][e]) ELSE list[e] = Out}

SavedDevicesFaulty(g, list) == saved      \* forgets to save

SavedDevices(g, list) == IF saved[g] = NoRow THEN saved ELSE [saved EXCEPT ![g] = list]

UpdateGroup(g) ==
    /\ Idle /\ AppIsReady
    /\ shadow[g] # NoRow
    /\ \E list \in Edits(g) :
         LET toAdd == Listed(list, {Adding})
             toRemove == Listed(list, {Removing}) IN
            /\ tobe' = [memory |-> "live", group |-> g, devices |-> list]
            /\ commands' = commands \cup Commands("remove", g, toRemove)
                                    \cup Commands("add", g, toAdd)
            /\ \E s \in SetToSeqs(toAdd), t \in SetToSeqs(toRemove) :
                  respList' = Register("update", g, s \o t)
            /\ saved' = SavedDevices(g, list)
            /\ shadow' = [shadow EXCEPT ![g] = list]
    /\ NoteRequest(g)
    /\ UNCHANGED <<scan, undefined, mesh, answers, ttls, restarts, faults, interrupted>>

DeleteGroup(g) ==
    /\ Idle /\ AppIsReady
    /\ shadow[g] # NoRow
    /\ shadow' = [shadow EXCEPT ![g] = NoRow]
    /\ commands' = IF saved[g] = NoRow THEN commands
                   ELSE commands \cup Commands("remove", g, Listed(saved[g], States \ {Out}))
    /\ saved' = [saved EXCEPT ![g] = NoRow]
    /\ NoteRequest(g)
    /\ interrupted' = interrupted \ {g}
    /\ UNCHANGED <<coreVars, mesh, answers, ttls, restarts, faults>>

(* TYPE_SET_GROUP_TTL: an item that counts answers, but saves nothing. *)
SetGroupTtl(g) ==
    /\ Idle /\ AppIsReady
    /\ ttls < MaxTtl
    /\ saved[g] # NoRow
    /\ LET addrs == {Addr(Device(e)) : e \in Listed(saved[g], States \ {Out})} IN
          /\ \E s \in SetToSeqs(addrs) : respList' = Register("ttl", g, s)
          /\ commands' = commands \cup Commands("ttl", g, addrs)
    /\ NoteRequest(g)
    /\ ttls' = ttls + 1
    /\ UNCHANGED <<saved, tobe, scan, undefined, shadow, mesh, answers, restarts,
                   faults, interrupted>>

-------------------------------------------------------------------------------
(* The BLE service and the mesh. *)

AnswerTo(c, a, status) ==
    [kind |-> IF c.op = "ttl" THEN "ttl" ELSE "group", addr |-> a, group |-> c.group,
     status |-> status, id |-> c.id]

Obeyed(c) ==
    IF c.op = "add" THEN [mesh EXCEPT ![c.group] = @ \cup {c.elem}]
    ELSE IF c.op = "remove" THEN [mesh EXCEPT ![c.group] = @ \ {c.elem}] ELSE mesh

Fault == faults < MaxFaults /\ faults' = faults + 1

Execute(c) ==
    /\ mesh' = Obeyed(c)
    /\ answers' = answers \cup {AnswerTo(c, c.elem, "ok")}
    /\ commands' = commands \ {c}
    /\ UNCHANGED <<saved, coreVars, shadow, histVars>>

Refuse(c) ==
    /\ Fault
    /\ c.op # "ttl"
    /\ answers' = answers \cup {AnswerTo(c, c.elem, "failed")}
    /\ commands' = commands \ {c}
    /\ UNCHANGED <<saved, coreVars, shadow, mesh, requests, ttls, restarts, muddled, interrupted>>

(* BLE_SendToGateway gives up: the TIMEOUT carries the address of the frame,
   that is of the device.  The element may have obeyed all the same, and its
   answer may still come.                                                    *)
TimeOut(c) ==
    /\ Fault
    /\ commands' = commands \ {c}
    /\ LET timeout == IF c.op = "ttl" THEN {}
                      ELSE {AnswerTo(c, Addr(Device(c.elem)), "failed")} IN
       \/ mesh' \in {mesh, Obeyed(c)} /\ answers' = answers \cup timeout
       \/ mesh' = Obeyed(c) /\ answers' = answers \cup timeout \cup {AnswerTo(c, c.elem, "ok")}
    /\ UNCHANGED <<saved, coreVars, shadow, requests, ttls, restarts, muddled, interrupted>>

LoseAnswer(m) ==
    /\ Fault
    /\ answers' = answers \ {m}
    /\ UNCHANGED <<saved, coreVars, shadow, mesh, commands, requests, ttls, restarts, muddled,
                   interrupted>>

-------------------------------------------------------------------------------
(* CORE handles an answer.  It names the group and the element, not the request
   it answers.                                                               *)
HandleAnswer(m) ==
    /\ Idle
    /\ IF m.kind = "ttl" THEN updateDeviceRespStatus("ttl", m.group, m.addr, "ok")
       ELSE IF requestIsInRespList("add", m.group)
       THEN updateDeviceRespStatus("add", m.group, m.addr, m.status)
       ELSE updateDeviceRespStatus("update", m.group, m.addr, m.status)
    /\ answers' = answers \ {m}
    /\ UNCHANGED <<saved, tobe, scan, undefined, shadow, mesh, commands, histVars>>

(* ResponseWaiting: the number of items is read once. *)
StartScan ==
    /\ Idle
    /\ respList # <<>>
    /\ scan' = [NoScan EXCEPT !.n = Len(respList)]
    /\ UNCHANGED <<saved, respList, tobe, undefined, shadow, meshVars, histVars>>

(* The status of the first entry that belongs to the device of e. *)
StatusOfFaulty(entries, e) ==       \* no verdict on a missing answer
    LET mine == {k \in DOMAIN entries : Device(entries[k].elem) = Device(e)} IN
    IF \E k \in mine : (\A j \in mine : k <= j) /\ entries[k].status = "ok"
    THEN InGroup ELSE "waiting"

StatusOf(entries, e) ==
    LET mine == {k \in DOMAIN entries : Device(entries[k].elem) = Device(e)} IN
    IF \E k \in mine : (\A j \in mine : k <= j) /\ entries[k].status = "ok"
    THEN InGroup ELSE Failed

StateAfterFaulty(entries, e, s) ==      \* removes whatever the answer was
    IF s = InGroup THEN InGroup
    ELSE IF s = Adding THEN StatusOf(entries, e) ELSE Out

StateAfter(entries, e, s) ==
    IF s = InGroup THEN InGroup
    ELSE IF s = Adding THEN StatusOf(entries, e)
    ELSE IF s = Removing /\ StatusOf(entries, e) = Failed THEN Failed
    ELSE Out

UpdatedDevicesFaulty(entries, list) == list     \* as the app sent it
UpdatedDevices(entries, list) == [e \in Elements |-> StateAfter(entries, e, list[e])]

(* "Save state of devices to AWS": publish and save the list of the group that
   g_groupTobeUpdated holds, then free it.                                   *)
FinishGroup(entries) ==
    IF tobe.memory = "live"
    THEN LET list == UpdatedDevices(entries, tobe.devices) IN
         /\ shadow' = [shadow EXCEPT ![tobe.group] = list]
         /\ saved' = SavedDevices(tobe.group, list)
         /\ tobe' = [NoToBe EXCEPT !.memory = "freed"]
         /\ interrupted' = interrupted \ {tobe.group}
         /\ undefined' = undefined
    ELSE /\ undefined' = TRUE
         /\ UNCHANGED <<shadow, saved, tobe, interrupted>>

AllAnswered(entries) == \A k \in DOMAIN entries : entries[k].status # "waiting"

CheckDoneFaulty(item) == AllAnswered(item.entries)       \* no timeout
CheckDone(item) == AllAnswered(item.entries) \/ item.expired

NextIndex(op) == scan' = IF scan.i = scan.n THEN NoScan
                         ELSE [i |-> scan.i + 1, n |-> scan.n, reqId |-> op]

Scanning == scan.n > 0 /\ ~undefined

(* Not all have answered yet. *)
PassItem ==
    /\ Scanning
    /\ scan.i <= Len(respList)
    /\ ~CheckDone(respList[scan.i])
    /\ NextIndex(respList[scan.i].op)
    /\ UNCHANGED <<saved, respList, tobe, undefined, shadow, meshVars, histVars>>

RemoveIndexFaulty(i) == respList' = respList        \* leaves the item in the list
RemoveIndex(i) == respList' = RemoveAt(respList, i)

(* JArr_RemoveIndex moves the items behind i: the next one is not checked in
   this pass, and the last index of the pass is one too many.                *)
FinishItem ==
    /\ Scanning
    /\ scan.i <= Len(respList)
    /\ LET item == respList[scan.i] IN
       /\ CheckDone(item)
       /\ NextIndex(item.op)
       /\ IF item.op = "ttl" THEN UNCHANGED <<shadow, saved, tobe, interrupted, undefined>>
                             ELSE FinishGroup(item.entries)
    /\ RemoveIndex(scan.i)
    /\ UNCHANGED <<meshVars, requests, ttls, restarts, faults, muddled>>

(* There is no item i any more: no devices, no time of creation, so the check
   is done, and reqId still holds what the item before it left there.        *)
FinishNoItem ==
    /\ Scanning
    /\ scan.i > Len(respList)
    /\ IF scan.reqId = "ttl" THEN UNCHANGED <<shadow, saved, tobe, interrupted, undefined>>
                           ELSE FinishGroup(<<>>)
    /\ NextIndex(scan.reqId)
    /\ UNCHANGED <<respList, meshVars, requests, ttls, restarts, faults, muddled>>

(* deviceCount * (GWCFG_TIMEOUT_SCENEGROUP + 500) ms went by. *)
Expire ==
    /\ \E i \in DOMAIN respList :
          /\ ~respList[i].expired
          /\ respList' = [respList EXCEPT ![i].expired = TRUE]
    /\ ~undefined
    /\ UNCHANGED <<saved, tobe, scan, undefined, shadow, meshVars, histVars>>

(* The service is started again (Restart=always); only the database lasts. *)
Restart ==
    /\ restarts < MaxRestarts
    /\ restarts' = restarts + 1
    /\ interrupted' = interrupted \cup
          {respList[i].group : i \in {j \in DOMAIN respList : respList[j].op # "ttl"}}
    /\ respList' = <<>>
    /\ tobe' = NoToBe
    /\ scan' = NoScan
    /\ undefined' = FALSE
    /\ UNCHANGED <<saved, shadow, meshVars, requests, ttls, faults, muddled>>

-------------------------------------------------------------------------------
Request == \E g \in Groups : AddGroup(g) \/ UpdateGroup(g) \/ DeleteGroup(g) \/ SetGroupTtl(g)

Environment == \/ \E c \in commands : Execute(c) \/ Refuse(c) \/ TimeOut(c)
               \/ \E m \in answers : LoseAnswer(m)

ResponseWaiting == StartScan \/ PassItem \/ FinishItem \/ FinishNoItem

Next == \/ Request
        \/ Environment
        \/ \E m \in answers : HandleAnswer(m)
        \/ ResponseWaiting
        \/ Expire
        \/ Restart

Spec == Init /\ [][Next]_vars

(* The main loop calls ResponseWaiting on every pass and the clock moves. *)
FairSpec == Spec /\ WF_vars(ResponseWaiting) /\ WF_vars(Expire)

-------------------------------------------------------------------------------
(* Properties. *)

(* Freed memory is never used: ResponseWaiting frees g_groupTobeUpdated and
   leaves the pointer as it is (main_core.c:454).                            *)
NoUseOfFreed == ~undefined

(* A group whose request is over has no member left that is still being added
   or removed, unless a restart of CORE cut the request off: every member got
   an answer or a verdict.                                                   *)
SettledGroups ==
    \A g \in Groups \ interrupted :
        ~undefined /\ ~Waiting(g) /\ saved[g] # NoRow
            => Listed(saved[g], {Adding, Removing}) = {}

(* The database and the cloud have the same members of every group. *)
PublishedIsSaved == ~undefined => shadow = saved

(* An element listed as a member is one in the mesh. *)
MembersAreSubscribed(gs) ==
    \A g \in gs : saved[g] # NoRow => Listed(saved[g], {InGroup}) \subseteq mesh[g]

(* An element dropped from the list after its removal has left the mesh. *)
DropsWhatLeft(g) ==
    Waiting(g) /\ ~Waiting(g)' /\ saved[g] # NoRow /\ saved'[g] # NoRow
       => \A e \in Elements :
             saved[g][e] = Removing /\ saved'[g][e] = Out => e \notin mesh[g]

(* Groups of lights, each requested only when nothing of an earlier request was
   under way: the members CORE lists are subscribed, and the ones it dropped
   after a removal are not.                                                  *)
QuietMembers == MembersAreSubscribed({g \in Groups \ LinkGroups : g \notin muddled})
QuietRemovals == [][\A g \in Groups \ LinkGroups : g \notin muddled => DropsWhatLeft(g)]_vars

(* "Find actual status of this device" (main_core.c:416): what CORE lists as a
   member of a group of buttons is a member.                                 *)
ButtonsAreSubscribed == MembersAreSubscribed({g \in LinkGroups : g \notin muddled})

(* "Used to save the group info when user want to add/edit a group, then we will
   push the updated group to aws" (main_core.c:50): the end of a request changes
   the group that was requested.                                             *)
PushesItsGroup ==
    [][\A g \in Groups : FinishItem /\ shadow'[g] # shadow[g]
          => respList[scan.i].group = g]_vars

(* Every request comes to its end, whatever the devices do. *)
EveryRequestEnds == respList # <<>> ~> respList = <<>>
=============================================================================
