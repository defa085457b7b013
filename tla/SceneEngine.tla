----------------------------- MODULE SceneEngine -----------------------------
(*****************************************************************************)
(* The scenes that CORE runs itself (isLocal = 0): app/main_core.c           *)
(* ExecuteScene, checkSceneForDevice, checkSceneCondition and the requests   *)
(* about scenes, and app/database.c Db_LoadSceneToRam.                       *)
(*                                                                           *)
(* CORE has one thread.  Each turn of its main loop is a pass of             *)
(* ExecuteScene over the list of scenes and then at most one message.        *)
(*****************************************************************************)
EXTENDS Integers, Sequences, FiniteSets

CONSTANTS Scenes, Devices,
          Values,           \* values of a device
          Plans,            \* lists of actions a scene can have
          Windows,          \* effective times a scene can have
          Library,          \* the scenes the app may write
          NoScene,          \* no such scene
          Absent,           \* a row without preconditions
          DayLength,        \* minutes of a day
          WeekLength,       \* days of a week
          OverDate,         \* the minute from which a used date could come again
          MaxClock, MaxEdits, MaxReports, MaxRestarts

Kinds == {"control", "scene", "delay"}

(* A scene is disabled, enabled or run by the states 0, 1 and 2 of an action. *)
Action == [kind : Kinds, entity : Scenes \cup Devices \cup {Absent}, state : 0..2]
Minutes == 0..(DayLength - 1)
Days    == 0..(WeekLength - 1)
Window  == [from : Minutes, to : Minutes, days : SUBSET Days]
NoWindow == [from |-> 0, to |-> 0, days |-> {}]

DeviceCondition == [kind : {"device"}, dev : Devices, expr : SUBSET {"<", "=", ">"}, val : Values]
(* "days" is empty in a schedule for one date; "over" says that its date was
   moved: to 3000000000 in the list, which is in 2065, and to the year 3000 in
   the table, of which schMinutes (32 bits) keeps a time in April 2047 when the
   list is read again.                                                       *)
Schedule  == [kind : {"schedule"}, days : SUBSET Days, time : Nat, over : BOOLEAN]
Condition == DeviceCondition \cup Schedule
SceneTypes == {"manual", "one", "all"}

(* A row of scene_inf, and an entry of g_sceneList: "reached" are the conditions
   with timeReached, "next" is runningActionIndex + 1, and "read", for the
   properties, the minute in which it was read.                              *)
Row   == [enabled : BOOLEAN, type : SceneTypes, window : Windows \cup {Absent},
          actions : Plans, conds : SUBSET Condition]
Entry == [enabled : BOOLEAN, type : SceneTypes, window : Windows,
          actions : Plans, conds : SUBSET Condition, reached : SUBSET Condition, next : Nat,
          read : Nat]

(* DeleteDeviceFromScenes: what is left of a plan without the things in "gone". *)
Without(plan, gone) ==
    LET left[k \in 0..Len(plan)] ==                    \* newActions after k actions
            IF k = 0 THEN <<>>
            ELSE IF plan[k].entity \in gone THEN left[k - 1] ELSE Append(left[k - 1], plan[k])
    IN  left[Len(plan)]

ASSUME NamesAssumption ==
    /\ Scenes \cap Devices = {}
    /\ NoScene \notin Row \cup Entry
    /\ Absent \notin Windows \cup Scenes \cup Devices

ASSUME PlansAssumption ==
    /\ Plans \subseteq Seq(Action) \ {<<>>}
    /\ \A p \in Plans, gone \in SUBSET (Scenes \cup Devices) :
          Without(p, gone) \in Plans \cup {<<>>}

ASSUME WindowsAssumption == Windows \subseteq Window /\ NoWindow \in Windows

(* The behaviours end before a used date could come again. *)
ASSUME HorizonAssumption == OverDate \in Nat /\ MaxClock < OverDate

(* No app writes a date that is moved already. *)
ASSUME LibraryAssumption ==
    /\ Library \in [Scenes -> SUBSET Row] /\ Values \subseteq Nat
    /\ \A s \in Scenes : \A r \in Library[s] :
          IsFiniteSet(r.conds) /\ \A c \in r.conds : c.kind = "schedule" => ~c.over

ASSUME BoundsAssumption ==
    /\ DayLength \in Nat \ {0} /\ WeekLength \in Nat \ {0}
    /\ MaxClock \in Nat /\ MaxEdits \in Nat /\ MaxReports \in Nat /\ MaxRestarts \in Nat

VARIABLES
    rows,       \* table scene_inf
    ram,        \* g_sceneList, by scene
    dps,        \* table devices: the value of each device
    now,        \* the clock, in minutes
    todo,       \* scenes this pass has not come to
    due,        \* schedules of the scene the pass is at, yet to be checked
    edits, reports, restarts,
    log,        \* history: what the last run of each scene has performed
    fired,      \* history: how often schedules for one date fired, by scene
    started,    \* history: the scenes that were started in this minute
    strays      \* history: the devices whose rows went with a hub of another gateway

passVars  == <<todo, due>>
boundVars == <<edits, reports, restarts>>
histVars  == <<log, fired, started, strays>>
vars == <<rows, ram, dps, now, passVars, boundVars, histVars>>

NoDp == -1                      \* the device is not in the database
Listed == {s \in Scenes : ram[s] # NoScene}

TypeOK ==
    /\ rows \in [Scenes -> Row \cup {NoScene}]
    /\ ram \in [Scenes -> Entry \cup {NoScene}]
    /\ dps \in [Devices -> Values \cup {NoDp}]
    /\ now \in 0..MaxClock
    /\ todo \subseteq Listed
    /\ due \subseteq Listed \X Schedule
    /\ edits \in 0..MaxEdits /\ reports \in 0..MaxReports /\ restarts \in 0..MaxRestarts
    /\ log \in [Scenes -> Seq(Action)]
    /\ fired \in [Scenes -> Nat]
    /\ started \subseteq Scenes /\ strays \subseteq Devices

-----------------------------------------------------------------------------
(* Reading the table into RAM.                                               *)

(* The memory of an entry is reused and its effective time is written only
   when the row has one: otherwise it is whatever was there.                 *)
Memory(r) == IF r.window = Absent THEN Windows ELSE {r.window}

Loaded(r, window) ==
    [enabled |-> r.enabled, type |-> IF r.conds = {} THEN "manual" ELSE r.type,
     window |-> window, actions |-> r.actions, conds |-> r.conds, reached |-> {}, next |-> 0,
     read |-> now]

Db_LoadSceneToRam(rs) ==
    \E window \in [Scenes -> Windows] :
        /\ \A s \in Scenes : rs[s] # NoScene => window[s] \in Memory(rs[s])
        /\ \A s \in Scenes : rs[s] = NoScene => window[s] = NoWindow
        /\ ram' = [s \in Scenes |-> IF rs[s] = NoScene THEN NoScene
                                                       ELSE Loaded(rs[s], window[s])]

-----------------------------------------------------------------------------
(* When a scene runs.                                                        *)

MinuteAt(m) == m % DayLength
DayAt(m)    == (m \div DayLength) % WeekLength

Minute    == MinuteAt(now)
Weekday   == DayAt(now)
Yesterday == (Weekday + WeekLength - 1) % WeekLength

EffectiveAt(w) ==
    \/ w.from = 0 /\ w.to = 0
    \/ /\ w.from < w.to
       /\ Weekday \in w.days /\ w.from <= Minute /\ Minute <= w.to
    \/ /\ w.from >= w.to
       /\ \/ Weekday \in w.days /\ w.from <= Minute
          \/ Yesterday \in w.days /\ Minute <= w.to

checkScenePreconditionFaulty(e) == EffectiveAt(e.window)     \* also runs a disabled scene
checkScenePrecondition(e) == e.enabled /\ EffectiveAt(e.window)

Satisfied(c, v) == \/ ">" \in c.expr /\ v > c.val
                   \/ "<" \in c.expr /\ v < c.val
                   \/ "=" \in c.expr /\ v = c.val

(* A scene with all its conditions compares values for equality, whatever
   their expression is.                                                      *)
checkSceneCondition(e, values) ==
    \/ e.type = "manual"
    \/ /\ checkScenePrecondition(e)
       /\ e.type = "one"
       /\ \E c \in e.conds : \/ c.kind = "schedule" /\ c \in e.reached
                             \/ c.kind = "device" /\ values[c.dev] # NoDp /\ Satisfied(c, values[c.dev])
    \/ /\ checkScenePrecondition(e)
       /\ e.type = "all"
       /\ \A c \in e.conds : \/ c.kind = "schedule" /\ c \in e.reached
                             \/ c.kind = "device" /\ values[c.dev] = c.val

markSceneToRunFaulty(e) ==                        \* a run that is under way goes on
    [e EXCEPT !.next = IF @ = 0 THEN 1 ELSE @]
markSceneToRun(e) == [e EXCEPT !.next = 1]

(* A report of device d: does it run the scene? *)
RunBy(e, d, values) ==
    \E c \in e.conds :
        /\ c.kind = "device" /\ c.dev = d /\ Satisfied(c, values[d])
        /\ IF e.type = "one" THEN checkScenePrecondition(e) ELSE checkSceneCondition(e, values)

-----------------------------------------------------------------------------
(* ExecuteScene.                                                             *)

BeginPass ==
    /\ todo = {} /\ due = {}
    /\ todo' = Listed
    /\ UNCHANGED <<rows, ram, dps, now, due, boundVars, histVars>>

(* The pass comes to s; once its action is done, its schedules are checked. *)
Visit(s) ==
    /\ due = {} /\ s \in todo
    /\ todo' = todo \ {s}
    /\ due' = {s} \X {c \in ram[s].conds : c.kind = "schedule"}

Running(s) == ram[s] # NoScene /\ ram[s].next > 0
Current(s) == ram[s].actions[ram[s].next]

Advance(e) == [e EXCEPT !.next = IF e.next >= Len(e.actions) THEN 0 ELSE e.next + 1]

PassIdle(s) ==
    /\ Visit(s) /\ ~Running(s)
    /\ UNCHANGED <<rows, ram, dps, now, boundVars, histVars>>

(* A device, a group, or a scene of another service. *)
Control(s) ==
    /\ Visit(s) /\ Running(s) /\ Current(s).kind = "control"
    /\ ram' = [ram EXCEPT ![s] = Advance(@)]
    /\ log' = [log EXCEPT ![s] = Append(@, Current(s))]
    /\ UNCHANGED <<rows, dps, now, boundVars, fired, started, strays>>

Db_EnableSceneFaulty(t, on) == UNCHANGED rows          \* only the list is told
(* The scene t in the table; the caller writes it in the list. *)
Db_EnableScene(t, on) == rows' = IF rows[t] = NoScene THEN rows ELSE [rows EXCEPT ![t].enabled = on]

(* An action about the scene t, which may be gone, or be s itself. *)
ControlOther(s) ==
    /\ Visit(s) /\ Running(s) /\ Current(s).kind = "scene"
    /\ LET t == Current(s).entity
           state == Current(s).state
           listed == t \in Listed
           others == IF ~listed THEN ram
                     ELSE IF state = 2 THEN [ram EXCEPT ![t] = markSceneToRun(@)]
                     ELSE [ram EXCEPT ![t].enabled = (state = 1)]
       IN /\ IF listed /\ state # 2 THEN Db_EnableScene(t, state = 1) ELSE UNCHANGED rows
          /\ ram' = [others EXCEPT ![s] = Advance(@)]
          /\ log' = [x \in Scenes |-> IF x = s THEN Append(log[s], Current(s))
                                      ELSE IF listed /\ x = t /\ state = 2 THEN <<>> ELSE log[x]]
          /\ started' = IF listed /\ state = 2 THEN started \cup {t} ELSE started
    /\ UNCHANGED <<dps, now, boundVars, fired, strays>>

(* Whether the time of a delay is over is left open. *)
PassDelay(s) ==
    /\ Visit(s) /\ Running(s) /\ Current(s).kind = "delay"
    /\ UNCHANGED <<rows, ram, dps, now, boundVars, histVars>>

EndDelayFaulty(s) ==                                      \* the delay starts over
    /\ Visit(s) /\ Running(s) /\ Current(s).kind = "delay"
    /\ UNCHANGED <<rows, ram, dps, now, boundVars, histVars>>
EndDelay(s) ==
    /\ Visit(s) /\ Running(s) /\ Current(s).kind = "delay"
    /\ ram' = [ram EXCEPT ![s] = Advance(@)]
    /\ log' = [log EXCEPT ![s] = Append(@, Current(s))]
    /\ UNCHANGED <<rows, dps, now, boundVars, fired, started, strays>>

(* The scenes S are started. *)
Record(S) == /\ log' = [s \in Scenes |-> IF s \in S THEN <<>> ELSE log[s]]
             /\ started' = started \cup S
             /\ UNCHANGED strays

IsDate(c) == c.days = {}
DueAt(c, m) == IF IsDate(c) THEN IF c.over THEN OverDate <= m ELSE m = c.time
               ELSE DayAt(m) \in c.days /\ MinuteAt(m) = c.time
IsDue(c) == DueAt(c, now)

ExpiredFaulty(conds, c) == conds                                \* the date is kept
Expired(conds, c) == (conds \ {c}) \cup {[c EXCEPT !.over = TRUE]}

(* A date has come: it is moved out of reach, in the list and in the table,
   and the other schedules wait for the next pass.                           *)
FireDate(s, c) ==
    /\ <<s, c>> \in due /\ IsDate(c) /\ IsDue(c)
    /\ LET e == [ram[s] EXCEPT !.reached = @ \cup {c}]
           starts == IF e.type = "one" THEN checkScenePrecondition(e)
                                       ELSE checkSceneCondition(e, dps)
           m == IF starts THEN markSceneToRun(ram[s]) ELSE ram[s]
       IN /\ ram' = [ram EXCEPT ![s] = [m EXCEPT !.conds = Expired(@, c), !.reached = @ \ {c}]]
          /\ Record(IF starts THEN {s} ELSE {})
    /\ rows' = [rows EXCEPT ![s].conds = Expired(@, c)]      \* Db_SaveSceneCondDate
    /\ fired' = [fired EXCEPT ![s] = @ + 1]
    /\ due' = {}
    /\ UNCHANGED <<dps, now, todo, boundVars>>

(* The time of day has come.  timeReached stays set until the list is read
   again: it would be reset past this minute, but in the branch that is only
   taken in this minute.                                                     *)
FireDaily(s, c) ==
    /\ <<s, c>> \in due /\ ~IsDate(c) /\ IsDue(c) /\ c \notin ram[s].reached
    /\ LET e == [ram[s] EXCEPT !.reached = @ \cup {c}]
           starts == checkSceneCondition(e, dps)
       IN /\ ram' = [ram EXCEPT ![s] = IF starts THEN markSceneToRun(e) ELSE e]
          /\ Record(IF starts THEN {s} ELSE {})
    /\ due' = due \ {<<s, c>>}
    /\ UNCHANGED <<rows, dps, now, todo, boundVars, fired>>

PassSchedule(s, c) ==
    /\ <<s, c>> \in due
    /\ IsDue(c) => ~IsDate(c) /\ c \in ram[s].reached
    /\ due' = due \ {<<s, c>>}
    /\ UNCHANGED <<rows, ram, dps, now, todo, boundVars, histVars>>

ExecuteScene ==
    \/ BeginPass
    \/ \E s \in todo : \/ PassIdle(s) \/ Control(s) \/ ControlOther(s)
                       \/ PassDelay(s) \/ EndDelay(s)
    \/ \E p \in due : FireDate(p[1], p[2]) \/ FireDaily(p[1], p[2]) \/ PassSchedule(p[1], p[2])

-----------------------------------------------------------------------------
(* Messages, between two passes.                                             *)

ListeningFaulty == due = {}                         \* also within a pass
Listening == todo = {} /\ due = {}

DeviceReport(d, v) ==
    /\ Listening /\ dps[d] # NoDp
    /\ reports < MaxReports /\ reports' = reports + 1
    /\ dps' = [dps EXCEPT ![d] = v]
    /\ LET S == {s \in Listed : RunBy(ram[s], d, dps')}
       IN /\ ram' = [s \in Scenes |-> IF s \in S THEN markSceneToRun(ram[s]) ELSE ram[s]]
          /\ Record(S)
    /\ UNCHANGED <<rows, now, passVars, edits, restarts, fired>>

(* The answer to a status request (opcode 0x8201) runs no scene. *)
StatusReport(d, v) ==
    /\ Listening /\ dps[d] # NoDp
    /\ reports < MaxReports /\ reports' = reports + 1
    /\ dps' = [dps EXCEPT ![d] = v]
    /\ UNCHANGED <<rows, ram, now, passVars, edits, restarts, histVars>>

(* TYPE_CTR_SCENE *)
ControlScene(s, on) ==
    /\ Listening /\ s \in Listed
    /\ edits < MaxEdits /\ edits' = edits + 1
    /\ IF ram[s].type = "manual"
       THEN /\ ram' = [ram EXCEPT ![s] = markSceneToRun(@)]
            /\ Record({s})
            /\ UNCHANGED rows
       ELSE /\ Db_EnableScene(s, on)
            /\ ram' = [ram EXCEPT ![s].enabled = on]
            /\ UNCHANGED <<log, started, strays>>
    /\ UNCHANGED <<dps, now, passVars, reports, restarts, fired>>

Edit ==
    /\ Listening
    /\ edits < MaxEdits /\ edits' = edits + 1
    /\ UNCHANGED <<now, passVars, reports, restarts, log, started>>

(* TYPE_ADD_SCENE, and TYPE_UPDATE_SCENE for a scene that is not there.  A
   second row of the same scene is refused, and the list is read all the same. *)
AddScene(s) ==
    /\ Edit
    /\ IF rows[s] = NoScene
       THEN /\ \E r \in Library[s] : rows' = [rows EXCEPT ![s] = r]
            /\ fired' = [fired EXCEPT ![s] = 0]
       ELSE UNCHANGED <<rows, fired>>
    /\ Db_LoadSceneToRam(rows')
    /\ UNCHANGED <<dps, strays>>

UpdateScene(s) ==
    /\ Edit /\ rows[s] # NoScene
    /\ \E r \in Library[s] : rows' = [rows EXCEPT ![s] = r]
    /\ fired' = [fired EXCEPT ![s] = 0]
    /\ Db_LoadSceneToRam(rows')
    /\ UNCHANGED <<dps, strays>>

(* DeleteDeviceFromScenes, called for each of the things X: a scene without
   actions is deleted as well, and in the end everything is gone that had to go. *)
Emptied(rs, gone) == {s \in Scenes : rs[s] # NoScene /\ Without(rs[s].actions, gone) = <<>>}
Gone(rs, X) ==
    LET Closed(R) == X \subseteq R /\ Emptied(rs, R) \subseteq R
    IN  {y \in Scenes \cup Devices : \A R \in SUBSET (Scenes \cup Devices) : Closed(R) => y \in R}

DeleteDeviceFromScenesFaulty(rs, X) ==     \* no recursion for an emptied scene
    [s \in Scenes |->
        IF rs[s] = NoScene \/ s \in Emptied(rs, Gone(rs, X)) THEN NoScene
        ELSE [rs[s] EXCEPT !.actions = Without(@, X),
                           !.conds = {c \in @ : c.kind = "device" => c.dev \notin X}]]
DeleteDeviceFromScenes(rs, X) ==
    LET gone == Gone(rs, X) IN
    [s \in Scenes |->
        IF rs[s] = NoScene \/ s \in Emptied(rs, gone) THEN NoScene
        ELSE [rs[s] EXCEPT !.actions = Without(@, gone),
                           !.conds = {c \in @ : c.kind = "device" => c.dev \notin gone}]]

DeleteScene(s) ==
    /\ Edit /\ rows[s] # NoScene
    /\ rows' = DeleteDeviceFromScenes([rows EXCEPT ![s] = NoScene], {s})
    /\ Db_LoadSceneToRam(rows')
    /\ UNCHANGED <<dps, fired, strays>>

InTable(D) == \A d \in D : dps[d] # NoDp

(* The rows of D and E go, and what is about D goes from the scenes. *)
DeleteDevices(D, E) ==
    /\ Edit /\ InTable(D \cup E)
    /\ dps' = [d \in Devices |-> IF d \in D \cup E THEN NoDp ELSE dps[d]]
    /\ rows' = DeleteDeviceFromScenes(rows, D)
    /\ Db_LoadSceneToRam(rows')
    /\ strays' = strays \cup E
    /\ UNCHANGED fired

(* TYPE_DEL_DEVICE, and the kick-out of a device that is not a hub. *)
DeleteDevice(d) == DeleteDevices({d}, {})

(* The kick-out of an infrared hub: what it stands for on its gateway goes from
   the scenes, but the rows are deleted by their address alone, also those that
   devices of other gateways have under the same one.                           *)
KickOutHub(hub, others) ==
    /\ hub # {} /\ hub \cap others = {}
    /\ DeleteDevices(hub, others)

Message ==
    \/ \E d \in Devices, v \in Values : DeviceReport(d, v) \/ StatusReport(d, v)
    \/ \E s \in Scenes, on \in BOOLEAN : ControlScene(s, on)
    \/ \E s \in Scenes : AddScene(s) \/ UpdateScene(s) \/ DeleteScene(s)
    \/ \E d \in Devices : DeleteDevice(d)
    \/ \E hub, others \in SUBSET Devices : KickOutHub(hub, others)

-----------------------------------------------------------------------------
Tick ==
    /\ now < MaxClock /\ now' = now + 1
    /\ started' = {}
    /\ UNCHANGED <<rows, ram, dps, passVars, boundVars, log, fired, strays>>

(* CORE stops anywhere, also within a pass, and is started again. *)
Restart ==
    /\ restarts < MaxRestarts /\ restarts' = restarts + 1
    /\ todo' = {} /\ due' = {}
    /\ Db_LoadSceneToRam(rows)
    /\ UNCHANGED <<rows, dps, now, edits, reports, histVars>>

(* CORE stops after the first statement of an edit, which deleted a row: before
   Db_AddScene writes the scene anew, or before the scenes were told.           *)
StopAfterDelete(x) ==
    /\ Listening
    /\ edits < MaxEdits /\ edits' = edits + 1
    /\ restarts < MaxRestarts /\ restarts' = restarts + 1
    /\ \/ /\ x \in Scenes /\ rows[x] # NoScene
          /\ rows' = [rows EXCEPT ![x] = NoScene]
          /\ UNCHANGED dps
       \/ /\ x \in Devices /\ dps[x] # NoDp
          /\ dps' = [dps EXCEPT ![x] = NoDp]
          /\ UNCHANGED rows
    /\ Db_LoadSceneToRam(rows')
    /\ UNCHANGED <<now, passVars, reports, histVars>>

Init ==
    /\ now = 0
    /\ rows \in {rs \in [Scenes -> UNION {Library[s] \cup {NoScene} : s \in Scenes}] :
                    \A s \in Scenes : rs[s] \in Library[s] \cup {NoScene}}
    /\ dps \in [Devices -> Values]
    /\ ram \in {[s \in Scenes |-> IF rows[s] = NoScene THEN NoScene ELSE Loaded(rows[s], w[s])] :
                    w \in {x \in [Scenes -> Windows] :
                            \A s \in Scenes : IF rows[s] = NoScene THEN x[s] = NoWindow
                                                                  ELSE x[s] \in Memory(rows[s])}}
    /\ todo = {} /\ due = {}
    /\ edits = 0 /\ reports = 0 /\ restarts = 0
    /\ log = [s \in Scenes |-> <<>>]
    /\ fired = [s \in Scenes |-> 0]
    /\ started = {} /\ strays = {}

Next ==
    \/ ExecuteScene \/ Message \/ Tick \/ Restart
    \/ \E x \in Scenes \cup Devices : StopAfterDelete(x)

Spec == Init /\ [][Next]_vars

(* The main loop goes on, and time passes: a delay that is looked at again and
   again is over at last.                                                    *)
Fairness == WF_vars(ExecuteScene) /\ \A s \in Scenes : SF_vars(EndDelay(s))
FairSpec == Spec /\ Fairness

-----------------------------------------------------------------------------
(* The list that decides what runs says what the table says, after every edit,
   cascade, switch and date that came; only the effective time of a scene
   without one is whatever the memory held.                                  *)
RamIsDb ==
    \A s \in Scenes :
        LET r == rows[s]  e == ram[s] IN
        /\ e = NoScene <=> r = NoScene
        /\ r # NoScene => /\ e.enabled = r.enabled /\ e.actions = r.actions /\ e.conds = r.conds
                          /\ e.type = IF r.conds = {} THEN "manual" ELSE r.type
                          /\ r.window # Absent => e.window = r.window

(* What a deletion takes away, also the scenes it leaves without actions and
   the ones these leave without, is not mentioned by any scene that stays.  Two
   cases are left out, in which the code leaves dangling actions: a stop after
   the first statement of the deletion, and the devices of other gateways whose
   rows go with a hub.                                                        *)
Vanished == {s \in Scenes : rows[s] # NoScene /\ rows'[s] = NoScene}
            \cup {d \in Devices : dps[d] # NoDp /\ dps'[d] = NoDp}
TakenAway == Vanished \ strays'

NoDangling ==
    [][restarts' = restarts => \A s \in Scenes : rows'[s] # NoScene =>
          /\ rows'[s].actions # <<>>
          /\ \A k \in DOMAIN rows'[s].actions : rows'[s].actions[k].entity \notin TakenAway
          /\ \A c \in rows'[s].conds : c.kind = "device" => c.dev \notin TakenAway]_vars

(* A schedule for one date starts its scene once, however often the list is
   read again and CORE restarted: each start used up a date of the table.    *)
OnceOnly ==
    \A s \in Scenes : rows[s] # NoScene =>
        fired[s] <= Cardinality({c \in rows[s].conds : c.kind = "schedule" /\ IsDate(c) /\ c.over})

(* A scene with conditions that neither is one to be run by hand nor was
   started by another scene is enabled in the table; one of its conditions is
   met in this moment, its schedule due or its device at its value; and it
   starts at a time that is not longer after the start of its effective time on
   one of its days than that lasts.  From 0 to 0 it is always effective.

   A scene with all its conditions has all its devices at their values besides,
   and all its schedules have come; but not in this minute, nor on this day: a
   schedule that came once counts as met until the list is read again, since
   timeReached is never reset.  "Came" says what is left of the condition.     *)
Always(w) == w.from = 0 /\ w.to = 0
InWindow(w) ==
    LET length == IF w.from < w.to THEN w.to - w.from ELSE DayLength - w.from + w.to
    IN  \E d \in w.days : (now - d * DayLength - w.from) % (WeekLength * DayLength) <= length

Met(c) == IF c.kind = "device" THEN Satisfied(c, dps'[c.dev]) ELSE IsDue(c)
Came(c, since) == \E m \in since..now : DueAt(c, m)

Reason(r, since) ==
    /\ \E c \in r.conds : Met(c)
    /\ r.type = "all" =>
          \A c \in r.conds : IF c.kind = "device" THEN dps'[c.dev] = c.val ELSE Came(c, since)

StartsJustified ==
    [][\A s \in Scenes :
          /\ s \in started' \ started /\ rows[s].conds # {} /\ rows[s].type # "manual"
          /\ ~\E x \in todo : ControlOther(x)
          => /\ rows[s].enabled
             /\ rows[s].window # Absent => Always(rows[s].window) \/ InWindow(rows[s].window)
             /\ Reason(rows[s], ram[s].read)]_vars

(* Each run performs the actions of the table once and in order, and is only
   cut short by a new start or when the list is read again.  This leaves out a
   scene that runs itself: it would go on with its second action.            *)
Runs == INSTANCE SceneRuns WITH
    Plans <- Plans,
    plan <- [s \in Scenes |-> IF rows[s] = NoScene THEN <<>> ELSE rows[s].actions],
    done <- log,
    todo <- [s \in Scenes |-> IF Running(s) THEN SubSeq(ram[s].actions, ram[s].next, Len(ram[s].actions))
                                            ELSE <<>>]
RunsAreRuns == Runs!Spec

(* A run comes to an end. *)
EveryRunEnds == \A s \in Scenes : Running(s) ~> ~Running(s)

(* A schedule that repeats starts its scene on each of its days. *)
RunsEveryDay ==
    [][\A p \in due \ due' :
          LET s == p[1]  c == p[2] IN
          /\ IsDue(c) /\ ~IsDate(c) /\ restarts' = restarts
          /\ ram[s].type = "one" /\ checkScenePrecondition(ram[s])
          => s \in started']_vars
=============================================================================
