---------------------------- MODULE SceneRunsProofs ----------------------------
(* SceneEngine implements SceneRuns, for scenes that do not run themselves. *)
EXTENDS SceneEngineProofs, SequenceTheorems

(* No action of a run is to run its own scene. *)
NoSelfRun ==
    \A s \in Scenes :
        Running(s) /\ Current(s).kind = "scene" /\ Current(s).state = 2 => Current(s).entity # s

-------------------------------------------------------------------------------
(* What is left of a run.                                                    *)

PlanOf(r) == IF r = NoScene THEN <<>> ELSE r.actions
Remaining(e) == IF e # NoScene /\ e.next > 0 THEN SubSeq(e.actions, e.next, Len(e.actions)) ELSE <<>>

LEMMA RemainingMarked ==
    ASSUME NEW e \in Entry, NEW f \in Entry, f.actions = e.actions, f.next = 1
    PROVE  Remaining(f) = e.actions
<1>1. f # NoScene /\ e.actions \in Seq(Action)
  BY EntryFields, PlanType
<1>2. SubSeq(e.actions, 1, Len(e.actions)) = e.actions
  BY <1>1, SubSeqFull
<1> QED BY <1>1, <1>2 DEF Remaining

LEMMA RemainingSame ==
    ASSUME NEW e \in Entry, NEW f \in Entry, f.actions = e.actions, f.next = e.next
    PROVE  Remaining(f) = Remaining(e)
BY EntryFields DEF Remaining

LEMMA RemainingAdvanced ==
    ASSUME NEW e \in Entry, InPlan(e), e.next > 0
    PROVE  /\ Remaining(e) # <<>> /\ Head(Remaining(e)) = e.actions[e.next]
           /\ Remaining(Advance(e)) = Tail(Remaining(e))
<1> DEFINE p == e.actions
           n == e.next
           m == Len(e.actions)
           f == Advance(e)
<1>1. /\ e # NoScene /\ p \in Seq(Action) /\ m = Len(p) /\ m \in Nat /\ n \in 1..m
  BY EntryFields, PlanType DEF InPlan
<1>2. f \in Entry /\ f.actions = p /\ f # NoScene
  BY AdvancedEntry, EntryFields
<1>3. f.next = IF n >= m THEN 0 ELSE n + 1
  BY DEF Advance, Entry
<1>4. Remaining(e) = SubSeq(p, n, m)
  BY <1>1 DEF Remaining
<1> HIDE DEF p, n, m, f
<1>5. Len(SubSeq(p, n, m)) = m - n + 1
  BY <1>1, SubSeqProperties
<1>6. SubSeq(p, n, m) # <<>>
  BY <1>1, <1>5
<1>7. Head(SubSeq(p, n, m)) = p[n] /\ Tail(SubSeq(p, n, m)) = SubSeq(p, n + 1, m)
  BY <1>1, HeadTailOfSubSeq
<1>8. Remaining(f) = SubSeq(p, n + 1, m)
  <2>1. CASE n >= m
    <3>1. SubSeq(p, n + 1, m) = <<>>
      BY <1>1, <2>1, SubSeqEmpty
    <3>2. Remaining(f) = <<>>
      BY <1>3, <2>1 DEF Remaining
    <3> QED BY <3>1, <3>2
  <2>2. CASE n < m
    <3>1. f.next = n + 1 /\ n + 1 > 0
      BY <1>1, <1>3, <2>2
    <3> QED BY <1>1, <1>2, <3>1 DEF Remaining
  <2> QED BY <1>1, <2>1, <2>2
<1> QED BY <1>4, <1>6, <1>7, <1>8 DEF p, n, f

-------------------------------------------------------------------------------
(* Steps of the abstract specification.                                      *)

LEMMA NoRunStep ==
    ASSUME \A s \in Scenes : PlanOf(rows'[s]) = PlanOf(rows[s]),
           \A s \in Scenes : Remaining(ram'[s]) = Remaining(ram[s]),
           log' = log
    PROVE  UNCHANGED Runs!vars
BY DEF Runs!vars, PlanOf, Remaining, Running

LEMMA StartRunStep ==
    ASSUME \A s \in Scenes : PlanOf(rows'[s]) = PlanOf(rows[s]),
           NEW S \in SUBSET Scenes,
           \A s \in S : Remaining(ram'[s]) = PlanOf(rows[s]),
           \A s \in Scenes \ S : Remaining(ram'[s]) = Remaining(ram[s]),
           log' = [s \in Scenes |-> IF s \in S THEN <<>> ELSE log[s]]
    PROVE  Runs!Next
<1>1. Runs!Started(S)
  BY DEF Runs!Started, PlanOf, Remaining, Running
<1>2. [s \in Scenes |-> IF rows[s] = NoScene THEN <<>> ELSE rows[s].actions]'
        = [s \in Scenes |-> IF rows[s] = NoScene THEN <<>> ELSE rows[s].actions]
  BY DEF PlanOf
<1> QED BY <1>1, <1>2 DEF Runs!Next, Runs!Start

LEMMA PerformRunStep ==
    ASSUME \A s \in Scenes : PlanOf(rows'[s]) = PlanOf(rows[s]),
           NEW s \in Scenes, NEW S \in SUBSET Scenes, s \notin S,
           Remaining(ram[s]) # <<>>, Remaining(ram'[s]) = Tail(Remaining(ram[s])),
           \A x \in S : Remaining(ram'[x]) = PlanOf(rows[x]),
           \A x \in Scenes \ (S \cup {s}) : Remaining(ram'[x]) = Remaining(ram[x]),
           log' = [x \in Scenes |-> IF x = s THEN Append(log[s], Head(Remaining(ram[s])))
                                    ELSE IF x \in S THEN <<>> ELSE log[x]]
    PROVE  Runs!Next
<1>1. [x \in Scenes |-> IF rows[x] = NoScene THEN <<>> ELSE rows[x].actions]'
        = [x \in Scenes |-> IF rows[x] = NoScene THEN <<>> ELSE rows[x].actions]
  BY DEF PlanOf
<1>2. Runs!Perform(s, S)
  BY <1>1 DEF Runs!Perform, PlanOf, Remaining, Running
<1> QED BY <1>2 DEF Runs!Next

LEMMA ReloadRunStep ==
    ASSUME rows' \in [Scenes -> Row \cup {NoScene}], \A s \in Scenes : Remaining(ram'[s]) = <<>>,
           log' = log
    PROVE  Runs!Next
<1>1. ASSUME NEW s \in Scenes
      PROVE  PlanOf(rows'[s]) \in Plans \cup {<<>>}
  BY RowFields DEF PlanOf
<1>2. [s \in Scenes |-> IF rows[s] = NoScene THEN <<>> ELSE rows[s].actions]'
        \in [Scenes -> Plans \cup {<<>>}]
  BY <1>1 DEF PlanOf
<1>3. Runs!Reload
  BY <1>2 DEF Runs!Reload, Remaining, Running
<1> QED BY <1>3 DEF Runs!Next

-------------------------------------------------------------------------------
(* Steps of the scene engine.                                                *)

LEMMA ListedScene ==
    ASSUME SceneInv, NEW s \in Listed
    PROVE  /\ s \in Scenes /\ ram[s] \in Entry /\ InPlan(ram[s]) /\ rows[s] # NoScene
           /\ ram[s].actions = rows[s].actions /\ PlanOf(rows[s]) = ram[s].actions
<1>1. s \in Scenes /\ ram[s] \in Entry /\ InPlan(ram[s]) /\ ram[s] # NoScene
  BY DEF Listed, SceneInv, TypeOK, IndexInv
<1>2. Says(ram[s], rows[s])
  BY <1>1, RamSays DEF SceneInv
<1> QED BY <1>1, <1>2 DEF Says, PlanOf

LEMMA StillRuns ==
    ASSUME UNCHANGED <<rows, ram, log>>
    PROVE  UNCHANGED Runs!vars
BY NoRunStep

LEMMA AdvanceRuns ==
    ASSUME SceneInv, NEW s \in Scenes, Running(s),
           ram' = [ram EXCEPT ![s] = Advance(@)],
           log' = [log EXCEPT ![s] = Append(@, Current(s))], rows' = rows
    PROVE  Runs!Next
<1>1. s \in Listed /\ ram[s] \in Entry /\ InPlan(ram[s]) /\ ram[s].next > 0
  BY RunningScene DEF SceneInv, IndexInv, Running
<1>2. /\ Remaining(ram[s]) # <<>> /\ Head(Remaining(ram[s])) = Current(s)
      /\ Remaining(Advance(ram[s])) = Tail(Remaining(ram[s]))
  BY <1>1, RemainingAdvanced DEF Current
<1>3. ram'[s] = Advance(ram[s]) /\ \A x \in Scenes \ {s} : ram'[x] = ram[x]
  BY DEF SceneInv, TypeOK
<1>4. log' = [x \in Scenes |-> IF x = s THEN Append(log[s], Head(Remaining(ram[s])))
                               ELSE IF x \in {} THEN <<>> ELSE log[x]]
  BY <1>2 DEF SceneInv, TypeOK
<1>5. \A x \in Scenes : PlanOf(rows'[x]) = PlanOf(rows[x])
  OBVIOUS
<1> DEFINE S == {}
<1>6. /\ S \in SUBSET Scenes /\ s \notin S /\ \A x \in S : Remaining(ram'[x]) = PlanOf(rows[x])
      /\ \A x \in Scenes \ (S \cup {s}) : Remaining(ram'[x]) = Remaining(ram[x])
      /\ log' = [x \in Scenes |-> IF x = s THEN Append(log[s], Head(Remaining(ram[s])))
                                  ELSE IF x \in S THEN <<>> ELSE log[x]]
  BY <1>3, <1>4
<1>7. Remaining(ram'[s]) = Tail(Remaining(ram[s]))
  BY <1>2, <1>3
<1> HIDE DEF S
<1> QED BY <1>2, <1>5, <1>6, <1>7, PerformRunStep

LEMMA ControlOtherRuns ==
    ASSUME SceneInv, NoSelfRun, NEW s \in Scenes, ControlOther(s)
    PROVE  Runs!Next
<1> DEFINE t == Current(s).entity
           state == Current(s).state
           listed == t \in Listed
           others == IF ~listed THEN ram
                     ELSE IF state = 2 THEN [ram EXCEPT ![t] = markSceneToRun(@)]
                     ELSE [ram EXCEPT ![t].enabled = (state = 1)]
           S == IF listed /\ state = 2 THEN {t} ELSE {}
<1>1. /\ Running(s) /\ Current(s).kind = "scene"
      /\ s \in Listed /\ ram[s] \in Entry /\ InPlan(ram[s]) /\ ram[s].next > 0
      /\ ram \in [Scenes -> Entry \cup {NoScene}]
  BY RunningScene DEF ControlOther, SceneInv, TypeOK, IndexInv, Running
<1>2. /\ IF listed /\ state # 2 THEN Db_EnableScene(t, state = 1) ELSE UNCHANGED rows
      /\ ram' = [others EXCEPT ![s] = Advance(@)]
      /\ log' = [x \in Scenes |-> IF x = s THEN Append(log[s], Current(s))
                                  ELSE IF listed /\ x = t /\ state = 2 THEN <<>> ELSE log[x]]
      /\ fired' = fired
  BY DEF ControlOther
<1>3. listed => /\ t \in Scenes /\ ram[t] \in Entry /\ PlanOf(rows[t]) = ram[t].actions
  BY ListedScene
<1>4. state = 2 => t # s
  BY <1>1 DEF NoSelfRun
<1>5. \A x \in Scenes : PlanOf(rows'[x]) = PlanOf(rows[x])
  <2>1. CASE listed /\ state # 2
    <3> DEFINE on == (state = 1)
    <3>1. on \in BOOLEAN /\ Db_EnableScene(t, on) /\ fired' = fired
      BY <1>2, <2>1
    <3> HIDE DEF on
    <3>2. /\ \A x \in Scenes \ {t} : rows'[x] = rows[x]
          /\ rows[t] # NoScene /\ rows'[t] # NoScene /\ rows'[t].actions = rows[t].actions
      BY <2>1, <3>1, EnableStep
    <3> QED BY <3>2 DEF PlanOf
  <2>2. CASE ~(listed /\ state # 2)
    BY <1>2, <2>2
  <2> QED BY <2>1, <2>2
<1>6. /\ others \in [Scenes -> Entry \cup {NoScene}]
      /\ others[s] \in Entry /\ others[s].actions = ram[s].actions /\ others[s].next = ram[s].next
      /\ \A x \in S : Remaining(others[x]) = PlanOf(rows[x])
      /\ \A x \in Scenes \ S : Remaining(others[x]) = Remaining(ram[x])
  <2>1. CASE ~listed
    BY <1>1, <2>1
  <2>2. CASE listed /\ state = 2
    <3> DEFINE f == markSceneToRun(ram[t])
    <3>1. f \in Entry /\ f.next = 1 /\ f.actions = ram[t].actions
      BY <1>3, <2>2, MarkedEntry
    <3>2. Remaining(f) = PlanOf(rows[t])
      BY <1>3, <2>2, <3>1, RemainingMarked
    <3>3. others = [ram EXCEPT ![t] = f] /\ S = {t}
      BY <2>2
    <3> HIDE DEF f, others, S
    <3>4. others[t] = f /\ \A x \in Scenes \ {t} : others[x] = ram[x]
      BY <1>1, <1>3, <2>2, <3>3
    <3>5. others \in [Scenes -> Entry \cup {NoScene}]
      BY <1>1, <3>1, <3>3
    <3> QED BY <1>1, <1>4, <2>2, <3>2, <3>3, <3>4, <3>5
  <2>3. CASE listed /\ state # 2
    <3> DEFINE on == (state = 1)
               f == [ram[t] EXCEPT !.enabled = on]
    <3>1. f \in Entry /\ f.next = ram[t].next /\ f.actions = ram[t].actions
      <4>1. on \in BOOLEAN
        OBVIOUS
      <4> HIDE DEF on
      <4> QED BY <1>3, <2>3, <4>1, SwitchedEntry
    <3>2. Remaining(f) = Remaining(ram[t])
      <4> HIDE DEF f
      <4> QED BY <1>3, <2>3, <3>1, RemainingSame
    <3>3. others = [ram EXCEPT ![t] = f] /\ S = {}
      BY <2>3
    <3> HIDE DEF f, others, S
    <3>4. others[t] = f /\ \A x \in Scenes \ {t} : others[x] = ram[x]
      BY <1>1, <1>3, <2>3, <3>3
    <3>5. others \in [Scenes -> Entry \cup {NoScene}]
      BY <1>1, <3>1, <3>3
    <3> QED BY <1>1, <3>1, <3>2, <3>3, <3>4, <3>5
  <2> QED BY <2>1, <2>2, <2>3
<1> HIDE DEF others
<1>7. ram'[s] = Advance(others[s]) /\ \A x \in Scenes \ {s} : ram'[x] = others[x]
  BY <1>2, <1>6
<1>8. S \in SUBSET Scenes /\ s \notin S
  BY <1>3, <1>4
<1>9. InPlan(others[s]) /\ Remaining(others[s]) = Remaining(ram[s])
  BY <1>1, <1>6, EntryFields, RemainingSame DEF InPlan
<1>10. /\ Remaining(ram[s]) # <<>> /\ Head(Remaining(ram[s])) = Current(s)
       /\ Remaining(ram'[s]) = Tail(Remaining(ram[s]))
  <2>1. Remaining(ram[s]) # <<>> /\ Head(Remaining(ram[s])) = Current(s)
    BY <1>1, RemainingAdvanced DEF Current
  <2>2. Remaining(Advance(others[s])) = Tail(Remaining(others[s]))
    BY <1>1, <1>6, <1>9, RemainingAdvanced
  <2> QED BY <1>7, <1>9, <2>1, <2>2
<1>11. log' = [x \in Scenes |-> IF x = s THEN Append(log[s], Head(Remaining(ram[s])))
                                ELSE IF x \in S THEN <<>> ELSE log[x]]
  BY <1>2, <1>10
<1>12. /\ \A x \in S : Remaining(ram'[x]) = PlanOf(rows[x])
       /\ \A x \in Scenes \ (S \cup {s}) : Remaining(ram'[x]) = Remaining(ram[x])
  BY <1>6, <1>7, <1>8
<1> HIDE DEF S
<1> QED BY <1>5, <1>8, <1>10, <1>11, <1>12, PerformRunStep

(* A list that was just read runs nothing. *)
LEMMA NothingRuns ==
    ASSUME NEW rs \in [Scenes -> Row \cup {NoScene}], Db_LoadSceneToRam(rs)
    PROVE  \A s \in Scenes : Remaining(ram'[s]) = <<>>
<1>1. PICK w \in [Scenes -> Windows] :
        ram' = [s \in Scenes |-> IF rs[s] = NoScene THEN NoScene ELSE Loaded(rs[s], w[s])]
  BY DEF Db_LoadSceneToRam
<1>2. \A s \in Scenes : rs[s] # NoScene => Loaded(rs[s], w[s]).next = 0
  BY DEF Loaded
<1>3. \A s \in Scenes : ram'[s] = NoScene \/ ram'[s].next = 0
  BY <1>1, <1>2
<1> QED BY <1>3 DEF Remaining

LEMMA ReloadRuns ==
    ASSUME SceneInv', Db_LoadSceneToRam(rows'), log' = log
    PROVE  Runs!Next
<1>1. rows' \in [Scenes -> Row \cup {NoScene}]
  BY DEF SceneInv, TypeOK
<1> QED BY <1>1, NothingRuns, ReloadRunStep

(* A scene that may be started: what is left of its run. *)
LEMMA MaybeStarted ==
    ASSUME NEW e \in Entry, NEW starts, NEW f \in Entry,
           LET m == IF starts THEN markSceneToRun(e) ELSE e IN
           f.actions = m.actions /\ f.next = m.next
    PROVE  Remaining(f) = IF starts THEN e.actions ELSE Remaining(e)
<1>1. CASE starts
  <2>1. f.actions = e.actions /\ f.next = 1
    BY <1>1, MarkedEntry
  <2> QED BY <1>1, <2>1, RemainingMarked
<1>2. CASE ~starts
  BY <1>2, RemainingSame
<1> QED BY <1>1, <1>2

(* At most the scene s is started. *)
LEMMA StartOneRuns ==
    ASSUME NEW s \in Scenes, NEW starts,
           \A x \in Scenes : PlanOf(rows'[x]) = PlanOf(rows[x]),
           Remaining(ram'[s]) = IF starts THEN PlanOf(rows[s]) ELSE Remaining(ram[s]),
           \A x \in Scenes \ {s} : ram'[x] = ram[x],
           Record(IF starts THEN {s} ELSE {})
    PROVE  Runs!Next
<1> DEFINE S == IF starts THEN {s} ELSE {}
<1>1. /\ S \in SUBSET Scenes /\ \A x \in S : Remaining(ram'[x]) = PlanOf(rows[x])
      /\ \A x \in Scenes \ S : Remaining(ram'[x]) = Remaining(ram[x])
  BY Zenon
<1>2. log' = [x \in Scenes |-> IF x \in S THEN <<>> ELSE log[x]]
  BY DEF Record
<1> HIDE DEF S
<1> QED BY <1>1, <1>2, StartRunStep

LEMMA FireDateRuns ==
    ASSUME SceneInv, NEW s, NEW c, FireDate(s, c)
    PROVE  Runs!Next
<1> DEFINE e == [ram[s] EXCEPT !.reached = @ \cup {c}]
           starts == IF e.type = "one" THEN checkScenePrecondition(e) ELSE checkSceneCondition(e, dps)
           m == IF starts THEN markSceneToRun(ram[s]) ELSE ram[s]
           D == Expired(ram[s].conds, c)
           R == ram[s].reached \ {c}
           f == [m EXCEPT !.conds = D, !.reached = R]
           q == [rows[s] EXCEPT !.conds = D]
<1>1. /\ s \in Scenes /\ s \in Listed /\ ram[s] \in Entry /\ rows[s] \in Row
      /\ c \in Schedule /\ c \in ram[s].conds /\ InPlan(ram[s])
      /\ rows[s].conds = ram[s].conds /\ PlanOf(rows[s]) = ram[s].actions
  BY DueScene, ListedScene DEF FireDate
<1>2. m \in Entry /\ Kept(ram[s], m) /\ m.reached = ram[s].reached
  <2> HIDE DEF starts
  <2> QED BY <1>1, MaybeMarked
<1>3. m.conds = ram[s].conds
  BY <1>1, <1>2, EntryFields DEF Kept
<1>4. D \in SUBSET Condition /\ R \in SUBSET Condition
  BY <1>1, EntryFields, ScheduleFields DEF Expired
<1>5. ram' = [ram EXCEPT ![s] = f]
  BY <1>2, <1>3 DEF FireDate
<1>6. rows' = [rows EXCEPT ![s] = q]
  BY <1>1 DEF FireDate
<1>7. Record(IF starts THEN {s} ELSE {})
  BY DEF FireDate
<1> HIDE DEF starts, D, R
<1>8. f \in Entry /\ f.actions = m.actions /\ f.next = m.next
  <2> HIDE DEF m
  <2> QED BY <1>2, <1>4 DEF Entry
<1> HIDE DEF f
<1>9. Remaining(f) = IF starts THEN PlanOf(rows[s]) ELSE Remaining(ram[s])
  BY <1>1, <1>8, MaybeStarted
<1>10. q \in Row /\ q.actions = rows[s].actions
  BY <1>1, <1>4, MovedRow
<1> HIDE DEF q, m
<1>11. ram'[s] = f /\ \A x \in Scenes \ {s} : ram'[x] = ram[x]
  BY <1>1, <1>5 DEF SceneInv, TypeOK
<1>12. rows'[s] = q /\ \A x \in Scenes \ {s} : rows'[x] = rows[x]
  BY <1>1, <1>6 DEF SceneInv, TypeOK
<1>13. \A x \in Scenes : PlanOf(rows'[x]) = PlanOf(rows[x])
  BY <1>1, <1>10, <1>12, RowFields DEF PlanOf
<1> QED BY <1>1, <1>7, <1>9, <1>11, <1>13, StartOneRuns

LEMMA FireDailyRuns ==
    ASSUME SceneInv, NEW s, NEW c, FireDaily(s, c)
    PROVE  Runs!Next
<1> DEFINE R == ram[s].reached \cup {c}
           e == [ram[s] EXCEPT !.conds = @, !.reached = R]
           starts == checkSceneCondition(e, dps)
           m == IF starts THEN markSceneToRun(e) ELSE e
<1>1. /\ s \in Scenes /\ s \in Listed /\ ram[s] \in Entry /\ c \in Schedule
      /\ InPlan(ram[s]) /\ PlanOf(rows[s]) = ram[s].actions
  BY DueScene, ListedScene DEF FireDaily
<1>2. R \in SUBSET Condition
  <2>1. ram[s].reached \subseteq Condition
    BY <1>1, EntryFields
  <2>2. c \in Condition
    BY <1>1, ScheduleFields
  <2> QED BY <2>1, <2>2
<1>3. e = [ram[s] EXCEPT !.reached = R]
  <2> HIDE DEF R
  <2> QED BY <1>1, <1>2, EntryFields DEF Entry
<1>4. /\ ram' = [ram EXCEPT ![s] = m]
      /\ Record(IF starts THEN {s} ELSE {}) /\ UNCHANGED rows
  <2>1. e = [ram[s] EXCEPT !.reached = @ \cup {c}]
    BY <1>3
  <2> HIDE DEF e
  <2> QED BY <2>1 DEF FireDaily
<1> HIDE DEF R
<1>5. e \in Entry /\ InPlan(e) /\ e.next = ram[s].next /\ e.actions = ram[s].actions
  <2>1. e \in Entry /\ e.next = ram[s].next /\ e.actions = ram[s].actions
    BY <1>1, <1>2, EntryFields DEF Entry
  <2> HIDE DEF e
  <2> QED BY <1>1, <2>1, EntryFields DEF InPlan
<1> HIDE DEF e, starts
<1>6. Remaining(e) = Remaining(ram[s])
  BY <1>1, <1>5, RemainingSame
<1>7. m \in Entry
  BY <1>5, MaybeMarked
<1>8. Remaining(m) = IF starts THEN PlanOf(rows[s]) ELSE Remaining(ram[s])
  BY <1>1, <1>5, <1>6, <1>7, MaybeStarted
<1> HIDE DEF m
<1>9. ram'[s] = m /\ \A x \in Scenes \ {s} : ram'[x] = ram[x]
  BY <1>1, <1>4 DEF SceneInv, TypeOK
<1>10. \A x \in Scenes : PlanOf(rows'[x]) = PlanOf(rows[x])
  BY <1>4
<1> QED BY <1>1, <1>4, <1>8, <1>9, <1>10, StartOneRuns

LEMMA DeviceReportRuns ==
    ASSUME SceneInv, NEW d \in Devices, NEW v \in Values, DeviceReport(d, v)
    PROVE  Runs!Next
<1> DEFINE S == {s \in Listed : RunBy(ram[s], d, dps')}
<1>1. /\ ram' = [s \in Scenes |-> IF s \in S THEN markSceneToRun(ram[s]) ELSE ram[s]]
      /\ Record(S) /\ UNCHANGED rows
  BY DEF DeviceReport
<1>2. S \in SUBSET Scenes /\ S \subseteq Listed
  BY DEF Listed
<1> HIDE DEF S
<1>3. ASSUME NEW s \in S
      PROVE  Remaining(ram'[s]) = PlanOf(rows[s])
  <2>1. ram[s] \in Entry /\ PlanOf(rows[s]) = ram[s].actions /\ ram'[s] = markSceneToRun(ram[s])
    BY <1>1, <1>2, ListedScene
  <2> QED BY <2>1, MarkedEntry, RemainingMarked
<1>4. \A s \in Scenes \ S : Remaining(ram'[s]) = Remaining(ram[s])
  BY <1>1
<1>5. \A s \in Scenes : PlanOf(rows'[s]) = PlanOf(rows[s])
  BY <1>1
<1>6. log' = [s \in Scenes |-> IF s \in S THEN <<>> ELSE log[s]]
  BY <1>1 DEF Record
<1> QED BY <1>2, <1>3, <1>4, <1>5, <1>6, StartRunStep

LEMMA ControlSceneRuns ==
    ASSUME SceneInv, NEW s \in Scenes, NEW on \in BOOLEAN, ControlScene(s, on)
    PROVE  Runs!Next \/ UNCHANGED Runs!vars
<1>1. s \in Listed /\ ram[s] \in Entry /\ PlanOf(rows[s]) = ram[s].actions
  BY ListedScene DEF ControlScene
<1>2. CASE ram[s].type = "manual"
  <2> DEFINE f == markSceneToRun(ram[s])
  <2>1. ram' = [ram EXCEPT ![s] = f] /\ Record({s}) /\ UNCHANGED rows
    BY <1>2 DEF ControlScene
  <2>2. Remaining(f) = PlanOf(rows[s])
    BY <1>1, MarkedEntry, RemainingMarked
  <2> HIDE DEF f
  <2>3. ram'[s] = f /\ \A x \in Scenes \ {s} : ram'[x] = ram[x]
    BY <2>1 DEF SceneInv, TypeOK
  <2>4. /\ \A x \in Scenes : PlanOf(rows'[x]) = PlanOf(rows[x])
        /\ Record(IF TRUE THEN {s} ELSE {})
    BY <2>1
  <2> QED BY <2>2, <2>3, <2>4, StartOneRuns
<1>3. CASE ram[s].type # "manual"
  <2> DEFINE f == [ram[s] EXCEPT !.enabled = on]
  <2>1. /\ Db_EnableScene(s, on) /\ ram' = [ram EXCEPT ![s] = f] /\ UNCHANGED <<log, started>>
        /\ fired' = fired
    BY <1>3 DEF ControlScene
  <2>2. f \in Entry /\ f.next = ram[s].next /\ f.actions = ram[s].actions
    BY <1>1, SwitchedEntry
  <2> HIDE DEF f
  <2>3. Remaining(f) = Remaining(ram[s])
    BY <1>1, <2>2, RemainingSame
  <2>4. ram'[s] = f /\ \A x \in Scenes \ {s} : ram'[x] = ram[x]
    BY <2>1 DEF SceneInv, TypeOK
  <2>5. /\ \A x \in Scenes \ {s} : rows'[x] = rows[x]
        /\ rows[s] # NoScene /\ rows'[s] # NoScene /\ rows'[s].actions = rows[s].actions
    BY <1>1, <2>1, EnableStep
  <2>6. \A x \in Scenes : PlanOf(rows'[x]) = PlanOf(rows[x])
    BY <2>5 DEF PlanOf
  <2> QED BY <2>1, <2>3, <2>4, <2>6, NoRunStep
<1> QED BY <1>2, <1>3

LEMMA InitRuns ==
    ASSUME Init
    PROVE  Runs!Init
<1>1. SceneInv /\ log = [s \in Scenes |-> <<>>]
  BY InitInv DEF Init
<1>2. ASSUME NEW s \in Scenes
      PROVE  PlanOf(rows[s]) \in Plans \cup {<<>>}
  BY <1>1, RowFields DEF PlanOf, SceneInv, TypeOK
<1>3. PICK w \in [Scenes -> Windows] :
        ram = [s \in Scenes |-> IF rows[s] = NoScene THEN NoScene ELSE Loaded(rows[s], w[s])]
  BY DEF Init
<1>4. \A s \in Scenes : ram[s] = NoScene \/ ram[s].next = 0
  <2>1. \A s \in Scenes : Loaded(rows[s], w[s]).next = 0
    BY DEF Loaded
  <2> QED BY <1>3, <2>1
<1>5. \A s \in Scenes : ~Running(s)
  BY <1>4 DEF Running
<1> QED BY <1>1, <1>2, <1>5 DEF Runs!Init, PlanOf

LEMMA StepRuns ==
    ASSUME SceneInv, SceneInv', NoSelfRun, [Next]_vars
    PROVE  [Runs!Next]_Runs!vars
<1>1. CASE ExecuteScene
  <2>1. \A s \in todo : s \in Scenes
    BY DEF SceneInv, TypeOK, Listed
  <2>2. CASE BeginPass
    BY <2>2, StillRuns DEF BeginPass, histVars
  <2>3. ASSUME NEW s \in todo,
               PassIdle(s) \/ Control(s) \/ ControlOther(s) \/ PassDelay(s) \/ EndDelay(s)
        PROVE  [Runs!Next]_Runs!vars
    <3>1. CASE PassIdle(s) \/ PassDelay(s)
      BY <3>1, StillRuns DEF PassIdle, PassDelay, histVars
    <3>2. CASE Control(s) \/ EndDelay(s)
      BY <2>1, <3>2, AdvanceRuns DEF Control, EndDelay
    <3>3. CASE ControlOther(s)
      BY <2>1, <3>3, ControlOtherRuns
    <3> QED BY <2>3, <3>1, <3>2, <3>3
  <2>4. ASSUME NEW p \in due,
               FireDate(p[1], p[2]) \/ FireDaily(p[1], p[2]) \/ PassSchedule(p[1], p[2])
        PROVE  [Runs!Next]_Runs!vars
    <3>1. CASE FireDate(p[1], p[2]) \/ FireDaily(p[1], p[2])
      BY <3>1, FireDateRuns, FireDailyRuns
    <3>2. CASE PassSchedule(p[1], p[2])
      BY <3>2, StillRuns DEF PassSchedule, histVars
    <3> QED BY <2>4, <3>1, <3>2
  <2> QED BY <1>1, <2>2, <2>3, <2>4 DEF ExecuteScene
<1>2. CASE Message
  <2>1. ASSUME NEW d \in Devices, NEW v \in Values, DeviceReport(d, v) \/ StatusReport(d, v)
        PROVE  [Runs!Next]_Runs!vars
    <3>1. CASE DeviceReport(d, v)
      BY <3>1, DeviceReportRuns
    <3>2. CASE StatusReport(d, v)
      BY <3>2, StillRuns DEF StatusReport, histVars
    <3> QED BY <2>1, <3>1, <3>2
  <2>2. ASSUME NEW s \in Scenes, NEW on \in BOOLEAN, ControlScene(s, on)
        PROVE  [Runs!Next]_Runs!vars
    BY <2>2, ControlSceneRuns
  <2>3. ASSUME NEW s \in Scenes, AddScene(s) \/ UpdateScene(s) \/ DeleteScene(s)
        PROVE  Runs!Next
    BY <2>3, ReloadRuns DEF AddScene, UpdateScene, DeleteScene, Edit
  <2>4. CASE \/ \E d \in Devices : DeleteDevice(d)
             \/ \E hub, others \in SUBSET Devices : KickOutHub(hub, others)
    BY <2>4, DeviceDeletions, ReloadRuns DEF DeleteDevices, Edit
  <2> QED BY <1>2, <2>1, <2>2, <2>3, <2>4 DEF Message
<1>3. CASE Tick
  BY <1>3, StillRuns DEF Tick
<1>4. CASE Restart
  <2>1. rows' = rows /\ log' = log /\ Db_LoadSceneToRam(rows)
    BY <1>4 DEF Restart, histVars
  <2>2. rows \in [Scenes -> Row \cup {NoScene}]
    BY DEF SceneInv, TypeOK
  <2>3. \A s \in Scenes : Remaining(ram'[s]) = <<>>
    BY <2>1, <2>2, NothingRuns
  <2> QED BY <2>1, <2>2, <2>3, ReloadRunStep
<1>5. CASE UNCHANGED vars
  BY <1>5, StillRuns DEF vars, histVars
<1>6. ASSUME NEW x, StopAfterDelete(x)
      PROVE  Runs!Next
  BY <1>6, ReloadRuns DEF StopAfterDelete, histVars
<1> QED BY <1>1, <1>2, <1>3, <1>4, <1>5, <1>6 DEF Next

-------------------------------------------------------------------------------
(* For any scenes and plans: as long as no run is about to run its own scene,
   every run performs the actions of the table, each once and in their order,
   and only a new start or a reading of the list cuts it short (ExecuteScene,
   markSceneToRun and the requests about scenes).                            *)
THEOREM RunsImplemented == Spec /\ []NoSelfRun => RunsAreRuns
<1>1. Init => Runs!Init
  BY InitRuns
<1>2. SceneInv /\ SceneInv' /\ NoSelfRun /\ [Next]_vars => [Runs!Next]_Runs!vars
  BY StepRuns
<1> QED BY <1>1, <1>2, InvHolds, PTL DEF Spec, RunsAreRuns, Runs!Spec
================================================================================
