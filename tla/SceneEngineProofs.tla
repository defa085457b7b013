--------------------------- MODULE SceneEngineProofs ---------------------------
(* Proofs about SceneEngine: its types, that the list agrees with the table, what a
   cascade of deletions takes and leaves, and when and why scenes start.          *)
EXTENDS SceneEngine, FiniteSetTheorems, SequenceTheorems, WellFoundedInduction, TLAPS

-------------------------------------------------------------------------------
(* The inductive invariant.                                                  *)

(* What an entry of the list says of a row of the table. *)
Says(e, r) ==
    /\ e = NoScene <=> r = NoScene
    /\ r # NoScene => /\ e.enabled = r.enabled /\ e.actions = r.actions /\ e.conds = r.conds
                      /\ e.type = IF r.conds = {} THEN "manual" ELSE r.type
                      /\ r.window # Absent => e.window = r.window

(* A run is at one of the actions of its scene. *)
InPlan(e) == e # NoScene => e.next <= Len(e.actions)

(* What is used up leaves the set of conditions one larger in used dates. *)
Fresh(conds) ==
    /\ IsFiniteSet(conds)
    /\ \A c \in conds : c.kind = "schedule" /\ ~c.over => [c EXCEPT !.over = TRUE] \notin conds

UsedUp(conds) == {c \in conds : c.kind = "schedule" /\ IsDate(c) /\ c.over}

IndexInv == \A s \in Scenes : InPlan(ram[s])
DueInv   == \A p \in due : p[2] \in ram[p[1]].conds
DatesInv == \A s \in Scenes : rows[s] # NoScene => Fresh(rows[s].conds)

(* What went with a hub of another gateway is not in the table. *)
StraysInv == \A d \in strays : dps[d] = NoDp

SceneInv == TypeOK /\ RamIsDb /\ IndexInv /\ DueInv /\ DatesInv /\ OnceOnly

LEMMA RamSays == RamIsDb <=> \A s \in Scenes : Says(ram[s], rows[s])
BY DEF RamIsDb, Says

-------------------------------------------------------------------------------
(* Rows, entries and conditions.                                             *)

LEMMA PlanType ==
    ASSUME NEW p \in Plans
    PROVE  /\ p \in Seq(Action) /\ Len(p) \in Nat /\ Len(p) >= 1
           /\ \A k \in 1..Len(p) : p[k] \in Action
<1>1. p \in Seq(Action) /\ p # <<>>
  BY PlansAssumption
<1> QED BY <1>1

LEMMA EntryFields ==
    ASSUME NEW e \in Entry
    PROVE  /\ e # NoScene
           /\ e.enabled \in BOOLEAN /\ e.type \in SceneTypes /\ e.window \in Windows
           /\ e.actions \in Plans /\ e.conds \subseteq Condition
           /\ e.reached \subseteq Condition /\ e.next \in Nat /\ e.read \in Nat
BY NamesAssumption DEF Entry

LEMMA RowFields ==
    ASSUME NEW r \in Row
    PROVE  /\ r # NoScene
           /\ r.enabled \in BOOLEAN /\ r.type \in SceneTypes
           /\ r.window \in Windows \cup {Absent}
           /\ r.actions \in Plans /\ r.conds \subseteq Condition
BY NamesAssumption DEF Row

LEMMA MarkedEntry ==
    ASSUME NEW e \in Entry
    PROVE  LET f == markSceneToRun(e) IN
           /\ f \in Entry /\ f.next = 1 /\ f.enabled = e.enabled /\ f.type = e.type
           /\ f.window = e.window /\ f.actions = e.actions /\ f.conds = e.conds
           /\ f.reached = e.reached /\ f.read = e.read
BY DEF markSceneToRun, Entry

LEMMA SwitchedEntry ==
    ASSUME NEW e \in Entry, NEW on \in BOOLEAN
    PROVE  LET f == [e EXCEPT !.enabled = on] IN
           /\ f \in Entry /\ f.next = e.next /\ f.enabled = on /\ f.type = e.type
           /\ f.window = e.window /\ f.actions = e.actions /\ f.conds = e.conds
           /\ f.reached = e.reached /\ f.read = e.read
BY DEF Entry

LEMMA AdvancedEntry ==
    ASSUME NEW e \in Entry, InPlan(e)
    PROVE  LET f == Advance(e) IN
           /\ f \in Entry /\ InPlan(f) /\ f.enabled = e.enabled /\ f.type = e.type
           /\ f.window = e.window /\ f.actions = e.actions /\ f.conds = e.conds
           /\ f.reached = e.reached /\ f.read = e.read
<1> DEFINE n == IF e.next >= Len(e.actions) THEN 0 ELSE e.next + 1
           f == [e EXCEPT !.next = n]
<1>1. e.next \in Nat /\ Len(e.actions) \in Nat /\ e # NoScene
  BY EntryFields, PlanType
<1>2. n \in Nat /\ n <= Len(e.actions)
  BY <1>1
<1>3. /\ f \in Entry /\ f.next = n /\ f.enabled = e.enabled /\ f.type = e.type
      /\ f.window = e.window /\ f.actions = e.actions /\ f.conds = e.conds
      /\ f.reached = e.reached /\ f.read = e.read
  <2> HIDE DEF n
  <2> QED BY <1>2 DEF Entry
<1>4. Advance(e) = f
  BY DEF Advance
<1>5. InPlan(f)
  <2> HIDE DEF n, f
  <2> QED BY <1>2, <1>3 DEF InPlan
<1> HIDE DEF f
<1> QED BY <1>3, <1>4, <1>5

LEMMA LoadedEntry ==
    ASSUME NEW r \in Row, NEW w \in Windows, w \in Memory(r), now \in Nat
    PROVE  LET e == Loaded(r, w) IN
           e \in Entry /\ InPlan(e) /\ Says(e, r) /\ e.read = now /\ e.reached = {}
<1> DEFINE type == IF r.conds = {} THEN "manual" ELSE r.type
           e == [enabled |-> r.enabled, type |-> type, window |-> w, actions |-> r.actions,
                 conds |-> r.conds, reached |-> {}, next |-> 0, read |-> now]
<1>1. type \in SceneTypes
  BY RowFields DEF SceneTypes
<1>2. e \in Entry
  <2> HIDE DEF type
  <2> QED BY <1>1, RowFields DEF Entry
<1>3. /\ e.enabled = r.enabled /\ e.actions = r.actions /\ e.conds = r.conds
      /\ e.type = type /\ e.window = w /\ e.next = 0 /\ e.read = now /\ e.reached = {}
  OBVIOUS
<1>4. r.window # Absent => w = r.window
  BY DEF Memory
<1>5. e = Loaded(r, w)
  BY DEF Loaded
<1>6. e # NoScene /\ r # NoScene
  BY <1>2, EntryFields, RowFields
<1>7. Len(r.actions) \in Nat
  BY RowFields, PlanType
<1> HIDE DEF e
<1>8. InPlan(e)
  BY <1>3, <1>7 DEF InPlan
<1>9. Says(e, r)
  BY <1>3, <1>4, <1>6 DEF Says
<1> QED BY <1>2, <1>3, <1>5, <1>8, <1>9

(* Reading the table leaves a list that says what it says, and runs nothing. *)
LEMMA LoadStep ==
    ASSUME NEW rs \in [Scenes -> Row \cup {NoScene}], Db_LoadSceneToRam(rs), now \in Nat
    PROVE  /\ ram' \in [Scenes -> Entry \cup {NoScene}]
           /\ \A s \in Scenes : InPlan(ram'[s]) /\ Says(ram'[s], rs[s])
           /\ \A s \in Scenes : ram'[s] # NoScene => ram'[s].read = now /\ ram'[s].reached = {}
<1>1. PICK w \in [Scenes -> Windows] :
        /\ \A s \in Scenes : rs[s] # NoScene => w[s] \in Memory(rs[s])
        /\ ram' = [s \in Scenes |-> IF rs[s] = NoScene THEN NoScene ELSE Loaded(rs[s], w[s])]
  BY DEF Db_LoadSceneToRam
<1>2. ASSUME NEW s \in Scenes
      PROVE  /\ ram'[s] \in Entry \cup {NoScene} /\ InPlan(ram'[s]) /\ Says(ram'[s], rs[s])
             /\ ram'[s] # NoScene => ram'[s].read = now /\ ram'[s].reached = {}
  <2>1. CASE rs[s] = NoScene
    BY <1>1, <2>1 DEF InPlan, Says
  <2>2. CASE rs[s] # NoScene
    <3>1. ram'[s] = Loaded(rs[s], w[s]) /\ rs[s] \in Row /\ w[s] \in Windows
      BY <1>1, <2>2
    <3> QED BY <1>1, <2>2, <3>1, LoadedEntry
  <2> QED BY <2>1, <2>2
<1>3. DOMAIN ram' = Scenes /\ ram' = [s \in Scenes |-> ram'[s]]
  BY <1>1
<1> QED BY <1>2, <1>3

-------------------------------------------------------------------------------
(* What a step keeps.                                                        *)

LEMMA TableKept ==
    ASSUME SceneInv, UNCHANGED <<rows, fired>>
    PROVE  DatesInv' /\ OnceOnly'
BY DEF SceneInv, DatesInv, OnceOnly

(* An entry may change what it runs and which schedules were reached. *)
Kept(e, f) ==
    /\ f = NoScene <=> e = NoScene
    /\ e # NoScene => /\ f.enabled = e.enabled /\ f.type = e.type /\ f.window = e.window
                      /\ f.actions = e.actions /\ f.conds = e.conds /\ f.read = e.read

LEMMA ListKept ==
    ASSUME SceneInv, UNCHANGED <<rows, fired>>,
           \A s \in Scenes : Kept(ram[s], ram'[s])
    PROVE  /\ RamIsDb' /\ DatesInv' /\ OnceOnly' /\ Listed' = Listed
           /\ \A p \in due : p[2] \in ram'[p[1]].conds
<1>1. \A s \in Scenes : Says(ram[s], rows[s])
  BY RamSays DEF SceneInv
<1>2. \A s \in Scenes : Says(ram'[s], rows'[s])
  BY <1>1 DEF Says, Kept
<1>3. RamIsDb'
  BY <1>2 DEF RamIsDb, Says
<1>4. Listed' = Listed
  BY DEF Listed, Kept
<1>5. \A p \in due : p[1] \in Scenes /\ ram[p[1]] # NoScene
  BY DEF SceneInv, TypeOK, Listed
<1>6. \A p \in due : p[2] \in ram'[p[1]].conds
  BY <1>5 DEF SceneInv, DueInv, Kept
<1> QED BY <1>3, <1>4, <1>6, TableKept

(* The pass comes to a scene. *)
LEMMA VisitKept ==
    ASSUME SceneInv, NEW s \in Scenes, Visit(s), Listed' = Listed,
           \A x \in Listed : ram'[x].conds = ram[x].conds
    PROVE  todo' \subseteq Listed' /\ due' \subseteq Listed' \X Schedule /\ DueInv'
<1>1. todo \subseteq Listed /\ s \in todo /\ s \in Listed
  BY DEF Visit, SceneInv, TypeOK
<1>2. todo' = todo \ {s} /\ due' = {s} \X {c \in ram[s].conds : c.kind = "schedule"}
  BY DEF Visit
<1>3. ram[s] \in Entry
  BY <1>1 DEF SceneInv, TypeOK, Listed
<1>4. ram[s].conds \subseteq Condition
  BY <1>3, EntryFields
<1>5. \A c \in Condition : c.kind = "schedule" => c \in Schedule
  BY DEF Condition, DeviceCondition
<1>6. \A p \in due' : p = <<s, p[2]>> /\ p[1] = s /\ p[2] \in ram[s].conds /\ p[2] \in Schedule
  BY <1>2, <1>4, <1>5
<1>7. due' \subseteq Listed \X Schedule
  BY <1>1, <1>6
<1>8. DueInv'
  BY <1>1, <1>6 DEF DueInv
<1> QED BY <1>1, <1>2, <1>7, <1>8

LEMMA RunningScene ==
    ASSUME SceneInv, NEW s \in Scenes, Running(s)
    PROVE  /\ ram[s] \in Entry /\ s \in Listed
           /\ Current(s) \in Action
<1>1. ram[s] \in Entry /\ s \in Listed
  BY DEF SceneInv, TypeOK, Running, Listed
<1>2. ram[s].next \in 1..Len(ram[s].actions)
  BY <1>1, EntryFields, PlanType DEF SceneInv, IndexInv, InPlan, Running
<1> QED BY <1>1, <1>2, EntryFields, PlanType DEF Current

-------------------------------------------------------------------------------
(* A pass of ExecuteScene.                                                   *)

LEMMA StillList ==
    ASSUME SceneInv, UNCHANGED <<rows, ram, fired>>
    PROVE  RamIsDb' /\ IndexInv' /\ DatesInv' /\ OnceOnly' /\ Listed' = Listed
BY TableKept DEF SceneInv, RamIsDb, IndexInv, Listed

LEMMA BeginPassStep ==
    ASSUME SceneInv, BeginPass
    PROVE  SceneInv'
<1>1. UNCHANGED <<rows, ram, fired>>
  BY DEF BeginPass, histVars
<1>2. TypeOK'
  BY <1>1, StillList DEF SceneInv, TypeOK, BeginPass, boundVars, histVars
<1>3. DueInv'
  BY DEF BeginPass, DueInv
<1> QED BY <1>1, <1>2, <1>3, StillList DEF SceneInv

LEMMA StillStep ==
    ASSUME SceneInv, NEW s \in Scenes, Visit(s), UNCHANGED <<rows, ram, dps, now, boundVars, histVars>>
    PROVE  SceneInv'
<1>1. UNCHANGED <<rows, ram, fired>>
  BY DEF histVars
<1>2. todo' \subseteq Listed' /\ due' \subseteq Listed' \X Schedule /\ DueInv'
  BY <1>1, StillList, VisitKept
<1>3. TypeOK'
  BY <1>1, <1>2 DEF SceneInv, TypeOK, boundVars, histVars
<1> QED BY <1>1, <1>2, <1>3, StillList DEF SceneInv

(* Control and EndDelay: the action is done, and the next one's turn comes. *)
LEMMA AdvanceStep ==
    ASSUME SceneInv, NEW s \in Scenes, Visit(s), Running(s),
           ram' = [ram EXCEPT ![s] = Advance(@)],
           log' = [log EXCEPT ![s] = Append(@, Current(s))],
           UNCHANGED <<rows, dps, now, boundVars, fired, started, strays>>
    PROVE  SceneInv'
<1>1. ram \in [Scenes -> Entry \cup {NoScene}] /\ ram[s] \in Entry /\ Current(s) \in Action
  BY RunningScene DEF SceneInv, TypeOK
<1>2. Advance(ram[s]) \in Entry /\ InPlan(Advance(ram[s])) /\ Kept(ram[s], Advance(ram[s]))
  BY <1>1, AdvancedEntry, EntryFields DEF Kept, SceneInv, IndexInv
<1>3. ram'[s] = Advance(ram[s]) /\ \A x \in Scenes \ {s} : ram'[x] = ram[x]
  BY <1>1
<1>4. ram' \in [Scenes -> Entry \cup {NoScene}]
  BY <1>1, <1>2
<1>5. \A x \in Scenes : Kept(ram[x], ram'[x])
  BY <1>2, <1>3 DEF Kept
<1>6. /\ RamIsDb' /\ DatesInv' /\ OnceOnly' /\ Listed' = Listed
  BY <1>5, ListKept
<1>7. IndexInv'
  BY <1>2, <1>3 DEF SceneInv, IndexInv
<1>8. todo' \subseteq Listed' /\ due' \subseteq Listed' \X Schedule /\ DueInv'
  BY <1>5, <1>6, VisitKept DEF Kept, Listed
<1>9. log' \in [Scenes -> Seq(Action)]
  BY <1>1 DEF SceneInv, TypeOK
<1>10. TypeOK'
  BY <1>4, <1>8, <1>9 DEF SceneInv, TypeOK, boundVars
<1> QED BY <1>6, <1>7, <1>8, <1>10 DEF SceneInv

(* A scene is switched in the table. *)
LEMMA SwitchedRow ==
    ASSUME NEW r \in Row, NEW on \in BOOLEAN
    PROVE  LET q == [r EXCEPT !.enabled = on] IN
           /\ q \in Row /\ q.enabled = on /\ q.type = r.type
           /\ q.window = r.window /\ q.actions = r.actions /\ q.conds = r.conds
BY DEF Row

LEMMA EnableStep ==
    ASSUME SceneInv, NEW t \in Listed, NEW on \in BOOLEAN, Db_EnableScene(t, on), fired' = fired
    PROVE  /\ rows' \in [Scenes -> Row \cup {NoScene}] /\ DatesInv' /\ OnceOnly'
           /\ \A x \in Scenes \ {t} : rows'[x] = rows[x]
           /\ rows[t] # NoScene /\ rows'[t] # NoScene
           /\ rows'[t].enabled = on /\ rows'[t].type = rows[t].type
           /\ rows'[t].window = rows[t].window /\ rows'[t].actions = rows[t].actions
           /\ rows'[t].conds = rows[t].conds
<1> DEFINE q == [rows[t] EXCEPT !.enabled = on]
<1>1. t \in Scenes /\ rows[t] # NoScene /\ rows[t] \in Row /\ rows \in [Scenes -> Row \cup {NoScene}]
  BY RamSays DEF SceneInv, TypeOK, Listed, Says
<1>2. rows' = [rows EXCEPT ![t] = q]
  BY <1>1 DEF Db_EnableScene
<1>3. /\ q \in Row /\ q.enabled = on /\ q.type = rows[t].type
      /\ q.window = rows[t].window /\ q.actions = rows[t].actions /\ q.conds = rows[t].conds
  BY <1>1, SwitchedRow
<1> HIDE DEF q
<1>4. rows'[t] = q /\ \A x \in Scenes \ {t} : rows'[x] = rows[x]
  BY <1>1, <1>2
<1>5. rows' \in [Scenes -> Row \cup {NoScene}]
  BY <1>1, <1>2, <1>3
<1>6. q # NoScene
  BY <1>3, RowFields
<1>7. \A x \in Scenes : /\ rows'[x] = NoScene <=> rows[x] = NoScene
                        /\ rows[x] # NoScene => rows'[x].conds = rows[x].conds
  BY <1>1, <1>3, <1>4, <1>6
<1>8. DatesInv' /\ OnceOnly'
  BY <1>7 DEF SceneInv, DatesInv, OnceOnly
<1> QED BY <1>1, <1>3, <1>4, <1>5, <1>6, <1>8

LEMMA ControlOtherStep ==
    ASSUME SceneInv, NEW s \in Scenes, ControlOther(s)
    PROVE  SceneInv'
<1> DEFINE t == Current(s).entity
           state == Current(s).state
           listed == t \in Listed
           others == IF ~listed THEN ram
                     ELSE IF state = 2 THEN [ram EXCEPT ![t] = markSceneToRun(@)]
                     ELSE [ram EXCEPT ![t].enabled = (state = 1)]
<1>1. ram \in [Scenes -> Entry \cup {NoScene}] /\ ram[s] \in Entry /\ Current(s) \in Action
      /\ InPlan(ram[s]) /\ Visit(s) /\ s \in Listed
  BY RunningScene DEF SceneInv, TypeOK, ControlOther, IndexInv
<1>2. /\ IF listed /\ state # 2 THEN Db_EnableScene(t, state = 1) ELSE UNCHANGED rows
      /\ ram' = [others EXCEPT ![s] = Advance(@)]
      /\ log' = [x \in Scenes |-> IF x = s THEN Append(log[s], Current(s))
                                  ELSE IF listed /\ x = t /\ state = 2 THEN <<>> ELSE log[x]]
      /\ started' = IF listed /\ state = 2 THEN started \cup {t} ELSE started
      /\ UNCHANGED <<dps, now, boundVars, fired, strays>>
  BY DEF ControlOther
<1>3. listed => t \in Scenes /\ ram[t] \in Entry /\ InPlan(ram[t])
  BY <1>1 DEF Listed, SceneInv, IndexInv
<1>4. /\ others \in [Scenes -> Entry \cup {NoScene}]
      /\ \A x \in Scenes : InPlan(others[x])
      /\ (~listed => others = ram)
      /\ (listed => /\ others[t] \in Entry
                    /\ \A x \in Scenes \ {t} : others[x] = ram[x]
                    /\ others[t].enabled = (IF state = 2 THEN ram[t].enabled ELSE state = 1)
                    /\ others[t].type = ram[t].type /\ others[t].window = ram[t].window
                    /\ others[t].actions = ram[t].actions /\ others[t].conds = ram[t].conds)
  <2>1. CASE ~listed
    BY <1>1, <2>1 DEF SceneInv, IndexInv
  <2>2. CASE listed /\ state = 2
    <3> DEFINE f == markSceneToRun(ram[t])
    <3>1. /\ f \in Entry /\ f.next = 1 /\ f.enabled = ram[t].enabled /\ f.type = ram[t].type
          /\ f.window = ram[t].window /\ f.actions = ram[t].actions /\ f.conds = ram[t].conds
      BY <1>3, <2>2, MarkedEntry
    <3>2. InPlan(f)
      BY <3>1, EntryFields, PlanType DEF InPlan
    <3>3. others = [ram EXCEPT ![t] = f]
      BY <2>2
    <3> HIDE DEF f, others
    <3>4. others[t] = f /\ \A x \in Scenes \ {t} : others[x] = ram[x]
      BY <1>1, <1>3, <2>2, <3>3
    <3>5. others \in [Scenes -> Entry \cup {NoScene}]
      BY <1>1, <3>1, <3>3
    <3> QED BY <1>3, <2>2, <3>1, <3>2, <3>4, <3>5 DEF SceneInv, IndexInv
  <2>3. CASE listed /\ state # 2
    <3> DEFINE on == (state = 1)
               f == [ram[t] EXCEPT !.enabled = on]
    <3>0. on \in BOOLEAN
      OBVIOUS
    <3>1. /\ f \in Entry /\ f.next = ram[t].next /\ f.enabled = on /\ f.type = ram[t].type
          /\ f.window = ram[t].window /\ f.actions = ram[t].actions /\ f.conds = ram[t].conds
      <4> HIDE DEF on
      <4> QED BY <1>3, <2>3, <3>0, SwitchedEntry
    <3>2. InPlan(f)
      BY <1>3, <2>3, <3>1, EntryFields DEF InPlan
    <3>3. others = [ram EXCEPT ![t] = f]
      BY <2>3
    <3> HIDE DEF f, others
    <3>4. others[t] = f /\ \A x \in Scenes \ {t} : others[x] = ram[x]
      BY <1>1, <1>3, <2>3, <3>3
    <3>5. others \in [Scenes -> Entry \cup {NoScene}]
      BY <1>1, <3>1, <3>3
    <3> QED BY <1>3, <2>3, <3>1, <3>2, <3>4, <3>5 DEF SceneInv, IndexInv
  <2> QED BY <2>1, <2>2, <2>3
<1> HIDE DEF others
<1>5. others[s] \in Entry /\ InPlan(others[s])
  BY <1>1, <1>4
<1> DEFINE g == Advance(others[s])
<1>6. /\ g \in Entry /\ g # NoScene /\ InPlan(g) /\ g.enabled = others[s].enabled
      /\ g.type = others[s].type /\ g.window = others[s].window
      /\ g.actions = others[s].actions /\ g.conds = others[s].conds
  BY <1>5, AdvancedEntry, EntryFields
<1> HIDE DEF g
<1>7. ram'[s] = g /\ \A x \in Scenes \ {s} : ram'[x] = others[x]
  BY <1>2, <1>4 DEF g
<1>8. ram' \in [Scenes -> Entry \cup {NoScene}]
  BY <1>2, <1>4, <1>6 DEF g
<1>9. IndexInv'
  BY <1>4, <1>6, <1>7 DEF IndexInv
<1>10. \A x \in Scenes : Says(ram[x], rows[x])
  BY RamSays DEF SceneInv
<1>11. /\ rows' \in [Scenes -> Row \cup {NoScene}] /\ DatesInv' /\ OnceOnly'
       /\ \A x \in Scenes : Says(ram'[x], rows'[x])
  <2>1. CASE listed /\ state # 2
    <3> DEFINE on == (state = 1)
    <3>1. on \in BOOLEAN /\ Db_EnableScene(t, on) /\ fired' = fired
      BY <1>2, <2>1
    <3> HIDE DEF on
    <3>2. /\ rows' \in [Scenes -> Row \cup {NoScene}] /\ DatesInv' /\ OnceOnly'
          /\ \A x \in Scenes \ {t} : rows'[x] = rows[x]
          /\ rows[t] # NoScene /\ rows'[t] # NoScene
          /\ rows'[t].enabled = on /\ rows'[t].type = rows[t].type
          /\ rows'[t].window = rows[t].window /\ rows'[t].actions = rows[t].actions
          /\ rows'[t].conds = rows[t].conds
      BY <2>1, <3>1, EnableStep
    <3>3. others[t].enabled = on
      BY <1>4, <2>1 DEF on
    <3>4. \A x \in Scenes : Says(others[x], rows'[x])
      BY <1>3, <1>4, <1>10, <2>1, <3>2, <3>3, EntryFields DEF Says
    <3>5. Says(g, rows'[s])
      BY <1>5, <1>6, <3>4, EntryFields DEF Says
    <3> QED BY <1>7, <3>2, <3>4, <3>5
  <2>2. CASE ~listed \/ state = 2
    <3>1. UNCHANGED <<rows, fired>>
      BY <1>2, <2>2
    <3>2. \A x \in Scenes : Says(others[x], rows'[x])
      BY <1>3, <1>4, <1>10, <2>2, <3>1, EntryFields DEF Says
    <3>3. Says(g, rows'[s])
      BY <1>5, <1>6, <3>2, EntryFields DEF Says
    <3> QED BY <1>7, <3>1, <3>2, <3>3, TableKept DEF SceneInv, TypeOK
  <2> QED BY <2>1, <2>2
<1>12. RamIsDb'
  BY <1>11 DEF RamIsDb, Says
<1>13. \A x \in Scenes : /\ ram'[x] = NoScene <=> ram[x] = NoScene
                         /\ ram[x] # NoScene => ram'[x].conds = ram[x].conds
  BY <1>1, <1>3, <1>4, <1>6, <1>7, EntryFields
<1>14. Listed' = Listed /\ \A x \in Listed : ram'[x].conds = ram[x].conds
  BY <1>13 DEF Listed
<1>15. todo' \subseteq Listed' /\ due' \subseteq Listed' \X Schedule /\ DueInv'
  BY <1>1, <1>14, VisitKept
<1>16. log' \in [Scenes -> Seq(Action)] /\ started' \subseteq Scenes
  BY <1>1, <1>2, <1>3 DEF SceneInv, TypeOK
<1>17. TypeOK'
  BY <1>2, <1>8, <1>11, <1>15, <1>16 DEF SceneInv, TypeOK, boundVars
<1> QED BY <1>9, <1>11, <1>12, <1>15, <1>17 DEF SceneInv

-------------------------------------------------------------------------------
(* The schedules of a scene.                                                 *)

LEMMA MovedRow ==
    ASSUME NEW r \in Row, NEW D \in SUBSET Condition
    PROVE  LET q == [r EXCEPT !.conds = D] IN
           /\ q \in Row /\ q.enabled = r.enabled /\ q.type = r.type
           /\ q.window = r.window /\ q.actions = r.actions /\ q.conds = D
BY DEF Row

LEMMA ScheduleFields ==
    ASSUME NEW c \in Schedule
    PROVE  /\ c.kind = "schedule" /\ c.days \subseteq Days /\ c.time \in Nat /\ c.over \in BOOLEAN
           /\ c \in Condition
           /\ LET o == [c EXCEPT !.over = TRUE] IN
              o \in Schedule /\ o.kind = "schedule" /\ o.days = c.days /\ o.time = c.time /\ o.over
BY DEF Schedule, Condition

LEMMA ConditionKinds ==
    ASSUME NEW c \in Condition, c.kind = "schedule"
    PROVE  c \in Schedule
BY DEF Condition, DeviceCondition

LEMMA ExpiredConds ==
    ASSUME NEW conds \in SUBSET Condition, NEW c \in Schedule, c \in conds, ~c.over, IsDate(c),
           Fresh(conds)
    PROVE  /\ Expired(conds, c) \in SUBSET Condition /\ Expired(conds, c) # {}
           /\ Fresh(Expired(conds, c))
           /\ IsFiniteSet(UsedUp(conds))
           /\ Cardinality(UsedUp(Expired(conds, c))) = Cardinality(UsedUp(conds)) + 1
<1> DEFINE o == [c EXCEPT !.over = TRUE]
           D == (conds \ {c}) \cup {o}
<1>1. Expired(conds, c) = D
  BY DEF Expired
<1>2. o \in Schedule /\ o \in Condition /\ o.kind = "schedule" /\ o.days = c.days /\ o.time = c.time
      /\ o.over /\ o \notin conds /\ c.kind = "schedule"
  BY ScheduleFields DEF Fresh
<1>3. IsFiniteSet(conds) /\ IsFiniteSet(conds \ {c})
  BY FS_Subset DEF Fresh
<1>4. IsFiniteSet(D)
  BY <1>3, FS_AddElement
<1>5. ASSUME NEW x \in D, x.kind = "schedule", ~x.over, [x EXCEPT !.over = TRUE] \in D
      PROVE  FALSE
  <2>1. x \in conds /\ x # c
    BY <1>2, <1>5
  <2>2. [x EXCEPT !.over = TRUE] \notin conds /\ x \in Schedule
    BY <1>5, <2>1, ConditionKinds DEF Fresh
  <2>3. [x EXCEPT !.over = TRUE] = o
    BY <1>5, <2>2
  <2>4. x.days = c.days /\ x.time = c.time /\ x.kind = c.kind /\ x.over = c.over
    <3>1. /\ [x EXCEPT !.over = TRUE].days = x.days /\ [x EXCEPT !.over = TRUE].time = x.time
          /\ x.over = FALSE /\ c.over = FALSE
      BY <1>5, <2>2, ScheduleFields
    <3> QED BY <1>2, <1>5, <2>3, <3>1
  <2>5. x = c
    BY <2>2, <2>4 DEF Schedule
  <2> QED BY <2>1, <2>5
<1>6. UsedUp(D) = UsedUp(conds) \cup {o}
  BY <1>2 DEF UsedUp, IsDate
<1>7. o \notin UsedUp(conds) /\ IsFiniteSet(UsedUp(conds))
  BY <1>2, <1>3, FS_Subset DEF UsedUp
<1>8. Cardinality(UsedUp(D)) = Cardinality(UsedUp(conds)) + 1
  BY <1>6, <1>7, FS_AddElement
<1>9. D \in SUBSET Condition /\ D # {}
  BY <1>2
<1>10. Fresh(D)
  <2> HIDE DEF D
  <2> QED BY <1>4, <1>5 DEF Fresh
<1> HIDE DEF D
<1> QED BY <1>1, <1>7, <1>8, <1>9, <1>10

LEMMA DueScene ==
    ASSUME SceneInv, NEW s, NEW c, <<s, c>> \in due
    PROVE  /\ s \in Scenes /\ s \in Listed /\ ram[s] \in Entry /\ rows[s] \in Row
           /\ c \in Schedule /\ c \in ram[s].conds /\ InPlan(ram[s])
           /\ Says(ram[s], rows[s]) /\ rows[s].conds = ram[s].conds
<1>1. s \in Listed /\ c \in Schedule
  BY DEF SceneInv, TypeOK
<1>2. s \in Scenes /\ ram[s] \in Entry
  BY <1>1 DEF SceneInv, TypeOK, Listed
<1>3. Says(ram[s], rows[s])
  BY <1>2, RamSays DEF SceneInv
<1>4. rows[s] \in Row
  BY <1>2, <1>3, EntryFields DEF Says, SceneInv, TypeOK
<1>5. c \in ram[s].conds
  <2> DEFINE p == <<s, c>>
  <2>1. p \in due /\ p[1] = s /\ p[2] = c
    OBVIOUS
  <2> QED BY <2>1 DEF SceneInv, DueInv
<1> QED BY <1>1, <1>2, <1>3, <1>4, <1>5, RowFields DEF Says, SceneInv, IndexInv

LEMMA RecordType ==
    ASSUME SceneInv, NEW S \in SUBSET Scenes, Record(S)
    PROVE  log' \in [Scenes -> Seq(Action)] /\ started' \subseteq Scenes /\ strays' = strays
BY DEF Record, SceneInv, TypeOK

(* A scene that may be started. *)
LEMMA MaybeMarked ==
    ASSUME NEW e \in Entry, InPlan(e), NEW starts
    PROVE  LET m == IF starts THEN markSceneToRun(e) ELSE e IN
           m \in Entry /\ InPlan(m) /\ Kept(e, m) /\ m.reached = e.reached
<1>1. CASE starts
  <2> DEFINE f == markSceneToRun(e)
  <2>1. /\ f \in Entry /\ f.next = 1 /\ f.enabled = e.enabled /\ f.type = e.type
        /\ f.window = e.window /\ f.actions = e.actions /\ f.conds = e.conds
        /\ f.reached = e.reached /\ f.read = e.read
    BY MarkedEntry
  <2> HIDE DEF f
  <2>2. InPlan(f) /\ Kept(e, f)
    BY <2>1, EntryFields, PlanType DEF InPlan, Kept
  <2> QED BY <1>1, <2>1, <2>2 DEF f
<1>2. CASE ~starts
  BY <1>2 DEF Kept
<1> QED BY <1>1, <1>2

LEMMA FireDateStep ==
    ASSUME SceneInv, NEW s, NEW c, FireDate(s, c)
    PROVE  SceneInv'
<1> DEFINE e == [ram[s] EXCEPT !.reached = @ \cup {c}]
           starts == IF e.type = "one" THEN checkScenePrecondition(e) ELSE checkSceneCondition(e, dps)
           m == IF starts THEN markSceneToRun(ram[s]) ELSE ram[s]
           D == Expired(ram[s].conds, c)
           R == ram[s].reached \ {c}
           f == [m EXCEPT !.conds = D, !.reached = R]
           q == [rows[s] EXCEPT !.conds = D]
<1>1. /\ s \in Scenes /\ s \in Listed /\ ram[s] \in Entry /\ rows[s] \in Row
      /\ c \in Schedule /\ c \in ram[s].conds /\ InPlan(ram[s])
      /\ Says(ram[s], rows[s]) /\ rows[s].conds = ram[s].conds
  BY DueScene DEF FireDate
<1>2. ~c.over /\ IsDate(c)
  <2>1. IsDate(c) /\ DueAt(c, now)
    BY DEF FireDate, IsDue
  <2>2. now \in Int /\ now <= MaxClock /\ MaxClock < OverDate /\ MaxClock \in Int /\ OverDate \in Int
    BY HorizonAssumption, BoundsAssumption DEF SceneInv, TypeOK
  <2>3. ~(OverDate <= now)
    BY <2>2
  <2> QED BY <2>1, <2>3 DEF DueAt
<1>3. m \in Entry /\ InPlan(m) /\ Kept(ram[s], m) /\ m.reached = ram[s].reached
  <2> HIDE DEF starts
  <2> QED BY <1>1, MaybeMarked
<1>4. m.conds = ram[s].conds
  BY <1>1, <1>3, EntryFields DEF Kept
<1>5. Fresh(rows[s].conds) /\ rows[s] # NoScene
  BY <1>1, RowFields DEF SceneInv, DatesInv
<1>6. /\ D \in SUBSET Condition /\ D # {} /\ Fresh(D) /\ IsFiniteSet(UsedUp(rows[s].conds))
      /\ Cardinality(UsedUp(D)) = Cardinality(UsedUp(rows[s].conds)) + 1
  BY <1>1, <1>2, <1>5, EntryFields, ExpiredConds
<1>7. R \in SUBSET Condition
  BY <1>1, EntryFields
<1>8. ram' = [ram EXCEPT ![s] = f]
  BY <1>3, <1>4 DEF FireDate
<1>9. rows' = [rows EXCEPT ![s] = q]
  BY <1>1 DEF FireDate
<1>10. /\ Record(IF starts THEN {s} ELSE {}) /\ fired' = [fired EXCEPT ![s] = @ + 1]
       /\ due' = {} /\ UNCHANGED <<dps, now, todo, boundVars>>
  BY DEF FireDate
<1> HIDE DEF starts, m, D, R
<1>11. /\ f \in Entry /\ f.next = m.next /\ f.enabled = m.enabled /\ f.type = m.type
       /\ f.window = m.window /\ f.actions = m.actions /\ f.conds = D
  BY <1>3, <1>6, <1>7 DEF Entry
<1>12. /\ q \in Row /\ q.enabled = rows[s].enabled /\ q.type = rows[s].type
       /\ q.window = rows[s].window /\ q.actions = rows[s].actions /\ q.conds = D
  BY <1>1, <1>6, MovedRow
<1> HIDE DEF f, q
<1>13. /\ ram' \in [Scenes -> Entry \cup {NoScene}] /\ ram'[s] = f
       /\ \A x \in Scenes \ {s} : ram'[x] = ram[x]
  BY <1>1, <1>8, <1>11 DEF SceneInv, TypeOK
<1>14. /\ rows' \in [Scenes -> Row \cup {NoScene}] /\ rows'[s] = q
       /\ \A x \in Scenes \ {s} : rows'[x] = rows[x]
  BY <1>1, <1>9, <1>12 DEF SceneInv, TypeOK
<1>15. Says(f, q)
  <2>1. f # NoScene /\ q # NoScene /\ ram[s] # NoScene
    BY <1>1, <1>11, <1>12, EntryFields, RowFields
  <2>2. /\ ram[s].enabled = rows[s].enabled /\ ram[s].actions = rows[s].actions
        /\ ram[s].type = rows[s].type
        /\ rows[s].window # Absent => ram[s].window = rows[s].window
    BY <1>1, <1>5 DEF Says
  <2>3. /\ m.enabled = ram[s].enabled /\ m.type = ram[s].type /\ m.window = ram[s].window
        /\ m.actions = ram[s].actions
    BY <1>3, <2>1 DEF Kept
  <2> QED BY <1>6, <1>11, <1>12, <2>1, <2>2, <2>3 DEF Says
<1>16. InPlan(f)
  BY <1>3, <1>11, EntryFields DEF InPlan
<1>17. RamIsDb'
  <2>1. \A x \in Scenes : Says(ram'[x], rows'[x])
    BY <1>13, <1>14, <1>15, RamSays DEF SceneInv
  <2> QED BY <2>1 DEF RamIsDb, Says
<1>18. IndexInv'
  BY <1>13, <1>16 DEF SceneInv, IndexInv
<1>19. DatesInv'
  BY <1>6, <1>12, <1>14 DEF SceneInv, DatesInv
<1>20. fired' \in [Scenes -> Nat] /\ fired'[s] = fired[s] + 1 /\ \A x \in Scenes \ {s} : fired'[x] = fired[x]
  BY <1>1, <1>10 DEF SceneInv, TypeOK
<1>21. fired[s] <= Cardinality(UsedUp(rows[s].conds)) /\ fired[s] \in Nat
  BY <1>1, <1>5 DEF SceneInv, TypeOK, OnceOnly, UsedUp
<1>22. fired'[s] <= Cardinality(UsedUp(rows'[s].conds))
  <2>1. Cardinality(UsedUp(rows[s].conds)) \in Nat
    BY <1>6, FS_CardinalityType
  <2> QED BY <1>6, <1>12, <1>14, <1>20, <1>21, <2>1
<1>23. OnceOnly'
  BY <1>14, <1>20, <1>22 DEF SceneInv, OnceOnly, UsedUp
<1>24. Listed' = Listed
  BY <1>1, <1>11, <1>13, EntryFields DEF Listed
<1>25. DueInv'
  BY <1>10 DEF DueInv
<1>26. log' \in [Scenes -> Seq(Action)] /\ started' \subseteq Scenes /\ strays' = strays
  BY <1>1, <1>10, RecordType
<1>27. TypeOK'
  BY <1>10, <1>13, <1>14, <1>20, <1>24, <1>26 DEF SceneInv, TypeOK, boundVars
<1> QED BY <1>17, <1>18, <1>19, <1>23, <1>25, <1>27 DEF SceneInv

LEMMA FireDailyStep ==
    ASSUME SceneInv, NEW s, NEW c, FireDaily(s, c)
    PROVE  SceneInv'
<1> DEFINE R == ram[s].reached \cup {c}
           e == [ram[s] EXCEPT !.conds = @, !.reached = R]
           starts == checkSceneCondition(e, dps)
           m == IF starts THEN markSceneToRun(e) ELSE e
<1>1. /\ s \in Scenes /\ s \in Listed /\ ram[s] \in Entry /\ rows[s] \in Row
      /\ c \in Schedule /\ c \in ram[s].conds /\ InPlan(ram[s])
  BY DueScene DEF FireDaily
<1>2. R \in SUBSET Condition
  BY <1>1, EntryFields, ScheduleFields
<1>3. e = [ram[s] EXCEPT !.reached = R]
  <2> HIDE DEF R
  <2> QED BY <1>1, <1>2, EntryFields DEF Entry
<1>4. /\ ram' = [ram EXCEPT ![s] = m]
      /\ Record(IF starts THEN {s} ELSE {})
      /\ due' = due \ {<<s, c>>} /\ UNCHANGED <<rows, dps, now, todo, boundVars, fired>>
  <2>1. e = [ram[s] EXCEPT !.reached = @ \cup {c}]
    BY <1>3
  <2> HIDE DEF e
  <2> QED BY <2>1 DEF FireDaily
<1> HIDE DEF R
<1>5. e \in Entry /\ InPlan(e) /\ Kept(ram[s], e)
  <2>1. /\ e \in Entry /\ e.next = ram[s].next /\ e.enabled = ram[s].enabled /\ e.type = ram[s].type
        /\ e.window = ram[s].window /\ e.actions = ram[s].actions /\ e.conds = ram[s].conds
        /\ e.read = ram[s].read
    BY <1>1, <1>2, EntryFields DEF Entry
  <2> HIDE DEF e
  <2> QED BY <1>1, <2>1, EntryFields DEF InPlan, Kept
<1> HIDE DEF e
<1>6. m \in Entry /\ InPlan(m) /\ Kept(e, m)
  <2> HIDE DEF starts
  <2> QED BY <1>5, MaybeMarked
<1> HIDE DEF starts, m
<1>7. Kept(ram[s], m)
  BY <1>1, <1>5, <1>6, EntryFields DEF Kept
<1>8. /\ ram' \in [Scenes -> Entry \cup {NoScene}] /\ ram'[s] = m
      /\ \A x \in Scenes \ {s} : ram'[x] = ram[x]
  BY <1>1, <1>4, <1>6 DEF SceneInv, TypeOK
<1>9. \A x \in Scenes : Kept(ram[x], ram'[x])
  BY <1>7, <1>8 DEF Kept
<1>10. /\ RamIsDb' /\ DatesInv' /\ OnceOnly' /\ Listed' = Listed
       /\ \A p \in due : p[2] \in ram'[p[1]].conds
  BY <1>4, <1>9, ListKept
<1>11. IndexInv'
  BY <1>6, <1>8 DEF SceneInv, IndexInv
<1>12. DueInv' /\ due' \subseteq Listed' \X Schedule
  BY <1>4, <1>10 DEF DueInv, SceneInv, TypeOK
<1>13. log' \in [Scenes -> Seq(Action)] /\ started' \subseteq Scenes /\ strays' = strays
  BY <1>1, <1>4, RecordType
<1>14. TypeOK'
  BY <1>4, <1>8, <1>10, <1>12, <1>13 DEF SceneInv, TypeOK, boundVars
<1> QED BY <1>10, <1>11, <1>12, <1>14 DEF SceneInv

LEMMA PassScheduleStep ==
    ASSUME SceneInv, NEW s, NEW c, PassSchedule(s, c)
    PROVE  SceneInv'
<1>1. UNCHANGED <<rows, ram, fired>> /\ due' \subseteq due
  BY DEF PassSchedule, histVars
<1>2. DueInv'
  BY <1>1 DEF SceneInv, DueInv
<1>3. TypeOK'
  BY <1>1, StillList DEF SceneInv, TypeOK, PassSchedule, boundVars, histVars
<1> QED BY <1>1, <1>2, <1>3, StillList DEF SceneInv

-------------------------------------------------------------------------------
(* Messages.                                                                 *)

LEMMA ListeningStep ==
    ASSUME SceneInv, Listening, UNCHANGED passVars
    PROVE  todo' = {} /\ due' = {} /\ DueInv'
BY DEF Listening, passVars, DueInv

LEMMA DeviceReportStep ==
    ASSUME SceneInv, NEW d \in Devices, NEW v \in Values, DeviceReport(d, v)
    PROVE  SceneInv'
<1> DEFINE S == {s \in Listed : RunBy(ram[s], d, dps')}
<1>1. /\ ram' = [s \in Scenes |-> IF s \in S THEN markSceneToRun(ram[s]) ELSE ram[s]]
      /\ Record(S) /\ dps' = [dps EXCEPT ![d] = v]
      /\ reports < MaxReports /\ reports' = reports + 1
      /\ UNCHANGED <<rows, now, passVars, edits, restarts, fired>> /\ Listening
  BY DEF DeviceReport
<1>2. S \in SUBSET Scenes /\ S \subseteq Listed
  BY DEF Listed
<1> HIDE DEF S
<1>3. ASSUME NEW s \in Scenes
      PROVE  ram'[s] \in Entry \cup {NoScene} /\ InPlan(ram'[s]) /\ Kept(ram[s], ram'[s])
  <2>1. ram[s] \in Entry \cup {NoScene} /\ InPlan(ram[s])
    BY DEF SceneInv, TypeOK, IndexInv
  <2>2. CASE s \in S
    <3>1. ram[s] \in Entry
      BY <1>2, <2>1, <2>2 DEF Listed
    <3>2. markSceneToRun(ram[s]) \in Entry /\ InPlan(markSceneToRun(ram[s]))
          /\ Kept(ram[s], markSceneToRun(ram[s]))
      BY <2>1, <3>1, MaybeMarked
    <3> QED BY <1>1, <2>2, <3>2
  <2>3. CASE s \notin S
    BY <1>1, <2>1, <2>3 DEF Kept
  <2> QED BY <2>2, <2>3
<1>4. ram' \in [Scenes -> Entry \cup {NoScene}] /\ IndexInv'
  BY <1>1, <1>3 DEF IndexInv
<1>5. /\ RamIsDb' /\ DatesInv' /\ OnceOnly' /\ Listed' = Listed
  BY <1>1, <1>3, ListKept
<1>6. todo' = {} /\ due' = {} /\ DueInv'
  BY <1>1, ListeningStep
<1>7. log' \in [Scenes -> Seq(Action)] /\ started' \subseteq Scenes /\ strays' = strays
  BY <1>1, <1>2, RecordType
<1>8. dps' \in [Devices -> Values \cup {NoDp}] /\ reports' \in 0..MaxReports
  BY <1>1, BoundsAssumption DEF SceneInv, TypeOK
<1>9. TypeOK'
  BY <1>1, <1>4, <1>6, <1>7, <1>8 DEF SceneInv, TypeOK
<1> QED BY <1>4, <1>5, <1>6, <1>9 DEF SceneInv

LEMMA StatusReportStep ==
    ASSUME SceneInv, NEW d \in Devices, NEW v \in Values, StatusReport(d, v)
    PROVE  SceneInv'
<1>1. UNCHANGED <<rows, ram, fired>> /\ todo' = {} /\ due' = {} /\ DueInv'
  BY ListeningStep DEF StatusReport, histVars
<1>2. dps' \in [Devices -> Values \cup {NoDp}] /\ reports' \in 0..MaxReports
  BY BoundsAssumption DEF SceneInv, TypeOK, StatusReport
<1>3. TypeOK'
  BY <1>1, <1>2 DEF SceneInv, TypeOK, StatusReport, histVars
<1> QED BY <1>1, <1>3, StillList DEF SceneInv

LEMMA ControlSceneStep ==
    ASSUME SceneInv, NEW s \in Scenes, NEW on \in BOOLEAN, ControlScene(s, on)
    PROVE  SceneInv'
<1>1. s \in Listed /\ ram[s] \in Entry /\ InPlan(ram[s]) /\ ram \in [Scenes -> Entry \cup {NoScene}]
  BY DEF ControlScene, Listed, SceneInv, TypeOK, IndexInv
<1>2. todo' = {} /\ due' = {} /\ DueInv'
  BY ListeningStep DEF ControlScene
<1>3. edits' \in 0..MaxEdits /\ UNCHANGED <<dps, now, reports, restarts, fired>>
  BY BoundsAssumption DEF SceneInv, TypeOK, ControlScene
<1>4. /\ ram' \in [Scenes -> Entry \cup {NoScene}] /\ IndexInv' /\ RamIsDb' /\ DatesInv' /\ OnceOnly'
      /\ rows' \in [Scenes -> Row \cup {NoScene}]
      /\ log' \in [Scenes -> Seq(Action)] /\ started' \subseteq Scenes /\ strays' = strays
  <2>1. CASE ram[s].type = "manual"
    <3> DEFINE f == markSceneToRun(ram[s])
    <3>1. ram' = [ram EXCEPT ![s] = f] /\ Record({s}) /\ UNCHANGED rows
      BY <2>1 DEF ControlScene
    <3>2. f \in Entry /\ InPlan(f) /\ Kept(ram[s], f)
      BY <1>1, MaybeMarked
    <3> HIDE DEF f
    <3>3. /\ ram' \in [Scenes -> Entry \cup {NoScene}] /\ ram'[s] = f
          /\ \A x \in Scenes \ {s} : ram'[x] = ram[x]
      BY <1>1, <3>1, <3>2
    <3>4. \A x \in Scenes : Kept(ram[x], ram'[x])
      BY <3>2, <3>3 DEF Kept
    <3>5. RamIsDb' /\ DatesInv' /\ OnceOnly'
      BY <1>3, <3>1, <3>4, ListKept
    <3>6. IndexInv'
      BY <3>2, <3>3 DEF SceneInv, IndexInv
    <3>7. log' \in [Scenes -> Seq(Action)] /\ started' \subseteq Scenes /\ strays' = strays
      BY <3>1, RecordType
    <3> QED BY <3>1, <3>3, <3>5, <3>6, <3>7 DEF SceneInv, TypeOK
  <2>2. CASE ram[s].type # "manual"
    <3> DEFINE f == [ram[s] EXCEPT !.enabled = on]
    <3>1. Db_EnableScene(s, on) /\ ram' = [ram EXCEPT ![s] = f] /\ UNCHANGED <<log, started, strays>>
      BY <2>2 DEF ControlScene
    <3>2. /\ f \in Entry /\ f.next = ram[s].next /\ f.enabled = on /\ f.type = ram[s].type
          /\ f.window = ram[s].window /\ f.actions = ram[s].actions /\ f.conds = ram[s].conds
      BY <1>1, SwitchedEntry
    <3> HIDE DEF f
    <3>3. /\ ram' \in [Scenes -> Entry \cup {NoScene}] /\ ram'[s] = f
          /\ \A x \in Scenes \ {s} : ram'[x] = ram[x]
      BY <1>1, <3>1, <3>2
    <3>4. /\ rows' \in [Scenes -> Row \cup {NoScene}] /\ DatesInv' /\ OnceOnly'
          /\ \A x \in Scenes \ {s} : rows'[x] = rows[x]
          /\ rows[s] # NoScene /\ rows'[s] # NoScene
          /\ rows'[s].enabled = on /\ rows'[s].type = rows[s].type
          /\ rows'[s].window = rows[s].window /\ rows'[s].actions = rows[s].actions
          /\ rows'[s].conds = rows[s].conds
      BY <1>1, <1>3, <3>1, EnableStep
    <3>5. InPlan(f) /\ f # NoScene
      BY <1>1, <3>2, EntryFields DEF InPlan
    <3>6. \A x \in Scenes : Says(ram[x], rows[x])
      BY RamSays DEF SceneInv
    <3>7. Says(f, rows'[s])
      BY <1>1, <3>2, <3>4, <3>5, <3>6 DEF Says
    <3>8. \A x \in Scenes : Says(ram'[x], rows'[x])
      BY <3>3, <3>4, <3>6, <3>7
    <3>9. RamIsDb'
      BY <3>8 DEF RamIsDb, Says
    <3>10. IndexInv'
      BY <3>3, <3>5 DEF SceneInv, IndexInv
    <3> QED BY <3>1, <3>3, <3>4, <3>9, <3>10 DEF SceneInv, TypeOK
  <2> QED BY <2>1, <2>2
<1>5. TypeOK'
  BY <1>2, <1>3, <1>4 DEF SceneInv, TypeOK
<1> QED BY <1>2, <1>4, <1>5 DEF SceneInv

-------------------------------------------------------------------------------
(* The list is read again.                                                   *)

LEMMA Reloaded ==
    ASSUME SceneInv, rows' \in [Scenes -> Row \cup {NoScene}], Db_LoadSceneToRam(rows'),
           todo' = {}, due' = {}
    PROVE  ram' \in [Scenes -> Entry \cup {NoScene}] /\ RamIsDb' /\ IndexInv' /\ DueInv'
<1>1. /\ ram' \in [Scenes -> Entry \cup {NoScene}]
      /\ \A s \in Scenes : InPlan(ram'[s]) /\ Says(ram'[s], rows'[s])
  BY LoadStep, BoundsAssumption DEF SceneInv, TypeOK
<1>2. RamIsDb'
  BY <1>1 DEF RamIsDb, Says
<1> QED BY <1>1, <1>2 DEF IndexInv, DueInv

LEMMA EditStep ==
    ASSUME SceneInv, Edit, rows' \in [Scenes -> Row \cup {NoScene}], Db_LoadSceneToRam(rows'),
           dps' \in [Devices -> Values \cup {NoDp}], fired' \in [Scenes -> Nat],
           strays' \subseteq Devices, DatesInv', OnceOnly'
    PROVE  SceneInv'
<1>1. todo' = {} /\ due' = {}
  BY ListeningStep DEF Edit
<1>2. ram' \in [Scenes -> Entry \cup {NoScene}] /\ RamIsDb' /\ IndexInv' /\ DueInv'
  BY <1>1, Reloaded
<1>3. edits' \in 0..MaxEdits /\ UNCHANGED <<now, reports, restarts, log, started>>
  BY BoundsAssumption DEF SceneInv, TypeOK, Edit
<1>4. TypeOK'
  BY <1>1, <1>2, <1>3 DEF SceneInv, TypeOK
<1> QED BY <1>2, <1>4 DEF SceneInv

LEMMA UsedCount ==
    ASSUME NEW conds, Fresh(conds)
    PROVE  IsFiniteSet(UsedUp(conds)) /\ Cardinality(UsedUp(conds)) \in Nat
<1>1. IsFiniteSet(UsedUp(conds))
  BY FS_Subset DEF Fresh, UsedUp
<1> QED BY <1>1, FS_CardinalityType

(* A scene as the app writes it. *)
LEMMA WrittenRow ==
    ASSUME NEW s \in Scenes, NEW r \in Library[s]
    PROVE  r \in Row /\ Fresh(r.conds)
<1>1. r \in Row /\ IsFiniteSet(r.conds) /\ \A c \in r.conds : c.kind = "schedule" => ~c.over
  BY LibraryAssumption
<1>2. ASSUME NEW c \in r.conds, c.kind = "schedule", [c EXCEPT !.over = TRUE] \in r.conds
      PROVE  FALSE
  <2>1. c \in Schedule
    BY <1>1, <1>2, RowFields, ConditionKinds
  <2> QED BY <1>1, <1>2, <2>1, ScheduleFields
<1> QED BY <1>1, <1>2 DEF Fresh

LEMMA WriteStep ==
    ASSUME SceneInv, Edit, NEW s \in Scenes, NEW r \in Library[s],
           rows' = [rows EXCEPT ![s] = r], fired' = [fired EXCEPT ![s] = 0],
           Db_LoadSceneToRam(rows'), dps' = dps, strays' = strays
    PROVE  SceneInv'
<1>1. r \in Row /\ Fresh(r.conds)
  BY WrittenRow
<1>2. /\ rows' \in [Scenes -> Row \cup {NoScene}] /\ rows'[s] = r
      /\ \A x \in Scenes \ {s} : rows'[x] = rows[x]
  BY <1>1 DEF SceneInv, TypeOK
<1>3. /\ fired' \in [Scenes -> Nat] /\ fired'[s] = 0
      /\ \A x \in Scenes \ {s} : fired'[x] = fired[x]
  BY DEF SceneInv, TypeOK
<1>4. DatesInv'
  BY <1>1, <1>2 DEF SceneInv, DatesInv
<1>5. fired'[s] <= Cardinality(UsedUp(rows'[s].conds))
  BY <1>1, <1>2, <1>3, UsedCount
<1>6. OnceOnly'
  BY <1>2, <1>3, <1>5 DEF SceneInv, OnceOnly, UsedUp
<1> QED BY <1>2, <1>3, <1>4, <1>6, EditStep DEF SceneInv, TypeOK

LEMMA AddSceneStep ==
    ASSUME SceneInv, NEW s \in Scenes, AddScene(s)
    PROVE  SceneInv'
<1>1. CASE rows[s] = NoScene
  <2>1. PICK r \in Library[s] : rows' = [rows EXCEPT ![s] = r]
    BY <1>1 DEF AddScene
  <2> QED BY <1>1, <2>1, WriteStep DEF AddScene
<1>2. CASE rows[s] # NoScene
  <2>1. UNCHANGED <<rows, fired, dps, strays>> /\ Edit /\ Db_LoadSceneToRam(rows')
    BY <1>2 DEF AddScene
  <2>2. DatesInv' /\ OnceOnly'
    BY <2>1, TableKept
  <2> QED BY <2>1, <2>2, EditStep DEF SceneInv, TypeOK
<1> QED BY <1>1, <1>2

LEMMA UpdateSceneStep ==
    ASSUME SceneInv, NEW s \in Scenes, UpdateScene(s)
    PROVE  SceneInv'
<1>1. PICK r \in Library[s] : rows' = [rows EXCEPT ![s] = r]
  BY DEF UpdateScene
<1> QED BY <1>1, WriteStep DEF UpdateScene

-------------------------------------------------------------------------------
(* Induction on the natural numbers, for sets: the theorems of the library
   that take an operator as a parameter cannot be used.                      *)

LEMMA NatOrder ==
    \E R : IsWellFoundedOn(R, Nat) /\ \A x, y \in Nat : y < x => <<y, x>> \in R
<1>1. IsWellFoundedOn(OpToRel(<, Nat), Nat)
  BY NatLessThanWellFounded
<1>2. \A x, y \in Nat : y < x => <<y, x>> \in OpToRel(<, Nat)
  BY DEF OpToRel
<1> QED BY <1>1, <1>2, Zenon

(* A set of natural numbers has a least one. *)
LEMMA Least ==
    ASSUME NEW S \in SUBSET Nat, S # {}
    PROVE  \E m \in S : \A k \in S : m <= k
<1>1. PICK R : IsWellFoundedOn(R, Nat) /\ \A x, y \in Nat : y < x => <<y, x>> \in R
  BY NatOrder, Zenon
<1>2. PICK m \in S : \A y \in S : <<y, m>> \notin R
  BY <1>1, WFMin, Zenon
<1>3. \A y \in S : ~(y < m)
  BY <1>1, <1>2, Zenon
<1> QED BY <1>3

LEMMA Induction ==
    ASSUME NEW S, 0 \in S, \A n \in Nat : n \in S => n + 1 \in S
    PROVE  Nat \subseteq S
<1> SUFFICES ASSUME Nat \ S # {} PROVE FALSE
  OBVIOUS
<1>1. PICK m \in Nat \ S : \A k \in Nat \ S : m <= k
  BY Least
<1>2. m # 0 /\ m - 1 \in Nat
  BY <1>1
<1>3. m - 1 \in S
  BY <1>1, <1>2
<1> QED BY <1>1, <1>2, <1>3

-------------------------------------------------------------------------------
(* What is left of a plan.                                                   *)

(* f holds what is left of the first 0, 1, ..., n actions. *)
IsLeft(f, plan, gone, n) ==
    f = [k \in 0..n |->
            IF k = 0 THEN <<>>
            ELSE IF plan[k].entity \in gone THEN f[k - 1] ELSE Append(f[k - 1], plan[k])]

LEMMA LeftExists ==
    ASSUME NEW plan, NEW gone, NEW n \in Nat
    PROVE  \E f : IsLeft(f, plan, gone, n)
<1> DEFINE S == {m \in Nat : \E f : IsLeft(f, plan, gone, m)}
<1>1. 0 \in S
  <2>1. IsLeft([k \in 0..0 |-> <<>>], plan, gone, 0)
    BY DEF IsLeft
  <2> QED BY <2>1
<1>2. ASSUME NEW m \in Nat, m \in S
      PROVE  m + 1 \in S
  <2>1. PICK f : IsLeft(f, plan, gone, m)
    BY <1>2
  <2> DEFINE last == IF plan[m + 1].entity \in gone THEN f[m] ELSE Append(f[m], plan[m + 1])
             g == [k \in 0..(m + 1) |-> IF k = m + 1 THEN last ELSE f[k]]
  <2>2. \A k \in 0..m : f[k] = IF k = 0 THEN <<>>
                               ELSE IF plan[k].entity \in gone THEN f[k - 1]
                               ELSE Append(f[k - 1], plan[k])
    BY <2>1 DEF IsLeft
  <2>3. /\ g[m + 1] = last /\ \A k \in 0..m : g[k] = f[k]
    OBVIOUS
  <2>4. g = [k \in 0..(m + 1) |-> g[k]]
    OBVIOUS
  <2>5. g[m + 1] = IF plan[m + 1].entity \in gone THEN g[m] ELSE Append(g[m], plan[m + 1])
    BY <2>3
  <2> HIDE DEF last, g
  <2>6. ASSUME NEW k \in 0..(m + 1)
        PROVE  g[k] = IF k = 0 THEN <<>>
                      ELSE IF plan[k].entity \in gone THEN g[k - 1] ELSE Append(g[k - 1], plan[k])
    <3>1. CASE k = m + 1
      BY <2>5, <3>1
    <3>2. CASE k \in 0..m /\ k # 0
      <4>1. g[k] = f[k] /\ g[k - 1] = f[k - 1]
        BY <2>3, <3>2
      <4> QED BY <2>2, <3>2, <4>1
    <3>3. CASE k = 0
      BY <2>2, <2>3, <3>3
    <3> QED BY <3>1, <3>2, <3>3
  <2>7. IsLeft(g, plan, gone, m + 1)
    BY <2>4, <2>6 DEF IsLeft
  <2> QED BY <2>7
<1> HIDE DEF S
<1>3. Nat \subseteq S
  BY <1>1, <1>2, Induction
<1> QED BY <1>3 DEF S

LEMMA LeftSteps ==
    ASSUME NEW plan \in Seq(Action), NEW gone
    PROVE  \E f : /\ f[0] = <<>> /\ f[Len(plan)] = Without(plan, gone)
                  /\ \A k \in 1..Len(plan) : f[k] = IF plan[k].entity \in gone THEN f[k - 1]
                                                    ELSE Append(f[k - 1], plan[k])
<1> DEFINE f == CHOOSE f : IsLeft(f, plan, gone, Len(plan))
           n == Len(plan)
<1>1. n \in Nat
  OBVIOUS
<1>2. IsLeft(f, plan, gone, n)
  BY <1>1, LeftExists, Zenon
<1>3. Without(plan, gone) = f[n]
  BY Zenon DEF Without, IsLeft
<1> HIDE DEF f, n
<1>4. \A k \in 0..n : f[k] = IF k = 0 THEN <<>>
                             ELSE IF plan[k].entity \in gone THEN f[k - 1]
                             ELSE Append(f[k - 1], plan[k])
  BY <1>2 DEF IsLeft
<1>5. 0 \in 0..n /\ \A k \in 1..n : k \in 0..n /\ k # 0
  BY <1>1
<1>6. f[0] = <<>> /\ \A k \in 1..n : f[k] = IF plan[k].entity \in gone THEN f[k - 1]
                                            ELSE Append(f[k - 1], plan[k])
  BY <1>4, <1>5
<1> QED BY <1>3, <1>6 DEF n

(* The actions that are not about what is gone. *)
Other(gone) == {a \in Action : a.entity \notin gone}

(* What is left are the actions that are not about what is gone. *)
LEMMA WithoutLeaves ==
    ASSUME NEW plan \in Seq(Action), NEW gone
    PROVE  /\ Without(plan, gone) \in Seq(Other(gone))
           /\ \A i \in 1..Len(Without(plan, gone)) :
                 \E j \in 1..Len(plan) : Without(plan, gone)[i] = plan[j]
           /\ \A j \in 1..Len(plan) : plan[j].entity \notin gone =>
                 \E i \in 1..Len(Without(plan, gone)) : Without(plan, gone)[i] = plan[j]
<1> DEFINE n == Len(plan)
<1>1. PICK f : /\ f[0] = <<>> /\ f[n] = Without(plan, gone)
               /\ \A k \in 1..n : f[k] = IF plan[k].entity \in gone THEN f[k - 1]
                                         ELSE Append(f[k - 1], plan[k])
  BY LeftSteps
<1>2. n \in Nat /\ \A k \in 1..n : plan[k] \in Action
  OBVIOUS
<1> DEFINE Good(m) == /\ f[m] \in Seq(Other(gone))
                      /\ \A i \in 1..Len(f[m]) : \E j \in 1..m : f[m][i] = plan[j]
                      /\ \A j \in 1..m : plan[j].entity \notin gone =>
                            \E i \in 1..Len(f[m]) : f[m][i] = plan[j]
           S == {m \in Nat : m <= n => Good(m)}
<1> HIDE DEF n
<1>3. Good(0)
  <2>1. <<>> \in Seq(Other(gone)) /\ Len(<<>>) = 0
    OBVIOUS
  <2> QED BY <1>1, <2>1
<1>4. ASSUME NEW m \in Nat, m + 1 <= n, Good(m)
      PROVE  Good(m + 1)
  <2>1. m + 1 \in 1..n /\ plan[m + 1] \in Action
    BY <1>2, <1>4
  <2>2. f[m + 1] = IF plan[m + 1].entity \in gone THEN f[m] ELSE Append(f[m], plan[m + 1])
    BY <1>1, <2>1
  <2>3. \A j \in 1..(m + 1) : j \in 1..m \/ j = m + 1
    OBVIOUS
  <2>4. \A j \in 1..m : j \in 1..(m + 1)
    OBVIOUS
  <2>5. CASE plan[m + 1].entity \in gone
    <3>1. f[m + 1] = f[m]
      BY <2>2, <2>5
    <3> QED BY <1>4, <2>3, <2>4, <2>5, <3>1
  <2>6. CASE plan[m + 1].entity \notin gone
    <3>1. plan[m + 1] \in Other(gone)
      BY <2>1, <2>6 DEF Other
    <3> DEFINE l == Len(f[m])
    <3>2. f[m + 1] = Append(f[m], plan[m + 1]) /\ l \in Nat
      BY <1>4, <2>2, <2>6
    <3>3. /\ f[m + 1] \in Seq(Other(gone)) /\ Len(f[m + 1]) = l + 1
          /\ f[m + 1][l + 1] = plan[m + 1] /\ \A i \in 1..l : f[m + 1][i] = f[m][i]
      BY <1>4, <3>1, <3>2, AppendProperties
    <3>4. ASSUME NEW i \in 1..Len(f[m + 1])
          PROVE  \E j \in 1..(m + 1) : f[m + 1][i] = plan[j]
      <4>1. i \in 1..l \/ i = l + 1
        BY <3>2, <3>3
      <4> QED BY <1>4, <2>4, <3>3, <4>1
    <3>5. ASSUME NEW j \in 1..(m + 1), plan[j].entity \notin gone
          PROVE  \E i \in 1..Len(f[m + 1]) : f[m + 1][i] = plan[j]
      <4>1. l + 1 \in 1..Len(f[m + 1]) /\ \A i \in 1..l : i \in 1..Len(f[m + 1])
        BY <3>2, <3>3
      <4>2. CASE j = m + 1
        BY <3>3, <4>1, <4>2
      <4>3. CASE j \in 1..m
        <5>1. PICK i \in 1..l : f[m][i] = plan[j]
          BY <1>4, <3>5, <4>3
        <5> QED BY <3>3, <4>1, <5>1
      <4> QED BY <2>3, <4>2, <4>3
    <3> QED BY <3>3, <3>4, <3>5
  <2> QED BY <2>5, <2>6
<1> HIDE DEF Good
<1>5. 0 \in S /\ \A m \in Nat : m \in S => m + 1 \in S
  BY <1>2, <1>3, <1>4
<1> HIDE DEF S
<1>6. n \in S
  BY <1>2, <1>5, Induction
<1>7. Good(n)
  BY <1>2, <1>6 DEF S
<1> QED BY <1>1, <1>7 DEF Good, n

(* Nothing is left when all actions were about what is gone. *)
LEMMA WithoutNothing ==
    ASSUME NEW plan \in Seq(Action), NEW gone
    PROVE  Without(plan, gone) = <<>> <=> \A j \in 1..Len(plan) : plan[j].entity \in gone
<1> DEFINE rest == Without(plan, gone)
<1>1. /\ rest \in Seq(Other(gone))
      /\ \A i \in 1..Len(rest) : \E j \in 1..Len(plan) : rest[i] = plan[j]
      /\ \A j \in 1..Len(plan) : plan[j].entity \notin gone =>
            \E i \in 1..Len(rest) : rest[i] = plan[j]
  BY WithoutLeaves
<1>2. \A i \in 1..Len(rest) : rest[i].entity \notin gone
  <2>1. \A i \in 1..Len(rest) : rest[i] \in Other(gone)
    <3> HIDE DEF rest
    <3> QED BY <1>1, ElementOfSeq
  <2> QED BY <2>1 DEF Other
<1>3. Len(rest) \in Nat /\ (rest = <<>> <=> Len(rest) = 0)
  <2> HIDE DEF rest
  <2> QED BY <1>1, EmptySeq
<1> HIDE DEF rest
<1>4. CASE rest = <<>>
  BY <1>1, <1>3, <1>4 DEF rest
<1>5. CASE rest # <<>>
  <2>1. 1 \in 1..Len(rest)
    BY <1>3, <1>5
  <2> QED BY <1>1, <1>2, <1>5, <2>1 DEF rest
<1> QED BY <1>4, <1>5
-------------------------------------------------------------------------------
(* Deletions.                                                                *)

LEMMA FreshSubset ==
    ASSUME NEW conds, Fresh(conds), NEW D \in SUBSET conds
    PROVE  Fresh(D)
BY FS_Subset DEF Fresh

LEMMA Cascade ==
    ASSUME NEW rs \in [Scenes -> Row \cup {NoScene}], NEW X
    PROVE  LET qs == DeleteDeviceFromScenes(rs, X) IN
           /\ qs \in [Scenes -> Row \cup {NoScene}]
           /\ \A s \in Scenes : qs[s] # NoScene =>
                 /\ rs[s] # NoScene /\ qs[s].conds \subseteq rs[s].conds
                 /\ UsedUp(qs[s].conds) = UsedUp(rs[s].conds)
<1> DEFINE gone == Gone(rs, X)
           left(s) == [rs[s] EXCEPT !.actions = Without(@, gone),
                                    !.conds = {c \in @ : c.kind = "device" => c.dev \notin gone}]
           qs == [s \in Scenes |-> IF rs[s] = NoScene \/ s \in Emptied(rs, gone) THEN NoScene ELSE left(s)]
<1>1. gone \in SUBSET (Scenes \cup Devices)
  BY DEF Gone
<1>2. DeleteDeviceFromScenes(rs, X) = qs
  BY DEF DeleteDeviceFromScenes
<1> HIDE DEF gone
<1>3. ASSUME NEW s \in Scenes, rs[s] # NoScene, s \notin Emptied(rs, gone)
      PROVE  /\ left(s) \in Row /\ left(s).conds \subseteq rs[s].conds
             /\ UsedUp(left(s).conds) = UsedUp(rs[s].conds)
  <2> DEFINE W == Without(rs[s].actions, gone)
             D == {c \in rs[s].conds : c.kind = "device" => c.dev \notin gone}
  <2>1. rs[s] \in Row /\ rs[s].actions \in Plans /\ rs[s].conds \subseteq Condition
    BY <1>3, RowFields
  <2>2. W \in Plans
    BY <1>1, <1>3, <2>1, PlansAssumption DEF Emptied
  <2>3. D \in SUBSET Condition /\ D \subseteq rs[s].conds /\ UsedUp(D) = UsedUp(rs[s].conds)
    BY <2>1 DEF UsedUp
  <2>4. left(s) = [rs[s] EXCEPT !.actions = W, !.conds = D]
    BY <2>1 DEF Row
  <2> HIDE DEF W, D, left
  <2>5. left(s) \in Row /\ left(s).conds = D
    BY <2>1, <2>2, <2>3, <2>4 DEF Row
  <2> QED BY <2>3, <2>5
<1> HIDE DEF left
<1>4. ASSUME NEW s \in Scenes
      PROVE  /\ qs[s] \in Row \cup {NoScene}
             /\ qs[s] # NoScene => /\ rs[s] # NoScene /\ qs[s].conds \subseteq rs[s].conds
                                   /\ UsedUp(qs[s].conds) = UsedUp(rs[s].conds)
  <2>1. CASE rs[s] = NoScene \/ s \in Emptied(rs, gone)
    BY <2>1
  <2>2. CASE ~(rs[s] = NoScene \/ s \in Emptied(rs, gone))
    <3>1. qs[s] = left(s)
      BY <2>2
    <3> HIDE DEF qs
    <3> QED BY <1>3, <2>2, <3>1
  <2> QED BY <2>1, <2>2
<1>5. qs \in [Scenes -> Row \cup {NoScene}]
  BY <1>4
<1> HIDE DEF qs
<1> QED BY <1>2, <1>4, <1>5

(* What goes by a deletion is what is deleted and the scenes that it empties. *)
LEMMA EmptiedGrows ==
    ASSUME NEW rs \in [Scenes -> Row \cup {NoScene}], NEW Q, NEW R, Q \subseteq R
    PROVE  Emptied(rs, Q) \subseteq Emptied(rs, R)
<1> SUFFICES ASSUME NEW s \in Emptied(rs, Q)
             PROVE  s \in Emptied(rs, R)
  OBVIOUS
<1>1. s \in Scenes /\ rs[s] # NoScene /\ Without(rs[s].actions, Q) = <<>>
  BY DEF Emptied
<1>2. rs[s].actions \in Seq(Action)
  BY <1>1, RowFields, PlanType
<1>3. \A j \in 1..Len(rs[s].actions) : rs[s].actions[j].entity \in Q
  BY <1>1, <1>2, WithoutNothing
<1>4. Without(rs[s].actions, R) = <<>>
  BY <1>2, <1>3, WithoutNothing
<1> QED BY <1>1, <1>4 DEF Emptied

LEMMA GoneIsFixed ==
    ASSUME NEW rs \in [Scenes -> Row \cup {NoScene}], NEW X \in SUBSET (Scenes \cup Devices)
    PROVE  Gone(rs, X) = X \cup Emptied(rs, Gone(rs, X))
<1> DEFINE U == Scenes \cup Devices
           G == Gone(rs, X)
           Closed(R) == X \subseteq R /\ Emptied(rs, R) \subseteq R
           F == X \cup Emptied(rs, G)
<1>1. G = {y \in U : \A R \in SUBSET U : Closed(R) => y \in R}
  BY DEF Gone
<1> HIDE DEF G
<1>2. ASSUME NEW R \in SUBSET U, Closed(R)
      PROVE  G \subseteq R
  BY <1>1, <1>2
<1>3. X \subseteq G
  BY <1>1
<1>4. Emptied(rs, G) \subseteq G
  <2> SUFFICES ASSUME NEW y \in Emptied(rs, G), NEW R \in SUBSET U, Closed(R)
               PROVE  y \in R
    BY <1>1 DEF Emptied
  <2> QED BY <1>2, EmptiedGrows
<1>5. F \subseteq G
  BY <1>3, <1>4
<1>6. Closed(F) /\ F \in SUBSET U
  BY <1>1, <1>5, EmptiedGrows
<1>7. G \subseteq F
  BY <1>2, <1>6
<1> QED BY <1>5, <1>7 DEF G

(* q is what is left of the row r. *)
Cleaned(q, r, gone) ==
    /\ q # NoScene /\ q.actions = Without(r.actions, gone) /\ q.actions # <<>>
    /\ q.conds = {c \in r.conds : c.kind = "device" => c.dev \notin gone}

LEMMA CascadeIsClean ==
    ASSUME NEW rs \in [Scenes -> Row \cup {NoScene}], NEW X, NEW s \in Scenes
    PROVE  IF rs[s] = NoScene \/ s \in Emptied(rs, Gone(rs, X))
           THEN DeleteDeviceFromScenes(rs, X)[s] = NoScene
           ELSE Cleaned(DeleteDeviceFromScenes(rs, X)[s], rs[s], Gone(rs, X))
<1> DEFINE gone == Gone(rs, X)
           q == DeleteDeviceFromScenes(rs, X)[s]
           W == Without(rs[s].actions, gone)
           D == {c \in rs[s].conds : c.kind = "device" => c.dev \notin gone}
<1>1. q = IF rs[s] = NoScene \/ s \in Emptied(rs, gone) THEN NoScene
          ELSE [rs[s] EXCEPT !.actions = W, !.conds = D]
  <2>1. rs[s] # NoScene => [rs[s] EXCEPT !.actions = W, !.conds = D]
          = [rs[s] EXCEPT !.actions = Without(@, gone),
                          !.conds = {c \in @ : c.kind = "device" => c.dev \notin gone}]
    BY DEF Row
  <2> QED BY <2>1 DEF DeleteDeviceFromScenes
<1>2. CASE rs[s] = NoScene \/ s \in Emptied(rs, gone)
  BY <1>1, <1>2
<1>3. CASE ~(rs[s] = NoScene \/ s \in Emptied(rs, gone))
  <2>1. rs[s] \in Row /\ W # <<>>
    BY <1>3 DEF Emptied
  <2>2. q = [rs[s] EXCEPT !.actions = W, !.conds = D]
    BY <1>1, <1>3
  <2>3. W \in Plans /\ D \in SUBSET Condition
    <3>1. gone \in SUBSET (Scenes \cup Devices)
      BY DEF Gone
    <3> QED BY <2>1, <3>1, RowFields, PlansAssumption
  <2> HIDE DEF W, D, q
  <2>4. q \in Row /\ q.actions = W /\ q.conds = D
    BY <2>1, <2>2, <2>3 DEF Row
  <2>5. q # NoScene
    BY <2>4, RowFields
  <2> QED BY <1>3, <2>1, <2>4, <2>5 DEF W, D, q, Cleaned
<1> QED BY <1>2, <1>3

(* The list is read again after a deletion. *)
LEMMA DeletionStep ==
    ASSUME SceneInv, Edit, NEW X, NEW rs \in [Scenes -> Row \cup {NoScene}],
           \A s \in Scenes : rs[s] # NoScene => rs[s] = rows[s],
           rows' = DeleteDeviceFromScenes(rs, X), Db_LoadSceneToRam(rows'), fired' = fired,
           dps' \in [Devices -> Values \cup {NoDp}], strays' \subseteq Devices
    PROVE  SceneInv'
<1>1. /\ rows' \in [Scenes -> Row \cup {NoScene}]
      /\ \A s \in Scenes : rows'[s] # NoScene =>
            /\ rs[s] # NoScene /\ rows'[s].conds \subseteq rs[s].conds
            /\ UsedUp(rows'[s].conds) = UsedUp(rs[s].conds)
  BY Cascade
<1>2. \A s \in Scenes : rows'[s] # NoScene =>
            /\ rows[s] # NoScene /\ rows'[s].conds \subseteq rows[s].conds
            /\ UsedUp(rows'[s].conds) = UsedUp(rows[s].conds)
  BY <1>1
<1>3. DatesInv'
  BY <1>2, FreshSubset DEF SceneInv, DatesInv
<1>4. OnceOnly'
  BY <1>2 DEF SceneInv, OnceOnly, UsedUp
<1>5. fired' \in [Scenes -> Nat]
  BY DEF SceneInv, TypeOK
<1> QED BY <1>1, <1>3, <1>4, <1>5, EditStep

LEMMA DeleteSceneStep ==
    ASSUME SceneInv, NEW s \in Scenes, DeleteScene(s)
    PROVE  SceneInv'
<1> DEFINE rs == [rows EXCEPT ![s] = NoScene]
<1>1. /\ rs \in [Scenes -> Row \cup {NoScene}]
      /\ \A x \in Scenes : rs[x] # NoScene => rs[x] = rows[x]
  BY DEF SceneInv, TypeOK
<1>2. /\ Edit /\ rows' = DeleteDeviceFromScenes(rs, {s}) /\ Db_LoadSceneToRam(rows')
      /\ fired' = fired /\ dps' \in [Devices -> Values \cup {NoDp}] /\ strays' \subseteq Devices
  BY DEF DeleteScene, SceneInv, TypeOK
<1> HIDE DEF rs
<1> QED BY <1>1, <1>2, DeletionStep

(* A device that is deleted, and a hub that is kicked out. *)
LEMMA DeviceDeletions ==
    ASSUME \/ \E d \in Devices : DeleteDevice(d)
           \/ \E hub, others \in SUBSET Devices : KickOutHub(hub, others)
    PROVE  \E D, E \in SUBSET Devices : D # {} /\ D \cap E = {} /\ DeleteDevices(D, E)
<1>1. ASSUME NEW d \in Devices, DeleteDevice(d)
      PROVE  \E D, E \in SUBSET Devices : D # {} /\ D \cap E = {} /\ DeleteDevices(D, E)
  <2> WITNESS {d} \in SUBSET Devices
  <2> WITNESS {} \in SUBSET Devices
  <2> QED BY <1>1 DEF DeleteDevice
<1> QED BY <1>1 DEF KickOutHub

LEMMA DeleteDevicesStep ==
    ASSUME SceneInv, NEW D \in SUBSET Devices, NEW E \in SUBSET Devices, DeleteDevices(D, E)
    PROVE  SceneInv'
<1>1. rows \in [Scenes -> Row \cup {NoScene}]
  BY DEF SceneInv, TypeOK
<1>2. /\ Edit /\ rows' = DeleteDeviceFromScenes(rows, D) /\ Db_LoadSceneToRam(rows')
      /\ fired' = fired /\ dps' \in [Devices -> Values \cup {NoDp}] /\ strays' \subseteq Devices
  BY DEF DeleteDevices, SceneInv, TypeOK
<1> QED BY <1>1, <1>2, DeletionStep

-------------------------------------------------------------------------------
(* What a deletion takes away.                                               *)

(* The step deletes X, a scene or some devices, and the rows of E with it. *)
Deletes(X, E) ==
    /\ rows' = DeleteDeviceFromScenes([s \in Scenes |-> IF s \in X THEN NoScene ELSE rows[s]], X)
    /\ X # {} /\ (X \subseteq Devices \/ \E s \in Scenes : X = {s})
    /\ \A s \in X \cap Scenes : rows[s] # NoScene
    /\ E \subseteq Devices /\ X \cap E = {} /\ strays' = strays \cup E
    /\ \A d \in Devices : dps[d] # NoDp /\ dps'[d] = NoDp <=> d \in X \cup E

LEMMA DeletionIsExact ==
    ASSUME SceneInv, StraysInv, NEW X, NEW E, Deletes(X, E)
    PROVE  /\ X \subseteq TakenAway
           /\ \A s \in Scenes \ X : rows[s] # NoScene =>
                 IF rows'[s] = NoScene
                 THEN \A j \in 1..Len(rows[s].actions) : rows[s].actions[j].entity \in TakenAway
                 ELSE Cleaned(rows'[s], rows[s], TakenAway)
           /\ \A s \in Scenes : rows'[s] # NoScene => s \notin X /\ rows[s] # NoScene
<1> DEFINE rs == [s \in Scenes |-> IF s \in X THEN NoScene ELSE rows[s]]
           G == Gone(rs, X)
<1>1. rs \in [Scenes -> Row \cup {NoScene}] /\ rows \in [Scenes -> Row \cup {NoScene}]
  BY DEF SceneInv, TypeOK
<1>2. rows' = DeleteDeviceFromScenes(rs, X)
  BY DEF Deletes
<1>3. \A s \in Scenes : rs[s] = IF s \in X THEN NoScene ELSE rows[s]
  OBVIOUS
<1> HIDE DEF rs
<1>4. G = X \cup Emptied(rs, G) /\ X \subseteq Scenes \cup Devices
  BY <1>1, GoneIsFixed DEF Deletes
<1> HIDE DEF G
<1>5. ASSUME NEW s \in Scenes
      PROVE  IF rs[s] = NoScene \/ s \in Emptied(rs, G) THEN rows'[s] = NoScene
             ELSE Cleaned(rows'[s], rs[s], G)
  BY <1>1, <1>2, CascadeIsClean DEF G
<1>6. \A s \in Emptied(rs, G) : s \in Scenes /\ rs[s] # NoScene
  BY DEF Emptied
<1>7. Vanished = G \cup E
  <2>1. \A s \in Scenes : rows[s] # NoScene /\ rows'[s] = NoScene <=> s \in G
    <3>1. \A s \in Scenes : rs[s] = NoScene <=> s \in X \/ rows[s] = NoScene
      BY <1>3
    <3>2. \A s \in X \cap Scenes : rows[s] # NoScene
      BY DEF Deletes
    <3> QED BY <1>4, <1>5, <1>6, <3>1, <3>2 DEF Cleaned
  <2>2. \A d \in Devices : dps[d] # NoDp /\ dps'[d] = NoDp <=> d \in G \cup E
    BY <1>4, <1>6, NamesAssumption DEF Deletes
  <2>3. G \subseteq Scenes \cup Devices /\ E \subseteq Devices
    BY <1>4, <1>6 DEF Deletes
  <2> QED BY <2>1, <2>2, <2>3, NamesAssumption DEF Vanished
<1>8. TakenAway = G
  <2>1. G \cap E = {}
    BY <1>4, <1>6, NamesAssumption DEF Deletes
  <2>2. G \cap strays = {}
    <3>1. \A d \in G \cap Devices : dps[d] # NoDp
      BY <1>4, <1>6, NamesAssumption DEF Deletes
    <3> QED BY <3>1 DEF StraysInv, SceneInv, TypeOK
  <2> QED BY <1>7, <2>1, <2>2 DEF TakenAway, Deletes
<1>9. ASSUME NEW s \in Scenes \ X, rows[s] # NoScene, rows'[s] = NoScene
      PROVE  \A j \in 1..Len(rows[s].actions) : rows[s].actions[j].entity \in G
  <2>1. s \in Emptied(rs, G) /\ rs[s] = rows[s]
    BY <1>3, <1>5, <1>9 DEF Cleaned
  <2>2. Without(rows[s].actions, G) = <<>>
    BY <2>1 DEF Emptied
  <2>3. rows[s].actions \in Seq(Action)
    BY <1>1, <1>9, RowFields, PlanType
  <2> QED BY <2>2, <2>3, WithoutNothing
<1>10. \A s \in Scenes \ X : rows[s] # NoScene /\ rows'[s] # NoScene =>
         Cleaned(rows'[s], rows[s], G)
  BY <1>3, <1>5
<1>11. \A s \in Scenes : rows'[s] # NoScene => s \notin X /\ rows[s] # NoScene
  BY <1>3, <1>5
<1> QED BY <1>4, <1>8, <1>9, <1>10, <1>11

LEMMA DeleteSceneIsExact ==
    ASSUME SceneInv, NEW x \in Scenes, DeleteScene(x)
    PROVE  Deletes({x}, {})
<1>1. [rows EXCEPT ![x] = NoScene] = [s \in Scenes |-> IF s \in {x} THEN NoScene ELSE rows[s]]
  BY DEF SceneInv, TypeOK
<1>2. x \notin Devices
  BY NamesAssumption
<1> QED BY <1>1, <1>2 DEF DeleteScene, Deletes

LEMMA DeleteDevicesIsExact ==
    ASSUME SceneInv, NEW D \in SUBSET Devices, NEW E \in SUBSET Devices, D # {}, D \cap E = {},
           DeleteDevices(D, E)
    PROVE  Deletes(D, E)
<1>1. D \cap Scenes = {}
  BY NamesAssumption
<1>2. rows = [s \in Scenes |-> IF s \in D THEN NoScene ELSE rows[s]]
  BY <1>1 DEF SceneInv, TypeOK
<1>3. \A d \in Devices : dps[d] # NoDp /\ dps'[d] = NoDp <=> d \in D \cup E
  BY DEF DeleteDevices, InTable, SceneInv, TypeOK
<1>4. rows' = DeleteDeviceFromScenes(rows, D) /\ strays' = strays \cup E
  BY DEF DeleteDevices
<1> QED BY <1>1, <1>2, <1>3, <1>4 DEF Deletes

-------------------------------------------------------------------------------
(* The clock, a restart, and the first state.                                *)

LEMMA TickStep ==
    ASSUME SceneInv, Tick
    PROVE  SceneInv'
<1>1. UNCHANGED <<rows, ram, fired>>
  BY DEF Tick
<1>2. now' \in 0..MaxClock
  BY BoundsAssumption DEF SceneInv, TypeOK, Tick
<1>3. TypeOK'
  BY <1>1, <1>2, StillList DEF SceneInv, TypeOK, Tick, passVars, boundVars
<1>4. DueInv'
  BY DEF Tick, passVars, SceneInv, DueInv
<1> QED BY <1>1, <1>3, <1>4, StillList DEF SceneInv

LEMMA RestartStep ==
    ASSUME SceneInv, Restart
    PROVE  SceneInv'
<1>1. rows' \in [Scenes -> Row \cup {NoScene}] /\ UNCHANGED <<rows, fired>>
      /\ Db_LoadSceneToRam(rows') /\ todo' = {} /\ due' = {}
  <2>1. rows' = rows
    BY DEF Restart
  <2> QED BY <2>1 DEF Restart, histVars, SceneInv, TypeOK
<1>2. ram' \in [Scenes -> Entry \cup {NoScene}] /\ RamIsDb' /\ IndexInv' /\ DueInv'
  BY <1>1, Reloaded
<1>3. restarts' \in 0..MaxRestarts
  BY BoundsAssumption DEF SceneInv, TypeOK, Restart
<1>4. TypeOK'
  BY <1>1, <1>2, <1>3 DEF SceneInv, TypeOK, Restart, histVars
<1> QED BY <1>1, <1>2, <1>4, TableKept DEF SceneInv

LEMMA StopAfterDeleteStep ==
    ASSUME SceneInv, NEW x, StopAfterDelete(x)
    PROVE  SceneInv'
<1>1. /\ rows' = rows \/ (x \in Scenes /\ rows' = [rows EXCEPT ![x] = NoScene])
      /\ dps' = dps \/ (x \in Devices /\ dps' = [dps EXCEPT ![x] = NoDp])
      /\ edits < MaxEdits /\ edits' = edits + 1 /\ restarts < MaxRestarts /\ restarts' = restarts + 1
      /\ Listening /\ Db_LoadSceneToRam(rows') /\ UNCHANGED <<now, passVars, reports, histVars>>
  BY DEF StopAfterDelete
<1>2. /\ rows' \in [Scenes -> Row \cup {NoScene}] /\ dps' \in [Devices -> Values \cup {NoDp}]
      /\ \A s \in Scenes : rows'[s] # NoScene => rows'[s] = rows[s]
  BY <1>1 DEF SceneInv, TypeOK
<1>3. todo' = {} /\ due' = {} /\ DueInv'
  BY <1>1, ListeningStep
<1>4. ram' \in [Scenes -> Entry \cup {NoScene}] /\ RamIsDb' /\ IndexInv'
  BY <1>1, <1>2, <1>3, Reloaded
<1>5. fired' = fired /\ DatesInv' /\ OnceOnly'
  BY <1>1, <1>2 DEF SceneInv, DatesInv, OnceOnly, histVars
<1>6. edits' \in 0..MaxEdits /\ restarts' \in 0..MaxRestarts
  BY <1>1, BoundsAssumption DEF SceneInv, TypeOK
<1>7. TypeOK'
  BY <1>1, <1>2, <1>3, <1>4, <1>6 DEF SceneInv, TypeOK, histVars
<1> QED BY <1>3, <1>4, <1>5, <1>7 DEF SceneInv

LEMMA Still ==
    ASSUME SceneInv, UNCHANGED vars
    PROVE  SceneInv'
<1>1. UNCHANGED <<rows, ram, fired>>
  BY DEF vars, histVars
<1>2. TypeOK'
  BY <1>1, StillList DEF SceneInv, TypeOK, vars, passVars, boundVars, histVars
<1>3. DueInv'
  BY <1>1 DEF SceneInv, DueInv, vars, passVars
<1> QED BY <1>1, <1>2, <1>3, StillList DEF SceneInv

LEMMA InitInv ==
    ASSUME Init
    PROVE  SceneInv
<1>1. \A s \in Scenes : rows[s] \in Library[s] \cup {NoScene}
  BY DEF Init
<1>2. rows \in [Scenes -> Row \cup {NoScene}]
  <2>1. rows = [s \in Scenes |-> rows[s]]
    BY DEF Init
  <2> QED BY <1>1, <2>1, WrittenRow
<1>3. DatesInv
  BY <1>1, WrittenRow DEF DatesInv
<1>0. now = 0
  BY DEF Init
<1>4. PICK w \in [Scenes -> Windows] :
        /\ \A s \in Scenes : IF rows[s] = NoScene THEN w[s] = NoWindow ELSE w[s] \in Memory(rows[s])
        /\ ram = [s \in Scenes |-> IF rows[s] = NoScene THEN NoScene ELSE Loaded(rows[s], w[s])]
  BY DEF Init
<1>5. ASSUME NEW s \in Scenes
      PROVE  ram[s] \in Entry \cup {NoScene} /\ InPlan(ram[s]) /\ Says(ram[s], rows[s])
  <2>1. CASE rows[s] = NoScene
    BY <1>4, <2>1 DEF InPlan, Says
  <2>2. CASE rows[s] # NoScene
    <3>1. ram[s] = Loaded(rows[s], w[s]) /\ rows[s] \in Row /\ w[s] \in Windows
      BY <1>2, <1>4, <2>2
    <3> QED BY <1>0, <1>4, <2>2, <3>1, LoadedEntry
  <2> QED BY <2>1, <2>2
<1>6. ram \in [Scenes -> Entry \cup {NoScene}]
  <2>1. ram = [s \in Scenes |-> ram[s]]
    BY <1>4
  <2> QED BY <1>5, <2>1
<1>7. RamIsDb /\ IndexInv
  BY <1>5, RamSays DEF IndexInv
<1>8. todo = {} /\ due = {} /\ fired = [s \in Scenes |-> 0] /\ log = [s \in Scenes |-> <<>>]
      /\ started = {} /\ strays = {} /\ now = 0 /\ edits = 0 /\ reports = 0 /\ restarts = 0 /\ dps \in [Devices -> Values]
  BY DEF Init
<1>9. OnceOnly
  <2>1. \A s \in Scenes : rows[s] # NoScene => fired[s] <= Cardinality(UsedUp(rows[s].conds))
    BY <1>3, <1>8, UsedCount DEF DatesInv
  <2> QED BY <2>1 DEF OnceOnly, UsedUp
<1>10. DueInv
  BY <1>8 DEF DueInv
<1>11. TypeOK
  BY <1>2, <1>6, <1>8, BoundsAssumption DEF TypeOK
<1> QED BY <1>3, <1>7, <1>9, <1>10, <1>11 DEF SceneInv

LEMMA StepInv ==
    ASSUME SceneInv, [Next]_vars
    PROVE  SceneInv'
<1>1. CASE ExecuteScene
  <2>1. \A s \in todo : s \in Scenes
    BY DEF SceneInv, TypeOK, Listed
  <2>2. CASE BeginPass
    BY <2>2, BeginPassStep
  <2>3. ASSUME NEW s \in todo,
               PassIdle(s) \/ Control(s) \/ ControlOther(s) \/ PassDelay(s) \/ EndDelay(s)
        PROVE  SceneInv'
    <3>1. CASE PassIdle(s) \/ PassDelay(s)
      BY <2>1, <3>1, StillStep DEF PassIdle, PassDelay
    <3>2. CASE Control(s) \/ EndDelay(s)
      BY <2>1, <3>2, AdvanceStep DEF Control, EndDelay
    <3>3. CASE ControlOther(s)
      BY <2>1, <3>3, ControlOtherStep
    <3> QED BY <2>3, <3>1, <3>2, <3>3
  <2>4. ASSUME NEW p \in due,
               FireDate(p[1], p[2]) \/ FireDaily(p[1], p[2]) \/ PassSchedule(p[1], p[2])
        PROVE  SceneInv'
    BY <2>4, FireDateStep, FireDailyStep, PassScheduleStep
  <2> QED BY <1>1, <2>2, <2>3, <2>4 DEF ExecuteScene
<1>2. CASE Message
  <2>1. ASSUME NEW d \in Devices, NEW v \in Values, DeviceReport(d, v) \/ StatusReport(d, v)
        PROVE  SceneInv'
    BY <2>1, DeviceReportStep, StatusReportStep
  <2>2. ASSUME NEW s \in Scenes, NEW on \in BOOLEAN, ControlScene(s, on)
        PROVE  SceneInv'
    BY <2>2, ControlSceneStep
  <2>3. ASSUME NEW s \in Scenes, AddScene(s) \/ UpdateScene(s) \/ DeleteScene(s)
        PROVE  SceneInv'
    BY <2>3, AddSceneStep, UpdateSceneStep, DeleteSceneStep
  <2>4. CASE \/ \E d \in Devices : DeleteDevice(d)
             \/ \E hub, others \in SUBSET Devices : KickOutHub(hub, others)
    BY <2>4, DeviceDeletions, DeleteDevicesStep
  <2> QED BY <1>2, <2>1, <2>2, <2>3, <2>4 DEF Message
<1> QED BY <1>1, <1>2, TickStep, RestartStep, StopAfterDeleteStep, Still DEF Next

(* No row comes back: what is not in the table stays out of it. *)
LEMMA StraysNext ==
    ASSUME SceneInv, StraysInv, [Next]_vars
    PROVE  StraysInv'
<1>1. dps \in [Devices -> Values \cup {NoDp}] /\ strays \subseteq Devices
  BY DEF SceneInv, TypeOK
<1>2. ASSUME strays' = strays, dps' = dps
      PROVE  StraysInv'
  BY <1>2 DEF StraysInv
<1>3. CASE ExecuteScene
  BY <1>2, <1>3 DEF ExecuteScene, BeginPass, PassIdle, Control, ControlOther, PassDelay, EndDelay,
                    FireDate, FireDaily, PassSchedule, Record, histVars
<1>4. ASSUME NEW d \in Devices, NEW v \in Values, DeviceReport(d, v) \/ StatusReport(d, v)
      PROVE  StraysInv'
  <2>1. dps[d] # NoDp /\ dps' = [dps EXCEPT ![d] = v] /\ strays' = strays
    BY <1>4 DEF DeviceReport, StatusReport, Record, histVars
  <2> QED BY <1>1, <2>1 DEF StraysInv
<1>5. ASSUME NEW s \in Scenes, NEW on \in BOOLEAN, ControlScene(s, on)
      PROVE  StraysInv'
  BY <1>2, <1>5 DEF ControlScene, Record
<1>6. ASSUME NEW s \in Scenes, AddScene(s) \/ UpdateScene(s) \/ DeleteScene(s)
      PROVE  StraysInv'
  BY <1>2, <1>6 DEF AddScene, UpdateScene, DeleteScene
<1>7. CASE \/ \E d \in Devices : DeleteDevice(d)
           \/ \E hub, others \in SUBSET Devices : KickOutHub(hub, others)
  <2>1. PICK D, E \in SUBSET Devices : DeleteDevices(D, E)
    BY <1>7, DeviceDeletions
  <2>2. /\ dps' = [d \in Devices |-> IF d \in D \cup E THEN NoDp ELSE dps[d]]
        /\ strays' = strays \cup E
    BY <2>1 DEF DeleteDevices
  <2> QED BY <1>1, <2>2 DEF StraysInv
<1>8. CASE Tick \/ Restart \/ UNCHANGED vars
  BY <1>2, <1>8 DEF Tick, Restart, vars, histVars
<1>9. ASSUME NEW x, StopAfterDelete(x)
      PROVE  StraysInv'
  <2>1. dps' = dps \/ (x \in Devices /\ dps' = [dps EXCEPT ![x] = NoDp])
    BY <1>9 DEF StopAfterDelete
  <2>2. strays' = strays
    BY <1>9 DEF StopAfterDelete, histVars
  <2> QED BY <1>1, <2>1, <2>2 DEF StraysInv
<1> QED BY <1>3, <1>4, <1>5, <1>6, <1>7, <1>8, <1>9 DEF Next, Message

-------------------------------------------------------------------------------
(* No step leaves anything dangling, and a deletion takes away no more.      *)

CleanStep ==
    restarts' = restarts => \A s \in Scenes : rows'[s] # NoScene =>
        /\ rows'[s].actions # <<>>
        /\ \A k \in DOMAIN rows'[s].actions : rows'[s].actions[k].entity \notin TakenAway
        /\ \A c \in rows'[s].conds : c.kind = "device" => c.dev \notin TakenAway

ExactStep ==
    TakenAway # {} /\ restarts' = restarts =>
        \E x \in TakenAway : \A s \in Scenes \ {x} : rows[s] # NoScene =>
            IF rows'[s] = NoScene
            THEN \A j \in 1..Len(rows[s].actions) : rows[s].actions[j].entity \in TakenAway
            ELSE Cleaned(rows'[s], rows[s], TakenAway)

LEMMA NothingVanishes ==
    ASSUME SceneInv, SceneInv',
           \A s \in Scenes : rows[s] # NoScene => rows'[s] # NoScene,
           \A d \in Devices : dps[d] # NoDp => dps'[d] # NoDp
    PROVE  CleanStep /\ ExactStep
<1>1. TakenAway = {}
  BY DEF Vanished, TakenAway
<1>2. ASSUME NEW s \in Scenes, rows'[s] # NoScene
      PROVE  rows'[s].actions # <<>>
  <2>1. rows'[s] \in Row
    BY <1>2 DEF SceneInv, TypeOK
  <2> QED BY <2>1, RowFields, PlansAssumption
<1> QED BY <1>1, <1>2 DEF CleanStep, ExactStep

LEMMA DeletionClean ==
    ASSUME SceneInv, StraysInv, NEW X, NEW E, Deletes(X, E)
    PROVE  CleanStep /\ ExactStep
<1>1. /\ X \subseteq TakenAway
      /\ \A s \in Scenes \ X : rows[s] # NoScene =>
            IF rows'[s] = NoScene
            THEN \A j \in 1..Len(rows[s].actions) : rows[s].actions[j].entity \in TakenAway
            ELSE Cleaned(rows'[s], rows[s], TakenAway)
      /\ \A s \in Scenes : rows'[s] # NoScene => s \notin X /\ rows[s] # NoScene
  BY DeletionIsExact
<1>2. ASSUME NEW s \in Scenes, rows'[s] # NoScene
      PROVE  /\ rows'[s].actions # <<>>
             /\ \A k \in DOMAIN rows'[s].actions : rows'[s].actions[k].entity \notin TakenAway
             /\ \A c \in rows'[s].conds : c.kind = "device" => c.dev \notin TakenAway
  <2> DEFINE V == TakenAway
             W == Without(rows[s].actions, V)
  <2>1. s \notin X /\ rows[s] # NoScene /\ Cleaned(rows'[s], rows[s], V)
    BY <1>1, <1>2
  <2>2. rows[s].actions \in Seq(Action)
    BY <2>1, RowFields, PlanType DEF SceneInv, TypeOK
  <2> HIDE DEF V
  <2>3. W \in Seq(Other(V))
    BY <2>2, WithoutLeaves
  <2>4. rows'[s].actions = W /\ W # <<>>
    BY <2>1 DEF Cleaned
  <2> HIDE DEF W
  <2>5. \A k \in DOMAIN W : W[k].entity \notin V
    <3>1. \A k \in DOMAIN W : W[k] \in Other(V)
      BY <2>3, LenProperties
    <3> QED BY <3>1 DEF Other
  <2>6. \A c \in rows'[s].conds : c.kind = "device" => c.dev \notin V
    BY <2>1 DEF Cleaned
  <2> QED BY <2>4, <2>5, <2>6 DEF V
<1>3. \E x \in TakenAway : \A s \in Scenes \ {x} : s \notin X
  <2>1. X # {} /\ (X \subseteq Devices \/ \E s \in Scenes : X = {s})
    BY DEF Deletes
  <2> QED BY <1>1, <2>1, NamesAssumption
<1> QED BY <1>1, <1>2, <1>3 DEF CleanStep, ExactStep

LEMMA TableStays ==
    ASSUME SceneInv, SceneInv', dps' = dps, rows' = rows
    PROVE  CleanStep /\ ExactStep
BY NothingVanishes

LEMMA CleanNext ==
    ASSUME SceneInv, SceneInv', StraysInv, [Next]_vars
    PROVE  CleanStep /\ ExactStep
<1>1. CASE ExecuteScene
  <2>1. dps' = dps
    BY <1>1 DEF ExecuteScene, BeginPass, PassIdle, Control, ControlOther, PassDelay, EndDelay,
                FireDate, FireDaily, PassSchedule
  <2>2. CASE rows' = rows
    BY <2>1, <2>2, TableStays
  <2>3. ASSUME NEW s \in todo, ControlOther(s)
        PROVE  CleanStep /\ ExactStep
    <3> DEFINE t == Current(s).entity
               on == Current(s).state = 1
    <3>1. rows' = rows \/ (t \in Listed /\ Db_EnableScene(t, on))
      BY <2>3 DEF ControlOther
    <3>2. on \in BOOLEAN /\ fired' = fired
      BY <2>3 DEF ControlOther
    <3> HIDE DEF on, t
    <3>3. \A x \in Scenes : rows[x] # NoScene => rows'[x] # NoScene
      BY <3>1, <3>2, EnableStep
    <3> QED BY <2>1, <3>3, NothingVanishes
  <2>4. ASSUME NEW p \in due, FireDate(p[1], p[2])
        PROVE  CleanStep /\ ExactStep
    <3> DEFINE s == p[1]
               c == p[2]
               D == Expired(rows[s].conds, c)
               q == [rows[s] EXCEPT !.conds = D]
    <3>1. s \in Scenes /\ rows[s] \in Row /\ c \in Schedule
      BY <2>4, DueScene DEF FireDate
    <3>2. rows' = [rows EXCEPT ![s] = q]
      BY <2>4, <3>1 DEF FireDate
    <3>3. D \in SUBSET Condition
      BY <3>1, RowFields, ScheduleFields DEF Expired
    <3> HIDE DEF D, s
    <3>4. q # NoScene
      BY <3>1, <3>3, MovedRow, RowFields
    <3> HIDE DEF q
    <3>5. \A x \in Scenes : rows[x] # NoScene => rows'[x] # NoScene
      BY <3>1, <3>2, <3>4 DEF SceneInv, TypeOK
    <3> QED BY <2>1, <3>5, NothingVanishes
  <2>5. ExecuteScene => rows' = rows \/ (\E s \in todo : ControlOther(s))
                        \/ \E p \in due : FireDate(p[1], p[2])
    BY DEF ExecuteScene, BeginPass, PassIdle, Control, PassDelay, EndDelay, FireDaily, PassSchedule
  <2> QED BY <1>1, <2>2, <2>3, <2>4, <2>5
<1>2. ASSUME NEW d \in Devices, NEW v \in Values, DeviceReport(d, v) \/ StatusReport(d, v)
      PROVE  CleanStep /\ ExactStep
  <2>1. rows' = rows /\ dps' = [dps EXCEPT ![d] = v]
    BY <1>2 DEF DeviceReport, StatusReport
  <2>2. v # NoDp
    BY LibraryAssumption DEF NoDp
  <2>3. \A x \in Devices : dps[x] # NoDp => dps'[x] # NoDp
    BY <2>1, <2>2 DEF SceneInv, TypeOK
  <2> QED BY <2>1, <2>3, NothingVanishes
<1>3. ASSUME NEW s \in Scenes, NEW on \in BOOLEAN, ControlScene(s, on)
      PROVE  CleanStep /\ ExactStep
  <2>1. dps' = dps /\ fired' = fired /\ s \in Listed
    BY <1>3 DEF ControlScene, Record
  <2>2. rows' = rows \/ Db_EnableScene(s, on)
    BY <1>3 DEF ControlScene
  <2>3. \A x \in Scenes : rows[x] # NoScene => rows'[x] # NoScene
    BY <2>1, <2>2, EnableStep
  <2> QED BY <2>1, <2>3, NothingVanishes
<1>4. ASSUME NEW s \in Scenes, AddScene(s) \/ UpdateScene(s)
      PROVE  CleanStep /\ ExactStep
  <2>1. dps' = dps /\ (rows' = rows \/ \E r \in Library[s] : rows' = [rows EXCEPT ![s] = r])
    BY <1>4 DEF AddScene, UpdateScene
  <2>2. \A r \in Library[s] : r # NoScene
    BY WrittenRow, RowFields
  <2>3. \A x \in Scenes : rows[x] # NoScene => rows'[x] # NoScene
    BY <2>1, <2>2 DEF SceneInv, TypeOK
  <2> QED BY <2>1, <2>3, NothingVanishes
<1>5. ASSUME NEW s \in Scenes, DeleteScene(s)
      PROVE  CleanStep /\ ExactStep
  BY <1>5, DeleteSceneIsExact, DeletionClean
<1>6. CASE \/ \E d \in Devices : DeleteDevice(d)
           \/ \E hub, others \in SUBSET Devices : KickOutHub(hub, others)
  BY <1>6, DeviceDeletions, DeleteDevicesIsExact, DeletionClean
<1>7. CASE Tick \/ Restart \/ UNCHANGED vars
  BY <1>7, TableStays DEF Tick, Restart, vars
<1>8. ASSUME NEW x, StopAfterDelete(x)
      PROVE  CleanStep /\ ExactStep
  <2>1. restarts' # restarts
    BY <1>8, BoundsAssumption DEF StopAfterDelete, SceneInv, TypeOK
  <2> QED BY <2>1 DEF CleanStep, ExactStep
<1> QED BY <1>1, <1>2, <1>3, <1>4, <1>5, <1>6, <1>7, <1>8 DEF Next, Message

-------------------------------------------------------------------------------
(* The clock, modulo a day and a week.                                       *)

LEMMA DivMod ==
    ASSUME NEW n \in Nat \ {0}, NEW x \in Int
    PROVE  /\ x % n \in 0..(n - 1) /\ x \div n \in Int
           /\ x = n * (x \div n) + (x % n)
OBVIOUS

LEMMA Multiple ==
    ASSUME NEW n \in Nat \ {0}, NEW j \in Nat \ {0}
    PROVE  n * j >= n
OBVIOUS

LEMMA ModBelow ==
    ASSUME NEW n \in Nat \ {0}, NEW k \in Int, NEW r \in Nat
    PROVE  (n * k + r) % n <= r
<1> DEFINE x == n * k + r
           q == x \div n
           m == x % n
<1>1. x \in Int
  OBVIOUS
<1>2. m \in 0..(n - 1) /\ q \in Int /\ x = n * q + m
  BY <1>1, DivMod
<1>3. n * k + r = n * q + m
  BY <1>2
<1> HIDE DEF q, m, x
<1>4. CASE q >= k
  <2>1. n * (q - k) >= 0
    BY <1>2, <1>4
  <2>2. n * (q - k) = n * q - n * k
    BY <1>2
  <2> QED BY <1>2, <1>3, <2>1, <2>2 DEF m, x
<1>5. CASE q < k
  <2>1. k - q \in Nat \ {0}
    BY <1>2, <1>5
  <2>2. n * (k - q) >= n
    BY <2>1, Multiple
  <2>3. n * (k - q) = n * k - n * q
    BY <1>2
  <2> QED BY <1>2, <1>3, <2>2, <2>3
<1> QED BY <1>2, <1>4, <1>5

(* A time is some weeks, days and minutes after the first Sunday. *)
LEMMA ClockSplit ==
    ASSUME now \in Nat
    PROVE  /\ Minute \in 0..(DayLength - 1) /\ Weekday \in 0..(WeekLength - 1)
           /\ \E k \in Int : now = DayLength * (WeekLength * k + Weekday) + Minute
<1> DEFINE q == now \div DayLength
           k == q \div WeekLength
<1>1. DayLength \in Nat \ {0} /\ WeekLength \in Nat \ {0}
  BY BoundsAssumption
<1>2. Minute \in 0..(DayLength - 1) /\ q \in Int /\ now = DayLength * q + Minute
  BY <1>1, DivMod DEF Minute, MinuteAt
<1>3. Weekday \in 0..(WeekLength - 1) /\ k \in Int /\ q = WeekLength * k + Weekday
  BY <1>1, <1>2, DivMod DEF Weekday, DayAt
<1> HIDE DEF k, q
<1> QED BY <1>2, <1>3

LEMMA YesterdaySplit ==
    ASSUME now \in Nat
    PROVE  /\ Yesterday \in 0..(WeekLength - 1)
           /\ \E j \in Int : Weekday - 1 - Yesterday = WeekLength * j
<1> DEFINE x == Weekday + WeekLength - 1
           i == x \div WeekLength
<1>1. WeekLength \in Nat \ {0} /\ x \in Int /\ Weekday \in Int
  BY BoundsAssumption, ClockSplit
<1>2. Yesterday \in 0..(WeekLength - 1) /\ i \in Int /\ x = WeekLength * i + Yesterday
  BY <1>1, DivMod DEF Yesterday
<1> HIDE DEF i
<1>3. Weekday - 1 - Yesterday = WeekLength * (i - 1)
  BY <1>1, <1>2
<1>4. i - 1 \in Int
  BY <1>2
<1> QED BY <1>2, <1>3, <1>4

(* r minutes went by since the start "from" of the day d, some weeks ago. *)
LEMMA SinceStart ==
    ASSUME NEW d \in Int, NEW from \in Int, NEW k \in Int, NEW r \in Nat, now \in Nat,
           now - d * DayLength - from = (WeekLength * DayLength) * k + r
    PROVE  (now - d * DayLength - from) % (WeekLength * DayLength) <= r
<1>1. WeekLength * DayLength \in Nat \ {0}
  BY BoundsAssumption
<1> QED BY <1>1, ModBelow

LEMMA EffectiveIsInWindow ==
    ASSUME now \in Nat, NEW w \in Window, EffectiveAt(w)
    PROVE  Always(w) \/ InWindow(w)
<1> DEFINE length == IF w.from < w.to THEN w.to - w.from ELSE DayLength - w.from + w.to
<1>1. /\ w.from \in 0..(DayLength - 1) /\ w.to \in 0..(DayLength - 1) /\ w.days \subseteq 0..(WeekLength - 1)
      /\ DayLength \in Nat \ {0} /\ WeekLength \in Nat \ {0}
  BY BoundsAssumption DEF Window, Minutes, Days
<1>2. /\ Minute \in 0..(DayLength - 1) /\ Weekday \in 0..(WeekLength - 1)
      /\ \E k \in Int : now = DayLength * (WeekLength * k + Weekday) + Minute
  BY ClockSplit
<1>3. PICK k \in Int : now = DayLength * (WeekLength * k + Weekday) + Minute
  BY <1>2
<1>4. ASSUME Weekday \in w.days, w.from <= Minute, Minute - w.from <= length
      PROVE  InWindow(w)
  <2>1. now - Weekday * DayLength - w.from = (WeekLength * DayLength) * k + (Minute - w.from)
    BY <1>1, <1>2, <1>3
  <2>2. Minute - w.from \in Nat /\ Weekday \in Int /\ w.from \in Int
    BY <1>1, <1>2, <1>4
  <2>3. (now - Weekday * DayLength - w.from) % (WeekLength * DayLength) <= Minute - w.from
    BY <2>1, <2>2, SinceStart
  <2> QED BY <1>1, <1>2, <1>4, <2>3 DEF InWindow
<1>5. ASSUME Yesterday \in w.days, Minute <= w.to, w.from >= w.to
      PROVE  InWindow(w)
  <2>1. PICK j \in Int : Weekday - 1 - Yesterday = WeekLength * j
    BY YesterdaySplit
  <2> DEFINE r == DayLength + Minute - w.from
  <2>2. Yesterday \in Int /\ w.from \in Int /\ r \in Nat /\ k + j \in Int
    BY <1>1, <1>2, <2>1, YesterdaySplit
  <2>3. now - Yesterday * DayLength - w.from = (WeekLength * DayLength) * (k + j) + r
    BY <1>1, <1>2, <1>3, <2>1, <2>2
  <2>4. (now - Yesterday * DayLength - w.from) % (WeekLength * DayLength) <= r
    BY <2>2, <2>3, SinceStart
  <2>5. r <= length
    BY <1>1, <1>2, <1>5
  <2> QED BY <1>1, <1>2, <1>5, <2>4, <2>5 DEF InWindow
<1> QED BY <1>1, <1>2, <1>4, <1>5 DEF EffectiveAt, Always

-------------------------------------------------------------------------------
(* A scene is started for a reason.                                          *)

(* A scene with conditions, which is not one to be run by hand. *)
Conditional(s) == rows[s].conds # {} /\ rows[s].type # "manual"

Justified(s) ==
    /\ rows[s].enabled
    /\ rows[s].window # Absent => Always(rows[s].window) \/ InWindow(rows[s].window)
    /\ Reason(rows[s], ram[s].read)

StartStep ==
    \A s \in Scenes :
        /\ s \in started' \ started /\ rows[s].conds # {} /\ rows[s].type # "manual"
        /\ ~\E x \in todo : ControlOther(x)
        => Justified(s)

(* What the list says of a scene with conditions is what the table says. *)
LEMMA ConditionalScene ==
    ASSUME SceneInv, NEW s \in Scenes, ram[s] \in Entry, Conditional(s)
    PROVE  /\ rows[s] \in Row
           /\ ram[s].type = rows[s].type /\ ram[s].type \in {"one", "all"}
           /\ ram[s].conds = rows[s].conds /\ rows[s].conds \subseteq Condition
<1>1. Says(ram[s], rows[s])
  BY RamSays DEF SceneInv
<1>2. rows[s] \in Row
  BY <1>1, EntryFields DEF Says, SceneInv, TypeOK
<1> QED BY <1>1, <1>2, RowFields DEF Says, Conditional, SceneTypes

(* The check of the effective time holds for the table as well. *)
LEMMA PreconditionHolds ==
    ASSUME SceneInv, NEW s \in Scenes, ram[s] \in Entry, NEW e \in Entry, Kept(ram[s], e),
           checkScenePrecondition(e)
    PROVE  /\ rows[s].enabled
           /\ rows[s].window # Absent => Always(rows[s].window) \/ InWindow(rows[s].window)
<1>1. Says(ram[s], rows[s]) /\ ram[s] # NoScene
  BY RamSays, EntryFields DEF SceneInv
<1>2. /\ e.enabled = rows[s].enabled
      /\ rows[s].window # Absent => e.window = rows[s].window
  BY <1>1 DEF Says, Kept
<1>3. e.enabled /\ EffectiveAt(e.window)
  BY DEF checkScenePrecondition
<1>4. e.window \in Window /\ now \in Nat
  BY EntryFields, WindowsAssumption, BoundsAssumption DEF SceneInv, TypeOK
<1>5. Always(e.window) \/ InWindow(e.window)
  BY <1>3, <1>4, EffectiveIsInWindow
<1> QED BY <1>2, <1>3, <1>5

(* What was read is not from the future, and what counts as reached has come
   since.                                                                    *)
ReachedInv ==
    \A s \in Scenes : ram[s] # NoScene =>
        ram[s].read <= now /\ \A c \in ram[s].reached : Came(c, ram[s].read)

(* An entry after the step: read in it, or the one before, with schedules reached
   that are due.                                                               *)
Carried(e, f) ==
    f # NoScene =>
        \/ f.read = now /\ f.reached = {}
        \/ e # NoScene /\ f.read = e.read /\ \A c \in f.reached : c \in e.reached \/ IsDue(c)

LEMMA CarriedOn ==
    ASSUME SceneInv, ReachedInv, now' = now, \A s \in Scenes : Carried(ram[s], ram'[s])
    PROVE  ReachedInv'
<1> SUFFICES ASSUME NEW s \in Scenes, ram'[s] # NoScene
             PROVE  ram'[s].read <= now /\ \A c \in ram'[s].reached : Came(c, ram'[s].read)
  BY DEF ReachedInv, Came
<1>1. now \in Nat
  BY BoundsAssumption DEF SceneInv, TypeOK
<1>2. CASE ram'[s].read = now /\ ram'[s].reached = {}
  BY <1>1, <1>2
<1>3. CASE /\ ram[s] # NoScene /\ ram'[s].read = ram[s].read
           /\ \A c \in ram'[s].reached : c \in ram[s].reached \/ IsDue(c)
  <2>1. ram[s].read \in Nat /\ ram[s].read <= now /\ \A c \in ram[s].reached : Came(c, ram[s].read)
    BY <1>3, EntryFields DEF ReachedInv, SceneInv, TypeOK
  <2>2. now \in ram[s].read..now
    BY <1>1, <2>1
  <2>3. \A c : IsDue(c) => Came(c, ram[s].read)
    BY <2>2 DEF IsDue, Came
  <2> QED BY <1>3, <2>1, <2>3
<1> QED BY <1>2, <1>3 DEF Carried

LEMMA ReachedReload ==
    ASSUME SceneInv, SceneInv', ReachedInv, now' = now, Db_LoadSceneToRam(rows')
    PROVE  ReachedInv'
<1>1. rows' \in [Scenes -> Row \cup {NoScene}] /\ now \in Nat
  BY BoundsAssumption DEF SceneInv, TypeOK
<1>2. \A s \in Scenes : ram'[s] # NoScene => ram'[s].read = now /\ ram'[s].reached = {}
  BY <1>1, LoadStep
<1> QED BY <1>2, CarriedOn DEF Carried

LEMMA ReachedSchedule ==
    ASSUME SceneInv, ReachedInv, NEW s, NEW c, FireDate(s, c) \/ FireDaily(s, c)
    PROVE  ReachedInv'
<1>0. ram \in [Scenes -> Entry \cup {NoScene}]
  BY DEF SceneInv, TypeOK
<1>1. s \in Scenes /\ ram[s] \in Entry /\ c \in Schedule
  BY DueScene DEF FireDate, FireDaily
<1>2. IsDue(c) /\ now' = now
  BY DEF FireDate, FireDaily
<1> DEFINE R == ram[s].reached \cup {c}
           e == [ram[s] EXCEPT !.reached = R]
<1>3. R \in SUBSET Condition
  <2>1. ram[s].reached \subseteq Condition
    BY <1>1, EntryFields
  <2>2. c \in Condition
    BY <1>1, ScheduleFields
  <2> QED BY <2>1, <2>2
<1>4. CASE FireDaily(s, c)
  <2> DEFINE starts == checkSceneCondition(e, dps)
             m == IF starts THEN markSceneToRun(e) ELSE e
  <2>1. ram' = [ram EXCEPT ![s] = m]
    BY <1>4 DEF FireDaily
  <2> HIDE DEF R
  <2>2. e \in Entry /\ e.reached = R /\ e.read = ram[s].read
    BY <1>1, <1>3 DEF Entry
  <2> HIDE DEF e, starts
  <2>3. m.reached = e.reached /\ m.read = e.read
    BY <2>2, MarkedEntry
  <2> HIDE DEF m
  <2>4. \A x \in Scenes : Carried(ram[x], ram'[x])
    <3>1. ram'[s] = m /\ \A x \in Scenes \ {s} : ram'[x] = ram[x]
      BY <1>0, <1>1, <2>1
    <3>2. Carried(ram[s], m)
      BY <1>1, <1>2, <2>2, <2>3, EntryFields DEF Carried, R
    <3> QED BY <3>1, <3>2 DEF Carried
  <2> QED BY <1>2, <2>4, CarriedOn
<1>5. CASE FireDate(s, c)
  <2> DEFINE starts == IF e.type = "one" THEN checkScenePrecondition(e) ELSE checkSceneCondition(e, dps)
             m == IF starts THEN markSceneToRun(ram[s]) ELSE ram[s]
             D == Expired(m.conds, c)
             Q == m.reached \ {c}
             f == [m EXCEPT !.conds = D, !.reached = Q]
  <2>1. ram' = [ram EXCEPT ![s] = f]
    BY <1>5 DEF FireDate
  <2> HIDE DEF starts
  <2>2. m \in Entry /\ m.reached = ram[s].reached /\ m.read = ram[s].read
    BY <1>1, MarkedEntry
  <2>3. D \in SUBSET Condition /\ Q \in SUBSET Condition
    BY <1>1, <2>2, EntryFields, ScheduleFields DEF Expired
  <2> HIDE DEF m, D, Q
  <2>4. f.reached = Q /\ f.read = m.read
    BY <2>2, <2>3 DEF Entry
  <2> HIDE DEF f
  <2>5. \A x \in Scenes : Carried(ram[x], ram'[x])
    <3>1. ram'[s] = f /\ \A x \in Scenes \ {s} : ram'[x] = ram[x]
      BY <1>0, <1>1, <2>1
    <3>2. Carried(ram[s], f)
      BY <1>1, <2>2, <2>4, EntryFields DEF Carried, Q
    <3> QED BY <3>1, <3>2 DEF Carried
  <2> QED BY <1>2, <2>5, CarriedOn
<1> QED BY <1>4, <1>5

(* Advance, markSceneToRun and a switch leave what was read and reached. *)
SameReach(e, f) == f # NoScene => e # NoScene /\ f.read = e.read /\ f.reached = e.reached

LEMMA ReachedSame ==
    ASSUME SceneInv, ReachedInv, now' = now, \A s \in Scenes : SameReach(ram[s], ram'[s])
    PROVE  ReachedInv'
BY CarriedOn DEF SameReach, Carried

LEMMA ReachedControlOther ==
    ASSUME SceneInv, ReachedInv, NEW s \in Scenes, ControlOther(s)
    PROVE  ReachedInv'
<1> DEFINE t == Current(s).entity
           state == Current(s).state
           listed == t \in Listed
           others == IF ~listed THEN ram
                     ELSE IF state = 2 THEN [ram EXCEPT ![t] = markSceneToRun(@)]
                     ELSE [ram EXCEPT ![t].enabled = (state = 1)]
<1>1. /\ ram \in [Scenes -> Entry \cup {NoScene}] /\ ram[s] \in Entry /\ InPlan(ram[s])
  BY RunningScene DEF SceneInv, TypeOK, ControlOther, IndexInv
<1>2. ram' = [others EXCEPT ![s] = Advance(@)] /\ now' = now
  BY DEF ControlOther
<1>3. listed => t \in Scenes /\ ram[t] \in Entry
  BY <1>1 DEF Listed
<1>4. /\ others \in [Scenes -> Entry \cup {NoScene}] /\ \A x \in Scenes : SameReach(ram[x], others[x])
      /\ others[s] \in Entry /\ InPlan(others[s])
  <2>1. CASE ~listed
    BY <1>1, <2>1 DEF SameReach
  <2>2. CASE listed /\ state = 2
    <3> DEFINE f == markSceneToRun(ram[t])
    <3>1. f \in Entry /\ f.next = 1 /\ f.actions = ram[t].actions /\ f.read = ram[t].read
          /\ f.reached = ram[t].reached
      BY <1>3, <2>2, MarkedEntry
    <3>2. InPlan(f) /\ SameReach(ram[t], f)
      BY <1>3, <2>2, <3>1, EntryFields, PlanType DEF InPlan, SameReach
    <3>3. others = [ram EXCEPT ![t] = f]
      BY <2>2
    <3> HIDE DEF f, others
    <3> QED BY <1>1, <1>3, <2>2, <3>1, <3>2, <3>3 DEF SameReach
  <2>3. CASE listed /\ state # 2
    <3> DEFINE on == (state = 1)
               f == [ram[t] EXCEPT !.enabled = on]
    <3>0. on \in BOOLEAN
      OBVIOUS
    <3>1. f \in Entry /\ f.next = ram[t].next /\ f.actions = ram[t].actions /\ f.read = ram[t].read
          /\ f.reached = ram[t].reached
      <4> HIDE DEF on
      <4> QED BY <1>3, <2>3, <3>0, SwitchedEntry
    <3>2. SameReach(ram[t], f) /\ (InPlan(ram[t]) => InPlan(f))
      BY <1>3, <2>3, <3>1, EntryFields DEF InPlan, SameReach
    <3>3. others = [ram EXCEPT ![t] = f]
      BY <2>3
    <3> HIDE DEF f, others
    <3> QED BY <1>1, <1>3, <2>3, <3>1, <3>2, <3>3 DEF SameReach
  <2> QED BY <2>1, <2>2, <2>3
<1> HIDE DEF others
<1>5. SameReach(others[s], Advance(others[s]))
  BY <1>4, AdvancedEntry, EntryFields DEF SameReach
<1>6. \A x \in Scenes : SameReach(ram[x], ram'[x])
  BY <1>2, <1>4, <1>5 DEF SameReach
<1> QED BY <1>2, <1>6, ReachedSame

LEMMA ReachedNext ==
    ASSUME SceneInv, SceneInv', ReachedInv, [Next]_vars
    PROVE  ReachedInv'
<1>0. ram \in [Scenes -> Entry \cup {NoScene}]
  BY DEF SceneInv, TypeOK
<1>1. ASSUME ram' = ram, now' = now PROVE ReachedInv'
  BY <1>1, ReachedSame DEF SameReach
<1>2. CASE ExecuteScene
  <2>1. ASSUME NEW s \in todo, Control(s) \/ EndDelay(s) PROVE ReachedInv'
    <3>1. s \in Scenes /\ ram[s] \in Entry /\ InPlan(ram[s]) /\ ram' = [ram EXCEPT ![s] = Advance(@)]
          /\ now' = now
      BY <2>1, RunningScene DEF Control, EndDelay, SceneInv, TypeOK, Listed, IndexInv
    <3>2. SameReach(ram[s], Advance(ram[s]))
      BY <3>1, AdvancedEntry, EntryFields DEF SameReach
    <3>3. \A x \in Scenes : SameReach(ram[x], ram'[x])
      BY <1>0, <3>1, <3>2 DEF SameReach
    <3> QED BY <3>1, <3>3, ReachedSame
  <2>2. ASSUME NEW s \in todo, ControlOther(s) PROVE ReachedInv'
    BY <2>2, ReachedControlOther DEF SceneInv, TypeOK, Listed
  <2>3. \/ ram' = ram /\ now' = now
        \/ \E s \in todo : Control(s) \/ EndDelay(s) \/ ControlOther(s)
        \/ \E p \in due : FireDate(p[1], p[2]) \/ FireDaily(p[1], p[2])
    BY <1>2 DEF ExecuteScene, BeginPass, PassIdle, PassDelay, PassSchedule
  <2> QED BY <1>1, <2>1, <2>2, <2>3, ReachedSchedule
<1>3. ASSUME NEW S, ram' = [s \in Scenes |-> IF s \in S THEN markSceneToRun(ram[s]) ELSE ram[s]],
             S \subseteq Listed, now' = now
      PROVE  ReachedInv'
  <2>1. \A s \in S : ram[s] \in Entry
    BY <1>0, <1>3 DEF Listed
  <2>2. \A s \in S : SameReach(ram[s], markSceneToRun(ram[s]))
    BY <2>1, MarkedEntry, EntryFields DEF SameReach
  <2>3. \A s \in Scenes : SameReach(ram[s], ram'[s])
    BY <1>3, <2>2 DEF SameReach
  <2> QED BY <1>3, <2>3, ReachedSame
<1>4. ASSUME NEW d \in Devices, NEW v \in Values, DeviceReport(d, v) \/ StatusReport(d, v)
      PROVE  ReachedInv'
  <2>1. CASE StatusReport(d, v)
    BY <1>1, <2>1 DEF StatusReport
  <2>2. CASE DeviceReport(d, v)
    <3> DEFINE S == {s \in Listed : RunBy(ram[s], d, dps')}
    <3>1. /\ ram' = [s \in Scenes |-> IF s \in S THEN markSceneToRun(ram[s]) ELSE ram[s]]
          /\ S \subseteq Listed /\ now' = now
      BY <2>2 DEF DeviceReport
    <3> HIDE DEF S
    <3> QED BY <1>3, <3>1
  <2> QED BY <1>4, <2>1, <2>2
<1>5. ASSUME NEW s \in Scenes, NEW on \in BOOLEAN, ControlScene(s, on)
      PROVE  ReachedInv'
  <2>1. ram[s] \in Entry /\ now' = now
    BY <1>0, <1>5 DEF ControlScene, Listed
  <2> DEFINE f == IF ram[s].type = "manual" THEN markSceneToRun(ram[s])
                  ELSE [ram[s] EXCEPT !.enabled = on]
  <2>2. ram' = [ram EXCEPT ![s] = f]
    BY <1>5 DEF ControlScene
  <2>3. SameReach(ram[s], f)
    BY <2>1, MarkedEntry, SwitchedEntry, EntryFields DEF SameReach
  <2> HIDE DEF f
  <2>4. \A x \in Scenes : SameReach(ram[x], ram'[x])
    BY <1>0, <2>2, <2>3 DEF SameReach
  <2> QED BY <2>1, <2>4, ReachedSame
<1>6. ASSUME NEW s \in Scenes, AddScene(s) \/ UpdateScene(s) \/ DeleteScene(s)
      PROVE  ReachedInv'
  BY <1>6, ReachedReload DEF AddScene, UpdateScene, DeleteScene, Edit
<1>7. CASE \/ \E d \in Devices : DeleteDevice(d)
           \/ \E hub, others \in SUBSET Devices : KickOutHub(hub, others)
  BY <1>7, DeviceDeletions, ReachedReload DEF DeleteDevices, Edit
<1>8. CASE Restart
  BY <1>8, ReachedReload DEF Restart
<1>9. ASSUME NEW x, StopAfterDelete(x) PROVE ReachedInv'
  BY <1>9, ReachedReload DEF StopAfterDelete
<1>10. CASE Tick
  <2>1. now \in Nat /\ now' = now + 1 /\ ram' = ram
    BY <1>10, BoundsAssumption DEF Tick, SceneInv, TypeOK
  <2>2. ASSUME NEW s \in Scenes, ram[s] # NoScene
        PROVE  ram[s].read <= now' /\ \A c \in ram[s].reached : \E m \in ram[s].read..now' : DueAt(c, m)
    <3>1. ram[s].read \in Nat /\ ram[s].read <= now
          /\ \A c \in ram[s].reached : \E m \in ram[s].read..now : DueAt(c, m)
      BY <1>0, <2>2, EntryFields DEF ReachedInv, Came
    <3>2. \A m \in ram[s].read..now : m \in ram[s].read..now'
      BY <2>1, <3>1
    <3> QED BY <2>1, <3>1, <3>2
  <2> QED BY <2>1, <2>2 DEF ReachedInv, Came
<1>11. CASE UNCHANGED vars
  BY <1>1, <1>11 DEF vars
<1> QED BY <1>2, <1>4, <1>5, <1>6, <1>7, <1>8, <1>9, <1>10, <1>11 DEF Next, Message

LEMMA ReachedInit ==
    ASSUME Init
    PROVE  ReachedInv
<1>1. now = 0
  BY DEF Init
<1>2. PICK w : ram = [s \in Scenes |-> IF rows[s] = NoScene THEN NoScene ELSE Loaded(rows[s], w[s])]
  BY DEF Init
<1>3. \A s \in Scenes : ram[s] # NoScene => ram[s].read = now /\ ram[s].reached = {}
  BY <1>2 DEF Loaded
<1> QED BY <1>1, <1>3 DEF ReachedInv

(* A scene whose conditions are checked against the values after the step, and
   one of which has just been met.                                           *)
LEMMA ConditionsHold ==
    ASSUME SceneInv, ReachedInv, NEW s \in Scenes, ram[s] \in Entry, NEW e \in Entry, Kept(ram[s], e),
           Conditional(s), NEW c \in rows[s].conds,
           Met(c), \A x \in e.reached : x \in ram[s].reached \/ IsDue(x),
           \/ e.type = "one" /\ checkScenePrecondition(e)
           \/ checkSceneCondition(e, dps')
    PROVE  Justified(s)
<1>1. /\ ram[s].type = rows[s].type /\ ram[s].type \in {"one", "all"}
      /\ ram[s].conds = rows[s].conds
  BY ConditionalScene
<1>2. e.type = rows[s].type /\ e.conds = rows[s].conds
  BY <1>1, EntryFields DEF Kept
<1>3. checkScenePrecondition(e)
  BY <1>1, <1>2 DEF checkSceneCondition
<1>4. CASE e.type = "one"
  BY <1>2, <1>3, <1>4, PreconditionHolds DEF Reason, Justified
<1>5. CASE e.type = "all"
  <2>1. \A x \in e.conds : \/ x.kind = "schedule" /\ x \in e.reached
                           \/ x.kind = "device" /\ dps'[x.dev] = x.val
    BY <1>5 DEF checkSceneCondition
  <2>2. \A x \in e.reached : Came(x, ram[s].read)
    <3>1. ram[s].read \in Nat /\ ram[s].read <= now /\ now \in Nat
          /\ \A x \in ram[s].reached : Came(x, ram[s].read)
      BY EntryFields, BoundsAssumption DEF ReachedInv, SceneInv, TypeOK
    <3>2. now \in ram[s].read..now
      BY <3>1
    <3>3. \A x : IsDue(x) => Came(x, ram[s].read)
      BY <3>2 DEF IsDue, Came
    <3> QED BY <3>1, <3>3
  <2>3. \A x \in rows[s].conds : IF x.kind = "device" THEN dps'[x.dev] = x.val
                                                      ELSE Came(x, ram[s].read)
    BY <1>2, <2>1, <2>2
  <2> QED BY <1>2, <1>3, <1>5, <2>3, PreconditionHolds DEF Reason, Justified
<1> QED BY <1>1, <1>2, <1>4, <1>5

LEMMA FireDateStarts ==
    ASSUME SceneInv, ReachedInv, NEW s, NEW c, FireDate(s, c),
           NEW t \in started' \ started, Conditional(t)
    PROVE  Justified(t)
<1> DEFINE R == ram[s].reached \cup {c}
           e == [ram[s] EXCEPT !.reached = R]
           starts == IF e.type = "one" THEN checkScenePrecondition(e)
                                       ELSE checkSceneCondition(e, dps)
<1>1. /\ s \in Scenes /\ ram[s] \in Entry /\ c \in Schedule /\ c \in ram[s].conds
      /\ rows[s].conds = ram[s].conds
  BY DueScene DEF FireDate
<1>2. Record(IF starts THEN {s} ELSE {}) /\ IsDue(c) /\ dps' = dps
  BY DEF FireDate
<1>3. t = s /\ starts
  BY <1>2 DEF Record
<1>4. R \in SUBSET Condition
  BY <1>1, EntryFields, ScheduleFields
<1> HIDE DEF R
<1>5. e \in Entry /\ Kept(ram[s], e) /\ \A x \in e.reached : x \in ram[s].reached \/ IsDue(x)
  <2>1. /\ e \in Entry /\ e.enabled = ram[s].enabled /\ e.type = ram[s].type
        /\ e.window = ram[s].window /\ e.actions = ram[s].actions /\ e.conds = ram[s].conds
        /\ e.reached = R /\ e.read = ram[s].read
    BY <1>1, <1>4, EntryFields DEF Entry
  <2> HIDE DEF e
  <2> QED BY <1>1, <1>2, <2>1, EntryFields DEF Kept, R
<1> HIDE DEF e
<1>6. \/ e.type = "one" /\ checkScenePrecondition(e)
      \/ checkSceneCondition(e, dps')
  BY <1>2, <1>3
<1>7. Met(c)
  BY <1>1, <1>2, ScheduleFields DEF Met
<1> QED BY <1>1, <1>3, <1>5, <1>6, <1>7, ConditionsHold

LEMMA FireDailyStarts ==
    ASSUME SceneInv, ReachedInv, NEW s, NEW c, FireDaily(s, c),
           NEW t \in started' \ started, Conditional(t)
    PROVE  Justified(t)
<1> DEFINE R == ram[s].reached \cup {c}
           e == [ram[s] EXCEPT !.reached = R]
           starts == checkSceneCondition(e, dps)
<1>1. /\ s \in Scenes /\ ram[s] \in Entry /\ c \in Schedule /\ c \in ram[s].conds
      /\ rows[s].conds = ram[s].conds
  BY DueScene DEF FireDaily
<1>2. Record(IF starts THEN {s} ELSE {}) /\ IsDue(c) /\ dps' = dps
  BY DEF FireDaily
<1>3. t = s /\ starts
  BY <1>2 DEF Record
<1>4. R \in SUBSET Condition
  BY <1>1, EntryFields, ScheduleFields
<1> HIDE DEF R
<1>5. e \in Entry /\ Kept(ram[s], e) /\ \A x \in e.reached : x \in ram[s].reached \/ IsDue(x)
  <2>1. /\ e \in Entry /\ e.enabled = ram[s].enabled /\ e.type = ram[s].type
        /\ e.window = ram[s].window /\ e.actions = ram[s].actions /\ e.conds = ram[s].conds
        /\ e.reached = R /\ e.read = ram[s].read
    BY <1>1, <1>4, EntryFields DEF Entry
  <2> HIDE DEF e
  <2> QED BY <1>1, <1>2, <2>1, EntryFields DEF Kept, R
<1> HIDE DEF e
<1>6. checkSceneCondition(e, dps')
  BY <1>2, <1>3
<1>7. Met(c)
  BY <1>1, <1>2, ScheduleFields DEF Met
<1> QED BY <1>1, <1>3, <1>5, <1>6, <1>7, ConditionsHold

LEMMA DeviceReportStarts ==
    ASSUME SceneInv, ReachedInv, NEW d \in Devices, NEW v \in Values, DeviceReport(d, v),
           NEW t \in started' \ started, Conditional(t)
    PROVE  Justified(t)
<1>1. t \in Scenes /\ ram[t] # NoScene /\ RunBy(ram[t], d, dps')
  BY DEF DeviceReport, Record, Listed
<1>2. ram[t] \in Entry
  BY <1>1 DEF SceneInv, TypeOK
<1>3. PICK c \in ram[t].conds :
        /\ c.kind = "device" /\ c.dev = d /\ Satisfied(c, dps'[d])
        /\ IF ram[t].type = "one" THEN checkScenePrecondition(ram[t])
                                  ELSE checkSceneCondition(ram[t], dps')
  BY <1>1 DEF RunBy
<1>4. c \in rows[t].conds /\ Met(c)
  BY <1>1, <1>2, <1>3, ConditionalScene DEF Met
<1>5. Kept(ram[t], ram[t])
  BY DEF Kept
<1> QED BY <1>1, <1>2, <1>3, <1>4, <1>5, ConditionsHold

LEMMA ControlSceneStarts ==
    ASSUME SceneInv, NEW s \in Scenes, NEW on \in BOOLEAN, ControlScene(s, on),
           NEW t \in started' \ started, Conditional(t)
    PROVE  FALSE
<1>1. t = s /\ ram[s].type = "manual" /\ ram[s] # NoScene
  BY DEF ControlScene, Record, Listed
<1>2. ram[s] \in Entry
  BY <1>1 DEF SceneInv, TypeOK
<1> QED BY <1>1, <1>2, ConditionalScene

LEMMA StartNext ==
    ASSUME SceneInv, SceneInv', ReachedInv, [Next]_vars
    PROVE  StartStep
<1> SUFFICES ASSUME NEW t \in Scenes, t \in started' \ started, Conditional(t),
                    ~\E x \in todo : ControlOther(x)
             PROVE  Justified(t)
  BY DEF StartStep, Conditional
<1>1. CASE ExecuteScene
  <2>1. \/ started' = started
        \/ \E p \in due : FireDate(p[1], p[2]) \/ FireDaily(p[1], p[2])
    BY <1>1 DEF ExecuteScene, BeginPass, PassIdle, Control, PassDelay, EndDelay, PassSchedule, histVars
  <2> QED BY <2>1, FireDateStarts, FireDailyStarts
<1>2. ASSUME NEW d \in Devices, NEW v \in Values, DeviceReport(d, v) \/ StatusReport(d, v)
      PROVE  Justified(t)
  BY <1>2, DeviceReportStarts DEF StatusReport, histVars
<1>3. ASSUME NEW s \in Scenes, NEW on \in BOOLEAN, ControlScene(s, on)
      PROVE  Justified(t)
  BY <1>3, ControlSceneStarts
<1>4. ASSUME NEW s \in Scenes, AddScene(s) \/ UpdateScene(s) \/ DeleteScene(s)
      PROVE  Justified(t)
  BY <1>4 DEF AddScene, UpdateScene, DeleteScene, Edit
<1>5. CASE \/ \E d \in Devices : DeleteDevice(d)
           \/ \E hub, others \in SUBSET Devices : KickOutHub(hub, others)
  BY <1>5, DeviceDeletions DEF DeleteDevices, Edit
<1>6. CASE Tick \/ Restart \/ UNCHANGED vars
  BY <1>6 DEF Tick, Restart, histVars, vars
<1>7. ASSUME NEW x, StopAfterDelete(x)
      PROVE  Justified(t)
  BY <1>7 DEF StopAfterDelete, histVars
<1> QED BY <1>1, <1>2, <1>3, <1>4, <1>5, <1>6, <1>7 DEF Next, Message

-------------------------------------------------------------------------------
(* Which schedules that are due start their scene.                           *)

(* The schedules to be checked are those of the scene the pass is at. *)
OneAtATime == \A p, q \in due : p[1] = q[1]

LEMMA OneNext == OneAtATime /\ [Next]_vars => OneAtATime'
<1> SUFFICES ASSUME OneAtATime, [Next]_vars PROVE OneAtATime'
  OBVIOUS
<1>1. ASSUME due' \subseteq due PROVE OneAtATime'
  BY <1>1 DEF OneAtATime
<1>2. ASSUME NEW s, Visit(s) PROVE OneAtATime'
  BY <1>2 DEF Visit, OneAtATime
<1>3. CASE ExecuteScene
  <2>1. ASSUME NEW s \in todo, PassIdle(s) \/ Control(s) \/ ControlOther(s) \/ PassDelay(s) \/ EndDelay(s)
        PROVE  Visit(s)
    BY <2>1 DEF PassIdle, Control, ControlOther, PassDelay, EndDelay
  <2>2. ASSUME NEW p \in due, FireDate(p[1], p[2]) \/ FireDaily(p[1], p[2]) \/ PassSchedule(p[1], p[2])
        PROVE  due' \subseteq due
    BY <2>2 DEF FireDate, FireDaily, PassSchedule
  <2>3. BeginPass => due' \subseteq due
    BY DEF BeginPass
  <2> QED BY <1>1, <1>2, <1>3, <2>1, <2>2, <2>3 DEF ExecuteScene
<1>4. CASE Message
  <2>1. ASSUME NEW d \in Devices, NEW v \in Values, DeviceReport(d, v) \/ StatusReport(d, v)
        PROVE  due' = due
    BY <2>1 DEF DeviceReport, StatusReport, passVars
  <2>2. ASSUME NEW s \in Scenes, NEW on \in BOOLEAN, ControlScene(s, on)
        PROVE  due' = due
    BY <2>2 DEF ControlScene, passVars
  <2>3. Edit => due' = due
    BY DEF Edit, passVars
  <2> QED BY <1>1, <1>4, <2>1, <2>2, <2>3 DEF Message, AddScene, UpdateScene, DeleteScene, DeleteDevice,
                                              KickOutHub, DeleteDevices
<1>5. CASE Tick \/ Restart \/ UNCHANGED vars
  BY <1>1, <1>5 DEF Tick, Restart, vars, passVars
<1>6. ASSUME NEW x, StopAfterDelete(x)
      PROVE  OneAtATime'
  BY <1>1, <1>6 DEF StopAfterDelete, passVars
<1> QED BY <1>3, <1>4, <1>5, <1>6 DEF Next

(* A schedule p[2] of the scene p[1] that is due, but was not before since the
   list was read, at a time at which the scene may start.                     *)
Expected(p) ==
    /\ IsDue(p[2]) /\ ~IsDate(p[2]) /\ p[2] \notin ram[p[1]].reached
    /\ ram[p[1]].type = "one" /\ checkScenePrecondition(ram[p[1]])

LEMMA ExpectedStarts ==
    ASSUME SceneInv, OneAtATime, [Next]_vars, restarts' = restarts,
           NEW p \in due \ due', Expected(p)
    PROVE  p[1] \in started'
<1> DEFINE s == p[1]
           c == p[2]
<1>1. p = <<s, c>> /\ <<s, c>> \in due
  <2>1. p \in Listed \X Schedule
    BY DEF SceneInv, TypeOK
  <2>2. p = <<p[1], p[2]>>
    BY <2>1
  <2> QED BY <2>2
<1>2. s \in Scenes /\ ram[s] \in Entry /\ c \in Schedule /\ c \in ram[s].conds
  BY <1>1, DueScene
<1>3. IsDue(c) /\ ~IsDate(c) /\ c \notin ram[s].reached /\ ram[s].type = "one"
      /\ checkScenePrecondition(ram[s])
  BY DEF Expected
<1> HIDE DEF s, c
<1>4. ASSUME NEW R \in SUBSET Condition
      PROVE  LET e == [ram[s] EXCEPT !.reached = R] IN
             e.type = "one" /\ e.conds = ram[s].conds /\ e.reached = R /\ checkScenePrecondition(e)
  <2>1. LET e == [ram[s] EXCEPT !.reached = R] IN
        /\ e.type = ram[s].type /\ e.conds = ram[s].conds /\ e.reached = R
        /\ e.enabled = ram[s].enabled /\ e.window = ram[s].window
    BY <1>2 DEF Entry
  <2> QED BY <1>3, <2>1 DEF checkScenePrecondition
<1>5. ASSUME NEW t, NEW x, FireDate(t, x)
      PROVE  s \in started'
  <2> DEFINE R == ram[s].reached \cup {x}
             e == [ram[s] EXCEPT !.reached = R]
  <2>1. <<t, x>> \in due
    BY <1>5 DEF FireDate
  <2>2. t = s
    <3> DEFINE q == <<t, x>>
    <3>1. q \in due /\ q[1] = t /\ p \in due
      BY <2>1
    <3>2. q[1] = p[1]
      BY <3>1 DEF OneAtATime
    <3> QED BY <3>2 DEF s
  <2>3. x \in Condition
    BY <2>1, DueScene, ScheduleFields
  <2>4. R \in SUBSET Condition
    BY <1>2, <2>3, EntryFields
  <2>5. e.type = "one" /\ checkScenePrecondition(e)
    BY <1>4, <2>4
  <2>6. Record(IF IF e.type = "one" THEN checkScenePrecondition(e) ELSE checkSceneCondition(e, dps)
               THEN {s} ELSE {})
    BY <1>5, <2>2 DEF FireDate
  <2> HIDE DEF e
  <2>7. Record({s})
    BY <2>5, <2>6
  <2> QED BY <2>7 DEF Record
<1>6. ASSUME NEW t, NEW x, FireDaily(t, x)
      PROVE  s \in started'
  <2> DEFINE R == ram[s].reached \cup {c}
             e == [ram[s] EXCEPT !.reached = R]
  <2>1. due' = due \ {<<t, x>>}
    BY <1>6 DEF FireDaily
  <2>2. t = s /\ x = c
    BY <1>1, <2>1 DEF s, c
  <2>3. R \in SUBSET Condition
    BY <1>2, EntryFields, ScheduleFields
  <2>4. e.type = "one" /\ checkScenePrecondition(e) /\ c \in e.conds /\ c \in e.reached
    BY <1>2, <1>4, <2>3
  <2>5. Record(IF checkSceneCondition(e, dps) THEN {s} ELSE {})
    BY <1>6, <2>2 DEF FireDaily
  <2> HIDE DEF e
  <2>6. checkSceneCondition(e, dps)
    BY <1>2, <2>4, ScheduleFields DEF checkSceneCondition
  <2>7. Record({s})
    BY <2>5, <2>6
  <2> QED BY <2>7 DEF Record
<1>7. ASSUME NEW t, NEW x, PassSchedule(t, x)
      PROVE  s \in started'
  <2>1. due' = due \ {<<t, x>>}
    BY <1>7 DEF PassSchedule
  <2>2. t = s /\ x = c
    BY <1>1, <2>1 DEF s, c
  <2> QED BY <1>3, <1>7, <2>2 DEF PassSchedule
<1>8. CASE ExecuteScene
  <2>1. ASSUME NEW t \in todo, PassIdle(t) \/ Control(t) \/ ControlOther(t) \/ PassDelay(t) \/ EndDelay(t)
        PROVE  due = {}
    BY <2>1 DEF PassIdle, Control, ControlOther, PassDelay, EndDelay, Visit
  <2>2. BeginPass => due = {}
    BY DEF BeginPass
  <2> QED BY <1>5, <1>6, <1>7, <1>8, <2>1, <2>2 DEF ExecuteScene, s
<1>9. CASE Message
  <2>1. Listening
    BY <1>9 DEF Message, DeviceReport, StatusReport, ControlScene, AddScene, UpdateScene, DeleteScene,
                DeleteDevice, KickOutHub, DeleteDevices, Edit
  <2> QED BY <2>1 DEF Listening
<1>10. CASE Tick \/ Restart \/ UNCHANGED vars
  <2>1. restarts \in Nat
    BY BoundsAssumption DEF SceneInv, TypeOK
  <2> QED BY <1>10, <2>1 DEF Tick, Restart, vars, passVars
<1>11. ASSUME NEW x, StopAfterDelete(x)
       PROVE  s \in started'
  BY <1>11 DEF StopAfterDelete, passVars
<1> QED BY <1>8, <1>9, <1>10, <1>11 DEF Next, s

-------------------------------------------------------------------------------
(* The state of the scene engine has its types, and the invariant holds. *)
THEOREM InvHolds == Spec => []SceneInv
<1> QED BY InitInv, StepInv, PTL DEF Spec

(* The devices whose rows went with a hub have no row. *)
LEMMA StraysHold == Spec => []StraysInv
<1>1. Init => StraysInv
  BY DEF Init, StraysInv
<1> QED BY <1>1, StraysNext, InvHolds, PTL DEF Spec

(* What counts as reached has come since the list was read. *)
LEMMA ReachedHolds == Spec => []ReachedInv
<1> QED BY ReachedInit, ReachedNext, InvHolds, PTL DEF Spec

(* For any scenes, devices and plans, and any number of edits, reports and
   restarts, the state of the engine has its types: in particular a run never
   comes past the actions of its scene (ExecuteScene reads them unchecked).  *)
THEOREM TypeCorrect == Spec => []TypeOK
<1>1. SceneInv => TypeOK
  BY DEF SceneInv
<1> QED BY <1>1, InvHolds, PTL

(* The list that decides what runs says what the table says
   (Db_LoadSceneToRam, Db_EnableScene, Db_SaveSceneCondDate and their callers). *)
THEOREM ListAgrees == Spec => []RamIsDb
<1>1. SceneInv => RamIsDb
  BY DEF SceneInv
<1> QED BY <1>1, InvHolds, PTL

(* A schedule for one date comes once, however often the list is read again
   and CORE restarted (ExecuteScene, Db_SaveSceneCondDate).                  *)
THEOREM DatesComeOnce == Spec => []OnceOnly
<1>1. SceneInv => OnceOnly
  BY DEF SceneInv
<1> QED BY <1>1, InvHolds, PTL

(* What a deletion takes away, also the scenes that it leaves without actions
   and those that these leave without, is mentioned by no scene that stays
   (DeleteDeviceFromScenes, which calls itself for each of them), unless CORE
   stops within it; the rows of other gateways that go with a hub are not told
   to the scenes.                                                            *)
THEOREM NothingDangles == Spec => NoDangling
<1>1. SceneInv /\ SceneInv' /\ StraysInv /\ [Next]_vars => [CleanStep]_vars
  BY CleanNext
<1> QED BY <1>1, InvHolds, StraysHold, PTL DEF Spec, NoDangling, CleanStep

(* And it takes away no more: but for the scene that is deleted, only scenes go
   all of whose actions were about things that go, and the others lose the
   actions and conditions that are about these, and nothing else.            *)
DeletesNoMore ==
    [][TakenAway # {} /\ restarts' = restarts =>
        \E x \in TakenAway : \A s \in Scenes \ {x} : rows[s] # NoScene =>
            IF rows'[s] = NoScene
            THEN \A j \in 1..Len(rows[s].actions) : rows[s].actions[j].entity \in TakenAway
            ELSE Cleaned(rows'[s], rows[s], TakenAway)]_vars

(* DeleteDeviceFromScenes deletes no scene, action or condition without need. *)
THEOREM OnlyTheEmptiedGo == Spec => DeletesNoMore
<1>1. SceneInv /\ SceneInv' /\ StraysInv /\ [Next]_vars => [ExactStep]_vars
  BY CleanNext
<1> QED BY <1>1, InvHolds, StraysHold, PTL DEF Spec, DeletesNoMore, ExactStep

(* A scene with conditions that no other scene started is enabled in the table,
   within its effective time, and one of its conditions is met in this moment.
   If it needs all of them, its devices have their values, and each of its
   schedules has come since the list was read: that is what timeReached, which
   is never reset, leaves of them (checkScenePrecondition, checkSceneCondition
   and their callers in ExecuteScene and checkSceneForDevice).               *)
THEOREM StartsHaveReasons == Spec => StartsJustified
<1>1. SceneInv /\ SceneInv' /\ ReachedInv /\ [Next]_vars => [StartStep]_vars
  BY StartNext
<1> QED BY <1>1, InvHolds, ReachedHolds, PTL DEF Spec, StartsJustified, StartStep, Justified

(* What RunsEveryDay leaves out is the only thing that is wrong: a schedule of a
   scene that needs one condition starts it whenever it is due and the scene may
   start, if it did not come before since the list was read (timeReached, which
   ExecuteScene never resets).                                                 *)
RunsUnlessReached ==
    [][\A p \in due \ due' :
          LET s == p[1]  c == p[2] IN
          /\ IsDue(c) /\ ~IsDate(c) /\ restarts' = restarts /\ c \notin ram[s].reached
          /\ ram[s].type = "one" /\ checkScenePrecondition(ram[s])
          => s \in started']_vars

(* A due schedule starts its scene whenever it did not come before since the list
   was read (checkSceneCondition, ExecuteScene).                               *)
THEOREM FirstTimeRuns == Spec => RunsUnlessReached
<1>1. Init => OneAtATime
  BY DEF Init, OneAtATime
<1>2. SceneInv /\ OneAtATime /\ [Next]_vars
        => [\A p \in due \ due' :
               LET s == p[1]  c == p[2] IN
               /\ IsDue(c) /\ ~IsDate(c) /\ restarts' = restarts /\ c \notin ram[s].reached
               /\ ram[s].type = "one" /\ checkScenePrecondition(ram[s])
               => s \in started']_vars
  BY ExpectedStarts DEF Expected
<1> QED BY <1>1, <1>2, OneNext, InvHolds, PTL DEF Spec, RunsUnlessReached
================================================================================
