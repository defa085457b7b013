---------------------------- MODULE MCSceneEngine ----------------------------
(* Instances of SceneEngine for TLC. *)
EXTENDS SceneEngine

CONSTANTS A, B, lamp, tv

Do(kind, entity, state) == [kind |-> kind, entity |-> entity, state |-> state]
Off(d)      == Do("control", d, 0)
Wait        == Do("delay", Absent, 0)
Run(s)      == Do("scene", s, 2)
Disable(s)  == Do("scene", s, 0)

Lamp(expr, v) == [kind |-> "device", dev |-> lamp, expr |-> expr, val |-> v]
At(days, t) == [kind |-> "schedule", days |-> days, time |-> t, over |-> FALSE]

Night  == [from |-> 1, to |-> 0, days |-> {0}]
Sunday == [from |-> 0, to |-> 1, days |-> {1}]
SomeWindows == {NoWindow, Night, Sunday}

Scene(type, window, conds, actions) ==
    [enabled |-> TRUE, type |-> type, window |-> window, actions |-> actions, conds |-> conds]

(* A is started by the lamp and on a date; B by the lamp at night, and by A. *)
PlanA == <<Wait, Run(B)>>
PlanB == <<Off(tv), Disable(A)>>
SomePlans ==
    {Without(p, gone) : p \in {PlanA, PlanB}, gone \in SUBSET (Scenes \cup Devices)} \ {<<>>}

SomeScenes ==
    [s \in Scenes |->
        IF s = A THEN {Scene("one", w, {Lamp({"="}, 1), At({}, 1)}, PlanA) : w \in {Absent, Sunday}}
                 ELSE {Scene("all", Night, {Lamp({">", "="}, 1), At({0, 1}, 1)}, PlanB),
                       Scene("manual", NoWindow, {}, <<Off(tv)>>)}]

(* Everything is off at first; one report can change that. *)
AllOff == Init /\ \A d \in Devices : dps[d] = 0
AllOffSpec == AllOff /\ [][Next]_vars /\ Fairness

(* A switches the tv off every day. *)
DailyScene ==
    [s \in Scenes |-> IF s = A THEN {Scene("one", NoWindow, {At({0, 1}, 0)}, <<Off(tv)>>)} ELSE {}]
==============================================================================
