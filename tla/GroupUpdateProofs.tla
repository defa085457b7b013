--------------------------- MODULE GroupUpdateProofs ---------------------------
(* Proofs about GroupUpdate. *)
EXTENDS GroupUpdate, FiniteSetTheorems, SequenceTheorems, TLAPS

USE ElementsAssumption, GroupsAssumption, PatientAssumption, BoundsAssumption

-------------------------------------------------------------------------------
(* The response list. *)

Entry == [elem : Elements, status : Statuses]

LEMMA StatesDistinct ==
    /\ InGroup \in States /\ Failed \in States /\ Adding \in States
    /\ Removing \in States /\ Out \in States
    /\ Adding \notin {InGroup, Failed, Out} /\ Removing \notin {InGroup, Failed, Out}
    /\ InGroup # Failed
BY DEF States, InGroup, Failed, Adding, Removing, Out

(* The same items, whatever became of their entries. *)
Alike(a, b) == /\ Len(a) = Len(b)
               /\ \A i \in 1..Len(a) : a[i].op = b[i].op /\ a[i].group = b[i].group

LEMMA ListingsType ==
    ASSUME NEW S, S \subseteq Elements, NEW s \in SetToSeqs(S)
    PROVE  s \in Seq(Elements) /\ (s = <<>> => S = {})
<1>1. IsFiniteSet(S)
  BY FS_Subset
<1>2. Cardinality(S) \in Nat
  BY <1>1, FS_CardinalityType
<1>3. s \in [1..Cardinality(S) -> S]
  BY DEF SetToSeqs
<1>4. s \in Seq(S) /\ Len(s) = Cardinality(S)
  BY <1>2, <1>3
<1>5. s \in Seq(Elements)
  BY <1>4
<1>6. s = <<>> => Cardinality(S) = 0
  BY <1>4
<1> QED BY <1>1, <1>5, <1>6, FS_EmptySet

LEMMA EntriesType ==
    ASSUME NEW s \in Seq(Elements)
    PROVE  Entries(s) \in Seq(Entry) /\ (Entries(s) = <<>> => s = <<>>)
<1>1. DOMAIN s = 1..Len(s) /\ Len(s) \in Nat /\ \A k \in 1..Len(s) : s[k] \in Elements
  OBVIOUS
<1>2. Entries(s) \in [1..Len(s) -> Entry]
  BY <1>1 DEF Entries, Entry, Statuses
<1>3. Entries(s) \in Seq(Entry) /\ Len(Entries(s)) = Len(s)
  BY <1>1, <1>2
<1> QED BY <1>3

LEMMA ItemFields ==
    ASSUME NEW item \in Item, NEW entries \in Seq(Entry), NEW x \in BOOLEAN
    PROVE  /\ [item EXCEPT !.entries = entries] \in Item
           /\ [item EXCEPT !.entries = entries].op = item.op
           /\ [item EXCEPT !.entries = entries].group = item.group
           /\ [item EXCEPT !.expired = x] \in Item
           /\ [item EXCEPT !.expired = x].op = item.op
           /\ [item EXCEPT !.expired = x].group = item.group
           /\ [item EXCEPT !.entries = entries, !.expired = x] \in Item
           /\ [item EXCEPT !.entries = entries, !.expired = x].op = item.op
           /\ [item EXCEPT !.entries = entries, !.expired = x].group = item.group
BY DEF Item, Entry

LEMMA RegisterType ==
    ASSUME respList \in Seq(Item), NEW op \in Ops, NEW g \in Groups, NEW s \in Seq(Elements)
    PROVE  /\ Register(op, g, s) \in Seq(Item)
           /\ \/ Alike(respList, Register(op, g, s)) /\ (s = <<>> \/ requestIsInRespList(op, g))
              \/ /\ ~requestIsInRespList(op, g) /\ s # <<>>
                 /\ \E item \in Item : /\ item.op = op /\ item.group = g
                                       /\ Register(op, g, s) = Append(respList, item)
<1> DEFINE item == [op |-> op, group |-> g, entries |-> Entries(s), expired |-> FALSE]
           joined(i) == [respList[i] EXCEPT !.entries = @ \o Entries(s), !.expired = FALSE]
           list == [i \in DOMAIN respList |-> IF IsItem(i, op, g) THEN joined(i) ELSE respList[i]]
<1>0. /\ DOMAIN respList = 1..Len(respList) /\ Len(respList) \in Nat
      /\ \A i \in 1..Len(respList) : respList[i] \in Item
  OBVIOUS
<1>1. Entries(s) \in Seq(Entry)
  BY EntriesType
<1>2. item \in Item /\ item.op = op /\ item.group = g
  BY <1>1 DEF Item, Entry
<1>3. ASSUME NEW i \in 1..Len(respList)
      PROVE  joined(i) \in Item /\ joined(i).op = respList[i].op
             /\ joined(i).group = respList[i].group
  <2>1. respList[i].entries \in Seq(Entry) /\ respList[i] \in Item
    BY <1>0 DEF Item, Entry
  <2>2. respList[i].entries \o Entries(s) \in Seq(Entry)
    BY <1>1, <2>1, ConcatProperties
  <2> QED BY <2>1, <2>2, ItemFields
<1> HIDE DEF item, joined
<1>4. list \in [1..Len(respList) -> Item]
  BY <1>0, <1>3
<1>5. list \in Seq(Item) /\ Len(list) = Len(respList)
  BY <1>0, <1>4
<1>6. Alike(respList, list)
  BY <1>0, <1>3, <1>5 DEF Alike
<1>7. CASE s = <<>>
  BY <1>0, <1>7 DEF Register, Alike
<1>8. CASE s # <<>> /\ requestIsInRespList(op, g)
  <2>1. Register(op, g, s) = list
    BY <1>8 DEF Register, joined
  <2> QED BY <1>5, <1>6, <1>8, <2>1
<1>9. CASE s # <<>> /\ ~requestIsInRespList(op, g)
  <2>1. Register(op, g, s) = Append(respList, item)
    BY <1>9 DEF Register, item
  <2> QED BY <1>2, <1>9, <2>1, AppendProperties
<1> QED BY <1>7, <1>8, <1>9

LEMMA UpdateStatusType ==
    ASSUME respList \in Seq(Item), NEW op, NEW g, NEW a, NEW status \in Statuses,
           updateDeviceRespStatus(op, g, a, status)
    PROVE  respList' \in Seq(Item) /\ Alike(respList, respList')
<1> DEFINE updated(i) == [respList[i] EXCEPT !.entries = WithStatus(@, a, status)]
<1>0. /\ DOMAIN respList = 1..Len(respList) /\ Len(respList) \in Nat
      /\ \A i \in 1..Len(respList) : respList[i] \in Item
  OBVIOUS
<1>1. ASSUME NEW entries \in Seq(Entry) PROVE WithStatus(entries, a, status) \in Seq(Entry)
  <2>1. /\ DOMAIN entries = 1..Len(entries) /\ Len(entries) \in Nat
        /\ \A k \in 1..Len(entries) : entries[k] \in Entry
    OBVIOUS
  <2>2. \A e \in Entry : [e EXCEPT !.status = status] \in Entry
    BY DEF Entry
  <2>3. WithStatus(entries, a, status) \in [1..Len(entries) -> Entry]
    BY <2>1, <2>2 DEF WithStatus
  <2> QED BY <2>1, <2>3
<1>2. ASSUME NEW i \in 1..Len(respList)
      PROVE  updated(i) \in Item /\ updated(i).op = respList[i].op
             /\ updated(i).group = respList[i].group
  <2>1. respList[i].entries \in Seq(Entry) /\ respList[i] \in Item
    BY <1>0 DEF Item, Entry
  <2> QED BY <1>1, <2>1, ItemFields
<1>3. respList' = [i \in 1..Len(respList) |->
                     IF IsItem(i, op, g) THEN updated(i) ELSE respList[i]]
  BY <1>0 DEF updateDeviceRespStatus
<1> HIDE DEF updated
<1>4. respList' \in [1..Len(respList) -> Item]
  BY <1>0, <1>2, <1>3
<1>5. respList' \in Seq(Item) /\ Len(respList') = Len(respList)
  BY <1>0, <1>4
<1> QED BY <1>0, <1>2, <1>3, <1>5 DEF Alike

LEMMA RemoveIndexType ==
    ASSUME respList \in Seq(Item), NEW i \in 1..Len(respList), RemoveIndex(i)
    PROVE  /\ respList' \in Seq(Item) /\ Len(respList') = Len(respList) - 1
           /\ \A j \in 1..Len(respList') :
                 respList'[j] = IF j < i THEN respList[j] ELSE respList[j + 1]
<1> DEFINE front == SubSeq(respList, 1, i - 1)
           back  == SubSeq(respList, i + 1, Len(respList))
<1>0. Len(respList) \in Nat /\ i \in Int /\ 1 <= i /\ i <= Len(respList)
  OBVIOUS
<1>1. front \in Seq(Item) /\ Len(front) = i - 1
      /\ \A j \in 1..(i - 1) : front[j] = respList[j]
  BY <1>0, SubSeqProperties
<1>2. back \in Seq(Item) /\ Len(back) = Len(respList) - i
      /\ \A j \in 1..(Len(respList) - i) : back[j] = respList[i + j]
  BY <1>0, SubSeqProperties
<1>3. respList' = front \o back
  BY DEF RemoveIndex, RemoveAt
<1> HIDE DEF front, back
<1>4. respList' \in Seq(Item) /\ Len(respList') = Len(respList) - 1
  <2>1. front \o back \in Seq(Item) /\ Len(front \o back) = Len(front) + Len(back)
    BY <1>1, <1>2, ConcatProperties
  <2> QED BY <1>0, <1>1, <1>2, <1>3, <2>1
<1>5. ASSUME NEW j \in 1..Len(respList')
      PROVE  respList'[j] = IF j < i THEN respList[j] ELSE respList[j + 1]
  <2>1. CASE j < i
    BY <1>0, <1>1, <1>2, <1>3, <1>4, <2>1, ConcatProperties
  <2>2. CASE ~(j < i)
    <3>1. respList'[j] = back[j - (i - 1)] /\ j - (i - 1) \in 1..(Len(respList) - i)
      BY <1>0, <1>1, <1>2, <1>3, <1>4, <2>2, ConcatProperties
    <3> QED BY <1>0, <1>2, <2>2, <3>1
  <2> QED BY <2>1, <2>2
<1> QED BY <1>4, <1>5

-------------------------------------------------------------------------------
(* Type correctness. *)

TypeInv == TypeOK /\ scan.i >= 1

LEMMA ConstantTypes ==
    /\ Empty \in Lists /\ NoToBe \in ToBe
    /\ NoScan \in [i : Nat, n : Nat, reqId : Ops]
    /\ [NoToBe EXCEPT !.memory = "freed"] \in ToBe
    /\ [NoToBe EXCEPT !.memory = "freed"].memory = "freed"
    /\ NoScan.i = 1 /\ NoScan.n = 0 /\ NoToBe.memory = "none"
<1>1. Empty \in Lists
  BY StatesDistinct DEF Empty, Lists
<1>2. SomeGroup \in Groups
  BY DEF SomeGroup
<1>3. NoToBe \in ToBe /\ NoToBe.memory = "none"
  BY <1>1, <1>2 DEF NoToBe, ToBe
<1>4. /\ [NoToBe EXCEPT !.memory = "freed"] \in ToBe
      /\ [NoToBe EXCEPT !.memory = "freed"].memory = "freed"
  BY <1>1, <1>2 DEF NoToBe, ToBe
<1>5. NoScan \in [i : Nat, n : Nat, reqId : Ops] /\ NoScan.i = 1 /\ NoScan.n = 0
  BY DEF NoScan, Ops
<1> QED BY <1>1, <1>3, <1>4, <1>5

LEMMA ListFacts ==
    ASSUME TypeOK
    PROVE  /\ DOMAIN respList = 1..Len(respList) /\ Len(respList) \in Nat
           /\ \A i \in 1..Len(respList) :
                 respList[i] \in Item /\ respList[i].op \in Ops /\ respList[i].group \in Groups
<1>1. /\ DOMAIN respList = 1..Len(respList) /\ Len(respList) \in Nat
      /\ \A i \in 1..Len(respList) : respList[i] \in Item
  BY DEF TypeOK
<1>2. \A item \in Item : item.op \in Ops /\ item.group \in Groups
  BY DEF Item
<1> QED BY <1>1, <1>2

LEMMA InitTypeInv == Init => TypeInv
<1> SUFFICES ASSUME Init PROVE TypeInv
  OBVIOUS
<1>1. saved \in [Groups -> Lists \cup {NoRow}] /\ shadow \in [Groups -> Lists \cup {NoRow}]
  BY StatesDistinct DEF Init, Lists
<1>2. mesh \in [Groups -> SUBSET Elements]
  BY DEF Init, Listed
<1>3. undefined \in BOOLEAN
  BY DEF Init
<1>4. scan \in [i : Nat, n : Nat, reqId : Ops] /\ scan.i >= 1 /\ tobe \in ToBe
  BY ConstantTypes DEF Init
<1>5. respList \in Seq(Item)
  BY DEF Init
<1>6. /\ commands \subseteq Command /\ answers \subseteq AnswerMsg
      /\ muddled \subseteq Groups /\ interrupted \subseteq Groups
  BY DEF Init
<1>7. /\ requests \in 0..MaxRequests /\ ttls \in 0..MaxTtl
      /\ restarts \in 0..MaxRestarts /\ faults \in 0..MaxFaults
  BY DEF Init
<1> QED BY <1>1, <1>2, <1>3, <1>4, <1>5, <1>6, <1>7 DEF TypeInv, TypeOK

LEMMA CommandsType ==
    ASSUME TypeOK, requests < MaxRequests, NEW op \in {"add", "remove", "ttl"},
           NEW g \in Groups, NEW S, S \subseteq Elements
    PROVE  Commands(op, g, S) \subseteq Command /\ requests + 1 \in 0..MaxRequests
<1>1. requests + 1 \in 1..MaxRequests /\ requests + 1 \in 0..MaxRequests
  BY DEF TypeOK
<1> QED BY <1>1 DEF Commands, Command

LEMMA AddGroupTypeInv == ASSUME TypeInv, NEW g \in Groups, AddGroup(g) PROVE TypeInv'
<1>1. PICK S \in (SUBSET Members(g)) \ {{}} :
        LET list == [e \in Elements |-> IF e \in S THEN Adding ELSE Out] IN
          /\ saved' = [saved EXCEPT ![g] = list]
          /\ shadow' = [shadow EXCEPT ![g] = list]
          /\ tobe' = [memory |-> "live", group |-> g, devices |-> list]
          /\ \E s \in SetToSeqs(S) : respList' = Register("add", g, s)
          /\ commands' = commands \cup Commands("add", g, S)
  BY DEF AddGroup
<1> DEFINE list == [e \in Elements |-> IF e \in S THEN Adding ELSE Out]
<1>2. S \subseteq Elements
  BY DEF Members
<1>3. list \in Lists
  BY StatesDistinct DEF Lists
<1>4. requests < MaxRequests /\ requests' = requests + 1
  BY DEF AddGroup, AppIsReady, NoteRequest
<1>5. respList' \in Seq(Item)
  <2>1. PICK s \in SetToSeqs(S) : respList' = Register("add", g, s)
    BY <1>1
  <2>2. s \in Seq(Elements)
    BY <1>2, ListingsType
  <2> QED BY <2>1, <2>2, RegisterType DEF TypeInv, TypeOK, Ops
<1>6. commands' \subseteq Command /\ requests' \in 0..MaxRequests
  BY <1>1, <1>2, <1>4, CommandsType DEF TypeInv, TypeOK
<1>7. tobe' \in ToBe
  BY <1>1, <1>3 DEF ToBe
<1> HIDE DEF list
<1>8. saved' \in [Groups -> Lists \cup {NoRow}] /\ shadow' \in [Groups -> Lists \cup {NoRow}]
  BY <1>1, <1>3 DEF TypeInv, TypeOK, list
<1>9. muddled' \subseteq Groups
  BY DEF AddGroup, NoteRequest, TypeInv, TypeOK
<1> QED BY <1>5, <1>6, <1>7, <1>8, <1>9 DEF AddGroup, TypeInv, TypeOK

LEMMA SavedDevicesType ==
    ASSUME TypeOK, NEW g \in Groups, NEW list \in Lists
    PROVE  SavedDevices(g, list) \in [Groups -> Lists \cup {NoRow}]
BY DEF TypeOK, SavedDevices

LEMMA UpdateGroupTypeInv == ASSUME TypeInv, NEW g \in Groups, UpdateGroup(g) PROVE TypeInv'
<1>1. PICK list \in Edits(g) :
         LET toAdd == Listed(list, {Adding})
             toRemove == Listed(list, {Removing}) IN
            /\ tobe' = [memory |-> "live", group |-> g, devices |-> list]
            /\ commands' = commands \cup Commands("remove", g, toRemove)
                                    \cup Commands("add", g, toAdd)
            /\ \E s \in SetToSeqs(toAdd), t \in SetToSeqs(toRemove) :
                  respList' = Register("update", g, s \o t)
            /\ saved' = SavedDevices(g, list)
            /\ shadow' = [shadow EXCEPT ![g] = list]
  BY DEF UpdateGroup
<1> DEFINE toAdd == Listed(list, {Adding})
           toRemove == Listed(list, {Removing})
<1>2. list \in Lists /\ toAdd \subseteq Elements /\ toRemove \subseteq Elements
  BY DEF Edits, Listed
<1>3. requests < MaxRequests /\ requests' = requests + 1
  BY DEF UpdateGroup, AppIsReady, NoteRequest
<1>4. respList' \in Seq(Item)
  <2>1. PICK s \in SetToSeqs(toAdd), t \in SetToSeqs(toRemove) :
          respList' = Register("update", g, s \o t)
    BY <1>1
  <2>2. s \in Seq(Elements) /\ t \in Seq(Elements)
    BY <1>2, ListingsType
  <2>3. s \o t \in Seq(Elements)
    BY <2>2, ConcatProperties
  <2> QED BY <2>1, <2>3, RegisterType DEF TypeInv, TypeOK, Ops
<1>5. commands' \subseteq Command /\ requests' \in 0..MaxRequests
  <2>1. Commands("remove", g, toRemove) \subseteq Command /\ requests' \in 0..MaxRequests
    BY <1>2, <1>3, CommandsType DEF TypeInv
  <2>2. Commands("add", g, toAdd) \subseteq Command
    BY <1>2, <1>3, CommandsType DEF TypeInv
  <2> QED BY <1>1, <2>1, <2>2 DEF TypeInv, TypeOK
<1>6. tobe' \in ToBe
  BY <1>1, <1>2 DEF ToBe
<1>7. saved' \in [Groups -> Lists \cup {NoRow}] /\ shadow' \in [Groups -> Lists \cup {NoRow}]
  BY <1>1, <1>2, SavedDevicesType DEF TypeInv, TypeOK
<1>8. muddled' \subseteq Groups
  BY DEF UpdateGroup, NoteRequest, TypeInv, TypeOK
<1> QED BY <1>4, <1>5, <1>6, <1>7, <1>8 DEF UpdateGroup, TypeInv, TypeOK

LEMMA DeleteGroupTypeInv == ASSUME TypeInv, NEW g \in Groups, DeleteGroup(g) PROVE TypeInv'
<1>1. requests < MaxRequests /\ requests' = requests + 1
  BY DEF DeleteGroup, AppIsReady, NoteRequest
<1>2. Listed(saved[g], States \ {Out}) \subseteq Elements
  BY DEF Listed
<1>3. commands' \subseteq Command /\ requests' \in 0..MaxRequests
  BY <1>1, <1>2, CommandsType DEF DeleteGroup, TypeInv, TypeOK
<1>4. saved' \in [Groups -> Lists \cup {NoRow}] /\ shadow' \in [Groups -> Lists \cup {NoRow}]
  BY DEF DeleteGroup, TypeInv, TypeOK
<1>5. muddled' \subseteq Groups
  BY DEF DeleteGroup, NoteRequest, TypeInv, TypeOK
<1>6. interrupted' \subseteq Groups
  BY DEF DeleteGroup, TypeInv, TypeOK
<1> QED BY <1>3, <1>4, <1>5, <1>6 DEF DeleteGroup, TypeInv, TypeOK, coreVars

LEMMA SetGroupTtlTypeInv == ASSUME TypeInv, NEW g \in Groups, SetGroupTtl(g) PROVE TypeInv'
<1> DEFINE addrs == {Addr(Device(e)) : e \in Listed(saved[g], States \ {Out})}
<1>1. addrs \subseteq Elements
  BY DEF Listed
<1>2. requests < MaxRequests /\ requests' = requests + 1
  BY DEF SetGroupTtl, AppIsReady, NoteRequest
<1>3. /\ \E s \in SetToSeqs(addrs) : respList' = Register("ttl", g, s)
      /\ commands' = commands \cup Commands("ttl", g, addrs)
  BY DEF SetGroupTtl
<1> HIDE DEF addrs
<1>4. respList' \in Seq(Item)
  <2>1. PICK s \in SetToSeqs(addrs) : respList' = Register("ttl", g, s)
    BY <1>3
  <2>2. s \in Seq(Elements)
    BY <1>1, ListingsType
  <2> QED BY <2>1, <2>2, RegisterType DEF TypeInv, TypeOK, Ops
<1>5. commands' \subseteq Command /\ requests' \in 0..MaxRequests
  BY <1>1, <1>2, <1>3, CommandsType DEF TypeInv, TypeOK
<1>6. muddled' \subseteq Groups /\ ttls' \in 0..MaxTtl
  BY DEF SetGroupTtl, NoteRequest, TypeInv, TypeOK
<1> QED BY <1>4, <1>5, <1>6 DEF SetGroupTtl, TypeInv, TypeOK

LEMMA AnswerToType ==
    ASSUME NEW c \in Command, NEW a \in Elements, NEW status \in {"ok", "failed"}
    PROVE  AnswerTo(c, a, status) \in AnswerMsg
BY DEF AnswerTo, Command, AnswerMsg

LEMMA ObeyedType ==
    ASSUME TypeOK, NEW c \in Command
    PROVE  Obeyed(c) \in [Groups -> SUBSET Elements]
<1>1. c.group \in Groups /\ c.elem \in Elements
  BY DEF Command
<1> QED BY <1>1 DEF Obeyed, TypeOK

LEMMA EnvironmentTypeInv == TypeInv /\ Environment => TypeInv'
<1> SUFFICES ASSUME TypeInv, Environment PROVE TypeInv'
  OBVIOUS
<1>1. ASSUME NEW c \in commands, Execute(c) \/ Refuse(c) \/ TimeOut(c) PROVE TypeInv'
  <2>1. c \in Command /\ c.elem \in Elements
    BY DEF TypeInv, TypeOK, Command
  <2>2. Addr(Device(c.elem)) \in Elements
    BY <2>1
  <2>3. \A a \in Elements : AnswerTo(c, a, "ok") \in AnswerMsg /\ AnswerTo(c, a, "failed") \in AnswerMsg
    BY <2>1, AnswerToType
  <2>4. Obeyed(c) \in [Groups -> SUBSET Elements]
    BY <2>1, ObeyedType DEF TypeInv
  <2>5. answers' \subseteq AnswerMsg
    BY <1>1, <2>1, <2>2, <2>3 DEF Execute, Refuse, TimeOut, TypeInv, TypeOK
  <2>6. mesh' \in [Groups -> SUBSET Elements]
    BY <1>1, <2>4 DEF Execute, Refuse, TimeOut, TypeInv, TypeOK
  <2>7. commands' \subseteq Command
    BY <1>1 DEF Execute, Refuse, TimeOut, TypeInv, TypeOK
  <2>8. faults' \in 0..MaxFaults
    BY <1>1 DEF Execute, Refuse, TimeOut, Fault, TypeInv, TypeOK, histVars
  <2>9. UNCHANGED <<saved, coreVars, shadow, requests, ttls, restarts, muddled, interrupted>>
    BY <1>1 DEF Execute, Refuse, TimeOut, histVars
  <2> QED BY <2>5, <2>6, <2>7, <2>8, <2>9 DEF TypeInv, TypeOK, coreVars
<1>2. ASSUME NEW x \in answers, LoseAnswer(x) PROVE TypeInv'
  BY <1>2 DEF LoseAnswer, Fault, TypeInv, TypeOK, coreVars
<1> QED BY <1>1, <1>2 DEF Environment

LEMMA HandleAnswerTypeInv == ASSUME TypeInv, NEW x \in answers, HandleAnswer(x) PROVE TypeInv'
<1>1. x.status \in Statuses /\ "ok" \in Statuses
  BY DEF TypeInv, TypeOK, AnswerMsg, Statuses
<1>2. respList' \in Seq(Item)
  BY <1>1, UpdateStatusType DEF HandleAnswer, TypeInv, TypeOK
<1>3. answers' \subseteq AnswerMsg
  BY DEF HandleAnswer, TypeInv, TypeOK
<1> QED BY <1>2, <1>3 DEF HandleAnswer, TypeInv, TypeOK, histVars

LEMMA UpdatedDevicesType ==
    ASSUME NEW entries, NEW list \in Lists
    PROVE  /\ UpdatedDevices(entries, list) \in Lists
           /\ \A e \in Elements : UpdatedDevices(entries, list)[e] \notin {Adding, Removing}
<1>1. \A e \in Elements : StatusOf(entries, e) \in {InGroup, Failed}
  BY DEF StatusOf
<1>2. ASSUME NEW e \in Elements
      PROVE  StateAfter(entries, e, list[e]) \in States \ {Adding, Removing}
  BY <1>1, StatesDistinct DEF StateAfter
<1> QED BY <1>2 DEF UpdatedDevices, Lists

LEMMA FinishGroupType ==
    ASSUME TypeOK, NEW entries, FinishGroup(entries)
    PROVE  /\ saved' \in [Groups -> Lists \cup {NoRow}]
           /\ shadow' \in [Groups -> Lists \cup {NoRow}]
           /\ tobe' \in ToBe /\ undefined' \in BOOLEAN /\ interrupted' \subseteq Groups
<1>1. tobe.group \in Groups /\ tobe.devices \in Lists
  BY DEF TypeOK, ToBe
<1>2. CASE tobe.memory = "live"
  <2> DEFINE list == UpdatedDevices(entries, tobe.devices)
  <2>1. list \in Lists
    BY <1>1, UpdatedDevicesType
  <2> HIDE DEF list
  <2>2. /\ shadow' = [shadow EXCEPT ![tobe.group] = list]
        /\ saved' = SavedDevices(tobe.group, list)
        /\ tobe' = [NoToBe EXCEPT !.memory = "freed"]
        /\ interrupted' = interrupted \ {tobe.group}
        /\ undefined' = undefined
    BY <1>2 DEF FinishGroup, list
  <2>3. saved' \in [Groups -> Lists \cup {NoRow}]
    BY <1>1, <2>1, <2>2, SavedDevicesType
  <2>4. shadow' \in [Groups -> Lists \cup {NoRow}]
    BY <1>1, <2>1, <2>2 DEF TypeOK
  <2> QED BY <2>2, <2>3, <2>4, ConstantTypes DEF TypeOK
<1>3. CASE tobe.memory # "live"
  <2>1. undefined' = TRUE /\ UNCHANGED <<shadow, saved, tobe, interrupted>>
    BY <1>3 DEF FinishGroup
  <2> QED BY <2>1 DEF TypeOK
<1> QED BY <1>2, <1>3

LEMMA NextIndexType ==
    ASSUME TypeInv, scan.n > 0, NEW op \in Ops, NextIndex(op)
    PROVE  scan' \in [i : Nat, n : Nat, reqId : Ops] /\ scan'.i >= 1
BY ConstantTypes DEF NextIndex, TypeInv, TypeOK

LEMMA ResponseWaitingTypeInv == TypeInv /\ ResponseWaiting => TypeInv'
<1> SUFFICES ASSUME TypeInv, ResponseWaiting PROVE TypeInv'
  OBVIOUS
<1>0. /\ DOMAIN respList = 1..Len(respList) /\ Len(respList) \in Nat
      /\ \A i \in 1..Len(respList) : respList[i] \in Item /\ respList[i].op \in Ops
      /\ scan.i \in Nat /\ scan.i >= 1 /\ scan.reqId \in Ops
  <2>1. scan.i \in Nat /\ scan.i >= 1 /\ scan.reqId \in Ops
    BY DEF TypeInv, TypeOK
  <2> QED BY <2>1, ListFacts DEF TypeInv
<1>1. CASE StartScan
  <2>1. scan' \in [i : Nat, n : Nat, reqId : Ops] /\ scan'.i >= 1
    BY <1>0, <1>1 DEF StartScan, NoScan, Ops
  <2> QED BY <1>1, <2>1 DEF StartScan, TypeInv, TypeOK, meshVars, histVars
<1>2. CASE PassItem
  <2>1. scan' \in [i : Nat, n : Nat, reqId : Ops] /\ scan'.i >= 1
    BY <1>0, <1>2, NextIndexType DEF PassItem, Scanning
  <2> QED BY <1>2, <2>1 DEF PassItem, TypeInv, TypeOK, meshVars, histVars
<1>3. CASE FinishItem
  <2>1. scan.i \in 1..Len(respList) /\ scan.n > 0
    BY <1>0, <1>3 DEF FinishItem, Scanning
  <2>2. scan' \in [i : Nat, n : Nat, reqId : Ops] /\ scan'.i >= 1
    BY <1>0, <1>3, <2>1, NextIndexType DEF FinishItem
  <2>3. respList' \in Seq(Item)
    BY <1>3, <2>1, RemoveIndexType DEF FinishItem, TypeInv, TypeOK
  <2>4. \/ UNCHANGED <<shadow, saved, tobe, interrupted, undefined>>
        \/ FinishGroup(respList[scan.i].entries)
    BY <1>3 DEF FinishItem
  <2>5. /\ saved' \in [Groups -> Lists \cup {NoRow}]
        /\ shadow' \in [Groups -> Lists \cup {NoRow}]
        /\ tobe' \in ToBe /\ undefined' \in BOOLEAN /\ interrupted' \subseteq Groups
    BY <2>4, FinishGroupType DEF TypeInv, TypeOK
  <2> QED BY <1>3, <2>2, <2>3, <2>5 DEF FinishItem, TypeInv, TypeOK, meshVars
<1>4. CASE FinishNoItem
  <2>1. scan' \in [i : Nat, n : Nat, reqId : Ops] /\ scan'.i >= 1
    BY <1>0, <1>4, NextIndexType DEF FinishNoItem, Scanning
  <2>2. \/ UNCHANGED <<shadow, saved, tobe, interrupted, undefined>>
        \/ FinishGroup(<<>>)
    BY <1>4 DEF FinishNoItem
  <2>3. /\ saved' \in [Groups -> Lists \cup {NoRow}]
        /\ shadow' \in [Groups -> Lists \cup {NoRow}]
        /\ tobe' \in ToBe /\ undefined' \in BOOLEAN /\ interrupted' \subseteq Groups
    BY <2>2, FinishGroupType DEF TypeInv, TypeOK
  <2> QED BY <1>4, <2>1, <2>3 DEF FinishNoItem, TypeInv, TypeOK, meshVars
<1> QED BY <1>1, <1>2, <1>3, <1>4 DEF ResponseWaiting

LEMMA ExpireType ==
    ASSUME TypeInv, Expire
    PROVE  respList' \in Seq(Item) /\ Alike(respList, respList')
<1>1. PICK i \in DOMAIN respList : respList' = [respList EXCEPT ![i].expired = TRUE]
  BY DEF Expire
<1>2. /\ DOMAIN respList = 1..Len(respList) /\ Len(respList) \in Nat
      /\ \A j \in 1..Len(respList) : respList[j] \in Item
  BY DEF TypeInv, TypeOK
<1>3. /\ [respList[i] EXCEPT !.expired = TRUE] \in Item
      /\ [respList[i] EXCEPT !.expired = TRUE].op = respList[i].op
      /\ [respList[i] EXCEPT !.expired = TRUE].group = respList[i].group
  <2>1. <<>> \in Seq(Entry)
    OBVIOUS
  <2> QED BY <1>2, <2>1, ItemFields
<1>4. respList' = [respList EXCEPT ![i] = [respList[i] EXCEPT !.expired = TRUE]]
  BY <1>1
<1>5. respList' \in Seq(Item) /\ Len(respList') = Len(respList)
  BY <1>2, <1>3, <1>4 DEF TypeInv, TypeOK
<1> QED BY <1>2, <1>3, <1>4, <1>5 DEF Alike

LEMMA NextTypeInv == TypeInv /\ [Next]_vars => TypeInv'
<1> SUFFICES ASSUME TypeInv, [Next]_vars PROVE TypeInv'
  OBVIOUS
<1>1. CASE Request
  BY <1>1, AddGroupTypeInv, UpdateGroupTypeInv, DeleteGroupTypeInv, SetGroupTtlTypeInv DEF Request
<1>2. CASE Expire
  <2>1. respList' \in Seq(Item)
    BY <1>2, ExpireType
  <2>2. UNCHANGED <<saved, tobe, scan, undefined, shadow, meshVars, histVars>>
    BY <1>2 DEF Expire
  <2> QED BY <2>1, <2>2 DEF TypeInv, TypeOK, meshVars, histVars
<1>3. CASE Restart
  <2>1. interrupted' \subseteq Groups
    <3>1. interrupted' = interrupted \cup
             {respList[i].group : i \in {j \in DOMAIN respList : respList[j].op # "ttl"}}
      BY <1>3 DEF Restart
    <3>2. interrupted \subseteq Groups
      BY DEF TypeInv, TypeOK
    <3> QED BY <3>1, <3>2, ListFacts DEF TypeInv
  <2>2. scan' \in [i : Nat, n : Nat, reqId : Ops] /\ scan'.i >= 1 /\ tobe' \in ToBe
    BY <1>3, ConstantTypes DEF Restart
  <2>3. respList' \in Seq(Item)
    BY <1>3 DEF Restart
  <2>4. undefined' \in BOOLEAN
    BY <1>3 DEF Restart
  <2>5. restarts' \in 0..MaxRestarts
    BY <1>3 DEF Restart, TypeInv, TypeOK
  <2> QED BY <1>3, <2>1, <2>2, <2>3, <2>4, <2>5 DEF Restart, TypeInv, TypeOK, meshVars
<1>4. CASE UNCHANGED vars
  BY <1>4 DEF vars, TypeInv, TypeOK
<1> QED BY <1>1, <1>2, <1>3, <1>4, EnvironmentTypeInv, HandleAnswerTypeInv,
           ResponseWaitingTypeInv DEF Next

(* The state of CORE, of the cloud and of the mesh has its types. *)
THEOREM TypeInvariant == Spec => []TypeInv
<1> QED BY InitTypeInv, NextTypeInv, PTL DEF Spec

THEOREM TypeCorrect == Spec => []TypeOK
<1>1. TypeInv => TypeOK
  BY DEF TypeInv
<1> QED BY <1>1, TypeInvariant, PTL

-------------------------------------------------------------------------------
(* A patient app: the memory of g_groupTobeUpdated, the agreement of cloud and
   database, and the verdicts.                                               *)

(* At most one item of each sort, that of the group behind that of the TTL. *)
ListInv ==
    \A i \in 1..Len(respList) :
        /\ respList[i].op = "ttl" => i = 1
        /\ respList[i].op # "ttl" => i = Len(respList)

(* While a request of a group waits, g_groupTobeUpdated is its group. *)
HeldInv ==
    \A i \in 1..Len(respList) : respList[i].op # "ttl" =>
        tobe.memory = "live" /\ tobe.group = respList[i].group /\ saved[tobe.group] # NoRow

(* The last index of a pass can be one too many, but only after a TTL item. *)
ScanInv ==
    \/ scan.n = 0
    \/ scan.i = 1 /\ scan.n = Len(respList)
    \/ scan.i = 2 /\ scan.n = 2 /\ scan.reqId = "ttl" /\ Len(respList) \in {1, 2}

AgreeInv == undefined = FALSE /\ shadow = saved

WaitingIn(list, g) == \E i \in 1..Len(list) : list[i].op # "ttl" /\ list[i].group = g

SettledInv ==
    \A g \in Groups \ interrupted :
        ~WaitingIn(respList, g) /\ saved[g] # NoRow => Listed(saved[g], {Adding, Removing}) = {}

PatientInv == ListInv /\ HeldInv /\ ScanInv /\ AgreeInv /\ SettledInv

LEMMA WaitingFacts ==
    ASSUME TypeOK, NEW g \in Groups
    PROVE  /\ Waiting(g) <=> WaitingIn(respList, g)
           /\ requestIsInRespList("add", g) => WaitingIn(respList, g)
           /\ requestIsInRespList("update", g) => WaitingIn(respList, g)
           /\ requestIsInRespList("ttl", g) <=>
                  \E i \in 1..Len(respList) : respList[i].op = "ttl"
BY ListFacts DEF Waiting, WaitingIn, requestIsInRespList, IsItem, Ops

LEMMA ListLength ==
    ASSUME TypeOK, ListInv
    PROVE  Len(respList) \in {0, 1, 2}
<1>1. Len(respList) \in Nat
  BY ListFacts
<1>2. Len(respList) <= 2
  <2> SUFFICES ASSUME Len(respList) > 2 PROVE FALSE
    BY <1>1
  <2>1. 2 \in 1..Len(respList)
    BY <1>1
  <2> QED BY <1>1, <2>1 DEF ListInv
<1>3. \A n \in Nat : n <= 2 => n \in {0, 1, 2}
  OBVIOUS
<1> QED BY <1>1, <1>2, <1>3

LEMMA InitPatientInv == Init => PatientInv
<1> SUFFICES ASSUME Init PROVE PatientInv
  OBVIOUS
<1>1. respList = <<>> /\ undefined = FALSE /\ shadow = saved /\ scan = NoScan
  BY DEF Init
<1>2. AgreeInv /\ ScanInv
  BY <1>1, ConstantTypes DEF AgreeInv, ScanInv
<1>5. ListInv /\ HeldInv
  BY <1>1 DEF ListInv, HeldInv
<1>3. \A g \in Groups : saved[g] \in {NoRow} \cup [Elements -> {InGroup, Out}]
  BY DEF Init
<1>4. SettledInv
  BY <1>3, StatesDistinct DEF SettledInv, Listed
<1> QED BY <1>2, <1>4, <1>5 DEF PatientInv

(* Steps that change at most the entries of the items. *)
LEMMA AlikePatientInv ==
    ASSUME TypeOK, PatientInv, Alike(respList, respList'),
           UNCHANGED <<saved, tobe, scan, undefined, shadow, interrupted>>
    PROVE  PatientInv'
<1>0. Len(respList) \in Nat
  BY ListFacts
<1>1. ListInv' /\ HeldInv' /\ ScanInv' /\ AgreeInv'
  BY <1>0 DEF Alike, PatientInv, ListInv, HeldInv, ScanInv, AgreeInv
<1>2. \A g : WaitingIn(respList', g) <=> WaitingIn(respList, g)
  BY <1>0 DEF Alike, WaitingIn
<1>3. SettledInv'
  BY <1>2 DEF PatientInv, SettledInv
<1> QED BY <1>1, <1>3 DEF PatientInv

(* A request is made only when no other waits, and no pass is under way. *)
LEMMA ReadyFacts ==
    ASSUME Patient, TypeOK, PatientInv, Idle, AppIsReady
    PROVE  /\ scan.n = 0 /\ undefined = FALSE
           /\ \A g \in Groups : ~WaitingIn(respList, g)
           /\ \A i \in 1..Len(respList) : respList[i].op = "ttl"
           /\ Len(respList) \in {0, 1}
<1>0. scan.n = 0 /\ undefined = FALSE
  BY DEF Idle, TypeOK
<1>1. \A g \in Groups : ~WaitingIn(respList, g)
  BY WaitingFacts DEF AppIsReady
<1>2. \A i \in 1..Len(respList) : respList[i].op = "ttl"
  BY <1>1, ListFacts DEF WaitingIn
<1>3. Len(respList) \in {0, 1, 2}
  BY ListLength DEF PatientInv
<1>4. Len(respList) # 2
  BY <1>2, <1>3 DEF PatientInv, ListInv
<1> QED BY <1>0, <1>1, <1>2, <1>3, <1>4

(* The list after a request that changes a group: one more item, or, when the
   app lists nobody, none.                                                   *)
LEMMA RegisterGroup ==
    ASSUME Patient, TypeOK, PatientInv, Idle, AppIsReady, NEW op \in {"add", "update"},
           NEW g \in Groups, NEW s \in Seq(Elements), respList' = Register(op, g, s)
    PROVE  /\ Len(respList') \in Nat
           /\ \A i \in 1..Len(respList') :
                 /\ respList'[i].op = "ttl" => i = 1
                 /\ respList'[i].op # "ttl" => i = Len(respList') /\ respList'[i].group = g
           /\ s # <<>> => WaitingIn(respList', g)
           /\ \A h \in Groups \ {g} : ~WaitingIn(respList', h)
<1>0. /\ \A i \in 1..Len(respList) : respList[i].op = "ttl"
      /\ Len(respList) \in {0, 1} /\ respList \in Seq(Item) /\ op \in Ops /\ op # "ttl"
  BY ReadyFacts DEF TypeOK, Ops
<1>1. ~requestIsInRespList(op, g)
  BY ReadyFacts, WaitingFacts
<1>2. CASE s = <<>>
  <2>1. Alike(respList, respList')
    BY <1>0, <1>1, <1>2, RegisterType
  <2> QED BY <1>0, <1>2, <2>1 DEF Alike, WaitingIn
<1>3. CASE s # <<>>
  <2>1. PICK item \in Item : /\ item.op = op /\ item.group = g
                             /\ respList' = Append(respList, item)
    BY <1>0, <1>1, <1>3, RegisterType
  <2>2. /\ Len(respList') = Len(respList) + 1 /\ respList'[Len(respList) + 1] = item
        /\ \A i \in 1..Len(respList) : respList'[i] = respList[i]
    BY <1>0, <2>1, AppendProperties
  <2>3. \A i \in 1..Len(respList') : i = Len(respList) + 1 \/ i \in 1..Len(respList)
    BY <1>0, <2>2
  <2>4. Len(respList) + 1 \in 1..Len(respList')
    BY <1>0, <2>2
  <2>5. \A i \in 1..Len(respList') :
          /\ respList'[i].op = "ttl" => i = 1
          /\ respList'[i].op # "ttl" => i = Len(respList') /\ respList'[i].group = g
    BY <1>0, <2>1, <2>2, <2>3
  <2>6. WaitingIn(respList', g)
    BY <1>0, <2>1, <2>2, <2>4 DEF WaitingIn
  <2> QED BY <1>0, <2>2, <2>5, <2>6 DEF WaitingIn
<1> QED BY <1>2, <1>3

LEMMA AddGroupPatientInv ==
    ASSUME Patient, TypeInv, PatientInv, NEW g \in Groups, AddGroup(g)
    PROVE  PatientInv'
<1>1. PICK S \in (SUBSET Members(g)) \ {{}} :
        LET list == [e \in Elements |-> IF e \in S THEN Adding ELSE Out] IN
          /\ saved' = [saved EXCEPT ![g] = list]
          /\ shadow' = [shadow EXCEPT ![g] = list]
          /\ tobe' = [memory |-> "live", group |-> g, devices |-> list]
          /\ \E s \in SetToSeqs(S) : respList' = Register("add", g, s)
  BY DEF AddGroup
<1> DEFINE list == [e \in Elements |-> IF e \in S THEN Adding ELSE Out]
<1>2. list \in Lists /\ list # NoRow
  BY StatesDistinct DEF Lists
<1> HIDE DEF list
<1>3. PICK s \in SetToSeqs(S) : respList' = Register("add", g, s)
  BY <1>1
<1>4. s \in Seq(Elements) /\ s # <<>>
  <2>1. S \subseteq Elements /\ S # {}
    BY DEF Members
  <2> QED BY <2>1, ListingsType
<1>5. TypeOK /\ Idle /\ AppIsReady
  BY DEF TypeInv, AddGroup
<1>6. /\ Len(respList') \in Nat
      /\ \A i \in 1..Len(respList') :
            /\ respList'[i].op = "ttl" => i = 1
            /\ respList'[i].op # "ttl" => i = Len(respList') /\ respList'[i].group = g
      /\ WaitingIn(respList', g)
      /\ \A h \in Groups \ {g} : ~WaitingIn(respList', h)
  BY <1>3, <1>4, <1>5, RegisterGroup
<1>7. /\ saved' = [saved EXCEPT ![g] = list] /\ shadow' = [shadow EXCEPT ![g] = list]
      /\ tobe' = [memory |-> "live", group |-> g, devices |-> list]
  BY <1>1 DEF list
<1>8. saved'[g] # NoRow /\ \A h \in Groups \ {g} : saved'[h] = saved[h]
  BY <1>2, <1>5, <1>7 DEF TypeOK
<1>9. ListInv' /\ HeldInv'
  BY <1>6, <1>7, <1>8 DEF ListInv, HeldInv
<1>10. ScanInv' /\ AgreeInv'
  BY <1>5, <1>7, ReadyFacts DEF AddGroup, ScanInv, AgreeInv, PatientInv
<1>11. SettledInv'
  BY <1>5, <1>6, <1>8, ReadyFacts DEF AddGroup, SettledInv, PatientInv
<1> QED BY <1>9, <1>10, <1>11 DEF PatientInv

LEMMA UpdateGroupPatientInv ==
    ASSUME Patient, TypeInv, PatientInv, NEW g \in Groups, UpdateGroup(g)
    PROVE  PatientInv'
<1>1. PICK list \in Edits(g) :
         /\ tobe' = [memory |-> "live", group |-> g, devices |-> list]
         /\ \E s \in SetToSeqs(Listed(list, {Adding})), t \in SetToSeqs(Listed(list, {Removing})) :
               respList' = Register("update", g, s \o t)
         /\ saved' = SavedDevices(g, list)
         /\ shadow' = [shadow EXCEPT ![g] = list]
  BY DEF UpdateGroup
<1>2. PICK s \in SetToSeqs(Listed(list, {Adding})), t \in SetToSeqs(Listed(list, {Removing})) :
         respList' = Register("update", g, s \o t)
  BY <1>1
<1>3. /\ s \in Seq(Elements) /\ (s = <<>> => Listed(list, {Adding}) = {})
      /\ t \in Seq(Elements) /\ (t = <<>> => Listed(list, {Removing}) = {})
  BY ListingsType DEF Listed
<1>4. s \o t \in Seq(Elements) /\ Len(s \o t) = Len(s) + Len(t)
  BY <1>3, ConcatProperties
<1>5. s \o t = <<>> => s = <<>> /\ t = <<>>
  BY <1>3, <1>4
<1>6. s \o t = <<>> => Listed(list, {Adding, Removing}) = {}
  BY <1>3, <1>5 DEF Listed
<1>7. TypeOK /\ Idle /\ AppIsReady /\ list \in Lists /\ list # NoRow
  BY DEF TypeInv, UpdateGroup, Edits
<1>8. /\ Len(respList') \in Nat
      /\ \A i \in 1..Len(respList') :
            /\ respList'[i].op = "ttl" => i = 1
            /\ respList'[i].op # "ttl" => i = Len(respList') /\ respList'[i].group = g
      /\ s \o t # <<>> => WaitingIn(respList', g)
      /\ \A h \in Groups \ {g} : ~WaitingIn(respList', h)
  BY <1>2, <1>4, <1>7, RegisterGroup
<1>9. saved[g] # NoRow /\ shadow = saved
  BY DEF UpdateGroup, PatientInv, AgreeInv
<1>10. saved' = [saved EXCEPT ![g] = list] /\ shadow' = saved'
  BY <1>1, <1>9 DEF SavedDevices
<1>11. saved'[g] = list /\ \A h \in Groups \ {g} : saved'[h] = saved[h]
  BY <1>7, <1>10 DEF TypeOK
<1>12. ListInv'
  BY <1>8 DEF ListInv
<1>13. HeldInv'
  BY <1>1, <1>7, <1>8, <1>11 DEF HeldInv
<1>14. ScanInv' /\ AgreeInv'
  BY <1>7, <1>10, ReadyFacts DEF UpdateGroup, ScanInv, AgreeInv, PatientInv
<1>15. SettledInv'
  BY <1>6, <1>7, <1>8, <1>11, ReadyFacts DEF UpdateGroup, SettledInv, PatientInv
<1> QED BY <1>12, <1>13, <1>14, <1>15 DEF PatientInv

LEMMA DeleteGroupPatientInv ==
    ASSUME Patient, TypeInv, PatientInv, NEW g \in Groups, DeleteGroup(g)
    PROVE  PatientInv'
<1>1. /\ saved' = [saved EXCEPT ![g] = NoRow] /\ shadow' = [shadow EXCEPT ![g] = NoRow]
      /\ UNCHANGED coreVars /\ interrupted' = interrupted \ {g}
      /\ TypeOK /\ Idle /\ AppIsReady
  BY DEF DeleteGroup, TypeInv
<1>2. UNCHANGED <<respList, tobe, scan, undefined>>
  BY <1>1 DEF coreVars
<1>3. \A i \in 1..Len(respList) : respList[i].op = "ttl"
  BY <1>1, ReadyFacts
<1>4. ListInv' /\ HeldInv'
  BY <1>2, <1>3 DEF PatientInv, ListInv, HeldInv
<1>5. ScanInv' /\ AgreeInv'
  BY <1>1, <1>2 DEF PatientInv, ScanInv, AgreeInv
<1>6. saved'[g] = NoRow /\ \A h \in Groups \ {g} : saved'[h] = saved[h]
  BY <1>1 DEF TypeOK
<1>7. SettledInv'
  BY <1>1, <1>2, <1>6 DEF PatientInv, SettledInv
<1> QED BY <1>4, <1>5, <1>7 DEF PatientInv

LEMMA SetGroupTtlPatientInv ==
    ASSUME Patient, TypeInv, PatientInv, NEW g \in Groups, SetGroupTtl(g)
    PROVE  PatientInv'
<1> DEFINE addrs == {Addr(Device(e)) : e \in Listed(saved[g], States \ {Out})}
<1>1. addrs \subseteq Elements
  BY DEF Listed
<1>2. \E s \in SetToSeqs(addrs) : respList' = Register("ttl", g, s)
  BY DEF SetGroupTtl
<1> HIDE DEF addrs
<1>3. PICK s \in SetToSeqs(addrs) : respList' = Register("ttl", g, s)
  BY <1>2
<1>4. s \in Seq(Elements) /\ "ttl" \in Ops
  BY <1>1, ListingsType DEF Ops
<1>5. TypeOK /\ Idle /\ AppIsReady
  BY DEF TypeInv, SetGroupTtl
<1>6. UNCHANGED <<saved, tobe, scan, undefined, shadow, interrupted>>
  BY DEF SetGroupTtl
<1>7. CASE Alike(respList, respList')
  BY <1>5, <1>6, <1>7, AlikePatientInv
<1>8. CASE ~Alike(respList, respList')
  <2>1. /\ ~requestIsInRespList("ttl", g)
        /\ \E item \in Item : /\ item.op = "ttl" /\ item.group = g
                              /\ respList' = Append(respList, item)
    BY <1>3, <1>4, <1>5, <1>8, RegisterType DEF TypeOK
  <2>2. PICK item \in Item : item.op = "ttl" /\ respList' = Append(respList, item)
    BY <2>1
  <2>3. ~\E i \in 1..Len(respList) : respList[i].op = "ttl"
    BY <1>5, <2>1, WaitingFacts
  <2>4. Len(respList) = 0
    BY <1>5, <2>3, ReadyFacts
  <2>5. Len(respList') = 1 /\ respList'[1] = item
    BY <1>5, <2>2, <2>4, AppendProperties DEF TypeOK
  <2>6. ListInv' /\ HeldInv'
    BY <2>2, <2>5 DEF ListInv, HeldInv
  <2>7. ScanInv' /\ AgreeInv'
    BY <1>5, <1>6, ReadyFacts DEF PatientInv, ScanInv, AgreeInv
  <2>8. \A h : ~WaitingIn(respList', h) /\ ~WaitingIn(respList, h)
    BY <2>2, <2>4, <2>5 DEF WaitingIn
  <2>9. SettledInv'
    BY <1>6, <2>8 DEF PatientInv, SettledInv
  <2> QED BY <2>6, <2>7, <2>9 DEF PatientInv
<1> QED BY <1>7, <1>8

(* Where a pass over the list can be. *)
LEMMA ScanCases ==
    ASSUME TypeOK, PatientInv, Scanning
    PROVE  /\ Len(respList) \in {0, 1, 2} /\ undefined = FALSE
           /\ \/ scan.i = 1 /\ scan.n = 1 /\ Len(respList) = 1
              \/ scan.i = 1 /\ scan.n = 2 /\ Len(respList) = 2 /\ respList[1].op = "ttl"
              \/ /\ scan.i = 2 /\ scan.n = 2 /\ scan.reqId = "ttl"
                 /\ Len(respList) \in {1, 2}
<1>1. Len(respList) \in {0, 1, 2} /\ undefined = FALSE /\ scan.n > 0
  BY ListLength DEF PatientInv, AgreeInv, Scanning
<1>2. Len(respList) = 2 => respList[1].op = "ttl"
  <2>1. Len(respList) = 2 => 1 \in 1..Len(respList)
    OBVIOUS
  <2> QED BY <2>1 DEF PatientInv, ListInv
<1>3. \/ scan.i = 1 /\ scan.n = Len(respList)
      \/ scan.i = 2 /\ scan.n = 2 /\ scan.reqId = "ttl" /\ Len(respList) \in {1, 2}
  BY <1>1 DEF PatientInv, ScanInv
<1>4. CASE scan.i = 2 /\ scan.n = 2 /\ scan.reqId = "ttl" /\ Len(respList) \in {1, 2}
  BY <1>1, <1>4
<1>5. CASE scan.i = 1 /\ scan.n = Len(respList)
  <2>1. CASE Len(respList) = 0
    BY <1>1, <1>5, <2>1
  <2>2. CASE Len(respList) = 1
    <3>1. scan.i = 1 /\ scan.n = 1 /\ Len(respList) = 1
      BY <1>5, <2>2
    <3> QED BY <1>1, <3>1
  <2>3. CASE Len(respList) = 2
    <3>1. scan.i = 1 /\ scan.n = 2 /\ Len(respList) = 2 /\ respList[1].op = "ttl"
      BY <1>2, <1>5, <2>3
    <3> QED BY <1>1, <3>1
  <2> QED BY <1>1, <2>1, <2>2, <2>3
<1> QED BY <1>3, <1>4, <1>5

LEMMA PassItemPatientInv ==
    ASSUME TypeInv, PatientInv, PassItem
    PROVE  PatientInv'
<1>1. UNCHANGED <<saved, respList, tobe, undefined, shadow, interrupted>>
  BY DEF PassItem, histVars
<1>2. NextIndex(respList[scan.i].op) /\ scan.i <= Len(respList) /\ Scanning /\ TypeOK
  BY DEF PassItem, TypeInv
<1>3. ScanInv'
  BY <1>1, <1>2, ScanCases, ConstantTypes DEF NextIndex, ScanInv
<1>4. ListInv' /\ HeldInv' /\ AgreeInv' /\ SettledInv'
  BY <1>1 DEF PatientInv, ListInv, HeldInv, AgreeInv, SettledInv
<1> QED BY <1>3, <1>4 DEF PatientInv

LEMMA FinishNoItemPatientInv ==
    ASSUME TypeInv, PatientInv, FinishNoItem
    PROVE  PatientInv'
<1>1. TypeOK /\ Scanning /\ scan.i > Len(respList) /\ UNCHANGED respList
  BY DEF FinishNoItem, TypeInv
<1>2. scan.i = 2 /\ scan.n = 2 /\ scan.reqId = "ttl"
  BY <1>1, ScanCases
<1>3. UNCHANGED <<shadow, saved, tobe, interrupted, undefined>> /\ scan' = NoScan
  BY <1>2 DEF FinishNoItem, NextIndex
<1>4. ScanInv'
  BY <1>3, ConstantTypes DEF ScanInv
<1>5. ListInv' /\ HeldInv' /\ AgreeInv' /\ SettledInv'
  BY <1>1, <1>3 DEF PatientInv, ListInv, HeldInv, AgreeInv, SettledInv
<1> QED BY <1>4, <1>5 DEF PatientInv

(* The item of a TTL goes, and one of a group moves up. *)
LEMMA FinishTtlPatientInv ==
    ASSUME TypeInv, PatientInv, FinishItem, respList[scan.i].op = "ttl"
    PROVE  PatientInv'
<1>0. TypeOK /\ Scanning /\ scan.i <= Len(respList) /\ Len(respList) \in {0, 1, 2}
  BY ScanCases DEF FinishItem, TypeInv
<1>1. scan.i \in 1..Len(respList) /\ scan.i = 1
  BY <1>0 DEF TypeInv, TypeOK, PatientInv, ListInv
<1>2. UNCHANGED <<shadow, saved, tobe, interrupted, undefined>> /\ NextIndex("ttl")
      /\ RemoveIndex(1)
  BY <1>1 DEF FinishItem
<1>3. Len(respList') = Len(respList) - 1 /\ \A j \in 1..Len(respList') : respList'[j] = respList[j + 1]
  BY <1>0, <1>1, <1>2, RemoveIndexType DEF TypeOK
<1>4. /\ scan.n = Len(respList)
      /\ Len(respList) = 1 \/ (Len(respList) = 2 /\ respList'[1] = respList[2] /\ 2 \in 1..Len(respList))
  <2>1. \/ scan.n = 1 /\ Len(respList) = 1
        \/ scan.n = 2 /\ Len(respList) = 2
    BY <1>0, <1>1, ScanCases
  <2>2. CASE scan.n = 1 /\ Len(respList) = 1
    BY <2>2
  <2>3. CASE scan.n = 2 /\ Len(respList) = 2
    <3>1. Len(respList') = 1
      BY <1>3, <2>3
    <3>0. 1 \in 1..Len(respList')
      BY <3>1
    <3>2. respList'[1] = respList[1 + 1]
      BY <1>3, <3>0
    <3>3. respList'[1] = respList[2] /\ 2 \in 1..Len(respList)
      BY <2>3, <3>2
    <3> QED BY <2>3, <3>3
  <2> QED BY <2>1, <2>2, <2>3
<1>5. Len(respList) = 2 => respList[2].op # "ttl"
  BY <1>4 DEF PatientInv, ListInv
<1>6. ScanInv'
  BY <1>1, <1>2, <1>3, <1>4, ConstantTypes DEF NextIndex, ScanInv
<1>7. ListInv'
  BY <1>3, <1>4, <1>5 DEF ListInv
<1>8. HeldInv'
  BY <1>2, <1>3, <1>4 DEF PatientInv, HeldInv
<1>9. AgreeInv'
  BY <1>2 DEF PatientInv, AgreeInv
<1>10. \A g \in Groups : WaitingIn(respList, g) => WaitingIn(respList', g)
  BY <1>1, <1>3, <1>4 DEF WaitingIn
<1>11. SettledInv'
  BY <1>2, <1>10 DEF PatientInv, SettledInv
<1> QED BY <1>6, <1>7, <1>8, <1>9, <1>11 DEF PatientInv

(* The item of a group goes, and its group is settled. *)
LEMMA FinishGroupPatientInv ==
    ASSUME TypeInv, PatientInv, FinishItem, respList[scan.i].op # "ttl"
    PROVE  PatientInv'
<1> DEFINE entries == respList[scan.i].entries
           list == UpdatedDevices(entries, tobe.devices)
<1>0. /\ TypeOK /\ Scanning /\ scan.i <= Len(respList) /\ Len(respList) \in {0, 1, 2}
      /\ shadow = saved /\ undefined = FALSE
  BY ScanCases DEF FinishItem, TypeInv, PatientInv, AgreeInv
<1>1. scan.i \in 1..Len(respList) /\ scan.i = Len(respList)
  BY <1>0 DEF TypeInv, TypeOK, PatientInv, ListInv
<1>2. tobe.memory = "live" /\ tobe.group = respList[scan.i].group /\ saved[tobe.group] # NoRow
  BY <1>1 DEF PatientInv, HeldInv
<1>3. tobe.group \in Groups /\ tobe.devices \in Lists
  BY <1>0 DEF TypeOK, ToBe
<1>4. list \in Lists /\ \A e \in Elements : list[e] \notin {Adding, Removing}
  BY <1>3, UpdatedDevicesType
<1>5. NextIndex(respList[scan.i].op) /\ RemoveIndex(scan.i) /\ FinishGroup(entries)
  BY DEF FinishItem
<1> HIDE DEF list
<1>6. /\ shadow' = [shadow EXCEPT ![tobe.group] = list]
      /\ saved' = [saved EXCEPT ![tobe.group] = list]
      /\ interrupted' = interrupted \ {tobe.group}
      /\ undefined' = undefined
  BY <1>2, <1>5 DEF FinishGroup, SavedDevices, list
<1>7. scan' = NoScan
  BY <1>0, <1>1, <1>5, ScanCases DEF NextIndex
<1>8. Len(respList') = Len(respList) - 1 /\ \A j \in 1..Len(respList') : respList'[j] = respList[j]
  <2>1. Len(respList') = Len(respList) - 1
        /\ \A j \in 1..Len(respList') :
              respList'[j] = IF j < scan.i THEN respList[j] ELSE respList[j + 1]
    BY <1>0, <1>1, <1>5, RemoveIndexType DEF TypeOK
  <2> QED BY <1>0, <1>1, <2>1
<1>9. \A j \in 1..Len(respList') : respList'[j].op = "ttl" /\ j = 1
  BY <1>0, <1>8 DEF PatientInv, ListInv
<1>10. ListInv' /\ HeldInv' /\ ScanInv'
  BY <1>7, <1>9, ConstantTypes DEF ListInv, HeldInv, ScanInv
<1>11. AgreeInv'
  BY <1>0, <1>6 DEF AgreeInv
<1>12. \A h \in Groups \ {tobe.group} : ~WaitingIn(respList, h)
  BY <1>1, <1>2 DEF WaitingIn, PatientInv, HeldInv
<1>13. saved'[tobe.group] = list /\ \A h \in Groups \ {tobe.group} : saved'[h] = saved[h]
  BY <1>0, <1>3, <1>6 DEF TypeOK
<1>14. Listed(list, {Adding, Removing}) = {}
  BY <1>4 DEF Listed
<1>15. SettledInv'
  BY <1>6, <1>12, <1>13, <1>14 DEF PatientInv, SettledInv
<1> QED BY <1>10, <1>11, <1>15 DEF PatientInv

LEMMA RestartPatientInv ==
    ASSUME TypeInv, PatientInv, Restart
    PROVE  PatientInv'
<1>1. /\ respList' = <<>> /\ scan' = NoScan /\ undefined' = FALSE /\ UNCHANGED <<saved, shadow>>
      /\ interrupted' = interrupted \cup
             {respList[i].group : i \in {j \in DOMAIN respList : respList[j].op # "ttl"}}
  BY DEF Restart
<1>2. ListInv' /\ HeldInv'
  BY <1>1 DEF ListInv, HeldInv
<1>3. ScanInv' /\ AgreeInv'
  BY <1>1, ConstantTypes DEF PatientInv, ScanInv, AgreeInv
<1>4. \A g \in Groups : WaitingIn(respList, g) => g \in interrupted'
  BY <1>1, ListFacts DEF WaitingIn, TypeInv
<1>5. SettledInv'
  BY <1>1, <1>4 DEF PatientInv, SettledInv
<1> QED BY <1>2, <1>3, <1>5 DEF PatientInv

LEMMA NextPatientInv ==
    ASSUME Patient, TypeInv, PatientInv, [Next]_vars
    PROVE  PatientInv'
<1>0. TypeOK /\ Alike(respList, respList)
  BY DEF TypeInv, Alike
<1>1. CASE Request
  BY <1>1, AddGroupPatientInv, UpdateGroupPatientInv, DeleteGroupPatientInv,
     SetGroupTtlPatientInv DEF Request
<1>2. CASE Environment \/ UNCHANGED vars
  <2>1. UNCHANGED <<saved, respList, tobe, scan, undefined, shadow, interrupted>>
    BY <1>2 DEF Environment, Execute, Refuse, TimeOut, LoseAnswer, coreVars, histVars, vars
  <2> QED BY <1>0, <2>1, AlikePatientInv
<1>3. ASSUME NEW x \in answers, HandleAnswer(x) PROVE PatientInv'
  <2>1. x.status \in Statuses /\ "ok" \in Statuses
    BY <1>0 DEF TypeOK, AnswerMsg, Statuses
  <2>2. Alike(respList, respList')
    BY <1>0, <1>3, <2>1, UpdateStatusType DEF HandleAnswer, TypeOK
  <2>3. UNCHANGED <<saved, tobe, scan, undefined, shadow, interrupted>>
    BY <1>3 DEF HandleAnswer, histVars
  <2> QED BY <1>0, <2>2, <2>3, AlikePatientInv
<1>4. CASE Expire
  <2>1. UNCHANGED <<saved, tobe, scan, undefined, shadow, interrupted>>
    BY <1>4 DEF Expire, histVars
  <2> QED BY <1>0, <1>4, <2>1, ExpireType, AlikePatientInv
<1>5. CASE StartScan
  <2>1. /\ UNCHANGED <<saved, respList, tobe, undefined, shadow, interrupted>>
        /\ scan' = [NoScan EXCEPT !.n = Len(respList)]
    BY <1>5 DEF StartScan, histVars
  <2>2. ScanInv'
    BY <2>1 DEF ScanInv, NoScan
  <2>3. ListInv' /\ HeldInv' /\ AgreeInv' /\ SettledInv'
    BY <2>1 DEF PatientInv, ListInv, HeldInv, AgreeInv, SettledInv
  <2> QED BY <2>2, <2>3 DEF PatientInv
<1> QED BY <1>1, <1>2, <1>3, <1>4, <1>5, PassItemPatientInv, FinishNoItemPatientInv,
           FinishTtlPatientInv, FinishGroupPatientInv, RestartPatientInv DEF Next, ResponseWaiting

LEMMA PatientInvariant == Patient => (Spec => [](TypeInv /\ PatientInv))
<1> SUFFICES ASSUME Patient PROVE Spec => [](TypeInv /\ PatientInv)
  OBVIOUS
<1>1. TypeInv /\ PatientInv /\ [Next]_vars => PatientInv'
  BY NextPatientInv
<1> QED BY <1>1, InitPatientInv, TypeInvariant, PTL DEF Spec

(* With an app that waits for the end of a request, ResponseWaiting never uses
   g_groupTobeUpdated after it freed it.                                     *)
THEOREM NoFreedMemory == Patient => (Spec => []NoUseOfFreed)
<1> SUFFICES ASSUME Patient PROVE Spec => []NoUseOfFreed
  OBVIOUS
<1>1. PatientInv => NoUseOfFreed
  BY DEF PatientInv, AgreeInv, NoUseOfFreed
<1> QED BY <1>1, PatientInvariant, PTL

(* With such an app the database and the cloud always agree. *)
THEOREM CloudAgrees == Patient => (Spec => []PublishedIsSaved)
<1> SUFFICES ASSUME Patient PROVE Spec => []PublishedIsSaved
  OBVIOUS
<1>1. PatientInv => PublishedIsSaved
  BY DEF PatientInv, AgreeInv, PublishedIsSaved
<1> QED BY <1>1, PatientInvariant, PTL

(* With such an app every member of a group has a verdict once its request is
   over, unless CORE was restarted in between.                               *)
THEOREM MembersSettled == Patient => (Spec => []SettledGroups)
<1> SUFFICES ASSUME Patient PROVE Spec => []SettledGroups
  OBVIOUS
<1>1. TypeInv /\ PatientInv => SettledGroups
  BY WaitingFacts DEF PatientInv, SettledInv, SettledGroups, TypeInv
<1> QED BY <1>1, PatientInvariant, PTL

(* With such an app the end of a request publishes the group that was requested
   ("Save state of devices to AWS" in ResponseWaiting): it takes the group from
   g_groupTobeUpdated, which holds that of the item only thanks to the app.      *)
THEOREM RightGroupIsPushed == Patient => (Spec => PushesItsGroup)
<1> SUFFICES ASSUME Patient PROVE Spec => PushesItsGroup
  OBVIOUS
<1>1. ASSUME TypeInv, PatientInv, FinishItem, NEW g \in Groups, shadow'[g] # shadow[g]
      PROVE  respList[scan.i].group = g
  <2>1. scan.i \in 1..Len(respList) /\ respList[scan.i].op # "ttl"
    BY <1>1, ListFacts DEF FinishItem, TypeInv, TypeOK
  <2>2. tobe.memory = "live" /\ tobe.group = respList[scan.i].group
    BY <1>1, <2>1 DEF PatientInv, HeldInv
  <2>3. \E list : shadow' = [shadow EXCEPT ![tobe.group] = list]
    BY <1>1, <2>1, <2>2 DEF FinishItem, FinishGroup
  <2>4. \A h \in Groups \ {tobe.group} : shadow'[h] = shadow[h]
    BY <1>1, <2>3 DEF TypeInv, TypeOK
  <2> QED BY <1>1, <2>2, <2>4
<1>2. TypeInv /\ PatientInv /\ [Next]_vars
        => [\A g \in Groups : FinishItem /\ shadow'[g] # shadow[g]
               => respList[scan.i].group = g]_vars
  BY <1>1
<1> QED BY <1>2, PatientInvariant, PTL DEF Spec, PushesItsGroup

-------------------------------------------------------------------------------
(* A patient app and groups of lights: the members that CORE lists are members.

   Everything under way for a quiet group belongs to its last request: an order
   does what the list says of its element, there is one order for an element, and
   once its answer is there, under way or in the list of answers, it is done.     *)

Quiet == {g \in Groups \ LinkGroups : g \notin muddled}

Orders(g) == {c \in commands : c.op # "ttl" /\ c.group = g}

OkAnswers(g) ==
    {e \in Elements : \E m \in answers : /\ m.kind = "group" /\ m.group = g
                                         /\ m.status = "ok" /\ m.addr = e}

Heard(list, g) ==
    {e \in Elements : \E i \in 1..Len(list) :
        /\ list[i].op # "ttl" /\ list[i].group = g
        /\ \E k \in DOMAIN list[i].entries :
              list[i].entries[k].elem = e /\ list[i].entries[k].status = "ok"}

Asked(list, g) ==
    {e \in Elements : \E i \in 1..Len(list) :
        /\ list[i].op # "ttl" /\ list[i].group = g
        /\ \E k \in DOMAIN list[i].entries : list[i].entries[k].elem = e}

(* The element has done what the list wants of it, and nothing more is coming. *)
Done(g, e) ==
    /\ \A c \in Orders(g) : c.elem # e
    /\ saved[g] # NoRow => /\ saved[g][e] = Adding => e \in mesh[g]
                           /\ saved[g][e] = Removing => e \notin mesh[g]

OrdersInv(g) ==
    /\ \A c, d \in Orders(g) : c.elem = d.elem => c = d
    /\ \A c \in Orders(g) : saved[g] # NoRow =>
          /\ saved[g][c.elem] \in {IF c.op = "add" THEN Adding ELSE Removing, Failed}
          /\ WaitingIn(respList, g) => saved[g][c.elem] # Failed
RowInv(g) ==
    saved[g] # NoRow =>
        \A e \in Elements : /\ saved[g][e] # Out => e \in Members(g)
                            /\ saved[g][e] = InGroup => e \in mesh[g]
AnswersInv(g) == \A e \in OkAnswers(g) : Done(g, e)
EntriesInv(g) == Asked(respList, g) \subseteq Members(g) /\ \A e \in Heard(respList, g) : Done(g, e)
QuietFor(g) == OrdersInv(g) /\ RowInv(g) /\ AnswersInv(g) /\ EntriesInv(g)

(* g_groupTobeUpdated is the list that was saved when the request came. *)
HeldListInv ==
    \A i \in 1..Len(respList) : respList[i].op # "ttl" => tobe.devices = saved[tobe.group]

QuietInv == HeldListInv /\ \A g \in Quiet : QuietFor(g)

LEMMA InitQuietInv == Init => QuietInv
<1> SUFFICES ASSUME Init PROVE QuietInv
  OBVIOUS
<1>1. respList = <<>> /\ commands = {} /\ answers = {}
  BY DEF Init
<1>2. HeldListInv
  BY <1>1 DEF HeldListInv
<1>3. ASSUME NEW g \in Quiet PROVE QuietFor(g)
  <2>1. Orders(g) = {} /\ OkAnswers(g) = {} /\ Heard(respList, g) = {} /\ Asked(respList, g) = {}
    BY <1>1 DEF Orders, OkAnswers, Heard, Asked
  <2>2. RowInv(g)
    <3> SUFFICES ASSUME saved[g] # NoRow, NEW e \in Elements, saved[g][e] # Out
                 PROVE  e \in Members(g) /\ e \in mesh[g]
      BY DEF RowInv, InGroup, Out
    <3>1. g \in Groups /\ saved[g] \in [Elements -> {InGroup, Out}]
      BY DEF Quiet, Init
    <3>2. e \in Listed(saved[g], {InGroup})
      BY <3>1 DEF Listed
    <3>3. Listed(saved[g], {InGroup}) \in SUBSET Members(g)
      BY <3>1 DEF Init
    <3>4. mesh[g] = Listed(saved[g], {InGroup})
      BY <3>1 DEF Init
    <3> QED BY <3>2, <3>3, <3>4
  <2> QED BY <2>1, <2>2 DEF QuietFor, OrdersInv, AnswersInv, EntriesInv
<1> QED BY <1>2, <1>3 DEF QuietInv

(* What a step does not concern, or only makes fewer. *)
LEMMA Undisturbed ==
    ASSUME NEW g \in Groups, QuietFor(g), saved'[g] = saved[g], mesh'[g] = mesh[g],
           Orders(g)' \subseteq Orders(g), OkAnswers(g)' \subseteq OkAnswers(g),
           Heard(respList', g) \subseteq Heard(respList, g) \cup OkAnswers(g),
           Asked(respList', g) \subseteq Asked(respList, g),
           WaitingIn(respList', g) => WaitingIn(respList, g)
    PROVE  QuietFor(g)'
<1>1. \A e : Done(g, e) => Done(g, e)'
  BY DEF Done
<1>2. OrdersInv(g)'
  BY DEF QuietFor, OrdersInv
<1>3. RowInv(g)'
  BY DEF QuietFor, RowInv, Members
<1>4. AnswersInv(g)'
  BY <1>1 DEF QuietFor, AnswersInv
<1>5. EntriesInv(g)'
  BY <1>1 DEF QuietFor, EntriesInv, AnswersInv, Members
<1> QED BY <1>2, <1>3, <1>4, <1>5 DEF QuietFor

(* The entries of a list that only differs in other things. *)
LEMMA SameEntries ==
    ASSUME NEW list, NEW other, Len(list) = Len(other),
           \A i \in 1..Len(list) : /\ list[i].op = other[i].op /\ list[i].group = other[i].group
                                   /\ list[i].entries = other[i].entries,
           NEW g
    PROVE  /\ Heard(list, g) = Heard(other, g) /\ Asked(list, g) = Asked(other, g)
           /\ WaitingIn(list, g) <=> WaitingIn(other, g)
BY DEF Heard, Asked, WaitingIn

-------------------------------------------------------------------------------
(* The BLE service and the mesh. *)

LEMMA ObeyedQuietFor ==
    ASSUME TypeOK, NEW g \in Groups, QuietFor(g), NEW c \in Orders(g),
           mesh' = Obeyed(c), commands' = commands \ {c}, UNCHANGED <<saved, respList>>,
           OkAnswers(g)' \subseteq OkAnswers(g) \cup {c.elem}
    PROVE  QuietFor(g)'
<1>1. /\ c \in Command /\ c.op \in {"add", "remove"} /\ c.group = g /\ c.elem \in Elements
      /\ mesh[g] \subseteq Elements
  BY DEF TypeOK, Orders, Command
<1>2. mesh'[g] = IF c.op = "add" THEN mesh[g] \cup {c.elem} ELSE mesh[g] \ {c.elem}
  BY <1>1 DEF Obeyed, TypeOK
<1>3. Orders(g)' = Orders(g) \ {c}
  BY DEF Orders
<1>4. \A e : Done(g, e) => Done(g, e)'
  BY <1>2, <1>3 DEF Done
<1>5. Done(g, c.elem)'
  <2>1. \A d \in Orders(g)' : d.elem # c.elem
    BY <1>3 DEF QuietFor, OrdersInv
  <2>2. saved[g] # NoRow =>
          saved[g][c.elem] \in {IF c.op = "add" THEN Adding ELSE Removing, Failed}
    BY DEF QuietFor, OrdersInv
  <2> QED BY <1>1, <1>2, <2>1, <2>2 DEF Done, Adding, Removing, Failed
<1>6. OrdersInv(g)'
  BY <1>3 DEF QuietFor, OrdersInv
<1>7. RowInv(g)'
  <2>1. saved[g] # NoRow => saved[g][c.elem] # InGroup
    BY <1>1 DEF QuietFor, OrdersInv, Adding, Removing, Failed, InGroup
  <2> QED BY <1>2, <2>1 DEF QuietFor, RowInv, Members
<1>8. AnswersInv(g)'
  BY <1>4, <1>5 DEF QuietFor, AnswersInv
<1>9. EntriesInv(g)'
  BY <1>4 DEF QuietFor, EntriesInv, Members
<1> QED BY <1>6, <1>7, <1>8, <1>9 DEF QuietFor

(* The answer to a command, and what it means to a group. *)
LEMMA AnswerCounts ==
    ASSUME NEW c \in Command, NEW a, NEW status \in {"ok", "failed"}, NEW g \in Groups,
           AnswerTo(c, a, status).kind = "group", AnswerTo(c, a, status).group = g,
           AnswerTo(c, a, status).status = "ok"
    PROVE  c.op # "ttl" /\ c.group = g /\ status = "ok" /\ AnswerTo(c, a, status).addr = a
BY DEF AnswerTo, Command

LEMMA EnvironmentQuietInv ==
    ASSUME TypeOK, QuietInv, Environment
    PROVE  QuietInv'
<1>1. /\ UNCHANGED <<saved, coreVars, shadow>> /\ muddled' = muddled
  BY DEF Environment, Execute, Refuse, TimeOut, LoseAnswer, histVars
<1>2. UNCHANGED <<saved, respList, tobe>>
  BY <1>1 DEF coreVars
<1>3. HeldListInv'
  BY <1>2 DEF QuietInv, HeldListInv
<1>4. ASSUME NEW g \in Quiet PROVE QuietFor(g)'
  <2>0. g \in Groups /\ QuietFor(g)
    BY <1>4 DEF Quiet, QuietInv
  <2>1. ASSUME mesh'[g] = mesh[g], commands' \subseteq commands, OkAnswers(g)' \subseteq OkAnswers(g)
        PROVE  QuietFor(g)'
    <3>1. Orders(g)' \subseteq Orders(g)
      BY <2>1 DEF Orders
    <3> QED BY <1>2, <2>0, <2>1, <3>1, Undisturbed
  <2>2. ASSUME NEW c \in commands, mesh' = Obeyed(c), commands' = commands \ {c},
               answers' \subseteq answers \cup {AnswerTo(c, c.elem, "ok"),
                                           AnswerTo(c, Addr(Device(c.elem)), "failed")}
        PROVE  QuietFor(g)'
    <3>1. c \in Command
      BY DEF TypeOK
    <3>2. OkAnswers(g)' \subseteq OkAnswers(g) \cup (IF c \in Orders(g) THEN {c.elem} ELSE {})
      <4> SUFFICES ASSUME NEW e \in OkAnswers(g)', e \notin OkAnswers(g)
                   PROVE  c \in Orders(g) /\ e = c.elem
        OBVIOUS
      <4>1. PICK m \in answers' : m.kind = "group" /\ m.group = g /\ m.status = "ok" /\ m.addr = e
        BY DEF OkAnswers
      <4>2. m \notin answers
        BY <4>1 DEF OkAnswers
      <4>3. CASE m = AnswerTo(c, c.elem, "ok")
        BY <2>0, <3>1, <4>1, <4>3, AnswerCounts DEF Orders
      <4>4. CASE m = AnswerTo(c, Addr(Device(c.elem)), "failed")
        BY <2>0, <3>1, <4>1, <4>4, AnswerCounts
      <4> QED BY <2>2, <4>2, <4>3, <4>4
    <3>3. CASE c \in Orders(g)
      BY <1>2, <2>0, <2>2, <3>2, <3>3, ObeyedQuietFor
    <3>4. CASE c \notin Orders(g)
      <4>1. mesh'[g] = mesh[g]
        BY <2>0, <2>2, <3>1, <3>4 DEF Obeyed, Orders, TypeOK, Command
      <4> QED BY <2>1, <2>2, <3>2, <3>4, <4>1
    <3> QED BY <3>3, <3>4
  <2>3. ASSUME NEW c \in commands, mesh' = mesh, commands' = commands \ {c},
               \E a : answers' \subseteq answers \cup {AnswerTo(c, a, "failed")}
        PROVE  QuietFor(g)'
    <3>1. c \in Command
      BY DEF TypeOK
    <3>2. PICK a : answers' \subseteq answers \cup {AnswerTo(c, a, "failed")}
      BY <2>3
    <3>3. OkAnswers(g)' \subseteq OkAnswers(g)
      <4>1. ~(AnswerTo(c, a, "failed").kind = "group" /\ AnswerTo(c, a, "failed").group = g
                 /\ AnswerTo(c, a, "failed").status = "ok")
        BY <2>0, <3>1, AnswerCounts
      <4> QED BY <3>2, <4>1 DEF OkAnswers
    <3> QED BY <2>1, <2>3, <3>3
  <2>4. ASSUME NEW c \in commands, Execute(c) PROVE QuietFor(g)'
    BY <2>2, <2>4 DEF Execute
  <2>5. ASSUME NEW c \in commands, Refuse(c) PROVE QuietFor(g)'
    BY <2>3, <2>5 DEF Refuse
  <2>6. ASSUME NEW c \in commands, TimeOut(c) PROVE QuietFor(g)'
    <3>1. commands' = commands \ {c}
      BY <2>6 DEF TimeOut
    <3>2. \/ mesh' = mesh /\ answers' \subseteq answers \cup {AnswerTo(c, Addr(Device(c.elem)), "failed")}
          \/ /\ mesh' = Obeyed(c)
             /\ answers' \subseteq answers \cup {AnswerTo(c, c.elem, "ok"),
                                            AnswerTo(c, Addr(Device(c.elem)), "failed")}
      BY <2>6 DEF TimeOut
    <3> QED BY <2>2, <2>3, <3>1, <3>2
  <2>7. ASSUME NEW m \in answers, LoseAnswer(m) PROVE QuietFor(g)'
    <3>1. OkAnswers(g)' \subseteq OkAnswers(g)
      BY <2>7 DEF LoseAnswer, OkAnswers
    <3> QED BY <2>1, <2>7, <3>1 DEF LoseAnswer
  <2> QED BY <2>4, <2>5, <2>6, <2>7 DEF Environment
<1>5. Quiet' = Quiet
  BY <1>1 DEF Quiet
<1> QED BY <1>3, <1>4, <1>5 DEF QuietInv

-------------------------------------------------------------------------------
(* The list of answers. *)

LEMMA NobodyAsked ==
    ASSUME NEW list, \A i \in 1..Len(list) : list[i].op = "ttl", NEW g
    PROVE  Heard(list, g) = {} /\ Asked(list, g) = {} /\ ~WaitingIn(list, g)
BY DEF Heard, Asked, WaitingIn

LEMMA FewerItems ==
    ASSUME NEW list, NEW other,
           \A j \in 1..Len(list) : \E i \in 1..Len(other) : list[j] = other[i],
           NEW g
    PROVE  /\ Heard(list, g) \subseteq Heard(other, g) /\ Asked(list, g) \subseteq Asked(other, g)
           /\ WaitingIn(list, g) => WaitingIn(other, g)
<1>1. Heard(list, g) \subseteq Heard(other, g)
  BY DEF Heard
<1>2. Asked(list, g) \subseteq Asked(other, g)
  BY DEF Asked
<1>3. WaitingIn(list, g) => WaitingIn(other, g)
  BY DEF WaitingIn
<1> QED BY <1>1, <1>2, <1>3

LEMMA UpdateStatusHeard ==
    ASSUME TypeOK, NEW op \in Ops, NEW g, NEW a, NEW status \in Statuses,
           updateDeviceRespStatus(op, g, a, status), NEW h \in Groups
    PROVE  /\ Asked(respList', h) \subseteq Asked(respList, h)
           /\ Heard(respList', h) \subseteq Heard(respList, h) \cup
                (IF op # "ttl" /\ h = g /\ status = "ok" THEN {a} ELSE {})
<1>1. Len(respList') = Len(respList)
  BY UpdateStatusType DEF TypeOK, Alike
<1>2. ASSUME NEW i \in 1..Len(respList), respList'[i].op # "ttl", respList'[i].group = h,
             NEW k \in DOMAIN respList'[i].entries
      PROVE  /\ respList[i].op # "ttl" /\ respList[i].group = h
             /\ k \in DOMAIN respList[i].entries
             /\ respList'[i].entries[k].elem = respList[i].entries[k].elem
             /\ respList'[i].entries[k].status = "ok" =>
                   \/ respList[i].entries[k].status = "ok"
                   \/ /\ op # "ttl" /\ h = g /\ status = "ok"
                      /\ respList[i].entries[k].elem = a
  <2>1. respList[i] \in Item /\ i \in DOMAIN respList
    BY ListFacts
  <2>2. CASE ~IsItem(i, op, g)
    <3>1. respList'[i] = respList[i]
      BY <2>1, <2>2 DEF updateDeviceRespStatus
    <3> QED BY <1>2, <3>1
  <2>3. CASE IsItem(i, op, g)
    <3>1. respList'[i] = [respList[i] EXCEPT !.entries = WithStatus(@, a, status)]
      BY <2>1, <2>3 DEF updateDeviceRespStatus
    <3>2. /\ respList'[i].op = respList[i].op /\ respList'[i].group = respList[i].group
          /\ respList'[i].entries = WithStatus(respList[i].entries, a, status)
      BY <2>1, <3>1 DEF Item
    <3>3. op # "ttl" /\ h = g
      BY <1>2, <2>3, <3>2 DEF IsItem
    <3>4. k \in DOMAIN respList[i].entries
      BY <1>2, <3>2 DEF WithStatus
    <3>5. respList'[i].entries[k] =
             IF respList[i].entries[k].elem = a
             THEN [respList[i].entries[k] EXCEPT !.status = status] ELSE respList[i].entries[k]
      BY <3>2, <3>4 DEF WithStatus
    <3>6. respList[i].entries[k] \in Entry
      <4>1. respList[i].entries \in Seq(Entry)
        BY <2>1 DEF Item, Entry
      <4> QED BY <3>4, <4>1
    <3> QED BY <1>2, <3>2, <3>3, <3>4, <3>5, <3>6 DEF Entry
  <2> QED BY <2>2, <2>3
<1>3. Asked(respList', h) \subseteq Asked(respList, h)
  BY <1>1, <1>2 DEF Asked
<1>4. Heard(respList', h) \subseteq Heard(respList, h) \cup
                (IF op # "ttl" /\ h = g /\ status = "ok" THEN {a} ELSE {})
  BY <1>1, <1>2 DEF Heard
<1> QED BY <1>3, <1>4

LEMMA HandleAnswerQuietInv ==
    ASSUME TypeOK, QuietInv, NEW x \in answers, HandleAnswer(x)
    PROVE  QuietInv'
<1>1. /\ UNCHANGED <<saved, tobe, mesh, commands, muddled>> /\ answers' = answers \ {x}
  BY DEF HandleAnswer, histVars
<1>2. x.status \in Statuses /\ "ok" \in Statuses /\ x.group \in Groups /\ x.addr \in Elements
  BY DEF TypeOK, AnswerMsg, Statuses
<1>3. PICK op \in Ops, status \in Statuses :
        /\ updateDeviceRespStatus(op, x.group, x.addr, status)
        /\ op # "ttl" => x.kind = "group" /\ status = x.status
  <2>1. /\ "ttl" \in Ops /\ "add" \in Ops /\ "update" \in Ops
        /\ x.kind \in {"group", "ttl"}
    BY DEF Ops, TypeOK, AnswerMsg
  <2> QED BY <1>2, <2>1 DEF HandleAnswer
<1>4. Alike(respList, respList')
  BY <1>3, UpdateStatusType DEF TypeOK
<1>5. HeldListInv'
  BY <1>1, <1>4 DEF Alike, QuietInv, HeldListInv
<1>6. ASSUME NEW g \in Quiet PROVE QuietFor(g)'
  <2>1. g \in Groups /\ QuietFor(g)
    BY DEF Quiet, QuietInv
  <2>2. Orders(g)' \subseteq Orders(g) /\ OkAnswers(g)' \subseteq OkAnswers(g)
    BY <1>1 DEF Orders, OkAnswers
  <2>3. /\ Asked(respList', g) \subseteq Asked(respList, g)
        /\ Heard(respList', g) \subseteq Heard(respList, g) \cup
             (IF op # "ttl" /\ g = x.group /\ status = "ok" THEN {x.addr} ELSE {})
    BY <1>3, <2>1, UpdateStatusHeard
  <2>4. op # "ttl" /\ g = x.group /\ status = "ok" => x.addr \in OkAnswers(g)
    BY <1>2, <1>3 DEF OkAnswers
  <2>5. WaitingIn(respList', g) => WaitingIn(respList, g)
    BY <1>4 DEF Alike, WaitingIn
  <2> QED BY <1>1, <2>1, <2>2, <2>3, <2>4, <2>5, Undisturbed
<1>7. Quiet' = Quiet
  BY <1>1 DEF Quiet
<1> QED BY <1>5, <1>6, <1>7 DEF QuietInv

-------------------------------------------------------------------------------
(* Requests. *)

LEMMA ListingsIn ==
    ASSUME NEW S, S \subseteq Elements, NEW s \in SetToSeqs(S)
    PROVE  s \in Seq(S)
<1>1. IsFiniteSet(S) /\ Cardinality(S) \in Nat
  BY FS_Subset, FS_CardinalityType
<1>2. s \in [1..Cardinality(S) -> S]
  BY DEF SetToSeqs
<1> QED BY <1>1, <1>2

(* Those a new request asks, and nobody has answered it. *)
LEMMA RegisterAsks ==
    ASSUME respList \in Seq(Item), \A i \in 1..Len(respList) : respList[i].op = "ttl",
           NEW op \in {"add", "update"}, NEW g \in Groups, NEW s \in Seq(Elements),
           respList' = Register(op, g, s), NEW h
    PROVE  /\ Heard(respList', h) = {}
           /\ Asked(respList', h) \subseteq {s[k] : k \in 1..Len(s)}
           /\ h # g => Asked(respList', h) = {} /\ ~WaitingIn(respList', h)
<1> DEFINE item == [op |-> op, group |-> g, entries |-> Entries(s), expired |-> FALSE]
<1>1. ~requestIsInRespList(op, g)
  BY DEF requestIsInRespList, IsItem
<1>2. CASE s = <<>>
  <2>1. respList' = respList
    BY <1>2 DEF Register
  <2> QED BY <2>1, NobodyAsked
<1>3. CASE s # <<>>
  <2>1. respList' = Append(respList, item)
    BY <1>1, <1>3 DEF Register
  <2>2. /\ item.op = op /\ item.group = g /\ item.entries = Entries(s)
        /\ DOMAIN Entries(s) = 1..Len(s)
        /\ \A k \in 1..Len(s) : Entries(s)[k].elem = s[k] /\ Entries(s)[k].status = "waiting"
    BY DEF Entries
  <2> HIDE DEF item
  <2>3. \A i \in 1..Len(respList') : respList'[i].op # "ttl" => respList'[i] = item
    BY <2>1
  <2>4. Heard(respList', h) = {}
    BY <2>2, <2>3 DEF Heard
  <2>5. Asked(respList', h) \subseteq {s[k] : k \in 1..Len(s)}
    BY <2>2, <2>3 DEF Asked
  <2>6. h # g => Asked(respList', h) = {} /\ ~WaitingIn(respList', h)
    BY <2>2, <2>3 DEF Asked, WaitingIn
  <2> QED BY <2>4, <2>5, <2>6
<1> QED BY <1>2, <1>3

(* Nothing is under way for a group whose request leaves it quiet. *)
LEMMA FreshGroup ==
    ASSUME QuietInv, NEW g \in Groups, NoteRequest(g), g \in Quiet'
    PROVE  /\ g \in Quiet /\ QuietFor(g)
           /\ \A c \in commands : c.group # g
           /\ Orders(g) = {} /\ OkAnswers(g) = {}
BY DEF NoteRequest, Quiet, QuietInv, Orders, OkAnswers

(* What the request for a group means to the others. *)
LEMMA OtherGroup ==
    ASSUME QuietInv, NEW g \in Groups, NoteRequest(g), NEW h \in Quiet', h # g,
           UNCHANGED <<mesh, answers>>, saved'[h] = saved[h],
           \A c \in commands' : c \in commands \/ c.group = g,
           Heard(respList', h) \subseteq Heard(respList, h),
           Asked(respList', h) \subseteq Asked(respList, h),
           WaitingIn(respList', h) => WaitingIn(respList, h)
    PROVE  QuietFor(h)'
<1>1. h \in Groups /\ QuietFor(h)
  BY DEF NoteRequest, Quiet, QuietInv
<1>2. Orders(h)' \subseteq Orders(h) /\ OkAnswers(h)' \subseteq OkAnswers(h)
  BY DEF Orders, OkAnswers
<1> QED BY <1>1, <1>2, Undisturbed

LEMMA CommandFields ==
    ASSUME NEW op, NEW g, NEW S, NEW c \in Commands(op, g, S)
    PROVE  /\ c.op = op /\ c.group = g /\ c.elem \in S
           /\ \A d \in Commands(op, g, S) : c.elem = d.elem => c = d
BY DEF Commands

LEMMA AddGroupQuietInv ==
    ASSUME Patient, TypeInv, PatientInv, QuietInv, NEW g \in Groups, AddGroup(g)
    PROVE  QuietInv'
<1>1. PICK S \in (SUBSET Members(g)) \ {{}} :
        LET list == [e \in Elements |-> IF e \in S THEN Adding ELSE Out] IN
          /\ saved' = [saved EXCEPT ![g] = list]
          /\ tobe' = [memory |-> "live", group |-> g, devices |-> list]
          /\ \E s \in SetToSeqs(S) : respList' = Register("add", g, s)
          /\ commands' = commands \cup Commands("add", g, S)
  BY DEF AddGroup
<1> DEFINE list == [e \in Elements |-> IF e \in S THEN Adding ELSE Out]
<1>2. PICK s \in SetToSeqs(S) : respList' = Register("add", g, s)
  BY <1>1
<1>3. S \subseteq Elements /\ S \subseteq Members(g)
  BY DEF Members
<1>4. s \in Seq(Elements) /\ \A k \in 1..Len(s) : s[k] \in S
  BY <1>3, ListingsType, ListingsIn
<1>5. /\ TypeOK /\ NoteRequest(g) /\ UNCHANGED <<mesh, answers>>
      /\ respList \in Seq(Item) /\ \A i \in 1..Len(respList) : respList[i].op = "ttl"
  BY ReadyFacts DEF TypeInv, TypeOK, AddGroup
<1>6. ASSUME NEW h
      PROVE  /\ Heard(respList', h) = {} /\ Asked(respList', h) \subseteq S
             /\ h # g => Asked(respList', h) = {} /\ ~WaitingIn(respList', h)
  <2>1. /\ Heard(respList', h) = {}
        /\ Asked(respList', h) \subseteq {s[k] : k \in 1..Len(s)}
        /\ h # g => Asked(respList', h) = {} /\ ~WaitingIn(respList', h)
    BY <1>2, <1>4, <1>5, RegisterAsks
  <2> QED BY <1>4, <2>1
<1>7. saved'[g] = list /\ \A h \in Groups \ {g} : saved'[h] = saved[h]
  BY <1>1, <1>5 DEF TypeOK
<1>8. /\ tobe'.group = g /\ tobe'.devices = list
      /\ commands' = commands \cup Commands("add", g, S)
  BY <1>1
<1>9. \A e \in Elements : list[e] = IF e \in S THEN Adding ELSE Out
  OBVIOUS
<1> HIDE DEF list
<1>10. HeldListInv'
  BY <1>7, <1>8 DEF HeldListInv
<1>11. ASSUME NEW h \in Quiet', h # g PROVE QuietFor(h)'
  <2>1. \A c \in commands' : c \in commands \/ c.group = g
    BY <1>8, CommandFields
  <2>2. h \in Groups
    BY <1>11 DEF Quiet
  <2> QED BY <1>5, <1>6, <1>7, <1>11, <2>1, <2>2, OtherGroup
<1>12. ASSUME g \in Quiet' PROVE QuietFor(g)'
  <2>1. Orders(g) = {} /\ \A c \in commands : c.group # g
    BY <1>5, <1>12, FreshGroup
  <2>2. OkAnswers(g)' = {}
    BY <1>5, <1>12, FreshGroup DEF OkAnswers
  <2>3. Orders(g)' \subseteq Commands("add", g, S)
    BY <1>8, <2>1 DEF Orders
  <2>4. OrdersInv(g)'
    BY <1>3, <1>7, <1>9, <2>3, CommandFields DEF OrdersInv, Adding, Failed
  <2>5. RowInv(g)'
    BY <1>3, <1>7, <1>9 DEF RowInv, Members, Adding, Out, InGroup
  <2>6. AnswersInv(g)' /\ EntriesInv(g)'
    BY <1>3, <1>6, <2>2 DEF AnswersInv, EntriesInv, Members
  <2> QED BY <2>4, <2>5, <2>6 DEF QuietFor
<1> QED BY <1>10, <1>11, <1>12 DEF QuietInv

LEMMA UpdateGroupQuietInv ==
    ASSUME Patient, TypeInv, PatientInv, QuietInv, NEW g \in Groups, UpdateGroup(g)
    PROVE  QuietInv'
<1> DEFINE toAdd(l) == Listed(l, {Adding})
           toRemove(l) == Listed(l, {Removing})
<1>1. PICK list \in Edits(g) :
         /\ tobe' = [memory |-> "live", group |-> g, devices |-> list]
         /\ commands' = commands \cup Commands("remove", g, toRemove(list))
                                 \cup Commands("add", g, toAdd(list))
         /\ \E s \in SetToSeqs(toAdd(list)), t \in SetToSeqs(toRemove(list)) :
               respList' = Register("update", g, s \o t)
         /\ saved' = SavedDevices(g, list)
  BY DEF UpdateGroup
<1>2. PICK s \in SetToSeqs(toAdd(list)), t \in SetToSeqs(toRemove(list)) :
         respList' = Register("update", g, s \o t)
  BY <1>1
<1>3. /\ list \in Lists /\ shadow = saved /\ saved[g] # NoRow
      /\ \A e \in Elements : IF e \in Members(g) THEN list[e] \in Edit(saved[g][e])
                             ELSE list[e] = Out
  BY DEF Edits, UpdateGroup, PatientInv, AgreeInv
<1>4. /\ \A e : e \in toAdd(list) <=> e \in Elements /\ list[e] = Adding
      /\ \A e : e \in toRemove(list) <=> e \in Elements /\ list[e] = Removing
      /\ toAdd(list) \subseteq Elements /\ toRemove(list) \subseteq Elements
      /\ toAdd(list) \subseteq Members(g) /\ toRemove(list) \subseteq Members(g)
  BY <1>3 DEF Listed, Adding, Removing, Out
<1> HIDE DEF toAdd, toRemove
<1>5. /\ s \in Seq(Elements) /\ \A k \in 1..Len(s) : s[k] \in toAdd(list)
      /\ t \in Seq(Elements) /\ \A k \in 1..Len(t) : t[k] \in toRemove(list)
  BY <1>4, ListingsType, ListingsIn
<1>6. s \o t \in Seq(Elements) /\ \A k \in 1..Len(s \o t) : (s \o t)[k] \in Members(g)
  <2>1. s \in Seq(Members(g)) /\ t \in Seq(Members(g))
    BY <1>4, <1>5
  <2>2. s \o t \in Seq(Members(g)) /\ s \o t \in Seq(Elements)
    BY <1>5, <2>1, ConcatProperties
  <2> QED BY <2>2
<1>7. /\ TypeOK /\ NoteRequest(g) /\ UNCHANGED <<mesh, answers>>
      /\ respList \in Seq(Item) /\ \A i \in 1..Len(respList) : respList[i].op = "ttl"
  BY ReadyFacts DEF TypeInv, TypeOK, UpdateGroup
<1>8. ASSUME NEW h
      PROVE  /\ Heard(respList', h) = {} /\ Asked(respList', h) \subseteq Members(g)
             /\ h # g => Asked(respList', h) = {} /\ ~WaitingIn(respList', h)
  <2> DEFINE r == s \o t
  <2>1. r \in Seq(Elements) /\ respList' = Register("update", g, r)
    BY <1>2, <1>6
  <2>2. \A k \in 1..Len(r) : r[k] \in Members(g)
    BY <1>6
  <2> HIDE DEF r
  <2>3. /\ Heard(respList', h) = {}
        /\ Asked(respList', h) \subseteq {r[k] : k \in 1..Len(r)}
        /\ h # g => Asked(respList', h) = {} /\ ~WaitingIn(respList', h)
    BY <1>7, <2>1, RegisterAsks
  <2> QED BY <2>2, <2>3
<1>9. saved'[g] = list /\ \A h \in Groups \ {g} : saved'[h] = saved[h]
  BY <1>1, <1>3, <1>7 DEF TypeOK, SavedDevices
<1>10. HeldListInv'
  BY <1>1, <1>9 DEF HeldListInv
<1>11. ASSUME NEW h \in Quiet', h # g PROVE QuietFor(h)'
  <2>1. \A c \in commands' : c \in commands \/ c.group = g
    BY <1>1, CommandFields
  <2>2. h \in Groups
    BY <1>11 DEF Quiet
  <2> QED BY <1>7, <1>8, <1>9, <1>11, <2>1, <2>2, OtherGroup
<1>12. ASSUME g \in Quiet' PROVE QuietFor(g)'
  <2>1. Orders(g) = {} /\ (\A c \in commands : c.group # g) /\ QuietFor(g)
    BY <1>7, <1>12, FreshGroup
  <2>2. OkAnswers(g)' = {}
    BY <1>7, <1>12, FreshGroup DEF OkAnswers
  <2>3. Orders(g)' \subseteq Commands("remove", g, toRemove(list))
                       \cup Commands("add", g, toAdd(list))
    BY <1>1, <2>1 DEF Orders
  <2>4. \A c \in Orders(g)' : list[c.elem] = IF c.op = "add" THEN Adding ELSE Removing
    BY <1>4, <2>3, CommandFields
  <2>5. \A c, d \in Orders(g)' : c.elem = d.elem => c = d
    <3> SUFFICES ASSUME NEW c \in Orders(g)', NEW d \in Orders(g)', c.elem = d.elem
                 PROVE  c = d
      OBVIOUS
    <3>1. c.op \in {"add", "remove"} /\ d.op \in {"add", "remove"}
      BY <2>3, CommandFields
    <3>2. c.op = d.op
      BY <2>4, <3>1 DEF Adding, Removing
    <3> QED BY <2>3, <3>2, CommandFields
  <2>6. OrdersInv(g)'
    BY <1>9, <2>4, <2>5 DEF OrdersInv, Adding, Removing, Failed
  <2>7. RowInv(g)'
    <3> SUFFICES ASSUME NEW e \in Elements
                 PROVE  /\ list[e] # Out => e \in Members(g)
                        /\ list[e] = InGroup => e \in mesh[g]
      BY <1>7, <1>9 DEF RowInv, Members
    <3>1. list[e] = InGroup => saved[g][e] = InGroup
      BY <1>3 DEF Edit, InGroup, Removing, Adding, Out
    <3> QED BY <1>3, <2>1, <3>1 DEF QuietFor, RowInv
  <2>8. AnswersInv(g)' /\ EntriesInv(g)'
    BY <1>8, <2>2 DEF AnswersInv, EntriesInv, Members
  <2> QED BY <2>6, <2>7, <2>8 DEF QuietFor
<1> QED BY <1>10, <1>11, <1>12 DEF QuietInv

LEMMA DeleteGroupQuietInv ==
    ASSUME Patient, TypeInv, PatientInv, QuietInv, NEW g \in Groups, DeleteGroup(g)
    PROVE  QuietInv'
<1>1. /\ TypeOK /\ NoteRequest(g) /\ UNCHANGED <<mesh, answers, respList, tobe>>
      /\ \A i \in 1..Len(respList) : respList[i].op = "ttl"
  BY ReadyFacts DEF TypeInv, DeleteGroup, coreVars
<1>2. saved'[g] = NoRow /\ \A h \in Groups \ {g} : saved'[h] = saved[h]
  BY <1>1 DEF DeleteGroup, TypeOK
<1>3. \A c \in commands' : c \in commands \/ c \in Commands("remove", g, Listed(saved[g], States \ {Out}))
  BY DEF DeleteGroup
<1>4. \A h : Heard(respList', h) = {} /\ Asked(respList', h) = {} /\ ~WaitingIn(respList', h)
  BY <1>1, NobodyAsked
<1>5. HeldListInv'
  BY <1>1 DEF HeldListInv
<1>6. ASSUME NEW h \in Quiet', h # g PROVE QuietFor(h)'
  <2>1. h \in Groups
    BY <1>6 DEF Quiet
  <2>2. \A c \in commands' : c \in commands \/ c.group = g
    BY <1>3, CommandFields
  <2> QED BY <1>1, <1>2, <1>4, <1>6, <2>1, <2>2, OtherGroup
<1>7. ASSUME g \in Quiet' PROVE QuietFor(g)'
  <2>1. \A c \in commands : c.group # g
    BY <1>1, <1>7, FreshGroup
  <2>2. OkAnswers(g)' = {}
    BY <1>1, <1>7, FreshGroup DEF OkAnswers
  <2>3. Orders(g)' \subseteq Commands("remove", g, Listed(saved[g], States \ {Out}))
    BY <1>3, <2>1 DEF Orders
  <2>4. OrdersInv(g)' /\ RowInv(g)'
    BY <1>2, <2>3, CommandFields DEF OrdersInv, RowInv
  <2>5. AnswersInv(g)' /\ EntriesInv(g)'
    BY <1>4, <2>2 DEF AnswersInv, EntriesInv
  <2> QED BY <2>4, <2>5 DEF QuietFor
<1> QED BY <1>5, <1>6, <1>7 DEF QuietInv

LEMMA SetGroupTtlQuietInv ==
    ASSUME Patient, TypeInv, PatientInv, QuietInv, NEW g \in Groups, SetGroupTtl(g)
    PROVE  QuietInv'
<1> DEFINE addrs == {Addr(Device(e)) : e \in Listed(saved[g], States \ {Out})}
<1>1. addrs \subseteq Elements
  BY DEF Listed
<1>2. /\ \E s \in SetToSeqs(addrs) : respList' = Register("ttl", g, s)
      /\ commands' = commands \cup Commands("ttl", g, addrs)
  BY DEF SetGroupTtl
<1> HIDE DEF addrs
<1>3. PICK s \in SetToSeqs(addrs) : respList' = Register("ttl", g, s)
  BY <1>2
<1>4. s \in Seq(Elements) /\ "ttl" \in Ops
  BY <1>1, ListingsType DEF Ops
<1>5. /\ TypeOK /\ NoteRequest(g) /\ UNCHANGED <<saved, tobe, mesh, answers>>
      /\ respList \in Seq(Item) /\ \A i \in 1..Len(respList) : respList[i].op = "ttl"
  BY ReadyFacts DEF TypeInv, TypeOK, SetGroupTtl
<1>6. \A i \in 1..Len(respList') : respList'[i].op = "ttl"
  <2>1. CASE Alike(respList, respList')
    BY <1>5, <2>1 DEF Alike
  <2>2. CASE ~Alike(respList, respList')
    <3>1. PICK item \in Item : item.op = "ttl" /\ respList' = Append(respList, item)
      BY <1>3, <1>4, <1>5, <2>2, RegisterType
    <3> QED BY <1>5, <3>1, AppendProperties
  <2> QED BY <2>1, <2>2
<1>7. \A h : Heard(respList', h) = {} /\ Asked(respList', h) = {} /\ ~WaitingIn(respList', h)
  BY <1>6, NobodyAsked
<1>8. HeldListInv'
  BY <1>6 DEF HeldListInv
<1>9. ASSUME NEW h \in Quiet' PROVE QuietFor(h)'
  <2>1. h \in Groups /\ QuietFor(h)
    BY <1>5, <1>9 DEF NoteRequest, Quiet, QuietInv
  <2>2. Orders(h)' \subseteq Orders(h)
    BY <1>2, CommandFields DEF Orders
  <2>3. OkAnswers(h)' \subseteq OkAnswers(h)
    BY <1>5 DEF OkAnswers
  <2> QED BY <1>5, <1>7, <2>1, <2>2, <2>3, Undisturbed
<1> QED BY <1>8, <1>9 DEF QuietInv

-------------------------------------------------------------------------------
(* ResponseWaiting. *)

(* Steps that change neither what is listed nor what is under way. *)
LEMMA SameQuietInv ==
    ASSUME QuietInv, UNCHANGED <<saved, tobe, mesh, commands, answers, muddled>>,
           \A j \in 1..Len(respList') : \E i \in 1..Len(respList) : respList'[j] = respList[i]
    PROVE  QuietInv'
<1>1. HeldListInv'
  BY DEF QuietInv, HeldListInv
<1>2. ASSUME NEW g \in Quiet PROVE QuietFor(g)'
  <2>1. g \in Groups /\ QuietFor(g)
    BY DEF Quiet, QuietInv
  <2>2. Orders(g)' \subseteq Orders(g) /\ OkAnswers(g)' \subseteq OkAnswers(g)
    BY DEF Orders, OkAnswers
  <2>3. /\ Heard(respList', g) \subseteq Heard(respList, g)
        /\ Asked(respList', g) \subseteq Asked(respList, g)
        /\ WaitingIn(respList', g) => WaitingIn(respList, g)
    BY FewerItems
  <2> QED BY <2>1, <2>2, <2>3, Undisturbed
<1>3. Quiet' = Quiet
  BY DEF Quiet
<1> QED BY <1>1, <1>2, <1>3 DEF QuietInv

LEMMA ExpireQuietInv ==
    ASSUME TypeOK, QuietInv, Expire
    PROVE  QuietInv'
<1>1. PICK n \in DOMAIN respList : respList' = [respList EXCEPT ![n].expired = TRUE]
  BY DEF Expire
<1>2. UNCHANGED <<saved, tobe, mesh, commands, answers, muddled>>
  BY DEF Expire, meshVars, histVars
<1>3. Len(respList') = Len(respList) /\ Len(respList) \in Nat
  BY <1>1, ListFacts DEF TypeOK
<1>4. ASSUME NEW i \in 1..Len(respList)
      PROVE  /\ respList'[i].op = respList[i].op /\ respList'[i].group = respList[i].group
             /\ respList'[i].entries = respList[i].entries
  BY <1>1, ListFacts DEF Item
<1>5. HeldListInv'
  BY <1>2, <1>3, <1>4 DEF QuietInv, HeldListInv
<1>6. ASSUME NEW g \in Quiet PROVE QuietFor(g)'
  <2>1. g \in Groups /\ QuietFor(g)
    BY DEF Quiet, QuietInv
  <2>2. Orders(g)' \subseteq Orders(g) /\ OkAnswers(g)' \subseteq OkAnswers(g)
    BY <1>2 DEF Orders, OkAnswers
  <2> DEFINE list == respList'
  <2>3. Len(list) = Len(respList)
        /\ \A i \in 1..Len(list) : /\ list[i].op = respList[i].op /\ list[i].group = respList[i].group
                                   /\ list[i].entries = respList[i].entries
    BY <1>3, <1>4
  <2> HIDE DEF list
  <2>4. /\ Heard(list, g) = Heard(respList, g) /\ Asked(list, g) = Asked(respList, g)
        /\ WaitingIn(list, g) <=> WaitingIn(respList, g)
    BY <2>3, SameEntries
  <2>5. /\ Heard(respList', g) = Heard(respList, g) /\ Asked(respList', g) = Asked(respList, g)
        /\ WaitingIn(respList', g) <=> WaitingIn(respList, g)
    BY <2>4 DEF list
  <2> QED BY <1>2, <2>1, <2>2, <2>5, Undisturbed
<1>7. Quiet' = Quiet
  BY <1>2 DEF Quiet
<1> QED BY <1>5, <1>6, <1>7 DEF QuietInv

(* A group of lights: the answer counted for an element is its own. *)
LEMMA VerdictDone ==
    ASSUME TypeOK, NEW g \in Quiet, QuietFor(g), NEW i \in 1..Len(respList),
           respList[i].op # "ttl", respList[i].group = g, NEW e \in Members(g),
           StatusOf(respList[i].entries, e) # Failed
    PROVE  Done(g, e)
<1>1. PICK k \in DOMAIN respList[i].entries :
        /\ Device(respList[i].entries[k].elem) = Device(e) /\ respList[i].entries[k].status = "ok"
  BY DEF StatusOf
<1>2. respList[i].entries[k].elem \in Elements
  <2>1. respList[i].entries \in Seq(Entry)
    BY ListFacts DEF Item, Entry
  <2>2. respList[i].entries[k] \in Entry
    BY <1>1, <2>1
  <2> QED BY <2>2 DEF Entry
<1> DEFINE f == respList[i].entries[k].elem
<1>3. f \in Heard(respList, g) /\ f \in Asked(respList, g)
  BY <1>1, <1>2 DEF Heard, Asked
<1>4. Done(g, f) /\ f \in Members(g)
  BY <1>3 DEF QuietFor, EntriesInv
<1>5. Device(f) = Device(e)
  BY <1>1
<1> HIDE DEF f
<1>6. /\ f \in Elements /\ f[2] = 1 /\ e \in Elements /\ e[2] = 1
  BY <1>4 DEF Members, Quiet
<1>7. f = <<Device(f), 1>> /\ e = <<Device(e), 1>>
  BY <1>6, PairsAssumption
<1> QED BY <1>4, <1>5, <1>7

(* What the end of a request makes of the list of its group. *)
LEMMA FinishedList ==
    ASSUME TypeInv, PatientInv, QuietInv, FinishItem, respList[scan.i].op # "ttl"
    PROVE  /\ scan.i \in 1..Len(respList) /\ respList[scan.i].group = tobe.group
           /\ tobe.group \in Groups /\ saved[tobe.group] \in Lists
           /\ \A j \in 1..Len(respList') : respList'[j].op = "ttl"
           /\ saved' = [saved EXCEPT ![tobe.group] =
                           UpdatedDevices(respList[scan.i].entries, saved[tobe.group])]
           /\ UpdatedDevices(respList[scan.i].entries, saved[tobe.group]) \in Lists
<1>0. TypeOK /\ Scanning /\ scan.i <= Len(respList) /\ Len(respList) \in {0, 1, 2}
  BY ScanCases DEF FinishItem, TypeInv
<1>1. scan.i \in 1..Len(respList) /\ scan.i = Len(respList)
  BY <1>0 DEF TypeInv, TypeOK, PatientInv, ListInv
<1>2. tobe.memory = "live" /\ tobe.group = respList[scan.i].group /\ saved[tobe.group] # NoRow
  BY <1>1 DEF PatientInv, HeldInv
<1>3. tobe.group \in Groups /\ tobe.devices \in Lists /\ tobe.devices = saved[tobe.group]
  BY <1>0, <1>1 DEF TypeOK, ToBe, QuietInv, HeldListInv
<1>4. UpdatedDevices(respList[scan.i].entries, saved[tobe.group]) \in Lists
  BY <1>3, UpdatedDevicesType
<1>5. RemoveIndex(scan.i) /\ FinishGroup(respList[scan.i].entries)
  BY DEF FinishItem
<1>6. saved' = [saved EXCEPT ![tobe.group] =
                   UpdatedDevices(respList[scan.i].entries, saved[tobe.group])]
  BY <1>2, <1>3, <1>5 DEF FinishGroup, SavedDevices
<1>7. Len(respList') = Len(respList) - 1 /\ \A j \in 1..Len(respList') : respList'[j] = respList[j]
  <2>1. Len(respList') = Len(respList) - 1
        /\ \A j \in 1..Len(respList') :
              respList'[j] = IF j < scan.i THEN respList[j] ELSE respList[j + 1]
    BY <1>0, <1>1, <1>5, RemoveIndexType DEF TypeOK
  <2> QED BY <1>0, <1>1, <2>1
<1>8. \A j \in 1..Len(respList') : respList'[j].op = "ttl"
  BY <1>0, <1>7 DEF PatientInv, ListInv
<1> QED BY <1>1, <1>2, <1>3, <1>4, <1>6, <1>8

LEMMA FinishGroupQuietInv ==
    ASSUME TypeInv, PatientInv, QuietInv, FinishItem, respList[scan.i].op # "ttl"
    PROVE  QuietInv'
<1>1. PICK g \in Groups : g = tobe.group
  BY FinishedList
<1>2. PICK entries : entries = respList[scan.i].entries
  OBVIOUS
<1>3. PICK list \in Lists : list = UpdatedDevices(entries, saved[g])
  BY <1>1, <1>2, FinishedList
<1>4. /\ scan.i \in 1..Len(respList) /\ respList[scan.i].group = g
      /\ saved[g] \in Lists
      /\ \A j \in 1..Len(respList') : respList'[j].op = "ttl"
      /\ saved' = [saved EXCEPT ![g] = list]
  BY <1>1, <1>2, <1>3, FinishedList
<1>5. TypeOK /\ UNCHANGED <<mesh, commands, answers, muddled>>
  BY DEF FinishItem, TypeInv, meshVars
<1>6. \A e \in Elements : list[e] = StateAfter(entries, e, saved[g][e])
  BY <1>3 DEF UpdatedDevices
<1>7. saved'[g] = list /\ \A h \in Groups \ {g} : saved'[h] = saved[h]
  BY <1>4, <1>5 DEF TypeOK
<1>8. \A h : Heard(respList', h) = {} /\ Asked(respList', h) = {} /\ ~WaitingIn(respList', h)
  BY <1>4, NobodyAsked
<1>9. HeldListInv'
  BY <1>4 DEF HeldListInv
<1>10. \A h : Orders(h)' = Orders(h) /\ OkAnswers(h)' = OkAnswers(h)
  BY <1>5 DEF Orders, OkAnswers
<1>11. ASSUME NEW h \in Quiet, h # g PROVE QuietFor(h)'
  <2>1. h \in Groups /\ QuietFor(h)
    BY DEF Quiet, QuietInv
  <2> QED BY <1>5, <1>7, <1>8, <1>10, <1>11, <2>1, Undisturbed
<1>12. ASSUME g \in Quiet PROVE QuietFor(g)'
  <2>1. QuietFor(g)
    BY <1>12 DEF QuietInv
  <2>2. \A e \in Members(g) : StatusOf(entries, e) # Failed => Done(g, e)
    BY <1>2, <1>4, <1>5, <1>12, <2>1, VerdictDone
  <2>3. saved[g] # NoRow /\ WaitingIn(respList, g) /\ Members(g) \subseteq Elements
    BY <1>4, <1>12, respList[scan.i].op # "ttl" DEF WaitingIn, Members
  <2>4. OrdersInv(g)'
    <3> SUFFICES ASSUME NEW c \in Orders(g) PROVE list[c.elem] = Failed
      BY <1>7, <1>8, <1>10, <2>1 DEF QuietFor, OrdersInv
    <3>1. saved[g][c.elem] \in {Adding, Removing} /\ c.elem \in Elements
      BY <1>5, <2>1, <2>3 DEF QuietFor, OrdersInv, Orders, TypeOK, Command
    <3>2. c.elem \in Members(g) /\ ~Done(g, c.elem)
      BY <2>1, <2>3, <3>1 DEF QuietFor, RowInv, Done, Adding, Removing, Out
    <3>3. StatusOf(entries, c.elem) = Failed
      BY <2>2, <3>2
    <3> QED BY <1>6, <3>1, <3>3 DEF StateAfter, Adding, Removing, InGroup
  <2>5. RowInv(g)'
    <3> SUFFICES ASSUME NEW e \in Elements
                 PROVE  /\ list[e] # Out => e \in Members(g)
                        /\ list[e] = InGroup => e \in mesh[g]
      BY <1>5, <1>7 DEF RowInv, Members
    <3>1. list[e] # Out => saved[g][e] # Out
      BY <1>6 DEF StateAfter, Out, InGroup, Adding, Removing
    <3>2. list[e] # Out => e \in Members(g)
      BY <2>1, <2>3, <3>1 DEF QuietFor, RowInv
    <3>3. list[e] = InGroup =>
             saved[g][e] = InGroup \/ (saved[g][e] = Adding /\ StatusOf(entries, e) # Failed)
      BY <1>6 DEF StateAfter, StatusOf, Out, InGroup, Adding, Removing, Failed
    <3>4. list[e] = InGroup => e \in Members(g)
      BY <3>2 DEF InGroup, Out
    <3> QED BY <2>1, <2>2, <2>3, <3>2, <3>3, <3>4 DEF QuietFor, RowInv, Done
  <2>6. \A e \in Elements : list[e] \notin {Adding, Removing}
    BY <1>6 DEF StateAfter, StatusOf, Out, InGroup, Adding, Removing, Failed
  <2>7. AnswersInv(g)'
    <3> SUFFICES ASSUME NEW e \in OkAnswers(g) PROVE Done(g, e)'
      BY <1>10 DEF AnswersInv
    <3>1. Done(g, e) /\ e \in Elements
      BY <2>1 DEF QuietFor, AnswersInv, OkAnswers
    <3> QED BY <1>7, <1>10, <2>6, <3>1 DEF Done
  <2>8. EntriesInv(g)'
    BY <1>8 DEF EntriesInv
  <2> QED BY <2>4, <2>5, <2>7, <2>8 DEF QuietFor
<1>13. Quiet' = Quiet
  BY <1>5 DEF Quiet
<1> QED BY <1>9, <1>11, <1>12, <1>13 DEF QuietInv

LEMMA FinishItemQuietInv ==
    ASSUME TypeInv, PatientInv, QuietInv, FinishItem
    PROVE  QuietInv'
<1>1. CASE respList[scan.i].op # "ttl"
  BY <1>1, FinishGroupQuietInv
<1>2. CASE respList[scan.i].op = "ttl"
  <2>1. TypeOK /\ scan.i \in 1..Len(respList) /\ Len(respList) \in Nat
    BY ListFacts DEF FinishItem, TypeInv, TypeOK
  <2>2. UNCHANGED <<saved, tobe, mesh, commands, answers, muddled>> /\ RemoveIndex(scan.i)
    BY <1>2 DEF FinishItem, meshVars
  <2>3. Len(respList') = Len(respList) - 1
        /\ \A j \in 1..Len(respList') :
              respList'[j] = IF j < scan.i THEN respList[j] ELSE respList[j + 1]
    BY <2>1, <2>2, RemoveIndexType DEF TypeOK
  <2>4. ASSUME NEW j \in 1..Len(respList')
        PROVE  \E i \in 1..Len(respList) : respList'[j] = respList[i]
    <3>1. j \in 1..Len(respList) /\ j + 1 \in 1..Len(respList)
      BY <2>1, <2>3
    <3> QED BY <2>3, <3>1
  <2> QED BY <2>2, <2>4, SameQuietInv
<1> QED BY <1>1, <1>2

(* Past the end of the list there is only the item of a TTL to finish again. *)
LEMMA PastTheEnd ==
    ASSUME TypeInv, PatientInv, FinishNoItem
    PROVE  UNCHANGED <<saved, tobe>>
<1>1. TypeOK /\ Scanning /\ scan.i > Len(respList)
  BY DEF FinishNoItem, TypeInv
<1>2. \/ scan.i = 1 /\ Len(respList) \in {1, 2}
      \/ scan.i = 2 /\ scan.n = 2 /\ scan.reqId = "ttl"
  BY <1>1, ScanCases
<1>3. scan.i # 1
  <2>1. Len(respList) \in Nat /\ scan.i \in Nat
    BY <1>1, ListFacts DEF TypeOK
  <2>2. Len(respList) # 0
    BY <1>1, ScanCases
  <2> QED BY <1>1, <2>1, <2>2
<1> QED BY <1>2, <1>3 DEF FinishNoItem

LEMMA FinishNoItemQuietInv ==
    ASSUME TypeInv, PatientInv, QuietInv, FinishNoItem
    PROVE  QuietInv'
<1>1. UNCHANGED <<respList, mesh, commands, answers, muddled>>
  BY DEF FinishNoItem, meshVars
<1> QED BY <1>1, PastTheEnd, SameQuietInv

LEMMA NextQuietInv ==
    ASSUME Patient, TypeInv, PatientInv, QuietInv, [Next]_vars
    PROVE  QuietInv'
<1>1. CASE Request
  BY <1>1, AddGroupQuietInv, UpdateGroupQuietInv, DeleteGroupQuietInv, SetGroupTtlQuietInv
     DEF Request
<1>2. CASE Environment
  BY <1>2, EnvironmentQuietInv DEF TypeInv
<1>3. ASSUME NEW x \in answers, HandleAnswer(x) PROVE QuietInv'
  BY <1>3, HandleAnswerQuietInv DEF TypeInv
<1>4. CASE StartScan \/ PassItem \/ UNCHANGED vars
  <2>1. UNCHANGED <<saved, respList, tobe, mesh, commands, answers, muddled>>
    BY <1>4 DEF StartScan, PassItem, vars, meshVars, histVars
  <2> QED BY <2>1, SameQuietInv
<1>5. CASE Expire
  BY <1>5, ExpireQuietInv DEF TypeInv
<1>6. CASE Restart
  <2>1. respList' = <<>> /\ UNCHANGED <<saved, mesh, commands, answers, muddled>>
    BY <1>6 DEF Restart, meshVars
  <2>2. HeldListInv' /\ \A h : /\ Heard(respList', h) = {} /\ Asked(respList', h) = {}
                               /\ ~WaitingIn(respList', h)
    BY <2>1 DEF HeldListInv, Heard, Asked, WaitingIn
  <2>3. ASSUME NEW g \in Quiet PROVE QuietFor(g)'
    <3>1. g \in Groups /\ QuietFor(g)
      BY DEF Quiet, QuietInv
    <3>2. Orders(g)' \subseteq Orders(g) /\ OkAnswers(g)' \subseteq OkAnswers(g)
      BY <2>1 DEF Orders, OkAnswers
    <3> QED BY <2>1, <2>2, <3>1, <3>2, Undisturbed
  <2>4. Quiet' = Quiet
    BY <2>1 DEF Quiet
  <2> QED BY <2>2, <2>3, <2>4 DEF QuietInv
<1> QED BY <1>1, <1>2, <1>3, <1>4, <1>5, <1>6, FinishItemQuietInv, FinishNoItemQuietInv
        DEF Next, ResponseWaiting

LEMMA QuietInvariant == Patient => (Spec => [](TypeInv /\ PatientInv /\ QuietInv))
<1> SUFFICES ASSUME Patient PROVE Spec => [](TypeInv /\ PatientInv /\ QuietInv)
  OBVIOUS
<1>1. TypeInv /\ PatientInv /\ QuietInv /\ [Next]_vars => QuietInv'
  BY NextQuietInv
<1> QED BY <1>1, InitQuietInv, PatientInvariant, PTL DEF Spec

(* With an app that waits, and groups of lights requested only when nothing of
   an earlier request is under way, every member CORE lists is subscribed in the
   mesh: no lost, late or reordered answer makes a member of a lamp that is none. *)
THEOREM QuietMembersListed == Patient => (Spec => []QuietMembers)
<1> SUFFICES ASSUME Patient PROVE Spec => []QuietMembers
  OBVIOUS
<1>1. QuietInv => QuietMembers
  BY DEF QuietInv, QuietFor, RowInv, QuietMembers, MembersAreSubscribed, Quiet, Listed
<1> QED BY <1>1, QuietInvariant, PTL

(* What a request changes in the row of a waiting group, it changes at its end. *)
LEMMA RowChangesAtEnd ==
    ASSUME Patient, TypeInv, PatientInv, QuietInv, [Next]_vars, NEW g \in Groups,
           WaitingIn(respList, g), saved'[g] # saved[g]
    PROVE  FinishItem /\ respList[scan.i].op # "ttl"
<1>1. TypeOK
  BY DEF TypeInv
<1>2. ~Request
  BY <1>1, ReadyFacts DEF Request, AddGroup, UpdateGroup, DeleteGroup, SetGroupTtl
<1>3. ~FinishNoItem
  BY PastTheEnd
<1>4. UNCHANGED saved \/ FinishItem
  BY <1>2, <1>3 DEF Next, Environment, Execute, Refuse, TimeOut, LoseAnswer, HandleAnswer,
     ResponseWaiting, StartScan, PassItem, Expire, Restart, vars
<1> QED BY <1>4 DEF FinishItem

(* With such an app and such groups, an element that is dropped from the list at
   the end of a request to remove it has left the group in the mesh.          *)
THEOREM QuietRemovalsLeft == Patient => (Spec => QuietRemovals)
<1> SUFFICES ASSUME Patient PROVE Spec => QuietRemovals
  OBVIOUS
<1>1. ASSUME TypeInv, PatientInv, QuietInv, [Next]_vars 
      PROVE  \A g \in Groups \ LinkGroups : g \notin muddled => DropsWhatLeft(g)
  <2> SUFFICES ASSUME NEW g \in Quiet, Waiting(g), saved[g] # NoRow,
                      NEW e \in Elements, saved[g][e] = Removing, saved'[g][e] = Out
               PROVE  e \notin mesh[g]
    BY DEF DropsWhatLeft, Quiet
  <2>1. TypeOK /\ g \in Groups /\ QuietFor(g) /\ WaitingIn(respList, g)
    BY <1>1, WaitingFacts DEF TypeInv, Quiet, QuietInv
  <2>2. FinishItem /\ respList[scan.i].op # "ttl"
    BY <1>1, <2>1, RowChangesAtEnd DEF Removing, Out
  <2>3. /\ scan.i \in 1..Len(respList) /\ respList[scan.i].group = tobe.group
        /\ saved' = [saved EXCEPT ![tobe.group] =
                        UpdatedDevices(respList[scan.i].entries, saved[tobe.group])]
    BY <1>1, <2>2, FinishedList
  <2>4. g = tobe.group
    BY <2>1, <2>3 DEF TypeOK, Removing, Out
  <2>5. saved'[g][e] = StateAfter(respList[scan.i].entries, e, saved[g][e])
    BY <2>1, <2>3, <2>4 DEF TypeOK, UpdatedDevices
  <2>6. StatusOf(respList[scan.i].entries, e) # Failed
    BY <2>5 DEF StateAfter, StatusOf, Removing, Out, InGroup, Failed, Adding
  <2>7. e \in Members(g)
    BY <2>1 DEF QuietFor, RowInv, Removing, Out
  <2>8. Done(g, e)
    BY <2>1, <2>2, <2>3, <2>4, <2>6, <2>7, VerdictDone
  <2> QED BY <2>8 DEF Done
<1> QED BY <1>1, QuietInvariant, PTL DEF Spec, QuietRemovals
=============================================================================
