---------------------------- MODULE AwsBridgeProofs ----------------------------
(* Proofs about AwsWatchdog and AwsBridge: the types of both, that a service which
   answers its pings is never restarted while the connection of AWS stays up, that
   the bridge is such a watchdog, that no report and no request is lost without a
   reason, and that the cloud never goes back to an older report.  They hold for
   every set of services and devices, every limit and ping period that keep the
   margin, and queues of any size.                                              *)
EXTENDS AwsBridge, FiniteSetTheorems, SequenceTheorems, TLAPS

-----------------------------------------------------------------------------
(* The watchdogs *)

(* What holds the counter of a trusted service below its limit: without a ping
   on its way it has not counted more ticks than went by since the last ping,
   and with one, not more than a ping period and the age of that ping.        *)
Outstanding(s) == s \in asked \cup answered
Bounded(s) == IF Outstanding(s) THEN dog[s] <= PingEvery + 1 + age[s]
                                ELSE dog[s] <= pingCount
DogInv == /\ DogTypeOK
          /\ Connected \/ trusted = {}
          /\ \A s \in trusted : Bounded(s)

LEMMA DogInitInv == DogInit => DogInv
BY ServicesAssumption, CountsAssumption
   DEF DogInit, DogInv, DogTypeOK, Connected, Bounded, Outstanding, Zero

(* A trusted service is not overdue when time passes. *)
LEMMA TrustedInTime ==
    ASSUME DogInv, TickServices, NEW s \in trusted
    PROVE  ~Overdue(s) /\ Bounded(s)'
<1> USE ServicesAssumption, CountsAssumption, MarginAssumption
<1>1. /\ s \in Reached /\ s \in Services /\ Connected
      /\ dog[s] \in Nat /\ age[s] \in Nat /\ Limit[s] \in Nat /\ pingCount \in 0..PingEvery
      /\ PingEvery \in Nat /\ MaxLag \in Nat /\ PingEvery + 1 + MaxLag <= Limit[s]
      /\ Bounded(s)
  BY DEF DogInv, DogTypeOK
<1>2. Outstanding(s) => age[s] < MaxLag
  BY DEF TickServices, Prompt, Outstanding
<1>3. ~Overdue(s)
  BY <1>1, <1>2 DEF Overdue, Bounded
<1>4. /\ dog'[s] = dog[s] + 1
      /\ pingCount' = IF PingDue THEN 0 ELSE pingCount + 1
      /\ answered' = answered
      /\ s \in asked' <=> s \in asked \/ PingDue
  BY <1>1, <1>3 DEF TickServices
<1>5. CASE Outstanding(s)
  <2>1. age'[s] = age[s] + 1
    BY <1>1, <1>2, <1>5 DEF TickServices, Outstanding
  <2>2. Outstanding(s)'
    BY <1>4, <1>5 DEF Outstanding
  <2> QED
    BY <1>1, <1>3, <1>4, <1>5, <2>1, <2>2 DEF Bounded
<1>6. CASE ~Outstanding(s)
  <2>1. age'[s] = 0
    BY <1>1, <1>6 DEF TickServices, Outstanding
  <2>2. Outstanding(s)' <=> PingDue
    BY <1>4, <1>6 DEF Outstanding
  <2> QED
    BY <1>1, <1>3, <1>4, <1>6, <2>1, <2>2 DEF Bounded, PingDue
<1> QED
  BY <1>5, <1>6

LEMMA DogNextInv == DogInv /\ [DogNext]_dogVars => DogInv'
<1> SUFFICES ASSUME DogInv, [DogNext]_dogVars PROVE DogInv'
  OBVIOUS
<1> USE ServicesAssumption, CountsAssumption
<1>1. CASE TickServices
  <2>1. DogTypeOK'
    <3>1. dog' \in [Services -> Nat] /\ \A s \in Services : dog'[s] <= Limit[s]
      BY <1>1 DEF TickServices, DogInv, DogTypeOK, Overdue
    <3>2. pingCount' \in 0..PingEvery
      BY <1>1 DEF TickServices, DogInv, DogTypeOK, PingDue
    <3>3. age' \in [Services -> 0..(MaxLag + 1)]
      BY <1>1 DEF TickServices, DogInv, DogTypeOK
    <3> QED
      BY <1>1, <3>1, <3>2, <3>3 DEF TickServices, DogInv, DogTypeOK
  <2>2. (Connected \/ trusted = {})'
    BY <1>1 DEF TickServices, DogInv, Connected
  <2>3. (\A s \in trusted : Bounded(s))'
    BY <1>1, TrustedInTime DEF TickServices
  <2> QED
    BY <2>1, <2>2, <2>3 DEF DogInv
<1>2. ASSUME NEW s \in Services, ReceivePong(s) PROVE DogInv'
  <2>1. DogTypeOK'
    BY <1>2 DEF ReceivePong, DogInv, DogTypeOK
  <2>2. (Connected \/ trusted = {})'
    BY <1>2 DEF ReceivePong, Connected
  <2>3. ASSUME NEW t \in trusted' PROVE Bounded(t)'
    <3>1. CASE t = s
      BY <1>2, <2>1, <3>1 DEF ReceivePong, DogInv, DogTypeOK, Bounded, Outstanding
    <3>2. CASE t # s
      <4>1. t \in trusted /\ Bounded(t)
        BY <1>2, <2>3, <3>2 DEF ReceivePong, DogInv
      <4>2. t \in Services /\ dog'[t] = dog[t] /\ age'[t] = age[t] /\ pingCount' = pingCount
        BY <1>2, <2>1, <2>3, <3>2 DEF ReceivePong, DogInv, DogTypeOK
      <4>3. Outstanding(t)' <=> Outstanding(t)
        BY <1>2, <3>2 DEF ReceivePong, Outstanding
      <4> QED
        BY <4>1, <4>2, <4>3 DEF Bounded
    <3> QED
      BY <3>1, <3>2
  <2> QED
    BY <2>1, <2>2, <2>3 DEF DogInv
<1>3. ASSUME NEW s \in Services, Answer(s) PROVE DogInv'
  <2>1. DogTypeOK' /\ (Connected \/ trusted = {})'
    BY <1>3 DEF Answer, DogInv, DogTypeOK, Connected
  <2>2. (\A t \in trusted : Bounded(t))'
    BY <1>3 DEF Answer, DogInv, Connected, Bounded, Outstanding
  <2> QED
    BY <2>1, <2>2 DEF DogInv
<1>4. CASE LoseMosq
  BY <1>4 DEF LoseMosq, DogInv, DogTypeOK, Connected, Bounded, Outstanding
<1>5. CASE MendMosq
  BY <1>5 DEF MendMosq, DogInv, DogTypeOK, Connected, Bounded, Outstanding
<1>6. CASE AbortAws
  <2>1. trusted = {} /\ trusted' = {}
    BY <1>6 DEF AbortAws, DogInv, Connected
  <2>2. DogTypeOK'
    BY <1>6 DEF AbortAws, DogInv, DogTypeOK, Zero
  <2> QED
    BY <2>1, <2>2 DEF DogInv
<1>7. ASSUME NEW s \in Services, Hang(s) PROVE DogInv'
  BY <1>7 DEF Hang, DogInv, DogTypeOK, Connected, Bounded, Outstanding
<1>8. CASE DropLink
  BY <1>8 DEF DropLink, DogInv, DogTypeOK
<1>9. CASE BrokerDown
  BY <1>9 DEF BrokerDown, DogInv, DogTypeOK
<1>10. CASE BrokerUp
  BY <1>10 DEF BrokerUp, DogInv, DogTypeOK, Connected, Bounded, Outstanding
<1>11. CASE UNCHANGED dogVars
  BY <1>11 DEF dogVars, DogInv, DogTypeOK, Connected, Bounded, Outstanding
<1> QED
  BY <1>1, <1>2, <1>3, <1>4, <1>5, <1>6, <1>7, <1>8, <1>9, <1>10, <1>11
     DEF DogNext, MosqStep, Trouble

(* The variables keep their types, and no counter passes its limit. *)
THEOREM DogTypeCorrect == DogSpec => []DogTypeOK
<1>1. DogInv => DogTypeOK
  BY DEF DogInv
<1> QED
  BY <1>1, DogInitInv, DogNextInv, PTL DEF DogSpec

LEMMA SparesStep ==
    DogInv /\ [DogNext]_dogVars =>
        [\A s \in trusted : dog[s] > 0 /\ dog'[s] = 0 => s \in answered]_dogVars
<1> SUFFICES ASSUME DogInv, DogNext, NEW s \in trusted, dog[s] > 0, dog'[s] = 0
             PROVE  s \in answered
  OBVIOUS
<1>1. s \in Services /\ dog[s] \in Nat
  BY ServicesAssumption DEF DogInv, DogTypeOK
<1>2. ~TickServices
  BY <1>1, TrustedInTime DEF TickServices
<1>3. ~AbortAws
  BY DEF AbortAws, DogInv, Connected
<1>4. dog' = dog \/ \E t \in Services : ReceivePong(t)
  BY <1>2, <1>3 DEF DogNext, MosqStep, Trouble, Answer, LoseMosq, MendMosq, Hang,
                    DropLink, BrokerDown, BrokerUp
<1>5. PICK t \in Services : ReceivePong(t)
  BY <1>1, <1>4
<1> QED
  BY <1>1, <1>5 DEF ReceivePong, DogInv, DogTypeOK

(* A service that answers its pings within MaxLag ticks is never restarted while
   the connection of AWS to the broker stays up.                              *)
THEOREM ResponsiveIsSpared == DogSpec => SparesTheResponsive
<1> QED
  BY DogInitInv, DogNextInv, SparesStep, PTL DEF DogSpec, SparesTheResponsive

(* The other half: nothing spares a service that hangs.  Once its last pong has
   arrived, it sends no other; each tick brings it nearer to its limit, which
   its counter never passes (DogTypeCorrect), and only a restart of the service or
   of AWS takes its counter back.                                               *)
HungIsCounted ==
    [][\A s \in hung \ answered :
          /\ s \notin answered'
          /\ TickServices => s \notin hung' \/ dog'[s] = dog[s] + 1
          /\ dog'[s] < dog[s] => s \notin hung' \/ AbortAws]_dogVars

LEMMA HungStep ==
    ASSUME DogInv, [DogNext]_dogVars, NEW s \in hung \ answered
    PROVE  /\ s \notin answered'
           /\ TickServices => s \notin hung' \/ dog'[s] = dog[s] + 1
           /\ dog'[s] < dog[s] => s \notin hung' \/ AbortAws
<1>1. s \in Services /\ dog \in [Services -> Nat]
  BY DEF DogInv, DogTypeOK
<1>2. TickServices => s \notin hung' \/ dog'[s] = dog[s] + 1
  BY <1>1 DEF TickServices, Overdue
<1>3. CASE TickServices
  BY <1>1, <1>2, <1>3 DEF TickServices
<1>4. ASSUME NEW t \in Services, ReceivePong(t) \/ Answer(t)
      PROVE  s \notin answered' /\ dog'[s] = dog[s]
  BY <1>1, <1>4 DEF ReceivePong, Answer
<1>5. CASE AbortAws
  BY <1>2, <1>5 DEF AbortAws
<1>6. CASE LoseMosq \/ MendMosq \/ Trouble \/ UNCHANGED dogVars
  <2>1. answered' \subseteq answered /\ dog' = dog
    BY <1>6 DEF LoseMosq, MendMosq, Trouble, Hang, DropLink, BrokerDown, BrokerUp, dogVars
  <2> QED BY <1>1, <1>2, <2>1
<1> QED
  BY <1>1, <1>2, <1>3, <1>4, <1>5, <1>6 DEF DogNext, MosqStep

(* A service that hangs comes nearer to its restart with every tick of the watchdog
   (Aws_SendMergePayload counts, and only Mosq_ReceivedHandler sets back).              *)
THEOREM HungIsDoomed == DogSpec => HungIsCounted
<1>1. DogInv /\ [DogNext]_dogVars
        => [\A s \in hung \ answered :
               /\ s \notin answered'
               /\ TickServices => s \notin hung' \/ dog'[s] = dog[s] + 1
               /\ dog'[s] < dog[s] => s \notin hung' \/ AbortAws]_dogVars
  BY HungStep
<1> QED
  BY <1>1, DogInitInv, DogNextInv, PTL DEF DogSpec, HungIsCounted

-----------------------------------------------------------------------------
(* Sequences and what is in them *)

LEMMA EmptyFacts == ToSet(<<>>) = {}
BY DEF ToSet

LEMMA AppendFacts ==
    ASSUME NEW S, NEW s \in Seq(S), NEW e \in S
    PROVE  /\ Append(s, e) \in Seq(S) /\ Len(s) \in Nat /\ Len(Append(s, e)) = Len(s) + 1
           /\ \A i \in 1..Len(s) : Append(s, e)[i] = s[i]
           /\ Append(s, e)[Len(s) + 1] = e
           /\ ToSet(Append(s, e)) = ToSet(s) \cup {e}
<1>1. /\ Append(s, e) \in Seq(S) /\ Len(s) \in Nat /\ Len(Append(s, e)) = Len(s) + 1
      /\ \A i \in 1..Len(s) : Append(s, e)[i] = s[i]
      /\ Append(s, e)[Len(s) + 1] = e
      /\ DOMAIN s = 1..Len(s) /\ DOMAIN Append(s, e) = 1..(Len(s) + 1)
  BY AppendProperties
<1>2. ToSet(Append(s, e)) \subseteq ToSet(s) \cup {e}
  BY <1>1 DEF ToSet
<1>3. e \in ToSet(Append(s, e)) /\ ToSet(s) \subseteq ToSet(Append(s, e))
  <2>1. Len(s) + 1 \in DOMAIN Append(s, e) /\ \A i \in DOMAIN s : i \in DOMAIN Append(s, e)
    BY <1>1
  <2> QED BY <1>1, <2>1 DEF ToSet
<1> QED BY <1>1, <1>2, <1>3

LEMMA TailFacts ==
    ASSUME NEW S, NEW s \in Seq(S), s # <<>>
    PROVE  /\ Tail(s) \in Seq(S) /\ Len(s) \in Nat /\ Len(Tail(s)) = Len(s) - 1
           /\ Head(s) = s[1] /\ Head(s) \in S
           /\ \A i \in 1..Len(Tail(s)) : Tail(s)[i] = s[i + 1] /\ i + 1 \in 1..Len(s)
           /\ ToSet(s) = {Head(s)} \cup ToSet(Tail(s))
<1>1. /\ Tail(s) \in Seq(S) /\ Len(s) \in Nat /\ Len(Tail(s)) = Len(s) - 1
      /\ Head(s) = s[1] /\ 1 \in 1..Len(s) /\ Head(s) \in S
      /\ \A i \in 1..Len(Tail(s)) : Tail(s)[i] = s[i + 1] /\ i + 1 \in 1..Len(s)
      /\ DOMAIN s = 1..Len(s) /\ DOMAIN Tail(s) = 1..Len(Tail(s))
  OBVIOUS
<1>2. {Head(s)} \cup ToSet(Tail(s)) \subseteq ToSet(s)
  BY <1>1 DEF ToSet
<1>3. ASSUME NEW i \in 1..Len(s) PROVE s[i] \in {Head(s)} \cup ToSet(Tail(s))
  <2>1. CASE i = 1
    BY <1>1, <2>1
  <2>2. CASE i # 1
    <3>1. i - 1 \in 1..Len(Tail(s)) /\ (i - 1) + 1 = i
      BY <1>1, <2>2
    <3>2. Tail(s)[i - 1] = s[i]
      BY <1>1, <3>1
    <3> QED BY <1>1, <3>1, <3>2 DEF ToSet
  <2> QED BY <2>1, <2>2
<1>4. ToSet(s) \subseteq {Head(s)} \cup ToSet(Tail(s))
  BY <1>1, <1>3 DEF ToSet
<1> QED BY <1>1, <1>2, <1>4

LEMMA InjectiveLength ==
    ASSUME NEW S, IsFiniteSet(S), NEW s \in Seq(S), IsInjective(s)
    PROVE  Len(s) <= Cardinality(S)
<1>1. Len(s) \in Nat /\ s \in [1..Len(s) -> S]
  OBVIOUS
<1>2. s \in Injection(1..Len(s), S)
  BY <1>1 DEF Injection, IsInjective
<1>3. Cardinality(1..Len(s)) <= Cardinality(S)
  BY <1>2, FS_Injection
<1>4. Cardinality(1..Len(s)) = Len(s)
  BY <1>1, FS_Interval
<1> QED BY <1>3, <1>4

LEMMA BoundedSequence ==
    ASSUME NEW S, NEW n \in Nat, NEW s \in Seq(S), Len(s) <= n
    PROVE  s \in BoundedSeq(S, n)
<1>1. Len(s) \in 0..n /\ s \in [1..Len(s) -> S]
  OBVIOUS
<1> QED BY <1>1 DEF BoundedSeq, SeqOf

-----------------------------------------------------------------------------
(* The bridge is a watchdog *)

LEMMA DogStep == [Next]_vars => [DogNext]_dogVars
<1> SUFFICES ASSUME [Next]_vars PROVE [DogNext]_dogVars
  OBVIOUS
<1>1. CASE Core
  BY <1>1 DEF Core, Report, KickOut
<1>2. CASE Receive \/ MergeReport \/ PublishKickOut \/ Forward
  BY <1>2 DEF Receive, MergeReport, PublishKickOut, Forward
<1>3. CASE Tick
  BY <1>3 DEF Tick, DogNext
<1>4. CASE ServePongs
  BY <1>4 DEF ServePongs, DogNext, MosqStep
<1>5. CASE FindBroken \/ TellDisconnected \/ CloseSession
  BY <1>5 DEF FindBroken, TellDisconnected, CloseSession
<1>6. CASE Connect
  BY <1>6 DEF Connect, Dial, Established, Subscribed, TellConnected
<1>7. CASE Ask \/ NetChange \/ LoseSession
  BY <1>7 DEF Ask, NetChange, LoseSession
<1>8. CASE LocalTrouble
  BY <1>8 DEF LocalTrouble, DogNext
<1>9. CASE Restart
  BY <1>9 DEF Restart, DogNext, MosqStep
<1>10. CASE UNCHANGED vars
  BY <1>10 DEF vars
<1> QED BY <1>1, <1>2, <1>3, <1>4, <1>5, <1>6, <1>7, <1>8, <1>9, <1>10 DEF Next

(* Whatever the bridge does, its ticks, pings and pongs are those of the watchdog:
   what is proved of the watchdog holds in the whole AWS service.               *)
THEOREM BridgeIsWatchdog == Spec => DogSpec
<1>1. Init => DogInit
  BY DEF Init
<1> QED BY <1>1, DogStep, PTL DEF Spec, DogSpec

-----------------------------------------------------------------------------
(* Types *)

Held ==
    /\ bus \in Seq(Message) /\ Len(bus) <= MaxBus
    /\ queue \in Seq(Message) /\ Len(queue) <= QueueSize
    /\ pages \in Seq(Pages) /\ IsInjective(pages)
    /\ merged \in [Devices -> Entry]
    /\ shadow \in [Devices -> Entry]
    /\ stamp \in [Devices -> 0..MaxReports] /\ reports \in 0..MaxReports
    /\ buried \subseteq kicked /\ kicked \subseteq Devices

Asked ==
    /\ requests \in Seq(1..MaxRequests) /\ Len(requests) <= QueueSize
    /\ forwarded \in Seq(1..MaxRequests)
    /\ asks \in 0..MaxRequests

Session ==
    /\ net \in BOOLEAN
    /\ session \in {"none", "opening", "up"}
    /\ connected \in BOOLEAN
    /\ thread \in {"idle", "opening", "subscribing", "telling"}
    /\ main \in {"loop", "telling", "closing"}
    /\ told \in {"AWS_CONNECTED", "AWS_DISCONNECTED"} /\ untold \in BOOLEAN
    /\ drops \in 0..MaxDrops

Losses == lost \subseteq Devices \cup 1..MaxRequests

LEMMA EntryFacts ==
    /\ Absent \in Entry /\ Absent.state = 0 /\ Absent.dp = 0
    /\ \A e \in Entry : e.state \in 0..MaxReports /\ e.dp \in 0..MaxReports
    /\ \A e \in Entry : Overlay(e, Absent) = e
    /\ \A e, f \in Entry : /\ Overlay(e, f) \in Entry
                           /\ Overlay(e, f).state = IF f.state = 0 THEN e.state ELSE f.state
                           /\ Overlay(e, f).dp = IF f.dp = 0 THEN e.dp ELSE f.dp
<1> USE BridgeAssumption
<1>1. /\ Absent \in Entry /\ Absent.state = 0 /\ Absent.dp = 0
      /\ \A e \in Entry : e.state \in 0..MaxReports /\ e.dp \in 0..MaxReports
  BY DEF Absent, Entry
<1>2. \A e \in Entry : Overlay(e, Absent) = e
  BY DEF Overlay, Absent, Entry
<1>3. ASSUME NEW e \in Entry, NEW f \in Entry
      PROVE  /\ Overlay(e, f) \in Entry
             /\ Overlay(e, f).state = IF f.state = 0 THEN e.state ELSE f.state
             /\ Overlay(e, f).dp = IF f.dp = 0 THEN e.dp ELSE f.dp
  BY DEF Overlay, Entry
<1> QED BY <1>1, <1>2, <1>3

LEMMA UpdatedFacts ==
    ASSUME NEW e \in Entry, NEW m \in Message
    PROVE  /\ Updated(e, m) \in Entry /\ Updated(e, m).state = m.stamp
           /\ Updated(e, m).dp \in {e.dp, m.stamp}
BY DEF Entry, Message, Updated

LEMMA MessageFields ==
    \A m \in Message : /\ m.dev \in Devices /\ m.stamp \in 0..MaxReports
                       /\ m.kind \in {"onoff", "online", "kickout"}
BY DEF Message

(* The steps that concern neither a report nor a request. *)
SessionStep == \/ FindBroken \/ TellDisconnected \/ CloseSession \/ Connect
               \/ NetChange \/ LoseSession \/ ServePongs

LEMMA SessionStepFacts ==
    ASSUME Session, SessionStep
    PROVE  Session' /\ UNCHANGED <<reportVars, requestVars, lost>>
<1> USE BridgeAssumption
<1>1. ASSUME NEW what \in {"AWS_CONNECTED", "AWS_DISCONNECTED"}, Tell(what)
      PROVE  told' \in {"AWS_CONNECTED", "AWS_DISCONNECTED"} /\ untold' \in BOOLEAN
  BY <1>1 DEF Tell, Session
<1>2. CASE FindBroken \/ CloseSession \/ Dial \/ Subscribed
  BY <1>2 DEF FindBroken, CloseSession, Dial, Subscribed, cfgVars, Session
<1>6. CASE Established
  <2>1. drops' \in 0..MaxDrops
    BY <1>6 DEF Established, Session
  <2> QED BY <1>6, <2>1 DEF Established, cfgVars, Session
<1>3. CASE TellDisconnected \/ TellConnected
  BY <1>1, <1>3 DEF TellDisconnected, TellConnected, Session
<1>4. CASE NetChange \/ LoseSession
  <2>1. drops' \in 0..MaxDrops
    BY <1>4 DEF NetChange, LoseSession, Session
  <2>2. net' \in BOOLEAN /\ session' \in {"none", "opening", "up"}
    BY <1>4 DEF NetChange, LoseSession, Session
  <2> QED BY <1>4, <2>1, <2>2 DEF NetChange, LoseSession, cfgVars, Session
<1>5. CASE ServePongs
  BY <1>5 DEF ServePongs, bridgeVars, reportVars, requestVars, Session
<1> QED BY <1>2, <1>3, <1>4, <1>5, <1>6 DEF SessionStep, Connect

-----------------------------------------------------------------------------
(* Reports *)

Fields == {"state", "dp"}

(* The deletion of a device is the last message about it, and its reports come
   in the order in which they were made.                                       *)
Follows(m, n) == n.dev = m.dev =>
    /\ m.kind # "kickout"
    /\ n.kind # "kickout" => m.stamp <= n.stamp

Sorted(s) == \A i, j \in 1..Len(s) : i < j => Follows(s[i], s[j])

(* A message on its way: it is newer than what is merged or in the cloud. *)
Coming(m) ==
    /\ m.dev \notin buried
    /\ IF m.kind = "kickout" THEN m.dev \in kicked
       ELSE /\ 0 < m.stamp /\ m.stamp <= stamp[m.dev]
            /\ \A f \in Fields : merged[m.dev][f] <= m.stamp /\ shadow[m.dev][f] <= m.stamp

(* What is merged is newer than what is in the cloud. *)
Known(d) ==
    /\ stamp[d] <= reports
    /\ \A f \in Fields : /\ merged[d][f] <= stamp[d] /\ shadow[d][f] <= stamp[d]
                         /\ merged[d][f] # 0 => shadow[d][f] <= merged[d][f]
    /\ merged[d].state = 0 => merged[d] = Absent
    /\ d \in buried => merged[d] = Absent /\ shadow[d] = Absent

OrderInv ==
    /\ Sorted(bus) /\ Sorted(queue)
    /\ \A m \in ToSet(queue), n \in ToSet(bus) : Follows(m, n)
    /\ \A m \in ToSet(queue) \cup ToSet(bus) : Coming(m)
    /\ \A d \in Devices : Known(d)

(* The last report of a device, as a fact about what is on its way. *)
Kept(d) ==
    \/ \E m \in ToSet(queue) \cup ToSet(bus) : m.dev = d /\ m.stamp = stamp[d]
    \/ merged[d].state = stamp[d]
    \/ merged[d] = Absent /\ shadow[d].state = stamp[d]

KeptInv == \A d \in Devices \ (lost \cup kicked) : stamp[d] > 0 => Kept(d)

ReportInv == Held /\ OrderInv /\ KeptInv

LEMMA KeptIsKept ==
    ASSUME Held, NEW d \in Devices
    PROVE  Kept(d) <=> ReportIsKept(d)
BY DEF Kept, ReportIsKept, ToSet

LEMMA TailSorted ==
    ASSUME NEW s \in Seq(Message), s # <<>>, Sorted(s)
    PROVE  Sorted(Tail(s)) /\ \A n \in ToSet(Tail(s)) : Follows(Head(s), n)
<1>1. /\ Tail(s) \in Seq(Message) /\ Len(s) \in Nat /\ Len(Tail(s)) = Len(s) - 1
      /\ Head(s) = s[1]
      /\ \A i \in 1..Len(Tail(s)) : Tail(s)[i] = s[i + 1] /\ i + 1 \in 1..Len(s)
  BY TailFacts
<1>2. Sorted(Tail(s))
  BY <1>1 DEF Sorted
<1>3. ASSUME NEW i \in 1..Len(Tail(s)) PROVE Follows(Head(s), Tail(s)[i])
  <2>1. 1 \in 1..Len(s) /\ i + 1 \in 1..Len(s) /\ 1 < i + 1
    BY <1>1
  <2> QED BY <1>1, <2>1 DEF Sorted
<1>4. \A n \in ToSet(Tail(s)) : \E i \in 1..Len(Tail(s)) : n = Tail(s)[i]
  BY <1>1 DEF ToSet
<1> QED BY <1>2, <1>3, <1>4

LEMMA AppendSorted ==
    ASSUME NEW s \in Seq(Message), NEW m \in Message, Sorted(s),
           \A n \in ToSet(s) : Follows(n, m)
    PROVE  Sorted(Append(s, m))
<1>1. /\ Len(s) \in Nat /\ Len(Append(s, m)) = Len(s) + 1
      /\ \A i \in 1..Len(s) : Append(s, m)[i] = s[i]
      /\ Append(s, m)[Len(s) + 1] = m
  BY AppendFacts
<1>2. \A i \in 1..Len(s) : s[i] \in ToSet(s)
  BY DEF ToSet
<1> SUFFICES ASSUME NEW i \in 1..(Len(s) + 1), NEW j \in 1..(Len(s) + 1), i < j
             PROVE  Follows(Append(s, m)[i], Append(s, m)[j])
  BY <1>1 DEF Sorted
<1>3. i \in 1..Len(s)
  BY <1>1
<1>4. CASE j = Len(s) + 1
  BY <1>1, <1>2, <1>3, <1>4
<1>5. CASE j \in 1..Len(s)
  BY <1>1, <1>3, <1>5 DEF Sorted
<1> QED BY <1>1, <1>4, <1>5

LEMMA ElementsAreMessages ==
    ASSUME NEW s \in Seq(Message)
    PROVE  ToSet(s) \subseteq Message
BY DEF ToSet

LEMMA InitReportInv == Init => ReportInv
<1> SUFFICES ASSUME Init PROVE ReportInv
  OBVIOUS
<1> USE BridgeAssumption
<1>1. Held
  BY EntryFacts DEF Init, Held, IsInjective
<1>2. OrderInv
  <2>1. bus = <<>> /\ queue = <<>> /\ ToSet(bus) = {} /\ ToSet(queue) = {}
    BY EmptyFacts DEF Init
  <2>2. Sorted(bus) /\ Sorted(queue)
    BY <2>1 DEF Sorted
  <2>3. \A d \in Devices : Known(d)
    BY EntryFacts DEF Init, Known, Fields
  <2> QED BY <2>1, <2>2, <2>3 DEF OrderInv
<1>3. KeptInv
  BY DEF Init, KeptInv
<1> QED BY <1>1, <1>2, <1>3 DEF ReportInv

(* A message that CORE has sent, or has lost. *)
LEMMA SendSteps ==
    ASSUME Held, OrderInv, NEW m \in Message, Len(bus) < MaxBus,
           \A n \in ToSet(queue) \cup ToSet(bus) : Follows(n, m),
           bus' = IF Connected THEN Append(bus, m) ELSE bus, queue' = queue
    PROVE  /\ bus' \in Seq(Message) /\ Len(bus') <= MaxBus
           /\ Sorted(bus') /\ \A x \in ToSet(queue'), n \in ToSet(bus') : Follows(x, n)
           /\ ToSet(queue') \cup ToSet(bus') \subseteq ToSet(queue) \cup ToSet(bus) \cup {m}
           /\ ToSet(bus) \subseteq ToSet(bus')
           /\ Connected => m \in ToSet(bus')
<1> USE BridgeAssumption
<1>1. CASE ~Connected
  BY <1>1 DEF Held, OrderInv
<1>2. CASE Connected
  <2>1. /\ bus' \in Seq(Message) /\ Len(bus) \in Nat /\ Len(bus') = Len(bus) + 1
        /\ ToSet(bus') = ToSet(bus) \cup {m}
    BY <1>2, AppendFacts DEF Held
  <2>2. Sorted(bus')
    BY <1>2, AppendSorted DEF Held, OrderInv
  <2> QED BY <2>1, <2>2 DEF OrderInv
<1> QED BY <1>1, <1>2

LEMMA ReportStep ==
    ASSUME ReportInv, NEW kind \in {"onoff", "online"}, NEW d \in Devices, Report(kind, d)
    PROVE  ReportInv'
<1> USE BridgeAssumption
<1>0. PICK m : m = [kind |-> kind, dev |-> d, stamp |-> reports + 1]
  OBVIOUS
<1>1. /\ Held /\ OrderInv /\ KeptInv /\ d \notin kicked /\ Len(bus) < MaxBus
      /\ reports < MaxReports /\ reports' = reports + 1 /\ reports \in Nat
      /\ reports + 1 \in 0..MaxReports
      /\ stamp' = [stamp EXCEPT ![d] = reports + 1]
      /\ bus' = IF Connected THEN Append(bus, m) ELSE bus
      /\ lost' = IF Connected THEN lost ELSE lost \cup {d}
      /\ UNCHANGED <<queue, pages, merged, shadow, kicked, buried>>
  BY <1>0 DEF ReportInv, Report, Held, mergeVars
<1>2. m \in Message /\ m.kind # "kickout" /\ m.dev = d /\ m.stamp = reports + 1
  BY <1>0, <1>1 DEF Message
<1>3. \A n \in ToSet(queue) \cup ToSet(bus) : n \in Message /\ Coming(n)
  BY <1>1, ElementsAreMessages DEF Held, OrderInv
<1>4. \A n \in ToSet(queue) \cup ToSet(bus) : Follows(n, m)
  <2> SUFFICES ASSUME NEW n \in ToSet(queue) \cup ToSet(bus), n.dev = d
               PROVE  n.kind # "kickout" /\ n.stamp <= reports + 1
    BY <1>2 DEF Follows
  <2>1. n.kind # "kickout" /\ n.stamp <= stamp[d]
    BY <1>1, <1>3 DEF Coming
  <2>2. stamp[d] <= reports /\ stamp[d] \in Nat /\ n.stamp \in Nat
    BY <1>1, <1>3, MessageFields DEF OrderInv, Known, Held
  <2> QED BY <1>1, <2>1, <2>2
<1>5. /\ bus' \in Seq(Message) /\ Len(bus') <= MaxBus
      /\ Sorted(bus') /\ \A x \in ToSet(queue'), n \in ToSet(bus') : Follows(x, n)
      /\ ToSet(queue') \cup ToSet(bus') \subseteq ToSet(queue) \cup ToSet(bus) \cup {m}
      /\ ToSet(bus) \subseteq ToSet(bus')
      /\ Connected => m \in ToSet(bus')
  BY <1>1, <1>2, <1>4, SendSteps
<1>6. /\ stamp' \in [Devices -> 0..MaxReports] /\ stamp'[d] = reports + 1
      /\ \A x \in Devices \ {d} : stamp'[x] = stamp[x]
      /\ \A x \in Devices : stamp[x] \in Nat /\ stamp[x] <= stamp'[x]
  BY <1>1 DEF Held, OrderInv, Known
<1>7. Held'
  BY <1>1, <1>5, <1>6 DEF Held
<1>8. \A x \in Devices, f \in Fields : merged[x][f] \in Nat /\ shadow[x][f] \in Nat
  BY <1>1, EntryFacts DEF Held, Fields
<1>9. \A x \in Devices : Known(x)'
  BY <1>1, <1>6, <1>8 DEF OrderInv, Known
<1>10. \A n \in ToSet(queue) \cup ToSet(bus) : Coming(n)'
  BY <1>1, <1>3, <1>6, MessageFields DEF Coming
<1>11. Coming(m)'
  <2>1. \A f \in Fields : merged[d][f] <= reports + 1 /\ shadow[d][f] <= reports + 1
    BY <1>1, <1>6, <1>8 DEF OrderInv, Known
  <2> QED BY <1>1, <1>2, <1>6, <2>1 DEF Coming, Held
<1>12. OrderInv'
  BY <1>1, <1>5, <1>9, <1>10, <1>11 DEF OrderInv
<1>13. KeptInv'
  <2> SUFFICES ASSUME NEW x \in Devices, x \notin lost', x \notin kicked, stamp'[x] > 0
               PROVE  Kept(x)'
    BY <1>1 DEF KeptInv
  <2>1. CASE x = d
    BY <1>1, <1>2, <1>5, <1>6, <2>1 DEF Kept
  <2>2. CASE x # d
    BY <1>1, <1>5, <1>6, <2>2 DEF KeptInv, Kept
  <2> QED BY <2>1, <2>2
<1> QED BY <1>7, <1>12, <1>13 DEF ReportInv

LEMMA KickOutStep ==
    ASSUME ReportInv, NEW d \in Devices, KickOut(d)
    PROVE  ReportInv'
<1> USE BridgeAssumption
<1> DEFINE m == [kind |-> "kickout", dev |-> d, stamp |-> 0]
<1>1. /\ Held /\ OrderInv /\ KeptInv /\ d \notin kicked /\ Len(bus) < MaxBus
      /\ kicked' = kicked \cup {d}
      /\ bus' = IF Connected THEN Append(bus, m) ELSE bus
      /\ lost' = IF Connected THEN lost ELSE lost \cup {d}
      /\ UNCHANGED <<queue, pages, merged, shadow, stamp, reports, buried>>
  BY DEF ReportInv, KickOut, mergeVars
<1>2. m \in Message /\ m.kind = "kickout" /\ m.dev = d
  BY DEF Message
<1> HIDE DEF m
<1>3. \A n \in ToSet(queue) \cup ToSet(bus) : Coming(n) /\ Follows(n, m)
  BY <1>1, <1>2 DEF OrderInv, Coming, Follows
<1>4. /\ bus' \in Seq(Message) /\ Len(bus') <= MaxBus
      /\ Sorted(bus') /\ \A x \in ToSet(queue'), n \in ToSet(bus') : Follows(x, n)
      /\ ToSet(queue') \cup ToSet(bus') \subseteq ToSet(queue) \cup ToSet(bus) \cup {m}
      /\ ToSet(bus) \subseteq ToSet(bus')
  BY <1>1, <1>2, <1>3, SendSteps
<1>5. Held'
  BY <1>1, <1>4 DEF Held
<1>6. \A x \in Devices : Known(x)'
  BY <1>1 DEF OrderInv, Known
<1>7. \A n \in ToSet(queue) \cup ToSet(bus) \cup {m} : Coming(n)'
  BY <1>1, <1>2, <1>3 DEF Coming, Held
<1>8. OrderInv'
  BY <1>1, <1>4, <1>6, <1>7 DEF OrderInv
<1>9. KeptInv'
  BY <1>1, <1>4 DEF KeptInv, Kept
<1> QED BY <1>5, <1>8, <1>9 DEF ReportInv

(* The oldest message that the broker holds is queued, or finds the queue full. *)
LEMMA ReceiveStep ==
    ASSUME ReportInv, Receive
    PROVE  ReportInv'
<1> USE BridgeAssumption
<1> DEFINE m == Head(bus)
<1>1. /\ Held /\ OrderInv /\ KeptInv /\ bus # <<>> /\ bus' = Tail(bus)
      /\ queue' = IF Len(queue) < QueueSize THEN Append(queue, m) ELSE queue
      /\ lost' = IF Len(queue) < QueueSize THEN lost ELSE lost \cup {m.dev}
      /\ UNCHANGED <<pages, merged, shadow, stamp, reports, kicked, buried>>
  BY DEF ReportInv, Receive, mergeVars
<1>2. /\ bus' \in Seq(Message) /\ Len(bus) \in Nat /\ Len(bus') = Len(bus) - 1
      /\ m \in Message /\ ToSet(bus) = {m} \cup ToSet(bus')
      /\ Sorted(bus') /\ \A n \in ToSet(bus') : Follows(m, n)
  BY <1>1, TailFacts, TailSorted DEF Held, OrderInv
<1> HIDE DEF m
<1>3. /\ queue' \in Seq(Message) /\ Len(queue') <= QueueSize /\ Sorted(queue')
      /\ ToSet(queue) \subseteq ToSet(queue')
      /\ ToSet(queue') \subseteq ToSet(queue) \cup {m}
      /\ Len(queue) < QueueSize => m \in ToSet(queue')
  <2>1. CASE Len(queue) < QueueSize
    <3>1. /\ queue' \in Seq(Message) /\ Len(queue) \in Nat /\ Len(queue') = Len(queue) + 1
          /\ ToSet(queue') = ToSet(queue) \cup {m}
      BY <1>1, <1>2, <2>1, AppendFacts DEF Held
    <3>2. Sorted(queue')
      BY <1>1, <1>2, <2>1, AppendSorted DEF Held, OrderInv
    <3> QED BY <2>1, <3>1, <3>2
  <2>2. CASE ~(Len(queue) < QueueSize)
    BY <1>1, <2>2 DEF Held, OrderInv
  <2> QED BY <2>1, <2>2
<1>4. Held'
  BY <1>1, <1>2, <1>3 DEF Held
<1>5. \A n \in ToSet(queue) \cup ToSet(bus) : Coming(n)'
  BY <1>1 DEF OrderInv, Coming
<1>6. \A d \in Devices : Known(d)'
  BY <1>1 DEF OrderInv, Known
<1>7. OrderInv'
  BY <1>1, <1>2, <1>3, <1>5, <1>6 DEF OrderInv
<1>8. KeptInv'
  <2> SUFFICES ASSUME NEW d \in Devices, d \notin lost', d \notin kicked, stamp[d] > 0
               PROVE  Kept(d)'
    BY <1>1 DEF KeptInv
  <2>1. Kept(d) /\ (Len(queue) < QueueSize \/ m.dev # d)
    BY <1>1 DEF KeptInv
  <2> QED BY <1>1, <1>2, <1>3, <2>1 DEF Kept
<1> QED BY <1>4, <1>7, <1>8 DEF ReportInv

(* What the head of the queue takes with it. *)
LEMMA HeadFacts ==
    ASSUME Held, OrderInv, queue # <<>>, queue' = Tail(queue), bus' = bus
    PROVE  /\ queue' \in Seq(Message) /\ Len(queue') <= QueueSize
           /\ Head(queue) \in Message /\ Coming(Head(queue))
           /\ ToSet(queue) = {Head(queue)} \cup ToSet(queue')
           /\ Sorted(queue') /\ Sorted(bus')
           /\ \A x \in ToSet(queue'), n \in ToSet(bus') : Follows(x, n)
           /\ \A n \in ToSet(queue') \cup ToSet(bus') :
                 n \in Message /\ Coming(n) /\ Follows(Head(queue), n)
<1> USE BridgeAssumption
<1>1. /\ queue' \in Seq(Message) /\ Len(queue) \in Nat /\ Len(queue') = Len(queue) - 1
      /\ Head(queue) \in Message /\ ToSet(queue) = {Head(queue)} \cup ToSet(queue')
      /\ Sorted(queue') /\ \A n \in ToSet(queue') : Follows(Head(queue), n)
  BY TailFacts, TailSorted DEF Held, OrderInv
<1>2. ToSet(queue') \subseteq Message /\ ToSet(bus) \subseteq Message
  BY <1>1, ElementsAreMessages DEF Held
<1>3. Len(queue') <= QueueSize
  BY <1>1 DEF Held
<1>4. /\ Coming(Head(queue)) /\ \A n \in ToSet(queue') \cup ToSet(bus) : Coming(n)
      /\ Sorted(bus) /\ \A x \in ToSet(queue'), n \in ToSet(bus) : Follows(x, n)
      /\ \A n \in ToSet(bus) : Follows(Head(queue), n)
  BY <1>1 DEF OrderInv
<1> QED BY <1>1, <1>2, <1>3, <1>4

LEMMA PagesWithFacts ==
    ASSUME NEW p \in Pages, pages \in Seq(Pages), IsInjective(pages)
    PROVE  PagesWith(p) \in Seq(Pages) /\ IsInjective(PagesWith(p))
<1>1. CASE p \in ToSet(pages)
  BY <1>1 DEF PagesWith
<1>2. CASE p \notin ToSet(pages)
  <2>1. /\ Append(pages, p) \in Seq(Pages) /\ Len(pages) \in Nat
        /\ Len(Append(pages, p)) = Len(pages) + 1
        /\ \A i \in 1..Len(pages) : Append(pages, p)[i] = pages[i]
        /\ Append(pages, p)[Len(pages) + 1] = p
    BY AppendFacts
  <2>2. \A i \in 1..Len(pages) : pages[i] # p
    BY <1>2 DEF ToSet
  <2>3. ASSUME NEW i \in 1..(Len(pages) + 1), NEW j \in 1..(Len(pages) + 1),
               Append(pages, p)[i] = Append(pages, p)[j]
        PROVE  i = j
    <3>1. CASE i \in 1..Len(pages) /\ j \in 1..Len(pages)
      BY <2>1, <2>3, <3>1 DEF IsInjective
    <3>2. CASE i = Len(pages) + 1 \/ j = Len(pages) + 1
      BY <2>1, <2>2, <2>3, <3>2
    <3> QED BY <2>1, <3>1, <3>2
  <2>4. IsInjective(Append(pages, p))
    BY <2>1, <2>3 DEF IsInjective
  <2> QED BY <1>2, <2>1, <2>4 DEF PagesWith
<1> QED BY <1>1, <1>2

LEMMA MergeStep ==
    ASSUME ReportInv, MergeReport
    PROVE  ReportInv'
<1> USE BridgeAssumption, PagesAssumption
<1>1. PICK m : m = Head(queue)
  OBVIOUS
<1>2. /\ Held /\ OrderInv /\ KeptInv /\ queue # <<>> /\ m.kind # "kickout"
      /\ queue' = Tail(queue) /\ pages' = PagesWith(PageOf[m.dev])
      /\ merged' = [merged EXCEPT ![m.dev] = Updated(@, m)]
      /\ UNCHANGED <<bus, shadow, stamp, reports, kicked, buried, lost>>
  BY <1>1 DEF ReportInv, MergeReport
<1>3. /\ queue' \in Seq(Message) /\ Len(queue') <= QueueSize
      /\ m \in Message /\ Coming(m) /\ ToSet(queue) = {m} \cup ToSet(queue')
      /\ Sorted(queue') /\ Sorted(bus')
      /\ \A x \in ToSet(queue'), n \in ToSet(bus') : Follows(x, n)
      /\ \A n \in ToSet(queue') \cup ToSet(bus') : n \in Message /\ Coming(n) /\ Follows(m, n)
  BY <1>1, <1>2, HeadFacts
<1>4. PICK d \in Devices : d = m.dev
  BY <1>3, MessageFields
<1>5. /\ merged' \in [Devices -> Entry] /\ merged'[d].state = m.stamp
      /\ merged'[d].dp \in {merged[d].dp, m.stamp}
      /\ \A x \in Devices \ {d} : merged'[x] = merged[x]
  BY <1>2, <1>3, <1>4, UpdatedFacts DEF Held
<1>6. Held'
  BY <1>2, <1>3, <1>4, <1>5, PagesWithFacts DEF Held
<1>7. /\ \A x \in Devices, f \in Fields : merged[x][f] \in Nat /\ shadow[x][f] \in Nat
      /\ m.stamp \in Nat /\ m.stamp > 0 /\ m.stamp <= stamp[d] /\ d \notin buried
      /\ stamp[d] \in Nat
      /\ \A f \in Fields : merged[d][f] <= m.stamp /\ shadow[d][f] <= m.stamp
      /\ \A f \in Fields : merged'[d][f] \in {merged[d][f], m.stamp}
  BY <1>2, <1>3, <1>4, <1>5, EntryFacts, MessageFields DEF Held, Fields, Coming
<1>8. ASSUME NEW x \in Devices PROVE Known(x)'
  <2>1. CASE x = d
    BY <1>2, <1>5, <1>7, <2>1 DEF OrderInv, Known, Fields
  <2>2. CASE x # d
    BY <1>2, <1>5, <2>2 DEF OrderInv, Known
  <2> QED BY <2>1, <2>2
<1>9. ASSUME NEW n \in ToSet(queue') \cup ToSet(bus') PROVE Coming(n)'
  <2>1. n \in Message /\ Coming(n) /\ Follows(m, n) /\ n.dev \in Devices /\ n.stamp \in Nat
    BY <1>3, MessageFields
  <2>2. CASE n.dev = d
    BY <1>2, <1>4, <1>7, <2>1, <2>2 DEF Coming, Follows
  <2>3. CASE n.dev # d
    BY <1>2, <1>5, <2>1, <2>3 DEF Coming
  <2> QED BY <2>2, <2>3
<1>10. OrderInv'
  BY <1>3, <1>8, <1>9 DEF OrderInv
<1>11. KeptInv'
  <2> SUFFICES ASSUME NEW x \in Devices, x \notin lost, x \notin kicked, stamp[x] > 0
               PROVE  Kept(x)'
    BY <1>2 DEF KeptInv
  <2>1. Kept(x)
    BY <1>2 DEF KeptInv
  <2>2. CASE x # d
    BY <1>2, <1>3, <1>4, <1>5, <2>1, <2>2 DEF Kept
  <2>3. CASE x = d /\ \E n \in ToSet(queue') \cup ToSet(bus') : n.dev = d /\ n.stamp = stamp[d]
    BY <1>2, <2>3 DEF Kept
  <2>4. CASE x = d /\ ~\E n \in ToSet(queue') \cup ToSet(bus') : n.dev = d /\ n.stamp = stamp[d]
    <3>1. \/ m.stamp = stamp[d] \/ merged[d].state = stamp[d] \/ shadow[d].state = stamp[d]
      BY <1>2, <1>3, <2>1, <2>4 DEF Kept
    <3>2. m.stamp = stamp[d]
      BY <1>7, <3>1 DEF Fields
    <3> QED BY <1>2, <1>5, <2>4, <3>2 DEF Kept
  <2> QED BY <2>2, <2>3, <2>4
<1> QED BY <1>6, <1>10, <1>11 DEF ReportInv

LEMMA PublishKickOutStep ==
    ASSUME ReportInv, PublishKickOut
    PROVE  ReportInv'
<1> USE BridgeAssumption
<1>1. PICK m : m = Head(queue)
  OBVIOUS
<1>2. /\ Held /\ OrderInv /\ KeptInv /\ queue # <<>> /\ m.kind = "kickout"
      /\ queue' = Tail(queue)
      /\ shadow' = IF session = "up" THEN [shadow EXCEPT ![m.dev] = Absent] ELSE shadow
      /\ buried' = IF session = "up" /\ merged[m.dev] = Absent THEN buried \cup {m.dev} ELSE buried
      /\ lost' = IF session = "up" THEN lost ELSE lost \cup {m.dev}
      /\ UNCHANGED <<bus, pages, merged, stamp, reports, kicked>>
  BY <1>1 DEF ReportInv, PublishKickOut, Publish, Deleted, mergeVars
<1>3. /\ queue' \in Seq(Message) /\ Len(queue') <= QueueSize
      /\ m \in Message /\ Coming(m) /\ ToSet(queue) = {m} \cup ToSet(queue')
      /\ Sorted(queue') /\ Sorted(bus')
      /\ \A x \in ToSet(queue'), n \in ToSet(bus') : Follows(x, n)
      /\ \A n \in ToSet(queue') \cup ToSet(bus') : n \in Message /\ Coming(n) /\ Follows(m, n)
  BY <1>1, <1>2, HeadFacts
<1>4. PICK d \in Devices : d = m.dev
  BY <1>3, MessageFields
<1>5. d \in kicked /\ \A n \in ToSet(queue') \cup ToSet(bus') : n.dev # d
  BY <1>2, <1>3, <1>4 DEF Coming, Follows
<1>6. /\ shadow' \in [Devices -> Entry] /\ shadow'[d] \in {Absent, shadow[d]}
      /\ d \in buried' \ buried => shadow'[d] = Absent /\ merged[d] = Absent
      /\ buried' \subseteq buried \cup {d}
      /\ \A x \in Devices \ {d} : shadow'[x] = shadow[x]
  BY <1>2, <1>4, EntryFacts DEF Held
<1>7. Held'
  BY <1>2, <1>3, <1>4, <1>5, <1>6 DEF Held
<1>8. /\ \A x \in Devices, f \in Fields : merged[x][f] \in Nat /\ shadow[x][f] \in Nat
      /\ \A f \in Fields : Absent[f] = 0
      /\ \A x \in Devices : stamp[x] \in Nat
  BY <1>2, EntryFacts DEF Held, Fields
<1>9. ASSUME NEW x \in Devices PROVE Known(x)'
  <2>1. CASE x = d
    <3>1. CASE shadow'[d] = shadow[d]
      BY <1>2, <1>6, <2>1, <3>1 DEF OrderInv, Known
    <3>2. CASE shadow'[d] = Absent
      BY <1>2, <1>6, <1>8, <2>1, <3>2 DEF OrderInv, Known
    <3> QED BY <1>6, <3>1, <3>2
  <2>2. CASE x # d
    BY <1>2, <1>6, <2>2 DEF OrderInv, Known
  <2> QED BY <2>1, <2>2
<1>10. ASSUME NEW n \in ToSet(queue') \cup ToSet(bus') PROVE Coming(n)'
  <2>1. n.dev \in Devices /\ n.dev # d /\ Coming(n)
    BY <1>3, <1>5, MessageFields
  <2> QED BY <1>2, <1>6, <2>1 DEF Coming
<1>11. OrderInv'
  BY <1>3, <1>9, <1>10 DEF OrderInv
<1>12. KeptInv'
  BY <1>2, <1>3, <1>4, <1>5, <1>6 DEF KeptInv, Kept
<1> QED BY <1>7, <1>11, <1>12 DEF ReportInv

(* A page that is published, or lost. *)
LEMMA PublishPage ==
    ASSUME ReportInv, Tick, pages # <<>>
    PROVE  /\ pages' = Tail(pages)
           /\ shadow' = IF session = "up"
                        THEN [d \in Devices |-> IF d \in On(Head(pages))
                                                THEN Overlay(shadow[d], merged[d]) ELSE shadow[d]]
                        ELSE shadow
           /\ merged' = [d \in Devices |-> IF d \in On(Head(pages)) THEN Absent ELSE merged[d]]
           /\ lost' = IF session = "up" THEN lost ELSE lost \cup Fresh(Head(pages))
           /\ UNCHANGED <<bus, queue, stamp, reports, kicked, buried>>
BY DEF Tick, Publish

LEMMA TickStep ==
    ASSUME ReportInv, Tick
    PROVE  /\ ReportInv'
           /\ \A d \in Devices, f \in Fields : shadow'[d][f] >= shadow[d][f]
<1> USE BridgeAssumption
<1>1. Held /\ OrderInv /\ KeptInv
  BY DEF ReportInv
<1>2. /\ \A x \in Devices, f \in Fields : merged[x][f] \in Nat /\ shadow[x][f] \in Nat
      /\ \A f \in Fields : Absent[f] = 0
      /\ \A x \in Devices : stamp[x] \in Nat
  BY <1>1, EntryFacts DEF Held, Fields
<1>3. CASE pages = <<>>
  <2>1. UNCHANGED <<bus, queue, pages, merged, shadow, stamp, reports, kicked, buried, lost>>
    BY <1>3 DEF Tick, mergeVars
  <2>2. Held' /\ KeptInv'
    BY <1>1, <2>1 DEF Held, KeptInv, Kept
  <2>3. OrderInv'
    BY <1>1, <2>1 DEF OrderInv, Coming, Known
  <2> QED BY <1>2, <2>1, <2>2, <2>3 DEF ReportInv
<1>4. CASE pages # <<>>
  <2>1. /\ pages' = Tail(pages)
        /\ shadow' = IF session = "up"
                     THEN [d \in Devices |-> IF d \in On(Head(pages))
                                             THEN Overlay(shadow[d], merged[d]) ELSE shadow[d]]
                     ELSE shadow
        /\ merged' = [d \in Devices |-> IF d \in On(Head(pages)) THEN Absent ELSE merged[d]]
        /\ lost' = IF session = "up" THEN lost ELSE lost \cup Fresh(Head(pages))
        /\ UNCHANGED <<bus, queue, stamp, reports, kicked, buried>>
    BY <1>4, PublishPage
  <2>2. pages' \in Seq(Pages) /\ IsInjective(pages')
    <3>1. /\ pages' \in Seq(Pages) /\ Len(pages') = Len(pages) - 1 /\ Len(pages) \in Nat
          /\ \A i \in 1..Len(pages') : pages'[i] = pages[i + 1] /\ i + 1 \in 1..Len(pages)
      BY <1>1, <1>4, <2>1, TailFacts DEF Held
    <3>2. DOMAIN pages = 1..Len(pages) /\ DOMAIN pages' = 1..Len(pages')
      BY <1>1, <3>1 DEF Held
    <3>3. ASSUME NEW i \in 1..Len(pages'), NEW j \in 1..Len(pages'), pages'[i] = pages'[j]
          PROVE  i = j
      <4>1. i + 1 = j + 1
        BY <1>1, <3>1, <3>2, <3>3 DEF Held, IsInjective
      <4> QED BY <3>1, <4>1
    <3>4. IsInjective(pages')
      BY <3>2, <3>3 DEF IsInjective
    <3> QED BY <3>1, <3>4
  <2>3. ASSUME NEW d \in Devices
        PROVE  /\ merged'[d] \in {Absent, merged[d]}
               /\ shadow'[d] \in Entry /\ merged'[d] \in Entry
               /\ \A f \in Fields : /\ shadow'[d][f] \in {shadow[d][f], merged[d][f]}
                                    /\ merged[d][f] = 0 => shadow'[d][f] = shadow[d][f]
               /\ merged[d] = Absent => shadow'[d] = shadow[d]
               /\ merged'[d] = merged[d] => shadow'[d] = shadow[d] \/ merged[d] = Absent
               /\ merged'[d] # merged[d] /\ merged[d].state # 0 /\ d \notin lost'
                     => shadow'[d].state = merged[d].state
    <3>1. shadow[d] \in Entry /\ merged[d] \in Entry
      BY <1>1 DEF Held
    <3>2. CASE d \notin On(Head(pages))
      BY <2>1, <3>1, <3>2
    <3>3. CASE d \in On(Head(pages)) /\ session # "up"
      <4>1. merged'[d] = Absent /\ shadow'[d] = shadow[d]
        BY <2>1, <3>3
      <4>2. merged[d] # Absent => d \in lost'
        BY <2>1, <3>3 DEF Fresh
      <4> QED BY <3>1, <4>1, <4>2, EntryFacts
    <3>4. CASE d \in On(Head(pages)) /\ session = "up"
      <4>1. merged'[d] = Absent /\ shadow'[d] = Overlay(shadow[d], merged[d])
        BY <2>1, <3>4
      <4> QED BY <3>1, <4>1, EntryFacts DEF Fields
    <3> QED BY <3>2, <3>3, <3>4
  <2>4. Held'
    BY <1>1, <2>1, <2>2, <2>3 DEF Held
  <2>5. ASSUME NEW d \in Devices PROVE Known(d)'
    BY <1>1, <1>2, <2>1, <2>3, EntryFacts DEF OrderInv, Known
  <2>6. ASSUME NEW n \in ToSet(queue) \cup ToSet(bus) PROVE Coming(n)'
    <3>1. n \in Message /\ Coming(n) /\ n.dev \in Devices /\ n.stamp \in Nat
      BY <1>1, ElementsAreMessages, MessageFields DEF Held, OrderInv
    <3> QED BY <1>2, <2>1, <2>3, <3>1 DEF Coming
  <2>7. OrderInv'
    BY <1>1, <2>1, <2>5, <2>6 DEF OrderInv
  <2>8. KeptInv'
    <3> SUFFICES ASSUME NEW d \in Devices, d \notin lost', d \notin kicked, stamp[d] > 0
                 PROVE  Kept(d)'
      BY <2>1 DEF KeptInv
    <3>1. Kept(d)
      BY <1>1, <2>1 DEF KeptInv
    <3>2. CASE \E m \in ToSet(queue) \cup ToSet(bus) : m.dev = d /\ m.stamp = stamp[d]
      BY <2>1, <3>2 DEF Kept
    <3>3. CASE merged[d].state = stamp[d]
      BY <1>2, <2>1, <2>3, <3>3 DEF Kept
    <3>4. CASE merged[d] = Absent /\ shadow[d].state = stamp[d]
      BY <2>1, <2>3, <3>4 DEF Kept
    <3> QED BY <3>1, <3>2, <3>3, <3>4 DEF Kept
  <2>9. \A d \in Devices, f \in Fields : shadow'[d][f] >= shadow[d][f]
    BY <1>1, <1>2, <2>3 DEF OrderInv, Known
  <2> QED BY <2>4, <2>7, <2>8, <2>9 DEF ReportInv
<1> QED BY <1>3, <1>4

(* What the broker held is lost with the connection. *)
LEMMA LocalTroubleStep ==
    ASSUME ReportInv, LocalTrouble
    PROVE  ReportInv'
<1> USE BridgeAssumption
<1>1. /\ Held /\ OrderInv /\ KeptInv
      /\ bus' = IF link' THEN bus ELSE <<>>
      /\ lost' = IF link' THEN lost ELSE lost \cup DevicesOf(bus)
      /\ UNCHANGED <<queue, pages, merged, shadow, stamp, reports, kicked, buried>>
  BY DEF ReportInv, LocalTrouble, mergeVars
<1>2. CASE link'
  <2>1. bus' = bus /\ lost' = lost
    BY <1>1, <1>2
  <2>2. Held' /\ KeptInv'
    BY <1>1, <2>1 DEF Held, KeptInv, Kept
  <2>3. OrderInv'
    BY <1>1, <2>1 DEF OrderInv, Coming, Known
  <2> QED BY <2>2, <2>3 DEF ReportInv
<1>3. CASE ~link'
  <2>1. bus' = <<>> /\ lost' = lost \cup DevicesOf(bus) /\ ToSet(bus') = {} /\ Len(bus') = 0
    BY <1>1, <1>3, EmptyFacts
  <2>2. Held'
    BY <1>1, <2>1 DEF Held
  <2>3. Sorted(bus')
    BY <2>1 DEF Sorted
  <2>4. /\ \A d \in Devices : Known(d)'
        /\ \A m \in ToSet(queue) : Coming(m)'
    BY <1>1 DEF OrderInv, Coming, Known
  <2>5. OrderInv'
    BY <1>1, <2>1, <2>3, <2>4 DEF OrderInv
  <2>6. \A m \in ToSet(bus) : m.dev \in DevicesOf(bus)
    BY DEF ToSet, DevicesOf
  <2>7. KeptInv'
    BY <1>1, <2>1, <2>6 DEF KeptInv, Kept
  <2> QED BY <2>2, <2>5, <2>7 DEF ReportInv
<1> QED BY <1>2, <1>3

(* All that AWS held is lost when it starts again. *)
LEMMA RestartStep ==
    ASSUME ReportInv, Restart
    PROVE  ReportInv'
<1> USE BridgeAssumption
<1>1. /\ Held /\ OrderInv /\ KeptInv
      /\ bus' = <<>> /\ queue' = <<>> /\ pages' = <<>>
      /\ merged' = [d \in Devices |-> Absent]
      /\ lost' = lost \cup DevicesOf(bus) \cup DevicesOf(queue) \cup ToSet(requests)
                      \cup {d \in Devices : merged[d] # Absent}
      /\ UNCHANGED <<shadow, stamp, reports, kicked, buried>>
  BY DEF ReportInv, Restart
<1>2. ToSet(bus') = {} /\ ToSet(queue') = {} /\ Len(bus') = 0 /\ Len(queue') = 0
  BY <1>1, EmptyFacts
<1>3. /\ \A x \in Devices, f \in Fields : merged'[x][f] = 0 /\ shadow[x][f] \in Nat
      /\ \A x \in Devices : stamp[x] \in Nat /\ merged'[x] = Absent
  BY <1>1, EntryFacts DEF Held, Fields
<1>4. Held'
  BY <1>1, <1>2, EntryFacts DEF Held, IsInjective
<1>5. Sorted(bus') /\ Sorted(queue')
  BY <1>2 DEF Sorted
<1>6. \A d \in Devices : Known(d)'
  BY <1>1, <1>3 DEF OrderInv, Known
<1>7. OrderInv'
  BY <1>2, <1>5, <1>6 DEF OrderInv
<1>8. \A m \in ToSet(queue) \cup ToSet(bus) : m.dev \in DevicesOf(bus) \cup DevicesOf(queue)
  BY DEF ToSet, DevicesOf
<1>9. KeptInv'
  <2> SUFFICES ASSUME NEW d \in Devices, d \notin lost', d \notin kicked, stamp[d] > 0
               PROVE  Kept(d)'
    BY <1>1 DEF KeptInv
  <2>1. Kept(d) /\ merged[d] = Absent /\ merged'[d] = Absent
    BY <1>1 DEF KeptInv
  <2>2. shadow[d].state = stamp[d]
    BY <1>1, <1>3, <1>8, <2>1, EntryFacts DEF Kept
  <2> QED BY <1>1, <2>1, <2>2 DEF Kept
<1> QED BY <1>4, <1>7, <1>9 DEF ReportInv

(* The other steps leave the reports alone. *)
LEMMA NoReportStep ==
    ASSUME ReportInv, UNCHANGED reportVars, lost \subseteq lost'
    PROVE  ReportInv'
<1>1. /\ Held /\ OrderInv /\ KeptInv
      /\ UNCHANGED <<bus, queue, pages, merged, shadow, stamp, reports, kicked, buried>>
  BY DEF ReportInv, reportVars
<1>2. Held' /\ KeptInv'
  BY <1>1 DEF Held, KeptInv, Kept
<1>3. OrderInv'
  BY <1>1 DEF OrderInv, Coming, Known
<1> QED BY <1>2, <1>3 DEF ReportInv
-----------------------------------------------------------------------------
(* Requests *)

Rising(s) == \A i, j \in 1..Len(s) : i < j => s[i] < s[j]

(* The requests are sent to CORE in the order in which they came, and none
   is forgotten.                                                          *)
AskInv ==
    /\ Asked
    /\ Rising(requests) /\ Rising(forwarded)
    /\ \A r \in ToSet(requests) \cup ToSet(forwarded) : r <= asks
    /\ \A x \in ToSet(forwarded), y \in ToSet(requests) : x < y
    /\ \A r \in 1..asks : r \in lost \cup ToSet(forwarded) \cup ToSet(requests)

LEMMA AppendRising ==
    ASSUME NEW s \in Seq(1..MaxRequests), NEW e \in 1..MaxRequests, Rising(s),
           \A n \in ToSet(s) : n < e
    PROVE  Rising(Append(s, e))
<1> USE BridgeAssumption
<1>1. /\ Len(s) \in Nat /\ Len(Append(s, e)) = Len(s) + 1
      /\ \A i \in 1..Len(s) : Append(s, e)[i] = s[i]
      /\ Append(s, e)[Len(s) + 1] = e
  BY AppendFacts
<1>2. \A i \in 1..Len(s) : s[i] \in ToSet(s)
  BY DEF ToSet
<1> SUFFICES ASSUME NEW i \in 1..(Len(s) + 1), NEW j \in 1..(Len(s) + 1), i < j
             PROVE  Append(s, e)[i] < Append(s, e)[j]
  BY <1>1 DEF Rising
<1>3. i \in 1..Len(s)
  BY <1>1
<1>4. CASE j = Len(s) + 1
  BY <1>1, <1>2, <1>3, <1>4
<1>5. CASE j \in 1..Len(s)
  BY <1>1, <1>3, <1>5 DEF Rising
<1> QED BY <1>1, <1>4, <1>5

LEMMA TailRising ==
    ASSUME NEW s \in Seq(1..MaxRequests), s # <<>>, Rising(s)
    PROVE  Rising(Tail(s)) /\ \A n \in ToSet(Tail(s)) : Head(s) < n
<1>1. /\ Tail(s) \in Seq(1..MaxRequests) /\ Len(s) \in Nat /\ Len(Tail(s)) = Len(s) - 1
      /\ Head(s) = s[1]
      /\ \A i \in 1..Len(Tail(s)) : Tail(s)[i] = s[i + 1] /\ i + 1 \in 1..Len(s)
  BY TailFacts
<1>2. Rising(Tail(s))
  BY <1>1 DEF Rising
<1>3. ASSUME NEW i \in 1..Len(Tail(s)) PROVE Head(s) < Tail(s)[i]
  <2>1. 1 \in 1..Len(s) /\ i + 1 \in 1..Len(s) /\ 1 < i + 1
    BY <1>1
  <2> QED BY <1>1, <2>1 DEF Rising
<1>4. \A n \in ToSet(Tail(s)) : \E i \in 1..Len(Tail(s)) : n = Tail(s)[i]
  BY <1>1 DEF ToSet
<1> QED BY <1>2, <1>3, <1>4

LEMMA InitAskInv == Init => AskInv
<1> SUFFICES ASSUME Init PROVE AskInv
  OBVIOUS
<1> USE BridgeAssumption
<1>1. requests = <<>> /\ forwarded = <<>> /\ asks = 0 /\ ToSet(requests) = {} /\ ToSet(forwarded) = {}
  BY EmptyFacts DEF Init
<1> QED BY <1>1 DEF AskInv, Asked, Rising

LEMMA AskStep ==
    ASSUME AskInv, Ask
    PROVE  AskInv'
<1> USE BridgeAssumption
<1>1. PICK r : r = asks + 1
  OBVIOUS
<1>2. /\ Asked /\ asks' = r /\ r \in 1..MaxRequests /\ asks \in Nat /\ forwarded' = forwarded
      /\ requests' = IF Len(requests) < QueueSize THEN Append(requests, r) ELSE requests
      /\ lost' = IF Len(requests) < QueueSize THEN lost ELSE lost \cup {r}
  BY <1>1 DEF AskInv, Asked, Ask
<1>3. \A x \in ToSet(requests) \cup ToSet(forwarded) : x \in 1..MaxRequests /\ x < r
  <2>1. ToSet(requests) \cup ToSet(forwarded) \subseteq 1..MaxRequests
    BY <1>2 DEF Asked, ToSet
  <2> QED BY <1>1, <1>2, <2>1 DEF AskInv
<1>4. \A x \in 1..asks' : x \in 1..asks \/ x = r
  BY <1>1, <1>2
<1>5. CASE Len(requests) < QueueSize
  <2>1. /\ requests' \in Seq(1..MaxRequests) /\ Len(requests) \in Nat
        /\ Len(requests') = Len(requests) + 1 /\ ToSet(requests') = ToSet(requests) \cup {r}
    BY <1>2, <1>5, AppendFacts DEF Asked
  <2>2. Rising(requests')
    BY <1>2, <1>3, <1>5, AppendRising DEF AskInv, Asked
  <2>3. Asked'
    BY <1>2, <1>5, <2>1 DEF Asked
  <2>4. \A x \in ToSet(requests') \cup ToSet(forwarded') : x <= asks'
    BY <1>2, <1>3, <2>1
  <2>5. \A x \in ToSet(forwarded'), y \in ToSet(requests') : x < y
    BY <1>2, <1>3, <2>1 DEF AskInv
  <2>6. \A x \in 1..asks' : x \in lost' \cup ToSet(forwarded') \cup ToSet(requests')
    BY <1>2, <1>4, <1>5, <2>1 DEF AskInv
  <2> QED BY <1>2, <2>2, <2>3, <2>4, <2>5, <2>6 DEF AskInv
<1>6. CASE ~(Len(requests) < QueueSize)
  <2>1. Asked'
    BY <1>2, <1>6 DEF Asked
  <2> QED BY <1>2, <1>3, <1>4, <1>6, <2>1 DEF AskInv
<1> QED BY <1>5, <1>6

LEMMA ForwardStep ==
    ASSUME AskInv, Forward
    PROVE  AskInv'
<1> USE BridgeAssumption
<1>1. PICK r : r = Head(requests)
  OBVIOUS
<1>2. /\ Asked /\ requests # <<>> /\ requests' = Tail(requests) /\ asks' = asks
      /\ forwarded' = IF Connected THEN Append(forwarded, r) ELSE forwarded
      /\ lost' = IF Connected THEN lost ELSE lost \cup {r}
  BY <1>1 DEF AskInv, Forward
<1>3. /\ requests' \in Seq(1..MaxRequests) /\ Len(requests) \in Nat
      /\ Len(requests') = Len(requests) - 1
      /\ r \in 1..MaxRequests /\ ToSet(requests) = {r} \cup ToSet(requests')
      /\ Rising(requests') /\ \A n \in ToSet(requests') : r < n
  BY <1>1, <1>2, TailFacts, TailRising DEF AskInv, Asked
<1>4. Len(requests') <= QueueSize
  BY <1>2, <1>3 DEF Asked
<1>5. CASE Connected
  <2>1. forwarded' \in Seq(1..MaxRequests) /\ ToSet(forwarded') = ToSet(forwarded) \cup {r}
    <3>1. forwarded' = Append(forwarded, r) /\ forwarded \in Seq(1..MaxRequests)
      BY <1>2, <1>5 DEF Asked
    <3>2. r \in 1..MaxRequests
      BY <1>3
    <3>3. /\ Append(forwarded, r) \in Seq(1..MaxRequests)
          /\ ToSet(Append(forwarded, r)) = ToSet(forwarded) \cup {r}
      BY <3>1, <3>2, AppendFacts
    <3> QED BY <3>1, <3>3
  <2>2. Rising(forwarded')
    BY <1>2, <1>3, <1>5, AppendRising DEF AskInv, Asked
  <2>3. Asked'
    BY <1>2, <1>3, <1>4, <2>1 DEF Asked
  <2> QED BY <1>2, <1>3, <1>5, <2>1, <2>2, <2>3 DEF AskInv
<1>6. CASE ~Connected
  <2>1. Asked'
    BY <1>2, <1>3, <1>4, <1>6 DEF Asked
  <2> QED BY <1>2, <1>3, <1>6, <2>1 DEF AskInv
<1> QED BY <1>5, <1>6

LEMMA NoAskStep ==
    ASSUME AskInv, asks' = asks, forwarded' = forwarded, lost \subseteq lost',
           \/ requests' = requests
           \/ requests' = <<>> /\ ToSet(requests) \subseteq lost'
    PROVE  AskInv'
<1> USE BridgeAssumption
<1>1. CASE requests' = requests
  BY <1>1 DEF AskInv, Asked
<1>2. CASE requests' = <<>> /\ ToSet(requests) \subseteq lost'
  <2>1. ToSet(requests') = {} /\ Len(requests') = 0
    BY <1>2, EmptyFacts
  <2>2. Rising(requests')
    BY <2>1 DEF Rising
  <2> QED BY <1>2, <2>1, <2>2 DEF AskInv, Asked
<1> QED BY <1>1, <1>2

-----------------------------------------------------------------------------
(* The bridge *)

BridgeInv == DogInv /\ ReportInv /\ AskInv /\ Session /\ Losses

LEMMA BridgeInitInv == Init => BridgeInv
<1> SUFFICES ASSUME Init PROVE BridgeInv
  OBVIOUS
<1>1. Session
  <2>1. drops \in 0..MaxDrops
    BY BridgeAssumption DEF Init
  <2> QED BY <2>1 DEF Init, Session
<1>2. Losses
  BY DEF Init, Losses
<1> QED BY <1>1, <1>2, DogInitInv, InitReportInv, InitAskInv DEF BridgeInv, Init

(* Each step keeps what is known of the session and of what is lost. *)
LEMMA SessionLosses ==
    ASSUME BridgeInv, Next
    PROVE  Session' /\ Losses' /\ lost \subseteq lost'
<1> USE BridgeAssumption
<1>1. Session /\ Losses /\ Held /\ Asked
  BY DEF BridgeInv, ReportInv, AskInv
<1>2. /\ DevicesOf(bus) \subseteq Devices /\ DevicesOf(queue) \subseteq Devices
      /\ ToSet(requests) \subseteq 1..MaxRequests
  BY <1>1, MessageFields DEF Held, Asked, DevicesOf, ToSet
<1>3. CASE SessionStep
  BY <1>1, <1>3, SessionStepFacts DEF Losses
<1>4. CASE Core
  BY <1>1, <1>4 DEF Core, Report, KickOut, sessionVars, cfgVars, Session, Losses
<1>5. CASE Receive
  <2>1. Head(bus).dev \in Devices
    BY <1>1, <1>5, TailFacts, MessageFields DEF Receive, Held
  <2> QED BY <1>1, <1>5, <2>1 DEF Receive, sessionVars, cfgVars, Session, Losses
<1>6. CASE MergeReport
  BY <1>1, <1>6 DEF MergeReport, sessionVars, cfgVars, Session, Losses
<1>7. CASE PublishKickOut
  <2>1. Head(queue).dev \in Devices
    BY <1>1, <1>7, TailFacts, MessageFields DEF PublishKickOut, Held
  <2> QED BY <1>1, <1>7, <2>1 DEF PublishKickOut, Publish, cfgVars, Session, Losses
<1>8. CASE Tick
  <2>1. Fresh(Head(pages)) \subseteq Devices
    BY DEF Fresh, On
  <2>2. Session'
    BY <1>1, <1>8 DEF Tick, Publish, cfgVars, Session
  <2> QED BY <1>1, <1>8, <2>1, <2>2 DEF Tick, Losses
<1>9. CASE Forward
  <2>1. Head(requests) \in 1..MaxRequests
    BY <1>1, <1>9, TailFacts DEF Forward, Asked
  <2> QED BY <1>1, <1>9, <2>1 DEF Forward, sessionVars, cfgVars, Session, Losses
<1>10. CASE Ask
  BY <1>1, <1>10 DEF Ask, sessionVars, cfgVars, Session, Losses, Asked
<1>11. CASE LocalTrouble
  BY <1>1, <1>2, <1>11 DEF LocalTrouble, sessionVars, cfgVars, Session, Losses
<1>12. CASE Restart
  BY <1>1, <1>2, <1>12 DEF Restart, cfgVars, Session, Losses
<1> QED BY <1>3, <1>4, <1>5, <1>6, <1>7, <1>8, <1>9, <1>10, <1>11, <1>12 DEF Next, SessionStep

LEMMA BridgeNextInv == BridgeInv /\ [Next]_vars => BridgeInv'
<1> SUFFICES ASSUME BridgeInv, [Next]_vars PROVE BridgeInv'
  OBVIOUS
<1>1. DogInv'
  BY DogStep, DogNextInv DEF BridgeInv
<1>2. CASE UNCHANGED vars
  <2>1. /\ UNCHANGED reportVars
        /\ requests' = requests /\ asks' = asks /\ forwarded' = forwarded /\ lost' = lost
        /\ UNCHANGED <<sessionVars, cfgVars, drops>>
    BY <1>2 DEF vars, bridgeVars, reportVars, sessionVars, cfgVars
  <2>2. ReportInv'
    BY <2>1, NoReportStep DEF BridgeInv
  <2>3. AskInv'
    BY <2>1, NoAskStep DEF BridgeInv
  <2>4. Session' /\ Losses'
    BY <2>1 DEF BridgeInv, Session, Losses, sessionVars, cfgVars
  <2> QED BY <1>1, <2>2, <2>3, <2>4 DEF BridgeInv
<1>3. CASE Next
  <2>1. Session' /\ Losses' /\ lost \subseteq lost'
    BY <1>3, SessionLosses
  <2>2. ReportInv'
    <3> USE DEF BridgeInv
    <3>1. CASE SessionStep
      BY <3>1, SessionStepFacts, NoReportStep
    <3>2. CASE Core
      BY <3>2, ReportStep, KickOutStep DEF Core
    <3>3. CASE Receive \/ MergeReport \/ PublishKickOut
      BY <3>3, ReceiveStep, MergeStep, PublishKickOutStep
    <3>4. CASE Tick
      BY <3>4, TickStep
    <3>5. CASE Forward \/ Ask
      BY <2>1, <3>5, NoReportStep DEF Forward, Ask
    <3>6. CASE LocalTrouble \/ Restart
      BY <3>6, LocalTroubleStep, RestartStep
    <3> QED BY <1>3, <3>1, <3>2, <3>3, <3>4, <3>5, <3>6 DEF Next, SessionStep
  <2>3. AskInv'
    <3>1. CASE Ask \/ Forward
      BY <3>1, AskStep, ForwardStep DEF BridgeInv
    <3>2. CASE Restart
      <4>1. /\ UNCHANGED <<asks, forwarded>> /\ requests' = <<>>
            /\ ToSet(requests) \subseteq lost'
        BY <3>2 DEF Restart
      <4> QED BY <2>1, <4>1, NoAskStep DEF BridgeInv
    <3>3. CASE Core \/ Receive \/ MergeReport \/ PublishKickOut \/ Tick \/ LocalTrouble
      <4>1. requests' = requests /\ asks' = asks /\ forwarded' = forwarded
        BY <3>3 DEF Core, Report, KickOut, Receive, MergeReport, PublishKickOut, Tick, LocalTrouble,
                    requestVars
      <4> QED BY <2>1, <4>1, NoAskStep DEF BridgeInv
    <3>4. CASE SessionStep
      <4>1. requests' = requests /\ asks' = asks /\ forwarded' = forwarded
        BY <3>4, SessionStepFacts DEF BridgeInv, requestVars
      <4> QED BY <2>1, <4>1, NoAskStep DEF BridgeInv
    <3> QED BY <1>3, <3>1, <3>2, <3>3, <3>4 DEF Next, SessionStep
  <2> QED BY <1>1, <2>1, <2>2, <2>3 DEF BridgeInv
<1> QED BY <1>2, <1>3

LEMMA BridgeAlways == Spec => []BridgeInv
BY BridgeInitInv, BridgeNextInv, PTL DEF Spec

LEMMA BridgeTypes == BridgeInv => TypeOK
<1> SUFFICES ASSUME BridgeInv PROVE TypeOK
  OBVIOUS
<1> USE BridgeAssumption, PagesAssumption
<1>1. DogTypeOK /\ Held /\ Asked /\ Session /\ Losses
  BY DEF BridgeInv, DogInv, ReportInv, AskInv
<1>2. bus \in BoundedSeq(Message, MaxBus) /\ queue \in BoundedSeq(Message, QueueSize)
  BY <1>1, BoundedSequence DEF Held
<1>3. pages \in BoundedSeq(Pages, Cardinality(Pages))
  <2>1. pages \in Seq(Pages) /\ Len(pages) <= Cardinality(Pages) /\ Cardinality(Pages) \in Nat
    BY <1>1, InjectiveLength, FS_CardinalityType DEF Held
  <2> QED BY <2>1, BoundedSequence
<1> QED BY <1>1, <1>2, <1>3 DEF TypeOK, Held, Asked, Session, Losses

LEMMA BridgeSafety == BridgeInv => NothingLostQuietly /\ BuriedStaysBuried
<1> SUFFICES ASSUME BridgeInv PROVE NothingLostQuietly /\ BuriedStaysBuried
  OBVIOUS
<1>1. Held /\ OrderInv /\ KeptInv /\ AskInv
  BY DEF BridgeInv, ReportInv
<1>2. \A d \in Devices \ (lost \cup kicked) : stamp[d] > 0 => ReportIsKept(d)
  BY <1>1, KeptIsKept DEF KeptInv
<1>3. \A r \in 1..asks : r \in lost \/ r \in ToSet(forwarded) \/ r \in ToSet(requests)
  BY <1>1 DEF AskInv
<1>4. \A i, j \in DOMAIN forwarded : i < j => forwarded[i] < forwarded[j]
  BY <1>1 DEF AskInv, Asked, Rising
<1>5. BuriedStaysBuried
  BY <1>1 DEF OrderInv, Known, Held, BuriedStaysBuried
<1> QED BY <1>2, <1>3, <1>4, <1>5 DEF NothingLostQuietly

LEMMA OlderStep ==
    BridgeInv /\ [Next]_vars =>
        [\A d \in Devices, f \in {"state", "dp"} :
            shadow'[d][f] # 0 => shadow'[d][f] >= shadow[d][f]]_vars
<1> SUFFICES ASSUME BridgeInv, Next, NEW d \in Devices, NEW f \in Fields, shadow'[d][f] # 0
             PROVE  shadow'[d][f] >= shadow[d][f]
  BY DEF Fields
<1>1. ReportInv /\ Held /\ Session /\ shadow[d][f] \in Nat /\ Absent[f] = 0
  BY EntryFacts, BridgeAssumption DEF BridgeInv, ReportInv, Held, Fields
<1>2. CASE Tick
  BY <1>1, <1>2, TickStep
<1>3. CASE PublishKickOut
  <2>1. shadow'[d] \in {shadow[d], Absent}
    BY <1>1, <1>3 DEF PublishKickOut, Publish, Deleted, Held
  <2> QED BY <1>1, <2>1
<1>4. CASE SessionStep
  BY <1>1, <1>4, SessionStepFacts DEF reportVars
<1>5. CASE Core \/ Receive \/ MergeReport \/ LocalTrouble \/ Restart
  <2>1. shadow' = shadow
    BY <1>5 DEF Core, Report, KickOut, Receive, MergeReport, LocalTrouble, Restart
  <2> QED BY <1>1, <2>1
<1>6. CASE Forward \/ Ask
  BY <1>1, <1>6 DEF Forward, Ask, reportVars
<1> QED BY <1>2, <1>3, <1>4, <1>5, <1>6 DEF Next, SessionStep

(* The variables of the bridge keep their types; neither queue outgrows its size,
   and no page is queued twice.                                                 *)
THEOREM BridgeTypeCorrect == Spec => []TypeOK
BY BridgeAlways, BridgeTypes, PTL

(* The last report of a device and every request of the app is on its way, has
   arrived, or met a broken connection, a full queue or a restart.              *)
THEOREM NothingIsLostQuietly == Spec => []NothingLostQuietly
BY BridgeAlways, BridgeSafety, PTL

(* A device whose deletion found none of its reports left to publish does not come
   back in the cloud.                                                           *)
THEOREM BuriedStay == Spec => []BuriedStaysBuried
BY BridgeAlways, BridgeSafety, PTL

(* The cloud never goes back to an older report of a device. *)
THEOREM CloudMovesOn == Spec => NeverOlder
BY BridgeInitInv, BridgeNextInv, OlderStep, PTL DEF Spec, NeverOlder
==============================================================================
