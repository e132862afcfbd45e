------------------------- MODULE RobotStatesProofs -------------------------
(***************************************************************************)
(* Theorems about RobotStates, for any states of a robot, any number of    *)
(* messages and faults and any capacity of the channel.                    *)
(***************************************************************************)
EXTENDS RobotStates, SequenceTheorems, TLAPS

USE StatesAssumption

Row == [exists : BOOLEAN, st : States \cup {Invalid}, on : BOOLEAN]
Entry == [known : BOOLEAN, on : BOOLEAN, st : States \cup {Invalid}]
Pcs == {"closed", "subscribed", "unknown", "half", "open"}
Bar == [pc : Pcs, q : Seq(Event), shown : Event]

-----------------------------------------------------------------------------
(* Types *)

LEMMA TypeInit == Init => TypeOK
<1> SUFFICES ASSUME Init PROVE TypeOK
  OBVIOUS
<1>1. Unknown \in Event /\ <<>> \in Seq(Event) /\ Len(<<>>) <= Capacity /\ 0 \in 0..MaxSent
  BY DEF Unknown, Event
<1>2. sent \in [Kinds -> 0..MaxSent] /\ net \in [Procs -> SUBSET Message]
  BY <1>1 DEF Init
<1>3. got \in [Procs -> [Kinds -> 0..MaxSent]]
  BY <1>1 DEF Init
<1>4. /\ bar \in [pc : {"closed", "subscribed", "unknown", "half", "open"}, q : Seq(Event), shown : Event]
      /\ Len(bar.q) <= Capacity
  BY <1>1 DEF Init, Closed
<1>5. /\ robot \in Event
      /\ row \in [exists : BOOLEAN, st : States \cup {Invalid}, on : BOOLEAN]
      /\ cache \in [known : BOOLEAN, on : BOOLEAN, st : States \cup {Invalid}]
  BY <1>1 DEF Init, Empty
<1>6. reading \in BOOLEAN /\ missed \in BOOLEAN /\ thrown \in BOOLEAN
  BY Zenon DEF Init
<1>7. faults \in 0..MaxFaults
  BY DEF Init
<1> QED
  BY <1>2, <1>3, <1>4, <1>5, <1>6, <1>7 DEF TypeOK

LEMMA CountType ==
  ASSUME TypeOK, NEW kind \in Kinds, Count(kind)
  PROVE  /\ sent' \in [Kinds -> 0..MaxSent]
         /\ sent'[kind] = sent[kind] + 1 /\ sent[kind] + 1 \in 0..MaxSent
         /\ \A k \in Kinds : k # kind => sent'[k] = sent[k]
<1>1. /\ sent \in [Kinds -> 0..MaxSent] /\ MaxSent \in Nat
      /\ sent["state"] + sent["connect"] + sent["order"] < MaxSent
      /\ sent' = [sent EXCEPT ![kind] = @ + 1]
  BY DEF TypeOK, Count
<1>2. sent["state"] \in 0..MaxSent /\ sent["connect"] \in 0..MaxSent /\ sent["order"] \in 0..MaxSent
  BY <1>1 DEF Kinds
<1>3. kind \in {"state", "connect", "order"}
  BY DEF Kinds
<1>4. sent[kind] + 1 \in 0..MaxSent
  BY <1>1, <1>2, <1>3
<1> QED
  BY <1>1, <1>4

LEMMA FaultType ==
  ASSUME TypeOK, NEW kind, Fault(kind)
  PROVE  faults' \in 0..MaxFaults
BY DEF TypeOK, Fault

\* a message of the robot
LEMMA SendType ==
  ASSUME TypeOK, NEW m \in Message, Send(m)
  PROVE  /\ net' \in [Procs -> SUBSET Message]
         /\ \A p \in Procs : net'[p] = net[p] \cup {m}
BY DEF TypeOK, Send

LEMMA SubscribedType ==
  ASSUME TypeOK, NEW p \in Procs, Subscribed(p)
  PROVE  /\ net' \in [Procs -> SUBSET Message]
         /\ \A r \in Procs : \A m \in net'[r] :
              m \in net[r] \/ (m = Retained /\ sent["connect"] # 0)
<1>1. Retained \in Message
  <2>1. sent["connect"] \in 0..MaxSent /\ robot.on \in BOOLEAN
    BY DEF TypeOK, Kinds, Event
  <2> QED
    BY <2>1 DEF Retained, Message, Kinds
<1> QED
  BY <1>1 DEF TypeOK, Subscribed

LEMMA ReceiveType ==
  ASSUME TypeOK, NEW p \in Procs, NEW m, Receive(p, m)
  PROVE  /\ net' \in [Procs -> SUBSET Message] /\ faults' \in 0..MaxFaults
         /\ got' \in [Procs -> [Kinds -> 0..MaxSent]]
         /\ m \in net[p] /\ m \in Message
         /\ \A r \in Procs : net'[r] \subseteq net[r]
         /\ \A r \in Procs, k \in Kinds :
              got'[r][k] = IF r = p /\ k = m.kind THEN m.nr ELSE got[r][k]
<1>1. m \in net[p] /\ m \in Message /\ net \in [Procs -> SUBSET Message]
  BY DEF TypeOK, Receive
<1>2. m.kind \in Kinds /\ m.nr \in 0..MaxSent
  BY <1>1 DEF Message
<1>3. got \in [Procs -> [Kinds -> 0..MaxSent]] /\ got' = [got EXCEPT ![p] = [@ EXCEPT ![m.kind] = m.nr]]
  BY DEF TypeOK, Receive
<1>4. net' = net \/ net' = [net EXCEPT ![p] = @ \ {m}]
  BY DEF Receive
<1>5. faults' \in 0..MaxFaults
  BY FaultType DEF Receive, TypeOK
<1> QED
  BY <1>1, <1>2, <1>3, <1>4, <1>5

LEMMA GetRoboStateType ==
  ASSUME TypeOK
  PROVE  GetRoboState \in States \cup {Invalid}
BY DEF TypeOK, GetRoboState, ReadRoboStateFromDB

\* what the bar does with its record
LEMMA BarType ==
  ASSUME TypeOK
  PROVE  /\ bar \in Bar /\ bar.pc \in Pcs /\ bar.q \in Seq(Event) /\ bar.shown \in Event
         /\ Len(bar.q) <= Capacity
BY DEF TypeOK, Bar, Pcs

LEMMA TypeStep == TypeOK /\ [Next]_vars => TypeOK'
<1> SUFFICES ASSUME TypeOK, [Next]_vars
             PROVE  TypeOK'
  OBVIOUS
<1>0. /\ cache \in Entry /\ row \in Row /\ robot \in Event /\ Capacity \in Nat \ {0}
      /\ bar \in Bar /\ bar.q \in Seq(Event) /\ Len(bar.q) <= Capacity
  BY BarType DEF TypeOK, Entry, Row
<1>1. ASSUME NEW s \in States, TellState(s) PROVE TypeOK'
  <2> DEFINE m == [kind |-> "state", nr |-> sent["state"] + 1, st |-> s, on |-> TRUE]
  <2>1. sent' \in [Kinds -> 0..MaxSent] /\ sent["state"] + 1 \in 0..MaxSent
    BY <1>1, CountType DEF TellState, Kinds
  <2>2. m \in Message
    BY <2>1 DEF Message, Kinds
  <2>3. net' \in [Procs -> SUBSET Message]
    BY <1>1, <2>2, SendType DEF TellState
  <2>4. robot' \in Event
    BY <1>0, <1>1 DEF TellState, Event
  <2> QED
    BY <1>1, <2>1, <2>3, <2>4 DEF TellState, TypeOK
<1>2. CASE TellOrder
  <2> DEFINE m == [kind |-> "order", nr |-> sent["order"] + 1, st |-> Invalid, on |-> TRUE]
  <2>1. sent' \in [Kinds -> 0..MaxSent] /\ sent["order"] + 1 \in 0..MaxSent
    BY <1>2, CountType DEF TellOrder, Kinds
  <2>2. m \in Message
    BY <2>1 DEF Message, Kinds
  <2>3. net' \in [Procs -> SUBSET Message]
    BY <1>2, <2>2, SendType DEF TellOrder
  <2> QED
    BY <1>2, <2>1, <2>3 DEF TellOrder, TypeOK
<1>3. ASSUME NEW on \in BOOLEAN, Connect(on) PROVE TypeOK'
  <2> DEFINE m == [kind |-> "connect", nr |-> sent["connect"] + 1, st |-> Invalid, on |-> on]
  <2>1. sent' \in [Kinds -> 0..MaxSent] /\ sent["connect"] + 1 \in 0..MaxSent
    BY <1>3, CountType DEF Connect, Kinds
  <2>2. m \in Message
    BY <2>1 DEF Message, Kinds
  <2>3. net' \in [Procs -> SUBSET Message]
    BY <1>3, <2>2, SendType DEF Connect
  <2>4. robot' \in Event
    BY <1>0, <1>3 DEF Connect, Event
  <2> QED
    BY <1>3, <2>1, <2>3, <2>4 DEF Connect, TypeOK
<1>4. ASSUME NEW p \in Procs, Reconnect(p) \/ \E m \in net[p] : Lose(p, m) PROVE TypeOK'
  <2>1. net' \in [Procs -> SUBSET Message] /\ faults' \in 0..MaxFaults
    <3>1. CASE Reconnect(p)
      BY <3>1, SubscribedType, FaultType DEF Reconnect
    <3>2. CASE \E m \in net[p] : Lose(p, m)
      BY <3>2, FaultType DEF Lose, TypeOK
    <3> QED
      BY <1>4, <3>1, <3>2
  <2> QED
    BY <1>4, <2>1 DEF Reconnect, Lose, TypeOK
<1>5. ASSUME NEW m \in net["sponge"], PacketFromRobo(m) PROVE TypeOK'
  <2>0. "sponge" \in Procs /\ m \in Message
    BY DEF Procs, TypeOK
  <2>1. CASE Receive("sponge", m)
    <3>1. /\ net' \in [Procs -> SUBSET Message] /\ faults' \in 0..MaxFaults
          /\ got' \in [Procs -> [Kinds -> 0..MaxSent]]
      BY <2>0, <2>1, ReceiveType
    <3>2. row' \in Row
      <4>1. ConnectUpdate(m.on) \in Row /\ StateUpdate(m.st) \in Row
        BY <1>0, <2>0 DEF ConnectUpdate, StateUpdate, Row, Message
      <4>2. row' \in {row, ConnectUpdate(m.on), StateUpdate(m.st)}
        BY <1>5 DEF PacketFromRobo
      <4> QED
        BY <1>0, <4>1, <4>2
    <3> QED
      BY <1>5, <3>1, <3>2 DEF PacketFromRobo, TypeOK, Row
  <2>2. CASE UNCHANGED <<row, got>> /\ net' = [net EXCEPT !["sponge"] = @ \ {m}] /\ Fault("db")
    <3>1. faults' \in 0..MaxFaults
      BY <2>2, FaultType
    <3>2. net' \in [Procs -> SUBSET Message]
      BY <2>2 DEF TypeOK
    <3> QED
      BY <1>5, <2>2, <3>1, <3>2 DEF PacketFromRobo, TypeOK
  <2> QED
    BY <1>5, <2>1, <2>2 DEF PacketFromRobo
<1>6. CASE RestartSponge
  <2>1. net' \in [Procs -> SUBSET Message] /\ faults' \in 0..MaxFaults
    BY <1>6, SubscribedType, FaultType DEF RestartSponge, Procs
  <2> QED
    BY <1>6, <2>1 DEF RestartSponge, TypeOK
<1>7. ASSUME NEW m \in net["web"], ParseFromRobo(m) PROVE TypeOK'
  <2>1. /\ net' \in [Procs -> SUBSET Message] /\ faults' \in 0..MaxFaults
        /\ got' \in [Procs -> [Kinds -> 0..MaxSent]] /\ m \in Message
    BY <1>7, ReceiveType DEF ParseFromRobo, Procs
  <2>2. cache' \in Entry
    BY <1>0, <1>7, <2>1 DEF ParseFromRobo, Entry, Message
  <2>3. thrown' \in BOOLEAN
    BY <1>7 DEF ParseFromRobo, TypeOK
  <2> QED
    BY <1>7, <2>1, <2>2, <2>3 DEF ParseFromRobo, TypeOK, Entry
<1>8. CASE Publish
  <2>1. faults' \in 0..MaxFaults
    BY <1>8, FaultType DEF Publish, TypeOK
  <2>2. bar' \in Bar /\ Len(bar'.q) <= Capacity
    <3>1. CASE UNCHANGED bar
      BY <1>0, <3>1
    <3>2. ASSUME NEW e \in Event, bar' = [bar EXCEPT !.q = Append(@, e)], ~Full
          PROVE  bar' \in Bar /\ Len(bar'.q) <= Capacity
      <4>1. bar'.q = Append(bar.q, e) /\ Len(bar'.q) = Len(bar.q) + 1 /\ bar'.q \in Seq(Event)
        BY <1>0, <3>2 DEF Bar
      <4> QED
        BY <1>0, <3>2, <4>1 DEF Bar, Full
    <3>3. [on |-> cache.on, st |-> GetRoboState] \in Event /\ [on |-> TRUE, st |-> Invalid] \in Event
      BY <1>0, GetRoboStateType DEF Event, Entry
    <3> QED
      BY <1>8, <3>1, <3>2, <3>3 DEF Publish
  <2>3. missed' \in BOOLEAN
    BY <1>8 DEF Publish, TypeOK
  <2> QED
    BY <1>8, <2>1, <2>2, <2>3 DEF Publish, TypeOK, Bar, Pcs
<1>9. CASE Subscribe \/ ReadConnect \/ MakeEntry \/ ReadState \/ Show \/ Leave
  <2>1. bar' \in Bar /\ Len(bar'.q) <= Capacity
    <3>1. CASE Subscribe \/ ReadConnect \/ MakeEntry \/ ReadState
      <4>1. \/ bar' = [bar EXCEPT !.pc = "subscribed"]
            \/ \E pc \in Pcs, on \in BOOLEAN : bar' = [bar EXCEPT !.pc = pc, !.shown.on = on]
            \/ \E st \in States \cup {Invalid} : bar' = [bar EXCEPT !.pc = "open", !.shown.st = st]
        BY <1>0, <3>1, GetRoboStateType
           DEF Subscribe, ReadConnect, MakeEntry, ReadState, Pcs, Entry
      <4> QED
        <5>1. ASSUME NEW pc \in Pcs, NEW on \in BOOLEAN, bar' = [bar EXCEPT !.pc = pc, !.shown.on = on]
              PROVE  bar' \in Bar /\ bar'.q = bar.q
          <6>1. bar' = [pc |-> pc, q |-> bar.q, shown |-> [on |-> on, st |-> bar.shown.st]]
            BY <1>0, <5>1 DEF Bar, Event
          <6> QED
            BY <1>0, <6>1 DEF Bar, Event
        <5>2. ASSUME NEW st \in States \cup {Invalid},
                     bar' = [bar EXCEPT !.pc = "open", !.shown.st = st]
              PROVE  bar' \in Bar /\ bar'.q = bar.q
          <6>1. bar' = [pc |-> "open", q |-> bar.q, shown |-> [on |-> bar.shown.on, st |-> st]]
            BY <1>0, <5>2 DEF Bar, Event
          <6> QED
            BY <1>0, <6>1 DEF Bar, Event, Pcs
        <5>3. CASE bar' = [bar EXCEPT !.pc = "subscribed"]
          BY <1>0, <5>3 DEF Bar, Pcs
        <5> QED
          BY <1>0, <4>1, <5>1, <5>2, <5>3
    <3>2. CASE Show
      <4>1. Tail(bar.q) \in Seq(Event) /\ Head(bar.q) \in Event /\ Len(Tail(bar.q)) <= Capacity
        BY <1>0, <3>2 DEF Show
      <4>2. bar' = [bar EXCEPT !.shown = Head(bar.q), !.q = Tail(@)]
        BY <3>2 DEF Show
      <4> QED
        BY <1>0, <4>1, <4>2 DEF Bar
    <3>3. CASE Leave
      BY <3>3 DEF Leave, Closed, Bar, Pcs, Unknown, Event
    <3> QED
      BY <1>9, <3>1, <3>2, <3>3
  <2>2. cache' \in Entry /\ faults' \in 0..MaxFaults /\ missed' \in BOOLEAN /\ thrown' \in BOOLEAN
    <3>1. faults' \in 0..MaxFaults
      BY <1>9, FaultType DEF Subscribe, ReadConnect, MakeEntry, ReadState, Show, Leave, TypeOK
    <3>2. cache' \in {cache, Blank} /\ Blank \in Entry
      BY <1>9 DEF Subscribe, ReadConnect, MakeEntry, ReadState, Show, Leave, Blank, Entry
    <3>3. missed' \in BOOLEAN /\ thrown' \in BOOLEAN
      BY <1>9 DEF Subscribe, ReadConnect, MakeEntry, ReadState, Show, Leave, TypeOK
    <3> QED
      BY <1>0, <3>1, <3>2, <3>3
  <2>3. UNCHANGED <<robot, sent, net, row, reading, got>>
    BY <1>9 DEF Subscribe, ReadConnect, MakeEntry, ReadState, Show, Leave
  <2> QED
    BY <2>1, <2>2, <2>3 DEF TypeOK, Bar, Pcs, Entry
<1>10. CASE RestartWeb
  <2>1. net' \in [Procs -> SUBSET Message] /\ faults' \in 0..MaxFaults
    BY <1>10, SubscribedType, FaultType DEF RestartWeb, Procs
  <2>2. got' \in [Procs -> [Kinds -> 0..MaxSent]]
    <3>1. [k \in Kinds |-> 0] \in [Kinds -> 0..MaxSent]
      OBVIOUS
    <3>2. got' = [got EXCEPT !["web"] = [k \in Kinds |-> 0]] /\ got \in [Procs -> [Kinds -> 0..MaxSent]]
      BY <1>10 DEF RestartWeb, TypeOK
    <3> QED
      BY <3>1, <3>2
  <2>3. bar' = Closed /\ Closed \in Bar /\ Len(Closed.q) <= Capacity
    BY <1>10 DEF RestartWeb, Closed, Bar, Pcs, Unknown, Event
  <2>4. cache' = Empty /\ Empty \in Entry
    BY <1>10 DEF RestartWeb, Empty, Entry
  <2> QED
    BY <1>10, <2>1, <2>2, <2>3, <2>4 DEF RestartWeb, TypeOK, Bar, Pcs, Entry
<1>11. CASE UNCHANGED vars
  BY <1>11 DEF vars, TypeOK
<1> QED
  BY <1>1, <1>2, <1>3, <1>4, <1>5, <1>6, <1>7, <1>8, <1>9, <1>10, <1>11 DEF Next

\* Every variable keeps its type; the channel of the bar keeps its capacity.
THEOREM Typing == Spec => []TypeOK
BY TypeInit, TypeStep, PTL DEF Spec

-----------------------------------------------------------------------------
(* What the web application believes *)

\* a message on its way to r is not newer than the robot, and the last of its
\* kind says what the robot is
Fresh(m) ==
  /\ m.nr <= sent[m.kind]
  /\ m.kind = "state" => m.st \in States /\ (m.nr = sent["state"] => m.st = robot.st)
  /\ m.kind = "connect" /\ m.nr = sent["connect"] => m.on = robot.on
  /\ m.kind = "order" => m.st = Invalid

\* A process that has handled the last message of a kind knows what it said:
\* in the row, in the cache unless a page has replaced the entry, or unless a
\* message about an order has made it forget the state.
ViewInv ==
  /\ \A p \in Procs : \A m \in net[p] : Fresh(m)
  /\ \A p \in Procs, k \in Kinds : got[p][k] <= sent[k]
  /\ sent["connect"] = 0 => ~robot.on
  /\ Current("web", "connect") /\ ~thrown => cache.on = robot.on
  /\ Current("web", "state") /\ cache.st # Invalid => cache.st = robot.st
  /\ ~cache.known => cache = Empty
  /\ Current("sponge", "connect") => row.on = robot.on
  /\ Current("sponge", "state") => row.st = robot.st
  /\ ~row.exists => ~row.on /\ row.st = Invalid

LEMMA ViewInit == Init => ViewInv
<1> SUFFICES ASSUME Init PROVE ViewInv
  OBVIOUS
<1>1. /\ \A p \in Procs : net[p] = {}
      /\ \A p \in Procs, k \in Kinds : got[p][k] = 0
      /\ \A k \in Kinds : sent[k] = 0
  BY DEF Init
<1>2. /\ robot.on = FALSE /\ robot.st = Invalid /\ cache = Empty /\ Empty.on = FALSE
      /\ Empty.st = Invalid /\ row.on = FALSE /\ row.st = Invalid
  BY DEF Init, Unknown, Empty
<1>3. /\ cache.on = robot.on /\ cache.st = Invalid /\ row.on = robot.on /\ row.st = robot.st
      /\ ~robot.on /\ ~row.on
  BY <1>2
<1>4. \A p \in Procs, k \in Kinds : got[p][k] <= sent[k]
  BY <1>1
<1> QED
  BY <1>1, <1>2, <1>3, <1>4 DEF ViewInv

LEMMA ViewHolds == TypeOK /\ ViewInv => ViewAgrees
<1> SUFFICES ASSUME TypeOK, ViewInv, Current("web", "connect"), ~thrown,
                    IF cache.st = Invalid
                    THEN Current("sponge", "state") /\ Current("sponge", "connect")
                    ELSE Current("web", "state")
             PROVE  GetRoboState = IF robot.on THEN robot.st ELSE Invalid
  BY DEF ViewAgrees
<1>1. cache.on = robot.on /\ (~cache.known => ~cache.on)
  BY DEF ViewInv, Empty
<1>2. CASE cache.st = Invalid
  <2>1. row.on = robot.on /\ row.st = robot.st /\ (~row.exists => ~row.on)
    BY <1>2 DEF ViewInv
  <2> QED
    BY <1>1, <1>2, <2>1 DEF GetRoboState, ReadRoboStateFromDB
<1>3. CASE cache.st # Invalid
  <2>1. cache.st = robot.st
    BY <1>3 DEF ViewInv
  <2> QED
    BY <1>1, <1>3, <2>1 DEF GetRoboState
<1> QED
  BY <1>2, <1>3

LEMMA Numbers ==
  ASSUME TypeOK
  PROVE  /\ \A k \in Kinds : sent[k] \in Nat
         /\ \A p \in Procs, k \in Kinds : got[p][k] \in Nat
         /\ \A p \in Procs : \A m \in net[p] : m \in Message /\ m.nr \in Nat /\ m.kind \in Kinds
BY DEF TypeOK, Message

\* the robot sends a message of this kind
LEMMA ViewTold ==
  ASSUME TypeOK, ViewInv, NEW kind \in Kinds, Count(kind), NEW m \in Message, Send(m),
         m.kind = kind, m.nr = sent[kind] + 1, Fresh(m)',
         kind # "state" => robot'.st = robot.st,
         kind # "connect" => robot'.on = robot.on,
         UNCHANGED <<row, cache, got, thrown>>
  PROVE  ViewInv'
<1>1. /\ \A k \in Kinds : sent[k] \in Nat
      /\ sent'[kind] = sent[kind] + 1
      /\ \A k \in Kinds : k # kind => sent'[k] = sent[k]
      /\ \A p \in Procs, k \in Kinds : got[p][k] \in Nat
  BY Numbers, CountType
<1>2. \A p \in Procs, k \in Kinds :
        /\ got'[p][k] <= sent'[k]
        /\ Current(p, k)' => k # kind /\ Current(p, k)
  <2> SUFFICES ASSUME NEW p \in Procs, NEW k \in Kinds
               PROVE  got'[p][k] <= sent'[k] /\ (Current(p, k)' => k # kind /\ Current(p, k))
    OBVIOUS
  <2>1. got'[p][k] = got[p][k] /\ got[p][k] <= sent[k]
    BY DEF ViewInv
  <2>2. CASE k = kind
    BY <1>1, <2>1, <2>2 DEF Current
  <2>3. CASE k # kind
    BY <1>1, <2>1, <2>3 DEF Current
  <2> QED
    BY <2>2, <2>3
<1>3. \A p \in Procs : \A n \in net'[p] : Fresh(n)'
  <2> SUFFICES ASSUME NEW p \in Procs, NEW n \in net'[p]
               PROVE  Fresh(n)'
    OBVIOUS
  <2>1. n \in net[p] \/ n = m
    BY SendType
  <2>2. CASE n \in net[p]
    <3>1. Fresh(n) /\ n.nr \in Nat /\ n.kind \in Kinds
      BY <2>2, Numbers DEF ViewInv
    <3>2. n.nr <= sent'[n.kind] /\ (n.kind = kind => n.nr # sent'[n.kind])
      BY <1>1, <3>1 DEF Fresh
    <3>3. n.kind # kind => sent'[n.kind] = sent[n.kind]
      BY <1>1, <3>1
    <3> QED
      BY <3>1, <3>2, <3>3 DEF Fresh
  <2> QED
    BY <2>1, <2>2
<1>4. sent["connect"] + 1 # 0 /\ "connect" \in Kinds /\ "state" \in Kinds
  BY <1>1 DEF Kinds
<1>5. sent'["connect"] = 0 => ~robot'.on
  BY <1>1, <1>4 DEF ViewInv
<1>6. "web" \in Procs /\ "sponge" \in Procs
  BY DEF Procs
<1>7. /\ Current("web", "connect")' => kind # "connect" /\ Current("web", "connect")
      /\ Current("web", "state")' => kind # "state" /\ Current("web", "state")
      /\ Current("sponge", "connect")' => kind # "connect" /\ Current("sponge", "connect")
      /\ Current("sponge", "state")' => kind # "state" /\ Current("sponge", "state")
  BY <1>2, <1>4, <1>6
<1> QED
  BY <1>2, <1>3, <1>5, <1>7 DEF ViewInv

\* nothing but messages that were on their way before, or the retained one
LEMMA ViewNet ==
  ASSUME TypeOK, ViewInv, UNCHANGED <<robot, sent>>,
         \A r \in Procs : \A m \in net'[r] : m \in net[r] \/ (m = Retained /\ sent["connect"] # 0)
  PROVE  \A r \in Procs : \A m \in net'[r] : Fresh(m)'
<1> SUFFICES ASSUME NEW r \in Procs, NEW m \in net'[r]
             PROVE  Fresh(m)'
  OBVIOUS
<1>1. CASE m \in net[r]
  BY <1>1 DEF ViewInv, Fresh
<1>2. CASE m = Retained
  <2>1. sent["connect"] \in Nat
    BY Numbers DEF Kinds
  <2>2. m.kind = "connect" /\ m.nr = sent["connect"] /\ m.on = robot.on
    BY <1>2 DEF Retained
  <2> QED
    BY <2>1, <2>2 DEF Fresh
<1> QED
  BY <1>1, <1>2

\* a process handles a message
LEMMA ViewReceive ==
  ASSUME TypeOK, ViewInv, NEW p \in Procs, NEW m \in net[p], Receive(p, m), UNCHANGED <<robot, sent>>
  PROVE  /\ \A r \in Procs : \A n \in net'[r] : Fresh(n)'
         /\ \A r \in Procs, k \in Kinds : got'[r][k] <= sent'[k]
         /\ \A r \in Procs, k \in Kinds : r # p \/ k # m.kind => (Current(r, k)' <=> Current(r, k))
         /\ Current(p, m.kind)' => m.nr = sent[m.kind]
         /\ Fresh(m) /\ m \in Message /\ m.kind \in Kinds
<1>1. /\ Fresh(m) /\ m \in Message /\ m.kind \in Kinds
  BY Numbers DEF ViewInv
<1>2. /\ \A r \in Procs : net'[r] \subseteq net[r]
      /\ \A r \in Procs, k \in Kinds :
           got'[r][k] = IF r = p /\ k = m.kind THEN m.nr ELSE got[r][k]
  BY ReceiveType
<1>3. \A r \in Procs : \A n \in net'[r] : Fresh(n)'
  BY <1>2, ViewNet
<1>4. \A r \in Procs, k \in Kinds : got'[r][k] <= sent'[k]
  BY <1>1, <1>2 DEF ViewInv, Fresh
<1>5. \A r \in Procs, k \in Kinds : r # p \/ k # m.kind => (Current(r, k)' <=> Current(r, k))
  BY <1>2 DEF Current
<1>6. Current(p, m.kind)' => m.nr = sent[m.kind]
  BY <1>1, <1>2 DEF Current
<1> QED
  BY <1>1, <1>3, <1>4, <1>5, <1>6

LEMMA ViewSponge ==
  ASSUME TypeOK, ViewInv, NEW m \in net["sponge"], PacketFromRobo(m)
  PROVE  ViewInv'
<1>0. /\ "sponge" \in Procs /\ "web" \in Procs /\ "state" \in Kinds /\ "connect" \in Kinds
      /\ UNCHANGED <<robot, sent, cache, thrown>>
      /\ robot \in Event /\ row \in Row
  BY DEF Procs, Kinds, PacketFromRobo, TypeOK, Row
<1>1. CASE Receive("sponge", m) /\ row' = CASE m.kind = "connect" -> ConnectUpdate(m.on)
                                            [] m.kind = "state" -> StateUpdate(m.st)
                                            [] OTHER -> row
  <2>1. /\ \A r \in Procs : \A n \in net'[r] : Fresh(n)'
        /\ \A r \in Procs, k \in Kinds : got'[r][k] <= sent'[k]
        /\ \A r \in Procs, k \in Kinds :
             r # "sponge" \/ k # m.kind => (Current(r, k)' <=> Current(r, k))
        /\ Current("sponge", m.kind)' => m.nr = sent[m.kind]
        /\ Fresh(m) /\ m \in Message /\ m.kind \in Kinds
    BY <1>0, <1>1, ViewReceive
  <2>2. /\ Current("web", "connect")' => Current("web", "connect")
        /\ Current("web", "state")' => Current("web", "state")
    BY <1>0, <2>1
  <2>3. Current("sponge", "connect")' => row'.on = robot'.on
    <3>1. CASE m.kind = "connect"
      BY <1>0, <1>1, <2>1, <3>1 DEF ConnectUpdate, Fresh, Row
    <3>2. CASE m.kind # "connect"
      <4>1. Current("sponge", "connect")' => row.on = robot.on
        BY <1>0, <2>1, <3>2 DEF ViewInv
      <4>2. row'.on = row.on
        <5>1. row' = StateUpdate(m.st) \/ row' = row
          BY <1>1, <3>2
        <5>2. StateUpdate(m.st).on = row.on
          BY <1>0 DEF StateUpdate, Row, ViewInv
        <5> QED
          BY <5>1, <5>2
      <4> QED
        BY <1>0, <4>1, <4>2
    <3> QED
      BY <3>1, <3>2
  <2>4. Current("sponge", "state")' => row'.st = robot'.st
    <3>1. CASE m.kind = "state"
      <4>1. StateUpdate(m.st).st = m.st /\ row' = StateUpdate(m.st)
        BY <1>0, <1>1, <3>1 DEF StateUpdate, Row
      <4> QED
        BY <1>0, <2>1, <3>1, <4>1 DEF Fresh
    <3>2. CASE m.kind # "state"
      <4>1. Current("sponge", "state")' => row.st = robot.st
        BY <1>0, <2>1, <3>2 DEF ViewInv
      <4>2. row'.st = row.st
        <5>1. row' = ConnectUpdate(m.on) \/ row' = row
          BY <1>1, <3>2
        <5>2. ConnectUpdate(m.on).st = row.st
          BY <1>0 DEF ConnectUpdate, Row, ViewInv
        <5> QED
          BY <5>1, <5>2
      <4> QED
        BY <1>0, <4>1, <4>2
    <3> QED
      BY <3>1, <3>2
  <2>5. ~row'.exists => ~row'.on /\ row'.st = Invalid
    <3>1. ConnectUpdate(m.on).exists /\ StateUpdate(m.st).exists
      BY <1>0 DEF ConnectUpdate, StateUpdate, Row
    <3>2. row' \in {row, ConnectUpdate(m.on), StateUpdate(m.st)}
      BY <1>1
    <3> QED
      BY <3>1, <3>2 DEF ViewInv
  <2> QED
    BY <1>0, <2>1, <2>2, <2>3, <2>4, <2>5 DEF ViewInv
<1>2. CASE net' = [net EXCEPT !["sponge"] = @ \ {m}] /\ UNCHANGED <<row, got>>
  <2>1. \A r \in Procs : net'[r] \subseteq net[r]
    BY <1>0, <1>2 DEF TypeOK
  <2>2. \A r \in Procs : \A n \in net'[r] : Fresh(n)'
    BY <1>0, <2>1, ViewNet
  <2>3. \A r, k : Current(r, k)' <=> Current(r, k)
    BY <1>0, <1>2 DEF Current
  <2> QED
    BY <1>0, <1>2, <2>2, <2>3 DEF ViewInv
<1> QED
  BY <1>1, <1>2 DEF PacketFromRobo

LEMMA ViewWeb ==
  ASSUME TypeOK, ViewInv, NEW m \in net["web"], ParseFromRobo(m)
  PROVE  ViewInv'
<1>0. /\ "sponge" \in Procs /\ "web" \in Procs /\ "state" \in Kinds /\ "connect" \in Kinds
      /\ UNCHANGED <<robot, sent, row>>
      /\ robot \in Event /\ cache \in Entry
      /\ cache' = IF m.kind = "connect" THEN [cache EXCEPT !.known = TRUE, !.on = m.on]
                  ELSE [cache EXCEPT !.known = TRUE, !.st = m.st]
      /\ thrown' = (thrown /\ m.kind # "connect")
  BY DEF Procs, Kinds, ParseFromRobo, TypeOK, Entry
<1>1. /\ \A r \in Procs : \A n \in net'[r] : Fresh(n)'
      /\ \A r \in Procs, k \in Kinds : got'[r][k] <= sent'[k]
      /\ \A r \in Procs, k \in Kinds :
           r # "web" \/ k # m.kind => (Current(r, k)' <=> Current(r, k))
      /\ Current("web", m.kind)' => m.nr = sent[m.kind]
      /\ Fresh(m) /\ m \in Message /\ m.kind \in Kinds
  BY <1>0, ViewReceive DEF ParseFromRobo
<1>2. /\ Current("sponge", "connect")' => Current("sponge", "connect")
      /\ Current("sponge", "state")' => Current("sponge", "state")
  BY <1>0, <1>1
<1>3. cache'.known
  BY <1>0 DEF Entry
<1>4. CASE m.kind = "connect"
  <2>1. cache'.on = m.on /\ cache'.st = cache.st
    BY <1>0, <1>4 DEF Entry
  <2>2. Current("web", "connect")' => m.on = robot.on
    BY <1>1, <1>4 DEF Fresh
  <2>3. Current("web", "state")' => Current("web", "state")
    BY <1>0, <1>1, <1>4
  <2> QED
    BY <1>0, <1>1, <1>2, <1>3, <2>1, <2>2, <2>3 DEF ViewInv
<1>5. CASE m.kind # "connect"
  <2>1. cache'.on = cache.on /\ cache'.st = m.st
    BY <1>0, <1>5 DEF Entry
  <2>2. Current("web", "connect")' => Current("web", "connect")
    BY <1>0, <1>1, <1>5
  <2>3. Current("web", "state")' /\ m.st # Invalid => m.st = robot.st
    BY <1>1, <1>5 DEF Fresh, Kinds
  <2>4. thrown' <=> thrown
    BY <1>0, <1>5
  <2> QED
    BY <1>0, <1>1, <1>2, <1>3, <2>1, <2>2, <2>3, <2>4 DEF ViewInv
<1> QED
  BY <1>4, <1>5

LEMMA ViewStep == TypeOK /\ ViewInv /\ [Next]_vars => ViewInv'
<1> SUFFICES ASSUME TypeOK, ViewInv, [Next]_vars
             PROVE  ViewInv'
  OBVIOUS
<1>0. /\ "sponge" \in Procs /\ "web" \in Procs /\ "state" \in Kinds /\ "connect" \in Kinds
      /\ "order" \in Kinds /\ robot \in Event
      /\ \A k \in Kinds : sent[k] \in Nat
  BY Numbers DEF Procs, Kinds, TypeOK
<1>1. ASSUME NEW s \in States, TellState(s) PROVE ViewInv'
  <2>1. /\ sent["state"] + 1 \in 0..MaxSent /\ sent'["state"] = sent["state"] + 1
    BY <1>0, <1>1, CountType DEF TellState
  <2>2. PICK m \in Message : m = [kind |-> "state", nr |-> sent["state"] + 1, st |-> s, on |-> TRUE]
    BY <1>0, <2>1 DEF Message
  <2>3. robot'.st = s /\ robot'.on = robot.on
    BY <1>0, <1>1 DEF TellState, Event
  <2>4. Fresh(m)'
    BY <1>0, <2>1, <2>2, <2>3 DEF Fresh
  <2> QED
    BY <1>0, <1>1, <2>2, <2>3, <2>4, ViewTold DEF TellState
<1>2. CASE TellOrder
  <2>1. /\ sent["order"] + 1 \in 0..MaxSent /\ sent'["order"] = sent["order"] + 1
    BY <1>0, <1>2, CountType DEF TellOrder
  <2>2. PICK m \in Message : m = [kind |-> "order", nr |-> sent["order"] + 1, st |-> Invalid, on |-> TRUE]
    BY <1>0, <2>1 DEF Message
  <2>3. Fresh(m)'
    BY <1>0, <2>1, <2>2 DEF Fresh
  <2> QED
    BY <1>0, <1>2, <2>2, <2>3, ViewTold DEF TellOrder
<1>3. ASSUME NEW on \in BOOLEAN, Connect(on) PROVE ViewInv'
  <2>1. /\ sent["connect"] + 1 \in 0..MaxSent /\ sent'["connect"] = sent["connect"] + 1
    BY <1>0, <1>3, CountType DEF Connect
  <2>2. PICK m \in Message : m = [kind |-> "connect", nr |-> sent["connect"] + 1, st |-> Invalid, on |-> on]
    BY <1>0, <2>1 DEF Message
  <2>3. robot'.on = on /\ robot'.st = robot.st
    BY <1>0, <1>3 DEF Connect, Event
  <2>4. Fresh(m)'
    BY <1>0, <2>1, <2>2, <2>3 DEF Fresh
  <2> QED
    BY <1>0, <1>3, <2>2, <2>3, <2>4, ViewTold DEF Connect
<1>4. CASE /\ \A r \in Procs : \A m \in net'[r] :
                m \in net[r] \/ (m = Retained /\ sent["connect"] # 0)
           /\ UNCHANGED <<robot, sent, row, cache, got, thrown>>
  <2>1. \A r \in Procs : \A m \in net'[r] : Fresh(m)'
    BY <1>4, ViewNet
  <2>2. \A r, k : Current(r, k)' <=> Current(r, k)
    BY <1>4 DEF Current
  <2> QED
    BY <1>4, <2>1, <2>2 DEF ViewInv
<1>5. ASSUME NEW p \in Procs, Reconnect(p) PROVE ViewInv'
  BY <1>4, <1>5, SubscribedType DEF Reconnect
<1>6. ASSUME NEW p \in Procs, NEW m \in net[p], Lose(p, m) PROVE ViewInv'
  <2>1. \A r \in Procs : net'[r] \subseteq net[r]
    BY <1>6 DEF Lose, TypeOK
  <2> QED
    BY <1>4, <1>6, <2>1 DEF Lose
<1>7. CASE RestartSponge
  BY <1>0, <1>4, <1>7, SubscribedType DEF RestartSponge
<1>8. CASE Publish \/ Subscribe \/ ReadConnect \/ ReadState \/ Show \/ Leave \/ UNCHANGED vars
  <2>1. UNCHANGED <<net, robot, sent, row, cache, got, thrown>>
    BY <1>8 DEF Publish, Subscribe, ReadConnect, ReadState, Show, Leave, vars
  <2> QED
    BY <1>4, <2>1
<1>9. CASE MakeEntry
  <2>1. /\ UNCHANGED <<net, robot, sent, row, got>>
        /\ cache' = Blank /\ (thrown' <=> thrown \/ cache.on)
    BY <1>9 DEF MakeEntry
  <2>2. \A r \in Procs : \A m \in net'[r] : Fresh(m)'
    BY <2>1, ViewNet
  <2>3. \A r, k : Current(r, k)' <=> Current(r, k)
    BY <2>1 DEF Current
  <2>4. cache'.on = FALSE /\ cache'.st = Invalid /\ cache'.known
    BY <2>1 DEF Blank
  <2>5. Current("web", "connect")' /\ ~thrown' => cache'.on = robot'.on
    <3>1. ~thrown' => ~thrown /\ ~cache.on
      BY <2>1
    <3>2. cache.on \in BOOLEAN /\ robot.on \in BOOLEAN
      BY <1>0 DEF TypeOK, Event
    <3> QED
      BY <2>1, <2>3, <2>4, <3>1, <3>2 DEF ViewInv
  <2> QED
    BY <2>1, <2>2, <2>3, <2>4, <2>5 DEF ViewInv
<1>10. CASE RestartWeb
  <2>1. /\ UNCHANGED <<robot, sent, row>> /\ cache' = Empty
        /\ Subscribed("web")
    BY <1>10 DEF RestartWeb
  <2>2. \A r \in Procs : \A m \in net'[r] : Fresh(m)'
    BY <1>0, <2>1, SubscribedType, ViewNet
  <2>3. /\ \A k \in Kinds : got'["web"][k] = 0 /\ got'["sponge"][k] = got["sponge"][k]
    BY <1>0, <1>10 DEF RestartWeb, TypeOK
  <2>4. \A r \in Procs, k \in Kinds : got'[r][k] <= sent'[k]
    BY <1>0, <2>1, <2>3 DEF ViewInv, Procs
  <2>5. Current("web", "connect")' => sent["connect"] = 0
    BY <1>0, <2>1, <2>3 DEF Current
  <2>6. /\ Current("sponge", "connect")' => Current("sponge", "connect")
        /\ Current("sponge", "state")' => Current("sponge", "state")
    BY <1>0, <2>1, <2>3 DEF Current
  <2>7. cache'.on = FALSE /\ cache'.st = Invalid
    BY <2>1 DEF Empty
  <2>8. robot.on \in BOOLEAN
    BY <1>0 DEF Event
  <2> QED
    BY <2>1, <2>2, <2>4, <2>5, <2>6, <2>7, <2>8 DEF ViewInv
<1> QED
  BY <1>1, <1>2, <1>3, <1>5, <1>6, <1>7, <1>8, <1>9, <1>10, ViewSponge, ViewWeb DEF Next

\* A process that has heard the last of a robot, however late, knows its
\* state: for any messages, lost, repeated or overtaken, and any restarts.
THEOREM Views == Spec => []ViewAgrees
BY TypeInit, TypeStep, ViewInit, ViewStep, ViewHolds, PTL DEF Spec

-----------------------------------------------------------------------------
(* The bar *)

View == [on |-> cache.on, st |-> GetRoboState]

\* The last event in the channel shows the view; with an empty channel the
\* page does, as far as it has read it.
Shows ==
  IF bar.q # <<>> THEN bar.q[Len(bar.q)] = View
  ELSE /\ bar.pc = "half" => bar.shown.on = cache.on
       /\ bar.pc = "open" => bar.shown = View

BarInv ==
  /\ bar.pc = "closed" => bar.q = <<>>
  /\ bar.pc # "closed" /\ ~reading /\ ~missed /\ cache.st # Invalid => Shows

LEMMA BarHolds == BarInv => BarShowsTheView
BY DEF BarInv, BarShowsTheView, Shows, View

LEMMA BarInit == Init => BarInv
BY DEF Init, Closed, BarInv

\* the state is in the cache, so that the table does not matter
LEMMA SameView ==
  ASSUME UNCHANGED cache, cache.st # Invalid
  PROVE  View' = View
BY DEF View, GetRoboState

LEMMA BarStep == TypeOK /\ BarInv /\ [Next]_vars => BarInv'
<1> SUFFICES ASSUME TypeOK, BarInv, [Next]_vars
             PROVE  BarInv'
  OBVIOUS
<1>0. bar \in Bar /\ bar.q \in Seq(Event) /\ bar.shown \in Event /\ cache \in Entry
  BY BarType DEF TypeOK, Entry
<1>1. CASE UNCHANGED <<cache, bar, reading, missed>>
  BY <1>1, SameView DEF BarInv, Shows
<1>2. ASSUME NEW m \in net["web"], ParseFromRobo(m) PROVE BarInv'
  <2>1. reading' = TRUE /\ UNCHANGED bar
    BY <1>2 DEF ParseFromRobo
  <2> QED
    BY <2>1 DEF BarInv
<1>3. CASE Publish
  <2>1. CASE ~Listening
    BY <1>3, <2>1 DEF Publish, Listening, BarInv
  <2>2. CASE Listening /\ missed' = TRUE /\ UNCHANGED bar
    BY <1>3, <2>2 DEF BarInv
  <2>3. CASE Listening /\ ~Full
    <3>1. /\ UNCHANGED cache
          /\ \/ bar' = [bar EXCEPT !.q = Append(@, View)]
             \/ cache.st = Invalid /\ \E e : bar' = [bar EXCEPT !.q = Append(@, e)]
      BY <1>3, <2>3 DEF Publish, View
    <3>2. CASE cache.st = Invalid
      <4>1. bar'.pc = bar.pc /\ bar.pc # "closed"
        BY <1>0, <2>3, <3>1 DEF Bar, Listening
      <4> QED
        BY <3>1, <3>2, <4>1 DEF BarInv
    <3>3. CASE cache.st # Invalid
      <4>1. View' = View /\ View \in Event
        BY <1>0, <3>1, <3>3, SameView, GetRoboStateType DEF View, Event, Entry
      <4>2. bar'.q = Append(bar.q, View) /\ bar'.pc = bar.pc /\ bar.pc # "closed"
        BY <1>0, <2>3, <3>1, <3>3 DEF Bar, Listening
      <4>3. bar'.q # <<>> /\ bar'.q[Len(bar'.q)] = View
        BY <1>0, <4>1, <4>2
      <4> QED
        BY <4>1, <4>2, <4>3 DEF BarInv, Shows
    <3> QED
      BY <3>2, <3>3
  <2> QED
    BY <1>3, <2>1, <2>2, <2>3 DEF Publish
<1>4. CASE Subscribe
  <2>1. bar'.pc = "subscribed" /\ bar'.q = <<>>
    BY <1>0, <1>4 DEF Subscribe, Bar, BarInv
  <2> QED
    BY <2>1 DEF BarInv, Shows
<1>5. CASE ReadConnect
  <2>1. /\ bar'.pc = (IF cache.known THEN "half" ELSE "unknown") /\ bar'.q = bar.q
        /\ bar'.shown.on = cache.on /\ bar.pc = "subscribed"
        /\ UNCHANGED <<cache, reading, missed>>
    BY <1>0, <1>5 DEF ReadConnect, Bar, Event
  <2> QED
    BY <2>1, SameView DEF BarInv, Shows
<1>6. CASE MakeEntry
  <2>1. cache'.st = Invalid /\ bar'.pc = "half"
    BY <1>0, <1>6 DEF MakeEntry, Blank, Bar
  <2> QED
    BY <2>1 DEF BarInv
<1>7. CASE ReadState
  <2>1. /\ bar'.pc = "open" /\ bar'.q = bar.q /\ bar.pc = "half"
        /\ UNCHANGED <<cache, reading, missed>>
    BY <1>0, <1>7 DEF ReadState, Bar
  <2>2. CASE cache.st = Invalid
    BY <2>1, <2>2 DEF BarInv
  <2>3. CASE cache.st # Invalid
    <3>1. bar' = [bar EXCEPT !.pc = "open", !.shown.st = GetRoboState]
      BY <1>7, <2>3 DEF ReadState
    <3>2. bar'.shown = [on |-> bar.shown.on, st |-> GetRoboState]
      BY <1>0, <3>1 DEF Bar, Event
    <3>3. bar.shown.on = cache.on => bar'.shown = View
      BY <3>2 DEF View
    <3> QED
      BY <2>1, <2>3, <3>3, SameView DEF BarInv, Shows
  <2> QED
    BY <2>2, <2>3
<1>8. CASE Show
  <2>1. /\ bar' = [bar EXCEPT !.shown = Head(bar.q), !.q = Tail(@)]
        /\ bar.pc = "open" /\ bar.q # <<>> /\ UNCHANGED <<cache, reading, missed>>
    BY <1>8 DEF Show
  <2>2. bar'.shown = Head(bar.q) /\ bar'.q = Tail(bar.q) /\ bar'.pc = "open"
    BY <1>0, <2>1 DEF Bar
  <2>3. /\ Tail(bar.q) = <<>> => Head(bar.q) = bar.q[Len(bar.q)]
        /\ Tail(bar.q) # <<>> => Tail(bar.q)[Len(Tail(bar.q))] = bar.q[Len(bar.q)]
    <3> DEFINE q == bar.q
    <3>1. q \in Seq(Event) /\ q # <<>> /\ Len(q) \in Nat /\ Len(q) > 0 /\ Len(Tail(q)) = Len(q) - 1
      BY <1>0, <2>1
    <3>2. Tail(q) = <<>> => Len(q) = 1
      <4>1. Len(<<>>) = 0
        OBVIOUS
      <4>2. Tail(q) = <<>> => Len(Tail(q)) = 0
        BY <4>1, Zenon
      <4> HIDE DEF q
      <4> QED
        BY <3>1, <4>2
    <3>3. Tail(q) # <<>> => Len(Tail(q)) \in 1..Len(Tail(q))
      BY <3>1
    <3>4. Head(q) = q[1] /\ \A k \in 1..Len(Tail(q)) : Tail(q)[k] = q[k + 1]
      BY <3>1
    <3> HIDE DEF q
    <3>5. Tail(q) # <<>> => Tail(q)[Len(q) - 1] = q[(Len(q) - 1) + 1]
      BY <3>1, <3>3, <3>4
    <3>6. Tail(q) # <<>> => Tail(q)[Len(Tail(q))] = q[Len(q)]
      BY <3>1, <3>5
    <3> QED
      BY <3>2, <3>4, <3>6 DEF q
  <2>4. ~reading /\ ~missed /\ cache.st # Invalid => bar.q[Len(bar.q)] = View /\ View' = View
    BY <2>1, SameView DEF BarInv, Shows
  <2> QED
    BY <2>1, <2>2, <2>3, <2>4 DEF BarInv, Shows
<1>9. CASE Leave \/ RestartWeb
  BY <1>9 DEF Leave, RestartWeb, Closed, BarInv
<1>10. (\E s \in States : TellState(s)) \/ TellOrder \/ (\E on \in BOOLEAN : Connect(on))
         \/ (\E p \in Procs : Reconnect(p) \/ \E m \in net[p] : Lose(p, m))
         \/ (\E m \in net["sponge"] : PacketFromRobo(m)) \/ RestartSponge \/ UNCHANGED vars
       => UNCHANGED <<cache, bar, reading, missed>>
  BY DEF TellState, TellOrder, Connect, Reconnect, Lose, PacketFromRobo, RestartSponge, vars
<1> QED
  BY <1>1, <1>2, <1>3, <1>4, <1>5, <1>6, <1>7, <1>8, <1>9, <1>10 DEF Next

\* The bar of an open page shows what orders are accepted by, in whatever
\* order the page subscribes and reads while messages arrive.
THEOREM BarFollows == Spec => []BarShowsTheView
BY TypeInit, TypeStep, BarInit, BarStep, BarHolds, PTL DEF Spec

=============================================================================
