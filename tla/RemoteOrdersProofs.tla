------------------------ MODULE RemoteOrdersProofs ------------------------
(***************************************************************************)
(* Theorems about RemoteOrders, for any number of clients, robots, orders  *)
(* and faults, and any prices, credit and discount.                        *)
(***************************************************************************)
EXTENDS RemoteOrders, FiniteSetTheorems, TLAPS

-----------------------------------------------------------------------------
(* Typing *)

LEMMA BonusType ==
  ASSUME NEW price \in Nat
  PROVE  Bonus(price) \in Nat
<1>1. Discount \in Nat
  BY OrdersAssumption
<1>2. price * Discount \in Nat
  BY <1>1
<1> QED
  BY <1>2 DEF Bonus

LEMMA OrderType ==
  ASSUME TypeOK, NEW o \in Orders
  PROVE  /\ ord[o] \in Order
         /\ ord[o].ph \in Phases /\ ord[o].cl \in Clients /\ ord[o].via \in Procs
         /\ ord[o].rb \in Robots /\ ord[o].max \in Nat /\ ord[o].amt \in Nat
  BY DEF TypeOK, Order

LEMMA AvailableType ==
  ASSUME TypeOK, NEW c \in Clients
  PROVE  Available(c) \in Int
  BY OrdersAssumption DEF Available, TypeOK

LEMMA FundsType ==
  ASSUME TypeOK, NEW c \in Clients, HasFunds(c)
  PROVE  Available(c) \in Nat
  BY AvailableType DEF HasFunds

LEMMA PhaseType ==
  ASSUME TypeOK, NEW o \in Orders, NEW p \in Phases, Phase(o, p)
  PROVE  ord' \in [Orders -> Order]
<1>1. [ord[o] EXCEPT !.ph = p] \in Order
  BY OrderType DEF Order
<1> QED
  BY <1>1 DEF Phase, TypeOK

LEMMA FaultType ==
  ASSUME TypeOK, NEW k, Fault(k)
  PROVE  faults' \in Nat
  BY DEF TypeOK, Fault

LEMMA WithdrawType ==
  ASSUME TypeOK, NEW c \in Clients, NEW a \in Int, NEW n, Withdraw(c, a, n)
  PROVE  balance' \in [Clients -> Int] /\ faults' \in Nat
  BY FaultType DEF TypeOK, Withdraw

LEMMA PublishType ==
  ASSUME TypeOK, NEW o \in Orders, NEW st \in Replies, Publish(o, st)
  PROVE  net' \in [Procs -> SUBSET Message]
<1>1. [o |-> o, st |-> st, copy |-> 0] \in Message
  BY DEF Message
<1> QED
  BY <1>1 DEF Publish, TypeOK

LEMMA TypeInit == Init => TypeOK
<1> SUFFICES ASSUME Init PROVE TypeOK
  OBVIOUS
<1>1. PICK c \in Clients, r \in Robots :
        ord = [o \in Orders |-> [ph |-> "new", cl |-> c, via |-> "tg", rb |-> r,
                                 max |-> 0, amt |-> 0]]
  BY DEF Init
<1>2. [ph |-> "new", cl |-> c, via |-> "tg", rb |-> r, max |-> 0, amt |-> 0] \in Order
  BY DEF Order, Phases, Procs
<1>3. ord \in [Orders -> Order]
  BY <1>1, <1>2
<1>4. balance \in [Clients -> Int] /\ topped \in [n : Nat, by : [Clients -> Nat]]
  BY OrdersAssumption DEF Init
<1> QED
  BY <1>3, <1>4 DEF Init, TypeOK

LEMMA TypeNext == TypeOK /\ [Next]_vars => TypeOK'
<1> SUFFICES ASSUME TypeOK, [Next]_vars PROVE TypeOK'
  OBVIOUS
<1>1. ASSUME NEW o \in Orders, NEW c \in Clients, NEW r \in Robots, TgClientGet(o, c, r)
      PROVE  TypeOK'
  <2>1. HasFunds(c) =>
          [ord[o] EXCEPT !.ph = "read", !.cl = c, !.via = "tg", !.rb = r, !.max = Available(c)] \in Order
    BY OrderType, FundsType DEF Order, Phases, Procs
  <2>2. ord' \in [Orders -> Order]
    BY <1>1, <2>1, PhaseType DEF TgClientGet, Phases, TypeOK
  <2>3. loop' \in [Procs -> Orders \cup {None}]
    BY <1>1 DEF TgClientGet, TypeOK
  <2> QED
    BY <1>1, <2>2, <2>3, FaultType DEF TgClientGet, TypeOK
<1>2. ASSUME NEW o \in Orders, TgSendCookCmd(o) PROVE TypeOK'
  <2>1. ord' \in [Orders -> Order]
    BY <1>2, PhaseType DEF TgSendCookCmd, Phases
  <2> QED
    BY <1>2, <2>1 DEF TgSendCookCmd, TypeOK
<1>3. ASSUME NEW o \in Orders, NEW c \in Clients, NEW r \in Robots, WebCheckRobot(o, c, r)
      PROVE  TypeOK'
  <2>1. [ord[o] EXCEPT !.ph = "checked", !.cl = c, !.via = "web", !.rb = r] \in Order
    BY OrderType DEF Order, Phases, Procs
  <2> QED
    BY <1>3, <2>1 DEF WebCheckRobot, TypeOK
<1>4. ASSUME NEW o \in Orders, WebClientGet(o) PROVE TypeOK'
  <2>1. HasFunds(ord[o].cl) => [ord[o] EXCEPT !.ph = "read", !.max = Available(ord[o].cl)] \in Order
    BY OrderType, FundsType DEF Order, Phases
  <2>2. ord' \in [Orders -> Order]
    BY <1>4, <2>1, PhaseType DEF WebClientGet, Phases, TypeOK
  <2> QED
    BY <1>4, <2>2, FaultType DEF WebClientGet, TypeOK
<1>5. ASSUME NEW o \in Orders, WebSend(o) PROVE TypeOK'
  <2>1. ord' \in [Orders -> Order]
    BY <1>5, PhaseType DEF WebSend, Phases
  <2> QED
    BY <1>5, <2>1 DEF WebSend, TypeOK
<1>6. ASSUME NEW o \in Orders, RobotStarts(o) PROVE TypeOK'
  <2>1. PICK price \in Prices : ord' = [ord EXCEPT ![o] = [@ EXCEPT !.ph = "making", !.amt = price]]
    BY <1>6 DEF RobotStarts
  <2>2. [ord[o] EXCEPT !.ph = "making", !.amt = price] \in Order
    BY OrderType, OrdersAssumption DEF Order, Phases
  <2>3. ord' \in [Orders -> Order]
    BY <2>1, <2>2 DEF TypeOK
  <2>4. robot' \in [Robots -> Orders \cup {None}]
    BY <1>6 DEF RobotStarts, TypeOK
  <2>5. net' \in [Procs -> SUBSET Message]
    BY <1>6, PublishType DEF RobotStarts, Replies
  <2> QED
    BY <1>6, <2>3, <2>4, <2>5 DEF RobotStarts, TypeOK
<1>7. ASSUME NEW o \in Orders, RobotRefuses(o) PROVE TypeOK'
  <2>1. ord' \in [Orders -> Order]
    BY <1>7, PhaseType DEF RobotRefuses, Phases
  <2>2. net' \in [Procs -> SUBSET Message]
    BY <1>7, PublishType DEF RobotRefuses, Replies
  <2> QED
    BY <1>7, <2>1, <2>2 DEF RobotRefuses, TypeOK
<1>8. ASSUME NEW o \in Orders, RobotCompletes(o) \/ RobotFails(o) PROVE TypeOK'
  <2>1. ord' \in [Orders -> Order]
    BY <1>8, PhaseType DEF RobotCompletes, RobotFails, RobotEnds, Phases
  <2>2. net' \in [Procs -> SUBSET Message]
    BY <1>8, PublishType DEF RobotCompletes, RobotFails, RobotEnds, Replies
  <2>3. robot' \in [Robots -> Orders \cup {None}]
    BY <1>8 DEF RobotCompletes, RobotFails, RobotEnds, TypeOK
  <2> QED
    BY <1>8, <2>1, <2>2, <2>3 DEF RobotCompletes, RobotFails, RobotEnds, TypeOK
<1>9. ASSUME NEW m \in timers, TgBonus(m) PROVE TypeOK'
  <2>1. m.o \in Orders
    BY DEF TypeOK, Message
  <2>2. -Bonus(ord[m.o].amt) \in Int /\ ord[m.o].cl \in Clients
    BY <2>1, OrderType, BonusType
  <2>3. balance' \in [Clients -> Int] /\ faults' \in Nat
    BY <1>9, <2>2, WithdrawType DEF TgBonus
  <2> QED
    BY <1>9, <2>3 DEF TgBonus, TypeOK
<1>10. CASE WebCashback
  <2> DEFINE o == loop["web"]
  <2>1. o \in Orders /\ -Bonus(ord[o].amt) \in Int
    BY <1>10, OrderType, BonusType DEF WebCashback, TypeOK, Procs
  <2>2. balance' \in [Clients -> Int] /\ faults' \in Nat
    BY <1>10, <2>1, OrderType, WithdrawType, FaultType DEF WebCashback, TypeOK
  <2> QED
    BY <1>10, <2>2 DEF WebCashback, TypeOK
<1>11. ASSUME NEW p \in Procs, NEW m \in net[p], Receive(p, m) PROVE TypeOK'
  <2>1. m \in Message /\ m.o \in Orders
    BY DEF TypeOK, Message
  <2>2. balance' \in [Clients -> Int] /\ faults' \in Nat
    BY <1>11, <2>1, OrderType, WithdrawType, FaultType DEF Receive, Charge, TypeOK
  <2>3. timers' \subseteq Message /\ loop' \in [Procs -> Orders \cup {None}]
    BY <1>11, <2>1 DEF Receive, Charge, Reward, TypeOK
  <2>4. \A n \in 0..2 : Extra(m, n) \in Nat
    BY <2>1 DEF Extra
  <2>5. again' \in [Orders -> Nat]
    <3>1. again \in [Orders -> Nat] /\ \A n \in 0..2 : again[m.o] + Extra(m, n) \in Nat
      BY <2>1, <2>4 DEF TypeOK
    <3>2. \A n \in 0..2 : [again EXCEPT ![m.o] = @ + Extra(m, n)] \in [Orders -> Nat]
      BY <3>1
    <3> QED
      BY <1>11, <3>1, <3>2 DEF Receive, Charge
  <2>6. net' \in [Procs -> SUBSET Message]
    BY <1>11 DEF Receive, TypeOK
  <2> QED
    BY <1>11, <2>2, <2>3, <2>5, <2>6 DEF Receive, TypeOK
<1>12. ASSUME NEW p \in Procs, NEW m \in net[p], Lose(p, m) \/ Repeat(p, m) PROVE TypeOK'
  <2>1. m \in Message /\ [m EXCEPT !.copy = @ + 1] \in Message
    BY DEF TypeOK, Message
  <2>2. net' \in [Procs -> SUBSET Message]
    BY <1>12, <2>1 DEF Lose, Repeat, TypeOK
  <2>3. faults' \in Nat
    BY <1>12, FaultType DEF Lose, Repeat
  <2> QED
    BY <1>12, <2>2, <2>3 DEF Lose, Repeat, TypeOK
<1>13. ASSUME NEW p \in Procs, Crash(p) PROVE TypeOK'
  <2>1. \A o \in Orders : [ord[o] EXCEPT !.ph = "over"] \in Order
    BY OrderType DEF Order, Phases
  <2>2. ord' \in [Orders -> Order]
    BY <1>13, <2>1 DEF Crash, TypeOK
  <2>3. net' \in [Procs -> SUBSET Message]
    BY <1>13 DEF Crash, TypeOK
  <2> QED
    BY <1>13, <2>2, <2>3, FaultType DEF Crash, TypeOK
<1>14. ASSUME NEW c \in Clients, NEW a \in TopUps, TopUp(c, a) PROVE TypeOK'
  <2>1. a \in Nat /\ -a \in Int
    BY OrdersAssumption
  <2>2. topped' \in [n : Nat, by : [Clients -> Nat]]
    BY <1>14, <2>1 DEF TopUp, TypeOK
  <2>3. balance' \in [Clients -> Int] /\ faults' \in Nat
    BY <1>14, <2>1, WithdrawType DEF TopUp
  <2> QED
    BY <1>14, <2>2, <2>3 DEF TopUp, TypeOK
<1>15. CASE UNCHANGED vars
  BY <1>15 DEF vars, TypeOK
<1> QED
  BY <1>1, <1>2, <1>3, <1>4, <1>5, <1>6, <1>7, <1>8, <1>9, <1>10, <1>11, <1>12, <1>13, <1>14, <1>15
     DEF Next

(* Typing: every variable keeps its type, whatever the prices, the credit  *)
(* and the faults.                                                         *)
THEOREM Typing == Spec => []TypeOK
  BY TypeInit, TypeNext, PTL DEF Spec

-----------------------------------------------------------------------------
(* The minus of a patient client.  What an order may still take from the   *)
(* balance was available when it was asked for, and the client has no      *)
(* second order that could take it too.                                    *)

\* the robot's complete message is on its way to the process that charges
Unbilled(o) == ord[o].ph = "made" /\ ~Settled(o)

Covered(o) == ord[o].cl \in Patient /\ OnceEach(ord[o].cl) =>
  /\ ord[o].ph \in {"read", "sent"} => ord[o].max <= Available(ord[o].cl)
  /\ ord[o].ph = "making" \/ Unbilled(o) => ord[o].amt <= Available(ord[o].cl)

OneAtATime ==
  \A o1, o2 \in Orders :
    o1 # o2 /\ ord[o1].cl = ord[o2].cl /\ ord[o1].cl \in Patient => Settled(o1) \/ Settled(o2)

CompleteMeansMade ==
  \A p \in Procs : \A m \in net[p] : m.st = "complete" => ord[m.o].ph = "made"

AgainMeansMade == \A o \in Orders : ord[o].ph # "made" => again[o] = 0

MinusInv ==
  /\ TypeOK /\ PatientMinus /\ OneAtATime /\ CompleteMeansMade /\ AgainMeansMade
  /\ \A o \in Orders : Covered(o)

LEMMA MinusInit == Init => MinusInv
<1> SUFFICES ASSUME Init PROVE MinusInv
  OBVIOUS
<1>1. TypeOK
  BY TypeInit
<1>2. \A o \in Orders : ord[o].ph = "new"
  BY DEF Init
<1>3. \A o \in Orders : Settled(o) /\ Covered(o)
  BY <1>2 DEF Settled, Covered, Unbilled
<1>4. PatientMinus
  BY OrdersAssumption DEF Init, PatientMinus
<1>5. CompleteMeansMade /\ AgainMeansMade
  BY DEF Init, CompleteMeansMade, AgainMeansMade
<1> QED
  BY <1>1, <1>3, <1>4, <1>5 DEF MinusInv, OneAtATime

\* no message asks for a charge that was not asked for before
NoNews ==
  \A p \in Procs : \A m \in net'[p] :
    \/ m \in net[p]
    \/ m.copy # 0 /\ \E n \in net[p] : n.o = m.o /\ n.st = m.st

\* balances grow, messages go and orders end: nothing new is asked for
LEMMA Calm ==
  ASSUME MinusInv, TypeOK',
         NoNews, UNCHANGED again,
         \A c \in Clients : balance'[c] >= balance[c],
         \A o \in Orders :
           \/ ord'[o] = ord[o]
           \/ ord'[o].ph = "over" /\ ord'[o].cl = ord[o].cl /\ ord[o].ph # "made"
  PROVE  MinusInv'
<1> TypeOK /\ PatientMinus /\ OneAtATime /\ CompleteMeansMade /\ AgainMeansMade
  BY DEF MinusInv
<1>0. \A c : OnceEach(c)' <=> OnceEach(c)
  BY DEF OnceEach
<1>1. ASSUME NEW o \in Orders, Settled(o) PROVE Settled(o)'
  <2>1. ord[o].via \in Procs
    BY OrderType
  <2>2. CASE ord'[o] = ord[o] /\ ord[o].ph = "made"
    <3>1. [o |-> o, st |-> "complete", copy |-> 0] \notin net[ord[o].via]
      BY <1>1, <2>2 DEF Settled
    <3>2. [o |-> o, st |-> "complete", copy |-> 0] \notin net'[ord[o].via]
      BY <2>1, <3>1 DEF NoNews
    <3> QED
      BY <2>2, <3>2 DEF Settled
  <2>3. CASE ord'[o] = ord[o] /\ ord[o].ph # "made"
    BY <1>1, <2>3 DEF Settled
  <2>4. CASE ord'[o].ph = "over"
    BY <2>4 DEF Settled
  <2> QED
    BY <2>2, <2>3, <2>4
<1>2. OneAtATime'
  <2> SUFFICES ASSUME NEW o1 \in Orders, NEW o2 \in Orders, o1 # o2,
                      ord'[o1].cl = ord'[o2].cl, ord'[o1].cl \in Patient
               PROVE  Settled(o1)' \/ Settled(o2)'
    BY DEF OneAtATime
  <2>1. ord[o1].cl = ord'[o1].cl /\ ord[o2].cl = ord'[o2].cl
    OBVIOUS
  <2> QED
    BY <1>1, <2>1 DEF OneAtATime
<1>3. \A c \in Clients : Available(c)' >= Available(c)
  BY OrdersAssumption DEF Available, TypeOK
<1>6. PatientMinus'
  <2> SUFFICES ASSUME NEW c \in Patient, OnceEach(c)' PROVE balance'[c] >= -Credit
    BY DEF PatientMinus
  <2>1. c \in Clients /\ balance[c] >= -Credit
    BY <1>0, OrdersAssumption DEF PatientMinus
  <2> QED
    BY <2>1, OrdersAssumption DEF TypeOK
<1>4. CompleteMeansMade' /\ AgainMeansMade'
  <2>1. ASSUME NEW p \in Procs, NEW m \in net'[p], m.st = "complete"
        PROVE  ord'[m.o].ph = "made"
    <3>1. PICK n \in net[p] : n.o = m.o /\ n.st = "complete"
      BY <2>1 DEF NoNews
    <3>2. n.o \in Orders
      BY DEF TypeOK, Message
    <3> QED
      BY <3>1, <3>2 DEF CompleteMeansMade
  <2>2. AgainMeansMade'
    BY DEF AgainMeansMade
  <2> QED
    BY <2>1, <2>2 DEF CompleteMeansMade
<1>5. ASSUME NEW o \in Orders PROVE Covered(o)'
  <2>1. CASE ord'[o].ph = "over"
    BY <2>1 DEF Covered, Unbilled
  <2>2. CASE ord'[o] = ord[o]
    <3>1. Covered(o) /\ (Unbilled(o)' => Unbilled(o)) /\ (OnceEach(ord[o].cl)' <=> OnceEach(ord[o].cl))
      BY <1>0, <1>1, <2>2 DEF MinusInv, Unbilled
    <3>2. Available(ord[o].cl)' >= Available(ord[o].cl)
      BY <1>3, OrderType
    <3>3. /\ ord[o].max \in Int /\ ord[o].amt \in Int
          /\ Available(ord[o].cl) \in Int /\ Available(ord[o].cl)' \in Int
      <4>1. ord[o].max \in Int /\ ord[o].amt \in Int /\ ord[o].cl \in Clients
        BY OrderType
      <4>2. Available(ord[o].cl) \in Int
        BY <4>1, AvailableType
      <4>3. balance' \in [Clients -> Int]
        BY DEF TypeOK
      <4>4. Available(ord[o].cl)' \in Int
        BY <2>2, <4>1, <4>3, OrdersAssumption DEF Available
      <4> QED
        BY <4>1, <4>2, <4>4
    <3> QED
      BY <2>2, <3>1, <3>2, <3>3 DEF Covered, Available
  <2> QED
    BY <2>1, <2>2
<1> QED
  BY <1>2, <1>4, <1>5, <1>6 DEF MinusInv

\* an order that was not made was not charged twice
LEMMA OnceBefore ==
  ASSUME MinusInv, UNCHANGED again, NEW o \in Orders, ord[o].ph # "made",
         \A u \in Orders \ {o} : ord'[u] = ord[u], NEW c, OnceEach(c)'
  PROVE  OnceEach(c)
<1>1. again[o] = 0
  BY DEF MinusInv, AgainMeansMade
<1> QED
  BY <1>1 DEF OnceEach

\* one order moves on, and its client has no other
LEMMA OrderMoves ==
  ASSUME MinusInv, TypeOK', NEW o \in Orders, UNCHANGED <<balance, again>>, again[o] = 0,
         \A u \in Orders \ {o} : ord'[u] = ord[u],
         \A p \in Procs : \A m \in net'[p] : m \in net[p] \/ m.o = o,
         CompleteMeansMade', Covered(o)',
         \/ Settled(o)'
         \/ \A u \in Orders \ {o} : ord[u].cl = ord'[o].cl /\ ord[u].cl \in Patient => Settled(u)
  PROVE  MinusInv'
<1> TypeOK /\ PatientMinus /\ OneAtATime /\ AgainMeansMade
  BY DEF MinusInv
<1>0. ASSUME NEW c, OnceEach(c)' PROVE OnceEach(c)
  BY <1>0 DEF OnceEach
<1>1. ASSUME NEW u \in Orders \ {o}, Settled(u) PROVE Settled(u)'
  BY <1>1, OrderType DEF Settled
<1>2. OneAtATime'
  <2> SUFFICES ASSUME NEW o1 \in Orders, NEW o2 \in Orders, o1 # o2, ord'[o1].cl = ord'[o2].cl,
                      ord'[o1].cl \in Patient
               PROVE  Settled(o1)' \/ Settled(o2)'
    BY DEF OneAtATime
  <2>1. CASE o1 # o /\ o2 # o
    BY <1>1, <2>1 DEF OneAtATime
  <2>2. CASE o1 = o
    BY <1>1, <2>2
  <2>3. CASE o2 = o
    BY <1>1, <2>3
  <2> QED
    BY <2>1, <2>2, <2>3
<1>3. ASSUME NEW u \in Orders \ {o} PROVE Covered(u)'
  <2>1. /\ Covered(u) /\ (Unbilled(u)' => Unbilled(u)) /\ ord'[u] = ord[u]
        /\ OnceEach(ord[u].cl)' => OnceEach(ord[u].cl)
    BY <1>0, <1>1 DEF MinusInv, Unbilled
  <2> QED
    BY <2>1 DEF Covered, Available
<1>4. PatientMinus'
  BY <1>0 DEF PatientMinus
<1>5. AgainMeansMade'
  BY DEF AgainMeansMade
<1> QED
  BY <1>2, <1>3, <1>4, <1>5 DEF MinusInv

\* the charge of the one order that the client waits for
LEMMA ChargeCovered ==
  ASSUME MinusInv, TypeOK', NEW p \in Procs, NEW m \in net[p], m.st = "complete", m.copy = 0,
         ord[m.o].via = p, net' = [net EXCEPT ![p] = @ \ {m}], UNCHANGED <<ord, again>>,
         balance' = [balance EXCEPT ![ord[m.o].cl] = @ - ord[m.o].amt]
  PROVE  MinusInv'
<1> DEFINE o == m.o
           c == ord[o].cl
<1> TypeOK /\ PatientMinus /\ OneAtATime /\ CompleteMeansMade /\ AgainMeansMade
  BY DEF MinusInv
<1>0. \A d : OnceEach(d)' <=> OnceEach(d)
  BY DEF OnceEach
<1>1. o \in Orders /\ m = [o |-> o, st |-> "complete", copy |-> 0]
  <2>1. m \in Message
    BY DEF TypeOK
  <2> QED
    BY <2>1 DEF Message
<1>2. ord[o].ph = "made" /\ ~Settled(o) /\ c \in Clients /\ ord[o].amt \in Nat
  BY <1>1, OrderType DEF CompleteMeansMade, Settled
<1>3. c \in Patient /\ OnceEach(c) => ord[o].amt <= Available(c)
  BY <1>1, <1>2 DEF MinusInv, Covered, Unbilled
<1>4. PatientMinus'
  BY <1>0, <1>2, <1>3, OrdersAssumption DEF PatientMinus, Available, TypeOK
<1>5. Settled(o)'
  BY <1>1, <1>2 DEF Settled, TypeOK
<1>6. ASSUME NEW u \in Orders, Settled(u) PROVE Settled(u)'
  BY <1>6, OrderType DEF Settled, TypeOK
<1>7. OneAtATime'
  BY <1>6 DEF OneAtATime
<1>8. CompleteMeansMade' /\ AgainMeansMade'
  BY DEF CompleteMeansMade, AgainMeansMade, TypeOK
<1>9. ASSUME NEW u \in Orders PROVE Covered(u)'
  <2>1. CASE ord[u].cl = c /\ c \in Patient
    <3>1. Settled(u)'
      BY <1>1, <1>2, <1>5, <1>6, <2>1 DEF OneAtATime
    <3> QED
      BY <3>1 DEF Settled, Covered, Unbilled
  <2>2. CASE ord[u].cl # c
    <3>1. ord[u].cl \in Clients /\ balance'[ord[u].cl] = balance[ord[u].cl]
      BY <1>2, <2>2, OrderType DEF TypeOK
    <3>2. /\ Covered(u) /\ (Unbilled(u)' => Unbilled(u))
          /\ OnceEach(ord[u].cl)' <=> OnceEach(ord[u].cl)
      BY <1>0, <1>6 DEF MinusInv, Unbilled
    <3> QED
      BY <3>1, <3>2 DEF Covered, Available
  <2>3. CASE ord[u].cl \notin Patient
    BY <2>3 DEF Covered
  <2> QED
    BY <2>1, <2>2, <2>3
<1> QED
  BY <1>4, <1>7, <1>8, <1>9 DEF MinusInv

\* a charge too many: of its client nothing is promised any more
LEMMA ChargedAgain ==
  ASSUME MinusInv, TypeOK', NEW o \in Orders, ord[o].ph = "made", again'[o] # 0, NoNews,
         UNCHANGED ord, \A u \in Orders \ {o} : again'[u] = again[u],
         \A c \in Clients \ {ord[o].cl} : balance'[c] = balance[c]
  PROVE  MinusInv'
<1> DEFINE k == ord[o].cl
<1> TypeOK /\ PatientMinus /\ OneAtATime /\ CompleteMeansMade /\ AgainMeansMade
  BY DEF MinusInv
<1>1. ~OnceEach(k)' /\ \A c : c # k => (OnceEach(c)' <=> OnceEach(c))
  BY DEF OnceEach
<1>2. ASSUME NEW u \in Orders, Settled(u) PROVE Settled(u)'
  BY <1>2, OrderType DEF Settled, NoNews
<1>3. OneAtATime' /\ AgainMeansMade'
  BY <1>2 DEF OneAtATime, AgainMeansMade
<1>4. CompleteMeansMade'
  BY DEF CompleteMeansMade, NoNews
<1>5. PatientMinus'
  BY <1>1, OrdersAssumption DEF PatientMinus
<1>6. ASSUME NEW u \in Orders PROVE Covered(u)'
  <2>1. CASE ord[u].cl = k
    BY <1>1, <2>1 DEF Covered
  <2>2. CASE ord[u].cl # k
    <3>1. ord[u].cl \in Clients /\ balance'[ord[u].cl] = balance[ord[u].cl]
      BY <2>2, OrderType
    <3>2. /\ Covered(u) /\ (Unbilled(u)' => Unbilled(u))
          /\ OnceEach(ord[u].cl)' <=> OnceEach(ord[u].cl)
      BY <1>1, <1>2, <2>2 DEF MinusInv, Unbilled
    <3> QED
      BY <3>1, <3>2 DEF Covered, Available
  <2> QED
    BY <2>1, <2>2
<1> QED
  BY <1>3, <1>4, <1>5, <1>6 DEF MinusInv

\* an order that was not made yet moves on
LEMMA OrderStep ==
  ASSUME MinusInv, TypeOK', NEW o \in Orders, UNCHANGED <<balance, again>>, ord[o].ph # "made",
         \A u \in Orders \ {o} : ord'[u] = ord[u],
         \A p \in Procs : \A m \in net'[p] :
           \/ m \in net[p]
           \/ m.o = o /\ (m.st = "complete" => ord'[o].ph = "made"),
         Covered(o)',
         \/ \A u \in Orders \ {o} : ord[u].cl = ord'[o].cl /\ ord[u].cl \in Patient => Settled(u)
         \/ ~Settled(o) /\ ord'[o].cl = ord[o].cl
  PROVE  MinusInv'
<1> TypeOK /\ OneAtATime /\ CompleteMeansMade /\ AgainMeansMade
  BY DEF MinusInv
<1>0. again[o] = 0
  BY DEF AgainMeansMade
<1>1. CompleteMeansMade'
  <2> SUFFICES ASSUME NEW p \in Procs, NEW m \in net'[p], m.st = "complete"
               PROVE  ord'[m.o].ph = "made"
    BY DEF CompleteMeansMade
  <2>1. CASE m \in net[p]
    <3>1. ord[m.o].ph = "made" /\ m.o \in Orders
      BY <2>1 DEF CompleteMeansMade, TypeOK, Message
    <3> QED
      BY <3>1
  <2> QED
    BY <2>1
<1>2. \A u \in Orders \ {o} : ord[u].cl = ord'[o].cl /\ ord[u].cl \in Patient => Settled(u)
  BY DEF OneAtATime
<1> QED
  BY <1>0, <1>1, <1>2, OrderMoves

LEMMA MinusNext == ASSUME MinusInv, [Next]_vars PROVE MinusInv'
<1> TypeOK
  BY DEF MinusInv
<1> TypeOK'
  BY TypeNext
<1>1. ASSUME NEW o \in Orders, NEW c \in Clients, NEW r \in Robots, TgClientGet(o, c, r)
      PROVE  MinusInv'
  <2>1. CASE Phase(o, "over")
    BY <1>1, <2>1, Calm, OrderType DEF TgClientGet, Phase, NoNews, TypeOK, Order
  <2>2. CASE ord' = [ord EXCEPT ![o] = [@ EXCEPT !.ph = "read", !.cl = c, !.via = "tg",
                                                 !.rb = r, !.max = Available(c)]]
    <3>1. ord'[o].ph = "read" /\ ord'[o].cl = c /\ ord'[o].max = Available(c)
      BY <2>2, OrderType DEF TypeOK, Order
    <3>2. Covered(o)'
      BY <1>1, <3>1, AvailableType DEF TgClientGet, Covered, Unbilled, Available
    <3>3. \A u \in Orders : ord[u].cl = c /\ c \in Patient => Settled(u)
      BY <1>1 DEF TgClientGet, MayOrder
    <3> QED
      BY <1>1, <2>2, <3>1, <3>2, <3>3, OrderStep DEF TgClientGet, TypeOK
  <2> QED
    BY <1>1, <2>1, <2>2 DEF TgClientGet
<1>2. ASSUME NEW o \in Orders, TgSendCookCmd(o) PROVE MinusInv'
  <2>1. CASE Phase(o, "over")
    BY <1>2, <2>1, Calm, OrderType DEF TgSendCookCmd, Phase, NoNews, TypeOK, Order
  <2>2. CASE Phase(o, "sent")
    <3>1. ord'[o] = [ord[o] EXCEPT !.ph = "sent"] /\ ord[o].ph = "read"
      BY <1>2, <2>2 DEF TgSendCookCmd, Phase, TypeOK
    <3>2. OnceEach(ord[o].cl)' => OnceEach(ord[o].cl)
      BY <1>2, <2>2, <3>1, OnceBefore DEF TgSendCookCmd, Phase, TypeOK
    <3>4. Covered(o)'
      BY <1>2, <3>1, <3>2, OrderType
         DEF TgSendCookCmd, MinusInv, Covered, Unbilled, Available, Order
    <3>3. ~Settled(o) /\ ord'[o].cl = ord[o].cl
      BY <3>1, OrderType DEF Settled, Order
    <3> QED
      BY <1>2, <2>2, <3>1, <3>3, <3>4, OrderStep DEF TgSendCookCmd, Phase, TypeOK
  <2> QED
    BY <1>2, <2>1, <2>2 DEF TgSendCookCmd
<1>3. ASSUME NEW o \in Orders, NEW c \in Clients, NEW r \in Robots, WebCheckRobot(o, c, r)
      PROVE  MinusInv'
  <2>1. ord'[o].ph = "checked" /\ ord'[o].cl = c
    BY <1>3, OrderType DEF WebCheckRobot, TypeOK, Order
  <2>2. Covered(o)'
    BY <2>1 DEF Covered, Unbilled
  <2>3. \A u \in Orders : ord[u].cl = c /\ c \in Patient => Settled(u)
    BY <1>3 DEF WebCheckRobot, MayOrder
  <2> QED
    BY <1>3, <2>1, <2>2, <2>3, OrderStep DEF WebCheckRobot, TypeOK
<1>4. ASSUME NEW o \in Orders, WebClientGet(o) PROVE MinusInv'
  <2>1. CASE Phase(o, "over")
    BY <1>4, <2>1, Calm, OrderType DEF WebClientGet, Phase, NoNews, TypeOK, Order
  <2>2. CASE ord' = [ord EXCEPT ![o] = [@ EXCEPT !.ph = "read", !.max = Available(ord[o].cl)]]
    <3>1. /\ ord[o].ph = "checked" /\ ord'[o].ph = "read" /\ ord'[o].cl = ord[o].cl
          /\ ord'[o].max = Available(ord[o].cl)
      BY <1>4, <2>2, OrderType DEF WebClientGet, TypeOK, Order
    <3>2. Covered(o)'
      BY <1>4, <3>1, OrderType, AvailableType DEF WebClientGet, Covered, Unbilled, Available
    <3>3. ~Settled(o)
      BY <3>1 DEF Settled
    <3> QED
      BY <1>4, <2>2, <3>1, <3>2, <3>3, OrderStep DEF WebClientGet, TypeOK
  <2> QED
    BY <1>4, <2>1, <2>2 DEF WebClientGet
<1>5. ASSUME NEW o \in Orders, WebSend(o) PROVE MinusInv'
  <2>1. ord'[o] = [ord[o] EXCEPT !.ph = "sent"] /\ ord[o].ph = "read"
    BY <1>5 DEF WebSend, Phase, TypeOK
  <2>4. OnceEach(ord[o].cl)' => OnceEach(ord[o].cl)
    BY <1>5, <2>1, OnceBefore DEF WebSend, Phase, TypeOK
  <2>2. Covered(o)'
    BY <1>5, <2>1, <2>4, OrderType DEF WebSend, MinusInv, Covered, Unbilled, Available, Order
  <2>3. ~Settled(o) /\ ord'[o].cl = ord[o].cl
    BY <2>1, OrderType DEF Settled, Order
  <2> QED
    BY <1>5, <2>1, <2>2, <2>3, OrderStep DEF WebSend, Phase, TypeOK
<1>6. ASSUME NEW o \in Orders, RobotStarts(o) PROVE MinusInv'
  <2>1. PICK price \in Prices :
          price <= ord[o].max /\ ord' = [ord EXCEPT ![o] = [@ EXCEPT !.ph = "making", !.amt = price]]
    BY <1>6 DEF RobotStarts
  <2>2. /\ ord'[o].ph = "making" /\ ord'[o].cl = ord[o].cl /\ ord'[o].amt = price
        /\ price \in Nat /\ ord[o].ph = "sent"
    <3>1. ord'[o] = [ord[o] EXCEPT !.ph = "making", !.amt = price] /\ ord[o].ph = "sent"
      BY <1>6, <2>1 DEF RobotStarts, TypeOK
    <3>2. price \in Nat
      BY OrdersAssumption
    <3> QED
      BY <3>1, <3>2, OrderType DEF Order
  <2>3. Covered(o)'
    <3>1. ord[o].cl \in Patient /\ OnceEach(ord[o].cl) => price <= Available(ord[o].cl)
      BY <2>1, <2>2, OrderType, AvailableType DEF MinusInv, Covered
    <3>2. OnceEach(ord[o].cl)' => OnceEach(ord[o].cl)
      BY <1>6, <2>1, <2>2, OnceBefore DEF RobotStarts, TypeOK
    <3> QED
      BY <1>6, <2>2, <3>1, <3>2 DEF RobotStarts, Covered, Available
  <2>4. ~Settled(o)
    BY <2>2 DEF Settled
  <2>5. \A p \in Procs : \A m \in net'[p] : m \in net[p] \/ (m.o = o /\ m.st # "complete")
    BY <1>6 DEF RobotStarts, Publish
  <2> QED
    BY <1>6, <2>1, <2>2, <2>3, <2>4, <2>5, OrderStep DEF RobotStarts, TypeOK
<1>7. ASSUME NEW o \in Orders, RobotRefuses(o) PROVE MinusInv'
  <2>1. ord'[o] = [ord[o] EXCEPT !.ph = "over"] /\ ord[o].ph = "sent"
    BY <1>7 DEF RobotRefuses, Phase, TypeOK
  <2>2. Covered(o)' /\ ~Settled(o) /\ ord'[o].cl = ord[o].cl
    BY <2>1, OrderType DEF Covered, Unbilled, Settled, Order
  <2>3. \A p \in Procs : \A m \in net'[p] : m \in net[p] \/ (m.o = o /\ m.st # "complete")
    BY <1>7 DEF RobotRefuses, Publish
  <2> QED
    BY <1>7, <2>1, <2>2, <2>3, OrderStep DEF RobotRefuses, Phase, TypeOK
<1>8. ASSUME NEW o \in Orders, RobotCompletes(o) PROVE MinusInv'
  <2>1. ord'[o] = [ord[o] EXCEPT !.ph = "made"] /\ ord[o].ph = "making"
    BY <1>8 DEF RobotCompletes, RobotEnds, Phase, TypeOK
  <2>2. ~Settled(o) /\ ord'[o].ph = "made" /\ ord'[o].cl = ord[o].cl /\ ord'[o].amt = ord[o].amt
    BY <2>1, OrderType DEF Settled, Order
  <2>5. OnceEach(ord[o].cl)' => OnceEach(ord[o].cl)
    BY <1>8, <2>1, OnceBefore DEF RobotCompletes, RobotEnds, Phase, TypeOK
  <2>3. Covered(o)'
    BY <1>8, <2>1, <2>2, <2>5
       DEF RobotCompletes, RobotEnds, MinusInv, Covered, Unbilled, Available
  <2>4. \A p \in Procs : \A m \in net'[p] : m \in net[p] \/ m.o = o
    BY <1>8 DEF RobotCompletes, RobotEnds, Publish
  <2> QED
    BY <1>8, <2>1, <2>2, <2>3, <2>4, OrderStep DEF RobotCompletes, RobotEnds, Phase, TypeOK
<1>9. ASSUME NEW o \in Orders, RobotFails(o) PROVE MinusInv'
  <2>1. ord'[o] = [ord[o] EXCEPT !.ph = "over"] /\ ord[o].ph = "making"
    BY <1>9 DEF RobotFails, RobotEnds, Phase, TypeOK
  <2>2. Covered(o)' /\ ~Settled(o) /\ ord'[o].cl = ord[o].cl
    BY <2>1, OrderType DEF Covered, Unbilled, Settled, Order
  <2>3. \A p \in Procs : \A m \in net'[p] : m \in net[p] \/ (m.o = o /\ m.st # "complete")
    BY <1>9 DEF RobotFails, RobotEnds, Publish
  <2> QED
    BY <1>9, <2>1, <2>2, <2>3, OrderStep DEF RobotFails, RobotEnds, Phase, TypeOK
<1>10. ASSUME NEW m \in timers, TgBonus(m) PROVE MinusInv'
  <2> DEFINE o == m.o
  <2>1. o \in Orders
    BY DEF TypeOK, Message
  <2>2. ord[o].cl \in Clients /\ Bonus(ord[o].amt) \in Nat
    BY <2>1, OrderType, BonusType
  <2>3. PICK n \in 0..2 : Withdraw(ord[o].cl, -Bonus(ord[o].amt), n)
    BY <1>10 DEF TgBonus
  <2>4. \A c \in Clients : balance'[c] >= balance[c]
    BY <2>2, <2>3 DEF Withdraw, TypeOK
  <2> QED
    BY <1>10, <2>4, Calm DEF TgBonus, NoNews
<1>11. CASE WebCashback
  <2> DEFINE o == loop["web"]
  <2>1. o \in Orders
    BY <1>11 DEF WebCashback, TypeOK, Procs
  <2>2. ord[o].cl \in Clients /\ Bonus(ord[o].amt) \in Nat
    BY <2>1, OrderType, BonusType
  <2>3. (\E n \in 0..2 : Withdraw(ord[o].cl, -Bonus(ord[o].amt), n)) \/ UNCHANGED balance
    BY <1>11 DEF WebCashback
  <2>4. \A c \in Clients : balance'[c] >= balance[c]
    BY <2>2, <2>3 DEF Withdraw, TypeOK
  <2> QED
    BY <1>11, <2>4, Calm DEF WebCashback, NoNews
<1>12. ASSUME NEW p \in Procs, NEW m \in net[p], Receive(p, m) PROVE MinusInv'
  <2> DEFINE o == m.o
             c == ord[o].cl
  <2>1. net' = [net EXCEPT ![p] = @ \ {m}] /\ UNCHANGED ord /\ NoNews
    BY <1>12 DEF Receive, NoNews, TypeOK
  <2>2. m \in Message /\ o \in Orders /\ CompleteMeansMade
    BY DEF TypeOK, Message, MinusInv
  <2>3. c \in Clients /\ ord[o].amt \in Nat /\ again \in [Orders -> Nat] /\ m.copy \in Nat
    BY <2>2, OrderType DEF TypeOK, Message
  <2>4. CASE UNCHANGED balance /\ UNCHANGED again
    <3>1. \A d \in Clients : balance'[d] >= balance[d]
      BY <2>4 DEF TypeOK
    <3> QED
      BY <2>1, <2>4, <3>1, Calm
  <2>5. ASSUME Billable(m), Mine(p, o), NEW n \in 0..2,
               again' = [again EXCEPT ![o] = @ + Extra(m, n)],
               n = 0 => UNCHANGED balance,
               n = 1 => balance' = [balance EXCEPT ![c] = @ - ord[o].amt],
               n = 2 => balance' = [balance EXCEPT ![c] = @ - 2 * ord[o].amt]
        PROVE  MinusInv'
    <3>1. ord[o].ph = "made" /\ m.st = "complete" /\ ord[o].via = p
      BY <2>2, <2>5 DEF CompleteMeansMade, Billable, Mine
    <3>2. CASE Extra(m, n) = 0
      <4>1. UNCHANGED again
        BY <2>3, <2>5, <3>2
      <4>2. n = 0 \/ (n = 1 /\ m.copy = 0)
        BY <2>3, <3>2 DEF Extra
      <4> QED
        BY <2>1, <2>4, <2>5, <3>1, <4>1, <4>2, ChargeCovered
    <3>3. CASE Extra(m, n) # 0
      <4>1. Extra(m, n) \in Nat
        BY DEF Extra
      <4>2. again'[o] # 0 /\ \A u \in Orders \ {o} : again'[u] = again[u]
        BY <2>2, <2>3, <2>5, <3>3, <4>1
      <4>3. \A d \in Clients \ {c} : balance'[d] = balance[d]
        BY <2>5 DEF TypeOK
      <4> QED
        BY <2>1, <2>2, <3>1, <4>2, <4>3, ChargedAgain
    <3> QED
      BY <3>2, <3>3
  <2>6. CASE Billable(m) /\ Mine(p, o)
    BY <1>12, <2>5, <2>6 DEF Receive, Charge, Withdraw
  <2>7. CASE ~(Billable(m) /\ Mine(p, o))
    BY <1>12, <2>4, <2>7 DEF Receive
  <2> QED
    BY <2>6, <2>7
<1>13. ASSUME NEW p \in Procs, NEW m \in net[p], Lose(p, m) \/ Repeat(p, m) PROVE MinusInv'
  <2>1. CASE Lose(p, m)
    BY <1>13, <2>1, Calm DEF Lose, NoNews, TypeOK
  <2>2. CASE Repeat(p, m)
    <3>1. m \in Message
      BY DEF TypeOK
    <3>2. net' = [net EXCEPT ![p] = @ \cup {[m EXCEPT !.copy = @ + 1]}]
      BY <2>2 DEF Repeat
    <3>3. NoNews
      BY <3>1, <3>2 DEF NoNews, Message, TypeOK
    <3> QED
      BY <2>2, <3>3, Calm DEF Repeat, TypeOK
  <2> QED
    BY <1>13, <2>1, <2>2
<1>14. ASSUME NEW p \in Procs, Crash(p) PROVE MinusInv'
  <2>1. NoNews /\ UNCHANGED again
    BY <1>14 DEF Crash, NoNews, TypeOK
  <2>2. ASSUME NEW o \in Orders
        PROVE  \/ ord'[o] = ord[o]
               \/ ord'[o].ph = "over" /\ ord'[o].cl = ord[o].cl /\ ord[o].ph # "made"
    BY <1>14, OrderType DEF Crash, Order
  <2>3. \A c \in Clients : balance'[c] >= balance[c]
    BY <1>14 DEF Crash, TypeOK
  <2> QED
    BY <2>1, <2>2, <2>3, Calm
<1>15. ASSUME NEW c \in Clients, NEW a \in TopUps, TopUp(c, a) PROVE MinusInv'
  <2>1. a \in Nat /\ \E n \in 0..2 : Withdraw(c, -a, n)
    BY <1>15, OrdersAssumption DEF TopUp
  <2>2. \A d \in Clients : balance'[d] >= balance[d]
    BY <2>1 DEF Withdraw, TypeOK
  <2> QED
    BY <1>15, <2>2, Calm DEF TopUp, NoNews
<1>16. CASE UNCHANGED vars
  <2>1. \A c \in Clients : balance'[c] >= balance[c]
    BY <1>16 DEF vars, TypeOK
  <2> QED
    BY <1>16, <2>1, Calm DEF vars, NoNews
<1> QED
  BY <1>1, <1>2, <1>3, <1>4, <1>5, <1>6, <1>7, <1>8, <1>9, <1>10, <1>11, <1>12, <1>13, <1>14,
     <1>15, <1>16 DEF Next

(* PatientWithinCredit: a client who waits for one order before the next   *)
(* never owes more than the credit, in either process, whatever fails or   *)
(* is lost, as long as no drink of the client was charged twice because a  *)
(* message or an UPDATE came again.  RemoteOrders_credit shows that one    *)
(* who does not wait may.                                                  *)
THEOREM PatientWithinCredit == Spec => []PatientMinus
<1>1. Init => MinusInv
  BY MinusInit
<1>2. MinusInv /\ [Next]_vars => MinusInv'
  BY MinusNext
<1>3. MinusInv => PatientMinus
  BY DEF MinusInv
<1> QED
  BY <1>1, <1>2, <1>3, PTL DEF Spec

-----------------------------------------------------------------------------
(* Sums over finite sets.  The induction theorems of the library take a    *)
(* predicate as a parameter; that a set of finite sets has a smallest one  *)
(* does not, and a smallest counterexample serves as well.                 *)

\* no proper subset of T is in B
Least(T, B) == T \in B /\ \A U \in SUBSET T : U \in B => U = T

LEMMA SmallestSet ==
  ASSUME NEW S, IsFiniteSet(S), NEW B, B \subseteq SUBSET S, B # {}
  PROVE  \E T : Least(T, B)
<1>1. FiniteSubsetsOf(S) = SUBSET S
  BY FS_FiniteSubsetsOfFinite
<1>2. IsWellFoundedOn(StrictSubsetOrdering(S), SUBSET S)
  BY <1>1, FS_StrictSubsetOrderingWellFounded, Zenon
<1>3. PICK T \in B : \A U \in B : ~(<<U, T>> \in StrictSubsetOrdering(S))
  BY <1>2, WFMin, Zenon
<1>4. ASSUME NEW U \in SUBSET T, U \in B PROVE U = T
  BY <1>3, <1>4 DEF StrictSubsetOrdering
<1> QED
  BY <1>3, <1>4 DEF Least

\* what is picked first from a set
Some(s) == CHOOSE x \in s : TRUE

IsSum(g, w, S) ==
  g = [s \in SUBSET S |-> IF s = {} THEN 0 ELSE w[Some(s)] + g[s \ {Some(s)}]]

Sum(w, S) == CHOOSE g : IsSum(g, w, S)

Total(w, S) == Sum(w, S)[S]

LEMMA Rest ==
  ASSUME NEW s, s # {}
  PROVE  Some(s) \in s /\ s \ {Some(s)} # s /\ s \ {Some(s)} \subseteq s
  BY DEF Some

LEMMA SumStep ==
  ASSUME NEW w, NEW S, NEW g, IsSum(g, w, S), NEW s \in SUBSET S
  PROVE  g[s] = IF s = {} THEN 0 ELSE w[Some(s)] + g[s \ {Some(s)}]
  BY DEF IsSum

\* the equation of a sum has one solution
LEMMA SumIsUnique ==
  ASSUME NEW S, IsFiniteSet(S), NEW w, NEW g, NEW h, NEW U, NEW V,
         IsSum(g, w, U), IsSum(h, w, V), S \subseteq U, S \subseteq V
  PROVE  g[S] = h[S]
<1> DEFINE B == {s \in SUBSET S : g[s] # h[s]}
<1>1. SUFFICES ASSUME B # {} PROVE FALSE
  OBVIOUS
<1>2. B \subseteq SUBSET S
  OBVIOUS
<1>3. PICK T : Least(T, B)
  <2> HIDE DEF B
  <2> QED
    BY <1>1, <1>2, SmallestSet, Zenon
<1>4. T \in SUBSET S /\ g[T] # h[T] /\ \A X \in SUBSET T : X # T => g[X] = h[X]
  BY <1>3 DEF Least
<1> HIDE DEF B
<1>5. T \in SUBSET U /\ T \in SUBSET V
  BY <1>4
<1>6. T # {}
  <2>1. T = {} => g[T] = 0 /\ h[T] = 0
    BY <1>5, SumStep
  <2> QED
    BY <1>4, <2>1
<1>7. g[T \ {Some(T)}] = h[T \ {Some(T)}]
  BY <1>4, <1>6, Rest
<1>8. g[T] = w[Some(T)] + g[T \ {Some(T)}]
  BY <1>5, <1>6, SumStep
<1>9. h[T] = w[Some(T)] + h[T \ {Some(T)}]
  BY <1>5, <1>6, SumStep
<1> QED
  BY <1>4, <1>7, <1>8, <1>9

\* and it has one, so that a sum is what its definition says
LEMMA SumExists ==
  ASSUME NEW S, IsFiniteSet(S), NEW w
  PROVE  IsSum(Sum(w, S), w, S)
<1> DEFINE B == {U \in SUBSET S : ~IsSum(Sum(w, U), w, U)}
<1>1. SUFFICES ASSUME B # {} PROVE FALSE
  OBVIOUS
<1>2. B \subseteq SUBSET S
  OBVIOUS
<1>3. PICK U : Least(U, B)
  <2> HIDE DEF B
  <2> QED
    BY <1>1, <1>2, SmallestSet, Zenon
<1>4. /\ U \in SUBSET S /\ ~IsSum(Sum(w, U), w, U)
      /\ \A V \in SUBSET U : V # U => IsSum(Sum(w, V), w, V)
  BY <1>3 DEF Least
<1> HIDE DEF B
<1>5. \A V \in SUBSET U : IsFiniteSet(V)
  BY <1>4, FS_Subset
<1> DEFINE N(s) == s \ {Some(s)}
           G == [s \in SUBSET U |-> IF s = {} THEN 0 ELSE w[Some(s)] + Sum(w, N(s))[N(s)]]
<1>6. ASSUME NEW s \in SUBSET U, s # U PROVE G[s] = Sum(w, s)[s]
  <2>1. IsSum(Sum(w, s), w, s)
    BY <1>4, <1>6
  <2>2. CASE s = {}
    BY <2>1, <2>2, SumStep
  <2>3. CASE s # {}
    <3>1. N(s) \in SUBSET U /\ N(s) # U /\ N(s) \in SUBSET s
      BY <1>6, <2>3, Rest
    <3>2. IsSum(Sum(w, N(s)), w, N(s)) /\ IsFiniteSet(N(s))
      BY <1>4, <1>5, <3>1
    <3>3. Sum(w, s)[N(s)] = Sum(w, N(s))[N(s)]
      BY <2>1, <3>1, <3>2, SumIsUnique
    <3>4. Sum(w, s)[s] = w[Some(s)] + Sum(w, s)[N(s)]
      BY <2>1, <2>3, SumStep
    <3> QED
      BY <2>3, <3>3, <3>4
  <2> QED
    BY <2>2, <2>3
<1>7. ASSUME NEW s \in SUBSET U, s # {} PROVE Sum(w, N(s))[N(s)] = G[N(s)]
  BY <1>6, <1>7, Rest
<1>8. IsSum(G, w, U)
  BY <1>7 DEF IsSum
<1>9. IsSum(Sum(w, U), w, U)
  <2> HIDE DEF G
  <2> QED
    BY <1>8 DEF Sum
<1> QED
  BY <1>4, <1>9

LEMMA TotalStep ==
  ASSUME NEW S, IsFiniteSet(S), NEW w
  PROVE  Total(w, S) = IF S = {} THEN 0 ELSE w[Some(S)] + Total(w, S \ {Some(S)})
<1>1. IsFiniteSet(S \ {Some(S)})
  BY FS_Subset
<1>2. S \ {Some(S)} \subseteq S
  OBVIOUS
<1>3. Sum(w, S)[S \ {Some(S)}] = Total(w, S \ {Some(S)})
  BY <1>1, <1>2, SumExists, SumIsUnique DEF Total
<1> QED
  BY <1>3, SumExists, SumStep DEF Total

LEMMA TotalType ==
  ASSUME NEW S, IsFiniteSet(S), NEW w, \A x \in S : w[x] \in Int
  PROVE  Total(w, S) \in Int
<1> DEFINE B == {s \in SUBSET S : Total(w, s) \notin Int}
<1>1. SUFFICES ASSUME B # {} PROVE FALSE
  OBVIOUS
<1>2. B \subseteq SUBSET S
  OBVIOUS
<1>3. PICK T : Least(T, B)
  <2> HIDE DEF B
  <2> QED
    BY <1>1, <1>2, SmallestSet, Zenon
<1>4. T \in SUBSET S /\ Total(w, T) \notin Int /\ \A X \in SUBSET T : X # T => Total(w, X) \in Int
  BY <1>3 DEF Least
<1> HIDE DEF B
<1>5. IsFiniteSet(T)
  BY <1>4, FS_Subset
<1>6. T # {}
  <2>1. T = {} => Total(w, T) = 0
    BY <1>5, TotalStep
  <2> QED
    BY <1>4, <2>1
<1>7. Total(w, T \ {Some(T)}) \in Int /\ w[Some(T)] \in Int
  BY <1>4, <1>6, Rest
<1>8. Total(w, T) = w[Some(T)] + Total(w, T \ {Some(T)})
  BY <1>5, <1>6, TotalStep
<1> QED
  BY <1>4, <1>7, <1>8

\* sums of the same amounts are the same
LEMMA TotalSame ==
  ASSUME NEW S, IsFiniteSet(S), NEW w, NEW v, \A x \in S : w[x] = v[x]
  PROVE  Total(w, S) = Total(v, S)
<1> DEFINE B == {s \in SUBSET S : Total(w, s) # Total(v, s)}
<1>1. SUFFICES ASSUME B # {} PROVE FALSE
  OBVIOUS
<1>2. B \subseteq SUBSET S
  OBVIOUS
<1>3. PICK T : Least(T, B)
  <2> HIDE DEF B
  <2> QED
    BY <1>1, <1>2, SmallestSet, Zenon
<1>4. /\ T \in SUBSET S /\ Total(w, T) # Total(v, T)
      /\ \A X \in SUBSET T : X # T => Total(w, X) = Total(v, X)
  BY <1>3 DEF Least
<1> HIDE DEF B
<1>5. IsFiniteSet(T)
  BY <1>4, FS_Subset
<1>6. T # {}
  <2>1. T = {} => Total(w, T) = 0 /\ Total(v, T) = 0
    BY <1>5, TotalStep
  <2> QED
    BY <1>4, <2>1
<1>7. Total(w, T \ {Some(T)}) = Total(v, T \ {Some(T)}) /\ w[Some(T)] = v[Some(T)]
  BY <1>4, <1>6, Rest
<1>8. /\ Total(w, T) = w[Some(T)] + Total(w, T \ {Some(T)})
      /\ Total(v, T) = v[Some(T)] + Total(v, T \ {Some(T)})
  BY <1>5, <1>6, TotalStep
<1> QED
  BY <1>4, <1>7, <1>8

\* whatever element one takes out
LEMMA TotalRemove ==
  ASSUME NEW S, IsFiniteSet(S), NEW w, \A x \in S : w[x] \in Int, NEW y \in S
  PROVE  Total(w, S) = w[y] + Total(w, S \ {y})
<1> DEFINE B == {s \in SUBSET S : \E z \in s : Total(w, s) # w[z] + Total(w, s \ {z})}
<1>1. SUFFICES ASSUME B # {} PROVE FALSE
  OBVIOUS
<1>2. B \subseteq SUBSET S
  OBVIOUS
<1>3. PICK T : Least(T, B)
  <2> HIDE DEF B
  <2> QED
    BY <1>1, <1>2, SmallestSet, Zenon
<1>4. /\ T \in SUBSET S /\ \E z \in T : Total(w, T) # w[z] + Total(w, T \ {z})
      /\ \A X \in SUBSET T : X # T => \A z \in X : Total(w, X) = w[z] + Total(w, X \ {z})
  BY <1>3 DEF Least
<1> HIDE DEF B
<1>5. PICK z \in T : Total(w, T) # w[z] + Total(w, T \ {z})
  BY <1>4
<1> DEFINE p == Some(T)
           R == (T \ {z}) \ {p}
<1>6. IsFiniteSet(T) /\ IsFiniteSet(R) /\ R \in SUBSET S
  BY <1>4, FS_Subset
<1>7. p \in T /\ Total(w, T) = w[p] + Total(w, T \ {p})
  BY <1>6, TotalStep, Rest
<1>8. z # p
  BY <1>5, <1>7
<1>9. Total(w, T \ {p}) = w[z] + Total(w, R)
  <2>1. T \ {p} \in SUBSET T /\ T \ {p} # T /\ z \in T \ {p} /\ (T \ {p}) \ {z} = R
    BY <1>7, <1>8
  <2> QED
    BY <1>4, <2>1
<1>10. Total(w, T \ {z}) = w[p] + Total(w, R)
  <2>1. T \ {z} \in SUBSET T /\ T \ {z} # T /\ p \in T \ {z}
    BY <1>7, <1>8
  <2> QED
    BY <1>4, <2>1
<1>11. Total(w, R) \in Int /\ w[p] \in Int /\ w[z] \in Int
  BY <1>4, <1>6, <1>7, TotalType
<1> HIDE DEF p, R
<1> QED
  BY <1>5, <1>7, <1>9, <1>10, <1>11

\* more natural numbers add up to more
LEMMA TotalGrows ==
  ASSUME NEW S, IsFiniteSet(S), NEW w, \A x \in S : w[x] \in Nat, NEW U \in SUBSET S
  PROVE  Total(w, U) <= Total(w, S)
<1> DEFINE B == {s \in SUBSET S : U \subseteq s /\ ~(Total(w, U) <= Total(w, s))}
<1>1. SUFFICES ASSUME B # {} PROVE FALSE
  OBVIOUS
<1>2. B \subseteq SUBSET S
  OBVIOUS
<1>3. PICK T : Least(T, B)
  <2> HIDE DEF B
  <2> QED
    BY <1>1, <1>2, SmallestSet, Zenon
<1>4. /\ T \in SUBSET S /\ U \subseteq T /\ ~(Total(w, U) <= Total(w, T))
      /\ \A X \in SUBSET T : X # T /\ U \subseteq X => Total(w, U) <= Total(w, X)
  BY <1>3 DEF Least
<1> HIDE DEF B
<1>5. \A X \in SUBSET S : IsFiniteSet(X) /\ Total(w, X) \in Int
  BY FS_Subset, TotalType
<1>6. T # U
  BY <1>4, <1>5
<1>7. PICK x \in T : x \notin U
  BY <1>4, <1>6
<1>8. Total(w, U) <= Total(w, T \ {x})
  BY <1>4, <1>7
<1>9. Total(w, T) = w[x] + Total(w, T \ {x})
  BY <1>4, <1>5, TotalRemove
<1>10. w[x] \in Nat /\ Total(w, T \ {x}) \in Int /\ Total(w, U) \in Int
  BY <1>4, <1>5
<1> QED
  BY <1>4, <1>8, <1>9, <1>10

\* and noughts add nothing
LEMMA TotalNoughts ==
  ASSUME NEW S, IsFiniteSet(S), NEW w, \A x \in S : w[x] \in Int, NEW U \in SUBSET S,
         \A x \in S \ U : w[x] = 0
  PROVE  Total(w, S) = Total(w, U)
<1> DEFINE B == {s \in SUBSET S : U \subseteq s /\ Total(w, s) # Total(w, U)}
<1>1. SUFFICES ASSUME B # {} PROVE FALSE
  OBVIOUS
<1>2. B \subseteq SUBSET S
  OBVIOUS
<1>3. PICK T : Least(T, B)
  <2> HIDE DEF B
  <2> QED
    BY <1>1, <1>2, SmallestSet, Zenon
<1>4. /\ T \in SUBSET S /\ U \subseteq T /\ Total(w, T) # Total(w, U)
      /\ \A X \in SUBSET T : X # T /\ U \subseteq X => Total(w, X) = Total(w, U)
  BY <1>3 DEF Least
<1> HIDE DEF B
<1>5. \A X \in SUBSET S : IsFiniteSet(X) /\ Total(w, X) \in Int
  BY FS_Subset, TotalType
<1>6. PICK x \in T : x \notin U
  BY <1>4
<1>7. Total(w, T \ {x}) = Total(w, U)
  BY <1>4, <1>6
<1>8. Total(w, T) = w[x] + Total(w, T \ {x})
  BY <1>4, <1>5, TotalRemove
<1>9. w[x] = 0 /\ Total(w, T \ {x}) \in Int
  BY <1>4, <1>5, <1>6
<1> QED
  BY <1>4, <1>7, <1>8, <1>9

-----------------------------------------------------------------------------
(* What happens to the drinks that were charged, and to the messages that  *)
(* ask for a charge, in any step.                                          *)

\* the message that a drink is charged for
Bill(o) == [o |-> o, st |-> "complete", copy |-> 0]

IsCharged(o) == ord[o].ph = "made" /\ Bill(o) \notin net[ord[o].via]

\* a message went without being received
Dropped == \E p \in Procs : Crash(p) \/ \E m \in net[p] : Lose(p, m)

LEMMA OrdersChange ==
  ASSUME TypeOK, [Next]_vars, NEW o \in Orders, ord'[o] # ord[o]
  PROVE  /\ ord[o].ph \notin {"made", "over"}
         /\ ord'[o].ph = "made" => RobotCompletes(o)
<1>1. ASSUME NEW u \in Orders, NEW p \in Phases, Phase(u, p)
      PROVE  u = o /\ ord'[o].ph = p
  BY <1>1, OrderType DEF Phase, TypeOK, Order
<1>2. ASSUME NEW u \in Orders, NEW c \in Clients, NEW r \in Robots,
             TgClientGet(u, c, r) \/ WebCheckRobot(u, c, r)
      PROVE  u = o /\ ord[o].ph = "new" /\ ord'[o].ph # "made"
  <2>1. ord[u].ph = "new"
    BY <1>2 DEF TgClientGet, WebCheckRobot
  <2>2. CASE Phase(u, "over")
    BY <1>1, <2>1, <2>2 DEF Phases
  <2>3. CASE ord' = [ord EXCEPT ![u] = [@ EXCEPT !.ph = "read", !.cl = c, !.via = "tg",
                                                 !.rb = r, !.max = Available(c)]]
    BY <2>1, <2>3, OrderType DEF TypeOK, Order
  <2>4. CASE ord' = [ord EXCEPT ![u] = [@ EXCEPT !.ph = "checked", !.cl = c, !.via = "web", !.rb = r]]
    BY <2>1, <2>4, OrderType DEF TypeOK, Order
  <2> QED
    BY <1>2, <2>2, <2>3, <2>4 DEF TgClientGet, WebCheckRobot
<1>3. ASSUME NEW u \in Orders, TgSendCookCmd(u) \/ WebSend(u)
      PROVE  u = o /\ ord[o].ph = "read" /\ ord'[o].ph # "made"
  BY <1>1, <1>3 DEF TgSendCookCmd, WebSend, Phases
<1>4. ASSUME NEW u \in Orders, WebClientGet(u)
      PROVE  u = o /\ ord[o].ph = "checked" /\ ord'[o].ph # "made"
  <2>1. CASE Phase(u, "over")
    BY <1>1, <1>4, <2>1 DEF WebClientGet, Phases
  <2>2. CASE ord' = [ord EXCEPT ![u] = [@ EXCEPT !.ph = "read", !.max = Available(ord[u].cl)]]
    BY <1>4, <2>2, OrderType DEF WebClientGet, TypeOK, Order
  <2> QED
    BY <1>4, <2>1, <2>2 DEF WebClientGet
<1>5. ASSUME NEW u \in Orders, RobotStarts(u)
      PROVE  u = o /\ ord[o].ph = "sent" /\ ord'[o].ph # "made"
  BY <1>5, OrderType DEF RobotStarts, TypeOK, Order
<1>6. ASSUME NEW u \in Orders, RobotRefuses(u) \/ RobotFails(u)
      PROVE  u = o /\ ord[o].ph \in {"sent", "making"} /\ ord'[o].ph # "made"
  BY <1>1, <1>6 DEF RobotRefuses, RobotFails, RobotEnds, Phases
<1>7. ASSUME NEW u \in Orders, RobotCompletes(u) PROVE u = o /\ ord[o].ph = "making"
  BY <1>1, <1>7 DEF RobotCompletes, RobotEnds, Phases
<1>8. ASSUME NEW p \in Procs, Crash(p)
      PROVE  ord[o].ph \in {"checked", "read"} /\ ord'[o].ph # "made"
  BY <1>8, OrderType DEF Crash, Order
<1> QED
  BY <1>2, <1>3, <1>4, <1>5, <1>6, <1>7, <1>8
     DEF Next, TgBonus, WebCashback, Receive, Lose, Repeat, TopUp, vars

LEMMA MessagesCome ==
  ASSUME TypeOK, [Next]_vars, NEW p \in Procs, NEW m \in net'[p], m \notin net[p]
  PROVE  \/ m.copy = 0 /\ (m.st = "complete" => ord[m.o].ph = "making")
         \/ m.copy # 0 /\ \E n \in net[p] : Repeat(p, n) /\ m = [n EXCEPT !.copy = @ + 1]
<1>1. ASSUME NEW o \in Orders, NEW st, Publish(o, st) PROVE m.o = o /\ m.st = st /\ m.copy = 0
  BY <1>1 DEF Publish
<1>2. ASSUME NEW q \in Procs, Crash(q) \/ \E n \in net[q] : Receive(q, n) \/ Lose(q, n) PROVE FALSE
  BY <1>2 DEF Crash, Receive, Lose, TypeOK
<1>3. ASSUME NEW o \in Orders, RobotStarts(o) \/ RobotRefuses(o) \/ RobotFails(o)
      PROVE  m.copy = 0 /\ m.st # "complete"
  <2>1. \E st \in {"executionStart", "refused", "orderError"} : Publish(o, st)
    BY <1>3 DEF RobotStarts, RobotRefuses, RobotFails, RobotEnds
  <2> QED
    BY <1>1, <2>1
<1>4. ASSUME NEW o \in Orders, RobotCompletes(o) PROVE m.copy = 0 /\ ord[m.o].ph = "making"
  BY <1>1, <1>4 DEF RobotCompletes, RobotEnds
<1>5. ASSUME NEW q \in Procs, NEW n \in net[q], Repeat(q, n)
      PROVE  q = p /\ m.copy # 0 /\ m = [n EXCEPT !.copy = @ + 1]
  <2>1. net' = [net EXCEPT ![q] = @ \cup {[n EXCEPT !.copy = @ + 1]}]
    BY <1>5 DEF Repeat
  <2>2. q = p /\ m = [n EXCEPT !.copy = @ + 1]
    BY <2>1 DEF TypeOK
  <2>3. n.copy \in Nat /\ m.copy = n.copy + 1
    BY <2>2 DEF TypeOK, Message
  <2> QED
    BY <2>2, <2>3
<1> QED
  BY <1>2, <1>3, <1>4, <1>5 DEF Next, TgClientGet, WebCheckRobot, TgSendCookCmd, WebClientGet,
       WebSend, TgBonus, WebCashback, TopUp, vars

LEMMA MessagesGo ==
  ASSUME TypeOK, [Next]_vars, NEW p \in Procs, NEW m \in net[p], m \notin net'[p]
  PROVE  Receive(p, m) \/ Dropped
<1>1. ASSUME NEW o \in Orders, NEW st PROVE ~Publish(o, st)
  BY DEF Publish
<1>2. ASSUME NEW q \in Procs, NEW n \in net[q], Receive(q, n) PROVE q = p /\ n = m
  BY <1>2 DEF Receive, TypeOK
<1>3. ASSUME NEW q \in Procs, NEW n \in net[q] PROVE ~Repeat(q, n)
  BY DEF Repeat, TypeOK
<1> QED
  BY <1>1, <1>2, <1>3 DEF Dropped, Next, TgClientGet, WebCheckRobot, TgSendCookCmd, WebClientGet,
       WebSend, RobotStarts, RobotRefuses, RobotCompletes, RobotFails, RobotEnds, TgBonus,
       WebCashback, TopUp, vars

\* what was charged stays so
LEMMA ChargedStays ==
  ASSUME MinusInv, [Next]_vars, NEW o \in Orders, IsCharged(o)
  PROVE  IsCharged(o)' /\ ord'[o] = ord[o]
<1> TypeOK
  BY DEF MinusInv
<1>1. ord'[o] = ord[o] /\ ord[o].ph = "made"
  BY OrdersChange DEF IsCharged
<1>2. ord[o].via \in Procs
  BY OrderType
<1>3. Bill(o).o = o /\ Bill(o).st = "complete" /\ Bill(o).copy = 0
  BY DEF Bill
<1>4. Bill(o) \notin net'[ord[o].via]
  <2> SUFFICES ASSUME Bill(o) \in net'[ord[o].via] PROVE FALSE
    OBVIOUS
  <2> DEFINE b == Bill(o)
  <2>1. b \notin net[ord[o].via]
    BY DEF IsCharged
  <2> HIDE DEF b
  <2>2. ord[b.o].ph = "making"
    BY <1>2, <1>3, <2>1, MessagesCome DEF b
  <2> QED
    BY <1>1, <1>3, <2>2 DEF b
<1> QED
  BY <1>1, <1>4 DEF IsCharged, Bill

\* a drink counts as charged when the message that asks for it is gone
LEMMA ChargedNow ==
  ASSUME MinusInv, [Next]_vars, NEW o \in Orders, ~IsCharged(o), IsCharged(o)'
  PROVE  /\ ord'[o] = ord[o]
         /\ Bill(o) \in net[ord[o].via] /\ Bill(o) \notin net'[ord[o].via]
<1> TypeOK
  BY DEF MinusInv
<1>1. ord[o].via \in Procs
  BY OrderType
<1>2. ord'[o] = ord[o]
  <2> SUFFICES ASSUME ord'[o] # ord[o] PROVE FALSE
    OBVIOUS
  <2>1. RobotCompletes(o)
    BY OrdersChange DEF IsCharged
  <2>2. ord'[o].via = ord[o].via
    BY <2>1, OrderType DEF RobotCompletes, RobotEnds, Phase, TypeOK, Order
  <2>3. Bill(o) \in net'[ord[o].via]
    BY <1>1, <2>1 DEF RobotCompletes, RobotEnds, Publish, Bill
  <2> QED
    BY <2>2, <2>3 DEF IsCharged, Bill
<1> QED
  BY <1>2 DEF IsCharged, Bill

-----------------------------------------------------------------------------
(* The books: the balance of a client, against the sum of what the drinks  *)
(* that were charged cost, and against the same without the bonuses.       *)

Begun == {o \in Orders : ord[o].ph # "new"}

Charged(c) == {o \in Orders : IsCharged(o) /\ ord[o].cl = c}

\* what a drink may have cost, with the times that it was charged once more
Amount == [o \in Orders |-> ord[o].amt * (1 + again[o])]

\* the bonus of the order is still to come
Pending(o) == (\E m \in timers : m.o = o) \/ loop["web"] = o

Due == [o \in Orders |-> ord[o].amt - (IF Pending(o) THEN 0 ELSE Bonus(ord[o].amt))]

\* what the orders made of a balance
Result(c) == balance[c] - Opening - topped.by[c]

Balanced(c) == /\ Result(c) >= -Total(Amount, Charged(c))
               /\ faults = 0 => Result(c) = -Total(Due, Charged(c))

Rewarding ==
  /\ \A m \in timers : m.st = "complete" /\ IsCharged(m.o) /\ ord[m.o].via = "tg"
  /\ loop["web"] # None => IsCharged(loop["web"]) /\ ord[loop["web"]].via = "web"

\* a message comes again through a fault only
NoCopies == faults = 0 => \A m \in timers \cup net["tg"] \cup net["web"] : m.copy = 0

BooksInv ==
  /\ MinusInv /\ Rewarding /\ NoCopies
  /\ IsFiniteSet(Begun)
  /\ \A c \in Clients : Balanced(c)

LEMMA BooksTypes ==
  ASSUME TypeOK
  PROVE  /\ \A o \in Orders : Amount[o] \in Nat /\ Due[o] \in Int
         /\ \A c \in Clients : Result(c) \in Int
<1>1. \A o \in Orders : ord[o].amt \in Nat /\ Bonus(ord[o].amt) \in Nat
  BY OrderType, BonusType
<1>2. \A o \in Orders : Due[o] \in Int
  BY <1>1 DEF Due
<1>3. \A c \in Clients : balance[c] \in Int /\ topped.by[c] \in Nat
  BY DEF TypeOK
<1>4. \A c \in Clients : Result(c) \in Int
  BY <1>3, OrdersAssumption DEF Result
<1>5. \A o \in Orders : ord[o].amt * (1 + again[o]) \in Nat
  <2> SUFFICES ASSUME NEW o \in Orders PROVE ord[o].amt * (1 + again[o]) \in Nat
    OBVIOUS
  <2>1. 1 + again[o] \in Nat /\ ord[o].amt \in Nat
    BY <1>1 DEF TypeOK
  <2> QED
    BY <2>1
<1> QED
  BY <1>2, <1>4, <1>5 DEF Amount

BooksTyped == /\ \A o \in Orders : Amount[o] \in Nat /\ Due[o] \in Int
              /\ \A c \in Clients : Result(c) \in Int

LEMMA BooksTypesNext ==
  TypeOK' => /\ \A o \in Orders : Amount'[o] \in Nat /\ Due'[o] \in Int
             /\ \A c \in Clients : Result(c)' \in Int
<1>1. TypeOK => BooksTyped
  BY BooksTypes DEF BooksTyped
<1>2. TypeOK' => BooksTyped'
  BY <1>1, PTL
<1> QED
  BY <1>2 DEF BooksTyped

LEMMA ChargedIsFinite ==
  ASSUME IsFiniteSet(Begun), NEW c
  PROVE  IsFiniteSet(Made(c)) /\ IsFiniteSet(Charged(c)) /\ Charged(c) \subseteq Made(c)
<1>1. Made(c) \in SUBSET Begun /\ Charged(c) \in SUBSET Begun /\ Charged(c) \subseteq Made(c)
  BY DEF Made, Charged, Begun, IsCharged
<1> QED
  BY <1>1, FS_Subset

\* one order begins in a step, at most
LEMMA BegunIsFinite ==
  ASSUME TypeOK, [Next]_vars, IsFiniteSet(Begun)
  PROVE  IsFiniteSet(Begun')
<1>1. CASE \E u \in Orders : \A o \in Orders \ {u} : ord'[o] = ord[o]
  <2>1. PICK u \in Orders : \A o \in Orders \ {u} : ord'[o] = ord[o]
    BY <1>1
  <2>2. Begun' \in SUBSET (Begun \cup {u})
    BY <2>1 DEF Begun
  <2> QED
    BY <2>2, FS_AddElement, FS_Subset
<1>2. CASE Begun' \subseteq Begun
  BY <1>2, FS_Subset
<1>3. ASSUME NEW p \in Procs, Crash(p) PROVE Begun' \subseteq Begun
  BY <1>3 DEF Begun, Crash
<1>4. UNCHANGED ord => Begun' \subseteq Begun
  BY DEF Begun
<1>5. ASSUME NEW u \in Orders, NEW p, Phase(u, p)
      PROVE  \A o \in Orders \ {u} : ord'[o] = ord[o]
  BY <1>5 DEF Phase, TypeOK
<1>6. ASSUME NEW u \in Orders, NEW c \in Clients, NEW r \in Robots,
             TgClientGet(u, c, r) \/ WebCheckRobot(u, c, r)
      PROVE  \A o \in Orders \ {u} : ord'[o] = ord[o]
  BY <1>5, <1>6 DEF TgClientGet, WebCheckRobot, TypeOK
<1>7. ASSUME NEW u \in Orders, WebClientGet(u) \/ RobotStarts(u)
      PROVE  \A o \in Orders \ {u} : ord'[o] = ord[o]
  BY <1>5, <1>7 DEF WebClientGet, RobotStarts, TypeOK
<1> QED
  BY <1>1, <1>2, <1>3, <1>4, <1>5, <1>6, <1>7
     DEF Next, TgSendCookCmd, WebSend, RobotRefuses, RobotCompletes, RobotFails, RobotEnds,
         TgBonus, WebCashback, Receive, Lose, Repeat, TopUp, vars

\* a message that a process charges for
Bills(p, m) == Receive(p, m) /\ Billable(m) /\ Mine(p, m.o)

LEMMA BillFacts ==
  ASSUME MinusInv, NEW p \in Procs, NEW m \in net[p], Bills(p, m)
  PROVE  /\ m.o \in Orders /\ m.copy \in Nat /\ m.st = "complete" /\ ord[m.o].ph = "made"
         /\ ord[m.o].via = p /\ net' = [net EXCEPT ![p] = @ \ {m}] /\ UNCHANGED <<ord, topped>>
         /\ m.copy = 0 => m = Bill(m.o)
         /\ Charge(p, m) /\ loop[p] = None
<1>1. TypeOK /\ CompleteMeansMade
  BY DEF MinusInv
<1>2. m \in Message
  BY <1>1 DEF TypeOK
<1>3. m.st = "complete" /\ m.o \in Orders /\ m.copy \in Nat
  BY <1>2 DEF Bills, Billable, Message
<1>4. m.copy = 0 => m = Bill(m.o)
  BY <1>2, <1>3 DEF Bill, Message
<1> QED
  BY <1>1, <1>3, <1>4 DEF CompleteMeansMade, Bills, Receive, Mine

\* a charge for the first of the messages, and one for any other
LEMMA BillCharges ==
  ASSUME MinusInv, [Next]_vars, NEW p \in Procs, NEW m \in net[p], Bills(p, m)
  PROVE  /\ m.copy = 0 <=> ~IsCharged(m.o)
         /\ IsCharged(m.o)'
         /\ \A o \in Orders \ {m.o} : IsCharged(o)' <=> IsCharged(o)
<1> DEFINE o == m.o
<1> TypeOK
  BY DEF MinusInv
<1>1. /\ o \in Orders /\ m.copy \in Nat /\ m.st = "complete" /\ ord[o].ph = "made"
      /\ ord[o].via = p /\ net' = [net EXCEPT ![p] = @ \ {m}] /\ UNCHANGED ord
      /\ m.copy = 0 => m = Bill(o)
  BY BillFacts
<1>2. ASSUME m.copy = 0 PROVE ~IsCharged(o) /\ IsCharged(o)'
  <2>1. m = Bill(o) /\ ~IsCharged(o)
    BY <1>1, <1>2 DEF IsCharged
  <2>2. Bill(o) \notin net'[p]
    BY <1>1, <2>1 DEF TypeOK
  <2>3. IsCharged(o)'
    BY <1>1, <2>2 DEF IsCharged, Bill
  <2> QED
    BY <2>1, <2>3
<1>3. ASSUME m.copy # 0 PROVE IsCharged(o) /\ IsCharged(o)'
  <2>1. Bill(o) \notin net[p]
    BY <1>1, <1>3 DEF Bills, Receive, First, Bill
  <2>2. IsCharged(o)
    BY <1>1, <2>1 DEF IsCharged
  <2> QED
    BY <1>1, <2>2, ChargedStays
<1>4. ASSUME NEW u \in Orders \ {o} PROVE IsCharged(u)' <=> IsCharged(u)
  <2>1. ASSUME ~IsCharged(u), IsCharged(u)' PROVE FALSE
    <3>1. Bill(u) \in net[ord[u].via] /\ Bill(u) \notin net'[ord[u].via]
      BY <2>1, ChargedNow
    <3>2. ord[u].via \in Procs /\ Bill(u).o = u
      BY OrderType DEF Bill
    <3> QED
      BY <1>1, <3>1, <3>2 DEF TypeOK
  <2> QED
    BY <2>1, ChargedStays
<1> QED
  BY <1>2, <1>3, <1>4

\* how often the price is taken, and what that adds to the books
LEMMA ChargeTimes ==
  ASSUME MinusInv, NEW p \in Procs, NEW m \in net[p], Bills(p, m)
  PROVE  \E n \in 0..2 :
           /\ again' = [again EXCEPT ![m.o] = @ + Extra(m, n)]
           /\ \A c \in Clients \ {ord[m.o].cl} : Result(c)' = Result(c)
           /\ Result(ord[m.o].cl)' = Result(ord[m.o].cl) - n * ord[m.o].amt
           /\ faults' >= faults /\ (n # 1 => faults' >= faults + 1)
           /\ faults' = 0 => faults = 0 /\ n = 1 /\ Reward(p, m)
<1> DEFINE k == ord[m.o].cl
           a == ord[m.o].amt
<1>0. TypeOK
  BY DEF MinusInv
<1>1. m.o \in Orders /\ UNCHANGED <<ord, topped>> /\ Charge(p, m)
  BY BillFacts
<1>2. k \in Clients /\ a \in Nat
  BY <1>0, <1>1, OrderType
<1>3. /\ balance \in [Clients -> Int] /\ topped.by \in [Clients -> Nat] /\ faults \in Nat
      /\ Opening \in Nat
  BY <1>0, OrdersAssumption DEF TypeOK
<1>4. PICK n \in 0..2 :
        /\ again' = [again EXCEPT ![m.o] = @ + Extra(m, n)]
        /\ \/ n = 0 /\ UNCHANGED balance
           \/ n = 1 /\ balance' = [balance EXCEPT ![k] = @ - a]
           \/ n = 2 /\ balance' = [balance EXCEPT ![k] = @ - 2 * a]
        /\ (n = 1 /\ UNCHANGED faults /\ Reward(p, m)) \/ faults' = faults + 1
  BY <1>1 DEF Charge, Withdraw, Fault
<1>5. \A c \in Clients \ {k} : Result(c)' = Result(c)
  BY <1>1, <1>3, <1>4 DEF Result
<1>6. Result(k)' = Result(k) - n * a
  <2>1. \/ n = 0 /\ balance'[k] = balance[k]
        \/ n = 1 /\ balance'[k] = balance[k] - a
        \/ n = 2 /\ balance'[k] = balance[k] - 2 * a
    BY <1>2, <1>3, <1>4
  <2>2. /\ Result(k) = balance[k] - Opening - topped.by[k]
        /\ Result(k)' = balance'[k] - Opening - topped.by[k]
    BY <1>1 DEF Result
  <2>3. balance[k] \in Int /\ topped.by[k] \in Int
    BY <1>2, <1>3
  <2> HIDE DEF k, a
  <2> QED
    BY <1>2, <1>3, <2>1, <2>2, <2>3
<1>7. /\ faults' >= faults /\ (n # 1 => faults' >= faults + 1)
      /\ faults' = 0 => faults = 0 /\ n = 1 /\ Reward(p, m)
  BY <1>3, <1>4
<1> QED
  BY <1>4, <1>5, <1>6, <1>7

\* without a bill, and if no message is dropped, nothing more is charged
LEMMA NothingCharged ==
  ASSUME MinusInv, [Next]_vars, ~Dropped, \A p \in Procs : \A m \in net[p] : ~Bills(p, m),
         NEW c \in Clients
  PROVE  Charged(c)' = Charged(c) /\ \A o \in Charged(c) : ord'[o] = ord[o]
<1> TypeOK
  BY DEF MinusInv
<1>1. ASSUME NEW o \in Orders, ~IsCharged(o), IsCharged(o)' PROVE FALSE
  <2>1. Bill(o) \in net[ord[o].via] /\ Bill(o) \notin net'[ord[o].via]
    BY <1>1, ChargedNow
  <2>2. ord[o].via \in Procs
    BY OrderType
  <2>3. Receive(ord[o].via, Bill(o))
    BY <2>1, <2>2, MessagesGo
  <2> QED
    BY <2>1, <2>2, <2>3 DEF Bills, Billable, Mine, Bill
<1>2. \A o \in Orders : IsCharged(o) => IsCharged(o)' /\ ord'[o] = ord[o]
  BY ChargedStays
<1>3. \A o \in Orders : IsCharged(o)' <=> IsCharged(o)
  BY <1>1, <1>2
<1> QED
  BY <1>2, <1>3 DEF Charged

LEMMA BooksInit == Init => BooksInv
<1> SUFFICES ASSUME Init PROVE BooksInv
  OBVIOUS
<1>1. TypeOK /\ MinusInv
  BY TypeInit, MinusInit
<1>2. \A o \in Orders : ord[o].ph = "new"
  BY DEF Init
<1>3. Begun = {} /\ \A c \in Clients : Charged(c) = {}
  BY <1>2 DEF Begun, Charged, IsCharged
<1>4. IsFiniteSet(Begun) /\ \A w : Total(w, {}) = 0
  BY <1>3, FS_EmptySet, TotalStep
<1>5. \A c \in Clients : Result(c) = 0
  BY OrdersAssumption DEF Init, Result
<1>6. \A c \in Clients : Balanced(c)
  BY <1>3, <1>4, <1>5 DEF Balanced
<1>7. Rewarding /\ NoCopies
  BY DEF Init, Rewarding, NoCopies, Procs
<1> QED
  BY <1>1, <1>4, <1>6, <1>7 DEF BooksInv

LEMMA RewardingNext ==
  ASSUME MinusInv, Rewarding, [Next]_vars
  PROVE  Rewarding'
<1> TypeOK
  BY DEF MinusInv
<1>0. \A m \in timers : m.o \in Orders
  BY DEF TypeOK, Message
<1>1. \A o \in Orders : IsCharged(o) => IsCharged(o)' /\ ord'[o].via = ord[o].via
  BY ChargedStays
<1>2. CASE timers' \subseteq timers /\ loop'["web"] \in {loop["web"], None}
  BY <1>0, <1>1, <1>2 DEF Rewarding, TypeOK, Procs
<1>3. ASSUME NEW p \in Procs, NEW m \in net[p], Bills(p, m) PROVE Rewarding'
  <2> DEFINE o == m.o
  <2>1. o \in Orders /\ IsCharged(o)' /\ ord'[o].via = p /\ m.st = "complete"
    BY <1>3, BillFacts, BillCharges
  <2>2. CASE p = "tg"
    <3>1. timers' \subseteq timers \cup {m} /\ loop'["web"] = loop["web"]
      BY <1>3, <2>2 DEF Bills, Receive, Charge, Reward
    <3> QED
      BY <1>0, <1>1, <2>1, <2>2, <3>1 DEF Rewarding, TypeOK, Procs
  <2>3. CASE p = "web"
    <3>1. timers' = timers /\ loop'["web"] \in {o, loop["web"]}
      BY <1>3, <2>3 DEF Bills, Receive, Charge, Reward, TypeOK, Procs
    <3> QED
      BY <1>0, <1>1, <2>1, <2>3, <3>1 DEF Rewarding, TypeOK, Procs
  <2> QED
    BY <2>2, <2>3 DEF Procs
<1>4. ASSUME NEW p \in Procs, NEW m \in net[p], Receive(p, m), ~Bills(p, m)
      PROVE  timers' = timers /\ loop'["web"] = loop["web"]
  BY <1>4 DEF Bills, Receive
<1>5. ASSUME NEW o \in Orders, NEW c \in Clients, NEW r \in Robots, TgClientGet(o, c, r)
      PROVE  timers' = timers /\ loop'["web"] = loop["web"]
  BY <1>5 DEF TgClientGet, TypeOK, Procs
<1>6. ASSUME NEW p \in Procs, Crash(p)
      PROVE  timers' \subseteq timers /\ loop'["web"] \in {loop["web"], None}
  BY <1>6 DEF Crash, TypeOK, Procs
<1>7. WebCashback => timers' = timers /\ loop'["web"] = None
  BY DEF WebCashback, TypeOK, Procs
<1>8. ASSUME NEW o \in Orders, TgSendCookCmd(o) PROVE timers' = timers /\ loop'["web"] = loop["web"]
  BY <1>8 DEF TgSendCookCmd, TypeOK, Procs
<1> QED
  BY <1>2, <1>3, <1>4, <1>5, <1>6, <1>7, <1>8
     DEF Next, WebCheckRobot, WebClientGet, WebSend, RobotStarts, RobotRefuses, RobotCompletes,
         RobotFails, RobotEnds, TgBonus, Lose, Repeat, TopUp, vars

LEMMA FaultsGrow ==
  ASSUME TypeOK, [Next]_vars
  PROVE  faults' >= faults
<1>1. ASSUME NEW k, Fault(k) PROVE faults' >= faults
  BY <1>1 DEF Fault, TypeOK
<1>2. faults >= faults
  BY DEF TypeOK
<1>3. ASSUME NEW c, NEW a, NEW n, Withdraw(c, a, n) PROVE faults' >= faults
  BY <1>1, <1>2, <1>3 DEF Withdraw
<1>4. ASSUME NEW p \in Procs, NEW m \in net[p], Receive(p, m) PROVE faults' >= faults
  BY <1>1, <1>2, <1>3, <1>4 DEF Receive, Charge
<1>5. CASE WebCashback
  BY <1>1, <1>3, <1>5 DEF WebCashback
<1> QED
  BY <1>1, <1>2, <1>3, <1>4, <1>5 DEF Next, TgClientGet, WebCheckRobot, TgSendCookCmd, WebClientGet,
       WebSend, RobotStarts, RobotRefuses, RobotCompletes, RobotFails, RobotEnds, TgBonus,
       Lose, Repeat, Crash, TopUp, vars

LEMMA NoCopiesNext ==
  ASSUME TypeOK, TypeOK', NoCopies, [Next]_vars
  PROVE  NoCopies'
<1> SUFFICES ASSUME faults' = 0, NEW m \in timers' \cup net'["tg"] \cup net'["web"]
             PROVE  m.copy = 0
  BY DEF NoCopies
<1>1. faults = 0
  BY FaultsGrow DEF TypeOK
<1>2. \A n \in timers \cup net["tg"] \cup net["web"] : n.copy = 0
  BY <1>1 DEF NoCopies
<1>3. ASSUME NEW p \in Procs, NEW n \in net[p], Repeat(p, n) PROVE FALSE
  BY <1>3 DEF Repeat, Fault, TypeOK
<1>4. ASSUME NEW p \in Procs, m \in net'[p] PROVE m.copy = 0
  BY <1>2, <1>3, <1>4, MessagesCome DEF Procs
<1>5. ASSUME m \in timers', m \notin timers PROVE m.copy = 0
  <2>1. \E p \in Procs : m \in net[p]
    BY <1>5 DEF Next, TgClientGet, WebCheckRobot, TgSendCookCmd, WebClientGet, WebSend, RobotStarts,
         RobotRefuses, RobotCompletes, RobotFails, RobotEnds, TgBonus, WebCashback, Receive, Charge,
         Reward, Lose, Repeat, Crash, TopUp, vars
  <2> QED
    BY <1>2, <2>1 DEF Procs
<1> QED
  BY <1>2, <1>4, <1>5 DEF Procs

\* nothing happened that the books of a client would show
LEMMA BooksKept ==
  ASSUME TypeOK, TypeOK', IsFiniteSet(Begun), NEW c \in Clients, Balanced(c),
         Charged(c)' = Charged(c),
         \A o \in Charged(c) : ord'[o] = ord[o] /\ again'[o] = again[o],
         Result(c)' >= Result(c),
         faults' = 0 => /\ faults = 0 /\ Result(c)' = Result(c)
                        /\ \A o \in Charged(c) : Pending(o)' <=> Pending(o)
  PROVE  Balanced(c)'
<1>1. IsFiniteSet(Charged(c)) /\ Charged(c) \subseteq Orders
  BY ChargedIsFinite DEF Charged
<1>2. Total(Amount', Charged(c)) = Total(Amount, Charged(c))
  BY <1>1, TotalSame DEF Amount
<1>3. faults' = 0 => Total(Due', Charged(c)) = Total(Due, Charged(c))
  BY <1>1, TotalSame DEF Due
<1>4. Result(c) \in Int /\ Result(c)' \in Int /\ Total(Amount, Charged(c)) \in Int
  BY <1>1, BooksTypes, BooksTypesNext, TotalType
<1> QED
  BY <1>2, <1>3, <1>4 DEF Balanced

LEMMA BooksDropped ==
  ASSUME BooksInv, TypeOK', IsFiniteSet(Begun'), [Next]_vars, Dropped, NEW c \in Clients
  PROVE  Balanced(c)'
<1> TypeOK /\ MinusInv /\ IsFiniteSet(Begun) /\ Balanced(c)
  BY DEF BooksInv, MinusInv
<1>1. UNCHANGED <<balance, topped, again>> /\ faults' # 0
  BY DEF Dropped, Crash, Lose, Fault, TypeOK
<1> DEFINE S == Charged(c)'
<1>2. IsFiniteSet(S)
  <2>1. S \in SUBSET (Begun')
    BY DEF Charged, Begun, IsCharged
  <2> QED
    BY <2>1, FS_Subset
<1>3. S \subseteq Orders /\ \A o \in S : Amount'[o] = Amount[o] /\ Amount[o] \in Nat
  <2> SUFFICES ASSUME NEW o \in S PROVE o \in Orders /\ ord'[o] = ord[o]
    BY <1>1, BooksTypes DEF Amount
  <2> QED
    BY ChargedStays, ChargedNow DEF Charged
<1>4. Charged(c) \in SUBSET S
  BY ChargedStays DEF Charged
<1>5. Total(Amount', S) = Total(Amount, S)
  BY <1>2, <1>3, TotalSame
<1>6. Total(Amount, Charged(c)) <= Total(Amount, S)
  BY <1>2, <1>3, <1>4, TotalGrows
<1>7. Result(c)' = Result(c)
  BY <1>1 DEF Result
<1>8. Result(c) \in Int /\ Total(Amount, S) \in Int /\ Total(Amount, Charged(c)) \in Int
  BY <1>2, <1>3, <1>4, BooksTypes, TotalType, ChargedIsFinite
<1> QED
  BY <1>1, <1>5, <1>6, <1>7, <1>8 DEF Balanced

\* what a charge too many adds to what a drink may have cost
LEMMA PriceOften ==
  ASSUME NEW a \in Nat, NEW k \in Nat
  PROVE  /\ a <= a * (1 + k)
         /\ a * (1 + (k + 1)) = a * (1 + k) + a
         /\ a * (1 + (k + 2)) = a * (1 + k) + 2 * a
<1>1. a * k \in Nat /\ a * (1 + k) = a + a * k
  OBVIOUS
<1>2. a * (1 + (k + 1)) = 2 * a + a * k /\ a * (1 + (k + 2)) = 3 * a + a * k
  OBVIOUS
<1> QED
  BY <1>1, <1>2

\* the first charge of a drink
LEMMA BooksBilled ==
  ASSUME BooksInv, TypeOK', [Next]_vars, NEW p \in Procs, NEW m \in net[p], Bills(p, m),
         m.copy = 0, NEW c \in Clients
  PROVE  Balanced(c)'
<1> DEFINE o == m.o
           k == ord[o].cl
           a == ord[o].amt
           S == Charged(c)
<1> TypeOK /\ MinusInv /\ IsFiniteSet(Begun) /\ Balanced(c) /\ Rewarding
  BY DEF BooksInv, MinusInv
<1>1. /\ o \in Orders /\ ~IsCharged(o) /\ IsCharged(o)' /\ UNCHANGED ord
      /\ \A u \in Orders \ {o} : IsCharged(u)' <=> IsCharged(u)
  BY BillFacts, BillCharges
<1>2. k \in Clients /\ a \in Nat /\ Bonus(a) \in Nat
  BY <1>1, OrderType, BonusType
<1>3. UNCHANGED topped /\ loop[p] = None /\ ord[o].via = p
  BY BillFacts
<1>4. PICK n \in 0..2 :
        /\ again' = [again EXCEPT ![o] = @ + Extra(m, n)]
        /\ \A d \in Clients \ {k} : Result(d)' = Result(d)
        /\ Result(k)' = Result(k) - n * a
        /\ faults' = 0 => faults = 0 /\ n = 1 /\ Reward(p, m)
  BY ChargeTimes
<1>5. again \in [Orders -> Nat] /\ \A u \in Orders \ {o} : again'[u] = again[u]
  BY <1>4 DEF TypeOK
<1>6. ASSUME NEW u \in Orders \ {o}, Reward(p, m) PROVE Pending(u)' <=> Pending(u)
  <2>1. (\E n1 \in timers' : n1.o = u) <=> (\E n1 \in timers : n1.o = u)
    BY <1>6 DEF Reward
  <2>2. loop'["web"] = u <=> loop["web"] = u
    BY <1>3, <1>6, OrdersAssumption DEF Reward, TypeOK, Procs
  <2> QED
    BY <2>1, <2>2 DEF Pending
<1>7. CASE c # k
  <2>1. Charged(c)' = Charged(c) /\ o \notin Charged(c)
    BY <1>1, <1>7 DEF Charged
  <2>2. Result(c)' = Result(c)
    BY <1>4, <1>7
  <2>3. \A u \in Charged(c) : u \in Orders \ {o}
    BY <2>1 DEF Charged
  <2> QED
    BY <1>1, <1>4, <1>5, <1>6, <2>1, <2>2, <2>3, BooksKept, BooksTypes
<1>8. CASE c = k
  <2>1. Charged(c)' = S \cup {o} /\ o \notin S /\ S \subseteq Orders
    BY <1>1, <1>8 DEF Charged
  <2>2. IsFiniteSet(S) /\ IsFiniteSet(S \cup {o}) /\ (S \cup {o}) \ {o} = S
    BY <2>1, ChargedIsFinite, FS_AddElement
  <2>3. /\ \A u \in S : Amount'[u] = Amount[u]
        /\ \A u \in S \cup {o} : Amount'[u] \in Int /\ Amount[u] \in Int
    BY <1>1, <1>5, <2>1, BooksTypes, BooksTypesNext DEF Amount
  <2>4. Total(Amount', Charged(c)') = Amount'[o] + Total(Amount, S)
    <3>1. Total(Amount', S \cup {o}) = Amount'[o] + Total(Amount', (S \cup {o}) \ {o})
      BY <2>2, <2>3, TotalRemove
    <3>2. Total(Amount', S) = Total(Amount, S)
      BY <2>2, <2>3, TotalSame
    <3> QED
      BY <2>1, <2>2, <3>1, <3>2
  <2>5. Total(Amount, S) \in Int /\ Result(c) \in Int /\ Amount'[o] \in Int
    BY <2>2, <2>3, TotalType, BooksTypes
  <2>6. n * a <= Amount'[o]
    <3>1. again[o] \in Nat /\ again'[o] = again[o] + Extra(m, n)
      BY <1>1, <1>4, <1>5
    <3>2. Amount'[o] = a * (1 + (again[o] + Extra(m, n)))
      BY <1>1, <3>1 DEF Amount
    <3>3. a <= a * (1 + again[o]) /\ a * (1 + (again[o] + 1)) = a * (1 + again[o]) + a
      BY <1>2, <3>1, PriceOften
    <3>4. a * (1 + again[o]) \in Nat
      BY <1>2, <3>1
    <3>5. (n < 2 => Extra(m, n) = 0) /\ (n = 2 => Extra(m, n) = 1)
      BY DEF Extra
    <3>6. CASE n = 2
      <4>1. Amount'[o] = a * (1 + (again[o] + 1))
        BY <3>2, <3>5, <3>6
      <4> QED
        BY <1>2, <3>3, <3>4, <3>6, <4>1
    <3>7. CASE n < 2
      <4>1. Amount'[o] = a * (1 + again[o])
        BY <3>1, <3>2, <3>5, <3>7
      <4>2. n = 0 \/ n = 1
        BY <3>7
      <4> QED
        BY <1>2, <3>3, <3>4, <4>1, <4>2
    <3> QED
      BY <3>6, <3>7
  <2>7. Result(c)' >= -Total(Amount', Charged(c)')
    <3>1. n * a \in Int
      BY <1>2
    <3>2. Result(c)' = Result(c) - n * a /\ Result(c) >= -Total(Amount, S)
      BY <1>1, <1>4, <1>8 DEF Balanced
    <3> HIDE DEF o, k, a, S
    <3> QED
      BY <2>4, <2>5, <2>6, <3>1, <3>2
  <2>8. ASSUME faults' = 0 PROVE Result(c)' = -Total(Due', Charged(c)')
    <3>1. Result(c)' = Result(c) - a
      BY <1>1, <1>2, <1>4, <1>8, <2>8
    <3>2. Due'[o] = a
      <4>1. Pending(o)' \/ Bonus(a) = 0
        BY <1>2, <1>3, <1>4, <2>8 DEF Reward, Pending, TypeOK, Procs, Bonus
      <4> QED
        BY <1>1, <1>2, <4>1 DEF Due
    <3>3. \A u \in S : Due'[u] = Due[u]
      BY <1>1, <1>4, <1>6, <2>1, <2>8 DEF Due
    <3>4. \A u \in S \cup {o} : Due'[u] \in Int
      BY <1>1, <2>1, BooksTypesNext
    <3>5. Total(Due', S \cup {o}) = Due'[o] + Total(Due', (S \cup {o}) \ {o})
      BY <2>2, <3>4, TotalRemove
    <3>6. Total(Due', S) = Total(Due, S)
      BY <2>2, <3>3, TotalSame
    <3>7. Total(Due, S) \in Int
      BY <2>1, <2>2, BooksTypes, TotalType
    <3>8. Total(Due', Charged(c)') = a + Total(Due, S)
      BY <2>1, <2>2, <3>2, <3>5, <3>6
    <3>9. Result(c) = -Total(Due, S)
      BY <1>4, <2>8 DEF Balanced
    <3> HIDE DEF o, k, a, S
    <3> QED
      BY <1>2, <2>5, <3>1, <3>7, <3>8, <3>9
  <2> QED
    BY <2>7, <2>8 DEF Balanced
<1> QED
  BY <1>7, <1>8

\* and those too many
LEMMA BooksBilledAgain ==
  ASSUME BooksInv, TypeOK', [Next]_vars, NEW p \in Procs, NEW m \in net[p], Bills(p, m),
         m.copy # 0, NEW c \in Clients
  PROVE  Balanced(c)'
<1> DEFINE o == m.o
           k == ord[o].cl
           a == ord[o].amt
           S == Charged(c)
<1> TypeOK /\ MinusInv /\ IsFiniteSet(Begun) /\ Balanced(c) /\ NoCopies
  BY DEF BooksInv, MinusInv
<1>1. /\ o \in Orders /\ IsCharged(o) /\ IsCharged(o)' /\ UNCHANGED ord
      /\ \A u \in Orders \ {o} : IsCharged(u)' <=> IsCharged(u)
  BY BillFacts, BillCharges
<1>2. k \in Clients /\ a \in Nat
  BY <1>1, OrderType
<1>3. faults' # 0
  BY FaultsGrow DEF NoCopies, TypeOK, Procs
<1>4. PICK n \in 0..2 :
        /\ again' = [again EXCEPT ![o] = @ + Extra(m, n)]
        /\ \A d \in Clients \ {k} : Result(d)' = Result(d)
        /\ Result(k)' = Result(k) - n * a
  BY ChargeTimes
<1>5. /\ again[o] \in Nat /\ again'[o] = again[o] + n
      /\ \A u \in Orders \ {o} : again'[u] = again[u]
  <2>1. Extra(m, n) = n
    BY BillFacts DEF Extra
  <2> QED
    BY <1>1, <1>4, <2>1 DEF TypeOK
<1>6. Charged(c)' = S /\ S \subseteq Orders /\ IsFiniteSet(S)
  BY <1>1, ChargedIsFinite DEF Charged
<1>7. CASE c # k
  <2>1. o \notin S
    BY <1>7 DEF Charged
  <2>2. Result(c)' = Result(c) /\ Result(c) \in Int
    BY <1>4, <1>7, BooksTypes
  <2>3. \A u \in S : ord'[u] = ord[u] /\ again'[u] = again[u]
    BY <1>1, <1>5, <1>6, <2>1
  <2> QED
    BY <1>3, <1>6, <2>2, <2>3, BooksKept
<1>8. CASE c = k
  <2>1. o \in S
    BY <1>1, <1>8 DEF Charged
  <2>2. /\ \A u \in S \ {o} : Amount'[u] = Amount[u]
        /\ \A u \in S : Amount'[u] \in Int /\ Amount[u] \in Int
    BY <1>1, <1>5, <1>6, BooksTypes, BooksTypesNext DEF Amount
  <2>3. IsFiniteSet(S \ {o})
    BY <1>6, FS_Subset
  <2>4. Amount'[o] = Amount[o] + n * a
    <3>1. Amount'[o] = a * (1 + (again[o] + n)) /\ Amount[o] = a * (1 + again[o])
      BY <1>1, <1>5 DEF Amount
    <3>2. /\ a * (1 + (again[o] + 1)) = a * (1 + again[o]) + a
          /\ a * (1 + (again[o] + 2)) = a * (1 + again[o]) + 2 * a
      BY <1>2, <1>5, PriceOften
    <3>3. a * (1 + again[o]) \in Nat
      BY <1>2, <1>5
    <3>4. n = 0 \/ n = 1 \/ n = 2
      OBVIOUS
    <3>5. CASE n = 0
      <4>1. again[o] + n = again[o] /\ n * a = 0
        BY <1>2, <1>5, <3>5
      <4> QED
        BY <3>1, <3>3, <4>1
    <3>6. CASE n = 1
      BY <1>2, <3>1, <3>2, <3>3, <3>6
    <3>7. CASE n = 2
      BY <1>2, <3>1, <3>2, <3>3, <3>7
    <3> QED
      BY <3>4, <3>5, <3>6, <3>7
  <2>5. /\ Total(Amount', S) = Amount'[o] + Total(Amount', S \ {o})
        /\ Total(Amount, S) = Amount[o] + Total(Amount, S \ {o})
    BY <1>6, <2>1, <2>2, TotalRemove
  <2>6. Total(Amount', S \ {o}) = Total(Amount, S \ {o})
    BY <2>2, <2>3, TotalSame
  <2>7. /\ Total(Amount, S \ {o}) \in Int /\ Result(c) \in Int /\ n * a \in Int
        /\ Amount[o] \in Int
    BY <1>2, <2>1, <2>2, <2>3, TotalType, BooksTypes
  <2>8. Result(c)' = Result(c) - n * a /\ Result(c) >= -Total(Amount, S)
    BY <1>1, <1>4, <1>8 DEF Balanced
  <2>9. Result(c)' >= -Total(Amount', S)
    <3> HIDE DEF o, k, a, S
    <3> QED
      BY <2>4, <2>5, <2>6, <2>7, <2>8
  <2> QED
    BY <1>3, <1>6, <2>9 DEF Balanced
<1> QED
  BY <1>7, <1>8

\* the bonus of a drink, which comes once if nothing fails
LEMMA BooksRewarded ==
  ASSUME BooksInv, TypeOK', [Next]_vars, NEW o \in Orders, IsCharged(o),
         UNCHANGED <<ord, net, again>>,
         \A d \in Clients \ {ord[o].cl} : Result(d)' = Result(d),
         Result(ord[o].cl)' >= Result(ord[o].cl),
         faults' = 0 => /\ faults = 0 /\ Pending(o) /\ ~Pending(o)'
                        /\ Result(ord[o].cl)' = Result(ord[o].cl) + Bonus(ord[o].amt)
                        /\ \A u \in Orders \ {o} : Pending(u)' <=> Pending(u),
         NEW c \in Clients
  PROVE  Balanced(c)'
<1> DEFINE k == ord[o].cl
           S == Charged(c)
<1> TypeOK /\ MinusInv /\ IsFiniteSet(Begun) /\ Balanced(c)
  BY DEF BooksInv, MinusInv
<1>1. k \in Clients /\ ord[o].amt \in Nat /\ Bonus(ord[o].amt) \in Nat
  BY OrderType, BonusType
<1>2. S \subseteq Orders /\ IsFiniteSet(S) /\ IsFiniteSet(S \ {o})
  BY ChargedIsFinite, FS_Subset DEF Charged
<1>3. Charged(c)' = S
  BY DEF Charged, IsCharged, Bill
<1>4. Result(c) \in Int /\ Result(c)' \in Int
  BY BooksTypes, BooksTypesNext
<1>5. CASE c # k
  <2>1. o \notin S
    BY <1>5 DEF Charged
  <2>2. Result(c)' = Result(c)
    BY <1>5
  <2> QED
    BY <1>2, <1>3, <1>4, <2>1, <2>2, BooksKept
<1>6. CASE c = k
  <2>1. o \in S
    BY <1>1, <1>6 DEF Charged
  <2>3. Amount' = Amount /\ \A u \in S : Amount[u] \in Int /\ Due[u] \in Int /\ Due'[u] \in Int
    BY <1>2, BooksTypes, BooksTypesNext DEF Amount
  <2>4. Total(Amount, S) \in Int /\ Total(Due, S \ {o}) \in Int
    BY <1>2, <2>3, TotalType
  <2>5. Result(c)' >= -Total(Amount, S)
    <3>1. Result(c)' >= Result(c) /\ Result(c) >= -Total(Amount, S)
      BY <1>6 DEF Balanced
    <3> QED
      BY <1>4, <2>4, <3>1
  <2>6. ASSUME faults' = 0 PROVE Result(c)' = -Total(Due', S)
    <3>1. Due[o] = ord[o].amt /\ Due'[o] = ord[o].amt - Bonus(ord[o].amt)
      BY <1>1, <2>6 DEF Due
    <3>2. Total(Due, S) = Due[o] + Total(Due, S \ {o})
      BY <1>2, <2>1, <2>3, TotalRemove
    <3>3. Total(Due', S) = Due'[o] + Total(Due', S \ {o})
      BY <1>2, <2>1, <2>3, TotalRemove
    <3>4. Total(Due', S \ {o}) = Total(Due, S \ {o})
      <4>1. \A u \in S \ {o} : Due'[u] = Due[u]
        BY <1>2, <2>6 DEF Due
      <4> QED
        BY <1>2, <4>1, TotalSame
    <3>5. Result(c) = -Total(Due, S) /\ Result(c)' = Result(c) + Bonus(ord[o].amt)
      BY <1>6, <2>6 DEF Balanced
    <3> HIDE DEF S
    <3> QED
      BY <1>1, <1>4, <2>4, <3>1, <3>2, <3>3, <3>4, <3>5
  <2> QED
    BY <1>3, <2>3, <2>5, <2>6 DEF Balanced
<1> QED
  BY <1>5, <1>6

\* a bonus, whose UPDATE is applied no, one or two times
LEMMA BonusTimes ==
  ASSUME TypeOK, NEW o \in Orders, UNCHANGED <<ord, topped>>,
         \/ \E n \in 0..2 : Withdraw(ord[o].cl, -Bonus(ord[o].amt), n)
         \/ UNCHANGED balance /\ Fault("db")
  PROVE  /\ \A d \in Clients \ {ord[o].cl} : Result(d)' = Result(d)
         /\ Result(ord[o].cl)' >= Result(ord[o].cl)
         /\ faults' = 0 => /\ faults = 0
                           /\ Result(ord[o].cl)' = Result(ord[o].cl) + Bonus(ord[o].amt)
<1> DEFINE k == ord[o].cl
           b == Bonus(ord[o].amt)
<1>1. k \in Clients /\ b \in Nat
  BY OrderType, BonusType
<1>2. /\ balance \in [Clients -> Int] /\ topped.by \in [Clients -> Nat] /\ faults \in Nat
      /\ Opening \in Nat
  BY OrdersAssumption DEF TypeOK
<1> HIDE DEF b
<1>3. \/ balance' = [balance EXCEPT ![k] = @ - (-b)] /\ UNCHANGED faults
      \/ /\ \/ UNCHANGED balance
            \/ balance' = [balance EXCEPT ![k] = @ - 2 * (-b)]
         /\ faults' = faults + 1
  BY DEF Withdraw, Fault, b
<1>4. /\ \A d \in Clients \ {k} : balance'[d] = balance[d]
      /\ balance'[k] >= balance[k] /\ balance'[k] \in Int
      /\ faults' = 0 => faults = 0 /\ balance'[k] = balance[k] + b
  BY <1>1, <1>2, <1>3
<1>5. \A d \in Clients : /\ Result(d) = balance[d] - Opening - topped.by[d]
                         /\ Result(d)' = balance'[d] - Opening - topped.by[d]
  BY DEF Result
<1>6. \A d \in Clients \ {k} : Result(d)' = Result(d)
  BY <1>4, <1>5
<1>7. /\ Result(k)' >= Result(k)
      /\ faults' = 0 => faults = 0 /\ Result(k)' = Result(k) + b
  <2>1. /\ Result(k) = balance[k] - Opening - topped.by[k] /\ balance[k] \in Int
        /\ Result(k)' = balance'[k] - Opening - topped.by[k] /\ topped.by[k] \in Int
    BY <1>1, <1>2, <1>5
  <2> HIDE DEF k
  <2> QED
    BY <1>1, <1>2, <1>4, <2>1
<1> QED
  BY <1>6, <1>7 DEF b

LEMMA BooksQuiet ==
  ASSUME BooksInv, TypeOK', [Next]_vars, ~Dropped, \A p \in Procs : \A m \in net[p] : ~Bills(p, m),
         NEW c \in Clients, Result(c)' >= Result(c), UNCHANGED <<timers, again>>,
         loop'["web"] = loop["web"],
         faults' = 0 => faults = 0 /\ Result(c)' = Result(c)
  PROVE  Balanced(c)'
<1> TypeOK /\ MinusInv /\ IsFiniteSet(Begun) /\ Balanced(c)
  BY DEF BooksInv, MinusInv
<1>1. Charged(c)' = Charged(c) /\ \A o \in Charged(c) : ord'[o] = ord[o]
  BY NothingCharged
<1>2. \A o \in Orders : Pending(o)' <=> Pending(o)
  BY DEF Pending
<1>3. Charged(c) \subseteq Orders
  BY DEF Charged
<1> QED
  BY <1>1, <1>2, <1>3, BooksKept

LEMMA BooksNext == ASSUME BooksInv, [Next]_vars PROVE BooksInv'
<1> TypeOK /\ MinusInv /\ Rewarding /\ NoCopies /\ IsFiniteSet(Begun)
  BY DEF BooksInv, MinusInv
<1>1. TypeOK' /\ MinusInv' /\ Rewarding' /\ NoCopies' /\ IsFiniteSet(Begun')
  BY TypeNext, MinusNext, RewardingNext, NoCopiesNext, BegunIsFinite
<1> SUFFICES ASSUME NEW c \in Clients PROVE Balanced(c)'
  BY <1>1 DEF BooksInv
<1>0. ASSUME NEW k, Fault(k) PROVE faults' # 0
  BY <1>0 DEF Fault, TypeOK
<1>2. CASE Dropped
  BY <1>1, <1>2, BooksDropped
<1>3. ASSUME NEW p \in Procs, NEW m \in net[p], Bills(p, m) PROVE Balanced(c)'
  BY <1>1, <1>3, BooksBilled, BooksBilledAgain
<1>4. ASSUME NEW m \in timers, TgBonus(m) PROVE Balanced(c)'
  <2> DEFINE o == m.o
  <2>1. o \in Orders /\ m.st = "complete" /\ IsCharged(o) /\ ord[o].via = "tg"
    BY DEF TypeOK, Message, Rewarding
  <2>2. UNCHANGED <<ord, net, topped, loop, again>> /\ timers' = timers \ {m}
    BY <1>4 DEF TgBonus
  <2>3. loop["web"] # o
    BY <2>1, OrdersAssumption DEF Rewarding
  <2>4. \E n \in 0..2 : Withdraw(ord[o].cl, -Bonus(ord[o].amt), n)
    BY <1>4 DEF TgBonus
  <2>5. /\ \A d \in Clients \ {ord[o].cl} : Result(d)' = Result(d)
        /\ Result(ord[o].cl)' >= Result(ord[o].cl)
        /\ faults' = 0 => /\ faults = 0
                          /\ Result(ord[o].cl)' = Result(ord[o].cl) + Bonus(ord[o].amt)
    BY <2>1, <2>2, <2>4, BonusTimes
  <2>6. ASSUME faults = 0 PROVE Pending(o) /\ ~Pending(o)'
    <3>1. \A n \in timers : n.copy = 0 /\ n.st = "complete" /\ n \in Message
      BY <2>6 DEF NoCopies, Rewarding, TypeOK
    <3>2. \A n \in timers : n.o = o => n = m
      BY <3>1 DEF Message
    <3> QED
      BY <2>2, <2>3, <3>2 DEF Pending
  <2>7. \A u \in Orders \ {o} : Pending(u)' <=> Pending(u)
    BY <2>2 DEF Pending
  <2> QED
    BY <1>1, <2>1, <2>2, <2>5, <2>6, <2>7, BooksRewarded
<1>5. CASE WebCashback
  <2>0. PICK o \in Orders : o = loop["web"]
    BY <1>5 DEF WebCashback, TypeOK, Procs
  <2>1. /\ UNCHANGED <<ord, net, topped, timers, again>> /\ loop'["web"] = None
        /\ IsCharged(o) /\ ord[o].via = "web"
    BY <1>5, <2>0 DEF WebCashback, Rewarding, TypeOK, Procs
  <2>2. Pending(o) /\ ~Pending(o)' /\ \A u \in Orders \ {o} : Pending(u)' <=> Pending(u)
    BY <2>0, <2>1, OrdersAssumption DEF Pending, Rewarding
  <2>3. \/ \E n \in 0..2 : Withdraw(ord[o].cl, -Bonus(ord[o].amt), n)
        \/ UNCHANGED balance /\ Fault("db")
    BY <1>5, <2>0 DEF WebCashback
  <2>4. /\ \A d \in Clients \ {ord[o].cl} : Result(d)' = Result(d)
        /\ Result(ord[o].cl)' >= Result(ord[o].cl)
        /\ faults' = 0 => /\ faults = 0
                          /\ Result(ord[o].cl)' = Result(ord[o].cl) + Bonus(ord[o].amt)
    BY <2>1, <2>3, BonusTimes
  <2> QED
    BY <1>1, <2>1, <2>2, <2>4, BooksRewarded
<1>6. ASSUME UNCHANGED <<balance, topped, timers, again>>, loop'["web"] = loop["web"],
             faults' = faults \/ faults' # 0,
             ~Dropped, \A p \in Procs : \A m \in net[p] : ~Bills(p, m)
      PROVE  Balanced(c)'
  <2>1. Result(c)' = Result(c) /\ Result(c) \in Int
    BY <1>6, BooksTypes DEF Result
  <2> QED
    BY <1>1, <1>6, <2>1, BooksQuiet
<1>7. ASSUME NEW d \in Clients, NEW a \in TopUps, TopUp(d, a), ~Dropped,
             \A p \in Procs : \A m \in net[p] : ~Bills(p, m)
      PROVE  Balanced(c)'
  <2>1. PICK n \in 0..2 :
          /\ Withdraw(d, -a, n)
          /\ topped'.by = IF n = 0 THEN topped.by ELSE [topped.by EXCEPT ![d] = @ + a]
    BY <1>7 DEF TopUp
  <2>2. a \in Nat /\ Opening \in Nat /\ faults \in Nat
    BY OrdersAssumption DEF TypeOK
  <2>3. balance \in [Clients -> Int] /\ topped.by \in [Clients -> Nat]
    BY DEF TypeOK
  <2>4. \/ n = 0 /\ balance'[c] = balance[c] /\ topped'.by[c] = topped.by[c] /\ faults' # 0
        \/ /\ n = 1 /\ faults' = faults
           /\ \/ balance'[c] = balance[c] /\ topped'.by[c] = topped.by[c]
              \/ balance'[c] = balance[c] + a /\ topped'.by[c] = topped.by[c] + a
        \/ /\ n = 2 /\ faults' # 0
           /\ \/ balance'[c] = balance[c] /\ topped'.by[c] = topped.by[c]
              \/ balance'[c] = balance[c] + 2 * a /\ topped'.by[c] = topped.by[c] + a
    BY <1>0, <2>1, <2>2, <2>3 DEF Withdraw
  <2>5. /\ Result(c) = balance[c] - Opening - topped.by[c] /\ balance[c] \in Int
        /\ Result(c)' = balance'[c] - Opening - topped'.by[c] /\ topped.by[c] \in Int
    BY <2>3 DEF Result
  <2>6. Result(c)' >= Result(c) /\ (faults' = 0 => faults = 0 /\ Result(c)' = Result(c))
    BY <2>2, <2>4, <2>5
  <2>7. UNCHANGED <<timers, loop, again>>
    BY <1>7 DEF TopUp
  <2> QED
    BY <1>1, <1>7, <2>6, <2>7, BooksQuiet
<1>8. ASSUME NEW p \in Procs, NEW m \in net[p], Receive(p, m), ~Bills(p, m)
      PROVE  UNCHANGED <<balance, topped, timers, loop, faults, again>>
  BY <1>8 DEF Receive, Bills
<1>9. ASSUME NEW o \in Orders, NEW d \in Clients, NEW r \in Robots,
             TgClientGet(o, d, r) \/ WebCheckRobot(o, d, r)
      PROVE  /\ UNCHANGED <<balance, topped, timers, again>> /\ loop'["web"] = loop["web"]
             /\ faults' = faults \/ faults' # 0
  BY <1>0, <1>9 DEF TgClientGet, WebCheckRobot, TypeOK, Procs
<1>10. ASSUME NEW o \in Orders,
              \/ TgSendCookCmd(o) \/ WebClientGet(o) \/ WebSend(o) \/ RobotStarts(o)
              \/ RobotRefuses(o) \/ RobotCompletes(o) \/ RobotFails(o)
       PROVE  /\ UNCHANGED <<balance, topped, timers, again>> /\ loop'["web"] = loop["web"]
              /\ faults' = faults \/ faults' # 0
  BY <1>0, <1>10 DEF TgSendCookCmd, WebClientGet, WebSend, RobotStarts, RobotRefuses,
       RobotCompletes, RobotFails, RobotEnds, TypeOK, Procs
<1>11. ASSUME NEW p \in Procs, NEW m \in net[p], Repeat(p, m)
       PROVE  /\ UNCHANGED <<balance, topped, timers, loop, again>> /\ faults' # 0
  BY <1>0, <1>11 DEF Repeat
<1>12. CASE UNCHANGED vars
  BY <1>2, <1>3, <1>6, <1>12 DEF vars
<1>13. CASE Next
  BY <1>2, <1>3, <1>4, <1>5, <1>6, <1>7, <1>8, <1>9, <1>10, <1>11, <1>13 DEF Next, Dropped
<1> QED
  BY <1>12, <1>13

-----------------------------------------------------------------------------
(* What explains the charges too many: each stands for a fault, and so     *)
(* does each message on its way that may become one.                       *)

Copies(c) ==
  {m \in net["tg"] \cup net["web"] :
     m.copy # 0 /\ m.st = "complete" /\ ord[m.o].cl = c /\ m \in net[ord[m.o].via]}

Explained(c) ==
  IsFiniteSet(Copies(c)) /\ Total(again, Made(c)) + Cardinality(Copies(c)) <= faults

CountInv == MinusInv /\ IsFiniteSet(Begun) /\ \A c \in Clients : Explained(c)

LEMMA CountInit == Init => CountInv
<1> SUFFICES ASSUME Init PROVE CountInv
  OBVIOUS
<1>1. MinusInv
  BY MinusInit
<1>2. \A o \in Orders : ord[o].ph = "new"
  BY DEF Init
<1>3. Begun = {} /\ \A c \in Clients : Made(c) = {} /\ Copies(c) = {}
  BY <1>2 DEF Begun, Made, Copies, Init, Procs
<1>4. /\ IsFiniteSet({}) /\ Cardinality({}) = 0 /\ faults = 0
      /\ Total(again, {}) = 0
  BY FS_EmptySet, TotalStep DEF Init
<1> QED
  BY <1>1, <1>3, <1>4 DEF CountInv, Explained

\* nothing was charged once more, and no copy is new
LEMMA CountKept ==
  ASSUME CountInv, TypeOK', IsFiniteSet(Begun'), [Next]_vars, NEW c \in Clients,
         \A o \in Made(c) \cup Made(c)' : again'[o] = again[o], Copies(c)' \subseteq Copies(c)
  PROVE  Explained(c)'
<1> TypeOK /\ MinusInv /\ Explained(c) /\ IsFiniteSet(Begun)
  BY DEF CountInv, MinusInv
<1>1. IsFiniteSet(Made(c)) /\ Made(c) \subseteq Orders
  BY ChargedIsFinite DEF Made
<1> DEFINE S == Made(c)'
<1>2. IsFiniteSet(S) /\ S \subseteq Orders
  <2>1. S \in SUBSET (Begun')
    BY DEF Made, Begun
  <2> QED
    BY <2>1, FS_Subset DEF Made
<1>3. Made(c) \in SUBSET S
  <2> SUFFICES ASSUME NEW o \in Made(c) PROVE o \in S
    OBVIOUS
  <2>1. o \in Orders /\ ord[o].ph = "made" /\ ord'[o] = ord[o]
    BY OrdersChange DEF Made
  <2> QED
    BY <2>1 DEF Made
<1>4. \A o \in S \ Made(c) : again[o] = 0
  <2> SUFFICES ASSUME NEW o \in S, o \notin Made(c) PROVE again[o] = 0
    OBVIOUS
  <2>1. o \in Orders /\ ord'[o] # ord[o]
    BY DEF Made
  <2>2. ord[o].ph # "made"
    BY <2>1, OrdersChange
  <2> QED
    BY <2>1, <2>2 DEF MinusInv, AgainMeansMade
<1>5. \A o \in S : again[o] \in Int
  BY <1>2 DEF TypeOK
<1>6. Total(again', S) = Total(again, S)
  BY <1>2, TotalSame
<1>7. Total(again, S) = Total(again, Made(c)) /\ Total(again, Made(c)) \in Int
  BY <1>1, <1>2, <1>3, <1>4, <1>5, TotalNoughts, TotalType
<1> DEFINE C == Copies(c)
           D == Copies(c)'
<1>8. IsFiniteSet(C) /\ D \in SUBSET C /\ Total(again, Made(c)) + Cardinality(C) <= faults
  BY DEF Explained
<1>9. IsFiniteSet(D) /\ Cardinality(D) <= Cardinality(C)
  BY <1>8, FS_Subset
<1>10. Cardinality(C) \in Nat /\ Cardinality(D) \in Nat
  BY <1>8, <1>9, FS_CardinalityType
<1>11. faults' >= faults /\ faults \in Nat /\ faults' \in Nat
  BY FaultsGrow DEF TypeOK
<1>12. Total(again', S) + Cardinality(D) <= faults'
  <2> HIDE DEF C, D, S
  <2> QED
    BY <1>6, <1>7, <1>8, <1>9, <1>10, <1>11
<1> QED
  BY <1>9, <1>12 DEF Explained

\* a copy comes from the message that it repeats
LEMMA CopiesCome ==
  ASSUME MinusInv, [Next]_vars, NEW c \in Clients, NEW m \in Copies(c)', m \notin Copies(c)
  PROVE  \E p \in Procs : \E n \in net[p] : Repeat(p, n) /\ m = [n EXCEPT !.copy = @ + 1]
<1> TypeOK /\ CompleteMeansMade
  BY DEF MinusInv
<1>1. PICK p \in Procs : m \in net'[p]
  BY DEF Copies, Procs
<1>2. ASSUME ord'[m.o] = ord[m.o], m.o \in Orders PROVE m \notin net[ord[m.o].via]
  BY <1>2, OrderType DEF Copies, Procs
<1>3. ASSUME NEW q \in Procs, m \in net[q] PROVE ord'[m.o] = ord[m.o] /\ m.o \in Orders
  <2>1. m.o \in Orders /\ m.st = "complete"
    BY <1>3 DEF TypeOK, Message, Copies
  <2>2. ord[m.o].ph = "made"
    BY <1>3, <2>1 DEF CompleteMeansMade
  <2> QED
    BY <2>1, <2>2, OrdersChange
<1>4. CASE m \notin net[p]
  BY <1>1, <1>4, MessagesCome DEF Copies
<1>5. CASE m \in net[p]
  <2>1. ord'[m.o] = ord[m.o] /\ m.o \in Orders
    BY <1>3, <1>5
  <2>2. ord[m.o].via \in Procs /\ m \in net'[ord[m.o].via] /\ m \notin net[ord[m.o].via]
    BY <1>2, <2>1, OrderType DEF Copies
  <2> QED
    BY <2>2, MessagesCome DEF Copies
<1> QED
  BY <1>4, <1>5

LEMMA CountCharged ==
  ASSUME CountInv, TypeOK', IsFiniteSet(Begun'), [Next]_vars,
         NEW p \in Procs, NEW m \in net[p], Bills(p, m), NEW c \in Clients
  PROVE  Explained(c)'
<1> DEFINE o == m.o
           k == ord[o].cl
           S == Made(c)
           C == Copies(c)
<1> TypeOK /\ MinusInv /\ Explained(c) /\ IsFiniteSet(Begun)
  BY DEF CountInv, MinusInv
<1>1. /\ o \in Orders /\ m.copy \in Nat /\ m.st = "complete" /\ ord[o].ph = "made"
      /\ ord[o].via = p /\ net' = [net EXCEPT ![p] = @ \ {m}] /\ UNCHANGED ord
  BY BillFacts
<1>2. PICK n \in 0..2 :
        /\ again' = [again EXCEPT ![o] = @ + Extra(m, n)]
        /\ faults' >= faults /\ (n # 1 => faults' >= faults + 1)
  BY ChargeTimes
<1>3. /\ again \in [Orders -> Nat] /\ again' \in [Orders -> Nat]
      /\ \A u \in Orders \ {o} : again'[u] = again[u]
      /\ again'[o] = again[o] + Extra(m, n)
  BY <1>1, <1>2 DEF TypeOK
<1>4. Copies(c)' \subseteq Copies(c)
  BY <1>1, OrderType DEF Copies, TypeOK, Procs
<1>5. Made(c)' = S /\ IsFiniteSet(S) /\ S \subseteq Orders
  BY <1>1, ChargedIsFinite DEF Made
<1>6. CASE c # k
  <2>1. o \notin S
    BY <1>6 DEF Made
  <2> QED
    BY <1>3, <1>4, <1>5, <2>1, CountKept
<1>7. CASE c = k
  <2>1. o \in S
    BY <1>1, <1>7 DEF Made
  <2>2. \A u \in S : again[u] \in Int /\ again'[u] \in Int
    BY <1>3, <1>5
  <2>3. IsFiniteSet(S \ {o}) /\ \A u \in S \ {o} : again'[u] = again[u]
    BY <1>3, <1>5, FS_Subset
  <2>4. /\ Total(again', S) = again'[o] + Total(again', S \ {o})
        /\ Total(again, S) = again[o] + Total(again, S \ {o})
    BY <1>5, <2>1, <2>2, TotalRemove
  <2>5. Total(again', S \ {o}) = Total(again, S \ {o})
    BY <2>3, TotalSame
  <2>6. Total(again, S \ {o}) \in Int /\ again[o] \in Int /\ Extra(m, n) \in Int
    BY <1>3, <2>1, <2>2, <2>3, TotalType DEF Extra
  <2>7. Total(again', S) = Total(again, S) + Extra(m, n) /\ Total(again, S) \in Int
    <3> HIDE DEF o, S
    <3> QED
      BY <1>3, <2>4, <2>5, <2>6
  <2>8. IsFiniteSet(C) /\ Total(again, S) + Cardinality(C) <= faults
    BY DEF Explained
  <2>9. Cardinality(C) \in Nat /\ faults \in Nat /\ faults' \in Nat
    BY <2>8, FS_CardinalityType DEF TypeOK
  <2> DEFINE D == Copies(c)'
  <2>10. IsFiniteSet(D) /\ Cardinality(D) <= Cardinality(C) /\ Cardinality(D) \in Nat
    BY <1>4, <2>8, FS_Subset, FS_CardinalityType
  <2>11. CASE m.copy = 0
    <3>1. Extra(m, n) <= IF n = 1 THEN 0 ELSE 1
      BY <2>11 DEF Extra
    <3>2. Total(again', S) + Cardinality(D) <= faults'
      <4> HIDE DEF C, D, S
      <4> QED
        BY <1>2, <2>6, <2>7, <2>8, <2>9, <2>10, <3>1
    <3> QED
      BY <1>5, <2>10, <3>2 DEF Explained
  <2>12. CASE m.copy # 0
    <3>1. Extra(m, n) = n
      BY <2>12 DEF Extra
    <3>2. m \in C
      BY <1>1, <1>7, <2>12 DEF Copies, Procs
    <3>3. D \in SUBSET (C \ {m})
      <4> SUFFICES ASSUME m \in D PROVE FALSE
        BY <1>4
      <4>1. m \in net'[ord'[o].via]
        BY DEF Copies
      <4> QED
        BY <1>1, <4>1 DEF TypeOK
    <3>4. IsFiniteSet(C \ {m}) /\ Cardinality(C \ {m}) = Cardinality(C) - 1
      BY <2>8, <3>2, FS_RemoveElement
    <3>5. Cardinality(D) <= Cardinality(C) - 1
      BY <3>3, <3>4, FS_Subset
    <3>6. Total(again', S) + Cardinality(D) <= faults'
      <4> HIDE DEF C, D, S
      <4> QED
        BY <1>2, <2>7, <2>8, <2>9, <2>10, <3>1, <3>5
    <3> QED
      BY <1>5, <2>10, <3>6 DEF Explained
  <2> QED
    BY <2>11, <2>12
<1> QED
  BY <1>6, <1>7

LEMMA CountRepeated ==
  ASSUME CountInv, TypeOK', [Next]_vars, NEW p \in Procs, NEW m \in net[p], Repeat(p, m),
         NEW c \in Clients
  PROVE  Explained(c)'
<1> DEFINE d == [m EXCEPT !.copy = @ + 1]
           S == Made(c)
           C == Copies(c)
           D == Copies(c)'
<1> TypeOK /\ MinusInv /\ Explained(c) /\ IsFiniteSet(Begun)
  BY DEF CountInv, MinusInv
<1>1. UNCHANGED <<ord, again>> /\ net' = [net EXCEPT ![p] = @ \cup {d}] /\ faults' = faults + 1
  BY DEF Repeat, Fault
<1>2. Made(c)' = S /\ IsFiniteSet(S) /\ Total(again, S) \in Int
  <2>1. \A u \in S : again[u] \in Int
    BY DEF TypeOK, Made
  <2> QED
    BY <1>1, <2>1, ChargedIsFinite, TotalType DEF Made
<1>3. D \in SUBSET (C \cup {d})
  <2>1. \A n \in D : n # d => n \in C
    <3> SUFFICES ASSUME NEW n \in D, n # d PROVE n \in C
      OBVIOUS
    <3>1. \A q \in Procs : n \in net'[q] => n \in net[q]
      BY <1>1 DEF TypeOK
    <3>2. n \in net'[ord[n.o].via] /\ (n \in net'["tg"] \/ n \in net'["web"])
      BY <1>1 DEF Copies
    <3>3. n \in net["tg"] \/ n \in net["web"]
      BY <3>1, <3>2 DEF Procs
    <3>4. ord[n.o].via \in Procs
      BY <3>3, OrderType DEF TypeOK, Message, Procs
    <3> QED
      BY <1>1, <3>1, <3>2, <3>3, <3>4 DEF Copies
  <2> QED
    BY <2>1
<1>4. IsFiniteSet(C) /\ Total(again, S) + Cardinality(C) <= faults
  BY DEF Explained
<1>5. IsFiniteSet(C \cup {d}) /\ Cardinality(C \cup {d}) <= Cardinality(C) + 1
  <2> HIDE DEF C, d
  <2>1. /\ IsFiniteSet(C \cup {d})
        /\ Cardinality(C \cup {d}) = Cardinality(C) \/ Cardinality(C \cup {d}) = Cardinality(C) + 1
    BY <1>4, FS_AddElement
  <2>2. Cardinality(C) \in Nat
    BY <1>4, FS_CardinalityType
  <2> QED
    BY <2>1, <2>2
<1>6. IsFiniteSet(D) /\ Cardinality(D) <= Cardinality(C \cup {d})
  BY <1>3, <1>5, FS_Subset
<1>7. Cardinality(C) \in Nat /\ Cardinality(D) \in Nat /\ Cardinality(C \cup {d}) \in Nat
  BY <1>4, <1>5, <1>6, FS_CardinalityType
<1>8. Total(again, S) + Cardinality(D) <= faults'
  <2>1. faults \in Nat
    BY DEF TypeOK
  <2> HIDE DEF C, D, S, d
  <2> QED
    BY <1>1, <1>2, <1>4, <1>5, <1>6, <1>7, <2>1
<1> QED
  BY <1>1, <1>2, <1>6, <1>8 DEF Explained

LEMMA CountNext == ASSUME CountInv, [Next]_vars PROVE CountInv'
<1> TypeOK /\ MinusInv /\ IsFiniteSet(Begun)
  BY DEF CountInv, MinusInv
<1>1. TypeOK' /\ MinusInv' /\ IsFiniteSet(Begun')
  BY TypeNext, MinusNext, BegunIsFinite
<1> SUFFICES ASSUME NEW c \in Clients PROVE Explained(c)'
  BY <1>1 DEF CountInv
<1>2. CASE \E p \in Procs : \E m \in net[p] : Bills(p, m)
  BY <1>1, <1>2, CountCharged
<1>3. CASE \E p \in Procs : \E m \in net[p] : Repeat(p, m)
  BY <1>1, <1>3, CountRepeated
<1>4. CASE /\ \A p \in Procs : \A m \in net[p] : ~Bills(p, m)
           /\ \A p \in Procs : \A m \in net[p] : ~Repeat(p, m)
  <2>1. UNCHANGED again
    BY <1>4 DEF Next, TgClientGet, WebCheckRobot, TgSendCookCmd, WebClientGet, WebSend, RobotStarts,
         RobotRefuses, RobotCompletes, RobotFails, RobotEnds, TgBonus, WebCashback, Receive, Bills,
         Lose, Crash, TopUp, vars
  <2>2. Copies(c)' \subseteq Copies(c)
    BY <1>4, CopiesCome
  <2> QED
    BY <1>1, <2>1, <2>2, CountKept
<1> QED
  BY <1>2, <1>3, <1>4

-----------------------------------------------------------------------------
\* the sums of RemoteOrders, with what each order adds as a function
LEMMA PricesAdded ==
  ASSUME NEW c
  PROVE  MapThenSumSet(LAMBDA o : ord[o].amt * (1 + again[o]), Made(c)) = Total(Amount, Made(c))
<1> DEFINE S == Made(c)
           V(s) == LET x == CHOOSE x \in s : TRUE IN ord[x].amt * (1 + again[x])
<1>1. ASSUME NEW g
      PROVE  IsSum(g, Amount, S)
               <=> g = [s \in SUBSET S |-> IF s = {} THEN 0
                                           ELSE V(s) + g[s \ {CHOOSE x \in s : TRUE}]]
  <2>1. \A s \in SUBSET S : s # {} => Amount[Some(s)] = V(s)
    BY DEF Some, Made, Amount
  <2> QED
    BY <2>1 DEF IsSum, Some
<1>2. MapThenSumSet(LAMBDA o : ord[o].amt * (1 + again[o]), S)
        = (CHOOSE g : g = [s \in SUBSET S |-> IF s = {} THEN 0
                                             ELSE V(s) + g[s \ {CHOOSE x \in s : TRUE}]])[S]
  BY DEF MapThenSumSet, MapThenFoldSet
<1>3. Sum(Amount, S) = CHOOSE g : g = [s \in SUBSET S |-> IF s = {} THEN 0
                                             ELSE V(s) + g[s \ {CHOOSE x \in s : TRUE}]]
  BY <1>1 DEF Sum
<1> QED
  BY <1>2, <1>3 DEF Total

Net == [o \in Orders |-> ord[o].amt - Bonus(ord[o].amt)]

LEMMA NetPricesAdded ==
  ASSUME NEW c
  PROVE  MapThenSumSet(LAMBDA o : ord[o].amt - Bonus(ord[o].amt), Made(c)) = Total(Net, Made(c))
<1> DEFINE S == Made(c)
           V(s) == LET x == CHOOSE x \in s : TRUE IN ord[x].amt - Bonus(ord[x].amt)
<1>1. ASSUME NEW g
      PROVE  IsSum(g, Net, S)
               <=> g = [s \in SUBSET S |-> IF s = {} THEN 0
                                           ELSE V(s) + g[s \ {CHOOSE x \in s : TRUE}]]
  <2>1. \A s \in SUBSET S : s # {} => Net[Some(s)] = V(s)
    BY DEF Some, Made, Net
  <2> QED
    BY <2>1 DEF IsSum, Some
<1>2. MapThenSumSet(LAMBDA o : ord[o].amt - Bonus(ord[o].amt), S)
        = (CHOOSE g : g = [s \in SUBSET S |-> IF s = {} THEN 0
                                             ELSE V(s) + g[s \ {CHOOSE x \in s : TRUE}]])[S]
  BY DEF MapThenSumSet, MapThenFoldSet
<1>3. Sum(Net, S) = CHOOSE g : g = [s \in SUBSET S |-> IF s = {} THEN 0
                                             ELSE V(s) + g[s \ {CHOOSE x \in s : TRUE}]]
  BY <1>1 DEF Sum
<1> QED
  BY <1>2, <1>3 DEF Total

LEMMA AgainAdded ==
  ASSUME NEW c
  PROVE  MapThenSumSet(LAMBDA o : again[o], Made(c)) = Total(again, Made(c))
<1> DEFINE S == Made(c)
           V(s) == LET x == CHOOSE x \in s : TRUE IN again[x]
<1>1. ASSUME NEW g
      PROVE  IsSum(g, again, S)
               <=> g = [s \in SUBSET S |-> IF s = {} THEN 0
                                           ELSE V(s) + g[s \ {CHOOSE x \in s : TRUE}]]
  BY DEF IsSum, Some
<1>2. MapThenSumSet(LAMBDA o : again[o], S)
        = (CHOOSE g : g = [s \in SUBSET S |-> IF s = {} THEN 0
                                             ELSE V(s) + g[s \ {CHOOSE x \in s : TRUE}]])[S]
  BY DEF MapThenSumSet, MapThenFoldSet
<1>3. Sum(again, S) = CHOOSE g : g = [s \in SUBSET S |-> IF s = {} THEN 0
                                             ELSE V(s) + g[s \ {CHOOSE x \in s : TRUE}]]
  BY <1>1 DEF Sum
<1> QED
  BY <1>2, <1>3 DEF Total

(* NobodyOvercharged: messages come in any order, are lost and come again, *)
(* UPDATEs fail and are sent again, and still no balance is lower than     *)
(* what the client got explains, each drink charged by one process and     *)
(* once, except as often as a complete message or an UPDATE came again;    *)
(* and there are no more of these than faults (vender and                  *)
(* web-handler_order charge for what is theirs only).                      *)
THEOREM NobodyOvercharged == Spec => []NeverOvercharged
<1>1. Init => BooksInv /\ CountInv
  BY BooksInit, CountInit
<1>2. BooksInv /\ CountInv /\ [Next]_vars => BooksInv' /\ CountInv'
  BY BooksNext, CountNext
<1>3. BooksInv /\ CountInv => NeverOvercharged
  <2> SUFFICES ASSUME BooksInv, CountInv, NEW c \in Clients
               PROVE  /\ balance[c] >= Opening + topped.by[c]
                           - MapThenSumSet(LAMBDA o : ord[o].amt * (1 + again[o]), Made(c))
                      /\ MapThenSumSet(LAMBDA o : again[o], Made(c)) <= faults
    BY DEF NeverOvercharged
  <2> TypeOK /\ IsFiniteSet(Begun) /\ Balanced(c) /\ Explained(c)
    BY DEF BooksInv, CountInv, MinusInv
  <2>1. IsFiniteSet(Made(c)) /\ Charged(c) \in SUBSET Made(c) /\ Made(c) \subseteq Orders
    BY ChargedIsFinite DEF Made
  <2>2. IsFiniteSet(Charged(c)) /\ \A o \in Made(c) : Amount[o] \in Nat
    BY <2>1, ChargedIsFinite, BooksTypes
  <2>3. Total(Amount, Charged(c)) <= Total(Amount, Made(c))
    BY <2>1, <2>2, TotalGrows
  <2>4. Total(Amount, Charged(c)) \in Int /\ Total(Amount, Made(c)) \in Int
    BY <2>1, <2>2, TotalType
  <2>5. balance[c] \in Int /\ topped.by[c] \in Int /\ Opening \in Int
    BY OrdersAssumption DEF TypeOK
  <2>6. balance[c] - Opening - topped.by[c] >= -Total(Amount, Charged(c))
    BY DEF Balanced, Result
  <2>7. balance[c] >= Opening + topped.by[c] - Total(Amount, Made(c))
    BY <2>3, <2>4, <2>5, <2>6
  <2>8. Total(again, Made(c)) <= faults
    <3>1. Total(again, Made(c)) + Cardinality(Copies(c)) <= faults /\ IsFiniteSet(Copies(c))
      BY DEF Explained
    <3>2. Cardinality(Copies(c)) \in Nat /\ faults \in Nat
      BY <3>1, FS_CardinalityType DEF TypeOK
    <3>3. Total(again, Made(c)) \in Int
      BY <2>1, TotalType DEF TypeOK
    <3> QED
      BY <3>1, <3>2, <3>3
  <2> QED
    BY <2>7, <2>8, PricesAdded, AgainAdded
<1> QED
  BY <1>1, <1>2, <1>3, PTL DEF Spec

(* EveryDrinkPaid: without faults, once nothing is under way, the balances *)
(* are what the drinks that were made explain, to the kopeck: none went    *)
(* unpaid, none was charged twice, and each bonus came once.               *)
THEOREM EveryDrinkPaid == Spec => []EveryDrinkIsPaid
<1>1. Init => BooksInv
  BY BooksInit
<1>2. BooksInv /\ [Next]_vars => BooksInv'
  BY BooksNext
<1>3. BooksInv => EveryDrinkIsPaid
  <2> SUFFICES ASSUME BooksInv, Quiet, NEW c \in Clients
               PROVE  balance[c] = Opening + topped.by[c]
                        - MapThenSumSet(LAMBDA o : ord[o].amt - Bonus(ord[o].amt), Made(c))
    BY DEF EveryDrinkIsPaid
  <2> TypeOK /\ IsFiniteSet(Begun) /\ Balanced(c)
    BY DEF BooksInv, MinusInv
  <2>1. Charged(c) = Made(c)
    BY DEF Quiet, Charged, Made, IsCharged, Settled, Bill
  <2>2. IsFiniteSet(Made(c)) /\ Made(c) \subseteq Orders
    BY ChargedIsFinite DEF Made
  <2>3. \A o \in Made(c) : Due[o] = Net[o] /\ Due[o] \in Int
    BY <2>2, BooksTypes, OrdersAssumption DEF Quiet, Pending, Due, Net
  <2>4. Total(Due, Made(c)) = Total(Net, Made(c)) /\ Total(Due, Made(c)) \in Int
    BY <2>2, <2>3, TotalSame, TotalType
  <2>5. balance[c] \in Int /\ topped.by[c] \in Int /\ Opening \in Int
    BY OrdersAssumption DEF TypeOK
  <2>6. balance[c] - Opening - topped.by[c] = -Total(Due, Made(c))
    BY <2>1 DEF Quiet, Balanced, Result
  <2>7. balance[c] = Opening + topped.by[c] - Total(Due, Made(c))
    <3>1. /\ balance[c] >= Opening + topped.by[c] - Total(Due, Made(c))
          /\ balance[c] <= Opening + topped.by[c] - Total(Due, Made(c))
      BY <2>4, <2>5, <2>6
    <3> QED
      BY <2>4, <2>5, <3>1
  <2> QED
    BY <2>4, <2>7, NetPricesAdded
<1> QED
  BY <1>1, <1>2, <1>3, PTL DEF Spec

=============================================================================
