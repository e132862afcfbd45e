---------------------------- MODULE RemoteOrders ----------------------------
(***************************************************************************)
(* Orders that clients pay from their balance.  A client orders through    *)
(* the telegram bot (cmd/venderctl/telegram) or the web application        *)
(* (cmd/venderctl/web): two processes, "tg" and "web", which share the     *)
(* table users.  Both receive every message of every robot; the sign of    *)
(* the owner's type tells whose order it is.  The process asks the robot   *)
(* for a drink worth at most what the client may spend, takes the price    *)
(* from the balance when the robot has made it, and then gives the         *)
(* discount back as a bonus.                                               *)
(*                                                                         *)
(* The bot handles commands and messages in one loop.  The web application *)
(* handles a request in a goroutine of its own, besides the one that       *)
(* listens to the robots.  An SQL statement is one step.  Amounts are      *)
(* small enough for 32 bits, and robots serve nobody but these clients.    *)
(* What a process believes of a robot's state, by which it lets an order   *)
(* pass or not, is the subject of RobotStates; here it may believe         *)
(* anything.                                                               *)
(***************************************************************************)
EXTENDS Integers, FiniteSetsExt

CONSTANTS
  Clients,      \* rows of the table users
  Robots,
  Orders,       \* attempts to order, each used once
  None,         \* no order
  Prices,       \* of the drinks, in kopecks
  Opening,      \* everybody's balance at the start
  Credit,       \* everybody's credit
  Discount,     \* everybody's discount, in percent
  TopUps,       \* amounts that the admin adds to a balance
  MaxTopUps,    \* how often
  Patient,      \* clients who wait for one order before the next
  FaultKinds, MaxFaults

\* an SQL statement fails; its answer is lost and it is sent again
\* (MaxRetries = 1 of go-pg); a message is lost (QoS 0); a robot's message
\* comes twice; a process ends
AllFaults == {"db", "resent", "lost", "dup", "crash"}

ASSUME OrdersAssumption ==
  /\ None \notin Orders
  /\ Prices \subseteq Nat /\ TopUps \subseteq Nat
  /\ Opening \in Nat /\ Credit \in Nat
  /\ Discount \in 0..100
  /\ MaxTopUps \in Nat /\ MaxFaults \in Nat
  /\ Patient \subseteq Clients
  /\ FaultKinds \subseteq AllFaults

VARIABLES
  balance,   \* the column balance of users
  topped,    \* what the admin added so far, and how often
  ord,       \* the orders
  robot,     \* the order each robot is making
  net,       \* messages on their way to each process
  loop,      \* the order that keeps the bot's loop, or the web's listener, busy
  timers,    \* messages that the bot gives a bonus for after 10 seconds
  faults,
  again      \* how often an order was charged once more; for properties only

vars == <<balance, topped, ord, robot, net, loop, timers, faults, again>>

Procs  == {"tg", "web"}
Phases == {"new", "checked", "read", "sent", "making", "made", "over"}
Replies == {"executionStart", "refused", "complete", "orderError"}

\* cl: OwnerInt, via: the sign of OwnerType, max: Amount of makeOrder,
\* amt: Amount of complete
Order == [ph : Phases, cl : Clients, via : Procs, rb : Robots, max : Nat, amt : Nat]
\* copy: how often the same message came before
Message == [o : Orders, st : Replies, copy : Nat]

-----------------------------------------------------------------------------
Fault(kind) == kind \in FaultKinds /\ faults < MaxFaults /\ faults' = faults + 1

Phase(o, p) == ord' = [ord EXCEPT ![o].ph = p]

Bonus(price) == (price * Discount) \div 100

\* ClientUpdateBalance subtracts in the database, no, one or two times; its
\* error is only logged
Withdraw(c, amount, times) ==
  \/ times = 1 /\ balance' = [balance EXCEPT ![c] = @ - amount] /\ UNCHANGED faults
  \/ times = 0 /\ UNCHANGED balance /\ Fault("db")
  \/ times = 2 /\ balance' = [balance EXCEPT ![c] = @ - 2 * amount] /\ Fault("resent")

\* mutant: the credit is granted anew to a client in debt
Available_IgnoresDebt(c) == (IF balance[c] < 0 THEN 0 ELSE balance[c]) + Credit

Available(c) == balance[c] + Credit

\* mutant: who has nothing left may order for nothing
HasFunds_Always(c) == TRUE

HasFunds(c) == Available(c) > 0

\* the order is over for the client who waits for it
Settled(o) ==
  \/ ord[o].ph \in {"new", "over"}
  \/ ord[o].ph = "made" /\ [o |-> o, st |-> "complete", copy |-> 0] \notin net[ord[o].via]

MayOrder(c) == c \in Patient => \A o \in Orders : ord[o].cl = c => Settled(o)

-----------------------------------------------------------------------------
(* telegram: onTeleBot, commandCook *)

TgClientGet(o, c, r) ==
  /\ ord[o].ph = "new" /\ loop["tg"] = None /\ MayOrder(c)
  /\ \/ /\ HasFunds(c)
        /\ ord' = [ord EXCEPT ![o] = [@ EXCEPT !.ph = "read", !.cl = c, !.via = "tg",
                                               !.rb = r, !.max = Available(c)]]
        /\ loop' = [loop EXCEPT !["tg"] = o] /\ UNCHANGED faults
     \/ /\ ~HasFunds(c)
        /\ Phase(o, "over") /\ UNCHANGED <<loop, faults>>
     \/ Phase(o, "over") /\ UNCHANGED loop /\ Fault("db")
  /\ UNCHANGED <<balance, topped, robot, net, timers, again>>

TgSendCookCmd(o) ==
  /\ loop["tg"] = o /\ ord[o].ph = "read"
  /\ Phase(o, "sent") \/ Phase(o, "over")
  /\ loop' = [loop EXCEPT !["tg"] = None]
  /\ UNCHANGED <<balance, topped, robot, net, timers, faults, again>>

(* web: StartOrder *)

WebCheckRobot(o, c, r) ==
  /\ ord[o].ph = "new" /\ MayOrder(c)
  /\ ord' = [ord EXCEPT ![o] = [@ EXCEPT !.ph = "checked", !.cl = c, !.via = "web", !.rb = r]]
  /\ UNCHANGED <<balance, topped, robot, net, loop, timers, faults, again>>

WebClientGet(o) ==
  /\ ord[o].ph = "checked"
  /\ \/ /\ HasFunds(ord[o].cl)
        /\ ord' = [ord EXCEPT ![o] = [@ EXCEPT !.ph = "read", !.max = Available(ord[o].cl)]]
        /\ UNCHANGED faults
     \/ ~HasFunds(ord[o].cl) /\ Phase(o, "over") /\ UNCHANGED faults
     \/ Phase(o, "over") /\ Fault("db")
  /\ UNCHANGED <<balance, topped, robot, net, loop, timers, again>>

WebSend(o) ==
  /\ ord[o].ph = "read" /\ ord[o].via = "web"
  /\ Phase(o, "sent")
  /\ UNCHANGED <<balance, topped, robot, net, loop, timers, faults, again>>

-----------------------------------------------------------------------------
(* A robot takes an order when it is idle, has the drink and the price is  *)
(* within the amount.                                                      *)

Publish(o, st) == net' = [p \in Procs |-> net[p] \cup {[o |-> o, st |-> st, copy |-> 0]}]

RobotStarts(o) ==
  /\ ord[o].ph = "sent" /\ robot[ord[o].rb] = None
  /\ \E price \in Prices :
       /\ price <= ord[o].max
       /\ ord' = [ord EXCEPT ![o] = [@ EXCEPT !.ph = "making", !.amt = price]]
  /\ robot' = [robot EXCEPT ![ord[o].rb] = o]
  /\ Publish(o, "executionStart")
  /\ UNCHANGED <<balance, topped, loop, timers, faults, again>>

RobotRefuses(o) ==
  /\ ord[o].ph = "sent"
  /\ Phase(o, "over")
  /\ Publish(o, "refused")
  /\ UNCHANGED <<balance, topped, robot, loop, timers, faults, again>>

RobotEnds(o, ph, st) ==
  /\ ord[o].ph = "making"
  /\ Phase(o, ph)
  /\ robot' = [robot EXCEPT ![ord[o].rb] = None]
  /\ Publish(o, st)
  /\ UNCHANGED <<balance, topped, loop, timers, faults, again>>

RobotCompletes(o) == RobotEnds(o, "made", "complete")
RobotFails(o) == RobotEnds(o, "over", "orderError")

-----------------------------------------------------------------------------
(* The messages of a robot come in any order (SetOrderMatters(false)).     *)

\* of messages alike, one is as good as the other: the first one comes, the
\* last one is lost or repeated
First(p, m) == \A n \in net[p] : n.o = m.o /\ n.st = m.st => m.copy <= n.copy
Last(p, m) == \A n \in net[p] : n.o = m.o /\ n.st = m.st => n.copy <= m.copy

\* mutant: the web application looks at the owner, not at the sign of its type
Mine_ByOwner(p, o) == ord[o].via = p \/ p = "web"

Mine(p, o) == ord[o].via = p

\* mutant: an order that went wrong is charged too
Billable_Errors(m) == m.st \in {"complete", "orderError"}

Billable(m) == m.st = "complete"

\* the bot starts a timer for the bonus, the web application gives it next
Reward(p, m) ==
  \/ /\ p = "tg" /\ timers' = (IF Discount # 0 THEN timers \cup {m} ELSE timers)
     /\ UNCHANGED loop
  \/ /\ p = "web" /\ loop' = [loop EXCEPT !["web"] = m.o]
     /\ UNCHANGED timers

\* of the times a message made the process subtract the price, those too many
Extra(m, times) == IF m.copy = 0 /\ times > 0 THEN times - 1 ELSE times

\* the discount is read after the charge: when that fails it counts as none
Charge(p, m) ==
  \/ \E n \in 0..2 :
       /\ Withdraw(ord[m.o].cl, ord[m.o].amt, n)
       /\ Reward(p, m) \/ (n # 1 /\ UNCHANGED <<loop, timers>>)
       /\ again' = [again EXCEPT ![m.o] = @ + Extra(m, n)]
  \/ /\ balance' = [balance EXCEPT ![ord[m.o].cl] = @ - ord[m.o].amt]
     /\ again' = [again EXCEPT ![m.o] = @ + Extra(m, 1)]
     /\ UNCHANGED <<loop, timers>> /\ Fault("db")

\* nothing tells a process that it has had the message before
Receive(p, m) ==
  /\ m \in net[p] /\ First(p, m) /\ loop[p] = None
  /\ net' = [net EXCEPT ![p] = @ \ {m}]
  /\ IF Billable(m) /\ Mine(p, m.o)
     THEN Charge(p, m)
     ELSE UNCHANGED <<balance, loop, timers, faults, again>>
  /\ UNCHANGED <<topped, ord, robot>>

\* applyCashback
WebCashback ==
  /\ loop["web"] # None
  /\ LET o == loop["web"]
     IN \/ \E n \in 0..2 : Withdraw(ord[o].cl, -Bonus(ord[o].amt), n)
        \/ UNCHANGED balance /\ Fault("db")
  /\ loop' = [loop EXCEPT !["web"] = None]
  /\ UNCHANGED <<topped, ord, robot, net, timers, again>>

TgBonus(m) ==
  /\ m \in timers
  /\ \E n \in 0..2 : Withdraw(ord[m.o].cl, -Bonus(ord[m.o].amt), n)
  /\ timers' = timers \ {m}
  /\ UNCHANGED <<topped, ord, robot, net, loop, again>>

-----------------------------------------------------------------------------
\* addCredit, AdminReplayAutoAction: what fails is not added
TopUp(c, a) ==
  /\ topped.n < MaxTopUps
  /\ \E n \in 0..2 :
       /\ Withdraw(c, -a, n)
       /\ topped' = [n |-> topped.n + 1,
                     by |-> IF n = 0 THEN topped.by ELSE [topped.by EXCEPT ![c] = @ + a]]
  /\ UNCHANGED <<ord, robot, net, loop, timers, again>>

\* the subscription has QoS 0
Lose(p, m) ==
  /\ m \in net[p] /\ Last(p, m)
  /\ net' = [net EXCEPT ![p] = @ \ {m}]
  /\ Fault("lost")
  /\ UNCHANGED <<balance, topped, ord, robot, loop, timers, again>>

\* the robot or the broker sends a message once more
Repeat(p, m) ==
  /\ m \in net[p] /\ Last(p, m)
  /\ net' = [net EXCEPT ![p] = @ \cup {[m EXCEPT !.copy = @ + 1]}]
  /\ Fault("dup")
  /\ UNCHANGED <<balance, topped, ord, robot, loop, timers, again>>

\* requests, timers and messages in the process are gone
Crash(p) ==
  /\ Fault("crash")
  /\ ord' = [o \in Orders |-> IF ord[o].via = p /\ ord[o].ph \in {"checked", "read"}
                                THEN [ord[o] EXCEPT !.ph = "over"] ELSE ord[o]]
  /\ loop' = [loop EXCEPT ![p] = None]
  /\ timers' = IF p = "tg" THEN {} ELSE timers
  /\ net' = [net EXCEPT ![p] = {}]
  /\ UNCHANGED <<balance, topped, robot, again>>

-----------------------------------------------------------------------------
Init ==
  /\ balance = [c \in Clients |-> Opening]
  /\ topped = [n |-> 0, by |-> [c \in Clients |-> 0]]
  /\ \E c \in Clients, r \in Robots :
       ord = [o \in Orders |-> [ph |-> "new", cl |-> c, via |-> "tg", rb |-> r,
                                max |-> 0, amt |-> 0]]
  /\ robot = [r \in Robots |-> None]
  /\ net = [p \in Procs |-> {}]
  /\ loop = [p \in Procs |-> None]
  /\ timers = {}
  /\ faults = 0
  /\ again = [o \in Orders |-> 0]

Next ==
  \/ \E o \in Orders :
       \/ \E c \in Clients, r \in Robots : TgClientGet(o, c, r) \/ WebCheckRobot(o, c, r)
       \/ TgSendCookCmd(o) \/ WebClientGet(o) \/ WebSend(o)
       \/ RobotStarts(o) \/ RobotRefuses(o) \/ RobotCompletes(o) \/ RobotFails(o)
  \/ \E p \in Procs : Crash(p) \/ \E m \in net[p] : Receive(p, m) \/ Lose(p, m) \/ Repeat(p, m)
  \/ WebCashback
  \/ \E m \in timers : TgBonus(m)
  \/ \E c \in Clients, a \in TopUps : TopUp(c, a)

Spec == Init /\ [][Next]_vars

-----------------------------------------------------------------------------
(* Every variable keeps its type.                                          *)
TypeOK ==
  /\ balance \in [Clients -> Int]
  /\ topped \in [n : Nat, by : [Clients -> Nat]]
  /\ ord \in [Orders -> Order]
  /\ robot \in [Robots -> Orders \cup {None}]
  /\ net \in [Procs -> SUBSET Message]
  /\ loop \in [Procs -> Orders \cup {None}]
  /\ timers \subseteq Message
  /\ faults \in Nat
  /\ again \in [Orders -> Nat]

Made(c) == {o \in Orders : ord[o].ph = "made" /\ ord[o].cl = c}

(* Two processes see every message of a robot, but a drink is charged by   *)
(* one of them and once, and what was not made costs nothing: a balance is *)
(* never lower than the prices of the client's drinks explain, each once   *)
(* and once more whenever its complete message came again or its UPDATE    *)
(* was sent again; and there are no more of these than faults.             *)
NeverOvercharged ==
  /\ \A c \in Clients :
       balance[c] >= Opening + topped.by[c]
                     - MapThenSumSet(LAMBDA o : ord[o].amt * (1 + again[o]), Made(c))
  /\ \A c \in Clients : MapThenSumSet(LAMBDA o : again[o], Made(c)) <= faults

\* nothing failed, and nothing is on its way that would change a balance
Quiet ==
  /\ faults = 0
  /\ \A o \in Orders : Settled(o)
  /\ loop["web"] = None /\ timers = {}

(* When everything went well and nothing is under way, every drink was     *)
(* charged exactly once and rewarded exactly once.                         *)
EveryDrinkIsPaid ==
  Quiet => \A c \in Clients :
    balance[c] = Opening + topped.by[c]
                   - MapThenSumSet(LAMBDA o : ord[o].amt - Bonus(ord[o].amt), Made(c))

\* no drink of the client was charged twice
OnceEach(c) == \A o \in Orders : ord[o].cl = c => again[o] = 0

(* A client who waits for one order before the next never owes more than   *)
(* the credit, whichever process serves the orders and whatever fails or   *)
(* is lost, unless a drink was charged twice because of a message or an    *)
(* UPDATE that came again: what an order may still take is never more than *)
(* what is available.                                                      *)
PatientMinus == \A c \in Patient : OnceEach(c) => balance[c] >= -Credit

(* The comment of Client.Balance, "possible minus <= credit", promises it  *)
(* of every client.                                                        *)
MinusWithinCredit == \A c \in Clients : balance[c] >= -Credit

=============================================================================
