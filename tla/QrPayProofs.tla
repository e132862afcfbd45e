---------------------------- MODULE QrPayProofs ----------------------------
(***************************************************************************)
(* Theorems about QrPay, for any number of orders, notification handlers   *)
(* and faults.                                                             *)
(***************************************************************************)
EXTENDS QrPay, TLAPS

-----------------------------------------------------------------------------
(* Typing                                                                  *)

\* a goroutine that works on an order knows which
BusyKnowsOrder == \A a \in Actors : pc[a] \notin {"idle", "stopped"} => cpy[a].ord \in Orders

TypeInv == TypeOK /\ BusyKnowsOrder

\* the bank returns money only if it has it
LEMMA CancelToReturned ==
  ASSUME NEW s \in BankStates \cup {Unknown}, NEW t \in CancelTo(s)
  PROVE  /\ t \in Returned /\ t \in BankStates
         /\ s = "Confirmed" => t \in {"QRRefunding", "Refunded"}
         /\ s \in Open \cup {"Confirmed"}
  BY DEF CancelTo, BankStates, Open, Returned, Failed

\* changing one goroutine keeps the types of the others
LEMMA GoWithType ==
  ASSUME TypeInv, NEW a \in Actors, NEW p \in PCs, NEW c \in Copy, GoWith(a, p, c),
         p \notin {"idle", "stopped"} => c.ord \in Orders
  PROVE  /\ pc' \in [Actors -> PCs] /\ cpy' \in [Actors -> Copy]
         /\ BusyKnowsOrder'
  BY DEF TypeInv, TypeOK, GoWith, BusyKnowsOrder

LEMMA BlankType == Blank \in Copy
  BY DEF Blank, Copy, OrderStates, BankStates, Open, Failed, Returned, Unknown

LEMMA ReturnType ==
  ASSUME TypeInv, NEW a \in Actors, Return(a)
  PROVE  /\ pc' \in [Actors -> PCs] /\ cpy' \in [Actors -> Copy]
         /\ BusyKnowsOrder'
  BY GoWithType, BlankType DEF Return, PCs

LEMMA GoToType ==
  ASSUME TypeInv, NEW a \in Actors, NEW p \in PCs, GoTo(a, p),
         pc[a] \notin {"idle", "stopped"}
  PROVE  /\ pc' \in [Actors -> PCs] /\ cpy' \in [Actors -> Copy]
         /\ BusyKnowsOrder'
  BY GoWithType DEF GoTo, TypeInv, TypeOK, BusyKnowsOrder

LEMMA FaultType ==
  ASSUME TypeInv, NEW k, Fault(k)
  PROVE  faults' \in Faults
  BY DEF Fault, Faults, TypeInv, TypeOK

\* a SELECT gives a copy of the right type, and keeps the order
LEMMA ReadType ==
  ASSUME TypeInv, NEW a \in Actors, pc[a] \notin {"idle", "stopped"},
         NEW c \in {Fresh(a), cpy[a]}, DbGetOrderStatus(a, c)
  PROVE  c \in Copy /\ c.ord = cpy[a].ord /\ c.ord \in Orders /\ faults' \in Faults
<1>1. cpy[a] \in Copy /\ cpy[a].ord \in Orders /\ row[cpy[a].ord] \in Row
  BY DEF TypeInv, TypeOK, BusyKnowsOrder
<1>2. Fresh(a) \in Copy /\ Fresh(a).ord = cpy[a].ord
  BY <1>1 DEF Fresh, Copy, Row
<1>3. faults' \in Faults
  BY FaultType DEF DbGetOrderStatus, TypeInv, TypeOK
<1> QED
  BY <1>1, <1>2, <1>3

LEMMA UpdateType ==
  ASSUME TypeInv, NEW o \in Orders, NEW r \in Row, DbUpdate(o, r)
  PROVE  row' \in [Orders -> Row] /\ faults' \in Faults
  BY FaultType DEF TypeInv, TypeOK, DbUpdate

LEMMA RecordedType ==
  ASSUME NEW r \in Row, NEW c \in Copy
  PROVE  Recorded(r, c) \in Row
<1>1. c.st \in BankStates \cup {Unknown} /\ c.amt \in Int /\ r.credited \in Int
  BY QrAssumption DEF Row, Copy
<1>2. [r EXCEPT !.bs = c.st] \in Row
  BY <1>1 DEF Row
<1>3. [r EXCEPT !.bs = c.st, !.credited = c.amt] \in Row
  BY <1>1 DEF Row
<1>4. r.credited - c.amt \in Int
  BY <1>1
<1>5. [r EXCEPT !.bs = c.st, !.credited = @ - c.amt] \in Row
  BY <1>1, <1>4 DEF Row
<1> QED
  BY <1>2, <1>3, <1>5 DEF Recorded

LEMMA BankMovesType ==
  ASSUME TypeInv, NEW o \in Orders, NEW s \in BankStates, BankMoves(o, s)
  PROVE  /\ bank' \in [Orders -> BankStates \cup {Unknown}]
         /\ notifs' \subseteq Orders \X BankStates
         /\ bank'[o] = s
  BY QrAssumption DEF TypeInv, TypeOK, BankMoves

LEMMA BankCancelsType ==
  ASSUME TypeInv, NEW o \in Orders, BankCancels(o)
  PROVE  /\ bank' \in [Orders -> BankStates \cup {Unknown}]
         /\ notifs' \subseteq Orders \X BankStates
         /\ bank'[o] \in Returned
  BY BankMovesType, CancelToReturned DEF BankCancels, TypeInv, TypeOK

LEMMA TypeInit == Init => TypeInv
<1> SUFFICES ASSUME Init PROVE TypeInv
  OBVIOUS
<1>1. [os |-> "none", bs |-> Unknown, credited |-> 0] \in Row
  BY DEF Row, OrderStates
<1>2. BusyKnowsOrder
  BY DEF Init, BusyKnowsOrder
<1> QED
  BY <1>1, <1>2, BlankType DEF Init, TypeInv, TypeOK, PCs, RobotStates, Faults

\* the functions that the goroutines share
LEMMA SharedType == ASSUME TypeInv, NEW a \in Actors, SharedNext(a) PROVE TypeInv'
<1> USE DEF outside
<1> DEFINE o == cpy[a].ord
           GoOn == pc' \in [Actors -> PCs] /\ cpy' \in [Actors -> Copy] /\ BusyKnowsOrder'
<1>0. /\ pc[a] \notin {"idle", "stopped"}
      /\ o \in Orders /\ cpy[a] \in Copy /\ row[o] \in Row
  <2>1. pc[a] \notin {"idle", "stopped"}
    BY DEF SharedNext, DbUpdateOrderStatus, MakeRead, MakeWrite, MakeSend, ImpossibleRead,
           ImpossibleWrite, CancelRead, CancelWrite, CancelAsk
  <2> QED
    BY <2>1 DEF TypeInv, TypeOK, BusyKnowsOrder
<1>1. CASE DbUpdateOrderStatus(a)
  <2>1. row' \in [Orders -> Row] /\ faults' \in Faults
    BY <1>0, <1>1, RecordedType, UpdateType DEF DbUpdateOrderStatus, TypeInv, TypeOK
  <2>2. GoOn
    BY <1>0, <1>1, GoToType, ReturnType DEF DbUpdateOrderStatus, AfterUpdate, PCs
  <2> QED
    BY <1>1, <2>1, <2>2 DEF DbUpdateOrderStatus, TypeInv, TypeOK
<1>2. ASSUME NEW p \in PCs, NEW c \in {Fresh(a), cpy[a]}, DbGetOrderStatus(a, c),
             Return(a) \/ GoWith(a, p, c),
             UNCHANGED <<row, retry, stopping, outside, sent>>
      PROVE  TypeInv'
  <2>1. c \in Copy /\ c.ord \in Orders /\ faults' \in Faults
    BY <1>0, <1>2, ReadType
  <2>2. GoOn
    BY <1>2, <2>1, ReturnType, GoWithType
  <2> QED
    BY <1>2, <2>1, <2>2 DEF TypeInv, TypeOK
<1>3. CASE MakeRead(a) \/ ImpossibleRead(a) \/ CancelRead(a)
  <2>1. PICK c \in {Fresh(a), cpy[a]}, p \in PCs :
          /\ DbGetOrderStatus(a, c)
          /\ Return(a) \/ GoWith(a, p, c)
    BY <1>3 DEF MakeRead, ImpossibleRead, CancelRead, PCs
  <2> QED
    BY <1>2, <1>3, <2>1 DEF MakeRead, ImpossibleRead, CancelRead
<1>4. CASE MakeWrite(a) \/ ImpossibleWrite(a) \/ CancelWrite(a)
  <2>1. PICK os \in OrderStates : DbUpdate(o, [row[o] EXCEPT !.os = os])
    BY <1>4 DEF MakeWrite, ImpossibleWrite, CancelWrite, OrderStates
  <2>2. [row[o] EXCEPT !.os = os] \in Row
    BY <1>0 DEF Row
  <2>3. row' \in [Orders -> Row] /\ faults' \in Faults
    BY <1>0, <2>1, <2>2, UpdateType
  <2>4. GoOn
    BY <1>0, <1>4, GoToType, ReturnType DEF MakeWrite, ImpossibleWrite, CancelWrite, PCs
  <2> QED
    BY <1>4, <2>3, <2>4 DEF MakeWrite, ImpossibleWrite, CancelWrite, TypeInv, TypeOK
<1>5. CASE MakeSend(a)
  <2>1. GoOn
    BY <1>5, ReturnType DEF MakeSend
  <2>2. sent' \in [Orders -> Nat]
    <3>1. sent \in [Orders -> Nat] /\ sent[o] + 1 \in Nat
      BY <1>0 DEF TypeInv, TypeOK
    <3> QED
      BY <1>5, <3>1 DEF MakeSend
  <2> QED
    BY <1>5, <2>1, <2>2 DEF MakeSend, TypeInv, TypeOK
<1>6. CASE CancelAsk(a)
  <2>1. CASE CancelAnswered(a)
    <3>1. /\ bank' \in [Orders -> BankStates \cup {Unknown}]
          /\ notifs' \subseteq Orders \X BankStates
          /\ bank'[o] \in BankStates
      BY <1>0, <2>1, BankCancelsType DEF CancelAnswered, BankStates
    <3> DEFINE c == [cpy[a] EXCEPT !.amt = 0, !.st = bank'[o]]
    <3>2. c \in Copy /\ c.ord \in Orders
      BY <1>0, <3>1 DEF Copy
    <3>3. GoWith(a, "apply", c)
      BY <2>1 DEF CancelAnswered
    <3> HIDE DEF c
    <3>4. GoOn
      BY <3>2, <3>3, GoWithType DEF PCs
    <3> QED
      BY <1>6, <2>1, <3>1, <3>4 DEF CancelAsk, CancelAnswered, TypeInv, TypeOK
  <2>2. CASE CancelFailed(a)
    <3>1. /\ bank' \in [Orders -> BankStates \cup {Unknown}]
          /\ notifs' \subseteq Orders \X BankStates
          /\ faults' \in Faults
      BY <1>0, <2>2, BankCancelsType, FaultType DEF CancelFailed, BankRefuses, TypeInv, TypeOK
    <3>2. GoOn
      BY <2>2, ReturnType DEF CancelFailed
    <3>3. retry' \subseteq Actors \X Orders
      BY <1>0, <2>2 DEF CancelFailed, TypeInv, TypeOK
    <3> QED
      BY <1>6, <3>1, <3>2, <3>3 DEF CancelAsk, TypeInv, TypeOK
  <2>3. CASE CancelMismatched(a)
    <3>1. /\ bank' \in [Orders -> BankStates \cup {Unknown}]
          /\ notifs' \subseteq Orders \X BankStates
          /\ faults' \in Faults
      BY <1>0, <2>3, BankCancelsType, FaultType DEF CancelMismatched
    <3>2. GoOn
      BY <2>3, ReturnType DEF CancelMismatched
    <3> QED
      BY <1>6, <2>3, <3>1, <3>2 DEF CancelAsk, CancelMismatched, TypeInv, TypeOK
  <2> QED
    BY <1>6, <2>1, <2>2, <2>3 DEF CancelAsk
<1> QED
  BY <1>1, <1>3, <1>4, <1>5, <1>6 DEF SharedNext

LEMMA TypeNext == TypeInv /\ [Next]_vars => TypeInv'
<1> SUFFICES ASSUME TypeInv, [Next]_vars PROVE TypeInv'
  OBVIOUS
<1> USE DEF outside
<1>a. ASSUME NEW o \in Orders, BankNext(o) PROVE TypeInv'
  <2>1. PICK s \in BankStates : BankMoves(o, s)
    BY <1>a DEF BankNext, BankFormShowed, BankAuthorizes, BankConfirms, BankRejects,
                BankExpires, BankRefundDone, BankStep, BankStates, Open, Failed, Returned
  <2>2. UNCHANGED <<row, pc, cpy, retry, stopping, robot, rmsgs, sent, faults>>
    BY <1>a DEF BankNext, BankFormShowed, BankAuthorizes, BankConfirms, BankRejects,
                BankExpires, BankRefundDone, BankStep
  <2> QED
    BY <2>1, <2>2, BankMovesType DEF TypeInv, TypeOK, BusyKnowsOrder
<1>b. ASSUME NEW o \in Orders, RobotNext(o) PROVE TypeInv'
  <2>1. robot' \in [Orders -> RobotStates] /\ rmsgs' \subseteq Orders \X RobotWords
    BY <1>b DEF RobotNext, RobotStarts, RobotCompletes, RobotFails, RobotCancels, RobotStep,
                RobotStates, RobotWords, TypeInv, TypeOK
  <2>2. UNCHANGED <<row, pc, cpy, retry, stopping, bank, notifs, sent, faults>>
    BY <1>b DEF RobotNext, RobotStarts, RobotCompletes, RobotFails, RobotCancels, RobotStep
  <2> QED
    BY <2>1, <2>2 DEF TypeInv, TypeOK, BusyKnowsOrder
<1>c. ASSUME NEW o \in Orders, CreateNext(o) PROVE TypeInv'
  <2> o \in Actors
    BY DEF Actors
  <2>1. CASE CreateQR(o)
    <3> DEFINE c == [ord |-> o, os |-> "start", bs |-> Unknown, amt |-> Price, st |-> Unknown]
    <3>1. c \in Copy
      BY DEF Copy, OrderStates
    <3>2. GoWith(o, "init", c) /\ "init" \in PCs /\ c.ord = o
      BY <2>1 DEF CreateQR, PCs
    <3> HIDE DEF c
    <3>3. pc' \in [Actors -> PCs] /\ cpy' \in [Actors -> Copy] /\ BusyKnowsOrder'
      BY <3>1, <3>2, GoWithType
    <3> QED
      BY <2>1, <3>3 DEF CreateQR, TypeInv, TypeOK
  <2>2. CASE InitPaySession(o)
    <3>1. bank' \in [Orders -> BankStates \cup {Unknown}] /\ faults' \in Faults
      BY <2>2, FaultType DEF InitPaySession, TypeInv, TypeOK, BankStates, Open
    <3>2. pc' \in [Actors -> PCs] /\ cpy' \in [Actors -> Copy] /\ BusyKnowsOrder'
      BY <2>2, GoToType, ReturnType DEF InitPaySession, PCs
    <3> QED
      BY <2>2, <3>1, <3>2 DEF InitPaySession, TypeInv, TypeOK
  <2>3. CASE DbCreateOrder(o)
    <3>1. [os |-> "start", bs |-> "New", credited |-> 0] \in Row
      BY DEF Row, OrderStates, BankStates, Open
    <3>2. row' \in [Orders -> Row] /\ faults' \in Faults
      BY <2>3, <3>1, FaultType DEF DbCreateOrder, TypeInv, TypeOK
    <3>3. pc' \in [Actors -> PCs] /\ cpy' \in [Actors -> Copy] /\ BusyKnowsOrder'
      BY <2>3, GoToType, ReturnType DEF DbCreateOrder, PCs
    <3> QED
      BY <2>3, <3>2, <3>3 DEF DbCreateOrder, TypeInv, TypeOK
  <2>4. CASE GetQrCode(o)
    <3>1. robot' \in [Orders -> RobotStates] /\ faults' \in Faults
      BY <2>4, FaultType DEF GetQrCode, TypeInv, TypeOK, RobotStates
    <3>2. pc' \in [Actors -> PCs] /\ cpy' \in [Actors -> Copy] /\ BusyKnowsOrder'
      BY <2>4, GoToType, ReturnType DEF GetQrCode, PCs
    <3> QED
      BY <2>4, <3>1, <3>2 DEF GetQrCode, TypeInv, TypeOK
  <2> QED
    BY <1>c, <2>1, <2>2, <2>3, <2>4 DEF CreateNext
<1>d. ASSUME NEW o \in Orders, PollNext(o) PROVE TypeInv'
  <2> o \in Actors
    BY DEF Actors
  <2>1. CASE PollGetState(o)
    <3>1. faults' \in Faults
      BY <2>1, FaultType DEF PollGetState, TypeInv, TypeOK
    <3> DEFINE c == [cpy[o] EXCEPT !.st = bank[o]]
    <3>2. pc[o] = "select" /\ cpy[o] \in Copy /\ cpy[o].ord \in Orders
          /\ bank[o] \in BankStates \cup {Unknown}
      BY <2>1 DEF PollGetState, TypeInv, TypeOK, BusyKnowsOrder
    <3>3. c \in Copy /\ c.ord \in Orders
      BY <3>2 DEF Copy
    <3>4. GoWith(o, "read", c) \/ GoTo(o, "select")
      BY <2>1 DEF PollGetState
    <3> HIDE DEF c
    <3>5. pc' \in [Actors -> PCs] /\ cpy' \in [Actors -> Copy] /\ BusyKnowsOrder'
      BY <3>2, <3>3, <3>4, GoToType, GoWithType DEF PCs
    <3> QED
      BY <2>1, <3>1, <3>5 DEF PollGetState, TypeInv, TypeOK
  <2>2. CASE PollReadRow(o)
    <3>1. pc[o] = "read"
      BY <2>2 DEF PollReadRow
    <3>2. PICK c \in {Fresh(o), cpy[o]} : DbGetOrderStatus(o, c) /\ GoWith(o, "apply", c)
      BY <2>2 DEF PollReadRow
    <3>3. c \in Copy /\ c.ord \in Orders /\ faults' \in Faults
      BY <3>1, <3>2, ReadType
    <3>4. pc' \in [Actors -> PCs] /\ cpy' \in [Actors -> Copy] /\ BusyKnowsOrder'
      BY <3>2, <3>3, GoWithType DEF PCs
    <3> QED
      BY <2>2, <3>3, <3>4 DEF PollReadRow, TypeInv, TypeOK
  <2>3. CASE PollTimeout(o)
    <3>1. pc' \in [Actors -> PCs] /\ cpy' \in [Actors -> Copy] /\ BusyKnowsOrder'
      BY <2>3, GoToType DEF PollTimeout, PCs
    <3> QED
      BY <2>3, <3>1 DEF PollTimeout, TypeInv, TypeOK
  <2>4. CASE PollStop(o)
    <3>1. pc' \in [Actors -> PCs] /\ cpy' \in [Actors -> Copy] /\ BusyKnowsOrder'
      BY <2>4, ReturnType DEF PollStop
    <3> QED
      BY <2>4, <3>1 DEF PollStop, TypeInv, TypeOK
  <2> QED
    BY <1>d, <2>1, <2>2, <2>3, <2>4 DEF PollNext
<1>e. ASSUME NEW o \in Orders, ReadNext(o) PROVE TypeInv'
  <2> Reader \in Actors
    BY DEF Actors
  <2>0. ASSUME NEW w, ReadMqtt(o, w) PROVE rmsgs' \subseteq Orders \X RobotWords
    BY <2>0 DEF ReadMqtt, TypeInv, TypeOK
  <2>1. CASE ReadExecutionStart(o) \/ ReadComplete(o)
    <3>1. PICK os \in OrderStates : DbUpdate(o, [row[o] EXCEPT !.os = os])
      BY <2>1 DEF ReadExecutionStart, ReadComplete, OrderStates
    <3>2. [row[o] EXCEPT !.os = os] \in Row
      BY DEF TypeInv, TypeOK, Row
    <3>3. row' \in [Orders -> Row] /\ faults' \in Faults
      BY <3>1, <3>2, UpdateType
    <3> QED
      BY <2>0, <2>1, <3>3 DEF ReadExecutionStart, ReadComplete, ReadMqtt, TypeInv, TypeOK,
                               BusyKnowsOrder
  <2>2. CASE ReadCancel(o)
    <3>1. Loaded(o, Unknown) \in Copy /\ Loaded(o, Unknown).ord \in Orders
      BY DEF Loaded, Copy, TypeInv, TypeOK, Row
    <3>2. pc' \in [Actors -> PCs] /\ cpy' \in [Actors -> Copy] /\ BusyKnowsOrder'
      BY <2>2, <3>1, GoWithType DEF ReadCancel, PCs
    <3> QED
      BY <2>0, <2>2, <3>2 DEF ReadCancel, ReadMqtt, TypeInv, TypeOK
  <2>3. CASE ReadFails(o)
    <3>1. pc' \in [Actors -> PCs] /\ cpy' \in [Actors -> Copy] /\ BusyKnowsOrder'
      BY <2>3, BlankType, GoWithType DEF ReadFails, PCs
    <3> QED
      BY <2>0, <2>3, <3>1, FaultType DEF ReadFails, ReadMqtt, TypeInv, TypeOK
  <2> QED
    BY <1>e, <2>1, <2>2, <2>3 DEF ReadNext
<1>f. ASSUME NEW a \in Actors, SharedNext(a) PROVE TypeInv'
  BY <1>f, SharedType
<1>g. ASSUME NEW a \in Actors, NEW o \in Orders, CancelRetry(a, o) PROVE TypeInv'
  <2>1. /\ bank' \in [Orders -> BankStates \cup {Unknown}]
        /\ notifs' \subseteq Orders \X BankStates
        /\ faults' \in Faults
    BY <1>g, BankCancelsType, FaultType DEF CancelRetry, BankRefuses, TypeInv, TypeOK
  <2> QED
    BY <1>g, <2>1 DEF CancelRetry, TypeInv, TypeOK, BusyKnowsOrder
<1>h. ASSUME NEW h \in Handlers, NEW o \in Orders, NEW s \in BankStates, Notify(h, o, s)
      PROVE  TypeInv'
  <2> h \in Actors
    BY DEF Actors
  <2>1. Loaded(o, s) \in Copy /\ Loaded(o, s).ord \in Orders
    BY DEF Loaded, Copy, TypeInv, TypeOK, Row
  <2>2. pc' \in [Actors -> PCs] /\ cpy' \in [Actors -> Copy] /\ BusyKnowsOrder'
    BY <1>h, <2>1, GoWithType DEF Notify, PCs, TypeInv, TypeOK, BusyKnowsOrder
  <2>3. notifs' \subseteq Orders \X BankStates /\ faults' \in Faults
    BY <1>h, FaultType DEF Notify, TypeInv, TypeOK
  <2> QED
    BY <1>h, <2>2, <2>3 DEF Notify, TypeInv, TypeOK
<1>i. CASE Shutdown
  BY <1>i, FaultType DEF Shutdown, TypeInv, TypeOK, BusyKnowsOrder
<1>j. CASE Restart
  <2>1. faults' \in Faults
    BY <1>j, FaultType DEF Restart, TypeInv, TypeOK
  <2>2. pc' \in [Actors -> PCs] /\ cpy' \in [Actors -> Copy] /\ BusyKnowsOrder'
    BY <1>j, BlankType DEF Restart, PCs, BusyKnowsOrder
  <2> QED
    BY <1>j, <2>1, <2>2 DEF Restart, TypeInv, TypeOK
<1>k. CASE UNCHANGED vars
  BY <1>k DEF vars, TypeInv, TypeOK, BusyKnowsOrder
<1> QED
  BY <1>a, <1>b, <1>c, <1>d, <1>e, <1>f, <1>g, <1>h, <1>i, <1>j, <1>k DEF Next

(* Typing: every variable keeps its type.                                  *)
THEOREM Typing == Spec => []TypeOK
<1>1. Spec => []TypeInv
  BY TypeInit, TypeNext, PTL DEF Spec
<1>2. TypeInv => TypeOK
  BY DEF TypeInv
<1> QED
  BY <1>1, <1>2, PTL


-----------------------------------------------------------------------------
(* Money: what goroutines and notifications say of a confirmed payment is  *)
(* true, because the bank never forgets that it took the money.            *)

OwnOrder == \A o \in Orders : pc[o] # "idle" => cpy[o].ord = o

NotOpened == \A o \in Orders : pc[o] = "init" => bank[o] = Unknown

CopiesTold == \A a \in Actors :
                 cpy[a].st = "Confirmed" => cpy[a].ord \in Orders /\ Paid(cpy[a].ord)

NotifsTold == \A o \in Orders : <<o, "Confirmed">> \in notifs => Paid(o)

MakeSteps == {"mkRead", "mkWrite", "mkSend"}

MakingTold == \A a \in Actors : pc[a] \in MakeSteps => cpy[a].st = "Confirmed"

MoneyInv == /\ TypeInv /\ OwnOrder /\ NotOpened /\ CopiesTold /\ NotifsTold /\ MakingTold
            /\ OnlyPaidOrdersAreMade /\ CreditedIsPaid

\* the statuses of the bank a step may change
BankChange == \/ UNCHANGED <<bank, notifs>>
              \/ \E o \in Orders, s \in BankStates :
                   /\ bank' = [bank EXCEPT ![o] = s]
                   /\ notifs' \subseteq notifs \cup {<<o, s>>}
                   /\ Paid(o) => s \in {"QRRefunding", "Refunded"}
                   /\ bank[o] # Unknown \/ pc'[o] # "init"
              \/ bank' = bank /\ notifs' \subseteq notifs

LEMMA CancelsChange ==
  ASSUME TypeInv, NEW o \in Orders, BankCancels(o)
  PROVE  BankChange
<1>1. PICK s \in CancelTo(bank[o]) : BankMoves(o, s)
  BY DEF BankCancels
<1>2. /\ bank[o] \in BankStates \cup {Unknown}
      /\ s \in BankStates /\ bank[o] \in Open \cup {"Confirmed"}
      /\ bank[o] = "Confirmed" => s \in {"QRRefunding", "Refunded"}
  BY CancelToReturned DEF TypeInv, TypeOK
<1>3. bank' = [bank EXCEPT ![o] = s] /\ notifs' \subseteq notifs \cup {<<o, s>>}
  BY <1>1 DEF BankMoves
<1>4. bank[o] # Unknown
  BY <1>2 DEF Unknown, Open
<1>5. Paid(o) => s \in {"QRRefunding", "Refunded"}
  BY <1>2 DEF Paid, Taken, Open
<1> QED
  BY <1>2, <1>3, <1>4, <1>5 DEF BankChange

LEMMA StepsChange ==
  ASSUME MoneyInv, [Next]_vars
  PROVE  BankChange
<1> USE DEF outside
<1> TypeInv /\ NotOpened
  BY DEF MoneyInv
<1>1. ASSUME NEW o \in Orders, BankNext(o) PROVE BankChange
  <2>1. PICK s \in BankStates : /\ BankMoves(o, s) /\ bank[o] # Unknown
                                /\ Paid(o) => s \in {"QRRefunding", "Refunded"}
    BY <1>1 DEF Unknown, BankNext, BankFormShowed, BankAuthorizes, BankConfirms, BankRejects, Paid, Taken,
                BankExpires, BankRefundDone, BankStep, BankStates, Open, Failed, Returned
  <2> QED
    BY <2>1 DEF BankChange, BankMoves
<1>2. ASSUME NEW o \in Orders, InitPaySession(o) PROVE BankChange
  <2>1. bank[o] = Unknown /\ ~Paid(o) /\ "New" \in BankStates
    BY <1>2 DEF InitPaySession, NotOpened, Unknown, Paid, Taken, BankStates, Open
  <2>2. pc'[o] # "init"
    BY <1>2 DEF InitPaySession, GoTo, Return, GoWith, TypeInv, TypeOK, Actors
  <2> QED
    BY <1>2, <2>1, <2>2 DEF InitPaySession, BankChange
<1>3. ASSUME NEW a \in Actors, CancelAsk(a) PROVE BankChange
  <2>1. cpy[a].ord \in Orders
    BY <1>3 DEF CancelAsk, TypeInv, BusyKnowsOrder
  <2>2. BankCancels(cpy[a].ord) \/ UNCHANGED <<bank, notifs>>
    BY <1>3 DEF CancelAsk, CancelAnswered, CancelFailed, CancelMismatched, BankRefuses
  <2> QED
    BY <2>1, <2>2, CancelsChange DEF BankChange
<1>4. ASSUME NEW a \in Actors, NEW o \in Orders, CancelRetry(a, o) PROVE BankChange
  BY <1>4, CancelsChange DEF CancelRetry, BankRefuses, BankChange
<1>5. ASSUME NEW a \in Actors, SharedNext(a), ~CancelAsk(a) PROVE BankChange
  BY <1>5 DEF SharedNext, DbUpdateOrderStatus, MakeRead, MakeWrite, MakeSend, ImpossibleRead,
              ImpossibleWrite, CancelRead, CancelWrite, BankChange
<1>6. ASSUME NEW o \in Orders,
             CreateQR(o) \/ DbCreateOrder(o) \/ GetQrCode(o) \/ PollNext(o) \/ ReadNext(o) \/ RobotNext(o)
      PROVE  BankChange
  BY <1>6 DEF CreateQR, DbCreateOrder, GetQrCode, PollNext, PollGetState, PollReadRow, PollTimeout,
              PollStop, ReadNext, ReadExecutionStart, ReadComplete, ReadCancel, ReadFails, ReadMqtt,
              RobotNext, RobotStarts, RobotCompletes, RobotFails, RobotCancels, RobotStep, BankChange
<1>7. ASSUME NEW h \in Handlers, NEW o \in Orders, NEW s \in BankStates, Notify(h, o, s)
      PROVE  BankChange
  BY <1>7 DEF Notify, BankChange
<1>8. CASE Shutdown \/ Restart \/ UNCHANGED vars
  BY <1>8 DEF Shutdown, Restart, vars, BankChange
<1> QED
  BY <1>1, <1>2, <1>3, <1>4, <1>5, <1>6, <1>7, <1>8 DEF Next, CreateNext

\* the bank does not forget that it took the money, and notifies the truth
LEMMA PaidStays ==
  ASSUME MoneyInv, [Next]_vars
  PROVE  /\ \A o \in Orders : Paid(o) => Paid(o)'
         /\ NotifsTold'
<1> TypeInv /\ NotifsTold /\ BankChange
  BY StepsChange DEF MoneyInv
<1>1. \A o \in Orders : Paid(o) => Paid(o)'
  BY DEF BankChange, Paid, Taken, TypeInv, TypeOK
<1>2. NotifsTold'
  BY <1>1 DEF BankChange, NotifsTold, Paid, Taken, TypeInv, TypeOK
<1> QED
  BY <1>1, <1>2


\* what a step does to a goroutine
CopyStep(a) ==
  \/ pc'[a] = pc[a] /\ cpy'[a] = cpy[a]
  \/ \* it ends
     /\ pc'[a] \in {"idle", "stopped"} /\ cpy'[a] = Blank
     /\ a \in Orders => pc'[a] = "idle"
  \/ \* it starts
     /\ pc'[a] \notin MakeSteps /\ cpy'[a].st = Unknown
     /\ a \in Orders => cpy'[a].ord = a /\ bank'[a] = Unknown
  \/ \* it goes on
     /\ cpy'[a].ord = cpy[a].ord /\ cpy'[a].st = cpy[a].st
     /\ pc[a] \notin {"idle", "stopped"} /\ pc'[a] # "init"
     /\ pc'[a] \in MakeSteps => cpy[a].st = "Confirmed"
  \/ \* it learns a status of the bank
     /\ pc'[a] \notin MakeSteps \cup {"init"}
     /\ cpy'[a].st = "Confirmed" => cpy'[a].ord \in Orders /\ bank'[cpy'[a].ord] \in Taken
     /\ a \in Orders => cpy'[a].ord = a

LEMMA GoWithStep ==
  ASSUME TypeInv, NEW b \in Actors, NEW p, NEW c, GoWith(b, p, c), NEW a \in Actors
  PROVE  IF a = b THEN pc'[a] = p /\ cpy'[a] = c ELSE pc'[a] = pc[a] /\ cpy'[a] = cpy[a]
  BY DEF GoWith, TypeInv, TypeOK

LEMMA ReturnStep ==
  ASSUME TypeInv, NEW b \in Actors, Return(b), NEW a \in Actors
  PROVE  CopyStep(a)
  BY GoWithStep DEF Return, CopyStep

LEMMA GoToStep ==
  ASSUME TypeInv, NEW b \in Actors, NEW p, GoTo(b, p), NEW a \in Actors,
         pc[b] \notin {"idle", "stopped"}, p # "init",
         p \in MakeSteps => cpy[b].st = "Confirmed"
  PROVE  CopyStep(a)
  BY GoWithStep DEF GoTo, CopyStep

LEMMA ReadStep ==
  ASSUME TypeInv, NEW b \in Actors, NEW p, NEW c \in {Fresh(b), cpy[b]}, GoWith(b, p, c),
         NEW a \in Actors, pc[b] \notin {"idle", "stopped"}, p # "init",
         p \in MakeSteps => cpy[b].st = "Confirmed"
  PROVE  CopyStep(a)
<1>1. cpy[b] \in Copy
  BY DEF TypeInv, TypeOK
<1>2. c.ord = cpy[b].ord /\ c.st = cpy[b].st
  BY <1>1 DEF Fresh, Copy
<1> QED
  BY <1>2, GoWithStep DEF CopyStep

LEMMA CopySteps ==
  ASSUME MoneyInv, [Next]_vars, NEW a \in Actors
  PROVE  CopyStep(a)
<1> TypeInv /\ OwnOrder /\ CopiesTold /\ MakingTold /\ NotifsTold
  BY DEF MoneyInv
<1> USE DEF outside
<1>1. CASE UNCHANGED <<pc, cpy>>
  BY <1>1 DEF CopyStep
<1>2. ASSUME NEW o \in Orders, CreateQR(o) PROVE CopyStep(a)
  BY <1>2, GoWithStep DEF CreateQR, CopyStep, MakeSteps, Actors, Unknown
<1>3. ASSUME NEW o \in Orders, InitPaySession(o) \/ DbCreateOrder(o) \/ GetQrCode(o)
      PROVE  CopyStep(a)
  <2>1. \/ Return(o)
        \/ \E p \in {"insert", "getQr", "select"} : GoTo(o, p) /\ pc[o] \notin {"idle", "stopped"}
    BY <1>3 DEF InitPaySession, DbCreateOrder, GetQrCode
  <2> QED
    BY <2>1, ReturnStep, GoToStep DEF MakeSteps, Actors
<1>4. ASSUME NEW o \in Orders, PollNext(o) PROVE CopyStep(a)
  <2> o \in Actors
    BY DEF Actors
  <2>1. CASE PollGetState(o)
    <3>1. CASE GoTo(o, "select")
      BY <2>1, <3>1, GoToStep DEF PollGetState, MakeSteps
    <3>2. CASE GoWith(o, "read", [cpy[o] EXCEPT !.st = bank[o]]) /\ bank' = bank
      <4> DEFINE c == [cpy[o] EXCEPT !.st = bank[o]]
      <4>1. c.ord = o /\ o \in Orders /\ c.st = bank[o]
        BY <2>1 DEF PollGetState, OwnOrder, TypeInv, TypeOK, Copy
      <4>2. c.st = "Confirmed" => bank'[c.ord] \in Taken
        BY <3>2, <4>1 DEF Taken
      <4>3. GoWith(o, "read", c)
        BY <3>2
      <4> HIDE DEF c
      <4> QED
        BY <4>1, <4>2, <4>3, GoWithStep DEF CopyStep, MakeSteps
    <3> QED
      BY <2>1, <3>1, <3>2 DEF PollGetState
  <2>2. CASE PollReadRow(o)
    BY <2>2, ReadStep DEF PollReadRow, MakeSteps
  <2>3. CASE PollTimeout(o) \/ PollStop(o)
    BY <2>3, GoToStep, ReturnStep DEF PollTimeout, PollStop, MakeSteps
  <2> QED
    BY <1>4, <2>1, <2>2, <2>3 DEF PollNext
<1>5. ASSUME NEW b \in Actors, SharedNext(b) PROVE CopyStep(a)
  <2>1. CASE DbUpdateOrderStatus(b)
    BY <2>1, GoToStep, ReturnStep DEF DbUpdateOrderStatus, AfterUpdate, MakeSteps
  <2>2. CASE MakeRead(b)
    <3>1. cpy[b].st = "Confirmed"
      BY <2>2 DEF MakeRead, MakingTold, MakeSteps
    <3>2. PICK c \in {Fresh(b), cpy[b]} : Return(b) \/ GoWith(b, "mkWrite", c)
      BY <2>2 DEF MakeRead
    <3>3. pc[b] \notin {"idle", "stopped"}
      BY <2>2 DEF MakeRead
    <3>4. CASE GoWith(b, "mkWrite", c)
      BY <3>1, <3>3, <3>4, ReadStep
    <3> QED
      BY <3>2, <3>4, ReturnStep
  <2>3. CASE ImpossibleRead(b) \/ CancelRead(b)
    <3>1. PICK c \in {Fresh(b), cpy[b]}, p \in {"imWrite", "cnWrite"} : Return(b) \/ GoWith(b, p, c)
      BY <2>3 DEF ImpossibleRead, CancelRead
    <3>2. pc[b] \notin {"idle", "stopped"}
      BY <2>3 DEF ImpossibleRead, CancelRead
    <3>3. p \notin MakeSteps \cup {"init"}
      BY DEF MakeSteps
    <3>4. CASE GoWith(b, p, c)
      BY <3>2, <3>3, <3>4, ReadStep
    <3> QED
      BY <3>1, <3>4, ReturnStep
  <2>4. CASE MakeWrite(b)
    <3>1. cpy[b].st = "Confirmed"
      BY <2>4 DEF MakeWrite, MakingTold, MakeSteps
    <3> QED
      BY <2>4, <3>1, GoToStep DEF MakeWrite
  <2>5. CASE MakeSend(b) \/ ImpossibleWrite(b) \/ CancelWrite(b)
    BY <2>5, GoToStep, ReturnStep DEF MakeSend, ImpossibleWrite, CancelWrite, MakeSteps
  <2>6. CASE CancelAsk(b)
    <3>1. CASE CancelAnswered(b)
      <4> DEFINE c == [cpy[b] EXCEPT !.amt = 0, !.st = bank'[cpy[b].ord]]
      <4>1. /\ c.ord = cpy[b].ord /\ c.ord \in Orders /\ c.st = bank'[c.ord]
            /\ b \in Orders => c.ord = b
        BY <2>6 DEF CancelAsk, OwnOrder, TypeInv, TypeOK, BusyKnowsOrder, Copy
      <4>2. c.st = "Confirmed" => bank'[c.ord] \in Taken
        BY <4>1 DEF Taken
      <4>3. GoWith(b, "apply", c)
        BY <3>1 DEF CancelAnswered
      <4> HIDE DEF c
      <4> QED
        BY <4>1, <4>2, <4>3, GoWithStep DEF CopyStep, MakeSteps
    <3> QED
      BY <2>6, <3>1, ReturnStep DEF CancelAsk, CancelFailed, CancelMismatched
  <2> QED
    BY <1>5, <2>1, <2>2, <2>3, <2>4, <2>5, <2>6 DEF SharedNext
<1>6. ASSUME NEW o \in Orders, ReadNext(o) PROVE CopyStep(a)
  <2>1. Reader \in Actors /\ Reader \notin Orders
    BY QrAssumption DEF Actors
  <2>2. Loaded(o, Unknown).st = Unknown
    BY DEF Loaded
  <2> QED
    BY <1>1, <1>6, <2>1, <2>2, GoWithStep DEF ReadNext, ReadExecutionStart, ReadComplete, ReadCancel,
       ReadFails, CopyStep, MakeSteps
<1>7. ASSUME NEW h \in Handlers, NEW o \in Orders, NEW s \in BankStates, Notify(h, o, s)
      PROVE  CopyStep(a)
  <2>1. h \in Actors /\ h \notin Orders
    BY QrAssumption DEF Actors
  <2>2. CASE GoWith(h, "apply", Loaded(o, s))
    <3>1. Loaded(o, s).st = "Confirmed" => bank'[Loaded(o, s).ord] \in Taken
      BY <1>7 DEF Loaded, Notify, NotifsTold, Paid, Taken
    <3>2. Loaded(o, s).ord \in Orders
      BY DEF Loaded
    <3> QED
      BY <2>1, <2>2, <3>1, <3>2, GoWithStep DEF CopyStep, MakeSteps
  <2> QED
    BY <1>1, <1>7, <2>2 DEF Notify
<1>8. CASE Restart
  BY <1>8 DEF Restart, CopyStep
<1> QED
  BY <1>1, <1>2, <1>3, <1>4, <1>5, <1>6, <1>7, <1>8
     DEF Next, CreateNext, BankNext, BankFormShowed, BankAuthorizes, BankConfirms, BankRejects,
         BankExpires, BankRefundDone, BankStep, RobotNext, RobotStarts, RobotCompletes, RobotFails,
         RobotCancels, RobotStep, CancelRetry, Shutdown, vars


LEMMA MoneyInit == Init => MoneyInv
<1> SUFFICES ASSUME Init PROVE MoneyInv
  OBVIOUS
<1>1. OwnOrder /\ NotOpened /\ CopiesTold /\ NotifsTold /\ MakingTold
  BY DEF Init, OwnOrder, NotOpened, CopiesTold, NotifsTold, MakingTold, MakeSteps, Blank, Unknown,
         Actors
<1>2. OnlyPaidOrdersAreMade /\ CreditedIsPaid
  BY DEF Init, OnlyPaidOrdersAreMade, CreditedIsPaid
<1> QED
  BY <1>1, <1>2, TypeInit DEF MoneyInv

\* the column credited grows only when a goroutine has heard of the money
LEMMA CreditedStep ==
  ASSUME MoneyInv, [Next]_vars, NEW o \in Orders, row'[o].credited > 0
  PROVE  Paid(o)
<1> TypeInv /\ CopiesTold /\ CreditedIsPaid
  BY DEF MoneyInv
<1> USE DEF outside
<1>0. row \in [Orders -> Row] /\ row[o].credited \in Int
  BY DEF TypeInv, TypeOK, Row
<1>1. CASE row'[o].credited <= row[o].credited
  <2>1. row'[o].credited \in Int
    BY TypeNext DEF TypeInv, TypeOK, Row
  <2> QED
    BY <1>0, <1>1, <2>1 DEF CreditedIsPaid
<1>2. ASSUME NEW u \in Orders, NEW os, row' = row \/ row' = [row EXCEPT ![u] = [row[u] EXCEPT !.os = os]]
      PROVE  row'[o].credited = row[o].credited
  BY <1>0, <1>2 DEF Row
<1>3. ASSUME NEW a \in Actors, DbUpdateOrderStatus(a) PROVE Paid(o)
  <2> DEFINE c == cpy[a]
  <2>1. c \in Copy /\ c.ord \in Orders
    BY <1>3 DEF DbUpdateOrderStatus, TypeInv, TypeOK, BusyKnowsOrder
  <2>2. CASE row' = row \/ o # c.ord
    BY <1>0, <1>1, <1>3, <2>1, <2>2 DEF DbUpdateOrderStatus, DbUpdate
  <2>3. CASE c.st = "Confirmed" /\ o = c.ord
    BY <2>3 DEF CopiesTold
  <2>4. CASE o = c.ord /\ c.st # "Confirmed" /\ row' = [row EXCEPT ![o] = Recorded(row[o], c)]
    <3>1. c.amt \in Nat
      BY <2>1, QrAssumption DEF Copy
    <3>2. Recorded(row[o], c).credited \in {row[o].credited, row[o].credited - c.amt}
      BY <1>0, <2>4 DEF Recorded, Row
    <3>3. row'[o].credited <= row[o].credited
      BY <1>0, <2>4, <3>1, <3>2
    <3> QED
      BY <1>1, <3>3
  <2> QED
    BY <1>3, <2>1, <2>2, <2>3, <2>4 DEF DbUpdateOrderStatus, DbUpdate
<1>4. ASSUME NEW a \in Actors, MakeWrite(a) \/ ImpossibleWrite(a) \/ CancelWrite(a)
      PROVE  Paid(o)
  <2>1. cpy[a].ord \in Orders
    BY <1>4 DEF MakeWrite, ImpossibleWrite, CancelWrite, TypeInv, BusyKnowsOrder
  <2>2. row'[o].credited = row[o].credited
    BY <1>2, <1>4, <2>1 DEF MakeWrite, ImpossibleWrite, CancelWrite, DbUpdate
  <2> QED
    BY <1>0, <1>1, <2>2
<1>5. ASSUME NEW u \in Orders, ReadNext(u) PROVE Paid(o)
  <2>1. row'[o].credited = row[o].credited
    BY <1>2, <1>5 DEF ReadNext, ReadExecutionStart, ReadComplete, ReadCancel, ReadFails, DbUpdate
  <2> QED
    BY <1>0, <1>1, <2>1
<1>6. ASSUME NEW u \in Orders, DbCreateOrder(u) PROVE Paid(o)
  <2>1. row'[o] = row[o] \/ row'[o].credited = 0
    BY <1>0, <1>6 DEF DbCreateOrder
  <2> QED
    BY <1>0, <1>1, <2>1
<1>7. CASE UNCHANGED row
  BY <1>0, <1>1, <1>7
<1> QED
  BY <1>3, <1>4, <1>5, <1>6, <1>7
     DEF Next, CreateNext, CreateQR, InitPaySession, GetQrCode, PollNext, PollGetState, PollReadRow,
         PollTimeout, PollStop, SharedNext, MakeRead, MakeSend, ImpossibleRead, CancelRead, CancelAsk,
         CancelRetry, Notify, Shutdown, Restart, vars,
         BankNext, BankFormShowed, BankAuthorizes, BankConfirms, BankRejects,
         BankExpires, BankRefundDone, BankStep, RobotNext, RobotStarts, RobotCompletes, RobotFails,
         RobotCancels, RobotStep

\* makeOrder is sent by a goroutine that has heard of the money
LEMMA SentStep ==
  ASSUME MoneyInv, [Next]_vars, NEW o \in Orders, sent'[o] > 0
  PROVE  Paid(o)
<1> TypeInv /\ CopiesTold /\ MakingTold /\ OnlyPaidOrdersAreMade
  BY DEF MoneyInv
<1> USE DEF outside
<1>1. CASE sent'[o] = sent[o]
  BY <1>1 DEF OnlyPaidOrdersAreMade
<1>2. ASSUME NEW a \in Actors, MakeSend(a) PROVE Paid(o)
  <2>1. Paid(cpy[a].ord)
    BY <1>2 DEF MakeSend, MakingTold, CopiesTold, MakeSteps
  <2> QED
    BY <1>1, <1>2, <2>1 DEF MakeSend, TypeInv, TypeOK
<1> QED
  BY <1>1, <1>2
     DEF Next, CreateNext, CreateQR, InitPaySession, DbCreateOrder, GetQrCode, PollNext, PollGetState,
         PollReadRow, PollTimeout, PollStop, SharedNext, DbUpdateOrderStatus, MakeRead, MakeWrite,
         ImpossibleRead, ImpossibleWrite, CancelRead, CancelWrite, CancelAsk,
         CancelRetry, Notify, Shutdown, Restart, vars, ReadNext, ReadExecutionStart, ReadComplete,
         ReadCancel, ReadFails, ReadMqtt,
         BankNext, BankFormShowed, BankAuthorizes, BankConfirms, BankRejects,
         BankExpires, BankRefundDone, BankStep, RobotNext, RobotStarts, RobotCompletes, RobotFails,
         RobotCancels, RobotStep

LEMMA MoneyNext == MoneyInv /\ [Next]_vars => MoneyInv'
<1> SUFFICES ASSUME MoneyInv, [Next]_vars PROVE MoneyInv'
  OBVIOUS
<1> /\ TypeInv /\ OwnOrder /\ NotOpened /\ CopiesTold /\ MakingTold
    /\ TypeInv'
  BY TypeNext DEF MoneyInv
<1>1. \A o \in Orders : Paid(o) => Paid(o)'
  BY PaidStays
<1>2. OwnOrder'
  BY CopySteps DEF OwnOrder, CopyStep, MoneyInv, Actors
<1>3. NotOpened'
  <2> SUFFICES ASSUME NEW o \in Orders, pc'[o] = "init" PROVE bank'[o] = Unknown
    BY DEF NotOpened
  <2>1. bank'[o] = Unknown \/ pc[o] = "init"
    BY CopySteps DEF CopyStep, Actors, MakeSteps
  <2>2. CASE pc[o] = "init"
    BY <2>2, StepsChange DEF BankChange, NotOpened, TypeInv, TypeOK
  <2> QED
    BY <2>1, <2>2
<1>4. CopiesTold'
  <2> SUFFICES ASSUME NEW a \in Actors, cpy'[a].st = "Confirmed" PROVE  cpy'[a].ord \in Orders /\ bank'[cpy'[a].ord] \in Taken
    BY DEF CopiesTold, Paid
  <2>1. CopyStep(a)
    BY CopySteps
  <2>2. CASE cpy'[a].ord = cpy[a].ord /\ cpy'[a].st = cpy[a].st
    <3>1. cpy[a].ord \in Orders /\ Paid(cpy[a].ord)
      BY <2>2 DEF CopiesTold
    <3> QED
      BY <1>1, <2>2, <3>1 DEF Paid
  <2> QED
    BY <2>1, <2>2 DEF CopyStep, Blank, Unknown
<1>5. NotifsTold'
  BY PaidStays
<1>6. MakingTold'
  BY CopySteps DEF MakingTold, CopyStep, MakeSteps
<1>7. OnlyPaidOrdersAreMade'
  BY <1>1, SentStep DEF OnlyPaidOrdersAreMade
<1>8. CreditedIsPaid'
  BY <1>1, CreditedStep DEF CreditedIsPaid
<1> QED
  BY <1>2, <1>3, <1>4, <1>5, <1>6, <1>7, <1>8 DEF MoneyInv

LEMMA MoneyAlways == Spec => []MoneyInv
  BY MoneyInit, MoneyNext, PTL DEF Spec

(* A robot is only ever told to make an order the bank has the money for.  *)
THEOREM MoneyFirst == Spec => []OnlyPaidOrdersAreMade
<1>1. MoneyInv => OnlyPaidOrdersAreMade
  BY DEF MoneyInv
<1> QED
  BY <1>1, MoneyAlways, PTL

(* The books show credit only for orders the bank has the money for.       *)
THEOREM CreditFollowsMoney == Spec => []CreditedIsPaid
<1>1. MoneyInv => CreditedIsPaid
  BY DEF MoneyInv
<1> QED
  BY <1>1, MoneyAlways, PTL

-----------------------------------------------------------------------------
(* The row of an order is inserted once, before anybody else can know of   *)
(* the order: whoever works on one later, and every robot that speaks of   *)
(* one, finds its row.                                                     *)

Known(o) == row[o].os # "none"

Early == {"init", "insert"}
Away == {"idle", "stopped"}

WorkKnown ==
  /\ \A o \in Orders : pc[o] \in Early => ~Known(o)
  /\ \A a \in Actors : pc[a] \notin Away \cup Early => Known(cpy[a].ord)

RobotsKnown ==
  /\ \A o \in Orders : robot[o] # "away" => Known(o)
  /\ \A o \in Orders : (\E w \in RobotWords : <<o, w>> \in rmsgs) => robot[o] # "away"

KnownInv == MoneyInv /\ WorkKnown /\ RobotsKnown

LEMMA KnownInit == Init => KnownInv
<1> SUFFICES ASSUME Init PROVE KnownInv
  OBVIOUS
<1>1. WorkKnown
  BY DEF Init, WorkKnown, Known, Early, Away, Actors
<1>2. RobotsKnown
  BY DEF Init, RobotsKnown, Known
<1> QED
  BY <1>1, <1>2, MoneyInit DEF KnownInv

\* what a step does to the state of an order
RowStep(o) ==
  \/ row'[o].os = row[o].os
  \/ row'[o].os = "start" /\ ~Known(o) /\ pc'[o] = "getQr"
  \/ Known(o) /\ row'[o].os \notin {"none", "start"}

LEMMA RowSteps ==
  ASSUME KnownInv, [Next]_vars, NEW o \in Orders
  PROVE  RowStep(o)
<1> TypeInv /\ WorkKnown /\ RobotsKnown /\ OwnOrder
  BY DEF KnownInv, MoneyInv
<1> USE DEF outside
<1>0. row \in [Orders -> Row]
  BY DEF TypeInv, TypeOK
<1>1. CASE UNCHANGED row
  BY <1>1 DEF RowStep
<1>2. ASSUME NEW u \in Orders, Known(u), NEW os \in OrderStates \ {"none", "start"},
             row' = row \/ row' = [row EXCEPT ![u] = [row[u] EXCEPT !.os = os]]
      PROVE  RowStep(o)
  BY <1>0, <1>2 DEF RowStep, Known, Row
<1>3. ASSUME NEW a \in Actors, DbUpdateOrderStatus(a) PROVE RowStep(o)
  <2> DEFINE c == cpy[a]
  <2>1. c.ord \in Orders
    BY <1>3 DEF DbUpdateOrderStatus, TypeInv, BusyKnowsOrder
  <2>2. CASE row' = [row EXCEPT ![c.ord] = Recorded(row[c.ord], c)]
    <3>1. Recorded(row[c.ord], c).os = row[c.ord].os
      BY <1>0, <2>1 DEF Recorded, Row
    <3> QED
      BY <1>0, <2>1, <2>2, <3>1 DEF RowStep
  <2> QED
    BY <1>1, <1>3, <2>2 DEF DbUpdateOrderStatus, DbUpdate
<1>4. ASSUME NEW a \in Actors, MakeWrite(a) \/ ImpossibleWrite(a) \/ CancelWrite(a)
      PROVE  RowStep(o)
  <2>1. cpy[a].ord \in Orders /\ Known(cpy[a].ord)
    BY <1>4 DEF MakeWrite, ImpossibleWrite, CancelWrite, TypeInv, BusyKnowsOrder, WorkKnown,
                Away, Early
  <2>2. "prepay" \in OrderStates \ {"none", "start"} /\ "cancel" \in OrderStates \ {"none", "start"}
    BY DEF OrderStates
  <2> QED
    BY <1>2, <1>4, <2>1, <2>2 DEF MakeWrite, ImpossibleWrite, CancelWrite, DbUpdate
<1>5. ASSUME NEW u \in Orders, ReadNext(u) PROVE RowStep(o)
  <2>1. Known(u)
    BY <1>5 DEF ReadNext, ReadExecutionStart, ReadComplete, ReadCancel, ReadFails, ReadMqtt,
                RobotsKnown, RobotWords
  <2>2. "execute" \in OrderStates \ {"none", "start"} /\ "complete" \in OrderStates \ {"none", "start"}
    BY DEF OrderStates
  <2> QED
    BY <1>1, <1>2, <1>5, <2>1, <2>2
       DEF ReadNext, ReadExecutionStart, ReadComplete, ReadCancel, ReadFails, DbUpdate
<1>6. ASSUME NEW u \in Orders, DbCreateOrder(u) PROVE RowStep(o)
  <2>1. ~Known(u) /\ u \in Actors
    BY <1>6 DEF DbCreateOrder, WorkKnown, Early, Actors
  <2>2. CASE GoTo(u, "getQr") /\ row' = [row EXCEPT ![u] = [os |-> "start", bs |-> "New", credited |-> 0]]
    <3>1. pc'[u] = "getQr"
      BY <2>1, <2>2 DEF GoTo, GoWith, TypeInv, TypeOK
    <3> QED
      BY <1>0, <2>1, <2>2, <3>1 DEF RowStep
  <2> QED
    BY <1>1, <1>6, <2>2 DEF DbCreateOrder
<1> QED
  BY <1>1, <1>3, <1>4, <1>5, <1>6
     DEF Next, CreateNext, CreateQR, InitPaySession, GetQrCode, PollNext, PollGetState, PollReadRow,
         PollTimeout, PollStop, SharedNext, MakeRead, MakeSend, ImpossibleRead, CancelRead, CancelAsk,
         CancelRetry, Notify, Shutdown, Restart, vars,
         BankNext, BankFormShowed, BankAuthorizes, BankConfirms, BankRejects,
         BankExpires, BankRefundDone, BankStep, RobotNext, RobotStarts, RobotCompletes, RobotFails,
         RobotCancels, RobotStep

\* a row stays
LEMMA KnownStays ==
  ASSUME KnownInv, [Next]_vars, NEW o \in Orders, Known(o)
  PROVE  Known(o)'
  BY RowSteps DEF RowStep, Known

\* what a step does to a goroutine
PlaceStep(a) ==
  \/ pc'[a] = pc[a] /\ cpy'[a].ord = cpy[a].ord
  \/ pc'[a] \in Away
  \/ \* createQR begins, or has opened the payment
     /\ a \in Orders /\ pc'[a] \in Early
     /\ row' = row /\ (~Known(a) \/ pc[a] = "init")
  \/ \* createQR has inserted the row
     pc'[a] = "getQr" /\ cpy'[a].ord \in Orders /\ row'[cpy'[a].ord].os # "none"
  \/ \* it goes on
     /\ pc[a] \notin Away \cup Early /\ pc'[a] \notin Away \cup Early
     /\ cpy'[a].ord = cpy[a].ord /\ cpy[a].ord \in Orders
     /\ pc'[a] = "cnAsk" /\ "dbWrite" \notin FaultKinds => row'[cpy[a].ord].os \notin {"none", "start"}
  \/ \* it is given an order
     /\ pc'[a] \in {"apply", "cnRead"} /\ cpy'[a].ord \in Orders /\ Known(cpy'[a].ord)

LEMMA GoOnPlaces ==
  ASSUME KnownInv, NEW b \in Actors, NEW p, NEW c, GoWith(b, p, c), c.ord = cpy[b].ord,
         pc[b] \notin Away \cup Early, p \notin Away \cup Early \cup {"cnAsk"}, NEW a \in Actors
  PROVE  PlaceStep(a)
<1>1. cpy[b].ord \in Orders
  BY DEF KnownInv, MoneyInv, TypeInv, BusyKnowsOrder, Away
<1> QED
  BY <1>1, GoWithStep DEF PlaceStep, KnownInv, MoneyInv

LEMMA ReturnPlaces ==
  ASSUME KnownInv, NEW b \in Actors, Return(b), NEW a \in Actors
  PROVE  PlaceStep(a)
  BY GoWithStep DEF PlaceStep, KnownInv, MoneyInv, Return, Away

LEMMA FreshOrd ==
  ASSUME TypeInv, NEW b \in Actors, NEW c \in {Fresh(b), cpy[b]}
  PROVE  c.ord = cpy[b].ord
  BY DEF Fresh, TypeInv, TypeOK, Copy

LEMMA PlaceSteps ==
  ASSUME KnownInv, [Next]_vars, NEW a \in Actors
  PROVE  PlaceStep(a)
<1> TypeInv /\ WorkKnown /\ RobotsKnown /\ OwnOrder
  BY DEF KnownInv, MoneyInv
<1> USE DEF outside
<1>1. CASE UNCHANGED <<pc, cpy>>
  BY <1>1 DEF PlaceStep
<1>2. ASSUME NEW o \in Orders, CreateQR(o) PROVE PlaceStep(a)
  BY <1>2, GoWithStep DEF CreateQR, PlaceStep, Actors, Known, Early
<1>3. ASSUME NEW o \in Orders, CreateNext(o), ~CreateQR(o) PROVE PlaceStep(a)
  <2> o \in Actors
    BY DEF Actors
  <2>1. CASE Return(o)
    BY <2>1, ReturnPlaces
  <2>2. CASE InitPaySession(o) /\ GoTo(o, "insert")
    BY <2>2, GoWithStep DEF InitPaySession, GoTo, PlaceStep, Early
  <2>3. CASE DbCreateOrder(o) /\ ~Return(o)
    <3>1. GoTo(o, "getQr") /\ row' = [row EXCEPT ![o] = [os |-> "start", bs |-> "New", credited |-> 0]]
      BY <2>3 DEF DbCreateOrder
    <3>2. cpy[o].ord = o /\ row'[o].os = "start"
      BY <2>3, <3>1 DEF DbCreateOrder, OwnOrder, TypeInv, TypeOK
    <3> QED
      BY <3>1, <3>2, GoWithStep DEF GoTo, PlaceStep
  <2>4. CASE GetQrCode(o) /\ GoTo(o, "select")
    BY <2>4, GoOnPlaces DEF GetQrCode, GoTo, Away, Early
  <2> QED
    BY <1>3, <2>1, <2>2, <2>3, <2>4 DEF CreateNext, InitPaySession, GetQrCode
<1>4. ASSUME NEW o \in Orders, PollNext(o) PROVE PlaceStep(a)
  <2> o \in Actors
    BY DEF Actors
  <2>1. CASE PollGetState(o)
    <3>1. cpy[o] \in Copy
      BY DEF TypeInv, TypeOK
    <3>2. [cpy[o] EXCEPT !.st = bank[o]].ord = cpy[o].ord
      BY <3>1 DEF Copy
    <3> QED
      BY <2>1, <3>2, GoOnPlaces DEF PollGetState, GoTo, Away, Early
  <2>2. CASE PollReadRow(o)
    <3>1. PICK c \in {Fresh(o), cpy[o]} : GoWith(o, "apply", c)
      BY <2>2 DEF PollReadRow
    <3> QED
      BY <2>2, <3>1, FreshOrd, GoOnPlaces DEF PollReadRow, Away, Early
  <2>3. CASE PollTimeout(o) \/ PollStop(o)
    BY <2>3, ReturnPlaces, GoOnPlaces DEF PollTimeout, PollStop, GoTo, Away, Early
  <2> QED
    BY <1>4, <2>1, <2>2, <2>3 DEF PollNext
<1>5. ASSUME NEW b \in Actors, SharedNext(b) PROVE PlaceStep(a)
  <2>1. CASE Return(b)
    BY <2>1, ReturnPlaces
  <2>2. CASE DbUpdateOrderStatus(b) /\ ~Return(b)
    <3>1. PICK p \in {"mkRead", "imRead", "select"} : GoTo(b, p)
      BY <2>2 DEF DbUpdateOrderStatus, AfterUpdate
    <3> QED
      BY <2>2, <3>1, GoOnPlaces DEF DbUpdateOrderStatus, GoTo, Away, Early
  <2>3. CASE (MakeRead(b) \/ ImpossibleRead(b) \/ CancelRead(b)) /\ ~Return(b)
    <3>1. PICK c \in {Fresh(b), cpy[b]}, p \in {"mkWrite", "imWrite", "cnWrite"} : GoWith(b, p, c)
      BY <2>3 DEF MakeRead, ImpossibleRead, CancelRead
    <3>2. pc[b] \notin Away \cup Early /\ p \notin Away \cup Early \cup {"cnAsk"}
      BY <2>3 DEF MakeRead, ImpossibleRead, CancelRead, Away, Early
    <3>3. c.ord = cpy[b].ord
      BY FreshOrd
    <3> QED
      BY <3>1, <3>2, <3>3, GoOnPlaces
  <2>4. CASE MakeWrite(b)
    BY <2>4, GoOnPlaces DEF MakeWrite, GoTo, Away, Early
  <2>5. CASE CancelWrite(b)
    <3>1. cpy[b].ord \in Orders
      BY <2>5 DEF CancelWrite, TypeInv, BusyKnowsOrder
    <3>2. "dbWrite" \notin FaultKinds => row'[cpy[b].ord].os = "cancel"
      BY <2>5, <3>1 DEF CancelWrite, DbUpdate, Fault, TypeInv, TypeOK, Row
    <3>3. pc[b] \notin Away \cup Early /\ GoWith(b, "cnAsk", cpy[b])
      BY <2>5 DEF CancelWrite, GoTo, Away, Early
    <3> QED
      BY <3>1, <3>2, <3>3, GoWithStep DEF PlaceStep, Away, Early
  <2>6. CASE CancelAsk(b) /\ ~Return(b)
    <3>1. cpy[b] \in Copy
      BY DEF TypeInv, TypeOK
    <3>2. GoWith(b, "apply", [cpy[b] EXCEPT !.amt = 0, !.st = bank'[cpy[b].ord]])
      BY <2>6 DEF CancelAsk, CancelAnswered, CancelFailed, CancelMismatched
    <3>3. PICK c : /\ c = [cpy[b] EXCEPT !.amt = 0, !.st = bank'[cpy[b].ord]]
                   /\ GoWith(b, "apply", c)
      BY <3>2
    <3>4. c.ord = cpy[b].ord
      BY <3>1, <3>3 DEF Copy
    <3>5. pc[b] \notin Away \cup Early
      BY <2>6 DEF CancelAsk, Away, Early
    <3>6. "apply" \notin Away \cup Early \cup {"cnAsk"}
      BY DEF Away, Early
    <3> QED
      BY <3>3, <3>4, <3>5, <3>6, GoOnPlaces
  <2> QED
    BY <1>5, <2>1, <2>2, <2>3, <2>4, <2>5, <2>6 DEF SharedNext, MakeSend, ImpossibleWrite
<1>6. ASSUME NEW o \in Orders, ReadNext(o) PROVE PlaceStep(a)
  <2>1. Reader \in Actors
    BY DEF Actors
  <2>2. CASE ReadCancel(o)
    <3>1. Known(o)
      BY <2>2 DEF ReadCancel, ReadMqtt, RobotsKnown, RobotWords
    <3>2. Loaded(o, Unknown).ord = o
      BY DEF Loaded
    <3> QED
      BY <2>1, <2>2, <3>1, <3>2, GoWithStep DEF ReadCancel, PlaceStep
  <2> QED
    BY <1>1, <1>6, <2>1, <2>2, GoWithStep
       DEF ReadNext, ReadExecutionStart, ReadComplete, ReadFails, PlaceStep, Away
<1>7. ASSUME NEW h \in Handlers, NEW o \in Orders, NEW s \in BankStates, Notify(h, o, s)
      PROVE  PlaceStep(a)
  <2>1. h \in Actors /\ Loaded(o, s).ord = o
    BY DEF Actors, Loaded
  <2> QED
    BY <1>1, <1>7, <2>1, GoWithStep DEF Notify, PlaceStep, Known
<1>8. CASE Restart
  BY <1>8 DEF Restart, PlaceStep, Away
<1> QED
  BY <1>1, <1>2, <1>3, <1>4, <1>5, <1>6, <1>7, <1>8
     DEF Next, BankNext, BankFormShowed, BankAuthorizes, BankConfirms, BankRejects,
         BankExpires, BankRefundDone, BankStep, RobotNext, RobotStarts, RobotCompletes, RobotFails,
         RobotCancels, RobotStep, CancelRetry, Shutdown, vars

\* robots speak of the orders they were offered
LEMMA RobotSteps ==
  ASSUME KnownInv, [Next]_vars
  PROVE  RobotsKnown'
<1> TypeInv /\ WorkKnown /\ RobotsKnown /\ OwnOrder
  BY DEF KnownInv, MoneyInv
<1> USE DEF outside
<1>0. \A o \in Orders : Known(o) => Known(o)'
  BY KnownStays
<1>1. CASE UNCHANGED robot /\ rmsgs' \subseteq rmsgs
  BY <1>0, <1>1 DEF RobotsKnown
<1>2. ASSUME NEW o \in Orders, GetQrCode(o) PROVE RobotsKnown'
  <2>1. Known(o) /\ o \in Actors
    BY <1>2 DEF GetQrCode, WorkKnown, OwnOrder, Away, Early, Actors
  <2> QED
    BY <1>0, <1>2, <2>1 DEF GetQrCode, RobotsKnown, TypeInv, TypeOK
<1>3. ASSUME NEW o \in Orders, RobotNext(o) PROVE RobotsKnown'
  <2>1. PICK to \in {"making", "gone"}, word \in RobotWords :
          robot[o] # "away" /\ robot' = [robot EXCEPT ![o] = to] /\ rmsgs' = rmsgs \cup {<<o, word>>}
    BY <1>3, QrAssumption DEF RobotNext, RobotStarts, RobotCompletes, RobotFails, RobotCancels, RobotStep
  <2> QED
    BY <1>0, <2>1 DEF RobotsKnown, TypeInv, TypeOK
<1>4. ASSUME NEW o \in Orders, ReadNext(o) PROVE UNCHANGED robot /\ rmsgs' \subseteq rmsgs
  BY <1>4 DEF ReadNext, ReadExecutionStart, ReadComplete, ReadCancel, ReadFails, ReadMqtt
<1>5. ASSUME NEW a \in Actors, SharedNext(a) PROVE UNCHANGED <<robot, rmsgs>>
  BY <1>5 DEF SharedNext, DbUpdateOrderStatus, MakeRead, MakeWrite, MakeSend, ImpossibleRead,
              ImpossibleWrite, CancelRead, CancelWrite, CancelAsk
<1> QED
  BY <1>1, <1>2, <1>3, <1>4, <1>5
     DEF Next, CreateNext, CreateQR, InitPaySession, DbCreateOrder, PollNext, PollGetState,
         PollReadRow, PollTimeout, PollStop, CancelRetry, Notify, Shutdown, Restart, vars,
         BankNext, BankFormShowed, BankAuthorizes, BankConfirms, BankRejects,
         BankExpires, BankRefundDone, BankStep

LEMMA KnownNext == KnownInv /\ [Next]_vars => KnownInv'
<1> SUFFICES ASSUME KnownInv, [Next]_vars PROVE KnownInv'
  OBVIOUS
<1> TypeInv /\ WorkKnown
  BY DEF KnownInv, MoneyInv
<1>1. \A o \in Orders : Known(o) => Known(o)'
  BY KnownStays
<1>2. ASSUME NEW o \in Orders, pc'[o] \in Early PROVE row'[o].os = "none"
  <2>1. o \in Actors /\ RowStep(o)
    BY RowSteps DEF Actors
  <2>2. PlaceStep(o)
    BY <2>1, PlaceSteps
  <2>3. ~Known(o)
    BY <1>2, <2>2 DEF PlaceStep, WorkKnown, Early, Away
  <2> QED
    BY <1>2, <2>1, <2>3 DEF RowStep, Known, Early
<1>3. ASSUME NEW a \in Actors, pc'[a] \notin Away \cup Early PROVE row'[cpy'[a].ord].os # "none"
  <2>1. PlaceStep(a)
    BY PlaceSteps
  <2>2. pc[a] \notin Away => cpy[a].ord \in Orders
    BY DEF TypeInv, BusyKnowsOrder, Away
  <2> QED
    BY <1>1, <1>3, <2>1, <2>2 DEF PlaceStep, WorkKnown, Known, Away, Early
<1>4. WorkKnown'
  BY <1>2, <1>3 DEF WorkKnown, Known
<1> QED
  BY <1>4, RobotSteps, MoneyNext DEF KnownInv

LEMMA KnownAlways == Spec => []KnownInv
  BY KnownInit, KnownNext, PTL DEF Spec

-----------------------------------------------------------------------------
(* What the bank gave back is on record.  cancelOrder writes the row       *)
(* before it asks the bank, so that every question is about an order that  *)
(* is on record, also one that is asked again later; and nothing takes an  *)
(* order off the record.  That holds as long as no UPDATE fails.           *)

OnRecord(o) == row[o].os \notin {"none", "start"}

AskedOnRecord ==
  /\ \A a \in Actors : pc[a] = "cnAsk" => OnRecord(cpy[a].ord)
  /\ \A a \in Actors, o \in Orders : <<a, o>> \in retry => OnRecord(o)

RecordInv == KnownInv /\ AskedOnRecord /\ ReturnedIsOnRecord

LEMMA RecordInit == Init => RecordInv
<1> SUFFICES ASSUME Init PROVE RecordInv
  OBVIOUS
<1>1. AskedOnRecord
  BY DEF Init, AskedOnRecord, Actors
<1>2. ReturnedIsOnRecord
  BY DEF Init, ReturnedIsOnRecord, Returned, Unknown
<1> QED
  BY <1>1, <1>2, KnownInit DEF RecordInv

\* an order stays on record
LEMMA RecordStays ==
  ASSUME KnownInv, [Next]_vars, NEW o \in Orders, OnRecord(o)
  PROVE  OnRecord(o)'
  BY RowSteps DEF RowStep, Known, OnRecord

LEMMA RetrySteps ==
  ASSUME RecordInv, [Next]_vars, NEW a \in Actors, NEW o \in Orders, <<a, o>> \in retry'
  PROVE  <<a, o>> \in retry \/ OnRecord(o)
<1> USE DEF outside
<1>1. ASSUME NEW b \in Actors, CancelAsk(b) PROVE <<a, o>> \in retry \/ OnRecord(o)
  BY <1>1 DEF CancelAsk, CancelAnswered, CancelFailed, CancelMismatched, RecordInv, AskedOnRecord
<1>2. ASSUME NEW b \in Actors, SharedNext(b), ~CancelAsk(b) PROVE retry' = retry
  BY <1>2 DEF SharedNext, DbUpdateOrderStatus, MakeRead, MakeWrite, MakeSend, ImpossibleRead,
              ImpossibleWrite, CancelRead, CancelWrite
<1> QED
  BY <1>1, <1>2
     DEF Next, CreateNext, CreateQR, InitPaySession, DbCreateOrder, GetQrCode, PollNext, PollGetState,
         PollReadRow, PollTimeout, PollStop, ReadNext, ReadExecutionStart, ReadComplete, ReadCancel,
         ReadFails, ReadMqtt, CancelRetry, Notify, Shutdown, Restart, vars,
         BankNext, BankFormShowed, BankAuthorizes, BankConfirms, BankRejects,
         BankExpires, BankRefundDone, BankStep, RobotNext, RobotStarts, RobotCompletes, RobotFails,
         RobotCancels, RobotStep

\* the bank returns money to whoever asks
LEMMA ReturnSteps ==
  ASSUME RecordInv, [Next]_vars, NEW o \in Orders, bank'[o] \in Returned
  PROVE  OnRecord(o)
<1> TypeInv /\ AskedOnRecord /\ ReturnedIsOnRecord /\ NotOpened
  BY DEF RecordInv, KnownInv, MoneyInv
<1> USE DEF outside
<1>0. bank[o] \in Returned => OnRecord(o)
  BY DEF ReturnedIsOnRecord, OnRecord
<1>1. CASE UNCHANGED bank
  BY <1>0, <1>1
<1>2. ASSUME NEW u \in Orders, BankNext(u) PROVE OnRecord(o)
  <2>1. PICK s : /\ bank' = [bank EXCEPT ![u] = s]
                 /\ s \in Returned => bank[u] \in Returned
    BY <1>2 DEF BankNext, BankFormShowed, BankAuthorizes, BankConfirms, BankRejects,
                BankExpires, BankRefundDone, BankStep, BankMoves, Returned
  <2> QED
    BY <1>0, <2>1 DEF TypeInv, TypeOK
<1>3. ASSUME NEW u \in Orders, InitPaySession(u) PROVE OnRecord(o)
  BY <1>0, <1>3 DEF InitPaySession, Returned, TypeInv, TypeOK
<1>4. ASSUME NEW u \in Orders, BankCancels(u), OnRecord(u) PROVE OnRecord(o)
  BY <1>0, <1>4 DEF BankCancels, BankMoves, TypeInv, TypeOK
<1>5. ASSUME NEW a \in Actors, CancelAsk(a) PROVE OnRecord(o)
  <2>1. cpy[a].ord \in Orders /\ OnRecord(cpy[a].ord)
    BY <1>5 DEF CancelAsk, AskedOnRecord, TypeInv, BusyKnowsOrder
  <2> QED
    BY <1>1, <1>4, <1>5, <2>1 DEF CancelAsk, CancelAnswered, CancelFailed, CancelMismatched, BankRefuses
<1>6. ASSUME NEW a \in Actors, NEW u \in Orders, CancelRetry(a, u) PROVE OnRecord(o)
  BY <1>1, <1>4, <1>6 DEF CancelRetry, BankRefuses, AskedOnRecord
<1>7. ASSUME NEW a \in Actors, SharedNext(a), ~CancelAsk(a) PROVE UNCHANGED bank
  BY <1>7 DEF SharedNext, DbUpdateOrderStatus, MakeRead, MakeWrite, MakeSend, ImpossibleRead,
              ImpossibleWrite, CancelRead, CancelWrite
<1> QED
  BY <1>1, <1>2, <1>3, <1>5, <1>6, <1>7
     DEF Next, CreateNext, CreateQR, DbCreateOrder, GetQrCode, PollNext, PollGetState, PollReadRow,
         PollTimeout, PollStop, ReadNext, ReadExecutionStart, ReadComplete, ReadCancel, ReadFails,
         ReadMqtt, Notify, Shutdown, Restart, vars, RobotNext, RobotStarts, RobotCompletes,
         RobotFails, RobotCancels, RobotStep

LEMMA RecordNext ==
  ASSUME "dbWrite" \notin FaultKinds
  PROVE  RecordInv /\ [Next]_vars => RecordInv'
<1> SUFFICES ASSUME RecordInv, [Next]_vars PROVE RecordInv'
  OBVIOUS
<1> TypeInv /\ KnownInv /\ AskedOnRecord
  BY DEF RecordInv, KnownInv, MoneyInv
<1>1. \A o \in Orders : OnRecord(o) => OnRecord(o)'
  BY RecordStays
<1>2. ASSUME NEW a \in Actors, pc'[a] = "cnAsk" PROVE row'[cpy'[a].ord].os \notin {"none", "start"}
  <2>1. PlaceStep(a)
    BY PlaceSteps
  <2>2. pc[a] = "cnAsk" => cpy[a].ord \in Orders
    BY DEF TypeInv, BusyKnowsOrder
  <2> QED
    BY <1>1, <1>2, <2>1, <2>2 DEF PlaceStep, AskedOnRecord, OnRecord, Away, Early
<1>3. \A a \in Actors, o \in Orders : <<a, o>> \in retry' => OnRecord(o)'
  BY <1>1, RetrySteps DEF AskedOnRecord
<1>4. AskedOnRecord'
  BY <1>2, <1>3 DEF AskedOnRecord, OnRecord
<1>5. ReturnedIsOnRecord'
  BY <1>1, ReturnSteps DEF ReturnedIsOnRecord, OnRecord
<1> QED
  BY <1>4, <1>5, KnownNext DEF RecordInv

(* As long as no UPDATE fails, a payment the bank cancelled or refunded is *)
(* never an order that still waits to be paid.                             *)
THEOREM ReturnsOnRecord ==
  ASSUME "dbWrite" \notin FaultKinds
  PROVE  Spec => []ReturnedIsOnRecord
<1>1. RecordInv => ReturnedIsOnRecord
  BY DEF RecordInv
<1> QED
  BY <1>1, RecordInit, RecordNext, PTL DEF Spec

-----------------------------------------------------------------------------
(* A decided order stays decided, as long as no SELECT fails: who looks at *)
(* the row before a makeOrder then sees that it is decided, and who has    *)
(* looked before counts as Making.                                         *)

Deciding == {"mkWrite", "mkSend"}

\* nobody comes between the look and the message for a decided order
LEMMA MakingSteps ==
  ASSUME "dbRead" \notin FaultKinds, KnownInv, [Next]_vars,
         NEW a \in Actors, pc'[a] \in Deciding
  PROVE  \/ pc[a] \in Deciding /\ cpy'[a].ord = cpy[a].ord
         \/ row[cpy'[a].ord].os \notin Decided
<1> DEFINE Goal == \/ pc[a] \in Deciding /\ cpy'[a].ord = cpy[a].ord
                   \/ row[cpy'[a].ord].os \notin Decided
<1> TypeInv
  BY DEF KnownInv, MoneyInv
<1> USE DEF outside
<1>1. CASE pc'[a] = pc[a] /\ cpy'[a] = cpy[a]
  BY <1>1
<1>2. ASSUME NEW b \in Actors, NEW p, NEW c, GoWith(b, p, c), p \notin Deciding PROVE Goal
  BY <1>1, <1>2, GoWithStep
<1>3. ASSUME NEW b \in Actors, Return(b) PROVE Goal
  BY <1>2, <1>3 DEF Return, Deciding
<1>4. ASSUME NEW o \in Orders, CreateNext(o) \/ PollNext(o) PROVE Goal
  <2>1. o \in Actors
    BY DEF Actors
  <2>2. \/ Return(o)
        \/ \E c : \E p \in {"init", "insert", "getQr", "select", "read", "apply", "cnRead"} :
             GoWith(o, p, c)
    BY <1>4 DEF CreateNext, CreateQR, InitPaySession, DbCreateOrder, GetQrCode, GoTo,
                PollNext, PollGetState, PollReadRow, PollTimeout, PollStop
  <2> QED
    BY <1>2, <1>3, <2>1, <2>2 DEF Deciding
<1>5. ASSUME NEW b \in Actors, SharedNext(b) PROVE Goal
  <2>1. CASE MakeRead(b)
    <3>0. PICK c \in {Fresh(b), cpy[b]} :
            /\ DbGetOrderStatus(b, c)
            /\ IF c.os \in Decided THEN Return(b) ELSE GoWith(b, "mkWrite", c)
      BY <2>1 DEF MakeRead
    <3>1. /\ DbGetOrderStatus(b, c)
          /\ Return(b) \/ (c.os \notin Decided /\ GoWith(b, "mkWrite", c))
      BY <3>0
    <3>2. CASE Return(b)
      BY <1>3, <3>2
    <3>3. CASE c.os \notin Decided /\ GoWith(b, "mkWrite", c) /\ a = b
      <4>1. c = Fresh(b)
        BY <3>1 DEF DbGetOrderStatus, Fault
      <4>2. cpy[b] \in Copy
        BY DEF TypeInv, TypeOK
      <4>3. c.os = row[cpy[b].ord].os /\ c.ord = cpy[b].ord
        BY <4>1, <4>2 DEF Fresh, Copy
      <4>4. cpy'[a] = c
        BY <3>3, GoWithStep
      <4> QED
        BY <3>3, <4>3, <4>4
    <3>4. CASE GoWith(b, "mkWrite", c) /\ a # b
      BY <1>1, <3>4, GoWithStep
    <3> QED
      BY <3>1, <3>2, <3>3, <3>4
  <2>2. CASE MakeWrite(b)
    BY <1>1, <2>2, GoWithStep DEF MakeWrite, GoTo, Deciding
  <2>3. CASE ~MakeRead(b) /\ ~MakeWrite(b)
    <3>1. \/ Return(b)
          \/ \E c : \E p \in {"mkRead", "imRead", "select", "imWrite", "cnWrite", "cnAsk", "apply"} :
               GoWith(b, p, c)
      BY <1>5, <2>3 DEF SharedNext, DbUpdateOrderStatus, AfterUpdate, MakeSend, ImpossibleRead,
                        ImpossibleWrite, CancelRead, CancelWrite, CancelAsk, CancelAnswered,
                        CancelFailed, CancelMismatched, GoTo
    <3> QED
      BY <1>2, <1>3, <3>1 DEF Deciding
  <2> QED
    BY <2>1, <2>2, <2>3
<1>6. ASSUME NEW o \in Orders, ReadNext(o) PROVE Goal
  <2>1. Reader \in Actors
    BY DEF Actors
  <2>2. \/ UNCHANGED <<pc, cpy>>
        \/ \E c : \E p \in {"cnRead", "stopped"} : GoWith(Reader, p, c)
    BY <1>6 DEF ReadNext, ReadExecutionStart, ReadComplete, ReadCancel, ReadFails
  <2> QED
    BY <1>1, <1>2, <2>1, <2>2 DEF Deciding
<1>7. ASSUME NEW h \in Handlers, NEW o \in Orders, NEW s \in BankStates, Notify(h, o, s)
      PROVE  Goal
  <2>1. h \in Actors
    BY DEF Actors
  <2>2. UNCHANGED <<pc, cpy>> \/ GoWith(h, "apply", Loaded(o, s))
    BY <1>7 DEF Notify
  <2> QED
    BY <1>1, <1>2, <2>1, <2>2 DEF Deciding
<1>8. CASE Restart
  BY <1>8 DEF Restart, Deciding
<1> QED
  BY <1>1, <1>4, <1>5, <1>6, <1>7, <1>8
     DEF Next, BankNext, BankFormShowed, BankAuthorizes, BankConfirms, BankRejects,
         BankExpires, BankRefundDone, BankStep, RobotNext, RobotStarts, RobotCompletes, RobotFails,
         RobotCancels, RobotStep, CancelRetry, Shutdown, vars

\* what is written to a decided order
LEMMA DecidedRow ==
  ASSUME KnownInv, [Next]_vars, NEW o \in Orders, row[o].os \in Decided, ~Making(o)
  PROVE  row'[o].os \in Decided
<1> TypeInv /\ WorkKnown
  BY DEF KnownInv, MoneyInv
<1> USE DEF outside
<1>0. row \in [Orders -> Row]
  BY DEF TypeInv, TypeOK
<1>1. CASE row'[o] = row[o]
  BY <1>1
<1>2. ASSUME NEW u \in Orders, NEW os \in Decided,
             row' = row \/ row' = [row EXCEPT ![u] = [row[u] EXCEPT !.os = os]]
      PROVE  row'[o].os \in Decided
  BY <1>0, <1>2 DEF Row
<1>3. ASSUME NEW a \in Actors, DbUpdateOrderStatus(a) PROVE row'[o].os \in Decided
  <2> DEFINE c == cpy[a]
  <2>1. c.ord \in Orders
    BY <1>3 DEF DbUpdateOrderStatus, TypeInv, BusyKnowsOrder
  <2>2. CASE row' = [row EXCEPT ![c.ord] = Recorded(row[c.ord], c)]
    <3>1. Recorded(row[c.ord], c).os = row[c.ord].os
      BY <1>0, <2>1 DEF Recorded, Row
    <3> QED
      BY <1>0, <2>1, <2>2, <3>1
  <2> QED
    BY <1>1, <1>3, <2>2 DEF DbUpdateOrderStatus, DbUpdate
<1>4. ASSUME NEW a \in Actors, MakeWrite(a) PROVE row'[o].os \in Decided
  <2>1. cpy[a].ord # o
    BY <1>4 DEF MakeWrite, Making
  <2> QED
    BY <1>0, <1>1, <1>4, <2>1 DEF MakeWrite, DbUpdate
<1>5. ASSUME NEW a \in Actors, ImpossibleWrite(a) \/ CancelWrite(a) PROVE row'[o].os \in Decided
  <2>1. cpy[a].ord \in Orders
    BY <1>5 DEF ImpossibleWrite, CancelWrite, TypeInv, BusyKnowsOrder
  <2>2. "cancel" \in Decided
    BY DEF Decided
  <2> QED
    BY <1>2, <1>5, <2>1, <2>2 DEF ImpossibleWrite, CancelWrite, DbUpdate
<1>6. ASSUME NEW u \in Orders, ReadNext(u) PROVE row'[o].os \in Decided
  <2>1. "execute" \in Decided /\ "complete" \in Decided
    BY DEF Decided
  <2> QED
    BY <1>1, <1>2, <1>6, <2>1
       DEF ReadNext, ReadExecutionStart, ReadComplete, ReadCancel, ReadFails, DbUpdate
<1>7. ASSUME NEW u \in Orders, DbCreateOrder(u) PROVE row'[o].os \in Decided
  <2>1. u # o
    BY <1>7 DEF DbCreateOrder, WorkKnown, Known, Early, Decided
  <2> QED
    BY <1>0, <1>1, <1>7, <2>1 DEF DbCreateOrder
<1> QED
  BY <1>1, <1>3, <1>4, <1>5, <1>6, <1>7
     DEF Next, CreateNext, CreateQR, InitPaySession, GetQrCode, PollNext, PollGetState, PollReadRow,
         PollTimeout, PollStop, SharedNext, MakeRead, MakeSend, ImpossibleRead, CancelRead, CancelAsk,
         CancelRetry, Notify, Shutdown, Restart, vars,
         BankNext, BankFormShowed, BankAuthorizes, BankConfirms, BankRejects,
         BankExpires, BankRefundDone, BankStep, RobotNext, RobotStarts, RobotCompletes, RobotFails,
         RobotCancels, RobotStep

LEMMA DecidedSent ==
  ASSUME KnownInv, [Next]_vars, NEW o \in Orders, ~Making(o)
  PROVE  sent'[o] = sent[o]
<1> TypeInv
  BY DEF KnownInv, MoneyInv
<1> USE DEF outside
<1>1. ASSUME NEW a \in Actors, MakeSend(a) PROVE sent'[o] = sent[o]
  <2>1. cpy[a].ord # o
    BY <1>1 DEF MakeSend, Making
  <2> QED
    BY <1>1, <2>1 DEF MakeSend, TypeInv, TypeOK
<1> QED
  BY <1>1
     DEF Next, CreateNext, CreateQR, InitPaySession, DbCreateOrder, GetQrCode, PollNext, PollGetState,
         PollReadRow, PollTimeout, PollStop, SharedNext, DbUpdateOrderStatus, MakeRead, MakeWrite,
         ImpossibleRead, ImpossibleWrite, CancelRead, CancelWrite, CancelAsk,
         CancelRetry, Notify, Shutdown, Restart, vars, ReadNext, ReadExecutionStart, ReadComplete,
         ReadCancel, ReadFails, ReadMqtt,
         BankNext, BankFormShowed, BankAuthorizes, BankConfirms, BankRejects,
         BankExpires, BankRefundDone, BankStep, RobotNext, RobotStarts, RobotCompletes, RobotFails,
         RobotCancels, RobotStep

(* As long as no SELECT fails, an order that is executing, complete or     *)
(* cancelled while no makeOrder is on its way stays so, and no goroutine   *)
(* sends makeOrder for it again, whatever else fails.                      *)
THEOREM NeverRevived ==
  ASSUME "dbRead" \notin FaultKinds
  PROVE  Spec => DecidedStaysDecided
<1> DEFINE Stays == \A o \in Orders : row[o].os \in Decided /\ ~Making(o)
                      => row[o].os' \in Decided /\ ~Making(o)' /\ sent'[o] = sent[o]
<1>1. KnownInv /\ [Next]_vars => [Stays]_vars
  <2> SUFFICES ASSUME KnownInv, [Next]_vars PROVE Stays
    OBVIOUS
  <2> SUFFICES ASSUME NEW o \in Orders, row[o].os \in Decided, ~Making(o)
               PROVE  row'[o].os \in Decided /\ ~Making(o)' /\ sent'[o] = sent[o]
    OBVIOUS
  <2>1. ~Making(o)'
    <3> SUFFICES ASSUME NEW a \in Actors, pc'[a] \in Deciding, cpy'[a].ord = o PROVE FALSE
      BY DEF Making, Deciding
    <3> QED
      BY MakingSteps DEF Making, Deciding
  <2> QED
    BY <2>1, DecidedRow, DecidedSent
<1> QED
  BY <1>1, KnownAlways, PTL DEF Spec, DecidedStaysDecided

-----------------------------------------------------------------------------
(* Kept money.  First what holds as long as no UPDATE fails and the        *)
(* process lives: what goroutines believe of the row and of the bank was   *)
(* true when they learned it, and of what matters it still is, so that the *)
(* credit of a payment the bank keeps stays, and its order is handed over. *)
(* What is left is who brings the credit: the notification in one theorem, *)
(* the poller in the other.                                                *)

Works(a, o, places) == pc[a] \in places /\ cpy[a].ord = o

Kept(o) == bank[o] \notin Returned
Credited(o) == row[o].credited = Price

\* the bank has ended the payment for good
Since(s, t) == (s \in Failed => t \in Failed) /\ (s \in Returned => t \in Returned)

Heard ==
  /\ \A a \in Actors : cpy[a].ord \in Orders => Since(cpy[a].st, bank[cpy[a].ord])
  /\ \A o \in Orders, s \in BankStates : <<o, s>> \in notifs => Since(s, bank[o])

\* only a copy whose payment was cancelled has lost the amount
Amounts ==
  \A a \in Actors : cpy[a].ord \in Orders => cpy[a].amt = Price \/ cpy[a].st \in Returned

CreditKept ==
  /\ \A o \in Orders : Credited(o) => Known(o)
  /\ \A o \in Orders : row[o].bs = "Confirmed" /\ Kept(o) => Credited(o)
  /\ \A a \in Actors : cpy[a].ord \in Orders /\ cpy[a].bs = "Confirmed" /\ Kept(cpy[a].ord)
                         => Credited(cpy[a].ord)

CopiesOnRecord ==
  \A a \in Actors : cpy[a].ord \in Orders /\ cpy[a].os \notin {"none", "start"}
                      => OnRecord(cpy[a].ord)

HandedOver ==
  \A o \in Orders : Credited(o) /\ Kept(o)
    => OnRecord(o) \/ \E a \in Actors : Works(a, o, {"mkRead", "mkWrite"})

\* a payment the customer can make is one that the robot shows
Shown ==
  /\ \A o \in Orders : bank[o] \in {"FormShowed", "Authorizing", "Confirmed"} => robot[o] # "away"
  /\ \A o \in Orders : pc[o] \notin {"idle", "init"} \/ Known(o) => bank[o] # Unknown

KeptInv == /\ KnownInv /\ ~stopping /\ Heard /\ Amounts /\ CreditKept /\ CopiesOnRecord
           /\ HandedOver /\ Shown

\* what a step does to a copy
CopyChange(a) ==
  \/ pc'[a] = pc[a] /\ cpy'[a] = cpy[a]
  \/ pc'[a] \in Away /\ cpy'[a] = Blank
  \/ \* createQR begins
     /\ a \in Orders /\ pc'[a] = "init"
     /\ cpy'[a] = [ord |-> a, os |-> "start", bs |-> Unknown, amt |-> Price, st |-> Unknown]
  \/ \* a notification or a robot's message has come
     /\ a \notin Orders
     /\ \E o \in Orders, s \in BankStates \cup {Unknown} :
          /\ cpy'[a] = Loaded(o, s) /\ Known(o)
          /\ pc'[a] = "apply" => s \in BankStates /\ <<o, s>> \in notifs
          /\ pc'[a] \in {"apply", "cnRead"} /\ (pc'[a] = "cnRead" => s = Unknown)
  \/ \* it goes on, and may have looked at the row
     /\ pc[a] \notin Away /\ cpy'[a] \in {Fresh(a), cpy[a]}
     /\ pc'[a] \notin Away \cup {"init", "read"}
     /\ pc'[a] \in {"imRead", "imWrite"} => pc[a] = "imRead" \/ cpy[a].st \in Failed
     /\ pc'[a] = "apply" => pc[a] = "read"
     /\ pc'[a] \in MakeSteps =>
          \/ pc[a] \in MakeSteps
          \/ DbUpdateOrderStatus(a) /\ cpy[a].st = "Confirmed" /\ cpy[a].bs # "Confirmed"
  \/ \* the poller has asked the bank
     /\ a \in Orders /\ pc[a] = "select" /\ pc'[a] = "read"
     /\ cpy'[a] = [cpy[a] EXCEPT !.st = bank[a]] /\ UNCHANGED bank
  \/ \* the bank has cancelled the payment
     /\ pc[a] = "cnAsk" /\ pc'[a] = "apply" /\ bank'[cpy[a].ord] \in Returned
     /\ cpy'[a] = [cpy[a] EXCEPT !.amt = 0, !.st = bank'[cpy[a].ord]]

GoesOn(b, p, c) ==
  /\ pc[b] \notin Away /\ c \in {Fresh(b), cpy[b]} /\ p \notin Away \cup {"init", "read"}
  /\ p \in {"imRead", "imWrite"} => pc[b] = "imRead" \/ cpy[b].st \in Failed
  /\ p = "apply" => pc[b] = "read"
  /\ p \in MakeSteps =>
       \/ pc[b] \in MakeSteps
       \/ DbUpdateOrderStatus(b) /\ cpy[b].st = "Confirmed" /\ cpy[b].bs # "Confirmed"

LEMMA GoesOnChange ==
  ASSUME TypeInv, NEW b \in Actors, NEW p, NEW c, GoWith(b, p, c), GoesOn(b, p, c), NEW a \in Actors
  PROVE  CopyChange(a)
  BY GoWithStep DEF CopyChange, GoesOn

LEMMA ReturnChange ==
  ASSUME TypeInv, NEW b \in Actors, Return(b), NEW a \in Actors
  PROVE  CopyChange(a)
  BY GoWithStep DEF Return, CopyChange, Away

LEMMA CopyChanges ==
  ASSUME KnownInv, [Next]_vars, NEW a \in Actors
  PROVE  CopyChange(a)
<1> TypeInv /\ OwnOrder /\ WorkKnown /\ RobotsKnown
  BY DEF KnownInv, MoneyInv
<1> USE DEF outside
<1>1. CASE UNCHANGED <<pc, cpy>>
  BY <1>1 DEF CopyChange
<1>2. ASSUME NEW o \in Orders, CreateQR(o) PROVE CopyChange(a)
  BY <1>2, GoWithStep DEF CreateQR, CopyChange, Actors
<1>3. ASSUME NEW o \in Orders, InitPaySession(o) \/ DbCreateOrder(o) \/ GetQrCode(o)
      PROVE  CopyChange(a)
  <2>1. o \in Actors
    BY DEF Actors
  <2>2. \/ Return(o)
        \/ \E p \in {"insert", "getQr", "select"} : GoWith(o, p, cpy[o]) /\ pc[o] \notin Away
    BY <1>3 DEF InitPaySession, DbCreateOrder, GetQrCode, GoTo, Away
  <2>3. ASSUME NEW p \in {"insert", "getQr", "select"}, pc[o] \notin Away PROVE GoesOn(o, p, cpy[o])
    BY <2>3 DEF GoesOn, Away, MakeSteps
  <2> QED
    BY <2>1, <2>2, <2>3, ReturnChange, GoesOnChange
<1>4. ASSUME NEW o \in Orders, PollNext(o) PROVE CopyChange(a)
  <2>1. o \in Actors
    BY DEF Actors
  <2>2. CASE PollGetState(o)
    <3>1. CASE GoTo(o, "select")
      BY <2>1, <2>2, <3>1, GoesOnChange DEF PollGetState, GoTo, GoesOn, Away, MakeSteps
    <3>2. CASE GoWith(o, "read", [cpy[o] EXCEPT !.st = bank[o]])
      BY <2>1, <2>2, <3>2, GoWithStep DEF PollGetState, CopyChange
    <3> QED
      BY <2>2, <3>1, <3>2 DEF PollGetState
  <2>3. CASE PollReadRow(o)
    BY <2>1, <2>3, GoesOnChange DEF PollReadRow, GoesOn, Away, MakeSteps
  <2>4. CASE PollTimeout(o)
    BY <2>1, <2>4, GoesOnChange DEF PollTimeout, GoTo, GoesOn, Away, MakeSteps
  <2>5. CASE PollStop(o)
    BY <2>1, <2>5, ReturnChange DEF PollStop
  <2> QED
    BY <1>4, <2>2, <2>3, <2>4, <2>5 DEF PollNext
<1>5. ASSUME NEW b \in Actors, SharedNext(b) PROVE CopyChange(a)
  <2>1. CASE Return(b)
    BY <2>1, ReturnChange
  <2>2. CASE DbUpdateOrderStatus(b) /\ ~Return(b)
    <3>1. PICK p \in {"mkRead", "imRead", "select"} :
            /\ GoTo(b, p)
            /\ p = "mkRead" => cpy[b].st = "Confirmed" /\ cpy[b].bs # "Confirmed"
            /\ p = "imRead" => cpy[b].st \in Failed
      BY <2>2 DEF DbUpdateOrderStatus, AfterUpdate
    <3>2. GoesOn(b, p, cpy[b])
      BY <2>2, <3>1 DEF DbUpdateOrderStatus, GoesOn, Away, MakeSteps
    <3> QED
      BY <3>1, <3>2, GoesOnChange DEF GoTo
  <2>3. CASE (MakeRead(b) \/ ImpossibleRead(b) \/ CancelRead(b)) /\ ~Return(b)
    <3>1. PICK c \in {Fresh(b), cpy[b]} :
            \/ MakeRead(b) /\ GoWith(b, "mkWrite", c)
            \/ ImpossibleRead(b) /\ GoWith(b, "imWrite", c)
            \/ CancelRead(b) /\ GoWith(b, "cnWrite", c)
      BY <2>3 DEF MakeRead, ImpossibleRead, CancelRead
    <3>2. MakeRead(b) => GoesOn(b, "mkWrite", c)
      BY DEF MakeRead, GoesOn, Away, MakeSteps
    <3>3. ImpossibleRead(b) => GoesOn(b, "imWrite", c)
      BY DEF ImpossibleRead, GoesOn, Away, MakeSteps
    <3>4. CancelRead(b) => GoesOn(b, "cnWrite", c)
      BY DEF CancelRead, GoesOn, Away, MakeSteps
    <3> QED
      BY <3>1, <3>2, <3>3, <3>4, GoesOnChange
  <2>4. CASE MakeWrite(b)
    BY <2>4, GoesOnChange DEF MakeWrite, GoTo, GoesOn, Away, MakeSteps
  <2>5. CASE CancelWrite(b)
    BY <2>5, GoesOnChange DEF CancelWrite, GoTo, GoesOn, Away, MakeSteps
  <2>6. CASE CancelAsk(b) /\ ~Return(b)
    <3>1. /\ pc[b] = "cnAsk" /\ BankCancels(cpy[b].ord)
          /\ GoWith(b, "apply", [cpy[b] EXCEPT !.amt = 0, !.st = bank'[cpy[b].ord]])
      BY <2>6 DEF CancelAsk, CancelAnswered, CancelFailed, CancelMismatched
    <3>2. bank'[cpy[b].ord] \in Returned
      BY <3>1, BankCancelsType DEF TypeInv, BusyKnowsOrder
    <3>3. PICK c : /\ c = [cpy[b] EXCEPT !.amt = 0, !.st = bank'[cpy[b].ord]]
                   /\ GoWith(b, "apply", c)
      BY <3>1
    <3>4. CASE a = b
      <4>1. pc'[a] = "apply" /\ cpy'[a] = c
        BY <3>3, <3>4, GoWithStep
      <4> QED
        BY <3>1, <3>2, <3>3, <3>4, <4>1 DEF CopyChange
    <3>5. CASE a # b
      BY <3>3, <3>5, GoWithStep DEF CopyChange
    <3> QED
      BY <3>4, <3>5
  <2> QED
    BY <1>5, <2>1, <2>2, <2>3, <2>4, <2>5, <2>6 DEF SharedNext, MakeSend, ImpossibleWrite
<1>6. ASSUME NEW o \in Orders, ReadNext(o) PROVE CopyChange(a)
  <2>1. Reader \in Actors /\ Reader \notin Orders
    BY QrAssumption DEF Actors
  <2>2. CASE ReadCancel(o)
    <3>1. Known(o)
      BY <2>2 DEF ReadCancel, ReadMqtt, RobotsKnown, RobotWords
    <3> QED
      BY <2>1, <2>2, <3>1, GoWithStep DEF ReadCancel, CopyChange
  <2> QED
    BY <1>1, <1>6, <2>1, <2>2, GoWithStep
       DEF ReadNext, ReadExecutionStart, ReadComplete, ReadFails, CopyChange, Away
<1>7. ASSUME NEW h \in Handlers, NEW o \in Orders, NEW s \in BankStates, Notify(h, o, s)
      PROVE  CopyChange(a)
  <2>1. h \in Actors /\ h \notin Orders
    BY QrAssumption DEF Actors
  <2> QED
    BY <1>1, <1>7, <2>1, GoWithStep DEF Notify, CopyChange, Known
<1>8. CASE Restart
  BY <1>8 DEF Restart, CopyChange, Away
<1> QED
  BY <1>1, <1>2, <1>3, <1>4, <1>5, <1>6, <1>7, <1>8
     DEF Next, CreateNext, BankNext, BankFormShowed, BankAuthorizes, BankConfirms, BankRejects,
         BankExpires, BankRefundDone, BankStep, RobotNext, RobotStarts, RobotCompletes, RobotFails,
         RobotCancels, RobotStep, CancelRetry, Shutdown, vars

\* what a step does to a payment at the bank
BankMove(o) ==
  \/ bank'[o] = bank[o]
  \/ pc[o] = "init" /\ bank'[o] = "New" /\ UNCHANGED row
  \/ bank[o] = "New" /\ bank'[o] = "FormShowed" /\ robot[o] = "offered"
  \/ bank[o] = "FormShowed" /\ bank'[o] = "Authorizing"
  \/ /\ bank[o] = "Authorizing" /\ bank'[o] = "Confirmed"
     /\ "Confirmed" \in Notified => <<o, "Confirmed">> \in notifs'
  \/ bank[o] \in Open /\ bank'[o] \in Failed
  \/ bank[o] \in Open \cup {"Confirmed", "QRRefunding"} /\ bank'[o] \in Returned

LEMMA OnePayment ==
  ASSUME TypeInv, NEW u \in Orders, NEW s, bank' = [bank EXCEPT ![u] = s], NEW o \in Orders
  PROVE  bank'[o] = IF o = u THEN s ELSE bank[o]
  BY DEF TypeInv, TypeOK

LEMMA CancelMoves ==
  ASSUME TypeInv, NEW u \in Orders, BankCancels(u), NEW o \in Orders
  PROVE  BankMove(o)
<1>1. PICK s \in CancelTo(bank[u]) : BankMoves(u, s)
  BY DEF BankCancels
<1>2. s \in Returned /\ bank[u] \in Open \cup {"Confirmed"}
  BY CancelToReturned DEF TypeInv, TypeOK
<1> QED
  BY <1>1, <1>2, OnePayment DEF BankMoves, BankMove

LEMMA BankMoved ==
  ASSUME KnownInv, [Next]_vars, NEW o \in Orders
  PROVE  BankMove(o)
<1> TypeInv
  BY DEF KnownInv, MoneyInv
<1> USE DEF outside
<1>1. CASE UNCHANGED bank
  BY <1>1 DEF BankMove
<1>2. ASSUME NEW u \in Orders, NEW from, NEW to, BankStep(u, from, to)
      PROVE  /\ bank[u] \in from /\ bank'[o] = IF o = u THEN to ELSE bank[o]
             /\ to \in Notified => <<u, to>> \in notifs'
  BY <1>2, OnePayment DEF BankStep, BankMoves
<1>3. ASSUME NEW u \in Orders, BankNext(u) PROVE BankMove(o)
  <2>1. CASE BankFormShowed(u)
    <3>1. /\ bank[u] = "New" /\ bank'[o] = IF o = u THEN "FormShowed" ELSE bank[o]
          /\ robot[u] = "offered"
      BY <2>1 DEF BankFormShowed, BankStep, BankMoves, TypeInv, TypeOK
    <3> QED
      BY <3>1 DEF BankMove
  <2>2. CASE BankAuthorizes(u)
    <3>1. /\ bank[u] = "FormShowed" /\ bank'[o] = IF o = u THEN "Authorizing" ELSE bank[o]
      BY <2>2 DEF BankAuthorizes, BankStep, BankMoves, TypeInv, TypeOK
    <3> QED
      BY <3>1 DEF BankMove
  <2>3. CASE BankConfirms(u)
    <3>1. /\ bank[u] = "Authorizing" /\ bank'[o] = IF o = u THEN "Confirmed" ELSE bank[o]
          /\ "Confirmed" \in Notified => <<u, "Confirmed">> \in notifs'
      BY <2>3 DEF BankConfirms, BankStep, BankMoves, TypeInv, TypeOK
    <3> QED
      BY <3>1 DEF BankMove
  <2>4. CASE BankRejects(u) \/ BankExpires(u)
    BY <1>2, <2>4 DEF BankRejects, BankExpires, BankMove, Open, Failed
  <2>5. CASE BankRefundDone(u)
    BY <1>2, <2>5 DEF BankRefundDone, BankMove, Returned
  <2> QED
    BY <1>3, <2>1, <2>2, <2>3, <2>4, <2>5 DEF BankNext
<1>4. ASSUME NEW u \in Orders, InitPaySession(u) PROVE BankMove(o)
  BY <1>1, <1>4, OnePayment DEF InitPaySession, BankMove
<1>5. ASSUME NEW a \in Actors, CancelAsk(a) PROVE BankMove(o)
  <2>1. cpy[a].ord \in Orders
    BY <1>5 DEF CancelAsk, TypeInv, BusyKnowsOrder
  <2> QED
    BY <1>1, <1>5, <2>1, CancelMoves
       DEF CancelAsk, CancelAnswered, CancelFailed, CancelMismatched, BankRefuses
<1>6. ASSUME NEW a \in Actors, NEW u \in Orders, CancelRetry(a, u) PROVE BankMove(o)
  BY <1>1, <1>6, CancelMoves DEF CancelRetry, BankRefuses
<1>7. ASSUME NEW a \in Actors, SharedNext(a), ~CancelAsk(a) PROVE UNCHANGED bank
  BY <1>7 DEF SharedNext, DbUpdateOrderStatus, MakeRead, MakeWrite, MakeSend, ImpossibleRead,
              ImpossibleWrite, CancelRead, CancelWrite
<1> QED
  BY <1>1, <1>3, <1>4, <1>5, <1>6, <1>7
     DEF Next, CreateNext, CreateQR, DbCreateOrder, GetQrCode, PollNext, PollGetState, PollReadRow,
         PollTimeout, PollStop, ReadNext, ReadExecutionStart, ReadComplete, ReadCancel, ReadFails,
         ReadMqtt, Notify, Shutdown, Restart, vars, RobotNext, RobotStarts, RobotCompletes,
         RobotFails, RobotCancels, RobotStep

\* the bank notifies of what has just become of a payment
LEMMA NotifsCome ==
  ASSUME KnownInv, [Next]_vars, NEW o \in Orders, NEW s, <<o, s>> \in notifs'
  PROVE  <<o, s>> \in notifs \/ s = bank'[o]
<1> TypeInv
  BY DEF KnownInv, MoneyInv
<1> USE DEF outside
<1>1. CASE notifs' \subseteq notifs
  BY <1>1
<1>2. ASSUME NEW u \in Orders, NEW t, BankMoves(u, t) PROVE <<o, s>> \in notifs \/ s = bank'[o]
  <2>1. bank'[o] = IF o = u THEN t ELSE bank[o]
    BY <1>2 DEF BankMoves, TypeInv, TypeOK
  <2>2. <<o, s>> \in notifs \/ <<o, s>> = <<u, t>>
    BY <1>2 DEF BankMoves
  <2> QED
    BY <2>1, <2>2
<1>3. ASSUME NEW u \in Orders, BankNext(u) PROVE \E t : BankMoves(u, t)
  BY <1>3 DEF BankNext, BankFormShowed, BankAuthorizes, BankConfirms, BankRejects,
              BankExpires, BankRefundDone, BankStep
<1>4. ASSUME NEW a \in Actors, CancelAsk(a) PROVE <<o, s>> \in notifs \/ s = bank'[o]
  <2>1. cpy[a].ord \in Orders
    BY <1>4 DEF CancelAsk, TypeInv, BusyKnowsOrder
  <2> QED
    BY <1>1, <1>2, <1>4, <2>1
       DEF CancelAsk, CancelAnswered, CancelFailed, CancelMismatched, BankRefuses, BankCancels
<1>5. ASSUME NEW a \in Actors, NEW u \in Orders, CancelRetry(a, u)
      PROVE  <<o, s>> \in notifs \/ s = bank'[o]
  BY <1>1, <1>2, <1>5 DEF CancelRetry, BankRefuses, BankCancels
<1>6. ASSUME NEW a \in Actors, SharedNext(a), ~CancelAsk(a) PROVE UNCHANGED notifs
  BY <1>6 DEF SharedNext, DbUpdateOrderStatus, MakeRead, MakeWrite, MakeSend, ImpossibleRead,
              ImpossibleWrite, CancelRead, CancelWrite
<1> QED
  BY <1>1, <1>2, <1>3, <1>4, <1>5, <1>6
     DEF Next, CreateNext, CreateQR, InitPaySession, DbCreateOrder, GetQrCode, PollNext,
         PollGetState, PollReadRow, PollTimeout, PollStop, ReadNext, ReadExecutionStart,
         ReadComplete, ReadCancel, ReadFails, ReadMqtt, Notify, Shutdown, Restart, vars,
         RobotNext, RobotStarts, RobotCompletes, RobotFails, RobotCancels, RobotStep

\* what a step does to a row
RowChange(o) ==
  \/ row'[o] = row[o]
  \/ pc[o] = "insert" /\ row'[o] = [os |-> "start", bs |-> "New", credited |-> 0]
  \/ \E a \in Actors : /\ DbUpdateOrderStatus(a) /\ cpy[a].ord = o /\ cpy[a].bs # cpy[a].st
                       /\ row'[o] = Recorded(row[o], cpy[a])
  \/ /\ \E os \in OrderStates \ {"none", "start"} : row'[o] = [row[o] EXCEPT !.os = os]
     /\ Known(o)
     /\ row'[o].os = "complete" => <<o, "complete">> \in rmsgs
     /\ row'[o].os = "cancel" => \E a \in Actors : \/ Works(a, o, {"imWrite"})
                                                 \/ Works(a, o, {"cnAsk"})'

LEMMA OneRow ==
  ASSUME TypeInv, NEW u \in Orders, NEW r, row' = [row EXCEPT ![u] = r], NEW o \in Orders
  PROVE  row'[o] = IF o = u THEN r ELSE row[o]
  BY DEF TypeInv, TypeOK

LEMMA RowChanges ==
  ASSUME KnownInv, [Next]_vars, NEW o \in Orders
  PROVE  RowChange(o)
<1> TypeInv /\ WorkKnown /\ RobotsKnown /\ OwnOrder
  BY DEF KnownInv, MoneyInv
<1> USE DEF outside
<1>0. row[o] \in Row
  BY DEF TypeInv, TypeOK
<1>1. CASE row'[o] = row[o]
  BY <1>1 DEF RowChange
<1>2. ASSUME NEW a \in Actors, DbUpdateOrderStatus(a) PROVE RowChange(o)
  <2>1. cpy[a].ord \in Orders
    BY <1>2 DEF DbUpdateOrderStatus, TypeInv, BusyKnowsOrder
  <2>2. CASE UNCHANGED row
    BY <1>1, <2>2
  <2>3. CASE /\ cpy[a].bs # cpy[a].st
             /\ row' = [row EXCEPT ![cpy[a].ord] = Recorded(row[cpy[a].ord], cpy[a])]
    <3>1. CASE o = cpy[a].ord
      <4>1. row'[o] = Recorded(row[o], cpy[a])
        BY <2>1, <2>3, <3>1 DEF TypeInv, TypeOK
      <4> QED
        BY <1>2, <2>3, <3>1, <4>1 DEF RowChange
    <3> QED
      BY <1>1, <2>1, <2>3, <3>1, OneRow
  <2> QED
    BY <1>2, <2>2, <2>3 DEF DbUpdateOrderStatus, DbUpdate
<1>3. ASSUME NEW a \in Actors, MakeWrite(a) \/ ImpossibleWrite(a) \/ CancelWrite(a)
      PROVE  RowChange(o)
  <2>1. cpy[a].ord \in Orders /\ Known(cpy[a].ord)
    BY <1>3 DEF MakeWrite, ImpossibleWrite, CancelWrite, TypeInv, BusyKnowsOrder, WorkKnown,
                Away, Early
  <2>2. PICK os \in {"prepay", "cancel"} :
          /\ \/ row' = [row EXCEPT ![cpy[a].ord] = [row[cpy[a].ord] EXCEPT !.os = os]]
             \/ UNCHANGED row
          /\ os = "cancel" => pc[a] = "imWrite" \/ GoTo(a, "cnAsk")
    BY <1>3 DEF MakeWrite, ImpossibleWrite, CancelWrite, DbUpdate
  <2>3. CASE o = cpy[a].ord /\ row'[o] = [row[o] EXCEPT !.os = os]
    <3>1. os \in OrderStates \ {"none", "start"} /\ row'[o].os = os
      BY <1>0, <2>3 DEF OrderStates, Row
    <3>2. os = "cancel" => Works(a, o, {"imWrite"}) \/ Works(a, o, {"cnAsk"})'
      BY <2>2, <2>3, GoWithStep DEF Works, GoTo
    <3> QED
      BY <2>1, <2>2, <2>3, <3>1, <3>2 DEF RowChange
  <2> QED
    BY <1>1, <2>1, <2>2, <2>3, OneRow
<1>4. ASSUME NEW u \in Orders, ReadNext(u) PROVE RowChange(o)
  <2>1. Known(u)
    BY <1>4 DEF ReadNext, ReadExecutionStart, ReadComplete, ReadCancel, ReadFails, ReadMqtt,
                RobotsKnown, RobotWords
  <2>2. PICK os \in {"execute", "complete"} :
          /\ row' = [row EXCEPT ![u] = [row[u] EXCEPT !.os = os]] \/ UNCHANGED row
          /\ os = "complete" => <<u, "complete">> \in rmsgs
    BY <1>4 DEF ReadNext, ReadExecutionStart, ReadComplete, ReadCancel, ReadFails, ReadMqtt,
                DbUpdate
  <2>3. CASE o = u /\ row'[o] = [row[o] EXCEPT !.os = os]
    <3>1. os \in OrderStates \ {"none", "start"} /\ row'[o].os = os
      BY <1>0, <2>3 DEF OrderStates, Row
    <3> QED
      BY <2>1, <2>2, <2>3, <3>1 DEF RowChange
  <2> QED
    BY <1>1, <2>2, <2>3, OneRow
<1>5. ASSUME NEW u \in Orders, DbCreateOrder(u) PROVE RowChange(o)
  BY <1>1, <1>5, OneRow DEF DbCreateOrder, RowChange
<1> QED
  BY <1>1, <1>2, <1>3, <1>4, <1>5
     DEF Next, CreateNext, CreateQR, InitPaySession, GetQrCode, PollNext, PollGetState, PollReadRow,
         PollTimeout, PollStop, SharedNext, MakeRead, MakeSend, ImpossibleRead, CancelRead, CancelAsk,
         CancelRetry, Notify, Shutdown, Restart, vars,
         BankNext, BankFormShowed, BankAuthorizes, BankConfirms, BankRejects,
         BankExpires, BankRefundDone, BankStep, RobotNext, RobotStarts, RobotCompletes, RobotFails,
         RobotCancels, RobotStep

KeptFaults == FaultKinds \cap Lasting = {}

LEMMA KeptInit == Init => KeptInv
<1> SUFFICES ASSUME Init PROVE KeptInv
  OBVIOUS
<1>1. /\ \A a \in Actors : cpy[a] = Blank /\ pc[a] = "idle"
      /\ \A o \in Orders : bank[o] = Unknown /\ row[o] = [os |-> "none", bs |-> Unknown, credited |-> 0]
      /\ notifs = {} /\ ~stopping /\ \A o \in Orders : o \in Actors
  BY DEF Init, Actors
<1>2. \A a \in Actors : cpy[a].ord \notin Orders
  BY <1>1, QrAssumption DEF Blank
<1>3. \A o \in Orders : ~Credited(o) /\ ~Known(o) /\ row[o].bs # "Confirmed"
  <2> TAKE o \in Orders
  <2>1. row[o].os = "none" /\ row[o].bs = Unknown /\ row[o].credited = 0
    BY <1>1
  <2> QED
    BY <2>1, QrAssumption DEF Credited, Known, Unknown
<1> QED
  BY <1>1, <1>2, <1>3, KnownInit
     DEF KeptInv, Heard, Amounts, CreditKept, CopiesOnRecord, HandedOver, Shown, Unknown

\* the credit of a payment that the bank keeps stays
LEMMA CreditStays ==
  ASSUME KeptInv, [Next]_vars, NEW o \in Orders, Credited(o), Kept(o)
  PROVE  Credited(o)'
<1> KnownInv /\ TypeInv /\ Heard /\ Amounts /\ CreditKept /\ WorkKnown
  BY DEF KeptInv, KnownInv, MoneyInv
<1>0. row[o] \in Row /\ Known(o)
  BY DEF TypeInv, TypeOK, CreditKept
<1>1. CASE row'[o] = row[o]
  BY <1>1 DEF Credited
<1>2. CASE pc[o] = "insert"
  BY <1>0, <1>2 DEF WorkKnown, Early
<1>3. ASSUME NEW a \in Actors, DbUpdateOrderStatus(a), cpy[a].ord = o, cpy[a].bs # cpy[a].st,
             row'[o] = Recorded(row[o], cpy[a])
      PROVE  Credited(o)'
  <2>1. cpy[a].st \notin Returned
    BY <1>3 DEF Heard, Since, Kept
  <2>2. cpy[a].amt = Price
    BY <1>3, <2>1 DEF Amounts
  <2>3. CASE cpy[a].st = "Confirmed"
    <3>1. row'[o] = [row[o] EXCEPT !.bs = cpy[a].st, !.credited = cpy[a].amt]
      BY <1>3, <2>1, <2>3 DEF Recorded
    <3> QED
      BY <1>0, <2>2, <3>1 DEF Credited, Row
  <2>4. CASE cpy[a].st # "Confirmed"
    BY <1>0, <1>3, <2>1, <2>4 DEF Recorded, Credited, Row
  <2> QED
    BY <2>3, <2>4
<1>4. ASSUME NEW os, row'[o] = [row[o] EXCEPT !.os = os] PROVE Credited(o)'
  BY <1>0, <1>4 DEF Credited, Row
<1> QED
  BY <1>1, <1>2, <1>3, <1>4, RowChanges DEF RowChange

\* what the bank gave back stays given back, and a failed payment failed
LEMMA SinceSteps ==
  ASSUME KnownInv, [Next]_vars, NEW o \in Orders
  PROVE  /\ Since(bank[o], bank'[o])
         /\ bank[o] \in BankStates \cup {Unknown} /\ bank'[o] \in BankStates \cup {Unknown}
<1>1. TypeInv /\ TypeInv' /\ NotOpened
  BY TypeNext DEF KnownInv, MoneyInv
<1>2. bank[o] \in BankStates \cup {Unknown} /\ bank'[o] \in BankStates \cup {Unknown}
  BY <1>1 DEF TypeInv, TypeOK
<1>3. Since(bank[o], bank'[o])
  BY <1>1, BankMoved DEF BankMove, Since, Open, Failed, Returned, NotOpened, Unknown
<1> QED
  BY <1>2, <1>3

LEMMA HeardNext ==
  ASSUME KeptInv, [Next]_vars
  PROVE  Heard'
<1> KnownInv /\ TypeInv /\ Heard /\ OwnOrder
  BY DEF KeptInv, KnownInv, MoneyInv
<1>0. /\ Unknown \notin Failed \cup Returned
      /\ \A o \in Orders : \A s : Since(s, bank[o]) => Since(s, bank'[o])
  BY SinceSteps DEF Unknown, Failed, Returned, Since
<1>1. ASSUME NEW a \in Actors, cpy'[a].ord \in Orders PROVE Since(cpy'[a].st, bank'[cpy'[a].ord])
  <2> DEFINE Goal == Since(cpy'[a].st, bank'[cpy'[a].ord])
  <2>0. cpy[a] \in Copy
    BY DEF TypeInv, TypeOK
  <2>1. CASE cpy'[a].ord = cpy[a].ord /\ cpy'[a].st = cpy[a].st
    BY <1>0, <1>1, <2>1 DEF Heard
  <2>2. CASE cpy'[a].st = Unknown
    BY <1>0, <2>2 DEF Since
  <2>3. CASE cpy'[a] = Blank
    BY <1>1, <2>3, QrAssumption DEF Blank
  <2>4. ASSUME NEW o \in Orders, NEW s \in BankStates, cpy'[a] = Loaded(o, s), <<o, s>> \in notifs
        PROVE  Goal
    BY <1>0, <2>4 DEF Heard, Loaded
  <2>5. CASE pc[a] \notin Away /\ cpy'[a] \in {Fresh(a), cpy[a]}
    BY <2>0, <2>1, <2>5 DEF Fresh, Copy
  <2>6. CASE a \in Orders /\ pc[a] = "select" /\ cpy'[a] = [cpy[a] EXCEPT !.st = bank[a]] /\ UNCHANGED bank
    <3>1. cpy[a].ord = a
      BY <2>6 DEF OwnOrder
    <3>2. cpy'[a].ord = a /\ cpy'[a].st = bank'[a]
      BY <2>0, <2>6, <3>1 DEF Copy
    <3> QED
      BY <3>2 DEF Since
  <2>7. CASE pc[a] = "cnAsk" /\ cpy'[a] = [cpy[a] EXCEPT !.amt = 0, !.st = bank'[cpy[a].ord]]
    <3>1. cpy'[a].ord = cpy[a].ord /\ cpy'[a].st = bank'[cpy[a].ord]
      BY <2>0, <2>7 DEF Copy
    <3> QED
      BY <3>1 DEF Since
  <2>8. ASSUME NEW o \in Orders, NEW s \in BankStates \cup {Unknown}, cpy'[a] = Loaded(o, s),
               pc'[a] \in {"apply", "cnRead"}, pc'[a] = "cnRead" => s = Unknown,
               pc'[a] = "apply" => s \in BankStates /\ <<o, s>> \in notifs
        PROVE  Goal
    BY <2>2, <2>4, <2>8 DEF Loaded
  <2>9. CopyChange(a)
    BY CopyChanges
  <2>a. CASE a \notin Orders /\ \E o \in Orders, s \in BankStates \cup {Unknown} :
               /\ cpy'[a] = Loaded(o, s) /\ Known(o)
               /\ pc'[a] = "apply" => s \in BankStates /\ <<o, s>> \in notifs
               /\ pc'[a] \in {"apply", "cnRead"} /\ (pc'[a] = "cnRead" => s = Unknown)
    BY <2>8, <2>a
  <2> QED
    BY <2>1, <2>2, <2>3, <2>5, <2>6, <2>7, <2>9, <2>a DEF CopyChange
<1>2. ASSUME NEW o \in Orders, NEW s \in BankStates, <<o, s>> \in notifs' PROVE Since(s, bank'[o])
  BY <1>0, <1>2, NotifsCome DEF Heard, Since
<1> QED
  BY <1>1, <1>2 DEF Heard

\* where the fields of a copy come from
CopyNow(a) ==
  LET o == cpy'[a].ord
  IN \/ /\ cpy[a].ord = o /\ cpy'[a].amt = cpy[a].amt /\ cpy'[a].st = cpy[a].st
        /\ \/ cpy'[a].os = cpy[a].os /\ cpy'[a].bs = cpy[a].bs
           \/ cpy'[a].os = row[o].os /\ cpy'[a].bs = row[o].bs
     \/ cpy'[a].os = "start" /\ cpy'[a].bs = Unknown /\ cpy'[a].amt = Price
     \/ cpy'[a].os = row[o].os /\ cpy'[a].bs = row[o].bs /\ cpy'[a].amt = Price
     \/ /\ cpy[a].ord = o /\ cpy'[a].os = cpy[a].os /\ cpy'[a].bs = cpy[a].bs
        /\ cpy'[a].st \in Returned \/ (cpy'[a].st = bank[o] /\ cpy'[a].amt = cpy[a].amt)

LEMMA CopiesNow ==
  ASSUME KnownInv, [Next]_vars, NEW a \in Actors, cpy'[a].ord \in Orders
  PROVE  CopyNow(a)
<1> TypeInv /\ OwnOrder
  BY DEF KnownInv, MoneyInv
<1>0. cpy[a] \in Copy
  BY DEF TypeInv, TypeOK
<1>1. CASE cpy'[a] \in {Fresh(a), cpy[a]}
  BY <1>0, <1>1 DEF Fresh, Copy, CopyNow
<1>2. CASE cpy'[a] = Blank
  BY <1>2, QrAssumption DEF Blank
<1>3. CASE cpy'[a] = [ord |-> a, os |-> "start", bs |-> Unknown, amt |-> Price, st |-> Unknown]
  BY <1>3 DEF CopyNow
<1>4. CASE \E o \in Orders, s \in BankStates \cup {Unknown} : cpy'[a] = Loaded(o, s)
  BY <1>4 DEF Loaded, CopyNow
<1>5. CASE a \in Orders /\ pc[a] = "select" /\ cpy'[a] = [cpy[a] EXCEPT !.st = bank[a]]
  <2>1. cpy[a].ord = a
    BY <1>5 DEF OwnOrder
  <2> QED
    BY <1>0, <1>5, <2>1 DEF Copy, CopyNow
<1>6. CASE /\ bank'[cpy[a].ord] \in Returned
           /\ cpy'[a] = [cpy[a] EXCEPT !.amt = 0, !.st = bank'[cpy[a].ord]]
  BY <1>0, <1>6 DEF Copy, CopyNow
<1>7. CopyChange(a)
  BY CopyChanges
<1> QED
  BY <1>1, <1>2, <1>3, <1>4, <1>5, <1>6, <1>7 DEF CopyChange

LEMMA AmountsNext ==
  ASSUME KeptInv, [Next]_vars
  PROVE  Amounts'
<1> KnownInv /\ Heard /\ Amounts
  BY DEF KeptInv
<1>1. ASSUME NEW a \in Actors, cpy'[a].ord \in Orders
      PROVE  cpy'[a].amt = Price \/ cpy'[a].st \in Returned
  <2>1. CopyNow(a)
    BY <1>1, CopiesNow
  <2>2. cpy[a].ord \in Orders => /\ cpy[a].amt = Price \/ cpy[a].st \in Returned
                                 /\ Since(cpy[a].st, bank[cpy[a].ord])
    BY DEF Amounts, Heard
  <2> QED
    BY <1>1, <2>1, <2>2 DEF CopyNow, Since
<1> QED
  BY <1>1 DEF Amounts

LEMMA KeptBefore ==
  ASSUME KnownInv, [Next]_vars, NEW o \in Orders, Kept(o)'
  PROVE  Kept(o)
  BY SinceSteps DEF Since, Kept

LEMMA CreditKeptNext ==
  ASSUME KeptInv, [Next]_vars
  PROVE  CreditKept'
<1> KnownInv /\ TypeInv /\ WorkKnown /\ Heard /\ Amounts /\ CreditKept
  BY DEF KeptInv, KnownInv, MoneyInv
<1>1. ASSUME NEW o \in Orders, Credited(o)' PROVE Known(o)'
  <2>1. Known(o) => Known(o)'
    BY KnownStays
  <2>2. row[o] \in Row
    BY DEF TypeInv, TypeOK
  <2>3. ASSUME NEW a \in Actors, DbUpdateOrderStatus(a), cpy[a].ord = o PROVE Known(o)
    BY <2>3 DEF DbUpdateOrderStatus, WorkKnown, Away, Early
  <2>4. row'[o] # [os |-> "start", bs |-> "New", credited |-> 0]
    BY <1>1, QrAssumption DEF Credited
  <2> QED
    BY <1>1, <2>1, <2>2, <2>3, <2>4, RowChanges DEF RowChange, CreditKept, Credited
<1>2. ASSUME NEW o \in Orders, row'[o].bs = "Confirmed", Kept(o)' PROVE Credited(o)'
  <2>1. Kept(o)
    BY <1>2, KeptBefore
  <2>2. row[o].bs = "Confirmed" => Credited(o)'
    BY <2>1, CreditStays DEF CreditKept
  <2>3. row[o] \in Row
    BY DEF TypeInv, TypeOK
  <2>4. ASSUME NEW a \in Actors, cpy[a].ord = o, row'[o] = Recorded(row[o], cpy[a])
        PROVE  Credited(o)'
    <3>1. cpy[a].st \notin Returned
      BY <2>1, <2>4 DEF Heard, Since, Kept
    <3>2. row'[o].bs = cpy[a].st
      BY <2>3, <2>4 DEF Recorded, Row
    <3>3. row'[o] = [row[o] EXCEPT !.bs = cpy[a].st, !.credited = cpy[a].amt]
      BY <1>2, <2>4, <3>1, <3>2 DEF Recorded
    <3>4. cpy[a].amt = Price
      BY <2>4, <3>1 DEF Amounts
    <3> QED
      BY <2>3, <3>3, <3>4 DEF Credited, Row
  <2>5. CASE row'[o].bs = row[o].bs
    BY <1>2, <2>2, <2>5
  <2>6. CASE row'[o] = [os |-> "start", bs |-> "New", credited |-> 0]
    BY <1>2, <2>6
  <2>7. ASSUME NEW os, row'[o] = [row[o] EXCEPT !.os = os] PROVE row'[o].bs = row[o].bs
    BY <2>3, <2>7 DEF Row
  <2> QED
    BY <2>4, <2>5, <2>6, <2>7, RowChanges DEF RowChange
<1>3. ASSUME NEW a \in Actors, NEW o \in Orders, cpy'[a].ord = o, cpy'[a].bs = "Confirmed", Kept(o)'
      PROVE  Credited(o)'
  <2>1. Kept(o)
    BY <1>3, KeptBefore
  <2>2. CopyNow(a)
    BY <1>3, CopiesNow
  <2>3. \/ cpy[a].ord = o /\ cpy[a].bs = "Confirmed"
        \/ row[o].bs = "Confirmed"
    BY <1>3, <2>2 DEF CopyNow, Unknown
  <2> QED
    BY <2>1, <2>3, CreditStays DEF CreditKept
<1>4. \A a \in Actors : cpy'[a].ord \in Orders /\ cpy'[a].bs = "Confirmed" /\ bank'[cpy'[a].ord] \notin Returned
                         => row'[cpy'[a].ord].credited = Price
  BY <1>3 DEF Kept, Credited
<1> QED
  BY <1>1, <1>2, <1>4 DEF CreditKept, Kept, Credited

LEMMA CopiesOnRecordNext ==
  ASSUME KeptInv, [Next]_vars
  PROVE  CopiesOnRecord'
<1> KnownInv /\ CopiesOnRecord
  BY DEF KeptInv
<1>1. ASSUME NEW a \in Actors, NEW o \in Orders, cpy'[a].ord = o, cpy'[a].os \notin {"none", "start"}
      PROVE  OnRecord(o)'
  <2>1. CopyNow(a)
    BY <1>1, CopiesNow
  <2>2. OnRecord(o)
    BY <1>1, <2>1 DEF CopyNow, CopiesOnRecord, OnRecord
  <2> QED
    BY <2>2, RecordStays
<1>2. \A a \in Actors : cpy'[a].ord \in Orders /\ cpy'[a].os \notin {"none", "start"}
                         => row'[cpy'[a].ord].os \notin {"none", "start"}
  BY <1>1 DEF OnRecord
<1> QED
  BY <1>2 DEF CopiesOnRecord, OnRecord

\* a goroutine at work goes on by itself, as long as the process lives
LEMMA BusySteps ==
  ASSUME KeptFaults, KeptInv, [Next]_vars, NEW a \in Actors, pc[a] \notin Away
  PROVE  \/ pc'[a] = pc[a] /\ cpy'[a] = cpy[a]
         \/ SharedNext(a)
         \/ a \in Orders /\ (CreateNext(a) \/ PollNext(a))
<1> DEFINE Goal == \/ pc'[a] = pc[a] /\ cpy'[a] = cpy[a]
                   \/ SharedNext(a)
                   \/ a \in Orders /\ (CreateNext(a) \/ PollNext(a))
<1> TypeInv /\ ~stopping
  BY DEF KeptInv, KnownInv, MoneyInv
<1> USE DEF outside
<1>1. CASE UNCHANGED <<pc, cpy>>
  BY <1>1
<1>2. ASSUME NEW b \in Actors, NEW p, NEW c, GoWith(b, p, c), a # b PROVE Goal
  BY <1>2, GoWithStep
<1>3. ASSUME NEW o \in Orders, CreateNext(o) \/ PollNext(o) PROVE Goal
  <2>1. o \in Actors /\ \E p, c : GoWith(o, p, c)
    BY <1>3 DEF CreateNext, CreateQR, InitPaySession, DbCreateOrder, GetQrCode, GoTo, Return,
                PollNext, PollGetState, PollReadRow, PollTimeout, PollStop, Actors
  <2> QED
    BY <1>2, <1>3, <2>1
<1>4. ASSUME NEW b \in Actors, SharedNext(b) PROVE Goal
  <2>1. \E p, c : GoWith(b, p, c)
    BY <1>4 DEF SharedNext, DbUpdateOrderStatus, AfterUpdate, MakeRead, MakeWrite, MakeSend,
                ImpossibleRead, ImpossibleWrite, CancelRead, CancelWrite, CancelAsk, CancelAnswered,
                CancelFailed, CancelMismatched, GoTo, Return
  <2> QED
    BY <1>2, <1>4, <2>1
<1>5. ASSUME NEW b \in Actors, pc[b] \in Away, NEW p, NEW c, UNCHANGED <<pc, cpy>> \/ GoWith(b, p, c)
      PROVE  Goal
  BY <1>1, <1>2, <1>5
<1>6. ASSUME NEW o \in Orders, ReadNext(o) PROVE Goal
  <2>1. Reader \in Actors /\ pc[Reader] \in Away
    BY <1>6 DEF ReadNext, ReadExecutionStart, ReadComplete, ReadCancel, ReadFails, ReadMqtt, Away, Actors
  <2>2. UNCHANGED <<pc, cpy>> \/ \E p, c : GoWith(Reader, p, c)
    BY <1>6 DEF ReadNext, ReadExecutionStart, ReadComplete, ReadCancel, ReadFails
  <2> QED
    BY <1>1, <1>5, <2>1, <2>2
<1>7. ASSUME NEW h \in Handlers, NEW o \in Orders, NEW s \in BankStates, Notify(h, o, s) PROVE Goal
  <2>1. h \in Actors /\ pc[h] \in Away
    BY <1>7 DEF Notify, Away, Actors
  <2> QED
    BY <1>1, <1>5, <1>7, <2>1 DEF Notify
<1>8. ~Restart
  BY DEF Restart, KeptFaults, Lasting
<1> QED
  BY <1>1, <1>3, <1>4, <1>6, <1>7, <1>8
     DEF Next, BankNext, BankFormShowed, BankAuthorizes, BankConfirms, BankRejects,
         BankExpires, BankRefundDone, BankStep, RobotNext, RobotStarts, RobotCompletes, RobotFails,
         RobotCancels, RobotStep, CancelRetry, Shutdown, vars

\* a maker goes on until the order is on record
LEMMA MakerSteps ==
  ASSUME KeptFaults, KeptInv, [Next]_vars, NEW o \in Orders, NEW a \in Actors,
         Works(a, o, {"mkRead", "mkWrite"})
  PROVE  Works(a, o, {"mkRead", "mkWrite"})' \/ OnRecord(o)'
<1> TypeInv /\ KnownInv /\ CopiesOnRecord
  BY DEF KeptInv, KnownInv, MoneyInv
<1>0. cpy[a] \in Copy /\ cpy[a].ord = o /\ pc[a] \in {"mkRead", "mkWrite"} /\ row[o] \in Row
  BY DEF TypeInv, TypeOK, Works
<1>1. CASE pc'[a] = pc[a] /\ cpy'[a] = cpy[a]
  BY <1>1 DEF Works
<1>2. CASE MakeRead(a)
  <2>1. PICK c \in {Fresh(a), cpy[a]} :
          IF c.os \in Decided THEN Return(a) ELSE GoWith(a, "mkWrite", c)
    BY <1>2 DEF MakeRead
  <2>2. c.os = row[o].os \/ c.os = cpy[a].os
    BY <1>0 DEF Fresh, Copy
  <2>3. CASE c.os \in Decided
    <3>1. OnRecord(o)
      BY <1>0, <2>2, <2>3 DEF CopiesOnRecord, OnRecord, Decided
    <3> QED
      BY <3>1, RecordStays
  <2>4. CASE GoWith(a, "mkWrite", c)
    <3>1. c.ord = o
      BY <1>0, FreshOrd
    <3> QED
      BY <2>4, <3>1, GoWithStep DEF Works
  <2> QED
    BY <2>1, <2>3, <2>4
<1>3. CASE MakeWrite(a)
  <2>1. row' = [row EXCEPT ![o] = [row[o] EXCEPT !.os = "prepay"]]
    BY <1>0, <1>3 DEF MakeWrite, DbUpdate, Fault, KeptFaults, Lasting
  <2>2. row'[o].os = "prepay"
    BY <1>0, <2>1 DEF Row, TypeInv, TypeOK
  <2> QED
    BY <2>2 DEF OnRecord
<1> QED
  BY <1>0, <1>1, <1>2, <1>3, BusySteps
     DEF Away, SharedNext, DbUpdateOrderStatus, MakeSend, ImpossibleRead, ImpossibleWrite, CancelRead,
         CancelWrite, CancelAsk, CreateNext, CreateQR, InitPaySession, DbCreateOrder, GetQrCode,
         PollNext, PollGetState, PollReadRow, PollTimeout, PollStop

\* who credits a payment is a maker
LEMMA CreditSteps ==
  ASSUME KeptFaults, KeptInv, [Next]_vars, NEW o \in Orders, ~Credited(o), Credited(o)', Kept(o)
  PROVE  \E a \in Actors : Works(a, o, {"mkRead"})'
<1> TypeInv /\ KnownInv /\ Heard
  BY DEF KeptInv, KnownInv, MoneyInv
<1>0. row[o] \in Row
  BY DEF TypeInv, TypeOK
<1>1. PICK a \in Actors : /\ DbUpdateOrderStatus(a) /\ cpy[a].ord = o /\ cpy[a].bs # cpy[a].st
                          /\ row'[o] = Recorded(row[o], cpy[a])
  <2>1. row'[o] # [os |-> "start", bs |-> "New", credited |-> 0]
    BY QrAssumption DEF Credited
  <2>2. row'[o].credited # row[o].credited
    BY DEF Credited
  <2>3. \A os : row'[o] # [row[o] EXCEPT !.os = os]
    BY <1>0, <2>2 DEF Row
  <2> QED
    BY <2>1, <2>2, <2>3, RowChanges DEF RowChange
<1>2. cpy[a].st \notin Returned
  BY <1>1 DEF Heard, Since, Kept
<1>3. cpy[a].st = "Confirmed"
  <2>1. SUFFICES ASSUME cpy[a].st # "Confirmed" PROVE FALSE
    OBVIOUS
  <2>2. row'[o] = [row[o] EXCEPT !.bs = cpy[a].st]
    BY <1>1, <1>2, <2>1 DEF Recorded
  <2> QED
    BY <1>0, <2>2 DEF Credited, Row
<1>4. GoTo(a, "mkRead")
  <2>1. AfterUpdate(a, cpy[a], TRUE)
    BY <1>1 DEF DbUpdateOrderStatus
  <2> QED
    BY <1>3, <2>1 DEF AfterUpdate, Failed, Open
<1> QED
  BY <1>1, <1>4, GoWithStep DEF GoTo, Works

LEMMA HandedOverNext ==
  ASSUME KeptFaults, KeptInv, [Next]_vars
  PROVE  HandedOver'
<1> KnownInv /\ HandedOver
  BY DEF KeptInv
<1>1. ASSUME NEW o \in Orders, Credited(o)', Kept(o)'
      PROVE  OnRecord(o)' \/ \E a \in Actors : Works(a, o, {"mkRead", "mkWrite"})'
  <2>1. Kept(o)
    BY <1>1, KeptBefore
  <2>2. CASE Credited(o)
    BY <2>1, <2>2, RecordStays, MakerSteps DEF HandedOver
  <2>3. CASE ~Credited(o)
    BY <1>1, <2>1, <2>3, CreditSteps DEF Works
  <2> QED
    BY <2>2, <2>3
<1> QED
  BY <1>1 DEF HandedOver

\* a robot that was shown the code does not become one that was not
LEMMA RobotStays ==
  ASSUME KnownInv, [Next]_vars, NEW o \in Orders, robot[o] # "away"
  PROVE  robot'[o] # "away"
<1> TypeInv
  BY DEF KnownInv, MoneyInv
<1> USE DEF outside
<1>1. ASSUME NEW u \in Orders, NEW to \in {"offered", "making", "gone"},
             robot' = [robot EXCEPT ![u] = to]
      PROVE  robot'[o] # "away"
  BY <1>1 DEF TypeInv, TypeOK
<1> QED
  BY <1>1
     DEF Next, CreateNext, CreateQR, InitPaySession, DbCreateOrder, GetQrCode, PollNext, PollGetState,
         PollReadRow, PollTimeout, PollStop, SharedNext, DbUpdateOrderStatus, MakeRead, MakeWrite, MakeSend,
         ImpossibleRead, ImpossibleWrite, CancelRead, CancelWrite, CancelAsk,
         CancelRetry, Notify, Shutdown, Restart, vars, ReadNext, ReadExecutionStart, ReadComplete,
         ReadCancel, ReadFails, ReadMqtt,
         BankNext, BankFormShowed, BankAuthorizes, BankConfirms, BankRejects,
         BankExpires, BankRefundDone, BankStep, RobotNext, RobotStarts, RobotCompletes, RobotFails,
         RobotCancels, RobotStep

LEMMA ShownNext ==
  ASSUME KeptFaults, KeptInv, [Next]_vars
  PROVE  Shown'
<1> KnownInv /\ TypeInv /\ Shown
  BY DEF KeptInv, KnownInv, MoneyInv
<1>1. ASSUME NEW o \in Orders, bank'[o] \in {"FormShowed", "Authorizing", "Confirmed"}
      PROVE  robot'[o] # "away"
  <2>1. robot[o] # "away"
    BY <1>1, BankMoved DEF BankMove, Shown, Failed, Returned
  <2> QED
    BY <2>1, RobotStays
<1>2. ASSUME NEW o \in Orders, bank[o] # Unknown PROVE bank'[o] # Unknown
  BY <1>2, BankMoved DEF BankMove, Unknown, Failed, Returned
<1>3. ASSUME NEW o \in Orders, pc'[o] \notin {"idle", "init"} PROVE bank'[o] # Unknown
  <2>1. o \in Actors
    BY DEF Actors
  <2>2. CASE pc[o] \notin {"idle", "init"}
    BY <1>2, <2>2 DEF Shown
  <2>3. CASE pc[o] = "idle"
    <3>1. CopyStep(o) /\ CopyChange(o)
      BY <2>1, CopySteps, CopyChanges DEF KnownInv
    <3>2. pc'[o] = "stopped"
      BY <1>3, <2>3, <3>1 DEF CopyChange, Away
    <3>3. cpy'[o].ord # o
      BY <2>3, <3>1, <3>2, QrAssumption DEF CopyChange, Blank, Away
    <3> QED
      BY <2>3, <3>1, <3>2, <3>3 DEF CopyStep
  <2>4. CASE pc[o] = "init"
    <3>1. InitPaySession(o)
      BY <1>3, <2>1, <2>4, BusySteps
         DEF Away, SharedNext, DbUpdateOrderStatus, MakeRead, MakeWrite, MakeSend, ImpossibleRead,
             ImpossibleWrite, CancelRead, CancelWrite, CancelAsk, CreateNext, CreateQR, DbCreateOrder,
             GetQrCode, PollNext, PollGetState, PollReadRow, PollTimeout, PollStop
    <3>2. ~Return(o)
      BY <1>3, <2>1, GoWithStep DEF Return
    <3> QED
      BY <3>1, <3>2 DEF InitPaySession, Unknown, TypeInv, TypeOK
  <2> QED
    BY <2>2, <2>3, <2>4
<1>4. ASSUME NEW o \in Orders, Known(o)' PROVE bank'[o] # Unknown
  <2>1. Known(o) \/ pc'[o] = "getQr"
    BY <1>4, RowSteps DEF RowStep, Known
  <2> QED
    BY <1>2, <1>3, <2>1 DEF Shown
<1> QED
  BY <1>1, <1>3, <1>4 DEF Shown

LEMMA KeptNext ==
  ASSUME KeptFaults
  PROVE  KeptInv /\ [Next]_vars => KeptInv'
<1> SUFFICES ASSUME KeptInv, [Next]_vars PROVE KeptInv'
  OBVIOUS
<1>1. ~stopping /\ KnownInv
  BY DEF KeptInv
<1>2. ~stopping'
  <2> USE DEF outside
  <2>1. ~Shutdown
    BY DEF Shutdown, Fault, KeptFaults, Lasting
  <2> QED
    BY <1>1, <2>1
     DEF Next, CreateNext, CreateQR, InitPaySession, DbCreateOrder, GetQrCode, PollNext, PollGetState,
         PollReadRow, PollTimeout, PollStop, SharedNext, DbUpdateOrderStatus, MakeRead, MakeWrite, MakeSend,
         ImpossibleRead, ImpossibleWrite, CancelRead, CancelWrite, CancelAsk,
         CancelRetry, Notify, Restart, vars, ReadNext, ReadExecutionStart, ReadComplete,
         ReadCancel, ReadFails, ReadMqtt,
         BankNext, BankFormShowed, BankAuthorizes, BankConfirms, BankRejects,
         BankExpires, BankRefundDone, BankStep, RobotNext, RobotStarts, RobotCompletes, RobotFails,
         RobotCancels, RobotStep
<1> QED
  BY <1>1, <1>2, KnownNext, HeardNext, AmountsNext, CreditKeptNext, CopiesOnRecordNext,
     HandedOverNext, ShownNext DEF KeptInv

-----------------------------------------------------------------------------
\* who has heard that the bank took the money records it
LEMMA ConfirmedSteps ==
  ASSUME KeptFaults, KeptInv, [Next]_vars, NEW o \in Orders, Kept(o), NEW a \in Actors,
         Works(a, o, {"apply"}), cpy[a].st = "Confirmed"
  PROVE  (pc'[a] = pc[a] /\ cpy'[a] = cpy[a]) \/ Credited(o)'
<1> TypeInv /\ KnownInv /\ CreditKept /\ Amounts
  BY DEF KeptInv, KnownInv, MoneyInv
<1>0. cpy[a].ord = o /\ pc[a] = "apply" /\ row[o] \in Row
  BY DEF TypeInv, TypeOK, Works
<1>1. CASE DbUpdateOrderStatus(a)
  <2>1. CASE cpy[a].bs = "Confirmed"
    BY <1>0, <2>1, CreditStays DEF CreditKept
  <2>2. CASE cpy[a].bs # "Confirmed"
    <3>1. row' = [row EXCEPT ![o] = Recorded(row[o], cpy[a])]
      BY <1>0, <1>1, <2>2 DEF DbUpdateOrderStatus, DbUpdate, Fault, KeptFaults, Lasting
    <3>2. Recorded(row[o], cpy[a]) = [row[o] EXCEPT !.bs = cpy[a].st, !.credited = cpy[a].amt]
      BY DEF Recorded, Returned
    <3>3. row'[o] = [row[o] EXCEPT !.bs = cpy[a].st, !.credited = cpy[a].amt]
      BY <3>1, <3>2 DEF TypeInv, TypeOK
    <3>4. cpy[a].amt = Price
      BY <1>0 DEF Amounts, Returned
    <3> QED
      BY <1>0, <3>3, <3>4 DEF Credited, Row
  <2> QED
    BY <2>1, <2>2
<1> QED
  BY <1>0, <1>1, BusySteps
     DEF Away, SharedNext, MakeRead, MakeWrite, MakeSend, ImpossibleRead, ImpossibleWrite, CancelRead,
         CancelWrite, CancelAsk, CreateNext, CreateQR, InitPaySession, DbCreateOrder, GetQrCode,
         PollNext, PollGetState, PollReadRow, PollTimeout, PollStop

(* With the notification that a payment was confirmed: it is on its way,   *)
(* or a handler is about to record it.                                     *)
ConfirmationComes ==
  \A o \in Orders : bank[o] = "Confirmed" /\ ~Credited(o)
    => \/ <<o, "Confirmed">> \in notifs
       \/ \E a \in Actors : Works(a, o, {"apply"}) /\ cpy[a].st = "Confirmed"

\* a notification waits until a handler takes it
LEMMA NotifsGo ==
  ASSUME [Next]_vars, NEW o \in Orders, NEW s \in BankStates, <<o, s>> \in notifs
  PROVE  <<o, s>> \in notifs' \/ \E h \in Handlers : Notify(h, o, s)
<1> USE DEF outside
<1>1. CASE UNCHANGED notifs
  BY <1>1
<1>2. ASSUME NEW u \in Orders, NEW t, BankMoves(u, t) PROVE <<o, s>> \in notifs'
  BY <1>2 DEF BankMoves
<1>3. ASSUME NEW u \in Orders, BankNext(u) PROVE <<o, s>> \in notifs'
  BY <1>2, <1>3 DEF BankNext, BankFormShowed, BankAuthorizes, BankConfirms, BankRejects,
                    BankExpires, BankRefundDone, BankStep
<1>4. ASSUME NEW u, BankCancels(u) PROVE <<o, s>> \in notifs'
  BY <1>4 DEF BankCancels, BankMoves
<1>5. ASSUME NEW a \in Actors, CancelAsk(a) \/ \E u \in Orders : CancelRetry(a, u)
      PROVE  <<o, s>> \in notifs'
  BY <1>1, <1>4, <1>5 DEF CancelAsk, CancelAnswered, CancelFailed, CancelMismatched, CancelRetry,
                          BankRefuses
<1>6. ASSUME NEW a \in Actors, SharedNext(a), ~CancelAsk(a) PROVE UNCHANGED notifs
  BY <1>6 DEF SharedNext, DbUpdateOrderStatus, MakeRead, MakeWrite, MakeSend, ImpossibleRead,
              ImpossibleWrite, CancelRead, CancelWrite
<1>7. ASSUME NEW h \in Handlers, NEW u \in Orders, NEW t \in BankStates, Notify(h, u, t)
      PROVE  <<o, s>> \in notifs' \/ Notify(h, o, s)
  BY <1>7 DEF Notify
<1> QED
  BY <1>1, <1>3, <1>5, <1>6, <1>7
     DEF Next, CreateNext, CreateQR, InitPaySession, DbCreateOrder, GetQrCode, PollNext,
         PollGetState, PollReadRow, PollTimeout, PollStop, ReadNext, ReadExecutionStart,
         ReadComplete, ReadCancel, ReadFails, ReadMqtt, Shutdown, Restart, vars,
         RobotNext, RobotStarts, RobotCompletes, RobotFails, RobotCancels, RobotStep

LEMMA ConfirmationNext ==
  ASSUME KeptFaults, "dbRead" \notin FaultKinds, "Confirmed" \in Notified
  PROVE  KeptInv /\ ConfirmationComes /\ [Next]_vars => ConfirmationComes'
<1> SUFFICES ASSUME KeptInv, ConfirmationComes, [Next]_vars,
                    NEW o \in Orders, bank'[o] = "Confirmed", ~Credited(o)'
             PROVE  \/ <<o, "Confirmed">> \in notifs'
                    \/ \E a \in Actors : Works(a, o, {"apply"})' /\ cpy'[a].st = "Confirmed"
  BY DEF ConfirmationComes
<1> KnownInv /\ TypeInv /\ Shown /\ RobotsKnown
  BY DEF KeptInv, KnownInv, MoneyInv
<1>1. bank[o] = "Confirmed" \/ <<o, "Confirmed">> \in notifs'
  BY BankMoved DEF BankMove, Failed, Returned
<1>2. CASE bank[o] = "Confirmed"
  <2>1. Kept(o)
    BY <1>2 DEF Kept, Returned
  <2>2. ~Credited(o)
    BY <2>1, CreditStays
  <2>3. CASE <<o, "Confirmed">> \in notifs
    <3>1. "Confirmed" \in BankStates
      BY DEF BankStates
    <3>2. ASSUME NEW h \in Handlers, Notify(h, o, "Confirmed")
          PROVE  Works(h, o, {"apply"})' /\ cpy'[h].st = "Confirmed"
      <4>1. row[o].os # "none" /\ h \in Actors
        BY <1>2 DEF Shown, RobotsKnown, Known, Actors
      <4>2. GoWith(h, "apply", Loaded(o, "Confirmed"))
        BY <3>2, <4>1 DEF Notify, Fault
      <4> QED
        BY <4>1, <4>2, GoWithStep DEF Works, Loaded
    <3> QED
      BY <2>3, <3>1, <3>2, NotifsGo DEF Actors
  <2>4. ASSUME NEW a \in Actors, Works(a, o, {"apply"}), cpy[a].st = "Confirmed"
        PROVE  Works(a, o, {"apply"})' /\ cpy'[a].st = "Confirmed"
    BY <2>1, <2>4, ConfirmedSteps DEF Works
  <2> QED
    BY <1>2, <2>2, <2>3, <2>4 DEF ConfirmationComes
<1> QED
  BY <1>1, <1>2

\* a settled order has nobody left to credit it or to hand it over
LEMMA SettledBooks ==
  ASSUME KeptInv,
         \A o \in Orders : Settled(o) /\ bank[o] = "Confirmed" => Credited(o)
  PROVE  KeptMoneyIsOnTheBooks
<1> SUFFICES ASSUME NEW o \in Orders, Settled(o), bank[o] = "Confirmed"
             PROVE  row[o].credited = Price /\ row[o].os # "start"
  BY DEF KeptMoneyIsOnTheBooks
<1>1. Credited(o) /\ Kept(o)
  BY DEF Kept, Returned
<1>2. \A a \in Actors : ~Works(a, o, {"mkRead", "mkWrite"})
  BY DEF Settled, Works
<1> QED
  BY <1>1, <1>2 DEF KeptInv, HandedOver, OnRecord, Credited

(* When an order has settled and the bank kept the money, the row says so, *)
(* in whatever order polls, cancels and notifications interleave, and also *)
(* when calls of the bank fail and notifications come twice, if the bank   *)
(* notifies of confirmed payments and no access to the database fails.     *)
THEOREM KeptMoneyNotified ==
  ASSUME FaultKinds \subseteq {"bank", "dup"}, "Confirmed" \in Notified
  PROVE  Spec => []KeptMoneyIsOnTheBooks
<1>0. KeptFaults /\ "dbRead" \notin FaultKinds
  BY DEF KeptFaults, Lasting
<1>1. Init => KeptInv /\ ConfirmationComes
  BY KeptInit DEF Init, ConfirmationComes, Unknown
<1>2. (KeptInv /\ ConfirmationComes) /\ [Next]_vars => (KeptInv /\ ConfirmationComes)'
  BY <1>0, KeptNext, ConfirmationNext
<1>3. KeptInv /\ ConfirmationComes => KeptMoneyIsOnTheBooks
  <2> SUFFICES ASSUME KeptInv, ConfirmationComes,
                      NEW o \in Orders, Settled(o), bank[o] = "Confirmed"
               PROVE  Credited(o)
    BY SettledBooks
  <2>1. "Confirmed" \in BankStates
    BY DEF BankStates
  <2> QED
    BY <2>1 DEF ConfirmationComes, Settled, Works
<1> QED
  BY <1>1, <1>2, <1>3, PTL DEF Spec

-----------------------------------------------------------------------------
(* Without it: the poller asks the bank until it knows what became of the  *)
(* payment, and only leaves a payment that can still be made when somebody *)
(* has gone to cancel it.                                                  *)

PollHeard == \A o \in Orders : pc[o] \in {"read", "apply"} => cpy[o].st # Unknown

ImpossibleHeard == \A a \in Actors : pc[a] \in {"imRead", "imWrite"} => cpy[a].st \in Failed

\* the bank has it open, or has the money
Payable(o) == bank[o] \in Open \cup {"Confirmed"}

\* the row says os, or some copy does
Says(o, os) == row[o].os = os \/ \E a \in Actors : cpy[a].ord = o /\ cpy[a].os = os

Asked(o) == \E a \in Actors : Works(a, o, {"cnAsk"})

CancelAsked == \A o \in Orders : Payable(o) /\ Says(o, "cancel") => Asked(o)

\* somebody was told to make the order
Made(o) == \/ sent[o] > 0 \/ robot[o] = "making" \/ <<o, "complete">> \in rmsgs
           \/ Says(o, "complete")
           \/ \E a \in Actors : Works(a, o, MakeSteps)

MadeCredited == \A o \in Orders : Made(o) /\ Kept(o) => Credited(o)

Watched(o) ==
  \/ pc[o] \in {"select", "read", "cnRead"}
  \/ pc[o] = "apply" /\ cpy[o].st \in Open \cup {"Confirmed"}
  \/ \E a \in Actors : Works(a, o, {"cnWrite", "cnAsk"})

PollerWatches ==
  \A o \in Orders : robot[o] # "away" /\ Payable(o) /\ ~Credited(o) => Watched(o)

PollInv == /\ KeptInv /\ PollHeard /\ ImpossibleHeard /\ CancelAsked /\ MadeCredited
           /\ PollerWatches

LEMMA PollInit == Init => PollInv
<1> SUFFICES ASSUME Init PROVE PollInv
  OBVIOUS
<1>1. /\ \A a \in Actors : cpy[a] = Blank /\ pc[a] = "idle"
      /\ \A o \in Orders : /\ bank[o] = Unknown /\ row[o].os = "none" /\ sent[o] = 0
                           /\ robot[o] = "away" /\ o \in Actors
      /\ rmsgs = {}
  BY DEF Init, Actors
<1>2. \A a \in Actors : cpy[a].ord \notin Orders
  BY <1>1, QrAssumption DEF Blank
<1>3. PollHeard /\ ImpossibleHeard /\ CancelAsked /\ PollerWatches
  BY <1>1 DEF PollHeard, ImpossibleHeard, CancelAsked, PollerWatches, Payable, Open, Unknown
<1>4. \A o \in Orders : ~Made(o)
  <2> TAKE o \in Orders
  <2>1. ~(sent[o] > 0) /\ robot[o] # "making" /\ <<o, "complete">> \notin rmsgs
    BY <1>1
  <2>2. ~Says(o, "complete")
    BY <1>1, <1>2 DEF Says
  <2>3. \A a \in Actors : ~Works(a, o, MakeSteps)
    BY <1>1 DEF Works, MakeSteps
  <2> QED
    BY <2>1, <2>2, <2>3 DEF Made
<1> QED
  BY <1>3, <1>4, KeptInit DEF PollInv, MadeCredited

\* what a step does to what a goroutine has heard
LEMMA HearingNext ==
  ASSUME PollInv, [Next]_vars
  PROVE  PollHeard' /\ ImpossibleHeard'
<1> KeptInv /\ KnownInv /\ TypeInv /\ Shown /\ PollHeard /\ ImpossibleHeard
  BY DEF PollInv, KeptInv, KnownInv, MoneyInv
<1>0. Unknown \notin Failed \cup Returned
  BY DEF Unknown, Failed, Returned
<1>1. ASSUME NEW o \in Orders, pc'[o] \in {"read", "apply"} PROVE cpy'[o].st # Unknown
  <2>1. o \in Actors /\ cpy[o] \in Copy /\ CopyChange(o)
    BY CopyChanges DEF TypeInv, TypeOK, Actors
  <2>2. CASE pc'[o] = pc[o] /\ cpy'[o] = cpy[o]
    BY <1>1, <2>2 DEF PollHeard
  <2>3. CASE pc[o] = "read" /\ cpy'[o] \in {Fresh(o), cpy[o]}
    BY <2>1, <2>3 DEF PollHeard, Fresh, Copy
  <2>4. CASE pc[o] = "select" /\ cpy'[o] = [cpy[o] EXCEPT !.st = bank[o]]
    BY <2>1, <2>4 DEF Shown, Copy
  <2>5. CASE /\ bank'[cpy[o].ord] \in Returned
             /\ cpy'[o] = [cpy[o] EXCEPT !.amt = 0, !.st = bank'[cpy[o].ord]]
    BY <1>0, <2>1, <2>5 DEF Copy
  <2> QED
    BY <1>1, <2>1, <2>2, <2>3, <2>4, <2>5 DEF CopyChange, Away
<1>2. ASSUME NEW a \in Actors, pc'[a] \in {"imRead", "imWrite"} PROVE cpy'[a].st \in Failed
  <2>1. cpy[a] \in Copy /\ CopyChange(a)
    BY CopyChanges DEF TypeInv, TypeOK
  <2>2. CASE pc'[a] = pc[a] /\ cpy'[a] = cpy[a]
    BY <1>2, <2>2 DEF ImpossibleHeard
  <2>3. CASE cpy'[a] \in {Fresh(a), cpy[a]} /\ (pc[a] = "imRead" \/ cpy[a].st \in Failed)
    BY <2>1, <2>3 DEF ImpossibleHeard, Fresh, Copy
  <2> QED
    BY <1>2, <2>1, <2>2, <2>3 DEF CopyChange, Away
<1> QED
  BY <1>1, <1>2 DEF PollHeard, ImpossibleHeard

\* a payment is payable only from when it is opened
LEMMA PayableBefore ==
  ASSUME KnownInv, [Next]_vars, NEW o \in Orders, Payable(o)'
  PROVE  Payable(o) \/ (pc[o] = "init" /\ UNCHANGED row)
  BY BankMoved DEF BankMove, Payable, Open, Failed, Returned

\* as long as the bank answers, who asks it to cancel a payment is not refused
LEMMA AskerSteps ==
  ASSUME KeptFaults, "bank" \notin FaultKinds, KeptInv, [Next]_vars, NEW o \in Orders,
         Payable(o)', NEW a \in Actors, Works(a, o, {"cnAsk"})
  PROVE  Works(a, o, {"cnAsk"})'
<1> KnownInv /\ TypeInv /\ WorkKnown
  BY DEF KeptInv, KnownInv, MoneyInv
<1>0. cpy[a].ord = o /\ pc[a] = "cnAsk"
  BY DEF Works
<1>1. Payable(o)
  <2>1. pc[o] # "init"
    BY <1>0 DEF WorkKnown, Early, Away
  <2> QED
    BY <2>1, PayableBefore
<1>2. ~CancelAsk(a)
  <2>1. ASSUME BankCancels(o) PROVE FALSE
    BY <2>1, BankCancelsType DEF Payable, Open, Returned
  <2>2. ~BankRefuses(o)
    BY <1>1 DEF BankRefuses, CancelTo, Payable, Open
  <2> QED
    BY <1>0, <2>1, <2>2 DEF CancelAsk, CancelAnswered, CancelFailed, CancelMismatched, Fault
<1> QED
  BY <1>0, <1>2, BusySteps
     DEF Works, Away, SharedNext, DbUpdateOrderStatus, MakeRead, MakeWrite, MakeSend, ImpossibleRead,
         ImpossibleWrite, CancelRead, CancelWrite, CreateNext, CreateQR, InitPaySession,
         DbCreateOrder, GetQrCode, PollNext, PollGetState, PollReadRow, PollTimeout, PollStop

LEMMA SaysBefore ==
  ASSUME KnownInv, [Next]_vars, NEW o \in Orders, NEW os \in {"complete", "cancel"},
         Says(o, os)'
  PROVE  Says(o, os) \/ row'[o].os = os
<1>1. ASSUME NEW a \in Actors, cpy'[a].ord = o, cpy'[a].os = os PROVE Says(o, os)
  <2>1. CopyNow(a)
    BY <1>1, CopiesNow
  <2> QED
    BY <1>1, <2>1 DEF CopyNow, Says
<1> QED
  BY <1>1 DEF Says

LEMMA CancelAskedNext ==
  ASSUME KeptFaults, "bank" \notin FaultKinds, PollInv, [Next]_vars
  PROVE  CancelAsked'
<1> KeptInv /\ KnownInv /\ TypeInv /\ WorkKnown /\ Heard /\ ImpossibleHeard /\ CancelAsked
  BY DEF PollInv, KeptInv, KnownInv, MoneyInv
<1> SUFFICES ASSUME NEW o \in Orders, Payable(o)', Says(o, "cancel")'
             PROVE  Asked(o)'
  BY DEF CancelAsked
<1>1. OnRecord(o)'
  BY KeptNext DEF KeptInv, CopiesOnRecord, Says, OnRecord
<1>2. Payable(o)
  <2>1. CASE pc[o] = "init" /\ UNCHANGED row
    BY <1>1, <2>1 DEF WorkKnown, Early, Known, OnRecord
  <2> QED
    BY <2>1, PayableBefore
<1>3. Says(o, "cancel") => Asked(o)'
  BY <1>2, AskerSteps DEF CancelAsked, Asked
<1>4. CASE row'[o].os = "cancel"
  <2>0. row[o] \in Row
    BY DEF TypeInv, TypeOK
  <2>1. ASSUME NEW a \in Actors, Works(a, o, {"imWrite"}) PROVE FALSE
    <3>1. Since(cpy[a].st, bank[o]) /\ cpy[a].st \in Failed
      BY <2>1 DEF Works, Heard, ImpossibleHeard
    <3> QED
      BY <1>2, <3>1 DEF Since, Payable, Open, Failed
  <2>2. CASE row'[o].os = row[o].os
    BY <1>3, <1>4, <2>2 DEF Says
  <2>3. ASSUME NEW a \in Actors, row'[o] = Recorded(row[o], cpy[a]) PROVE row'[o].os = row[o].os
    BY <2>0, <2>3 DEF Recorded, Row
  <2>4. CASE \E a \in Actors : Works(a, o, {"imWrite"}) \/ Works(a, o, {"cnAsk"})'
    BY <2>1, <2>4 DEF Asked
  <2>5. CASE row'[o] = [os |-> "start", bs |-> "New", credited |-> 0]
    BY <1>4, <2>5
  <2> QED
    BY <1>4, <2>2, <2>3, <2>4, <2>5, RowChanges DEF RowChange
<1> QED
  BY <1>3, <1>4, SaysBefore

\* a robot makes what it was told to
LEMMA RobotMakes ==
  ASSUME KnownInv, [Next]_vars, NEW o \in Orders
  PROVE  /\ robot'[o] = "making" => robot[o] = "making" \/ sent[o] > 0
         /\ <<o, "complete">> \in rmsgs' => <<o, "complete">> \in rmsgs \/ robot[o] = "making"
<1> DEFINE Goal == /\ robot'[o] = "making" => robot[o] = "making" \/ sent[o] > 0
                   /\ <<o, "complete">> \in rmsgs'
                        => <<o, "complete">> \in rmsgs \/ robot[o] = "making"
<1> TypeInv
  BY DEF KnownInv, MoneyInv
<1> USE DEF outside
<1>1. CASE UNCHANGED robot /\ rmsgs' \subseteq rmsgs
  BY <1>1
<1>2. ASSUME NEW u \in Orders, RobotNext(u) PROVE Goal
  BY <1>2 DEF RobotNext, RobotStarts, RobotCompletes, RobotFails, RobotCancels, RobotStep,
              TypeInv, TypeOK
<1>3. ASSUME NEW u \in Orders, GetQrCode(u) PROVE Goal
  BY <1>3 DEF GetQrCode, TypeInv, TypeOK
<1> QED
  BY <1>1, <1>2, <1>3
     DEF Next, CreateNext, CreateQR, InitPaySession, DbCreateOrder, PollNext, PollGetState,
         PollReadRow, PollTimeout, PollStop, SharedNext, DbUpdateOrderStatus, MakeRead, MakeWrite,
         MakeSend, ImpossibleRead, ImpossibleWrite, CancelRead, CancelWrite, CancelAsk,
         CancelRetry, Notify, Shutdown, Restart, vars, ReadNext, ReadExecutionStart, ReadComplete,
         ReadCancel, ReadFails, ReadMqtt,
         BankNext, BankFormShowed, BankAuthorizes, BankConfirms, BankRejects,
         BankExpires, BankRefundDone, BankStep

LEMMA MadeNext ==
  ASSUME KeptFaults, PollInv, [Next]_vars
  PROVE  MadeCredited'
<1> KeptInv /\ KnownInv /\ TypeInv /\ MadeCredited
  BY DEF PollInv, KeptInv, KnownInv, MoneyInv
<1> SUFFICES ASSUME NEW o \in Orders, Made(o)', Kept(o)'
             PROVE  Credited(o)'
  BY DEF MadeCredited
<1>1. Kept(o)
  BY KeptBefore
<1>2. Made(o) => Credited(o)'
  BY <1>1, CreditStays DEF MadeCredited
<1>3. CASE sent'[o] > 0
  <2>1. CASE sent'[o] = sent[o]
    BY <1>2, <1>3, <2>1 DEF Made
  <2>2. CASE Making(o)
    BY <1>2, <2>2 DEF Making, Made, Works, MakeSteps
  <2> QED
    BY <2>1, <2>2, DecidedSent
<1>4. CASE robot'[o] = "making" \/ <<o, "complete">> \in rmsgs'
  BY <1>2, <1>4, RobotMakes DEF Made
<1>5. CASE Says(o, "complete")'
  <2>0. row[o] \in Row
    BY DEF TypeInv, TypeOK
  <2>1. CASE row'[o].os = row[o].os
    BY <1>2, <1>5, <2>1, SaysBefore DEF Made, Says
  <2>2. ASSUME NEW a \in Actors, row'[o] = Recorded(row[o], cpy[a]) PROVE row'[o].os = row[o].os
    BY <2>0, <2>2 DEF Recorded, Row
  <2>3. CASE row'[o].os # "complete"
    BY <1>2, <1>5, <2>3, SaysBefore DEF Made
  <2> QED
    BY <1>2, <2>1, <2>2, <2>3, RowChanges DEF RowChange, Made
<1>6. ASSUME NEW a \in Actors, Works(a, o, MakeSteps)' PROVE Credited(o)'
  <2>0. CopyChange(a) /\ pc'[a] \in MakeSteps /\ cpy'[a].ord = o /\ cpy[a] \in Copy
    BY <1>6, CopyChanges DEF Works, TypeInv, TypeOK
  <2>1. \/ Works(a, o, MakeSteps)
        \/ Works(a, o, {"apply"}) /\ cpy[a].st = "Confirmed"
    BY <2>0, FreshOrd DEF CopyChange, Works, MakeSteps, Away, DbUpdateOrderStatus
  <2>2. CASE Works(a, o, MakeSteps)
    BY <1>2, <2>2 DEF Made
  <2>3. CASE Works(a, o, {"apply"}) /\ cpy[a].st = "Confirmed"
    BY <1>1, <2>0, <2>3, ConfirmedSteps DEF Works, MakeSteps
  <2> QED
    BY <2>1, <2>2, <2>3
<1> QED
  BY <1>3, <1>4, <1>5, <1>6 DEF Made

\* the poller's own step, while the payment can still be made
LEMMA PollerSteps ==
  ASSUME KeptFaults, "bank" \notin FaultKinds, PollInv, [Next]_vars, NEW o \in Orders,
         Payable(o), Payable(o)', ~Credited(o), ~Credited(o)',
         \/ pc[o] \in {"select", "read", "cnRead"}
         \/ pc[o] = "apply" /\ cpy[o].st \in Open \cup {"Confirmed"}
  PROVE  Watched(o)'
<1> /\ KeptInv /\ KnownInv /\ TypeInv /\ OwnOrder /\ Heard /\ ~stopping /\ PollHeard
    /\ CancelAsked /\ MadeCredited
  BY DEF PollInv, KeptInv, KnownInv, MoneyInv
<1> USE DEF outside
<1>0. /\ o \in Actors /\ cpy[o] \in Copy /\ cpy[o].ord = o /\ pc[o] \notin Away /\ Kept(o)
  BY DEF TypeInv, TypeOK, OwnOrder, Actors, Away, Payable, Kept, Open, Returned
<1>1. CASE pc'[o] = pc[o] /\ cpy'[o] = cpy[o]
  BY <1>1 DEF Watched
<1>2. CASE PollGetState(o)
  BY <1>0, <1>2, GoWithStep DEF PollGetState, GoTo, Watched
<1>3. CASE PollTimeout(o)
  BY <1>0, <1>3, GoWithStep DEF PollTimeout, GoTo, Watched
<1>4. CASE PollReadRow(o)
  <2>1. pc[o] = "read" /\ \E c \in {Fresh(o), cpy[o]} : GoWith(o, "apply", c)
    BY <1>4 DEF PollReadRow
  <2>2. cpy[o].st \in Open \cup {"Confirmed"}
    <3>1. cpy[o].st \in BankStates \cup {Unknown} /\ cpy[o].st # Unknown /\ Since(cpy[o].st, bank[o])
      BY <1>0, <2>1 DEF Copy, PollHeard, Heard
    <3> QED
      BY <3>1 DEF Since, Payable, BankStates, Open, Failed, Returned
  <2>3. pc'[o] = "apply" /\ cpy'[o] \in {Fresh(o), cpy[o]}
    BY <1>0, <2>1, GoWithStep
  <2>4. cpy'[o].st = cpy[o].st
    BY <1>0, <2>3 DEF Fresh, Copy
  <2> QED
    BY <2>2, <2>3, <2>4 DEF Watched
<1>5. CASE DbUpdateOrderStatus(o)
  <2>1. cpy[o].st \in Open \cup {"Confirmed"} /\ pc[o] = "apply"
    BY <1>5 DEF DbUpdateOrderStatus
  <2>2. CASE cpy[o].st = "Confirmed"
    BY <1>0, <1>1, <2>1, <2>2, ConfirmedSteps DEF Works
  <2>3. CASE cpy[o].st \in Open
    <3>1. GoTo(o, "select")
      BY <1>5, <2>3 DEF DbUpdateOrderStatus, AfterUpdate, Open, Failed
    <3> QED
      BY <1>0, <3>1, GoWithStep DEF GoTo, Watched
  <2> QED
    BY <2>1, <2>2, <2>3
<1>6. CASE CancelRead(o)
  <2>1. PICK c \in {Fresh(o), cpy[o]} :
          IF c.os \in {"complete", "cancel"} THEN Return(o) ELSE GoWith(o, "cnWrite", c)
    BY <1>6 DEF CancelRead
  <2>2. Says(o, c.os) /\ c.ord = o
    BY <1>0 DEF Says, Fresh, Copy
  <2>3. CASE c.os = "complete"
    BY <1>0, <2>2, <2>3 DEF MadeCredited, Made
  <2>4. CASE c.os = "cancel"
    <3>1. PICK a \in Actors : Works(a, o, {"cnAsk"})
      BY <2>2, <2>4 DEF CancelAsked, Asked
    <3>2. Works(a, o, {"cnAsk"})'
      BY <3>1, AskerSteps
    <3> QED
      BY <3>2 DEF Works, Watched
  <2>5. CASE GoWith(o, "cnWrite", c)
    <3>1. pc'[o] = "cnWrite" /\ cpy'[o].ord = o
      BY <1>0, <2>2, <2>5, GoWithStep
    <3> QED
      BY <1>0, <3>1 DEF Works, Watched
  <2> QED
    BY <2>1, <2>3, <2>4, <2>5
<1> QED
  BY <1>0, <1>1, <1>2, <1>3, <1>4, <1>5, <1>6, BusySteps
     DEF SharedNext, MakeRead, MakeWrite, MakeSend, ImpossibleRead, ImpossibleWrite, CancelWrite,
         CancelAsk, CreateNext, CreateQR, InitPaySession, DbCreateOrder, GetQrCode, PollNext, PollStop

\* who cancels goes on until the bank has been asked
LEMMA CancellerSteps ==
  ASSUME KeptFaults, "bank" \notin FaultKinds, PollInv, [Next]_vars, NEW o \in Orders,
         Payable(o)', NEW a \in Actors, Works(a, o, {"cnWrite", "cnAsk"})
  PROVE  Works(a, o, {"cnWrite", "cnAsk"})'
<1> KeptInv /\ TypeInv
  BY DEF PollInv, KeptInv, KnownInv, MoneyInv
<1>1. CASE Works(a, o, {"cnAsk"})
  BY <1>1, AskerSteps DEF Works
<1>2. CASE pc[a] = "cnWrite" /\ cpy[a].ord = o
  <2>1. CASE CancelWrite(a)
    BY <1>2, <2>1, GoWithStep DEF CancelWrite, GoTo, Works
  <2> QED
    BY <1>2, <2>1, BusySteps
       DEF Works, Away, SharedNext, DbUpdateOrderStatus, MakeRead, MakeWrite, MakeSend, ImpossibleRead,
           ImpossibleWrite, CancelRead, CancelAsk, CreateNext, CreateQR, InitPaySession,
           DbCreateOrder, GetQrCode, PollNext, PollGetState, PollReadRow, PollTimeout, PollStop
<1> QED
  BY <1>1, <1>2 DEF Works

\* a robot is shown the code by the goroutine that then polls the bank
LEMMA OfferSteps ==
  ASSUME KnownInv, [Next]_vars, NEW o \in Orders, robot[o] = "away", robot'[o] # "away"
  PROVE  pc'[o] = "select"
<1> TypeInv
  BY DEF KnownInv, MoneyInv
<1> USE DEF outside
<1>1. CASE UNCHANGED robot
  BY <1>1
<1>2. ASSUME NEW u \in Orders, RobotNext(u) PROVE FALSE
  BY <1>2 DEF RobotNext, RobotStarts, RobotCompletes, RobotFails, RobotCancels, RobotStep,
              TypeInv, TypeOK
<1>3. ASSUME NEW u \in Orders, GetQrCode(u) PROVE pc'[o] = "select"
  <2>1. GoTo(u, "select") /\ u = o
    BY <1>3 DEF GetQrCode, TypeInv, TypeOK
  <2> QED
    BY <2>1, GoWithStep DEF GoTo, Actors
<1> QED
  BY <1>1, <1>2, <1>3
     DEF Next, CreateNext, CreateQR, InitPaySession, DbCreateOrder, PollNext, PollGetState,
         PollReadRow, PollTimeout, PollStop, SharedNext, DbUpdateOrderStatus, MakeRead, MakeWrite,
         MakeSend, ImpossibleRead, ImpossibleWrite, CancelRead, CancelWrite, CancelAsk,
         CancelRetry, Notify, Shutdown, Restart, vars, ReadNext, ReadExecutionStart, ReadComplete,
         ReadCancel, ReadFails, ReadMqtt,
         BankNext, BankFormShowed, BankAuthorizes, BankConfirms, BankRejects,
         BankExpires, BankRefundDone, BankStep

LEMMA PollerWatchesNext ==
  ASSUME KeptFaults, "bank" \notin FaultKinds, PollInv, [Next]_vars
  PROVE  PollerWatches'
<1> KeptInv /\ KnownInv /\ TypeInv /\ WorkKnown /\ RobotsKnown /\ PollerWatches
  BY DEF PollInv, KeptInv, KnownInv, MoneyInv
<1> SUFFICES ASSUME NEW o \in Orders, robot'[o] # "away", Payable(o)', ~Credited(o)'
             PROVE  Watched(o)'
  BY DEF PollerWatches
<1>1. CASE robot[o] = "away"
  BY <1>1, OfferSteps DEF Watched
<1>2. CASE robot[o] # "away"
  <2>1. Payable(o)
    BY <1>2, PayableBefore DEF RobotsKnown, WorkKnown, Early
  <2>2. ~Credited(o)
    BY <2>1, CreditStays DEF Kept, Payable, Open, Returned
  <2>3. CASE \E a \in Actors : Works(a, o, {"cnWrite", "cnAsk"})
    BY <2>3, CancellerSteps DEF Watched
  <2> QED
    BY <1>2, <2>1, <2>2, <2>3, PollerSteps DEF PollerWatches, Watched
<1> QED
  BY <1>1, <1>2

(* The same without notifications, whichever the bank sends: when no call  *)
(* of the bank fails, what the bank took is recorded or was cancelled by   *)
(* the poller alone, whose stale copies and reads that fail do no harm.    *)
THEOREM KeptMoneyPolled ==
  ASSUME FaultKinds \subseteq {"dbRead", "dup"}
  PROVE  Spec => []KeptMoneyIsOnTheBooks
<1>0. KeptFaults /\ "bank" \notin FaultKinds
  BY DEF KeptFaults, Lasting
<1>1. PollInv /\ [Next]_vars => PollInv'
  <2> SUFFICES ASSUME PollInv, [Next]_vars PROVE PollInv'
    OBVIOUS
  <2>1. KeptInv'
    BY <1>0, KeptNext DEF PollInv
  <2> QED
    BY <1>0, <2>1, HearingNext, CancelAskedNext, MadeNext, PollerWatchesNext DEF PollInv
<1>2. PollInv => KeptMoneyIsOnTheBooks
  <2> SUFFICES ASSUME PollInv, NEW o \in Orders, Settled(o), bank[o] = "Confirmed"
               PROVE  Credited(o)
    BY SettledBooks DEF PollInv
  <2>1. KeptInv /\ PollerWatches /\ Shown /\ OwnOrder
    BY DEF PollInv, KeptInv, KnownInv, MoneyInv
  <2>2. ~Watched(o)
    BY <2>1 DEF Settled, Watched, Works, OwnOrder, Actors
  <2> QED
    BY <2>1, <2>2 DEF PollerWatches, Payable, Shown
<1> QED
  BY <1>1, <1>2, PollInit, PTL DEF Spec

=============================================================================
