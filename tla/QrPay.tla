------------------------------- MODULE QrPay -------------------------------
(***************************************************************************)
(* The cashless QR payments of venderctl (cmd/venderctl/tax/               *)
(* cashless_tinkoff).  One row of the table cashless per order is shared,  *)
(* without locks or transactions, by four kinds of goroutine:              *)
(*                                                                         *)
(*   - createQR and then manualyPaymentVerification, one per order: the    *)
(*     goroutine that opens the payment and polls the bank is named by the *)
(*     order itself;                                                       *)
(*   - readerMqtt, one: applies what robots say of their orders;           *)
(*   - the HTTP handlers of the bank's notifications, any number;          *)
(*   - the second attempt of a cancel that failed, 30 seconds later.       *)
(*                                                                         *)
(* Each keeps a qrOrder, a copy of the row that goes stale.  Every SELECT, *)
(* UPDATE and call of the bank is a step of its own, so that everything    *)
(* another goroutine can do in between happens in between.                 *)
(*                                                                         *)
(* The bank and the robots are external: they appear as what this code     *)
(* can observe of them.  Amounts are Price or 0: o.Credited only chooses   *)
(* between the two ways the bank's Cancel has of saying "all of it", and   *)
(* is left out.                                                            *)
(***************************************************************************)
EXTENDS Integers

CONSTANTS
  Orders,      \* payments, and the goroutines that create and poll them
  Handlers,    \* goroutines that serve bank notifications
  Reader,      \* the goroutine readerMqtt
  None,        \* no order
  Price,       \* the amount of every order
  RobotSays,   \* what the robots of an instance may report
  Notified,    \* the statuses the bank sends notifications of
  FaultKinds,  \* which faults may happen
  MaxFaults    \* and how many of them

RobotWords == {"executionStart", "complete", "orderError", "cancel"}
AllFaults  == {"bank", "dbRead", "dbWrite", "dup", "stop", "crash"}

VARIABLES
  row,       \* the table cashless: order state, bank state, credited amount
  pc,        \* where each goroutine is; "idle" before and after its work
  cpy,       \* its qrOrder, with the bank status it is about to record
  retry,     \* second attempts of a cancel that are waiting
  stopping,  \* Alive.Stop was called
  bank,      \* the bank's own status of each payment
  notifs,    \* notifications the bank has not delivered yet
  robot,     \* what the robot is doing with the order
  rmsgs,     \* what the robots have said and readerMqtt has not read
  sent,      \* how often makeOrder was sent to the robot
  faults     \* how many faults so far, and whether one of them was lasting

vars == <<row, pc, cpy, retry, stopping, bank, notifs, robot, rmsgs, sent, faults>>
outside == <<bank, notifs, robot, rmsgs>>

Actors == Orders \cup Handlers \cup {Reader}

-----------------------------------------------------------------------------
(* order_state and bank_order_state *)

OrderStates == {"none", "start", "prepay", "execute", "complete", "cancel"}

\* o.Order_state > order_prepay
Decided == {"execute", "complete", "cancel"}

\* AuthFail behaves like Rejected, Authorized and Confirming like Authorizing
Failed    == {"Rejected", "Expired"}
Returned  == {"Canceled", "QRRefunding", "Refunded"}
Open      == {"New", "FormShowed", "Authorizing"}
BankStates == Open \cup Failed \cup Returned \cup {"Confirmed"}

\* index 0: what a fresh qrOrder holds before the row is read, and what is
\* known of a payment before the bank has opened it
Unknown == "unknown"

PCs == {"idle", "stopped",
        "init", "insert", "getQr", "select", "read",
        "apply",
        "mkRead", "mkWrite", "mkSend",
        "imRead", "imWrite",
        "cnRead", "cnWrite", "cnAsk"}

Row  == [os : OrderStates, bs : BankStates \cup {Unknown}, credited : Int]
Copy == [ord : Orders \cup {None}, os : OrderStates,
         bs : BankStates \cup {Unknown}, amt : {0, Price},
         st : BankStates \cup {Unknown}]

Blank == [ord |-> None, os |-> "none", bs |-> Unknown, amt |-> 0, st |-> Unknown]

RobotStates == {"away", "offered", "making", "gone"}

ASSUME QrAssumption ==
  /\ None \notin Orders /\ Reader \notin Orders \cup Handlers
  /\ Orders \cap Handlers = {}
  /\ Price \in Nat \ {0}
  /\ RobotSays \subseteq RobotWords
  /\ Notified \subseteq BankStates \ {"New", "FormShowed"}
  /\ FaultKinds \subseteq AllFaults
  /\ MaxFaults \in Nat

-----------------------------------------------------------------------------
(* Goroutines, faults and the database *)

GoWith(a, p, c) == /\ pc' = [pc EXCEPT ![a] = p]
                   /\ cpy' = [cpy EXCEPT ![a] = c]

GoTo(a, p) == GoWith(a, p, cpy[a])

Return(a) == GoWith(a, "idle", Blank)

\* nobody repairs these: what a process knew is gone, or a row is stale
Lasting == {"dbWrite", "stop", "crash"}

Faults == [n : Nat, lasting : BOOLEAN]

Fault(kind) == /\ kind \in FaultKinds
               /\ faults.n < MaxFaults
               /\ faults' = [n |-> faults.n + 1, lasting |-> faults.lasting \/ kind \in Lasting]

\* dbUpdate: an error is written to the log and otherwise ignored
DbUpdate(o, r) == \/ row' = [row EXCEPT ![o] = r] /\ UNCHANGED faults
                  \/ UNCHANGED row /\ Fault("dbWrite")

\* dbGetOrderStatus: refreshes two columns of the copy; the callers do not
\* look at its result, so after an error they go on with the stale copy
Fresh(a) == [cpy[a] EXCEPT !.os = row[cpy[a].ord].os, !.bs = row[cpy[a].ord].bs]

DbGetOrderStatus(a, c) == \/ c = Fresh(a) /\ UNCHANGED faults
                          \/ c = cpy[a] /\ Fault("dbRead")

\* dbGetOrderByOwner: a whole copy of the row, to record the status s
Loaded(o, s) == [ord |-> o, os |-> row[o].os, bs |-> row[o].bs, amt |-> Price, st |-> s]

-----------------------------------------------------------------------------
(* The bank, external: what one of its payments may do on its own, and what *)
(* a Cancel does to it.                                                    *)

BankMoves(o, s) == /\ bank' = [bank EXCEPT ![o] = s]
                   /\ notifs' = notifs \cup ({<<o, s>>} \cap (Orders \X Notified))

BankStep(o, from, to) == /\ bank[o] \in from
                         /\ BankMoves(o, to)
                         /\ UNCHANGED <<row, pc, cpy, retry, stopping, robot, rmsgs, sent, faults>>

\* the customer scans the code the robot shows, and pays
BankFormShowed(o)  == robot[o] = "offered" /\ BankStep(o, {"New"}, "FormShowed")
BankAuthorizes(o)  == BankStep(o, {"FormShowed"}, "Authorizing")
BankConfirms(o)    == BankStep(o, {"Authorizing"}, "Confirmed")
BankRejects(o)     == BankStep(o, {"Authorizing"}, "Rejected")
BankRefundDone(o)  == BankStep(o, {"QRRefunding"}, "Refunded")

\* RedirectDueDate is minutes away, the INSERT takes seconds
BankExpires(o)     == pc[o] # "insert" /\ BankStep(o, {"New", "FormShowed"}, "Expired")

CancelTo(s) == CASE s \in Open -> {"Canceled"}
                 [] s = "Confirmed" -> {"QRRefunding", "Refunded"}
                 [] OTHER -> {}

BankCancels(o) == \E s \in CancelTo(bank[o]) : BankMoves(o, s)
BankRefuses(o) == CancelTo(bank[o]) = {} /\ UNCHANGED <<bank, notifs>>

\* the bank has taken the customer's money, whatever became of it later
Taken == {"Confirmed", "QRRefunding", "Refunded"}
Paid(o) == bank[o] \in Taken

-----------------------------------------------------------------------------
(* The robots, external.  A lost message is one that is never read.        *)

RobotStep(o, from, to, word) ==
  /\ robot[o] = from
  /\ word \in RobotSays
  /\ robot' = [robot EXCEPT ![o] = to]
  /\ rmsgs' = rmsgs \cup {<<o, word>>}
  /\ UNCHANGED <<row, pc, cpy, retry, stopping, bank, notifs, sent, faults>>

RobotStarts(o)    == sent[o] > 0 /\ RobotStep(o, "offered", "making", "executionStart")
RobotCompletes(o) == RobotStep(o, "making", "gone", "complete")
RobotFails(o)     == RobotStep(o, "making", "gone", "orderError")
RobotCancels(o)   == RobotStep(o, "offered", "gone", "cancel")

-----------------------------------------------------------------------------
(* createQR *)

\* readerMqtt starts createQR for a robot that waits for an external payment
CreateQR(o) ==
  /\ pc[Reader] = "idle"
  /\ pc[o] = "idle" /\ row[o].os = "none" /\ bank[o] = Unknown
  /\ GoWith(o, "init", [ord |-> o, os |-> "start", bs |-> Unknown, amt |-> Price, st |-> Unknown])
  /\ UNCHANGED <<row, retry, stopping, outside, sent, faults>>

\* three attempts have failed, or the answer is not a new payment: no row
InitPaySession(o) ==
  /\ pc[o] = "init"
  /\ \/ bank' = [bank EXCEPT ![o] = "New"] /\ GoTo(o, "insert") /\ UNCHANGED faults
     \/ bank' \in {bank, [bank EXCEPT ![o] = "New"]} /\ Return(o) /\ Fault("bank")
  /\ UNCHANGED <<row, retry, stopping, notifs, robot, rmsgs, sent>>

\* mutant: the order is inserted without its state
DbCreateOrder_NoState(o) ==
  /\ pc[o] = "insert"
  /\ row' = [row EXCEPT ![o] = [os |-> "invalid", bs |-> "New", credited |-> 0]]
  /\ GoTo(o, "getQr")
  /\ UNCHANGED <<retry, stopping, outside, sent, faults>>

DbCreateOrder(o) ==
  /\ pc[o] = "insert"
  /\ \/ /\ row' = [row EXCEPT ![o] = [os |-> "start", bs |-> "New", credited |-> 0]]
        /\ GoTo(o, "getQr")
        /\ UNCHANGED faults
     \/ UNCHANGED row /\ Return(o) /\ Fault("dbWrite")
  /\ UNCHANGED <<retry, stopping, outside, sent>>

\* the robot is shown the code and the poller starts; or the robot is shown
\* an error, and the row stays behind without a poller
GetQrCode(o) ==
  /\ pc[o] = "getQr"
  /\ \/ GoTo(o, "select") /\ robot' = [robot EXCEPT ![o] = "offered"] /\ UNCHANGED faults
     \/ Return(o) /\ Fault("bank") /\ UNCHANGED robot
  /\ UNCHANGED <<row, retry, stopping, bank, notifs, rmsgs, sent>>

-----------------------------------------------------------------------------
(* manualyPaymentVerification: the select loop *)

\* GetState; an error or a mismatched answer leaves the loop as it was
PollGetState(o) ==
  /\ pc[o] = "select"
  /\ \/ GoWith(o, "read", [cpy[o] EXCEPT !.st = bank[o]]) /\ UNCHANGED faults
     \/ GoTo(o, "select") /\ Fault("bank")
  /\ UNCHANGED <<row, retry, stopping, outside, sent>>

PollReadRow(o) ==
  /\ pc[o] = "read"
  /\ \E c \in {Fresh(o), cpy[o]} : DbGetOrderStatus(o, c) /\ GoWith(o, "apply", c)
  /\ UNCHANGED <<row, retry, stopping, outside, sent>>

\* mutant: the timeout only ends the poller
PollTimeout_NoCancel(o) ==
  /\ pc[o] = "select"
  /\ Return(o)
  /\ UNCHANGED <<row, retry, stopping, outside, sent, faults>>

PollTimeout(o) ==
  /\ pc[o] = "select"
  /\ GoTo(o, "cnRead")
  /\ UNCHANGED <<row, retry, stopping, outside, sent, faults>>

PollStop(o) ==
  /\ pc[o] = "select" /\ stopping
  /\ Return(o)
  /\ UNCHANGED <<row, retry, stopping, outside, sent, faults>>

-----------------------------------------------------------------------------
(* dbUpdateOrdreStatus: record the bank status c.st if the copy holds      *)
(* another one, then run the deferred message to the robot                 *)

\* mutant: reserving the money already counts as credit
Recorded_Early(r, c) ==
  CASE c.st \in {"Authorizing", "Confirmed"} -> [r EXCEPT !.bs = c.st, !.credited = c.amt]
    [] c.st \in Returned -> [r EXCEPT !.bs = c.st, !.credited = @ - c.amt]
    [] OTHER -> [r EXCEPT !.bs = c.st]

\* mutant: a confirmation adds to the credit instead of setting it
Recorded_Adds(r, c) ==
  CASE c.st = "Confirmed" -> [r EXCEPT !.bs = c.st, !.credited = @ + c.amt]
    [] c.st \in Returned -> [r EXCEPT !.bs = c.st, !.credited = @ - c.amt]
    [] OTHER -> [r EXCEPT !.bs = c.st]

Recorded(r, c) ==
  CASE c.st = "Confirmed"  -> [r EXCEPT !.bs = c.st, !.credited = c.amt]
    [] c.st \in Returned   -> [r EXCEPT !.bs = c.st, !.credited = @ - c.amt]
    [] OTHER               -> [r EXCEPT !.bs = c.st]

\* mutant: the order is made when the money is only reserved
AfterUpdate_Early(a, c, changed) ==
  CASE changed /\ c.st \in {"Authorizing", "Confirmed"} -> GoTo(a, "mkRead")
    [] changed /\ c.st \in Failed -> GoTo(a, "imRead")
    [] OTHER -> Return(a)

AfterUpdate(a, c, changed) ==
  CASE changed /\ c.st = "Confirmed" -> GoTo(a, "mkRead")
    [] changed /\ c.st \in Failed    -> GoTo(a, "imRead")
    [] a \in Orders /\ c.st \in Open -> GoTo(a, "select")
    [] OTHER                         -> Return(a)

DbUpdateOrderStatus(a) ==
  LET c == cpy[a]
      changed == c.bs # c.st
  IN /\ pc[a] = "apply"
     /\ IF changed THEN DbUpdate(c.ord, Recorded(row[c.ord], c)) ELSE UNCHANGED <<row, faults>>
     /\ AfterUpdate(a, c, changed)
     /\ UNCHANGED <<retry, stopping, outside, sent>>

-----------------------------------------------------------------------------
(* sendMessageMakeOrder and sendMessageImpossibleMake *)

\* mutant: the test is o.Order_state > order_execute
MakeRead_OffByOne(a) ==
  /\ pc[a] = "mkRead"
  /\ \E c \in {Fresh(a), cpy[a]} :
       /\ DbGetOrderStatus(a, c)
       /\ IF c.os \in Decided \ {"execute"} THEN Return(a) ELSE GoWith(a, "mkWrite", c)
  /\ UNCHANGED <<row, retry, stopping, outside, sent>>

MakeRead(a) ==
  /\ pc[a] = "mkRead"
  /\ \E c \in {Fresh(a), cpy[a]} :
       /\ DbGetOrderStatus(a, c)
       /\ IF c.os \in Decided THEN Return(a) ELSE GoWith(a, "mkWrite", c)
  /\ UNCHANGED <<row, retry, stopping, outside, sent>>

MakeWrite(a) ==
  /\ pc[a] = "mkWrite"
  /\ DbUpdate(cpy[a].ord, [row[cpy[a].ord] EXCEPT !.os = "prepay"])
  /\ GoTo(a, "mkSend")
  /\ UNCHANGED <<retry, stopping, outside, sent>>

MakeSend(a) ==
  /\ pc[a] = "mkSend"
  /\ sent' = [sent EXCEPT ![cpy[a].ord] = @ + 1]
  /\ Return(a)
  /\ UNCHANGED <<row, retry, stopping, outside, faults>>

ImpossibleRead(a) ==
  /\ pc[a] = "imRead"
  /\ \E c \in {Fresh(a), cpy[a]} :
       /\ DbGetOrderStatus(a, c)
       /\ IF c.os = "cancel" THEN Return(a) ELSE GoWith(a, "imWrite", c)
  /\ UNCHANGED <<row, retry, stopping, outside, sent>>

\* the message that follows only changes the robot's screen
ImpossibleWrite(a) ==
  /\ pc[a] = "imWrite"
  /\ DbUpdate(cpy[a].ord, [row[cpy[a].ord] EXCEPT !.os = "cancel"])
  /\ Return(a)
  /\ UNCHANGED <<retry, stopping, outside, sent>>

-----------------------------------------------------------------------------
(* cancelOrder *)

\* mutant: the bank is asked before the row is written
CancelRead_AsksFirst(a) ==
  /\ pc[a] = "cnRead"
  /\ \E c \in {Fresh(a), cpy[a]} :
       /\ DbGetOrderStatus(a, c)
       /\ IF c.os \in {"complete", "cancel"} THEN Return(a) ELSE GoWith(a, "cnAsk", c)
  /\ UNCHANGED <<row, retry, stopping, outside, sent>>

CancelRead(a) ==
  /\ pc[a] = "cnRead"
  /\ \E c \in {Fresh(a), cpy[a]} :
       /\ DbGetOrderStatus(a, c)
       /\ IF c.os \in {"complete", "cancel"} THEN Return(a) ELSE GoWith(a, "cnWrite", c)
  /\ UNCHANGED <<row, retry, stopping, outside, sent>>

CancelWrite(a) ==
  /\ pc[a] = "cnWrite"
  /\ DbUpdate(cpy[a].ord, [row[cpy[a].ord] EXCEPT !.os = "cancel"])
  /\ GoTo(a, "cnAsk")
  /\ UNCHANGED <<retry, stopping, outside, sent>>

\* the amount left after the cancel is 0, and it replaces o.Amount
CancelAnswered(a) ==
  LET o == cpy[a].ord
  IN /\ BankCancels(o)
     /\ GoWith(a, "apply", [cpy[a] EXCEPT !.amt = 0, !.st = bank'[o]])
     /\ UNCHANGED <<retry, faults>>

\* mutant: a failed cancel is only written to the log
CancelFailed_NoRetry(a) ==
  /\ \/ BankRefuses(cpy[a].ord) /\ UNCHANGED faults
     \/ (BankCancels(cpy[a].ord) \/ UNCHANGED <<bank, notifs>>) /\ Fault("bank")
  /\ Return(a)
  /\ UNCHANGED retry

CancelFailed(a) ==
  LET o == cpy[a].ord
  IN /\ \/ BankRefuses(o) /\ UNCHANGED faults
        \/ (BankCancels(o) \/ UNCHANGED <<bank, notifs>>) /\ Fault("bank")
     /\ retry' = retry \cup {<<a, o>>}
     /\ Return(a)

CancelMismatched(a) ==
  /\ BankCancels(cpy[a].ord)
  /\ Return(a)
  /\ Fault("bank")
  /\ UNCHANGED retry

CancelAsk(a) ==
  /\ pc[a] = "cnAsk"
  /\ CancelAnswered(a) \/ CancelFailed(a) \/ CancelMismatched(a)
  /\ UNCHANGED <<row, stopping, robot, rmsgs, sent>>

\* 30 seconds later, once; the answer only reaches the log
CancelRetry(a, o) ==
  /\ <<a, o>> \in retry
  /\ retry' = retry \ {<<a, o>>}
  /\ \/ (BankCancels(o) \/ BankRefuses(o)) /\ UNCHANGED faults
     \/ UNCHANGED <<bank, notifs>> /\ Fault("bank")
  /\ UNCHANGED <<row, pc, cpy, stopping, robot, rmsgs, sent>>

-----------------------------------------------------------------------------
(* readerMqtt: one message at a time; an error reading the row ends it *)

ReadMqtt(o, w) ==
  /\ pc[Reader] = "idle"
  /\ <<o, w>> \in rmsgs
  /\ rmsgs' = rmsgs \ {<<o, w>>}
  /\ UNCHANGED <<retry, stopping, bank, notifs, robot, sent>>

ReadExecutionStart(o) ==
  /\ ReadMqtt(o, "executionStart")
  /\ DbUpdate(o, [row[o] EXCEPT !.os = "execute"])
  /\ UNCHANGED <<pc, cpy>>

ReadComplete(o) ==
  /\ ReadMqtt(o, "complete")
  /\ DbUpdate(o, [row[o] EXCEPT !.os = "complete"])
  /\ UNCHANGED <<pc, cpy>>

ReadCancel(o) ==
  /\ \E w \in {"orderError", "cancel"} : ReadMqtt(o, w)
  /\ GoWith(Reader, "cnRead", Loaded(o, Unknown))
  /\ UNCHANGED <<row, faults>>

ReadFails(o) ==
  /\ \E w \in RobotWords : ReadMqtt(o, w)
  /\ GoWith(Reader, "stopped", Blank)
  /\ Fault("dbRead")
  /\ UNCHANGED row

-----------------------------------------------------------------------------
(* the handler of a notification: it has answered OK before it reads the   *)
(* row, so the bank does not repeat it, but may have sent it twice         *)

Notify(h, o, s) ==
  /\ pc[h] = "idle"
  /\ <<o, s>> \in notifs
  /\ \/ /\ notifs' = notifs \ {<<o, s>>}
        /\ \/ row[o].os # "none" /\ GoWith(h, "apply", Loaded(o, s)) /\ UNCHANGED faults
           \/ row[o].os = "none" /\ UNCHANGED <<pc, cpy, faults>>
           \/ UNCHANGED <<pc, cpy>> /\ Fault("dbRead")
     \/ /\ row[o].os # "none" /\ GoWith(h, "apply", Loaded(o, s))
        /\ UNCHANGED notifs /\ Fault("dup")
  /\ UNCHANGED <<row, retry, stopping, bank, robot, rmsgs, sent>>

-----------------------------------------------------------------------------
(* main: a signal stops the pollers at their next select; the process ends *)
(* there or in a crash, and a new one starts with the reader only          *)

Shutdown ==
  /\ ~stopping /\ stopping' = TRUE
  /\ Fault("stop")
  /\ UNCHANGED <<row, pc, cpy, retry, outside, sent>>

Restart ==
  /\ stopping \/ "crash" \in FaultKinds
  /\ IF stopping THEN UNCHANGED faults ELSE Fault("crash")
  /\ pc' = [a \in Actors |-> "idle"]
  /\ cpy' = [a \in Actors |-> Blank]
  /\ retry' = {}
  /\ stopping' = FALSE
  /\ UNCHANGED <<row, outside, sent>>

-----------------------------------------------------------------------------
Init ==
  /\ row = [o \in Orders |-> [os |-> "none", bs |-> Unknown, credited |-> 0]]
  /\ pc = [a \in Actors |-> "idle"]
  /\ cpy = [a \in Actors |-> Blank]
  /\ retry = {}
  /\ stopping = FALSE
  /\ bank = [o \in Orders |-> Unknown]
  /\ notifs = {}
  /\ robot = [o \in Orders |-> "away"]
  /\ rmsgs = {}
  /\ sent = [o \in Orders |-> 0]
  /\ faults = [n |-> 0, lasting |-> FALSE]

BankNext(o) == \/ BankFormShowed(o) \/ BankAuthorizes(o) \/ BankConfirms(o)
               \/ BankRejects(o) \/ BankExpires(o) \/ BankRefundDone(o)

RobotNext(o) == RobotStarts(o) \/ RobotCompletes(o) \/ RobotFails(o) \/ RobotCancels(o)

CreateNext(o) == CreateQR(o) \/ InitPaySession(o) \/ DbCreateOrder(o) \/ GetQrCode(o)

PollNext(o) == PollGetState(o) \/ PollReadRow(o) \/ PollTimeout(o) \/ PollStop(o)

ReadNext(o) == ReadExecutionStart(o) \/ ReadComplete(o) \/ ReadCancel(o) \/ ReadFails(o)

\* the steps of the functions the goroutines share
SharedNext(a) == \/ DbUpdateOrderStatus(a)
                 \/ MakeRead(a) \/ MakeWrite(a) \/ MakeSend(a)
                 \/ ImpossibleRead(a) \/ ImpossibleWrite(a)
                 \/ CancelRead(a) \/ CancelWrite(a) \/ CancelAsk(a)

Next ==
  \/ \E o \in Orders : \/ BankNext(o) \/ RobotNext(o)
                       \/ CreateNext(o) \/ PollNext(o) \/ ReadNext(o)
  \/ \E a \in Actors : SharedNext(a) \/ \E o \in Orders : CancelRetry(a, o)
  \/ \E h \in Handlers, o \in Orders, s \in BankStates : Notify(h, o, s)
  \/ Shutdown
  \/ Restart

Spec == Init /\ [][Next]_vars

-----------------------------------------------------------------------------
(* Fairness.  Goroutines are scheduled and their calls return (the database *)
(* has a 5 second timeout, GetState one too).  qrTimeout fires while the    *)
(* loop alternates between the select and a poll, hence SF.  The bank ends  *)
(* every open payment and delivers its notifications; with a handler per    *)
(* request one is always free, which SF says of a bounded set of them.      *)
(* Customers, robots and the process's restart are not fair.                *)

\* what a goroutine does without waiting for the outside
Runs(a) ==
  \/ SharedNext(a)
  \/ /\ a \in Orders
     /\ InitPaySession(a) \/ DbCreateOrder(a) \/ GetQrCode(a) \/ PollReadRow(a)

Fairness ==
  /\ \A a \in Actors : WF_vars(Runs(a))
  /\ \A o \in Orders : /\ SF_vars(PollTimeout(o))
                       /\ WF_vars(\E a \in Actors : CancelRetry(a, o))
                       /\ WF_vars(BankNext(o))
  /\ \A o \in Orders, s \in Notified : SF_vars(\E h \in Handlers : Notify(h, o, s))

FairSpec == Spec /\ Fairness

-----------------------------------------------------------------------------
(* Every variable keeps its type; the counters are natural numbers and the *)
(* credited amount, which the refunds subtract from, an integer.           *)
TypeOK ==
  /\ row \in [Orders -> Row]
  /\ pc \in [Actors -> PCs]
  /\ cpy \in [Actors -> Copy]
  /\ retry \subseteq Actors \X Orders
  /\ stopping \in BOOLEAN
  /\ bank \in [Orders -> BankStates \cup {Unknown}]
  /\ notifs \subseteq Orders \X BankStates
  /\ robot \in [Orders -> RobotStates]
  /\ rmsgs \subseteq Orders \X RobotWords
  /\ sent \in [Orders -> Nat]
  /\ faults \in Faults

(* A robot is told to make an order only after the bank has taken the      *)
(* money for it: the deferred sendMessageMakeOrder acts on a status that   *)
(* is as old as the goroutine's last answer from the bank.                 *)
OnlyPaidOrdersAreMade == \A o \in Orders : sent[o] > 0 => Paid(o)

(* The column credited never shows money the bank has not taken, however   *)
(* the poller, the notifications and the cancels interleave.               *)
CreditedIsPaid == \A o \in Orders : row[o].credited > 0 => Paid(o)

\* some goroutine of the order is between its last look at order_state and
\* the makeOrder it sends
Making(o) == \E a \in Actors : pc[a] \in {"mkWrite", "mkSend"} /\ cpy[a].ord = o

(* Once an order is executing, complete or cancelled and no makeOrder is   *)
(* on its way, it stays so and no goroutine ever sends makeOrder again:    *)
(* late notifications, polls and retries cannot revive it.                 *)
DecidedStaysDecided ==
  [][\A o \in Orders : row[o].os \in Decided /\ ~Making(o)
       => row[o].os' \in Decided /\ ~Making(o)' /\ sent'[o] = sent[o]]_vars

\* nothing is left to happen to the order inside this process
Settled(o) ==
  /\ row[o].os # "none"
  /\ \A a \in Actors : cpy[a].ord # o
  /\ \A a \in Actors : <<a, o>> \notin retry
  /\ \A s \in BankStates : <<o, s>> \notin notifs

(* When an order has settled and the bank kept the money, the row says so: *)
(* credited is the price, and the order was handed to the robot or         *)
(* cancelled.  Notifications served out of order cannot undo it.           *)
KeptMoneyIsOnTheBooks ==
  \A o \in Orders : Settled(o) /\ bank[o] = "Confirmed"
                      => row[o].credited = Price /\ row[o].os # "start"

(* A payment the bank cancelled or refunded is never an order still        *)
(* waiting to be paid: cancelOrder writes the row before it asks.          *)
ReturnedIsOnRecord ==
  \A o \in Orders : bank[o] \in Returned => row[o].os \notin {"none", "start"}

(* The table of payment stages in bank_states.go: fully returned, credited *)
(* is 0.                                                                   *)
RefundedMeansNoCredit ==
  \A o \in Orders : row[o].bs = "Refunded" => row[o].credited = 0

(* Money the bank took is answered: the robot is told to make the order,   *)
(* or the money goes back, even when calls of the bank or reads of the     *)
(* database fail or a notification comes twice; only a write that fails or *)
(* the end of the process excuses it.                                      *)
PaidIsMadeOrReturned ==
  \A o \in Orders :
    bank[o] = "Confirmed" ~> sent[o] > 0 \/ bank[o] \in Returned \/ faults.lasting

(* No order stays in order_start for ever: it is paid and handed over, or  *)
(* the poller's timeout or the bank's expiry cancels it, unless a write    *)
(* fails or the process ends.                                              *)
NoOrderIsForgotten ==
  \A o \in Orders : row[o].os = "start" ~> row[o].os # "start" \/ faults.lasting

=============================================================================
