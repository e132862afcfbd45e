------------------------------ MODULE TaxQueue ------------------------------
(***************************************************************************)
(* The tax jobs of venderctl.  sponge inserts a row of the table trans for *)
(* each completed order, and the trigger trans_tax schedules a job for it  *)
(* in the same transaction (sql/schema.sql).  Workers, the taxLoop of one  *)
(* process each, take the oldest job that is due and print a fiscal        *)
(* document for it on one cash register (KKT), which they share            *)
(* (cmd/venderctl/tax).                                                    *)
(*                                                                         *)
(* A job is identified by its sale: trans has one row per (vmid, vmtime)   *)
(* and the row points to its job.  An SQL statement or a call of the KKT   *)
(* is one step; between two of them other workers, the KKT and the people  *)
(* who look after jobs in the state help take theirs.                      *)
(***************************************************************************)
EXTENDS Integers, Sequences, SequencesExt

CONSTANTS
  Sales,        \* keys (vmid, vmtime) of completed orders
  Workers,      \* processes that run taxLoop
  NoWorker,     \* worker is NULL
  Methods,      \* the payment methods the orders may have
  FaultKinds,   \* which faults may happen
  MaxFaults,    \* how many of them
  MaxHelp       \* how often a person puts a job back into the queue

\* "money" is cash or cashless, "gift" is free, "other" is not supported
AllMethods == {"money", "gift", "other"}

\* a call of the KKT fails, is executed but its answer is lost, or lacks the
\* number of the document, an UPDATE fails, or is done but reported as failed,
\* a process ends, 24 hours pass
AllFaults == {"kkt", "kktLost", "kktBare", "db", "dbLost", "crash", "day"}

ASSUME TaxAssumption ==
  /\ NoWorker \notin Workers
  /\ Methods \subseteq AllMethods
  /\ FaultKinds \subseteq AllFaults
  /\ MaxFaults \in Nat /\ MaxHelp \in Nat

VARIABLES
  job,       \* the table tax_job
  due,       \* the jobs to take, in the order of the column scheduled
  method,    \* the payment method of each order
  pc, tj,    \* where each worker is, and its copy MTaxJob
  cycle,     \* the cashier's shift of the KKT
  last,      \* the number of the last document the KKT printed
  sent,      \* the number of the last one the tax office has
  prints,    \* the documents printed for each sale, and what a worker was told
  receipts,  \* sales whose receipt the robot was told to show
  faults,    \* how many faults so far, and whether one of them was lasting
  helped

vars == <<job, due, method, pc, tj, cycle, last, sent, prints, receipts, faults, helped>>
kkt == <<cycle, last, sent, prints>>

JobStates == {"none", "sched", "busy", "final", "help"}
Job  == [st : JobStates, wk : Workers \cup {NoWorker}, doc : Nat, qr : BOOLEAN]
Copy == [id : Sales, doc : Nat, qr : BOOLEAN, try : Nat]

\* the answer has the document's number, it has not, or it is lost
Told == {"number", "bare", "nothing"}
Doc  == [no : Nat, told : Told]

NoJob == [st |-> "none", wk |-> NoWorker, doc |-> 0, qr |-> FALSE]

PCs == {"idle", "process", "status", "close", "open", "check",
        "final", "later", "help", "receipt"}

\* a worker that has a job to write back, and one that is at work on it
Holding == PCs \ {"idle", "receipt"}
Working == Holding \ {"help"}

-----------------------------------------------------------------------------
\* a worker that is killed, or cannot write its job back, leaves it busy
Lasting == {"crash", "db"}

Faults == [n : Nat, lasting : BOOLEAN]

Fault(kind) == /\ kind \in FaultKinds
               /\ faults.n < MaxFaults
               /\ faults' = [n |-> faults.n + 1, lasting |-> faults.lasting \/ kind \in Lasting]

GoTo(w, p) == pc' = [pc EXCEPT ![w] = p]

-----------------------------------------------------------------------------
(* sponge: "on conflict (vmid,vmtime) do nothing" and the trigger *)

\* mutant: the job is inserted without a state
PacketFromRobo_NoState(s) ==
  /\ job[s].st = "none"
  /\ job' = [job EXCEPT ![s] = [NoJob EXCEPT !.st = "null"]]
  /\ due' = Append(due, s)
  /\ UNCHANGED <<method, pc, tj, kkt, receipts, faults, helped>>

PacketFromRobo(s) ==
  /\ job[s].st = "none"
  /\ job' = [job EXCEPT ![s] = [NoJob EXCEPT !.st = "sched"]]
  /\ due' = Append(due, s)
  /\ UNCHANGED <<method, pc, tj, kkt, receipts, faults, helped>>

-----------------------------------------------------------------------------
(* tax_job_take *)

\* mutant: the row is read without a lock, and stays for the others
Take_Unlocked(w) ==
  /\ pc[w] = "idle" /\ due # <<>>
  /\ LET s == Head(due)
     IN /\ job' = [job EXCEPT ![s].st = "busy", ![s].wk = w]
        /\ due' = IF job[s].st = "busy" THEN Tail(due) ELSE due
        /\ tj' = [tj EXCEPT ![w] = [id |-> s, doc |-> job[s].doc, qr |-> job[s].qr, try |-> 1]]
  /\ GoTo(w, "process")
  /\ UNCHANGED <<method, kkt, receipts, faults, helped>>

\* a job that waits for its time comes after those that were due before it
ComesDue(s) ==
  /\ job[s].st = "sched" /\ s \notin Range(due)
  /\ due' = Append(due, s)
  /\ UNCHANGED <<job, method, pc, tj, kkt, receipts, faults, helped>>

\* after an error of the query the worker waits, and tries again
Take(w) ==
  /\ pc[w] = "idle" /\ due # <<>>
  /\ LET s == Head(due)
     IN /\ job[s].st = "sched"
        /\ job' = [job EXCEPT ![s].st = "busy", ![s].wk = w]
        /\ tj' = [tj EXCEPT ![w] = [id |-> s, doc |-> job[s].doc, qr |-> job[s].qr, try |-> 1]]
  /\ due' = Tail(due)
  /\ GoTo(w, "process")
  /\ UNCHANGED <<method, kkt, receipts, faults, helped>>

-----------------------------------------------------------------------------
(* processRu2019 *)

CheckOps(w) ==
  /\ pc[w] = "process"
  /\ GoTo(w, CASE method[tj[w].id] = "gift"  -> "final"
               [] method[tj[w].id] = "other" -> "help"
               [] OTHER                      -> "status")
  /\ UNCHANGED <<job, due, method, tj, kkt, receipts, faults, helped>>

\* OfflineDocsCount == 0 || UnsentDocNumber > DocNum
Sent(n) == sent = last \/ sent + 1 > n

\* mutant: the number of the document is not looked at
StatusNext_Reprints(w) ==
  CASE cycle = "closed"  -> "open"
    [] cycle = "expired" -> "close"
    [] OTHER             -> "check"

\* what the worker does with an answer to Status: the dance of the shifts,
\* then the document, unless the job has one
StatusNext(w) ==
  CASE cycle = "closed"           -> "open"
    [] cycle = "expired"          -> "close"
    [] OTHER -> IF tj[w].doc = 0 THEN "check"
                ELSE IF ~tj[w].qr THEN "help"
                ELSE IF Sent(tj[w].doc) THEN "final" ELSE "later"

KktStatus(w) ==
  /\ pc[w] = "status"
  /\ \/ tj[w].try > 2 /\ GoTo(w, "help") /\ UNCHANGED faults
     \/ tj[w].try <= 2 /\ GoTo(w, StatusNext(w)) /\ UNCHANGED faults
     \/ tj[w].try <= 2 /\ GoTo(w, "help") /\ Fault("kkt")
  /\ UNCHANGED <<job, due, method, tj, kkt, receipts, helped>>

\* a call that changes the shift: done, or an error, or done with an error
CycleCall(w, from, to, ok) ==
  \/ cycle \in from /\ cycle' = to /\ ok /\ UNCHANGED faults
  \/ cycle \notin from /\ GoTo(w, "help") /\ UNCHANGED <<cycle, tj, faults>>
  \/ GoTo(w, "help") /\ UNCHANGED <<cycle, tj>> /\ Fault("kkt")
  \/ cycle \in from /\ cycle' = to /\ GoTo(w, "help") /\ UNCHANGED tj /\ Fault("kktLost")

CycleClose(w) ==
  /\ pc[w] = "close"
  /\ CycleCall(w, {"open", "expired"}, "closed", GoTo(w, "open") /\ UNCHANGED tj)
  /\ UNCHANGED <<job, due, method, last, sent, prints, receipts, helped>>

CycleOpen(w) ==
  /\ pc[w] = "open"
  /\ CycleCall(w, {"closed"}, "open", GoTo(w, "status") /\ tj' = [tj EXCEPT ![w].try = @ + 1])
  /\ UNCHANGED <<job, due, method, last, sent, prints, receipts, helped>>

\* the KKT prints only in an open shift
PrintDoc(s, told) ==
  /\ cycle = "open"
  /\ last' = last + 1
  /\ prints' = [prints EXCEPT ![s] = @ \cup {[no |-> last + 1, told |-> told]}]

\* not every answer has the tag of a QR code, or even that of a number
FiscalCheck(w) ==
  /\ pc[w] = "check"
  /\ \/ /\ PrintDoc(tj[w].id, "number")
        /\ \E qr \in BOOLEAN : tj' = [tj EXCEPT ![w].doc = last + 1, ![w].qr = qr]
        /\ GoTo(w, "final") /\ UNCHANGED faults
     \/ /\ PrintDoc(tj[w].id, "bare")
        /\ \E qr \in BOOLEAN : tj' = [tj EXCEPT ![w].qr = qr]
        /\ GoTo(w, "final") /\ Fault("kktBare")
     \/ cycle # "open" /\ GoTo(w, "help") /\ UNCHANGED <<tj, last, prints, faults>>
     \/ GoTo(w, "help") /\ UNCHANGED <<tj, last, prints>> /\ Fault("kkt")
     \/ PrintDoc(tj[w].id, "nothing") /\ GoTo(w, "help") /\ UNCHANGED tj /\ Fault("kktLost")
  /\ UNCHANGED <<job, due, method, cycle, sent, receipts, helped>>

-----------------------------------------------------------------------------
(* MTaxJob.Update: state, data and ext_id of the job this worker has taken *)

Written(w, st) ==
  /\ job[tj[w].id].wk = w
  /\ job' = [job EXCEPT ![tj[w].id] = [@ EXCEPT !.st = st, !.doc = tj[w].doc, !.qr = tj[w].qr]]

Update(w, st) == Written(w, st) /\ UNCHANGED faults

\* the row is not the worker's, the statement fails, or its answer is lost
UpdateFails(w, st) ==
  \/ job[tj[w].id].wk # w /\ UNCHANGED <<job, faults>>
  \/ Fault("db") /\ UNCHANGED job
  \/ Fault("dbLost") /\ Written(w, st)

\* mutant: the receipt is shown whatever becomes of the update
UpdateFinal_Shows(w) ==
  /\ pc[w] = "final"
  /\ \/ Update(w, "final") /\ GoTo(w, IF tj[w].qr THEN "receipt" ELSE "idle")
     \/ UpdateFails(w, "final") /\ GoTo(w, IF tj[w].qr THEN "receipt" ELSE "help")
  /\ UNCHANGED <<due, method, tj, kkt, receipts, helped>>

\* ExtId is the QR code of the receipt
UpdateFinal(w) ==
  /\ pc[w] = "final"
  /\ \/ Update(w, "final") /\ GoTo(w, IF tj[w].qr THEN "receipt" ELSE "idle")
     \/ UpdateFails(w, "final") /\ GoTo(w, "help")
  /\ UNCHANGED <<due, method, tj, kkt, receipts, helped>>

SendReceipt(w) ==
  /\ pc[w] = "receipt"
  /\ receipts' = receipts \cup {tj[w].id}
  /\ GoTo(w, "idle")
  /\ UNCHANGED <<job, due, method, tj, kkt, faults, helped>>

\* scheduled 5 seconds from now
UpdateScheduleLater(w) ==
  /\ pc[w] = "later"
  /\ \/ Update(w, "sched") /\ GoTo(w, "idle")
     \/ UpdateFails(w, "sched") /\ GoTo(w, "help")
  /\ UNCHANGED <<due, method, tj, kkt, receipts, helped>>

\* mutant: an error forgets the job instead of asking for help
UpdateHelp_Logged(w) ==
  /\ pc[w] = "help"
  /\ GoTo(w, "idle")
  /\ UNCHANGED <<job, due, method, tj, kkt, receipts, faults, helped>>

\* a job that needs help is not due any more
Dismissed(s) ==
  IF job'[s].st # "sched" /\ s \in Range(due)
  THEN \E i \in DOMAIN due : due[i] = s /\ due' = RemoveAt(due, i)
  ELSE UNCHANGED due

\* whatever the worker did and was told had failed is undone; an error of
\* this update is only written to the log
UpdateHelp(w) ==
  /\ pc[w] = "help"
  /\ Update(w, "help") \/ UpdateFails(w, "help")
  /\ Dismissed(tj[w].id)
  /\ GoTo(w, "idle")
  /\ UNCHANGED <<method, tj, kkt, receipts, helped>>

-----------------------------------------------------------------------------
(* The process ends: killed, or 5 seconds after a signal whatever taxStep  *)
(* is doing.  The next one has another worker name, but since no worker    *)
(* remembers a job it did not take, a name may as well be used again.      *)
Crash(w) ==
  /\ pc[w] # "idle"
  /\ GoTo(w, "idle")
  /\ Fault("crash")
  /\ UNCHANGED <<job, due, method, tj, kkt, receipts, helped>>

(* A person, who finds the job in the view tax_job_help, schedules it anew *)
Reschedule(s) ==
  /\ job[s].st = "help"
  /\ helped < MaxHelp /\ helped' = helped + 1
  /\ job' = [job EXCEPT ![s].st = "sched"]
  /\ due' = Append(due, s)
  /\ UNCHANGED <<method, pc, tj, kkt, receipts, faults>>

(* The KKT on its own: it uploads its documents in order, and a shift may  *)
(* not last longer than 24 hours                                           *)
OfdSends ==
  /\ sent < last /\ sent' = sent + 1
  /\ UNCHANGED <<job, due, method, pc, tj, cycle, last, prints, receipts, faults, helped>>

CycleExpires ==
  /\ cycle = "open" /\ cycle' = "expired"
  /\ Fault("day")
  /\ UNCHANGED <<job, due, method, pc, tj, last, sent, prints, receipts, helped>>

-----------------------------------------------------------------------------
Init ==
  /\ job = [s \in Sales |-> NoJob]
  /\ due = <<>>
  /\ method \in [Sales -> Methods]
  /\ pc = [w \in Workers |-> "idle"]
  /\ \E s \in Sales : tj = [w \in Workers |-> [id |-> s, doc |-> 0, qr |-> FALSE, try |-> 1]]
  /\ cycle \in {"closed", "open"}
  /\ last = 0 /\ sent = 0
  /\ prints = [s \in Sales |-> {}]
  /\ receipts = {}
  /\ faults = [n |-> 0, lasting |-> FALSE]
  /\ helped = 0

Process(w) == \/ CheckOps(w) \/ KktStatus(w) \/ CycleClose(w) \/ CycleOpen(w) \/ FiscalCheck(w)
              \/ UpdateFinal(w) \/ UpdateScheduleLater(w) \/ UpdateHelp(w) \/ SendReceipt(w)

Next ==
  \/ \E s \in Sales : PacketFromRobo(s) \/ ComesDue(s) \/ Reschedule(s)
  \/ \E w \in Workers : Take(w) \/ Process(w) \/ Crash(w)
  \/ OfdSends
  \/ CycleExpires

Spec == Init /\ [][Next]_vars

(* Fairness: a worker that waits is woken by NOTIFY tax_job_sched or after *)
(* 53 seconds, the calls of the KKT and the database return, and the KKT   *)
(* is online again some time.  Nobody has to look at the jobs in help.     *)
Fairness ==
  /\ \A w \in Workers : WF_vars(Take(w)) /\ WF_vars(Process(w))
  /\ \A s \in Sales : WF_vars(ComesDue(s))
  /\ WF_vars(OfdSends)

FairSpec == Spec /\ Fairness

-----------------------------------------------------------------------------
(* Every variable keeps its type.                                          *)
TypeOK ==
  /\ job \in [Sales -> Job]
  /\ due \in Seq(Sales)
  /\ method \in [Sales -> Methods]
  /\ pc \in [Workers -> PCs]
  /\ tj \in [Workers -> Copy]
  /\ cycle \in {"closed", "open", "expired"}
  /\ last \in Nat /\ sent \in Nat
  /\ prints \in [Sales -> SUBSET Doc]
  /\ receipts \subseteq Sales
  /\ faults \in Faults /\ helped \in Nat

(* A job in work has one owner: while a worker is at work on the job it    *)
(* took, the row is busy and carries its name, so no two workers ever      *)
(* process the same sale, although one that was told that it could not     *)
(* write its job back may find it in other hands.                          *)
OneOwner ==
  \A w \in Workers : pc[w] \in Working
     => job[tj[w].id].st = "busy" /\ job[tj[w].id].wk = w

(* The robot shows a receipt only of a sale whose job is final and has a   *)
(* document.                                                               *)
ReceiptsAreFinal ==
  \A s \in receipts : job[s].st = "final" /\ prints[s] # {}

\* the worker that made the job final was told that it had not
Doubted(s) ==
  \E w \in Workers : pc[w] = "help" /\ tj[w].id = s /\ job[s].wk = w

(* Sales are closed once and for all, unless whoever closed one was told   *)
(* otherwise, with one document each unless the KKT printed without giving *)
(* its number: the queue implements the ledger.                            *)
SaleState == [s \in Sales |-> CASE job[s].st = "none"                  -> "none"
                                 [] job[s].st = "final" /\ ~Doubted(s) -> "closed"
                                 [] job[s].st = "final" /\ Doubted(s)  -> "doubted"
                                 [] OTHER                              -> "open"]
Exempt == [s \in Sales |-> method[s] = "gift"]

Ledger == INSTANCE TaxLedger WITH sale <- SaleState, exempt <- Exempt
LedgerSpec == Ledger!LedgerSpec

\* the job is busy for a worker that no longer works on it
Stranded(s) ==
  /\ faults.lasting
  /\ job[s].st = "busy"
  /\ LET w == job[s].wk IN pc[w] \notin Holding \/ tj[w].id # s

(* Every scheduled job is decided, final or in need of help, whatever the  *)
(* KKT does and however workers disturb each other's shift: nothing stays  *)
(* busy, or is scheduled again and again, for ever.  Only the job that a   *)
(* worker held when it was killed, or could not write back, is left busy.  *)
EveryJobIsDecided ==
  \A s \in Sales :
    job[s].st \in {"sched", "busy"} ~> job[s].st \in {"final", "help"} \/ Stranded(s)

=============================================================================
