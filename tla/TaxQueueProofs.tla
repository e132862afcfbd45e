--------------------------- MODULE TaxQueueProofs ---------------------------
(***************************************************************************)
(* Theorems about TaxQueue, for any number of sales, workers and faults.   *)
(***************************************************************************)
EXTENDS TaxQueue, SequenceTheorems, TLAPS

-----------------------------------------------------------------------------
(* Typing *)

LEMMA TypeInit == Init => TypeOK
<1> SUFFICES ASSUME Init PROVE TypeOK
  OBVIOUS
<1>1. NoJob \in Job
  BY DEF NoJob, Job, JobStates
<1>2. tj \in [Workers -> Copy]
  <2>1. PICK s \in Sales : tj = [w \in Workers |-> [id |-> s, doc |-> 0, qr |-> FALSE, try |-> 1]]
    BY DEF Init
  <2>2. [id |-> s, doc |-> 0, qr |-> FALSE, try |-> 1] \in Copy
    BY DEF Copy
  <2> QED
    BY <2>1, <2>2
<1>3. job \in [Sales -> Job] /\ pc \in [Workers -> PCs] /\ prints \in [Sales -> SUBSET Doc]
  BY <1>1 DEF Init, PCs
<1>4. due \in Seq(Sales) /\ cycle \in {"closed", "open", "expired"}
  BY DEF Init
<1> QED
  BY <1>2, <1>3, <1>4 DEF Init, TypeOK, Faults

LEMMA FaultType ==
  ASSUME TypeOK, NEW k, Fault(k)
  PROVE  faults' \in Faults
  BY DEF TypeOK, Fault, Faults

LEMMA UpdateType ==
  ASSUME TypeOK, NEW w \in Workers, NEW st \in JobStates, Update(w, st) \/ UpdateFails(w, st)
  PROVE  job' \in [Sales -> Job] /\ faults' \in Faults
<1>1. tj[w].id \in Sales /\ tj[w].doc \in Nat /\ tj[w].qr \in BOOLEAN
  BY DEF TypeOK, Copy
<1>2. job[tj[w].id] \in Job
  BY <1>1 DEF TypeOK
<1>3. [job[tj[w].id] EXCEPT !.st = st, !.doc = tj[w].doc, !.qr = tj[w].qr] \in Job
  BY <1>1, <1>2 DEF Job
<1> QED
  BY <1>1, <1>3, FaultType DEF TypeOK, Update, UpdateFails, Written

LEMMA DismissedType ==
  ASSUME TypeOK, NEW s \in Sales, Dismissed(s)
  PROVE  due' \in Seq(Sales)
<1>1. ASSUME NEW i \in DOMAIN due PROVE RemoveAt(due, i) \in Seq(Sales)
  <2>1. i \in 1..Len(due) /\ Len(due) \in Nat
    BY DEF TypeOK
  <2>2. SubSeq(due, 1, i-1) \in Seq(Sales) /\ SubSeq(due, i+1, Len(due)) \in Seq(Sales)
    BY <2>1, SubSeqProperties DEF TypeOK
  <2> QED
    BY <2>2, ConcatProperties DEF RemoveAt
<1> QED
  BY <1>1 DEF Dismissed, TypeOK

LEMMA TypeNext == TypeOK /\ [Next]_vars => TypeOK'
<1> SUFFICES ASSUME TypeOK, [Next]_vars PROVE TypeOK'
  OBVIOUS
<1> USE DEF kkt
<1>1. ASSUME NEW s \in Sales, PacketFromRobo(s) \/ Reschedule(s) PROVE TypeOK'
  <2>1. [NoJob EXCEPT !.st = "sched"] \in Job /\ [job[s] EXCEPT !.st = "sched"] \in Job
    BY DEF NoJob, Job, JobStates, TypeOK
  <2>2. Append(due, s) \in Seq(Sales)
    BY DEF TypeOK
  <2>3. job' \in [Sales -> Job]
    BY <1>1, <2>1 DEF PacketFromRobo, Reschedule, TypeOK
  <2>4. helped' \in Nat
    BY <1>1 DEF PacketFromRobo, Reschedule, TypeOK
  <2> QED
    BY <1>1, <2>2, <2>3, <2>4 DEF PacketFromRobo, Reschedule, TypeOK
<1>2. ASSUME NEW s \in Sales, ComesDue(s) PROVE TypeOK'
  BY <1>2 DEF ComesDue, TypeOK
<1>3. ASSUME NEW w \in Workers, Take(w) PROVE TypeOK'
  <2> DEFINE s == Head(due)
  <2>1. s \in Sales /\ Tail(due) \in Seq(Sales)
    BY <1>3 DEF Take, TypeOK
  <2>2. [job[s] EXCEPT !.st = "busy", !.wk = w] \in Job
    BY <2>1 DEF Job, JobStates, TypeOK
  <2>3. [id |-> s, doc |-> job[s].doc, qr |-> job[s].qr, try |-> 1] \in Copy
    BY <2>1 DEF Job, Copy, TypeOK
  <2>4. job' \in [Sales -> Job] /\ tj' \in [Workers -> Copy]
    <3>1. job' = [job EXCEPT ![s] = [job[s] EXCEPT !.st = "busy", !.wk = w]]
      BY <1>3, <2>1 DEF Take, TypeOK
    <3>2. tj' = [tj EXCEPT ![w] = [id |-> s, doc |-> job[s].doc, qr |-> job[s].qr, try |-> 1]]
      BY <1>3 DEF Take
    <3> HIDE DEF s
    <3> QED
      BY <2>1, <2>2, <2>3, <3>1, <3>2 DEF TypeOK
  <2> QED
    BY <1>3, <2>1, <2>4 DEF Take, GoTo, PCs, TypeOK
<1>4. ASSUME NEW w \in Workers, CheckOps(w) \/ KktStatus(w) PROVE TypeOK'
  BY <1>4, FaultType DEF CheckOps, KktStatus, StatusNext, GoTo, PCs, TypeOK
<1>5. ASSUME NEW w \in Workers, CycleClose(w) \/ CycleOpen(w) PROVE TypeOK'
  <2>1. pc' \in [Workers -> PCs] /\ cycle' \in {"closed", "open", "expired"} /\ faults' \in Faults
    BY <1>5, FaultType DEF CycleClose, CycleOpen, CycleCall, GoTo, PCs, TypeOK
  <2>2. tj' \in [Workers -> Copy]
    <3>1. tj[w] \in Copy /\ tj[w].try + 1 \in Nat
      BY DEF TypeOK, Copy
    <3>2. [tj[w] EXCEPT !.try = tj[w].try + 1] \in Copy
      BY <3>1 DEF Copy
    <3>3. tj' = tj \/ tj' = [tj EXCEPT ![w] = [tj[w] EXCEPT !.try = tj[w].try + 1]]
      BY <1>5 DEF CycleClose, CycleOpen, CycleCall
    <3> QED
      BY <3>2, <3>3 DEF TypeOK
  <2> QED
    BY <1>5, <2>1, <2>2 DEF CycleClose, CycleOpen, TypeOK
<1>6. ASSUME NEW w \in Workers, FiscalCheck(w) PROVE TypeOK'
  <2>1. tj[w] \in Copy /\ tj[w].id \in Sales /\ last + 1 \in Nat
    BY DEF TypeOK, Copy
  <2>2. last' \in Nat /\ prints' \in [Sales -> SUBSET Doc]
    <3>1. PICK told \in Told : UNCHANGED <<last, prints>> \/ PrintDoc(tj[w].id, told)
      BY <1>6 DEF FiscalCheck, Told
    <3> DEFINE d == [no |-> last + 1, told |-> told]
    <3>2. d \in Doc
      BY <2>1 DEF Doc, Told
    <3>3. \/ UNCHANGED <<last, prints>>
          \/ last' = last + 1 /\ prints' = [prints EXCEPT ![tj[w].id] = @ \cup {d}]
      BY <3>1 DEF PrintDoc
    <3> HIDE DEF d
    <3> QED
      BY <2>1, <3>2, <3>3 DEF TypeOK
  <2>3. tj' \in [Workers -> Copy]
    <3>1. ASSUME NEW qr \in BOOLEAN
          PROVE  /\ [tj[w] EXCEPT !.doc = last + 1, !.qr = qr] \in Copy
                 /\ [tj[w] EXCEPT !.qr = qr] \in Copy
      BY <2>1 DEF Copy
    <3>2. \/ tj' = tj
          \/ \E qr \in BOOLEAN :
               \/ tj' = [tj EXCEPT ![w] = [tj[w] EXCEPT !.doc = last + 1, !.qr = qr]]
               \/ tj' = [tj EXCEPT ![w] = [tj[w] EXCEPT !.qr = qr]]
      BY <1>6 DEF FiscalCheck
    <3> QED
      BY <3>1, <3>2 DEF TypeOK
  <2>4. pc' \in [Workers -> PCs] /\ faults' \in Faults
    BY <1>6, FaultType DEF FiscalCheck, GoTo, PCs, TypeOK
  <2> QED
    BY <1>6, <2>2, <2>3, <2>4 DEF FiscalCheck, TypeOK
<1>7. ASSUME NEW w \in Workers, UpdateFinal(w) \/ UpdateScheduleLater(w) \/ UpdateHelp(w)
      PROVE  TypeOK'
  <2>1. job' \in [Sales -> Job] /\ faults' \in Faults
    BY <1>7, UpdateType DEF UpdateFinal, UpdateScheduleLater, UpdateHelp, JobStates
  <2>2. pc' \in [Workers -> PCs]
    BY <1>7 DEF UpdateFinal, UpdateScheduleLater, UpdateHelp, GoTo, PCs, TypeOK
  <2>3. due' \in Seq(Sales)
    BY <1>7, DismissedType DEF UpdateFinal, UpdateScheduleLater, UpdateHelp, TypeOK, Copy
  <2> QED
    BY <1>7, <2>1, <2>2, <2>3 DEF UpdateFinal, UpdateScheduleLater, UpdateHelp, TypeOK
<1>8. ASSUME NEW w \in Workers, SendReceipt(w) \/ Crash(w) PROVE TypeOK'
  <2>1. tj[w].id \in Sales
    BY DEF TypeOK, Copy
  <2> QED
    BY <1>8, <2>1, FaultType DEF SendReceipt, Crash, GoTo, PCs, TypeOK
<1>9. CASE OfdSends \/ CycleExpires \/ UNCHANGED vars
  BY <1>9, FaultType DEF OfdSends, CycleExpires, vars, TypeOK
<1> QED
  BY <1>1, <1>2, <1>3, <1>4, <1>5, <1>6, <1>7, <1>8, <1>9 DEF Next, Process

(* Typing: every variable keeps its type.                                  *)
THEOREM Typing == Spec => []TypeOK
  BY TypeInit, TypeNext, PTL DEF Spec


-----------------------------------------------------------------------------
(* Owners and receipts.  A worker writes to the job it holds, while it is  *)
(* its own, and to no other; a job somebody works on is busy: the other    *)
(* workers' takes, the trigger and the people who reschedule leave it      *)
(* alone.  A receipt is shown by a worker that knows the job to be final.  *)

\* a receipt can be shown only of a printed document
QrIsPrinted ==
  /\ \A w \in Workers : tj[w].qr => prints[tj[w].id] # {}
  /\ \A s \in Sales : job[s].qr => prints[s] # {}

\* a worker that is about to show a receipt has closed the sale
ReceiptNext ==
  \A w \in Workers : pc[w] = "receipt" =>
    LET s == tj[w].id IN job[s].st = "final" /\ job[s].wk = w /\ tj[w].qr

\* nobody is about to undo a sale whose receipt was shown
ReceiptsStay == \A s \in receipts : ~Doubted(s)

\* a job that was not scheduled yet is nobody's
NewIsNobodys == \A s \in Sales : job[s].st = "none" => job[s].wk = NoWorker

OwnerInv == /\ TypeOK /\ OneOwner /\ QrIsPrinted
            /\ ReceiptNext /\ ReceiptsAreFinal /\ ReceiptsStay
            /\ NewIsNobodys

LEMMA OwnerInit == Init => OwnerInv
<1> SUFFICES ASSUME Init PROVE OwnerInv
  OBVIOUS
<1>1. OneOwner /\ ReceiptNext /\ ReceiptsAreFinal /\ ReceiptsStay
  BY DEF Init, OneOwner, Holding, Working, ReceiptNext, ReceiptsAreFinal, ReceiptsStay
<1>2. QrIsPrinted /\ NewIsNobodys
  BY DEF Init, QrIsPrinted, NewIsNobodys, NoJob
<1> QED
  BY <1>1, <1>2, TypeInit DEF OwnerInv

\* what a step may do to a job, from the job's side
JobStep(s) ==
  \/ job'[s] = job[s]
  \/ job[s].st = "none"  /\ job'[s] = [NoJob EXCEPT !.st = "sched"]
  \/ job[s].st = "help"  /\ job'[s] = [job[s] EXCEPT !.st = "sched"]
  \/ \E w \in Workers :
       /\ job[s].st = "sched" /\ pc[w] = "idle" /\ pc'[w] = "process"
       /\ job'[s] = [job[s] EXCEPT !.st = "busy", !.wk = w]
       /\ tj' = [tj EXCEPT ![w] = [id |-> s, doc |-> job[s].doc, qr |-> job[s].qr, try |-> 1]]
  \/ \E w \in Workers, st \in {"final", "sched", "help"} :
       /\ pc[w] \in Holding /\ tj[w].id = s /\ job[s].wk = w /\ tj' = tj
       /\ job'[s] = [job[s] EXCEPT !.st = st, !.doc = tj[w].doc, !.qr = tj[w].qr]
       /\ pc'[w] \notin Working

LEMMA JobSteps ==
  ASSUME OwnerInv, [Next]_vars, NEW s \in Sales
  PROVE  JobStep(s)
<1> TypeOK
  BY DEF OwnerInv
<1> USE DEF kkt
<1>1. CASE UNCHANGED job
  BY <1>1 DEF JobStep
<1>2. ASSUME NEW u \in Sales, PacketFromRobo(u) \/ Reschedule(u) PROVE JobStep(s)
  BY <1>2 DEF PacketFromRobo, Reschedule, JobStep, TypeOK
<1>3. ASSUME NEW w \in Workers, Take(w) PROVE JobStep(s)
  <2> DEFINE u == Head(due)
  <2>1. u \in Sales
    BY <1>3 DEF Take, TypeOK
  <2>2. job' = [job EXCEPT ![u] = [job[u] EXCEPT !.st = "busy", !.wk = w]]
    BY <1>3, <2>1 DEF Take, TypeOK
  <2>3. /\ job[u].st = "sched" /\ pc[w] = "idle" /\ pc'[w] = "process"
        /\ tj' = [tj EXCEPT ![w] = [id |-> u, doc |-> job[u].doc, qr |-> job[u].qr, try |-> 1]]
    BY <1>3 DEF Take, GoTo, TypeOK
  <2> HIDE DEF u
  <2> QED
    BY <2>1, <2>2, <2>3 DEF JobStep, TypeOK
<1>4. ASSUME NEW w \in Workers, NEW st \in {"final", "sched", "help"},
             pc[w] \in Holding, tj' = tj, Written(w, st), pc'[w] \notin Working
      PROVE  JobStep(s)
  <2>1. tj[w].id \in Sales
    BY DEF TypeOK, Copy
  <2> QED
    BY <1>4, <2>1 DEF Written, JobStep, TypeOK
<1>5. ASSUME NEW w \in Workers, UpdateFinal(w) PROVE JobStep(s)
  BY <1>1, <1>4, <1>5 DEF UpdateFinal, Update, UpdateFails, GoTo, TypeOK, Holding, Working, PCs
<1>6. ASSUME NEW w \in Workers, UpdateScheduleLater(w) PROVE JobStep(s)
  BY <1>1, <1>4, <1>6 DEF UpdateScheduleLater, Update, UpdateFails, GoTo, TypeOK, Holding, Working, PCs
<1>7. ASSUME NEW w \in Workers, UpdateHelp(w) PROVE JobStep(s)
  BY <1>1, <1>4, <1>7 DEF UpdateHelp, Update, UpdateFails, GoTo, TypeOK, Holding, Working, PCs
<1> QED
  BY <1>1, <1>2, <1>3, <1>5, <1>6, <1>7
     DEF Next, Process, ComesDue, CheckOps, KktStatus, CycleClose, CycleOpen, FiscalCheck,
         SendReceipt, Crash, OfdSends, CycleExpires, vars

\* what a step does to a worker, besides the writing of its job
WorkerStep(w) ==
  \/ pc'[w] = pc[w] /\ tj'[w] = tj[w]
  \/ pc'[w] = "idle" /\ tj'[w] = tj[w]
  \/ pc[w] = "idle" /\ pc'[w] = "process" /\ job'[tj'[w].id].st = "busy" /\ job'[tj'[w].id].wk = w
       /\ tj'[w].id \in Sales /\ job[tj'[w].id].st = "sched" /\ tj'[w].qr = job[tj'[w].id].qr
  \/ /\ pc[w] \in Working /\ pc'[w] \in Holding /\ UNCHANGED job
     /\ tj'[w].id = tj[w].id
     /\ tj'[w].qr => tj[w].qr \/ prints'[tj[w].id] # {}
  \/ pc[w] \in Working /\ pc'[w] = "help" /\ tj'[w] = tj[w]
  \/ /\ pc[w] = "final" /\ pc'[w] = "receipt" /\ tj'[w] = tj[w] /\ tj[w].qr
     /\ job'[tj[w].id].st = "final" /\ job'[tj[w].id].wk = w

LEMMA WorkerSteps ==
  ASSUME OwnerInv, [Next]_vars, NEW w \in Workers
  PROVE  WorkerStep(w)
<1> TypeOK
  BY DEF OwnerInv
<1> USE DEF kkt
<1>1. CASE UNCHANGED <<pc, tj>>
  BY <1>1 DEF WorkerStep
<1>2. ASSUME NEW v \in Workers, Take(v) PROVE WorkerStep(w)
  <2> DEFINE u == Head(due)
  <2>1. u \in Sales
    BY <1>2 DEF Take, TypeOK
  <2>2. /\ job[u].st = "sched" /\ pc[v] = "idle"
        /\ job' = [job EXCEPT ![u] = [job[u] EXCEPT !.st = "busy", !.wk = v]]
        /\ pc' = [pc EXCEPT ![v] = "process"]
        /\ tj' = [tj EXCEPT ![v] = [id |-> u, doc |-> job[u].doc, qr |-> job[u].qr, try |-> 1]]
    BY <1>2, <2>1 DEF Take, GoTo, TypeOK
  <2>3. job'[u].st = "busy" /\ job'[u].wk = v
    BY <2>1, <2>2 DEF TypeOK, Job
  <2> HIDE DEF u
  <2> QED
    BY <2>1, <2>2, <2>3 DEF WorkerStep, TypeOK
<1>3. ASSUME NEW v \in Workers, CheckOps(v) \/ KktStatus(v) PROVE WorkerStep(w)
  BY <1>3 DEF CheckOps, KktStatus, StatusNext, GoTo, WorkerStep, Holding, Working, PCs, TypeOK
<1>4. ASSUME NEW v \in Workers, CycleClose(v) \/ CycleOpen(v) PROVE WorkerStep(w)
  <2>1. tj[w] \in Copy
    BY DEF TypeOK
  <2>2. /\ tj' = tj \/ tj' = [tj EXCEPT ![v] = [tj[v] EXCEPT !.try = tj[v].try + 1]]
        /\ pc[v] \in Working /\ UNCHANGED <<job, prints>>
        /\ \E p \in Holding : pc' = [pc EXCEPT ![v] = p]
    BY <1>4 DEF CycleClose, CycleOpen, CycleCall, GoTo, Holding, Working, PCs
  <2>3. tj'[w].id = tj[w].id /\ tj'[w].qr = tj[w].qr
    <3>1. CASE tj' = tj
      BY <3>1
    <3>2. CASE tj' = [tj EXCEPT ![v] = [tj[v] EXCEPT !.try = tj[v].try + 1]] /\ w = v
      <4>1. tj'[w] = [tj[v] EXCEPT !.try = tj[v].try + 1]
        BY <3>2 DEF TypeOK
      <4> QED
        BY <2>1, <3>2, <4>1 DEF Copy
    <3>3. CASE tj' = [tj EXCEPT ![v] = [tj[v] EXCEPT !.try = tj[v].try + 1]] /\ w # v
      BY <3>3 DEF TypeOK
    <3> QED
      BY <2>2, <3>1, <3>2, <3>3
  <2>4. CASE w = v
    BY <2>2, <2>3, <2>4 DEF WorkerStep, TypeOK
  <2>5. CASE w # v
    BY <2>2, <2>5 DEF WorkerStep, TypeOK
  <2> QED
    BY <2>4, <2>5
<1>5. ASSUME NEW v \in Workers, FiscalCheck(v) PROVE WorkerStep(w)
  <2>1. tj[v] \in Copy /\ tj[v].id \in Sales /\ tj[w] \in Copy
    BY DEF TypeOK, Copy
  <2>2. /\ pc[v] \in Working /\ UNCHANGED job
        /\ \E p \in Holding : pc' = [pc EXCEPT ![v] = p]
    BY <1>5 DEF FiscalCheck, GoTo, Holding, Working, PCs
  <2>3. CASE tj' = tj
    BY <2>2, <2>3 DEF WorkerStep, TypeOK
  <2>4. CASE tj' # tj
    <3>1. \E told \in Told : PrintDoc(tj[v].id, told)
      BY <1>5, <2>4 DEF FiscalCheck, Told
    <3>2. PICK qr \in BOOLEAN :
            \/ tj' = [tj EXCEPT ![v] = [tj[v] EXCEPT !.doc = last + 1, !.qr = qr]]
            \/ tj' = [tj EXCEPT ![v] = [tj[v] EXCEPT !.qr = qr]]
      BY <1>5, <2>4 DEF FiscalCheck
    <3>3. prints'[tj[v].id] # {}
      BY <2>1, <3>1 DEF PrintDoc, TypeOK
    <3>4. tj'[v].id = tj[v].id /\ (w # v => tj'[w] = tj[w])
      BY <2>1, <3>2 DEF TypeOK, Copy
    <3> QED
      BY <2>1, <2>2, <3>3, <3>4 DEF WorkerStep, TypeOK
  <2> QED
    BY <2>3, <2>4
<1>6. ASSUME NEW v \in Workers, UpdateFinal(v) \/ UpdateScheduleLater(v) \/ UpdateHelp(v)
      PROVE  WorkerStep(w)
  <2>1. tj[v].id \in Sales /\ job[tj[v].id] \in Job
    BY DEF TypeOK, Copy
  <2>2. ASSUME NEW st \in JobStates, Update(v, st)
        PROVE  job'[tj[v].id].st = st /\ job'[tj[v].id].wk = v
    BY <2>1, <2>2 DEF Update, Written, TypeOK, Job
  <2> QED
    BY <1>6, <2>1, <2>2 DEF UpdateFinal, UpdateScheduleLater, UpdateHelp, GoTo, WorkerStep,
                       Holding, Working, PCs, TypeOK, JobStates
<1>7. ASSUME NEW v \in Workers, SendReceipt(v) \/ Crash(v) PROVE WorkerStep(w)
  BY <1>7 DEF SendReceipt, Crash, GoTo, WorkerStep, TypeOK
<1> QED
  BY <1>1, <1>2, <1>3, <1>4, <1>5, <1>6, <1>7
     DEF Next, Process, PacketFromRobo, ComesDue, Reschedule, OfdSends, CycleExpires, vars

LEMMA PrintsGrow ==
  ASSUME TypeOK, [Next]_vars, NEW s \in Sales
  PROVE  prints[s] \subseteq prints'[s]
<1> USE DEF kkt
<1>1. ASSUME NEW w \in Workers, FiscalCheck(w) PROVE prints[s] \subseteq prints'[s]
  BY <1>1 DEF FiscalCheck, PrintDoc, TypeOK
<1> QED
  BY <1>1 DEF Next, Process, PacketFromRobo, ComesDue, Reschedule, Take, CheckOps, KktStatus,
              CycleClose, CycleOpen, UpdateFinal, UpdateScheduleLater, UpdateHelp, SendReceipt, Crash,
              OfdSends, CycleExpires, vars

LEMMA OwnerNext == OwnerInv /\ [Next]_vars => OwnerInv'
<1> SUFFICES ASSUME OwnerInv, [Next]_vars PROVE OwnerInv'
  OBVIOUS
<1> TypeOK /\ OneOwner /\ QrIsPrinted /\ ReceiptNext /\ ReceiptsAreFinal /\ ReceiptsStay
  BY DEF OwnerInv
<1>0. TypeOK'
  BY TypeNext
<1>1. OneOwner'
  <2> SUFFICES ASSUME NEW w \in Workers, pc'[w] \in Working
               PROVE  job'[tj'[w].id].st = "busy" /\ job'[tj'[w].id].wk = w
    BY DEF OneOwner
  <2> DEFINE s == tj'[w].id
  <2>0. s \in Sales /\ job[s] \in Job /\ tj[w].id \in Sales
    BY <1>0 DEF TypeOK, Copy
  <2>1. CASE pc[w] \notin Working
    BY <2>1, WorkerSteps DEF WorkerStep, Holding, Working
  <2>2. CASE pc[w] \in Working
    <3>1. s = tj[w].id
      BY <2>2, WorkerSteps DEF WorkerStep, Holding, Working
    <3>2. job[s].st = "busy" /\ job[s].wk = w
      BY <2>2, <3>1 DEF OneOwner
    <3>3. JobStep(s)
      BY <2>0, JobSteps
    <3> HIDE DEF s
    <3>4. job'[s] = job[s]
      BY <3>2, <3>3 DEF JobStep
    <3> QED
      BY <3>2, <3>4 DEF s
  <2> QED
    BY <2>1, <2>2
<1>2. QrIsPrinted'
  <2>1. ASSUME NEW w \in Workers, tj'[w].qr PROVE prints'[tj'[w].id] # {}
    <3>1. tj[w].id \in Sales /\ tj'[w].id \in Sales
      BY <1>0 DEF TypeOK, Copy
    <3> QED
      BY <2>1, <3>1, WorkerSteps, PrintsGrow DEF WorkerStep, QrIsPrinted
  <2>2. ASSUME NEW s \in Sales, job'[s].qr PROVE prints'[s] # {}
    <3>1. job[s] \in Job
      BY DEF TypeOK
    <3>2. job[s].qr \/ \E w \in Workers : tj[w].id = s /\ tj[w].qr
      <4>1. CASE \E w \in Workers, st \in {"final", "sched", "help"} :
                   /\ tj[w].id = s
                   /\ job'[s] = [job[s] EXCEPT !.st = st, !.doc = tj[w].doc, !.qr = tj[w].qr]
        BY <2>2, <3>1, <4>1 DEF Job
      <4>2. CASE \E w \in Workers : job'[s] = [job[s] EXCEPT !.st = "busy", !.wk = w]
        BY <2>2, <3>1, <4>2 DEF Job
      <4>3. CASE job'[s] = [NoJob EXCEPT !.st = "sched"]
        BY <2>2, <4>3 DEF NoJob
      <4>4. CASE job'[s] = job[s] \/ job'[s] = [job[s] EXCEPT !.st = "sched"]
        BY <2>2, <3>1, <4>4 DEF Job
      <4>5. JobStep(s)
        BY JobSteps
      <4> QED
        BY <4>1, <4>2, <4>3, <4>4, <4>5 DEF JobStep
    <3> QED
      BY <3>2, PrintsGrow DEF QrIsPrinted
  <2> QED
    BY <2>1, <2>2 DEF QrIsPrinted
<1>3. ASSUME NEW s \in Sales, job[s].st = "final", ~Doubted(s)
      PROVE  job'[s] = job[s] /\ ~Doubted(s)'
  <2>1. \A w \in Workers : ~(pc[w] \in Holding /\ tj[w].id = s /\ job[s].wk = w)
    BY <1>3 DEF OneOwner, Doubted, Working
  <2>4. JobStep(s)
    BY JobSteps
  <2>2. job'[s] = job[s]
    BY <1>3, <2>1, <2>4 DEF JobStep
  <2>3. ASSUME NEW w \in Workers, pc'[w] = "help", tj'[w].id = s, job'[s].wk = w PROVE FALSE
    <3>1. tj[w].id = s /\ pc[w] \in Holding
      BY <2>3, WorkerSteps DEF WorkerStep, Holding, Working, PCs
    <3> QED
      BY <2>1, <2>2, <2>3, <3>1
  <2> QED
    BY <2>2, <2>3 DEF Doubted
<1>4. ReceiptNext'
  <2> SUFFICES ASSUME NEW w \in Workers, pc'[w] = "receipt"
               PROVE  LET s == tj'[w].id IN job'[s].st = "final" /\ job'[s].wk = w /\ tj'[w].qr
    BY DEF ReceiptNext
  <2>1. tj[w].id \in Sales
    BY DEF TypeOK, Copy
  <2>2. CASE pc[w] = "receipt"
    <3>1. tj'[w] = tj[w] /\ job[tj[w].id].st = "final" /\ job[tj[w].id].wk = w /\ tj[w].qr
      BY <2>2, WorkerSteps DEF WorkerStep, ReceiptNext, Holding, Working
    <3>2. ~Doubted(tj[w].id)
      BY <2>2, <3>1 DEF Doubted
    <3> QED
      BY <1>3, <2>1, <3>1, <3>2
  <2>3. CASE pc[w] # "receipt"
    BY <2>1, <2>3, WorkerSteps DEF WorkerStep, Holding, Working
  <2> QED
    BY <2>2, <2>3
<1>5. ReceiptsAreFinal' /\ ReceiptsStay'
  <2>1. ASSUME NEW s \in receipts'
        PROVE  s \in Sales /\ job[s].st = "final" /\ prints[s] # {} /\ ~Doubted(s)
    <3>1. s \in receipts \/ \E w \in Workers : pc[w] = "receipt" /\ tj[w].id = s
      BY <2>1 DEF Next, Process, PacketFromRobo, ComesDue, Reschedule, Take, CheckOps, KktStatus,
                  CycleClose, CycleOpen, FiscalCheck, UpdateFinal, UpdateScheduleLater, UpdateHelp,
                  SendReceipt, Crash, OfdSends, CycleExpires, vars, kkt
    <3>2. CASE s \in receipts
      BY <3>2 DEF ReceiptsAreFinal, ReceiptsStay, TypeOK
    <3>3. CASE \E w \in Workers : pc[w] = "receipt" /\ tj[w].id = s
      BY <3>3 DEF ReceiptNext, QrIsPrinted, Doubted, TypeOK, Copy
    <3> QED
      BY <3>1, <3>2, <3>3
  <2> QED
    BY <1>3, <2>1, PrintsGrow DEF ReceiptsAreFinal, ReceiptsStay
<1>6. NewIsNobodys'
  <2> SUFFICES ASSUME NEW s \in Sales, job'[s].st = "none" PROVE job'[s].wk = NoWorker
    BY DEF NewIsNobodys
  <2>1. JobStep(s) /\ job[s] \in Job
    BY JobSteps DEF TypeOK
  <2>2. job'[s] = job[s]
    BY <2>1 DEF JobStep, Job, NoJob
  <2> QED
    BY <2>2 DEF OwnerInv, NewIsNobodys
<1> QED
  BY <1>0, <1>1, <1>2, <1>4, <1>5, <1>6 DEF OwnerInv

LEMMA OwnerAlways == Spec => []OwnerInv
  BY OwnerInit, OwnerNext, PTL DEF Spec

(* Ownership: a job in work has one owner.                                 *)
THEOREM Ownership == Spec => []OneOwner
<1>1. OwnerInv => OneOwner
  BY DEF OwnerInv
<1> QED
  BY <1>1, OwnerAlways, PTL

(* A receipt is only shown of a sale that is closed and printed.           *)
THEOREM ReceiptsLast == Spec => []ReceiptsAreFinal
<1>1. OwnerInv => ReceiptsAreFinal
  BY DEF OwnerInv
<1> QED
  BY <1>1, OwnerAlways, PTL

-----------------------------------------------------------------------------
(* The ledger.  A document that is known is on record: in the worker's     *)
(* copy while the job is in work, and in the job as soon as the worker has *)
(* written it back, in whatever state; a job that comes back from help     *)
(* with a number is not printed again.  A worker that was told that it     *)
(* could not write its job back knows that much as long as the row is its  *)
(* own.                                                                    *)

KktSteps == {"status", "close", "open", "check", "later"}

Printed(s) == Ledger!Printed(s)

Answered(s) == Ledger!Answered(s)

USE DEF Printed, Ledger!Printed, Answered, Ledger!Answered

Known(w) ==
  LET s == tj[w].id
  IN /\ Printed(s) <=> tj[w].doc # 0
     /\ pc[w] \in KktSteps => method[s] = "money"
     /\ pc[w] = "check" => tj[w].doc = 0
     /\ pc[w] = "final" => Answered(s) \/ method[s] = "gift"

Owns(w) == pc[w] \in Holding /\ job[tj[w].id].wk = w

OnRecord(s) ==
  /\ job[s].st # "busy" => (Printed(s) <=> job[s].doc # 0)
  /\ job[s].st = "none" => job[s].doc = 0

LedgerInv == /\ OwnerInv
             /\ \A w \in Workers : Owns(w) => Known(w)
             /\ \A s \in Sales : OnRecord(s)

LEMMA LedgerInvInit == Init => LedgerInv
<1> SUFFICES ASSUME Init PROVE LedgerInv
  OBVIOUS
<1>1. \A s \in Sales : OnRecord(s)
  BY DEF Init, OnRecord, NoJob
<1> QED
  BY <1>1, OwnerInit DEF Init, LedgerInv, Owns, Holding

\* what the worker keeps of an answer
Answer(w, told) ==
  \/ /\ told = "number"
     /\ \E qr \in BOOLEAN : tj' = [tj EXCEPT ![w] = [tj[w] EXCEPT !.doc = last + 1, !.qr = qr]]
  \/ /\ told = "bare"
     /\ \E qr \in BOOLEAN : tj' = [tj EXCEPT ![w] = [tj[w] EXCEPT !.qr = qr]]
  \/ told = "nothing" /\ UNCHANGED tj

\* only the owner's print touches the documents of its sale
LEMMA MoveKeeps ==
  ASSUME LedgerInv, NEW w \in Workers, NEW p, pc' = [pc EXCEPT ![w] = p],
         UNCHANGED <<job, prints, method>>,
         tj' = tj \/ tj' = [tj EXCEPT ![w] = [tj[w] EXCEPT !.try = tj[w].try + 1]],
         p \in Holding =>
                         /\ pc[w] \in Working
                         /\ p \in KktSteps => method[tj[w].id] = "money"
                         /\ p = "check" => tj[w].doc = 0
                         /\ p = "final" => tj[w].doc # 0 \/ method[tj[w].id] = "gift"
  PROVE  /\ \A v \in Workers : Owns(v)' => Known(v)'
         /\ \A s \in Sales : OnRecord(s)'
<1> TypeOK /\ OneOwner
  BY DEF LedgerInv, OwnerInv
<1>1. \A v \in Workers : tj'[v].id = tj[v].id /\ tj'[v].doc = tj[v].doc
  <2> SUFFICES ASSUME NEW v \in Workers PROVE tj'[v].id = tj[v].id /\ tj'[v].doc = tj[v].doc
    OBVIOUS
  <2>1. tj[w] \in Copy
    BY DEF TypeOK
  <2>2. [tj[w] EXCEPT !.try = tj[w].try + 1].id = tj[w].id
        /\ [tj[w] EXCEPT !.try = tj[w].try + 1].doc = tj[w].doc
    BY <2>1 DEF Copy
  <2> QED
    BY <2>2 DEF TypeOK
<1>2. ASSUME NEW v \in Workers, Owns(v)' PROVE Known(v)'
  <2>1. CASE v = w
    <3>1. pc'[w] = p
      BY DEF TypeOK
    <3>2. Known(w) /\ p \in Holding /\ tj'[w].id = tj[w].id /\ tj'[w].doc = tj[w].doc
      BY <1>1, <1>2, <2>1, <3>1 DEF LedgerInv, Owns, OneOwner, Working
    <3>3. p = "final" => Answered(tj[w].id) \/ method[tj[w].id] = "gift"
      BY <3>2 DEF Known
    <3> QED
      BY <2>1, <3>1, <3>2, <3>3 DEF Known
  <2>2. CASE v # w
    BY <1>1, <1>2, <2>2 DEF LedgerInv, Owns, Known, TypeOK
  <2> QED
    BY <2>1, <2>2
<1>3. \A s \in Sales : OnRecord(s)'
  BY DEF LedgerInv, OnRecord
<1> QED
  BY <1>2, <1>3

\* the job of a worker that works on it is not another's
LEMMA Exclusive ==
  ASSUME OneOwner, NEW v \in Workers, NEW w \in Workers, v # w, pc[w] \in Working, Owns(v)
  PROVE  tj[v].id # tj[w].id
  BY DEF OneOwner, Owns

\* a worker at work knows its job
LEMMA WorkingKnows ==
  ASSUME LedgerInv, NEW w \in Workers, pc[w] \in Working
  PROVE  Owns(w) /\ Known(w)
<1>1. Owns(w)
  BY DEF LedgerInv, OwnerInv, OneOwner, Owns, Working
<1> QED
  BY <1>1 DEF LedgerInv

LEMMA LedgerInvNext ==
  ASSUME LedgerInv, [Next]_vars
  PROVE  LedgerInv'
<1> TypeOK /\ OneOwner
  BY DEF LedgerInv, OwnerInv
<1>0. OwnerInv'
  BY OwnerNext DEF LedgerInv
<1> DEFINE Kept == /\ \A v \in Workers : Owns(v)' => Known(v)'
                   /\ \A s \in Sales : OnRecord(s)'
<1> SUFFICES Kept
  BY <1>0 DEF LedgerInv
<1> USE DEF kkt
<1>1. CASE UNCHANGED <<pc, tj, prints, method, job>>
  BY <1>1 DEF LedgerInv, Owns, Known, OnRecord
<1>2. ASSUME NEW u \in Sales, PacketFromRobo(u) \/ Reschedule(u) PROVE Kept
  <2>1. UNCHANGED <<pc, tj, prints, method>>
    BY <1>2 DEF PacketFromRobo, Reschedule
  <2>2. ASSUME NEW s \in Sales PROVE OnRecord(s)'
    <3>1. job[s] \in Job
      BY DEF TypeOK
    <3>2. CASE job'[s] = job[s]
      BY <2>1, <3>2 DEF LedgerInv, OnRecord
    <3>3. CASE job[s].st = "none" /\ job'[s] = [NoJob EXCEPT !.st = "sched"]
      BY <2>1, <3>3 DEF LedgerInv, OnRecord, NoJob
    <3>4. CASE job[s].st = "help" /\ job'[s] = [job[s] EXCEPT !.st = "sched"]
      BY <2>1, <3>1, <3>4 DEF LedgerInv, OnRecord, Job
    <3> QED
      BY <1>2, <3>2, <3>3, <3>4 DEF PacketFromRobo, Reschedule, TypeOK
  <2>3. ASSUME NEW v \in Workers, Owns(v)' PROVE Known(v)'
    <3>1. tj[v].id \in Sales /\ job[tj[v].id] \in Job
      BY DEF TypeOK, Copy
    <3>2. NoJob.wk = NoWorker /\ v # NoWorker
      BY TaxAssumption DEF NoJob
    <3>3. \/ job'[tj[v].id] = job[tj[v].id]
          \/ job'[tj[v].id] = [job[tj[v].id] EXCEPT !.st = "sched"]
          \/ job'[tj[v].id] = [NoJob EXCEPT !.st = "sched"]
      BY <1>2, <3>1 DEF PacketFromRobo, Reschedule, TypeOK
    <3>4. job'[tj[v].id].wk = v
      BY <2>1, <2>3 DEF Owns
    <3>5. job[tj[v].id].wk = v
      BY <3>1, <3>2, <3>3, <3>4 DEF Job, NoJob
    <3> QED
      BY <2>1, <2>3, <3>5 DEF LedgerInv, Owns, Known
  <2> QED
    BY <2>2, <2>3
<1>3. ASSUME NEW w \in Workers, Take(w) PROVE Kept
  <2> DEFINE u == Head(due)
  <2>1. u \in Sales /\ job[u] \in Job
    BY <1>3 DEF Take, TypeOK
  <2>2. /\ job[u].st = "sched" /\ UNCHANGED <<prints, method>>
        /\ job' = [job EXCEPT ![u] = [job[u] EXCEPT !.st = "busy", !.wk = w]]
        /\ pc' = [pc EXCEPT ![w] = "process"]
        /\ tj' = [tj EXCEPT ![w] = [id |-> u, doc |-> job[u].doc, qr |-> job[u].qr, try |-> 1]]
    BY <1>3, <2>1 DEF Take, GoTo, TypeOK
  <2> HIDE DEF u
  <2>3. ASSUME NEW v \in Workers, Owns(v)' PROVE Known(v)'
    <3>1. CASE v = w
      <4>1. tj'[v].id = u /\ tj'[v].doc = job[u].doc /\ pc'[v] = "process"
        BY <2>2, <3>1 DEF TypeOK
      <4> QED
        BY <2>1, <2>2, <4>1 DEF LedgerInv, OnRecord, Known, KktSteps
    <3>2. CASE v # w
      <4>1. pc'[v] = pc[v] /\ tj'[v] = tj[v] /\ tj[v].id \in Sales
        BY <2>2, <3>2 DEF TypeOK, Copy
      <4>2. job'[u].wk = w
        BY <2>1, <2>2 DEF TypeOK, Job
      <4>3. Owns(v)
        BY <2>1, <2>2, <2>3, <3>2, <4>1, <4>2 DEF Owns, TypeOK
      <4> QED
        BY <2>2, <4>1, <4>3 DEF LedgerInv, Known
    <3> QED
      BY <3>1, <3>2
  <2>4. ASSUME NEW s \in Sales PROVE OnRecord(s)'
    <3>1. CASE s = u
      <4>1. job'[s].st = "busy"
        BY <2>1, <2>2, <3>1 DEF TypeOK, Job
      <4> QED
        BY <4>1 DEF OnRecord
    <3>2. CASE s # u
      BY <2>2, <3>2 DEF LedgerInv, OnRecord, TypeOK
    <3> QED
      BY <3>1, <3>2
  <2> QED
    BY <2>3, <2>4
<1>4. ASSUME NEW w \in Workers, CheckOps(w) PROVE Kept
  <2>1. pc[w] = "process" /\ UNCHANGED <<job, prints, method, tj>>
    BY <1>4 DEF CheckOps
  <2>2. tj[w].id \in Sales /\ method[tj[w].id] \in AllMethods
    BY TaxAssumption DEF TypeOK, Copy
  <2>3. PICK p \in {"final", "help", "status"} :
          /\ pc' = [pc EXCEPT ![w] = p]
          /\ p = "final" => method[tj[w].id] = "gift"
          /\ p = "status" => method[tj[w].id] = "money"
    BY <1>4, <2>2 DEF CheckOps, GoTo, AllMethods
  <2> QED
    BY <2>1, <2>3, MoveKeeps DEF KktSteps, Holding, Working, PCs
<1>5. ASSUME NEW w \in Workers, KktStatus(w) PROVE Kept
  <2>1. pc[w] = "status" /\ UNCHANGED <<job, prints, method, tj>>
    BY <1>5 DEF KktStatus
  <2>2. PICK p \in {"help", "open", "close", "check", "final", "later"} :
          /\ pc' = [pc EXCEPT ![w] = p]
          /\ p = "check" => tj[w].doc = 0
          /\ p = "final" => tj[w].doc # 0
    <3>1. pc' = [pc EXCEPT ![w] = "help"] \/ pc' = [pc EXCEPT ![w] = StatusNext(w)]
      BY <1>5 DEF KktStatus, GoTo
    <3>2. /\ StatusNext(w) \in {"help", "open", "close", "check", "final", "later"}
          /\ StatusNext(w) = "check" => tj[w].doc = 0
          /\ StatusNext(w) = "final" => tj[w].doc # 0
      BY DEF StatusNext
    <3> QED
      BY <3>1, <3>2
  <2>3. method[tj[w].id] = "money" /\ pc[w] \in Working
    BY <2>1, WorkingKnows DEF Known, KktSteps, Holding, Working, PCs
  <2> QED
    BY <2>1, <2>2, <2>3, MoveKeeps DEF KktSteps, Holding, Working, PCs
<1>6. ASSUME NEW w \in Workers, CycleClose(w) \/ CycleOpen(w) PROVE Kept
  <2>1. pc[w] \in {"open", "close"} /\ UNCHANGED <<job, prints, method>>
    BY <1>6 DEF CycleClose, CycleOpen
  <2>2. PICK p \in {"help", "open", "status"} :
          /\ pc' = [pc EXCEPT ![w] = p]
          /\ tj' = tj \/ tj' = [tj EXCEPT ![w] = [tj[w] EXCEPT !.try = tj[w].try + 1]]
    BY <1>6 DEF CycleClose, CycleOpen, CycleCall, GoTo
  <2>3. method[tj[w].id] = "money" /\ pc[w] \in Working
    BY <2>1, WorkingKnows DEF Known, KktSteps, Holding, Working, PCs
  <2> QED
    BY <2>1, <2>2, <2>3, MoveKeeps DEF Holding, Working, PCs
<1>7. ASSUME NEW w \in Workers, FiscalCheck(w) PROVE Kept
  <2>1. pc[w] = "check" /\ pc[w] \in Working /\ UNCHANGED <<job, method>>
    BY <1>7 DEF FiscalCheck, Holding, Working, PCs
  <2>2. CASE UNCHANGED <<prints, tj>> /\ GoTo(w, "help")
    BY <2>1, <2>2, MoveKeeps DEF GoTo, KktSteps
  <2>3. ASSUME NEW told \in Told, PrintDoc(tj[w].id, told),
               NEW p \in {"final", "help"}, GoTo(w, p), p = "help" <=> told = "nothing",
               Answer(w, told)
        PROVE  Kept
    <3>0. PICK u \in Sales : u = tj[w].id
      BY DEF TypeOK, Copy
    <3> DEFINE d == [no |-> last + 1, told |-> told]
    <3>1. u \in Sales /\ tj[w] \in Copy /\ last \in Nat
      BY DEF TypeOK, Copy
    <3>2. /\ job[u].st = "busy"
          /\ prints' = [prints EXCEPT ![u] = @ \cup {d}]
          /\ pc' = [pc EXCEPT ![w] = p]
      BY <2>1, <2>3, <3>0 DEF PrintDoc, GoTo, OneOwner
    <3>3. /\ tj'[w].id = u /\ \A v \in Workers \ {w} : tj'[v] = tj[v]
          /\ tj'[w].doc = IF told = "number" THEN last + 1 ELSE tj[w].doc
      BY <2>3, <3>0, <3>1 DEF Answer, TypeOK, Copy
    <3>6. /\ Printed(u)' <=> told = "number" \/ Printed(u)
          /\ Answered(u)' <=> told # "nothing" \/ Answered(u)
      <4>1. d.told = told /\ prints'[u] = prints[u] \cup {d}
        BY <3>1, <3>2 DEF TypeOK
      <4> HIDE DEF d
      <4> QED
        BY <4>1
    <3>7. Printed(u) <=> tj[w].doc # 0
      BY <2>1, <3>0, WorkingKnows DEF Known
    <3> HIDE DEF d
    <3>4. ASSUME NEW v \in Workers, Owns(v)' PROVE Known(v)'
      <4>1. CASE v = w
        <5>1. pc'[w] = p
          BY <3>2 DEF TypeOK
        <5>3. Printed(u)' <=> tj'[w].doc # 0
          BY <3>1, <3>3, <3>6, <3>7
        <5>4. p = "final" => Answered(u)'
          BY <2>3, <3>6
        <5> QED
          <6>1. tj'[v].id = u /\ (Printed(u)' <=> tj'[v].doc # 0)
            BY <3>3, <4>1, <5>3
          <6>2. p \notin KktSteps
            BY <2>3 DEF KktSteps
          <6> QED
            BY <4>1, <5>1, <5>4, <6>1, <6>2 DEF Known, KktSteps
      <4>2. CASE v # w
        <5>1. Owns(v) /\ pc'[v] = pc[v] /\ tj'[v] = tj[v]
          BY <2>1, <3>2, <3>3, <3>4, <4>2 DEF Owns, TypeOK
        <5>2. tj[v].id # u /\ tj[v].id \in Sales
          BY <2>1, <3>0, <4>2, <5>1, Exclusive DEF TypeOK, Copy
        <5>3. prints'[tj[v].id] = prints[tj[v].id]
          BY <3>2, <5>2 DEF TypeOK
        <5> QED
          BY <2>1, <5>1, <5>3 DEF LedgerInv, Known
      <4> QED
        BY <4>1, <4>2
    <3>5. ASSUME NEW s \in Sales PROVE OnRecord(s)'
      <4>1. CASE s = u
        BY <2>1, <3>1, <3>2, <4>1 DEF LedgerInv, OnRecord
      <4>2. CASE s # u
        <5>1. prints'[s] = prints[s]
          BY <3>2, <4>2 DEF TypeOK
        <5> QED
          BY <2>1, <5>1 DEF LedgerInv, OnRecord
      <4> QED
        BY <4>1, <4>2
    <3> QED
      BY <3>4, <3>5
  <2>4. \/ UNCHANGED <<prints, tj>> /\ GoTo(w, "help")
        \/ \E told \in Told, p \in {"final", "help"} :
             /\ PrintDoc(tj[w].id, told) /\ GoTo(w, p) /\ Answer(w, told)
             /\ p = "help" <=> told = "nothing"
    BY <1>7 DEF FiscalCheck, Told, Answer
  <2> QED
    BY <2>2, <2>3, <2>4
<1>8. ASSUME NEW w \in Workers, UpdateFinal(w) \/ UpdateScheduleLater(w) \/ UpdateHelp(w)
      PROVE  Kept
  <2>1. pc[w] \in Holding /\ UNCHANGED <<prints, method, tj>>
    BY <1>8 DEF UpdateFinal, UpdateScheduleLater, UpdateHelp, Holding, PCs
  <2>2. PICK p \in {"help", "idle", "receipt"} :
          pc' = [pc EXCEPT ![w] = p] /\ (p = "help" => pc[w] \in Working)
    BY <1>8 DEF UpdateFinal, UpdateScheduleLater, UpdateHelp, GoTo, Holding, Working, PCs
  <2>3. CASE UNCHANGED job
    BY <2>1, <2>2, <2>3, MoveKeeps DEF KktSteps, Holding
  <2>4. CASE \E st \in {"final", "sched", "help"} : Written(w, st)
    <3> DEFINE u == tj[w].id
    <3>1. u \in Sales /\ job[u] \in Job
      BY DEF TypeOK, Copy
    <3>2. PICK st \in {"final", "sched", "help"} :
            /\ job[u].wk = w
            /\ job' = [job EXCEPT ![u] = [job[u] EXCEPT !.st = st, !.doc = tj[w].doc, !.qr = tj[w].qr]]
      BY <2>4 DEF Written
    <3>3. job'[u].st = st /\ job'[u].doc = tj[w].doc /\ job'[u].wk = job[u].wk
      BY <3>1, <3>2 DEF TypeOK, Job
    <3>4. Known(w)
      BY <2>1, <3>2 DEF LedgerInv, Owns
    <3>7. Printed(u) <=> tj[w].doc # 0
      BY <3>4 DEF Known
    <3> HIDE DEF u
    <3>5. ASSUME NEW s \in Sales PROVE OnRecord(s)'
      <4>1. CASE s = u
        BY <2>1, <3>3, <3>7, <4>1 DEF OnRecord
      <4>2. CASE s # u
        BY <2>1, <3>2, <4>2 DEF LedgerInv, OnRecord, TypeOK
      <4> QED
        BY <4>1, <4>2
    <3>6. ASSUME NEW v \in Workers, Owns(v)' PROVE Known(v)'
      <4>1. job'[tj[v].id].wk = job[tj[v].id].wk /\ tj'[v] = tj[v]
        BY <2>1, <3>1, <3>2, <3>3 DEF TypeOK, Copy
      <4>2. CASE v = w
        <5>1. pc'[v] = "help"
          BY <2>2, <3>6, <4>2 DEF Owns, Holding, TypeOK
        <5> QED
          BY <2>1, <3>4, <4>2, <5>1 DEF Known, KktSteps
      <4>3. CASE v # w
        <5>1. pc'[v] = pc[v]
          BY <2>2, <4>3 DEF TypeOK
        <5> QED
          BY <2>1, <3>6, <4>1, <5>1 DEF LedgerInv, Owns, Known
      <4> QED
        BY <4>2, <4>3
    <3> QED
      BY <3>5, <3>6
  <2> QED
    BY <1>8, <2>3, <2>4 DEF UpdateFinal, UpdateScheduleLater, UpdateHelp, Update, UpdateFails
<1>9. ASSUME NEW w \in Workers, SendReceipt(w) \/ Crash(w) PROVE Kept
  BY <1>9, MoveKeeps DEF SendReceipt, Crash, GoTo, Holding
<1> QED
  BY <1>1, <1>2, <1>3, <1>4, <1>5, <1>6, <1>7, <1>8, <1>9
     DEF Next, Process, ComesDue, OfdSends, CycleExpires, vars

-----------------------------------------------------------------------------
(* The queue implements the ledger: every step of a worker, of sponge, of  *)
(* the KKT or of a person is a step of the ledger or leaves it alone.      *)

LEMMA LedgerStarts == Init => Ledger!LedgerInit
<1> SUFFICES ASSUME Init PROVE Ledger!LedgerInit
  OBVIOUS
<1>1. SaleState = [s \in Sales |-> "none"]
  BY DEF Init, SaleState, NoJob
<1>2. Exempt \in [Sales -> BOOLEAN]
  BY DEF Exempt
<1> QED
  BY <1>1, <1>2 DEF Init, Ledger!LedgerInit

\* a final job is doubted as long as its worker is about to undo it
LEMMA DoubtKept ==
  ASSUME OwnerInv, [Next]_vars, NEW s \in Sales, job[s].st = "final", job'[s] = job[s],
         \A w \in Workers : pc[w] = "help" /\ tj[w].id = s => pc'[w] = "help"
  PROVE  Doubted(s)' <=> Doubted(s)
<1>1. ASSUME NEW w \in Workers
      PROVE  pc'[w] = "help" /\ tj'[w].id = s /\ job[s].wk = w
               <=> pc[w] = "help" /\ tj[w].id = s /\ job[s].wk = w
  <2>1. pc[w] \in Working => ~(tj[w].id = s)
    BY DEF OwnerInv, OneOwner
  <2>2. WorkerStep(w)
    BY WorkerSteps
  <2> QED
    BY <2>1, <2>2 DEF WorkerStep, Holding, Working
<1> QED
  BY <1>1 DEF Doubted

\* a sale that is neither new nor closed is open, whatever its job is at
LEMMA OpenStays ==
  ASSUME OwnerInv, [Next]_vars, UNCHANGED <<method, prints>>,
         \A w \in Workers : pc[w] = "help" => pc'[w] = "help",
         \A s \in Sales : \/ job'[s] = job[s]
                          \/ job[s].st \notin {"none", "final"} /\ job'[s].st \notin {"none", "final"}
  PROVE  UNCHANGED Ledger!ledger
<1>1. ASSUME NEW s \in Sales PROVE SaleState'[s] = SaleState[s]
  BY DoubtKept DEF SaleState
<1>2. UNCHANGED <<SaleState, Exempt>>
  BY <1>1 DEF SaleState, Exempt
<1> QED
  BY <1>2 DEF Ledger!ledger

\* one job moves
LEMMA SaleMoves ==
  ASSUME NEW s \in Sales, job \in [Sales -> Job], UNCHANGED method,
         NEW j, job' = [job EXCEPT ![s] = j] \/ (UNCHANGED job /\ j = job[s]),
         \A u \in Sales \ {s} : job[u].st = "final" => (Doubted(u)' <=> Doubted(u)),
         NEW st \in {"open", "closed", "doubted"}, j.st # "none",
         st = "open" <=> j.st # "final",
         j.st = "final" => (st = "doubted" <=> Doubted(s)')
  PROVE  SaleState' = [SaleState EXCEPT ![s] = st] /\ UNCHANGED Exempt
<1>1. ASSUME NEW u \in Sales PROVE SaleState'[u] = IF u = s THEN st ELSE SaleState[u]
  <2>1. CASE u = s
    <3>1. job'[s] = j
      OBVIOUS
    <3> QED
      BY <2>1, <3>1 DEF SaleState
  <2>2. CASE u # s
    <3>1. job'[u] = job[u]
      BY <2>2
    <3> QED
      BY <2>2, <3>1 DEF SaleState
  <2> QED
    BY <2>1, <2>2
<1> QED
  BY <1>1 DEF SaleState, Exempt

\* a worker that gives up settles what was doubted
LEMMA GivesUp ==
  ASSUME OwnerInv, [Next]_vars, UNCHANGED <<method, prints>>,
         NEW w \in Workers, pc[w] = "help", pc' = [pc EXCEPT ![w] = "idle"],
         UNCHANGED job \/ Written(w, "help")
  PROVE  [Ledger!LedgerNext]_(Ledger!ledger)
<1> TypeOK
  BY DEF OwnerInv
<1>0. PICK s \in Sales : s = tj[w].id
  BY DEF TypeOK, Copy
<1>1. s \in Sales /\ job[s] \in Job
  BY DEF TypeOK
<1>2. PICK j : /\ job' = [job EXCEPT ![s] = j] \/ (UNCHANGED job /\ j = job[s])
               /\ j = job[s] \/ (j.st = "help" /\ job[s].wk = w)
  BY <1>0, <1>1 DEF Written, Job
<1>3. \A u \in Sales \ {s} : job'[u] = job[u]
  BY <1>2 DEF TypeOK
<1>4. \A v \in Workers : pc[v] = "help" /\ v # w => pc'[v] = "help"
  BY DEF TypeOK
<1>5. job'[s] = j
  BY <1>1, <1>2 DEF TypeOK
<1>6. pc'[w] = "idle"
  BY DEF TypeOK
<1>7. \A u \in Sales \ {s} : job[u].st = "final" => (Doubted(u)' <=> Doubted(u))
  BY <1>0, <1>3, <1>4, DoubtKept
<1>8. CASE job[s].st = "final" /\ job[s].wk = w
  <2>1. Doubted(s) /\ SaleState[s] = "doubted"
    <3>1. Doubted(s)
      BY <1>0, <1>8 DEF Doubted
    <3> QED
      BY <1>1, <1>8, <3>1 DEF SaleState
  <2>2. j.st = "final" => ~Doubted(s)'
    <3>1. ASSUME j.st = "final", NEW v \in Workers, pc'[v] = "help" /\ job'[s].wk = v
          PROVE  FALSE
      <4>1. j = job[s] /\ v = w
        BY <1>2, <1>5, <1>8, <3>1
      <4> QED
        BY <1>6, <3>1, <4>1
    <3> QED
      BY <3>1 DEF Doubted
  <2>3. PICK st \in {"closed", "open"} : st = "open" <=> j.st # "final"
    OBVIOUS
  <2>4. SaleState' = [SaleState EXCEPT ![s] = st] /\ UNCHANGED Exempt
    <3>1. j.st # "none" /\ st \in {"open", "closed", "doubted"} /\ job \in [Sales -> Job]
      BY <1>2, <1>8, <2>3 DEF TypeOK
    <3>2. /\ st = "open" <=> j.st # "final"
          /\ j.st = "final" => (st = "doubted" <=> Doubted(s)')
      BY <2>2, <2>3
    <3> QED
      BY <1>1, <1>2, <1>7, <3>1, <3>2, SaleMoves
  <2> QED
    BY <1>1, <2>1, <2>4 DEF Ledger!Settle, Ledger!LedgerNext
<1>9. CASE ~(job[s].st = "final" /\ job[s].wk = w)
  <2>1. ASSUME NEW u \in Sales PROVE SaleState'[u] = SaleState[u]
    <3>1. CASE u # s
      BY <1>3, <1>7, <3>1 DEF SaleState
    <3>2. CASE u = s /\ job[s].st = "final"
      <4>1. job'[s] = job[s]
        BY <1>2, <1>5, <1>9, <3>2
      <4>2. SaleState'[s] = SaleState[s]
        <5>1. ASSUME NEW v \in Workers
              PROVE  pc'[v] = "help" /\ tj'[v].id = s /\ job[s].wk = v
                       <=> pc[v] = "help" /\ tj[v].id = s /\ job[s].wk = v
          <6>1. pc[v] \in Working => ~(tj[v].id = s)
            BY <3>2 DEF OwnerInv, OneOwner
          <6>2. WorkerStep(v)
            BY WorkerSteps
          <6> QED
            BY <1>4, <1>6, <1>9, <3>2, <6>1, <6>2 DEF WorkerStep, Holding, Working
        <5>2. (\E v \in Workers : pc'[v] = "help" /\ tj'[v].id = s /\ job'[s].wk = v) <=> Doubted(s)
          BY <4>1, <5>1 DEF Doubted
        <5>3. Doubted(s)' <=> Doubted(s)
          BY <5>2 DEF Doubted
        <5> QED
          BY <1>1, <4>1, <5>3 DEF SaleState
      <4> QED
        BY <3>2, <4>2
    <3>3. CASE u = s /\ job[s].st # "final"
      <4>1. CASE j = job[s]
        BY <1>1, <1>5, <3>3, <4>1 DEF SaleState
      <4>2. CASE j.st = "help" /\ job[s].wk = w
        <5>1. job[s].st # "none"
          BY <1>1, <4>2, TaxAssumption DEF OwnerInv, NewIsNobodys
        <5> QED
          BY <1>5, <3>3, <4>2, <5>1 DEF SaleState
      <4> QED
        BY <1>2, <4>1, <4>2
    <3> QED
      BY <3>1, <3>2, <3>3
  <2>2. UNCHANGED <<SaleState, Exempt>>
    BY <2>1 DEF SaleState, Exempt
  <2> QED
    BY <2>2 DEF Ledger!ledger
<1> QED
  BY <1>8, <1>9

LEMMA LedgerStep ==
  ASSUME LedgerInv, [Next]_vars
  PROVE  [Ledger!LedgerNext]_(Ledger!ledger)
<1> OwnerInv /\ TypeOK /\ OneOwner
  BY DEF LedgerInv, OwnerInv
<1> USE DEF kkt
<1>0. ASSUME UNCHANGED <<job, method, prints>>, \A w \in Workers : pc[w] = "help" => pc'[w] = "help"
      PROVE  UNCHANGED Ledger!ledger
  BY <1>0, OpenStays
<1>1. ASSUME NEW w \in Workers, NEW p, pc[w] # "help", pc' = [pc EXCEPT ![w] = p],
             UNCHANGED <<job, method, prints>>
      PROVE  UNCHANGED Ledger!ledger
  <2>1. \A v \in Workers : pc[v] = "help" => pc'[v] = "help"
    BY <1>1 DEF TypeOK
  <2> QED
    BY <1>0, <1>1, <2>1
<1>2. ASSUME NEW s \in Sales, PacketFromRobo(s) PROVE Ledger!Sell(s)
  <2> DEFINE j == [NoJob EXCEPT !.st = "sched"]
  <2>1. /\ job[s].st = "none" /\ UNCHANGED <<method, prints, pc>>
        /\ job' = [job EXCEPT ![s] = j]
    BY <1>2 DEF PacketFromRobo
  <2>2. j.st = "sched"
    BY DEF NoJob
  <2> HIDE DEF j
  <2>4. \A u \in Sales \ {s} : job[u].st = "final" => (Doubted(u)' <=> Doubted(u))
    BY <2>1, DoubtKept
  <2>3. SaleState' = [SaleState EXCEPT ![s] = "open"] /\ UNCHANGED Exempt
    BY <2>1, <2>2, <2>4, SaleMoves DEF TypeOK
  <2> QED
    BY <2>1, <2>3 DEF Ledger!Sell, SaleState
<1>3. ASSUME NEW s \in Sales, Reschedule(s) PROVE UNCHANGED Ledger!ledger
  <2>1. job[s] \in Job /\ job[s].st = "help" /\ UNCHANGED <<method, prints, pc>>
        /\ job' = [job EXCEPT ![s] = [job[s] EXCEPT !.st = "sched"]]
    BY <1>3 DEF Reschedule, TypeOK
  <2>2. job'[s].st = "sched"
    BY <2>1 DEF TypeOK, Job
  <2> QED
    BY <2>1, <2>2, OpenStays DEF TypeOK
<1>4. ASSUME NEW w \in Workers, Take(w) PROVE UNCHANGED Ledger!ledger
  <2> DEFINE s == Head(due)
  <2>1. s \in Sales
    BY <1>4 DEF Take, TypeOK
  <2>2. job[s] \in Job /\ job[s].st = "sched" /\ UNCHANGED <<method, prints>>
        /\ job' = [job EXCEPT ![s] = [job[s] EXCEPT !.st = "busy", !.wk = w]]
        /\ pc[w] = "idle" /\ pc' = [pc EXCEPT ![w] = "process"]
    BY <1>4, <2>1 DEF Take, GoTo, TypeOK
  <2> HIDE DEF s
  <2>3. job'[s].st = "busy"
    BY <2>1, <2>2 DEF TypeOK, Job
  <2>4. \A v \in Workers : pc[v] = "help" => pc'[v] = "help"
    BY <2>2 DEF TypeOK
  <2> QED
    BY <2>1, <2>2, <2>3, <2>4, OpenStays DEF TypeOK
<1>5. ASSUME NEW w \in Workers, FiscalCheck(w) PROVE [Ledger!LedgerNext]_(Ledger!ledger)
  <2> DEFINE s == tj[w].id
  <2>1. /\ pc[w] = "check" /\ pc[w] \in Working /\ UNCHANGED <<job, method>>
        /\ UNCHANGED prints \/ \E told \in Told : PrintDoc(s, told)
        /\ \E p \in PCs : pc' = [pc EXCEPT ![w] = p]
    BY <1>5 DEF FiscalCheck, GoTo, Told, Holding, Working, PCs
  <2>2. s \in Sales /\ job[s].st = "busy" /\ ~Printed(s) /\ method[s] = "money"
    BY <2>1, WorkingKnows DEF Known, OneOwner, KktSteps, TypeOK, Copy
  <2> HIDE DEF s
  <2>3. ASSUME NEW told \in Told, PrintDoc(s, told)
        PROVE  [Ledger!LedgerNext]_(Ledger!ledger)
    <3> DEFINE d == [no |-> last + 1, told |-> told]
    <3>1. prints' = [prints EXCEPT ![s] = @ \cup {d}] /\ d \in prints'[s]
      BY <2>2, <2>3 DEF PrintDoc, TypeOK
    <3> HIDE DEF d
    <3>4. \A v \in Workers : pc[v] = "help" => pc'[v] = "help"
      BY <2>1 DEF TypeOK
    <3>5. ASSUME NEW u \in Sales PROVE SaleState'[u] = SaleState[u]
      BY <2>1, <3>4, DoubtKept DEF SaleState
    <3>2. SaleState[s] = "open" /\ ~Exempt[s] /\ UNCHANGED <<SaleState, Exempt>>
      BY <2>1, <2>2, <3>5 DEF SaleState, Exempt
    <3> QED
      BY <2>2, <3>1, <3>2 DEF Ledger!PrintSale, Ledger!LedgerNext, Printed
  <2> QED
    BY <1>1, <2>1, <2>3
<1>6. ASSUME NEW w \in Workers, NEW st \in {"final", "sched"}, Written(w, st),
             pc[w] \in Working, UNCHANGED <<method, prints, tj>>, st = "final" => pc[w] = "final",
             NEW p, pc' = [pc EXCEPT ![w] = p]
      PROVE  [Ledger!LedgerNext]_(Ledger!ledger)
  <2>0. PICK s \in Sales : s = tj[w].id
    BY DEF TypeOK, Copy
  <2>1. s \in Sales /\ job[s] \in Job /\ job[s].st = "busy"
    BY <1>6, <2>0 DEF OneOwner, TypeOK
  <2>2. PICK j : job' = [job EXCEPT ![s] = j] /\ j.st = st
    <3>1. job' = [job EXCEPT ![s] = [job[s] EXCEPT !.st = st, !.doc = tj[w].doc, !.qr = tj[w].qr]]
      BY <1>6, <2>0 DEF Written
    <3>2. [job[s] EXCEPT !.st = st, !.doc = tj[w].doc, !.qr = tj[w].qr].st = st
      BY <2>1 DEF Job
    <3> QED
      BY <3>1, <3>2
  <2>3. st = "final" => method[s] = "gift" \/ Answered(s)
    BY <1>6, <2>0, WorkingKnows DEF Known
  <2>6. \A v \in Workers : pc[v] = "help" => pc'[v] = "help"
    BY <1>6 DEF TypeOK, Working
  <2>7. \A u \in Sales \ {s} : job[u].st = "final" => (Doubted(u)' <=> Doubted(u))
    BY <2>2, <2>6, DoubtKept
  <2>4. CASE st = "final"
    <3>0. PICK to \in {"closed", "doubted"} : to = "doubted" <=> Doubted(s)'
      OBVIOUS
    <3>1. SaleState' = [SaleState EXCEPT ![s] = to] /\ UNCHANGED Exempt
      <4>1. to \in {"open", "closed", "doubted"} /\ to # "open" /\ job \in [Sales -> Job]
        BY DEF TypeOK
      <4>2. j.st = "final"
        BY <2>2, <2>4
      <4> QED
        <5>1. /\ to = "open" <=> j.st # "final"
              /\ j.st = "final" => (to = "doubted" <=> Doubted(s)')
          BY <3>0, <4>1, <4>2
        <5> QED
          BY <1>6, <2>1, <2>2, <2>7, <4>1, <4>2, <5>1, SaleMoves
    <3>2. SaleState[s] = "open" /\ (Exempt[s] \/ Answered(s))
      BY <2>1, <2>3, <2>4 DEF SaleState, Exempt
    <3> QED
      BY <1>6, <2>1, <3>1, <3>2 DEF Ledger!Close, Ledger!LedgerNext
  <2>5. CASE st # "final"
    <3>1. job'[s].st \notin {"none", "final"}
      BY <1>6, <2>1, <2>2, <2>5 DEF TypeOK
    <3>2. UNCHANGED Ledger!ledger
      BY <1>6, <2>1, <2>2, <2>6, <3>1, OpenStays DEF TypeOK
    <3> QED
      BY <3>2
  <2> QED
    BY <2>4, <2>5
<1>7. ASSUME NEW w \in Workers, UpdateFinal(w) \/ UpdateScheduleLater(w)
      PROVE  [Ledger!LedgerNext]_(Ledger!ledger)
  <2>1. /\ pc[w] \in Working /\ pc[w] # "help" /\ UNCHANGED <<method, prints, tj>>
        /\ \E p \in PCs : pc' = [pc EXCEPT ![w] = p]
        /\ \/ UNCHANGED job
           \/ \E st \in {"final", "sched"} : Written(w, st) /\ (st = "final" => pc[w] = "final")
    BY <1>7 DEF UpdateFinal, UpdateScheduleLater, Update, UpdateFails, GoTo, Holding, Working, PCs
  <2> QED
    BY <1>1, <1>6, <2>1
<1>8. ASSUME NEW w \in Workers, UpdateHelp(w) \/ (Crash(w) /\ pc[w] = "help")
      PROVE  [Ledger!LedgerNext]_(Ledger!ledger)
  BY <1>8, GivesUp DEF UpdateHelp, Update, UpdateFails, Crash, GoTo
<1>9. ASSUME NEW w \in Workers,
             CheckOps(w) \/ KktStatus(w) \/ CycleClose(w) \/ CycleOpen(w) \/ SendReceipt(w)
               \/ (Crash(w) /\ pc[w] # "help")
      PROVE  UNCHANGED Ledger!ledger
  <2>1. /\ pc[w] # "help" /\ UNCHANGED <<job, method, prints>>
        /\ \E p : pc' = [pc EXCEPT ![w] = p]
    BY <1>9 DEF CheckOps, KktStatus, CycleClose, CycleOpen, CycleCall, SendReceipt, Crash, GoTo
  <2> QED
    BY <1>1, <2>1
<1>10. CASE (\E s \in Sales : ComesDue(s)) \/ OfdSends \/ CycleExpires \/ UNCHANGED vars
  <2>1. UNCHANGED <<job, method, prints, pc>>
    BY <1>10 DEF ComesDue, OfdSends, CycleExpires, vars
  <2> QED
    BY <1>0, <2>1
<1> QED
  BY <1>2, <1>3, <1>4, <1>5, <1>7, <1>8, <1>9, <1>10 DEF Next, Process, Ledger!LedgerNext

(* LedgerKept: a sale has at most one document, and another one only while *)
(* the KKT has not given the number of the first; it is closed only once   *)
(* the KKT has said that it printed one, and stays closed, whatever fails, *)
(* crashes or is put back into the queue, unless the worker that closed it *)
(* was told that its UPDATE failed.                                        *)
THEOREM LedgerKept == Spec => LedgerSpec
<1>1. LedgerInv /\ [Next]_vars => LedgerInv'
  BY LedgerInvNext
<1>2. LedgerInv /\ [Next]_vars => [Ledger!LedgerNext]_(Ledger!ledger)
  BY LedgerStep
<1> QED
  BY LedgerInvInit, LedgerStarts, <1>1, <1>2, PTL DEF Spec, LedgerSpec, Ledger!LedgerSpec

=============================================================================
