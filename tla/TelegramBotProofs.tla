------------------------- MODULE TelegramBotProofs -------------------------
(***************************************************************************)
(* Theorems about TelegramBot, for any clients, updates, faults and        *)
(* restarts.                                                               *)
(***************************************************************************)
EXTENDS TelegramBot, SequenceTheorems, FiniteSetTheorems, TLAPS

USE BotAssumption DEF telegram, process, history, ending, Faults

Has(s, op) == \E k \in 1..Len(s) : s[k] = op

\* a handler charges first, tops up once and counts down last
Plan(s) ==
  /\ s \in Seq(Ops)
  /\ \A k \in 1..Len(s) : s[k] = "done" => k = Len(s)
  /\ \A k \in 1..Len(s) : s[k] = "charge" => k = 1
  /\ \A j, k \in 1..Len(s) : s[j] = "balance" /\ s[k] = "balance" => j = k

\* len: of updates
WorkOK(w, len) ==
  /\ w \in Work /\ Plan(w.ops)
  /\ w.upd <= len
  /\ Has(w.ops, "balance") =>
       w.upd \in Ids /\ w.src \in Ids /\ w.of \in Clients /\ w.n \in Numbers

TypeInv == TypeOK /\ WorkOK(work, Len(updates)) /\ faults.reads + faults.resent <= faults.n

LEMMA TailFacts ==
  ASSUME NEW s \in Seq(Ops), s # <<>>
  PROVE  /\ Tail(s) \in Seq(Ops)
         /\ Len(Tail(s)) = Len(s) - 1
         /\ \A k \in 1..Len(Tail(s)) : k + 1 \in 1..Len(s) /\ Tail(s)[k] = s[k + 1]
OBVIOUS

LEMMA TailPlan ==
  ASSUME NEW s, Plan(s), s # <<>>
  PROVE  /\ Plan(Tail(s))
         /\ \A op \in Ops : Has(Tail(s), op) => Has(s, op)
         /\ \A k \in 1..Len(Tail(s)) : Tail(s)[k] # "charge"
         /\ s[1] = "balance" => ~Has(Tail(s), "balance")
<1> DEFINE t == Tail(s)
<1>0. s \in Seq(Ops) /\ Len(s) \in Nat /\ Len(s) > 0
  BY DEF Plan
<1>1. /\ t \in Seq(Ops) /\ Len(t) = Len(s) - 1 /\ Len(s) \in Nat /\ Len(t) \in Nat
      /\ \A k \in 1..Len(t) : k + 1 \in 1..Len(s) /\ t[k] = s[k + 1]
  BY <1>0, TailFacts
<1> HIDE DEF t
<1>2. \A k \in 1..Len(t) : t[k] # "charge"
  BY <1>1 DEF Plan
<1>3. \A k \in 1..Len(t) : t[k] = "done" => k = Len(t)
  BY <1>1 DEF Plan
<1>4. \A j, k \in 1..Len(t) : t[j] = "balance" /\ t[k] = "balance" => j = k
  BY <1>1 DEF Plan
<1>5. \A op \in Ops : Has(t, op) => Has(s, op)
  BY <1>1 DEF Has
<1>6. s[1] = "balance" => ~Has(t, "balance")
  <2> SUFFICES ASSUME s[1] = "balance", NEW k \in 1..Len(t), t[k] = "balance"
               PROVE  FALSE
    BY DEF Has
  <2> QED
    BY <1>1 DEF Plan
<1> QED
  BY <1>1, <1>2, <1>3, <1>4, <1>5, <1>6 DEF Plan, t

\* the plans of handlers
LEMMA Plans ==
  /\ \A s \in {<<>>, <<"log">>, <<"tell">>, Append(<<>>, "done"), Append(<<"tell">>, "done"),
               Append(<<"invite">>, "done"), Append(<<"insert">>, "done"),
               Append(<<"credit", "tell", "tell">>, "done"), Append(OrderOps, "done")} :
       Plan(s) /\ ~Has(s, "balance")
  /\ Plan(Append(TopUpOps, "tell")) /\ Plan(Append(TopUpOps, "done"))
BY DEF Plan, Has, Ops, OrderOps, TopUpOps

LEMMA IdleOK ==
  ASSUME NEW len \in Nat
  PROVE  WorkOK(Idle, len) /\ Idle.ops = <<>> /\ ~Idle.counted
BY DEF WorkOK, Idle, Work, Plan, Has, Ops

\* a call of a handler
LEMMA StepWork ==
  ASSUME TypeInv, work.ops # <<>>, Step
  PROVE  /\ WorkOK(work', Len(updates))
         /\ handled' \subseteq 1..Len(updates)
         /\ work' = Idle \/ work' = [work EXCEPT !.ops = Tail(@)]
<1>1. /\ work \in Work /\ Plan(work.ops) /\ WorkOK(work, Len(updates))
      /\ handled \subseteq 1..Len(updates) /\ updates \in Seq(Says)
  BY DEF TypeInv, TypeOK, WorkOK
<1>2. Len(updates) \in Nat /\ work.upd \in Int
  BY <1>1 DEF Work, Ids
<1>3. handled' \subseteq 1..Len(updates)
  BY <1>1, <1>2 DEF Step, WorkOK, Work, Ids
<1>4. CASE work' = Idle
  BY <1>2, <1>3, <1>4, IdleOK
<1>5. CASE work' = [work EXCEPT !.ops = Tail(@)]
  <2>1. /\ Plan(Tail(work.ops)) /\ Tail(work.ops) \in Seq(Ops)
        /\ Has(Tail(work.ops), "balance") => Has(work.ops, "balance")
    BY <1>1, TailPlan DEF Plan, Ops
  <2>2. /\ work' \in Work /\ work'.ops = Tail(work.ops) /\ work'.upd = work.upd
        /\ work'.src = work.src /\ work'.of = work.of /\ work'.n = work.n
    BY <1>1, <1>5, <2>1 DEF Work
  <2> QED
    BY <1>1, <1>3, <1>5, <2>1, <2>2 DEF WorkOK
<1> QED
  BY <1>4, <1>5 DEF Step

LEMMA TypeInit == Init => TypeInv
<1> SUFFICES ASSUME Init PROVE TypeInv
  OBVIOUS
<1>1. WorkOK(work, Len(updates))
  BY IdleOK DEF Init
<1>2. work \in Work /\ rows \in [Clients -> Nat]
  BY <1>1 DEF Init, WorkOK
<1> QED
  BY <1>1, <1>2 DEF Init, TypeInv, TypeOK, Running, Alive, Start, Ending, Hows, Amount, Nothing

LEMMA AliveType ==
  ASSUME TypeInv, NEW inner \in BOOLEAN, Counted(inner) \/ AliveAdd \/ AliveDone \/ UNCHANGED alive
  PROVE  alive' \in Alive
<1>1. alive \in Alive
  BY DEF TypeInv, TypeOK
<1>2. CASE AliveAdd
  BY <1>1, <1>2 DEF AliveAdd, Alive
<1>3. CASE AliveDone
  BY <1>1, <1>3 DEF AliveDone, Alive, DonePanics
<1>4. CASE Counted(inner)
  <2>1. CASE UNCHANGED alive
    BY <1>1, <2>1
  <2>2. CASE /\ ~DonePanics
             /\ alive' = [alive EXCEPT !.wg = @ - 1, !.thief = @ \/ ~inner]
    <3>1. alive.wg - 1 \in Nat /\ alive.st \in {"running", "stopping", "finished"}
      BY <1>1, <2>2 DEF Alive, DonePanics
    <3>2. alive' = [st |-> alive.st, wg |-> alive.wg - 1, thief |-> alive.thief \/ ~inner]
      BY <1>1, <2>2 DEF Alive
    <3> QED
      BY <3>1, <3>2 DEF Alive
  <2> QED
    BY <1>4, <2>1, <2>2 DEF Counted
<1> QED
  BY <1>1, <1>2, <1>3, <1>4

LEMMA FaultType ==
  ASSUME TypeInv, NEW kind, Fault(kind) \/ UNCHANGED faults
  PROVE  /\ faults' \in Faults
         /\ faults'.reads + faults'.resent <= faults'.n
<1>1. /\ faults \in Faults
      /\ faults.reads + faults.resent <= faults.n
  BY DEF TypeInv, TypeOK
<1>2. CASE UNCHANGED faults
  BY <1>1, <1>2
<1>3. CASE Fault(kind)
  <2> DEFINE r == faults.reads + (IF kind = "dbRead" THEN 1 ELSE 0)
             d == faults.resent + (IF kind = "resent" THEN 1 ELSE 0)
  <2>1. /\ r \in Nat /\ d \in Nat /\ faults.n + 1 \in 0..MaxFaults
        /\ r + d <= faults.n + 1
    BY <1>1, <1>3 DEF Fault
  <2>2. faults' = [n |-> faults.n + 1, reads |-> r, resent |-> d]
    BY <1>3 DEF Fault
  <2> HIDE DEF r, d
  <2>3. r \in 0..MaxFaults /\ d \in 0..MaxFaults
    BY <2>1
  <2> QED
    BY <2>1, <2>2, <2>3
<1> QED
  BY <1>2, <1>3

LEMMA SeqMono ==
  ASSUME NEW S, NEW T, S \subseteq T, NEW s \in Seq(S)
  PROVE  s \in Seq(T)
OBVIOUS

LEMMA LenMono ==
  ASSUME NEW m \in Nat, NEW n \in Nat, m <= n, NEW w, WorkOK(w, m)
  PROVE  WorkOK(w, n)
BY DEF WorkOK, Work, Ids

LEMMA TypeSay ==
  ASSUME TypeInv, NEW u \in Says, Say(u)
  PROVE  TypeInv'
<1>1. /\ updates' \in Seq(Says) /\ Len(updates') = Len(updates) + 1
      /\ Len(updates') \in Nat /\ Len(updates) \in Nat /\ Len(updates') <= MaxMessages
  BY DEF TypeInv, TypeOK, Say
<1>2. 1..Len(updates) \subseteq 1..Len(updates')
  BY <1>1
<1>3. tgch' \in Seq(1..Len(updates')) /\ heard' \in Seq(1..Len(updates'))
  BY <1>2, SeqMono DEF TypeInv, TypeOK, Say
<1>4. /\ work' = work /\ WorkOK(work, Len(updates)) /\ work \in Work
  BY DEF TypeInv, TypeOK, Say
<1>5. WorkOK(work, Len(updates'))
  BY <1>1, <1>4, LenMono
<1>6. /\ TypeOK /\ faults' = faults /\ faults.reads + faults.resent <= faults.n
  BY DEF TypeInv, Say
<1>7. 0..Len(updates) \subseteq 0..Len(updates')
  BY <1>1
<1>8. TypeOK'
  BY <1>1, <1>2, <1>3, <1>4, <1>6, <1>7 DEF TypeOK, Say
<1> QED
  BY <1>4, <1>5, <1>6, <1>8 DEF TypeInv

\* the ids that one answer of Telegram brings
LEMMA RunOfIds ==
  ASSUME NEW c \in Nat, NEW n \in Nat, NEW S, \A k \in 1..n : c + k \in S
  PROVE  /\ [k \in 1..n |-> c + k] \in Seq(S)
         /\ Len([k \in 1..n |-> c + k]) = n
         /\ \A k \in 1..n : [i \in 1..n |-> c + i][k] = c + k
<1> DEFINE new == [k \in 1..n |-> c + k]
<1>1. new \in [1..n -> S] /\ DOMAIN new = 1..n /\ \A k \in 1..n : new[k] = c + k
  OBVIOUS
<1> HIDE DEF new
<1>2. new \in Seq(S)
  <2>1. new \in UNION {[1..i -> S] : i \in Nat}
    BY <1>1, Zenon
  <2>2. Seq(S) = UNION {[1..i -> S] : i \in Nat}
    BY SeqDef, Zenon
  <2> HIDE DEF new
  <2> QED
    BY <2>1, <2>2, Zenon
<1>3. Len(new) \in Nat /\ 1..Len(new) = 1..n
  BY <1>1, <1>2, LenProperties
<1>4. Len(new) = n
  BY <1>3, SMT
<1> QED
  BY <1>1, <1>2, <1>4 DEF new

LEMMA TypeGot ==
  ASSUME TypeInv, GetUpdates \/ GotUpdates
  PROVE  TypeInv'
<1>1. CASE GetUpdates
  BY <1>1 DEF TypeInv, TypeOK, GetUpdates
<1>2. CASE GotUpdates
  <2> DEFINE n == Len(updates) - confirmed
             new == [k \in 1..n |-> confirmed + k]
  <2>1. n \in Nat /\ Len(updates) \in Nat /\ confirmed \in Nat /\ n = Len(updates) - confirmed
    BY <1>2 DEF TypeInv, TypeOK, GotUpdates
  <2>2. new \in Seq(1..Len(updates))
    <3> HIDE DEF n
    <3>1. \A k \in 1..n : confirmed + k \in 1..Len(updates)
      BY <2>1
    <3> QED
      BY <2>1, <3>1, RunOfIds
  <2>3. tgch' \in Seq(1..Len(updates'))
    <3>1. /\ tgch' = tgch \o new /\ updates' = updates
          /\ tgch \in Seq(1..Len(updates))
      BY <1>2 DEF TypeInv, TypeOK, GotUpdates, telegram
    <3> HIDE DEF new
    <3>2. tgch \o new \in Seq(1..Len(updates))
      BY <2>2, <3>1
    <3> QED
      BY <3>1, <3>2
  <2>4. offset' = Len(updates) /\ UNCHANGED <<telegram, rows, orders, process, forvardMsg, work, bonus,
                                               links, alive, faults, history, ending>>
    BY <1>2, Zenon DEF GotUpdates
  <2>5. offset' \in 0..Len(updates')
    BY <2>1, <2>4
  <2> HIDE DEF n, new
  <2> QED
    BY <2>3, <2>4, <2>5 DEF TypeInv, TypeOK
<1> QED
  BY <1>1, <1>2

\* a text instead of an invitation
LEMMA RetoldPlan ==
  ASSUME NEW s, Plan(s), s # <<>>, s[1] = "invite"
  PROVE  /\ Plan(<<"tell">> \o Tail(s))
         /\ <<"tell">> \o Tail(s) # <<>>
         /\ Len(<<"tell">> \o Tail(s)) = Len(s)
         /\ \A k \in 1..Len(s) : (<<"tell">> \o Tail(s))[k] = IF k = 1 THEN "tell" ELSE s[k]
         /\ \A op \in Ops \ {"tell"} : Has(<<"tell">> \o Tail(s), op) => Has(s, op)
<1> DEFINE t == <<"tell">> \o Tail(s)
<1>0. s \in Seq(Ops) /\ Len(s) \in Nat /\ Len(s) > 0
  BY DEF Plan
<1>1. /\ t \in Seq(Ops) /\ Len(t) = Len(s)
      /\ \A k \in 1..Len(s) : t[k] = IF k = 1 THEN "tell" ELSE s[k]
  <2>1. Tail(s) \in Seq(Ops) /\ Len(Tail(s)) = Len(s) - 1
    BY <1>0, TailFacts
  <2>2. \A k \in 1..Len(Tail(s)) : Tail(s)[k] = s[k + 1]
    BY <1>0, TailFacts
  <2>3. <<"tell">> \in Seq(Ops) /\ Len(<<"tell">>) = 1 /\ <<"tell">>[1] = "tell"
    BY DEF Ops
  <2> QED
    BY <1>0, <2>1, <2>2, <2>3
<1> HIDE DEF t
<1>2. Plan(t)
  BY <1>0, <1>1 DEF Plan
<1>3. \A op \in Ops \ {"tell"} : Has(t, op) => Has(s, op)
  BY <1>0, <1>1 DEF Has
<1>4. t # <<>>
  BY <1>0, <1>1
<1> QED
  BY <1>1, <1>2, <1>3, <1>4 DEF t

LEMMA RetoldWork ==
  ASSUME TypeInv, At("invite"), work' = [work EXCEPT !.ops = <<"tell">> \o Tail(@)]
  PROVE  WorkOK(work', Len(updates))
<1>1. work \in Work /\ Plan(work.ops) /\ WorkOK(work, Len(updates)) /\ work.ops # <<>>
  BY DEF TypeInv, TypeOK, WorkOK, At
<1>2. work.ops[1] = "invite" /\ "balance" \in Ops \ {"tell"}
  BY DEF At, Ops
<1>3. /\ Plan(work'.ops) /\ work'.ops \in Seq(Ops)
      /\ Has(work'.ops, "balance") => Has(work.ops, "balance")
  <2>1. work'.ops = <<"tell">> \o Tail(work.ops)
    BY <1>1 DEF Work
  <2>2. /\ Plan(<<"tell">> \o Tail(work.ops))
        /\ Has(<<"tell">> \o Tail(work.ops), "balance") => Has(work.ops, "balance")
    BY <1>1, <1>2, RetoldPlan, Zenon
  <2> QED
    BY <2>1, <2>2 DEF Plan
<1>4. /\ work' \in Work /\ work'.upd = work.upd
      /\ work'.src = work.src /\ work'.of = work.of /\ work'.n = work.n
  BY <1>1, <1>3 DEF Work
<1> QED
  BY <1>1, <1>3, <1>4 DEF WorkOK

Calls == TgSend \/ Log \/ Invite \/ AddCredit \/ OtherUpdate \/ AddUserToDB \/ StartBonus \/ Done

LEMMA TypeCalls ==
  ASSUME TypeInv, Calls
  PROVE  TypeInv'
<1>1. /\ WorkOK(work', Len(updates)) /\ handled' \subseteq 1..Len(updates)
      /\ work' \in Work
  <2>1. CASE Step
    BY <2>1, StepWork DEF Calls, TgSend, Log, Invite, AddCredit, OtherUpdate, AddUserToDB,
                          StartBonus, Done, At, WorkOK
  <2>2. CASE ~Step
    BY <2>2, RetoldWork DEF Calls, TgSend, Log, Invite, AddCredit, OtherUpdate, AddUserToDB,
                          StartBonus, Done, WorkOK, TypeInv, TypeOK
  <2> QED
    BY <2>1, <2>2
<1>2. alive' \in Alive
  BY AliveType DEF Calls, TgSend, Log, Invite, AddCredit, OtherUpdate, AddUserToDB, StartBonus, Done
<1>3. faults' \in Faults /\ faults'.reads + faults'.resent <= faults'.n
  BY FaultType DEF Calls, TgSend, Log, Invite, AddCredit, OtherUpdate, AddUserToDB, StartBonus, Done
<1>4. topups' \in Seq(TopUp)
  <2>1. CASE AddCredit
    <3>1. Has(work.ops, "balance")
      BY <2>1 DEF AddCredit, At, Has, TypeInv, TypeOK, Work
    <3> DEFINE t(times) == [life |-> life, upd |-> work.upd, src |-> work.src,
                            of |-> work.of, n |-> work.n, times |-> times]
    <3>2. \A times \in {1, 2} : t(times) \in TopUp
      BY <3>1 DEF TypeInv, TypeOK, WorkOK, TopUp
    <3>3. topups' = topups \/ \E times \in {1, 2} : topups' = Append(topups, t(times))
      BY <2>1 DEF AddCredit, TopsUp
    <3>4. topups \in Seq(TopUp)
      BY DEF TypeInv, TypeOK
    <3> HIDE DEF t
    <3> QED
      BY <3>2, <3>3, <3>4
  <2>2. CASE ~AddCredit
    BY <2>2 DEF Calls, TgSend, Log, Invite, OtherUpdate, AddUserToDB, StartBonus, Done, TypeInv, TypeOK
  <2> QED
    BY <2>1, <2>2
<1>5. rows' \in [Clients -> Nat] /\ links' \in Nat /\ bonus' \in [asleep : Nat, logs : Nat]
  <2>1. rows \in [Clients -> Nat] /\ links \in Nat /\ bonus \in [asleep : Nat, logs : Nat]
    BY DEF TypeInv, TypeOK
  <2>2. rows' = rows \/ (\E c : \E n \in {1, 2} : rows' = [rows EXCEPT ![c] = @ + n])
    BY DEF Calls, TgSend, Log, Invite, AddCredit, OtherUpdate, AddUserToDB, Inserts, StartBonus, Done
  <2>3. links' = links \/ links' = links + 1
    BY DEF Calls, TgSend, Log, Invite, AddCredit, OtherUpdate, AddUserToDB, StartBonus, Done
  <2>4. bonus' = bonus \/ bonus' = [bonus EXCEPT !.asleep = @ + 1]
    BY DEF Calls, TgSend, Log, Invite, AddCredit, OtherUpdate, AddUserToDB, StartBonus, Done
  <2> QED
    BY <2>1, <2>2, <2>3, <2>4
<1>6. UNCHANGED <<updates, confirmed, aged, orders, up, life, offset, tgch, forvardMsg, heard, lost, last>>
  BY DEF Calls, TgSend, Log, Invite, AddCredit, OtherUpdate, AddUserToDB, StartBonus, Done
<1> QED
  BY <1>1, <1>2, <1>3, <1>4, <1>5, <1>6 DEF TypeInv, TypeOK

\* what the loop does that tops nobody up, in a handler that Alive counts or
\* not
PlainOps == {<<"log">>, <<"tell">>}
CountedOps == {Append(<<>>, "done"), Append(<<"tell">>, "done"), Append(<<"invite">>, "done"),
               Append(<<"insert">>, "done")}

PlainWork(s, i, c) == [ops |-> s, upd |-> i, src |-> 0, of |-> None, n |-> 0, counted |-> c]

\* how an update is taken: i is its id, u the update
Plainly(i) ==
  \/ UNCHANGED alive /\ \E s \in PlainOps : work' = PlainWork(s, i, FALSE)
  \/ AliveAdd /\ \E s \in CountedOps : work' = PlainWork(s, i, alive.st = "running")

AsPost(i, u) ==
  /\ u.kind = "post" /\ UNCHANGED alive
  /\ work' = [ops |-> Append(TopUpOps, "tell"), upd |-> i, src |-> i, of |-> u.of, n |-> u.n,
              counted |-> FALSE]
  /\ UNCHANGED <<forvardMsg, heard>>

ForWhom(s, i, u) ==
  [ops |-> s, upd |-> i, src |-> AmountOf(i).src, of |-> u.of, n |-> AmountOf(i).n,
   counted |-> alive.st = "running"]

AsForward(i, u) ==
  /\ AliveAdd /\ u.kind = "forward" /\ AmountOf(i) # Nothing /\ u.of \in Clients
  /\ \/ AmountOf(i).what = "bablo" /\ work' = ForWhom(Append(TopUpOps, "done"), i, u)
     \/ work' = ForWhom(Append(<<"credit", "tell", "tell">>, "done"), i, u)

\* what becomes of the amount that waits
Noted(i, u) ==
  \/ u.kind = "forward" /\ forvardMsg' = Nothing /\ heard' = Append(heard, i)
  \/ /\ u.kind = "number" /\ forvardMsg' = [what |-> u.what, n |-> u.n, src |-> i]
     /\ heard' = Append(heard, i) /\ Plainly(i)
  \/ UNCHANGED <<forvardMsg, heard>> /\ (Plainly(i) \/ AsPost(i, u))

LEMMA NextUpdate ==
  ASSUME TypeInv, tgch # <<>>
  PROVE  /\ Head(tgch) \in 1..Len(updates) /\ Head(tgch) \in Ids
         /\ updates[Head(tgch)] \in Says /\ updates[Head(tgch)] \in Update
         /\ Tail(tgch) \in Seq(1..Len(updates))
<1>1. /\ tgch \in Seq(1..Len(updates)) /\ updates \in Seq(Says)
      /\ Len(updates) \in Nat /\ Len(updates) <= MaxMessages
  BY DEF TypeInv, TypeOK
<1> QED
  BY <1>1 DEF Ids

LEMMA DoPlain ==
  ASSUME NEW i, NEW ops, Do(i, ops), AliveAdd, Append(ops, "done") \in CountedOps
  PROVE  Plainly(i)
<1>1. work' = PlainWork(Append(ops, "done"), i, alive.st = "running")
  BY DEF Do, PlainWork, Idle
<1> QED
  BY <1>1 DEF Plainly

LEMMA Taken ==
  ASSUME TypeInv, TakeUpdate, NEW i, i = Head(tgch), NEW u, u = updates[i]
  PROVE  /\ Plainly(i) \/ AsPost(i, u) \/ AsForward(i, u)
         /\ Noted(i, u)
<1>1. /\ i \in 1..Len(updates) /\ u \in Update /\ u \in Says
  BY NextUpdate DEF TakeUpdate
<1>2. /\ <<"log">> \in PlainOps /\ <<"tell">> \in PlainOps
      /\ \A s \in {<<>>, <<"tell">>, <<"invite">>, <<"insert">>} : Append(s, "done") \in CountedOps
  BY DEF PlainOps, CountedOps
<1>3. CASE Uncounted(i)
  <2>1. CASE u.kind = "post"
    BY <1>3, <2>1 DEF Uncounted, AsPost, Noted
  <2>2. CASE u.kind # "post"
    <3>1. work' = PlainWork(<<"log">>, i, FALSE) /\ UNCHANGED alive
      BY <1>3, <2>2 DEF Uncounted, Idle, PlainWork
    <3>2. Plainly(i)
      BY <1>2, <3>1 DEF Plainly
    <3> QED
      BY <1>3, <3>2 DEF Uncounted, Noted
  <2> QED
    BY <2>1, <2>2
<1>4. CASE TellLate(i)
  <2>1. work' = PlainWork(<<"tell">>, i, FALSE) /\ UNCHANGED alive
    BY <1>4 DEF TellLate, Idle, PlainWork
  <2>2. Plainly(i)
    BY <1>2, <2>1 DEF Plainly
  <2> QED
    BY <1>4, <2>2 DEF TellLate, Noted
<1>5. CASE OnTeleBot(i)
  <2>0. AliveAdd
    BY <1>5 DEF OnTeleBot
  <2>1. CASE RegisterNewUser(i)
    BY <1>2, <2>0, <2>1, DoPlain DEF RegisterNewUser, Noted
  <2>2. CASE Do(i, <<>>) /\ UNCHANGED <<forvardMsg, heard>>
    BY <1>2, <2>0, <2>2, DoPlain DEF Noted
  <2>3. CASE Answer(i)
    <3>1. CASE u.kind = "forward" /\ Forward(i)
      <4>1. Noted(i, u)
        BY <3>1 DEF Forward, Forgets, Noted
      <4>2. CASE Do(i, <<>>) \/ Do(i, <<"tell">>)
        BY <1>2, <2>0, <4>1, <4>2, DoPlain
      <4>3. CASE ~(Do(i, <<>>) \/ Do(i, <<"tell">>))
        <5>1. /\ AmountOf(i) # Nothing /\ u.of # None
              /\ DoFor(i, IF AmountOf(i).what = "bablo" THEN TopUpOps
                          ELSE <<"credit", "tell", "tell">>, AmountOf(i), u.of)
          BY <3>1, <4>3 DEF Forward
        <5>2. u.of \in Clients
          BY <1>1, <5>1 DEF Update
        <5>3. CASE AmountOf(i).what = "bablo"
          <6>1. DoFor(i, TopUpOps, AmountOf(i), u.of)
            BY <5>1, <5>3
          <6>2. work' = ForWhom(Append(TopUpOps, "done"), i, u)
            BY <6>1 DEF DoFor, ForWhom
          <6> QED
            BY <2>0, <3>1, <4>1, <5>1, <5>2, <5>3, <6>2 DEF AsForward
        <5>4. CASE AmountOf(i).what # "bablo"
          <6>1. DoFor(i, <<"credit", "tell", "tell">>, AmountOf(i), u.of)
            BY <5>1, <5>4
          <6>2. work' = ForWhom(Append(<<"credit", "tell", "tell">>, "done"), i, u)
            BY <6>1 DEF DoFor, ForWhom
          <6> QED
            BY <2>0, <3>1, <4>1, <5>1, <5>2, <5>4, <6>2 DEF AsForward
        <5> QED
          BY <5>3, <5>4
      <4> QED
        BY <4>1, <4>2, <4>3
    <3>2. CASE /\ u.kind = "number" /\ forvardMsg' = [what |-> u.what, n |-> u.n, src |-> i]
               /\ heard' = Append(heard, i) /\ Do(i, <<>>)
      BY <1>2, <2>0, <3>2, DoPlain DEF Noted
    <3>3. CASE /\ Do(i, <<>>) \/ Do(i, <<"invite">>) \/ Do(i, <<"tell">>)
               /\ UNCHANGED <<forvardMsg, heard>>
      BY <1>2, <2>0, <3>3, DoPlain DEF Noted
    <3> QED
      BY <2>3, <3>1, <3>2, <3>3 DEF Answer
  <2> QED
    BY <1>5, <2>1, <2>2, <2>3 DEF OnTeleBot
<1> QED
  BY <1>3, <1>4, <1>5 DEF TakeUpdate

LEMMA AmountType ==
  ASSUME TypeInv, NEW i \in 1..Len(updates), AmountOf(i) # Nothing
  PROVE  AmountOf(i) \in Amount
<1>1. /\ forvardMsg \in Amount \cup {Nothing} /\ i \in Ids
      /\ updates[i] \in Update
  BY DEF TypeInv, TypeOK, Ids
<1>2. updates[i].n \in Numbers \cup {0}
  BY <1>1 DEF Update
<1> QED
  BY <1>1, <1>2 DEF AmountOf, Amount

LEMMA TakenWork ==
  ASSUME TypeInv, TakeUpdate
  PROVE  /\ WorkOK(work', Len(updates))
         /\ work'.upd = Head(tgch) /\ work'.ops # <<>>
<1> DEFINE i == Head(tgch)
           u == updates[i]
<1>1. /\ i \in 1..Len(updates) /\ i \in Ids /\ u \in Update /\ u \in Says /\ Len(updates) \in Nat
  <2>1. tgch # <<>> /\ Len(updates) \in Nat
    BY DEF TakeUpdate, TypeInv, TypeOK
  <2> QED
    BY <2>1, NextUpdate
<1>2. Plainly(i) \/ AsPost(i, u) \/ AsForward(i, u)
  BY Taken
<1> HIDE DEF i, u
<1>3. CASE Plainly(i)
  <2>1. PICK s \in PlainOps \cup CountedOps, c \in BOOLEAN : work' = PlainWork(s, i, c)
    BY <1>3 DEF Plainly
  <2>2. Plan(s) /\ ~Has(s, "balance") /\ s \in Seq(Ops) /\ s # <<>>
    <3>1. Plan(s) /\ ~Has(s, "balance")
      BY <2>1, Plans, Zenon DEF PlainOps, CountedOps
    <3>2. s # <<>>
      BY <2>1 DEF PlainOps, CountedOps
    <3> QED
      BY <3>1, <3>2 DEF Plan
  <2>3. work' \in Work /\ work'.ops = s /\ work'.upd = i
    BY <1>1, <2>1, <2>2 DEF Work, PlainWork
  <2> QED
    BY <1>1, <2>2, <2>3 DEF WorkOK, i
<1>4. CASE AsPost(i, u)
  <2> DEFINE s == Append(TopUpOps, "tell")
  <2>1. Plan(s) /\ s \in Seq(Ops) /\ s # <<>>
    BY Plans DEF Plan, TopUpOps
  <2>2. u.of \in Clients /\ u.n \in Numbers
    BY <1>1, <1>4 DEF AsPost, Update
  <2> HIDE DEF s
  <2>3. work' = [ops |-> s, upd |-> i, src |-> i, of |-> u.of, n |-> u.n, counted |-> FALSE]
    BY <1>4 DEF AsPost, s
  <2>4. /\ work' \in Work /\ work'.ops = s /\ work'.upd = i /\ work'.src = i
        /\ work'.of = u.of /\ work'.n = u.n
    BY <1>1, <2>1, <2>2, <2>3 DEF Work
  <2> QED
    BY <1>1, <2>1, <2>2, <2>4 DEF WorkOK, i
<1>5. CASE AsForward(i, u)
  <2>1. AmountOf(i) \in Amount /\ u.of \in Clients
    BY <1>1, <1>5, AmountType DEF AsForward
  <2>2. PICK s \in {Append(TopUpOps, "done"), Append(<<"credit", "tell", "tell">>, "done")} :
          work' = ForWhom(s, i, u)
    BY <1>5 DEF AsForward
  <2>3. Plan(s) /\ s \in Seq(Ops) /\ s # <<>>
    <3>1. Plan(s)
      BY <2>2, Plans, Zenon
    <3>2. s # <<>>
      BY <2>2 DEF TopUpOps
    <3> QED
      BY <3>1, <3>2 DEF Plan
  <2>4. /\ work' \in Work /\ work'.ops = s /\ work'.upd = i /\ work'.src = AmountOf(i).src
        /\ work'.of = u.of /\ work'.n = AmountOf(i).n
    <3>1. (alive.st = "running") \in BOOLEAN
      OBVIOUS
    <3> QED
      BY <1>1, <2>1, <2>2, <2>3, <3>1 DEF Work, ForWhom, Amount
  <2> QED
    BY <1>1, <2>1, <2>3, <2>4 DEF WorkOK, i, Amount
<1> QED
  BY <1>2, <1>3, <1>4, <1>5

LEMMA TypeTake ==
  ASSUME TypeInv, TakeUpdate
  PROVE  TypeInv'
<1> DEFINE i == Head(tgch)
           u == updates[i]
<1>1. /\ i \in 1..Len(updates) /\ i \in Ids /\ u \in Update /\ u \in Says /\ Len(updates) \in Nat
      /\ Tail(tgch) \in Seq(1..Len(updates)) /\ heard \in Seq(1..Len(updates))
      /\ forvardMsg \in Amount \cup {Nothing} /\ aged \in 0..Len(updates)
  <2>1. /\ tgch # <<>> /\ Len(updates) \in Nat /\ heard \in Seq(1..Len(updates))
        /\ forvardMsg \in Amount \cup {Nothing} /\ aged \in 0..Len(updates)
    BY DEF TakeUpdate, TypeInv, TypeOK
  <2> QED
    BY <2>1, NextUpdate
<1>2. Noted(i, u)
  BY Taken
<1>3. WorkOK(work', Len(updates)) /\ work' \in Work
  BY TakenWork DEF WorkOK
<1> HIDE DEF i, u
<1>4. forvardMsg' \in Amount \cup {Nothing} /\ heard' \in Seq(1..Len(updates))
  <2>1. u.kind = "number" => u.n \in Numbers /\ u.what \in {"bablo", "credit"}
    BY <1>1 DEF Update
  <2>2. Append(heard, i) \in Seq(1..Len(updates))
    BY <1>1
  <2>3. heard' \in {heard, Append(heard, i)}
    BY <1>2 DEF Noted
  <2>4. \/ forvardMsg' \in {forvardMsg, Nothing}
        \/ u.kind = "number" /\ forvardMsg' = [what |-> u.what, n |-> u.n, src |-> i]
    BY <1>2 DEF Noted
  <2>5. u.kind = "number" => [what |-> u.what, n |-> u.n, src |-> i] \in Amount
    BY <1>1, <2>1 DEF Amount
  <2> QED
    BY <1>1, <2>2, <2>3, <2>4, <2>5
<1>5. /\ alive' \in Alive
      /\ faults' \in Faults /\ faults'.reads + faults'.resent <= faults'.n
  <2>1. (UNCHANGED alive \/ AliveAdd) /\ (UNCHANGED faults \/ Fault("dbRead"))
    BY DEF TakeUpdate, Uncounted, TellLate, OnTeleBot, Answer, Forward
  <2> QED
    BY <2>1, AliveType, FaultType
<1>6. aged' \in 0..Len(updates)
  <2>1. aged' \in {aged, i}
    BY DEF TakeUpdate, TellLate, i
  <2> QED
    BY <1>1, <2>1
<1>7. /\ tgch' = Tail(tgch)
      /\ UNCHANGED <<updates, confirmed, rows, orders, up, life, offset, bonus, links,
                     topups, handled, lost, last>>
  BY DEF TakeUpdate
<1> QED
  BY <1>1, <1>3, <1>4, <1>5, <1>6, <1>7 DEF TypeInv, TypeOK

LEMMA OrderWork ==
  ASSUME TypeInv, TakeOrder
  PROVE  /\ WorkOK(work', Len(updates))
         /\ work' = [ops |-> Append(OrderOps, "done"), upd |-> 0, src |-> 0, of |-> None, n |-> 0,
                     counted |-> alive.st = "running"]
<1> DEFINE s == Append(OrderOps, "done")
<1>1. Plan(s) /\ ~Has(s, "balance") /\ s \in Seq(Ops)
  BY Plans, Zenon DEF Plan
<1> HIDE DEF s
<1>2. work' = [ops |-> s, upd |-> 0, src |-> 0, of |-> None, n |-> 0, counted |-> alive.st = "running"]
  BY DEF TakeOrder, Do, Idle, s
<1>3. (alive.st = "running") \in BOOLEAN /\ 0 <= Len(updates)
  BY DEF TypeInv, TypeOK
<1>4. work' \in Work /\ work'.ops = s /\ work'.upd = 0
  BY <1>1, <1>2, <1>3 DEF Work
<1> QED
  BY <1>1, <1>2, <1>3, <1>4 DEF WorkOK, s

LEMMA TypeOrder ==
  ASSUME TypeInv, TakeOrder
  PROVE  TypeInv'
<1>1. WorkOK(work', Len(updates)) /\ work' \in Work
  BY OrderWork DEF WorkOK
<1>2. alive' \in Alive
  BY AliveType DEF TakeOrder
<1>3. orders' \in 0..MaxMessages
  BY DEF TakeOrder, TypeInv, TypeOK
<1> QED
  BY <1>1, <1>2, <1>3 DEF TakeOrder, TypeInv, TypeOK

LEMMA TypeBonus ==
  ASSUME TypeInv, PayBonus \/ LogBonus \/ AliveFinish \/ Signal
  PROVE  TypeInv'
<1>1. bonus \in [asleep : Nat, logs : Nat] /\ alive \in Alive
  BY DEF TypeInv, TypeOK
<1>2. bonus' \in [asleep : Nat, logs : Nat]
  <2>1. CASE PayBonus
    BY <1>1, <2>1 DEF PayBonus
  <2>2. CASE LogBonus
    BY <1>1, <2>2 DEF LogBonus
  <2>3. CASE AliveFinish \/ Signal
    BY <1>1, <2>3 DEF AliveFinish, Signal
  <2> QED
    BY <2>1, <2>2, <2>3
<1>3. alive' \in Alive
  <2>1. CASE PayBonus
    BY <1>1, <2>1 DEF PayBonus
  <2>2. CASE LogBonus
    BY <2>2, AliveType DEF LogBonus
  <2>3. CASE AliveFinish \/ Signal
    BY <1>1, <2>3 DEF AliveFinish, Signal, Alive
  <2> QED
    BY <2>1, <2>2, <2>3
<1>4. faults' \in Faults /\ faults'.reads + faults'.resent <= faults'.n
  BY FaultType DEF PayBonus, LogBonus, AliveFinish, Signal
<1>5. UNCHANGED <<updates, confirmed, aged, rows, orders, up, life, offset, tgch, forvardMsg, work,
                  links, heard, topups, handled, lost, last>>
  BY DEF PayBonus, LogBonus, AliveFinish, Signal
<1> QED
  BY <1>2, <1>3, <1>4, <1>5 DEF TypeInv, TypeOK

Ends == LoopReturns \/ WaitReturns \/ TimeIsUp \/ Crash \/ DoneTooMany \/ DeleteInvite

LEMMA Ended ==
  ASSUME Ends
  PROVE  \E how \in Hows, link \in BOOLEAN : Die(how, link)
BY DEF Ends, LoopReturns, WaitReturns, TimeIsUp, Crash, DoneTooMany, DeleteInvite, Hows

LEMMA TypeEnd ==
  ASSUME TypeInv, Ends
  PROVE  TypeInv'
<1>1. PICK how \in Hows, link \in BOOLEAN : Die(how, link)
  BY Ended
<1>2. Len(updates) \in Nat /\ confirmed \in 0..Len(updates) /\ lost \subseteq 1..Len(updates)
  BY DEF TypeInv, TypeOK
<1>3. lost' \subseteq 1..Len(updates)
  <2>1. lost' = lost \cup {i \in 1..confirmed : i \notin handled}
    BY <1>1 DEF Die
  <2>2. 1..confirmed \subseteq 1..Len(updates)
    BY <1>2
  <2> QED
    BY <1>2, <2>1, <2>2
<1>4. WorkOK(work', Len(updates')) /\ work' \in Work
  <2>1. work' = Idle /\ updates' = updates
    BY <1>1 DEF Die
  <2>2. WorkOK(Idle, Len(updates))
    BY <1>2, IdleOK
  <2> QED
    BY <2>1, <2>2 DEF WorkOK
<1>5. last' \in Ending
  <2>1. /\ (alive.st # "running") \in BOOLEAN /\ alive.thief \in BOOLEAN
        /\ (work.counted /\ Contains(work.ops, "charge")) \in BOOLEAN
    BY DEF TypeInv, TypeOK, Alive, Work, Contains
  <2>2. last' = [how |-> how, stopped |-> alive.st # "running",
                 uncharged |-> work.counted /\ Contains(work.ops, "charge"),
                 thief |-> alive.thief, link |-> link]
    BY <1>1 DEF Die
  <2> QED
    BY <1>1, <2>1, <2>2 DEF Ending
<1>6. faults' \in Faults /\ faults'.reads + faults'.resent <= faults'.n
  BY FaultType DEF Ends, LoopReturns, WaitReturns, TimeIsUp, Crash, DoneTooMany, DeleteInvite
<1>7. /\ up' = FALSE /\ offset' = 0 /\ tgch' = <<>> /\ heard' = <<>> /\ forvardMsg' = Nothing
      /\ bonus' = [asleep |-> 0, logs |-> 0] /\ links' = 0 /\ alive' = Running
      /\ UNCHANGED <<updates, confirmed, aged, rows, orders, life, topups, handled>>
  BY <1>1 DEF Die
<1>8. /\ Running \in Alive /\ 0 \in 0..Len(updates)
      /\ <<>> \in Seq(1..Len(updates))
  BY <1>2 DEF Running, Alive
<1>9. /\ bonus' \in [asleep : Nat, logs : Nat] /\ links' \in Nat
  BY <1>7
<1> QED
  BY <1>2, <1>3, <1>4, <1>5, <1>6, <1>7, <1>8, <1>9 DEF TypeInv, TypeOK

LEMMA TypeStep == TypeInv /\ [Next]_vars => TypeInv'
<1> SUFFICES ASSUME TypeInv, [Next]_vars
             PROVE  TypeInv'
  OBVIOUS
<1>1. CASE Next
  <2>1. CASE \E u \in Says : Say(u)
    BY <2>1, TypeSay
  <2>2. CASE Restart
    BY <2>2 DEF Restart, TypeInv, TypeOK, Start, Ending, Hows
  <2> QED
    BY <1>1, <2>1, <2>2, TypeGot, TypeCalls, TypeTake, TypeOrder, TypeBonus, TypeEnd
       DEF Next, Loop, Calls, Ends
<1>2. CASE UNCHANGED vars
  BY <1>2 DEF vars, TypeInv, TypeOK
<1> QED
  BY <1>1, <1>2

\* Every variable keeps its type, whatever is said, fails or is restarted.
THEOREM Typing == Spec => []TypeOK
<1>1. TypeInv => TypeOK
  BY DEF TypeInv
<1> QED
  BY <1>1, TypeInit, TypeStep, PTL DEF Spec

-----------------------------------------------------------------------------
(* The end of the process *)

\* While the process runs, Alive counts the handler that is under way and
\* nothing else.  Afterwards the handler of a drink that is not charged yet
\* stays counted, until a goroutine uncounts it.
AliveInv ==
  /\ alive.st = "running" => ~alive.thief /\ alive.wg = IF work.counted THEN 1 ELSE 0
  /\ work.counted => Has(work.ops, "done")
  /\ alive.st = "running" /\ Has(work.ops, "done") => work.counted
  /\ work.counted /\ ~alive.thief /\ Has(work.ops, "charge") => alive.wg = 1 /\ alive.st # "finished"

LEMMA PlanEnds ==
  /\ \A s \in CountedOps \cup {Append(TopUpOps, "done"), Append(<<"credit", "tell", "tell">>, "done")} :
       Has(s, "done") /\ ~Has(s, "charge")
  /\ Has(Append(OrderOps, "done"), "done")
  /\ \A s \in PlainOps \cup {Append(TopUpOps, "tell"), <<>>} :
       ~Has(s, "done") /\ ~Has(s, "charge")
<1>1. ASSUME NEW s \in CountedOps \cup {Append(TopUpOps, "done"),
                                         Append(<<"credit", "tell", "tell">>, "done")}
      PROVE  Has(s, "done") /\ ~Has(s, "charge")
  <2>1. PICK t \in {<<>>, <<"tell">>, <<"invite">>, <<"insert">>, TopUpOps,
                     <<"credit", "tell", "tell">>} : s = Append(t, "done")
    BY <1>1, Zenon DEF CountedOps
  <2>2. t \in Seq(Ops)
    <3>1. /\ <<>> \in Seq(Ops) /\ <<"tell">> \in Seq(Ops) /\ <<"invite">> \in Seq(Ops)
          /\ <<"insert">> \in Seq(Ops) /\ TopUpOps \in Seq(Ops)
          /\ <<"credit", "tell", "tell">> \in Seq(Ops)
      BY DEF Ops, TopUpOps
    <3> QED
      BY <2>1, <3>1, Zenon
  <2>3. \A k \in 1..Len(t) : t[k] # "charge"
    <3>1. CASE t = <<>>
      BY <3>1
    <3>2. CASE t \in {<<"tell">>, <<"invite">>, <<"insert">>}
      BY <3>2
    <3>3. CASE t = TopUpOps
      BY <3>3 DEF TopUpOps
    <3>4. CASE t = <<"credit", "tell", "tell">>
      BY <3>4
    <3> QED
      BY <2>1, <3>1, <3>2, <3>3, <3>4, Zenon
  <2>4. s[Len(s)] = "done" /\ Len(s) \in 1..Len(s)
    BY <2>1, <2>2
  <2>5. \A k \in 1..Len(s) : s[k] # "charge"
    BY <2>1, <2>2, <2>3
  <2> QED
    BY <2>4, <2>5 DEF Has
<1>3. Has(Append(OrderOps, "done"), "done")
  <2>1. Append(OrderOps, "done")[5] = "done" /\ 5 \in 1..Len(Append(OrderOps, "done"))
    BY DEF OrderOps
  <2> QED
    BY <2>1 DEF Has
<1>4. \A s \in PlainOps \cup {Append(TopUpOps, "tell"), <<>>} :
        ~Has(s, "done") /\ ~Has(s, "charge")
  <2>1. ~Has(Append(TopUpOps, "tell"), "done") /\ ~Has(Append(TopUpOps, "tell"), "charge")
    <3> DEFINE t == TopUpOps
               s == Append(t, "tell")
    <3>1. t \in Seq(Ops) /\ Len(t) = 4 /\ \A k \in 1..4 : t[k] # "done" /\ t[k] # "charge"
      BY DEF TopUpOps, Ops
    <3> HIDE DEF t
    <3>2. /\ Len(s) = 5 /\ s[5] = "tell"
          /\ \A k \in 1..4 : s[k] = t[k]
      <4>1. "tell" \in Ops
        BY DEF Ops
      <4>2. /\ Len(s) = Len(t) + 1 /\ s[Len(t) + 1] = "tell"
            /\ \A k \in 1..Len(t) : s[k] = t[k]
        <5>1. t \in Seq(Ops)
          BY <3>1
        <5> QED
          BY <4>1, <5>1, AppendProperties
      <4> HIDE DEF s
      <4> QED
        BY <3>1, <4>2
    <3> HIDE DEF s
    <3>3. \A k \in 1..5 : k \in 1..4 \/ k = 5
      OBVIOUS
    <3>4. ~Has(s, "done") /\ ~Has(s, "charge")
      BY <3>1, <3>2, <3>3 DEF Has
    <3> QED
      BY <3>4 DEF s, t
  <2>2. \A s \in {<<"log">>, <<"tell">>} : ~Has(s, "done") /\ ~Has(s, "charge")
    BY DEF Has
  <2>3. ~Has(<<>>, "done") /\ ~Has(<<>>, "charge")
    BY DEF Has
  <2> QED
    BY <2>1, <2>2, <2>3, Zenon DEF PlainOps
<1> QED
  BY <1>1, <1>3, <1>4

LEMMA AliveInit == Init => AliveInv /\ EndsInOrder
BY PlanEnds DEF Init, AliveInv, EndsInOrder, Running, Idle, Start

LEMMA PlanType ==
  ASSUME TypeInv
  PROVE  work \in Work /\ Plan(work.ops) /\ work.ops \in Seq(Ops)
<1>1. work \in Work /\ Plan(work.ops)
  BY Zenon DEF TypeInv, TypeOK, WorkOK
<1> QED
  BY <1>1, Zenon DEF Plan

\* what a call leaves of its handler
LEMMA StepLeaves ==
  ASSUME TypeInv, work.ops # <<>>, Step
  PROVE  /\ ~Has(work'.ops, "charge")
         /\ Has(work'.ops, "done") => Has(work.ops, "done")
         /\ work' = Idle \/ work'.counted = work.counted
         /\ Head(work.ops) = "done" => work' = Idle
         /\ Head(work.ops) # "done" /\ Has(work.ops, "done") =>
              work'.counted = work.counted /\ Has(work'.ops, "done")
<1> DEFINE s == work.ops
<1>1. /\ work \in Work /\ Plan(s) /\ s \in Seq(Ops) /\ s # <<>> /\ Len(s) \in Nat /\ Len(s) > 0
  BY PlanType
<1>2. /\ Tail(s) \in Seq(Ops) /\ Len(Tail(s)) = Len(s) - 1
      /\ \A k \in 1..Len(Tail(s)) : k + 1 \in 1..Len(s) /\ Tail(s)[k] = s[k + 1]
  BY <1>1, TailFacts
<1>3. Head(s) = s[1]
  BY <1>1
<1> HIDE DEF s
<1>4. s[1] = "done" => Len(s) = 1
  <2>1. \A k \in 1..Len(s) : s[k] = "done" => k = Len(s)
    BY <1>1 DEF Plan
  <2>2. 1 \in 1..Len(s)
    BY <1>1
  <2> QED
    BY <2>1, <2>2
<1>5. CASE Len(s) = 1
  <2>1. work' = Idle
    BY <1>5 DEF Step, s
  <2>2. ~Has(Idle.ops, "charge") /\ ~Has(Idle.ops, "done")
    BY DEF Idle, Has
  <2>3. Has(s, "done") => s[1] = "done"
    BY <1>1, <1>5 DEF Has
  <2> QED
    BY <1>3, <2>1, <2>2, <2>3 DEF s
<1>6. CASE Len(s) # 1
  <2>1. work' = [work EXCEPT !.ops = Tail(@)]
    BY <1>6 DEF Step, s
  <2>2. work'.ops = Tail(s) /\ work'.counted = work.counted
    BY <1>1, <2>1 DEF Work, s
  <2>3. ~Has(Tail(s), "charge") /\ (Has(Tail(s), "done") => Has(s, "done"))
    BY <1>1, TailPlan DEF Has, Ops
  <2>4. ASSUME Has(s, "done") PROVE Has(Tail(s), "done")
    <3>1. PICK k \in 1..Len(s) : s[k] = "done"
      BY <2>4 DEF Has
    <3>2. k = Len(s)
      BY <1>1, <3>1 DEF Plan
    <3>3. k - 1 \in 1..Len(Tail(s)) /\ (k - 1) + 1 = k
      BY <1>1, <1>2, <1>6, <3>2
    <3>4. Tail(s)[k - 1] = "done"
      BY <1>2, <3>1, <3>3
    <3> QED
      BY <3>3, <3>4 DEF Has
  <2> QED
    BY <1>3, <1>4, <1>6, <2>2, <2>3, <2>4 DEF s
<1> QED
  BY <1>5, <1>6

\* a text instead of an invitation leaves the rest of the handler
LEMMA RetoldLeaves ==
  ASSUME TypeInv, At("invite"), work' = [work EXCEPT !.ops = <<"tell">> \o Tail(@)]
  PROVE  /\ ~Has(work'.ops, "charge") /\ work'.counted = work.counted
         /\ Has(work'.ops, "done") <=> Has(work.ops, "done")
<1> DEFINE s == work.ops
           t == <<"tell">> \o Tail(s)
<1>1. /\ work \in Work /\ Plan(s) /\ s \in Seq(Ops) /\ s # <<>> /\ s[1] = "invite" /\ Len(s) \in Nat
  BY PlanType DEF At
<1>2. work'.ops = t /\ work'.counted = work.counted
  BY <1>1 DEF Work
<1>3. Len(t) = Len(s) /\ \A k \in 1..Len(s) : t[k] = IF k = 1 THEN "tell" ELSE s[k]
  BY <1>1, RetoldPlan
<1> HIDE DEF t
<1>4. ~Has(t, "charge")
  BY <1>1, <1>3 DEF Has, Plan
<1>5. Has(t, "done") <=> Has(s, "done")
  BY <1>1, <1>3 DEF Has
<1> QED
  BY <1>2, <1>4, <1>5

LEMMA AliveCalls ==
  ASSUME TypeInv, AliveInv, Calls
  PROVE  AliveInv' /\ UNCHANGED last
<1>1. work.ops # <<>> /\ UNCHANGED last
  BY DEF Calls, TgSend, Log, Invite, AddCredit, OtherUpdate, AddUserToDB, StartBonus, Done, At
<1>2. CASE Done
  <2>1. Head(work.ops) = "done" /\ Step /\ AliveDone
    BY <1>2 DEF Done, At
  <2>2. work' = Idle /\ ~Idle.counted /\ Idle.ops = <<>>
    BY <1>1, <2>1, StepLeaves DEF Idle
  <2>3. ~Has(work'.ops, "done") /\ ~Has(work'.ops, "charge") /\ ~work'.counted
    BY <2>2 DEF Has
  <2>4. Has(work.ops, "done")
    <3>1. work.ops \in Seq(Ops)
      BY DEF TypeInv, TypeOK, Work
    <3>2. work.ops[1] = "done" /\ 1 \in 1..Len(work.ops)
      BY <1>1, <2>1, <3>1
    <3> QED
      BY <3>2 DEF Has
  <2>5. alive \in Alive /\ alive' = [alive EXCEPT !.wg = @ - 1]
    BY <2>1 DEF AliveDone, TypeInv, TypeOK
  <2>6. alive'.st = alive.st /\ alive'.wg = alive.wg - 1 /\ alive'.thief = alive.thief
    BY <2>5 DEF Alive
  <2>7. alive.st = "running" => alive.wg = 1
    BY <2>4 DEF AliveInv
  <2> QED
    BY <1>1, <2>3, <2>6, <2>7 DEF AliveInv
<1>3. CASE ~Done
  <2>1. /\ alive.st = "running" => UNCHANGED alive
        /\ alive'.st = alive.st
    <3>1. UNCHANGED alive \/ Counted(TRUE)
      BY <1>3 DEF Calls, TgSend, Log, Invite, AddCredit, OtherUpdate, AddUserToDB, StartBonus
    <3>2. Counted(TRUE) => UNCHANGED alive \/ (alive.st # "running" /\ alive'.st = alive.st)
      BY DEF Counted, TypeInv, TypeOK, Alive
    <3> QED
      BY <3>1, <3>2
  <2>2. /\ ~Has(work'.ops, "charge")
        /\ work'.counted => work.counted
        /\ Has(work'.ops, "done") => Has(work.ops, "done")
        /\ Has(work.ops, "done") => Has(work'.ops, "done") /\ work'.counted = work.counted
    <3>1. CASE Step
      <4>1. Head(work.ops) # "done"
        BY <1>3 DEF Calls, TgSend, Log, Invite, AddCredit, OtherUpdate, AddUserToDB, StartBonus, At
      <4> QED
        BY <1>1, <3>1, <4>1, StepLeaves DEF Idle
    <3>2. CASE ~Step
      <4>1. At("invite") /\ work' = [work EXCEPT !.ops = <<"tell">> \o Tail(@)]
        BY <1>3, <3>2 DEF Calls, TgSend, Log, Invite, AddCredit, OtherUpdate, AddUserToDB, StartBonus
      <4> QED
        BY <4>1, RetoldLeaves
    <3> QED
      BY <3>1, <3>2
  <2>3. work.counted \in BOOLEAN /\ work'.counted \in BOOLEAN
    BY TypeCalls DEF TypeInv, TypeOK, Work
  <2> QED
    BY <1>1, <2>1, <2>2, <2>3 DEF AliveInv
<1> QED
  BY <1>2, <1>3

LEMMA IdleFree ==
  ASSUME TypeInv, AliveInv, work.ops = <<>>
  PROVE  ~work.counted /\ (alive.st = "running" => alive.wg = 0 /\ ~alive.thief)
BY DEF AliveInv, Has, TypeInv, TypeOK, Work

\* a message is taken
LEMMA AliveTaken ==
  ASSUME TypeInv, AliveInv, work.ops = <<>>,
         \/ /\ AliveAdd /\ work'.counted = (alive.st = "running")
            /\ Has(work'.ops, "done")
         \/ UNCHANGED alive /\ work'.counted = FALSE /\ ~Has(work'.ops, "done")
  PROVE  AliveInv'
<1>1. ~work.counted /\ (alive.st = "running" => alive.wg = 0 /\ ~alive.thief) /\ alive \in Alive
  BY IdleFree DEF TypeInv, TypeOK
<1>2. CASE AliveAdd /\ work'.counted = (alive.st = "running") /\ Has(work'.ops, "done")
  <2>1. CASE alive.st = "running"
    <3>1. alive'.st = "running" /\ alive'.wg = 1 /\ ~alive'.thief
      BY <1>1, <1>2, <2>1 DEF AliveAdd, Alive
    <3> QED
      BY <1>2, <2>1, <3>1 DEF AliveInv
  <2>2. CASE alive.st # "running"
    <3>1. alive' = alive /\ ~work'.counted
      BY <1>2, <2>2 DEF AliveAdd
    <3> QED
      BY <2>2, <3>1 DEF AliveInv
  <2> QED
    BY <2>1, <2>2
<1>3. CASE UNCHANGED alive /\ work'.counted = FALSE /\ ~Has(work'.ops, "done")
  BY <1>1, <1>3 DEF AliveInv
<1> QED
  BY <1>2, <1>3

LEMMA AliveTake ==
  ASSUME TypeInv, AliveInv, TakeUpdate
  PROVE  AliveInv' /\ UNCHANGED last
<1> DEFINE i == Head(tgch)
           u == updates[i]
<1>1. Plainly(i) \/ AsPost(i, u) \/ AsForward(i, u)
  BY Taken
<1> HIDE DEF i, u
<1>2. CASE Plainly(i)
  <2>1. CASE UNCHANGED alive /\ \E s \in PlainOps : work' = PlainWork(s, i, FALSE)
    <3>1. PICK s \in PlainOps : work' = PlainWork(s, i, FALSE)
      BY <2>1
    <3>2. work'.ops = s /\ work'.counted = FALSE /\ ~Has(s, "done")
      BY <3>1, PlanEnds DEF PlainWork
    <3> QED
      BY <2>1, <3>2, AliveTaken DEF TakeUpdate, Free
  <2>2. CASE AliveAdd /\ \E s \in CountedOps : work' = PlainWork(s, i, alive.st = "running")
    <3>1. PICK s \in CountedOps : work' = PlainWork(s, i, alive.st = "running")
      BY <2>2
    <3>2. work'.ops = s /\ work'.counted = (alive.st = "running") /\ Has(s, "done")
      BY <3>1, PlanEnds DEF PlainWork
    <3> QED
      BY <2>2, <3>2, AliveTaken DEF TakeUpdate, Free
  <2> QED
    BY <1>2, <2>1, <2>2 DEF Plainly, TakeUpdate
<1>3. CASE AsPost(i, u)
  <2>1. /\ work'.ops = Append(TopUpOps, "tell") /\ work'.counted = FALSE /\ UNCHANGED alive
        /\ ~Has(Append(TopUpOps, "tell"), "done")
    BY <1>3, PlanEnds DEF AsPost
  <2> QED
    BY <2>1, AliveTaken DEF TakeUpdate, Free
<1>4. CASE AsForward(i, u)
  <2>1. PICK s \in {Append(TopUpOps, "done"), Append(<<"credit", "tell", "tell">>, "done")} :
          work' = ForWhom(s, i, u)
    BY <1>4 DEF AsForward
  <2>2. /\ work'.ops = s /\ work'.counted = (alive.st = "running") /\ Has(s, "done")
    BY <2>1, PlanEnds DEF ForWhom
  <2> QED
    BY <1>4, <2>2, AliveTaken DEF TakeUpdate, Free, AsForward
<1> QED
  BY <1>1, <1>2, <1>3, <1>4 DEF TakeUpdate

LEMMA AliveOrder ==
  ASSUME TypeInv, AliveInv, TakeOrder
  PROVE  AliveInv' /\ UNCHANGED last
<1>1. work'.ops = Append(OrderOps, "done") /\ work'.counted = (alive.st = "running")
  BY OrderWork
<1> QED
  BY <1>1, PlanEnds, AliveTaken DEF TakeOrder, Free

LEMMA AliveMoves ==
  ASSUME TypeInv, AliveInv, PayBonus \/ LogBonus \/ AliveFinish \/ Signal
  PROVE  AliveInv' /\ UNCHANGED last
<1>1. alive \in Alive /\ work' = work /\ UNCHANGED last /\ work.counted \in BOOLEAN
  BY DEF PayBonus, LogBonus, AliveFinish, Signal, TypeInv, TypeOK, Work
<1>2. CASE PayBonus
  BY <1>1, <1>2 DEF PayBonus, AliveInv
<1>3. CASE LogBonus
  <2>1. UNCHANGED alive \/ (alive.st # "running" /\ alive'.st = alive.st /\ alive'.thief)
    BY <1>1, <1>3 DEF LogBonus, Counted, Alive
  <2> QED
    BY <1>1, <2>1 DEF AliveInv
<1>4. CASE AliveFinish
  <2>1. alive.st = "stopping" /\ alive.wg = 0 /\ alive'.st = "finished" /\ alive'.thief = alive.thief
    BY <1>1, <1>4 DEF AliveFinish, Alive
  <2> QED
    BY <1>1, <2>1 DEF AliveInv
<1>5. CASE Signal
  <2>1. /\ alive.st = "running" /\ alive'.st = "stopping" /\ alive'.thief = alive.thief
        /\ alive'.wg = alive.wg
    BY <1>1, <1>5 DEF Signal, Alive
  <2> QED
    BY <1>1, <2>1 DEF AliveInv
<1> QED
  BY <1>2, <1>3, <1>4, <1>5

LEMMA AliveEnd ==
  ASSUME TypeInv, AliveInv, Ends
  PROVE  AliveInv' /\ EndsInOrder'
<1>1. PICK how \in Hows, link \in BOOLEAN : Die(how, link)
  BY Ended
<1>2. AliveInv'
  <2>1. work' = Idle /\ alive' = Running
    BY <1>1 DEF Die
  <2>2. ~Has(Idle.ops, "done") /\ ~Idle.counted
    BY PlanEnds DEF Idle
  <2> QED
    BY <2>1, <2>2 DEF AliveInv, Running
<1>3. Contains(work.ops, "charge") => Has(work.ops, "charge")
  BY DEF Contains, Has
<1>4. /\ last'.stopped = (alive.st # "running") /\ last'.thief = alive.thief
      /\ last'.uncharged = (work.counted /\ Contains(work.ops, "charge"))
      /\ last'.how = how /\ last'.link = link
  BY <1>1 DEF Die
<1>5. CASE LoopReturns
  <2>1. ~work.counted /\ last'.how = "return"
    BY <1>5, IdleFree DEF LoopReturns, Free, Die
  <2> QED
    BY <1>2, <1>4, <2>1 DEF EndsInOrder
<1>6. CASE WaitReturns
  <2>1. alive.st = "finished" /\ last'.how = "wait"
    BY <1>6 DEF WaitReturns, Die
  <2>2. last'.uncharged => last'.thief
    BY <1>3, <1>4, <2>1 DEF AliveInv
  <2> QED
    BY <1>2, <2>1, <2>2 DEF EndsInOrder
<1>7. CASE TimeIsUp \/ Crash
  <2>1. last'.how \in {"timeout", "crash"}
    BY <1>7 DEF TimeIsUp, Crash, Die
  <2> QED
    BY <1>2, <2>1 DEF EndsInOrder
<1>8. CASE DoneTooMany
  <2>1. last'.how = "panic"
    BY <1>8 DEF DoneTooMany, Die
  <2>2. alive.st # "running"
    <3>1. SUFFICES ASSUME alive.st = "running" PROVE FALSE
      OBVIOUS
    <3>2. At("done") /\ alive.wg = 0
      BY <1>8, <3>1 DEF DoneTooMany, DonePanics
    <3>3. Has(work.ops, "done")
      <4>1. work.ops \in Seq(Ops) /\ work.ops # <<>> /\ Head(work.ops) = "done"
        BY <3>2 DEF TypeInv, TypeOK, Work, At
      <4>2. work.ops[1] = "done" /\ 1 \in 1..Len(work.ops)
        BY <4>1
      <4> QED
        BY <4>2 DEF Has
    <3> QED
      BY <3>1, <3>2, <3>3 DEF AliveInv
  <2> QED
    BY <1>2, <1>4, <2>1, <2>2 DEF EndsInOrder
<1>9. CASE DeleteInvite
  <2>1. last'.how = "panic" /\ last'.link
    BY <1>9 DEF DeleteInvite, Die
  <2> QED
    BY <1>2, <2>1 DEF EndsInOrder
<1> QED
  BY <1>5, <1>6, <1>7, <1>8, <1>9 DEF Ends

LEMMA AliveStep == TypeInv /\ AliveInv /\ EndsInOrder /\ [Next]_vars => AliveInv' /\ EndsInOrder'
<1> SUFFICES ASSUME TypeInv, AliveInv, EndsInOrder, [Next]_vars
             PROVE  AliveInv' /\ EndsInOrder'
  OBVIOUS
<1>1. UNCHANGED last => EndsInOrder'
  BY DEF EndsInOrder
<1>2. CASE UNCHANGED <<work, alive, last>>
  BY <1>1, <1>2 DEF AliveInv
<1>3. CASE Restart
  BY <1>3 DEF Restart, AliveInv, EndsInOrder, Start
<1>4. (\E u \in Says : Say(u)) \/ GetUpdates \/ GotUpdates \/ UNCHANGED vars =>
        UNCHANGED <<work, alive, last>>
  BY DEF Say, GetUpdates, GotUpdates, vars
<1> QED
  BY <1>1, <1>2, <1>3, <1>4, AliveCalls, AliveTake, AliveOrder, AliveMoves, AliveEnd
     DEF Next, Loop, Calls, Ends

\* A process ends by a panic only after a signal or for an invitation that
\* was not sent, and a stop waits for the charge of a drink that was taken
\* before it, unless a goroutine that nobody counted has uncounted it: for
\* any number of messages, failures and restarts.
THEOREM StopsInOrder == Spec => []EndsInOrder
<1>1. Init => TypeInv /\ AliveInv /\ EndsInOrder
  BY TypeInit, AliveInit
<1>2. TypeInv /\ AliveInv /\ EndsInOrder /\ [Next]_vars => (TypeInv /\ AliveInv /\ EndsInOrder)'
  BY TypeStep, AliveStep
<1> QED
  BY <1>1, <1>2, PTL DEF Spec

-----------------------------------------------------------------------------
(* Amounts *)

\* where an amount may be: named and waiting, in a handler that will top up
\* with it, spent by this process
Waiting == IF forvardMsg = Nothing THEN {} ELSE {forvardMsg.src}
Pending == IF Has(work.ops, "balance") THEN {work.src} ELSE {}
Spent == {topups[k].src : k \in {j \in DOMAIN topups : topups[j].life = life}}

\* the calls of a process for one amount
ToppedUpOnce ==
  \A i, j \in DOMAIN topups :
    i # j /\ topups[i].src = topups[j].src => topups[i].life # topups[j].life

\* The process has taken every amount it knows from an update before those
\* that wait in the channel, and has it in one place.
SpendInv ==
  /\ \A k \in DOMAIN topups : topups[k].life <= life
  /\ ToppedUpOnce
  /\ \A j, k \in 1..Len(tgch) : j < k => tgch[j] < tgch[k]
  /\ \A k \in 1..Len(tgch) : tgch[k] <= offset
  /\ up => \A x \in Waiting \cup Pending \cup Spent :
             x <= offset /\ \A k \in 1..Len(tgch) : x < tgch[k]
  /\ up => Waiting \cap Pending = {} /\ Spent \cap (Waiting \cup Pending) = {}
  /\ ~up => Waiting = {} /\ Pending = {} /\ tgch = <<>>

LEMMA SpendInit == Init => SpendInv
<1> SUFFICES ASSUME Init PROVE SpendInv
  OBVIOUS
<1>1. Waiting = {} /\ Pending = {}
  BY DEF Init, Waiting, Pending, Idle, Has
<1>2. topups = <<>> /\ tgch = <<>> /\ Spent = {} /\ up
  BY DEF Init, Spent
<1> QED
  BY <1>1, <1>2 DEF SpendInv, ToppedUpOnce

LEMMA PlacesInt ==
  ASSUME TypeInv
  PROVE  Waiting \subseteq Int /\ Pending \subseteq Int /\ Spent \subseteq Int
<1>1. /\ forvardMsg \in Amount \cup {Nothing} /\ work \in Work /\ topups \in Seq(TopUp)
      /\ \A x \in Ids \cup {0} : x \in Int
  BY DEF TypeInv, TypeOK, Ids
<1>2. forvardMsg # Nothing => forvardMsg.src \in Int
  BY <1>1 DEF Amount
<1>3. work.src \in Int
  <2>1. work.src \in Ids \cup {0}
    BY <1>1 DEF Work
  <2> QED
    BY <1>1, <2>1
<1>4. \A k \in DOMAIN topups : topups[k].src \in Int
  <2> SUFFICES ASSUME NEW k \in DOMAIN topups PROVE topups[k].src \in Int
    OBVIOUS
  <2>1. topups[k] \in TopUp
    BY <1>1
  <2>2. topups[k].src \in Ids
    BY <2>1 DEF TopUp
  <2> QED
    BY <1>1, <2>2
<1> QED
  BY <1>2, <1>3, <1>4 DEF Waiting, Pending, Spent

LEMMA SpendGot ==
  ASSUME TypeInv, SpendInv, GotUpdates
  PROVE  SpendInv'
<1> DEFINE m == Len(tgch)
           n == Len(updates) - confirmed
           new == [k \in 1..n |-> confirmed + k]
<1>1. /\ Len(updates) \in Nat /\ confirmed \in 0..Len(updates) /\ offset \in 0..Len(updates)
      /\ offset <= confirmed /\ n \in Nat /\ m \in Nat
      /\ tgch \in Seq(1..Len(updates)) /\ n = Len(updates) - confirmed
  BY DEF GotUpdates, TypeInv, TypeOK
<1>2. new \in Seq(Int) /\ Len(new) = n /\ \A k \in 1..n : new[k] = confirmed + k
  <2> HIDE DEF n
  <2>1. confirmed \in Nat /\ n \in Nat /\ \A k \in 1..n : confirmed + k \in Int
    BY <1>1
  <2> QED
    BY <2>1, RunOfIds
<1>3. tgch' = tgch \o new /\ offset' = Len(updates) /\ up
  BY DEF GotUpdates
<1> HIDE DEF n, new
<1>4. /\ Len(tgch') = m + n
      /\ \A k \in 1..m : tgch'[k] = tgch[k]
      /\ \A k \in 1..Len(tgch') : k > m => tgch'[k] = confirmed + (k - m)
  <2>1. tgch \in Seq(Int)
    BY <1>1, SeqMono
  <2>2. /\ Len(tgch \o new) = Len(tgch) + Len(new)
        /\ \A k \in 1..(Len(tgch) + Len(new)) :
             (tgch \o new)[k] = IF k <= Len(tgch) THEN tgch[k] ELSE new[k - Len(tgch)]
    BY <1>2, <2>1, ConcatProperties
  <2>3. Len(tgch') = m + n
    BY <1>2, <1>3, <2>2
  <2>4. ASSUME NEW k \in 1..m PROVE tgch'[k] = tgch[k]
    <3>1. k \in 1..(m + n) /\ k <= m
      BY <1>1
    <3> QED
      BY <1>2, <1>3, <2>2, <3>1
  <2>5. ASSUME NEW k \in 1..Len(tgch'), k > m PROVE tgch'[k] = confirmed + (k - m)
    <3>1. k \in 1..(m + n) /\ k - m \in 1..n /\ ~(k <= m)
      BY <1>1, <2>3, <2>5
    <3>2. tgch'[k] = new[k - m]
      BY <1>2, <1>3, <2>2, <3>1
    <3> QED
      BY <1>2, <3>1, <3>2
  <2> QED
    BY <2>3, <2>4, <2>5
<1>5. UNCHANGED <<topups, life, forvardMsg, work, up>>
  BY DEF GotUpdates
<1>6. Waiting' = Waiting /\ Pending' = Pending /\ Spent' = Spent
  BY <1>5 DEF Waiting, Pending, Spent
<1>7. \A k \in 1..m : tgch[k] \in Nat /\ tgch[k] <= offset
  BY <1>1 DEF SpendInv
<1>8. \A j, k \in 1..Len(tgch') : j < k => tgch'[j] < tgch'[k]
  <2> SUFFICES ASSUME NEW j \in 1..Len(tgch'), NEW k \in 1..Len(tgch'), j < k
               PROVE  tgch'[j] < tgch'[k]
    OBVIOUS
  <2>1. CASE k <= m
    <3>1. j \in 1..m /\ k \in 1..m
      BY <1>1, <2>1
    <3>2. tgch[j] < tgch[k]
      BY <3>1 DEF SpendInv
    <3> QED
      BY <1>4, <3>1, <3>2
  <2>2. CASE j <= m /\ k > m
    <3>1. j \in 1..m /\ tgch'[j] = tgch[j] /\ tgch[j] <= offset /\ tgch[j] \in Nat
      BY <1>1, <1>4, <1>7, <2>2
    <3>2. tgch'[k] = confirmed + (k - m)
      BY <1>4, <2>2
    <3> QED
      BY <1>1, <2>2, <3>1, <3>2
  <2>3. CASE j > m
    <3>1. tgch'[j] = confirmed + (j - m) /\ tgch'[k] = confirmed + (k - m)
      BY <1>1, <1>4, <2>3
    <3> QED
      BY <1>1, <2>3, <3>1
  <2> QED
    BY <1>1, <2>1, <2>2, <2>3
<1>9. \A k \in 1..Len(tgch') : tgch'[k] <= offset'
  <2> SUFFICES ASSUME NEW k \in 1..Len(tgch') PROVE tgch'[k] <= offset'
    OBVIOUS
  <2>0. k \in Nat /\ k >= 1 /\ k <= m + n
    BY <1>1, <1>4
  <2>1. CASE k <= m
    <3>1. k \in 1..m /\ tgch'[k] = tgch[k] /\ tgch[k] \in Nat /\ tgch[k] <= offset
      BY <1>1, <1>4, <1>7, <2>0, <2>1
    <3> QED
      BY <1>1, <1>3, <3>1
  <2>2. CASE k > m
    <3>1. tgch'[k] = confirmed + (k - m) /\ k - m <= n
      BY <1>1, <1>4, <2>0, <2>2
    <3> QED
      BY <1>1, <1>3, <2>0, <3>1
  <2> QED
    BY <1>1, <2>0, <2>1, <2>2
<1>10. \A x \in Waiting \cup Pending \cup Spent :
         x <= offset' /\ \A k \in 1..Len(tgch') : x < tgch'[k]
  <2> SUFFICES ASSUME NEW x \in Waiting \cup Pending \cup Spent
               PROVE  x <= offset' /\ \A k \in 1..Len(tgch') : x < tgch'[k]
    OBVIOUS
  <2>1. x <= offset /\ \A k \in 1..m : x < tgch[k]
    BY <1>3 DEF SpendInv
  <2>2. x \in Int
    BY PlacesInt
  <2>3. ASSUME NEW k \in 1..Len(tgch') PROVE x < tgch'[k]
    <3>1. CASE k <= m
      BY <1>1, <1>4, <2>1, <3>1
    <3>2. CASE k > m
      BY <1>1, <1>4, <2>1, <2>2, <3>2
    <3> QED
      BY <1>1, <3>1, <3>2
  <2> QED
    BY <1>1, <1>3, <2>1, <2>2, <2>3
<1>11. ToppedUpOnce'
  BY <1>5 DEF SpendInv, ToppedUpOnce
<1> QED
  BY <1>3, <1>5, <1>6, <1>8, <1>9, <1>10, <1>11 DEF SpendInv

\* the amount of an update that is taken was waiting or is its own
LEMMA TakenAmount ==
  ASSUME TypeInv, SpendInv, TakeUpdate, NEW i, i = Head(tgch)
  PROVE  Waiting' \cup Pending' \subseteq Waiting \cup {i} /\ Waiting' \cap Pending' = {}
<1> DEFINE u == updates[i]
<1>1. i \in 1..Len(updates) /\ i \in Ids /\ u \in Says /\ u \in Update
  BY NextUpdate DEF TakeUpdate
<1>2. /\ Plainly(i) \/ AsPost(i, u) \/ AsForward(i, u)
      /\ Noted(i, u)
  BY Taken
<1> HIDE DEF u
<1>3. ASSUME Plainly(i) PROVE Pending' = {}
  <2>1. PICK s \in PlainOps \cup CountedOps, c \in BOOLEAN : work' = PlainWork(s, i, c)
    BY <1>3 DEF Plainly
  <2>2. ~Has(s, "balance")
    BY <2>1, Plans, Zenon DEF PlainOps, CountedOps
  <2>3. work'.ops = s
    BY <2>1 DEF PlainWork
  <2> QED
    BY <2>2, <2>3 DEF Pending
<1>4. ASSUME AsPost(i, u) PROVE Pending' \subseteq {i}
  <2>1. work'.src = i
    BY <1>4 DEF AsPost
  <2> QED
    BY <2>1 DEF Pending
<1>5. ASSUME AsForward(i, u) PROVE Pending' \subseteq Waiting \cup {i}
  <2>1. work'.src = AmountOf(i).src
    BY <1>5 DEF AsForward, ForWhom
  <2>2. AmountOf(i).src \in Waiting \cup {i}
    BY <1>5 DEF AsForward, AmountOf, Waiting
  <2> QED
    BY <2>1, <2>2 DEF Pending
<1>6. CASE u.kind = "forward" /\ forvardMsg' = Nothing
  <2>1. Waiting' = {}
    BY <1>6 DEF Waiting
  <2>2. ~AsPost(i, u)
    BY <1>6 DEF AsPost
  <2> QED
    BY <1>2, <1>3, <1>5, <2>1, <2>2
<1>7. CASE Plainly(i) /\ forvardMsg' = [what |-> u.what, n |-> u.n, src |-> i]
  <2>1. Waiting' \subseteq {i}
    BY <1>7 DEF Waiting
  <2> QED
    BY <1>3, <1>7, <2>1
<1>8. CASE UNCHANGED forvardMsg /\ Plainly(i)
  <2>1. Waiting' = Waiting
    BY <1>8 DEF Waiting
  <2> QED
    BY <1>3, <1>8, <2>1
<1>9. CASE AsPost(i, u)
  <2>1. Waiting' = Waiting
    BY <1>9 DEF Waiting, AsPost
  <2>2. i \notin Waiting
    <3>1. tgch \in Seq(1..Len(updates)) /\ tgch # <<>> /\ up
      BY DEF TypeInv, TypeOK, TakeUpdate, Free
    <3>2. 1 \in 1..Len(tgch) /\ i = tgch[1]
      BY <3>1
    <3>3. \A x \in Waiting : x < i /\ x \in Int
      BY <3>1, <3>2, PlacesInt DEF SpendInv
    <3> QED
      BY <1>1, <3>3
  <2> QED
    BY <1>4, <1>9, <2>1, <2>2
<1> QED
  BY <1>2, <1>6, <1>7, <1>8, <1>9 DEF Noted

LEMMA SpendTake ==
  ASSUME TypeInv, SpendInv, TakeUpdate
  PROVE  SpendInv'
<1> DEFINE i == Head(tgch)
           t == Tail(tgch)
<1>1. /\ tgch \in Seq(1..Len(updates)) /\ tgch # <<>> /\ up
  BY DEF TypeInv, TypeOK, TakeUpdate, Free
<1>2. /\ Len(t) = Len(tgch) - 1 /\ Len(tgch) \in Nat /\ 1 \in 1..Len(tgch) /\ i = tgch[1]
      /\ \A k \in 1..Len(t) : k + 1 \in 1..Len(tgch) /\ t[k] = tgch[k + 1]
  BY <1>1
<1>3. tgch' = t /\ UNCHANGED <<topups, life, offset, up>>
  BY DEF TakeUpdate
<1>4. Waiting' \cup Pending' \subseteq Waiting \cup {i} /\ Waiting' \cap Pending' = {}
  BY TakenAmount
<1>5. Spent' = Spent /\ Spent \cap Waiting = {}
  BY <1>1, <1>3 DEF Spent, SpendInv
<1> HIDE DEF t
<1>6. \A x \in Waiting \cup Spent : x < i /\ x <= offset /\ \A k \in 1..Len(t) : x < t[k]
  <2> SUFFICES ASSUME NEW x \in Waiting \cup Spent
               PROVE  x < i /\ x <= offset /\ \A k \in 1..Len(t) : x < t[k]
    OBVIOUS
  <2>1. x <= offset /\ \A k \in 1..Len(tgch) : x < tgch[k]
    BY <1>1 DEF SpendInv
  <2> QED
    BY <1>2, <2>1
<1>7. i <= offset /\ \A k \in 1..Len(t) : i < t[k]
  <2>1. i <= offset
    BY <1>2 DEF SpendInv
  <2>2. ASSUME NEW k \in 1..Len(t) PROVE i < t[k]
    <3>1. k + 1 \in 1..Len(tgch) /\ t[k] = tgch[k + 1] /\ 1 < k + 1
      BY <1>2
    <3>2. tgch[1] < tgch[k + 1]
      BY <1>2, <3>1 DEF SpendInv
    <3> QED
      BY <1>2, <3>1, <3>2
  <2> QED
    BY <2>1, <2>2
<1>8. \A x \in Waiting' \cup Pending' \cup Spent' :
        x <= offset' /\ \A k \in 1..Len(tgch') : x < tgch'[k]
  BY <1>3, <1>4, <1>5, <1>6, <1>7
<1>9. i \notin Spent
  BY <1>1, <1>2, <1>6, PlacesInt
<1>10. Spent' \cap (Waiting' \cup Pending') = {}
  BY <1>4, <1>5, <1>9
<1>11. /\ \A j, k \in 1..Len(tgch') : j < k => tgch'[j] < tgch'[k]
       /\ \A k \in 1..Len(tgch') : tgch'[k] <= offset'
  <2>1. \A j, k \in 1..Len(t) : j < k => t[j] < t[k]
    <3> SUFFICES ASSUME NEW j \in 1..Len(t), NEW k \in 1..Len(t), j < k
                 PROVE  t[j] < t[k]
      OBVIOUS
    <3>1. /\ j + 1 \in 1..Len(tgch) /\ k + 1 \in 1..Len(tgch) /\ j + 1 < k + 1
          /\ t[j] = tgch[j + 1] /\ t[k] = tgch[k + 1]
      BY <1>2
    <3>2. tgch[j + 1] < tgch[k + 1]
      BY <3>1 DEF SpendInv
    <3> QED
      BY <3>1, <3>2
  <2>2. \A k \in 1..Len(t) : t[k] <= offset
    BY <1>2 DEF SpendInv
  <2> QED
    BY <1>3, <2>1, <2>2
<1>12. ToppedUpOnce' /\ \A k \in DOMAIN topups' : topups'[k].life <= life'
  BY <1>3 DEF SpendInv, ToppedUpOnce
<1> QED
  BY <1>1, <1>3, <1>4, <1>8, <1>10, <1>11, <1>12 DEF SpendInv

\* a call only removes from its handler
LEMMA CallPending ==
  ASSUME TypeInv, Calls
  PROVE  /\ Pending' \subseteq Pending
         /\ At("balance") => Pending = {work.src} /\ Pending' = {}
<1>1. /\ work \in Work /\ Plan(work.ops) /\ work.ops \in Seq(Ops) /\ work.ops # <<>>
  BY DEF TypeInv, TypeOK, WorkOK, Plan, Calls, TgSend, Log, Invite, AddCredit, OtherUpdate,
         AddUserToDB, StartBonus, Done, At
<1>2. Head(work.ops) = work.ops[1] /\ 1 \in 1..Len(work.ops)
  BY <1>1
<1>3. CASE Step
  <2>1. CASE work' = Idle
    <3>1. Pending' = {}
      BY <2>1 DEF Pending, Idle, Has
    <3>2. At("balance") => Pending = {work.src}
      BY <1>2 DEF At, Has, Pending
    <3> QED
      BY <3>1, <3>2
  <2>2. CASE work' = [work EXCEPT !.ops = Tail(@)]
    <3>1. work'.ops = Tail(work.ops) /\ work'.src = work.src
      BY <1>1, <2>2 DEF Work
    <3>2. /\ Has(Tail(work.ops), "balance") => Has(work.ops, "balance")
          /\ work.ops[1] = "balance" => ~Has(Tail(work.ops), "balance")
      BY <1>1, TailPlan DEF Ops
    <3>3. At("balance") => work.ops[1] = "balance" /\ Has(work.ops, "balance")
      BY <1>2 DEF At, Has
    <3> QED
      BY <3>1, <3>2, <3>3 DEF Pending
  <2> QED
    BY <1>3, <2>1, <2>2 DEF Step
<1>4. CASE ~Step
  <2>1. At("invite") /\ work' = [work EXCEPT !.ops = <<"tell">> \o Tail(@)]
    BY <1>4 DEF Calls, TgSend, Log, Invite, AddCredit, OtherUpdate, AddUserToDB, StartBonus, Done
  <2>2. work'.ops = <<"tell">> \o Tail(work.ops) /\ work'.src = work.src
    BY <1>1, <2>1 DEF Work
  <2>3. Has(<<"tell">> \o Tail(work.ops), "balance") => Has(work.ops, "balance")
    <3>1. work.ops[1] = "invite" /\ "balance" \in Ops \ {"tell"}
      BY <1>2, <2>1 DEF At, Ops
    <3> QED
      BY <1>1, <3>1, RetoldPlan, Zenon
  <2>4. ~At("balance")
    BY <2>1 DEF At
  <2> QED
    BY <2>2, <2>3, <2>4 DEF Pending
<1> QED
  BY <1>3, <1>4

LEMMA SpendCalls ==
  ASSUME TypeInv, SpendInv, Calls
  PROVE  SpendInv'
<1>1. UNCHANGED <<tgch, offset, life, up, forvardMsg>> /\ up
  BY DEF Calls, TgSend, Log, Invite, AddCredit, OtherUpdate, AddUserToDB, StartBonus, Done, At
<1>2. /\ Pending' \subseteq Pending /\ Waiting' = Waiting
      /\ At("balance") => Pending = {work.src} /\ Pending' = {}
  BY <1>1, CallPending DEF Waiting
<1>3. CASE UNCHANGED topups
  <2>1. Spent' = Spent /\ ToppedUpOnce'
    BY <1>1, <1>3 DEF Spent, SpendInv, ToppedUpOnce
  <2> QED
    BY <1>1, <1>2, <1>3, <2>1 DEF SpendInv
<1>4. CASE topups' # topups
  <2> DEFINE m == Len(topups)
  <2>0. AddCredit
    BY <1>4 DEF Calls, TgSend, Log, Invite, OtherUpdate, AddUserToDB, StartBonus, Done
  <2> PICK t : /\ t.life = life /\ t.src = work.src
               /\ topups' = Append(topups, t)
    <3>1. PICK times \in {1, 2} : TopsUp(times)
      BY <1>4, <2>0 DEF AddCredit
    <3> QED
      BY <3>1 DEF TopsUp
  <2>1. At("balance") /\ topups' = Append(topups, t) /\ topups \in Seq(TopUp) /\ m \in Nat
    <3>1. topups \in Seq(TopUp) /\ Len(topups) \in Nat
      BY DEF TypeInv, TypeOK
    <3>2. At("balance") /\ topups' = Append(topups, t)
      BY <2>0 DEF AddCredit
    <3> QED
      BY <3>1, <3>2
  <2>2. t.life = life /\ t.src = work.src
    OBVIOUS
  <2>3. /\ DOMAIN topups = 1..m /\ DOMAIN topups' = 1..(m + 1)
        /\ topups'[m + 1] = t /\ \A k \in 1..m : topups'[k] = topups[k]
    BY <2>1
  <2> HIDE DEF m
  <2>4. Pending = {work.src} /\ Pending' = {} /\ work.src \notin Spent
    <3>1. Spent \cap Pending = {}
      BY <1>1 DEF SpendInv
    <3> QED
      BY <1>2, <2>1, <3>1
  <2>5. Spent' \subseteq Spent \cup {work.src}
    BY <1>1, <2>1, <2>2, <2>3 DEF Spent
  <2>6. ToppedUpOnce'
    <3> SUFFICES ASSUME NEW j \in DOMAIN topups', NEW k \in DOMAIN topups', j # k,
                        topups'[j].src = topups'[k].src, topups'[j].life = topups'[k].life
                 PROVE  FALSE
      BY DEF ToppedUpOnce
    <3>1. CASE j \in 1..m /\ k \in 1..m
      BY <2>3, <3>1 DEF SpendInv, ToppedUpOnce
    <3>2. CASE j = m + 1 /\ k \in 1..m
      BY <2>2, <2>3, <2>4, <3>2 DEF Spent
    <3>3. CASE j \in 1..m /\ k = m + 1
      BY <2>2, <2>3, <2>4, <3>3 DEF Spent
    <3> QED
      BY <2>1, <2>3, <3>1, <3>2, <3>3
  <2>7. \A k \in DOMAIN topups' : topups'[k].life <= life'
    <3>1. life \in Nat
      BY DEF TypeInv, TypeOK
    <3> QED
      BY <1>1, <2>1, <2>2, <2>3, <3>1 DEF SpendInv
  <2>8. Waiting' \cup Pending' \cup Spent' \subseteq Waiting \cup Pending \cup Spent
    BY <1>2, <2>4, <2>5
  <2>9. Spent' \cap (Waiting' \cup Pending') = {}
    <3>1. (Spent \cup Pending) \cap Waiting = {}
      BY <1>1 DEF SpendInv
    <3> QED
      BY <1>2, <2>4, <2>5, <3>1
  <2> QED
    BY <1>1, <2>4, <2>6, <2>7, <2>8, <2>9 DEF SpendInv
<1> QED
  BY <1>3, <1>4

LEMMA SpendStep == TypeInv /\ SpendInv /\ [Next]_vars => SpendInv'
<1> SUFFICES ASSUME TypeInv, SpendInv, [Next]_vars
             PROVE  SpendInv'
  OBVIOUS
<1>1. CASE UNCHANGED <<topups, life, offset, up, tgch, forvardMsg, work>>
  <2>1. Waiting' = Waiting /\ Pending' = Pending /\ Spent' = Spent
    BY <1>1 DEF Waiting, Pending, Spent
  <2> QED
    BY <1>1, <2>1 DEF SpendInv, ToppedUpOnce
<1>2. CASE TakeOrder
  <2>1. work'.ops = Append(OrderOps, "done") /\ ~Has(Append(OrderOps, "done"), "balance")
    BY <1>2, OrderWork, Plans
  <2>2. Pending' = {}
    BY <2>1 DEF Pending
  <2>3. UNCHANGED <<topups, life, offset, up, tgch, forvardMsg>> /\ up
    BY <1>2 DEF TakeOrder, Free
  <2>4. Waiting' = Waiting /\ Spent' = Spent
    BY <2>3 DEF Waiting, Spent
  <2> QED
    BY <2>2, <2>3, <2>4 DEF SpendInv, ToppedUpOnce
<1>3. CASE Ends
  <2>1. PICK how \in Hows, link \in BOOLEAN : Die(how, link)
    BY <1>3, Ended
  <2>2. Waiting' = {} /\ Pending' = {} /\ tgch' = <<>> /\ ~up'
    BY <2>1 DEF Die, Waiting, Pending, Idle, Has
  <2>3. UNCHANGED <<topups, life>>
    BY <2>1 DEF Die
  <2> QED
    BY <2>2, <2>3 DEF SpendInv, ToppedUpOnce
<1>4. CASE Restart
  <2>1. /\ ~up /\ life' = life + 1 /\ UNCHANGED <<topups, offset, tgch, forvardMsg, work>>
        /\ life \in Nat /\ topups \in Seq(TopUp)
    BY <1>4 DEF Restart, TypeInv, TypeOK
  <2>2. Waiting' = {} /\ Pending' = {} /\ tgch' = <<>>
    BY <2>1 DEF SpendInv, Waiting, Pending
  <2>3. \A k \in DOMAIN topups : topups[k].life <= life /\ topups[k].life \in Nat
    <3> SUFFICES ASSUME NEW k \in DOMAIN topups
                 PROVE  topups[k].life <= life /\ topups[k].life \in Nat
      OBVIOUS
    <3>1. topups[k] \in TopUp
      BY <2>1
    <3> QED
      BY <3>1 DEF SpendInv, TopUp
  <2>4. Spent' = {} /\ \A k \in DOMAIN topups' : topups'[k].life <= life'
    BY <2>1, <2>3 DEF Spent
  <2> QED
    BY <2>1, <2>2, <2>4 DEF SpendInv, ToppedUpOnce
<1>5. (\E u \in Says : Say(u)) \/ GetUpdates \/ PayBonus \/ LogBonus \/ AliveFinish \/ Signal
        \/ UNCHANGED vars => UNCHANGED <<topups, life, offset, up, tgch, forvardMsg, work>>
  BY DEF Say, GetUpdates, PayBonus, LogBonus, AliveFinish, Signal, vars
<1> QED
  BY <1>1, <1>2, <1>3, <1>4, <1>5, SpendGot, SpendTake, SpendCalls DEF Next, Loop, Calls, Ends

\* Calls whose UPDATE was applied twice are faults.
Twice == {k \in DOMAIN topups : topups[k].times = 2}

TwiceInv == Cardinality(Twice) <= faults.resent

LEMMA ResentGrows ==
  ASSUME TypeInv, NEW kind, Fault(kind) \/ UNCHANGED faults
  PROVE  /\ faults'.resent \in Int /\ faults'.resent >= faults.resent
         /\ Fault("resent") => faults'.resent = faults.resent + 1
<1>1. faults.resent \in Int
  BY DEF TypeInv, TypeOK
<1> QED
  BY <1>1 DEF Fault

LEMMA TwiceFinite ==
  ASSUME TypeInv
  PROVE  IsFiniteSet(Twice) /\ Cardinality(Twice) \in Nat
<1>1. DOMAIN topups = 1..Len(topups) /\ Len(topups) \in Nat
  BY DEF TypeInv, TypeOK
<1>2. IsFiniteSet(1..Len(topups))
  BY <1>1, FS_Interval
<1>3. Twice \subseteq 1..Len(topups)
  BY <1>1 DEF Twice
<1> QED
  BY <1>2, <1>3, FS_Subset, FS_CardinalityType

LEMMA TwiceKept ==
  ASSUME TypeInv, TwiceInv, UNCHANGED topups, NEW kind, Fault(kind) \/ UNCHANGED faults
  PROVE  TwiceInv'
<1>1. Twice' = Twice /\ Cardinality(Twice) \in Nat
  BY TwiceFinite DEF Twice
<1>2. faults'.resent \in Int /\ faults'.resent >= faults.resent /\ faults.resent \in Int
  BY ResentGrows DEF TypeInv, TypeOK
<1> QED
  BY <1>1, <1>2 DEF TwiceInv

LEMMA TwiceCredit ==
  ASSUME TypeInv, TwiceInv, NEW times \in {1, 2}, TopsUp(times),
         times = 2 => Fault("resent"), times = 1 => UNCHANGED faults
  PROVE  TwiceInv'
<1> DEFINE m == Len(topups)
           t == [life |-> life, upd |-> work.upd, src |-> work.src,
                 of |-> work.of, n |-> work.n, times |-> times]
<1>1. topups' = Append(topups, t) /\ topups \in Seq(TopUp) /\ m \in Nat /\ t.times = times
  BY DEF TopsUp, TypeInv, TypeOK
<1> HIDE DEF t
<1>2. /\ DOMAIN topups = 1..m /\ DOMAIN topups' = 1..(m + 1)
      /\ topups'[m + 1] = t /\ \A k \in 1..m : topups'[k] = topups[k]
  BY <1>1
<1> HIDE DEF m
<1>3. IsFiniteSet(Twice) /\ Cardinality(Twice) \in Nat /\ faults.resent \in Int
  <2>1. faults.resent \in Int
    BY DEF TypeInv, TypeOK
  <2> QED
    BY <2>1, TwiceFinite
<1>4. CASE times = 1
  <2>1. Twice' = Twice
    BY <1>1, <1>2, <1>4 DEF Twice
  <2> QED
    BY <1>4, <2>1 DEF TwiceInv
<1>5. CASE times = 2
  <2>1. Twice' = Twice \cup {m + 1} /\ m + 1 \notin Twice
    BY <1>1, <1>2, <1>5 DEF Twice
  <2>2. Cardinality(Twice') = Cardinality(Twice) + 1
    BY <1>3, <2>1, FS_AddElement
  <2>3. faults'.resent = faults.resent + 1
    BY <1>5, ResentGrows
  <2> QED
    BY <1>3, <2>2, <2>3 DEF TwiceInv
<1> QED
  BY <1>4, <1>5

LEMMA TwiceStep == TypeInv /\ TwiceInv /\ [Next]_vars => TwiceInv'
<1> SUFFICES ASSUME TypeInv, TwiceInv, [Next]_vars
             PROVE  TwiceInv'
  OBVIOUS
<1>1. CASE AddCredit
  <2>1. CASE TopsUp(1) /\ UNCHANGED faults
    BY <2>1, TwiceCredit
  <2>2. CASE TopsUp(2) /\ Fault("resent")
    BY <2>2, TwiceCredit
  <2>3. CASE UNCHANGED topups /\ Fault("dbWrite")
    BY <2>3, TwiceKept
  <2> QED
    BY <1>1, <2>1, <2>2, <2>3 DEF AddCredit
<1>2. CASE ~AddCredit
  <2>1. UNCHANGED topups
    BY <1>2 DEF Next, vars, Loop, Say, GetUpdates, GotUpdates, TakeUpdate, TgSend, Log, Invite,
                OtherUpdate, AddUserToDB, StartBonus, Done, TakeOrder, PayBonus, LogBonus, Signal,
                AliveFinish, LoopReturns, WaitReturns, TimeIsUp, Crash, DoneTooMany, DeleteInvite,
                Die, Restart
  <2>2. \E kind : Fault(kind) \/ UNCHANGED faults
    BY <1>2 DEF Next, vars, Loop, Say, GetUpdates, GotUpdates, TakeUpdate, Uncounted, TellLate,
                OnTeleBot, Answer, Forward, TgSend, Log, Invite,
                OtherUpdate, AddUserToDB, StartBonus, Done, TakeOrder, PayBonus, LogBonus, Signal,
                AliveFinish, LoopReturns, WaitReturns, TimeIsUp, Crash, DoneTooMany, DeleteInvite,
                Restart
  <2> QED
    BY <2>1, <2>2, TwiceKept
<1> QED
  BY <1>1, <1>2

\* No process tops up two balances for one amount, or one in two calls,
\* however many updates, failures and restarts there are; and no call adds its
\* amount twice but for a statement that was sent again.
THEOREM SpentOnce == Spec => []NumberIsSpentOnce
<1>1. Init => TypeInv /\ SpendInv /\ TwiceInv
  <2>1. ASSUME Init PROVE TwiceInv
    <3>1. Twice = {} /\ faults.resent = 0
      BY <2>1 DEF Init, Twice
    <3> QED
      BY <3>1, FS_EmptySet DEF TwiceInv
  <2> QED
    BY <2>1, TypeInit, SpendInit
<1>2. TypeInv /\ SpendInv /\ TwiceInv /\ [Next]_vars => (TypeInv /\ SpendInv /\ TwiceInv)'
  BY TypeStep, SpendStep, TwiceStep
<1>3. SpendInv /\ TwiceInv => NumberIsSpentOnce
  BY DEF SpendInv, ToppedUpOnce, TwiceInv, Twice, NumberIsSpentOnce
<1> QED
  BY <1>1, <1>2, <1>3, PTL DEF Spec

-----------------------------------------------------------------------------
(* Whom an amount is for *)

\* NamedBy for updates us and parsed messages hs
Named(k, us, hs) == IF k > 1 /\ us[hs[k - 1]].kind = "number" THEN hs[k - 1] ELSE hs[k]

\* t, a handler or what it has added, follows the chat
Right(t, us, hs) ==
  /\ t.upd \in 1..Len(us) /\ t.src \in 1..Len(us)
  /\ t.of = us[t.upd].of /\ t.n = us[t.src].n /\ us[t.src].what = "bablo"
  /\ \/ us[t.upd].kind = "post" /\ t.src = t.upd
     \/ \E k \in DOMAIN hs : hs[k] = t.upd /\ t.src = Named(k, us, hs)

\* the amount that was named by update m
AmountIn(m) == [what |-> updates[m].what, n |-> updates[m].n, src |-> m]

\* Handlers and what they have added follow the chat; an amount waits if and
\* only if the message that was parsed last is a number.
ChatInv ==
  /\ up => \A k \in DOMAIN topups : topups[k].life = life => Right(topups[k], updates, heard)
  /\ Has(work.ops, "balance") => Right(work, updates, heard)
  /\ forvardMsg # Nothing =>
       /\ heard # <<>> /\ updates[heard[Len(heard)]].kind = "number"
       /\ forvardMsg = AmountIn(heard[Len(heard)])
  /\ forvardMsg = Nothing /\ heard # <<>> => updates[heard[Len(heard)]].kind # "number"

LEMMA RightGrows ==
  ASSUME NEW us \in Seq(Says), NEW u \in Says, NEW hs \in Seq(1..Len(us)), NEW t, Right(t, us, hs)
  PROVE  Right(t, Append(us, u), hs)
<1> DEFINE vs == Append(us, u)
<1>1. Len(vs) = Len(us) + 1 /\ Len(us) \in Nat /\ \A j \in 1..Len(us) : vs[j] = us[j]
  OBVIOUS
<1>2. /\ t.upd \in 1..Len(us) /\ t.src \in 1..Len(us)
      /\ t.of = us[t.upd].of /\ t.n = us[t.src].n /\ us[t.src].what = "bablo"
  BY DEF Right
<1> HIDE DEF vs
<1>3. /\ t.upd \in 1..Len(vs) /\ t.src \in 1..Len(vs)
      /\ t.of = vs[t.upd].of /\ t.n = vs[t.src].n /\ vs[t.src].what = "bablo"
  BY <1>1, <1>2
<1>4. CASE us[t.upd].kind = "post" /\ t.src = t.upd
  BY <1>1, <1>2, <1>3, <1>4 DEF Right, vs
<1>5. CASE \E k \in DOMAIN hs : hs[k] = t.upd /\ t.src = Named(k, us, hs)
  <2>1. PICK k \in DOMAIN hs : hs[k] = t.upd /\ t.src = Named(k, us, hs)
    BY <1>5
  <2>2. Named(k, vs, hs) = Named(k, us, hs)
    <3>1. k > 1 => hs[k - 1] \in 1..Len(us)
      BY <2>1
    <3> QED
      BY <1>1, <3>1 DEF Named
  <2> QED
    BY <1>3, <2>1, <2>2 DEF Right, vs
<1> QED
  BY <1>4, <1>5 DEF Right

LEMMA RightHears ==
  ASSUME NEW us \in Seq(Says), NEW hs \in Seq(1..Len(us)), NEW i \in 1..Len(us),
         NEW t, Right(t, us, hs)
  PROVE  Right(t, us, Append(hs, i))
<1> DEFINE gs == Append(hs, i)
<1>1. /\ Len(gs) = Len(hs) + 1 /\ Len(hs) \in Nat
      /\ DOMAIN gs = 1..Len(gs) /\ DOMAIN hs = 1..Len(hs)
      /\ \A j \in 1..Len(hs) : gs[j] = hs[j]
  OBVIOUS
<1> HIDE DEF gs
<1>2. CASE \E k \in DOMAIN hs : hs[k] = t.upd /\ t.src = Named(k, us, hs)
  <2>1. PICK k \in DOMAIN hs : hs[k] = t.upd /\ t.src = Named(k, us, hs)
    BY <1>2
  <2>2. Named(k, us, gs) = Named(k, us, hs) /\ k \in DOMAIN gs /\ gs[k] = hs[k]
    BY <1>1, <2>1 DEF Named
  <2> QED
    BY <2>1, <2>2 DEF Right, gs
<1>3. CASE us[t.upd].kind = "post" /\ t.src = t.upd
  BY <1>3 DEF Right, gs
<1> QED
  BY <1>2, <1>3 DEF Right

\* a message was parsed, after those in hs
LEMMA RightForward ==
  ASSUME NEW us \in Seq(Says), NEW hs \in Seq(1..Len(us)), NEW i \in 1..Len(us),
         NEW t, t.upd = i, t.src \in 1..Len(us),
         t.of = us[i].of, t.n = us[t.src].n, us[t.src].what = "bablo",
         \/ hs # <<>> /\ us[hs[Len(hs)]].kind = "number" /\ t.src = hs[Len(hs)]
         \/ (hs # <<>> => us[hs[Len(hs)]].kind # "number") /\ t.src = i
  PROVE  Right(t, us, Append(hs, i))
<1> DEFINE gs == Append(hs, i)
           k  == Len(hs) + 1
<1>1. /\ DOMAIN gs = 1..k /\ Len(hs) \in Nat /\ gs[k] = i /\ k \in DOMAIN gs
      /\ \A j \in 1..Len(hs) : gs[j] = hs[j]
  OBVIOUS
<1>2. k > 1 => hs # <<>> /\ k - 1 = Len(hs) /\ gs[k - 1] = hs[Len(hs)]
  BY <1>1
<1>3. hs # <<>> => k > 1
  OBVIOUS
<1> HIDE DEF gs, k
<1>4. t.src = Named(k, us, gs)
  BY <1>1, <1>2, <1>3 DEF Named
<1> QED
  BY <1>1, <1>4 DEF Right, gs

LEMMA ChatInit == Init => ChatInv
<1> SUFFICES ASSUME Init PROVE ChatInv
  OBVIOUS
<1>1. ~Has(work.ops, "balance") /\ topups = <<>> /\ forvardMsg = Nothing /\ heard = <<>>
  BY DEF Init, Idle, Has
<1> QED
  BY <1>1 DEF ChatInv

LEMMA ChatSay ==
  ASSUME TypeInv, ChatInv, NEW u \in Says, Say(u)
  PROVE  ChatInv'
<1>1. /\ updates' = Append(updates, u) /\ updates \in Seq(Says) /\ heard \in Seq(1..Len(updates))
      /\ UNCHANGED <<up, life, topups, work, forvardMsg, heard>>
  BY DEF Say, TypeInv, TypeOK
<1>2. \A t : Right(t, updates, heard) => Right(t, updates', heard)
  BY <1>1, RightGrows
<1>3. heard # <<>> => /\ heard[Len(heard)] \in 1..Len(updates)
                      /\ updates'[heard[Len(heard)]] = updates[heard[Len(heard)]]
  BY <1>1
<1>4. heard # <<>> => AmountIn(heard[Len(heard)])' = AmountIn(heard[Len(heard)])
  BY <1>1, <1>3 DEF AmountIn
<1> QED
  BY <1>1, <1>2, <1>3, <1>4 DEF ChatInv

LEMMA ChatTake ==
  ASSUME TypeInv, ChatInv, TakeUpdate
  PROVE  ChatInv'
<1> DEFINE i == Head(tgch)
           u == updates[i]
<1>1. /\ i \in 1..Len(updates) /\ i \in Ids /\ u \in Says /\ u \in Update /\ up
      /\ updates \in Seq(Says) /\ heard \in Seq(1..Len(updates)) /\ u = updates[i]
      /\ UNCHANGED <<updates, up, life, topups>>
  BY NextUpdate DEF TakeUpdate, Free, TypeInv, TypeOK
<1>2. /\ Plainly(i) \/ AsPost(i, u) \/ AsForward(i, u)
      /\ Noted(i, u)
  BY Taken
<1> HIDE DEF i, u
<1>3. ASSUME Plainly(i) PROVE ~Has(work'.ops, "balance")
  <2>1. PICK s \in PlainOps \cup CountedOps, c \in BOOLEAN : work' = PlainWork(s, i, c)
    BY <1>3 DEF Plainly
  <2>2. ~Has(s, "balance")
    BY <2>1, Plans, Zenon DEF PlainOps, CountedOps
  <2>3. work'.ops = s
    BY <2>1 DEF PlainWork
  <2> QED
    BY <2>2, <2>3
<1>4. CASE UNCHANGED <<forvardMsg, heard>> /\ (Plainly(i) \/ AsPost(i, u))
  <2>1. Has(work'.ops, "balance") => Right(work', updates, heard)
    <3>1. CASE Plainly(i)
      BY <1>3, <3>1
    <3>2. CASE AsPost(i, u)
      <4>1. /\ work'.upd = i /\ work'.src = i /\ work'.of = u.of /\ work'.n = u.n
            /\ u.kind = "post"
        BY <3>2 DEF AsPost
      <4>2. u.what = "bablo"
        BY <1>1, <4>1
      <4> QED
        BY <1>1, <4>1, <4>2 DEF Right
    <3> QED
      BY <1>4, <3>1, <3>2
  <2> QED
    BY <1>1, <1>4, <2>1 DEF ChatInv, AmountIn
<1>5. ASSUME heard' = Append(heard, i)
      PROVE  /\ \A t : Right(t, updates, heard) => Right(t, updates, heard')
             /\ heard' # <<>> /\ heard'[Len(heard')] = i
  <2>1. \A t : Right(t, updates, heard) => Right(t, updates, Append(heard, i))
    BY <1>1, RightHears
  <2>2. /\ Append(heard, i) # <<>>
        /\ Append(heard, i)[Len(Append(heard, i))] = i
    BY <1>1
  <2> QED
    BY <1>5, <2>1, <2>2
<1>6. CASE /\ u.kind = "number" /\ forvardMsg' = [what |-> u.what, n |-> u.n, src |-> i]
           /\ heard' = Append(heard, i) /\ Plainly(i)
  <2>1. forvardMsg' # Nothing
    <3>1. forvardMsg'.src = i /\ i # 0 /\ Nothing.src = 0
      BY <1>1, <1>6 DEF Nothing
    <3> QED
      BY <3>1
  <2>2. forvardMsg' = AmountIn(heard[Len(heard)])'
    BY <1>1, <1>5, <1>6 DEF AmountIn
  <2> QED
    BY <1>1, <1>3, <1>5, <1>6, <2>1, <2>2 DEF ChatInv
<1>7. CASE u.kind = "forward" /\ forvardMsg' = Nothing /\ heard' = Append(heard, i)
  <2>1. ~AsPost(i, u)
    BY <1>7 DEF AsPost
  <2>2. Has(work'.ops, "balance") => Right(work', updates, heard')
    <3>1. CASE Plainly(i)
      BY <1>3, <3>1
    <3>2. CASE AsForward(i, u)
      <4>1. CASE work' = ForWhom(Append(<<"credit", "tell", "tell">>, "done"), i, u)
        <5>1. work'.ops = Append(<<"credit", "tell", "tell">>, "done")
          BY <4>1 DEF ForWhom
        <5> QED
          BY <5>1, Plans
      <4>2. CASE AmountOf(i).what = "bablo" /\ work' = ForWhom(Append(TopUpOps, "done"), i, u)
        <5>1. /\ work'.upd = i /\ work'.src = AmountOf(i).src /\ work'.of = u.of
              /\ work'.n = AmountOf(i).n
          BY <4>2 DEF ForWhom
        <5>2. CASE forvardMsg # Nothing
          <6>1. /\ AmountOf(i) = AmountIn(heard[Len(heard)]) /\ heard # <<>>
                /\ updates[heard[Len(heard)]].kind = "number"
            BY <5>2 DEF AmountOf, ChatInv
          <6>2. heard[Len(heard)] \in 1..Len(updates)
            BY <1>1, <6>1
          <6>3. /\ work'.src = heard[Len(heard)] /\ work'.n = updates[heard[Len(heard)]].n
                /\ updates[heard[Len(heard)]].what = "bablo"
            BY <4>2, <5>1, <6>1 DEF AmountIn
          <6> QED
            BY <1>1, <1>7, <5>1, <6>1, <6>2, <6>3, RightForward
        <5>3. CASE forvardMsg = Nothing
          <6>1. AmountOf(i) # Nothing
            BY <3>2 DEF AsForward
          <6>2. AmountOf(i) = [what |-> "bablo", n |-> u.n, src |-> i]
            BY <1>1, <5>3, <6>1 DEF AmountOf
          <6>3. work'.src = i /\ work'.n = u.n /\ u.what = "bablo"
            BY <1>1, <1>7, <5>1, <6>2
          <6>4. heard # <<>> => updates[heard[Len(heard)]].kind # "number"
            BY <5>3 DEF ChatInv
          <6> QED
            BY <1>1, <1>7, <5>1, <6>3, <6>4, RightForward
        <5> QED
          BY <5>2, <5>3
      <4> QED
        BY <3>2, <4>1, <4>2 DEF AsForward
    <3> QED
      BY <1>2, <2>1, <3>1, <3>2
  <2> QED
    BY <1>1, <1>5, <1>7, <2>2 DEF ChatInv
<1> QED
  BY <1>2, <1>4, <1>6, <1>7 DEF Noted

LEMMA ChatCalls ==
  ASSUME TypeInv, ChatInv, Calls
  PROVE  ChatInv'
<1>1. UNCHANGED <<updates, heard, life, up, forvardMsg>> /\ up
  BY DEF Calls, TgSend, Log, Invite, AddCredit, OtherUpdate, AddUserToDB, StartBonus, Done, At
<1>2. work \in Work /\ Plan(work.ops) /\ work.ops # <<>> /\ work.ops \in Seq(Ops)
  BY DEF TypeInv, TypeOK, WorkOK, Plan, Calls, TgSend, Log, Invite, AddCredit, OtherUpdate,
         AddUserToDB, StartBonus, Done, At
<1>3. Has(work'.ops, "balance") => Right(work', updates, heard)
  <2>1. CASE work' = Idle
    BY <2>1 DEF Idle, Has
  <2>2. ASSUME NEW s, work' = [work EXCEPT !.ops = s], Has(s, "balance") => Has(work.ops, "balance")
        PROVE  Has(work'.ops, "balance") => Right(work', updates, heard)
    <3>1. /\ work'.ops = s /\ work'.upd = work.upd /\ work'.src = work.src
          /\ work'.of = work.of /\ work'.n = work.n
      BY <1>2, <2>2 DEF Work
    <3> QED
      BY <2>2, <3>1 DEF ChatInv, Right
  <2>3. CASE work' = [work EXCEPT !.ops = Tail(@)]
    <3>1. Has(Tail(work.ops), "balance") => Has(work.ops, "balance")
      BY <1>2, TailPlan DEF Ops
    <3> QED
      BY <2>2, <2>3, <3>1
  <2>4. CASE At("invite") /\ work' = [work EXCEPT !.ops = <<"tell">> \o Tail(@)]
    <3>1. work.ops[1] = "invite" /\ "balance" \in Ops \ {"tell"}
      BY <1>2, <2>4 DEF At, Ops
    <3>2. Has(<<"tell">> \o Tail(work.ops), "balance") => Has(work.ops, "balance")
      BY <1>2, <3>1, RetoldPlan, Zenon
    <3> QED
      BY <2>2, <2>4, <3>2
  <2> QED
    BY <2>1, <2>3, <2>4 DEF Step, Calls, TgSend, Log, Invite, AddCredit, OtherUpdate, AddUserToDB,
                           StartBonus, Done
<1>4. \A k \in DOMAIN topups' : topups'[k].life = life => Right(topups'[k], updates, heard)
  <2>1. CASE AddCredit /\ topups' # topups
    <3> PICK times \in {1, 2} : TopsUp(times)
      BY <2>1 DEF AddCredit
    <3> DEFINE t == [life |-> life, upd |-> work.upd, src |-> work.src,
                     of |-> work.of, n |-> work.n, times |-> times]
    <3>1. At("balance") /\ topups' = Append(topups, t) /\ topups \in Seq(TopUp)
      BY <2>1 DEF AddCredit, TopsUp, TypeInv, TypeOK
    <3>2. Has(work.ops, "balance")
      <4>1. work.ops[1] = "balance" /\ 1 \in 1..Len(work.ops)
        BY <1>2, <3>1 DEF At
      <4> QED
        BY <4>1 DEF Has
    <3>3. Right(t, updates, heard)
      BY <3>2 DEF ChatInv, Right
    <3> HIDE DEF t
    <3>4. \A k \in DOMAIN topups' :
            (k \in DOMAIN topups /\ topups'[k] = topups[k]) \/ topups'[k] = t
      BY <3>1
    <3> QED
      BY <1>1, <3>3, <3>4 DEF ChatInv
  <2>2. CASE UNCHANGED topups
    BY <1>1, <2>2 DEF ChatInv
  <2> QED
    BY <2>1, <2>2 DEF Calls, TgSend, Log, Invite, OtherUpdate, AddUserToDB, StartBonus, Done
<1> QED
  BY <1>1, <1>3, <1>4 DEF ChatInv, AmountIn

LEMMA ChatStep == TypeInv /\ SpendInv /\ ChatInv /\ [Next]_vars => ChatInv'
<1> SUFFICES ASSUME TypeInv, SpendInv, ChatInv, [Next]_vars
             PROVE  ChatInv'
  OBVIOUS
<1>1. CASE UNCHANGED <<updates, up, life, topups, work, forvardMsg, heard>>
  BY <1>1 DEF ChatInv, AmountIn
<1>2. CASE TakeOrder
  <2>1. ~Has(work'.ops, "balance")
    <3>1. work'.ops = Append(OrderOps, "done") /\ ~Has(Append(OrderOps, "done"), "balance")
      BY <1>2, OrderWork, Plans
    <3> QED
      BY <3>1
  <2>2. UNCHANGED <<updates, up, life, topups, forvardMsg, heard>>
    BY <1>2 DEF TakeOrder
  <2> QED
    BY <2>1, <2>2 DEF ChatInv, AmountIn
<1>3. CASE Ends
  <2>1. PICK how \in Hows, link \in BOOLEAN : Die(how, link)
    BY <1>3, Ended
  <2>2. ~up' /\ forvardMsg' = Nothing /\ heard' = <<>> /\ ~Has(work'.ops, "balance")
    BY <2>1 DEF Die, Idle, Has
  <2> QED
    BY <2>2 DEF ChatInv
<1>4. CASE Restart
  <2>1. /\ life' = life + 1 /\ UNCHANGED <<updates, topups, forvardMsg, heard, work>>
        /\ life \in Nat /\ topups \in Seq(TopUp)
    BY <1>4 DEF Restart, TypeInv, TypeOK
  <2>2. \A k \in DOMAIN topups : topups[k].life # life + 1
    <3> SUFFICES ASSUME NEW k \in DOMAIN topups PROVE topups[k].life # life + 1
      OBVIOUS
    <3>1. topups[k] \in TopUp
      BY <2>1
    <3> QED
      BY <2>1, <3>1 DEF SpendInv, TopUp
  <2> QED
    BY <2>1, <2>2 DEF ChatInv, AmountIn
<1>5. GetUpdates \/ GotUpdates \/ PayBonus \/ LogBonus \/ AliveFinish \/ Signal \/ UNCHANGED vars =>
        UNCHANGED <<updates, up, life, topups, work, forvardMsg, heard>>
  BY DEF GetUpdates, GotUpdates, PayBonus, LogBonus, AliveFinish, Signal, vars
<1> QED
  BY <1>1, <1>2, <1>3, <1>4, <1>5, ChatSay, ChatTake, ChatCalls DEF Next, Loop, Calls, Ends

\* A process tops up the client whose message was forwarded, with the amount
\* that was named just before or, without one, in the message: for any chat,
\* any failures and restarts.
THEOREM ChatFollowed == Spec => []TopUpsFollowTheChat
<1>1. Init => TypeInv /\ SpendInv /\ ChatInv
  BY TypeInit, SpendInit, ChatInit
<1>2. TypeInv /\ SpendInv /\ ChatInv /\ [Next]_vars => (TypeInv /\ SpendInv /\ ChatInv)'
  BY TypeStep, SpendStep, ChatStep
<1>3. ChatInv => TopUpsFollowTheChat
  <2> SUFFICES ASSUME ChatInv, NEW t \in Range(topups), t.life = life, up
               PROVE  /\ t.of = updates[t.upd].of /\ t.n = updates[t.src].n
                      /\ \/ updates[t.upd].kind = "post" /\ t.src = t.upd
                         \/ \E k \in DOMAIN heard : heard[k] = t.upd /\ t.src = NamedBy(k)
                      /\ updates[t.src].what = "bablo"
    BY DEF TopUpsFollowTheChat
  <2>1. Right(t, updates, heard)
    BY DEF ChatInv, Range
  <2> QED
    BY <2>1 DEF Right, Named, NamedBy
<1> QED
  BY <1>1, <1>2, <1>3, PTL DEF Spec

-----------------------------------------------------------------------------
(* Registration *)

\* the client that the handler will add to users
Joining(c) == Has(work.ops, "insert") /\ updates[work.upd].who = c

\* SELECTs that failed and statements that were applied twice
Slips == faults.reads + faults.resent

\* A client that is being added has no row yet but for these.
RowInv ==
  /\ \A k \in 1..Len(work.ops) : work.ops[k] = "insert" => k = 1
  /\ Has(work.ops, "insert") => work.upd \in 1..Len(updates)
  /\ \A c \in Clients : rows[c] + (IF Joining(c) THEN 1 ELSE 0) <= 1 + Slips

\* what is not about clients
LEMMA RowKept ==
  ASSUME TypeInv, RowInv, UNCHANGED rows, Slips' >= Slips,
         Slips' \in Int, ~Has(work'.ops, "insert")
  PROVE  RowInv'
<1>1. \A c \in Clients : ~Joining(c)'
  BY DEF Joining
<1>2. rows \in [Clients -> Nat] /\ Slips \in Int
  BY DEF TypeInv, TypeOK, Slips
<1>3. \A c \in Clients : rows'[c] + 0 <= 1 + Slips'
  <2> SUFFICES ASSUME NEW c \in Clients PROVE rows'[c] + 0 <= 1 + Slips'
    OBVIOUS
  <2>1. rows[c] \in Nat /\ rows[c] <= 1 + Slips
    BY <1>2 DEF RowInv
  <2> QED
    BY <1>2, <2>1
<1> QED
  BY <1>1, <1>3 DEF RowInv, Has

LEMMA SlipsGrow ==
  ASSUME TypeInv, NEW kind, Fault(kind) \/ UNCHANGED faults
  PROVE  /\ Slips' \in Int /\ Slips' >= Slips
         /\ Fault("dbRead") \/ Fault("resent") => Slips' = Slips + 1
<1>1. faults.reads \in Int /\ faults.resent \in Int
  BY DEF TypeInv, TypeOK
<1> QED
  BY <1>1 DEF Fault, Slips

LEMMA PlanInserts ==
  /\ \A s \in {<<>>, <<"log">>, <<"tell">>, Append(<<>>, "done"), Append(<<"tell">>, "done"),
               Append(<<"invite">>, "done"), Append(<<"credit", "tell", "tell">>, "done"),
               Append(OrderOps, "done"), Append(TopUpOps, "tell"), Append(TopUpOps, "done")} :
       ~Has(s, "insert")
  /\ \A k \in 1..Len(Append(<<"insert">>, "done")) : Append(<<"insert">>, "done")[k] = "insert" => k = 1
BY DEF Has, OrderOps, TopUpOps

\* who is added when an update is taken was not found
LEMMA TakenInsert ==
  ASSUME TypeInv, TakeUpdate, NEW i, i = Head(tgch), NEW u, u = updates[i],
         Has(work'.ops, "insert")
  PROVE  /\ work'.ops = Append(<<"insert">>, "done") /\ work'.upd = i
         /\ rows[u.who] = 0 \/ Slips' = Slips + 1
<1>1. ASSUME NEW s, Do(i, s), ~Has(Append(s, "done"), "insert") PROVE FALSE
  <2>1. work'.ops = Append(s, "done")
    BY <1>1 DEF Do, Idle
  <2> QED
    BY <1>1, <2>1
<1>2. /\ ~Has(Append(<<>>, "done"), "insert") /\ ~Has(Append(<<"tell">>, "done"), "insert")
      /\ ~Has(Append(<<"invite">>, "done"), "insert")
      /\ ~Has(Append(TopUpOps, "done"), "insert") /\ ~Has(Append(TopUpOps, "tell"), "insert")
      /\ ~Has(Append(<<"credit", "tell", "tell">>, "done"), "insert")
      /\ ~Has(<<"log">>, "insert") /\ ~Has(<<"tell">>, "insert")
  BY PlanInserts
<1>3. ~Uncounted(i) /\ ~TellLate(i)
  <2>1. TellLate(i) => work'.ops = <<"tell">>
    BY DEF TellLate, Idle
  <2>2. Uncounted(i) => work'.ops = Append(TopUpOps, "tell") \/ work'.ops = <<"log">>
    BY DEF Uncounted, Idle
  <2> QED
    BY <1>2, <2>1, <2>2
<1>4. OnTeleBot(i)
  BY <1>3 DEF TakeUpdate
<1>5. ~Answer(i)
  <2> SUFFICES ASSUME Answer(i) PROVE FALSE
    OBVIOUS
  <2>1. \A m, c : ~DoFor(i, TopUpOps, m, c) /\ ~DoFor(i, <<"credit", "tell", "tell">>, m, c)
    <3> SUFFICES ASSUME NEW m, NEW c
                 PROVE  ~DoFor(i, TopUpOps, m, c) /\ ~DoFor(i, <<"credit", "tell", "tell">>, m, c)
      OBVIOUS
    <3>1. DoFor(i, TopUpOps, m, c) => work'.ops = Append(TopUpOps, "done")
      BY DEF DoFor
    <3>2. DoFor(i, <<"credit", "tell", "tell">>, m, c) =>
            work'.ops = Append(<<"credit", "tell", "tell">>, "done")
      BY DEF DoFor
    <3> QED
      BY <1>2, <3>1, <3>2, Zenon
  <2>2. ~Do(i, <<>>) /\ ~Do(i, <<"tell">>) /\ ~Do(i, <<"invite">>)
    BY <1>1, <1>2
  <2> QED
    BY <2>1, <2>2 DEF Answer, Forward
<1>6. RegisterNewUser(i)
  BY <1>1, <1>2, <1>4, <1>5 DEF OnTeleBot
<1>7. Do(i, <<"insert">>)
  BY <1>1, <1>2, <1>6 DEF RegisterNewUser
<1>8. Standing(u.who) = "unknown" \/ Fault("dbRead")
  <2>1. ~Do(i, <<>>)
    BY <1>1, <1>2
  <2> QED
    BY <1>4, <1>5, <2>1 DEF OnTeleBot
<1>9. Standing(u.who) = "unknown" => rows[u.who] = 0
  BY DEF Standing
<1>10. Fault("dbRead") => Slips' = Slips + 1
  BY SlipsGrow
<1> QED
  BY <1>7, <1>8, <1>9, <1>10 DEF Do, Idle

LEMMA RowInit == Init => RowInv
<1> SUFFICES ASSUME Init PROVE RowInv
  OBVIOUS
<1>1. work.ops = <<>> /\ ~Has(work.ops, "insert") /\ Slips = 0
  BY DEF Init, Idle, Has, Slips
<1>2. \A c \in Clients : rows[c] \in {0, 1}
  BY DEF Init
<1> QED
  BY <1>1, <1>2 DEF RowInv, Joining

LEMMA RowTake ==
  ASSUME TypeInv, RowInv, TakeUpdate
  PROVE  RowInv'
<1> DEFINE i == Head(tgch)
           u == updates[i]
<1>1. i \in 1..Len(updates) /\ u \in Update
  BY NextUpdate DEF TakeUpdate
<1>2. UNCHANGED <<rows, updates>>
  BY DEF TakeUpdate
<1>3. Slips' >= Slips /\ Slips' \in Int
  <2>1. UNCHANGED faults \/ Fault("dbRead")
    BY DEF TakeUpdate, Uncounted, TellLate, OnTeleBot, Answer, Forward
  <2> QED
    BY <2>1, SlipsGrow
<1>4. CASE Has(work'.ops, "insert")
  <2>1. /\ work'.ops = Append(<<"insert">>, "done") /\ work'.upd = i
        /\ rows[u.who] = 0 \/ Slips' = Slips + 1
    BY <1>4, TakenInsert
  <2>2. rows \in [Clients -> Nat] /\ Slips \in Nat /\ u.who \in Clients
    <3>1. rows \in [Clients -> Nat] /\ faults.reads \in Nat /\ faults.resent \in Nat
      BY DEF TypeInv, TypeOK
    <3>2. u.who \in Clients
      BY <1>1 DEF Update
    <3> QED
      BY <3>1, <3>2 DEF Slips
  <2> HIDE DEF i, u
  <2>3. \A c \in Clients : Joining(c)' <=> c = u.who
    BY <1>2, <1>4, <2>1 DEF Joining, u
  <2>4. ASSUME NEW c \in Clients
        PROVE  rows'[c] + (IF Joining(c)' THEN 1 ELSE 0) <= 1 + Slips'
    <3>1. rows[c] <= 1 + Slips /\ rows[c] \in Nat /\ rows'[c] = rows[c]
          /\ Slips \in Int
      <4>1. rows[c] + (IF Joining(c) THEN 1 ELSE 0) <= 1 + Slips
        BY DEF RowInv
      <4> QED
        BY <1>2, <2>2, <4>1
    <3>2. CASE c = u.who
      <4>1. Joining(c)'
        BY <2>3, <3>2
      <4>2. rows[c] + 1 <= 1 + Slips'
        BY <1>3, <2>1, <2>2, <3>1, <3>2
      <4> QED
        BY <3>1, <4>1, <4>2
    <3>3. CASE c # u.who
      <4>1. ~Joining(c)'
        BY <2>3, <3>3
      <4>2. rows[c] + 0 <= 1 + Slips'
        BY <1>3, <3>1
      <4> QED
        BY <3>1, <4>1, <4>2
    <3> QED
      BY <3>2, <3>3
  <2>5. \A k \in 1..Len(work'.ops) : work'.ops[k] = "insert" => k = 1
    BY <2>1, PlanInserts
  <2>6. work'.upd \in 1..Len(updates')
    BY <1>1, <1>2, <2>1
  <2> QED
    BY <2>4, <2>5, <2>6 DEF RowInv
<1>5. CASE ~Has(work'.ops, "insert")
  BY <1>2, <1>3, <1>5, RowKept
<1> QED
  BY <1>4, <1>5

LEMMA RowCalls ==
  ASSUME TypeInv, RowInv, Calls
  PROVE  RowInv'
<1>1. work \in Work /\ Plan(work.ops) /\ work.ops # <<>> /\ work.ops \in Seq(Ops)
  BY DEF TypeInv, TypeOK, WorkOK, Plan, Calls, TgSend, Log, Invite, AddCredit, OtherUpdate,
         AddUserToDB, StartBonus, Done, At
<1>2. ~Has(work'.ops, "insert")
  <2>1. CASE work' = Idle
    BY <2>1 DEF Idle, Has
  <2>2. CASE work' = [work EXCEPT !.ops = Tail(@)]
    <3>1. work'.ops = Tail(work.ops)
      BY <1>1, <2>2 DEF Work
    <3>2. \A k \in 1..Len(Tail(work.ops)) :
            k + 1 \in 1..Len(work.ops) /\ Tail(work.ops)[k] = work.ops[k + 1]
      BY <1>1, TailFacts
    <3>3. \A k \in 1..Len(Tail(work.ops)) : Tail(work.ops)[k] # "insert"
      BY <3>2 DEF RowInv
    <3> QED
      BY <3>1, <3>3 DEF Has
  <2>3. CASE At("invite") /\ work' = [work EXCEPT !.ops = <<"tell">> \o Tail(@)]
    <3>1. work.ops[1] = "invite" /\ work'.ops = <<"tell">> \o Tail(work.ops)
      BY <1>1, <2>3 DEF At, Work
    <3>2. "insert" \in Ops \ {"tell"}
      BY DEF Ops
    <3>3. Has(work'.ops, "insert") => Has(work.ops, "insert")
      <4>1. Plan(work.ops) /\ work.ops # <<>>
        BY <1>1, Zenon
      <4>2. \A op \in Ops \ {"tell"} : Has(<<"tell">> \o Tail(work.ops), op) => Has(work.ops, op)
        BY <3>1, <4>1, RetoldPlan, Zenon
      <4> QED
        BY <3>1, <3>2, <4>2, Zenon
    <3>4. ~Has(work.ops, "insert")
      BY <3>1 DEF RowInv, Has
    <3> QED
      BY <3>3, <3>4
  <2> QED
    BY <2>1, <2>2, <2>3 DEF Step, Calls, TgSend, Log, Invite, AddCredit, OtherUpdate, AddUserToDB,
                           StartBonus, Done
<1>3. Slips' >= Slips /\ Slips' \in Int
  BY SlipsGrow DEF Calls, TgSend, Log, Invite, AddCredit, OtherUpdate, AddUserToDB, StartBonus, Done
<1>4. CASE AddUserToDB
  <2> DEFINE c == updates[work.upd].who
  <2>1. At("insert") /\ \/ UNCHANGED rows
                        \/ rows' = [rows EXCEPT ![c] = @ + 1]
                        \/ rows' = [rows EXCEPT ![c] = @ + 2] /\ Fault("resent")
    BY <1>4 DEF AddUserToDB, Inserts
  <2>2. work.ops[1] = "insert" /\ Has(work.ops, "insert")
    <3>1. work.ops[1] = "insert" /\ 1 \in 1..Len(work.ops)
      BY <1>1, <2>1 DEF At
    <3> QED
      BY <3>1 DEF Has
  <2>3. Joining(c) /\ rows \in [Clients -> Nat] /\ Slips \in Int
    BY <2>2 DEF Joining, TypeInv, TypeOK, Slips
  <2>4. ASSUME NEW d \in Clients
        PROVE  rows'[d] + (IF Joining(d)' THEN 1 ELSE 0) <= 1 + Slips'
    <3>1. ~Joining(d)'
      BY <1>2 DEF Joining
    <3>2. \/ rows'[d] = rows[d]
          \/ d = c /\ rows'[d] = rows[d] + 1
          \/ d = c /\ rows'[d] = rows[d] + 2 /\ Slips' = Slips + 1
      <4>1. Fault("resent") => Slips' = Slips + 1
        BY SlipsGrow
      <4> QED
        BY <2>1, <2>3, <4>1
    <3>3. rows[d] <= 1 + Slips /\ rows[d] \in Nat /\ (d = c => rows[d] + 1 <= 1 + Slips)
      <4>1. rows[d] + (IF Joining(d) THEN 1 ELSE 0) <= 1 + Slips
        BY DEF RowInv
      <4>2. CASE d = c
        BY <2>3, <4>1, <4>2
      <4>3. CASE d # c
        BY <2>3, <4>1, <4>3
      <4> QED
        BY <4>2, <4>3
    <3>4. rows'[d] <= 1 + Slips' /\ rows'[d] \in Nat
      BY <1>3, <2>3, <3>2, <3>3
    <3>5. rows'[d] + 0 <= 1 + Slips'
      BY <1>3, <3>4
    <3> QED
      BY <3>1, <3>5
  <2> QED
    BY <1>2, <2>4 DEF RowInv, Has
<1>5. CASE ~AddUserToDB
  <2>1. UNCHANGED rows
    BY <1>5 DEF Calls, TgSend, Log, Invite, AddCredit, OtherUpdate, StartBonus, Done
  <2> QED
    BY <1>2, <1>3, <2>1, RowKept
<1> QED
  BY <1>4, <1>5

LEMMA RowStep == TypeInv /\ RowInv /\ [Next]_vars => RowInv'
<1> SUFFICES ASSUME TypeInv, RowInv, [Next]_vars
             PROVE  RowInv'
  OBVIOUS
<1>1. CASE UNCHANGED <<updates, work, rows>> /\ Slips' >= Slips /\ Slips' \in Int
  <2>1. \A c \in Clients : Joining(c)' <=> Joining(c)
    BY <1>1 DEF Joining
  <2>2. ASSUME NEW c \in Clients
        PROVE  rows'[c] + (IF Joining(c)' THEN 1 ELSE 0) <= 1 + Slips'
    <3>1. /\ rows[c] + (IF Joining(c) THEN 1 ELSE 0) <= 1 + Slips
          /\ rows[c] \in Nat /\ Slips \in Int
      BY DEF RowInv, TypeInv, TypeOK, Slips
    <3>2. rows[c] + (IF Joining(c) THEN 1 ELSE 0) <= 1 + Slips'
      <4>1. (IF Joining(c) THEN 1 ELSE 0) \in Nat
        OBVIOUS
      <4> DEFINE j == IF Joining(c) THEN 1 ELSE 0
      <4> HIDE DEF j
      <4>2. j \in Nat /\ rows[c] + j <= 1 + Slips
        BY <3>1, <4>1 DEF j
      <4>3. rows[c] + j <= 1 + Slips'
        BY <1>1, <3>1, <4>2
      <4> QED
        BY <4>3 DEF j
    <3> QED
      BY <1>1, <2>1, <3>2, Zenon
  <2> QED
    BY <1>1, <2>2 DEF RowInv
<1>2. ASSUME NEW u \in Says, Say(u) PROVE RowInv'
  <2>1. /\ updates' = Append(updates, u) /\ updates \in Seq(Says)
        /\ UNCHANGED <<work, rows, faults>> /\ Slips' = Slips
    BY <1>2 DEF Say, TypeInv, TypeOK, Slips
  <2>2. /\ \A j \in 1..Len(updates) : updates'[j] = updates[j] /\ j \in 1..Len(updates')
    BY <2>1
  <2>3. \A c \in Clients : Joining(c)' <=> Joining(c)
    BY <2>1, <2>2 DEF Joining, RowInv
  <2>4. \A c \in Clients : rows'[c] + (IF Joining(c)' THEN 1 ELSE 0) <= 1 + Slips'
    BY <2>1, <2>3, Zenon DEF RowInv
  <2> QED
    BY <2>1, <2>2, <2>4 DEF RowInv
<1>3. CASE TakeOrder
  <2>1. /\ work'.ops = Append(OrderOps, "done") /\ UNCHANGED <<rows, faults>>
    BY <1>3, OrderWork DEF TakeOrder
  <2>2. ~Has(work'.ops, "insert")
    BY <2>1, PlanInserts
  <2> QED
    BY <2>1, <2>2, SlipsGrow, RowKept
<1>4. CASE Ends
  <2>1. PICK how \in Hows, link \in BOOLEAN : Die(how, link)
    BY <1>4, Ended
  <2>2. UNCHANGED rows /\ ~Has(work'.ops, "insert")
    BY <2>1 DEF Die, Idle, Has
  <2>3. Slips' >= Slips /\ Slips' \in Int
    BY <1>4, SlipsGrow DEF Ends, LoopReturns, WaitReturns, TimeIsUp, Crash, DoneTooMany, DeleteInvite
  <2> QED
    BY <2>2, <2>3, RowKept
<1>5. ASSUME GetUpdates \/ GotUpdates \/ PayBonus \/ LogBonus \/ AliveFinish \/ Signal \/ Restart
               \/ UNCHANGED vars
      PROVE  UNCHANGED <<updates, work, rows>> /\ Slips' >= Slips /\ Slips' \in Int
  <2>1. /\ UNCHANGED <<updates, work, rows>>
        /\ UNCHANGED faults \/ Fault("stop")
    BY <1>5 DEF GetUpdates, GotUpdates, PayBonus, LogBonus, AliveFinish, Signal, Restart, vars
  <2> QED
    BY <2>1, SlipsGrow
<1> QED
  BY <1>1, <1>2, <1>3, <1>4, <1>5, RowTake, RowCalls DEF Next, Loop, Calls, Ends

\* A client has one row, and one more for each SELECT that failed and each
\* statement that was applied twice, however often he sends his contact or
\* Telegram delivers it, and whatever else fails.
THEOREM RegisteredOnce == Spec => []OneRowPerClient
<1>1. Init => TypeInv /\ RowInv
  BY TypeInit, RowInit
<1>2. TypeInv /\ RowInv /\ [Next]_vars => (TypeInv /\ RowInv)'
  BY TypeStep, RowStep
<1>3. TypeInv /\ RowInv => OneRowPerClient
  <2> SUFFICES ASSUME TypeInv, RowInv, NEW c \in Clients
               PROVE  rows[c] <= 1 + faults.reads + faults.resent
    BY DEF OneRowPerClient
  <2>1. /\ rows[c] + (IF Joining(c) THEN 1 ELSE 0) <= 1 + (faults.reads + faults.resent)
        /\ rows[c] \in Nat /\ faults.reads \in Int /\ faults.resent \in Int
    BY DEF RowInv, TypeInv, TypeOK, Slips
  <2> QED
    BY <2>1
<1> QED
  BY <1>1, <1>2, <1>3, PTL DEF Spec

=============================================================================
