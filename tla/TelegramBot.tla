---------------------------- MODULE TelegramBot ----------------------------
(***************************************************************************)
(* The loop of the telegram bot (cmd/venderctl/telegram), how it gets its  *)
(* messages and how it ends (main.go, package alive).                      *)
(*                                                                         *)
(* Telegram keeps every update until the bot asks for later ones.  A       *)
(* goroutine asks and fills a channel; the loop handles one update or one  *)
(* message of a robot after the other.  The administrator tops a client up *)
(* in two messages: the amount, and a message of the client that he        *)
(* forwards; the amount waits in forvardMsg.                               *)
(*                                                                         *)
(* A handler is the sequence ops of the calls it still has to make; each   *)
(* is one step.  Alive counts the handlers that a stop has to wait for.    *)
(* The calls that write tg_chat and user_orders count themselves within    *)
(* their handler, and since Alive.Add is refused after a stop while        *)
(* Alive.Done is not, they then uncount the handler instead.               *)
(***************************************************************************)
EXTENDS Integers, SequencesExt, FiniteSetsExt

CONSTANTS
  Clients,     \* who writes to the bot
  Admin,       \* one of them
  Banned,      \* and some of them
  None,        \* no client
  Numbers,     \* amounts that are written
  Says,        \* what may be written
  MaxMessages, \* how many updates, and reports of robots that a drink is made
  FaultKinds, MaxFaults

\* a signal, the process dies, a SELECT fails, an INSERT or UPDATE fails and
\* is not applied, or its answer is lost and go-pg, which tries a statement
\* again (MaxRetries), has it applied twice; a text cannot be sent in three
\* attempts
AllFaults == {"stop", "crash", "dbRead", "dbWrite", "resent", "send"}

Kinds == {"number", "forward", "post", "contact", "command", "invite", "edit"}

\* number: bablo or credit and n.  forward: of client of, None if he hides
\* his account or nothing was forwarded; n is the number in its text, or 0.
\* post: of the channel, of AdminBot.  command: any text that is answered by
\* a text
Update == [kind : Kinds, who : Clients, what : {"bablo", "credit"},
           n : Numbers \cup {0}, of : Clients \cup {None}]

ASSUME BotAssumption ==
  /\ Admin \in Clients /\ Banned \subseteq Clients /\ None \notin Clients
  /\ Numbers \subseteq Nat \ {0}
  /\ Says \subseteq Update
  /\ \A u \in Says : u.kind \in {"number", "forward"} => u.who = Admin
  /\ \A u \in Says : u.kind = "post" => u.of \in Clients
  /\ \A u \in Says : u.kind \in {"number", "post"} => u.n # 0
  /\ \A u \in Says : u.kind # "number" => u.what = "bablo"
  /\ MaxMessages \in Nat /\ MaxFaults \in Nat
  /\ FaultKinds \subseteq AllFaults

VARIABLES
  updates,     \* all updates so far; the place of one is its id
  confirmed,   \* Telegram has forgotten those up to this id
  aged,        \* those up to this id are known to be older than a minute
  rows,        \* of each client in the table users
  orders,      \* messages of robots so far
  up,          \* the process runs
  offset,      \* the last id it has got
  tgch,        \* the channel: ids
  forvardMsg,  \* the amount that waits for its client
  work,        \* what the loop is doing
  bonus,       \* goroutines of bonuses: asleep, and what the others still log
  links,       \* invitations that were not sent but will be deleted
  alive,       \* Alive: its state and counter
  faults,
  (* for properties only *)
  life,        \* how many times the process was started
  heard,       \* messages the present process has parsed
  topups,      \* additions to balances by the administrator
  handled,     \* updates that were handled, or whose sender was told it is late
  lost,        \* updates that a process had when it died, and Telegram has not
  last         \* how the process ended

telegram == <<updates, confirmed, aged>>
process  == <<up, life>>
history  == <<heard, topups, handled>>
ending   == <<lost, last>>
vars == <<telegram, rows, orders, process, offset, tgch, forvardMsg, work, bonus, links,
          alive, faults, history, ending>>

Ids == 1..MaxMessages

Ops == {"tell", "note", "log", "invite", "balance", "credit", "insert", "charge", "bonus", "done"}

\* upd: the update, 0 for a robot's message; src: the one that named n
Work == [ops : Seq(Ops), upd : Ids \cup {0}, src : Ids \cup {0}, of : Clients \cup {None},
         n : Numbers \cup {0}, counted : BOOLEAN]

Idle == [ops |-> <<>>, upd |-> 0, src |-> 0, of |-> None, n |-> 0, counted |-> FALSE]

Amount == [what : {"bablo", "credit"}, n : Numbers, src : Ids]
Nothing == [what |-> "bablo", n |-> 0, src |-> 0]

\* thief: a goroutine nobody counted has uncounted a handler
Alive == [st : {"running", "stopping", "finished"}, wg : Nat, thief : BOOLEAN]
Running == [st |-> "running", wg |-> 0, thief |-> FALSE]

\* a call of addCredit, whose UPDATE was applied times
TopUp == [life : Nat, upd : Ids, src : Ids, of : Clients, n : Numbers, times : {1, 2}]

Hows == {"start", "crash", "return", "wait", "timeout", "panic"}

\* uncharged: the drink of a handler that Alive counted was not charged
Ending == [how : Hows, stopped : BOOLEAN, uncharged : BOOLEAN, thief : BOOLEAN, link : BOOLEAN]

Start == [how |-> "start", stopped |-> FALSE, uncharged |-> FALSE, thief |-> FALSE, link |-> FALSE]

-----------------------------------------------------------------------------
\* how many so far, failed SELECTs and statements applied twice among them
Faults == [n : 0..MaxFaults, reads : 0..MaxFaults, resent : 0..MaxFaults]

Fault(kind) ==
  /\ kind \in FaultKinds /\ faults.n < MaxFaults
  /\ faults' = [n |-> faults.n + 1,
                reads |-> faults.reads + (IF kind = "dbRead" THEN 1 ELSE 0),
                resent |-> faults.resent + (IF kind = "resent" THEN 1 ELSE 0)]

Free == up /\ work.ops = <<>>

(* Alive *)

AliveAdd == alive' = IF alive.st = "running" THEN [alive EXCEPT !.wg = @ + 1] ELSE alive

\* mutant: the counter may become negative
DonePanics_IfFinished == alive.st = "finished"

DonePanics == alive.st = "finished" \/ alive.wg = 0

AliveDone == ~DonePanics /\ alive' = [alive EXCEPT !.wg = @ - 1]

\* an Add and its Done around a statement
Counted(inner) ==
  \/ alive.st = "running" /\ UNCHANGED alive
  \/ /\ alive.st # "running" /\ ~DonePanics
     /\ alive' = [alive EXCEPT !.wg = @ - 1, !.thief = @ \/ ~inner]

\* wg.Wait returns
AliveFinish ==
  /\ up /\ alive.st = "stopping" /\ alive.wg = 0
  /\ alive' = [alive EXCEPT !.st = "finished"]
  /\ UNCHANGED <<telegram, rows, orders, process, offset, tgch, forvardMsg, work, bonus, links,
                 faults, history, ending>>

-----------------------------------------------------------------------------
(* Telegram and its clients *)

Say(u) ==
  /\ Len(updates) + orders < MaxMessages
  /\ updates' = Append(updates, u)
  /\ UNCHANGED <<confirmed, aged, rows, orders, process, offset, tgch, forvardMsg, work, bonus,
                 links, alive, faults, history, ending>>

\* GetUpdatesChan: asking for updates after offset confirms the others,
\* whether or not the answer arrives
GetUpdates ==
  /\ up /\ confirmed < offset
  /\ confirmed' = offset
  /\ UNCHANGED <<updates, aged, rows, orders, process, offset, tgch, forvardMsg, work, bonus,
                 links, alive, faults, history, ending>>

\* mutant: only the last update of an answer is passed on
GotUpdates_LastOne ==
  /\ up /\ offset <= confirmed /\ confirmed < Len(updates)
  /\ offset' = Len(updates) /\ tgch' = Append(tgch, Len(updates))
  /\ UNCHANGED <<telegram, rows, orders, process, forvardMsg, work, bonus, links, alive, faults,
                 history, ending>>

GotUpdates ==
  /\ up /\ offset <= confirmed /\ confirmed < Len(updates)
  /\ offset' = Len(updates)
  /\ tgch' = tgch \o [k \in 1..Len(updates) - confirmed |-> confirmed + k]
  /\ UNCHANGED <<telegram, rows, orders, process, forvardMsg, work, bonus, links, alive, faults,
                 history, ending>>

-----------------------------------------------------------------------------
(* telegramLoop takes an update *)

\* mutant: rows are written for another type than they are looked for
Standing_OtherType(c) == IF c \in Banned THEN "banned" ELSE IF c = Admin THEN "client" ELSE "unknown"

\* what ClientGet finds
Standing(c) == IF rows[c] = 0 THEN "unknown" ELSE IF c \in Banned THEN "banned" ELSE "client"

Do(i, ops) == work' = [Idle EXCEPT !.ops = Append(ops, "done"), !.upd = i,
                                   !.counted = alive.st = "running"]

DoFor(i, ops, m, c) == work' = [ops |-> Append(ops, "done"), upd |-> i, src |-> m.src, of |-> c,
                                n |-> m.n, counted |-> alive.st = "running"]

\* registerNewUser
RegisterNewUser(i) ==
  /\ Do(i, IF updates[i].kind = "contact" THEN <<"insert">> ELSE <<>>)
  /\ UNCHANGED <<forvardMsg, heard>>

\* mutant: the amount is forgotten only when the client is not known
Forgets_OnFailure(u) == u.of = None

\* defer clearForwardMessage
Forgets(u) == TRUE

\* mutant: the number in the forwarded text goes first
AmountOf_OwnFirst(i) ==
  IF updates[i].n # 0 THEN [what |-> "bablo", n |-> updates[i].n, src |-> i] ELSE forvardMsg

\* the amount of a forwarded message: the one that waits, or its own
AmountOf(i) ==
  IF forvardMsg # Nothing THEN forvardMsg
  ELSE IF updates[i].n # 0 THEN [what |-> "bablo", n |-> updates[i].n, src |-> i]
  ELSE Nothing

TopUpOps == <<"tell", "balance", "note", "tell">>

Forward(i) ==
  LET u == updates[i]
      m == AmountOf(i)
  IN /\ forvardMsg' = IF Forgets(u) THEN Nothing ELSE forvardMsg
     /\ heard' = Append(heard, i)
     /\ \/ m = Nothing /\ Do(i, <<>>) /\ UNCHANGED faults
        \/ m # Nothing /\ u.of = None /\ Do(i, <<"tell">>) /\ UNCHANGED faults
        \/ /\ m # Nothing /\ u.of # None /\ Standing(u.of) = "client"
           /\ DoFor(i, IF m.what = "bablo" THEN TopUpOps ELSE <<"credit", "tell", "tell">>, m, u.of)
           /\ UNCHANGED faults
        \/ m # Nothing /\ u.of # None /\ Standing(u.of) # "client" /\ Do(i, <<"tell">>) /\ UNCHANGED faults
        \/ m # Nothing /\ u.of # None /\ Do(i, <<"tell">>) /\ Fault("dbRead")

Answer(i) ==
  LET u == updates[i]
  IN \/ u.kind = "forward" /\ Forward(i)
     \/ /\ u.kind = "number"
        /\ forvardMsg' = [what |-> u.what, n |-> u.n, src |-> i]
        /\ heard' = Append(heard, i)
        /\ Do(i, <<>>) /\ UNCHANGED faults
     \/ /\ u.kind \in {"command", "invite", "contact"}
        /\ Do(i, IF u.kind = "contact" THEN <<>> ELSE IF u.kind = "invite" THEN <<"invite">> ELSE <<"tell">>)
        /\ UNCHANGED <<forvardMsg, heard, faults>>

\* an error of ClientGet that is not a ban looks like a new client
OnTeleBot(i) ==
  LET c == updates[i].who
  IN /\ AliveAdd
     /\ \/ Standing(c) = "client" /\ Answer(i)
        \/ Standing(c) = "banned" /\ Do(i, <<>>) /\ UNCHANGED <<forvardMsg, heard, faults>>
        \/ Standing(c) = "unknown" /\ RegisterNewUser(i) /\ UNCHANGED faults
        \/ RegisterNewUser(i) /\ Fault("dbRead")

\* TgChannelParser and logTgDbChange: not counted by the loop
Uncounted(i) ==
  LET u == updates[i]
  IN /\ work' = IF u.kind = "post"
                THEN [ops |-> Append(TopUpOps, "tell"), upd |-> i, src |-> i, of |-> u.of, n |-> u.n,
                      counted |-> FALSE]
                ELSE [Idle EXCEPT !.ops = <<"log">>, !.upd = i]
     /\ UNCHANGED <<forvardMsg, heard, alive, faults>>

TellLate(i) ==
  /\ aged' = IF i > aged THEN i ELSE aged
  /\ work' = [Idle EXCEPT !.ops = <<"tell">>, !.upd = i]
  /\ UNCHANGED <<forvardMsg, heard, alive, faults>>

TakeUpdate ==
  /\ Free /\ tgch # <<>>
  /\ tgch' = Tail(tgch)
  /\ LET i == Head(tgch)
     IN \/ updates[i].kind \in {"post", "edit"} /\ Uncounted(i) /\ UNCHANGED aged
        \/ updates[i].kind \notin {"post", "edit"} /\ TellLate(i)
        \/ updates[i].kind \notin {"post", "edit"} /\ i > aged /\ OnTeleBot(i) /\ UNCHANGED aged
  /\ UNCHANGED <<updates, confirmed, rows, orders, process, offset, bonus, links, topups, handled, ending>>

\* mutant: the order is logged before it is charged
OrderOps_LogsFirst == <<"note", "charge", "tell", "bonus">>

\* cookResponseN, complete
OrderOps == <<"charge", "note", "tell", "bonus">>

TakeOrder ==
  /\ Free /\ Len(updates) + orders < MaxMessages
  /\ orders' = orders + 1
  /\ AliveAdd
  /\ Do(0, OrderOps)
  /\ UNCHANGED <<telegram, rows, process, offset, tgch, forvardMsg, bonus, links, faults,
                 history, ending>>

-----------------------------------------------------------------------------
(* The calls of a handler *)

At(op) == up /\ work.ops # <<>> /\ Head(work.ops) = op

\* the update is handled when its last call is made
Step ==
  /\ work' = IF Len(work.ops) = 1 THEN Idle ELSE [work EXCEPT !.ops = Tail(@)]
  /\ handled' = IF Len(work.ops) = 1 THEN handled \cup ({work.upd} \ {0}) ELSE handled

\* tgSend: the text is logged if it could be sent
TgSend ==
  /\ At("tell") /\ Step
  /\ \/ Counted(TRUE) /\ UNCHANGED faults
     \/ Fault("send") /\ UNCHANGED alive
  /\ UNCHANGED <<telegram, rows, orders, process, offset, tgch, forvardMsg, bonus, links,
                 heard, topups, ending>>

\* LogUserOrder, logTgDbChange: an error is only logged
Log ==
  /\ At("note") \/ At("log")
  /\ Step /\ Counted(TRUE)
  /\ UNCHANGED <<telegram, rows, orders, process, offset, tgch, forvardMsg, bonus, links, faults,
                 heard, topups, ending>>

\* without a token there is no invitation; one is deleted after five minutes,
\* by its place in the chat, which it does not have if it could not be sent
Invite ==
  /\ At("invite")
  /\ \/ Step /\ Counted(TRUE) /\ UNCHANGED <<links, faults>>
     \/ Step /\ Fault("send") /\ links' = links + 1 /\ UNCHANGED alive
     \/ /\ work' = [work EXCEPT !.ops = <<"tell">> \o Tail(@)]
        /\ Fault("dbWrite") /\ UNCHANGED <<handled, links, alive>>
  /\ UNCHANGED <<telegram, rows, orders, process, offset, tgch, forvardMsg, bonus, heard, topups, ending>>

\* ClientUpdateBalance: balance = balance + n; its error is only logged
TopsUp(times) ==
  topups' = Append(topups, [life |-> life, upd |-> work.upd, src |-> work.src,
                            of |-> work.of, n |-> work.n, times |-> times])

AddCredit ==
  /\ At("balance") /\ Step
  /\ \/ TopsUp(1) /\ UNCHANGED faults
     \/ TopsUp(2) /\ Fault("resent")
     \/ UNCHANGED topups /\ Fault("dbWrite")
  /\ UNCHANGED <<telegram, rows, orders, process, offset, tgch, forvardMsg, bonus, links, alive,
                 heard, ending>>

\* ClientUpdateBalance and ClientSetCredit, of no interest to the properties
OtherUpdate ==
  /\ At("charge") \/ At("credit")
  /\ Step
  /\ UNCHANGED <<telegram, rows, orders, process, offset, tgch, forvardMsg, bonus, links, alive,
                 faults, heard, topups, ending>>

\* addUserToDB: the table has no key that refuses a second row, and the
\* handler ends with or without an error
Inserts(times) == rows' = [rows EXCEPT ![updates[work.upd].who] = @ + times]

AddUserToDB ==
  /\ At("insert") /\ Step
  /\ \/ Inserts(1) /\ UNCHANGED faults
     \/ Inserts(2) /\ Fault("resent")
     \/ UNCHANGED rows /\ Fault("dbWrite")
  /\ UNCHANGED <<telegram, orders, process, offset, tgch, forvardMsg, bonus, links, alive,
                 heard, topups, ending>>

\* a client with a discount
StartBonus ==
  /\ At("bonus") /\ Step
  /\ \/ bonus' = [bonus EXCEPT !.asleep = @ + 1]
     \/ UNCHANGED bonus
  /\ UNCHANGED <<telegram, rows, orders, process, offset, tgch, forvardMsg, links, alive, faults,
                 heard, topups, ending>>

Done ==
  /\ At("done") /\ Step /\ AliveDone
  /\ UNCHANGED <<telegram, rows, orders, process, offset, tgch, forvardMsg, bonus, links, faults,
                 heard, topups, ending>>

\* the goroutine of a bonus: UPDATE, then LogUserOrder and tgSend
PayBonus ==
  /\ up /\ bonus.asleep > 0
  /\ bonus' = [asleep |-> bonus.asleep - 1, logs |-> bonus.logs + 2]
  /\ UNCHANGED <<telegram, rows, orders, process, offset, tgch, forvardMsg, work, links, alive,
                 faults, history, ending>>

LogBonus ==
  /\ up /\ bonus.logs > 0
  /\ bonus' = [bonus EXCEPT !.logs = @ - 1]
  /\ Counted(FALSE)
  /\ UNCHANGED <<telegram, rows, orders, process, offset, tgch, forvardMsg, work, links,
                 faults, history, ending>>

-----------------------------------------------------------------------------
(* The process ends and is started again *)

Die(how, link) ==
  /\ up /\ up' = FALSE
  /\ last' = [how |-> how, stopped |-> alive.st # "running",
              uncharged |-> work.counted /\ Contains(work.ops, "charge"),
              thief |-> alive.thief, link |-> link]
  /\ lost' = lost \cup {i \in 1..confirmed : i \notin handled}
  /\ offset' = 0 /\ tgch' = <<>> /\ forvardMsg' = Nothing /\ work' = Idle
  /\ bonus' = [asleep |-> 0, logs |-> 0] /\ links' = 0
  /\ alive' = Running /\ heard' = <<>>
  /\ UNCHANGED <<telegram, rows, orders, life, topups, handled>>

\* main: Alive.Stop
Signal ==
  /\ up /\ alive.st = "running"
  /\ alive' = [alive EXCEPT !.st = "stopping"]
  /\ Fault("stop")
  /\ UNCHANGED <<telegram, rows, orders, process, offset, tgch, forvardMsg, work, bonus, links,
                 history, ending>>

\* telegramLoop returns nil and main exits
LoopReturns == Free /\ alive.st # "running" /\ Die("return", FALSE) /\ UNCHANGED faults

\* Alive.Wait returns and main exits
WaitReturns == alive.st = "finished" /\ Die("wait", FALSE) /\ UNCHANGED faults

\* after five seconds
TimeIsUp == alive.st # "running" /\ Die("timeout", FALSE) /\ UNCHANGED faults

Crash == Die("crash", FALSE) /\ Fault("crash")

\* Alive.Done of a handler, of a goroutine, or within a call
DoneTooMany ==
  /\ DonePanics
  /\ \/ At("done")
     \/ alive.st # "running" /\ (At("tell") \/ At("note") \/ At("log") \/ At("invite") \/ bonus.logs > 0)
  /\ Die("panic", FALSE) /\ UNCHANGED faults

\* sm.Chat is nil
DeleteInvite == links > 0 /\ Die("panic", TRUE) /\ UNCHANGED faults

\* by the service manager; the channel of updates begins anew
Restart ==
  /\ ~up
  /\ up' = TRUE /\ life' = life + 1
  /\ last' = Start
  /\ UNCHANGED <<telegram, rows, orders, offset, tgch, forvardMsg, work, bonus, links, alive,
                 faults, history, lost>>

-----------------------------------------------------------------------------
Init ==
  /\ updates = <<>> /\ confirmed = 0 /\ aged = 0
  /\ rows \in {r \in [Clients -> {0, 1}] : r[Admin] = 1 /\ \A c \in Banned : r[c] = 1}
  /\ orders = 0
  /\ up = TRUE /\ life = 1
  /\ offset = 0 /\ tgch = <<>> /\ forvardMsg = Nothing /\ work = Idle
  /\ bonus = [asleep |-> 0, logs |-> 0] /\ links = 0
  /\ alive = Running
  /\ faults = [n |-> 0, reads |-> 0, resent |-> 0]
  /\ heard = <<>> /\ topups = <<>> /\ handled = {} /\ lost = {}
  /\ last = Start

Loop ==
  \/ TakeUpdate
  \/ TgSend \/ Log \/ Invite \/ AddCredit \/ OtherUpdate \/ AddUserToDB \/ StartBonus \/ Done

Next ==
  \/ \E u \in Says : Say(u)
  \/ GetUpdates \/ GotUpdates
  \/ Loop \/ TakeOrder
  \/ PayBonus \/ LogBonus
  \/ Signal \/ AliveFinish
  \/ LoopReturns \/ WaitReturns \/ TimeIsUp \/ Crash \/ DoneTooMany \/ DeleteInvite
  \/ Restart

Spec == Init /\ [][Next]_vars

\* the goroutines run, a stopped process ends after five seconds, a process
\* that has ended is started again
FairSpec ==
  /\ Spec
  /\ WF_vars(GetUpdates) /\ WF_vars(GotUpdates)
  /\ WF_vars(Loop)
  /\ WF_vars(TimeIsUp) /\ WF_vars(Restart)

-----------------------------------------------------------------------------
(* Properties *)

\* Every variable has its type.
TypeOK ==
  /\ updates \in Seq(Says) /\ Len(updates) <= MaxMessages
  /\ confirmed \in 0..Len(updates) /\ aged \in 0..Len(updates) /\ offset \in 0..Len(updates)
  /\ rows \in [Clients -> Nat] /\ orders \in 0..MaxMessages
  /\ up \in BOOLEAN /\ life \in Nat
  /\ tgch \in Seq(1..Len(updates)) /\ heard \in Seq(1..Len(updates))
  /\ forvardMsg \in Amount \cup {Nothing} /\ work \in Work
  /\ bonus \in [asleep : Nat, logs : Nat] /\ links \in Nat
  /\ alive \in Alive
  /\ faults \in Faults
  /\ topups \in Seq(TopUp)
  /\ handled \subseteq 1..Len(updates) /\ lost \subseteq 1..Len(updates)
  /\ last \in Ending

\* the update that names the amount of the k-th message that was parsed, if
\* it is a forwarded one: the message before it, or its own text
NamedBy(k) ==
  IF k > 1 /\ updates[heard[k - 1]].kind = "number" THEN heard[k - 1] ELSE heard[k]

\* A balance is topped up by the amount that the administrator has named
\* last and for the client whose message he forwarded next; without such an
\* amount by the number in the forwarded text (onTeleBot, forvardMsg).
TopUpsFollowTheChat ==
  \A t \in Range(topups) : t.life = life /\ up =>
    /\ t.of = updates[t.upd].of /\ t.n = updates[t.src].n
    /\ \/ updates[t.upd].kind = "post" /\ t.src = t.upd
       \/ \E k \in DOMAIN heard : heard[k] = t.upd /\ t.src = NamedBy(k)
    /\ updates[t.src].what = "bablo"

\* A process tops up once for an amount that was named once, however the
\* forwarded messages, failures and late messages come; only a process that
\* gets the same updates again may do it again.  The amount is then added
\* once to the balance, but for an UPDATE that go-pg has sent again after its
\* answer was lost: nothing keeps that from adding it twice
\* (forvardMsg, ClientUpdateBalance).
NumberIsSpentOnce ==
  /\ \A i, j \in DOMAIN topups :
       i # j /\ topups[i].src = topups[j].src => topups[i].life # topups[j].life
  /\ Cardinality({i \in DOMAIN topups : topups[i].times = 2}) <= faults.resent

\* A client who sends his contact gets one row in users, also when Telegram
\* delivers it twice.  Only two things give him another, each only one: a
\* failed SELECT that makes him look new (registerNewUser), and an INSERT that
\* go-pg has sent again after its answer was lost (addUserToDB).
OneRowPerClient == \A c \in Clients : rows[c] <= 1 + faults.reads + faults.resent

\* The process only panics after a signal, or because of an invitation that
\* could not be sent; and a stop that did not run out of time has waited for
\* the charge of a drink whose message was taken before the signal, unless
\* the goroutine of a bonus, which nobody counts, has uncounted it.
EndsInOrder ==
  /\ last.how = "panic" => last.stopped \/ last.link
  /\ last.how \in {"return", "wait"} /\ last.uncharged => last.thief

\* Every update is handled, or its sender is told that it came late, or the
\* process has died that had it and had let Telegram forget it.
EveryUpdateIsHandled ==
  \A i \in Ids : i <= Len(updates) ~> i \in handled \cup lost

=============================================================================
