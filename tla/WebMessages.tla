---------------------------- MODULE WebMessages ----------------------------
(***************************************************************************)
(* The messages between one client and the administrator (cmd/venderctl/   *)
(* web, table web_admin_messages).  The client writes and the              *)
(* administrator answers, or the other way round; an answer that looks     *)
(* like a sum of money tops up the client's balance first.  Devices of the *)
(* client learn of a message by a push or when they ask for the balance,   *)
(* and say that it was read.                                               *)
(*                                                                         *)
(* Every request is a goroutine of its own and does one or two statements  *)
(* without a transaction; what a page shows is as old as its last answer.  *)
(***************************************************************************)
EXTENDS Integers, Sequences, FiniteSets

CONSTANTS
  Devices,      \* pages of the client
  Pages,        \* pages of the administrator
  MaxMessages,  \* rows of the table
  MaxAnswers,   \* answers the administrator begins
  FaultKinds,   \* which faults may happen
  MaxFaults     \* and how many of them

AllFaults == {"db", "lost"}

ASSUME MessagesAssumption ==
  /\ MaxMessages \in Nat /\ MaxAnswers \in Nat /\ MaxFaults \in Nat
  /\ FaultKinds \subseteq AllFaults

VARIABLES
  msgs,     \* the table, by id
  list,     \* what a page of the administrator offers to answer
  admin,    \* the request of that page
  asked,    \* requests to answer so far
  inbox,    \* what is on its way to a device, by push or with the balance
  dialog,   \* the answer a device shows
  notice,   \* the message of the administrator it shows
  net,      \* requests of devices that are not handled yet
  balance,  \* top-ups credited
  orders,   \* top-ups told in user_orders
  faults,
  seen,     \* what any device has shown; for the properties only
  late      \* messages whose newer answer an older acknowledgement met, too

vars == <<msgs, list, admin, asked, inbox, dialog, notice, net, balance, orders, faults, seen, late>>
office == <<list, admin, asked, balance, orders>>
client == <<inbox, dialog, notice, net, seen>>

Ids == DOMAIN msgs

\* a reply is known by the number of its request; 0 is NULL
Row == [from : {"client", "admin"}, reply : Nat, replied : BOOLEAN, read : BOOLEAN]
NewRow(from) == [from |-> from, reply |-> 0, replied |-> FALSE, read |-> FALSE]

\* what a device shows: an answer to its message m, or the message m
Item == [kind : {"answer", "message"}, m : Nat, reply : Nat]
Answer(m) == [kind |-> "answer", m |-> m, reply |-> msgs[m].reply]
Message(m) == [kind |-> "message", m |-> m, reply |-> 0]
Nothing == [kind |-> "answer", m |-> 0, reply |-> 0]

Request == [from : Devices, op : {"ack", "mark", "reply"}, m : Nat, reply : Nat]

Idle == [pc |-> "idle", op |-> "none", m |-> 0, pays |-> FALSE, paid |-> FALSE, n |-> 0]

Fault(kind) == kind \in FaultKinds /\ faults < MaxFaults /\ faults' = faults + 1

-----------------------------------------------------------------------------
(* The administrator *)

\* messages without an answer
GetAdminMessages(a) ==
  /\ admin[a].pc = "idle"
  /\ list' = [list EXCEPT ![a] = {m \in Ids : msgs[m].from = "client" /\ ~msgs[m].replied}]
  /\ UNCHANGED <<msgs, admin, asked, balance, orders, client, faults, late>>

\* a page answers one message at a time
AdminReplyMessage(a) ==
  /\ admin[a].pc = "idle" /\ asked < MaxAnswers
  /\ asked' = asked + 1
  /\ \E m \in list[a], pays \in BOOLEAN :
       admin' = [admin EXCEPT ![a] = [Idle EXCEPT !.pc = "auto", !.op = "answer", !.m = m,
                                                  !.pays = pays, !.n = asked + 1]]
  /\ UNCHANGED <<msgs, list, balance, orders, client, faults, late>>

AdminSendMessage(a) ==
  /\ admin[a].pc = "idle" /\ Len(msgs) < MaxMessages
  /\ \E pays \in BOOLEAN :
       admin' = [admin EXCEPT ![a] = [Idle EXCEPT !.pc = "auto", !.op = "send", !.pays = pays]]
  /\ UNCHANGED <<msgs, list, asked, balance, orders, client, faults, late>>

\* a top-up that fails is only logged
AdminReplayAutoAction(a) ==
  /\ admin[a].pc = "auto"
  /\ \/ /\ balance' = balance + (IF admin[a].pays THEN 1 ELSE 0)
        /\ admin' = [admin EXCEPT ![a].pc = "write", ![a].paid = admin[a].pays]
        /\ UNCHANGED faults
     \/ /\ admin[a].pays /\ Fault("db")
        /\ admin' = [admin EXCEPT ![a].pc = "write"]
        /\ UNCHANGED balance
  /\ UNCHANGED <<msgs, list, asked, orders, client, late>>

\* mutant: what was read stays read
Answered_StaysRead(row, n) == [row EXCEPT !.reply = n, !.replied = TRUE]

Answered(row, n) == [row EXCEPT !.reply = n, !.replied = TRUE, !.read = FALSE]

WriteAnswer(a) ==
  /\ admin[a].pc = "write" /\ admin[a].op = "answer"
  /\ \/ /\ msgs' = [msgs EXCEPT ![admin[a].m] = Answered(@, admin[a].n)]
        /\ admin' = [admin EXCEPT ![a].pc = "tell"]
        /\ UNCHANGED faults
     \/ /\ Fault("db")
        /\ admin' = [admin EXCEPT ![a] = Idle]
        /\ UNCHANGED msgs
  /\ UNCHANGED <<list, asked, balance, orders, client, late>>

WriteMessage(a) ==
  /\ admin[a].pc = "write" /\ admin[a].op = "send"
  /\ \/ /\ Len(msgs) < MaxMessages
        /\ msgs' = Append(msgs, NewRow("admin"))
        /\ admin' = [admin EXCEPT ![a].pc = "tell", ![a].m = Len(msgs) + 1]
        /\ UNCHANGED faults
     \/ /\ Fault("db")
        /\ admin' = [admin EXCEPT ![a] = Idle]
        /\ UNCHANGED msgs
  /\ UNCHANGED <<list, asked, balance, orders, client, late>>

\* mutant: only an answer is logged
Log_Answers(a) == orders' = orders + (IF admin[a].paid /\ admin[a].op = "answer" THEN 1 ELSE 0)

Log(a) == orders' = orders + (IF admin[a].paid THEN 1 ELSE 0)

\* the push has the text of this request; a page that gets no answer keeps
\* its list
Tell(a) ==
  LET item == [kind |-> IF admin[a].op = "answer" THEN "answer" ELSE "message",
               m |-> admin[a].m, reply |-> admin[a].n]
      rest == IF admin[a].op = "answer" THEN {} ELSE list[a]
  IN /\ admin[a].pc = "tell"
     /\ \E got \in SUBSET Devices :
          inbox' = [d \in Devices |-> IF d \in got THEN inbox[d] \cup {item} ELSE inbox[d]]
     /\ admin' = [admin EXCEPT ![a] = Idle]
     /\ \/ Log(a) /\ list' = [list EXCEPT ![a] = rest] /\ UNCHANGED faults
        \/ Log(a) /\ UNCHANGED list /\ Fault("lost")
        \/ UNCHANGED orders /\ list' = [list EXCEPT ![a] = rest] /\ Fault("db")
     /\ UNCHANGED <<msgs, asked, dialog, notice, net, balance, seen, late>>

-----------------------------------------------------------------------------
(* The client's pages *)

SendAdminMessage(d) ==
  /\ Len(msgs) < MaxMessages
  /\ msgs' = Append(msgs, NewRow("client"))
  /\ UNCHANGED <<office, client, faults, late>>

\* the answers that GetBalance looks through
Unread == {m \in Ids : /\ msgs[m].from = "client" /\ msgs[m].reply > 0
                       /\ msgs[m].replied /\ ~msgs[m].read}

\* mutant: also the client's own messages
Open_Own == {m \in Ids : msgs[m].reply = 0 /\ ~msgs[m].read}

Open == {m \in Ids : msgs[m].from = "admin" /\ msgs[m].reply = 0 /\ ~msgs[m].read}

\* the last answer that was not read goes with the balance ...
GetBalanceReply(d) ==
  \E m \in Unread :
    /\ \A o \in Unread : msgs[o].reply <= msgs[m].reply
    /\ inbox' = [inbox EXCEPT ![d] = @ \cup {Answer(m)}]
    /\ UNCHANGED <<msgs, office, dialog, notice, net, faults, seen, late>>

\* ... and the last message, by a query of its own
GetBalanceMessage(d) ==
  \E m \in Open :
    /\ \A o \in Open : o <= m
    /\ inbox' = [inbox EXCEPT ![d] = @ \cup {Message(m)}]
    /\ UNCHANGED <<msgs, office, dialog, notice, net, faults, seen, late>>

ShowAdminReply(d) ==
  \E x \in inbox[d] :
    /\ x.kind = "answer"
    /\ dialog' = [dialog EXCEPT ![d] = x]
    /\ inbox' = [inbox EXCEPT ![d] = @ \ {x}]
    /\ seen' = seen \cup {<<x.m, x.reply>>}
    /\ UNCHANGED <<msgs, office, notice, net, faults, late>>

Ask(d, op, m, reply) == net' = net \cup {[from |-> d, op |-> op, m |-> m, reply |-> reply]}

\* showing a message says at once that it was read: an empty reply
ShowAdminMessage(d) ==
  \E x \in inbox[d] :
    /\ x.kind = "message"
    /\ notice' = [notice EXCEPT ![d] = x.m]
    /\ inbox' = [inbox EXCEPT ![d] = @ \ {x}]
    /\ seen' = seen \cup {<<x.m, 0>>}
    /\ Ask(d, "mark", x.m, 0)
    /\ UNCHANGED <<msgs, office, dialog, faults, late>>

\* the dialog stays until the answer comes
Acknowledge(d) ==
  /\ dialog[d] # Nothing
  /\ Ask(d, "ack", dialog[d].m, dialog[d].reply)
  /\ UNCHANGED <<msgs, office, inbox, dialog, notice, faults, seen, late>>

Reply(d) ==
  /\ notice[d] # 0
  /\ Ask(d, "reply", notice[d], 1)
  /\ UNCHANGED <<msgs, office, inbox, dialog, notice, faults, seen, late>>

CloseMessage(d) ==
  /\ notice[d] # 0
  /\ Ask(d, "mark", notice[d], 0)
  /\ notice' = [notice EXCEPT ![d] = 0]
  /\ UNCHANGED <<msgs, office, inbox, dialog, faults, seen, late>>

-----------------------------------------------------------------------------
(* Their requests *)

\* mutant: every answer the client has
Acknowledged_All(r) ==
  [m \in Ids |-> IF msgs[m].from = "client" THEN [msgs[m] EXCEPT !.read = TRUE] ELSE msgs[m]]

Acknowledged(r) == [msgs EXCEPT ![r.m].read = TRUE]

AdminReplyAck ==
  \E r \in net :
    /\ r.op = "ack"
    /\ msgs' = Acknowledged(r)
    /\ late' = IF msgs[r.m].reply = r.reply THEN late ELSE late \cup {r.m}
    /\ \/ dialog' = [dialog EXCEPT ![r.from] = Nothing] /\ UNCHANGED faults
       \/ UNCHANGED dialog /\ Fault("lost")
    /\ net' = net \ {r}
    /\ UNCHANGED <<office, inbox, notice, seen>>

\* mutant: every message of the administrator
Replied_All(r) ==
  [m \in Ids |-> IF msgs[m].from = "admin"
                 THEN [msgs[m] EXCEPT !.reply = r.reply, !.replied = TRUE, !.read = TRUE]
                 ELSE msgs[m]]

\* an empty reply is NULL
Replied(r) == [msgs EXCEPT ![r.m].reply = r.reply, ![r.m].replied = TRUE, ![r.m].read = TRUE]

\* the page closes the message only when a reply was answered
UserReplyAdminMessage ==
  \E r \in net :
    /\ r.op \in {"mark", "reply"}
    /\ msgs' = Replied(r)
    /\ notice' = IF r.op = "reply" THEN [notice EXCEPT ![r.from] = 0] ELSE notice
    /\ net' = net \ {r}
    /\ UNCHANGED <<office, inbox, dialog, faults, seen, late>>

\* the request does not arrive, or its statement fails
LoseRequest ==
  \E r \in net, kind \in {"db", "lost"} :
    /\ Fault(kind)
    /\ net' = net \ {r}
    /\ UNCHANGED <<msgs, office, inbox, dialog, notice, seen, late>>

-----------------------------------------------------------------------------
Init ==
  /\ msgs = <<>>
  /\ list = [a \in Pages |-> {}]
  /\ admin = [a \in Pages |-> Idle]
  /\ asked = 0
  /\ inbox = [d \in Devices |-> {}]
  /\ dialog = [d \in Devices |-> Nothing]
  /\ notice = [d \in Devices |-> 0]
  /\ net = {}
  /\ balance = 0 /\ orders = 0
  /\ faults = 0
  /\ seen = {} /\ late = {}

\* a request of the administrator runs to its end
Handle(a) == AdminReplayAutoAction(a) \/ WriteAnswer(a) \/ WriteMessage(a) \/ Tell(a)

Next ==
  \/ \E a \in Pages : \/ GetAdminMessages(a) \/ AdminReplyMessage(a) \/ AdminSendMessage(a)
                      \/ Handle(a)
  \/ \E d \in Devices : \/ SendAdminMessage(d)
                        \/ GetBalanceReply(d) \/ GetBalanceMessage(d)
                        \/ ShowAdminReply(d) \/ ShowAdminMessage(d)
                        \/ Acknowledge(d) \/ Reply(d) \/ CloseMessage(d)
  \/ AdminReplyAck \/ UserReplyAdminMessage \/ LoseRequest

Spec == Init /\ [][Next]_vars

\* the client opens the page again and again, acknowledges what it shows,
\* and requests are handled
Fairness ==
  /\ \A d \in Devices : /\ WF_vars(GetBalanceReply(d)) /\ WF_vars(GetBalanceMessage(d))
                        /\ WF_vars(ShowAdminReply(d)) /\ WF_vars(ShowAdminMessage(d))
                        /\ WF_vars(Acknowledge(d))
  /\ WF_vars(AdminReplyAck) /\ WF_vars(UserReplyAdminMessage)

FairSpec == Spec /\ Fairness

-----------------------------------------------------------------------------
(* Every variable keeps its type; in particular what a device shows as an  *)
(* answer belongs to a message of the client, and the other way round.     *)
TypeOK ==
  /\ msgs \in Seq(Row)
  /\ list \in [Pages -> SUBSET Ids]
  /\ \A a \in Pages : admin[a].m \in Ids \cup {0}
  /\ asked \in 0..MaxAnswers
  /\ \A d \in Devices : \A x \in inbox[d] :
       x \in Item /\ x.m \in Ids /\ (x.kind = "answer") = (msgs[x.m].from = "client")
  /\ dialog \in [Devices -> Item]
  /\ notice \in [Devices -> Ids \cup {0}]
  /\ net \subseteq Request
  /\ balance \in Nat /\ orders \in Nat /\ faults \in 0..MaxFaults
  /\ late \subseteq Ids

\* the client was shown the message, or an answer to it
Shown(m) == \E k \in 0..MaxAnswers :
              <<m, k>> \in seen /\ (k > 0) = (msgs[m].from = "client")

(* A message counts as read only after a device has shown it: one of the   *)
(* administrator itself, one of the client with an answer.                 *)
ReadWasShown == \A m \in Ids : msgs[m].read => Shown(m)

(* A top-up is told in user_orders, unless its request is still running or *)
(* a fault met it: at most one untold top-up for each failing statement.   *)
TopUpsAreTold ==
  balance <= orders + faults + Cardinality({a \in Pages : admin[a].paid})

HasAnswer(m, k) == m \in Ids /\ msgs[m].from = "client" /\ msgs[m].reply = k

(* An answer that the client has not read is shown in the end, whatever    *)
(* was answered and read before - unless it is replaced, or a late         *)
(* acknowledgement of the answer before it says that it was read.          *)
AnswersAreShown ==
  \A m \in 1..MaxMessages, k \in 1..MaxAnswers :
    HasAnswer(m, k) ~> (<<m, k>> \in seen \/ ~HasAnswer(m, k) \/ m \in late)

(* Every message of the administrator is shown in the end, the older ones  *)
(* too, of which GetBalance tells the last one only.                       *)
MessagesAreShown ==
  \A m \in 1..MaxMessages : (m \in Ids /\ msgs[m].from = "admin") ~> <<m, 0>> \in seen

(* The comments on an empty reply (app.js, web-handler_admin.go) say that  *)
(* it marks the message read and writes only read_at: what the client has  *)
(* answered would stay.                                                    *)
EmptyReplyOnlyReads ==
  [][\A m \in Ids : msgs[m].from = "admin" /\ msgs[m].reply > 0 => msgs'[m].reply > 0]_vars

=============================================================================
