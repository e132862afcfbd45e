------------------------- MODULE WebMessagesProofs -------------------------
(***************************************************************************)
(* Theorems about WebMessages, for any numbers of devices, pages,          *)
(* messages, answers and faults.                                           *)
(***************************************************************************)
EXTENDS WebMessages, FiniteSetTheorems, TLAPS

USE MessagesAssumption

-----------------------------------------------------------------------------
(* What was shown *)

FromClient(m) == m \in Ids /\ msgs[m].from = "client"
FromAdmin(m) == m \in Ids /\ msgs[m].from = "admin"
Given == 1..MaxAnswers

AnswerSeen(m, k) == FromClient(m) /\ k \in Given /\ <<m, k>> \in seen
MessageSeen(m) == FromAdmin(m) /\ <<m, 0>> \in seen

Work == [pc : {"idle", "auto", "write", "tell"}, op : {"none", "answer", "send"}, m : Nat,
         pays : BOOLEAN, paid : BOOLEAN, n : Nat]

\* a page offers and answers messages of the client, and tells of a message
\* only after it was written
PageOK(a) ==
  /\ admin[a] \in Work
  /\ \A m \in list[a] : FromClient(m)
  /\ admin[a].pc # "idle" /\ admin[a].op = "answer" => FromClient(admin[a].m) /\ admin[a].n \in Given
  /\ admin[a].pc # "idle" /\ admin[a].op # "answer" => admin[a].n = 0
  /\ admin[a].pc = "tell" /\ admin[a].op # "answer" => FromAdmin(admin[a].m)

OfficeInv ==
  /\ msgs \in Seq(Row)
  /\ asked \in 0..MaxAnswers
  /\ DOMAIN admin = Pages /\ DOMAIN list = Pages
  /\ \A m \in Ids : FromClient(m) => msgs[m].reply \in 0..MaxAnswers
  /\ \A a \in Pages : PageOK(a)

\* what reaches the client is a message or an answer to one; what the client
\* asks for is about something that was shown
ItemOK(x) ==
  \/ x.kind = "answer" /\ FromClient(x.m) /\ x.reply \in Given
  \/ x.kind = "message" /\ FromAdmin(x.m) /\ x.reply = 0

DeviceOK(d) ==
  /\ \A x \in inbox[d] : ItemOK(x)
  /\ dialog[d] = Nothing \/ AnswerSeen(dialog[d].m, dialog[d].reply)
  /\ notice[d] = 0 \/ MessageSeen(notice[d])

RequestOK(r) ==
  \/ r.op = "ack" /\ AnswerSeen(r.m, r.reply)
  \/ r.op \in {"mark", "reply"} /\ MessageSeen(r.m) /\ r.reply \in Nat

ShownInv ==
  /\ DOMAIN inbox = Devices /\ DOMAIN dialog = Devices /\ DOMAIN notice = Devices
  /\ \A d \in Devices : DeviceOK(d)
  /\ \A r \in net : RequestOK(r)
  /\ ReadWasShown

SeenInv == OfficeInv /\ ShownInv

\* messages stay, and so does what was seen
Grows ==
  /\ Ids \subseteq Ids' /\ seen \subseteq seen'
  /\ \A m \in Ids : msgs'[m].from = msgs[m].from

LEMMA Stays ==
  ASSUME Grows
  PROVE  /\ \A m : FromClient(m) => FromClient(m)'
         /\ \A m : FromAdmin(m) => FromAdmin(m)'
         /\ \A m, k : AnswerSeen(m, k) => AnswerSeen(m, k)'
         /\ \A m : MessageSeen(m) => MessageSeen(m)'
         /\ \A m \in Ids : Shown(m) => Shown(m)'
<1>1. /\ \A m : FromClient(m) => FromClient(m)'
      /\ \A m : FromAdmin(m) => FromAdmin(m)'
  BY DEF Grows, FromClient, FromAdmin
<1>2. /\ \A m, k : AnswerSeen(m, k) => AnswerSeen(m, k)'
      /\ \A m : MessageSeen(m) => MessageSeen(m)'
  BY <1>1 DEF Grows, AnswerSeen, MessageSeen
<1>3. \A m \in Ids : Shown(m) => Shown(m)'
  BY DEF Grows, Shown
<1> QED
  BY <1>1, <1>2, <1>3

LEMMA ShowsIt ==
  ASSUME NEW m
  PROVE  /\ \A k : AnswerSeen(m, k) => Shown(m)
         /\ MessageSeen(m) => Shown(m)
<1>1. ASSUME NEW k, AnswerSeen(m, k) PROVE Shown(m)
  BY <1>1 DEF AnswerSeen, FromClient, Shown, Given
<1>2. ASSUME MessageSeen(m) PROVE Shown(m)
  BY <1>2 DEF MessageSeen, FromAdmin, Shown
<1> QED
  BY <1>1, <1>2

\* a step that leaves the table alone
LEMMA TableSame == ASSUME msgs' = msgs, seen \subseteq seen' PROVE Grows
BY DEF Grows, Ids

\* a new row
LEMMA Appended ==
  ASSUME msgs \in Seq(Row), NEW from \in {"client", "admin"}, msgs' = Append(msgs, NewRow(from)),
         seen' = seen
  PROVE  /\ Grows /\ msgs' \in Seq(Row)
         /\ Ids' = Ids \cup {Len(msgs) + 1}
         /\ Len(msgs) + 1 \notin Ids
         /\ msgs'[Len(msgs) + 1] = NewRow(from)
         /\ \A m \in Ids : msgs'[m] = msgs[m]
<1>1. NewRow(from) \in Row
  BY DEF NewRow, Row
<1>2. /\ msgs' \in Seq(Row) /\ Len(msgs') = Len(msgs) + 1 /\ Len(msgs) \in Nat
      /\ DOMAIN msgs = 1..Len(msgs) /\ DOMAIN msgs' = 1..(Len(msgs) + 1)
      /\ msgs'[Len(msgs) + 1] = NewRow(from)
      /\ \A m \in 1..Len(msgs) : msgs'[m] = msgs[m]
  BY <1>1
<1> QED
  BY <1>2 DEF Grows, Ids

\* a row that is written anew
LEMMA Rewritten ==
  ASSUME msgs \in Seq(Row), NEW m \in Ids, NEW r \in Row, r.from = msgs[m].from,
         msgs' = [msgs EXCEPT ![m] = r], seen' = seen
  PROVE  /\ Grows /\ msgs' \in Seq(Row) /\ Ids' = Ids
         /\ msgs'[m] = r
         /\ \A o \in Ids \ {m} : msgs'[o] = msgs[o]
BY DEF Grows, Ids

-----------------------------------------------------------------------------
(* What a step leaves alone *)

LEMMA PageSame ==
  ASSUME Grows, NEW a, PageOK(a), list'[a] = list[a], admin'[a] = admin[a]
  PROVE  PageOK(a)'
<1>1. /\ \A m : FromClient(m) => FromClient(m)'
      /\ \A m : FromAdmin(m) => FromAdmin(m)'
  BY Stays
<1> QED
  BY <1>1 DEF PageOK, Given

LEMMA DeviceSame ==
  ASSUME Grows, NEW d, DeviceOK(d), inbox'[d] = inbox[d], dialog'[d] = dialog[d],
         notice'[d] = notice[d]
  PROVE  DeviceOK(d)'
<1>1. /\ \A m : FromClient(m) => FromClient(m)'
      /\ \A m : FromAdmin(m) => FromAdmin(m)'
      /\ \A m, k : AnswerSeen(m, k) => AnswerSeen(m, k)'
      /\ \A m : MessageSeen(m) => MessageSeen(m)'
  BY Stays
<1>2. ASSUME NEW x \in inbox[d] PROVE ItemOK(x)'
  BY <1>1 DEF DeviceOK, ItemOK, Given
<1>3. dialog'[d] = Nothing \/ AnswerSeen(dialog[d].m, dialog[d].reply)'
  BY <1>1 DEF DeviceOK, Nothing
<1>4. notice'[d] = 0 \/ MessageSeen(notice[d])'
  BY <1>1 DEF DeviceOK
<1> QED
  BY <1>2, <1>3, <1>4 DEF DeviceOK, Nothing

LEMMA RequestStays ==
  ASSUME Grows, NEW r, RequestOK(r)
  PROVE  RequestOK(r)'
BY Stays DEF RequestOK

\* the administrator's side when the client acts
LEMMA OfficeSame ==
  ASSUME OfficeInv, Grows, UNCHANGED office, msgs' \in Seq(Row),
         \A m \in Ids' : FromClient(m)' => msgs'[m].reply \in 0..MaxAnswers
  PROVE  OfficeInv'
<1>1. ASSUME NEW a \in Pages PROVE PageOK(a)'
  BY <1>1, PageSame DEF OfficeInv, office
<1> QED
  BY <1>1 DEF OfficeInv, office

\* the client's side when the administrator acts
LEMMA ClientSame ==
  ASSUME ShownInv, Grows, UNCHANGED <<inbox, dialog, notice, net>>, ReadWasShown'
  PROVE  ShownInv'
<1>1. ASSUME NEW d \in Devices PROVE DeviceOK(d)'
  BY <1>1, DeviceSame DEF ShownInv
<1>2. ASSUME NEW r \in net PROVE RequestOK(r)'
  BY <1>2, RequestStays DEF ShownInv
<1> QED
  BY <1>1, <1>2 DEF ShownInv

\* nothing new counts as read
LEMMA ReadSame ==
  ASSUME ReadWasShown, Grows,
         \A m \in Ids' : msgs'[m].read => (m \in Ids /\ msgs[m].read) \/ Shown(m)'
  PROVE  ReadWasShown'
BY Stays DEF ReadWasShown

-----------------------------------------------------------------------------
(* The administrator *)

\* a step of page a that leaves the table alone
LEMMA PageStep ==
  ASSUME SeenInv, NEW a \in Pages, UNCHANGED <<msgs, dialog, notice, net, seen>>,
         DOMAIN inbox' = Devices,
         \A d \in Devices : \A x \in inbox'[d] : x \in inbox[d] \/ ItemOK(x),
         asked' \in 0..MaxAnswers, DOMAIN admin' = Pages, DOMAIN list' = Pages,
         \A o \in Pages \ {a} : admin'[o] = admin[o] /\ list'[o] = list[o],
         PageOK(a)'
  PROVE  SeenInv'
<1>1. Grows
  BY TableSame
<1>2. ASSUME NEW o \in Pages PROVE PageOK(o)'
  BY <1>1, <1>2, PageSame DEF SeenInv, OfficeInv
<1>3. OfficeInv'
  BY <1>2 DEF SeenInv, OfficeInv, Ids, FromClient
<1>4. ASSUME NEW d \in Devices PROVE DeviceOK(d)'
  <2>1. \A x : ItemOK(x) => ItemOK(x)'
    BY DEF ItemOK, FromClient, FromAdmin, Given, Ids
  <2>2. \A x \in inbox'[d] : ItemOK(x)'
    BY <1>4, <2>1 DEF SeenInv, ShownInv, DeviceOK
  <2>3. /\ dialog'[d] = Nothing \/ AnswerSeen(dialog[d].m, dialog[d].reply)'
        /\ notice'[d] = 0 \/ MessageSeen(notice[d])'
    BY <1>1, <1>4, Stays DEF SeenInv, ShownInv, DeviceOK
  <2> QED
    BY <2>2, <2>3 DEF DeviceOK, Nothing
<1>5. ASSUME NEW r \in net PROVE RequestOK(r)'
  BY <1>1, <1>5, RequestStays DEF SeenInv, ShownInv
<1>6. ReadWasShown'
  <2>1. ReadWasShown
    BY DEF SeenInv, ShownInv
  <2>2. \A m \in Ids' : m \in Ids /\ msgs'[m] = msgs[m]
    BY DEF Ids
  <2> QED
    BY <1>1, <2>1, <2>2, ReadSame
<1> QED
  BY <1>3, <1>4, <1>5, <1>6 DEF SeenInv, ShownInv

LEMMA GetAdminMessagesKeeps ==
  ASSUME SeenInv, NEW a \in Pages, GetAdminMessages(a) PROVE SeenInv'
<1>1. PageOK(a)'
  BY DEF SeenInv, OfficeInv, GetAdminMessages, PageOK, FromClient, FromAdmin, Ids
<1> QED
  BY <1>1, PageStep DEF SeenInv, OfficeInv, ShownInv, GetAdminMessages, client

LEMMA AdminReplyMessageKeeps ==
  ASSUME SeenInv, NEW a \in Pages, AdminReplyMessage(a) PROVE SeenInv'
<1>1. PICK m \in list[a], pays \in BOOLEAN :
        admin' = [admin EXCEPT ![a] = [Idle EXCEPT !.pc = "auto", !.op = "answer", !.m = m,
                                                   !.pays = pays, !.n = asked + 1]]
  BY DEF AdminReplyMessage
<1>m. m \in Nat /\ asked + 1 \in Nat
  BY DEF SeenInv, OfficeInv, PageOK, FromClient, Ids
<1>2. /\ admin'[a] \in Work
      /\ admin'[a].op = "answer" /\ admin'[a].m = m /\ admin'[a].n = asked + 1
      /\ DOMAIN admin' = Pages /\ \A o \in Pages \ {a} : admin'[o] = admin[o]
  BY <1>1, <1>m DEF SeenInv, OfficeInv, Idle, Work
<1>3. asked' \in 0..MaxAnswers /\ asked + 1 \in Given
  BY DEF SeenInv, OfficeInv, AdminReplyMessage, Given
<1>4. FromClient(m)
  BY DEF SeenInv, OfficeInv, PageOK
<1>5. /\ msgs' = msgs /\ list' = list /\ inbox' = inbox /\ dialog' = dialog /\ notice' = notice
      /\ net' = net /\ seen' = seen
  BY DEF AdminReplyMessage, client
<1>6. PageOK(a)'
  BY <1>2, <1>3, <1>4, <1>5 DEF SeenInv, OfficeInv, PageOK, FromClient, FromAdmin, Ids, Given
<1> QED
  BY <1>2, <1>3, <1>5, <1>6, PageStep DEF SeenInv, OfficeInv, ShownInv

LEMMA AdminSendMessageKeeps ==
  ASSUME SeenInv, NEW a \in Pages, AdminSendMessage(a) PROVE SeenInv'
<1>1. PICK pays \in BOOLEAN :
        admin' = [admin EXCEPT ![a] = [Idle EXCEPT !.pc = "auto", !.op = "send", !.pays = pays]]
  BY DEF AdminSendMessage
<1>2. /\ admin'[a] \in Work
      /\ admin'[a].op = "send" /\ admin'[a].pc = "auto" /\ admin'[a].n = 0
      /\ DOMAIN admin' = Pages /\ \A o \in Pages \ {a} : admin'[o] = admin[o]
  BY <1>1 DEF SeenInv, OfficeInv, Idle, Work
<1>3. /\ msgs' = msgs /\ list' = list /\ inbox' = inbox /\ dialog' = dialog /\ notice' = notice
      /\ net' = net /\ seen' = seen /\ asked' = asked
  BY DEF AdminSendMessage, client
<1>4. PageOK(a)'
  BY <1>2, <1>3 DEF SeenInv, OfficeInv, PageOK, FromClient, FromAdmin, Ids, Given
<1> QED
  BY <1>2, <1>3, <1>4, PageStep DEF SeenInv, OfficeInv, ShownInv

LEMMA AdminReplayAutoActionKeeps ==
  ASSUME SeenInv, NEW a \in Pages, AdminReplayAutoAction(a) PROVE SeenInv'
<1>1. /\ admin[a].pc = "auto"
      /\ \/ admin' = [admin EXCEPT ![a].pc = "write", ![a].paid = admin[a].pays]
         \/ admin' = [admin EXCEPT ![a].pc = "write"]
      /\ msgs' = msgs /\ list' = list /\ inbox' = inbox /\ dialog' = dialog /\ notice' = notice
      /\ net' = net /\ seen' = seen /\ asked' = asked
  BY DEF AdminReplayAutoAction, client
<1>2. DOMAIN admin' = Pages /\ \A o \in Pages \ {a} : admin'[o] = admin[o]
  BY <1>1 DEF SeenInv, OfficeInv
<1>3. /\ admin'[a] \in Work
      /\ admin'[a].op = admin[a].op /\ admin'[a].m = admin[a].m /\ admin'[a].n = admin[a].n
      /\ admin'[a].pc = "write" /\ admin[a].pc # "idle"
  <2>1. admin[a] \in Work /\ a \in DOMAIN admin
    BY DEF SeenInv, OfficeInv, PageOK
  <2>2. CASE admin' = [admin EXCEPT ![a].pc = "write"]
    <3>1. admin'[a] = [admin[a] EXCEPT !.pc = "write"]
      BY <2>1, <2>2
    <3> QED
      BY <1>1, <2>1, <3>1 DEF Work
  <2>3. CASE admin' = [admin EXCEPT ![a].pc = "write", ![a].paid = admin[a].pays]
    <3>1. admin'[a] = [admin[a] EXCEPT !.pc = "write", !.paid = admin[a].pays]
      BY <2>1, <2>3
    <3> QED
      BY <1>1, <2>1, <3>1 DEF Work
  <2> QED
    BY <1>1, <2>2, <2>3
<1>4. PageOK(a)'
  BY <1>1, <1>3 DEF SeenInv, OfficeInv, PageOK, FromClient, FromAdmin, Ids, Given
<1> QED
  BY <1>1, <1>2, <1>4, PageStep DEF SeenInv, OfficeInv, ShownInv

\* page a puts its message into the table
LEMMA Written ==
  ASSUME SeenInv, NEW a \in Pages, Grows, msgs' \in Seq(Row),
         UNCHANGED <<list, asked, inbox, dialog, notice, net>>,
         \A m \in Ids' : FromClient(m)' => msgs'[m].reply \in 0..MaxAnswers,
         \A m \in Ids' : msgs'[m].read => m \in Ids /\ msgs[m].read,
         DOMAIN admin' = Pages,
         \A o \in Pages \ {a} : admin'[o] = admin[o],
         PageOK(a)'
  PROVE  SeenInv'
<1>1. ASSUME NEW o \in Pages PROVE PageOK(o)'
  BY <1>1, PageSame DEF SeenInv, OfficeInv
<1>2. OfficeInv'
  BY <1>1 DEF SeenInv, OfficeInv
<1>3. ReadWasShown'
  BY ReadSame DEF SeenInv, ShownInv
<1> QED
  BY <1>2, <1>3, ClientSame DEF SeenInv, ShownInv

\* a request that fails writes nothing
LEMMA Failed ==
  ASSUME SeenInv, NEW a \in Pages, admin' = [admin EXCEPT ![a] = Idle],
         UNCHANGED <<msgs, list, asked, client>>
  PROVE  SeenInv'
<1>1. PageOK(a)'
  BY DEF SeenInv, OfficeInv, PageOK, Idle, Work, FromClient, FromAdmin, Ids
<1> QED
  BY <1>1, PageStep DEF SeenInv, OfficeInv, ShownInv, client

LEMMA AnsweredRow ==
  ASSUME NEW row \in Row, NEW n \in Nat
  PROVE  /\ Answered(row, n) \in Row /\ Answered(row, n).from = row.from
         /\ Answered(row, n).reply = n /\ ~Answered(row, n).read
BY DEF Answered, Row

LEMMA WriteAnswerKeeps ==
  ASSUME SeenInv, NEW a \in Pages, WriteAnswer(a) PROVE SeenInv'
<1>1. CASE admin' = [admin EXCEPT ![a] = Idle] /\ msgs' = msgs
  BY <1>1, Failed DEF WriteAnswer
<1>2. CASE /\ msgs' = [msgs EXCEPT ![admin[a].m] = Answered(@, admin[a].n)]
           /\ admin' = [admin EXCEPT ![a].pc = "tell"]
  <2> DEFINE m == admin[a].m
             n == admin[a].n
             r == Answered(msgs[m], n)
  <2>1. /\ admin[a] \in Work /\ admin[a].pc = "write" /\ admin[a].op = "answer"
        /\ FromClient(m) /\ n \in Given /\ \A o \in list[a] : FromClient(o)
    BY DEF SeenInv, OfficeInv, PageOK, WriteAnswer
  <2>2. m \in Ids /\ msgs[m] \in Row /\ msgs \in Seq(Row)
    BY <2>1 DEF SeenInv, OfficeInv, FromClient, Ids
  <2>3. r \in Row /\ r.from = msgs[m].from /\ r.reply = n /\ ~r.read
    <3>1. n \in Nat
      BY <2>1 DEF Given
    <3>2. msgs[m] \in Row
      BY <2>2
    <3> HIDE DEF m, n
    <3> QED
      BY <3>1, <3>2, AnsweredRow
  <2>4. msgs' = [msgs EXCEPT ![m] = r]
    BY <1>2
  <2>5. admin'[a] = [admin[a] EXCEPT !.pc = "tell"] /\ DOMAIN admin' = Pages
        /\ \A o \in Pages \ {a} : admin'[o] = admin[o]
    BY <1>2 DEF SeenInv, OfficeInv
  <2>6. /\ list' = list /\ asked' = asked /\ inbox' = inbox /\ dialog' = dialog
        /\ notice' = notice /\ net' = net /\ seen' = seen
    BY DEF WriteAnswer, client
  <2> HIDE DEF r, n
  <2>7. /\ Grows /\ msgs' \in Seq(Row) /\ Ids' = Ids /\ msgs'[m] = r
        /\ \A o \in Ids \ {m} : msgs'[o] = msgs[o]
    BY <2>2, <2>3, <2>4, <2>6, Rewritten
  <2>8. \A o : FromClient(o) => FromClient(o)'
    BY <2>7, Stays
  <2>9. /\ admin'[a] \in Work /\ admin'[a].op = "answer" /\ admin'[a].m = m
        /\ admin'[a].n = n
    BY <2>1, <2>5 DEF Work, n
  <2>10. PageOK(a)'
    BY <2>1, <2>6, <2>8, <2>9 DEF PageOK, Given
  <2>11. \A o \in Ids' : FromClient(o)' => msgs'[o].reply \in 0..MaxAnswers
    BY <2>1, <2>3, <2>7 DEF SeenInv, OfficeInv, FromClient, Given
  <2>12. \A o \in Ids' : msgs'[o].read => o \in Ids /\ msgs[o].read
    BY <2>3, <2>7
  <2> QED
    BY <2>5, <2>6, <2>7, <2>10, <2>11, <2>12, Written
<1> QED
  BY <1>1, <1>2 DEF WriteAnswer

LEMMA WriteMessageKeeps ==
  ASSUME SeenInv, NEW a \in Pages, WriteMessage(a) PROVE SeenInv'
<1>1. CASE admin' = [admin EXCEPT ![a] = Idle] /\ msgs' = msgs
  BY <1>1, Failed DEF WriteMessage
<1>2. CASE /\ msgs' = Append(msgs, NewRow("admin"))
           /\ admin' = [admin EXCEPT ![a].pc = "tell", ![a].m = Len(msgs) + 1]
  <2>1. /\ admin[a] \in Work /\ admin[a].pc = "write" /\ admin[a].op = "send"
        /\ admin[a].n = 0 /\ \A o \in list[a] : FromClient(o)
    BY DEF SeenInv, OfficeInv, PageOK, WriteMessage
  <2>2. /\ list' = list /\ asked' = asked /\ inbox' = inbox /\ dialog' = dialog
        /\ notice' = notice /\ net' = net /\ seen' = seen /\ msgs \in Seq(Row)
    BY DEF SeenInv, OfficeInv, WriteMessage, client
  <2>3. /\ Grows /\ msgs' \in Seq(Row) /\ Ids' = Ids \cup {Len(msgs) + 1}
        /\ msgs'[Len(msgs) + 1] = NewRow("admin")
        /\ \A m \in Ids : msgs'[m] = msgs[m]
    BY <1>2, <2>2, Appended
  <2>4. /\ admin'[a] = [admin[a] EXCEPT !.pc = "tell", !.m = Len(msgs) + 1]
        /\ DOMAIN admin' = Pages /\ \A o \in Pages \ {a} : admin'[o] = admin[o]
    BY <1>2 DEF SeenInv, OfficeInv
  <2>5. Len(msgs) + 1 \in Nat
    BY <2>2
  <2>6. /\ admin'[a] \in Work /\ admin'[a].op = "send" /\ admin'[a].m = Len(msgs) + 1
        /\ admin'[a].n = 0
    BY <2>1, <2>4, <2>5 DEF Work
  <2>8. \A o : FromClient(o) => FromClient(o)'
    BY <2>3, Stays
  <2>9. FromAdmin(admin[a].m)'
    BY <2>3, <2>6 DEF FromAdmin, NewRow
  <2>10. PageOK(a)'
    BY <2>1, <2>2, <2>6, <2>8, <2>9 DEF PageOK
  <2>11. \A m \in Ids' : FromClient(m)' => msgs'[m].reply \in 0..MaxAnswers
    BY <2>3 DEF SeenInv, OfficeInv, FromClient, NewRow
  <2>12. \A m \in Ids' : msgs'[m].read => m \in Ids /\ msgs[m].read
    BY <2>3 DEF NewRow
  <2> QED
    BY <2>2, <2>3, <2>4, <2>10, <2>11, <2>12, Written
<1> QED
  BY <1>1, <1>2 DEF WriteMessage

LEMMA TellKeeps ==
  ASSUME SeenInv, NEW a \in Pages, Tell(a) PROVE SeenInv'
<1> DEFINE item == [kind |-> IF admin[a].op = "answer" THEN "answer" ELSE "message",
                    m |-> admin[a].m, reply |-> admin[a].n]
           rest == IF admin[a].op = "answer" THEN {} ELSE list[a]
<1>1. PICK got \in SUBSET Devices :
        inbox' = [d \in Devices |-> IF d \in got THEN inbox[d] \cup {item} ELSE inbox[d]]
  BY DEF Tell
<1>2. /\ admin' = [admin EXCEPT ![a] = Idle] /\ admin[a].pc = "tell"
      /\ list' = [list EXCEPT ![a] = rest] \/ list' = list
      /\ msgs' = msgs /\ asked' = asked /\ dialog' = dialog /\ notice' = notice
      /\ net' = net /\ seen' = seen
  BY DEF Tell
<1>3. ItemOK(item)
  BY <1>2 DEF SeenInv, OfficeInv, PageOK, ItemOK
<1>4. PageOK(a)'
  BY <1>2 DEF SeenInv, OfficeInv, PageOK, Idle, Work, FromClient, FromAdmin, Ids
<1>5. /\ DOMAIN admin' = Pages /\ DOMAIN list' = Pages /\ DOMAIN inbox' = Devices
      /\ \A o \in Pages \ {a} : admin'[o] = admin[o] /\ list'[o] = list[o]
  BY <1>1, <1>2 DEF SeenInv, OfficeInv
<1> HIDE DEF item
<1>6. \A d \in Devices : \A x \in inbox'[d] : x \in inbox[d] \/ ItemOK(x)
  BY <1>1, <1>3
<1>7. asked' \in 0..MaxAnswers
  BY <1>2 DEF SeenInv, OfficeInv
<1> QED
  BY <1>2, <1>4, <1>5, <1>6, <1>7, PageStep

-----------------------------------------------------------------------------
(* The client *)

LEMMA SendAdminMessageKeeps ==
  ASSUME SeenInv, NEW d \in Devices, SendAdminMessage(d) PROVE SeenInv'
<1>1. /\ msgs \in Seq(Row) /\ msgs' = Append(msgs, NewRow("client"))
      /\ UNCHANGED office /\ inbox' = inbox /\ dialog' = dialog /\ notice' = notice
      /\ net' = net /\ seen' = seen
  BY DEF SeenInv, OfficeInv, SendAdminMessage, client
<1>2. /\ Grows /\ msgs' \in Seq(Row) /\ Ids' = Ids \cup {Len(msgs) + 1}
      /\ msgs'[Len(msgs) + 1] = NewRow("client")
      /\ \A m \in Ids : msgs'[m] = msgs[m]
  BY <1>1, Appended
<1>3. \A m \in Ids' : FromClient(m)' => msgs'[m].reply \in 0..MaxAnswers
  BY <1>2 DEF SeenInv, OfficeInv, FromClient, NewRow
<1>4. OfficeInv'
  BY <1>1, <1>2, <1>3, OfficeSame DEF SeenInv
<1>5. ReadWasShown'
  <2>1. \A m \in Ids' : msgs'[m].read => m \in Ids /\ msgs[m].read
    BY <1>2 DEF NewRow
  <2> QED
    BY <1>2, <2>1, ReadSame DEF SeenInv, ShownInv
<1> QED
  BY <1>1, <1>2, <1>4, <1>5, ClientSame DEF SeenInv

\* a step of device d that leaves the table and the administrator alone
LEMMA DeviceStep ==
  ASSUME SeenInv, NEW d \in Devices, UNCHANGED <<msgs, office>>, seen \subseteq seen',
         DOMAIN inbox' = Devices, DOMAIN dialog' = Devices, DOMAIN notice' = Devices,
         \A e \in Devices \ {d} : /\ inbox'[e] = inbox[e] /\ dialog'[e] = dialog[e]
                                  /\ notice'[e] = notice[e],
         DeviceOK(d)',
         \A r \in net' : r \in net \/ RequestOK(r)'
  PROVE  SeenInv'
<1>1. Grows
  BY TableSame
<1>2. OfficeInv'
  <2>1. msgs' \in Seq(Row)
    BY DEF SeenInv, OfficeInv
  <2>2. \A m \in Ids' : FromClient(m)' => msgs'[m].reply \in 0..MaxAnswers
    BY DEF SeenInv, OfficeInv, FromClient, Ids
  <2> QED
    BY <1>1, <2>1, <2>2, OfficeSame DEF SeenInv
<1>3. ASSUME NEW e \in Devices PROVE DeviceOK(e)'
  BY <1>1, <1>3, DeviceSame DEF SeenInv, ShownInv
<1>4. ASSUME NEW r \in net' PROVE RequestOK(r)'
  BY <1>1, <1>4, RequestStays DEF SeenInv, ShownInv
<1>5. ReadWasShown'
  <2>1. \A m \in Ids' : m \in Ids /\ msgs'[m] = msgs[m]
    BY DEF Ids
  <2> QED
    BY <1>1, <2>1, ReadSame DEF SeenInv, ShownInv
<1> QED
  BY <1>2, <1>3, <1>4, <1>5 DEF SeenInv, ShownInv

\* an item arrives at device d
LEMMA Arrives ==
  ASSUME SeenInv, NEW d \in Devices, NEW x, ItemOK(x),
         inbox' = [inbox EXCEPT ![d] = @ \cup {x}],
         UNCHANGED <<msgs, office, dialog, notice, net, seen>>
  PROVE  SeenInv'
<1>1. /\ inbox'[d] = inbox[d] \cup {x} /\ DOMAIN inbox' = Devices
      /\ \A e \in Devices \ {d} : inbox'[e] = inbox[e]
      /\ DeviceOK(d)
  BY DEF SeenInv, ShownInv
<1>2. \A y : ItemOK(y) => ItemOK(y)'
  BY DEF ItemOK, FromClient, FromAdmin, Given, Ids
<1>3. \A y \in inbox'[d] : ItemOK(y)'
  BY <1>1, <1>2 DEF DeviceOK
<1>4. DeviceOK(d)'
  BY <1>1, <1>3
     DEF DeviceOK, Nothing, AnswerSeen, MessageSeen, FromClient, FromAdmin, Given, Ids
<1> QED
  BY <1>1, <1>4, DeviceStep DEF SeenInv, ShownInv

LEMMA GetBalanceReplyKeeps ==
  ASSUME SeenInv, NEW d \in Devices, GetBalanceReply(d) PROVE SeenInv'
<1>1. PICK m \in Unread : /\ inbox' = [inbox EXCEPT ![d] = @ \cup {Answer(m)}]
                          /\ UNCHANGED <<msgs, office, dialog, notice, net, seen>>
  BY DEF GetBalanceReply
<1>2. ItemOK(Answer(m))
  <2>1. m \in Ids /\ FromClient(m) /\ msgs[m].reply > 0 /\ msgs[m].reply \in 0..MaxAnswers
    BY DEF SeenInv, OfficeInv, Unread, FromClient
  <2>2. msgs[m].reply \in Given
    BY <2>1 DEF Given
  <2> QED
    BY <2>1, <2>2 DEF ItemOK, Answer
<1> QED
  BY <1>1, <1>2, Arrives

LEMMA GetBalanceMessageKeeps ==
  ASSUME SeenInv, NEW d \in Devices, GetBalanceMessage(d) PROVE SeenInv'
<1>1. PICK m \in Open : /\ inbox' = [inbox EXCEPT ![d] = @ \cup {Message(m)}]
                        /\ UNCHANGED <<msgs, office, dialog, notice, net, seen>>
  BY DEF GetBalanceMessage
<1>2. ItemOK(Message(m))
  BY DEF ItemOK, Message, Open, FromAdmin
<1> QED
  BY <1>1, <1>2, Arrives

LEMMA ShowAdminReplyKeeps ==
  ASSUME SeenInv, NEW d \in Devices, ShowAdminReply(d) PROVE SeenInv'
<1>1. PICK x \in inbox[d] :
        /\ x.kind = "answer"
        /\ dialog' = [dialog EXCEPT ![d] = x]
        /\ inbox' = [inbox EXCEPT ![d] = @ \ {x}]
        /\ seen' = seen \cup {<<x.m, x.reply>>}
        /\ UNCHANGED <<msgs, office, notice, net>>
  BY DEF ShowAdminReply
<1>2. /\ DeviceOK(d) /\ ItemOK(x)
      /\ dialog'[d] = x /\ inbox'[d] = inbox[d] \ {x} /\ notice' = notice
      /\ DOMAIN inbox' = Devices /\ DOMAIN dialog' = Devices /\ DOMAIN notice' = Devices
      /\ \A e \in Devices \ {d} : inbox'[e] = inbox[e] /\ dialog'[e] = dialog[e]
  BY <1>1 DEF SeenInv, ShownInv, DeviceOK
<1>3. Grows
  BY <1>1, TableSame
<1>4. AnswerSeen(x.m, x.reply)'
  BY <1>1, <1>2 DEF ItemOK, AnswerSeen, FromClient, Given, Ids
<1>5. \A y \in inbox'[d] : ItemOK(y)'
  BY <1>1, <1>2 DEF DeviceOK, ItemOK, FromClient, FromAdmin, Given, Ids
<1>6. notice'[d] = 0 \/ MessageSeen(notice[d])'
  BY <1>2, <1>3, Stays DEF DeviceOK
<1>7. DeviceOK(d)'
  BY <1>2, <1>4, <1>5, <1>6 DEF DeviceOK
<1> QED
  BY <1>1, <1>2, <1>7, DeviceStep

LEMMA ShowAdminMessageKeeps ==
  ASSUME SeenInv, NEW d \in Devices, ShowAdminMessage(d) PROVE SeenInv'
<1>1. PICK x \in inbox[d] :
        /\ x.kind = "message"
        /\ notice' = [notice EXCEPT ![d] = x.m]
        /\ inbox' = [inbox EXCEPT ![d] = @ \ {x}]
        /\ seen' = seen \cup {<<x.m, 0>>}
        /\ net' = net \cup {[from |-> d, op |-> "mark", m |-> x.m, reply |-> 0]}
        /\ UNCHANGED <<msgs, office, dialog>>
  BY DEF ShowAdminMessage, Ask
<1>2. /\ DeviceOK(d) /\ ItemOK(x)
      /\ notice'[d] = x.m /\ inbox'[d] = inbox[d] \ {x} /\ dialog' = dialog
      /\ DOMAIN inbox' = Devices /\ DOMAIN dialog' = Devices /\ DOMAIN notice' = Devices
      /\ \A e \in Devices \ {d} : inbox'[e] = inbox[e] /\ notice'[e] = notice[e]
  BY <1>1 DEF SeenInv, ShownInv, DeviceOK
<1>3. Grows
  BY <1>1, TableSame
<1>4. MessageSeen(x.m)'
  BY <1>1, <1>2 DEF ItemOK, MessageSeen, FromAdmin, Ids
<1>5. \A y \in inbox'[d] : ItemOK(y)'
  BY <1>1, <1>2 DEF DeviceOK, ItemOK, FromClient, FromAdmin, Given, Ids
<1>6. dialog'[d] = Nothing \/ AnswerSeen(dialog[d].m, dialog[d].reply)'
  BY <1>2, <1>3, Stays DEF DeviceOK
<1>7. DeviceOK(d)'
  BY <1>2, <1>4, <1>5, <1>6 DEF DeviceOK, Nothing
<1>8. \A r \in net' : r \in net \/ RequestOK(r)'
  BY <1>1, <1>4 DEF RequestOK
<1> QED
  BY <1>1, <1>2, <1>7, <1>8, DeviceStep

\* what a device asks for is about what it shows
LEMMA Asks ==
  ASSUME SeenInv, NEW d \in Devices, NEW r, RequestOK(r), net' = net \cup {r},
         UNCHANGED <<msgs, office, inbox, dialog, seen>>,
         notice' = notice \/ notice' = [notice EXCEPT ![d] = 0]
  PROVE  SeenInv'
<1>1. /\ DOMAIN inbox' = Devices /\ DOMAIN dialog' = Devices /\ DOMAIN notice' = Devices
      /\ \A e \in Devices \ {d} : notice'[e] = notice[e]
      /\ notice'[d] = notice[d] \/ notice'[d] = 0
      /\ DeviceOK(d)
  BY DEF SeenInv, ShownInv
<1>2. DeviceOK(d)'
  BY <1>1
     DEF DeviceOK, ItemOK, Nothing, AnswerSeen, MessageSeen, FromClient, FromAdmin, Given, Ids
<1>3. RequestOK(r)'
  BY DEF RequestOK, AnswerSeen, MessageSeen, FromClient, FromAdmin, Given, Ids
<1> QED
  BY <1>1, <1>2, <1>3, DeviceStep

LEMMA AcknowledgeKeeps ==
  ASSUME SeenInv, NEW d \in Devices, Acknowledge(d) PROVE SeenInv'
<1> DEFINE r == [from |-> d, op |-> "ack", m |-> dialog[d].m, reply |-> dialog[d].reply]
<1>1. RequestOK(r)
  BY DEF SeenInv, ShownInv, DeviceOK, Acknowledge, RequestOK
<1>2. net' = net \cup {r} /\ UNCHANGED <<msgs, office, inbox, dialog, notice, seen>>
  BY DEF Acknowledge, Ask
<1> HIDE DEF r
<1> QED
  BY <1>1, <1>2, Asks

LEMMA ReplyKeeps ==
  ASSUME SeenInv, NEW d \in Devices, Reply(d) PROVE SeenInv'
<1> DEFINE r == [from |-> d, op |-> "reply", m |-> notice[d], reply |-> 1]
<1>1. RequestOK(r)
  BY DEF SeenInv, ShownInv, DeviceOK, Reply, RequestOK
<1>2. net' = net \cup {r} /\ UNCHANGED <<msgs, office, inbox, dialog, notice, seen>>
  BY DEF Reply, Ask
<1> HIDE DEF r
<1> QED
  BY <1>1, <1>2, Asks

LEMMA CloseMessageKeeps ==
  ASSUME SeenInv, NEW d \in Devices, CloseMessage(d) PROVE SeenInv'
<1> DEFINE r == [from |-> d, op |-> "mark", m |-> notice[d], reply |-> 0]
<1>1. RequestOK(r)
  BY DEF SeenInv, ShownInv, DeviceOK, CloseMessage, RequestOK
<1>2. /\ net' = net \cup {r} /\ UNCHANGED <<msgs, office, inbox, dialog, seen>>
      /\ notice' = [notice EXCEPT ![d] = 0]
  BY DEF CloseMessage, Ask
<1> HIDE DEF r
<1> QED
  BY <1>1, <1>2, Asks

-----------------------------------------------------------------------------
(* The client's requests *)

\* a request about message m, which was shown, is handled
LEMMA Handled ==
  ASSUME SeenInv, NEW m \in Ids, Shown(m), Grows, msgs' \in Seq(Row), Ids' = Ids,
         \A o \in Ids \ {m} : msgs'[o] = msgs[o],
         FromClient(m) => msgs'[m].reply \in 0..MaxAnswers,
         UNCHANGED <<office, inbox, seen>>, net' \subseteq net,
         DOMAIN dialog' = Devices, DOMAIN notice' = Devices,
         \A d \in Devices : /\ dialog'[d] = dialog[d] \/ dialog'[d] = Nothing
                            /\ notice'[d] = notice[d] \/ notice'[d] = 0
  PROVE  SeenInv'
<1>1. OfficeInv'
  <2>1. \A o \in Ids' : FromClient(o)' => msgs'[o].reply \in 0..MaxAnswers
    BY DEF SeenInv, OfficeInv, FromClient, Grows
  <2> QED
    BY <2>1, OfficeSame DEF SeenInv
<1>2. ASSUME NEW d \in Devices PROVE DeviceOK(d)'
  <2>1. DeviceOK(d) /\ inbox'[d] = inbox[d]
    BY <1>2 DEF SeenInv, ShownInv
  <2>2. /\ \A o : FromClient(o) => FromClient(o)'
        /\ \A o : FromAdmin(o) => FromAdmin(o)'
        /\ \A o, k : AnswerSeen(o, k) => AnswerSeen(o, k)'
        /\ \A o : MessageSeen(o) => MessageSeen(o)'
    BY Stays
  <2>3. \A x \in inbox'[d] : ItemOK(x)'
    BY <2>1, <2>2 DEF DeviceOK, ItemOK, Given
  <2>4. dialog'[d] = Nothing \/ AnswerSeen(dialog[d].m, dialog[d].reply)'
    BY <1>2, <2>1, <2>2 DEF DeviceOK, Nothing
  <2>5. notice'[d] = 0 \/ MessageSeen(notice[d])'
    BY <1>2, <2>1, <2>2 DEF DeviceOK
  <2> QED
    BY <2>3, <2>4, <2>5 DEF DeviceOK, Nothing
<1>3. ASSUME NEW r \in net' PROVE RequestOK(r)'
  BY <1>3, RequestStays DEF SeenInv, ShownInv
<1>4. ReadWasShown'
  <2>1. Shown(m)'
    BY Stays
  <2>2. \A o \in Ids' : msgs'[o].read => (o \in Ids /\ msgs[o].read) \/ Shown(o)'
    BY <2>1
  <2> QED
    BY <2>2, ReadSame DEF SeenInv, ShownInv
<1> QED
  BY <1>1, <1>2, <1>3, <1>4 DEF SeenInv, ShownInv

LEMMA ReadRow ==
  ASSUME NEW row \in Row
  PROVE  LET new == [row EXCEPT !.read = TRUE]
         IN new \in Row /\ new.from = row.from /\ new.reply = row.reply
BY DEF Row

LEMMA AdminReplyAckKeeps ==
  ASSUME SeenInv, AdminReplyAck PROVE SeenInv'
<1>1. PICK r \in net :
        /\ r.op = "ack"
        /\ msgs' = [msgs EXCEPT ![r.m].read = TRUE]
        /\ dialog' = [dialog EXCEPT ![r.from] = Nothing] \/ dialog' = dialog
        /\ net' = net \ {r}
        /\ UNCHANGED <<office, inbox, notice, seen>>
  BY DEF AdminReplyAck, Acknowledged
<1> DEFINE m == r.m
           new == [msgs[m] EXCEPT !.read = TRUE]
<1>2. AnswerSeen(m, r.reply) /\ msgs \in Seq(Row)
  BY <1>1 DEF SeenInv, OfficeInv, ShownInv, RequestOK
<1>3. m \in Ids /\ msgs[m] \in Row /\ Shown(m)
  BY <1>2, ShowsIt DEF AnswerSeen, FromClient, Ids
<1>4. new \in Row /\ new.from = msgs[m].from /\ new.reply = msgs[m].reply
  BY <1>3, ReadRow
<1>5. msgs' = [msgs EXCEPT ![m] = new] /\ seen' = seen
  BY <1>1
<1>6. /\ DOMAIN dialog' = Devices /\ DOMAIN notice' = Devices
      /\ \A d \in Devices : /\ dialog'[d] = dialog[d] \/ dialog'[d] = Nothing
                            /\ notice'[d] = notice[d]
  BY <1>1 DEF SeenInv, ShownInv
<1> HIDE DEF m, new
<1>7. /\ Grows /\ msgs' \in Seq(Row) /\ Ids' = Ids /\ msgs'[m] = new
      /\ \A o \in Ids \ {m} : msgs'[o] = msgs[o]
  BY <1>2, <1>3, <1>4, <1>5, Rewritten
<1>8. FromClient(m) => msgs'[m].reply \in 0..MaxAnswers
  BY <1>3, <1>4, <1>7 DEF SeenInv, OfficeInv
<1> QED
  BY <1>1, <1>3, <1>6, <1>7, <1>8, Handled

LEMMA RepliedRow ==
  ASSUME NEW row \in Row, NEW n \in Nat
  PROVE  LET new == [row EXCEPT !.reply = n, !.replied = TRUE, !.read = TRUE]
         IN new \in Row /\ new.from = row.from
BY DEF Row

LEMMA UserReplyAdminMessageKeeps ==
  ASSUME SeenInv, UserReplyAdminMessage PROVE SeenInv'
<1>1. PICK r \in net :
        /\ r.op \in {"mark", "reply"}
        /\ msgs' = Replied(r)
        /\ notice' = IF r.op = "reply" THEN [notice EXCEPT ![r.from] = 0] ELSE notice
        /\ net' = net \ {r}
        /\ UNCHANGED <<office, inbox, dialog, seen>>
  BY DEF UserReplyAdminMessage
<1> DEFINE m == r.m
           new == [msgs[m] EXCEPT !.reply = r.reply, !.replied = TRUE, !.read = TRUE]
<1>2. MessageSeen(m) /\ r.reply \in Nat /\ msgs \in Seq(Row)
  BY <1>1 DEF SeenInv, OfficeInv, ShownInv, RequestOK
<1>3. m \in Ids /\ msgs[m] \in Row /\ Shown(m) /\ ~FromClient(m)
  BY <1>2, ShowsIt DEF MessageSeen, FromAdmin, FromClient, Ids
<1>4. new \in Row /\ new.from = msgs[m].from
  BY <1>2, <1>3, RepliedRow
<1>5. msgs' = [msgs EXCEPT ![m] = new] /\ seen' = seen
  BY <1>1, <1>3 DEF Replied, Ids
<1>6. /\ DOMAIN dialog' = Devices /\ DOMAIN notice' = Devices
      /\ \A d \in Devices : /\ dialog'[d] = dialog[d]
                            /\ notice'[d] = notice[d] \/ notice'[d] = 0
  BY <1>1 DEF SeenInv, ShownInv
<1> HIDE DEF m, new
<1>7. /\ Grows /\ msgs' \in Seq(Row) /\ Ids' = Ids /\ msgs'[m] = new
      /\ \A o \in Ids \ {m} : msgs'[o] = msgs[o]
  BY <1>2, <1>3, <1>4, <1>5, Rewritten
<1> QED
  BY <1>1, <1>3, <1>6, <1>7, Handled

LEMMA LoseRequestKeeps ==
  ASSUME SeenInv, LoseRequest PROVE SeenInv'
<1>1. /\ net' \subseteq net /\ UNCHANGED <<msgs, office, inbox, dialog, notice, seen>>
  BY DEF LoseRequest
<1>2. Grows
  BY <1>1, TableSame
<1>3. msgs' \in Seq(Row) /\ \A m \in Ids' : FromClient(m)' => msgs'[m].reply \in 0..MaxAnswers
  BY <1>1 DEF SeenInv, OfficeInv, FromClient, Ids
<1>4. OfficeInv'
  BY <1>1, <1>2, <1>3, OfficeSame DEF SeenInv
<1>5. ASSUME NEW d \in Devices PROVE DeviceOK(d)'
  BY <1>1, <1>2, <1>5, DeviceSame DEF SeenInv, ShownInv
<1>6. ASSUME NEW r \in net' PROVE RequestOK(r)'
  BY <1>1, <1>2, <1>6, RequestStays DEF SeenInv, ShownInv
<1>7. ReadWasShown'
  <2>1. \A m \in Ids' : m \in Ids /\ msgs'[m] = msgs[m]
    BY <1>1 DEF Ids
  <2> QED
    BY <1>2, <2>1, ReadSame DEF SeenInv, ShownInv
<1> QED
  BY <1>1, <1>4, <1>5, <1>6, <1>7 DEF SeenInv, ShownInv

-----------------------------------------------------------------------------
LEMMA Invariant == Spec => []SeenInv
<1>1. Init => SeenInv
  <2> SUFFICES ASSUME Init PROVE SeenInv
    OBVIOUS
  <2>1. Ids = {} /\ msgs \in Seq(Row)
    BY DEF Init, Ids
  <2>2. ASSUME NEW a \in Pages PROVE PageOK(a)
    BY <2>2 DEF Init, PageOK, Idle, Work
  <2>3. ASSUME NEW d \in Devices PROVE DeviceOK(d)
    BY <2>3 DEF Init, DeviceOK
  <2>4. ReadWasShown
    BY <2>1 DEF ReadWasShown
  <2> QED
    BY <2>1, <2>2, <2>3, <2>4 DEF Init, SeenInv, OfficeInv, ShownInv
<1>2. SeenInv /\ [Next]_vars => SeenInv'
  <2> SUFFICES ASSUME SeenInv, [Next]_vars PROVE SeenInv'
    OBVIOUS
  <2>1. ASSUME NEW a \in Pages,
               \/ GetAdminMessages(a) \/ AdminReplyMessage(a) \/ AdminSendMessage(a) \/ Handle(a)
        PROVE  SeenInv'
    BY <2>1, GetAdminMessagesKeeps, AdminReplyMessageKeeps, AdminSendMessageKeeps,
       AdminReplayAutoActionKeeps, WriteAnswerKeeps, WriteMessageKeeps, TellKeeps DEF Handle
  <2>2. ASSUME NEW d \in Devices,
               \/ SendAdminMessage(d) \/ GetBalanceReply(d) \/ GetBalanceMessage(d)
               \/ ShowAdminReply(d) \/ ShowAdminMessage(d)
               \/ Acknowledge(d) \/ Reply(d) \/ CloseMessage(d)
        PROVE  SeenInv'
    BY <2>2, SendAdminMessageKeeps, GetBalanceReplyKeeps, GetBalanceMessageKeeps,
       ShowAdminReplyKeeps, ShowAdminMessageKeeps, AcknowledgeKeeps, ReplyKeeps,
       CloseMessageKeeps
  <2>3. CASE AdminReplyAck \/ UserReplyAdminMessage \/ LoseRequest
    BY <2>3, AdminReplyAckKeeps, UserReplyAdminMessageKeeps, LoseRequestKeeps
  <2>4. CASE UNCHANGED vars
    BY <2>4
       DEF vars, SeenInv, OfficeInv, ShownInv, PageOK, DeviceOK, ItemOK, RequestOK, AnswerSeen,
           MessageSeen, FromClient, FromAdmin, Ids, ReadWasShown, Shown, Nothing, Given
  <2> QED
    BY <2>1, <2>2, <2>3, <2>4 DEF Next
<1> QED
  BY <1>1, <1>2, PTL DEF Spec

(* A message that counts as read was shown on a device of the client, for  *)
(* any order of the statements of web-handler_admin.go, any failures and   *)
(* any losses: an answer only after that message was answered.             *)
THEOREM OnlyShown == Spec => []ReadWasShown
<1>1. SeenInv => ReadWasShown
  BY DEF SeenInv, ShownInv
<1> QED
  BY <1>1, Invariant, PTL

-----------------------------------------------------------------------------
(* The administrator's top-ups *)

PaidPages == {a \in Pages : admin[a].paid}

\* until it has tried the top-up, a request has not paid
ToldInv ==
  /\ balance \in Nat /\ orders \in Nat /\ faults \in Nat
  /\ \A a \in Pages : admin[a].pc \in {"idle", "auto"} => ~admin[a].paid
  /\ TopUpsAreTold

LEMMA Counted ==
  /\ TopUpsAreTold <=> balance <= orders + faults + Cardinality(PaidPages)
  /\ TopUpsAreTold' <=> balance' <= orders' + faults' + Cardinality(PaidPages')
BY DEF TopUpsAreTold, PaidPages

LEMMA WorkPaid == ASSUME SeenInv, NEW a \in Pages PROVE admin[a] \in Work /\ admin[a].paid \in BOOLEAN
BY DEF SeenInv, OfficeInv, PageOK, Work

\* one page more, one page fewer, or the same pages
LEMMA PaidCount ==
  ASSUME IsFiniteSet(Pages), NEW a \in Pages,
         \A o \in Pages \ {a} : admin'[o] = admin[o]
  PROVE  /\ Cardinality(PaidPages) \in Nat /\ Cardinality(PaidPages') \in Nat
         /\ (admin'[a].paid <=> admin[a].paid) => PaidPages' = PaidPages
         /\ admin'[a].paid /\ ~admin[a].paid => Cardinality(PaidPages') = Cardinality(PaidPages) + 1
         /\ ~admin'[a].paid /\ admin[a].paid => Cardinality(PaidPages') = Cardinality(PaidPages) - 1
<1>1. IsFiniteSet(PaidPages) /\ IsFiniteSet(PaidPages')
  <2>1. PaidPages \subseteq Pages /\ PaidPages' \subseteq Pages
    BY DEF PaidPages
  <2> QED
    BY <2>1, FS_Subset
<1>2. Cardinality(PaidPages) \in Nat /\ Cardinality(PaidPages') \in Nat
  BY <1>1, FS_CardinalityType
<1>3. (admin'[a].paid <=> admin[a].paid) => PaidPages' = PaidPages
  BY DEF PaidPages
<1>4. ASSUME admin'[a].paid, ~admin[a].paid
      PROVE  Cardinality(PaidPages') = Cardinality(PaidPages) + 1
  <2>1. PaidPages' = PaidPages \cup {a} /\ a \notin PaidPages
    BY <1>4 DEF PaidPages
  <2> QED
    BY <1>1, <2>1, FS_AddElement
<1>5. ASSUME ~admin'[a].paid, admin[a].paid
      PROVE  Cardinality(PaidPages') = Cardinality(PaidPages) - 1
  <2>1. PaidPages' = PaidPages \ {a} /\ a \in PaidPages
    BY <1>5 DEF PaidPages
  <2> QED
    BY <1>1, <2>1, FS_RemoveElement
<1> QED
  BY <1>2, <1>3, <1>4, <1>5

\* a step that tells of no top-up and makes none
LEMMA NothingPaid ==
  ASSUME ToldInv, admin' = admin, balance' = balance, orders' = orders,
         faults' = faults \/ faults' = faults + 1, IsFiniteSet(Pages)
  PROVE  ToldInv'
<1>1. PaidPages' = PaidPages
  BY DEF PaidPages
<1>2. Cardinality(PaidPages) \in Nat
  <2>1. PaidPages \subseteq Pages
    BY DEF PaidPages
  <2> QED
    BY <2>1, FS_Subset, FS_CardinalityType
<1>3. TopUpsAreTold'
  BY <1>1, <1>2, Counted DEF ToldInv
<1> QED
  BY <1>3 DEF ToldInv

\* a request begins
LEMMA BeginsUnpaid ==
  ASSUME ToldInv, IsFiniteSet(Pages), NEW a \in Pages, admin[a].pc = "idle", ~admin'[a].paid,
         \A o \in Pages \ {a} : admin'[o] = admin[o], UNCHANGED <<balance, orders, faults>>
  PROVE  ToldInv'
<1>1. PaidPages' = PaidPages
  BY PaidCount DEF ToldInv
<1>2. TopUpsAreTold'
  BY <1>1, Counted DEF ToldInv
<1> QED
  BY <1>2 DEF ToldInv

LEMMA BeginsTold ==
  ASSUME ToldInv, SeenInv, IsFiniteSet(Pages), NEW a \in Pages,
         AdminReplyMessage(a) \/ AdminSendMessage(a)
  PROVE  ToldInv'
<1>1. DOMAIN admin = Pages
  BY DEF SeenInv, OfficeInv
<1>2. ~admin'[a].paid /\ \A o \in Pages \ {a} : admin'[o] = admin[o]
  BY <1>1 DEF AdminReplyMessage, AdminSendMessage, Idle
<1>3. admin[a].pc = "idle" /\ UNCHANGED <<balance, orders, faults>>
  BY DEF AdminReplyMessage, AdminSendMessage
<1> QED
  BY <1>2, <1>3, BeginsUnpaid

LEMMA PaysTold ==
  ASSUME ToldInv, SeenInv, IsFiniteSet(Pages), NEW a \in Pages, AdminReplayAutoAction(a)
  PROVE  ToldInv'
<1>1. /\ DOMAIN admin = Pages /\ admin[a] \in Work /\ admin[a].pc = "auto" /\ ~admin[a].paid
      /\ orders' = orders /\ balance \in Nat /\ orders \in Nat /\ faults \in Nat
  BY WorkPaid DEF SeenInv, OfficeInv, ToldInv, AdminReplayAutoAction
<1>2. CASE /\ balance' = balance + (IF admin[a].pays THEN 1 ELSE 0)
           /\ admin' = [admin EXCEPT ![a].pc = "write", ![a].paid = admin[a].pays]
           /\ UNCHANGED faults
  <2>1. admin'[a] = [admin[a] EXCEPT !.pc = "write", !.paid = admin[a].pays]
        /\ \A o \in Pages \ {a} : admin'[o] = admin[o]
    BY <1>1, <1>2
  <2>2. (admin'[a].paid <=> admin[a].pays) /\ admin'[a].pc = "write"
    BY <1>1, <2>1 DEF Work
  <2>3. TopUpsAreTold'
    <3>1. CASE admin[a].pays
      <4>1. /\ Cardinality(PaidPages) \in Nat
            /\ Cardinality(PaidPages') = Cardinality(PaidPages) + 1
        BY <1>1, <2>1, <2>2, <3>1, PaidCount
      <4> QED
        BY <1>1, <1>2, <3>1, <4>1, Counted DEF ToldInv
    <3>2. CASE ~admin[a].pays
      <4>1. PaidPages' = PaidPages
        BY <1>1, <2>1, <2>2, <3>2, PaidCount
      <4> QED
        BY <1>1, <1>2, <3>2, <4>1, Counted DEF ToldInv
    <3> QED
      BY <3>1, <3>2
  <2>4. \A o \in Pages : admin'[o].pc \in {"idle", "auto"} => ~admin'[o].paid
    BY <2>1, <2>2 DEF ToldInv
  <2> QED
    BY <1>1, <1>2, <2>3, <2>4 DEF ToldInv
<1>3. CASE /\ faults' = faults + 1 /\ balance' = balance
           /\ admin' = [admin EXCEPT ![a].pc = "write"]
  <2>1. admin'[a] = [admin[a] EXCEPT !.pc = "write"]
        /\ \A o \in Pages \ {a} : admin'[o] = admin[o]
    BY <1>1, <1>3
  <2>2. (admin'[a].paid <=> admin[a].paid) /\ admin'[a].pc = "write"
    BY <1>1, <2>1 DEF Work
  <2>3. PaidPages' = PaidPages /\ Cardinality(PaidPages) \in Nat
    BY <2>1, <2>2, PaidCount
  <2>4. TopUpsAreTold'
    BY <1>1, <1>3, <2>3, Counted DEF ToldInv
  <2>5. \A o \in Pages : admin'[o].pc \in {"idle", "auto"} => ~admin'[o].paid
    BY <2>1, <2>2 DEF ToldInv
  <2> QED
    BY <1>1, <1>3, <2>4, <2>5 DEF ToldInv
<1> QED
  BY <1>2, <1>3 DEF AdminReplayAutoAction, Fault

\* the message is written, and its page goes on to tell of it
LEMMA GoesOnTold ==
  ASSUME ToldInv, SeenInv, IsFiniteSet(Pages), NEW a \in Pages, admin[a].pc = "write",
         admin'[a].pc = "tell", admin'[a].paid <=> admin[a].paid,
         \A o \in Pages \ {a} : admin'[o] = admin[o],
         UNCHANGED <<balance, orders, faults>>
  PROVE  ToldInv'
<1>1. PaidPages' = PaidPages
  BY PaidCount
<1>2. TopUpsAreTold'
  BY <1>1, Counted DEF ToldInv
<1>3. \A o \in Pages : admin'[o].pc \in {"idle", "auto"} => ~admin'[o].paid
  BY DEF ToldInv
<1> QED
  BY <1>2, <1>3 DEF ToldInv

\* a request ends, with its top-up told or a fault
LEMMA EndsTold ==
  ASSUME ToldInv, SeenInv, IsFiniteSet(Pages), NEW a \in Pages,
         admin' = [admin EXCEPT ![a] = Idle], balance' = balance,
         \/ /\ orders' = orders + (IF admin[a].paid THEN 1 ELSE 0)
            /\ faults' = faults \/ faults' = faults + 1
         \/ orders' = orders /\ faults' = faults + 1
  PROVE  ToldInv'
<1>1. /\ DOMAIN admin = Pages /\ admin[a].paid \in BOOLEAN
      /\ balance \in Nat /\ orders \in Nat /\ faults \in Nat
  BY WorkPaid DEF SeenInv, OfficeInv, ToldInv
<1>2. /\ ~admin'[a].paid /\ \A o \in Pages \ {a} : admin'[o] = admin[o]
  BY <1>1 DEF Idle
<1>3. TopUpsAreTold'
  <2>1. CASE admin[a].paid
    <3>1. /\ Cardinality(PaidPages) \in Nat
          /\ Cardinality(PaidPages') = Cardinality(PaidPages) - 1
      BY <1>2, <2>1, PaidCount
    <3> QED
      BY <1>1, <2>1, <3>1, Counted DEF ToldInv
  <2>2. CASE ~admin[a].paid
    <3>1. PaidPages' = PaidPages /\ Cardinality(PaidPages) \in Nat
      BY <1>2, <2>2, PaidCount
    <3> QED
      BY <1>1, <2>2, <3>1, Counted DEF ToldInv
  <2> QED
    BY <2>1, <2>2
<1>4. \A o \in Pages : admin'[o].pc \in {"idle", "auto"} => ~admin'[o].paid
  BY <1>2 DEF ToldInv
<1>5. orders' \in Nat /\ faults' \in Nat
  BY <1>1
<1> QED
  BY <1>1, <1>3, <1>4, <1>5 DEF ToldInv

LEMMA WritesTold ==
  ASSUME ToldInv, SeenInv, IsFiniteSet(Pages), NEW a \in Pages, WriteAnswer(a) \/ WriteMessage(a)
  PROVE  ToldInv'
<1>1. admin[a] \in Work /\ DOMAIN admin = Pages /\ admin[a].pc = "write"
  BY WorkPaid DEF SeenInv, OfficeInv, WriteAnswer, WriteMessage
<1>2. CASE /\ admin' = [admin EXCEPT ![a].pc = "tell"] \/
              admin' = [admin EXCEPT ![a].pc = "tell", ![a].m = Len(msgs) + 1]
           /\ UNCHANGED <<balance, orders, faults>>
  <2>1. /\ \/ admin'[a] = [admin[a] EXCEPT !.pc = "tell"]
           \/ admin'[a] = [admin[a] EXCEPT !.pc = "tell", !.m = Len(msgs) + 1]
        /\ \A o \in Pages \ {a} : admin'[o] = admin[o]
    BY <1>1, <1>2
  <2>2. admin'[a].pc = "tell" /\ (admin'[a].paid <=> admin[a].paid)
    BY <1>1, <2>1 DEF Work
  <2> QED
    BY <1>1, <1>2, <2>1, <2>2, GoesOnTold
<1>3. CASE /\ admin' = [admin EXCEPT ![a] = Idle] /\ faults' = faults + 1
           /\ UNCHANGED <<balance, orders>>
  BY <1>3, EndsTold
<1> QED
  BY <1>2, <1>3 DEF WriteAnswer, WriteMessage, Fault

LEMMA TellTold ==
  ASSUME ToldInv, SeenInv, IsFiniteSet(Pages), NEW a \in Pages, Tell(a)
  PROVE  ToldInv'
<1>1. /\ admin' = [admin EXCEPT ![a] = Idle] /\ balance' = balance
      /\ \/ Log(a) /\ (faults' = faults \/ faults' = faults + 1)
         \/ orders' = orders /\ faults' = faults + 1
  BY DEF Tell, Fault
<1> QED
  BY <1>1, EndsTold DEF Log

(* However the requests of the administrator interleave and fail, a top-up *)
(* is missing in user_orders only while its request runs, or for a         *)
(* statement or a request that failed: never without a fault.              *)
THEOREM ToppedUp == ASSUME IsFiniteSet(Pages) PROVE Spec => []TopUpsAreTold
<1>1. Init => ToldInv
  <2> SUFFICES ASSUME Init PROVE ToldInv
    OBVIOUS
  <2>1. PaidPages = {}
    BY DEF Init, PaidPages, Idle
  <2>2. TopUpsAreTold
    BY <2>1, FS_EmptySet, Counted DEF Init
  <2> QED
    BY <2>2 DEF Init, ToldInv, Idle
<1>2. SeenInv /\ ToldInv /\ [Next]_vars => ToldInv'
  <2> SUFFICES ASSUME SeenInv, ToldInv, [Next]_vars PROVE ToldInv'
    OBVIOUS
  <2>1. ASSUME NEW a \in Pages,
               \/ AdminReplyMessage(a) \/ AdminSendMessage(a) \/ Handle(a)
        PROVE  ToldInv'
    BY <2>1, BeginsTold, PaysTold, WritesTold, TellTold DEF Handle
  <2>2. ASSUME NEW a \in Pages, GetAdminMessages(a)
        PROVE  ToldInv'
    BY <2>2, NothingPaid DEF GetAdminMessages
  <2>3. ASSUME NEW d \in Devices,
               \/ SendAdminMessage(d) \/ GetBalanceReply(d) \/ GetBalanceMessage(d)
               \/ ShowAdminReply(d) \/ ShowAdminMessage(d)
               \/ Acknowledge(d) \/ Reply(d) \/ CloseMessage(d)
        PROVE  ToldInv'
    BY <2>3, NothingPaid
       DEF SendAdminMessage, GetBalanceReply, GetBalanceMessage, ShowAdminReply,
           ShowAdminMessage, Acknowledge, Reply, CloseMessage, office
  <2>4. CASE AdminReplyAck \/ UserReplyAdminMessage \/ LoseRequest
    BY <2>4, NothingPaid
       DEF AdminReplyAck, UserReplyAdminMessage, LoseRequest, office, Fault
  <2>5. CASE UNCHANGED vars
    BY <2>5, NothingPaid DEF vars
  <2> QED
    BY <2>1, <2>2, <2>3, <2>4, <2>5 DEF Next
<1>3. ToldInv => TopUpsAreTold
  BY DEF ToldInv
<1> QED
  BY <1>1, <1>2, <1>3, Invariant, PTL DEF Spec

-----------------------------------------------------------------------------
(* The types.  What goes around holds numbers of messages that exist, and  *)
(* these stay.                                                             *)

RestInv ==
  /\ list \in [Pages -> SUBSET Ids]
  /\ \A a \in Pages : admin[a].m \in Ids \cup {0}
  /\ \A d \in Devices : inbox[d] \subseteq Item
  /\ dialog \in [Devices -> Item] /\ notice \in [Devices -> Ids \cup {0}]
  /\ net \subseteq Request
  /\ balance \in Nat /\ orders \in Nat /\ faults \in 0..MaxFaults
  /\ late \subseteq Ids

TypeInv == SeenInv /\ RestInv

LEMMA IdsStay ==
  ASSUME SeenInv, [Next]_vars
  PROVE  Ids \subseteq Ids' /\ Ids \subseteq Nat
<1> msgs \in Seq(Row)
  BY DEF SeenInv, OfficeInv
<1>1. CASE UNCHANGED msgs
  BY <1>1 DEF Ids
<1>2. ASSUME NEW from \in {"client", "admin"}, msgs' = Append(msgs, NewRow(from))
      PROVE  Ids \subseteq Ids'
  BY <1>2 DEF Ids, NewRow, Row
<1>3. ASSUME NEW m, NEW row, msgs' = [msgs EXCEPT ![m] = row] PROVE Ids \subseteq Ids'
  BY <1>3 DEF Ids
<1>4. ASSUME NEW r \in net, msgs' = Acknowledged(r) \/ msgs' = Replied(r) PROVE Ids \subseteq Ids'
  BY <1>4 DEF Ids, Acknowledged, Replied
<1>5. Ids \subseteq Nat
  BY DEF Ids
<1> QED
  BY <1>1, <1>2, <1>3, <1>4, <1>5
     DEF Next, Handle, vars, GetAdminMessages, AdminReplyMessage, AdminSendMessage, WriteAnswer,
         WriteMessage, AdminReplayAutoAction, Tell, SendAdminMessage, GetBalanceReply,
         GetBalanceMessage, ShowAdminReply, ShowAdminMessage, Acknowledge, Reply, CloseMessage,
         AdminReplyAck, UserReplyAdminMessage, LoseRequest

LEMMA FaultType == ASSUME RestInv, NEW kind, Fault(kind) PROVE faults' \in 0..MaxFaults
  BY DEF RestInv, Fault

\* everything stays but what the step says
LEMMA OfficeRest ==
  ASSUME TypeInv, Ids \subseteq Ids', NEW a \in Pages,
         list' = list \/ \E s \in SUBSET Ids : list' = [list EXCEPT ![a] = s],
         admin'[a].m \in Ids' \cup {0}, \A o \in Pages \ {a} : admin'[o] = admin[o],
         \A d \in Devices : inbox'[d] \subseteq Item,
         balance' \in Nat, orders' \in Nat, faults' \in 0..MaxFaults,
         UNCHANGED <<dialog, notice, net, late>>
  PROVE  RestInv'
<1> RestInv
  BY DEF TypeInv
<1>1. list' \in [Pages -> SUBSET Ids']
  BY DEF RestInv
<1>2. \A o \in Pages : admin'[o].m \in Ids' \cup {0}
  BY DEF RestInv
<1>3. notice' \in [Devices -> Ids' \cup {0}] /\ late' \subseteq Ids'
  BY DEF RestInv
<1> QED
  BY <1>1, <1>2, <1>3 DEF RestInv

LEMMA ClientRest ==
  ASSUME TypeInv, Ids \subseteq Ids', UNCHANGED office, faults' \in 0..MaxFaults,
         \A d \in Devices : inbox'[d] \subseteq Item,
         dialog' \in [Devices -> Item], notice' \in [Devices -> Ids' \cup {0}],
         net' \subseteq Request, late' \subseteq Ids'
  PROVE  RestInv'
<1> RestInv
  BY DEF TypeInv
<1>1. list' \in [Pages -> SUBSET Ids']
  BY DEF RestInv, office
<1> QED
  BY <1>1 DEF RestInv, office

LEMMA OfficeTypes ==
  ASSUME TypeInv, Ids \subseteq Ids', NEW a \in Pages,
         \/ GetAdminMessages(a) \/ AdminReplyMessage(a) \/ AdminSendMessage(a) \/ Handle(a)
  PROVE  RestInv'
<1> SeenInv /\ RestInv /\ DOMAIN admin = Pages /\ admin[a] \in Work /\ msgs \in Seq(Row)
  BY DEF TypeInv, SeenInv, OfficeInv, PageOK
<1>0. /\ balance \in Nat /\ orders \in Nat /\ faults \in 0..MaxFaults
      /\ \A d \in Devices : inbox[d] \subseteq Item
      /\ admin[a].m \in Ids \cup {0}
  BY DEF RestInv
<1>1. CASE GetAdminMessages(a)
  <2>1. PICK s \in SUBSET Ids : list' = [list EXCEPT ![a] = s]
    BY <1>1 DEF GetAdminMessages
  <2> QED
    BY <1>0, <1>1, <2>1, OfficeRest DEF GetAdminMessages, client
<1>2. CASE AdminReplyMessage(a)
  <2>1. PICK m \in list[a], pays \in BOOLEAN :
          admin' = [admin EXCEPT ![a] = [Idle EXCEPT !.pc = "auto", !.op = "answer", !.m = m,
                                                     !.pays = pays, !.n = asked + 1]]
    BY <1>2 DEF AdminReplyMessage
  <2>2. m \in Ids
    BY DEF RestInv
  <2>3. admin'[a].m = m /\ \A o \in Pages \ {a} : admin'[o] = admin[o]
    BY <2>1 DEF Idle
  <2> QED
    BY <1>0, <1>2, <2>2, <2>3, OfficeRest DEF AdminReplyMessage, client
<1>3. CASE AdminSendMessage(a)
  <2>1. admin'[a].m = 0 /\ \A o \in Pages \ {a} : admin'[o] = admin[o]
    BY <1>3 DEF AdminSendMessage, Idle
  <2> QED
    BY <1>0, <1>3, <2>1, OfficeRest DEF AdminSendMessage, client
<1>4. CASE AdminReplayAutoAction(a)
  <2>1. admin'[a].m = admin[a].m /\ \A o \in Pages \ {a} : admin'[o] = admin[o]
    BY <1>4 DEF AdminReplayAutoAction, Work
  <2>2. balance' \in Nat /\ faults' \in 0..MaxFaults
    BY <1>0, <1>4, FaultType DEF AdminReplayAutoAction
  <2> QED
    BY <1>0, <1>4, <2>1, <2>2, OfficeRest DEF AdminReplayAutoAction, client
<1>5. CASE WriteAnswer(a)
  <2>1. admin'[a].m \in {admin[a].m, 0} /\ \A o \in Pages \ {a} : admin'[o] = admin[o]
    BY <1>5 DEF WriteAnswer, Work, Idle
  <2>2. faults' \in 0..MaxFaults
    BY <1>0, <1>5, FaultType DEF WriteAnswer
  <2> QED
    BY <1>0, <1>5, <2>1, <2>2, OfficeRest DEF WriteAnswer, client
<1>6. CASE WriteMessage(a)
  <2>1. \A o \in Pages \ {a} : admin'[o] = admin[o]
    BY <1>6 DEF WriteMessage
  <2>2. faults' \in 0..MaxFaults
    BY <1>0, <1>6, FaultType DEF WriteMessage
  <2>3. CASE admin' = [admin EXCEPT ![a] = Idle]
    <3>1. admin'[a].m = 0
      BY <2>3 DEF Idle
    <3> QED
      BY <1>0, <1>6, <2>1, <2>2, <3>1, OfficeRest DEF WriteMessage, client
  <2>4. CASE /\ msgs' = Append(msgs, NewRow("admin"))
             /\ admin' = [admin EXCEPT ![a].pc = "tell", ![a].m = Len(msgs) + 1]
    <3>1. admin'[a] = [admin[a] EXCEPT !.pc = "tell", !.m = Len(msgs) + 1]
      BY <2>4
    <3>2. admin'[a].m = Len(msgs) + 1
      BY <3>1 DEF Work
    <3>3. Len(msgs) + 1 \in Ids'
      BY <2>4 DEF Ids, NewRow, Row
    <3> QED
      BY <1>0, <1>6, <2>1, <2>2, <3>2, <3>3, OfficeRest DEF WriteMessage, client
  <2> QED
    BY <1>6, <2>3, <2>4 DEF WriteMessage
<1>7. CASE Tell(a)
  <2> DEFINE item == [kind |-> IF admin[a].op = "answer" THEN "answer" ELSE "message",
                      m |-> admin[a].m, reply |-> admin[a].n]
             rest == IF admin[a].op = "answer" THEN {} ELSE list[a]
  <2>1. item \in Item
    BY DEF Work, Item
  <2>2. rest \in SUBSET Ids
    BY DEF RestInv
  <2>3. PICK got \in SUBSET Devices :
          inbox' = [d \in Devices |-> IF d \in got THEN inbox[d] \cup {item} ELSE inbox[d]]
    BY <1>7 DEF Tell
  <2>4. list' = list \/ list' = [list EXCEPT ![a] = rest]
    BY <1>7 DEF Tell
  <2> HIDE DEF item, rest
  <2>5. \A d \in Devices : inbox'[d] \subseteq Item
    BY <1>0, <2>1, <2>3
  <2>6. admin'[a].m = 0 /\ \A o \in Pages \ {a} : admin'[o] = admin[o]
    BY <1>7 DEF Tell, Idle
  <2>7. orders' \in Nat /\ faults' \in 0..MaxFaults
    BY <1>0, <1>7, FaultType DEF Tell, Log
  <2> QED
    BY <1>0, <1>7, <2>2, <2>4, <2>5, <2>6, <2>7, OfficeRest DEF Tell
<1> QED
  BY <1>1, <1>2, <1>3, <1>4, <1>5, <1>6, <1>7 DEF Handle

LEMMA NumberOrNone == ASSUME NEW S, S \subseteq Nat, NEW x \in S \cup {0} PROVE x \in Nat
  OBVIOUS

LEMMA ClientTypes ==
  ASSUME TypeInv, Ids \subseteq Ids', Ids \subseteq Nat, NEW d \in Devices,
         \/ SendAdminMessage(d) \/ GetBalanceReply(d) \/ GetBalanceMessage(d)
         \/ ShowAdminReply(d) \/ ShowAdminMessage(d)
         \/ Acknowledge(d) \/ Reply(d) \/ CloseMessage(d)
  PROVE  RestInv'
<1> SeenInv /\ RestInv /\ DOMAIN inbox = Devices /\ \A x \in inbox[d] : ItemOK(x)
  BY DEF TypeInv, SeenInv, ShownInv, DeviceOK
<1>0. /\ faults \in 0..MaxFaults /\ \A u \in Devices : inbox[u] \subseteq Item
      /\ dialog \in [Devices -> Item] /\ notice \in [Devices -> Ids \cup {0}]
      /\ notice \in [Devices -> Ids' \cup {0}]
      /\ net \subseteq Request /\ late \subseteq Ids'
  BY DEF RestInv
<1>1. CASE SendAdminMessage(d)
  BY <1>0, <1>1, ClientRest DEF SendAdminMessage, client
<1>2. CASE GetBalanceReply(d) \/ GetBalanceMessage(d)
  <2>1. PICK m \in Ids : \/ /\ FromClient(m)
                           /\ inbox' = [inbox EXCEPT ![d] = @ \cup {Answer(m)}]
                        \/ inbox' = [inbox EXCEPT ![d] = @ \cup {Message(m)}]
    BY <1>2 DEF GetBalanceReply, GetBalanceMessage, Unread, Open, FromClient
  <2>2. Message(m) \in Item /\ (FromClient(m) => Answer(m) \in Item)
    BY DEF Item, Answer, Message, SeenInv, OfficeInv
  <2>3. \A u \in Devices : inbox'[u] \subseteq Item
    BY <1>0, <2>1, <2>2
  <2> QED
    BY <1>0, <1>2, <2>3, ClientRest DEF GetBalanceReply, GetBalanceMessage
<1>3. CASE ShowAdminReply(d)
  <2>1. PICK x \in inbox[d] : /\ dialog' = [dialog EXCEPT ![d] = x]
                              /\ inbox' = [inbox EXCEPT ![d] = @ \ {x}]
    BY <1>3 DEF ShowAdminReply
  <2>2. /\ dialog' \in [Devices -> Item] /\ \A u \in Devices : inbox'[u] \subseteq Item
    BY <1>0, <2>1
  <2> QED
    BY <1>0, <1>3, <2>2, ClientRest DEF ShowAdminReply
<1>4. CASE ShowAdminMessage(d)
  <2>1. PICK x \in inbox[d] : /\ x.kind = "message"
                              /\ notice' = [notice EXCEPT ![d] = x.m]
                              /\ inbox' = [inbox EXCEPT ![d] = @ \ {x}]
                              /\ Ask(d, "mark", x.m, 0)
    BY <1>4 DEF ShowAdminMessage
  <2>2. x.m \in Ids /\ x.m \in Nat
    BY <2>1 DEF ItemOK, FromAdmin
  <2>3. notice' \in [Devices -> Ids' \cup {0}] /\ \A u \in Devices : inbox'[u] \subseteq Item
    BY <1>0, <2>1, <2>2
  <2>4. [from |-> d, op |-> "mark", m |-> x.m, reply |-> 0] \in Request
    BY <2>2 DEF Request
  <2>5. net' \subseteq Request
    BY <1>0, <2>1, <2>4 DEF Ask
  <2> QED
    BY <1>0, <1>4, <2>3, <2>5, ClientRest DEF ShowAdminMessage
<1>5. CASE Acknowledge(d)
  <2>1. dialog[d].m \in Nat /\ dialog[d].reply \in Nat
    BY <1>0 DEF Item
  <2>2. net' \subseteq Request
    BY <1>0, <1>5, <2>1 DEF Acknowledge, Ask, Request
  <2> QED
    BY <1>0, <1>5, <2>2, ClientRest DEF Acknowledge
<1>n. notice[d] \in Nat
  <2>1. notice \in [Devices -> Ids \cup {0}]
    BY <1>0
  <2>2. notice[d] \in Ids \cup {0}
    BY <2>1
  <2> QED
    BY <2>2, NumberOrNone
<1>a. /\ [from |-> d, op |-> "reply", m |-> notice[d], reply |-> 1] \in Request
      /\ [from |-> d, op |-> "mark", m |-> notice[d], reply |-> 0] \in Request
  BY <1>n DEF Request
<1>6. CASE Reply(d)
  <2>1. net' \subseteq Request
    BY <1>0, <1>6, <1>a DEF Reply, Ask
  <2> QED
    BY <1>0, <1>6, <2>1, ClientRest DEF Reply
<1>7. CASE CloseMessage(d)
  <2>1. net' \subseteq Request /\ notice' \in [Devices -> Ids' \cup {0}]
    BY <1>0, <1>7, <1>a DEF CloseMessage, Ask
  <2> QED
    BY <1>0, <1>7, <2>1, ClientRest DEF CloseMessage
<1> QED
  BY <1>1, <1>2, <1>3, <1>4, <1>5, <1>6, <1>7

LEMMA RequestTypes ==
  ASSUME TypeInv, Ids \subseteq Ids', AdminReplyAck \/ UserReplyAdminMessage \/ LoseRequest
  PROVE  RestInv'
<1> SeenInv /\ RestInv /\ \A r \in net : RequestOK(r)
  BY DEF TypeInv, SeenInv, ShownInv
<1>0. /\ faults \in 0..MaxFaults /\ \A u \in Devices : inbox[u] \subseteq Item
      /\ dialog \in [Devices -> Item] /\ notice \in [Devices -> Ids' \cup {0}]
      /\ net \subseteq Request /\ late \subseteq Ids'
      /\ Nothing \in Item
  BY DEF RestInv, Nothing, Item
<1>1. CASE AdminReplyAck
  <2>1. PICK r \in net : /\ r.op = "ack"
                         /\ late' = IF msgs[r.m].reply = r.reply THEN late ELSE late \cup {r.m}
                         /\ \/ dialog' = [dialog EXCEPT ![r.from] = Nothing] /\ UNCHANGED faults
                            \/ UNCHANGED dialog /\ Fault("lost")
                         /\ net' = net \ {r}
                         /\ UNCHANGED <<office, inbox, notice>>
    BY <1>1 DEF AdminReplyAck
  <2>2. r.m \in Ids
    BY <2>1 DEF RequestOK, AnswerSeen, FromClient
  <2>3. late' \subseteq Ids' /\ dialog' \in [Devices -> Item] /\ net' \subseteq Request
    BY <1>0, <2>1, <2>2
  <2>4. faults' \in 0..MaxFaults
    BY <1>0, <2>1, FaultType
  <2> QED
    BY <1>0, <2>1, <2>3, <2>4, ClientRest
<1>2. CASE UserReplyAdminMessage
  <2>1. PICK r \in net : /\ notice' = IF r.op = "reply" THEN [notice EXCEPT ![r.from] = 0] ELSE notice
                         /\ net' = net \ {r}
                         /\ UNCHANGED <<office, inbox, dialog, faults, late>>
    BY <1>2 DEF UserReplyAdminMessage
  <2>2. notice' \in [Devices -> Ids' \cup {0}] /\ net' \subseteq Request
    BY <1>0, <2>1
  <2> QED
    BY <1>0, <2>1, <2>2, ClientRest
<1>3. CASE LoseRequest
  <2>1. net' \subseteq Request /\ faults' \in 0..MaxFaults
    BY <1>0, <1>3, FaultType DEF LoseRequest
  <2> QED
    BY <1>0, <1>3, <2>1, ClientRest DEF LoseRequest
<1> QED
  BY <1>1, <1>2, <1>3

(* Every variable keeps its type, for any numbers of devices, pages,       *)
(* messages and answers: what is shown as an answer, or waits to be, is    *)
(* about a message that the client has written, and the other way round.   *)
THEOREM Typing == Spec => []TypeOK
<1>1. Init => RestInv
  BY DEF Init, RestInv, Ids, Idle, Nothing, Item
<1>2. TypeInv /\ [Next]_vars => RestInv'
  <2> SUFFICES ASSUME TypeInv, [Next]_vars PROVE RestInv'
    OBVIOUS
  <2>1. Ids \subseteq Ids' /\ Ids \subseteq Nat
    BY IdsStay DEF TypeInv
  <2>2. CASE UNCHANGED vars
    BY <2>2 DEF vars, TypeInv, RestInv, Ids
  <2> QED
    BY <2>1, <2>2, OfficeTypes, ClientTypes, RequestTypes DEF Next
<1>3. TypeInv => TypeOK
  <2> SUFFICES ASSUME TypeInv PROVE TypeOK
    OBVIOUS
  <2>1. \A d \in Devices : \A x \in inbox[d] :
          x \in Item /\ x.m \in Ids /\ (x.kind = "answer") = (msgs[x.m].from = "client")
    BY DEF TypeInv, RestInv, SeenInv, ShownInv, DeviceOK, ItemOK, FromClient, FromAdmin
  <2> QED
    BY <2>1 DEF TypeInv, RestInv, SeenInv, OfficeInv, TypeOK
<1>4. Spec => []TypeInv
  <2>1. TypeInv <=> SeenInv /\ RestInv
    BY DEF TypeInv
  <2> QED
    BY <1>1, <1>2, <2>1, Invariant, PTL DEF Spec
<1> QED
  BY <1>3, <1>4, PTL

=============================================================================
