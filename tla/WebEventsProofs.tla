-------------------------- MODULE WebEventsProofs --------------------------
(***************************************************************************)
(* Theorems about WebEvents, for any number of websockets and events, any  *)
(* capacity of a channel and any array left behind.                        *)
(***************************************************************************)
EXTENDS WebEvents, SequenceTheorems, TLAPS

-----------------------------------------------------------------------------
(* The table.  While an Unsubscribe shifts, the slice has a hole: the slot *)
(* whose channel is already copied to the one before, or is to go.         *)

Live == (1..len) \ {lock.at}

ListInv ==
  /\ array \in Seq(Socks \cup {None})
  /\ len \in 0..Len(array)
  /\ lock \in [by : Socks \cup {None}, at : 0..len]
  /\ lock.by # None => lock.at > 0 /\ chan[lock.by] = "open"
  /\ lock.by = None => lock.at = 0
  /\ \A i \in Live : /\ array[i] \in Socks /\ array[i] # lock.by
                     /\ chan[array[i]] = "open"
  /\ \A s \in Socks : chan[s] = "open" /\ s # lock.by => \E i \in Live : array[i] = s
  /\ \A i, j \in Live : array[i] = array[j] => i = j

\* the channel of a websocket lives as long as its OrderWS
ChanInv ==
  /\ chan \in [Socks -> {"none", "open", "closed"}]
  /\ writer \in [Socks -> {"new", "subscribed", "open", "leaving", "gone"}]
  /\ \A s \in Socks : chan[s] = "open" <=> writer[s] \in {"subscribed", "open", "leaving"}

TableInv == ListInv /\ ChanInv

LEMMA ArrayExcept ==
  ASSUME NEW a \in Seq(Socks \cup {None}), NEW i \in 1..Len(a), NEW e \in Socks \cup {None}
  PROVE  /\ [a EXCEPT ![i] = e] \in Seq(Socks \cup {None})
         /\ Len([a EXCEPT ![i] = e]) = Len(a)
         /\ \A k \in 1..Len(a) : [a EXCEPT ![i] = e][k] = IF k = i THEN e ELSE a[k]
  BY ExceptSeq

LEMMA GrownType ==
  ASSUME array \in Seq(Socks \cup {None}), len \in 0..Len(array)
  PROVE  /\ Grown \in Seq(Socks \cup {None})
         /\ Len(Grown) \in Nat /\ Len(Grown) > len
         /\ \A i \in 1..len : Grown[i] = array[i]
<1>1. CASE len < Len(array)
  BY <1>1 DEF Grown
<1>2. CASE ~(len < Len(array))
  <2> DEFINE m == IF len = 0 THEN 1 ELSE 2 * len
  <2>1. m \in Nat /\ m > len /\ len \in Nat
    OBVIOUS
  <2>2. Grown = [i \in 1..m |-> IF i <= len THEN array[i] ELSE None]
    BY <1>2 DEF Grown
  <2>3. \A i \in 1..m : (IF i <= len THEN array[i] ELSE None) \in Socks \cup {None}
    <3> SUFFICES ASSUME NEW i \in 1..m, i <= len PROVE array[i] \in Socks \cup {None}
      OBVIOUS
    <3> QED
      BY <2>1, ElementOfSeq
  <2> HIDE DEF m
  <2>4. Grown \in Seq(Socks \cup {None}) /\ Len(Grown) = m
    BY <2>1, <2>2, <2>3
  <2> QED
    BY <2>1, <2>2, <2>4
<1> QED
  BY <1>1, <1>2

LEMMA TableInit == Init => TableInv
<1> SUFFICES ASSUME Init PROVE TableInv
  OBVIOUS
<1>1. PICK n \in Rooms : array = [i \in 1..n |-> None]
  BY DEF Init
<1>2. array \in Seq(Socks \cup {None}) /\ Len(array) = n /\ n \in Nat
  BY <1>1, EventsAssumption
<1>3. len = 0 /\ lock = [by |-> None, at |-> 0] /\ \A s \in Socks : chan[s] = "none"
  BY DEF Init
<1>4. ListInv
  BY <1>2, <1>3 DEF ListInv, Live
<1> QED
  BY <1>4 DEF TableInv, ChanInv, Init

LEMMA SubscribeKeepsTable ==
  ASSUME TableInv, NEW s \in Socks, Subscribe(s)
  PROVE  TableInv'
<1> ListInv /\ ChanInv
  BY DEF TableInv
<1>1. /\ writer[s] = "new" /\ lock.by = None /\ lock.at = 0 /\ lock' = lock
      /\ array' = [Grown EXCEPT ![len + 1] = s] /\ len' = len + 1
      /\ chan' = [chan EXCEPT ![s] = "open"]
      /\ writer' = [writer EXCEPT ![s] = "subscribed"]
  BY DEF Subscribe, ListInv
<1>2. /\ array \in Seq(Socks \cup {None}) /\ len \in 0..Len(array) /\ len \in Nat
      /\ Live = 1..len /\ chan[s] # "open" /\ None \notin Socks
  BY <1>1, EventsAssumption DEF ListInv, ChanInv, Live
<1>3. /\ array' \in Seq(Socks \cup {None}) /\ Len(array') = Len(Grown) /\ Len(Grown) > len
      /\ Len(Grown) \in Nat
      /\ \A i \in 1..len : array'[i] = array[i]
      /\ array'[len + 1] = s
  <2>1. len + 1 \in 1..Len(Grown)
    BY <1>2, GrownType
  <2> QED
    BY <1>1, <1>2, <2>1, GrownType, ArrayExcept
<1>4. Live' = 1..(len + 1)
  BY <1>1, <1>2 DEF Live
<1>5. \A i \in 1..len : array[i] \in Socks /\ chan[array[i]] = "open" /\ array[i] # s
  BY <1>2 DEF ListInv
<1>6. \A i \in Live' : /\ array'[i] \in Socks /\ array'[i] # lock'.by
                       /\ chan'[array'[i]] = "open"
  BY <1>1, <1>2, <1>3, <1>4, <1>5 DEF ChanInv
<1>7. \A u \in Socks : chan'[u] = "open" /\ u # lock'.by => \E i \in Live' : array'[i] = u
  <2> SUFFICES ASSUME NEW u \in Socks, chan'[u] = "open" PROVE \E i \in Live' : array'[i] = u
    OBVIOUS
  <2>1. CASE u = s
    BY <1>2, <1>3, <1>4, <2>1
  <2>2. CASE u # s
    <3>1. chan[u] = "open" /\ u # lock.by
      BY <1>1, <1>2, <2>2 DEF ChanInv
    <3>2. PICK i \in 1..len : array[i] = u
      BY <1>2, <3>1 DEF ListInv
    <3>3. i \in Live' /\ array'[i] = u
      BY <1>2, <1>3, <1>4, <3>2
    <3> QED
      BY <3>3
  <2> QED
    BY <2>1, <2>2
<1>8. \A i, j \in Live' : array'[i] = array'[j] => i = j
  <2>1. \A i, j \in 1..len : array[i] = array[j] => i = j
    BY <1>2 DEF ListInv
  <2> QED
    BY <1>2, <1>3, <1>4, <1>5, <2>1
<1>9. lock' \in [by : Socks \cup {None}, at : 0..len'] /\ len' \in 0..Len(array')
  BY <1>1, <1>2, <1>3 DEF ListInv
<1>10. ListInv'
  BY <1>1, <1>3, <1>6, <1>7, <1>8, <1>9 DEF ListInv
<1>11. ChanInv'
  BY <1>1 DEF ChanInv
<1> QED
  BY <1>10, <1>11 DEF TableInv

LEMMA UnsubscribeKeepsTable ==
  ASSUME TableInv, NEW s \in Socks, Unsubscribe(s)
  PROVE  TableInv'
<1> ListInv /\ ChanInv
  BY DEF TableInv
<1>1. PICK i \in 1..len : array[i] = s /\ lock' = [by |-> s, at |-> i]
  BY DEF Unsubscribe
<1>2. /\ writer[s] = "leaving" /\ lock.by = None /\ Live = 1..len /\ len \in Nat
      /\ None \notin Socks
      /\ UNCHANGED <<array, len, chan, writer>>
  BY EventsAssumption DEF Unsubscribe, sockets, ListInv, Live
<1>3. Live' = (1..len) \ {i} /\ lock'.by = s /\ lock'.at = i
  BY <1>1, <1>2 DEF Live
<1>4. chan[s] = "open"
  BY <1>2 DEF ChanInv
<1>5. \A k \in Live' : array[k] \in Socks /\ array[k] # s /\ chan[array[k]] = "open"
  BY <1>1, <1>2, <1>3 DEF ListInv
<1>6. \A u \in Socks : chan[u] = "open" /\ u # s => \E k \in Live' : array[k] = u
  BY <1>1, <1>2, <1>3 DEF ListInv
<1>7. \A k, j \in Live' : array[k] = array[j] => k = j
  BY <1>2, <1>3 DEF ListInv
<1>8. ListInv'
  BY <1>1, <1>2, <1>3, <1>4, <1>5, <1>6, <1>7 DEF ListInv
<1>9. ChanInv'
  BY <1>2 DEF ChanInv
<1> QED
  BY <1>8, <1>9 DEF TableInv

LEMMA ShiftKeepsTable ==
  ASSUME TableInv, NEW s \in Socks, UnsubscribeShift(s)
  PROVE  TableInv'
<1> DEFINE a == lock.at
<1> ListInv /\ ChanInv
  BY DEF TableInv
<1>1. /\ lock.by = s /\ a < len /\ a \in Nat /\ a > 0 /\ len \in Nat /\ len <= Len(array)
      /\ array \in Seq(Socks \cup {None}) /\ None \notin Socks /\ Len(array) \in Nat
      /\ array' = [array EXCEPT ![a] = array[a + 1]]
      /\ lock' = [lock EXCEPT !.at = a + 1]
      /\ UNCHANGED <<len, chan, writer>>
  BY EventsAssumption DEF UnsubscribeShift, sockets, ListInv
<1>2. lock' = [by |-> s, at |-> a + 1]
  BY <1>1 DEF ListInv
<1>3. Live = (1..len) \ {a} /\ Live' = (1..len) \ {a + 1}
  BY <1>1, <1>2 DEF Live
<1>4. a + 1 \in Live /\ array[a + 1] \in Socks
  BY <1>1, <1>3 DEF ListInv
<1>5. /\ array' \in Seq(Socks \cup {None}) /\ Len(array') = Len(array)
      /\ \A k \in 1..len : array'[k] = IF k = a THEN array[a + 1] ELSE array[k]
  <2>1. a \in 1..Len(array)
    BY <1>1
  <2> QED
    BY <1>1, <1>4, <2>1, ArrayExcept
<1>6. \A k \in Live' : array'[k] \in Socks /\ array'[k] # s /\ chan[array'[k]] = "open"
  BY <1>1, <1>3, <1>4, <1>5 DEF ListInv
<1>7. \A u \in Socks : chan[u] = "open" /\ u # s => \E k \in Live' : array'[k] = u
  <2> SUFFICES ASSUME NEW u \in Socks, chan[u] = "open", u # s
               PROVE  \E k \in Live' : array'[k] = u
    OBVIOUS
  <2>1. PICK k \in Live : array[k] = u
    BY <1>1 DEF ListInv
  <2>2. CASE k = a + 1
    <3>1. a \in Live' /\ array'[a] = u
      BY <1>1, <1>3, <1>5, <2>1, <2>2
    <3> QED
      BY <3>1
  <2>3. CASE k # a + 1
    <3>1. k \in Live' /\ array'[k] = u
      BY <1>1, <1>3, <1>5, <2>1, <2>3
    <3> QED
      BY <3>1
  <2> QED
    BY <2>2, <2>3
<1>8. ASSUME NEW k \in Live', NEW j \in Live', array'[k] = array'[j] PROVE k = j
  <2>1. \A x, y \in Live : array[x] = array[y] => x = y
    BY DEF ListInv
  <2> DEFINE from(x) == IF x = a THEN a + 1 ELSE x
  <2>2. /\ from(k) \in Live /\ array'[k] = array[from(k)]
        /\ from(j) \in Live /\ array'[j] = array[from(j)]
    BY <1>1, <1>3, <1>4, <1>5
  <2>3. from(k) = from(j)
    BY <1>8, <2>1, <2>2
  <2> QED
    BY <1>1, <1>3, <2>3
<1>9. ListInv'
  BY <1>1, <1>2, <1>5, <1>6, <1>7, <1>8 DEF ListInv
<1>10. ChanInv'
  BY <1>1 DEF ChanInv
<1> QED
  BY <1>9, <1>10 DEF TableInv

LEMMA CloseKeepsTable ==
  ASSUME TableInv, NEW s \in Socks, UnsubscribeClose(s)
  PROVE  TableInv'
<1> ListInv /\ ChanInv
  BY DEF TableInv
<1>1. /\ lock.by = s /\ lock.at = len /\ len \in Nat /\ len > 0 /\ None \notin Socks
      /\ array \in Seq(Socks \cup {None}) /\ len <= Len(array) /\ Len(array) \in Nat
      /\ len' = len - 1 /\ array' = array
      /\ lock' = [by |-> None, at |-> 0]
      /\ chan' = [chan EXCEPT ![s] = "closed"]
      /\ writer' = [writer EXCEPT ![s] = "gone"]
  BY EventsAssumption DEF UnsubscribeClose, ListInv
<1>2. Live = 1..(len - 1) /\ Live' = 1..(len - 1)
  BY <1>1 DEF Live
<1>3. \A k \in Live' : array[k] \in Socks /\ array[k] # None /\ chan'[array[k]] = "open"
  BY <1>1, <1>2 DEF ListInv, ChanInv
<1>4. \A u \in Socks : chan'[u] = "open" /\ u # None => \E k \in Live' : array[k] = u
  BY <1>1, <1>2 DEF ListInv, ChanInv
<1>5. \A k, j \in Live' : array[k] = array[j] => k = j
  BY <1>2 DEF ListInv
<1>6. ListInv'
  BY <1>1, <1>3, <1>4, <1>5 DEF ListInv
<1>7. ChanInv'
  BY <1>1 DEF ChanInv
<1> QED
  BY <1>6, <1>7 DEF TableInv

LEMMA PanicKeepsTable ==
  ASSUME TableInv, PublishPanic
  PROVE  TableInv'
<1>1. /\ array' = <<>> /\ len' = 0 /\ lock' = [by |-> None, at |-> 0]
      /\ chan' = [s \in Socks |-> IF chan[s] = "none" THEN "none" ELSE "closed"]
      /\ writer' = [s \in Socks |-> IF writer[s] = "new" THEN "new" ELSE "gone"]
  BY DEF PublishPanic
<1>2. \A s \in Socks : chan'[s] # "open" /\ writer'[s] \in {"new", "gone"}
  BY <1>1
<1>3. array' \in Seq(Socks \cup {None}) /\ Len(array') = 0
  BY <1>1
<1>4. ListInv'
  BY <1>1, <1>2, <1>3 DEF ListInv, Live
<1>5. ChanInv'
  BY <1>1, <1>2 DEF ChanInv
<1> QED
  BY <1>4, <1>5 DEF TableInv

LEMMA OpenKeepsTable ==
  ASSUME TableInv, NEW s \in Socks, OpenHidden(s) \/ WriteFails(s)
  PROVE  TableInv'
<1>1. UNCHANGED table /\ chan[s] = "open"
  BY DEF OpenHidden, WriteFails, table, TableInv, ChanInv
<1>2. PICK w \in {"open", "leaving"} : writer' = [writer EXCEPT ![s] = w]
  BY DEF OpenHidden, WriteFails
<1>3. ListInv'
  BY <1>1 DEF TableInv, ListInv, Live, table
<1>4. ChanInv'
  BY <1>1, <1>2 DEF TableInv, ChanInv, table
<1> QED
  BY <1>3, <1>4 DEF TableInv

LEMMA TableSteps ==
  ASSUME [Next]_vars
  PROVE  \/ UNCHANGED table /\ UNCHANGED writer
         \/ \E s \in Socks : \/ Subscribe(s) \/ Unsubscribes(s)
                             \/ OpenHidden(s) \/ WriteFails(s)
         \/ PublishPanic
<1>1. ASSUME NEW s \in Socks, Leave(s) \/ ReadVisibility(s) \/ ReadFails(s) \/ WriteEvent(s)
      PROVE  UNCHANGED table /\ UNCHANGED writer
  BY <1>1 DEF Leave, ReadVisibility, ReadFails, WriteEvent, sockets
<1>2. ASSUME HandleOrder \/ NotifyOrderComplete \/ PublishHeader \/ PublishSlot \/ PublishSend
      PROVE  UNCHANGED table /\ UNCHANGED writer
  BY <1>2 DEF HandleOrder, NotifyOrderComplete, PublishHeader, PublishSlot, PublishSend, sockets
<1>3. CASE UNCHANGED vars
  BY <1>3 DEF vars, table
<1> QED
  BY <1>1, <1>2, <1>3 DEF Next, Write, Publish

LEMMA TableNext == TableInv /\ [Next]_vars => TableInv'
<1> SUFFICES ASSUME TableInv, [Next]_vars PROVE TableInv'
  OBVIOUS
<1>1. CASE UNCHANGED table /\ UNCHANGED writer
  BY <1>1 DEF TableInv, ListInv, ChanInv, Live, table
<1>2. ASSUME NEW s \in Socks,
             Subscribe(s) \/ Unsubscribes(s) \/ OpenHidden(s) \/ WriteFails(s)
      PROVE  TableInv'
  BY <1>2, SubscribeKeepsTable, UnsubscribeKeepsTable, ShiftKeepsTable, CloseKeepsTable,
     OpenKeepsTable DEF Unsubscribes
<1> QED
  BY <1>1, <1>2, PanicKeepsTable, TableSteps

(* TableHolds: whatever is shifted, appended and closed, the table lists   *)
(* every open channel exactly once while nobody holds the lock.            *)
THEOREM TableHolds == Spec => []TableListsTheOpen
<1>1. TableInv => TableListsTheOpen
  <2> SUFFICES ASSUME TableInv, lock.by = None PROVE TableListsTheOpen
    BY DEF TableListsTheOpen
  <2>1. Live = 1..len /\ None \notin Socks
    BY EventsAssumption DEF TableInv, ListInv, Live
  <2> QED
    BY <2>1 DEF TableInv, ListInv, TableListsTheOpen
<1> QED
  BY <1>1, TableInit, TableNext, PTL DEF Spec

-----------------------------------------------------------------------------
(* The window.  A reader's last word is that the window is hidden.         *)

LooksInv ==
  /\ reader \in [Socks -> {"new", "reading", "ended"}]
  /\ NobodyLooks

LEMMA LooksNext == LooksInv /\ [Next]_vars => LooksInv'
<1> SUFFICES ASSUME LooksInv, [Next]_vars PROVE LooksInv'
  OBVIOUS
<1>1. CASE UNCHANGED <<reader, window>>
  BY <1>1 DEF LooksInv, NobodyLooks
<1>2. ASSUME NEW s \in Socks, OpenHidden(s) \/ ReadFails(s) PROVE LooksInv'
  BY <1>2 DEF OpenHidden, ReadFails, LooksInv, NobodyLooks
<1>3. ASSUME NEW s \in Socks, ReadVisibility(s) PROVE LooksInv'
  BY <1>3 DEF ReadVisibility, LooksInv, NobodyLooks
<1>4. CASE PublishPanic
  BY <1>4 DEF PublishPanic, LooksInv, NobodyLooks
<1>5. ASSUME NEW s \in Socks,
             Subscribe(s) \/ Unsubscribes(s) \/ Leave(s) \/ Write(s)
      PROVE  UNCHANGED <<reader, window>>
  BY <1>5 DEF Subscribe, Unsubscribes, Unsubscribe, UnsubscribeShift, UnsubscribeClose,
              Leave, Write, WriteEvent, WriteFails, sockets
<1>6. ASSUME HandleOrder \/ NotifyOrderComplete \/ PublishHeader \/ PublishSlot \/ PublishSend
      PROVE  UNCHANGED <<reader, window>>
  BY <1>6 DEF HandleOrder, NotifyOrderComplete, PublishHeader, PublishSlot, PublishSend, sockets
<1>7. CASE UNCHANGED vars
  BY <1>7, <1>1 DEF vars
<1> QED
  BY <1>1, <1>2, <1>3, <1>4, <1>5, <1>6, <1>7 DEF Next, Publish

(* PushIsNotForgotten: once all readers have noticed that their clients    *)
(* left, the window does not count as visible, so the next complete order  *)
(* is pushed.                                                              *)
THEOREM PushIsNotForgotten == Spec => []NobodyLooks
<1>1. Init => LooksInv
  BY DEF Init, LooksInv, NobodyLooks
<1>2. LooksInv => NobodyLooks
  BY DEF LooksInv
<1> QED
  BY <1>1, <1>2, LooksNext, PTL DEF Spec

-----------------------------------------------------------------------------
(* The publisher.  What its header reaches are websockets: slots are       *)
(* overwritten by others while it walks, but only by websockets, as a      *)
(* shift copies within the length and an append beyond it; and an append   *)
(* that moves the table leaves the old array as it was.                    *)

Entries == Socks \cup {None}

PubPCs == {"idle", "notify", "header", "slot", "send"}

Walking == pub.pc \in {"slot", "send"}

HeaderOK ==
  /\ pub.i \in 1..pub.n
  /\ pub.shared => pub.n <= Len(array) /\ \A k \in 1..pub.n : array[k] \in Socks
  /\ ~pub.shared => pub.n <= Len(pub.old) /\ \A k \in 1..pub.n : pub.old[k] \in Socks

PubInv ==
  /\ pub \in Publisher
  /\ Walking => HeaderOK
  /\ pub.pc = "send" => pub.ch \in Socks
  /\ event \in 0..MaxEvents /\ pushed \subseteq 1..MaxEvents
  /\ pub.pc # "idle" => event > 0

RestInv ==
  /\ buf \in [Socks -> Seq(Nat)]
  /\ reader \in [Socks -> {"new", "reading", "ended"}]
  /\ lost \subseteq Socks
  /\ window \in {"unset", "hidden", "visible"}

TypeInv == TableInv /\ PubInv /\ RestInv

LEMMA IdleType == Idle \in Publisher
  BY DEF Idle, Publisher

LEMMA TypeInit == Init => TypeInv
<1> SUFFICES ASSUME Init PROVE TypeInv
  OBVIOUS
<1>1. PubInv
  BY IdleType, EventsAssumption DEF Init, PubInv, Walking, Idle
<1>2. RestInv
  BY DEF Init, RestInv
<1> QED
  BY <1>1, <1>2, TableInit DEF TypeInv

\* the header stays and its array keeps its websockets
LEMMA HeaderKeeps ==
  ASSUME PubInv, pub' = pub, UNCHANGED <<event, pushed>>,
         Walking /\ pub.shared => /\ Len(array') = Len(array)
                                  /\ \A k \in 1..pub.n : array[k] \in Socks => array'[k] \in Socks
  PROVE  PubInv'
  BY DEF PubInv, Walking, HeaderOK

LEMMA SubscribeKeepsPub ==
  ASSUME TypeInv, NEW s \in Socks, Subscribe(s)
  PROVE  PubInv'
<1> TableInv /\ ListInv /\ PubInv
  BY DEF TypeInv, TableInv
<1>1. /\ array \in Seq(Entries) /\ len \in 0..Len(array) /\ len \in Nat /\ Len(array) \in Nat
      /\ Len(Grown) \in Nat /\ Len(Grown) > len /\ Grown \in Seq(Entries)
      /\ array' = [Grown EXCEPT ![len + 1] = s] /\ pub' = Moved
      /\ UNCHANGED <<event, pushed>>
  BY GrownType DEF Subscribe, ListInv, Entries
<1>2. CASE len < Len(array)
  <2>1. Grown = array /\ Moved = pub
    BY <1>2 DEF Grown, Moved
  <2>2. Len(array') = Len(array) /\ \A k \in 1..Len(array) : array'[k] = IF k = len + 1 THEN s ELSE array[k]
    BY <1>1, <1>2, <2>1, ArrayExcept DEF Entries
  <2>3. Walking /\ pub.shared => \A k \in 1..pub.n : array[k] \in Socks => array'[k] \in Socks
    BY <1>1, <2>2 DEF PubInv, HeaderOK, Publisher
  <2> QED
    BY <1>1, <2>1, <2>2, <2>3, HeaderKeeps
<1>3. CASE ~pub.shared
  <2>1. pub' = pub
    BY <1>1, <1>3 DEF Moved
  <2> QED
    BY <1>1, <1>3, <2>1, HeaderKeeps
<1>4. CASE ~(len < Len(array)) /\ pub.shared
  <2>1. pub' = [pub EXCEPT !.shared = FALSE, !.old = array]
    BY <1>1, <1>4 DEF Moved
  <2>2. /\ pub' \in Publisher /\ pub'.pc = pub.pc /\ pub'.i = pub.i /\ pub'.n = pub.n
        /\ pub'.ch = pub.ch /\ ~pub'.shared /\ pub'.old = array
    BY <1>1, <2>1 DEF PubInv, Publisher, Entries
  <2> QED
    BY <1>1, <1>4, <2>2 DEF PubInv, Walking, HeaderOK
<1> QED
  BY <1>2, <1>3, <1>4

LEMMA UnsubscribesKeepsPub ==
  ASSUME TypeInv, NEW s \in Socks, Unsubscribes(s)
  PROVE  PubInv'
<1> TableInv /\ ListInv /\ PubInv
  BY DEF TypeInv, TableInv
<1>1. CASE Unsubscribe(s)
  <2>1. pub' = [pub EXCEPT !.calm = FALSE] /\ UNCHANGED <<array, event, pushed>>
    BY <1>1 DEF Unsubscribe
  <2>2. /\ pub' \in Publisher /\ pub'.pc = pub.pc /\ pub'.i = pub.i /\ pub'.n = pub.n
        /\ pub'.ch = pub.ch /\ pub'.shared = pub.shared /\ pub'.old = pub.old
    BY <2>1 DEF PubInv, Publisher
  <2> QED
    BY <2>1, <2>2 DEF PubInv, Walking, HeaderOK
<1>2. CASE UnsubscribeShift(s)
  <2> DEFINE a == lock.at
  <2>1. /\ a \in 1..len /\ a < len /\ len \in Nat /\ len <= Len(array) /\ Len(array) \in Nat
        /\ array' = [array EXCEPT ![a] = array[a + 1]]
        /\ UNCHANGED <<pub, event, pushed>>
        /\ lock.by = s
    BY <1>2, EventsAssumption DEF UnsubscribeShift, ListInv
  <2>2. a + 1 \in Live
    BY <2>1 DEF Live
  <2>3. array[a + 1] \in Socks
    BY <2>2 DEF ListInv
  <2>4. Len(array') = Len(array) /\ \A k \in 1..Len(array) : array'[k] = IF k = a THEN array[a + 1] ELSE array[k]
    BY <2>1, <2>3, ArrayExcept DEF ListInv
  <2>5. Walking /\ pub.shared => \A k \in 1..pub.n : array[k] \in Socks => array'[k] \in Socks
    BY <2>1, <2>3, <2>4 DEF PubInv, HeaderOK, Publisher
  <2> QED
    BY <2>1, <2>4, <2>5, HeaderKeeps
<1>3. CASE UnsubscribeClose(s)
  BY <1>3, HeaderKeeps DEF UnsubscribeClose
<1> QED
  BY <1>1, <1>2, <1>3 DEF Unsubscribes

LEMMA PublishKeepsPub ==
  ASSUME TypeInv, HandleOrder \/ Publish
  PROVE  PubInv'
<1> TableInv /\ ListInv /\ PubInv
  BY DEF TypeInv, TableInv
<1>1. CASE HandleOrder
  <2>1. PICK pc \in {"notify", "header"} : pub' = [pub EXCEPT !.pc = pc]
    BY <1>1 DEF HandleOrder
  <2>2. pub' \in Publisher /\ pub'.pc = pc
    BY <2>1 DEF PubInv, Publisher
  <2>3. event' \in 0..MaxEvents /\ event' > 0 /\ pushed' = pushed
    BY <1>1, EventsAssumption DEF HandleOrder, PubInv
  <2> QED
    BY <2>2, <2>3 DEF PubInv, Walking
<1>2. CASE NotifyOrderComplete
  <2>1. pub' \in Publisher /\ pub'.pc = "header"
    BY <1>2 DEF NotifyOrderComplete, PubInv, Publisher
  <2>2. event' = event /\ event > 0 /\ pushed' \subseteq 1..MaxEvents
    BY <1>2, EventsAssumption DEF NotifyOrderComplete, PubInv
  <2> QED
    BY <2>1, <2>2 DEF PubInv, Walking
<1>3. CASE PublishHeader
  <2>1. UNCHANGED <<array, event, pushed>>
    BY <1>3 DEF PublishHeader, table
  <2>2. CASE pub' = Idle
    BY <2>1, <2>2, IdleType DEF PubInv, Walking, Idle
  <2>3. CASE len # 0
    <3>1. /\ array \in Seq(Entries) /\ len \in 1..Len(array) /\ Len(array) \in Nat
          /\ Live = 1..len
      BY <1>3, <2>3 DEF PublishHeader, ListInv, Live, Entries
    <3>2. Slice \in Seq(Entries)
      BY <3>1, SubSeqProperties DEF Slice
    <3>3. pub' = [Idle EXCEPT !.pc = "slot", !.i = 1, !.n = len, !.shared = TRUE, !.aim = Slice]
      BY <1>3, <2>3 DEF PublishHeader
    <3>4. pub' = [pc |-> "slot", i |-> 1, n |-> len, shared |-> TRUE, old |-> <<>>,
                  ch |-> None, aim |-> Slice, calm |-> TRUE]
      BY <3>3 DEF Idle
    <3>a. pub' \in Publisher
      BY <3>1, <3>2, <3>4 DEF Publisher, Entries
    <3>b. pub'.pc = "slot" /\ pub'.i = 1 /\ pub'.n = len /\ pub'.shared
      BY <3>4
    <3>5. \A k \in 1..len : array[k] \in Socks
      BY <3>1 DEF ListInv
    <3>6. event > 0
      BY <1>3 DEF PublishHeader, PubInv
    <3> QED
      BY <2>1, <3>1, <3>a, <3>b, <3>5, <3>6 DEF PubInv, Walking, HeaderOK
  <2> QED
    BY <1>3, <2>2, <2>3 DEF PublishHeader
<1>4. CASE PublishSlot
  <2>1. PICK c : c = (IF pub.shared THEN array[pub.i] ELSE pub.old[pub.i])
    OBVIOUS
  <2>2. c \in Socks /\ HeaderOK
    BY <1>4, <2>1 DEF PublishSlot, PubInv, Walking, HeaderOK
  <2>3. pub' = [pub EXCEPT !.pc = "send", !.ch = c] /\ UNCHANGED <<array, event, pushed>>
    BY <1>4, <2>1 DEF PublishSlot, table
  <2>4. /\ pub' \in Publisher /\ pub'.pc = "send" /\ pub'.ch = c /\ pub'.i = pub.i /\ pub'.n = pub.n
        /\ pub'.shared = pub.shared /\ pub'.old = pub.old
    BY <2>2, <2>3 DEF PubInv, Publisher
  <2>5. event > 0
    BY <1>4 DEF PublishSlot, PubInv
  <2> QED
    BY <2>2, <2>3, <2>4, <2>5 DEF PubInv, Walking, HeaderOK
<1>5. CASE PublishSend
  <2>1. pub.pc = "send" /\ HeaderOK /\ event > 0 /\ pub' = PublishNext /\ UNCHANGED <<array, event, pushed>>
    BY <1>5 DEF PublishSend, PubInv, Walking, table
  <2>2. CASE pub' = Idle
    BY <2>1, <2>2, IdleType DEF PubInv, Walking, Idle
  <2>3. CASE pub.i # pub.n
    <3>1. pub' = [pub EXCEPT !.pc = "slot", !.i = pub.i + 1]
      BY <2>1, <2>3 DEF PublishNext
    <3>2. pub.i \in Nat /\ pub.n \in Nat /\ pub.i + 1 \in 1..pub.n
      BY <2>1, <2>3 DEF PubInv, Publisher, HeaderOK
    <3>a. PICK j \in Nat : j = pub.i + 1
      BY <3>2
    <3>b. pub' = [pub EXCEPT !.pc = "slot", !.i = j]
      BY <3>1, <3>a
    <3>c. /\ pub' \in Publisher /\ pub'.pc = "slot" /\ pub'.i = j /\ pub'.n = pub.n
          /\ pub'.shared = pub.shared /\ pub'.old = pub.old
      BY <3>b DEF PubInv, Publisher
    <3>3. /\ pub' \in Publisher /\ pub'.pc = "slot" /\ pub'.i = pub.i + 1 /\ pub'.n = pub.n
          /\ pub'.shared = pub.shared /\ pub'.old = pub.old
      BY <3>a, <3>c
    <3> QED
      BY <2>1, <3>2, <3>3 DEF PubInv, Walking, HeaderOK
  <2> QED
    BY <2>1, <2>2, <2>3 DEF PublishNext
<1>6. CASE PublishPanic
  BY <1>6, IdleType DEF PublishPanic, PubInv, Walking, Idle
<1> QED
  BY <1>1, <1>2, <1>3, <1>4, <1>5, <1>6 DEF Publish

LEMMA RestNext == TypeInv /\ [Next]_vars => RestInv'
<1> SUFFICES ASSUME TypeInv, [Next]_vars PROVE RestInv'
  OBVIOUS
<1> RestInv /\ PubInv
  BY DEF TypeInv
<1>1. CASE UNCHANGED <<buf, reader, lost, window>>
  BY <1>1 DEF RestInv
<1>2. ASSUME NEW s \in Socks,
             OpenHidden(s) \/ ReadVisibility(s) \/ ReadFails(s) \/ WriteFails(s) \/ Leave(s)
      PROVE  RestInv'
  BY <1>2 DEF OpenHidden, ReadVisibility, ReadFails, WriteFails, Leave, RestInv
<1>3. ASSUME NEW s \in Socks, WriteEvent(s) PROVE RestInv'
  <2>1. Tail(buf[s]) \in Seq(Nat)
    BY <1>3 DEF WriteEvent, RestInv
  <2> QED
    BY <1>3, <2>1 DEF WriteEvent, RestInv, sockets
<1>4. CASE PublishSend
  <2>1. pub.ch \in Socks /\ event \in Nat
    BY <1>4, EventsAssumption DEF PublishSend, PubInv
  <2>2. Append(buf[pub.ch], event) \in Seq(Nat)
    BY <2>1 DEF RestInv
  <2> QED
    BY <1>4, <2>1, <2>2 DEF PublishSend, RestInv, sockets
<1>5. CASE PublishPanic
  BY <1>5 DEF PublishPanic, RestInv
<1>6. ASSUME NEW s \in Socks, Subscribe(s) \/ Unsubscribes(s)
      PROVE  UNCHANGED <<buf, reader, lost, window>>
  BY <1>6 DEF Subscribe, Unsubscribes, Unsubscribe, UnsubscribeShift, UnsubscribeClose, sockets
<1>7. ASSUME HandleOrder \/ NotifyOrderComplete \/ PublishHeader \/ PublishSlot
      PROVE  UNCHANGED <<buf, reader, lost, window>>
  BY <1>7 DEF HandleOrder, NotifyOrderComplete, PublishHeader, PublishSlot, sockets
<1>8. CASE UNCHANGED vars
  BY <1>1, <1>8 DEF vars
<1> QED
  BY <1>1, <1>2, <1>3, <1>4, <1>5, <1>6, <1>7, <1>8 DEF Next, Write, Publish

LEMMA TypeNext == TypeInv /\ [Next]_vars => TypeInv'
<1> SUFFICES ASSUME TypeInv, [Next]_vars PROVE TypeInv'
  OBVIOUS
<1>1. ASSUME NEW s \in Socks, OpenHidden(s) \/ Leave(s) \/ ReadVisibility(s) \/ ReadFails(s) \/ Write(s)
      PROVE  UNCHANGED <<array, pub, event, pushed>>
  BY <1>1 DEF OpenHidden, Leave, ReadVisibility, ReadFails, Write, WriteEvent, WriteFails, table
<1>2. ASSUME UNCHANGED <<array, pub, event, pushed>> PROVE PubInv'
  BY <1>2 DEF TypeInv, PubInv, Walking, HeaderOK
<1>3. PubInv'
  <2>1. CASE UNCHANGED vars
    BY <1>2, <2>1 DEF vars
  <2>2. CASE Next
    BY <1>1, <1>2, <2>2, SubscribeKeepsPub, UnsubscribesKeepsPub, PublishKeepsPub DEF Next
  <2> QED
    BY <2>1, <2>2
<1> QED
  BY <1>3, RestNext, TableNext DEF TypeInv

(* Every variable keeps its type, for any number of websockets and events: *)
(* the publisher, who walks through an array that others shift and append  *)
(* to, never meets a slot without a websocket.                             *)
THEOREM Typing == Spec => []TypeOK
<1>1. TypeInv => TypeOK
  BY DEF TypeInv, TableInv, ListInv, ChanInv, PubInv, RestInv, TypeOK
<1> QED
  BY <1>1, TypeInit, TypeNext, PTL DEF Spec

-----------------------------------------------------------------------------
(* A calm publication.  As long as nobody leaves, the slots up to the      *)
(* header's length hold what they held when it was copied: whoever comes   *)
(* writes beyond them.                                                     *)

CalmInv ==
  Walking /\ pub.calm =>
    /\ lock.by = None
    /\ pub.shared => pub.n <= len /\ \A k \in 1..pub.n : array[k] = pub.aim[k]
    /\ ~pub.shared => \A k \in 1..pub.n : pub.old[k] = pub.aim[k]
    /\ pub.pc = "send" => pub.ch = pub.aim[pub.i]

LEMMA SubscribeKeepsCalm ==
  ASSUME TypeInv, CalmInv, NEW s \in Socks, Subscribe(s)
  PROVE  CalmInv'
<1> TableInv /\ ListInv /\ PubInv
  BY DEF TypeInv, TableInv
<1>1. /\ array \in Seq(Entries) /\ len \in 0..Len(array) /\ len \in Nat /\ Len(array) \in Nat
      /\ Len(Grown) \in Nat /\ Len(Grown) > len /\ Grown \in Seq(Entries)
      /\ array' = [Grown EXCEPT ![len + 1] = s] /\ len' = len + 1 /\ pub' = Moved
      /\ lock' = lock
  BY GrownType DEF Subscribe, ListInv, Entries
<1>2. CASE ~pub.shared
  <2>1. pub' = pub
    BY <1>1, <1>2 DEF Moved
  <2> QED
    BY <1>1, <1>2, <2>1 DEF CalmInv, Walking
<1>3. CASE len < Len(array) /\ pub.shared
  <2>1. Grown = array /\ pub' = pub
    BY <1>1, <1>3 DEF Grown, Moved
  <2>2. \A k \in 1..len : array'[k] = array[k]
    BY <1>1, <1>3, <2>1, ArrayExcept DEF Entries
  <2>3. Walking /\ pub.calm => pub.n \in Nat /\ pub.n <= len
    BY <1>3 DEF CalmInv, PubInv, Publisher
  <2>4. Walking /\ pub.calm => \A k \in 1..pub.n : array'[k] = pub.aim[k]
    BY <1>1, <1>3, <2>2, <2>3 DEF CalmInv
  <2> QED
    BY <1>1, <1>3, <2>1, <2>3, <2>4 DEF CalmInv, Walking
<1>4. CASE ~(len < Len(array)) /\ pub.shared
  <2>1. pub' = [pub EXCEPT !.shared = FALSE, !.old = array]
    BY <1>1, <1>4 DEF Moved
  <2>2. /\ pub'.pc = pub.pc /\ pub'.i = pub.i /\ pub'.n = pub.n /\ pub'.ch = pub.ch
        /\ pub'.aim = pub.aim /\ pub'.calm = pub.calm /\ ~pub'.shared /\ pub'.old = array
    BY <1>1, <2>1 DEF PubInv, Publisher
  <2> QED
    BY <1>1, <1>4, <2>2 DEF CalmInv, Walking
<1> QED
  BY <1>2, <1>3, <1>4

LEMMA UnsubscribesKeepsCalm ==
  ASSUME TypeInv, CalmInv, NEW s \in Socks, Unsubscribes(s)
  PROVE  CalmInv'
<1> PubInv
  BY DEF TypeInv
<1>1. CASE Unsubscribe(s)
  <2>1. ~pub'.calm
    BY <1>1 DEF Unsubscribe, PubInv, Publisher
  <2> QED
    BY <2>1 DEF CalmInv
<1>2. CASE UnsubscribeShift(s) \/ UnsubscribeClose(s)
  <2>1. lock.by # None /\ pub' = pub
    BY <1>2, EventsAssumption DEF UnsubscribeShift, UnsubscribeClose
  <2> QED
    BY <2>1 DEF CalmInv, Walking
<1> QED
  BY <1>1, <1>2 DEF Unsubscribes

LEMMA PublishKeepsCalm ==
  ASSUME TypeInv, CalmInv, HandleOrder \/ Publish
  PROVE  CalmInv'
<1> TableInv /\ ListInv /\ PubInv
  BY DEF TypeInv, TableInv
<1>0. PublishPanic \/ UNCHANGED table
  BY DEF HandleOrder, Publish, NotifyOrderComplete, PublishHeader, PublishSlot, PublishSend
<1>1. CASE HandleOrder \/ NotifyOrderComplete
  <2>1. pub'.pc \in {"notify", "header"}
    BY <1>1 DEF HandleOrder, NotifyOrderComplete, PubInv, Publisher
  <2> QED
    BY <2>1 DEF CalmInv, Walking
<1>2. CASE pub' = Idle
  BY <1>2 DEF CalmInv, Walking, Idle
<1>3. CASE PublishHeader /\ len # 0
  <2>1. pub' = [Idle EXCEPT !.pc = "slot", !.i = 1, !.n = len, !.shared = TRUE, !.aim = Slice]
    BY <1>3 DEF PublishHeader
  <2>2. pub' = [pc |-> "slot", i |-> 1, n |-> len, shared |-> TRUE, old |-> <<>>,
                ch |-> None, aim |-> Slice, calm |-> TRUE]
    BY <2>1 DEF Idle
  <2>3. pub'.pc = "slot" /\ pub'.n = len /\ pub'.shared /\ pub'.aim = Slice
    BY <2>2
  <2>4. /\ len \in Nat /\ array \in Seq(Entries) /\ len <= Len(array) /\ Len(array) \in Nat
        /\ lock.by = None /\ UNCHANGED <<array, len, lock>>
    BY <1>3 DEF PublishHeader, ListInv, Entries, table
  <2>5. \A k \in 1..len : Slice[k] = array[k]
    BY <2>4, SubSeqProperties DEF Slice
  <2> QED
    BY <2>3, <2>4, <2>5 DEF CalmInv
<1>4. CASE PublishSlot
  <2>1. PICK c : c = (IF pub.shared THEN array[pub.i] ELSE pub.old[pub.i])
    OBVIOUS
  <2>2. pub' = [pub EXCEPT !.pc = "send", !.ch = c] /\ UNCHANGED <<array, len, lock>>
    BY <1>4, <2>1 DEF PublishSlot, table
  <2>3. /\ pub'.pc = "send" /\ pub'.ch = c /\ pub'.i = pub.i /\ pub'.n = pub.n
        /\ pub'.shared = pub.shared /\ pub'.old = pub.old /\ pub'.aim = pub.aim
        /\ pub'.calm = pub.calm
    BY <2>2 DEF PubInv, Publisher
  <2>4. Walking /\ pub.i \in 1..pub.n
    BY <1>4 DEF PublishSlot, PubInv, Walking, HeaderOK
  <2>5. pub.calm => c = pub.aim[pub.i]
    BY <2>1, <2>4 DEF CalmInv
  <2> QED
    BY <2>2, <2>3, <2>4, <2>5 DEF CalmInv
<1>5. CASE PublishSend /\ pub' # Idle
  <2>1. pub' = [pub EXCEPT !.pc = "slot", !.i = pub.i + 1] /\ UNCHANGED <<array, len, lock>>
    BY <1>5 DEF PublishSend, PublishNext, table
  <2>2. /\ pub'.pc = "slot" /\ pub'.n = pub.n /\ pub'.shared = pub.shared /\ pub'.old = pub.old
        /\ pub'.aim = pub.aim /\ pub'.calm = pub.calm
    BY <2>1 DEF PubInv, Publisher
  <2>3. Walking
    BY <1>5 DEF PublishSend, Walking
  <2> QED
    BY <2>1, <2>2, <2>3 DEF CalmInv
<1> QED
  BY <1>1, <1>2, <1>3, <1>4, <1>5 DEF Publish, PublishHeader, PublishPanic

(* A publication during which nobody unsubscribes serves the channels that *)
(* were subscribed when it began, each in its turn, however many subscribe *)
(* meanwhile and whatever array they move the table to.                    *)
THEOREM CalmServesAll == Spec => []CalmPublication
<1>1. Init => CalmInv
  BY DEF Init, CalmInv, Walking, Idle
<1>2. TypeInv /\ CalmInv /\ [Next]_vars => CalmInv'
  <2> SUFFICES ASSUME TypeInv, CalmInv, [Next]_vars PROVE CalmInv'
    OBVIOUS
  <2>1. ASSUME NEW s \in Socks, OpenHidden(s) \/ Leave(s) \/ ReadVisibility(s) \/ ReadFails(s) \/ Write(s)
        PROVE  UNCHANGED table /\ UNCHANGED pub
    BY <2>1 DEF OpenHidden, Leave, ReadVisibility, ReadFails, Write, WriteEvent, WriteFails
  <2>2. ASSUME UNCHANGED table, UNCHANGED pub PROVE CalmInv'
    BY <2>2 DEF CalmInv, Walking, table
  <2>3. CASE UNCHANGED vars
    BY <2>2, <2>3 DEF vars, table
  <2> QED
    BY <2>1, <2>2, <2>3, SubscribeKeepsCalm, UnsubscribesKeepsCalm, PublishKeepsCalm DEF Next
<1>3. CalmInv => CalmPublication
  BY DEF CalmInv, CalmPublication, Walking
<1> QED
  BY <1>1, <1>2, <1>3, TypeInit, TypeNext, PTL DEF Spec

=============================================================================
