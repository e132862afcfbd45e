----------------------------- MODULE WebEvents -----------------------------
(***************************************************************************)
(* How the web application tells a client about an order (cmd/venderctl/   *)
(* web).  Every open page holds a websocket: OrderWS subscribes a channel  *)
(* to the EventBus, a reader goroutine records whether the window is       *)
(* hidden, and a writer passes the events on.  The goroutine of ListenMQTT *)
(* publishes the events of the robots; when an order is complete and the   *)
(* window hidden it also sends a Web Push.                                 *)
(*                                                                         *)
(* The bus protects its table with a lock, but Publish walks through the   *)
(* slice after it has let go of the lock, while Unsubscribe shifts the     *)
(* same memory.  The table of one client is modelled, as Go keeps it: an   *)
(* array of some capacity and the length of the slice.  MachineStatusBus   *)
(* is the same code.                                                       *)
(***************************************************************************)
EXTENDS Integers, Sequences

CONSTANTS
  Socks,      \* websockets of the client, each used once
  None,       \* no websocket
  Buffer,     \* capacity of a channel
  Rooms,      \* capacities of the array that earlier websockets left behind
  MaxEvents   \* events of the robots

ASSUME EventsAssumption ==
  /\ None \notin Socks
  /\ Buffer \in Nat \ {0}
  /\ Rooms \subseteq Nat
  /\ MaxEvents \in Nat

VARIABLES
  array,    \* the array behind channels[key], all of its capacity
  len,      \* the length of the slice
  lock,     \* the websocket whose Unsubscribe holds the lock, and its slot
  chan,     \* the channel of each websocket
  buf,      \* what is in it
  writer,   \* OrderWS
  reader,   \* its goroutine
  lost,     \* websockets that the client has left
  window,   \* windowHidden
  pub,      \* ListenMQTT in Publish: a copy of the slice's header
  event,    \* the last event
  pushed    \* events that a Web Push told of

vars == <<array, len, lock, chan, buf, writer, reader, lost, window, pub, event, pushed>>
table == <<array, len, lock, chan>>
sockets == <<writer, reader, lost, window>>

\* shared: the header still points to the array of the table, otherwise to
\* old; aim is what the slice held and calm whether nobody left since, for
\* the properties only
Publisher ==
  [pc : {"idle", "notify", "header", "slot", "send"}, i : Nat, n : Nat,
   shared : BOOLEAN, old : Seq(Socks \cup {None}), ch : Socks \cup {None},
   aim : Seq(Socks \cup {None}), calm : BOOLEAN]

Idle == [pc |-> "idle", i |-> 0, n |-> 0, shared |-> FALSE, old |-> <<>>,
         ch |-> None, aim |-> <<>>, calm |-> TRUE]

Slice == SubSeq(array, 1, len)

-----------------------------------------------------------------------------
(* EventBus: Subscribe and Unsubscribe *)

\* append doubles a full array and copies it
Grown == IF len < Len(array) THEN array
         ELSE [i \in 1..(IF len = 0 THEN 1 ELSE 2 * len) |-> IF i <= len THEN array[i] ELSE None]

\* a publisher that has the header of a full array stays with it
Moved == IF len < Len(array) \/ ~pub.shared THEN pub
         ELSE [pub EXCEPT !.shared = FALSE, !.old = array]

\* mutant: the newest channel comes first
Subscribe_First(s) ==
  /\ writer[s] = "new" /\ lock.by = None
  /\ array' = [Grown EXCEPT ![1] = s, ![len + 1] = IF len = 0 THEN s ELSE Grown[1]]
  /\ len' = len + 1
  /\ pub' = pub
  /\ chan' = [chan EXCEPT ![s] = "open"]
  /\ writer' = [writer EXCEPT ![s] = "subscribed"]
  /\ UNCHANGED <<lock, buf, reader, lost, window, event, pushed>>

Subscribe(s) ==
  /\ writer[s] = "new" /\ lock.by = None
  /\ array' = [Grown EXCEPT ![len + 1] = s]
  /\ len' = len + 1
  /\ pub' = Moved
  /\ chan' = [chan EXCEPT ![s] = "open"]
  /\ writer' = [writer EXCEPT ![s] = "subscribed"]
  /\ UNCHANGED <<lock, buf, reader, lost, window, event, pushed>>

\* finds the channel; nobody else writes the array while it has the lock
Unsubscribe(s) ==
  /\ writer[s] = "leaving" /\ lock.by = None
  /\ \E i \in 1..len : array[i] = s /\ lock' = [by |-> s, at |-> i]
  /\ pub' = [pub EXCEPT !.calm = FALSE]
  /\ UNCHANGED <<array, len, chan, buf, sockets, event, pushed>>

\* the rest moves down, one slot after the other
UnsubscribeShift(s) ==
  /\ lock.by = s /\ lock.at < len
  /\ array' = [array EXCEPT ![lock.at] = array[lock.at + 1]]
  /\ lock' = [lock EXCEPT !.at = @ + 1]
  /\ UNCHANGED <<len, chan, buf, sockets, pub, event, pushed>>

\* mutant: the shorter slice is not stored
UnsubscribeClose_KeepsLength(s) ==
  /\ lock.by = s /\ lock.at = len
  /\ chan' = [chan EXCEPT ![s] = "closed"]
  /\ lock' = [by |-> None, at |-> 0]
  /\ writer' = [writer EXCEPT ![s] = "gone"]
  /\ UNCHANGED <<array, len, buf, reader, lost, window, pub, event, pushed>>

\* the slot behind the last one keeps its channel
UnsubscribeClose(s) ==
  /\ lock.by = s /\ lock.at = len
  /\ len' = len - 1
  /\ chan' = [chan EXCEPT ![s] = "closed"]
  /\ lock' = [by |-> None, at |-> 0]
  /\ writer' = [writer EXCEPT ![s] = "gone"]
  /\ UNCHANGED <<array, buf, reader, lost, window, pub, event, pushed>>

-----------------------------------------------------------------------------
(* OrderWS *)

\* a window counts as hidden until it says otherwise
OpenHidden(s) ==
  /\ writer[s] = "subscribed"
  /\ window' = "hidden"
  /\ writer' = [writer EXCEPT ![s] = "open"]
  /\ reader' = [reader EXCEPT ![s] = "reading"]
  /\ UNCHANGED <<table, buf, lost, pub, event, pushed>>

ReadVisibility(s) ==
  /\ reader[s] = "reading"
  /\ window' \in {"hidden", "visible"}
  /\ UNCHANGED <<table, buf, writer, reader, lost, pub, event, pushed>>

\* mutant: the reader ends without a word
ReadFails_Silent(s) ==
  /\ reader[s] = "reading"
  /\ reader' = [reader EXCEPT ![s] = "ended"]
  /\ UNCHANGED <<table, buf, writer, lost, window, pub, event, pushed>>

\* the connection is gone, or what the page says cannot be read
ReadFails(s) ==
  /\ reader[s] = "reading"
  /\ window' = "hidden"
  /\ reader' = [reader EXCEPT ![s] = "ended"]
  /\ UNCHANGED <<table, buf, writer, lost, pub, event, pushed>>

\* a lost connection takes what is written for a while
WriteEvent(s) ==
  /\ writer[s] = "open" /\ buf[s] # <<>>
  /\ buf' = [buf EXCEPT ![s] = Tail(@)]
  /\ UNCHANGED <<table, sockets, pub, event, pushed>>

\* mutant: no ping every 20 seconds
WriteFails_NoPing(s) ==
  /\ writer[s] = "open" /\ s \in lost /\ buf[s] # <<>>
  /\ writer' = [writer EXCEPT ![s] = "leaving"]
  /\ UNCHANGED <<table, buf, reader, lost, window, pub, event, pushed>>

\* a ping or an event cannot be written; the deferred calls follow
WriteFails(s) ==
  /\ writer[s] = "open" /\ s \in lost
  /\ writer' = [writer EXCEPT ![s] = "leaving"]
  /\ UNCHANGED <<table, buf, reader, lost, window, pub, event, pushed>>

\* the client closes the page, or its network is gone
Leave(s) ==
  /\ writer[s] # "new" /\ s \notin lost
  /\ lost' = lost \cup {s}
  /\ UNCHANGED <<table, buf, writer, reader, window, pub, event, pushed>>

-----------------------------------------------------------------------------
(* ListenMQTT: handleOrder, notifyOrderComplete and Publish *)

HandleOrder ==
  /\ pub.pc = "idle" /\ event < MaxEvents
  /\ event' = event + 1
  /\ \E pc \in {"notify", "header"} : pub' = [pub EXCEPT !.pc = pc]
  /\ UNCHANGED <<table, buf, sockets, pushed>>

NotifyOrderComplete ==
  /\ pub.pc = "notify"
  /\ pushed' = IF window = "visible" THEN pushed ELSE pushed \cup {event}
  /\ pub' = [pub EXCEPT !.pc = "header"]
  /\ UNCHANGED <<table, buf, sockets, event>>

\* mutant: the header is taken with the capacity for a length
PublishHeader_Capacity ==
  /\ pub.pc = "header" /\ lock.by = None
  /\ pub' = IF len = 0 THEN Idle
            ELSE [Idle EXCEPT !.pc = "slot", !.i = 1, !.n = Len(array), !.shared = TRUE, !.aim = Slice]
  /\ UNCHANGED <<table, buf, sockets, event, pushed>>

PublishHeader ==
  /\ pub.pc = "header" /\ lock.by = None
  /\ pub' = IF len = 0 THEN Idle
            ELSE [Idle EXCEPT !.pc = "slot", !.i = 1, !.n = len, !.shared = TRUE, !.aim = Slice]
  /\ UNCHANGED <<table, buf, sockets, event, pushed>>

PublishSlot ==
  /\ pub.pc = "slot"
  /\ pub' = [pub EXCEPT !.pc = "send",
                        !.ch = IF pub.shared THEN array[pub.i] ELSE pub.old[pub.i]]
  /\ UNCHANGED <<table, buf, sockets, event, pushed>>

PublishNext == IF pub.i = pub.n THEN Idle ELSE [pub EXCEPT !.pc = "slot", !.i = @ + 1]

\* a full channel does without the event
PublishSend ==
  /\ pub.pc = "send" /\ chan[pub.ch] = "open"
  /\ buf' = [buf EXCEPT ![pub.ch] = IF Len(@) < Buffer THEN Append(@, event) ELSE @]
  /\ pub' = PublishNext
  /\ UNCHANGED <<table, sockets, event, pushed>>

\* a send on a closed channel: the process ends, and a new one starts
PublishPanic ==
  /\ pub.pc = "send" /\ chan[pub.ch] = "closed"
  /\ array' = <<>> /\ len' = 0 /\ lock' = [by |-> None, at |-> 0]
  /\ chan' = [s \in Socks |-> IF chan[s] = "none" THEN "none" ELSE "closed"]
  /\ buf' = [s \in Socks |-> <<>>]
  /\ writer' = [s \in Socks |-> IF writer[s] = "new" THEN "new" ELSE "gone"]
  /\ reader' = [s \in Socks |-> IF writer[s] = "new" THEN "new" ELSE "ended"]
  /\ lost' = {s \in Socks : writer[s] # "new"}
  /\ window' = "unset"
  /\ pub' = Idle
  /\ UNCHANGED <<event, pushed>>

-----------------------------------------------------------------------------
Init ==
  /\ \E n \in Rooms : array = [i \in 1..n |-> None]
  /\ len = 0
  /\ lock = [by |-> None, at |-> 0]
  /\ chan = [s \in Socks |-> "none"]
  /\ buf = [s \in Socks |-> <<>>]
  /\ writer = [s \in Socks |-> "new"]
  /\ reader = [s \in Socks |-> "new"]
  /\ lost = {}
  /\ window = "unset"
  /\ pub = Idle
  /\ event = 0
  /\ pushed = {}

Write(s) == WriteEvent(s) \/ WriteFails(s)
Unsubscribes(s) == Unsubscribe(s) \/ UnsubscribeShift(s) \/ UnsubscribeClose(s)
Publish == \/ NotifyOrderComplete
           \/ PublishHeader \/ PublishSlot \/ PublishSend \/ PublishPanic

Next ==
  \/ \E s \in Socks : \/ Subscribe(s) \/ OpenHidden(s) \/ Leave(s)
                      \/ ReadVisibility(s) \/ ReadFails(s)
                      \/ Write(s) \/ Unsubscribes(s)
  \/ HandleOrder \/ Publish

Spec == Init /\ [][Next]_vars

\* goroutines run, a ping comes every 20 seconds and fails on a connection
\* that is gone, and a lock that is free again and again is obtained
Fairness ==
  /\ \A s \in Socks : /\ WF_vars(OpenHidden(s)) /\ WF_vars(s \in lost /\ ReadFails(s))
                      /\ WF_vars(WriteFails(s))
                      /\ SF_vars(Unsubscribe(s))
                      /\ WF_vars(UnsubscribeShift(s) \/ UnsubscribeClose(s))
  /\ WF_vars(Publish)

FairSpec == Spec /\ Fairness

-----------------------------------------------------------------------------
(* Every variable keeps its type; in particular the publisher never meets  *)
(* an empty slot.                                                          *)
TypeOK ==
  /\ array \in Seq(Socks \cup {None})
  /\ len \in 0..Len(array)
  /\ lock \in [by : Socks \cup {None}, at : 0..len]
  /\ chan \in [Socks -> {"none", "open", "closed"}]
  /\ buf \in [Socks -> Seq(Nat)]
  /\ writer \in [Socks -> {"new", "subscribed", "open", "leaving", "gone"}]
  /\ reader \in [Socks -> {"new", "reading", "ended"}]
  /\ lost \subseteq Socks
  /\ window \in {"unset", "hidden", "visible"}
  /\ pub \in Publisher
  /\ event \in 0..MaxEvents
  /\ pushed \subseteq 1..MaxEvents
  /\ pub.pc = "send" => pub.ch \in Socks

(* While nobody holds the lock the table lists every open channel exactly  *)
(* once and no closed one, whatever was shifted and appended before.       *)
TableListsTheOpen ==
  lock.by = None =>
    /\ \A s \in Socks : chan[s] = "open" <=> \E i \in 1..len : array[i] = s
    /\ \A i, j \in 1..len : array[i] = array[j] => i = j

(* A publication that nobody leaves while it lasts goes to the channels    *)
(* that were subscribed when it began, each in its turn, although others   *)
(* subscribe meanwhile, in the same array or in a larger one.              *)
CalmPublication == pub.pc = "send" /\ pub.calm => pub.ch = pub.aim[pub.i]

(* Once no websocket has a reader any more, because it was left or could   *)
(* not be understood, the window does not count as visible: the next       *)
(* complete order is pushed.                                               *)
NobodyLooks == (\A s \in Socks : reader[s] # "reading") => window # "visible"

(* The channel of a websocket that the client has left is unsubscribed in  *)
(* the end, even if no event is ever written to it.                        *)
LostIsForgotten == \A s \in Socks : s \in lost ~> chan[s] # "open"

=============================================================================
