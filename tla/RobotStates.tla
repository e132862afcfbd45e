---------------------------- MODULE RobotStates ----------------------------
(***************************************************************************)
(* What the processes know about a robot.  The robot tells its state and   *)
(* the broker whether it is connected; every process keeps both in a cache *)
(* (Vmc, internal/state), the sponge also writes them to the table state   *)
(* (cmd/venderctl/sponge, sql/schema.sql).  A process that does not know   *)
(* the state of a connected robot reads it from the table.  The web        *)
(* application shows the state in a bar, which follows the messages        *)
(* through a channel of its own (web-machine-status.go).                   *)
(*                                                                         *)
(* Robots do not meet: caches, rows and channels are kept by the robot's   *)
(* number, so that the module has one.  The bot's cache is used like that  *)
(* of the web application, which has the more users.                       *)
(***************************************************************************)
EXTENDS Integers, Sequences, FiniteSetsExt

CONSTANTS
  States,      \* of the robot
  Invalid,     \* the state 0: none told
  Capacity,    \* of the bar's channel: 4
  MaxSent,     \* messages of the robot
  FaultKinds, MaxFaults

\* a message is lost or delivered twice, a connection to the broker is lost,
\* a process is restarted, a statement fails
AllFaults == {"lost", "dup", "broker", "restart", "db"}

ASSUME StatesAssumption ==
  /\ Invalid \notin States
  /\ Capacity \in Nat \ {0} /\ MaxSent \in Nat /\ MaxFaults \in Nat
  /\ FaultKinds \subseteq AllFaults

VARIABLES
  robot,     \* what it has said last
  sent,      \* how many messages about its state and its connection there are
  net,       \* messages on their way to each process
  row,       \* of the robot in the table state
  cache,     \* Vmc of the web application
  reading,   \* its listener has a message in the cache but not yet on the bus
  bar,       \* a page with the bar
  faults,
  (* for properties only *)
  got,       \* the last message of each kind that a process has handled
  missed,    \* the bar's channel was full
  thrown     \* the page has replaced the robot's entry of the cache

vars == <<robot, sent, net, row, cache, reading, bar, faults, got, missed, thrown>>

Procs == {"web", "sponge"}
Kinds == {"state", "connect", "order"}

\* a message about an order says nothing of the state: st is Invalid
Message == [kind : Kinds, nr : 0..MaxSent, st : States \cup {Invalid}, on : BOOLEAN]

Event == [on : BOOLEAN, st : States \cup {Invalid}]
Unknown == [on |-> FALSE, st |-> Invalid]

\* known: Vmc has an entry
Blank == [known |-> TRUE, on |-> FALSE, st |-> Invalid]
Empty == [known |-> FALSE, on |-> FALSE, st |-> Invalid]

Fault(kind) == kind \in FaultKinds /\ faults < MaxFaults /\ faults' = faults + 1

-----------------------------------------------------------------------------
(* The robot and the broker *)

Send(m) == net' = [p \in Procs |-> net[p] \cup {m}]

\* bound: the robot sends MaxSent messages
Count(kind) ==
  /\ sent["state"] + sent["connect"] + sent["order"] < MaxSent
  /\ sent' = [sent EXCEPT ![kind] = @ + 1]

TellState(s) ==
  /\ robot.on /\ Count("state")
  /\ robot' = [robot EXCEPT !.st = s]
  /\ Send([kind |-> "state", nr |-> sent["state"] + 1, st |-> s, on |-> TRUE])
  /\ UNCHANGED <<row, cache, reading, bar, faults, got, missed, thrown>>

TellOrder ==
  /\ robot.on /\ Count("order")
  /\ Send([kind |-> "order", nr |-> sent["order"] + 1, st |-> Invalid, on |-> TRUE])
  /\ UNCHANGED <<robot, row, cache, reading, bar, faults, got, missed, thrown>>

\* the last message about the connection, which the broker keeps
Retained == [kind |-> "connect", nr |-> sent["connect"], st |-> Invalid, on |-> robot.on]

Connect(on) ==
  /\ robot.on # on /\ Count("connect")
  /\ robot' = [robot EXCEPT !.on = on]
  /\ Send([kind |-> "connect", nr |-> sent["connect"] + 1, st |-> Invalid, on |-> on])
  /\ UNCHANGED <<row, cache, reading, bar, faults, got, missed, thrown>>

Lose(p, m) ==
  /\ m \in net[p]
  /\ net' = [net EXCEPT ![p] = @ \ {m}]
  /\ Fault("lost")
  /\ UNCHANGED <<robot, sent, row, cache, reading, bar, got, missed, thrown>>

\* onConnectHandler subscribes anew
Subscribed(p) == net' = [net EXCEPT ![p] = IF sent["connect"] = 0 THEN {} ELSE {Retained}]

Reconnect(p) ==
  /\ Subscribed(p) /\ Fault("broker")
  /\ UNCHANGED <<robot, sent, row, cache, reading, bar, got, missed, thrown>>

\* handlers run at the same time, so that messages may overtake each other
Receive(p, m) ==
  /\ m \in net[p]
  /\ \/ net' = [net EXCEPT ![p] = @ \ {m}] /\ UNCHANGED faults
     \/ UNCHANGED net /\ Fault("dup")
  /\ got' = [got EXCEPT ![p] = [@ EXCEPT ![m.kind] = m.nr]]

-----------------------------------------------------------------------------
(* sponge *)

\* mutant: a reconnection sets the state like the first connection
ConnectUpdate_Resets(on) == [exists |-> TRUE, st |-> Invalid, on |-> on]

\* connect_update: INSERT with state 0, ON CONFLICT only the connection
ConnectUpdate(on) == IF row.exists THEN [row EXCEPT !.on = on]
                     ELSE [exists |-> TRUE, st |-> Invalid, on |-> on]

\* state_update: INSERT, ON CONFLICT only the state
StateUpdate(s) == IF row.exists THEN [row EXCEPT !.st = s]
                  ELSE [exists |-> TRUE, st |-> s, on |-> FALSE]

PacketFromRobo(m) ==
  /\ \/ /\ Receive("sponge", m)
        /\ row' = CASE m.kind = "connect" -> ConnectUpdate(m.on)
                    [] m.kind = "state" -> StateUpdate(m.st)
                    [] OTHER -> row
     \/ /\ m \in net["sponge"] /\ m.kind # "order"
        /\ net' = [net EXCEPT !["sponge"] = @ \ {m}]
        /\ Fault("db") /\ UNCHANGED <<row, got>>
  /\ UNCHANGED <<robot, sent, cache, reading, bar, missed, thrown>>

RestartSponge ==
  /\ Subscribed("sponge") /\ Fault("restart")
  /\ UNCHANGED <<robot, sent, row, cache, reading, bar, got, missed, thrown>>

-----------------------------------------------------------------------------
(* web: ListenMQTT *)

\* WHERE connected = true
ReadRoboStateFromDB == IF row.exists /\ row.on THEN row.st ELSE Invalid

GetRoboState ==
  IF ~cache.known \/ ~cache.on THEN Invalid
  ELSE IF cache.st = Invalid THEN ReadRoboStateFromDB
  ELSE cache.st

ParseFromRobo(m) ==
  /\ ~reading /\ reading' = TRUE
  /\ Receive("web", m)
  /\ cache' = IF m.kind = "connect" THEN [cache EXCEPT !.known = TRUE, !.on = m.on]
              ELSE [cache EXCEPT !.known = TRUE, !.st = m.st]
  /\ thrown' = (thrown /\ m.kind # "connect")
  /\ UNCHANGED <<robot, sent, row, bar, missed>>

\* mutant: a page gets events only when it has shown the first state
Listening_Later == bar.pc = "open"

\* Subscribe comes before the first state is read
Listening == bar.pc # "closed"

\* mutant: one event too many
Full_OffByOne == Len(bar.q) > Capacity

Full == Len(bar.q) = Capacity

\* MachineStatus.Publish: a full channel drops the event.  A SELECT that
\* fails reads the state 0
Publish ==
  /\ reading /\ reading' = FALSE
  /\ \/ /\ ~Listening
        /\ UNCHANGED <<bar, missed, faults>>
     \/ /\ Listening /\ ~Full
        /\ missed' = FALSE
        /\ \/ /\ bar' = [bar EXCEPT !.q = Append(@, [on |-> cache.on, st |-> GetRoboState])]
              /\ UNCHANGED faults
           \/ /\ cache.on /\ cache.st = Invalid /\ Fault("db")
              /\ bar' = [bar EXCEPT !.q = Append(@, [on |-> TRUE, st |-> Invalid])]
     \/ /\ Listening /\ Full
        /\ missed' = TRUE
        /\ UNCHANGED <<bar, faults>>
  /\ UNCHANGED <<robot, sent, net, row, cache, got, thrown>>

(* web: MachineStatusWS *)

Subscribe ==
  /\ bar.pc = "closed"
  /\ bar' = [bar EXCEPT !.pc = "subscribed"]
  /\ missed' = FALSE
  /\ UNCHANGED <<robot, sent, net, row, cache, reading, faults, got, thrown>>

\* RobotConnected
ReadConnect ==
  /\ bar.pc = "subscribed"
  /\ bar' = [bar EXCEPT !.pc = IF cache.known THEN "half" ELSE "unknown", !.shown.on = cache.on]
  /\ UNCHANGED <<robot, sent, net, row, cache, reading, faults, got, missed, thrown>>

\* the entry that was not there may be there now, and is replaced
MakeEntry ==
  /\ bar.pc = "unknown"
  /\ bar' = [bar EXCEPT !.pc = "half", !.shown.on = FALSE]
  /\ cache' = Blank
  /\ thrown' = (thrown \/ cache.on)
  /\ UNCHANGED <<robot, sent, net, row, reading, faults, got, missed>>

ReadState ==
  /\ bar.pc = "half"
  /\ \/ bar' = [bar EXCEPT !.pc = "open", !.shown.st = GetRoboState] /\ UNCHANGED faults
     \/ /\ cache.on /\ cache.st = Invalid /\ Fault("db")
        /\ bar' = [bar EXCEPT !.pc = "open", !.shown.st = Invalid]
  /\ UNCHANGED <<robot, sent, net, row, cache, reading, got, missed, thrown>>

Show ==
  /\ bar.pc = "open" /\ bar.q # <<>>
  /\ bar' = [bar EXCEPT !.shown = Head(bar.q), !.q = Tail(@)]
  /\ UNCHANGED <<robot, sent, net, row, cache, reading, faults, got, missed, thrown>>

Closed == [pc |-> "closed", q |-> <<>>, shown |-> Unknown]

Leave ==
  /\ bar.pc = "open"
  /\ bar' = Closed
  /\ UNCHANGED <<robot, sent, net, row, cache, reading, faults, got, missed, thrown>>

RestartWeb ==
  /\ Subscribed("web") /\ Fault("restart")
  /\ cache' = Empty /\ reading' = FALSE /\ bar' = Closed /\ missed' = FALSE /\ thrown' = FALSE
  /\ got' = [got EXCEPT !["web"] = [k \in Kinds |-> 0]]
  /\ UNCHANGED <<robot, sent, row>>

-----------------------------------------------------------------------------
Init ==
  /\ robot = Unknown
  /\ sent = [k \in Kinds |-> 0]
  /\ net = [p \in Procs |-> {}]
  /\ row = [exists |-> FALSE, st |-> Invalid, on |-> FALSE]
  /\ cache = Empty /\ reading = FALSE /\ bar = Closed
  /\ faults = 0
  /\ got = [p \in Procs |-> [k \in Kinds |-> 0]]
  /\ missed = FALSE /\ thrown = FALSE

Next ==
  \/ \E s \in States : TellState(s)
  \/ TellOrder
  \/ \E on \in BOOLEAN : Connect(on)
  \/ \E p \in Procs : Reconnect(p) \/ \E m \in net[p] : Lose(p, m)
  \/ \E m \in net["sponge"] : PacketFromRobo(m)
  \/ RestartSponge
  \/ \E m \in net["web"] : ParseFromRobo(m)
  \/ Publish \/ Subscribe \/ ReadConnect \/ MakeEntry \/ ReadState \/ Show \/ Leave
  \/ RestartWeb

Spec == Init /\ [][Next]_vars

-----------------------------------------------------------------------------
(* Properties *)

\* Every variable has its type.
TypeOK ==
  /\ robot \in Event /\ sent \in [Kinds -> 0..MaxSent]
  /\ net \in [Procs -> SUBSET Message]
  /\ row \in [exists : BOOLEAN, st : States \cup {Invalid}, on : BOOLEAN]
  /\ cache \in [known : BOOLEAN, on : BOOLEAN, st : States \cup {Invalid}]
  /\ reading \in BOOLEAN
  /\ bar \in [pc : {"closed", "subscribed", "unknown", "half", "open"}, q : Seq(Event), shown : Event]
  /\ Len(bar.q) <= Capacity
  /\ faults \in 0..MaxFaults
  /\ got \in [Procs -> [Kinds -> 0..MaxSent]]
  /\ missed \in BOOLEAN /\ thrown \in BOOLEAN

\* the last message of this kind was handled, and no older one after it
Current(p, kind) == got[p][kind] = sent[kind]

\* Orders are accepted by what the robot has said last: the web application
\* takes it to be in the state it told last, and off when it is not
\* connected, as soon as the last messages about its state and connection
\* are handled, whatever was lost, overtaken, repeated or forgotten in a
\* restart before (GetRoboState).  What it has not heard itself since its
\* start, or since a message about an order, the sponge must have heard.
\* The exception is a page that replaces the entry of a robot which has
\* connected meanwhile (RobotConnected).
ViewAgrees ==
  /\ Current("web", "connect") /\ ~thrown
  /\ IF cache.st = Invalid THEN Current("sponge", "state") /\ Current("sponge", "connect")
                           ELSE Current("web", "state")
  => GetRoboState = IF robot.on THEN robot.st ELSE Invalid

\* The bar of a page that has shown all its events shows what an order would
\* be accepted by, unless its channel was full or the state was not in the
\* cache but read from the table.
BarShowsTheView ==
  bar.pc = "open" /\ bar.q = <<>> /\ ~reading /\ ~missed /\ cache.st # Invalid
  => bar.shown = [on |-> cache.on, st |-> GetRoboState]

=============================================================================
