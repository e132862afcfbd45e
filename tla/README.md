# venderctl in TLA+

venderctl is the server side of a fleet of coffee machines ("robots"): it
receives what they report over MQTT, sells drinks to people who pay with a QR
code or from a balance, and prints the fiscal documents the law asks for. One
binary holds several commands (`sponge`, `tax`, `telegram`, `web`, ...), each
run as a process of its own. They share nothing but a PostgreSQL database and
the MQTT broker, use hardly any transaction or lock, and follow the same
pattern everywhere: read a row, talk to somebody, write a row. What can go wrong
goes wrong between those steps, which is what the modules here are about. The
database client sends a statement again after a network error or a timeout
(`MaxRetries = 1`, global.go:72), so that a statement that fails may have been
applied, and one that succeeds may have been applied twice.

Paths below are relative to the repository; "handler" means the Go function
named in brackets.

## 1. Inventory

| Component | State | Operations | Talks to | Hard part |
|---|---|---|---|---|
| Cashless QR payments, `cmd/venderctl/tax/cashless_tinkoff` | table `cashless`; per goroutine a copy `qrOrder`; the retries of a cancel | createQR, poller, readerMqtt, notification handler, cancelOrder and its retry | bank (calls and notifications), robots | four kinds of goroutine write one row without locks; calls fail; notifications are late, doubled, reordered; restart forgets pollers |
| Tax jobs, `cmd/venderctl/tax`, `sql/schema.sql` | tables `trans`, `tax_job`; the shift of the KKT; per worker a copy `MTaxJob` | insert of a sale and its trigger, tax_job_take, taxProcess, the cashier's dance, FiscalCheck, Update | KKT, robots, a person who looks at `tax_job_help` | several workers, one KKT; lost answers; a crash in between; jobs that come back |
| Orders from a balance, `telegram`, `web`, `internal/state` | `users.balance`; pending bonuses | cook command, StartOrder, the robots' answers, charge, bonus, top-up | robots, clients, administrator | two processes see every message; nothing is reserved; messages are lost (QoS 0), reordered or come twice; so may an UPDATE |
| Robot states, `internal/state`, `web-machine-status.go`, `connect_update`, `state_update` | cache `Vmc` per process, table `state`, channel of a status bar | ParseFromRobo, GetRoboState, RobotConnected, MachineStatusWS | robots, database | three copies of one state; messages overtake each other; one of them resets the cache |
| Ingest, `cmd/venderctl/sponge` | tables `trans`, `state`, `error`, `inventory` | packetFromRobo, onState, onConnect, onTelemetry | robots | redelivery, old messages after new ones |
| Web events, `web-events.go`, `web-machine-status.go`, `web-handler_order.go`, `web-handler_push.go` | subscriber lists, channels with a bound, visibility of the window | Subscribe, Publish, Unsubscribe, OrderWS, MachineStatusWS, push | browsers | a slice read after the unlock; dropped events; two tabs of one user |
| Messages with the administrator, `web-handler_admin.go`, `web-handler_user.go` | table `web_admin_messages` | send, answer, read, top-up by message | clients, administrator | side effect before the write; stale acknowledgement |
| Web sessions, `web-handler_auth.go`, `web-middleware.go` | `web_auth_tokens`, `user_sessions` | HandleAuth, createSession, Logout, CheckAuth | browsers | count then insert; one-time token |
| Telegram bot, `cmd-telegram.go` | table `users`, `tg_chat`; forvardMsg; the offset and the channel of updates | top-up in two messages, registration, invitations, drinks that are made and their bonuses | Telegram, robots | state across messages; updates that come late, again or never; calls that fail half-way |
| Transport, `internal/tele` | channel of one packet | messageHandler, SendToRobo, subscriptions | broker | handlers run concurrently (`SetOrderMatters(false)`), QoS 0 |
| Secrets, `internal/tele/secrets.go` | password map, file | CachedReadFile, WriteFile, Verify | file system | temporary file left by a crash |
| Start and stop, `cmd/venderctl/main.go`, alive | count of tasks, state | Add, Done, Stop, Wait, exit after 5 s | signals | Add is refused after a stop, Done is not |
| Configuration, control, catalogue, browser code | - | sequential or read-only | - | - |

What makes them correct:

- QR payments: a robot is told to make only what the bank was paid for; a paid
  order is made or the money goes back; the row agrees with the bank in the
  end; a decided order is not revived.
- Tax jobs: one owner per job; a document per sale, at most once, and none
  closed without; every job is decided.
- Balance orders: each drink is charged once, to its buyer, and again only when
  a message or a statement came again; the debt stays within the credit; no
  balance change is lost.
- Web events: every open socket gets each event once; a lost one is forgotten;
  a window that nobody looks at leads to a push.
- Messages: what counts as read was shown, every message and answer is shown in
  the end, a top-up is told.
- Sessions: a link opens one session, log-ins that do not overlap stay within the
  limit, and who last asked for pushes is silenced by nothing but a request of
  his own about an older subscription.
- Telegram bot: a top-up goes to the client and by the amount the administrator
  meant, in one call; a client is registered once; no update is forgotten; a stop
  waits for the charge of a drink.
- Robot states: who decides on an order believes what the robot said last, and
  the bar shows what is believed.
- The others: section 6.

`PROJECT.json` lists the hazards one by one, with their lines.

## 2. Plan

Order of importance: money first, then the law, then convenience.

1. `QrPay` (+ `MCQrPay`, `QrPayProofs`) - done.
2. `TaxLedger` (abstract), `TaxQueue` implementing it (+ `TaxQueueProofs`) -
   done.
3. `RemoteOrders` (+ `MCRemoteOrders`, `RemoteOrdersProofs`) - done.
4. `WebEvents` (+ `MCWebEvents`, `WebEventsProofs`) - done.
5. `WebMessages` (+ `MCWebMessages`, `WebMessagesProofs`) - done.
6. `WebSessions` (+ `MCWebSessions`, `WebSessionsProofs`) - done.
7. `TelegramBot` (+ `MCTelegramBot`, `TelegramBotProofs`): the bot's loop and how
   a process stops - done.
8. `RobotStates` (+ `RobotStatesProofs`): the rows the sponge writes, the caches
   and the bar - done.
9. Secrets file; `ConfigInt` and the include rule as pure operators against
   their definitions. Least important: one process, at start, or one command.

Every invariant and every action property that a passing run checks is now a
theorem, and so is the refinement of TaxLedger; what section 5 leaves to TLC is
liveness.

Every module takes its sets as CONSTANTS with a named assumption, has one
action per SQL statement or call, and avoids RECURSIVE operators, so that the
modules TLC runs are the ones the proofs are about.

## 3. Modules and code

### QrPay

One row of `cashless` per order, in `row`: `os` (order_state), `bs`
(bank_order_state), `credited`. Goroutines are the orders themselves (createQR,
then manualyPaymentVerification), `Handlers` (the HTTP handler of
notifications), `Reader` (readerMqtt). `pc` says where each is, `cpy` holds its
`qrOrder` - the copy that goes stale, which is the point. A deferred
sendMessageMakeOrder runs after the UPDATE, as in Go. `retry` holds the second
attempt of a cancel.

- Each SELECT, UPDATE and bank call is one action; conditions that the code
  evaluates on its copy are evaluated on `cpy`.
- Bank statuses the code does not tell apart share a value: 3DS, reversed and
  refunding fall into the `default` of dbUpdateOrdreStatus, like `Open`.
- initPaySession's three attempts are one step that may fail.
- The bank (`Bank*`) and the robots (`Robot*`) are external: they do what the
  code can observe of them. A notification may be lost only by never being
  served; `dup` serves one twice.
- Faults: a failing bank call, SELECT or UPDATE, a doubled notification, a
  signal, a crash with restart. `MaxFaults` bounds how many.

### TaxLedger and TaxQueue

`TaxLedger` is the promise: a sale is opened, printed while the KKT has not given
the number of a document for it, and closed once the KKT has said that it printed
one, or when it is exempt. `prints` holds a sale's documents and what the KKT said
of each: its number, nothing of a number, or nothing at all. A closed sale stays
closed, unless it was closed by somebody who was told that it is not: it is
`doubted` until he has settled it one way or the other. `TaxQueue` has the table `job`, the queue `due` in the
order of the column scheduled, each worker's `pc` and `tj`, and the KKT:
`cycle`, `last`, `sent`, `prints`.

- PacketFromRobo is sponge's insert with its conflict key and the trigger that
  inserts the job, one transaction, one action.
- Take is tax_job_take (FOR UPDATE SKIP LOCKED). CheckOps to SendReceipt are the
  steps of processRu2019, one per KKT call or UPDATE.
- waitSendOFD is a constant false in the code, and so here.
- `schema.sql`'s trigger is modelled. The one in `db.sql` differs in that it
  also asks for a robot at work and for the methods 1 and 2.
- The job of a worker that was told that its UPDATE failed goes to help, from
  whatever state it is really in: a final job too, or one that was scheduled again
  and has been due since (Dismissed).
- Faults: `kkt` (call fails), `kktLost` (done, answer lost), `kktBare` (done, the
  answer lacks the number), `db` (an UPDATE fails), `dbLost` (it is done and
  reported as failed), `crash`, `day` (the shift expires).

### RemoteOrders

Two processes `tg` and `web` over one table of balances. An order goes through
new, checked, read, sent, making, made, over; `net[p]` holds the robots'
messages that process p has not handled, in no order, with the number of times
each came before (`copy`). What a process believes of a robot's state is the
subject of RobotStates; here it may let an order pass or not. `loop[p]` is what keeps the bot's loop or the web's listener busy
between two statements, `timers` are the bonuses that wait ten seconds.

- Whose order a message is about is told by the sign of OwnerType (`Mine`).
- Amounts fit 32 bits, top-ups are positive, the credit does not change and a
  client has the same id in both processes.
- `Patient` is an assumption on clients, not on the code: a client in this set
  waits until the drink was charged before ordering again.
- Withdraw subtracts no, one or two times: `balance = balance - ?` bears neither
  the failure nor the repetition of the statement.
- `again` counts the charges too many, for the properties only.
- Faults: a failing statement, one that is sent again after it was applied, a
  lost message, a message that comes twice, a process that ends.

### WebEvents

The list of one client's channels is a Go slice: `len` is its length and `array`
the memory behind it with all of its capacity. That is the point: `Publish`
copies the slice's header under the lock and walks through the memory after it
(PublishHeader, PublishSlot, PublishSend; `pub` is where it is, `pub.old` the
memory it stays with once the table has moved to a larger one), while
`Unsubscribe` finds its channel, shifts the rest down in place and closes the
channel (Unsubscribe, UnsubscribeShift, UnsubscribeClose, with `lock`).

- A websocket is OrderWS: `writer` passes the events in `buf` on and pings
  (WriteEvent, WriteFails), `reader` hears of the window (ReadVisibility,
  ReadFails, which a client that is gone makes happen and one that sends what is
  no JSON may); both share `window`, which is kept per client.
- HandleOrder and NotifyOrderComplete are the listener's: which events there
  are and which are pushed as well (`pushed`).
- Leave is the client who closes the page or loses the network (`lost`).
- A send to a closed channel is PublishPanic: the process ends and starts anew.
- MachineStatusBus is the same code with a channel of another size.

### WebMessages

`msgs` is the table web_admin_messages of one client; an answer is known by the
number of its request. `admin` is the request a page of the administrator waits
for, with its place between top-up, write and push; `list` is what that page
shows. `inbox`, `dialog` and `notice` are a device: what is on its way to it,
the answer and the message it shows. `net` holds its requests, in no order.

- AdminReplayAutoAction is the top-up that comes before the write.
- GetBalanceReply and GetBalanceMessage are the two queries of GetBalance, each
  with the newest row only.
- ShowAdminMessage sends the empty reply at once, as app.js does; the dialog of
  an answer stays until its acknowledgement was answered.
- The administrator's page refuses an empty answer, so that the branch of
  AdminReplyMessage for it is not reachable and left out.
- `seen` and `late` are for the properties only.
- Faults: a failing statement, a request or an answer that is lost.

### WebSessions

One client. `login` is HandleAuth with its four statements, `session` the table
user_sessions (a session has the name of the log-in that made it), `cookie` and
`endpoint` are a browser's session and push subscription, `posts` its requests
to subscribe and unsubscribe, before and after CheckAuth. `sender` goes through
the endpoints it has read; between the push service's "gone" and the UPDATE that
silences (EndpointGone) anything may happen.

- Subscriptions are made once: a push service gives each a name of its own.
- The administrator approves a session in the database (Grant).
- `asked` is what a browser last asked of the push with the subscription it has,
  when it asks and not when the server handles it. The requests of one browser may
  overtake each other, and PushUnsubscribe does not look at the subscription that
  the request names: `misled` marks a session that it has silenced for another
  one. `overlaps` counts the log-ins that were let in while another that was let
  in had counted and not inserted yet.
- `asked`, `misled`, `granted` and `overlaps` are for the properties only.

### TelegramBot

`updates` are what was written to the bot, known by their place; Telegram forgets
those up to `confirmed`, which it learns when the bot asks for later ones
(GetUpdates), and gives the rest (GotUpdates): the library's goroutine puts them
into the channel `tgch`. `work` is the handler that telegramLoop runs. A handler
is the sequence `ops` of calls it still has to make, fixed when the update is
taken (TakeUpdate, TakeOrder), and each call is one action: tgSend, the two logs,
the UPDATE of a balance, the INSERT into users, the invitation, the start of a
bonus, Alive.Done.

- Forward and AmountOf are the administrator's protocol: a number waits in
  `forvardMsg`, the next forwarded message takes it, or else the number in its
  own text; clearForwardMessage is deferred, so that it also runs on failure.
  Posts of the AdminBot's channel (TgChannelParser) name client and amount.
- An update older than a minute is answered as late; `aged` says which are.
  Nothing makes an update old but time, and nothing keeps it young.
- `alive` is the package alive: a state and a counter. Add is refused after a
  stop, Done is not. A call that counts itself (tgSend, LogUserOrder) therefore
  uncounts, after a stop, whichever handler is counted (Counted); when that
  happens from the goroutine of a bonus, which nobody counts, `thief` says so.
- A process ends in LoopReturns, WaitReturns, TimeIsUp (main's five seconds),
  Crash, DoneTooMany (Done panics) or DeleteInvite (an invitation that was not
  sent has no chat, and is deleted through a nil pointer). Restart is the service
  manager's. What lived in memory is gone, the updates that Telegram has not
  forgotten come again.
- The repository's dumps have no table users; its inserts name no conflict, so
  that `rows` counts what was inserted and has no key.
- `topups`, `heard`, `handled`, `lost`, `last` and `life` are for the properties.
- Faults: a signal, a crash, a failing SELECT or write, a top-up or INSERT that is
  sent again after it was applied, a text that could not be sent.

### RobotStates

One robot; caches, rows and channels are kept by the robot's number. It tells its
state and orders, the broker tells its connection. `net[p]` holds the messages a
process has not handled, in no order (SetOrderMatters(false)); on every
connection to the broker a process gets the retained message about the robot's
connection again, and only that (Reconnect). `row` is the robot's row in the
table `state`, written by connect_update and state_update, `cache` the entry of
`Vmc` in the web application, `bar` a page with MachineStatusWS.

- A message about an order carries the state 0 and so resets the cached state;
  GetRoboState then asks the table.
- ParseFromRobo and Publish are two steps of the listener, ReadConnect,
  MakeEntry and ReadState three of a page that opens: RobotConnected makes a
  missing entry without a lock, which may replace one the listener has made
  meanwhile (`thrown`).
- `got`, `missed` and `thrown` are for the properties only.
- `connected` is a column of table state in db.sql:546; schema.sql's table lacks
  it although its functions write it.
- Faults: a lost or repeated message, a lost connection to the broker, a restart,
  a failing statement.

## 4. Runs

| Run | Instance | Shows |
|---|---|---|
| `qr_race` | 1 order, 2 handlers, all notifications, no faults | KeptMoneyIsOnTheBooks, ReturnedIsOnRecord, DecidedStaysDecided under every interleaving |
| `qr_live` | 1 order, 1 handler, fair, 1 fault of any kind | TypeOK, OnlyPaidOrdersAreMade, CreditedIsPaid, PaidIsMadeOrReturned, NoOrderIsForgotten |
| `qr_credit` | 1 order, no faults | violation of RefundedMeansNoCredit |
| `tax_ledger` | 2 sales, 2 workers, fair, 2 faults of any kind, 1 rescheduling | TypeOK, OneOwner, ReceiptsAreFinal, EveryJobIsDecided; TaxQueue implements TaxLedger |
| `orders_balance` | 2 clients, one of them patient, 2 robots, 2 orders, 1 fault of any kind | TypeOK, PatientMinus, NeverOvercharged, EveryDrinkIsPaid |
| `orders_credit` | 1 client, 1 robot, 2 orders, no faults | violation of MinusWithinCredit |
| `web_bus` | 2 sockets, 2 events, a fresh table or one with an array left behind, fair | TypeOK, TableListsTheOpen, CalmPublication, NobodyLooks, LostIsForgotten |
| `web_messages` | 1 device, 1 page, 2 messages, 2 answers, fair, 1 fault | TypeOK, ReadWasShown, TopUpsAreTold, AnswersAreShown, MessagesAreShown |
| `web_empty` | the same, no faults | violation of EmptyReplyOnlyReads |
| `web_sessions` | 2 links, 2 log-ins, 2 browsers, 2 subscriptions, 2 pushes, 1 fault, limit 1 | TypeOK, OneSessionPerLink, WithinLimitButOverlaps, SilencedOnlyIfMisled |
| `bot` | administrator, client, banned client, 2 numbers, 3 updates or robots' messages, fair, 1 fault | TypeOK, TopUpsFollowTheChat, NumberIsSpentOnce, OneRowPerClient, EndsInOrder, EveryUpdateIsHandled |
| `robots` | 2 states, a channel of 2, 3 messages, 2 faults | TypeOK, ViewAgrees, BarShowsTheView |

Why the bounds are enough. Rows of `cashless` do not influence each other: one
order with all the goroutines that can meet on it (poller, reader, two
handlers, a retry) has every conflict, and a second order is left to the
theorems. Sales meet at the KKT and in the queue: two of them with two workers
have every order of takes, prints and shift changes. Orders of one
balance meet at that balance: two suffice for a double spending, a lost charge
and a bonus between. One fault reaches every failing statement in every state;
the ledger runs with two because a job that failed is repaired and may fail again,
or meets a job that failed as well. Two sockets
and an array left behind by earlier ones give an append in place, one that
grows, a shift under a running publication and a send to a closed channel. Two
messages and two answers are what it takes for one to be newer than another, or
to replace it; a message that finds the table full while a request writes it
stays unwritten, which only cuts runs short. The code's limit is two sessions:
one with two log-ins shows the same as two with three, and `WithinLimit` is
proved for any. `FewPosts` of MCWebSessions lets two requests of browsers be under
way at once, which is what it takes for one to overtake another. The bot meets three updates: an amount, a message of another kind
and the forwarded one, or one top-up twice; `Bound` of MCTelegramBot admits three
only if all are of the administrator's protocol, and two of any kind else.
`PollsFirst` lets Telegram and the polling goroutine rest while a handler runs or
the process stops: their steps neither read nor write what the handler works on,
so that each such step may as well come before or after. The theorems need
neither constraint. A bar's channel of two events fills and overflows as one of
four does. `MaxFaults`, `MaxHelp`, `MaxTopUps`, `MaxMessages`,
`MaxAnswers`, `MaxRounds`, `MaxSent` and the sets of orders, sales, sockets, events and
log-ins are the only bounds.

Deadlock is not checked (`CHECK_DEADLOCK FALSE`): payments, sales, orders,
events, messages and links are used up, after which the system of an instance
rightly stops.

### Fairness

- QrPay: a goroutine that can go on does (the database and GetState have
  timeouts); the poller's timer fires although its loop alternates, hence
  strong fairness; the bank ends every payment and delivers its notifications
  to a free handler. Customers, robots, signals and restarts are not fair.
- TaxQueue: NOTIFY or the 53-second poll wakes a worker, KKT and database calls
  return, a scheduled job comes due, the KKT is some time online. Nobody must
  look at a job in help.
- RemoteOrders has no liveness property: with QoS 0 nothing has to arrive.
- WebEvents: goroutines run, the lock is given to who waits for it, and a ping
  is due every 20 seconds, so that a write to a lost client fails some time.
- WebMessages: the client opens the page again and again, looks at what it shows
  and acknowledges it, and requests that arrive are handled. The administrator
  does nothing in particular.
- WebSessions has no liveness property: nobody has to log in or to push.
- TelegramBot: the loop and the library's goroutine run, a stopped process ends
  after its five seconds (main.go), and the service manager starts it again.
  Neither Alive nor its Wait need be fair. Clients, Telegram's robots and signals
  are not fair.
- RobotStates has no liveness property: a robot need not speak, and with QoS 0
  what it says need not arrive.

### What holds only without some fault

- KeptMoneyIsOnTheBooks fails with a crash or a signal (pollers are not started
  again) and with a failing UPDATE. Of the other faults, the notification and the
  poller make up for each other: with failing calls of the bank it holds if the
  bank notifies of confirmed payments, with failing SELECTs it holds even without
  notifications, and with both it fails after three faults (cancelOrder fails and
  so does its retry, and the handler of the notification cannot read the row).
- PaidIsMadeOrReturned fails with two failing cancels (one retry only).
- PaidIsMadeOrReturned and NoOrderIsForgotten except payments during which a
  write failed or the process ended.
- LedgerSpec allows a second print only while no answer has given a number: after
  a lost answer, or one without it, the next attempt prints again, since the
  session identifier contains the time. It allows a closed sale to be open again
  when the UPDATE that closed it was done and reported as failed: the worker puts
  the job into help, and a person may schedule it anew.
- EveryJobIsDecided excepts the job that a worker held when it was killed or
  could not write it back (the row stays busy).
- EveryDrinkIsPaid is about runs without faults. A lost message or a crash makes a
  drink free or loses a bonus; a failed charge still earns the bonus; a complete
  message that comes twice is charged twice, as nothing in cookResponseN and
  handleOrderComplete tells it from the first, and so is one whose UPDATE is sent
  again. The first of these cost the owner, the last two the client.
- NeverOvercharged therefore allows one charge more for each repeated message and
  each statement sent again, and nothing else; PatientMinus is about clients to
  whom that did not happen.
- CalmPublication is about publications during which nobody leaves. When a
  socket unsubscribes meanwhile, the shift in place makes the publisher miss a
  socket or serve it twice, or send to a closed channel, which ends the process
  (PublishPanic; the run reaches it).
- AnswersAreShown excepts answers that are replaced, and those that a late
  acknowledgement of the answer before them marked as read.
- TopUpsAreTold allows one untold top-up for each failing statement: the top-up
  comes first, and whoever repeats the answer tops up again.
- WithinLimitButOverlaps allows one session too many for each log-in that was let
  in while another stood between its count and its insert: the limit of
  web-handler_auth.go:231 is exceeded then. A statement that fails after
  MarkAuthTokenUsed burns the link.
- SilencedOnlyIfMisled excepts sessions silenced by a request to unsubscribe that
  was about an older subscription and was overtaken by the request for the new
  one, which a page load sends (app.js:1354). TLC reaches that when the property
  does not except it: the browser shows pushes as on and gets none.
- NobodyLooks is about a window nobody has open; with two pages a push goes out
  although one of them is visible, as the visibility is kept per client.
- NumberIsSpentOnce and TopUpsFollowTheChat are about one process: after a restart
  the updates not confirmed come again, the amount is spent a second time, or it
  is forgotten and a number in the forwarded text is taken for it. One call may add
  its amount twice, when its UPDATE is sent again; NumberIsSpentOnce bounds such
  calls by the statements sent again.
- EveryUpdateIsHandled excepts updates that were confirmed, by asking for the next
  ones, when the process died before it handled them.
- OneRowPerClient allows one row more for each failing SELECT, after which a known
  or banned client looks new, and for each INSERT that is sent again.
- EndsInOrder excepts a stop during which the goroutine of a bonus has uncounted
  the handler (the drink is then not charged, which TLC reaches when the property
  does not except it), and the unsent invitation.
- ViewAgrees is about a process that has handled the last messages, and excepts a
  page that has replaced the robot's entry. Between messages, and with an old
  message handled last, the belief is stale.
- BarShowsTheView excepts a dropped event, until the next one.

### Disagreements between code and comments

- `qr_credit`: bank_states.go:14 says a fully returned payment has credited=0;
  the code subtracts the amount that is left, once per notification.
- `web_empty`: app.js:519 and web-handler_admin.go:115 say an empty reply only
  marks a message as read; UserReplyAdminMessage writes NULL over the reply the
  client has given. The page sends an empty reply whenever it shows a message.
- `orders_credit`: state-client.go:17 says the minus is at most the credit; a
  second order before the first charge spends the same money again.

## 5. Proofs

All for any sets of orders, goroutines, sales, workers, clients, robots, sockets,
links, log-ins, browsers, subscriptions, devices, pages, writers and states of a
robot and any number of updates, messages and faults; only the named assumptions of the modules are used, and
for `WithinLimit` that the log-ins, for `ToppedUp` that the administrator's
pages are finitely many; `ReturnsOnRecord` assumes that no UPDATE fails and
`NeverRevived` that no SELECT fails. `KeptMoneyNotified` assumes that the only
faults are failing calls of the bank and repeated notifications and that the bank
notifies of confirmed payments, `KeptMoneyPolled` that the only faults are failing
SELECTs and repeated notifications. These hypotheses are needed: TLC finds the
property violated on an instance without any one of them (section 4).

| Theorem | States | By |
|---|---|---|
| `QrPayProofs!Typing` | []TypeOK | TypeInv: TypeOK and a busy goroutine knows its order |
| `QrPayProofs!MoneyFirst` | []OnlyPaidOrdersAreMade | MoneyInv |
| `QrPayProofs!CreditFollowsMoney` | []CreditedIsPaid | MoneyInv |
| `QrPayProofs!ReturnsOnRecord` | []ReturnedIsOnRecord, if `dbWrite` cannot happen | RecordInv, with KnownInv and MoneyInv |
| `QrPayProofs!NeverRevived` | DecidedStaysDecided, if `dbRead` cannot happen | KnownInv |
| `QrPayProofs!KeptMoneyNotified` | []KeptMoneyIsOnTheBooks, if the faults are `bank` and `dup` and "Confirmed" is notified | KeptInv and ConfirmationComes |
| `QrPayProofs!KeptMoneyPolled` | []KeptMoneyIsOnTheBooks, if the faults are `dbRead` and `dup` | PollInv, with KeptInv |
| `TaxQueueProofs!Typing` | []TypeOK | TypeOK is inductive |
| `TaxQueueProofs!Ownership` | []OneOwner | OwnerInv |
| `TaxQueueProofs!ReceiptsLast` | []ReceiptsAreFinal | OwnerInv |
| `TaxQueueProofs!LedgerKept` | Spec => LedgerSpec | LedgerInv and a step simulation |
| `RemoteOrdersProofs!Typing` | []TypeOK | TypeOK is inductive |
| `RemoteOrdersProofs!PatientWithinCredit` | []PatientMinus | MinusInv |
| `RemoteOrdersProofs!NobodyOvercharged` | []NeverOvercharged | BooksInv and CountInv, with MinusInv |
| `RemoteOrdersProofs!EveryDrinkPaid` | []EveryDrinkIsPaid | BooksInv, with MinusInv |
| `WebEventsProofs!TableHolds` | []TableListsTheOpen | ListInv |
| `WebEventsProofs!PushIsNotForgotten` | []NobodyLooks | inductive with the types |
| `WebEventsProofs!Typing` | []TypeOK | TypeInv, with ListInv |
| `WebEventsProofs!CalmServesAll` | []CalmPublication | CalmInv, with TypeInv |
| `WebMessagesProofs!OnlyShown` | []ReadWasShown | SeenInv |
| `WebMessagesProofs!ToppedUp` | []TopUpsAreTold | ToldInv, with SeenInv |
| `WebMessagesProofs!Typing` | []TypeOK | RestInv, with SeenInv |
| `WebSessionsProofs!Typing` | []TypeOK | TypeInv |
| `WebSessionsProofs!OneLogin` | []OneSessionPerLink | HoldInv |
| `WebSessionsProofs!WithinLimit` | []WithinLimitButOverlaps | CountInv |
| `WebSessionsProofs!OnlyTheMisled` | []SilencedOnlyIfMisled | DeadInv |
| `TelegramBotProofs!Typing` | []TypeOK | TypeInv |
| `TelegramBotProofs!StopsInOrder` | []EndsInOrder | AliveInv |
| `TelegramBotProofs!SpentOnce` | []NumberIsSpentOnce | SpendInv and TwiceInv |
| `TelegramBotProofs!ChatFollowed` | []TopUpsFollowTheChat | ChatInv, with SpendInv |
| `TelegramBotProofs!RegisteredOnce` | []OneRowPerClient | RowInv |
| `RobotStatesProofs!Typing` | []TypeOK | TypeOK is inductive |
| `RobotStatesProofs!Views` | []ViewAgrees | ViewInv |
| `RobotStatesProofs!BarFollows` | []BarShowsTheView | BarInv |

- MoneyInv adds to the goal what each goroutine's copy was told: a copy, a
  pending notification or a pending makeOrder that says "Confirmed" exists only
  for a payment the bank has taken (CopiesTold, NotifsTold, MakingTold). The
  bank's Paid is stable, so that stale copies remain true in this respect.
- KnownInv adds, whatever the faults, that the row of an order exists before
  anybody but its creator works on it (WorkKnown), and that a robot which speaks
  of an order was told of it (RobotsKnown), so that by MoneyInv its payment was
  taken.
- RecordInv is KnownInv and that whoever is about to ask for a cancellation has
  written the row before (AskedOnRecord).
- NeverRevived needs of the faults only that MakeRead sees the row as it is
  (MakingSteps): a failing SELECT leaves the status of an older copy in place,
  and the check for a decided order then passes. DecidedRow and DecidedSent go
  through the writers of a row and the senders of makeOrder.
- KeptInv holds as long as no UPDATE fails and the process lives. What a copy or a
  notification says of an ended payment is still so (Heard: a failed payment stays
  failed, a returned one returned), and only a copy of a returned payment has lost
  its amount (Amounts). While the bank keeps the money no goroutine can therefore
  take the credit away again, with however old a copy (CreditStays), and a copy or
  a row that says "Confirmed" is about a credited payment (CreditKept): who finds
  nothing to record has nothing to record. Whoever credits a payment goes on to
  hand the order over, unless it is on record already (HandedOver, CopiesOnRecord).
- That the credit comes at all is what the two theorems differ in. ConfirmationComes:
  the notification is on its way, or a handler that has read the row is about to
  apply it. PollerWatches: while a payment can be made and is not credited, its
  poller goes on asking, or somebody has gone to cancel it; the poller may leave an
  order that it, or a stale copy, believes cancelled only because the goroutine that
  cancelled it still stands before its call of the bank (CancelAsked), and one it
  believes complete only because it was credited (MadeCredited).
- OwnerInv adds that a worker about to send a receipt has a final, printed job
  (ReceiptNext), that a QR code on a row means a printed document (QrIsPrinted),
  and that nobody is about to undo a sale whose receipt was shown (ReceiptsStay).
  Other workers cannot take a busy row, which keeps OneOwner.
- LedgerInv adds what a worker whose name is on its row (Owns) knows of its job
  (Known), also when it was told that it could not write it back, and that the
  document number of a row says whether the KKT gave one (OnRecord). Only
  FiscalCheck prints, and only for a copy without a number, for which by Known
  none was given. The mapping is SaleState and Exempt in TaxQueue; a final job is
  doubted as long as its own worker is about to put it into help (DoubtKept), and
  a worker that gives up settles it (GivesUp).
- MinusInv adds that a patient client has one unsettled order at a time
  (OneAtATime), that a complete message is about a made order
  (CompleteMeansMade), that only a made one was charged too often
  (AgainMeansMade), and that the amount an order may still take was available
  (Covered) - and remains so, since all other changes of that balance are credits
  as long as no drink of the client was charged twice.
- BooksInv keeps the books of a client: what the orders made of the balance
  (Result, the balance less the opening one and the top-ups) is at least minus the
  sum of the amounts of the charged drinks, each as often as it was charged, and
  while nothing failed it equals minus the sum of what they are due, the bonus
  deducted once it was paid (Balanced). The first message charges a drink for both
  processes, since it makes the order a charged one (BooksBilled), a copy of it is
  counted in `again`, a bonus is pending only for a charged drink
  (Rewarding), and a lost message or a crash only lets a drink go uncharged
  (BooksDropped). CountInv explains `again`: the charges too many and the copies
  still on their way are together no more than the faults. Orders begin one at a time, so that only finitely many have begun,
  of however many there are. The properties' MapThenSumSet is related to a sum that
  is defined here by one function over the subsets of a finite set; its existence,
  and what a step makes of it, are shown for the smallest set that would be a
  counterexample, which needs no induction theorem.
- ListInv says what the table looks like at each place of an Unsubscribe: before
  the shift it lists the channel that goes, after the shift and before the
  header is shortened its last entry is the hole.
- TypeInv of WebEvents adds that the header which the publisher holds lies within
  the memory it walks through, and that what it finds there are channels
  (HeaderOK), in the table's array or in the one left behind.
- CalmInv adds that, while nobody leaves, no Unsubscribe holds the lock and the
  memory under the publisher's header is what it was when it began: subscribers
  only write behind the header's length, or elsewhere.
- SeenInv follows a message from the table to the acknowledgement: what an
  administrator's page answers is the client's and what it tells of was written
  before (PageOK); what is on its way to a device is a message or an answer to
  one (ItemOK); what a device shows, and what it asks to be marked, was shown
  (DeviceOK, RequestOK). Rows stay and keep their side (Grows), so all of this
  stays true however old a request is when it is handled.
- ToldInv adds that a request that has not tried its top-up yet has not paid, so
  that the pages that paid can be counted: one more with each top-up, one fewer
  with each line in user_orders or fault.
- TypeInv of WebSessions adds where a request knows its link and its browser, and
  that only a request that has inserted has a session (LoginInv).
- HoldInv speaks of whoever has spent a link (Holds), from the UPDATE on: its
  link is used, and no two hold the same one.
- CountInv of WebSessions is about the log-ins that were let in (Promised), those
  whose session counts and those that will insert one: of these there are no more
  than the limit and the overlaps. A log-in that is let in while nobody else
  stands before an insert has seen all of them in its count.
- DeadInv adds that every subscription anybody speaks of - a session, a request,
  the sender - was made before and by one browser, so that one the push service did
  not know cannot come back when a browser makes a new one, and that a request to
  give up the subscription a browser still has is what it asked last.

- TypeInv of TelegramBot adds what a handler's remaining calls presuppose: a
  top-up knows its client, its amount and the update that named it (WorkOK); a
  handler charges first, adds to a balance once and uncounts itself last (Plan).
- AliveInv says what the counter is while the process runs - one if a handler is
  counted, none else - and that after a stop a handler that still has to charge
  keeps the counter at one unless there was a thief. The charge is the first call
  of its handler, so that no log of its own can have uncounted it before.
- SpendInv orders the updates of a process: those whose amount waits, is being
  spent or was spent come before those in the channel, which ascend, and the
  three sets do not meet. Each update is thus taken once by a process. TwiceInv
  counts the calls that added their amount twice against the statements sent again.
- ChatInv says that forvardMsg is empty or holds the amount of the message parsed
  last, and that what a handler is about to add is right already.
- RowInv counts a client whose INSERT is still to come as if he had the row.
- ViewInv says of each source by itself what it knows once it has heard the last
  message of a kind: the cache the connection, the cache the state unless it was
  reset, the row both. Messages carry numbers, and the newest one says what the
  robot has said (Fresh).
- BarInv says that the last event of the bar's channel, or what is shown if it is
  empty, is what GetRoboState returns, while nothing is between cache and bus.

Only model-checked: every liveness property (PaidIsMadeOrReturned,
NoOrderIsForgotten, EveryJobIsDecided, LostIsForgotten, AnswersAreShown,
MessagesAreShown, EveryUpdateIsHandled), because the prover knows neither fairness
nor ENABLED.

## 6. Not modelled

- The secrets file (one command writes it; a temporary file that a crash leaves
  makes the next write fail, secrets.go:73) and the configuration: planned above,
  last.
- Of ingest, the upsert of the inventory, the rows of errors and the program of
  exec_on_state: nothing in the repository reads them back.
- Of the telegram bot, the commands that the administrator sends on to a robot
  (one message, no state), the bot's menu, and the pauses between the three
  attempts to send a text.
- That a statement is sent again, or is applied and reported as failed, in QrPay and
  WebMessages: a statement that fails there was not applied. Their UPDATEs set
  values, which bears a repetition; the balance that a top-up of the administrator
  adds to is RemoteOrders' (TopUp). In WebSessions, RobotStates and TaxQueue a
  statement sent again either changes nothing or finds what the first one did, and
  what is applied and reported as failed is there a lost answer, a statement that
  fails next, a process that ends, a message that comes twice, or `dbLost`.
- Of the status bar, the versions of the robots' program.
- The race of two goroutines on the map Vmc other than the replaced entry: Go ends
  the process, which is the fault `restart`.
- Wording, menus, logging, user_orders (a log, of which only the lines of the
  administrator's top-ups are counted, in WebMessages), the catalogue, drink
  codes and tuning: no property is about them.
- Vendored libraries: the services behind them are external actions.
- Sizes of integers: amounts are small; `int32(balance)+int32(credit)` in
  commandCook and `uint32(...)` in messages would differ only beyond 21 million
  roubles.
