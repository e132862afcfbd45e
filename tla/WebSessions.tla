---------------------------- MODULE WebSessions ----------------------------
(***************************************************************************)
(* Log-in and push subscriptions of one client of the web application      *)
(* (cmd/venderctl/web: web-handler_auth.go, web-middleware.go,             *)
(* web-handler_push.go; tables web_auth_tokens and user_sessions).         *)
(*                                                                         *)
(* A link of an invitation is good for one log-in within 30 minutes; the   *)
(* session it opens is approved if the client has fewer than two (Limit),  *)
(* else the administrator decides.  Each statement is a transaction of its *)
(* own, and requests run at the same time.  A session carries the endpoint *)
(* of its browser's push subscription; a sender goes through the endpoints *)
(* it has read and silences those that the push service no longer knows.   *)
(***************************************************************************)
EXTENDS Integers, FiniteSets

CONSTANTS
  Links,       \* invitations
  Logins,      \* requests to /auth/callback; a session is named by its own
  Browsers,
  Endpoints,   \* push subscriptions, each made once
  None,        \* no session, no endpoint
  Limit,       \* sessions without the administrator's approval: 2
  MaxRounds,   \* pushes to the client
  FaultKinds,  \* which faults may happen
  MaxFaults    \* and how many of them

AllFaults == {"db", "lost"}

ASSUME SessionsAssumption ==
  /\ None \notin Logins \cup Endpoints
  /\ Limit \in Nat /\ MaxRounds \in Nat /\ MaxFaults \in Nat
  /\ FaultKinds \subseteq AllFaults

VARIABLES
  used,      \* web_auth_tokens: the links that were used
  login,     \* HandleAuth
  session,   \* user_sessions
  cookie,    \* the session whose cookie a browser has
  endpoint,  \* the subscription a browser has
  made,      \* subscriptions made so far
  posts,     \* requests to subscribe and to unsubscribe
  sender,    \* sendWebPushSubscriptions
  rounds, faults,
  (* for properties only *)
  overlaps,  \* how often a log-in was let in while another that was let in had
             \* counted and not inserted yet
  asked      \* what a browser last asked of the push with the subscription it has

vars == <<used, login, session, cookie, endpoint, made, posts, sender, rounds, faults, overlaps, asked>>
logins == <<used, login, overlaps>>
browsers == <<cookie, endpoint, made, asked>>
pushes == <<sender, rounds>>

\* misled: silenced by a request that gave up another subscription; for a
\* property only
Session == [exists : BOOLEAN, approved : BOOLEAN, revoked : BOOLEAN, granted : BOOLEAN,
            endpoint : Endpoints \cup {None}, push_revoked : BOOLEAN, misled : BOOLEAN]

NoSession == [exists |-> FALSE, approved |-> FALSE, revoked |-> FALSE, granted |-> FALSE,
              endpoint |-> None, push_revoked |-> FALSE, misled |-> FALSE]

Login == [pc : {"new", "mark", "count", "insert", "answer", "over"},
          link : Links \cup {None}, from : Browsers \cup {None}, approved : BOOLEAN]

Post == [from : Browsers, session : Logins, op : {"on", "off"},
         endpoint : Endpoints, passed : BOOLEAN]

Fault(kind) == kind \in FaultKinds /\ faults < MaxFaults /\ faults' = faults + 1

Goto(l, pc) == login' = [login EXCEPT ![l].pc = pc]
Over(l) == login' = [login EXCEPT ![l] = [@ EXCEPT !.pc = "over", !.from = None, !.approved = FALSE]]

-----------------------------------------------------------------------------
(* HandleAuth *)

\* GetAuthToken: a link that was used or is older than 30 minutes is
\* refused, and an error is too; previews of messengers do not come this far
HandleAuth(l, k, b) ==
  /\ login[l].pc = "new"
  /\ \/ /\ ~used[k]
        /\ login' = [login EXCEPT ![l] = [pc |-> "mark", link |-> k, from |-> b, approved |-> FALSE]]
     \/ Over(l)
  /\ UNCHANGED <<used, session, browsers, posts, pushes, faults, overlaps>>

\* mutant: the number of rows is not looked at
MarkAuthTokenUsed_AnyRows(l) ==
  /\ login[l].pc = "mark"
  /\ used' = [used EXCEPT ![login[l].link] = TRUE]
  /\ Goto(l, "count")
  /\ UNCHANGED <<session, browsers, posts, pushes, faults, overlaps>>

\* one UPDATE, which finds the link unused or not
MarkAuthTokenUsed(l) ==
  /\ login[l].pc = "mark"
  /\ \/ /\ ~used[login[l].link]
        /\ used' = [used EXCEPT ![login[l].link] = TRUE]
        /\ Goto(l, "count") /\ UNCHANGED faults
     \/ /\ used[login[l].link]
        /\ Over(l) /\ UNCHANGED <<used, faults>>
     \/ Over(l) /\ UNCHANGED used /\ Fault("db")
  /\ UNCHANGED <<session, browsers, posts, pushes, overlaps>>

Active == {l \in Logins : session[l].exists /\ session[l].approved /\ ~session[l].revoked}

\* mutant: one too many
Room_OneMore == Cardinality(Active) <= Limit

Room == Cardinality(Active) < Limit

Entering == {l \in Logins : login[l].pc = "insert" /\ login[l].approved}

CountSessions(l) ==
  /\ login[l].pc = "count"
  /\ \/ /\ login' = [login EXCEPT ![l].approved = Room, ![l].pc = "insert"]
        /\ overlaps' = overlaps + (IF Room /\ Entering # {} THEN 1 ELSE 0)
        /\ UNCHANGED faults
     \/ Over(l) /\ UNCHANGED overlaps /\ Fault("db")
  /\ UNCHANGED <<used, session, browsers, posts, pushes>>

\* mutant: an error is an answer as well
InsertUserSession_Silent(l) ==
  /\ login[l].pc = "insert"
  /\ \/ session' = [session EXCEPT ![l] = [NoSession EXCEPT !.exists = TRUE,
                                                            !.approved = login[l].approved]]
     \/ UNCHANGED session
  /\ Goto(l, "answer")
  /\ UNCHANGED <<used, browsers, posts, pushes, faults, overlaps>>

InsertUserSession(l) ==
  /\ login[l].pc = "insert"
  /\ \/ /\ session' = [session EXCEPT ![l] = [NoSession EXCEPT !.exists = TRUE,
                                                               !.approved = login[l].approved]]
        /\ Goto(l, "answer") /\ UNCHANGED faults
     \/ Over(l) /\ UNCHANGED session /\ Fault("db")
  /\ UNCHANGED <<used, browsers, posts, pushes, overlaps>>

\* the browser forgets the session it had
SetAuthCookie(l) ==
  /\ login[l].pc = "answer"
  /\ \/ cookie' = [cookie EXCEPT ![login[l].from] = l] /\ UNCHANGED faults
     \/ UNCHANGED cookie /\ Fault("lost")
  /\ Over(l)
  /\ UNCHANGED <<used, session, endpoint, made, asked, posts, pushes, overlaps>>

\* an error of the database is ignored
Logout(b) ==
  /\ cookie[b] # None
  /\ \/ session' = [session EXCEPT ![cookie[b]].revoked = TRUE] /\ UNCHANGED faults
     \/ UNCHANGED session /\ Fault("db")
  /\ cookie' = [cookie EXCEPT ![b] = None]
  /\ UNCHANGED <<logins, endpoint, made, asked, posts, pushes>>

\* the administrator, directly in the database
Grant(l) ==
  /\ session[l].exists /\ ~session[l].approved
  /\ session' = [session EXCEPT ![l].approved = TRUE, ![l].granted = TRUE]
  /\ UNCHANGED <<logins, browsers, posts, pushes, faults>>

-----------------------------------------------------------------------------
(* A browser's push subscription *)

\* requests may overtake each other
AskPush(b, op, e) ==
  /\ posts' = posts \cup {[from |-> b, session |-> cookie[b], op |-> op,
                           endpoint |-> e, passed |-> FALSE]}
  /\ asked' = [asked EXCEPT ![b] = op]

\* ensureWebPushSubscription: an old subscription is given up first
EnsureWebPushSubscription(b, e) ==
  /\ cookie[b] # None /\ e \notin made
  /\ endpoint' = [endpoint EXCEPT ![b] = e]
  /\ made' = made \cup {e}
  /\ AskPush(b, "on", e)
  /\ UNCHANGED <<logins, session, cookie, pushes, faults>>

UnsubscribeWebPush(b) ==
  /\ cookie[b] # None /\ endpoint[b] # None
  /\ AskPush(b, "off", endpoint[b])
  /\ UNCHANGED <<logins, session, cookie, endpoint, made, pushes, faults>>

\* the browser gives up the subscription, or the push service does
SubscriptionEnds(b) ==
  /\ endpoint[b] # None
  /\ endpoint' = [endpoint EXCEPT ![b] = None]
  /\ asked' = [asked EXCEPT ![b] = "none"]
  /\ UNCHANGED <<logins, session, cookie, made, posts, pushes, faults>>

CheckAuth ==
  \E p \in posts :
    /\ ~p.passed
    /\ \/ /\ posts' = (posts \ {p}) \cup
                     (IF p.session \in Active THEN {[p EXCEPT !.passed = TRUE]} ELSE {})
          /\ UNCHANGED faults
       \/ posts' = posts \ {p} /\ (Fault("db") \/ Fault("lost"))
    /\ UNCHANGED <<logins, session, browsers, pushes>>

PushSubscribe ==
  \E p \in posts :
    /\ p.passed /\ p.op = "on"
    /\ posts' = posts \ {p}
    /\ \/ /\ session' = [session EXCEPT ![p.session] =
                          [@ EXCEPT !.endpoint = p.endpoint, !.push_revoked = FALSE, !.misled = FALSE]]
          /\ UNCHANGED faults
       \/ UNCHANGED session /\ Fault("db")
    /\ UNCHANGED <<logins, browsers, pushes>>

Misleads(p) ==
  ~session[p.session].push_revoked /\ session[p.session].endpoint # p.endpoint

SilencedBy(p) ==
  [session[p.session] EXCEPT !.push_revoked = TRUE, !.misled = @ \/ Misleads(p)]

\* the subscription that the request names is not looked at
PushUnsubscribe ==
  \E p \in posts :
    /\ p.passed /\ p.op = "off"
    /\ posts' = posts \ {p}
    /\ \/ session' = [session EXCEPT ![p.session] = SilencedBy(p)] /\ UNCHANGED faults
       \/ UNCHANGED session /\ Fault("db")
    /\ UNCHANGED <<logins, browsers, pushes>>

-----------------------------------------------------------------------------
(* A push to the client *)

Live == {endpoint[b] : b \in Browsers} \ {None}

Told ==
  {session[l].endpoint : l \in {s \in Active : ~session[s].push_revoked}} \ {None}

SendWebPush ==
  /\ sender.pc = "idle" /\ rounds < MaxRounds
  /\ rounds' = rounds + 1
  /\ sender' = IF Told = {} THEN sender ELSE [sender EXCEPT !.pc = "send", !.todo = Told]
  /\ UNCHANGED <<logins, session, browsers, posts, faults>>

After(todo) == [pc |-> IF todo = {} THEN "idle" ELSE "send", todo |-> todo, e |-> None]

\* delivered, or unknown to the push service, or an error and the next one;
\* "unauthorized" ends the round
SendNotification ==
  /\ sender.pc = "send"
  /\ \E e \in sender.todo :
       \/ e \in Live /\ sender' = After(sender.todo \ {e}) /\ UNCHANGED faults
       \/ e \notin Live /\ sender' = [pc |-> "gone", todo |-> sender.todo \ {e}, e |-> e] /\ UNCHANGED faults
       \/ (sender' = After(sender.todo \ {e}) \/ sender' = After({})) /\ Fault("lost")
  /\ UNCHANGED <<logins, session, browsers, posts, rounds>>

\* mutant: every session of the client
Silenced_All == {l \in Logins : session[l].endpoint # None}

Silenced == {l \in Logins : session[l].endpoint = sender.e}

EndpointGone ==
  /\ sender.pc = "gone"
  /\ \/ /\ session' = [l \in Logins |-> IF l \in Silenced THEN [session[l] EXCEPT !.push_revoked = TRUE]
                                        ELSE session[l]]
        /\ UNCHANGED faults
     \/ UNCHANGED session /\ Fault("db")
  /\ sender' = After(sender.todo)
  /\ UNCHANGED <<logins, browsers, posts, rounds>>

-----------------------------------------------------------------------------
Init ==
  /\ used = [k \in Links |-> FALSE]
  /\ login = [l \in Logins |-> [pc |-> "new", link |-> None, from |-> None, approved |-> FALSE]]
  /\ session = [l \in Logins |-> NoSession]
  /\ cookie = [b \in Browsers |-> None]
  /\ endpoint = [b \in Browsers |-> None]
  /\ made = {} /\ posts = {}
  /\ sender = After({})
  /\ rounds = 0 /\ faults = 0
  /\ overlaps = 0
  /\ asked = [b \in Browsers |-> "none"]

Next ==
  \/ \E l \in Logins : \/ \E k \in Links, b \in Browsers : HandleAuth(l, k, b)
                       \/ MarkAuthTokenUsed(l) \/ CountSessions(l)
                       \/ InsertUserSession(l) \/ SetAuthCookie(l) \/ Grant(l)
  \/ \E b \in Browsers : \/ Logout(b) \/ UnsubscribeWebPush(b) \/ SubscriptionEnds(b)
                         \/ \E e \in Endpoints : EnsureWebPushSubscription(b, e)
  \/ CheckAuth \/ PushSubscribe \/ PushUnsubscribe
  \/ SendWebPush \/ SendNotification \/ EndpointGone

Spec == Init /\ [][Next]_vars

-----------------------------------------------------------------------------
(* Every variable keeps its type.                                          *)
TypeOK ==
  /\ used \in [Links -> BOOLEAN]
  /\ login \in [Logins -> Login]
  /\ session \in [Logins -> Session]
  /\ cookie \in [Browsers -> Logins \cup {None}]
  /\ \A b \in Browsers : cookie[b] # None => session[cookie[b]].exists
  /\ endpoint \in [Browsers -> Endpoints \cup {None}]
  /\ made \subseteq Endpoints
  /\ posts \subseteq Post
  /\ sender \in [pc : {"idle", "send", "gone"}, todo : SUBSET Endpoints, e : Endpoints \cup {None}]
  /\ rounds \in 0..MaxRounds /\ faults \in 0..MaxFaults
  /\ overlaps \in Nat
  /\ asked \in [Browsers -> {"none", "on", "off"}]

(* A link opens one session, however many browsers follow it at once.      *)
OneSessionPerLink ==
  \A l, o \in Logins : session[l].exists /\ session[o].exists /\ login[l].link = login[o].link => l = o

(* No more active sessions than the limit are there without the            *)
(* administrator's doing, whatever was granted and logged out meanwhile,   *)
(* but for one more with each log-in that HandleAuth let in between the    *)
(* count and the insert of another: the two are statements of their own.   *)
WithinLimitButOverlaps ==
  Cardinality({l \in Active : ~session[l].granted}) <= Limit + overlaps

(* A session that has the live subscription of a browser which last asked  *)
(* for pushes with it is silenced only if it was misled: by a request that *)
(* gave up an older subscription and was overtaken, since PushUnsubscribe  *)
(* takes no notice of the subscription it is told.  A push service's word, *)
(* however late and about whichever subscription, never does it.           *)
SilencedOnlyIfMisled ==
  \A b \in Browsers, l \in Logins :
    /\ asked[b] = "on" /\ endpoint[b] # None
    /\ session[l].endpoint = endpoint[b] /\ session[l].push_revoked
    => session[l].misled

=============================================================================
