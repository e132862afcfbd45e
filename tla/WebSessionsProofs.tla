------------------------ MODULE WebSessionsProofs --------------------------
(***************************************************************************)
(* Theorems about WebSessions, for any numbers of links, log-ins,          *)
(* browsers, subscriptions, pushes and faults, and any limit.              *)
(***************************************************************************)
EXTENDS WebSessions, FiniteSetTheorems, TLAPS

\* where a request stands, and what it knows then
LoginInv ==
  \A l \in Logins :
    /\ login[l].pc \in {"mark", "count", "insert", "answer"} =>
         login[l].link \in Links /\ login[l].from \in Browsers
    /\ login[l].pc = "answer" => session[l].exists
    /\ session[l].exists => login[l].pc \in {"answer", "over"} /\ login[l].link \in Links

TypeInv == TypeOK /\ LoginInv

USE SessionsAssumption

LEMMA TypeInit == Init => TypeInv
BY DEF Init, TypeInv, TypeOK, LoginInv, Login, Session, NoSession, Post, After

\* a session that counts, and was not granted by the administrator
Free(s) == s.exists /\ s.approved /\ ~s.revoked /\ ~s.granted

\* a session that exists keeps existing, no other comes to be, and none
\* becomes one that counts unless the administrator grants it
Kept ==
  /\ session' \in [Logins -> Session]
  /\ \A l \in Logins : /\ session'[l].exists = session[l].exists
                       /\ Free(session'[l]) => Free(session[l])

LEMMA Changes ==
  ASSUME NEW s \in Session, NEW e \in Endpoints \cup {None},
         NEW r \in {[s EXCEPT !.revoked = TRUE],
                    [s EXCEPT !.approved = TRUE, !.granted = TRUE],
                    [s EXCEPT !.endpoint = e, !.push_revoked = FALSE, !.misled = FALSE],
                    [s EXCEPT !.push_revoked = TRUE]}
  PROVE  r \in Session /\ r.exists = s.exists /\ (Free(r) => Free(s))
<1>1. CASE r = [s EXCEPT !.revoked = TRUE]
  BY <1>1 DEF Session, Free
<1>2. CASE r = [s EXCEPT !.approved = TRUE, !.granted = TRUE]
  BY <1>2 DEF Session, Free
<1>3. CASE r = [s EXCEPT !.endpoint = e, !.push_revoked = FALSE, !.misled = FALSE]
  BY <1>3 DEF Session, Free
<1>4. CASE r = [s EXCEPT !.push_revoked = TRUE]
  BY <1>4 DEF Session, Free
<1> QED
  BY <1>1, <1>2, <1>3, <1>4

LEMMA SilenceChanges ==
  ASSUME NEW p, session[p.session] \in Session
  PROVE  LET s == session[p.session]
             r == SilencedBy(p)
         IN  /\ r \in Session /\ r.exists = s.exists /\ (Free(r) => Free(s))
             /\ r.endpoint = s.endpoint
             /\ r.misled <=> s.misled \/ (~s.push_revoked /\ s.endpoint # p.endpoint)
<1> DEFINE s == session[p.session]
           m == s.misled \/ Misleads(p)
<1>1. m \in BOOLEAN /\ (m <=> s.misled \/ (~s.push_revoked /\ s.endpoint # p.endpoint))
  BY DEF Misleads
<1>2. SilencedBy(p) = [s EXCEPT !.push_revoked = TRUE, !.misled = m]
  BY Zenon DEF SilencedBy
<1> HIDE DEF m
<1> QED
  BY <1>1, <1>2 DEF Session, Free

LEMMA OneChanges ==
  ASSUME TypeInv, NEW l \in Logins, NEW r \in Session, r.exists = session[l].exists,
         Free(r) => Free(session[l]),
         session' = session \/ session' = [session EXCEPT ![l] = r]
  PROVE  Kept
BY DEF TypeInv, TypeOK, Kept

\* what a step that does not touch the log-ins has to show
Rest ==
  /\ cookie' \in [Browsers -> Logins \cup {None}]
  /\ \A b \in Browsers : cookie'[b] # None => cookie'[b] = cookie[b]
  /\ endpoint' \in [Browsers -> Endpoints \cup {None}]
  /\ made' \subseteq Endpoints
  /\ asked' \in [Browsers -> {"none", "on", "off"}]
  /\ posts' \subseteq Post
  /\ sender' \in [pc : {"idle", "send", "gone"}, todo : SUBSET Endpoints, e : Endpoints \cup {None}]
  /\ rounds' \in 0..MaxRounds /\ faults' \in 0..MaxFaults
  /\ UNCHANGED logins

LEMMA RestKeepsType == ASSUME TypeInv, Kept, Rest PROVE TypeInv'
<1>1. /\ used' = used /\ login' = login /\ overlaps' = overlaps
  BY DEF Rest, logins
<1>2. LoginInv'
  BY <1>1 DEF TypeInv, LoginInv, Kept
<1>3. \A b \in Browsers : cookie'[b] # None => session'[cookie'[b]].exists
  BY DEF TypeInv, TypeOK, Kept, Rest
<1> QED
  BY <1>1, <1>2, <1>3 DEF TypeInv, TypeOK, Kept, Rest

\* what a step that does not touch the sessions and the browsers has to show
Steady == UNCHANGED <<session, browsers, posts, pushes>>

LEMMA SteadyKeepsType ==
  ASSUME TypeInv, Steady, used' \in [Links -> BOOLEAN], login' \in [Logins -> Login],
         faults' \in 0..MaxFaults, overlaps' \in Nat, LoginInv'
  PROVE  TypeInv'
BY DEF TypeInv, TypeOK, Steady, browsers, pushes

\* a request that ends
LEMMA OverKeeps ==
  ASSUME TypeInv, NEW l \in Logins, Over(l)
  PROVE  /\ login' \in [Logins -> Login]
         /\ session' = session => LoginInv'
<1>1. login[l] \in Login /\ login \in [Logins -> Login]
  BY DEF TypeInv, TypeOK
<1> DEFINE r == [login[l] EXCEPT !.pc = "over", !.from = None, !.approved = FALSE]
<1>2. r \in Login /\ r.pc = "over" /\ r.link = login[l].link
  BY <1>1 DEF Login
<1>3. login' = [login EXCEPT ![l] = r]
  BY DEF Over
<1> HIDE DEF r
<1>4. login' \in [Logins -> Login] /\ login'[l] = r /\ \A o \in Logins \ {l} : login'[o] = login[o]
  BY <1>1, <1>2, <1>3
<1>5. ASSUME session' = session PROVE LoginInv'
  BY <1>2, <1>4, <1>5 DEF TypeInv, LoginInv
<1> QED
  BY <1>4, <1>5

\* a request that goes on
LEMMA GotoKeeps ==
  ASSUME TypeInv, NEW l \in Logins, NEW r \in Login, login' = [login EXCEPT ![l] = r],
         session' = session, ~session[l].exists,
         r.pc \in {"mark", "count", "insert"}, r.link \in Links, r.from \in Browsers
  PROVE  login' \in [Logins -> Login] /\ LoginInv'
<1>1. login \in [Logins -> Login]
  BY DEF TypeInv, TypeOK
<1>2. login' \in [Logins -> Login] /\ login'[l] = r /\ \A o \in Logins \ {l} : login'[o] = login[o]
  BY <1>1
<1> QED
  BY <1>2 DEF TypeInv, LoginInv

LEMMA HandleAuthKeepsType ==
  ASSUME TypeInv, NEW l \in Logins, NEW k \in Links, NEW b \in Browsers, HandleAuth(l, k, b)
  PROVE  TypeInv'
<1>1. Steady /\ used' = used /\ faults' = faults /\ overlaps' = overlaps /\ session' = session
  BY DEF HandleAuth, Steady, pushes
<1>2. ~session[l].exists
  BY DEF HandleAuth, TypeInv, LoginInv
<1>3. login' \in [Logins -> Login] /\ LoginInv'
  <2>1. CASE Over(l)
    BY <2>1, <1>1, OverKeeps
  <2>2. CASE ~Over(l)
    <3> DEFINE r == [pc |-> "mark", link |-> k, from |-> b, approved |-> FALSE]
    <3>1. r \in Login /\ r.pc = "mark" /\ r.link \in Links /\ r.from \in Browsers
      BY DEF Login
    <3>2. login' = [login EXCEPT ![l] = r]
      BY <2>2 DEF HandleAuth
    <3> HIDE DEF r
    <3> QED
      BY <3>1, <3>2, <1>1, <1>2, GotoKeeps
  <2> QED
    BY <2>1, <2>2
<1> QED
  BY <1>1, <1>3, SteadyKeepsType DEF TypeInv, TypeOK

LEMMA MarkKeepsType ==
  ASSUME TypeInv, NEW l \in Logins, MarkAuthTokenUsed(l) PROVE TypeInv'
<1>1. Steady /\ overlaps' = overlaps /\ session' = session
  BY DEF MarkAuthTokenUsed, Steady, pushes
<1>2. /\ login[l] \in Login /\ login[l].pc = "mark" /\ ~session[l].exists
      /\ login[l].link \in Links /\ login[l].from \in Browsers
  BY DEF MarkAuthTokenUsed, TypeInv, TypeOK, LoginInv
<1>3. used' \in [Links -> BOOLEAN]
  BY <1>2 DEF MarkAuthTokenUsed, TypeInv, TypeOK
<1>4. faults' \in 0..MaxFaults
  BY DEF MarkAuthTokenUsed, Fault, TypeInv, TypeOK
<1>5. login' \in [Logins -> Login] /\ LoginInv'
  <2>1. CASE Over(l)
    BY <2>1, <1>1, OverKeeps
  <2>2. CASE Goto(l, "count")
    <3> DEFINE r == [login[l] EXCEPT !.pc = "count"]
    <3>1. r \in Login /\ r.pc = "count" /\ r.link \in Links /\ r.from \in Browsers
      BY <1>2 DEF Login
    <3>2. login' = [login EXCEPT ![l] = r]
      BY <2>2 DEF Goto
    <3> HIDE DEF r
    <3> QED
      BY <3>1, <3>2, <1>1, <1>2, GotoKeeps
  <2> QED
    BY <2>1, <2>2 DEF MarkAuthTokenUsed
<1> QED
  BY <1>1, <1>3, <1>4, <1>5, SteadyKeepsType DEF TypeInv, TypeOK

LEMMA CountKeepsType ==
  ASSUME TypeInv, NEW l \in Logins, CountSessions(l) PROVE TypeInv'
<1>1. Steady /\ used' = used /\ session' = session
  BY DEF CountSessions, Steady, pushes
<1>2. /\ login[l] \in Login /\ login[l].pc = "count" /\ ~session[l].exists
      /\ login[l].link \in Links /\ login[l].from \in Browsers
  BY DEF CountSessions, TypeInv, TypeOK, LoginInv
<1>3. overlaps' \in Nat
  BY DEF CountSessions, TypeInv, TypeOK
<1>4. faults' \in 0..MaxFaults
  BY DEF CountSessions, Fault, TypeInv, TypeOK
<1>5. login' \in [Logins -> Login] /\ LoginInv'
  <2>1. CASE Over(l)
    BY <2>1, <1>1, OverKeeps
  <2>2. CASE ~Over(l)
    <3> DEFINE r == [login[l] EXCEPT !.approved = Room, !.pc = "insert"]
    <3>1. Room \in BOOLEAN
      BY DEF Room
    <3>2. r \in Login /\ r.pc = "insert" /\ r.link \in Links /\ r.from \in Browsers
      BY <1>2, <3>1 DEF Login
    <3>3. login' = [login EXCEPT ![l] = r]
      BY <2>2, <1>2, login \in [Logins -> Login] DEF CountSessions, TypeInv, TypeOK
    <3> HIDE DEF r
    <3> QED
      BY <3>2, <3>3, <1>1, <1>2, GotoKeeps
  <2> QED
    BY <2>1, <2>2
<1> QED
  BY <1>1, <1>3, <1>4, <1>5, SteadyKeepsType DEF TypeInv, TypeOK

LEMMA InsertKeepsType ==
  ASSUME TypeInv, NEW l \in Logins, InsertUserSession(l) PROVE TypeInv'
<1>1. UNCHANGED <<used, cookie, endpoint, made, asked, posts, sender, rounds, overlaps>>
  BY DEF InsertUserSession, browsers, pushes
<1>2. /\ login[l] \in Login /\ login[l].pc = "insert" /\ login \in [Logins -> Login]
      /\ login[l].link \in Links /\ login[l].from \in Browsers
      /\ session \in [Logins -> Session]
  BY DEF InsertUserSession, TypeInv, TypeOK, LoginInv
<1>3. faults' \in 0..MaxFaults
  BY DEF InsertUserSession, Fault, TypeInv, TypeOK
<1>4. CASE Over(l) /\ UNCHANGED session
  BY <1>1, <1>3, <1>4, OverKeeps, SteadyKeepsType DEF TypeInv, TypeOK, Steady, browsers, pushes
<1>5. CASE ~(Over(l) /\ UNCHANGED session)
  <2> DEFINE new == [NoSession EXCEPT !.exists = TRUE, !.approved = login[l].approved]
  <2> DEFINE r == [login[l] EXCEPT !.pc = "answer"]
  <2>1. session' = [session EXCEPT ![l] = new] /\ login' = [login EXCEPT ![l] = r]
    BY <1>5 DEF InsertUserSession, Goto
  <2>2. new \in Session /\ new.exists
    BY <1>2 DEF NoSession, Session, Login
  <2>3. r \in Login /\ r.pc = "answer" /\ r.link \in Links /\ r.from \in Browsers
    BY <1>2 DEF Login
  <2> HIDE DEF new, r
  <2>4. /\ session' \in [Logins -> Session] /\ session'[l].exists
        /\ login' \in [Logins -> Login] /\ login'[l] = r
        /\ \A o \in Logins \ {l} : session'[o] = session[o] /\ login'[o] = login[o]
    BY <1>2, <2>1, <2>2, <2>3
  <2>5. LoginInv'
    BY <2>3, <2>4 DEF TypeInv, LoginInv
  <2>6. \A b \in Browsers : cookie'[b] # None => session'[cookie'[b]].exists
    BY <1>1, <2>4 DEF TypeInv, TypeOK
  <2> QED
    BY <1>1, <1>3, <2>4, <2>5, <2>6 DEF TypeInv, TypeOK
<1> QED
  BY <1>4, <1>5

LEMMA CookieKeepsType ==
  ASSUME TypeInv, NEW l \in Logins, SetAuthCookie(l) PROVE TypeInv'
<1>1. UNCHANGED <<used, session, endpoint, made, asked, posts, sender, rounds, overlaps>> /\ Over(l)
  BY DEF SetAuthCookie, pushes
<1>2. session[l].exists
  BY DEF SetAuthCookie, TypeInv, LoginInv
<1>3. faults' \in 0..MaxFaults
  BY DEF SetAuthCookie, Fault, TypeInv, TypeOK
<1>4. /\ cookie' \in [Browsers -> Logins \cup {None}]
      /\ \A b \in Browsers : cookie'[b] = cookie[b] \/ cookie'[b] = l
  BY DEF SetAuthCookie, TypeInv, TypeOK
<1>5. \A b \in Browsers : cookie'[b] # None => session'[cookie'[b]].exists
  BY <1>1, <1>2, <1>4 DEF TypeInv, TypeOK
<1>6. login' \in [Logins -> Login] /\ LoginInv'
  BY <1>1, OverKeeps
<1> QED
  BY <1>1, <1>3, <1>4, <1>5, <1>6 DEF TypeInv, TypeOK

LEMMA BrowserKeepsType ==
  ASSUME TypeInv, NEW b \in Browsers,
         \/ Logout(b) \/ UnsubscribeWebPush(b) \/ SubscriptionEnds(b)
         \/ \E e \in Endpoints : EnsureWebPushSubscription(b, e)
  PROVE  TypeInv' /\ Kept /\ Rest
<1> USE DEF TypeInv, TypeOK, browsers, pushes
<1>1. CASE Logout(b)
  <2>1. Kept
    <3>1. cookie[b] \in Logins
      BY <1>1 DEF Logout
    <3> DEFINE r == [session[cookie[b]] EXCEPT !.revoked = TRUE]
    <3>2. r \in Session /\ r.exists = session[cookie[b]].exists /\ (Free(r) => Free(session[cookie[b]]))
      BY <3>1, Changes
    <3>3. session' = session \/ session' = [session EXCEPT ![cookie[b]] = r]
      BY <1>1 DEF Logout
    <3> HIDE DEF r
    <3> QED
      BY <3>1, <3>2, <3>3, OneChanges
  <2>2. Rest
    BY <1>1 DEF Logout, Fault, Rest
  <2> QED
    BY <2>1, <2>2, RestKeepsType
<1>2. CASE UnsubscribeWebPush(b)
  <2>1. Kept
    BY <1>2 DEF UnsubscribeWebPush, Kept
  <2>2. Rest
    <3>1. [from |-> b, session |-> cookie[b], op |-> "off", endpoint |-> endpoint[b],
           passed |-> FALSE] \in Post
      BY <1>2 DEF UnsubscribeWebPush, Post
    <3> QED
      BY <1>2, <3>1 DEF UnsubscribeWebPush, AskPush, Rest
  <2> QED
    BY <2>1, <2>2, RestKeepsType
<1>3. CASE SubscriptionEnds(b)
  <2>1. Kept
    BY <1>3 DEF SubscriptionEnds, Kept
  <2>2. Rest
    BY <1>3 DEF SubscriptionEnds, Rest
  <2> QED
    BY <2>1, <2>2, RestKeepsType
<1>4. ASSUME NEW e \in Endpoints, EnsureWebPushSubscription(b, e) PROVE TypeInv' /\ Kept /\ Rest
  <2>1. Kept
    BY <1>4 DEF EnsureWebPushSubscription, Kept
  <2>2. [from |-> b, session |-> cookie[b], op |-> "on", endpoint |-> e, passed |-> FALSE] \in Post
    BY <1>4 DEF EnsureWebPushSubscription, Post
  <2>3. endpoint' \in [Browsers -> Endpoints \cup {None}] /\ made' \subseteq Endpoints
    BY <1>4 DEF EnsureWebPushSubscription
  <2>4. Rest
    BY <1>4, <2>2, <2>3 DEF EnsureWebPushSubscription, AskPush, Rest
  <2> QED
    BY <2>1, <2>4, RestKeepsType
<1> QED
  BY <1>1, <1>2, <1>3, <1>4

LEMMA GrantKeepsType == ASSUME TypeInv, NEW l \in Logins, Grant(l) PROVE TypeInv' /\ Kept /\ Rest
<1> USE DEF TypeInv, TypeOK, browsers, pushes
<1>1. Kept
  <2> DEFINE r == [session[l] EXCEPT !.approved = TRUE, !.granted = TRUE]
  <2>1. r \in Session /\ r.exists = session[l].exists /\ (Free(r) => Free(session[l]))
    BY Changes
  <2>2. session' = [session EXCEPT ![l] = r]
    BY DEF Grant
  <2> HIDE DEF r
  <2> QED
    BY <2>1, <2>2, OneChanges
<1>2. Rest
  BY DEF Grant, Rest
<1> QED
  BY <1>1, <1>2, RestKeepsType

LEMMA Passed == ASSUME NEW p \in Post PROVE [p EXCEPT !.passed = TRUE] \in Post
BY DEF Post

LEMMA RequestKeepsType ==
  ASSUME TypeInv, CheckAuth \/ PushSubscribe \/ PushUnsubscribe
  PROVE  TypeInv' /\ Kept /\ Rest
<1> USE DEF TypeInv, TypeOK, browsers, pushes
<1>1. CASE CheckAuth
  <2>1. Kept
    BY <1>1 DEF CheckAuth, Kept
  <2>2. Rest
    <3>1. PICK p \in posts : posts' \subseteq posts \cup {[p EXCEPT !.passed = TRUE]}
      BY <1>1 DEF CheckAuth
    <3>2. [p EXCEPT !.passed = TRUE] \in Post
      BY Passed
    <3>3. posts' \subseteq Post
      BY <3>1, <3>2
    <3>4. faults' \in 0..MaxFaults
      BY <1>1 DEF CheckAuth, Fault
    <3>5. UNCHANGED <<logins, session, browsers, pushes>>
      BY <1>1 DEF CheckAuth
    <3> QED
      BY <3>3, <3>4, <3>5 DEF Rest
  <2> QED
    BY <2>1, <2>2, RestKeepsType
<1>2. CASE PushSubscribe
  <2>1. Kept
    <3>1. PICK p \in posts :
            \/ session' = [session EXCEPT ![p.session] =
                            [@ EXCEPT !.endpoint = p.endpoint, !.push_revoked = FALSE, !.misled = FALSE]]
            \/ session' = session
      BY <1>2 DEF PushSubscribe
    <3>2. p.session \in Logins /\ p.endpoint \in Endpoints
      BY DEF Post
    <3> DEFINE r == [session[p.session] EXCEPT !.endpoint = p.endpoint, !.push_revoked = FALSE, !.misled = FALSE]
    <3>3. r \in Session /\ r.exists = session[p.session].exists /\ (Free(r) => Free(session[p.session]))
      BY <3>2, Changes
    <3>4. session' = session \/ session' = [session EXCEPT ![p.session] = r]
      BY <3>1
    <3> HIDE DEF r
    <3> QED
      BY <3>2, <3>3, <3>4, OneChanges
  <2>2. Rest
    <3>1. posts' \subseteq posts
      BY <1>2 DEF PushSubscribe
    <3>3. faults' \in 0..MaxFaults
      <4>1. faults' = faults \/ Fault("db")
        BY <1>2 DEF PushSubscribe
      <4> QED
        BY <4>1 DEF Fault
    <3>2. UNCHANGED <<logins, browsers, pushes>>
      BY <1>2 DEF PushSubscribe
    <3> QED
      BY <3>1, <3>2, <3>3 DEF Rest
  <2> QED
    BY <2>1, <2>2, RestKeepsType
<1>3. CASE PushUnsubscribe
  <2>1. Kept
    <3>1. PICK p \in posts :
            \/ session' = [session EXCEPT ![p.session] = SilencedBy(p)]
            \/ session' = session
      BY <1>3 DEF PushUnsubscribe
    <3>2. p.session \in Logins
      BY DEF Post
    <3> DEFINE r == SilencedBy(p)
    <3>3. r \in Session /\ r.exists = session[p.session].exists /\ (Free(r) => Free(session[p.session]))
      BY <3>2, SilenceChanges
    <3> HIDE DEF r
    <3> QED
      BY <3>1, <3>2, <3>3, OneChanges DEF r
  <2>2. Rest
    <3>1. posts' \subseteq posts
      BY <1>3 DEF PushUnsubscribe
    <3>3. faults' \in 0..MaxFaults
      <4>1. faults' = faults \/ Fault("db")
        BY <1>3 DEF PushUnsubscribe
      <4> QED
        BY <4>1 DEF Fault
    <3>2. UNCHANGED <<logins, browsers, pushes>>
      BY <1>3 DEF PushUnsubscribe
    <3> QED
      BY <3>1, <3>2, <3>3 DEF Rest
  <2> QED
    BY <2>1, <2>2, RestKeepsType
<1> QED
  BY <1>1, <1>2, <1>3

LEMMA SenderKeepsType ==
  ASSUME TypeInv, SendWebPush \/ SendNotification \/ EndpointGone
  PROVE  TypeInv' /\ Kept /\ Rest
<1> USE DEF TypeInv, TypeOK, browsers, After
<1>1. CASE SendWebPush
  <2>1. Told \subseteq Endpoints
    BY DEF Told, Active, Session
  <2>2. Kept
    BY <1>1 DEF SendWebPush, Kept
  <2>3. Rest
    <3>1. rounds' \in 0..MaxRounds
      BY <1>1 DEF SendWebPush
    <3>2. sender' \in [pc : {"idle", "send", "gone"}, todo : SUBSET Endpoints, e : Endpoints \cup {None}]
      BY <1>1, <2>1 DEF SendWebPush
    <3>3. UNCHANGED <<logins, browsers, posts, faults>>
      BY <1>1 DEF SendWebPush
    <3> QED
      BY <3>1, <3>2, <3>3 DEF Rest
  <2> QED
    BY <2>2, <2>3, RestKeepsType
<1>2. CASE SendNotification
  <2>1. Kept
    BY <1>2 DEF SendNotification, Kept
  <2>2. Rest
    BY <1>2 DEF SendNotification, Fault, Rest
  <2> QED
    BY <2>1, <2>2, RestKeepsType
<1>3. CASE EndpointGone
  <2>1. Kept
    <3>1. CASE session' = session
      BY <3>1 DEF Kept
    <3>2. CASE session' # session
      <4> DEFINE r(l) == IF l \in Silenced THEN [session[l] EXCEPT !.push_revoked = TRUE] ELSE session[l]
      <4>1. session' = [l \in Logins |-> r(l)]
        BY <1>3, <3>2 DEF EndpointGone
      <4>2. \A l \in Logins : r(l) \in Session /\ r(l).exists = session[l].exists /\ (Free(r(l)) => Free(session[l]))
        BY Changes
      <4> HIDE DEF r
      <4> QED
        BY <4>1, <4>2 DEF Kept
    <3> QED
      BY <3>1, <3>2
  <2>2. Rest
    BY <1>3 DEF EndpointGone, Fault, Rest
  <2> QED
    BY <2>1, <2>2, RestKeepsType
<1> QED
  BY <1>1, <1>2, <1>3

\* who takes a step
LEMMA Steps ==
  ASSUME [Next]_vars
  PROVE  \/ \E l \in Logins :
              \/ \E k \in Links, b \in Browsers : HandleAuth(l, k, b)
              \/ MarkAuthTokenUsed(l) \/ CountSessions(l)
              \/ InsertUserSession(l) \/ SetAuthCookie(l)
         \/ \E l \in Logins : Grant(l)
         \/ \E b \in Browsers : \/ Logout(b) \/ UnsubscribeWebPush(b) \/ SubscriptionEnds(b)
                                \/ \E e \in Endpoints : EnsureWebPushSubscription(b, e)
         \/ CheckAuth \/ PushSubscribe \/ PushUnsubscribe
         \/ SendWebPush \/ SendNotification \/ EndpointGone
         \/ UNCHANGED vars
BY DEF Next

LEMMA TypeNext == TypeInv /\ [Next]_vars => TypeInv'
<1> SUFFICES ASSUME TypeInv, [Next]_vars PROVE TypeInv'
  OBVIOUS
<1>1. CASE UNCHANGED vars
  BY <1>1 DEF vars, TypeInv, TypeOK, LoginInv
<1> QED
  BY <1>1, Steps, HandleAuthKeepsType, MarkKeepsType, CountKeepsType, InsertKeepsType,
     CookieKeepsType, GrantKeepsType, BrowserKeepsType, RequestKeepsType, SenderKeepsType

(* Typing: every variable keeps its type; a cookie is that of a session.   *)
THEOREM Typing == Spec => []TypeOK
<1>1. TypeInv => TypeOK
  BY DEF TypeInv
<1> QED
  BY <1>1, TypeInit, TypeNext, PTL DEF Spec
-----------------------------------------------------------------------------
(* One session for a link                                                  *)

\* a log-in whose link is spent on it
Holds(l) == login[l].pc \in {"count", "insert", "answer"} \/ session[l].exists

HoldInv ==
  /\ \A l \in Logins : Holds(l) => used[login[l].link]
  /\ \A l, o \in Logins : Holds(l) /\ Holds(o) /\ login[l].link = login[o].link => l = o

LEMMA NoNewHolder ==
  ASSUME HoldInv, used' = used,
         \A l \in Logins : Holds(l)' => Holds(l) /\ login'[l].link = login[l].link
  PROVE  HoldInv'
BY DEF HoldInv

\* a request moves from one place to another
LEMMA Moves ==
  ASSUME TypeInv, NEW l \in Logins, NEW pc
  PROVE  /\ Goto(l, pc) => /\ login'[l].pc = pc /\ login'[l].link = login[l].link
                           /\ \A o \in Logins \ {l} : login'[o] = login[o]
         /\ Over(l) => /\ login'[l].pc = "over" /\ login'[l].link = login[l].link
                       /\ \A o \in Logins \ {l} : login'[o] = login[o]
<1>1. login \in [Logins -> Login] /\ login[l] \in Login
  BY DEF TypeInv, TypeOK
<1> DEFINE r == [login[l] EXCEPT !.pc = pc]
<1> DEFINE q == [login[l] EXCEPT !.pc = "over", !.from = None, !.approved = FALSE]
<1>2. /\ r.pc = pc /\ r.link = login[l].link
      /\ q.pc = "over" /\ q.link = login[l].link
  BY <1>1 DEF Login
<1>3. /\ Goto(l, pc) => login' = [login EXCEPT ![l] = r]
      /\ Over(l) => login' = [login EXCEPT ![l] = q]
  BY DEF Goto, Over
<1> HIDE DEF r, q
<1> QED
  BY <1>1, <1>2, <1>3

LEMMA HandleAuthKeepsHold ==
  ASSUME TypeInv, HoldInv, NEW l \in Logins, NEW k \in Links, NEW b \in Browsers, HandleAuth(l, k, b)
  PROVE  HoldInv'
<1>1. used' = used /\ session' = session /\ login[l].pc = "new" /\ ~session[l].exists
  BY DEF HandleAuth, TypeInv, LoginInv
<1>2. login'[l].pc \in {"mark", "over"} /\ \A o \in Logins \ {l} : login'[o] = login[o]
  BY Moves DEF HandleAuth, TypeInv, TypeOK
<1>3. \A o \in Logins : Holds(o)' => Holds(o) /\ login'[o].link = login[o].link
  BY <1>1, <1>2 DEF Holds
<1> QED
  BY <1>1, <1>3, NoNewHolder

LEMMA MarkKeepsHold ==
  ASSUME TypeInv, HoldInv, NEW l \in Logins, MarkAuthTokenUsed(l) PROVE HoldInv'
<1>1. /\ session' = session /\ login[l].pc = "mark" /\ login[l].link \in Links
      /\ used \in [Links -> BOOLEAN]
      /\ \A o \in Logins : Holds(o) => login[o].link \in Links
  BY DEF MarkAuthTokenUsed, TypeInv, TypeOK, LoginInv, Holds
<1>2. CASE Over(l)
  <2>1. \A o \in Logins : Holds(o)' => Holds(o) /\ login'[o].link = login[o].link
    BY <1>1, <1>2, Moves DEF Holds
  <2>2. CASE used' = used
    BY <2>1, <2>2, NoNewHolder
  <2>3. CASE used' = [used EXCEPT ![login[l].link] = TRUE]
    BY <2>1, <2>3, <1>1 DEF HoldInv
  <2> QED
    BY <2>2, <2>3 DEF MarkAuthTokenUsed
<1>3. CASE ~Over(l)
  <2>1. ~used[login[l].link] /\ used' = [used EXCEPT ![login[l].link] = TRUE] /\ Goto(l, "count")
    BY <1>3 DEF MarkAuthTokenUsed
  <2>2. \A o \in Logins : login'[o].link = login[o].link /\ (o # l => (Holds(o)' => Holds(o)))
    BY <1>1, <2>1, Moves DEF Holds
  <2>3. \A o \in Logins : Holds(o) => login[o].link # login[l].link
    BY <2>1 DEF HoldInv
  <2>4. \A o \in Logins : Holds(o)' => used'[login'[o].link]
    BY <1>1, <2>1, <2>2 DEF HoldInv
  <2>5. \A o, p \in Logins : Holds(o)' /\ Holds(p)' /\ login'[o].link = login'[p].link => o = p
    BY <2>2, <2>3 DEF HoldInv
  <2> QED
    BY <2>4, <2>5 DEF HoldInv
<1> QED
  BY <1>2, <1>3

LEMMA LaterKeepsHold ==
  ASSUME TypeInv, HoldInv, NEW l \in Logins,
         CountSessions(l) \/ InsertUserSession(l) \/ SetAuthCookie(l)
  PROVE  HoldInv'
<1>1. used' = used /\ Holds(l) /\ login \in [Logins -> Login] /\ session \in [Logins -> Session]
  BY DEF CountSessions, InsertUserSession, SetAuthCookie, Holds, TypeInv, TypeOK
<1>2. \A o \in Logins \ {l} : session'[o] = session[o]
  BY <1>1 DEF CountSessions, InsertUserSession, SetAuthCookie
<1>3. /\ \A o \in Logins \ {l} : login'[o] = login[o]
      /\ login'[l].link = login[l].link
  <2>1. CASE Over(l)
    BY <2>1, Moves
  <2>2. CASE Goto(l, "answer")
    BY <2>2, Moves
  <2>3. CASE login' = [login EXCEPT ![l].approved = Room, ![l].pc = "insert"]
    BY <2>3, <1>1 DEF Login
  <2> QED
    BY <2>1, <2>2, <2>3 DEF CountSessions, InsertUserSession, SetAuthCookie
<1>4. \A o \in Logins : Holds(o)' => Holds(o) /\ login'[o].link = login[o].link
  BY <1>1, <1>2, <1>3 DEF Holds
<1> QED
  BY <1>1, <1>4, NoNewHolder

LEMMA OthersKeepHold == ASSUME HoldInv, Kept, Rest PROVE HoldInv'
<1>1. \A l \in Logins : Holds(l)' => Holds(l) /\ login'[l].link = login[l].link
  BY DEF Kept, Rest, logins, Holds
<1> QED
  BY <1>1, NoNewHolder DEF Rest, logins

LEMMA HoldNext == TypeInv /\ HoldInv /\ [Next]_vars => HoldInv'
<1> SUFFICES ASSUME TypeInv, HoldInv, [Next]_vars PROVE HoldInv'
  OBVIOUS
<1>1. CASE UNCHANGED vars
  BY <1>1 DEF vars, HoldInv, Holds
<1> QED
  BY <1>1, Steps, HandleAuthKeepsHold, MarkKeepsHold, LaterKeepsHold, OthersKeepHold,
     GrantKeepsType, BrowserKeepsType, RequestKeepsType, SenderKeepsType

(* OneLogin: a link opens one session at most, whatever follows it at the  *)
(* same time and whatever fails (OneSessionPerLink).                       *)
THEOREM OneLogin == Spec => []OneSessionPerLink
<1>1. Init => HoldInv
  BY DEF Init, HoldInv, Holds, NoSession
<1>2. HoldInv => OneSessionPerLink
  BY DEF HoldInv, Holds, OneSessionPerLink
<1> QED
  BY <1>1, <1>2, TypeInit, TypeNext, HoldNext, PTL DEF Spec

-----------------------------------------------------------------------------
(* No more sessions than the limit                                         *)

\* a log-in whose session counts, or will when it is inserted
LetIn(l) == Free(session[l]) \/ (login[l].pc = "insert" /\ login[l].approved)
Promised == {l \in Logins : LetIn(l)}

\* the limit holds for those that were let in and not only for the sessions
\* that are there
CountInv == Cardinality(Promised) <= Limit + overlaps

\* nobody is let in
LEMMA NobodyLetIn ==
  ASSUME IsFiniteSet(Logins), CountInv, overlaps' = overlaps, overlaps \in Nat,
         \A l \in Logins : LetIn(l)' => LetIn(l)
  PROVE  CountInv'
<1>1. IsFiniteSet(Promised) /\ Promised' \subseteq Promised
  BY FS_Subset DEF Promised
<1>2. /\ Cardinality(Promised') <= Cardinality(Promised)
      /\ Cardinality(Promised) \in Nat /\ Cardinality(Promised') \in Nat
  BY <1>1, FS_Subset, FS_CardinalityType
<1> QED
  BY <1>2 DEF CountInv

LEMMA CountSessionsKeepsCount ==
  ASSUME IsFiniteSet(Logins), TypeInv, CountInv, NEW l \in Logins, CountSessions(l)
  PROVE  CountInv'
<1>1. /\ session' = session /\ login \in [Logins -> Login] /\ login[l].pc = "count"
      /\ overlaps \in Nat
  BY DEF CountSessions, TypeInv, TypeOK
<1>2. CASE Over(l) /\ overlaps' = overlaps
  <2>1. \A o \in Logins : LetIn(o)' => LetIn(o)
    BY <1>1, <1>2, Moves DEF LetIn
  <2> QED
    BY <1>1, <1>2, <2>1, NobodyLetIn
<1>3. CASE ~(Over(l) /\ overlaps' = overlaps)
  <2>1. /\ login' = [login EXCEPT ![l].approved = Room, ![l].pc = "insert"]
        /\ overlaps' = overlaps + (IF Room /\ Entering # {} THEN 1 ELSE 0)
    BY <1>3 DEF CountSessions
  <2>2. /\ login'[l].approved = Room
        /\ \A o \in Logins \ {l} : login'[o] = login[o]
    BY <1>1, <2>1 DEF Login
  <2>3. CASE ~Room
    <3>1. overlaps' = overlaps
      BY <1>1, <2>1, <2>3
    <3>2. \A o \in Logins : LetIn(o)' => LetIn(o)
      BY <1>1, <2>2, <2>3 DEF LetIn
    <3> QED
      BY <1>1, <3>1, <3>2, NobodyLetIn
  <2>4. CASE Room
    <3>1. IsFiniteSet(Promised) /\ Promised' \subseteq Promised \cup {l}
      BY <1>1, <2>2, FS_Subset DEF Promised, LetIn
    <3>2. /\ Cardinality(Promised') <= Cardinality(Promised) + 1
          /\ Cardinality(Promised) \in Nat /\ Cardinality(Promised') \in Nat
      <4>1. /\ IsFiniteSet(Promised \cup {l})
            /\ Cardinality(Promised \cup {l}) <= Cardinality(Promised) + 1
        <5>1. IsFiniteSet(Promised \cup {l}) /\ Cardinality(Promised) \in Nat
          BY <3>1, FS_AddElement, FS_CardinalityType
        <5>2. CASE l \in Promised
          <6>1. Promised \cup {l} = Promised
            BY <5>2
          <6>2. Cardinality(Promised \cup {l}) = Cardinality(Promised)
            BY <6>1
          <6> QED
            BY <5>1, <6>2
        <5>3. CASE l \notin Promised
          BY <3>1, <5>1, <5>3, FS_AddElement
        <5> QED
          BY <5>2, <5>3
      <4>2. Cardinality(Promised') <= Cardinality(Promised \cup {l})
        BY <3>1, <4>1, FS_Subset
      <4>3. /\ Cardinality(Promised) \in Nat /\ Cardinality(Promised') \in Nat
            /\ Cardinality(Promised \cup {l}) \in Nat
        BY <3>1, <4>1, FS_Subset, FS_CardinalityType
      <4> QED
        BY <4>1, <4>2, <4>3
    <3>3. CASE Entering # {}
      <4>1. overlaps' = overlaps + 1
        BY <2>1, <2>4, <3>3
      <4> QED
        BY <1>1, <3>2, <4>1 DEF CountInv
    <3>4. CASE Entering = {}
      <4>1. overlaps' = overlaps
        BY <1>1, <2>1, <3>4
      <4>2. Promised \subseteq Active /\ IsFiniteSet(Active)
        BY <3>4, FS_Subset DEF Promised, LetIn, Entering, Active, Free
      <4>3. Cardinality(Promised) <= Cardinality(Active) /\ Cardinality(Active) \in Nat
        BY <4>2, FS_Subset, FS_CardinalityType
      <4>4. Cardinality(Active) < Limit
        BY <2>4 DEF Room
      <4> QED
        BY <1>1, <3>2, <4>1, <4>3, <4>4 DEF CountInv
    <3> QED
      BY <3>3, <3>4
  <2> QED
    BY <2>3, <2>4
<1> QED
  BY <1>2, <1>3

LEMMA InsertKeepsCount ==
  ASSUME IsFiniteSet(Logins), TypeInv, CountInv, NEW l \in Logins, InsertUserSession(l)
  PROVE  CountInv'
<1>1. /\ login \in [Logins -> Login] /\ session \in [Logins -> Session]
      /\ login[l].pc = "insert" /\ overlaps' = overlaps /\ overlaps \in Nat
  BY DEF InsertUserSession, TypeInv, TypeOK
<1>2. /\ login'[l].pc # "insert"
      /\ \A o \in Logins \ {l} : login'[o] = login[o]
  BY Moves DEF InsertUserSession
<1>3. CASE session' = session
  <2>1. \A o \in Logins : LetIn(o)' => LetIn(o)
    BY <1>2, <1>3 DEF LetIn
  <2> QED
    BY <1>1, <2>1, NobodyLetIn
<1>4. CASE session' # session
  <2> DEFINE new == [NoSession EXCEPT !.exists = TRUE, !.approved = login[l].approved]
  <2>1. session' = [session EXCEPT ![l] = new]
    BY <1>4 DEF InsertUserSession
  <2>2. Free(new) => login[l].approved
    BY DEF NoSession, Free
  <2> HIDE DEF new
  <2>3. /\ Free(session'[l]) => login[l].approved
        /\ \A o \in Logins \ {l} : session'[o] = session[o]
    BY <1>1, <2>1, <2>2
  <2>4. \A o \in Logins : LetIn(o)' => LetIn(o)
    BY <1>1, <1>2, <2>3 DEF LetIn
  <2> QED
    BY <1>1, <2>4, NobodyLetIn
<1> QED
  BY <1>3, <1>4

LEMMA RequestKeepsCount ==
  ASSUME IsFiniteSet(Logins), TypeInv, CountInv, NEW l \in Logins,
         \/ \E k \in Links, b \in Browsers : HandleAuth(l, k, b)
         \/ MarkAuthTokenUsed(l) \/ SetAuthCookie(l)
  PROVE  CountInv'
<1>1. overlaps' = overlaps /\ session' = session /\ overlaps \in Nat
  BY DEF HandleAuth, MarkAuthTokenUsed, SetAuthCookie, TypeInv, TypeOK
<1>2. login'[l].pc \in {"mark", "count", "over"} /\ \A o \in Logins \ {l} : login'[o] = login[o]
  <2>1. CASE \E k \in Links, b \in Browsers : HandleAuth(l, k, b)
    BY <2>1, Moves DEF HandleAuth, TypeInv, TypeOK
  <2>2. CASE MarkAuthTokenUsed(l) \/ SetAuthCookie(l)
    BY <2>2, Moves DEF MarkAuthTokenUsed, SetAuthCookie
  <2> QED
    BY <2>1, <2>2
<1>3. \A o \in Logins : LetIn(o)' => LetIn(o)
  BY <1>1, <1>2 DEF LetIn
<1> QED
  BY <1>1, <1>3, NobodyLetIn

LEMMA OthersKeepCount ==
  ASSUME IsFiniteSet(Logins), TypeInv, CountInv, Kept, Rest PROVE CountInv'
<1>1. overlaps' = overlaps /\ overlaps \in Nat
  BY DEF Rest, logins, TypeInv, TypeOK
<1>2. \A l \in Logins : LetIn(l)' => LetIn(l)
  BY DEF Kept, Rest, logins, LetIn
<1> QED
  BY <1>1, <1>2, NobodyLetIn

LEMMA CountNext ==
  ASSUME IsFiniteSet(Logins) PROVE TypeInv /\ CountInv /\ [Next]_vars => CountInv'
<1> SUFFICES ASSUME TypeInv, CountInv, [Next]_vars PROVE CountInv'
  OBVIOUS
<1>1. CASE UNCHANGED vars
  BY <1>1 DEF vars, CountInv, Promised, LetIn
<1> QED
  BY <1>1, Steps, CountSessionsKeepsCount, InsertKeepsCount, RequestKeepsCount, OthersKeepCount,
     GrantKeepsType, BrowserKeepsType, RequestKeepsType, SenderKeepsType

(* WithinLimit: with finitely many log-ins, no more sessions count than    *)
(* the limit without the administrator's doing, but for one more with each *)
(* log-in that was let in between another's count and insert               *)
(* (WithinLimitButOverlaps).                                               *)
THEOREM WithinLimit == ASSUME IsFiniteSet(Logins) PROVE Spec => []WithinLimitButOverlaps
<1>1. Init => CountInv
  <2> SUFFICES ASSUME Init PROVE CountInv
    OBVIOUS
  <2>1. Promised = {} /\ overlaps = 0
    BY DEF Init, Promised, LetIn, Free, NoSession
  <2> QED
    BY <2>1, FS_EmptySet DEF CountInv
<1>2. TypeInv /\ CountInv => WithinLimitButOverlaps
  <2> SUFFICES ASSUME TypeInv, CountInv PROVE WithinLimitButOverlaps
    OBVIOUS
  <2> DEFINE C == {l \in Active : ~session[l].granted}
  <2>1. IsFiniteSet(Promised) /\ C \subseteq Promised /\ overlaps \in Nat
    BY FS_Subset DEF Promised, LetIn, Active, Free, TypeInv, TypeOK
  <2> HIDE DEF C
  <2>2. /\ Cardinality(C) <= Cardinality(Promised)
        /\ Cardinality(C) \in Nat /\ Cardinality(Promised) \in Nat
    BY <2>1, FS_Subset, FS_CardinalityType
  <2>3. Cardinality(C) <= Limit + overlaps
    BY <2>1, <2>2 DEF CountInv
  <2> QED
    BY <2>3 DEF WithinLimitButOverlaps, C
<1>3. TypeInv /\ CountInv /\ [Next]_vars => CountInv'
  BY CountNext
<1> QED
  BY <1>1, <1>2, <1>3, TypeInit, TypeNext, PTL DEF Spec

-----------------------------------------------------------------------------
(* Whom a push service's word silences                                     *)

\* A subscription is made once, and by one browser: one that the push service
\* did not know never comes back, and a request to give one up that a browser
\* still has is what the browser last asked.
DeadInv ==
  /\ \A b \in Browsers : endpoint[b] # None => endpoint[b] \in made
  /\ \A b, c \in Browsers : endpoint[b] # None /\ endpoint[b] = endpoint[c] => b = c
  /\ \A l \in Logins : session[l].endpoint # None => session[l].endpoint \in made
  /\ \A p \in posts : p.endpoint \in made
  /\ \A p \in posts, b \in Browsers : p.op = "off" /\ p.endpoint = endpoint[b] => asked[b] = "off"
  /\ sender.todo \subseteq made
  /\ sender.pc = "gone" => sender.e \in made /\ \A b \in Browsers : endpoint[b] # sender.e
  /\ SilencedOnlyIfMisled

\* what the server knows of a browser's subscription
SamePush(l) ==
  /\ session'[l].endpoint = session[l].endpoint
  /\ session'[l].push_revoked <=> session[l].push_revoked
  /\ session'[l].misled = session[l].misled

\* a step that tells no session of pushes
LEMMA QuietKeepsDead ==
  ASSUME DeadInv, UNCHANGED <<browsers, sender>>,
         \A p \in posts' : \E q \in posts : p.endpoint = q.endpoint /\ p.op = q.op,
         \A l \in Logins : SamePush(l) \/ session'[l].endpoint = None
  PROVE  DeadInv'
<1>1. UNCHANGED <<endpoint, made, asked, sender>>
  BY DEF browsers
<1>2. SilencedOnlyIfMisled'
  BY <1>1 DEF DeadInv, SilencedOnlyIfMisled, SamePush
<1>3. \A l \in Logins : session'[l].endpoint # None => session'[l].endpoint \in made
  BY <1>1 DEF DeadInv, SamePush
<1> QED
  BY <1>1, <1>2, <1>3 DEF DeadInv

LEMMA LoginKeepsDead ==
  ASSUME TypeInv, DeadInv, NEW l \in Logins,
         \/ \E k \in Links, b \in Browsers : HandleAuth(l, k, b)
         \/ MarkAuthTokenUsed(l) \/ CountSessions(l)
         \/ InsertUserSession(l) \/ Grant(l)
  PROVE  DeadInv'
<1>1. session \in [Logins -> Session] /\ UNCHANGED <<browsers, posts, sender>>
  BY DEF HandleAuth, MarkAuthTokenUsed, CountSessions, InsertUserSession, Grant, pushes, TypeInv, TypeOK
<1>2. \A o \in Logins : SamePush(o) \/ session'[o].endpoint = None
  <2>1. CASE session' = session
    BY <2>1 DEF SamePush
  <2>2. CASE InsertUserSession(l) /\ session' # session
    <3> DEFINE new == [NoSession EXCEPT !.exists = TRUE, !.approved = login[l].approved]
    <3>1. session' = [session EXCEPT ![l] = new]
      BY <2>2 DEF InsertUserSession
    <3>2. new.endpoint = None
      BY DEF NoSession
    <3> HIDE DEF new
    <3> QED
      <4>1. session'[l] = new /\ \A o \in Logins \ {l} : session'[o] = session[o]
        BY <1>1, <3>1
      <4>2. \A o \in Logins \ {l} : SamePush(o)
        BY <4>1 DEF SamePush
      <4> QED
        BY <3>2, <4>1, <4>2
  <2>3. CASE Grant(l)
    <3> DEFINE r == [session[l] EXCEPT !.approved = TRUE, !.granted = TRUE]
    <3>1. session' = [session EXCEPT ![l] = r]
      BY <2>3 DEF Grant
    <3>2. /\ r.misled = session[l].misled /\ r.endpoint = session[l].endpoint
          /\ r.push_revoked <=> session[l].push_revoked
      BY <1>1 DEF Session
    <3> HIDE DEF r
    <3> QED
      <4>1. session'[l] = r /\ \A o \in Logins \ {l} : session'[o] = session[o]
        BY <1>1, <3>1
      <4> QED
        BY <3>2, <4>1 DEF SamePush
  <2> QED
    BY <2>1, <2>2, <2>3 DEF HandleAuth, MarkAuthTokenUsed, CountSessions
<1> QED
  BY <1>1, <1>2, QuietKeepsDead

LEMMA CookieKeepsDead ==
  ASSUME DeadInv, NEW l \in Logins, SetAuthCookie(l) PROVE DeadInv'
BY DEF SetAuthCookie, pushes, DeadInv, SilencedOnlyIfMisled

LEMMA LogoutKeepsDead ==
  ASSUME TypeInv, DeadInv, NEW b \in Browsers, Logout(b) PROVE DeadInv'
<1>1. session \in [Logins -> Session] /\ cookie[b] \in Logins
  BY DEF Logout, TypeInv, TypeOK
<1>2. UNCHANGED <<endpoint, made, asked, posts, sender>>
  BY DEF Logout, pushes
<1> DEFINE r == [session[cookie[b]] EXCEPT !.revoked = TRUE]
<1>3. session' = session \/ session' = [session EXCEPT ![cookie[b]] = r]
  BY DEF Logout
<1>4. /\ r.misled = session[cookie[b]].misled /\ r.endpoint = session[cookie[b]].endpoint
      /\ r.push_revoked <=> session[cookie[b]].push_revoked
  BY <1>1 DEF Session
<1> HIDE DEF r
<1>5. \A l \in Logins : SamePush(l)
  BY <1>1, <1>3, <1>4 DEF SamePush
<1> QED
  BY <1>2, <1>5 DEF DeadInv, SilencedOnlyIfMisled, SamePush

LEMMA BrowserKeepsDead ==
  ASSUME TypeInv, DeadInv, NEW b \in Browsers,
         \/ UnsubscribeWebPush(b) \/ SubscriptionEnds(b)
         \/ \E e \in Endpoints : EnsureWebPushSubscription(b, e)
  PROVE  DeadInv'
<1> USE DEF DeadInv, SilencedOnlyIfMisled, browsers, pushes, TypeInv, TypeOK
<1>1. CASE UnsubscribeWebPush(b)
  <2>1. /\ UNCHANGED <<session, endpoint, made, sender>>
        /\ endpoint[b] # None /\ endpoint[b] \in made
        /\ asked' = [asked EXCEPT ![b] = "off"]
    BY <1>1 DEF UnsubscribeWebPush, AskPush
  <2>2. \A p \in posts' : p \in posts \/ p.endpoint = endpoint[b]
    BY <1>1 DEF UnsubscribeWebPush, AskPush
  <2>3. asked'[b] = "off" /\ \A c \in Browsers : c # b => asked'[c] = asked[c]
    BY <2>1
  <2>4. \A p \in posts', c \in Browsers : p.op = "off" /\ p.endpoint = endpoint[c] => asked'[c] = "off"
    BY <2>1, <2>2, <2>3
  <2>5. SilencedOnlyIfMisled'
    BY <2>1, <2>3
  <2> QED
    BY <2>1, <2>2, <2>4, <2>5
<1>2. CASE SubscriptionEnds(b)
  <2>1. UNCHANGED <<session, made, posts, sender>>
    BY <1>2 DEF SubscriptionEnds
  <2>2. \A c \in Browsers :
          \/ endpoint'[c] = None
          \/ endpoint'[c] = endpoint[c] /\ asked'[c] = asked[c]
    BY <1>2 DEF SubscriptionEnds
  <2>3. \A p \in posts : p.endpoint # None
    BY DEF Post
  <2>4. sender.pc = "gone" => sender.e # None
    OBVIOUS
  <2>5. SilencedOnlyIfMisled'
    BY <2>1, <2>2
  <2>6. \A p \in posts', c \in Browsers : p.op = "off" /\ p.endpoint = endpoint'[c] => asked'[c] = "off"
    BY <2>1, <2>2, <2>3
  <2> QED
    BY <2>1, <2>2, <2>4, <2>5, <2>6
<1>3. ASSUME NEW e \in Endpoints, EnsureWebPushSubscription(b, e) PROVE DeadInv'
  <2>1. /\ UNCHANGED <<session, sender>> /\ e \notin made /\ made' = made \cup {e}
        /\ endpoint' = [endpoint EXCEPT ![b] = e]
        /\ asked' = [asked EXCEPT ![b] = "on"]
    BY <1>3 DEF EnsureWebPushSubscription, AskPush
  <2>2. \A p \in posts' : p \in posts \/ (p.endpoint = e /\ p.op = "on")
    BY <1>3 DEF EnsureWebPushSubscription, AskPush
  <2>3. /\ endpoint'[b] = e
        /\ \A c \in Browsers : c # b => endpoint'[c] = endpoint[c] /\ asked'[c] = asked[c]
    BY <2>1
  <2>4. e # None /\ \A l \in Logins : session[l].endpoint # e
    BY <2>1
  <2>5. sender.pc = "gone" => sender.e # e
    BY <2>1
  <2>6. \A p \in posts', c \in Browsers : p.op = "off" /\ p.endpoint = endpoint'[c] => asked'[c] = "off"
    <3> SUFFICES ASSUME NEW p \in posts', NEW c \in Browsers, p.op = "off", p.endpoint = endpoint'[c]
                 PROVE  asked'[c] = "off"
      OBVIOUS
    <3>1. p \in posts /\ p.endpoint # e
      BY <2>1, <2>2
    <3> QED
      BY <2>3, <3>1
  <2>7. SilencedOnlyIfMisled'
    BY <2>1, <2>3, <2>4
  <2>8. \A c, d \in Browsers : endpoint'[c] # None /\ endpoint'[c] = endpoint'[d] => c = d
    BY <2>1, <2>3
  <2> QED
    BY <2>1, <2>2, <2>3, <2>5, <2>6, <2>7, <2>8
<1> QED
  BY <1>1, <1>2, <1>3

LEMMA CheckAuthKeepsDead == ASSUME TypeInv, DeadInv, CheckAuth PROVE DeadInv'
<1>1. UNCHANGED <<session, browsers, sender>>
  BY DEF CheckAuth, pushes
<1>2. PICK p \in posts : posts' \subseteq posts \cup {[p EXCEPT !.passed = TRUE]}
  BY DEF CheckAuth
<1>3. [p EXCEPT !.passed = TRUE].endpoint = p.endpoint /\ [p EXCEPT !.passed = TRUE].op = p.op
  BY DEF TypeInv, TypeOK, Post
<1>4. \A q \in posts' : \E o \in posts : q.endpoint = o.endpoint /\ q.op = o.op
  BY <1>2, <1>3
<1> QED
  BY <1>1, <1>4, QuietKeepsDead DEF SamePush

LEMMA PostKeepsDead == ASSUME TypeInv, DeadInv, PushSubscribe \/ PushUnsubscribe PROVE DeadInv'
<1>1. UNCHANGED <<endpoint, made, asked, sender>> /\ posts' \subseteq posts
  BY DEF PushSubscribe, PushUnsubscribe, browsers, pushes
<1>2. PICK p \in posts :
        \/ session' = [session EXCEPT ![p.session] =
                        [@ EXCEPT !.endpoint = p.endpoint, !.push_revoked = FALSE, !.misled = FALSE]]
        \/ /\ p.op = "off"
           /\ session' = [session EXCEPT ![p.session] = SilencedBy(p)]
        \/ session' = session
  BY DEF PushSubscribe, PushUnsubscribe
<1> DEFINE s == session[p.session]
           on == [s EXCEPT !.endpoint = p.endpoint, !.push_revoked = FALSE, !.misled = FALSE]
           off == SilencedBy(p)
<1>3. p.session \in Logins /\ session \in [Logins -> Session]
  BY DEF TypeInv, TypeOK, Post
<1>4. \/ session' = [session EXCEPT ![p.session] = on]
      \/ p.op = "off" /\ session' = [session EXCEPT ![p.session] = off]
      \/ session' = session
  BY <1>2
<1>5. on.endpoint = p.endpoint /\ ~on.push_revoked
  BY <1>3 DEF Session
<1>6. /\ off.endpoint = s.endpoint
      /\ off.misled <=> s.misled \/ (~s.push_revoked /\ s.endpoint # p.endpoint)
  BY <1>3, SilenceChanges
<1> HIDE DEF on, off
<1>7. \A l \in Logins :
        \/ session'[l] = session[l]
        \/ session'[l].endpoint = p.endpoint /\ ~session'[l].push_revoked
        \/ /\ p.op = "off" /\ l = p.session
           /\ session'[l].endpoint = session[l].endpoint /\ session'[l].misled = off.misled
  BY <1>3, <1>4, <1>5, <1>6
<1>8. SilencedOnlyIfMisled'
  <2> SUFFICES ASSUME NEW b \in Browsers, NEW l \in Logins, asked[b] = "on", endpoint[b] # None,
                      session'[l].endpoint = endpoint[b], session'[l].push_revoked
               PROVE  session'[l].misled
    BY <1>1 DEF SilencedOnlyIfMisled
  <2>1. CASE session'[l] = session[l]
    BY <2>1 DEF DeadInv, SilencedOnlyIfMisled
  <2>2. CASE /\ p.op = "off" /\ l = p.session
             /\ session'[l].endpoint = session[l].endpoint /\ session'[l].misled = off.misled
    <3>1. p.endpoint # endpoint[b]
      BY <2>2 DEF DeadInv
    <3>2. CASE s.push_revoked
      BY <1>6, <2>2, <3>2 DEF DeadInv, SilencedOnlyIfMisled
    <3>3. CASE ~s.push_revoked
      BY <1>6, <2>2, <3>1, <3>3
    <3> QED
      BY <3>2, <3>3
  <2> QED
    BY <1>7, <2>1, <2>2
<1>9. \A l \in Logins : session'[l].endpoint # None => session'[l].endpoint \in made
  BY <1>7 DEF DeadInv
<1> QED
  BY <1>1, <1>8, <1>9 DEF DeadInv

LEMMA SendKeepsDead == ASSUME TypeInv, DeadInv, SendWebPush \/ SendNotification PROVE DeadInv'
<1>1. UNCHANGED <<session, endpoint, made, asked, posts>>
  BY DEF SendWebPush, SendNotification, browsers
<1>2. sender \in [pc : {"idle", "send", "gone"}, todo : SUBSET Endpoints, e : Endpoints \cup {None}]
  BY DEF TypeInv, TypeOK
<1>3. /\ sender'.todo \subseteq made
      /\ sender'.pc = "gone" => sender'.e \in made /\ \A b \in Browsers : endpoint[b] # sender'.e
  <2>1. CASE SendWebPush
    <3>1. Told \subseteq made
      BY DEF Told, Active, DeadInv
    <3>2. sender.pc = "idle" /\ (sender' = sender \/ sender' = [sender EXCEPT !.pc = "send", !.todo = Told])
      BY <2>1 DEF SendWebPush
    <3>3. sender.todo \subseteq made
      BY DEF DeadInv
    <3>4. sender'.todo \subseteq made /\ sender'.pc # "gone"
      BY <1>2, <3>1, <3>2, <3>3
    <3> QED
      BY <3>4
  <2>2. CASE SendNotification
    <3>1. PICK e \in sender.todo :
            \/ sender' = After(sender.todo \ {e}) \/ sender' = After({})
            \/ e \notin Live /\ sender' = [pc |-> "gone", todo |-> sender.todo \ {e}, e |-> e]
      BY <2>2 DEF SendNotification
    <3>2. e \in made /\ e # None
      BY <1>2 DEF DeadInv
    <3> QED
      BY <3>1, <3>2 DEF After, DeadInv, Live
  <2> QED
    BY <2>1, <2>2
<1> QED
  BY <1>1, <1>3 DEF DeadInv, SilencedOnlyIfMisled

LEMMA GoneKeepsDead == ASSUME TypeInv, DeadInv, EndpointGone PROVE DeadInv'
<1>1. UNCHANGED <<endpoint, made, asked, posts>> /\ sender.pc = "gone" /\ sender' = After(sender.todo)
  BY DEF EndpointGone, browsers
<1>2. sender'.todo = sender.todo /\ sender'.pc # "gone"
  BY <1>1 DEF After
<1>3. \A b \in Browsers : endpoint[b] # sender.e
  BY <1>1 DEF DeadInv
<1>4. \A l \in Logins :
        \/ session'[l] = session[l]
        \/ session'[l].endpoint = session[l].endpoint /\ session[l].endpoint = sender.e
  <2>1. CASE session' = session
    BY <2>1
  <2>2. CASE session' # session
    <3> DEFINE r(l) == [session[l] EXCEPT !.push_revoked = TRUE]
    <3>1. session' = [l \in Logins |-> IF l \in Silenced THEN r(l) ELSE session[l]]
      BY <2>2 DEF EndpointGone
    <3>2. \A l \in Logins : r(l).endpoint = session[l].endpoint
      BY DEF TypeInv, TypeOK, Session
    <3> HIDE DEF r
    <3> QED
      BY <3>1, <3>2 DEF Silenced
  <2> QED
    BY <2>1, <2>2
<1> QED
  BY <1>1, <1>2, <1>3, <1>4 DEF DeadInv, SilencedOnlyIfMisled

LEMMA DeadNext == TypeInv /\ DeadInv /\ [Next]_vars => DeadInv'
<1> SUFFICES ASSUME TypeInv, DeadInv, [Next]_vars PROVE DeadInv'
  OBVIOUS
<1>1. CASE UNCHANGED vars
  BY <1>1 DEF vars, DeadInv, SilencedOnlyIfMisled
<1> QED
  BY <1>1, Steps, LoginKeepsDead, CookieKeepsDead, LogoutKeepsDead, BrowserKeepsDead,
     CheckAuthKeepsDead, PostKeepsDead, SendKeepsDead, GoneKeepsDead

(* OnlyTheMisled: a session that has the live subscription of a browser    *)
(* which last asked for pushes is silenced only by a request to give up an *)
(* older one that was overtaken, and never by a push service's word        *)
(* (SilencedOnlyIfMisled).                                                 *)
THEOREM OnlyTheMisled == Spec => []SilencedOnlyIfMisled
<1>1. Init => DeadInv
  BY DEF Init, DeadInv, SilencedOnlyIfMisled, NoSession, After
<1>2. DeadInv => SilencedOnlyIfMisled
  BY DEF DeadInv
<1> QED
  BY <1>1, <1>2, TypeInit, TypeNext, DeadNext, PTL DEF Spec

=============================================================================
