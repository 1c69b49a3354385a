------------------------------ MODULE Sessions ------------------------------
(***************************************************************************)
(* Web requests and the sessions they belong to: answer_to_connection and  *)
(* request_completed of web_handler.c, sessionmanagement.c, and the login, *)
(* logout and user requests of pageRender.c.                               *)
(*                                                                         *)
(* One thread makes all callbacks, but the callbacks of several            *)
(* connections alternate: the first of a request looks up the session and  *)
(* keeps a pointer to it, the last uses the pointer, and in between other  *)
(* requests may clear old sessions, also this one when the request is      *)
(* slow.  Time is idle time, counted until a session is old enough to be   *)
(* cleared.                                                                *)
(***************************************************************************)
EXTENDS Integers, Sequences, FiniteSets, SequencesExt

CONSTANTS
  Conn,           \* connections
  Sid,            \* bound: session ids, each generated once
  User,           \* user names
  Admin,          \* the user "admin"
  Role,           \* roles a request may give to a user
  Editor,         \* roles with update_access
  NoRole,         \* the role 0 of a user who has just been created
  Nobody,         \* no session, no user, no value
  MaxClients,     \* MAXCLIENTS
  MaxSessions,    \* MAX_SESSIONS
  MaxAge,         \* MAX_AGE: idle time after which a session is cleared
  RetryThrottle,  \* time after a failed login in which none is looked at
  MaxLogins       \* bound: logins, of all sessions, that were not logged out

ASSUME SessionsAssumption ==
  /\ Admin \in User
  /\ Editor \subseteq Role
  /\ NoRole \notin Role
  /\ Nobody \notin Sid \cup User \cup Role \cup {NoRole}
  /\ {MaxClients, MaxSessions, MaxAge, RetryThrottle, MaxLogins} \subseteq Nat

VARIABLES
  sessions,  \* the sessions: entries, time since last_accessed (idle), time
             \* since the failed login that is among the entries (since)
  spent,     \* ids that were generated
  users,     \* table user_access: the role of each user, or Nobody
  con,       \* con_info of each connection
  clients,   \* nr_of_clients
  broken,    \* a request used the memory of a session that had been freed
  logins,    \* history: the logins of a session, the oldest first, less one
             \* for each logout
  unused     \* history: time since a request last started with a session

vars == <<sessions, spent, users, con, clients, broken, logins, unused>>

Closed == [pc |-> "closed", method |-> "GET", sid |-> Nobody, age |-> 0]
NewSession == [entries |-> << >>, idle |-> 0, since |-> 0]

Init ==
  /\ sessions = << >>
  /\ spent = {}
  /\ users \in [{Admin} -> Editor] \* the shipped database has one user
  /\ con = [c \in Conn |-> Closed]
  /\ clients = 0
  /\ broken = FALSE
  /\ logins = [s \in Sid |-> << >>]
  /\ unused = [s \in Sid |-> 0]

------------------------------------------------------------------------------
(* The entries of a session (simpleLinkedList.c)                           *)

Entry(k, v) == [key |-> k, value |-> v]

Has(list, k) == \E i \in DOMAIN list : list[i].key = k

\* sll_searchKeys: the first entry with the key.
Value(list, k) ==
  IF Has(list, k) THEN list[SelectInSeq(list, LAMBDA e : e.key = k)].value
  ELSE Nobody

\* sll_delete of what sll_searchKeys found.
Without(list, k) == RemoveFirstMatch(list, LAMBDA e : e.key = k)

Username(s) == IF s = Nobody THEN Nobody ELSE Value(sessions[s].entries, "username")

\* accessChecks: the role comes from the session, the access from access_role.
MayEdit(s) == s # Nobody /\ Value(sessions[s].entries, "role") \in Editor

------------------------------------------------------------------------------
(* The first callback of a request                                         *)

\* Mutant: a session is cleared at the age itself.
ClearedAtAge(s) == sessions[s].idle >= MaxAge

\* clear_old_sessions: last_accessed < now - MAX_AGE
Expired(s) == sessions[s].idle > MaxAge

Alive == {s \in DOMAIN sessions : ~Expired(s)}

\* create_session counts the others, without the placeholder, and lets one
\* more in than the limit says.
Room == Cardinality(Alive) <= MaxSessions

\* Mutant: last_accessed is set for a new session only.
Untouched(e) == e

\* get_session
Touched(e) == [e EXCEPT !.idle = 0]

\* The session the cookie names, or a new one, or none.
SessionFor(cookie) ==
  IF cookie \in Alive THEN {cookie}
  ELSE IF Room THEN Sid \ spent
  ELSE {Nobody}

\* Old sessions are cleared, and the request gets session s.
GetSession(s) ==
  LET kept == Alive \cup ({s} \ {Nobody})
  IN  /\ sessions' = [x \in kept |-> IF x \notin Alive THEN NewSession
                                    ELSE IF x = s THEN Touched(sessions[x])
                                    ELSE sessions[x]]
      /\ spent' = spent \cup kept
      /\ logins' = [x \in Sid |-> IF x \in Alive THEN logins[x] ELSE << >>]
      /\ unused' = [x \in Sid |-> IF x \in kept \ {s} THEN unused[x] ELSE 0]

\* Old sessions are cleared, the session is found and con_info made; without
\* con_info the client is told that the server is busy, before any of this.
Open(c, cookie, method) ==
  /\ con[c].pc = "closed"
  /\ clients < MaxClients
  /\ \E s \in SessionFor(cookie) :
       /\ GetSession(s)
       /\ con' = [con EXCEPT ![c] =
                    [pc |-> "open", method |-> method, sid |-> s, age |-> 0]]
  /\ clients' = IF method = "POST" THEN clients + 1 ELSE clients
  /\ UNCHANGED <<users, broken>>

\* The post processor of a POST cannot be made: the session was looked up, the
\* connection is closed.
OpenFails(cookie) ==
  /\ clients < MaxClients
  /\ \E s \in SessionFor(cookie) : GetSession(s)
  /\ UNCHANGED <<users, con, clients, broken>>

------------------------------------------------------------------------------
(* The last callback: one of the requests, and its answer                  *)

\* Once it is answered nothing looks at the session of a request any more.
Answered(c) == [pc |-> "answered", method |-> con[c].method, sid |-> Nobody, age |-> 0]

\* The pointer a request has kept, if it has one, is to a session.
Intact(c) == con[c].sid = Nobody \/ con[c].sid \in DOMAIN sessions

Answer(c) ==
  /\ con[c].pc = "open"
  /\ con[c].method = "POST"
  /\ Intact(c)
  /\ con' = [con EXCEPT ![c] = Answered(c)]
  /\ UNCHANGED <<spent, clients, broken, unused>>

\* Any other request.  It leaves the session alone, and the GET of a file does
\* not even look at it.
Serve(c) ==
  /\ con[c].pc = "open"
  /\ con[c].method = "POST" => Intact(c)
  /\ con' = [con EXCEPT ![c] = Answered(c)]
  /\ UNCHANGED <<sessions, spent, users, clients, broken, logins, unused>>

\* accessChecks reads the role of a session that was freed meanwhile.  What the
\* daemon does from then on, the code does not say, and no step is modelled.
UseFreed(c) ==
  /\ con[c].pc = "open"
  /\ ~Intact(c)
  /\ broken' = TRUE
  /\ UNCHANGED <<sessions, spent, users, con, clients, logins, unused>>

TooSoon(s) ==
  /\ s # Nobody
  /\ Has(sessions[s].entries, "next_login_attempt")
  /\ sessions[s].since <= RetryThrottle

\* The entries once the failed login, which is over, has been removed.
Cleared(s) == Without(sessions[s].entries, "next_login_attempt")

\* Nothing is kept for a request without a session.
SetSession(s, new) ==
  sessions' = [x \in DOMAIN sessions |-> IF x = s THEN new ELSE sessions[x]]

\* checkLogin, a login that fails: the time of the attempt is kept, also of one
\* that came too soon.
LoginFails(c) ==
  LET s == con[c].sid
      entries == IF TooSoon(s) THEN sessions[s].entries
                 ELSE Append(Cleared(s), Entry("next_login_attempt", Nobody))
  IN  /\ Answer(c)
      /\ SetSession(s, [entries |-> entries, idle |-> sessions[s].idle, since |-> 0])
      /\ UNCHANGED <<users, logins>>

LoginsLeft == Cardinality(UNION {{s} \X DOMAIN logins[s] : s \in Sid})

\* checkLogin, the right password of user u: the name and the role are added
\* to the session, behind those of an earlier login.
LoginWorks(c, u) ==
  LET s == con[c].sid
  IN  /\ Answer(c)
      /\ u \in DOMAIN users
      /\ ~TooSoon(s)
      /\ LoginsLeft < MaxLogins   \* bound
      /\ SetSession(s, [entries |-> Cleared(s) \o <<Entry("username", u),
                                                   Entry("role", users[u])>>,
                        idle |-> sessions[s].idle, since |-> 0])
      /\ logins' = [x \in Sid |-> IF x = s
                                  THEN Append(logins[x], [user |-> u, role |-> users[u]])
                                  ELSE logins[x]]
      /\ UNCHANGED users

\* Mutant: the role is forgotten in the list of things to remove.
ForgottenButRole(list) ==
  Without(Without(list, "next_login_attempt"), "username")

\* The keys doLogout removes, the first entry of each.
Forgotten(list) ==
  Without(Without(Without(list, "next_login_attempt"), "username"), "role")

\* What is left of the logins once the oldest, if any, is gone.
AfterOldest(list) == SubSeq(list, 2, Len(list))

Logout(c) ==
  LET s == con[c].sid
  IN  /\ Answer(c)
      /\ SetSession(s, [sessions[s] EXCEPT !.entries = Forgotten(@)])
      /\ logins' = [x \in Sid |-> IF x = s THEN AfterOldest(logins[x]) ELSE logins[x]]
      /\ UNCHANGED users

\* A role in the request is for those with update_access.
RoleAllowed(s, role) == role # Nobody => MayEdit(s)

\* updateUser and createUser: the user is the one logged in ("[current]") or
\* one that is named, is created when it is missing, and gets the role.  What
\* is refused changes nothing.
UpdateUser(c, named, role) ==
  LET s == con[c].sid
      u == IF named = Nobody THEN Username(s) ELSE named
  IN  /\ Answer(c)
      /\ u # Nobody
      /\ named # Nobody => MayEdit(s)
      /\ u \in DOMAIN users \/ MayEdit(s)
      /\ RoleAllowed(s, role)
      /\ users' = [x \in DOMAIN users \cup {u} |->
                     IF x = u /\ role # Nobody THEN role
                     ELSE IF x \in DOMAIN users THEN users[x]
                     ELSE NoRole]
      /\ UNCHANGED <<sessions, logins>>

\* deleteUser: everybody but the admin; sessions of the user go on.
DeleteUser(c, u) ==
  /\ Answer(c)
  /\ MayEdit(con[c].sid)
  /\ u # Admin
  /\ users' = [x \in DOMAIN users \ {u} |-> users[x]]
  /\ UNCHANGED <<sessions, logins>>

------------------------------------------------------------------------------
\* Mutant: the counter goes down only for a request that was answered.
DiscountAnswered(c) ==
  IF con[c].method = "POST" /\ con[c].pc = "answered" THEN clients - 1 ELSE clients

\* Mutant: every request is taken for one that was counted.
DiscountAll(c) == clients - 1

\* A POST was counted when its post processor was made.
Discount(c) == IF con[c].method = "POST" THEN clients - 1 ELSE clients

\* request_completed: after the answer, or when the client goes away before it.
RequestCompleted(c) ==
  /\ con[c].pc # "closed"
  /\ clients' = Discount(c)
  /\ con' = [con EXCEPT ![c] = Closed]
  /\ UNCHANGED <<sessions, spent, users, broken, logins, unused>>

Later(n, cap) == IF n < cap THEN n + 1 ELSE cap

\* Time passes, for sessions and for requests: nothing limits how long a client
\* takes to send one.
Tick ==
  /\ con' = [c \in Conn |-> IF con[c].pc = "open"
                            THEN [con[c] EXCEPT !.age = Later(@, MaxAge + 1)] ELSE con[c]]
  /\ sessions' =
       [s \in DOMAIN sessions |->
          [sessions[s] EXCEPT
             !.idle = Later(@, MaxAge + 1),
             !.since = IF Has(sessions[s].entries, "next_login_attempt")
                       THEN Later(@, RetryThrottle + 1) ELSE @]]
  /\ unused' = [s \in Sid |-> IF s \in DOMAIN sessions
                              THEN Later(unused[s], MaxAge + 1) ELSE unused[s]]
  /\ UNCHANGED <<spent, users, clients, broken, logins>>

Request(c) ==
  \/ Serve(c)
  \/ UseFreed(c)
  \/ LoginFails(c)
  \/ \E u \in User : LoginWorks(c, u) \/ DeleteUser(c, u)
  \/ Logout(c)
  \/ \E named \in User \cup {Nobody}, role \in Role \cup {Nobody} :
       UpdateUser(c, named, role)

Running ==
  \/ \E c \in Conn, cookie \in spent \cup {Nobody}, method \in {"GET", "POST"} :
       Open(c, cookie, method)
  \/ \E cookie \in spent \cup {Nobody} : OpenFails(cookie)
  \/ \E c \in Conn : Request(c) \/ RequestCompleted(c)
  \/ Tick

Next ==
  \/ ~broken /\ Running
  \/ broken /\ UNCHANGED vars

Spec == Init /\ [][Next]_vars

------------------------------------------------------------------------------
(* Properties                                                              *)

SessionsTypeOK ==
  /\ DOMAIN sessions \subseteq spent
  /\ spent \subseteq Sid
  /\ \A s \in DOMAIN sessions :
       /\ \A i \in DOMAIN sessions[s].entries :
            sessions[s].entries[i].key \in {"next_login_attempt", "username", "role"}
       /\ sessions[s].idle \in 0..(MaxAge + 1)
       /\ sessions[s].since \in 0..(RetryThrottle + 1)
  /\ unused \in [Sid -> 0..(MaxAge + 1)]
  /\ DOMAIN users \subseteq User
  /\ \A u \in DOMAIN users : users[u] \in Role \cup {NoRole}
  /\ con \in [Conn -> [pc : {"closed", "open", "answered"}, method : {"GET", "POST"},
                       sid : Sid \cup {Nobody}, age : 0..(MaxAge + 1)]]
  /\ clients \in 0..MaxClients
  /\ broken \in BOOLEAN
  /\ \A s \in Sid : \A i \in DOMAIN logins[s] :
       logins[s][i] \in [user : User, role : Role \cup {NoRole}]

\* The client counter is the number of POSTs in progress, whether they are
\* answered, given up by the client, or never came to be: refused clients are
\* refused because of others, and the counter returns to zero.
ClientsCounted ==
  clients = Cardinality({c \in Conn : con[c].pc # "closed" /\ con[c].method = "POST"})

\* A request that takes no longer than MAX_AGE finds the session of its first
\* callback again in its last one, although the first callbacks of others clear
\* sessions in between.  Only a slower one may be left with freed memory.
SessionOutlivesRequest ==
  /\ \A c \in Conn : con[c].pc = "open" /\ ~Intact(c) => con[c].age > MaxAge
  /\ broken => \E c \in Conn : con[c].pc = "open" /\ con[c].age > MaxAge

\* A session that is used is not cleared: it goes only after MAX_AGE without a
\* request that started with it.
UsedSessionStays ==
  [][\A s \in DOMAIN sessions \ DOMAIN sessions' : unused[s] > MaxAge]_vars

\* Whom a session should act for after these logins and logouts: the oldest of
\* the logins that are left.
Oldest(s) ==
  IF logins[s] = << >> THEN [user |-> Nobody, role |-> Nobody] ELSE Head(logins[s])

\* A session acts for one login, in name and in role: the oldest one that is not
\* logged out.  Failed logins, later logins and the logins that were logged out
\* do not show, and never the name of one login with the role of another.
SessionActsForOldest ==
  \A s \in DOMAIN sessions :
    /\ Value(sessions[s].entries, "username") = Oldest(s).user
    /\ Value(sessions[s].entries, "role") = Oldest(s).role

\* What the API says (it fails, see README): a login that is answered OK leaves
\* its user and role in the session, and a logout leaves nobody in it.
LoginTakesHold ==
  [][\A c \in Conn : LET s == con[c].sid
                         list == sessions'[s].entries IN
       /\ \A u \in User : LoginWorks(c, u) =>
            s # Nobody /\ Value(list, "username") = u /\ Value(list, "role") = users[u]
       /\ Logout(c) =>
            s = Nobody \/ Value(list, "username") = Nobody]_vars

\* Users come, go and change their role only at the hands of a request whose
\* session acts for a login in a role with update_access, and the admin never
\* goes.
EditorsChangeUsers ==
  [][users' # users =>
       /\ Admin \in DOMAIN users'
       /\ \E c \in Conn :
            /\ con[c].pc = "open" /\ con'[c].pc = "answered"
            /\ con[c].sid # Nobody /\ Oldest(con[c].sid).role \in Editor]_vars
==============================================================================
