--------------------------- MODULE SessionsProofs ---------------------------
(***************************************************************************)
(* What the requests of Sessions may rely on, for any number of            *)
(* connections, sessions and logins, any limits, and clients that take any *)
(* time: who loses the session of a request, which sessions are cleared,   *)
(* whom a session acts for, and what the client counter counts.            *)
(*                                                                         *)
(* A session in the hands of a request has been idle no longer than the    *)
(* request has run, because the request looked it up when it began.  A     *)
(* request whose session is gone has run longer than sessions live, and    *)
(* since ids are never given twice it does not come back.                  *)
(***************************************************************************)
EXTENDS Sessions, FiniteSetTheorems, SequenceTheorems, TLAPS

Held(c) == con[c].pc = "open" /\ con[c].sid # Nobody

ConTyped ==
  con \in [Conn -> [pc : {"closed", "open", "answered"}, method : {"GET", "POST"},
                    sid : Sid \cup {Nobody}, age : 0..(MaxAge + 1)]]

\* The time a session was idle is the time no request started with it.
IdleIsUnused ==
  /\ DOMAIN sessions \subseteq Sid
  /\ unused \in [Sid -> 0..(MaxAge + 1)]
  /\ \A s \in DOMAIN sessions :
       /\ DOMAIN sessions[s] = {"entries", "idle", "since"}
       /\ sessions[s].idle = unused[s]

IdsAreSpent == DOMAIN sessions \subseteq spent /\ spent \subseteq Sid

\* A session has been idle no longer than any request that holds it has run; a
\* request that holds a session no more has run longer than MAX_AGE.
Covered(c) ==
  /\ con[c].sid \in spent
  /\ con[c].sid \in DOMAIN sessions => unused[con[c].sid] <= con[c].age
  /\ con[c].sid \notin DOMAIN sessions => con[c].age > MaxAge

HeldIsCovered == \A c \in Conn : Held(c) => Covered(c)

BrokenBySlow == broken => \E c \in Conn : con[c].pc = "open" /\ con[c].age > MaxAge

SessionInv == ConTyped /\ IdleIsUnused /\ IdsAreSpent /\ HeldIsCovered /\ BrokenBySlow

Posts == {c \in Conn : con[c].pc # "closed" /\ con[c].method = "POST"}
CountInv == ConTyped /\ IsFiniteSet(Posts) /\ clients = Cardinality(Posts)

LEMMA LimitsAreNat == MaxAge \in Nat /\ Nobody \notin Sid
BY SessionsAssumption

LEMMA InitSession == Init => SessionInv
<1> SUFFICES ASSUME Init PROVE SessionInv
  OBVIOUS
<1> USE LimitsAreNat DEF Init
<1>1. ConTyped
  BY DEF ConTyped, Closed
<1>2. IdleIsUnused
  BY DEF IdleIsUnused
<1>3. HeldIsCovered /\ IdsAreSpent /\ BrokenBySlow
  BY DEF HeldIsCovered, Held, Closed, IdsAreSpent, BrokenBySlow
<1> QED BY <1>1, <1>2, <1>3 DEF SessionInv

\* A session that is cleared was in the hands of slow requests only.
LEMMA HeldIsAlive ==
  ASSUME SessionInv, NEW c \in Conn, Held(c), con[c].age <= MaxAge
  PROVE  con[c].sid \in Alive
BY LimitsAreNat DEF SessionInv, ConTyped, IdleIsUnused, HeldIsCovered, Covered, Held,
  Alive, Expired

\* The first callback keeps every session that is alive, and makes the time of
\* the one it found zero.
LEMMA GetSessionKeeps ==
  ASSUME SessionInv, NEW cookie, NEW s \in SessionFor(cookie), GetSession(s)
  PROVE  /\ IdleIsUnused'
         /\ Alive \subseteq DOMAIN sessions'
         /\ s # Nobody => s \in DOMAIN sessions' /\ unused'[s] = 0
         /\ \A x \in Alive : unused'[x] <= unused[x]
         /\ s \in Sid \cup {Nobody}
         /\ IdsAreSpent' /\ spent \subseteq spent'
         /\ s # Nobody => s \in spent'
         /\ \A x \in spent : x \in DOMAIN sessions' => x \in Alive
<1> USE LimitsAreNat
<1>1. s \in Sid \cup {Nobody}
  BY DEF SessionFor, Alive, SessionInv, IdleIsUnused
<1> DEFINE kept == Alive \cup ({s} \ {Nobody})
<1>2. /\ sessions' = [x \in kept |-> IF x \notin Alive THEN NewSession
                                    ELSE IF x = s THEN Touched(sessions[x])
                                    ELSE sessions[x]]
      /\ unused' = [x \in Sid |-> IF x \in kept \ {s} THEN unused[x] ELSE 0]
  BY DEF GetSession
<1>3. Alive \subseteq DOMAIN sessions /\ DOMAIN sessions \subseteq Sid
  BY DEF Alive, SessionInv, IdleIsUnused
<1>4. DOMAIN sessions' = kept /\ kept \subseteq Sid
  BY <1>1, <1>2, <1>3
<1>5. unused' \in [Sid -> 0..(MaxAge + 1)]
  BY <1>2 DEF SessionInv, IdleIsUnused
<1>6. ASSUME NEW x \in kept
      PROVE  /\ DOMAIN sessions'[x] = {"entries", "idle", "since"}
             /\ sessions'[x].idle = unused'[x]
  <2>1. CASE x \notin Alive
    <3>1. x = s /\ sessions'[x] = NewSession /\ unused'[x] = 0
      BY <1>2, <1>4, <2>1
    <3> QED BY <3>1 DEF NewSession
  <2>2. CASE x \in Alive /\ x = s
    <3>1. sessions'[x] = [sessions[x] EXCEPT !.idle = 0] /\ unused'[x] = 0
      BY <1>2, <1>4, <2>2 DEF Touched
    <3>2. DOMAIN sessions[x] = {"entries", "idle", "since"}
      BY <1>3, <2>2 DEF SessionInv, IdleIsUnused
    <3> QED BY <3>1, <3>2
  <2>3. CASE x \in Alive /\ x # s
    <3>1. sessions'[x] = sessions[x] /\ unused'[x] = unused[x]
      BY <1>2, <1>4, <2>3
    <3> QED BY <1>3, <2>3, <3>1 DEF SessionInv, IdleIsUnused
  <2> QED BY <2>1, <2>2, <2>3
<1>7. IdleIsUnused'
  BY <1>4, <1>5, <1>6 DEF IdleIsUnused
<1>8. \A x \in Alive : unused'[x] <= unused[x]
  BY <1>2, <1>3 DEF SessionInv, IdleIsUnused
<1>9. s # Nobody => s \in DOMAIN sessions' /\ unused'[s] = 0
  BY <1>1, <1>2, <1>4
<1>10. spent' = spent \cup kept
  BY DEF GetSession
<1>11. s \in Alive \/ s = Nobody \/ s \notin spent
  BY DEF SessionFor
<1> QED BY <1>1, <1>4, <1>7, <1>8, <1>9, <1>10, <1>11 DEF SessionInv, IdsAreSpent

\* The other requests: who is not slow still has the session, and who lost it
\* does not get another one with the id.
LEMMA OthersAreCovered ==
  ASSUME SessionInv, NEW cookie, NEW s \in SessionFor(cookie), GetSession(s),
         NEW d \in Conn, Held(d), con'[d] = con[d]
  PROVE  Covered(d)'
<1>1. /\ IdleIsUnused' /\ Alive \subseteq DOMAIN sessions'
      /\ \A x \in Alive : unused'[x] <= unused[x]
      /\ spent \subseteq spent'
      /\ \A x \in spent : x \in DOMAIN sessions' => x \in Alive
  BY GetSessionKeeps
<1>2. /\ Covered(d) /\ con[d].age \in Int /\ con[d].sid \in Sid
      /\ MaxAge \in Nat /\ Alive \subseteq DOMAIN sessions
  BY LimitsAreNat DEF SessionInv, HeldIsCovered, ConTyped, Held, Alive
<1>3. unused[con[d].sid] \in Int /\ unused'[con[d].sid] \in Int
  BY <1>1, <1>2 DEF SessionInv, IdleIsUnused
<1>4. CASE con[d].sid \in Alive
  <2>1. con[d].sid \in DOMAIN sessions /\ con[d].sid \in DOMAIN sessions'
    BY <1>1, <1>2, <1>4
  <2>2. unused[con[d].sid] <= con[d].age /\ unused'[con[d].sid] <= unused[con[d].sid]
    BY <1>1, <1>2, <1>4, <2>1 DEF Covered
  <2>3. unused'[con[d].sid] <= con[d].age
    BY <1>2, <1>3, <2>2
  <2> QED BY <1>1, <1>2, <2>1, <2>3 DEF Covered
<1>5. CASE con[d].sid \notin Alive
  <2>1. con[d].sid \notin DOMAIN sessions'
    BY <1>1, <1>2, <1>5 DEF Covered
  <2>2. con[d].age > MaxAge
    BY <1>2, <1>5, HeldIsAlive
  <2> QED BY <1>1, <1>2, <2>1, <2>2 DEF Covered
<1> QED BY <1>4, <1>5

\* A request that changes the entries of its session leaves the rest alone.
LEMMA SetSessionKeeps ==
  ASSUME SessionInv, NEW s, NEW new, SetSession(s, new), UNCHANGED unused,
         s \in DOMAIN sessions =>
           /\ DOMAIN new = {"entries", "idle", "since"}
           /\ new.idle = sessions[s].idle
  PROVE  IdleIsUnused' /\ DOMAIN sessions' = DOMAIN sessions
<1>1. sessions' = [x \in DOMAIN sessions |-> IF x = s THEN new ELSE sessions[x]]
  BY DEF SetSession
<1>2. DOMAIN sessions' = DOMAIN sessions
  BY <1>1
<1>3. ASSUME NEW x \in DOMAIN sessions
      PROVE  /\ DOMAIN sessions'[x] = {"entries", "idle", "since"}
             /\ sessions'[x].idle = unused'[x]
  BY <1>1 DEF SessionInv, IdleIsUnused
<1> QED BY <1>2, <1>3 DEF SessionInv, IdleIsUnused

\* Once a request is answered it holds no session; the others hold theirs.
LEMMA AnsweredKeeps ==
  ASSUME SessionInv, NEW c \in Conn,
         con' = [con EXCEPT ![c] = Answered(c)] \/ con' = [con EXCEPT ![c] = Closed],
         UNCHANGED <<unused, spent>>, DOMAIN sessions' = DOMAIN sessions
  PROVE  ConTyped' /\ HeldIsCovered' /\ IdsAreSpent'
<1>1. ConTyped'
  BY LimitsAreNat DEF SessionInv, ConTyped, Answered, Closed
<1>2. ASSUME NEW d \in Conn, Held(d)' PROVE con'[d] = con[d] /\ Held(d)
  BY <1>2 DEF SessionInv, ConTyped, Held, Answered, Closed
<1>3. HeldIsCovered'
  BY <1>2 DEF SessionInv, HeldIsCovered, Covered
<1> QED BY <1>1, <1>3 DEF SessionInv, IdsAreSpent

\* The requests that change entries keep the session of everybody.
LEMMA RequestKeeps ==
  ASSUME SessionInv, ~broken, NEW c \in Conn, Request(c) PROVE SessionInv'
<1> DEFINE s == con[c].sid
<1>1. ASSUME Answer(c), IdleIsUnused', DOMAIN sessions' = DOMAIN sessions
      PROVE  SessionInv'
  BY <1>1, AnsweredKeeps DEF Answer, SessionInv, BrokenBySlow
<1>2. ASSUME Answer(c), UNCHANGED sessions PROVE SessionInv'
  <2>1. IdleIsUnused'
    BY <1>2 DEF Answer, SessionInv, IdleIsUnused
  <2> QED BY <1>1, <1>2, <2>1
<1>3. ASSUME Answer(c), NEW new, SetSession(s, new),
             s \in DOMAIN sessions =>
               /\ DOMAIN new = {"entries", "idle", "since"}
               /\ new.idle = sessions[s].idle
      PROVE  SessionInv'
  BY <1>1, <1>3, SetSessionKeeps DEF Answer
<1>4. CASE Serve(c)
  <2>1. con' = [con EXCEPT ![c] = Answered(c)]
        /\ UNCHANGED <<sessions, spent, broken, unused>>
    BY <1>4 DEF Serve
  <2>2. IdleIsUnused'
    BY <2>1 DEF SessionInv, IdleIsUnused
  <2> QED BY <2>1, <2>2, AnsweredKeeps DEF SessionInv, BrokenBySlow
<1>5. CASE LoginFails(c)
  <2> DEFINE kept == IF TooSoon(s) THEN sessions[s].entries
                     ELSE Append(Cleared(s), Entry("next_login_attempt", Nobody))
             new == [entries |-> kept, idle |-> sessions[s].idle, since |-> 0]
  <2>1. Answer(c) /\ SetSession(s, new)
    BY <1>5 DEF LoginFails
  <2>2. DOMAIN new = {"entries", "idle", "since"} /\ new.idle = sessions[s].idle
    OBVIOUS
  <2> HIDE DEF new
  <2> QED BY <1>3, <2>1, <2>2
<1>6. ASSUME NEW u \in User, LoginWorks(c, u) PROVE SessionInv'
  <2> DEFINE new == [entries |-> Cleared(s) \o <<Entry("username", u),
                                                 Entry("role", users[u])>>,
                     idle |-> sessions[s].idle, since |-> 0]
  <2>1. Answer(c) /\ SetSession(s, new)
    BY <1>6 DEF LoginWorks
  <2>2. DOMAIN new = {"entries", "idle", "since"} /\ new.idle = sessions[s].idle
    OBVIOUS
  <2> HIDE DEF new
  <2> QED BY <1>3, <2>1, <2>2
<1>7. CASE Logout(c)
  <2> DEFINE new == [sessions[s] EXCEPT !.entries = Forgotten(@)]
  <2>1. Answer(c) /\ SetSession(s, new)
    BY <1>7 DEF Logout
  <2>2. s \in DOMAIN sessions =>
          /\ DOMAIN new = {"entries", "idle", "since"}
          /\ new.idle = sessions[s].idle
    BY DEF SessionInv, IdleIsUnused
  <2> HIDE DEF new
  <2> QED BY <1>3, <2>1, <2>2
<1>8. ASSUME NEW u \in User, DeleteUser(c, u) PROVE SessionInv'
  BY <1>2, <1>8 DEF DeleteUser
<1>9. ASSUME NEW named, NEW role, UpdateUser(c, named, role) PROVE SessionInv'
  BY <1>2, <1>9 DEF UpdateUser
<1>10. CASE UseFreed(c)
  <2>1. con[c].pc = "open" /\ UNCHANGED <<sessions, spent, con, unused>>
    BY <1>10 DEF UseFreed
  <2>2. Held(c) /\ con[c].sid \notin DOMAIN sessions
    BY <1>10 DEF UseFreed, Intact, Held
  <2>3. con[c].age > MaxAge
    BY <2>2 DEF SessionInv, HeldIsCovered, Covered
  <2>4. BrokenBySlow'
    BY <2>1, <2>3 DEF BrokenBySlow
  <2> QED BY <2>1, <2>4 DEF SessionInv, ConTyped, IdleIsUnused, IdsAreSpent,
        HeldIsCovered, Covered, Held
<1> QED BY <1>4, <1>5, <1>6, <1>7, <1>8, <1>9, <1>10 DEF Request

LEMMA OpenKeeps ==
  ASSUME SessionInv, ~broken, NEW c \in Conn, NEW cookie, NEW method \in {"GET", "POST"},
         Open(c, cookie, method)
  PROVE  SessionInv'
<1> USE LimitsAreNat
<1>1. PICK s \in SessionFor(cookie) :
        /\ GetSession(s)
        /\ con' = [con EXCEPT ![c] =
                     [pc |-> "open", method |-> method, sid |-> s, age |-> 0]]
  BY DEF Open
<1>2. /\ IdleIsUnused' /\ Alive \subseteq DOMAIN sessions'
      /\ s # Nobody => s \in DOMAIN sessions' /\ unused'[s] = 0
      /\ \A x \in Alive : unused'[x] <= unused[x]
      /\ s \in Sid \cup {Nobody}
      /\ IdsAreSpent' /\ (s # Nobody => s \in spent')
  BY <1>1, GetSessionKeeps
<1>3. ConTyped'
  BY <1>1, <1>2 DEF SessionInv, ConTyped
<1>4. ASSUME NEW d \in Conn, Held(d)' PROVE Covered(d)'
  <2>1. CASE d = c
    <3>1. con'[d].sid = s /\ con'[d].age = 0 /\ s # Nobody
      BY <1>1, <1>4, <2>1 DEF SessionInv, ConTyped, Held
    <3> QED BY <1>2, <3>1 DEF Covered
  <2>2. CASE d # c
    <3>1. con'[d] = con[d] /\ Held(d)
      BY <1>1, <1>4, <2>2 DEF SessionInv, ConTyped, Held
    <3> QED BY <1>1, <3>1, OthersAreCovered
  <2> QED BY <2>1, <2>2
<1>5. ~broken'
  BY DEF Open
<1> QED BY <1>2, <1>3, <1>4, <1>5 DEF SessionInv, HeldIsCovered, BrokenBySlow

LEMMA OpenFailsKeeps ==
  ASSUME SessionInv, ~broken, NEW cookie, OpenFails(cookie) PROVE SessionInv'
<1>1. PICK s \in SessionFor(cookie) : GetSession(s)
  BY DEF OpenFails
<1>2. IdleIsUnused' /\ IdsAreSpent'
  BY <1>1, GetSessionKeeps
<1>3. con' = con /\ ~broken'
  BY DEF OpenFails
<1>4. ConTyped' /\ BrokenBySlow'
  BY <1>3 DEF SessionInv, ConTyped, BrokenBySlow
<1>5. ASSUME NEW d \in Conn, Held(d)' PROVE Covered(d)'
  <2>1. Held(d)
    BY <1>3, <1>5 DEF Held
  <2> QED BY <1>1, <1>3, <2>1, OthersAreCovered
<1> QED BY <1>2, <1>4, <1>5 DEF SessionInv, HeldIsCovered

\* Sessions and requests grow older together.
LEMMA TickKeeps == ASSUME SessionInv, ~broken, Tick PROVE SessionInv'
<1> USE LimitsAreNat
<1>1. /\ con' = [c \in Conn |-> IF con[c].pc = "open"
                                THEN [con[c] EXCEPT !.age = Later(@, MaxAge + 1)]
                                ELSE con[c]]
      /\ unused' = [s \in Sid |-> IF s \in DOMAIN sessions
                                  THEN Later(unused[s], MaxAge + 1) ELSE unused[s]]
      /\ DOMAIN sessions' = DOMAIN sessions
      /\ spent' = spent /\ ~broken'
  BY DEF Tick
<1>2. ConTyped'
  <2>1. ASSUME NEW c \in Conn
        PROVE  con'[c] \in [pc : {"closed", "open", "answered"}, method : {"GET", "POST"},
                            sid : Sid \cup {Nobody}, age : 0..(MaxAge + 1)]
    <3>1. CASE con[c].pc = "open"
      <4>1. PICK age : age = Later(con[c].age, MaxAge + 1)
        OBVIOUS
      <4>2. age \in 0..(MaxAge + 1)
        BY <4>1 DEF SessionInv, ConTyped, Later
      <4>3. con'[c] = [con[c] EXCEPT !.age = age]
        BY <1>1, <3>1, <4>1
      <4> QED BY <4>2, <4>3 DEF SessionInv, ConTyped
    <3>2. CASE con[c].pc # "open"
      BY <1>1, <3>2 DEF SessionInv, ConTyped
    <3> QED BY <3>1, <3>2
  <2> QED BY <1>1, <2>1 DEF ConTyped
<1>3. ASSUME NEW s \in DOMAIN sessions
      PROVE  /\ DOMAIN sessions'[s] = {"entries", "idle", "since"}
             /\ sessions'[s].idle = unused'[s]
  <2>1. s \in Sid /\ DOMAIN sessions[s] = {"entries", "idle", "since"}
        /\ sessions[s].idle = unused[s]
    BY DEF SessionInv, IdleIsUnused
  <2> DEFINE later == IF Has(sessions[s].entries, "next_login_attempt")
                      THEN Later(sessions[s].since, RetryThrottle + 1)
                      ELSE sessions[s].since
  <2>2. sessions'[s] = [sessions[s] EXCEPT
                          !.idle = Later(sessions[s].idle, MaxAge + 1), !.since = later]
    BY DEF Tick
  <2> HIDE DEF later
  <2>3. unused'[s] = Later(unused[s], MaxAge + 1)
    BY <1>1, <2>1
  <2> QED BY <2>1, <2>2, <2>3
<1>4. unused' \in [Sid -> 0..(MaxAge + 1)]
  BY <1>1 DEF SessionInv, IdleIsUnused, Later
<1>5. IdleIsUnused'
  BY <1>1, <1>3, <1>4 DEF SessionInv, IdleIsUnused
<1>6. ASSUME NEW d \in Conn, Held(d)' PROVE Covered(d)'
  <2>1. /\ Held(d) /\ con[d].age \in 0..(MaxAge + 1)
        /\ con'[d].sid = con[d].sid /\ con'[d].age = Later(con[d].age, MaxAge + 1)
    <3>1. con[d] \in [pc : {"closed", "open", "answered"}, method : {"GET", "POST"},
                       sid : Sid \cup {Nobody}, age : 0..(MaxAge + 1)]
      BY DEF SessionInv, ConTyped
    <3>2. PICK age : age = Later(con[d].age, MaxAge + 1)
      OBVIOUS
    <3>3. con'[d] = IF con[d].pc = "open" THEN [con[d] EXCEPT !.age = age] ELSE con[d]
      BY <1>1, <3>2
    <3> QED BY <1>6, <3>1, <3>2, <3>3 DEF Held
  <2>2. Covered(d)
    BY <2>1 DEF SessionInv, HeldIsCovered
  <2>3. CASE con[d].sid \in DOMAIN sessions
    <3>1. con[d].sid \in Sid /\ unused[con[d].sid] \in 0..(MaxAge + 1)
          /\ unused[con[d].sid] <= con[d].age
      BY <2>2, <2>3 DEF SessionInv, IdleIsUnused, Covered
    <3>2. unused'[con[d].sid] = Later(unused[con[d].sid], MaxAge + 1)
      BY <1>1, <2>3, <3>1
    <3>3. unused'[con[d].sid] <= con'[d].age
      BY <2>1, <3>1, <3>2 DEF Later
    <3> QED BY <1>1, <2>1, <2>2, <2>3, <3>3 DEF Covered
  <2>4. CASE con[d].sid \notin DOMAIN sessions
    <3>1. con'[d].age > MaxAge
      BY <2>1, <2>2, <2>4 DEF Covered, Later
    <3> QED BY <1>1, <2>1, <2>2, <2>4, <3>1 DEF Covered
  <2> QED BY <2>3, <2>4
<1>7. IdsAreSpent' /\ BrokenBySlow'
  BY <1>1 DEF SessionInv, IdsAreSpent, BrokenBySlow
<1> QED BY <1>2, <1>5, <1>6, <1>7 DEF SessionInv, HeldIsCovered

LEMMA StepKeeps == SessionInv /\ [Next]_vars => SessionInv'
<1> SUFFICES ASSUME SessionInv, [Next]_vars PROVE SessionInv'
  OBVIOUS
<1>1. CASE UNCHANGED vars
  BY <1>1 DEF vars, SessionInv, ConTyped, IdleIsUnused, IdsAreSpent, HeldIsCovered,
    Covered, Held, BrokenBySlow
<1>2. ASSUME ~broken, NEW c \in Conn, RequestCompleted(c) PROVE SessionInv'
  <2>1. con' = [con EXCEPT ![c] = Closed]
        /\ UNCHANGED <<sessions, spent, broken, unused>>
    BY <1>2 DEF RequestCompleted
  <2>2. IdleIsUnused'
    BY <2>1 DEF SessionInv, IdleIsUnused
  <2> QED BY <1>2, <2>1, <2>2, AnsweredKeeps DEF SessionInv, BrokenBySlow
<1>3. CASE ~broken /\ Running
  BY <1>2, <1>3, RequestKeeps, OpenKeeps, OpenFailsKeeps, TickKeeps DEF Running
<1> QED BY <1>1, <1>3 DEF Next

\* SessionOutlivesRequest, for any numbers and however slow the clients are: a
\* request that is not older than MAX_AGE has the session of its first callback,
\* and without a slower one no freed session is ever used.
THEOREM SessionIsThere == Spec => []SessionOutlivesRequest
<1>1. SessionInv => SessionOutlivesRequest
  BY DEF SessionInv, HeldIsCovered, Covered, BrokenBySlow, Intact, Held,
    SessionOutlivesRequest
<1> QED BY <1>1, InitSession, StepKeeps, PTL DEF Spec

------------------------------------------------------------------------------

\* Only the first callback of a request clears sessions, and only old ones.
LEMMA OnlyOldGo ==
  ASSUME SessionInv, [Next]_vars,
         NEW s \in DOMAIN sessions, s \notin DOMAIN sessions'
  PROVE  unused[s] > MaxAge
<1>1. ASSUME NEW cookie, NEW x \in SessionFor(cookie), GetSession(x)
      PROVE  unused[s] > MaxAge
  <2>1. s \notin Alive
    BY <1>1, GetSessionKeeps
  <2> QED BY <2>1 DEF Alive, Expired, SessionInv, IdleIsUnused
<1>2. ASSUME NEW c \in Conn, Request(c) PROVE DOMAIN sessions' = DOMAIN sessions
  BY <1>2 DEF Request, Serve, UseFreed, LoginFails, LoginWorks, Logout, UpdateUser,
    DeleteUser, SetSession
<1>3. CASE \E c \in Conn, cookie \in spent \cup {Nobody}, method \in {"GET", "POST"} :
             Open(c, cookie, method)
  BY <1>1, <1>3 DEF Open
<1>4. CASE \E cookie \in spent \cup {Nobody} : OpenFails(cookie)
  BY <1>1, <1>4 DEF OpenFails
<1>5. CASE \E c \in Conn : RequestCompleted(c)
  BY <1>5 DEF RequestCompleted
<1>6. CASE Tick
  BY <1>6 DEF Tick
<1>7. CASE UNCHANGED vars
  BY <1>7 DEF vars
<1> QED BY <1>2, <1>3, <1>4, <1>5, <1>6, <1>7 DEF Next, Running

\* UsedSessionStays, for any numbers: a session goes only after MAX_AGE without
\* a request that started with it.
THEOREM UsedSessionsStay == Spec => UsedSessionStays
<1>1. SessionInv /\ [Next]_vars =>
        [\A s \in DOMAIN sessions \ DOMAIN sessions' : unused[s] > MaxAge]_vars
  BY OnlyOldGo
<1> QED BY <1>1, InitSession, StepKeeps, PTL DEF Spec, UsedSessionStays

------------------------------------------------------------------------------

LEMMA InitCount == Init => CountInv
<1> SUFFICES ASSUME Init PROVE CountInv
  OBVIOUS
<1>1. ConTyped
  BY LimitsAreNat DEF Init, ConTyped, Closed
<1>2. Posts = {}
  BY DEF Init, Posts, Closed
<1> QED BY <1>1, <1>2, FS_EmptySet DEF Init, CountInv

\* The counter follows the set of posts in progress, in every callback.
LEMMA StepCounts == CountInv /\ SessionInv /\ [Next]_vars => CountInv'
<1> SUFFICES ASSUME CountInv, SessionInv, [Next]_vars PROVE CountInv'
  OBVIOUS
<1>0. ConTyped'
  BY StepKeeps DEF SessionInv
<1>1. ASSUME Posts' = Posts, clients' = clients PROVE CountInv'
  BY <1>0, <1>1 DEF CountInv
<1>2. ASSUME NEW c \in Conn, Request(c), ~UseFreed(c) PROVE CountInv'
  <2>1. con' = [con EXCEPT ![c] = Answered(c)] /\ con[c].pc = "open" /\ clients' = clients
    BY <1>2 DEF Request, Answer, Serve, LoginFails, LoginWorks, Logout,
      UpdateUser, DeleteUser
  <2>2. Posts' = Posts
    BY <2>1 DEF Posts, Answered, CountInv, ConTyped
  <2> QED BY <1>1, <2>1, <2>2
<1>3. ASSUME NEW c \in Conn, NEW cookie, NEW method \in {"GET", "POST"},
             Open(c, cookie, method)
      PROVE  CountInv'
  <2>1. c \notin Posts
    BY <1>3 DEF Open, Posts
  <2>2. CASE method = "POST"
    <3>1. Posts' = Posts \cup {c} /\ clients' = clients + 1
      BY <1>3, <2>2 DEF Open, Posts, CountInv, ConTyped
    <3> QED BY <1>0, <2>1, <3>1, FS_AddElement DEF CountInv
  <2>3. CASE method = "GET"
    <3>1. Posts' = Posts /\ clients' = clients
      BY <1>3, <2>3 DEF Open, Posts, CountInv, ConTyped
    <3> QED BY <1>1, <3>1
  <2> QED BY <2>2, <2>3
<1>4. ASSUME NEW c \in Conn, RequestCompleted(c) PROVE CountInv'
  <2>1. Posts' = Posts \ {c} /\ con[c].pc # "closed"
    BY <1>4 DEF RequestCompleted, Posts, Closed, CountInv, ConTyped
  <2>2. CASE con[c].method = "POST"
    <3>1. c \in Posts /\ clients' = clients - 1
      BY <1>4, <2>1, <2>2 DEF RequestCompleted, Discount, Posts
    <3> QED BY <1>0, <2>1, <3>1, FS_RemoveElement DEF CountInv
  <2>3. CASE con[c].method # "POST"
    <3>1. c \notin Posts /\ clients' = clients
      BY <1>4, <2>3 DEF RequestCompleted, Discount, Posts
    <3> QED BY <1>1, <2>1, <3>1
  <2> QED BY <2>2, <2>3
<1>5. ASSUME NEW cookie, OpenFails(cookie) PROVE CountInv'
  BY <1>1, <1>5 DEF OpenFails, Posts
<1>6. CASE Tick
  <2>1. ASSUME NEW c \in Conn
        PROVE  con'[c].pc = con[c].pc /\ con'[c].method = con[c].method
    BY <1>6 DEF Tick, CountInv, ConTyped
  <2> QED BY <1>1, <1>6, <2>1 DEF Tick, Posts
<1>7. CASE UNCHANGED vars
  BY <1>1, <1>7 DEF vars, Posts
<1>8. ASSUME NEW c \in Conn, UseFreed(c) PROVE CountInv'
  BY <1>1, <1>8 DEF UseFreed, Posts
<1> QED BY <1>2, <1>3, <1>4, <1>5, <1>6, <1>7, <1>8 DEF Next, Running

\* ClientsCounted, for any number of connections: nr_of_clients is the number of
\* posts in progress, so the limit refuses a client only because of others.
THEOREM CounterIsRight == Spec => []ClientsCounted
<1>1. CountInv => ClientsCounted
  BY DEF CountInv, Posts, ClientsCounted
<1> QED BY <1>1, InitSession, StepKeeps, InitCount, StepCounts, PTL DEF Spec
------------------------------------------------------------------------------
(* Lists of entries: what is found in them, and what is left of them       *)

AnyEntry == [key : {"next_login_attempt", "username", "role"},
             value : User \cup Role \cup {NoRole, Nobody}]

LEMMA FirstMatch ==
  ASSUME NEW list \in Seq(AnyEntry), NEW k,
         NEW i \in 1..Len(list), list[i].key = k,
         \A j \in 1..(i - 1) : list[j].key # k
  PROVE  /\ Has(list, k)
         /\ Value(list, k) = list[i].value
         /\ Without(list, k) = SubSeq(list, 1, i - 1) \o SubSeq(list, i + 1, Len(list))
<1> DEFINE I == {j \in 1..Len(list) : list[j].key = k}
<1>1. /\ i \in I /\ i \in Int /\ I \subseteq Int
      /\ \A j \in I : i <= j
  OBVIOUS
<1>2. Min(I) = i
  <2>1. \E x \in I : \A y \in I : x =< y
    BY <1>1
  <2>2. Min(I) \in I /\ \A y \in I : Min(I) =< y
    BY <2>1 DEF Min
  <2>3. Min(I) =< i /\ i =< Min(I) /\ Min(I) \in Int
    BY <1>1, <2>2
  <2> QED BY <1>1, <2>3
<1>3. Has(list, k)
  BY DEF Has
<1>4. SelectInSeq(list, LAMBDA e : e.key = k) = i
  BY <1>1, <1>2 DEF SelectInSeq
<1>5. Value(list, k) = list[i].value
  BY <1>3, <1>4 DEF Value
<1>6. Without(list, k) = SubSeq(list, 1, i - 1) \o SubSeq(list, i + 1, Len(list))
  BY <1>4 DEF Without, RemoveFirstMatch, RemoveAt
<1> QED BY <1>3, <1>5, <1>6

LEMMA AtFirst ==
  ASSUME NEW list \in Seq(AnyEntry), NEW k, Len(list) >= 1, list[1].key = k
  PROVE  /\ Value(list, k) = list[1].value
         /\ Without(list, k) = SubSeq(list, 2, Len(list))
<1>1. 1 \in 1..Len(list) /\ \A j \in 1..(1 - 1) : list[j].key # k
  OBVIOUS
<1>2. /\ Value(list, k) = list[1].value
      /\ Without(list, k) = SubSeq(list, 1, 1 - 1) \o SubSeq(list, 1 + 1, Len(list))
  BY <1>1, FirstMatch, Zenon
<1>3. SubSeq(list, 1, 1 - 1) = << >> /\ SubSeq(list, 2, Len(list)) \in Seq(AnyEntry)
  OBVIOUS
<1> QED BY <1>2, <1>3

LEMMA AtSecond ==
  ASSUME NEW list \in Seq(AnyEntry), NEW k, Len(list) >= 2, list[1].key # k, list[2].key = k
  PROVE  Value(list, k) = list[2].value
<1>1. 2 \in 1..Len(list) /\ \A j \in 1..(2 - 1) : list[j].key # k
  OBVIOUS
<1> QED BY <1>1, FirstMatch, Zenon

LEMMA NoMatch ==
  ASSUME NEW list \in Seq(AnyEntry), NEW k, \A j \in 1..Len(list) : list[j].key # k
  PROVE  ~Has(list, k) /\ Value(list, k) = Nobody /\ Without(list, k) = list
BY DEF Has, Value, Without, RemoveFirstMatch

------------------------------------------------------------------------------
(* Whom a session acts for                                                 *)

Failed == Entry("next_login_attempt", Nobody)
Login  == [user : User, role : Role \cup {NoRole}]

\* The entries of a session after some logins: name and role of each, oldest
\* first, and behind them possibly a failed login.
Shape(list, past) ==
  /\ list \in Seq(AnyEntry)
  /\ \/ Len(list) = 2 * Len(past)
     \/ Len(list) = 2 * Len(past) + 1 /\ list[Len(list)] = Failed
  /\ \A i \in 1..Len(past) :
       /\ list[2 * i - 1] = Entry("username", past[i].user)
       /\ list[2 * i] = Entry("role", past[i].role)

ActsInv ==
  /\ logins \in [Sid -> Seq(Login)]
  /\ \A s \in DOMAIN sessions : Shape(sessions[s].entries, logins[s])
  /\ DOMAIN users \subseteq User
  /\ users \in [DOMAIN users -> Role \cup {NoRole}]
  /\ Admin \in DOMAIN users

LEMMA Halves ==
  ASSUME NEW n \in Nat, NEW j \in 1..(2 * n)
  PROVE  \E i \in 1..n : j = 2 * i - 1 \/ j = 2 * i
<1>1. PICK i \in Int : i = (j + 1) \div 2
  OBVIOUS
<1>2. i \in 1..n /\ (j = 2 * i - 1 \/ j = 2 * i)
  BY <1>1
<1> QED BY <1>2

LEMMA EntriesTyped ==
  /\ Failed \in AnyEntry /\ Failed.key = "next_login_attempt"
  /\ \A a \in Login : /\ Entry("username", a.user) \in AnyEntry
                      /\ Entry("role", a.role) \in AnyEntry
  /\ \A v : /\ Entry("username", v).key = "username" /\ Entry("username", v).value = v
            /\ Entry("role", v).key = "role" /\ Entry("role", v).value = v
BY DEF Failed, Entry, AnyEntry, Login

\* No failed login is among the entries of the logins themselves.
LEMMA NoFailure ==
  ASSUME NEW past \in Seq(Login), NEW list, Shape(list, past),
         NEW j \in 1..(2 * Len(past))
  PROVE  list[j].key # "next_login_attempt"
<1>1. PICK i \in 1..Len(past) : j = 2 * i - 1 \/ j = 2 * i
  <2>1. PICK n \in Nat : n = Len(past)
    OBVIOUS
  <2>2. j \in 1..(2 * n)
    BY <2>1
  <2>3. \E i \in 1..n : j = 2 * i - 1 \/ j = 2 * i
    BY <2>2, Halves
  <2> QED BY <2>1, <2>3
<1>2. /\ list[2 * i - 1] = Entry("username", past[i].user)
      /\ list[2 * i] = Entry("role", past[i].role)
  BY DEF Shape
<1> QED BY <1>1, <1>2, EntriesTyped

\* The search finds the oldest login.
LEMMA OldestShows ==
  ASSUME NEW past \in Seq(Login), NEW list, Shape(list, past)
  PROVE  /\ past = << >> => /\ Value(list, "username") = Nobody
                            /\ Value(list, "role") = Nobody
         /\ past # << >> => /\ Value(list, "username") = past[1].user
                            /\ Value(list, "role") = past[1].role
<1>1. list \in Seq(AnyEntry)
  BY DEF Shape
<1>2. CASE past = << >>
  <2>1. Len(past) = 0
    BY <1>2
  <2>2. \A j \in 1..Len(list) : list[j].key = "next_login_attempt"
    BY <1>1, <2>1, EntriesTyped DEF Shape
  <2>3. \A j \in 1..Len(list) : list[j].key # "username" /\ list[j].key # "role"
    BY <2>2
  <2> QED BY <1>1, <1>2, <2>3, NoMatch
<1>3. CASE past # << >>
  <2>1. Len(past) >= 1 /\ Len(list) >= 2
    BY <1>1, <1>3 DEF Shape
  <2>2. list[1] = Entry("username", past[1].user) /\ list[2] = Entry("role", past[1].role)
    <3>1. 1 \in 1..Len(past) /\ 2 * 1 - 1 = 1 /\ 2 * 1 = 2
      BY <2>1
    <3> QED BY <3>1 DEF Shape
  <2>3. /\ list[1].key = "username" /\ list[1].value = past[1].user
        /\ list[2].key = "role" /\ list[2].value = past[1].role
    BY <2>2, EntriesTyped
  <2>4. Value(list, "username") = list[1].value
    <3>1. Len(list) >= 1 /\ list[1].key = "username"
      BY <1>1, <2>1, <2>3
    <3> QED BY <1>1, <3>1, AtFirst
  <2>5. Value(list, "role") = list[2].value
    <3>1. Len(list) >= 2 /\ list[1].key # "role" /\ list[2].key = "role"
      BY <2>1, <2>3
    <3> QED BY <1>1, <3>1, AtSecond, Zenon
  <2> QED BY <1>3, <2>3, <2>4, <2>5
<1> QED BY <1>2, <1>3

\* The failed login can be taken out, and only it goes.
LEMMA ClearedShape ==
  ASSUME NEW past \in Seq(Login), NEW list, Shape(list, past),
         NEW clean, clean = Without(list, "next_login_attempt")
  PROVE  Shape(clean, past) /\ Len(clean) = 2 * Len(past)
<1>1. list \in Seq(AnyEntry) /\ Len(past) \in Nat
  BY DEF Shape
<1>2. CASE Len(list) = 2 * Len(past)
  <2>1. \A j \in 1..Len(list) : list[j].key # "next_login_attempt"
    BY <1>2, NoFailure
  <2>2. clean = list
    BY <1>1, <2>1, NoMatch
  <2> QED BY <1>2, <2>2
<1>3. CASE Len(list) = 2 * Len(past) + 1 /\ list[Len(list)] = Failed
  <2>1. PICK m \in Nat : m = 2 * Len(past)
    BY <1>1
  <2>2. /\ m + 1 \in 1..Len(list) /\ list[m + 1].key = "next_login_attempt"
        /\ \A j \in 1..((m + 1) - 1) : list[j].key # "next_login_attempt"
    <3>1. list[m + 1].key = "next_login_attempt"
      BY <1>3, <2>1, EntriesTyped
    <3>2. \A j \in 1..m : list[j].key # "next_login_attempt"
      BY <2>1, NoFailure
    <3> QED BY <1>3, <2>1, <3>1, <3>2
  <2>3. clean = SubSeq(list, 1, (m + 1) - 1) \o SubSeq(list, (m + 1) + 1, Len(list))
    BY <1>1, <2>2, FirstMatch, Zenon
  <2>4. /\ SubSeq(list, (m + 1) + 1, Len(list)) = << >>
        /\ SubSeq(list, 1, m) \in Seq(AnyEntry)
        /\ Len(SubSeq(list, 1, m)) = m
        /\ \A i \in 1..m : SubSeq(list, 1, m)[i] = list[i]
    BY <1>1, <1>3, <2>1
  <2>5. clean = SubSeq(list, 1, m)
    <3>1. (m + 1) - 1 = m
      OBVIOUS
    <3>2. PICK front \in Seq(AnyEntry) : front = SubSeq(list, 1, m)
      BY <2>4
    <3>3. clean = front \o << >>
      BY <2>3, <2>4, <3>1, <3>2
    <3>4. front \o << >> = front
      OBVIOUS
    <3> QED BY <3>2, <3>3, <3>4
  <2>6. clean \in Seq(AnyEntry) /\ Len(clean) = m /\ \A i \in 1..m : clean[i] = list[i]
    BY <2>4, <2>5
  <2>7. ASSUME NEW i \in 1..Len(past)
        PROVE  /\ clean[2 * i - 1] = Entry("username", past[i].user)
               /\ clean[2 * i] = Entry("role", past[i].role)
    <3>1. 2 * i - 1 \in 1..m /\ 2 * i \in 1..m
      BY <1>1, <2>1
    <3> QED BY <2>6, <3>1 DEF Shape
  <2> QED BY <2>1, <2>6, <2>7 DEF Shape
<1> QED BY <1>2, <1>3 DEF Shape

\* A login is added at the end, and so is a failed one.
LEMMA LoginShape ==
  ASSUME NEW past \in Seq(Login), NEW clean, Shape(clean, past), Len(clean) = 2 * Len(past)
  PROVE  /\ Shape(Append(clean, Failed), past)
         /\ \A a \in Login :
              Shape(clean \o <<Entry("username", a.user), Entry("role", a.role)>>,
                    Append(past, a))
<1>1. clean \in Seq(AnyEntry) /\ Len(past) \in Nat
  BY DEF Shape
<1>2. Shape(Append(clean, Failed), past)
  <2>1. /\ Append(clean, Failed) \in Seq(AnyEntry)
        /\ Len(Append(clean, Failed)) = 2 * Len(past) + 1
        /\ Append(clean, Failed)[2 * Len(past) + 1] = Failed
    <3>1. PICK m \in Nat : m = 2 * Len(past)
      BY <1>1
    <3>2. PICK e \in AnyEntry : e = Failed
      BY EntriesTyped
    <3>3. /\ Append(clean, e) \in Seq(AnyEntry) /\ Len(Append(clean, e)) = m + 1
          /\ Append(clean, e)[m + 1] = e
      BY <1>1, <3>1
    <3> QED BY <3>1, <3>2, <3>3
  <2>2. \A j \in 1..(2 * Len(past)) : Append(clean, Failed)[j] = clean[j]
    BY <1>1
  <2>3. ASSUME NEW i \in 1..Len(past)
        PROVE  /\ Append(clean, Failed)[2 * i - 1] = Entry("username", past[i].user)
               /\ Append(clean, Failed)[2 * i] = Entry("role", past[i].role)
    <3>1. 2 * i - 1 \in 1..(2 * Len(past)) /\ 2 * i \in 1..(2 * Len(past))
      BY <1>1
    <3> QED BY <2>2, <3>1 DEF Shape
  <2> QED BY <2>1, <2>3 DEF Shape
<1>3. ASSUME NEW a \in Login
      PROVE  Shape(clean \o <<Entry("username", a.user), Entry("role", a.role)>>,
                   Append(past, a))
  <2>1. PICK name, role : /\ name = Entry("username", a.user) /\ role = Entry("role", a.role)
                          /\ name \in AnyEntry /\ role \in AnyEntry
    BY EntriesTyped
  <2>2. PICK list : list = clean \o <<name, role>>
    OBVIOUS
  <2>3. PICK new : new = Append(past, a)
    OBVIOUS
  <2>4. PICK m \in Nat : m = 2 * Len(past)
    BY <1>1
  <2>5. /\ list \in Seq(AnyEntry) /\ Len(list) = m + 2
        /\ list[m + 1] = name /\ list[m + 2] = role
        /\ \A j \in 1..m : list[j] = clean[j]
    BY <1>1, <2>1, <2>2, <2>4
  <2>6. /\ new \in Seq(Login) /\ Len(new) = Len(past) + 1
        /\ new[Len(past) + 1] = a /\ \A i \in 1..Len(past) : new[i] = past[i]
    BY <2>3
  <2>7. ASSUME NEW i \in 1..Len(new)
        PROVE  /\ list[2 * i - 1] = Entry("username", new[i].user)
               /\ list[2 * i] = Entry("role", new[i].role)
    <3>1. CASE i = Len(past) + 1
      <4>1. 2 * i - 1 = m + 1 /\ 2 * i = m + 2
        BY <1>1, <2>4, <3>1
      <4> QED BY <2>1, <2>5, <2>6, <3>1, <4>1
    <3>2. CASE i # Len(past) + 1
      <4>1. i \in 1..Len(past) /\ 2 * i - 1 \in 1..m /\ 2 * i \in 1..m
        BY <1>1, <2>4, <2>6, <3>2
      <4> QED BY <2>5, <2>6, <4>1 DEF Shape
    <3> QED BY <3>1, <3>2
  <2>8. Len(list) = 2 * Len(new)
    BY <1>1, <2>4, <2>5, <2>6
  <2> QED BY <2>1, <2>2, <2>3, <2>5, <2>7, <2>8 DEF Shape
<1> QED BY <1>2, <1>3

\* A logout removes the oldest login and the failed one.
LEMMA LogoutShape ==
  ASSUME NEW past \in Seq(Login), NEW list, Shape(list, past)
  PROVE  Shape(Forgotten(list), AfterOldest(past)) /\ AfterOldest(past) \in Seq(Login)
<1>1. PICK clean : clean = Without(list, "next_login_attempt")
  OBVIOUS
<1>2. Shape(clean, past) /\ Len(clean) = 2 * Len(past)
  BY <1>1, ClearedShape
<1>3. clean \in Seq(AnyEntry) /\ Len(past) \in Nat
  BY <1>2 DEF Shape
<1>4. PICK rest : rest = AfterOldest(past)
  OBVIOUS
<1>5. CASE past = << >>
  <2>1. Len(past) = 0 /\ Len(clean) = 0 /\ clean = << >>
    BY <1>2, <1>3, <1>5
  <2>2. \A k : Without(<< >>, k) = << >>
    <3>1. << >> \in Seq(AnyEntry) /\ \A k : \A j \in 1..Len(<< >>) : << >>[j].key # k
      OBVIOUS
    <3> QED BY <3>1, NoMatch, Zenon
  <2>3. Forgotten(list) = << >>
    BY <1>1, <2>1, <2>2 DEF Forgotten
  <2>4. rest = << >>
    BY <1>4, <1>5 DEF AfterOldest
  <2> QED BY <1>2, <1>4, <1>5, <2>1, <2>3, <2>4
<1>6. CASE past # << >>
  <2>1. Len(past) >= 1 /\ Len(clean) >= 2
    BY <1>2, <1>3, <1>6
  <2>2. clean[1] = Entry("username", past[1].user) /\ clean[2] = Entry("role", past[1].role)
    <3>1. 1 \in 1..Len(past) /\ 2 * 1 - 1 = 1 /\ 2 * 1 = 2
      BY <2>1
    <3> QED BY <1>2, <3>1 DEF Shape
  <2>3. clean[1].key = "username" /\ clean[2].key = "role"
    BY <2>2, EntriesTyped
  <2>4. PICK a : a = Without(clean, "username")
    OBVIOUS
  <2>5. a = SubSeq(clean, 2, Len(clean))
    <3>1. Len(clean) >= 1 /\ clean[1].key = "username"
      BY <1>3, <2>1, <2>3
    <3> QED BY <1>3, <2>4, <3>1, AtFirst
  <2>6. /\ a \in Seq(AnyEntry) /\ Len(a) = Len(clean) - 1
        /\ \A j \in 1..(Len(clean) - 1) : a[j] = clean[j + 1]
    BY <1>3, <2>1, <2>5
  <2>7. PICK b : b = Without(a, "role")
    OBVIOUS
  <2>8. b = SubSeq(a, 2, Len(a))
    <3>1. Len(a) >= 1 /\ a[1].key = "role"
      BY <1>3, <2>1, <2>3, <2>6
    <3> QED BY <2>6, <2>7, <3>1, AtFirst
  <2>9. /\ b \in Seq(AnyEntry) /\ Len(b) = Len(clean) - 2
        /\ \A j \in 1..(Len(clean) - 2) : b[j] = clean[j + 2]
    <3>1. /\ b \in Seq(AnyEntry) /\ Len(b) = Len(a) - 1
          /\ \A j \in 1..(Len(a) - 1) : b[j] = a[j + 1]
      BY <1>3, <2>1, <2>6, <2>8
    <3>2. \A j \in 1..(Len(clean) - 2) : a[j + 1] = clean[j + 2]
      BY <1>3, <2>1, <2>6
    <3> QED BY <1>3, <2>1, <2>6, <3>1, <3>2
  <2>10. b = Forgotten(list)
    BY <1>1, <2>4, <2>7 DEF Forgotten
  <2>11. /\ rest \in Seq(Login) /\ Len(rest) = Len(past) - 1
         /\ \A i \in 1..(Len(past) - 1) : rest[i] = past[i + 1]
    <3>1. PICK n \in Nat : n = Len(past) /\ n >= 1
      BY <1>3, <2>1
    <3>2. rest = SubSeq(past, 2, n) /\ past \in Seq(Login)
      BY <1>4, <3>1 DEF AfterOldest
    <3>3. rest \in Seq(Login)
      BY <3>1, <3>2
    <3>4. Len(rest) = n - 1
      BY <3>1, <3>2
    <3>5. \A i \in 1..(n - 1) : rest[i] = past[i + 1]
      BY <3>1, <3>2
    <3> QED BY <3>1, <3>3, <3>4, <3>5
  <2>12. ASSUME NEW i \in 1..Len(rest)
         PROVE  /\ b[2 * i - 1] = Entry("username", rest[i].user)
                /\ b[2 * i] = Entry("role", rest[i].role)
    <3>1. /\ i + 1 \in 1..Len(past) /\ rest[i] = past[i + 1]
          /\ 2 * i - 1 \in 1..(Len(clean) - 2) /\ 2 * i \in 1..(Len(clean) - 2)
          /\ (2 * i - 1) + 2 = 2 * (i + 1) - 1 /\ 2 * i + 2 = 2 * (i + 1)
      BY <1>2, <1>3, <2>1, <2>11
    <3>2. /\ clean[2 * (i + 1) - 1] = Entry("username", past[i + 1].user)
          /\ clean[2 * (i + 1)] = Entry("role", past[i + 1].role)
      BY <1>2, <3>1 DEF Shape
    <3>3. b[2 * i - 1] = clean[2 * (i + 1) - 1] /\ b[2 * i] = clean[2 * (i + 1)]
      BY <2>9, <3>1
    <3> QED BY <3>1, <3>2, <3>3
  <2>13. Len(b) = 2 * Len(rest)
    BY <1>2, <1>3, <2>1, <2>9, <2>11
  <2>14. Shape(b, rest)
    BY <2>9, <2>12, <2>13 DEF Shape
  <2> QED BY <1>4, <2>10, <2>11, <2>14
<1> QED BY <1>5, <1>6

------------------------------------------------------------------------------
(* Logins, logouts and the work of editors                                 *)

\* What a list of this shape says, and what becomes of it.
LEMMA ListFacts ==
  ASSUME NEW past \in Seq(Login), NEW list, Shape(list, past)
  PROVE  /\ Shape(Append(Without(list, "next_login_attempt"), Failed), past)
         /\ \A a \in Login :
              Shape(Without(list, "next_login_attempt")
                      \o <<Entry("username", a.user), Entry("role", a.role)>>,
                    Append(past, a))
<1>1. PICK clean : clean = Without(list, "next_login_attempt")
  OBVIOUS
<1>2. Shape(clean, past) /\ Len(clean) = 2 * Len(past)
  BY <1>1, ClearedShape
<1> QED BY <1>1, <1>2, LoginShape

LEMMA InitActs == Init => ActsInv
<1> SUFFICES ASSUME Init PROVE ActsInv
  OBVIOUS
<1>1. /\ users \in [{Admin} -> Editor] /\ Editor \subseteq Role /\ Admin \in User
      /\ DOMAIN sessions = {} /\ logins = [s \in Sid |-> << >>]
  BY SessionsAssumption DEF Init
<1>2. << >> \in Seq(Login)
  OBVIOUS
<1> QED BY <1>1, <1>2 DEF ActsInv

LEMMA GetSessionActs ==
  ASSUME SessionInv, ActsInv, NEW cookie, NEW s \in SessionFor(cookie), GetSession(s),
         UNCHANGED users
  PROVE  ActsInv'
<1>1. PICK kept : kept = Alive \cup ({s} \ {Nobody})
  OBVIOUS
<1>2. /\ sessions' = [x \in kept |-> IF x \notin Alive THEN NewSession
                                    ELSE IF x = s THEN Touched(sessions[x])
                                    ELSE sessions[x]]
      /\ logins' = [x \in Sid |-> IF x \in Alive THEN logins[x] ELSE << >>]
  BY <1>1 DEF GetSession
<1>3. Alive \subseteq DOMAIN sessions /\ DOMAIN sessions \subseteq Sid /\ s \in Sid \cup {Nobody}
  BY GetSessionKeeps DEF Alive, SessionInv, IdleIsUnused
<1>4. << >> \in Seq(Login) /\ << >> \in Seq(AnyEntry) /\ Len(<< >>) = 0
  OBVIOUS
<1>5. logins' \in [Sid -> Seq(Login)]
  BY <1>2, <1>4 DEF ActsInv
<1>6. ASSUME NEW x \in DOMAIN sessions' PROVE Shape(sessions'[x].entries, logins'[x])
  <2>1. x \in kept /\ x \in Sid
    BY <1>1, <1>2, <1>3, <1>6
  <2>2. CASE x \in Alive
    <3>1. logins'[x] = logins[x] /\ Shape(sessions[x].entries, logins[x])
      BY <1>2, <1>3, <2>1, <2>2 DEF ActsInv
    <3>2. sessions'[x] = sessions[x] \/ sessions'[x] = [sessions[x] EXCEPT !.idle = 0]
      BY <1>2, <2>1, <2>2 DEF Touched
    <3>3. DOMAIN sessions[x] = {"entries", "idle", "since"}
      BY <1>3, <2>2 DEF SessionInv, IdleIsUnused
    <3>4. sessions'[x].entries = sessions[x].entries
      BY <3>2, <3>3
    <3> QED BY <3>1, <3>4
  <2>3. CASE x \notin Alive
    <3>1. logins'[x] = << >> /\ sessions'[x].entries = << >>
      BY <1>2, <2>1, <2>3 DEF NewSession
    <3>2. Shape(<< >>, << >>)
      BY <1>4 DEF Shape
    <3> QED BY <3>1, <3>2
  <2> QED BY <2>2, <2>3
<1> QED BY <1>5, <1>6 DEF ActsInv

LEMMA SetSessionActs ==
  ASSUME SessionInv, ActsInv, NEW s, NEW new, SetSession(s, new), UNCHANGED users,
         logins' \in [Sid -> Seq(Login)],
         \A x \in Sid : x # s => logins'[x] = logins[x],
         s \in DOMAIN sessions => Shape(new.entries, logins'[s])
  PROVE  ActsInv'
<1>1. sessions' = [x \in DOMAIN sessions |-> IF x = s THEN new ELSE sessions[x]]
  BY DEF SetSession
<1>2. DOMAIN sessions' = DOMAIN sessions /\ DOMAIN sessions \subseteq Sid
  BY <1>1 DEF SessionInv, IdleIsUnused
<1>3. \A x \in DOMAIN sessions : Shape(sessions'[x].entries, logins'[x])
  BY <1>1, <1>2 DEF ActsInv
<1> QED BY <1>2, <1>3 DEF ActsInv

\* Whom a session acts for.
LEMMA ActsForOldest ==
  ASSUME SessionInv, ActsInv, NEW s \in DOMAIN sessions
  PROVE  /\ Value(sessions[s].entries, "username") = Oldest(s).user
         /\ Value(sessions[s].entries, "role") = Oldest(s).role
<1>1. PICK past \in Seq(Login) : past = logins[s]
  BY DEF ActsInv, SessionInv, IdleIsUnused
<1>2. Shape(sessions[s].entries, past)
  BY <1>1 DEF ActsInv
<1>3. CASE past = << >>
  <2>1. Value(sessions[s].entries, "username") = Nobody /\ Value(sessions[s].entries, "role") = Nobody
    BY <1>2, <1>3, OldestShows
  <2> QED BY <1>1, <1>3, <2>1 DEF Oldest
<1>4. CASE past # << >>
  <2>1. /\ Value(sessions[s].entries, "username") = past[1].user
        /\ Value(sessions[s].entries, "role") = past[1].role
    BY <1>2, <1>4, OldestShows
  <2>2. Oldest(s) = past[1]
    BY <1>1, <1>4 DEF Oldest
  <2> QED BY <2>1, <2>2
<1> QED BY <1>3, <1>4

\* The session of a request that is answered, when it has one.
LEMMA HeldActs ==
  ASSUME SessionInv, ActsInv, NEW c \in Conn, Intact(c), con[c].sid # Nobody
  PROVE  /\ con[c].sid \in DOMAIN sessions
         /\ Username(con[c].sid) \in User \cup {Nobody}
         /\ MayEdit(con[c].sid) <=> Oldest(con[c].sid).role \in Editor
<1>1. PICK s : s = con[c].sid
  OBVIOUS
<1>2. s \in DOMAIN sessions /\ s # Nobody
  BY <1>1 DEF Intact
<1>3. /\ Value(sessions[s].entries, "username") = Oldest(s).user
      /\ Value(sessions[s].entries, "role") = Oldest(s).role
  BY <1>2, ActsForOldest
<1>4. Oldest(s).user \in User \cup {Nobody}
  <2>1. PICK past \in Seq(Login) : past = logins[s]
    BY <1>2 DEF ActsInv, SessionInv, IdleIsUnused
  <2>2. past # << >> => past[1] \in Login
    BY <2>1
  <2> QED BY <2>1, <2>2 DEF Oldest, Login
<1> QED BY <1>1, <1>2, <1>3, <1>4 DEF Username, MayEdit

LEMMA LoginActs ==
  ASSUME SessionInv, ActsInv, NEW c \in Conn, NEW u \in User, LoginWorks(c, u)
  PROVE  ActsInv'
<1>1. PICK s : s = con[c].sid
  OBVIOUS
<1>2. PICK a : a = [user |-> u, role |-> users[u]]
  OBVIOUS
<1>3. PICK list : list = Cleared(s) \o <<Entry("username", u), Entry("role", users[u])>>
  OBVIOUS
<1>4. PICK new : new = [entries |-> list, idle |-> sessions[s].idle, since |-> 0]
  OBVIOUS
<1>5. /\ SetSession(s, new) /\ UNCHANGED users /\ u \in DOMAIN users
      /\ logins' = [x \in Sid |-> IF x = s THEN Append(logins[x], a) ELSE logins[x]]
  BY <1>1, <1>2, <1>3, <1>4 DEF LoginWorks
<1>6. a \in Login /\ a.user = u /\ a.role = users[u]
  BY <1>2, <1>5 DEF ActsInv, Login
<1>7. logins' \in [Sid -> Seq(Login)]
  <2>1. \A x \in Sid : logins[x] \in Seq(Login) /\ Append(logins[x], a) \in Seq(Login)
    BY <1>6 DEF ActsInv
  <2> QED BY <1>5, <2>1
<1>8. ASSUME s \in DOMAIN sessions PROVE Shape(new.entries, logins'[s])
  <2>1. PICK past \in Seq(Login) : past = logins[s]
    BY <1>8 DEF ActsInv, SessionInv, IdleIsUnused
  <2>2. Shape(sessions[s].entries, past)
    BY <1>8, <2>1 DEF ActsInv
  <2>3. Shape(list, Append(past, a))
    BY <1>3, <1>6, <2>2, ListFacts DEF Cleared
  <2>4. logins'[s] = Append(past, a) /\ new.entries = list
    BY <1>4, <1>5, <1>8, <2>1 DEF SessionInv, IdleIsUnused
  <2> QED BY <2>3, <2>4
<1>9. \A x \in Sid : x # s => logins'[x] = logins[x]
  BY <1>5
<1> QED BY <1>5, <1>7, <1>8, <1>9, SetSessionActs

LEMMA FailedLoginActs ==
  ASSUME SessionInv, ActsInv, NEW c \in Conn, LoginFails(c)
  PROVE  ActsInv'
<1>1. PICK s : s = con[c].sid
  OBVIOUS
<1>2. PICK kept : kept = IF TooSoon(s) THEN sessions[s].entries
                         ELSE Append(Cleared(s), Entry("next_login_attempt", Nobody))
  OBVIOUS
<1>3. PICK new : new = [entries |-> kept, idle |-> sessions[s].idle, since |-> 0]
  OBVIOUS
<1>4. SetSession(s, new) /\ UNCHANGED <<users, logins>>
  BY <1>1, <1>2, <1>3 DEF LoginFails
<1>5. ASSUME s \in DOMAIN sessions PROVE Shape(new.entries, logins'[s])
  <2>1. PICK past \in Seq(Login) : past = logins[s]
    BY <1>5 DEF ActsInv, SessionInv, IdleIsUnused
  <2>2. Shape(sessions[s].entries, past)
    BY <1>5, <2>1 DEF ActsInv
  <2>3. Shape(Append(Cleared(s), Failed), past)
    BY <2>2, ListFacts DEF Cleared
  <2>4. Shape(kept, past)
    BY <1>2, <2>2, <2>3 DEF Failed
  <2>5. new.entries = kept /\ logins'[s] = past
    BY <1>3, <1>4, <2>1
  <2> QED BY <2>4, <2>5
<1>6. logins' \in [Sid -> Seq(Login)] /\ \A x \in Sid : x # s => logins'[x] = logins[x]
  BY <1>4 DEF ActsInv
<1> QED BY <1>4, <1>5, <1>6, SetSessionActs

LEMMA LogoutActs ==
  ASSUME SessionInv, ActsInv, NEW c \in Conn, Logout(c)
  PROVE  ActsInv'
<1>1. PICK s : s = con[c].sid
  OBVIOUS
<1>2. PICK new : new = [sessions[s] EXCEPT !.entries = Forgotten(@)]
  OBVIOUS
<1>3. /\ SetSession(s, new) /\ UNCHANGED users
      /\ logins' = [x \in Sid |-> IF x = s THEN AfterOldest(logins[x]) ELSE logins[x]]
  BY <1>1, <1>2 DEF Logout
<1>4. ASSUME s \in DOMAIN sessions PROVE Shape(new.entries, logins'[s])
  <2>1. PICK past \in Seq(Login) : past = logins[s]
    BY <1>4 DEF ActsInv, SessionInv, IdleIsUnused
  <2>2. Shape(sessions[s].entries, past)
    BY <1>4, <2>1 DEF ActsInv
  <2>3. Shape(Forgotten(sessions[s].entries), AfterOldest(past))
    BY <2>2, LogoutShape
  <2>4. DOMAIN sessions[s] = {"entries", "idle", "since"} /\ s \in Sid
    BY <1>4 DEF SessionInv, IdleIsUnused
  <2>5. new.entries = Forgotten(sessions[s].entries) /\ logins'[s] = AfterOldest(past)
    BY <1>2, <1>3, <2>1, <2>4
  <2> QED BY <2>3, <2>5
<1>5. logins' \in [Sid -> Seq(Login)]
  <2>1. ASSUME NEW x \in Sid PROVE AfterOldest(logins[x]) \in Seq(Login)
    <3>1. PICK past \in Seq(Login) : past = logins[x]
      BY DEF ActsInv
    <3>2. SubSeq(past, 2, Len(past)) \in Seq(Login)
      OBVIOUS
    <3> QED BY <3>1, <3>2 DEF AfterOldest
  <2> QED BY <1>3, <2>1 DEF ActsInv
<1>6. \A x \in Sid : x # s => logins'[x] = logins[x]
  BY <1>3
<1> QED BY <1>3, <1>4, <1>5, <1>6, SetSessionActs

\* Users are changed by those who may.
ByEditor(c) ==
  /\ con[c].pc = "open" /\ con'[c].pc = "answered"
  /\ con[c].sid # Nobody /\ Oldest(con[c].sid).role \in Editor

LEMMA AnsweredIs ==
  ASSUME SessionInv, NEW c \in Conn, Answer(c)
  PROVE  con[c].pc = "open" /\ con'[c].pc = "answered" /\ Intact(c)
BY DEF Answer, SessionInv, ConTyped, Answered

LEMMA UpdateUserActs ==
  ASSUME SessionInv, ActsInv, NEW c \in Conn,
         NEW named \in User \cup {Nobody}, NEW role \in Role \cup {Nobody},
         UpdateUser(c, named, role)
  PROVE  ActsInv' /\ (users' # users => ByEditor(c))
<1> DEFINE s == con[c].sid
           u == IF named = Nobody THEN Username(s) ELSE named
<1>1. /\ con[c].pc = "open" /\ con'[c].pc = "answered" /\ Intact(c)
      /\ u # Nobody
      /\ named # Nobody => MayEdit(s)
      /\ u \in DOMAIN users \/ MayEdit(s)
      /\ role # Nobody => MayEdit(s)
      /\ users' = [x \in DOMAIN users \cup {u} |->
                     IF x = u /\ role # Nobody THEN role
                     ELSE IF x \in DOMAIN users THEN users[x] ELSE NoRole]
      /\ UNCHANGED <<sessions, logins>>
  BY AnsweredIs DEF UpdateUser, RoleAllowed
<1>2. u \in User
  <2>1. CASE named # Nobody
    BY <2>1
  <2>2. CASE named = Nobody
    <3>1. s # Nobody /\ u = Username(s)
      BY <1>1, <2>2 DEF Username
    <3> QED BY <1>1, <3>1, HeldActs
  <2> QED BY <2>1, <2>2
<1> HIDE DEF u
<1>3. ActsInv'
  <2>1. DOMAIN users' = DOMAIN users \cup {u}
    BY <1>1
  <2>2. users' \in [DOMAIN users' -> Role \cup {NoRole}]
    BY <1>1, <2>1 DEF ActsInv
  <2> QED BY <1>1, <1>2, <2>1, <2>2 DEF ActsInv
<1>4. ASSUME users' # users PROVE ByEditor(c)
  <2>1. MayEdit(s)
    <3> SUFFICES ASSUME ~MayEdit(s) PROVE FALSE
      OBVIOUS
    <3>1. u \in DOMAIN users /\ role = Nobody
      BY <1>1
    <3>2. DOMAIN users' = DOMAIN users /\ \A x \in DOMAIN users : users'[x] = users[x]
      BY <1>1, <3>1
    <3>3. users' \in [DOMAIN users' -> Role \cup {NoRole}]
          /\ users \in [DOMAIN users -> Role \cup {NoRole}]
      BY <1>3 DEF ActsInv
    <3> QED BY <1>4, <3>2, <3>3
  <2>2. s # Nobody
    BY <2>1 DEF MayEdit
  <2> QED BY <1>1, <2>1, <2>2, HeldActs DEF ByEditor
<1> QED BY <1>3, <1>4

LEMMA DeleteUserActs ==
  ASSUME SessionInv, ActsInv, NEW c \in Conn, NEW u \in User, DeleteUser(c, u)
  PROVE  ActsInv' /\ ByEditor(c)
<1>1. /\ con[c].pc = "open" /\ con'[c].pc = "answered" /\ Intact(c)
      /\ MayEdit(con[c].sid) /\ u # Admin
      /\ users' = [x \in DOMAIN users \ {u} |-> users[x]]
      /\ UNCHANGED <<sessions, logins>>
  BY AnsweredIs DEF DeleteUser
<1>2. ActsInv'
  BY <1>1 DEF ActsInv
<1>3. ByEditor(c)
  <2>1. con[c].sid # Nobody
    BY <1>1 DEF MayEdit
  <2> QED BY <1>1, <2>1, HeldActs DEF ByEditor
<1> QED BY <1>2, <1>3

LEMMA TickActs == ASSUME SessionInv, ActsInv, Tick PROVE ActsInv'
<1>1. DOMAIN sessions' = DOMAIN sessions /\ UNCHANGED <<users, logins>>
  BY DEF Tick
<1>2. ASSUME NEW s \in DOMAIN sessions
      PROVE  sessions'[s].entries = sessions[s].entries
  <2>1. DOMAIN sessions[s] = {"entries", "idle", "since"}
    BY DEF SessionInv, IdleIsUnused
  <2> DEFINE since == IF Has(sessions[s].entries, "next_login_attempt")
                      THEN Later(sessions[s].since, RetryThrottle + 1)
                      ELSE sessions[s].since
             idle == Later(sessions[s].idle, MaxAge + 1)
  <2>2. sessions'[s] = [sessions[s] EXCEPT !.idle = idle, !.since = since]
    BY DEF Tick
  <2> HIDE DEF since, idle
  <2> QED BY <2>1, <2>2
<1> QED BY <1>1, <1>2 DEF ActsInv

\* Nothing but a login, a logout and the work of an editor changes whom a session
\* acts for, and who may act.
LEMMA StepActs ==
  SessionInv /\ ActsInv /\ [Next]_vars =>
    ActsInv' /\ (users' # users => \E c \in Conn : ByEditor(c))
<1> SUFFICES ASSUME SessionInv, ActsInv, [Next]_vars
             PROVE  ActsInv' /\ (users' # users => \E c \in Conn : ByEditor(c))
  OBVIOUS
<1>1. CASE UNCHANGED <<sessions, users, logins>>
  BY <1>1 DEF ActsInv
<1>2. ASSUME NEW cookie, NEW s \in SessionFor(cookie), GetSession(s), UNCHANGED users
      PROVE  ActsInv'
  BY <1>2, GetSessionActs
<1>3. CASE \E c \in Conn, cookie \in spent \cup {Nobody}, method \in {"GET", "POST"} :
             Open(c, cookie, method)
  BY <1>2, <1>3 DEF Open
<1>4. CASE \E cookie \in spent \cup {Nobody} : OpenFails(cookie)
  BY <1>2, <1>4 DEF OpenFails
<1>5. ASSUME NEW c \in Conn, LoginFails(c) \/ Logout(c) \/ \E u \in User : LoginWorks(c, u)
      PROVE  ActsInv' /\ users' = users
  BY <1>5, FailedLoginActs, LogoutActs, LoginActs DEF LoginFails, Logout, LoginWorks
<1>6. ASSUME NEW c \in Conn, Request(c)
      PROVE  ActsInv' /\ (users' # users => \E d \in Conn : ByEditor(d))
  <2>1. CASE Serve(c) \/ UseFreed(c)
    BY <1>1, <2>1 DEF Serve, UseFreed
  <2>2. CASE \E u \in User : DeleteUser(c, u)
    BY <2>2, DeleteUserActs
  <2>3. CASE \E named \in User \cup {Nobody}, role \in Role \cup {Nobody} :
               UpdateUser(c, named, role)
    BY <2>3, UpdateUserActs
  <2> QED BY <1>5, <1>6, <2>1, <2>2, <2>3 DEF Request
<1>7. CASE \E c \in Conn : RequestCompleted(c)
  BY <1>1, <1>7 DEF RequestCompleted
<1>8. CASE Tick
  BY <1>8, TickActs DEF Tick
<1>9. CASE UNCHANGED vars
  BY <1>1, <1>9 DEF vars
<1> QED BY <1>3, <1>4, <1>6, <1>7, <1>8, <1>9 DEF Next, Running, Open, OpenFails

\* SessionActsForOldest, for any numbers, also of logins on one session: name and
\* role a session acts for are those of its oldest login that is not logged out.
THEOREM ActsForOldestLogin == Spec => []SessionActsForOldest
<1>1. SessionInv /\ ActsInv => SessionActsForOldest
  BY ActsForOldest DEF SessionActsForOldest
<1> QED BY <1>1, InitSession, StepKeeps, InitActs, StepActs, PTL DEF Spec

\* EditorsChangeUsers, for any numbers, also of logins on one session: users are
\* changed by sessions that act for a login that may, and the admin stays.
THEOREM OnlyEditors == Spec => EditorsChangeUsers
<1> DEFINE Allowed == users' # users => Admin \in DOMAIN users' /\ \E c \in Conn : ByEditor(c)
<1>1. SessionInv /\ ActsInv /\ [Next]_vars => [Allowed]_vars
  BY StepActs DEF ActsInv
<1>2. [][Allowed]_vars => EditorsChangeUsers
  BY PTL DEF EditorsChangeUsers, ByEditor
<1> QED BY <1>1, <1>2, InitSession, StepKeeps, InitActs, StepActs, PTL DEF Spec

------------------------------------------------------------------------------
(* The types                                                               *)

LimitInv ==
  /\ \A s \in DOMAIN sessions : sessions[s].since \in 0..(RetryThrottle + 1)
  /\ clients <= MaxClients
  /\ broken \in BOOLEAN

LEMMA LimitStep ==
  SessionInv /\ CountInv /\ LimitInv /\ [Next]_vars => LimitInv'
<1> SUFFICES ASSUME SessionInv, CountInv, LimitInv, [Next]_vars PROVE LimitInv'
  OBVIOUS
<1>0. clients \in Nat /\ MaxClients \in Nat /\ RetryThrottle \in Nat /\ 0 \in 0..(RetryThrottle + 1)
  BY SessionsAssumption, FS_CardinalityType DEF CountInv
<1>1. ASSUME NEW cookie, NEW s \in SessionFor(cookie), GetSession(s), UNCHANGED broken,
             clients' <= MaxClients
      PROVE  LimitInv'
  <2>1. PICK kept : kept = Alive \cup ({s} \ {Nobody})
    OBVIOUS
  <2>2. sessions' = [x \in kept |-> IF x \notin Alive THEN NewSession
                                    ELSE IF x = s THEN Touched(sessions[x])
                                    ELSE sessions[x]]
    BY <1>1, <2>1 DEF GetSession
  <2>3. ASSUME NEW x \in kept PROVE sessions'[x].since \in 0..(RetryThrottle + 1)
    <3>1. CASE x \notin Alive
      BY <1>0, <2>2, <3>1 DEF NewSession
    <3>2. CASE x \in Alive
      <4>1. x \in DOMAIN sessions /\ DOMAIN sessions[x] = {"entries", "idle", "since"}
        BY <3>2 DEF Alive, SessionInv, IdleIsUnused
      <4>2. sessions'[x] = sessions[x] \/ sessions'[x] = [sessions[x] EXCEPT !.idle = 0]
        BY <2>2, <3>2 DEF Touched
      <4>3. sessions'[x].since = sessions[x].since
        BY <4>1, <4>2
      <4> QED BY <4>1, <4>3 DEF LimitInv
    <3> QED BY <3>1, <3>2
  <2> QED BY <1>1, <2>2, <2>3 DEF LimitInv
<1>2. ASSUME NEW s, NEW new, SetSession(s, new), UNCHANGED <<clients, broken>>,
             s \in DOMAIN sessions => new.since \in 0..(RetryThrottle + 1)
      PROVE  LimitInv'
  BY <1>2 DEF SetSession, LimitInv
<1>3. CASE UNCHANGED <<sessions, clients, broken>>
  BY <1>3 DEF LimitInv
<1>4. ASSUME NEW c \in Conn, Request(c) PROVE LimitInv'
  <2>1. CASE LoginFails(c)
    <3>1. PICK new : SetSession(con[c].sid, new) /\ new.since = 0
      BY <2>1 DEF LoginFails
    <3> QED BY <1>0, <1>2, <2>1, <3>1 DEF LoginFails, Answer
  <2>2. ASSUME NEW u \in User, LoginWorks(c, u) PROVE LimitInv'
    <3>1. PICK new : SetSession(con[c].sid, new) /\ new.since = 0
      BY <2>2 DEF LoginWorks
    <3> QED BY <1>0, <1>2, <2>2, <3>1 DEF LoginWorks, Answer
  <2>3. CASE Logout(c)
    <3>1. PICK s : s = con[c].sid
      OBVIOUS
    <3>2. PICK new : new = [sessions[s] EXCEPT !.entries = Forgotten(@)]
      OBVIOUS
    <3>3. SetSession(s, new) /\ UNCHANGED <<clients, broken>>
      BY <2>3, <3>1, <3>2 DEF Logout, Answer
    <3>4. s \in DOMAIN sessions => new.since \in 0..(RetryThrottle + 1)
      BY <3>2 DEF SessionInv, IdleIsUnused, LimitInv
    <3> QED BY <1>2, <3>3, <3>4
  <2>4. CASE Serve(c)
    BY <1>3, <2>4 DEF Serve
  <2>5. CASE UseFreed(c)
    BY <2>5 DEF UseFreed, LimitInv
  <2>6. ASSUME NEW u \in User, DeleteUser(c, u) PROVE LimitInv'
    BY <1>3, <2>6 DEF DeleteUser, Answer
  <2>7. ASSUME NEW named, NEW role, UpdateUser(c, named, role) PROVE LimitInv'
    BY <1>3, <2>7 DEF UpdateUser, Answer
  <2> QED BY <1>4, <2>1, <2>2, <2>3, <2>4, <2>5, <2>6, <2>7 DEF Request
<1>5. ASSUME NEW c \in Conn, NEW cookie, NEW method, Open(c, cookie, method)
      PROVE  LimitInv'
  <2>1. PICK s \in SessionFor(cookie) : GetSession(s)
    BY <1>5 DEF Open
  <2>2. clients' <= MaxClients /\ UNCHANGED broken
    BY <1>0, <1>5 DEF Open
  <2> QED BY <1>1, <2>1, <2>2
<1>6. ASSUME NEW cookie, OpenFails(cookie) PROVE LimitInv'
  BY <1>1, <1>6 DEF OpenFails, LimitInv
<1>7. ASSUME NEW c \in Conn, RequestCompleted(c) PROVE LimitInv'
  <2>1. clients' <= MaxClients /\ UNCHANGED <<sessions, broken>>
    BY <1>0, <1>7 DEF RequestCompleted, Discount, LimitInv
  <2> QED BY <2>1 DEF LimitInv
<1>8. CASE Tick
  <2>1. DOMAIN sessions' = DOMAIN sessions /\ UNCHANGED <<clients, broken>>
    BY <1>8 DEF Tick
  <2>2. ASSUME NEW s \in DOMAIN sessions
        PROVE  sessions'[s].since \in 0..(RetryThrottle + 1)
    <3>1. PICK e : e = sessions[s]
      OBVIOUS
    <3>2. PICK idle, since :
            /\ since = IF Has(e.entries, "next_login_attempt")
                       THEN Later(e.since, RetryThrottle + 1) ELSE e.since
            /\ idle = Later(e.idle, MaxAge + 1)
      OBVIOUS
    <3>3. sessions'[s] = [e EXCEPT !.idle = idle, !.since = since]
      BY <1>8, <3>1, <3>2 DEF Tick
    <3>4. DOMAIN e = {"entries", "idle", "since"} /\ e.since \in 0..(RetryThrottle + 1)
      BY <3>1 DEF SessionInv, IdleIsUnused, LimitInv
    <3>5. since \in 0..(RetryThrottle + 1)
      BY <1>0, <3>2, <3>4 DEF Later
    <3> QED BY <3>3, <3>4, <3>5
  <2> QED BY <2>1, <2>2 DEF LimitInv
<1>9. CASE UNCHANGED vars
  BY <1>3, <1>9 DEF vars
<1> QED BY <1>4, <1>5, <1>6, <1>7, <1>8, <1>9 DEF Next, Running

LEMMA InitLimits == Init => LimitInv
<1> SUFFICES ASSUME Init PROVE LimitInv
  OBVIOUS
<1>1. \A s \in DOMAIN sessions : sessions[s].since \in 0..(RetryThrottle + 1)
  <2>1. sessions = << >>
    BY DEF Init
  <2>2. DOMAIN sessions = {}
    BY <2>1
  <2> QED BY <2>2
<1>2. clients <= MaxClients
  BY SessionsAssumption DEF Init
<1>3. broken \in BOOLEAN
  BY DEF Init
<1> QED BY <1>1, <1>2, <1>3 DEF LimitInv

\* SessionsTypeOK, for any connections, sessions, users and limits: the entries
\* are of the three kinds, nobody but a user is created, ids are given once, and
\* no counter leaves its range.
THEOREM SessionsTypeCorrect == Spec => []SessionsTypeOK
<1>1. SessionInv /\ CountInv /\ ActsInv /\ LimitInv => SessionsTypeOK
  <2> SUFFICES ASSUME SessionInv, CountInv, ActsInv, LimitInv PROVE SessionsTypeOK
    OBVIOUS
  <2>1. clients \in 0..MaxClients
    <3>1. clients \in Nat /\ MaxClients \in Nat
      BY SessionsAssumption, FS_CardinalityType DEF CountInv
    <3> QED BY <3>1 DEF LimitInv
  <2>2. ASSUME NEW s \in DOMAIN sessions
        PROVE  /\ \A i \in DOMAIN sessions[s].entries :
                    sessions[s].entries[i].key \in {"next_login_attempt", "username", "role"}
               /\ sessions[s].idle \in 0..(MaxAge + 1)
               /\ sessions[s].since \in 0..(RetryThrottle + 1)
    <3>1. PICK list \in Seq(AnyEntry) : list = sessions[s].entries
      BY DEF ActsInv, Shape
    <3>2. \A i \in DOMAIN list : list[i] \in AnyEntry
      OBVIOUS
    <3>3. \A i \in DOMAIN list : list[i].key \in {"next_login_attempt", "username", "role"}
      BY <3>2 DEF AnyEntry
    <3>4. sessions[s].idle \in 0..(MaxAge + 1)
      BY DEF SessionInv, IdleIsUnused
    <3> QED BY <3>1, <3>3, <3>4 DEF LimitInv
  <2>3. ASSUME NEW s \in Sid, NEW i \in DOMAIN logins[s]
        PROVE  logins[s][i] \in [user : User, role : Role \cup {NoRole}]
    <3>1. PICK past \in Seq(Login) : past = logins[s]
      BY DEF ActsInv
    <3>2. \A j \in DOMAIN past : past[j] \in Login
      OBVIOUS
    <3> QED BY <2>3, <3>1, <3>2 DEF Login
  <2>4. /\ DOMAIN sessions \subseteq spent /\ spent \subseteq Sid
        /\ DOMAIN users \subseteq User
        /\ \A u \in DOMAIN users : users[u] \in Role \cup {NoRole}
    BY DEF SessionInv, IdsAreSpent, ActsInv
  <2>5. /\ unused \in [Sid -> 0..(MaxAge + 1)]
        /\ con \in [Conn -> [pc : {"closed", "open", "answered"}, method : {"GET", "POST"},
                             sid : Sid \cup {Nobody}, age : 0..(MaxAge + 1)]]
        /\ broken \in BOOLEAN
    BY DEF SessionInv, IdleIsUnused, ConTyped, LimitInv
  <2> QED BY <2>1, <2>2, <2>3, <2>4, <2>5 DEF SessionsTypeOK
<1> QED BY <1>1, InitSession, StepKeeps, InitCount, StepCounts, InitActs, StepActs,
           InitLimits, LimitStep, PTL DEF Spec
=============================================================================
