---------------------------- MODULE AdminSessions ----------------------------
(***************************************************************************)
(* Administrators' sessions and passwords: internal/admin/session.go,      *)
(* portal.go and users.go, handleChangePassword of handler.go,             *)
(* internal/nosql/users.go and the default user of cmd/proxy/main.go.      *)
(*                                                                         *)
(* A request looks its session up in one critical section, prolongs it in  *)
(* another and is then served; each time it reads the clock before it      *)
(* waits for the lock.  Logout, expiry and other requests of the session   *)
(* come in between.  A cookie is good for ever: it is the session that     *)
(* ends.                                                                   *)
(***************************************************************************)
EXTENDS Integers, FiniteSets

CONSTANTS
  Request,      \* request goroutines
  Id,           \* session identifiers the program may generate
  User, Password,
  DefaultUser,  \* the user of the first start
  NoUser, NoSession,
  Stored,       \* users the database may hold at the first start
  TTL,          \* TTLSeconds
  MaxTime,      \* bound on the clock
  MaxRequests,  \* bound on the requests
  MaxRestarts   \* bound on the restarts

Account == [password : Password, disabled : BOOLEAN]
Session == [user : User, expires : Nat]

ASSUME UserAssumption ==
  /\ DefaultUser \in User /\ NoUser \notin Account /\ NoSession \notin Session
  /\ Stored \subseteq [User -> Account \cup {NoUser}]
ASSUME PasswordAssumption == Password # {}
ASSUME TimeAssumption == TTL \in Nat \ {0} /\ MaxTime \in Nat
ASSUME BoundAssumption == MaxRequests \in Nat /\ MaxRestarts \in Nat

VARIABLES
  now,       \* the clock
  sliding,   \* SlidingExpiration, from the configuration
  up,        \* the program runs
  users,     \* the bucket of admin users
  sessions,  \* the map of the session manager
  unused,    \* identifiers not generated yet
  pc, proc,
  left       \* what remains of the bounds

vars == <<now, sliding, up, users, sessions, unused, pc, proc, left>>

\* What a request wants: any handler behind the middleware, a new password, to
\* log out, or only to know whether it has a session (HandleLoginPage).
Operation == {"none", "login", "serve", "password", "logout", "look"}
\* stamp is the time the request has last read; late, which only properties read,
\* says that its session was over when it came.
Local ==
  [op : Operation, id : Id \cup {NoSession}, user : User, stamp : Nat, late : BOOLEAN,
   old : Password, new : Password, account : Account \cup {NoUser}]
Fresh ==
  LET p == CHOOSE q \in Password : TRUE
  IN [op |-> "none", id |-> NoSession, user |-> DefaultUser, stamp |-> 0,
      late |-> FALSE, old |-> p, new |-> p, account |-> NoUser]

TypeOK ==
  /\ now \in 0 .. MaxTime /\ sliding \in BOOLEAN /\ up \in BOOLEAN
  /\ users \in [User -> Account \cup {NoUser}]
  /\ sessions \in [Id -> Session \cup {NoSession}] /\ unused \subseteq Id
  /\ \A id \in unused : sessions[id] = NoSession
  /\ pc \in [Request -> {"idle", "create", "insert", "arrive", "lookup", "found",
                         "touch", "serve", "get", "update", "destroy"}]
  /\ proc \in [Request -> Local]
  /\ \A r \in Request : proc[r].stamp <= now
  /\ left \in [requests : 0 .. MaxRequests, restarts : 0 .. MaxRestarts]

Init ==
  /\ now = 0 /\ sliding \in BOOLEAN /\ up = FALSE
  /\ users \in Stored
  /\ sessions = [id \in Id |-> NoSession] /\ unused = Id
  /\ pc = [r \in Request |-> "idle"] /\ proc = [r \in Request |-> Fresh]
  /\ left = [requests |-> MaxRequests, restarts |-> MaxRestarts]

Spend(bound) == left[bound] > 0 /\ left' = [left EXCEPT ![bound] = @ - 1]
Goto(r, to, local) ==
  pc' = [pc EXCEPT ![r] = to] /\ proc' = [proc EXCEPT ![r] = local]
Leave(r) == Goto(r, "idle", Fresh)
Begin(r, to, local) == up /\ pc[r] = "idle" /\ Spend("requests") /\ Goto(r, to, local)
----------------------------------------------------------------------------
(* Sessions. *)

Remove(id) == sessions' = [sessions EXCEPT ![id] = NoSession]

\* Expired at the time a request has read.
Over(id, stamp) == sessions[id] = NoSession \/ stamp > sessions[id].expires

\* time.Now, which comes before the lock.
Stamp(r) ==
  /\ \/ pc[r] = "create" /\ Goto(r, "insert", [proc[r] EXCEPT !.stamp = now])
     \/ pc[r] = "arrive" /\ Goto(r, "lookup", [proc[r] EXCEPT !.stamp = now])
     \/ pc[r] = "found" /\ Goto(r, "touch", [proc[r] EXCEPT !.stamp = now])
  /\ UNCHANGED <<now, sliding, up, users, sessions, unused, left>>

\* CreateSession, in its critical section.
CreateSession(r) ==
  /\ pc[r] = "insert" /\ Leave(r)
  /\ \E id \in unused :
       /\ sessions' = [sessions EXCEPT
            ![id] = [user |-> proc[r].user, expires |-> proc[r].stamp + TTL]]
       /\ unused' = unused \ {id}
  /\ UNCHANGED <<now, sliding, up, users, left>>

\* A request holds a session from the time it has read before the lookup until
\* it has been served.
Served == {"found", "touch", "serve", "get", "update"}
Held(id) == \E r \in Request : proc[r].id = id /\ pc[r] \in {"lookup"} \cup Served

\* A request with a cookie that verifyCookie accepts: of any session there was.
Arrive(r, op, id, old, new) ==
  /\ Begin(r, "arrive", [Fresh EXCEPT !.op = op, !.id = id, !.old = old, !.new = new,
                                      !.late = Over(id, now) /\ ~Held(id)])
  /\ UNCHANGED <<now, sliding, up, users, sessions, unused>>

\* Mutant: a session in the map is good.
LookupAny(r) ==
  /\ pc[r] = "lookup"
  /\ LET id == proc[r].id  gone == sessions[id] = NoSession
     IN IF proc[r].op = "logout" THEN Goto(r, "destroy", proc[r])
        ELSE IF gone \/ proc[r].op = "look" THEN Leave(r)
        ELSE Goto(r, "found", [proc[r] EXCEPT !.user = sessions[id].user])
  /\ UNCHANGED <<now, sliding, up, users, sessions, unused, left>>

\* CurrentSession and sessionByID.  Logging out destroys the session of the
\* cookie in any case.
Lookup(r) ==
  /\ pc[r] = "lookup"
  /\ LET id == proc[r].id  over == Over(id, proc[r].stamp)
     IN /\ IF over THEN Remove(id) ELSE UNCHANGED sessions
        /\ IF proc[r].op = "logout" THEN Goto(r, "destroy", proc[r])
           ELSE IF over \/ proc[r].op = "look" THEN Leave(r)
           ELSE Goto(r, "found", [proc[r] EXCEPT !.user = sessions[id].user])
  /\ UNCHANGED <<now, sliding, up, users, unused, left>>

\* DestroySession
Destroy(r) ==
  /\ pc[r] = "destroy" /\ Remove(proc[r].id) /\ Leave(r)
  /\ UNCHANGED <<now, sliding, up, users, unused, left>>

\* Mutant: the session found before is put back with its new end.
TouchFound(r) ==
  /\ pc[r] = "touch" /\ Goto(r, "serve", proc[r])
  /\ sessions' = [sessions EXCEPT
       ![proc[r].id] = [user |-> proc[r].user, expires |-> proc[r].stamp + TTL]]
  /\ UNCHANGED <<now, sliding, up, users, unused, left>>

\* touch: a session still there is prolonged, or without sliding expiration
\* looked up again.  The middleware serves the request in any case.
Touch(r) ==
  /\ pc[r] = "touch" /\ Goto(r, "serve", proc[r])
  /\ LET id == proc[r].id
     IN IF Over(id, proc[r].stamp) THEN Remove(id)
        ELSE IF sliding
        THEN sessions' = [sessions EXCEPT ![id].expires = proc[r].stamp + TTL]
        ELSE UNCHANGED sessions
  /\ UNCHANGED <<now, sliding, up, users, unused, left>>
----------------------------------------------------------------------------
(* Users and passwords. *)

\* AuthenticateUser, on what Get returns.
Authentic(u, password) ==
  users[u] # NoUser /\ ~users[u].disabled /\ users[u].password = password

\* HandleLogin as far as it needs no session.
Login(r, u, password) ==
  /\ Authentic(u, password)
  /\ Begin(r, "create", [Fresh EXCEPT !.op = "login", !.user = u])
  /\ UNCHANGED <<now, sliding, up, users, sessions, unused>>

\* The handler behind the middleware.  handleChangePassword compares the old
\* password ...
Serve(r) ==
  /\ pc[r] = "serve"
  /\ IF proc[r].op = "password" /\ Authentic(proc[r].user, proc[r].old)
     THEN Goto(r, "get", proc[r]) ELSE Leave(r)
  /\ UNCHANGED <<now, sliding, up, users, sessions, unused, left>>

\* ... reads the user again ...
GetUser(r) ==
  /\ pc[r] = "get"
  /\ IF users[proc[r].user] = NoUser THEN Leave(r)
     ELSE Goto(r, "update", [proc[r] EXCEPT !.account = users[proc[r].user]])
  /\ UNCHANGED <<now, sliding, up, users, sessions, unused, left>>

\* ... and writes the whole record.
UpdateUser(r) ==
  /\ pc[r] = "update" /\ Leave(r)
  /\ LET u == proc[r].user
     IN users' = IF users[u] = NoUser THEN users
                 ELSE [users EXCEPT ![u] = [proc[r].account EXCEPT !.password = proc[r].new]]
  /\ UNCHANGED <<now, sliding, up, sessions, unused, left>>

\* SeedDefaultUser, at a start without any user; the password is configured or
\* random.
Seed ==
  IF \A u \in User : users[u] = NoUser
  THEN \E p \in Password :
         users' = [users EXCEPT ![DefaultUser] = [password |-> p, disabled |-> FALSE]]
  ELSE UNCHANGED users
----------------------------------------------------------------------------
Start ==
  /\ ~up /\ up' = TRUE /\ Seed
  /\ UNCHANGED <<now, sliding, sessions, unused, pc, proc, left>>

\* The process ends; sessions are only in memory.
Stop ==
  /\ up /\ up' = FALSE /\ Spend("restarts")
  /\ sessions' = [id \in Id |-> NoSession]
  /\ pc' = [r \in Request |-> "idle"] /\ proc' = [r \in Request |-> Fresh]
  /\ UNCHANGED <<now, sliding, users, unused>>

Tick ==
  /\ now < MaxTime /\ now' = now + 1
  /\ UNCHANGED <<sliding, up, users, sessions, unused, pc, proc, left>>

Handle(r) ==
  \/ Stamp(r) \/ CreateSession(r) \/ Lookup(r) \/ Destroy(r) \/ Touch(r)
  \/ Serve(r) \/ GetUser(r) \/ UpdateUser(r)

Next ==
  \/ \E r \in Request :
       \/ Handle(r)
       \/ \E u \in User, p \in Password : Login(r, u, p)
       \/ \E id \in Id \ unused :
            \/ \E op \in {"serve", "logout", "look"} : Arrive(r, op, id, Fresh.old, Fresh.new)
            \/ \E old, new \in Password : Arrive(r, "password", id, old, new)
  \/ Start \/ Stop \/ Tick

Spec == Init /\ [][Next]_vars
----------------------------------------------------------------------------
(* Properties. *)

\* A session that has been removed, by logout, because its time was up or with
\* the process, is not in the map again: not even the request that has found it
\* and is about to prolong it (session.go:149) brings it back.
Gone(id) == id \notin unused /\ sessions[id] = NoSession
RemovedForGood == [][\A id \in Id : Gone(id) => Gone(id)']_vars

\* A session whose time is up and that no request holds is over, although it is
\* in the map until somebody asks for it: no request that comes from then on is
\* served with it, and none prolongs it.  (A request that reads the clock before
\* the end and gets the lock after it does, session.go:187 and 210.)
EndedForGood == \A r \in Request : proc[r].late => pc[r] \notin Served
=============================================================================
