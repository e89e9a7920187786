------------------------- MODULE AdminSessionsProofs -------------------------
(***************************************************************************)
(* Theorems about AdminSessions, for any number of requests, sessions,     *)
(* users and passwords, and any time.                                      *)
(***************************************************************************)
EXTENDS AdminSessions, TLAPS

Place == {"idle", "create", "insert", "arrive", "lookup", "found",
          "touch", "serve", "get", "update", "destroy"}

\* Requests that came with a cookie.
Cookie == {"arrive", "lookup", "destroy"} \cup Served

StoreInv ==
  /\ now \in 0 .. MaxTime /\ sliding \in BOOLEAN /\ up \in BOOLEAN
  /\ users \in [User -> Account \cup {NoUser}]
  /\ sessions \in [Id -> Session \cup {NoSession}] /\ unused \subseteq Id
  /\ \A id \in unused : sessions[id] = NoSession
  /\ left \in [requests : 0 .. MaxRequests, restarts : 0 .. MaxRestarts]

\* The session a request names has been generated.
Fits(place, l, unu) ==
  /\ place \in Cookie => l.id \in Id \ unu
  /\ place = "update" => l.account # NoUser

ProcInv ==
  /\ pc \in [Request -> Place] /\ proc \in [Request -> Local]
  /\ \A r \in Request : Fits(pc[r], proc[r], unused) /\ proc[r].stamp <= now

TypeInv == StoreInv /\ ProcInv

\* The session id is over, for every request that looks it up now or has read
\* the clock for it.
Dead(id) ==
  /\ id \in Id \ unused /\ Over(id, now)
  /\ \A r \in Request : proc[r].id = id =>
       /\ pc[r] \notin Served
       /\ pc[r] = "lookup" => Over(id, proc[r].stamp)

LateInv == \A r \in Request : proc[r].late => Dead(proc[r].id)

Inv == TypeInv /\ LateInv
----------------------------------------------------------------------------
(* Types. *)

LEMMA FreshIsLocal ==
  /\ Fresh \in Local /\ Fresh.stamp = 0 /\ Fresh.late = FALSE
  /\ Fresh.old \in Password /\ Fresh.new \in Password
<1>1. (CHOOSE q \in Password : TRUE) \in Password
  BY PasswordAssumption
<1>. QED  BY <1>1, UserAssumption DEF Fresh, Local, Operation

LEMMA SpendType ==
  ASSUME StoreInv, NEW bound \in {"requests", "restarts"}, Spend(bound)
  PROVE  left' \in [requests : 0 .. MaxRequests, restarts : 0 .. MaxRestarts]
<1>1. left \in [requests : 0 .. MaxRequests, restarts : 0 .. MaxRestarts]
  BY DEF StoreInv
<1>2. CASE bound = "requests"
  BY <1>1, <1>2, BoundAssumption DEF Spend
<1>3. CASE bound = "restarts"
  BY <1>1, <1>3, BoundAssumption DEF Spend
<1>. QED  BY <1>2, <1>3

\* A request that goes on keeps the types, if it keeps its own.
LEMMA GotoType ==
  ASSUME TypeInv, NEW r \in Request, NEW to \in Place, NEW local \in Local,
         Goto(r, to, local), local.stamp <= now, Fits(to, local, unused'),
         unused' \subseteq unused, UNCHANGED now
  PROVE  ProcInv'
<1>1. /\ pc' \in [Request -> Place] /\ proc' \in [Request -> Local]
      /\ pc'[r] = to /\ proc'[r] = local
      /\ \A q \in Request \ {r} : pc'[q] = pc[q] /\ proc'[q] = proc[q]
  BY DEF Goto, TypeInv, ProcInv
<1>2. ASSUME NEW q \in Request PROVE Fits(pc'[q], proc'[q], unused') /\ proc'[q].stamp <= now'
  BY <1>1 DEF TypeInv, ProcInv, Fits
<1>. QED  BY <1>1, <1>2 DEF ProcInv

LEMMA LeaveType ==
  ASSUME TypeInv, NEW r \in Request, Leave(r), unused' \subseteq unused, UNCHANGED now
  PROVE  ProcInv'
<1>1. 0 <= now /\ Fits("idle", Fresh, unused')
  BY DEF TypeInv, StoreInv, Fits, Cookie, Served
<1>. QED  BY <1>1, FreshIsLocal, GotoType DEF Leave, Place

\* A session that is generated, removed or prolonged is one.
LEMMA SessionType ==
  ASSUME StoreInv, NEW id, NEW s \in Session \cup {NoSession},
         sessions' = [sessions EXCEPT ![id] = s]
  PROVE  sessions' \in [Id -> Session \cup {NoSession}]
BY DEF StoreInv

LEMMA TypeStep ==
  ASSUME TypeInv, [Next]_vars
  PROVE  TypeInv'
<1>0. StoreInv /\ ProcInv
  BY DEF TypeInv
<1>a. ASSUME NEW r \in Request
      PROVE  /\ proc[r] \in Local /\ pc[r] \in Place /\ proc[r].stamp \in Nat
             /\ proc[r].stamp <= now /\ Fits(pc[r], proc[r], unused)
  BY <1>0 DEF ProcInv, Local
<1>1. ASSUME NEW r \in Request, Stamp(r) PROVE TypeInv'
  <2>1. StoreInv'
    BY <1>0, <1>1 DEF Stamp, StoreInv
  <2> DEFINE l == [proc[r] EXCEPT !.stamp = now]
  <2>2. l \in Local /\ l.stamp = now /\ l.id = proc[r].id /\ l.account = proc[r].account
    BY <1>a, <1>0 DEF Local, StoreInv
  <2>3. PICK to \in {"insert", "lookup", "touch"} :
          /\ Goto(r, to, l) /\ UNCHANGED <<now, unused>>
          /\ to # "insert" => pc[r] \in {"arrive", "found"}
    BY <1>1 DEF Stamp
  <2>4. Fits(to, l, unused')
    BY <1>a, <2>2, <2>3 DEF Fits, Cookie, Served
  <2>5. now <= now
    BY <1>0 DEF StoreInv
  <2> HIDE DEF l
  <2>. QED  BY <2>1, <2>2, <2>3, <2>4, <2>5, GotoType DEF TypeInv, Place
<1>2. ASSUME NEW r \in Request, CreateSession(r) PROVE TypeInv'
  <2>1. PICK id \in unused :
          /\ sessions' = [sessions EXCEPT
               ![id] = [user |-> proc[r].user, expires |-> proc[r].stamp + TTL]]
          /\ unused' = unused \ {id}
    BY <1>2 DEF CreateSession
  <2>2. [user |-> proc[r].user, expires |-> proc[r].stamp + TTL] \in Session
    BY <1>a, TimeAssumption DEF Local, Session
  <2>3. StoreInv'
    BY <1>0, <1>2, <2>1, <2>2 DEF CreateSession, StoreInv
  <2>. QED  BY <1>2, <2>1, <2>3, LeaveType DEF CreateSession, TypeInv
<1>3. ASSUME NEW r \in Request, Lookup(r) PROVE TypeInv'
  <2>1. StoreInv'
    BY <1>0, <1>3 DEF Lookup, Remove, StoreInv
  <2>2. CASE Goto(r, "destroy", proc[r])
    <3>1. Fits("destroy", proc[r], unused')
      BY <1>a, <1>3 DEF Lookup, Fits, Cookie, Served
    <3>. QED  BY <1>a, <1>3, <2>1, <2>2, <3>1, GotoType DEF Lookup, TypeInv, Place
  <2>3. CASE Leave(r)
    BY <1>3, <2>1, <2>3, LeaveType DEF Lookup, TypeInv
  <2>4. CASE /\ ~Over(proc[r].id, proc[r].stamp)
             /\ Goto(r, "found", [proc[r] EXCEPT !.user = sessions[proc[r].id].user])
    <3> DEFINE l == [proc[r] EXCEPT !.user = sessions[proc[r].id].user]
    <3>1. proc[r].id \in Id \ unused
      BY <1>a, <1>3 DEF Lookup, Fits, Cookie, Served
    <3>2. sessions[proc[r].id] \in Session
      BY <1>0, <2>4, <3>1 DEF StoreInv, Over
    <3>3. l \in Local /\ l.id = proc[r].id /\ l.stamp = proc[r].stamp
      BY <1>a, <3>2 DEF Local, Session
    <3>4. Fits("found", l, unused')
      BY <1>3, <3>1, <3>3 DEF Lookup, Fits
    <3>5. Goto(r, "found", l)
      BY <2>4
    <3> HIDE DEF l
    <3>. QED  BY <1>a, <1>3, <2>1, <3>3, <3>4, <3>5, GotoType DEF Lookup, TypeInv, Place
  <2>. QED  BY <1>3, <2>2, <2>3, <2>4 DEF Lookup
<1>4. ASSUME NEW r \in Request, Destroy(r) PROVE TypeInv'
  <2>1. StoreInv'
    BY <1>0, <1>4 DEF Destroy, Remove, StoreInv
  <2>. QED  BY <1>4, <2>1, LeaveType DEF Destroy, TypeInv
<1>5. ASSUME NEW r \in Request, Touch(r) PROVE TypeInv'
  <2> DEFINE id == proc[r].id
  <2>1. id \in Id \ unused
    BY <1>a, <1>5 DEF Touch, Fits, Cookie, Served
  <2>2. sessions' \in [Id -> Session \cup {NoSession}]
    <3>1. CASE UNCHANGED sessions \/ Remove(id)
      BY <1>0, <3>1 DEF StoreInv, Remove
    <3>2. CASE /\ ~Over(id, proc[r].stamp)
               /\ sessions' = [sessions EXCEPT ![id].expires = proc[r].stamp + TTL]
      <4>1. sessions[id] \in Session
        BY <1>0, <2>1, <3>2 DEF StoreInv, Over
      <4>2. [sessions[id] EXCEPT !.expires = proc[r].stamp + TTL] \in Session
        BY <1>a, <4>1, TimeAssumption DEF Session
      <4>3. sessions' = [sessions EXCEPT ![id] = [sessions[id] EXCEPT !.expires = proc[r].stamp + TTL]]
        BY <1>0, <2>1, <3>2 DEF StoreInv
      <4>. QED  BY <1>0, <4>2, <4>3, SessionType
    <3>. QED  BY <1>5, <3>1, <3>2 DEF Touch
  <2>3. \A i \in unused : sessions'[i] = sessions[i]
    BY <1>0, <1>5, <2>1 DEF Touch, Remove, StoreInv
  <2>4. StoreInv'
    BY <1>0, <1>5, <2>2, <2>3 DEF Touch, StoreInv
  <2>5. Fits("serve", proc[r], unused')
    BY <1>5, <2>1 DEF Touch, Fits
  <2>. QED  BY <1>a, <1>5, <2>4, <2>5, GotoType DEF Touch, TypeInv, Place
<1>6. ASSUME NEW r \in Request, Serve(r) PROVE TypeInv'
  <2>1. StoreInv'
    BY <1>0, <1>6 DEF Serve, StoreInv
  <2>2. Fits("get", proc[r], unused')
    BY <1>a, <1>6 DEF Serve, Fits, Cookie, Served
  <2>3. Goto(r, "get", proc[r]) \/ Leave(r)
    BY <1>6 DEF Serve
  <2>. QED  BY <1>a, <1>6, <2>1, <2>2, <2>3, GotoType, LeaveType DEF Serve, TypeInv, Place
<1>7. ASSUME NEW r \in Request, GetUser(r) PROVE TypeInv'
  <2>1. StoreInv'
    BY <1>0, <1>7 DEF GetUser, StoreInv
  <2>2. CASE Leave(r)
    BY <1>7, <2>1, <2>2, LeaveType DEF GetUser, TypeInv
  <2>3. CASE /\ users[proc[r].user] # NoUser
             /\ Goto(r, "update", [proc[r] EXCEPT !.account = users[proc[r].user]])
    <3> DEFINE l == [proc[r] EXCEPT !.account = users[proc[r].user]]
    <3>1. users[proc[r].user] \in Account
      BY <1>0, <1>a, <2>3 DEF StoreInv, Local
    <3>2. l \in Local /\ l.id = proc[r].id /\ l.stamp = proc[r].stamp /\ l.account # NoUser
      BY <1>a, <2>3, <3>1 DEF Local
    <3>3. Fits("update", l, unused')
      BY <1>a, <1>7, <3>2 DEF GetUser, Fits, Cookie, Served
    <3>4. Goto(r, "update", l)
      BY <2>3
    <3> HIDE DEF l
    <3>. QED  BY <1>a, <1>7, <2>1, <3>2, <3>3, <3>4, GotoType DEF GetUser, TypeInv, Place
  <2>. QED  BY <1>7, <2>2, <2>3 DEF GetUser
<1>8. ASSUME NEW r \in Request, UpdateUser(r) PROVE TypeInv'
  <2>1. proc[r].account \in Account /\ proc[r].new \in Password
    BY <1>a, <1>8 DEF UpdateUser, Fits, Local
  <2>2. [proc[r].account EXCEPT !.password = proc[r].new] \in Account
    BY <2>1 DEF Account
  <2>3. StoreInv'
    BY <1>0, <1>8, <2>2 DEF UpdateUser, StoreInv
  <2>. QED  BY <1>8, <2>3, LeaveType DEF UpdateUser, TypeInv
<1>9. ASSUME NEW r \in Request, NEW u \in User, NEW p \in Password, Login(r, u, p) PROVE TypeInv'
  <2> DEFINE l == [Fresh EXCEPT !.op = "login", !.user = u]
  <2>1. l \in Local /\ l.stamp = 0
    BY FreshIsLocal DEF Local, Operation
  <2>2. StoreInv'
    BY <1>0, <1>9, SpendType DEF Login, Begin, StoreInv
  <2>3. Goto(r, "create", l) /\ UNCHANGED <<now, unused>> /\ l.stamp <= now /\ Fits("create", l, unused')
    BY <1>0, <1>9, <2>1 DEF Login, Begin, StoreInv, Fits, Cookie, Served
  <2> HIDE DEF l
  <2>. QED  BY <2>1, <2>2, <2>3, GotoType DEF TypeInv, Place
<1>10. ASSUME NEW r \in Request, NEW id \in Id \ unused, NEW op \in Operation,
              NEW old \in Password, NEW new \in Password, Arrive(r, op, id, old, new)
       PROVE  TypeInv'
  <2> DEFINE l == [Fresh EXCEPT !.op = op, !.id = id, !.old = old, !.new = new,
                                !.late = Over(id, now) /\ ~Held(id)]
  <2>1. (Over(id, now) /\ ~Held(id)) \in BOOLEAN
    BY DEF Over, Held
  <2>2. l \in Local /\ l.stamp = 0 /\ l.id = id
    BY <2>1, FreshIsLocal DEF Local
  <2>3. StoreInv'
    BY <1>0, <1>10, SpendType DEF Arrive, Begin, StoreInv
  <2>4. Goto(r, "arrive", l) /\ UNCHANGED <<now, unused>>
    BY <1>10 DEF Arrive, Begin
  <2> HIDE DEF l
  <2>5. l.stamp <= now /\ Fits("arrive", l, unused')
    BY <1>0, <2>2, <2>4 DEF StoreInv, Fits
  <2>. QED  BY <2>2, <2>3, <2>4, <2>5, GotoType DEF TypeInv, Place
<1>11. CASE Start
  <2>1. users' \in [User -> Account \cup {NoUser}]
    <3>1. CASE UNCHANGED users
      BY <1>0, <3>1 DEF StoreInv
    <3>2. ASSUME NEW p \in Password,
                 users' = [users EXCEPT ![DefaultUser] = [password |-> p, disabled |-> FALSE]]
          PROVE  users' \in [User -> Account \cup {NoUser}]
      <4>1. [password |-> p, disabled |-> FALSE] \in Account
        BY DEF Account
      <4>. QED  BY <1>0, <3>2, <4>1 DEF StoreInv
    <3>. QED  BY <1>11, <3>1, <3>2 DEF Start, Seed
  <2>. QED  BY <1>0, <1>11, <2>1 DEF Start, TypeInv, StoreInv, ProcInv
<1>12. CASE Stop
  <2>1. StoreInv'
    BY <1>0, <1>12, SpendType DEF Stop, StoreInv
  <2>2. \A r \in Request : Fits("idle", Fresh, unused') /\ Fresh.stamp <= now'
    BY <1>0, <1>12, FreshIsLocal DEF Stop, StoreInv, Fits, Cookie, Served
  <2>3. ProcInv'
    BY <1>12, <2>2, FreshIsLocal DEF Stop, ProcInv, Place
  <2>. QED  BY <2>1, <2>3 DEF TypeInv
<1>13. CASE Tick
  <2>1. StoreInv'
    BY <1>0, <1>13, TimeAssumption DEF Tick, StoreInv
  <2>2. \A r \in Request : proc[r].stamp <= now'
    BY <1>0, <1>13, <1>a, TimeAssumption DEF Tick, StoreInv
  <2>. QED  BY <1>0, <1>13, <2>1, <2>2 DEF Tick, TypeInv, ProcInv
<1>14. CASE UNCHANGED vars
  BY <1>0, <1>14 DEF vars, TypeInv, StoreInv, ProcInv
<1>. QED
  BY <1>1, <1>2, <1>3, <1>4, <1>5, <1>6, <1>7, <1>8, <1>9, <1>10, <1>11, <1>12, <1>13, <1>14,
     FreshIsLocal DEF Next, Handle, Operation
----------------------------------------------------------------------------
(* A session that is over stays so. *)

\* What a request may do without reviving the session id.
LEMMA MoveDead ==
  ASSUME TypeInv, NEW id, Dead(id), NEW r \in Request, NEW to \in Place, NEW l \in Local,
         Goto(r, to, l), id \notin unused', UNCHANGED now,
         sessions'[id] = sessions[id] \/ sessions'[id] = NoSession,
         l.id = id => to \notin Served /\ (to = "lookup" => Over(id, l.stamp))
  PROVE  Dead(id)'
<1>1. /\ pc'[r] = to /\ proc'[r] = l
      /\ \A q \in Request \ {r} : pc'[q] = pc[q] /\ proc'[q] = proc[q]
  BY DEF Goto, TypeInv, ProcInv
<1>2. Over(id, now)'
  BY DEF Dead, Over
<1>3. ASSUME NEW q \in Request, proc'[q].id = id
      PROVE  /\ pc'[q] \notin Served
             /\ pc'[q] = "lookup" => Over(id, proc[q].stamp)' \/ Over(id, proc'[q].stamp)
  BY <1>1, <1>3 DEF Dead, Over
<1>4. ASSUME NEW q \in Request, proc'[q].id = id, pc'[q] = "lookup"
      PROVE  Over(id, proc[q].stamp)'
  BY <1>1, <1>4 DEF Dead, Over
<1>. QED  BY <1>2, <1>3, <1>4 DEF Dead

\* A request that ends leaves nothing behind.
LEMMA LeaveDead ==
  ASSUME TypeInv, NEW id, Dead(id), NEW r \in Request, Leave(r), id \notin unused',
         UNCHANGED now, sessions'[id] = sessions[id] \/ sessions'[id] = NoSession
  PROVE  Dead(id)'
BY MoveDead, FreshIsLocal DEF Leave, Place, Served

LEMMA HandleDead ==
  ASSUME TypeInv, NEW id, Dead(id), NEW r \in Request, Handle(r)
  PROVE  Dead(id)'
<1>0. /\ proc[r] \in Local /\ pc[r] \in Place /\ id \in Id \ unused
      /\ sessions \in [Id -> Session \cup {NoSession}] /\ now \in Nat
      /\ proc[r].id = id => pc[r] \notin Served /\ (pc[r] = "lookup" => Over(id, proc[r].stamp))
  BY DEF TypeInv, ProcInv, StoreInv, Dead
<1>1. CASE Stamp(r)
  <2> DEFINE l == [proc[r] EXCEPT !.stamp = now]
  <2>1. l \in Local /\ l.stamp = now /\ l.id = proc[r].id
    BY <1>0 DEF Local
  <2>2. PICK to \in {"insert", "lookup", "touch"} :
          /\ Goto(r, to, l) /\ UNCHANGED <<now, sessions, unused>>
          /\ to = "touch" => pc[r] = "found"
    BY <1>1 DEF Stamp
  <2> HIDE DEF l
  <2>3. l.id = id => to \notin Served /\ (to = "lookup" => Over(id, l.stamp))
    BY <1>0, <2>1, <2>2 DEF Served, Dead
  <2>. QED  BY <1>0, <2>1, <2>2, <2>3, MoveDead DEF Place
<1>2. CASE CreateSession(r)
  <2>1. PICK i \in unused :
          /\ sessions' = [sessions EXCEPT
               ![i] = [user |-> proc[r].user, expires |-> proc[r].stamp + TTL]]
          /\ unused' = unused \ {i}
    BY <1>2 DEF CreateSession
  <2>2. sessions'[id] = sessions[id] /\ id \notin unused'
    BY <1>0, <2>1
  <2>. QED  BY <1>2, <2>2, LeaveDead DEF CreateSession
<1>3. CASE Lookup(r)
  <2>1. /\ sessions'[id] = sessions[id] \/ sessions'[id] = NoSession
        /\ id \notin unused' /\ UNCHANGED now
    BY <1>0, <1>3 DEF Lookup, Remove
  <2>2. CASE Goto(r, "destroy", proc[r])
    BY <1>0, <2>1, <2>2, MoveDead DEF Place, Served
  <2>3. CASE Leave(r)
    BY <2>1, <2>3, LeaveDead
  <2>4. CASE /\ ~Over(proc[r].id, proc[r].stamp)
             /\ Goto(r, "found", [proc[r] EXCEPT !.user = sessions[proc[r].id].user])
    <3> DEFINE l == [proc[r] EXCEPT !.user = sessions[proc[r].id].user]
    <3>1. proc[r].id # id
      BY <1>0, <1>3, <2>4 DEF Lookup
    <3>2. proc[r].id \in Id
      BY <1>3 DEF Lookup, TypeInv, ProcInv, Fits, Cookie
    <3>3. sessions[proc[r].id] \in Session
      BY <1>0, <2>4, <3>2 DEF Over
    <3>4. l \in Local /\ l.id # id
      BY <1>0, <3>1, <3>3 DEF Local, Session
    <3>5. Goto(r, "found", l)
      BY <2>4
    <3> HIDE DEF l
    <3>. QED  BY <2>1, <3>4, <3>5, MoveDead DEF Place
  <2>. QED  BY <1>3, <2>2, <2>3, <2>4 DEF Lookup
<1>4. CASE Destroy(r)
  <2>1. sessions'[id] = sessions[id] \/ sessions'[id] = NoSession
    BY <1>0, <1>4 DEF Destroy, Remove
  <2>. QED  BY <1>0, <1>4, <2>1, LeaveDead DEF Destroy
<1>5. CASE Touch(r)
  <2>1. proc[r].id # id
    BY <1>0, <1>5 DEF Touch, Served
  <2>2. sessions'[id] = sessions[id] /\ Goto(r, "serve", proc[r]) /\ UNCHANGED <<now, unused>>
    BY <1>0, <1>5, <2>1 DEF Touch, Remove
  <2>. QED  BY <1>0, <2>1, <2>2, MoveDead DEF Place
<1>6. CASE Serve(r)
  <2>1. proc[r].id # id
    BY <1>0, <1>6 DEF Serve, Served
  <2>2. UNCHANGED <<now, sessions, unused>> /\ (Goto(r, "get", proc[r]) \/ Leave(r))
    BY <1>6 DEF Serve
  <2>. QED  BY <1>0, <2>1, <2>2, MoveDead, LeaveDead DEF Place
<1>7. CASE GetUser(r)
  <2> DEFINE l == [proc[r] EXCEPT !.account = users[proc[r].user]]
  <2>1. proc[r].id # id
    BY <1>0, <1>7 DEF GetUser, Served
  <2>2. l \in Local /\ l.id # id
    <3>1. users[proc[r].user] \in Account \cup {NoUser}
      BY <1>0 DEF TypeInv, StoreInv, Local
    <3>. QED  BY <1>0, <2>1, <3>1 DEF Local
  <2>3. UNCHANGED <<now, sessions, unused>> /\ (Goto(r, "update", l) \/ Leave(r))
    BY <1>7 DEF GetUser
  <2> HIDE DEF l
  <2>. QED  BY <1>0, <2>2, <2>3, MoveDead, LeaveDead DEF Place
<1>8. CASE UpdateUser(r)
  BY <1>0, <1>8, LeaveDead DEF UpdateUser
<1>. QED  BY <1>1, <1>2, <1>3, <1>4, <1>5, <1>6, <1>7, <1>8 DEF Handle

\* A request that comes revives nothing, and one whose session is over when it
\* comes is late.
LEMMA ArriveDead ==
  ASSUME TypeInv, NEW r \in Request, NEW id \in Id \ unused, NEW op \in Operation,
         NEW old \in Password, NEW new \in Password, Arrive(r, op, id, old, new)
  PROVE  /\ \A i : Dead(i) => Dead(i)'
         /\ \A q \in Request : proc'[q].late =>
              Dead(proc[q].id)' \/ (proc[q].late /\ proc'[q].id = proc[q].id)
<1> DEFINE l == [Fresh EXCEPT !.op = op, !.id = id, !.old = old, !.new = new,
                              !.late = Over(id, now) /\ ~Held(id)]
<1>1. (Over(id, now) /\ ~Held(id)) \in BOOLEAN
  BY DEF Over, Held
<1>2. l \in Local /\ l.id = id /\ (l.late <=> Over(id, now) /\ ~Held(id))
  BY <1>1, FreshIsLocal DEF Local
<1>3. Goto(r, "arrive", l) /\ UNCHANGED <<now, sessions, unused>>
  BY DEF Arrive, Begin
<1> HIDE DEF l
<1>4. ASSUME NEW i, Dead(i) PROVE Dead(i)'
  <2>1. "arrive" \notin Served /\ "arrive" \in Place /\ i \notin unused'
    BY <1>3, <1>4 DEF Served, Place, Dead
  <2>. QED  BY <1>2, <1>3, <1>4, <2>1, MoveDead
<1>5. ASSUME l.late PROVE Dead(id)
  BY <1>2, <1>5 DEF Dead, Held
<1>6. /\ proc'[r] = l
      /\ \A q \in Request \ {r} : proc'[q] = proc[q]
  BY <1>3 DEF Goto, TypeInv, ProcInv
<1>7. ASSUME NEW q \in Request, proc'[q].late
      PROVE  Dead(proc[q].id)' \/ (proc[q].late /\ proc'[q].id = proc[q].id)
  <2>1. CASE q # r
    BY <1>6, <1>7, <2>1
  <2>2. CASE q = r
    <3>1. proc'[q].id = id /\ Dead(id)'
      BY <1>2, <1>4, <1>5, <1>6, <1>7, <2>2
    <3>. QED  BY <3>1 DEF Dead
  <2>. QED  BY <2>1, <2>2
<1>. QED  BY <1>4, <1>7

\* Nobody else is late.
LEMMA OnTime ==
  ASSUME TypeInv, NEW r \in Request,
         Handle(r) \/ (\E u \in User, p \in Password : Login(r, u, p)),
         NEW q \in Request, proc'[q].late
  PROVE  proc[q].late /\ proc'[q].id = proc[q].id
<1>1. PICK to, l : Goto(r, to, l) /\ (l.late => proc[r].late /\ l.id = proc[r].id)
  <2>1. proc[r] \in Local
    BY DEF TypeInv, ProcInv
  <2>2. ASSUME NEW u \in User, NEW p \in Password, Login(r, u, p)
        PROVE  Goto(r, "create", [Fresh EXCEPT !.op = "login", !.user = u])
               /\ [Fresh EXCEPT !.op = "login", !.user = u].late = FALSE
    BY <2>2, FreshIsLocal DEF Login, Begin, Local
  <2>12. CASE \E u \in User, p \in Password : Login(r, u, p)
    <3>1. PICK u \in User : \E p \in Password : Login(r, u, p)
      BY <2>12
    <3> DEFINE l == [Fresh EXCEPT !.op = "login", !.user = u]
    <3>2. Goto(r, "create", l) /\ l.late = FALSE
      BY <2>2, <3>1
    <3> HIDE DEF l
    <3>. QED  BY <3>2
  <2>3. ASSUME NEW x \in Nat PROVE /\ [proc[r] EXCEPT !.stamp = x].late = proc[r].late
                                   /\ [proc[r] EXCEPT !.stamp = x].id = proc[r].id
    BY <2>1 DEF Local
  <2>4. ASSUME NEW x PROVE /\ [proc[r] EXCEPT !.user = x].late = proc[r].late
                          /\ [proc[r] EXCEPT !.user = x].id = proc[r].id
                          /\ [proc[r] EXCEPT !.account = x].late = proc[r].late
                          /\ [proc[r] EXCEPT !.account = x].id = proc[r].id
    BY <2>1 DEF Local
  <2>5. now \in Nat
    BY DEF TypeInv, StoreInv
  <2>6. CASE Stamp(r)
    BY <2>3, <2>5, <2>6 DEF Stamp
  <2>7. CASE Leave(r)
    BY <2>7, FreshIsLocal DEF Leave
  <2>8. CASE Lookup(r)
    <3> DEFINE l == [proc[r] EXCEPT !.user = sessions[proc[r].id].user]
    <3>1. Goto(r, "destroy", proc[r]) \/ Leave(r) \/ Goto(r, "found", l)
      BY <2>8 DEF Lookup
    <3>2. l.late = proc[r].late /\ l.id = proc[r].id
      BY <2>4
    <3> HIDE DEF l
    <3>. QED  BY <2>7, <3>1, <3>2
  <2>9. CASE Touch(r) \/ Serve(r)
    BY <2>7, <2>9 DEF Touch, Serve
  <2>10. CASE GetUser(r)
    BY <2>4, <2>7, <2>10 DEF GetUser
  <2>11. CASE CreateSession(r) \/ Destroy(r) \/ UpdateUser(r)
    BY <2>7, <2>11 DEF CreateSession, Destroy, UpdateUser
  <2>. QED  BY <2>6, <2>8, <2>9, <2>10, <2>11, <2>12 DEF Handle
<1>2. /\ proc'[r] = l
      /\ \A p \in Request \ {r} : proc'[p] = proc[p]
  BY <1>1 DEF Goto, TypeInv, ProcInv
<1>. QED  BY <1>1, <1>2
LEMMA DeadStep ==
  ASSUME TypeInv, [Next]_vars
  PROVE  /\ \A id : Dead(id) => Dead(id)'
         /\ \A q \in Request : proc'[q].late =>
              Dead(proc[q].id)' \/ (proc[q].late /\ proc'[q].id = proc[q].id)
<1>1. ASSUME NEW r \in Request, Handle(r)
      PROVE  /\ \A id : Dead(id) => Dead(id)'
             /\ \A q \in Request : proc'[q].late => proc[q].late /\ proc'[q].id = proc[q].id
  BY <1>1, HandleDead, OnTime
<1>2. ASSUME NEW r \in Request, NEW u \in User, NEW p \in Password, Login(r, u, p)
      PROVE  /\ \A id : Dead(id) => Dead(id)'
             /\ \A q \in Request : proc'[q].late => proc[q].late /\ proc'[q].id = proc[q].id
  <2> DEFINE l == [Fresh EXCEPT !.op = "login", !.user = u]
  <2>1. l \in Local
    BY FreshIsLocal DEF Local, Operation
  <2>2. Goto(r, "create", l) /\ UNCHANGED <<now, sessions, unused>>
    BY <1>2 DEF Login, Begin
  <2> HIDE DEF l
  <2>3. ASSUME NEW id, Dead(id) PROVE Dead(id)'
    <3>1. id \notin unused' /\ "create" \in Place /\ "create" \notin Served
      BY <2>2, <2>3 DEF Dead, Place, Served
    <3>. QED  BY <2>1, <2>2, <2>3, <3>1, MoveDead
  <2>. QED  BY <1>2, <2>3, OnTime
<1>3. ASSUME NEW r \in Request, NEW id \in Id \ unused,
             \/ \E op \in {"serve", "logout", "look"} : Arrive(r, op, id, Fresh.old, Fresh.new)
             \/ \E old, new \in Password : Arrive(r, "password", id, old, new)
      PROVE  /\ \A i : Dead(i) => Dead(i)'
             /\ \A q \in Request : proc'[q].late =>
                  Dead(proc[q].id)' \/ (proc[q].late /\ proc'[q].id = proc[q].id)
  <2>1. PICK op \in Operation, old \in Password, new \in Password : Arrive(r, op, id, old, new)
    BY <1>3, FreshIsLocal DEF Operation
  <2>. QED  BY <2>1, ArriveDead
<1>4. CASE Start \/ UNCHANGED vars
  <2>1. UNCHANGED <<now, sessions, unused, pc, proc>>
    BY <1>4 DEF Start, vars
  <2>. QED  BY <2>1 DEF Dead, Over
<1>5. CASE Stop
  <2>1. \A q \in Request : pc'[q] = "idle" /\ proc'[q] = Fresh
    BY <1>5 DEF Stop
  <2>2. \A id \in Id : sessions'[id] = NoSession
    BY <1>5 DEF Stop
  <2>3. UNCHANGED <<now, unused>>
    BY <1>5 DEF Stop
  <2>4. ASSUME NEW id, Dead(id) PROVE Dead(id)'
    BY <2>1, <2>2, <2>3, <2>4 DEF Dead, Over, Served
  <2>. QED  BY <2>1, <2>4, FreshIsLocal
<1>6. CASE Tick
  <2>1. UNCHANGED <<sessions, unused, pc, proc>> /\ now' = now + 1 /\ now \in Nat
    BY <1>6 DEF Tick, TypeInv, StoreInv
  <2>2. ASSUME NEW id, Dead(id) PROVE Dead(id)'
    <3>1. sessions[id] = NoSession \/ sessions[id].expires \in Nat
      BY <2>2 DEF Dead, TypeInv, StoreInv, Session
    <3>2. Over(id, now)'
      BY <2>1, <2>2, <3>1 DEF Dead, Over
    <3>. QED  BY <2>1, <2>2, <3>2 DEF Dead, Over
  <2>. QED  BY <2>1, <2>2
<1>. QED  BY <1>1, <1>2, <1>3, <1>4, <1>5, <1>6 DEF Next

LEMMA InitInv == Init => Inv
<1> SUFFICES ASSUME Init PROVE Inv
  OBVIOUS
<1>1. users \in [User -> Account \cup {NoUser}]
  BY UserAssumption DEF Init
<1>2. StoreInv
  <2>1. sliding \in BOOLEAN /\ up \in BOOLEAN
    BY DEF Init
  <2>2. /\ now \in 0 .. MaxTime
        /\ left \in [requests : 0 .. MaxRequests, restarts : 0 .. MaxRestarts]
    BY TimeAssumption, BoundAssumption DEF Init
  <2>3. /\ sessions \in [Id -> Session \cup {NoSession}] /\ unused \subseteq Id
        /\ \A id \in unused : sessions[id] = NoSession
    BY DEF Init
  <2>. QED  BY <1>1, <2>1, <2>2, <2>3 DEF StoreInv
<1>3. ProcInv
  BY FreshIsLocal DEF Init, ProcInv, Fits, Place, Cookie, Served
<1>4. LateInv
  BY FreshIsLocal DEF Init, LateInv
<1>. QED  BY <1>2, <1>3, <1>4 DEF Inv, TypeInv

LEMMA InvStep == Inv /\ [Next]_vars => Inv'
<1> SUFFICES ASSUME Inv, [Next]_vars PROVE Inv'
  OBVIOUS
<1>1. TypeInv'
  BY TypeStep DEF Inv
<1>2. ASSUME NEW q \in Request, proc'[q].late PROVE Dead(proc[q].id)'
  <2>1. CASE proc[q].late /\ proc'[q].id = proc[q].id
    <3> DEFINE i == proc[q].id
    <3>1. Dead(i)
      BY <2>1 DEF Inv, LateInv
    <3>2. \A id : Dead(id) => Dead(id)'
      BY DeadStep DEF Inv
    <3>3. PICK j : j = proc[q].id
      OBVIOUS
    <3>4. Dead(j)'
      BY <3>1, <3>2, <3>3
    <3>. QED  BY <2>1, <3>3, <3>4 DEF Dead
  <2>. QED  BY <1>2, <2>1, DeadStep DEF Inv
<1>. QED  BY <1>1, <1>2 DEF Inv, LateInv

LEMMA Invariance == Spec => []Inv
BY InitInv, InvStep, PTL DEF Spec
----------------------------------------------------------------------------
(* The theorems. *)

\* Users, sessions and the locals of requests have the parts the code gives
\* them; no session exists under an identifier not generated yet, and no
\* request has read a time that is still to come.
THEOREM SessionTypeCorrect == Spec => []TypeOK
<1>1. Inv => TypeOK
  BY DEF Inv, TypeInv, StoreInv, ProcInv, TypeOK, Place
<1>. QED  BY <1>1, Invariance, PTL

\* No request that comes after the end of a session is served with it, however
\* it meets logouts, other requests of the session and the clock.
THEOREM EndedSessionsServeNobody == Spec => []EndedForGood
<1>1. Inv => EndedForGood
  BY DEF Inv, LateInv, Dead, EndedForGood
<1>. QED  BY <1>1, Invariance, PTL

\* No step puts a session that has been removed into the map again.
THEOREM RemovedSessionsStayRemoved == Spec => RemovedForGood
<1>1. ASSUME TypeInv, [Next]_vars, NEW id \in Id, Gone(id) PROVE Gone(id)'
  <2>0. /\ sessions \in [Id -> Session \cup {NoSession}] /\ unused \subseteq Id
        /\ id \notin unused /\ sessions[id] = NoSession
    BY <1>1 DEF TypeInv, StoreInv, Gone
  <2>1. CASE UNCHANGED <<sessions, unused>>
    BY <2>0, <2>1 DEF Gone
  <2>2. ASSUME NEW r \in Request, Handle(r) PROVE Gone(id)'
    <3>1. CASE CreateSession(r)
      BY <2>0, <3>1 DEF CreateSession, Gone
    <3>2. CASE Lookup(r) \/ Destroy(r)
      BY <2>0, <3>2, <2>1 DEF Lookup, Destroy, Remove, Gone
    <3>3. CASE Touch(r)
      <4>1. CASE proc[r].id = id
        BY <2>0, <3>3, <4>1 DEF Touch, Over, Remove, Gone
      <4>2. CASE proc[r].id # id
        BY <2>0, <3>3, <4>2 DEF Touch, Remove, Gone
      <4>. QED  BY <4>1, <4>2
    <3>4. CASE Stamp(r) \/ Serve(r) \/ GetUser(r) \/ UpdateUser(r)
      BY <2>1, <3>4 DEF Stamp, Serve, GetUser, UpdateUser
    <3>. QED  BY <2>2, <3>1, <3>2, <3>3, <3>4 DEF Handle
  <2>3. CASE Stop
    BY <2>0, <2>3 DEF Stop, Gone
  <2>4. CASE \/ \E r \in Request, u \in User, p \in Password : Login(r, u, p)
             \/ \E r \in Request : \E i, op, old, new : Arrive(r, op, i, old, new)
             \/ Start \/ Tick \/ UNCHANGED vars
    BY <2>1, <2>4 DEF Login, Arrive, Begin, Start, Tick, vars
  <2>. QED  BY <1>1, <2>2, <2>3, <2>4 DEF Next
<1>2. Inv /\ [Next]_vars => [\A id \in Id : Gone(id) => Gone(id)']_vars
  BY <1>1 DEF Inv
<1>. QED  BY <1>2, Invariance, PTL DEF Spec, RemovedForGood
=============================================================================
