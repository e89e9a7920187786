-------------------------- MODULE ClientAdminProofs --------------------------
(***************************************************************************)
(* Theorems about ClientAdmin, for any number of administrators, clients,  *)
(* keys and pools.                                                         *)
(***************************************************************************)
EXTENDS ClientAdmin, TLAPS

Place == {"idle", "list", "load", "apply", "create", "update", "delete", "read", "write"}

\* A pool's handler has the pools it goes on with, and a client to change.
LocalsAtHand ==
  \A r \in Request :
    /\ pc[r] \in {"create", "update"} => proc[r].pool \in Pool
    /\ pc[r] \in {"update", "delete"} => proc[r].old \in Pool
    /\ pc[r] \in {"read", "write"} => proc[r].todo # <<>>

TypeInv == TypeOK /\ LocalsAtHand
----------------------------------------------------------------------------
(* Types. *)

LEMMA FreshIsLocal == Fresh \in Local /\ Fresh.todo = <<>>
<1>1. (CHOOSE n \in PoolName : TRUE) \in PoolName
  BY PoolNameAssumption
<1>2. [n \in Name |-> NoClient] \in Clients
  BY DEF Clients
<1>3. <<>> \in Seq(Change)
  OBVIOUS
<1>. QED  BY <1>1, <1>2, <1>3 DEF Fresh, Local

\* The index made from clients is one.
LEMMA IndexType ==
  ASSUME NEW cs \in Clients
  PROVE  Index(cs) \in [Key -> Principal \cup {NoClient}]
<1> SUFFICES ASSUME NEW k \in Key
             PROVE  Index(cs)[k] \in Principal \cup {NoClient}
  BY DEF Index
<1> DEFINE owners == {n \in Name : cs[n] # NoClient /\ cs[n].key = k}
           owner == CHOOSE m \in owners : TRUE
<1>1. CASE owners = {}
  BY <1>1 DEF Index
<1>2. CASE owners # {}
  <2>1. owner \in owners
    BY <1>2
  <2>2. cs[owner] \in Client
    BY <2>1 DEF Clients
  <2>3. [name |-> owner, allowed |-> cs[owner].allowed] \in Principal
    BY <2>1, <2>2 DEF Client, Principal
  <2>4. Index(cs)[k] = [name |-> owner, allowed |-> cs[owner].allowed]
    BY <1>2 DEF Index
  <2>. QED  BY <2>3, <2>4
<1>. QED  BY <1>1, <1>2

\* A handler that goes on keeps the types of what only handlers have.
LEMMA GotoType ==
  ASSUME TypeInv, NEW r \in Request, NEW to \in Place, NEW local \in Local, Goto(r, to, local),
         to \in {"create", "update"} => local.pool \in Pool,
         to \in {"update", "delete"} => local.old \in Pool,
         to \in {"read", "write"} => local.todo # <<>>
  PROVE  /\ pc' \in [Request -> Place] /\ proc' \in [Request -> Local]
         /\ LocalsAtHand'
<1>1. pc' \in [Request -> Place] /\ proc' \in [Request -> Local]
  BY DEF TypeInv, TypeOK, Place, Goto
<1>2. ASSUME NEW q \in Request, q # r
      PROVE  pc'[q] = pc[q] /\ proc'[q] = proc[q]
  BY <1>2 DEF TypeInv, TypeOK, Goto
<1>3. pc'[r] = to /\ proc'[r] = local
  BY DEF TypeInv, TypeOK, Goto
<1>. QED  BY <1>1, <1>2, <1>3 DEF LocalsAtHand, TypeInv

LEMMA LeaveType ==
  ASSUME TypeInv, NEW r \in Request, Leave(r)
  PROVE  /\ pc' \in [Request -> Place] /\ proc' \in [Request -> Local]
         /\ LocalsAtHand'
<1>1. "idle" \in Place
  BY DEF Place
<1>. QED  BY <1>1, FreshIsLocal, GotoType DEF Leave

LEMMA ThenType ==
  ASSUME TypeInv, NEW r \in Request, NEW todo \in Seq(Change), Then(r, todo)
  PROVE  /\ pc' \in [Request -> Place] /\ proc' \in [Request -> Local]
         /\ LocalsAtHand'
<1>1. CASE todo = <<>>
  BY <1>1, LeaveType DEF Then
<1>2. CASE todo # <<>>
  <2> DEFINE local == [Fresh EXCEPT !.todo = todo]
  <2>1. local \in Local /\ local.todo = todo
    BY FreshIsLocal DEF Local
  <2>2. Goto(r, "read", local)
    BY <1>2 DEF Then
  <2>3. "read" \in Place
    BY DEF Place
  <2>. QED  BY <1>2, <2>1, <2>2, <2>3, GotoType
<1>. QED  BY <1>1, <1>2

\* The types of what Begin changes apart from pc and proc.
LEMMA BeginType ==
  ASSUME TypeInv, NEW r \in Request, NEW to, NEW local, Begin(r, to, local)
  PROVE  /\ left' \in [requests : 0 .. MaxRequests, restarts : 0 .. MaxRestarts]
         /\ lone' \in Request \cup {NoProcess} /\ agreed' \in BOOLEAN
         /\ Goto(r, to, local)
<1>1. left' \in [requests : 0 .. MaxRequests, restarts : 0 .. MaxRestarts]
  BY BoundAssumption DEF TypeInv, TypeOK, Begin
<1>. QED  BY <1>1 DEF TypeInv, TypeOK, Begin

\* Everything a handler has on its way.
RestTyped ==
  /\ left \in [requests : 0 .. MaxRequests, restarts : 0 .. MaxRestarts]
  /\ lone \in Request \cup {NoProcess} /\ agreed \in BOOLEAN

LEMMA StartingType ==
  ASSUME TypeInv, NEW r \in Request, NEW to \in Place, NEW local \in Local, Begin(r, to, local),
         to \in {"create", "update"} => local.pool \in Pool,
         to \in {"update", "delete"} => local.old \in Pool,
         to \in {"read", "write"} => local.todo # <<>>
  PROVE  pc' \in [Request -> Place] /\ proc' \in [Request -> Local] /\ LocalsAtHand' /\ RestTyped'
BY BeginType, GotoType DEF RestTyped

\* A changed client is one.
LEMMA UpdatedType ==
  ASSUME TypeInv, NEW old, NEW new, NEW c \in Client \cup {NoClient}
  PROVE  Updated(old, new, c) \in Clients
BY DEF Updated, TypeInv, TypeOK, Clients
----------------------------------------------------------------------------
LEMMA ArriveType ==
  ASSUME TypeInv, NEW r \in Request, Arrive(r)
  PROVE  TypeInv'
<1>0. "list" \in Place /\ "apply" \in Place /\ "create" \in Place /\ "update" \in Place /\ "delete" \in Place
  BY DEF Place
<1>1. ASSUME NEW n \in Name, NEW c \in Offered, CreateClient(r, n, c)
      PROVE  TypeInv'
  <2>1. c \in Client
    BY ChoiceAssumption
  <2>2. clients' \in Clients
    BY <1>1, <2>1 DEF CreateClient, TypeInv, TypeOK, Clients
  <2>3. pc' \in [Request -> Place] /\ proc' \in [Request -> Local] /\ LocalsAtHand' /\ RestTyped'
    BY <1>0, <1>1, FreshIsLocal, StartingType DEF CreateClient
  <2>. QED  BY <1>1, <2>2, <2>3 DEF CreateClient, TypeInv, TypeOK, RestTyped, Place
<1>2. ASSUME NEW old \in Name, NEW new \in Name, NEW c \in Offered, UpdateClient(r, old, new, c)
      PROVE  TypeInv'
  <2>1. c \in Client
    BY ChoiceAssumption
  <2>2. clients' \in Clients
    BY <1>2, <2>1, UpdatedType DEF UpdateClient
  <2>3. pc' \in [Request -> Place] /\ proc' \in [Request -> Local] /\ LocalsAtHand' /\ RestTyped'
    BY <1>0, <1>2, FreshIsLocal, StartingType DEF UpdateClient
  <2>. QED  BY <1>2, <2>2, <2>3 DEF UpdateClient, TypeInv, TypeOK, RestTyped, Place
<1>3. ASSUME NEW n \in Name, DeleteClient(r, n)
      PROVE  TypeInv'
  <2>1. clients' \in Clients
    BY <1>3 DEF DeleteClient, TypeInv, TypeOK, Clients
  <2>2. pc' \in [Request -> Place] /\ proc' \in [Request -> Local] /\ LocalsAtHand' /\ RestTyped'
    BY <1>0, <1>3, FreshIsLocal, StartingType DEF DeleteClient
  <2>. QED  BY <1>3, <2>1, <2>2 DEF DeleteClient, TypeInv, TypeOK, RestTyped, Place
<1>4. ASSUME ApplyConfigRuntime(r)
      PROVE  TypeInv'
  <2> DEFINE local == [Fresh EXCEPT !.listed = clients]
  <2>1. local \in Local
    BY FreshIsLocal DEF Local, TypeInv, TypeOK
  <2>2. pc' \in [Request -> Place] /\ proc' \in [Request -> Local] /\ LocalsAtHand' /\ RestTyped'
    BY <1>0, <1>4, <2>1, StartingType DEF ApplyConfigRuntime
  <2>. QED  BY <1>4, <2>2 DEF ApplyConfigRuntime, TypeInv, TypeOK, RestTyped, Place
<1>5. ASSUME NEW n \in PoolName, NEW pool \in Pools, ValidateForCreate(r, n, pool)
      PROVE  TypeInv'
  <2> DEFINE local == [Fresh EXCEPT !.pool = pool, !.poolName = n]
  <2>1. local \in Local /\ local.pool \in Pool
    BY FreshIsLocal, ChoiceAssumption DEF Local
  <2>2. pc' \in [Request -> Place] /\ proc' \in [Request -> Local] /\ LocalsAtHand' /\ RestTyped'
    BY <1>0, <1>5, <2>1, StartingType DEF ValidateForCreate
  <2>. QED  BY <1>5, <2>2 DEF ValidateForCreate, TypeInv, TypeOK, RestTyped, Place
<1>6. ASSUME NEW n \in PoolName, NEW pool \in Pools, ValidateForUpdate(r, n, pool)
      PROVE  TypeInv'
  <2> DEFINE local == [Fresh EXCEPT !.pool = pool, !.old = pools[n], !.poolName = n]
  <2>1. pools[n] \in Pool
    BY <1>6 DEF ValidateForUpdate, TypeInv, TypeOK
  <2>2. local \in Local /\ local.pool \in Pool /\ local.old \in Pool
    BY <2>1, FreshIsLocal, ChoiceAssumption DEF Local
  <2>3. pc' \in [Request -> Place] /\ proc' \in [Request -> Local] /\ LocalsAtHand' /\ RestTyped'
    BY <1>0, <1>6, <2>2, StartingType DEF ValidateForUpdate
  <2>. QED  BY <1>6, <2>3 DEF ValidateForUpdate, TypeInv, TypeOK, RestTyped, Place
<1>7. ASSUME NEW n \in PoolName, GetForDelete(r, n)
      PROVE  TypeInv'
  <2> DEFINE local == [Fresh EXCEPT !.old = pools[n], !.poolName = n]
  <2>1. pools[n] \in Pool
    BY <1>7 DEF GetForDelete, TypeInv, TypeOK
  <2>2. local \in Local /\ local.old \in Pool
    BY <2>1, FreshIsLocal DEF Local
  <2>3. pc' \in [Request -> Place] /\ proc' \in [Request -> Local] /\ LocalsAtHand' /\ RestTyped'
    BY <1>0, <1>7, <2>2, StartingType DEF GetForDelete
  <2>. QED  BY <1>7, <2>3 DEF GetForDelete, TypeInv, TypeOK, RestTyped, Place
<1>. QED  BY <1>1, <1>2, <1>3, <1>4, <1>5, <1>6, <1>7 DEF Arrive

LEMMA HandleType ==
  ASSUME TypeInv, NEW r \in Request, Handle(r)
  PROVE  TypeInv'
<1>0. "load" \in Place /\ "read" \in Place /\ "write" \in Place /\ "list" \in Place /\ proc[r] \in Local
  BY DEF Place, TypeInv, TypeOK
<1>1. CASE List(r)
  <2> DEFINE local == [proc[r] EXCEPT !.listed = clients]
  <2>1. local \in Local
    BY <1>0 DEF Local, TypeInv, TypeOK
  <2>2. pc' \in [Request -> Place] /\ proc' \in [Request -> Local] /\ LocalsAtHand'
    BY <1>0, <1>1, <2>1, GotoType DEF List
  <2>. QED  BY <1>1, <2>2 DEF List, TypeInv, TypeOK, Place
<1>2. CASE ApplyConfig(r)
  <2>1. pc' \in [Request -> Place] /\ proc' \in [Request -> Local] /\ LocalsAtHand'
    BY <1>0, <1>2, GotoType, LeaveType DEF ApplyConfig
  <2>. QED  BY <1>2, <2>1 DEF ApplyConfig, TypeInv, TypeOK, Place
<1>3. CASE LoadFromConfig(r)
  <2>1. pc' \in [Request -> Place] /\ proc' \in [Request -> Local] /\ LocalsAtHand'
    BY <1>0, <1>3, GotoType, LeaveType DEF LoadFromConfig
  <2>2. index' \in [Key -> Principal \cup {NoClient}]
    BY <1>0, <1>3, IndexType DEF LoadFromConfig, TypeInv, TypeOK, Local
  <2>3. agreed' \in BOOLEAN
    BY <1>3 DEF LoadFromConfig, TypeInv, TypeOK
  <2>. QED  BY <1>3, <2>1, <2>2, <2>3 DEF LoadFromConfig, TypeInv, TypeOK, Place
<1>4. CASE CreatePool(r)
  <2> DEFINE pool == proc[r].pool
  <2>1. pool \in Pool /\ <<Adding(pool)>> \in Seq(Change)
    BY <1>4 DEF CreatePool, TypeInv, LocalsAtHand, Adding, Pool, Change
  <2>2. pc' \in [Request -> Place] /\ proc' \in [Request -> Local] /\ LocalsAtHand'
    BY <1>4, <2>1, ThenType, LeaveType DEF CreatePool
  <2>3. pools' \in [PoolName -> Pool \cup {NoPool}]
    BY <1>4, <2>1 DEF CreatePool, TypeInv, TypeOK
  <2>. QED  BY <1>4, <2>2, <2>3 DEF CreatePool, TypeInv, TypeOK, Place
<1>5. CASE UpdatePool(r)
  <2> DEFINE pool == proc[r].pool  old == proc[r].old
  <2>1. pool \in Pool /\ old \in Pool
    BY <1>5 DEF UpdatePool, TypeInv, LocalsAtHand
  <2>2. Adding(pool) \in Change /\ Removing(old) \in Change
    BY <2>1 DEF Adding, Removing, Pool, Change
  <2>3. <<Adding(pool)>> \in Seq(Change) /\ <<Removing(old), Adding(pool)>> \in Seq(Change)
    BY <2>2
  <2>4. pc' \in [Request -> Place] /\ proc' \in [Request -> Local] /\ LocalsAtHand'
    <3>1. CASE Leave(r)
      BY <3>1, LeaveType
    <3>2. CASE Then(r, IF old.client = pool.client THEN <<Adding(pool)>>
                       ELSE <<Removing(old), Adding(pool)>>)
      BY <2>3, <3>2, ThenType
    <3>. QED  BY <1>5, <3>1, <3>2 DEF UpdatePool
  <2>5. pools' \in [PoolName -> Pool \cup {NoPool}]
    BY <1>5, <2>1 DEF UpdatePool, TypeInv, TypeOK
  <2>. QED  BY <1>5, <2>4, <2>5 DEF UpdatePool, TypeInv, TypeOK, Place
<1>6. CASE DeletePool(r)
  <2>1. <<Removing(proc[r].old)>> \in Seq(Change)
    BY <1>6 DEF DeletePool, TypeInv, LocalsAtHand, Removing, Pool, Change
  <2>2. pc' \in [Request -> Place] /\ proc' \in [Request -> Local] /\ LocalsAtHand'
    BY <1>6, <2>1, ThenType, LeaveType DEF DeletePool
  <2>3. pools' \in [PoolName -> Pool \cup {NoPool}]
    BY <1>6 DEF DeletePool, TypeInv, TypeOK
  <2>. QED  BY <1>6, <2>2, <2>3 DEF DeletePool, TypeInv, TypeOK, Place
<1>7. CASE ReadClient(r)
  <2> DEFINE todo == proc[r].todo  change == Head(todo)  c == clients[change.client]
             local == [proc[r] EXCEPT !.mine = [c EXCEPT !.allowed = Allowed(c, change)]]
  <2>1. todo \in Seq(Change) /\ todo # <<>>
    BY <1>0, <1>7 DEF ReadClient, TypeInv, LocalsAtHand, Local
  <2>2. change \in Change /\ Tail(todo) \in Seq(Change)
    BY <2>1
  <2>3. CASE c # NoClient /\ Allowed(c, change) # c.allowed
    <3>1. c \in Client
      BY <2>2, <2>3 DEF Change, TypeInv, TypeOK, Clients
    <3>2. Allowed(c, change) \in SUBSET Target
      BY <2>2, <3>1 DEF Allowed, Client, Change
    <3>3. [c EXCEPT !.allowed = Allowed(c, change)] \in Client
      BY <3>1, <3>2 DEF Client
    <3>4. local \in Local /\ local.todo = todo
      BY <1>0, <3>3 DEF Local
    <3>5. Goto(r, "write", local)
      BY <1>7, <2>3 DEF ReadClient
    <3>6. pc' \in [Request -> Place] /\ proc' \in [Request -> Local] /\ LocalsAtHand'
      BY <1>0, <2>1, <3>4, <3>5, GotoType
    <3>. QED  BY <1>7, <3>6 DEF ReadClient, TypeInv, TypeOK, Place
  <2>4. CASE ~(c # NoClient /\ Allowed(c, change) # c.allowed)
    <3>1. Then(r, Tail(todo))
      BY <1>7, <2>4 DEF ReadClient
    <3>2. pc' \in [Request -> Place] /\ proc' \in [Request -> Local] /\ LocalsAtHand'
      BY <2>2, <3>1, ThenType
    <3>. QED  BY <1>7, <3>2 DEF ReadClient, TypeInv, TypeOK, Place
  <2>. QED  BY <2>3, <2>4
<1>8. CASE WriteClient(r)
  <2> DEFINE todo == proc[r].todo  n == Head(todo).client  c == proc[r].mine
             next == [Fresh EXCEPT !.todo = Tail(todo)]
  <2>1. todo \in Seq(Change) /\ todo # <<>> /\ c \in Client \cup {NoClient}
    BY <1>0, <1>8 DEF WriteClient, TypeInv, LocalsAtHand, Local
  <2>2. Tail(todo) \in Seq(Change)
    BY <2>1
  <2>3. next \in Local /\ next.todo = Tail(todo)
    BY <2>2, FreshIsLocal DEF Local
  <2>4. clients' \in Clients
    BY <1>8, <2>1, UpdatedType DEF WriteClient, TypeInv, TypeOK
  <2>5. pc' \in [Request -> Place] /\ proc' \in [Request -> Local] /\ LocalsAtHand'
    <3>1. CASE Goto(r, "list", next)
      BY <1>0, <2>3, <3>1, GotoType
    <3>2. CASE Then(r, next.todo)
      BY <2>2, <2>3, <3>2, ThenType
    <3>. QED  BY <1>8, <3>1, <3>2 DEF WriteClient
  <2>. QED  BY <1>8, <2>4, <2>5 DEF WriteClient, TypeInv, TypeOK, Place
<1>. QED  BY <1>1, <1>2, <1>3, <1>4, <1>5, <1>6, <1>7, <1>8 DEF Handle

LEMMA RestartType ==
  ASSUME TypeInv, Restart
  PROVE  TypeInv'
<1>1. index' \in [Key -> Principal \cup {NoClient}]
  BY IndexType DEF Restart, TypeInv, TypeOK
<1>2. left' \in [requests : 0 .. MaxRequests, restarts : 0 .. MaxRestarts]
  BY BoundAssumption DEF Restart, TypeInv, TypeOK
<1>3. LocalsAtHand'
  BY DEF Restart, LocalsAtHand
<1>. QED  BY <1>1, <1>2, <1>3, FreshIsLocal DEF Restart, TypeInv, TypeOK

LEMMA TypeInvariance == Spec => []TypeInv
<1>1. Init => TypeInv
  <2> SUFFICES ASSUME Init PROVE TypeInv
    OBVIOUS
  <2>1. clients \in Clients /\ index \in [Key -> Principal \cup {NoClient}]
    BY ChoiceAssumption, IndexType DEF Init
  <2>2. left \in [requests : 0 .. MaxRequests, restarts : 0 .. MaxRestarts]
    BY BoundAssumption DEF Init
  <2>3. LocalsAtHand
    BY DEF Init, LocalsAtHand
  <2>. QED  BY <2>1, <2>2, <2>3, FreshIsLocal DEF Init, TypeInv, TypeOK
<1>2. TypeInv /\ [Next]_vars => TypeInv'
  <2> SUFFICES ASSUME TypeInv, [Next]_vars PROVE TypeInv'
    OBVIOUS
  <2>1. CASE UNCHANGED vars
    BY <2>1 DEF vars, TypeInv, TypeOK, LocalsAtHand
  <2>. QED  BY <2>1, ArriveType, HandleType, RestartType DEF Next
<1>. QED  BY <1>1, <1>2, PTL DEF Spec

\* The types, for any number of administrators, clients and pools: a handler
\* that goes on after its transaction has what the rest of it needs.
THEOREM ClientTypeCorrect == Spec => []TypeOK
BY TypeInvariance, PTL DEF TypeInv
----------------------------------------------------------------------------
(* Access keys. *)

\* A client's update keeps keys apart: nobody else has the new key, and the old
\* name is given up before the new one is written.
LEMMA UpdateKeepsDistinct ==
  ASSUME TypeInv, Distinct(clients), NEW old, NEW new, NEW c, CanUpdate(old, new, c),
         clients' = Updated(old, new, c)
  PROVE  Distinct(clients')
<1> SUFFICES ASSUME NEW m \in Name, NEW n \in Name, clients'[m] # NoClient, clients'[n] # NoClient,
                    clients'[m].key = clients'[n].key, m # n
             PROVE  FALSE
  BY DEF Distinct
<1>1. ASSUME NEW x \in Name, clients'[x] # NoClient, x # new
      PROVE  x # old /\ clients'[x] = clients[x]
  BY <1>1 DEF Updated, TypeInv, TypeOK, Clients
<1>2. ASSUME NEW x \in Name, clients'[x] # NoClient, x # new, new \in Name
      PROVE  clients'[x].key # clients'[new].key
  <2>1. clients'[new] = c
    BY <1>2 DEF Updated, TypeInv, TypeOK, Clients
  <2>2. x \in Name \ {old} /\ clients[x] = clients'[x]
    BY <1>1, <1>2
  <2>. QED  BY <1>2, <2>1, <2>2 DEF CanUpdate, KeyFree
<1>3. CASE m = new
  BY <1>2, <1>3
<1>4. CASE n = new
  BY <1>2, <1>4
<1>5. CASE m # new /\ n # new
  <2>1. clients[m] = clients'[m] /\ clients[n] = clients'[n]
    BY <1>1, <1>5
  <2>. QED  BY <2>1 DEF Distinct
<1>. QED  BY <1>3, <1>4, <1>5

LEMMA DistinctUnchanged ==
  ASSUME Distinct(clients), UNCHANGED clients
  PROVE  Distinct(clients')
OBVIOUS

LEMMA DistinctStep ==
  ASSUME TypeInv, AccessKeysDistinct, [Next]_vars
  PROVE  AccessKeysDistinct'
<1>1. ASSUME NEW r \in Request, NEW n \in Name, NEW c \in Offered, CreateClient(r, n, c)
      PROVE  AccessKeysDistinct'
  <2>1. \A x \in Name : x # n => clients'[x] = clients[x]
    BY <1>1 DEF CreateClient, TypeInv, TypeOK, Clients
  <2>2. clients'[n] = c
    BY <1>1 DEF CreateClient, TypeInv, TypeOK, Clients
  <2>3. \A x \in Name : x # n /\ clients'[x] # NoClient => clients'[x].key # c.key
    BY <1>1, <2>1 DEF CreateClient, KeyFree
  <2>. QED  BY <2>1, <2>2, <2>3 DEF AccessKeysDistinct, Distinct
<1>2. ASSUME NEW r \in Request, NEW old \in Name, NEW new \in Name, NEW c \in Offered,
             UpdateClient(r, old, new, c)
      PROVE  AccessKeysDistinct'
  BY <1>2, UpdateKeepsDistinct DEF UpdateClient, AccessKeysDistinct
<1>3. ASSUME NEW r \in Request, NEW n \in Name, DeleteClient(r, n)
      PROVE  AccessKeysDistinct'
  <2>1. \A x \in Name : clients'[x] # NoClient => clients'[x] = clients[x]
    BY <1>3 DEF DeleteClient, TypeInv, TypeOK, Clients
  <2>. QED  BY <2>1 DEF AccessKeysDistinct, Distinct
<1>4. ASSUME NEW r \in Request, WriteClient(r)
      PROVE  AccessKeysDistinct'
  <2> DEFINE n == Head(proc[r].todo).client  c == proc[r].mine
  <2>1. CASE UNCHANGED clients
    BY <2>1, DistinctUnchanged DEF AccessKeysDistinct
  <2>2. CASE CanUpdate(n, n, c) /\ clients' = Updated(n, n, c)
    BY <2>2, UpdateKeepsDistinct DEF AccessKeysDistinct
  <2>. QED  BY <1>4, <2>1, <2>2 DEF WriteClient
<1>5. ASSUME NEW r \in Request,
             \/ ApplyConfigRuntime(r) \/ List(r) \/ ApplyConfig(r) \/ LoadFromConfig(r)
             \/ CreatePool(r) \/ UpdatePool(r) \/ DeletePool(r) \/ ReadClient(r)
             \/ \E n \in PoolName, pool \in Pools :
                  ValidateForCreate(r, n, pool) \/ ValidateForUpdate(r, n, pool)
             \/ \E n \in PoolName : GetForDelete(r, n)
      PROVE  AccessKeysDistinct'
  <2>1. UNCHANGED clients
    BY <1>5 DEF ApplyConfigRuntime, List, ApplyConfig, LoadFromConfig, CreatePool, UpdatePool,
                DeletePool, ReadClient, ValidateForCreate, ValidateForUpdate, GetForDelete
  <2>. QED  BY <2>1, DistinctUnchanged DEF AccessKeysDistinct
<1>6. CASE Restart \/ UNCHANGED vars
  BY <1>6, DistinctUnchanged DEF Restart, vars, AccessKeysDistinct
<1>. QED  BY <1>1, <1>2, <1>3, <1>4, <1>5, <1>6 DEF Next, Arrive, Handle

\* Whatever renames, new keys and write-backs of pools interleave, no two
\* clients have the same access key.
THEOREM KeysStayDistinct == Spec => []AccessKeysDistinct
<1>1. Init => AccessKeysDistinct
  BY ChoiceAssumption DEF Init, AccessKeysDistinct
<1>2. TypeInv /\ AccessKeysDistinct /\ [Next]_vars => AccessKeysDistinct'
  BY DistinctStep
<1>. QED  BY <1>1, <1>2, TypeInvariance, PTL DEF Spec
----------------------------------------------------------------------------
(* The index. *)

\* Who is alone is alone.
Alone ==
  lone # NoProcess =>
    \A q \in Request : q # lone => pc[q] = "idle"

\* While nobody has overlapped since the index was right, who runs is alone.
AgreedAlone == agreed => \A q \in Request : pc[q] # "idle" => q = lone

\* What a handler that is alone has listed is what there is.
ListedIsCurrent ==
  \A q \in Request : q = lone /\ pc[q] \in {"load", "apply"} => proc[q].listed = clients

\* ... and unless it is about to replace the index, the index is right.
IndexCurrent ==
  agreed /\ (\A q \in Request : pc[q] \notin {"list", "load"}) => index = Index(clients)

IndexInv == Alone /\ AgreedAlone /\ ListedIsCurrent /\ IndexCurrent

\* A handler that begins is alone or nobody is.
LEMMA BeginAlone ==
  ASSUME TypeInv, IndexInv, NEW r \in Request, NEW to, NEW local, Begin(r, to, local),
         to = "apply" => local.listed = clients', to # "load",
         to = "list" \/ UNCHANGED clients, UNCHANGED index
  PROVE  IndexInv'
<1>1. /\ \A q \in Request : q # r => pc'[q] = pc[q] /\ proc'[q] = proc[q]
      /\ pc'[r] = to /\ proc'[r] = local /\ pc[r] = "idle"
  BY DEF Begin, Goto, TypeInv, TypeOK
<1>2. CASE \A q \in Request : pc[q] = "idle"
  <2>1. lone' = r /\ agreed' = agreed
    BY <1>2 DEF Begin, TypeInv, TypeOK
  <2>2. Alone' /\ AgreedAlone'
    BY <1>1, <1>2, <2>1 DEF Alone, AgreedAlone
  <2>3. ListedIsCurrent'
    BY <1>1, <2>1 DEF ListedIsCurrent
  <2>4. IndexCurrent'
    BY <1>1, <1>2, <2>1 DEF IndexInv, IndexCurrent
  <2>. QED  BY <2>2, <2>3, <2>4 DEF IndexInv
<1>3. CASE ~\A q \in Request : pc[q] = "idle"
  <2>1. lone' = NoProcess /\ agreed' = FALSE
    BY <1>3 DEF Begin
  <2>. QED  BY <2>1, ProcessAssumption DEF IndexInv, Alone, AgreedAlone, ListedIsCurrent, IndexCurrent
<1>. QED  BY <1>2, <1>3

\* A handler that goes on and changes neither the clients nor the index, or
\* changes the clients and will list them.
LEMMA GoOn ==
  ASSUME TypeInv, IndexInv, NEW r \in Request, NEW to, NEW local, Goto(r, to, local),
         pc[r] # "idle", UNCHANGED <<index, lone, agreed>>,
         to = "list" \/ UNCHANGED clients,
         pc[r] \notin {"list", "load"} \/ to \in {"list", "load"},
         to # "apply", r = lone /\ to = "load" => local.listed = clients'
  PROVE  IndexInv'
<1>1. /\ \A q \in Request : q # r => pc'[q] = pc[q] /\ proc'[q] = proc[q]
      /\ pc'[r] = to /\ proc'[r] = local
  BY DEF Goto, TypeInv, TypeOK
<1>2. Alone'
  BY <1>1 DEF IndexInv, Alone, TypeInv, TypeOK
<1>3. AgreedAlone'
  BY <1>1 DEF IndexInv, AgreedAlone
<1>4. ListedIsCurrent'
  <2> SUFFICES ASSUME NEW q \in Request, q = lone', pc'[q] \in {"load", "apply"}
               PROVE  proc'[q].listed = clients'
    BY DEF ListedIsCurrent
  <2>1. lone # NoProcess
    BY ProcessAssumption
  <2>2. q = r
    BY <1>1, <2>1 DEF IndexInv, Alone
  <2>. QED  BY <1>1, <2>2
<1>5. IndexCurrent'
  <2> SUFFICES ASSUME agreed', \A q \in Request : pc'[q] \notin {"list", "load"}
               PROVE  index' = Index(clients')
    BY DEF IndexCurrent
  <2>1. pc[r] \notin {"list", "load"} /\ UNCHANGED clients
    BY <1>1
  <2>2. \A q \in Request : pc[q] \notin {"list", "load"}
    BY <1>1, <2>1
  <2>. QED  BY <2>1, <2>2 DEF IndexInv, IndexCurrent
<1>. QED  BY <1>2, <1>3, <1>4, <1>5 DEF IndexInv

LEMMA GoOnLeaving ==
  ASSUME TypeInv, IndexInv, NEW r \in Request, NEW todo, Leave(r) \/ Then(r, todo),
         pc[r] # "idle", UNCHANGED <<clients, index, lone, agreed>>,
         pc[r] \notin {"list", "load"}
  PROVE  IndexInv'
<1>1. CASE Leave(r)
  BY <1>1, GoOn DEF Leave
<1>2. CASE Then(r, todo)
  <2>1. CASE todo = <<>>
    BY <1>2, <2>1, GoOn DEF Then, Leave
  <2>2. CASE todo # <<>>
    BY <1>2, <2>2, GoOn DEF Then
  <2>. QED  BY <2>1, <2>2
<1>. QED  BY <1>1, <1>2

\* A handler that loads the index alone makes it right.
LEMMA LoadMakesCurrent ==
  ASSUME TypeInv, AccessKeysDistinct, IndexInv, NEW r \in Request, LoadFromConfig(r)
  PROVE  IndexInv'
<1>1. PICK to, local : Goto(r, to, local) /\ to \in {"idle", "read"}
  BY DEF LoadFromConfig, Leave
<1>2. /\ \A q \in Request : q # r => pc'[q] = pc[q] /\ proc'[q] = proc[q]
      /\ pc'[r] = to
  BY <1>1 DEF Goto, TypeInv, TypeOK
<1>3. UNCHANGED <<clients, lone>> /\ agreed' = (agreed \/ lone = r) /\ pc[r] = "load"
  BY DEF LoadFromConfig
<1>4. Alone'
  BY <1>2, <1>3 DEF IndexInv, Alone, LoadFromConfig
<1>5. ListedIsCurrent'
  BY <1>1, <1>2, <1>3 DEF IndexInv, ListedIsCurrent
<1>6. CASE lone = r
  <2>1. \A q \in Request : q # r => pc[q] = "idle"
    BY <1>6, ProcessAssumption DEF IndexInv, Alone
  <2>2. AgreedAlone'
    BY <1>2, <1>3, <1>6, <2>1 DEF AgreedAlone
  <2>3. index' = Index(clients)
    BY <1>3, <1>6 DEF IndexInv, ListedIsCurrent, LoadFromConfig, AccessKeysDistinct
  <2>. QED  BY <1>3, <1>4, <1>5, <2>2, <2>3 DEF IndexInv, IndexCurrent
<1>7. CASE lone # r
  <2>1. ~agreed'
    BY <1>3, <1>7 DEF IndexInv, AgreedAlone, TypeInv, TypeOK
  <2>. QED  BY <1>4, <1>5, <2>1 DEF IndexInv, AgreedAlone, IndexCurrent
<1>. QED  BY <1>6, <1>7

LEMMA IndexArrive ==
  ASSUME TypeInv, IndexInv, NEW r \in Request, Arrive(r)
  PROVE  IndexInv'
<1>1. CASE \E n \in Name, c \in Offered : CreateClient(r, n, c)
  BY <1>1, BeginAlone DEF CreateClient
<1>2. CASE \E old, new \in Name, c \in Offered : UpdateClient(r, old, new, c)
  BY <1>2, BeginAlone DEF UpdateClient
<1>3. CASE \E n \in Name : DeleteClient(r, n)
  BY <1>3, BeginAlone DEF DeleteClient
<1>4. CASE ApplyConfigRuntime(r)
  <2> DEFINE local == [Fresh EXCEPT !.listed = clients]
  <2>1. local.listed = clients
    BY DEF Fresh
  <2>. QED  BY <1>4, <2>1, BeginAlone DEF ApplyConfigRuntime
<1>5. ASSUME NEW n \in PoolName, NEW pool \in Pools, ValidateForCreate(r, n, pool)
      PROVE  IndexInv'
  BY <1>5, BeginAlone DEF ValidateForCreate
<1>6. ASSUME NEW n \in PoolName, NEW pool \in Pools, ValidateForUpdate(r, n, pool)
      PROVE  IndexInv'
  BY <1>6, BeginAlone DEF ValidateForUpdate
<1>7. CASE \E n \in PoolName : GetForDelete(r, n)
  BY <1>7, BeginAlone DEF GetForDelete
<1>. QED  BY <1>1, <1>2, <1>3, <1>4, <1>5, <1>6, <1>7 DEF Arrive

LEMMA IndexHandle ==
  ASSUME TypeInv, AccessKeysDistinct, IndexInv, NEW r \in Request, Handle(r)
  PROVE  IndexInv'
<1>1. CASE List(r)
  <2> DEFINE local == [proc[r] EXCEPT !.listed = clients]
  <2>1. local.listed = clients
    BY DEF TypeInv, TypeOK, Local
  <2>. QED  BY <1>1, <2>1, GoOn DEF List
<1>2. CASE ApplyConfig(r)
  <2>1. CASE Leave(r)
    BY <1>2, <2>1, GoOn DEF ApplyConfig, Leave
  <2>2. CASE Goto(r, "load", proc[r])
    <3>1. r = lone => proc[r].listed = clients
      BY <1>2 DEF ApplyConfig, IndexInv, ListedIsCurrent
    <3>. QED  BY <1>2, <2>2, <3>1, GoOn DEF ApplyConfig
  <2>. QED  BY <1>2, <2>1, <2>2 DEF ApplyConfig
<1>3. CASE LoadFromConfig(r)
  BY <1>3, LoadMakesCurrent
<1>4. CASE CreatePool(r)
  BY <1>4, GoOnLeaving DEF CreatePool
<1>5. CASE UpdatePool(r)
  BY <1>5, GoOnLeaving DEF UpdatePool
<1>6. CASE DeletePool(r)
  BY <1>6, GoOnLeaving DEF DeletePool
<1>7. CASE ReadClient(r)
  <2> DEFINE change == Head(proc[r].todo)  c == clients[change.client]
             local == [proc[r] EXCEPT !.mine = [c EXCEPT !.allowed = Allowed(c, change)]]
  <2>1. CASE Goto(r, "write", local)
    BY <1>7, <2>1, GoOn DEF ReadClient
  <2>2. CASE Then(r, Tail(proc[r].todo))
    BY <1>7, <2>2, GoOnLeaving DEF ReadClient
  <2>. QED  BY <1>7, <2>1, <2>2 DEF ReadClient
<1>8. CASE WriteClient(r)
  <2> DEFINE next == [Fresh EXCEPT !.todo = Tail(proc[r].todo)]
  <2>1. CASE Goto(r, "list", next)
    BY <1>8, <2>1, GoOn DEF WriteClient
  <2>2. CASE UNCHANGED clients /\ Then(r, next.todo)
    BY <1>8, <2>2, GoOnLeaving DEF WriteClient
  <2>. QED  BY <1>8, <2>1, <2>2 DEF WriteClient
<1>. QED  BY <1>1, <1>2, <1>3, <1>4, <1>5, <1>6, <1>7, <1>8 DEF Handle

\* When handlers have not overlapped since the index was loaded, requests are
\* authenticated by the clients of the database, with their rights.
THEOREM IndexIsCurrent == Spec => []IndexFollowsClients
<1>1. Init => IndexInv
  BY DEF Init, IndexInv, Alone, AgreedAlone, ListedIsCurrent, IndexCurrent
<1>2. TypeInv /\ AccessKeysDistinct /\ IndexInv /\ [Next]_vars => IndexInv'
  <2> SUFFICES ASSUME TypeInv, AccessKeysDistinct, IndexInv, [Next]_vars
               PROVE  IndexInv'
    OBVIOUS
  <2>1. CASE Restart
    BY <2>1 DEF Restart, AccessKeysDistinct, IndexInv, Alone, AgreedAlone, ListedIsCurrent, IndexCurrent
  <2>2. CASE UNCHANGED vars
    BY <2>2 DEF vars, IndexInv, Alone, AgreedAlone, ListedIsCurrent, IndexCurrent
  <2>. QED  BY <2>1, <2>2, IndexArrive, IndexHandle DEF Next
<1>3. IndexInv => IndexFollowsClients
  BY DEF IndexInv, IndexCurrent, IndexFollowsClients, AtRest
<1>. QED  BY <1>1, <1>2, <1>3, TypeInvariance, KeysStayDistinct, PTL DEF Spec
=============================================================================
