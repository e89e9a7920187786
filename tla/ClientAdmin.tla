----------------------------- MODULE ClientAdmin -----------------------------
(***************************************************************************)
(* Clients, the index their requests are authenticated with, and the       *)
(* Copilot pools that give them targets: internal/nosql/clients.go and     *)
(* copilot_pools.go, internal/auth/store.go, and the handlers of           *)
(* internal/admin that change them.                                        *)
(*                                                                         *)
(* The database is changed in transactions, the index is a map that is     *)
(* replaced as a whole.  A handler changes the database, lists the clients *)
(* and puts what it has listed into the index; between these steps other   *)
(* handlers run.  Nothing orders two of them.                              *)
(*                                                                         *)
(* A client is its access key and the targets it may use; that it has none *)
(* means it may use all.                                                   *)
(***************************************************************************)
EXTENDS Integers, Sequences, FiniteSets

CONSTANTS
  Request,     \* request goroutines of administrators
  NoProcess,
  Name,        \* names of clients, in lower case
  Key,         \* access keys
  Target,      \* targets of the configuration
  PoolName,
  NoClient,    \* there is no such client
  NoPool,
  Stored,      \* clients the database may hold at the first start
  Offered,     \* what an administrator may make of a client
  Pools,       \* ... and of a pool
  MaxRequests, \* bound on the requests
  MaxRestarts  \* bound on the restarts

Client == [key : Key, allowed : SUBSET Target]
Pool == [client : Name, targets : SUBSET Target]

\* One index entry; NoClient where no client has the key.
Principal == [name : Name, allowed : SUBSET Target]
Clients == [Name -> Client \cup {NoClient}]

Distinct(cs) ==
  \A m, n \in Name :
    cs[m] # NoClient /\ cs[n] # NoClient /\ cs[m].key = cs[n].key => m = n

ASSUME ProcessAssumption == NoProcess \notin Request
ASSUME ClientAssumption == NoClient \notin Client \cup Principal /\ NoPool \notin Pool
ASSUME PoolNameAssumption == PoolName # {}
ASSUME ChoiceAssumption ==
  /\ Offered \subseteq Client /\ Pools \subseteq Pool
  /\ Stored \subseteq Clients /\ \A cs \in Stored : Distinct(cs)
ASSUME BoundAssumption == MaxRequests \in Nat /\ MaxRestarts \in Nat

VARIABLES
  clients,  \* the bucket of clients
  pools,    \* the bucket of Copilot pools
  index,    \* the map of the authentication store
  pc, proc,
  left,     \* what remains of the bounds
  lone,     \* history: who began when all others were idle, the last to begin
  agreed    \* history: a handler has loaded the index alone, none overlapped since

vars == <<clients, pools, index, pc, proc, left, lone, agreed>>

\* A change of a client's targets that a pool's handler has yet to make.
Change == [add : BOOLEAN, client : Name, targets : SUBSET Target]

\* listed is what List has returned; mine the record a pool's handler has
\* read, changed, and will write; old the pool it found.
Local ==
  [pool : Pool \cup {NoPool}, old : Pool \cup {NoPool}, poolName : PoolName,
   todo : Seq(Change), mine : Client \cup {NoClient}, listed : Clients]
Fresh ==
  [pool |-> NoPool, old |-> NoPool, poolName |-> CHOOSE n \in PoolName : TRUE,
   todo |-> <<>>, mine |-> NoClient, listed |-> [n \in Name |-> NoClient]]

TypeOK ==
  /\ clients \in Clients
  /\ pools \in [PoolName -> Pool \cup {NoPool}]
  /\ index \in [Key -> Principal \cup {NoClient}]
  /\ pc \in [Request -> {"idle", "list", "load", "apply", "create", "update",
                         "delete", "read", "write"}]
  /\ proc \in [Request -> Local]
  /\ left \in [requests : 0 .. MaxRequests, restarts : 0 .. MaxRestarts]
  /\ lone \in Request \cup {NoProcess} /\ agreed \in BOOLEAN

\* LoadFromConfig, for clients of different keys.
Index(cs) ==
  [k \in Key |->
     LET owners == {n \in Name : cs[n] # NoClient /\ cs[n].key = k}
     IN IF owners = {} THEN NoClient
        ELSE LET n == CHOOSE m \in owners : TRUE IN [name |-> n, allowed |-> cs[n].allowed]]

\* The start of the program ends with both from the same List.
Init ==
  /\ clients \in Stored /\ index = Index(clients)
  /\ pools = [n \in PoolName |-> NoPool]
  /\ pc = [r \in Request |-> "idle"] /\ proc = [r \in Request |-> Fresh]
  /\ left = [requests |-> MaxRequests, restarts |-> MaxRestarts]
  /\ lone = NoProcess /\ agreed = TRUE

\* The rest of the handler goes on at a step.  A handler that begins while
\* another is under way is not alone, and neither is the other any more.
Goto(r, to, local) ==
  pc' = [pc EXCEPT ![r] = to] /\ proc' = [proc EXCEPT ![r] = local]
Leave(r) == Goto(r, "idle", Fresh)
Begin(r, to, local) ==
  /\ pc[r] = "idle" /\ left.requests > 0
  /\ left' = [left EXCEPT !.requests = @ - 1]
  /\ Goto(r, to, local)
  /\ LET alone == \A q \in Request : pc[q] = "idle"
     IN lone' = (IF alone THEN r ELSE NoProcess) /\ agreed' = (agreed /\ alone)
----------------------------------------------------------------------------
(* The store of clients.  What fails changes nothing. *)

\* checkAccessKeyUnique, in the transaction that writes.
KeyFree(n, key) == \A m \in Name \ {n} : clients[m] # NoClient => clients[m].key # key

\* Mutant: a changed key is not compared with the others' keys.
CanUpdateUnchecked(old, new, c) ==
  clients[old] # NoClient /\ (new = old \/ clients[new] = NoClient)

CanUpdate(old, new, c) ==
  /\ clients[old] # NoClient
  /\ new = old \/ clients[new] = NoClient
  /\ KeyFree(old, c.key)
Updated(old, new, c) == [[clients EXCEPT ![old] = NoClient] EXCEPT ![new] = c]

\* handleCreateClient, handleUpdateClient and handleDeleteClient up to the end
\* of their transaction.
CreateClient(r, n, c) ==
  /\ Begin(r, "list", Fresh)
  /\ clients[n] = NoClient /\ KeyFree(n, c.key)
  /\ clients' = [clients EXCEPT ![n] = c]
  /\ UNCHANGED <<pools, index>>

UpdateClient(r, old, new, c) ==
  /\ Begin(r, "list", Fresh)
  /\ CanUpdate(old, new, c) /\ clients' = Updated(old, new, c)
  /\ UNCHANGED <<pools, index>>

DeleteClient(r, n) ==
  /\ Begin(r, "list", Fresh)
  /\ clients[n] # NoClient /\ clients' = [clients EXCEPT ![n] = NoClient]
  /\ UNCHANGED <<pools, index>>

\* reloadAuthFromClientStore: List ...
List(r) ==
  /\ pc[r] = "list" /\ Goto(r, "load", [proc[r] EXCEPT !.listed = clients])
  /\ UNCHANGED <<clients, pools, index, left, lone, agreed>>

\* A handler of targets or of the configuration lists the clients before it
\* applies the configuration, which may be refused.
ApplyConfigRuntime(r) ==
  /\ Begin(r, "apply", [Fresh EXCEPT !.listed = clients])
  /\ UNCHANGED <<clients, pools, index>>
ApplyConfig(r) ==
  /\ pc[r] = "apply" /\ (Goto(r, "load", proc[r]) \/ Leave(r))
  /\ UNCHANGED <<clients, pools, index, left, lone, agreed>>

\* Mutant: what the old map holds stays.
LoadFromConfigMerged(r) ==
  /\ pc[r] = "load"
  /\ index' = [k \in Key |-> IF Index(proc[r].listed)[k] = NoClient THEN index[k]
                             ELSE Index(proc[r].listed)[k]]
  /\ agreed' = (agreed \/ lone = r)
  /\ IF proc[r].todo = <<>> THEN Leave(r) ELSE Goto(r, "read", proc[r])
  /\ UNCHANGED <<clients, pools, left, lone>>

\* ... and LoadFromConfig, which replaces the map unless two clients have the
\* same key.  A pool's handler may have another client to change.
LoadFromConfig(r) ==
  /\ pc[r] = "load"
  /\ index' = IF Distinct(proc[r].listed) THEN Index(proc[r].listed) ELSE index
  /\ agreed' = (agreed \/ lone = r)
  /\ IF proc[r].todo = <<>> THEN Leave(r) ELSE Goto(r, "read", proc[r])
  /\ UNCHANGED <<clients, pools, left, lone>>
----------------------------------------------------------------------------
(* Pools.  Their handlers look before the transaction whether the client   *)
(* exists, and change its targets afterwards.                              *)

\* checkClientNameUnique
ClientFree(n, client) ==
  \A m \in PoolName \ {n} : pools[m] # NoPool => pools[m].client # client

Adding(pool) == [add |-> TRUE, client |-> pool.client, targets |-> pool.targets]
Removing(pool) == [add |-> FALSE, client |-> pool.client, targets |-> pool.targets]

\* What is left to do for the clients; then the handler ends.
Then(r, todo) ==
  IF todo = <<>> THEN Leave(r) ELSE Goto(r, "read", [Fresh EXCEPT !.todo = todo])

\* handleCreateCopilotPool: validateClientExists ...
ValidateForCreate(r, n, pool) ==
  /\ clients[pool.client] # NoClient
  /\ Begin(r, "create", [Fresh EXCEPT !.pool = pool, !.poolName = n])
  /\ UNCHANGED <<clients, pools, index>>
\* ... Create, and then the targets.
CreatePool(r) ==
  /\ pc[r] = "create"
  /\ LET n == proc[r].poolName  pool == proc[r].pool
     IN \/ /\ pools[n] = NoPool /\ ClientFree(n, pool.client)
           /\ pools' = [pools EXCEPT ![n] = pool] /\ Then(r, <<Adding(pool)>>)
        \/ /\ pools[n] # NoPool \/ ~ClientFree(n, pool.client)
           /\ Leave(r) /\ UNCHANGED pools
  /\ UNCHANGED <<clients, index, left, lone, agreed>>

\* handleUpdateCopilotPool reads the old pool, and the clients; a new name of
\* the pool makes no difference to them.
ValidateForUpdate(r, n, pool) ==
  /\ pools[n] # NoPool /\ clients[pool.client] # NoClient
  /\ Begin(r, "update", [Fresh EXCEPT !.pool = pool, !.old = pools[n], !.poolName = n])
  /\ UNCHANGED <<clients, pools, index>>
UpdatePool(r) ==
  /\ pc[r] = "update"
  /\ LET n == proc[r].poolName  pool == proc[r].pool  old == proc[r].old
     IN \/ /\ pools[n] # NoPool /\ ClientFree(n, pool.client)
           /\ pools' = [pools EXCEPT ![n] = pool]
           /\ Then(r, IF old.client = pool.client THEN <<Adding(pool)>>
                      ELSE <<Removing(old), Adding(pool)>>)
        \/ /\ pools[n] = NoPool \/ ~ClientFree(n, pool.client)
           /\ Leave(r) /\ UNCHANGED pools
  /\ UNCHANGED <<clients, index, left, lone, agreed>>

GetForDelete(r, n) ==
  /\ pools[n] # NoPool
  /\ Begin(r, "delete", [Fresh EXCEPT !.old = pools[n], !.poolName = n])
  /\ UNCHANGED <<clients, pools, index>>
DeletePool(r) ==
  /\ pc[r] = "delete"
  /\ LET n == proc[r].poolName
     IN IF pools[n] = NoPool THEN Leave(r) /\ UNCHANGED pools
        ELSE pools' = [pools EXCEPT ![n] = NoPool] /\ Then(r, <<Removing(proc[r].old)>>)
  /\ UNCHANGED <<clients, index, left, lone, agreed>>

\* syncClientAllowedTargets and removeTargetsFromClient.  A client that may use
\* all targets has none to remove; one that is given a target may use no other,
\* and one whose last target is removed may use all.
Allowed(c, change) ==
  IF change.add THEN c.allowed \cup change.targets ELSE c.allowed \ change.targets

\* Both list the clients; they write if that changes the client, as a whole and
\* if it is still there.
ReadClient(r) ==
  /\ pc[r] = "read"
  /\ LET change == Head(proc[r].todo)  c == clients[change.client]
     IN IF c # NoClient /\ Allowed(c, change) # c.allowed
        THEN Goto(r, "write", [proc[r] EXCEPT
                                 !.mine = [c EXCEPT !.allowed = Allowed(c, change)]])
        ELSE Then(r, Tail(proc[r].todo))
  /\ UNCHANGED <<clients, pools, index, left, lone, agreed>>

WriteClient(r) ==
  /\ pc[r] = "write"
  /\ LET n == Head(proc[r].todo).client  c == proc[r].mine
         next == [Fresh EXCEPT !.todo = Tail(proc[r].todo)]
     IN \/ /\ CanUpdate(n, n, c) /\ clients' = Updated(n, n, c)
           /\ Goto(r, "list", next)
        \/ /\ ~CanUpdate(n, n, c) /\ UNCHANGED clients
           /\ Then(r, next.todo)
  /\ UNCHANGED <<pools, index, left, lone, agreed>>
----------------------------------------------------------------------------
\* The process ends and starts again: the index is loaded from the database.
Restart ==
  /\ left.restarts > 0 /\ left' = [left EXCEPT !.restarts = @ - 1]
  /\ index' = IF Distinct(clients) THEN Index(clients) ELSE index
  /\ pc' = [r \in Request |-> "idle"] /\ proc' = [r \in Request |-> Fresh]
  /\ lone' = NoProcess /\ agreed' = TRUE
  /\ UNCHANGED <<clients, pools>>

Arrive(r) ==
  \/ \E n \in Name, c \in Offered : CreateClient(r, n, c)
  \/ \E old, new \in Name, c \in Offered : UpdateClient(r, old, new, c)
  \/ \E n \in Name : DeleteClient(r, n)
  \/ ApplyConfigRuntime(r)
  \/ \E n \in PoolName, pool \in Pools : ValidateForCreate(r, n, pool) \/ ValidateForUpdate(r, n, pool)
  \/ \E n \in PoolName : GetForDelete(r, n)

Handle(r) ==
  \/ List(r) \/ ApplyConfig(r) \/ LoadFromConfig(r)
  \/ CreatePool(r) \/ UpdatePool(r) \/ DeletePool(r)
  \/ ReadClient(r) \/ WriteClient(r)

Next == (\E r \in Request : Arrive(r) \/ Handle(r)) \/ Restart

Spec == Init /\ [][Next]_vars
----------------------------------------------------------------------------
(* Properties. *)

\* No two clients have the same access key, whatever renames, changes of keys
\* and write-backs of pools interleave (checkAccessKeyUnique).  It is what every
\* replacement of the index needs: with a key twice LoadFromConfig refuses all
\* clients, and the index stays as it is until that is repaired by hand.
AccessKeysDistinct == Distinct(clients)

\* Handlers that overlap may leave an index of clients that have changed since
\* (handler.go:484 and 1267).  When a handler has loaded the index alone, or
\* the program has started, and no two have overlapped since, then at rest
\* requests are authenticated by the clients of the database, with their rights.
AtRest == \A r \in Request : pc[r] = "idle"
IndexFollowsClients == AtRest /\ agreed => index = Index(clients)
=============================================================================
