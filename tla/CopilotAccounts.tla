--------------------------- MODULE CopilotAccounts ---------------------------
(***************************************************************************)
(* The accounts of Copilot pools: internal/copilot (service, token, quota, *)
(* oauth), internal/nosql/copilot_accounts.go and copilot_pools.go, the    *)
(* administrator's handlers in internal/admin/copilot_handler.go and the   *)
(* requests of clients in internal/proxy/copilot_passthrough.go.           *)
(*                                                                         *)
(* An account is one record of the database.  Everybody who changes it     *)
(* reads the record, asks GitHub where that is needed, and writes the      *)
(* whole record back.  Each read and each write is a transaction; between  *)
(* them anything may happen.  Only the refresh of a token holds a lock,    *)
(* one per account, and the other writers do not take it.                  *)
(*                                                                         *)
(* A token is the number of the answer that brought it; tokens expire in   *)
(* the order they were given.  What GitHub answers is a choice.            *)
(***************************************************************************)
EXTENDS Integers, FiniteSets

CONSTANTS
  Request,      \* request goroutines, the administrator's and the clients'
  Syncer,       \* the goroutine of StartPeriodicSync
  NoProcess,
  Id,           \* identifiers generateUUID may give
  Pool,
  NoPool,
  NoAccount,
  Limits,       \* what GetMaxAccounts may return
  Stored,       \* pools and accounts the database may hold at the first start
  MaxRequests,  \* bound on the requests
  MaxTroubles   \* bound on the failing quota queries and the restarts

Process == Request \cup {Syncer}
Status == {"pending_auth", "active", "quota_exceeded", "disabled"}
Usable == {"active", "quota_exceeded"}

Account ==
  [pool : Pool, order : Nat, status : Status,
   device : BOOLEAN,   \* DeviceCode is set
   oauth : BOOLEAN,    \* OAuthToken is set
   token : Nat,        \* CopilotToken, 0 for none
   out : BOOLEAN,      \* QuotaPercentRemaining <= 0
   unlimited : BOOLEAN, overage : BOOLEAN]

ASSUME ActorAssumption ==
  Syncer \notin Request /\ NoProcess \notin Process
ASSUME PoolAssumption == IsFiniteSet(Id) /\ NoPool \notin Pool /\ Limits \subseteq Nat \ {0}
ASSUME AccountAssumption ==
  /\ NoAccount \notin Account
  /\ Stored \subseteq [limit : [Pool -> Limits \cup {0}], accounts : [Id -> Account \cup {NoAccount}]]

ASSUME BoundsAssumption == MaxRequests \in Nat /\ MaxTroubles \in Nat

VARIABLES
  limit,     \* the limit of accounts of each pool, 0 where there is no pool
  accounts,  \* NoAccount where there is none
  unused,    \* identifiers no account has had
  issued,    \* the number of tokens GitHub has given
  expired,   \* the last of them that is not good for five minutes any more
  lock,      \* refreshLocks
  pc, proc,
  left,      \* what remains of the bounds
  highest    \* history: the greatest limit each pool has had

store == <<limit, accounts, unused, highest>>
vars == <<store, issued, expired, lock, pc, proc, left>>

Blank == [pool |-> NoPool, order |-> 0, status |-> "disabled",
          device |-> FALSE, oauth |-> FALSE, token |-> 0,
          out |-> FALSE, unlimited |-> FALSE, overage |-> FALSE]

\* mine is the caller's copy of the account id, as long as it may be written
\* back; current the one read under the lock; listed what a loop over all
\* accounts has listed and still has to look at.
Fresh == [op |-> "none", id |-> NoAccount, pool |-> NoPool, room |-> 0,
          mine |-> Blank, current |-> Blank,
          listed |-> [i \in Id |-> NoAccount]]

\* handleSyncCopilotQuota, and the state changes that need one read and one
\* write only.
Simple == {"revoke", "disable", "enable", "overage"}
Operation == Simple \cup {"none", "complete", "sync", "refresh", "start",
                          "request", "models"}
Local ==
  [op : Operation, id : Id \cup {NoAccount}, pool : Pool \cup {NoPool},
   room : Nat, mine : Account \cup {Blank}, current : Account \cup {Blank},
   listed : [Id -> Account \cup {NoAccount}]]

TypeOK ==
  /\ limit \in [Pool -> Nat] /\ highest \in [Pool -> Nat]
  /\ accounts \in [Id -> Account \cup {NoAccount}] /\ unused \subseteq Id
  /\ issued \in Nat /\ expired \in 0 .. issued
  /\ lock \in [Id -> Process \cup {NoProcess}]
  /\ pc \in [Process -> {"idle", "create", "save", "clear", "poll", "first", "github",
                         "reload", "select", "get", "next", "lock", "fetch",
                         "activate", "sync"}]
  /\ proc \in [Process -> Local]
  /\ left \in [requests : 0 .. MaxRequests, troubles : 0 .. MaxTroubles]

Exists(id) == accounts[id] # NoAccount

\* The database of an earlier life of the program; its tokens have expired.
Init ==
  /\ \E s \in Stored :
       /\ \A pool \in Pool :
            Cardinality({id \in Id : s.accounts[id] # NoAccount /\ s.accounts[id].pool = pool})
              <= s.limit[pool]
       /\ limit = s.limit /\ highest = limit /\ accounts = s.accounts
  /\ unused = {id \in Id : ~Exists(id)}
  /\ issued = 1 /\ expired = 1
  /\ lock = [id \in Id |-> NoProcess]
  /\ pc = [p \in Process |-> "idle"]
  /\ proc = [p \in Process |-> Fresh]
  /\ left = [requests |-> MaxRequests, troubles |-> MaxTroubles]

Spend(bound) == left[bound] > 0 /\ left' = [left EXCEPT ![bound] = @ - 1]

\* A request begins, goes on with other locals, or ends.
Begin(r) == pc[r] = "idle" /\ Spend("requests")
Goto(p, to, local) ==
  pc' = [pc EXCEPT ![p] = to] /\ proc' = [proc EXCEPT ![p] = local]
Leave(p) == Goto(p, "idle", Fresh)
----------------------------------------------------------------------------
(* The store. *)

\* Mutant: the record is written whether or not there is one.
UpsertAccount(id, a) == accounts' = [accounts EXCEPT ![id] = a]

\* Update, which fails if there is no such account any more.
UpdateAccount(id, a) ==
  accounts' = IF Exists(id) THEN [accounts EXCEPT ![id] = a] ELSE accounts

\* Create, update and delete of a pool, as far as accounts notice: nothing
\* happens to those of a pool that is deleted or renamed.
ChangePool(a, pool) ==
  /\ Begin(a)
  /\ limit' \in {[limit EXCEPT ![pool] = n] : n \in Limits \cup {0}}
  /\ highest' = [highest EXCEPT
       ![pool] = IF limit'[pool] > @ THEN limit'[pool] ELSE @]
  /\ UNCHANGED <<accounts, unused, issued, expired, lock, pc, proc>>

Mates(pool) == {id \in Id : Exists(id) /\ accounts[id].pool = pool}
LastOrder(pool) ==
  IF Mates(pool) = {} THEN 0
  ELSE LET orders == {accounts[id].order : id \in Mates(pool)}
       IN CHOOSE o \in orders : \A other \in orders : other <= o

\* InitiateAuth: the device flow has been started, and Create reads the pool.
InitiateAuth(a, pool) ==
  /\ Begin(a) /\ limit[pool] > 0
  /\ Goto(a, "create",
          [Fresh EXCEPT !.op = "start", !.pool = pool, !.room = limit[pool]])
  /\ UNCHANGED <<store, issued, expired, lock>>

NewAccount(pool) ==
  [Blank EXCEPT !.pool = pool, !.order = LastOrder(pool) + 1,
                !.status = "pending_auth", !.device = TRUE, !.out = TRUE]

\* Mutant: one account too many.
CreateOneMore(a) ==
  /\ pc[a] = "create" /\ Leave(a)
  /\ LET pool == proc[a].pool
     IN \/ /\ Cardinality(Mates(pool)) <= proc[a].room
           /\ \E id \in unused :
                /\ accounts' = [accounts EXCEPT ![id] = NewAccount(pool)]
                /\ unused' = unused \ {id}
        \/ /\ Cardinality(Mates(pool)) > proc[a].room
           /\ UNCHANGED <<accounts, unused>>
  /\ UNCHANGED <<limit, highest, issued, expired, lock, left>>

\* Create counts in its transaction, against the limit read before it.
CreateAccount(a) ==
  /\ pc[a] = "create" /\ Leave(a)
  /\ LET pool == proc[a].pool
     IN \/ /\ Cardinality(Mates(pool)) < proc[a].room
           /\ \E id \in unused :
                /\ accounts' = [accounts EXCEPT ![id] = NewAccount(pool)]
                /\ unused' = unused \ {id}
        \/ /\ Cardinality(Mates(pool)) >= proc[a].room
           /\ UNCHANGED <<accounts, unused>>
  /\ UNCHANGED <<limit, highest, issued, expired, lock, left>>

Remove(id) == Exists(id) /\ accounts' = [accounts EXCEPT ![id] = NoAccount]
DeleteAccount(a, id) ==
  /\ Begin(a) /\ Remove(id)
  /\ UNCHANGED <<limit, unused, highest, issued, expired, lock, pc, proc>>
----------------------------------------------------------------------------
(* The administrator's handlers that read a record and write it back. *)

\* Get at the start of a handler, and what it requires of the account.
Load(a, op, id) ==
  /\ Begin(a) /\ Exists(id)
  /\ op = "complete" => accounts[id].device
  /\ op \in {"sync", "refresh"} => accounts[id].oauth
  /\ Goto(a, CASE op = "complete" -> "poll" [] op = "sync" -> "github"
               [] op = "refresh" -> "clear" [] OTHER -> "save",
          [Fresh EXCEPT !.op = op, !.id = id, !.mine = accounts[id]])
  /\ UNCHANGED <<store, issued, expired, lock>>

\* RevokeAuth, and the handlers to disable, to enable and to toggle the
\* overage.
Revoked(a) ==
  [a EXCEPT !.status = "disabled", !.oauth = FALSE, !.token = 0, !.device = FALSE]
Disabled(a) == [a EXCEPT !.status = "disabled"]
Enabled(a) == [a EXCEPT !.status = "active"]
OverageToggled(a) == [a EXCEPT !.overage = ~@]
Changed(op, a) ==
  CASE op = "revoke" -> Revoked(a) [] op = "disable" -> Disabled(a)
    [] op = "enable" -> Enabled(a) [] op = "overage" -> OverageToggled(a)

Save(a) ==
  /\ pc[a] = "save" /\ Leave(a)
  /\ UpdateAccount(proc[a].id, Changed(proc[a].op, proc[a].mine))
  /\ UNCHANGED <<limit, unused, highest, issued, expired, lock, left>>

\* handleRefreshCopilotToken clears the token first.
ClearToken(a) ==
  /\ pc[a] = "clear"
  /\ UpdateAccount(proc[a].id, [proc[a].mine EXCEPT !.token = 0])
  /\ IF Exists(proc[a].id)
       THEN Goto(a, "reload", [proc[a] EXCEPT !.mine = Blank]) ELSE Leave(a)
  /\ UNCHANGED <<limit, unused, highest, issued, expired, lock, left>>

\* What GitHub says of the quota: some is left, none is, or there is no limit
\* and nothing is said to be left.
Answer == {<<FALSE, FALSE>>, <<TRUE, FALSE>>, <<TRUE, TRUE>>}
Answered(a, answer) == [a EXCEPT !.out = answer[1], !.unlimited = answer[2]]

\* handleSyncCopilotQuota leaves the status as it was.
SyncQuota(a) ==
  /\ pc[a] = "github" /\ Leave(a)
  /\ \/ UNCHANGED accounts
     \/ \E answer \in Answer :
          UpdateAccount(proc[a].id, Answered(proc[a].mine, answer))
  /\ UNCHANGED <<limit, unused, highest, issued, expired, lock, left>>

\* CompleteAuth: the user has authorised the device or has not, and the name
\* of the user is asked for.  Where it comes, the record is written early.
PollForToken(a) ==
  /\ pc[a] = "poll"
  /\ LET mine == [proc[a].mine EXCEPT !.oauth = TRUE]
     IN \/ Leave(a) /\ UNCHANGED accounts
        \/ Goto(a, "first", [proc[a] EXCEPT !.mine = mine])
           /\ \/ UNCHANGED accounts
              \/ UpdateAccount(proc[a].id, mine)
  /\ UNCHANGED <<limit, unused, highest, issued, expired, lock, left>>

\* The first token is fetched without the lock.
CompleteAuth(a) ==
  /\ pc[a] = "first" /\ Leave(a)
  /\ \/ UNCHANGED <<accounts, issued>>
     \/ /\ issued' = issued + 1
        /\ UpdateAccount(proc[a].id,
             [proc[a].mine EXCEPT !.status = "active", !.device = FALSE, !.token = issued'])
  /\ UNCHANGED <<limit, unused, highest, expired, lock, left>>
----------------------------------------------------------------------------
(* EnsureValidToken, called by ForceRefreshToken, by GetToken and by the    *)
(* refresh of the list of models.                                           *)

Valid(a) == a.token > expired

Again(p, local) ==
  Goto(p, "next", [Fresh EXCEPT !.op = "models", !.listed = local.listed])

\* The caller goes on with a valid token: a forced refresh makes the account
\* active; a list of models is fetched with it, and the next account is taken
\* if that fails.
Succeed(p, local) ==
  CASE local.op = "refresh" /\ local.mine.status # "active" -> Goto(p, "activate", local)
    [] local.op = "models" -> Leave(p) \/ Again(p, local)
    [] OTHER -> Leave(p)
Fail(p) == IF proc[p].op = "models" THEN Again(p, proc[p]) ELSE Leave(p)

\* The copy the caller has may be good enough.  Only ForceRefreshToken needs
\* it afterwards.
Ensure(p, local) ==
  IF Valid(local.mine) THEN Succeed(p, local)
  ELSE Goto(p, "lock",
            IF local.op = "refresh" THEN local ELSE [local EXCEPT !.mine = Blank])

\* Mutant: the account without an OAuth token is not turned away.
LockUnauthorized(p) ==
  LET id == proc[p].id
  IN /\ pc[p] = "lock" /\ lock[id] = NoProcess
     /\ IF ~Exists(id) THEN Fail(p) /\ UNCHANGED lock
        ELSE IF Valid(accounts[id])
          THEN Succeed(p, [proc[p] EXCEPT !.mine.token = accounts[id].token]) /\ UNCHANGED lock
          ELSE Goto(p, "fetch", [proc[p] EXCEPT !.current = accounts[id]])
               /\ lock' = [lock EXCEPT ![id] = p]
     /\ UNCHANGED <<store, issued, expired, left>>

\* The account is read again under the lock.  If another goroutine has
\* refreshed the token the caller's copy gets it, but not the endpoint.  The
\* lock is kept if GitHub has to be asked.
Lock(p) ==
  LET id == proc[p].id
      valid == Exists(id) /\ Valid(accounts[id])
      ask == Exists(id) /\ ~valid /\ accounts[id].oauth
  IN /\ pc[p] = "lock" /\ lock[id] = NoProcess
     /\ \/ /\ valid
           /\ Succeed(p, [proc[p] EXCEPT !.mine.token = accounts[id].token])
           /\ UNCHANGED lock
        \/ ask /\ Goto(p, "fetch", [proc[p] EXCEPT !.current = accounts[id]])
           /\ lock' = [lock EXCEPT ![id] = p]
        \/ ~valid /\ ~ask /\ Fail(p) /\ UNCHANGED lock
     /\ UNCHANGED <<store, issued, expired, left>>

\* FetchCopilotToken, and the record read under the lock is written back.
Fetch(p) ==
  /\ pc[p] = "fetch"
  /\ lock' = [lock EXCEPT ![proc[p].id] = NoProcess]
  /\ \/ Fail(p) /\ UNCHANGED <<accounts, issued>>
     \/ /\ issued' = issued + 1
        /\ UpdateAccount(proc[p].id,
             [proc[p].current EXCEPT !.token = issued'])
        /\ IF Exists(proc[p].id)
             THEN Succeed(p, [proc[p] EXCEPT !.mine.token = issued'])
             ELSE Fail(p)
  /\ UNCHANGED <<limit, unused, highest, expired, left>>

\* ForceRefreshToken, after the handler has cleared the token.
ForceRefreshToken(a) ==
  /\ pc[a] = "reload"
  /\ IF Exists(proc[a].id) /\ accounts[proc[a].id].oauth
       THEN Ensure(a, [proc[a] EXCEPT !.mine = accounts[proc[a].id]])
       ELSE Leave(a)
  /\ UNCHANGED <<store, issued, expired, lock, left>>

\* ... and at its end, with the record as it was before the refresh.
Activate(a) ==
  /\ pc[a] = "activate" /\ Leave(a)
  /\ UpdateAccount(proc[a].id, [proc[a].mine EXCEPT !.status = "active"])
  /\ UNCHANGED <<limit, unused, highest, issued, expired, lock, left>>
----------------------------------------------------------------------------
(* Requests of clients. *)

\* FindPoolByClient, which sees the pools there are.
HasPool(pool) == limit[pool] > 0
FindPool(c, pool) ==
  /\ Begin(c) /\ HasPool(pool)
  /\ Goto(c, "select", [Fresh EXCEPT !.op = "request", !.pool = pool])
  /\ UNCHANGED <<store, issued, expired, lock>>

First(ids) ==
  CHOOSE id \in ids : \A other \in ids : accounts[id].order <= accounts[other].order

\* The first account with quota left, or else the first that may overdraw.
\* The model is not known here, and counts as one that costs.
SelectAccount(c) ==
  LET mates == Mates(proc[c].pool)
      best == {id \in mates : accounts[id].status = "active" /\ ~accounts[id].out}
      overdrawing == {id \in mates : accounts[id].overage /\ accounts[id].status \in Usable}
  IN /\ pc[c] = "select"
     /\ IF best # {} THEN Goto(c, "get", [proc[c] EXCEPT !.id = First(best)])
        ELSE IF overdrawing # {}
          THEN Goto(c, "get", [proc[c] EXCEPT !.id = First(overdrawing)])
          ELSE Leave(c)
     /\ UNCHANGED <<store, issued, expired, lock, left>>

GetToken(c) ==
  /\ pc[c] = "get"
  /\ IF Exists(proc[c].id) /\ accounts[proc[c].id].status \in Usable
       THEN Ensure(c, [proc[c] EXCEPT !.mine = accounts[proc[c].id]])
       ELSE Leave(c)
  /\ UNCHANGED <<store, issued, expired, lock, left>>
----------------------------------------------------------------------------
(* Loops over all accounts, on what one List has read. *)

Serving == {id \in Id : Exists(id) /\ accounts[id].status \in Usable /\ accounts[id].oauth}
Listed == [id \in Id |-> IF id \in Serving THEN accounts[id] ELSE NoAccount]
ToDo(p) == {id \in Id : proc[p].listed[id] # NoAccount}
Done(p, id) == [proc[p] EXCEPT !.listed[id] = NoAccount]

\* refreshModelCacheInternal, one at a time under its mutex, when the cache is
\* empty or too old.
ListForModels(a) ==
  /\ Begin(a) /\ \A q \in Request : proc[q].op # "models"
  /\ Goto(a, "next", [Fresh EXCEPT !.op = "models", !.listed = Listed])
  /\ UNCHANGED <<store, issued, expired, lock>>

NextForModels(a) ==
  /\ pc[a] = "next"
  /\ \/ ToDo(a) = {} /\ Leave(a)
     \/ \E id \in ToDo(a) :
          Ensure(a, [Done(a, id) EXCEPT !.id = id, !.mine = proc[a].listed[id]])
  /\ UNCHANGED <<store, issued, expired, lock, left>>

\* syncAllAccounts, at the start and at every tick.  One that finds nothing to
\* synchronise is no step.
SyncList ==
  /\ pc[Syncer] = "idle" /\ Serving # {}
  /\ Goto(Syncer, "sync", [Fresh EXCEPT !.listed = Listed])
  /\ UNCHANGED <<store, issued, expired, lock, left>>

\* Mutant: an account whose quota has come back stays as it is.
SyncedForGood(a, answer) ==
  LET b == Answered(a, answer)
  IN [b EXCEPT !.status = IF b.out /\ ~b.unlimited THEN "quota_exceeded" ELSE @]

Synced(a, answer) ==
  LET b == Answered(a, answer)
  IN [b EXCEPT !.status = IF b.out /\ ~b.unlimited THEN "quota_exceeded"
                          ELSE IF @ = "quota_exceeded" THEN "active" ELSE @]

SyncOne ==
  /\ pc[Syncer] = "sync"
  /\ \E id \in ToDo(Syncer) :
       /\ IF ToDo(Syncer) = {id} THEN Leave(Syncer)
          ELSE Goto(Syncer, "sync", Done(Syncer, id))
       /\ \/ Spend("troubles") /\ UNCHANGED accounts
          \/ /\ \E answer \in Answer :
                  UpdateAccount(id, Synced(proc[Syncer].listed[id], answer))
             /\ UNCHANGED left
  /\ UNCHANGED <<limit, unused, highest, issued, expired, lock>>
----------------------------------------------------------------------------
\* Five minutes before a token ends it counts as expired.
Expire ==
  /\ expired < issued /\ expired' = expired + 1
  /\ UNCHANGED <<store, issued, lock, pc, proc, left>>

\* The process ends with its goroutines and locks; the database stays.
Restart ==
  /\ Spend("troubles")
  /\ lock' = [id \in Id |-> NoProcess]
  /\ pc' = [p \in Process |-> "idle"] /\ proc' = [p \in Process |-> Fresh]
  /\ UNCHANGED <<store, issued, expired>>

Arrive(r) ==
  \/ \E pool \in Pool : ChangePool(r, pool) \/ InitiateAuth(r, pool) \/ FindPool(r, pool)
  \/ \E id \in Id : DeleteAccount(r, id)
  \/ \E id \in Id, op \in Simple \cup {"complete", "sync", "refresh"} : Load(r, op, id)
  \/ ListForModels(r)

Handle(r) ==
  \/ CreateAccount(r) \/ Save(r) \/ ClearToken(r) \/ SyncQuota(r) \/ PollForToken(r) \/ CompleteAuth(r)
  \/ Lock(r) \/ Fetch(r) \/ ForceRefreshToken(r) \/ Activate(r)
  \/ SelectAccount(r) \/ GetToken(r) \/ NextForModels(r)

Sync == SyncList \/ SyncOne

Next ==
  \/ \E r \in Request : Arrive(r) \/ Handle(r)
  \/ Sync \/ Expire \/ Restart

Spec == Init /\ [][Next]_vars

\* Handlers that have begun go on, and the quota is synchronised again and
\* again.
FairSpec ==
  /\ Spec
  /\ \A r \in Request : WF_vars(Handle(r))
  /\ WF_vars(Sync)
----------------------------------------------------------------------------
(* Properties. *)

\* However creations and changes of a pool interleave, a pool has no more
\* accounts than the greatest limit it has had (Create reads the limit before
\* its transaction).
AccountsWithinLimit == \A pool \in Pool : Cardinality(Mates(pool)) <= highest[pool]

\* A deleted account does not come back, although its refresh, its
\* synchronisation and the administrator's changes may still be under way and
\* write the record they have read.
DeletedStaysDeleted ==
  [][\A id \in Id : ~Exists(id) /\ id \notin unused => ~Exists(id)']_vars

\* An account without any authorisation, of which nobody holds an older copy,
\* gets none any more: neither a refresh nor a list of models, nor a change by
\* the administrator finds a way around the missing OAuth token.
Unauthorized(a) == ~a.oauth /\ ~a.device /\ a.token = 0
Settled(id) ==
  /\ Exists(id) /\ Unauthorized(accounts[id])
  /\ \A p \in Process :
       /\ proc[p].id = id => Unauthorized(proc[p].mine) /\ Unauthorized(proc[p].current)
       /\ proc[p].listed[id] # NoAccount => Unauthorized(proc[p].listed[id])
RevocationSettles == [][\A id \in Id : Settled(id) /\ Exists(id)' => Settled(id)']_vars

\* When requests end and no more come, no lock is left behind, every one of
\* them ends, and whatever their races have written, the synchronisation puts
\* the status of every account that serves into line with its quota.
Follows(a) == a.status = "quota_exceeded" <=> a.out /\ ~a.unlimited
InLine ==
  /\ \A r \in Request : pc[r] = "idle"
  /\ \A id \in Serving : Follows(accounts[id])
StatusFollowsQuota == left = [requests |-> 0, troubles |-> 0] ~> []InLine

\* RevokeAuth (internal/copilot/service.go:183) says of a revocation that the
\* account is disabled and all its tokens are cleared.  This says that they
\* stay cleared, leaving aside what the administrator writes at the same time;
\* it is violated.
RevokedStaysRevoked ==
  [][\A id \in Id :
       Exists(id) /\ Exists(id)' /\ Unauthorized(accounts[id])
         => \/ Unauthorized(accounts[id])'
            \/ \E r \in Request : pc[r] = "save" /\ pc'[r] = "idle"]_vars
=============================================================================
