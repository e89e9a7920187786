------------------------ MODULE CopilotAccountsProofs ------------------------
(***************************************************************************)
(* Theorems about CopilotAccounts, for any number of requests, accounts,   *)
(* pools and limits.                                                       *)
(*                                                                         *)
(* What a handler holds is stale as soon as it has been read.  What stays  *)
(* true of it (Fits) is the heart of the invariant: the account has been   *)
(* created, and if it is still there it is in the same pool.               *)
(***************************************************************************)
EXTENDS CopilotAccounts, FiniteSetTheorems, FunctionTheorems, NaturalsInduction, WellFoundedInduction, TLAPS

Place == {"idle", "create", "save", "clear", "poll", "first", "github", "reload",
          "select", "get", "next", "lock", "fetch", "activate", "sync"}

\* a is what somebody has read of the account id.
Copy(id, a, accts, unu) ==
  /\ a \in Account /\ id \in Id \ unu
  /\ accts[id] # NoAccount => accts[id].pool = a.pool

Fits(place, l, accts, unu, high) ==
  /\ l.mine # Blank => Copy(l.id, l.mine, accts, unu)
  /\ l.current # Blank => Copy(l.id, l.current, accts, unu)
  /\ \A id \in Id : l.listed[id] # NoAccount => Copy(id, l.listed[id], accts, unu)
  /\ place \in {"save", "clear", "poll", "first", "github", "activate"} => l.mine # Blank
  /\ place \in {"lock", "fetch"} /\ l.op = "refresh" => l.mine # Blank
  /\ place = "save" => l.op \in Simple
  /\ place = "poll" => l.mine.device
  /\ place = "first" => l.mine.oauth
  /\ place = "fetch" => l.current # Blank /\ l.current.oauth
  /\ place \in {"lock", "fetch", "reload", "get"} => l.id \in Id
  /\ place \in {"select", "next"} => l.mine = Blank /\ l.current = Blank
  /\ place \in {"create", "select"} => l.pool \in Pool
  /\ place = "create" => l.room <= high[l.pool]

StoreInv ==
  /\ limit \in [Pool -> Nat] /\ highest \in [Pool -> Nat]
  /\ accounts \in [Id -> Account \cup {NoAccount}] /\ unused \subseteq Id
  /\ \A pool \in Pool : limit[pool] <= highest[pool]
  /\ \A id \in unused : accounts[id] = NoAccount

ProcInv ==
  /\ pc \in [Process -> Place] /\ proc \in [Process -> Local]
  /\ \A p \in Process : Fits(pc[p], proc[p], accounts, unused, highest)

RestInv ==
  /\ issued \in Nat /\ expired \in 0 .. issued
  /\ lock \in [Id -> Process \cup {NoProcess}]
  /\ left \in [requests : 0 .. MaxRequests, troubles : 0 .. MaxTroubles]

Inv == StoreInv /\ ProcInv /\ RestInv
----------------------------------------------------------------------------
(* What every step does to the store, and what the step of a process does. *)

StoreStep ==
  /\ StoreInv'
  /\ unused' \subseteq unused
  /\ \A pool \in Pool : highest[pool] <= highest'[pool]
  /\ \A id \in Id : accounts'[id] # NoAccount =>
       \/ id \in unused
       \/ accounts[id] # NoAccount /\ accounts[id].pool = accounts'[id].pool
  /\ \A id \in Id : Settled(id) /\ accounts'[id] # NoAccount => Unauthorized(accounts'[id])

\* Nothing in the locals would give the account id an authorisation again.
Clean(id, l) ==
  /\ l.id = id => Unauthorized(l.mine) /\ Unauthorized(l.current)
  /\ l.listed[id] # NoAccount => Unauthorized(l.listed[id])

Sound(to, l) ==
  /\ to \in Place /\ l \in Local
  /\ Fits(to, l, accounts, unused, highest)
  /\ \A id \in Id : Settled(id) => Clean(id, l)

Moved(p) == \E to, l : Sound(to, l) /\ Goto(p, to, l)

Calm == \A id \in Id : Settled(id) /\ Exists(id)' => Settled(id)'

Good == StoreStep /\ ProcInv' /\ RestInv' /\ Calm

LEMMA BlankIsNone == Blank \notin Account /\ Unauthorized(Blank)
<1>1. Blank.pool \notin Pool
  BY PoolAssumption DEF Blank
<1>. QED  BY <1>1 DEF Blank, Account, Unauthorized

LEMMA FreshFields ==
  /\ Fresh \in Local
  /\ Fresh.mine = Blank /\ Fresh.current = Blank
  /\ \A id \in Id : Fresh.listed[id] = NoAccount
BY DEF Fresh, Local, Operation

\* Who has nothing in hand fits everywhere.
LEMMA FreshSound == Sound("idle", Fresh)
BY FreshFields, BlankIsNone DEF Sound, Fits, Clean, Place

\* Nobody's copies get worse by what happens to the store.
LEMMA FitsKept ==
  ASSUME StoreInv, StoreStep, NEW place \in Place, NEW l \in Local,
         Fits(place, l, accounts, unused, highest)
  PROVE  Fits(place, l, accounts', unused', highest')
<1>1. ASSUME NEW id, NEW a, Copy(id, a, accounts, unused)
      PROVE  Copy(id, a, accounts', unused')
  BY <1>1 DEF Copy, StoreStep
<1>2. place = "create" => l.room <= highest'[l.pool]
  <2> SUFFICES ASSUME place = "create" PROVE l.room <= highest'[l.pool]
    OBVIOUS
  <2>1. l.pool \in Pool /\ l.room \in Nat /\ l.room <= highest[l.pool]
    BY DEF Fits, Local
  <2>2. highest[l.pool] \in Nat /\ highest'[l.pool] \in Nat /\ highest[l.pool] <= highest'[l.pool]
    BY <2>1 DEF StoreInv, StoreStep
  <2>. QED  BY <2>1, <2>2
<1>. QED  BY <1>1, <1>2 DEF Fits

LEMMA ProcStep ==
  ASSUME Inv, StoreStep, NEW p \in Process, Moved(p)
  PROVE  ProcInv' /\ Calm
<1>1. PICK to, l : Sound(to, l) /\ Goto(p, to, l)
  BY DEF Moved
<1>2. /\ pc' \in [Process -> Place] /\ proc' \in [Process -> Local]
      /\ pc'[p] = to /\ proc'[p] = l
      /\ \A q \in Process \ {p} : pc'[q] = pc[q] /\ proc'[q] = proc[q]
  BY <1>1 DEF Sound, Goto, Inv, ProcInv
<1>3. ASSUME NEW q \in Process
      PROVE  Fits(pc'[q], proc'[q], accounts', unused', highest')
  <2>1. /\ pc'[q] \in Place /\ proc'[q] \in Local
        /\ Fits(pc'[q], proc'[q], accounts, unused, highest)
    BY <1>1, <1>2 DEF Sound, Inv, ProcInv
  <2>. QED  BY <2>1, FitsKept DEF Inv
<1>4. ASSUME NEW id \in Id, Settled(id), Exists(id)' PROVE Settled(id)'
  <2>1. Exists(id)' /\ Unauthorized(accounts'[id])
    BY <1>4 DEF StoreStep, Exists
  <2>2. ASSUME NEW q \in Process PROVE Clean(id, proc'[q])
    BY <1>1, <1>2, <1>4 DEF Sound, Settled, Clean
  <2>. QED  BY <2>1, <2>2 DEF Settled, Clean
<1>. QED  BY <1>2, <1>3, <1>4 DEF ProcInv, Calm

LEMMA NobodyMoves ==
  ASSUME Inv, StoreStep, UNCHANGED <<pc, proc>>
  PROVE  ProcInv' /\ Calm
<1>1. ASSUME NEW q \in Process
      PROVE  Fits(pc'[q], proc'[q], accounts', unused', highest')
  BY FitsKept DEF Inv, ProcInv
<1>2. ASSUME NEW id \in Id, Settled(id), Exists(id)' PROVE Settled(id)'
  <2>1. Exists(id)' /\ Unauthorized(accounts'[id])
    BY <1>2 DEF StoreStep, Exists
  <2>. QED  BY <1>2, <2>1 DEF Settled
<1>. QED  BY <1>1, <1>2 DEF ProcInv, Calm, Inv

LEMMA SameStore ==
  ASSUME Inv, UNCHANGED store
  PROVE  StoreStep
<1>1. UNCHANGED <<limit, accounts, unused, highest>>
  BY DEF store
<1>2. StoreInv'
  BY <1>1 DEF Inv, StoreInv
<1>3. \A pool \in Pool : highest[pool] <= highest'[pool]
  BY <1>1 DEF Inv, StoreInv
<1>. QED  BY <1>1, <1>2, <1>3 DEF StoreStep, Inv, StoreInv, Settled

LEMMA SomeStore ==
  ASSUME Inv, UNCHANGED <<limit, unused, highest>>, UNCHANGED accounts
  PROVE  StoreStep
BY SameStore DEF store

\* The record of an account is replaced by a changed copy of it.
LEMMA WriteStep ==
  ASSUME Inv, NEW id, NEW a, UpdateAccount(id, a), Copy(id, a, accounts, unused),
         id \in Id /\ Settled(id) => Unauthorized(a),
         UNCHANGED <<limit, unused, highest>>
  PROVE  StoreStep
<1>1. id \in Id /\ a \in Account /\ a # NoAccount /\ id \notin unused
  BY AccountAssumption DEF Copy
<1>2. CASE ~Exists(id)
  BY <1>2, SomeStore DEF UpdateAccount
<1>3. CASE Exists(id)
  <2>1. accounts' = [accounts EXCEPT ![id] = a]
    BY <1>3 DEF UpdateAccount
  <2>2. StoreInv'
    BY <1>1, <2>1 DEF Inv, StoreInv
  <2>3. \A pool \in Pool : highest[pool] <= highest'[pool]
    BY DEF Inv, StoreInv
  <2>4. \A i \in Id : accounts'[i] = IF i = id THEN a ELSE accounts[i]
    BY <1>1, <2>1 DEF Inv, StoreInv
  <2>5. \A i \in Id : accounts'[i] # NoAccount =>
          accounts[i] # NoAccount /\ accounts[i].pool = accounts'[i].pool
    BY <1>3, <2>4 DEF Copy, Exists
  <2>6. \A i \in Id : Settled(i) => Unauthorized(accounts'[i])
    BY <2>4 DEF Settled
  <2>. QED  BY <2>2, <2>3, <2>5, <2>6 DEF StoreStep
<1>. QED  BY <1>2, <1>3
----------------------------------------------------------------------------
(* Moves that several actions have in common. *)

LEMMA AtHand ==
  ASSUME Inv, NEW p \in Process
  PROVE  Sound(pc[p], proc[p]) /\ proc[p] \in Local
BY DEF Inv, ProcInv, Sound, Settled, Clean

LEMMA LeaveMoves ==
  ASSUME NEW p \in Process, Leave(p)
  PROVE  Moved(p)
BY FreshSound DEF Leave, Moved

LEMMA AgainMoves ==
  ASSUME NEW p \in Process, NEW place, NEW l, Sound(place, l), NEW local,
         local.listed = l.listed, Again(p, local)
  PROVE  Moved(p)
<1> DEFINE m == [Fresh EXCEPT !.op = "models", !.listed = local.listed]
<1>1. /\ m \in Local /\ m.mine = Blank /\ m.current = Blank /\ m.listed = l.listed
      /\ m.op = "models"
  BY FreshFields DEF Sound, Local, Operation
<1>2. Sound("next", m)
  <2>1. Fits("next", m, accounts, unused, highest)
    BY <1>1 DEF Sound, Fits
  <2>2. ASSUME NEW id \in Id, Settled(id) PROVE Clean(id, m)
    BY <1>1, <2>2, BlankIsNone DEF Sound, Clean
  <2>. QED  BY <1>1, <2>1, <2>2 DEF Sound, Place
<1>. QED  BY <1>2 DEF Again, Moved

LEMMA FailMoves ==
  ASSUME Inv, NEW p \in Process, Fail(p)
  PROVE  Moved(p)
BY AtHand, LeaveMoves, AgainMoves DEF Fail

LEMMA SucceedMoves ==
  ASSUME Inv, NEW p \in Process, NEW place, NEW l, Sound(place, l), NEW local,
         local.listed = l.listed, local.op = "refresh" => Sound("activate", local),
         Succeed(p, local)
  PROVE  Moved(p)
<1>1. CASE local.op = "refresh" /\ local.mine.status # "active"
  BY <1>1 DEF Succeed, Moved
<1>2. CASE ~(local.op = "refresh" /\ local.mine.status # "active") /\ local.op = "models"
  BY <1>2, LeaveMoves, AgainMoves DEF Succeed
<1>3. CASE ~(local.op = "refresh" /\ local.mine.status # "active") /\ local.op # "models"
  BY <1>3, LeaveMoves DEF Succeed
<1>. QED  BY <1>1, <1>2, <1>3

LEMMA EnsureMoves ==
  ASSUME Inv, NEW p \in Process, NEW local, Sound("get", local), local.mine # Blank,
         Ensure(p, local)
  PROVE  Moved(p)
<1>1. CASE Valid(local.mine)
  <2>1. Sound("activate", local)
    BY DEF Sound, Fits, Place
  <2>. QED  BY <1>1, <2>1, SucceedMoves DEF Ensure
<1>2. CASE ~Valid(local.mine)
  <2> DEFINE m == IF local.op = "refresh" THEN local ELSE [local EXCEPT !.mine = Blank]
  <2>1. /\ m \in Local /\ m.id = local.id /\ m.current = local.current
        /\ m.listed = local.listed /\ m.op = local.op
        /\ m.mine = Blank \/ m.mine = local.mine
        /\ m.op = "refresh" => m.mine # Blank
    BY DEF Sound, Local
  <2>2. Fits("lock", m, accounts, unused, highest)
    BY <2>1 DEF Sound, Fits
  <2>3. ASSUME NEW id \in Id, Settled(id) PROVE Clean(id, m)
    BY <2>1, <2>3, BlankIsNone DEF Sound, Clean
  <2>4. Sound("lock", m)
    BY <2>1, <2>2, <2>3 DEF Sound, Place
  <2>. QED  BY <1>2, <2>4 DEF Ensure, Moved
<1>. QED  BY <1>1, <1>2

\* The caller's copy gets a token, which no settled account has.
LEMMA TokenMoves ==
  ASSUME Inv, NEW p \in Process, pc[p] \in {"lock", "fetch"}, NEW t \in Nat,
         Settled(proc[p].id) => t = 0,
         Succeed(p, [proc[p] EXCEPT !.mine.token = t])
  PROVE  Moved(p)
<1> DEFINE l == proc[p]
           m == [l EXCEPT !.mine.token = t]
<1>1. Sound(pc[p], l) /\ l \in Local
  BY AtHand
<1>2. m.listed = l.listed /\ m.op = l.op /\ m.id = l.id /\ m.current = l.current
      /\ m.mine = [l.mine EXCEPT !.token = t]
  BY <1>1 DEF Local
<1>3. ASSUME m.op = "refresh" PROVE Sound("activate", m)
  <2>1. l.mine # Blank /\ Copy(l.id, l.mine, accounts, unused)
    BY <1>1, <1>2, <1>3 DEF Sound, Fits
  <2>2. m.mine \in Account /\ m.mine.pool = l.mine.pool
    BY <1>2, <2>1 DEF Copy, Account
  <2>3. m \in Local
    BY <1>1, <2>2 DEF Local
  <2>4. m.mine # Blank /\ Copy(m.id, m.mine, accounts, unused)
    BY <1>2, <2>1, <2>2, BlankIsNone DEF Copy
  <2>5. Fits("activate", m, accounts, unused, highest)
    BY <1>1, <1>2, <2>4 DEF Sound, Fits
  <2>6. ASSUME NEW id \in Id, Settled(id) PROVE Clean(id, m)
    <3>1. Clean(id, l)
      BY <1>1, <2>6 DEF Sound
    <3>2. m.id = id => Unauthorized(m.mine)
      BY <1>2, <2>1, <2>6, <3>1 DEF Clean, Unauthorized, Copy, Account
    <3>. QED  BY <1>2, <3>1, <3>2 DEF Clean
  <2>. QED  BY <2>3, <2>5, <2>6 DEF Sound, Place
<1>4. Succeed(p, m)  OBVIOUS
<1> HIDE DEF m
<1>. QED  BY <1>1, <1>2, <1>3, <1>4, SucceedMoves
----------------------------------------------------------------------------
(* The actions. *)

LEMMA SpendType ==
  ASSUME RestInv, NEW bound \in {"requests", "troubles"}, Spend(bound)
  PROVE  left' \in [requests : 0 .. MaxRequests, troubles : 0 .. MaxTroubles]
<1>1. left \in [requests : 0 .. MaxRequests, troubles : 0 .. MaxTroubles]
  BY DEF RestInv
<1>2. CASE bound = "requests"
  BY <1>1, <1>2, BoundsAssumption DEF Spend
<1>3. CASE bound = "troubles"
  BY <1>1, <1>3, BoundsAssumption DEF Spend
<1>. QED  BY <1>2, <1>3

\* A copy of what the store holds now.
LEMMA ReadCopy ==
  ASSUME Inv, NEW id \in Id, Exists(id)
  PROVE  Copy(id, accounts[id], accounts, unused)
BY DEF Inv, StoreInv, Exists, Copy

LEMMA ChangePoolGood ==
  ASSUME Inv, NEW a \in Request, NEW pool \in Pool, ChangePool(a, pool)
  PROVE  Good
<1>1. PICK n \in Limits \cup {0} : limit' = [limit EXCEPT ![pool] = n]
  BY DEF ChangePool
<1>2. n \in Nat
  BY PoolAssumption
<1>3. highest' = [highest EXCEPT ![pool] = IF limit'[pool] > @ THEN limit'[pool] ELSE @]
  BY DEF ChangePool
<1>4. /\ limit \in [Pool -> Nat] /\ highest \in [Pool -> Nat]
      /\ \A q \in Pool : limit[q] <= highest[q]
  BY DEF Inv, StoreInv
<1>5. /\ limit' \in [Pool -> Nat] /\ highest' \in [Pool -> Nat]
      /\ \A q \in Pool : limit'[q] <= highest'[q] /\ highest[q] <= highest'[q]
  BY <1>1, <1>2, <1>3, <1>4
<1>6. StoreStep
  BY <1>5 DEF ChangePool, StoreStep, Inv, StoreInv, Settled
<1>7. RestInv'
  BY SpendType DEF ChangePool, Begin, Inv, RestInv
<1>. QED  BY <1>6, <1>7, NobodyMoves DEF ChangePool, Good

LEMMA DeleteAccountGood ==
  ASSUME Inv, NEW a \in Request, NEW id \in Id, DeleteAccount(a, id)
  PROVE  Good
<1>1. accounts' = [accounts EXCEPT ![id] = NoAccount] /\ UNCHANGED <<limit, unused, highest>>
  BY DEF DeleteAccount, Remove
<1>2. StoreInv'
  BY <1>1 DEF Inv, StoreInv
<1>3. \A pool \in Pool : highest[pool] <= highest'[pool]
  BY <1>1 DEF Inv, StoreInv
<1>4. \A i \in Id : accounts'[i] # NoAccount => accounts'[i] = accounts[i]
  BY <1>1 DEF Inv, StoreInv
<1>5. StoreStep
  BY <1>1, <1>2, <1>3, <1>4 DEF StoreStep, Settled
<1>6. RestInv'
  BY SpendType DEF DeleteAccount, Begin, Inv, RestInv
<1>. QED  BY <1>5, <1>6, NobodyMoves DEF DeleteAccount, Good

\* A set of numbers has a least one, and a finite one has a greatest: the one
\* with the fewest others above it.
LEMMA Least ==
  ASSUME NEW S \in SUBSET Nat, S # {}
  PROVE  \E x \in S : \A y \in S : x <= y
<1> DEFINE Less == OpToRel(<, Nat)
<1>1. PICK x \in S : \A y \in S : <<y, x>> \notin Less
  BY NatLessThanWellFounded, WFMin
<1>2. \A y \in S : ~(y < x)
  BY <1>1 DEF OpToRel
<1>. QED  BY <1>2

LEMMA Greatest ==
  ASSUME NEW S \in SUBSET Nat, S # {}, IsFiniteSet(S)
  PROVE  \E x \in S : \A y \in S : y <= x
<1> DEFINE Above(x) == {y \in S : x <= y}
           counts == {Cardinality(Above(x)) : x \in S}
<1>1. ASSUME NEW x \in S PROVE IsFiniteSet(Above(x)) /\ Cardinality(Above(x)) \in Nat
  BY FS_Subset, FS_CardinalityType
<1>2. PICK n \in counts : \A m \in counts : n <= m
  <2>1. counts \in SUBSET Nat /\ counts # {}
    BY <1>1
  <2>. QED  BY <2>1, Least
<1>3. PICK x \in S : n = Cardinality(Above(x))
  OBVIOUS
<1>4. ASSUME NEW y \in S, x < y PROVE FALSE
  <2>1. Above(y) \in SUBSET Above(x) /\ Above(y) # Above(x)
    <3>1. x \in Above(x) /\ x \notin Above(y)
      BY <1>4
    <3>2. \A z \in S : y <= z => x <= z
      BY <1>4
    <3>3. Above(y) \in SUBSET Above(x)
      BY <3>2
    <3>. QED  BY <3>1, <3>3
  <2>2. Cardinality(Above(y)) <= Cardinality(Above(x))
        /\ Cardinality(Above(y)) # Cardinality(Above(x))
    BY <1>1, <2>1, FS_Subset
  <2>3. Cardinality(Above(x)) <= Cardinality(Above(y))
    BY <1>2, <1>3
  <2> DEFINE few == Cardinality(Above(y))
             many == Cardinality(Above(x))
  <2>4. few \in Nat /\ many \in Nat /\ few <= many /\ few # many /\ many <= few
    BY <1>1, <2>2, <2>3
  <2> HIDE DEF few, many
  <2>. QED  BY <2>4
<1>. QED  BY <1>4

\* The order of a new account is one more than that of the last.
LEMMA LastOrderType ==
  ASSUME Inv, NEW pool \in Pool
  PROVE  LastOrder(pool) \in Nat
<1> DEFINE orders == {accounts[id].order : id \in Mates(pool)}
<1>1. CASE Mates(pool) = {}
  BY <1>1 DEF LastOrder
<1>2. CASE Mates(pool) # {}
  <2>1. IsFiniteSet(Mates(pool))
    BY PoolAssumption, FS_Subset DEF Mates
  <2>2. IsFiniteSet(orders)
    <3> DEFINE f == [id \in Mates(pool) |-> accounts[id].order]
    <3>1. f \in Surjection(Mates(pool), orders)
      BY DEF Surjection
    <3>. QED  BY <2>1, <3>1, FS_Surjection
  <2>3. orders \in SUBSET Nat /\ orders # {}
    BY <1>2 DEF Mates, Exists, Inv, StoreInv, Account
  <2>4. \E o \in orders : \A other \in orders : other <= o
    BY <2>2, <2>3, Greatest
  <2> HIDE DEF orders
  <2>5. (CHOOSE o \in orders : \A other \in orders : other <= o) \in orders
    BY <2>4
  <2>. QED  BY <1>2, <2>3, <2>5 DEF LastOrder, orders
<1>. QED  BY <1>1, <1>2

LEMMA NewAccountType ==
  ASSUME NEW pool \in Pool, LastOrder(pool) \in Nat
  PROVE  NewAccount(pool) \in Account
<1> DEFINE b == NewAccount(pool)
           c == [pool |-> pool, order |-> LastOrder(pool) + 1, status |-> "pending_auth",
                 device |-> TRUE, oauth |-> FALSE, token |-> 0,
                 out |-> TRUE, unlimited |-> FALSE, overage |-> FALSE]
<1>1. c \in Account
  BY DEF Account, Status
<1>2. DOMAIN b = DOMAIN c
  BY DEF NewAccount, Blank
<1>3. /\ b.pool = c.pool /\ b.order = c.order /\ b.status = c.status
      /\ b.device = c.device /\ b.oauth = c.oauth /\ b.token = c.token
      /\ b.out = c.out /\ b.unlimited = c.unlimited /\ b.overage = c.overage
  BY DEF NewAccount, Blank
<1>4. DOMAIN c = {"pool", "order", "status", "device", "oauth", "token", "out",
                  "unlimited", "overage"}
  OBVIOUS
<1>5. b = [f \in DOMAIN b |-> b[f]] /\ c = [f \in DOMAIN c |-> c[f]]
  BY DEF NewAccount, Blank
<1>6. b = c
  <2> HIDE DEF b, c
  <2>. QED  BY <1>2, <1>3, <1>4, <1>5
<1>. QED  BY <1>1, <1>6

LEMMA CreateAccountGood ==
  ASSUME Inv, NEW a \in Request, CreateAccount(a)
  PROVE  Good
<1> DEFINE pool == proc[a].pool
<1>0. a \in Process /\ Leave(a)
  BY DEF CreateAccount, Process
<1>1. RestInv'
  BY DEF CreateAccount, Inv, RestInv
<1>2. CASE UNCHANGED <<accounts, unused>>
  <2>1. StoreStep
    BY <1>2, SomeStore DEF CreateAccount
  <2>. QED  BY <1>0, <1>1, <2>1, LeaveMoves, ProcStep DEF Good
<1>3. ASSUME NEW id \in unused, accounts' = [accounts EXCEPT ![id] = NewAccount(pool)],
             unused' = unused \ {id}
      PROVE  Good
  <2>1. id \in Id /\ accounts[id] = NoAccount /\ UNCHANGED <<limit, highest>>
    BY DEF Inv, StoreInv, CreateAccount
  <2>2. pool \in Pool
    BY <1>0 DEF CreateAccount, Inv, ProcInv, Fits
  <2>3. LastOrder(pool) \in Nat
    BY <2>2, LastOrderType
  <2>4. NewAccount(pool) \in Account
    BY <2>2, <2>3, NewAccountType
  <2>5. StoreInv'
    BY <1>3, <2>1, <2>4 DEF Inv, StoreInv
  <2>6. \A i \in Id : i # id => accounts'[i] = accounts[i]
    BY <1>3, <2>1 DEF Inv, StoreInv
  <2>7. \A q \in Pool : highest[q] <= highest'[q]
    BY <2>1 DEF Inv, StoreInv
  <2>8. ~Settled(id)
    BY <2>1 DEF Settled, Exists
  <2>9. StoreStep
    BY <1>3, <2>5, <2>6, <2>7, <2>8 DEF StoreStep, Settled
  <2>. QED  BY <1>0, <1>1, <2>9, LeaveMoves, ProcStep DEF Good
<1>. QED  BY <1>2, <1>3 DEF CreateAccount

\* A request that begins, or goes on without touching the store.
LEMMA OnwardGood ==
  ASSUME Inv, NEW p \in Process, Moved(p), UNCHANGED store, RestInv'
  PROVE  Good
BY SameStore, ProcStep DEF Good

LEMMA InitiateAuthGood ==
  ASSUME Inv, NEW a \in Request, NEW pool \in Pool, InitiateAuth(a, pool)
  PROVE  Good
<1> DEFINE l == [Fresh EXCEPT !.op = "start", !.pool = pool, !.room = limit[pool]]
<1>1. l \in Local /\ l.mine = Blank /\ l.current = Blank /\ l.listed = Fresh.listed
      /\ l.room = limit[pool] /\ l.pool = pool
  BY FreshFields DEF Local, Operation, Inv, StoreInv
<1>2. Sound("create", l)
  <2>1. Fits("create", l, accounts, unused, highest)
    BY <1>1, FreshFields DEF Fits, Inv, StoreInv
  <2>2. ASSUME NEW id \in Id PROVE Clean(id, l)
    BY <1>1, FreshFields, BlankIsNone DEF Clean
  <2>. QED  BY <1>1, <2>1, <2>2 DEF Sound, Place
<1>3. Moved(a)
  BY <1>2 DEF InitiateAuth, Moved
<1>4. RestInv'
  BY SpendType DEF InitiateAuth, Begin, Inv, RestInv
<1>. QED  BY <1>3, <1>4, OnwardGood DEF InitiateAuth, Process

LEMMA LoadGood ==
  ASSUME Inv, NEW a \in Request, NEW id \in Id,
         NEW op \in Simple \cup {"complete", "sync", "refresh"}, Load(a, op, id)
  PROVE  Good
<1> DEFINE l == [Fresh EXCEPT !.op = op, !.id = id, !.mine = accounts[id]]
           to == CASE op = "complete" -> "poll" [] op = "sync" -> "github"
                   [] op = "refresh" -> "clear" [] OTHER -> "save"
<1>0. Exists(id) /\ (op = "complete" => accounts[id].device)
  BY DEF Load
<1>1. Copy(id, accounts[id], accounts, unused)
  BY <1>0, ReadCopy
<1>2. /\ l \in Local /\ l.mine = accounts[id] /\ l.current = Blank /\ l.id = id
      /\ l.op = op /\ l.listed = Fresh.listed
  BY <1>1, FreshFields DEF Local, Operation, Copy, Simple
<1>3. l.mine # Blank
  BY <1>1, <1>2, BlankIsNone DEF Copy
<1>4. /\ to \in {"poll", "github", "clear", "save"}
      /\ to = "save" => op \in Simple
      /\ to = "poll" => op = "complete"
  BY DEF Simple
<1>5. Sound(to, l)
  <2> HIDE DEF to, l
  <2>1. Fits(to, l, accounts, unused, highest)
    BY <1>0, <1>1, <1>2, <1>3, <1>4, FreshFields DEF Fits
  <2>2. ASSUME NEW i \in Id, Settled(i) PROVE Clean(i, l)
    BY <1>2, <2>2, FreshFields, BlankIsNone DEF Clean, Settled
  <2>. QED  BY <1>2, <1>4, <2>1, <2>2 DEF Sound, Place
<1>6. Goto(a, to, l)
  BY DEF Load
<1>7. Moved(a)
  <2> HIDE DEF to, l
  <2>. QED  BY <1>5, <1>6 DEF Moved
<1>8. RestInv'
  BY SpendType DEF Load, Begin, Inv, RestInv
<1>. QED  BY <1>7, <1>8, OnwardGood DEF Load, Process

\* A handler that ends with a write of its changed copy.
LEMMA WriteGood ==
  ASSUME Inv, NEW p \in Process, Moved(p), RestInv', NEW id, NEW a,
         UpdateAccount(id, a), Copy(id, a, accounts, unused),
         id \in Id /\ Settled(id) => Unauthorized(a),
         UNCHANGED <<limit, unused, highest>>
  PROVE  Good
BY WriteStep, ProcStep DEF Good

LEMMA NoWriteGood ==
  ASSUME Inv, NEW p \in Process, Moved(p), RestInv', UNCHANGED <<limit, unused, highest, accounts>>
  PROVE  Good
BY SomeStore, ProcStep DEF Good

\* What the handlers have in hand where they write it back.
LEMMA InHand ==
  ASSUME Inv, NEW p \in Process,
         pc[p] \in {"save", "clear", "poll", "first", "github", "activate"}
  PROVE  /\ Copy(proc[p].id, proc[p].mine, accounts, unused)
         /\ Settled(proc[p].id) => Unauthorized(proc[p].mine)
BY DEF Inv, ProcInv, Fits, Settled

LEMMA SaveGood ==
  ASSUME Inv, NEW a \in Request, Save(a)
  PROVE  Good
<1> DEFINE l == proc[a]
           b == Changed(l.op, l.mine)
<1>0. a \in Process /\ pc[a] = "save"
  BY DEF Save, Process
<1>1. Copy(l.id, l.mine, accounts, unused) /\ (Settled(l.id) => Unauthorized(l.mine))
  BY <1>0, InHand
<1>2. l.op \in Simple
  BY <1>0 DEF Inv, ProcInv, Fits
<1>3. /\ b \in Account /\ b.pool = l.mine.pool
      /\ Unauthorized(l.mine) => Unauthorized(b)
  BY <1>1, <1>2 DEF Copy, Account, Changed, Simple, Revoked, Disabled, Enabled,
                    OverageToggled, Status, Unauthorized
<1>4. Copy(l.id, b, accounts, unused)
  BY <1>1, <1>3 DEF Copy
<1>5. RestInv'
  BY DEF Save, Inv, RestInv
<1> HIDE DEF b
<1>6. UpdateAccount(l.id, b)
  BY DEF Save, b
<1>7. UNCHANGED <<limit, unused, highest>> /\ Moved(a)
  BY <1>0, LeaveMoves DEF Save
<1>8. l.id \in Id /\ Settled(l.id) => Unauthorized(b)
  BY <1>1, <1>3
<1>. QED  BY <1>0, <1>4, <1>5, <1>6, <1>7, <1>8, WriteGood
LEMMA ClearTokenGood ==
  ASSUME Inv, NEW a \in Request, ClearToken(a)
  PROVE  Good
<1> DEFINE l == proc[a]
           b == [l.mine EXCEPT !.token = 0]
           m == [l EXCEPT !.mine = Blank]
<1>0. a \in Process /\ pc[a] = "clear"
  BY DEF ClearToken, Process
<1>1. Copy(l.id, l.mine, accounts, unused) /\ (Settled(l.id) => Unauthorized(l.mine))
  BY <1>0, InHand
<1>2. /\ b \in Account /\ b.pool = l.mine.pool
      /\ Unauthorized(l.mine) => Unauthorized(b)
  BY <1>1 DEF Copy, Account, Unauthorized
<1>3. Copy(l.id, b, accounts, unused)
  BY <1>1, <1>2 DEF Copy
<1>4. Sound("clear", l) /\ l \in Local
  BY <1>0, AtHand
<1>5. /\ m \in Local /\ m.mine = Blank /\ m.current = l.current /\ m.listed = l.listed
      /\ m.id = l.id /\ m.op = l.op
  BY <1>4 DEF Local
<1>6. Sound("reload", m)
  <2> HIDE DEF m
  <2>1. m.id \in Id
    BY <1>1, <1>5 DEF Copy
  <2>2. Fits("reload", m, accounts, unused, highest)
    BY <1>4, <1>5, <2>1 DEF Sound, Fits
  <2>3. ASSUME NEW id \in Id, Settled(id) PROVE Clean(id, m)
    BY <1>4, <1>5, <2>3, BlankIsNone DEF Sound, Clean
  <2>. QED  BY <1>5, <2>2, <2>3 DEF Sound, Place
<1>7. Moved(a)
  <2>1. Goto(a, "reload", m) \/ Leave(a)
    BY DEF ClearToken
  <2> HIDE DEF m
  <2>. QED  BY <1>0, <1>6, <2>1, LeaveMoves DEF Moved
<1>8. RestInv'
  BY DEF ClearToken, Inv, RestInv
<1>9. UpdateAccount(l.id, b) /\ UNCHANGED <<limit, unused, highest>>
  BY DEF ClearToken
<1> HIDE DEF b
<1>. QED  BY <1>0, <1>1, <1>2, <1>3, <1>7, <1>8, <1>9, WriteGood

\* What GitHub says of a quota leaves pool and authorisation alone.
LEMMA AnsweredType ==
  ASSUME NEW a \in Account, NEW answer \in Answer
  PROVE  /\ Answered(a, answer) \in Account /\ Answered(a, answer).pool = a.pool
         /\ Unauthorized(a) => Unauthorized(Answered(a, answer))
<1>1. answer[1] \in BOOLEAN /\ answer[2] \in BOOLEAN
  <2>1. CASE answer = <<FALSE, FALSE>>
    BY <2>1
  <2>2. CASE answer = <<TRUE, FALSE>>
    BY <2>2
  <2>3. CASE answer = <<TRUE, TRUE>>
    BY <2>3
  <2>. QED  BY <2>1, <2>2, <2>3 DEF Answer
<1>. QED  BY <1>1 DEF Answered, Account, Unauthorized

LEMMA SyncQuotaGood ==
  ASSUME Inv, NEW a \in Request, SyncQuota(a)
  PROVE  Good
<1> DEFINE l == proc[a]
<1>0. a \in Process /\ pc[a] = "github" /\ Leave(a) /\ UNCHANGED <<limit, unused, highest>>
  BY DEF SyncQuota, Process
<1>1. RestInv' /\ Moved(a)
  BY <1>0, LeaveMoves DEF SyncQuota, Inv, RestInv
<1>2. CASE UNCHANGED accounts
  BY <1>0, <1>1, <1>2, NoWriteGood
<1>3. ASSUME NEW answer \in Answer, UpdateAccount(l.id, Answered(l.mine, answer))
      PROVE  Good
  <2> DEFINE b == Answered(l.mine, answer)
  <2>1. Copy(l.id, l.mine, accounts, unused) /\ (Settled(l.id) => Unauthorized(l.mine))
    BY <1>0, InHand
  <2>2. /\ b \in Account /\ b.pool = l.mine.pool
        /\ Unauthorized(l.mine) => Unauthorized(b)
    BY <2>1, AnsweredType DEF Copy
  <2>3. Copy(l.id, b, accounts, unused)
    BY <2>1, <2>2 DEF Copy
  <2> HIDE DEF b
  <2>4. UpdateAccount(l.id, b)
    BY <1>3 DEF b
  <2>. QED  BY <1>0, <1>1, <2>1, <2>2, <2>3, <2>4, WriteGood
<1>. QED  BY <1>2, <1>3 DEF SyncQuota

LEMMA PollForTokenGood ==
  ASSUME Inv, NEW a \in Request, PollForToken(a)
  PROVE  Good
<1> DEFINE l == proc[a]
           mine == [l.mine EXCEPT !.oauth = TRUE]
           m == [l EXCEPT !.mine = mine]
<1>0. a \in Process /\ pc[a] = "poll" /\ UNCHANGED <<limit, unused, highest>>
  BY DEF PollForToken, Process
<1>1. RestInv'
  BY DEF PollForToken, Inv, RestInv
<1>2. /\ Copy(l.id, l.mine, accounts, unused) /\ (Settled(l.id) => Unauthorized(l.mine))
      /\ l.mine.device
  BY <1>0, InHand DEF Inv, ProcInv, Fits
<1>3. ~Settled(l.id)
  BY <1>2 DEF Unauthorized
<1>4. mine \in Account /\ mine.pool = l.mine.pool /\ mine.oauth
  BY <1>2 DEF Copy, Account
<1>5. Copy(l.id, mine, accounts, unused) /\ mine # Blank
  BY <1>2, <1>4, BlankIsNone DEF Copy
<1>6. Sound("poll", l) /\ l \in Local
  BY <1>0, AtHand
<1>7. /\ m \in Local /\ m.mine = mine /\ m.current = l.current /\ m.listed = l.listed
      /\ m.id = l.id /\ m.op = l.op
  BY <1>4, <1>6 DEF Local
<1>8. Sound("first", m)
  <2> HIDE DEF m, mine
  <2>1. Fits("first", m, accounts, unused, highest)
    BY <1>4, <1>5, <1>6, <1>7 DEF Sound, Fits
  <2>2. ASSUME NEW id \in Id, Settled(id) PROVE Clean(id, m)
    BY <1>3, <1>6, <1>7, <2>2 DEF Sound, Clean
  <2>. QED  BY <1>7, <2>1, <2>2 DEF Sound, Place
<1>9. \/ Leave(a) /\ UNCHANGED accounts
      \/ Goto(a, "first", m) /\ (UNCHANGED accounts \/ UpdateAccount(l.id, mine))
  BY DEF PollForToken
<1>10. Moved(a)
  <2> HIDE DEF m
  <2>. QED  BY <1>0, <1>8, <1>9, LeaveMoves DEF Moved
<1> HIDE DEF m, mine
<1>11. CASE UNCHANGED accounts
  BY <1>0, <1>1, <1>10, <1>11, NoWriteGood
<1>12. CASE UpdateAccount(l.id, mine)
  BY <1>0, <1>1, <1>3, <1>5, <1>10, <1>12, WriteGood
<1>. QED  BY <1>9, <1>11, <1>12

LEMMA CompleteAuthGood ==
  ASSUME Inv, NEW a \in Request, CompleteAuth(a)
  PROVE  Good
<1> DEFINE l == proc[a]
           b == [l.mine EXCEPT !.status = "active", !.device = FALSE, !.token = issued']
<1>0. a \in Process /\ pc[a] = "first" /\ Leave(a) /\ UNCHANGED <<limit, unused, highest>>
  BY DEF CompleteAuth, Process
<1>1. Moved(a)
  BY <1>0, LeaveMoves
<1>2. RestInv' /\ issued' \in Nat
  BY DEF CompleteAuth, Inv, RestInv
<1>3. CASE UNCHANGED accounts
  BY <1>0, <1>1, <1>2, <1>3, NoWriteGood
<1>4. CASE UpdateAccount(l.id, b)
  <2>1. /\ Copy(l.id, l.mine, accounts, unused) /\ (Settled(l.id) => Unauthorized(l.mine))
        /\ l.mine.oauth
    BY <1>0, InHand DEF Inv, ProcInv, Fits
  <2>2. ~Settled(l.id)
    BY <2>1 DEF Unauthorized
  <2>3. b \in Account /\ b.pool = l.mine.pool
    BY <1>2, <2>1 DEF Copy, Account, Status
  <2>4. Copy(l.id, b, accounts, unused)
    BY <2>1, <2>3 DEF Copy
  <2> HIDE DEF b
  <2>. QED  BY <1>0, <1>1, <1>2, <1>4, <2>2, <2>4, WriteGood
<1>. QED  BY <1>3, <1>4 DEF CompleteAuth

LEMMA LockGood ==
  ASSUME Inv, NEW p \in Process, Lock(p)
  PROVE  Good
<1> DEFINE l == proc[p]
           id == l.id
           valid == Exists(id) /\ Valid(accounts[id])
           m == [l EXCEPT !.current = accounts[id]]
<1>0. pc[p] = "lock" /\ UNCHANGED <<store, issued, expired, left>>
  BY DEF Lock
<1>1. Sound("lock", l) /\ l \in Local /\ id \in Id
  BY <1>0, AtHand DEF Sound, Fits
<1>2. RestInv'
  BY <1>1 DEF Lock, Inv, RestInv
<1>3. CASE valid /\ Succeed(p, [l EXCEPT !.mine.token = accounts[id].token])
  <2>1. accounts[id] \in Account
    BY <1>1, <1>3 DEF Exists, Inv, StoreInv
  <2>2. accounts[id].token \in Nat
    BY <2>1 DEF Account
  <2>3. Settled(id) => accounts[id].token = 0
    BY DEF Settled, Unauthorized
  <2>4. Moved(p)
    BY <1>0, <1>3, <2>2, <2>3, TokenMoves
  <2>. QED  BY <1>0, <1>2, <2>4, OnwardGood
<1>4. CASE Exists(id) /\ accounts[id].oauth /\ Goto(p, "fetch", m)
  <2>1. Copy(id, accounts[id], accounts, unused)
    BY <1>1, <1>4, ReadCopy
  <2>2. ~Settled(id)
    BY <1>4 DEF Settled, Unauthorized
  <2>3. /\ m \in Local /\ m.current = accounts[id] /\ m.mine = l.mine
        /\ m.listed = l.listed /\ m.id = id /\ m.op = l.op
    BY <1>1, <2>1 DEF Local, Copy
  <2>4. m.current # Blank
    BY <2>1, <2>3, BlankIsNone DEF Copy
  <2>5. Sound("fetch", m)
    <3> HIDE DEF m
    <3>1. Fits("fetch", m, accounts, unused, highest)
      BY <1>1, <1>4, <2>1, <2>3, <2>4 DEF Sound, Fits
    <3>2. ASSUME NEW i \in Id, Settled(i) PROVE Clean(i, m)
      BY <1>1, <2>2, <2>3, <3>2 DEF Sound, Clean
    <3>. QED  BY <2>3, <3>1, <3>2 DEF Sound, Place
  <2>6. Moved(p)
    <3> HIDE DEF m
    <3>. QED  BY <1>4, <2>5 DEF Moved
  <2>. QED  BY <1>0, <1>2, <2>6, OnwardGood
<1>5. CASE Fail(p)
  BY <1>0, <1>2, <1>5, FailMoves, OnwardGood
<1>. QED  BY <1>3, <1>4, <1>5 DEF Lock

LEMMA FetchGood ==
  ASSUME Inv, NEW p \in Process, Fetch(p)
  PROVE  Good
<1> DEFINE l == proc[p]
           b == [l.current EXCEPT !.token = issued']
<1>0. pc[p] = "fetch" /\ UNCHANGED <<limit, unused, highest>>
  BY DEF Fetch
<1>1. /\ Copy(l.id, l.current, accounts, unused) /\ l.current.oauth
      /\ ~Settled(l.id)
  BY <1>0 DEF Inv, ProcInv, Fits, Settled, Unauthorized
<1>2. RestInv' /\ issued' \in Nat
  BY <1>1 DEF Fetch, Inv, RestInv, Copy
<1>3. CASE Fail(p) /\ UNCHANGED accounts
  BY <1>0, <1>2, <1>3, FailMoves, NoWriteGood
<1>4. CASE /\ UpdateAccount(l.id, b)
           /\ Succeed(p, [l EXCEPT !.mine.token = issued']) \/ Fail(p)
  <2>1. Moved(p)
    BY <1>0, <1>1, <1>2, <1>4, TokenMoves, FailMoves
  <2>2. b \in Account /\ b.pool = l.current.pool
    BY <1>1, <1>2 DEF Copy, Account
  <2>3. Copy(l.id, b, accounts, unused)
    BY <1>1, <2>2 DEF Copy
  <2> HIDE DEF b
  <2>. QED  BY <1>0, <1>1, <1>2, <1>4, <2>1, <2>3, WriteGood
<1>. QED  BY <1>3, <1>4 DEF Fetch
\* The account the caller looks for is read again.
LEMMA ReadMoves ==
  ASSUME Inv, NEW p \in Process, pc[p] \in {"reload", "get"}, Exists(proc[p].id),
         Ensure(p, [proc[p] EXCEPT !.mine = accounts[proc[p].id]])
  PROVE  Moved(p)
<1> DEFINE l == proc[p]
           b == accounts[l.id]
           m == [l EXCEPT !.mine = b]
<1>1. Sound(pc[p], l) /\ l \in Local /\ l.id \in Id
  BY AtHand DEF Sound, Fits
<1>2. Copy(l.id, b, accounts, unused) /\ (Settled(l.id) => Unauthorized(b))
  BY <1>1, ReadCopy DEF Settled
<1>3. b # Blank /\ b \in Account
  BY <1>2, BlankIsNone DEF Copy
<1>4. /\ m \in Local /\ m.mine = b /\ m.current = l.current /\ m.id = l.id
      /\ m.listed = l.listed
  BY <1>1, <1>3 DEF Local
<1>5. Ensure(p, m)
  OBVIOUS
<1> HIDE DEF m, b
<1>6. Fits("get", m, accounts, unused, highest)
  BY <1>1, <1>2, <1>4 DEF Sound, Fits
<1>7. ASSUME NEW i \in Id, Settled(i) PROVE Clean(i, m)
  BY <1>1, <1>2, <1>4, <1>7 DEF Sound, Clean
<1>8. Sound("get", m)
  BY <1>4, <1>6, <1>7 DEF Sound, Place
<1>. QED  BY <1>3, <1>4, <1>5, <1>8, EnsureMoves

LEMMA ForceRefreshTokenGood ==
  ASSUME Inv, NEW a \in Request, ForceRefreshToken(a)
  PROVE  Good
<1>0. /\ a \in Process /\ pc[a] = "reload" /\ UNCHANGED store
      /\ UNCHANGED <<issued, expired, lock, left>>
  BY DEF ForceRefreshToken, Process
<1>1. RestInv'
  BY <1>0 DEF Inv, RestInv
<1>2. CASE Leave(a)
  BY <1>0, <1>1, <1>2, LeaveMoves, OnwardGood
<1>3. CASE Exists(proc[a].id) /\ Ensure(a, [proc[a] EXCEPT !.mine = accounts[proc[a].id]])
  BY <1>0, <1>1, <1>3, ReadMoves, OnwardGood
<1>. QED  BY <1>2, <1>3 DEF ForceRefreshToken

LEMMA ActivateGood ==
  ASSUME Inv, NEW a \in Request, Activate(a)
  PROVE  Good
<1> DEFINE l == proc[a]
           b == [l.mine EXCEPT !.status = "active"]
<1>0. a \in Process /\ pc[a] = "activate" /\ Leave(a) /\ UNCHANGED <<limit, unused, highest>>
  BY DEF Activate, Process
<1>1. RestInv' /\ Moved(a)
  BY <1>0, LeaveMoves DEF Activate, Inv, RestInv
<1>2. Copy(l.id, l.mine, accounts, unused) /\ (Settled(l.id) => Unauthorized(l.mine))
  BY <1>0, InHand
<1>3. /\ b \in Account /\ b.pool = l.mine.pool
      /\ Unauthorized(l.mine) => Unauthorized(b)
  BY <1>2 DEF Copy, Account, Status, Unauthorized
<1>4. Copy(l.id, b, accounts, unused)
  BY <1>2, <1>3 DEF Copy
<1>5. UpdateAccount(l.id, b)
  BY DEF Activate
<1> HIDE DEF b
<1>. QED  BY <1>0, <1>1, <1>2, <1>3, <1>4, <1>5, WriteGood
----------------------------------------------------------------------------
(* Requests of clients, and the loops. *)

LEMMA FindPoolGood ==
  ASSUME Inv, NEW c \in Request, NEW pool \in Pool, FindPool(c, pool)
  PROVE  Good
<1> DEFINE l == [Fresh EXCEPT !.op = "request", !.pool = pool]
<1>1. l \in Local /\ l.mine = Blank /\ l.current = Blank /\ l.listed = Fresh.listed
      /\ l.pool = pool
  BY FreshFields DEF Local, Operation
<1>2. Sound("select", l)
  <2>1. Fits("select", l, accounts, unused, highest)
    BY <1>1, FreshFields DEF Fits
  <2>2. ASSUME NEW id \in Id PROVE Clean(id, l)
    BY <1>1, FreshFields, BlankIsNone DEF Clean
  <2>. QED  BY <1>1, <2>1, <2>2 DEF Sound, Place
<1>3. Moved(c)
  BY <1>2 DEF FindPool, Moved
<1>4. RestInv'
  BY SpendType DEF FindPool, Begin, Inv, RestInv
<1>. QED  BY <1>3, <1>4, OnwardGood DEF FindPool, Process

LEMMA FirstIn ==
  ASSUME Inv, NEW ids \in SUBSET Id, ids # {}, \A id \in ids : Exists(id)
  PROVE  First(ids) \in ids
<1> DEFINE orders == {accounts[id].order : id \in ids}
<1>1. orders \in SUBSET Nat /\ orders # {}
  BY DEF Exists, Inv, StoreInv, Account
<1>2. PICK o \in orders : \A other \in orders : o <= other
  BY <1>1, Least
<1>3. \E id \in ids : \A other \in ids : accounts[id].order <= accounts[other].order
  BY <1>2
<1>. QED  BY <1>3 DEF First

LEMMA SelectAccountGood ==
  ASSUME Inv, NEW c \in Request, SelectAccount(c)
  PROVE  Good
<1>0. /\ c \in Process /\ pc[c] = "select" /\ UNCHANGED store
      /\ UNCHANGED <<issued, expired, lock, left>>
  BY DEF SelectAccount, Process
<1>1. RestInv'
  BY <1>0 DEF Inv, RestInv
<1>2. CASE Leave(c)
  BY <1>0, <1>1, <1>2, LeaveMoves, OnwardGood
<1>3. ASSUME NEW ids \in SUBSET Mates(proc[c].pool), ids # {},
             Goto(c, "get", [proc[c] EXCEPT !.id = First(ids)])
      PROVE  Good
  <2> DEFINE l == proc[c]
             m == [l EXCEPT !.id = First(ids)]
  <2>1. First(ids) \in Id
    BY <1>3, FirstIn DEF Mates
  <2>2. Sound("select", l) /\ l \in Local
    BY <1>0, AtHand
  <2>3. /\ m \in Local /\ m.current = Blank /\ m.mine = Blank
        /\ m.listed = l.listed /\ m.id \in Id
    BY <2>1, <2>2 DEF Local, Sound, Fits
  <2>4. Sound("get", m)
    <3> HIDE DEF m
    <3>1. Fits("get", m, accounts, unused, highest)
      BY <2>2, <2>3 DEF Sound, Fits
    <3>2. ASSUME NEW i \in Id, Settled(i) PROVE Clean(i, m)
      BY <2>2, <2>3, <3>2, BlankIsNone DEF Sound, Clean
    <3>. QED  BY <2>3, <3>1, <3>2 DEF Sound, Place
  <2>5. Moved(c)
    <3>1. Goto(c, "get", m)
      BY <1>3
    <3> HIDE DEF m
    <3>. QED  BY <2>4, <3>1 DEF Moved
  <2>. QED  BY <1>0, <1>1, <2>5, OnwardGood
<1> DEFINE mates == Mates(proc[c].pool)
           best == {id \in mates : accounts[id].status = "active" /\ ~accounts[id].out}
           over == {id \in mates : accounts[id].overage /\ accounts[id].status \in Usable}
<1>4. \/ best # {} /\ Goto(c, "get", [proc[c] EXCEPT !.id = First(best)])
      \/ over # {} /\ Goto(c, "get", [proc[c] EXCEPT !.id = First(over)])
      \/ Leave(c)
  BY DEF SelectAccount
<1>5. best \in SUBSET mates /\ over \in SUBSET mates
  OBVIOUS
<1> HIDE DEF best, over
<1>. QED  BY <1>2, <1>3, <1>4, <1>5

LEMMA GetTokenGood ==
  ASSUME Inv, NEW c \in Request, GetToken(c)
  PROVE  Good
<1>0. /\ c \in Process /\ pc[c] = "get" /\ UNCHANGED store
      /\ UNCHANGED <<issued, expired, lock, left>>
  BY DEF GetToken, Process
<1>1. RestInv'
  BY <1>0 DEF Inv, RestInv
<1>2. CASE Leave(c)
  BY <1>0, <1>1, <1>2, LeaveMoves, OnwardGood
<1>3. CASE Exists(proc[c].id) /\ Ensure(c, [proc[c] EXCEPT !.mine = accounts[proc[c].id]])
  BY <1>0, <1>1, <1>3, ReadMoves, OnwardGood
<1>. QED  BY <1>2, <1>3 DEF GetToken

\* What List reads, for whoever goes through it.
LEMMA ListedCopies ==
  ASSUME Inv
  PROVE  /\ Listed \in [Id -> Account \cup {NoAccount}]
         /\ \A id \in Id : Listed[id] # NoAccount =>
              /\ Copy(id, Listed[id], accounts, unused)
              /\ Settled(id) => Unauthorized(Listed[id])
<1>1. ASSUME NEW id \in Id, Listed[id] # NoAccount
      PROVE  Exists(id) /\ Listed[id] = accounts[id]
  BY <1>1 DEF Listed, Serving
<1>2. Listed \in [Id -> Account \cup {NoAccount}]
  BY DEF Listed, Inv, StoreInv
<1>. QED  BY <1>1, <1>2, ReadCopy DEF Settled

LEMMA ListMoves ==
  ASSUME Inv, NEW p \in Process, NEW to \in {"next", "sync"}, NEW l \in Local,
         l.mine = Blank, l.current = Blank, l.listed = Listed, Goto(p, to, l)
  PROVE  Moved(p)
<1>1. Fits(to, l, accounts, unused, highest)
  BY ListedCopies DEF Fits
<1>2. ASSUME NEW id \in Id, Settled(id) PROVE Clean(id, l)
  BY <1>2, ListedCopies, BlankIsNone DEF Clean
<1>3. Sound(to, l)
  BY <1>1, <1>2 DEF Sound, Place
<1>. QED  BY <1>3 DEF Moved

LEMMA ListForModelsGood ==
  ASSUME Inv, NEW a \in Request, ListForModels(a)
  PROVE  Good
<1> DEFINE l == [Fresh EXCEPT !.op = "models", !.listed = Listed]
<1>0. l \in Local /\ l.mine = Blank /\ l.current = Blank /\ l.listed = Listed
  BY FreshFields, ListedCopies DEF Local, Operation
<1>1. a \in Process /\ Moved(a)
  <2>1. Goto(a, "next", l)
    BY DEF ListForModels
  <2> HIDE DEF l
  <2>. QED  BY <1>0, <2>1, ListMoves DEF Process
<1>2. RestInv'
  BY SpendType DEF ListForModels, Begin, Inv, RestInv
<1>. QED  BY <1>1, <1>2, OnwardGood DEF ListForModels

\* An account of the list is done.
LEMMA DoneSound ==
  ASSUME Inv, NEW p \in Process, pc[p] \in {"next", "sync"}, NEW id \in ToDo(p)
  PROVE  /\ Sound(pc[p], Done(p, id)) /\ Done(p, id) \in Local
         /\ Done(p, id).mine = proc[p].mine /\ Done(p, id).current = proc[p].current
         /\ Copy(id, proc[p].listed[id], accounts, unused)
         /\ Settled(id) => Unauthorized(proc[p].listed[id])
<1> DEFINE l == proc[p]
           m == Done(p, id)
<1>1. Sound(pc[p], l) /\ l \in Local
  BY AtHand
<1>2. id \in Id /\ l.listed[id] # NoAccount
  BY DEF ToDo
<1>3. l.listed \in [Id -> Account \cup {NoAccount}]
  BY <1>1 DEF Local
<1>4. m = [l EXCEPT !.listed = [l.listed EXCEPT ![id] = NoAccount]]
  BY <1>1 DEF Done, Local
<1>5. /\ m \in Local /\ m.mine = l.mine /\ m.current = l.current /\ m.id = l.id
      /\ m.op = l.op /\ m.pool = l.pool /\ m.room = l.room
      /\ m.listed = [l.listed EXCEPT ![id] = NoAccount]
  BY <1>1, <1>3, <1>4 DEF Local
<1>6. \A i \in Id : m.listed[i] # NoAccount => m.listed[i] = l.listed[i]
  BY <1>3, <1>5
<1> HIDE DEF m
<1>7. Fits(pc[p], m, accounts, unused, highest)
  BY <1>1, <1>5, <1>6 DEF Sound, Fits
<1>8. ASSUME NEW i \in Id, Settled(i) PROVE Clean(i, m)
  BY <1>1, <1>5, <1>6, <1>8 DEF Sound, Clean
<1>9. Sound(pc[p], m)
  BY <1>1, <1>5, <1>7, <1>8 DEF Sound
<1>10. Copy(id, l.listed[id], accounts, unused) /\ (Settled(id) => Unauthorized(l.listed[id]))
  BY <1>1, <1>2 DEF Sound, Fits, Clean
<1>. QED  BY <1>5, <1>9, <1>10 DEF m

LEMMA NextForModelsGood ==
  ASSUME Inv, NEW a \in Request, NextForModels(a)
  PROVE  Good
<1>0. /\ a \in Process /\ pc[a] = "next" /\ UNCHANGED store
      /\ UNCHANGED <<issued, expired, lock, left>>
  BY DEF NextForModels, Process
<1>1. RestInv'
  BY <1>0 DEF Inv, RestInv
<1>2. CASE Leave(a)
  BY <1>0, <1>1, <1>2, LeaveMoves, OnwardGood
<1>3. ASSUME NEW id \in ToDo(a),
             Ensure(a, [Done(a, id) EXCEPT !.id = id, !.mine = proc[a].listed[id]])
      PROVE  Good
  <2> DEFINE d == Done(a, id)
             b == proc[a].listed[id]
             m == [d EXCEPT !.id = id, !.mine = b]
  <2>1. /\ Sound("next", d) /\ d \in Local /\ Copy(id, b, accounts, unused)
        /\ Settled(id) => Unauthorized(b)
    BY <1>0, DoneSound
  <2>2. id \in Id /\ b \in Account /\ b # Blank /\ d.current = Blank
    BY <2>1, BlankIsNone DEF Copy, Sound, Fits
  <2>3. Ensure(a, m)
    BY <1>3
  <2> HIDE DEF d, b
  <2>4. m \in Local /\ m.current = Blank /\ m.mine = b /\ m.id = id /\ m.listed = d.listed
    BY <2>1, <2>2 DEF Local
  <2> HIDE DEF m
  <2>5. Sound("get", m)
    <3>1. Fits("get", m, accounts, unused, highest)
      BY <2>1, <2>2, <2>4 DEF Sound, Fits
    <3>2. ASSUME NEW i \in Id, Settled(i) PROVE Clean(i, m)
      BY <2>1, <2>4, <3>2, BlankIsNone DEF Sound, Clean
    <3>. QED  BY <2>4, <3>1, <3>2 DEF Sound, Place
  <2>6. Moved(a)
    BY <1>0, <2>2, <2>3, <2>4, <2>5, EnsureMoves
  <2>. QED  BY <1>0, <1>1, <2>6, OnwardGood
<1>. QED  BY <1>2, <1>3 DEF NextForModels
LEMMA SyncListGood ==
  ASSUME Inv, SyncList
  PROVE  Good
<1> DEFINE l == [Fresh EXCEPT !.listed = Listed]
<1>1. l \in Local /\ l.mine = Blank /\ l.current = Blank /\ l.listed = Listed
  BY FreshFields, ListedCopies DEF Local
<1>2. Goto(Syncer, "sync", l)
  BY DEF SyncList
<1> HIDE DEF l
<1>3. Syncer \in Process /\ Moved(Syncer)
  BY <1>1, <1>2, ListMoves DEF Process
<1>4. RestInv'
  BY DEF SyncList, Inv, RestInv
<1>. QED  BY <1>3, <1>4, OnwardGood DEF SyncList

LEMMA SyncOneGood ==
  ASSUME Inv, SyncOne
  PROVE  Good
<1>0. /\ Syncer \in Process /\ pc[Syncer] = "sync"
      /\ UNCHANGED <<limit, unused, highest, issued, expired, lock>>
  BY DEF SyncOne, Process
<1>1. PICK id \in ToDo(Syncer) :
        /\ Leave(Syncer) \/ Goto(Syncer, "sync", Done(Syncer, id))
        /\ \/ Spend("troubles") /\ UNCHANGED accounts
           \/ /\ \E answer \in Answer :
                   UpdateAccount(id, Synced(proc[Syncer].listed[id], answer))
              /\ UNCHANGED left
  BY DEF SyncOne
<1>2. /\ Sound("sync", Done(Syncer, id))
      /\ Copy(id, proc[Syncer].listed[id], accounts, unused)
      /\ Settled(id) => Unauthorized(proc[Syncer].listed[id])
  BY <1>0, DoneSound
<1>3. Moved(Syncer)
  BY <1>0, <1>1, <1>2, LeaveMoves DEF Moved
<1>4. RestInv'
  BY <1>0, <1>1, SpendType DEF Inv, RestInv
<1>5. CASE UNCHANGED accounts
  BY <1>0, <1>3, <1>4, <1>5, NoWriteGood
<1>6. ASSUME NEW answer \in Answer,
             UpdateAccount(id, Synced(proc[Syncer].listed[id], answer))
      PROVE  Good
  <2> DEFINE a == proc[Syncer].listed[id]
             b == Answered(a, answer)
             c == Synced(a, answer)
  <2>1. /\ b \in Account /\ b.pool = a.pool
        /\ Unauthorized(a) => Unauthorized(b)
    BY <1>2, AnsweredType DEF Copy
  <2>2. PICK st \in Status : c = [b EXCEPT !.status = st]
    <3>1. b.status \in Status
      BY <2>1 DEF Account
    <3> DEFINE st == IF b.out /\ ~b.unlimited THEN "quota_exceeded"
                     ELSE IF b.status = "quota_exceeded" THEN "active" ELSE b.status
    <3>2. st \in Status
      BY <3>1 DEF Status
    <3>3. c = [b EXCEPT !.status = st]
      BY DEF Synced
    <3>. QED  BY <3>2, <3>3
  <2> HIDE DEF b, c
  <2>3. /\ c \in Account /\ c.pool = a.pool
        /\ Unauthorized(a) => Unauthorized(c)
    BY <2>1, <2>2 DEF Account, Unauthorized
  <2>4. Copy(id, c, accounts, unused)
    BY <1>2, <2>3 DEF Copy
  <2>5. UpdateAccount(id, c)
    BY <1>6 DEF c
  <2>. QED  BY <1>0, <1>2, <1>3, <1>4, <2>3, <2>4, <2>5, WriteGood
<1>. QED  BY <1>1, <1>5, <1>6

LEMMA ExpireGood ==
  ASSUME Inv, Expire
  PROVE  Good
<1>1. RestInv'
  BY DEF Expire, Inv, RestInv
<1>. QED  BY <1>1, SameStore, NobodyMoves DEF Expire, Good

LEMMA RestartGood ==
  ASSUME Inv, Restart
  PROVE  Good
<1>1. StoreStep
  BY SameStore DEF Restart
<1>2. RestInv'
  BY SpendType DEF Restart, Inv, RestInv
<1>3. ASSUME NEW p \in Process
      PROVE  Fits(pc'[p], proc'[p], accounts', unused', highest')
  <2>1. pc'[p] = "idle" /\ proc'[p] = Fresh
    BY DEF Restart
  <2>2. Fits("idle", Fresh, accounts, unused, highest) /\ Fresh \in Local
    BY FreshSound DEF Sound
  <2>. QED  BY <1>1, <2>1, <2>2, FitsKept DEF Place, Inv
<1>4. ProcInv'
  BY <1>3, FreshFields DEF Restart, ProcInv, Place
<1>5. Calm
  <2> SUFFICES ASSUME NEW id \in Id, Settled(id), Exists(id)' PROVE Settled(id)'
    BY DEF Calm
  <2>1. Unauthorized(accounts'[id])
    BY <1>1 DEF StoreStep, Exists
  <2>2. ASSUME NEW p \in Process PROVE proc'[p] = Fresh
    BY DEF Restart
  <2>. QED  BY <2>1, <2>2, FreshFields, BlankIsNone DEF Settled
<1>. QED  BY <1>1, <1>2, <1>4, <1>5 DEF Good
----------------------------------------------------------------------------
(* The invariant, and the theorems. *)

LEMMA InitInv == Init => Inv
<1> SUFFICES ASSUME Init PROVE Inv
  OBVIOUS
<1>1. PICK s \in Stored : limit = s.limit /\ highest = limit /\ accounts = s.accounts
  BY DEF Init
<1>2. s.limit \in [Pool -> Nat] /\ s.accounts \in [Id -> Account \cup {NoAccount}]
  <2>1. /\ s.limit \in [Pool -> Limits \cup {0}]
        /\ s.accounts \in [Id -> Account \cup {NoAccount}]
    BY AccountAssumption
  <2>2. Limits \cup {0} \subseteq Nat
    BY PoolAssumption
  <2>. QED  BY <2>1, <2>2
<1>3. StoreInv
  BY <1>1, <1>2 DEF Init, StoreInv, Exists
<1>4. ProcInv
  BY FreshSound, FreshFields DEF Init, ProcInv, Sound, Place
<1>5. RestInv
  BY BoundsAssumption DEF Init, RestInv
<1>. QED  BY <1>3, <1>4, <1>5 DEF Inv

LEMMA StutterGood ==
  ASSUME Inv, UNCHANGED vars
  PROVE  Good
<1>1. UNCHANGED store /\ UNCHANGED <<pc, proc, issued, expired, lock, left>>
  BY DEF vars
<1>2. RestInv'
  BY <1>1 DEF Inv, RestInv
<1>. QED  BY <1>1, <1>2, SameStore, NobodyMoves DEF Good

LEMMA NextGood ==
  ASSUME Inv, [Next]_vars
  PROVE  Good
<1>1. ASSUME NEW r \in Request, Arrive(r) PROVE Good
  BY <1>1, ChangePoolGood, InitiateAuthGood, FindPoolGood, DeleteAccountGood, LoadGood,
     ListForModelsGood DEF Arrive
<1>2. ASSUME NEW r \in Request, Handle(r) PROVE Good
  <2>1. r \in Process
    BY DEF Process
  <2>. QED
    BY <1>2, <2>1, CreateAccountGood, SaveGood, ClearTokenGood, SyncQuotaGood,
       PollForTokenGood, CompleteAuthGood, LockGood, FetchGood, ForceRefreshTokenGood,
       ActivateGood, SelectAccountGood, GetTokenGood, NextForModelsGood DEF Handle
<1>3. CASE Sync
  BY <1>3, SyncListGood, SyncOneGood DEF Sync
<1>. QED  BY <1>1, <1>2, <1>3, ExpireGood, RestartGood, StutterGood DEF Next

LEMMA InvStep == Inv /\ [Next]_vars => Inv'
BY NextGood DEF Good, StoreStep, Inv

LEMMA Invariance == Spec => []Inv
BY InitInv, InvStep, PTL DEF Spec

\* Every record in the store and in the hands of a handler has the parts the
\* code gives it, and the lock of an account is held by a process or by none.
THEOREM CopilotTypeCorrect == Spec => []TypeOK
<1>1. Inv => TypeOK
  BY DEF Inv, StoreInv, ProcInv, RestInv, TypeOK, Place
<1>. QED  BY <1>1, Invariance, PTL

\* However refreshes, the synchronisation and the administrator interleave,
\* no writer brings a deleted account back: UpdateAccount requires the account
\* to be there, and an identifier is given once.
THEOREM DeletedAccountsStayDeleted == Spec => DeletedStaysDeleted
<1>1. Inv /\ [Next]_vars => [\A id \in Id : ~Exists(id) /\ id \notin unused => ~Exists(id)']_vars
  BY NextGood DEF Good, StoreStep, Exists
<1>. QED  BY <1>1, Invariance, PTL DEF Spec, DeletedStaysDeleted

\* An account that has no authorisation left, and of which nobody holds an
\* older copy, is never authorised again, whatever the handlers write.
THEOREM SettledRevocationsHold == Spec => RevocationSettles
<1>1. Inv /\ [Next]_vars =>
        [\A id \in Id : Settled(id) /\ Exists(id)' => Settled(id)']_vars
  BY NextGood DEF Good, Calm
<1>. QED  BY <1>1, Invariance, PTL DEF Spec, RevocationSettles

LEMMA MatesFinite == \A pool \in Pool : IsFiniteSet(Mates(pool)) /\ Cardinality(Mates(pool)) \in Nat
BY PoolAssumption, FS_Subset, FS_CardinalityType DEF Mates

\* Only the creation of an account adds one to a pool.
LEMMA LimitStep ==
  ASSUME Inv, AccountsWithinLimit, [Next]_vars
  PROVE  AccountsWithinLimit'
<1> SUFFICES ASSUME NEW pool \in Pool
             PROVE  Cardinality(Mates(pool)') <= highest'[pool]
  BY DEF AccountsWithinLimit
<1>0. Good /\ StoreStep
  BY NextGood DEF Good
<1>1. /\ IsFiniteSet(Mates(pool)) /\ Cardinality(Mates(pool)) \in Nat
      /\ highest[pool] \in Nat /\ highest'[pool] \in Nat
      /\ Cardinality(Mates(pool)) <= highest[pool] /\ highest[pool] <= highest'[pool]
  BY <1>0, MatesFinite DEF AccountsWithinLimit, StoreStep, Inv, StoreInv
<1>2. CASE Mates(pool)' \subseteq Mates(pool)
  <2>1. /\ Cardinality(Mates(pool)') <= Cardinality(Mates(pool))
        /\ Cardinality(Mates(pool)') \in Nat
    BY <1>1, <1>2, FS_Subset, FS_CardinalityType
  <2>. QED  BY <1>1, <2>1
<1>3. CASE UNCHANGED unused
  <2>1. \A id \in Id : accounts'[id] # NoAccount =>
          accounts[id] # NoAccount /\ accounts[id].pool = accounts'[id].pool
    BY <1>0, <1>3 DEF StoreStep, StoreInv
  <2>2. Mates(pool)' \subseteq Mates(pool)
    BY <2>1 DEF Mates, Exists
  <2>. QED  BY <1>2, <2>2
<1>4. ASSUME NEW a \in Request, CreateAccount(a)
      PROVE  Cardinality(Mates(pool)') <= highest'[pool]
  <2> DEFINE q == proc[a].pool
  <2>1. /\ q \in Pool /\ proc[a].room \in Nat /\ proc[a].room <= highest[q]
        /\ UNCHANGED highest
    BY <1>4 DEF CreateAccount, Inv, ProcInv, Fits, Local, Process
  <2>2. CASE UNCHANGED <<accounts, unused>>
    BY <1>3, <2>2
  <2>3. ASSUME Cardinality(Mates(q)) < proc[a].room, NEW id \in unused,
               accounts' = [accounts EXCEPT ![id] = NewAccount(q)]
        PROVE  Cardinality(Mates(pool)') <= highest'[pool]
    <3>1. \A i \in Id : i # id => accounts'[i] = accounts[i]
      BY <2>3 DEF Inv, StoreInv
    <3>2. id \in Id /\ accounts'[id].pool = q
      BY <2>3 DEF Inv, StoreInv, NewAccount, Blank
    <3>3. CASE q # pool
      <4>1. Mates(pool)' \subseteq Mates(pool)
        BY <3>1, <3>2, <3>3 DEF Mates, Exists
      <4>. QED  BY <1>2, <4>1
    <3>4. CASE q = pool
      <4>1. Mates(pool)' \subseteq Mates(pool) \cup {id}
        BY <3>1 DEF Mates, Exists
      <4>2. /\ IsFiniteSet(Mates(pool) \cup {id})
            /\ Cardinality(Mates(pool) \cup {id}) <= Cardinality(Mates(pool)) + 1
            /\ Cardinality(Mates(pool) \cup {id}) \in Nat
        <5>1. /\ IsFiniteSet(Mates(pool) \cup {id})
              /\ Cardinality(Mates(pool) \cup {id}) =
                   IF id \in Mates(pool) THEN Cardinality(Mates(pool))
                   ELSE Cardinality(Mates(pool)) + 1
          BY <1>1, FS_AddElement
        <5>. QED  BY <1>1, <5>1
      <4>3. /\ Cardinality(Mates(pool)') <= Cardinality(Mates(pool) \cup {id})
            /\ Cardinality(Mates(pool)') \in Nat
        BY <4>1, <4>2, FS_Subset, FS_CardinalityType
      <4>. QED  BY <1>1, <2>1, <2>3, <3>4, <4>2, <4>3
    <3>. QED  BY <3>3, <3>4
  <2>. QED  BY <1>4, <2>2, <2>3 DEF CreateAccount
<1>5. (\E a \in Request : CreateAccount(a)) \/ UNCHANGED unused
  BY DEF Next, Arrive, Handle, Sync, vars, store, ChangePool, InitiateAuth, FindPool,
         DeleteAccount, Load, ListForModels, Save, ClearToken, SyncQuota, PollForToken,
         CompleteAuth, Lock, Fetch, ForceRefreshToken, Activate, SelectAccount, GetToken,
         NextForModels, SyncList, SyncOne, Expire, Restart
<1>. QED  BY <1>3, <1>4, <1>5

\* A pool never has more accounts than the greatest limit it has had, though
\* Create compares with a limit read before its transaction.
THEOREM PoolsKeepTheirLimit == Spec => []AccountsWithinLimit
<1>1. Init => AccountsWithinLimit
  <2> SUFFICES ASSUME Init, NEW pool \in Pool
               PROVE  Cardinality(Mates(pool)) <= highest[pool]
    BY DEF AccountsWithinLimit
  <2>1. PICK s \in Stored :
          /\ Cardinality({id \in Id : s.accounts[id] # NoAccount /\ s.accounts[id].pool = pool})
               <= s.limit[pool]
          /\ limit = s.limit /\ highest = limit /\ accounts = s.accounts
    BY DEF Init
  <2>. QED  BY <2>1 DEF Mates, Exists
<1>. QED  BY <1>1, LimitStep, Invariance, PTL DEF Spec
=============================================================================
