------------------------- MODULE QuotaManagerProofs -------------------------
(***************************************************************************)
(* Proofs about QuotaManager.  RefusalIsJustified is inductive as it       *)
(* stands: every step that writes the counters writes the exceeded entry   *)
(* from them under the same lock, and ClearExpired, which does not,        *)
(* deletes the entry.  The types need the sums of the database to be       *)
(* amounts and the clocks read to be hours; CountedUntilReset needs the    *)
(* types, that no clock a process has read is ahead, and that a client     *)
(* without an entry has no counters.                                       *)
(***************************************************************************)
EXTENDS QuotaManager, FiniteSetTheorems, TLAPS

----------------------------------------------------------------------------
(* Refusals. *)

\* An entry made from counters is either none or justified by them.
LEMMA ExceededByJustified ==
  ASSUME NEW cc, ExceededBy(cc) # NotExceeded
  PROVE  OverLimit(cc) # {}
BY DEF ExceededBy

\* The invariant after a step that sets the entry from the new counters.
LEMMA WrittenTogether ==
  ASSUME loaded' = TRUE, exceeded' = ExceededBy(counters')
  PROVE  RefusalIsJustified'
BY ExceededByJustified DEF RefusalIsJustified, NotExceeded

\* The invariant after a step that deletes the entry.
LEMMA Deletion ==
  ASSUME exceeded' = NotExceeded
  PROVE  RefusalIsJustified'
BY DEF RefusalIsJustified, NotExceeded

\* The invariant after a step that leaves the memory alone.
LEMMA MemoryUnchanged ==
  ASSUME RefusalIsJustified, UNCHANGED memory
  PROVE  RefusalIsJustified'
BY DEF RefusalIsJustified, NotExceeded, memory, ExceededBy, OverLimit, First

\* No step of an evaluation breaks it.
LEMMA EvaluateKeepsJustified ==
  ASSUME RefusalIsJustified, NEW p, Evaluate(p)
  PROVE  RefusalIsJustified'
<1>1. CASE ReadConfig(p)
  BY <1>1, MemoryUnchanged DEF ReadConfig, ReadFails
<1>2. CASE Drop(p)
  BY <1>2, Deletion DEF Drop
<1>3. CASE Sum(p)
  BY <1>3, MemoryUnchanged DEF Sum
<1>4. CASE Store(p)
  BY <1>4, WrittenTogether DEF Store
<1>5. QED  BY <1>1, <1>2, <1>3, <1>4 DEF Evaluate

\* No step of an admitted request breaks it.
LEMMA HandleKeepsJustified ==
  ASSUME RefusalIsJustified, NEW r, Handle(r)
  PROVE  RefusalIsJustified'
<1>1. CASE ClearExpired(r)
  BY <1>1, Deletion DEF ClearExpired
<1>2. CASE CostsNothing(r) \/ Stamp(r) \/ Record(r)
  BY <1>2, MemoryUnchanged DEF CostsNothing, Stamp, Record, memory
<1>3. CASE Increment(r)
  <2>1. CASE loaded
    <3>1. exceeded' = ExceededBy(counters') /\ loaded' = loaded
      BY <1>3, <2>1 DEF Increment, Charge
    <3>2. QED  BY <2>1, <3>1, ExceededByJustified DEF RefusalIsJustified
  <2>2. CASE ~loaded
    BY <1>3, <2>2, MemoryUnchanged DEF Increment, memory
  <2>3. QED  BY <2>1, <2>2
<1>4. CASE IncrementAgain(r)
  <2>1. CASE loaded
    <3>1. exceeded' = ExceededBy(counters') /\ loaded' = loaded
      BY <1>4, <2>1 DEF IncrementAgain, Charge
    <3>2. QED  BY <2>1, <3>1, ExceededByJustified DEF RefusalIsJustified
  <2>2. CASE ~loaded
    <3>1. CASE UNCHANGED memory
      BY <3>1, MemoryUnchanged
    <3>2. CASE loaded' = TRUE /\ exceeded' = ExceededBy(counters')
      BY <3>2, WrittenTogether
    <3>3. QED  BY <1>4, <2>2, <3>1, <3>2 DEF IncrementAgain, Charge
  <2>3. QED  BY <2>1, <2>2
<1>5. CASE Evaluate(r)
  BY <1>5, EvaluateKeepsJustified
<1>6. QED  BY <1>1, <1>2, <1>3, <1>4, <1>5 DEF Handle

\* A client is refused only for a limit that its counters have reached, for
\* every number of requests, administrators, restarts and faults.
THEOREM RefusalsAreJustified == Spec => []RefusalIsJustified
<1>1. Init => RefusalIsJustified
  BY DEF Init, RefusalIsJustified
<1>2. RefusalIsJustified /\ [Next]_vars => RefusalIsJustified'
  <2> SUFFICES ASSUME RefusalIsJustified, [Next]_vars
               PROVE  RefusalIsJustified'
    OBVIOUS
  <2>1. ASSUME NEW r \in Request, Check(r) \/ Handle(r)
        PROVE  RefusalIsJustified'
    BY <2>1, HandleKeepsJustified, MemoryUnchanged DEF Check
  <2>2. ASSUME NEW a \in Admin, ChangeClient(a) \/ Evaluate(a)
        PROVE  RefusalIsJustified'
    BY <2>2, EvaluateKeepsJustified, MemoryUnchanged DEF ChangeClient
  <2>3. CASE Calibration
    BY <2>3, EvaluateKeepsJustified, MemoryUnchanged DEF Calibration, Calibrate
  <2>4. CASE PreloadTimeout \/ Serve \/ Tick
    BY <2>4, MemoryUnchanged DEF PreloadTimeout, Serve, Tick
  <2>5. CASE Restart
    BY <2>5, Deletion DEF Restart, Boot
  <2>6. CASE UNCHANGED vars
    BY <2>6, MemoryUnchanged DEF vars
  <2>7. QED  BY <2>1, <2>2, <2>3, <2>4, <2>5, <2>6 DEF Next
<1>3. QED  BY <1>1, <1>2, PTL DEF Spec

----------------------------------------------------------------------------
(* A sum over a set, as SumFunctionOnSet computes it: by a recursion that   *)
(* takes out one member after the other.                                    *)

Pick(s) == CHOOSE x \in s : TRUE
IsSummation(g, f, S) ==
  g = [s \in SUBSET S |-> IF s = {} THEN 0 ELSE f[Pick(s)] + g[s \ {Pick(s)}]]

\* A set of natural numbers that is not empty has a least one.
LEMMA NatMin ==
  ASSUME NEW S \in SUBSET Nat, S # {}
  PROVE  \E x \in S : \A y \in S : x <= y
<1> DEFINE R == OpToRel(<, Nat)
<1>1. PICK x \in S : \A y \in S : ~(<<y, x>> \in R)
  BY NatLessThanWellFounded, WFMin
<1>2. ASSUME NEW y \in S PROVE x <= y
  <2>1. x \in Nat /\ y \in Nat  OBVIOUS
  <2>2. ~(<<y, x>> \in R)  BY <1>1
  <2>3. ~(y < x)  BY <2>1, <2>2 DEF OpToRel
  <2>. QED  BY <2>1, <2>3
<1>. QED  BY <1>2

\* The member that is taken leaves a set with one element less.
LEMMA PickShrinks ==
  ASSUME NEW s, IsFiniteSet(s), s # {}
  PROVE  /\ Pick(s) \in s
         /\ IsFiniteSet(s \ {Pick(s)})
         /\ Cardinality(s) \in Nat /\ Cardinality(s \ {Pick(s)}) \in Nat
         /\ Cardinality(s) = Cardinality(s \ {Pick(s)}) + 1
<1>1. Pick(s) \in s  BY DEF Pick
<1>2. IsFiniteSet(s \ {Pick(s)}) /\ Cardinality(s \ {Pick(s)}) = Cardinality(s) - 1
  BY <1>1, FS_RemoveElement
<1>3. Cardinality(s) \in Nat /\ Cardinality(s \ {Pick(s)}) \in Nat
  BY <1>2, FS_CardinalityType
<1>. QED  BY <1>1, <1>2, <1>3

\* The recursion of SumFunctionOnSet has a solution, level by level.
LEMMA SummationExists ==
  ASSUME NEW f, NEW S, IsFiniteSet(S)
  PROVE  \E g : IsSummation(g, f, S)
<1> DEFINE Level(n) == {s \in SUBSET S : Cardinality(s) <= n}
           Solves(g, n) ==
             g = [s \in Level(n) |-> IF s = {} THEN 0 ELSE f[Pick(s)] + g[s \ {Pick(s)}]]
           Bad == {n \in Nat : ~ \E g : Solves(g, n)}
<1>1. \A s \in SUBSET S : IsFiniteSet(s) /\ Cardinality(s) \in Nat
  BY FS_Subset, FS_CardinalityType
<1>2. Bad = {}
  <2> SUFFICES ASSUME Bad # {} PROVE FALSE  OBVIOUS
  <2>1. PICK n \in Bad : \A m \in Bad : n <= m
    BY NatMin
  <2>2. \A s \in Level(0) : s = {}
    BY <1>1, FS_EmptySet
  <2>3. CASE n = 0
    <3>1. Solves([s \in Level(0) |-> 0], 0)
      BY <2>2
    <3>. QED  BY <2>1, <2>3, <3>1
  <2>4. CASE n # 0
    <3>1. n - 1 \in Nat /\ n - 1 \notin Bad
      <4> HIDE DEF Solves
      <4>1. n \in Nat /\ n - 1 \in Nat /\ ~(n <= n - 1)
        BY <2>4
      <4>. QED  BY <2>1, <4>1
    <3>2. PICK g : Solves(g, n - 1)
      BY <3>1
    <3> DEFINE h == [s \in Level(n) |-> IF s = {} THEN 0 ELSE f[Pick(s)] + g[s \ {Pick(s)}]]
    <3>3. ASSUME NEW s \in Level(n), s # {}
          PROVE  h[s \ {Pick(s)}] = g[s \ {Pick(s)}]
      <4> DEFINE t == s \ {Pick(s)}
      <4>1. t \in Level(n) /\ t \in Level(n - 1)
        BY <1>1, <3>1, <3>3, PickShrinks
      <4>2. g[t] = IF t = {} THEN 0 ELSE f[Pick(t)] + g[t \ {Pick(t)}]
        BY <3>2, <4>1
      <4> QED  BY <4>1, <4>2
    <3>4. Solves(h, n)
      BY <3>3
    <3>. QED  BY <2>1, <3>4
  <2>. QED  BY <2>3, <2>4
<1>3. PICK g : Solves(g, Cardinality(S))
  BY <1>1, <1>2
<1>4. Level(Cardinality(S)) = SUBSET S
  BY <1>1, FS_Subset
<1>. QED  BY <1>3, <1>4 DEF IsSummation

\* A sum of natural numbers is one.
LEMMA SumInNat ==
  ASSUME NEW f, NEW S, IsFiniteSet(S), \A x \in S : f[x] \in Nat
  PROVE  SumFunctionOnSet(f, S) \in Nat
<1> DEFINE iter == CHOOSE g : IsSummation(g, f, S)
<1>1. IsSummation(iter, f, S)
  BY SummationExists
<1>2. SumFunctionOnSet(f, S) = iter[S]
  BY DEF SumFunctionOnSet, FoldFunctionOnSet, MapThenFoldSet, IsSummation, Pick
<1> HIDE DEF iter
<1> DEFINE Bad == {n \in Nat : \E s \in SUBSET S : Cardinality(s) = n /\ iter[s] \notin Nat}
<1>3. Bad = {}
  <2> SUFFICES ASSUME Bad # {} PROVE FALSE  OBVIOUS
  <2>1. PICK n \in Bad : \A m \in Bad : n <= m
    BY NatMin
  <2>2. PICK s \in SUBSET S : Cardinality(s) = n /\ iter[s] \notin Nat
    BY <2>1
  <2>3. iter[s] = IF s = {} THEN 0 ELSE f[Pick(s)] + iter[s \ {Pick(s)}]
    BY <1>1 DEF IsSummation
  <2>4. s # {}
    BY <2>2, <2>3
  <2>5. IsFiniteSet(s)
    BY FS_Subset
  <2>6. iter[s \ {Pick(s)}] \in Nat
    <3> DEFINE t == s \ {Pick(s)}
    <3>1. t \in SUBSET S /\ Cardinality(t) \in Nat /\ ~(n <= Cardinality(t))
      BY <2>2, <2>4, <2>5, PickShrinks
    <3>2. Cardinality(t) \notin Bad
      BY <2>1, <3>1
    <3>. QED  BY <3>1, <3>2
  <2>. QED  BY <2>2, <2>3, <2>4, <2>5, <2>6, PickShrinks
<1>. QED  BY <1>2, <1>3, FS_CardinalityType
----------------------------------------------------------------------------
(* The types. *)

CounterMaps == UNION {[D -> Counter] : D \in SUBSET Dim}
Local == [at : Hour, now : Hour, limits : Limits, counters : CounterMaps, todo : SUBSET Dim]
Place == {"idle", "list", "config", "drop", "sum", "clear", "upstream", "record", "charge", "again"}

\* Besides the types: no process has read a clock that is ahead, and without an
\* entry of the client there are no counters.
QuotaInv ==
  /\ hour \in Hour
  /\ config \in Limits \cup {Deleted} /\ ledger \in [Hour -> Nat]
  /\ loaded \in BOOLEAN /\ counters \in CounterMaps /\ exceeded \in Exceeded
  /\ booting \in BOOLEAN
  /\ pc \in [Process -> Place] /\ proc \in [Process -> Local]
  /\ left \in [requests : 0 .. MaxRequests, troubles : 0 .. MaxTroubles]
  /\ \A p \in Process : proc[p].at <= hour
  /\ ~loaded => counters = NoCounters

\* Membership in CounterMaps, both ways.
LEMMA CounterMapsAre ==
  ASSUME NEW cc
  PROVE  cc \in CounterMaps <=> IsCounters(cc)
BY DEF CounterMaps, IsCounters

LEMMA NoCountersTyped == NoCounters \in CounterMaps /\ DOMAIN NoCounters = {}
BY DEF CounterMaps, NoCounters

\* The first dimension of a set is in it.
LEMMA FirstIsIn ==
  ASSUME NEW D \in SUBSET Dim, D # {}
  PROVE  First(D) \in D
<1>1. \E d \in D : \A e \in D : d <= e
  BY NatMin DEF Dim
<1>. QED  BY <1>1 DEF First

\* Periods begin at or before the hour and end after it.
LEMMA PeriodTyped ==
  ASSUME NEW d \in Dim, NEW h \in Hour
  PROVE  Start(d, h) \in 0 .. h /\ NextResetAt(d, h) \in Nat
<1>1. h \in Nat /\ Length[d] \in Nat \ {0}
  BY QuotaAssumption, BoundAssumption DEF Hour
<1>2. h % Length[d] \in 0 .. h
  <2> DEFINE l == Length[d]
  <2> HIDE DEF l
  <2>1. ASSUME l \in Nat \ {0} PROVE h % l \in 0 .. h  BY <1>1, <2>1
  <2>. QED  BY <1>1, <2>1 DEF l
<1>. QED  BY <1>1, <1>2 DEF Start, NextResetAt

\* What is read of the database is an amount.
LEMMA SpentTyped ==
  ASSUME ledger \in [Hour -> Nat], NEW d \in Dim, NEW h \in Hour
  PROVE  Spent(d, h) \in Nat
<1>1. h \in Nat /\ LastHour \in Nat /\ h <= LastHour /\ Start(d, h) \in 0 .. h
  BY PeriodTyped, BoundAssumption DEF Hour
<1>2. IsFiniteSet(Start(d, h) .. h)
  BY <1>1, FS_Interval
<1>3. \A x \in Start(d, h) .. h : ledger[x] \in Nat
  BY <1>1 DEF Hour
<1>. QED  BY <1>2, <1>3, SumInNat DEF Spent

\* The entry made from counters.
LEMMA ExceededByTyped ==
  ASSUME NEW cc \in CounterMaps
  PROVE  ExceededBy(cc) \in Exceeded
<1>1. IsCounters(cc)  BY CounterMapsAre
<1>2. OverLimit(cc) \in SUBSET DOMAIN cc /\ DOMAIN cc \in SUBSET Dim
  BY <1>1 DEF OverLimit, IsCounters
<1>3. CASE OverLimit(cc) = {}
  BY <1>3 DEF ExceededBy, NotExceeded, Exceeded
<1>4. CASE OverLimit(cc) # {}
  <2> DEFINE d == First(OverLimit(cc))
  <2>1. d \in DOMAIN cc /\ d \in Dim  BY <1>2, <1>4, FirstIsIn
  <2>2. cc[d].resetsAt \in Nat  BY <1>1, <2>1 DEF IsCounters, Counter
  <2>. QED  BY <1>4, <2>1, <2>2 DEF ExceededBy, Exceeded
<1>. QED  BY <1>3, <1>4

\* A limit refreshed from the database is a limit.
LEMMA RefreshedTyped ==
  ASSUME QuotaInv, NEW d \in Dim, NEW limit \in Nat
  PROVE  Refreshed(d, limit) \in Nat
BY QuotaAssumption DEF QuotaInv, Refreshed

\* The flip keeps the dimensions, and the counters whose period lasts.
LEMMA FlipTyped ==
  ASSUME QuotaInv, NEW cc \in CounterMaps, NEW h \in Hour
  PROVE  /\ Flip(cc, h) \in CounterMaps /\ DOMAIN Flip(cc, h) = DOMAIN cc
         /\ \A d \in DOMAIN cc : cc[d].resetsAt > h => Flip(cc, h)[d] = cc[d]
<1>1. IsCounters(cc)  BY CounterMapsAre
<1>2. ASSUME NEW d \in DOMAIN cc
      PROVE  Flip(cc, h)[d] \in Counter
  <2>1. d \in Dim /\ cc[d] \in Counter  BY <1>1 DEF IsCounters
  <2>2. Refreshed(d, cc[d].limit) \in Nat /\ NextResetAt(d, h) \in Nat
    BY <2>1, RefreshedTyped, PeriodTyped DEF Counter
  <2>. QED  BY <2>1, <2>2 DEF Flip, Counter
<1>3. DOMAIN Flip(cc, h) = DOMAIN cc /\ Flip(cc, h) = [d \in DOMAIN cc |-> Flip(cc, h)[d]]
  BY DEF Flip
<1>4. IsCounters(Flip(cc, h))
  BY <1>1, <1>2, <1>3 DEF IsCounters
<1>. QED  BY <1>3, <1>4, CounterMapsAre DEF Flip

\* A charge writes counters, and none whose period lasts goes down.
LEMMA ChargeTyped ==
  ASSUME QuotaInv, NEW cc \in CounterMaps, NEW h \in Hour, Charge(cc, h)
  PROVE  /\ counters' \in CounterMaps /\ exceeded' \in Exceeded
         /\ DOMAIN counters' = DOMAIN cc
         /\ \A d \in DOMAIN cc : cc[d].resetsAt > h => counters'[d].used = cc[d].used + 1
<1> DEFINE flipped == Flip(cc, h)
<1>1. IsCounters(cc) /\ IsCounters(flipped) /\ DOMAIN flipped = DOMAIN cc
  BY FlipTyped, CounterMapsAre
<1>2. counters' = [d \in DOMAIN cc |-> [flipped[d] EXCEPT !.used = @ + 1]]
  BY DEF Charge
<1>3. \A d \in DOMAIN cc : cc[d].resetsAt > h => flipped[d] = cc[d]
  BY FlipTyped
<1> HIDE DEF flipped
<1>4. \A d \in DOMAIN cc : flipped[d] \in Counter /\ cc[d] \in Counter
  BY <1>1 DEF IsCounters
<1>5. \A d \in DOMAIN cc : counters'[d] \in Counter
                            /\ counters'[d].used = flipped[d].used + 1
  BY <1>2, <1>4 DEF Counter
<1>6. IsCounters(counters')
  BY <1>1, <1>2, <1>5 DEF IsCounters
<1>7. exceeded' = ExceededBy(counters')
  BY DEF Charge
<1>. QED  BY <1>2, <1>3, <1>5, <1>6, <1>7, CounterMapsAre, ExceededByTyped
----------------------------------------------------------------------------
(* Every step keeps the invariant. *)

\* The part of it that is about the processes.
ProcessesTyped ==
  /\ pc \in [Process -> Place] /\ proc \in [Process -> Local]
  /\ \A p \in Process : proc[p].at <= hour

LEMMA FreshTyped == Fresh \in Local /\ Fresh.at = 0
<1>1. (CHOOSE l \in Limits : TRUE) \in Limits
  BY QuotaAssumption
<1>2. 0 \in Hour
  BY BoundAssumption DEF Hour
<1>. QED  BY <1>1, <1>2, NoCountersTyped DEF Fresh, Local

\* A process that moves and keeps well-formed locals.
LEMMA MoveTyped ==
  ASSUME QuotaInv, hour' = hour, NEW p \in Process, NEW from, NEW to \in Place, Goto(p, from, to),
         \/ UNCHANGED proc
         \/ \E l \in Local : l.at <= hour /\ proc' = [proc EXCEPT ![p] = l]
  PROVE  ProcessesTyped'
<1>1. pc' \in [Process -> Place]
  BY DEF QuotaInv, Goto
<1>2. proc' \in [Process -> Local] /\ \A q \in Process : proc'[q].at <= hour
  BY DEF QuotaInv
<1>. QED  BY <1>1, <1>2 DEF ProcessesTyped

LEMMA LeaveTyped ==
  ASSUME QuotaInv, hour' = hour, NEW p \in Process, NEW from, Leave(p, from)
  PROVE  ProcessesTyped'
<1>1. hour \in Nat
  BY BoundAssumption DEF QuotaInv, Hour
<1>2. "idle" \in Place /\ Fresh \in Local /\ Fresh.at <= hour
  BY <1>1, FreshTyped DEF Place
<1>3. Goto(p, from, "idle") /\ proc' = [proc EXCEPT ![p] = Fresh]
  BY DEF Leave
<1>. QED  BY <1>2, <1>3, MoveTyped

LEMMA ReturnTyped ==
  ASSUME QuotaInv, hour' = hour, NEW p \in Process, NEW from, Return(p, from)
  PROVE  ProcessesTyped'
BY LeaveTyped, MoveTyped DEF Return, Place

LEMMA SpendTyped ==
  ASSUME QuotaInv, NEW b \in {"requests", "troubles"}, Spend(b)
  PROVE  left' \in [requests : 0 .. MaxRequests, troubles : 0 .. MaxTroubles]
BY BoundAssumption DEF QuotaInv, Spend

\* What is not about the processes and is not changed stays as it is.
LEMMA FrameTyped ==
  ASSUME QuotaInv, ProcessesTyped', UNCHANGED <<hour, db, memory, booting>>,
         left' \in [requests : 0 .. MaxRequests, troubles : 0 .. MaxTroubles]
  PROVE  QuotaInv'
BY DEF QuotaInv, ProcessesTyped, db, memory

\* The step that empties the memory of the client.
LEMMA EmptyTyped == NotExceeded \in Exceeded /\ NoCounters \in CounterMaps
BY NoCountersTyped DEF Exceeded, NotExceeded

LEMMA ReadConfigTyped ==
  ASSUME QuotaInv, NEW p \in Process, ReadConfig(p)
  PROVE  QuotaInv'
<1>1. CASE ReadFails(p, "config")
  BY <1>1, ReturnTyped, SpendTyped, FrameTyped DEF ReadFails
<1>2. CASE Limited(config) = {} /\ Goto(p, "config", "drop") /\ UNCHANGED proc
           /\ UNCHANGED <<hour, db, memory, booting, left>>
  BY <1>2, MoveTyped, FrameTyped DEF Place, QuotaInv
<1>3. CASE Limited(config) # {} /\ Goto(p, "config", "sum")
           /\ proc' = [proc EXCEPT ![p] = [@ EXCEPT !.now = hour, !.limits = config,
                              !.counters = NoCounters, !.todo = Limited(config)]]
           /\ UNCHANGED <<hour, db, memory, booting, left>>
  <2> DEFINE l == [proc[p] EXCEPT !.now = hour, !.limits = config,
                              !.counters = NoCounters, !.todo = Limited(config)]
  <2>1. config \in Limits /\ Limited(config) \in SUBSET Dim
    BY <1>3 DEF QuotaInv, Limited
  <2>2. proc[p] \in Local /\ hour \in Hour /\ proc[p].at <= hour
    BY DEF QuotaInv
  <2>3. l \in Local /\ l.at = proc[p].at
    BY <2>1, <2>2, NoCountersTyped DEF Local
  <2>4. ProcessesTyped'
    BY <1>3, <2>2, <2>3, MoveTyped DEF Place
  <2>. QED  BY <1>3, <2>4, FrameTyped DEF QuotaInv
<1>. QED  BY <1>1, <1>2, <1>3 DEF ReadConfig

LEMMA DropTyped ==
  ASSUME QuotaInv, NEW p \in Process, Drop(p)
  PROVE  QuotaInv'
<1>1. ProcessesTyped'
  BY ReturnTyped DEF Drop
<1>. QED  BY <1>1, EmptyTyped DEF Drop, db, QuotaInv, ProcessesTyped

\* A dimension summed up is a counter.
LEMMA SumTyped ==
  ASSUME QuotaInv, NEW p \in Process, Sum(p)
  PROVE  QuotaInv'
<1> DEFINE l == proc[p]
           d == First(l.todo)
           now == l.now
           sum == [limit |-> l.limits[d], used |-> Spent(d, now), resetsAt |-> NextResetAt(d, now)]
           cc == l.counters
           added == [e \in DOMAIN cc \cup {d} |-> IF e = d THEN sum ELSE cc[e]]
           rest == l.todo \ {d}
<1>1. l \in Local /\ l.at <= hour /\ hour \in Hour
  BY DEF QuotaInv
<1>2. d \in Dim /\ now \in Hour /\ l.limits \in Limits /\ cc \in CounterMaps /\ rest \in SUBSET Dim
  <2>1. l.todo \in SUBSET Dim /\ l.todo # {}  BY <1>1 DEF Local, Sum
  <2>. QED  BY <1>1, <2>1, FirstIsIn DEF Local
<1>3. sum \in Counter
  <2>1. Spent(d, now) \in Nat  BY <1>2, SpentTyped DEF QuotaInv
  <2>2. NextResetAt(d, now) \in Nat  BY <1>2, PeriodTyped
  <2>3. l.limits[d] \in Nat  BY <1>2, QuotaAssumption
  <2>. QED  BY <2>1, <2>2, <2>3 DEF Counter
<1>4. added \in CounterMaps
  <2> HIDE DEF sum, d
  <2>1. IsCounters(cc)  BY <1>2, CounterMapsAre
  <2>2. IsCounters(added)  BY <1>2, <1>3, <2>1 DEF IsCounters
  <2>. QED  BY <2>2, CounterMapsAre
<1>5. Goto(p, "sum", "sum") /\ UNCHANGED <<hour, db, memory, booting>>
  BY DEF Sum
<1>6. \/ proc' = [proc EXCEPT ![p] = [l EXCEPT !.todo = rest, !.counters = added]] /\ UNCHANGED left
      \/ proc' = [proc EXCEPT ![p] = [l EXCEPT !.todo = rest]] /\ Spend("troubles")
  <2>1. \/ proc' = [proc EXCEPT ![p].todo = @ \ {d}, ![p].counters = added] /\ UNCHANGED left
        \/ proc' = [proc EXCEPT ![p].todo = @ \ {d}] /\ Spend("troubles")
    BY DEF Sum
  <2>2. p \in DOMAIN proc  BY DEF QuotaInv
  <2>. HIDE DEF d, added
  <2>. QED  BY <2>1, <2>2
<1> HIDE DEF added, rest, d, cc
<1>7. /\ [l EXCEPT !.todo = rest, !.counters = added] \in Local
      /\ [l EXCEPT !.todo = rest, !.counters = added].at = l.at
      /\ [l EXCEPT !.todo = rest] \in Local
      /\ [l EXCEPT !.todo = rest].at = l.at
  BY <1>1, <1>2, <1>4 DEF Local
<1>8. ProcessesTyped' /\ left' \in [requests : 0 .. MaxRequests, troubles : 0 .. MaxTroubles]
  BY <1>1, <1>5, <1>6, <1>7, MoveTyped, SpendTyped DEF Place, QuotaInv
<1>. QED  BY <1>5, <1>8, FrameTyped

LEMMA StoreTyped ==
  ASSUME QuotaInv, NEW p \in Process, Store(p)
  PROVE  QuotaInv'
<1>1. ProcessesTyped'
  BY ReturnTyped DEF Store
<1>2. proc[p].counters \in CounterMaps
  BY DEF QuotaInv, Local
<1>3. counters' \in CounterMaps /\ exceeded' \in Exceeded /\ loaded' = TRUE
  BY <1>2, ExceededByTyped DEF Store
<1>. QED  BY <1>1, <1>3 DEF Store, db, QuotaInv, ProcessesTyped

LEMMA EvaluateTyped ==
  ASSUME QuotaInv, NEW p \in Process, Evaluate(p)
  PROVE  QuotaInv'
BY ReadConfigTyped, DropTyped, SumTyped, StoreTyped DEF Evaluate

\* An entry that has expired is cleared.
LEMMA ClearExpiredTyped ==
  ASSUME QuotaInv, NEW r \in Request, ClearExpired(r)
  PROVE  QuotaInv'
<1>1. ProcessesTyped'
  BY MoveTyped DEF ClearExpired, Process, Place
<1>2. counters' \in CounterMaps /\ (counters = NoCounters => counters' = NoCounters)
  <2>1. counters \in CounterMaps /\ hour \in Hour  BY DEF QuotaInv
  <2>2. counters' = Flip(counters, hour)  BY DEF ClearExpired
  <2>3. counters = NoCounters => counters' = NoCounters
    BY <2>2 DEF Flip, NoCounters
  <2>. QED  BY <2>1, <2>2, <2>3, FlipTyped
<1>. QED  BY <1>1, <1>2, EmptyTyped DEF ClearExpired, QuotaInv, ProcessesTyped, db

LEMMA StampTyped ==
  ASSUME QuotaInv, NEW r \in Request, Stamp(r)
  PROVE  QuotaInv'
<1> DEFINE l == [proc[r] EXCEPT !.now = hour]
<1>1. proc[r] \in Local /\ hour \in Hour /\ proc[r].at <= hour /\ r \in Process /\ r \in DOMAIN proc
  BY DEF QuotaInv, Process
<1>2. l \in Local /\ l.at <= hour
  BY <1>1 DEF Local
<1>3. Goto(r, "upstream", "record") /\ proc' = [proc EXCEPT ![r] = l]
      /\ UNCHANGED <<hour, db, memory, booting, left>>
  BY <1>1 DEF Stamp
<1>4. ProcessesTyped'
  BY <1>1, <1>2, <1>3, MoveTyped DEF Place
<1>. QED  BY <1>3, <1>4, FrameTyped DEF QuotaInv

LEMMA RecordTyped ==
  ASSUME QuotaInv, NEW r \in Request, Record(r)
  PROVE  QuotaInv'
<1>1. ProcessesTyped'
  BY MoveTyped DEF Record, Process, Place
<1>2. ledger' \in [Hour -> Nat] /\ left' \in [requests : 0 .. MaxRequests, troubles : 0 .. MaxTroubles]
  BY SpendTyped DEF Record, QuotaInv
<1>. QED  BY <1>1, <1>2 DEF Record, QuotaInv, ProcessesTyped, memory

LEMMA IncrementTyped ==
  ASSUME QuotaInv, NEW r \in Request, Increment(r)
  PROVE  QuotaInv'
<1>1. r \in Process /\ hour \in Hour /\ hour \in Nat /\ counters \in CounterMaps
  BY BoundAssumption DEF QuotaInv, Process, Hour
<1>2. CASE loaded
  <2>1. Leave(r, "charge") /\ Charge(counters, hour) /\ UNCHANGED <<hour, db, loaded, booting, left>>
    BY <1>2 DEF Increment
  <2>2. ProcessesTyped' /\ counters' \in CounterMaps /\ exceeded' \in Exceeded
    BY <1>1, <2>1, LeaveTyped, ChargeTyped
  <2>. QED  BY <1>2, <2>1, <2>2 DEF QuotaInv, ProcessesTyped, db
<1>3. CASE ~loaded
  <2> DEFINE l == [proc[r] EXCEPT !.at = hour]
  <2>1. proc[r] \in Local /\ r \in DOMAIN proc
    BY <1>1 DEF QuotaInv
  <2>2. l \in Local /\ l.at <= hour
    BY <1>1, <2>1 DEF Local
  <2>3. Goto(r, "charge", "config") /\ proc' = [proc EXCEPT ![r] = l]
        /\ UNCHANGED <<hour, db, memory, booting, left>>
    BY <1>3, <2>1 DEF Increment, memory
  <2>4. ProcessesTyped'
    BY <1>1, <2>2, <2>3, MoveTyped DEF Place
  <2>. QED  BY <2>3, <2>4, FrameTyped DEF QuotaInv
<1>. QED  BY <1>2, <1>3

\* Counters made from the limits of the client alone.
LEMMA StartedTyped ==
  ASSUME QuotaInv, Limited(config) # {}
  PROVE  [d \in Limited(config) |->
            [limit |-> config[d], used |-> 0, resetsAt |-> NextResetAt(d, hour)]] \in CounterMaps
<1> DEFINE new(d) == [limit |-> config[d], used |-> 0, resetsAt |-> NextResetAt(d, hour)]
<1>1. config \in Limits /\ Limited(config) \in SUBSET Dim /\ hour \in Hour
  BY DEF QuotaInv, Limited
<1>2. ASSUME NEW d \in Limited(config) PROVE new(d) \in Counter
  <2>1. d \in Dim  BY <1>1
  <2>2. config[d] \in Nat /\ NextResetAt(d, hour) \in Nat
    BY <1>1, <2>1, QuotaAssumption, PeriodTyped
  <2>. QED  BY <2>2 DEF Counter
<1> HIDE DEF new
<1>3. [d \in Limited(config) |-> new(d)] \in CounterMaps
  BY <1>1, <1>2 DEF CounterMaps
<1>. QED  BY <1>3 DEF new

LEMMA IncrementAgainTyped ==
  ASSUME QuotaInv, NEW r \in Request, IncrementAgain(r)
  PROVE  QuotaInv'
<1>1. r \in Process /\ proc[r].at \in Hour /\ counters \in CounterMaps
  BY DEF QuotaInv, Process, Local
<1>2. ProcessesTyped' /\ UNCHANGED <<hour, db, booting>>
  BY <1>1, LeaveTyped DEF IncrementAgain
<1>3. CASE \E cc \in CounterMaps : Charge(cc, proc[r].at) /\ loaded' = TRUE /\ UNCHANGED left
  <2>1. counters' \in CounterMaps /\ exceeded' \in Exceeded
    BY <1>1, <1>3, ChargeTyped
  <2>. QED  BY <1>2, <1>3, <2>1 DEF QuotaInv, ProcessesTyped, db
<1>4. CASE UNCHANGED memory /\ (Spend("troubles") \/ UNCHANGED left)
  <2>1. left' \in [requests : 0 .. MaxRequests, troubles : 0 .. MaxTroubles]
    BY <1>4, SpendTyped DEF QuotaInv
  <2>. QED  BY <1>2, <1>4, <2>1, FrameTyped
<1>5. CASE loaded
  BY <1>1, <1>3, <1>5 DEF IncrementAgain
<1>6. CASE ~loaded
  BY <1>3, <1>4, <1>6, StartedTyped DEF IncrementAgain
<1>. QED  BY <1>5, <1>6

LEMMA HandleTyped ==
  ASSUME QuotaInv, NEW r \in Request, Handle(r)
  PROVE  QuotaInv'
<1>1. CASE CostsNothing(r)
  <2>1. r \in Process  BY DEF Process
  <2>2. ProcessesTyped'  BY <1>1, <2>1, LeaveTyped DEF CostsNothing
  <2>. QED  BY <1>1, <2>2, FrameTyped DEF CostsNothing, QuotaInv
<1>2. CASE Evaluate(r)
  BY <1>2, EvaluateTyped DEF Process
<1>. QED  BY <1>1, <1>2, ClearExpiredTyped, StampTyped, RecordTyped, IncrementTyped,
             IncrementAgainTyped DEF Handle

LEMMA CheckTyped ==
  ASSUME QuotaInv, NEW r \in Request, Check(r)
  PROVE  QuotaInv'
<1> DEFINE to == IF exceeded.dim = 0 THEN "upstream" ELSE "clear"
<1>1. r \in Process /\ to \in Place
  BY DEF Process, Place
<1>2. Goto(r, "idle", to) /\ Spend("requests") /\ UNCHANGED <<hour, db, memory, booting, proc>>
  BY DEF Check
<1> HIDE DEF to
<1>3. ProcessesTyped'
  BY <1>1, <1>2, MoveTyped
<1>. QED  BY <1>2, <1>3, FrameTyped, SpendTyped

LEMMA ChangeClientTyped ==
  ASSUME QuotaInv, NEW a \in Admin, ChangeClient(a)
  PROVE  QuotaInv'
<1>1. ProcessesTyped'
  BY MoveTyped DEF ChangeClient, Process, Place
<1>2. left' \in [requests : 0 .. MaxRequests, troubles : 0 .. MaxTroubles]
  BY SpendTyped DEF ChangeClient
<1>3. config' \in Limits \cup {Deleted}
  BY DEF ChangeClient
<1>. QED  BY <1>1, <1>2, <1>3 DEF ChangeClient, QuotaInv, ProcessesTyped, memory

LEMMA CalibrationTyped ==
  ASSUME QuotaInv, Calibration
  PROVE  QuotaInv'
<1>1. Calibrator \in Process
  BY DEF Process
<1>2. CASE Calibrate
  <2>1. "idle" \in Place /\ "config" \in Place
    BY DEF Place
  <2>2. PICK to \in Place : Goto(Calibrator, "list", to) /\ (Spend("troubles") \/ UNCHANGED left)
    BY <1>2, <2>1 DEF Calibrate
  <2>3. UNCHANGED <<hour, db, memory, booting, proc>>
    BY <1>2 DEF Calibrate
  <2>4. ProcessesTyped'
    BY <1>1, <2>2, <2>3, MoveTyped
  <2>. QED  BY <2>2, <2>3, <2>4, FrameTyped, SpendTyped DEF QuotaInv
<1>. QED  BY <1>1, <1>2, EvaluateTyped DEF Calibration

LEMMA TimeoutTyped ==
  ASSUME QuotaInv, PreloadTimeout
  PROVE  QuotaInv'
<1>1. ProcessesTyped'
  BY MoveTyped DEF PreloadTimeout, Process, Place
<1>. QED  BY <1>1, FrameTyped DEF PreloadTimeout, QuotaInv

LEMMA TickTyped ==
  ASSUME QuotaInv, Tick
  PROVE  QuotaInv'
<1>1. hour \in Nat /\ hour' = hour + 1 /\ hour' \in Hour
  BY BoundAssumption DEF QuotaInv, Tick, Hour
<1>2. proc' = proc /\ \A p \in Process : proc[p].at \in Nat
  BY BoundAssumption DEF QuotaInv, Tick, Local, Hour
<1>3. \A p \in Process : proc'[p].at <= hour'
  BY <1>1, <1>2 DEF QuotaInv
<1>4. pc' \in [Process -> Place]
  BY DEF QuotaInv, Tick, Place
<1>. QED  BY <1>1, <1>2, <1>3, <1>4 DEF Tick, QuotaInv, db, memory

LEMMA RestartTyped ==
  ASSUME QuotaInv, Restart
  PROVE  QuotaInv'
<1>1. pc' \in [Process -> Place] /\ proc' \in [Process -> Local] /\ \A p \in Process : proc'[p].at = 0
  BY FreshTyped DEF Restart, Boot, Place
<1>2. hour \in Nat
  BY BoundAssumption DEF QuotaInv, Hour
<1>3. \A p \in Process : proc'[p].at <= hour
  BY <1>1, <1>2
<1>4. left' \in [requests : 0 .. MaxRequests, troubles : 0 .. MaxTroubles]
  BY SpendTyped DEF Restart
<1>5. /\ loaded' = FALSE /\ counters' = NoCounters /\ exceeded' = NotExceeded
      /\ booting' = TRUE /\ UNCHANGED <<hour, config, ledger>>
  BY DEF Restart, Boot, db
<1>. QED  BY <1>1, <1>3, <1>4, <1>5, EmptyTyped DEF QuotaInv

\* Every step keeps it.
LEMMA QuotaInvInductive ==
  ASSUME QuotaInv, [Next]_vars
  PROVE  QuotaInv'
<1>1. ASSUME NEW r \in Request, Check(r) \/ Handle(r)
      PROVE  QuotaInv'
  BY <1>1, CheckTyped, HandleTyped
<1>2. ASSUME NEW a \in Admin, ChangeClient(a) \/ Evaluate(a)
      PROVE  QuotaInv'
  <2>1. a \in Process  BY DEF Process
  <2>. QED  BY <1>2, <2>1, ChangeClientTyped, EvaluateTyped
<1>3. CASE Serve
  BY <1>3 DEF Serve, QuotaInv, db, memory
<1>4. CASE UNCHANGED vars
  BY <1>4 DEF vars, QuotaInv, db, memory
<1>. QED  BY <1>1, <1>2, <1>3, <1>4, CalibrationTyped, TimeoutTyped, TickTyped, RestartTyped DEF Next

LEMMA QuotaInvInitial == Init => QuotaInv
<1> SUFFICES ASSUME Init PROVE QuotaInv  OBVIOUS
<1>1. 0 \in Hour /\ \A h \in Hour : 0 <= h
  BY BoundAssumption DEF Hour
<1>2. pc \in [Process -> Place] /\ proc \in [Process -> Local] /\ \A p \in Process : proc[p].at = 0
  BY FreshTyped DEF Init, Place
<1>3. ledger \in [Hour -> Nat]
  BY DEF Init
<1>4. hour \in Hour /\ left \in [requests : 0 .. MaxRequests, troubles : 0 .. MaxTroubles]
  <2>1. PICK s \in Starts : hour = s[1] /\ left = [requests |-> s[2], troubles |-> MaxTroubles]
    BY DEF Init
  <2>2. s[1] \in Hour /\ s[2] \in 0 .. MaxRequests
    BY BoundAssumption
  <2>. QED  BY <2>1, <2>2, BoundAssumption
<1>5. /\ config \in Limits /\ loaded = FALSE /\ counters = NoCounters
      /\ exceeded = NotExceeded /\ booting = TRUE
  BY DEF Init
<1>6. \A p \in Process : proc[p].at <= hour
  BY <1>1, <1>2, <1>4
<1>. QED  BY <1>1, <1>2, <1>3, <1>4, <1>5, <1>6, EmptyTyped DEF QuotaInv

LEMMA QuotaInvariant == Spec => []QuotaInv
BY QuotaInvInitial, QuotaInvInductive, PTL DEF Spec

\* The state keeps its shape: whatever an evaluation that was overtaken writes
\* back, counters count dimensions, with limits, amounts and hours.
THEOREM QuotaTypeCorrect == Spec => []TypeOK
<1>1. QuotaInv => TypeOK
  <2> SUFFICES ASSUME QuotaInv PROVE TypeOK  OBVIOUS
  <2>1. ASSUME NEW p \in Process PROVE IsLocal(proc[p])
    BY CounterMapsAre DEF QuotaInv, Local, IsLocal
  <2>. QED  BY <2>1, CounterMapsAre DEF QuotaInv, TypeOK, Place
<1>. QED  BY <1>1, QuotaInvariant, PTL
----------------------------------------------------------------------------
(* What is counted is kept. *)

\* One step of it.
KeepsCount ==
  \A d \in DOMAIN counters \cap DOMAIN counters' :
    counters'[d].used < counters[d].used
      => \/ counters[d].resetsAt <= hour
         \/ \E p \in Process : pc[p] = "sum" /\ pc'[p] # "sum"

\* An evaluation that writes counters has summed them up.
LEMMA EvaluateKeepsCount ==
  ASSUME QuotaInv, NEW p \in Process, Evaluate(p)
  PROVE  KeepsCount
<1>1. CASE UNCHANGED counters
  <2>1. \A d \in DOMAIN counters : counters[d].used \in Nat
    BY CounterMapsAre DEF QuotaInv, IsCounters, Counter
  <2>. QED  BY <1>1, <2>1 DEF KeepsCount
<1>2. CASE Drop(p)
  BY <1>2, NoCountersTyped DEF Drop, KeepsCount
<1>3. CASE Store(p)
  <2>1. pc[p] = "sum" /\ pc'[p] # "sum"
    BY <1>3 DEF Store, Return, Leave, Goto, QuotaInv
  <2>. QED  BY <2>1 DEF KeepsCount
<1>. QED  BY <1>1, <1>2, <1>3 DEF Evaluate, ReadConfig, ReadFails, Sum, memory

\* A charge resets no counter whose period lasts, at the hour at which it is
\* made or at one before.
LEMMA ChargeKeepsCount ==
  ASSUME QuotaInv, NEW h \in Hour, h <= hour, Charge(counters, h)
  PROVE  KeepsCount
<1>1. h \in Nat /\ hour \in Nat /\ counters \in CounterMaps
  BY BoundAssumption DEF QuotaInv, Hour
<1>2. ASSUME NEW d \in DOMAIN counters PROVE counters[d].used \in Nat /\ counters[d].resetsAt \in Nat
  BY <1>1, CounterMapsAre DEF IsCounters, Counter
<1>3. ASSUME NEW d \in DOMAIN counters, ~(counters[d].resetsAt <= hour)
      PROVE  counters'[d].used = counters[d].used + 1
  <2>1. counters[d].resetsAt > h  BY <1>1, <1>2, <1>3
  <2>. QED  BY <1>1, <2>1, ChargeTyped
<1>4. ASSUME NEW d \in DOMAIN counters, counters'[d].used < counters[d].used
      PROVE  counters[d].resetsAt <= hour
  BY <1>2, <1>3, <1>4
<1>. QED  BY <1>4 DEF KeepsCount

LEMMA HandleKeepsCount ==
  ASSUME QuotaInv, NEW r \in Request, Handle(r)
  PROVE  KeepsCount
<1>1. r \in Process /\ hour \in Hour /\ hour \in Nat /\ proc[r].at \in Hour /\ proc[r].at <= hour
  BY BoundAssumption DEF QuotaInv, Process, Hour, Local
<1>2. \A d \in DOMAIN counters : counters[d].used \in Nat /\ counters[d].resetsAt \in Nat
  BY CounterMapsAre DEF QuotaInv, IsCounters, Counter
<1>3. CASE UNCHANGED counters
  BY <1>2, <1>3 DEF KeepsCount
<1>4. CASE ClearExpired(r)
  <2>1. counters' = Flip(counters, hour) /\ counters \in CounterMaps
    BY <1>4 DEF ClearExpired, QuotaInv
  <2>2. \A d \in DOMAIN counters : counters[d].resetsAt > hour => counters'[d] = counters[d]
    BY <1>1, <2>1, FlipTyped
  <2>. QED  BY <1>1, <1>2, <2>2 DEF KeepsCount
<1>5. CASE Increment(r)
  BY <1>1, <1>3, <1>5, ChargeKeepsCount DEF Increment
<1>6. CASE IncrementAgain(r)
  <2>1. CASE loaded
    BY <1>1, <1>6, <2>1, ChargeKeepsCount DEF IncrementAgain
  <2>2. CASE ~loaded
    BY <2>2, NoCountersTyped DEF QuotaInv, KeepsCount
  <2>. QED  BY <2>1, <2>2
<1>7. CASE Evaluate(r)
  BY <1>1, <1>7, EvaluateKeepsCount
<1>. QED  BY <1>3, <1>4, <1>5, <1>6, <1>7 DEF Handle, CostsNothing, Stamp, Record, memory

\* What was counted in a period is not forgotten while it lasts, neither by
\* a charge with a clock read before the hour changed nor by an entry that is
\* cleared: only the reset and an evaluation of the database take it back.
THEOREM ChargesAreKept == Spec => CountedUntilReset
<1>1. QuotaInv /\ [Next]_vars => [KeepsCount]_vars
  <2> SUFFICES ASSUME QuotaInv, Next PROVE KeepsCount \/ UNCHANGED vars
    OBVIOUS
  <2>1. ASSUME UNCHANGED counters PROVE KeepsCount
    <3>1. \A d \in DOMAIN counters : counters[d].used \in Nat
      BY CounterMapsAre DEF QuotaInv, IsCounters, Counter
    <3>. QED  BY <2>1, <3>1 DEF KeepsCount
  <2>2. ASSUME NEW r \in Request, Check(r) \/ Handle(r) PROVE KeepsCount
    BY <2>1, <2>2, HandleKeepsCount DEF Check, memory
  <2>3. ASSUME NEW a \in Admin, ChangeClient(a) \/ Evaluate(a) PROVE KeepsCount
    BY <2>1, <2>3, EvaluateKeepsCount DEF ChangeClient, memory, Process
  <2>4. CASE Calibration
    BY <2>1, <2>4, EvaluateKeepsCount DEF Calibration, Calibrate, memory, Process
  <2>5. CASE PreloadTimeout \/ Serve \/ Tick
    BY <2>1, <2>5 DEF PreloadTimeout, Serve, Tick, memory
  <2>6. CASE Restart
    BY <2>6, NoCountersTyped DEF Restart, Boot, KeepsCount
  <2>. QED  BY <2>2, <2>3, <2>4, <2>5, <2>6 DEF Next
<1>. QED  BY <1>1, QuotaInvariant, PTL DEF Spec, CountedUntilReset, KeepsCount
=============================================================================
