--------------------------- MODULE KeyRetryProofs ---------------------------
(***************************************************************************)
(* Theorems about KeyPool and about KeyRetry, which extends it, for any    *)
(* number of requests, keys and clients and any durations.  The first part *)
(* is about the steps of the pool, whoever takes them; the second about    *)
(* the requests and the wake-up that take them.                            *)
(***************************************************************************)
EXTENDS KeyRetry, FiniteSetTheorems, TLAPS

----------------------------------------------------------------------------
(* The scans return what they look for. *)

LEMMA NatMin ==
  ASSUME NEW S \in SUBSET Nat, S # {}
  PROVE  \E x \in S : \A y \in S : x <= y
<1> DEFINE R == OpToRel(<, Nat)
<1>1. PICK x \in S : \A y \in S : ~(<<y, x>> \in R)
  BY NatLessThanWellFounded, WFMin
<1>2. ASSUME NEW y \in S PROVE x <= y
  <2>1. x \in Nat /\ y \in Nat  OBVIOUS
  <2>2. ~(<<y, x>> \in R)  BY <1>1
  <2>3. ~(y < x)  BY <2>1, <2>2 DEF OpToRel
  <2>. QED  BY <2>1, <2>3
<1>. QED  BY <1>2

\* FirstFrom walks the entries to a member of the set.
LEMMA FirstFromIn ==
  ASSUME NEW start \in Int, NEW S \in SUBSET Key, S # {}
  PROVE  FirstFrom(start, S) \in S
<1> DEFINE Dist(j) == (j - start + N) % N
<1> DEFINE D == {Dist(j) : j \in S}
<1>1. \A j \in S : Dist(j) \in Nat
  BY KeysAssumption DEF Key
<1>2. D \in SUBSET Nat /\ D # {}
  BY <1>1
<1>3. PICK d \in D : \A e \in D : d <= e
  BY <1>2, NatMin
<1>4. PICK k \in S : d = Dist(k)
  OBVIOUS
<1>5. \A j \in S : Dist(k) <= Dist(j)
  BY <1>3, <1>4
<1>6. \E m \in S : \A j \in S : (m - start + N) % N <= (j - start + N) % N
  BY <1>5
<1>. QED  BY <1>6 DEF FirstFrom

\* The least loaded active key exists whenever some key is active: first
\* the fewest requests in flight, then the fewest tokens, then the index.
LEMMA BestActiveIn ==
  ASSUME PoolTypeOK, ActiveKeys # {}
  PROVE  BestActive \in ActiveKeys
<1>0. /\ ActiveKeys \in SUBSET Key /\ Key \in SUBSET Nat
      /\ \A k \in Key : inFlight[k] \in Nat /\ tokens[k] \in Nat
  BY KeysAssumption, BoundsAssumption DEF PoolTypeOK, ActiveKeys, Key
<1> DEFINE F == {inFlight[k] : k \in ActiveKeys}
<1>1. PICK f \in F : \A e \in F : f <= e
  <2>1. F \in SUBSET Nat /\ F # {}  BY <1>0
  <2>. QED  BY <2>1, NatMin
<1> DEFINE A == {k \in ActiveKeys : inFlight[k] = f}
<1> DEFINE T == {tokens[k] : k \in A}
<1>2. PICK t \in T : \A e \in T : t <= e
  <2>1. T \in SUBSET Nat /\ T # {}  BY <1>0
  <2>. QED  BY <2>1, NatMin
<1> DEFINE B == {k \in A : tokens[k] = t}
<1>3. PICK k \in B : \A j \in B : k <= j
  <2>1. B \in SUBSET Nat /\ B # {}  BY <1>0
  <2>. QED  BY <2>1, NatMin
<1>4. k \in ActiveKeys /\ inFlight[k] = f /\ tokens[k] = t
  OBVIOUS
<1>5. ASSUME NEW j \in ActiveKeys
      PROVE  ~LessLoaded(j, k) /\ (j < k => LessLoaded(k, j))
  <2>1. /\ j \in Nat /\ k \in Nat
        /\ inFlight[j] \in Nat /\ inFlight[k] \in Nat
        /\ tokens[j] \in Nat /\ tokens[k] \in Nat
    BY <1>0, <1>4
  <2>2. f <= inFlight[j]
    BY <1>1
  <2>3. inFlight[j] = f => t <= tokens[j]
    BY <1>2
  <2>4. inFlight[j] = f /\ tokens[j] = t => k <= j
    BY <1>3
  <2>. QED  BY <1>4, <2>1, <2>2, <2>3, <2>4 DEF LessLoaded
<1>6. \E m \in ActiveKeys :
        \A j \in ActiveKeys : ~LessLoaded(j, m) /\ (j < m => LessLoaded(m, j))
  BY <1>4, <1>5
<1>. QED  BY <1>6 DEF BestActive

----------------------------------------------------------------------------
(* Types and the capacity of the affinity table. *)

PoolInv == PoolTypeOK /\ AffinityWithinCapacity

\* What a call other than Bind keeps of the affinity table.
LEMMA AffinityKept ==
  ASSUME AffinityWithinCapacity, bound' = bound
  PROVE  AffinityWithinCapacity'
BY DEF AffinityWithinCapacity, BoundClients

\* bindLocked keeps the table well formed and within its capacity.
LEMMA BindKeeps ==
  ASSUME PoolInv, NEW c \in Client, NEW k \in Key \cup {NoKey}, Bind(c, k)
  PROVE  /\ bound' \in [Client -> Key \cup {NoKey}]
         /\ idle' \in [Client -> 0 .. AffinityTTL]
         /\ AffinityWithinCapacity'
<1>0. /\ bound \in [Client -> Key \cup {NoKey}]
      /\ idle \in [Client -> 0 .. AffinityTTL]
      /\ AffinityTTL \in Nat /\ MaxAffinity \in Nat \ {0}
  BY TimeAssumption, BoundsAssumption DEF PoolInv, PoolTypeOK
<1>1. PICK E \in IF bound[c] = NoKey THEN Evictions ELSE {{}} :
        /\ bound' = [d \in Client |->
                       IF d = c THEN k ELSE IF d \in E THEN NoKey ELSE bound[d]]
        /\ idle' = [d \in Client |-> IF d = c \/ d \in E THEN 0 ELSE idle[d]]
  BY DEF Bind
<1>2. bound' \in [Client -> Key \cup {NoKey}] /\ idle' \in [Client -> 0 .. AffinityTTL]
  BY <1>0, <1>1
<1>3. IsFiniteSet(BoundClients) /\ Cardinality(BoundClients) <= MaxAffinity
      /\ Cardinality(BoundClients) \in Nat
  BY ClientAssumption, FS_Subset, FS_CardinalityType
     DEF BoundClients, PoolInv, AffinityWithinCapacity
<1>4. CASE bound[c] # NoKey
  <2>1. BoundClients' \in SUBSET BoundClients
    BY <1>1, <1>4 DEF BoundClients
  <2>2. IsFiniteSet(BoundClients') /\ Cardinality(BoundClients') <= Cardinality(BoundClients)
        /\ Cardinality(BoundClients') \in Nat
    BY <1>3, <2>1, FS_Subset, FS_CardinalityType
  <2>. QED  BY <1>0, <1>2, <1>3, <2>2 DEF AffinityWithinCapacity
<1>5. CASE bound[c] = NoKey
  <2> DEFINE kept == BoundClients \ E
  <2>1. IsFiniteSet(kept) /\ Cardinality(kept) \in Nat
    BY <1>3, FS_Difference, FS_CardinalityType
  <2>2. Cardinality(kept) < MaxAffinity
    <3>1. CASE Cardinality(BoundClients) < MaxAffinity
      <4>1. E = {}  BY <1>1, <1>5, <3>1 DEF Evictions
      <4>2. kept = BoundClients  BY <4>1
      <4>. QED  BY <3>1, <4>2
    <3>2. CASE ~(Cardinality(BoundClients) < MaxAffinity)
      BY <1>1, <1>5, <3>2 DEF Evictions
    <3>. QED  BY <3>1, <3>2
  <2>3. BoundClients' \in SUBSET (kept \cup {c})
    BY <1>1 DEF BoundClients
  <2>4. IsFiniteSet(kept \cup {c}) /\ Cardinality(kept \cup {c}) <= Cardinality(kept) + 1
        /\ Cardinality(kept \cup {c}) \in Nat
    <3>1. IsFiniteSet(kept \cup {c})
          /\ Cardinality(kept \cup {c}) =
               IF c \in kept THEN Cardinality(kept) ELSE Cardinality(kept) + 1
      BY <2>1, FS_AddElement
    <3>. QED  BY <2>1, <3>1
  <2>5. IsFiniteSet(BoundClients') /\ Cardinality(BoundClients') <= Cardinality(kept \cup {c})
        /\ Cardinality(BoundClients') \in Nat
    BY <2>3, <2>4, FS_Subset, FS_CardinalityType
  <2>6. Cardinality(BoundClients') <= MaxAffinity
    BY <1>0, <2>1, <2>2, <2>4, <2>5
  <2>. QED  BY <1>2, <2>6 DEF AffinityWithinCapacity
<1>. QED  BY <1>4, <1>5

\* Recovering a key keeps the types, and so does exhausting it.
LEMMA HealthKept ==
  ASSUME PoolTypeOK, NEW k \in Key \cup {NoKey}
  PROVE  /\ Recover(k) => /\ reason' \in [Key -> Reason]
                          /\ cool' \in [Key -> 0 .. Permanent]
         /\ \A code \in Code \cup {"rate_limited"} :
              ExhaustWithCode(k, code) => /\ reason' \in [Key -> Reason]
                                          /\ cool' \in [Key -> 0 .. Permanent]
<1>0. /\ reason \in [Key -> Reason] /\ cool \in [Key -> 0 .. Permanent]
      /\ Permanent \in Nat /\ "none" \in Reason
  BY TimeAssumption DEF PoolTypeOK, Reason
<1>1. \A why \in Reason, time \in 0 .. Permanent :
        /\ [reason EXCEPT ![k] = why] \in [Key -> Reason]
        /\ [cool EXCEPT ![k] = time] \in [Key -> 0 .. Permanent]
  BY <1>0
<1>2. Recover(k) => reason' \in [Key -> Reason] /\ cool' \in [Key -> 0 .. Permanent]
  <2>1. 0 \in 0 .. Permanent  BY <1>0
  <2>. QED  BY <1>0, <1>1, <2>1 DEF Recover
<1>3. ASSUME NEW code \in Code \cup {"rate_limited"}, ExhaustWithCode(k, code)
      PROVE  reason' \in [Key -> Reason] /\ cool' \in [Key -> 0 .. Permanent]
  <2>1. /\ \A t \in ResetIn : t \in 0 .. Permanent
        /\ RateLimitCooldown \in 0 .. Permanent /\ HardCooldown \in 0 .. Permanent
        /\ Permanent \in 0 .. Permanent
    BY TimeAssumption
  <2>2. code # "quota_exceeded" => code \in Reason
    BY CodeAssumption DEF Reason
  <2>3. "quota_exceeded_subscription" \in Reason /\ "quota_exceeded_api" \in Reason
    BY DEF Reason
  <2>4. \A why \in Reason, time \in 0 .. Permanent :
          Exhaust(k, why, time) => /\ reason' \in [Key -> Reason]
                                   /\ cool' \in [Key -> 0 .. Permanent]
    BY <1>1 DEF Exhaust
  <2>5. CASE code = "quota_exceeded"
    <3>1. PICK t \in ResetIn :
            IF t > 0 THEN Exhaust(k, "quota_exceeded_subscription", t)
                     ELSE Exhaust(k, "quota_exceeded_api", Permanent)
      BY <1>3, <2>5 DEF ExhaustWithCode, TimedCode
    <3>. QED  BY <2>1, <2>3, <2>4, <3>1
  <2>6. CASE code # "quota_exceeded"
    <3>1. \E time \in {RateLimitCooldown, HardCooldown, Permanent} : Exhaust(k, code, time)
      BY <1>3, <2>6 DEF ExhaustWithCode
    <3>. QED  BY <2>1, <2>2, <2>4, <2>6, <3>1
  <2>. QED  BY <2>5, <2>6
<1>. QED  BY <1>2, <1>3

\* What AssignInTurn does, without its local definitions: the counter stays
\* in range and the key it binds is an active one.
LEMMA InTurnResult ==
  ASSUME PoolTypeOK, NEW c \in Client, NEW k \in Key \cup {NoKey},
         AssignInTurn(c, k)
  PROVE  rr' \in 0 .. CounterWrap - 1 /\ k \in ActiveKeys
<1> DEFINE At(d) == ((rr + d) % CounterWrap) % N
           hits == {d \in 0 .. N - 1 : At(d) \in ActiveKeys}
           first == CHOOSE d \in hits : \A e \in hits : d <= e
           seen == IF hits # {} THEN first + 1 ELSE N
<1>0. /\ N \in Nat /\ N >= 2 /\ CounterWrap \in Nat \ {0} /\ rr \in Nat
      /\ ActiveKeys # {} /\ ActiveKeys \in SUBSET Key
  BY KeysAssumption, BoundsAssumption DEF PoolTypeOK, AssignInTurn, ActiveKeys
<1>1. /\ rr' = (rr + seen) % CounterWrap
      /\ k = IF hits # {} THEN At(first) ELSE FirstFrom(rr' % N, ActiveKeys)
  BY DEF AssignInTurn
<1>2. hits # {} => first \in hits
  <2>1. SUFFICES ASSUME hits # {} PROVE \E d \in hits : \A e \in hits : d <= e
    OBVIOUS
  <2>2. hits \in SUBSET Nat  BY <1>0
  <2>. QED  BY <2>1, <2>2, NatMin
<1>3. seen \in Nat
  BY <1>0, <1>2
<1>4. rr' \in 0 .. CounterWrap - 1
  <2> HIDE DEF seen
  <2>. QED  BY <1>0, <1>1, <1>3
<1>5. CASE hits # {}
  BY <1>1, <1>2, <1>4, <1>5
<1>6. CASE hits = {}
  <2>1. rr' % N \in Int  BY <1>0, <1>4
  <2>2. FirstFrom(rr' % N, ActiveKeys) \in ActiveKeys
    BY <1>0, <2>1, FirstFromIn
  <2>. QED  BY <1>1, <1>4, <1>6, <2>2
<1>. QED  BY <1>5, <1>6

\* The methods of the pool keep the invariant, whoever calls them.
LEMMA SelectKeyKeeps ==
  ASSUME PoolInv, NEW k \in Key \cup {NoKey}, SelectKey(k)
  PROVE  PoolInv'
<1>0. PoolTypeOK /\ AffinityWithinCapacity  BY DEF PoolInv
<1>1. CASE SelectInTurn(k)
  <2>1. rr' \in 0 .. CounterWrap - 1
    BY <1>0, <1>1, BoundsAssumption DEF SelectInTurn, PoolTypeOK
  <2>. QED
    BY <1>0, <1>1, <2>1, AffinityKept
    DEF SelectInTurn, PoolInv, PoolTypeOK, health, load, affinity
<1>2. CASE SelectExpired(k)
  BY <1>0, <1>2, HealthKept, AffinityKept
  DEF SelectExpired, PoolInv, PoolTypeOK, load, affinity
<1>3. CASE SelectDesperate(k)
  BY <1>0, <1>3, AffinityKept
  DEF SelectDesperate, PoolInv, PoolTypeOK, poolVars, health, load, affinity
<1>. QED  BY <1>1, <1>2, <1>3 DEF SelectKey

\* So does the search for the next active key, which may recover one.
LEMMA SelectNextActiveKeyKeeps ==
  ASSUME PoolInv, NEW after \in Key, NEW k \in Key \cup {NoKey},
         SelectNextActiveKey(after, k)
  PROVE  PoolInv'
<1>0. PoolTypeOK /\ AffinityWithinCapacity  BY DEF PoolInv
<1>1. CASE SelectExpired(k)
  BY <1>0, <1>1, HealthKept, AffinityKept
  DEF SelectExpired, PoolInv, PoolTypeOK, load, affinity
<1>2. CASE UNCHANGED poolVars
  BY <1>0, <1>2, AffinityKept
  DEF PoolInv, PoolTypeOK, poolVars, health, load, affinity
<1>. QED  BY <1>1, <1>2 DEF SelectNextActiveKey

\* So does every way selectKeyForClient picks a key and binds the client.
LEMMA SelectKeyForClientKeeps ==
  ASSUME PoolInv, NEW c \in Client, NEW k \in Key \cup {NoKey},
         SelectKeyForClient(c, k)
  PROVE  PoolInv'
<1>0. PoolTypeOK /\ AffinityWithinCapacity  BY DEF PoolInv
<1>1. CASE UNCHANGED poolVars
  BY <1>0, <1>1, AffinityKept
  DEF PoolInv, PoolTypeOK, poolVars, health, load, affinity
<1>2. CASE Bind(c, k) /\ UNCHANGED <<health, load, rr>>
  BY <1>0, <1>2, BindKeeps DEF PoolInv, PoolTypeOK, health, load
<1>3. CASE AssignInTurn(c, k)
  BY <1>0, <1>3, BindKeeps, InTurnResult
  DEF AssignInTurn, PoolInv, PoolTypeOK, health, load
<1>4. CASE RecoverForClient(c, k)
  BY <1>0, <1>4, BindKeeps, HealthKept
  DEF RecoverForClient, PoolInv, PoolTypeOK, load
<1>. QED
  BY <1>1, <1>2, <1>3, <1>4
  DEF SelectKeyForClient, ReuseBinding, Rebalance, AssignLeastLoaded, Overflow,
      NothingForClient

\* So do the methods that exhaust, recover, block and unblock a key.
LEMMA HealthMethodsKeep ==
  ASSUME PoolInv, NEW k \in Key,
         \/ \E code \in Code \cup {"rate_limited"} : MarkExhausted(k, code)
         \/ MarkRecovered(k)
         \/ BlockKey(k)
         \/ UnblockKey(k)
  PROVE  PoolInv'
<1>0. PoolTypeOK /\ AffinityWithinCapacity  BY DEF PoolInv
<1>1. CASE \E code \in Code \cup {"rate_limited"} : MarkExhausted(k, code)
  BY <1>0, <1>1, HealthKept, AffinityKept
  DEF MarkExhausted, PoolInv, PoolTypeOK, load, affinity
<1>2. CASE MarkRecovered(k)
  BY <1>0, <1>2, HealthKept, AffinityKept
  DEF MarkRecovered, PoolInv, PoolTypeOK, load, affinity
<1>3. CASE BlockKey(k)
  BY <1>0, <1>3, AffinityKept DEF BlockKey, PoolInv, PoolTypeOK, load, affinity
<1>4. CASE UnblockKey(k)
  BY <1>0, <1>4, HealthKept, AffinityKept
  DEF UnblockKey, PoolInv, PoolTypeOK, load, affinity
<1>. QED  BY <1>1, <1>2, <1>3, <1>4

\* So do the methods that count tokens and requests in flight.
LEMMA LoadMethodsKeep ==
  ASSUME PoolInv, NEW k \in Key,
         \/ \E n \in 1 .. MaxTokens : RecordTokens(k, n)
         \/ AcquireInFlight(k)
         \/ ReleaseInFlight(k)
  PROVE  PoolInv'
<1>0. /\ PoolTypeOK /\ AffinityWithinCapacity
      /\ tokens \in [Key -> 0 .. MaxTokens] /\ MaxTokens \in Nat
      /\ inFlight \in [Key -> Nat]
  BY BoundsAssumption DEF PoolInv, PoolTypeOK
<1>1. ASSUME NEW n \in 1 .. MaxTokens, RecordTokens(k, n) PROVE PoolInv'
  <2>1. tokens[k] + n \in 0 .. MaxTokens
    BY <1>0, <1>1 DEF RecordTokens
  <2>2. tokens' \in [Key -> 0 .. MaxTokens]
    BY <1>0, <1>1, <2>1 DEF RecordTokens
  <2>. QED
    BY <1>0, <1>1, <2>2, AffinityKept
    DEF RecordTokens, PoolInv, PoolTypeOK, health, affinity
<1>2. CASE AcquireInFlight(k)
  BY <1>0, <1>2, AffinityKept
  DEF AcquireInFlight, PoolInv, PoolTypeOK, health, affinity
<1>3. CASE ReleaseInFlight(k)
  BY <1>0, <1>3, AffinityKept
  DEF ReleaseInFlight, PoolInv, PoolTypeOK, health, affinity
<1>. QED  BY <1>1, <1>2, <1>3

\* So does the passage of time.
LEMMA TickKeeps ==
  ASSUME PoolInv, Tick
  PROVE  PoolInv'
<1>0. PoolTypeOK /\ AffinityWithinCapacity  BY DEF PoolInv
<1>1. cool' \in [Key -> 0 .. Permanent]
  BY <1>0, TimeAssumption DEF Tick, PoolTypeOK
<1>2. idle' \in [Client -> 0 .. AffinityTTL]
  BY <1>0, TimeAssumption DEF Tick, PoolTypeOK
<1>. QED
  BY <1>0, <1>1, <1>2, AffinityKept DEF Tick, PoolInv, PoolTypeOK, load

\* The pool's invariant is inductive.
LEMMA PoolInvInit == PoolInit => PoolInv
<1>1. SUFFICES ASSUME PoolInit PROVE PoolInv
  OBVIOUS
<1>2. PoolTypeOK
  BY <1>1, TimeAssumption, BoundsAssumption DEF PoolInit, PoolTypeOK, Reason
<1>3. BoundClients = {}
  BY <1>1 DEF PoolInit, BoundClients
<1>4. AffinityWithinCapacity
  BY <1>3, FS_EmptySet, BoundsAssumption DEF AffinityWithinCapacity
<1>. QED  BY <1>2, <1>4 DEF PoolInv

\* Every step of the pool, by whomever, keeps the invariant.
LEMMA PoolInvStep == PoolInv /\ [PoolNext]_poolVars => PoolInv'
<1>1. SUFFICES ASSUME PoolInv, [PoolNext]_poolVars PROVE PoolInv'
  OBVIOUS
<1>2. CASE Requests
  <2>1. ASSUME NEW k \in Key \cup {NoKey},
               \/ SelectKey(k)
               \/ \E c \in Client : SelectKeyForClient(c, k)
               \/ \E after \in Key : SelectNextActiveKey(after, k)
        PROVE  PoolInv'
    BY <1>1, <2>1, SelectKeyKeeps, SelectKeyForClientKeeps, SelectNextActiveKeyKeeps
  <2>2. ASSUME NEW k \in Key,
               \/ \E code \in Code \cup {"rate_limited"} : MarkExhausted(k, code)
               \/ MarkRecovered(k)
        PROVE  PoolInv'
    BY <1>1, <2>2, HealthMethodsKeep
  <2>3. ASSUME NEW k \in Key,
               \/ AcquireInFlight(k)
               \/ ReleaseInFlight(k)
               \/ \E n \in 1 .. MaxTokens : RecordTokens(k, n)
        PROVE  PoolInv'
    BY <1>1, <2>3, LoadMethodsKeep
  <2>. QED  BY <1>2, <2>1, <2>2, <2>3 DEF Requests
<1>3. CASE Administrator
  BY <1>1, <1>3, HealthMethodsKeep DEF Administrator
<1>4. CASE Tick
  BY <1>1, <1>4, TickKeeps
<1>5. CASE UNCHANGED poolVars
  BY <1>1, <1>5, AffinityKept
  DEF PoolInv, PoolTypeOK, poolVars, health, load, affinity
<1>. QED  BY <1>1, <1>2, <1>3, <1>4, <1>5 DEF PoolNext

\* Type correctness of the pool: in particular the round-robin counter never
\* leaves its 32 bits and no cooldown outlasts the year 9999.
THEOREM PoolTypeCorrect == PoolSpec => []PoolTypeOK
<1>1. PoolInv => PoolTypeOK
  BY DEF PoolInv
<1>. QED  BY <1>1, PoolInvInit, PoolInvStep, PTL DEF PoolSpec

\* bindLocked's eviction keeps the affinity table within maxAffinityEntries
\* for any number of clients, whatever the ages of their bindings.
THEOREM AffinityBounded == PoolSpec => []AffinityWithinCapacity
<1>1. PoolInv => AffinityWithinCapacity
  BY DEF PoolInv
<1>. QED  BY <1>1, PoolInvInit, PoolInvStep, PTL DEF PoolSpec

----------------------------------------------------------------------------
(* What a call hands out and what it binds. *)

\* A key that selectKeyForClient returns is active at the end of the call.
LEMMA ClientGetsActiveKey ==
  ASSUME PoolTypeOK, NEW c \in Client, NEW k \in Key \cup {NoKey},
         SelectKeyForClient(c, k), k # NoKey
  PROVE  k \in Key /\ Active(k)'
<1>0. /\ k \in Key /\ NoKey \notin Key
      /\ reason \in [Key -> Reason] /\ bound \in [Client -> Key \cup {NoKey}]
  BY DEF Key, NoKey, PoolTypeOK
<1>1. ASSUME k \in ActiveKeys, UNCHANGED health PROVE Active(k)'
  BY <1>1 DEF ActiveKeys, Active, health
<1>2. BoundKeyActive(c) => bound[c] \in ActiveKeys /\ ActiveKeys # {}
  BY <1>0 DEF BoundKeyActive, ActiveKeys
<1>3. CASE ReuseBinding(c, k)
  BY <1>1, <1>2, <1>3 DEF ReuseBinding, poolVars
<1>4. CASE Rebalance(c, k)
  BY <1>1, <1>2, <1>4, BestActiveIn DEF Rebalance
<1>5. CASE AssignLeastLoaded(c, k)
  BY <1>1, <1>5, BestActiveIn DEF AssignLeastLoaded
<1>6. CASE AssignInTurn(c, k)
  BY <1>1, <1>6, InTurnResult DEF AssignInTurn
<1>7. CASE Overflow(c, k)
  <2>1. rr % N \in Int /\ ActiveKeys \in SUBSET Key
    BY KeysAssumption, BoundsAssumption DEF PoolTypeOK, ActiveKeys
  <2>. QED  BY <1>1, <1>7, <2>1, FirstFromIn DEF Overflow
<1>8. CASE RecoverForClient(c, k)
  <2>1. k \in ExpiredKeys
    BY <1>8, FirstFromIn DEF RecoverForClient, ExpiredKeys
  <2>. QED  BY <1>0, <1>8, <2>1 DEF RecoverForClient, Recover, ExpiredKeys, Active
<1>9. CASE NothingForClient(c, k)
  BY <1>9 DEF NothingForClient
<1>. QED
  BY <1>0, <1>3, <1>4, <1>5, <1>6, <1>7, <1>8, <1>9 DEF SelectKeyForClient

\* Only the calling client is bound, and to the key the call returns.
LEMMA OnlyTheCallerIsBound ==
  ASSUME PoolTypeOK, NEW c \in Client, NEW k \in Key \cup {NoKey},
         SelectKeyForClient(c, k), NEW d \in Client,
         bound'[d] \notin {bound[d], NoKey}
  PROVE  d = c /\ bound'[d] = k /\ k # NoKey /\ Bind(c, k)
<1>1. bound' # bound
  OBVIOUS
<1>2. Bind(c, k)
  BY <1>1
  DEF SelectKeyForClient, ReuseBinding, Rebalance, AssignLeastLoaded,
      AssignInTurn, Overflow, RecoverForClient, NothingForClient, poolVars, affinity
<1>3. \E E \in SUBSET BoundClients :
        bound' = [e \in Client |->
                    IF e = c THEN k ELSE IF e \in E THEN NoKey ELSE bound[e]]
  BY <1>2 DEF Bind, Evictions, StaleClients
<1>. QED  BY <1>2, <1>3

\* Every other step leaves the bindings alone.
LEMMA OtherStepsBindNobody ==
  ASSUME [PoolNext]_poolVars,
         ~\E c \in Client, k \in Key \cup {NoKey} : SelectKeyForClient(c, k)
  PROVE  bound' = bound
BY DEF PoolNext, Requests, Administrator, poolVars, affinity, SelectKey,
       SelectInTurn, SelectExpired, SelectDesperate, SelectNextActiveKey,
       MarkExhausted, MarkRecovered, BlockKey, UnblockKey, RecordTokens,
       AcquireInFlight, ReleaseInFlight, Tick

\* No client is ever bound to a key that is exhausted or blocked, on any of
\* the ways selectKeyForClient binds.
THEOREM BindingsAreActive == PoolSpec => BindsOnlyActiveKeys
<1> DEFINE A == \A c \in Client :
                  bound'[c] \notin {bound[c], NoKey}
                    => \E k \in Key : k = bound'[c] /\ Active(k)'
<1>1. PoolInv /\ [PoolNext]_poolVars => [A]_poolVars
  <2>1. SUFFICES ASSUME PoolInv, [PoolNext]_poolVars, NEW d \in Client,
                        bound'[d] \notin {bound[d], NoKey}
                 PROVE  \E k \in Key : k = bound'[d] /\ Active(k)'
    OBVIOUS
  <2>2. PICK c \in Client, k \in Key \cup {NoKey} : SelectKeyForClient(c, k)
    BY <2>1, OtherStepsBindNobody
  <2>3. PoolTypeOK
    BY <2>1 DEF PoolInv
  <2>4. bound'[d] = k /\ k # NoKey
    BY <2>1, <2>2, <2>3, OnlyTheCallerIsBound
  <2>. QED  BY <2>2, <2>3, <2>4, ClientGetsActiveKey
<1>. QED
  BY <1>1, PoolInvInit, PoolInvStep, PTL DEF PoolSpec, BindsOnlyActiveKeys

\* A client keeps a key that works until the rebalancing finds it a strictly
\* less loaded one.
THEOREM LiveBindingsStay == PoolSpec => LiveBindingMovesOnlyToLessLoaded
<1> DEFINE A == \A c \in Client :
                  BoundKeyActive(c) /\ bound'[c] \notin {bound[c], NoKey}
                    => /\ idle[c] >= RebalanceInterval
                       /\ LessLoaded(bound'[c], bound[c])
<1>1. PoolInv /\ [PoolNext]_poolVars => [A]_poolVars
  <2>1. SUFFICES ASSUME PoolInv, [PoolNext]_poolVars, NEW d \in Client,
                        BoundKeyActive(d), bound'[d] \notin {bound[d], NoKey}
                 PROVE  idle[d] >= RebalanceInterval /\ LessLoaded(bound'[d], bound[d])
    OBVIOUS
  <2>2. PICK c \in Client, k \in Key \cup {NoKey} : SelectKeyForClient(c, k)
    BY <2>1, OtherStepsBindNobody
  <2>3. PoolTypeOK /\ NoKey \notin Key
    BY <2>1 DEF PoolInv, Key, NoKey
  <2>4. d = c /\ bound'[d] = k /\ k # NoKey
    BY <2>1, <2>2, <2>3, OnlyTheCallerIsBound
  <2>5. ActiveKeys # {} /\ bound[d] # NoKey /\ Active(bound[d])
    BY <2>1, <2>3 DEF BoundKeyActive, ActiveKeys, PoolTypeOK
  <2>6. ReuseBinding(d, k) \/ Rebalance(d, k)
    BY <2>2, <2>4, <2>5
    DEF SelectKeyForClient, AssignLeastLoaded, AssignInTurn, Overflow,
        RecoverForClient, NothingForClient
  <2>7. k # bound[d]
    BY <2>1, <2>4
  <2>. QED  BY <2>4, <2>6, <2>7 DEF ReuseBinding, Rebalance
<1>. QED
  BY <1>1, PoolInvInit, PoolInvStep, PTL
  DEF PoolSpec, LiveBindingMovesOnlyToLessLoaded

----------------------------------------------------------------------------
(* How the health of one key can change. *)

\* The two ways the scans take a key back: its cooldown has run out.
LEMMA ScansRecoverExpired ==
  ASSUME PoolTypeOK, NEW j \in Key \cup {NoKey}, NEW k \in Key,
         \/ SelectExpired(j)
         \/ \E c \in Client : RecoverForClient(c, j)
  PROVE  \/ reason'[k] = reason[k] /\ cool'[k] = cool[k]
         \/ reason'[k] = "none" /\ cool'[k] = 0 /\ cool[k] = 0
<1>1. j \in ExpiredKeys /\ Recover(j)
  BY FirstFromIn DEF SelectExpired, RecoverForClient, ExpiredKeys
<1>. QED  BY <1>1 DEF ExpiredKeys, Recover, PoolTypeOK

\* A step leaves a key as it is, clears its exhaustion, exhausts it when it
\* was not, or runs its cooldown down.
LEMMA HealthStep ==
  ASSUME PoolTypeOK, [PoolNext]_poolVars, NEW k \in Key
  PROVE  \/ reason'[k] = reason[k] /\ cool'[k] = cool[k]
         \/ /\ reason'[k] = "none" /\ cool'[k] = 0
            /\ cool[k] = 0 \/ UnblockKey(k) \/ MarkRecovered(k)
         \/ reason[k] = "none" /\ reason'[k] # "none"
         \/ /\ reason'[k] = reason[k]
            /\ cool[k] \in 1 .. Permanent - 1 /\ cool'[k] = cool[k] - 1
<1>0. reason \in [Key -> Reason] /\ cool \in [Key -> 0 .. Permanent]
  BY DEF PoolTypeOK
<1>1. CASE UNCHANGED <<reason, cool>>
  BY <1>1
<1>2. ASSUME NEW j \in Key \cup {NoKey},
             \/ SelectExpired(j)
             \/ \E c \in Client : RecoverForClient(c, j)
      PROVE  \/ reason'[k] = reason[k] /\ cool'[k] = cool[k]
             \/ reason'[k] = "none" /\ cool'[k] = 0 /\ cool[k] = 0
  BY <1>2, ScansRecoverExpired
<1>3. ASSUME NEW j \in Key, NEW code \in Code \cup {"rate_limited"},
             MarkExhausted(j, code)
      PROVE  \/ reason'[k] = reason[k] /\ cool'[k] = cool[k]
             \/ reason[k] = "none" /\ reason'[k] # "none"
  <2>1. code # "none"
    BY CodeAssumption DEF KnownCode, TimedCode
  <2>2. UNCHANGED <<reason, cool>> \/ (reason[j] = "none" /\ ExhaustWithCode(j, code))
    BY <1>3 DEF MarkExhausted
  <2>3. ASSUME reason[j] = "none", ExhaustWithCode(j, code)
        PROVE  \E why, time : why # "none" /\ Exhaust(j, why, time)
    <3>1. CASE code = "quota_exceeded"
      <4>1. PICK t \in ResetIn :
              IF t > 0 THEN Exhaust(j, "quota_exceeded_subscription", t)
                       ELSE Exhaust(j, "quota_exceeded_api", Permanent)
        BY <2>3, <3>1 DEF ExhaustWithCode, TimedCode
      <4>. QED  BY <4>1
    <3>2. CASE code # "quota_exceeded"
      BY <2>1, <2>3, <3>2 DEF ExhaustWithCode
    <3>. QED  BY <3>1, <3>2
  <2>. QED  BY <1>0, <2>2, <2>3 DEF Exhaust
<1>4. ASSUME NEW j \in Key, UnblockKey(j) \/ MarkRecovered(j)
      PROVE  \/ reason'[k] = reason[k] /\ cool'[k] = cool[k]
             \/ /\ reason'[k] = "none" /\ cool'[k] = 0
                /\ UnblockKey(k) \/ MarkRecovered(k)
  <2>1. CASE j = k
    BY <1>0, <1>4, <2>1 DEF UnblockKey, MarkRecovered, Recover
  <2>2. CASE j # k
    BY <1>0, <1>4, <2>2 DEF UnblockKey, MarkRecovered, Recover
  <2>. QED  BY <2>1, <2>2
<1>5. CASE Tick
  BY <1>0, <1>5 DEF Tick
<1>6. CASE \E j \in Key \cup {NoKey} :
             \/ SelectKey(j)
             \/ \E after \in Key : SelectNextActiveKey(after, j)
  BY <1>1, <1>2, <1>6
  DEF SelectKey, SelectInTurn, SelectDesperate, SelectNextActiveKey, poolVars, health
<1>7. CASE \E c \in Client, j \in Key \cup {NoKey} : SelectKeyForClient(c, j)
  BY <1>1, <1>2, <1>7
  DEF SelectKeyForClient, ReuseBinding, Rebalance, AssignLeastLoaded, AssignInTurn,
      Overflow, NothingForClient, poolVars, health
<1>8. CASE \E j \in Key : \/ BlockKey(j) \/ AcquireInFlight(j) \/ ReleaseInFlight(j)
                          \/ \E n \in 1 .. MaxTokens : RecordTokens(j, n)
  BY <1>1, <1>8 DEF BlockKey, AcquireInFlight, ReleaseInFlight, RecordTokens, health
<1>. QED
  BY <1>1, <1>3, <1>4, <1>5, <1>6, <1>7, <1>8
  DEF PoolNext, Requests, Administrator, poolVars, health

\* A key that is not exhausted has no cooldown left.
NoneIsCool == \A k \in Key : reason[k] = "none" => cool[k] = 0
HealthInv == PoolInv /\ NoneIsCool

\* At the start no key is exhausted and no cooldown runs.
LEMMA HealthInvInit == PoolInit => HealthInv
BY PoolInvInit DEF PoolInit, HealthInv, NoneIsCool

\* A key that is not exhausted never has a cooldown left: every method that
\* clears the reason clears the deadline.
LEMMA HealthInvStep == HealthInv /\ [PoolNext]_poolVars => HealthInv'
<1>1. SUFFICES ASSUME PoolInv, NoneIsCool, [PoolNext]_poolVars,
                      NEW k \in Key, reason'[k] = "none"
               PROVE  cool'[k] = 0
  BY PoolInvStep DEF HealthInv, NoneIsCool
<1>2. CASE reason[k] = "none"
  BY <1>1, <1>2, HealthStep DEF NoneIsCool, PoolInv
<1>3. CASE reason[k] # "none"
  BY <1>1, <1>3, HealthStep DEF PoolInv
<1>. QED  BY <1>2, <1>3

\* markExhaustedWithError leaves an exhausted key alone: nothing re-arms a
\* cooldown, however often the key keeps failing.
THEOREM CooldownOnlyRunsDown == PoolSpec => CooldownNeverExtended
<1> DEFINE A == \A k \in Key :
                  reason[k] # "none" /\ reason'[k] # "none"
                    => cool'[k] <= cool[k] /\ reason'[k] = reason[k]
<1>1. HealthInv /\ [PoolNext]_poolVars => [A]_poolVars
  <2>1. SUFFICES ASSUME HealthInv, [PoolNext]_poolVars, NEW k \in Key,
                        reason[k] # "none", reason'[k] # "none"
                 PROVE  cool'[k] <= cool[k] /\ reason'[k] = reason[k]
    OBVIOUS
  <2>2. cool[k] \in Nat /\ PoolTypeOK
    BY <2>1, TimeAssumption DEF HealthInv, PoolInv, PoolTypeOK
  <2>. QED  BY <2>1, <2>2, HealthStep
<1>. QED
  BY <1>1, HealthInvInit, HealthInvStep, PTL DEF PoolSpec, CooldownNeverExtended

\* A key that is out for good comes back by an administrator's unblock or by
\* proof that it works, and in no other way.
THEOREM PermanentIsPermanent == PoolSpec => PermanentStaysExhausted
<1> DEFINE A == \A k \in Key :
                  cool[k] = Permanent /\ cool'[k] # Permanent
                    => UnblockKey(k) \/ MarkRecovered(k)
<1>1. HealthInv /\ [PoolNext]_poolVars => [A]_poolVars
  <2>1. SUFFICES ASSUME HealthInv, [PoolNext]_poolVars, NEW k \in Key,
                        cool[k] = Permanent, cool'[k] # Permanent
                 PROVE  UnblockKey(k) \/ MarkRecovered(k)
    OBVIOUS
  <2>2. PoolTypeOK /\ Permanent \in Nat /\ Permanent > 0
    BY <2>1, TimeAssumption DEF HealthInv, PoolInv
  <2>3. reason[k] # "none"
    BY <2>1, <2>2 DEF HealthInv, NoneIsCool
  <2>. QED  BY <2>1, <2>2, <2>3, HealthStep
<1>. QED
  BY <1>1, HealthInvInit, HealthInvStep, PTL DEF PoolSpec, PermanentStaysExhausted

----------------------------------------------------------------------------
(* The loop of requests. *)

\* What a process keeps for itself.
LocalTypeOK ==
  /\ pc \in [Process -> RequestPc]
  /\ proc \in [Process -> Local]
  /\ wakeWait \in 0 .. WakeUpCooldown
  /\ wakeBusy \in BOOLEAN
  /\ failures \in 0 .. MaxFailures

\* A request that holds a key, or is about to, knows which.
KeyInHand ==
  \A r \in Request :
    pc[r] \in HoldingPc \cup {"acquire", "after429"} => proc[r].key \in Key

LocalInv == LocalTypeOK /\ KeyInHand

----------------------------------------------------------------------------
(* The local state: one step per action. *)

\* The locals of a process that has not begun are well formed.
LEMMA FreshIsLocal == Fresh \in Local
BY RetryAssumption DEF Fresh, Local, Status, Reason

\* The updates the actions make to one process's locals.
LEMMA FieldUpdates ==
  ASSUME NEW l \in Local
  PROVE  /\ \A b \in BOOLEAN : [l EXCEPT !.last = b] \in Local
         /\ \A n \in 0 .. MaxRetries : [l EXCEPT !.retries = n] \in Local
         /\ \A why \in Reason, n \in Nat : [l EXCEPT !.code = why, !.streak = n] \in Local
         /\ \A s \in Status : [l EXCEPT !.status = s] \in Local
<1>1. \A b \in BOOLEAN : [l EXCEPT !.last = b] \in Local
  BY DEF Local
<1>2. \A n \in 0 .. MaxRetries : [l EXCEPT !.retries = n] \in Local
  BY DEF Local
<1>3. \A why \in Reason, n \in Nat : [l EXCEPT !.code = why, !.streak = n] \in Local
  BY DEF Local
<1>4. \A s \in Status : [l EXCEPT !.status = s] \in Local
  BY DEF Local
<1>. QED  BY <1>1, <1>2, <1>3, <1>4

\* A process that moves on by replacing its locals.
LEMMA MoveLocal ==
  ASSUME LocalInv, NEW p \in Process, NEW from, NEW to \in RequestPc, NEW l \in Local,
         Goto(p, from, to),
         proc' = [proc EXCEPT ![p] = l],
         p \in Request /\ to \in HoldingPc \cup {"acquire", "after429"} => l.key \in Key
  PROVE  pc' \in [Process -> RequestPc] /\ proc' \in [Process -> Local] /\ KeyInHand'
<1>1. pc' \in [Process -> RequestPc] /\ proc' \in [Process -> Local]
  BY DEF LocalInv, LocalTypeOK, Goto
<1>2. ASSUME NEW r \in Request, pc'[r] \in HoldingPc \cup {"acquire", "after429"}
      PROVE  proc'[r].key \in Key
  <2>1. r \in Process  BY DEF Process
  <2>2. CASE r = p
    BY <1>2, <2>1, <2>2 DEF LocalInv, LocalTypeOK, Goto
  <2>3. CASE r # p
    <3>1. pc'[r] = pc[r] /\ proc'[r] = proc[r]
      BY <2>1, <2>3 DEF LocalInv, LocalTypeOK, Goto
    <3>. QED  BY <1>2, <3>1 DEF LocalInv, KeyInHand
  <2>. QED  BY <2>2, <2>3
<1>. QED  BY <1>1, <1>2 DEF KeyInHand

\* A process that moves on and keeps its locals.
LEMMA StayLocal ==
  ASSUME LocalInv, NEW p \in Process, NEW from, NEW to \in RequestPc,
         Goto(p, from, to), UNCHANGED proc,
         to \in HoldingPc \cup {"acquire", "after429"}
           => from \in HoldingPc \cup {"acquire", "after429"}
  PROVE  pc' \in [Process -> RequestPc] /\ proc' \in [Process -> Local] /\ KeyInHand'
<1>1. /\ proc[p] \in Local
      /\ proc' = [proc EXCEPT ![p] = proc[p]]
  BY DEF LocalInv, LocalTypeOK
<1>2. p \in Request /\ to \in HoldingPc \cup {"acquire", "after429"} => proc[p].key \in Key
  BY DEF LocalInv, KeyInHand, Goto
<1>. QED  BY <1>1, <1>2, MoveLocal

\* A process that ends has fresh locals and no key in hand.
LEMMA LeaveLocal ==
  ASSUME LocalInv, NEW p \in Process, NEW from, Leave(p, from)
  PROVE  pc' \in [Process -> RequestPc] /\ proc' \in [Process -> Local] /\ KeyInHand'
<1>1. "idle" \in RequestPc /\ "idle" \notin HoldingPc \cup {"acquire", "after429"}
  BY DEF RequestPc, HoldingPc
<1>. QED  BY <1>1, FreshIsLocal, MoveLocal DEF Leave

\* forwardRequest up to the acquire keeps the locals well formed: a request
\* that goes on to acquire has a key in hand.
LEMMA ForwardLocal ==
  ASSUME LocalInv, NEW p \in Process,
         \/ Begin(p)
         \/ p \in Request /\ Forward(p)
  PROVE  LocalInv'
<1>0. LocalTypeOK /\ KeyInHand /\ Request \subseteq Process
  BY DEF LocalInv, Process
<1>1. CASE Begin(p)
  BY <1>0, <1>1
  DEF Begin, Goto, LocalInv, LocalTypeOK, KeyInHand, RequestPc, WakingPc, HoldingPc,
      wakeVars
<1>2. ASSUME NEW from, NEW failed \in {"idle", "wake"}, p \in Request,
             Choose(p, from, failed)
      PROVE  LocalInv'
  <2>1. PICK k \in Key \cup {NoKey} :
          /\ SelectKeyForClient(ClientOf[p], k)
          /\ IF k # NoKey
               THEN /\ Goto(p, from, "acquire")
                    /\ proc' = [proc EXCEPT ![p].key = k, ![p].woke = NoKey]
               ELSE IF failed = "idle"
                      THEN Leave(p, from)
                      ELSE Goto(p, from, failed) /\ UNCHANGED proc
          /\ UNCHANGED <<wakeVars, failures>>
    BY <1>2 DEF Choose
  <2>2. CASE k # NoKey
    BY <1>0, <2>1, <2>2
    DEF Goto, LocalInv, LocalTypeOK, KeyInHand, Local, RequestPc, HoldingPc, wakeVars
  <2>3. CASE k = NoKey
    <3>1. CASE failed = "idle"
      BY <1>0, <2>1, <2>3, <3>1, LeaveLocal DEF LocalInv, LocalTypeOK, wakeVars
    <3>2. CASE failed = "wake"
      BY <1>0, <2>1, <2>3, <3>2
      DEF Goto, LocalInv, LocalTypeOK, KeyInHand, RequestPc, HoldingPc, wakeVars
    <3>. QED  BY <1>2, <3>1, <3>2
  <2>. QED  BY <2>2, <2>3
<1>3. CASE p \in Request /\ Acquire(p)
  BY <1>0, <1>3
  DEF Acquire, Goto, LocalInv, LocalTypeOK, KeyInHand, RequestPc, HoldingPc, wakeVars
<1>. QED
  BY <1>1, <1>2, <1>3 DEF Forward, SelectForClient, SelectAgain

\* The wake-up keeps the locals well formed.
LEMMA WakeUpLocal ==
  ASSUME LocalInv, NEW p \in Process, WakeUp(p)
  PROVE  LocalInv'
<1>0. LocalTypeOK /\ KeyInHand  BY DEF LocalInv
<1>a. /\ WakingPc \cup {"cas", "reselect"} \subseteq RequestPc
       /\ \A to \in WakingPc \cup {"cas", "reselect"} :
            to \notin HoldingPc \cup {"acquire", "after429"}
       /\ {"cas", "reselect"} \cap WakingPc = {}
       /\ {"list", "filter", "probe", "cool", "free"} = WakingPc
  BY DEF RequestPc, WakingPc, HoldingPc
<1> USE DEF LocalInv, LocalTypeOK, wakeVars
<1>1. CASE WakeCheck(p)
  <2>1. CASE wakeWait > 0
    BY <1>0, <1>1, <2>1, LeaveLocal DEF WakeCheck
  <2>2. CASE ~(wakeWait > 0)
    BY <1>0, <1>1, <1>a, <2>2, StayLocal DEF WakeCheck
  <2>. QED  BY <2>1, <2>2
<1>2. CASE WakeSwap(p)
  <2>1. CASE wakeBusy
    BY <1>0, <1>2, <2>1, LeaveLocal DEF WakeSwap
  <2>2. CASE ~wakeBusy
    BY <1>0, <1>2, <1>a, <2>2, StayLocal DEF WakeSwap
  <2>. QED  BY <2>1, <2>2
<1>3. ASSUME NEW T \in SUBSET Key, NEW k \in Key \cup {NoKey}
      PROVE  /\ [proc[p] EXCEPT !.todo = T] \in Local
             /\ [proc[p] EXCEPT !.todo = T, !.woke = k] \in Local
  BY DEF Local
<1>4. CASE WakeList(p)
  <2>1. Key \ ActiveKeys \in SUBSET Key  OBVIOUS
  <2>2. proc' = [proc EXCEPT ![p] = [proc[p] EXCEPT !.todo = Key \ ActiveKeys]]
    BY <1>4 DEF WakeList
  <2>3. PICK to \in {"probe", "filter"} : Goto(p, "list", to)
    BY <1>4 DEF WakeList
  <2>4. to \in RequestPc /\ to \notin HoldingPc \cup {"acquire", "after429"}
    BY DEF RequestPc, WakingPc, HoldingPc
  <2>. QED  BY <1>0, <1>3, <1>4, <2>1, <2>2, <2>3, <2>4, MoveLocal DEF WakeList
<1>5. CASE WakeFilter(p)
  <2> DEFINE T == {k \in proc[p].todo : reason[k] \notin HardFailure}
  <2>1. T \in SUBSET Key
    BY DEF Local
  <2>2. proc' = [proc EXCEPT ![p] = [proc[p] EXCEPT !.todo = T]]
    BY <1>5 DEF WakeFilter
  <2>3. "probe" \in RequestPc /\ "probe" \notin HoldingPc \cup {"acquire", "after429"}
    BY DEF RequestPc, WakingPc, HoldingPc
  <2> HIDE DEF T
  <2>. QED  BY <1>0, <1>3, <1>5, <2>1, <2>2, <2>3, MoveLocal DEF WakeFilter
<1>6. CASE Probe(p)
  <2>1. PICK k \in proc[p].todo, works \in BOOLEAN :
          /\ Goto(p, "probe", "probe")
          /\ proc' = IF works /\ p # Admin
                       THEN [proc EXCEPT ![p].todo = {}, ![p].woke = k]
                       ELSE [proc EXCEPT ![p].todo = @ \ {k}]
          /\ UNCHANGED <<wakeVars, failures>>
    BY <1>6 DEF Probe
  <2>2. proc[p].todo \in SUBSET Key /\ k \in Key
    BY <2>1 DEF Local
  <2>3. PICK l \in Local : proc' = [proc EXCEPT ![p] = l]
    <3>1. CASE works /\ p # Admin
      BY <1>3, <2>1, <2>2, <3>1
    <3>2. CASE ~(works /\ p # Admin)
      BY <1>3, <2>1, <2>2, <3>2
    <3>. QED  BY <3>1, <3>2
  <2>4. "probe" \in RequestPc /\ "probe" \notin HoldingPc \cup {"acquire", "after429"}
    BY DEF RequestPc, WakingPc, HoldingPc
  <2>. QED  BY <1>0, <2>1, <2>3, <2>4, MoveLocal
<1>7. CASE ProbesDone(p)
  BY <1>0, <1>7, <1>a, StayLocal DEF ProbesDone
<1>8. CASE WakeCool(p)
  BY <1>0, <1>8, <1>a, StayLocal, RetryAssumption DEF WakeCool
<1>9. CASE WakeFree(p)
  <2>1. CASE proc[p].woke # NoKey
    BY <1>0, <1>9, <1>a, <2>1, StayLocal DEF WakeFree
  <2>2. CASE proc[p].woke = NoKey
    BY <1>0, <1>9, <2>2, LeaveLocal DEF WakeFree
  <2>. QED  BY <2>1, <2>2
<1>. QED
  BY <1>1, <1>2, <1>4, <1>5, <1>6, <1>7, <1>8, <1>9 DEF WakeUp

\* The answer of upstream keeps the locals well formed.
LEMMA AnswerLocal ==
  ASSUME LocalInv, NEW r \in Request, Answer(r) \/ Reply(r)
  PROVE  LocalInv'
<1>0. /\ LocalTypeOK /\ KeyInHand /\ r \in Process
      /\ HoldingPc \subseteq RequestPc
  BY DEF LocalInv, Process, RequestPc
<1>1. \A status \in Status : [proc[r] EXCEPT !.status = status] \in Local
  BY <1>0 DEF LocalTypeOK, Local
<1>2. pc[r] \in HoldingPc => proc[r].key \in Key
  BY <1>0 DEF KeyInHand
<1>3. CASE UpstreamError(r)
  BY <1>0, <1>3, LeaveLocal DEF UpstreamError, LocalInv, LocalTypeOK, wakeVars
<1>4. CASE UpstreamOk(r)
  <2>1. "ok" \in Status /\ "respond" \in HoldingPc /\ "upstream" \in HoldingPc
    BY DEF Status, HoldingPc
  <2> DEFINE l == [proc[r] EXCEPT !.status = "ok"]
  <2>2. /\ l \in Local /\ l.key = proc[r].key
        /\ proc' = [proc EXCEPT ![r] = l]
    BY <1>0, <1>1, <1>4, <2>1 DEF UpstreamOk, LocalTypeOK, Local
  <2> HIDE DEF l
  <2>3. pc' \in [Process -> RequestPc] /\ proc' \in [Process -> Local] /\ KeyInHand'
    BY <1>0, <1>2, <1>4, <2>1, <2>2, MoveLocal DEF UpstreamOk, Goto
  <2>. QED  BY <1>0, <1>4, <2>3 DEF UpstreamOk, LocalInv, LocalTypeOK, wakeVars
<1>5. CASE UpstreamFails(r)
  <2>1. PICK status \in {"429", "error"} :
          proc' = [proc EXCEPT ![r].status = status]
    BY <1>5 DEF UpstreamFails
  <2>2. PICK to \in {"respond", "judge"} : Goto(r, "upstream", to)
    BY <1>5 DEF UpstreamFails
  <2>3. status \in Status /\ to \in HoldingPc /\ "upstream" \in HoldingPc
    BY DEF Status, HoldingPc
  <2>4. /\ [proc[r] EXCEPT !.status = status] \in Local
        /\ proc' = [proc EXCEPT ![r] = [proc[r] EXCEPT !.status = status]]
        /\ [proc[r] EXCEPT !.status = status].key = proc[r].key
    BY <1>0, <1>1, <2>1, <2>3 DEF LocalTypeOK, Local
  <2>5. pc' \in [Process -> RequestPc] /\ proc' \in [Process -> Local] /\ KeyInHand'
    BY <1>0, <1>2, <2>2, <2>3, <2>4, MoveLocal DEF Goto
  <2>6. failures' \in 0 .. MaxFailures
    BY <1>0, <1>5, RetryAssumption DEF UpstreamFails, LocalTypeOK
  <2>. QED  BY <1>0, <1>5, <2>5, <2>6 DEF UpstreamFails, LocalInv, LocalTypeOK, wakeVars
<1>6. CASE Respond(r)
  <2>1. pc' \in [Process -> RequestPc] /\ proc' \in [Process -> Local] /\ KeyInHand'
    BY <1>0, <1>6, StayLocal DEF Respond, HoldingPc
  <2>. QED  BY <1>0, <1>6, <2>1 DEF Respond, LocalInv, LocalTypeOK, wakeVars
<1>7. CASE Finish(r)
  BY <1>0, <1>7, LeaveLocal DEF Finish, LocalInv, LocalTypeOK, wakeVars
<1>. QED  BY <1>3, <1>4, <1>5, <1>6, <1>7 DEF Answer, Reply

\* The retry loop keeps the locals well formed: whenever it judges, marks or
\* releases a key it has one in hand.
LEMMA RetryLoopLocal ==
  ASSUME LocalInv, NEW r \in Request, RetryLoop(r)
  PROVE  LocalInv'
<1>0. /\ LocalTypeOK /\ KeyInHand /\ r \in Process /\ proc[r] \in Local
  BY DEF LocalInv, LocalTypeOK, Process
<1>a. /\ HoldingPc \cup {"select", "after429"} \subseteq RequestPc
      /\ "select" \notin HoldingPc \cup {"acquire", "after429"}
      /\ {"judge", "limited", "next", "flag", "close", "respond"} \subseteq HoldingPc
  BY DEF RequestPc, HoldingPc
<1>b. Again(r) \in Local
  BY <1>0 DEF Again, Local, Status
<1> DEFINE Fits == /\ pc' \in [Process -> RequestPc]
                   /\ proc' \in [Process -> Local]
                   /\ KeyInHand'
<1>1. CASE RetrySameKey(r)
  <2>1. [Again(r) EXCEPT !.retries = @ + 1] \in Local
    <3>1. proc[r].retries + 1 \in 0 .. MaxRetries /\ Again(r).retries = proc[r].retries
      BY <1>0, <1>1, RetryAssumption DEF RetrySameKey, Again, Local
    <3>. QED  BY <1>b, <3>1 DEF Local
  <2>2. Fits
    BY <1>0, <1>1, <1>a, <2>1, MoveLocal DEF RetrySameKey, Retry
  <2>. QED  BY <1>0, <1>1, <2>2 DEF RetrySameKey, LocalInv, LocalTypeOK, wakeVars
<1>2. CASE RateLimit(r)
  <2>1. Fits
    BY <1>0, <1>2, <1>a, StayLocal DEF RateLimit
  <2>. QED  BY <1>0, <1>2, <2>1 DEF RateLimit, LocalInv, LocalTypeOK, wakeVars
<1>3. CASE CloseLimited(r)
  <2>1. Fits
    BY <1>0, <1>3, <1>a, StayLocal DEF CloseLimited
  <2>. QED  BY <1>0, <1>3, <2>1 DEF CloseLimited, LocalInv, LocalTypeOK, wakeVars
<1>4. CASE After429(r)
  <2>1. /\ [Again(r) EXCEPT !.last = TRUE] \in Local
        /\ [Again(r) EXCEPT !.retries = 0] \in Local
    <3>1. 0 \in 0 .. MaxRetries  BY RetryAssumption
    <3>. QED  BY <1>b, <3>1, FieldUpdates
  <2>2. PICK l \in Local : proc' = [proc EXCEPT ![r] = l]
    BY <1>4, <2>1 DEF After429
  <2>3. Goto(r, "after429", "select") /\ UNCHANGED <<wakeVars, failures>>
    BY <1>4 DEF After429
  <2>4. Fits
    BY <1>0, <1>a, <2>2, <2>3, MoveLocal
  <2>. QED  BY <1>0, <2>3, <2>4 DEF LocalInv, LocalTypeOK, wakeVars
<1>5. CASE Converge(r)
  <2>1. reason[proc[r].key] \in Reason => Fits
    <3> DEFINE why == reason[proc[r].key]
               streak == IF why = proc[r].code THEN proc[r].streak + 1 ELSE 1
               l == [proc[r] EXCEPT !.code = why, !.streak = streak]
    <3>1. SUFFICES ASSUME why \in Reason PROVE Fits
      OBVIOUS
    <3>2. l \in Local /\ l.key = proc[r].key
      <4>1. proc[r].streak \in Nat  BY <1>0 DEF Local
      <4>2. streak \in Nat  BY <4>1
      <4> HIDE DEF streak
      <4>3. l \in Local  BY <1>0, <3>1, <4>2, FieldUpdates
      <4>4. l.key = proc[r].key  BY <1>0 DEF Local
      <4>. QED  BY <4>3, <4>4
    <3>3. proc[r].key \in Key
      BY <1>0, <1>5, <1>a DEF KeyInHand, Converge
    <3>4. CASE why \in AccountLevel
      <4>1. PICK to \in {"respond", "next"} : Goto(r, "judge", to)
        BY <1>5, <3>4 DEF Converge
      <4>2. proc' = [proc EXCEPT ![r] = l]
        BY <1>0, <1>5, <3>4 DEF Converge, LocalTypeOK
      <4> HIDE DEF l
      <4>. QED  BY <1>0, <1>a, <3>2, <3>3, <4>1, <4>2, MoveLocal
    <3>5. CASE why \notin AccountLevel
      BY <1>0, <1>5, <1>a, <3>5, StayLocal DEF Converge
    <3>. QED  BY <3>4, <3>5
  <2>2. reason[proc[r].key] \notin Reason => Fits
    <3>1. SUFFICES ASSUME reason[proc[r].key] \notin Reason PROVE Fits
      OBVIOUS
    <3>2. reason[proc[r].key] \notin AccountLevel
      BY <3>1 DEF AccountLevel, HardFailure
    <3>. QED  BY <1>0, <1>5, <1>a, <3>2, StayLocal DEF Converge
  <2>. QED  BY <1>0, <1>5, <2>1, <2>2 DEF Converge, LocalInv, LocalTypeOK, wakeVars
<1>6. CASE NextKey(r)
  <2>1. PICK k \in Key \cup {NoKey} :
          /\ IF k \in {NoKey, proc[r].key}
               THEN Goto(r, "next", "respond") /\ UNCHANGED proc
               ELSE Goto(r, "next", "flag") /\ proc' = [proc EXCEPT ![r].next = k]
          /\ UNCHANGED <<wakeVars, failures>>
    BY <1>6 DEF NextKey
  <2>2. Fits
    <3>1. CASE k \in {NoKey, proc[r].key}
      BY <1>0, <1>a, <2>1, <3>1, StayLocal
    <3>2. CASE k \notin {NoKey, proc[r].key}
      <4>1. /\ [proc[r] EXCEPT !.next = k] \in Local
            /\ [proc[r] EXCEPT !.next = k].key = proc[r].key
            /\ proc' = [proc EXCEPT ![r] = [proc[r] EXCEPT !.next = k]]
        BY <1>0, <2>1, <3>2 DEF Local, LocalTypeOK
      <4>2. proc[r].key \in Key
        BY <1>0, <1>a, <2>1, <3>2 DEF KeyInHand, Goto
      <4>. QED  BY <1>0, <1>a, <2>1, <3>2, <4>1, <4>2, MoveLocal
    <3>. QED  BY <3>1, <3>2
  <2>. QED  BY <1>0, <2>1, <2>2 DEF LocalInv, LocalTypeOK, wakeVars
<1>7. CASE FlagProbe(r)
  <2> DEFINE l == [proc[r] EXCEPT !.probe = reason[proc[r].next] # "none", !.next = NoKey]
  <2>1. l \in Local /\ l.key = proc[r].key /\ proc' = [proc EXCEPT ![r] = l]
    BY <1>0, <1>7 DEF FlagProbe, Local, LocalTypeOK
  <2>2. proc[r].key \in Key
    BY <1>0, <1>a, <1>7 DEF KeyInHand, FlagProbe, Goto
  <2>3. Goto(r, "flag", "close") /\ UNCHANGED <<wakeVars, failures>>
    BY <1>7 DEF FlagProbe
  <2> HIDE DEF l
  <2>4. Fits
    BY <1>0, <1>a, <2>1, <2>2, <2>3, MoveLocal
  <2>. QED  BY <1>0, <2>3, <2>4 DEF LocalInv, LocalTypeOK, wakeVars
<1>8. CASE CloseAndRetry(r)
  <2>1. Fits
    BY <1>0, <1>8, <1>a, <1>b, MoveLocal DEF CloseAndRetry, Retry
  <2>. QED  BY <1>0, <1>8, <2>1 DEF CloseAndRetry, LocalInv, LocalTypeOK, wakeVars
<1>. QED
  BY <1>1, <1>2, <1>3, <1>4, <1>5, <1>6, <1>7, <1>8 DEF RetryLoop

\* Every step keeps the locals well formed.
LEMMA LocalInvStep ==
  ASSUME LocalInv, [Next]_vars
  PROVE  LocalInv'
<1>1. CASE Environment \/ UNCHANGED vars
  BY <1>1 DEF Environment, LocalInv, LocalTypeOK, KeyInHand, wakeVars, vars
<1>2. CASE Time
  <2>1. wakeWait' \in 0 .. WakeUpCooldown
    BY <1>2, RetryAssumption DEF Time, LocalInv, LocalTypeOK
  <2>. QED  BY <1>2, <2>1 DEF Time, LocalInv, LocalTypeOK, KeyInHand
<1>3. ASSUME NEW p \in Process, Begin(p) \/ WakeUp(p) PROVE LocalInv'
  BY <1>3, ForwardLocal, WakeUpLocal
<1>4. ASSUME NEW r \in Request, Serve(r) PROVE LocalInv'
  <2>1. r \in Process  BY DEF Process
  <2>. QED
    BY <1>4, <2>1, ForwardLocal, AnswerLocal, RetryLoopLocal DEF Serve
<1>. QED  BY <1>1, <1>2, <1>3, <1>4 DEF Next

----------------------------------------------------------------------------
(* The wake-up runs once at a time. *)

\* A move within the wake-up, or outside it, changes nothing.
LEMMA WakersKept ==
  ASSUME LocalInv, WakeUpSingleton, NEW p \in Process, NEW from, NEW to,
         Goto(p, from, to), from \in WakingPc <=> to \in WakingPc,
         UNCHANGED wakeBusy
  PROVE  WakeUpSingleton'
<1>1. Wakers' = Wakers
  BY DEF LocalInv, LocalTypeOK, Goto, Wakers
<1>. QED  BY <1>1 DEF WakeUpSingleton

\* The flag stays equivalent to the presence of exactly one waker.
LEMMA WakeUpSingletonStep ==
  ASSUME LocalInv, WakeUpSingleton, [Next]_vars
  PROVE  WakeUpSingleton'
<1>0. Request \subseteq Process /\ pc \in [Process -> RequestPc] /\ wakeBusy \in BOOLEAN
  BY DEF Process, LocalInv, LocalTypeOK
<1>1. CASE Environment \/ Time \/ UNCHANGED vars
  BY <1>1 DEF Environment, Time, WakeUpSingleton, Wakers, wakeVars, vars
<1>2. ASSUME NEW p \in Process, Begin(p) PROVE WakeUpSingleton'
  BY <1>0, <1>2, WakersKept DEF Begin, WakingPc, wakeVars
<1>3. ASSUME NEW p \in Process, WakeSwap(p) PROVE WakeUpSingleton'
  <2>1. CASE wakeBusy
    BY <1>0, <1>3, <2>1, WakersKept DEF WakeSwap, Leave, WakingPc
  <2>2. CASE ~wakeBusy
    <3>1. Wakers = {}  BY <2>2 DEF WakeUpSingleton
    <3>2. Goto(p, "cas", "list") /\ wakeBusy' = TRUE
      BY <1>3, <2>2 DEF WakeSwap
    <3>3. Wakers' = {p}  BY <1>0, <3>1, <3>2 DEF Wakers, Goto, WakingPc
    <3>. QED  BY <3>2, <3>3 DEF WakeUpSingleton
  <2>. QED  BY <1>0, <2>1, <2>2
<1>4. ASSUME NEW p \in Process, WakeFree(p) PROVE WakeUpSingleton'
  <2>1. PICK to \in {"idle", "reselect"} : Goto(p, "free", to)
    BY <1>4 DEF WakeFree, Leave
  <2>2. p \in Wakers
    BY <2>1 DEF Wakers, Goto, WakingPc
  <2>3. Wakers = {p}
    BY <2>2 DEF WakeUpSingleton
  <2>4. Wakers' = {}
    BY <1>0, <2>1, <2>3 DEF Wakers, Goto, WakingPc
  <2>. QED  BY <1>4, <2>4 DEF WakeFree, WakeUpSingleton
<1>5. ASSUME NEW p \in Process,
             \/ WakeCheck(p) \/ WakeList(p) \/ WakeFilter(p) \/ Probe(p)
             \/ ProbesDone(p) \/ WakeCool(p)
      PROVE  WakeUpSingleton'
  <2>1. CASE WakeCheck(p)
    BY <2>1, WakersKept DEF WakeCheck, Leave, WakingPc, wakeVars
  <2>2. CASE WakeList(p)
    BY <2>2, WakersKept DEF WakeList, WakingPc, wakeVars
  <2>3. CASE WakeFilter(p) \/ ProbesDone(p) \/ WakeCool(p)
    BY <2>3, WakersKept DEF WakeFilter, ProbesDone, WakeCool, WakingPc, wakeVars
  <2>4. CASE Probe(p)
    <3>1. Goto(p, "probe", "probe") /\ UNCHANGED wakeBusy
      BY <2>4 DEF Probe, wakeVars
    <3>. QED  BY <3>1, WakersKept
  <2>. QED  BY <1>5, <2>1, <2>2, <2>3, <2>4
<1>6. ASSUME NEW r \in Request, Serve(r) PROVE WakeUpSingleton'
  <2>1. /\ \E from \in RequestPc \ WakingPc, to \in RequestPc \ WakingPc : Goto(r, from, to)
        /\ UNCHANGED wakeBusy
    <3>1. CASE Forward(r)
      BY <3>1
      DEF Forward, SelectForClient, SelectAgain, Choose, Acquire, Leave, wakeVars,
          RequestPc, HoldingPc, WakingPc
    <3>2. CASE Answer(r) \/ Reply(r)
      BY <3>2
      DEF Answer, Reply, UpstreamError, UpstreamOk, UpstreamFails, Respond, Finish, Leave,
          wakeVars, RequestPc, HoldingPc, WakingPc
    <3>3. CASE RetryLoop(r)
      <4>1. CASE RetrySameKey(r) \/ RateLimit(r) \/ CloseLimited(r) \/ After429(r)
        BY <4>1
        DEF RetrySameKey, RateLimit, CloseLimited, After429, Retry, wakeVars,
            RequestPc, HoldingPc, WakingPc
      <4>2. CASE Converge(r)
        <5>1. \E to \in {"respond", "next"} : Goto(r, "judge", to)
          BY <4>2 DEF Converge
        <5>. QED
          BY <4>2, <5>1 DEF Converge, wakeVars, RequestPc, HoldingPc, WakingPc
      <4>3. CASE NextKey(r) \/ FlagProbe(r) \/ CloseAndRetry(r)
        BY <4>3
        DEF NextKey, FlagProbe, CloseAndRetry, Retry, wakeVars,
            RequestPc, HoldingPc, WakingPc
      <4>. QED  BY <3>3, <4>1, <4>2, <4>3 DEF RetryLoop
    <3>. QED  BY <1>6, <3>1, <3>2, <3>3 DEF Serve
  <2>. QED  BY <1>0, <2>1, WakersKept
<1>. QED
  BY <1>1, <1>2, <1>3, <1>4, <1>5, <1>6 DEF Next, WakeUp

----------------------------------------------------------------------------
(* The count of requests in flight. *)

\* The holders of a key can be counted.
LEMMA HoldersFinite ==
  ASSUME NEW k
  PROVE  /\ IsFiniteSet(Holders(k)) /\ Cardinality(Holders(k)) \in Nat
         /\ Holders(k) \subseteq Request
BY RequestAssumption, FS_Subset, FS_CardinalityType DEF Holders

\* p moves, and the locals of the others stay.
Moves(p, from, to) ==
  /\ Goto(p, from, to)
  /\ \A q \in Process \ {p} : proc'[q] = proc[q]

\* The process neither takes nor gives back a key.
LEMMA HoldersKept ==
  ASSUME LocalInv, InFlightExact, NEW p \in Process, NEW from, NEW to,
         Moves(p, from, to), UNCHANGED inFlight,
         p \in Request => /\ from \in HoldingPc <=> to \in HoldingPc
                          /\ from \in HoldingPc => proc'[p].key = proc[p].key
  PROVE  InFlightExact'
<1>1. ASSUME NEW k \in Key PROVE Holders(k)' = Holders(k)
  <2>1. ASSUME NEW r \in Request
        PROVE  r \in Holders(k)' <=> r \in Holders(k)
    <3>1. r \in Process /\ pc \in [Process -> RequestPc]
      BY DEF Process, LocalInv, LocalTypeOK
    <3>2. CASE r = p
      BY <3>1, <3>2 DEF Moves, Goto, Holders
    <3>3. CASE r # p
      BY <3>1, <3>3 DEF Moves, Goto, Holders
    <3>. QED  BY <3>2, <3>3
  <2>. QED  BY <2>1 DEF Holders
<1>. QED  BY <1>1 DEF InFlightExact

\* Giving a key back takes the request out of the key's holders.
LEMMA HoldersReleased ==
  ASSUME LocalInv, PoolTypeOK, InFlightExact, NEW r \in Request,
         NEW from \in HoldingPc, NEW to, to \notin HoldingPc,
         Moves(r, from, to), ReleaseInFlight(proc[r].key)
  PROVE  InFlightExact'
<1>0. /\ r \in Process /\ pc \in [Process -> RequestPc]
      /\ proc[r].key \in Key /\ inFlight \in [Key -> Nat]
  BY DEF Process, LocalInv, LocalTypeOK, KeyInHand, Moves, Goto, PoolTypeOK
<1>1. ASSUME NEW k \in Key
      PROVE  Holders(k)' = IF k = proc[r].key THEN Holders(k) \ {r} ELSE Holders(k)
  <2>1. r \in Holders(proc[r].key) /\ r \notin Holders(k)'
    BY <1>0 DEF Moves, Goto, Holders
  <2>2. \A q \in Request \ {r} : q \in Holders(k)' <=> q \in Holders(k)
    <3>1. SUFFICES ASSUME NEW q \in Request, q # r PROVE q \in Holders(k)' <=> q \in Holders(k)
      OBVIOUS
    <3>2. q \in Process  BY DEF Process
    <3>. QED  BY <1>0, <3>1, <3>2 DEF Moves, Goto, Holders
  <2>3. Holders(k) \subseteq Request /\ Holders(k)' \subseteq Request
    BY DEF Holders
  <2>4. k # proc[r].key => r \notin Holders(k)
    BY DEF Holders
  <2>. QED  BY <2>1, <2>2, <2>3, <2>4
<1>2. r \in Holders(proc[r].key)
  BY <1>0 DEF Moves, Goto, Holders
<1>3. ASSUME NEW k \in Key PROVE inFlight'[k] = Cardinality(Holders(k)')
  <2>1. CASE k = proc[r].key
    <3>1. IsFiniteSet(Holders(k)) /\ Cardinality(Holders(k)) \in Nat
      BY HoldersFinite
    <3>2. Cardinality(Holders(k) \ {r}) = Cardinality(Holders(k)) - 1
      BY <1>2, <2>1, <3>1, FS_RemoveElement
    <3>3. Cardinality(Holders(k) \ {r}) \in Nat
      BY <3>1, FS_RemoveElement, FS_CardinalityType
    <3>4. inFlight[k] = Cardinality(Holders(k))
      BY DEF InFlightExact
    <3>5. inFlight[k] > 0 /\ inFlight[k] - 1 = Cardinality(Holders(k) \ {r})
      BY <3>1, <3>2, <3>3, <3>4
    <3>6. inFlight'[k] = inFlight[k] - 1
      BY <1>0, <2>1, <3>5 DEF ReleaseInFlight
    <3>. QED  BY <1>1, <2>1, <3>5, <3>6
  <2>2. CASE k # proc[r].key
    BY <1>0, <1>1, <2>2 DEF InFlightExact, ReleaseInFlight
  <2>. QED  BY <2>1, <2>2
<1>. QED  BY <1>3 DEF InFlightExact

\* Before a request takes a key, some other requests hold it at most.
LEMMA RoomForOne ==
  ASSUME LocalInv, InFlightExact, NEW r \in Request, pc[r] \notin HoldingPc, NEW k \in Key
  PROVE  inFlight[k] < MaxInFlight
<1>1. Holders(k) \in SUBSET (Request \ {r})
  BY DEF Holders
<1>2. /\ IsFiniteSet(Request \ {r})
      /\ Cardinality(Request \ {r}) = Cardinality(Request) - 1
      /\ Cardinality(Request) \in Nat /\ Cardinality(Request \ {r}) \in Nat
  BY RequestAssumption, FS_RemoveElement, FS_CardinalityType
<1>3. Cardinality(Holders(k)) <= Cardinality(Request \ {r})
  BY <1>1, <1>2, FS_Subset
<1>4. inFlight[k] = Cardinality(Holders(k)) /\ Cardinality(Holders(k)) \in Nat
  BY HoldersFinite DEF InFlightExact
<1>. QED  BY <1>2, <1>3, <1>4, RequestAssumption, BoundsAssumption

\* Taking a key adds the request to the holders of that key alone.
LEMMA HoldersAcquired ==
  ASSUME LocalInv, PoolTypeOK, InFlightExact, NEW r \in Request, Acquire(r)
  PROVE  InFlightExact'
<1>0. /\ r \in Process /\ pc \in [Process -> RequestPc] /\ proc' = proc
      /\ proc[r].key \in Key /\ inFlight \in [Key -> Nat]
      /\ pc[r] \notin HoldingPc
  BY DEF Process, LocalInv, LocalTypeOK, KeyInHand, Acquire, Goto, PoolTypeOK, HoldingPc
<1>1. ASSUME NEW k \in Key
      PROVE  Holders(k)' = IF k = proc[r].key THEN Holders(k) \cup {r} ELSE Holders(k)
  <2>1. pc' = [pc EXCEPT ![r] = "upstream"] /\ "upstream" \in HoldingPc
    BY DEF Acquire, Goto, HoldingPc
  <2>2. \A q \in Request \ {r} : q \in Holders(k)' <=> q \in Holders(k)
    <3>1. SUFFICES ASSUME NEW q \in Request, q # r PROVE q \in Holders(k)' <=> q \in Holders(k)
      OBVIOUS
    <3>2. q \in Process  BY DEF Process
    <3>. QED  BY <1>0, <2>1, <3>1, <3>2 DEF Holders
  <2>3. r \notin Holders(k) /\ (r \in Holders(k)' <=> k = proc[r].key)
    BY <1>0, <2>1 DEF Holders
  <2>4. Holders(k) \subseteq Request /\ Holders(k)' \subseteq Request
    BY DEF Holders
  <2>. QED  BY <2>2, <2>3, <2>4
<1>2. ASSUME NEW k \in Key PROVE inFlight'[k] = Cardinality(Holders(k)')
  <2>1. CASE k = proc[r].key
    <3>1. r \notin Holders(k)
      BY <1>0 DEF Holders
    <3>2. Cardinality(Holders(k) \cup {r}) = Cardinality(Holders(k)) + 1
      BY <3>1, HoldersFinite, FS_AddElement
    <3>3. inFlight'[k] = inFlight[k] + 1
      BY <1>0, <2>1 DEF Acquire, AcquireInFlight
    <3>. QED  BY <1>1, <2>1, <3>2, <3>3 DEF InFlightExact
  <2>2. CASE k # proc[r].key
    BY <1>0, <1>1, <2>2 DEF InFlightExact, Acquire, AcquireInFlight
  <2>. QED  BY <2>1, <2>2
<1>. QED  BY <1>2 DEF InFlightExact

\* Only acquire and release touch the count.
LEMMA CountUntouched ==
  /\ \A k : SelectKey(k) => inFlight' = inFlight
  /\ \A c, k : SelectKeyForClient(c, k) => inFlight' = inFlight
  /\ \A after, k : SelectNextActiveKey(after, k) => inFlight' = inFlight
  /\ \A k, code : MarkExhausted(k, code) => inFlight' = inFlight
  /\ \A k : MarkRecovered(k) => inFlight' = inFlight
  /\ \A k, n : RecordTokens(k, n) => inFlight' = inFlight
  /\ UNCHANGED poolVars => inFlight' = inFlight
BY DEF SelectKey, SelectInTurn, SelectExpired, SelectDesperate, SelectKeyForClient,
       ReuseBinding, Rebalance, AssignLeastLoaded, AssignInTurn, Overflow,
       RecoverForClient, NothingForClient, SelectNextActiveKey, MarkExhausted,
       MarkRecovered, RecordTokens, poolVars, load

\* One step of KeyRetry is one call of a method of the pool, or none.
\* The exactness of the count is what admits Acquire under PoolNext's bound.
RetryInv == PoolInv /\ LocalInv /\ InFlightExact

\* Choosing and acquiring a key keep the count exact and are pool steps.
LEMMA ForwardStep ==
  ASSUME RetryInv, NEW r \in Request, Forward(r)
  PROVE  InFlightExact' /\ [PoolNext]_poolVars
<1>0. /\ PoolTypeOK /\ LocalInv /\ InFlightExact /\ r \in Process
      /\ proc \in [Process -> Local] /\ ClientOf[r] \in Client
  BY RequestAssumption DEF RetryInv, PoolInv, LocalInv, LocalTypeOK, Process
<1>1. ASSUME NEW from, from \notin HoldingPc, NEW failed, failed \notin HoldingPc,
             Choose(r, from, failed)
      PROVE  InFlightExact' /\ [PoolNext]_poolVars
  <2>1. PICK k \in Key \cup {NoKey} :
          /\ SelectKeyForClient(ClientOf[r], k)
          /\ IF k # NoKey
               THEN /\ Goto(r, from, "acquire")
                    /\ proc' = [proc EXCEPT ![r].key = k, ![r].woke = NoKey]
               ELSE IF failed = "idle"
                      THEN Leave(r, from)
                      ELSE Goto(r, from, failed) /\ UNCHANGED proc
    BY <1>1 DEF Choose
  <2>2. PICK to \in {"acquire", "idle", failed} : Moves(r, from, to)
    BY <1>0, <2>1 DEF Moves, Leave
  <2>3. to \notin HoldingPc
    BY <1>1, <2>2 DEF HoldingPc
  <2>4. inFlight' = inFlight
    BY <2>1, CountUntouched
  <2>5. InFlightExact'
    BY <1>0, <1>1, <2>2, <2>3, <2>4, HoldersKept
  <2>6. PoolNext
    BY <1>0, <2>1 DEF PoolNext, Requests
  <2>. QED  BY <2>5, <2>6
<1>2. CASE Acquire(r)
  <2>1. InFlightExact'
    BY <1>0, <1>2, HoldersAcquired
  <2>2. proc[r].key \in Key /\ pc[r] \notin HoldingPc
    BY <1>0, <1>2 DEF LocalInv, KeyInHand, Acquire, Goto, HoldingPc
  <2>3. inFlight[proc[r].key] < MaxInFlight
    BY <1>0, <2>2, RoomForOne
  <2>4. PoolNext
    BY <1>2, <2>2, <2>3 DEF Acquire, PoolNext, Requests
  <2>. QED  BY <2>1, <2>4
<1>. QED  BY <1>1, <1>2 DEF Forward, SelectForClient, SelectAgain, HoldingPc

\* The wake-up keeps the count exact, and its steps are pool steps.
LEMMA WakeUpStep ==
  ASSUME RetryInv, NEW p \in Process, Begin(p) \/ WakeUp(p)
  PROVE  InFlightExact' /\ [PoolNext]_poolVars
<1>0. /\ PoolTypeOK /\ LocalInv /\ InFlightExact
      /\ proc \in [Process -> Local] /\ pc \in [Process -> RequestPc]
  BY DEF RetryInv, PoolInv, LocalInv, LocalTypeOK
<1>1. CASE Probe(p)
  <2>1. PICK k \in proc[p].todo : UNCHANGED poolVars \/ MarkRecovered(k)
    BY <1>1 DEF Probe
  <2>2. k \in Key
    BY <1>0, <2>1 DEF Local
  <2>3. [PoolNext]_poolVars
    BY <2>1, <2>2 DEF PoolNext, Requests
  <2>4. Moves(p, "probe", "probe")
    BY <1>0, <1>1 DEF Probe, Moves
  <2>5. inFlight' = inFlight
    BY <2>1, CountUntouched
  <2>. QED  BY <1>0, <2>3, <2>4, <2>5, HoldersKept DEF HoldingPc
<1>2. CASE Begin(p) \/ WakeCheck(p) \/ WakeSwap(p) \/ WakeList(p) \/ WakeFilter(p)
           \/ ProbesDone(p) \/ WakeCool(p) \/ WakeFree(p)
  <2>1. UNCHANGED poolVars
    BY <1>2
    DEF Begin, WakeCheck, WakeSwap, WakeList, WakeFilter, ProbesDone, WakeCool, WakeFree
  <2>2. inFlight' = inFlight
    BY <2>1, CountUntouched
  <2>3. \E from, to : from \notin HoldingPc /\ to \notin HoldingPc /\ Moves(p, from, to)
    <3>1. CASE Begin(p)
      BY <1>0, <3>1 DEF Begin, Moves, HoldingPc
    <3>2. CASE WakeCheck(p) \/ WakeSwap(p)
      BY <1>0, <3>2 DEF WakeCheck, WakeSwap, Leave, Moves, HoldingPc
    <3>3. CASE WakeList(p) \/ WakeFilter(p)
      BY <1>0, <3>3 DEF WakeList, WakeFilter, Moves, HoldingPc
    <3>4. CASE ProbesDone(p) \/ WakeCool(p) \/ WakeFree(p)
      BY <1>0, <3>4 DEF ProbesDone, WakeCool, WakeFree, Leave, Moves, HoldingPc
    <3>. QED  BY <1>2, <3>1, <3>2, <3>3, <3>4
  <2>. QED  BY <1>0, <2>1, <2>2, <2>3, HoldersKept
<1>. QED  BY <1>1, <1>2 DEF WakeUp

\* The answer of upstream keeps the count exact and is a pool step.
LEMMA AnswerStep ==
  ASSUME RetryInv, NEW r \in Request, Answer(r) \/ Reply(r)
  PROVE  InFlightExact' /\ [PoolNext]_poolVars
<1>0. /\ PoolTypeOK /\ LocalInv /\ InFlightExact /\ r \in Process
      /\ proc \in [Process -> Local] /\ pc \in [Process -> RequestPc]
      /\ pc[r] \in HoldingPc => proc[r].key \in Key
  BY DEF RetryInv, PoolInv, LocalInv, LocalTypeOK, KeyInHand, Process
<1>1. CASE UpstreamError(r) \/ Finish(r)
  <2>1. PICK from \in {"upstream", "finish"} : Moves(r, from, "idle")
    BY <1>0, <1>1 DEF UpstreamError, Finish, Leave, Moves
  <2>2. ReleaseInFlight(proc[r].key)
    BY <1>1 DEF UpstreamError, Finish
  <2>3. from \in HoldingPc /\ "idle" \notin HoldingPc /\ proc[r].key \in Key
    BY <1>0, <2>1 DEF Moves, Goto, HoldingPc
  <2>4. InFlightExact'
    BY <1>0, <2>1, <2>2, <2>3, HoldersReleased
  <2>5. PoolNext
    BY <2>2, <2>3 DEF PoolNext, Requests
  <2>. QED  BY <2>4, <2>5
<1>2. CASE UpstreamOk(r) \/ UpstreamFails(r) \/ Respond(r)
  <2>1. PICK from \in HoldingPc, to \in HoldingPc :
          Moves(r, from, to) /\ proc'[r].key = proc[r].key
    <3>1. CASE UpstreamOk(r)
      BY <1>0, <3>1 DEF UpstreamOk, Moves, HoldingPc, Local
    <3>2. CASE UpstreamFails(r)
      <4>1. PICK status : proc' = [proc EXCEPT ![r].status = status]
        BY <3>2 DEF UpstreamFails
      <4>2. PICK to \in {"respond", "judge"} : Goto(r, "upstream", to)
        BY <3>2 DEF UpstreamFails
      <4>. QED  BY <1>0, <4>1, <4>2 DEF Moves, HoldingPc, Local
    <3>3. CASE Respond(r)
      BY <1>0, <3>3 DEF Respond, Moves, HoldingPc
    <3>. QED  BY <1>2, <3>1, <3>2, <3>3
  <2>2. proc[r].key \in Key
    BY <1>0, <2>1 DEF Moves, Goto
  <2>3. \/ UNCHANGED poolVars
        \/ MarkRecovered(proc[r].key)
        \/ \E code \in Code : MarkExhausted(proc[r].key, code)
        \/ \E n \in 1 .. MaxTokens : RecordTokens(proc[r].key, n)
    <3>1. CASE UpstreamOk(r)
      BY <3>1 DEF UpstreamOk
    <3>2. CASE UpstreamFails(r)
      BY <3>2 DEF UpstreamFails, CodeOf429
    <3>3. CASE Respond(r)
      BY <3>3 DEF Respond
    <3>. QED  BY <1>2, <3>1, <3>2, <3>3
  <2>4. inFlight' = inFlight
    BY <2>3, CountUntouched
  <2>5. InFlightExact'
    BY <1>0, <2>1, <2>4, HoldersKept
  <2>6. [PoolNext]_poolVars
    BY <2>2, <2>3 DEF PoolNext, Requests
  <2>. QED  BY <2>5, <2>6
<1>. QED  BY <1>1, <1>2 DEF Answer, Reply

\* The retry loop keeps the count exact, and its steps are pool steps.
LEMMA RetryLoopStep ==
  ASSUME RetryInv, NEW r \in Request, RetryLoop(r)
  PROVE  InFlightExact' /\ [PoolNext]_poolVars
<1>0. /\ PoolTypeOK /\ LocalInv /\ InFlightExact /\ r \in Process
      /\ proc \in [Process -> Local] /\ pc \in [Process -> RequestPc]
      /\ pc[r] \in HoldingPc \cup {"after429"} => proc[r].key \in Key
  BY DEF RetryInv, PoolInv, LocalInv, LocalTypeOK, KeyInHand, Process
<1>1. CASE RetrySameKey(r) \/ CloseLimited(r) \/ CloseAndRetry(r)
  <2>1. PICK from \in HoldingPc, to \in {"select", "after429"} : Moves(r, from, to)
    BY <1>0, <1>1 DEF RetrySameKey, CloseLimited, CloseAndRetry, Retry, Moves, HoldingPc
  <2>2. ReleaseInFlight(proc[r].key)
    BY <1>1 DEF RetrySameKey, CloseLimited, CloseAndRetry, Retry
  <2>3. to \notin HoldingPc /\ proc[r].key \in Key
    BY <1>0, <2>1 DEF Moves, Goto, HoldingPc
  <2>4. InFlightExact'
    BY <1>0, <2>1, <2>2, <2>3, HoldersReleased
  <2>5. PoolNext
    BY <2>2, <2>3 DEF PoolNext, Requests
  <2>. QED  BY <2>4, <2>5
<1>2. CASE RateLimit(r)
  <2>1. Moves(r, "judge", "limited") /\ proc' = proc
    BY <1>2 DEF RateLimit, Moves
  <2>2. inFlight' = inFlight
    BY <1>2, CountUntouched DEF RateLimit
  <2>3. InFlightExact'
    BY <1>0, <2>1, <2>2, HoldersKept DEF HoldingPc
  <2>4. proc[r].key \in Key
    BY <1>0, <2>1 DEF Moves, Goto, HoldingPc
  <2>5. PoolNext
    BY <1>2, <2>4 DEF RateLimit, PoolNext, Requests
  <2>. QED  BY <2>3, <2>5
<1>3. CASE After429(r)
  <2>1. PICK k \in Key \cup {NoKey} : SelectNextActiveKey(proc[r].key, k)
    BY <1>3 DEF After429
  <2>2. Moves(r, "after429", "select")
    BY <1>0, <1>3 DEF After429, Moves
  <2>3. inFlight' = inFlight
    BY <2>1, CountUntouched
  <2>4. InFlightExact'
    BY <1>0, <2>2, <2>3, HoldersKept DEF HoldingPc
  <2>5. proc[r].key \in Key
    BY <1>0, <2>2 DEF Moves, Goto
  <2>6. PoolNext
    BY <2>1, <2>5 DEF PoolNext, Requests
  <2>. QED  BY <2>4, <2>6
<1>4. CASE Converge(r) \/ FlagProbe(r)
  <2>1. UNCHANGED poolVars
    BY <1>4 DEF Converge, FlagProbe
  <2>2. inFlight' = inFlight
    BY <2>1, CountUntouched
  <2>3. PICK from \in HoldingPc, to \in HoldingPc :
          Moves(r, from, to) /\ proc'[r].key = proc[r].key
    <3>1. CASE Converge(r)
      <4>1. PICK to \in {"respond", "next"} : Goto(r, "judge", to)
        BY <3>1 DEF Converge
      <4>2. \/ proc' = proc
            \/ \E why, streak : proc' = [proc EXCEPT ![r].code = why, ![r].streak = streak]
        BY <3>1 DEF Converge
      <4>3. Moves(r, "judge", to) /\ proc'[r].key = proc[r].key
        BY <1>0, <4>1, <4>2 DEF Moves, Local
      <4>. QED  BY <4>1, <4>3 DEF HoldingPc
    <3>2. CASE FlagProbe(r)
      BY <1>0, <3>2 DEF FlagProbe, Moves, HoldingPc, Local
    <3>. QED  BY <1>4, <3>1, <3>2
  <2>4. InFlightExact'
    BY <1>0, <2>2, <2>3, HoldersKept
  <2>. QED  BY <2>1, <2>4
<1>5. CASE NextKey(r)
  <2>1. PICK k \in Key \cup {NoKey} :
          /\ SelectKey(k)
          /\ IF k \in {NoKey, proc[r].key}
               THEN Goto(r, "next", "respond") /\ UNCHANGED proc
               ELSE Goto(r, "next", "flag") /\ proc' = [proc EXCEPT ![r].next = k]
    BY <1>5 DEF NextKey
  <2>2. inFlight' = inFlight
    BY <2>1, CountUntouched
  <2>3. PICK to \in {"respond", "flag"} : Moves(r, "next", to) /\ proc'[r].key = proc[r].key
    BY <1>0, <2>1 DEF Moves, Local
  <2>4. InFlightExact'
    BY <1>0, <2>2, <2>3, HoldersKept DEF HoldingPc
  <2>5. PoolNext
    BY <2>1 DEF PoolNext, Requests
  <2>. QED  BY <2>4, <2>5
<1>. QED  BY <1>1, <1>2, <1>3, <1>4, <1>5 DEF RetryLoop

\* The invariant is inductive, and every step is a step of the pool.
LEMMA RetryInvInit == Init => RetryInv /\ WakeUpSingleton
<1>1. SUFFICES ASSUME Init PROVE RetryInv /\ WakeUpSingleton
  OBVIOUS
<1>2. PoolInv
  BY <1>1, PoolInvInit DEF Init
<1>3. LocalInv
  <2>1. "idle" \in RequestPc /\ "idle" \notin HoldingPc \cup {"acquire", "after429"}
    BY DEF RequestPc, HoldingPc
  <2>2. LocalTypeOK
    <3>1. /\ pc \in [Process -> RequestPc] /\ proc \in [Process -> Local]
          /\ wakeBusy \in BOOLEAN
      BY <1>1, <2>1, FreshIsLocal DEF Init
    <3>2. wakeWait \in 0 .. WakeUpCooldown /\ failures \in 0 .. MaxFailures
      BY <1>1, RetryAssumption DEF Init
    <3>. QED  BY <3>1, <3>2 DEF LocalTypeOK
  <2>3. KeyInHand
    BY <1>1, <2>1 DEF Init, KeyInHand, Process
  <2>. QED  BY <2>2, <2>3 DEF LocalInv
<1>4. \A k \in Key : Holders(k) = {}
  BY <1>1 DEF Init, Holders, HoldingPc, Process
<1>5. InFlightExact
  BY <1>1, <1>4, FS_EmptySet DEF InFlightExact, Init, PoolInit
<1>6. WakeUpSingleton
  BY <1>1 DEF Init, WakeUpSingleton, Wakers, WakingPc
<1>. QED  BY <1>2, <1>3, <1>5, <1>6 DEF RetryInv

\* Every step of the requests, the administrator and the clock is one step of
\* the pool or none.
LEMMA RetryStepIsPoolStep ==
  ASSUME RetryInv, [Next]_vars
  PROVE  InFlightExact' /\ [PoolNext]_poolVars
<1>1. CASE Environment
  <2>1. PICK k \in Key : BlockKey(k) \/ UnblockKey(k)
    BY <1>1 DEF Environment, Administrator
  <2>2. UNCHANGED <<pc, proc, inFlight>>
    BY <1>1, <2>1 DEF Environment, BlockKey, UnblockKey, load
  <2>3. InFlightExact'
    BY <2>2 DEF RetryInv, InFlightExact, Holders
  <2>. QED  BY <1>1, <2>3 DEF Environment, PoolNext
<1>2. CASE Time
  <2>1. UNCHANGED <<pc, proc, inFlight>>
    BY <1>2 DEF Time, Tick
  <2>2. InFlightExact'
    BY <2>1 DEF RetryInv, InFlightExact, Holders
  <2>. QED  BY <1>2, <2>2 DEF Time, PoolNext
<1>3. CASE UNCHANGED vars
  <2>1. UNCHANGED <<pc, proc, inFlight>> /\ UNCHANGED poolVars
    BY <1>3 DEF vars, poolVars, load
  <2>. QED  BY <2>1 DEF RetryInv, InFlightExact, Holders
<1>4. ASSUME NEW p \in Process, Begin(p) \/ WakeUp(p)
      PROVE  InFlightExact' /\ [PoolNext]_poolVars
  BY <1>4, WakeUpStep
<1>5. ASSUME NEW r \in Request, Serve(r)
      PROVE  InFlightExact' /\ [PoolNext]_poolVars
  BY <1>5, ForwardStep, AnswerStep, RetryLoopStep DEF Serve
<1>. QED  BY <1>1, <1>2, <1>3, <1>4, <1>5 DEF Next

\* The invariant is inductive.
LEMMA RetryInvStep == RetryInv /\ [Next]_vars => RetryInv'
<1>1. SUFFICES ASSUME RetryInv, [Next]_vars PROVE RetryInv'
  OBVIOUS
<1>2. InFlightExact' /\ [PoolNext]_poolVars
  BY <1>1, RetryStepIsPoolStep
<1>3. PoolInv'
  BY <1>1, <1>2, PoolInvStep DEF RetryInv
<1>4. LocalInv'
  BY <1>1, LocalInvStep DEF RetryInv
<1>. QED  BY <1>2, <1>3, <1>4 DEF RetryInv

----------------------------------------------------------------------------
(* The results. *)

\* Type correctness of the requests, the wake-up and the pool together.
THEOREM TypeCorrect == Spec => []TypeOK
<1>1. RetryInv => TypeOK
  BY DEF RetryInv, PoolInv, LocalInv, LocalTypeOK, TypeOK
<1>2. Init => RetryInv
  BY RetryInvInit
<1>. QED  BY <1>1, <1>2, RetryInvStep, PTL DEF Spec

\* forwardRequest's in-flight count of a key is the number of requests that
\* hold it, on every path through the retries and the error returns: the
\* least-loaded scheduling never drifts.
THEOREM InFlightIsExact == Spec => []InFlightExact
<1>1. RetryInv => InFlightExact
  BY DEF RetryInv
<1>2. Init => RetryInv
  BY RetryInvInit
<1>. QED  BY <1>1, <1>2, RetryInvStep, PTL DEF Spec

\* wakeUpInProgress admits one prober at a time and is never left set, for
\* any number of requests that run out of keys at once.
THEOREM WakeUpIsSingleton == Spec => []WakeUpSingleton
<1> DEFINE Inv == RetryInv /\ WakeUpSingleton
<1>1. Init => Inv
  BY RetryInvInit
<1>2. Inv /\ [Next]_vars => Inv'
  BY RetryInvStep, WakeUpSingletonStep DEF RetryInv
<1>3. Inv => WakeUpSingleton
  OBVIOUS
<1>. QED  BY <1>1, <1>2, <1>3, PTL DEF Spec

\* Requests, wake-ups, the administrator and the clock drive the pool through
\* its methods alone: every behaviour of KeyRetry is a behaviour of KeyPool.
THEOREM RetryImplementsPool == Spec => ImplementsPool
<1>1. RetryInv /\ [Next]_vars => [PoolNext]_poolVars
  BY RetryStepIsPoolStep
<1>2. Init => RetryInv /\ PoolInit
  BY RetryInvInit DEF Init
<1>. QED
  BY <1>1, <1>2, RetryInvStep, PTL DEF Spec, ImplementsPool, PoolSpec

\* So what holds of every pool holds under the retry loop: nothing re-arms a
\* cooldown, and no key that is out for good comes back by itself.
COROLLARY RetryKeepsCooldowns ==
  Spec => CooldownNeverExtended /\ PermanentStaysExhausted
BY RetryImplementsPool, CooldownOnlyRunsDown, PermanentIsPermanent, PTL
DEF ImplementsPool
=============================================================================
