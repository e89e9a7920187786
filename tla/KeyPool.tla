------------------------------ MODULE KeyPool ------------------------------
(***************************************************************************)
(* The key pool of one upstream target: internal/proxy/keypool.go.         *)
(*                                                                         *)
(* A target with several API keys owns a pool.  Every method of the pool   *)
(* takes the pool's mutex once, so a call is one atomic step; the clock,   *)
(* the administrator and any number of request goroutines interleave       *)
(* between calls.  This module holds the pool's state and its methods;     *)
(* KeyRetry composes them with the goroutines that call them.              *)
(*                                                                         *)
(* Time.  The code stores absolute deadlines and binding times and         *)
(* compares them with time.Now().  Here a deadline is the time that is     *)
(* left (cool) and a binding time is the age of the binding (idle); Tick   *)
(* moves both.  idle saturates at AffinityTTL, from where the code makes   *)
(* no further distinction: older bindings are all evicted first.           *)
(***************************************************************************)
EXTENDS Integers, FiniteSets

CONSTANTS
  N,                 \* number of keys; a key is its index, as in the code
  Client,            \* affinity identities ("ip|access key")
  Code,              \* error codes isKeyExhausted can report for the provider
  ResetIn,           \* times to the next quota reset; 0: none, or in the past
  RateLimitCooldown, \* 5 s
  HardCooldown,      \* 5 min
  Permanent,         \* the year 9999
  RebalanceInterval, \* 30 s
  AffinityTTL,       \* 10 min
  MaxAffinity,       \* maxAffinityEntries, 10000
  CounterWrap,       \* 2^32, the range of rrCounter
  MaxTokens,         \* bound on the tokens counted for one key
  MaxInFlight        \* bound on the requests in flight on one key

TimedCode == {"invalid_token", "billing_error", "account_disabled"}
KnownCode == TimedCode \cup {"quota_exceeded", "Arrearage",
                             "free_tier_exhausted", "AccessDenied.Unpurchased"}

ASSUME KeysAssumption == N \in Nat /\ N >= 2
ASSUME ClientAssumption == IsFiniteSet(Client)
ASSUME CodeAssumption == Code \subseteq KnownCode
ASSUME TimeAssumption ==
  /\ RateLimitCooldown \in Nat \ {0} /\ HardCooldown \in Nat \ {0}
  /\ Permanent \in Nat
  /\ Permanent > RateLimitCooldown /\ Permanent > HardCooldown
  /\ ResetIn \subseteq 0 .. Permanent - 1
  /\ RebalanceInterval \in Nat /\ AffinityTTL \in Nat
  /\ RebalanceInterval <= AffinityTTL
ASSUME BoundsAssumption ==
  /\ MaxAffinity \in Nat \ {0} /\ CounterWrap \in Nat \ {0}
  /\ MaxTokens \in Nat /\ MaxInFlight \in Nat

VARIABLES
  reason,    \* exhaustReason of each key, "none" while it is not exhausted
  cool,      \* time to cooldownEnd
  blocked,   \* keys an administrator has taken out
  tokens,    \* tokens in the sliding window
  inFlight,  \* requests being forwarded with the key
  rr,        \* rrCounter
  bound,     \* clientAffinity, NoKey where the map has no entry
  idle       \* age of clientAffinityAt

health == <<reason, cool, blocked>>
load == <<tokens, inFlight>>
affinity == <<bound, idle>>
poolVars == <<health, load, rr, affinity>>

Key == 0 .. N - 1
NoKey == -1
Reason == {"none", "rate_limited", "quota_exceeded_subscription",
           "quota_exceeded_api"} \cup (KnownCode \ {"quota_exceeded"})

PoolTypeOK ==
  /\ reason \in [Key -> Reason]
  /\ cool \in [Key -> 0 .. Permanent]
  /\ blocked \in [Key -> BOOLEAN]
  /\ tokens \in [Key -> 0 .. MaxTokens]
  /\ inFlight \in [Key -> Nat]
  /\ rr \in 0 .. CounterWrap - 1
  /\ bound \in [Client -> Key \cup {NoKey}]
  /\ idle \in [Client -> 0 .. AffinityTTL]

PoolInit ==
  /\ reason = [k \in Key |-> "none"]
  /\ cool = [k \in Key |-> 0]
  /\ blocked = [k \in Key |-> FALSE]
  /\ tokens = [k \in Key |-> 0]
  /\ inFlight = [k \in Key |-> 0]
  /\ rr = 0
  /\ bound = [c \in Client |-> NoKey]
  /\ idle = [c \in Client |-> 0]
----------------------------------------------------------------------------
(* Which key a scan of the entries stops at. *)

Active(k) == reason[k] = "none" /\ ~blocked[k]
ActiveKeys == {k \in Key : Active(k)}

\* Keys the recovery scans accept; they run only when no key is active.
ExpiredKeys == {k \in Key : ~blocked[k] /\ cool[k] = 0}

\* The first key of S met when walking the entries cyclically from `start`.
FirstFrom(start, S) ==
  CHOOSE k \in S : \A j \in S : (k - start + N) % N <= (j - start + N) % N

\* scoreLessLocked: fewer requests in flight, then fewer tokens.
LessLoaded(a, b) ==
  \/ inFlight[a] < inFlight[b]
  \/ inFlight[a] = inFlight[b] /\ tokens[a] < tokens[b]

\* bestActiveKeyLocked: the scan keeps the lowest index among equals.
BestActive ==
  CHOOSE k \in ActiveKeys :
    \A j \in ActiveKeys : ~LessLoaded(j, k) /\ (j < k => LessLoaded(k, j))

LoadSignal == \E k \in ActiveKeys : inFlight[k] > 0 \/ tokens[k] > 0

\* Third round of selectKey; a rate limited key is not worth a probe.
DesperateKeys == {k \in Key : ~blocked[k] /\ reason[k] # "rate_limited"}
ShortestCooldown(S) ==
  CHOOSE k \in S : \A j \in S :
    cool[k] < cool[j] \/ (cool[k] = cool[j] /\ k <= j)
----------------------------------------------------------------------------
(* Client affinity. *)

BoundClients == {c \in Client : bound[c] # NoKey}
StaleClients == {c \in BoundClients : idle[c] >= AffinityTTL}

\* Mutant: lets the table grow by one past its capacity.
EvictionsOffByOne ==
  IF Cardinality(BoundClients) <= MaxAffinity THEN {{}} ELSE {StaleClients}

\* evictStaleAffinityLocked: nothing below capacity; else every stale entry
\* and then, oldest first, as many others as needed.  Among bindings of one
\* age Go's map order decides.
Evictions ==
  IF Cardinality(BoundClients) < MaxAffinity THEN {{}}
  ELSE {E \in SUBSET BoundClients :
          /\ StaleClients \subseteq E
          /\ Cardinality(BoundClients \ E) < MaxAffinity
          /\ E = StaleClients \/ Cardinality(BoundClients \ E) = MaxAffinity - 1
          /\ \A c \in E, d \in BoundClients \ E : idle[c] >= idle[d]}

\* bindLocked
Bind(c, k) ==
  \E E \in IF bound[c] = NoKey THEN Evictions ELSE {{}} :
    /\ bound' = [d \in Client |->
                   IF d = c THEN k ELSE IF d \in E THEN NoKey ELSE bound[d]]
    /\ idle' = [d \in Client |-> IF d = c \/ d \in E THEN 0 ELSE idle[d]]
----------------------------------------------------------------------------
(* Changes of a key's health. *)

\* The assignments that clear an exhaustion; blocked is left alone.
Recover(k) ==
  /\ reason' = [reason EXCEPT ![k] = "none"]
  /\ cool' = [cool EXCEPT ![k] = 0]

Exhaust(k, why, time) ==
  /\ reason' = [reason EXCEPT ![k] = why]
  /\ cool' = [cool EXCEPT ![k] = time]

ExhaustWithCode(k, code) ==
  \/ /\ code = "quota_exceeded"
     /\ \E t \in ResetIn :
          IF t > 0 THEN Exhaust(k, "quota_exceeded_subscription", t)
                   ELSE Exhaust(k, "quota_exceeded_api", Permanent)
  \/ code = "rate_limited" /\ Exhaust(k, code, RateLimitCooldown)
  \/ code \in TimedCode /\ Exhaust(k, code, HardCooldown)
  \/ /\ code \notin TimedCode \cup {"quota_exceeded", "rate_limited"}
     /\ Exhaust(k, code, Permanent)

\* Mutant: marks a key again that is exhausted already.
MarkExhaustedAgain(k, code) ==
  /\ ExhaustWithCode(k, code)
  /\ UNCHANGED <<blocked, load, rr, affinity>>

\* markExhaustedWithError: a key that is exhausted already keeps its reason
\* and its deadline.
MarkExhausted(k, code) ==
  /\ IF reason[k] = "none"
       THEN ExhaustWithCode(k, code)
       ELSE UNCHANGED <<reason, cool>>
  /\ UNCHANGED <<blocked, load, rr, affinity>>

MarkRecovered(k) ==
  /\ IF reason[k] # "none" THEN Recover(k) ELSE UNCHANGED <<reason, cool>>
  /\ UNCHANGED <<blocked, load, rr, affinity>>

BlockKey(k) ==
  /\ blocked' = [blocked EXCEPT ![k] = TRUE]
  /\ UNCHANGED <<reason, cool, load, rr, affinity>>

\* unblockKey also clears whatever the key was exhausted for.
UnblockKey(k) ==
  /\ blocked' = [blocked EXCEPT ![k] = FALSE]
  /\ Recover(k)
  /\ UNCHANGED <<load, rr, affinity>>
----------------------------------------------------------------------------
(* The selections.  Each is a step of the pool that returns k, or NoKey. *)

\* First round of selectKey.
SelectInTurn(k) ==
  /\ ActiveKeys # {}
  /\ k = FirstFrom(rr % N, ActiveKeys)
  /\ rr' = (rr + 1) % CounterWrap
  /\ UNCHANGED <<health, load, affinity>>

\* The recovery round of selectKey and of selectNextActiveKey.
SelectExpired(k) ==
  /\ ActiveKeys = {} /\ ExpiredKeys # {}
  /\ k = FirstFrom(0, ExpiredKeys)
  /\ Recover(k)
  /\ UNCHANGED <<blocked, load, rr, affinity>>

\* Third round of selectKey: the key is returned and stays exhausted.
SelectDesperate(k) ==
  /\ ActiveKeys = {} /\ ExpiredKeys = {}
  /\ k = IF DesperateKeys # {} THEN ShortestCooldown(DesperateKeys) ELSE NoKey
  /\ UNCHANGED poolVars

SelectKey(k) == SelectInTurn(k) \/ SelectExpired(k) \/ SelectDesperate(k)

SelectNextActiveKey(after, k) ==
  \/ /\ ActiveKeys # {}
     /\ k = FirstFrom((after + 1) % N, ActiveKeys)
     /\ UNCHANGED poolVars
  \/ SelectExpired(k)
  \/ /\ ActiveKeys = {} /\ ExpiredKeys = {}
     /\ k = NoKey
     /\ UNCHANGED poolVars

BoundKeyActive(c) == bound[c] # NoKey /\ Active(bound[c])

\* A live binding younger than rebalanceInterval is used as it is.
ReuseBinding(c, k) ==
  /\ BoundKeyActive(c) /\ idle[c] < RebalanceInterval
  /\ k = bound[c]
  /\ UNCHANGED poolVars

\* Mutant: rebalances to the next key instead of to a less loaded one.
RebalanceInTurn(c, k) ==
  /\ BoundKeyActive(c) /\ idle[c] >= RebalanceInterval
  /\ k = FirstFrom((bound[c] + 1) % N, ActiveKeys)
  /\ Bind(c, k)
  /\ UNCHANGED <<health, load, rr>>

\* An older one moves if some key is strictly less loaded, and is renewed.
Rebalance(c, k) ==
  /\ BoundKeyActive(c) /\ idle[c] >= RebalanceInterval
  /\ k = IF LessLoaded(BestActive, bound[c]) THEN BestActive ELSE bound[c]
  /\ Bind(c, k)
  /\ UNCHANGED <<health, load, rr>>

AssignLeastLoaded(c, k) ==
  /\ bound[c] = NoKey /\ ActiveKeys # {} /\ LoadSignal
  /\ k = BestActive
  /\ Bind(c, k)
  /\ UNCHANGED <<health, load, rr>>

\* Mutant: the round-robin loop forgets to skip blocked keys.
AssignUnblocked(c, k) ==
  /\ bound[c] = NoKey /\ ActiveKeys # {} /\ ~LoadSignal
  /\ k = FirstFrom(rr % N, {j \in Key : reason[j] = "none"})
  /\ rr' = (rr + 1) % CounterWrap
  /\ Bind(c, k)
  /\ UNCHANGED <<health, load>>

\* The round-robin loop consumes one counter value per key it looks at, at
\* most N.  Where the counter wraps it repeats or skips an index, so N values
\* may miss the only active key; the overflow scan below the loop finds it.
AssignInTurn(c, k) ==
  /\ bound[c] = NoKey /\ ActiveKeys # {} /\ ~LoadSignal
  /\ LET At(d) == ((rr + d) % CounterWrap) % N
         hits == {d \in 0 .. N - 1 : At(d) \in ActiveKeys}
         first == CHOOSE d \in hits : \A e \in hits : d <= e
         seen == IF hits # {} THEN first + 1 ELSE N
     IN /\ rr' = (rr + seen) % CounterWrap
        /\ k = IF hits # {} THEN At(first) ELSE FirstFrom(rr' % N, ActiveKeys)
  /\ Bind(c, k)
  /\ UNCHANGED <<health, load>>

\* The bound key is out: the client moves to the next active one.
Overflow(c, k) ==
  /\ bound[c] # NoKey /\ ~Active(bound[c]) /\ ActiveKeys # {}
  /\ k = FirstFrom(rr % N, ActiveKeys)
  /\ Bind(c, k)
  /\ UNCHANGED <<health, load, rr>>

\* Mutant: recovers the key with the shortest cooldown, expired or not.
RecoverAnyForClient(c, k) ==
  /\ ActiveKeys = {} /\ \E j \in Key : ~blocked[j]
  /\ k = ShortestCooldown({j \in Key : ~blocked[j]})
  /\ Recover(k)
  /\ Bind(c, k)
  /\ UNCHANGED <<blocked, load, rr>>

\* Mutant: a client call has no recovery round.
NoRecoveryForClient(c, k) == FALSE

RecoverForClient(c, k) ==
  /\ ActiveKeys = {} /\ ExpiredKeys # {}
  /\ k = FirstFrom(0, ExpiredKeys)
  /\ Recover(k)
  /\ Bind(c, k)
  /\ UNCHANGED <<blocked, load, rr>>

NothingForClient(c, k) ==
  /\ ActiveKeys = {} /\ ExpiredKeys = {}
  /\ k = NoKey
  /\ UNCHANGED poolVars

SelectKeyForClient(c, k) ==
  \/ ReuseBinding(c, k)
  \/ Rebalance(c, k)
  \/ AssignLeastLoaded(c, k)
  \/ AssignInTurn(c, k)
  \/ Overflow(c, k)
  \/ RecoverForClient(c, k)
  \/ NothingForClient(c, k)
----------------------------------------------------------------------------
(* Load accounting and time. *)

RecordTokens(k, n) ==
  /\ tokens[k] + n <= MaxTokens
  /\ tokens' = [tokens EXCEPT ![k] = @ + n]
  /\ UNCHANGED <<health, inFlight, rr, affinity>>

AcquireInFlight(k) ==
  /\ inFlight' = [inFlight EXCEPT ![k] = @ + 1]
  /\ UNCHANGED <<health, tokens, rr, affinity>>

\* The floor guards against a release too many.
ReleaseInFlight(k) ==
  /\ inFlight' = [inFlight EXCEPT ![k] = IF @ > 0 THEN @ - 1 ELSE 0]
  /\ UNCHANGED <<health, tokens, rr, affinity>>

\* Mutant: a timer runs past its deadline.
TickUnclamped ==
  /\ cool' = [k \in Key |-> IF cool[k] < Permanent THEN cool[k] - 1 ELSE cool[k]]
  /\ UNCHANGED <<reason, blocked, load, rr, affinity>>

\* Samples carry no age here, so any part of the window may have left it.
Tick ==
  /\ cool' = [k \in Key |->
                IF cool[k] \in 1 .. Permanent - 1 THEN cool[k] - 1 ELSE cool[k]]
  /\ idle' = [c \in Client |->
                IF bound[c] # NoKey /\ idle[c] < AffinityTTL
                  THEN idle[c] + 1 ELSE idle[c]]
  /\ tokens' \in [Key -> 0 .. MaxTokens]
  /\ \A k \in Key : tokens'[k] <= tokens[k]
  /\ UNCHANGED <<reason, blocked, inFlight, rr, bound>>
----------------------------------------------------------------------------
(* The pool on its own: anybody may call any method at any time. *)

Requests ==
  \/ \E k \in Key \cup {NoKey} :
       \/ SelectKey(k)
       \/ \E c \in Client : SelectKeyForClient(c, k)
       \/ \E after \in Key : SelectNextActiveKey(after, k)
  \/ \E k \in Key :
       \/ \E code \in Code \cup {"rate_limited"} : MarkExhausted(k, code)
       \/ MarkRecovered(k)
       \/ inFlight[k] < MaxInFlight /\ AcquireInFlight(k)
       \/ ReleaseInFlight(k)
       \/ \E n \in 1 .. MaxTokens : RecordTokens(k, n)

Administrator == \E k \in Key : BlockKey(k) \/ UnblockKey(k)

PoolNext == Requests \/ Administrator \/ Tick

PoolSpec == PoolInit /\ [][PoolNext]_poolVars

\* Time passes, and every client keeps asking for keys.
FairPoolSpec ==
  /\ PoolSpec
  /\ WF_poolVars(Tick)
  /\ \A c \in Client :
       WF_poolVars(\E k \in Key \cup {NoKey} : SelectKeyForClient(c, k))
----------------------------------------------------------------------------
(* Properties. *)

\* The affinity table never outgrows its capacity, whatever the ages of its
\* entries (bindLocked evicts before it inserts).
AffinityWithinCapacity == Cardinality(BoundClients) <= MaxAffinity

\* selectKeyForClient never binds a client to a key that is exhausted or
\* blocked at the end of the call, on any of its five ways to bind.
BindsOnlyActiveKeys ==
  [][\A c \in Client :
       bound'[c] \notin {bound[c], NoKey}
         => \E k \in Key : k = bound'[c] /\ Active(k)']_poolVars

\* A client is moved off a key that still works only by the rebalancing, to
\* a key that carried strictly less load; eviction aside, no call steals it.
LiveBindingMovesOnlyToLessLoaded ==
  [][\A c \in Client :
       BoundKeyActive(c) /\ bound'[c] \notin {bound[c], NoKey}
         => /\ idle[c] >= RebalanceInterval
            /\ LessLoaded(bound'[c], bound[c])]_poolVars

\* A key exhausted for good comes back only when the administrator unblocks
\* it or a request or a probe proves it works: no clock and no selection
\* revives it, and no later, milder error shortens its cooldown.
PermanentStaysExhausted ==
  [][\A k \in Key :
       cool[k] = Permanent /\ cool'[k] # Permanent
         => UnblockKey(k) \/ MarkRecovered(k)]_poolVars

\* A deadline set once only runs down: nothing re-arms the cooldown of a key
\* that is still exhausted, so repeated failures cannot keep it out forever.
CooldownNeverExtended ==
  [][\A k \in Key :
       reason[k] # "none" /\ reason'[k] # "none"
         => cool'[k] <= cool[k] /\ reason'[k] = reason[k]]_poolVars

\* While clients keep asking, a pool that has run out of active keys gets one
\* back, as long as one of its keys is neither blocked nor out for good.
Recoverable == \E k \in Key : ~blocked[k] /\ cool[k] < Permanent
PoolComesBack ==
  ActiveKeys = {} /\ Recoverable ~> ActiveKeys # {} \/ ~Recoverable

\* The comment on markRateLimited (keypool.go:462): a rate limit is temporary
\* and the key recovers by itself after the cooldown.  Blocked keys aside.
RateLimitedKeyRecovers ==
  \A k \in Key :
    LET limited == reason[k] = "rate_limited" /\ ~blocked[k]
    IN limited ~> ~limited
=============================================================================
