------------------------------ MODULE KeyRetry ------------------------------
(***************************************************************************)
(* Requests on the key pool of one target: forwardRequest with its wake-up *)
(* (internal/proxy/forward.go), the retry loop over keys of ServeHTTP and  *)
(* the administrator's WakeUpKeys (internal/proxy/service.go).             *)
(*                                                                         *)
(* A step is one critical section of the pool or one answer from upstream; *)
(* every other request, the administrator and the clock may run between    *)
(* two steps.  Choosing a target and failing over to another one happen    *)
(* around this loop and are not part of it: a request that leaves the loop *)
(* is idle again.                                                          *)
(*                                                                         *)
(* Sleeping between retries is not a step: a goroutine may be slow before  *)
(* any step.                                                               *)
(***************************************************************************)
EXTENDS KeyPool

CONSTANTS
  Request,        \* request goroutines
  Admin,          \* the goroutine of POST wake-up in the admin interface
  ClientOf,       \* the affinity identity of each request
  WakeUpCooldown, \* 1 min
  MaxRetries,     \* maxRateLimitRetries, 2
  MaxActive,      \* bound on the processes that run at a time
  MaxBlocked,     \* bound on the keys blocked at a time
  MaxFailures     \* bound on the failing answers upstream gives

ASSUME RequestAssumption ==
  /\ IsFiniteSet(Request) /\ Admin \notin Request
  /\ Cardinality(Request) <= MaxInFlight  \* KeyPool's bound is no limit here
  /\ ClientOf \in [Request -> Client]
ASSUME RetryAssumption ==
  /\ WakeUpCooldown \in Nat /\ MaxRetries \in Nat
  /\ MaxActive \in Nat /\ MaxBlocked \in Nat /\ MaxFailures \in Nat

Process == Request \cup {Admin}

VARIABLES
  pc,         \* where each process stands
  proc,       \* the local variables of each process
  wakeWait,   \* time to wakeUpCooldown
  wakeBusy,   \* wakeUpInProgress
  failures    \* failing answers upstream may still give

wakeVars == <<wakeWait, wakeBusy>>
vars == <<poolVars, pc, proc, wakeVars, failures>>

\* From "upstream" to "finish" a request holds the key it forwards with.
HoldingPc == {"upstream", "judge", "limited", "next", "flag", "close",
              "respond", "finish"}
\* Between the compare-and-swap and the release of wakeUpInProgress.
WakingPc == {"list", "filter", "probe", "cool", "free"}
RequestPc == HoldingPc \cup WakingPc \cup
             {"idle", "select", "acquire", "after429", "wake", "cas", "reselect"}

Status == {"ok", "429", "error"}
\* Codes that a 429 answer can carry: invalid_token is reported for a 400 or
\* 401 and billing_error for a 402, the others for any failing status.
CodeOf429 == Code \ {"invalid_token", "billing_error"}

Local == [key : Key \cup {NoKey}, next : Key \cup {NoKey}, status : Status,
          retries : 0 .. MaxRetries, code : Reason, streak : Nat,
          probe : BOOLEAN, last : BOOLEAN, todo : SUBSET Key,
          woke : Key \cup {NoKey}]

TypeOK ==
  /\ PoolTypeOK
  /\ pc \in [Process -> RequestPc]
  /\ proc \in [Process -> Local]
  /\ wakeWait \in 0 .. WakeUpCooldown
  /\ wakeBusy \in BOOLEAN
  /\ failures \in 0 .. MaxFailures

Fresh == [key |-> NoKey, next |-> NoKey, status |-> "ok", retries |-> 0,
          code |-> "none", streak |-> 0, probe |-> FALSE, last |-> FALSE,
          todo |-> {}, woke |-> NoKey]

Init ==
  /\ PoolInit
  /\ pc = [p \in Process |-> "idle"]
  /\ proc = [p \in Process |-> Fresh]
  /\ wakeWait = 0
  /\ wakeBusy = FALSE
  /\ failures = MaxFailures

Goto(p, from, to) == pc[p] = from /\ pc' = [pc EXCEPT ![p] = to]

\* The process ends; its locals are gone.
Leave(p, from) == Goto(p, from, "idle") /\ proc' = [proc EXCEPT ![p] = Fresh]
----------------------------------------------------------------------------
(* forwardRequest: a key is chosen, then counted as in flight. *)

Begin(p) ==
  /\ Cardinality({q \in Process : pc[q] # "idle"}) < MaxActive
  /\ Goto(p, "idle", IF p = Admin THEN "wake" ELSE "select")
  /\ UNCHANGED <<poolVars, proc, wakeVars, failures>>

\* The first choice of a key; `failed` is where a request without one goes.
Choose(r, from, failed) ==
  \E k \in Key \cup {NoKey} :
    /\ SelectKeyForClient(ClientOf[r], k)
    /\ IF k # NoKey
         THEN /\ Goto(r, from, "acquire")
              /\ proc' = [proc EXCEPT ![r].key = k, ![r].woke = NoKey]
         ELSE IF failed = "idle"
                THEN Leave(r, from)
                ELSE Goto(r, from, failed) /\ UNCHANGED proc
    /\ UNCHANGED <<wakeVars, failures>>

SelectForClient(r) == Choose(r, "select", "wake")
SelectAgain(r) == Choose(r, "reselect", "idle")

Acquire(r) ==
  /\ Goto(r, "acquire", "upstream")
  /\ AcquireInFlight(proc[r].key)
  /\ UNCHANGED <<proc, wakeVars, failures>>
----------------------------------------------------------------------------
(* The wake-up, run by a request that found no key or by the administrator. *)

\* tryWakeUp reads the cooldown under the mutex and gives the mutex up ...
WakeCheck(p) ==
  /\ IF wakeWait > 0
       THEN Leave(p, "wake")
       ELSE Goto(p, "wake", "cas") /\ UNCHANGED proc
  /\ UNCHANGED <<poolVars, wakeVars, failures>>

\* ... before the compare-and-swap on wakeUpInProgress.
WakeSwap(p) ==
  /\ IF wakeBusy
       THEN Leave(p, "cas") /\ UNCHANGED wakeBusy
       ELSE Goto(p, "cas", "list") /\ wakeBusy' = TRUE /\ UNCHANGED proc
  /\ UNCHANGED <<poolVars, wakeWait, failures>>

\* getExhaustedKeys.  It sorts the keys by the time left; here they are
\* probed in any order.
WakeList(p) ==
  /\ proc' = [proc EXCEPT ![p].todo = Key \ ActiveKeys]
  /\ Goto(p, "list", IF p = Admin THEN "probe" ELSE "filter")
  /\ UNCHANGED <<poolVars, wakeVars, failures>>

\* getProbeableExhaustedKeys takes the mutex again to drop the hard failures.
HardFailure == Reason \ {"none"}
WakeFilter(r) ==
  /\ Goto(r, "filter", "probe")
  /\ proc' = [proc EXCEPT ![r].todo = {k \in @ : reason[k] \notin HardFailure}]
  /\ UNCHANGED <<poolVars, wakeVars, failures>>

\* Mutant: a key whose probe failed is probed again.
ProbeUntilOk(p) ==
  \E k \in proc[p].todo, works \in BOOLEAN :
    /\ Goto(p, "probe", "probe")
    /\ IF works THEN MarkRecovered(k) ELSE UNCHANGED poolVars
    /\ proc' = IF works THEN [proc EXCEPT ![p].todo = {}, ![p].woke = k]
                        ELSE proc
    /\ UNCHANGED <<wakeVars, failures>>

\* probeKey answers, and markRecovered follows a success.  A request stops at
\* the first key that answers, whether or not markRecovered changed anything.
Probe(p) ==
  \E k \in proc[p].todo, works \in BOOLEAN :
    /\ Goto(p, "probe", "probe")
    /\ IF works THEN MarkRecovered(k) ELSE UNCHANGED poolVars
    /\ proc' = IF works /\ p # Admin
                 THEN [proc EXCEPT ![p].todo = {}, ![p].woke = k]
                 ELSE [proc EXCEPT ![p].todo = @ \ {k}]
    /\ UNCHANGED <<wakeVars, failures>>

ProbesDone(p) ==
  /\ proc[p].todo = {}
  /\ Goto(p, "probe", "cool")
  /\ UNCHANGED <<poolVars, proc, wakeVars, failures>>

\* wakeUpComplete
WakeCool(p) ==
  /\ Goto(p, "cool", "free")
  /\ wakeWait' = WakeUpCooldown
  /\ UNCHANGED <<poolVars, proc, wakeBusy, failures>>

\* Mutant: the flag stays set when no key came back.
WakeFreeOnSuccess(p) ==
  /\ IF proc[p].woke # NoKey
       THEN Goto(p, "free", "reselect") /\ UNCHANGED proc /\ wakeBusy' = FALSE
       ELSE Leave(p, "free") /\ UNCHANGED wakeBusy
  /\ UNCHANGED <<poolVars, wakeWait, failures>>

WakeFree(p) ==
  /\ IF proc[p].woke # NoKey
       THEN Goto(p, "free", "reselect") /\ UNCHANGED proc
       ELSE Leave(p, "free")
  /\ wakeBusy' = FALSE
  /\ UNCHANGED <<poolVars, wakeWait, failures>>
----------------------------------------------------------------------------
(* The answer of upstream, at the end of forwardRequest. *)

\* Mutant: an error return forgets the deferred release.
UpstreamErrorLeaks(r) ==
  /\ Leave(r, "upstream")
  /\ UNCHANGED <<poolVars, wakeVars, failures>>

\* No answer: the deferred release runs and the error ends the loop.
UpstreamError(r) ==
  /\ Leave(r, "upstream")
  /\ ReleaseInFlight(proc[r].key)
  /\ UNCHANGED <<wakeVars, failures>>

\* A key that was tried although exhausted has proved that it works.
UpstreamOk(r) ==
  /\ Goto(r, "upstream", "respond")
  /\ proc' = [proc EXCEPT ![r].status = "ok"]
  /\ IF proc[r].probe /\ ~proc[r].last
       THEN MarkRecovered(proc[r].key)
       ELSE UNCHANGED poolVars
  /\ UNCHANGED <<wakeVars, failures>>

\* The body may show that the key is used up.  After the last forward of a
\* rate limited request the loop is left whatever the answer is.
UpstreamFails(r) ==
  /\ failures > 0
  /\ failures' = failures - 1
  /\ Goto(r, "upstream", IF proc[r].last THEN "respond" ELSE "judge")
  /\ \E status \in {"429", "error"} :
       /\ proc' = [proc EXCEPT ![r].status = status]
       /\ \/ UNCHANGED poolVars
          \/ \E code \in IF status = "429" THEN CodeOf429 ELSE Code :
               MarkExhausted(proc[r].key, code)
  /\ UNCHANGED wakeVars
----------------------------------------------------------------------------
(* The retry loop of ServeHTTP on a failing answer. *)

\* Closing the body gives the key back; the next forward chooses anew, so
\* "retrying same key" holds only while the binding does.
Again(r) == [proc[r] EXCEPT !.key = NoKey, !.status = "ok"]
Retry(r, from) ==
  /\ Goto(r, from, "select")
  /\ ReleaseInFlight(proc[r].key)

\* Mutant: one retry too many.
RetrySameKeyOnceMore(r) ==
  /\ proc[r].status = "429" /\ proc[r].retries <= MaxRetries
  /\ Retry(r, "judge")
  /\ proc' = [proc EXCEPT ![r] = [Again(r) EXCEPT !.retries = @ + 1]]
  /\ UNCHANGED <<wakeVars, failures>>

RetrySameKey(r) ==
  /\ proc[r].status = "429" /\ proc[r].retries < MaxRetries
  /\ Retry(r, "judge")
  /\ proc' = [proc EXCEPT ![r] = [Again(r) EXCEPT !.retries = @ + 1]]
  /\ UNCHANGED <<wakeVars, failures>>

\* Mutant: the mark replaces whatever the key is exhausted for already.
RateLimitAnyway(r) ==
  /\ proc[r].status = "429" /\ proc[r].retries = MaxRetries
  /\ Goto(r, "judge", "limited")
  /\ ExhaustWithCode(proc[r].key, "rate_limited")
  /\ UNCHANGED <<blocked, load, rr, affinity, proc, wakeVars, failures>>

RateLimit(r) ==
  /\ proc[r].status = "429" /\ proc[r].retries = MaxRetries
  /\ Goto(r, "judge", "limited")
  /\ MarkExhausted(proc[r].key, "rate_limited")
  /\ UNCHANGED <<proc, wakeVars, failures>>

CloseLimited(r) ==
  /\ Goto(r, "limited", "after429")
  /\ ReleaseInFlight(proc[r].key)
  /\ UNCHANGED <<proc, wakeVars, failures>>

\* Another key starts with fresh retries; without one the request forwards
\* once more and passes on whatever comes of it.
After429(r) ==
  \E k \in Key \cup {NoKey} :
    /\ SelectNextActiveKey(proc[r].key, k)
    /\ Goto(r, "after429", "select")
    /\ proc' = [proc EXCEPT ![r] =
                  IF k = NoKey THEN [Again(r) EXCEPT !.last = TRUE]
                               ELSE [Again(r) EXCEPT !.retries = 0]]
    /\ UNCHANGED <<wakeVars, failures>>

\* isAccountLevelExhaustion
AccountLevel == HardFailure \ {"rate_limited", "quota_exceeded_subscription"}

\* The convergence reads the key's reason as it is now, not the code this
\* answer carried.  A second account-level failure of one kind in a row ends
\* the loop with the answer in hand.
Converge(r) ==
  /\ pc[r] = "judge" /\ proc[r].status = "error"
  /\ LET why == reason[proc[r].key]
         streak == IF why = proc[r].code THEN proc[r].streak + 1 ELSE 1
     IN IF why \in AccountLevel
          THEN /\ proc' = [proc EXCEPT ![r].code = why, ![r].streak = streak]
               /\ Goto(r, "judge", IF streak >= 2 THEN "respond" ELSE "next")
          ELSE Goto(r, "judge", "next") /\ UNCHANGED proc
  /\ UNCHANGED <<poolVars, wakeVars, failures>>

\* selectKey only says whether there is another key.  Which one the next
\* forward uses is up to selectKeyForClient.
NextKey(r) ==
  \E k \in Key \cup {NoKey} :
    /\ SelectKey(k)
    /\ IF k \in {NoKey, proc[r].key}
         THEN Goto(r, "next", "respond") /\ UNCHANGED proc
         ELSE Goto(r, "next", "flag") /\ proc' = [proc EXCEPT ![r].next = k]
    /\ UNCHANGED <<wakeVars, failures>>

FlagProbe(r) ==
  /\ Goto(r, "flag", "close")
  /\ proc' = [proc EXCEPT ![r].probe = reason[proc[r].next] # "none",
                           ![r].next = NoKey]
  /\ UNCHANGED <<poolVars, wakeVars, failures>>

CloseAndRetry(r) ==
  /\ Retry(r, "close")
  /\ proc' = [proc EXCEPT ![r] = Again(r)]
  /\ UNCHANGED <<wakeVars, failures>>

\* writeResponse counts the tokens of a 2xx answer that reports them, and
\* closes the body when the client has it all.
Respond(r) ==
  /\ Goto(r, "respond", "finish")
  /\ \/ UNCHANGED poolVars
     \/ /\ proc[r].status = "ok"
        /\ \E n \in 1 .. MaxTokens : RecordTokens(proc[r].key, n)
  /\ UNCHANGED <<proc, wakeVars, failures>>

Finish(r) ==
  /\ Leave(r, "finish")
  /\ ReleaseInFlight(proc[r].key)
  /\ UNCHANGED <<wakeVars, failures>>
----------------------------------------------------------------------------
Forward(r) == SelectForClient(r) \/ SelectAgain(r) \/ Acquire(r)
WakeUp(p) ==
  \/ WakeCheck(p) \/ WakeSwap(p) \/ WakeList(p) \/ WakeFilter(p)
  \/ Probe(p) \/ ProbesDone(p) \/ WakeCool(p) \/ WakeFree(p)
Answer(r) == UpstreamError(r) \/ UpstreamOk(r) \/ UpstreamFails(r)
RetryLoop(r) ==
  \/ RetrySameKey(r) \/ RateLimit(r) \/ CloseLimited(r) \/ After429(r)
  \/ Converge(r) \/ NextKey(r) \/ FlagProbe(r) \/ CloseAndRetry(r)
Reply(r) == Respond(r) \/ Finish(r)

Serve(r) == Forward(r) \/ Answer(r) \/ RetryLoop(r) \/ Reply(r)

Environment ==
  /\ Administrator
  /\ Cardinality({k \in Key : blocked'[k]}) <= MaxBlocked
  /\ UNCHANGED <<pc, proc, wakeVars, failures>>

Time ==
  /\ Tick
  /\ wakeWait' = IF wakeWait > 0 THEN wakeWait - 1 ELSE 0
  /\ UNCHANGED <<pc, proc, wakeBusy, failures>>

Next ==
  \/ \E p \in Process : Begin(p) \/ WakeUp(p)
  \/ \E r \in Request : Serve(r)
  \/ Environment
  \/ Time

Spec == Init /\ [][Next]_vars

\* Goroutines that have begun go on, and upstream answers in the end (the
\* transport has timeouts).  Nothing makes the administrator act or the clock
\* move between two steps.
FairSpec ==
  /\ Spec
  /\ \A r \in Request : WF_vars(Serve(r) \/ WakeUp(r))
  /\ WF_vars(WakeUp(Admin))
----------------------------------------------------------------------------
(* Properties. *)

Holders(k) == {r \in Request : pc[r] \in HoldingPc /\ proc[r].key = k}
Wakers == {p \in Process : pc[p] \in WakingPc}

\* The count that steers the scheduling is exact: on every path, error
\* returns included, forwardRequest's acquire is released once and only once.
InFlightExact == \A k \in Key : inFlight[k] = Cardinality(Holders(k))

\* At most one goroutine probes the pool, and wakeUpInProgress is set exactly
\* while one does: no path leaves it set.
WakeUpSingleton ==
  /\ \A p, q \in Wakers : p = q
  /\ wakeBusy <=> Wakers # {}

\* The loop and the wake-up only ever act on the pool through its methods, one
\* at a time: the requests implement KeyPool's specification, and with it
\* what KeyRetryProofs shows of every pool.
ImplementsPool == PoolSpec

\* Once upstream stops failing, every request gets its answer and every
\* wake-up ends, whatever the administrator and the other requests do.
EveryProcessEnds == \A p \in Process : pc[p] # "idle" ~> pc[p] = "idle"

\* keypool.go:60: no second wake-up within a minute of the last one.
NoWakeUpDuringCooldown == [][~wakeBusy /\ wakeBusy' => wakeWait = 0]_vars

\* service.go:482 and keypool.go:159, 202: when all keys are exhausted, the one
\* with the shortest cooldown is chosen, and the request is sent with it as a
\* probe.  A request that has been told so (desperationProbe) gets a key.
ProbeIsSent ==
  [][\A r \in Request :
       proc[r].probe /\ pc[r] = "select" /\ pc'[r] # "select"
         => pc'[r] = "acquire"]_vars
=============================================================================
