---------------------------- MODULE QuotaManager ----------------------------
(***************************************************************************)
(* The spending quota of one client: internal/quota/manager.go, with the   *)
(* requests that are charged (recordUsageEvent in internal/proxy/          *)
(* forward.go), the administrator who changes the client                   *)
(* (internal/admin/handler.go) and the hourly totals of the database       *)
(* (internal/nosql/usage_agg.go).                                          *)
(*                                                                         *)
(* Requests are admitted and charged in memory; the database holds what    *)
(* was really spent.  Evaluate reads the database without the manager's    *)
(* lock and then replaces what the memory holds, and any number of         *)
(* evaluations, charges and restarts interleave.                           *)
(*                                                                         *)
(* Time is the hour: totals are kept by the hour and every period begins   *)
(* at one.  A step reads the clock where the code does; the clock of a     *)
(* call that takes the lock at once is read in the same step.              *)
(***************************************************************************)
EXTENDS Integers, FiniteSets, Functions

CONSTANTS
  Request,      \* request goroutines of the client
  Admin,        \* goroutines of the administrator's requests
  Calibrator,   \* the goroutine of Start and of the calibration timer
  Length,       \* hours in the period of each dimension
  Limits,       \* limits the client may be given, 0 for none
  Deleted,      \* stands for the limits while the client does not exist
  LastHour,     \* bound on the clock
  MaxRequests,  \* bound on the requests admitted
  Starts,       \* when the first process may start, and how many of these
                \* requests it may get
  MaxTroubles   \* bound on the changes of the client, the failing calls of
                \* the database and the restarts, together

Dim == 1 .. 3  \* daily, weekly, monthly: the order the code looks at them
Hour == 0 .. LastHour
Process == Request \cup Admin \cup {Calibrator}

ASSUME ProcessAssumption ==
  /\ Request \cap Admin = {} /\ Calibrator \notin Request \cup Admin
ASSUME QuotaAssumption ==
  /\ Length \in [Dim -> Nat \ {0}]
  /\ Limits \subseteq [Dim -> Nat] /\ Limits # {} /\ Deleted \notin Limits
ASSUME BoundAssumption ==
  /\ LastHour \in Nat /\ MaxRequests \in Nat /\ MaxTroubles \in Nat
  /\ Starts \subseteq Hour \X (0 .. MaxRequests)

VARIABLES
  hour,
  config,    \* the client's limits in the database
  ledger,    \* usage_agg_hourly: what the client spent in each hour
  loaded,    \* counters has an entry for the client
  counters,  \* that entry: the dimensions it counts
  exceeded,  \* the dimension the client is refused for, if any
  booting,   \* Start has not returned, and nothing is served yet
  pc, proc,
  left       \* what remains of the bounds

memory == <<loaded, counters, exceeded>>
db == <<config, ledger>>
vars == <<hour, db, memory, booting, pc, proc, left>>

Counter == [limit : Nat, used : Nat, resetsAt : Nat]
IsCounters(cc) == DOMAIN cc \subseteq Dim /\ cc \in [DOMAIN cc -> Counter]
NoCounters == [d \in {} |-> 0]
Exceeded == [dim : {0} \cup Dim, resetsAt : Nat]
NotExceeded == [dim |-> 0, resetsAt |-> 0]
IsLocal(l) ==
  /\ l.at \in Hour /\ l.now \in Hour /\ l.limits \in Limits
  /\ IsCounters(l.counters) /\ l.todo \subseteq Dim

TypeOK ==
  /\ hour \in Hour
  /\ config \in Limits \cup {Deleted} /\ ledger \in [Hour -> Nat]
  /\ loaded \in BOOLEAN /\ IsCounters(counters) /\ exceeded \in Exceeded
  /\ booting \in BOOLEAN
  /\ pc \in [Process -> {"idle", "list", "config", "drop", "sum", "clear",
                         "upstream", "record", "charge", "again"}]
  /\ \A p \in Process : IsLocal(proc[p])
  /\ left \in [requests : 0 .. MaxRequests, troubles : 0 .. MaxTroubles]

Fresh == [at |-> 0, now |-> 0, limits |-> CHOOSE l \in Limits : TRUE,
          counters |-> NoCounters, todo |-> {}]

\* A process starts with an empty memory; Start evaluates the client first.
Boot ==
  /\ loaded' = FALSE /\ counters' = NoCounters /\ exceeded' = NotExceeded
  /\ booting' = TRUE
  /\ pc' = [p \in Process |-> IF p = Calibrator THEN "list" ELSE "idle"]
  /\ proc' = [p \in Process |-> Fresh]

Init ==
  /\ \E s \in Starts :
       hour = s[1] /\ left = [requests |-> s[2], troubles |-> MaxTroubles]
  /\ config \in Limits /\ ledger = [h \in Hour |-> 0]
  /\ loaded = FALSE /\ counters = NoCounters /\ exceeded = NotExceeded
  /\ booting = TRUE
  /\ pc = [p \in Process |-> IF p = Calibrator THEN "list" ELSE "idle"]
  /\ proc = [p \in Process |-> Fresh]

Goto(p, from, to) == pc[p] = from /\ pc' = [pc EXCEPT ![p] = to]
Leave(p, from) == Goto(p, from, "idle") /\ proc' = [proc EXCEPT ![p] = Fresh]

\* Evaluate returns: Increment goes on, everybody else is done.
Return(p, from) ==
  IF p \in Request THEN Goto(p, from, "again") /\ UNCHANGED proc
                   ELSE Leave(p, from)

Spend(bound) == left[bound] > 0 /\ left' = [left EXCEPT ![bound] = @ - 1]
----------------------------------------------------------------------------
(* Periods (period.go) and what was spent in them. *)

Start(d, h) == h - (h % Length[d])
NextResetAt(d, h) == Start(d, h) + Length[d]

\* SumByClientRange from the start of the period to the hour of the call.
Spent(d, h) == SumFunctionOnSet(ledger, Start(d, h) .. h)

\* The dimensions with a limit; none for a client that does not exist.
Limited(limits) ==
  IF limits = Deleted THEN {} ELSE {d \in Dim : limits[d] > 0}

First(D) == CHOOSE d \in D : \A e \in D : d <= e

OverLimit(cc) == {d \in DOMAIN cc : cc[d].limit > 0 /\ cc[d].used >= cc[d].limit}
ExceededBy(cc) ==
  IF OverLimit(cc) = {} THEN NotExceeded
  ELSE LET d == First(OverLimit(cc))
       IN [dim |-> d, resetsAt |-> cc[d].resetsAt]

\* refreshLimitLocked: a deleted client keeps the limit.
Refreshed(d, limit) == IF config = Deleted THEN limit ELSE config[d]

\* The lazy flip of a counter whose period is over at hour h.
Flip(cc, h) ==
  [d \in DOMAIN cc |->
     IF cc[d].resetsAt > h THEN cc[d]
     ELSE [limit |-> Refreshed(d, cc[d].limit), used |-> 0,
           resetsAt |-> NextResetAt(d, h)]]
----------------------------------------------------------------------------
(* Evaluate. *)

ReadFails(p, from) ==
  /\ Return(p, from)
  /\ Spend("troubles")
  /\ UNCHANGED <<hour, db, memory, booting>>

\* Mutant: the missing client and the missing quota are not looked for.
ReadConfigUnguarded(p) ==
  /\ Goto(p, "config", "sum")
  /\ proc' = [proc EXCEPT ![p] =
       [@ EXCEPT !.now = hour, !.limits = config,
                 !.counters = NoCounters, !.todo = Limited(config)]]
  /\ UNCHANGED <<hour, db, memory, booting, left>>

ReadConfig(p) ==
  \/ ReadFails(p, "config")
  \/ /\ IF Limited(config) = {}
          THEN Goto(p, "config", "drop") /\ UNCHANGED proc
          ELSE /\ Goto(p, "config", "sum")
               /\ proc' = [proc EXCEPT ![p] =
                    [@ EXCEPT !.now = hour, !.limits = config,
                              !.counters = NoCounters, !.todo = Limited(config)]]
     /\ UNCHANGED <<hour, db, memory, booting, left>>

\* No quota, or no client: whatever the memory holds is deleted.
Drop(p) ==
  /\ Return(p, "drop")
  /\ loaded' = FALSE /\ counters' = NoCounters /\ exceeded' = NotExceeded
  /\ UNCHANGED <<hour, db, booting, left>>

\* One dimension after the other is summed up, each in a transaction of its
\* own.  One that cannot be read is left out of the new counters.
Sum(p) ==
  /\ Goto(p, "sum", "sum") /\ proc[p].todo # {}
  /\ LET d == First(proc[p].todo)
         now == proc[p].now
         sum == [limit |-> proc[p].limits[d], used |-> Spent(d, now),
                 resetsAt |-> NextResetAt(d, now)]
         cc == proc[p].counters
     IN \/ /\ proc' = [proc EXCEPT
                 ![p].todo = @ \ {d},
                 ![p].counters = [e \in DOMAIN cc \cup {d} |->
                                    IF e = d THEN sum ELSE cc[e]]]
           /\ UNCHANGED left
        \/ /\ proc' = [proc EXCEPT ![p].todo = @ \ {d}]
           /\ Spend("troubles")
  /\ UNCHANGED <<hour, db, memory, booting>>

\* Mutant: what was exceeded before stays when nothing is exceeded now.
StoreKeepingExceeded(p) ==
  /\ proc[p].todo = {}
  /\ Return(p, "sum")
  /\ loaded' = TRUE
  /\ counters' = proc[p].counters
  /\ exceeded' = IF OverLimit(counters') = {} THEN exceeded ELSE ExceededBy(counters')
  /\ UNCHANGED <<hour, db, booting, left>>

Store(p) ==
  /\ proc[p].todo = {}
  /\ Return(p, "sum")
  /\ loaded' = TRUE
  /\ counters' = proc[p].counters
  /\ exceeded' = ExceededBy(counters')
  /\ UNCHANGED <<hour, db, booting, left>>

Evaluate(p) == ReadConfig(p) \/ Drop(p) \/ Sum(p) \/ Store(p)
----------------------------------------------------------------------------
(* Admission: Check, before a target is chosen. *)

Refused == exceeded.dim # 0 /\ exceeded.resetsAt > hour

\* Nothing exceeded: admitted.  An entry that is over has to be cleared first,
\* for which Check gives the read lock back.  A refused request changes
\* nothing and is no step.
Check(r) ==
  /\ ~booting /\ config # Deleted /\ ~Refused
  /\ Goto(r, "idle", IF exceeded.dim = 0 THEN "upstream" ELSE "clear")
  /\ Spend("requests")
  /\ UNCHANGED <<hour, db, memory, booting, proc>>

\* Mutant: every counter starts again, whatever its period.
ClearExpiredAll(r) ==
  /\ Goto(r, "clear", "upstream")
  /\ exceeded' = NotExceeded
  /\ counters' = [d \in DOMAIN counters |-> [counters[d] EXCEPT !.used = 0]]
  /\ UNCHANGED <<hour, db, loaded, booting, proc, left>>

\* The entry found expired is deleted, or whichever has replaced it.
ClearExpired(r) ==
  /\ Goto(r, "clear", "upstream")
  /\ exceeded' = NotExceeded
  /\ counters' = Flip(counters, hour)
  /\ UNCHANGED <<hour, db, loaded, booting, proc, left>>
----------------------------------------------------------------------------
(* The answer is charged: recordUsageEvent and Increment. *)

\* An answer without usage, or of a model without a price, costs nothing.
CostsNothing(r) ==
  /\ Leave(r, "upstream")
  /\ UNCHANGED <<hour, db, memory, booting, left>>

Stamp(r) ==
  /\ Goto(r, "upstream", "record")
  /\ proc' = [proc EXCEPT ![r].now = hour]
  /\ UNCHANGED <<hour, db, memory, booting, left>>

\* The event goes to the hour it was stamped with.  If it cannot be written,
\* the charge in memory follows all the same.
Record(r) ==
  /\ Goto(r, "record", "charge")
  /\ \/ ledger' = [ledger EXCEPT ![proc[r].now] = @ + 1] /\ UNCHANGED left
     \/ Spend("troubles") /\ UNCHANGED ledger
  /\ UNCHANGED <<hour, config, memory, booting, proc>>

\* The charge of one unit at hour h.
Charge(cc, h) ==
  LET flipped == Flip(cc, h)
  IN /\ counters' = [d \in DOMAIN cc |-> [flipped[d] EXCEPT !.used = @ + 1]]
     /\ exceeded' = ExceededBy(counters')

\* Without counters the client is evaluated first.
Increment(r) ==
  /\ IF loaded
       THEN Leave(r, "charge") /\ Charge(counters, hour)
       ELSE /\ Goto(r, "charge", "config")
            /\ proc' = [proc EXCEPT ![r].at = hour]
            /\ UNCHANGED <<counters, exceeded>>
  /\ UNCHANGED <<hour, db, loaded, booting, left>>

\* ... and the cost is added to whatever that gave, with the clock read
\* before.  loadCountersFromConfigLocked starts from nothing where it gave
\* nothing, and fails where the evaluation does.
IncrementAgain(r) ==
  /\ Leave(r, "again")
  /\ IF loaded
       THEN Charge(counters, proc[r].at) /\ UNCHANGED <<loaded, left>>
       ELSE \/ /\ Limited(config) # {}
               /\ loaded' = TRUE
               /\ Charge([d \in Limited(config) |->
                            [limit |-> config[d], used |-> 0,
                             resetsAt |-> NextResetAt(d, hour)]], proc[r].at)
               /\ UNCHANGED left
            \/ Limited(config) = {} /\ UNCHANGED <<memory, left>>
            \/ Spend("troubles") /\ UNCHANGED memory
  /\ UNCHANGED <<hour, db, booting>>
----------------------------------------------------------------------------
(* The administrator, the timer, and restarts. *)

\* The client is created, changed or deleted, and then evaluated.
ChangeClient(a) ==
  /\ ~booting
  /\ Goto(a, "idle", "config")
  /\ Spend("troubles")
  /\ config' \in (Limits \cup {Deleted}) \ {config}
  /\ UNCHANGED <<hour, ledger, memory, booting, proc>>

\* Mutant: the timer only evaluates a client that is refused now.
CalibrateRefused ==
  /\ Goto(Calibrator, "list", IF exceeded.dim = 0 THEN "idle" ELSE "config")
  /\ UNCHANGED <<hour, db, memory, booting, proc, left>>

\* ListWithQuota: a client without a limit is not evaluated.
Calibrate ==
  /\ \/ /\ Goto(Calibrator, "list", IF Limited(config) = {} THEN "idle" ELSE "config")
        /\ UNCHANGED left
     \/ Goto(Calibrator, "list", "idle") /\ Spend("troubles")
  /\ UNCHANGED <<hour, db, memory, booting, proc>>

\* The preload runs out of its ten seconds.
PreloadTimeout ==
  /\ booting
  /\ Goto(Calibrator, "list", "idle")
  /\ UNCHANGED <<hour, db, memory, booting, proc, left>>

Serve ==
  /\ booting /\ pc[Calibrator] = "idle"
  /\ booting' = FALSE
  /\ UNCHANGED <<hour, db, memory, pc, proc, left>>

\* The timer of the next hour is set when a calibration is done, so one that
\* takes longer than its hour misses the next.
Tick ==
  /\ hour < LastHour
  /\ hour' = hour + 1
  /\ pc' = IF pc[Calibrator] = "idle" /\ ~booting
             THEN [pc EXCEPT ![Calibrator] = "list"] ELSE pc
  /\ UNCHANGED <<db, memory, booting, proc, left>>

Restart ==
  /\ Spend("troubles")
  /\ Boot
  /\ UNCHANGED <<hour, db>>
----------------------------------------------------------------------------
Handle(r) ==
  \/ ClearExpired(r) \/ CostsNothing(r) \/ Stamp(r) \/ Record(r)
  \/ Increment(r) \/ IncrementAgain(r) \/ Evaluate(r)
Calibration == Calibrate \/ Evaluate(Calibrator)

Next ==
  \/ \E r \in Request : Check(r) \/ Handle(r)
  \/ \E a \in Admin : ChangeClient(a) \/ Evaluate(a)
  \/ Calibration \/ PreloadTimeout \/ Serve
  \/ Tick \/ Restart

Spec == Init /\ [][Next]_vars

\* What has begun goes on, and time passes.
FairSpec ==
  /\ Spec
  /\ \A r \in Request : WF_vars(Handle(r))
  /\ \A a \in Admin : WF_vars(Evaluate(a))
  /\ WF_vars(Calibration) /\ WF_vars(Serve) /\ WF_vars(Tick)
----------------------------------------------------------------------------
(* Properties. *)

\* A client is refused for good reason: what it is refused for is a limit its
\* counters have reached, the first one in order, until the hour at which
\* that counter starts again.  The two maps never drift apart, whichever of
\* the evaluations, charges and expiries wrote last.
RefusalIsJustified ==
  exceeded # NotExceeded =>
    /\ loaded /\ OverLimit(counters) # {}
    /\ exceeded = ExceededBy(counters)

\* What was counted in a period is not forgotten while the period lasts: a
\* counter only goes down by its reset or by an evaluation of the database.
CountedUntilReset ==
  [][\A d \in DOMAIN counters \cap DOMAIN counters' :
       counters'[d].used < counters[d].used
         => \/ counters[d].resetsAt <= hour
            \/ \E p \in Process : pc[p] = "sum" /\ pc'[p] # "sum"]_vars

\* Once nothing is written any more and an hour begins, the calibration puts
\* right whatever the races, faults and restarts before have left: the
\* counters have the limits and the totals of the database, and a client that
\* has spent one of its limits is to be refused, also when an expiry has taken
\* its new entry away with the old one.
Quiet ==
  /\ \A p \in Process : pc[p] = "idle"
  /\ ~booting /\ hour < LastHour
  /\ \A b \in DOMAIN left : left[b] = 0
Accurate ==
  Limited(config) # {} =>
    /\ loaded /\ Limited(config) \subseteq DOMAIN counters
    /\ \A d \in Limited(config) :
         LET over == counters[d].resetsAt <= hour
         IN /\ counters[d].limit = config[d]
            /\ Spent(d, hour) = IF over THEN 0 ELSE counters[d].used
    /\ (\E d \in Limited(config) : Spent(d, hour) >= config[d]) => exceeded # NotExceeded
DriftCorrected == Quiet ~> []Accurate

\* docs/quota-design.md:106: the limits are independent, and to reach any of
\* them is enough to be refused.
AnyLimitRefuses ==
  [][\A r \in Request :
       pc[r] # "upstream" /\ pc'[r] = "upstream"
         => \A d \in OverLimit(counters) : counters[d].resetsAt <= hour]_vars
=============================================================================
