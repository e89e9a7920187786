------------------------------- MODULE StartUp -------------------------------
(***************************************************************************)
(* The start of the program and the usage store: cmd/proxy/main.go,        *)
(* internal/nosql/migrate.go, usage.go, usage_agg.go and model_costs.go.   *)
(*                                                                         *)
(* Before it serves, the program imports files of earlier versions, adds   *)
(* up the stored events by the hour and renames the keys of prices, each   *)
(* in several transactions with a marker at the end.  Any transaction may  *)
(* fail, and the process may end between two of them and start again.      *)
(*                                                                         *)
(* Events are numbers in the order of their keys.  A client stands for all *)
(* that the key of a total has besides the hour.                           *)
(***************************************************************************)
EXTENDS Integers, FiniteSets, FiniteSetsExt, SequencesExt

CONSTANTS
  Events,           \* number of events there may be
  TimeOf,           \* when each took place
  ClientOf,         \* whose it is
  Successful,       \* those with a status of success
  Stored,           \* events the database may hold without totals
  InFile,           \* events in usage_events.jsonl
  HourLength, DayLength, Week, Month,
  FileBatch, AggBatch,
  Client, ClientsInFile,
  Model, Price, NoPrice,
  Legacy,           \* keys "endpoint_type:model" of prices
  ModelOf,          \* the model such a key is about
  KeysWithColon,    \* those keys and the models with a colon, in key order
  StoredPrices,     \* prices the database may hold
  PricesInFile,
  MaxCrashes, MaxFailures, MaxChanges

Event == 1 .. Events
Hour(t) == t \div HourLength
Cell == {Hour(TimeOf[e]) : e \in Event} \X Client
Key == Model \cup Legacy

ASSUME EventAssumption ==
  /\ Events \in Nat /\ TimeOf \in [Event -> Nat] /\ ClientOf \in [Event -> Client]
  /\ \A e, f \in Event : e < f => TimeOf[e] <= TimeOf[f]
  /\ Successful \subseteq Event /\ InFile \subseteq Event
  /\ \A s \in Stored : s \subseteq Event \ InFile
ASSUME ClientAssumption == IsFiniteSet(Client) /\ ClientsInFile \subseteq Client
ASSUME LengthAssumption ==
  /\ {HourLength, DayLength, Week, Month, FileBatch, AggBatch} \subseteq Nat \ {0}
  /\ DayLength % HourLength = 0
  /\ DayLength <= Week /\ Week <= Month /\ 2 * DayLength <= Month
ASSUME PriceAssumption ==
  /\ NoPrice \notin Price /\ ModelOf \in [Legacy -> Model] /\ Legacy \cap Model = {}
  /\ KeysWithColon \in Seq(Key) /\ IsInjective(KeysWithColon)
  /\ Legacy \subseteq ToSet(KeysWithColon)
  /\ StoredPrices \subseteq [Key -> Price \cup {NoPrice}]
  /\ PricesInFile \in [Model -> Price \cup {NoPrice}]
ASSUME BoundAssumption == {MaxCrashes, MaxFailures, MaxChanges} \subseteq Nat

VARIABLES
  events, agg,     \* usage_events and usage_agg_hourly
  clients, costs,  \* the buckets of clients and of model costs
  migrated, built, \* the markers
  pc,              \* where the start is
  todo,            \* events of the file not yet written
  lastKey, batch,  \* BackfillUsageAgg
  left,            \* what remains of the bounds
  history          \* what only properties read

db == <<events, agg, clients, costs, migrated, built>>
vars == <<db, pc, todo, lastKey, batch, left, history>>

\* whole: the file of events has not been cut short; redone: starts that ended
\* after adding events to the totals and before the marker; removed: clients
\* deleted after the import was marked; missed: events imported after the
\* totals were marked as built.
TypeOK ==
  /\ events \subseteq Event /\ agg \in [Cell -> [requests : Nat, success : Nat]]
  /\ clients \subseteq Client /\ costs \in [Key -> Price \cup {NoPrice}]
  /\ migrated \in BOOLEAN /\ built \in BOOLEAN
  /\ pc \in {"down", "clients", "costs", "usage", "import", "marker", "check",
             "scan", "flush", "mark", "keys", "serve"}
  /\ todo \subseteq InFile /\ lastKey \in 0 .. Events /\ batch \subseteq events
  /\ left \in [crashes : 0 .. MaxCrashes, failures : 0 .. MaxFailures,
               changes : 0 .. MaxChanges]
  /\ history \in [whole : BOOLEAN, redone : 0 .. MaxCrashes + MaxFailures,
                  removed : SUBSET Client, missed : SUBSET InFile]

NoTotals == [c \in Cell |-> [requests |-> 0, success |-> 0]]

\* A database of a version without totals, before or after the import.
Init ==
  /\ events \in Stored /\ agg = NoTotals
  /\ clients = {} /\ costs \in StoredPrices
  /\ migrated \in BOOLEAN /\ built = FALSE
  /\ pc = "down" /\ todo = {} /\ lastKey = 0 /\ batch = {}
  /\ left = [crashes |-> MaxCrashes, failures |-> MaxFailures, changes |-> MaxChanges]
  /\ history = [whole |-> ~migrated /\ events = {}, redone |-> 0,
                removed |-> {}, missed |-> {}]

Spend(bound) == left[bound] > 0 /\ left' = [left EXCEPT ![bound] = @ - 1]
Fails == Spend("failures")
Works == UNCHANGED left

\* The first n events of a set, in the order of their keys.
First(n, E) == {e \in E : Cardinality({f \in E : f < e}) < n}
----------------------------------------------------------------------------
(* MigrateFromJSON. *)

\* Mutant: every start imports what is not there.
StartAnew ==
  /\ pc = "down" /\ pc' = "clients"
  /\ UNCHANGED <<db, todo, lastKey, batch, left, history>>

Start ==
  /\ pc = "down" /\ pc' = IF migrated THEN "check" ELSE "clients"
  /\ UNCHANGED <<db, todo, lastKey, batch, left, history>>

\* migrateClients: a bucket with data is left alone, a file that cannot be read,
\* decoded or written only leads to a warning.
MigrateClients ==
  /\ pc = "clients" /\ pc' = "costs"
  /\ \/ Works /\ clients' = IF clients = {} THEN ClientsInFile ELSE clients
     \/ Fails /\ UNCHANGED clients
  /\ UNCHANGED <<events, agg, costs, migrated, built, todo, lastKey, batch, history>>

\* migrateModelCosts
MigrateModelCosts ==
  /\ pc = "costs" /\ pc' = "usage"
  /\ \/ /\ Works
        /\ costs' = IF \E k \in Key : costs[k] # NoPrice THEN costs
                    ELSE [k \in Key |-> IF k \in Model THEN PricesInFile[k] ELSE NoPrice]
     \/ Fails /\ UNCHANGED costs
  /\ UNCHANGED <<events, agg, clients, migrated, built, todo, lastKey, batch, history>>

\* migrateUsageEvents up to the end of its file ...
ReadUsageFile ==
  /\ pc = "usage"
  /\ \/ Works /\ events # {} /\ pc' = "marker" /\ UNCHANGED <<todo, history>>
     \/ Works /\ events = {} /\ pc' = "import" /\ todo' = InFile /\ UNCHANGED history
     \/ /\ Fails /\ events = {} /\ pc' = "marker" /\ UNCHANGED todo
        /\ history' = [history EXCEPT !.whole = FALSE]
  /\ UNCHANGED <<db, lastKey, batch>>

\* ... and its batches: the first that fails is the last.
ImportBatch ==
  /\ pc = "import" /\ todo # {}
  /\ \/ /\ Works /\ pc' = "import"
        /\ events' = events \cup First(FileBatch, todo)
        /\ todo' = todo \ First(FileBatch, todo)
        /\ history' = [history EXCEPT !.missed = IF built THEN @ \cup First(FileBatch, todo) ELSE @]
     \/ /\ Fails /\ pc' = "marker" /\ UNCHANGED events /\ todo' = {}
        /\ history' = [history EXCEPT !.whole = FALSE]
  /\ UNCHANGED <<agg, clients, costs, migrated, built, lastKey, batch>>

EndImport ==
  /\ pc = "import" /\ todo = {} /\ pc' = "marker"
  /\ UNCHANGED <<db, todo, lastKey, batch, left, history>>

\* The marker; main only warns when it cannot be written.
WriteMarker ==
  /\ pc = "marker" /\ pc' = "check"
  /\ \/ Works /\ migrated' = TRUE
     \/ Fails /\ UNCHANGED migrated
  /\ UNCHANGED <<events, agg, clients, costs, built, todo, lastKey, batch, history>>
----------------------------------------------------------------------------
(* The hourly totals. *)

Totals(E) == [requests |-> Cardinality(E), success |-> Cardinality(E \cap Successful)]
Plus(s, t) == [requests |-> s.requests + t.requests, success |-> s.success + t.success]
InCell(c, E) == {e \in E : Hour(TimeOf[e]) = c[1] /\ ClientOf[e] = c[2]}

\* bumpAgg, for each event of a set.
BumpAgg(E) == [c \in Cell |-> Plus(agg[c], Totals(InCell(c, E)))]

\* The events that this start of the backfill has added to the totals.
Flushed == {e \in events : e <= lastKey} \ (IF pc = "flush" THEN batch ELSE {})

\* The process ends: os.Exit or a crash.
Exit ==
  /\ pc' = "down" /\ todo' = {} /\ lastKey' = 0 /\ batch' = {}
  /\ history' = [history EXCEPT !.whole = @ /\ ~(pc = "import" /\ events # {} /\ todo # {}),
                                !.redone = @ + IF Flushed # {} /\ ~built THEN 1 ELSE 0]

\* BackfillUsageAgg looks for its marker, ...
CheckBuilt ==
  /\ pc = "check" /\ pc' = IF built THEN "keys" ELSE "scan"
  /\ UNCHANGED <<db, todo, lastKey, batch, left, history>>

\* ... reads the events that follow the last one, ...
Scan ==
  /\ pc = "scan"
  /\ LET next == First(AggBatch, {e \in events : e > lastKey})
     IN IF next = {} THEN pc' = "mark" /\ batch' = {} /\ UNCHANGED lastKey
        ELSE pc' = "flush" /\ batch' = next /\ lastKey' = Max(next)
  /\ UNCHANGED <<db, todo, left, history>>

\* ... adds them up in one transaction, ...
Flush ==
  /\ pc = "flush"
  /\ \/ Works /\ agg' = BumpAgg(batch) /\ pc' = "scan" /\ UNCHANGED <<todo, lastKey, batch, history>>
     \/ Fails /\ Exit /\ UNCHANGED agg
  /\ UNCHANGED <<events, clients, costs, migrated, built>>

\* ... and writes its marker after the last batch.
MarkBuilt ==
  /\ pc = "mark"
  /\ \/ Works /\ built' = TRUE /\ pc' = "keys" /\ lastKey' = 0 /\ UNCHANGED <<todo, batch, history>>
     \/ Fails /\ Exit /\ UNCHANGED built
  /\ UNCHANGED <<events, agg, clients, costs, migrated>>

\* Record: the event and its total in one transaction.
Record(e) ==
  /\ pc = "serve" /\ \A f \in events \cup InFile \cup UNION Stored : e > f
  /\ events' = events \cup {e} /\ agg' = BumpAgg({e})
  /\ UNCHANGED <<clients, costs, migrated, built, pc, todo, lastKey, batch, left, history>>
----------------------------------------------------------------------------
(* What the interface reads.  Times are rounded down to hours. *)

\* aggIter with a filter by client.
SumOf(cells) ==
  LET Add(c, total) == Plus(total, agg[c])
  IN FoldSet(Add, [requests |-> 0, success |-> 0], cells)
Between(from, to) == {c \in Cell : c[1] \in Hour(from) .. Hour(to)}

\* Mutant: the last hour is left out.
CountBefore(from, to) == SumOf({c \in Cell : Hour(from) <= c[1] /\ c[1] < Hour(to)})

Count(from, to) == SumOf(Between(from, to))

\* Aggregate: one total for each day (or hour), and one for each client.
BucketStart(h, length) == ((h * HourLength) \div length) * length
Aggregate(from, to, client, length) ==
  LET cells == {c \in Between(from, to) : c[2] \in client}
  IN [buckets |-> [b \in {BucketStart(c[1], length) : c \in {d \in cells : agg[d].requests > 0}} |->
                     SumOf({c \in cells : BucketStart(c[1], length) = b})],
      byClient |-> [u \in {c[2] : c \in {d \in cells : agg[d].requests > 0}} |->
                     SumOf({c \in cells : c[2] = u})]]

\* Mutant: a window has the whole hour it begins in.
SummaryByHours(now) ==
  LET today == (now \div DayLength) * DayLength
      Window(from, to) == SumOf({c \in Between(from, now) : c[1] * HourLength < to})
  IN [lastHour |-> Totals({e \in events : TimeOf[e] \in (now - HourLength) .. now}),
      today |-> Window(today, now + 1), yesterday |-> Window(today - DayLength, today),
      week |-> Window(now - Week, now + 1), month |-> Window(now - Month, now + 1)]

\* Summary: the last hour from the events, the other windows from the totals.
Summary(now) ==
  LET today == (now \div DayLength) * DayLength
      Window(from, to) ==
        SumOf({c \in Between(now - Month, now) :
                 c[1] * HourLength >= from /\ c[1] * HourLength < to /\ c[1] * HourLength >= now - Month})
  IN [lastHour |-> Totals({e \in events : TimeOf[e] \in (now - HourLength) .. now}),
      today |-> Window(today, now + 1), yesterday |-> Window(today - DayLength, today),
      week |-> Window(now - Week, now + 1), month |-> Window(now - Month, now + 1)]
----------------------------------------------------------------------------
(* Prices, and what administrators do while the program serves. *)

\* MigrateKeys: what is under a key with a colon moves to the key that is its
\* model, the last in the order of the keys winning.  The old key is deleted
\* after that, also where it is the new one.
NewKey(k) == IF k \in Legacy THEN ModelOf[k] ELSE k
MoveKey(old, new, k) ==
  IF old[k] = NoPrice THEN new
  ELSE [[new EXCEPT ![NewKey(k)] = old[k]] EXCEPT ![k] = NoPrice]
MigrateKeys ==
  /\ pc = "keys" /\ pc' = "serve"
  /\ \/ /\ Works
        /\ LET Move(new, k) == MoveKey(costs, new, k)
           IN costs' = FoldLeft(Move, costs, KeysWithColon)
     \/ Fails /\ UNCHANGED costs
  /\ UNCHANGED <<events, agg, clients, migrated, built, todo, lastKey, batch, history>>

\* ModelCostStore.Upsert and Delete
ChangeCost(m, p) ==
  /\ pc = "serve" /\ Spend("changes") /\ costs[m] # p
  /\ costs' = [costs EXCEPT ![m] = p]
  /\ UNCHANGED <<events, agg, clients, migrated, built, pc, todo, lastKey, batch, history>>

\* ClientStore.Create and Delete
ChangeClients(c) ==
  /\ pc = "serve" /\ Spend("changes")
  /\ \/ /\ c \notin clients /\ clients' = clients \cup {c}
        /\ history' = [history EXCEPT !.removed = @ \ {c}]
     \/ /\ c \in clients /\ clients' = clients \ {c}
        /\ history' = [history EXCEPT !.removed = IF migrated THEN @ \cup {c} ELSE @]
  /\ UNCHANGED <<events, agg, costs, migrated, built, pc, todo, lastKey, batch>>

Crash == pc # "down" /\ Spend("crashes") /\ Exit /\ UNCHANGED db

Boot ==
  \/ Start \/ MigrateClients \/ MigrateModelCosts \/ ReadUsageFile
  \/ ImportBatch \/ EndImport \/ WriteMarker
  \/ CheckBuilt \/ Scan \/ Flush \/ MarkBuilt \/ MigrateKeys

Next ==
  \/ Boot \/ Crash
  \/ \E e \in Event : Record(e)
  \/ \E m \in Model, p \in Price \cup {NoPrice} : ChangeCost(m, p)
  \/ \E c \in Client : ChangeClients(c)

Spec == Init /\ [][Next]_vars
----------------------------------------------------------------------------
(* Properties. *)

Since(t) == {e \in events : TimeOf[e] >= t}
Newest == Max({0} \cup {TimeOf[e] : e \in events})
AtMost(s, t) == s.requests <= t.requests /\ s.success <= t.success
Times(n, t) == [requests |-> n * t.requests, success |-> n * t.success]

\* What is read from the totals is what the events say: wherever earlier starts
\* ended, no event is missing but those imported when the totals were built
\* already, and none is counted more often than once and once more for every
\* start that ended between a batch and the marker.
CountsEveryEvent ==
  pc = "serve" =>
    \A from \in 0 .. Newest : \A to \in from .. Newest :
      LET There(E) == Totals({e \in E : Hour(TimeOf[e]) \in Hour(from) .. Hour(to)})
      IN /\ AtMost(There(events \ history.missed), Count(from, to))
         /\ AtMost(Count(from, to), Times(1 + history.redone, There(events)))

\* While nothing was counted twice or missed, the reports agree with the events and with
\* each other: a bucket is the total of its events, clients add up to buckets,
\* today and yesterday are exact, and the other windows miss at most the part of
\* an hour they begin with.
ReportsAgree ==
  pc = "serve" /\ history.redone = 0 /\ history.missed = {} =>
    /\ \A length \in {HourLength, DayLength}, some \in {{c} : c \in Client} \cup {Client} :
         LET a == Aggregate(0, Newest, some, length)
             mine == {e \in events : ClientOf[e] \in some}
         IN /\ \A b \in DOMAIN a.buckets :
                 a.buckets[b] = Totals({e \in mine : TimeOf[e] \in b .. (b + length - 1)})
            /\ \A e \in mine : BucketStart(Hour(TimeOf[e]), length) \in DOMAIN a.buckets
            /\ \A u \in DOMAIN a.byClient : a.byClient[u] = Totals({e \in mine : ClientOf[e] = u})
    /\ \A now \in Newest .. Newest + DayLength :
         LET s == Summary(now)  day == now - (now % DayLength)
         IN /\ s.today = Totals(Since(day))
            /\ s.yesterday = Totals(Since(day - DayLength) \ Since(day))
            /\ AtMost(s.week, Totals(Since(now - Week)))
            /\ AtMost(Totals(Since(now - Week + HourLength)), s.week)
            /\ AtMost(s.week, s.month)

\* The import happens once and as a whole.  A database that was empty has all
\* events of the file when it serves, unless the import of the file itself was cut
\* short: a crash before or after it does no harm.  A client deleted after the
\* import was marked does not come back with a later start.
ImportedOnce ==
  /\ pc = "serve" /\ history.whole => InFile \subseteq events
  /\ history.removed \cap clients = {}

\* What model_costs.go:99 says of MigrateKeys: it may run any number of times.
PricesSurviveStart ==
  [][MigrateKeys => \A m \in Model : costs[m] # NoPrice => costs'[m] # NoPrice]_vars
=============================================================================
