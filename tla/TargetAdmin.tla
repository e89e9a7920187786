----------------------------- MODULE TargetAdmin -----------------------------
(***************************************************************************)
(* The four copies of the upstream targets: the file config.json, the      *)
(* database (internal/nosql/targets.go), the cached configuration          *)
(* (internal/config) and what the proxy runs with (ApplyConfig), from the  *)
(* start of the program (cmd/proxy/main.go) and through the handlers of    *)
(* internal/admin/handler.go that change targets.                          *)
(*                                                                         *)
(* A handler takes the cached configuration with the targets of the        *)
(* database, changes that copy, makes the proxy run with it, changes the   *)
(* one target in the database, and caches the copy.  Each step takes a     *)
(* lock or a transaction of its own; what is between them may fail or      *)
(* overlap with another handler, and the process may end.                  *)
(***************************************************************************)
EXTENDS Integers, Sequences, FiniteSets, SequencesExt

CONSTANTS
  Handler,     \* goroutines of administrators' requests
  NoProcess,
  Name,        \* names of targets, in lower case
  Sorted,      \* ... in the order of sort.Strings
  Content,     \* what a target is apart from its name and being paused
  NoRecord,
  Stored,      \* what database and file may hold at the first start
  MaxRequests, \* bound on the requests
  MaxTroubles  \* bound on the failing writes and the ends of the process

\* A target's record, and a target in a configuration.  All are in the form
\* normalizeTarget gives them.
Record == [content : Content, paused : BOOLEAN]
Entry == [name : Name, content : Content, paused : BOOLEAN]
RecordOf(e) == [content |-> e.content, paused |-> e.paused]
EntryOf(n, rec) == [name |-> n, content |-> rec.content, paused |-> rec.paused]

ASSUME NameAssumption ==
  /\ IsFiniteSet(Name) /\ Name # {} /\ Content # {}
  /\ NoProcess \notin Handler /\ NoRecord \notin Record
  /\ Sorted \in Seq(Name) /\ \A n \in Name : \E i \in DOMAIN Sorted : Sorted[i] = n
  /\ IsInjective(Sorted)
\* A file with a name twice ends the program at its start (targets.go:247,
\* main.go:102), and the order is written with the records.
ASSUME StoredAssumption ==
  \A s \in Stored :
    /\ s.file \in Seq(Entry) /\ s.order \in Seq(Name)
    /\ s.targets \in [Name -> Record \cup {NoRecord}]
    /\ \A i, j \in DOMAIN s.file : s.file[i].name = s.file[j].name => i = j
    /\ IsInjective(s.order) /\ Range(s.order) = {n \in Name : s.targets[n] # NoRecord}
ASSUME BoundAssumption == MaxRequests \in Nat /\ MaxTroubles \in Nat

VARIABLES
  file,     \* targets of config.json
  targets,  \* the bucket of targets
  order,    \* target_order in the bucket meta
  cache,    \* targets of the configuration the manager holds
  runtime,  \* targets the proxy has, in the order it tries them
  phase,    \* how far the program has started
  place,    \* where each handler is
  proc,     \* ... and its local variables
  left,     \* what remains of the bounds
  lone,     \* history: who began when all others were idle, the last to begin
  agreed    \* history: a change has ended alone, none overlapped or failed since

database == <<targets, order>>
history == <<lone, agreed>>
adminVars == <<file, database, cache, runtime, phase, place, proc, left, history>>

Change == {"create", "update", "pause", "delete"}

\* config is the handler's copy of the targets, new what was submitted.
Held ==
  [op : Change \cup {"none", "view", "reload"}, name : Name, new : Record \cup {NoRecord},
   config : Seq(Entry)]
Resting ==
  [op |-> "none", name |-> Sorted[1], new |-> NoRecord, config |-> <<>>]

AdminTypeOK ==
  /\ targets \in [Name -> Record \cup {NoRecord}]
  /\ order \in Seq(Name) /\ IsInjective(order)
  /\ file \in Seq(Entry) /\ cache \in Seq(Entry) /\ runtime \in Seq(Entry)
  /\ phase \in {"down", "remove", "load", "serving"}
  /\ place \in [Handler -> {"idle", "list", "relist", "migrate", "apply", "store", "replace"}]
  /\ proc \in [Handler -> Held]
  /\ left \in [requests : 0 .. MaxRequests, troubles : 0 .. MaxTroubles]
  /\ lone \in Handler \cup {NoProcess} /\ agreed \in BOOLEAN

Exists(n) == targets[n] # NoRecord
Nothing == \A n \in Name : ~Exists(n)
Names(config) == {config[i].name : i \in DOMAIN config}
AtRest == \A r \in Handler : place[r] = "idle"

\* The database as an earlier run of the program has left it, and the file as
\* the administrator has written it.
AdminInit ==
  /\ \E s \in Stored :
       /\ file = s.file /\ targets = s.targets /\ order = s.order
  /\ cache = <<>> /\ runtime = <<>> /\ phase = "down"
  /\ place = [r \in Handler |-> "idle"] /\ proc = [r \in Handler |-> Resting]
  /\ left = [requests |-> MaxRequests, troubles |-> MaxTroubles]
  /\ lone = NoProcess /\ agreed = TRUE

Spend(bound) == left[bound] > 0 /\ left' = [left EXCEPT ![bound] = @ - 1]
Move(r, to, local) ==
  place' = [place EXCEPT ![r] = to] /\ proc' = [proc EXCEPT ![r] = local]
Leave(r) == Move(r, "idle", Resting)
----------------------------------------------------------------------------
(* The store. *)

\* The members of a sequence that are in a set, in their order.
Kept(s, S) ==
  LET kept[i \in 0 .. Len(s)] ==
        IF i = 0 THEN <<>>
        ELSE IF s[i] \in S THEN Append(kept[i - 1], s[i]) ELSE kept[i - 1]
  IN kept[Len(s)]

\* What List returns: the targets in order, then those it has not.
\* Its write-back of records in an old form finds some only at the start.
Existing == {n \in Name : Exists(n)}
InOrder == Kept(order, Existing) \o Kept(Sorted, Existing \ Range(order))
Listed ==
  [i \in DOMAIN InOrder |-> EntryOf(InOrder[i], targets[InOrder[i]])]

\* Mutant: targets that are missing are added to those there are.
MigrateMissing(config) ==
  /\ targets' = [n \in Name |->
       IF ~Exists(n) /\ n \in Names(config)
       THEN RecordOf(config[CHOOSE i \in DOMAIN config : config[i].name = n]) ELSE targets[n]]
  /\ order' = order \o Kept([i \in DOMAIN config |-> config[i].name], Name \ Range(order))

\* MigrateTargetsFromConfig
Migrate(config) ==
  IF Nothing
  THEN /\ targets' = [n \in Name |->
            IF n \in Names(config)
            THEN RecordOf(config[CHOOSE i \in DOMAIN config : config[i].name = n])
            ELSE NoRecord]
       /\ order' = IF config = <<>> THEN order ELSE [i \in DOMAIN config |-> config[i].name]
  ELSE UNCHANGED database

\* Mutant: the name is added to an order that has it.
WithAgain(n) == Append(order, n)

\* The order as Create and Update, and as Delete write it; the handlers call
\* Update without a new name.
With(n) == IF n \in Range(order) THEN order ELSE Append(order, n)
Without(n) == Kept(order, Name \ {n})
----------------------------------------------------------------------------
(* The start of the program. *)

\* Of the targets of the file, the database gets those it has none for.
Start ==
  /\ phase = "down" /\ Migrate(file)
  /\ phase' = IF Nothing /\ file # <<>> THEN "remove" ELSE "load"
  /\ UNCHANGED <<file, cache, runtime, place, proc, left, history>>

\* RemoveTargetsFromFile, if something was migrated; a failure is a warning.
RemoveTargetsFromFile ==
  /\ phase = "remove" /\ phase' = "load"
  /\ \/ file' = <<>> /\ UNCHANGED left
     \/ Spend("troubles") /\ UNCHANGED file
  /\ UNCHANGED <<database, cache, runtime, place, proc, history>>

\* List, Replace and NewService.
Load ==
  /\ phase = "load" /\ phase' = "serving"
  /\ cache' = Listed /\ runtime' = Listed
  /\ lone' = NoProcess /\ agreed' = TRUE
  /\ UNCHANGED <<file, database, place, proc, left>>

\* The process ends, at any time.
Stop ==
  /\ phase # "down" /\ phase' = "down" /\ Spend("troubles")
  /\ cache' = <<>> /\ runtime' = <<>>
  /\ place' = [r \in Handler |-> "idle"] /\ proc' = [r \in Handler |-> Resting]
  /\ UNCHANGED <<file, database, history>>
----------------------------------------------------------------------------
(* The handlers. *)

\* Current, or for a reload the file.  A handler that begins while another is
\* under way is not alone, and neither is the other any more.
Enter(r, op, n, new) ==
  /\ phase = "serving" /\ place[r] = "idle" /\ Spend("requests")
  /\ Move(r, "list", [Resting EXCEPT !.op = op, !.name = n, !.new = new,
                                   !.config = IF op = "reload" THEN file ELSE cache])
  /\ lone' = IF AtRest THEN r ELSE NoProcess
  /\ agreed' = (agreed /\ AtRest)
  /\ UNCHANGED <<file, database, cache, runtime, phase>>

\* The copy with the change, if it can be made: handleCreateTarget refuses a
\* target there is, the others one there is not.  handleUpdateTarget changes
\* the content, and the pause only if that is submitted too.
Has(config, n) == \E i \in DOMAIN config : config[i].name = n
CanChange(local, config) ==
  local.op = "reload" \/ (local.op \in Change /\ (Has(config, local.name) <=> local.op # "create"))
Changed(local, config) ==
  LET n == local.name  new == local.new
      At(i) == IF config[i].name # n THEN config[i]
               ELSE IF local.op = "pause" THEN [config[i] EXCEPT !.paused = new.paused]
               ELSE [config[i] EXCEPT !.content = new.content]
  IN IF local.op = "create" THEN Append(config, EntryOf(n, new))
     ELSE IF local.op = "delete" THEN Kept(config, {e \in Entry : e.name # n})
     ELSE IF local.op = "reload" THEN config
     ELSE [i \in DOMAIN config |-> At(i)]

\* applyStoredTargets and overlayStoredTargets
Overlay(local) ==
  IF Listed # <<>> \/ local.config = <<>> THEN Listed ELSE local.config

\* currentConfig: a database without targets is filled from the cached ones,
\* and listed again.  A reload does not do that here.
ListTargets(r) ==
  /\ place[r] \in {"list", "relist"}
  /\ LET local == proc[r]
         config == Overlay(local)
         fill == place[r] = "list" /\ local.op # "reload" /\ Listed = <<>> /\ local.config # <<>>
         change == CanChange(local, config)
         to == IF fill THEN "migrate" ELSE IF change THEN "apply" ELSE "idle"
         next == IF fill THEN local
                 ELSE IF change THEN [local EXCEPT !.config = Changed(local, config)]
                 ELSE Resting
     IN Move(r, to, next)
  /\ UNCHANGED <<file, database, cache, runtime, phase, left, history>>

MigrateFromConfig(r) ==
  /\ place[r] = "migrate" /\ Migrate(proc[r].config) /\ Move(r, "relist", proc[r])
  /\ UNCHANGED <<file, cache, runtime, phase, left, history>>

\* applyConfigRuntime, the clients apart.  buildTargetStates refuses a target
\* whose endpoint is no URL, which only these two may submit.
ApplyConfig(r) ==
  /\ place[r] = "apply"
  /\ \/ runtime' = proc[r].config
        /\ Move(r, IF proc[r].op = "reload" /\ proc[r].config = <<>> THEN "replace" ELSE "store",
                proc[r])
     \/ proc[r].op \in {"create", "update"} /\ Leave(r) /\ UNCHANGED runtime
  /\ UNCHANGED <<file, database, cache, phase, left, history>>

\* One transaction for the one target, from the handler's copy, or for a reload
\* the migration.  If it fails the handler ends, and the proxy runs on with the
\* change.
Store(r) ==
  /\ place[r] = "store"
  /\ LET local == proc[r]
         n == local.name
         mine == local.config[CHOOSE i \in DOMAIN local.config : local.config[i].name = n]
         can == local.op = "reload" \/ (Exists(n) <=> local.op # "create")
     IN \/ /\ can /\ Move(r, "replace", local)
           /\ IF local.op = "reload" THEN Migrate(local.config)
              ELSE IF local.op = "delete"
              THEN targets' = [targets EXCEPT ![n] = NoRecord] /\ order' = Without(n)
              ELSE targets' = [targets EXCEPT ![n] = RecordOf(mine)] /\ order' = With(n)
           /\ UNCHANGED <<agreed, left>>
        \/ /\ IF can THEN Spend("troubles") ELSE UNCHANGED left
           /\ Leave(r) /\ agreed' = FALSE /\ UNCHANGED database
  /\ UNCHANGED <<file, cache, runtime, phase, lone>>

\* Mutant: the cached configuration stays as it is.
ReplaceNothing(r) ==
  /\ place[r] = "replace" /\ Leave(r)
  /\ agreed' = (agreed \/ lone = r)
  /\ UNCHANGED <<file, database, cache, runtime, phase, left, lone>>

Replace(r) ==
  /\ place[r] = "replace" /\ cache' = proc[r].config /\ Leave(r)
  /\ agreed' = (agreed \/ lone = r)
  /\ UNCHANGED <<file, database, runtime, phase, left, lone>>
----------------------------------------------------------------------------
\* What a request submits; Changed looks at nothing else.
Submitted(op) ==
  IF op = "delete" THEN {NoRecord}
  ELSE [content : IF op = "pause" THEN {CHOOSE c \in Content : TRUE} ELSE Content,
        paused : IF op = "update" THEN {FALSE} ELSE BOOLEAN]

Arrive(r) ==
  \/ \E n \in Name, op \in Change : \E new \in Submitted(op) : Enter(r, op, n, new)
  \/ \E op \in {"view", "reload"} : Enter(r, op, Sorted[1], NoRecord)

Handle(r) ==
  ListTargets(r) \/ MigrateFromConfig(r) \/ ApplyConfig(r) \/ Store(r) \/ Replace(r)

AdminNext ==
  \/ Start \/ RemoveTargetsFromFile \/ Load \/ Stop
  \/ \E r \in Handler : Arrive(r) \/ Handle(r)

AdminSpec == AdminInit /\ [][AdminNext]_adminVars
----------------------------------------------------------------------------
(* Properties. *)

\* Handlers that overlap, and one whose write fails, may leave the proxy with
\* targets the database has not.  When a change has ended alone, or the program
\* has started, and none has overlapped or failed since, then at rest the proxy
\* runs with the targets of the database in their order, and so does the cache:
\* every change repairs what earlier ones have left (handler.go:1332).
CopiesAgree ==
  phase = "serving" /\ AtRest /\ agreed => runtime = Listed /\ cache = Listed

\* Whatever overlaps, a target in the database is changed or deleted by an
\* administrator's request for it, and by nothing else.  The configurations the
\* handlers hold, the cache and the file may be older than the database, and
\* three handlers and the start migrate them (targets.go:233): a target they
\* have and the database has not comes back only if it has none at all.
Requested(n) ==
  \E r \in Handler : place[r] = "store" /\ proc[r].op \in Change /\ proc[r].name = n
OnlyRequestsChange ==
  [][\A n \in Name :
       \/ targets'[n] = targets[n]
       \/ Requested(n)
       \/ Nothing]_adminVars
=============================================================================
