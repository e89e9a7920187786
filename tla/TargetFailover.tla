--------------------------- MODULE TargetFailover ---------------------------
(***************************************************************************)
(* Choosing an upstream target and failing over to another one: the outer  *)
(* loop of ServeHTTP (internal/proxy/service.go), selectTarget and the     *)
(* health of the targets (target.go), the connection affinity              *)
(* (affinity.go) and the marks of writeResponse (forward.go).              *)
(*                                                                         *)
(* The loop over the keys of one target is KeyRetry; here it is one step   *)
(* with one of its results: an answer, an error another target may repair, *)
(* or an error that is final.                                              *)
(*                                                                         *)
(* The weighted round robin is a free choice among the candidates: any of  *)
(* them may have the key the shared counter points at.  All requests ask   *)
(* for one model by one name; targets may serve it under other names.      *)
(* Which targets there are, and what they serve, changes with every        *)
(* reload: a target the configuration does not have serves nothing.        *)
(***************************************************************************)
EXTENDS Integers, FiniteSets

CONSTANTS
  Target,       \* names of targets
  NoTarget,
  Request,      \* request goroutines
  Client,       \* client identities ("ip|client name")
  ClientOf,     \* the client of each request
  Model,        \* model names
  Asked,        \* the name the clients ask for
  NoModel,
  Configs,      \* the configurations an administrator may put in force
  Asks,         \* what each request may come with: pairs of the target it
                \* names and the set of those its client may use
  QuietPeriod,  \* 60 s
  AffinityTTL   \* 5 min

\* The targets that are paused, the name under which each target serves the
\* model asked for, and the targets whose provider sanitizes the body (Azure).
Configuration == [paused : SUBSET Target,
                  upstream : [Target -> Model \cup {NoModel}],
                  sanitized : SUBSET Target]

ASSUME TargetAssumption ==
  /\ NoTarget \notin Target
  /\ NoModel \notin Model /\ Asked \in Model
  /\ Configs \subseteq Configuration
ASSUME ClientsAssumption ==
  /\ IsFiniteSet(Request) /\ ClientOf \in [Request -> Client]
  /\ Asks \in [Request -> SUBSET ((Target \cup {NoTarget}) \X SUBSET Target)]
ASSUME PeriodAssumption == QuietPeriod \in Nat \ {0} /\ AffinityTTL \in Nat

VARIABLES
  config,   \* the configuration in force
  mute,     \* time to mutedUntil of each target
  sticky,   \* the affinity map, NoTarget where it has no entry
  age,      \* time since lastUsed, up to the first value past the TTL
  pc, req,  \* where each request stands, and its local variables
  open,     \* totalRequests - totalSuccess - totalFailures
  active    \* activeRequests

metrics == <<open, active>>
affinity == <<sticky, age>>
vars == <<config, mute, affinity, pc, req, metrics>>

Expired == AffinityTTL + 1
Kind == {"explicit", "hit", "turn", "failover"}
Local == [wanted : Target \cup {NoTarget}, rights : SUBSET Target,
          found : Target \cup {NoTarget}, kind : Kind,
          target : Target \cup {NoTarget},
          attempted : SUBSET Target, name : Model \cup {NoModel},
          body : Model, clean : Model \cup {NoModel},
          sent : Model \cup {NoModel}, replaced : BOOLEAN]
Pc == {"idle", "lookup", "choose", "forward", "reply"}

TypeOK ==
  /\ config \in Configs
  /\ mute \in [Target -> 0 .. QuietPeriod]
  /\ sticky \in [Client \X Model -> Target \cup {NoTarget}]
  /\ age \in [Client \X Model -> 0 .. Expired]
  /\ pc \in [Request -> Pc]
  /\ req \in [Request -> Local]
  /\ open \in Int /\ active \in Int

Fresh == [wanted |-> NoTarget, rights |-> {}, found |-> NoTarget,
          kind |-> "explicit", target |-> NoTarget, attempted |-> {},
          name |-> NoModel, body |-> Asked, clean |-> NoModel, sent |-> NoModel,
          replaced |-> FALSE]

Init ==
  /\ config \in Configs
  /\ mute = [t \in Target |-> 0]
  /\ sticky = [e \in Client \X Model |-> NoTarget]
  /\ age = [e \in Client \X Model |-> 0]
  /\ pc = [r \in Request |-> "idle"]
  /\ req = [r \in Request |-> Fresh]
  /\ open = 0 /\ active = 0

Goto(r, from, to) == pc[r] = from /\ pc' = [pc EXCEPT ![r] = to]

\* The handler returns, after it has counted its outcome so many times on the
\* way out.  The deferred function counts a failure unless the flag
\* requestOutcomeRecorded is set, and takes the request off activeRequests.
Return(r, from, counts, recorded) ==
  /\ Goto(r, from, "idle")
  /\ req' = [req EXCEPT ![r] = Fresh]
  /\ open' = open - counts - (IF recorded THEN 0 ELSE 1)
  /\ active' = active - 1
----------------------------------------------------------------------------
(* Before a target is chosen. *)

Begin(r) ==
  /\ Goto(r, "idle", "lookup")
  /\ \E a \in Asks[r] : req' = [req EXCEPT ![r].wanted = a[1], ![r].rights = a[2]]
  /\ open' = open + 1 /\ active' = active + 1
  /\ UNCHANGED <<config, mute, affinity>>

\* No targets, an unreadable body, no model or an exceeded quota; or the list
\* of models, which the proxy answers itself.
AnswerLocally(r) ==
  /\ req[r].attempted = {}
  /\ Return(r, "lookup", 1, TRUE)
  /\ UNCHANGED <<config, mute, affinity>>
----------------------------------------------------------------------------
(* selectTarget *)

Serves(t) == config.upstream[t] # NoModel

\* resolveAliasToUpstream: the name of the first target that accepts the one
\* asked for, which need not be the target that served the client last.  Any
\* of them may be the first in the configuration.
ResolvedNames(r) ==
  LET able == {t \in req[r].rights \ config.paused : Serves(t)}
  IN IF able = {} THEN {Asked} ELSE {config.upstream[t] : t \in able}

Live(e) == sticky[e] # NoTarget /\ age[e] # Expired

\* The affinity is read once, before the first attempt: under the name asked
\* for, else under the resolved one.  Expired entries met are deleted.
Lookup(r) ==
  /\ Goto(r, "lookup", "choose")
  /\ \E name \in ResolvedNames(r) :
       LET byAsked == <<ClientOf[r], Asked>>
           byName == <<ClientOf[r], name>>
           read == IF req[r].wanted # NoTarget \/ req[r].attempted # {} THEN {}
                   ELSE IF Live(byAsked) THEN {byAsked} ELSE {byAsked, byName}
           hits == {e \in read : Live(e)}
       IN /\ req' = [req EXCEPT ![r].found =
                       IF hits = {} THEN NoTarget ELSE sticky[CHOOSE e \in hits : TRUE]]
          /\ sticky' = [e \in DOMAIN sticky |->
                          IF e \in read \ hits THEN NoTarget ELSE sticky[e]]
          /\ age' = [e \in DOMAIN age |-> IF e \in read \ hits THEN 0 ELSE age[e]]
  /\ UNCHANGED <<config, mute, metrics>>

Candidates(r) ==
  {t \in req[r].rights \ (config.paused \cup req[r].attempted) : Serves(t)}
\* Mutant: a muted target stays in the rotation.
UsableMuted(r) == Candidates(r)
Usable(r) == {t \in Candidates(r) : mute[t] = 0}

\* Mutant: the affinity path does not look at the client's rights.
PickAnyHit(r, t, kind) ==
  \/ /\ req[r].wanted # NoTarget
     /\ t = req[r].wanted /\ t \in Usable(r) /\ kind = "explicit"
  \/ /\ req[r].wanted = NoTarget
     /\ IF /\ req[r].found \notin config.paused \cup {NoTarget}
           /\ Serves(req[r].found) /\ mute[req[r].found] = 0
          THEN t = req[r].found /\ kind = "hit"
          ELSE /\ t \in Usable(r)
               /\ kind = IF req[r].found = NoTarget THEN "turn" ELSE "failover"

\* Mutant: the affinity path does not ask whether the target, as it is
\* configured now, serves the model.
PickServed(r, t, kind) ==
  \/ /\ req[r].wanted # NoTarget
     /\ t = req[r].wanted /\ t \in Usable(r) /\ kind = "explicit"
  \/ /\ req[r].wanted = NoTarget
     /\ IF /\ req[r].found \in req[r].rights \ (config.paused \cup req[r].attempted)
           /\ mute[req[r].found] = 0
          THEN t = req[r].found /\ kind = "hit"
          ELSE /\ t \in Usable(r)
               /\ kind = IF req[r].found = NoTarget THEN "turn" ELSE "failover"

\* The three ways to a target.  A sticky target that cannot be used now makes
\* the choice a failover.
Pick(r, t, kind) ==
  \/ /\ req[r].wanted # NoTarget
     /\ t = req[r].wanted /\ t \in Usable(r) /\ kind = "explicit"
  \/ /\ req[r].wanted = NoTarget /\ t \in Usable(r)
     /\ IF req[r].found \in Usable(r)
          THEN t = req[r].found /\ kind = "hit"
          ELSE kind = IF req[r].found = NoTarget THEN "turn" ELSE "failover"

\* The body carries on from attempt to attempt: a name that was rewritten is
\* not found again, and the sanitized body is computed once.
Body(r, t) == IF req[r].body = Asked THEN config.upstream[t] ELSE req[r].body
Clean(r, t) == IF t \in config.sanitized /\ req[r].clean = NoModel
                 THEN Body(r, t) ELSE req[r].clean

\* The request keeps the state of the target and the upstream model it has got
\* here, whatever is put in force afterwards.
Choose(r) ==
  /\ Goto(r, "choose", "forward")
  /\ \E t \in Target, kind \in Kind :
       /\ Pick(r, t, kind)
       /\ req' = [req EXCEPT ![r] =
            [req[r] EXCEPT
               !.target = t, !.kind = kind, !.found = NoTarget,
               !.attempted = @ \cup {t}, !.name = config.upstream[t],
               !.body = Body(r, t), !.clean = Clean(r, t), !.replaced = FALSE,
               !.sent = IF t \in config.sanitized THEN Clean(r, t) ELSE Body(r, t)]]
  /\ UNCHANGED <<config, mute, affinity, metrics>>

\* No target: the request is refused with the reason.
Refuse(r) ==
  /\ Return(r, "choose", 1, TRUE)
  /\ \A t \in Target, kind \in Kind : ~Pick(r, t, kind)
  /\ UNCHANGED <<config, mute, affinity>>
----------------------------------------------------------------------------
(* The result of the forward. *)

\* Mutant: a failure adds to the mute that is left.
MarkMore(r, time) ==
  mute' = IF req[r].replaced THEN mute
          ELSE [mute EXCEPT ![req[r].target] = IF time = 0 THEN 0 ELSE @ + time]

\* A mark goes to the state the request was given, which a reload may have
\* replaced in the meantime.
Mark(r, time) ==
  mute' = IF req[r].replaced THEN mute ELSE [mute EXCEPT ![req[r].target] = time]

\* What outlives an attempt; the rest are locals of the loop's body.
Again(r) == [Fresh EXCEPT !.rights = req[r].rights, !.attempted = req[r].attempted,
                          !.body = req[r].body, !.clean = req[r].clean]

\* Mutant: the target that failed is not remembered as tried.
RetryAnywhere(r) ==
  /\ req[r].wanted = NoTarget
  /\ Goto(r, "forward", "lookup")
  /\ req' = [req EXCEPT ![r] = [Again(r) EXCEPT !.attempted = {}]]
  /\ UNCHANGED <<config, mute, affinity, metrics>>

\* The transport failed: the target is muted and the next one is tried.
FailOver(r) ==
  /\ req[r].wanted = NoTarget
  /\ Goto(r, "forward", "lookup")
  /\ Mark(r, QuietPeriod)
  /\ req' = [req EXCEPT ![r] = Again(r)]
  /\ UNCHANGED <<config, affinity, metrics>>

\* The same for a target asked for by name, which is not replaced.
FailExplicit(r) ==
  /\ req[r].wanted # NoTarget
  /\ Return(r, "forward", 1, TRUE)
  /\ Mark(r, QuietPeriod)
  /\ UNCHANGED <<config, affinity>>

\* Mutant: a final error is counted but not recorded in the flag, and the
\* deferred function counts it again.
FailUnrecorded(r) ==
  /\ Return(r, "forward", 1, FALSE)
  /\ UNCHANGED <<config, mute, affinity>>

\* A timeout, a client that left, or no key: final, and the target is not muted.
Fail(r) ==
  /\ Return(r, "forward", 1, TRUE)
  /\ UNCHANGED <<config, mute, affinity>>

\* writeResponse counts the outcome itself.  5xx, 408 and 429 mute the target
\* although the client gets the answer; everything else ends a mute.
Respond(r) ==
  /\ Goto(r, "forward", "reply")
  /\ \E time \in {0, QuietPeriod} : Mark(r, time)
  /\ open' = open - 1
  /\ UNCHANGED <<config, affinity, req, active>>

\* Mutant: the entry is kept under the name the client asked for.
StickByAsked(r) ==
  /\ Return(r, "reply", 0, TRUE)
  /\ sticky' = [sticky EXCEPT ![<<ClientOf[r], Asked>>] = req[r].target]
  /\ age' = [age EXCEPT ![<<ClientOf[r], Asked>>] = 0]
  /\ UNCHANGED <<config, mute>>

\* The affinity is written when the answer is complete, whatever it was and
\* whatever has been put in force since the target was chosen.
Stick(r) ==
  /\ Return(r, "reply", 0, TRUE)
  /\ IF req[r].kind \in {"hit", "turn"}
       THEN LET e == <<ClientOf[r], req[r].name>>
            IN /\ sticky' = [sticky EXCEPT ![e] = req[r].target]
               /\ age' = [age EXCEPT ![e] = 0]
       ELSE UNCHANGED affinity
  /\ UNCHANGED <<config, mute>>
----------------------------------------------------------------------------
\* UpdateTargets and ApplyConfig: new targets, with new states for all of them.
\* Requests keep the old ones, and the affinity its entries.
Reload ==
  /\ config' \in Configs
  /\ mute' = [t \in Target |-> 0]
  /\ req' = [r \in Request |->
               IF pc[r] \in {"forward", "reply"} THEN [req[r] EXCEPT !.replaced = TRUE]
                                                ELSE req[r]]
  /\ UNCHANGED <<affinity, pc, metrics>>

Tick ==
  /\ mute' = [t \in Target |-> IF mute[t] > 0 THEN mute[t] - 1 ELSE 0]
  /\ age' = [e \in DOMAIN age |->
               IF Live(e) THEN age[e] + 1 ELSE age[e]]
  /\ UNCHANGED <<config, sticky, pc, req, metrics>>

Serve(r) ==
  \/ AnswerLocally(r)
  \/ Lookup(r) \/ Choose(r) \/ Refuse(r)
  \/ FailOver(r) \/ FailExplicit(r) \/ Fail(r) \/ Respond(r) \/ Stick(r)

Next ==
  \/ \E r \in Request : Begin(r) \/ Serve(r)
  \/ Reload
  \/ Tick

Spec == Init /\ [][Next]_vars

\* Every handler goes on (the transport has timeouts), and time passes.
FairSpec ==
  /\ Spec
  /\ \A r \in Request : WF_vars(Serve(r))
  /\ WF_vars(Tick)
----------------------------------------------------------------------------
(* Properties. *)

\* Every request is counted once, as a success or as a failure, on whichever
\* of the many returns it leaves, and activeRequests comes back down.
OutcomeCountedOnce ==
  /\ open = Cardinality({r \in Request : pc[r] \notin {"idle", "reply"}})
  /\ active = Cardinality({r \in Request : pc[r] # "idle"})

\* A request is only sent to targets its client is allowed to use, also when
\* the affinity remembers another one from a time when it was allowed.
RightsRespected ==
  \A r \in Request : pc[r] \in {"forward", "reply"} => req[r].target \in req[r].rights

\* Affinity entries outlive the configuration they were made under, and a
\* reload may pause their target, give it other names or take it away.  Such an
\* entry sends no request astray: a request goes to a target that is there, not
\* paused, and serves the model, and carries the name it has there, unless a
\* later reload has replaced the target under way.
StaleEntryMisleadsNobody ==
  \A r \in Request :
    pc[r] \in {"forward", "reply"} /\ ~req[r].replaced =>
      /\ req[r].target \notin config.paused
      /\ req[r].name = config.upstream[req[r].target] /\ req[r].name # NoModel

\* Nor does it stay: once a target no longer serves a model name, for good, the
\* entry that leads from that name to it runs out.  Requests that were under way
\* with the old configuration may write it once more; later ones do not keep it
\* alive, because they write under the name the target has now.
StaleEntriesFade ==
  \A e \in Client \X Model, t \in Target :
    <>[](config.upstream[t] # e[2]) => <>[]~(Live(e) /\ sticky[e] = t)

\* However the targets fail, a request comes to an end: the failover tries no
\* target twice.
EveryRequestEnds == \A r \in Request : pc[r] # "idle" ~> pc[r] = "idle"

\* A muted target comes back: requests that were sent to it before it was
\* muted may prolong the mute, but new ones cannot.
MuteEnds == \A t \in Target : mute[t] > 0 ~> mute[t] = 0

\* service.go:409-411: the name asked for is replaced by the upstream model of
\* the target wherever it appears in what is forwarded.
UpstreamGetsItsModel ==
  \A r \in Request : pc[r] = "forward" => req[r].sent = req[r].name

\* affinity_test.go:52 and service.go:673: a request that fails over to
\* another target leaves the affinity with the first one.
FailoverKeepsAffinity ==
  [][\A r \in Request, e \in Client \X Model :
       pc[r] = "reply" /\ pc'[r] = "idle" /\ Live(e) /\ ClientOf[r] = e[1]
         /\ sticky[e] \in req[r].attempted
         => sticky'[e] = sticky[e]]_vars
=============================================================================
