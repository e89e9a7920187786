---------------------------- MODULE TargetProofs ----------------------------
(***************************************************************************)
(* Theorems about the targets: about TargetFailover, for any number of     *)
(* targets, requests and clients, any names of models and any periods, and *)
(* about TargetAdmin, for any administrators, names, contents and bounds   *)
(* and whatever the file and the database hold at the first start.         *)
(***************************************************************************)
EXTENDS TargetFailover, TargetAdmin, FiniteSetTheorems, NaturalsInduction, WellFoundedInduction, TLAPS

----------------------------------------------------------------------------
(* TargetFailover *)

\* A request that has been forwarded went to a target its client may use, under
\* a name it was given then; unless a reload has replaced the target since, it
\* is not paused and still has that name.
Chosen(r) ==
  /\ req[r].target \in Target /\ req[r].target \in req[r].rights
  /\ req[r].name \in Model
  /\ ~req[r].replaced => /\ req[r].target \notin config.paused
                         /\ req[r].name = config.upstream[req[r].target]
ForwardInv == \A r \in Request : pc[r] \in {"forward", "reply"} => Chosen(r)

Inv == TypeOK /\ ForwardInv
----------------------------------------------------------------------------
(* Types. *)

LEMMA FreshIsLocal == Fresh \in Local
BY TargetAssumption DEF Fresh, Local, Kind

LEMMA ConfigType ==
  ASSUME TypeOK
  PROVE  config.upstream \in [Target -> Model \cup {NoModel}]
BY TargetAssumption DEF TypeOK, Configuration

LEMMA ServesModel ==
  ASSUME TypeOK, NEW t \in Target, Serves(t)
  PROVE  config.upstream[t] \in Model
BY ConfigType DEF Serves

LEMMA PickUsable ==
  ASSUME NEW r \in Request, NEW t \in Target, NEW kind \in Kind, Pick(r, t, kind)
  PROVE  t \in Usable(r)
BY DEF Pick

\* A request that returns.
LEMMA ReturnKeeps ==
  ASSUME TypeOK, ForwardInv, NEW r \in Request, NEW from \in Pc, NEW counts \in {0, 1},
         Return(r, from, counts, TRUE), UNCHANGED config
  PROVE  /\ pc' \in [Request -> Pc] /\ req' \in [Request -> Local]
         /\ open' \in Int /\ active' \in Int
         /\ ForwardInv'
<1>1. /\ pc' = [pc EXCEPT ![r] = "idle"] /\ req' = [req EXCEPT ![r] = Fresh]
      /\ open' = open - counts - 0 /\ active' = active - 1
  BY DEF Return, Goto
<1>2. open' \in Int /\ active' \in Int
  BY <1>1 DEF TypeOK
<1>. QED  BY <1>1, <1>2, FreshIsLocal DEF TypeOK, Pc, ForwardInv, Chosen

LEMMA MarkType ==
  ASSUME TypeOK, NEW r \in Request, NEW time \in {0, QuietPeriod}, Mark(r, time)
  PROVE  mute' \in [Target -> 0 .. QuietPeriod]
<1>1. time \in 0 .. QuietPeriod
  BY PeriodAssumption
<1>. QED  BY <1>1 DEF Mark, TypeOK

LEMMA InitInv == Init => Inv
<1> SUFFICES ASSUME Init PROVE Inv
  OBVIOUS
<1>1. TypeOK
  BY FreshIsLocal, PeriodAssumption DEF Init, TypeOK, Pc, Expired
<1>2. ForwardInv
  BY DEF Init, ForwardInv
<1>. QED  BY <1>1, <1>2 DEF Inv

LEMMA BeginKeeps ==
  ASSUME Inv, NEW r \in Request, Begin(r)
  PROVE  Inv'
<1>1. PICK a \in Asks[r] : req' = [req EXCEPT ![r].wanted = a[1], ![r].rights = a[2]]
  BY DEF Begin
<1>2. a \in (Target \cup {NoTarget}) \X SUBSET Target
  BY ClientsAssumption
<1>3. a[1] \in Target \cup {NoTarget} /\ a[2] \in SUBSET Target
  BY <1>2
<1>4. req' = [req EXCEPT ![r] = [req[r] EXCEPT !.wanted = a[1], !.rights = a[2]]]
  BY <1>1 DEF Inv, TypeOK
<1>5. [req[r] EXCEPT !.wanted = a[1], !.rights = a[2]] \in Local
  BY <1>3 DEF Inv, TypeOK, Local
<1>6. req' \in [Request -> Local] /\ \A q \in Request \ {r} : req'[q] = req[q]
  BY <1>4, <1>5 DEF Inv, TypeOK
<1>7. pc' = [pc EXCEPT ![r] = "lookup"]
  BY DEF Begin, Goto
<1>8. TypeOK'
  BY <1>6, <1>7 DEF Begin, affinity, Inv, TypeOK, Pc
<1>9. ForwardInv'
  BY <1>6, <1>7 DEF Begin, Inv, TypeOK, ForwardInv, Chosen
<1>. QED  BY <1>8, <1>9 DEF Inv

LEMMA NamesAreModels ==
  ASSUME TypeOK, NEW r \in Request
  PROVE  ResolvedNames(r) \subseteq Model
<1> DEFINE able == {t \in req[r].rights \ config.paused : Serves(t)}
<1>1. able \in SUBSET Target
  BY DEF TypeOK, Local
<1>2. \A t \in able : config.upstream[t] \in Model
  BY <1>1, ServesModel
<1>. QED  BY <1>2, TargetAssumption DEF ResolvedNames

LEMMA LookupKeeps ==
  ASSUME Inv, NEW r \in Request, Lookup(r)
  PROVE  Inv'
<1>0. PICK name \in ResolvedNames(r) :
        LET byAsked == <<ClientOf[r], Asked>>
            byName == <<ClientOf[r], name>>
            read == IF req[r].wanted # NoTarget \/ req[r].attempted # {} THEN {}
                    ELSE IF Live(byAsked) THEN {byAsked} ELSE {byAsked, byName}
            hits == {e \in read : Live(e)}
        IN /\ req' = [req EXCEPT ![r].found =
                        IF hits = {} THEN NoTarget ELSE sticky[CHOOSE e \in hits : TRUE]]
           /\ sticky' = [e \in DOMAIN sticky |->
                           IF e \in read \ hits THEN NoTarget ELSE sticky[e]]
           /\ age' = [e \in DOMAIN age |-> IF e \in read \ hits THEN 0 ELSE age[e]]
  BY DEF Lookup
<1> DEFINE byAsked == <<ClientOf[r], Asked>>
           byName == <<ClientOf[r], name>>
           read == IF req[r].wanted # NoTarget \/ req[r].attempted # {} THEN {}
                   ELSE IF Live(byAsked) THEN {byAsked} ELSE {byAsked, byName}
           hits == {e \in read : Live(e)}
           found == IF hits = {} THEN NoTarget ELSE sticky[CHOOSE e \in hits : TRUE]
<1>1. /\ req' = [req EXCEPT ![r].found = found]
      /\ sticky' = [e \in DOMAIN sticky |-> IF e \in read \ hits THEN NoTarget ELSE sticky[e]]
      /\ age' = [e \in DOMAIN age |-> IF e \in read \ hits THEN 0 ELSE age[e]]
      /\ pc' = [pc EXCEPT ![r] = "choose"]
      /\ UNCHANGED <<config, mute, open, active>>
  BY <1>0 DEF Lookup, Goto, metrics
<1>2. name \in Model
  BY NamesAreModels DEF Inv
<1>3. read \in SUBSET (Client \X Model)
  BY <1>2, TargetAssumption, ClientsAssumption
<1>4. found \in Target \cup {NoTarget}
  <2>1. CASE hits = {}
    BY <2>1
  <2>2. CASE hits # {}
    <3>1. (CHOOSE e \in hits : TRUE) \in Client \X Model
      BY <1>3, <2>2
    <3>. QED  BY <2>2, <3>1 DEF Inv, TypeOK
  <2>. QED  BY <2>1, <2>2
<1> HIDE DEF found, read, hits
<1>5. req' = [req EXCEPT ![r] = [req[r] EXCEPT !.found = found]]
  BY <1>1 DEF Inv, TypeOK
<1>6. [req[r] EXCEPT !.found = found] \in Local
  BY <1>4 DEF Inv, TypeOK, Local
<1>7. req' \in [Request -> Local] /\ \A q \in Request \ {r} : req'[q] = req[q]
  BY <1>5, <1>6 DEF Inv, TypeOK
<1>8. sticky' \in [Client \X Model -> Target \cup {NoTarget}]
  BY <1>1 DEF Inv, TypeOK
<1>9. age' \in [Client \X Model -> 0 .. Expired]
  <2>1. 0 \in 0 .. Expired
    BY PeriodAssumption DEF Expired
  <2>2. age \in [Client \X Model -> 0 .. Expired]
    BY DEF Inv, TypeOK
  <2> HIDE DEF Expired
  <2>3. DOMAIN age = Client \X Model
    BY <2>2
  <2>4. \A e \in Client \X Model : age'[e] \in 0 .. Expired
    BY <1>1, <2>1, <2>2, <2>3
  <2>. QED  BY <1>1, <2>3, <2>4
<1>10. TypeOK'
  BY <1>1, <1>7, <1>8, <1>9 DEF Inv, TypeOK, Pc
<1>11. ForwardInv'
  BY <1>1, <1>7 DEF Inv, TypeOK, ForwardInv, Chosen
<1>. QED  BY <1>10, <1>11 DEF Inv

LEMMA ChooseKeeps ==
  ASSUME Inv, NEW r \in Request, Choose(r)
  PROVE  Inv'
<1>0. req \in [Request -> Local] /\ req[r] \in Local
  BY DEF Inv, TypeOK
<1>1. PICK t \in Target, kind \in Kind :
        /\ Pick(r, t, kind)
        /\ req' = [req EXCEPT ![r] =
             [req[r] EXCEPT
                !.target = t, !.kind = kind, !.found = NoTarget,
                !.attempted = @ \cup {t}, !.name = config.upstream[t],
                !.body = Body(r, t), !.clean = Clean(r, t), !.replaced = FALSE,
                !.sent = IF t \in config.sanitized THEN Clean(r, t) ELSE Body(r, t)]]
  BY DEF Choose
<1> DEFINE sent == IF t \in config.sanitized THEN Clean(r, t) ELSE Body(r, t)
           l == [req[r] EXCEPT !.target = t, !.kind = kind, !.found = NoTarget,
                    !.attempted = req[r].attempted \cup {t}, !.name = config.upstream[t],
                    !.body = Body(r, t), !.clean = Clean(r, t), !.replaced = FALSE,
                    !.sent = sent]
<1>2. /\ t \in req[r].rights /\ t \notin config.paused
      /\ config.upstream[t] \in Model
  BY <1>1, PickUsable, ServesModel DEF Usable, Candidates, Inv
<1>3. Body(r, t) \in Model
  BY <1>0, <1>2 DEF Body, Local
<1>4. Clean(r, t) \in Model \cup {NoModel}
  BY <1>0, <1>3 DEF Clean, Local
<1>5. l \in Local /\ l.target = t /\ l.rights = req[r].rights /\ l.name = config.upstream[t]
  <2>1. req[r].attempted \cup {t} \in SUBSET Target
    BY <1>0 DEF Local
  <2>2. sent \in Model \cup {NoModel}
    BY <1>3, <1>4
  <2> HIDE DEF sent
  <2>. QED  BY <1>0, <1>2, <1>3, <1>4, <2>1, <2>2 DEF Local
<1>6. req' = [req EXCEPT ![r] = l]
  BY <1>0, <1>1
<1> HIDE DEF l
<1>7. pc' = [pc EXCEPT ![r] = "forward"] /\ UNCHANGED <<config, mute, sticky, age, open, active>>
  BY DEF Choose, Goto, affinity, metrics
<1>8. TypeOK'
  BY <1>5, <1>6, <1>7 DEF Inv, TypeOK, Pc
<1>9. ForwardInv'
  BY <1>2, <1>5, <1>6, <1>7 DEF Inv, TypeOK, ForwardInv, Chosen
<1>. QED  BY <1>8, <1>9 DEF Inv

\* The steps that end a request.
LEMMA EndKeeps ==
  ASSUME Inv, NEW r \in Request,
         AnswerLocally(r) \/ Refuse(r) \/ FailExplicit(r) \/ Fail(r)
  PROVE  Inv'
<1>1. PICK from \in Pc : Return(r, from, 1, TRUE)
  BY DEF AnswerLocally, Refuse, FailExplicit, Fail, Pc
<1>2. UNCHANGED <<config, sticky, age>>
  BY DEF AnswerLocally, Refuse, FailExplicit, Fail, affinity
<1>3. mute' \in [Target -> 0 .. QuietPeriod]
  <2>1. CASE UNCHANGED mute
    BY <2>1 DEF Inv, TypeOK
  <2>2. CASE Mark(r, QuietPeriod)
    BY <2>2, MarkType DEF Inv
  <2>. QED  BY <2>1, <2>2 DEF AnswerLocally, Refuse, FailExplicit, Fail
<1>4. /\ pc' \in [Request -> Pc] /\ req' \in [Request -> Local]
      /\ open' \in Int /\ active' \in Int /\ ForwardInv'
  BY <1>1, <1>2, ReturnKeeps DEF Inv
<1>. QED  BY <1>2, <1>3, <1>4 DEF Inv, TypeOK

LEMMA FailOverKeeps ==
  ASSUME Inv, NEW r \in Request, FailOver(r)
  PROVE  Inv'
<1>1. /\ pc' = [pc EXCEPT ![r] = "lookup"] /\ req' = [req EXCEPT ![r] = Again(r)]
      /\ UNCHANGED <<config, sticky, age, open, active>>
  BY DEF FailOver, Goto, affinity, metrics
<1>2. Again(r) \in Local
  <2>1. req[r] \in Local
    BY DEF Inv, TypeOK
  <2>. QED  BY <2>1, FreshIsLocal DEF Again, Local
<1>3. mute' \in [Target -> 0 .. QuietPeriod]
  BY MarkType DEF FailOver, Inv
<1>4. TypeOK'
  BY <1>1, <1>2, <1>3 DEF Inv, TypeOK, Pc
<1>5. ForwardInv'
  BY <1>1 DEF Inv, TypeOK, ForwardInv, Chosen
<1>. QED  BY <1>4, <1>5 DEF Inv

LEMMA RespondKeeps ==
  ASSUME Inv, NEW r \in Request, Respond(r)
  PROVE  Inv'
<1>1. pc[r] = "forward" /\ pc' = [pc EXCEPT ![r] = "reply"]
  BY DEF Respond, Goto
<1>2. UNCHANGED <<config, sticky, age, req, active>> /\ open' \in Int
  BY DEF Respond, affinity, Inv, TypeOK
<1>3. mute' \in [Target -> 0 .. QuietPeriod]
  BY MarkType DEF Respond, Inv
<1>4. TypeOK'
  BY <1>1, <1>2, <1>3 DEF Inv, TypeOK, Pc
<1>5. ForwardInv'
  BY <1>1, <1>2 DEF Inv, TypeOK, ForwardInv, Chosen
<1>. QED  BY <1>4, <1>5 DEF Inv

LEMMA StickKeeps ==
  ASSUME Inv, NEW r \in Request, Stick(r)
  PROVE  Inv'
<1> DEFINE t == req[r].target
           e == <<ClientOf[r], req[r].name>>
<1>1. Return(r, "reply", 0, TRUE) /\ UNCHANGED <<config, mute>>
  BY DEF Stick
<1>2. t \in Target /\ req[r].name \in Model
  BY <1>1 DEF Return, Goto, Inv, ForwardInv, Chosen
<1>3. e \in Client \X Model
  BY <1>2, ClientsAssumption
<1>4. \/ UNCHANGED <<sticky, age>>
      \/ sticky' = [sticky EXCEPT ![e] = t] /\ age' = [age EXCEPT ![e] = 0]
  BY DEF Stick, affinity
<1>5. /\ sticky' \in [Client \X Model -> Target \cup {NoTarget}]
      /\ age' \in [Client \X Model -> 0 .. Expired]
  BY <1>2, <1>3, <1>4, PeriodAssumption DEF Inv, TypeOK, Expired
<1>6. /\ pc' \in [Request -> Pc] /\ req' \in [Request -> Local]
      /\ open' \in Int /\ active' \in Int /\ ForwardInv'
  BY <1>1, ReturnKeeps DEF Inv, Pc
<1>. QED  BY <1>1, <1>5, <1>6 DEF Inv, TypeOK

LEMMA ReloadKeeps ==
  ASSUME Inv, Reload
  PROVE  Inv'
<1>1. /\ config' \in Configs /\ mute' = [t \in Target |-> 0]
      /\ req' = [r \in Request |->
           IF pc[r] \in {"forward", "reply"} THEN [req[r] EXCEPT !.replaced = TRUE]
                                            ELSE req[r]]
      /\ UNCHANGED <<sticky, age, pc, open, active>>
  BY DEF Reload, affinity, metrics
<1>2. ASSUME NEW r \in Request
      PROVE  /\ req'[r] \in Local /\ req'[r].target = req[r].target
             /\ req'[r].rights = req[r].rights /\ req'[r].name = req[r].name
             /\ pc[r] \in {"forward", "reply"} => req'[r].replaced
  BY <1>1 DEF Inv, TypeOK, Local
<1>3. TypeOK'
  BY <1>1, <1>2, PeriodAssumption DEF Inv, TypeOK
<1>4. ForwardInv'
  BY <1>1, <1>2 DEF Inv, ForwardInv, Chosen
<1>. QED  BY <1>3, <1>4 DEF Inv

LEMMA TickKeeps ==
  ASSUME Inv, Tick
  PROVE  Inv'
<1>1. mute' \in [Target -> 0 .. QuietPeriod]
  BY PeriodAssumption DEF Tick, Inv, TypeOK
<1>2. age' \in [Client \X Model -> 0 .. Expired]
  <2>1. age \in [Client \X Model -> 0 .. Expired] /\ Expired \in Nat
    BY PeriodAssumption DEF Inv, TypeOK, Expired
  <2>2. age' = [e \in DOMAIN age |-> IF Live(e) THEN age[e] + 1 ELSE age[e]]
    BY DEF Tick
  <2> HIDE DEF Expired
  <2>3. ASSUME NEW e \in Client \X Model PROVE age'[e] \in 0 .. Expired
    <3>1. age[e] \in 0 .. Expired /\ (Live(e) => age[e] # Expired)
      BY <2>1 DEF Live
    <3>2. age[e] \in Nat /\ age[e] <= Expired
      BY <2>1, <3>1
    <3>3. Live(e) => age[e] + 1 <= Expired
      BY <2>1, <3>1, <3>2
    <3>. QED  BY <2>1, <2>2, <3>1, <3>2, <3>3
  <2>4. DOMAIN age = Client \X Model
    BY <2>1
  <2>. QED  BY <2>2, <2>3, <2>4
<1>. QED
  BY <1>1, <1>2 DEF Tick, metrics, Inv, TypeOK, ForwardInv, Chosen

LEMMA InvStep == Inv /\ [Next]_vars => Inv'
<1>1. ASSUME Inv, UNCHANGED vars PROVE Inv'
  BY <1>1 DEF vars, affinity, metrics, Inv, TypeOK, ForwardInv, Chosen
<1>. QED
  BY <1>1, BeginKeeps, LookupKeeps, ChooseKeeps, EndKeeps, FailOverKeeps, RespondKeeps,
     StickKeeps, ReloadKeeps, TickKeeps DEF Next, Serve

LEMMA Invariance == Spec => []Inv
BY InitInv, InvStep, PTL DEF Spec
----------------------------------------------------------------------------
(* The theorems. *)

\* Every variable keeps its type: mutes, ages and targets stay in their ranges.
THEOREM FailoverTypeCorrect == Spec => []TypeOK
<1>1. Inv => TypeOK
  BY DEF Inv
<1>. QED  BY <1>1, Invariance, PTL

\* However often a request fails over and whatever the affinity remembers, it
\* is sent to no target its client may not use.
THEOREM RightsAlwaysRespected == Spec => []RightsRespected
<1>1. Inv => RightsRespected
  BY DEF Inv, ForwardInv, Chosen, RightsRespected
<1>. QED  BY <1>1, Invariance, PTL

\* Whatever configurations follow each other and whatever the affinity
\* remembers of earlier ones, a request goes to a target that the configuration
\* of the moment has, unpaused, under the name it gives the model.
THEOREM StaleEntriesMisleadNobody == Spec => []StaleEntryMisleadsNobody
<1>1. Inv => StaleEntryMisleadsNobody
  BY TargetAssumption DEF Inv, ForwardInv, Chosen, StaleEntryMisleadsNobody
<1>. QED  BY <1>1, Invariance, PTL

\* What the number of requests at some of the places does when one moves.
LEMMA MoveCount ==
  ASSUME NEW places, TypeOK, NEW r \in Request, NEW to \in Pc, pc' = [pc EXCEPT ![r] = to]
  PROVE  LET before == {q \in Request : pc[q] \notin places}
             after == {q \in Request : pc'[q] \notin places}
         IN /\ Cardinality(before) \in Int
            /\ Cardinality(after) =
                 IF (pc[r] \in places) <=> (to \in places) THEN Cardinality(before)
                 ELSE IF to \in places THEN Cardinality(before) - 1
                 ELSE Cardinality(before) + 1
<1> DEFINE before == {q \in Request : pc[q] \notin places}
           after == {q \in Request : pc'[q] \notin places}
<1>1. pc'[r] = to /\ \A q \in Request \ {r} : pc'[q] = pc[q]
  BY DEF TypeOK
<1>2. IsFiniteSet(before) /\ Cardinality(before) \in Nat
  BY ClientsAssumption, FS_Subset, FS_CardinalityType
<1>3. (pc[r] \in places <=> to \in places) => Cardinality(after) = Cardinality(before)
  <2>1. (pc[r] \in places <=> to \in places) => after = before
    BY <1>1
  <2> HIDE DEF after, before
  <2>. QED  BY <2>1
<1>4. pc[r] \notin places /\ to \in places => Cardinality(after) = Cardinality(before) - 1
  <2> SUFFICES ASSUME pc[r] \notin places, to \in places
               PROVE  Cardinality(after) = Cardinality(before) - 1
    OBVIOUS
  <2>1. after = before \ {r} /\ r \in before
    BY <1>1
  <2> HIDE DEF after, before
  <2>. QED  BY <1>2, <2>1, FS_RemoveElement
<1>5. pc[r] \in places /\ to \notin places => Cardinality(after) = Cardinality(before) + 1
  <2> SUFFICES ASSUME pc[r] \in places, to \notin places
               PROVE  Cardinality(after) = Cardinality(before) + 1
    OBVIOUS
  <2>1. after = before \cup {r} /\ r \notin before
    BY <1>1
  <2> HIDE DEF after, before
  <2>. QED  BY <1>2, <2>1, FS_AddElement
<1>6. /\ Cardinality(before) \in Int
      /\ Cardinality(after) =
           IF (pc[r] \in places) <=> (to \in places) THEN Cardinality(before)
           ELSE IF to \in places THEN Cardinality(before) - 1
           ELSE Cardinality(before) + 1
  <2> HIDE DEF after, before
  <2>. QED  BY <1>2, <1>3, <1>4, <1>5
<1>. QED  BY <1>6

Underway == {r \in Request : pc[r] # "idle"}
Uncounted == {r \in Request : pc[r] \notin {"idle", "reply"}}

LEMMA MoveBoth ==
  ASSUME TypeOK, NEW r \in Request, NEW to \in Pc, pc' = [pc EXCEPT ![r] = to]
  PROVE  /\ Cardinality(Underway) \in Int /\ Cardinality(Uncounted) \in Int
         /\ Cardinality(Underway') =
              IF (pc[r] = "idle") <=> (to = "idle") THEN Cardinality(Underway)
              ELSE IF to = "idle" THEN Cardinality(Underway) - 1
              ELSE Cardinality(Underway) + 1
         /\ Cardinality(Uncounted') =
              IF (pc[r] \in {"idle", "reply"}) <=> (to \in {"idle", "reply"})
              THEN Cardinality(Uncounted)
              ELSE IF to \in {"idle", "reply"} THEN Cardinality(Uncounted) - 1
              ELSE Cardinality(Uncounted) + 1
<1>1. /\ Underway = {q \in Request : pc[q] \notin {"idle"}}
      /\ Underway' = {q \in Request : pc'[q] \notin {"idle"}}
  BY DEF Underway
<1>2. /\ Cardinality(Underway) \in Int
      /\ Cardinality(Underway') =
           IF (pc[r] \in {"idle"}) <=> (to \in {"idle"}) THEN Cardinality(Underway)
           ELSE IF to \in {"idle"} THEN Cardinality(Underway) - 1
           ELSE Cardinality(Underway) + 1
  BY <1>1, MoveCount
<1>3. /\ Cardinality(Uncounted) \in Int
      /\ Cardinality(Uncounted') =
           IF (pc[r] \in {"idle", "reply"}) <=> (to \in {"idle", "reply"})
           THEN Cardinality(Uncounted)
           ELSE IF to \in {"idle", "reply"} THEN Cardinality(Uncounted) - 1
           ELSE Cardinality(Uncounted) + 1
  BY MoveCount DEF Uncounted
<1>. QED  BY <1>2, <1>3

LEMMA CountStep ==
  ASSUME TypeOK, OutcomeCountedOnce, [Next]_vars
  PROVE  OutcomeCountedOnce'
<1> USE DEF Pc
<1>0. open = Cardinality(Uncounted) /\ active = Cardinality(Underway)
  BY DEF OutcomeCountedOnce, Uncounted, Underway
<1> SUFFICES open' = Cardinality(Uncounted') /\ active' = Cardinality(Underway')
  BY DEF OutcomeCountedOnce, Uncounted, Underway
<1>1. ASSUME NEW r \in Request, Begin(r)
      PROVE  open' = Cardinality(Uncounted') /\ active' = Cardinality(Underway')
  BY <1>0, <1>1, MoveBoth DEF Begin, Goto
<1>2. ASSUME NEW r \in Request, AnswerLocally(r) \/ Refuse(r) \/ FailExplicit(r) \/ Fail(r)
      PROVE  open' = Cardinality(Uncounted') /\ active' = Cardinality(Underway')
  <2>1. /\ pc[r] \notin {"idle", "reply"} /\ pc' = [pc EXCEPT ![r] = "idle"]
        /\ open' = open - 1 - 0 /\ active' = active - 1
    BY <1>2 DEF AnswerLocally, Refuse, FailExplicit, Fail, Return, Goto
  <2>2. open' = open - 1
    BY <2>1 DEF TypeOK
  <2>. QED  BY <1>0, <2>1, <2>2, MoveBoth
<1>3. ASSUME NEW r \in Request, Lookup(r) \/ Choose(r) \/ FailOver(r)
      PROVE  open' = Cardinality(Uncounted') /\ active' = Cardinality(Underway')
  <2>1. PICK to \in {"lookup", "choose", "forward"} :
          /\ pc[r] \notin {"idle", "reply"} /\ pc' = [pc EXCEPT ![r] = to]
          /\ open' = open /\ active' = active
    BY <1>3 DEF Lookup, Choose, FailOver, Goto, metrics
  <2>2. to \in Pc /\ to \notin {"idle", "reply"}
    BY <2>1
  <2>3. /\ Cardinality(Underway') = Cardinality(Underway)
        /\ Cardinality(Uncounted') = Cardinality(Uncounted)
    <3>1. ~(pc[r] = "idle") /\ ~(to = "idle")
      BY <2>1, <2>2
    <3>. QED  BY <2>1, <2>2, <3>1, MoveBoth
  <2>. QED  BY <1>0, <2>1, <2>3
<1>4. ASSUME NEW r \in Request, Respond(r)
      PROVE  open' = Cardinality(Uncounted') /\ active' = Cardinality(Underway')
  BY <1>0, <1>4, MoveBoth DEF Respond, Goto
<1>5. ASSUME NEW r \in Request, Stick(r)
      PROVE  open' = Cardinality(Uncounted') /\ active' = Cardinality(Underway')
  <2>1. /\ pc[r] = "reply" /\ pc' = [pc EXCEPT ![r] = "idle"]
        /\ open' = open - 0 - 0 /\ active' = active - 1
    BY <1>5 DEF Stick, Return, Goto
  <2>2. open' = open
    BY <2>1 DEF TypeOK
  <2>. QED  BY <1>0, <2>1, <2>2, MoveBoth
<1>6. CASE Reload \/ Tick \/ UNCHANGED vars
  <2>1. UNCHANGED <<pc, open, active>>
    BY <1>6 DEF Reload, Tick, vars, metrics
  <2>. QED  BY <1>0, <2>1 DEF Uncounted, Underway
<1>. QED  BY <1>1, <1>2, <1>3, <1>4, <1>5, <1>6 DEF Next, Serve

\* Whatever way a request takes out of the failover, its outcome is counted once
\* and activeRequests comes down once.
THEOREM OutcomesAreCountedOnce == Spec => []OutcomeCountedOnce
<1>1. Init => OutcomeCountedOnce
  <2> SUFFICES ASSUME Init PROVE OutcomeCountedOnce
    OBVIOUS
  <2>1. Uncounted = {} /\ Underway = {}
    BY DEF Init, Uncounted, Underway
  <2>. QED  BY <2>1, FS_EmptySet DEF Init, OutcomeCountedOnce, Uncounted, Underway
<1>. QED  BY <1>1, CountStep, FailoverTypeCorrect, PTL DEF Spec
----------------------------------------------------------------------------
(* TargetAdmin: what Kept makes of a sequence. *)

\* A set of numbers has a least one.
LEMMA Least ==
  ASSUME NEW S \in SUBSET Nat, S # {}
  PROVE  \E x \in S : \A y \in S : x <= y
<1> DEFINE Less == OpToRel(<, Nat)
<1>1. PICK x \in S : \A y \in S : <<y, x>> \notin Less
  BY NatLessThanWellFounded, WFMin
<1>2. \A y \in S : ~(y < x)
  BY <1>1 DEF OpToRel
<1>. QED  BY <1>2

\* Induction up to a number.
LEMMA Upwards ==
  ASSUME NEW n \in Nat, NEW G, 0 \in G, \A i \in 1 .. n : i - 1 \in G => i \in G
  PROVE  \A i \in 0 .. n : i \in G
<1> DEFINE Bad == (0 .. n) \ G
<1>1. Bad = {}
  <2> SUFFICES ASSUME Bad # {} PROVE FALSE  OBVIOUS
  <2>1. PICK i \in Bad : \A j \in Bad : i <= j
    <3>1. Bad \in SUBSET Nat  OBVIOUS
    <3>. QED  BY <3>1, Least
  <2>2. i \in 1 .. n /\ i - 1 \in 0 .. n /\ ~(i <= i - 1)
    OBVIOUS
  <2>3. i - 1 \in G
    BY <2>1, <2>2
  <2>. QED  BY <2>2, <2>3
<1>. QED  BY <1>1

\* kept[i] is what Kept makes of the first i members.
Keeps(kept, s, S) ==
  /\ kept[0] = <<>>
  /\ \A i \in 1 .. Len(s) :
       kept[i] = IF s[i] \in S THEN Append(kept[i - 1], s[i]) ELSE kept[i - 1]

LEMMA Keeping ==
  ASSUME NEW X, NEW s \in Seq(X), NEW S
  PROVE  \E kept \in [0 .. Len(s) -> Seq(X)] : Keeps(kept, s, S) /\ Kept(s, S) = kept[Len(s)]
<1> DEFINE n == Len(s)
           Upto(kept, k) ==
             \A i \in 0 .. k :
               kept[i] = IF i = 0 THEN <<>>
                         ELSE IF s[i] \in S THEN Append(kept[i - 1], s[i]) ELSE kept[i - 1]
           G == {k \in 0 .. n : \E kept \in [0 .. k -> Seq(X)] : Upto(kept, k)}
<1>1. n \in Nat /\ \A i \in 1 .. n : s[i] \in X
  OBVIOUS
<1>2. 0 \in G
  <2> DEFINE none == [i \in 0 .. 0 |-> <<>>]
  <2>1. none \in [0 .. 0 -> Seq(X)]
    OBVIOUS
  <2>2. Upto(none, 0)
    OBVIOUS
  <2>3. 0 \in 0 .. n
    BY <1>1
  <2> HIDE DEF none, Upto, n
  <2>. QED  BY <2>1, <2>2, <2>3
<1>3. ASSUME NEW k \in 1 .. n, k - 1 \in G PROVE k \in G
  <2>1. PICK kept \in [0 .. k - 1 -> Seq(X)] : Upto(kept, k - 1)
    BY <1>3
  <2> DEFINE last == IF s[k] \in S THEN Append(kept[k - 1], s[k]) ELSE kept[k - 1]
             next == [i \in 0 .. k |-> IF i = k THEN last ELSE kept[i]]
  <2>2. last \in Seq(X)
    BY <1>1
  <2>3. next \in [0 .. k -> Seq(X)]
    BY <1>1, <2>2
  <2>4. ASSUME NEW i \in 0 .. k
        PROVE  next[i] = IF i = 0 THEN <<>>
                         ELSE IF s[i] \in S THEN Append(next[i - 1], s[i]) ELSE next[i - 1]
    <3>1. CASE i = k
      <4>1. next[i] = last /\ i # 0 /\ next[i - 1] = kept[i - 1]
        BY <1>1, <3>1
      <4>. QED  BY <3>1, <4>1
    <3>2. CASE i # k
      <4>1. i \in 0 .. k - 1 /\ next[i] = kept[i] /\ (i # 0 => next[i - 1] = kept[i - 1])
        BY <1>1, <3>2
      <4> HIDE DEF next
      <4>. QED  BY <2>1, <4>1
    <3>. QED  BY <3>1, <3>2
  <2>5. Upto(next, k)
    BY <2>4
  <2> HIDE DEF next, Upto
  <2>. QED  BY <2>3, <2>5
<1>4. n \in G
  <2>1. n \in 0 .. n
    BY <1>1
  <2> HIDE DEF G, n
  <2>2. \A i \in 0 .. n : i \in G
    BY <1>1, <1>2, <1>3, Upwards
  <2>. QED  BY <2>1, <2>2
<1>5. PICK kept \in [0 .. n -> Seq(X)] : Upto(kept, n)
  BY <1>4
<1> DEFINE Is(g) ==
      g = [i \in 0 .. Len(s) |->
             IF i = 0 THEN <<>>
             ELSE IF s[i] \in S THEN Append(g[i - 1], s[i]) ELSE g[i - 1]]
           it == CHOOSE g : Is(g)
<1>6. Is(kept)
  BY <1>5
<1>7. Is(it)
  BY <1>6
<1>8. Kept(s, S) = it[Len(s)]
  BY DEF Kept
<1>9. it = kept
  <2> DEFINE E == {i \in 0 .. n : it[i] = kept[i]}
  <2> HIDE DEF it
  <2>1. 0 \in E
    BY <1>1, <1>6, <1>7
  <2>2. ASSUME NEW i \in 1 .. n, i - 1 \in E PROVE i \in E
    <3>1. i \in 0 .. n /\ i # 0 /\ it[i - 1] = kept[i - 1]
      BY <1>1, <2>2
    <3>2. it[i] = IF s[i] \in S THEN Append(it[i - 1], s[i]) ELSE it[i - 1]
      BY <1>7, <3>1
    <3>3. kept[i] = IF s[i] \in S THEN Append(kept[i - 1], s[i]) ELSE kept[i - 1]
      BY <1>6, <3>1
    <3>4. it[i] = kept[i]
      BY <3>1, <3>2, <3>3
    <3>. QED  BY <3>1, <3>4
  <2>3. \A i \in 0 .. n : i \in E
    <3> HIDE DEF E, n
    <3>. QED  BY <1>1, <2>1, <2>2, Upwards
  <2>. QED  BY <1>6, <1>7, <2>3
<1>10. Keeps(kept, s, S)
  <2>1. kept[0] = <<>>
    BY <1>1, <1>5
  <2>2. ASSUME NEW i \in 1 .. Len(s)
        PROVE  kept[i] = IF s[i] \in S THEN Append(kept[i - 1], s[i]) ELSE kept[i - 1]
    <3>1. i \in 0 .. n /\ i # 0
      BY <1>1
    <3>. QED  BY <1>5, <3>1
  <2>. QED  BY <2>1, <2>2 DEF Keeps
<1>. QED  BY <1>5, <1>8, <1>9, <1>10

\* A sequence all of whose members are in the set is kept as it is.
LEMMA KeptAll ==
  ASSUME NEW X, NEW s \in Seq(X), NEW S, \A i \in DOMAIN s : s[i] \in S
  PROVE  Kept(s, S) = s
<1>1. PICK kept \in [0 .. Len(s) -> Seq(X)] : Keeps(kept, s, S) /\ Kept(s, S) = kept[Len(s)]
  BY Keeping
<1> DEFINE Same(i) == Len(kept[i]) = i /\ \A j \in 1 .. i : kept[i][j] = s[j]
           G == {i \in 0 .. Len(s) : Same(i)}
<1>2. Len(s) \in Nat /\ DOMAIN s = 1 .. Len(s)
  OBVIOUS
<1>3. 0 \in G
  BY <1>1, <1>2 DEF Keeps
<1>4. ASSUME NEW i \in 1 .. Len(s), i - 1 \in G PROVE i \in G
  <2>1. i \in 0 .. Len(s) /\ i - 1 \in 0 .. Len(s) /\ s[i] \in X /\ kept[i - 1] \in Seq(X)
    BY <1>2
  <2>2. Same(i - 1) /\ s[i] \in S
    BY <1>2, <1>4
  <2>3. kept[i] = Append(kept[i - 1], s[i])
    BY <1>1, <2>2 DEF Keeps
  <2>. QED  BY <2>1, <2>2, <2>3
<1>5. Len(s) \in G
  <2>1. Len(s) \in 0 .. Len(s)
    BY <1>2
  <2> HIDE DEF G
  <2>2. \A i \in 0 .. Len(s) : i \in G
    BY <1>2, <1>3, <1>4, Upwards
  <2>. QED  BY <2>1, <2>2
<1>. QED  BY <1>1, <1>2, <1>5

\* Nothing is left of one without members in the set.
LEMMA KeptNone ==
  ASSUME NEW X, NEW s \in Seq(X), NEW S, \A i \in DOMAIN s : s[i] \notin S
  PROVE  Kept(s, S) = <<>>
<1>1. PICK kept \in [0 .. Len(s) -> Seq(X)] : Keeps(kept, s, S) /\ Kept(s, S) = kept[Len(s)]
  BY Keeping
<1> DEFINE G == {i \in 0 .. Len(s) : kept[i] = <<>>}
<1>2. Len(s) \in Nat /\ DOMAIN s = 1 .. Len(s)
  OBVIOUS
<1>3. 0 \in G
  BY <1>1, <1>2 DEF Keeps
<1>4. ASSUME NEW i \in 1 .. Len(s), i - 1 \in G PROVE i \in G
  BY <1>1, <1>2, <1>4 DEF Keeps
<1>5. Len(s) \in G
  <2>1. Len(s) \in 0 .. Len(s)
    BY <1>2
  <2> HIDE DEF G
  <2>2. \A i \in 0 .. Len(s) : i \in G
    BY <1>2, <1>3, <1>4, Upwards
  <2>. QED  BY <2>1, <2>2
<1>. QED  BY <1>1, <1>5

\* What is kept of the first i members.
KeptSoFar(t, s, S, i) ==
  /\ \A k \in DOMAIN t : t[k] \in S /\ \E j \in 1 .. i : s[j] = t[k]
  /\ \A j \in 1 .. i : s[j] \in S => \E k \in DOMAIN t : t[k] = s[j]
  /\ IsInjective(s) => IsInjective(t)

LEMMA KeptMembers ==
  ASSUME NEW X, NEW s \in Seq(X), NEW S
  PROVE  Kept(s, S) \in Seq(X) /\ KeptSoFar(Kept(s, S), s, S, Len(s))
<1>1. PICK kept \in [0 .. Len(s) -> Seq(X)] : Keeps(kept, s, S) /\ Kept(s, S) = kept[Len(s)]
  BY Keeping
<1> DEFINE G == {i \in 0 .. Len(s) : KeptSoFar(kept[i], s, S, i)}
<1>2. Len(s) \in Nat /\ DOMAIN s = 1 .. Len(s)
  OBVIOUS
<1>3. 0 \in G
  BY <1>1, <1>2 DEF Keeps, KeptSoFar, IsInjective
<1>4. ASSUME NEW i \in 1 .. Len(s), i - 1 \in G PROVE i \in G
  <2> DEFINE t == kept[i - 1]
  <2>1. /\ i \in 0 .. Len(s) /\ s[i] \in X /\ t \in Seq(X) /\ KeptSoFar(t, s, S, i - 1)
        /\ kept[i] = IF s[i] \in S THEN Append(t, s[i]) ELSE t
    BY <1>1, <1>2, <1>4 DEF Keeps
  <2>2. CASE s[i] \notin S
    <3>1. \A j \in 1 .. i : j \in 1 .. i - 1 \/ j = i
      BY <1>2
    <3>2. \A j \in 1 .. i - 1 : j \in 1 .. i
      BY <1>2
    <3>3. KeptSoFar(t, s, S, i)
      <4> HIDE DEF t
      <4>. QED  BY <2>1, <2>2, <3>1, <3>2 DEF KeptSoFar
    <3>. QED  BY <2>1, <2>2, <3>3
  <2>3. CASE s[i] \in S
    <3> DEFINE u == Append(t, s[i])
    <3>1. /\ Len(t) \in Nat /\ DOMAIN t = 1 .. Len(t) /\ DOMAIN u = 1 .. (Len(t) + 1)
          /\ u[Len(t) + 1] = s[i] /\ \A k \in 1 .. Len(t) : u[k] = t[k]
      BY <2>1
    <3>2. \A k \in DOMAIN u : k \in DOMAIN t \/ k = Len(t) + 1
      BY <3>1
    <3>3. \A j \in 1 .. i : j \in 1 .. i - 1 \/ j = i
      BY <1>2
    <3>4. \A k \in DOMAIN t : k \in DOMAIN u /\ u[k] = t[k]
      BY <3>1
    <3>5. Len(t) + 1 \in DOMAIN u /\ i \in 1 .. i /\ \A j \in 1 .. i - 1 : j \in 1 .. i
      BY <1>2, <3>1
    <3> HIDE DEF t, u
    <3>6. \A k \in DOMAIN u : u[k] \in S /\ \E j \in 1 .. i : s[j] = u[k]
      BY <2>1, <2>3, <3>1, <3>2, <3>4, <3>5 DEF KeptSoFar
    <3>7. \A j \in 1 .. i : s[j] \in S => \E k \in DOMAIN u : u[k] = s[j]
      BY <2>1, <3>1, <3>3, <3>4, <3>5 DEF KeptSoFar
    <3>8. IsInjective(s) => IsInjective(u)
      <4> SUFFICES ASSUME IsInjective(s), NEW k \in DOMAIN u, NEW l \in DOMAIN u, u[k] = u[l]
                   PROVE  k = l
        BY DEF IsInjective
      <4>1. \A m \in DOMAIN t : t[m] # s[i]
        <5> SUFFICES ASSUME NEW m \in DOMAIN t, t[m] = s[i] PROVE FALSE  OBVIOUS
        <5>1. PICK j \in 1 .. i - 1 : s[j] = s[i]
          BY <2>1 DEF KeptSoFar
        <5>2. j \in DOMAIN s /\ i \in DOMAIN s /\ j # i
          BY <1>2, <5>1
        <5>. QED  BY <5>1, <5>2 DEF IsInjective
      <4>2. CASE k \in DOMAIN t /\ l \in DOMAIN t
        BY <2>1, <3>4, <4>2 DEF KeptSoFar, IsInjective
      <4>. QED  BY <3>1, <3>2, <3>4, <4>1, <4>2
    <3>. QED  BY <2>1, <2>3, <3>6, <3>7, <3>8 DEF KeptSoFar, u
  <2>. QED  BY <2>2, <2>3
<1>5. Len(s) \in G
  <2>1. Len(s) \in 0 .. Len(s)
    BY <1>2
  <2> HIDE DEF G
  <2>2. \A i \in 0 .. Len(s) : i \in G
    BY <1>2, <1>3, <1>4, Upwards
  <2>. QED  BY <2>1, <2>2
<1>. QED  BY <1>1, <1>2, <1>5

\* What is kept of an image is the image of what is kept.
Image(f, s) == [i \in DOMAIN s |-> f[s[i]]]
Follows(f, X, S, U) == \A x \in X : x \in S <=> f[x] \in U

LEMMA KeptImage ==
  ASSUME NEW X, NEW s \in Seq(X), NEW f, NEW S, NEW U, Follows(f, X, S, U)
  PROVE  Kept(Image(f, s), U) = Image(f, Kept(s, S))
<1>1. PICK kept \in [0 .. Len(s) -> Seq(X)] : Keeps(kept, s, S) /\ Kept(s, S) = kept[Len(s)]
  BY Keeping
<1> DEFINE u == Image(f, s)
           Y == {f[x] : x \in X}
<1>2. /\ Len(s) \in Nat /\ DOMAIN s = 1 .. Len(s)
      /\ Len(u) = Len(s) /\ \A i \in 1 .. Len(s) : u[i] = f[s[i]] /\ s[i] \in X
  BY DEF Image
<1>7. u \in Seq(Y)
  BY DEF Image
<1> HIDE DEF u
<1>3. PICK also \in [0 .. Len(u) -> Seq(Y)] : Keeps(also, u, U) /\ Kept(u, U) = also[Len(u)]
  BY <1>7, Keeping
<1> DEFINE G == {i \in 0 .. Len(s) : also[i] = Image(f, kept[i])}
<1>4. 0 \in G
  BY <1>1, <1>2, <1>3 DEF Keeps, Image
<1>5. ASSUME NEW i \in 1 .. Len(s), i - 1 \in G PROVE i \in G
  <2> DEFINE t == kept[i - 1]
  <2>3. /\ i \in 0 .. Len(s) /\ i - 1 \in 0 .. Len(s) /\ i \in 1 .. Len(u)
        /\ s[i] \in X /\ u[i] = f[s[i]] /\ (s[i] \in S <=> u[i] \in U)
    BY <1>2 DEF Follows
  <2>4. also[i - 1] = Image(f, t)
    BY <1>5
  <2>5. kept[i] = IF s[i] \in S THEN Append(t, s[i]) ELSE t
    BY <1>1 DEF Keeps
  <2>6. also[i] = IF u[i] \in U THEN Append(also[i - 1], u[i]) ELSE also[i - 1]
    BY <1>3, <2>3 DEF Keeps
  <2>1. /\ i \in 0 .. Len(s) /\ t \in Seq(X) /\ s[i] \in X
        /\ kept[i] = IF s[i] \in S THEN Append(t, s[i]) ELSE t
        /\ also[i] = IF s[i] \in S THEN Append(Image(f, t), f[s[i]]) ELSE Image(f, t)
    BY <2>3, <2>4, <2>5, <2>6
  <2>2. Append(Image(f, t), f[s[i]]) = Image(f, Append(t, s[i]))
    <3> HIDE DEF t
    <3>1. /\ Len(t) \in Nat /\ DOMAIN t = 1 .. Len(t)
          /\ \A k \in 1 .. Len(t) : t[k] \in X /\ f[t[k]] \in Y
      BY <2>1
    <3>2. f[s[i]] \in Y
      BY <2>1
    <3> HIDE DEF Y
    <3>3. Image(f, t) \in Seq(Y) /\ Len(Image(f, t)) = Len(t)
      BY <3>1 DEF Image
    <3>. QED  BY <2>1, <3>1, <3>2, <3>3 DEF Image
  <2> HIDE DEF t
  <2>. QED  BY <2>1, <2>2
<1>6. Len(s) \in G
  <2>1. Len(s) \in 0 .. Len(s)
    BY <1>2
  <2> HIDE DEF G
  <2>2. \A i \in 0 .. Len(s) : i \in G
    BY <1>2, <1>4, <1>5, Upwards
  <2>. QED  BY <2>1, <2>2
<1>. QED  BY <1>1, <1>2, <1>3, <1>6 DEF u
----------------------------------------------------------------------------
(* TargetAdmin: configurations and the database. *)

\* The database: the order has the names of the stored targets, each once.
Ordered ==
  /\ targets \in [Name -> Record \cup {NoRecord}]
  /\ order \in Seq(Name) /\ IsInjective(order)
  /\ Range(order) = Existing

\* A configuration has a name once.
DistinctNames(shown) ==
  \A i, j \in DOMAIN shown : shown[i].name = shown[j].name => i = j
Config == {c \in Seq(Entry) : DistinctNames(c)}

\* What is listed of t in the order o.
ListOf(t, o) == [i \in DOMAIN o |-> EntryOf(o[i], t[o[i]])]

LEMMA ListedIs == Ordered => Listed = ListOf(targets, order)
<1> SUFFICES ASSUME Ordered PROVE Listed = ListOf(targets, order)  OBVIOUS
<1>1. Kept(order, Existing) = order
  <2>1. order \in Seq(Name) /\ \A i \in DOMAIN order : order[i] \in Existing
    BY DEF Ordered, Range
  <2>. QED  BY <2>1, KeptAll
<1>2. Kept(Sorted, Existing \ Range(order)) = <<>>
  <2>1. Sorted \in Seq(Name) /\ \A i \in DOMAIN Sorted : Sorted[i] \notin Existing \ Range(order)
    BY NameAssumption DEF Ordered
  <2>. QED  BY <2>1, KeptNone
<1>3. InOrder = order
  <2>1. order \in Seq(Name)
    BY DEF Ordered
  <2>2. order \o <<>> = order
    BY <2>1
  <2>. QED  BY <1>1, <1>2, <2>2 DEF InOrder
<1>. QED  BY <1>3 DEF Listed, ListOf

LEMMA ListOfIs ==
  ASSUME Ordered
  PROVE  /\ ListOf(targets, order) \in Config
         /\ DOMAIN ListOf(targets, order) = DOMAIN order
         /\ \A i \in DOMAIN order : /\ ListOf(targets, order)[i].name = order[i]
                                    /\ Exists(order[i]) /\ targets[order[i]] \in Record
                                    /\ RecordOf(ListOf(targets, order)[i]) = targets[order[i]]
         /\ \A n \in Name : Has(ListOf(targets, order), n) <=> Exists(n)
<1> DEFINE list == ListOf(targets, order)
<1>1. \A i \in DOMAIN order : order[i] \in Name /\ Exists(order[i]) /\ targets[order[i]] \in Record
  <2> SUFFICES ASSUME NEW i \in DOMAIN order
               PROVE  order[i] \in Name /\ Exists(order[i]) /\ targets[order[i]] \in Record
    OBVIOUS
  <2>1. order[i] \in Existing
    BY DEF Ordered, Range
  <2>. QED  BY <2>1 DEF Ordered, Existing, Exists
<1>2. \A i \in DOMAIN order :
        /\ list[i] = [name |-> order[i], content |-> targets[order[i]].content,
                      paused |-> targets[order[i]].paused]
        /\ list[i].name = order[i] /\ list[i] \in Entry
        /\ RecordOf(list[i]) = targets[order[i]]
  BY <1>1 DEF ListOf, EntryOf, Entry, Record, RecordOf
<1>3. DOMAIN list = DOMAIN order /\ DOMAIN order = 1 .. Len(order) /\ Len(order) \in Nat
  BY DEF ListOf, Ordered
<1>4. list \in Seq(Entry)
  <2>1. list = [i \in 1 .. Len(order) |-> list[i]]
    BY <1>3 DEF ListOf
  <2> HIDE DEF list
  <2>2. list \in [1 .. Len(order) -> Entry]
    BY <1>2, <1>3, <2>1
  <2>. QED  BY <1>3, <2>2
<1>5. DistinctNames(list)
  BY <1>2, <1>3 DEF DistinctNames, Ordered, IsInjective
<1>6. ASSUME NEW n \in Name PROVE Has(list, n) <=> Exists(n)
  <2>1. Exists(n) <=> \E i \in DOMAIN order : order[i] = n
    BY DEF Ordered, Range, Existing
  <2> HIDE DEF list
  <2>. QED  BY <1>2, <1>3, <2>1 DEF Has
<1> HIDE DEF list
<1>7. list \in Config
  BY <1>4, <1>5 DEF Config
<1>. QED  BY <1>1, <1>2, <1>3, <1>6, <1>7 DEF list

LEMMA NothingListed ==
  ASSUME Ordered
  PROVE  Nothing <=> ListOf(targets, order) = <<>>
<1>1. ListOf(targets, order) \in Seq(Entry) /\ \A n \in Name : Has(ListOf(targets, order), n) <=> Exists(n)
  BY ListOfIs DEF Config
<1>2. ASSUME ListOf(targets, order) # <<>> PROVE ~Nothing
  <2>1. 1 \in DOMAIN order /\ order[1] \in Name
    BY <1>2 DEF Ordered, ListOf
  <2>. QED  BY <2>1, ListOfIs DEF Nothing
<1>3. ASSUME ListOf(targets, order) = <<>> PROVE Nothing
  BY <1>1, <1>3 DEF Has, Nothing
<1>. QED  BY <1>2, <1>3

LEMMA RecordOfEntry ==
  ASSUME NEW e \in Entry
  PROVE  RecordOf(e) \in Record /\ RecordOf(e) # NoRecord /\ EntryOf(e.name, RecordOf(e)) = e
BY NameAssumption DEF Entry, RecordOf, Record, EntryOf

\* The member of a configuration that has a name.
LEMMA TheOne ==
  ASSUME NEW c \in Config, NEW i \in DOMAIN c
  PROVE  (CHOOSE j \in DOMAIN c : c[j].name = c[i].name) = i
BY DEF Config, DistinctNames

\* The migration of a configuration fills an empty database with it.
LEMMA MigrateFills ==
  ASSUME Ordered, NEW c \in Config, Migrate(c)
  PROVE  /\ Ordered'
         /\ Nothing => ListOf(targets', order') = c
         /\ ~Nothing => UNCHANGED database
<1>1. CASE ~Nothing
  BY <1>1 DEF Migrate, database, Ordered, Existing, Exists
<1>2. CASE Nothing /\ c = <<>>
  <2>1. order = <<>>
    <3>1. ListOf(targets, order) = <<>>
      BY <1>2, NothingListed
    <3>. QED  BY <3>1 DEF ListOf, Ordered
  <2>2. order' = <<>> /\ targets' = [n \in Name |-> NoRecord]
    BY <1>2, <2>1 DEF Migrate, Names
  <2>. QED  BY <1>2, <2>2 DEF Ordered, Existing, Exists, IsInjective, Range, ListOf
<1>3. CASE Nothing /\ c # <<>>
  <2>1. /\ targets' = [n \in Name |-> IF n \in Names(c)
              THEN RecordOf(c[CHOOSE i \in DOMAIN c : c[i].name = n]) ELSE NoRecord]
        /\ order' = [i \in DOMAIN c |-> c[i].name]
    BY <1>3 DEF Migrate
  <2>2. c \in Seq(Entry) /\ DOMAIN c = 1 .. Len(c) /\ Len(c) \in Nat /\ \A i \in DOMAIN c : c[i] \in Entry
    BY DEF Config
  <2>3. ASSUME NEW i \in DOMAIN c
        PROVE  /\ c[i].name \in Name /\ c[i].name \in Names(c) /\ order'[i] = c[i].name
               /\ targets'[c[i].name] = RecordOf(c[i])
    <3>1. c[i].name \in Name /\ c[i].name \in Names(c)
      BY <2>2 DEF Entry, Names
    <3>2. (CHOOSE j \in DOMAIN c : c[j].name = c[i].name) = i
      BY TheOne
    <3>. QED  BY <2>1, <3>1, <3>2
  <2>4. ASSUME NEW n \in Name, n \notin Names(c) PROVE targets'[n] = NoRecord
    BY <2>1, <2>4
  <2>5. order' \in Seq(Name) /\ IsInjective(order') /\ DOMAIN order' = DOMAIN c
    <3>1. order' \in [1 .. Len(c) -> Name] /\ DOMAIN order' = DOMAIN c
      BY <2>1, <2>2, <2>3
    <3>2. IsInjective(order')
      BY <2>3, <3>1 DEF IsInjective, Config, DistinctNames
    <3>. QED  BY <2>2, <3>1, <3>2
  <2>6. targets' \in [Name -> Record \cup {NoRecord}]
    <3>1. \A n \in Name : targets'[n] \in Record \cup {NoRecord}
      <4> SUFFICES ASSUME NEW n \in Name, n \in Names(c) PROVE targets'[n] \in Record
        BY <2>4
      <4>1. PICK i \in DOMAIN c : c[i].name = n
        BY DEF Names
      <4>. QED  BY <2>2, <2>3, <4>1, RecordOfEntry
    <3>2. targets' = [n \in Name |-> targets'[n]]
      BY <2>1
    <3>. QED  BY <3>1, <3>2
  <2>7. Range(order') = {n \in Name : targets'[n] # NoRecord}
    <3>1. ASSUME NEW n \in Name, targets'[n] # NoRecord PROVE n \in Range(order')
      <4>1. PICK i \in DOMAIN c : c[i].name = n
        BY <2>4, <3>1 DEF Names
      <4>. QED  BY <2>3, <2>5, <4>1 DEF Range
    <3>2. ASSUME NEW n \in Range(order') PROVE n \in Name /\ targets'[n] # NoRecord
      <4>1. PICK i \in DOMAIN c : order'[i] = n
        BY <2>5 DEF Range
      <4>. QED  BY <2>2, <2>3, <4>1, RecordOfEntry
    <3>. QED  BY <3>1, <3>2
  <2>8. ListOf(targets', order') = c
    <3>1. \A i \in DOMAIN c : EntryOf(order'[i], targets'[order'[i]]) = c[i]
      BY <2>2, <2>3, RecordOfEntry
    <3>2. ListOf(targets', order') = [i \in DOMAIN c |-> c[i]]
      BY <2>5, <3>1 DEF ListOf
    <3>. QED  BY <2>2, <3>2
  <2>. QED  BY <1>3, <2>5, <2>6, <2>7, <2>8 DEF Ordered, Existing, Exists
<1>. QED  BY <1>1, <1>2, <1>3

\* A new target comes last.
LEMMA StoreNew ==
  ASSUME Ordered, NEW n \in Name, ~Exists(n), NEW rec \in Record,
         targets' = [targets EXCEPT ![n] = rec], order' = With(n)
  PROVE  Ordered' /\ ListOf(targets', order') = Append(ListOf(targets, order), EntryOf(n, rec))
<1>1. n \notin Range(order) /\ rec # NoRecord
  BY NameAssumption DEF Ordered, Existing
<1>2. order \in Seq(Name) /\ Len(order) \in Nat /\ DOMAIN order = 1 .. Len(order)
  BY DEF Ordered
<1>3. /\ order' = Append(order, n) /\ order' \in Seq(Name)
      /\ DOMAIN order' = 1 .. (Len(order) + 1) /\ order'[Len(order) + 1] = n
      /\ \A i \in DOMAIN order : i \in DOMAIN order' /\ order'[i] = order[i] /\ order'[i] # n
  <2>1. order' = Append(order, n)
    BY <1>1 DEF With
  <2>2. \A i \in DOMAIN order : order[i] # n
    BY <1>1 DEF Range
  <2>. QED  BY <1>2, <2>1, <2>2
<1>4. \A i \in DOMAIN order' : i \in DOMAIN order \/ i = Len(order) + 1
  BY <1>2, <1>3
<1>5. /\ targets' \in [Name -> Record \cup {NoRecord}] /\ targets'[n] = rec
      /\ \A m \in Name : m # n => targets'[m] = targets[m]
  BY DEF Ordered
<1>6. IsInjective(order')
  <2>1. IsInjective(order)
    BY DEF Ordered
  <2>. QED  BY <1>3, <1>4, <2>1 DEF IsInjective
<1>7. Range(order') = Existing'
  <2>1. ASSUME NEW m \in Range(order') PROVE m \in Existing'
    <3>1. PICK i \in DOMAIN order' : order'[i] = m
      BY DEF Range
    <3>2. CASE i \in DOMAIN order
      <4>1. m \in Existing /\ m # n
        BY <1>3, <3>1, <3>2 DEF Ordered, Range
      <4>. QED  BY <1>5, <4>1 DEF Existing, Exists
    <3>3. CASE i = Len(order) + 1
      BY <1>1, <1>3, <1>5, <3>1, <3>3 DEF Existing, Exists
    <3>. QED  BY <1>4, <3>1, <3>2, <3>3
  <2>2. ASSUME NEW m \in Existing' PROVE m \in Range(order')
    <3>1. CASE m = n
      <4>1. Len(order) + 1 \in DOMAIN order'
        BY <1>2, <1>3
      <4>. QED  BY <1>3, <3>1, <4>1 DEF Range
    <3>2. CASE m # n
      <4>1. m \in Existing
        BY <1>5, <2>2, <3>2 DEF Existing, Exists
      <4>. QED  BY <1>3, <4>1 DEF Ordered, Range
    <3>. QED  BY <3>1, <3>2
  <2>. QED  BY <2>1, <2>2
<1>8. ListOf(targets', order') = Append(ListOf(targets, order), EntryOf(n, rec))
  <2> DEFINE list == ListOf(targets, order)
             more == Append(list, EntryOf(n, rec))
  <2>1. /\ DOMAIN list = 1 .. Len(order) /\ Len(list) = Len(order)
        /\ list = [i \in 1 .. Len(order) |-> list[i]]
    BY <1>2 DEF ListOf
  <2>2. \A i \in DOMAIN order : EntryOf(order'[i], targets'[order'[i]]) = list[i]
    <3>1. \A i \in DOMAIN order : order[i] \in Name
      BY <1>2
    <3>. QED  BY <1>3, <1>5, <3>1 DEF ListOf
  <2>3. /\ DOMAIN more = 1 .. (Len(order) + 1) /\ more = [i \in 1 .. (Len(order) + 1) |-> more[i]]
        /\ more[Len(order) + 1] = EntryOf(n, rec) /\ \A i \in 1 .. Len(order) : more[i] = list[i]
    <3> HIDE DEF list
    <3>1. list \in Seq({list[i] : i \in 1 .. Len(order)} \cup {EntryOf(n, rec)})
      <4> DEFINE V == {list[i] : i \in 1 .. Len(order)} \cup {EntryOf(n, rec)}
      <4>1. list \in [1 .. Len(order) -> V]
        BY <2>1
      <4> HIDE DEF V
      <4>2. list \in Seq(V)
        BY <1>2, <4>1
      <4>. QED  BY <4>2 DEF V
    <3>. QED  BY <1>2, <2>1, <3>1
  <2>4. \A i \in DOMAIN order' : EntryOf(order'[i], targets'[order'[i]]) = more[i]
    <3> HIDE DEF list, more
    <3>. QED  BY <1>2, <1>3, <1>4, <1>5, <2>2, <2>3
  <2> HIDE DEF list, more
  <2>5. ListOf(targets', order') = [i \in 1 .. (Len(order) + 1) |-> more[i]]
    BY <1>3, <2>4 DEF ListOf
  <2>. QED  BY <2>3, <2>5 DEF list, more
<1>. QED  BY <1>3, <1>5, <1>6, <1>7, <1>8 DEF Ordered

\* One that is there stays in its place.
LEMMA StoreThere ==
  ASSUME Ordered, NEW n \in Name, Exists(n), NEW rec \in Record,
         targets' = [targets EXCEPT ![n] = rec], order' = With(n)
  PROVE  /\ Ordered' /\ order' = order
         /\ \A i \in DOMAIN order :
              ListOf(targets', order')[i] =
                IF order[i] = n THEN EntryOf(n, rec) ELSE ListOf(targets, order)[i]
<1>1. order' = order /\ rec # NoRecord
  BY NameAssumption DEF With, Ordered, Existing
<1>2. /\ targets' \in [Name -> Record \cup {NoRecord}] /\ targets'[n] = rec
      /\ \A m \in Name : m # n => targets'[m] = targets[m]
  BY DEF Ordered
<1>3. Existing' = Existing
  BY <1>1, <1>2 DEF Existing, Exists
<1>4. \A i \in DOMAIN order : order[i] \in Name
  BY DEF Ordered
<1>5. ASSUME NEW i \in DOMAIN order
      PROVE  ListOf(targets', order')[i] =
               IF order[i] = n THEN EntryOf(n, rec) ELSE ListOf(targets, order)[i]
  BY <1>1, <1>2, <1>4 DEF ListOf
<1>6. Ordered'
  BY <1>1, <1>2, <1>3 DEF Ordered
<1>. QED  BY <1>1, <1>5, <1>6

LEMMA StoreDelete ==
  ASSUME Ordered, NEW n \in Name,
         targets' = [targets EXCEPT ![n] = NoRecord], order' = Without(n)
  PROVE  /\ Ordered'
         /\ ListOf(targets', order') = Kept(ListOf(targets, order), {e \in Entry : e.name # n})
<1> DEFINE S == Name \ {n}
           Rest == {e \in Entry : e.name # n}
           f == [m \in Existing |-> EntryOf(m, targets[m])]
<1>1. /\ targets' \in [Name -> Record \cup {NoRecord}] /\ targets'[n] = NoRecord
      /\ \A m \in Name : m # n => targets'[m] = targets[m]
  BY DEF Ordered
<1>2. order \in Seq(Existing) /\ order \in Seq(Name) /\ DOMAIN order = 1 .. Len(order)
      /\ Len(order) \in Nat
  <2>1. order \in Seq(Name)
    BY DEF Ordered
  <2>2. \A i \in DOMAIN order : order[i] \in Existing
    BY DEF Ordered, Range
  <2>. QED  BY <2>1, <2>2
<1>3. Kept(order, S) \in Seq(Existing) /\ KeptSoFar(Kept(order, S), order, S, Len(order))
  <2> HIDE DEF S
  <2>. QED  BY <1>2, KeptMembers
<1>4. order' = Kept(order, S)
  BY DEF Without
<1> HIDE DEF S
<1>5. \A i \in DOMAIN order' : order'[i] \in Existing /\ order'[i] \in S
  BY <1>3, <1>4 DEF KeptSoFar
<1>6. IsInjective(order')
  BY <1>3, <1>4 DEF KeptSoFar, Ordered
<1>7. Existing' = Existing \ {n}
  BY <1>1 DEF Existing, Exists
<1>8. Range(order') = Existing'
  <2>1. ASSUME NEW m \in Range(order') PROVE m \in Existing'
    BY <1>5, <1>7 DEF Range, S
  <2>2. ASSUME NEW m \in Existing' PROVE m \in Range(order')
    <3>1. m \in Existing /\ m # n /\ m \in S
      BY <1>7, <2>2 DEF S, Existing
    <3>2. PICK j \in 1 .. Len(order) : order[j] = m
      BY <1>2, <3>1 DEF Ordered, Range
    <3>3. PICK k \in DOMAIN order' : order'[k] = m
      BY <1>3, <1>4, <3>1, <3>2 DEF KeptSoFar
    <3>. QED  BY <3>3 DEF Range
  <2>. QED  BY <2>1, <2>2
<1>9. \A m \in Existing : m \in S <=> f[m] \in Rest
  <2>1. \A m \in Existing : m \in Name /\ targets[m] \in Record
    BY DEF Existing, Exists, Ordered
  <2>2. \A m \in Existing : EntryOf(m, targets[m]) \in Entry /\ EntryOf(m, targets[m]).name = m
    BY <2>1 DEF EntryOf, Entry, Record
  <2>. QED  BY <2>1, <2>2 DEF S
<1>10. Kept(Image(f, order), Rest) = Image(f, Kept(order, S))
  <2> HIDE DEF f, Rest
  <2>1. Follows(f, Existing, S, Rest)
    BY <1>9 DEF Follows
  <2>. QED  BY <1>2, <2>1, KeptImage
<1>11. Image(f, order) = ListOf(targets, order)
  BY <1>2 DEF Image, ListOf
<1>12. Image(f, order') = ListOf(targets', order')
  <2>1. \A i \in DOMAIN order' : order'[i] \in Name /\ order'[i] # n
    BY <1>5 DEF S
  <2>2. \A i \in DOMAIN order' : f[order'[i]] = EntryOf(order'[i], targets'[order'[i]])
    BY <1>1, <1>5, <2>1
  <2>. QED  BY <2>2 DEF Image, ListOf
<1>13. order' \in Seq(Name)
  <2>1. \A x \in Seq(Existing) : x \in Seq(Name)
    BY DEF Existing
  <2>. QED  BY <1>3, <1>4, <2>1
<1>14. Ordered'
  BY <1>1, <1>6, <1>8, <1>13 DEF Ordered
<1>. QED  BY <1>4, <1>10, <1>11, <1>12, <1>14
----------------------------------------------------------------------------
(* TargetAdmin: types. *)

\* What a handler holds: its configuration has a name once, and whoever gives a
\* target a content or a pause has submitted it.
Working == {"apply", "store", "replace"}
Submits(local) == local.op \in Change \ {"delete"} => local.new \in Record
InHand == {local \in Held : local.config \in Config /\ Submits(local)}
\* It may go on to change targets: the copy has the target it changes.
Ready(local) ==
  /\ local.op \in Change \cup {"reload"}
  /\ local.op \in Change \ {"delete"} => Has(local.config, local.name)

HandlersTyped ==
  /\ place \in [Handler -> {"idle", "list", "relist", "migrate", "apply", "store", "replace"}]
  /\ proc \in [Handler -> InHand]
  /\ \A r \in Handler : place[r] \in Working => Ready(proc[r])
CopiesTyped ==
  /\ file \in Config /\ cache \in Config /\ runtime \in Config
  /\ phase \in {"down", "remove", "load", "serving"}
BoundTyped ==
  /\ left \in [requests : 0 .. MaxRequests, troubles : 0 .. MaxTroubles]
  /\ lone \in Handler \cup {NoProcess} /\ agreed \in BOOLEAN
AdminInv == Ordered /\ HandlersTyped /\ CopiesTyped /\ BoundTyped

LEMMA EmptyConfig == <<>> \in Config
BY DEF Config, DistinctNames

LEMMA RestingInHand == Resting \in InHand
<1>1. Sorted[1] \in Name
  <2>1. PICK n \in Name : TRUE
    BY NameAssumption
  <2>2. Sorted \in Seq(Name) /\ \E i \in DOMAIN Sorted : Sorted[i] = n
    BY NameAssumption
  <2>. QED  BY <2>2
<1>. QED  BY <1>1, EmptyConfig DEF Resting, InHand, Held, Change, Submits, Config

LEMMA MoveTyped ==
  ASSUME HandlersTyped, NEW r \in Handler, NEW local \in InHand,
         NEW to \in {"idle", "list", "relist", "migrate", "apply", "store", "replace"},
         to \in Working => Ready(local), Move(r, to, local)
  PROVE  HandlersTyped'
BY DEF HandlersTyped, Move

LEMMA LeaveTyped ==
  ASSUME HandlersTyped, NEW r \in Handler, Leave(r)
  PROVE  HandlersTyped'
BY MoveTyped, RestingInHand DEF Leave, Working

LEMMA SpendTyped ==
  ASSUME BoundTyped, NEW b \in {"requests", "troubles"}, Spend(b)
  PROVE  left' \in [requests : 0 .. MaxRequests, troubles : 0 .. MaxTroubles]
<1> DEFINE Left == [requests : 0 .. MaxRequests, troubles : 0 .. MaxTroubles]
<1>1. left \in Left /\ left' = [left EXCEPT ![b] = left[b] - 1] /\ left[b] > 0
  BY DEF BoundTyped, Spend
<1>2. MaxRequests \in Nat /\ MaxTroubles \in Nat
  BY BoundAssumption
<1>. QED  BY <1>1, <1>2

\* A change makes of a configuration a configuration, with the target in it
\* unless that has been deleted.
LEMMA ChangedTyped ==
  ASSUME NEW local \in InHand, NEW c \in Config, CanChange(local, c)
  PROVE  /\ Changed(local, c) \in Config
         /\ local.op \in Change \cup {"reload"}
         /\ local.op \in Change \ {"delete"} => Has(Changed(local, c), local.name)
<1> DEFINE n == local.name
<1>1. /\ local.op \in Change \cup {"reload"} /\ n \in Name
      /\ local.op \in Change => (Has(c, n) <=> local.op # "create")
      /\ local.op \in Change \ {"delete"} => local.new \in Record
  <2>1. local \in Held /\ Submits(local)
    BY DEF InHand
  <2>2. local.op \in Change => (Has(c, n) <=> local.op # "create")
    BY DEF CanChange, Change
  <2>. QED  BY <2>1, <2>2 DEF Held, Submits, CanChange
<1>2. c \in Seq(Entry) /\ DOMAIN c = 1 .. Len(c) /\ Len(c) \in Nat /\ DistinctNames(c)
      /\ \A i \in DOMAIN c : c[i] \in Entry
  BY DEF Config
<1>3. CASE local.op = "create"
  <2> DEFINE e == EntryOf(n, local.new)  d == Append(c, e)
  <2>1. e \in Entry /\ e.name = n
    BY <1>1, <1>3 DEF Change, EntryOf, Entry, Record
  <2>2. Changed(local, c) = d
    BY <1>3 DEF Changed
  <2> HIDE DEF e
  <2>3. /\ d \in Seq(Entry) /\ DOMAIN d = 1 .. (Len(c) + 1) /\ d[Len(c) + 1] = e
        /\ \A i \in DOMAIN c : d[i] = c[i]
    BY <1>2, <2>1
  <2>4. \A i \in DOMAIN c : c[i].name # n
    BY <1>1, <1>3 DEF Has, Change
  <2>5. \A i \in DOMAIN d : i \in DOMAIN c \/ i = Len(c) + 1
    BY <1>2, <2>3
  <2> HIDE DEF d
  <2>6. DistinctNames(d)
    BY <1>2, <2>1, <2>3, <2>4, <2>5 DEF DistinctNames
  <2>7. Has(d, n)
    <3>1. Len(c) + 1 \in DOMAIN d
      BY <1>2, <2>3
    <3>. QED  BY <2>1, <2>3, <3>1 DEF Has
  <2>. QED  BY <1>1, <2>2, <2>3, <2>6, <2>7 DEF Config
<1>4. CASE local.op = "delete"
  <2> DEFINE S == {e \in Entry : e.name # n}  d == Kept(c, S)
  <2>1. Changed(local, c) = d
    BY <1>4 DEF Changed
  <2>2. d \in Seq(Entry) /\ KeptSoFar(d, c, S, Len(c))
    BY <1>2, KeptMembers
  <2> HIDE DEF S
  <2>3. DistinctNames(d)
    <3>1. IsInjective(c)
      BY <1>2 DEF DistinctNames, IsInjective
    <3>2. IsInjective(d)
      BY <2>2, <3>1 DEF KeptSoFar
    <3>3. \A i \in DOMAIN d : \E j \in DOMAIN c : c[j] = d[i]
      BY <1>2, <2>2 DEF KeptSoFar
    <3> HIDE DEF d
    <3> SUFFICES ASSUME NEW i \in DOMAIN d, NEW j \in DOMAIN d, d[i].name = d[j].name
                 PROVE  i = j
      BY DEF DistinctNames
    <3>4. PICK k \in DOMAIN c : c[k] = d[i]
      BY <3>3
    <3>5. PICK l \in DOMAIN c : c[l] = d[j]
      BY <3>3
    <3>6. k = l
      BY <1>2, <3>4, <3>5 DEF DistinctNames
    <3>. QED  BY <3>2, <3>4, <3>5, <3>6 DEF IsInjective
  <2>. QED  BY <1>1, <1>4, <2>1, <2>2, <2>3 DEF Config
<1>5. CASE local.op = "reload"
  BY <1>1, <1>5 DEF Changed, Change
<1>6. CASE local.op \in {"update", "pause"}
  <2> DEFINE d == Changed(local, c)
             At(i) == IF c[i].name # n THEN c[i]
                      ELSE IF local.op = "pause" THEN [c[i] EXCEPT !.paused = local.new.paused]
                      ELSE [c[i] EXCEPT !.content = local.new.content]
  <2>1. d = [i \in DOMAIN c |-> At(i)]
    BY <1>6 DEF Changed
  <2>2. local.new \in Record
    BY <1>1, <1>6 DEF Change
  <2>3. \A i \in DOMAIN c : At(i) \in Entry /\ At(i).name = c[i].name
    BY <1>2, <2>2 DEF Entry, Record
  <2> HIDE DEF At, d
  <2>4. DOMAIN d = DOMAIN c /\ \A i \in DOMAIN c : d[i] \in Entry /\ d[i].name = c[i].name
    BY <2>1, <2>3
  <2>5. d \in Seq(Entry)
    BY <1>2, <2>1, <2>3
  <2>6. DistinctNames(d)
    BY <1>2, <2>4 DEF DistinctNames
  <2>7. Has(c, n) => Has(d, n)
    BY <2>4 DEF Has
  <2>. QED  BY <1>1, <1>6, <2>5, <2>6, <2>7 DEF Config, d, Change
<1>. QED  BY <1>1, <1>3, <1>4, <1>5, <1>6 DEF Change

LEMMA OverlayTyped ==
  ASSUME Ordered, NEW local \in InHand
  PROVE  /\ Overlay(local) \in Config
         /\ local.config # <<>> /\ Nothing => Overlay(local) = local.config
         /\ ~Nothing \/ local.config = <<>> => Overlay(local) = Listed
<1>1. Listed \in Config /\ local.config \in Config /\ (Nothing <=> Listed = <<>>)
  BY ListedIs, ListOfIs, NothingListed DEF InHand
<1>. QED  BY <1>1 DEF Overlay

LEMMA ListTyped ==
  ASSUME AdminInv, NEW r \in Handler, ListTargets(r)
  PROVE  HandlersTyped'
<1> DEFINE local == proc[r]
           shown == Overlay(local)
           fill == place[r] = "list" /\ local.op # "reload" /\ Listed = <<>> /\ local.config # <<>>
           changed == [local EXCEPT !.config = Changed(local, shown)]
<1>1. local \in InHand /\ HandlersTyped /\ Ordered
  BY DEF AdminInv, HandlersTyped
<1>2. shown \in Config
  BY <1>1, OverlayTyped
<1>3. CASE fill
  <2>1. Move(r, "migrate", local)
    BY <1>3 DEF ListTargets
  <2>. QED  BY <1>1, <2>1, MoveTyped DEF Working
<1>4. CASE ~fill /\ CanChange(local, shown)
  <2>1. Move(r, "apply", changed)
    BY <1>4 DEF ListTargets
  <2> HIDE DEF shown
  <2>2. /\ Changed(local, shown) \in Config /\ local.op \in Change \cup {"reload"}
        /\ local.op \in Change \ {"delete"} => Has(Changed(local, shown), local.name)
    BY <1>1, <1>2, <1>4, ChangedTyped
  <2>3. /\ changed \in Held /\ changed.config = Changed(local, shown) /\ changed.op = local.op
        /\ changed.name = local.name /\ changed.new = local.new
    <3>1. Changed(local, shown) \in Seq(Entry) /\ local \in Held
      BY <1>1, <2>2 DEF Config, InHand
    <3>. QED  BY <3>1 DEF Held
  <2>4. changed \in InHand /\ Ready(changed)
    <3>1. Submits(local)
      BY <1>1 DEF InHand
    <3> HIDE DEF changed
    <3>. QED  BY <2>2, <2>3, <3>1 DEF InHand, Submits, Ready
  <2> HIDE DEF changed
  <2>. QED  BY <1>1, <2>1, <2>4, MoveTyped
<1>5. CASE ~fill /\ ~CanChange(local, shown)
  <2>1. Leave(r)
    BY <1>5 DEF ListTargets, Leave
  <2>. QED  BY <1>1, <2>1, LeaveTyped
<1>. QED  BY <1>3, <1>4, <1>5

\* The target a handler stores.
LEMMA MineTyped ==
  ASSUME NEW local \in InHand, Ready(local), local.op \in Change \ {"delete"}
  PROVE  LET mine == local.config[CHOOSE i \in DOMAIN local.config : local.config[i].name = local.name]
         IN mine \in Entry /\ mine.name = local.name
<1>1. PICK i \in DOMAIN local.config : local.config[i].name = local.name
  BY DEF Ready, Has
<1>2. local.config \in Seq(Entry)
  BY DEF InHand, Config
<1>. QED  BY <1>1, <1>2

LEMMA StoreTyped ==
  ASSUME AdminInv, NEW r \in Handler, Store(r)
  PROVE  AdminInv'
<1> DEFINE local == proc[r]
           n == local.name
           mine == local.config[CHOOSE i \in DOMAIN local.config : local.config[i].name = n]
           can == local.op = "reload" \/ (Exists(n) <=> local.op # "create")
<1>1. local \in InHand /\ Ready(local) /\ HandlersTyped /\ Ordered /\ n \in Name /\ BoundTyped
  BY DEF AdminInv, HandlersTyped, Store, Working, InHand, Held
<1>2. UNCHANGED <<file, cache, runtime, phase, lone>>
  BY DEF Store
<1>3. CASE can /\ Move(r, "replace", local) /\ UNCHANGED <<agreed, left>>
           /\ IF local.op = "reload" THEN Migrate(local.config)
              ELSE IF local.op = "delete"
              THEN targets' = [targets EXCEPT ![n] = NoRecord] /\ order' = Without(n)
              ELSE targets' = [targets EXCEPT ![n] = RecordOf(mine)] /\ order' = With(n)
  <2>1. HandlersTyped'
    BY <1>1, <1>3, MoveTyped
  <2>2. Ordered'
    <3>1. CASE local.op = "reload"
      BY <1>1, <1>3, <3>1, MigrateFills DEF InHand
    <3>2. CASE local.op = "delete"
      BY <1>1, <1>3, <3>2, StoreDelete
    <3>3. CASE local.op \in Change \ {"delete"}
      <4>1. RecordOf(mine) \in Record
        BY <1>1, <3>3, MineTyped, RecordOfEntry
      <4>2. targets' = [targets EXCEPT ![n] = RecordOf(mine)] /\ order' = With(n)
        BY <1>3, <3>3 DEF Change
      <4> HIDE DEF mine
      <4>. QED  BY <1>1, <4>1, <4>2, StoreNew, StoreThere
    <3>. QED  BY <1>1, <3>1, <3>2, <3>3 DEF Ready, Change
  <2>. QED  BY <1>2, <1>3, <2>1, <2>2 DEF AdminInv, CopiesTyped, BoundTyped
<1>4. CASE Leave(r) /\ agreed' = FALSE /\ UNCHANGED database
           /\ IF can THEN Spend("troubles") ELSE UNCHANGED left
  <2>1. HandlersTyped'
    BY <1>1, <1>4, LeaveTyped
  <2>2. left' \in [requests : 0 .. MaxRequests, troubles : 0 .. MaxTroubles]
    <3> HIDE DEF can
    <3>. QED  BY <1>1, <1>4, SpendTyped DEF BoundTyped
  <2>3. Ordered'
    BY <1>1, <1>4 DEF database, Ordered, Existing, Exists
  <2>. QED  BY <1>2, <1>4, <2>1, <2>2, <2>3 DEF AdminInv, CopiesTyped, BoundTyped
<1>5. \/ can /\ Move(r, "replace", local) /\ UNCHANGED <<agreed, left>>
         /\ IF local.op = "reload" THEN Migrate(local.config)
            ELSE IF local.op = "delete"
            THEN targets' = [targets EXCEPT ![n] = NoRecord] /\ order' = Without(n)
            ELSE targets' = [targets EXCEPT ![n] = RecordOf(mine)] /\ order' = With(n)
      \/ Leave(r) /\ agreed' = FALSE /\ UNCHANGED database
         /\ IF can THEN Spend("troubles") ELSE UNCHANGED left
  BY DEF Store
<1>. QED  BY <1>3, <1>4, <1>5

LEMMA EnterTyped ==
  ASSUME AdminInv, NEW r \in Handler, Arrive(r)
  PROVE  AdminInv'
<1>1. PICK op \in Change \cup {"view", "reload"}, n \in Name, new \in Record \cup {NoRecord} :
        Enter(r, op, n, new) /\ (op \in Change \ {"delete"} => new \in Record)
  <2>1. CASE \E op \in {"view", "reload"} : Enter(r, op, Sorted[1], NoRecord)
    <3>1. Sorted[1] \in Name
      BY RestingInHand DEF InHand, Resting, Held
    <3>. QED  BY <2>1, <3>1 DEF Change
  <2>2. CASE \E n \in Name, op \in Change : \E new \in Submitted(op) : Enter(r, op, n, new)
    <3>1. PICK n \in Name, op \in Change : \E new \in Submitted(op) : Enter(r, op, n, new)
      BY <2>2
    <3>2. PICK new \in Submitted(op) : Enter(r, op, n, new)
      BY <3>1
    <3>3. \E c \in Content : TRUE
      BY NameAssumption
    <3>4. op = "delete" => new = NoRecord
      BY <3>2 DEF Submitted
    <3>5. op # "delete" => new \in Record
      BY <3>2, <3>3 DEF Submitted, Record
    <3>. QED  BY <3>1, <3>2, <3>4, <3>5
  <2>. QED  BY <2>1, <2>2 DEF Arrive
<1> DEFINE local == [Resting EXCEPT !.op = op, !.name = n, !.new = new,
                                    !.config = IF op = "reload" THEN file ELSE cache]
<1>2. /\ Move(r, "list", local) /\ Spend("requests")
      /\ lone' = IF AtRest THEN r ELSE NoProcess
      /\ agreed' = (agreed /\ AtRest) /\ UNCHANGED <<file, database, cache, runtime, phase>>
  BY <1>1 DEF Enter
<1>3. local \in InHand
  <2>1. file \in Config /\ cache \in Config
    BY DEF AdminInv, CopiesTyped
  <2>2. local \in Held /\ local.op = op /\ local.new = new /\ local.config \in {file, cache}
    BY <1>1, <2>1, RestingInHand DEF InHand, Held, Resting, Config
  <2> HIDE DEF local
  <2>. QED  BY <1>1, <2>1, <2>2 DEF InHand, Submits
<1> HIDE DEF local
<1>4. HandlersTyped'
  BY <1>2, <1>3, MoveTyped DEF AdminInv, Working
<1>5. BoundTyped'
  BY <1>2, SpendTyped DEF AdminInv, BoundTyped
<1>. QED  BY <1>2, <1>4, <1>5 DEF AdminInv, CopiesTyped, Ordered, database, Existing, Exists

LEMMA AdminInvInductive ==
  ASSUME AdminInv, [AdminNext]_adminVars
  PROVE  AdminInv'
<1>1. Ordered /\ HandlersTyped /\ CopiesTyped /\ BoundTyped
  BY DEF AdminInv
<1>2. UNCHANGED database => Ordered'
  BY <1>1 DEF database, Ordered, Existing, Exists
<1>3. CASE Start
  <2>1. Migrate(file) /\ UNCHANGED <<file, cache, runtime, place, proc, left, history>>
        /\ phase' \in {"remove", "load"}
    BY <1>3 DEF Start
  <2>2. Ordered'
    BY <1>1, <2>1, MigrateFills DEF CopiesTyped
  <2>. QED  BY <1>1, <2>1, <2>2 DEF AdminInv, HandlersTyped, CopiesTyped, BoundTyped, history
<1>4. CASE RemoveTargetsFromFile
  <2>1. file' \in Config
    BY <1>1, <1>4, EmptyConfig DEF RemoveTargetsFromFile, CopiesTyped
  <2>2. BoundTyped'
    BY <1>1, <1>4, SpendTyped DEF RemoveTargetsFromFile, BoundTyped, history
  <2>. QED  BY <1>1, <1>2, <1>4, <2>1, <2>2
            DEF RemoveTargetsFromFile, AdminInv, HandlersTyped, CopiesTyped
<1>5. CASE Load
  <2>1. Listed \in Config
    BY <1>1, ListedIs, ListOfIs
  <2>. QED  BY <1>1, <1>2, <1>5, <2>1 DEF Load, AdminInv, HandlersTyped, CopiesTyped, BoundTyped
<1>6. CASE Stop
  <2>1. BoundTyped'
    BY <1>1, <1>6, SpendTyped DEF Stop, BoundTyped, history
  <2>2. HandlersTyped'
    BY <1>6, RestingInHand DEF Stop, HandlersTyped, Working
  <2>. QED  BY <1>1, <1>2, <1>6, <2>1, <2>2, EmptyConfig DEF Stop, AdminInv, CopiesTyped
<1>7. ASSUME NEW r \in Handler, ListTargets(r) PROVE AdminInv'
  <2>1. HandlersTyped'
    BY <1>7, ListTyped
  <2>. QED  BY <1>1, <1>2, <1>7, <2>1 DEF ListTargets, AdminInv, CopiesTyped, BoundTyped, history
<1>8. ASSUME NEW r \in Handler, MigrateFromConfig(r) PROVE AdminInv'
  <2>1. proc[r] \in InHand /\ proc[r].config \in Config
    BY <1>1 DEF HandlersTyped, InHand
  <2>2. Ordered'
    BY <1>1, <1>8, <2>1, MigrateFills DEF MigrateFromConfig
  <2>3. HandlersTyped'
    BY <1>1, <1>8, <2>1, MoveTyped DEF MigrateFromConfig, Working
  <2>. QED  BY <1>1, <1>8, <2>2, <2>3 DEF MigrateFromConfig, AdminInv, CopiesTyped, BoundTyped, history
<1>9. ASSUME NEW r \in Handler, ApplyConfig(r) PROVE AdminInv'
  <2>1. proc[r] \in InHand /\ proc[r].config \in Config /\ Ready(proc[r])
    BY <1>1, <1>9 DEF HandlersTyped, InHand, ApplyConfig, Working
  <2>2. HandlersTyped'
    <3>1. CASE Leave(r)
      BY <1>1, <3>1, LeaveTyped
    <3>2. CASE Move(r, "replace", proc[r])
      BY <1>1, <2>1, <3>2, MoveTyped
    <3>3. CASE Move(r, "store", proc[r])
      BY <1>1, <2>1, <3>3, MoveTyped
    <3>. QED  BY <1>9, <3>1, <3>2, <3>3 DEF ApplyConfig
  <2>3. runtime' \in Config
    BY <1>1, <1>9, <2>1 DEF ApplyConfig, CopiesTyped
  <2>. QED  BY <1>1, <1>2, <1>9, <2>2, <2>3 DEF ApplyConfig, AdminInv, CopiesTyped, BoundTyped, history
<1>10. ASSUME NEW r \in Handler, Replace(r) PROVE AdminInv'
  <2>1. proc[r].config \in Config
    BY <1>1 DEF HandlersTyped, InHand
  <2>2. HandlersTyped'
    BY <1>1, <1>10, LeaveTyped DEF Replace
  <2>. QED  BY <1>1, <1>2, <1>10, <2>1, <2>2 DEF Replace, AdminInv, CopiesTyped, BoundTyped
<1>11. CASE UNCHANGED adminVars
  BY <1>1, <1>2, <1>11 DEF adminVars, AdminInv, HandlersTyped, CopiesTyped, BoundTyped, history
<1>. QED  BY <1>3, <1>4, <1>5, <1>6, <1>7, <1>8, <1>9, <1>10, <1>11, EnterTyped, StoreTyped
          DEF AdminNext, Handle

LEMMA AdminInvInitial == AdminInit => AdminInv
<1> SUFFICES ASSUME AdminInit PROVE AdminInv  OBVIOUS
<1>1. PICK s \in Stored : file = s.file /\ targets = s.targets /\ order = s.order
  BY DEF AdminInit
<1>2. /\ s.file \in Seq(Entry) /\ s.order \in Seq(Name)
      /\ s.targets \in [Name -> Record \cup {NoRecord}]
      /\ \A i, j \in DOMAIN s.file : s.file[i].name = s.file[j].name => i = j
      /\ IsInjective(s.order) /\ Range(s.order) = {n \in Name : s.targets[n] # NoRecord}
  BY StoredAssumption
<1>3. Ordered /\ file \in Config
  BY <1>1, <1>2 DEF Ordered, Existing, Exists, Config, DistinctNames
<1>4. HandlersTyped
  BY RestingInHand DEF AdminInit, HandlersTyped, Working
<1>5. BoundTyped
  BY BoundAssumption DEF AdminInit, BoundTyped
<1>. QED  BY <1>3, <1>4, <1>5, EmptyConfig DEF AdminInit, AdminInv, CopiesTyped

LEMMA AdminInvariant == AdminSpec => []AdminInv
<1>1. AdminInv /\ [AdminNext]_adminVars => AdminInv'
  BY AdminInvInductive
<1>. QED  BY <1>1, AdminInvInitial, PTL DEF AdminSpec

\* However the handlers overlap, fail and are cut off by the end of the process,
\* every variable has its type: the order never has a name twice, and a handler
\* never holds a configuration of anything but targets.
THEOREM AdminTypeCorrect == AdminSpec => []AdminTypeOK
<1>1. AdminInv => AdminTypeOK
  <2> SUFFICES ASSUME AdminInv PROVE AdminTypeOK  OBVIOUS
  <2>1. \A c \in Config : c \in Seq(Entry)
    BY DEF Config
  <2>2. \A local \in InHand : local \in Held
    BY DEF InHand
  <2>. QED  BY <2>1, <2>2 DEF AdminInv, Ordered, HandlersTyped, CopiesTyped, BoundTyped, AdminTypeOK
<1>. QED  BY <1>1, AdminInvariant, PTL

Caused == \A n \in Name : \/ targets'[n] = targets[n]
                          \/ Requested(n)
                          \/ Nothing

\* A target in the database is changed by a request for it, or the database had
\* none: no handler, reload or start brings back what another has deleted.
THEOREM OnlyRequests == AdminSpec => OnlyRequestsChange
<1>1. AdminInv /\ [AdminNext]_adminVars => [Caused]_adminVars
  <2> SUFFICES ASSUME AdminInv, AdminNext PROVE Caused \/ UNCHANGED adminVars
    OBVIOUS
  <2>1. UNCHANGED database \/ Nothing => Caused
    BY DEF database, Caused
  <2>2. \A c : Migrate(c) => UNCHANGED database \/ Nothing
    BY DEF Migrate
  <2>3. ASSUME NEW r \in Handler, Store(r) PROVE Caused
    <3> DEFINE local == proc[r]
               n == local.name
               mine == local.config[CHOOSE i \in DOMAIN local.config : local.config[i].name = n]
    <3>1. place[r] = "store" /\ local \in InHand /\ Ready(local)
      BY <2>3 DEF Store, AdminInv, HandlersTyped, Working
    <3>2. local.op = "reload" \/ Requested(n)
      BY <3>1 DEF Ready, Requested
    <3>3. \/ UNCHANGED database \/ Migrate(local.config)
          \/ local.op # "reload" /\ \E rec : targets' = [targets EXCEPT ![n] = rec]
      <4> HIDE DEF mine
      <4>. QED  BY <2>3 DEF Store
    <3>4. targets \in [Name -> Record \cup {NoRecord}]
      BY DEF AdminInv, Ordered
    <3>5. CASE local.op # "reload" /\ \E rec : targets' = [targets EXCEPT ![n] = rec]
      <4>1. Requested(n)
        BY <3>2, <3>5
      <4>2. \A m \in Name : m # n => targets'[m] = targets[m]
        BY <3>4, <3>5
      <4>. QED  BY <4>1, <4>2 DEF Caused
    <3>. QED  BY <2>1, <2>2, <3>3, <3>5
  <2>4. ASSUME NEW r \in Handler, Arrive(r) \/ Handle(r) PROVE Caused
    <3>1. Arrive(r) \/ ListTargets(r) \/ ApplyConfig(r) \/ Replace(r) => UNCHANGED database
      BY DEF Arrive, Enter, ListTargets, ApplyConfig, Replace
    <3>2. MigrateFromConfig(r) => UNCHANGED database \/ Nothing
      BY <2>2 DEF MigrateFromConfig
    <3>. QED  BY <2>1, <2>3, <2>4, <3>1, <3>2 DEF Handle
  <2>5. Start => UNCHANGED database \/ Nothing
    BY <2>2 DEF Start
  <2>6. RemoveTargetsFromFile \/ Load \/ Stop => UNCHANGED database
    BY DEF RemoveTargetsFromFile, Load, Stop
  <2>. QED  BY <2>1, <2>4, <2>5, <2>6 DEF AdminNext
<1>. QED  BY <1>1, AdminInvariant, PTL DEF AdminSpec, OnlyRequestsChange, Caused
----------------------------------------------------------------------------
(* TargetAdmin: the copies agree. *)

\* While a handler is the one that began alone, all others are idle; while the
\* copies are said to agree, only that one may be under way.
Alone ==
  /\ lone # NoProcess => \A q \in Handler : q # lone => place[q] = "idle"
  /\ agreed => \A q \in Handler : place[q] # "idle" => q = lone
  /\ phase # "serving" => AtRest

\* What a handler that is alone has at hand, place by place.
Fits(r) ==
  /\ place[r] = "list" /\ proc[r].op # "reload" => proc[r].config = cache
  /\ place[r] = "migrate" => Nothing
  /\ place[r] = "relist" => proc[r].config = Listed
  /\ place[r] \in {"apply", "store"} =>
       IF proc[r].op = "reload" THEN Listed # <<>> => proc[r].config = Listed
       ELSE CanChange(proc[r], Listed) /\ proc[r].config = Changed(proc[r], Listed)
  /\ place[r] \in {"store", "replace"} => runtime = proc[r].config
  /\ place[r] = "replace" => proc[r].config = Listed
FitInv == lone # NoProcess => Fits(lone)

\* While the copies agree nobody has filled the database, and who has not
\* applied a change leaves them alone.
AgreeInv ==
  agreed /\ phase = "serving" =>
    /\ \A r \in Handler : place[r] \notin {"migrate", "relist"}
    /\ (\A r \in Handler : place[r] \in {"idle", "list", "apply"}) => runtime = Listed /\ cache = Listed

LEMMA ListedStays == UNCHANGED database => Listed' = Listed /\ (Nothing' <=> Nothing)
BY DEF database, Listed, InOrder, Existing, Exists, Nothing

\* A step of a handler that goes on.
Goes(r, to) ==
  /\ place[r] # "idle" /\ place' = [place EXCEPT ![r] = to]
  /\ UNCHANGED <<phase, lone>>
  /\ agreed' => agreed \/ (lone = r /\ to = "idle")

LEMMA HandleGoes ==
  ASSUME NEW r \in Handler, Handle(r)
  PROVE  \E to \in {"idle", "list", "relist", "migrate", "apply", "store", "replace"} : Goes(r, to)
<1>1. CASE ListTargets(r)
  <2> DEFINE local == proc[r]
             shown == Overlay(local)
             fill == place[r] = "list" /\ local.op # "reload" /\ Listed = <<>> /\ local.config # <<>>
             change == CanChange(local, shown)
             to == IF fill THEN "migrate" ELSE IF change THEN "apply" ELSE "idle"
  <2>1. place' = [place EXCEPT ![r] = to] /\ place[r] # "idle"
    BY <1>1 DEF ListTargets, Move
  <2>2. to \in {"migrate", "apply", "idle"}
    OBVIOUS
  <2> HIDE DEF to
  <2>. QED  BY <1>1, <2>1, <2>2 DEF ListTargets, Goes, history
<1>2. CASE MigrateFromConfig(r)
  BY <1>2 DEF MigrateFromConfig, Move, Goes, history
<1>3. CASE ApplyConfig(r)
  <2>1. place[r] # "idle" /\ UNCHANGED <<phase, lone, agreed>>
    BY <1>3 DEF ApplyConfig, history
  <2>2. \E to \in {"replace", "store", "idle"} : place' = [place EXCEPT ![r] = to]
    BY <1>3 DEF ApplyConfig, Move, Leave
  <2>. QED  BY <2>1, <2>2 DEF Goes
<1>4. CASE Store(r)
  <2>1. place[r] # "idle" /\ UNCHANGED <<phase, lone>> /\ (agreed' => agreed)
    BY <1>4 DEF Store
  <2>2. \E to \in {"replace", "idle"} : place' = [place EXCEPT ![r] = to]
    BY <1>4 DEF Store, Move, Leave
  <2>. QED  BY <2>1, <2>2 DEF Goes
<1>5. CASE Replace(r)
  BY <1>5 DEF Replace, Move, Leave, Goes
<1>. QED  BY <1>1, <1>2, <1>3, <1>4, <1>5 DEF Handle

LEMMA AloneInductive ==
  ASSUME AdminInv, Alone, [AdminNext]_adminVars
  PROVE  Alone'
<1>0. /\ place \in [Handler -> {"idle", "list", "relist", "migrate", "apply", "store", "replace"}]
      /\ lone \in Handler \cup {NoProcess} /\ NoProcess \notin Handler /\ agreed \in BOOLEAN
  BY NameAssumption DEF AdminInv, HandlersTyped, BoundTyped
<1>1. ASSUME NEW r \in Handler, Arrive(r) PROVE Alone'
  <2>1. PICK op, n, new : Enter(r, op, n, new)
    BY <1>1 DEF Arrive
  <2>2. /\ phase = "serving" /\ phase' = phase /\ place' = [place EXCEPT ![r] = "list"]
        /\ lone' = (IF AtRest THEN r ELSE NoProcess) /\ agreed' = (agreed /\ AtRest)
    BY <2>1 DEF Enter, Move
  <2>. QED  BY <1>0, <2>2 DEF Alone, AtRest
<1>2. ASSUME NEW r \in Handler, Handle(r) PROVE Alone'
  <2>1. PICK to \in {"idle", "list", "relist", "migrate", "apply", "store", "replace"} : Goes(r, to)
    BY <1>2, HandleGoes
  <2>2. phase = "serving"
    BY <2>1 DEF Goes, Alone, AtRest
  <2>. QED  BY <1>0, <2>1, <2>2 DEF Goes, Alone
<1>3. CASE Start \/ RemoveTargetsFromFile \/ Load
  <2>1. phase # "serving" /\ UNCHANGED place
    BY <1>3 DEF Start, RemoveTargetsFromFile, Load
  <2>. QED  BY <2>1 DEF Alone, AtRest
<1>4. CASE Stop
  BY <1>4 DEF Stop, Alone, AtRest, history
<1>5. CASE UNCHANGED adminVars
  BY <1>5 DEF adminVars, Alone, AtRest, history
<1>. QED  BY <1>1, <1>2, <1>3, <1>4, <1>5 DEF AdminNext

Places == {"idle", "list", "relist", "migrate", "apply", "store", "replace"}

\* How Store changes the database.
Stores(local) ==
  LET n == local.name
      mine == local.config[CHOOSE i \in DOMAIN local.config : local.config[i].name = n]
  IN IF local.op = "reload" THEN Migrate(local.config)
     ELSE IF local.op = "delete"
     THEN targets' = [targets EXCEPT ![n] = NoRecord] /\ order' = Without(n)
     ELSE targets' = [targets EXCEPT ![n] = RecordOf(mine)] /\ order' = With(n)

\* ListedIs, in a form that can be primed.
ListIsOrdered == Listed = ListOf(targets, order)

LEMMA ListIsOrder == Ordered => ListIsOrdered
BY ListedIs DEF ListIsOrdered

\* What a handler stores makes the database agree with its copy, if the copy
\* is what its change makes of the database.
LEMMA StoresFit ==
  ASSUME Ordered, NEW local \in InHand, Ready(local), Stores(local),
         local.op = "reload" \/ (Exists(local.name) <=> local.op # "create"),
         IF local.op = "reload" THEN Listed # <<>> => local.config = Listed
         ELSE CanChange(local, Listed) /\ local.config = Changed(local, Listed)
  PROVE  ListOf(targets', order') = local.config
<1> DEFINE n == local.name
           c == local.config
           list == ListOf(targets, order)
           mine == c[CHOOSE i \in DOMAIN c : c[i].name = n]
<1>1. /\ list = Listed /\ list \in Config /\ (Nothing <=> list = <<>>)
      /\ c \in Config /\ n \in Name
  BY ListedIs, ListOfIs, NothingListed DEF InHand, Held
<1>2. CASE local.op = "reload"
  <2>1. Migrate(c)
    BY <1>2 DEF Stores
  <2>2. CASE Nothing
    BY <1>1, <2>1, <2>2, MigrateFills
  <2>3. CASE ~Nothing
    <3>1. UNCHANGED database
      BY <1>1, <2>1, <2>3, MigrateFills
    <3>. QED  BY <1>1, <1>2, <2>3, <3>1 DEF database
  <2>. QED  BY <2>2, <2>3
<1>3. CASE local.op = "delete"
  <2>1. ListOf(targets', order') = Kept(list, {e \in Entry : e.name # n})
    BY <1>1, <1>3, StoreDelete DEF Stores
  <2>. QED  BY <1>1, <1>3, <2>1 DEF Changed
<1>4. CASE local.op \in Change \ {"delete"}
  <2>1. /\ targets' = [targets EXCEPT ![n] = RecordOf(mine)] /\ order' = With(n)
    BY <1>4 DEF Stores, Change
  <2>2. /\ mine \in Entry /\ mine.name = n /\ RecordOf(mine) \in Record
        /\ EntryOf(n, RecordOf(mine)) = mine
    BY <1>4, MineTyped, RecordOfEntry
  <2>3. c = Changed(local, list) /\ local.op \in {"create", "update", "pause"}
        /\ (Exists(n) <=> local.op # "create")
    BY <1>1, <1>4 DEF Change
  <2>4. ASSUME NEW i \in DOMAIN c, c[i].name = n PROVE mine = c[i]
    <3>1. (CHOOSE j \in DOMAIN c : c[j].name = c[i].name) = i
      BY <1>1, TheOne
    <3>. QED  BY <2>4, <3>1
  <2> HIDE DEF mine
  <2>5. list \in Seq(Entry) /\ DOMAIN list = 1 .. Len(list) /\ Len(list) \in Nat
        /\ DOMAIN list = DOMAIN order
    BY <1>1, ListOfIs DEF Config
  <2>6. CASE local.op = "create"
    <3>1. c = Append(list, EntryOf(n, local.new))
      BY <2>3, <2>6 DEF Changed
    <3>2. Len(list) + 1 \in DOMAIN c /\ c[Len(list) + 1] = EntryOf(n, local.new)
      <4>1. c \in Seq(Entry)
        BY <1>1 DEF Config
      <4>2. Len(c) = Len(list) + 1
        BY <2>5, <3>1
      <4>3. c[Len(list) + 1] = EntryOf(n, local.new)
        BY <2>5, <3>1
      <4>. QED  BY <2>5, <4>1, <4>2, <4>3
    <3>3. EntryOf(n, local.new).name = n
      BY DEF EntryOf
    <3>4. mine = EntryOf(n, local.new)
      BY <2>4, <3>2, <3>3
    <3>5. ListOf(targets', order') = Append(list, EntryOf(n, RecordOf(mine)))
      BY <1>1, <2>1, <2>2, <2>3, <2>6, StoreNew
    <3>. QED  BY <2>2, <3>1, <3>4, <3>5
  <2>7. CASE local.op \in {"update", "pause"}
    <3> DEFINE At(i) == IF list[i].name # n THEN list[i]
                        ELSE IF local.op = "pause" THEN [list[i] EXCEPT !.paused = local.new.paused]
                        ELSE [list[i] EXCEPT !.content = local.new.content]
               next == ListOf(targets', order')
    <3>1. c = [i \in DOMAIN list |-> At(i)]
      BY <2>3, <2>7 DEF Changed
    <3>2. /\ order' = order
          /\ \A i \in DOMAIN order :
               next[i] = IF order[i] = n THEN EntryOf(n, RecordOf(mine)) ELSE list[i]
      BY <1>1, <2>1, <2>2, <2>3, <2>7, StoreThere
    <3>3. ASSUME NEW i \in DOMAIN order PROVE next[i] = c[i]
      <4>1. /\ list[i].name = order[i] /\ list[i] \in Entry /\ i \in DOMAIN c /\ c[i] = At(i)
        BY <2>5, <3>1, ListOfIs
      <4>2. CASE order[i] = n
        <5>1. At(i).name = n
          BY <4>1, <4>2 DEF Entry
        <5>2. mine = c[i]
          BY <2>4, <4>1, <5>1
        <5> HIDE DEF next
        <5>. QED  BY <2>2, <3>2, <4>2, <5>2
      <4>3. CASE order[i] # n
        <5> HIDE DEF next
        <5>. QED  BY <3>2, <4>1, <4>3
      <4>. QED  BY <4>2, <4>3
    <3>4. next = [i \in DOMAIN order |-> next[i]]
      BY <3>2 DEF ListOf
    <3>5. c = [i \in DOMAIN order |-> c[i]]
      BY <2>5, <3>1
    <3> HIDE DEF next
    <3>6. next = c
      BY <3>3, <3>4, <3>5
    <3>. QED  BY <3>6 DEF next
  <2>. QED  BY <2>3, <2>6, <2>7
<1>. QED  BY <1>2, <1>3, <1>4 DEF Ready

\* Whoever takes a step in a handler while somebody is alone is that one.
LEMMA OnlyLone ==
  ASSUME Alone, NEW r \in Handler, place[r] # "idle", lone # NoProcess
  PROVE  r = lone
BY DEF Alone

LEMMA ListFits ==
  ASSUME AdminInv, NEW r \in Handler, Fits(r), ListTargets(r)
  PROVE  Fits(r)'
<1> DEFINE local == proc[r]
           shown == Overlay(local)
           fill == place[r] = "list" /\ local.op # "reload" /\ Listed = <<>> /\ local.config # <<>>
           changed == [local EXCEPT !.config = Changed(local, shown)]
<1>1. /\ local \in InHand /\ local \in Held /\ Ordered
      /\ place \in [Handler -> Places] /\ proc \in [Handler -> InHand]
  BY DEF AdminInv, HandlersTyped, InHand, Places
<1>2. UNCHANGED <<file, database, cache, runtime, phase>> /\ Listed' = Listed /\ (Nothing' <=> Nothing)
  BY ListedStays DEF ListTargets
<1>3. Nothing <=> Listed = <<>>
  BY <1>1, ListedIs, NothingListed
<1>4. CASE fill
  <2>1. place'[r] = "migrate"
    BY <1>1, <1>4 DEF ListTargets, Move
  <2>. QED  BY <1>2, <1>3, <1>4, <2>1 DEF Fits
<1>5. CASE ~fill /\ CanChange(local, shown)
  <2>1. place'[r] = "apply" /\ proc'[r] = changed
    BY <1>1, <1>5 DEF ListTargets, Move
  <2>2. /\ changed.op = local.op /\ changed.name = local.name /\ changed.new = local.new
        /\ changed.config = Changed(local, shown)
    BY <1>1 DEF Held
  <2>3. CASE local.op = "reload"
    <3>1. Listed # <<>> => shown = Listed
      BY DEF Overlay
    <3>2. changed.config = shown
      BY <2>2, <2>3 DEF Changed
    <3> HIDE DEF changed, shown
    <3>. QED  BY <1>2, <2>1, <2>2, <2>3, <3>1, <3>2 DEF Fits
  <2>4. CASE local.op # "reload"
    <3>1. shown = Listed
      <4>1. place[r] = "list" => Listed # <<>> \/ local.config = <<>>
        BY <1>5, <2>4
      <4>2. place[r] = "relist" => local.config = Listed
        BY DEF Fits
      <4>. QED  BY <4>1, <4>2 DEF ListTargets, Overlay
    <3>2. CanChange(changed, Listed) /\ Changed(changed, Listed) = Changed(local, Listed)
      <4> HIDE DEF changed, shown
      <4>. QED  BY <1>5, <2>2, <3>1 DEF CanChange, Changed
    <3> HIDE DEF changed, shown
    <3>. QED  BY <1>2, <2>1, <2>2, <2>4, <3>1, <3>2 DEF Fits
  <2>. QED  BY <2>3, <2>4
<1>6. CASE ~fill /\ ~CanChange(local, shown)
  <2>1. place'[r] = "idle"
    BY <1>1, <1>6 DEF ListTargets, Move
  <2>. QED  BY <2>1 DEF Fits
<1>. QED  BY <1>4, <1>5, <1>6

LEMMA StoreFits ==
  ASSUME AdminInv, AdminInv', NEW r \in Handler, Fits(r), Store(r)
  PROVE  Fits(r)'
<1> DEFINE local == proc[r]
           n == local.name
           mine == local.config[CHOOSE i \in DOMAIN local.config : local.config[i].name = n]
           can == local.op = "reload" \/ (Exists(n) <=> local.op # "create")
<1>1. /\ local \in InHand /\ Ready(local) /\ Ordered /\ place[r] = "store"
      /\ place \in [Handler -> Places] /\ proc \in [Handler -> InHand]
  BY DEF AdminInv, HandlersTyped, Store, Working, Places
<1>2. \/ can /\ Move(r, "replace", local) /\ Stores(local)
      \/ Leave(r)
  BY DEF Store, Stores
<1>3. CASE Leave(r)
  BY <1>1, <1>3 DEF Leave, Move, Fits
<1>4. CASE can /\ Move(r, "replace", local) /\ Stores(local)
  <2>1. place'[r] = "replace" /\ proc'[r] = local /\ runtime' = runtime
    BY <1>1, <1>4 DEF Move, Store
  <2>2. ListOf(targets', order') = local.config
    <3>1. IF local.op = "reload" THEN Listed # <<>> => local.config = Listed
          ELSE CanChange(local, Listed) /\ local.config = Changed(local, Listed)
      BY <1>1 DEF Fits
    <3>. QED  BY <1>1, <1>4, <3>1, StoresFit
  <2>3. Listed' = ListOf(targets', order')
    <3>1. Ordered'
      BY DEF AdminInv
    <3>2. ListIsOrdered'
      BY <3>1, ListIsOrder, PTL
    <3>. QED  BY <3>2 DEF ListIsOrdered
  <2>4. runtime = local.config
    BY <1>1 DEF Fits
  <2>. QED  BY <2>1, <2>2, <2>3, <2>4 DEF Fits
<1>. QED  BY <1>2, <1>3, <1>4

LEMMA ApplyFits ==
  ASSUME AdminInv, NEW r \in Handler, Fits(r), ApplyConfig(r)
  PROVE  Fits(r)'
<1>1. /\ place \in [Handler -> Places] /\ proc \in [Handler -> InHand] /\ place[r] = "apply"
  BY DEF AdminInv, HandlersTyped, ApplyConfig, Places
<1>2. Listed' = Listed
  BY ListedStays DEF ApplyConfig
<1>3. CASE Leave(r)
  BY <1>1, <1>3 DEF Leave, Move, Fits
<1>4. CASE runtime' = proc[r].config /\ Move(r, "replace", proc[r])
           /\ proc[r].op = "reload" /\ proc[r].config = <<>>
  <2>1. proc[r].config = Listed
    BY <1>1, <1>4 DEF Fits
  <2>. QED  BY <1>1, <1>2, <1>4, <2>1 DEF Move, Fits
<1>5. CASE runtime' = proc[r].config /\ Move(r, "store", proc[r])
  <2>1. place'[r] = "store" /\ proc'[r] = proc[r]
    BY <1>1, <1>5 DEF Move
  <2>. QED  BY <1>1, <1>2, <1>5, <2>1 DEF Fits
<1>. QED  BY <1>3, <1>4, <1>5 DEF ApplyConfig

LEMMA MigrateFits ==
  ASSUME AdminInv, AdminInv', NEW r \in Handler, Fits(r), MigrateFromConfig(r)
  PROVE  Fits(r)'
<1>1. /\ place \in [Handler -> Places] /\ proc \in [Handler -> InHand] /\ place[r] = "migrate"
      /\ proc[r].config \in Config /\ Ordered /\ Nothing
  BY DEF AdminInv, HandlersTyped, MigrateFromConfig, Places, InHand, Fits
<1>2. place'[r] = "relist" /\ proc'[r] = proc[r]
  BY <1>1 DEF MigrateFromConfig, Move
<1>3. ListOf(targets', order') = proc[r].config
  BY <1>1, MigrateFills DEF MigrateFromConfig
<1>4. Listed' = ListOf(targets', order')
  <2>1. Ordered'
    BY DEF AdminInv
  <2>2. ListIsOrdered'
    BY <2>1, ListIsOrder, PTL
  <2>. QED  BY <2>2 DEF ListIsOrdered
<1>. QED  BY <1>2, <1>3, <1>4 DEF Fits

LEMMA FitInductive ==
  ASSUME AdminInv, AdminInv', Alone, FitInv, [AdminNext]_adminVars
  PROVE  FitInv'
<1>0. /\ place \in [Handler -> Places] /\ proc \in [Handler -> InHand]
      /\ lone \in Handler \cup {NoProcess} /\ NoProcess \notin Handler
  BY NameAssumption DEF AdminInv, HandlersTyped, BoundTyped, Places
<1>1. ASSUME NEW r \in Handler, Arrive(r) PROVE FitInv'
  <2>1. PICK op, n, new : Enter(r, op, n, new)
    BY <1>1 DEF Arrive
  <2> DEFINE local == [Resting EXCEPT !.op = op, !.name = n, !.new = new,
                                      !.config = IF op = "reload" THEN file ELSE cache]
  <2>2. place'[r] = "list" /\ proc'[r] = local /\ lone' \in {r, NoProcess} /\ UNCHANGED cache
    BY <1>0, <2>1 DEF Enter, Move
  <2>3. local.op # "reload" => local.config = cache
    BY DEF Resting
  <2> HIDE DEF local
  <2>4. lone' = r => Fits(lone)'
    <3>1. ASSUME lone' = r PROVE place'[lone'] = "list" /\ proc'[lone'] = local
      BY <2>2, <3>1
    <3>. QED  BY <2>2, <2>3, <3>1 DEF Fits
  <2>. QED  BY <2>2, <2>4 DEF FitInv
<1>2. ASSUME NEW r \in Handler, Handle(r) PROVE FitInv'
  <2>1. PICK to \in Places : Goes(r, to)
    BY <1>2, HandleGoes DEF Places
  <2>2. lone' = lone /\ (lone # NoProcess => r = lone)
    BY <2>1, OnlyLone DEF Goes
  <2>3. SUFFICES ASSUME r = lone, lone # NoProcess PROVE Fits(r)'
    BY <2>2 DEF FitInv, Fits
  <2>4. Fits(r)
    BY <2>3 DEF FitInv
  <2>5. CASE Replace(r)
    BY <1>0, <2>5 DEF Replace, Leave, Move, Fits
  <2>. QED  BY <1>2, <2>4, <2>5, ListFits, StoreFits, ApplyFits, MigrateFits DEF Handle
<1>3. ASSUME \A q \in Handler : place'[q] = "idle" PROVE FitInv'
  <2>1. lone' \in Handler \cup {NoProcess}
    BY DEF AdminInv, BoundTyped
  <2>. QED  BY <1>3, <2>1 DEF FitInv, Fits
<1>4. CASE Start \/ RemoveTargetsFromFile \/ Load
  <2>1. phase # "serving" /\ UNCHANGED place
    BY <1>4 DEF Start, RemoveTargetsFromFile, Load
  <2>. QED  BY <1>3, <2>1 DEF Alone, AtRest
<1>5. CASE Stop
  BY <1>3, <1>5 DEF Stop
<1>6. CASE UNCHANGED adminVars
  BY <1>6, ListedStays DEF adminVars, FitInv, Fits, history
<1>. QED  BY <1>1, <1>2, <1>4, <1>5, <1>6 DEF AdminNext

LEMMA AgreeInductive ==
  ASSUME AdminInv, Alone, FitInv, AgreeInv, [AdminNext]_adminVars
  PROVE  AgreeInv'
<1>0. place \in [Handler -> Places] /\ NoProcess \notin Handler /\ agreed \in BOOLEAN
  BY NameAssumption DEF AdminInv, HandlersTyped, BoundTyped, Places
<1>1. ASSUME NEW r \in Handler, Arrive(r) PROVE AgreeInv'
  <2>1. PICK op, n, new : Enter(r, op, n, new)
    BY <1>1 DEF Arrive
  <2>2. /\ UNCHANGED <<phase, runtime, cache>> /\ Listed' = Listed
        /\ place' = [place EXCEPT ![r] = "list"] /\ agreed' = (agreed /\ AtRest)
    BY <2>1, ListedStays DEF Enter, Move
  <2>3. AtRest => \A q \in Handler : place[q] = "idle" /\ place'[q] \in {"idle", "list"}
    BY <1>0, <2>2 DEF AtRest
  <2>. QED  BY <2>2, <2>3 DEF AgreeInv
<1>2. ASSUME NEW r \in Handler, Handle(r) PROVE AgreeInv'
  <2>1. /\ place[r] # "idle" /\ UNCHANGED <<phase, lone>>
        /\ agreed' => agreed \/ lone = r
    BY <1>2, HandleGoes DEF Goes
  <2>2. SUFFICES ASSUME agreed', phase' = "serving" PROVE AgreeInv'
    BY DEF AgreeInv
  <2>3. /\ phase = "serving" /\ r = lone /\ Fits(r)
        /\ \A q \in Handler : q # r => place[q] = "idle"
    <3>1. r = lone /\ lone # NoProcess
      BY <1>0, <2>1, <2>2 DEF Alone
    <3>. QED  BY <2>1, <2>2, <3>1 DEF FitInv, Alone
  <2>4. agreed => /\ place[r] \notin {"migrate", "relist"}
                  /\ place[r] \in {"list", "apply"} => runtime = Listed /\ cache = Listed
    BY <2>3 DEF AgreeInv
  \* What is to be shown of the one handler that moves.
  <2>5. SUFFICES ASSUME NEW to, place' = [place EXCEPT ![r] = to]
                 PROVE  /\ to \notin {"migrate", "relist"}
                        /\ to \in {"idle", "list", "apply"} => runtime' = Listed' /\ cache' = Listed'
    <3>1. PICK to \in Places : place' = [place EXCEPT ![r] = to]
      BY <1>2, HandleGoes DEF Goes, Places
    <3>2. /\ place'[r] = to /\ \A q \in Handler : q # r => place'[q] = "idle"
      BY <1>0, <2>3, <3>1
    <3>3. /\ to \notin {"migrate", "relist"}
          /\ to \in {"idle", "list", "apply"} => runtime' = Listed' /\ cache' = Listed'
      BY <2>5, <3>1
    <3>. QED  BY <3>2, <3>3 DEF AgreeInv
  <2>6. place'[r] = to
    BY <1>0, <2>5
  <2>7. CASE ListTargets(r)
    <3>1. UNCHANGED <<runtime, cache>> /\ Listed' = Listed /\ agreed
      BY <2>2, <2>7, ListedStays DEF ListTargets, history
    <3>2. place[r] = "list" /\ runtime = Listed /\ cache = Listed
      BY <2>4, <2>7, <3>1 DEF ListTargets
    <3>3. proc[r].op # "reload" => proc[r].config = Listed
      BY <2>3, <3>2 DEF Fits
    <3>4. place'[r] # "migrate" /\ place'[r] \in {"apply", "idle"}
      <4>1. ~(place[r] = "list" /\ proc[r].op # "reload" /\ Listed = <<>> /\ proc[r].config # <<>>)
        BY <3>3
      <4>. QED  BY <1>0, <2>7, <4>1 DEF ListTargets, Move
    <3>. QED  BY <2>6, <3>1, <3>2, <3>4
  <2>8. CASE MigrateFromConfig(r)
    BY <2>2, <2>4, <2>8 DEF MigrateFromConfig, history
  <2>9. CASE ApplyConfig(r)
    <3>1. UNCHANGED cache /\ Listed' = Listed /\ runtime = Listed /\ cache = Listed
      BY <2>2, <2>4, <2>9, ListedStays DEF ApplyConfig, history
    <3>2. place'[r] \in {"replace", "store"} \/ (place'[r] = "idle" /\ UNCHANGED runtime)
      BY <1>0, <2>9 DEF ApplyConfig, Move, Leave
    <3>. QED  BY <2>6, <3>1, <3>2
  <2>10. CASE Store(r)
    <3>1. place'[r] = "replace"
      BY <1>0, <2>2, <2>10 DEF Store, Move
    <3>. QED  BY <2>6, <3>1
  <2>11. CASE Replace(r)
    <3>1. place'[r] = "idle" /\ cache' = proc[r].config /\ runtime' = runtime /\ Listed' = Listed
      BY <1>0, <2>11, ListedStays DEF Replace, Leave, Move
    <3>2. runtime = Listed /\ proc[r].config = Listed
      BY <2>3, <2>11 DEF Replace, Fits
    <3>. QED  BY <2>6, <3>1, <3>2
  <2>. QED  BY <1>2, <2>7, <2>8, <2>9, <2>10, <2>11 DEF Handle
<1>3. CASE Load
  <2>1. AtRest /\ UNCHANGED place /\ runtime' = Listed /\ cache' = Listed
    BY <1>3 DEF Load, Alone
  <2>2. Listed' = Listed
    BY <1>3, ListedStays DEF Load
  <2>. QED  BY <2>1, <2>2 DEF AgreeInv, AtRest
<1>4. CASE Start \/ RemoveTargetsFromFile \/ Stop
  <2>1. phase' # "serving"
    BY <1>4 DEF Start, RemoveTargetsFromFile, Stop
  <2>. QED  BY <2>1 DEF AgreeInv
<1>5. CASE UNCHANGED adminVars
  BY <1>5, ListedStays DEF adminVars, history, AgreeInv
<1>. QED  BY <1>1, <1>2, <1>3, <1>4, <1>5 DEF AdminNext

LEMMA AgreeInvariant == AdminSpec => [](AdminInv /\ Alone /\ FitInv /\ AgreeInv)
<1>1. AdminInit => Alone /\ FitInv /\ AgreeInv
  <2> SUFFICES ASSUME AdminInit PROVE Alone /\ FitInv /\ AgreeInv  OBVIOUS
  <2>1. (\A r \in Handler : place[r] = "idle") /\ lone = NoProcess /\ phase = "down"
    BY DEF AdminInit
  <2>. QED  BY <2>1 DEF Alone, FitInv, AgreeInv, AtRest
<1>2. AdminInv /\ AdminInv' /\ Alone /\ FitInv /\ AgreeInv /\ [AdminNext]_adminVars
      => Alone' /\ FitInv' /\ AgreeInv'
  BY AloneInductive, FitInductive, AgreeInductive
<1>. QED  BY <1>1, <1>2, AdminInvariant, PTL DEF AdminSpec

\* When a change has ended alone and none has overlapped or failed since, the
\* proxy and the cache have at rest what the database lists, in its order.
THEOREM CopiesDoAgree == AdminSpec => []CopiesAgree
<1>1. AgreeInv => CopiesAgree
  BY DEF AgreeInv, CopiesAgree, AtRest
<1>. QED  BY <1>1, AgreeInvariant, PTL
=============================================================================
