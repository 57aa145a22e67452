------------------------- MODULE AlarmInTurnProofs --------------------------
EXTENDS AlarmEngineProofs

(***************************************************************************)
(* Proofs about AlarmEngine: which alarms are active when a request starts *)
(* only after the previous one has ended (InTurn), whatever the monitor of *)
(* silent lagoons does meanwhile.                                          *)
(***************************************************************************)

(* A request has read the active alarms and not yet committed; it has read *)
(* the latest changes too.                                                 *)
Mid(p) == pc[p] \in {"loaded", "evaluating", "locking"}
Deciding(p) == pc[p] \in {"evaluating", "locking"}

(* The monitor works on the definitions of the lagoon, without a payload.  *)
MonitorInv ==
    /\ todo[Monitor] \subseteq LagoonLoss
    /\ opening[Monitor] \cup closing[Monitor] \subseteq LagoonLoss
    /\ recorded[Monitor] = {}
    /\ DOMAIN job[Monitor].sig = {}

(* The active alarms a request has read are still the active ones; it will *)
(* open or close exactly those of the definitions it has evaluated that    *)
(* differ from what it has decided.                                        *)
Evaluation(p) ==
    /\ ~ Mid(p) => opening[p] = {} /\ closing[p] = {}
    /\ Mid(p) => /\ opening[p] \cup closing[p] \cup todo[p] \subseteq Selected(p)
                 /\ \A d \in Tagged \cap Selected(p) :
                       d \in active[p] <=> OpenNow(d)
    /\ pc[p] = "loaded" =>
          todo[p] = Selected(p) /\ opening[p] = {} /\ closing[p] = {}
    /\ Deciding(p) => \A d \in Tagged \cap Selected(p) :
          d \in opening[p] \cup closing[p] <=>
             d \notin todo[p] /\ (ShouldAlarm(p, d) <=> ~ OpenNow(d))
    /\ pc[p] = "locking" => \A d \in NextDef(p) \cap Tagged :
          ShouldAlarm(p, d) <=> ~ OpenNow(d)
EvalInv == MonitorInv /\ \A p \in Proc : Evaluation(p)

(* The request in progress is the payload sent last.                       *)
SentInv ==
    /\ \A p \in Proc : pc[p] # "idle" => job[p] = sent
    /\ answered <= sent.ts

LastTs(d) == seen[d][Len(seen[d])].ts

(* What was committed is not from after the last payload; a change of a    *)
(* tag was committed with a payload that carried the tag.                  *)
TimesInv ==
    /\ \A d \in Transition : seen[d] # <<>> => LastTs(d) <= sent.ts
    /\ \A e \in events : seen[e.def] # <<>> /\ e.start <= LastTs(e.def)

(* No payload brings a change of its tag twice: once it is committed, the  *)
(* state in memory is its own; a request records its changes when there is *)
(* none of that time or later in the table.                                *)
Stored(p) == pc[p] = "stored" \/ Mid(p)
FreshInv ==
    /\ \A d \in Transition :
          \/ seen[d] = <<>>
          \/ LastTs(d) < sent.ts
          \/ d \in DOMAIN sent.sig /\ lastState[d] \in {NoState, sent.sig[d]}
    /\ \A p \in Proc : Stored(p) => \A d \in Transition \cap DOMAIN job[p].sig :
          lastState[d] = job[p].sig[d]
    /\ \A p \in Proc : \A e \in recorded[p] :
          /\ Stored(p)
          /\ e.start = job[p].ts /\ e.def \in DOMAIN job[p].sig
          /\ seen[e.def] = <<>> \/ LastTs(e.def) < job[p].ts

(* The changes a request has read are still the latest ones.               *)
LatestInv ==
    \A p \in Proc : Deciding(p) =>
       latest[p] = LatestOf(Selected(p) \cap Transition, job[p].ts)

LagInv == TimesInv /\ FreshInv /\ LatestInv /\ AlarmLagsTransition

(* While nothing has failed, a tag was last seen with the last payload     *)
(* that was committed with it, unless a request with that tag is under     *)
(* way; that has noted the tags it has evaluated.                          *)
LastHeard(d) ==
    \/ lastSeen[d] = LastTs(d)
    \/ \E p \in Proc : Deciding(p) /\ d \in DOMAIN job[p].sig
Noted(p, d) ==
    d \notin todo[p] \/ (pc[p] = "locking" /\ d \in NextDef(p))
    => lastSeen[d] = job[p].ts
TagInv == Undisturbed =>
    /\ \A d \in TagLoss : seen[d] # <<>> => LastHeard(d)
    /\ \A p \in Proc : Deciding(p) =>
          \A d \in TagLoss \cap DOMAIN job[p].sig : Noted(p, d)

-----------------------------------------------------------------------------
(* Who changes what                                                        *)

(* The steps of an actor.                                                  *)
StepOf(a) ==
    \/ a \in Proc /\ (Send(a) \/ Store(a))
    \/ a = Monitor /\ Check
    \/ LoadActive(a) \/ LoadLatest(a) \/ Decide(a) \/ Lock(a)
    \/ Commit(a) \/ Dispatch(a) \/ Fail(a)

(* What an actor has in hand is what it had.                               *)
Same(a) == /\ pc'[a] = pc[a] /\ job'[a] = job[a] /\ recorded'[a] = recorded[a]
           /\ todo'[a] = todo[a] /\ active'[a] = active[a]
           /\ latest'[a] = latest[a]
           /\ opening'[a] = opening[a] /\ closing'[a] = closing[a]

(* An actor leaves the others alone.                                       *)
LEMMA OthersSame ==
    ASSUME TypeOK, NEW a \in Actor, StepOf(a), NEW b \in Actor, b # a
    PROVE  Same(b)
<1>1. CASE a \in Proc /\ (Send(a) \/ Store(a))
  <2>1. \/ UNCHANGED <<pc, job>>
        \/ /\ pc' = [pc EXCEPT ![a] = "started"]
           /\ \E r : job' = [job EXCEPT ![a] = r]
        \/ pc' = [pc EXCEPT ![a] = "stored"] /\ UNCHANGED job
    BY <1>1 DEF Send, Receive, Store
  <2>2. \/ UNCHANGED recorded
        \/ recorded' = [recorded EXCEPT ![a] = ChangesOf(job[a])]
    BY <1>1 DEF Send, Receive, Store
  <2>3. UNCHANGED <<todo, active, latest, opening, closing>>
    BY <1>1 DEF Send, Receive, Store
  <2> QED BY <2>1, <2>2, <2>3 DEF TypeOK, Same
<1>2. CASE a = Monitor /\ Check
  BY <1>2 DEF Check, TypeOK, Same
<1>3. CASE LoadActive(a) \/ LoadLatest(a)
  BY <1>3 DEF LoadActive, LoadLatest, TypeOK, Same
<1>4. CASE Decide(a)
  <2>1. \/ pc' = pc
        \/ pc' = [pc EXCEPT ![a] = "locking"]
    BY <1>4 DEF Decide
  <2>2. \/ todo' = todo
        \/ \E d : todo' = [todo EXCEPT ![a] = @ \ {d}]
    BY <1>4 DEF Decide
  <2>3. UNCHANGED <<job, recorded, active, latest, opening, closing>>
    BY <1>4 DEF Decide
  <2> QED BY <2>1, <2>2, <2>3 DEF TypeOK, Same
<1>5. CASE Lock(a)
  <2>1. \E d : todo' = [todo EXCEPT ![a] = @ \ {d}]
    BY <1>5 DEF Lock
  <2>2. /\ \/ opening' = opening
           \/ \E X : opening' = [opening EXCEPT ![a] = X]
        /\ \/ closing' = closing
           \/ \E X : closing' = [closing EXCEPT ![a] = X]
    BY <1>5 DEF Lock
  <2>3. /\ pc' = [pc EXCEPT ![a] = "evaluating"]
        /\ UNCHANGED <<job, recorded, active, latest>>
    BY <1>5 DEF Lock
  <2> QED BY <2>1, <2>2, <2>3 DEF TypeOK, Same
<1>6. CASE Commit(a)
  <2>1. Clear(a) /\ pc' = [pc EXCEPT ![a] = "committed"] /\ UNCHANGED job
    BY <1>6 DEF Commit
  <2> QED BY <2>1 DEF Clear, TypeOK, Same
<1>7. CASE Dispatch(a)
  BY <1>7 DEF Dispatch, TypeOK, Same
<1>8. CASE Fail(a)
  <2>1. /\ Clear(a) /\ pc' = [pc EXCEPT ![a] = "idle"]
        /\ job' = [job EXCEPT ![a] = NoJob]
    BY <1>8 DEF Fail
  <2> QED BY <2>1 DEF Clear, TypeOK, Same
<1> QED BY <1>1, <1>2, <1>3, <1>4, <1>5, <1>6, <1>7, <1>8 DEF StepOf

(* Every step is one of an actor, a restart, or leaves all of them alone.  *)
LEMMA StepCases ==
    ASSUME [Next]_vars
    PROVE  \/ \E a \in Actor : StepOf(a)
           \/ Restart
           \/ /\ Deliver \/ Tick \/ UNCHANGED vars
              /\ \A a \in Actor : Same(a)
              /\ UNCHANGED <<alarms, events, seen, lastState, lastSeen, sent,
                             answered, faults, crashes>>
<1>1. Proc \subseteq Actor /\ Monitor \in Actor
  BY DEF Actor
<1>2. CASE Deliver \/ Tick \/ UNCHANGED vars
  BY <1>2 DEF Deliver, Tick, vars, actorVars, memoryVars, dbVars, worldVars, Same
<1> QED BY <1>1, <1>2 DEF Next, StepOf

(* Requests are actors, the monitor is not one of them.                    *)
LEMMA Actors == /\ \A p \in Proc : p \in Actor /\ p # Monitor
                /\ Monitor \in Actor
BY ActorAssumption DEF Actor

(* MonitorInv is kept.                                                     *)
LEMMA MonitorStep ==
    ASSUME BaseInv, MonitorInv, [Next]_vars
    PROVE  MonitorInv'
<1> USE DEF BaseInv
<1>1. ASSUME Same(Monitor)
      PROVE  MonitorInv'
  BY <1>1 DEF Same, MonitorInv
<1>2. ASSUME NEW a \in Actor, a # Monitor, StepOf(a)
      PROVE  MonitorInv'
  BY <1>1, <1>2, OthersSame, Actors
<1>3. CASE Restart
  BY <1>3, Actors DEF Restart, MonitorInv, Nobody, NoJob
<1>4. CASE StepOf(Monitor)
  <2>1. ~ (Monitor \in Proc)
    BY ActorAssumption
  <2>2. CASE Check
    <3>1. /\ UNCHANGED <<recorded, todo, opening, closing>>
          /\ job'[Monitor].sig = NoJob.sig
      BY <2>2, Actors DEF Check, TypeOK, NoJob
    <3> QED BY <3>1 DEF MonitorInv, NoJob
  <2>3. CASE LoadActive(Monitor)
    <3>1. todo'[Monitor] = LagoonLoss
      BY <2>3, Actors DEF LoadActive, TypeOK, Selected
    <3> QED BY <2>3, <3>1 DEF LoadActive, MonitorInv
  <2>4. CASE LoadLatest(Monitor)
    BY <2>4 DEF LoadLatest, MonitorInv
  <2>5. CASE Decide(Monitor)
    <3>1. todo'[Monitor] \subseteq todo[Monitor]
      BY <2>5, Actors DEF Decide, TypeOK
    <3> QED BY <2>5, <3>1 DEF Decide, MonitorInv
  <2>6. CASE Lock(Monitor)
    <3>1. PICK d \in NextDef(Monitor) :
             /\ todo' = [todo EXCEPT ![Monitor] = @ \ {d}]
             /\ IF d \in active[Monitor]
                THEN /\ closing' = [closing EXCEPT ![Monitor] =
                            IF OpenNow(d) THEN @ \cup {d} ELSE @]
                     /\ UNCHANGED opening
                ELSE /\ opening' = [opening EXCEPT ![Monitor] =
                            IF OpenNow(d) THEN @ ELSE @ \cup {d}]
                     /\ UNCHANGED closing
      BY <2>6 DEF Lock
    <3>2. d \in LagoonLoss
      BY <3>1 DEF NextDef, MonitorInv
    <3>3. /\ todo'[Monitor] \subseteq todo[Monitor]
          /\ opening'[Monitor] \subseteq opening[Monitor] \cup {d}
          /\ closing'[Monitor] \subseteq closing[Monitor] \cup {d}
      BY <3>1, Actors DEF TypeOK
    <3>4. UNCHANGED <<recorded, job>>
      BY <2>6 DEF Lock
    <3> QED BY <3>2, <3>3, <3>4 DEF MonitorInv
  <2>7. CASE Commit(Monitor) \/ Fail(Monitor)
    <3>1. /\ Clear(Monitor)
          /\ job'[Monitor] = job[Monitor] \/ job'[Monitor] = NoJob
      BY <2>7, Actors DEF Commit, Fail, TypeOK
    <3> QED BY <3>1, Actors DEF Clear, TypeOK, MonitorInv, NoJob
  <2>8. CASE Dispatch(Monitor)
    BY <2>8, Actors DEF Dispatch, MonitorInv, TypeOK, NoJob
  <2> QED BY <1>4, <2>1, <2>2, <2>3, <2>4, <2>5, <2>6, <2>7, <2>8 DEF StepOf
<1> QED BY <1>1, <1>2, <1>3, <1>4, StepCases, Actors

-----------------------------------------------------------------------------
(* Evaluations                                                             *)

(* The next definition of the loop is one.                                 *)
LEMMA NextDefUnique ==
    ASSUME TypeOK, NEW a \in Actor, NEW d \in NextDef(a), NEW e \in NextDef(a)
    PROVE  d = e
<1>1. /\ d \in Def /\ e \in Def
      /\ Rank[d] <= Rank[e] /\ Rank[e] <= Rank[d]
  BY DEF NextDef, TypeOK
<1>2. Rank[d] \in Nat /\ Rank[e] \in Nat
  BY <1>1, DefAssumption
<1> QED BY <1>1, <1>2, DefAssumption

(* A decision about a tagged definition depends on what the request has in *)
(* hand, and for a tag that is not heard on when it was seen.              *)
LEMMA SameDecision ==
    ASSUME NEW p, Same(p), NEW d \in Tagged,
           d \in TagLoss => lastSeen'[d] = lastSeen[d]
    PROVE  ShouldAlarm(p, d)' = ShouldAlarm(p, d)
<1>1. job'[p] = job[p] /\ active'[p] = active[p] /\ latest'[p] = latest[p]
  BY DEF Same
<1>2. CASE d \in Threshold
  BY <1>1, <1>2 DEF ShouldAlarm
<1>3. CASE d \in Transition /\ d \notin Threshold
  BY <1>1, <1>3 DEF ShouldAlarm
<1>4. CASE d \in TagLoss /\ d \notin Threshold /\ d \notin Transition
  BY <1>1, <1>4 DEF ShouldAlarm, Heard
<1> QED BY <1>2, <1>3, <1>4 DEF Tagged

(* An evaluation nobody touches stays as it is.                            *)
LEMMA EvaluationFrame ==
    ASSUME NEW p, Evaluation(p), Same(p),
           \A d \in Tagged : OpenNow(d)' <=> OpenNow(d),
           \A d \in TagLoss : lastSeen'[d] = lastSeen[d]
    PROVE  Evaluation(p)'
<1>1. /\ Mid(p)' <=> Mid(p)
      /\ Deciding(p)' <=> Deciding(p)
      /\ Selected(p)' = Selected(p) /\ NextDef(p)' = NextDef(p)
  BY DEF Same, Mid, Deciding, Selected, NextDef
<1>2. \A d \in Tagged : ShouldAlarm(p, d)' = ShouldAlarm(p, d)
  BY SameDecision
<1> HIDE DEF Tagged
<1>3. Deciding(p) => \A d \in Tagged \cap Selected(p) :
         d \in opening[p] \cup closing[p] <=>
            d \notin todo[p] /\ (ShouldAlarm(p, d)' <=> ~ OpenNow(d)')
  BY <1>2 DEF Evaluation
<1>4. pc[p] = "locking" => \A d \in NextDef(p) \cap Tagged :
         ShouldAlarm(p, d)' <=> ~ OpenNow(d)'
  BY <1>2 DEF Evaluation
<1>5. /\ ~ Mid(p) => opening[p] = {} /\ closing[p] = {}
      /\ Mid(p) => /\ opening[p] \cup closing[p] \cup todo[p] \subseteq Selected(p)
                   /\ \A d \in Tagged \cap Selected(p) :
                         d \in active[p] <=> OpenNow(d)'
      /\ pc[p] = "loaded" =>
            todo[p] = Selected(p) /\ opening[p] = {} /\ closing[p] = {}
  BY DEF Evaluation
<1>6. /\ pc'[p] = pc[p] /\ todo'[p] = todo[p] /\ active'[p] = active[p]
      /\ opening'[p] = opening[p] /\ closing'[p] = closing[p]
  BY DEF Same
<1> QED BY <1>1, <1>3, <1>4, <1>5, <1>6 DEF Evaluation

(* A request that is not in the middle of an evaluation opens and closes   *)
(* nothing.                                                                *)
LEMMA EvaluationIdle ==
    ASSUME NEW p, ~ Mid(p)', opening'[p] = {}, closing'[p] = {}
    PROVE  Evaluation(p)'
BY DEF Evaluation, Mid, Deciding

(* Only commits change the alarms and what was seen, and the monitor's not *)
(* those of a tag.                                                         *)
LEMMA TaggedKept ==
    ASSUME BaseInv, MonitorInv, [Next]_vars, \A p \in Proc : ~ Commit(p),
           NEW d \in Tagged
    PROVE  /\ alarms'[d] = alarms[d] /\ seen'[d] = seen[d]
           /\ OpenNow(d)' <=> OpenNow(d)
<1>1. d \in Def /\ d \notin LagoonLoss
  BY DefAssumption DEF Def, Tagged, Loss
<1>2. CASE Commit(Monitor)
  <2>1. d \notin opening[Monitor] /\ d \notin closing[Monitor]
    BY <1>1 DEF MonitorInv
  <2>2. alarms'[d] = alarms[d]
    BY <1>1, <1>2, <2>1 DEF Commit
  <2>3. seen'[d] = seen[d]
    BY <1>1, <1>2 DEF Commit, MonitorInv
  <2> QED BY <2>2, <2>3 DEF OpenNow, OpenAlarms
<1>3. CASE \A a \in Actor : ~ Commit(a)
  <2>1. UNCHANGED alarms
    BY <1>3, AlarmFrame
  <2>2. UNCHANGED seen
    <3>1. ASSUME NEW p \in Proc, Send(p) \/ Store(p)
          PROVE  UNCHANGED seen
      BY <3>1 DEF Send, Receive, Store, dbVars
    <3>2. ASSUME NEW a \in Actor,
                 \/ LoadActive(a) \/ LoadLatest(a) \/ Decide(a) \/ Lock(a)
                 \/ Dispatch(a) \/ Fail(a)
          PROVE  UNCHANGED seen
      BY <3>2 DEF LoadActive, LoadLatest, Decide, Lock, Dispatch, Fail, dbVars
    <3>3. ASSUME Check \/ Deliver \/ Restart \/ Tick \/ UNCHANGED vars
          PROVE  UNCHANGED seen
      BY <3>3 DEF Check, Deliver, Restart, Tick, vars, dbVars
    <3> QED BY <1>3, <3>1, <3>2, <3>3 DEF Next
  <2> QED BY <2>1, <2>2 DEF OpenNow, OpenAlarms
<1> QED BY <1>2, <1>3 DEF Actor

(* Only a request that decides says that a tag was seen.                   *)
LEMMA SeenKept ==
    ASSUME BaseInv, MonitorInv, NEW a \in Actor, StepOf(a),
           a \in Proc => ~ Decide(a), NEW d \in TagLoss
    PROVE  lastSeen'[d] = lastSeen[d]
<1>1. CASE Decide(a)
  <2>1. a = Monitor /\ d \in Loss /\ d \notin LagoonLoss
    BY <1>1, DefAssumption DEF Actor, Loss
  <2>2. PICK e \in NextDef(a) : lastSeen' \in {lastSeen, [lastSeen EXCEPT ![e] = job[a].ts]}
    BY <1>1 DEF Decide
  <2>3. e # d
    BY <2>1, <2>2 DEF NextDef, MonitorInv
  <2> QED BY <2>1, <2>2, <2>3 DEF BaseInv, TypeOK
<1>2. CASE ~ Decide(a)
  BY <1>2 DEF StepOf, Send, Receive, Store, Check, LoadActive, LoadLatest,
              Lock, Commit, Dispatch, Fail, memoryVars
<1> QED BY <1>1, <1>2

(* A request that reads the active alarms reads those of its definitions,  *)
(* and then the latest changes.                                            *)
LEMMA EvaluationLoad ==
    ASSUME BaseInv, NEW p \in Proc, Evaluation(p), LoadActive(p) \/ LoadLatest(p)
    PROVE  Evaluation(p)'
<1> USE DEF BaseInv
<1>1. p \in Actor
  BY Actors
<1>2. \A d \in Tagged : OpenNow(d)' <=> OpenNow(d)
  BY DEF LoadActive, LoadLatest, dbVars, OpenNow, OpenAlarms
<1>3. CASE LoadActive(p)
  <2>1. /\ pc[p] = "stored" /\ pc'[p] = "loaded" /\ todo'[p] = Selected(p)
        /\ active'[p] = {d \in Selected(p) : OpenNow(d)}
        /\ opening'[p] = opening[p] /\ closing'[p] = closing[p]
        /\ UNCHANGED job
    BY <1>1, <1>3 DEF LoadActive, TypeOK
  <2>2. opening[p] = {} /\ closing[p] = {}
    BY <2>1 DEF Evaluation, Mid
  <2>3. Selected(p)' = Selected(p)
    BY <2>1 DEF Selected
  <2> QED BY <1>2, <2>1, <2>2, <2>3 DEF Evaluation, Mid, Deciding
<1>4. CASE LoadLatest(p)
  <2>1. /\ pc[p] = "loaded" /\ pc'[p] = "evaluating"
        /\ UNCHANGED <<job, todo, active, opening, closing>>
    BY <1>1, <1>4 DEF LoadLatest, TypeOK
  <2>2. Selected(p)' = Selected(p)
    BY <2>1 DEF Selected
  <2>3. todo[p] = Selected(p) /\ opening[p] = {} /\ closing[p] = {}
    BY <2>1 DEF Evaluation
  <2>4. \A d \in Tagged \cap Selected(p) : d \in active[p] <=> OpenNow(d)
    BY <2>1 DEF Evaluation, Mid
  <2> QED BY <1>2, <2>1, <2>2, <2>3, <2>4 DEF Evaluation, Mid, Deciding
<1> QED BY <1>3, <1>4

(* What a request decides about a definition does not change when it notes *)
(* that a tag was seen.                                                    *)
LEMMA DecisionKept ==
    ASSUME BaseInv, NEW p \in Proc, Decide(p), NEW d \in Tagged
    PROVE  ShouldAlarm(p, d)' <=> ShouldAlarm(p, d)
<1>1. /\ p \in Actor /\ UNCHANGED <<job, active, latest>> /\ job[p].ts \in Nat
      /\ job[p].ts # 0
  BY Actors, TimeIsNat DEF Decide, BaseInv, BusyInv
<1>2. PICK e \in NextDef(p) :
         lastSeen' = IF e \in Loss /\ (Heard(p, e) \/ lastSeen[e] = 0)
                     THEN [lastSeen EXCEPT ![e] = job[p].ts]
                     ELSE lastSeen
  BY DEF Decide
<1>3. CASE d \in Threshold
  BY <1>1, <1>3 DEF ShouldAlarm
<1>4. CASE d \in Transition /\ d \notin Threshold
  BY <1>1, <1>4 DEF ShouldAlarm
<1>5. CASE d \in TagLoss /\ d \notin Threshold /\ d \notin Transition
  <2> DEFINE silent(s) == ~ Heard(p, d) /\ s # 0 /\ job[p].ts > s + TagTimeout
  <2>1. /\ ShouldAlarm(p, d) <=> silent(lastSeen[d])
        /\ ShouldAlarm(p, d)' <=> silent(lastSeen'[d])
        /\ d \in Loss
    BY <1>1, <1>5 DEF ShouldAlarm, Timeout, Heard, Loss
  <2>2. \/ lastSeen'[d] = lastSeen[d]
        \/ /\ lastSeen'[d] = job[p].ts
           /\ Heard(p, d) \/ lastSeen[d] = 0
    BY <1>2, <2>1 DEF BaseInv, TypeOK
  <2>3. ~ silent(job[p].ts) /\ ~ silent(0)
    BY <1>1, TimeAssumption
  <2> HIDE DEF Heard
  <2>4. Heard(p, d) => \A s : ~ silent(s)
    OBVIOUS
  <2> HIDE DEF silent
  <2> QED BY <2>1, <2>2, <2>3, <2>4
<1> QED BY <1>3, <1>4, <1>5 DEF Tagged

(* A request that evaluates a definition is done with it if it has decided *)
(* what is the case, and goes on to lock it otherwise.                     *)
LEMMA EvaluationDecide ==
    ASSUME BaseInv, NEW p \in Proc, Evaluation(p), Decide(p)
    PROVE  Evaluation(p)'
<1> USE DEF BaseInv
<1>1. PICK d \in NextDef(p) :
         IF ShouldAlarm(p, d) <=> d \in active[p]
         THEN todo' = [todo EXCEPT ![p] = @ \ {d}] /\ UNCHANGED pc
         ELSE pc' = [pc EXCEPT ![p] = "locking"] /\ UNCHANGED todo
  BY DEF Decide
<1>2. /\ p \in Actor /\ pc[p] = "evaluating" /\ Mid(p) /\ Deciding(p)
      /\ UNCHANGED <<job, active, opening, closing, alarms>>
  BY Actors DEF Decide, dbVars, Mid, Deciding
<1>3. Selected(p)' = Selected(p) /\ \A e \in Tagged : OpenNow(e)' <=> OpenNow(e)
  BY <1>2 DEF Selected, OpenNow, OpenAlarms
<1>4. /\ opening[p] \cup closing[p] \cup todo[p] \subseteq Selected(p)
      /\ \A e \in Tagged \cap Selected(p) : e \in active[p] <=> OpenNow(e)
      /\ \A e \in Tagged \cap Selected(p) :
            e \in opening[p] \cup closing[p] <=>
               e \notin todo[p] /\ (ShouldAlarm(p, e) <=> ~ OpenNow(e))
  BY <1>2 DEF Evaluation
<1>5. d \in todo[p] /\ d \in Selected(p)
  BY <1>1, <1>4 DEF NextDef
<1>6. \A e \in Tagged : ShouldAlarm(p, e)' <=> ShouldAlarm(p, e)
  BY DecisionKept
<1>7. CASE ShouldAlarm(p, d) <=> d \in active[p]
  <2>1. todo'[p] = todo[p] \ {d} /\ pc'[p] = "evaluating"
    BY <1>1, <1>2, <1>7 DEF TypeOK
  <2>2. \A e \in Tagged \cap Selected(p) :
           e \in opening[p] \cup closing[p] <=>
              e \notin todo'[p] /\ (ShouldAlarm(p, e)' <=> ~ OpenNow(e))
    BY <1>4, <1>5, <1>6, <1>7, <2>1
  <2> QED BY <1>2, <1>3, <1>4, <2>1, <2>2 DEF Evaluation, Mid, Deciding
<1>8. CASE ~ (ShouldAlarm(p, d) <=> d \in active[p])
  <2>1. todo' = todo /\ pc'[p] = "locking"
    BY <1>1, <1>2, <1>8 DEF TypeOK
  <2>2. NextDef(p)' = NextDef(p)
    BY <2>1 DEF NextDef
  <2>3. ASSUME NEW e \in NextDef(p) \cap Tagged
        PROVE  ShouldAlarm(p, e)' <=> ~ OpenNow(e)
    <3>1. e = d
      BY <1>1, <1>2, NextDefUnique
    <3> QED BY <1>4, <1>5, <1>6, <1>8, <3>1
  <2>4. \A e \in Tagged \cap Selected(p) :
           e \in opening[p] \cup closing[p] <=>
              e \notin todo[p] /\ (ShouldAlarm(p, e)' <=> ~ OpenNow(e))
    BY <1>4, <1>6
  <2> QED BY <1>2, <1>3, <1>4, <2>1, <2>2, <2>3, <2>4 DEF Evaluation, Mid, Deciding
<1> QED BY <1>7, <1>8

(* A request that has locked a definition finds its alarm as it was, and   *)
(* opens or closes it.                                                     *)
LEMMA EvaluationLock ==
    ASSUME BaseInv, NEW p \in Proc, Evaluation(p), Lock(p)
    PROVE  Evaluation(p)'
<1> USE DEF BaseInv
<1>1. PICK d \in NextDef(p) :
         /\ todo' = [todo EXCEPT ![p] = @ \ {d}]
         /\ IF d \in active[p]
            THEN /\ closing' = [closing EXCEPT ![p] =
                        IF OpenNow(d) THEN @ \cup {d} ELSE @]
                 /\ UNCHANGED opening
            ELSE /\ opening' = [opening EXCEPT ![p] =
                        IF OpenNow(d) THEN @ ELSE @ \cup {d}]
                 /\ UNCHANGED closing
  BY DEF Lock
<1>2. /\ p \in Actor /\ pc[p] = "locking" /\ Mid(p) /\ Deciding(p)
      /\ UNCHANGED <<job, active, latest, lastSeen, alarms>>
  BY Actors DEF Lock, memoryVars, Mid, Deciding
<1>3. pc'[p] = "evaluating" /\ todo'[p] = todo[p] \ {d}
  BY <1>1, <1>2 DEF Lock, TypeOK
<1>4. Selected(p)' = Selected(p) /\ \A e \in Tagged : OpenNow(e)' <=> OpenNow(e)
  BY <1>2 DEF Selected, OpenNow, OpenAlarms
<1>5. /\ opening[p] \cup closing[p] \cup todo[p] \subseteq Selected(p)
      /\ \A e \in Tagged \cap Selected(p) : e \in active[p] <=> OpenNow(e)
      /\ \A e \in Tagged \cap Selected(p) :
            e \in opening[p] \cup closing[p] <=>
               e \notin todo[p] /\ (ShouldAlarm(p, e) <=> ~ OpenNow(e))
      /\ \A e \in NextDef(p) \cap Tagged : ShouldAlarm(p, e) <=> ~ OpenNow(e)
  BY <1>2 DEF Evaluation
<1>6. d \in todo[p] /\ d \in Selected(p)
  BY <1>1, <1>5 DEF NextDef
<1>7. \A e : ShouldAlarm(p, e)' = ShouldAlarm(p, e)
  BY <1>2 DEF ShouldAlarm, Heard
<1>8. /\ opening'[p] \cup closing'[p] \subseteq opening[p] \cup closing[p] \cup {d}
      /\ opening[p] \cup closing[p] \subseteq opening'[p] \cup closing'[p]
  BY <1>1, <1>2 DEF TypeOK
<1>9. d \in Tagged => d \in opening'[p] \cup closing'[p]
  BY <1>1, <1>2, <1>5, <1>6 DEF TypeOK
<1>10. \A e \in Tagged \cap Selected(p) :
          e \in opening'[p] \cup closing'[p] <=>
             e \notin todo'[p] /\ (ShouldAlarm(p, e)' <=> ~ OpenNow(e)')
  <2> HIDE DEF Tagged
  <2> SUFFICES ASSUME NEW e \in Tagged \cap Selected(p)
               PROVE  e \in opening'[p] \cup closing'[p] <=>
                         e \notin todo'[p] /\ (ShouldAlarm(p, e) <=> ~ OpenNow(e))
    BY <1>4, <1>7
  <2>1. CASE e = d
    BY <1>1, <1>3, <1>5, <1>9, <2>1
  <2>2. CASE e # d
    BY <1>3, <1>5, <1>8, <2>2
  <2> QED BY <2>1, <2>2
<1>11. opening'[p] \cup closing'[p] \cup todo'[p] \subseteq Selected(p)
  BY <1>3, <1>5, <1>6, <1>8
<1>12. \A e \in Tagged \cap Selected(p) : e \in active'[p] <=> OpenNow(e)'
  BY <1>2, <1>4, <1>5
<1> QED BY <1>3, <1>4, <1>10, <1>11, <1>12 DEF Evaluation, Mid, Deciding

(* EvalInv is kept while requests are in turn.                             *)
LEMMA EvalStep ==
    ASSUME BaseInv, EvalInv, InTurn, [Next]_vars
    PROVE  EvalInv'
<1> USE DEF BaseInv
<1>1. MonitorInv /\ MonitorInv'
  BY MonitorStep DEF EvalInv
<1> SUFFICES ASSUME NEW p \in Proc
             PROVE  Evaluation(p)'
  BY <1>1 DEF EvalInv
<1>2. Evaluation(p) /\ p \in Actor /\ p # Monitor
  BY Actors DEF EvalInv
<1>3. \A d \in TagLoss : d \in Tagged
  BY DEF Tagged
<1>4. CASE Restart
  BY <1>2, <1>4, EvaluationIdle DEF Restart, Mid, Nobody
<1>5. CASE /\ \A a \in Actor : Same(a)
           /\ UNCHANGED <<alarms, lastSeen>>
  BY <1>2, <1>5, EvaluationFrame DEF OpenNow, OpenAlarms
<1>6. ASSUME NEW a \in Actor, a # p, StepOf(a)
      PROVE  Evaluation(p)'
  <2>1. Same(p)
    BY <1>2, <1>6, OthersSame
  <2>2. CASE a \in Proc /\ ~ Send(a)
    <3>1. pc[a] # "idle"
      BY <1>6, <2>2, ActorAssumption
      DEF StepOf, Store, LoadActive, LoadLatest, Decide, Lock, Commit,
          Dispatch, Fail
    <3>2. pc[p] = "idle"
      BY <1>6, <2>2, <3>1 DEF InTurn
    <3>3. opening[p] = {} /\ closing[p] = {}
      BY <1>2, <3>2 DEF Evaluation, Mid
    <3> QED BY <2>1, <3>2, <3>3, EvaluationIdle DEF Same, Mid
  <2>3. CASE a \in Proc /\ Send(a)
    <3>1. UNCHANGED <<alarms, lastSeen>>
      BY <2>3 DEF Send, Receive, memoryVars, dbVars
    <3> QED BY <1>2, <2>1, <3>1, EvaluationFrame DEF OpenNow, OpenAlarms
  <2>4. CASE a \notin Proc
    <3>1. a = Monitor
      BY <2>4 DEF Actor
    <3>2. \A d \in TagLoss : lastSeen'[d] = lastSeen[d]
      BY <1>1, <1>6, <2>4, SeenKept
    <3>3. \A d \in Tagged : OpenNow(d)' <=> OpenNow(d)
      <4>1. CASE Commit(a)
        <5> SUFFICES ASSUME NEW d \in Tagged
                     PROVE  OpenNow(d)' <=> OpenNow(d)
          OBVIOUS
        <5>1. d \in Def /\ d \notin LagoonLoss
          BY DefAssumption DEF Def, Tagged, Loss
        <5>2. d \notin opening[a] /\ d \notin closing[a]
          BY <1>1, <3>1, <5>1 DEF MonitorInv
        <5>3. alarms'[d] = alarms[d]
          BY <4>1, <5>1, <5>2 DEF Commit
        <5> QED BY <5>3 DEF OpenNow, OpenAlarms
      <4>2. CASE ~ Commit(a)
        <5>1. UNCHANGED alarms
          BY <1>6, <2>4, <4>2
          DEF StepOf, Check, LoadActive, LoadLatest, Decide, Lock, Dispatch,
              Fail, dbVars
        <5> QED BY <5>1 DEF OpenNow, OpenAlarms
      <4> QED BY <4>1, <4>2
    <3> QED BY <1>2, <2>1, <3>2, <3>3, EvaluationFrame
  <2> QED BY <2>2, <2>3, <2>4
<1>7. CASE StepOf(p)
  <2>1. CASE Send(p)
    <3>1. pc[p] = "idle" /\ (pc'[p] = "idle" \/ pc'[p] = "started")
      BY <1>2, <2>1 DEF Send, Receive, TypeOK
    <3>2. UNCHANGED <<opening, closing>>
      BY <2>1 DEF Send, Receive
    <3> QED BY <1>2, <3>1, <3>2, EvaluationIdle DEF Evaluation, Mid
  <2>2. CASE Store(p)
    <3>1. pc[p] = "started" /\ pc'[p] = "stored" /\ UNCHANGED <<opening, closing>>
      BY <1>2, <2>2 DEF Store, TypeOK
    <3> QED BY <1>2, <3>1, EvaluationIdle DEF Evaluation, Mid
  <2>3. CASE Commit(p) \/ Fail(p)
    <3>1. /\ pc'[p] \in {"committed", "idle"}
          /\ opening'[p] = {} /\ closing'[p] = {}
      BY <1>2, <2>3 DEF Commit, Fail, Clear, TypeOK
    <3> QED BY <3>1, EvaluationIdle DEF Mid
  <2>4. CASE Dispatch(p)
    <3>1. pc[p] = "committed" /\ pc'[p] = "idle" /\ UNCHANGED <<opening, closing>>
      BY <1>2, <2>4 DEF Dispatch, TypeOK
    <3> QED BY <1>2, <3>1, EvaluationIdle DEF Evaluation, Mid
  <2> QED BY <1>2, <1>7, <2>1, <2>2, <2>3, <2>4, EvaluationLoad,
             EvaluationDecide, EvaluationLock DEF StepOf
<1> QED BY <1>4, <1>5, <1>6, <1>7, StepCases

-----------------------------------------------------------------------------
(* The outcome of an evaluation                                            *)

(* The commit of a request stores the signals of its payload.              *)
LEMMA CommitStores ==
    ASSUME BaseInv, NEW p \in Proc, Commit(p), NEW d \in Tagged
    PROVE  /\ d \in Def /\ d \notin LagoonLoss
           /\ job[p] \in Job /\ job[p].ts \in Time
           /\ seen[d] \in Seq([ts: Time, sig: Signal])
           /\ d \in DOMAIN job[p].sig =>
                 /\ [ts |-> job[p].ts, sig |-> job[p].sig[d]]
                       \in [ts: Time, sig: Signal]
                 /\ seen'[d] = Append(seen[d], [ts |-> job[p].ts,
                                                sig |-> job[p].sig[d]])
           /\ d \notin DOMAIN job[p].sig => seen'[d] = seen[d]
<1>1. d \in Def /\ d \notin LagoonLoss /\ p \in Actor
  BY DefAssumption, Actors DEF Def, Tagged, Loss
<1>2. job[p] \in Job /\ job[p].ts \in Time
      /\ seen[d] \in Seq([ts: Time, sig: Signal])
  BY <1>1 DEF BaseInv, TypeOK, BusyInv, Commit
<1>3. d \in DOMAIN job[p].sig => job[p].sig[d] \in Signal
  BY <1>1, <1>2, JobFields, SignalTypes
<1>4. seen'[d] = CASE d \in DOMAIN job[p].sig ->
                          Append(seen[d], [ts |-> job[p].ts,
                                           sig |-> job[p].sig[d]])
                   [] d \in LagoonLoss /\ p # Monitor ->
                          Append(seen[d], [ts |-> job[p].ts, sig |-> "present"])
                   [] OTHER -> seen[d]
  BY <1>1 DEF Commit
<1> QED BY <1>1, <1>2, <1>3, <1>4

(* A commit leaves active what the request has decided, of the definitions *)
(* it has evaluated, and what was active, of the others.                   *)
LEMMA CommitOutcome ==
    ASSUME BaseInv, LockInv, AlarmInv, EvalInv, NEW p \in Proc, Commit(p),
           NEW d \in Tagged
    PROVE  /\ d \in Selected(p) => (OpenNow(d)' <=> ShouldAlarm(p, d))
           /\ d \notin Selected(p) => (OpenNow(d)' <=> OpenNow(d))
<1>1. d \in Def /\ p \in Actor /\ job[p].ts # 0
  BY CommitStores, Actors, TimeIsNat
<1>2. /\ opening[p] \cup closing[p] \subseteq Selected(p)
      /\ d \in Selected(p) =>
            (d \in opening[p] \cup closing[p] <=>
                (ShouldAlarm(p, d) <=> ~ OpenNow(d)))
  <2>1. pc[p] = "evaluating" /\ todo[p] = {} /\ Evaluation(p)
    BY DEF Commit, EvalInv
  <2> HIDE DEF Tagged
  <2> QED BY <2>1 DEF Evaluation, Mid, Deciding
<1>3. CASE /\ d \in opening[p] /\ ~ OpenNow(d)
           /\ alarms[d] \in Seq(AlarmRow)
           /\ alarms'[d] = Append(alarms[d], [opened |-> job[p].ts,
                                              closed |-> 0])
  <2>1. Len(alarms[d]) + 1 \in OpenAlarms(d)'
    BY <1>3 DEF OpenAlarms
  <2> QED BY <1>2, <1>3, <2>1 DEF OpenNow
<1>4. CASE /\ d \in closing[p] /\ OpenNow(d)
           /\ alarms[d] \in Seq(AlarmRow)
           /\ alarms[d] # <<>>
           /\ alarms'[d] = [alarms[d] EXCEPT ![Len(alarms[d])].closed = job[p].ts]
  <2>1. ASSUME NEW i \in 1 .. Len(alarms'[d])
        PROVE  alarms'[d][i].closed # 0
    <3>1. i \in 1 .. Len(alarms[d])
      BY <1>4
    <3>2. CASE i = Len(alarms[d])
      BY <1>1, <1>4, <3>1, <3>2 DEF AlarmRow
    <3>3. CASE i # Len(alarms[d])
      <4>1. alarms'[d][i] = alarms[d][i]
        BY <1>4, <3>1, <3>3
      <4> QED BY <1>1, <3>1, <3>3, <4>1 DEF AlarmInv, LastOnly
    <3> QED BY <3>2, <3>3
  <2>2. ~ OpenNow(d)'
    BY <2>1 DEF OpenNow, OpenAlarms
  <2> QED BY <1>2, <1>4, <2>2
<1>5. CASE d \notin opening[p] /\ d \notin closing[p] /\ alarms'[d] = alarms[d]
  <2>1. OpenNow(d)' <=> OpenNow(d)
    BY <1>5 DEF OpenNow, OpenAlarms
  <2> QED BY <1>2, <1>5, <2>1
<1> QED BY <1>1, <1>3, <1>4, <1>5, CommitAlarms

(* A tag of a threshold or a transition is evaluated with the payloads     *)
(* that carry it, one whose loss is watched with all of them.              *)
LEMMA Evaluated ==
    ASSUME NEW p \in Proc, NEW d \in Tagged
    PROVE  d \in Selected(p) <=> d \in TagLoss \/ d \in DOMAIN job[p].sig
BY DefAssumption, Actors DEF Selected, Tagged, Loss

-----------------------------------------------------------------------------
(* Thresholds                                                              *)

(* Some value violates the limit and none after it is back past the        *)
(* deadband.                                                               *)
Violated(s) == \E i \in 1 .. Len(s) : /\ s[i].sig = "high"
                                      /\ \A j \in i .. Len(s) : s[j].sig # "low"

(* What the next value adds to that.                                       *)
LEMMA ViolatedAppend ==
    ASSUME NEW R, NEW s \in Seq(R), NEW x \in R
    PROVE  Violated(Append(s, x)) <=>
              x.sig = "high" \/ (x.sig # "low" /\ Violated(s))
<1> DEFINE t == Append(s, x)
           n == Len(s)
<1>1. /\ n \in Nat /\ Len(t) = n + 1 /\ t[n + 1] = x
      /\ \A i \in 1 .. n : t[i] = s[i]
  OBVIOUS
<1> HIDE DEF t, n
<1>2. ASSUME x.sig = "high"
      PROVE  Violated(t)
  <2>1. \A j \in (n + 1) .. Len(t) : t[j].sig # "low"
    BY <1>1, <1>2
  <2> QED BY <1>1, <1>2, <2>1 DEF Violated
<1>3. ASSUME x.sig # "low", Violated(s)
      PROVE  Violated(t)
  <2>1. PICK i \in 1 .. n : s[i].sig = "high" /\ \A j \in i .. n : s[j].sig # "low"
    BY <1>3 DEF Violated, n
  <2>2. \A j \in i .. (n + 1) : t[j].sig # "low"
    <3> SUFFICES ASSUME NEW j \in i .. (n + 1)
                 PROVE  t[j].sig # "low"
      OBVIOUS
    <3>1. CASE j = n + 1
      BY <1>1, <1>3, <3>1
    <3>2. CASE j # n + 1
      BY <1>1, <2>1, <3>2
    <3> QED BY <3>1, <3>2
  <2> QED BY <1>1, <2>1, <2>2 DEF Violated
<1>4. ASSUME Violated(t), x.sig # "high"
      PROVE  x.sig # "low" /\ Violated(s)
  <2>1. PICK i \in 1 .. (n + 1) :
           t[i].sig = "high" /\ \A j \in i .. (n + 1) : t[j].sig # "low"
    BY <1>1, <1>4 DEF Violated
  <2>2. i \in 1 .. n /\ x.sig # "low"
    BY <1>1, <1>4, <2>1
  <2>3. s[i].sig = "high" /\ \A j \in i .. n : s[j].sig # "low"
    BY <1>1, <2>1, <2>2
  <2> QED BY <2>2, <2>3 DEF Violated, n
<1> QED BY <1>2, <1>3, <1>4 DEF t

(* AlarmFollowsThreshold is kept by every step.                            *)
LEMMA ThresholdStep ==
    ASSUME BaseInv, LockInv, AlarmInv, EvalInv, AlarmFollowsThreshold,
           [Next]_vars
    PROVE  AlarmFollowsThreshold'
<1> SUFFICES ASSUME NEW d \in Threshold
             PROVE  OpenNow(d)' <=> Violated(seen'[d])
  BY DEF AlarmFollowsThreshold, Violated
<1>1. d \in Tagged /\ d \notin TagLoss
  BY DefAssumption DEF Tagged
<1>2. OpenNow(d) <=> Violated(seen[d])
  BY DEF AlarmFollowsThreshold, Violated
<1>3. CASE \A p \in Proc : ~ Commit(p)
  <2>1. seen'[d] = seen[d] /\ (OpenNow(d)' <=> OpenNow(d))
    BY <1>1, <1>3, TaggedKept DEF EvalInv
  <2> QED BY <1>2, <2>1
<1>4. ASSUME NEW p \in Proc, Commit(p)
      PROVE  OpenNow(d)' <=> Violated(seen'[d])
  <2>1. CASE d \in DOMAIN job[p].sig
    <3> DEFINE x == [ts |-> job[p].ts, sig |-> job[p].sig[d]]
    <3>1. /\ seen[d] \in Seq([ts: Time, sig: Signal])
          /\ x \in [ts: Time, sig: Signal] /\ job[p] \in Job
          /\ seen'[d] = Append(seen[d], x)
      BY <1>1, <1>4, <2>1, CommitStores
    <3>2. job[p].sig[d] \in Side
      <4>1. job[p].sig[d] \in SignalOf(d)
        BY <2>1, <3>1, JobFields
      <4> QED BY <4>1, DefAssumption DEF SignalOf
    <3>3. d \in Selected(p)
      BY <1>1, <2>1, Evaluated
    <3>4. OpenNow(d)' <=> ShouldAlarm(p, d)
      BY <1>1, <1>4, <3>3, CommitOutcome
    <3>5. ShouldAlarm(p, d) <=> \/ job[p].sig[d] = "high"
                                \/ job[p].sig[d] = "band" /\ d \in active[p]
      BY DefAssumption DEF ShouldAlarm
    <3>6. d \in active[p] <=> OpenNow(d)
      <4>1. Evaluation(p) /\ Mid(p)
        BY <1>4 DEF EvalInv, Commit, Mid
      <4> HIDE DEF Tagged
      <4> QED BY <1>1, <3>3, <4>1 DEF Evaluation
    <3>7. Violated(seen'[d]) <=>
             job[p].sig[d] = "high" \/ (job[p].sig[d] # "low" /\ Violated(seen[d]))
      <4>1. x.sig = job[p].sig[d]
        OBVIOUS
      <4> HIDE DEF x
      <4>2. Violated(Append(seen[d], x)) <=>
               x.sig = "high" \/ (x.sig # "low" /\ Violated(seen[d]))
        BY <3>1, ViolatedAppend
      <4> QED BY <3>1, <4>1, <4>2
    <3> QED BY <1>2, <3>2, <3>4, <3>5, <3>6, <3>7 DEF Side
  <2>2. CASE d \notin DOMAIN job[p].sig
    <3>1. seen'[d] = seen[d] /\ (OpenNow(d)' <=> OpenNow(d))
      BY <1>1, <1>4, <2>2, Evaluated, CommitStores, CommitOutcome
    <3> QED BY <1>2, <3>1
  <2> QED BY <2>1, <2>2
<1> QED BY <1>3, <1>4

LEMMA EvalInit == Init => EvalInv
<1> SUFFICES ASSUME Init
             PROVE  EvalInv
  OBVIOUS
<1>1. MonitorInv
  BY Actors DEF Init, MonitorInv, Nobody, NoJob
<1>2. \A p \in Proc : Evaluation(p)
  BY Actors DEF Init, Nobody, Evaluation, Mid, Deciding
<1> QED BY <1>1, <1>2 DEF EvalInv

(* One request at a time: an alarm of a threshold is active if and only if *)
(* a stored value has violated the limit and none since has come back past *)
(* the deadband, for every deadband, order of evaluation and failure.      *)
THEOREM ThresholdInTurn == Spec /\ []InTurn => []AlarmFollowsThreshold
<1>1. Init => EvalInv /\ AlarmFollowsThreshold
  BY EvalInit DEF Init, AlarmFollowsThreshold, OpenNow, OpenAlarms, Def
<1>2. IInv /\ InTurn /\ EvalInv /\ AlarmFollowsThreshold /\ [Next]_vars
         => EvalInv' /\ AlarmFollowsThreshold'
  BY EvalStep, ThresholdStep DEF IInv
<1> QED BY <1>1, <1>2, Invariance, PTL DEF Spec

-----------------------------------------------------------------------------
(* The payload in progress                                                 *)

(* The times of payloads and answers.                                      *)
LEMMA SentTypes ==
    ASSUME TypeOK
    PROVE  /\ sent \in Job /\ sent.ts \in Nat /\ answered \in Nat
           /\ now \in Nat \ {0}
BY TimeIsNat, PayloadIsJob DEF TypeOK, NoJob

(* A request carries a new payload, of the present, or the last one again. *)
LEMMA SendCases ==
    ASSUME TypeOK, NEW p \in Proc, Send(p)
    PROVE  \E r \in Payload :
              /\ Receive(p, r)
              /\ r = sent \/ (sent.ts < r.ts /\ r.ts = now)
<1>1. CASE \E r \in Payload : sent.ts < r.ts /\ r.ts = now /\ Receive(p, r)
  BY <1>1
<1>2. CASE sent # NoJob /\ Receive(p, sent)
  BY <1>2 DEF TypeOK
<1> QED BY <1>1, <1>2 DEF Send

(* A new payload is never refused, and then nobody else is in progress.    *)
LEMMA NewPayload ==
    ASSUME TypeOK, answered <= sent.ts, InTurn',
           NEW p \in Proc, NEW r \in Payload, Receive(p, r),
           sent.ts < r.ts, r.ts = now
    PROVE  /\ \A q \in Proc : pc'[q] # "idle" => q = p
           /\ pc'[p] = "started" /\ job'[p] = r /\ sent' = r
<1>1. answered \in Nat /\ sent.ts \in Nat /\ r.ts \in Nat /\ p \in Actor
  BY SentTypes, PayloadIsJob, TimeIsNat, Actors
<1>2. Accepts(r.ts)
  BY <1>1, TimeAssumption DEF Accepts
<1>3. pc'[p] = "started" /\ job'[p] = r /\ sent' = r
  BY <1>1, <1>2 DEF Receive, TypeOK
<1> QED BY <1>3 DEF InTurn

(* SentInv is kept while requests are in turn.                             *)
LEMMA SentStep ==
    ASSUME BaseInv, SentInv, InTurn', [Next]_vars
    PROVE  SentInv'
<1> USE DEF BaseInv
<1>1. sent.ts \in Nat /\ answered \in Nat /\ answered <= sent.ts
  BY SentTypes DEF SentInv
<1>2. ASSUME NEW p \in Proc, Send(p)
      PROVE  SentInv'
  <2>1. PICK r \in Payload :
           Receive(p, r) /\ (r = sent \/ (sent.ts < r.ts /\ r.ts = now))
    BY <1>2, SendCases
  <2>2. sent' = r /\ UNCHANGED answered
    BY <2>1 DEF Receive
  <2>3. CASE r = sent
    <3>1. \A q \in Proc : pc'[q] # "idle" => job'[q] = sent
      BY <2>1, <2>3, Actors DEF Receive, SentInv, TypeOK
    <3> QED BY <1>1, <2>2, <2>3, <3>1 DEF SentInv
  <2>4. CASE sent.ts < r.ts /\ r.ts = now
    <3>1. /\ \A q \in Proc : pc'[q] # "idle" => q = p
          /\ job'[p] = r
      BY <1>1, <2>1, <2>4, NewPayload
    <3>2. r.ts \in Nat
      BY PayloadIsJob, TimeIsNat
    <3> QED BY <1>1, <2>2, <2>4, <3>1, <3>2 DEF SentInv
  <2> QED BY <2>1, <2>3, <2>4
<1>3. ASSUME NEW a \in Actor, StepOf(a), ~ (a \in Proc /\ Send(a))
      PROVE  SentInv'
  <2>1. UNCHANGED sent
    BY <1>3 DEF StepOf, Store, Check, LoadActive, LoadLatest, Decide, Lock,
                Commit, Dispatch, Fail, worldVars
  <2>2. \A q \in Proc : q # a => pc'[q] = pc[q] /\ job'[q] = job[q]
    BY <1>3, OthersSame, Actors DEF Same
  <2>3. a \in Proc => /\ pc[a] # "idle"
                      /\ pc'[a] = "idle" \/ job'[a] = job[a]
    BY <1>3, ActorAssumption
    DEF StepOf, Store, LoadActive, LoadLatest, Decide, Lock, Commit, Dispatch,
        Fail, TypeOK
  <2>4. \/ answered' = answered
        \/ a \in Proc /\ answered' = job[a].ts
    <3>1. CASE Dispatch(a)
      BY <1>3, <3>1 DEF Dispatch, Actor
    <3>2. CASE ~ Dispatch(a)
      BY <1>3, <3>2
      DEF StepOf, Store, Check, LoadActive, LoadLatest, Decide, Lock, Commit,
          Fail, worldVars
    <3> QED BY <3>1, <3>2
  <2>5. answered' <= sent.ts
    BY <1>1, <2>3, <2>4 DEF SentInv
  <2> QED BY <2>1, <2>2, <2>3, <2>5 DEF SentInv
<1>4. CASE Restart
  BY <1>1, <1>4, Actors DEF Restart, SentInv
<1>5. CASE /\ \A a \in Actor : Same(a)
           /\ UNCHANGED <<sent, answered>>
  BY <1>5, Actors DEF Same, SentInv
<1> QED BY <1>2, <1>3, <1>4, <1>5, StepCases

-----------------------------------------------------------------------------
(* Transitions                                                             *)

(* Whether the latest change of a tag that is not after a time matches, in *)
(* a table; and whether it does as of the payload before the last one.     *)
LatestMatches(E, d, s) ==
    \E e \in E : /\ e.def = d /\ e.start <= s /\ Matches(e)
                 /\ ~ \E f \in E : /\ f.def = d /\ f.start <= s
                                   /\ f.start > e.start
MatchedBefore(E, q, d) ==
    Len(q) >= 2 /\ LatestMatches(E, d, q[Len(q) - 1].ts)

LEMMA LagForm ==
    /\ AlarmLagsTransition <=>
          \A d \in Transition : OpenNow(d) <=> MatchedBefore(events, seen[d], d)
    /\ AlarmLagsTransition' <=>
          \A d \in Transition : OpenNow(d)' <=> MatchedBefore(events', seen'[d], d)
BY DEF AlarmLagsTransition, MatchedBefore, LatestMatches, ChangeMatches, Matches

(* Only the changes of the tag count.                                      *)
LEMMA MatchesOfTag ==
    ASSUME NEW E, NEW F, NEW d, \A e : e.def = d => (e \in E <=> e \in F)
    PROVE  /\ \A s : LatestMatches(E, d, s) <=> LatestMatches(F, d, s)
           /\ \A q : MatchedBefore(E, q, d) <=> MatchedBefore(F, q, d)
<1>1. \A s : LatestMatches(E, d, s) <=> LatestMatches(F, d, s)
  BY DEF LatestMatches
<1> QED BY <1>1 DEF MatchedBefore

(* What a request finds in the changes it has read.                        *)
LEMMA MatchesRead ==
    ASSUME TypeOK, NEW T, NEW d \in T, NEW s \in Nat, NEW u \in Nat,
           \A e \in events : e.def = d => e.start <= s /\ e.start <= u
    PROVE  (\E e \in LatestOf(T, s) : e.def = d /\ Matches(e))
              <=> LatestMatches(events, d, u)
<1>1. \A e \in events : e.start \in Nat
  BY TimeIsNat DEF TypeOK, EventRow
<1>2. \A e : e \in LatestOf(T, s) /\ e.def = d <=>
         /\ e \in events /\ e.def = d
         /\ ~ \E f \in events : f.def = d /\ f.start > e.start
  BY <1>1 DEF LatestOf
<1>3. LatestMatches(events, d, u) <=>
         \E e \in events : /\ e.def = d /\ Matches(e)
                           /\ ~ \E f \in events : f.def = d /\ f.start > e.start
  BY DEF LatestMatches
<1> QED BY <1>2, <1>3

(* Steps that leave what is stored alone, and requests what they have      *)
(* recorded and read, keep LagInv.                                         *)
LEMMA LagFrame ==
    ASSUME LagInv, UNCHANGED <<events, sent>>,
           \A d \in Tagged : /\ seen'[d] = seen[d]
                             /\ OpenNow(d)' <=> OpenNow(d),
           \A d \in Transition : lastState'[d] \in {lastState[d], NoState},
           events \subseteq EventRow,
           \A q \in Proc : recorded[q] \subseteq EventRow,
           \A q \in Proc : Stored(q)' =>
              /\ Stored(q) /\ job'[q] = job[q]
              /\ UNCHANGED lastState,
           \A q \in Proc : \/ recorded'[q] = {}
                           \/ /\ recorded'[q] = recorded[q]
                              /\ job'[q] = job[q] /\ Stored(q)',
           LatestInv'
    PROVE  LagInv'
<1>1. \A d \in Transition : d \in Tagged /\ seen'[d] = seen[d]
  BY DEF Tagged
<1>2. \A e \in EventRow : e.def \in Transition
  BY DEF EventRow
<1>3. TimesInv'
  BY <1>1, <1>2 DEF LagInv, TimesInv, LastTs
<1>4. FreshInv'
  <2>1. \A d \in Transition :
           \/ seen'[d] = <<>>
           \/ LastTs(d)' < sent'.ts
           \/ d \in DOMAIN sent'.sig /\ lastState'[d] \in {NoState, sent'.sig[d]}
    BY <1>1 DEF LagInv, FreshInv, LastTs
  <2>2. ASSUME NEW q \in Proc, Stored(q)', NEW d \in Transition \cap DOMAIN job'[q].sig
        PROVE  lastState'[d] = job'[q].sig[d]
    BY <2>2 DEF LagInv, FreshInv
  <2>3. ASSUME NEW q \in Proc, NEW e \in recorded'[q]
        PROVE  /\ Stored(q)'
               /\ e.start = job'[q].ts /\ e.def \in DOMAIN job'[q].sig
               /\ seen'[e.def] = <<>> \/ LastTs(e.def)' < job'[q].ts
    <3>1. recorded'[q] = recorded[q] /\ job'[q] = job[q] /\ Stored(q)'
      BY <2>3
    <3>2. seen'[e.def] = seen[e.def] /\ LastTs(e.def)' = LastTs(e.def)
      BY <1>1, <1>2, <3>1 DEF LastTs
    <3> QED BY <3>1, <3>2 DEF LagInv, FreshInv
  <2> QED BY <2>1, <2>2, <2>3 DEF FreshInv
<1>5. AlarmLagsTransition'
  BY <1>1, LagForm DEF LagInv
<1> QED BY <1>3, <1>4, <1>5 DEF LagInv

(* What a request has read stays the latest while nothing is committed.    *)
LEMMA LatestStep ==
    ASSUME BaseInv, EvalInv, LatestInv, [Next]_vars, UNCHANGED events
    PROVE  LatestInv'
<1> USE DEF BaseInv
<1> SUFFICES ASSUME NEW q \in Proc, Deciding(q)'
             PROVE  latest'[q] = LatestOf(Selected(q) \cap Transition, job[q].ts)'
  BY DEF LatestInv
<1>1. q \in Actor /\ q # Monitor
  BY Actors
<1>2. ASSUME Same(q) \/ Decide(q) \/ Lock(q)
      PROVE  latest'[q] = LatestOf(Selected(q) \cap Transition, job[q].ts)'
  <2>1. Deciding(q) /\ job'[q] = job[q] /\ latest'[q] = latest[q]
    BY <1>2 DEF Same, Decide, Lock, Deciding
  <2> QED BY <2>1 DEF LatestInv, LatestOf, Selected
<1>3. CASE LoadLatest(q)
  <2>1. /\ pc[q] = "loaded" /\ UNCHANGED job
        /\ latest'[q] = LatestOf(todo[q] \cap Transition, job[q].ts)
    BY <1>1, <1>3 DEF LoadLatest, TypeOK
  <2>2. todo[q] = Selected(q)
    BY <2>1 DEF EvalInv, Evaluation
  <2> QED BY <2>1, <2>2 DEF LatestOf, Selected
<1>4. ASSUME \/ Send(q) \/ Store(q) \/ LoadActive(q) \/ Commit(q)
             \/ Dispatch(q) \/ Fail(q) \/ Restart
      PROVE  FALSE
  <2>1. \/ pc'[q] = pc[q] /\ pc[q] = "idle"
        \/ pc'[q] \in {"idle", "started", "stored", "loaded", "committed"}
    <3>1. CASE Send(q)
      BY <1>1, <3>1 DEF Send, Receive, TypeOK
    <3>2. CASE ~ Send(q)
      BY <1>1, <1>4, <3>2
      DEF Store, LoadActive, Commit, Dispatch, Fail, Restart, TypeOK
    <3> QED BY <3>1, <3>2
  <2> QED BY <2>1 DEF Deciding
<1>5. ASSUME NEW a \in Actor, a # q, StepOf(a)
      PROVE  Same(q)
  BY <1>1, <1>5, OthersSame
<1>6. ASSUME StepOf(q)
      PROVE  \/ Send(q) \/ Store(q) \/ LoadActive(q) \/ Commit(q)
             \/ Dispatch(q) \/ Fail(q) \/ LoadLatest(q) \/ Decide(q) \/ Lock(q)
  BY <1>1, <1>6 DEF StepOf
<1>7. \/ \E a \in Actor : StepOf(a)
      \/ Restart
      \/ Same(q)
  BY <1>1, StepCases
<1> QED BY <1>2, <1>3, <1>4, <1>5, <1>6, <1>7

(* The times of what is stored are natural numbers.                        *)
LEMMA LastTsType ==
    ASSUME TypeOK, NEW d \in Transition, seen[d] # <<>>
    PROVE  LastTs(d) \in Nat /\ Len(seen[d]) \in Nat \ {0}
<1> DEFINE R == [ts: Time, sig: Signal]
           q == seen[d]
<1>1. q \in Seq(R)
  BY DEF TypeOK, Def
<1>2. \A x \in R : x.ts \in Nat
  BY TimeIsNat
<1> HIDE DEF R
<1>3. Len(q) \in Nat \ {0} /\ q[Len(q)] \in R
  BY <1>1
<1> QED BY <1>2, <1>3 DEF LastTs

(* LagInv is kept when a payload comes: all that is stored is older than a *)
(* new one.                                                                *)
LEMMA LagSend ==
    ASSUME BaseInv, EvalInv, SentInv, LagInv, InTurn', [Next]_vars,
           NEW p \in Proc, Send(p)
    PROVE  LagInv'
<1> USE DEF BaseInv
<1>1. PICK r \in Payload :
         Receive(p, r) /\ (r = sent \/ (sent.ts < r.ts /\ r.ts = now))
  BY SendCases
<1>2. /\ UNCHANGED <<events, alarms, seen, lastState, recorded>>
      /\ sent' = r /\ pc[p] = "idle" /\ p \in Actor
  BY <1>1, Actors DEF Receive, dbVars, memoryVars
<1>3. /\ events \subseteq EventRow
      /\ \A q \in Proc : recorded[q] \subseteq EventRow
  BY Actors DEF TypeOK
<1>4. \A d \in Tagged : seen'[d] = seen[d] /\ (OpenNow(d)' <=> OpenNow(d))
  BY <1>2 DEF OpenNow, OpenAlarms
<1>5. \A q \in Proc : Stored(q)' => Stored(q) /\ job'[q] = job[q]
  <2>1. \A q \in Proc : q # p => pc'[q] = pc[q] /\ job'[q] = job[q]
    BY <1>1, Actors DEF Receive, TypeOK
  <2>2. pc'[p] \in {"idle", "started"}
    BY <1>1, <1>2 DEF Receive, TypeOK
  <2> QED BY <2>1, <2>2 DEF Stored, Mid
<1>6. LatestInv'
  BY <1>2, LatestStep DEF LagInv
<1>7. CASE r = sent
  <2>1. ASSUME NEW q \in Proc, recorded[q] # {}
        PROVE  job'[q] = job[q] /\ Stored(q)'
    <3>1. Stored(q)
      BY <2>1 DEF LagInv, FreshInv
    <3>2. q # p
      BY <1>2, <3>1 DEF Stored, Mid
    <3>3. pc'[q] = pc[q] /\ job'[q] = job[q]
      BY <1>1, <3>2, Actors DEF Receive, TypeOK
    <3> QED BY <3>1, <3>3 DEF Stored, Mid
  <2> QED BY <1>2, <1>3, <1>4, <1>5, <1>6, <1>7, <2>1, LagFrame
<1>8. CASE sent.ts < r.ts /\ r.ts = now
  <2>1. \A q \in Proc : pc'[q] # "idle" => q = p
    BY <1>1, <1>8, NewPayload DEF SentInv
  <2>2. \A q \in Proc : ~ Stored(q)' /\ recorded[q] = {}
    <3>1. \A q \in Proc : ~ Stored(q)'
      BY <1>2, <1>5, <2>1 DEF Stored, Mid
    <3>2. \A q \in Proc : pc[q] # "idle" => q # p /\ pc'[q] # "idle"
      BY <1>1, <1>2, Actors DEF Receive, TypeOK
    <3>3. \A q \in Proc : ~ Stored(q)
      BY <2>1, <3>2 DEF Stored, Mid
    <3> QED BY <3>1, <3>3 DEF LagInv, FreshInv
  <2>3. sent.ts \in Nat /\ r.ts \in Nat
    BY SentTypes, PayloadIsJob, TimeIsNat
  <2>4. \A d \in Transition : seen[d] # <<>> => LastTs(d) < r.ts
    <3> SUFFICES ASSUME NEW d \in Transition, seen[d] # <<>>
                 PROVE  LastTs(d) < r.ts
      OBVIOUS
    <3>1. LastTs(d) \in Nat /\ LastTs(d) <= sent.ts
      BY LastTsType DEF LagInv, TimesInv
    <3> QED BY <1>8, <2>3, <3>1
  <2>5. TimesInv'
    <3>1. \A d \in Transition : seen'[d] # <<>> => LastTs(d)' <= sent'.ts
      <4> SUFFICES ASSUME NEW d \in Transition, seen[d] # <<>>
                   PROVE  LastTs(d) <= r.ts
        BY <1>2 DEF LastTs
      <4> QED BY <2>3, <2>4, LastTsType
    <3> QED BY <1>2, <3>1 DEF LagInv, TimesInv, LastTs
  <2>6. FreshInv'
    BY <1>2, <2>2, <2>4 DEF FreshInv, LastTs
  <2>7. AlarmLagsTransition'
    BY <1>2 DEF LagInv, AlarmLagsTransition, ChangeMatches, Matches, OpenNow, OpenAlarms
  <2> QED BY <1>6, <2>5, <2>6, <2>7 DEF LagInv
<1> QED BY <1>1, <1>7, <1>8

(* LagInv is kept when the states in memory advance: a tag that changes    *)
(* has no change of this time yet.                                         *)
LEMMA LagStore ==
    ASSUME BaseInv, EvalInv, SentInv, LagInv, InTurn, [Next]_vars,
           NEW p \in Proc, Store(p)
    PROVE  LagInv'
<1> USE DEF BaseInv
<1>1. /\ p \in Actor /\ pc[p] = "started" /\ pc' = [pc EXCEPT ![p] = "stored"]
      /\ recorded' = [recorded EXCEPT ![p] = ChangesOf(job[p])]
      /\ \A d \in Transition :
            lastState'[d] = IF d \in DOMAIN job[p].sig THEN job[p].sig[d]
                            ELSE lastState[d]
      /\ UNCHANGED <<job, events, alarms, seen, sent>>
  BY Actors DEF Store, dbVars, worldVars
<1>2. job[p] = sent
  BY <1>1 DEF SentInv
<1>3. \A q \in Proc : q # p => pc[q] = "idle"
  BY <1>1 DEF InTurn
<1>4. \A q \in Proc : ~ Stored(q)
  BY <1>1, <1>3 DEF Stored, Mid
<1>5. ASSUME NEW q \in Proc, Stored(q)' \/ recorded'[q] # {}
      PROVE  q = p
  <2>1. recorded[q] = {}
    BY <1>4 DEF LagInv, FreshInv
  <2> QED BY <1>1, <1>3, <1>5, <2>1, Actors DEF Stored, Mid, TypeOK
<1>6. TimesInv' /\ AlarmLagsTransition'
  BY <1>1 DEF LagInv, TimesInv, LastTs, AlarmLagsTransition, ChangeMatches,
              Matches, OpenNow, OpenAlarms
<1>7. LatestInv'
  BY <1>1, LatestStep DEF LagInv
<1>8. FreshInv'
  <2>1. ASSUME NEW d \in Transition
        PROVE  \/ seen'[d] = <<>>
               \/ LastTs(d)' < sent'.ts
               \/ d \in DOMAIN sent'.sig /\ lastState'[d] \in {NoState, sent'.sig[d]}
    BY <1>1, <1>2 DEF LagInv, FreshInv, LastTs
  <2>2. ASSUME NEW q \in Proc, Stored(q)', NEW d \in Transition \cap DOMAIN job'[q].sig
        PROVE  lastState'[d] = job'[q].sig[d]
    BY <1>1, <1>5, <2>2
  <2>3. ASSUME NEW q \in Proc, NEW e \in recorded'[q]
        PROVE  /\ Stored(q)'
               /\ e.start = job'[q].ts /\ e.def \in DOMAIN job'[q].sig
               /\ seen'[e.def] = <<>> \/ LastTs(e.def)' < job'[q].ts
    <3>1. q = p /\ e \in ChangesOf(sent)
      BY <1>1, <1>2, <1>5, <2>3 DEF TypeOK
    <3>2. PICK d \in Transition \cap DOMAIN sent.sig :
             /\ lastState[d] \notin {NoState, sent.sig[d]}
             /\ e = [def |-> d, prev |-> lastState[d], state |-> sent.sig[d],
                     start |-> sent.ts]
      BY <3>1 DEF ChangesOf
    <3>3. seen[d] = <<>> \/ LastTs(d) < sent.ts
      BY <3>2 DEF LagInv, FreshInv
    <3>4. Stored(p)'
      BY <1>1 DEF Stored, TypeOK
    <3>5. e.def = d /\ e.start = sent.ts
      BY <3>2
    <3> QED BY <1>1, <1>2, <3>1, <3>2, <3>3, <3>4, <3>5 DEF LastTs
  <2> QED BY <2>1, <2>2, <2>3 DEF FreshInv
<1> QED BY <1>6, <1>7, <1>8 DEF LagInv

(* The commit of a request leaves an alarm active if and only if the       *)
(* latest change before its payload matches.                               *)
LEMMA LagOutcome ==
    ASSUME BaseInv, LockInv, AlarmInv, EvalInv, SentInv, LagInv,
           NEW p \in Proc, Commit(p), NEW d \in Transition
    PROVE  OpenNow(d)' <=> MatchedBefore(events', seen'[d], d)
<1> USE DEF BaseInv
<1>1. /\ d \in Tagged /\ d \notin TagLoss
      /\ events' = events \cup recorded[p]
      /\ pc[p] = "evaluating" /\ job[p] = sent
  <2>1. d \in Tagged /\ d \notin TagLoss
    BY DefAssumption DEF Tagged, Loss
  <2>2. events' = events \cup recorded[p] /\ pc[p] = "evaluating"
    BY DEF Commit
  <2> QED BY <2>1, <2>2 DEF SentInv
<1>2. /\ \A e \in recorded[p] : e.start = sent.ts /\ e.def \in DOMAIN sent.sig
      /\ \A e \in recorded[p] : seen[e.def] = <<>> \/ LastTs(e.def) < sent.ts
  BY <1>1 DEF LagInv, FreshInv
<1>3. CASE d \notin DOMAIN sent.sig
  <2>1. seen'[d] = seen[d] /\ (OpenNow(d)' <=> OpenNow(d))
    BY <1>1, <1>3, Evaluated, CommitStores, CommitOutcome
  <2>2. \A e : e.def = d => (e \in events' <=> e \in events)
    BY <1>1, <1>2, <1>3
  <2>3. MatchedBefore(events', seen[d], d) <=> MatchedBefore(events, seen[d], d)
    BY <2>2, MatchesOfTag
  <2> QED BY <2>1, <2>3, LagForm DEF LagInv
<1>4. CASE d \in DOMAIN sent.sig
  <2> DEFINE T == Selected(p) \cap Transition
             n == Len(seen[d])
             x == [ts |-> sent.ts, sig |-> sent.sig[d]]
  <2>1. seen'[d] = Append(seen[d], x) /\ seen[d] \in Seq([ts: Time, sig: Signal])
    BY <1>1, <1>4, CommitStores
  <2>2. OpenNow(d)' <=> \E e \in latest[p] : e.def = d /\ Matches(e)
    <3>1. OpenNow(d)' <=> ShouldAlarm(p, d)
      BY <1>1, <1>4, Evaluated, CommitOutcome
    <3>2. ShouldAlarm(p, d) <=> \E e \in latest[p] : e.def = d /\ Matches(e)
      BY DefAssumption DEF ShouldAlarm
    <3> QED BY <3>1, <3>2
  <2>3. latest[p] = LatestOf(T, sent.ts) /\ d \in T
    BY <1>1, <1>4, Evaluated DEF LagInv, LatestInv, Deciding
  <2>4. \A e \in events : e.def = d => seen[d] # <<>> /\ e.start <= LastTs(d)
    BY DEF LagInv, TimesInv
  <2>5. sent.ts \in Nat
    BY SentTypes
  <2>6. CASE seen[d] = <<>>
    <3>1. ~ \E e \in latest[p] : e.def = d /\ Matches(e)
      BY <2>3, <2>4, <2>6 DEF LatestOf
    <3>2. Len(seen'[d]) = 1
      BY <2>1, <2>6
    <3> QED BY <2>2, <3>1, <3>2 DEF MatchedBefore
  <2>7. CASE seen[d] # <<>>
    <3> DEFINE u == LastTs(d)
    <3>1. u \in Nat /\ n \in Nat \ {0} /\ u <= sent.ts
      BY <2>7, LastTsType DEF LagInv, TimesInv
    <3>2. ASSUME NEW e \in events, e.def = d
          PROVE  e.start <= sent.ts /\ e.start <= u
      <4>1. e.start <= u /\ e.start \in Nat
        BY <2>4, <3>2, TimeIsNat DEF TypeOK, EventRow
      <4> HIDE DEF u
      <4> QED BY <2>5, <3>1, <4>1
    <3>3. (\E e \in latest[p] : e.def = d /\ Matches(e))
             <=> LatestMatches(events, d, u)
      <4> HIDE DEF T, u
      <4> QED BY <2>3, <2>5, <3>1, <3>2, MatchesRead
    <3>4. LatestMatches(events', d, u) <=> LatestMatches(events, d, u)
      <4>1. \A e \in recorded[p] : e.def = d => ~ (e.start <= u)
        <5> SUFFICES ASSUME NEW e \in recorded[p], e.def = d
                     PROVE  ~ (e.start <= u)
          OBVIOUS
        <5>1. e.start = sent.ts /\ u < sent.ts
          BY <1>2, <2>7
        <5> HIDE DEF u
        <5> QED BY <2>5, <3>1, <5>1
      <4> HIDE DEF u
      <4>2. \A e : e \in events' /\ e.def = d /\ e.start <= u
                     <=> e \in events /\ e.def = d /\ e.start <= u
        BY <1>1, <4>1
      <4> QED BY <4>2 DEF LatestMatches
    <3>5. Len(seen'[d]) = n + 1 /\ seen'[d][n].ts = u
      <4> HIDE DEF x
      <4>1. seen'[d][n] = seen[d][n] /\ Len(seen'[d]) = n + 1
        BY <2>1, <3>1
      <4> QED BY <4>1 DEF LastTs
    <3>6. MatchedBefore(events', seen'[d], d) <=> LatestMatches(events', d, u)
      <4> HIDE DEF n, u
      <4>1. Len(seen'[d]) >= 2 /\ Len(seen'[d]) - 1 = n
        BY <3>1, <3>5
      <4> QED BY <3>5, <4>1 DEF MatchedBefore
    <3> QED BY <2>2, <3>3, <3>4, <3>6
  <2> QED BY <2>6, <2>7
<1> QED BY <1>3, <1>4

(* LagInv is kept by the commit of a request.                              *)
LEMMA LagCommit ==
    ASSUME BaseInv, LockInv, AlarmInv, EvalInv, SentInv, LagInv, InTurn,
           NEW p \in Proc, Commit(p)
    PROVE  LagInv'
<1> USE DEF BaseInv
<1>1. /\ p \in Actor /\ pc[p] = "evaluating" /\ job[p] = sent
      /\ pc' = [pc EXCEPT ![p] = "committed"]
      /\ recorded' = [recorded EXCEPT ![p] = {}]
      /\ events' = events \cup recorded[p]
      /\ UNCHANGED <<job, lastState, sent>>
  BY Actors DEF Commit, Clear, SentInv, memoryVars, worldVars
<1>2. ASSUME NEW q \in Proc
      PROVE  ~ Stored(q)' /\ recorded'[q] = {}
  <2>1. q # p => pc[q] = "idle"
    BY <1>1 DEF InTurn
  <2>2. ~ Stored(q)'
    BY <1>1, <2>1, Actors DEF Stored, Mid, TypeOK
  <2>3. q # p => recorded[q] = {}
    BY <2>1 DEF LagInv, FreshInv, Stored, Mid
  <2> QED BY <1>1, <2>2, <2>3, Actors DEF TypeOK
<1>3. sent.ts \in Nat
  BY SentTypes
<1>4. ASSUME NEW d \in Transition, d \in DOMAIN sent.sig
      PROVE  seen'[d] # <<>> /\ LastTs(d)' = sent.ts
  <2> DEFINE x == [ts |-> sent.ts, sig |-> sent.sig[d]]
             R == [ts: Time, sig: Signal]
  <2>1. x \in R /\ x.ts = sent.ts
        /\ seen[d] \in Seq(R) /\ seen'[d] = Append(seen[d], x)
    BY <1>1, <1>4, CommitStores DEF Tagged
  <2> HIDE DEF x, R
  <2>2. seen'[d] # <<>> /\ seen'[d][Len(seen'[d])] = x
    BY <2>1
  <2> QED BY <2>1, <2>2 DEF LastTs
<1>5. ASSUME NEW d \in Transition, d \notin DOMAIN sent.sig
      PROVE  seen'[d] = seen[d] /\ LastTs(d)' = LastTs(d)
  BY <1>1, <1>5, CommitStores DEF Tagged, LastTs
<1>6. ASSUME NEW e \in recorded[p]
      PROVE  e.start = sent.ts /\ e.def \in DOMAIN sent.sig /\ e.def \in Transition
  BY <1>1 DEF LagInv, FreshInv, TypeOK, EventRow
<1>7. TimesInv'
  <2>1. \A d \in Transition : seen'[d] # <<>> => LastTs(d)' <= sent'.ts
    BY <1>1, <1>3, <1>4, <1>5 DEF LagInv, TimesInv
  <2>2. ASSUME NEW e \in events'
        PROVE  seen'[e.def] # <<>> /\ e.start <= LastTs(e.def)'
    <3>1. CASE e \in recorded[p]
      BY <1>3, <1>4, <1>6, <3>1
    <3>2. CASE e \in events
      <4>1. /\ e.def \in Transition /\ e.start \in Nat
            /\ seen[e.def] # <<>> /\ e.start <= LastTs(e.def)
        BY <3>2, TimeIsNat DEF LagInv, TimesInv, TypeOK, EventRow
      <4>2. LastTs(e.def) \in Nat /\ LastTs(e.def) <= sent.ts
        BY <4>1, LastTsType DEF LagInv, TimesInv
      <4> QED BY <1>3, <1>4, <1>5, <4>1, <4>2
    <3> QED BY <1>1, <3>1, <3>2
  <2> QED BY <2>1, <2>2 DEF TimesInv
<1>8. FreshInv'
  <2>1. ASSUME NEW d \in Transition
        PROVE  \/ seen'[d] = <<>>
               \/ LastTs(d)' < sent'.ts
               \/ d \in DOMAIN sent'.sig /\ lastState'[d] \in {NoState, sent'.sig[d]}
    <3>1. d \in DOMAIN sent.sig => lastState[d] = sent.sig[d]
      BY <1>1 DEF LagInv, FreshInv, Stored, Mid
    <3> QED BY <1>1, <1>5, <3>1 DEF LagInv, FreshInv
  <2> QED BY <1>2, <2>1 DEF FreshInv
<1>9. LatestInv'
  BY <1>2 DEF LatestInv, Deciding, Stored, Mid
<1>10. AlarmLagsTransition'
  BY LagOutcome, LagForm
<1> QED BY <1>7, <1>8, <1>9, <1>10 DEF LagInv

(* LagInv is kept while requests are in turn.                              *)
LEMMA LagStep ==
    ASSUME BaseInv, LockInv, AlarmInv, EvalInv, SentInv, LagInv,
           InTurn, InTurn', [Next]_vars
    PROVE  LagInv'
<1> USE DEF BaseInv
<1>1. ASSUME NEW p \in Proc, Send(p) \/ Store(p) \/ Commit(p)
      PROVE  LagInv'
  BY <1>1, LagSend, LagStore, LagCommit
<1>2. CASE \A p \in Proc : ~ (Send(p) \/ Store(p) \/ Commit(p))
  <2>1. /\ events \subseteq EventRow
        /\ \A q \in Proc : recorded[q] \subseteq EventRow
    BY Actors DEF TypeOK
  <2>2. \A d \in Tagged : seen'[d] = seen[d] /\ (OpenNow(d)' <=> OpenNow(d))
    BY <1>2, TaggedKept DEF EvalInv
  <2>3. CASE Restart
    <3>1. /\ UNCHANGED <<events, sent>>
          /\ \A d \in Transition : lastState'[d] = NoState
          /\ \A q \in Proc : pc'[q] = "idle" /\ recorded'[q] = {}
      BY <2>3, Actors DEF Restart, Nobody
    <3>2. \A q \in Proc : ~ Stored(q)'
      BY <3>1 DEF Stored, Mid
    <3>3. LatestInv'
      BY <3>1, LatestStep DEF LagInv
    <3> QED BY <2>1, <2>2, <3>1, <3>2, <3>3, LagFrame
  <2>4. ASSUME UNCHANGED <<events, sent, lastState>>,
               \A q \in Proc : \/ Same(q)
                               \/ ~ Stored(q)' /\ recorded'[q] = {}
                               \/ /\ Stored(q)' <=> Stored(q)
                                  /\ recorded'[q] = recorded[q]
                                  /\ job'[q] = job[q]
        PROVE  LagInv'
    <3>1. \A q \in Proc : Same(q) => /\ Stored(q)' <=> Stored(q)
                                     /\ recorded'[q] = recorded[q]
                                     /\ job'[q] = job[q]
      BY DEF Same, Stored, Mid
    <3>2. \A q \in Proc : recorded[q] # {} => Stored(q)
      BY DEF LagInv, FreshInv
    <3>3. \A q \in Proc : Stored(q)' => Stored(q) /\ job'[q] = job[q]
      BY <2>4, <3>1
    <3>4. \A q \in Proc : \/ recorded'[q] = {}
                          \/ /\ recorded'[q] = recorded[q]
                             /\ job'[q] = job[q] /\ Stored(q)'
      BY <2>4, <3>1, <3>2
    <3>5. LatestInv'
      BY <2>4, LatestStep DEF LagInv
    <3> QED BY <2>1, <2>2, <2>4, <3>3, <3>4, <3>5, LagFrame
  <2>5. ASSUME NEW a \in Actor, StepOf(a)
        PROVE  LagInv'
    <3>1. UNCHANGED <<events, sent, lastState>>
      <4>1. CASE Commit(a)
        <5>1. a = Monitor
          BY <1>2, <4>1 DEF Actor
        <5> QED BY <4>1, <5>1 DEF Commit, EvalInv, MonitorInv, memoryVars, worldVars
      <4>2. CASE ~ Commit(a)
        BY <1>2, <2>5, <4>2
        DEF StepOf, Check, LoadActive, LoadLatest, Decide, Lock, Dispatch, Fail,
            dbVars, memoryVars, worldVars
      <4> QED BY <4>1, <4>2
    <3>2. \A q \in Proc : q # a => Same(q)
      BY <2>5, OthersSame, Actors
    <3>3. ASSUME a \in Proc
          PROVE  \/ ~ Stored(a)' /\ recorded'[a] = {}
                 \/ /\ Stored(a)' <=> Stored(a)
                    /\ recorded'[a] = recorded[a]
                    /\ job'[a] = job[a]
      <4>1. a # Monitor /\ ~ Send(a) /\ ~ Store(a) /\ ~ Commit(a)
        BY <1>2, <3>3, Actors
      <4>2. CASE LoadActive(a) \/ LoadLatest(a) \/ Lock(a)
        BY <4>2 DEF LoadActive, LoadLatest, Lock, Stored, Mid, TypeOK
      <4>3. CASE Decide(a)
        <5>1. /\ pc[a] = "evaluating"
              /\ pc' = pc \/ pc' = [pc EXCEPT ![a] = "locking"]
              /\ UNCHANGED <<recorded, job>>
          BY <4>3 DEF Decide
        <5> QED BY <5>1 DEF Stored, Mid, TypeOK
      <4>4. CASE Dispatch(a)
        <5>1. ~ Stored(a) /\ ~ Stored(a)' /\ UNCHANGED recorded
          BY <4>4 DEF Dispatch, Stored, Mid, TypeOK
        <5>2. recorded[a] = {}
          BY <3>3, <5>1 DEF LagInv, FreshInv
        <5> QED BY <5>1, <5>2
      <4>5. CASE Fail(a)
        BY <4>5 DEF Fail, Clear, Stored, Mid, TypeOK
      <4> QED BY <2>5, <4>1, <4>2, <4>3, <4>4, <4>5 DEF StepOf
    <3> QED BY <2>4, <3>1, <3>2, <3>3
  <2>6. CASE /\ \A a \in Actor : Same(a)
             /\ UNCHANGED <<events, lastState, sent>>
    BY <2>4, <2>6, Actors
  <2> QED BY <2>3, <2>5, <2>6, StepCases
<1> QED BY <1>1, <1>2

(* One request at a time: an alarm of a transition is active if and only   *)
(* if the latest change before the last payload with its tag is the one it *)
(* waits for.                                                              *)
THEOREM TransitionsLagInTurn == Spec /\ []InTurn => []AlarmLagsTransition
<1>1. Init => EvalInv /\ SentInv /\ LagInv
  <2> SUFFICES ASSUME Init
               PROVE  EvalInv /\ SentInv /\ LagInv
    OBVIOUS
  <2>1. SentInv
    BY Actors DEF Init, SentInv, NoJob
  <2>2. \A d \in Transition : d \in Def /\ seen[d] = <<>>
    BY DEF Init, Def
  <2>3. TimesInv /\ FreshInv /\ LatestInv
    BY <2>2, Actors DEF Init, TimesInv, FreshInv, LatestInv, Stored, Mid,
                        Deciding, Nobody
  <2>4. AlarmLagsTransition
    BY <2>2 DEF Init, AlarmLagsTransition, OpenNow, OpenAlarms
  <2> QED BY <2>1, <2>3, <2>4, EvalInit DEF LagInv
<1>2. IInv /\ InTurn /\ InTurn' /\ EvalInv /\ SentInv /\ LagInv /\ [Next]_vars
         => EvalInv' /\ SentInv' /\ LagInv'
  BY EvalStep, SentStep, LagStep DEF IInv
<1>3. LagInv => AlarmLagsTransition
  BY DEF LagInv
<1> QED BY <1>1, <1>2, <1>3, Invariance, PTL DEF Spec

-----------------------------------------------------------------------------
(* Communication loss of a tag                                             *)

(* Steps that leave what was seen alone, of a request that does not begin  *)
(* to decide or end that, keep TagInv.                                     *)
LEMMA TagFrame ==
    ASSUME TagInv, Undisturbed' => Undisturbed,
           \A d \in TagLoss : seen'[d] = seen[d] /\ lastSeen'[d] = lastSeen[d],
           \A q \in Proc : Deciding(q) => Deciding(q)' /\ job'[q] = job[q],
           \A q \in Proc : Deciding(q)' => Same(q)
    PROVE  TagInv'
<1> SUFFICES ASSUME Undisturbed, Undisturbed'
             PROVE  TagInv'
  BY DEF TagInv
<1>1. ASSUME NEW d \in TagLoss, seen'[d] # <<>>
      PROVE  LastHeard(d)'
  <2>1. LastHeard(d) /\ LastTs(d)' = LastTs(d)
    BY <1>1 DEF TagInv, LastTs
  <2> QED BY <2>1 DEF LastHeard
<1>2. ASSUME NEW q \in Proc, Deciding(q)', NEW d \in TagLoss \cap DOMAIN job'[q].sig
      PROVE  Noted(q, d)'
  <2>1. Same(q) /\ Deciding(q) /\ NextDef(q)' = NextDef(q)
    BY <1>2 DEF Same, Deciding, NextDef
  <2>2. Noted(q, d)
    BY <1>2, <2>1 DEF TagInv, Same
  <2> QED BY <2>1, <2>2 DEF Noted, Same
<1> QED BY <1>1, <1>2 DEF TagInv

(* A request that begins to decide has not evaluated a definition.         *)
LEMMA TagLoad ==
    ASSUME BaseInv, EvalInv, TagInv, InTurn, NEW p \in Proc, LoadLatest(p)
    PROVE  TagInv'
<1>1. /\ p \in Actor /\ pc[p] = "loaded" /\ pc' = [pc EXCEPT ![p] = "evaluating"]
      /\ UNCHANGED <<job, todo, lastSeen, seen, faults, crashes>>
  BY Actors DEF LoadLatest, memoryVars, dbVars, worldVars
<1> SUFFICES ASSUME Undisturbed
             PROVE  TagInv'
  BY <1>1 DEF TagInv, Undisturbed
<1>2. \A q \in Proc : q # p => pc[q] = "idle"
  BY <1>1 DEF InTurn
<1>3. \A q \in Proc : Deciding(q)' => q = p
  BY <1>1, <1>2, Actors DEF Deciding, BaseInv, TypeOK
<1>4. ASSUME NEW d \in TagLoss, seen'[d] # <<>>
      PROVE  LastHeard(d)'
  <2>1. LastHeard(d) /\ ~ \E q \in Proc : Deciding(q)
    BY <1>1, <1>2, <1>4 DEF TagInv, Deciding
  <2> QED BY <1>1, <2>1 DEF LastHeard, LastTs
<1>5. \A d \in TagLoss \cap DOMAIN job[p].sig : Noted(p, d)'
  <2>1. todo[p] = Selected(p) /\ pc'[p] = "evaluating"
    BY <1>1 DEF EvalInv, Evaluation, BaseInv, TypeOK
  <2> QED BY <1>1, <2>1, Actors DEF Noted, Selected
<1> QED BY <1>1, <1>3, <1>4, <1>5 DEF TagInv

(* A request that evaluates a definition notes that its tag was seen.      *)
LEMMA TagDecide ==
    ASSUME BaseInv, TagInv, InTurn, NEW p \in Proc, Decide(p)
    PROVE  TagInv'
<1> USE DEF BaseInv
<1>1. PICK c \in NextDef(p) :
         /\ lastSeen' = IF c \in Loss /\ (Heard(p, c) \/ lastSeen[c] = 0)
                        THEN [lastSeen EXCEPT ![c] = job[p].ts]
                        ELSE lastSeen
         /\ \/ todo' = [todo EXCEPT ![p] = @ \ {c}] /\ UNCHANGED pc
            \/ pc' = [pc EXCEPT ![p] = "locking"] /\ UNCHANGED todo
  BY DEF Decide
<1>2. /\ p \in Actor /\ pc[p] = "evaluating" /\ Deciding(p)
      /\ UNCHANGED <<job, seen, faults, crashes>>
  BY Actors DEF Decide, dbVars, worldVars, Deciding
<1> SUFFICES ASSUME Undisturbed
             PROVE  TagInv'
  BY <1>2 DEF TagInv, Undisturbed
<1>3. \A q \in Proc : q # p => pc[q] = "idle"
  BY <1>2 DEF InTurn
<1>4. \A q \in Proc : Deciding(q)' <=> q = p
  BY <1>1, <1>2, <1>3, Actors DEF Deciding, TypeOK
<1>5. \A d \in TagLoss : d # c => lastSeen'[d] = lastSeen[d]
  BY <1>1 DEF TypeOK, Loss
<1>6. ASSUME NEW d \in TagLoss, seen'[d] # <<>>
      PROVE  LastHeard(d)'
  <2>1. CASE d \in DOMAIN job[p].sig
    BY <1>2, <1>4, <2>1 DEF LastHeard
  <2>2. CASE d \notin DOMAIN job[p].sig
    <3>1. lastSeen[d] = LastTs(d)
      BY <1>2, <1>3, <1>6, <2>2 DEF TagInv, LastHeard, Deciding
    <3>2. LastTs(d) # 0
      <4> DEFINE R == [ts: Time, sig: Signal]
      <4>1. seen[d] \in Seq(R) /\ seen[d] # <<>>
        BY <1>2, <1>6 DEF TypeOK, Def
      <4>2. \A x \in R : x.ts # 0
        BY TimeIsNat
      <4> HIDE DEF R
      <4>3. seen[d][Len(seen[d])] \in R
        BY <4>1
      <4> QED BY <4>2, <4>3 DEF LastTs
    <3>3. ~ Heard(p, d)
      BY <2>2 DEF Heard
    <3>4. lastSeen'[d] = lastSeen[d]
      BY <1>1, <1>5, <3>1, <3>2, <3>3
    <3> QED BY <1>2, <3>1, <3>4 DEF LastHeard, LastTs
  <2> QED BY <2>1, <2>2
<1>7. ASSUME NEW d \in TagLoss \cap DOMAIN job[p].sig
      PROVE  Noted(p, d)'
  <2>1. CASE d = c
    <3>1. lastSeen'[d] = job[p].ts
      BY <1>1, <2>1 DEF Heard, Loss, TypeOK
    <3> QED BY <1>2, <3>1 DEF Noted
  <2>2. CASE d # c
    <3>1. Noted(p, d) /\ lastSeen'[d] = lastSeen[d]
      BY <1>2, <1>5, <2>2 DEF TagInv
    <3>2. d \notin todo'[p] => d \notin todo[p]
      BY <1>1, <1>2, <2>2 DEF TypeOK
    <3>3. ~ (pc'[p] = "locking" /\ d \in NextDef(p)')
      <4> SUFFICES ASSUME pc'[p] = "locking", d \in NextDef(p)'
                   PROVE  FALSE
        OBVIOUS
      <4>1. UNCHANGED todo
        BY <1>1, <1>2
      <4>2. d \in NextDef(p)
        BY <4>1 DEF NextDef
      <4> QED BY <1>1, <1>2, <2>2, <4>2, NextDefUnique
    <3> QED BY <1>2, <3>1, <3>2, <3>3 DEF Noted
  <2> QED BY <2>1, <2>2
<1> QED BY <1>2, <1>4, <1>6, <1>7 DEF TagInv

(* A definition that was waited for is noted.                              *)
LEMMA TagLock ==
    ASSUME BaseInv, TagInv, InTurn, NEW p \in Proc, Lock(p)
    PROVE  TagInv'
<1> USE DEF BaseInv
<1>1. PICK c \in NextDef(p) : todo' = [todo EXCEPT ![p] = @ \ {c}]
  BY DEF Lock
<1>2. /\ p \in Actor /\ pc[p] = "locking" /\ Deciding(p)
      /\ pc' = [pc EXCEPT ![p] = "evaluating"]
      /\ UNCHANGED <<job, lastSeen, seen, faults, crashes>>
  BY Actors DEF Lock, memoryVars, worldVars, Deciding
<1> SUFFICES ASSUME Undisturbed
             PROVE  TagInv'
  BY <1>2 DEF TagInv, Undisturbed
<1>3. \A q \in Proc : Deciding(q) \/ Deciding(q)' => q = p
  BY <1>2, Actors DEF Deciding, InTurn, TypeOK
<1>4. Deciding(p)' /\ pc'[p] = "evaluating" /\ todo'[p] = todo[p] \ {c}
  BY <1>1, <1>2 DEF Deciding, TypeOK
<1>5. ASSUME NEW d \in TagLoss, seen'[d] # <<>>
      PROVE  LastHeard(d)'
  BY <1>2, <1>3, <1>4, <1>5 DEF TagInv, LastHeard, LastTs
<1>6. ASSUME NEW d \in TagLoss \cap DOMAIN job[p].sig
      PROVE  Noted(p, d)'
  <2>1. Noted(p, d)
    BY <1>2 DEF TagInv
  <2> QED BY <1>1, <1>2, <1>4, <2>1 DEF Noted
<1> QED BY <1>2, <1>3, <1>5, <1>6 DEF TagInv

(* With the commit every tag of the payload is noted.                      *)
LEMMA TagCommit ==
    ASSUME BaseInv, TagInv, InTurn, NEW p \in Proc, Commit(p)
    PROVE  TagInv'
<1> USE DEF BaseInv
<1>1. /\ p \in Actor /\ pc[p] = "evaluating" /\ Deciding(p) /\ todo[p] = {}
      /\ pc' = [pc EXCEPT ![p] = "committed"]
      /\ UNCHANGED <<job, lastSeen, faults, crashes>>
  BY Actors DEF Commit, memoryVars, worldVars, Deciding
<1> SUFFICES ASSUME Undisturbed
             PROVE  TagInv'
  BY <1>1 DEF TagInv, Undisturbed
<1>2. \A q \in Proc : (Deciding(q) => q = p) /\ ~ Deciding(q)'
  BY <1>1, Actors DEF Deciding, InTurn, TypeOK
<1>3. ASSUME NEW d \in TagLoss, seen'[d] # <<>>
      PROVE  lastSeen[d] = LastTs(d)'
  <2>1. CASE d \in DOMAIN job[p].sig
    <3> DEFINE x == [ts |-> job[p].ts, sig |-> job[p].sig[d]]
               R == [ts: Time, sig: Signal]
    <3>1. /\ x \in R /\ x.ts = job[p].ts /\ seen[d] \in Seq(R)
          /\ seen'[d] = Append(seen[d], x)
      BY <2>1, CommitStores DEF Tagged
    <3> HIDE DEF x, R
    <3>2. LastTs(d)' = job[p].ts
      BY <3>1 DEF LastTs
    <3>3. Noted(p, d)
      BY <1>1, <2>1 DEF TagInv
    <3> QED BY <1>1, <3>2, <3>3 DEF Noted
  <2>2. CASE d \notin DOMAIN job[p].sig
    <3>1. seen'[d] = seen[d]
      BY <2>2, CommitStores DEF Tagged
    <3> QED BY <1>2, <1>3, <2>2, <3>1 DEF TagInv, LastHeard, LastTs
  <2> QED BY <2>1, <2>2
<1> QED BY <1>1, <1>2, <1>3 DEF TagInv, LastHeard

(* TagInv is kept while requests are in turn.                              *)
LEMMA TagStep ==
    ASSUME BaseInv, EvalInv, TagInv, InTurn, [Next]_vars
    PROVE  TagInv'
<1> USE DEF BaseInv
<1>1. ASSUME NEW p \in Proc, LoadLatest(p) \/ Decide(p) \/ Lock(p) \/ Commit(p)
      PROVE  TagInv'
  BY <1>1, TagLoad, TagDecide, TagLock, TagCommit
<1>2. CASE Restart \/ \E a \in Actor : Fail(a)
  <2>1. ~ Undisturbed'
    BY <1>2 DEF Restart, Fail, Undisturbed, TypeOK
  <2> QED BY <2>1 DEF TagInv
<1>3. CASE /\ ~ Restart /\ \A a \in Actor : ~ Fail(a)
           /\ \A p \in Proc : ~ (LoadLatest(p) \/ Decide(p) \/ Lock(p) \/ Commit(p))
  <2>1. UNCHANGED <<faults, crashes>>
    BY <1>3, StepCases
    DEF StepOf, Send, Receive, Store, Check, LoadActive, LoadLatest, Decide,
        Lock, Commit, Dispatch, worldVars
  <2>2. \A d \in TagLoss : d \in Tagged
    BY DEF Tagged
  <2>3. \A d \in TagLoss : seen'[d] = seen[d]
    BY <1>3, <2>2, TaggedKept DEF EvalInv
  <2>4. ASSUME NEW a \in Actor, StepOf(a)
        PROVE  /\ \A d \in TagLoss : lastSeen'[d] = lastSeen[d]
               /\ \A q \in Proc : Deciding(q) \/ Deciding(q)' => Same(q)
    <3>1. \A d \in TagLoss : lastSeen'[d] = lastSeen[d]
      BY <1>3, <2>4, SeenKept DEF EvalInv
    <3>2. ASSUME NEW q \in Proc, Deciding(q) \/ Deciding(q)'
          PROVE  Same(q)
      <4>1. CASE a # q
        BY <2>4, <4>1, OthersSame, Actors
      <4>2. CASE a = q
        <5>1. Send(q) \/ Store(q) \/ LoadActive(q) \/ Dispatch(q)
          BY <1>3, <2>4, <4>2, Actors DEF StepOf
        <5>2. CASE Send(q)
          <6>1. pc[q] = "idle" /\ pc'[q] \in {"idle", "started"}
            BY <5>2, Actors DEF Send, Receive, TypeOK
          <6> QED BY <3>2, <6>1 DEF Deciding
        <5>3. CASE Store(q) \/ LoadActive(q) \/ Dispatch(q)
          <6>1. ~ Deciding(q) /\ ~ Deciding(q)'
            BY <5>3, Actors DEF Store, LoadActive, Dispatch, Deciding, TypeOK
          <6> QED BY <3>2, <6>1
        <5> QED BY <5>1, <5>2, <5>3
      <4> QED BY <4>1, <4>2
    <3> QED BY <3>1, <3>2
  <2>5. /\ \A d \in TagLoss : lastSeen'[d] = lastSeen[d]
        /\ \A q \in Proc : Deciding(q) \/ Deciding(q)' => Same(q)
    BY <1>3, <2>4, StepCases, Actors
  <2>6. \A q \in Proc : Deciding(q) => Deciding(q)' /\ job'[q] = job[q]
    BY <2>5 DEF Same, Deciding
  <2>7. Undisturbed' => Undisturbed
    BY <2>1 DEF Undisturbed
  <2> QED BY <2>3, <2>5, <2>6, <2>7, TagFrame
<1> QED BY <1>1, <1>2, <1>3

(* What the commit of a request leaves active of a tag.                    *)
LEMMA TagOutcome ==
    ASSUME BaseInv, LockInv, AlarmInv, EvalInv, TagInv, InTurn, Undisturbed,
           NEW p \in Proc, Commit(p), NEW d \in TagLoss, seen[d] # <<>>
    PROVE  OpenNow(d)' <=>
              /\ d \notin DOMAIN job[p].sig
              /\ job[p].ts > seen[d][Len(seen[d])].ts + TagTimeout
<1> USE DEF BaseInv
<1>1. d \in Tagged /\ d \notin Threshold /\ d \notin Transition
  BY DefAssumption DEF Tagged, Loss
<1>2. OpenNow(d)' <=> ShouldAlarm(p, d)
  BY <1>1, Evaluated, CommitOutcome
<1>3. ShouldAlarm(p, d) <=> /\ d \notin DOMAIN job[p].sig
                            /\ lastSeen[d] # 0
                            /\ job[p].ts > lastSeen[d] + TagTimeout
  BY <1>1 DEF ShouldAlarm, Heard, Timeout
<1>4. ASSUME d \notin DOMAIN job[p].sig
      PROVE  lastSeen[d] = LastTs(d)
  <2>1. \A q \in Proc : Deciding(q) => q = p
    BY DEF Commit, Deciding, InTurn
  <2> QED BY <1>4, <2>1 DEF TagInv, LastHeard
<1>5. LastTs(d) # 0
  <2> DEFINE R == [ts: Time, sig: Signal]
  <2>1. seen[d] \in Seq(R)
    BY DEF TypeOK, Def
  <2>2. \A x \in R : x.ts # 0
    BY TimeIsNat
  <2> HIDE DEF R
  <2>3. seen[d][Len(seen[d])] \in R
    BY <2>1
  <2> QED BY <2>2, <2>3 DEF LastTs
<1> QED BY <1>2, <1>3, <1>4, <1>5 DEF LastTs

(* One request at a time: as long as nothing has failed, a payload without *)
(* a tag that was heard before leaves the alarm of the tag active if and   *)
(* only if the timeout has passed since, and one with the tag never does.  *)
THEOREM TagInTurn == Spec /\ []InTurn => AlarmFollowsTag
<1>1. Init => EvalInv /\ TagInv
  <2> SUFFICES ASSUME Init
               PROVE  EvalInv /\ TagInv
    OBVIOUS
  <2>1. \A d \in TagLoss : seen[d] = <<>>
    BY DEF Init, Def
  <2>2. \A p \in Proc : ~ Deciding(p)
    BY Actors DEF Init, Deciding
  <2> QED BY <2>1, <2>2, EvalInit DEF TagInv
<1>2. IInv /\ InTurn /\ EvalInv /\ TagInv /\ [Next]_vars => EvalInv' /\ TagInv'
  BY EvalStep, TagStep DEF IInv
<1>3. IInv /\ InTurn /\ EvalInv /\ TagInv /\ [Next]_vars
         => [\A p \in Proc, d \in TagLoss :
                /\ pc[p] = "evaluating" /\ pc'[p] = "committed"
                /\ Undisturbed /\ seen[d] # <<>>
                => (OpenNow(d)' <=>
                       /\ d \notin DOMAIN job[p].sig
                       /\ job[p].ts > seen[d][Len(seen[d])].ts + TagTimeout)]_vars
  <2> SUFFICES ASSUME IInv, InTurn, EvalInv, TagInv, [Next]_vars,
                      NEW p \in Proc, NEW d \in TagLoss,
                      pc[p] = "evaluating", pc'[p] = "committed",
                      Undisturbed, seen[d] # <<>>
               PROVE  OpenNow(d)' <=>
                         /\ d \notin DOMAIN job[p].sig
                         /\ job[p].ts > seen[d][Len(seen[d])].ts + TagTimeout
    OBVIOUS
  <2>1. BaseInv /\ TypeOK /\ LockInv /\ AlarmInv /\ p \in Actor /\ p # Monitor
    BY Actors DEF IInv, BaseInv
  <2>2. Commit(p)
    <3>1. StepOf(p)
      <4>1. ~ Same(p) /\ ~ Restart
        BY <2>1 DEF Same, Restart
      <4> QED BY <2>1, <4>1, StepCases, OthersSame
    <3>2. ~ Decide(p)
      BY <2>1 DEF Decide, TypeOK
    <3> QED BY <2>1, <3>1, <3>2
            DEF StepOf, Send, Receive, Store, LoadActive, LoadLatest, Lock,
                Dispatch, Fail, TypeOK
  <2> QED BY <2>1, <2>2, TagOutcome
<1> QED BY <1>1, <1>2, <1>3, Invariance, PTL DEF Spec, AlarmFollowsTag
=============================================================================
