------------------------- MODULE AlarmEngineProofs -------------------------
EXTENDS AlarmEngine, FiniteSetTheorems, TLAPS

(***************************************************************************)
(* Proofs about AlarmEngine: what holds for any number of requests and the *)
(* monitor, however they interleave, fail and restart.                     *)
(***************************************************************************)

(* An actor that is busy has the time of its payload or its clock.         *)
BusyInv == \A a \in Actor : pc[a] # "idle" => job[a].ts \in Time

(* What an actor will open or close it has locked, and it is still to do.  *)
LockInv ==
    \A a \in Actor : /\ opening[a] \cap closing[a] = {}
                     /\ \A d \in opening[a] : lock[d] = a /\ ~ OpenNow(d)
                     /\ \A d \in closing[a] : lock[d] = a /\ OpenNow(d)

(* Only the last alarm of a definition can be active.                      *)
LastOnly(d) ==
    \A i \in 1 .. Len(alarms[d]) :
        alarms[d][i].closed = 0 => i = Len(alarms[d])
AlarmInv == \A d \in Def : LastOnly(d)

(* A job is of an alarm that is stored, is in one place, and its mail has  *)
(* not been sent.                                                          *)
Exists(e) == e[2] <= Len(alarms[e[1]])
Unsent(e) == e[2] \notin LifeCycle!Mailed(e[1])
MailInv ==
    /\ \A a \in Actor : \A e \in jobs[a] :
          /\ Exists(e) /\ Unsent(e) /\ e \notin outbox
          /\ \A b \in Actor : b # a => e \notin jobs[b]
    /\ \A e \in outbox : Exists(e) /\ Unsent(e)
    /\ \A d \in Def : \A i \in LifeCycle!Mailed(d) : i <= Len(alarms[d])

-----------------------------------------------------------------------------
(* Facts about the helpers                                                 *)

(* Times are positive.                                                     *)
LEMMA TimeIsNat == Time \subseteq Nat /\ 0 \notin Time /\ 1 \in Time
BY TimeAssumption DEF Time

(* The parts of a payload.                                                 *)
LEMMA JobFields ==
    ASSUME NEW r \in Job
    PROVE  /\ r.ts \in {0} \cup Time
           /\ DOMAIN r.sig \in SUBSET Tagged
           /\ \A d \in DOMAIN r.sig : r.sig[d] \in SignalOf(d)
<1>1. PICK T \in SUBSET Tagged : r.sig \in Signals(T)
  BY DEF Job
<1> QED BY <1>1 DEF Job, Signals

(* A payload is something an actor can have in hand; so is nothing.        *)
LEMMA PayloadIsJob ==
    /\ \A r \in Payload : r \in Job /\ r.ts \in Time
    /\ NoJob \in Job
    /\ \A s \in Time : [NoJob EXCEPT !.ts = s] \in Job
<1>1. ASSUME NEW r \in Payload
      PROVE  r \in Job /\ r.ts \in Time
  <2>1. PICK T \in SUBSET Tagged : r \in [ts: Time, sig: Signals(T)]
    BY GroupAssumption DEF Payload
  <2> QED BY <2>1 DEF Job
<1>2. [d \in {} |-> "present"] \in Signals({})
  BY DEF Signals
<1>3. {} \in SUBSET Tagged
  OBVIOUS
<1> QED BY <1>1, <1>2, <1>3 DEF Job, NoJob

(* The signals of a definition.                                            *)
LEMMA SignalTypes ==
    /\ \A d \in Def : SignalOf(d) \subseteq Signal
    /\ \A d \in Transition : d \in Def /\ SignalOf(d) = State
BY DefAssumption DEF SignalOf, Signal, Def

(* The changes of a payload are events.                                    *)
LEMMA ChangesType ==
    ASSUME TypeOK, NEW r \in Job, r.ts \in Time
    PROVE  ChangesOf(r) \subseteq EventRow
<1>1. ASSUME NEW d \in Transition \cap DOMAIN r.sig,
             lastState[d] \notin {NoState, r.sig[d]}
      PROVE  [def |-> d, prev |-> lastState[d], state |-> r.sig[d],
              start |-> r.ts] \in EventRow
  <2>1. r.sig[d] \in State
    BY JobFields, SignalTypes
  <2>2. lastState[d] \in State
    BY <1>1 DEF TypeOK
  <2> QED BY <2>1, <2>2 DEF EventRow
<1> QED BY <1>1 DEF ChangesOf

(* Closing the open alarm of a definition closes the last one.             *)
LEMMA ClosedIsLast ==
    ASSUME NEW d \in Def, alarms[d] \in Seq(AlarmRow), LastOnly(d),
           OpenNow(d), NEW s \in Time
    PROVE  /\ alarms[d] # <<>>
           /\ alarms[d][Len(alarms[d])].closed = 0
           /\ Closed(alarms[d], s) =
                  [alarms[d] EXCEPT ![Len(alarms[d])].closed = s]
<1> DEFINE n == Len(alarms[d])
<1>1. PICK i \in 1 .. n : alarms[d][i].closed = 0
  BY DEF OpenNow, OpenAlarms
<1>2. i = n /\ n \in 1 .. n
  BY <1>1 DEF LastOnly
<1>3. \A j \in 1 .. n : alarms[d][j].closed = 0 <=> j = n
  BY <1>1, <1>2 DEF LastOnly
<1>4. alarms[d] = [j \in 1 .. n |-> alarms[d][j]]
  OBVIOUS
<1> QED BY <1>1, <1>2, <1>3, <1>4 DEF Closed

(* Whether a definition has an active alarm shows in its last one.         *)
LEMMA OpenIsLast ==
    ASSUME NEW d \in Def, alarms[d] \in Seq(AlarmRow), LastOnly(d)
    PROVE  OpenNow(d) <=> LifeCycle!OpenNow(d)
<1>1. OpenNow(d) => LifeCycle!OpenNow(d)
  BY DEF OpenNow, OpenAlarms, LastOnly, LifeCycle!OpenNow
<1>2. LifeCycle!OpenNow(d) => Len(alarms[d]) \in OpenAlarms(d)
  BY DEF OpenAlarms, LifeCycle!OpenNow
<1> QED BY <1>1, <1>2 DEF OpenNow

-----------------------------------------------------------------------------
(* Types                                                                   *)

BaseInv == TypeOK /\ BusyInv

LEMMA BaseInit == Init => BaseInv
<1> SUFFICES ASSUME Init
             PROVE  BaseInv
  OBVIOUS
<1>1. NoJob \in Job
  BY PayloadIsJob
<1> QED BY <1>1, TimeIsNat, BoundAssumption
        DEF Init, BaseInv, TypeOK, BusyInv, Nobody, Pc

(* Ending a transaction keeps types.                                       *)
LEMMA UnlockTypes ==
    ASSUME TypeOK, NEW a \in Actor, Unlock(a), Clear(a)
    PROVE  /\ lock' \in [Def -> Actor \cup {NoActor}]
           /\ recorded' \in [Actor -> SUBSET EventRow]
           /\ todo' \in [Actor -> SUBSET Def]
           /\ active' \in [Actor -> SUBSET Def]
           /\ latest' \in [Actor -> SUBSET EventRow]
           /\ opening' \in [Actor -> SUBSET Def]
           /\ closing' \in [Actor -> SUBSET Def]
BY DEF TypeOK, Unlock, Clear

(* What a commit writes has its type.                                      *)
LEMMA CommitTypes ==
    ASSUME BaseInv, NEW a \in Actor, Commit(a)
    PROVE  /\ alarms' \in [Def -> Seq(AlarmRow)]
           /\ jobs' \in [Actor -> SUBSET AlarmId]
           /\ events' \in SUBSET EventRow
           /\ seen' \in [Def -> Seq([ts: Time, sig: Signal])]
<1> DEFINE s == job[a].ts
<1>1. s \in Time /\ job[a] \in Job
  BY DEF BaseInv, TypeOK, BusyInv, Commit
<1>2. ASSUME NEW d \in Def
      PROVE  /\ Append(alarms[d], [opened |-> s, closed |-> 0]) \in Seq(AlarmRow)
             /\ Closed(alarms[d], s) \in Seq(AlarmRow)
             /\ alarms[d] \in Seq(AlarmRow)
             /\ Len(alarms[d]) + 1 \in Nat \ {0}
  <2>1. alarms[d] \in Seq(AlarmRow) /\ Len(alarms[d]) \in Nat
    BY DEF BaseInv, TypeOK
  <2>2. [opened |-> s, closed |-> 0] \in AlarmRow
    BY <1>1 DEF AlarmRow
  <2>3. ASSUME NEW i \in 1 .. Len(alarms[d])
        PROVE  /\ alarms[d][i] \in AlarmRow
               /\ [alarms[d][i] EXCEPT !.closed = s] \in AlarmRow
    <3>1. alarms[d][i] \in AlarmRow
      BY <2>1
    <3> QED BY <1>1, <3>1 DEF AlarmRow
  <2> QED BY <2>1, <2>2, <2>3 DEF Closed
<1>3. alarms' \in [Def -> Seq(AlarmRow)]
  BY <1>2 DEF Commit
<1>4. JobsOf(a) \subseteq AlarmId
  BY <1>2 DEF JobsOf, AlarmId, BaseInv, TypeOK
<1>5. ASSUME NEW d \in Def
      PROVE  seen'[d] \in Seq([ts: Time, sig: Signal])
  <2>1. seen[d] \in Seq([ts: Time, sig: Signal])
    BY DEF BaseInv, TypeOK
  <2>2. \A x \in Signal :
           Append(seen[d], [ts |-> s, sig |-> x]) \in Seq([ts: Time, sig: Signal])
    BY <1>1, <2>1
  <2>3. d \in DOMAIN job[a].sig => job[a].sig[d] \in Signal
    BY <1>1, JobFields, SignalTypes
  <2>4. "present" \in Signal
    BY DEF Signal
  <2> QED BY <2>1, <2>2, <2>3, <2>4 DEF Commit
<1>6. seen' = [d \in Def |-> seen'[d]]
  BY DEF Commit
<1> QED BY <1>3, <1>4, <1>5, <1>6 DEF Commit, BaseInv, TypeOK

(* Lock takes one lock and adds at most to one of the two sets.            *)
LEMMA LockEffect ==
    ASSUME TypeOK, NEW a \in Actor, Lock(a)
    PROVE  \E d \in Def :
              /\ lock[d] = NoActor
              /\ lock' = [lock EXCEPT ![d] = a]
              /\ todo' = [todo EXCEPT ![a] = @ \ {d}]
              /\ \/ opening' = opening /\ closing' = closing
                 \/ /\ opening' = [opening EXCEPT ![a] = @ \cup {d}]
                    /\ closing' = closing /\ ~ OpenNow(d)
                 \/ /\ closing' = [closing EXCEPT ![a] = @ \cup {d}]
                    /\ opening' = opening /\ OpenNow(d)
<1>1. PICK d \in NextDef(a) :
         /\ lock[d] = NoActor
         /\ lock' = [lock EXCEPT ![d] = a]
         /\ todo' = [todo EXCEPT ![a] = @ \ {d}]
         /\ IF d \in active[a]
            THEN /\ closing' = [closing EXCEPT ![a] =
                        IF OpenNow(d) THEN @ \cup {d} ELSE @]
                 /\ UNCHANGED opening
            ELSE /\ opening' = [opening EXCEPT ![a] =
                        IF OpenNow(d) THEN @ ELSE @ \cup {d}]
                 /\ UNCHANGED closing
  BY DEF Lock
<1>2. d \in Def
  BY <1>1 DEF NextDef, TypeOK
<1>3. /\ opening = [opening EXCEPT ![a] = opening[a]]
      /\ closing = [closing EXCEPT ![a] = closing[a]]
  BY DEF TypeOK
<1>4. CASE d \in active[a] /\ OpenNow(d)
  BY <1>1, <1>2, <1>4
<1>5. CASE d \in active[a] /\ ~ OpenNow(d)
  BY <1>1, <1>2, <1>3, <1>5
<1>6. CASE d \notin active[a] /\ OpenNow(d)
  BY <1>1, <1>2, <1>3, <1>6
<1>7. CASE d \notin active[a] /\ ~ OpenNow(d)
  BY <1>1, <1>2, <1>7
<1> QED BY <1>4, <1>5, <1>6, <1>7

LEMMA BaseStep == BaseInv /\ [Next]_vars => BaseInv'
<1> SUFFICES ASSUME BaseInv, [Next]_vars
             PROVE  BaseInv'
  OBVIOUS
<1> USE DEF BaseInv
<1>1. ASSUME NEW p \in Proc, Send(p)
      PROVE  BaseInv'
  <2>1. PICK r \in Payload : Receive(p, r)
    BY <1>1 DEF Send, TypeOK
  <2>2. p \in Actor /\ r \in Job /\ r.ts \in Time
    BY PayloadIsJob DEF Actor
  <2>3. sends' \in 0 .. MaxSends
    BY <2>1, BoundAssumption DEF Receive, TypeOK
  <2>4. CASE Accepts(r.ts)
    <3>1. /\ pc' = [pc EXCEPT ![p] = "started"]
          /\ job' = [job EXCEPT ![p] = r]
      BY <2>1, <2>4 DEF Receive
    <3>2. pc' \in [Actor -> Pc] /\ job' \in [Actor -> Job]
      BY <2>2, <3>1 DEF TypeOK, Pc
    <3>3. BusyInv'
      BY <2>2, <3>1 DEF TypeOK, BusyInv
    <3> QED BY <2>1, <2>3, <3>2, <3>3 DEF Receive, TypeOK, memoryVars, dbVars
  <2>5. CASE ~ Accepts(r.ts)
    BY <2>1, <2>3, <2>5 DEF Receive, TypeOK, BusyInv, memoryVars, dbVars
  <2> QED BY <2>4, <2>5
<1>2. ASSUME NEW p \in Proc, Store(p)
      PROVE  BaseInv'
  <2>1. p \in Actor /\ job[p] \in Job /\ job[p].ts \in Time
    BY <1>2 DEF Store, TypeOK, BusyInv, Actor
  <2>2. ChangesOf(job[p]) \subseteq EventRow
    BY <2>1, ChangesType
  <2>3. lastState' \in [Transition -> State \cup {NoState}]
    BY <1>2, <2>1, JobFields, SignalTypes DEF Store, TypeOK
  <2> QED BY <1>2, <2>1, <2>2, <2>3
          DEF Store, TypeOK, BusyInv, dbVars, worldVars, Pc
<1>3. ASSUME Check
      PROVE  BaseInv'
  <2>1. /\ Monitor \in Actor
        /\ [NoJob EXCEPT !.ts = now] \in Job
        /\ [NoJob EXCEPT !.ts = now].ts \in Time
    BY PayloadIsJob DEF TypeOK, Actor, NoJob
  <2> QED BY <1>3, <2>1 DEF Check, TypeOK, BusyInv, memoryVars, dbVars,
                            worldVars, Pc
<1>4. ASSUME NEW a \in Actor, LoadActive(a)
      PROVE  BaseInv'
  <2>1. Selected(a) \subseteq Def
    BY JobFields DEF TypeOK, Selected, Def, Tagged, Loss
  <2>2. {d \in Selected(a) : OpenNow(d)} \subseteq Def
    BY <2>1
  <2> QED BY <1>4, <2>1, <2>2
          DEF LoadActive, TypeOK, BusyInv, memoryVars, dbVars, worldVars, Pc
<1>5. ASSUME NEW a \in Actor, LoadLatest(a)
      PROVE  BaseInv'
  <2>1. LatestOf(todo[a] \cap Transition, job[a].ts) \subseteq EventRow
    BY DEF TypeOK, LatestOf
  <2> QED BY <1>5, <2>1
          DEF LoadLatest, TypeOK, BusyInv, memoryVars, dbVars, worldVars, Pc
<1>6. ASSUME NEW a \in Actor, Decide(a)
      PROVE  BaseInv'
  <2>1. job[a].ts \in Time
    BY <1>6 DEF Decide, BusyInv
  <2>2. lastSeen' \in [Loss -> {0} \cup Time]
    BY <1>6, <2>1 DEF Decide, TypeOK
  <2>3. PICK d \in NextDef(a) :
           \/ todo' = [todo EXCEPT ![a] = @ \ {d}] /\ pc' = pc
           \/ pc' = [pc EXCEPT ![a] = "locking"] /\ todo' = todo
    BY <1>6 DEF Decide
  <2>4. pc' \in [Actor -> Pc] /\ todo' \in [Actor -> SUBSET Def]
    <3>1. pc \in [Actor -> Pc] /\ todo \in [Actor -> SUBSET Def]
      BY DEF TypeOK
    <3>2. todo[a] \ {d} \in SUBSET Def /\ "locking" \in Pc
      BY <3>1 DEF Pc
    <3> HIDE DEF Pc
    <3> QED BY <2>3, <3>1, <3>2
  <2>5. \A b \in Actor : pc'[b] # "idle" => pc[b] # "idle"
    BY <1>6, <2>3 DEF Decide, TypeOK
  <2> QED BY <1>6, <2>2, <2>4, <2>5
          DEF Decide, TypeOK, BusyInv, dbVars, worldVars
<1>7. ASSUME NEW a \in Actor, Lock(a)
      PROVE  BaseInv'
  <2>1. PICK d \in Def :
           /\ lock' = [lock EXCEPT ![d] = a]
           /\ todo' = [todo EXCEPT ![a] = @ \ {d}]
           /\ \/ opening' = opening
              \/ opening' = [opening EXCEPT ![a] = @ \cup {d}]
           /\ \/ closing' = closing
              \/ closing' = [closing EXCEPT ![a] = @ \cup {d}]
    BY <1>7, LockEffect
  <2>2. /\ opening' \in [Actor -> SUBSET Def]
        /\ closing' \in [Actor -> SUBSET Def]
        /\ todo' \in [Actor -> SUBSET Def]
        /\ lock' \in [Def -> Actor \cup {NoActor}]
    <3>1. ASSUME NEW f \in [Actor -> SUBSET Def]
          PROVE  [f EXCEPT ![a] = @ \cup {d}] \in [Actor -> SUBSET Def]
      OBVIOUS
    <3>2. opening' \in [Actor -> SUBSET Def]
      <4>1. opening \in [Actor -> SUBSET Def]
        BY DEF TypeOK
      <4> QED BY <2>1, <3>1, <4>1
    <3>3. closing' \in [Actor -> SUBSET Def]
      <4>1. closing \in [Actor -> SUBSET Def]
        BY DEF TypeOK
      <4> QED BY <2>1, <3>1, <4>1
    <3>4. /\ todo' \in [Actor -> SUBSET Def]
          /\ lock' \in [Def -> Actor \cup {NoActor}]
      BY <2>1 DEF TypeOK
    <3> QED BY <3>1, <3>2, <3>3, <3>4
  <2>3. pc' \in [Actor -> Pc] /\ pc[a] # "idle"
    BY <1>7 DEF Lock, TypeOK, Pc
  <2> QED BY <1>7, <2>2, <2>3
          DEF Lock, TypeOK, BusyInv, memoryVars, worldVars
<1>8. ASSUME NEW a \in Actor, Commit(a)
      PROVE  BaseInv'
  <2>1. Unlock(a) /\ Clear(a) /\ pc[a] = "evaluating"
    BY <1>8 DEF Commit
  <2> QED BY <1>8, <2>1, CommitTypes, UnlockTypes
          DEF Commit, TypeOK, BusyInv, memoryVars, worldVars, Pc
<1>9. ASSUME NEW a \in Actor, Dispatch(a)
      PROVE  BaseInv'
  <2>1. answered' \in {0} \cup Time
    BY <1>9, JobFields DEF Dispatch, TypeOK
  <2> QED BY <1>9, <2>1, PayloadIsJob
          DEF Dispatch, TypeOK, BusyInv, dbVars, Pc
<1>10. ASSUME NEW a \in Actor, Fail(a)
       PROVE  BaseInv'
  <2>1. Unlock(a) /\ Clear(a)
    BY <1>10 DEF Fail
  <2>2. faults' \in 0 .. MaxFaults
    BY <1>10, BoundAssumption DEF Fail, TypeOK
  <2>3. /\ pc' \in [Actor -> Pc] /\ job' \in [Actor -> Job]
        /\ BusyInv'
    BY <1>10, PayloadIsJob DEF Fail, TypeOK, BusyInv, Pc
  <2> QED BY <1>10, <2>1, <2>2, <2>3, UnlockTypes DEF Fail, TypeOK, memoryVars
<1>11. ASSUME Deliver
       PROVE  BaseInv'
  <2>1. PICK e \in outbox :
           /\ outbox' = outbox \ {e}
           /\ mails' \in {mails, [mails EXCEPT ![e[1]] = Append(@, e[2])]}
    BY <1>11 DEF Deliver
  <2>2. e[1] \in Def /\ e[2] \in Nat \ {0}
    BY <2>1 DEF TypeOK, AlarmId
  <2>3. Append(mails[e[1]], e[2]) \in Seq(Nat \ {0})
    BY <2>2 DEF TypeOK
  <2>4. mails' \in [Def -> Seq(Nat \ {0})]
    BY <2>1, <2>2, <2>3 DEF TypeOK
  <2>5. outbox' \in SUBSET AlarmId
    BY <2>1 DEF TypeOK
  <2> QED BY <1>11, <2>4, <2>5
          DEF Deliver, TypeOK, BusyInv, actorVars, dbVars
<1>12. ASSUME Restart
       PROVE  BaseInv'
  <2>1. crashes' \in 0 .. MaxCrashes
    BY <1>12, BoundAssumption DEF Restart, TypeOK
  <2>2. /\ pc' \in [Actor -> Pc] /\ job' \in [Actor -> Job]
        /\ BusyInv'
    BY <1>12, PayloadIsJob DEF Restart, BusyInv, Pc
  <2> QED BY <1>12, <2>1, <2>2 DEF Restart, TypeOK, Nobody
<1>13. ASSUME Tick
       PROVE  BaseInv'
  <2>1. now' \in Time
    BY <1>13, TimeAssumption DEF Tick, TypeOK, Time
  <2> QED BY <1>13, <2>1
          DEF Tick, TypeOK, BusyInv, actorVars, memoryVars, dbVars
<1>14. ASSUME UNCHANGED vars
       PROVE  BaseInv'
  BY <1>14 DEF TypeOK, BusyInv, vars, actorVars, memoryVars, dbVars, worldVars
<1> QED BY <1>1, <1>2, <1>3, <1>4, <1>5, <1>6, <1>7, <1>8, <1>9, <1>10,
           <1>11, <1>12, <1>13, <1>14 DEF Next

LEMMA BaseInvariance == Spec => []BaseInv
BY BaseInit, BaseStep, PTL DEF Spec

(* Every variable keeps its type.                                          *)
THEOREM TypeCorrect == Spec => []TypeOK
BY BaseInvariance, PTL DEF BaseInv

-----------------------------------------------------------------------------
(* Row locks                                                               *)

(* What a commit does to the alarms of a definition, and whose they are.   *)
LEMMA CommitAlarms ==
    ASSUME BaseInv, LockInv, AlarmInv, NEW a \in Actor, Commit(a),
           NEW d \in Def
    PROVE  /\ job[a].ts \in Time
           /\ alarms[d] \in Seq(AlarmRow)
           /\ \/ /\ d \in opening[a] /\ d \notin closing[a] /\ ~ OpenNow(d)
                 /\ alarms'[d] = Append(alarms[d], [opened |-> job[a].ts,
                                                    closed |-> 0])
              \/ /\ d \in closing[a] /\ d \notin opening[a] /\ OpenNow(d)
                 /\ alarms[d] # <<>>
                 /\ alarms[d][Len(alarms[d])].closed = 0
                 /\ alarms'[d] = [alarms[d] EXCEPT
                                      ![Len(alarms[d])].closed = job[a].ts]
              \/ /\ d \notin opening[a] /\ d \notin closing[a]
                 /\ alarms'[d] = alarms[d]
<1>1. job[a].ts \in Time /\ alarms[d] \in Seq(AlarmRow)
  BY DEF BaseInv, TypeOK, BusyInv, Commit
<1>2. alarms'[d] = CASE d \in opening[a] ->
                            Append(alarms[d], [opened |-> job[a].ts, closed |-> 0])
                     [] d \in closing[a] -> Closed(alarms[d], job[a].ts)
                     [] OTHER            -> alarms[d]
  BY DEF Commit
<1>3. CASE d \in opening[a]
  <2>1. d \notin closing[a] /\ ~ OpenNow(d)
    BY <1>3 DEF LockInv
  <2> QED BY <1>1, <1>2, <1>3, <2>1
<1>4. CASE d \in closing[a]
  <2>1. d \notin opening[a] /\ OpenNow(d) /\ LastOnly(d)
    BY <1>4 DEF LockInv, AlarmInv
  <2>2. alarms'[d] = Closed(alarms[d], job[a].ts)
    BY <1>2, <1>4, <2>1
  <2> QED BY <1>1, <1>4, <2>1, <2>2, ClosedIsLast
<1>5. CASE d \notin opening[a] /\ d \notin closing[a]
  BY <1>1, <1>2, <1>5
<1> QED BY <1>3, <1>4, <1>5

(* The actions that leave locks and alarms alone.                          *)
LEMMA LockFrame ==
    ASSUME LockInv, UNCHANGED <<opening, closing, lock, alarms>>
    PROVE  LockInv'
BY DEF LockInv, OpenNow, OpenAlarms

(* A transaction that ends gives up its locks and nobody else's.           *)
LEMMA UnlockKeeps ==
    ASSUME TypeOK, LockInv, NEW a \in Actor, Unlock(a), Clear(a),
           \A b \in Actor \ {a} : \A d \in opening[b] \cup closing[b] :
               alarms'[d] = alarms[d]
    PROVE  LockInv'
<1> SUFFICES ASSUME NEW b \in Actor
             PROVE  /\ opening'[b] \cap closing'[b] = {}
                    /\ \A d \in opening'[b] : lock'[d] = b /\ ~ OpenNow(d)'
                    /\ \A d \in closing'[b] : lock'[d] = b /\ OpenNow(d)'
  BY DEF LockInv
<1>1. CASE b = a
  <2>1. opening'[a] = {} /\ closing'[a] = {}
    BY DEF Clear, TypeOK
  <2> QED BY <1>1, <2>1
<1>2. CASE b # a
  <2>1. opening'[b] = opening[b] /\ closing'[b] = closing[b]
    BY <1>2 DEF Clear, TypeOK
  <2>2. \A d \in opening[b] \cup closing[b] :
           d \in Def /\ lock[d] = b /\ alarms'[d] = alarms[d]
    BY <1>2 DEF LockInv, TypeOK
  <2>3. \A d \in opening[b] \cup closing[b] : lock'[d] = b
    BY <1>2, <2>2 DEF Unlock
  <2>4. \A d \in opening[b] \cup closing[b] : OpenNow(d)' = OpenNow(d)
    BY <2>2 DEF OpenNow, OpenAlarms
  <2> QED BY <2>1, <2>3, <2>4 DEF LockInv
<1> QED BY <1>1, <1>2

LEMMA LockStep ==
    ASSUME BaseInv, LockInv, AlarmInv, [Next]_vars
    PROVE  LockInv'
<1>1. ASSUME NEW a \in Actor, Lock(a)
      PROVE  LockInv'
  <2>1. PICK d \in Def :
           /\ lock[d] = NoActor
           /\ lock' = [lock EXCEPT ![d] = a]
           /\ \/ opening' = opening /\ closing' = closing
              \/ /\ opening' = [opening EXCEPT ![a] = @ \cup {d}]
                 /\ closing' = closing /\ ~ OpenNow(d)
              \/ /\ closing' = [closing EXCEPT ![a] = @ \cup {d}]
                 /\ opening' = opening /\ OpenNow(d)
    BY <1>1, LockEffect DEF BaseInv
  <2>2. \A e \in Def : OpenNow(e)' = OpenNow(e)
    BY <1>1 DEF Lock, OpenNow, OpenAlarms
  <2>3. \A b \in Actor : d \notin opening[b] /\ d \notin closing[b]
    BY <2>1, ActorAssumption DEF LockInv
  <2>4. /\ lock \in [Def -> Actor \cup {NoActor}]
        /\ opening \in [Actor -> SUBSET Def]
        /\ closing \in [Actor -> SUBSET Def]
    BY DEF BaseInv, TypeOK
  <2>5. lock'[d] = a /\ \A e \in Def \ {d} : lock'[e] = lock[e]
    BY <2>1, <2>4
  <2>6. ASSUME NEW b \in Actor
        PROVE  /\ opening'[b] \cap closing'[b] = {}
               /\ \A e \in opening'[b] : lock'[e] = b /\ ~ OpenNow(e)'
               /\ \A e \in closing'[b] : lock'[e] = b /\ OpenNow(e)'
    <3>1. /\ opening[b] \cap closing[b] = {}
          /\ \A e \in opening[b] : /\ e \in Def /\ lock'[e] = b
                                   /\ ~ OpenNow(e)'
          /\ \A e \in closing[b] : e \in Def /\ lock'[e] = b /\ OpenNow(e)'
      BY <2>2, <2>3, <2>4, <2>5 DEF LockInv
    <3>2. CASE opening'[b] = opening[b] /\ closing'[b] = closing[b]
      BY <3>1, <3>2
    <3>3. CASE /\ b = a /\ ~ OpenNow(d)
               /\ opening'[b] = opening[b] \cup {d} /\ closing'[b] = closing[b]
      BY <2>2, <2>3, <2>5, <3>1, <3>3
    <3>4. CASE /\ b = a /\ OpenNow(d)
               /\ closing'[b] = closing[b] \cup {d} /\ opening'[b] = opening[b]
      BY <2>2, <2>3, <2>5, <3>1, <3>4
    <3> QED BY <2>1, <2>4, <3>2, <3>3, <3>4
  <2> QED BY <2>6 DEF LockInv
<1>2. ASSUME NEW a \in Actor, Commit(a)
      PROVE  LockInv'
  <2>1. ASSUME NEW b \in Actor \ {a}, NEW d \in opening[b] \cup closing[b]
        PROVE  alarms'[d] = alarms[d]
    <3>1. d \in Def /\ lock[d] = b
      BY <2>1 DEF LockInv, BaseInv, TypeOK
    <3>2. d \notin opening[a] /\ d \notin closing[a]
      BY <2>1, <3>1 DEF LockInv
    <3> QED BY <1>2, <3>1, <3>2, CommitAlarms
  <2>2. Unlock(a) /\ Clear(a)
    BY <1>2 DEF Commit
  <2> QED BY <2>1, <2>2, UnlockKeeps DEF BaseInv
<1>3. ASSUME NEW a \in Actor, Fail(a)
      PROVE  LockInv'
  <2>1. Unlock(a) /\ Clear(a) /\ alarms' = alarms
    BY <1>3 DEF Fail
  <2> QED BY <2>1, UnlockKeeps DEF BaseInv
<1>4. ASSUME Restart
      PROVE  LockInv'
  BY <1>4 DEF Restart, Nobody, LockInv
<1>5. ASSUME NEW p \in Proc, Send(p) \/ Store(p)
      PROVE  LockInv'
  BY <1>5, LockFrame DEF Send, Receive, Store, dbVars
<1>6. ASSUME NEW a \in Actor,
             LoadActive(a) \/ LoadLatest(a) \/ Decide(a) \/ Dispatch(a)
      PROVE  LockInv'
  BY <1>6, LockFrame DEF LoadActive, LoadLatest, Decide, Dispatch, dbVars
<1>7. ASSUME Check \/ Deliver \/ Tick \/ UNCHANGED vars
      PROVE  LockInv'
  BY <1>7, LockFrame DEF Check, Deliver, Tick, vars, actorVars, dbVars
<1> QED BY <1>1, <1>2, <1>3, <1>4, <1>5, <1>6, <1>7 DEF Next

-----------------------------------------------------------------------------
(* Alarms                                                                  *)

(* Only Commit changes the alarms.                                         *)
LEMMA AlarmFrame ==
    ASSUME [Next]_vars, \A a \in Actor : ~ Commit(a)
    PROVE  UNCHANGED alarms
<1>1. ASSUME NEW p \in Proc, Send(p) \/ Store(p)
      PROVE  UNCHANGED alarms
  BY <1>1 DEF Send, Receive, Store, dbVars
<1>2. ASSUME NEW a \in Actor,
             \/ LoadActive(a) \/ LoadLatest(a) \/ Decide(a) \/ Lock(a)
             \/ Dispatch(a) \/ Fail(a)
      PROVE  UNCHANGED alarms
  BY <1>2 DEF LoadActive, LoadLatest, Decide, Lock, Dispatch, Fail, dbVars
<1>3. ASSUME Check \/ Deliver \/ Restart \/ Tick \/ UNCHANGED vars
      PROVE  UNCHANGED alarms
  BY <1>3 DEF Check, Deliver, Restart, Tick, vars, dbVars
<1> QED BY <1>1, <1>2, <1>3 DEF Next

LEMMA AlarmStep ==
    ASSUME BaseInv, LockInv, AlarmInv, [Next]_vars
    PROVE  AlarmInv'
<1>1. ASSUME NEW a \in Actor, Commit(a), NEW d \in Def
      PROVE  LastOnly(d)'
  <2>1. /\ alarms[d] \in Seq(AlarmRow) /\ LastOnly(d)
        /\ job[a].ts # 0
    BY <1>1, CommitAlarms, TimeIsNat DEF AlarmInv
  <2>2. CASE /\ ~ OpenNow(d)
             /\ alarms'[d] = Append(alarms[d], [opened |-> job[a].ts,
                                                closed |-> 0])
    <3>1. \A i \in 1 .. Len(alarms[d]) : alarms[d][i].closed # 0
      BY <2>2 DEF OpenNow, OpenAlarms
    <3>2. \A i \in 1 .. Len(alarms'[d]) :
             i # Len(alarms'[d]) => /\ i \in 1 .. Len(alarms[d])
                                    /\ alarms'[d][i] = alarms[d][i]
      BY <2>1, <2>2
    <3> QED BY <3>1, <3>2 DEF LastOnly
  <2>3. CASE /\ alarms[d] # <<>>
             /\ alarms'[d] = [alarms[d] EXCEPT
                                  ![Len(alarms[d])].closed = job[a].ts]
    <3>1. Len(alarms'[d]) = Len(alarms[d])
      BY <2>1, <2>3
    <3>2. \A i \in 1 .. Len(alarms[d]) :
             i # Len(alarms[d]) => alarms'[d][i] = alarms[d][i]
      BY <2>1, <2>3
    <3> QED BY <2>1, <3>1, <3>2 DEF LastOnly
  <2>4. CASE alarms'[d] = alarms[d]
    BY <2>1, <2>4 DEF LastOnly
  <2> QED BY <1>1, <2>2, <2>3, <2>4, CommitAlarms
<1>2. CASE \A a \in Actor : ~ Commit(a)
  <2>1. UNCHANGED alarms
    BY <1>2, AlarmFrame
  <2> QED BY <2>1 DEF AlarmInv, LastOnly
<1> QED BY <1>1, <1>2 DEF AlarmInv

(* Alarms are never deleted.                                               *)
LEMMA AlarmsGrow ==
    ASSUME BaseInv, LockInv, AlarmInv, [Next]_vars, NEW d \in Def
    PROVE  /\ Len(alarms[d]) \in Nat /\ Len(alarms'[d]) \in Nat
           /\ Len(alarms[d]) <= Len(alarms'[d])
<1>1. alarms[d] \in Seq(AlarmRow)
  BY DEF BaseInv, TypeOK
<1>2. ASSUME NEW a \in Actor, Commit(a)
      PROVE  /\ Len(alarms'[d]) \in Nat
             /\ Len(alarms[d]) <= Len(alarms'[d])
  <2>1. CASE alarms'[d] = Append(alarms[d], [opened |-> job[a].ts,
                                             closed |-> 0])
    BY <1>1, <2>1
  <2>2. CASE alarms'[d] = [alarms[d] EXCEPT
                               ![Len(alarms[d])].closed = job[a].ts]
    BY <1>1, <2>2
  <2>3. CASE alarms'[d] = alarms[d]
    BY <1>1, <2>3
  <2> QED BY <1>2, <2>1, <2>2, <2>3, CommitAlarms
<1>3. CASE \A a \in Actor : ~ Commit(a)
  BY <1>1, <1>3, AlarmFrame
<1> QED BY <1>1, <1>2, <1>3

-----------------------------------------------------------------------------
(* Mails                                                                   *)

(* The actions that leave jobs and mails alone, while alarms are added.    *)
LEMMA MailFrame ==
    ASSUME BaseInv, MailInv, UNCHANGED <<jobs, outbox, mails>>,
           \A d \in Def : /\ Len(alarms[d]) \in Nat /\ Len(alarms'[d]) \in Nat
                          /\ Len(alarms[d]) <= Len(alarms'[d])
    PROVE  MailInv'
<1>1. \A a \in Actor : \A e \in jobs[a] : e[1] \in Def /\ e[2] \in Nat
  BY DEF BaseInv, TypeOK, AlarmId
<1>2. \A e \in outbox : e[1] \in Def /\ e[2] \in Nat
  BY DEF BaseInv, TypeOK, AlarmId
<1>3. \A d \in Def : \A i \in LifeCycle!Mailed(d) : i \in Nat
  BY DEF BaseInv, TypeOK, LifeCycle!Mailed
<1>4. ASSUME NEW e, e[1] \in Def, e[2] \in Nat
      PROVE  (Exists(e) => Exists(e)') /\ (Unsent(e) => Unsent(e)')
  BY <1>4 DEF Exists, Unsent, LifeCycle!Mailed
<1>5. \A a \in Actor : \A e \in jobs'[a] :
         /\ Exists(e)' /\ Unsent(e)' /\ e \notin outbox'
         /\ \A b \in Actor : b # a => e \notin jobs'[b]
  BY <1>1, <1>4 DEF MailInv
<1>6. \A e \in outbox' : Exists(e)' /\ Unsent(e)'
  BY <1>2, <1>4 DEF MailInv
<1>7. \A d \in Def : \A i \in LifeCycle!Mailed(d)' : i <= Len(alarms'[d])
  <2> SUFFICES ASSUME NEW d \in Def, NEW i \in LifeCycle!Mailed(d)'
               PROVE  i <= Len(alarms'[d])
    OBVIOUS
  <2>1. i \in LifeCycle!Mailed(d)
    BY DEF LifeCycle!Mailed
  <2>2. i \in Nat /\ i <= Len(alarms[d])
    BY <1>3, <2>1 DEF MailInv
  <2> QED BY <2>2
<1> QED BY <1>5, <1>6, <1>7 DEF MailInv

(* A mail that is sent is added to those sent before.                      *)
LEMMA MailedAppend ==
    ASSUME NEW d \in Def, mails[d] \in Seq(Nat \ {0}), NEW i \in Nat \ {0},
           mails'[d] = Append(mails[d], i)
    PROVE  LifeCycle!Mailed(d)' = LifeCycle!Mailed(d) \cup {i}
<1>1. /\ Len(mails'[d]) = Len(mails[d]) + 1
      /\ \A j \in 1 .. Len(mails[d]) : mails'[d][j] = mails[d][j]
      /\ mails'[d][Len(mails[d]) + 1] = i
      /\ Len(mails[d]) \in Nat
  OBVIOUS
<1> QED BY <1>1 DEF LifeCycle!Mailed

LEMMA MailStep ==
    ASSUME BaseInv, LockInv, AlarmInv, MailInv, [Next]_vars
    PROVE  MailInv'
<1>1. \A d \in Def : /\ Len(alarms[d]) \in Nat /\ Len(alarms'[d]) \in Nat
                     /\ Len(alarms[d]) <= Len(alarms'[d])
  BY AlarmsGrow
<1>2. ASSUME NEW a \in Actor, Commit(a)
      PROVE  MailInv'
  <2>1. /\ jobs \in [Actor -> SUBSET AlarmId]
        /\ jobs' = [jobs EXCEPT ![a] = JobsOf(a)]
        /\ outbox' = outbox /\ mails' = mails
    BY <1>2 DEF Commit, BaseInv, TypeOK, memoryVars, worldVars
  <2>2. ASSUME NEW e \in JobsOf(a)
        PROVE  /\ e[1] \in Def
               /\ e[2] = Len(alarms[e[1]]) + 1
               /\ e[2] <= Len(alarms'[e[1]])
    <3>1. PICK d \in opening[a] : e = <<d, Len(alarms[d]) + 1>>
      BY DEF JobsOf
    <3>2. d \in Def
      BY <3>1 DEF BaseInv, TypeOK
    <3>3. alarms[d] \in Seq(AlarmRow)
      BY <3>2 DEF BaseInv, TypeOK
    <3>4. alarms'[d] = Append(alarms[d], [opened |-> job[a].ts, closed |-> 0])
      BY <1>2, <3>1, <3>2, CommitAlarms
    <3>5. Len(alarms'[d]) = Len(alarms[d]) + 1
      BY <3>3, <3>4
    <3> QED BY <1>1, <3>1, <3>2, <3>5
  <2>3. \A e \in JobsOf(a) : ~ Exists(e) /\ Exists(e)' /\ Unsent(e)
    BY <1>1, <2>2 DEF Exists, Unsent, MailInv
  <2>4. ASSUME NEW e, e[1] \in Def, e[2] \in Nat
        PROVE  (Exists(e) => Exists(e)') /\ (Unsent(e) => Unsent(e)')
    BY <1>1, <2>1, <2>4 DEF Exists, Unsent, LifeCycle!Mailed
  <2>5. \A b \in Actor : \A e \in jobs[b] : e[1] \in Def /\ e[2] \in Nat
    BY DEF BaseInv, TypeOK, AlarmId
  <2>6. \A e \in outbox : e[1] \in Def /\ e[2] \in Nat /\ Exists(e)
    BY DEF BaseInv, TypeOK, AlarmId, MailInv
  <2>7. ASSUME NEW b \in Actor, NEW e \in jobs'[b]
        PROVE  /\ Exists(e)' /\ Unsent(e)' /\ e \notin outbox'
               /\ \A c \in Actor : c # b => e \notin jobs'[c]
    <3>1. CASE b = a
      <4>1. e \in JobsOf(a)
        BY <2>1, <2>7, <3>1
      <4>2. e[1] \in Def /\ e[2] \in Nat
        BY <1>1, <2>2, <4>1
      <4>3. \A c \in Actor : c # a => e \notin jobs[c]
        BY <2>3, <4>1 DEF MailInv
      <4> QED BY <2>1, <2>3, <2>4, <2>6, <3>1, <4>1, <4>2, <4>3
    <3>2. CASE b # a
      <4>1. e \in jobs[b]
        BY <2>1, <2>7, <3>2
      <4>2. e \notin JobsOf(a)
        BY <2>3, <4>1 DEF MailInv
      <4> QED BY <2>1, <2>4, <2>5, <4>1, <4>2 DEF MailInv
    <3> QED BY <3>1, <3>2
  <2>8. \A e \in outbox' : Exists(e)' /\ Unsent(e)'
    BY <2>1, <2>4, <2>6 DEF MailInv
  <2>9. \A d \in Def : \A i \in LifeCycle!Mailed(d)' : i <= Len(alarms'[d])
    <3>1. \A d \in Def : \A i \in LifeCycle!Mailed(d) : i \in Nat
      BY DEF BaseInv, TypeOK, LifeCycle!Mailed
    <3> SUFFICES ASSUME NEW d \in Def, NEW i \in LifeCycle!Mailed(d)'
                 PROVE  i <= Len(alarms'[d])
      OBVIOUS
    <3>2. i \in LifeCycle!Mailed(d)
      BY <2>1 DEF LifeCycle!Mailed
    <3>3. i \in Nat /\ i <= Len(alarms[d])
      BY <3>1, <3>2 DEF MailInv
    <3> QED BY <1>1, <3>3
  <2> QED BY <2>7, <2>8, <2>9 DEF MailInv
<1>3. ASSUME NEW a \in Actor, Dispatch(a)
      PROVE  MailInv'
  <2>1. /\ jobs \in [Actor -> SUBSET AlarmId]
        /\ jobs' = [jobs EXCEPT ![a] = {}]
        /\ outbox' = outbox \cup jobs[a]
        /\ alarms' = alarms /\ mails' = mails
    BY <1>3 DEF Dispatch, BaseInv, TypeOK, dbVars
  <2>2. \A e : Exists(e)' = Exists(e) /\ Unsent(e)' = Unsent(e)
    BY <2>1 DEF Exists, Unsent, LifeCycle!Mailed
  <2>3. ASSUME NEW b \in Actor, NEW e \in jobs'[b]
        PROVE  /\ Exists(e)' /\ Unsent(e)' /\ e \notin outbox'
               /\ \A c \in Actor : c # b => e \notin jobs'[c]
    <3>1. b # a /\ e \in jobs[b]
      BY <2>1, <2>3
    <3> QED BY <2>1, <2>2, <3>1 DEF MailInv
  <2>4. \A e \in outbox' : Exists(e)' /\ Unsent(e)'
    BY <2>1, <2>2 DEF MailInv
  <2>5. \A d \in Def : \A i \in LifeCycle!Mailed(d)' : i <= Len(alarms'[d])
    BY <2>1 DEF MailInv, LifeCycle!Mailed
  <2> QED BY <2>3, <2>4, <2>5 DEF MailInv
<1>4. ASSUME Deliver
      PROVE  MailInv'
  <2>1. PICK e \in outbox :
           /\ outbox' = outbox \ {e}
           /\ \/ mails' = [mails EXCEPT ![e[1]] = Append(@, e[2])]
              \/ mails' = mails
    BY <1>4 DEF Deliver
  <2>2. alarms' = alarms /\ jobs' = jobs
    BY <1>4 DEF Deliver, actorVars, dbVars
  <2>3. e \in AlarmId /\ e[1] \in Def /\ e[2] \in Nat \ {0} /\ Exists(e)
    BY <2>1 DEF BaseInv, TypeOK, AlarmId, MailInv
  <2>4. \A d \in Def : mails[d] \in Seq(Nat \ {0})
    BY DEF BaseInv, TypeOK
  <2>5. ASSUME NEW d \in Def
        PROVE  LifeCycle!Mailed(d)' \subseteq
                   LifeCycle!Mailed(d) \cup {i \in {e[2]} : d = e[1]}
    <3>1. CASE mails'[d] = mails[d]
      BY <3>1 DEF LifeCycle!Mailed
    <3>2. CASE d = e[1] /\ mails'[d] = Append(mails[d], e[2])
      <4>1. LifeCycle!Mailed(d)' = LifeCycle!Mailed(d) \cup {e[2]}
        BY <2>3, <2>4, <3>2, MailedAppend
      <4> QED BY <3>2, <4>1
    <3>3. mails \in [Def -> Seq(Nat \ {0})]
      BY DEF BaseInv, TypeOK
    <3> QED BY <2>1, <2>3, <3>1, <3>2, <3>3
  <2>6. ASSUME NEW f \in AlarmId, f # e, Unsent(f)
        PROVE  Unsent(f)'
    <3>1. f[1] \in Def /\ ~ (f[1] = e[1] /\ f[2] = e[2])
      BY <2>3, <2>6 DEF AlarmId
    <3> QED BY <2>5, <2>6, <3>1 DEF Unsent
  <2>7. \A f : Exists(f)' = Exists(f)
    BY <2>2 DEF Exists
  <2>8. \A a \in Actor : \A f \in jobs'[a] :
           /\ Exists(f)' /\ Unsent(f)' /\ f \notin outbox'
           /\ \A b \in Actor : b # a => f \notin jobs'[b]
    <3>1. \A a \in Actor : \A f \in jobs[a] : f \in AlarmId /\ f # e
      BY <2>1 DEF MailInv, BaseInv, TypeOK
    <3> QED BY <2>1, <2>2, <2>6, <2>7, <3>1 DEF MailInv
  <2>9. \A f \in outbox' : Exists(f)' /\ Unsent(f)'
    <3>1. \A f \in outbox : f \in AlarmId
      BY DEF BaseInv, TypeOK
    <3> QED BY <2>1, <2>6, <2>7, <3>1 DEF MailInv
  <2>10. \A d \in Def : \A i \in LifeCycle!Mailed(d)' : i <= Len(alarms'[d])
    BY <2>2, <2>3, <2>5 DEF MailInv, Exists
  <2> QED BY <2>8, <2>9, <2>10 DEF MailInv
<1>5. ASSUME Restart
      PROVE  MailInv'
  <2>1. /\ \A a \in Actor : jobs'[a] = {}
        /\ outbox' = {} /\ mails' = mails /\ alarms' = alarms
    BY <1>5 DEF Restart, Nobody
  <2> QED BY <2>1 DEF MailInv, LifeCycle!Mailed
<1>6. ASSUME NEW p \in Proc, Send(p) \/ Store(p)
      PROVE  MailInv'
  BY <1>1, <1>6, MailFrame DEF Send, Receive, Store, memoryVars, worldVars
<1>7. ASSUME NEW a \in Actor,
             LoadActive(a) \/ LoadLatest(a) \/ Decide(a) \/ Lock(a) \/ Fail(a)
      PROVE  MailInv'
  BY <1>1, <1>7, MailFrame
  DEF LoadActive, LoadLatest, Decide, Lock, Fail, memoryVars, worldVars
<1>8. ASSUME Check \/ Tick \/ UNCHANGED vars
      PROVE  MailInv'
  BY <1>1, <1>8, MailFrame
  DEF Check, Tick, vars, actorVars, memoryVars, worldVars
<1> QED BY <1>2, <1>3, <1>4, <1>5, <1>6, <1>7, <1>8 DEF Next

-----------------------------------------------------------------------------
(* The inductive invariant and what follows from it                        *)

IInv == BaseInv /\ LockInv /\ AlarmInv /\ MailInv

LEMMA Invariance == Spec => []IInv
<1>1. Init => IInv
  <2> SUFFICES ASSUME Init
               PROVE  IInv
    OBVIOUS
  <2>1. LockInv
    BY DEF Init, LockInv, Nobody
  <2>2. AlarmInv /\ MailInv
    BY DEF Init, AlarmInv, LastOnly, MailInv, Nobody, LifeCycle!Mailed
  <2> QED BY <2>1, <2>2, BaseInit DEF IInv
<1>2. IInv /\ [Next]_vars => IInv'
  BY BaseStep, LockStep, AlarmStep, MailStep DEF IInv
<1> QED BY <1>1, <1>2, PTL DEF Spec

(* However evaluations overlap, no definition has two active alarms.       *)
THEOREM NeverTwoActive == Spec => []OneActiveAlarm
<1>1. ASSUME IInv, NEW d \in Def
      PROVE  Cardinality(OpenAlarms(d)) <= 1
  <2>1. OpenAlarms(d) \subseteq {Len(alarms[d])}
    BY <1>1 DEF IInv, AlarmInv, LastOnly, OpenAlarms
  <2>2. OpenAlarms(d) = {} \/ OpenAlarms(d) = {Len(alarms[d])}
    BY <2>1
  <2>3. CASE OpenAlarms(d) = {}
    <3>1. Cardinality(OpenAlarms(d)) = 0
      BY <2>3, FS_EmptySet
    <3> QED BY <3>1
  <2>4. CASE OpenAlarms(d) = {Len(alarms[d])}
    <3>1. Cardinality(OpenAlarms(d)) = 1
      BY <2>4, FS_Singleton
    <3> QED BY <3>1
  <2> QED BY <2>2, <2>3, <2>4
<1>2. IInv => OneActiveAlarm
  BY <1>1 DEF OneActiveAlarm
<1> QED BY <1>2, Invariance, PTL

-----------------------------------------------------------------------------
(* Row locks in the order of the definitions                               *)

(* An actor holds locks only inside the loop, and all of them on           *)
(* definitions before those it has still to evaluate; when it waits for a  *)
(* lock there is such a definition.                                        *)
Ordered(a) ==
    /\ \A d \in Def : lock[d] = a => pc[a] \in {"evaluating", "locking"}
    /\ \A d \in Def : lock[d] = a => \A e \in todo[a] : Rank[d] < Rank[e]
    /\ pc[a] = "locking" => todo[a] # {}
OrderInv == \A a \in Actor : Ordered(a)

(* A step of others that does not give an actor a lock.                    *)
LEMMA OrderFrame ==
    ASSUME OrderInv, NEW b \in Actor,
           pc'[b] = pc[b], todo'[b] = todo[b],
           \A d \in Def : lock'[d] = b => lock[d] = b
    PROVE  Ordered(b)'
BY DEF OrderInv, Ordered

(* An actor that has no lock is ordered unless it waits for one.           *)
LEMMA UnlockedOrdered ==
    ASSUME NEW b \in Actor, \A d \in Def : lock'[d] # b, pc'[b] # "locking"
    PROVE  Ordered(b)'
BY DEF Ordered

LEMMA OrderStep ==
    ASSUME BaseInv, OrderInv, [Next]_vars
    PROVE  OrderInv'
<1> USE DEF BaseInv
<1>1. ASSUME NEW a \in Actor, Lock(a)
      PROVE  OrderInv'
  <2>1. PICK d \in NextDef(a) :
           /\ lock[d] = NoActor
           /\ lock' = [lock EXCEPT ![d] = a]
           /\ todo' = [todo EXCEPT ![a] = @ \ {d}]
    BY <1>1 DEF Lock
  <2>2. /\ d \in Def /\ todo[a] \subseteq Def
        /\ \A e \in todo[a] : Rank[d] <= Rank[e]
    BY <2>1 DEF NextDef, TypeOK
  <2>3. /\ lock'[d] = a /\ \A e \in Def \ {d} : lock'[e] = lock[e]
        /\ todo'[a] = todo[a] \ {d}
        /\ \A b \in Actor \ {a} : todo'[b] = todo[b] /\ pc'[b] = pc[b]
        /\ pc'[a] = "evaluating"
    BY <1>1, <2>1, <2>2 DEF TypeOK, Lock
  <2>4. \A e \in todo'[a] : Rank[d] < Rank[e]
    <3>1. \A e \in todo'[a] : Rank[d] # Rank[e] /\ Rank[d] \in Nat /\ Rank[e] \in Nat
      BY <2>2, <2>3, DefAssumption
    <3> QED BY <2>2, <2>3, <3>1
  <2>5. Ordered(a)'
    <3>1. \A e \in Def : lock'[e] = a => e = d \/ lock[e] = a
      BY <2>3
    <3>2. \A e \in Def : lock[e] = a => \A f \in todo'[a] : Rank[e] < Rank[f]
      BY <2>3 DEF OrderInv, Ordered
    <3> QED BY <2>3, <2>4, <3>1, <3>2 DEF Ordered
  <2>6. ASSUME NEW b \in Actor \ {a}
        PROVE  Ordered(b)'
    <3>1. \A e \in Def : lock'[e] = b => lock[e] = b
      BY <2>3
    <3> QED BY <2>3, <3>1, OrderFrame
  <2> QED BY <2>5, <2>6 DEF OrderInv
<1>2. ASSUME NEW a \in Actor, Decide(a)
      PROVE  OrderInv'
  <2>1. PICK d \in NextDef(a) :
           \/ todo' = [todo EXCEPT ![a] = @ \ {d}] /\ UNCHANGED pc
           \/ pc' = [pc EXCEPT ![a] = "locking"] /\ UNCHANGED todo
    BY <1>2 DEF Decide
  <2>2. UNCHANGED lock /\ pc[a] = "evaluating" /\ d \in todo[a]
    BY <1>2, <2>1 DEF Decide, dbVars, NextDef
  <2>3. Ordered(a)'
    <3>1. /\ todo'[a] \subseteq todo[a]
          /\ \/ pc'[a] = "evaluating"
             \/ pc'[a] = "locking" /\ todo'[a] # {}
      BY <2>1, <2>2 DEF TypeOK
    <3> QED BY <2>2, <3>1 DEF OrderInv, Ordered
  <2>4. \A b \in Actor \ {a} : todo'[b] = todo[b] /\ pc'[b] = pc[b]
    BY <2>1 DEF TypeOK
  <2> QED BY <2>2, <2>3, <2>4, OrderFrame DEF OrderInv
<1>3. ASSUME NEW a \in Actor, Commit(a) \/ Fail(a)
      PROVE  OrderInv'
  <2>1. /\ Unlock(a) /\ Clear(a)
        /\ pc'[a] # "locking" /\ \A b \in Actor \ {a} : pc'[b] = pc[b]
    BY <1>3 DEF Commit, Fail, TypeOK
  <2>2. \A d \in Def : lock'[d] # a
    BY <2>1, ActorAssumption DEF Unlock
  <2>3. \A b \in Actor \ {a} : /\ todo'[b] = todo[b]
                               /\ \A d \in Def : lock'[d] = b => lock[d] = b
    BY <2>1, ActorAssumption DEF Unlock, Clear, TypeOK
  <2> QED BY <2>1, <2>2, <2>3, OrderFrame, UnlockedOrdered DEF OrderInv
<1>4. ASSUME Restart
      PROVE  OrderInv'
  BY <1>4, ActorAssumption DEF Restart, OrderInv, Ordered
<1>5. ASSUME NEW a \in Actor, UNCHANGED lock,
             pc[a] \notin {"evaluating", "locking"}, pc'[a] # "locking",
             \A b \in Actor \ {a} : todo'[b] = todo[b] /\ pc'[b] = pc[b]
      PROVE  OrderInv'
  <2>1. \A d \in Def : lock'[d] # a
    BY <1>5 DEF OrderInv, Ordered
  <2> QED BY <1>5, <2>1, OrderFrame, UnlockedOrdered DEF OrderInv
<1>6. ASSUME NEW p \in Proc, Send(p) \/ Store(p)
      PROVE  OrderInv'
  <2>1. p \in Actor
    BY DEF Actor
  <2>2. UNCHANGED <<lock, todo>>
    BY <1>6 DEF Send, Receive, Store, dbVars
  <2>3. \/ pc' = pc
        \/ /\ pc[p] \in {"idle", "started"}
           /\ pc' = [pc EXCEPT ![p] = "started"] \/ pc' = [pc EXCEPT ![p] = "stored"]
    BY <1>6 DEF Send, Receive, Store
  <2>4. CASE pc' = pc
    BY <2>2, <2>4, OrderFrame DEF OrderInv
  <2>5. CASE pc' # pc
    BY <1>5, <2>1, <2>2, <2>3, <2>5 DEF TypeOK
  <2> QED BY <2>4, <2>5
<1>7. ASSUME NEW a \in Actor, LoadActive(a) \/ LoadLatest(a) \/ Dispatch(a)
      PROVE  OrderInv'
  <2>1. /\ UNCHANGED lock
        /\ pc[a] \notin {"evaluating", "locking"} /\ pc'[a] # "locking"
        /\ \A b \in Actor \ {a} : todo'[b] = todo[b] /\ pc'[b] = pc[b]
    BY <1>7 DEF LoadActive, LoadLatest, Dispatch, TypeOK, dbVars
  <2> QED BY <1>5, <2>1
<1>8. ASSUME Check
      PROVE  OrderInv'
  <2>1. /\ Monitor \in Actor /\ UNCHANGED lock
        /\ pc[Monitor] \notin {"evaluating", "locking"}
        /\ pc'[Monitor] # "locking"
        /\ \A b \in Actor \ {Monitor} : todo'[b] = todo[b] /\ pc'[b] = pc[b]
    BY <1>8 DEF Check, Actor, TypeOK, dbVars
  <2> QED BY <1>5, <2>1
<1>9. ASSUME Deliver \/ Tick \/ UNCHANGED vars
      PROVE  OrderInv'
  BY <1>9, OrderFrame DEF OrderInv, Deliver, Tick, vars, actorVars, dbVars
<1> QED BY <1>1, <1>2, <1>3, <1>4, <1>6, <1>7, <1>8, <1>9 DEF Next

(* A set of numbers has a smallest one.                                    *)
LEMMA Smallest ==
    ASSUME NEW T \in SUBSET Nat, T # {}
    PROVE  \E x \in T : \A y \in T : x <= y
<1> DEFINE R == OpToRel(<, Nat)
<1>1. IsWellFoundedOn(R, Nat)
  BY NatLessThanWellFounded
<1>2. \A x, y \in Nat : y < x => <<y, x>> \in R
  BY DEF OpToRel
<1> HIDE DEF R
<1>3. PICK x \in T : \A y \in T : ~ (<<y, x>> \in R)
  BY <1>1, WFMin
<1>4. ASSUME NEW y \in T
      PROVE  x <= y
  <2>1. x \in Nat /\ y \in Nat /\ ~ (<<y, x>> \in R)
    BY <1>3
  <2>2. ~ (y < x)
    BY <1>2, <2>1, Zenon
  <2> QED BY <2>1, <2>2
<1> QED BY <1>4

(* Among some definitions one has the largest rank: the one with the       *)
(* fewest above it.                                                        *)
LEMMA LastDefinition ==
    ASSUME NEW T \in SUBSET Def, T # {}
    PROVE  \E d \in T : \A e \in T : ~ (Rank[d] < Rank[e])
<1> DEFINE Above(d) == {e \in T : Rank[d] < Rank[e]}
           Count == {Cardinality(Above(d)) : d \in T}
<1>1. \A d \in Def : IsFiniteSet(Above(d)) /\ Cardinality(Above(d)) \in Nat
  <2>1. \A d \in Def : Above(d) \in SUBSET Def
    OBVIOUS
  <2> QED BY <2>1, FiniteAssumption, FS_Subset, FS_CardinalityType
<1>2. Count \in SUBSET Nat /\ Count # {}
  BY <1>1
<1>3. PICK n \in Count : \A m \in Count : n <= m
  <2> HIDE DEF Count
  <2> QED BY <1>2, Smallest
<1>4. PICK d \in T : n = Cardinality(Above(d))
  BY <1>3
<1>5. ASSUME NEW e \in T, Rank[d] < Rank[e]
      PROVE  FALSE
  <2>1. Rank[d] \in Nat /\ Rank[e] \in Nat /\ \A f \in T : Rank[f] \in Nat
    BY DefAssumption
  <2>2. Above(e) \in SUBSET Above(d)
    BY <1>5, <2>1
  <2>3. e \in Above(d) /\ e \notin Above(e)
    BY <1>5, <2>1
  <2>4. Cardinality(Above(e)) \in Count
    OBVIOUS
  <2> HIDE DEF Above, Count
  <2>5. /\ Cardinality(Above(e)) <= Cardinality(Above(d))
        /\ Cardinality(Above(e)) # Cardinality(Above(d))
    BY <1>1, <2>2, <2>3, FS_Subset
  <2>6. Cardinality(Above(d)) <= Cardinality(Above(e))
    BY <1>3, <1>4, <2>4
  <2> QED BY <1>1, <2>5, <2>6
<1> QED BY <1>5

(* Among some definitions one has the smallest rank.                       *)
LEMMA FirstDefinition ==
    ASSUME NEW T \in SUBSET Def, T # {}
    PROVE  \E d \in T : \A e \in T : Rank[d] <= Rank[e]
<1> DEFINE Ranks == {Rank[d] : d \in T}
<1>1. Ranks \in SUBSET Nat /\ Ranks # {}
  BY DefAssumption
<1>2. PICK n \in Ranks : \A m \in Ranks : n <= m
  <2> HIDE DEF Ranks
  <2> QED BY <1>1, Smallest
<1> QED BY <1>2

(* Evaluations never wait in a circle for the locks of definitions: of the *)
(* definitions that those in the circle wait for, the last would be held   *)
(* by one that waits for a later one.                                      *)
THEOREM LocksNeverCircular == Spec => []NoCircularWait
<1>1. Init => OrderInv
  BY ActorAssumption DEF Init, OrderInv, Ordered
<1>2. IInv /\ OrderInv /\ [Next]_vars => OrderInv'
  BY OrderStep DEF IInv
<1>3. IInv /\ OrderInv => NoCircularWait
  <2> SUFFICES ASSUME IInv, OrderInv, NEW S \in SUBSET Actor, S # {},
                      \A a \in S : /\ pc[a] = "locking"
                                   /\ \A d \in NextDef(a) : lock[d] \in S
               PROVE  FALSE
    BY DEF NoCircularWait
  <2> DEFINE T == {d \in Def : \E a \in S : d \in NextDef(a)}
  <2>1. ASSUME NEW a \in S
        PROVE  \E d \in Def : d \in NextDef(a)
    <3>1. todo[a] \in SUBSET Def /\ todo[a] # {}
      BY <2>1 DEF IInv, BaseInv, TypeOK, OrderInv, Ordered
    <3>2. PICK d \in todo[a] : \A e \in todo[a] : Rank[d] <= Rank[e]
      BY <3>1, FirstDefinition
    <3> QED BY <3>1, <3>2 DEF NextDef
  <2>2. T \in SUBSET Def /\ T # {}
    BY <2>1
  <2>3. PICK d \in T : \A e \in T : ~ (Rank[d] < Rank[e])
    <3> HIDE DEF T
    <3> QED BY <2>2, LastDefinition
  <2>4. PICK b \in S : lock[d] = b
    BY <2>3
  <2>5. PICK e \in Def : e \in NextDef(b)
    BY <2>1
  <2>6. Rank[d] < Rank[e]
    BY <2>3, <2>4, <2>5 DEF OrderInv, Ordered, NextDef
  <2> QED BY <2>3, <2>5, <2>6
<1> QED BY <1>1, <1>2, <1>3, Invariance, PTL DEF Spec

-----------------------------------------------------------------------------
(* The abstract life cycle                                                 *)

(* A commit opens and closes alarms as the abstract life cycle does.       *)
LEMMA CommitIsChange ==
    ASSUME IInv, NEW a \in Actor, Commit(a)
    PROVE  LifeCycle!Change
<1> DEFINE opened == opening[a]
           closed == closing[a]
           s == job[a].ts
<1>1. opened \in SUBSET Def /\ closed \in SUBSET Def
  BY DEF IInv, BaseInv, TypeOK
<1>2. s \in Time
  BY DEF IInv, BaseInv, BusyInv, Commit
<1>3. \A d \in Def : /\ alarms[d] \in Seq(AlarmRow) /\ LastOnly(d)
                     /\ OpenNow(d) <=> LifeCycle!OpenNow(d)
  BY OpenIsLast DEF IInv, BaseInv, TypeOK, AlarmInv
<1>4. \A d \in opened : ~ LifeCycle!OpenNow(d)
  BY <1>1, <1>3 DEF IInv, LockInv
<1>5. \A d \in closed : LifeCycle!OpenNow(d)
  BY <1>1, <1>3 DEF IInv, LockInv
<1>6. \A d \in closed : Closed(alarms[d], s) =
                            [alarms[d] EXCEPT ![Len(alarms[d])].closed = s]
  BY <1>1, <1>2, <1>3, ClosedIsLast DEF IInv, LockInv
<1>7. alarms' = [d \in Def |->
         CASE d \in opened -> Append(alarms[d], [opened |-> s, closed |-> 0])
           [] d \in closed -> [alarms[d] EXCEPT ![Len(alarms[d])].closed = s]
           [] OTHER -> alarms[d]]
  BY <1>6 DEF Commit
<1>8. UNCHANGED mails
  BY DEF Commit, worldVars
<1> HIDE DEF opened, closed, s
<1> QED BY <1>1, <1>2, <1>4, <1>5, <1>7, <1>8 DEF LifeCycle!Change

(* A mail that is delivered is one the abstract life cycle sends.          *)
LEMMA DeliverIsMail ==
    ASSUME IInv, Deliver
    PROVE  LifeCycle!Mail \/ UNCHANGED LifeCycle!vars
<1>1. PICK e \in outbox :
         \/ mails' = [mails EXCEPT ![e[1]] = Append(@, e[2])]
         \/ mails' = mails
  BY DEF Deliver
<1>2. alarms' = alarms
  BY DEF Deliver, dbVars
<1>3. /\ e[1] \in Def /\ e[2] \in Nat \ {0}
      /\ Len(alarms[e[1]]) \in Nat
  BY <1>1 DEF IInv, BaseInv, TypeOK, AlarmId
<1>4. e[2] \in (1 .. Len(alarms[e[1]])) \ LifeCycle!Mailed(e[1])
  BY <1>1, <1>3 DEF IInv, MailInv, Exists, Unsent
<1> QED BY <1>1, <1>2, <1>3, <1>4 DEF LifeCycle!Mail, LifeCycle!vars

(* The threads, the transactions, the memory and the pool together         *)
(* implement the abstract life cycle of the alarms and their mails.        *)
THEOREM Refinement == Spec => ImplementsLifeCycle
<1>1. Init => LifeCycle!Init
  BY DEF Init, LifeCycle!Init
<1>2. IInv /\ [Next]_vars => [LifeCycle!Next]_(LifeCycle!vars)
  <2> SUFFICES ASSUME IInv, [Next]_vars
               PROVE  LifeCycle!Next \/ UNCHANGED LifeCycle!vars
    OBVIOUS
  <2>1. CASE \E a \in Actor : Commit(a)
    BY <2>1, CommitIsChange DEF LifeCycle!Next
  <2>2. CASE Deliver
    BY <2>2, DeliverIsMail DEF LifeCycle!Next
  <2>3. CASE ~ (\E a \in Actor : Commit(a)) /\ ~ Deliver
    <3>1. UNCHANGED alarms
      BY <2>3, AlarmFrame
    <3>2. ASSUME NEW p \in Proc, Send(p) \/ Store(p)
          PROVE  UNCHANGED mails
      BY <3>2 DEF Send, Receive, Store, worldVars
    <3>3. ASSUME NEW a \in Actor,
                 \/ LoadActive(a) \/ LoadLatest(a) \/ Decide(a) \/ Lock(a)
                 \/ Dispatch(a) \/ Fail(a)
          PROVE  UNCHANGED mails
      BY <3>3 DEF LoadActive, LoadLatest, Decide, Lock, Dispatch, Fail,
                  worldVars
    <3>4. ASSUME Check \/ Restart \/ Tick \/ UNCHANGED vars
          PROVE  UNCHANGED mails
      BY <3>4 DEF Check, Restart, Tick, vars, worldVars
    <3>5. UNCHANGED mails
      BY <2>3, <3>2, <3>3, <3>4 DEF Next
    <3> QED BY <3>1, <3>5 DEF LifeCycle!vars
  <2> QED BY <2>1, <2>2, <2>3
<1> QED BY <1>1, <1>2, Invariance, PTL
        DEF Spec, ImplementsLifeCycle, LifeCycle!Spec
=============================================================================
