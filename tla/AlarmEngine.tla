---------------------------- MODULE AlarmEngine ----------------------------
(***************************************************************************)
(* The alarms of one lagoon (app/alarms/service.py, repository.py): they   *)
(* are evaluated by the threads of the ingest (app/routers/ingest.py), in  *)
(* the transaction that stores the payload, and by the monitor of silent   *)
(* lagoons (app/alarms/silence_monitor.py), and notified after the commit  *)
(* (app/integration/notifications.py).                                     *)
(*                                                                         *)
(* Every definition with a tag has a tag of its own, and a payload gives   *)
(* the signal of the tags it carries.  For a threshold that is the side of *)
(* the limit a value lies on: "high" violates it, "band" violates it only  *)
(* within the deadband of an open alarm, "low" does not.                   *)
(***************************************************************************)
EXTENDS Naturals, Sequences, FiniteSets

CONSTANTS
    Threshold,     \* definitions: alarm_type = threshold
    Transition,    \* alarm_type = state, with from_states and to_state
    TagLoss,       \* alarm_type = comm_loss, of a tag
    LagoonLoss,    \* alarm_type = comm_loss, of the lagoon
    Group,         \* the sets of tags a payload of the collector can carry
    Rank,          \* the place of a definition in the order of evaluation
    State,         \* values of the tags of Transition
    FromStates, ToState,  \* the condition of a Transition
    NoState,       \* a tag whose state is not in memory
    Proc,          \* requests in progress
    Monitor,       \* the thread of AlarmLagoonSignalMonitor
    NoActor,       \* a definition that is not locked
    MaxTime,       \* bound on the clock
    MaxSends,      \* bound on the requests in one behaviour
    MaxAge,        \* SCADA_REALTIME_MAX_PAYLOAD_AGE_SEC
    TagTimeout, LagoonTimeout,  \* timeout_sec of TagLoss and LagoonLoss
    Grace,         \* ALARM_LAGOON_SIGNAL_STARTUP_GRACE_SEC
    MaxFaults,     \* bound on failed transactions in one behaviour
    MaxCrashes     \* bound on restarts of the process

Def == Threshold \cup Transition \cup TagLoss \cup LagoonLoss
Tagged == Threshold \cup Transition \cup TagLoss
Loss == TagLoss \cup LagoonLoss
Actor == Proc \cup {Monitor}

ASSUME DefAssumption   == /\ Threshold \cap (Transition \cup TagLoss \cup LagoonLoss) = {}
                          /\ Transition \cap Loss = {}
                          /\ TagLoss \cap LagoonLoss = {}
                          /\ Rank \in [Def -> Nat]
                          /\ \A d, e \in Def : Rank[d] = Rank[e] => d = e
ASSUME FiniteAssumption == IsFiniteSet(Def)
ASSUME GroupAssumption == Group \subseteq SUBSET Tagged
ASSUME StateAssumption == NoState \notin State
ASSUME ActorAssumption == Monitor \notin Proc /\ NoActor \notin Actor
ASSUME TimeAssumption  == /\ MaxTime \in Nat \ {0} /\ MaxAge \in Nat
                          /\ TagTimeout \in Nat /\ LagoonTimeout \in Nat
                          /\ Grace \in Nat
ASSUME BoundAssumption == /\ MaxSends \in Nat /\ MaxFaults \in Nat
                          /\ MaxCrashes \in Nat

(* Times count from 1, and 0 stands for none.                              *)
Time == 1 .. MaxTime

Side == {"low", "band", "high"}
SignalOf(d) == CASE d \in Threshold  -> Side
                 [] d \in Transition -> State
                 [] OTHER            -> {"present"}
Signal == Side \cup State \cup {"present"}

Signals(T) == {f \in [T -> Signal] : \A d \in T : f[d] \in SignalOf(d)}
Payload == UNION {[ts: Time, sig: Signals(T)] : T \in Group}
NoJob == [ts |-> 0, sig |-> [d \in {} |-> "present"]]
Job == [ts: {0} \cup Time, sig: UNION {Signals(T) : T \in SUBSET Tagged}]

(* A row of scada_event of the tag of a definition.                        *)
EventRow == [def: Transition, prev: State, state: State, start: Time]
(* A row of alarm_event; closed = 0 is one with status OPEN.               *)
AlarmRow == [opened: Time, closed: {0} \cup Time]
(* An alarm, by its definition and its place among the alarms of that.     *)
AlarmId == Def \X (Nat \ {0})

VARIABLES
    now, boot,   \* the clock; when the process was started
    sent,        \* the last payload the collector has sent
    answered,    \* the store: _last_ts, of the last payload answered 200
    pc, job,     \* an actor: where it is; its payload, or the monitor's clock
    recorded,    \* the events a thread has added to its session
    todo,        \* the definitions it has still to evaluate
    active,      \* active_alarms_by_definition
    latest,      \* latest_transitions_by_tag
    lock,        \* the row locks of the definitions
    opening, closing,  \* the alarms it has opened and closed, not committed
    jobs,        \* notification_jobs
    lastState,   \* _last_state of the ingest
    lastSeen,    \* _comm_loss_last_seen
    events,      \* scada_event
    alarms,      \* alarm_event of a definition, in the order of insertion
    outbox,      \* jobs in the pool of the notification orchestrator
    mails,       \* the alarms of a definition a mail was sent for
    seen,        \* history: the signals of a definition that were committed,
                 \* for one of the lagoon those are the payloads
    sends, faults, crashes  \* counters for the bounds

actorVars  == <<pc, job, recorded, todo, active, latest, opening, closing,
                jobs>>
memoryVars == <<lastState, lastSeen, outbox>>
dbVars     == <<events, alarms, lock, seen>>
worldVars  == <<now, boot, sent, answered, mails, sends, faults, crashes>>
vars == <<actorVars, memoryVars, dbVars, worldVars>>

(* started: accepted, handed to a thread;  stored: ingest() is done;       *)
(* loaded: the active alarms are read;  evaluating: at the head of the     *)
(* loop;  locking: waits for the definition;  committed: before dispatch.  *)
Pc == {"idle", "started", "stored", "loaded", "evaluating", "locking",
       "committed"}

(* The types; a job is of an alarm that has an id, which it gets with the  *)
(* flush of open_alarm.                                                    *)
TypeOK ==
    /\ now \in Time /\ boot \in Time
    /\ sent \in Payload \cup {NoJob}
    /\ answered \in {0} \cup Time
    /\ pc \in [Actor -> Pc]
    /\ job \in [Actor -> Job]
    /\ recorded \in [Actor -> SUBSET EventRow]
    /\ todo \in [Actor -> SUBSET Def]
    /\ active \in [Actor -> SUBSET Def]
    /\ latest \in [Actor -> SUBSET EventRow]
    /\ lock \in [Def -> Actor \cup {NoActor}]
    /\ opening \in [Actor -> SUBSET Def] /\ closing \in [Actor -> SUBSET Def]
    /\ jobs \in [Actor -> SUBSET AlarmId]
    /\ lastState \in [Transition -> State \cup {NoState}]
    /\ lastSeen \in [Loss -> {0} \cup Time]
    /\ events \in SUBSET EventRow
    /\ alarms \in [Def -> Seq(AlarmRow)]
    /\ outbox \in SUBSET AlarmId
    /\ mails \in [Def -> Seq(Nat \ {0})]
    /\ seen \in [Def -> Seq([ts: Time, sig: Signal])]
    /\ sends \in 0 .. MaxSends /\ faults \in 0 .. MaxFaults
    /\ crashes \in 0 .. MaxCrashes

Nobody == [a \in Actor |-> {}]

Init ==
    /\ now = 1 /\ boot = 1
    /\ sent = NoJob
    /\ answered = 0
    /\ pc = [a \in Actor |-> "idle"]
    /\ job = [a \in Actor |-> NoJob]
    /\ recorded = Nobody /\ todo = Nobody /\ active = Nobody /\ latest = Nobody
    /\ lock = [d \in Def |-> NoActor]
    /\ opening = Nobody /\ closing = Nobody /\ jobs = Nobody
    /\ lastState = [d \in Transition |-> NoState]
    /\ lastSeen = [d \in Loss |-> 0]
    /\ events = {}
    /\ alarms = [d \in Def |-> <<>>]
    /\ outbox = {}
    /\ mails = [d \in Def |-> <<>>]
    /\ seen = [d \in Def |-> <<>>]
    /\ sends = 0 /\ faults = 0 /\ crashes = 0

-----------------------------------------------------------------------------
(* Helpers                                                                 *)

(* accepts_update_ts: neither too old nor overtaken.                       *)
Accepts(s) == s + MaxAge >= now /\ s > answered

OpenAlarms(d) == {i \in 1 .. Len(alarms[d]) : alarms[d][i].closed = 0}
OpenNow(d) == OpenAlarms(d) # {}

(* The changes a payload makes to the states in memory.                    *)
ChangesOf(r) ==
    LET changed == {d \in Transition \cap DOMAIN r.sig :
                       lastState[d] \notin {NoState, r.sig[d]}}
    IN  {[def |-> d, prev |-> lastState[d], state |-> r.sig[d], start |-> r.ts] :
            d \in changed}

(* The definitions an actor evaluates: get_definitions for a payload,      *)
(* get_lagoon_comm_loss_definitions for the monitor.                       *)
Selected(a) ==
    IF a = Monitor THEN LagoonLoss ELSE Loss \cup DOMAIN job[a].sig

(* The latest committed changes of some tags that are not after a time.    *)
(* Seeded fault: the oldest ones, the wrong end of the ORDER BY.           *)
LatestOf_Oldest(T, s) ==
    LET before == {e \in events : e.def \in T /\ e.start <= s}
    IN  {e \in before : \A f \in before : f.def = e.def => e.start <= f.start}

LatestOf(T, s) ==
    LET before == {e \in events : e.def \in T /\ e.start <= s}
    IN  {e \in before : \A f \in before : f.def = e.def => f.start <= e.start}

(* The next definition of the loop.  Seeded fault: the definitions are     *)
(* read in no order.                                                       *)
NextDef_Unordered(a) == todo[a]

NextDef(a) == {d \in todo[a] : \A e \in todo[a] : Rank[d] <= Rank[e]}

Matches(e) == e.prev \in FromStates /\ e.state = ToState

(* What communication loss is measured against: the signal of a tag is in  *)
(* the payload, that of the lagoon is the payload itself.  Seeded fault:   *)
(* the payload is no signal of the lagoon.                                 *)
Heard_TagOnly(a, d) == d \in DOMAIN job[a].sig

Heard(a, d) == IF d \in TagLoss THEN d \in DOMAIN job[a].sig ELSE a # Monitor
Timeout(d) == IF d \in TagLoss THEN TagTimeout ELSE LagoonTimeout

(* decision.should_alarm.  Seeded faults: the deadband is applied although *)
(* no alarm is open; a signal in the payload is not looked at; the timeout *)
(* is not waited for in full.                                              *)
ShouldAlarm_DeadbandAlways(a, d) ==
    CASE d \in Threshold  -> job[a].sig[d] \in {"high", "band"}
      [] d \in Transition -> \E e \in latest[a] : e.def = d /\ Matches(e)
      [] OTHER            -> /\ ~ Heard(a, d)
                             /\ lastSeen[d] # 0
                             /\ job[a].ts > lastSeen[d] + Timeout(d)

ShouldAlarm_Deaf(a, d) ==
    CASE d \in Threshold  -> \/ job[a].sig[d] = "high"
                             \/ job[a].sig[d] = "band" /\ d \in active[a]
      [] d \in Transition -> \E e \in latest[a] : e.def = d /\ Matches(e)
      [] OTHER            -> /\ lastSeen[d] # 0
                             /\ job[a].ts > lastSeen[d] + Timeout(d)

ShouldAlarm_Early(a, d) ==
    CASE d \in Threshold  -> \/ job[a].sig[d] = "high"
                             \/ job[a].sig[d] = "band" /\ d \in active[a]
      [] d \in Transition -> \E e \in latest[a] : e.def = d /\ Matches(e)
      [] OTHER            -> /\ ~ Heard(a, d)
                             /\ lastSeen[d] # 0
                             /\ job[a].ts >= lastSeen[d] + Timeout(d)

ShouldAlarm(a, d) ==
    CASE d \in Threshold  -> \/ job[a].sig[d] = "high"
                             \/ job[a].sig[d] = "band" /\ d \in active[a]
      [] d \in Transition -> \E e \in latest[a] : e.def = d /\ Matches(e)
      [] OTHER            -> /\ ~ Heard(a, d)
                             /\ lastSeen[d] # 0
                             /\ job[a].ts > lastSeen[d] + Timeout(d)

(* The transaction has ended, by commit or rollback, and with it the locks *)
(* it held.                                                                *)
Unlock(a) ==
    lock' = [d \in Def |-> IF lock[d] = a THEN NoActor ELSE lock[d]]

Clear(a) ==
    /\ recorded' = [recorded EXCEPT ![a] = {}]
    /\ todo' = [todo EXCEPT ![a] = {}]
    /\ active' = [active EXCEPT ![a] = {}]
    /\ latest' = [latest EXCEPT ![a] = {}]
    /\ opening' = [opening EXCEPT ![a] = {}]
    /\ closing' = [closing EXCEPT ![a] = {}]

-----------------------------------------------------------------------------
(* The beginning of an evaluation                                          *)

(* ingest_scada: a payload that is too old or overtaken is dropped, any    *)
(* other is handed to a thread.                                            *)
Receive(p, r) ==
    /\ pc[p] = "idle"
    /\ sends < MaxSends
    /\ sends' = sends + 1
    /\ sent' = r
    /\ IF Accepts(r.ts)
       THEN /\ pc' = [pc EXCEPT ![p] = "started"]
            /\ job' = [job EXCEPT ![p] = r]
       ELSE UNCHANGED <<pc, job>>
    /\ UNCHANGED <<recorded, todo, active, latest, opening, closing, jobs,
                   memoryVars, dbVars, now, boot, answered, mails, faults,
                   crashes>>

(* The collector sends payloads in the order of their times, and the last  *)
(* one again if it was not answered.                                       *)
Send(p) ==
    \/ \E r \in Payload : sent.ts < r.ts /\ r.ts = now /\ Receive(p, r)
    \/ sent # NoJob /\ Receive(p, sent)

(* ingest(): the states in memory advance, the changes are added to the    *)
(* session, which writes them with its next flush or commit.               *)
Store(p) ==
    LET r == job[p] IN
    /\ pc[p] = "started"
    /\ pc' = [pc EXCEPT ![p] = "stored"]
    /\ recorded' = [recorded EXCEPT ![p] = ChangesOf(r)]
    /\ lastState' = [d \in Transition |->
           IF d \in DOMAIN r.sig THEN r.sig[d] ELSE lastState[d]]
    /\ UNCHANGED <<job, todo, active, latest, opening, closing, jobs, lastSeen,
                   outbox, dbVars, worldVars>>

(* _check_once, after the grace period.                                    *)
Check ==
    /\ pc[Monitor] = "idle"
    /\ now >= boot + Grace
    /\ pc' = [pc EXCEPT ![Monitor] = "stored"]
    /\ job' = [job EXCEPT ![Monitor] = [NoJob EXCEPT !.ts = now]]
    /\ UNCHANGED <<recorded, todo, active, latest, opening, closing, jobs,
                   memoryVars, dbVars, worldVars>>

-----------------------------------------------------------------------------
(* evaluate_alarms, evaluate_lagoon_signal_alarms                          *)

(* get_active_alarms_map                                                   *)
LoadActive(a) ==
    /\ pc[a] = "stored"
    /\ pc' = [pc EXCEPT ![a] = "loaded"]
    /\ todo' = [todo EXCEPT ![a] = Selected(a)]
    /\ active' = [active EXCEPT ![a] = {d \in Selected(a) : OpenNow(d)}]
    /\ UNCHANGED <<job, recorded, latest, opening, closing, jobs, memoryVars,
                   dbVars, worldVars>>

(* get_latest_scada_transitions_map.  The session does not flush before a  *)
(* query (autoflush=False): what it has recorded itself is not found.      *)
LoadLatest(a) ==
    /\ pc[a] = "loaded"
    /\ pc' = [pc EXCEPT ![a] = "evaluating"]
    /\ latest' = [latest EXCEPT ![a] =
           LatestOf(todo[a] \cap Transition, job[a].ts)]
    /\ UNCHANGED <<job, recorded, todo, active, opening, closing, jobs,
                   memoryVars, dbVars, worldVars>>

(* One turn of the loop: _evaluate_definition, and on to open_alarm or     *)
(* close_alarm if that differs from the alarm that was active.             *)
Decide(a) ==
    /\ pc[a] = "evaluating"
    /\ \E d \in NextDef(a) :
          /\ lastSeen' = IF d \in Loss /\ (Heard(a, d) \/ lastSeen[d] = 0)
                         THEN [lastSeen EXCEPT ![d] = job[a].ts]
                         ELSE lastSeen
          /\ IF ShouldAlarm(a, d) <=> d \in active[a]
             THEN todo' = [todo EXCEPT ![a] = @ \ {d}] /\ UNCHANGED pc
             ELSE pc' = [pc EXCEPT ![a] = "locking"] /\ UNCHANGED todo
    /\ UNCHANGED <<job, recorded, active, latest, opening, closing, jobs,
                   lastState, outbox, dbVars, worldVars>>

(* Seeded fault: the active alarm is not looked for again.                 *)
Lock_NoRecheck(a) ==
    /\ pc[a] = "locking"
    /\ pc' = [pc EXCEPT ![a] = "evaluating"]
    /\ \E d \in NextDef(a) :
          /\ lock[d] = NoActor
          /\ lock' = [lock EXCEPT ![d] = a]
          /\ todo' = [todo EXCEPT ![a] = @ \ {d}]
          /\ IF d \in active[a]
             THEN /\ closing' = [closing EXCEPT ![a] = @ \cup {d}]
                  /\ UNCHANGED opening
             ELSE /\ opening' = [opening EXCEPT ![a] = @ \cup {d}]
                  /\ UNCHANGED closing
    /\ UNCHANGED <<job, recorded, active, latest, jobs, memoryVars, events,
                   alarms, seen, worldVars>>

(* open_alarm, close_alarm: lock the definition, look for the active alarm *)
(* again, and open or close one if that is still to be done.               *)
Lock(a) ==
    /\ pc[a] = "locking"
    /\ pc' = [pc EXCEPT ![a] = "evaluating"]
    /\ \E d \in NextDef(a) :
          /\ lock[d] = NoActor
          /\ lock' = [lock EXCEPT ![d] = a]
          /\ todo' = [todo EXCEPT ![a] = @ \ {d}]
          /\ IF d \in active[a]
             THEN /\ closing' = [closing EXCEPT ![a] =
                         IF OpenNow(d) THEN @ \cup {d} ELSE @]
                  /\ UNCHANGED opening
             ELSE /\ opening' = [opening EXCEPT ![a] =
                         IF OpenNow(d) THEN @ ELSE @ \cup {d}]
                  /\ UNCHANGED closing
    /\ UNCHANGED <<job, recorded, active, latest, jobs, memoryVars, events,
                   alarms, seen, worldVars>>

-----------------------------------------------------------------------------
(* The end of an evaluation                                                *)

(* close_event, for the open alarm that get_active_alarm finds.            *)
Closed(rows, s) ==
    [i \in 1 .. Len(rows) |->
        IF rows[i].closed = 0 THEN [rows[i] EXCEPT !.closed = s] ELSE rows[i]]

(* _route_notifications, of the alarms that are opened.  Seeded fault: the *)
(* job is built before the flush that gives the alarm its id;  a closed    *)
(* alarm is notified too.                                                  *)
JobsOf_Closed(a) == {<<d, Len(alarms[d]) + 1>> : d \in opening[a]}
                        \cup {<<d, Len(alarms[d])>> : d \in closing[a]}

JobsOf_NoFlush(a) == {<<d, Len(alarms[d])>> : d \in opening[a]}

JobsOf(a) == {<<d, Len(alarms[d]) + 1>> : d \in opening[a]}

(* db.commit(): the alarms, and the events of the payload, become visible. *)
Commit(a) ==
    LET s == job[a].ts IN
    /\ pc[a] = "evaluating" /\ todo[a] = {}
    /\ pc' = [pc EXCEPT ![a] = "committed"]
    /\ alarms' = [d \in Def |->
           CASE d \in opening[a] -> Append(alarms[d], [opened |-> s, closed |-> 0])
             [] d \in closing[a] -> Closed(alarms[d], s)
             [] OTHER            -> alarms[d]]
    /\ jobs' = [jobs EXCEPT ![a] = JobsOf(a)]
    /\ events' = events \cup recorded[a]
    /\ seen' = [d \in Def |->
           CASE d \in DOMAIN job[a].sig ->
                    Append(seen[d], [ts |-> s, sig |-> job[a].sig[d]])
             [] d \in LagoonLoss /\ a # Monitor ->
                    Append(seen[d], [ts |-> s, sig |-> "present"])
             [] OTHER -> seen[d]]
    /\ Unlock(a)
    /\ Clear(a)
    /\ UNCHANGED <<job, memoryVars, worldVars>>

(* dispatch_notifications hands the jobs to the pool; the handler answers  *)
(* 200 and updates the store, unless it has stopped waiting (504).         *)
Dispatch(a) ==
    /\ pc[a] = "committed"
    /\ pc' = [pc EXCEPT ![a] = "idle"]
    /\ job' = [job EXCEPT ![a] = NoJob]
    /\ jobs' = [jobs EXCEPT ![a] = {}]
    /\ outbox' = outbox \cup jobs[a]
    /\ \/ /\ a # Monitor /\ Accepts(job[a].ts)
          /\ answered' = job[a].ts
       \/ UNCHANGED answered
    /\ UNCHANGED <<recorded, todo, active, latest, opening, closing, lastState,
                   lastSeen, dbVars, now, boot, sent, mails, sends, faults,
                   crashes>>

(* An error in the transaction: the database rolls back, the memory stays. *)
Fail(a) ==
    /\ pc[a] \notin {"idle", "committed"}
    /\ faults < MaxFaults
    /\ faults' = faults + 1
    /\ pc' = [pc EXCEPT ![a] = "idle"]
    /\ job' = [job EXCEPT ![a] = NoJob]
    /\ Unlock(a)
    /\ Clear(a)
    /\ UNCHANGED <<jobs, memoryVars, events, alarms, seen, now, boot, sent,
                   answered, mails, sends, crashes>>

(* A worker of the pool sends a mail, or fails; neither is retried.        *)
Deliver ==
    \E e \in outbox :
        /\ outbox' = outbox \ {e}
        /\ \/ mails' = [mails EXCEPT ![e[1]] = Append(@, e[2])]
           \/ UNCHANGED mails
    /\ UNCHANGED <<actorVars, lastState, lastSeen, dbVars, now, boot, sent,
                   answered, sends, faults, crashes>>

(* The process stops and is started again.  Nothing in the application     *)
(* writes last_seen_ts, from which lastSeen could be read again.           *)
Restart ==
    /\ crashes < MaxCrashes
    /\ crashes' = crashes + 1
    /\ boot' = now
    /\ answered' = 0
    /\ pc' = [a \in Actor |-> "idle"]
    /\ job' = [a \in Actor |-> NoJob]
    /\ recorded' = Nobody /\ todo' = Nobody /\ active' = Nobody /\ latest' = Nobody
    /\ opening' = Nobody /\ closing' = Nobody /\ jobs' = Nobody
    /\ lock' = [d \in Def |-> NoActor]
    /\ lastState' = [d \in Transition |-> NoState]
    /\ lastSeen' = [d \in Loss |-> 0]
    /\ outbox' = {}
    /\ UNCHANGED <<events, alarms, seen, now, sent, mails, sends, faults>>

Tick ==
    /\ now < MaxTime
    /\ now' = now + 1
    /\ UNCHANGED <<actorVars, memoryVars, dbVars, boot, sent, answered, mails,
                   sends, faults, crashes>>

Next ==
    \/ \E p \in Proc : Send(p) \/ Store(p)
    \/ Check
    \/ \E a \in Actor : \/ LoadActive(a) \/ LoadLatest(a) \/ Decide(a)
                        \/ Lock(a) \/ Commit(a) \/ Dispatch(a) \/ Fail(a)
    \/ Deliver
    \/ Restart
    \/ Tick

Spec == Init /\ [][Next]_vars

(* A thread that can go on goes on; PostgreSQL serves the waiters of a row *)
(* lock in turn; the monitor comes back after its interval.                *)
Fairness ==
    /\ \A p \in Proc : WF_vars(Store(p))
    /\ \A a \in Actor : /\ WF_vars(LoadActive(a) \/ LoadLatest(a) \/ Decide(a))
                        /\ SF_vars(Lock(a))
                        /\ WF_vars(Commit(a) \/ Dispatch(a))
    /\ WF_vars(Check)

FairSpec == Spec /\ Fairness

-----------------------------------------------------------------------------
(* What holds for any number of requests                                   *)

(* A definition never has two active alarms, which the partial unique      *)
(* index would turn into a failed ingest.                                  *)
OneActiveAlarm == \A d \in Def : Cardinality(OpenAlarms(d)) <= 1

(* Alarms are opened and closed in turn and notified at most once each,    *)
(* only when they are stored, whatever is rolled back, repeated or lost.   *)
LifeCycle == INSTANCE AlarmLifeCycle WITH alarms <- alarms, mails <- mails
ImplementsLifeCycle == LifeCycle!Spec

(* Evaluations that lock several definitions never wait for each other in  *)
(* a circle.  The locks of scada_event rows, written by a Transition, are  *)
(* left out.                                                               *)
NoCircularWait ==
    ~ \E S \in (SUBSET Actor) \ {{}} : \A a \in S :
          pc[a] = "locking" /\ \A d \in NextDef(a) : lock[d] \in S

-----------------------------------------------------------------------------
(* What holds for one request at a time                                    *)

(* At most one request is in progress, next to the monitor.                *)
InTurn == \A p, q \in Proc : pc[p] # "idle" /\ pc[q] # "idle" => p = q

(* The clock has come to rest past the grace period; nothing has failed.   *)
AtRest == <>[](now >= boot + Grace)
Undisturbed == faults = 0 /\ crashes = 0
Silent(d) == now > seen[d][Len(seen[d])].ts + LagoonTimeout

(* When the clock is at rest, an alarm of the lagoon stays active only if  *)
(* no payload was stored for longer than the timeout, also after failures  *)
(* and restarts ...                                                        *)
AlarmMeansSilence ==
    AtRest => \A d \in LagoonLoss :
                 <>[](OpenNow(d) /\ seen[d] # <<>> => Silent(d))

(* ... and if nothing has failed, if and only if.                         *)
AlarmFollowsSilence ==
    AtRest => \A d \in LagoonLoss :
                 <>[](Undisturbed /\ seen[d] # <<>> => (OpenNow(d) <=> Silent(d)))

(* An alarm of a threshold is active if and only if a stored value has     *)
(* violated the limit and none since has come back past the deadband.      *)
AlarmFollowsThreshold ==
    \A d \in Threshold :
        OpenNow(d) <=> \E i \in 1 .. Len(seen[d]) :
            /\ seen[d][i].sig = "high"
            /\ \A j \in i .. Len(seen[d]) : seen[d][j].sig # "low"

(* An alarm of a transition is active if and only if the latest change of  *)
(* its tag is the one it waits for ...                                     *)
ChangeMatches(d, s) ==
    \E e \in events : /\ e.def = d /\ e.start <= s /\ Matches(e)
                      /\ ~ \E f \in events : /\ f.def = d /\ f.start <= s
                                             /\ f.start > e.start
AlarmFollowsTransition ==
    \A d \in Transition : seen[d] # <<>> =>
        (OpenNow(d) <=> ChangeMatches(d, seen[d][Len(seen[d])].ts))

(* ... with a delay: as of the payload before the last one with that tag.  *)
AlarmLagsTransition ==
    \A d \in Transition :
        OpenNow(d) <=> /\ Len(seen[d]) >= 2
                       /\ ChangeMatches(d, seen[d][Len(seen[d]) - 1].ts)

(* As long as nothing has failed, a payload without a tag that was heard   *)
(* before opens the alarm of the tag if and only if the timeout has passed *)
(* since, and one with the tag closes it.                                  *)
AlarmFollowsTag ==
    [][\A p \in Proc, d \in TagLoss :
          /\ pc[p] = "evaluating" /\ pc'[p] = "committed"
          /\ Undisturbed /\ seen[d] # <<>>
          => (OpenNow(d)' <=>
                 /\ d \notin DOMAIN job[p].sig
                 /\ job[p].ts > seen[d][Len(seen[d])].ts + TagTimeout)]_vars
=============================================================================
