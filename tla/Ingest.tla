------------------------------- MODULE Ingest -------------------------------
(***************************************************************************)
(* The online ingest of one lagoon: POST /ingest/scada                     *)
(* (app/routers/ingest.py), the memory and the rows it keeps               *)
(* (app/services/ingest_service.py), the realtime store it updates         *)
(* (app/state/store.py) and the watchdog that clears its memory            *)
(* (app/monitor/scada_watchdog.py).                                        *)
(*                                                                         *)
(* A request checks its timestamp on the event loop, works in a thread,    *)
(* and comes back to the loop, unless the loop has stopped waiting for it: *)
(* a timeout answers 504 and leaves the thread running.  The thread        *)
(* advances the memory under a lock, reads the open events, and commits    *)
(* later, so that threads of one lagoon overtake each other.               *)
(*                                                                         *)
(* A reading is identified by the time of its payload: the minute table,   *)
(* the minute buffer and the store say which payload a tag's value is of.  *)
(* Only the values of state tags are kept, because events depend on them.  *)
(***************************************************************************)
EXTENDS Naturals, Sequences, FiniteSets

CONSTANTS
    Tag,           \* the tags of the lagoon
    StateTag,      \* those with a state: is_state_or_bool_value
    State,         \* values of state tags
    Running,       \* the states in which a pump runs: _to_running_state
    NoState,       \* a tag whose state is not in memory
    Proc,          \* requests in progress
    MaxTime,       \* bound on the clock
    MinuteLen,     \* instants in a minute
    MaxAge,        \* SCADA_REALTIME_MAX_PAYLOAD_AGE_SEC
    StallTimeout,  \* SCADA_WATCHDOG_TIMEOUT_SEC
    Cooldown,      \* SCADA_WATCHDOG_RECOVERY_COOLDOWN_SEC
    MaxFaults,     \* bound on failed transactions in one behaviour
    MaxCrashes     \* bound on restarts of the process

ASSUME TagAssumption   == StateTag \subseteq Tag
ASSUME StateAssumption == Running \subseteq State /\ NoState \notin State
ASSUME TimeAssumption  == /\ MaxTime \in Nat \ {0} /\ MinuteLen \in Nat \ {0}
                          /\ MaxAge \in Nat /\ StallTimeout \in Nat
                          /\ Cooldown \in Nat
ASSUME BoundAssumption == MaxFaults \in Nat /\ MaxCrashes \in Nat

(* Times count from 1, and 0 stands for none; so do minutes.               *)
Time == 1 .. MaxTime
MinuteOf(s) == 1 + s \div MinuteLen
Minute == 1 .. MinuteOf(MaxTime)

(* For every tag the time of the payload its value is of, 0 if it has none. *)
Readings == [Tag -> 0 .. MaxTime]
NoReadings == [t \in Tag |-> 0]
NoBuffer == [bucket |-> 0, tags |-> NoReadings]
Buffer == [bucket: {0} \cup Minute, tags: Readings]

Payload == UNION {[ts: Time, tags: {T}, state: [StateTag \cap T -> State]] :
                      T \in SUBSET Tag}
NoPayload == [ts |-> 0, tags |-> {}, state |-> [t \in {} |-> NoState]]

(* A row of scada_event; end = 0 is an event without end_ts.               *)
EventRow == [prev: State, state: State, start: Time, end: 0 .. MaxTime]
Change == [prev: State, state: State]
Changes == UNION {[T -> Change] : T \in SUBSET StateTag}

VARIABLES
    now,         \* the clock
    lastSent,    \* the collector: the last payload it sent
    pc, req,     \* a request: where it is and its payload
    waiting,     \* whether the handler still waits for the thread
    changes,     \* detected_events of a thread
    flush,       \* the minute a thread has taken out of the buffer
    found,       \* the open event a thread has loaded for a tag, by its place
    lastState,   \* _last_state
    buffer,      \* _minute_buffers
    lastIngest,  \* _runtime_metrics["last_ingest_utc"]
    events,      \* scada_event, in the order of insertion
    row,         \* scada_minute
    storeTs,     \* the store: _last_ts
    shown,       \* the store: _tags
    pumpLastOn,  \* the store: _pump_last_on
    startTs,     \* the store: _start_ts
    watchdog,    \* whether the watchdog has decided to recover
    recovered,   \* _last_recovery_utc
    acked,       \* for a tag, the times of its readings that were answered 200
    faults, crashes

threadVars == <<pc, req, waiting, changes, flush, found>>
memoryVars == <<lastState, buffer, lastIngest>>
dbVars     == <<events, row>>
storeVars  == <<storeTs, shown, pumpLastOn, startTs>>
watchVars  == <<watchdog, recovered>>
worldVars  == <<now, lastSent, acked, faults, crashes>>
vars == <<threadVars, memoryVars, dbVars, storeVars, watchVars, worldVars>>

(* queued: accepted, handed to a thread;  detected: the memory has         *)
(* advanced;  found: the open events are loaded, nothing is committed;     *)
(* stored: committed, on the way back to the event loop.                   *)
Pc == {"idle", "queued", "detected", "found", "stored"}

TypeOK ==
    /\ now \in Time
    /\ lastSent \in Payload \cup {NoPayload}
    /\ pc \in [Proc -> Pc]
    /\ req \in [Proc -> Payload \cup {NoPayload}]
    /\ waiting \in [Proc -> BOOLEAN]
    /\ changes \in [Proc -> Changes]
    /\ flush \in [Proc -> Buffer]
    /\ found \in [Proc -> [StateTag -> Nat]]
    /\ lastState \in [StateTag -> State \cup {NoState}]
    /\ buffer \in Buffer
    /\ lastIngest \in 0 .. MaxTime
    /\ events \in [StateTag -> Seq(EventRow)]
    /\ row \in [Minute -> Readings]
    /\ storeTs \in 0 .. MaxTime
    /\ shown \in Readings
    /\ pumpLastOn \in [StateTag -> 0 .. MaxTime]
    /\ startTs \in 0 .. MaxTime
    /\ watchdog \in {"idle", "recovering"}
    /\ recovered \in 0 .. MaxTime
    /\ acked \in [Tag -> SUBSET Time]
    /\ faults \in 0 .. MaxFaults /\ crashes \in 0 .. MaxCrashes

NoChanges == [t \in {} |-> NoState]
NoneFound == [t \in StateTag |-> 0]

Init ==
    /\ now = 1
    /\ lastSent = NoPayload
    /\ pc = [p \in Proc |-> "idle"]
    /\ req = [p \in Proc |-> NoPayload]
    /\ waiting = [p \in Proc |-> FALSE]
    /\ changes = [p \in Proc |-> NoChanges]
    /\ flush = [p \in Proc |-> NoBuffer]
    /\ found = [p \in Proc |-> NoneFound]
    /\ lastState = [t \in StateTag |-> NoState]
    /\ buffer = NoBuffer
    /\ lastIngest = 0
    /\ events = [t \in StateTag |-> <<>>]
    /\ row = [m \in Minute |-> NoReadings]
    /\ storeTs = 0
    /\ shown = NoReadings
    /\ pumpLastOn = [t \in StateTag |-> 0]
    /\ startTs = 0
    /\ watchdog = "idle"
    /\ recovered = 0
    /\ acked = [t \in Tag |-> {}]
    /\ faults = 0 /\ crashes = 0

-----------------------------------------------------------------------------
(* Helpers                                                                 *)

(* Some readings laid over others: dict.update.                            *)
Over(old, new) == [t \in Tag |-> IF new[t] # 0 THEN new[t] ELSE old[t]]

ReadingsOf(r) == [t \in Tag |-> IF t \in r.tags THEN r.ts ELSE 0]

(* accepts_update_ts: neither too old for realtime nor overtaken.          *)
Accepts(s) == s + MaxAge >= now /\ s > storeTs

(* Seeded faults: a tag that is not in memory counts as changed, or only a *)
(* pump that starts does.                                                  *)
ChangesOf_NoInit(r) ==
    LET changed == {t \in StateTag \cap r.tags : lastState[t] # r.state[t]}
    IN  [t \in changed |-> [prev |-> lastState[t], state |-> r.state[t]]]

ChangesOf_OnlyStarts(r) ==
    LET changed == {t \in StateTag \cap r.tags :
                       /\ lastState[t] \notin Running \cup {NoState}
                       /\ r.state[t] \in Running}
    IN  [t \in changed |-> [prev |-> lastState[t], state |-> r.state[t]]]

(* The changes a payload makes to the states in memory.  A tag seen for    *)
(* the first time only initialises its state.                              *)
ChangesOf(r) ==
    LET changed == {t \in StateTag \cap r.tags :
                       lastState[t] \notin {NoState, r.state[t]}}
    IN  [t \in changed |-> [prev |-> lastState[t], state |-> r.state[t]]]

(* The tags whose pump a thread has seen start: pump_last_on_updates.      *)
Started(p) == {t \in DOMAIN changes[p] : /\ changes[p][t].prev \notin Running
                                         /\ changes[p][t].state \in Running}

Open(t) == {i \in 1 .. Len(events[t]) : events[t][i].end = 0}

(* The open event with the largest start_ts, 0 if there is none.           *)
LatestOpen(t) ==
    IF Open(t) = {} THEN {0}
    ELSE {i \in Open(t) : \A j \in Open(t) :
                              events[t][j].start <= events[t][i].start}

(* The thread has ended and nobody waits for it any more.                  *)
Finish(p) ==
    /\ pc' = [pc EXCEPT ![p] = "idle"]
    /\ req' = [req EXCEPT ![p] = NoPayload]
    /\ waiting' = [waiting EXCEPT ![p] = FALSE]
    /\ changes' = [changes EXCEPT ![p] = NoChanges]
    /\ flush' = [flush EXCEPT ![p] = NoBuffer]
    /\ found' = [found EXCEPT ![p] = NoneFound]

-----------------------------------------------------------------------------
(* The handler on the event loop                                           *)

(* {"ok": True} for a payload: the collector does not send it again.       *)
Ok(r) ==
    acked' = [t \in Tag |-> IF t \in r.tags THEN acked[t] \cup {r.ts} ELSE acked[t]]

(* A payload that is too old or overtaken is answered 200 and dropped.     *)
Receive(p, r) ==
    /\ pc[p] = "idle"
    /\ lastSent' = r
    /\ IF Accepts(r.ts)
       THEN /\ pc' = [pc EXCEPT ![p] = "queued"]
            /\ req' = [req EXCEPT ![p] = r]
            /\ waiting' = [waiting EXCEPT ![p] = TRUE]
            /\ UNCHANGED acked
       ELSE Ok(r) /\ UNCHANGED <<pc, req, waiting>>
    /\ UNCHANGED <<changes, flush, found, memoryVars, dbVars, storeVars,
                   watchVars, now, faults, crashes>>

(* The collector reads the tags in cycles and sends a payload again when   *)
(* it was not answered.                                                    *)
Send(p) ==
    \/ \E r \in Payload : /\ lastSent.ts < r.ts /\ r.ts = now
                          /\ Receive(p, r)
    \/ /\ lastSent # NoPayload
       /\ Receive(p, lastSent)

(* asyncio.wait_for gives up: 504.  A thread that has not started is       *)
(* cancelled, one that has started goes on.                                *)
TimeOut(p) ==
    /\ waiting[p]
    /\ \/ /\ pc[p] = "queued"
          /\ Finish(p)
       \/ /\ waiting' = [waiting EXCEPT ![p] = FALSE]
          /\ UNCHANGED <<pc, req, changes, flush, found>>
    /\ UNCHANGED <<memoryVars, dbVars, storeVars, watchVars, worldVars>>

(* The thread's result reaches the handler, which checks the timestamp     *)
(* once more, updates the store and answers 200.                           *)
Answer(p) ==
    LET r == req[p] IN
    /\ pc[p] = "stored"
    /\ Finish(p)
    /\ IF waiting[p] THEN Ok(r) ELSE UNCHANGED acked
    /\ IF waiting[p] /\ Accepts(r.ts)
       THEN /\ storeTs' = r.ts
            /\ shown' = Over(shown, ReadingsOf(r))
            /\ pumpLastOn' = [t \in StateTag |->
                   IF t \in Started(p) THEN r.ts ELSE pumpLastOn[t]]
            /\ startTs' = IF Started(p) # {} THEN r.ts ELSE startTs
       ELSE UNCHANGED storeVars
    /\ UNCHANGED <<memoryVars, dbVars, watchVars, now, lastSent, faults,
                   crashes>>

-----------------------------------------------------------------------------
(* The thread                                                              *)

(* The states in memory after a payload.                                   *)
NewStates(r) ==
    [t \in StateTag |-> IF t \in r.tags THEN r.state[t] ELSE lastState[t]]

(* Seeded fault: nobody takes the full minute.                             *)
Buffering_DropsMinute(p, r) ==
    /\ buffer' = [bucket |-> MinuteOf(r.ts),
                  tags |-> IF MinuteOf(r.ts) = buffer.bucket
                           THEN Over(buffer.tags, ReadingsOf(r))
                           ELSE ReadingsOf(r)]
    /\ UNCHANGED flush

(* Seeded fault: a payload of the buffered minute replaces the buffer.     *)
Buffering_Replaces(p, r) ==
    LET bucket == MinuteOf(r.ts) IN
    /\ buffer' = IF bucket >= buffer.bucket
                 THEN [bucket |-> bucket, tags |-> ReadingsOf(r)] ELSE buffer
    /\ flush' = IF buffer # NoBuffer /\ bucket > buffer.bucket
                THEN [flush EXCEPT ![p] = buffer] ELSE flush

(* The minute buffer after a payload: the first payload of a later minute  *)
(* takes the full minute out of the buffer; one of an earlier minute       *)
(* leaves the buffer alone.                                                *)
Buffering(p, r) ==
    LET bucket == MinuteOf(r.ts)
        fresh == [bucket |-> bucket, tags |-> ReadingsOf(r)] IN
    \/ /\ buffer = NoBuffer
       /\ buffer' = fresh
       /\ UNCHANGED flush
    \/ /\ buffer # NoBuffer /\ bucket = buffer.bucket
       /\ buffer' = [buffer EXCEPT !.tags = Over(@, ReadingsOf(r))]
       /\ UNCHANGED flush
    \/ /\ buffer # NoBuffer /\ bucket > buffer.bucket
       /\ flush' = [flush EXCEPT ![p] = buffer]
       /\ buffer' = fresh
    \/ /\ buffer # NoBuffer /\ bucket < buffer.bucket
       /\ UNCHANGED <<buffer, flush>>

(* The section of ingest() under _lock: compare with the states in memory, *)
(* advance them, and put the payload into the minute buffer.               *)
Detect(p) ==
    /\ pc[p] = "queued"
    /\ pc' = [pc EXCEPT ![p] = "detected"]
    /\ changes' = [changes EXCEPT ![p] = ChangesOf(req[p])]
    /\ lastState' = NewStates(req[p])
    /\ Buffering(p, req[p])
    /\ UNCHANGED <<req, waiting, found, lastIngest, dbVars, storeVars,
                   watchVars, worldVars>>

(* The rest of ingest(): for every change the open event of the tag, as    *)
(* the database has it now.  Each tag is looked up at its own moment in    *)
(* the code; the events of a tag do not depend on those of another.        *)
Find(p) ==
    /\ pc[p] = "detected"
    /\ pc' = [pc EXCEPT ![p] = "found"]
    /\ \E f \in [StateTag -> UNION {LatestOpen(t) : t \in StateTag} \cup {0}] :
          /\ \A t \in StateTag :
                f[t] \in IF t \in DOMAIN changes[p] THEN LatestOpen(t) ELSE {0}
          /\ found' = [found EXCEPT ![p] = f]
    /\ lastIngest' = now
    /\ UNCHANGED <<req, waiting, changes, flush, lastState, buffer, dbVars,
                   storeVars, watchVars, worldVars>>

(* Seeded fault: the open event is closed at the time of the clock.        *)
Record_EndsNow(evs, i, c, s) ==
    Append([j \in 1 .. Len(evs) |->
               IF j = i THEN [evs[j] EXCEPT !.end = now] ELSE evs[j]],
           [prev |-> c.prev, state |-> c.state, start |-> s, end |-> 0])

(* The events of a tag after a change at time s: the event that was found  *)
(* is closed, even if another thread has closed it since, and a new one is *)
(* inserted.                                                               *)
Record(evs, i, c, s) ==
    Append([j \in 1 .. Len(evs) |->
               IF j = i THEN [evs[j] EXCEPT !.end = s] ELSE evs[j]],
           [prev |-> c.prev, state |-> c.state, start |-> s, end |-> 0])

(* The commit: the changes of this thread and the minute it has taken out  *)
(* of the buffer become visible together.                                  *)
Commit(p) ==
    LET m == flush[p].bucket IN
    /\ pc[p] = "found"
    /\ pc' = [pc EXCEPT ![p] = "stored"]
    /\ events' = [t \in StateTag |->
           IF t \in DOMAIN changes[p]
           THEN Record(events[t], found[p][t], changes[p][t], req[p].ts)
           ELSE events[t]]
    /\ row' = IF m = 0 THEN row
              ELSE [row EXCEPT ![m] = Over(@, flush[p].tags)]
    /\ flush' = [flush EXCEPT ![p] = NoBuffer]
    /\ found' = [found EXCEPT ![p] = NoneFound]
    /\ UNCHANGED <<req, waiting, changes, memoryVars, storeVars, watchVars,
                   worldVars>>

(* Seeded fault: the error is swallowed and the handler carries on.        *)
Fail_Swallowed(p) ==
    /\ pc[p] \in {"queued", "detected", "found"}
    /\ faults < MaxFaults
    /\ faults' = faults + 1
    /\ pc' = [pc EXCEPT ![p] = "stored"]
    /\ UNCHANGED <<req, waiting, changes, flush, found, memoryVars, dbVars,
                   storeVars, watchVars, now, lastSent, acked, crashes>>

(* Anything in the transaction fails: an unknown lagoon, a lock timeout, a *)
(* terminated connection.  The database rolls back, the memory does not.   *)
Fail(p) ==
    /\ pc[p] \in {"queued", "detected", "found"}
    /\ faults < MaxFaults
    /\ faults' = faults + 1
    /\ Finish(p)
    /\ UNCHANGED <<memoryVars, dbVars, storeVars, watchVars, now, lastSent,
                   acked, crashes>>

-----------------------------------------------------------------------------
(* The watchdog                                                            *)

(* _is_stalled, and the cooldown of _recover.                              *)
WatchdogDecide ==
    /\ watchdog = "idle"
    /\ lastIngest # 0 /\ now - lastIngest > StallTimeout
    /\ recovered = 0 \/ now - recovered >= Cooldown
    /\ watchdog' = "recovering"
    /\ recovered' = now
    /\ UNCHANGED <<threadVars, memoryVars, dbVars, storeVars, worldVars>>

(* reset_runtime_state, in a thread of its own and some time later; it is  *)
(* skipped when the lock is busy.  Terminating the transactions that are   *)
(* idle is a Fail of theirs.                                               *)
WatchdogReset ==
    /\ watchdog = "recovering"
    /\ watchdog' = "idle"
    /\ \/ /\ lastState' = [t \in StateTag |-> NoState]
          /\ buffer' = NoBuffer
       \/ UNCHANGED <<lastState, buffer>>
    /\ UNCHANGED <<threadVars, lastIngest, dbVars, storeVars, recovered,
                   worldVars>>

-----------------------------------------------------------------------------
(* The view vw_scada_last_3_pump_actions: when the pump of a tag was last  *)
(* started.                                                                *)
Starts(t) == {events[t][i].start : i \in {j \in 1 .. Len(events[t]) :
                 events[t][j].state \in Running /\ events[t][j].prev \notin Running}}
LastStart(t) == IF Starts(t) = {} THEN {0}
                ELSE {s \in Starts(t) : \A u \in Starts(t) : u <= s}

(* The process stops and is started again: threads, memory and store are   *)
(* gone, and the lifespan preloads when the pumps were started.            *)
Restart ==
    /\ crashes < MaxCrashes
    /\ crashes' = crashes + 1
    /\ pc' = [p \in Proc |-> "idle"]
    /\ req' = [p \in Proc |-> NoPayload]
    /\ waiting' = [p \in Proc |-> FALSE]
    /\ changes' = [p \in Proc |-> NoChanges]
    /\ flush' = [p \in Proc |-> NoBuffer]
    /\ found' = [p \in Proc |-> NoneFound]
    /\ lastState' = [t \in StateTag |-> NoState]
    /\ buffer' = NoBuffer
    /\ lastIngest' = 0
    /\ storeTs' = 0
    /\ shown' = NoReadings
    /\ \E f \in [StateTag -> 0 .. MaxTime] :
          /\ \A t \in StateTag : f[t] \in LastStart(t)
          /\ pumpLastOn' = f
    /\ startTs' = 0
    /\ watchdog' = "idle"
    /\ recovered' = 0
    /\ UNCHANGED <<dbVars, now, lastSent, acked, faults>>

Tick ==
    /\ now < MaxTime
    /\ now' = now + 1
    /\ UNCHANGED <<threadVars, memoryVars, dbVars, storeVars, watchVars,
                   lastSent, acked, faults, crashes>>

Next ==
    \/ \E p \in Proc : \/ Send(p) \/ TimeOut(p) \/ Answer(p)
                       \/ Detect(p) \/ Find(p) \/ Commit(p) \/ Fail(p)
    \/ WatchdogDecide \/ WatchdogReset
    \/ Restart
    \/ Tick

Spec == Init /\ [][Next]_vars

-----------------------------------------------------------------------------
(* What holds however threads overtake each other                          *)

(* While the process runs, the store never replaces a reading by an older  *)
(* one and its timestamp never goes back, although the timestamp is        *)
(* checked before the thread and the store is updated after it.            *)
StoreForward ==
    [][crashes' = crashes =>
          /\ storeTs' >= storeTs
          /\ \A t \in Tag : shown'[t] >= shown[t]]_vars

(* The store never says a pump was started at a time the database has no   *)
(* event for: what a rolled back or abandoned thread detected is not shown. *)
PumpOnHasEvent ==
    \A t \in StateTag : pumpLastOn[t] # 0 =>
        \E i \in 1 .. Len(events[t]) : /\ events[t][i].start = pumpLastOn[t]
                                       /\ events[t][i].state \in Running

(* start_ts of the store is the start of the pump that was started last.   *)
StartIsLastPump ==
    startTs # 0 =>
        /\ \E t \in StateTag : pumpLastOn[t] = startTs
        /\ \A t \in StateTag : pumpLastOn[t] <= startTs

(* A row of a minute holds readings of that minute only, although the      *)
(* minute is written by the thread of a payload of another minute.         *)
RowOfItsMinute ==
    \A m \in Minute, t \in Tag : row[m][t] # 0 => MinuteOf(row[m][t]) = m

(* Nothing has failed, and neither a restart nor the watchdog has cleared   *)
(* the memory.                                                             *)
Undisturbed == faults = 0 /\ crashes = 0 /\ recovered = 0

(* How often a tag has come into a state, or left it, in the table and in  *)
(* the threads under way.                                                  *)
Into(t, s) ==
    Cardinality({i \in 1 .. Len(events[t]) : events[t][i].state = s})
    + Cardinality({p \in Proc : /\ pc[p] \in {"detected", "found"}
                                /\ t \in DOMAIN changes[p]
                                /\ changes[p][t].state = s})
OutOf(t, s) ==
    Cardinality({i \in 1 .. Len(events[t]) : events[t][i].prev = s})
    + Cardinality({p \in Proc : /\ pc[p] \in {"detected", "found"}
                                /\ t \in DOMAIN changes[p]
                                /\ changes[p][t].prev = s})

(* As long as nothing has failed no change is recorded twice or skipped:   *)
(* for every tag the changes in the table and those of the threads under   *)
(* way, taken together, lead from one state to the state in memory.        *)
ChangesLeadToMemory ==
    Undisturbed => \A t \in StateTag : lastState[t] # NoState =>
        \E first \in State : \A s \in State :
            Into(t, s) + (IF s = first THEN 1 ELSE 0)
                = OutOf(t, s) + (IF s = lastState[t] THEN 1 ELSE 0)

-----------------------------------------------------------------------------
(* What holds when a request is in progress only after the previous thread *)
(* has ended                                                               *)

(* At most one request is in progress.                                     *)
InTurn == \A p, q \in Proc : pc[p] # "idle" /\ pc[q] # "idle" => p = q

(* The events of a tag tile the time since the first of them, whatever     *)
(* failed or was restarted in between: an event ends when the next starts, *)
(* after a positive time, and the last one is open.                        *)
EventsTile ==
    \A t \in StateTag : \A i \in 1 .. Len(events[t]) :
        IF i = Len(events[t]) THEN events[t][i].end = 0
        ELSE /\ events[t][i].end = events[t][i + 1].start
             /\ events[t][i].start < events[t][i].end

(* As long as nothing has failed, each event starts from the state the one *)
(* before it ended in.                                                     *)
EventsChain ==
    Undisturbed => \A t \in StateTag : \A i \in 2 .. Len(events[t]) :
        events[t][i].prev = events[t][i - 1].state

(* A reading is in the minute table, or a newer one of its minute is, or   *)
(* it is still on its way there: in the buffer or in the hands of a thread. *)
Kept(t, s) ==
    LET m == MinuteOf(s) IN
    \/ row[m][t] >= s
    \/ buffer.bucket = m /\ buffer.tags[t] >= s
    \/ \E p \in Proc : flush[p].bucket = m /\ flush[p].tags[t] >= s

Lost(t, s) == s \in acked[t] /\ ~ Kept(t, s)

(* A reading that is answered 200 is lost only in one of four ways: it     *)
(* comes too old, after an earlier try of it was abandoned or failed, and  *)
(* is answered without a thread; or a transaction fails that had taken its *)
(* minute out of the buffer; or the process stops, or the watchdog has     *)
(* recovered, before anything of its minute was written.  A minute that    *)
(* has a row loses nothing any more of what a thread was answered for.     *)
LostWithItsMinute ==
    [][\A t \in Tag, s \in Time : ~ Lost(t, s) /\ Lost(t, s)' =>
          \/ s \notin acked[t] /\ s + MaxAge < now /\ UNCHANGED pc
          \/ faults' # faults /\ \E p \in Proc : flush[p].bucket = MinuteOf(s)
          \/ crashes' # crashes /\ row[MinuteOf(s)] = NoReadings
          \/ recovered # 0 /\ row[MinuteOf(s)] = NoReadings]_vars

(* As long as no transaction has failed and the watchdog has not recovered *)
(* since the process started, what the store shows is kept: no reading is  *)
(* seen that the minute table will not have, unless the process stops.     *)
ShownReadingKept ==
    faults = 0 /\ recovered = 0 =>
        \A t \in Tag : shown[t] # 0 => Kept(t, shown[t])
=============================================================================
