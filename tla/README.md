# Crystal backend: a TLA+ verification project

The Crystal backend receives what collectors read in lagoons (tags: pumps,
valves, temperatures ...), stores minutes and events, evaluates alarms, feeds
dashboards over WebSockets, drives the equipment of small lagoons, and imports
files that an offline collector uploads after an outage. It is one FastAPI
process under Uvicorn (`docs/OFFLINE_TRANSFER.md:33`) with one event loop, a
pool of worker threads and a PostgreSQL database.

This directory models it in TLA+, checks the models with TLC on small
instances and proves the main properties with TLAPS for all values of the
parameters. `PROJECT.json` links every definition to the lines it models
(`map`), every property to a run and to a seeded fault it detects (`mutants`),
and lists the hazards of the code (`hazards`).

    tlc -workers 2 -config OfflineTransfer_overlap.cfg MCOfflineTransfer.tla
    tlc -workers 2 -config Upload_front.cfg MCUpload.tla
    tlc -workers 2 -config Ingest_overlap.cfg MCIngest.tla
    tlc -workers 2 -config AlarmEngine_overlap.cfg MCAlarmEngine.tla
    tlc -workers 2 -config Realtime_fanout.cfg MCRealtime.tla
    tlc -workers 2 -config SmallControl_overlap.cfg MCSmallControl.tla
    tlapm OfflineTransferProofs.tla      # and UploadProofs, RealtimeProofs,
                                         # SmallControlProofs,
                                         # IngestProofs, IngestInTurnProofs,
                                         # AlarmEngineProofs, AlarmInTurnProofs


## 1. Inventory

| Component | State it keeps | Operations | Hard behaviour |
|---|---|---|---|
| **Offline transfer** `services/offline_transfer_service.py`, `offline_transfer_importer.py`, `routers/offline_transfer.py` | rows `offline_transfer` (status, assembled_path) and `offline_transfer_part`; part files in `Incoming`; assembled files in `Ready`, `Imported`, `Failed`; PostgreSQL row locks and two advisory locks; SQLAlchemy's identity map | `create_transfer`, `receive_part`, `complete_transfer` (three transactions), `_persist_failed`, status | a file and a row cannot be changed together; locks are given up half way; a session decides on an attribute it cached; the collector retries everything and deletes its copy on VERIFIED |
| **Upload on the event loop** `routers/offline_transfer.py` (`PUT` is a coroutine, `complete` runs in a thread) | the event loop, row locks held while the body is awaited | a synchronous `SELECT FOR UPDATE` inside a coroutine | the loop waits for a row whose holder needs the loop; `lock_timeout` (`db/session.py:15-30`) ends it |
| **Online ingest** `routers/ingest.py`, `services/ingest_service.py` | `_last_state`, `_minute_buffers` in memory; `scada_event`, `scada_minute` rows | `ingest`, `reset_runtime_state`, the HTTP handler with its timeout | memory advances before the transaction commits; worker threads of one lagoon overtake each other; a 504 does not stop the thread |
| **Alarm engine** `alarms/service.py`, `repository.py`, `silence_monitor.py` | `alarm` rows (a partial unique index allows one active alarm per definition), `_comm_loss_last_seen` in memory | `evaluate_alarms`, `open_alarm`, `close_alarm`, `_route_notifications`, silence monitor | two evaluations race; comm-loss ages live in memory; notifications follow the commit |
| **Notifications** `integration/notifications.py`, `email_service.py` | none of its own | `dispatch_notifications` after the commit | lost if the process stops between commit and dispatch |
| **Realtime store and WebSocket fan-out** `state/store.py`, `ws/manager.py`, `routers/websocket.py` | last tags and timestamp per lagoon, set of sockets per lagoon, an asyncio lock | `update`, `accepts_update_ts`, `connect`, `disconnect`, `broadcast`, the stream handler | every `await` is an interleaving point: the timestamp is checked before one and used after it, a snapshot is sent before the socket is subscribed, a failed send removes sockets while others come and go |
| **Watchdog** `monitor/scada_watchdog.py` | time of the last recovery | `_is_stalled`, `_recover` | clears the ingest memory while requests are running |
| **Small lagoon control** `services/small_opcua_control.py`, `routers/small/control.py`, `small_control_audit.py` | registers of the PLCs, audit rows, one lock per lagoon, module and endpoint | pulse, configured write, audit begin/complete/fail | a pulse is two writes; a write that fails may have been applied, or may be later; the audit row is committed before the write and again after it |
| Legacy persist queue `persist/` | a queue | put, drain | not started by `main.py` |
| Authentication, roles, second factor | users, tokens | request filters | none across requests |
| Queries, exports, configuration, chemicals | – | SQL and formatting | none |
| Start-up `main.py` | – | preload of the state store, start of watchdog and monitor | order of start and stop |

How they interact: the ingest handler runs `ingest` and `evaluate_alarms` in
one transaction in a worker thread, dispatches notifications after the commit,
and back on the event loop updates the store and broadcasts. The watchdog
resets the memory of the ingest. The offline transfer and the ingest meet in
the table `scada_minute`, where the online copy of a minute wins.

What makes each correct:

* Offline transfer: nothing the collector has let go of is lost; a file is
  where a retry looks for it; one import at a time; failures do not replace
  results; requests end; a collector that keeps trying succeeds.
* Upload: a stalled upload cannot stop the backend for ever; two registrations
  of one chunk get one row; the parts are the file.
* Ingest: one open event per tag, events that tile its time line, no change
  recorded twice, no minute lost between memory and table, a store that only
  shows what was committed.
* Alarms: one active alarm per definition, every opened alarm is closed by the
  condition that opened it, each transition is notified at most once.
* Realtime: what a client shows never goes back in time and ends up equal to
  the store; a socket is in the manager exactly as long as it is served.
* Small control: two pulses never have two coils of a module on together; the
  audit row tells what happened to the equipment; only what the configuration
  allows is driven.


## 2. Plan

| # | Module | Question | State |
|---|---|---|---|
| 1 | `OfflineTransfer`, abstract `DurableDelivery` | is a chunk stored before the collector deletes it, through retries, crashes and concurrent requests? | proved; liveness checked |
| 2 | `Ingest` | do memory, minutes, events and the store stay together when threads overtake each other and transactions fail? with the watchdog's reset and the HTTP timeout | proved |
| 3 | `Realtime`, abstract `ReplicaView` | what a WebSocket client ends up showing: the snapshot before the subscription, broadcasts that await, sockets that come and go | proved |
| 4 | `AlarmEngine`, abstract `AlarmLifeCycle` | one active alarm, row locks, deadband, comm-loss memory, alarms of transitions, notifications after the commit | proved; liveness checked |
| 5 | `Upload` | registrations that race, parts that tile the file, uploads that block the event loop and hold row locks | proved; liveness checked |
| 6 | `ControlTargets`, `SmallControl` | what a control request may write, the interlock of a pump, the audit | proved |
| 7 | `IngestInTurnProofs`, `AlarmInTurnProofs` | what the events, the minutes and the alarms are when requests come one at a time, for all values of the parameters | proved |

Every safety and action property of the passing runs is stated by a theorem.
Five properties are liveness under fairness, which the prover does not do:
`RequestsEnd`, `Delivered`, `AlarmMeansSilence`, `AlarmFollowsSilence` and
`NothingStalls` are checked by TLC only.

Where the modules meet: `Upload` and `OfflineTransfer` are the two halves of the
offline transfer. `OfflineTransfer` starts with rows that are UPLOADING and has
what a completion does; `Upload` has how the rows come to be, and reduces a
completion to the lock it holds and the end of UPLOADING. `Ingest` contains the
store of `Realtime` (what its tags show); `Realtime` contains what happens after
the handler of `Ingest` updates it, with a version for its contents.
`AlarmEngine` runs in the threads and transactions of `Ingest` and has its own
copy of the handler, without minutes. `SmallControl` extends `ControlTargets`.

All are written alike: one action per handler step, guards
from the code, constants with named assumptions, invariants as conjunctions of
named parts, no recursive operator in a module with theorems.


## 3. OfflineTransfer

### Model and code

A process (`Proc`) is a request being served, with its database session. `pc`
is where in `receive_part` (`p_...`), `complete_transfer` (`c_...`) or
`_persist_failed` (`f_...`) it can be overtaken; an action runs from one such
point to the next, because what is between is done under a row lock or touches
nothing that is shared.

* **The row.** `status`, `assembledPath` are the committed columns; `sess[p]`
  is what the session of `p` has cached. `Load` is the first SELECT after a
  commit or rollback, or `db.refresh`; a later `SELECT ... FOR UPDATE` in the
  same transaction takes `rowLock` and leaves `sess` alone. `Flushed` is the
  unit of work: a column is emitted if its value differs from the cached one.
  `WriteStatus` is `transition()`, with `AllowedTransitions` looked up from
  the cached status.
* **The locks.** `rowLock`, and the two advisory locks `globalLock` and
  `transferLock` of `_acquire_import_locks`, all released by commit or
  rollback (`ReleaseLocks`).
* **The files.** `partFile` (a part as announced, other bytes, damaged or
  missing) and `file[t][d]` (good, bad or none in Ready, Imported, Failed).
  `os.replace` is atomic; the move and the commit are separate steps wherever
  they are in the code: `PartStore`/`PartCommit`, `Assemble`/`CommitReady`,
  `RestoreFailed`/`CommitReady`, `ImportMove`/`CommitVerified`,
  `PersistMove`/`CommitFailed`.
* **The data.** A part is the manifest's (`"good"`) or has other bytes of the
  right length (`"bad"`); sizes, digests and CSV contents are not modelled. A
  row of the minute table is `absent`, `online` or `offline`.
* **The idle session.** A PUT waits for its body with its row locked
  (`p_receive`). PostgreSQL ends a session that idles in a transaction
  (`db/session.py:12-19`): `IdleTimeout` frees the lock and the handler does
  not know (`p_adrift`). If the body does arrive, `StoreAdrift` still renames
  the file into place (`offline_transfer_service.py:495`), without the lock,
  and only then does its commit fail. `overwritten` remembers the parts whose
  other bytes such a rename has replaced. `Stalling` names the transfers whose
  bodies may take that long.
* **The world.** `Abort` (a request ends in a 5xx: lock timeout, database or
  disk error, broken upload, a session ended at any other point), `ImportFails`
  (an error inside the import, which the code catches), `Crash` (the process
  stops), `DamagePart` (the spool loses or damages a part), `Poll` (the
  collector deletes its chunk on VERIFIED), `OnlineUpsert` (the ingest writes a
  minute).

`DurableDelivery` says the same to the collector without any of it: `Import`
adds the missing rows of a chunk in one step, `Drop` needs them stored.

### Properties

| Property | Says | Hazard |
|---|---|---|
| `TypeOK` | types | |
| `ImportExclusive` | one request between taking the import locks and the end of that transaction | the locks are given up and taken again half way |
| `NothingLost` | a dropped chunk is stored row by row | every path to VERIFIED |
| `ConfirmedPartOnDisk` | a confirmed part is on disk with the bytes it was confirmed with, unless the spool damaged it or a PUT whose session was ended while its body came has replaced it by other bytes | rename before commit; adopted orphans; the idle timeout |
| `FileRecoverable` | READY or IMPORTING: a valid file is in Ready, Imported or Failed | move before commit |
| `VerifiedFileKept` | VERIFIED: the file is in Imported | a late `_persist_failed` of another request |
| `IllegalOnlyWhenStale` | a status change outside `ALLOWED_TRANSITIONS` is by a session whose cached status is outdated, and only to IMPORTING or VERIFIED | lock after load |
| `ImplementsDelivery` | `DurableDelivery` is implemented | concurrent imports and online writes |
| `RequestsEnd` | no request waits for ever, but for a PUT whose client never sends its body, and that one without its lock | row lock and advisory locks taken in both orders |
| `Delivered` | a collector that repeats its requests gets its chunk stored and acknowledged | crash between move and commit, then retry |
| `TerminalIsFinal` | VERIFIED and QUARANTINED do not change | **violated**, see below |

### Runs and bounds

| Run | Instance | Shows |
|---|---|---|
| `overlap` | 2 transfers with the same minute, one of them stalling, 1 part, 2 requests of any kind, 1 failure, crash or damaged part, symmetric processes (1.5 million states) | `TypeOK`, `ImportExclusive`, `NothingLost`, `IllegalOnlyWhenStale`, `ImplementsDelivery` |
| `live` | 1 transfer that stalls, 2 parts, 2 requests of any kind, 1 failure, crash or damaged part, fair (0.3 million states) | `ConfirmedPartOnDisk`, `FileRecoverable`, `VerifiedFileKept`, `RequestsEnd`, `Delivered` |
| `terminal` | 1 transfer, 1 part, 2 requests, no failure | `TerminalIsFinal` is violated |

Two requests are what the stale-session cases need: one that decides and one
that changes the row in between; a request that fails late is one of the two. A
handler that has ended serves the next request, so that a PUT that has lost its
lock can meet a second that confirms the part and a third that relies on it.
Two parts let one be missing or wrong while the other is good, and two
transfers let a request meet the import locks and the rows of another; only one
of them stalls, because what a late rename does stays within its transfer. One
failure is enough to separate a move from its commit at every place and to
make the retry meet what the failed request has left. `MaxFaults` bounds only
the environment; everything else is finite by itself. The theorems lift every
bound but those of `RequestsEnd` and `Delivered`.

### Fairness

`RequestFairness`: a worker thread that can run runs (weak); a request that
waits for a row lock others take and give back is served (strong), because
PostgreSQL queues waiters. An upload that stalls holds the row lock until its
body arrives or `idle_in_transaction_session_timeout` (`db/session.py`) ends its
session: weak fairness of `PutStep`, which contains `PartStore` and
`IdleTimeout`. The handler of an ended session waits on for its client, and
nothing in the code makes that end, so `RequestsEnd` excepts it. This is all
`FairSpec` assumes. `CollectorFairness` is a premise of `Delivered`: the
collector sends the missing parts and the completion again and again until it
is told VERIFIED (`docs/OFFLINE_TRANSFER.md`). Faults are not fair; they are
bounded by `MaxFaults`.

`Delivered` speaks of behaviours in which requests are sent one at a time, each
with its body. Two requests that
complete the same transfer can refuse each other at the second try of the
advisory locks for ever (`offline_transfer_service.py:845`), and nothing in the
code makes one of them win. It excludes transfers that were quarantined, whose
parts differ from the manifest, or whose part was damaged: an assembly that
fails makes the transfer FAILED without a file, no transition leads back to
UPLOADING, and the code has no recovery.

### What the checks found

`TerminalIsFinal` does not hold. `ALLOWED_TRANSITIONS` gives VERIFIED and
QUARANTINED no successor (`offline_transfer_service.py:36-43`,
`tests/test_offline_transfer.py:225`), and `transition()` enforces the table,
but on the status the session has cached. `complete_transfer` loads the row
with `db.refresh` after a commit that gave up the lock (683, 803) and locks it
later (784, 852); the locking SELECT does not refresh the loaded object. When a
PUT quarantines the transfer in between, `_begin_import` still sees READY and
writes IMPORTING over QUARANTINED. `IllegalOnlyWhenStale` states what does
hold, and is proved: such a change needs an outdated session, can only be to
IMPORTING or VERIFIED, and no failure ever replaces VERIFIED or QUARANTINED.

Also visible in the model, with no document that says otherwise: after such an
overlap a VERIFIED row can keep a path in Ready although the file is in
Imported (the path equals the cached one and is not emitted).

### What is proved

`OfflineTransferProofs` proves, for any number of transfers, parts, requests,
keys, failures and damaged parts, everything in the table except the two
liveness properties and the violated one: `TypeCorrect`, `OneImportAtATime`,
`ConfirmedPartsKept`, `FilesRecoverable`, `VerifiedFilesKept`, `NothingIsLost`,
`IllegalChangesAreStale` and `Refinement` (`Spec => Delivery!Spec`).

Assumptions: the null values (`NoProc`, `NoTransfer`, `NoPart`) are not values
(`TransferAssumption`, `PartAssumption`, `ProcAssumption`), and `RowsOf` gives
each transfer a set of keys (`RowsAssumption`).

The argument. None of the properties is inductive: a request acts on what it
read or moved some steps earlier. `IInv` adds, for each program point of a
request, which locks it holds (`LockInv`: a PUT that waits for its body the row
lock, and none once its session was ended), how far its cached row can be
trusted (`CacheInv`: exactly, from loading under the lock to the end of the
transaction; only that it said READY, FAILED or IMPORTING at `c_begin_locked`;
only IMPORTING at `c_import` and `c_moved`), and which part and which file it
has put in place (`PartInv`, `FileInv`). `FileInv` also says that nothing but
an assembly that failed is ever bad, so that whatever `_persist_failed` finds
in Ready or Imported is worth keeping. `StoredInv` ties VERIFIED and dropped to
the minute table. Each part is shown for the request that steps (`LockOwn`,
`CacheOwn`, `PartOwn`, `FileOwn`) and then for all others from one lemma,
`StepFrame`: a step changes only rows, and files of rows, whose lock it holds,
and takes only free locks.

A PUT at `p_adrift` is the one request that changes a file without a lock. It
touches a part and nothing else (`AdriftStep`): if it replaces other bytes, the
part is `overwritten` from then on, which is the exception of
`ConfirmedPartOnDisk`, and any other file is what it was. An assembly that reads
such a part ends in FAILED, because it checks digests.

Only model-checked: `RequestsEnd`, `Delivered` (liveness under fairness).


## 4. Ingest

### Model and code

One lagoon: the memory, the events and the minutes of another are disjoint
from its own, and only the watchdog's metrics are shared. A process (`Proc`)
is a request: the handler that waits on the event loop and the thread that
works for it, which part when the handler gives up (`waiting`).

| Action | Code |
|---|---|
| `Send`, `Receive` | `ingest_scada` up to `wait_for`: `accepts_update_ts`, and start a thread, or answer 200 without one (`Ok`) when the payload is too old or overtaken |
| `Detect` | `ingest()` under `_lock`: compare with `_last_state` (`ChangesOf`), advance it (`NewStates`), put the payload into the minute buffer or take the full minute out of it (`Buffering`) |
| `Find` | the queries for the open events; `last_ingest_utc` |
| `Commit` | the unit of work and `db.commit()`: events (`Record`) and the minute row become visible together |
| `Fail` | any exception before the commit: the database rolls back, the memory does not |
| `TimeOut` | `wait_for` gives up, 504; the thread is cancelled if it has not started and goes on if it has |
| `Answer` | the handler resumes: `RealtimeStateStore.update` with its own check of the timestamp, 200 |
| `WatchdogDecide`, `WatchdogReset` | `_is_stalled` and the cooldown; `reset_runtime_state`, later, in a thread, or skipped when the lock is busy |
| `Restart` | the process is gone and `lifespan` preloads the starts of the pumps |

* **The data.** What a tag reads is identified by the time of its payload, so
  that minutes, buffers and the store say which payload they show; only the
  values of state tags (`is_state_or_bool_value`) are values, because events
  depend on them. A minute is `MinuteLen` instants.
* **The events.** `events[t]` is the table in insertion order. A thread holds
  the place of the event it has found, as the session holds the row object: at
  the commit it sets `end_ts` even if another thread has set it since.
* **The world.** The collector sends payloads with the time of the clock, in
  the order of their times, and may repeat the last one at any moment, also
  while it is still being worked on or after a 504. The view
  `vw_scada_last_3_pump_actions` is not in the repository; it is taken as the
  last start of a pump, which is how `main.py` uses it (it gives local times;
  the model keeps the instant).

### Properties

| Property | Says | Hazard |
|---|---|---|
| `TypeOK` | types; among them that no change is from or to a missing state | the first value of a tag |
| `PumpOnHasEvent` | the store names a pump start only if the database has its event | computed before the commit; roll back; 504 and repeat; restart |
| `ChangesLeadToMemory` | until something fails the changes recorded or under way, as edges between states, form a walk that ends in the state in memory: none is recorded twice, none skipped | repeats and overtaking threads |
| `EventsTile` | one payload at a time: an event ends exactly when the next starts, after a positive time, and only the last is open, whatever failed, was reset or restarted in between | memory ahead of the database |
| `LostWithItsMinute` | one at a time: a reading answered 200 is in its minute row, or on its way there in the buffer or a thread, and stays so, except that one that comes too old is answered without being taken, a failed transaction loses the minute it had taken, and a restart or the watchdog's reset one of which no row is written yet | the buffer at the change of a minute; memory ahead of the database; a repeat after a 504 |
| `ShownReadingKept` | one at a time: until a transaction fails or the watchdog recovers, whatever the store shows is in its minute row or on its way there | the store and the minute table are fed by different paths |

`acked` has every reading that was answered 200, by whichever of the two
returns of the handler: also those of a payload that is dropped on arrival.

Four more are stated and proved, and not checked by a run of their own:
`EventsChain` (one at a time, until something fails, an event starts from the
state the one before it ended in), `StoreForward` (the store never replaces a reading by an older one; the clients'
side of it is checked in `Realtime`), `StartIsLastPump` (`start_ts` is the latest
of the pump starts shown) and `RowOfItsMinute` (a minute row has readings of
that minute only).

### Runs and bounds

| Run | Instance | Shows |
|---|---|---|
| `ingest_overlap` | 2 requests, 1 pump, 3 instants (2 minutes), payloads up to 1 instant old, 1 failed transaction | what holds however threads overtake each other |
| `ingest_in_turn` | 1 request, 1 pump with 3 states, 4 instants (3 minutes), a stall after 1, 1 failure, 1 restart | `EventsTile`, `LostWithItsMinute`, `ShownReadingKept` |

A request that overtakes another needs two; a third only repeats what the
second does, since a thread meets others in the memory (under the lock) and at
the commit. `MaxTime` bounds the clock: three instants let a state change, change
back, and cross a minute. `MaxAge = 1` lets a payload be too old when it
arrives again and when its thread comes back. `MaxFaults` and `MaxCrashes` bound only
the environment. Where the watchdog has no part `StallTimeout` is beyond
`MaxTime`.

No liveness is stated: threads end because of the database's timeouts, which
are failures here, and what the ingest promises is safety.

### What the code does, without a promise to the contrary

Three things the model shows that `EventsTile` and `LostWithItsMinute` leave room
for, by speaking of one request at a time and by naming the losses:

* Overlapping threads can leave two open events of a tag. The memory is
  compared and advanced under `_lock`, but the open event is looked up after
  it (`ingest_service.py:226`) and only a committed one is found. If the second
  of two threads looks before the first has committed, the first one's event is
  never closed: no constraint forbids it, and later changes close the event
  with the largest `start_ts`. Two threads of one lagoon exist whenever a
  payload arrives while the one before, which may have been answered 504, is
  still at work. `ChangesLeadToMemory` is what does hold then.
* A payload that is older than `SCADA_REALTIME_MAX_PAYLOAD_AGE_SEC`, or not newer
  than what the store has, is answered 200 and stored nowhere
  (`routers/ingest.py:265-266`). Nothing has to fail for a reading to be lost so:
  a thread that is still queued when `wait_for` gives up is cancelled, the
  collector is told 504, and its next try, if it comes too late, is answered
  200. Such an answer promises that the payload need not be sent again, not that
  it is stored. It is the first of the four ways of `LostWithItsMinute`.
* A transaction that fails can lose a minute. The first payload of a minute
  takes the previous minute out of the memory before its own transaction
  commits (`ingest_service.py:202-208`); when that rolls back the whole previous
  minute is gone, although each of its payloads was stored in memory and answered 200, and sending
  the failed payload again does not bring it back.

`EventsTile` says how far events survive the same roll back: the change is
lost, but the table stays a tiling. It does not chain any more (the lost
change leaves a gap between `state` and the next `previous_state`), and that is
why `EventsChain` is stated until something fails.

### What is proved

`IngestProofs` proves for any number of requests, tags and states, any clock,
minute length, ages, timeouts, failures and restarts: `TypeCorrect`,
`PumpStartsRecorded`, `LastPumpShown`, `RowsOfTheirMinute` and
`StoreNeverGoesBack`. Assumptions: state tags are tags, `NoState` is not a
state, minutes have a positive length.

The inductive invariant `SharedInv` adds to the types: a request's payload is
not newer than the last one sent (`RequestInv`, from the order of the
collector); a pump start that a stored thread carries, or the store shows, has
its event, and events are never removed (`RecordedInv`); whatever is in the
buffer, in the hands of a thread or in a row is of its minute (`MinuteInv`); and
nothing in the store is newer than its timestamp, except the starts of pumps
it was preloaded with, and no request under way or to come is older than those
(`StoreInv`).

`IngestInTurnProofs` adds `ChangesAddUp` (`ChangesLeadToMemory`), which also holds
for any number of requests, and four theorems about requests that come one at
a time: `EventsTileInTurn`, `EventsChainInTurn`, `LossesInTurn` (`LostWithItsMinute`)
and `ShownReadingsKept` (`ShownReadingKept`). They have the form `Spec /\ []InTurn => P`, where `InTurn` says that a thread starts
only when the one before has ended. The run `ingest_in_turn`, with its single
process, is the case in which nothing else can happen; the theorems allow any
number of processes that take turns, so they also say that the properties hold
in production as long as no thread outlives the next payload. Requests that are
answered 504 and go on are not excluded: a handler that has given up still
counts until its thread ends.

* `CountInv`, for `ChangesAddUp`: of each tag the changes into and out of every
  state, over the table and all threads, balance but for the first state and
  the one in memory. `Detect` adds one change to both sides (out of the state
  in memory, into the new one), `Commit` moves a change from a thread to the
  table, and no other step touches either; the proof counts finite sets, and
  needs that finitely many requests are busy.
* `TileInv`: the request in progress is the payload sent last, and a tag whose
  events already reach the time of that payload was in it and has its value in
  memory, or nothing. Then a payload that is repeated after a failure brings
  no change of that tag, and a new one starts after all events there are.
* `ChainInv`: until something fails the memory is the state in which the last
  event ended, or the thread in progress holds the change from there.
* `KeptInv`: rows are written of minutes before that of the last payload, and
  before the one in the buffer; the thread in progress holds at most one minute,
  an earlier one too, whose row is still empty; and its own payload is in the
  buffer, unless the watchdog may have cleared it. `AnsweredInv`: what the store
  has taken of the last payload was answered, so that a payload refused as
  overtaken brings nothing new. `DroppedStep` then goes through the actions:
  what a step forgets is a minute with an empty row, and only `Fail`, `Restart`
  and `WatchdogReset` forget any. `LostStep` adds the answers: one by a thread is
  of a reading in the buffer, unless the watchdog recovered (`AnswerKept`), one
  without a thread is of a payload that is too old.

## 5. AlarmEngine

### Model and code

The alarms of one lagoon. An actor is a request of the ingest (`Proc`) or the
thread of the silence monitor (`Monitor`); both run the same loop, one over
the definitions a payload concerns, the other over the definitions of the
lagoon's own signal.

| Action | Code |
|---|---|
| `Send`, `Receive` | as in `Ingest`: the payload is dropped by `accepts_update_ts` or handed to a thread |
| `Store` | `ingest()`: the states in memory advance, the events are added to the session |
| `Check` | `_check_once` of the monitor, past the grace period |
| `LoadActive`, `LoadLatest` | `get_definitions`, `get_active_alarms_map`; `get_latest_scada_transitions_map` |
| `Decide` | one turn of the loop: `_evaluate_definition` with its effect on `_comm_loss_last_seen`, and whether `open_alarm` or `close_alarm` is called |
| `Lock` | `open_alarm`, `close_alarm`: `SELECT ... FOR UPDATE` of the definition, a second look for the active alarm, the write |
| `Commit` | `db.commit()`: alarms and events become visible, the row locks end |
| `Dispatch` | `dispatch_notifications` and the end of the handler, which updates the store or has given up (504) |
| `Deliver` | a worker of the pool sends the mail of a job, or fails; there is no second try |
| `Fail` | an exception before the commit: the database rolls back, the memory stays |
| `Restart` | threads, pool and memory are gone; nothing writes `last_seen_ts`, so the last signals cannot be read back |

* **The data.** Every definition has a tag of its own. A value of a threshold
  is the side of the limit it lies on (`high` violates it, `band` only within
  the deadband of an open alarm, `low` not), which is all `_evaluate_threshold`
  tells apart. Of the conditions on states the one with `from_states` and
  `to_state` is modelled, because it depends on the table of events; the
  others compare the value in the payload like a threshold without deadband.
* **The session.** It does not flush before a query (`autoflush=False`,
  `db/session.py:35`), so `LoadLatest` reads the committed events only.
* **The rules.** One e-mail rule matches each definition: an opened alarm has
  one job. The row of an alarm is named by its definition and place.
* **History.** `seen` holds what was committed, for the properties only.

### Properties

| Property | Says | Hazard |
|---|---|---|
| `TypeOK` | types; among them that a job is of an alarm with an id | the job is built inside the transaction |
| `OneActiveAlarm` | a definition has at most one active alarm | the map of active alarms is read before the lock |
| `ImplementsLifeCycle` | `AlarmLifeCycle` is implemented: alarms follow one another, closed ones stay as they are, a mail is about a stored alarm and is sent at most once | overlap, roll back, restart between commit and mail |
| `NoCircularWait` | evaluations never wait in a circle for the locks of definitions | several definitions are locked one by one, by threads that know nothing of each other |
| `AlarmFollowsThreshold` | one request at a time: an alarm is active exactly if a stored value violated the limit and none has come back past the deadband since | deadband, roll back, restart |
| `AlarmLagsTransition` | one at a time: the alarm of a transition is active exactly if the latest event, as of the payload before the last one, is the one it waits for | memory ahead of the table |
| `AlarmFollowsTransition` | the same without the delay: **violated**, see below | `autoflush=False` |
| `AlarmFollowsSilence` | one at a time, nothing failed: when the clock stands still the alarm of the lagoon is active exactly if the lagoon has been silent for longer than the timeout | memory of the last signals, two evaluators |
| `AlarmMeansSilence` | with failures and restarts: if it stays active, the lagoon is silent | empty memory after a restart |
| `AlarmFollowsTag` | one at a time, until something fails: a payload opens the alarm of a tag it lacks exactly if the timeout has passed, and closes that of a tag it has | the order of look-up and update of the memory |

### Runs and bounds

| Run | Instance | Shows |
|---|---|---|
| `alarm_overlap` | 2 requests and the monitor, a threshold and the alarm of the lagoon, 2 instants, 2 payloads, symmetric requests | `TypeOK`, `OneActiveAlarm`, `NoCircularWait`, `ImplementsLifeCycle` |
| `alarm_in_turn` | 1 request, a threshold, a transition between 2 states and the loss of a tag, 4 payloads of one tag each, 4 instants, 1 failure | `AlarmFollowsThreshold`, `AlarmLagsTransition`, `AlarmFollowsTag` |
| `alarm_silence` | 1 request and the monitor, 2 payloads, 4 instants, 1 failure, 1 restart, fair | `AlarmMeansSilence`, `AlarmFollowsSilence` |
| `alarm_transition` | 1 request, 1 transition, no failure | `AlarmFollowsTransition` is violated |

`alarm_overlap` has no failure and no restart: that no mail is sent of an alarm
that was rolled back, and that a crash loses mails and nothing else, is the
theorem `Refinement`, which has no such bound. `AlarmFollowsTag` is stated until
something fails, and says nothing of a memory that a roll back moved or a
restart emptied; `AlarmMeansSilence` does.

A row lock has a holder and a waiter, so two requests and the monitor are one
actor more than the races need; two definitions are what a circular wait
takes. `MaxSends` bounds the payloads: four bring a value up, into the band,
down, and repeat one; or make a transition, undo it, and show both a payload
later. `Group` is the set of the sets of tags a payload may carry: one tag each
where definitions of different tags are to be kept apart, any tags otherwise.
The timeouts are one instant, or none in `alarm_overlap`, and in `alarm_silence`
`MaxAge` is not longer than the timeout of the lagoon, as in the configuration
(10 s and 6 h): a payload that is
still accepted is no sign of silence. The runs stop when their bounds are used
up, and do not check deadlock; `NoCircularWait` does, for the locks.

### Fairness

A thread that can take its next step takes it (`WF`): it runs in the
interpreter's thread pool. PostgreSQL queues the waiters of a row lock, so one
that is free again and again is granted (`SF` on `Lock`). The monitor sleeps an
interval and looks again (`WF` on `Check`). Nothing is assumed of the collector,
of the clock, of mails or of failures, which are bounded.

### What the checks found

* `AlarmFollowsTransition` does not hold. `docs/ALARMAS_ACTUALES_Y_LOGICA.md:43`
  says the transitions are taken from `scada_event`, after `ingest()` has
  found the event (line 12), and that the alarm opens when the condition becomes
  active and closes when it ceases (48-49). But the event of the payload is
  only in the session (`ingest_service.py:253-262`), which does not flush before
  the query (`service.py:151`). So the payload that makes the transition does
  not open the alarm, and the one that undoes it does not close it; the next
  payload with the tag does, and if a collector sends tags on change only, there
  may be none for hours. `AlarmLagsTransition` is what holds.
* With two requests at once the memory of the last signal can step back: a
  thread with an older payload that decides last writes its time. The effect
  is bounded by how long a thread lives, seconds against timeouts of minutes
  and hours, and the properties about silence are stated for one request.

### What is proved

`AlarmEngineProofs` proves for any definitions, requests, states, timeouts and
bounds: `TypeCorrect`, `NeverTwoActive` (`OneActiveAlarm`), `LocksNeverCircular`
(`NoCircularWait`) and `Refinement` (`ImplementsLifeCycle`). Assumptions: the
four kinds of definitions are disjoint and finitely many, with a place each in
the order of evaluation; `NoState` is not a state, `Monitor` and `NoActor` are
not requests.

The inductive invariant `IInv` adds to the types: a busy actor has a time
(`BusyInv`); what an actor will open or close it holds the lock of, it will not
do both, and whether the definition has an active alarm cannot change before its
commit (`LockInv`, which is where the second look under the lock is needed);
only the last alarm of a definition can be active (`AlarmInv`); a job is of a
stored alarm, is held by one thread or the pool, and its mail has not been
sent (`MailInv`). `OrderInv` adds that the locks an actor holds are on
definitions before those it has still to evaluate; in a circle, the last
definition anybody waits for would be held by an actor that waits for a later
one (`LastDefinition`, by counting the definitions above each). A commit then
is a `Change` of the life cycle, a delivery a `Mail`, and all else stutters.

`AlarmInTurnProofs` proves `ThresholdInTurn` (`AlarmFollowsThreshold`),
`TransitionsLagInTurn` (`AlarmLagsTransition`) and `TagInTurn` (`AlarmFollowsTag`) from
`Spec` and `[]InTurn`: requests take turns, as in `alarm_in_turn`, but there may be
many of them, each payload may carry any tags, definitions of the lagoon are
evaluated too, and the monitor runs at any moment, which that run leaves out.
The alarms are right after failures and restarts as well, except those of
communication loss, whose memory is then lost (`Undisturbed`).

* `EvalInv` says what an evaluation is. The active alarms a request has read are
  still the active ones, since the monitor locks other definitions; it will
  open or close exactly the definitions it has evaluated whose alarm differs
  from its decision. So a commit leaves active what was decided
  (`CommitOutcome`), and what the request has not evaluated stays.
* A threshold then depends on its last value and on whether it was active
  before (`ViolatedAppend`), which is the property again.
* `SentInv` and `LagInv`: the request in progress is the payload sent last; what
  is stored is not from after it, and a change is recorded only if nothing of
  that tag and time is stored (`FreshInv`). So all stored changes of a tag are
  as old as the last payload with the tag, and those a request has recorded
  itself are newer: what it reads is the latest change as of the payload
  before, the delay of `AlarmLagsTransition`.
* `TagInv`: until something fails a tag was last seen with the last payload
  stored with it, or the request in progress has the tag and notes it when it
  evaluates the definition, before its commit.

Only model-checked: `AlarmFollowsSilence` and `AlarmMeansSilence` (liveness under
fairness). Nothing is proved of the alarm of the lagoon at a single commit: the
monitor and a request may evaluate it at once and leave the older decision,
until the monitor looks again.

## 6. Realtime

### Model and code

One lagoon, on the event loop: an action is what a coroutine does between two
suspension points.

| Action | Code |
|---|---|
| `Receive`, `NoUpdate` | `ingest_scada` up to the end of its thread (which is in `Ingest`): an early answer, an error, a timeout, or a timestamp that is stale by then |
| `Update` | the store accepts the payload, the tick is built, the sockets are listed and a send is created for each, without a suspension |
| `StartSend`, `SendRefused` | a task of `asyncio.gather` is run: the frame is with the transport, or the socket refuses it. Tasks are run in the order they were created, which `ready` keeps |
| `SendOk`, `SendTimesOut`, `SendErrors` | the send has drained, `_send_with_timeout` gives up, or the connection breaks |
| `Gathered`, `CloseNext`, `Answer` | the sockets that failed are removed from the manager together, then closed one after the other |
| `Reject`, `SendSnapshot`, `SnapshotFails`, `Register` | the handler of a socket up to `manager.connect`: the snapshot is sent first |
| `Heartbeat`, `PingSent`, `PingFails`, `PingRefused`, `ReceiveDisconnect` | the loop of the handler and its `finally` |
| `Deliver`, `Leave` | the client reads a frame, or goes away |

A version, the timestamp of the last reading applied, stands for the contents
of the store. The bodies under the manager's `asyncio.Lock` contain no await,
so that lock is never held at a suspension and is left out. Payloads with
times of any order are allowed here, more than the collector sends.

### Properties

| Property | Says | Hazard |
|---|---|---|
| `TypeOK` | types; among them that what is sent is a version the store can have | |
| `SettledViewCurrent` | a registered client with nothing on its way shows the version of the store, unless no tick was broadcast since it was registered | snapshot before registration; sends that fail while others are listed |
| `NoGhostSubscriber` | the manager holds no socket whose handler has returned | a broadcast and a handler remove the same socket |
| `NoOrphanStream` | a socket that was removed by a broadcast is closed, or about to be: no page stays open with pings and no ticks | the same |
| `ImplementsReplica` | `ReplicaView` is implemented: the store only moves forward, and what each client shows only moves forward through its versions | check before the await, update after it; overlapping broadcasts |

The exception in `SettledViewCurrent` is real: the tick of a reading that is
applied while the snapshot drains (`websocket.py:211`) does not reach the
client, which shows the older state until the next tick. The property does not
guard against that loss: it says that there is no other.

### Run and bounds

`realtime`: 2 ingests with different timestamps, 2 interchangeable clients, no
bound but those. Two broadcasts overlap in every way that matters (a send of
one waits while the other is listed, started, or discards the socket), and two
clients let one fail while the other is served. The system comes to an end, so
deadlock is not checked. No fairness: everything stated is safety.

### What is proved

`RealtimeProofs`, for any number of ingests and clients and any timestamps:
`TypeCorrect`, `SettledViews`, `NoGhosts`, `NoOrphans` and `Refinement`. The only
assumption is that timestamps are positive numbers (0 is no reading).

The inductive invariant `IInv`: the broadcasts whose sends have not started are
in the order of their timestamps (`ReadyOk`); the frames on their way to a
client are in order, and after what it shows (`LinkOk`); a send that has not
started carries a later version than all of those (`TodoOk`), which is why
`Update`, being one step from the check to the creation of the tasks, cannot
make a client go back; and the last tick has reached the transport of a
registered client, is still to be sent to it, or the client is about to be
removed (`TickOk`).

## 7. SmallControl

### Model and code

`ControlTargets` is the pure part. `Candidates`, `Writable` and `Targets` are
`resolve_pump_control_target` and `resolve_value_write_target` with their errors (no module, more
than one, no tag, the tag of the pump's state, no address, no endpoint, a mode
that is not one of the family), `Accepted` is the check of a value against its
type and limits, `Key` the key of the lock. `SmallControl` is a request, in a
thread of its own.

| Action | Code |
|---|---|
| `Begin`, `BeginRefused`, `BeginRaises`, `BeginFails` | `begin_control_audit` commits a pending row; then the request is resolved |
| `Acquire` | `_get_pulse_lock`, `_get_write_lock`: one lock for both |
| `FactoryRaises`, `Connect`, `Fails` | the client is made and connected |
| `Read` | the previous value of a configured write |
| `Write`, `WriteFails` | the first write: the coil of a pulse is raised, or the value written |
| `Reset`, `ResetFails` | the second write of a pulse |
| `Close` | disconnect, release the lock |
| `EndAudit`, `EndAuditFails` | `complete_control_audit`, `fail_control_audit`, or neither |
| `Land`, `Other`, `Crash` | a write that failed is applied after all, later; another system writes; the process dies |

`before` and `disturbed` exist for `PreviousValueTrue` only.

### Properties

| Property | Says | Hazard |
|---|---|---|
| `TypeOK` | types; among them that what is written is a value of a register | an action without a value |
| `PumpInterlock` | pulses of two requests never have two coils of a module on together, unless one of them failed or was cut off, and then its row is not a success | two requests for one pump in two threads |
| `AuditTruthful` | no register is driven without a row; a row marked as a success means the value is there, the coil of a pulse off, and nothing of it still to come, as long as nobody else wrote | the second write of a pulse fails; writes that land late; a crash between write and audit |
| `PreviousValueTrue` | the previous value in a successful row is the value its write replaced, unless another system, or a late write of an earlier request of this backend, changed the register in between | read and write are two calls |
| `DrivenWithinConfig` | only registers the configuration allows, with values its type and limits allow, even late | resolution over two families of PLC, edges of the integer types |

### Run and bounds

`small_control`: 2 interchangeable requests, each any of 10 questions, under 5
configurations (a Siemens pump with a set-point, with and without a limit, with
an action that names the state of the pump, the same in a lagoon that is not
small; a Rockwell lagoon with two modules). A lock has a holder and a waiter, so
two requests are enough. Integers have 2 bits, and numbers are counted in
halves, so that the run has values at, just below and just above every edge,
and fractions. Failures, crashes and other systems are not bounded. Requests
end, so deadlock is not checked.

### What is proved

`SmallControlProofs`, for any requests, configurations, registers, values and
widths: `TypeCorrect`, `Interlock`, `AuditIsTrue`, `PreviousIsTrue` and
`WithinConfig`.

Assumptions. `AddressAssumption`: a register is named by one tag, and that tag
by one module. The code compares tags and locks lagoon,
module and endpoint, never addresses: a configuration that gave two tags one
address, or let two modules of a Rockwell lagoon, which share their tags, name
the same one, would have two locks for one register, and neither `PumpInterlock`
nor `PreviousValueTrue` would hold. `ValueAssumption`: the values of the model
contain those that are asked for, on and off.

The inductive invariant `IInv`: a request that waits for the lock or holds it
has a target that resolution gave it (`TargetOk`); one request holds the lock of
a module (`LockOk`); row, result and place go together (`RowOk`); a register
last driven by a request is the register of its target, with a value of that
target, and off after a pulse that succeeded (`DriverOk`); what may still land
is of a request that failed (`LateOk`); what was read is still there when the
write comes, or another system or a late write disturbed it (`ReadOk`).

Left out: rounding of float values, normalisation of identifiers, actions that
are not strings. What the code does beside this: an error outside the module's
own, such as a configured number that is not one, is not caught and leaves the
row pending; a pulse whose first write fails is not reset, so if the write was
applied the coil stays on (`PumpInterlock` excludes that request, whose row says
failed); a previous value that is not a number in JSON makes the completion of
the row fail, which then stays pending.

## 8. Upload

### Model and code

| Action | Code |
|---|---|
| `Register`, `Insert` | `create_transfer` in a thread: the identities are looked up (`_existing_identity_match`); the insert, or the error of the unique keys and the second look |
| `Put`, `PutStart` | the request is parsed; the event loop runs `put_transfer_part` up to `SELECT ... FOR UPDATE`, which blocks the loop (`loop`) |
| `PutLockTimeout` | `lock_timeout` (`db/session.py:15-30`) |
| `PutRefused`, `PutAlready`, `PutConflict`, `PutAdopts`, `PutWaits` | `receive_part` with the row: a part that is not the manifest's, one that is there already, one that differs, a file without a row, or the wait for the body with the lock |
| `BodyArrives`, `BodyFails` | the body is whole, the file renamed, the row committed or not; or the body is wrong or the client gone |
| `Close` | the session of an answer that committed nothing is closed by the loop |
| `IdleTimeout` | `idle_in_transaction_session_timeout`: the session is ended, its lock is free, and the handler does not know |
| `Complete`, `CompleteLock`, `CompleteEnds` | a completion, as far as an upload sees it |
| `ThreadFails`, `Crash` | a database call of a thread fails; the process dies |

`TotalParts`, `Offset` and `Length` are the arithmetic of the parts
(`offline_transfer_service.py:326` and around). The limits of a manifest
(parts, sizes, rows) are one, `MaxParts`.

### Properties

| Property | Says | Hazard |
|---|---|---|
| `TypeOK` | types; among them that a registered manifest is within the limits | |
| `RegistrationSound` | rows share no identity (id, chunk, node and sequence); a request is told "exists" only of its very manifest, "conflict" only if another has one of its identities; one creates; the error of a race is always resolved | look-up, then insert, in two threads |
| `PartsTile` | confirmed parts do not overlap, and all of them are the bytes of the file, no more and no less | a short last part, part numbers at their limit |
| `ConfirmedPartKept` | a confirmed part is on disk with the digest of its row, unless a PUT of other bytes lost its session, and with it the lock, while its body came | rename before commit; the idle timeout |
| `NothingStalls` | a query that blocks the event loop lets it go, and no session keeps a row lock for ever | a blocking lock in a coroutine whose holder needs the loop |

The exception in `ConfirmedPartKept` is what the code does: a PUT whose session
PostgreSQL ended still renames its file into place before its commit fails
(`offline_transfer_service.py:494-495`). If another PUT has confirmed the part
meanwhile with other bytes, its file is replaced; the digest of the row no
longer matches and the assembly will refuse it.

### Run, bounds and fairness

`upload`: 3 requests of any of 11 questions on 2 transfers, among them two
manifests that differ only in size, one with the chunk of another, a wrong
number of parts and too many parts; files of 3 and 4 bytes in parts of 2, two
digests. Two requests make every race, the third is the registration the other
two need before they can meet. Crashes and timeouts are not bounded. Requests
end, so deadlock is not checked; `NothingStalls` says what deadlock would hide.

`UploadFairness`: a blocked query returns or times out, PostgreSQL ends an idle
session, a thread finishes what it does with the lock (weak fairness of each).
Nothing is assumed of clients: a body may never come. The timeout ends the
session, not the handler, which waits on without its lock. The fairness of
`IdleTimeout` is the configuration's (`db/session.py`); without it, one client
that sends headers and no body holds its transfer until it disconnects.

### What is proved

`UploadProofs`, for any requests, manifests, sizes, limits and digests:
`TypeCorrect`, `Registrations`, `Tiling` and `ConfirmedParts`. Assumptions: null
values are not values (`NoOneAssumption`), sizes are positive, as the schema asks
(`ManifestAssumption`), and requests are of the three kinds (`AskAssumption`).

The inductive invariant `IInv`: a request is where its kind takes it (`AskOk`,
`ReplyOk`); a row holds a manifest that was valid (`RowsOk`); a confirmed part is
the one of its number in the manifest (`PartsOk`); a PUT that waits for its body
waits for such a part (`WaitOk`), and, unless its session was ended, has the
lock, so that nobody else confirms the part (`HoldOk`). `PartsTile` follows from
`PartsOk` by arithmetic: `Total` bounds the file between `total - 1` and `total`
parts, and `Tile` finds the part of a byte by division.

Only model-checked: `NothingStalls` (liveness under fairness).

## 9. What is not modelled

* Of the offline transfer: a session that is ended while its request computes
  (a completion that hashes its file for longer than the idle timeout, or than
  the watchdog's limit for idle transactions, has given up its row lock without
  knowing, and moves the file before its commit fails; in the model a session
  ends only between two steps, as an `Abort`, or while a body is awaited); the
  checks of the CSV, its decoding and its staging
  (an import is valid or fails), `_import_events` (never reached: only
  transfers of minutes are accepted), retention and cleanup (no code in
  `src/`). That a repeated PUT of a VERIFIED transfer accepts a part whose file
  has been cleaned away is left out of `Upload`, which has no completion that
  succeeds.
* Of the ingest: the coding of values, the check of the lagoon and its product
  (a `Fail`), the synchronisation of collector metadata (a savepoint of its
  own), the alarm evaluation in the same transaction and the dispatch of its
  notifications (they are in `AlarmEngine`), the broadcast after the update (in
  `Realtime`), the normalisation of valve tags in the store. Payloads out of the order of
  their times, apart from repeats of the last, are not sent. Of the watchdog:
  the start-up grace, the fallback to ages of database rows (not reached while
  `last_ingest_utc` is a time) and the disposal of the pool.
* Of the alarms: conditions that compare a state with a list, definitions that
  are disabled or cannot be evaluated, editing thresholds
  (`alarms/thresholds/service.py`), the matching of notification rules, texts
  and SMTP. The locks of `scada_event` rows are left out: `create_event` and
  `close_event` flush in the middle of the loop, so that two requests of a
  lagoon that both change a tag can wait for each other over such a row and a
  definition until PostgreSQL or `lock_timeout` ends one. `NoCircularWait` is
  about the locks of definitions.
* Of the realtime path: the contents of payloads, and `plc_status`. It is
  computed when a payload is built, so a lagoon that falls silent is shown as
  offline only by a new snapshot; nothing pushes it, and no property is
  stated about it.
* Of the control: the reading of the configuration files (a configuration is
  given and does not change while requests run), the protocols of the PLCs.
* Authentication, roles and the second factor filter requests one by one;
  queries, exports, product configuration and chemicals are SQL and formatting;
  the start-up is wiring, and its preload is in `Restart` of `Ingest`. None has a
  state that requests hand to each other.
* The legacy persist queue (`persist/`), which the application does not start.
