------------------------- MODULE IngestInTurnProofs -------------------------
EXTENDS IngestProofs, FiniteSetTheorems

(***************************************************************************)
(* Proofs about Ingest: that no change of a state is recorded twice or     *)
(* skipped, however many requests are in progress; and what the events and *)
(* the minutes are when a request starts only after the thread of the      *)
(* previous one has ended (InTurn).                                        *)
(***************************************************************************)

(* The thread of a request holds changes it has not committed.             *)
Holds(p) == pc[p] \in {"detected", "found"}

(* Only a watchdog that has recovered is recovering: while nothing has     *)
(* failed the memory is not cleared.                                       *)
WatchInv == watchdog = "recovering" => recovered # 0

-----------------------------------------------------------------------------
(* Changes of state, for any number of requests                            *)

Busy == {p \in Proc : pc[p] # "idle"}

(* The rows of a tag that come into a state, or leave it, and the threads. *)
RowsInto(t, s) == {i \in 1 .. Len(events[t]) : events[t][i].state = s}
RowsOutOf(t, s) == {i \in 1 .. Len(events[t]) : events[t][i].prev = s}
ThreadsInto(t, s) == {p \in Proc : /\ pc[p] \in {"detected", "found"}
                                   /\ t \in DOMAIN changes[p]
                                   /\ changes[p][t].state = s}
ThreadsOutOf(t, s) == {p \in Proc : /\ pc[p] \in {"detected", "found"}
                                    /\ t \in DOMAIN changes[p]
                                    /\ changes[p][t].prev = s}

(* Into and OutOf of a tag balance, but for the first state and the last.  *)
Balanced(t, last) ==
    \E first \in State : \A s \in State :
        Into(t, s) + (IF s = first THEN 1 ELSE 0)
            = OutOf(t, s) + (IF s = last THEN 1 ELSE 0)

(* A tag without a state in memory has never changed.                      *)
Untouched(t) ==
    events[t] = <<>> /\ \A p \in Proc : Holds(p) => t \notin DOMAIN changes[p]

CountInv ==
    /\ IsFiniteSet(Busy)
    /\ WatchInv
    /\ Undisturbed => \A t \in StateTag :
          IF lastState[t] = NoState THEN Untouched(t)
          ELSE Balanced(t, lastState[t])

-----------------------------------------------------------------------------
(* Events, for one request at a time                                       *)

Before(t, s) == \A i \in 1 .. Len(events[t]) : events[t][i].start < s

(* The request in progress is the payload sent last.  A payload that comes *)
(* again finds its own states in memory, or none, wherever the events      *)
(* already reach its time.                                                 *)
TileInv ==
    /\ \A p \in Proc : pc[p] # "idle" => req[p] = lastSent
    /\ storeTs <= lastSent.ts
    /\ \A t \in StateTag :
          \/ Before(t, lastSent.ts)
          \/ t \in lastSent.tags /\ lastState[t] \in {NoState, lastSent.state[t]}
    /\ \A p \in Proc : Holds(p) => \A t \in DOMAIN changes[p] :
          /\ Before(t, lastSent.ts)
          /\ t \in lastSent.tags
          /\ lastState[t] \in {NoState, lastSent.state[t]}
    /\ \A p \in Proc : pc[p] = "found" => \A t \in DOMAIN changes[p] :
          found[p][t] = Len(events[t])
    /\ EventsTile

(* The events of a tag end in a state.                                     *)
EndsIn(t, s) == events[t] # <<>> => events[t][Len(events[t])].state = s

(* While nothing has failed, the memory is where the last event ended, or  *)
(* a thread holds the change from there.                                   *)
ChainInv ==
    /\ WatchInv
    /\ EventsChain
    /\ Undisturbed => \A t \in StateTag :
          \/ EndsIn(t, lastState[t])
          \/ \E p \in Proc : Holds(p) /\ t \in DOMAIN changes[p]
    /\ Undisturbed => \A p \in Proc : Holds(p) => \A t \in DOMAIN changes[p] :
          /\ EndsIn(t, changes[p][t].prev)
          /\ lastState[t] = changes[p][t].state

-----------------------------------------------------------------------------
(* Minutes, for one request at a time                                      *)

(* The payload of a request is in the buffer.                              *)
InBuffer(r) == /\ buffer.bucket = MinuteOf(r.ts)
               /\ \A t \in Tag : t \in r.tags => buffer.tags[t] = r.ts

(* The buffer is of the latest minute, and behind it one minute at most is *)
(* on its way, to a row that is still empty.  The payload of a request is  *)
(* in the buffer, unless the watchdog may have cleared it.                 *)
KeptInv ==
    /\ WatchInv
    /\ buffer.bucket <= MinuteOf(lastSent.ts)
    /\ \A t \in Tag : buffer.tags[t] <= lastSent.ts
    /\ \A m \in Minute : row[m] # NoReadings =>
          /\ m < MinuteOf(lastSent.ts)
          /\ buffer # NoBuffer => m < buffer.bucket
    /\ \A p \in Proc : flush[p] # NoBuffer =>
          /\ Holds(p)
          /\ flush[p].bucket \in Minute
          /\ flush[p].bucket < MinuteOf(lastSent.ts)
          /\ buffer # NoBuffer => flush[p].bucket < buffer.bucket
          /\ row[flush[p].bucket] = NoReadings
    /\ recovered = 0 =>
          \A p \in Proc : Holds(p) \/ pc[p] = "stored" => InBuffer(req[p])

(* What the store has taken of the last payload was answered.              *)
AnsweredInv ==
    storeTs = lastSent.ts => \A t \in lastSent.tags : lastSent.ts \in acked[t]

(* A reading of a time is in the row of a minute or on its way there.      *)
InPlace(m, t, s) ==
    \/ row[m][t] >= s
    \/ buffer.bucket = m /\ buffer.tags[t] >= s
    \/ \E p \in Proc : flush[p].bucket = m /\ flush[p].tags[t] >= s

-----------------------------------------------------------------------------
(* Events tile                                                             *)

(* What is sent is the last payload again, or a new one of this instant.   *)
LEMMA SendCases ==
    ASSUME TypeOK, NEW p \in Proc, Send(p)
    PROVE  \E r \in Payload :
              /\ Receive(p, r)
              /\ r = lastSent \/ (lastSent.ts < r.ts /\ r.ts = now)
<1>1. CASE \E r \in Payload : /\ lastSent.ts < r.ts /\ r.ts = now
                              /\ Receive(p, r)
  BY <1>1
<1>2. CASE lastSent # NoPayload /\ Receive(p, lastSent)
  BY <1>2 DEF TypeOK
<1> QED BY <1>1, <1>2 DEF Send

(* A new payload is never refused, and then nobody else is in progress.    *)
LEMMA NewPayload ==
    ASSUME TypeOK, RequestInv, storeTs <= lastSent.ts, InTurn',
           NEW p \in Proc, NEW r \in Payload, Receive(p, r),
           lastSent.ts < r.ts, r.ts = now
    PROVE  /\ \A q \in Proc : pc'[q] # "idle" => q = p
           /\ pc'[p] = "queued" /\ req'[p] = r /\ lastSent' = r
<1>1. storeTs \in Nat /\ lastSent.ts \in Nat /\ r.ts \in Nat
  BY TimesAreNat, PayloadFields
<1>2. Accepts(r.ts)
  BY <1>1, TimeAssumption DEF Accepts
<1>3. pc'[p] = "queued" /\ req'[p] = r /\ lastSent' = r
  BY <1>2 DEF Receive, TypeOK
<1> QED BY <1>3 DEF InTurn

(* Steps that leave the events and the last payload alone, take no change  *)
(* up and only forget states keep TileInv.                                 *)
LEMMA TileFrame ==
    ASSUME TileInv, UNCHANGED <<events, lastSent>>,
           storeTs' \in {storeTs, 0, lastSent.ts}, lastSent.ts \in Nat,
           \A t \in StateTag : lastState'[t] \in {lastState[t], NoState},
           \A q \in Proc : pc'[q] # "idle" => req'[q] = lastSent,
           \A q \in Proc : pc'[q] \in {"detected", "found"} =>
              /\ pc'[q] = pc[q]
              /\ changes'[q] = changes[q] /\ found'[q] = found[q],
           \A q \in Proc : DOMAIN changes[q] \subseteq StateTag
    PROVE  TileInv'
<1>1. \A t, s : Before(t, s) => Before(t, s)'
  BY DEF Before
<1>2. storeTs' <= lastSent'.ts
  BY DEF TileInv
<1>3. EventsTile'
  BY DEF TileInv, EventsTile
<1>4. \A t \in StateTag :
         \/ Before(t, lastSent.ts)'
         \/ t \in lastSent'.tags /\ lastState'[t] \in {NoState, lastSent'.state[t]}
  BY <1>1 DEF TileInv
<1>5. ASSUME NEW q \in Proc, Holds(q)', NEW t \in DOMAIN changes'[q]
      PROVE  /\ Before(t, lastSent.ts)'
             /\ t \in lastSent'.tags
             /\ lastState'[t] \in {NoState, lastSent'.state[t]}
  <2>1. Holds(q) /\ t \in DOMAIN changes[q] /\ t \in StateTag
    BY <1>5 DEF Holds
  <2> QED BY <1>1, <2>1 DEF TileInv
<1>6. ASSUME NEW q \in Proc, pc'[q] = "found", NEW t \in DOMAIN changes'[q]
      PROVE  found'[q][t] = Len(events'[t])
  BY <1>6 DEF TileInv
<1> QED BY <1>2, <1>3, <1>4, <1>5, <1>6 DEF TileInv

(* TileInv is kept when a request comes in.                                *)
LEMMA TileSend ==
    ASSUME SharedInv, TileInv, InTurn', NEW p \in Proc, Send(p)
    PROVE  TileInv'
<1> USE DEF SharedInv
<1>1. PICK r \in Payload :
         /\ Receive(p, r)
         /\ r = lastSent \/ (lastSent.ts < r.ts /\ r.ts = now)
  BY SendCases
<1>2. lastSent.ts \in Nat /\ r.ts \in Nat /\ storeTs <= lastSent.ts
  BY TimesAreNat, PayloadFields DEF TileInv
<1>3. UNCHANGED <<events, storeTs, lastState, changes, found>> /\ lastSent' = r
  BY <1>1 DEF Receive, dbVars, storeVars, memoryVars
<1>4. CASE r = lastSent
  <2>1. \A q \in Proc : pc'[q] # "idle" => req'[q] = lastSent
    BY <1>1, <1>4 DEF Receive, TileInv, TypeOK
  <2>2. \A q \in Proc : pc'[q] \in {"detected", "found"} => pc'[q] = pc[q]
    BY <1>1 DEF Receive, TypeOK
  <2>3. \A q \in Proc : DOMAIN changes[q] \subseteq StateTag
    BY ChangesFields DEF TypeOK
  <2> QED BY <1>2, <1>3, <1>4, <2>1, <2>2, <2>3, TileFrame
<1>5. CASE lastSent.ts < r.ts /\ r.ts = now
  <2>1. /\ \A q \in Proc : pc'[q] # "idle" => q = p
        /\ pc'[p] = "queued" /\ req'[p] = r
    BY <1>1, <1>2, <1>5, NewPayload
  <2>2. ASSUME NEW t \in StateTag
        PROVE  Before(t, lastSent.ts)'
    <3>1. \A i \in 1 .. Len(events[t]) : events[t][i].start < r.ts
      BY <1>2, <1>5, EventFields DEF StoreInv
    <3> QED BY <1>3, <3>1 DEF Before
  <2>3. EventsTile'
    BY <1>3 DEF TileInv, EventsTile
  <2>4. storeTs' <= lastSent'.ts
    BY <1>2, <1>3, <1>5, TimesAreNat
  <2> QED BY <1>3, <2>1, <2>2, <2>3, <2>4 DEF TileInv, Holds
<1> QED BY <1>1, <1>4, <1>5

(* TileInv is kept when the memory advances: a tag that changes has no     *)
(* event of this time yet.                                                 *)
LEMMA TileDetect ==
    ASSUME SharedInv, TileInv, InTurn, NEW p \in Proc, Detect(p)
    PROVE  TileInv'
<1> USE DEF SharedInv
<1>1. /\ pc[p] = "queued" /\ pc' = [pc EXCEPT ![p] = "detected"]
      /\ changes' = [changes EXCEPT ![p] = ChangesOf(req[p])]
      /\ lastState' = NewStates(req[p])
      /\ UNCHANGED <<req, events, storeTs, lastSent>>
  BY DEF Detect, dbVars, storeVars, worldVars
<1>2. req[p] = lastSent
  BY <1>1 DEF TileInv
<1>3. \A q \in Proc : pc[q] # "idle" => q = p
  BY <1>1 DEF InTurn
<1>4. \A t \in StateTag :
         lastState'[t] = IF t \in lastSent.tags THEN lastSent.state[t]
                         ELSE lastState[t]
  BY <1>1, <1>2 DEF NewStates
<1>5. ASSUME NEW t \in DOMAIN ChangesOf(lastSent)
      PROVE  /\ t \in StateTag /\ t \in lastSent.tags
             /\ lastState[t] \notin {NoState, lastSent.state[t]}
  BY DEF ChangesOf
<1>6. \A t, s : Before(t, s) => Before(t, s)'
  BY <1>1 DEF Before
<1>7. ASSUME NEW q \in Proc, Holds(q)'
      PROVE  q = p /\ pc'[q] = "detected" /\ changes'[q] = ChangesOf(lastSent)
  <2>1. q = p
    BY <1>1, <1>3, <1>7 DEF Holds, TypeOK
  <2> QED BY <2>1, <1>1, <1>2 DEF TypeOK
<1>8. ASSUME NEW q \in Proc, Holds(q)', NEW t \in DOMAIN changes'[q]
      PROVE  /\ Before(t, lastSent.ts)'
             /\ t \in lastSent'.tags
             /\ lastState'[t] \in {NoState, lastSent'.state[t]}
  <2>1. t \in DOMAIN ChangesOf(lastSent)
    BY <1>7, <1>8
  <2>2. Before(t, lastSent.ts)
    BY <2>1, <1>5 DEF TileInv
  <2> QED BY <2>1, <2>2, <1>1, <1>4, <1>5, <1>6
<1>9. \A q \in Proc : pc'[q] # "found"
  BY <1>1, <1>3 DEF TypeOK
<1>10. ASSUME NEW t \in StateTag
       PROVE  \/ Before(t, lastSent.ts)'
              \/ t \in lastSent'.tags /\ lastState'[t] \in {NoState, lastSent'.state[t]}
  BY <1>1, <1>4, <1>6 DEF TileInv
<1>11. \A q \in Proc : pc'[q] # "idle" => req'[q] = lastSent'
  BY <1>1, <1>2, <1>3 DEF TypeOK
<1>12. EventsTile' /\ storeTs' <= lastSent'.ts
  BY <1>1 DEF TileInv, EventsTile
<1> QED BY <1>8, <1>9, <1>10, <1>11, <1>12 DEF TileInv

(* Where the events tile, the one that is open is the last.                *)
LEMMA TileOpen ==
    ASSUME TypeOK, EventsTile, NEW t \in StateTag
    PROVE  LatestOpen(t) = {Len(events[t])}
<1>1. Len(events[t]) \in Nat
  BY DEF TypeOK
<1>2. \A i \in 1 .. Len(events[t]) : events[t][i].start \in Nat
  BY EventFields
<1>3. ASSUME NEW i \in 1 .. Len(events[t])
      PROVE  events[t][i].end = 0 <=> i = Len(events[t])
  <2>1. CASE i = Len(events[t])
    BY <2>1 DEF EventsTile
  <2>2. CASE i # Len(events[t])
    <3>1. events[t][i].end = events[t][i + 1].start /\ i + 1 \in 1 .. Len(events[t])
      BY <1>1, <2>2 DEF EventsTile
    <3>2. events[t][i + 1].start # 0
      BY <3>1, EventFields
    <3> QED BY <2>2, <3>1, <3>2
  <2> QED BY <2>1, <2>2
<1>4. CASE Len(events[t]) = 0
  <2>1. Open(t) = {}
    BY <1>4 DEF Open
  <2> QED BY <1>4, <2>1 DEF LatestOpen
<1>5. CASE Len(events[t]) # 0
  <2>1. Open(t) = {Len(events[t])}
    BY <1>1, <1>3, <1>5 DEF Open
  <2>2. events[t][Len(events[t])].start <= events[t][Len(events[t])].start
    BY <1>1, <1>2, <1>5
  <2> QED BY <2>1, <2>2 DEF LatestOpen
<1> QED BY <1>4, <1>5

(* TileInv is kept when the open events are loaded.                        *)
LEMMA TileFind ==
    ASSUME SharedInv, TileInv, InTurn, NEW p \in Proc, Find(p)
    PROVE  TileInv'
<1> USE DEF SharedInv
<1>1. /\ pc[p] = "detected" /\ pc' = [pc EXCEPT ![p] = "found"]
      /\ UNCHANGED <<req, changes, events, storeTs, lastSent, lastState>>
  BY DEF Find, dbVars, storeVars, worldVars
<1>2. \A q \in Proc : pc[q] # "idle" => q = p
  BY <1>1 DEF InTurn
<1>3. PICK f : /\ \A t \in StateTag :
                     f[t] \in IF t \in DOMAIN changes[p] THEN LatestOpen(t) ELSE {0}
               /\ found' = [found EXCEPT ![p] = f]
  BY DEF Find
<1>4. \A t, s : Before(t, s) => Before(t, s)'
  BY <1>1 DEF Before
<1>5. \A q \in Proc : Holds(q)' => Holds(q)
  BY <1>1 DEF Holds, TypeOK
<1>6. \A q \in Proc : DOMAIN changes[q] \subseteq StateTag
  BY ChangesFields DEF TypeOK
<1>7. ASSUME NEW q \in Proc, pc'[q] = "found", NEW t \in DOMAIN changes'[q]
      PROVE  found'[q][t] = Len(events'[t])
  <2>1. q = p
    BY <1>1, <1>2, <1>7 DEF TypeOK
  <2>2. t \in StateTag /\ t \in DOMAIN changes[p]
    BY <2>1, <1>1, <1>6, <1>7
  <2>3. f[t] \in {Len(events[t])}
    BY <1>3, <2>2, TileOpen DEF TileInv
  <2> QED BY <1>1, <1>3, <2>1, <2>3 DEF TypeOK
<1>8. \A q \in Proc : pc'[q] # "idle" => req'[q] = lastSent'
  BY <1>1 DEF TileInv, TypeOK
<1>9. EventsTile' /\ storeTs' <= lastSent'.ts
  BY <1>1 DEF TileInv, EventsTile
<1>10. \A q \in Proc : Holds(q)' => \A t \in DOMAIN changes'[q] :
          /\ Before(t, lastSent.ts)'
          /\ t \in lastSent'.tags
          /\ lastState'[t] \in {NoState, lastSent'.state[t]}
  BY <1>1, <1>4, <1>5, <1>6 DEF TileInv
<1>11. \A t \in StateTag :
          \/ Before(t, lastSent.ts)'
          \/ t \in lastSent'.tags /\ lastState'[t] \in {NoState, lastSent'.state[t]}
  BY <1>1, <1>4 DEF TileInv
<1> QED BY <1>7, <1>8, <1>9, <1>10, <1>11 DEF TileInv

(* A commit closes the last event of a tag at the time the new one starts. *)
LEMMA TileRecorded ==
    ASSUME SharedInv, TileInv, NEW p \in Proc, Commit(p), NEW t \in DOMAIN changes[p],
           NEW i \in 1 .. Len(events'[t])
    PROVE  IF i = Len(events'[t]) THEN events'[t][i].end = 0
           ELSE /\ events'[t][i].end = events'[t][i + 1].start
                /\ events'[t][i].start < events'[t][i].end
<1> USE DEF SharedInv
<1> DEFINE n == Len(events[t])
<1>1. t \in StateTag /\ pc[p] = "found"
  BY ChangesFields DEF Commit, TypeOK
<1>2. /\ Len(events'[t]) = n + 1
      /\ \A j \in 1 .. n :
            events'[t][j] = IF j = found[p][t]
                            THEN [events[t][j] EXCEPT !.end = req[p].ts]
                            ELSE events[t][j]
      /\ events'[t][n + 1] =
            [prev |-> changes[p][t].prev, state |-> changes[p][t].state,
             start |-> req[p].ts, end |-> 0]
  BY <1>1, CommitRows
<1>3. found[p][t] = n /\ req[p] = lastSent /\ Before(t, lastSent.ts)
  BY <1>1 DEF TileInv, Holds
<1>4. n \in Nat
  BY <1>1 DEF TypeOK
<1>5. \A j \in 1 .. n : events[t][j] \in EventRow
  BY <1>1, EventFields
<1>6. CASE i = n + 1
  BY <1>2, <1>6
<1>7. CASE i = n
  <2>1. events'[t][i] = [events[t][i] EXCEPT !.end = lastSent.ts]
    BY <1>2, <1>3, <1>7, <1>4
  <2>2. events'[t][i].end = lastSent.ts /\ events'[t][i].start = events[t][i].start
    BY <1>5, <1>4, <1>7, <2>1, <1>2 DEF EventRow
  <2>3. events'[t][i + 1].start = lastSent.ts
    BY <1>2, <1>3, <1>7
  <2>4. events[t][i].start < lastSent.ts
    BY <1>2, <1>3, <1>4, <1>7 DEF Before
  <2> QED BY <1>2, <1>4, <1>7, <2>2, <2>3, <2>4
<1>8. CASE i \in 1 .. n - 1
  <2>1. events'[t][i] = events[t][i]
    <3>1. i \in 1 .. n /\ i # found[p][t]
      BY <1>3, <1>4, <1>8
    <3> QED BY <3>1, <1>2
  <2>2. events'[t][i + 1].start = events[t][i + 1].start
    <3>1. i + 1 \in 1 .. n
      BY <1>4, <1>8
    <3>2. \/ events'[t][i + 1] = events[t][i + 1]
          \/ events'[t][i + 1] = [events[t][i + 1] EXCEPT !.end = req[p].ts]
      BY <1>2, <3>1
    <3> QED BY <3>1, <3>2, <1>5 DEF EventRow
  <2>3. /\ events[t][i].end = events[t][i + 1].start
        /\ events[t][i].start < events[t][i].end
    BY <1>1, <1>4, <1>8 DEF TileInv, EventsTile
  <2> QED BY <1>2, <1>4, <1>8, <2>1, <2>2, <2>3
<1> QED BY <1>2, <1>4, <1>6, <1>7, <1>8

(* TileInv is kept when a thread commits.                                  *)
LEMMA TileCommit ==
    ASSUME SharedInv, TileInv, InTurn, NEW p \in Proc, Commit(p)
    PROVE  TileInv'
<1> USE DEF SharedInv
<1>1. /\ pc[p] = "found" /\ pc' = [pc EXCEPT ![p] = "stored"]
      /\ UNCHANGED <<req, changes, storeTs, lastSent, lastState>>
  BY DEF Commit, memoryVars, storeVars, worldVars
<1>2. \A q \in Proc : pc[q] # "idle" => q = p
  BY <1>1 DEF InTurn
<1>3. \A q \in Proc : ~ Holds(q)'
  BY <1>1, <1>2 DEF Holds, TypeOK
<1>4. \A q \in Proc : pc'[q] # "idle" => req'[q] = lastSent'
  BY <1>1 DEF TileInv, TypeOK
<1>5. ASSUME NEW t \in StateTag, t \notin DOMAIN changes[p]
      PROVE  events'[t] = events[t]
  BY <1>5, CommitRows
<1>6. EventsTile'
  <2> SUFFICES ASSUME NEW t \in StateTag, NEW i \in 1 .. Len(events'[t])
               PROVE  IF i = Len(events'[t]) THEN events'[t][i].end = 0
                      ELSE /\ events'[t][i].end = events'[t][i + 1].start
                           /\ events'[t][i].start < events'[t][i].end
    BY DEF EventsTile
  <2>1. CASE t \in DOMAIN changes[p]
    BY <2>1, TileRecorded
  <2>2. CASE t \notin DOMAIN changes[p]
    BY <2>2, <1>5 DEF TileInv, EventsTile
  <2> QED BY <2>1, <2>2
<1>7. ASSUME NEW t \in StateTag
      PROVE  \/ Before(t, lastSent.ts)'
             \/ t \in lastSent'.tags /\ lastState'[t] \in {NoState, lastSent'.state[t]}
  <2>1. CASE t \in DOMAIN changes[p]
    BY <1>1, <2>1 DEF TileInv, Holds
  <2>2. CASE t \notin DOMAIN changes[p]
    BY <1>1, <1>5, <2>2 DEF TileInv, Before
  <2> QED BY <2>1, <2>2
<1> QED BY <1>1, <1>3, <1>4, <1>6, <1>7 DEF TileInv, Holds

(* TileInv is kept while requests are in turn.                             *)
LEMMA TileStep ==
    ASSUME SharedInv, TileInv, InTurn, InTurn', [Next]_vars
    PROVE  TileInv'
<1> USE DEF memoryVars, dbVars, storeVars, watchVars, worldVars, threadVars
<1>1. /\ lastSent.ts \in Nat /\ TypeOK
      /\ \A q \in Proc : DOMAIN changes[q] \subseteq StateTag
  BY TimesAreNat, ChangesFields DEF SharedInv, TypeOK
<1>2. \A q \in Proc : pc[q] # "idle" => req[q] = lastSent
  BY DEF TileInv
<1>3. ASSUME NEW p \in Proc, TimeOut(p) \/ Fail(p)
      PROVE  TileInv'
  <2>1. UNCHANGED <<events, lastSent, storeTs, lastState>>
    BY <1>3 DEF TimeOut, Fail
  <2>2. Finish(p) \/ UNCHANGED <<pc, req, changes, found>>
    BY <1>3 DEF TimeOut, Fail
  <2>3. CASE Finish(p)
    BY <1>1, <1>2, <2>1, <2>3, FinishOthers, TileFrame
  <2>4. CASE UNCHANGED <<pc, req, changes, found>>
    BY <1>1, <1>2, <2>1, <2>4, TileFrame
  <2> QED BY <2>2, <2>3, <2>4
<1>4. ASSUME NEW p \in Proc, Answer(p)
      PROVE  TileInv'
  <2>1. UNCHANGED <<events, lastSent, lastState>> /\ Finish(p) /\ pc[p] = "stored"
    BY <1>4 DEF Answer
  <2>2. storeTs' \in {storeTs, lastSent.ts}
    BY <1>2, <1>4, <2>1 DEF Answer
  <2> QED BY <1>1, <1>2, <2>1, <2>2, FinishOthers, TileFrame
<1>5. ASSUME WatchdogDecide \/ Tick \/ UNCHANGED vars
      PROVE  TileInv'
  <2>1. UNCHANGED <<events, lastSent, storeTs, lastState, pc, req, changes, found>>
    BY <1>5 DEF WatchdogDecide, Tick, vars
  <2> QED BY <1>1, <1>2, <2>1, TileFrame
<1>6. ASSUME WatchdogReset
      PROVE  TileInv'
  <2>1. UNCHANGED <<events, lastSent, storeTs, pc, req, changes, found>>
    BY <1>6 DEF WatchdogReset
  <2>2. \A t \in StateTag : lastState'[t] \in {lastState[t], NoState}
    BY <1>6 DEF WatchdogReset
  <2> QED BY <1>1, <1>2, <2>1, <2>2, TileFrame
<1>7. ASSUME Restart
      PROVE  TileInv'
  <2>1. UNCHANGED <<events, lastSent>> /\ storeTs' = 0
    BY <1>7 DEF Restart
  <2>2. \A t \in StateTag : lastState'[t] = NoState
    BY <1>7 DEF Restart
  <2>3. \A q \in Proc : pc'[q] = "idle"
    BY <1>7 DEF Restart
  <2> QED BY <1>1, <2>1, <2>2, <2>3, TileFrame
<1> QED
  BY <1>3, <1>4, <1>5, <1>6, <1>7, TileSend, TileDetect, TileFind, TileCommit
  DEF Next

(* With one request at a time, the events of a tag tile the time since the *)
(* first of them, whatever fails, is repeated or is started again.         *)
THEOREM EventsTileInTurn == Spec /\ []InTurn => []EventsTile
<1>1. Init => TileInv
  BY DEF Init, TileInv, EventsTile, Before, Holds, NoPayload
<1>2. SharedInv /\ TileInv /\ InTurn /\ InTurn' /\ [Next]_vars => TileInv'
  BY TileStep
<1>3. TileInv => EventsTile
  BY DEF TileInv
<1> QED BY <1>1, <1>2, <1>3, SharedInvariance, PTL DEF Spec

-----------------------------------------------------------------------------
(* Events chain                                                            *)

(* Steps that leave the events, the memory and the changes under way alone *)
(* keep ChainInv, and so does whatever counts as a failure.                *)
LEMMA ChainFrame ==
    ASSUME ChainInv, WatchInv',
           Undisturbed' =>
              /\ Undisturbed
              /\ UNCHANGED <<events, lastState>>
              /\ \A q \in Proc : /\ Holds(q)' <=> Holds(q)
                                 /\ Holds(q) => changes'[q] = changes[q]
    PROVE  ChainInv'
<1>1. CASE ~ Undisturbed'
  BY <1>1 DEF ChainInv, EventsChain
<1>2. CASE Undisturbed'
  <2>1. \A t, s : EndsIn(t, s) => EndsIn(t, s)'
    BY <1>2 DEF EndsIn
  <2>2. EventsChain'
    BY <1>2 DEF ChainInv, EventsChain
  <2>3. ASSUME NEW t \in StateTag
        PROVE  \/ EndsIn(t, lastState[t])'
               \/ \E q \in Proc : Holds(q)' /\ t \in DOMAIN changes'[q]
    BY <1>2, <2>1 DEF ChainInv
  <2>4. ASSUME NEW q \in Proc, Holds(q)', NEW t \in DOMAIN changes'[q]
        PROVE  /\ EndsIn(t, changes[q][t].prev)'
               /\ lastState'[t] = changes'[q][t].state
    BY <1>2, <2>1, <2>4 DEF ChainInv
  <2> QED BY <2>2, <2>3, <2>4 DEF ChainInv
<1> QED BY <1>1, <1>2

(* ChainInv is kept when the memory advances.                              *)
LEMMA ChainDetect ==
    ASSUME SharedInv, ChainInv, InTurn, NEW p \in Proc, Detect(p)
    PROVE  ChainInv'
<1> USE DEF SharedInv
<1> DEFINE r == req[p]
<1>1. /\ pc[p] = "queued" /\ pc' = [pc EXCEPT ![p] = "detected"]
      /\ changes' = [changes EXCEPT ![p] = ChangesOf(r)]
      /\ lastState' = NewStates(r)
      /\ UNCHANGED <<events, faults, crashes, watchdog, recovered>>
  BY DEF Detect, dbVars, watchVars, worldVars
<1>2. \A q \in Proc : ~ Holds(q)
  BY <1>1 DEF InTurn, Holds
<1>3. \A q \in Proc : Holds(q)' => q = p
  BY <1>1, <1>2 DEF Holds, TypeOK
<1>4. Holds(p)' /\ changes'[p] = ChangesOf(r)
  BY <1>1 DEF Holds, TypeOK
<1>5. WatchInv' /\ EventsChain' /\ Undisturbed' = Undisturbed
  BY <1>1 DEF ChainInv, WatchInv, EventsChain, Undisturbed
<1>6. \A t, s : EndsIn(t, s) => EndsIn(t, s)'
  BY <1>1 DEF EndsIn
<1>7. r \in Payload
  BY <1>1 DEF RequestInv
<1>8. ASSUME NEW t \in StateTag, EndsIn(t, NoState), NEW s
      PROVE  EndsIn(t, s)
  <2>1. Len(events[t]) \in Nat /\ (events[t] # <<>> => Len(events[t]) # 0)
    BY DEF TypeOK
  <2>2. events[t] # <<>> => events[t][Len(events[t])].state \in State
    BY <2>1, EventFields
  <2> QED BY <1>8, <2>2, StateAssumption DEF EndsIn
<1>9. ASSUME Undisturbed, NEW t \in StateTag
      PROVE  \/ EndsIn(t, lastState[t])'
             \/ \E q \in Proc : Holds(q)' /\ t \in DOMAIN changes'[q]
  <2>1. EndsIn(t, lastState[t])
    BY <1>2, <1>9 DEF ChainInv
  <2>2. CASE t \in DOMAIN ChangesOf(r)
    BY <1>4, <2>2
  <2>3. CASE t \notin DOMAIN ChangesOf(r)
    <3>1. \/ lastState'[t] = lastState[t]
          \/ lastState[t] = NoState
      BY <1>1, <2>3 DEF ChangesOf, NewStates
    <3>2. EndsIn(t, lastState'[t])
      BY <1>8, <2>1, <3>1
    <3> QED BY <1>6, <3>2 DEF EndsIn
  <2> QED BY <2>2, <2>3
<1>10. ASSUME Undisturbed, NEW q \in Proc, Holds(q)', NEW t \in DOMAIN changes'[q]
       PROVE  /\ EndsIn(t, changes[q][t].prev)'
              /\ lastState'[t] = changes'[q][t].state
  <2>1. q = p /\ t \in DOMAIN ChangesOf(r) /\ changes'[q] = ChangesOf(r)
    BY <1>3, <1>4, <1>10
  <2>2. /\ t \in StateTag /\ t \in r.tags
        /\ ChangesOf(r)[t] = [prev |-> lastState[t], state |-> r.state[t]]
    BY <2>1 DEF ChangesOf
  <2>3. EndsIn(t, lastState[t])
    BY <1>2, <1>10, <2>2 DEF ChainInv
  <2>4. changes'[q][t].prev = lastState[t] /\ changes'[q][t].state = r.state[t]
    BY <2>1, <2>2
  <2>5. lastState'[t] = r.state[t]
    BY <1>1, <2>2 DEF NewStates
  <2> QED BY <1>6, <2>3, <2>4, <2>5 DEF EndsIn
<1> QED BY <1>5, <1>9, <1>10 DEF ChainInv

(* ChainInv is kept when a thread commits.                                 *)
LEMMA ChainCommit ==
    ASSUME SharedInv, ChainInv, InTurn, NEW p \in Proc, Commit(p)
    PROVE  ChainInv'
<1> USE DEF SharedInv
<1>1. /\ pc[p] = "found" /\ pc' = [pc EXCEPT ![p] = "stored"]
      /\ UNCHANGED <<changes, lastState, faults, crashes, watchdog, recovered>>
  BY DEF Commit, memoryVars, watchVars, worldVars
<1>2. \A q \in Proc : Holds(q) => q = p
  BY <1>1 DEF InTurn, Holds
<1>3. \A q \in Proc : ~ Holds(q)'
  BY <1>1, <1>2 DEF Holds, TypeOK
<1>4. WatchInv' /\ Undisturbed' = Undisturbed
  BY <1>1 DEF ChainInv, WatchInv, Undisturbed
<1>5. ASSUME Undisturbed, NEW t \in StateTag, t \notin DOMAIN changes[p]
      PROVE  /\ \A i \in 2 .. Len(events'[t]) :
                   events'[t][i].prev = events'[t][i - 1].state
             /\ EndsIn(t, lastState[t])'
  <2>1. events'[t] = events[t]
    BY <1>5, CommitRows
  <2>2. EndsIn(t, lastState[t])
    BY <1>2, <1>5 DEF ChainInv
  <2> QED BY <1>1, <1>5, <2>1, <2>2 DEF ChainInv, EventsChain, EndsIn
<1>6. ASSUME Undisturbed, NEW t \in DOMAIN changes[p]
      PROVE  /\ \A i \in 2 .. Len(events'[t]) :
                   events'[t][i].prev = events'[t][i - 1].state
             /\ EndsIn(t, lastState[t])'
  <2> DEFINE n == Len(events[t])
  <2>1. t \in StateTag
    BY ChangesFields DEF TypeOK
  <2>2. n \in Nat /\ \A j \in 1 .. n : events[t][j] \in EventRow
    BY <2>1, EventFields DEF TypeOK
  <2>3. /\ Len(events'[t]) = n + 1
        /\ \A j \in 1 .. n :
              events'[t][j] = IF j = found[p][t]
                              THEN [events[t][j] EXCEPT !.end = req[p].ts]
                              ELSE events[t][j]
        /\ events'[t][n + 1] =
              [prev |-> changes[p][t].prev, state |-> changes[p][t].state,
               start |-> req[p].ts, end |-> 0]
    BY <2>1, CommitRows
  <2>4. \A j \in 1 .. n : /\ events'[t][j].prev = events[t][j].prev
                          /\ events'[t][j].state = events[t][j].state
    BY <2>2, <2>3 DEF EventRow
  <2>5. /\ EndsIn(t, changes[p][t].prev)
        /\ lastState[t] = changes[p][t].state
    BY <1>1, <1>6 DEF ChainInv, Holds
  <2>6. ASSUME NEW i \in 2 .. n + 1
        PROVE  events'[t][i].prev = events'[t][i - 1].state
    <3>1. CASE i = n + 1
      <4>1. n # 0 /\ events[t] # <<>> /\ i - 1 = n /\ n \in 1 .. n
        BY <2>2, <3>1
      <4>2. events[t][n].state = changes[p][t].prev
        BY <2>5, <4>1 DEF EndsIn
      <4> QED BY <2>3, <2>4, <3>1, <4>1, <4>2
    <3>2. CASE i \in 2 .. n
      <4>1. i \in 1 .. n /\ i - 1 \in 1 .. n
        BY <2>2, <3>2
      <4>2. events[t][i].prev = events[t][i - 1].state
        BY <1>6, <2>1, <3>2 DEF ChainInv, EventsChain
      <4> QED BY <2>4, <4>1, <4>2
    <3> QED BY <2>2, <3>1, <3>2
  <2>7. EndsIn(t, lastState[t])'
    BY <1>1, <2>3, <2>5 DEF EndsIn
  <2> QED BY <2>3, <2>6, <2>7
<1>7. EventsChain'
  BY <1>4, <1>5, <1>6 DEF EventsChain
<1>8. Undisturbed' => \A t \in StateTag : EndsIn(t, lastState[t])'
  BY <1>4, <1>5, <1>6
<1> QED BY <1>3, <1>4, <1>7, <1>8 DEF ChainInv

(* The watchdog remembers when it recovered.                               *)
LEMMA WatchStep ==
    ASSUME TypeOK, WatchInv, [Next]_vars
    PROVE  WatchInv'
<1> USE DEF memoryVars, dbVars, storeVars, watchVars, worldVars, threadVars
<1>1. CASE UNCHANGED <<watchdog, recovered>>
  BY <1>1 DEF WatchInv
<1>2. CASE WatchdogDecide
  BY <1>2, TimeAssumption DEF WatchdogDecide, WatchInv, TypeOK, Time
<1>3. CASE WatchdogReset \/ Restart
  BY <1>3 DEF WatchdogReset, Restart, WatchInv
<1>4. CASE \E p \in Proc : \/ Send(p) \/ TimeOut(p) \/ Answer(p)
                           \/ Detect(p) \/ Find(p) \/ Commit(p) \/ Fail(p)
  BY <1>1, <1>4 DEF Send, Receive, TimeOut, Answer, Detect, Find, Commit, Fail
<1>5. CASE Tick \/ UNCHANGED vars
  BY <1>1, <1>5 DEF Tick, vars
<1> QED BY <1>2, <1>3, <1>4, <1>5 DEF Next

(* A step after which nothing has failed is one of these: the memory       *)
(* advances, a thread commits, or no thread comes to hold changes or lets  *)
(* go of any.                                                              *)
LEMMA UndisturbedStep ==
    ASSUME TypeOK, WatchInv, [Next]_vars, Undisturbed'
    PROVE  /\ Undisturbed
           /\ \/ \E p \in Proc : Detect(p) \/ Commit(p)
              \/ /\ UNCHANGED <<events, row, lastState, buffer>>
                 /\ \A q \in Proc : /\ Holds(q)' <=> Holds(q)
                                    /\ Holds(q) => /\ changes'[q] = changes[q]
                                                   /\ flush'[q] = flush[q]
                                                   /\ req'[q] = req[q]
<1> USE DEF memoryVars, dbVars, storeVars, watchVars, worldVars, threadVars
<1>1. ASSUME NEW p \in Proc, Send(p)
      PROVE  /\ UNCHANGED <<events, row, lastState, buffer, changes, flush>>
             /\ \A q \in Proc : /\ Holds(q)' <=> Holds(q)
                                /\ Holds(q) => req'[q] = req[q]
             /\ Undisturbed
  <2>1. PICK r \in Payload : Receive(p, r)
    BY <1>1, SendCases
  <2> QED BY <2>1 DEF Receive, TypeOK, Holds, Undisturbed
<1>2. ASSUME NEW p \in Proc, Finish(p), ~ Holds(p), NEW q \in Proc
      PROVE  /\ Holds(q)' <=> Holds(q)
             /\ Holds(q) => /\ changes'[q] = changes[q]
                            /\ flush'[q] = flush[q]
                            /\ req'[q] = req[q]
  BY <1>2 DEF Finish, TypeOK, Holds
<1>3. ASSUME NEW p \in Proc, TimeOut(p)
      PROVE  /\ UNCHANGED <<events, row, lastState, buffer>>
             /\ (Finish(p) /\ ~ Holds(p)) \/ UNCHANGED <<pc, changes, flush, req>>
             /\ Undisturbed
  BY <1>3 DEF TimeOut, Holds, Undisturbed
<1>4. ASSUME NEW p \in Proc, Answer(p)
      PROVE  /\ UNCHANGED <<events, row, lastState, buffer>>
             /\ Finish(p) /\ ~ Holds(p)
             /\ Undisturbed
  BY <1>4 DEF Answer, Holds, Undisturbed
<1>5. ASSUME NEW p \in Proc, Find(p)
      PROVE  /\ UNCHANGED <<events, row, lastState, buffer, changes, flush, req>>
             /\ \A q \in Proc : Holds(q)' <=> Holds(q)
             /\ Undisturbed
  BY <1>5 DEF Find, Holds, Undisturbed, TypeOK
<1>6. ASSUME NEW p \in Proc, Detect(p) \/ Commit(p)
      PROVE  Undisturbed
  BY <1>6 DEF Detect, Commit, Undisturbed
<1>7. ~ \E p \in Proc : Fail(p)
  BY BoundAssumption DEF Fail, Undisturbed, TypeOK
<1>8. ~ WatchdogDecide
  BY TimeAssumption DEF WatchdogDecide, Undisturbed, TypeOK, Time
<1>9. ~ WatchdogReset
  BY DEF WatchdogReset, Undisturbed, WatchInv
<1>10. ~ Restart
  BY BoundAssumption DEF Restart, Undisturbed, TypeOK
<1>11. ASSUME Tick \/ UNCHANGED vars
       PROVE  /\ UNCHANGED <<events, row, lastState, buffer, pc, changes,
                             flush, req>>
              /\ Undisturbed
  BY <1>11 DEF Tick, vars, Undisturbed
<1>12. ASSUME UNCHANGED <<pc, changes, flush, req>>, NEW q \in Proc
       PROVE  /\ Holds(q)' <=> Holds(q)
              /\ changes'[q] = changes[q] /\ flush'[q] = flush[q]
              /\ req'[q] = req[q]
  BY <1>12 DEF Holds
<1>13. CASE \E p \in Proc : Send(p) \/ Find(p) \/ Detect(p) \/ Commit(p)
  BY <1>1, <1>5, <1>6, <1>13
<1>14. CASE \E p \in Proc : TimeOut(p) \/ Answer(p)
  BY <1>2, <1>3, <1>4, <1>12, <1>14
<1>15. CASE Tick \/ UNCHANGED vars
  BY <1>11, <1>12, <1>15
<1> QED
  BY <1>7, <1>8, <1>9, <1>10, <1>13, <1>14, <1>15 DEF Next

(* ChainInv is kept while requests are in turn.                            *)
LEMMA ChainStep ==
    ASSUME SharedInv, ChainInv, InTurn, [Next]_vars
    PROVE  ChainInv'
<1>1. TypeOK /\ WatchInv
  BY DEF SharedInv, ChainInv
<1>2. WatchInv'
  BY <1>1, WatchStep
<1>3. CASE \E p \in Proc : Detect(p) \/ Commit(p)
  BY <1>3, ChainDetect, ChainCommit
<1>4. CASE ~ \E p \in Proc : Detect(p) \/ Commit(p)
  BY <1>1, <1>2, <1>4, UndisturbedStep, ChainFrame
<1> QED BY <1>3, <1>4

(* With one request at a time, and as long as nothing has failed, each     *)
(* event starts from the state the one before it ended in.                 *)
THEOREM EventsChainInTurn == Spec /\ []InTurn => []EventsChain
<1>1. Init => ChainInv
  BY DEF Init, ChainInv, WatchInv, EventsChain, EndsIn, Holds
<1>2. SharedInv /\ ChainInv /\ InTurn /\ [Next]_vars => ChainInv'
  BY ChainStep
<1>3. ChainInv => EventsChain
  BY DEF ChainInv
<1> QED BY <1>1, <1>2, <1>3, SharedInvariance, PTL DEF Spec

-----------------------------------------------------------------------------
(* Readings answered are kept                                              *)

(* Steps that write no row, and only forget what is in the buffer and with *)
(* the threads, keep KeptInv.                                              *)
LEMMA KeptFrame ==
    ASSUME SharedInv, KeptInv, WatchInv', UNCHANGED row,
           buffer' \in {buffer, NoBuffer},
           lastSent.ts <= lastSent'.ts, lastSent'.ts \in Nat,
           \A q \in Proc : flush'[q] # NoBuffer =>
              flush'[q] = flush[q] /\ Holds(q)',
           recovered' = 0 =>
              \A q \in Proc : (Holds(q) \/ pc[q] = "stored")' =>
                 /\ recovered = 0 /\ UNCHANGED buffer
                 /\ Holds(q) \/ pc[q] = "stored"
                 /\ req'[q] = req[q]
    PROVE  KeptInv'
<1>1. /\ lastSent.ts \in Nat /\ buffer.bucket \in Nat
      /\ \A t \in Tag : buffer.tags[t] \in Nat
      /\ \A m \in Minute : m \in Nat
  BY TimesAreNat, TimeAssumption DEF SharedInv, TypeOK, Buffer, Readings, Minute
<1>2. MinuteOf(lastSent.ts) <= MinuteOf(lastSent'.ts)
  BY <1>1, MinuteMonotone
<1>3. MinuteOf(lastSent.ts) \in Nat /\ MinuteOf(lastSent'.ts) \in Nat
  BY <1>1, TimeAssumption DEF MinuteOf
<1>4. /\ buffer'.bucket <= MinuteOf(lastSent'.ts)
      /\ \A t \in Tag : buffer'.tags[t] <= lastSent'.ts
  BY <1>1, <1>2, <1>3 DEF KeptInv, NoBuffer, NoReadings
<1>5. \A m \in Minute : row'[m] # NoReadings =>
         /\ m < MinuteOf(lastSent'.ts)
         /\ buffer' # NoBuffer => m < buffer'.bucket
  BY <1>1, <1>2, <1>3 DEF KeptInv
<1>6. \A q \in Proc : flush'[q] # NoBuffer =>
         /\ Holds(q)'
         /\ flush'[q].bucket \in Minute
         /\ flush'[q].bucket < MinuteOf(lastSent'.ts)
         /\ buffer' # NoBuffer => flush'[q].bucket < buffer'.bucket
         /\ row'[flush'[q].bucket] = NoReadings
  BY <1>1, <1>2, <1>3 DEF KeptInv
<1>7. recovered' = 0 =>
         \A q \in Proc : (Holds(q) \/ pc[q] = "stored")' => InBuffer(req[q])'
  BY DEF KeptInv, InBuffer
<1> QED BY <1>4, <1>5, <1>6, <1>7 DEF KeptInv

(* The numbers in the buffer, the rows and the hands of threads.           *)
LEMMA BufferNumbers ==
    ASSUME SharedInv
    PROVE  /\ buffer.bucket \in Nat /\ buffer \in Buffer
           /\ \A t \in Tag : buffer.tags[t] \in Nat
           /\ \A m \in Minute : m \in Nat /\ m # 0
           /\ \A m \in Minute, t \in Tag : row[m][t] \in Nat
           /\ \A p \in Proc, t \in Tag : flush[p].tags[t] \in Nat
           /\ buffer.bucket = 0 => buffer = NoBuffer
<1>1. /\ buffer \in Buffer /\ row \in [Minute -> Readings]
      /\ flush \in [Proc -> Buffer]
      /\ buffer.bucket = 0 => buffer = NoBuffer
  BY DEF SharedInv, TypeOK, MinuteInv
<1>2. \A m \in Minute : m \in Nat /\ m # 0
  BY TimeAssumption DEF Minute, MinuteOf
<1>3. \A f \in Readings, t \in Tag : f[t] \in Nat
  BY TimeAssumption DEF Readings
<1>4. \A f \in Buffer : f.bucket \in Nat /\ f.tags \in Readings
  BY <1>2 DEF Buffer
<1> QED BY <1>1, <1>2, <1>3, <1>4

(* KeptInv is kept when a payload is put into the buffer, and so is every  *)
(* reading.                                                                *)
LEMMA KeptDetect ==
    ASSUME SharedInv, TileInv, KeptInv, InTurn, NEW p \in Proc, Detect(p)
    PROVE  /\ KeptInv'
           /\ \A m \in Minute, t \in Tag, s \in Nat :
                 InPlace(m, t, s) => InPlace(m, t, s)'
<1> USE DEF SharedInv
<1> DEFINE r == req[p]
           b == MinuteOf(r.ts)
<1>1. /\ pc[p] = "queued" /\ pc' = [pc EXCEPT ![p] = "detected"]
      /\ Buffering(p, r)
      /\ UNCHANGED <<req, row, lastSent, watchdog, recovered>>
  BY DEF Detect, dbVars, watchVars, worldVars
<1>2. WatchInv'
  BY <1>1 DEF KeptInv, WatchInv
<1>3. r = lastSent /\ r \in Payload
  BY <1>1 DEF TileInv, RequestInv
<1>4. r.ts \in Nat /\ 0 < r.ts /\ b \in Minute /\ b \in Nat /\ b # 0
  BY <1>3, PayloadFields, MinuteBounds
<1>5. \A q \in Proc : pc[q] # "idle" => q = p
  BY <1>1 DEF InTurn
<1>6. \A q \in Proc : flush[q] = NoBuffer
  BY <1>1, <1>5 DEF KeptInv, Holds
<1>7. \A q \in Proc : (Holds(q) \/ pc[q] = "stored")' => q = p
  BY <1>1, <1>5 DEF Holds, TypeOK
<1>8. Holds(p)'
  BY <1>1 DEF Holds, TypeOK
<1>9. /\ buffer.bucket <= b
      /\ \A t \in Tag : buffer.tags[t] <= r.ts
      /\ \A m \in Minute : row[m] # NoReadings =>
            m < b /\ (buffer # NoBuffer => m < buffer.bucket)
  BY <1>3 DEF KeptInv
<1>10. ASSUME NEW m \in Minute, NEW t \in Tag, NEW s \in Nat,
              InPlace(m, t, s)
       PROVE  \/ row[m][t] >= s
              \/ buffer.bucket = m /\ buffer.tags[t] >= s
  <2>1. \A q \in Proc : flush[q].bucket # m
    BY <1>6, BufferNumbers DEF NoBuffer
  <2> QED BY <1>10, <2>1 DEF InPlace
<1>11. ReadingsOf(r) = [t \in Tag |-> IF t \in r.tags THEN r.ts ELSE 0]
  BY DEF ReadingsOf
<1> HIDE DEF r, b
(* Whichever way it came about, a buffer of the payload's minute will do.  *)
<1>12. ASSUME /\ buffer'.bucket = b
              /\ \A t \in Tag : /\ t \in r.tags => buffer'.tags[t] = r.ts
                                /\ buffer'.tags[t] <= r.ts
              /\ \A q \in Proc : flush'[q] # NoBuffer =>
                    /\ q = p /\ flush'[q].bucket \in Minute
                    /\ flush'[q].bucket < b
                    /\ row[flush'[q].bucket] = NoReadings
       PROVE  KeptInv'
  <2>1. b = MinuteOf(lastSent'.ts) /\ b <= b
    BY <1>1, <1>3, <1>4 DEF b
  <2>2. \A t \in Tag : buffer'.tags[t] <= lastSent'.ts
    BY <1>1, <1>3, <1>12
  <2>3. \A q \in Proc : (Holds(q) \/ pc[q] = "stored")' => InBuffer(req[q])'
    BY <1>1, <1>7, <1>12 DEF InBuffer, r, b
  <2>4. \A m \in Minute : row'[m] # NoReadings => m < b
    BY <1>1, <1>9
  <2>5. \A q \in Proc : flush'[q] # NoBuffer =>
           /\ Holds(q)'
           /\ flush'[q].bucket \in Minute
           /\ flush'[q].bucket < b
           /\ row'[flush'[q].bucket] = NoReadings
    BY <1>1, <1>8, <1>12
  <2> QED BY <1>2, <1>12, <2>1, <2>2, <2>3, <2>4, <2>5 DEF KeptInv
<1>13. CASE buffer = NoBuffer
  <2>1. buffer' = [bucket |-> b, tags |-> ReadingsOf(r)] /\ flush' = flush
    BY <1>1, <1>13 DEF Buffering, b, r
  <2>2. \A m \in Minute, t \in Tag, s \in Nat :
            InPlace(m, t, s) => InPlace(m, t, s)'
    BY <1>1, <1>10, <1>13, BufferNumbers DEF InPlace, NoBuffer
  <2>3. \A t \in Tag : /\ t \in r.tags => buffer'.tags[t] = r.ts
                       /\ buffer'.tags[t] <= r.ts
    BY <1>4, <1>11, <2>1
  <2> QED BY <1>6, <1>12, <2>1, <2>2, <2>3
<1>14. CASE buffer # NoBuffer /\ b = buffer.bucket
  <2>1. /\ buffer' = [buffer EXCEPT !.tags = Over(@, ReadingsOf(r))]
        /\ flush' = flush
    BY <1>1, <1>4, <1>14, BufferNumbers DEF Buffering, b, r
  <2>2. buffer'.bucket = b /\ buffer'.tags = Over(buffer.tags, ReadingsOf(r))
    BY <1>14, <2>1, BufferNumbers DEF Buffer
  <2>3. \A t \in Tag : buffer'.tags[t] = IF t \in r.tags THEN r.ts ELSE buffer.tags[t]
    BY <1>4, <1>11, <2>2 DEF Over
  <2>4. \A t \in Tag : /\ t \in r.tags => buffer'.tags[t] = r.ts
                       /\ buffer'.tags[t] <= r.ts
                       /\ buffer'.tags[t] >= buffer.tags[t]
    BY <1>4, <1>9, <2>3, BufferNumbers
  <2>5. ASSUME NEW m \in Minute, NEW t \in Tag, NEW s \in Nat,
               InPlace(m, t, s)
        PROVE  InPlace(m, t, s)'
    <3>1. buffer'.tags[t] >= buffer.tags[t] /\ buffer'.tags[t] \in Nat
      BY <1>4, <2>3, <2>4, BufferNumbers
    <3>2. \/ row[m][t] >= s
          \/ buffer'.bucket = m /\ buffer'.tags[t] >= s
      BY <1>10, <1>14, <2>2, <2>5, <3>1, BufferNumbers
    <3> QED BY <1>1, <3>2 DEF InPlace
  <2> QED BY <1>6, <1>12, <2>1, <2>2, <2>4, <2>5
<1>15. CASE buffer # NoBuffer /\ b # buffer.bucket
  <2>1. b > buffer.bucket /\ buffer.bucket \in Minute
    BY <1>4, <1>9, <1>15, BufferNumbers DEF TypeOK, Buffer
  <2>2. /\ flush' = [flush EXCEPT ![p] = buffer]
        /\ buffer' = [bucket |-> b, tags |-> ReadingsOf(r)]
    BY <1>1, <1>4, <1>15, <2>1, BufferNumbers DEF Buffering, b, r
  <2>3. flush'[p] = buffer /\ \A q \in Proc : q # p => flush'[q] = NoBuffer
    BY <1>6, <2>2 DEF TypeOK
  <2>4. row[buffer.bucket] = NoReadings
    BY <1>9, <1>15, <2>1, BufferNumbers
  <2>5. ASSUME NEW m \in Minute, NEW t \in Tag, NEW s \in Nat,
               InPlace(m, t, s)
        PROVE  InPlace(m, t, s)'
    BY <1>1, <1>10, <2>3, <2>5 DEF InPlace
  <2>6. \A t \in Tag : /\ t \in r.tags => buffer'.tags[t] = r.ts
                       /\ buffer'.tags[t] <= r.ts
    BY <1>4, <1>11, <2>2
  <2> QED BY <1>12, <2>1, <2>2, <2>3, <2>4, <2>5, <2>6
<1> QED BY <1>13, <1>14, <1>15

(* KeptInv is kept when a thread commits, and so is every reading: the     *)
(* minute it has taken out goes into a row that was empty.                 *)
LEMMA KeptCommit ==
    ASSUME SharedInv, KeptInv, InTurn, NEW p \in Proc, Commit(p)
    PROVE  /\ KeptInv'
           /\ \A m \in Minute, t \in Tag, s \in Nat :
                 InPlace(m, t, s) => InPlace(m, t, s)'
<1> USE DEF SharedInv
<1> DEFINE b == flush[p].bucket
<1>1. /\ pc[p] = "found" /\ pc' = [pc EXCEPT ![p] = "stored"]
      /\ row' = IF b = 0 THEN row ELSE [row EXCEPT ![b] = Over(@, flush[p].tags)]
      /\ flush' = [flush EXCEPT ![p] = NoBuffer]
      /\ UNCHANGED <<req, buffer, lastSent, watchdog, recovered>>
  BY DEF Commit, memoryVars, watchVars, worldVars
<1>2. WatchInv'
  BY <1>1 DEF KeptInv, WatchInv
<1>3. \A q \in Proc : pc[q] # "idle" => q = p
  BY <1>1 DEF InTurn
<1>4. \A q \in Proc : q # p => flush[q] = NoBuffer
  BY <1>3 DEF KeptInv, Holds
<1>5. \A q \in Proc : flush'[q] = NoBuffer
  BY <1>1, <1>4 DEF TypeOK
<1>6. recovered = 0 =>
         \A q \in Proc : (Holds(q) \/ pc[q] = "stored")' => InBuffer(req[q])'
  BY <1>1, <1>3 DEF KeptInv, InBuffer, Holds, TypeOK
<1>7. ASSUME \A m \in Minute : row'[m] # NoReadings =>
                /\ m < MinuteOf(lastSent.ts)
                /\ buffer # NoBuffer => m < buffer.bucket
      PROVE  KeptInv'
  BY <1>1, <1>2, <1>5, <1>6, <1>7 DEF KeptInv
<1>8. CASE flush[p] = NoBuffer
  <2>1. row' = row
    BY <1>1, <1>8 DEF NoBuffer
  <2>2. \A q \in Proc : flush'[q] = flush[q]
    BY <1>4, <1>5, <1>8
  <2>3. \A m \in Minute, t \in Tag, s \in Nat :
            InPlace(m, t, s) => InPlace(m, t, s)'
    BY <1>1, <2>1, <2>2 DEF InPlace
  <2>4. KeptInv'
    BY <1>7, <2>1 DEF KeptInv
  <2> QED BY <2>3, <2>4
<1>9. CASE flush[p] # NoBuffer
  <2>1. /\ b \in Minute /\ b # 0 /\ row[b] = NoReadings
        /\ b < MinuteOf(lastSent.ts)
        /\ buffer # NoBuffer => b < buffer.bucket
    BY <1>9, BufferNumbers DEF KeptInv
  <2>2. \A m \in Minute : m # b => row'[m] = row[m]
    BY <1>1, <2>1 DEF TypeOK
  <2>3. row'[b] = Over(NoReadings, flush[p].tags)
    BY <1>1, <2>1 DEF TypeOK
  <2>4. \A t \in Tag : row'[b][t] = flush[p].tags[t]
    BY <2>3 DEF Over, NoReadings
  <2>5. KeptInv'
    BY <1>7, <2>1, <2>2 DEF KeptInv
  <2>6. ASSUME NEW m \in Minute, NEW t \in Tag, NEW s \in Nat,
               InPlace(m, t, s)
        PROVE  InPlace(m, t, s)'
    <3>1. \/ row[m][t] >= s
          \/ buffer.bucket = m /\ buffer.tags[t] >= s
          \/ b = m /\ flush[p].tags[t] >= s
      <4>1. \A q \in Proc : flush[q].bucket = m => q = p
        BY <1>4, BufferNumbers DEF NoBuffer
      <4> QED BY <2>6, <4>1 DEF InPlace
    <3>2. CASE m = b
      <4>1. row[m][t] = 0 /\ flush[p].tags[t] \in Nat
        BY <2>1, <3>2, BufferNumbers DEF NoReadings
      <4>2. row'[m][t] >= s \/ (buffer.bucket = m /\ buffer.tags[t] >= s)
        BY <2>4, <3>1, <3>2, <4>1
      <4> QED BY <1>1, <4>2 DEF InPlace
    <3>3. CASE m # b
      BY <1>1, <2>2, <3>1, <3>3 DEF InPlace
    <3> QED BY <3>2, <3>3
  <2> QED BY <2>5, <2>6
<1> QED BY <1>8, <1>9

(* What a step that is neither of these does to the readings: it writes no *)
(* row, and the buffer and the threads only forget.                        *)
LEMMA KeptOther ==
    ASSUME SharedInv, TileInv, KeptInv, [Next]_vars,
           ~ \E p \in Proc : Detect(p) \/ Commit(p)
    PROVE  /\ UNCHANGED row
           /\ buffer' \in {buffer, NoBuffer}
           /\ lastSent.ts <= lastSent'.ts /\ lastSent'.ts \in Nat
           /\ \A q \in Proc : flush'[q] # NoBuffer =>
                 flush'[q] = flush[q] /\ Holds(q)'
           /\ recovered' = 0 =>
                 \A q \in Proc : (Holds(q) \/ pc[q] = "stored")' =>
                    /\ recovered = 0 /\ UNCHANGED buffer
                    /\ Holds(q) \/ pc[q] = "stored"
                    /\ req'[q] = req[q]
<1> USE DEF SharedInv, memoryVars, dbVars, storeVars, watchVars, worldVars,
            threadVars
<1>1. TypeOK /\ WatchInv
  BY DEF KeptInv
<1>2. lastSent.ts \in Nat /\ lastSent.ts <= lastSent.ts
  BY <1>1, TimesAreNat
<1>3. \A q \in Proc : flush[q] # NoBuffer => Holds(q)
  BY DEF KeptInv
<1>4. ASSUME NEW p \in Proc, Send(p)
      PROVE  /\ lastSent.ts <= lastSent'.ts /\ lastSent'.ts \in Nat
             /\ UNCHANGED <<row, buffer, flush, recovered>>
             /\ \A q \in Proc : /\ Holds(q)' <=> Holds(q)
                                /\ Holds(q) => req'[q] = req[q]
                                /\ pc'[q] = "stored" =>
                                      pc[q] = "stored" /\ req'[q] = req[q]
  <2>1. PICK r \in Payload :
           /\ Receive(p, r)
           /\ r = lastSent \/ (lastSent.ts < r.ts /\ r.ts = now)
    BY <1>1, <1>4, SendCases
  <2>2. r.ts \in Nat
    BY PayloadFields
  <2>3. lastSent' = r /\ lastSent.ts <= r.ts
    BY <1>2, <2>1, <2>2 DEF Receive
  <2> QED BY <1>1, <2>1, <2>2, <2>3 DEF Receive, Holds, TypeOK
<1>5. ASSUME NEW p \in Proc, TimeOut(p) \/ Answer(p) \/ Find(p) \/ Fail(p)
      PROVE  /\ UNCHANGED <<lastSent, row, buffer, recovered>>
             /\ \A q \in Proc : /\ flush'[q] # NoBuffer =>
                                      flush'[q] = flush[q] /\ Holds(q)'
                                /\ (Holds(q) \/ pc[q] = "stored")' =>
                                      /\ Holds(q) \/ pc[q] = "stored"
                                      /\ req'[q] = req[q]
  <2>1. UNCHANGED <<lastSent, row, buffer, recovered>>
    BY <1>5 DEF TimeOut, Answer, Find, Fail
  <2>2. CASE Finish(p)
    BY <1>1, <1>3, <2>1, <2>2 DEF Finish, Holds, TypeOK
  <2>3. CASE Find(p)
    BY <1>1, <1>3, <2>1, <2>3 DEF Find, Holds, TypeOK
  <2>4. CASE UNCHANGED <<pc, req, flush>>
    BY <1>3, <2>1, <2>4 DEF Holds
  <2> QED BY <1>5, <2>1, <2>2, <2>3, <2>4 DEF TimeOut, Answer, Fail
<1>6. CASE WatchdogDecide \/ WatchdogReset
  <2>1. recovered' # 0
    BY <1>1, <1>6, TimeAssumption
    DEF WatchdogDecide, WatchdogReset, WatchInv, TypeOK, Time
  <2>2. UNCHANGED <<row, lastSent, flush, pc>> /\ buffer' \in {buffer, NoBuffer}
    BY <1>6 DEF WatchdogDecide, WatchdogReset
  <2> QED BY <1>2, <1>3, <2>1, <2>2 DEF Holds
<1>7. CASE Restart
  <2>1. /\ UNCHANGED <<row, lastSent>> /\ buffer' = NoBuffer
        /\ \A q \in Proc : flush'[q] = NoBuffer /\ pc'[q] = "idle"
    BY <1>7 DEF Restart
  <2> QED BY <1>2, <2>1 DEF Holds
<1>8. CASE Tick \/ UNCHANGED vars
  <2>1. UNCHANGED <<row, lastSent, buffer, flush, pc, req, recovered>>
    BY <1>8 DEF Tick, vars
  <2> QED BY <1>2, <1>3, <2>1 DEF Holds
<1> QED BY <1>2, <1>3, <1>4, <1>5, <1>6, <1>7, <1>8 DEF Next

(* KeptInv is kept while requests are in turn.                             *)
LEMMA KeptStep ==
    ASSUME SharedInv, TileInv, KeptInv, InTurn, [Next]_vars
    PROVE  KeptInv'
<1>1. CASE \E p \in Proc : Detect(p) \/ Commit(p)
  BY <1>1, KeptDetect, KeptCommit
<1>2. CASE ~ \E p \in Proc : Detect(p) \/ Commit(p)
  <2>1. WatchInv'
    BY WatchStep DEF SharedInv, KeptInv
  <2> QED BY <1>2, <2>1, KeptOther, KeptFrame
<1> QED BY <1>1, <1>2

(* Whatever the last payload was taken for, it was answered.               *)
LEMMA AnsweredStep ==
    ASSUME SharedInv, TileInv, AnsweredInv, [Next]_vars
    PROVE  AnsweredInv'
<1> USE DEF SharedInv, memoryVars, dbVars, storeVars, watchVars, worldVars,
            threadVars
<1>1. /\ lastSent \in Payload \cup {NoPayload} /\ lastSent.ts \in Nat
      /\ storeTs \in Nat /\ storeTs <= lastSent.ts
  BY TimesAreNat DEF TileInv, TypeOK
<1>2. CASE UNCHANGED <<storeTs, lastSent, acked>>
  BY <1>2 DEF AnsweredInv
<1>3. ASSUME NEW p \in Proc, Send(p)
      PROVE  AnsweredInv'
  <2>1. PICK r \in Payload :
           /\ Receive(p, r)
           /\ r = lastSent \/ (lastSent.ts < r.ts /\ r.ts = now)
    BY <1>3, SendCases
  <2>2. UNCHANGED storeTs /\ lastSent' = r /\ (Ok(r) \/ UNCHANGED acked)
    BY <2>1 DEF Receive
  <2>3. CASE lastSent.ts < r.ts
    BY <1>1, <2>2, <2>3, PayloadFields DEF AnsweredInv
  <2>4. CASE r = lastSent
    <3>1. r.tags \in SUBSET Tag
      BY PayloadFields
    <3>2. \A t \in Tag : acked[t] \subseteq acked'[t]
      <4>1. CASE Ok(r)
        BY <4>1, OkType
      <4> QED BY <2>2, <4>1
    <3> QED BY <2>2, <2>4, <3>1, <3>2 DEF AnsweredInv
  <2> QED BY <2>1, <2>3, <2>4
<1>4. ASSUME NEW p \in Proc, Answer(p)
      PROVE  AnsweredInv'
  <2>1. req[p] \in Payload /\ req[p] = lastSent
    BY <1>4 DEF Answer, RequestInv, TileInv
  <2>2. /\ UNCHANGED lastSent /\ storeTs' \in {storeTs, lastSent.ts}
        /\ \/ Ok(lastSent)
           \/ UNCHANGED <<acked, storeTs>>
    BY <1>4, <2>1 DEF Answer
  <2>3. lastSent.tags \in SUBSET Tag
    BY <2>1, PayloadFields
  <2> QED BY <2>1, <2>2, <2>3, OkType DEF AnsweredInv
<1>5. CASE Restart
  <2>1. storeTs' = 0 /\ UNCHANGED lastSent
    BY <1>5 DEF Restart
  <2>2. lastSent.ts = 0 => lastSent.tags = {}
    <3>1. CASE lastSent \in Payload
      <4>1. 0 < lastSent.ts
        BY <3>1, PayloadFields
      <4> QED BY <1>1, <4>1
    <3>2. CASE lastSent = NoPayload
      BY <3>2 DEF NoPayload
    <3> QED BY <1>1, <3>1, <3>2
  <2> QED BY <2>1, <2>2 DEF AnsweredInv
<1>6. CASE \/ \E p \in Proc : \/ TimeOut(p) \/ Detect(p) \/ Find(p)
                              \/ Commit(p) \/ Fail(p)
           \/ WatchdogDecide \/ WatchdogReset \/ Tick \/ UNCHANGED vars
  BY <1>2, <1>6 DEF TimeOut, Detect, Find, Commit, Fail, WatchdogDecide,
                    WatchdogReset, Tick, vars
<1> QED BY <1>3, <1>4, <1>5, <1>6 DEF Next

(* Detect and Commit drop no reading, and of the other steps those that    *)
(* forget the buffer or a thread that had it.                              *)
LEMMA DroppedStep ==
    ASSUME SharedInv, TileInv, KeptInv, InTurn, [Next]_vars,
           NEW t \in Tag, NEW s \in Time, Kept(t, s), ~ Kept(t, s)'
    PROVE  \/ faults' # faults /\ \E p \in Proc : flush[p].bucket = MinuteOf(s)
           \/ /\ crashes' # crashes /\ row[MinuteOf(s)] = NoReadings
              /\ shown' = NoReadings
           \/ recovered # 0 /\ recovered' # 0 /\ row[MinuteOf(s)] = NoReadings
<1> USE DEF SharedInv, memoryVars, dbVars, storeVars, watchVars, worldVars,
            threadVars
<1> DEFINE m == MinuteOf(s)
<1>1. m \in Minute /\ m \in Nat /\ m # 0 /\ s \in Nat
  BY MinuteBounds, TimeAssumption DEF Time
<1>2. InPlace(m, t, s) /\ ~ InPlace(m, t, s)'
  BY DEF Kept, InPlace
<1>3. ~ \E p \in Proc : Detect(p) \/ Commit(p)
  BY <1>1, <1>2, KeptDetect, KeptCommit
<1>4. UNCHANGED row
  BY <1>3, KeptOther
<1>5. TypeOK /\ WatchInv
  BY DEF KeptInv
<1> HIDE DEF m
<1>6. buffer.bucket = m \/ \E q \in Proc : flush[q].bucket = m
  BY <1>2, <1>4 DEF InPlace
(* A minute that is in the buffer or with a thread has an empty row.       *)
<1>7. row[m] = NoReadings
  <2>1. CASE buffer.bucket = m
    <3>1. buffer # NoBuffer /\ ~ m < m
      BY <1>1, <2>1 DEF NoBuffer
    <3> QED BY <1>1, <2>1, <3>1 DEF KeptInv
  <2>2. ASSUME NEW q \in Proc, flush[q].bucket = m
        PROVE  row[m] = NoReadings
    <3>1. flush[q] # NoBuffer
      BY <1>1, <2>2 DEF NoBuffer
    <3> QED BY <2>2, <3>1 DEF KeptInv
  <2> QED BY <1>6, <2>1, <2>2
<1>8. CASE UNCHANGED <<buffer, flush>>
  BY <1>2, <1>4, <1>8 DEF InPlace
<1>9. ASSUME NEW p \in Proc, Send(p) \/ Find(p)
      PROVE  UNCHANGED <<buffer, flush>>
  BY <1>9 DEF Send, Receive, Find
<1>10. ASSUME NEW p \in Proc, TimeOut(p) \/ Answer(p)
       PROVE  UNCHANGED <<buffer, flush>>
  <2>1. CASE pc[p] \in {"queued", "stored"} /\ Finish(p)
    <3>1. flush[p] = NoBuffer
      BY <2>1 DEF KeptInv, Holds
    <3> QED BY <1>5, <1>10, <2>1, <3>1 DEF TimeOut, Answer, Finish, TypeOK
  <2> QED BY <1>10, <2>1 DEF TimeOut, Answer
<1>11. ASSUME NEW p \in Proc, Fail(p)
       PROVE  faults' # faults /\ \E q \in Proc : flush[q].bucket = m
  <2>1. /\ faults' = faults + 1 /\ UNCHANGED buffer
        /\ flush' = [flush EXCEPT ![p] = NoBuffer]
    BY <1>11 DEF Fail, Finish
  <2>2. faults' # faults
    BY <1>5, <2>1, BoundAssumption DEF TypeOK
  <2>3. flush[p].bucket = m
    BY <1>2, <1>4, <1>5, <2>1 DEF InPlace, TypeOK
  <2> QED BY <2>2, <2>3
<1>12. CASE WatchdogReset
  <2>1. recovered # 0 /\ UNCHANGED recovered
    BY <1>5, <1>12 DEF WatchdogReset, WatchInv
  <2> QED BY <1>7, <2>1 DEF m
<1>13. CASE Restart
  <2>1. crashes' # crashes /\ shown' = NoReadings
    BY <1>5, <1>13, BoundAssumption DEF Restart, TypeOK
  <2> QED BY <1>7, <2>1 DEF m
<1>14. CASE WatchdogDecide \/ Tick \/ UNCHANGED vars
  BY <1>8, <1>14 DEF WatchdogDecide, Tick, vars
<1> QED BY <1>3, <1>8, <1>9, <1>10, <1>11, <1>12, <1>13, <1>14 DEF Next, m

(* A thread's payload is kept when it is answered, unless the watchdog has *)
(* cleared it.                                                             *)
LEMMA AnswerKept ==
    ASSUME SharedInv, TileInv, KeptInv, NEW p \in Proc, Answer(p),
           NEW t \in req[p].tags, NEW s, s = req[p].ts
    PROVE  Kept(t, s)' \/ (recovered # 0 /\ row[MinuteOf(s)] = NoReadings)
<1> USE DEF SharedInv, memoryVars, dbVars
<1> DEFINE r == req[p]
           m == MinuteOf(s)
<1>1. pc[p] = "stored" /\ UNCHANGED buffer
  BY DEF Answer
<1>2. r \in Payload /\ r = lastSent
  BY <1>1 DEF RequestInv, TileInv
<1>3. m \in Minute /\ m \in Nat /\ s \in Nat /\ t \in Tag
  BY <1>2, PayloadFields, MinuteBounds
<1>4. row[m] = NoReadings
  <2>1. m = MinuteOf(lastSent.ts) /\ ~ m < m
    BY <1>2, <1>3
  <2> QED BY <1>3, <2>1 DEF KeptInv
<1>5. CASE recovered = 0
  <2>1. InBuffer(r)
    BY <1>1, <1>5 DEF KeptInv
  <2>2. buffer'.bucket = m /\ buffer'.tags[t] >= s
    BY <1>1, <1>3, <2>1 DEF InBuffer
  <2> QED BY <2>2 DEF Kept
<1> QED BY <1>4, <1>5

(* A reading is lost when it is dropped, or when it is answered too late   *)
(* or after the watchdog has cleared it.                                   *)
LEMMA LostStep ==
    ASSUME SharedInv, TileInv, KeptInv, AnsweredInv, InTurn, InTurn', [Next]_vars,
           NEW t \in Tag, NEW s \in Time, ~ Lost(t, s), Lost(t, s)'
    PROVE  \/ s \notin acked[t] /\ s + MaxAge < now /\ UNCHANGED pc
           \/ faults' # faults /\ \E p \in Proc : flush[p].bucket = MinuteOf(s)
           \/ crashes' # crashes /\ row[MinuteOf(s)] = NoReadings
           \/ recovered # 0 /\ row[MinuteOf(s)] = NoReadings
<1> USE DEF SharedInv, memoryVars, dbVars, storeVars, watchVars, worldVars,
            threadVars
<1>1. s \in acked'[t] /\ ~ Kept(t, s)'
  BY DEF Lost
<1>2. CASE s \in acked[t]
  BY <1>1, <1>2, DroppedStep DEF Lost
<1>3. CASE s \notin acked[t]
  <2>1. ASSUME NEW p \in Proc, Send(p)
        PROVE  s + MaxAge < now /\ UNCHANGED pc
    <3>1. PICK r \in Payload :
             /\ Receive(p, r)
             /\ r = lastSent \/ (lastSent.ts < r.ts /\ r.ts = now)
      BY <2>1, SendCases
    <3>2. ~ Accepts(r.ts) /\ Ok(r) /\ UNCHANGED pc
      BY <1>1, <1>3, <3>1 DEF Receive
    <3>3. s = r.ts /\ t \in r.tags
      <4>1. acked'[t] = IF t \in r.tags THEN acked[t] \cup {r.ts} ELSE acked[t]
        BY <3>2, OkType
      <4> QED BY <1>1, <1>3, <4>1
    <3>4. /\ storeTs \in Nat /\ lastSent.ts \in Nat /\ storeTs <= lastSent.ts
          /\ r.ts \in Nat /\ now \in Nat /\ MaxAge \in Nat
      <4>1. storeTs \in Nat /\ lastSent.ts \in Nat
        BY TimesAreNat
      <4>2. r.ts \in Nat
        BY PayloadFields
      <4>3. now \in Nat /\ MaxAge \in Nat
        BY TimeAssumption DEF TypeOK, Time
      <4> QED BY <4>1, <4>2, <4>3 DEF TileInv
    <3>5. r = lastSent
      BY <3>1, <3>2, <3>4 DEF Accepts
    <3>6. storeTs # lastSent.ts
      BY <1>3, <3>3, <3>5 DEF AnsweredInv
    <3> QED BY <3>2, <3>3, <3>4, <3>5, <3>6 DEF Accepts
  <2>2. ASSUME NEW p \in Proc, Answer(p)
        PROVE  recovered # 0 /\ row[MinuteOf(s)] = NoReadings
    <3>1. req[p] \in Payload
      BY <2>2 DEF Answer, RequestInv
    <3>2. Ok(req[p])
      BY <1>1, <1>3, <2>2 DEF Answer
    <3>3. s = req[p].ts /\ t \in req[p].tags
      <4>1. acked'[t] = IF t \in req[p].tags
                        THEN acked[t] \cup {req[p].ts} ELSE acked[t]
        BY <3>1, <3>2, OkType
      <4> QED BY <1>1, <1>3, <4>1
    <3> QED BY <1>1, <2>2, <3>3, AnswerKept
  <2>3. UNCHANGED acked => s \in acked[t]
    BY <1>1
  <2>4. CASE \/ \E p \in Proc : \/ TimeOut(p) \/ Detect(p) \/ Find(p)
                                \/ Commit(p) \/ Fail(p)
             \/ WatchdogDecide \/ WatchdogReset \/ Restart \/ Tick
             \/ UNCHANGED vars
    BY <1>3, <2>3, <2>4 DEF TimeOut, Detect, Find, Commit, Fail,
                            WatchdogDecide, WatchdogReset, Restart, Tick, vars
  <2> QED BY <1>3, <2>1, <2>2, <2>4 DEF Next
<1> QED BY <1>2, <1>3

(* The invariants about minutes hold while requests are in turn.           *)
LEMMA KeptInvariance == Spec /\ []InTurn => [](TileInv /\ KeptInv /\ AnsweredInv)
<1>1. Init => TileInv
  BY DEF Init, TileInv, EventsTile, Before, Holds, NoPayload
<1>2. Init => KeptInv /\ AnsweredInv
  <2>1. MinuteOf(0) \in Nat
    BY TimeAssumption DEF MinuteOf
  <2> QED BY <2>1
          DEF Init, KeptInv, AnsweredInv, WatchInv, Holds, NoBuffer, NoReadings,
              NoPayload
<1>3. SharedInv /\ TileInv /\ KeptInv /\ AnsweredInv /\ InTurn /\ InTurn'
      /\ [Next]_vars => TileInv' /\ KeptInv' /\ AnsweredInv'
  BY TileStep, KeptStep, AnsweredStep
<1> QED BY <1>1, <1>2, <1>3, SharedInvariance, PTL DEF Spec

(* With one request at a time, a reading that is answered 200 is lost only *)
(* by an answer without a thread, because it comes too late, by a failed   *)
(* transaction that had taken its minute, or with a minute of which        *)
(* nothing had been written when the process stopped or the watchdog had   *)
(* recovered.                                                              *)
THEOREM LossesInTurn == Spec /\ []InTurn => LostWithItsMinute
<1> DEFINE Way == \A t \in Tag, s \in Time : ~ Lost(t, s) /\ Lost(t, s)' =>
              \/ s \notin acked[t] /\ s + MaxAge < now /\ UNCHANGED pc
              \/ faults' # faults /\ \E p \in Proc : flush[p].bucket = MinuteOf(s)
              \/ crashes' # crashes /\ row[MinuteOf(s)] = NoReadings
              \/ recovered # 0 /\ row[MinuteOf(s)] = NoReadings
<1>1. SharedInv /\ TileInv /\ KeptInv /\ AnsweredInv /\ InTurn /\ InTurn'
      /\ [Next]_vars => [Way]_vars
  BY LostStep
<1>2. [][Way]_vars => LostWithItsMinute
  BY PTL DEF LostWithItsMinute
<1> HIDE DEF Way
<1> QED BY <1>1, <1>2, KeptInvariance, SharedInvariance, PTL DEF Spec

(* Until a transaction fails or the watchdog recovers, the store shows no  *)
(* reading that is dropped.                                                *)
LEMMA ShownStep ==
    ASSUME SharedInv, TileInv, KeptInv, InTurn, [Next]_vars, ShownReadingKept
    PROVE  ShownReadingKept'
<1> USE DEF SharedInv, memoryVars, dbVars, storeVars, watchVars, worldVars,
            threadVars
<1>1. TypeOK /\ TypeOK'
  BY TypeStep
<1>2. SUFFICES ASSUME faults' = 0, recovered' = 0, NEW t \in Tag, NEW s \in Time,
                      shown'[t] = s
               PROVE  Kept(t, s)'
  <2> SUFFICES ASSUME faults' = 0, recovered' = 0, NEW t \in Tag, shown'[t] # 0
               PROVE  Kept(t, shown[t])'
    BY DEF ShownReadingKept
  <2>1. shown'[t] \in Time
    BY <1>1, TimeAssumption DEF TypeOK, Readings, Time
  <2>2. \A s \in Time : shown'[t] = s => Kept(t, s)'
    BY <1>2
  <2> QED BY <2>1, <2>2 DEF Kept
<1>3. s # 0 /\ shown' # NoReadings
  BY <1>2, TimeAssumption DEF NoReadings, Time
<1>4. ~ Restart
  BY <1>3 DEF Restart
<1>5. faults = 0 /\ recovered = 0
  <2>1. ~ WatchdogDecide
    BY <1>1, <1>2, TimeAssumption DEF WatchdogDecide, TypeOK, Time
  <2>2. ASSUME NEW p \in Proc, Fail(p)
        PROVE  FALSE
    BY <1>1, <1>2, <2>2, BoundAssumption DEF Fail, TypeOK
  <2>3. CASE \E p \in Proc : \/ Send(p) \/ TimeOut(p) \/ Answer(p)
                             \/ Detect(p) \/ Find(p) \/ Commit(p)
    BY <1>2, <2>3
    DEF Send, Receive, TimeOut, Answer, Detect, Find, Commit
  <2>4. CASE WatchdogReset \/ Tick \/ UNCHANGED vars
    BY <1>2, <2>4 DEF WatchdogReset, Tick, vars
  <2> QED BY <1>4, <2>1, <2>2, <2>3, <2>4 DEF Next
<1>6. CASE shown[t] = s
  <2>1. Kept(t, s)
    BY <1>3, <1>5, <1>6 DEF ShownReadingKept
  <2> QED BY <1>2, <1>3, <1>5, <2>1, DroppedStep
<1>7. CASE shown[t] # s
  <2>1. ASSUME NEW p \in Proc, Answer(p)
        PROVE  Kept(t, s)'
    <3>1. req[p] \in Payload
      BY <2>1 DEF Answer, RequestInv
    <3>2. shown' = Over(shown, ReadingsOf(req[p]))
      BY <1>2, <1>7, <2>1 DEF Answer
    <3>3. s = req[p].ts /\ t \in req[p].tags
      BY <1>2, <1>7, <3>2 DEF Over, ReadingsOf
    <3> QED BY <1>5, <2>1, <3>3, AnswerKept
  <2>2. UNCHANGED shown => FALSE
    BY <1>2, <1>7
  <2>3. CASE \/ \E p \in Proc : \/ Send(p) \/ TimeOut(p) \/ Detect(p)
                                \/ Find(p) \/ Commit(p) \/ Fail(p)
             \/ WatchdogDecide \/ WatchdogReset \/ Tick \/ UNCHANGED vars
    BY <2>2, <2>3 DEF Send, Receive, TimeOut, Detect, Find, Commit, Fail,
                      WatchdogDecide, WatchdogReset, Tick, vars
  <2> QED BY <1>4, <2>1, <2>3 DEF Next
<1> QED BY <1>6, <1>7

(* With one request at a time, as long as no transaction has failed and    *)
(* the watchdog has not recovered since the process started, every reading *)
(* the store shows is in its minute row, or a newer one is, or it is on    *)
(* its way there.                                                          *)
THEOREM ShownReadingsKept == Spec /\ []InTurn => []ShownReadingKept
<1>1. Init => ShownReadingKept
  BY DEF Init, ShownReadingKept, NoReadings
<1>2. SharedInv /\ TileInv /\ KeptInv /\ InTurn /\ [Next]_vars
      /\ ShownReadingKept => ShownReadingKept'
  BY ShownStep
<1> QED BY <1>1, <1>2, KeptInvariance, SharedInvariance, PTL DEF Spec

-----------------------------------------------------------------------------
(* Changes lead to the memory                                              *)

(* Putting an element into a set or not adds one to its size or not.       *)
LEMMA SizeWith ==
    ASSUME NEW S, IsFiniteSet(S), NEW x, x \notin S, NEW c \in BOOLEAN
    PROVE  Cardinality(IF c THEN S \cup {x} ELSE S)
              = Cardinality(S) + (IF c THEN 1 ELSE 0)
<1>1. Cardinality(S) \in Nat
  BY FS_CardinalityType
<1>2. Cardinality(S \cup {x}) = Cardinality(S) + 1
  BY FS_AddElement
<1>3. CASE c
  BY <1>2, <1>3
<1>4. CASE ~ c
  BY <1>1, <1>4
<1> QED BY <1>3, <1>4

(* The rows and the threads of a tag are finitely many.                    *)
LEMMA CountsFinite ==
    ASSUME TypeOK, IsFiniteSet(Busy), NEW t \in StateTag, NEW s
    PROVE  /\ IsFiniteSet(RowsInto(t, s)) /\ IsFiniteSet(RowsOutOf(t, s))
           /\ IsFiniteSet(ThreadsInto(t, s)) /\ IsFiniteSet(ThreadsOutOf(t, s))
           /\ Cardinality(RowsInto(t, s)) \in Nat
           /\ Cardinality(RowsOutOf(t, s)) \in Nat
           /\ Cardinality(ThreadsInto(t, s)) \in Nat
           /\ Cardinality(ThreadsOutOf(t, s)) \in Nat
<1>1. Len(events[t]) \in Int
  BY DEF TypeOK
<1>2. IsFiniteSet(1 .. Len(events[t]))
  BY <1>1, FS_Interval
<1>3. IsFiniteSet(RowsInto(t, s)) /\ IsFiniteSet(RowsOutOf(t, s))
  <2>1. /\ RowsInto(t, s) \in SUBSET (1 .. Len(events[t]))
        /\ RowsOutOf(t, s) \in SUBSET (1 .. Len(events[t]))
    BY DEF RowsInto, RowsOutOf
  <2> QED BY <1>2, <2>1, FS_Subset
<1>4. IsFiniteSet(ThreadsInto(t, s)) /\ IsFiniteSet(ThreadsOutOf(t, s))
  <2>1. ThreadsInto(t, s) \in SUBSET Busy /\ ThreadsOutOf(t, s) \in SUBSET Busy
    BY DEF ThreadsInto, ThreadsOutOf, Busy
  <2> QED BY <2>1, FS_Subset
<1> QED BY <1>3, <1>4, FS_CardinalityType

(* Into and OutOf count rows and threads.                                  *)
LEMMA CountsOf ==
    ASSUME NEW t, NEW s
    PROVE  /\ Into(t, s) = Cardinality(RowsInto(t, s)) + Cardinality(ThreadsInto(t, s))
           /\ OutOf(t, s) = Cardinality(RowsOutOf(t, s)) + Cardinality(ThreadsOutOf(t, s))
           /\ Into(t, s)' = Cardinality(RowsInto(t, s)') + Cardinality(ThreadsInto(t, s)')
           /\ OutOf(t, s)' = Cardinality(RowsOutOf(t, s)') + Cardinality(ThreadsOutOf(t, s)')
BY DEF Into, OutOf, RowsInto, RowsOutOf, ThreadsInto, ThreadsOutOf

(* The requests in progress stay finitely many.                            *)
LEMMA BusyStep ==
    ASSUME TypeOK, IsFiniteSet(Busy), [Next]_vars
    PROVE  IsFiniteSet(Busy)'
<1> USE DEF memoryVars, dbVars, storeVars, watchVars, worldVars, threadVars
<1>1. ASSUME Busy' \subseteq Busy
      PROVE  IsFiniteSet(Busy)'
  BY <1>1, FS_Subset
<1>2. ASSUME NEW p \in Proc, Busy' \subseteq Busy \cup {p}
      PROVE  IsFiniteSet(Busy)'
  <2>1. IsFiniteSet(Busy \cup {p})
    BY FS_AddElement
  <2> QED BY <1>2, <2>1, FS_Subset
<1>3. ASSUME NEW p \in Proc, Send(p)
      PROVE  IsFiniteSet(Busy)'
  <2>1. Busy' \subseteq Busy \cup {p}
    BY <1>3 DEF Send, Receive, Busy, TypeOK
  <2> QED BY <1>2, <2>1
<1>4. ASSUME NEW p \in Proc, TimeOut(p) \/ Answer(p) \/ Fail(p)
      PROVE  Busy' \subseteq Busy
  BY <1>4 DEF TimeOut, Answer, Fail, Finish, Busy, TypeOK
<1>5. ASSUME NEW p \in Proc, Detect(p) \/ Find(p) \/ Commit(p)
      PROVE  Busy' \subseteq Busy
  BY <1>5 DEF Detect, Find, Commit, Busy, TypeOK
<1>6. ASSUME WatchdogDecide \/ WatchdogReset \/ Tick \/ UNCHANGED vars
      PROVE  Busy' \subseteq Busy
  BY <1>6 DEF WatchdogDecide, WatchdogReset, Tick, vars, Busy
<1>7. ASSUME Restart
      PROVE  Busy' \subseteq Busy
  BY <1>7 DEF Restart, Busy
<1> QED BY <1>1, <1>3, <1>4, <1>5, <1>6, <1>7 DEF Next

(* Steps that leave the events, the memory and the changes under way alone *)
(* keep the balance.                                                       *)
LEMMA CountFrame ==
    ASSUME CountInv, IsFiniteSet(Busy)', WatchInv',
           Undisturbed' =>
              /\ Undisturbed
              /\ UNCHANGED <<events, lastState>>
              /\ \A q \in Proc : /\ Holds(q)' <=> Holds(q)
                                 /\ Holds(q) => changes'[q] = changes[q]
    PROVE  CountInv'
<1> SUFFICES ASSUME Undisturbed'
             PROVE  CountInv'
  BY DEF CountInv
<1>1. ASSUME NEW t, NEW s
      PROVE  /\ RowsInto(t, s)' = RowsInto(t, s)
             /\ RowsOutOf(t, s)' = RowsOutOf(t, s)
             /\ ThreadsInto(t, s)' = ThreadsInto(t, s)
             /\ ThreadsOutOf(t, s)' = ThreadsOutOf(t, s)
  BY DEF RowsInto, RowsOutOf, ThreadsInto, ThreadsOutOf, Holds
<1>2. \A t, s : Into(t, s)' = Into(t, s) /\ OutOf(t, s)' = OutOf(t, s)
  BY <1>1, CountsOf
<1>3. \A t : Untouched(t) => Untouched(t)'
  BY DEF Untouched
<1>4. ASSUME NEW t \in StateTag
      PROVE  IF lastState'[t] = NoState THEN Untouched(t)'
             ELSE Balanced(t, lastState[t])'
  <2>1. IF lastState[t] = NoState THEN Untouched(t) ELSE Balanced(t, lastState[t])
    BY DEF CountInv
  <2>2. lastState'[t] = lastState[t]
    OBVIOUS
  <2>3. Balanced(t, lastState[t]) => Balanced(t, lastState[t])'
    BY <1>2, <2>2 DEF Balanced
  <2> QED BY <1>3, <2>1, <2>2, <2>3
<1> QED BY <1>4 DEF CountInv

(* The threads that hold a change of a tag after the memory has advanced.  *)
LEMMA DetectThreads ==
    ASSUME TypeOK, NEW p \in Proc, Detect(p), NEW t \in StateTag, NEW s
    PROVE  LET c == t \in DOMAIN ChangesOf(req[p]) IN
           /\ p \notin ThreadsInto(t, s) /\ p \notin ThreadsOutOf(t, s)
           /\ ThreadsInto(t, s)' =
                 IF c /\ req[p].state[t] = s
                 THEN ThreadsInto(t, s) \cup {p} ELSE ThreadsInto(t, s)
           /\ ThreadsOutOf(t, s)' =
                 IF c /\ lastState[t] = s
                 THEN ThreadsOutOf(t, s) \cup {p} ELSE ThreadsOutOf(t, s)
<1> DEFINE c == t \in DOMAIN ChangesOf(req[p])
<1>1. pc[p] = "queued" /\ pc' = [pc EXCEPT ![p] = "detected"]
      /\ changes' = [changes EXCEPT ![p] = ChangesOf(req[p])]
  BY DEF Detect
<1>2. /\ pc'[p] = "detected" /\ changes'[p] = ChangesOf(req[p])
      /\ \A q \in Proc : q # p => pc'[q] = pc[q] /\ changes'[q] = changes[q]
  BY <1>1 DEF TypeOK
<1>3. c => ChangesOf(req[p])[t] =
              [prev |-> lastState[t], state |-> req[p].state[t]]
  BY DEF ChangesOf
<1>4. c => /\ ChangesOf(req[p])[t].state = req[p].state[t]
           /\ ChangesOf(req[p])[t].prev = lastState[t]
  BY <1>3
<1>5. p \notin ThreadsInto(t, s) /\ p \notin ThreadsOutOf(t, s)
  BY <1>1 DEF ThreadsInto, ThreadsOutOf
<1> HIDE DEF c
<1>6. ASSUME NEW q
      PROVE  q \in ThreadsInto(t, s)' <=>
                q \in ThreadsInto(t, s) \/ (q = p /\ c /\ req[p].state[t] = s)
  BY <1>1, <1>2, <1>4 DEF ThreadsInto, c
<1>7. ASSUME NEW q
      PROVE  q \in ThreadsOutOf(t, s)' <=>
                q \in ThreadsOutOf(t, s) \/ (q = p /\ c /\ lastState[t] = s)
  BY <1>1, <1>2, <1>4 DEF ThreadsOutOf, c
<1> QED BY <1>5, <1>6, <1>7 DEF c

(* The balance is kept when the memory advances.                           *)
LEMMA CountDetect ==
    ASSUME SharedInv, CountInv, IsFiniteSet(Busy)', WatchInv', NEW p \in Proc, Detect(p)
    PROVE  CountInv'
<1> USE DEF SharedInv
<1> DEFINE r == req[p]
           c(t) == t \in DOMAIN ChangesOf(r)
<1>1. pc[p] = "queued" /\ lastState' = NewStates(r)
      /\ UNCHANGED <<events, faults, crashes, recovered>>
  BY DEF Detect, dbVars, watchVars, worldVars
<1>2. r \in Payload
  BY <1>1 DEF RequestInv
<1>3. Undisturbed' = Undisturbed
  BY <1>1 DEF Undisturbed
<1> SUFFICES ASSUME Undisturbed, NEW t \in StateTag
             PROVE  IF lastState'[t] = NoState THEN Untouched(t)'
                    ELSE Balanced(t, lastState[t])'
  BY <1>3 DEF CountInv
<1>4. lastState'[t] = IF t \in r.tags THEN r.state[t] ELSE lastState[t]
  BY <1>1 DEF NewStates
<1>5. /\ c(t) <=> t \in r.tags /\ lastState[t] \notin {NoState, r.state[t]}
      /\ t \in r.tags => r.state[t] \in State /\ r.state[t] # NoState
  BY <1>2, PayloadFields, StateAssumption DEF ChangesOf
<1>6. IsFiniteSet(Busy)
  BY DEF CountInv
<1>7. \A s : RowsInto(t, s)' = RowsInto(t, s) /\ RowsOutOf(t, s)' = RowsOutOf(t, s)
  BY <1>1 DEF RowsInto, RowsOutOf
<1> DEFINE one(b) == IF b THEN 1 ELSE 0
<1>8. ASSUME NEW s
      PROVE  /\ Into(t, s)' = Into(t, s) + one(c(t) /\ r.state[t] = s)
             /\ OutOf(t, s)' = OutOf(t, s) + one(c(t) /\ lastState[t] = s)
             /\ Into(t, s) \in Nat /\ OutOf(t, s) \in Nat
  <2>1. /\ p \notin ThreadsInto(t, s) /\ p \notin ThreadsOutOf(t, s)
        /\ ThreadsInto(t, s)' =
              IF c(t) /\ r.state[t] = s
              THEN ThreadsInto(t, s) \cup {p} ELSE ThreadsInto(t, s)
        /\ ThreadsOutOf(t, s)' =
              IF c(t) /\ lastState[t] = s
              THEN ThreadsOutOf(t, s) \cup {p} ELSE ThreadsOutOf(t, s)
    BY DetectThreads
  <2> DEFINE ci == c(t) /\ r.state[t] = s
             co == c(t) /\ lastState[t] = s
  <2> HIDE DEF c, ci, co
  <2>2. /\ IsFiniteSet(ThreadsInto(t, s)) /\ IsFiniteSet(ThreadsOutOf(t, s))
        /\ Cardinality(RowsInto(t, s)) \in Nat
        /\ Cardinality(RowsOutOf(t, s)) \in Nat
        /\ Cardinality(ThreadsInto(t, s)) \in Nat
        /\ Cardinality(ThreadsOutOf(t, s)) \in Nat
    BY <1>6, CountsFinite
  <2>3. ci \in BOOLEAN /\ co \in BOOLEAN
    BY DEF ci, co, c
  <2>4. Cardinality(ThreadsInto(t, s)') = Cardinality(ThreadsInto(t, s)) + one(ci)
    BY <2>1, <2>2, <2>3, SizeWith DEF ci
  <2>5. Cardinality(ThreadsOutOf(t, s)') = Cardinality(ThreadsOutOf(t, s)) + one(co)
    BY <2>1, <2>2, <2>3, SizeWith DEF co
  <2>6. one(ci) \in Nat /\ one(co) \in Nat
    OBVIOUS
  <2> HIDE DEF one
  <2>7. /\ Into(t, s)' = Into(t, s) + one(ci)
        /\ OutOf(t, s)' = OutOf(t, s) + one(co)
        /\ Into(t, s) \in Nat /\ OutOf(t, s) \in Nat
    BY <1>7, <2>2, <2>4, <2>5, <2>6, CountsOf
  <2> QED BY <2>7 DEF ci, co
<1> HIDE DEF c, r
<1>9. CASE ~ c(t) /\ lastState'[t] = lastState[t]
  <2>1. ASSUME NEW s
        PROVE  Into(t, s)' = Into(t, s) /\ OutOf(t, s)' = OutOf(t, s)
    BY <1>8, <1>9
  <2>2. Balanced(t, lastState[t]) => Balanced(t, lastState[t])'
    BY <1>9, <2>1 DEF Balanced
  <2>3. Untouched(t) => Untouched(t)'
    <3>1. \A q \in Proc : Holds(q)' => \/ Holds(q) /\ changes'[q] = changes[q]
                                       \/ changes'[q] = ChangesOf(r)
      BY DEF Holds, Detect, TypeOK, r
    <3> QED BY <1>1, <1>9, <3>1 DEF Untouched, c
  <2> QED BY <1>9, <2>2, <2>3 DEF CountInv
<1>10. CASE lastState[t] = NoState /\ t \in r.tags
  <2>1. Untouched(t) /\ ~ c(t)
    BY <1>5, <1>10 DEF CountInv
  <2>2. ASSUME NEW s
        PROVE  Into(t, s) = 0 /\ OutOf(t, s) = 0
    <3>1. /\ RowsInto(t, s) = {} /\ RowsOutOf(t, s) = {}
          /\ ThreadsInto(t, s) = {} /\ ThreadsOutOf(t, s) = {}
      BY <2>1 DEF Untouched, RowsInto, RowsOutOf, ThreadsInto, ThreadsOutOf, Holds
    <3> QED BY <3>1, CountsOf, FS_EmptySet
  <2>3. ASSUME NEW s
        PROVE  Into(t, s)' = 0 /\ OutOf(t, s)' = 0
    BY <1>8, <2>1, <2>2
  <2>4. Balanced(t, lastState[t])'
    <3>1. r.state[t] \in State /\ lastState'[t] = r.state[t]
      BY <1>4, <1>5, <1>10
    <3>2. \A s \in State :
             Into(t, s)' + (IF s = r.state[t] THEN 1 ELSE 0)
                = OutOf(t, s)' + (IF s = lastState'[t] THEN 1 ELSE 0)
      BY <2>3, <3>1
    <3> QED BY <3>1, <3>2 DEF Balanced
  <2>5. lastState'[t] # NoState
    BY <1>4, <1>5, <1>10
  <2> QED BY <2>4, <2>5
<1>11. CASE c(t)
  <2>1. /\ lastState'[t] = r.state[t] /\ r.state[t] # NoState
        /\ lastState[t] # NoState
    BY <1>4, <1>5, <1>11
  <2>2. PICK first \in State : \A s \in State :
           Into(t, s) + (IF s = first THEN 1 ELSE 0)
              = OutOf(t, s) + (IF s = lastState[t] THEN 1 ELSE 0)
    BY <2>1 DEF CountInv, Balanced
  <2>3. ASSUME NEW s \in State
        PROVE  Into(t, s)' + (IF s = first THEN 1 ELSE 0)
                  = OutOf(t, s)' + (IF s = lastState'[t] THEN 1 ELSE 0)
    <3>1. /\ Into(t, s)' = Into(t, s) + (IF r.state[t] = s THEN 1 ELSE 0)
          /\ OutOf(t, s)' = OutOf(t, s) + (IF lastState[t] = s THEN 1 ELSE 0)
          /\ Into(t, s) \in Nat /\ OutOf(t, s) \in Nat
      BY <1>8, <1>11
    <3>2. Into(t, s) + (IF s = first THEN 1 ELSE 0)
             = OutOf(t, s) + (IF s = lastState[t] THEN 1 ELSE 0)
      BY <2>2
    <3> QED BY <2>1, <3>1, <3>2
  <2> QED BY <2>1, <2>3 DEF Balanced
<1>12. \/ ~ c(t) /\ lastState'[t] = lastState[t]
       \/ lastState[t] = NoState /\ t \in r.tags
       \/ c(t)
  BY <1>4, <1>5
<1> QED BY <1>9, <1>10, <1>11, <1>12

(* A commit turns the changes of a thread into rows.                       *)
LEMMA CommitSets ==
    ASSUME TypeOK, RequestInv, NEW p \in Proc, Commit(p), NEW t \in StateTag, NEW s
    PROVE  LET ci == t \in DOMAIN changes[p] /\ changes[p][t].state = s
               co == t \in DOMAIN changes[p] /\ changes[p][t].prev = s
               new == Len(events[t]) + 1
           IN
           /\ new \notin RowsInto(t, s) /\ new \notin RowsOutOf(t, s)
           /\ RowsInto(t, s)' = IF ci THEN RowsInto(t, s) \cup {new}
                                ELSE RowsInto(t, s)
           /\ RowsOutOf(t, s)' = IF co THEN RowsOutOf(t, s) \cup {new}
                                 ELSE RowsOutOf(t, s)
           /\ p \notin ThreadsInto(t, s)' /\ p \notin ThreadsOutOf(t, s)'
           /\ ThreadsInto(t, s) = IF ci THEN ThreadsInto(t, s)' \cup {p}
                                  ELSE ThreadsInto(t, s)'
           /\ ThreadsOutOf(t, s) = IF co THEN ThreadsOutOf(t, s)' \cup {p}
                                   ELSE ThreadsOutOf(t, s)'
<1> DEFINE ci == t \in DOMAIN changes[p] /\ changes[p][t].state = s
           co == t \in DOMAIN changes[p] /\ changes[p][t].prev = s
           n == Len(events[t])
<1>1. pc[p] = "found" /\ pc' = [pc EXCEPT ![p] = "stored"] /\ UNCHANGED changes
  BY DEF Commit
<1>2. n \in Nat /\ \A j \in 1 .. n : events[t][j] \in EventRow
  BY EventFields DEF TypeOK
<1>3. n + 1 \notin RowsInto(t, s) /\ n + 1 \notin RowsOutOf(t, s)
  BY <1>2 DEF RowsInto, RowsOutOf
<1>4. /\ pc'[p] = "stored"
      /\ \A q \in Proc : q # p => pc'[q] = pc[q]
  BY <1>1 DEF TypeOK
<1>5. /\ p \notin ThreadsInto(t, s)' /\ p \notin ThreadsOutOf(t, s)'
      /\ ThreadsInto(t, s) = IF ci THEN ThreadsInto(t, s)' \cup {p}
                             ELSE ThreadsInto(t, s)'
      /\ ThreadsOutOf(t, s) = IF co THEN ThreadsOutOf(t, s)' \cup {p}
                              ELSE ThreadsOutOf(t, s)'
  <2>1. \A q : q \in ThreadsInto(t, s) <=> q \in ThreadsInto(t, s)' \/ (q = p /\ ci)
    BY <1>1, <1>4 DEF ThreadsInto
  <2>2. \A q : q \in ThreadsOutOf(t, s) <=> q \in ThreadsOutOf(t, s)' \/ (q = p /\ co)
    BY <1>1, <1>4 DEF ThreadsOutOf
  <2>3. p \notin ThreadsInto(t, s)' /\ p \notin ThreadsOutOf(t, s)'
    BY <1>4 DEF ThreadsInto, ThreadsOutOf
  <2> HIDE DEF ci, co
  <2> QED BY <2>1, <2>2, <2>3
<1>6. /\ RowsInto(t, s)' = IF ci THEN RowsInto(t, s) \cup {n + 1}
                           ELSE RowsInto(t, s)
      /\ RowsOutOf(t, s)' = IF co THEN RowsOutOf(t, s) \cup {n + 1}
                            ELSE RowsOutOf(t, s)
  <2>1. CASE t \notin DOMAIN changes[p]
    <3>1. events'[t] = events[t]
      BY <2>1, CommitRows
    <3> QED BY <2>1, <3>1 DEF RowsInto, RowsOutOf
  <2>2. CASE t \in DOMAIN changes[p]
    <3>1. /\ Len(events'[t]) = n + 1
          /\ \A j \in 1 .. n :
                events'[t][j] = IF j = found[p][t]
                                THEN [events[t][j] EXCEPT !.end = req[p].ts]
                                ELSE events[t][j]
          /\ events'[t][n + 1] =
                [prev |-> changes[p][t].prev, state |-> changes[p][t].state,
                 start |-> req[p].ts, end |-> 0]
      BY <2>2, CommitRows
    <3>2. /\ \A j \in 1 .. n : /\ events'[t][j].prev = events[t][j].prev
                               /\ events'[t][j].state = events[t][j].state
          /\ events'[t][n + 1].prev = changes[p][t].prev
          /\ events'[t][n + 1].state = changes[p][t].state
      <4>1. ASSUME NEW j \in 1 .. n
            PROVE  /\ events'[t][j].prev = events[t][j].prev
                   /\ events'[t][j].state = events[t][j].state
        <5>1. \/ events'[t][j] = events[t][j]
              \/ events'[t][j] = [events[t][j] EXCEPT !.end = req[p].ts]
          BY <3>1
        <5>2. events[t][j] \in EventRow
          BY <1>2
        <5> QED BY <5>1, <5>2 DEF EventRow
      <4> QED BY <3>1, <4>1
    <3>3. \A i : i \in 1 .. n + 1 <=> i \in 1 .. n \/ i = n + 1
      BY <1>2
    <3>4. \A i : i \in RowsInto(t, s)' <=> i \in RowsInto(t, s) \/ (i = n + 1 /\ ci)
      BY <2>2, <3>1, <3>2, <3>3 DEF RowsInto
    <3>5. \A i : i \in RowsOutOf(t, s)' <=> i \in RowsOutOf(t, s) \/ (i = n + 1 /\ co)
      BY <2>2, <3>1, <3>2, <3>3 DEF RowsOutOf
    <3> HIDE DEF ci, co, n
    <3> QED BY <3>4, <3>5
  <2> QED BY <2>1, <2>2
<1> QED BY <1>3, <1>5, <1>6

(* The balance is kept when a thread commits.                              *)
LEMMA CountCommit ==
    ASSUME SharedInv, CountInv, IsFiniteSet(Busy)', WatchInv',
           NEW p \in Proc, Commit(p)
    PROVE  CountInv'
<1> USE DEF SharedInv
<1>1. /\ pc[p] = "found" /\ pc' = [pc EXCEPT ![p] = "stored"]
      /\ UNCHANGED <<changes, lastState, faults, crashes, recovered>>
  BY DEF Commit, memoryVars, watchVars, worldVars
<1> SUFFICES ASSUME Undisturbed, NEW t \in StateTag
             PROVE  IF lastState'[t] = NoState THEN Untouched(t)'
                    ELSE Balanced(t, lastState[t])'
  BY <1>1 DEF CountInv, Undisturbed
<1>2. IsFiniteSet(Busy) /\ TypeOK'
  <2>1. [Next]_vars
    BY DEF Next
  <2> QED BY <2>1, TypeStep DEF CountInv
<1>3. ASSUME NEW s
      PROVE  Into(t, s)' = Into(t, s) /\ OutOf(t, s)' = OutOf(t, s)
  <2> DEFINE ci == t \in DOMAIN changes[p] /\ changes[p][t].state = s
             co == t \in DOMAIN changes[p] /\ changes[p][t].prev = s
             new == Len(events[t]) + 1
  <2>1. /\ new \notin RowsInto(t, s) /\ new \notin RowsOutOf(t, s)
        /\ RowsInto(t, s)' = IF ci THEN RowsInto(t, s) \cup {new}
                             ELSE RowsInto(t, s)
        /\ RowsOutOf(t, s)' = IF co THEN RowsOutOf(t, s) \cup {new}
                              ELSE RowsOutOf(t, s)
        /\ p \notin ThreadsInto(t, s)' /\ p \notin ThreadsOutOf(t, s)'
        /\ ThreadsInto(t, s) = IF ci THEN ThreadsInto(t, s)' \cup {p}
                               ELSE ThreadsInto(t, s)'
        /\ ThreadsOutOf(t, s) = IF co THEN ThreadsOutOf(t, s)' \cup {p}
                                ELSE ThreadsOutOf(t, s)'
    BY CommitSets
  <2>2. ci \in BOOLEAN /\ co \in BOOLEAN
    OBVIOUS
  <2> HIDE DEF ci, co, new
  <2>3. /\ IsFiniteSet(RowsInto(t, s)) /\ IsFiniteSet(RowsOutOf(t, s))
        /\ IsFiniteSet(ThreadsInto(t, s)) /\ IsFiniteSet(ThreadsOutOf(t, s))
        /\ Cardinality(RowsInto(t, s)) \in Nat
        /\ Cardinality(RowsOutOf(t, s)) \in Nat
    BY <1>2, CountsFinite
  <2>4. IsFiniteSet(ThreadsInto(t, s)') /\ IsFiniteSet(ThreadsOutOf(t, s)')
    <3>1. /\ ThreadsInto(t, s)' \in SUBSET ThreadsInto(t, s)
          /\ ThreadsOutOf(t, s)' \in SUBSET ThreadsOutOf(t, s)
      BY <2>1
    <3> QED BY <2>3, <3>1, FS_Subset
  <2>5. /\ Cardinality(RowsInto(t, s)')
              = Cardinality(RowsInto(t, s)) + (IF ci THEN 1 ELSE 0)
        /\ Cardinality(RowsOutOf(t, s)')
              = Cardinality(RowsOutOf(t, s)) + (IF co THEN 1 ELSE 0)
    BY <2>1, <2>2, <2>3, SizeWith
  <2>6. /\ Cardinality(ThreadsInto(t, s))
              = Cardinality(ThreadsInto(t, s)') + (IF ci THEN 1 ELSE 0)
        /\ Cardinality(ThreadsOutOf(t, s))
              = Cardinality(ThreadsOutOf(t, s)') + (IF co THEN 1 ELSE 0)
    BY <2>1, <2>2, <2>4, SizeWith
  <2>7. /\ Cardinality(ThreadsInto(t, s)') \in Nat
        /\ Cardinality(ThreadsOutOf(t, s)') \in Nat
    BY <2>4, FS_CardinalityType
  <2> QED BY <2>3, <2>5, <2>6, <2>7, CountsOf
<1>4. Balanced(t, lastState[t]) => Balanced(t, lastState[t])'
  BY <1>1, <1>3 DEF Balanced
<1>5. Untouched(t) => Untouched(t)'
  <2> SUFFICES ASSUME Untouched(t)
               PROVE  Untouched(t)'
    OBVIOUS
  <2>1. t \notin DOMAIN changes[p]
    BY <1>1 DEF Untouched, Holds
  <2>2. events'[t] = events[t]
    BY <2>1, CommitRows
  <2>3. \A q \in Proc : Holds(q)' => Holds(q)
    BY <1>1 DEF Holds, TypeOK
  <2> QED BY <1>1, <2>2, <2>3 DEF Untouched
<1> QED BY <1>1, <1>4, <1>5 DEF CountInv

(* CountInv is kept.                                                       *)
LEMMA CountStep ==
    ASSUME SharedInv, CountInv, [Next]_vars
    PROVE  CountInv'
<1>1. TypeOK /\ WatchInv /\ IsFiniteSet(Busy)
  BY DEF SharedInv, CountInv
<1>2. WatchInv' /\ IsFiniteSet(Busy)'
  BY <1>1, WatchStep, BusyStep
<1>3. CASE \E p \in Proc : Detect(p) \/ Commit(p)
  BY <1>2, <1>3, CountDetect, CountCommit
<1>4. CASE ~ \E p \in Proc : Detect(p) \/ Commit(p)
  BY <1>1, <1>2, <1>4, UndisturbedStep, CountFrame
<1> QED BY <1>3, <1>4

(* However many requests are in progress and overtake each other, as long  *)
(* as nothing has failed the changes of a tag in the table and those of    *)
(* the threads lead from one state to the state in memory.                 *)
THEOREM ChangesAddUp == Spec => []ChangesLeadToMemory
<1>1. Init => CountInv
  <2> SUFFICES ASSUME Init
               PROVE  CountInv
    OBVIOUS
  <2>1. Busy = {}
    BY DEF Init, Busy
  <2>2. IsFiniteSet(Busy)
    BY <2>1, FS_EmptySet
  <2> QED BY <2>2 DEF Init, CountInv, WatchInv, Untouched, Holds
<1>2. SharedInv /\ CountInv /\ [Next]_vars => CountInv'
  BY CountStep
<1>3. CountInv => ChangesLeadToMemory
  BY DEF CountInv, Balanced, ChangesLeadToMemory
<1> QED BY <1>1, <1>2, <1>3, SharedInvariance, PTL DEF Spec
=============================================================================
