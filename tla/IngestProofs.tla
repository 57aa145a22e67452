---------------------------- MODULE IngestProofs ----------------------------
EXTENDS Ingest, TLAPS

(***************************************************************************)
(* Proofs about Ingest: what holds for any number of requests in progress, *)
(* however their threads overtake each other and whatever fails.           *)
(***************************************************************************)

(* A request in progress has a payload, not newer than what was sent last. *)
RequestInv ==
    \A p \in Proc : pc[p] # "idle" => /\ req[p] \in Payload
                                      /\ req[p].ts <= lastSent.ts

-----------------------------------------------------------------------------
(* Facts about the helpers                                                 *)

(* The parts of a payload.                                                 *)
LEMMA PayloadFields ==
    ASSUME NEW r \in Payload
    PROVE  /\ r.ts \in Time /\ r.ts \in Nat /\ 0 < r.ts
           /\ r.tags \in SUBSET Tag
           /\ r.state \in [StateTag \cap r.tags -> State]
<1>1. PICK T \in SUBSET Tag :
         r \in [ts: Time, tags: {T}, state: [StateTag \cap T -> State]]
  BY DEF Payload
<1>2. r.ts \in Time /\ r.tags = T /\ r.state \in [StateTag \cap T -> State]
  BY <1>1
<1> QED BY <1>2, TimeAssumption DEF Time

(* The minute of a time is a minute, and not before an earlier time's.     *)
LEMMA MinuteBounds ==
    ASSUME NEW s \in Time
    PROVE  MinuteOf(s) \in Minute /\ MinuteOf(s) \in Nat /\ MinuteOf(s) # 0
BY TimeAssumption DEF Time, Minute, MinuteOf

(* Minutes follow the order of times.                                      *)
LEMMA MinuteMonotone ==
    ASSUME NEW s \in Nat, NEW u \in Nat, s <= u
    PROVE  MinuteOf(s) <= MinuteOf(u)
BY TimeAssumption DEF MinuteOf

(* Laying readings over others keeps them readings.                        *)
LEMMA OverType ==
    ASSUME NEW a \in Readings, NEW b \in Readings
    PROVE  Over(a, b) \in Readings
BY DEF Over, Readings

(* The readings of a payload are readings.                                 *)
LEMMA ReadingsType ==
    ASSUME NEW r \in Payload
    PROVE  ReadingsOf(r) \in Readings
<1>1. r.ts \in Time
  BY PayloadFields
<1>2. r.ts \in 0 .. MaxTime
  BY <1>1, TimeAssumption DEF Time
<1> QED BY <1>2, TimeAssumption DEF ReadingsOf, Readings

(* The null values have the types of what they stand for.                  *)
LEMMA NullTypes ==
    /\ NoReadings \in Readings
    /\ NoBuffer \in Buffer
    /\ NoChanges \in Changes
    /\ NoneFound \in [StateTag -> Nat]
<1>1. NoReadings \in Readings
  BY TimeAssumption DEF NoReadings, Readings
<1>2. NoBuffer \in Buffer
  BY <1>1 DEF NoBuffer, Buffer
<1>3. NoChanges \in [{} -> Change]
  BY DEF NoChanges
<1>4. NoChanges \in Changes
  BY <1>3 DEF Changes
<1> QED BY <1>1, <1>2, <1>4 DEF NoneFound

(* The changes a payload makes are changes of state tags.                  *)
LEMMA ChangesType ==
    ASSUME NEW r \in Payload, lastState \in [StateTag -> State \cup {NoState}]
    PROVE  ChangesOf(r) \in Changes
<1> DEFINE C == {t \in StateTag \cap r.tags :
                    lastState[t] \notin {NoState, r.state[t]}}
<1>1. ChangesOf(r) = [t \in C |-> [prev |-> lastState[t], state |-> r.state[t]]]
  BY DEF ChangesOf
<1>2. \A t \in C : [prev |-> lastState[t], state |-> r.state[t]] \in Change
  BY PayloadFields DEF Change
<1> HIDE DEF C
<1>3. ChangesOf(r) \in [C -> Change]
  BY <1>1, <1>2
<1>4. C \in SUBSET StateTag
  BY DEF C
<1> QED BY <1>3, <1>4 DEF Changes

(* Whatever a change map has in its domain is a change of a state tag.     *)
LEMMA ChangesFields ==
    ASSUME NEW c \in Changes, NEW t \in DOMAIN c
    PROVE  /\ t \in StateTag /\ c[t] \in Change
           /\ c[t].prev \in State /\ c[t].state \in State
BY DEF Changes, Change

(* Recording a change keeps the rows that are there, up to their end, and  *)
(* adds one.                                                               *)
LEMMA RecordRows ==
    ASSUME NEW evs \in Seq(EventRow), NEW i \in Nat, NEW c \in Change,
           NEW s \in Time
    PROVE  LET new == Record(evs, i, c, s) IN
           /\ new \in Seq(EventRow)
           /\ Len(new) = Len(evs) + 1
           /\ \A j \in 1 .. Len(evs) :
                 new[j] = IF j = i THEN [evs[j] EXCEPT !.end = s] ELSE evs[j]
           /\ new[Len(evs) + 1] = [prev |-> c.prev, state |-> c.state,
                                   start |-> s, end |-> 0]
<1> DEFINE closed == [j \in 1 .. Len(evs) |->
                         IF j = i THEN [evs[j] EXCEPT !.end = s] ELSE evs[j]]
           last == [prev |-> c.prev, state |-> c.state, start |-> s, end |-> 0]
<1>1. \A j \in 1 .. Len(evs) : evs[j] \in EventRow
  OBVIOUS
<1>2. s \in 0 .. MaxTime
  BY TimeAssumption DEF Time
<1>3. \A j \in 1 .. Len(evs) : closed[j] \in EventRow
  BY <1>1, <1>2 DEF EventRow
<1>4. closed \in Seq(EventRow) /\ Len(closed) = Len(evs)
  BY <1>3
<1>5. last \in EventRow
  BY TimeAssumption DEF EventRow, Change
<1>6. Record(evs, i, c, s) = Append(closed, last)
  BY DEF Record
<1> HIDE DEF closed, last
<1>7. /\ Append(closed, last) \in Seq(EventRow)
      /\ Len(Append(closed, last)) = Len(evs) + 1
      /\ \A j \in 1 .. Len(evs) : Append(closed, last)[j] = closed[j]
      /\ Append(closed, last)[Len(evs) + 1] = last
  BY <1>4, <1>5
<1> QED BY <1>6, <1>7 DEF closed, last

-----------------------------------------------------------------------------
(* Types                                                                   *)

(* Answering keeps the times of the readings answered.                     *)
LEMMA OkType ==
    ASSUME TypeOK, NEW r \in Payload, Ok(r)
    PROVE  /\ acked' \in [Tag -> SUBSET Time]
           /\ \A t \in Tag : acked'[t] = IF t \in r.tags
                                        THEN acked[t] \cup {r.ts} ELSE acked[t]
BY PayloadFields DEF Ok, TypeOK

(* A thread that ends leaves the variables of its request typed.           *)
LEMMA FinishType ==
    ASSUME TypeOK, NEW p \in Proc, Finish(p)
    PROVE  /\ pc' \in [Proc -> Pc]
           /\ req' \in [Proc -> Payload \cup {NoPayload}]
           /\ waiting' \in [Proc -> BOOLEAN]
           /\ changes' \in [Proc -> Changes]
           /\ flush' \in [Proc -> Buffer]
           /\ found' \in [Proc -> [StateTag -> Nat]]
BY NullTypes DEF TypeOK, Finish, Pc

(* The only request a thread's end touches is its own.                     *)
LEMMA FinishRequest ==
    ASSUME TypeOK, RequestInv, NEW p \in Proc, Finish(p), UNCHANGED lastSent
    PROVE  RequestInv'
BY DEF TypeOK, RequestInv, Finish

(* A request that is received is typed.                                    *)
LEMMA ReceiveType ==
    ASSUME TypeOK, RequestInv, NEW p \in Proc, NEW r \in Payload,
           Receive(p, r), lastSent.ts <= r.ts
    PROVE  TypeOK' /\ RequestInv'
<1>1. r.ts \in Nat
  BY PayloadFields
<1>2. \A q \in Proc : pc[q] # "idle" => req[q].ts \in Nat
  BY PayloadFields DEF RequestInv
<1>3. lastSent.ts \in Nat
  <2>1. CASE lastSent \in Payload
    BY <2>1, PayloadFields
  <2>2. CASE lastSent = NoPayload
    BY <2>2 DEF NoPayload
  <2> QED BY <2>1, <2>2 DEF TypeOK
<1>4. TypeOK'
  <2>1. acked' \in [Tag -> SUBSET Time]
    BY OkType DEF Receive, TypeOK
  <2> QED BY <2>1
          DEF Receive, TypeOK, Pc, memoryVars, dbVars, storeVars, watchVars
<1>5. RequestInv'
  <2> SUFFICES ASSUME NEW q \in Proc, pc'[q] # "idle"
               PROVE  req'[q] \in Payload /\ req'[q].ts <= lastSent'.ts
    BY DEF RequestInv
  <2>1. lastSent' = r
    BY DEF Receive
  <2>2. CASE q = p
    BY <2>1, <2>2, <1>1 DEF Receive, TypeOK
  <2>3. CASE q # p
    <3>1. pc'[q] = pc[q] /\ req'[q] = req[q]
      BY <2>3 DEF Receive, TypeOK
    <3>2. req[q] \in Payload /\ req[q].ts <= lastSent.ts
      BY <3>1 DEF RequestInv
    <3> QED BY <3>1, <3>2, <2>1, <1>1, <1>2, <1>3
  <2> QED BY <2>2, <2>3
<1> QED BY <1>4, <1>5

(* What Send sends is what was sent last or newer.                         *)
LEMMA SendReceives ==
    ASSUME TypeOK, NEW p \in Proc, Send(p)
    PROVE  \E r \in Payload : Receive(p, r) /\ lastSent.ts <= r.ts
<1>1. CASE \E r \in Payload : /\ lastSent.ts < r.ts /\ r.ts = now
                              /\ Receive(p, r)
  <2>1. PICK r \in Payload : lastSent.ts < r.ts /\ Receive(p, r)
    BY <1>1
  <2>2. lastSent.ts \in Nat /\ r.ts \in Nat
    <3>1. CASE lastSent \in Payload
      BY <3>1, PayloadFields
    <3>2. CASE lastSent = NoPayload
      BY <3>2, PayloadFields DEF NoPayload
    <3> QED BY <3>1, <3>2 DEF TypeOK
  <2> QED BY <2>1, <2>2
<1>2. CASE lastSent # NoPayload /\ Receive(p, lastSent)
  <2>1. lastSent \in Payload
    BY <1>2 DEF TypeOK
  <2>2. lastSent.ts \in Nat
    BY <2>1, PayloadFields
  <2>3. lastSent.ts <= lastSent.ts
    BY <2>2
  <2> QED BY <1>2, <2>1, <2>3
<1> QED BY <1>1, <1>2 DEF Send

(* The buffer and what is taken out of it stay buffers.                    *)
LEMMA BufferingType ==
    ASSUME TypeOK, NEW p \in Proc, NEW r \in Payload, Buffering(p, r)
    PROVE  buffer' \in Buffer /\ flush' \in [Proc -> Buffer]
<1>1. MinuteOf(r.ts) \in Minute
  BY PayloadFields, MinuteBounds
<1>2. ReadingsOf(r) \in Readings
  BY ReadingsType
<1>3. buffer.tags \in Readings /\ buffer \in Buffer
  BY DEF TypeOK, Buffer
<1>4. Over(buffer.tags, ReadingsOf(r)) \in Readings
  BY <1>2, <1>3, OverType
<1>5. [bucket |-> MinuteOf(r.ts), tags |-> ReadingsOf(r)] \in Buffer
  BY <1>1, <1>2 DEF Buffer
<1>6. [buffer EXCEPT !.tags = Over(@, ReadingsOf(r))] \in Buffer
  BY <1>3, <1>4 DEF Buffer
<1> QED BY <1>3, <1>5, <1>6 DEF Buffering, TypeOK

(* The rows of the events stay rows when a thread commits.                 *)
LEMMA CommitEvents ==
    ASSUME TypeOK, RequestInv, NEW p \in Proc, Commit(p)
    PROVE  events' \in [StateTag -> Seq(EventRow)]
<1>1. req[p] \in Payload /\ req[p].ts \in Time
  BY PayloadFields DEF RequestInv, Commit
<1>2. ASSUME NEW t \in StateTag
      PROVE  events'[t] \in Seq(EventRow)
  <2>1. CASE t \in DOMAIN changes[p]
    <3>1. events[t] \in Seq(EventRow) /\ found[p][t] \in Nat
      BY DEF TypeOK
    <3>2. changes[p][t] \in Change
      BY <2>1, ChangesFields DEF TypeOK
    <3>3. events'[t] = Record(events[t], found[p][t], changes[p][t], req[p].ts)
      BY <2>1 DEF Commit
    <3>4. Record(events[t], found[p][t], changes[p][t], req[p].ts)
             \in Seq(EventRow)
      BY <3>1, <3>2, <1>1, RecordRows
    <3> QED BY <3>3, <3>4
  <2>2. CASE t \notin DOMAIN changes[p]
    BY <2>2 DEF Commit, TypeOK
  <2> QED BY <2>1, <2>2
<1> QED BY <1>2 DEF Commit

(* Every step keeps the types, and the payloads of the requests.           *)
LEMMA TypeStep ==
    ASSUME TypeOK, RequestInv, [Next]_vars
    PROVE  TypeOK' /\ RequestInv'
<1> USE DEF memoryVars, dbVars, storeVars, watchVars, worldVars, threadVars
<1>1. ASSUME NEW p \in Proc, Send(p)
      PROVE  TypeOK' /\ RequestInv'
  BY <1>1, SendReceives, ReceiveType
<1>2. ASSUME NEW p \in Proc, TimeOut(p)
      PROVE  TypeOK' /\ RequestInv'
  <2>1. CASE Finish(p)
    BY <1>2, <2>1, FinishType, FinishRequest DEF TimeOut, TypeOK
  <2>2. CASE ~Finish(p)
    BY <1>2, <2>2 DEF TimeOut, TypeOK, RequestInv
  <2> QED BY <2>1, <2>2
<1>3. ASSUME NEW p \in Proc, Answer(p)
      PROVE  TypeOK' /\ RequestInv'
  <2>1. Finish(p) /\ pc[p] = "stored" /\ UNCHANGED lastSent
    BY <1>3 DEF Answer
  <2>2. req[p] \in Payload /\ req[p].ts \in Time
    BY <2>1, PayloadFields DEF RequestInv
  <2>3. ReadingsOf(req[p]) \in Readings
    BY <2>2, ReadingsType
  <2>4. acked' \in [Tag -> SUBSET Time]
    BY <1>3, <2>2, OkType DEF Answer, TypeOK
  <2>5. req[p].ts \in 0 .. MaxTime
    BY <2>2, TimeAssumption DEF Time
  <2>6. shown' \in Readings
    BY <1>3, <2>3, OverType DEF Answer, TypeOK
  <2>7. /\ storeTs' \in 0 .. MaxTime /\ startTs' \in 0 .. MaxTime
        /\ pumpLastOn' \in [StateTag -> 0 .. MaxTime]
    BY <1>3, <2>5 DEF Answer, TypeOK
  <2>8. UNCHANGED <<memoryVars, dbVars, watchVars, now, lastSent, faults,
                    crashes>>
    BY <1>3 DEF Answer
  <2>9. TypeOK'
    BY <2>1, <2>4, <2>6, <2>7, <2>8, FinishType DEF TypeOK
  <2> QED BY <2>9, <2>1, FinishRequest
<1>4. ASSUME NEW p \in Proc, Detect(p)
      PROVE  TypeOK' /\ RequestInv'
  <2>1. req[p] \in Payload
    BY <1>4 DEF Detect, RequestInv
  <2>2. changes' \in [Proc -> Changes]
    BY <1>4, <2>1, ChangesType DEF Detect, TypeOK
  <2>3. lastState' \in [StateTag -> State \cup {NoState}]
    BY <1>4, <2>1, PayloadFields DEF Detect, TypeOK, NewStates
  <2>4. buffer' \in Buffer /\ flush' \in [Proc -> Buffer]
    BY <1>4, <2>1, BufferingType DEF Detect
  <2>5. pc' \in [Proc -> Pc]
    BY <1>4 DEF Detect, TypeOK, Pc
  <2>6. UNCHANGED <<req, waiting, found, lastIngest, dbVars, storeVars,
                    watchVars, worldVars>>
    BY <1>4 DEF Detect
  <2>7. TypeOK'
    BY <2>2, <2>3, <2>4, <2>5, <2>6 DEF TypeOK
  <2>8. RequestInv'
    BY <1>4, <2>6 DEF Detect, RequestInv, TypeOK
  <2> QED BY <2>7, <2>8
<1>5. ASSUME NEW p \in Proc, Find(p)
      PROVE  TypeOK' /\ RequestInv'
  <2>1. found' \in [Proc -> [StateTag -> Nat]]
    <3> DEFINE U == UNION {LatestOpen(t) : t \in StateTag}
    <3>1. PICK f \in [StateTag -> U \cup {0}] :
             found' = [found EXCEPT ![p] = f]
      BY <1>5 DEF Find
    <3>2. \A t \in StateTag : LatestOpen(t) \subseteq Nat
      BY DEF LatestOpen, Open
    <3>3. ASSUME NEW x \in U
          PROVE  x \in Nat
      BY <3>2
    <3> HIDE DEF U
    <3>4. f \in [StateTag -> Nat]
      BY <3>1, <3>3
    <3> QED BY <3>1, <3>4 DEF TypeOK
  <2>2. lastIngest' \in 0 .. MaxTime
    BY <1>5, TimeAssumption DEF Find, TypeOK, Time
  <2>3. TypeOK'
    BY <1>5, <2>1, <2>2 DEF Find, TypeOK, Pc
  <2>4. RequestInv'
    BY <1>5 DEF Find, TypeOK, RequestInv
  <2> QED BY <2>3, <2>4
<1>6. ASSUME NEW p \in Proc, Commit(p)
      PROVE  TypeOK' /\ RequestInv'
  <2>1. events' \in [StateTag -> Seq(EventRow)]
    BY <1>6, CommitEvents
  <2>2. row' \in [Minute -> Readings]
    BY <1>6, OverType DEF Commit, TypeOK, Buffer
  <2>3. flush' \in [Proc -> Buffer] /\ found' \in [Proc -> [StateTag -> Nat]]
    BY <1>6, NullTypes DEF Commit, TypeOK
  <2>4. TypeOK'
    BY <1>6, <2>1, <2>2, <2>3 DEF Commit, TypeOK, Pc
  <2>5. RequestInv'
    BY <1>6 DEF Commit, TypeOK, RequestInv
  <2> QED BY <2>4, <2>5
<1>7. ASSUME NEW p \in Proc, Fail(p)
      PROVE  TypeOK' /\ RequestInv'
  <2>1. faults' \in 0 .. MaxFaults
    BY <1>7, BoundAssumption DEF Fail, TypeOK
  <2>2. Finish(p) /\ UNCHANGED lastSent
    BY <1>7 DEF Fail
  <2>3. TypeOK'
    BY <1>7, <2>1, <2>2, FinishType DEF Fail, TypeOK
  <2> QED BY <2>2, <2>3, FinishRequest
<1>8. ASSUME WatchdogDecide \/ WatchdogReset
      PROVE  TypeOK' /\ RequestInv'
  <2>1. now \in 0 .. MaxTime
    BY TimeAssumption DEF TypeOK, Time
  <2>2. TypeOK'
    BY <1>8, <2>1, NullTypes DEF WatchdogDecide, WatchdogReset, TypeOK
  <2>3. RequestInv'
    BY <1>8 DEF WatchdogDecide, WatchdogReset, RequestInv
  <2> QED BY <2>2, <2>3
<1>9. ASSUME Restart
      PROVE  TypeOK' /\ RequestInv'
  <2>1. /\ crashes' \in 0 .. MaxCrashes
        /\ pumpLastOn' \in [StateTag -> 0 .. MaxTime]
        /\ storeTs' \in 0 .. MaxTime /\ startTs' \in 0 .. MaxTime
        /\ lastIngest' \in 0 .. MaxTime /\ recovered' \in 0 .. MaxTime
    BY <1>9, BoundAssumption, TimeAssumption DEF Restart, TypeOK
  <2>2. /\ shown' \in Readings /\ buffer' \in Buffer
        /\ lastState' \in [StateTag -> State \cup {NoState}]
        /\ watchdog' \in {"idle", "recovering"}
    BY <1>9, NullTypes DEF Restart
  <2>3. /\ pc' \in [Proc -> Pc]
        /\ req' \in [Proc -> Payload \cup {NoPayload}]
        /\ waiting' \in [Proc -> BOOLEAN]
        /\ changes' \in [Proc -> Changes]
        /\ flush' \in [Proc -> Buffer]
        /\ found' \in [Proc -> [StateTag -> Nat]]
    BY <1>9, NullTypes DEF Restart, Pc
  <2>4. UNCHANGED <<dbVars, now, lastSent, acked, faults>>
    BY <1>9 DEF Restart
  <2>5. TypeOK'
    BY <2>1, <2>2, <2>3, <2>4 DEF TypeOK
  <2>6. RequestInv'
    BY <1>9 DEF Restart, RequestInv
  <2> QED BY <2>5, <2>6
<1>10. ASSUME Tick
       PROVE  TypeOK' /\ RequestInv'
  <2>1. now' \in Time
    BY <1>10, TimeAssumption DEF Tick, TypeOK, Time
  <2> QED BY <1>10, <2>1 DEF Tick, TypeOK, RequestInv
<1>11. ASSUME UNCHANGED vars
       PROVE  TypeOK' /\ RequestInv'
  BY <1>11 DEF vars, TypeOK, RequestInv
<1> QED
  BY <1>1, <1>2, <1>3, <1>4, <1>5, <1>6, <1>7, <1>8, <1>9, <1>10, <1>11
  DEF Next

(* The type invariant.                                                     *)
THEOREM TypeCorrect == Spec => []TypeOK
<1>1. Init => TypeOK /\ RequestInv
  <2> SUFFICES ASSUME Init
               PROVE  TypeOK /\ RequestInv
    OBVIOUS
  <2>1. 0 \in 0 .. MaxTime /\ 0 \in 0 .. MaxFaults /\ 0 \in 0 .. MaxCrashes
    BY TimeAssumption, BoundAssumption
  <2>2. <<>> \in Seq(EventRow)
    OBVIOUS
  <2>3. /\ pc \in [Proc -> Pc]
        /\ req \in [Proc -> Payload \cup {NoPayload}]
        /\ waiting \in [Proc -> BOOLEAN]
        /\ changes \in [Proc -> Changes]
        /\ flush \in [Proc -> Buffer]
        /\ found \in [Proc -> [StateTag -> Nat]]
        /\ RequestInv
    BY NullTypes DEF Init, Pc, RequestInv
  <2>4. /\ now \in Time
        /\ lastSent \in Payload \cup {NoPayload}
        /\ lastState \in [StateTag -> State \cup {NoState}]
        /\ buffer \in Buffer
        /\ events \in [StateTag -> Seq(EventRow)]
        /\ row \in [Minute -> Readings] /\ acked \in [Tag -> SUBSET Time]
        /\ shown \in Readings
        /\ pumpLastOn \in [StateTag -> 0 .. MaxTime]
        /\ watchdog \in {"idle", "recovering"}
    BY <2>1, <2>2, NullTypes, TimeAssumption DEF Init, Time
  <2> QED BY <2>1, <2>3, <2>4 DEF Init, TypeOK
<1>2. TypeOK /\ RequestInv /\ [Next]_vars => TypeOK' /\ RequestInv'
  BY TypeStep
<1> QED BY <1>1, <1>2, PTL DEF Spec

-----------------------------------------------------------------------------
(* What is shown and stored, however many requests are in progress         *)

(* The database has an event of a tag that starts at a time in a state.    *)
HasEvent(t, s, st) ==
    \E i \in 1 .. Len(events[t]) : /\ events[t][i].start = s
                                   /\ events[t][i].state = st

(* A thread that is back from its commit has its changes in the database,  *)
(* and the store shows starts of pumps the database has.                   *)
RecordedInv ==
    /\ \A p \in Proc : pc[p] = "stored" =>
          \A t \in DOMAIN changes[p] :
             HasEvent(t, req[p].ts, changes[p][t].state)
    /\ \A t \in StateTag : pumpLastOn[t] # 0 =>
          \E st \in Running : HasEvent(t, pumpLastOn[t], st)

(* Readings lie in the minute they are kept for.                           *)
InMinute(m, r) == \A t \in Tag : r[t] # 0 => MinuteOf(r[t]) = m

MinuteInv ==
    /\ \A m \in Minute : InMinute(m, row[m])
    /\ InMinute(buffer.bucket, buffer.tags)
    /\ buffer.bucket = 0 => buffer = NoBuffer
    /\ \A p \in Proc : InMinute(flush[p].bucket, flush[p].tags)

(* The store: nothing in it is newer than its timestamp, and no start of a *)
(* pump is newer than the requests under way and those to come.            *)
StoreInv ==
    /\ \A t \in Tag : shown[t] <= storeTs
    /\ startTs <= storeTs
    /\ StartIsLastPump
    /\ \A t \in StateTag : \A i \in 1 .. Len(events[t]) :
          events[t][i].start <= lastSent.ts
    /\ \A t \in StateTag :
          \/ pumpLastOn[t] <= storeTs
          \/ /\ pumpLastOn[t] <= lastSent.ts
             /\ \A p \in Proc : pc[p] # "idle" => pumpLastOn[t] <= req[p].ts

SharedInv == TypeOK /\ RequestInv /\ RecordedInv /\ MinuteInv /\ StoreInv

(* What a commit does to the events of a tag.                              *)
LEMMA CommitRows ==
    ASSUME TypeOK, RequestInv, NEW p \in Proc, Commit(p), NEW t \in StateTag
    PROVE  /\ t \notin DOMAIN changes[p] => events'[t] = events[t]
           /\ t \in DOMAIN changes[p] =>
                 /\ Len(events'[t]) = Len(events[t]) + 1
                 /\ \A j \in 1 .. Len(events[t]) :
                       events'[t][j] = IF j = found[p][t]
                                       THEN [events[t][j] EXCEPT !.end = req[p].ts]
                                       ELSE events[t][j]
                 /\ events'[t][Len(events[t]) + 1] =
                       [prev |-> changes[p][t].prev,
                        state |-> changes[p][t].state,
                        start |-> req[p].ts, end |-> 0]
<1>1. CASE t \notin DOMAIN changes[p]
  BY <1>1 DEF Commit
<1>2. CASE t \in DOMAIN changes[p]
  <2>1. req[p].ts \in Time
    BY PayloadFields DEF RequestInv, Commit
  <2>2. events[t] \in Seq(EventRow) /\ found[p][t] \in Nat
    BY DEF TypeOK
  <2>3. changes[p][t] \in Change
    BY <1>2, ChangesFields DEF TypeOK
  <2> DEFINE evs == events[t]
             i == found[p][t]
             c == changes[p][t]
             s == req[p].ts
  <2>4. events'[t] = Record(evs, i, c, s)
    BY <1>2 DEF Commit
  <2>5. evs \in Seq(EventRow) /\ i \in Nat /\ c \in Change /\ s \in Time
    BY <2>1, <2>2, <2>3
  <2> HIDE DEF evs, i, c, s
  <2>6. /\ Len(events'[t]) = Len(evs) + 1
        /\ \A j \in 1 .. Len(evs) :
              events'[t][j] = IF j = i THEN [evs[j] EXCEPT !.end = s]
                              ELSE evs[j]
        /\ events'[t][Len(evs) + 1] = [prev |-> c.prev, state |-> c.state,
                                       start |-> s, end |-> 0]
    BY <2>4, <2>5, RecordRows
  <2> QED BY <1>2, <2>6 DEF evs, i, c, s
<1> QED BY <1>1, <1>2

(* Every event that is there has the fields of one.                        *)
LEMMA EventFields ==
    ASSUME TypeOK, NEW t \in StateTag, NEW i \in 1 .. Len(events[t])
    PROVE  /\ events[t][i] \in EventRow
           /\ events[t][i].start \in Time /\ events[t][i].start \in Nat
           /\ events[t][i].start # 0
           /\ events[t][i].end \in Nat
           /\ events[t][i].prev \in State /\ events[t][i].state \in State
<1>1. events[t] \in Seq(EventRow)
  BY DEF TypeOK
<1>2. events[t][i] \in EventRow
  BY <1>1
<1> QED BY <1>2, TimeAssumption DEF EventRow, Time

(* A commit keeps the starts and the states of the events that are there.  *)
LEMMA CommitKeeps ==
    ASSUME TypeOK, RequestInv, NEW p \in Proc, Commit(p), NEW t \in StateTag,
           NEW s, NEW st, HasEvent(t, s, st)
    PROVE  \E i \in 1 .. Len(events'[t]) : /\ events'[t][i].start = s
                                           /\ events'[t][i].state = st
<1>1. PICK i \in 1 .. Len(events[t]) :
         events[t][i].start = s /\ events[t][i].state = st
  BY DEF HasEvent
<1>2. Len(events[t]) \in Nat /\ i \in Nat
  BY DEF TypeOK
<1>3. CASE t \notin DOMAIN changes[p]
  BY <1>1, <1>3, CommitRows DEF HasEvent
<1>4. CASE t \in DOMAIN changes[p]
  <2>0. /\ Len(events'[t]) = Len(events[t]) + 1
        /\ \A j \in 1 .. Len(events[t]) :
              events'[t][j] = IF j = found[p][t]
                              THEN [events[t][j] EXCEPT !.end = req[p].ts]
                              ELSE events[t][j]
    BY <1>4, CommitRows
  <2>1. i \in 1 .. Len(events'[t])
    BY <1>2, <2>0
  <2>2. \/ events'[t][i] = events[t][i]
        \/ events'[t][i] = [events[t][i] EXCEPT !.end = req[p].ts]
    BY <2>0
  <2>3. events[t][i] \in EventRow
    BY EventFields
  <2>4. events'[t][i].start = s /\ events'[t][i].state = st
    BY <1>1, <2>2, <2>3 DEF EventRow
  <2> QED BY <2>1, <2>4 DEF HasEvent
<1> QED BY <1>3, <1>4

(* A commit records the changes of its thread.                             *)
LEMMA CommitAdds ==
    ASSUME TypeOK, RequestInv, NEW p \in Proc, Commit(p),
           NEW t \in DOMAIN changes[p]
    PROVE  HasEvent(t, req[p].ts, changes[p][t].state)'
<1>1. t \in StateTag
  BY ChangesFields DEF TypeOK
<1>2. Len(events[t]) \in Nat
  BY <1>1 DEF TypeOK
<1>3. /\ Len(events'[t]) = Len(events[t]) + 1
      /\ events'[t][Len(events[t]) + 1] =
            [prev |-> changes[p][t].prev, state |-> changes[p][t].state,
             start |-> req[p].ts, end |-> 0]
  BY <1>1, CommitRows
<1>4. Len(events[t]) + 1 \in 1 .. Len(events'[t])
  BY <1>2, <1>3
<1>5. req' = req /\ changes' = changes
  BY DEF Commit
<1> QED BY <1>3, <1>4, <1>5 DEF HasEvent

(* When a thread ends, the others stay what they are.                      *)
LEMMA FinishOthers ==
    ASSUME TypeOK, NEW p \in Proc, Finish(p), NEW q \in Proc
    PROVE  /\ pc'[p] = "idle"
           /\ pc'[q] # "idle" =>
                 q # p /\ pc'[q] = pc[q] /\ req'[q] = req[q]
                       /\ changes'[q] = changes[q] /\ flush'[q] = flush[q]
                       /\ waiting'[q] = waiting[q] /\ found'[q] = found[q]
BY DEF TypeOK, Finish

(* Steps that leave the events and the store alone, and bring no thread    *)
(* back from its commit, keep RecordedInv.                                 *)
LEMMA RecordedFrame ==
    ASSUME RecordedInv, UNCHANGED <<events, pumpLastOn>>,
           \A q \in Proc : pc'[q] = "stored" =>
              /\ pc[q] = "stored"
              /\ req'[q] = req[q] /\ changes'[q] = changes[q]
    PROVE  RecordedInv'
BY DEF RecordedInv, HasEvent

(* RecordedInv is kept.                                                    *)
LEMMA RecordedStep ==
    ASSUME TypeOK, RequestInv, RecordedInv, [Next]_vars
    PROVE  RecordedInv'
<1> USE DEF memoryVars, dbVars, storeVars, watchVars, worldVars, threadVars
<1>1. ASSUME NEW p \in Proc, Send(p)
      PROVE  RecordedInv'
  <2>1. PICK r \in Payload : Receive(p, r)
    BY <1>1, SendReceives
  <2> QED BY <2>1, RecordedFrame DEF Receive, TypeOK
<1>2. ASSUME NEW p \in Proc, TimeOut(p) \/ Fail(p)
      PROVE  RecordedInv'
  <2>1. UNCHANGED <<events, pumpLastOn>>
    BY <1>2 DEF TimeOut, Fail
  <2>2. \/ Finish(p) \/ UNCHANGED <<pc, req, changes>>
    BY <1>2 DEF TimeOut, Fail
  <2> QED BY <2>1, <2>2, FinishOthers, RecordedFrame
<1>3. ASSUME NEW p \in Proc, Answer(p)
      PROVE  RecordedInv'
  <2>1. UNCHANGED events /\ Finish(p) /\ pc[p] = "stored"
    BY <1>3 DEF Answer
  <2>2. \A q \in Proc : pc'[q] = "stored" =>
           \A t \in DOMAIN changes'[q] :
              HasEvent(t, req'[q].ts, changes'[q][t].state)
    BY <2>1, FinishOthers DEF RecordedInv
  <2>3. ASSUME NEW t \in StateTag, pumpLastOn'[t] # 0
        PROVE  \E st \in Running : HasEvent(t, pumpLastOn'[t], st)
    <3>1. CASE pumpLastOn'[t] = pumpLastOn[t]
      BY <2>3, <3>1 DEF RecordedInv
    <3>2. CASE pumpLastOn'[t] # pumpLastOn[t]
      <4>1. t \in Started(p) /\ pumpLastOn'[t] = req[p].ts
        BY <1>3, <3>2 DEF Answer
      <4>2. t \in DOMAIN changes[p] /\ changes[p][t].state \in Running
        BY <4>1 DEF Started
      <4>3. HasEvent(t, req[p].ts, changes[p][t].state)
        BY <2>1, <4>2 DEF RecordedInv
      <4> QED BY <4>1, <4>2, <4>3
    <3> QED BY <3>1, <3>2
  <2> QED BY <2>1, <2>2, <2>3 DEF RecordedInv, HasEvent
<1>4. ASSUME NEW p \in Proc, Detect(p) \/ Find(p)
      PROVE  RecordedInv'
  <2>1. UNCHANGED <<events, pumpLastOn, req>>
    BY <1>4 DEF Detect, Find
  <2>2. \A q \in Proc : pc'[q] = "stored" =>
           pc[q] = "stored" /\ changes'[q] = changes[q]
    BY <1>4 DEF Detect, Find, TypeOK
  <2> QED BY <2>1, <2>2, RecordedFrame
<1>5. ASSUME NEW p \in Proc, Commit(p)
      PROVE  RecordedInv'
  <2>1. UNCHANGED <<pumpLastOn, req, changes>>
    BY <1>5 DEF Commit
  <2>2. ASSUME NEW q \in Proc, pc'[q] = "stored", NEW t \in DOMAIN changes'[q]
        PROVE  HasEvent(t, req[q].ts, changes[q][t].state)'
    <3>1. CASE q = p
      BY <1>5, <2>1, <2>2, <3>1, CommitAdds
    <3>2. CASE q # p
      <4>1. pc[q] = "stored" /\ t \in DOMAIN changes[q] /\ t \in StateTag
        BY <1>5, <2>1, <2>2, <3>2, ChangesFields DEF Commit, TypeOK
      <4>2. HasEvent(t, req[q].ts, changes[q][t].state)
        BY <4>1 DEF RecordedInv
      <4>3. DEFINE s == req[q].ts
                   st == changes[q][t].state
      <4>4. s' = s /\ st' = st
        BY <2>1
      <4> HIDE DEF s, st
      <4>5. HasEvent(t, s, st)
        BY <4>2 DEF s, st
      <4>6. \E i \in 1 .. Len(events'[t]) : /\ events'[t][i].start = s
                                            /\ events'[t][i].state = st
        BY <1>5, <4>1, <4>5, CommitKeeps
      <4> QED BY <4>4, <4>6 DEF HasEvent, s, st
    <3> QED BY <3>1, <3>2
  <2>3. ASSUME NEW t \in StateTag, pumpLastOn'[t] # 0
        PROVE  \E st \in Running : HasEvent(t, pumpLastOn[t], st)'
    <3>1. PICK st \in Running : HasEvent(t, pumpLastOn[t], st)
      BY <2>1, <2>3 DEF RecordedInv
    <3>2. \E i \in 1 .. Len(events'[t]) :
             /\ events'[t][i].start = pumpLastOn[t]
             /\ events'[t][i].state = st
      BY <1>5, <3>1, CommitKeeps
    <3> QED BY <2>1, <3>2 DEF HasEvent
  <2> QED BY <2>2, <2>3 DEF RecordedInv
<1>6. ASSUME WatchdogDecide \/ WatchdogReset \/ Tick \/ UNCHANGED vars
      PROVE  RecordedInv'
  BY <1>6, RecordedFrame DEF WatchdogDecide, WatchdogReset, Tick, vars
<1>7. ASSUME Restart
      PROVE  RecordedInv'
  <2>1. UNCHANGED events /\ \A q \in Proc : pc'[q] # "stored"
    BY <1>7 DEF Restart
  <2>2. ASSUME NEW t \in StateTag, pumpLastOn'[t] # 0
        PROVE  \E st \in Running : HasEvent(t, pumpLastOn'[t], st)
    <3>1. pumpLastOn'[t] \in LastStart(t)
      BY <1>7 DEF Restart
    <3>2. pumpLastOn'[t] \in Starts(t)
      BY <2>2, <3>1 DEF LastStart
    <3> QED BY <3>2 DEF Starts, HasEvent
  <2> QED BY <2>1, <2>2 DEF RecordedInv, HasEvent
<1> QED
  BY <1>1, <1>2, <1>3, <1>4, <1>5, <1>6, <1>7 DEF Next

(* Readings of one minute laid over others of it are of that minute.       *)
LEMMA OverInMinute ==
    ASSUME NEW m, NEW a \in Readings, NEW b \in Readings,
           InMinute(m, a), InMinute(m, b)
    PROVE  InMinute(m, Over(a, b))
BY DEF InMinute, Over

(* The readings of a payload are of its minute; there are none in none.    *)
LEMMA PayloadInMinute ==
    ASSUME NEW r
    PROVE  /\ InMinute(MinuteOf(r.ts), ReadingsOf(r))
           /\ \A m : InMinute(m, NoReadings)
BY DEF InMinute, ReadingsOf, NoReadings

(* Putting a payload into the buffer keeps minutes apart.                  *)
LEMMA BufferingMinute ==
    ASSUME TypeOK, MinuteInv, NEW p \in Proc, NEW r \in Payload,
           Buffering(p, r)
    PROVE  /\ InMinute(buffer'.bucket, buffer'.tags)
           /\ buffer'.bucket = 0 => buffer' = NoBuffer
           /\ \A q \in Proc : InMinute(flush'[q].bucket, flush'[q].tags)
<1>1. MinuteOf(r.ts) # 0 /\ ReadingsOf(r) \in Readings
  BY PayloadFields, MinuteBounds, ReadingsType
<1>2. InMinute(MinuteOf(r.ts), ReadingsOf(r))
  BY PayloadInMinute
<1>3. buffer \in Buffer /\ buffer.tags \in Readings
  BY DEF TypeOK, Buffer
<1>4. InMinute(buffer.bucket, buffer.tags)
  BY DEF MinuteInv
<1>5. \/ flush' = flush
      \/ flush' = [flush EXCEPT ![p] = buffer]
  BY DEF Buffering
<1>6. \A q \in Proc : InMinute(flush'[q].bucket, flush'[q].tags)
  BY <1>4, <1>5 DEF MinuteInv, TypeOK
<1>7. CASE buffer' = [bucket |-> MinuteOf(r.ts), tags |-> ReadingsOf(r)]
  BY <1>1, <1>2, <1>6, <1>7
<1>8. CASE /\ buffer # NoBuffer /\ MinuteOf(r.ts) = buffer.bucket
           /\ buffer' = [buffer EXCEPT !.tags = Over(@, ReadingsOf(r))]
  <2>1. InMinute(buffer.bucket, Over(buffer.tags, ReadingsOf(r)))
    BY <1>1, <1>2, <1>3, <1>4, <1>8, OverInMinute
  <2>2. /\ buffer'.bucket = buffer.bucket
        /\ buffer'.tags = Over(buffer.tags, ReadingsOf(r))
    BY <1>3, <1>8 DEF Buffer
  <2> QED BY <2>1, <2>2, <1>1, <1>6, <1>8
<1>9. CASE buffer' = buffer
  BY <1>4, <1>6, <1>9 DEF MinuteInv
<1> QED BY <1>7, <1>8, <1>9 DEF Buffering

(* MinuteInv is kept.                                                      *)
LEMMA MinuteStep ==
    ASSUME TypeOK, RequestInv, MinuteInv, [Next]_vars
    PROVE  MinuteInv'
<1> USE DEF memoryVars, dbVars, storeVars, watchVars, worldVars, threadVars
<1>1. \A m : InMinute(m, NoReadings)
  BY PayloadInMinute
<1>2. ASSUME NEW p \in Proc, Finish(p), UNCHANGED <<row, buffer>>
      PROVE  MinuteInv'
  <2>1. \A q \in Proc : flush'[q] \in {flush[q], NoBuffer}
    BY <1>2 DEF Finish, TypeOK
  <2>2. InMinute(NoBuffer.bucket, NoBuffer.tags)
    BY <1>1 DEF NoBuffer
  <2> QED BY <1>2, <2>1, <2>2 DEF MinuteInv, InMinute
<1>3. ASSUME UNCHANGED <<row, buffer, flush>>
      PROVE  MinuteInv'
  BY <1>3 DEF MinuteInv, InMinute
<1>4. ASSUME NEW p \in Proc, Send(p)
      PROVE  MinuteInv'
  <2>1. UNCHANGED <<row, buffer, flush>>
    BY <1>4 DEF Send, Receive
  <2> QED BY <2>1, <1>3
<1>5. ASSUME NEW p \in Proc, TimeOut(p) \/ Answer(p) \/ Fail(p)
      PROVE  MinuteInv'
  <2>1. UNCHANGED <<row, buffer>> /\ (Finish(p) \/ UNCHANGED flush)
    BY <1>5 DEF TimeOut, Answer, Fail
  <2> QED BY <2>1, <1>2, <1>3
<1>6. ASSUME NEW p \in Proc, Detect(p)
      PROVE  MinuteInv'
  <2>1. req[p] \in Payload
    BY <1>6 DEF Detect, RequestInv
  <2>2. Buffering(p, req[p]) /\ UNCHANGED row
    BY <1>6 DEF Detect
  <2>3. /\ InMinute(buffer'.bucket, buffer'.tags)
        /\ buffer'.bucket = 0 => buffer' = NoBuffer
        /\ \A q \in Proc : InMinute(flush'[q].bucket, flush'[q].tags)
    BY <2>1, <2>2, BufferingMinute
  <2> QED BY <2>2, <2>3 DEF MinuteInv, InMinute
<1>7. ASSUME NEW p \in Proc, Find(p)
      PROVE  MinuteInv'
  BY <1>7, <1>3 DEF Find
<1>8. ASSUME NEW p \in Proc, Commit(p)
      PROVE  MinuteInv'
  <2>1. UNCHANGED buffer /\ \A q \in Proc : flush'[q] \in {flush[q], NoBuffer}
    BY <1>8 DEF Commit, TypeOK
  <2>2. InMinute(NoBuffer.bucket, NoBuffer.tags)
    BY <1>1 DEF NoBuffer
  <2>3. ASSUME NEW m \in Minute
        PROVE  InMinute(m, row'[m])
    <3>1. \/ row'[m] = row[m]
          \/ /\ m = flush[p].bucket
             /\ row'[m] = Over(row[m], flush[p].tags)
      BY <1>8 DEF Commit, TypeOK
    <3>2. InMinute(m, row[m]) /\ InMinute(flush[p].bucket, flush[p].tags)
      BY DEF MinuteInv
    <3>3. row[m] \in Readings /\ flush[p].tags \in Readings
      BY DEF TypeOK, Buffer
    <3> QED BY <3>1, <3>2, <3>3, OverInMinute
  <2> QED BY <2>1, <2>2, <2>3 DEF MinuteInv, InMinute
<1>9. ASSUME WatchdogDecide \/ Tick \/ UNCHANGED vars
      PROVE  MinuteInv'
  BY <1>9, <1>3 DEF WatchdogDecide, Tick, vars
<1>10. ASSUME WatchdogReset
       PROVE  MinuteInv'
  <2>1. UNCHANGED <<row, flush>> /\ buffer' \in {buffer, NoBuffer}
    BY <1>10 DEF WatchdogReset
  <2>2. InMinute(NoBuffer.bucket, NoBuffer.tags)
    BY <1>1 DEF NoBuffer
  <2> QED BY <2>1, <2>2 DEF MinuteInv, InMinute
<1>11. ASSUME Restart
       PROVE  MinuteInv'
  <2>1. /\ UNCHANGED row /\ buffer' = NoBuffer
        /\ \A q \in Proc : flush'[q] = NoBuffer
    BY <1>11 DEF Restart
  <2>2. InMinute(NoBuffer.bucket, NoBuffer.tags)
    BY <1>1 DEF NoBuffer
  <2> QED BY <2>1, <2>2 DEF MinuteInv, InMinute
<1> QED
  BY <1>4, <1>5, <1>6, <1>7, <1>8, <1>9, <1>10, <1>11 DEF Next

(* Times are natural numbers.                                              *)
LEMMA TimesAreNat ==
    ASSUME TypeOK, RequestInv
    PROVE  /\ storeTs \in Nat /\ startTs \in Nat /\ lastSent.ts \in Nat
           /\ \A t \in Tag : shown[t] \in Nat
           /\ \A t \in StateTag : pumpLastOn[t] \in Nat
           /\ \A p \in Proc : pc[p] # "idle" => req[p].ts \in Nat
<1>1. lastSent.ts \in Nat
  <2>1. CASE lastSent \in Payload
    BY <2>1, PayloadFields
  <2>2. CASE lastSent = NoPayload
    BY <2>2 DEF NoPayload
  <2> QED BY <2>1, <2>2 DEF TypeOK
<1>2. \A p \in Proc : pc[p] # "idle" => req[p].ts \in Nat
  BY PayloadFields DEF RequestInv
<1>3. \A n \in 0 .. MaxTime : n \in Nat
  BY TimeAssumption
<1> QED BY <1>1, <1>2, <1>3 DEF TypeOK, Readings

(* Steps that leave the store and the events alone keep StoreInv, unless a *)
(* request is new.                                                         *)
LEMMA StoreFrame ==
    ASSUME StoreInv,
           UNCHANGED <<events, storeTs, shown, pumpLastOn, startTs, lastSent>>,
           \A q \in Proc : pc'[q] # "idle" =>
              pc[q] # "idle" /\ req'[q] = req[q]
    PROVE  StoreInv'
BY DEF StoreInv, StartIsLastPump

(* StoreInv is kept when the handler answers.                              *)
LEMMA StoreAnswer ==
    ASSUME TypeOK, RequestInv, StoreInv, NEW p \in Proc, Answer(p)
    PROVE  StoreInv'
<1> DEFINE s == req[p].ts
<1>1. pc[p] = "stored" /\ Finish(p) /\ UNCHANGED <<events, lastSent>>
  BY DEF Answer, dbVars
<1>2. \A q \in Proc : pc'[q] # "idle" => pc[q] # "idle" /\ req'[q] = req[q]
  BY <1>1, FinishOthers
<1>3. CASE UNCHANGED storeVars
  BY <1>1, <1>2, <1>3, StoreFrame DEF storeVars
<1>4. CASE waiting[p] /\ Accepts(s)
  <2>1. /\ storeTs' = s
        /\ shown' = Over(shown, ReadingsOf(req[p]))
        /\ pumpLastOn' = [t \in StateTag |->
              IF t \in Started(p) THEN s ELSE pumpLastOn[t]]
        /\ startTs' = IF Started(p) # {} THEN s ELSE startTs
    BY <1>4 DEF Answer
  <2>2. s \in Nat /\ storeTs < s /\ s # 0
    BY <1>1, <1>4, TimesAreNat DEF Accepts
  <2>3. \A t \in StateTag : pumpLastOn[t] <= s /\ pumpLastOn[t] \in Nat
    BY <1>1, <2>2, TimesAreNat DEF StoreInv
  <2>4. startTs < s /\ startTs \in Nat
    BY <2>2, TimesAreNat DEF StoreInv
  <2>5. Started(p) \subseteq StateTag
    BY ChangesFields DEF Started, TypeOK
  <2>6. \A t \in StateTag : pumpLastOn'[t] <= storeTs'
    BY <2>1, <2>2, <2>3
  <2>7. startTs' <= storeTs'
    BY <2>1, <2>2, <2>4
  <2>8. \A t \in Tag : shown'[t] <= storeTs'
    <3> SUFFICES ASSUME NEW t \in Tag
                 PROVE  shown'[t] <= storeTs'
      OBVIOUS
    <3>1. shown'[t] \in {shown[t], s}
      BY <2>1 DEF Over, ReadingsOf
    <3>2. shown[t] <= storeTs /\ shown[t] \in Nat /\ storeTs \in Nat
      BY TimesAreNat DEF StoreInv
    <3> QED BY <2>1, <2>2, <3>1, <3>2
  <2>9. StartIsLastPump'
    <3>1. CASE Started(p) # {}
      <4>1. startTs' = s /\ \A t \in StateTag : pumpLastOn'[t] <= s
        BY <2>1, <2>6, <3>1
      <4>2. \E t \in StateTag : pumpLastOn'[t] = s
        BY <2>1, <2>5, <3>1
      <4> QED BY <4>1, <4>2 DEF StartIsLastPump
    <3>2. CASE Started(p) = {}
      <4>1. startTs' = startTs /\ \A t \in StateTag : pumpLastOn'[t] = pumpLastOn[t]
        BY <2>1, <3>2
      <4> QED BY <4>1 DEF StoreInv, StartIsLastPump
    <3> QED BY <3>1, <3>2
  <2> QED BY <1>1, <2>6, <2>7, <2>8, <2>9 DEF StoreInv
<1> QED BY <1>3, <1>4 DEF Answer

(* StoreInv is kept when a request comes in.                               *)
LEMMA StoreReceive ==
    ASSUME TypeOK, RequestInv, StoreInv, NEW p \in Proc, NEW r \in Payload,
           Receive(p, r), lastSent.ts <= r.ts
    PROVE  StoreInv'
<1>1. /\ UNCHANGED <<events, storeTs, shown, pumpLastOn, startTs>>
      /\ lastSent' = r
  BY DEF Receive, dbVars, storeVars
<1>2. r.ts \in Nat
  BY PayloadFields
<1>3. \A q \in Proc : pc'[q] # "idle" =>
         req'[q] = r \/ (pc[q] # "idle" /\ req'[q] = req[q])
  BY DEF Receive, TypeOK
<1>4. ASSUME NEW t \in StateTag, NEW i \in 1 .. Len(events[t])
      PROVE  events[t][i].start <= r.ts
  BY <1>2, EventFields, TimesAreNat DEF StoreInv
<1>5. ASSUME NEW t \in StateTag
      PROVE  \/ pumpLastOn[t] <= storeTs
             \/ /\ pumpLastOn[t] <= r.ts
                /\ \A q \in Proc : pc'[q] # "idle" => pumpLastOn[t] <= req'[q].ts
  <2>1. CASE pumpLastOn[t] <= storeTs
    BY <2>1
  <2>2. CASE pumpLastOn[t] <= lastSent.ts
    BY <1>2, <1>3, <2>2, TimesAreNat DEF StoreInv
  <2> QED BY <2>1, <2>2 DEF StoreInv
<1> QED BY <1>1, <1>4, <1>5 DEF StoreInv, StartIsLastPump

(* StoreInv is kept when a thread commits.                                 *)
LEMMA StoreCommit ==
    ASSUME TypeOK, RequestInv, StoreInv, NEW p \in Proc, Commit(p)
    PROVE  StoreInv'
<1>1. UNCHANGED <<storeTs, shown, pumpLastOn, startTs, lastSent, req>>
  BY DEF Commit, storeVars, worldVars
<1>2. \A q \in Proc : pc'[q] # "idle" => pc[q] # "idle"
  BY DEF Commit, TypeOK
<1>3. ASSUME NEW t \in StateTag, NEW i \in 1 .. Len(events'[t])
      PROVE  events'[t][i].start <= lastSent.ts
  <2>1. \A j \in 1 .. Len(events[t]) :
           events[t][j] \in EventRow /\ events[t][j].start <= lastSent.ts
    BY EventFields DEF StoreInv
  <2>2. CASE t \notin DOMAIN changes[p]
    BY <2>1, <2>2, CommitRows
  <2>3. CASE t \in DOMAIN changes[p]
    <3>1. /\ Len(events'[t]) = Len(events[t]) + 1
          /\ \A j \in 1 .. Len(events[t]) :
                events'[t][j] = IF j = found[p][t]
                                THEN [events[t][j] EXCEPT !.end = req[p].ts]
                                ELSE events[t][j]
          /\ events'[t][Len(events[t]) + 1] =
                [prev |-> changes[p][t].prev, state |-> changes[p][t].state,
                 start |-> req[p].ts, end |-> 0]
      BY <2>3, CommitRows
    <3>2. Len(events[t]) \in Nat /\ req[p].ts <= lastSent.ts
      BY DEF TypeOK, RequestInv, Commit
    <3>3. CASE i = Len(events[t]) + 1
      BY <3>1, <3>2, <3>3
    <3>4. CASE i \in 1 .. Len(events[t])
      <4>1. events'[t][i].start = events[t][i].start
        BY <2>1, <3>1, <3>4 DEF EventRow
      <4> QED BY <2>1, <3>4, <4>1
    <3> QED BY <3>1, <3>2, <3>3, <3>4
  <2> QED BY <2>2, <2>3
<1> QED BY <1>1, <1>2, <1>3 DEF StoreInv, StartIsLastPump

(* StoreInv is kept when the process is started again.                     *)
LEMMA StoreRestart ==
    ASSUME TypeOK, RequestInv, StoreInv, Restart
    PROVE  StoreInv'
<1>1. /\ UNCHANGED <<events, lastSent>>
      /\ storeTs' = 0 /\ startTs' = 0 /\ shown' = NoReadings
      /\ \A q \in Proc : pc'[q] = "idle"
  BY DEF Restart, dbVars
<1>2. ASSUME NEW t \in StateTag
      PROVE  pumpLastOn'[t] <= 0 \/ pumpLastOn'[t] <= lastSent.ts
  <2>1. pumpLastOn'[t] \in LastStart(t)
    BY DEF Restart
  <2>2. \A s \in Starts(t) : s <= lastSent.ts
    BY DEF Starts, StoreInv
  <2> QED BY <2>1, <2>2 DEF LastStart
<1>3. \A t \in Tag : shown'[t] <= storeTs'
  BY <1>1 DEF NoReadings
<1>4. StartIsLastPump'
  BY <1>1 DEF StartIsLastPump
<1> QED BY <1>1, <1>2, <1>3, <1>4 DEF StoreInv

(* StoreInv is kept.                                                       *)
LEMMA StoreStep ==
    ASSUME TypeOK, RequestInv, StoreInv, [Next]_vars
    PROVE  StoreInv'
<1> USE DEF memoryVars, dbVars, storeVars, watchVars, worldVars, threadVars
<1>1. ASSUME NEW p \in Proc, Send(p)
      PROVE  StoreInv'
  BY <1>1, SendReceives, StoreReceive
<1>2. ASSUME NEW p \in Proc, TimeOut(p) \/ Fail(p)
      PROVE  StoreInv'
  <2>1. UNCHANGED <<events, storeTs, shown, pumpLastOn, startTs, lastSent>>
    BY <1>2 DEF TimeOut, Fail
  <2>2. Finish(p) \/ UNCHANGED <<pc, req>>
    BY <1>2 DEF TimeOut, Fail
  <2> QED BY <2>1, <2>2, FinishOthers, StoreFrame
<1>3. ASSUME NEW p \in Proc, Detect(p) \/ Find(p)
      PROVE  StoreInv'
  <2>1. UNCHANGED <<events, storeTs, shown, pumpLastOn, startTs, lastSent, req>>
    BY <1>3 DEF Detect, Find
  <2>2. \A q \in Proc : pc'[q] # "idle" => pc[q] # "idle"
    BY <1>3 DEF Detect, Find, TypeOK
  <2> QED BY <2>1, <2>2, StoreFrame
<1>4. ASSUME WatchdogDecide \/ WatchdogReset \/ Tick \/ UNCHANGED vars
      PROVE  StoreInv'
  BY <1>4, StoreFrame DEF WatchdogDecide, WatchdogReset, Tick, vars
<1> QED
  BY <1>1, <1>2, <1>3, <1>4, StoreAnswer, StoreCommit, StoreRestart DEF Next

-----------------------------------------------------------------------------
(* The invariant shared by all instances.                                  *)
THEOREM SharedInvariance == Spec => []SharedInv
<1>1. Init => RecordedInv /\ MinuteInv /\ StoreInv
  <2> SUFFICES ASSUME Init
               PROVE  RecordedInv /\ MinuteInv /\ StoreInv
    OBVIOUS
  <2>1. RecordedInv
    BY DEF Init, RecordedInv
  <2>2. MinuteInv
    BY DEF Init, MinuteInv, InMinute, NoBuffer, NoReadings
  <2>3. StoreInv
    BY DEF Init, StoreInv, StartIsLastPump, NoReadings
  <2> QED BY <2>1, <2>2, <2>3
<1>2. TypeOK /\ RequestInv /\ RecordedInv /\ MinuteInv /\ StoreInv
         /\ [Next]_vars
      => RequestInv' /\ RecordedInv' /\ MinuteInv' /\ StoreInv'
  BY TypeStep, RecordedStep, MinuteStep, StoreStep
<1>3. Init => RequestInv
  BY DEF Init, RequestInv
<1> QED BY <1>1, <1>2, <1>3, TypeCorrect, PTL DEF Spec, SharedInv

(* The store never says a pump was started at a time the database has no   *)
(* event for.                                                              *)
THEOREM PumpStartsRecorded == Spec => []PumpOnHasEvent
<1>1. SharedInv => PumpOnHasEvent
  BY StateAssumption DEF SharedInv, RecordedInv, HasEvent, PumpOnHasEvent
<1> QED BY <1>1, SharedInvariance, PTL

(* start_ts of the store is the start of the pump that was started last.   *)
THEOREM LastPumpShown == Spec => []StartIsLastPump
<1>1. SharedInv => StartIsLastPump
  BY DEF SharedInv, StoreInv
<1> QED BY <1>1, SharedInvariance, PTL

(* A row of the minute table holds readings of its minute.                 *)
THEOREM RowsOfTheirMinute == Spec => []RowOfItsMinute
<1>1. SharedInv => RowOfItsMinute
  BY DEF SharedInv, MinuteInv, InMinute, RowOfItsMinute
<1> QED BY <1>1, SharedInvariance, PTL

(* While the process runs, no reading in the store is replaced by an older *)
(* one.                                                                    *)
THEOREM StoreNeverGoesBack == Spec => StoreForward
<1> DEFINE Forward == crashes' = crashes =>
                         /\ storeTs' >= storeTs
                         /\ \A t \in Tag : shown'[t] >= shown[t]
<1>1. SharedInv /\ [Next]_vars => [Forward]_vars
  <2> SUFFICES ASSUME SharedInv, Next
               PROVE  Forward
    BY DEF vars
  <2>1. /\ storeTs \in Nat
        /\ \A t \in Tag : shown[t] \in Nat /\ shown[t] <= storeTs
    BY TimesAreNat DEF SharedInv, StoreInv
  <2>2. CASE UNCHANGED <<storeTs, shown>>
    BY <2>1, <2>2
  <2>3. ASSUME NEW p \in Proc, Answer(p), Accepts(req[p].ts),
               storeTs' = req[p].ts, shown' = Over(shown, ReadingsOf(req[p]))
        PROVE  Forward
    <3>1. req[p].ts \in Nat /\ storeTs < req[p].ts
      BY <2>3, TimesAreNat DEF Accepts, Answer, SharedInv
    <3>2. \A t \in Tag : shown'[t] \in {shown[t], req[p].ts}
      BY <2>3 DEF Over, ReadingsOf
    <3> QED BY <2>1, <2>3, <3>1, <3>2
  <2>4. CASE \E p \in Proc : Answer(p)
    BY <2>2, <2>3, <2>4 DEF Answer, storeVars
  <2>5. CASE Restart
    <3>1. crashes' # crashes
      BY <2>5 DEF Restart, SharedInv, TypeOK
    <3> QED BY <3>1
  <2>6. CASE \E p \in Proc : \/ Send(p) \/ TimeOut(p) \/ Detect(p)
                             \/ Find(p) \/ Commit(p) \/ Fail(p)
    BY <2>2, <2>6 DEF Send, Receive, TimeOut, Detect, Find, Commit, Fail,
                      storeVars
  <2>7. CASE WatchdogDecide \/ WatchdogReset \/ Tick
    BY <2>2, <2>7 DEF WatchdogDecide, WatchdogReset, Tick, storeVars
  <2> QED BY <2>4, <2>5, <2>6, <2>7 DEF Next
<1> QED BY <1>1, SharedInvariance, PTL DEF Spec, StoreForward
=============================================================================
