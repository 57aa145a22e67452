--------------------------- MODULE RealtimeProofs ---------------------------
EXTENDS Realtime, TLAPS

(***************************************************************************)
(* Proofs about Realtime: what holds for any number of requests and        *)
(* viewers, whatever the timestamps and however sends, registrations and   *)
(* failures interleave.                                                    *)
(***************************************************************************)

(* Broadcasts start their sends in the order of their timestamps, and one  *)
(* that has sends to start waits for them.                                 *)
ReadyOk ==
    /\ \A i \in 1 .. Len(ready) : todo[ready[i]] # {} /\ TsOf[ready[i]] <= lastTs
    /\ \A i, j \in 1 .. Len(ready) : i < j => TsOf[ready[i]] < TsOf[ready[j]]
    /\ \A r \in Ingest :
           todo[r] # {} => /\ step[r] = "sending"
                           /\ \E i \in 1 .. Len(ready) : ready[i] = r

(* The frames on their way to a viewer are in order, after what it shows.  *)
LinkOk ==
    \A c \in Client :
        /\ view[c] <= lastTs
        /\ \A i \in 1 .. Len(link[c]) :
               view[c] <= link[c][i] /\ link[c][i] <= lastTs
        /\ \A i, j \in 1 .. Len(link[c]) : i <= j => link[c][i] <= link[c][j]

(* A send that has not started carries a later version than all of them.   *)
TodoOk ==
    \A r \in Ingest : \A c \in todo[r] :
        /\ stream[c] # "off"
        /\ view[c] < TsOf[r]
        /\ \A i \in 1 .. Len(link[c]) : link[c][i] < TsOf[r]

(* The version a viewer will show when nothing more is sent to it.         *)
Shown(c) == IF link[c] = <<>> THEN view[c] ELSE link[c][Len(link[c])]

(* The last tick has reached the transport of a viewer, is yet to be sent  *)
(* to it, or the viewer is about to be removed.                            *)
TickOk ==
    \A c \in connections :
        peer[c] = "there" =>
            \/ Shown(c) = lastTs
            \/ base[c] = lastTs
            \/ \E r \in Ingest : c \in todo[r] /\ TsOf[r] = lastTs
            \/ \E r \in Ingest : c \in failed[r] /\ step[r] = "sending"

IInv == /\ TypeOK /\ ReadyOk /\ LinkOk /\ TodoOk /\ TickOk
        /\ NoGhostSubscriber /\ NoOrphanStream

(* Versions are natural numbers.                                           *)
LEMMA Versions == Version \in SUBSET Nat /\ 0 \in Version
                  /\ \A r \in Ingest : TsOf[r] \in Version /\ TsOf[r] \in Nat
BY TsAssumption DEF Version

LEMMA OneOrMore == \A n \in Nat : n >= 1 /\ n # 1 => n >= 2
OBVIOUS

(* A frame that is handed over keeps the links well typed.                 *)
LEMMA HandsType ==
    ASSUME TypeOK, NEW c \in Client, NEW v \in Version, Hands(c, v)
    PROVE  link' \in [Client -> Seq(Version)]
BY DEF TypeOK, Hands

LEMMA InitType == Init => TypeOK
BY Versions DEF Init, TypeOK, Step, Stream

(* Every step keeps the types.                                             *)
LEMMA NextType == TypeOK /\ [Next]_vars => TypeOK'
<1> SUFFICES ASSUME TypeOK, [Next]_vars PROVE TypeOK'
  OBVIOUS
<1> USE Versions DEF TypeOK, Step, Stream, sendVars, streamVars, GoTo
<1>1. ASSUME NEW r \in Ingest, Receive(r) PROVE TypeOK'
  BY <1>1 DEF Receive
<1>2. ASSUME NEW r \in Ingest, NoUpdate(r) PROVE TypeOK'
  BY <1>2 DEF NoUpdate
<1>3. ASSUME NEW r \in Ingest, Update(r) PROVE TypeOK'
  <2>1. todo' \in [Ingest -> SUBSET Client]
    BY <1>3 DEF Update
  <2>3. Append(ready, r) \in Seq(Ingest)
    OBVIOUS
  <2>4. ready' \in Seq(Ingest)
    BY <1>3, <2>3 DEF Update
  <2>2. step' \in [Ingest -> Step]
    BY <1>3 DEF Update
  <2> QED BY <1>3, <2>1, <2>2, <2>4 DEF Update
<1>4. ASSUME NEW r \in Ingest, NEW c \in Client, StartSend(r, c) PROVE TypeOK'
  <2>1. link' \in [Client -> Seq(Version)]
    BY <1>4, HandsType DEF StartSend
  <2>2. todo' \in [Ingest -> SUBSET Client] /\ ready' \in Seq(Ingest)
    BY <1>4 DEF StartSend, Started
  <2> QED BY <1>4, <2>1, <2>2 DEF StartSend
<1>5. ASSUME NEW r \in Ingest, NEW c \in Client, SendRefused(r, c) PROVE TypeOK'
  BY <1>5 DEF SendRefused, Started
<1>6. ASSUME NEW r \in Ingest, NEW c \in Client, SendOk(r, c) PROVE TypeOK'
  BY <1>6 DEF SendOk
<1>7. ASSUME NEW r \in Ingest, NEW c \in Client, SendTimesOut(r, c) PROVE TypeOK'
  BY <1>7 DEF SendTimesOut
<1>8. ASSUME NEW r \in Ingest, NEW c \in Client, SendErrors(r, c) PROVE TypeOK'
  BY <1>8 DEF SendErrors
<1>9. ASSUME NEW r \in Ingest, Gathered(r) PROVE TypeOK'
  BY <1>9 DEF Gathered
<1>10. ASSUME NEW r \in Ingest, NEW c \in Client, CloseNext(r, c) PROVE TypeOK'
  BY <1>10 DEF CloseNext
<1>11. ASSUME NEW r \in Ingest, Answer(r) PROVE TypeOK'
  BY <1>11 DEF Answer
<1>12. ASSUME NEW c \in Client, Reject(c) PROVE TypeOK'
  BY <1>12 DEF Reject
<1>13. ASSUME NEW c \in Client, SendSnapshot(c) PROVE TypeOK'
  <2>1. link' \in [Client -> Seq(Version)]
    BY <1>13, HandsType DEF SendSnapshot
  <2> QED BY <1>13, <2>1 DEF SendSnapshot
<1>14. ASSUME NEW c \in Client, Register(c) PROVE TypeOK'
  BY <1>14 DEF Register
<1>15. ASSUME NEW c \in Client, SnapshotFails(c) PROVE TypeOK'
  BY <1>15 DEF SnapshotFails, Ends
<1>16. ASSUME NEW c \in Client, ReceiveDisconnect(c) PROVE TypeOK'
  BY <1>16 DEF ReceiveDisconnect, Ends
<1>17. ASSUME NEW c \in Client, Heartbeat(c) PROVE TypeOK'
  BY <1>17 DEF Heartbeat
<1>18. ASSUME NEW c \in Client, PingRefused(c) PROVE TypeOK'
  BY <1>18 DEF PingRefused, Ends
<1>19. ASSUME NEW c \in Client, PingSent(c) PROVE TypeOK'
  BY <1>19 DEF PingSent
<1>20. ASSUME NEW c \in Client, PingFails(c) PROVE TypeOK'
  BY <1>20 DEF PingFails, Ends
<1>21. ASSUME NEW c \in Client, Deliver(c) PROVE TypeOK'
  BY <1>21 DEF Deliver
<1>22. ASSUME NEW c \in Client, Leave(c) PROVE TypeOK'
  BY <1>22 DEF Leave
<1>23. CASE UNCHANGED vars
  BY <1>23 DEF vars
<1> QED
  BY <1>1, <1>2, <1>3, <1>4, <1>5, <1>6, <1>7, <1>8, <1>9, <1>10, <1>11, <1>12,
     <1>13, <1>14, <1>15, <1>16, <1>17, <1>18, <1>19, <1>20, <1>21, <1>22, <1>23
     DEF Next, IngestStep, SendStarts, SendEnds, StreamStep, PingEnds, ClientStep

(* What the steps do to a sequence.                                        *)
LEMMA Appended ==
    ASSUME NEW S, NEW q \in Seq(S), NEW e \in S
    PROVE  /\ Len(Append(q, e)) = Len(q) + 1
           /\ \A i \in 1 .. Len(q) : Append(q, e)[i] = q[i]
           /\ Append(q, e)[Len(q) + 1] = e
OBVIOUS

LEMMA Popped ==
    ASSUME NEW S, NEW q \in Seq(S), q # <<>>
    PROVE  /\ Len(q) \in Nat /\ Len(q) >= 1 /\ Head(q) = q[1] /\ Head(q) \in S
           /\ Len(Tail(q)) = Len(q) - 1
           /\ \A i \in 1 .. Len(q) - 1 : Tail(q)[i] = q[i + 1]
OBVIOUS

(* The registered sockets are being served.                                *)
LEMMA NextGhost == IInv /\ [Next]_vars => NoGhostSubscriber'
<1> SUFFICES ASSUME IInv, [Next]_vars PROVE NoGhostSubscriber'
  OBVIOUS
<1> USE DEF IInv, TypeOK, NoGhostSubscriber, sendVars, streamVars, GoTo
<1>1. ASSUME NEW r \in Ingest, Receive(r) PROVE NoGhostSubscriber'
  BY <1>1 DEF Receive
<1>2. ASSUME NEW r \in Ingest, NoUpdate(r) PROVE NoGhostSubscriber'
  BY <1>2 DEF NoUpdate
<1>3. ASSUME NEW r \in Ingest, Update(r) PROVE NoGhostSubscriber'
  BY <1>3 DEF Update
<1>4. ASSUME NEW r \in Ingest, NEW c \in Client, StartSend(r, c) PROVE NoGhostSubscriber'
  BY <1>4 DEF StartSend, Started
<1>5. ASSUME NEW r \in Ingest, NEW c \in Client, SendRefused(r, c) PROVE NoGhostSubscriber'
  BY <1>5 DEF SendRefused, Started
<1>6. ASSUME NEW r \in Ingest, NEW c \in Client, SendOk(r, c) PROVE NoGhostSubscriber'
  BY <1>6 DEF SendOk
<1>7. ASSUME NEW r \in Ingest, NEW c \in Client, SendTimesOut(r, c) PROVE NoGhostSubscriber'
  BY <1>7 DEF SendTimesOut
<1>8. ASSUME NEW r \in Ingest, NEW c \in Client, SendErrors(r, c) PROVE NoGhostSubscriber'
  BY <1>8 DEF SendErrors
<1>9. ASSUME NEW r \in Ingest, Gathered(r) PROVE NoGhostSubscriber'
  BY <1>9 DEF Gathered
<1>10. ASSUME NEW r \in Ingest, NEW c \in Client, CloseNext(r, c) PROVE NoGhostSubscriber'
  BY <1>10 DEF CloseNext
<1>11. ASSUME NEW r \in Ingest, Answer(r) PROVE NoGhostSubscriber'
  BY <1>11 DEF Answer
<1>12. ASSUME NEW c \in Client, Reject(c) PROVE NoGhostSubscriber'
  BY <1>12 DEF Reject
<1>13. ASSUME NEW c \in Client, SendSnapshot(c) PROVE NoGhostSubscriber'
  BY <1>13 DEF SendSnapshot
<1>14. ASSUME NEW c \in Client, Register(c) PROVE NoGhostSubscriber'
  BY <1>14 DEF Register
<1>15. ASSUME NEW c \in Client, SnapshotFails(c) PROVE NoGhostSubscriber'
  BY <1>15 DEF SnapshotFails, Ends
<1>16. ASSUME NEW c \in Client, ReceiveDisconnect(c) PROVE NoGhostSubscriber'
  BY <1>16 DEF ReceiveDisconnect, Ends
<1>17. ASSUME NEW c \in Client, Heartbeat(c) PROVE NoGhostSubscriber'
  BY <1>17 DEF Heartbeat
<1>18. ASSUME NEW c \in Client, PingRefused(c) PROVE NoGhostSubscriber'
  BY <1>18 DEF PingRefused, Ends
<1>19. ASSUME NEW c \in Client, PingSent(c) PROVE NoGhostSubscriber'
  BY <1>19 DEF PingSent
<1>20. ASSUME NEW c \in Client, PingFails(c) PROVE NoGhostSubscriber'
  BY <1>20 DEF PingFails, Ends
<1>21. ASSUME NEW c \in Client, Deliver(c) PROVE NoGhostSubscriber'
  BY <1>21 DEF Deliver
<1>22. ASSUME NEW c \in Client, Leave(c) PROVE NoGhostSubscriber'
  BY <1>22 DEF Leave
<1>23. CASE UNCHANGED vars
  BY <1>23 DEF vars
<1> QED
  BY <1>1, <1>2, <1>3, <1>4, <1>5, <1>6, <1>7, <1>8, <1>9, <1>10, <1>11,
     <1>12, <1>13, <1>14, <1>15, <1>16, <1>17, <1>18, <1>19, <1>20,
     <1>21, <1>22, <1>23
     DEF Next, IngestStep, SendStarts, SendEnds, StreamStep, PingEnds, ClientStep

(* A discarded socket is closed, or about to be.                            *)
LEMMA NextOrphan == IInv /\ [Next]_vars => NoOrphanStream'
<1> SUFFICES ASSUME IInv, [Next]_vars PROVE NoOrphanStream'
  OBVIOUS
<1> USE DEF IInv, TypeOK, NoOrphanStream, sendVars, streamVars, GoTo
<1>1. ASSUME NEW r \in Ingest, Receive(r) PROVE NoOrphanStream'
  BY <1>1 DEF Receive
<1>2. ASSUME NEW r \in Ingest, NoUpdate(r) PROVE NoOrphanStream'
  BY <1>2 DEF NoUpdate
<1>3. ASSUME NEW r \in Ingest, Update(r) PROVE NoOrphanStream'
  BY <1>3 DEF Update
<1>4. ASSUME NEW r \in Ingest, NEW c \in Client, StartSend(r, c) PROVE NoOrphanStream'
  BY <1>4 DEF StartSend, Started
<1>5. ASSUME NEW r \in Ingest, NEW c \in Client, SendRefused(r, c) PROVE NoOrphanStream'
  BY <1>5 DEF SendRefused, Started
<1>6. ASSUME NEW r \in Ingest, NEW c \in Client, SendOk(r, c) PROVE NoOrphanStream'
  BY <1>6 DEF SendOk
<1>7. ASSUME NEW r \in Ingest, NEW c \in Client, SendTimesOut(r, c) PROVE NoOrphanStream'
  BY <1>7 DEF SendTimesOut
<1>8. ASSUME NEW r \in Ingest, NEW c \in Client, SendErrors(r, c) PROVE NoOrphanStream'
  BY <1>8 DEF SendErrors
<1>9. ASSUME NEW r \in Ingest, Gathered(r) PROVE NoOrphanStream'
  BY <1>9 DEF Gathered
<1>10. ASSUME NEW r \in Ingest, NEW c \in Client, CloseNext(r, c) PROVE NoOrphanStream'
  BY <1>10 DEF CloseNext
<1>11. ASSUME NEW r \in Ingest, Answer(r) PROVE NoOrphanStream'
  BY <1>11 DEF Answer
<1>12. ASSUME NEW c \in Client, Reject(c) PROVE NoOrphanStream'
  BY <1>12 DEF Reject
<1>13. ASSUME NEW c \in Client, SendSnapshot(c) PROVE NoOrphanStream'
  BY <1>13 DEF SendSnapshot
<1>14. ASSUME NEW c \in Client, Register(c) PROVE NoOrphanStream'
  BY <1>14 DEF Register
<1>15. ASSUME NEW c \in Client, SnapshotFails(c) PROVE NoOrphanStream'
  BY <1>15 DEF SnapshotFails, Ends
<1>16. ASSUME NEW c \in Client, ReceiveDisconnect(c) PROVE NoOrphanStream'
  BY <1>16 DEF ReceiveDisconnect, Ends
<1>17. ASSUME NEW c \in Client, Heartbeat(c) PROVE NoOrphanStream'
  BY <1>17 DEF Heartbeat
<1>18. ASSUME NEW c \in Client, PingRefused(c) PROVE NoOrphanStream'
  BY <1>18 DEF PingRefused, Ends
<1>19. ASSUME NEW c \in Client, PingSent(c) PROVE NoOrphanStream'
  BY <1>19 DEF PingSent
<1>20. ASSUME NEW c \in Client, PingFails(c) PROVE NoOrphanStream'
  BY <1>20 DEF PingFails, Ends
<1>21. ASSUME NEW c \in Client, Deliver(c) PROVE NoOrphanStream'
  BY <1>21 DEF Deliver
<1>22. ASSUME NEW c \in Client, Leave(c) PROVE NoOrphanStream'
  BY <1>22 DEF Leave
<1>23. CASE UNCHANGED vars
  BY <1>23 DEF vars
<1> QED
  BY <1>1, <1>2, <1>3, <1>4, <1>5, <1>6, <1>7, <1>8, <1>9, <1>10, <1>11,
     <1>12, <1>13, <1>14, <1>15, <1>16, <1>17, <1>18, <1>19, <1>20,
     <1>21, <1>22, <1>23
     DEF Next, IngestStep, SendStarts, SendEnds, StreamStep, PingEnds, ClientStep

(* The head of the broadcasts starts one of its sends.                     *)
LEMMA StartedReady ==
    ASSUME IInv, NEW r \in Ingest, NEW c \in Client, Started(r, c),
           UNCHANGED <<lastTs, step>>
    PROVE  ReadyOk'
<1> USE DEF IInv, TypeOK
<1>1. /\ ready # <<>> /\ r = Head(ready) /\ c \in todo[r]
      /\ todo' = [todo EXCEPT ![r] = @ \ {c}]
      /\ ready' = IF todo[r] = {c} THEN Tail(ready) ELSE ready
  BY DEF Started
<1>2. /\ Len(ready) \in Nat /\ Len(ready) >= 1 /\ r = ready[1]
      /\ Len(Tail(ready)) = Len(ready) - 1
      /\ \A i \in 1 .. Len(ready) - 1 : Tail(ready)[i] = ready[i + 1]
  BY <1>1, Popped
<1>3. /\ \A i \in 1 .. Len(ready) : ready[i] \in Ingest /\ TsOf[ready[i]] \in Nat
      /\ \A i \in 1 .. Len(ready) : todo[ready[i]] # {} /\ TsOf[ready[i]] <= lastTs
      /\ \A i, j \in 1 .. Len(ready) : i < j => TsOf[ready[i]] < TsOf[ready[j]]
      /\ \A q \in Ingest : todo[q] # {} => /\ step[q] = "sending"
                                          /\ \E i \in 1 .. Len(ready) : ready[i] = q
  <2>1. \A i \in 1 .. Len(ready) : ready[i] \in Ingest
    OBVIOUS
  <2>2. \A i \in 1 .. Len(ready) : TsOf[ready[i]] \in Nat
    BY <2>1, Versions
  <2> QED BY <2>1, <2>2 DEF ReadyOk
<1>4. \A i \in 2 .. Len(ready) : ready[i] # r
  BY <1>2, <1>3
<1>5. CASE todo[r] = {c}
  <2>1. /\ todo'[r] = {} /\ \A q \in Ingest \ {r} : todo'[q] = todo[q]
        /\ ready' = Tail(ready)
    BY <1>1, <1>5
  <2>2. \A i \in 1 .. Len(ready') :
           /\ i + 1 \in 2 .. Len(ready) /\ i + 1 \in 1 .. Len(ready)
           /\ ready'[i] = ready[i + 1]
    BY <1>2, <2>1
  <2>3. \A i \in 1 .. Len(ready') :
           todo'[ready'[i]] # {} /\ TsOf[ready'[i]] <= lastTs'
    <3> SUFFICES ASSUME NEW i \in 1 .. Len(ready')
                 PROVE  todo'[ready'[i]] # {} /\ TsOf[ready'[i]] <= lastTs'
      OBVIOUS
    <3> DEFINE q == ready[i + 1]
    <3>1. ready'[i] = q /\ q # r
      BY <1>4, <2>2
    <3>2. q \in Ingest /\ todo[q] # {} /\ TsOf[q] <= lastTs
      BY <1>3, <2>2
    <3> QED BY <2>1, <3>1, <3>2
  <2>4. \A i, j \in 1 .. Len(ready') : i < j => TsOf[ready'[i]] < TsOf[ready'[j]]
    <3> SUFFICES ASSUME NEW i \in 1 .. Len(ready'), NEW j \in 1 .. Len(ready'), i < j
                 PROVE  TsOf[ready'[i]] < TsOf[ready'[j]]
      OBVIOUS
    <3>1. i + 1 \in 1 .. Len(ready) /\ j + 1 \in 1 .. Len(ready) /\ i + 1 < j + 1
      BY <2>2
    <3> QED BY <3>1, <2>2, <1>3
  <2>5. ASSUME NEW q \in Ingest, todo'[q] # {}
        PROVE  step'[q] = "sending" /\ \E i \in 1 .. Len(ready') : ready'[i] = q
    <3>1. q # r /\ todo[q] # {}
      BY <2>1, <2>5
    <3>2. PICK k \in 1 .. Len(ready) : ready[k] = q
      BY <3>1, <1>3
    <3>3. k # 1
      BY <3>1, <3>2, <1>2
    <3>4. k - 1 \in 1 .. Len(ready') /\ ready'[k - 1] = q
      BY <3>2, <3>3, <1>2, <2>1
    <3> QED BY <3>1, <3>4, <1>3
  <2> QED BY <2>3, <2>4, <2>5 DEF ReadyOk
<1>6. CASE todo[r] # {c}
  <2>1. /\ ready' = ready /\ todo'[r] # {} /\ todo[r] # {}
        /\ \A q \in Ingest \ {r} : todo'[q] = todo[q]
    BY <1>1, <1>6
  <2> QED BY <2>1, <1>3 DEF ReadyOk
<1> QED BY <1>5, <1>6

(* Broadcasts stay in the order of their timestamps.                       *)
LEMMA NextReady == IInv /\ [Next]_vars => ReadyOk'
<1> SUFFICES ASSUME IInv, [Next]_vars PROVE ReadyOk'
  OBVIOUS
<1> USE Versions DEF IInv, TypeOK, ReadyOk, sendVars, streamVars, GoTo
<1>1. ASSUME NEW r \in Ingest, Receive(r) PROVE ReadyOk'
  BY <1>1 DEF Receive
<1>2. ASSUME NEW r \in Ingest, NoUpdate(r) PROVE ReadyOk'
  BY <1>2 DEF NoUpdate
<1>3. ASSUME NEW r \in Ingest, Update(r) PROVE ReadyOk'
  <2>1. CASE connections = {}
    <3>1. /\ lastTs' = TsOf[r] /\ lastTs < TsOf[r] /\ UNCHANGED <<ready, todo>>
          /\ step[r] = "persisting" /\ step' = [step EXCEPT ![r] = "answered"]
      BY <1>3, <2>1 DEF Update, Accepts
    <3>2. todo[r] = {}
      BY <3>1
    <3>3. \A i \in 1 .. Len(ready) : ready[i] \in Ingest
      OBVIOUS
    <3>4. \A i \in 1 .. Len(ready) : TsOf[ready[i]] <= lastTs'
      BY <3>1, <3>3
    <3> QED BY <3>1, <3>2, <3>4
  <2>2. CASE connections # {}
    <3>1. /\ lastTs' = TsOf[r] /\ lastTs < TsOf[r]
          /\ step[r] = "persisting" /\ step' = [step EXCEPT ![r] = "sending"]
          /\ todo' = [todo EXCEPT ![r] = connections]
          /\ ready' = Append(ready, r)
      BY <1>3, <2>2 DEF Update, Accepts
    <3>2. /\ Len(ready') = Len(ready) + 1 /\ ready'[Len(ready) + 1] = r
          /\ \A i \in 1 .. Len(ready) : ready'[i] = ready[i]
      BY <3>1, Appended
    <3>3. \A i \in 1 .. Len(ready) : ready[i] \in Ingest /\ ready[i] # r
      BY <3>1
    <3>4. \A i \in 1 .. Len(ready) : ready'[i] # r /\ TsOf[ready'[i]] <= lastTs
                                     /\ todo'[ready'[i]] # {}
      BY <3>1, <3>2, <3>3
    <3>5. \A i \in 1 .. Len(ready') :
             i \in 1 .. Len(ready) \/ (i = Len(ready) + 1 /\ ready'[i] = r)
      BY <3>2
    <3>6. \A i \in 1 .. Len(ready') :
             todo'[ready'[i]] # {} /\ TsOf[ready'[i]] <= lastTs'
      BY <2>2, <3>1, <3>3, <3>4, <3>5
    <3>7. \A i, j \in 1 .. Len(ready') :
             i < j => TsOf[ready'[i]] < TsOf[ready'[j]]
      BY <3>1, <3>2, <3>3, <3>4, <3>5
    <3>8. \A q \in Ingest : todo'[q] # {} =>
             step'[q] = "sending" /\ \E i \in 1 .. Len(ready') : ready'[i] = q
      <4> SUFFICES ASSUME NEW q \in Ingest, todo'[q] # {}
                   PROVE  step'[q] = "sending" /\ \E i \in 1 .. Len(ready') : ready'[i] = q
        OBVIOUS
      <4>1. CASE q = r
        <5>1. Len(ready) + 1 \in 1 .. Len(ready')
          BY <3>2
        <5> QED BY <4>1, <5>1, <3>1, <3>2
      <4>2. CASE q # r
        <5>1. PICK i \in 1 .. Len(ready) : ready[i] = q
          BY <4>2, <3>1
        <5>2. i \in 1 .. Len(ready') /\ ready'[i] = q
          BY <5>1, <3>2
        <5> QED BY <4>2, <5>2, <3>1
      <4> QED BY <4>1, <4>2
    <3> QED BY <3>6, <3>7, <3>8
  <2> QED BY <2>1, <2>2
<1>4. ASSUME NEW r \in Ingest, NEW c \in Client, StartSend(r, c) PROVE ReadyOk'
  <2>1. Started(r, c) /\ UNCHANGED <<lastTs, step>>
    BY <1>4 DEF StartSend
  <2> QED BY <2>1, StartedReady
<1>5. ASSUME NEW r \in Ingest, NEW c \in Client, SendRefused(r, c) PROVE ReadyOk'
  <2>1. Started(r, c) /\ UNCHANGED <<lastTs, step>>
    BY <1>5 DEF SendRefused
  <2> QED BY <2>1, StartedReady
<1>6. ASSUME NEW r \in Ingest, NEW c \in Client, SendOk(r, c) PROVE ReadyOk'
  BY <1>6 DEF SendOk
<1>7. ASSUME NEW r \in Ingest, NEW c \in Client, SendTimesOut(r, c) PROVE ReadyOk'
  BY <1>7 DEF SendTimesOut
<1>8. ASSUME NEW r \in Ingest, NEW c \in Client, SendErrors(r, c) PROVE ReadyOk'
  BY <1>8 DEF SendErrors
<1>9. ASSUME NEW r \in Ingest, Gathered(r) PROVE ReadyOk'
  BY <1>9 DEF Gathered
<1>10. ASSUME NEW r \in Ingest, NEW c \in Client, CloseNext(r, c) PROVE ReadyOk'
  BY <1>10 DEF CloseNext
<1>11. ASSUME NEW r \in Ingest, Answer(r) PROVE ReadyOk'
  BY <1>11 DEF Answer
<1>12. ASSUME NEW c \in Client, Reject(c) PROVE ReadyOk'
  BY <1>12 DEF Reject
<1>13. ASSUME NEW c \in Client, SendSnapshot(c) PROVE ReadyOk'
  BY <1>13 DEF SendSnapshot
<1>14. ASSUME NEW c \in Client, Register(c) PROVE ReadyOk'
  BY <1>14 DEF Register
<1>15. ASSUME NEW c \in Client, SnapshotFails(c) PROVE ReadyOk'
  BY <1>15 DEF SnapshotFails, Ends
<1>16. ASSUME NEW c \in Client, ReceiveDisconnect(c) PROVE ReadyOk'
  BY <1>16 DEF ReceiveDisconnect, Ends
<1>17. ASSUME NEW c \in Client, Heartbeat(c) PROVE ReadyOk'
  BY <1>17 DEF Heartbeat
<1>18. ASSUME NEW c \in Client, PingRefused(c) PROVE ReadyOk'
  BY <1>18 DEF PingRefused, Ends
<1>19. ASSUME NEW c \in Client, PingSent(c) PROVE ReadyOk'
  BY <1>19 DEF PingSent
<1>20. ASSUME NEW c \in Client, PingFails(c) PROVE ReadyOk'
  BY <1>20 DEF PingFails, Ends
<1>21. ASSUME NEW c \in Client, Deliver(c) PROVE ReadyOk'
  BY <1>21 DEF Deliver
<1>22. ASSUME NEW c \in Client, Leave(c) PROVE ReadyOk'
  BY <1>22 DEF Leave
<1>23. CASE UNCHANGED vars
  BY <1>23 DEF vars
<1> QED
  BY <1>1, <1>2, <1>3, <1>4, <1>5, <1>6, <1>7, <1>8, <1>9, <1>10, <1>11,
     <1>12, <1>13, <1>14, <1>15, <1>16, <1>17, <1>18, <1>19, <1>20,
     <1>21, <1>22, <1>23
     DEF Next, IngestStep, SendStarts, SendEnds, StreamStep, PingEnds, ClientStep

(* The parts of the types the links are about.                             *)
LEMMA LinkTypes ==
    ASSUME TypeOK
    PROVE  /\ lastTs \in Nat
           /\ \A c \in Client : view[c] \in Nat /\ link[c] \in Seq(Version)
           /\ \A c \in Client : Len(link[c]) \in Nat
           /\ \A c \in Client : \A i \in 1 .. Len(link[c]) : link[c][i] \in Nat
<1>1. lastTs \in Nat /\ \A c \in Client : view[c] \in Nat /\ link[c] \in Seq(Version)
  BY Versions DEF TypeOK
<1>2. \A c \in Client : Len(link[c]) \in Nat
  BY <1>1
<1>3. ASSUME NEW c \in Client, NEW i \in 1 .. Len(link[c]) PROVE link[c][i] \in Nat
  <2>1. link[c] \in Seq(Version)
    BY <1>1
  <2>2. link[c][i] \in Version
    BY <2>1
  <2> QED BY <2>2, Versions
<1> QED BY <1>1, <1>2, <1>3

(* A frame that is handed over comes last.                                 *)
LEMMA HandsLink ==
    ASSUME TypeOK, LinkOk, NEW c \in Client, NEW v \in Version, v <= lastTs,
           view[c] <= v, \A i \in 1 .. Len(link[c]) : link[c][i] <= v,
           Hands(c, v), UNCHANGED <<lastTs, view>>
    PROVE  LinkOk'
<1>1. CASE peer[c] = "gone"
  BY <1>1 DEF Hands, LinkOk
<1>2. CASE peer[c] # "gone"
  <2>1. /\ link'[c] = Append(link[c], v)
        /\ \A d \in Client \ {c} : link'[d] = link[d]
    BY <1>2 DEF Hands, TypeOK
  <2>2. link[c] \in Seq(Version) /\ v \in Nat /\ Len(link[c]) \in Nat
    BY LinkTypes, Versions
  <2>3. /\ Len(link'[c]) = Len(link[c]) + 1
        /\ \A i \in 1 .. Len(link[c]) : link'[c][i] = link[c][i]
        /\ link'[c][Len(link[c]) + 1] = v
    BY <2>1, <2>2, Appended
  <2>4. \A i \in 1 .. Len(link'[c]) : i \in 1 .. Len(link[c]) \/ i = Len(link[c]) + 1
    BY <2>2, <2>3
  <2>5. \A i \in 1 .. Len(link'[c]) : view[c] <= link'[c][i] /\ link'[c][i] <= lastTs
    BY <2>3, <2>4 DEF LinkOk
  <2>6. \A i, j \in 1 .. Len(link'[c]) : i <= j => link'[c][i] <= link'[c][j]
    <3> SUFFICES ASSUME NEW i \in 1 .. Len(link'[c]), NEW j \in 1 .. Len(link'[c]),
                        i <= j
                 PROVE  link'[c][i] <= link'[c][j]
      OBVIOUS
    <3>1. CASE j \in 1 .. Len(link[c])
      <4>1. i \in 1 .. Len(link[c])
        BY <3>1, <2>2
      <4> QED BY <4>1, <3>1, <2>3 DEF LinkOk
    <3>2. CASE j = Len(link[c]) + 1
      BY <3>2, <2>2, <2>3, <2>4
    <3> QED BY <3>1, <3>2, <2>4
  <2> QED BY <2>1, <2>5, <2>6 DEF LinkOk
<1> QED BY <1>1, <1>2

(* Reading a frame leaves a shorter link after a newer view.               *)
LEMMA DeliverLink ==
    ASSUME TypeOK, LinkOk, NEW c \in Client, Deliver(c)
    PROVE  /\ LinkOk'
           /\ view[c] <= view'[c] /\ view'[c] <= lastTs
           /\ \A d \in Client \ {c} : link'[d] = link[d] /\ view'[d] = view[d]
           /\ Len(link'[c]) = Len(link[c]) - 1 /\ view'[c] = link[c][1]
           /\ \A i \in 1 .. Len(link'[c]) : i + 1 \in 1 .. Len(link[c])
                                          /\ link'[c][i] = link[c][i + 1]
<1>1. /\ link[c] # <<>> /\ link'[c] = Tail(link[c]) /\ view'[c] = Head(link[c])
      /\ \A d \in Client \ {c} : link'[d] = link[d] /\ view'[d] = view[d]
      /\ lastTs' = lastTs
  BY DEF Deliver, TypeOK
<1>2. /\ Len(link[c]) \in Nat /\ Len(link[c]) >= 1 /\ view'[c] = link[c][1]
      /\ Len(link'[c]) = Len(link[c]) - 1
      /\ \A i \in 1 .. Len(link[c]) - 1 : link'[c][i] = link[c][i + 1]
  BY <1>1, LinkTypes, Popped
<1>3. /\ 1 \in 1 .. Len(link[c])
      /\ \A i \in 1 .. Len(link'[c]) :
             i + 1 \in 1 .. Len(link[c]) /\ link'[c][i] = link[c][i + 1]
  BY <1>2
<1>4. view[c] <= view'[c] /\ view'[c] <= lastTs
  BY <1>2, <1>3 DEF LinkOk
<1>5. \A i \in 1 .. Len(link'[c]) : view'[c] <= link'[c][i] /\ link'[c][i] <= lastTs
  BY <1>2, <1>3 DEF LinkOk
<1>6. ASSUME NEW i \in 1 .. Len(link'[c]), NEW j \in 1 .. Len(link'[c]), i <= j
      PROVE  link'[c][i] <= link'[c][j]
  <2>1. i + 1 <= j + 1 /\ i + 1 \in 1 .. Len(link[c]) /\ j + 1 \in 1 .. Len(link[c])
    BY <1>3, <1>6
  <2> QED BY <2>1, <1>3 DEF LinkOk
<1>7. LinkOk'
  BY <1>1, <1>4, <1>5, <1>6 DEF LinkOk
<1> QED BY <1>1, <1>2, <1>3, <1>4, <1>7

(* A broadcast at the head carries a version the store has had, newer than *)
(* what its viewers have been sent, and older than those behind it.        *)
LEMMA HeadIsNext ==
    ASSUME IInv, NEW r \in Ingest, NEW c \in Client, Started(r, c)
    PROVE  /\ step[r] = "sending" /\ c \in todo[r]
           /\ TsOf[r] \in Version /\ TsOf[r] \in Nat /\ TsOf[r] <= lastTs
           /\ view[c] < TsOf[r]
           /\ \A i \in 1 .. Len(link[c]) : link[c][i] < TsOf[r]
           /\ \A q \in Ingest \ {r} : todo[q] # {} => TsOf[r] < TsOf[q]
<1>1. /\ ready # <<>> /\ r = Head(ready) /\ c \in todo[r] /\ ready \in Seq(Ingest)
  BY DEF Started, IInv, TypeOK
<1>2. Len(ready) \in Nat /\ Len(ready) >= 1 /\ r = ready[1] /\ 1 \in 1 .. Len(ready)
  BY <1>1, Popped
<1>3. step[r] = "sending" /\ TsOf[r] <= lastTs
  BY <1>1, <1>2 DEF IInv, ReadyOk
<1>4. ASSUME NEW q \in Ingest \ {r}, todo[q] # {} PROVE TsOf[r] < TsOf[q]
  <2>1. PICK i \in 1 .. Len(ready) : ready[i] = q
    BY <1>4 DEF IInv, ReadyOk
  <2>2. 1 < i
    BY <2>1, <1>2
  <2> QED BY <2>1, <2>2, <1>2 DEF IInv, ReadyOk
<1> QED BY <1>1, <1>3, <1>4, Versions DEF IInv, TodoOk

(* Frames stay in order.                                                   *)
LEMMA NextLink == IInv /\ [Next]_vars => LinkOk'
<1> SUFFICES ASSUME IInv, [Next]_vars PROVE LinkOk'
  OBVIOUS
<1> USE DEF sendVars, streamVars, GoTo
<1>1. ASSUME NEW r \in Ingest, Receive(r) PROVE LinkOk'
  BY <1>1 DEF IInv, TypeOK, LinkOk, Receive
<1>2. ASSUME NEW r \in Ingest, NoUpdate(r) PROVE LinkOk'
  BY <1>2 DEF IInv, TypeOK, LinkOk, NoUpdate
<1>3. ASSUME NEW r \in Ingest, Update(r) PROVE LinkOk'
  <2>1. lastTs' = TsOf[r] /\ lastTs < TsOf[r] /\ UNCHANGED <<link, view>>
    BY <1>3 DEF IInv, TypeOK, LinkOk, Update, Accepts
  <2>2. TsOf[r] \in Nat /\ lastTs \in Nat
    BY Versions, LinkTypes DEF IInv
  <2>3. \A c \in Client : view[c] <= lastTs' /\ \A i \in 1 .. Len(link[c]) : link[c][i] <= lastTs'
    BY <2>1, <2>2, LinkTypes DEF IInv, LinkOk
  <2> QED BY <2>1, <2>3 DEF IInv, LinkOk
<1>4. ASSUME NEW r \in Ingest, NEW c \in Client, StartSend(r, c) PROVE LinkOk'
  <2>1. Started(r, c) /\ Hands(c, TsOf[r]) /\ UNCHANGED <<lastTs, view>>
    BY <1>4 DEF IInv, TypeOK, LinkOk, StartSend
  <2>2. /\ TsOf[r] \in Version /\ TsOf[r] <= lastTs /\ view[c] <= TsOf[r]
        /\ \A i \in 1 .. Len(link[c]) : link[c][i] <= TsOf[r]
    BY <2>1, HeadIsNext, LinkTypes DEF IInv
  <2> QED BY <2>1, <2>2, HandsLink DEF IInv
<1>5. ASSUME NEW r \in Ingest, NEW c \in Client, SendRefused(r, c) PROVE LinkOk'
  BY <1>5 DEF IInv, TypeOK, LinkOk, SendRefused, Started
<1>6. ASSUME NEW r \in Ingest, NEW c \in Client, SendOk(r, c) PROVE LinkOk'
  BY <1>6 DEF IInv, TypeOK, LinkOk, SendOk
<1>7. ASSUME NEW r \in Ingest, NEW c \in Client, SendTimesOut(r, c) PROVE LinkOk'
  BY <1>7 DEF IInv, TypeOK, LinkOk, SendTimesOut
<1>8. ASSUME NEW r \in Ingest, NEW c \in Client, SendErrors(r, c) PROVE LinkOk'
  BY <1>8 DEF IInv, TypeOK, LinkOk, SendErrors
<1>9. ASSUME NEW r \in Ingest, Gathered(r) PROVE LinkOk'
  BY <1>9 DEF IInv, TypeOK, LinkOk, Gathered
<1>10. ASSUME NEW r \in Ingest, NEW c \in Client, CloseNext(r, c) PROVE LinkOk'
  BY <1>10 DEF IInv, TypeOK, LinkOk, CloseNext
<1>11. ASSUME NEW r \in Ingest, Answer(r) PROVE LinkOk'
  BY <1>11 DEF IInv, TypeOK, LinkOk, Answer
<1>12. ASSUME NEW c \in Client, Reject(c) PROVE LinkOk'
  BY <1>12 DEF IInv, TypeOK, LinkOk, Reject
<1>13. ASSUME NEW c \in Client, SendSnapshot(c) PROVE LinkOk'
  <2>1. Hands(c, lastTs) /\ UNCHANGED <<lastTs, view>> /\ lastTs \in Version
    BY <1>13 DEF IInv, TypeOK, LinkOk, SendSnapshot, IInv, TypeOK
  <2>2. /\ lastTs <= lastTs /\ view[c] <= lastTs
        /\ \A i \in 1 .. Len(link[c]) : link[c][i] <= lastTs
    BY LinkTypes DEF IInv, LinkOk
  <2> QED BY <2>1, <2>2, HandsLink DEF IInv
<1>14. ASSUME NEW c \in Client, Register(c) PROVE LinkOk'
  BY <1>14 DEF IInv, TypeOK, LinkOk, Register
<1>15. ASSUME NEW c \in Client, SnapshotFails(c) PROVE LinkOk'
  BY <1>15 DEF IInv, TypeOK, LinkOk, SnapshotFails, Ends
<1>16. ASSUME NEW c \in Client, ReceiveDisconnect(c) PROVE LinkOk'
  BY <1>16 DEF IInv, TypeOK, LinkOk, ReceiveDisconnect, Ends
<1>17. ASSUME NEW c \in Client, Heartbeat(c) PROVE LinkOk'
  BY <1>17 DEF IInv, TypeOK, LinkOk, Heartbeat
<1>18. ASSUME NEW c \in Client, PingRefused(c) PROVE LinkOk'
  BY <1>18 DEF IInv, TypeOK, LinkOk, PingRefused, Ends
<1>19. ASSUME NEW c \in Client, PingSent(c) PROVE LinkOk'
  BY <1>19 DEF IInv, TypeOK, LinkOk, PingSent
<1>20. ASSUME NEW c \in Client, PingFails(c) PROVE LinkOk'
  BY <1>20 DEF IInv, TypeOK, LinkOk, PingFails, Ends
<1>21. ASSUME NEW c \in Client, Deliver(c) PROVE LinkOk'
  BY <1>21, DeliverLink DEF IInv
<1>22. ASSUME NEW c \in Client, Leave(c) PROVE LinkOk'
  BY <1>22 DEF IInv, TypeOK, LinkOk, Leave
<1>23. CASE UNCHANGED vars
  BY <1>23 DEF IInv, TypeOK, LinkOk, vars
<1> QED
  BY <1>1, <1>2, <1>3, <1>4, <1>5, <1>6, <1>7, <1>8, <1>9, <1>10, <1>11,
     <1>12, <1>13, <1>14, <1>15, <1>16, <1>17, <1>18, <1>19, <1>20,
     <1>21, <1>22, <1>23
     DEF Next, IngestStep, SendStarts, SendEnds, StreamStep, PingEnds, ClientStep

(* What is still to be sent is newer than what was.                        *)
LEMMA NextTodo == IInv /\ [Next]_vars => TodoOk'
<1> SUFFICES ASSUME IInv, [Next]_vars PROVE TodoOk'
  OBVIOUS
<1>1. ASSUME NEW r \in Ingest, Receive(r) PROVE TodoOk'
  BY <1>1 DEF IInv, TypeOK, TodoOk, sendVars, streamVars, Receive
<1>2. ASSUME NEW r \in Ingest, NoUpdate(r) PROVE TodoOk'
  BY <1>2 DEF IInv, TypeOK, TodoOk, sendVars, streamVars, NoUpdate
<1>3. ASSUME NEW r \in Ingest, Update(r) PROVE TodoOk'
  <2>1. CASE connections = {}
    BY <1>3, <2>1 DEF Update, IInv, TodoOk, streamVars
  <2>2. CASE connections # {}
    <3>1. /\ TsOf[r] > lastTs /\ UNCHANGED <<link, view, stream>>
          /\ todo' = [todo EXCEPT ![r] = connections]
      BY <1>3, <2>2 DEF Update, Accepts, streamVars
    <3>2. todo'[r] = connections /\ \A q \in Ingest \ {r} : todo'[q] = todo[q]
      BY <3>1 DEF IInv, TypeOK
    <3>3. ASSUME NEW c \in connections
          PROVE  /\ stream[c] # "off" /\ view[c] < TsOf[r]
                 /\ \A i \in 1 .. Len(link[c]) : link[c][i] < TsOf[r]
      <4>1. c \in Client /\ TsOf[r] \in Nat /\ lastTs \in Nat /\ view[c] \in Nat
            /\ \A i \in 1 .. Len(link[c]) : link[c][i] \in Nat
        BY Versions, LinkTypes DEF IInv, TypeOK
      <4>2. view[c] <= lastTs /\ \A i \in 1 .. Len(link[c]) : link[c][i] <= lastTs
        BY <4>1 DEF IInv, LinkOk
      <4> QED BY <4>1, <4>2, <3>1 DEF IInv, NoGhostSubscriber
    <3> QED BY <3>1, <3>2, <3>3 DEF IInv, TodoOk
  <2> QED BY <2>1, <2>2
<1>4. ASSUME NEW r \in Ingest, NEW c \in Client, StartSend(r, c) PROVE TodoOk'
  <2>1. Started(r, c) /\ Hands(c, TsOf[r]) /\ UNCHANGED <<view, stream>>
    BY <1>4 DEF StartSend, streamVars
  <2>2. /\ TsOf[r] \in Nat
        /\ \A q \in Ingest \ {r} : todo[q] # {} => TsOf[r] < TsOf[q]
    BY <2>1, HeadIsNext
  <2>3. \A q \in Ingest : todo'[q] = IF q = r THEN todo[r] \ {c} ELSE todo[q]
    BY <2>1 DEF Started, IInv, TypeOK
  <2>4. SUFFICES ASSUME NEW q \in Ingest, NEW d \in todo'[q]
                 PROVE  /\ stream[d] # "off" /\ view[d] < TsOf[q]
                        /\ \A i \in 1 .. Len(link'[d]) : link'[d][i] < TsOf[q]
    BY <2>1 DEF TodoOk
  <2>5. /\ d \in todo[q] /\ (q = r => d # c) /\ d \in Client
        /\ stream[d] # "off" /\ view[d] < TsOf[q]
        /\ \A i \in 1 .. Len(link[d]) : link[d][i] < TsOf[q]
    BY <2>3, <2>4 DEF IInv, TypeOK, TodoOk
  <2>6. CASE link'[d] = link[d]
    BY <2>5, <2>6
  <2>7. CASE link'[d] # link[d]
    <3>1. d = c /\ q # r /\ link'[c] = Append(link[c], TsOf[r])
      BY <2>1, <2>5, <2>7 DEF Hands, IInv, TypeOK
    <3>2. TsOf[r] < TsOf[q]
      BY <2>2, <2>5, <3>1
    <3>3. link[c] \in Seq(Version) /\ TsOf[r] \in Version
      BY LinkTypes, Versions DEF IInv
    <3>4. \A i \in 1 .. Len(link'[c]) :
             \/ i \in 1 .. Len(link[c]) /\ link'[c][i] = link[c][i]
             \/ link'[c][i] = TsOf[r]
      BY <3>1, <3>3
    <3> QED BY <2>5, <3>1, <3>2, <3>4
  <2> QED BY <2>6, <2>7
<1>5. ASSUME NEW r \in Ingest, NEW c \in Client, SendRefused(r, c) PROVE TodoOk'
  <2>1. Started(r, c) /\ UNCHANGED <<link, view, stream>>
    BY <1>5 DEF SendRefused, streamVars
  <2>2. \A q \in Ingest : todo'[q] \in SUBSET todo[q]
    BY <2>1 DEF Started, IInv, TypeOK
  <2> QED BY <2>1, <2>2 DEF IInv, TodoOk
<1>6. ASSUME NEW r \in Ingest, NEW c \in Client, SendOk(r, c) PROVE TodoOk'
  BY <1>6 DEF IInv, TypeOK, TodoOk, sendVars, streamVars, SendOk
<1>7. ASSUME NEW r \in Ingest, NEW c \in Client, SendTimesOut(r, c) PROVE TodoOk'
  BY <1>7 DEF IInv, TypeOK, TodoOk, sendVars, streamVars, SendTimesOut
<1>8. ASSUME NEW r \in Ingest, NEW c \in Client, SendErrors(r, c) PROVE TodoOk'
  BY <1>8 DEF IInv, TypeOK, TodoOk, sendVars, streamVars, SendErrors
<1>9. ASSUME NEW r \in Ingest, Gathered(r) PROVE TodoOk'
  BY <1>9 DEF IInv, TypeOK, TodoOk, sendVars, streamVars, Gathered
<1>10. ASSUME NEW r \in Ingest, NEW c \in Client, CloseNext(r, c) PROVE TodoOk'
  BY <1>10 DEF IInv, TypeOK, TodoOk, sendVars, streamVars, CloseNext
<1>11. ASSUME NEW r \in Ingest, Answer(r) PROVE TodoOk'
  BY <1>11 DEF IInv, TypeOK, TodoOk, sendVars, streamVars, Answer
<1>12. ASSUME NEW c \in Client, Reject(c) PROVE TodoOk'
  BY <1>12 DEF IInv, TypeOK, TodoOk, sendVars, streamVars, Reject
<1>13. ASSUME NEW c \in Client, SendSnapshot(c) PROVE TodoOk'
  <2>1. /\ stream[c] = "off" /\ stream' = [stream EXCEPT ![c] = "snapshot"]
        /\ Hands(c, lastTs) /\ UNCHANGED <<view, todo>>
    BY <1>13 DEF SendSnapshot, sendVars
  <2>2. \A d \in Client \ {c} : link'[d] = link[d] /\ stream'[d] = stream[d]
    BY <2>1 DEF Hands, IInv, TypeOK
  <2>3. \A q \in Ingest : c \notin todo[q] /\ todo[q] \in SUBSET Client
    BY <2>1 DEF IInv, TypeOK, TodoOk
  <2> QED BY <2>1, <2>2, <2>3 DEF IInv, TodoOk
<1>14. ASSUME NEW c \in Client, Register(c) PROVE TodoOk'
  BY <1>14 DEF IInv, TypeOK, TodoOk, sendVars, streamVars, Register
<1>15. ASSUME NEW c \in Client, SnapshotFails(c) PROVE TodoOk'
  BY <1>15 DEF IInv, TypeOK, TodoOk, sendVars, streamVars, SnapshotFails, Ends
<1>16. ASSUME NEW c \in Client, ReceiveDisconnect(c) PROVE TodoOk'
  BY <1>16 DEF IInv, TypeOK, TodoOk, sendVars, streamVars, ReceiveDisconnect, Ends
<1>17. ASSUME NEW c \in Client, Heartbeat(c) PROVE TodoOk'
  BY <1>17 DEF IInv, TypeOK, TodoOk, sendVars, streamVars, Heartbeat
<1>18. ASSUME NEW c \in Client, PingRefused(c) PROVE TodoOk'
  BY <1>18 DEF IInv, TypeOK, TodoOk, sendVars, streamVars, PingRefused, Ends
<1>19. ASSUME NEW c \in Client, PingSent(c) PROVE TodoOk'
  BY <1>19 DEF IInv, TypeOK, TodoOk, sendVars, streamVars, PingSent
<1>20. ASSUME NEW c \in Client, PingFails(c) PROVE TodoOk'
  BY <1>20 DEF IInv, TypeOK, TodoOk, sendVars, streamVars, PingFails, Ends
<1>21. ASSUME NEW c \in Client, Deliver(c) PROVE TodoOk'
  <2>1. UNCHANGED <<todo, stream>>
    BY <1>21 DEF Deliver, sendVars, streamVars
  <2>2. /\ \A d \in Client \ {c} : link'[d] = link[d] /\ view'[d] = view[d]
        /\ Len(link'[c]) = Len(link[c]) - 1 /\ view'[c] = link[c][1]
        /\ \A i \in 1 .. Len(link'[c]) : i + 1 \in 1 .. Len(link[c])
                                       /\ link'[c][i] = link[c][i + 1]
    BY <1>21, DeliverLink DEF IInv
  <2>3. 1 \in 1 .. Len(link[c])
    <3>1. link[c] \in Seq(Version) /\ link[c] # <<>>
      BY <1>21, LinkTypes DEF Deliver, IInv
    <3> QED BY <3>1
  <2>4. SUFFICES ASSUME NEW q \in Ingest, NEW d \in todo[q]
                 PROVE  /\ stream[d] # "off" /\ view'[d] < TsOf[q]
                        /\ \A i \in 1 .. Len(link'[d]) : link'[d][i] < TsOf[q]
    BY <2>1 DEF TodoOk
  <2>5. /\ d \in Client /\ stream[d] # "off" /\ view[d] < TsOf[q]
        /\ \A i \in 1 .. Len(link[d]) : link[d][i] < TsOf[q]
    BY DEF IInv, TypeOK, TodoOk
  <2>6. CASE d # c
    BY <2>2, <2>5, <2>6
  <2>7. CASE d = c
    BY <2>2, <2>3, <2>5, <2>7
  <2> QED BY <2>6, <2>7
<1>22. ASSUME NEW c \in Client, Leave(c) PROVE TodoOk'
  BY <1>22 DEF IInv, TypeOK, TodoOk, sendVars, streamVars, Leave
<1>23. CASE UNCHANGED vars
  BY <1>23 DEF IInv, TypeOK, TodoOk, sendVars, streamVars, vars
<1> QED
  BY <1>1, <1>2, <1>3, <1>4, <1>5, <1>6, <1>7, <1>8, <1>9, <1>10, <1>11,
     <1>12, <1>13, <1>14, <1>15, <1>16, <1>17, <1>18, <1>19, <1>20,
     <1>21, <1>22, <1>23
     DEF Next, IngestStep, SendStarts, SendEnds, StreamStep, PingEnds, ClientStep

(* No viewer that stays registered is left behind.                         *)
LEMMA NextTick == IInv /\ [Next]_vars => TickOk'
<1> SUFFICES ASSUME IInv, [Next]_vars PROVE TickOk'
  OBVIOUS
<1>1. ASSUME NEW r \in Ingest, Receive(r) PROVE TickOk'
  <2>1. UNCHANGED <<lastTs, todo, failed, connections, peer, view, link, base>>
    BY <1>1 DEF Receive, sendVars, streamVars
  <2>2. \A q \in Ingest : step[q] = "sending" => step'[q] = "sending"
    BY <1>1 DEF Receive, GoTo, IInv, TypeOK
  <2> QED BY <2>1, <2>2 DEF IInv, TickOk, Shown
<1>2. ASSUME NEW r \in Ingest, NoUpdate(r) PROVE TickOk'
  BY <1>2 DEF IInv, TypeOK, TickOk, Shown, sendVars, streamVars, GoTo, NoUpdate
<1>3. ASSUME NEW r \in Ingest, Update(r) PROVE TickOk'
  <2>1. lastTs' = TsOf[r] /\ UNCHANGED <<connections, peer, view, link, base>>
    BY <1>3 DEF Update, streamVars
  <2>2. \A c \in connections : c \in todo'[r]
    BY <1>3 DEF Update, IInv, TypeOK
  <2> QED BY <2>1, <2>2 DEF TickOk
<1>4. ASSUME NEW r \in Ingest, NEW c \in Client, StartSend(r, c) PROVE TickOk'
  <2>1. /\ Started(r, c) /\ Hands(c, TsOf[r])
        /\ UNCHANGED <<lastTs, step, failed, connections, peer, view, base>>
    BY <1>4 DEF StartSend, streamVars
  <2>2. /\ TsOf[r] \in Nat /\ TsOf[r] \in Version /\ TsOf[r] <= lastTs /\ c \in todo[r]
        /\ view[c] < TsOf[r]
        /\ \A i \in 1 .. Len(link[c]) : link[c][i] < TsOf[r]
        /\ \A q \in Ingest \ {r} : todo[q] # {} => TsOf[r] < TsOf[q]
    BY <2>1, HeadIsNext
  <2>3. \A q \in Ingest : todo'[q] = IF q = r THEN todo[r] \ {c} ELSE todo[q]
    BY <2>1 DEF Started, IInv, TypeOK
  <2>4. SUFFICES ASSUME NEW d \in connections, peer[d] = "there"
                 PROVE  \/ Shown(d)' = lastTs \/ base[d] = lastTs
                        \/ \E q \in Ingest : d \in todo'[q] /\ TsOf[q] = lastTs
                        \/ \E q \in Ingest : d \in failed[q] /\ step[q] = "sending"
    BY <2>1 DEF TickOk
  <2>5. d \in Client
    BY DEF IInv, TypeOK
  <2>6. CASE d # c
    <3>1. link'[d] = link[d]
      BY <2>1, <2>5, <2>6 DEF Hands, IInv, TypeOK
    <3>2. \A q \in Ingest : d \in todo[q] => d \in todo'[q]
      BY <2>3, <2>6
    <3>3. Shown(d)' = Shown(d)
      BY <2>1, <3>1 DEF Shown
    <3> QED BY <2>4, <3>2, <3>3 DEF IInv, TickOk
  <2>7. CASE d = c
    <3>1. link'[c] = Append(link[c], TsOf[r]) /\ link[c] \in Seq(Version)
      BY <2>1, <2>4, <2>7, LinkTypes DEF Hands, IInv, TypeOK
    <3>2. link'[c] # <<>> /\ link'[c][Len(link'[c])] = TsOf[r]
      BY <2>2, <3>1
    <3>3. Shown(c)' = TsOf[r]
      BY <3>2 DEF Shown
    <3>4. CASE TsOf[r] = lastTs
      BY <2>7, <3>3, <3>4
    <3>5. CASE TsOf[r] # lastTs
      <4>1. Shown(c) < TsOf[r]
        <5>1. Len(link[c]) \in Nat /\ (link[c] # <<>> => Len(link[c]) \in 1 .. Len(link[c]))
          BY <3>1
        <5> QED BY <5>1, <2>2 DEF Shown
      <4>2. Shown(c) # lastTs
        BY <4>1, <2>2, LinkTypes DEF IInv
      <4>3. \A q \in Ingest : c \in todo[q] /\ TsOf[q] = lastTs => c \in todo'[q]
        BY <2>3, <3>5
      <4> QED BY <2>4, <2>7, <4>2, <4>3 DEF IInv, TickOk
    <3> QED BY <3>4, <3>5
  <2> QED BY <2>6, <2>7
<1>5. ASSUME NEW r \in Ingest, NEW c \in Client, SendRefused(r, c) PROVE TickOk'
  <2>1. /\ Started(r, c) /\ failed' = [failed EXCEPT ![r] = failed[r] \cup {c}]
        /\ UNCHANGED <<lastTs, step, connections, peer, view, link, base>>
    BY <1>5 DEF SendRefused, streamVars
  <2>2. step[r] = "sending"
    BY <2>1, HeadIsNext
  <2>3. \A q \in Ingest : todo'[q] = IF q = r THEN todo[r] \ {c} ELSE todo[q]
    BY <2>1 DEF Started, IInv, TypeOK
  <2>4. \A q \in Ingest : failed'[q] = IF q = r THEN failed[r] \cup {c} ELSE failed[q]
    BY <2>1 DEF IInv, TypeOK
  <2>5. SUFFICES ASSUME NEW d \in connections, peer[d] = "there"
                 PROVE  \/ Shown(d) = lastTs \/ base[d] = lastTs
                        \/ \E q \in Ingest : d \in todo'[q] /\ TsOf[q] = lastTs
                        \/ \E q \in Ingest : d \in failed'[q] /\ step[q] = "sending"
    BY <2>1 DEF TickOk, Shown
  <2> QED BY <2>2, <2>3, <2>4, <2>5 DEF IInv, TickOk
<1>6. ASSUME NEW r \in Ingest, NEW c \in Client, SendOk(r, c) PROVE TickOk'
  BY <1>6 DEF IInv, TypeOK, TickOk, Shown, sendVars, streamVars, GoTo, SendOk
<1>7. ASSUME NEW r \in Ingest, NEW c \in Client, SendTimesOut(r, c) PROVE TickOk'
  BY <1>7 DEF IInv, TypeOK, TickOk, Shown, sendVars, streamVars, GoTo, SendTimesOut
<1>8. ASSUME NEW r \in Ingest, NEW c \in Client, SendErrors(r, c) PROVE TickOk'
  BY <1>8 DEF IInv, TypeOK, TickOk, Shown, sendVars, streamVars, GoTo, SendErrors
<1>9. ASSUME NEW r \in Ingest, Gathered(r) PROVE TickOk'
  BY <1>9 DEF IInv, TypeOK, TickOk, Shown, sendVars, streamVars, GoTo, Gathered
<1>10. ASSUME NEW r \in Ingest, NEW c \in Client, CloseNext(r, c) PROVE TickOk'
  BY <1>10 DEF IInv, TypeOK, TickOk, Shown, sendVars, streamVars, GoTo, CloseNext
<1>11. ASSUME NEW r \in Ingest, Answer(r) PROVE TickOk'
  BY <1>11 DEF IInv, TypeOK, TickOk, Shown, sendVars, streamVars, GoTo, Answer
<1>12. ASSUME NEW c \in Client, Reject(c) PROVE TickOk'
  BY <1>12 DEF IInv, TypeOK, TickOk, Shown, sendVars, streamVars, GoTo, Reject
<1>13. ASSUME NEW c \in Client, SendSnapshot(c) PROVE TickOk'
  <2>1. /\ stream[c] = "off" /\ Hands(c, lastTs)
        /\ UNCHANGED <<lastTs, step, todo, failed, connections, peer, view, base>>
    BY <1>13 DEF SendSnapshot, sendVars
  <2>2. \A d \in connections : d \in Client /\ d # c /\ link'[d] = link[d]
    BY <2>1 DEF Hands, IInv, TypeOK, NoGhostSubscriber
  <2> QED BY <2>1, <2>2 DEF IInv, TickOk, Shown
<1>14. ASSUME NEW c \in Client, Register(c) PROVE TickOk'
  BY <1>14 DEF IInv, TypeOK, TickOk, Shown, sendVars, streamVars, GoTo, Register
<1>15. ASSUME NEW c \in Client, SnapshotFails(c) PROVE TickOk'
  BY <1>15 DEF IInv, TypeOK, TickOk, Shown, sendVars, streamVars, GoTo, SnapshotFails, Ends
<1>16. ASSUME NEW c \in Client, ReceiveDisconnect(c) PROVE TickOk'
  BY <1>16 DEF IInv, TypeOK, TickOk, Shown, sendVars, streamVars, GoTo, ReceiveDisconnect, Ends
<1>17. ASSUME NEW c \in Client, Heartbeat(c) PROVE TickOk'
  BY <1>17 DEF IInv, TypeOK, TickOk, Shown, sendVars, streamVars, GoTo, Heartbeat
<1>18. ASSUME NEW c \in Client, PingRefused(c) PROVE TickOk'
  BY <1>18 DEF IInv, TypeOK, TickOk, Shown, sendVars, streamVars, GoTo, PingRefused, Ends
<1>19. ASSUME NEW c \in Client, PingSent(c) PROVE TickOk'
  BY <1>19 DEF IInv, TypeOK, TickOk, Shown, sendVars, streamVars, GoTo, PingSent
<1>20. ASSUME NEW c \in Client, PingFails(c) PROVE TickOk'
  BY <1>20 DEF IInv, TypeOK, TickOk, Shown, sendVars, streamVars, GoTo, PingFails, Ends
<1>21. ASSUME NEW c \in Client, Deliver(c) PROVE TickOk'
  <2>1. UNCHANGED <<lastTs, step, todo, failed, connections, peer, base>>
    BY <1>21 DEF Deliver, sendVars, streamVars
  <2>2. link[c] \in Seq(Version) /\ link[c] # <<>> /\ link'[c] = Tail(link[c])
        /\ view'[c] = Head(link[c])
        /\ \A d \in Client \ {c} : link'[d] = link[d] /\ view'[d] = view[d]
    BY <1>21, LinkTypes DEF Deliver, IInv, TypeOK
  <2>3. Shown(c)' = Shown(c)
    <3>1. CASE Len(link[c]) = 1
      BY <2>2, <3>1 DEF Shown
    <3>2. CASE Len(link[c]) # 1
      <4>1. /\ Len(link'[c]) = Len(link[c]) - 1 /\ Len(link[c]) \in Nat
            /\ Len(link[c]) >= 2
            /\ \A i \in 1 .. Len(link[c]) - 1 : link'[c][i] = link[c][i + 1]
        <5>1. Len(link[c]) \in Nat /\ Len(link[c]) >= 1
          BY <2>2
        <5>2. /\ Len(link'[c]) = Len(link[c]) - 1
              /\ \A i \in 1 .. Len(link[c]) - 1 : link'[c][i] = link[c][i + 1]
          BY <2>2, Popped
        <5>3. Len(link[c]) >= 2
          BY <5>1, <3>2, OneOrMore
        <5> QED BY <5>1, <5>2, <5>3
      <4>2. link'[c] # <<>>
        BY <4>1
      <4>3. Len(link'[c]) \in 1 .. Len(link[c]) - 1 /\ Len(link'[c]) + 1 = Len(link[c])
        BY <4>1
      <4>4. link'[c][Len(link'[c])] = link[c][Len(link[c])]
        BY <4>1, <4>3
      <4> QED BY <2>2, <4>2, <4>4 DEF Shown
    <3> QED BY <3>1, <3>2
  <2>4. \A d \in connections : d \in Client /\ Shown(d)' = Shown(d)
    BY <2>2, <2>3 DEF Shown, IInv, TypeOK
  <2> QED BY <2>1, <2>4 DEF IInv, TickOk
<1>22. ASSUME NEW c \in Client, Leave(c) PROVE TickOk'
  BY <1>22 DEF IInv, TypeOK, TickOk, Shown, sendVars, streamVars, GoTo, Leave
<1>23. CASE UNCHANGED vars
  BY <1>23 DEF IInv, TypeOK, TickOk, Shown, sendVars, streamVars, GoTo, vars
<1> QED
  BY <1>1, <1>2, <1>3, <1>4, <1>5, <1>6, <1>7, <1>8, <1>9, <1>10, <1>11,
     <1>12, <1>13, <1>14, <1>15, <1>16, <1>17, <1>18, <1>19, <1>20,
     <1>21, <1>22, <1>23
     DEF Next, IngestStep, SendStarts, SendEnds, StreamStep, PingEnds, ClientStep

-----------------------------------------------------------------------------
(* The invariant as a whole.                                               *)

LEMMA InitInv == Init => IInv
BY InitType, Versions DEF Init, IInv, ReadyOk, LinkOk, TodoOk, TickOk,
   NoGhostSubscriber, NoOrphanStream

LEMMA NextInv == IInv /\ [Next]_vars => IInv'
BY NextType, NextReady, NextLink, NextTodo, NextTick, NextGhost, NextOrphan
   DEF IInv

LEMMA Invariance == Spec => []IInv
BY InitInv, NextInv, PTL DEF Spec

(* The types: for any requests, viewers and timestamps, what the store and *)
(* the manager hold is what the source says they hold.                     *)
THEOREM TypeCorrect == Spec => []TypeOK
<1>1. IInv => TypeOK
  BY DEF IInv
<1> QED BY <1>1, Invariance, PTL

(* A viewer to which nothing is on its way, registered before the last     *)
(* tick, shows it: no broadcast of ws/manager.py skips a registered page.  *)
THEOREM SettledViews == Spec => []SettledViewCurrent
<1>1. IInv => SettledViewCurrent
  BY DEF IInv, TypeOK, TickOk, Shown, SettledViewCurrent, InBroadcast
<1> QED BY <1>1, Invariance, PTL

(* No handler of routers/websocket.py that has returned leaves its socket  *)
(* in the manager.                                                         *)
THEOREM NoGhosts == Spec => []NoGhostSubscriber
<1>1. IInv => NoGhostSubscriber
  BY DEF IInv
<1> QED BY <1>1, Invariance, PTL

(* No page that a broadcast of ws/manager.py discarded stays open.         *)
THEOREM NoOrphans == Spec => []NoOrphanStream
<1>1. IInv => NoOrphanStream
  BY DEF IInv
<1> QED BY <1>1, Invariance, PTL

-----------------------------------------------------------------------------
(* The refinement.                                                         *)

LEMMA InitReplica == Init => Replica!Init
BY DEF Init, Replica!Init

LEMMA NextReplica == IInv /\ [Next]_vars => [Replica!Next]_(Replica!vars)
<1> SUFFICES ASSUME IInv, [Next]_vars PROVE [Replica!Next]_(Replica!vars)
  OBVIOUS
<1> USE DEF Replica!vars
<1>1. ASSUME NEW r \in Ingest, Update(r) PROVE [Replica!Next]_(Replica!vars)
  <2>1. lastTs' \in Nat /\ lastTs' > lastTs /\ UNCHANGED view
    BY <1>1, Versions DEF Update, Accepts
  <2> QED BY <2>1 DEF Replica!Next, Replica!Publish
<1>2. ASSUME NEW c \in Client, Deliver(c) PROVE [Replica!Next]_(Replica!vars)
  <2>1. UNCHANGED lastTs /\ view' \in [Client -> Version]
    BY <1>2, NextType DEF IInv, TypeOK, Deliver
  <2>2. view' \in [Client -> Nat]
    BY <2>1, Versions
  <2>3. /\ link[c] \in Seq(Version) /\ link[c] # <<>> /\ view'[c] = link[c][1]
        /\ \A d \in Client \ {c} : view'[d] = view[d]
    BY <1>2 DEF Deliver, IInv, TypeOK
  <2>4. 1 \in 1 .. Len(link[c])
    BY <2>3
  <2>5. view[c] <= view'[c] /\ view'[c] <= lastTs
    BY <2>3, <2>4 DEF IInv, LinkOk
  <2>6. Replica!CatchUp(c)
    BY <2>1, <2>2, <2>3, <2>5 DEF Replica!CatchUp
  <2> QED BY <2>6 DEF Replica!Next
<1>3. CASE UNCHANGED <<lastTs, view>>
  BY <1>3
<1>4. ASSUME NEW r \in Ingest, IngestStep(r), ~ Update(r)
      PROVE  UNCHANGED <<lastTs, view>>
  BY <1>4 DEF IngestStep, SendStarts, SendEnds, Receive, NoUpdate, StartSend,
     SendRefused, SendOk, SendTimesOut, SendErrors, Gathered, CloseNext, Answer
<1>5. ASSUME NEW c \in Client, StreamStep(c)
      PROVE  UNCHANGED <<lastTs, view>>
  BY <1>5 DEF StreamStep, PingEnds, Reject, SendSnapshot, Register,
     SnapshotFails, ReceiveDisconnect, Heartbeat, PingRefused, PingSent,
     PingFails, Ends
<1>6. ASSUME NEW c \in Client, Leave(c) PROVE UNCHANGED <<lastTs, view>>
  BY <1>6 DEF Leave
<1>7. CASE UNCHANGED vars
  BY <1>7 DEF vars
<1> QED BY <1>1, <1>2, <1>3, <1>4, <1>5, <1>6, <1>7 DEF Next, ClientStep

(* Whatever the number of requests and viewers and however sends, slow     *)
(* transports and failures interleave, no viewer goes back to an older     *)
(* state, and none shows a state the store never had.                      *)
THEOREM Refinement == Spec => ImplementsReplica
BY InitReplica, NextReplica, Invariance, PTL
   DEF Spec, ImplementsReplica, Replica!Spec
=============================================================================
