---------------------------- MODULE UploadProofs ----------------------------
EXTENDS Upload, TLAPS

(***************************************************************************)
(* Proofs about Upload: what holds for any manifests, sizes, requests and  *)
(* interleavings, whatever times out and whenever the process dies.        *)
(***************************************************************************)

Waiting == {"body", "closing"}

Putting == {"queued", "blocked"} \cup Waiting

(* A request is where its kind takes it.                                   *)
AskOk ==
    \A r \in Request :
        /\ at[r] # "idle" => asks[r] \in Asks
        /\ at[r] = "checked" => /\ asks[r].kind = "register"
                                /\ Valid(asks[r].manifest, asks[r].node)
        /\ at[r] \in Putting => asks[r].kind = "put"
        /\ at[r] \in {"completing", "completes"} => asks[r].kind = "complete"

(* A request is answered at its end, and its session ended once it is on.  *)
ReplyOk ==
    \A r \in Request :
        /\ at[r] \notin {"closing", "answered"} => reply[r] = "none"
        /\ at[r] = "idle" => r \notin killed

(* A row holds a manifest that was valid.                                  *)
RowsOk ==
    \A i \in Id : row[i] # NoOne =>
        row[i].total = TotalParts(row[i].size, row[i].partSize)

(* A confirmed part is the one of its number in the manifest.              *)
PartsOk ==
    \A i \in Id : \A p \in parts[i] :
        /\ row[i] # NoOne /\ p.number \in 1 .. row[i].total
        /\ p.offset = Offset(row[i], p.number) /\ p.length = Length(row[i], p.number)
        /\ \A q \in parts[i] : q.number = p.number => q = p

(* A PUT at work is of a registered transfer, and waits for the body of a  *)
(* part of its manifest.                                                   *)
WaitOk ==
    \A r \in Request :
        /\ at[r] \in {"blocked"} \cup Waiting => row[asks[r].id] # NoOne
        /\ at[r] = "body" => PartAsAnnounced(asks[r])

(* A request that waits for its body has the lock, unless its session was  *)
(* ended, and while it has it nobody else confirms the part.               *)
HoldOk ==
    \A r \in Request : at[r] = "body" /\ r \notin killed =>
        /\ lock[asks[r].id] = r
        /\ \A p \in parts[asks[r].id] : p.number # asks[r].number

IInv == /\ TypeOK /\ AskOk /\ ReplyOk /\ RowsOk /\ RegistrationSound
        /\ PartsOk /\ WaitOk /\ HoldOk /\ ConfirmedPartKept

-----------------------------------------------------------------------------
(* A request that is not idle asks something sound.                        *)
LEMMA AskFacts ==
    ASSUME NEW ask \in Asks
    PROVE  /\ ask # NoOne
           /\ ask.kind = "register" => ask.manifest \in Manifests /\ ask.manifest.id \in Id
           /\ ask.kind # "register" => ask.id \in Id
           /\ ask.kind = "put" => /\ ask.number \in Int /\ ask.digest \in Digest
                                 /\ ask.length \in Nat \ {0}
  BY AskAssumption, NoOneAssumption DEF Id

(* What a PUT with the lock of a row knows of its part.                    *)
LEMMA PutFacts ==
    ASSUME IInv, NEW r \in Request, at[r] \in {"blocked", "body"}
    PROVE  /\ asks[r] \in Asks /\ asks[r].kind = "put"
           /\ asks[r].id \in Id /\ asks[r].digest \in Digest
           /\ row[asks[r].id] \in Manifests /\ row[asks[r].id] # NoOne
           /\ row[asks[r].id].total \in PartNumber
           /\ PartAsAnnounced(asks[r]) =>
                 /\ asks[r].number \in 1 .. row[asks[r].id].total
                 /\ asks[r].number \in PartNumber
                 /\ PartOf(asks[r]) \in PartType
<1> DEFINE ask == asks[r]   m == row[ask.id]
<1>1. ask \in Asks /\ ask.kind = "put"
  BY DEF IInv, AskOk, Putting, Waiting
<1>2. /\ ask.id \in Id /\ ask.digest \in Digest
      /\ ask.number \in Int /\ ask.length \in Nat \ {0}
  BY <1>1, AskFacts
<1>3. m \in Manifests /\ m # NoOne /\ m.total \in PartNumber
  BY <1>2 DEF IInv, TypeOK, WaitOk, Waiting
<1>4. ASSUME PartAsAnnounced(ask)
      PROVE  /\ ask.number \in 1 .. m.total /\ ask.number \in PartNumber
             /\ PartOf(ask) \in PartType
  <2>1. ask.number \in 1 .. m.total /\ ask.number \in PartNumber
    BY <1>2, <1>3, <1>4, NoOneAssumption DEF PartAsAnnounced, PartNumber
  <2>2. Offset(m, ask.number) \in Nat
    <3>1. ask.number - 1 \in Nat /\ m.partSize \in Nat
      BY <2>1, <1>3, ManifestAssumption, NoOneAssumption DEF PartNumber
    <3>2. \A a, b \in Nat : a * b \in Nat
      OBVIOUS
    <3> QED BY <3>1, <3>2 DEF Offset
  <2> QED BY <1>2, <2>1, <2>2 DEF PartOf, PartType, PartNumber
<1> QED BY <1>1, <1>2, <1>3, <1>4

(* A registration has a manifest.                                          *)
LEMMA InsertFacts ==
    ASSUME IInv, NEW r \in Request, at[r] = "checked"
    PROVE  /\ asks[r] \in Asks /\ asks[r].kind = "register"
           /\ asks[r].manifest \in Manifests /\ asks[r].manifest.id \in Id
           /\ asks[r].manifest # NoOne
           /\ asks[r].manifest.total \in PartNumber
           /\ asks[r].manifest.total
                 = TotalParts(asks[r].manifest.size, asks[r].manifest.partSize)
           /\ Candidates(asks[r].manifest) = {} => row[asks[r].manifest.id] = NoOne
<1>1. asks[r] \in Asks /\ asks[r].kind = "register" /\ Valid(asks[r].manifest, asks[r].node)
  BY DEF IInv, AskOk
<1>2. asks[r].manifest \in Manifests /\ asks[r].manifest.id \in Id
  BY <1>1, AskFacts
<1>3. Candidates(asks[r].manifest) = {} => row[asks[r].manifest.id] = NoOne
  BY <1>2 DEF Candidates
<1> QED BY <1>1, <1>2, <1>3, ManifestAssumption, NoOneAssumption DEF Valid, PartNumber

(* The rows that share an identity with a manifest are its candidates.     *)
LEMMA CandidatesShare ==
    ASSUME TypeOK, NEW m
    PROVE  Candidates(m) = {i \in Id : row[i] # NoOne /\ SameIdentity(row[i], m)}
  BY DEF TypeOK, Candidates, SameIdentity

(* What is answered to a manifest.                                         *)
LEMMA MatchFacts ==
    ASSUME TypeOK, NEW m
    PROVE  /\ Match(m) \in {"none", "existing", "conflict"}
           /\ Match(m) = "none" <=> Candidates(m) = {}
           /\ Match(m) = "existing" => row[m.id] = m
           /\ Match(m) = "conflict" =>
                 \E i \in Id : row[i] # NoOne /\ row[i] # m /\ SameIdentity(row[i], m)
<1>1. /\ Match(m) \in {"none", "existing", "conflict"}
      /\ Match(m) = "none" <=> Candidates(m) = {}
      /\ Match(m) = "existing" => row[m.id] = m
  BY DEF Match
<1>2. ASSUME Match(m) = "conflict"
      PROVE  \E i \in Candidates(m) : row[i] # m
  <2>1. Candidates(m) # {} /\ ~ (Candidates(m) = {m.id} /\ row[m.id] = m)
    BY <1>2 DEF Match
  <2>2. PICK i \in Candidates(m) : i # m.id \/ row[m.id] # m
    BY <2>1
  <2> QED BY <2>2 DEF TypeOK, Candidates
<1> QED BY <1>1, <1>2, CandidatesShare

-----------------------------------------------------------------------------
(* The parts of a step.                                                    *)

(* The types.                                                              *)
LEMMA NextTypes == IInv /\ [Next]_vars => TypeOK'
<1> SUFFICES ASSUME IInv, [Next]_vars PROVE TypeOK'
  OBVIOUS
<1> USE DEF IInv, TypeOK, At, Reply, GoTo, Answers, dbVars
<1>1. ASSUME NEW r \in Request, NEW ask \in Asks, Register(r, ask) PROVE TypeOK'
  <2>1. Match(ask.manifest) \in Reply
    BY DEF Match
  <2> QED BY <1>1, <2>1 DEF Register
<1>2. ASSUME NEW r \in Request, Insert(r) PROVE TypeOK'
  <2>1. Match(asks[r].manifest) \in Reply
    BY DEF Match
  <2> DEFINE m == asks[r].manifest
  <2>2. m \in Manifests /\ m # NoOne /\ m.id \in Id /\ m.total \in PartNumber
    BY <1>2, InsertFacts DEF Insert
  <2>3. row' = row \/ row' = [row EXCEPT ![m.id] = m]
    BY <1>2 DEF Insert
  <2> HIDE DEF m
  <2>4. row' \in [Id -> Manifests \cup {NoOne}]
    BY <2>2, <2>3
  <2>5. \A i \in Id : row'[i] # NoOne => row'[i].id = i /\ row'[i].total \in PartNumber
    BY <2>2, <2>3
  <2> QED BY <1>2, <2>1, <2>2, <2>4, <2>5 DEF Insert, m
<1>3. ASSUME NEW r \in Request, ThreadFails(r) PROVE TypeOK'
  BY <1>3 DEF ThreadFails, Releases
<1>4. ASSUME NEW r \in Request, NEW ask \in Asks, Put(r, ask) PROVE TypeOK'
  BY <1>4 DEF Put
<1>5. ASSUME NEW r \in Request, PutStart(r) PROVE TypeOK'
  BY <1>5 DEF PutStart
<1>6. ASSUME NEW r \in Request, PutLockTimeout(r) PROVE TypeOK'
  BY <1>6 DEF PutLockTimeout
<1>7. ASSUME NEW r \in Request, PutRefused(r) PROVE TypeOK'
  BY <1>7 DEF PutRefused, Locked
<1>8. ASSUME NEW r \in Request, PutAlready(r) PROVE TypeOK'
  BY <1>8 DEF PutAlready, Locked
<1>9. ASSUME NEW r \in Request, PutConflict(r) PROVE TypeOK'
  BY <1>9 DEF PutConflict, Locked
<1>10. ASSUME NEW r \in Request, PutAdopts(r) PROVE TypeOK'
  <2>1. PartOf(asks[r]) \in PartType
    BY <1>10, PutFacts DEF PutAdopts, Locked
  <2> QED BY <1>10, <2>1 DEF PutAdopts, Locked
<1>11. ASSUME NEW r \in Request, PutWaits(r) PROVE TypeOK'
  BY <1>11 DEF PutWaits, Locked
<1>12. ASSUME NEW r \in Request, BodyFails(r) PROVE TypeOK'
  BY <1>12 DEF BodyFails, Releases
<1>13. ASSUME NEW r \in Request, BodyArrives(r) PROVE TypeOK'
  <2>1. asks[r].digest \in Digest /\ (at[r] = "body" => PartOf(asks[r]) \in PartType)
    BY <1>13, PutFacts DEF BodyArrives, WaitOk
  <2>2. file' \in [Id -> [PartNumber -> Digest \cup {NoOne}]]
    BY <1>13, <2>1 DEF BodyArrives
  <2>3. parts' \in [Id -> SUBSET PartType]
    BY <1>13, <2>1 DEF BodyArrives
  <2> QED BY <1>13, <2>2, <2>3 DEF BodyArrives, Releases
<1>14. ASSUME NEW r \in Request, Close(r) PROVE TypeOK'
  BY <1>14 DEF Close, Releases
<1>15. ASSUME NEW r \in Request, IdleTimeout(r) PROVE TypeOK'
  BY <1>15 DEF IdleTimeout, Releases
<1>16. ASSUME NEW r \in Request, NEW ask \in Asks, Complete(r, ask) PROVE TypeOK'
  BY <1>16 DEF Complete
<1>17. ASSUME NEW r \in Request, CompleteLock(r) PROVE TypeOK'
  BY <1>17 DEF CompleteLock
<1>18. ASSUME NEW r \in Request, CompleteEnds(r) PROVE TypeOK'
  BY <1>18 DEF CompleteEnds, Releases
<1>19. CASE Crash
  BY <1>19 DEF Crash
<1>20. CASE UNCHANGED vars
  BY <1>20 DEF vars
<1> QED
  BY <1>1, <1>2, <1>3, <1>4, <1>5, <1>6, <1>7, <1>8, <1>9, <1>10, <1>11,
     <1>12, <1>13, <1>14, <1>15, <1>16, <1>17, <1>18, <1>19, <1>20
     DEF Next, Arrives, PutUnblocks, Body

(* Requests keep to the way of their kind.                                 *)
LEMMA NextAsk == IInv /\ [Next]_vars => AskOk'
<1> SUFFICES ASSUME IInv, [Next]_vars PROVE AskOk'
  OBVIOUS
<1> USE DEF IInv, TypeOK, At, Reply, GoTo, Answers, dbVars, AskOk, Putting, Waiting
<1>1. ASSUME NEW r \in Request, NEW ask \in Asks, Register(r, ask) PROVE AskOk'
  BY <1>1 DEF Register
<1>2. ASSUME NEW r \in Request, Insert(r) PROVE AskOk'
  BY <1>2 DEF Insert
<1>3. ASSUME NEW r \in Request, ThreadFails(r) PROVE AskOk'
  BY <1>3 DEF ThreadFails
<1>4. ASSUME NEW r \in Request, NEW ask \in Asks, Put(r, ask) PROVE AskOk'
  BY <1>4 DEF Put
<1>5. ASSUME NEW r \in Request, PutStart(r) PROVE AskOk'
  BY <1>5 DEF PutStart
<1>6. ASSUME NEW r \in Request, PutLockTimeout(r) PROVE AskOk'
  BY <1>6 DEF PutLockTimeout
<1>7. ASSUME NEW r \in Request, PutRefused(r) PROVE AskOk'
  BY <1>7 DEF PutRefused, Locked
<1>8. ASSUME NEW r \in Request, PutAlready(r) PROVE AskOk'
  BY <1>8 DEF PutAlready, Locked
<1>9. ASSUME NEW r \in Request, PutConflict(r) PROVE AskOk'
  BY <1>9 DEF PutConflict, Locked
<1>10. ASSUME NEW r \in Request, PutAdopts(r) PROVE AskOk'
  BY <1>10 DEF PutAdopts, Locked
<1>11. ASSUME NEW r \in Request, PutWaits(r) PROVE AskOk'
  BY <1>11 DEF PutWaits, Locked
<1>12. ASSUME NEW r \in Request, BodyFails(r) PROVE AskOk'
  BY <1>12 DEF BodyFails
<1>13. ASSUME NEW r \in Request, BodyArrives(r) PROVE AskOk'
  BY <1>13 DEF BodyArrives
<1>14. ASSUME NEW r \in Request, Close(r) PROVE AskOk'
  BY <1>14 DEF Close
<1>15. ASSUME NEW r \in Request, IdleTimeout(r) PROVE AskOk'
  BY <1>15 DEF IdleTimeout
<1>16. ASSUME NEW r \in Request, NEW ask \in Asks, Complete(r, ask) PROVE AskOk'
  BY <1>16 DEF Complete
<1>17. ASSUME NEW r \in Request, CompleteLock(r) PROVE AskOk'
  BY <1>17 DEF CompleteLock
<1>18. ASSUME NEW r \in Request, CompleteEnds(r) PROVE AskOk'
  BY <1>18 DEF CompleteEnds
<1>19. CASE Crash
  BY <1>19 DEF Crash
<1>20. CASE UNCHANGED vars
  BY <1>20 DEF vars
<1> QED
  BY <1>1, <1>2, <1>3, <1>4, <1>5, <1>6, <1>7, <1>8, <1>9, <1>10, <1>11,
     <1>12, <1>13, <1>14, <1>15, <1>16, <1>17, <1>18, <1>19, <1>20
     DEF Next, Arrives, PutUnblocks, Body

(* Requests are answered at their end.                                     *)
LEMMA NextReply == IInv /\ [Next]_vars => ReplyOk'
<1> SUFFICES ASSUME IInv, [Next]_vars PROVE ReplyOk'
  OBVIOUS
<1> USE DEF IInv, TypeOK, At, Reply, GoTo, Answers, dbVars, ReplyOk, Match
<1>1. ASSUME NEW r \in Request, NEW ask \in Asks, Register(r, ask) PROVE ReplyOk'
  BY <1>1 DEF Register
<1>2. ASSUME NEW r \in Request, Insert(r) PROVE ReplyOk'
  BY <1>2 DEF Insert
<1>3. ASSUME NEW r \in Request, ThreadFails(r) PROVE ReplyOk'
  BY <1>3 DEF ThreadFails
<1>4. ASSUME NEW r \in Request, NEW ask \in Asks, Put(r, ask) PROVE ReplyOk'
  BY <1>4 DEF Put
<1>5. ASSUME NEW r \in Request, PutStart(r) PROVE ReplyOk'
  BY <1>5 DEF PutStart
<1>6. ASSUME NEW r \in Request, PutLockTimeout(r) PROVE ReplyOk'
  BY <1>6 DEF PutLockTimeout
<1>7. ASSUME NEW r \in Request, PutRefused(r) PROVE ReplyOk'
  BY <1>7 DEF PutRefused, Locked
<1>8. ASSUME NEW r \in Request, PutAlready(r) PROVE ReplyOk'
  BY <1>8 DEF PutAlready, Locked
<1>9. ASSUME NEW r \in Request, PutConflict(r) PROVE ReplyOk'
  BY <1>9 DEF PutConflict, Locked
<1>10. ASSUME NEW r \in Request, PutAdopts(r) PROVE ReplyOk'
  BY <1>10 DEF PutAdopts, Locked
<1>11. ASSUME NEW r \in Request, PutWaits(r) PROVE ReplyOk'
  BY <1>11 DEF PutWaits, Locked
<1>12. ASSUME NEW r \in Request, BodyFails(r) PROVE ReplyOk'
  BY <1>12 DEF BodyFails
<1>13. ASSUME NEW r \in Request, BodyArrives(r) PROVE ReplyOk'
  BY <1>13 DEF BodyArrives
<1>14. ASSUME NEW r \in Request, Close(r) PROVE ReplyOk'
  BY <1>14 DEF Close
<1>15. ASSUME NEW r \in Request, IdleTimeout(r) PROVE ReplyOk'
  BY <1>15 DEF IdleTimeout
<1>16. ASSUME NEW r \in Request, NEW ask \in Asks, Complete(r, ask) PROVE ReplyOk'
  BY <1>16 DEF Complete
<1>17. ASSUME NEW r \in Request, CompleteLock(r) PROVE ReplyOk'
  BY <1>17 DEF CompleteLock
<1>18. ASSUME NEW r \in Request, CompleteEnds(r) PROVE ReplyOk'
  BY <1>18 DEF CompleteEnds
<1>19. CASE Crash
  BY <1>19 DEF Crash
<1>20. CASE UNCHANGED vars
  BY <1>20 DEF vars
<1> QED
  BY <1>1, <1>2, <1>3, <1>4, <1>5, <1>6, <1>7, <1>8, <1>9, <1>10, <1>11,
     <1>12, <1>13, <1>14, <1>15, <1>16, <1>17, <1>18, <1>19, <1>20
     DEF Next, Arrives, PutUnblocks, Body

(* Rows are of valid manifests.                                            *)
LEMMA NextRows == IInv /\ [Next]_vars => RowsOk'
<1> SUFFICES ASSUME IInv, [Next]_vars PROVE RowsOk'
  OBVIOUS
<1> USE DEF IInv, TypeOK, At, Reply, GoTo, Answers, dbVars, RowsOk
<1>1. ASSUME NEW r \in Request, NEW ask \in Asks, Register(r, ask) PROVE RowsOk'
  BY <1>1 DEF Register
<1>2. ASSUME NEW r \in Request, Insert(r) PROVE RowsOk'
  <2> DEFINE m == asks[r].manifest
  <2>1. m.total = TotalParts(m.size, m.partSize)
    BY <1>2 DEF Insert, AskOk, Valid
  <2> QED BY <1>2, <2>1 DEF Insert
<1>3. ASSUME NEW r \in Request, ThreadFails(r) PROVE RowsOk'
  BY <1>3 DEF ThreadFails
<1>4. ASSUME NEW r \in Request, NEW ask \in Asks, Put(r, ask) PROVE RowsOk'
  BY <1>4 DEF Put
<1>5. ASSUME NEW r \in Request, PutStart(r) PROVE RowsOk'
  BY <1>5 DEF PutStart
<1>6. ASSUME NEW r \in Request, PutLockTimeout(r) PROVE RowsOk'
  BY <1>6 DEF PutLockTimeout
<1>7. ASSUME NEW r \in Request, PutRefused(r) PROVE RowsOk'
  BY <1>7 DEF PutRefused, Locked
<1>8. ASSUME NEW r \in Request, PutAlready(r) PROVE RowsOk'
  BY <1>8 DEF PutAlready, Locked
<1>9. ASSUME NEW r \in Request, PutConflict(r) PROVE RowsOk'
  BY <1>9 DEF PutConflict, Locked
<1>10. ASSUME NEW r \in Request, PutAdopts(r) PROVE RowsOk'
  BY <1>10 DEF PutAdopts, Locked
<1>11. ASSUME NEW r \in Request, PutWaits(r) PROVE RowsOk'
  BY <1>11 DEF PutWaits, Locked
<1>12. ASSUME NEW r \in Request, BodyFails(r) PROVE RowsOk'
  BY <1>12 DEF BodyFails
<1>13. ASSUME NEW r \in Request, BodyArrives(r) PROVE RowsOk'
  BY <1>13 DEF BodyArrives
<1>14. ASSUME NEW r \in Request, Close(r) PROVE RowsOk'
  BY <1>14 DEF Close
<1>15. ASSUME NEW r \in Request, IdleTimeout(r) PROVE RowsOk'
  BY <1>15 DEF IdleTimeout
<1>16. ASSUME NEW r \in Request, NEW ask \in Asks, Complete(r, ask) PROVE RowsOk'
  BY <1>16 DEF Complete
<1>17. ASSUME NEW r \in Request, CompleteLock(r) PROVE RowsOk'
  BY <1>17 DEF CompleteLock
<1>18. ASSUME NEW r \in Request, CompleteEnds(r) PROVE RowsOk'
  BY <1>18 DEF CompleteEnds
<1>19. CASE Crash
  BY <1>19 DEF Crash
<1>20. CASE UNCHANGED vars
  BY <1>20 DEF vars
<1> QED
  BY <1>1, <1>2, <1>3, <1>4, <1>5, <1>6, <1>7, <1>8, <1>9, <1>10, <1>11,
     <1>12, <1>13, <1>14, <1>15, <1>16, <1>17, <1>18, <1>19, <1>20
     DEF Next, Arrives, PutUnblocks, Body

(* Registrations stay true of the table.                                   *)
LEMMA NextRegistration == IInv /\ [Next]_vars => RegistrationSound'
<1> SUFFICES ASSUME IInv, [Next]_vars PROVE RegistrationSound'
  OBVIOUS
<1> USE DEF IInv, TypeOK, At, Reply, GoTo, Answers, dbVars, Registers, RegistrationSound
<1>1. ASSUME NEW r \in Request, NEW ask \in Asks, Register(r, ask) PROVE RegistrationSound'
  <2> DEFINE m == ask.manifest
  <2>1. ask \in Asks /\ ask # NoOne /\ ask.kind = "register" /\ reply[r] = "none"
    BY <1>1, AskFacts DEF Register, ReplyOk
  <2>2. reply'[r] \in {"none", "refused"} \/ (reply'[r] = Match(m) /\ Match(m) # "none")
    BY <1>1, <2>1 DEF Register
  <2>3. /\ reply'[r] \in {"none", "refused", "existing", "conflict"}
        /\ reply'[r] = "existing" => row[m.id] = m
        /\ reply'[r] = "conflict" =>
              \E i \in Id : row[i] # NoOne /\ row[i] # m /\ SameIdentity(row[i], m)
    BY <2>2, MatchFacts
  <2>4. asks' = [asks EXCEPT ![r] = ask] /\ row' = row
        /\ \A q \in Request : q # r => reply'[q] = reply[q]
    BY <1>1 DEF Register
  <2> HIDE DEF m
  <2> QED BY <2>1, <2>3, <2>4 DEF m
<1>2. ASSUME NEW r \in Request, Insert(r) PROVE RegistrationSound'
  <2> DEFINE m == asks[r].manifest
  <2>1. m \in Manifests /\ m # NoOne /\ m.id \in Id /\ asks[r].kind = "register"
    BY <1>2, InsertFacts DEF Insert
  <2>2. CASE Candidates(m) = {}
    <3>1. /\ row' = [row EXCEPT ![m.id] = m] /\ asks' = asks
          /\ reply' = [reply EXCEPT ![r] = "created"]
      BY <1>2, <2>2 DEF Insert
    <3>2. \A i \in Id : row[i] # NoOne => ~ SameIdentity(row[i], m)
      <4>1. Candidates(m) = {i \in Id : row[i] # NoOne /\ SameIdentity(row[i], m)}
        BY CandidatesShare
      <4> QED BY <4>1, <2>2
    <3>3. row[m.id] = NoOne
      BY <3>2, <2>1 DEF SameIdentity
    <3>4. \A i, j \in Id : row'[i] # NoOne /\ row'[j] # NoOne /\ i # j
                              => ~ SameIdentity(row'[i], row'[j])
      BY <3>1, <3>2, <2>1 DEF SameIdentity
    <3>5. \A i \in Id : row[i] # NoOne => row'[i] = row[i]
      BY <3>1, <3>3
    <3>6. \A q \in Request : Registers(q) =>
             asks[q].manifest.id \in Id /\ asks[q].manifest # NoOne
      BY AskFacts, NoOneAssumption
    <3> HIDE DEF m
    <3>7. \A q \in Request : Registers(q) /\ reply'[q] \in {"created", "existing"}
             => row'[asks[q].manifest.id] = asks[q].manifest
      BY <3>1, <3>5, <3>6, <2>1 DEF m
    <3>8. \A q \in Request : Registers(q) /\ reply'[q] = "conflict" =>
             \E i \in Id : /\ row'[i] # NoOne /\ row'[i] # asks[q].manifest
                           /\ SameIdentity(row'[i], asks[q].manifest)
      BY <3>1, <3>5
    <3>9. \A p, q \in Request :
             Registers(p) /\ Registers(q) /\ reply'[p] = "created"
                /\ reply'[q] = "created" /\ asks[p].manifest.id = asks[q].manifest.id
                => p = q
      <4>1. \A q \in Request : q # r /\ Registers(q) /\ reply'[q] = "created"
               => asks[q].manifest.id # m.id
        BY <3>1, <3>3, <3>6
      <4> QED BY <3>1, <4>1 DEF m
    <3> QED BY <3>1, <3>4, <3>7, <3>8, <3>9
  <2>3. CASE Candidates(m) # {}
    <3>1. /\ row' = row /\ asks' = asks
          /\ reply' = [reply EXCEPT ![r] = Match(m)]
      BY <1>2, <2>3, MatchFacts DEF Insert
    <3>2. /\ reply'[r] \in {"existing", "conflict"}
          /\ reply'[r] = "existing" => row[m.id] = m
          /\ reply'[r] = "conflict" =>
                \E i \in Id : row[i] # NoOne /\ row[i] # m /\ SameIdentity(row[i], m)
      BY <3>1, <2>3, MatchFacts
    <3> HIDE DEF m
    <3> QED BY <3>1, <3>2 DEF m
  <2> QED BY <2>2, <2>3
<1>3. ASSUME NEW r \in Request, ThreadFails(r) PROVE RegistrationSound'
  BY <1>3 DEF ThreadFails
<1>4. ASSUME NEW r \in Request, NEW ask \in Asks, Put(r, ask) PROVE RegistrationSound'
  BY <1>4 DEF Put
<1>5. ASSUME NEW r \in Request, PutStart(r) PROVE RegistrationSound'
  BY <1>5 DEF PutStart
<1>6. ASSUME NEW r \in Request, PutLockTimeout(r) PROVE RegistrationSound'
  BY <1>6 DEF PutLockTimeout
<1>7. ASSUME NEW r \in Request, PutRefused(r) PROVE RegistrationSound'
  BY <1>7 DEF PutRefused, Locked
<1>8. ASSUME NEW r \in Request, PutAlready(r) PROVE RegistrationSound'
  BY <1>8 DEF PutAlready, Locked
<1>9. ASSUME NEW r \in Request, PutConflict(r) PROVE RegistrationSound'
  <2>1. asks[r].kind = "put"
    BY <1>9, PutFacts DEF PutConflict, Locked
  <2> QED BY <1>9, <2>1 DEF PutConflict, Locked
<1>10. ASSUME NEW r \in Request, PutAdopts(r) PROVE RegistrationSound'
  BY <1>10 DEF PutAdopts, Locked
<1>11. ASSUME NEW r \in Request, PutWaits(r) PROVE RegistrationSound'
  BY <1>11 DEF PutWaits, Locked
<1>12. ASSUME NEW r \in Request, BodyFails(r) PROVE RegistrationSound'
  BY <1>12 DEF BodyFails
<1>13. ASSUME NEW r \in Request, BodyArrives(r) PROVE RegistrationSound'
  BY <1>13 DEF BodyArrives
<1>14. ASSUME NEW r \in Request, Close(r) PROVE RegistrationSound'
  BY <1>14 DEF Close
<1>15. ASSUME NEW r \in Request, IdleTimeout(r) PROVE RegistrationSound'
  BY <1>15 DEF IdleTimeout
<1>16. ASSUME NEW r \in Request, NEW ask \in Asks, Complete(r, ask) PROVE RegistrationSound'
  BY <1>16 DEF Complete
<1>17. ASSUME NEW r \in Request, CompleteLock(r) PROVE RegistrationSound'
  BY <1>17 DEF CompleteLock
<1>18. ASSUME NEW r \in Request, CompleteEnds(r) PROVE RegistrationSound'
  BY <1>18 DEF CompleteEnds
<1>19. CASE Crash
  BY <1>19 DEF Crash
<1>20. CASE UNCHANGED vars
  BY <1>20 DEF vars
<1> QED
  BY <1>1, <1>2, <1>3, <1>4, <1>5, <1>6, <1>7, <1>8, <1>9, <1>10, <1>11,
     <1>12, <1>13, <1>14, <1>15, <1>16, <1>17, <1>18, <1>19, <1>20
     DEF Next, Arrives, PutUnblocks, Body

(* Parts stay those of their row.                                          *)
LEMMA NextParts == IInv /\ [Next]_vars => PartsOk'
<1> SUFFICES ASSUME IInv, [Next]_vars PROVE PartsOk'
  OBVIOUS
<1> USE DEF IInv, TypeOK, At, Reply, GoTo, Answers, dbVars, PartsOk
<1>1. ASSUME NEW r \in Request, NEW ask \in Asks, Register(r, ask) PROVE PartsOk'
  BY <1>1 DEF Register
<1>2. ASSUME NEW r \in Request, Insert(r) PROVE PartsOk'
  <2>1. \A k \in Id : row[k] # NoOne => row'[k] = row[k]
    BY <1>2, InsertFacts DEF Insert
  <2> QED BY <1>2, <2>1 DEF Insert
<1>3. ASSUME NEW r \in Request, ThreadFails(r) PROVE PartsOk'
  BY <1>3 DEF ThreadFails
<1>4. ASSUME NEW r \in Request, NEW ask \in Asks, Put(r, ask) PROVE PartsOk'
  BY <1>4 DEF Put
<1>5. ASSUME NEW r \in Request, PutStart(r) PROVE PartsOk'
  BY <1>5 DEF PutStart
<1>6. ASSUME NEW r \in Request, PutLockTimeout(r) PROVE PartsOk'
  BY <1>6 DEF PutLockTimeout
<1>7. ASSUME NEW r \in Request, PutRefused(r) PROVE PartsOk'
  BY <1>7 DEF PutRefused, Locked
<1>8. ASSUME NEW r \in Request, PutAlready(r) PROVE PartsOk'
  BY <1>8 DEF PutAlready, Locked
<1>9. ASSUME NEW r \in Request, PutConflict(r) PROVE PartsOk'
  BY <1>9 DEF PutConflict, Locked
<1>10. ASSUME NEW r \in Request, PutAdopts(r) PROVE PartsOk'
  <2> DEFINE ask == asks[r]   i == ask.id   m == row[i]
  <2>1. /\ ask.id \in Id /\ m # NoOne /\ PartAsAnnounced(ask)
        /\ ask.number \in 1 .. m.total /\ at[r] = "blocked"
    BY <1>10, PutFacts DEF PutAdopts, Locked, WaitOk, Waiting
  <2>2. PartOf(ask).number = ask.number /\ PartOf(ask).offset = Offset(m, ask.number)
        /\ PartOf(ask).length = Length(m, ask.number)
    BY <2>1 DEF PartOf, PartAsAnnounced
  <2>3. row' = row /\ ( \/ parts' = parts
                        \/ /\ Stored(i, ask.number) = {}
                           /\ parts' = [parts EXCEPT ![i] = @ \cup {PartOf(ask)}])
    BY <1>10 DEF PutAdopts, Locked
  <2>4. ASSUME Stored(i, ask.number) = {}
        PROVE  \A p \in parts[i] : p.number # ask.number
    BY <2>4 DEF Stored
  <2> HIDE DEF ask, i, m
  <2>5. \A k \in Id : parts'[k] = parts[k] \/ (k = i /\ parts'[k] = parts[k] \cup {PartOf(ask)}
                                              /\ \A p \in parts[i] : p.number # ask.number)
    BY <2>1, <2>3, <2>4
  <2> QED BY <2>1, <2>2, <2>3, <2>5 DEF m
<1>11. ASSUME NEW r \in Request, PutWaits(r) PROVE PartsOk'
  BY <1>11 DEF PutWaits, Locked
<1>12. ASSUME NEW r \in Request, BodyFails(r) PROVE PartsOk'
  BY <1>12 DEF BodyFails
<1>13. ASSUME NEW r \in Request, BodyArrives(r) PROVE PartsOk'
  <2> DEFINE ask == asks[r]   i == ask.id   m == row[i]
  <2>1. /\ ask.id \in Id /\ m # NoOne /\ PartAsAnnounced(ask)
        /\ ask.number \in 1 .. m.total /\ at[r] = "body"
    BY <1>13, PutFacts DEF BodyArrives, Locked, WaitOk, Waiting
  <2>2. PartOf(ask).number = ask.number /\ PartOf(ask).offset = Offset(m, ask.number)
        /\ PartOf(ask).length = Length(m, ask.number)
    BY <2>1 DEF PartOf, PartAsAnnounced
  <2>3. row' = row /\ ( \/ parts' = parts
                        \/ /\ Stored(i, ask.number) = {}
                           /\ parts' = [parts EXCEPT ![i] = @ \cup {PartOf(ask)}])
    BY <1>13 DEF BodyArrives, Locked
  <2>4. ASSUME Stored(i, ask.number) = {}
        PROVE  \A p \in parts[i] : p.number # ask.number
    BY <2>4 DEF Stored
  <2> HIDE DEF ask, i, m
  <2>5. \A k \in Id : parts'[k] = parts[k] \/ (k = i /\ parts'[k] = parts[k] \cup {PartOf(ask)}
                                              /\ \A p \in parts[i] : p.number # ask.number)
    BY <2>1, <2>3, <2>4
  <2> QED BY <2>1, <2>2, <2>3, <2>5 DEF m
<1>14. ASSUME NEW r \in Request, Close(r) PROVE PartsOk'
  BY <1>14 DEF Close
<1>15. ASSUME NEW r \in Request, IdleTimeout(r) PROVE PartsOk'
  BY <1>15 DEF IdleTimeout
<1>16. ASSUME NEW r \in Request, NEW ask \in Asks, Complete(r, ask) PROVE PartsOk'
  BY <1>16 DEF Complete
<1>17. ASSUME NEW r \in Request, CompleteLock(r) PROVE PartsOk'
  BY <1>17 DEF CompleteLock
<1>18. ASSUME NEW r \in Request, CompleteEnds(r) PROVE PartsOk'
  BY <1>18 DEF CompleteEnds
<1>19. CASE Crash
  BY <1>19 DEF Crash
<1>20. CASE UNCHANGED vars
  BY <1>20 DEF vars
<1> QED
  BY <1>1, <1>2, <1>3, <1>4, <1>5, <1>6, <1>7, <1>8, <1>9, <1>10, <1>11,
     <1>12, <1>13, <1>14, <1>15, <1>16, <1>17, <1>18, <1>19, <1>20
     DEF Next, Arrives, PutUnblocks, Body

(* PUTs at work are of registered transfers.                               *)
LEMMA NextWait == IInv /\ [Next]_vars => WaitOk'
<1> SUFFICES ASSUME IInv, [Next]_vars PROVE WaitOk'
  OBVIOUS
<1> USE DEF IInv, TypeOK, At, Reply, GoTo, Answers, dbVars, WaitOk, Waiting, PartAsAnnounced
<1>1. ASSUME NEW r \in Request, NEW ask \in Asks, Register(r, ask) PROVE WaitOk'
  BY <1>1 DEF Register
<1>2. ASSUME NEW r \in Request, Insert(r) PROVE WaitOk'
  <2>1. \A k \in Id : row[k] # NoOne => row'[k] = row[k]
    BY <1>2, InsertFacts DEF Insert
  <2>2. \A q \in Request : at[q] \in {"blocked"} \cup Waiting => asks[q].id \in Id
    BY AskFacts DEF AskOk, Putting
  <2>3. asks' = asks /\ \A q \in Request : at'[q] \in {"blocked"} \cup Waiting => at'[q] = at[q]
    BY <1>2 DEF Insert
  <2> QED BY <2>1, <2>2, <2>3
<1>3. ASSUME NEW r \in Request, ThreadFails(r) PROVE WaitOk'
  BY <1>3 DEF ThreadFails
<1>4. ASSUME NEW r \in Request, NEW ask \in Asks, Put(r, ask) PROVE WaitOk'
  BY <1>4 DEF Put
<1>5. ASSUME NEW r \in Request, PutStart(r) PROVE WaitOk'
  BY <1>5 DEF PutStart
<1>6. ASSUME NEW r \in Request, PutLockTimeout(r) PROVE WaitOk'
  BY <1>6 DEF PutLockTimeout
<1>7. ASSUME NEW r \in Request, PutRefused(r) PROVE WaitOk'
  BY <1>7 DEF PutRefused, Locked
<1>8. ASSUME NEW r \in Request, PutAlready(r) PROVE WaitOk'
  BY <1>8 DEF PutAlready, Locked
<1>9. ASSUME NEW r \in Request, PutConflict(r) PROVE WaitOk'
  BY <1>9 DEF PutConflict, Locked
<1>10. ASSUME NEW r \in Request, PutAdopts(r) PROVE WaitOk'
  BY <1>10 DEF PutAdopts, Locked
<1>11. ASSUME NEW r \in Request, PutWaits(r) PROVE WaitOk'
  BY <1>11 DEF PutWaits, Locked
<1>12. ASSUME NEW r \in Request, BodyFails(r) PROVE WaitOk'
  BY <1>12 DEF BodyFails
<1>13. ASSUME NEW r \in Request, BodyArrives(r) PROVE WaitOk'
  BY <1>13 DEF BodyArrives
<1>14. ASSUME NEW r \in Request, Close(r) PROVE WaitOk'
  BY <1>14 DEF Close
<1>15. ASSUME NEW r \in Request, IdleTimeout(r) PROVE WaitOk'
  BY <1>15 DEF IdleTimeout
<1>16. ASSUME NEW r \in Request, NEW ask \in Asks, Complete(r, ask) PROVE WaitOk'
  BY <1>16 DEF Complete
<1>17. ASSUME NEW r \in Request, CompleteLock(r) PROVE WaitOk'
  BY <1>17 DEF CompleteLock
<1>18. ASSUME NEW r \in Request, CompleteEnds(r) PROVE WaitOk'
  BY <1>18 DEF CompleteEnds
<1>19. CASE Crash
  BY <1>19 DEF Crash
<1>20. CASE UNCHANGED vars
  BY <1>20 DEF vars
<1> QED
  BY <1>1, <1>2, <1>3, <1>4, <1>5, <1>6, <1>7, <1>8, <1>9, <1>10, <1>11,
     <1>12, <1>13, <1>14, <1>15, <1>16, <1>17, <1>18, <1>19, <1>20
     DEF Next, Arrives, PutUnblocks, Body

(* A waiting request keeps its lock.                                       *)
LEMMA NextHold == IInv /\ [Next]_vars => HoldOk'
<1> SUFFICES ASSUME IInv, [Next]_vars PROVE HoldOk'
  OBVIOUS
<1> USE DEF IInv, TypeOK, At, Reply, GoTo, Answers, dbVars, HoldOk
<1>1. ASSUME NEW r \in Request, NEW ask \in Asks, Register(r, ask) PROVE HoldOk'
  BY <1>1 DEF Register
<1>2. ASSUME NEW r \in Request, Insert(r) PROVE HoldOk'
  BY <1>2 DEF Insert
<1>3. ASSUME NEW r \in Request, ThreadFails(r) PROVE HoldOk'
  <2>1. \A q \in Request : at[q] = "body" => asks[q].id \in Id
    BY PutFacts
  <2> QED BY <1>3, <2>1, NoOneAssumption DEF ThreadFails, Releases
<1>4. ASSUME NEW r \in Request, NEW ask \in Asks, Put(r, ask) PROVE HoldOk'
  BY <1>4 DEF Put
<1>5. ASSUME NEW r \in Request, PutStart(r) PROVE HoldOk'
  BY <1>5 DEF PutStart
<1>6. ASSUME NEW r \in Request, PutLockTimeout(r) PROVE HoldOk'
  BY <1>6 DEF PutLockTimeout
<1>7. ASSUME NEW r \in Request, PutRefused(r) PROVE HoldOk'
  BY <1>7 DEF PutRefused, Locked
<1>8. ASSUME NEW r \in Request, PutAlready(r) PROVE HoldOk'
  <2>1. \A q \in Request : at[q] = "body" => asks[q].id \in Id
    BY PutFacts
  <2> QED BY <1>8, <2>1, NoOneAssumption DEF PutAlready, Locked
<1>9. ASSUME NEW r \in Request, PutConflict(r) PROVE HoldOk'
  BY <1>9 DEF PutConflict, Locked
<1>10. ASSUME NEW r \in Request, PutAdopts(r) PROVE HoldOk'
  <2>1. \A q \in Request : at[q] = "body" => asks[q].id \in Id
    BY PutFacts
  <2> QED BY <1>10, <2>1, NoOneAssumption DEF PutAdopts, Locked, PartOf
<1>11. ASSUME NEW r \in Request, PutWaits(r) PROVE HoldOk'
  <2>1. \A q \in Request : at[q] = "body" => asks[q].id \in Id
    BY PutFacts
  <2> QED BY <1>11, <2>1, NoOneAssumption DEF PutWaits, Locked, Stored
<1>12. ASSUME NEW r \in Request, BodyFails(r) PROVE HoldOk'
  <2>1. \A q \in Request : at[q] = "body" => asks[q].id \in Id
    BY PutFacts
  <2> QED BY <1>12, <2>1, NoOneAssumption DEF BodyFails, Releases
<1>13. ASSUME NEW r \in Request, BodyArrives(r) PROVE HoldOk'
  <2>1. \A q \in Request : at[q] = "body" => asks[q].id \in Id
    BY PutFacts
  <2>2. /\ r \in killed => parts' = parts
        /\ at' = [at EXCEPT ![r] = "answered"] /\ asks' = asks /\ killed' = killed
        /\ parts' = parts \/ parts' = [parts EXCEPT ![asks[r].id] = @ \cup {PartOf(asks[r])}]
        /\ \A i \in Id : lock'[i] = IF lock[i] = r THEN NoOne ELSE lock[i]
    BY <1>13 DEF BodyArrives, Releases
  <2>3. ASSUME NEW q \in Request, at[q] = "body", q # r, q \notin killed
        PROVE  lock'[asks[q].id] = q /\ parts'[asks[q].id] = parts[asks[q].id]
    <3>1. at[r] = "body"
      BY <1>13 DEF BodyArrives
    <3>2. CASE r \in killed
      BY <2>1, <2>2, <2>3, <3>2
    <3>3. CASE r \notin killed
      <4>1. asks[r].id # asks[q].id
        BY <2>3, <3>1, <3>3
      <4> QED BY <2>1, <2>2, <2>3, <4>1
    <3> QED BY <3>2, <3>3
  <2> QED BY <2>2, <2>3
<1>14. ASSUME NEW r \in Request, Close(r) PROVE HoldOk'
  <2>1. \A q \in Request : at[q] = "body" => asks[q].id \in Id
    BY PutFacts
  <2> QED BY <1>14, <2>1, NoOneAssumption DEF Close, Releases
<1>15. ASSUME NEW r \in Request, IdleTimeout(r) PROVE HoldOk'
  <2>1. \A q \in Request : at[q] = "body" => asks[q].id \in Id
    BY PutFacts
  <2> QED BY <1>15, <2>1, NoOneAssumption DEF IdleTimeout, Releases
<1>16. ASSUME NEW r \in Request, NEW ask \in Asks, Complete(r, ask) PROVE HoldOk'
  BY <1>16 DEF Complete
<1>17. ASSUME NEW r \in Request, CompleteLock(r) PROVE HoldOk'
  <2>1. \A q \in Request : at[q] = "body" => asks[q].id \in Id
    BY PutFacts
  <2> QED BY <1>17, <2>1, NoOneAssumption DEF CompleteLock
<1>18. ASSUME NEW r \in Request, CompleteEnds(r) PROVE HoldOk'
  <2>1. \A q \in Request : at[q] = "body" => asks[q].id \in Id
    BY PutFacts
  <2> QED BY <1>18, <2>1, NoOneAssumption DEF CompleteEnds, Releases
<1>19. CASE Crash
  BY <1>19 DEF Crash
<1>20. CASE UNCHANGED vars
  BY <1>20 DEF vars
<1> QED
  BY <1>1, <1>2, <1>3, <1>4, <1>5, <1>6, <1>7, <1>8, <1>9, <1>10, <1>11,
     <1>12, <1>13, <1>14, <1>15, <1>16, <1>17, <1>18, <1>19, <1>20
     DEF Next, Arrives, PutUnblocks, Body

(* Confirmed parts stay on disk.                                           *)
LEMMA NextKept == IInv /\ [Next]_vars => ConfirmedPartKept'
<1> SUFFICES ASSUME IInv, [Next]_vars PROVE ConfirmedPartKept'
  OBVIOUS
<1> USE DEF IInv, TypeOK, At, Reply, GoTo, Answers, dbVars, ConfirmedPartKept
<1>1. ASSUME NEW r \in Request, NEW ask \in Asks, Register(r, ask) PROVE ConfirmedPartKept'
  BY <1>1 DEF Register, ReplyOk
<1>2. ASSUME NEW r \in Request, Insert(r) PROVE ConfirmedPartKept'
  BY <1>2 DEF Insert
<1>3. ASSUME NEW r \in Request, ThreadFails(r) PROVE ConfirmedPartKept'
  BY <1>3 DEF ThreadFails
<1>4. ASSUME NEW r \in Request, NEW ask \in Asks, Put(r, ask) PROVE ConfirmedPartKept'
  BY <1>4 DEF Put, ReplyOk
<1>5. ASSUME NEW r \in Request, PutStart(r) PROVE ConfirmedPartKept'
  BY <1>5 DEF PutStart
<1>6. ASSUME NEW r \in Request, PutLockTimeout(r) PROVE ConfirmedPartKept'
  BY <1>6 DEF PutLockTimeout
<1>7. ASSUME NEW r \in Request, PutRefused(r) PROVE ConfirmedPartKept'
  BY <1>7 DEF PutRefused, Locked
<1>8. ASSUME NEW r \in Request, PutAlready(r) PROVE ConfirmedPartKept'
  BY <1>8 DEF PutAlready, Locked
<1>9. ASSUME NEW r \in Request, PutConflict(r) PROVE ConfirmedPartKept'
  <2> DEFINE ask == asks[r]   i == ask.id   n == ask.number
  <2>1. /\ killed' = killed /\ asks' = asks /\ parts' = parts
        /\ \/ file' = file
           \/ Stored(i, n) = {} /\ file' = [file EXCEPT ![i][n] = NoOne]
    BY <1>9 DEF PutConflict, Locked
  <2>2. Stored(i, n) = {} => \A p \in parts[i] : p.number # n
    BY DEF Stored
  <2>3. \A k \in Id : \A p \in parts[k] : file'[k][p.number] = file[k][p.number]
    <3>1. \A k \in Id : \A p \in parts[k] : p.number \in PartNumber
      BY DEF PartType
    <3> QED BY <2>1, <2>2, <3>1
  <2> QED BY <2>1, <2>3
<1>10. ASSUME NEW r \in Request, PutAdopts(r) PROVE ConfirmedPartKept'
  <2> DEFINE ask == asks[r]   i == ask.id   n == ask.number
  <2>1. /\ killed' = killed /\ asks' = asks /\ file' = file
        /\ parts' = [parts EXCEPT ![i] = @ \cup {PartOf(ask)}]
        /\ file[i][n] = ask.digest
    BY <1>10 DEF PutAdopts, Locked
  <2>2. PartOf(ask).number = n /\ PartOf(ask).digest = ask.digest
    BY DEF PartOf
  <2>3. \A k \in Id : parts'[k] = parts[k] \/ (k = i /\ parts'[k] = parts[k] \cup {PartOf(ask)})
    BY <2>1
  <2> QED BY <2>1, <2>2, <2>3
<1>11. ASSUME NEW r \in Request, PutWaits(r) PROVE ConfirmedPartKept'
  BY <1>11 DEF PutWaits, Locked
<1>12. ASSUME NEW r \in Request, BodyFails(r) PROVE ConfirmedPartKept'
  BY <1>12 DEF BodyFails
<1>13. ASSUME NEW r \in Request, BodyArrives(r) PROVE ConfirmedPartKept'
  <2> DEFINE ask == asks[r]   i == ask.id   n == ask.number
  <2>1. /\ at[r] = "body" /\ file' = [file EXCEPT ![i][n] = ask.digest]
        /\ killed' = killed /\ asks' = asks
        /\ parts' = parts \/ parts' = [parts EXCEPT ![i] = @ \cup {PartOf(ask)}]
    BY <1>13 DEF BodyArrives
  <2>2. i \in Id /\ n \in PartNumber
    BY <2>1, PutFacts DEF WaitOk
  <2>3. PartOf(ask).number = n /\ PartOf(ask).digest = ask.digest
    BY DEF PartOf
  <2>4. file'[i][n] = ask.digest
        /\ \A k \in Id, l \in PartNumber : k # i \/ l # n => file'[k][l] = file[k][l]
    BY <2>1, <2>2
  <2>5. \A k \in Id : \A p \in parts[k] : p.number \in PartNumber
    BY DEF PartType
  <2>6. r \notin killed => \A p \in parts[i] : p.number # n
    BY <2>1 DEF HoldOk
  <2>7. ASSUME NEW k \in Id, NEW p \in parts'[k]
        PROVE  \/ file'[k][p.number] = p.digest
               \/ \E q \in killed : /\ asks[q].id = k /\ asks[q].number = p.number
                                    /\ asks[q].digest # p.digest
    <3>1. CASE k = i /\ p.number = n
      BY <3>1, <2>1, <2>2, <2>3, <2>4, <2>6, <2>7
    <3>2. CASE ~ (k = i /\ p.number = n)
      <4>1. parts'[k] = parts[k] \/ (k = i /\ parts'[k] = parts[k] \cup {PartOf(ask)})
        BY <2>1, <2>2
      <4>2. p # PartOf(ask) \/ k # i
        BY <3>2, <2>3
      <4>3. p \in parts[k]
        BY <4>1, <4>2, <2>7
      <4> QED BY <3>2, <4>3, <2>4, <2>5
    <3> QED BY <3>1, <3>2
  <2> QED BY <2>1, <2>7
<1>14. ASSUME NEW r \in Request, Close(r) PROVE ConfirmedPartKept'
  BY <1>14 DEF Close
<1>15. ASSUME NEW r \in Request, IdleTimeout(r) PROVE ConfirmedPartKept'
  BY <1>15 DEF IdleTimeout
<1>16. ASSUME NEW r \in Request, NEW ask \in Asks, Complete(r, ask) PROVE ConfirmedPartKept'
  BY <1>16 DEF Complete, ReplyOk
<1>17. ASSUME NEW r \in Request, CompleteLock(r) PROVE ConfirmedPartKept'
  BY <1>17 DEF CompleteLock
<1>18. ASSUME NEW r \in Request, CompleteEnds(r) PROVE ConfirmedPartKept'
  BY <1>18 DEF CompleteEnds
<1>19. CASE Crash
  BY <1>19 DEF Crash
<1>20. CASE UNCHANGED vars
  BY <1>20 DEF vars
<1> QED
  BY <1>1, <1>2, <1>3, <1>4, <1>5, <1>6, <1>7, <1>8, <1>9, <1>10, <1>11,
     <1>12, <1>13, <1>14, <1>15, <1>16, <1>17, <1>18, <1>19, <1>20
     DEF Next, Arrives, PutUnblocks, Body

-----------------------------------------------------------------------------
(* The arithmetic of parts.                                                *)

(* Division by the length of a part.                                       *)
LEMMA Division ==
    ASSUME NEW a \in Nat, NEW b \in Nat \ {0}
    PROVE  /\ a \div b \in Nat
           /\ (a \div b) * b <= a /\ a < (a \div b) * b + b
  OBVIOUS

(* Products grow with their factors.                                       *)
LEMMA Products ==
    ASSUME NEW a \in Nat, NEW b \in Nat, NEW c \in Nat, a <= b
    PROVE  a * c \in Nat /\ a * c <= b * c
<1> DEFINE d == b - a
<1>1. d \in Nat /\ b = a + d
  OBVIOUS
<1>2. \A x, y \in Nat : x * y \in Nat
  OBVIOUS
<1>3. (a + d) * c = a * c + d * c
  BY <1>1
<1>4. a * c \in Nat /\ d * c \in Nat
  BY <1>1, <1>2
<1> HIDE DEF d
<1> QED BY <1>1, <1>3, <1>4

(* The number of parts is the least whose parts hold the file.             *)
LEMMA Total ==
    ASSUME NEW S \in Nat \ {0}, NEW P \in Nat \ {0}
    PROVE  LET T == TotalParts(S, P)
           IN  T \in Nat \ {0} /\ (T - 1) * P < S /\ S <= T * P
<1> DEFINE T == TotalParts(S, P)
<1>1. T \in Nat /\ T * P <= S + P - 1 /\ S + P - 1 < T * P + P
  BY Division, S + P - 1 \in Nat DEF TotalParts
<1>2. (T - 1) * P = T * P - P
  BY <1>1
<1>3. T # 0
  BY <1>1
<1>4. T * P \in Nat
  BY <1>1
<1> HIDE DEF T
<1>5. T \in Nat \ {0} /\ (T - 1) * P < S /\ S <= T * P
  BY <1>1, <1>2, <1>3, <1>4
<1> QED BY <1>5 DEF T

(* The parts of a manifest lie in its file, one after the other, and every *)
(* byte of the file is in one of them.                                     *)
LEMMA Tile ==
    ASSUME NEW m, m.size \in Nat \ {0}, m.partSize \in Nat \ {0},
           m.total = TotalParts(m.size, m.partSize)
    PROVE  /\ \A n \in 1 .. m.total :
                 /\ Offset(m, n) \in Nat /\ Length(m, n) \in Nat
                 /\ Offset(m, n) + Length(m, n) <= m.size
           /\ \A n, k \in 1 .. m.total :
                 n < k => Offset(m, n) + Length(m, n) <= Offset(m, k)
           /\ \A x \in 0 .. m.size - 1 : \E n \in 1 .. m.total :
                 Offset(m, n) <= x /\ x < Offset(m, n) + Length(m, n)
<1> DEFINE S == m.size   P == m.partSize   T == m.total
<1>1. T \in Nat \ {0} /\ (T - 1) * P < S /\ S <= T * P
  BY Total
<1>2. ASSUME NEW n \in 1 .. T
      PROVE  /\ Offset(m, n) = (n - 1) * P
             /\ (n - 1) * P \in Nat /\ (n - 1) * P < S
             /\ Length(m, n) = IF P <= S - (n - 1) * P THEN P ELSE S - (n - 1) * P
  <2>1. n - 1 \in Nat /\ T - 1 \in Nat /\ n - 1 <= T - 1
    BY <1>1
  <2>2. (n - 1) * P \in Nat /\ (n - 1) * P <= (T - 1) * P
    BY <2>1, Products
  <2> QED BY <1>1, <2>1, <2>2 DEF Offset, Length
<1>3. ASSUME NEW n \in 1 .. T
      PROVE  /\ Offset(m, n) \in Nat /\ Length(m, n) \in Nat
             /\ Offset(m, n) + Length(m, n) <= S
  BY <1>2, <1>3
<1>4. ASSUME NEW n \in 1 .. T, NEW k \in 1 .. T, n < k
      PROVE  Offset(m, n) + Length(m, n) <= Offset(m, k)
  <2>1. n \in Nat /\ k - 1 \in Nat /\ n <= k - 1
    BY <1>1, <1>4
  <2>2. n * P <= (k - 1) * P
    BY <2>1, Products
  <2>3. n * P = (n - 1) * P + P /\ n * P \in Nat
    BY <2>1
  <2>4. Length(m, n) <= P /\ Length(m, n) \in Nat
    <3>1. Length(m, n) \in Nat
      BY <1>3
    <3>2. (n - 1) * P \in Nat /\ Length(m, n)
             = IF P <= S - (n - 1) * P THEN P ELSE S - (n - 1) * P
      BY <1>2
    <3>3. ASSUME NEW y \in Nat PROVE (IF P <= S - y THEN P ELSE S - y) <= P
      OBVIOUS
    <3> QED BY <3>1, <3>2, <3>3
  <2> QED BY <1>2, <1>4, <2>2, <2>3, <2>4
<1>5. ASSUME NEW x \in 0 .. S - 1
      PROVE  \E n \in 1 .. T : Offset(m, n) <= x /\ x < Offset(m, n) + Length(m, n)
  <2> DEFINE q == x \div P
  <2>1. q \in Nat /\ q * P <= x /\ x < q * P + P /\ x \in Nat
    BY Division
  <2> HIDE DEF q
  <2>2. q < T
    <3> SUFFICES ASSUME T <= q PROVE FALSE
      BY <1>1, <2>1
    <3>1. T * P \in Nat /\ T * P <= q * P
      BY <1>1, <2>1, Products
    <3>2. q * P \in Nat
      BY <2>1
    <3> QED BY <1>1, <1>5, <2>1, <3>1, <3>2
  <2>3. q + 1 \in 1 .. T /\ (q + 1) - 1 = q
    BY <1>1, <2>1, <2>2
  <2>4. /\ Offset(m, q + 1) = q * P
        /\ Length(m, q + 1) = IF P <= S - q * P THEN P ELSE S - q * P
    BY <1>2, <2>3
  <2> QED BY <2>1, <2>3, <2>4
<1> QED BY <1>3, <1>4, <1>5

(* The parts of a table that keeps to its manifests tile the file.         *)
LEMMA PartsTileFromRows == TypeOK /\ RowsOk /\ PartsOk => PartsTile
<1> SUFFICES ASSUME TypeOK, RowsOk, PartsOk, NEW i \in Id
             PROVE  /\ \A p, q \in parts[i] : p # q => Bytes(p) \cap Bytes(q) = {}
                    /\ row[i] # NoOne /\ {p.number : p \in parts[i]} = 1 .. row[i].total
                          => UNION {Bytes(p) : p \in parts[i]} = 0 .. row[i].size - 1
  BY DEF PartsTile
<1> DEFINE m == row[i]
<1>1. CASE m = NoOne
  BY <1>1 DEF PartsOk
<1>2. CASE m # NoOne
  <2>1. m.size \in Nat \ {0} /\ m.partSize \in Nat \ {0} /\ m.total \in Nat
        /\ m.total = TotalParts(m.size, m.partSize)
    BY <1>2, ManifestAssumption DEF TypeOK, RowsOk
  <2>2. \A p \in parts[i] : /\ p.number \in 1 .. m.total
                            /\ p.offset = Offset(m, p.number)
                            /\ p.length = Length(m, p.number)
                            /\ \A q \in parts[i] : q.number = p.number => q = p
    BY <1>2 DEF PartsOk
  <2> HIDE DEF m
  <2>3. ASSUME NEW p \in parts[i], NEW q \in parts[i], p # q
        PROVE  Bytes(p) \cap Bytes(q) = {}
    <3>1. p.number # q.number /\ p.number \in 1 .. m.total /\ q.number \in 1 .. m.total
      BY <2>2, <2>3
    <3>2. \/ p.offset + p.length <= q.offset
          \/ q.offset + q.length <= p.offset
      <4>1. p.number < q.number \/ q.number < p.number
        BY <3>1, <2>1
      <4> QED BY <4>1, <3>1, <2>1, <2>2, Tile
    <3>3. /\ p.offset \in Nat /\ p.length \in Nat
          /\ q.offset \in Nat /\ q.length \in Nat
      BY <3>1, <2>1, <2>2, Tile
    <3> QED BY <3>2, <3>3 DEF Bytes
  <2>4. ASSUME {p.number : p \in parts[i]} = 1 .. m.total
        PROVE  UNION {Bytes(p) : p \in parts[i]} = 0 .. m.size - 1
    <3>1. ASSUME NEW p \in parts[i], NEW x \in Bytes(p)
          PROVE  x \in 0 .. m.size - 1
      <4>1. p.offset \in Nat /\ p.length \in Nat /\ p.offset + p.length <= m.size
        BY <2>1, <2>2, Tile
      <4> QED BY <3>1, <4>1, <2>1 DEF Bytes
    <3>2. ASSUME NEW x \in 0 .. m.size - 1
          PROVE  \E p \in parts[i] : x \in Bytes(p)
      <4>1. PICK n \in 1 .. m.total :
               Offset(m, n) <= x /\ x < Offset(m, n) + Length(m, n)
        BY <2>1, Tile
      <4>2. PICK p \in parts[i] : p.number = n
        BY <2>4
      <4>3. p.offset \in Nat /\ p.length \in Nat
        BY <2>1, <2>2, Tile
      <4> QED BY <4>1, <4>2, <4>3, <2>1, <2>2 DEF Bytes
    <3> QED BY <3>1, <3>2
  <2> QED BY <2>3, <2>4 DEF m
<1> QED BY <1>1, <1>2

-----------------------------------------------------------------------------
(* The theorems.                                                           *)

(* Nothing is registered, nothing is asked.                                *)
LEMMA InitInv == Init => IInv
<1> SUFFICES ASSUME Init PROVE IInv
  OBVIOUS
<1>1. TypeOK
  BY DEF Init, TypeOK, At, Reply
<1>2. AskOk /\ ReplyOk /\ RowsOk /\ PartsOk /\ WaitOk /\ HoldOk
  BY DEF Init, AskOk, ReplyOk, RowsOk, PartsOk, WaitOk, HoldOk, Putting, Waiting
<1>3. RegistrationSound /\ ConfirmedPartKept
  BY DEF Init, RegistrationSound, ConfirmedPartKept, Registers
<1> QED BY <1>1, <1>2, <1>3 DEF IInv

(* Every step keeps the invariant.                                         *)
LEMMA NextInv == IInv /\ [Next]_vars => IInv'
<1> SUFFICES ASSUME IInv, [Next]_vars PROVE IInv'
  OBVIOUS
<1> QED BY NextTypes, NextAsk, NextReply, NextRows, NextRegistration, NextParts,
           NextWait, NextHold, NextKept DEF IInv

(* The inductive invariant.                                                *)
LEMMA Invariant == Spec => []IInv
  BY InitInv, NextInv, PTL DEF Spec

(* The table, the locks and the places of the requests keep their types,   *)
(* and no registered transfer is over the limits, whatever is asked.       *)
THEOREM TypeCorrect == Spec => []TypeOK
<1>1. IInv => TypeOK
  BY DEF IInv
<1> QED BY <1>1, Invariant, PTL

(* create_transfer answers truthfully however many registrations race,     *)
(* whatever identities they share: the unique keys decide, and the request *)
(* that lost reads the row that won.                                       *)
THEOREM Registrations == Spec => []RegistrationSound
<1>1. IInv => RegistrationSound
  BY DEF IInv
<1> QED BY <1>1, Invariant, PTL

(* The confirmed parts of a transfer tile its file for every size of file  *)
(* and of part, with a short last part or none.                            *)
THEOREM Tiling == Spec => []PartsTile
<1>1. IInv => PartsTile
  BY PartsTileFromRows DEF IInv
<1> QED BY <1>1, Invariant, PTL

(* The row lock, held across the wait for the body, keeps the bytes of a   *)
(* confirmed part on disk, but for a session that PostgreSQL ended.        *)
THEOREM ConfirmedParts == Spec => []ConfirmedPartKept
<1>1. IInv => ConfirmedPartKept
  BY DEF IInv
<1> QED BY <1>1, Invariant, PTL
=============================================================================
