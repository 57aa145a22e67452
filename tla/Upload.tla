------------------------------- MODULE Upload -------------------------------
(***************************************************************************)
(* The front of the offline transfer: registering a manifest and uploading *)
(* its parts, as the event loop, the worker threads and the row locks of   *)
(* the database order them (routers/offline_transfer.py, create_transfer   *)
(* and receive_part of services/offline_transfer_service.py).              *)
(*                                                                         *)
(* Registrations and completions run in threads.  A PUT runs on the event  *)
(* loop: it takes the row lock of its transfer with a blocking query, then *)
(* waits for its body, or returns, with the lock in the hands of a session *)
(* that only the loop can close.  PostgreSQL gives up a wait for a lock    *)
(* (lock_timeout) and ends a session that is idle in a transaction         *)
(* (idle_in_transaction_session_timeout).                                  *)
(*                                                                         *)
(* What a completion does is the subject of OfflineTransfer: here it holds *)
(* the lock for a while and may close the transfer to parts.               *)
(***************************************************************************)
EXTENDS Integers

CONSTANTS
    Request,   \* requests of the collectors
    Manifests, \* the manifests they may register
    Digest,    \* the SHA-256 a part may announce
    Asks,      \* what a request may ask
    MaxParts,  \* BACKFILL_MAX_PARTS
    NoOne      \* nobody and nothing

Id == {m.id : m \in Manifests}
PartNumber == 1 .. MaxParts

ASSUME NoOneAssumption ==
    /\ NoOne \notin Request /\ NoOne \notin Manifests /\ NoOne \notin Digest
    /\ NoOne \notin Asks /\ MaxParts \in Nat

(* What the schema asks of the sizes.                                      *)
ASSUME ManifestAssumption ==
    \A m \in Manifests :
        /\ m.size \in Nat \ {0} /\ m.partSize \in Nat \ {0} /\ m.total \in Nat \ {0}

(* What a request says, by its kind: put_transfer_part refuses an empty    *)
(* body by its Content-Length.                                             *)
ASSUME AskAssumption ==
    \A ask \in Asks :
        /\ ask.kind \in {"register", "put", "complete"}
        /\ ask.kind = "register" => ask.manifest \in Manifests
        /\ ask.kind # "register" => ask.id \in Id
        /\ ask.kind = "put" => /\ ask.number \in Int /\ ask.digest \in Digest
                              /\ ask.length \in Nat \ {0}

VARIABLES
    row,     \* offline_transfer: the manifest of each registered transfer
    open,    \* the transfers that are UPLOADING
    parts,   \* offline_transfer_part, by transfer
    file,    \* the digest of each part file
    lock,    \* the request whose session has the row lock of a transfer
    loop,    \* the request whose query blocks the event loop
    at,      \* where each request is
    asks,    \* what it asks
    reply,   \* how it was answered
    killed   \* the requests whose session PostgreSQL ended

dbVars == <<row, open, parts>>
vars == <<row, open, parts, file, lock, loop, at, asks, reply, killed>>

At == {"idle", "checked", "queued", "blocked", "body", "closing",
       "completing", "completes", "answered"}

Reply == {"none", "created", "existing", "conflict", "received", "already",
          "refused", "error", "raised"}

Init ==
    /\ row = [i \in Id |-> NoOne]
    /\ open = {}
    /\ parts = [i \in Id |-> {}]
    /\ file = [i \in Id |-> [n \in PartNumber |-> NoOne]]
    /\ lock = [i \in Id |-> NoOne]
    /\ loop = NoOne
    /\ at = [r \in Request |-> "idle"]
    /\ asks = [r \in Request |-> NoOne]
    /\ reply = [r \in Request |-> "none"]
    /\ killed = {}

GoTo(r, s) == at' = [at EXCEPT ![r] = s]

Answers(r, a) ==
    /\ GoTo(r, "answered")
    /\ reply' = [reply EXCEPT ![r] = a]

(* The end of a transaction, or of its session, releases the row lock.     *)
Releases(r) == lock' = [i \in Id |-> IF lock[i] = r THEN NoOne ELSE lock[i]]

-----------------------------------------------------------------------------
(* The parts of a file.                                                    *)

TotalParts(size, partSize) == (size + partSize - 1) \div partSize

Offset(m, n) == (n - 1) * m.partSize

(* Seeded fault: the last part is taken to be as long as the others.       *)
Length_Full(m, n) == m.partSize

Length(m, n) ==
    IF m.partSize <= m.size - Offset(m, n) THEN m.partSize
    ELSE m.size - Offset(m, n)

PartType ==
    [number : PartNumber, offset : Nat, length : Nat \ {0}, digest : Digest]

TypeOK ==
    /\ row \in [Id -> Manifests \cup {NoOne}]
    /\ \A i \in Id : row[i] # NoOne => row[i].id = i /\ row[i].total \in PartNumber
    /\ open \in SUBSET Id
    /\ parts \in [Id -> SUBSET PartType]
    /\ file \in [Id -> [PartNumber -> Digest \cup {NoOne}]]
    /\ lock \in [Id -> Request \cup {NoOne}]
    /\ loop \in Request \cup {NoOne}
    /\ at \in [Request -> At]
    /\ asks \in [Request -> Asks \cup {NoOne}]
    /\ reply \in [Request -> Reply]
    /\ killed \in SUBSET Request

-----------------------------------------------------------------------------
(* POST /transfers: register_transfer and create_transfer, in a thread.    *)

(* The rows that have one of the identities of a manifest.                 *)
Candidates(m) ==
    {i \in Id : /\ row[i] # NoOne
                /\ \/ i = m.id
                   \/ row[i].chunk = m.chunk
                   \/ row[i].node = m.node /\ row[i].sequence = m.sequence}

(* Seeded fault: the manifest of the row is not compared.                  *)
Match_ByIdentity(m) ==
    CASE Candidates(m) = {} -> "none"
      [] Candidates(m) = {m.id} -> "existing"
      [] OTHER -> "conflict"

(* _existing_identity_match                                                *)
Match(m) ==
    CASE Candidates(m) = {} -> "none"
      [] Candidates(m) = {m.id} /\ row[m.id] = m -> "existing"
      [] OTHER -> "conflict"

(* Seeded fault: the limits are not looked at.                             *)
Valid_NoLimits(m, node) ==
    m.node = node /\ m.total = TotalParts(m.size, m.partSize)

(* The manifest is consistent, of the node that sends it, and within the   *)
(* limits; MaxParts stands for all of them.                                *)
Valid(m, node) ==
    /\ m.node = node
    /\ m.total = TotalParts(m.size, m.partSize)
    /\ m.total <= MaxParts

(* The identities are read; without a candidate the row is to be inserted. *)
Register(r, ask) ==
    LET m == ask.manifest IN
    /\ at[r] = "idle" /\ ask.kind = "register"
    /\ asks' = [asks EXCEPT ![r] = ask]
    /\ IF ~ Valid(m, ask.node) THEN Answers(r, "refused")
       ELSE IF Match(m) = "none" THEN GoTo(r, "checked") /\ UNCHANGED reply
       ELSE Answers(r, Match(m))
    /\ UNCHANGED <<dbVars, file, lock, loop, killed>>

(* The insert.  Another request may have taken an identity since: the      *)
(* unique keys refuse the row, and the identities are read again.          *)
Insert(r) ==
    LET m == asks[r].manifest IN
    /\ at[r] = "checked"
    /\ IF Candidates(m) = {}
       THEN /\ row' = [row EXCEPT ![m.id] = m]
            /\ open' = open \cup {m.id}
            /\ Answers(r, "created")
       ELSE /\ Answers(r, IF Match(m) = "none" THEN "raised" ELSE Match(m))
            /\ UNCHANGED <<row, open>>
    /\ UNCHANGED <<parts, file, lock, loop, asks, killed>>

(* A registration or a completion whose database call fails.               *)
ThreadFails(r) ==
    /\ at[r] \in {"checked", "completing", "completes"}
    /\ Answers(r, "error")
    /\ Releases(r)
    /\ UNCHANGED <<dbVars, file, loop, asks, killed>>

-----------------------------------------------------------------------------
(* PUT /transfers/{id}/parts/{n}: put_transfer_part, on the event loop.    *)

(* The request is parsed; its headers may be refused.                      *)
Put(r, ask) ==
    /\ at[r] = "idle" /\ ask.kind = "put"
    /\ asks' = [asks EXCEPT ![r] = ask]
    /\ (GoTo(r, "queued") /\ UNCHANGED reply) \/ Answers(r, "refused")
    /\ UNCHANGED <<dbVars, file, lock, loop, killed>>

(* The loop runs the handler, up to its SELECT ... FOR UPDATE.             *)
PutStart(r) ==
    /\ at[r] = "queued" /\ loop = NoOne
    /\ LET m == row[asks[r].id] IN
       IF m # NoOne /\ m.node = asks[r].node
       THEN /\ GoTo(r, "blocked") /\ UNCHANGED reply
            /\ loop' = r
       ELSE Answers(r, "refused") /\ UNCHANGED loop
    /\ UNCHANGED <<dbVars, file, lock, asks, killed>>

PutLockTimeout(r) ==
    /\ at[r] = "blocked" /\ lock[asks[r].id] # NoOne
    /\ Answers(r, "error")
    /\ loop' = NoOne
    /\ UNCHANGED <<dbVars, file, lock, asks, killed>>

(* The row is locked and read: the loop goes on.                           *)
Locked(r) ==
    /\ at[r] = "blocked" /\ lock[asks[r].id] = NoOne
    /\ loop' = NoOne
    /\ UNCHANGED <<row, asks, killed>>

(* What the request says of its part is what the manifest says.            *)
PartAsAnnounced(ask) ==
    LET m == row[ask.id] IN
    /\ ask.number \in 1 .. m.total
    /\ ask.offset \in {NoOne, Offset(m, ask.number)}
    /\ ask.length = Length(m, ask.number)

Stored(i, n) == {p \in parts[i] : p.number = n}

PartOf(ask) ==
    [number |-> ask.number, offset |-> Offset(row[ask.id], ask.number),
     length |-> ask.length, digest |-> ask.digest]

(* An error is answered after a rollback.                                  *)
PutRefused(r) ==
    LET ask == asks[r] IN
    /\ Locked(r)
    /\ ~ PartAsAnnounced(ask) \/ (Stored(ask.id, ask.number) = {} /\ ask.id \notin open)
    /\ Answers(r, "refused")
    /\ UNCHANGED <<open, parts, file, lock>>

(* The part is there: nothing is committed, so the lock lasts until the    *)
(* loop has the session closed.                                            *)
PutAlready(r) ==
    LET ask == asks[r] IN
    /\ Locked(r)
    /\ PartAsAnnounced(ask)
    /\ \E p \in Stored(ask.id, ask.number) : p.digest = ask.digest
    /\ file[ask.id][ask.number] = ask.digest
    /\ lock' = [lock EXCEPT ![ask.id] = r]
    /\ GoTo(r, "closing")
    /\ reply' = [reply EXCEPT ![r] = "already"]
    /\ UNCHANGED <<open, parts, file>>

(* The stored part, or a file left without a row, is not what is announced:*)
(* the transfer is quarantined (unless it is closed), and the file without *)
(* a row moved away.                                                       *)
PutConflict(r) ==
    LET ask == asks[r]   stored == Stored(ask.id, ask.number) IN
    /\ Locked(r)
    /\ PartAsAnnounced(ask)
    /\ file[ask.id][ask.number] # ask.digest
          \/ \E p \in stored : p.digest # ask.digest
    /\ stored = {} => ask.id \in open /\ file[ask.id][ask.number] # NoOne
    /\ open' = open \ {ask.id}
    /\ file' = IF stored # {} THEN file
               ELSE [file EXCEPT ![ask.id][ask.number] = NoOne]
    /\ Answers(r, "conflict")
    /\ UNCHANGED <<parts, lock>>

(* A file without a row that is what is announced gets its row.            *)
PutAdopts(r) ==
    LET ask == asks[r] IN
    /\ Locked(r)
    /\ PartAsAnnounced(ask) /\ ask.id \in open
    /\ Stored(ask.id, ask.number) = {} /\ file[ask.id][ask.number] = ask.digest
    /\ parts' = [parts EXCEPT ![ask.id] = @ \cup {PartOf(ask)}]
    /\ Answers(r, "already")
    /\ UNCHANGED <<open, file, lock>>

(* Seeded fault: the row is read without FOR UPDATE.                       *)
PutWaits_NoLock(r) ==
    LET ask == asks[r] IN
    /\ Locked(r)
    /\ PartAsAnnounced(ask) /\ ask.id \in open
    /\ Stored(ask.id, ask.number) = {} /\ file[ask.id][ask.number] = NoOne
    /\ GoTo(r, "body")
    /\ UNCHANGED <<open, parts, file, lock, reply>>

(* The handler awaits the body, with the lock.                             *)
PutWaits(r) ==
    LET ask == asks[r] IN
    /\ Locked(r)
    /\ PartAsAnnounced(ask) /\ ask.id \in open
    /\ Stored(ask.id, ask.number) = {} /\ file[ask.id][ask.number] = NoOne
    /\ lock' = [lock EXCEPT ![ask.id] = r]
    /\ GoTo(r, "body")
    /\ UNCHANGED <<open, parts, file, reply>>

(* The body is too long, too short or not what was announced, or the       *)
(* client is gone.                                                         *)
BodyFails(r) ==
    /\ at[r] = "body" /\ loop = NoOne
    /\ Answers(r, "refused")
    /\ Releases(r)
    /\ UNCHANGED <<dbVars, file, loop, asks, killed>>

(* The body is whole: the file is put in place, then its row committed.    *)
BodyArrives(r) ==
    LET ask == asks[r] IN
    /\ at[r] = "body" /\ loop = NoOne
    /\ file' = [file EXCEPT ![ask.id][ask.number] = ask.digest]
    /\ \/ /\ r \notin killed /\ Stored(ask.id, ask.number) = {}
          /\ parts' = [parts EXCEPT ![ask.id] = @ \cup {PartOf(ask)}]
          /\ Answers(r, "received")
       \/ UNCHANGED parts /\ Answers(r, "error")
    /\ Releases(r)
    /\ UNCHANGED <<row, open, loop, asks, killed>>

(* The loop has the session of an answered PUT closed.                     *)
Close(r) ==
    /\ at[r] = "closing" /\ loop = NoOne
    /\ GoTo(r, "answered")
    /\ Releases(r)
    /\ UNCHANGED <<dbVars, file, loop, asks, reply, killed>>

(* Seeded fault: no idle_in_transaction_session_timeout.                   *)
IdleTimeout_Never(r) == at[r] = "never" /\ UNCHANGED vars

(* PostgreSQL ends the session of a PUT that waits with a lock; the        *)
(* handler hears of it when it commits.                                    *)
IdleTimeout(r) ==
    /\ at[r] \in {"body", "closing"} /\ r \notin killed
    /\ killed' = killed \cup {r}
    /\ Releases(r)
    /\ UNCHANGED <<dbVars, file, loop, at, asks, reply>>

-----------------------------------------------------------------------------
(* POST /transfers/{id}/complete, in a thread, as far as uploads see it.   *)

Complete(r, ask) ==
    /\ at[r] = "idle" /\ ask.kind = "complete"
    /\ asks' = [asks EXCEPT ![r] = ask]
    /\ IF row[ask.id] # NoOne /\ row[ask.id].node = ask.node
       THEN GoTo(r, "completing") /\ UNCHANGED reply
       ELSE Answers(r, "refused")
    /\ UNCHANGED <<dbVars, file, lock, loop, killed>>

CompleteLock(r) ==
    /\ at[r] = "completing" /\ lock[asks[r].id] = NoOne
    /\ lock' = [lock EXCEPT ![asks[r].id] = r]
    /\ GoTo(r, "completes")
    /\ UNCHANGED <<dbVars, file, loop, asks, reply, killed>>

(* Every part is there, or the answer is 409.                              *)
CompleteEnds(r) ==
    LET i == asks[r].id IN
    /\ at[r] = "completes"
    /\ IF {p.number : p \in parts[i]} = 1 .. row[i].total
       THEN open' = open \ {i} /\ Answers(r, "received")
       ELSE Answers(r, "refused") /\ UNCHANGED open
    /\ Releases(r)
    /\ UNCHANGED <<row, parts, file, loop, asks, killed>>

(* The process dies: the sessions end, the rows and the files remain.      *)
Crash ==
    /\ lock' = [i \in Id |-> NoOne]
    /\ loop' = NoOne
    /\ at' = [r \in Request |-> IF at[r] = "idle" THEN "idle" ELSE "answered"]
    /\ UNCHANGED <<dbVars, file, asks, reply, killed>>

-----------------------------------------------------------------------------
Arrives(r) ==
    \E ask \in Asks : Register(r, ask) \/ Put(r, ask) \/ Complete(r, ask)

PutUnblocks(r) ==
    \/ PutRefused(r) \/ PutAlready(r) \/ PutConflict(r) \/ PutAdopts(r)
    \/ PutWaits(r) \/ PutLockTimeout(r)

Body(r) == BodyFails(r) \/ BodyArrives(r)

CompletionEnds(r) == CompleteEnds(r) \/ (at[r] = "completes" /\ ThreadFails(r))

Next ==
    \/ \E r \in Request :
          \/ Arrives(r) \/ Insert(r) \/ ThreadFails(r)
          \/ PutStart(r) \/ PutUnblocks(r) \/ Body(r) \/ Close(r)
          \/ IdleTimeout(r) \/ CompleteLock(r) \/ CompleteEnds(r)
    \/ Crash

Spec == Init /\ [][Next]_vars

(* A blocked query returns or times out, an idle session is ended, a       *)
(* thread finishes what it does with the lock.  A client may never send    *)
(* its body.                                                               *)
UploadFairness ==
    \A r \in Request : /\ WF_vars(PutUnblocks(r))
                       /\ WF_vars(IdleTimeout(r))
                       /\ WF_vars(CompletionEnds(r))

FairSpec == Spec /\ UploadFairness

-----------------------------------------------------------------------------
(* Properties.                                                             *)

Registers(r) == asks[r] # NoOne /\ asks[r].kind = "register"

SameIdentity(m, k) ==
    m.id = k.id \/ m.chunk = k.chunk \/ (m.node = k.node /\ m.sequence = k.sequence)

(* Registrations that race agree with the table: rows share no identity, a *)
(* request is told that its transfer exists only when the row has its very *)
(* manifest, that it conflicts only when another manifest has one of its   *)
(* identities, one request at most created a row, and the unique-key error *)
(* of a race is always resolved.                                           *)
RegistrationSound ==
    /\ \A i, j \in Id : row[i] # NoOne /\ row[j] # NoOne /\ i # j
                           => ~ SameIdentity(row[i], row[j])
    /\ \A r \in Request : Registers(r) =>
          LET m == asks[r].manifest IN
          /\ reply[r] \in {"created", "existing"} => row[m.id] = m
          /\ reply[r] = "conflict" =>
                \E i \in Id : row[i] # NoOne /\ row[i] # m /\ SameIdentity(row[i], m)
          /\ reply[r] # "raised"
          /\ \A q \in Request :
                Registers(q) /\ reply[q] = "created" /\ reply[r] = "created"
                   /\ asks[q].manifest.id = m.id => q = r

Bytes(p) == p.offset .. (p.offset + p.length - 1)

(* The confirmed parts of a transfer do not overlap, and when all of them  *)
(* are there they are the bytes of its file, no more and no less: what a   *)
(* completion assembles in order is the file of the manifest.              *)
PartsTile ==
    \A i \in Id :
        /\ \A p, q \in parts[i] : p # q => Bytes(p) \cap Bytes(q) = {}
        /\ row[i] # NoOne /\ {p.number : p \in parts[i]} = 1 .. row[i].total
              => UNION {Bytes(p) : p \in parts[i]} = 0 .. row[i].size - 1

(* A part that was confirmed is on disk with the digest of its row, unless *)
(* a request with other bytes lost its session, and with it the row lock,  *)
(* while its body was on its way.                                          *)
ConfirmedPartKept ==
    \A i \in Id : \A p \in parts[i] :
        \/ file[i][p.number] = p.digest
        \/ \E r \in killed : /\ asks[r].id = i /\ asks[r].number = p.number
                             /\ asks[r].digest # p.digest

(* Two uploads of one transfer and a client that never sends its body      *)
(* stall neither the server nor the transfer: a query that blocks the      *)
(* event loop lets it go, and the row lock does not stay with a session.   *)
NothingStalls ==
    \A r \in Request :
        /\ loop = r ~> loop # r
        /\ (\E i \in Id : lock[i] = r) ~> (\A i \in Id : lock[i] # r)
=============================================================================
