------------------------------ MODULE Realtime ------------------------------
(***************************************************************************)
(* The realtime path of one lagoon: POST /ingest/scada updates the state   *)
(* store and broadcasts a tick to the WebSockets registered in the         *)
(* manager, while the handlers of those sockets send a first snapshot,     *)
(* register, ping and unregister (routers/ingest.py, state/store.py,       *)
(* ws/manager.py, routers/websocket.py).                                   *)
(*                                                                         *)
(* Everything runs on one event loop, so an action is what a coroutine     *)
(* does between two suspension points.  The bodies of the manager's        *)
(* asyncio.Lock contain no await, so that lock is always free and is left  *)
(* out.  asyncio.gather starts its sends later, in the order they were     *)
(* created; a send hands its frame to the transport when it starts and may *)
(* then wait for the transport to drain.                                   *)
(*                                                                         *)
(* The contents of the state (tags, pump times, local time) are a function *)
(* of the readings applied, so a version, the timestamp of the last one,   *)
(* stands for them.  Lagoons share nothing but the loop: one is modelled.  *)
(***************************************************************************)
EXTENDS Naturals, Sequences

CONSTANTS
    Ingest,  \* ingest requests
    Client,  \* WebSocket connections
    TsOf     \* the timestamp of the reading each request carries

ASSUME TsAssumption == TsOf \in [Ingest -> Nat \ {0}]

VARIABLES
    lastTs,       \* _last_ts of the lagoon; 0 when there is none
    step,         \* where each ingest request is
    ready,        \* the broadcasts with sends that have not started, in order
    todo,         \* the sockets a broadcast has yet to start a send to
    waiting,      \* the sockets a broadcast waits for
    failed,       \* the sockets whose send failed, not yet closed
    connections,  \* _connections of the manager
    stream,       \* where the handler of each socket is
    closed,       \* the socket can send no more (application_state)
    link,         \* the frames handed to the transport and not yet read
    peer,         \* whether the client is there
    view,         \* the version the client shows
    base          \* the version of the store when the socket was registered

sendVars == <<ready, todo, waiting, failed>>
streamVars == <<connections, stream, base>>
vars == <<lastTs, step, ready, todo, waiting, failed, connections, stream,
          closed, link, peer, view, base>>

Step == {"idle", "persisting", "sending", "closing", "answered"}
Stream == {"off", "snapshot", "open", "pinging", "ended"}
Version == {0} \cup {TsOf[r] : r \in Ingest}

TypeOK ==
    /\ lastTs \in Version
    /\ step \in [Ingest -> Step]
    /\ ready \in Seq(Ingest)
    /\ todo \in [Ingest -> SUBSET Client]
    /\ waiting \in [Ingest -> SUBSET Client]
    /\ failed \in [Ingest -> SUBSET Client]
    /\ connections \in SUBSET Client
    /\ stream \in [Client -> Stream]
    /\ closed \in [Client -> BOOLEAN]
    /\ link \in [Client -> Seq(Version)]
    /\ peer \in [Client -> {"there", "gone"}]
    /\ view \in [Client -> Version]
    /\ base \in [Client -> Version]

Init ==
    /\ lastTs = 0
    /\ step = [r \in Ingest |-> "idle"]
    /\ ready = <<>>
    /\ todo = [r \in Ingest |-> {}]
    /\ waiting = [r \in Ingest |-> {}]
    /\ failed = [r \in Ingest |-> {}]
    /\ connections = {}
    /\ stream = [c \in Client |-> "off"]
    /\ closed = [c \in Client |-> FALSE]
    /\ link = [c \in Client |-> <<>>]
    /\ peer = [c \in Client |-> "there"]
    /\ view = [c \in Client |-> 0]
    /\ base = [c \in Client |-> 0]

(* A frame with version v is handed to the transport of c.                 *)
Hands(c, v) ==
    link' = IF peer[c] = "gone" THEN link
            ELSE [link EXCEPT ![c] = Append(@, v)]

GoTo(r, s) == step' = [step EXCEPT ![r] = s]

(* The payload is not stale.  That it is not too old by the clock either   *)
(* is left open: a request may be answered whatever its timestamp.         *)
Accepts(t) == t > lastTs

-----------------------------------------------------------------------------
(* The ingest request.                                                     *)

Receive(r) ==
    /\ step[r] = "idle"
    /\ \/ Accepts(TsOf[r]) /\ GoTo(r, "persisting")
       \/ GoTo(r, "answered")
    /\ UNCHANGED <<lastTs, sendVars, streamVars, closed, link, peer, view>>

(* The thread raises, or the wait for it times out: 500 or 504.  Or the    *)
(* timestamp, checked again after the await, is now stale or too old.      *)
NoUpdate(r) ==
    /\ step[r] = "persisting"
    /\ GoTo(r, "answered")
    /\ UNCHANGED <<lastTs, sendVars, streamVars, closed, link, peer, view>>

(* Seeded faults: the timestamp is not checked again; it is rounded up.    *)
Update_NoRecheck(r) ==
    /\ step[r] = "persisting"
    /\ lastTs' = TsOf[r]
    /\ IF connections = {}
       THEN GoTo(r, "answered") /\ UNCHANGED <<ready, todo>>
       ELSE /\ GoTo(r, "sending")
            /\ todo' = [todo EXCEPT ![r] = connections]
            /\ ready' = Append(ready, r)
    /\ UNCHANGED <<waiting, failed, streamVars, closed, link, peer, view>>

Update_RoundsUp(r) ==
    /\ step[r] = "persisting"
    /\ Accepts(TsOf[r])
    /\ lastTs' = TsOf[r] + 1
    /\ IF connections = {}
       THEN GoTo(r, "answered") /\ UNCHANGED <<ready, todo>>
       ELSE /\ GoTo(r, "sending")
            /\ todo' = [todo EXCEPT ![r] = connections]
            /\ ready' = Append(ready, r)
    /\ UNCHANGED <<waiting, failed, streamVars, closed, link, peer, view>>

(* The update of the store, the tick payload, the list of the sockets and  *)
(* the tasks that send to them are made without a suspension.              *)
Update(r) ==
    /\ step[r] = "persisting"
    /\ Accepts(TsOf[r])
    /\ lastTs' = TsOf[r]
    /\ IF connections = {}
       THEN GoTo(r, "answered") /\ UNCHANGED <<ready, todo>>
       ELSE /\ GoTo(r, "sending")
            /\ todo' = [todo EXCEPT ![r] = connections]
            /\ ready' = Append(ready, r)
    /\ UNCHANGED <<waiting, failed, streamVars, closed, link, peer, view>>

Sendable(c) == ~ closed[c] /\ stream[c] \in {"open", "pinging"}

(* The task that sends to c is run: a socket that is closed refuses, one   *)
(* whose client is gone may, the transport takes the frame otherwise.      *)
Started(r, c) ==
    /\ ready # <<>> /\ r = Head(ready)
    /\ c \in todo[r]
    /\ todo' = [todo EXCEPT ![r] = @ \ {c}]
    /\ ready' = IF todo[r] = {c} THEN Tail(ready) ELSE ready

(* Seeded fault: a socket another broadcast still waits for is skipped.    *)
StartSend_SkipsBusy(r, c) ==
    /\ Started(r, c)
    /\ Sendable(c)
    /\ IF \E q \in Ingest : c \in waiting[q]
       THEN UNCHANGED link
       ELSE Hands(c, TsOf[r])
    /\ waiting' = [waiting EXCEPT ![r] = @ \cup {c}]
    /\ UNCHANGED <<lastTs, step, failed, streamVars, closed, peer, view>>

StartSend(r, c) ==
    /\ Started(r, c)
    /\ Sendable(c)
    /\ Hands(c, TsOf[r])
    /\ waiting' = [waiting EXCEPT ![r] = @ \cup {c}]
    /\ UNCHANGED <<lastTs, step, failed, streamVars, closed, peer, view>>

SendRefused(r, c) ==
    /\ Started(r, c)
    /\ ~ Sendable(c) \/ peer[c] = "gone"
    /\ failed' = [failed EXCEPT ![r] = @ \cup {c}]
    /\ closed' = [closed EXCEPT ![c] = TRUE]
    /\ UNCHANGED <<lastTs, step, waiting, streamVars, link, peer, view>>

SendOk(r, c) ==
    /\ c \in waiting[r]
    /\ waiting' = [waiting EXCEPT ![r] = @ \ {c}]
    /\ UNCHANGED <<lastTs, step, ready, todo, failed, streamVars, closed,
                   link, peer, view>>

(* _send_with_timeout gives up; the frame stays with the transport.        *)
SendTimesOut(r, c) ==
    /\ c \in waiting[r]
    /\ waiting' = [waiting EXCEPT ![r] = @ \ {c}]
    /\ failed' = [failed EXCEPT ![r] = @ \cup {c}]
    /\ UNCHANGED <<lastTs, step, ready, todo, streamVars, closed, link,
                   peer, view>>

SendErrors(r, c) ==
    /\ c \in waiting[r]
    /\ closed[c] \/ peer[c] = "gone"
    /\ waiting' = [waiting EXCEPT ![r] = @ \ {c}]
    /\ failed' = [failed EXCEPT ![r] = @ \cup {c}]
    /\ closed' = [closed EXCEPT ![c] = TRUE]
    /\ UNCHANGED <<lastTs, step, ready, todo, streamVars, link, peer,
                   view>>

(* Seeded fault: the sockets are removed and not closed.                   *)
Gathered_LeftOpen(r) ==
    /\ step[r] = "sending" /\ todo[r] = {} /\ waiting[r] = {}
    /\ connections' = connections \ failed[r]
    /\ GoTo(r, "answered")
    /\ failed' = [failed EXCEPT ![r] = {}]
    /\ UNCHANGED <<lastTs, ready, todo, waiting, stream, base, closed, link, peer, view>>

(* Every send has returned: the sockets that failed are removed together,  *)
(* then closed one after the other before the request is answered.         *)
Gathered(r) ==
    /\ step[r] = "sending" /\ todo[r] = {} /\ waiting[r] = {}
    /\ connections' = connections \ failed[r]
    /\ GoTo(r, IF failed[r] = {} THEN "answered" ELSE "closing")
    /\ UNCHANGED <<lastTs, sendVars, stream, base, closed, link, peer, view>>

CloseNext(r, c) ==
    /\ step[r] = "closing" /\ c \in failed[r]
    /\ closed' = [closed EXCEPT ![c] = TRUE]
    /\ failed' = [failed EXCEPT ![r] = @ \ {c}]
    /\ UNCHANGED <<lastTs, step, ready, todo, waiting, streamVars, link,
                   peer, view>>

Answer(r) ==
    /\ step[r] = "closing" /\ failed[r] = {}
    /\ GoTo(r, "answered")
    /\ UNCHANGED <<lastTs, sendVars, streamVars, closed, link, peer, view>>

-----------------------------------------------------------------------------
(* The handler of a socket.                                                *)

(* The origin, the token, the permission or the lagoon is refused.         *)
Reject(c) ==
    /\ stream[c] = "off"
    /\ stream' = [stream EXCEPT ![c] = "ended"]
    /\ closed' = [closed EXCEPT ![c] = TRUE]
    /\ UNCHANGED <<lastTs, step, sendVars, connections, base, link, peer,
                   view>>

(* The socket is accepted; the snapshot is built and handed over.          *)
SendSnapshot(c) ==
    /\ stream[c] = "off"
    /\ stream' = [stream EXCEPT ![c] = "snapshot"]
    /\ Hands(c, lastTs)
    /\ UNCHANGED <<lastTs, step, sendVars, connections, base, closed,
                   peer, view>>

(* The snapshot has drained and the socket is registered.                  *)
Register(c) ==
    /\ stream[c] = "snapshot"
    /\ stream' = [stream EXCEPT ![c] = "open"]
    /\ connections' = connections \cup {c}
    /\ base' = [base EXCEPT ![c] = lastTs]
    /\ UNCHANGED <<lastTs, step, sendVars, closed, link, peer, view>>

(* Seeded fault: the handler returns without unregistering its socket.     *)
Ends_StillRegistered(c) ==
    /\ stream' = [stream EXCEPT ![c] = "ended"]
    /\ link' = [link EXCEPT ![c] = <<>>]
    /\ UNCHANGED <<connections, lastTs, step, sendVars, base, peer, view>>

(* The end of the handler: the finally clause unregisters the socket.  The *)
(* connection is over, what was still on the way is lost.                  *)
Ends(c) ==
    /\ stream' = [stream EXCEPT ![c] = "ended"]
    /\ connections' = connections \ {c}
    /\ link' = [link EXCEPT ![c] = <<>>]
    /\ UNCHANGED <<lastTs, step, sendVars, base, peer, view>>

SnapshotFails(c) ==
    /\ stream[c] = "snapshot"
    /\ peer[c] = "gone"
    /\ closed' = [closed EXCEPT ![c] = TRUE]
    /\ Ends(c)

ReceiveDisconnect(c) ==
    /\ stream[c] = "open"
    /\ closed[c] \/ peer[c] = "gone"
    /\ Ends(c)
    /\ UNCHANGED closed

(* Nothing was received for a heartbeat: the handler sends a ping.         *)
Heartbeat(c) ==
    /\ stream[c] = "open" /\ ~ closed[c]
    /\ stream' = [stream EXCEPT ![c] = "pinging"]
    /\ UNCHANGED <<lastTs, step, sendVars, connections, base, closed,
                   link, peer, view>>

(* The ping of a socket that a broadcast has closed raises.                *)
PingRefused(c) ==
    /\ stream[c] = "open" /\ closed[c]
    /\ Ends(c)
    /\ UNCHANGED closed

PingSent(c) ==
    /\ stream[c] = "pinging"
    /\ stream' = [stream EXCEPT ![c] = "open"]
    /\ UNCHANGED <<lastTs, step, sendVars, connections, base, closed,
                   link, peer, view>>

PingFails(c) ==
    /\ stream[c] = "pinging"
    /\ closed[c] \/ peer[c] = "gone"
    /\ closed' = [closed EXCEPT ![c] = TRUE]
    /\ Ends(c)

-----------------------------------------------------------------------------
(* The client.                                                             *)

Deliver(c) ==
    /\ peer[c] = "there" /\ link[c] # <<>>
    /\ view' = [view EXCEPT ![c] = Head(link[c])]
    /\ link' = [link EXCEPT ![c] = Tail(@)]
    /\ UNCHANGED <<lastTs, step, sendVars, streamVars, closed, peer>>

(* What is still on the way to a client that leaves is lost.               *)
Leave(c) ==
    /\ peer[c] = "there" /\ stream[c] \notin {"off", "ended"}
    /\ peer' = [peer EXCEPT ![c] = "gone"]
    /\ link' = [link EXCEPT ![c] = <<>>]
    /\ UNCHANGED <<lastTs, step, sendVars, streamVars, closed, view>>

-----------------------------------------------------------------------------
SendStarts(r) == \E c \in Client : StartSend(r, c) \/ SendRefused(r, c)

SendEnds(r) ==
    \E c \in Client : SendOk(r, c) \/ SendTimesOut(r, c) \/ SendErrors(r, c)

IngestStep(r) ==
    \/ Receive(r) \/ NoUpdate(r) \/ Update(r) \/ SendStarts(r) \/ SendEnds(r)
    \/ Gathered(r) \/ (\E c \in Client : CloseNext(r, c)) \/ Answer(r)

PingEnds(c) == PingSent(c) \/ PingFails(c)

StreamStep(c) ==
    \/ Reject(c) \/ SendSnapshot(c) \/ Register(c) \/ SnapshotFails(c)
    \/ ReceiveDisconnect(c) \/ Heartbeat(c) \/ PingRefused(c) \/ PingEnds(c)

ClientStep(c) == Deliver(c) \/ Leave(c)

Next ==
    \/ \E r \in Ingest : IngestStep(r)
    \/ \E c \in Client : StreamStep(c) \/ ClientStep(c)

Spec == Init /\ [][Next]_vars

-----------------------------------------------------------------------------
(* Properties.                                                             *)

(* A broadcast still has to send to c, to hear of c or to discard c.       *)
InBroadcast(c) == \E r \in Ingest : c \in todo[r] \cup waiting[r] \cup failed[r]

(* A viewer that stays registered is never left behind by a tick, however  *)
(* slow its transport is and however broadcasts overlap: when nothing is   *)
(* on its way to it, it shows the version of the store, unless no tick was *)
(* broadcast since it was registered.  (The tick of a reading applied      *)
(* while the snapshot drains is missed; the next one repairs the view.)    *)
SettledViewCurrent ==
    \A c \in connections :
        peer[c] = "there" /\ link[c] = <<>> /\ ~ InBroadcast(c)
            => view[c] = lastTs \/ base[c] = lastTs

(* The manager holds no socket whose handler has returned: a handler that  *)
(* ends on a disconnect, on a failed ping or after a broadcast discarded   *)
(* it leaves nothing behind, in whatever order the two happen.             *)
NoGhostSubscriber == \A c \in connections : stream[c] \in {"open", "pinging"}

(* A page that a broadcast discarded is not left open, with pings and no   *)
(* ticks: an unregistered socket whose handler still serves it is closed,  *)
(* which ends the handler, or is one a broadcast is about to close.        *)
NoOrphanStream ==
    \A c \in Client :
        stream[c] \in {"open", "pinging"} /\ c \notin connections
            => closed[c] \/ \E r \in Ingest : step[r] = "closing" /\ c \in failed[r]

(* The realtime page implements ReplicaView: ticks sent by overlapping     *)
(* ingests, snapshots, slow transports and failures never make a viewer go *)
(* back to an older state or show one the store never had.                 *)
Replica == INSTANCE ReplicaView
           WITH Viewer <- Client, latest <- lastTs, seen <- view
ImplementsReplica == Replica!Spec
=============================================================================
