---------------------------- MODULE SmallControl ----------------------------
(***************************************************************************)
(* Control of the pumps and set-points of one small lagoon: an audit row   *)
(* is committed, the request is resolved, a lock of the module is taken,   *)
(* the PLC is written, and the row is closed (routers/small/control.py,    *)
(* services/small_opcua_control.py, services/small_control_audit.py).      *)
(*                                                                         *)
(* The endpoints are plain functions: each request runs in a thread of its *)
(* own, and an action is what the thread does up to its next call to the   *)
(* database, to the lock or to the PLC.  A request holds the lock exactly  *)
(* while it is in one of the states of Locked.  The database and the PLC   *)
(* may fail at any call; a write that fails may have been applied, may     *)
(* never be, or may be applied later.  Other systems (a panel, the PLC's   *)
(* own program) write the same registers.  The process may crash.          *)
(***************************************************************************)
EXTENDS ControlTargets

CONSTANTS
    Request,   \* control requests
    Register,  \* registers of the PLCs of the lagoon
    Value,     \* what they may hold, in halves
    Configs,   \* the configurations the lagoon may have
    Asks,      \* what a request may ask
    Outside    \* the writes <<register, value>> of other systems

TagsOf(m) == {m.stateTag} \cup {m.actions[i].tag : i \in DOMAIN m.actions}
                          \cup {m.commands[i].tag : i \in DOMAIN m.commands}

(* A register is named by one tag, and its tag by one module: the code     *)
(* compares tags and locks modules, never addresses.                       *)
ASSUME AddressAssumption ==
    \A f \in Configs : \A m, n \in f.modules :
        \A t \in TagsOf(m), u \in TagsOf(n) :
            /\ Address(f, m, t) \in Register \cup {Absent}
            /\ Address(f, m, t) = Address(f, n, u) /\ Address(f, m, t) # Absent
                  => m = n /\ t = u

AllTargets == UNION {Targets(f, a) : f \in Configs, a \in Asks}

ASSUME ValueAssumption ==
    /\ Absent \notin Register \cup Request \cup AllTargets
    /\ Value \subseteq Int /\ On \in Value /\ Off \in Value
    /\ Outside \subseteq Register \X Value
    /\ \A a \in Asks : ~ IsPump(a) => a.value.number \in Value

VARIABLES
    config,    \* the configuration of the lagoon
    plc,       \* the registers
    driver,    \* the request that wrote each last, Absent if another system did
    late,      \* writes that failed and may still be applied
    at,        \* where each request is
    target,    \* what it writes, Absent until it is resolved
    previous,  \* the value it read before its write
    result,    \* how its operation on the PLC ended
    audit,     \* the status of its audit row
    before,    \* the value its write replaced (for the properties)
    disturbed  \* between its read and its write another system, or a late
               \* write of an earlier request, changed its register

vars == <<config, plc, driver, late, at, target, previous, result, audit,
          before, disturbed>>

Locked == {"connecting", "reading", "writing", "pulsing", "closing"}
At == Locked \cup {"idle", "locking", "auditing", "answered"}

TypeOK ==
    /\ config \in Configs
    /\ plc \in [Register -> Value]
    /\ driver \in [Register -> Request \cup {Absent}]
    /\ late \in SUBSET [by : Request, register : Register, value : Value]
    /\ at \in [Request -> At]
    /\ target \in [Request -> AllTargets \cup {Absent}]
    /\ previous \in [Request -> Value]
    /\ result \in [Request -> {"none", "success", "failed"}]
    /\ audit \in [Request -> {"none", "pending", "success", "failed"}]
    /\ before \in [Request -> Value]
    /\ disturbed \in SUBSET Request

Init ==
    /\ config \in Configs
    /\ plc = [n \in Register |-> Off]
    /\ driver = [n \in Register |-> Absent]
    /\ late = {}
    /\ at = [r \in Request |-> "idle"]
    /\ target = [r \in Request |-> Absent]
    /\ previous = [r \in Request |-> Off]
    /\ result = [r \in Request |-> "none"]
    /\ audit = [r \in Request |-> "none"]
    /\ before = [r \in Request |-> Off]
    /\ disturbed = {}

GoTo(r, s) == at' = [at EXCEPT ![r] = s]

Ends(r, s) == result' = [result EXCEPT ![r] = s]

-----------------------------------------------------------------------------
(* The request until it may write.                                         *)

BeginFails(r) ==
    /\ at[r] = "idle"
    /\ GoTo(r, "answered")
    /\ UNCHANGED <<config, plc, driver, late, target, previous, result, audit,
                   before, disturbed>>

Begins(r) ==
    /\ at[r] = "idle"
    /\ audit' = [audit EXCEPT ![r] = "pending"]
    /\ UNCHANGED <<config, plc, driver, late, previous, before, disturbed>>

Begin(r, ask) ==
    /\ Begins(r)
    /\ Supported(ask)
    /\ \E x \in Targets(config, ask) :
           /\ ~ IsPump(ask) => Accepted(x)
           /\ target' = [target EXCEPT ![r] = x]
    /\ GoTo(r, "locking")
    /\ UNCHANGED result

(* The request has no target, its action or its value is refused, or the   *)
(* configuration cannot be read.                                           *)
BeginRefused(r) ==
    /\ Begins(r)
    /\ Ends(r, "failed")
    /\ GoTo(r, "auditing")
    /\ UNCHANGED target

(* An error that is none of the module's own, such as a configured number  *)
(* that is not one or a file that is not YAML, is not caught.              *)
BeginRaises(r) ==
    /\ Begins(r)
    /\ GoTo(r, "answered")
    /\ UNCHANGED <<target, result>>

(* Seeded faults: only pulses are locked; each tag has a lock.             *)
Acquire_PulsesOnly(r) ==
    /\ at[r] = "locking"
    /\ \A q \in Request :
           at[q] \in Locked /\ IsPulse(target[q]) => Key(target[q]) # Key(target[r])
    /\ GoTo(r, "connecting")
    /\ UNCHANGED <<config, plc, driver, late, target, previous, result, audit,
                   before, disturbed>>

Acquire_PerTag(r) ==
    /\ at[r] = "locking"
    /\ \A q \in Request :
           at[q] \in Locked => target[q].register # target[r].register
    /\ GoTo(r, "connecting")
    /\ UNCHANGED <<config, plc, driver, late, target, previous, result, audit,
                   before, disturbed>>

Acquire(r) ==
    /\ at[r] = "locking"
    /\ \A q \in Request : at[q] \in Locked => Key(target[q]) # Key(target[r])
    /\ GoTo(r, "connecting")
    /\ UNCHANGED <<config, plc, driver, late, target, previous, result, audit,
                   before, disturbed>>

(* The client is made outside the try: its error releases the lock and is  *)
(* not caught.                                                             *)
FactoryRaises(r) ==
    /\ at[r] = "connecting"
    /\ GoTo(r, "answered")
    /\ UNCHANGED <<config, plc, driver, late, target, previous, result, audit,
                   before, disturbed>>

Connect(r) ==
    /\ at[r] = "connecting"
    /\ GoTo(r, IF IsPump(target[r].ask) THEN "writing" ELSE "reading")
    /\ UNCHANGED <<config, plc, driver, late, target, previous, result, audit,
                   before, disturbed>>

(* The connection or the read fails.                                       *)
Fails(r) ==
    /\ at[r] \in {"connecting", "reading"}
    /\ Ends(r, "failed")
    /\ GoTo(r, "closing")
    /\ UNCHANGED <<config, plc, driver, late, target, previous, audit, before,
                   disturbed>>

Read(r) ==
    /\ at[r] = "reading"
    /\ previous' = [previous EXCEPT ![r] = plc[target[r].register]]
    /\ GoTo(r, "writing")
    /\ UNCHANGED <<config, plc, driver, late, target, result, audit, before,
                   disturbed>>

-----------------------------------------------------------------------------
(* The writes.                                                             *)

Applies(r, n, v) ==
    /\ plc' = [plc EXCEPT ![n] = v]
    /\ driver' = [driver EXCEPT ![n] = r]

(* The call fails: it was applied, it never is, or it may be later.        *)
MayApply(r, n, v) ==
    \/ Applies(r, n, v) /\ UNCHANGED late
    \/ UNCHANGED <<plc, driver, late>>
    \/ /\ late' = late \cup {[by |-> r, register |-> n, value |-> v]}
       /\ UNCHANGED <<plc, driver>>

Write(r) ==
    /\ at[r] = "writing"
    /\ Applies(r, target[r].register, FirstWrite(target[r]))
    /\ before' = [before EXCEPT ![r] = plc[target[r].register]]
    /\ IF IsPulse(target[r])
       THEN GoTo(r, "pulsing") /\ UNCHANGED result
       ELSE GoTo(r, "closing") /\ Ends(r, "success")
    /\ UNCHANGED <<config, late, target, previous, audit, disturbed>>

(* A pulse whose first write fails is not reset.                           *)
WriteFails(r) ==
    /\ at[r] = "writing"
    /\ MayApply(r, target[r].register, FirstWrite(target[r]))
    /\ Ends(r, "failed")
    /\ GoTo(r, "closing")
    /\ UNCHANGED <<config, target, previous, audit, before, disturbed>>

(* The pulse has lasted: the coil is reset.                                *)
Reset(r) ==
    /\ at[r] = "pulsing"
    /\ Applies(r, target[r].register, Off)
    /\ Ends(r, "success")
    /\ GoTo(r, "closing")
    /\ UNCHANGED <<config, late, target, previous, audit, before, disturbed>>

(* Seeded fault: the error of the reset is swallowed.                      *)
ResetFails_Swallowed(r) ==
    /\ at[r] = "pulsing"
    /\ MayApply(r, target[r].register, Off)
    /\ Ends(r, "success")
    /\ GoTo(r, "closing")
    /\ UNCHANGED <<config, target, previous, audit, before, disturbed>>

ResetFails(r) ==
    /\ at[r] = "pulsing"
    /\ MayApply(r, target[r].register, Off)
    /\ Ends(r, "failed")
    /\ GoTo(r, "closing")
    /\ UNCHANGED <<config, target, previous, audit, before, disturbed>>

-----------------------------------------------------------------------------
(* The end of the request.                                                 *)

(* The client is disconnected, whatever that gives, and the lock released. *)
Close(r) ==
    /\ at[r] = "closing"
    /\ GoTo(r, "auditing")
    /\ UNCHANGED <<config, plc, driver, late, target, previous, result, audit,
                   before, disturbed>>

(* complete_control_audit or fail_control_audit.                           *)
EndAudit(r) ==
    /\ at[r] = "auditing"
    /\ audit' = [audit EXCEPT ![r] = result[r]]
    /\ GoTo(r, "answered")
    /\ UNCHANGED <<config, plc, driver, late, target, previous, result, before,
                   disturbed>>

EndAuditFails(r) ==
    /\ at[r] = "auditing"
    /\ GoTo(r, "answered")
    /\ UNCHANGED <<config, plc, driver, late, target, previous, result, audit,
                   before, disturbed>>

-----------------------------------------------------------------------------
(* What the requests do not control.                                       *)

(* The threads and their locks are gone; rows and registers remain.        *)
Crash ==
    /\ at' = [r \in Request |-> IF at[r] = "idle" THEN "idle" ELSE "answered"]
    /\ UNCHANGED <<config, plc, driver, late, target, previous, result, audit,
                   before, disturbed>>

Disturbs(n) ==
    disturbed' = disturbed \cup
        {r \in Request : at[r] = "writing" /\ target[r].register = n}

Land(w) ==
    /\ w \in late
    /\ Applies(w.by, w.register, w.value)
    /\ late' = late \ {w}
    /\ Disturbs(w.register)
    /\ UNCHANGED <<config, at, target, previous, result, audit, before>>

(* Another system writes a register.                                       *)
Other(w) ==
    /\ Applies(Absent, w[1], w[2])
    /\ Disturbs(w[1])
    /\ UNCHANGED <<config, late, at, target, previous, result, audit, before>>

-----------------------------------------------------------------------------
RequestBegins(r) ==
    \/ BeginFails(r) \/ (\E ask \in Asks : Begin(r, ask))
    \/ BeginRefused(r) \/ BeginRaises(r)

RequestStep(r) ==
    \/ Acquire(r) \/ FactoryRaises(r) \/ Connect(r) \/ Fails(r) \/ Read(r)
    \/ Write(r) \/ WriteFails(r) \/ Reset(r) \/ ResetFails(r)
    \/ Close(r) \/ EndAudit(r) \/ EndAuditFails(r)

Environment ==
    \/ Crash
    \/ \E w \in late : Land(w)
    \/ \E w \in Outside : Other(w)

Next ==
    \/ \E r \in Request : RequestBegins(r) \/ RequestStep(r)
    \/ Environment

Spec == Init /\ [][Next]_vars

-----------------------------------------------------------------------------
(* Properties.                                                             *)

(* The pulse of r is over, and did not go well or was not heard of.        *)
Broken(r) ==
    /\ at[r] \in {"closing", "auditing", "answered"}
    /\ result[r] # "success" /\ audit[r] # "success"

(* Two pulses never have two coils of one module on together, so a start   *)
(* and a stop cannot meet, whatever the order of the requests, unless a    *)
(* write of one of them failed or the process died; that one's row is not  *)
(* marked as a success.                                                    *)
PumpInterlock ==
    \A n, k \in Register :
        LET q == driver[n]   r == driver[k]
        IN  /\ n # k /\ q # Absent /\ r # Absent
            /\ plc[n] = On /\ plc[k] = On
            /\ IsPulse(target[q]) /\ IsPulse(target[r])
            /\ Key(target[q]) = Key(target[r])
            => Broken(q) \/ Broken(r)

(* The audit tells the truth about the equipment: no register is driven by *)
(* a request without a committed row, and a row marked as a success means  *)
(* that the value is there, or that the coil of the pulse is off, as long  *)
(* as nobody else wrote it; nothing of the request is still to be applied. *)
AuditTruthful ==
    /\ \A n \in Register : driver[n] # Absent =>
          LET r == driver[n]
          IN  /\ audit[r] # "none"
              /\ audit[r] = "success" =>
                    plc[n] = IF IsPulse(target[r]) THEN Off ELSE FirstWrite(target[r])
    /\ \A w \in late : audit[w.by] \in {"pending", "failed"}

(* The previous value an audit row records is the one the write replaced,  *)
(* however the writes of several requests overlap, unless in between the   *)
(* register was written by another system, or by a late write: one of an   *)
(* earlier request whose call failed and was applied after all.            *)
PreviousValueTrue ==
    \A r \in Request :
        audit[r] = "success" /\ ~ IsPump(target[r].ask) /\ r \notin disturbed
            => previous[r] = before[r]

(* The numbers a register of a command may hold.                           *)
Allowed(item) ==
    {v \in Value :
        /\ item.min # Absent => v >= item.min
        /\ item.max # Absent => v <= item.max
        /\ item.type \in DOMAIN Width =>
              /\ v % 2 = 0
              /\ 2 * TypeMin(item.type) <= v /\ v <= 2 * TypeMax(item.type)
        /\ item.type = "bool" => v \in {On, Off}}

(* Requests only drive registers that the configuration lets them write:   *)
(* never the state of the pump, and of a command only with a number that   *)
(* its type holds and its limits allow, even when a write lands late.      *)
DrivenWithinConfig ==
    \A n \in Register : driver[n] # Absent =>
        LET x == target[driver[n]]
        IN  /\ n = x.register /\ n # Address(config, x.module, x.module.stateTag)
            /\ x.module \in config.modules /\ x.ask.module \in {Absent, x.module.id}
            /\ ~ IsPump(x.ask) => plc[n] \in Allowed(x.item)
=============================================================================
