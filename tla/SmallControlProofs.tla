------------------------- MODULE SmallControlProofs -------------------------
EXTENDS SmallControl, TLAPS

(***************************************************************************)
(* Proofs about SmallControl: what holds for any requests, configurations, *)
(* registers and values, whatever fails and whenever the process dies.     *)
(***************************************************************************)

(* What a request asked is something its target answers.                   *)
Resolved(x) ==
    \E ask \in Asks : /\ x \in Targets(config, ask)
                      /\ ~ IsPump(ask) => Accepted(x)

(* A request has a target from the moment it waits for the lock.           *)
TargetOk ==
    \A r \in Request :
        /\ target[r] # Absent => Resolved(target[r])
        /\ at[r] \in Locked \cup {"locking"} => target[r] # Absent
        /\ at[r] = "idle" => target[r] = Absent

(* One request at a time holds the lock of a module.                       *)
LockOk ==
    \A q, r \in Request :
        at[q] \in Locked /\ at[r] \in Locked /\ Key(target[q]) = Key(target[r])
            => q = r

Over == {"closing", "auditing", "answered"}

(* The audit row, the result and the place of a request go together.       *)
RowOk ==
    \A r \in Request :
        /\ at[r] = "idle" => audit[r] = "none"
        /\ target[r] # Absent => audit[r] # "none"
        /\ result[r] = "success" => target[r] # Absent
        /\ result[r] # "none" => at[r] \in Over
        /\ at[r] \in {"closing", "auditing"} => result[r] # "none"
        /\ audit[r] \in {"success", "failed"} => result[r] = audit[r] /\ at[r] = "answered"

(* Only pulses are reset.                                                  *)
PulseOk == \A r \in Request : at[r] = "pulsing" => IsPulse(target[r])

(* What a request may ever write.                                          *)
Writes(x) == IF IsPulse(x) THEN {On, Off} ELSE {FirstWrite(x)}

(* A register last written by a request is the one of its target.          *)
DriverOk ==
    \A n \in Register : driver[n] # Absent =>
        LET r == driver[n]
        IN  /\ target[r] # Absent /\ target[r].register = n
            /\ at[r] \in {"pulsing"} \cup Over
            /\ plc[n] \in Writes(target[r])
            /\ result[r] = "success" /\ IsPulse(target[r]) => plc[n] = Off

(* A write that may still land is one of a request that failed or was lost.*)
LateOk ==
    \A w \in late :
        /\ target[w.by] # Absent /\ target[w.by].register = w.register
        /\ w.value \in Writes(target[w.by])
        /\ at[w.by] \in Over /\ result[w.by] = "failed"

(* What a request read is in its register until it writes.                 *)
ReadOk ==
    \A r \in Request :
        target[r] # Absent /\ ~ IsPump(target[r].ask) /\ r \notin disturbed =>
            /\ at[r] = "writing" => previous[r] = plc[target[r].register]
            /\ result[r] = "success" => previous[r] = before[r]

IInv == /\ TypeOK /\ TargetOk /\ LockOk /\ RowOk /\ PulseOk /\ DriverOk
        /\ LateOk /\ ReadOk

-----------------------------------------------------------------------------
(* Targets.                                                                *)

(* A target is in the configuration: its module, its tag, its register.    *)
LEMMA TargetFacts ==
    ASSUME NEW f \in Configs, NEW ask \in Asks, NEW x \in Targets(f, ask)
    PROVE  /\ x.ask = ask /\ x.module \in f.modules
           /\ x.register = Address(f, x.module, x.item.tag) /\ x.register # Absent
           /\ x.item.tag \in TagsOf(x.module) /\ x.item.tag # x.module.stateTag
           /\ ask.module \in {Absent, x.module.id}
           /\ x.register \in Register /\ FirstWrite(x) \in Value
<1>1. PICK m \in Candidates(f, ask) :
          /\ x = [module |-> m, item |-> Items(m, ask)[ask.item], ask |-> ask,
                  register |-> Address(f, m, Items(m, ask)[ask.item].tag)]
          /\ TagAllowed(m, Items(m, ask)[ask.item].tag)
          /\ Address(f, m, Items(m, ask)[ask.item].tag) # Absent
          /\ WellFormed(f, m, ask)
  BY DEF Targets, TargetOf, Writable
<1>2. /\ x.ask = ask /\ x.module = m /\ x.item = Items(m, ask)[ask.item]
      /\ x.register = Address(f, m, x.item.tag) /\ x.register # Absent
      /\ x.item.tag # m.stateTag
  BY <1>1 DEF TagAllowed
<1>3. m \in f.modules /\ ask.module \in {Absent, m.id} /\ ask.item \in DOMAIN Items(m, ask)
  BY <1>1 DEF Candidates, Defines
<1>4. x.item.tag \in TagsOf(m)
  BY <1>2, <1>3 DEF TagsOf, Items
<1>5. x.register \in Register
  BY <1>2, <1>3, <1>4, AddressAssumption
<1>6. FirstWrite(x) \in Value
  <2>1. CASE ~ IsPump(ask)
    BY <2>1, <1>2, ValueAssumption DEF FirstWrite
  <2>2. CASE IsPump(ask) /\ x.item.mode = "pulse"
    BY <2>2, <1>2, ValueAssumption DEF FirstWrite, IsPulse
  <2>3. CASE IsPump(ask) /\ x.item.mode # "pulse"
    <3>1. x.item.value \in {On, Off}
      BY <2>3, <1>1, <1>2 DEF WellFormed
    <3> QED BY <2>3, <3>1, <1>2, ValueAssumption DEF FirstWrite, IsPulse
  <2> QED BY <2>1, <2>2, <2>3
<1> QED BY <1>2, <1>3, <1>4, <1>5, <1>6

(* Two targets with one register have one module, hence one lock.          *)
LEMMA OneModule ==
    ASSUME NEW f \in Configs, NEW a \in Asks, NEW b \in Asks,
           NEW x \in Targets(f, a), NEW y \in Targets(f, b),
           x.register = y.register
    PROVE  x.module = y.module /\ Key(x) = Key(y)
<1>1. /\ x.module \in f.modules /\ x.item.tag \in TagsOf(x.module)
      /\ x.register = Address(f, x.module, x.item.tag) /\ x.register # Absent
  BY TargetFacts
<1>2. /\ y.module \in f.modules /\ y.item.tag \in TagsOf(y.module)
      /\ y.register = Address(f, y.module, y.item.tag)
  BY TargetFacts
<1>3. x.module = y.module
  BY <1>1, <1>2, AddressAssumption
<1> QED BY <1>3 DEF Key

(* What IInv says of a request that has a target.                          *)
LEMMA HasTarget ==
    ASSUME TypeOK, TargetOk, NEW r \in Request, target[r] # Absent
    PROVE  /\ target[r] \in AllTargets /\ target[r].register \in Register
           /\ FirstWrite(target[r]) \in Value
           /\ Writes(target[r]) \subseteq Value
<1>1. PICK ask \in Asks : target[r] \in Targets(config, ask)
  BY DEF TargetOk, Resolved
<1>2. target[r].register \in Register /\ FirstWrite(target[r]) \in Value
  BY <1>1, TargetFacts DEF TypeOK
<1> QED BY <1>1, <1>2, ValueAssumption DEF Writes, TypeOK

LEMMA SameRegister ==
    ASSUME TypeOK, TargetOk, NEW q \in Request, NEW r \in Request,
           target[q] # Absent, target[r] # Absent,
           target[q].register = target[r].register
    PROVE  target[q].module = target[r].module /\ Key(target[q]) = Key(target[r])
<1>1. PICK a \in Asks : target[q] \in Targets(config, a)
  BY DEF TargetOk, Resolved
<1>2. PICK b \in Asks : target[r] \in Targets(config, b)
  BY DEF TargetOk, Resolved
<1> QED BY <1>1, <1>2, OneModule DEF TypeOK

(* The requests that hold a lock write registers of their own.             *)
LEMMA OwnRegister ==
    ASSUME TypeOK, TargetOk, LockOk, NEW q \in Request, NEW r \in Request,
           at[q] \in Locked, at[r] \in Locked,
           target[q].register = target[r].register
    PROVE  q = r
BY SameRegister DEF TargetOk, LockOk

LEMMA InitInv == Init => IInv
BY ValueAssumption DEF Init, IInv, TypeOK, TargetOk, LockOk, RowOk, PulseOk,
   DriverOk, LateOk, ReadOk, At, Locked

(* Every step keeps the types.                                             *)
LEMMA NextType == IInv /\ [Next]_vars => TypeOK'
<1> SUFFICES ASSUME IInv, [Next]_vars PROVE TypeOK'
  OBVIOUS
<1> USE ValueAssumption DEF IInv, TypeOK, At, Locked, GoTo, Ends
<1>1. ASSUME NEW r \in Request, BeginFails(r) PROVE TypeOK'
  BY <1>1 DEF BeginFails
<1>2. ASSUME NEW r \in Request, NEW ask \in Asks, Begin(r, ask) PROVE TypeOK'
  <2>1. PICK x \in Targets(config, ask) : target' = [target EXCEPT ![r] = x]
    BY <1>2 DEF Begin
  <2>2. x \in AllTargets
    BY <2>1 DEF AllTargets
  <2> QED BY <1>2, <2>1, <2>2 DEF Begin, Begins
<1>3. ASSUME NEW r \in Request, BeginRefused(r) PROVE TypeOK'
  BY <1>3 DEF BeginRefused, Begins
<1>4. ASSUME NEW r \in Request, BeginRaises(r) PROVE TypeOK'
  BY <1>4 DEF BeginRaises, Begins
<1>5. ASSUME NEW r \in Request, Acquire(r) PROVE TypeOK'
  BY <1>5 DEF Acquire
<1>6. ASSUME NEW r \in Request, FactoryRaises(r) PROVE TypeOK'
  BY <1>6 DEF FactoryRaises
<1>7. ASSUME NEW r \in Request, Connect(r) PROVE TypeOK'
  BY <1>7 DEF Connect
<1>8. ASSUME NEW r \in Request, Fails(r) PROVE TypeOK'
  BY <1>8 DEF Fails
<1>9. ASSUME NEW r \in Request, Read(r) PROVE TypeOK'
  <2>1. target[r] # Absent
    BY <1>9 DEF Read, TargetOk, Locked
  <2> QED BY <1>9, <2>1, HasTarget DEF Read
<1>10. ASSUME NEW r \in Request, Write(r) PROVE TypeOK'
  <2>1. target[r] # Absent
    BY <1>10 DEF Write, TargetOk, Locked
  <2>2. target[r].register \in Register /\ FirstWrite(target[r]) \in Value
    BY <2>1, HasTarget
  <2> QED BY <1>10, <2>2 DEF Write, Applies
<1>11. ASSUME NEW r \in Request, WriteFails(r) PROVE TypeOK'
  <2>1. target[r] # Absent
    BY <1>11 DEF WriteFails, TargetOk, Locked
  <2>2. target[r].register \in Register /\ FirstWrite(target[r]) \in Value
    BY <2>1, HasTarget
  <2> QED BY <1>11, <2>2 DEF WriteFails, MayApply, Applies
<1>12. ASSUME NEW r \in Request, Reset(r) PROVE TypeOK'
  <2>1. target[r] # Absent
    BY <1>12 DEF Reset, TargetOk, Locked
  <2>2. target[r].register \in Register /\ FirstWrite(target[r]) \in Value
    BY <2>1, HasTarget
  <2> QED BY <1>12, <2>2 DEF Reset, Applies
<1>13. ASSUME NEW r \in Request, ResetFails(r) PROVE TypeOK'
  <2>1. target[r] # Absent
    BY <1>13 DEF ResetFails, TargetOk, Locked
  <2>2. target[r].register \in Register /\ FirstWrite(target[r]) \in Value
    BY <2>1, HasTarget
  <2> QED BY <1>13, <2>2 DEF ResetFails, MayApply, Applies
<1>14. ASSUME NEW r \in Request, Close(r) PROVE TypeOK'
  BY <1>14 DEF Close
<1>15. ASSUME NEW r \in Request, EndAudit(r) PROVE TypeOK'
  BY <1>15 DEF EndAudit
<1>16. ASSUME NEW r \in Request, EndAuditFails(r) PROVE TypeOK'
  BY <1>16 DEF EndAuditFails
<1>17. CASE Crash
  BY <1>17 DEF Crash
<1>18. ASSUME NEW w \in late, Land(w) PROVE TypeOK'
  BY <1>18 DEF Land, Applies, Disturbs
<1>19. ASSUME NEW w \in Outside, Other(w) PROVE TypeOK'
  BY <1>19 DEF Other, Applies, Disturbs
<1>20. CASE UNCHANGED vars
  BY <1>20 DEF vars
<1> QED
  BY <1>1, <1>2, <1>3, <1>4, <1>5, <1>6, <1>7, <1>8, <1>9, <1>10, <1>11,
     <1>12, <1>13, <1>14, <1>15, <1>16, <1>17, <1>18, <1>19, <1>20
     DEF Next, RequestBegins, RequestStep, Environment

(* Targets are set once, before the lock.                                  *)
LEMMA NextTarget == IInv /\ [Next]_vars => TargetOk'
<1> SUFFICES ASSUME IInv, [Next]_vars PROVE TargetOk'
  OBVIOUS
<1> USE DEF IInv, TypeOK, At, Locked, GoTo, Ends, TargetOk, Resolved
<1>1. ASSUME NEW r \in Request, BeginFails(r) PROVE TargetOk'
  BY <1>1 DEF BeginFails
<1>2. ASSUME NEW r \in Request, NEW ask \in Asks, Begin(r, ask) PROVE TargetOk'
  <2>1. PICK x \in Targets(config, ask) :
            /\ ~ IsPump(ask) => Accepted(x)
            /\ target' = [target EXCEPT ![r] = x]
    BY <1>2 DEF Begin
  <2>2. x \in AllTargets /\ x # Absent
    BY <2>1, ValueAssumption DEF AllTargets
  <2> QED BY <1>2, <2>1, <2>2 DEF Begin, Begins
<1>3. ASSUME NEW r \in Request, BeginRefused(r) PROVE TargetOk'
  BY <1>3 DEF BeginRefused, Begins
<1>4. ASSUME NEW r \in Request, BeginRaises(r) PROVE TargetOk'
  BY <1>4 DEF BeginRaises, Begins
<1>5. ASSUME NEW r \in Request, Acquire(r) PROVE TargetOk'
  BY <1>5 DEF Acquire
<1>6. ASSUME NEW r \in Request, FactoryRaises(r) PROVE TargetOk'
  BY <1>6 DEF FactoryRaises
<1>7. ASSUME NEW r \in Request, Connect(r) PROVE TargetOk'
  BY <1>7 DEF Connect
<1>8. ASSUME NEW r \in Request, Fails(r) PROVE TargetOk'
  BY <1>8 DEF Fails
<1>9. ASSUME NEW r \in Request, Read(r) PROVE TargetOk'
  BY <1>9 DEF Read
<1>10. ASSUME NEW r \in Request, Write(r) PROVE TargetOk'
  BY <1>10 DEF Write, Applies
<1>11. ASSUME NEW r \in Request, WriteFails(r) PROVE TargetOk'
  BY <1>11 DEF WriteFails, MayApply, Applies
<1>12. ASSUME NEW r \in Request, Reset(r) PROVE TargetOk'
  BY <1>12 DEF Reset, Applies
<1>13. ASSUME NEW r \in Request, ResetFails(r) PROVE TargetOk'
  BY <1>13 DEF ResetFails, MayApply, Applies
<1>14. ASSUME NEW r \in Request, Close(r) PROVE TargetOk'
  BY <1>14 DEF Close
<1>15. ASSUME NEW r \in Request, EndAudit(r) PROVE TargetOk'
  BY <1>15 DEF EndAudit
<1>16. ASSUME NEW r \in Request, EndAuditFails(r) PROVE TargetOk'
  BY <1>16 DEF EndAuditFails
<1>17. CASE Crash
  BY <1>17 DEF Crash
<1>18. ASSUME NEW w \in late, Land(w) PROVE TargetOk'
  BY <1>18 DEF Land, Applies, Disturbs
<1>19. ASSUME NEW w \in Outside, Other(w) PROVE TargetOk'
  BY <1>19 DEF Other, Applies, Disturbs
<1>20. CASE UNCHANGED vars
  BY <1>20 DEF vars
<1> QED
  BY <1>1, <1>2, <1>3, <1>4, <1>5, <1>6, <1>7, <1>8, <1>9, <1>10, <1>11,
     <1>12, <1>13, <1>14, <1>15, <1>16, <1>17, <1>18, <1>19, <1>20
     DEF Next, RequestBegins, RequestStep, Environment

(* The lock is taken when no request of the module has it.                *)
LEMMA NextLock == IInv /\ [Next]_vars => LockOk'
<1> SUFFICES ASSUME IInv, [Next]_vars PROVE LockOk'
  OBVIOUS
<1> USE DEF IInv, TypeOK, At, Locked, GoTo, Ends, LockOk, TargetOk
<1>1. ASSUME NEW r \in Request, BeginFails(r) PROVE LockOk'
  BY <1>1 DEF BeginFails
<1>2. ASSUME NEW r \in Request, NEW ask \in Asks, Begin(r, ask) PROVE LockOk'
  BY <1>2 DEF Begin, Begins
<1>3. ASSUME NEW r \in Request, BeginRefused(r) PROVE LockOk'
  BY <1>3 DEF BeginRefused, Begins
<1>4. ASSUME NEW r \in Request, BeginRaises(r) PROVE LockOk'
  BY <1>4 DEF BeginRaises, Begins
<1>5. ASSUME NEW r \in Request, Acquire(r) PROVE LockOk'
  BY <1>5 DEF Acquire
<1>6. ASSUME NEW r \in Request, FactoryRaises(r) PROVE LockOk'
  BY <1>6 DEF FactoryRaises
<1>7. ASSUME NEW r \in Request, Connect(r) PROVE LockOk'
  BY <1>7 DEF Connect
<1>8. ASSUME NEW r \in Request, Fails(r) PROVE LockOk'
  BY <1>8 DEF Fails
<1>9. ASSUME NEW r \in Request, Read(r) PROVE LockOk'
  BY <1>9 DEF Read
<1>10. ASSUME NEW r \in Request, Write(r) PROVE LockOk'
  BY <1>10 DEF Write, Applies
<1>11. ASSUME NEW r \in Request, WriteFails(r) PROVE LockOk'
  BY <1>11 DEF WriteFails, MayApply, Applies
<1>12. ASSUME NEW r \in Request, Reset(r) PROVE LockOk'
  BY <1>12 DEF Reset, Applies
<1>13. ASSUME NEW r \in Request, ResetFails(r) PROVE LockOk'
  BY <1>13 DEF ResetFails, MayApply, Applies
<1>14. ASSUME NEW r \in Request, Close(r) PROVE LockOk'
  BY <1>14 DEF Close
<1>15. ASSUME NEW r \in Request, EndAudit(r) PROVE LockOk'
  BY <1>15 DEF EndAudit
<1>16. ASSUME NEW r \in Request, EndAuditFails(r) PROVE LockOk'
  BY <1>16 DEF EndAuditFails
<1>17. CASE Crash
  BY <1>17 DEF Crash
<1>18. ASSUME NEW w \in late, Land(w) PROVE LockOk'
  BY <1>18 DEF Land, Applies, Disturbs
<1>19. ASSUME NEW w \in Outside, Other(w) PROVE LockOk'
  BY <1>19 DEF Other, Applies, Disturbs
<1>20. CASE UNCHANGED vars
  BY <1>20 DEF vars
<1> QED
  BY <1>1, <1>2, <1>3, <1>4, <1>5, <1>6, <1>7, <1>8, <1>9, <1>10, <1>11,
     <1>12, <1>13, <1>14, <1>15, <1>16, <1>17, <1>18, <1>19, <1>20
     DEF Next, RequestBegins, RequestStep, Environment

(* Rows are opened before everything and closed after everything.         *)
LEMMA NextRow == IInv /\ [Next]_vars => RowOk'
<1> SUFFICES ASSUME IInv, [Next]_vars PROVE RowOk'
  OBVIOUS
<1> USE DEF IInv, TypeOK, At, Locked, GoTo, Ends, RowOk, TargetOk, Over
<1>1. ASSUME NEW r \in Request, BeginFails(r) PROVE RowOk'
  BY <1>1 DEF BeginFails
<1>2. ASSUME NEW r \in Request, NEW ask \in Asks, Begin(r, ask) PROVE RowOk'
  BY <1>2 DEF Begin, Begins
<1>3. ASSUME NEW r \in Request, BeginRefused(r) PROVE RowOk'
  BY <1>3 DEF BeginRefused, Begins
<1>4. ASSUME NEW r \in Request, BeginRaises(r) PROVE RowOk'
  BY <1>4 DEF BeginRaises, Begins
<1>5. ASSUME NEW r \in Request, Acquire(r) PROVE RowOk'
  BY <1>5 DEF Acquire
<1>6. ASSUME NEW r \in Request, FactoryRaises(r) PROVE RowOk'
  BY <1>6 DEF FactoryRaises
<1>7. ASSUME NEW r \in Request, Connect(r) PROVE RowOk'
  BY <1>7 DEF Connect
<1>8. ASSUME NEW r \in Request, Fails(r) PROVE RowOk'
  BY <1>8 DEF Fails
<1>9. ASSUME NEW r \in Request, Read(r) PROVE RowOk'
  BY <1>9 DEF Read
<1>10. ASSUME NEW r \in Request, Write(r) PROVE RowOk'
  BY <1>10 DEF Write, Applies
<1>11. ASSUME NEW r \in Request, WriteFails(r) PROVE RowOk'
  BY <1>11 DEF WriteFails, MayApply, Applies
<1>12. ASSUME NEW r \in Request, Reset(r) PROVE RowOk'
  BY <1>12 DEF Reset, Applies
<1>13. ASSUME NEW r \in Request, ResetFails(r) PROVE RowOk'
  BY <1>13 DEF ResetFails, MayApply, Applies
<1>14. ASSUME NEW r \in Request, Close(r) PROVE RowOk'
  BY <1>14 DEF Close
<1>15. ASSUME NEW r \in Request, EndAudit(r) PROVE RowOk'
  BY <1>15 DEF EndAudit
<1>16. ASSUME NEW r \in Request, EndAuditFails(r) PROVE RowOk'
  BY <1>16 DEF EndAuditFails
<1>17. CASE Crash
  BY <1>17 DEF Crash
<1>18. ASSUME NEW w \in late, Land(w) PROVE RowOk'
  BY <1>18 DEF Land, Applies, Disturbs
<1>19. ASSUME NEW w \in Outside, Other(w) PROVE RowOk'
  BY <1>19 DEF Other, Applies, Disturbs
<1>20. CASE UNCHANGED vars
  BY <1>20 DEF vars
<1> QED
  BY <1>1, <1>2, <1>3, <1>4, <1>5, <1>6, <1>7, <1>8, <1>9, <1>10, <1>11,
     <1>12, <1>13, <1>14, <1>15, <1>16, <1>17, <1>18, <1>19, <1>20
     DEF Next, RequestBegins, RequestStep, Environment

(* A pulse is what is reset.                                               *)
LEMMA NextPulse == IInv /\ [Next]_vars => PulseOk'
<1> SUFFICES ASSUME IInv, [Next]_vars PROVE PulseOk'
  OBVIOUS
<1> USE DEF IInv, TypeOK, At, Locked, GoTo, Ends, PulseOk, TargetOk
<1>1. ASSUME NEW r \in Request, BeginFails(r) PROVE PulseOk'
  BY <1>1 DEF BeginFails
<1>2. ASSUME NEW r \in Request, NEW ask \in Asks, Begin(r, ask) PROVE PulseOk'
  BY <1>2 DEF Begin, Begins
<1>3. ASSUME NEW r \in Request, BeginRefused(r) PROVE PulseOk'
  BY <1>3 DEF BeginRefused, Begins
<1>4. ASSUME NEW r \in Request, BeginRaises(r) PROVE PulseOk'
  BY <1>4 DEF BeginRaises, Begins
<1>5. ASSUME NEW r \in Request, Acquire(r) PROVE PulseOk'
  BY <1>5 DEF Acquire
<1>6. ASSUME NEW r \in Request, FactoryRaises(r) PROVE PulseOk'
  BY <1>6 DEF FactoryRaises
<1>7. ASSUME NEW r \in Request, Connect(r) PROVE PulseOk'
  BY <1>7 DEF Connect
<1>8. ASSUME NEW r \in Request, Fails(r) PROVE PulseOk'
  BY <1>8 DEF Fails
<1>9. ASSUME NEW r \in Request, Read(r) PROVE PulseOk'
  BY <1>9 DEF Read
<1>10. ASSUME NEW r \in Request, Write(r) PROVE PulseOk'
  BY <1>10 DEF Write, Applies
<1>11. ASSUME NEW r \in Request, WriteFails(r) PROVE PulseOk'
  BY <1>11 DEF WriteFails, MayApply, Applies
<1>12. ASSUME NEW r \in Request, Reset(r) PROVE PulseOk'
  BY <1>12 DEF Reset, Applies
<1>13. ASSUME NEW r \in Request, ResetFails(r) PROVE PulseOk'
  BY <1>13 DEF ResetFails, MayApply, Applies
<1>14. ASSUME NEW r \in Request, Close(r) PROVE PulseOk'
  BY <1>14 DEF Close
<1>15. ASSUME NEW r \in Request, EndAudit(r) PROVE PulseOk'
  BY <1>15 DEF EndAudit
<1>16. ASSUME NEW r \in Request, EndAuditFails(r) PROVE PulseOk'
  BY <1>16 DEF EndAuditFails
<1>17. CASE Crash
  BY <1>17 DEF Crash
<1>18. ASSUME NEW w \in late, Land(w) PROVE PulseOk'
  BY <1>18 DEF Land, Applies, Disturbs
<1>19. ASSUME NEW w \in Outside, Other(w) PROVE PulseOk'
  BY <1>19 DEF Other, Applies, Disturbs
<1>20. CASE UNCHANGED vars
  BY <1>20 DEF vars
<1> QED
  BY <1>1, <1>2, <1>3, <1>4, <1>5, <1>6, <1>7, <1>8, <1>9, <1>10, <1>11,
     <1>12, <1>13, <1>14, <1>15, <1>16, <1>17, <1>18, <1>19, <1>20
     DEF Next, RequestBegins, RequestStep, Environment

(* A register keeps what its driver wrote.                                 *)
LEMMA NextDriver == IInv /\ [Next]_vars => DriverOk'
<1> SUFFICES ASSUME IInv, [Next]_vars PROVE DriverOk'
  OBVIOUS
<1> USE DEF IInv, TypeOK, At, Locked, GoTo, Ends, DriverOk, Over
<1>1. ASSUME NEW r \in Request, BeginFails(r) PROVE DriverOk'
  BY <1>1 DEF BeginFails
<1>2. ASSUME NEW r \in Request, NEW ask \in Asks, Begin(r, ask) PROVE DriverOk'
  <2>1. \A n \in Register : driver[n] # r
    BY <1>2, ValueAssumption DEF Begin, Begins
  <2> QED BY <1>2, <2>1 DEF Begin, Begins
<1>3. ASSUME NEW r \in Request, BeginRefused(r) PROVE DriverOk'
  BY <1>3 DEF BeginRefused, Begins
<1>4. ASSUME NEW r \in Request, BeginRaises(r) PROVE DriverOk'
  BY <1>4 DEF BeginRaises, Begins
<1>5. ASSUME NEW r \in Request, Acquire(r) PROVE DriverOk'
  BY <1>5 DEF Acquire
<1>6. ASSUME NEW r \in Request, FactoryRaises(r) PROVE DriverOk'
  BY <1>6 DEF FactoryRaises
<1>7. ASSUME NEW r \in Request, Connect(r) PROVE DriverOk'
  BY <1>7 DEF Connect
<1>8. ASSUME NEW r \in Request, Fails(r) PROVE DriverOk'
  BY <1>8 DEF Fails
<1>9. ASSUME NEW r \in Request, Read(r) PROVE DriverOk'
  BY <1>9 DEF Read
<1>10. ASSUME NEW r \in Request, Write(r) PROVE DriverOk'
  <2>1. target[r] # Absent /\ target[r].register \in Register
    BY <1>10, HasTarget DEF Write, TargetOk
  <2>2. result[r] = "none"
    BY <1>10 DEF Write, RowOk, Over
  <2>3. FirstWrite(target[r]) \in Writes(target[r])
        /\ (IsPulse(target[r]) => Off \in Writes(target[r]))
        /\ (at[r] = "pulsing" => IsPulse(target[r]))
    BY <1>10 DEF Write, Writes, FirstWrite, PulseOk
  <2> QED BY <1>10, <2>1, <2>2, <2>3 DEF Write, Applies
<1>11. ASSUME NEW r \in Request, WriteFails(r) PROVE DriverOk'
  <2>1. target[r] # Absent /\ target[r].register \in Register
    BY <1>11, HasTarget DEF WriteFails, TargetOk
  <2>2. result[r] = "none"
    BY <1>11 DEF WriteFails, RowOk, Over
  <2>3. FirstWrite(target[r]) \in Writes(target[r])
        /\ (IsPulse(target[r]) => Off \in Writes(target[r]))
        /\ (at[r] = "pulsing" => IsPulse(target[r]))
    BY <1>11 DEF WriteFails, Writes, FirstWrite, PulseOk
  <2> QED BY <1>11, <2>1, <2>2, <2>3 DEF WriteFails, MayApply, Applies
<1>12. ASSUME NEW r \in Request, Reset(r) PROVE DriverOk'
  <2>1. target[r] # Absent /\ target[r].register \in Register
    BY <1>12, HasTarget DEF Reset, TargetOk
  <2>2. result[r] = "none"
    BY <1>12 DEF Reset, RowOk, Over
  <2>3. FirstWrite(target[r]) \in Writes(target[r])
        /\ (IsPulse(target[r]) => Off \in Writes(target[r]))
        /\ (at[r] = "pulsing" => IsPulse(target[r]))
    BY <1>12 DEF Reset, Writes, FirstWrite, PulseOk
  <2> QED BY <1>12, <2>1, <2>2, <2>3 DEF Reset, Applies
<1>13. ASSUME NEW r \in Request, ResetFails(r) PROVE DriverOk'
  <2>1. target[r] # Absent /\ target[r].register \in Register
    BY <1>13, HasTarget DEF ResetFails, TargetOk
  <2>2. result[r] = "none"
    BY <1>13 DEF ResetFails, RowOk, Over
  <2>3. FirstWrite(target[r]) \in Writes(target[r])
        /\ (IsPulse(target[r]) => Off \in Writes(target[r]))
        /\ (at[r] = "pulsing" => IsPulse(target[r]))
    BY <1>13 DEF ResetFails, Writes, FirstWrite, PulseOk
  <2> QED BY <1>13, <2>1, <2>2, <2>3 DEF ResetFails, MayApply, Applies
<1>14. ASSUME NEW r \in Request, Close(r) PROVE DriverOk'
  BY <1>14 DEF Close
<1>15. ASSUME NEW r \in Request, EndAudit(r) PROVE DriverOk'
  BY <1>15 DEF EndAudit
<1>16. ASSUME NEW r \in Request, EndAuditFails(r) PROVE DriverOk'
  BY <1>16 DEF EndAuditFails
<1>17. CASE Crash
  BY <1>17 DEF Crash
<1>18. ASSUME NEW w \in late, Land(w) PROVE DriverOk'
  <2>1. /\ w.by \in Request /\ w.register \in Register
        /\ target[w.by] # Absent /\ target[w.by].register = w.register
        /\ w.value \in Writes(target[w.by]) /\ at[w.by] \in Over
        /\ result[w.by] = "failed"
    BY <1>18 DEF Land, LateOk
  <2> QED BY <1>18, <2>1 DEF Land, Applies
<1>19. ASSUME NEW w \in Outside, Other(w) PROVE DriverOk'
  BY <1>19 DEF Other, Applies, Disturbs
<1>20. CASE UNCHANGED vars
  BY <1>20 DEF vars
<1> QED
  BY <1>1, <1>2, <1>3, <1>4, <1>5, <1>6, <1>7, <1>8, <1>9, <1>10, <1>11,
     <1>12, <1>13, <1>14, <1>15, <1>16, <1>17, <1>18, <1>19, <1>20
     DEF Next, RequestBegins, RequestStep, Environment

(* Late writes are of requests that are over.                              *)
LEMMA NextLate == IInv /\ [Next]_vars => LateOk'
<1> SUFFICES ASSUME IInv, [Next]_vars PROVE LateOk'
  OBVIOUS
<1> USE DEF IInv, TypeOK, At, Locked, GoTo, Ends, LateOk, Over
<1>1. ASSUME NEW r \in Request, BeginFails(r) PROVE LateOk'
  BY <1>1 DEF BeginFails
<1>2. ASSUME NEW r \in Request, NEW ask \in Asks, Begin(r, ask) PROVE LateOk'
  BY <1>2 DEF Begin, Begins
<1>3. ASSUME NEW r \in Request, BeginRefused(r) PROVE LateOk'
  BY <1>3 DEF BeginRefused, Begins
<1>4. ASSUME NEW r \in Request, BeginRaises(r) PROVE LateOk'
  BY <1>4 DEF BeginRaises, Begins
<1>5. ASSUME NEW r \in Request, Acquire(r) PROVE LateOk'
  BY <1>5 DEF Acquire
<1>6. ASSUME NEW r \in Request, FactoryRaises(r) PROVE LateOk'
  BY <1>6 DEF FactoryRaises
<1>7. ASSUME NEW r \in Request, Connect(r) PROVE LateOk'
  BY <1>7 DEF Connect
<1>8. ASSUME NEW r \in Request, Fails(r) PROVE LateOk'
  BY <1>8 DEF Fails
<1>9. ASSUME NEW r \in Request, Read(r) PROVE LateOk'
  BY <1>9 DEF Read
<1>10. ASSUME NEW r \in Request, Write(r) PROVE LateOk'
  <2>1. target[r] # Absent /\ target[r].register \in Register
    BY <1>10, HasTarget DEF Write, TargetOk
  <2>2. result[r] = "none"
    BY <1>10 DEF Write, RowOk, Over
  <2>3. FirstWrite(target[r]) \in Writes(target[r])
        /\ (IsPulse(target[r]) => Off \in Writes(target[r]))
        /\ (at[r] = "pulsing" => IsPulse(target[r]))
    BY <1>10 DEF Write, Writes, FirstWrite, PulseOk
  <2> QED BY <1>10, <2>1, <2>2, <2>3 DEF Write, Applies
<1>11. ASSUME NEW r \in Request, WriteFails(r) PROVE LateOk'
  <2>1. target[r] # Absent /\ target[r].register \in Register
    BY <1>11, HasTarget DEF WriteFails, TargetOk
  <2>2. result[r] = "none"
    BY <1>11 DEF WriteFails, RowOk, Over
  <2>3. FirstWrite(target[r]) \in Writes(target[r])
        /\ (IsPulse(target[r]) => Off \in Writes(target[r]))
        /\ (at[r] = "pulsing" => IsPulse(target[r]))
    BY <1>11 DEF WriteFails, Writes, FirstWrite, PulseOk
  <2> QED BY <1>11, <2>1, <2>2, <2>3 DEF WriteFails, MayApply, Applies
<1>12. ASSUME NEW r \in Request, Reset(r) PROVE LateOk'
  <2>1. target[r] # Absent /\ target[r].register \in Register
    BY <1>12, HasTarget DEF Reset, TargetOk
  <2>2. result[r] = "none"
    BY <1>12 DEF Reset, RowOk, Over
  <2>3. FirstWrite(target[r]) \in Writes(target[r])
        /\ (IsPulse(target[r]) => Off \in Writes(target[r]))
        /\ (at[r] = "pulsing" => IsPulse(target[r]))
    BY <1>12 DEF Reset, Writes, FirstWrite, PulseOk
  <2> QED BY <1>12, <2>1, <2>2, <2>3 DEF Reset, Applies
<1>13. ASSUME NEW r \in Request, ResetFails(r) PROVE LateOk'
  <2>1. target[r] # Absent /\ target[r].register \in Register
    BY <1>13, HasTarget DEF ResetFails, TargetOk
  <2>2. result[r] = "none"
    BY <1>13 DEF ResetFails, RowOk, Over
  <2>3. FirstWrite(target[r]) \in Writes(target[r])
        /\ (IsPulse(target[r]) => Off \in Writes(target[r]))
        /\ (at[r] = "pulsing" => IsPulse(target[r]))
    BY <1>13 DEF ResetFails, Writes, FirstWrite, PulseOk
  <2> QED BY <1>13, <2>1, <2>2, <2>3 DEF ResetFails, MayApply, Applies
<1>14. ASSUME NEW r \in Request, Close(r) PROVE LateOk'
  BY <1>14 DEF Close
<1>15. ASSUME NEW r \in Request, EndAudit(r) PROVE LateOk'
  BY <1>15 DEF EndAudit
<1>16. ASSUME NEW r \in Request, EndAuditFails(r) PROVE LateOk'
  BY <1>16 DEF EndAuditFails
<1>17. CASE Crash
  BY <1>17 DEF Crash
<1>18. ASSUME NEW w \in late, Land(w) PROVE LateOk'
  BY <1>18 DEF Land, Applies, Disturbs
<1>19. ASSUME NEW w \in Outside, Other(w) PROVE LateOk'
  BY <1>19 DEF Other, Applies, Disturbs
<1>20. CASE UNCHANGED vars
  BY <1>20 DEF vars
<1> QED
  BY <1>1, <1>2, <1>3, <1>4, <1>5, <1>6, <1>7, <1>8, <1>9, <1>10, <1>11,
     <1>12, <1>13, <1>14, <1>15, <1>16, <1>17, <1>18, <1>19, <1>20
     DEF Next, RequestBegins, RequestStep, Environment

(* Only another system, or a late write of an earlier request, changes     *)
(* what a request has read.                                                *)
LEMMA NextRead == IInv /\ [Next]_vars => ReadOk'
<1> SUFFICES ASSUME IInv, [Next]_vars PROVE ReadOk'
  OBVIOUS
<1> USE DEF IInv, TypeOK, At, Locked, GoTo, Ends, ReadOk
<1>1. ASSUME NEW r \in Request, BeginFails(r) PROVE ReadOk'
  BY <1>1 DEF BeginFails
<1>2. ASSUME NEW r \in Request, NEW ask \in Asks, Begin(r, ask) PROVE ReadOk'
  <2>1. target'[r] # Absent => previous'[r] = previous[r] /\ at'[r] = "locking"
                              /\ result'[r] = "none"
    BY <1>2 DEF Begin, Begins, RowOk, Over
  <2> QED BY <1>2, <2>1 DEF Begin, Begins
<1>3. ASSUME NEW r \in Request, BeginRefused(r) PROVE ReadOk'
  BY <1>3 DEF BeginRefused, Begins
<1>4. ASSUME NEW r \in Request, BeginRaises(r) PROVE ReadOk'
  BY <1>4 DEF BeginRaises, Begins
<1>5. ASSUME NEW r \in Request, Acquire(r) PROVE ReadOk'
  BY <1>5 DEF Acquire
<1>6. ASSUME NEW r \in Request, FactoryRaises(r) PROVE ReadOk'
  BY <1>6 DEF FactoryRaises
<1>7. ASSUME NEW r \in Request, Connect(r) PROVE ReadOk'
  BY <1>7 DEF Connect
<1>8. ASSUME NEW r \in Request, Fails(r) PROVE ReadOk'
  BY <1>8 DEF Fails
<1>9. ASSUME NEW r \in Request, Read(r) PROVE ReadOk'
  <2>1. result[r] = "none"
    BY <1>9 DEF Read, RowOk, Over
  <2> QED BY <1>9, <2>1 DEF Read
<1>10. ASSUME NEW r \in Request, Write(r) PROVE ReadOk'
  <2>1. target[r] # Absent /\ target[r].register \in Register /\ result[r] = "none"
    BY <1>10, HasTarget DEF Write, TargetOk, RowOk, Over
  <2>2. \A q \in Request :
            at[q] = "writing" /\ q # r => target[q].register # target[r].register
    BY <1>10, OwnRegister DEF Write
  <2>3. \A q \in Request : at[q] = "writing" => target[q] # Absent /\ target[q].register \in Register
    BY HasTarget DEF TargetOk
  <2>4. at[r] = "pulsing" => IsPump(target[r].ask)
    BY DEF PulseOk, IsPulse
  <2> QED BY <1>10, <2>1, <2>2, <2>3, <2>4 DEF Write, Applies, IsPulse
<1>11. ASSUME NEW r \in Request, WriteFails(r) PROVE ReadOk'
  <2>1. target[r] # Absent /\ target[r].register \in Register /\ result[r] = "none"
    BY <1>11, HasTarget DEF WriteFails, TargetOk, RowOk, Over
  <2>2. \A q \in Request :
            at[q] = "writing" /\ q # r => target[q].register # target[r].register
    BY <1>11, OwnRegister DEF WriteFails
  <2>3. \A q \in Request : at[q] = "writing" => target[q] # Absent /\ target[q].register \in Register
    BY HasTarget DEF TargetOk
  <2>4. at[r] = "pulsing" => IsPump(target[r].ask)
    BY DEF PulseOk, IsPulse
  <2> QED BY <1>11, <2>1, <2>2, <2>3, <2>4 DEF WriteFails, MayApply, Applies, IsPulse
<1>12. ASSUME NEW r \in Request, Reset(r) PROVE ReadOk'
  <2>1. target[r] # Absent /\ target[r].register \in Register /\ result[r] = "none"
    BY <1>12, HasTarget DEF Reset, TargetOk, RowOk, Over
  <2>2. \A q \in Request :
            at[q] = "writing" /\ q # r => target[q].register # target[r].register
    BY <1>12, OwnRegister DEF Reset
  <2>3. \A q \in Request : at[q] = "writing" => target[q] # Absent /\ target[q].register \in Register
    BY HasTarget DEF TargetOk
  <2>4. at[r] = "pulsing" => IsPump(target[r].ask)
    BY DEF PulseOk, IsPulse
  <2> QED BY <1>12, <2>1, <2>2, <2>3, <2>4 DEF Reset, Applies, IsPulse
<1>13. ASSUME NEW r \in Request, ResetFails(r) PROVE ReadOk'
  <2>1. target[r] # Absent /\ target[r].register \in Register /\ result[r] = "none"
    BY <1>13, HasTarget DEF ResetFails, TargetOk, RowOk, Over
  <2>2. \A q \in Request :
            at[q] = "writing" /\ q # r => target[q].register # target[r].register
    BY <1>13, OwnRegister DEF ResetFails
  <2>3. \A q \in Request : at[q] = "writing" => target[q] # Absent /\ target[q].register \in Register
    BY HasTarget DEF TargetOk
  <2>4. at[r] = "pulsing" => IsPump(target[r].ask)
    BY DEF PulseOk, IsPulse
  <2> QED BY <1>13, <2>1, <2>2, <2>3, <2>4 DEF ResetFails, MayApply, Applies, IsPulse
<1>14. ASSUME NEW r \in Request, Close(r) PROVE ReadOk'
  BY <1>14 DEF Close
<1>15. ASSUME NEW r \in Request, EndAudit(r) PROVE ReadOk'
  BY <1>15 DEF EndAudit
<1>16. ASSUME NEW r \in Request, EndAuditFails(r) PROVE ReadOk'
  BY <1>16 DEF EndAuditFails
<1>17. CASE Crash
  BY <1>17 DEF Crash
<1>18. ASSUME NEW w \in late, Land(w) PROVE ReadOk'
  <2>1. \A q \in Request : at[q] = "writing" => target[q] # Absent /\ target[q].register \in Register
    BY HasTarget DEF TargetOk
  <2> QED BY <1>18, <2>1 DEF Land, Applies, Disturbs
<1>19. ASSUME NEW w \in Outside, Other(w) PROVE ReadOk'
  <2>1. \A q \in Request : at[q] = "writing" => target[q] # Absent /\ target[q].register \in Register
    BY HasTarget DEF TargetOk
  <2> QED BY <1>19, <2>1 DEF Other, Applies, Disturbs
<1>20. CASE UNCHANGED vars
  BY <1>20 DEF vars
<1> QED
  BY <1>1, <1>2, <1>3, <1>4, <1>5, <1>6, <1>7, <1>8, <1>9, <1>10, <1>11,
     <1>12, <1>13, <1>14, <1>15, <1>16, <1>17, <1>18, <1>19, <1>20
     DEF Next, RequestBegins, RequestStep, Environment

LEMMA NextInv == IInv /\ [Next]_vars => IInv'
BY NextType, NextTarget, NextLock, NextRow, NextPulse, NextDriver, NextLate,
   NextRead DEF IInv

LEMMA Invariance == Spec => []IInv
BY InitInv, NextInv, PTL DEF Spec

-----------------------------------------------------------------------------
(* What the properties say, from the invariant.                            *)

LEMMA InterlockHolds == IInv => PumpInterlock
<1> SUFFICES ASSUME IInv, NEW n \in Register, NEW k \in Register,
                    NEW q \in Request, NEW r \in Request,
                    n # k, driver[n] = q, driver[k] = r, q # Absent, r # Absent,
                    plc[n] = On, plc[k] = On,
                    IsPulse(target[q]), IsPulse(target[r]),
                    Key(target[q]) = Key(target[r])
             PROVE  Broken(q) \/ Broken(r)
  BY DEF IInv, TypeOK, PumpInterlock
<1>1. target[q].register = n /\ target[r].register = k
  BY DEF IInv, DriverOk
<1>2. result[q] # "success" /\ result[r] # "success"
  BY DEF IInv, DriverOk, On, Off
<1>3. audit[q] # "success" /\ audit[r] # "success"
  BY <1>2 DEF IInv, RowOk
<1>4. at[q] \in {"pulsing"} \cup Over /\ at[r] \in {"pulsing"} \cup Over
  BY DEF IInv, DriverOk
<1>5. ~ (at[q] = "pulsing" /\ at[r] = "pulsing")
  BY <1>1 DEF IInv, LockOk, Locked
<1> QED BY <1>2, <1>3, <1>4, <1>5 DEF Broken, Over

LEMMA AuditHolds == IInv => AuditTruthful
<1> SUFFICES ASSUME IInv PROVE AuditTruthful
  OBVIOUS
<1>1. ASSUME NEW n \in Register, driver[n] # Absent
      PROVE  /\ audit[driver[n]] # "none"
             /\ audit[driver[n]] = "success" =>
                   plc[n] = IF IsPulse(target[driver[n]]) THEN Off
                            ELSE FirstWrite(target[driver[n]])
  <2>1. driver[n] \in Request /\ target[driver[n]] # Absent
        /\ plc[n] \in Writes(target[driver[n]])
        /\ (result[driver[n]] = "success" /\ IsPulse(target[driver[n]]) => plc[n] = Off)
    BY <1>1 DEF IInv, TypeOK, DriverOk
  <2>2. audit[driver[n]] # "none"
        /\ (audit[driver[n]] = "success" => result[driver[n]] = "success")
    BY <2>1 DEF IInv, RowOk
  <2> QED BY <2>1, <2>2 DEF Writes
<1>2. ASSUME NEW w \in late PROVE audit[w.by] \in {"pending", "failed"}
  <2>1. w.by \in Request /\ target[w.by] # Absent /\ result[w.by] = "failed"
    BY <1>2 DEF IInv, TypeOK, LateOk
  <2> QED BY <2>1 DEF IInv, TypeOK, RowOk
<1> QED BY <1>1, <1>2 DEF AuditTruthful

LEMMA PreviousHolds == IInv => PreviousValueTrue
<1> SUFFICES ASSUME IInv, NEW r \in Request, audit[r] = "success",
                    ~ IsPump(target[r].ask), r \notin disturbed
             PROVE  previous[r] = before[r]
  BY DEF PreviousValueTrue
<1>1. result[r] = "success" /\ (target[r] # Absent => previous[r] = before[r])
  BY DEF IInv, RowOk, ReadOk
<1>2. target[r] # Absent
  BY <1>1 DEF IInv, RowOk
<1> QED BY <1>1, <1>2

LEMMA TypeBounds ==
    ASSUME NEW type \in DOMAIN Width
    PROVE  TypeMin(type) \in Int /\ TypeMax(type) \in Int
<1>1. Width[type] \in Nat /\ Width[type] - 1 \in Nat
  BY WidthAssumption
<1>2. \A n \in Nat : 2 ^ n \in Int
  OBVIOUS
<1> QED BY <1>1, <1>2 DEF TypeMin, TypeMax

LEMMA Halves ==
    ASSUME NEW lo \in Int, NEW hi \in Int, NEW v \in Int,
           v % 2 = 0, lo <= v \div 2, v \div 2 <= hi
    PROVE  2 * lo <= v /\ v <= 2 * hi
OBVIOUS

(* What is accepted is a number that the type and the limits allow.        *)
LEMMA AcceptedAllowed ==
    ASSUME NEW x, x.ask.value.number \in Value, Accepted(x)
    PROVE  x.ask.value.number \in Allowed(x.item)
<1> DEFINE v == x.ask.value.number
<1>1. v \in Int /\ v \in Value
  BY ValueAssumption
<1>2. ASSUME x.item.type \in DOMAIN Width
      PROVE  v % 2 = 0 /\ 2 * TypeMin(x.item.type) <= v /\ v <= 2 * TypeMax(x.item.type)
  <2>1. x.item.type # "bool"
    BY <1>2, WidthAssumption
  <2>2. v % 2 = 0 /\ TypeMin(x.item.type) <= v \div 2 /\ v \div 2 <= TypeMax(x.item.type)
    BY <1>2, <2>1 DEF Accepted, HasType
  <2>3. TypeMin(x.item.type) \in Int /\ TypeMax(x.item.type) \in Int
    BY <1>2, TypeBounds
  <2> QED BY <1>1, <2>2, <2>3, Halves
<1>3. x.item.type = "bool" => v \in {On, Off}
  BY DEF Accepted, HasType
<1>4. (x.item.min # Absent => v >= x.item.min) /\ (x.item.max # Absent => v <= x.item.max)
  BY DEF Accepted
<1> QED BY <1>1, <1>2, <1>3, <1>4 DEF Allowed

LEMMA OneTag ==
    ASSUME NEW f \in Configs, NEW m \in f.modules,
           NEW t \in TagsOf(m), NEW u \in TagsOf(m),
           Address(f, m, t) = Address(f, m, u), Address(f, m, t) # Absent
    PROVE  t = u
BY AddressAssumption

LEMMA ConfigHolds == IInv => DrivenWithinConfig
<1> SUFFICES ASSUME IInv, NEW n \in Register, driver[n] # Absent
             PROVE  LET x == target[driver[n]]
                    IN  /\ n = x.register
                        /\ n # Address(config, x.module, x.module.stateTag)
                        /\ x.module \in config.modules
                        /\ x.ask.module \in {Absent, x.module.id}
                        /\ ~ IsPump(x.ask) => plc[n] \in Allowed(x.item)
  BY DEF DrivenWithinConfig
<1> DEFINE r == driver[n]   x == target[r]
<1>1. r \in Request /\ x # Absent /\ x.register = n /\ plc[n] \in Writes(x)
  BY DEF IInv, TypeOK, DriverOk
<1>2. PICK ask \in Asks : x \in Targets(config, ask) /\ (~ IsPump(ask) => Accepted(x))
  BY <1>1 DEF IInv, TargetOk, Resolved
<1>3. config \in Configs
  BY DEF IInv, TypeOK
<1>4. /\ x.ask = ask /\ x.module \in config.modules /\ ask.module \in {Absent, x.module.id}
      /\ x.register = Address(config, x.module, x.item.tag) /\ x.register # Absent
      /\ x.item.tag \in TagsOf(x.module) /\ x.item.tag # x.module.stateTag
  BY <1>2, <1>3, TargetFacts
<1>5. x.module.stateTag \in TagsOf(x.module)
  BY DEF TagsOf
<1>6. n # Address(config, x.module, x.module.stateTag)
  BY <1>1, <1>3, <1>4, <1>5, OneTag
<1>7. ASSUME ~ IsPump(ask) PROVE plc[n] \in Allowed(x.item)
  <2>1. plc[n] = x.ask.value.number /\ x.ask.value.number \in Value
    BY <1>1, <1>4, <1>7, ValueAssumption DEF Writes, IsPulse, FirstWrite
  <2> QED BY <1>2, <1>7, <2>1, AcceptedAllowed
<1> QED BY <1>1, <1>4, <1>6, <1>7

-----------------------------------------------------------------------------
(* The theorems.                                                           *)

(* The types: what a request may write is what the registers may hold.     *)
THEOREM TypeCorrect == Spec => []TypeOK
<1>1. IInv => TypeOK
  BY DEF IInv
<1> QED BY <1>1, Invariance, PTL

(* However many requests start and stop the pumps of a lagoon, the start   *)
(* and stop coils of a module are never on together, unless a write failed *)
(* or the process died (the lock of services/small_opcua_control.py).      *)
THEOREM Interlock == Spec => []PumpInterlock
BY InterlockHolds, Invariance, PTL

(* The row of services/small_control_audit.py precedes every write and its *)
(* success is true of the equipment.                                       *)
THEOREM AuditIsTrue == Spec => []AuditTruthful
BY AuditHolds, Invariance, PTL

(* write_configured_value reports the value its write replaced, if neither *)
(* another system nor a late write changed the register in between.        *)
THEOREM PreviousIsTrue == Spec => []PreviousValueTrue
BY PreviousHolds, Invariance, PTL

(* Whatever is asked, only what the configuration lets a request write is  *)
(* written, and only with a value it allows.                               *)
THEOREM WithinConfig == Spec => []DrivenWithinConfig
BY ConfigHolds, Invariance, PTL
=============================================================================
