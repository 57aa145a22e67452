--------------------------- MODULE ControlTargets ---------------------------
(***************************************************************************)
(* From a control request to what it writes: how a request is resolved     *)
(* against the configuration of the lagoon, and which values are accepted  *)
(* (the pure part of services/small_opcua_control.py).                     *)
(*                                                                         *)
(* A configuration is a record with the PLC family, whether the lagoon is  *)
(* a small one, its modules and, for Rockwell, the tags they share.  A     *)
(* register of a PLC is a model value.  Identifiers are taken as already   *)
(* normalised (stripped, lower case).  A number is counted in halves, so   *)
(* that fractions exist; a boolean is 0 or 1, that is 0 or 2 halves.       *)
(***************************************************************************)
EXTENDS Integers

CONSTANTS
    Absent,   \* a field that is missing, null or empty
    Width     \* the bits of "int16", "int32", "uint16" and "uint32"

ASSUME WidthAssumption ==
    /\ DOMAIN Width \subseteq {"int16", "int32", "uint16", "uint32"}
    /\ \A type \in DOMAIN Width : Width[type] \in Nat /\ Width[type] > 0

On == 2
Off == 0

(* What a request asks: a pump action, or a value for a command.           *)
IsPump(ask) == ask.kind = "pump"

Supported(ask) == IsPump(ask) => ask.item \in {"partir", "parar"}

-----------------------------------------------------------------------------
(* Resolution.                                                             *)

Items(m, ask) == IF IsPump(ask) THEN m.actions ELSE m.commands

(* A Siemens action without a tag is no action; a Rockwell one is one, and *)
(* is refused later.                                                       *)
Defines(config, m, ask) ==
    /\ ask.item \in DOMAIN Items(m, ask)
    /\ IsPump(ask) /\ config.source = "siemens"
          => Items(m, ask)[ask.item].tag # Absent

Candidates(config, ask) ==
    {m \in config.modules : /\ ask.module \in {Absent, m.id}
                            /\ Defines(config, m, ask)}

Tags(config, m) == IF config.source = "rockwell" THEN config.tags ELSE m.tags

Address(config, m, tag) ==
    IF tag \in DOMAIN Tags(config, m) THEN Tags(config, m)[tag] ELSE Absent

ShortPulse(m) == 0 < m.pulse /\ m.pulse <= 5

(* Seeded fault: a set action need not say what it sets.                   *)
WellFormed_AnySet(config, m, ask) ==
    LET item == Items(m, ask)[ask.item]
    IN  CASE ~ IsPump(ask) -> item.type \in DOMAIN Width \cup {"bool", "float", "double"}
          [] item.mode = "pulse" -> ShortPulse(m)
          [] item.mode = "set" -> config.source = "rockwell"
          [] OTHER -> FALSE

WellFormed(config, m, ask) ==
    LET item == Items(m, ask)[ask.item]
    IN  CASE ~ IsPump(ask) -> item.type \in DOMAIN Width \cup {"bool", "float", "double"}
          [] item.mode = "pulse" -> ShortPulse(m)
          [] item.mode = "set" -> /\ config.source = "rockwell"
                                  /\ item.value \in {On, Off}
          [] OTHER -> FALSE

(* Seeded fault: the tag of the pump's state is not refused.               *)
TagAllowed_StateToo(m, tag) == tag # Absent

TagAllowed(m, tag) == tag \notin {Absent, m.stateTag}

(* A small lagoon with a PLC of a known family.                            *)
Controllable(config) == config.small /\ config.source \in {"siemens", "rockwell"}

Writable(config, m, ask) ==
    LET tag == Items(m, ask)[ask.item].tag
    IN  /\ TagAllowed(m, tag) /\ Address(config, m, tag) # Absent
        /\ m.endpoint # Absent
        /\ WellFormed(config, m, ask)

TargetOf(config, m, ask) ==
    [module |-> m, item |-> Items(m, ask)[ask.item], ask |-> ask,
     register |-> Address(config, m, Items(m, ask)[ask.item].tag)]

(* The target of a request, or nothing: one module only defines the item.  *)
Targets(config, ask) ==
    {TargetOf(config, m, ask) :
        m \in {m \in Candidates(config, ask) :
                 /\ Controllable(config)
                 /\ Candidates(config, ask) = {m}
                 /\ Writable(config, m, ask)}}

(* The lock of a target: the lagoon is one, the module and the endpoint    *)
(* remain of its key.                                                      *)
Key(target) == <<target.module.id, target.module.endpoint>>

IsPulse(target) == IsPump(target.ask) /\ target.item.mode = "pulse"

-----------------------------------------------------------------------------
(* Values.                                                                 *)

Signed(type) == type \in {"int16", "int32"}

TypeMin(type) == IF Signed(type) THEN -(2 ^ (Width[type] - 1)) ELSE 0

TypeMax(type) == 2 ^ (IF Signed(type) THEN Width[type] - 1 ELSE Width[type]) - 1

HasType(type, value) ==
    IF type = "bool" THEN value.number \in {On, Off}
    ELSE /\ ~ value.bool
         /\ type \in DOMAIN Width =>
               /\ value.number % 2 = 0
               /\ TypeMin(type) <= value.number \div 2
               /\ value.number \div 2 <= TypeMax(type)

(* The value of a command has its type and is within its limits.           *)
Accepted(target) ==
    LET item == target.item   value == target.ask.value
    IN  /\ HasType(item.type, value)
        /\ item.min # Absent => item.min <= value.number
        /\ item.max # Absent => value.number <= item.max

(* What is written first: a pulse raises its coil, a Rockwell set writes   *)
(* the configured boolean, a command its value.                            *)
FirstWrite(target) ==
    CASE ~ IsPump(target.ask) -> target.ask.value.number
      [] IsPulse(target) -> On
      [] OTHER -> target.item.value
=============================================================================
