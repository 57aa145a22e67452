--------------------------- MODULE MCSmallControl ---------------------------
EXTENDS SmallControl, TLC

CONSTANTS r1, r2, start, stop, state, setPoint, run

MCWidth == "int16" :> 2 @@ "uint16" :> 2

NoItems == [x \in {} |-> 0]

Coil(tag) == [tag |-> tag, mode |-> "pulse", value |-> Absent]
Setting(tag, v) == [tag |-> tag, mode |-> "set", value |-> v]
Command(tag, type, lo, hi) == [tag |-> tag, type |-> type, min |-> lo, max |-> hi]

(* A Siemens pump with a set-point, as in the tests of the repository.     *)
Siemens(max) ==
    [source |-> "siemens", small |-> TRUE, tags |-> NoItems,
     modules |->
        {[id |-> "pump", endpoint |-> "plc", stateTag |-> "state", pulse |-> 1,
          tags |-> "start" :> start @@ "stop" :> stop @@ "state" :> state
                   @@ "level" :> setPoint,
          actions |-> "partir" :> Coil("start") @@ "parar" :> Coil("stop"),
          commands |-> "set" :> Command("level", "int16", Absent, max)]}]

(* The same, with a start that names the state of the pump.                *)
StateNamed ==
    [Siemens(Absent) EXCEPT !.modules =
        {[m EXCEPT !.actions = "partir" :> Coil("state") @@ "parar" :> Coil("stop")] :
            m \in @}]

(* A Rockwell lagoon: a pump that is set, one of its actions without a     *)
(* value, and a second module that can be stopped too.                     *)
Rockwell ==
    [source |-> "rockwell", small |-> TRUE,
     tags |-> "run" :> run @@ "stop" :> stop @@ "state" :> state @@ "level" :> setPoint,
     modules |->
        {[id |-> "pump", endpoint |-> "plc", stateTag |-> "state", pulse |-> 0,
          tags |-> NoItems,
          actions |-> "partir" :> Setting("run", On) @@ "parar" :> Setting("run", Absent),
          commands |-> NoItems],
         [id |-> "dose", endpoint |-> "plc", stateTag |-> Absent, pulse |-> 5,
          tags |-> NoItems,
          actions |-> "parar" :> Coil("stop"),
          commands |-> "set" :> Command("level", "uint16", Absent, Absent)]}]

MCConfigs == {Siemens(Absent), Siemens(1), StateNamed, Rockwell,
              [Siemens(Absent) EXCEPT !.small = FALSE]}

Pump(item, module) == [kind |-> "pump", item |-> item, module |-> module]
Number(n) == [bool |-> FALSE, number |-> n]
Set(value) == [kind |-> "value", item |-> "set", module |-> Absent, value |-> value]

MCAsks == {Pump("partir", Absent), Pump("parar", Absent), Pump("parar", "pump"),
           Pump("parar", "dose"), Pump("lavar", Absent)}
          \cup {Set(Number(n)) : n \in {-2, 1, 2, 4}}
          \cup {Set([bool |-> TRUE, number |-> On])}

MCOutside == {<<setPoint, 0>>, <<start, Off>>}
MCValue == {-2, 0, 1, 2, 4}
Symmetry == Permutations({r1, r2})
=============================================================================
