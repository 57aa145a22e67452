---------------------------- MODULE ReplicaView -----------------------------
(***************************************************************************)
(* What the realtime page of a lagoon promises to each of its viewers: the *)
(* state of the lagoon only moves on, and what a viewer sees only moves on *)
(* towards it.  Nothing is said about sockets, frames, registrations,      *)
(* requests or failures.                                                   *)
(***************************************************************************)
EXTENDS Naturals

CONSTANT Viewer

VARIABLES
    latest,  \* the version of the state of the lagoon; 0 before any reading
    seen     \* the version each viewer shows; 0 before any frame

vars == <<latest, seen>>

Init == latest = 0 /\ seen = [c \in Viewer |-> 0]

Publish == latest' \in Nat /\ latest' > latest /\ UNCHANGED seen

CatchUp(c) ==
    /\ seen' \in [Viewer -> Nat]
    /\ seen[c] <= seen'[c] /\ seen'[c] <= latest
    /\ \A d \in Viewer \ {c} : seen'[d] = seen[d]
    /\ UNCHANGED latest

Next == Publish \/ \E c \in Viewer : CatchUp(c)

Spec == Init /\ [][Next]_vars
=============================================================================
