----------------------------- MODULE MCRealtime -----------------------------
(* Realtime on small instances for TLC.  Clients are interchangeable;      *)
(* ingests are not, for each carries its own timestamp.                    *)
EXTENDS Realtime, TLC

CONSTANTS r1, r2

MCTsOf == r1 :> 1 @@ r2 :> 2

Symmetry == Permutations(Client)
=============================================================================
