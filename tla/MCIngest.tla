------------------------------ MODULE MCIngest ------------------------------
(* Ingest on small instances for TLC.                                      *)
EXTENDS Ingest, TLC

Symmetry == Permutations(Proc)
=============================================================================
