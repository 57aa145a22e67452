-------------------------- MODULE MCOfflineTransfer --------------------------
(* OfflineTransfer on small instances for TLC.                             *)
EXTENDS OfflineTransfer, TLC

CONSTANTS t1, t2, k1

(* Every file has a row for every key: two transfers write the same minutes. *)
MCRowsOf == [t \in Transfer |-> Key]

Symmetry == Permutations(Proc) \cup Permutations(Part)
=============================================================================
