--------------------------- MODULE MCAlarmEngine ---------------------------
(* AlarmEngine on small instances for TLC.                                 *)
EXTENDS AlarmEngine, TLC

(* ORDER BY alarm_type, tag_id NULLS LAST, id: "comm_loss" comes before    *)
(* "state" and that before "threshold".                                    *)
Place(d) == CASE d \in TagLoss    -> 1
              [] d \in LagoonLoss -> 2
              [] d \in Transition -> 3
              [] OTHER            -> 4
MCRank == CHOOSE r \in [Def -> 1 .. Cardinality(Def)] :
              \A d, e \in Def : /\ r[d] = r[e] => d = e
                                /\ Place(d) < Place(e) => r[d] < r[e]

(* Payloads with any of the tags, or with at most one.                     *)
AnyTags == SUBSET Tagged
OneTag == {T \in SUBSET Tagged : Cardinality(T) = 1}

Symmetry == Permutations(Proc)
=============================================================================
