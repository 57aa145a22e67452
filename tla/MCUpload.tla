------------------------------ MODULE MCUpload ------------------------------
EXTENDS Upload

CONSTANTS t1, t2

Manifest(id, chunk, sequence, size, partSize, total) ==
    [id |-> id, chunk |-> chunk, node |-> "a", sequence |-> sequence,
     size |-> size, partSize |-> partSize, total |-> total]

(* Two parts with a short one; the same identities with another size; the  *)
(* same chunk under another id; a wrong number of parts; too many parts.   *)
File == Manifest(t1, 1, 1, 3, 2, 2)

MCManifests == {File, Manifest(t1, 1, 1, 4, 2, 2), Manifest(t2, 1, 2, 3, 2, 2),
                Manifest(t2, 2, 2, 3, 2, 1), Manifest(t2, 2, 2, 3, 1, 3)}

PutAsk(id, n, length, digest) ==
    [kind |-> "put", id |-> id, node |-> "a", number |-> n, offset |-> NoOne,
     length |-> length, digest |-> digest]

MCAsks ==
    {[kind |-> "register", manifest |-> m, node |-> "a"] : m \in MCManifests}
    \cup {[kind |-> "complete", id |-> t1, node |-> "a"]}
    \cup {PutAsk(t1, 1, 2, d) : d \in Digest}
    \cup {PutAsk(t1, 2, n, "good") : n \in {1, 2}}
    \cup {PutAsk(t2, 3, 1, "good")}
=============================================================================
