--------------------------- MODULE DurableDelivery ---------------------------
(***************************************************************************)
(* What the offline transfer promises the collector, with nothing of how   *)
(* it is done: a chunk is imported in one step that only adds the rows     *)
(* that are missing, and the collector lets go of its copy only when every *)
(* row of it is stored.                                                    *)
(***************************************************************************)
CONSTANTS
    Transfer,  \* one chunk per transfer
    Key,       \* primary keys of the minute table
    RowsOf     \* the keys of the rows of a chunk

VARIABLES
    minute,    \* who wrote the row of a key, if it is there
    chunk      \* "held" by the collector or "dropped"

vars == <<minute, chunk>>

Init ==
    /\ minute = [k \in Key |-> "absent"]
    /\ chunk = [t \in Transfer |-> "held"]

Stored(t) == \A k \in RowsOf[t] : minute[k] # "absent"

OnlineUpsert(k) ==
    /\ minute' = [minute EXCEPT ![k] = "online"]
    /\ UNCHANGED chunk

Import(t) ==
    /\ minute' = [k \in Key |->
                     IF k \in RowsOf[t] /\ minute[k] = "absent"
                     THEN "offline" ELSE minute[k]]
    /\ UNCHANGED chunk

Drop(t) ==
    /\ Stored(t)
    /\ chunk' = [chunk EXCEPT ![t] = "dropped"]
    /\ UNCHANGED minute

Next ==
    \/ \E k \in Key : OnlineUpsert(k)
    \/ \E t \in Transfer : Import(t) \/ Drop(t)

Spec == Init /\ [][Next]_vars
=============================================================================
