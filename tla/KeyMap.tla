------------------------------- MODULE KeyMap -------------------------------
(***************************************************************************)
(* What include/uc_hash.h promises: a map from keys to values.  It owns    *)
(* the values it holds and frees them when they are replaced, deleted or   *)
(* reset; an update hands the old value back.                              *)
(***************************************************************************)
CONSTANTS Keys, Vals, NULL

VARIABLES
    map,    \* key -> value
    held,   \* the values the caller owns
    ret     \* what the last call returned

Holds(k) == k \in DOMAIN map
Init == map = [k \in {} |-> NULL] /\ held = Vals /\ ret = "ok"

\* The caller gives the value away.
Put(k, v) ==
    /\ v \in held \cup {NULL}
    /\ map' = [j \in DOMAIN map \cup {k} |-> IF j = k THEN v ELSE map[j]]
    /\ held' = held \ {v}
    /\ ret' = "ok"

\* There is no memory for another key: the caller keeps the value.
PutFails(k) == ~Holds(k) /\ ret' = "error" /\ UNCHANGED <<map, held>>

Remove(k) ==
    /\ map' = [j \in DOMAIN map \ {k} |-> map[j]]
    /\ ret' = "ok"
    /\ UNCHANGED held

Swap(k, v) ==
    /\ Holds(k) /\ v \in held \cup {NULL}
    /\ map' = [map EXCEPT ![k] = v]
    /\ held' = (held \ {v}) \cup ({map[k]} \ {NULL})
    /\ ret' = map[k]

Get(k) ==
    /\ ret' = IF Holds(k) THEN map[k] ELSE NULL
    /\ UNCHANGED <<map, held>>

Clear == map' = [k \in {} |-> NULL] /\ ret' = "ok" /\ UNCHANGED held

Next ==
    \/ \E k \in Keys : PutFails(k) \/ Remove(k) \/ Get(k)
    \/ \E k \in Keys, v \in Vals \cup {NULL} : Put(k, v) \/ Swap(k, v)
    \/ Clear

Spec == Init /\ [][Next]_<<map, held, ret>>
=============================================================================
