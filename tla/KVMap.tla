-------------------------------- MODULE KVMap --------------------------------
(***************************************************************************)
(* What a search tree or a dictionary promises to the code that uses it: a *)
(* map from keys to values, of which one binding is made, changed or       *)
(* removed at a time.                                                      *)
(***************************************************************************)
CONSTANTS Keys, Values

VARIABLE map

MapInit == map = [k \in {} |-> k]

Add(k, v) ==
    /\ k \notin DOMAIN map
    /\ map' = [x \in DOMAIN map \cup {k} |-> IF x = k THEN v ELSE map[x]]

Change(k, v) ==
    /\ k \in DOMAIN map
    /\ map' = [map EXCEPT ![k] = v]

Delete(k) ==
    /\ k \in DOMAIN map
    /\ map' = [x \in DOMAIN map \ {k} |-> map[x]]

MapNext ==
    \E k \in Keys :
        \/ \E v \in Values : Add(k, v) \/ Change(k, v)
        \/ Delete(k)

MapSpec == MapInit /\ [][MapNext]_map
=============================================================================
