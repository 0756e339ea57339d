------------------------------ MODULE MC_RbTree ------------------------------
(***************************************************************************)
(* RbTree for TLC.  Ten keys are the fewest with which a tree gets three   *)
(* black nodes on every path, so that the balancing of a removal climbs    *)
(* and then has to recolor or to rotate above.  Nothing compares values,   *)
(* so it is enough that one key, in the middle, may carry a value of its   *)
(* own.                                                                    *)
(***************************************************************************)
EXTENDS RbTree

MCKeys == 1 .. 10
MCValues == {"plain", "marked"}
MarkedKey == 5

MayCarry(k, v) == v = "marked" => k = MarkedKey

MarkedInsert(k, v) == MayCarry(k, v) /\ Insert(k, v)

MarkedOverwrite(k, v) == MayCarry(k, v) /\ Overwrite(k, v)

MarkedNext ==
    \/ \E k \in Keys, v \in Values : MarkedInsert(k, v) \/ MarkedOverwrite(k, v)
    \/ \E k \in Keys : Remove(k)
    \/ Balance

MarkedSpec == RbInit /\ [][MarkedNext]_rbVars
=============================================================================
