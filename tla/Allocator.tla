------------------------------ MODULE Allocator ------------------------------
(***************************************************************************)
(* What an allocator of slots promises to the code that uses it: a slot is *)
(* handed out only while nobody has it, and whoever has it keeps it until  *)
(* it is given back.                                                       *)
(***************************************************************************)
CONSTANT Slots

VARIABLES
    live,      \* the slots somebody has
    handed     \* changes whenever a slot is handed out

allocatorVars == <<live, handed>>

AllocatorInit == live = {} /\ handed = FALSE

HandOut(s) == s \notin live /\ live' = live \cup {s} /\ handed' = ~ handed

TakeBack(S) == live' = live \ S /\ UNCHANGED handed

AllocatorNext ==
    \/ \E s \in Slots : HandOut(s)
    \/ \E S \in SUBSET live : TakeBack(S)

AllocatorSpec == AllocatorInit /\ [][AllocatorNext]_allocatorVars
=============================================================================
