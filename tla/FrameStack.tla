----------------------------- MODULE FrameStack -----------------------------
(***************************************************************************)
(* What a stack with frames promises: within a frame it is a stack of its  *)
(* own, which begins empty and goes as a whole; nothing of the frames      *)
(* below can be taken, and they come back as they were left.               *)
(***************************************************************************)
EXTENDS Integers, Sequences

CONSTANTS Values, NULL

VARIABLES
    frames,      \* the frames, the current one last
    got          \* what the last call has returned, NULL if nothing

Current == frames[Len(frames)]

Top == Current[Len(Current)]

FramesInit == frames = << <<>> >> /\ got = NULL

FPush(v) == frames' = [frames EXCEPT ![Len(frames)] = Append(@, v)] /\ got' = NULL

FPop ==
    /\ Current # <<>>
    /\ frames' = [frames EXCEPT ![Len(frames)] = SubSeq(@, 1, Len(@) - 1)]
    /\ got' = Top

FPeek == Current # <<>> /\ got' = Top /\ UNCHANGED frames

FNothing == got' = NULL /\ UNCHANGED frames

FEnter == frames' = Append(frames, <<>>) /\ got' = NULL

FExit == Len(frames) > 1 /\ frames' = SubSeq(frames, 1, Len(frames) - 1) /\ got' = NULL

FReset == frames' = << <<>> >> /\ got' = NULL

FramesNext ==
    \/ \E v \in Values \cup {NULL} : FPush(v)
    \/ FPop \/ FPeek \/ FEnter \/ FExit \/ FReset
    \/ Current = <<>> /\ FNothing
    \/ Len(frames) = 1 /\ FNothing

FramesSpec == FramesInit /\ [][FramesNext]_<<frames, got>>
=============================================================================
