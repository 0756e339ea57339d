-------------------------------- MODULE Stack --------------------------------
(***************************************************************************)
(* The growing stack with frames (stack.c).  A frame begins behind a cell  *)
(* that holds where the frame below begins; such a cell is a word like any *)
(* other, and the saved 0 of the outermost frame is the word NULL too.     *)
(* stack_pop and stack_peek know the beginning of a frame by fp alone.     *)
(***************************************************************************)
EXTENDS Integers, Sequences

CONSTANTS
    Pointers,        \* the pointers that are pushed, besides NULL
    StackSize,       \* what stack_init is called with
    STACK_GROWTH,
    MaxCells         \* bound on the cells in use

ASSUME StackAssumption ==
    /\ StackSize \in Nat /\ STACK_GROWTH \in Nat \ {0} /\ MaxCells \in Nat

VARIABLES
    stack,           \* [data, data_size, sp, fp]
    got              \* what the last call has returned, NULL if nothing

stackVars == <<stack, got>>

NULL == 0
Raw  == -1           \* a cell that was allocated and not written

-----------------------------------------------------------------------------
(* stack_realloc; the cells keep their content. *)
Realloc(s, count) ==
    [s EXCEPT !.data_size = count,
              !.data = [i \in 0 .. count - 1 |-> IF i \in DOMAIN s.data THEN s.data[i] ELSE Raw]]

(* stack_init of a stack that may have been used before. *)
Fresh(s, count) == [Realloc(s, count) EXCEPT !.sp = 0, !.fp = 0]

NoStack == [data |-> [i \in {} |-> Raw], data_size |-> 0, sp |-> 0, fp |-> 0]

(* stack_push, stack_pop and stack_peek. *)
Pushed(s, v) ==
    LET room == IF s.sp >= s.data_size THEN Realloc(s, s.data_size + STACK_GROWTH) ELSE s
    IN  [room EXCEPT !.data[s.sp] = v, !.sp = s.sp + 1]

(* Mutant: the frame does not count. *)
EmptyToTheGround(s) == s.sp <= 0

Empty(s) == s.sp <= s.fp

Popped(s) == IF Empty(s) THEN s ELSE [s EXCEPT !.sp = s.sp - 1]

Peeked(s) == IF Empty(s) THEN NULL ELSE s.data[s.sp - 1]

Entered(s) == LET p == Pushed(s, s.fp) IN [p EXCEPT !.fp = p.sp]

(* Mutant: the cell with the saved fp stays on the frame below. *)
ExitedAbove(s) ==
    IF s.fp > 0 THEN [s EXCEPT !.sp = s.fp, !.fp = s.data[s.fp - 1]] ELSE s

Exited(s) ==
    IF s.fp > 0 THEN [s EXCEPT !.sp = s.fp - 1, !.fp = s.data[s.fp - 1]] ELSE s

-----------------------------------------------------------------------------
(* stack_free leaves everything but the cells as it was, and the stack has *)
(* to be initialized before its next use. *)
Usable == DOMAIN stack.data = 0 .. stack.data_size - 1

HasRoom == stack.sp < MaxCells

StackReset == stack' = Fresh(stack, StackSize) /\ got' = NULL

StackFree ==
    /\ stack' = [stack EXCEPT !.data = NoStack.data]
    /\ UNCHANGED got

Push(v) == Usable /\ HasRoom /\ stack' = Pushed(stack, v) /\ got' = NULL

Pop == Usable /\ stack' = Popped(stack) /\ got' = Peeked(stack)

Peek == Usable /\ got' = Peeked(stack) /\ UNCHANGED stack

EnterFrame == Usable /\ HasRoom /\ stack' = Entered(stack) /\ got' = NULL

ExitFrame == Usable /\ stack' = Exited(stack) /\ got' = NULL

StackInit == stack = Fresh(NoStack, StackSize) /\ got = NULL

StackNext ==
    \/ \E v \in Pointers \cup {NULL} : Push(v)
    \/ Pop \/ Peek \/ EnterFrame \/ ExitFrame \/ StackReset \/ StackFree

StackSpec == StackInit /\ [][StackNext]_stackVars

-----------------------------------------------------------------------------
(* Where the frames begin, the outermost first, as the saved beginnings    *)
(* tell from the current one on. *)
Begins ==
    LET from[f \in 0 .. stack.sp] ==
          IF f = 0 THEN <<0>>
          ELSE IF stack.data[f - 1] \in 0 .. f - 1 THEN Append(from[stack.data[f - 1]], f)
          ELSE <<f>>
    IN  from[stack.fp]

(* From frame to frame the saved beginnings lead down to 0: no pop and no  *)
(* push within a frame has touched the cell below it.                      *)
StackTypeOK ==
    /\ Usable \/ stack.data = NoStack.data
    /\ stack.sp \in 0 .. stack.data_size /\ stack.fp \in 0 .. stack.sp
    /\ Usable => Begins[1] = 0

Cells(from, to) == [i \in 1 .. to - from |-> stack.data[from + i - 1]]

(* The contents of the frames, without the cells between them. *)
View ==
    [j \in 1 .. Len(Begins) |->
       Cells(Begins[j], IF j = Len(Begins) THEN stack.sp ELSE Begins[j + 1] - 1)]

F == INSTANCE FrameStack WITH
       Values <- Pointers,
       frames <- IF Usable THEN View ELSE << <<>> >>,
       got <- IF Usable THEN got ELSE NULL

(* Frames are stacks of their own, though they lie in one array of words   *)
(* in which the cell between two frames could be taken for a pointer, and  *)
(* that is moved when it grows.  (A stack that was freed counts as empty.) *)
StackIsFrames == F!FramesSpec
=============================================================================
