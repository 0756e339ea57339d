----------------------------- MODULE MC_Library -----------------------------
(***************************************************************************)
(* What the interpreter uses without sharing it, for TLC: the list, the    *)
(* dictionary, the stack, and the arithmetic on lists of arguments, which  *)
(* grow here by an argument at a time.  One of them is used in a           *)
(* behaviour: `which' says which one.                                      *)
(*                                                                         *)
(* Of three keys two fall on one bin of every number of bins, the last     *)
(* one, and the third is in their way when the search wraps around; five   *)
(* entries are enough to grow the bins to eight and to leave no EMPTY bin  *)
(* of two.  Nothing compares values, so only one key may carry a value of  *)
(* its own.  The arrays grow twice.                                        *)
(***************************************************************************)
EXTENDS Dict, List, Stack, EvalMath, TLC

CONSTANT MaxArgs     \* bound on the arguments of a primitive

ASSUME MaxArgsAssumption == MaxArgs \in Nat

VARIABLES which, arguments

MCKeys == {"foo", "bar", "baz"}
MCHash == "foo" :> 7 @@ "bar" :> 15 @@ "baz" :> 4
MCValues == {"plain", "marked"}

MayCarry(k, v) == v = "marked" => k = "bar"

MarkedOverwrite(k, v) == MayCarry(k, v) /\ Overwrite(k, v)

MarkedInsert(k, v) == MayCarry(k, v) /\ InsertNew(k, v)

MarkedNext ==
    \/ InsertWithoutBins
    \/ \E k \in Keys :
          \/ \E v \in Values : MarkedOverwrite(k, v) \/ MarkedInsert(k, v)
          \/ InsertWithoutEntry(k)
          \/ Delete(k) \/ DeleteNothing(k)

LibraryInit ==
    /\ which \in {"list", "dict", "stack", "math"}
    /\ ListInit /\ DictInit /\ StackInit /\ arguments = <<>>

UseList == which = "list" /\ ListNext /\ UNCHANGED <<which, dictVars, stackVars, arguments>>

UseDict == which = "dict" /\ MarkedNext /\ UNCHANGED <<which, list, stackVars, arguments>>

UseStack == which = "stack" /\ StackNext /\ UNCHANGED <<which, list, dictVars, arguments>>

(* One more argument: an integer, or a node of another type. *)
UseMath ==
    /\ which = "math" /\ Len(arguments) < MaxArgs
    /\ \E arg \in {<<n>> : n \in Integer} \cup {<<>>} : arguments' = Append(arguments, arg)
    /\ UNCHANGED <<which, list, dictVars, stackVars>>

LibraryNext == UseList \/ UseDict \/ UseStack \/ UseMath

LibrarySpec == LibraryInit /\ [][LibraryNext]_<<which, list, dictVars, stackVars, arguments>>

(* Every primitive computes its reference on every list of arguments: the  *)
(* exact value as long as nothing overflows, and the verdict of the first  *)
(* argument that is of no use.  After an overflow, which eval_math.c has a *)
(* TODO on, C promises nothing; of a build that wraps, what left the word  *)
(* on the way does not spoil a result that fits.  Of one argument SUB and  *)
(* DIV have no reference: they return it, and basic.lisp calls that a bug. *)
ArithmeticIsExact ==
    \A op \in MathOps :
        Len(arguments) >= (IF op \in {"SUB", "DIV"} THEN 2 ELSE 1) => ComputesExactly(op, arguments)
=============================================================================
