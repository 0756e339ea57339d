------------------------------ MODULE EvalMath ------------------------------
(***************************************************************************)
(* The arithmetic and comparison primitives (eval_math.c).  Each walks its *)
(* argument list once, from the left, and gives up at the first argument   *)
(* it cannot use.  An argument is <<n>> for an integer node and <<>> for a *)
(* node of any other type.                                                 *)
(***************************************************************************)
EXTENDS Integers, Sequences

CONSTANT IntHalf     \* half the number of values of the C type `Integer'

ASSUME IntHalfAssumption == IntHalf \in Nat \ {0}

IntMin == - IntHalf
Integer == IntMin .. IntHalf - 1

(* What the instructions of the build leave of a signed result that does   *)
(* not fit its word.  To C that is undefined (see Overflows).              *)
Wrap(n) == ((n + IntHalf) % (2 * IntHalf)) - IntHalf

(* C division rounds towards zero. *)
Quotient(m, n) ==
    LET Abs(k) == IF k < 0 THEN - k ELSE k
        q == Abs(m) \div Abs(n)
    IN  IF (m < 0) = (n < 0) THEN q ELSE - q

Going(n) == [tag |-> "going", val |-> n, err |-> "none"]
Halts(t) == [tag |-> t, val |-> 0, err |-> "none"]
Fails(e) == [tag |-> "error", val |-> 0, err |-> e]

(* Mutant: every argument is compared with the first. *)
MathStepFromFirst(op, acc, n) ==
    CASE op = "GT"  -> IF acc > n THEN Going(acc) ELSE Halts("nil")
      [] op = "LT"  -> IF acc < n THEN Going(acc) ELSE Halts("nil")
      [] op = "ADD" -> Going(Wrap(acc + n))
      [] op = "SUB" -> Going(Wrap(acc - n))
      [] op = "MUL" -> Going(Wrap(acc * n))
      [] op = "DIV" -> IF n = 0 THEN Fails("DIVISION_BY_0") ELSE Going(Quotient(acc, n))

(* One more argument n after the running value acc.  The quotient of the   *)
(* smallest integer by -1 has no value and stops the machine.              *)
MathStep(op, acc, n) ==
    CASE op = "GT"  -> IF acc > n THEN Going(n) ELSE Halts("nil")
      [] op = "LT"  -> IF acc < n THEN Going(n) ELSE Halts("nil")
      [] op = "ADD" -> Going(Wrap(acc + n))
      [] op = "SUB" -> Going(Wrap(acc - n))
      [] op = "MUL" -> Going(Wrap(acc * n))
      [] op = "DIV" -> IF n = 0 THEN Fails("DIVISION_BY_0")
                       ELSE IF acc = IntMin /\ n = -1 THEN Halts("undefined")
                       ELSE Going(Quotient(acc, n))

(* The state of the walk after its last argument, items not empty. *)
MathWalk(op, items) ==
    LET walk[i \in DOMAIN items] ==
          IF i > 1 /\ walk[i - 1].tag # "going" THEN walk[i - 1]
          ELSE IF items[i] = <<>> THEN Fails("ARG_TYPE_MISMATCH")
          ELSE IF i = 1 THEN Going(items[1][1])
          ELSE MathStep(op, walk[i - 1].val, items[i][1])
    IN  walk[Len(items)]

-----------------------------------------------------------------------------
(* What the primitives mean, without running values.                       *)
Total(args, m, n) ==
    LET total[i \in m - 1 .. n] == IF i < m THEN 0 ELSE total[i - 1] + args[i][1]
    IN  total[n]

Product(args, m, n) ==
    LET product[i \in m - 1 .. n] == IF i < m THEN 1 ELSE product[i - 1] * args[i][1]
    IN  product[n]

(* Of the first n arguments, in unbounded integers. *)
ExactValue(op, args, n) ==
    CASE op = "ADD" -> Total(args, 1, n)
      [] op = "SUB" -> args[1][1] - Total(args, 2, n)
      [] op = "MUL" -> Product(args, 1, n)
      [] op = "DIV" -> Quotient(args[1][1], Product(args, 2, n))

(* The i-th argument, behind usable ones. *)
UsableArg(op, args, i) ==
    /\ args[i] # <<>>
    /\ op = "GT" => \A j \in 1 .. i - 1 : args[j][1] > args[i][1]
    /\ op = "LT" => \A j \in 1 .. i - 1 : args[j][1] < args[i][1]
    /\ op = "DIV" /\ i > 1 => args[i][1] # 0 /\ ExactValue(op, args, i) \in Integer

(* A sum, difference or product on the way does not fit its word. *)
Overflows(op, args) ==
    /\ op \in {"ADD", "SUB", "MUL"}
    /\ \E i \in DOMAIN args :
          (\A j \in 1 .. i : args[j] # <<>>) /\ ExactValue(op, args, i) \notin Integer

(* Only the first argument that cannot be used counts; quotients are exact *)
(* whenever they exist, and so is every value that was reached without an  *)
(* overflow.  After an overflow, if the machine goes on, the value is the  *)
(* exact one in its word, wherever it has left the word on the way.        *)
ComputesExactly(op, args) ==
    LET r == MathWalk(op, args)
        bad == {i \in DOMAIN args :
                  (\A j \in 1 .. i - 1 : UsableArg(op, args, j)) /\ ~ UsableArg(op, args, i)}
    IN  IF bad = {}
        THEN /\ r.tag = "going"
             /\ op \notin {"GT", "LT"} =>
                  LET exact == ExactValue(op, args, Len(args))
                  IN  r.val = IF Overflows(op, args) THEN Wrap(exact) ELSE exact
        ELSE \E i \in bad :
               r = IF args[i] = <<>> THEN Fails("ARG_TYPE_MISMATCH")
                   ELSE IF op # "DIV" THEN Halts("nil")
                   ELSE IF args[i] = <<0>> THEN Fails("DIVISION_BY_0")
                   ELSE Halts("undefined")

MathOps == {"GT", "LT", "ADD", "SUB", "MUL", "DIV"}
=============================================================================
