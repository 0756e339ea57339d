------------------------------ MODULE MC_Eval ------------------------------
(***************************************************************************)
(* Eval for TLC.  A session reads any of the given programs as its script  *)
(* and then any of them as its line: what one leaves behind, the next one  *)
(* finds.                                                                  *)
(***************************************************************************)
EXTENDS Eval, Reader

MCNumbers ==
    "-8" :> -8 @@ "-1" :> -1 @@ "0" :> 0 @@ "1" :> 1 @@ "2" :> 2 @@ "3" :> 3 @@ "4" :> 4
    @@ "5" :> 5 @@ "7" :> 7 @@ "42" :> 42

(* Programs that use the language as intended, wrong ones included where   *)
(* the interpreter has an error to report. *)
LegalPrograms == <<
    <<"(", "SET", "'", "f", "(", "LAMBDA", "(", "a", ")", "(", "SET", "'", "b", "a", ")", "(", "LIST", "a", "b", ")", ")", ")", "0">>,
    <<"(", "f", "1", ")", "(", "FUNCALL", "f", "2", ")", "(", "FIRST", "(", "APPLY", "f", "'", "(", "3", ")", ")", ")">>,
    <<"(", "SET", "'", "g", "(", "LAMBDA", "(", "c", ")", "(", "f", "(", "+", "c", "1", ")", ")", "(", "SET", "'", "x", "c", ")", "c", ")", ")", "0">>,
    <<"(", "g", "2", ")", "x">>,
    <<"(", "g", "'", "x", ")">>,
    <<"(", "SET", "'", "a", "3", ")", "(", "SET", "'", "b", "4", ")">>,
    <<"(", "LIST", "a", "b", ")", "a">>,
    <<"(", "SET", "'", "n", "(", "LAMBDA", "(", "k", ")", "(", "IF", "(", "EQ", "k", "0", ")", "'", "done", "(", "n", "(", "-", "k", "1", ")", ")", ")", ")", ")", "(", "n", "2", ")">>,
    <<"(", "(", "LAMBDA", "(", "p", ")", "(", "(", "LAMBDA", "(", "q", ")", "p", ")", "2", ")", ")", "1", ")">>,
    <<"(", "(", "LAMBDA", "(", "p", "q", "p", ")", "(", "SET", "'", "x", "(", "CONS", "p", "q", ")", ")", "1", ")", "1", "2", "3", ")", "(", "FIRST", "'", "(", "x", ")", ")", "(", "FIRST", "(", "APPLY", "LIST", "(", "REST", "NIL", ")", ")", ")">>,
    <<"(", "IF", "(", "<", "1", "2", ")", "(", "AND", "1", "'", "x", "(", "OR", "NIL", "(", "AND", "2", "NIL", ")", "3", ")", ")", "3", ")">>,
    <<"(", "IF", "NIL", "1", ")", "(", "AND", ")", "(", "OR", ")", "(", "LIST", ")", "(", "FUNCALL", "LIST", ")", "(", "IF", "(", ">", "1", "2", ")", "1", "2", ")">>,
    <<"(", "APPLY", "CONS", "'", "(", "1", "2", ")", ")", "(", "EVAL", "'", "(", "FIRST", "'", "(", "1", "2", ")", ")", ")", "(", "FUNCALL", "APPLY", "FIRST", "'", "(", "1", "2", ")", ")">>,
    <<"(", "PAIR", "'", "(", "1", "2", ")", "'", "(", "x", "y", ")", ")", "(", "PAIR", "NIL", "'", "(", "1", ")", ")", "(", "LEN", "'", "(", "1", "2", ")", ")", "(", "REST", "'", "(", "1", ")", ")", "(", "NOT", "NIL", ")">>,
    <<"(", "EQ", "'", "x", "'", "x", ")", "(", "EQ", "'", "(", "1", ")", "'", "(", "1", ")", ")", "(", "EQ", "1", "2", ")", "(", "*", "2", "3", ")", "(", "/", "7", "2", ")", "(", "PRINT", "1", ")", "(", "+", "5", "1", ")">>,
    <<"(", "FIRST", "5", ")">>,
    <<"(", "CONS", "1", ")">>,
    <<"(", "1", "2", ")">>,
    <<"(", "FUNCALL", "AND", "1", ")">>,
    <<"(", "FUNCALL", "FIRST", ")">>,
    <<"(", "FUNCALL", "APPLY", "1", "2", ")">>,
    <<"(", "SET", "'", "T", "1", ")">>,
    <<"(", "f", "1", "2", ")">>,
    <<"(", "+", ")">>,
    <<"(", "/", "4", "0", ")">>,
    <<"(", "+", "1", "T", ")">>,
    <<"(", "a">>,
    <<"(", "QUOTE", "x", ")">>
  >>

(* Programs that drive it into undefined behaviour, or may. *)
FaultyPrograms == <<
    <<"(", "SET", "'", "s", "(", "STR", "1", ")", ")", "(", "EQ", "(", "STR", "1", ")", "(", "STR", "1", ")", ")">>,
    <<"(", "PRINT", "s", ")", "1">>,
    <<"s">>,
    <<"(", "PAIR", "(", "CONS", "1", "2", ")", "'", "(", "1", "2", ")", ")">>,
    <<"(", "FUNCALL", "FUNCALL", "FUNCALL", ")">>,
    <<"(", "EQ", "s", "s", ")">>,
    <<"(", "/", "-8", "-1", ")">>,
    <<"(", "FUNCALL", ")">>,
    <<"(", "APPLY", "f", ")">>,
    <<"(", "(", "EVAL", ")", ")">>,
    <<>>,
    <<"(", "(", "LAMBDA", "(", ")", ")", ")">>,
    <<"(", "APPLY", "PRINT", "(", "EVAL", ")", ")">>,
    <<"(", "FUNCALL", "LIST", "1", "(", "LIST", "2", ")", ")">>,
    <<"(", "'", "(", "1", ")", "2", ")">>,
    <<"(", "PRINT", "(", "CONS", "1", "(", "EVAL", ")", ")", ")">>,
    <<"(", "FUNCALL", "PRINT", "'", "(", "1", ")", ")">>,
    <<"(", "APPLY", "+", "(", "CONS", "1", "(", "CONS", "2", "3", ")", ")", ")">>,
    <<"(", "EVAL", "(", "LIST", "(", "LAMBDA", "(", ")", "1", ")", "2", ")", ")">>,
    <<"(", "SET", "'", "f", "(", "LAMBDA", "(", "p", ")", "(", "SET", "'", "x", "p", ")", "(", "FUNCALL", ")", ")", ")", "0">>,
    <<"(", "f", "1", ")">>,
    <<"(", "APPLY", "+", "(", "CONS", "1", "(", "EVAL", ")", ")", ")">>,
    <<"(", "PAIR", "(", "CONS", "1", "(", "EVAL", ")", ")", "'", "(", "1", "2", ")", ")">>,
    <<"(", "APPLY", ">", "(", "CONS", "1", "(", "CONS", "2", "3", ")", ")", ")", "(", "PAIR", "(", "CONS", "1", "0", ")", "'", "(", "1", "2", ")", ")">>,
    <<"(", "APPLY", "FUNCALL", "5", ")">>,
    <<"(", "APPLY", "FUNCALL", "0", ")">>,
    <<"(", "+", "7", "1", ")">>
  >>

LegalInputs  == [i \in DOMAIN LegalPrograms |-> Parse(LegalPrograms[i])]
FaultyInputs == [i \in DOMAIN FaultyPrograms |-> Parse(FaultyPrograms[i])]

(* What the documentation is held against. *)
ClosureInputs == <<Parse(
    <<"(", "SET", "'", "add", "(", "LAMBDA", "(", "p", ")", "(", "LAMBDA", "(", "q", ")", "(", "+", "p", "q", ")", ")", ")", ")", "(", "(", "add", "1", ")", "2", ")">>)>>
ScopeInputs == <<Parse(
    <<"(", "SET", "'", "x", "1", ")", "(", "(", "LAMBDA", "(", "x", ")", "x", ")", "2", ")", "x">>)>>
MissingArgInputs == <<
    Parse(<<"(", "FUNCALL", ")">>), Parse(<<"(", "APPLY", "FIRST", ")">>)>>
ReadmeEvalInputs == <<Parse(
    <<"(", "SET", "'", "a", "42", ")", "(", "EVAL", "'", "'", "a", ")">>)>>
ReadmeListInputs == <<Parse(<<"(", "LIST", "1", "'", "(", "2", ")", "3", ")">>)>>

MCSymbols == {"f", "g", "n", "a", "b", "c", "k", "p", "q", "s", "x", "y", "done", "add"}
MCValues == 0 .. 200

-----------------------------------------------------------------------------
(* README.md: a lambda is created from a body "and its captured            *)
(* environment (lexical scope)": the environment of a lambda that is       *)
(* evaluated is the one it is evaluated in.                                *)
LambdaCapturesScope == [][EvalLambda => heap[First(ctl.a)].env = CurEnv]_vars

(* README.md, the same words: binding the parameters of a call changes     *)
(* nothing outside the environment of the call.                            *)
ParametersAreLocal ==
    [][\A e \in Envs : At("bind") /\ e # CurEnv => envs'[e] = envs[e]]_vars

(* README.md: after (set 'a 42), (eval ''a) is 42.                         *)
ReadmeEvalExample ==
    out.kind = "value" => Kind(out.ref) = "INTEGER" /\ heap[out.ref].integer = 42
=============================================================================
