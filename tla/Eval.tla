-------------------------------- MODULE Eval --------------------------------
(***************************************************************************)
(* The evaluator (eval.c, eval_bool.c) and the session that drives it      *)
(* (repl.c).                                                               *)
(*                                                                         *)
(* The C functions call one another recursively.  Here their calls are     *)
(* unfolded into a machine: `ctl' is the function being entered or the     *)
(* value being returned, `kont' holds one frame per C call that waits for  *)
(* a value, `ctxs' holds the environment of one Context per lambda         *)
(* activation (funcall_lambda copies its caller's Context, everybody else  *)
(* passes the pointer on).  raise() is the longjmp to clsr_eval_program:   *)
(* it drops every frame and every Context but the outermost.               *)
(*                                                                         *)
(* Reading through NULL or through garbage is undefined in C; the model    *)
(* stops there, in the state Crashed.                                      *)
(***************************************************************************)
EXTENDS Nodes, Env, EvalMath, FiniteSets

CONSTANTS
    Inputs,      \* what yyparse can return: a sequence of [status, nodes, root]
    MaxFiles,    \* bound on the script files of the command line
    MaxLines     \* bound on the inputs typed at the prompt

ASSUME SessionAssumption == MaxFiles \in Nat /\ MaxLines \in Nat

Global == 1

(* What the actions of the grammar build, whatever they read: each node    *)
(* after the nodes it points to, lists that end in NIL, symbols that can   *)
(* be bound, and lambdas with a list of parameters and the environment of  *)
(* the parser. *)
BuiltByParser(nodes) ==
    LET earlier(j) == 0 .. Len(StaticNodes) + j - 1
        listBefore(r, j) == r = NIL \/ \E i \in 1 .. j - 1 : r = Len(StaticNodes) + i /\ nodes[i].type = "LIST"
    IN  /\ nodes \in Seq({nodes[j] : j \in DOMAIN nodes})
        /\ \A j \in DOMAIN nodes :
             /\ nodes[j].type \in {"SYMBOL", "INTEGER", "PRIMITIVE", "LIST", "LAMBDA"}
             /\ nodes[j].type = "SYMBOL" => nodes[j].symbol \in Symbols
             /\ nodes[j].type = "LIST" => nodes[j].first \in earlier(j) /\ listBefore(nodes[j].rest, j)
             /\ nodes[j].type = "LAMBDA" =>
                  /\ listBefore(nodes[j].params, j) /\ nodes[j].body \in earlier(j)
                  /\ nodes[j].env = Global

ASSUME InputsAssumption ==
    \A i \in DOMAIN Inputs :
        /\ BuiltByParser(Inputs[i].nodes)
        /\ Inputs[i].root \in 1 .. Len(StaticNodes) + Len(Inputs[i].nodes)

VARIABLES
    ctl,         \* where the evaluator is: a step and its arguments
    kont,        \* the C frames that wait for a value, innermost last
    ctxs,        \* CTX_ENV of each Context, innermost last
    out,         \* what became of the last program
    files,       \* script files still to be read
    interactive, \* is the prompt to follow the files?
    lines        \* inputs read at the prompt

mem     == <<heap, freed, envs>>
machine == <<ctl, kont, ctxs, out>>
session == <<files, interactive, lines>>
vars    == <<mem, machine, session>>

CurEnv == ctxs[Len(ctxs)]

-----------------------------------------------------------------------------
(* The keyword table: what the evaluator asks of a primitive. *)
SpecialForms == {"QUOTE", "EVAL", "AND", "OR", "IF"}

Arity(p) ==
    CASE p \in {"FIRST", "LEN", "NOT", "PRINT", "REST", "STR"} -> 1
      [] p \in {"APPLY", "CONS", "EQ", "PAIR", "SET"} -> 2
      [] OTHER -> -1

IsPrim(r, p) == Kind(r) = "PRIMITIVE" /\ heap[r].primitive = p

-----------------------------------------------------------------------------
(* Control: calling, waiting, returning, failing. *)
Ctl(op, a, b) == [op |-> op, a |-> a, b |-> b]
Idle    == Ctl("prompt", NULL, NULL)
Crashed == Ctl("undefined", NULL, NULL)
Exited  == Ctl("exit", NULL, NULL)

At(op) == ctl.op = op

(* What a waiting C function keeps: its expression or operator, and        *)
(* funcall_lambda its argument list too. *)
Frame(k, a) == [k |-> k, a |-> a, args |-> NULL]
CallFrame(fn, args) == [k |-> "call", a |-> fn, args |-> args]
Top == kont[Len(kont)]
Pop == SubSeq(kont, 1, Len(kont) - 1)
Resume(k) == At("return") /\ kont # <<>> /\ Top.k = k

(* Go on at `op'; frames is the new kont. *)
Go(op, a, b, frames) ==
    /\ ctl' = IF Undef \in {a, b} THEN Crashed ELSE Ctl(op, a, b)
    /\ kont' = frames
    /\ UNCHANGED <<ctxs, out, session>>

Call(k, a, op, x)  == Go(op, x, NULL, Append(kont, Frame(k, a)))
Return(v)          == Go("return", v, NULL, kont)

(* Mutant: the Contexts of the calls that were under way are kept. *)
RaiseWithoutUnwinding(err) ==
    /\ ctl' = Idle
    /\ kont' = <<>>
    /\ out' = [kind |-> "error", ref |-> NULL, err |-> err]
    /\ files' = 0
    /\ UNCHANGED <<ctxs, interactive, lines>>

(* raise(): the program is abandoned, what it did to memory stays. *)
Raise(err) ==
    /\ ctl' = Idle
    /\ kont' = <<>>
    /\ ctxs' = <<Global>>
    /\ out' = [kind |-> "error", ref |-> NULL, err |-> err]
    /\ files' = 0
    /\ UNCHANGED <<interactive, lines>>

Crash == ctl' = Crashed /\ UNCHANGED <<kont, ctxs, out, session, mem>>

-----------------------------------------------------------------------------
(* eval: symbols, atoms, NIL, a lambda expression, and otherwise the head  *)
(* of the list first. *)
LookupSymbol ==
    /\ At("eval") /\ Kind(ctl.a) = "SYMBOL"
    /\ LET s == heap[ctl.a].symbol IN
       \/ s = "T" /\ Return(T)
       \/ s # "T" /\ Binder(CurEnv, s) = NoEnv /\ Raise("SYMBOL_NOT_FOUND")
       \/ s # "T" /\ Binder(CurEnv, s) # NoEnv /\ Return(EnvLookup(CurEnv, s))
    /\ UNCHANGED mem

EvalAtom ==
    /\ At("eval") /\ Kind(ctl.a) \notin {"SYMBOL", "LIST"}
    /\ Return(ctl.a)
    /\ UNCHANGED mem

EvalLambda ==
    /\ At("eval") /\ IsList(ctl.a) /\ Kind(First(ctl.a)) = "LAMBDA"
    /\ Return(First(ctl.a))
    /\ UNCHANGED mem

EvalHead ==
    /\ At("eval") /\ IsList(ctl.a) /\ Kind(First(ctl.a)) # "LAMBDA"
    /\ Call("head", ctl.a, "eval", First(ctl.a))
    /\ UNCHANGED mem

(* The head has become fn.  GET_PRIMITIVE(fn) reads the node. *)
HeadIsNull == Resume("head") /\ ctl.a = NULL /\ Crash

EvalQuote ==
    /\ Resume("head") /\ IsPrim(ctl.a, "QUOTE")
    /\ Go("return", First(Rest(Top.a)), NULL, Pop)
    /\ UNCHANGED mem

EvalEval ==
    \/ /\ Resume("head") /\ IsPrim(ctl.a, "EVAL")
       /\ Go("eval", First(Rest(Top.a)), NULL, Append(Pop, Frame("again", NULL)))
       /\ UNCHANGED mem
    \/ /\ Resume("again")
       /\ Go("eval", ctl.a, NULL, Pop)
       /\ UNCHANGED mem

(* eval_and and eval_or: loops over the argument expressions. *)
StartAndOr(form, op, result) ==
    /\ Resume("head") /\ IsPrim(ctl.a, form)
    /\ Go(op, Rest(Top.a), result, Pop)
    /\ UNCHANGED mem

EvalAnd ==
    \/ StartAndOr("AND", "and", T)
    \/ At("and") /\ ctl.a = NIL /\ Return(ctl.b) /\ UNCHANGED mem
    \/ At("and") /\ ctl.a # NIL /\ Call("and", ctl.a, "eval", First(ctl.a)) /\ UNCHANGED mem
    \/ Resume("and") /\ ctl.a = NIL /\ Go("return", NIL, NULL, Pop) /\ UNCHANGED mem
    \/ Resume("and") /\ ctl.a # NIL /\ Go("and", Rest(Top.a), ctl.a, Pop) /\ UNCHANGED mem

(* Mutant: the loop of eval_or does not go on to the next argument. *)
EvalOrWithoutProgress ==
    \/ StartAndOr("OR", "or", NULL)
    \/ At("or") /\ ctl.a = NIL /\ Return(NIL) /\ UNCHANGED mem
    \/ At("or") /\ ctl.a # NIL /\ Call("or", ctl.a, "eval", First(ctl.a)) /\ UNCHANGED mem
    \/ Resume("or") /\ ctl.a # NIL /\ Go("return", ctl.a, NULL, Pop) /\ UNCHANGED mem
    \/ Resume("or") /\ ctl.a = NIL /\ Go("or", Top.a, NULL, Pop) /\ UNCHANGED mem

EvalOr ==
    \/ StartAndOr("OR", "or", NULL)
    \/ At("or") /\ ctl.a = NIL /\ Return(NIL) /\ UNCHANGED mem
    \/ At("or") /\ ctl.a # NIL /\ Call("or", ctl.a, "eval", First(ctl.a)) /\ UNCHANGED mem
    \/ Resume("or") /\ ctl.a # NIL /\ Go("return", ctl.a, NULL, Pop) /\ UNCHANGED mem
    \/ Resume("or") /\ ctl.a = NIL /\ Go("or", Rest(Top.a), NULL, Pop) /\ UNCHANGED mem

EvalIf ==
    /\ \/ /\ Resume("head") /\ IsPrim(ctl.a, "IF")
          /\ Go("eval", First(Rest(Top.a)), NULL, Append(Pop, Frame("if", Top.a)))
       \/ /\ Resume("if") /\ ctl.a # NIL
          /\ Go("eval", First(Rest(Rest(Top.a))), NULL, Pop)
       \/ /\ Resume("if") /\ ctl.a = NIL
          /\ LET else == First(Rest(Rest(Rest(Top.a)))) IN
             IF else = NULL THEN Go("return", NIL, NULL, Pop) ELSE Go("eval", else, NULL, Pop)
    /\ UNCHANGED mem

(* apply(): (funcall f arg...) evaluates f and each arg, (apply f arglist) *)
(* evaluates f and arglist, any other head has its arguments evaluated.    *)
Apply ==
    /\ Resume("head") /\ ctl.a # NULL
    /\ \A p \in SpecialForms : ~ IsPrim(ctl.a, p)
    /\ IF \E p \in {"FUNCALL", "APPLY"} : IsPrim(ctl.a, p)
       THEN Go("eval", First(Rest(Top.a)), NULL, Append(Pop, Frame(heap[ctl.a].primitive, Top.a)))
       ELSE Go("list", Rest(Top.a), NULL, Append(Pop, Frame("args", ctl.a)))
    /\ UNCHANGED mem

(* Mutant: the members of the list that APPLY is given are evaluated, as   *)
(* if they were the arguments of a form. *)
ApplyEvaluatingTwice ==
    /\ \/ /\ Resume("FUNCALL")
          /\ Go("list", Rest(Rest(Top.a)), NULL, Append(Pop, Frame("args", ctl.a)))
       \/ /\ Resume("APPLY")
          /\ Go("eval", First(Rest(Rest(Top.a))), NULL, Pop \o <<Frame("args", ctl.a), Frame("arglist", NULL)>>)
       \/ /\ Resume("arglist")
          /\ Go("list", ctl.a, NULL, Pop)
       \/ /\ Resume("args")
          /\ Go("funcall", Top.a, ctl.a, Pop)
    /\ UNCHANGED mem

ApplyFunction ==
    /\ \/ /\ Resume("FUNCALL")
          /\ Go("list", Rest(Rest(Top.a)), NULL, Append(Pop, Frame("args", ctl.a)))
       \/ /\ Resume("APPLY")
          /\ Go("eval", First(Rest(Rest(Top.a))), NULL, Append(Pop, Frame("args", ctl.a)))
       \/ /\ Resume("args")
          /\ Go("funcall", Top.a, ctl.a, Pop)
    /\ UNCHANGED mem

(* eval_list: each expression in turn, the cells consed on the way back. *)
EvalList ==
    \/ At("list") /\ ctl.a = NIL /\ Return(NIL) /\ UNCHANGED mem
    \/ At("list") /\ ctl.a # NIL /\ Call("car", ctl.a, "eval", First(ctl.a)) /\ UNCHANGED mem
    \/ /\ Resume("car")
       /\ Go("list", Rest(Top.a), NULL, Append(Pop, Frame("cdr", ctl.a)))
       /\ UNCHANGED mem
    \/ /\ Resume("cdr")
       /\ heap' = Append(heap, ConsList(Top.a, ctl.a))
       /\ Go("return", Len(heap) + 1, NULL, Pop)
       /\ UNCHANGED <<freed, envs>>

-----------------------------------------------------------------------------
(* funcall: what is called with what, once both are known. *)
NotAFunction ==
    /\ At("funcall") /\ ~ IsFunction(ctl.a)
    /\ \/ Printable(ctl.a) /\ Raise("NOT_A_FUNCTION") /\ UNCHANGED mem
       \/ MayFault(ctl.a) /\ Crash

(* length(arglist) is the first thing both callees do. *)
NoArglist == At("funcall") /\ IsFunction(ctl.a) /\ ctl.b = NULL /\ Crash

ArityError(received, expected) ==
    IF received < expected THEN "MISSING_ARG" ELSE "UNEXPECTED_ARG"

Calling(kind) == At("funcall") /\ Kind(ctl.a) = kind /\ ctl.b # NULL

BuiltinRefused ==
    /\ Calling("PRIMITIVE")
    /\ LET p == heap[ctl.a].primitive IN
       \/ p \in SpecialForms /\ Raise("NOT_A_FUNCTION")
       \/ /\ p \notin SpecialForms
          /\ Arity(p) > 0 /\ Arity(p) # Length(ctl.b)
          /\ Raise(ArityError(Length(ctl.b), Arity(p)))
    /\ UNCHANGED mem

Builtin(p) ==
    /\ Calling("PRIMITIVE") /\ heap[ctl.a].primitive = p
    /\ Arity(p) > 0 => Arity(p) = Length(ctl.b)

BuiltinList ==
    /\ Builtin("LIST")
    /\ Return(ctl.b)
    /\ UNCHANGED mem

(* Mutant: the function stays at the head of its own arguments. *)
FuncallWithoutRest ==
    /\ Builtin("FUNCALL") \/ Builtin("APPLY")
    /\ LET fn == First(ctl.b) accepted == IsFunction(fn) /\ Listp(Rest(ctl.b)) IN
       \/ fn = Undef /\ Crash
       \/ fn # Undef /\ accepted /\ Go("funcall", fn, ctl.b, kont)
       \/ fn # Undef /\ ~ accepted /\ Raise("INVALID_ARG")
    /\ UNCHANGED mem

(* eval_funcall, also reached through eval_apply.  The type of whatever    *)
(* FIRST has read is looked at: the list of arguments may be an atom.      *)
BuiltinFuncall ==
    /\ Builtin("FUNCALL") \/ Builtin("APPLY")
    /\ LET fn == First(ctl.b) accepted == IsFunction(fn) /\ Listp(Rest(ctl.b)) IN
       \/ fn = Undef /\ Crash
       \/ fn # Undef /\ accepted /\ Go("funcall", fn, Rest(ctl.b), kont)
       \/ fn # Undef /\ ~ accepted /\ Raise("INVALID_ARG")
    /\ UNCHANGED mem

(* set(): only a symbol that is no keyword; T is the one keyword whose     *)
(* node is a symbol. *)
Settable(r) == Kind(r) = "SYMBOL" /\ r # T

BuiltinSet ==
    /\ Builtin("SET")
    /\ LET name == First(ctl.b) value == First(Rest(ctl.b)) IN
       IF Settable(name)
       THEN EnvSet(CurEnv, heap[name].symbol, value) /\ Return(value)
       ELSE Raise("INVALID_ARG") /\ UNCHANGED envs
    /\ UNCHANGED <<heap, freed>>

BuiltinPrint ==
    /\ Builtin("PRINT")
    /\ \/ /\ ~ Listp(ctl.b) /\ Raise("INVALID_ARG") /\ UNCHANGED mem
       \/ /\ Listp(ctl.b) /\ MayFault(First(ctl.b)) /\ Crash
       \/ /\ Listp(ctl.b) /\ Printable(First(ctl.b))
          /\ freed' = freed \cup FreedByShowing(First(ctl.b))
          /\ Return(T)
          /\ UNCHANGED <<heap, envs>>

BuiltinStr ==
    /\ Builtin("STR")
    /\ \/ MayFault(ctl.b) /\ Crash
       \/ /\ Printable(ctl.b)
          /\ heap' = Append(heap, ConsString(Text(ctl.b)))
          /\ Return(Len(heap) + 1)
          /\ UNCHANGED <<freed, envs>>

(* The primitives that only read nodes and make new ones: their result,    *)
(* with the nodes they append to the heap. *)
Gives(r) == [err |-> "none", new |-> <<>>, ref |-> r]
Makes(nodes, r) == [err |-> "none", new |-> nodes, ref |-> r]
Rejects(e) == [err |-> e, new |-> <<>>, ref |-> NULL]
Truth(b) == Gives(IF b THEN T ELSE NIL)

(* Like Go, a cell that would store garbage is where the model stops. *)
Conses(cells, r) ==
    IF \E i \in DOMAIN cells : Undef \in {cells[i].first, cells[i].rest}
    THEN Gives(Undef) ELSE Makes(cells, r)

(* Mutant: the REST of NIL is handed out as it is. *)
OrNull(r) == r

(* eval_first and eval_rest never hand out the NULL inside NIL. *)
OrNil(r) == IF r = NULL THEN NIL ELSE r

(* Mutant: the last cell points to one that is not there yet. *)
PairNodesUnended(l1, l2) ==
    LET as == Items(l1)
        bs == Items(l2)
        n  == IF Len(as) < Len(bs) THEN Len(as) ELSE Len(bs)
    IN  [j \in 1 .. 3 * n |->
           CASE j <= 2 * n /\ j % 2 = 1 -> ConsList(First(bs[(j + 1) \div 2]), NIL)
             [] j <= 2 * n /\ j % 2 = 0 -> ConsList(First(as[j \div 2]), Len(heap) + j - 1)
             [] j > 2 * n -> ConsList(Len(heap) + 2 * (3 * n + 1 - j),
                                      IF j = 2 * n + 1 THEN Len(heap) + 3 * n + 1 ELSE Len(heap) + j - 1)]

(* pair(): a list of two-element lists, as long as the shorter argument.   *)
(* The two cells of each pair are made on the way down, the cells that     *)
(* hold the pairs on the way back, the last of them first. *)
PairNodes(l1, l2) ==
    LET as == Items(l1)
        bs == Items(l2)
        n  == IF Len(as) < Len(bs) THEN Len(as) ELSE Len(bs)
    IN  [j \in 1 .. 3 * n |->
           CASE j <= 2 * n /\ j % 2 = 1 -> ConsList(First(bs[(j + 1) \div 2]), NIL)
             [] j <= 2 * n /\ j % 2 = 0 -> ConsList(First(as[j \div 2]), Len(heap) + j - 1)
             [] j > 2 * n -> ConsList(Len(heap) + 2 * (3 * n + 1 - j),
                                      IF j = 2 * n + 1 THEN NIL ELSE Len(heap) + j - 1)]

(* The recursion ends when either list is at NIL; a list that ends         *)
(* otherwise must not be the one to end it.                                *)
Pairs(l1, l2) ==
    LET nodes == PairNodes(l1, l2)
        ends(l) == EndsInNil(l) /\ 3 * Len(Items(l)) = Len(nodes)
    IN  IF ends(l1) \/ ends(l2)
        THEN Conses(nodes, IF nodes = <<>> THEN NIL ELSE Len(heap) + Len(nodes))
        ELSE Gives(Undef)

(* The arguments that a walk over a list of them can look at: all but the  *)
(* payload of an atom at its end.                                          *)
Operands(args) ==
    LET items == Items(args)
        usable == {i \in DOMAIN items : First(items[i]) # Undef}
    IN  [i \in usable |->
           IF Kind(First(items[i])) = "INTEGER" THEN <<heap[First(items[i])].integer>> ELSE <<>>]

(* The arithmetic primitives accept a non-empty list of integers.  Their   *)
(* walk ends at NIL, at an argument of no use, or in what lies behind a    *)
(* list that does not end in NIL.                                          *)
Arithmetic(op, args) ==
    LET r == MathWalk(op, Operands(args))
    IN  IF ~ IsList(args) THEN Rejects("ARG_NOT_ITERABLE")
        ELSE CASE r.tag = "nil" -> Gives(NIL)
               [] r.tag = "error" -> Rejects(r.err)
               [] r.tag = "undefined" -> Gives(Undef)
               [] r.tag = "going" /\ ~ EndsInNil(args) -> Gives(Undef)
               [] OTHER ->
                    IF op \in {"GT", "LT"} THEN Gives(T)
                    ELSE Makes(<<ConsInteger(r.val)>>, Len(heap) + 1)

(* Signed overflow is undefined: going on with a wrapped word, as the      *)
(* instructions of the build do, is one of the outcomes.                   *)
ArithmeticOverflows(op, args) ==
    op \in MathOps /\ IsList(args) /\ Overflows(op, Operands(args))

Result(p, args) ==
    LET x == First(args)
        y == First(Rest(args))
    IN  CASE p = "CONS"  -> Conses(<<ConsList(x, y)>>, Len(heap) + 1)
          [] p = "EQ"    -> IF Kind(x) = "STRING" /\ Kind(y) = "STRING" /\ {x, y} \cap freed # {}
                            THEN Gives(Undef) ELSE Truth(Equal(x, y))
          [] p = "FIRST" -> IF Listp(x) THEN Gives(OrNil(First(x))) ELSE Rejects("INVALID_ARG")
          [] p = "REST"  -> IF Listp(x) THEN Gives(OrNil(Rest(x))) ELSE Rejects("INVALID_ARG")
          [] p = "NOT"   -> IF Listp(args) THEN Truth(x = NIL) ELSE Rejects("INVALID_ARG")
          [] p = "LEN"   -> IF ~ Listp(args) THEN Rejects("INVALID_ARG")
                            ELSE IF x = NULL THEN Gives(Undef)
                            ELSE Makes(<<ConsInteger(Length(x))>>, Len(heap) + 1)
          [] p = "PAIR"  -> IF Listp(x) /\ Listp(y) THEN Pairs(x, y) ELSE Rejects("INVALID_ARG")
          [] OTHER       -> Arithmetic(p, args)

PureBuiltins == {"CONS", "EQ", "FIRST", "REST", "NOT", "LEN", "PAIR"} \cup MathOps

BuiltinPure ==
    \E p \in PureBuiltins :
      /\ Builtin(p)
      /\ LET r == Result(p, ctl.b) IN
         \/ r.err # "none" /\ Raise(r.err) /\ UNCHANGED mem
         \/ /\ r.err = "none"
            /\ heap' = heap \o r.new
            /\ Return(r.ref)
            /\ UNCHANGED <<freed, envs>>
         \/ ArithmeticOverflows(p, ctl.b) /\ Crash

-----------------------------------------------------------------------------
(* Mutant: dynamic scope, the new environment is below the caller's. *)
NewScopeBelowCaller(fn) == EnvNew(CurEnv)

NewScope(fn) == EnvNew(heap[fn].env)

(* funcall_lambda: a Context with a new environment below the lambda's,    *)
(* each parameter set to its argument, then the body.  The pairs it builds *)
(* on the way are read by nobody else and left out. *)
CallLambda ==
    /\ Calling("LAMBDA")
    /\ LET params == First(ctl.a)
           expected == Length(params)
           received == Length(ctl.b)
       IN  \/ /\ expected # received
              /\ Raise(ArityError(received, expected))
              /\ UNCHANGED mem
           \/ /\ expected = received
              /\ NewScope(ctl.a)
              /\ ctxs' = Append(ctxs, Len(envs) + 1)
              /\ kont' = Append(kont, CallFrame(ctl.a, ctl.b))
              /\ ctl' = Ctl("bind", params, ctl.b)
              /\ UNCHANGED <<heap, freed, out, session>>

(* Mutant: set() is given the caller's Context. *)
BindParamInCaller ==
    \/ /\ At("bind") /\ NIL \notin {ctl.a, ctl.b}
       /\ EnvSet(ctxs[Len(ctxs) - 1], heap[First(ctl.a)].symbol, First(ctl.b))
       /\ Go("bind", Rest(ctl.a), Rest(ctl.b), kont)
       /\ UNCHANGED <<heap, freed>>
    \/ /\ At("bind") /\ NIL \in {ctl.a, ctl.b}
       /\ Go("program", Rest(Top.a), NULL, kont)
       /\ UNCHANGED mem

(* Mutant: a parameter whose name is bound already is left alone. *)
BindParamUnlessBound ==
    \/ /\ At("bind") /\ NIL \notin {ctl.a, ctl.b}
       /\ IF Binder(CurEnv, heap[First(ctl.a)].symbol) = NoEnv
          THEN EnvSet(CurEnv, heap[First(ctl.a)].symbol, First(ctl.b))
          ELSE UNCHANGED envs
       /\ Go("bind", Rest(ctl.a), Rest(ctl.b), kont)
       /\ UNCHANGED <<heap, freed>>
    \/ /\ At("bind") /\ NIL \in {ctl.a, ctl.b}
       /\ Go("program", Rest(Top.a), NULL, kont)
       /\ UNCHANGED mem

BindParam ==
    \/ /\ At("bind") /\ NIL \notin {ctl.a, ctl.b}
       /\ IF Settable(First(ctl.a))
          THEN /\ EnvSet(CurEnv, heap[First(ctl.a)].symbol, First(ctl.b))
               /\ Go("bind", Rest(ctl.a), Rest(ctl.b), kont)
          ELSE Raise("INVALID_ARG") /\ UNCHANGED envs
       /\ UNCHANGED <<heap, freed>>
    \/ /\ At("bind") /\ NIL \in {ctl.a, ctl.b}
       /\ Go("program", Rest(Top.a), NULL, kont)
       /\ UNCHANGED mem

(* Mutant: the environment of the call is freed when it returns. *)
ReturnFreeingScope ==
    /\ Resume("call")
    /\ ctxs' = SubSeq(ctxs, 1, Len(ctxs) - 1)
    /\ kont' = Pop
    /\ envs' = SubSeq(envs, 1, Len(envs) - 1)
    /\ UNCHANGED <<ctl, out, session, heap, freed>>

ReturnFromCall ==
    /\ Resume("call")
    /\ ctxs' = SubSeq(ctxs, 1, Len(ctxs) - 1)
    /\ kont' = Pop
    /\ UNCHANGED <<ctl, out, session, mem>>

(* eval_program: the expressions in turn, the value of the last one.  The  *)
(* loop tests for NIL after the first round. *)
EvalProgram ==
    /\ \/ At("program") /\ Call("program", ctl.a, "eval", First(ctl.a))
       \/ /\ Resume("program") /\ Rest(Top.a) = NIL
          /\ Go("return", ctl.a, NULL, Pop)
       \/ /\ Resume("program") /\ Rest(Top.a) # NIL
          /\ Go("program", Rest(Top.a), NULL, Pop)
    /\ UNCHANGED mem

(* clsr_eval_program prints the value as a fresh string node and frees the *)
(* buffer it printed. *)
ShowResult ==
    /\ At("return") /\ kont = <<>>
    /\ \/ MayFault(ctl.a) /\ Crash
       \/ /\ Printable(ctl.a)
          /\ heap' = Append(heap, ConsString(Text(ctl.a)))
          /\ freed' = freed \cup {Len(heap) + 1} \cup FreedByShowing(ctl.a)
          /\ ctl' = Idle
          /\ out' = [kind |-> "value", ref |-> ctl.a, err |-> "none"]
          /\ UNCHANGED <<envs, kont, ctxs, session>>

-----------------------------------------------------------------------------
(* The session: script files, then the prompt. *)

(* The parser's nodes, numbered as if the heap held only NIL and T, go to  *)
(* the end of the heap. *)
Relocated(r) == IF r > T THEN r + Len(heap) - Len(StaticNodes) ELSE r

RelocatedNode(n) ==
    CASE n.type = "LIST" -> ConsList(Relocated(n.first), Relocated(n.rest))
      [] n.type = "LAMBDA" -> ConsLambda(Relocated(n.params), Relocated(n.body), n.env)
      [] OTHER -> n

Load(nodes) == heap' = heap \o [i \in DOMAIN nodes |-> RelocatedNode(nodes[i])]

ParseFailed(input) ==
    /\ input.status # 0
    /\ out' = [kind |-> "syntax", ref |-> NULL, err |-> "none"]
    /\ files' = 0
    /\ UNCHANGED <<ctl, mem>>

ParseDone(input) ==
    /\ input.status = 0
    /\ Load(input.nodes)
    /\ ctl' = Ctl("program", Relocated(input.root), NULL)
    /\ UNCHANGED <<out, freed, envs>>

ReadFile ==
    /\ ctl = Idle /\ files > 0
    /\ \E i \in DOMAIN Inputs :
         \/ ParseFailed(Inputs[i])
         \/ ParseDone(Inputs[i]) /\ files' = files - 1
    /\ UNCHANGED <<kont, ctxs, interactive, lines>>

ReadLine ==
    /\ ctl = Idle /\ files = 0 /\ interactive /\ lines < MaxLines
    /\ lines' = lines + 1
    /\ \E i \in DOMAIN Inputs :
         \/ ParseFailed(Inputs[i])
         \/ ParseDone(Inputs[i]) /\ files' = files
    /\ UNCHANGED <<kont, ctxs, interactive>>

(* End of the last script without -i, end of input at the prompt, or a     *)
(* script that cannot be opened. *)
Leave ==
    /\ ctl = Idle
    /\ ctl' = Exited
    /\ UNCHANGED <<mem, kont, ctxs, out, session>>

-----------------------------------------------------------------------------
EvalInit ==
    /\ heap = StaticNodes
    /\ freed = {}
    /\ EnvInit
    /\ ctl = Idle
    /\ kont = <<>>
    /\ ctxs = <<Global>>
    /\ out = [kind |-> "none", ref |-> NULL, err |-> "none"]
    /\ files \in 0 .. MaxFiles
    /\ interactive \in BOOLEAN
    /\ files = 0 => interactive
    /\ lines = 0

EvalStep ==
    \/ LookupSymbol \/ EvalAtom \/ EvalLambda \/ EvalHead \/ HeadIsNull
    \/ EvalQuote \/ EvalEval \/ EvalAnd \/ EvalOr \/ EvalIf
    \/ Apply \/ ApplyFunction \/ EvalList
    \/ NotAFunction \/ NoArglist \/ BuiltinRefused
    \/ BuiltinList \/ BuiltinFuncall \/ BuiltinSet \/ BuiltinPrint \/ BuiltinStr \/ BuiltinPure
    \/ CallLambda \/ BindParam \/ ReturnFromCall \/ EvalProgram \/ ShowResult

EvalNext == EvalStep \/ ReadFile \/ ReadLine \/ Leave

EvalSpec == EvalInit /\ [][EvalNext]_vars /\ WF_vars(EvalStep)

-----------------------------------------------------------------------------
Ref == 0 .. Len(heap)

Steps == {"prompt", "undefined", "exit", "eval", "return", "and", "or", "list",
          "funcall", "bind", "program"}

(* Every pointer is NULL or a node that exists, every environment pointer  *)
(* is an environment that exists, and only strings lose their buffer.      *)
EvalTypeOK ==
    /\ \A i \in DOMAIN heap :
          /\ heap[i].type \in Types
          /\ heap[i].type \in {"LIST", "LAMBDA"} => {First(i), Rest(i)} \subseteq Ref
          /\ heap[i].type = "LAMBDA" => heap[i].env \in Envs
    /\ \A i \in freed : heap[i].type = "STRING"
    /\ \A e \in Envs : \A s \in DOMAIN envs[e].vals : envs[e].vals[s] \in Ref
    /\ ctl.op \in Steps /\ {ctl.a, ctl.b} \subseteq Ref
    /\ \A i \in DOMAIN kont : {kont[i].a, kont[i].args} \subseteq Ref
    /\ ctxs \in Seq(Envs)
    /\ files \in 0 .. MaxFiles /\ lines \in 0 .. MaxLines /\ interactive \in BOOLEAN

Activations == {i \in DOMAIN kont : kont[i].k = "call"}

(* Every Context on the stack belongs to one pending call, each with an    *)
(* environment younger than those of its callers, and whenever the session *)
(* is back at the prompt nothing of the last program is left: returns and  *)
(* raise() between them unwind exactly what calls have built.              *)
ContextsMatchCalls ==
    /\ ctxs[1] = Global
    /\ \A i, j \in DOMAIN ctxs : i < j => ctxs[i] < ctxs[j]
    /\ Len(ctxs) = 1 + Cardinality(Activations)
    /\ ctl \in {Idle, Exited} => kont = <<>>

(* Every lambda is made by the parser, which knows the global environment  *)
(* only, so every activation is directly below it: no chain ever has a     *)
(* third environment and the walk of env_lookup takes at most two steps.   *)
ActivationsBelowGlobal ==
    \A e \in Envs : envs[e].chain = IF e = Global THEN <<Global>> ELSE <<e, Global>>

(* When the body of a lambda starts, looking a parameter up yields its     *)
(* argument, also where env_set has put it into the global environment,    *)
(* and of a parameter named twice the last argument.                       *)
BodySeesItsArguments ==
    (At("program") /\ kont # <<>> /\ Top.k = "call" /\ ctl.a = Rest(Top.a)) =>
      LET params == Items(First(Top.a))
          args == Items(Top.args)
          name(i) == heap[First(params[i])].symbol
      IN  \A i \in DOMAIN params :
            (\A j \in DOMAIN params : j > i => name(j) # name(i)) =>
              /\ Binder(CurEnv, name(i)) # NoEnv
              /\ EnvLookup(CurEnv, name(i)) = First(args[i])

(* No program of the run reads through NULL or garbage, frees a buffer     *)
(* twice or reads one that is freed: FIRST and REST of anything they       *)
(* accept are nodes, and so is the value of every form that has its        *)
(* arguments.                                                              *)
NeverUndefined == ctl # Crashed

(* An activation's own environment is written by that activation alone:    *)
(* neither what it calls, nor a caller after its return, nor a later       *)
(* program changes what its parameters are bound to.                       *)
ScopesArePrivate ==
    [][\A e \in Envs \ {Global} : e # CurEnv => envs'[e] = envs[e]]_vars

(* The nodes of quoted data, but for the two that everybody shares.        *)
Quoted ==
    LET quotes == {r \in DOMAIN heap : IsList(r) /\ IsPrim(First(r), "QUOTE")}
    IN  UNION {Shown(First(Rest(q))) : q \in quotes} \ {NIL, T}

(* What a program quotes is evaluated only because EVAL says so, or as     *)
(* part of data that is: whichever way an argument takes into a call (a    *)
(* head, FUNCALL, APPLY, from the form or from the primitive), it is       *)
(* evaluated once, and what that gives is handed on as it is.              *)
DataRunsOnlyByEval ==
    [][LET running == IF At("return") THEN Top.a ELSE ctl.a
       IN  ctl'.op \in {"eval", "list", "and", "or"} /\ ctl'.a \in Quoted' =>
             Resume("again") \/ running \in Quoted]_vars

(* A program ends: with a value, with an error, or in undefined behaviour. *)
(* C runs on without being asked, which is the fairness.                   *)
ProgramEnds == At("program") ~> ctl \in {Idle, Crashed}

=============================================================================
