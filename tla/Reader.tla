------------------------------- MODULE Reader -------------------------------
(***************************************************************************)
(* The reader: lexer.l with the keyword table of keywords.gperf, and the   *)
(* grammar of parser.y.  A text is a sequence of words, one per token.     *)
(*                                                                         *)
(* The grammar is LALR(1); it is read here the way its parser does, one    *)
(* token at a time with a stack of the rules that are open.  The nodes are *)
(* those the grammar actions build, numbered from the first free place     *)
(* after NIL and T.                                                        *)
(***************************************************************************)
EXTENDS Nodes, TLC, Folds, SequencesExt

CONSTANT Numbers     \* the number words, with their values

Operators == "+" :> "ADD" @@ "-" :> "SUB" @@ "*" :> "MUL" @@ "/" :> "DIV"
             @@ "<" :> "LT" @@ ">" :> "GT"

Intrinsics ==
    {"APPLY", "CONS", "EQ", "FIRST", "FUNCALL", "GT", "LEN", "LT", "NOT", "LIST", "PAIR",
     "PRINT", "REST", "SET", "STR", "ADD", "SUB", "MUL", "DIV"}

(* The token a word is.  The quote mark and the name QUOTE are the same    *)
(* token; a character outside the language is the token ERROR.             *)
Token(w) ==
    CASE w \in {"(", ")"} -> w
      [] w \in {"'", "QUOTE"} -> "QUOTE"
      [] w \in {"NIL", "T", "IF", "LAMBDA"} -> w
      [] w \in Intrinsics \cup {"EVAL", "AND", "OR"} \cup DOMAIN Operators -> "PRIMITIVE"
      [] w \in DOMAIN Numbers -> "INTEGER"
      [] w = "?" -> "ERROR"
      [] OTHER -> "SYMBOL"

Keyword(w) == IF w \in DOMAIN Operators THEN Operators[w] ELSE w

-----------------------------------------------------------------------------
(* An open rule: which one, and the references of its parts so far.        *)
(*    program : the expressions of the text                                *)
(*    list    : after '('                                                  *)
(*    lambda  : after '(' LAMBDA                                           *)
(*    params  : after the '(' that follows                                 *)
(*    body    : after the ')' that ends the parameters, its first part     *)
(*    if      : after '(' IF, its first part                               *)
(*    quote   : after the quote mark, its only part                        *)
Open(rule, refs) == [rule |-> rule, refs |-> refs]

(* A reading: "reading" while it goes on, "accept" or "error". *)
Begin == [status |-> "reading", nodes |-> <<>>, stack |-> <<Open("program", <<>>)>>]

Inner(r) == Last(r.stack)
Failed(r) == [r EXCEPT !.status = "error"]

LastRef(nodes) == Len(StaticNodes) + Len(nodes)

(* CONS of the references, from the last to the first, ending in NIL. *)
ListNodes(nodes, refs) ==
    LET n == Len(refs)
    IN  nodes \o [j \in 1 .. n |->
            ConsList(refs[n - j + 1], IF j = 1 THEN NIL ELSE LastRef(nodes) + j - 1)]

ListRef(nodes, refs) == IF refs = <<>> THEN NIL ELSE LastRef(nodes) + Len(refs)

Opened(r, rule, refs) == [r EXCEPT !.stack = Append(@, Open(rule, refs))]
Became(r, rule, refs) == [r EXCEPT !.stack = Append(Front(@), Open(rule, refs))]
Extended(r, ref) == Became(r, Inner(r).rule, Append(Inner(r).refs, ref))

(* An expression is complete: it is the next part of the rule around it,   *)
(* after every quote that was waiting for it. *)
Completed(r, ref) ==
    LET quotes == {k \in DOMAIN r.stack :
                     \A j \in k .. Len(r.stack) : r.stack[j].rule = "quote"}
        depth == Len(r.stack) - Cardinality(quotes)
        wrap(acc, frame) ==
          [nodes |-> ListNodes(acc.nodes, Append(frame.refs, acc.ref)),
           ref |-> ListRef(acc.nodes, Append(frame.refs, acc.ref))]
        whole == FoldRight(LAMBDA frame, acc : wrap(acc, frame),
                           SubSeq(r.stack, depth + 1, Len(r.stack)),
                           [nodes |-> r.nodes, ref |-> ref])
    IN  Extended([r EXCEPT !.nodes = whole.nodes, !.stack = SubSeq(@, 1, depth)], whole.ref)

(* A new node is a complete expression. *)
CompletedNode(r, node) ==
    Completed([r EXCEPT !.nodes = Append(@, node)], LastRef(r.nodes) + 1)

(* The innermost rule ends with a list of these parts. *)
ClosedList(r, refs) ==
    Completed([r EXCEPT !.nodes = ListNodes(@, refs), !.stack = Front(@)],
              ListRef(r.nodes, refs))

(* lambda_form: the environment captured is the parser's own. *)
ParserEnv == 1

ClosedLambda(r) ==
    LET exprs == Tail(Inner(r).refs)
        nodes == ListNodes(r.nodes, exprs)
        lambda == ConsLambda(Head(Inner(r).refs), ListRef(r.nodes, exprs), ParserEnv)
    IN  ClosedList([r EXCEPT !.nodes = Append(nodes, lambda)], <<LastRef(nodes) + 1>>)

ClosedParams(r) ==
    LET refs == Inner(r).refs
    IN  Became([r EXCEPT !.nodes = ListNodes(@, refs)], "body", <<ListRef(r.nodes, refs)>>)

Close(r) ==
    CASE Inner(r).rule = "list" -> ClosedList(r, Inner(r).refs)
      [] Inner(r).rule = "body" -> ClosedLambda(r)
      [] Inner(r).rule = "params" -> ClosedParams(r)
      [] Inner(r).rule = "if" /\ Len(Inner(r).refs) \in {3, 4} -> ClosedList(r, Inner(r).refs)
      [] OTHER -> Failed(r)

(* A new node as the next part of the innermost rule. *)
ExtendedNode(r, node) ==
    Extended([r EXCEPT !.nodes = Append(@, node)], LastRef(r.nodes) + 1)

OpenedNode(r, rule, node) ==
    Opened([r EXCEPT !.nodes = Append(@, node)], rule, <<LastRef(r.nodes) + 1>>)

(* The tokens inside a rule that expects expressions. *)
ReadExpr(r, w) ==
    LET t == Token(w)
        fresh == Inner(r) = Open("list", <<>>)
    IN  CASE t = "(" -> Opened(r, "list", <<>>)
          [] t = ")" -> Close(r)
          [] t = "QUOTE" -> OpenedNode(r, "quote", ConsPrim("QUOTE"))
          [] t = "NIL" -> Completed(r, NIL)
          [] t = "T" -> Completed(r, T)
          [] t = "SYMBOL" -> CompletedNode(r, ConsSymbol(w))
          [] t = "INTEGER" -> CompletedNode(r, ConsInteger(Numbers[w]))
          [] t = "PRIMITIVE" -> CompletedNode(r, ConsPrim(Keyword(w)))
          [] t = "LAMBDA" /\ fresh -> Became(r, "lambda", <<>>)
          [] t = "IF" /\ fresh ->
               OpenedNode([r EXCEPT !.stack = Front(@)], "if", ConsPrim("IF"))
          [] OTHER -> Failed(r)

StartsExpr == {"(", "QUOTE", "NIL", "T", "SYMBOL", "INTEGER", "PRIMITIVE"}

(* After a whole expression of the program, whatever cannot start another  *)
(* one is not looked at: the parser accepts by default reduction. *)
ReadToken(r, w) ==
    CASE r.status # "reading" -> r
      [] r.stack = <<Inner(r)>> /\ Token(w) \notin StartsExpr -> [r EXCEPT !.status = "accept"]
      [] Inner(r).rule = "lambda" ->
           IF Token(w) = "(" THEN Became(r, "params", <<>>) ELSE Failed(r)
      [] Inner(r).rule = "params" ->
           (CASE Token(w) = "SYMBOL" -> ExtendedNode(r, ConsSymbol(w))
              [] Token(w) = ")" -> Close(r)
              [] OTHER -> Failed(r))
      [] OTHER -> ReadExpr(r, w)

(* What yyparse leaves: an unfinished expression is an error, which leaves *)
(* NIL as the root. *)
Parse(ws) ==
    LET r == FoldLeft(ReadToken, Begin, ws)
        refs == r.stack[1].refs
    IN  IF Len(r.stack) = 1 /\ r.status # "error"
        THEN [status |-> 0, nodes |-> ListNodes(r.nodes, refs), root |-> ListRef(r.nodes, refs)]
        ELSE [status |-> 1, nodes |-> <<>>, root |-> NIL]
=============================================================================
