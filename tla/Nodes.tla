------------------------------- MODULE Nodes -------------------------------
(***************************************************************************)
(* The nodes every value and every program is made of (types.h, types.c,   *)
(* and the FIRST and REST of eval.h).                                      *)
(*                                                                         *)
(* `heap' is the sequence of all nodes, never reclaimed; a pointer to a    *)
(* node is its index.  The static nodes NIL and T are the first two.  A    *)
(* node has the fields its type has in the C union, but FIRST and REST     *)
(* read the union's two first words whatever the type is: those of a       *)
(* lambda are its params and body, the first of an atom is its payload,    *)
(* garbage as a pointer unless it is the integer 0, and the second is      *)
(* still NULL from calloc.                                                 *)
(*                                                                         *)
(* Undef is what reading through NULL or garbage yields.  The evaluator    *)
(* stops as soon as it would use it or store it.                           *)
(***************************************************************************)
EXTENDS Integers, Sequences

VARIABLES
    heap,     \* all nodes
    freed     \* the STRING nodes whose character buffer has been freed

Undef == -1
NULL  == 0
NIL   == 1
T     == 2

Types == {"NIL", "SYMBOL", "INTEGER", "STRING", "LIST", "PRIMITIVE", "LAMBDA"}

ConsList(first, rest) == [type |-> "LIST", first |-> first, rest |-> rest]
ConsLambda(params, body, env) ==
    [type |-> "LAMBDA", params |-> params, body |-> body, env |-> env]
ConsInteger(i) == [type |-> "INTEGER", integer |-> i]
ConsSymbol(name) == [type |-> "SYMBOL", symbol |-> name]
ConsPrim(keyword) == [type |-> "PRIMITIVE", primitive |-> keyword]
ConsString(text) == [type |-> "STRING", string |-> text]

StaticNodes == <<[type |-> "NIL", first |-> NULL, rest |-> NULL], ConsSymbol("T")>>

-----------------------------------------------------------------------------
(* type(): a NULL pointer counts as NIL where a type is asked for, but it  *)
(* is no node. *)
Kind(r) == IF r \in DOMAIN heap THEN heap[r].type ELSE "NULL"

First(r) ==
    CASE Kind(r) \in {"NIL", "LIST"} -> heap[r].first
      [] Kind(r) = "LAMBDA" -> heap[r].params
      [] Kind(r) = "INTEGER" /\ heap[r].integer = 0 -> NULL
      [] OTHER -> Undef

Rest(r) ==
    CASE Kind(r) \in {"NIL", "LIST"} -> heap[r].rest
      [] Kind(r) = "LAMBDA" -> heap[r].body
      [] Kind(r) = "NULL" -> Undef
      [] OTHER -> NULL

IsList(r) == Kind(r) = "LIST"
Listp(r)  == r = NIL \/ IsList(r)
IsFunction(r) == Kind(r) \in {"PRIMITIVE", "LAMBDA"}

(* The nodes a walk along `rest' from r visits, to the NULL that ends it:  *)
(* for a proper list its cells and then NIL. *)
Cells(r) ==
    LET cells[x \in DOMAIN heap \cup {NULL}] ==
          IF x = NULL THEN <<>> ELSE <<x>> \o cells[Rest(x)]
    IN  cells[r]

Length(r) == IF r \in DOMAIN heap THEN Len(Cells(r)) - 1 ELSE Undef

(* Does a walk that ends at NIL only, as most are, end?  If it does not,   *)
(* it goes on from the last of the cells to NULL and reads through it.     *)
EndsInNil(r) == r \in DOMAIN heap /\ Cells(r)[Len(Cells(r))] = NIL

(* What such a walk visits before it ends at NIL, or before it comes to    *)
(* NULL: the last one may be an atom. *)
Items(r) ==
    LET cells == Cells(r)
    IN  IF EndsInNil(r) THEN SubSeq(cells, 1, Len(cells) - 1) ELSE cells

(* The nodes that formatting r reads, r included. *)
Shown(r) ==
    LET shown[x \in DOMAIN heap \cup {NULL}] ==
          IF x = NULL THEN {}
          ELSE IF Kind(x) \in {"LIST", "LAMBDA"}
               THEN {x} \cup shown[First(x)] \cup shown[Rest(x)]
               ELSE {x}
    IN  shown[r]

(* str_fn reads the buffer of every string it meets, and list_tostr looks  *)
(* at the first of the rest of every cell that holds a value. *)
Printable(r) ==
    \A n \in Shown(r) :
        /\ n \notin freed
        /\ IsList(n) /\ First(n) # NULL => Rest(n) # NULL

(* list_tostr adds up only the first part's length (list_append returns an *)
(* index, 0 just once), so it writes every list behind a buffer of two     *)
(* bytes: what happens then is up to the allocator. *)
MayFault(r) == ~ Printable(r) \/ \E n \in Shown(r) : IsList(n)

(* What formatting r yields, up to layout. *)
Text(r) ==
    LET text[x \in DOMAIN heap \cup {NULL}] ==
          CASE Kind(x) \in {"NULL", "NIL"} -> <<"NIL">>
            [] Kind(x) = "STRING" -> heap[x].string
            [] Kind(x) = "SYMBOL" -> <<"SYMBOL", heap[x].symbol>>
            [] Kind(x) = "INTEGER" -> <<"INTEGER", heap[x].integer>>
            [] Kind(x) = "PRIMITIVE" -> <<"PRIMITIVE", heap[x].primitive>>
            [] OTHER -> <<Kind(x), text[First(x)], text[Rest(x)]>>
    IN  text[r]

(* string_tostr hands out the node's own buffer, and PRINT and             *)
(* clsr_eval_program free what str_fn returns. *)
FreedByShowing(r) == IF Kind(r) = "STRING" THEN {r} ELSE {}

(* eq_fn of a's type.  Names are interned, so equal symbols are equal      *)
(* pointers; lists and lambdas are equal only to themselves. *)
Equal(a, b) ==
    \/ a = b
    \/ /\ Kind(a) = Kind(b)
       /\ Kind(a) \in {"SYMBOL", "INTEGER", "PRIMITIVE", "STRING"}
       /\ heap[a] = heap[b]
=============================================================================
