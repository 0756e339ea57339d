-------------------------- MODULE EvalMemoryProofs --------------------------
(***************************************************************************)
(* What Eval does to memory, for any programs the parser can build: the    *)
(* nodes of the heap point backwards, so that walks over lists end, and    *)
(* every environment is the global one or directly below it.  The lemmas   *)
(* here are about one operation each; EvalProofs puts them together.       *)
(***************************************************************************)
EXTENDS Eval, EnvProofs, FiniteSetTheorems

-----------------------------------------------------------------------------
(* Sequences.                                                              *)

(* What Append does to each position. *)
LEMMA AppendFacts ==
    ASSUME NEW S, NEW s \in Seq(S), NEW x \in S
    PROVE  /\ Append(s, x) \in Seq(S)
           /\ Len(s) \in Nat
           /\ Len(Append(s, x)) = Len(s) + 1
           /\ Append(s, x) # <<>>
           /\ Append(s, x)[Len(s) + 1] = x
           /\ \A i \in 1 .. Len(s) : Append(s, x)[i] = s[i]
  BY AppendProperties, LenProperties

(* What dropping the last element does. *)
LEMMA PopFacts ==
    ASSUME NEW S, NEW s \in Seq(S), s # <<>>
    PROVE  /\ SubSeq(s, 1, Len(s) - 1) \in Seq(S)
           /\ Len(s) \in Nat \ {0}
           /\ Len(SubSeq(s, 1, Len(s) - 1)) = Len(s) - 1
           /\ \A i \in 1 .. Len(s) - 1 : SubSeq(s, 1, Len(s) - 1)[i] = s[i]
<1>1. Len(s) \in Nat /\ Len(s) # 0
  BY EmptySeq, LenProperties
<1> DEFINE n == Len(s) - 1
<1>2. n \in Nat /\ \A i \in 1 .. n : s[i] \in S
  BY <1>1, ElementOfSeq
<1>3. /\ SubSeq(s, 1, n) \in Seq(S)
      /\ Len(SubSeq(s, 1, n)) = IF 1 <= n THEN n - 1 + 1 ELSE 0
      /\ \A i \in 1 .. n - 1 + 1 : SubSeq(s, 1, n)[i] = s[1 + i - 1]
  <2> HIDE DEF n
  <2> QED
    BY <1>2, SubSeqProperties
<1>4. \A i \in 1 .. n : SubSeq(s, 1, n)[i] = s[i]
  BY <1>2, <1>3
<1>5. Len(SubSeq(s, 1, n)) = n
  <2> HIDE DEF n
  <2> QED
    BY <1>2, <1>3
<1> QED
  BY <1>1, <1>3, <1>4, <1>5

(* What concatenation does to each position. *)
LEMMA ConcatFacts ==
    ASSUME NEW S, NEW s \in Seq(S), NEW t \in Seq(S)
    PROVE  /\ s \o t \in Seq(S)
           /\ Len(s) \in Nat /\ Len(t) \in Nat
           /\ Len(s \o t) = Len(s) + Len(t)
           /\ \A i \in 1 .. Len(s) : (s \o t)[i] = s[i]
           /\ \A i \in 1 .. Len(t) : (s \o t)[Len(s) + i] = t[i]
<1>1. Len(s) \in Nat /\ Len(t) \in Nat
  BY LenProperties
<1> QED
  BY <1>1, ConcatProperties

-----------------------------------------------------------------------------
(* The heap.                                                               *)

IsSequence(s) == s \in Seq({s[i] : i \in DOMAIN s})

(* A sequence of anything is one.                                          *)
LEMMA SequenceOfItsElements ==
    ASSUME NEW S, NEW s \in Seq(S)
    PROVE  IsSequence(s)
<1> DEFINE E == {s[i] : i \in DOMAIN s}
<1>1. PICK n \in Nat : s \in [1 .. n -> S]
  BY SeqDef
<1>2. DOMAIN s = 1 .. n /\ s = [i \in 1 .. n |-> s[i]]
  BY <1>1
<1>3. \A i \in 1 .. n : s[i] \in E
  BY <1>2
<1> HIDE DEF E
<1>4. s \in [1 .. n -> E]
  BY <1>2, <1>3
<1>5. s \in Seq(E)
  BY <1>4, SeqDef
<1> QED
  BY <1>5 DEF IsSequence, E

(* A node points to nodes that were made before it, so there is no cycle   *)
(* and every walk ends; a lambda is closed over the global environment.    *)
NodeOK(n, r) ==
    /\ n.type \in Types
    /\ n.type = "NIL" => r = NIL
    /\ n.type = "SYMBOL" => r = T \/ n.symbol \in Symbols
    /\ n.type = "LIST" => n.first \in 0 .. r - 1 /\ n.rest \in 0 .. r - 1
    /\ n.type = "LAMBDA" => n.params \in 0 .. r - 1 /\ n.body \in 0 .. r - 1 /\ n.env = Global

(* P holds proper lists, each with all its tails.                          *)
ProperLists(h, P) ==
    /\ P \subseteq DOMAIN h
    /\ \A r \in P : r = NIL \/ (h[r].type = "LIST" /\ h[r].rest \in P)

HeapOK ==
    /\ IsSequence(heap)
    /\ Len(heap) >= 2 /\ heap[NIL] = StaticNodes[1] /\ heap[T] = StaticNodes[2]
    /\ \A r \in DOMAIN heap : NodeOK(heap[r], r)
    /\ \E P : ProperLists(heap, P) /\ \A r \in DOMAIN heap : heap[r].type = "LAMBDA" => heap[r].params \in P

(* What the shape of the heap says about positions.                        *)
LEMMA HeapFacts ==
    ASSUME HeapOK
    PROVE  /\ Len(heap) \in Nat /\ Len(heap) >= 2
           /\ DOMAIN heap = 1 .. Len(heap)
           /\ NIL \in DOMAIN heap /\ T \in DOMAIN heap
           /\ Kind(NIL) = "NIL" /\ Kind(T) = "SYMBOL"
           /\ heap[NIL].rest = NULL /\ heap[NIL].first = NULL
<1>1. Len(heap) \in Nat /\ DOMAIN heap = 1 .. Len(heap)
  BY LenProperties DEF HeapOK, IsSequence
<1>2. StaticNodes[1].type = "NIL" /\ StaticNodes[2].type = "SYMBOL"
      /\ StaticNodes[1].rest = NULL /\ StaticNodes[1].first = NULL
  BY DEF StaticNodes, ConsSymbol
<1> QED
  BY <1>1, <1>2 DEF HeapOK, NIL, T, Kind

(* FIRST and REST yield an older node, or garbage of what has none; REST   *)
(* of an atom is NULL.                                                     *)
LEMMA FirstRest ==
    ASSUME HeapOK, NEW r
    PROVE  /\ First(r) \in (0 .. Len(heap)) \cup {Undef}
           /\ Rest(r) \in (0 .. Len(heap)) \cup {Undef}
           /\ r \in DOMAIN heap => Rest(r) \in 0 .. r - 1
           /\ r \in DOMAIN heap /\ Rest(r) # NULL => Kind(r) \in {"LIST", "LAMBDA"}
           /\ Kind(r) \in {"LIST", "LAMBDA"} =>
                r \in DOMAIN heap /\ First(r) \in 0 .. r - 1 /\ Rest(r) \in 0 .. r - 1
<1>1. CASE r \notin DOMAIN heap
  BY <1>1 DEF Kind, First, Rest, Undef
<1>2. CASE r \in DOMAIN heap
  <2>1. Len(heap) \in Nat /\ r \in 1 .. Len(heap) /\ Kind(r) = heap[r].type /\ NodeOK(heap[r], r)
        /\ heap[NIL].rest = NULL /\ heap[NIL].first = NULL
    BY <1>2, HeapFacts DEF HeapOK, Kind
  <2>2. CASE Kind(r) = "NIL"
    BY <2>1, <2>2 DEF NodeOK, First, Rest, NULL, NIL
  <2>3. CASE Kind(r) = "LIST"
    BY <1>2, <2>1, <2>3 DEF NodeOK, First, Rest, NULL
  <2>4. CASE Kind(r) = "LAMBDA"
    BY <1>2, <2>1, <2>4 DEF NodeOK, First, Rest, NULL
  <2>5. CASE Kind(r) \notin {"NIL", "LIST", "LAMBDA"}
    <3>1. Kind(r) # "NULL"
      BY <2>1 DEF NodeOK, Types
    <3> QED
      BY <2>1, <2>5, <3>1 DEF First, Rest, NULL, Undef
  <2> QED
    BY <2>2, <2>3, <2>4, <2>5
<1> QED
  BY <1>1, <1>2

(* f maps each number up to n to the sequence of the numbers visited from  *)
(* it along `next'.                                                        *)
Before(x, s) == <<x>> \o s
IsWalk(f, next, n) == f = [x \in 0 .. n |-> IF x = 0 THEN <<>> ELSE Before(x, f[next[x]])]

(* A walk up to n - 1 extends to one up to n.                              *)
LEMMA WalkExtends ==
    ASSUME NEW n \in Nat \ {0}, NEW next, \A x \in 1 .. n : next[x] \in 0 .. x - 1,
           NEW f, IsWalk(f, next, n - 1)
    PROVE  \E g : IsWalk(g, next, n)
<1> DEFINE last == Before(n, f[next[n]])
           g == [x \in 0 .. n |-> IF x = n THEN last ELSE f[x]]
<1>1. \A x \in 0 .. n - 1 : f[x] = IF x = 0 THEN <<>> ELSE Before(x, f[next[x]])
  BY DEF IsWalk
<1> HIDE DEF last
<1>2. \A x \in 0 .. n - 1 : g[x] = f[x]
  OBVIOUS
<1>3. g[n] = last
  OBVIOUS
<1>4. \A x \in 1 .. n : g[next[x]] = f[next[x]]
  BY <1>2
<1>5. last = Before(n, g[next[n]])
  BY <1>4 DEF last
<1> HIDE DEF g
<1>6. \A x \in 0 .. n : g[x] = IF x = 0 THEN <<>> ELSE Before(x, g[next[x]])
  <2> TAKE x \in 0 .. n
  <2>1. CASE x = n
    BY <1>3, <1>5, <2>1
  <2>2. CASE x = 0
    BY <1>1, <1>2, <2>2
  <2>3. CASE x \in 1 .. n - 1
    <3>1. g[x] = Before(x, f[next[x]])
      BY <1>1, <1>2, <2>3
    <3>2. g[next[x]] = f[next[x]]
      BY <1>4, <2>3
    <3> QED
      BY <2>3, <3>1, <3>2
  <2> QED
    BY <2>1, <2>2, <2>3
<1>7. g = [x \in 0 .. n |-> g[x]]
  BY DEF g
<1>8. IsWalk(g, next, n)
  BY <1>6, <1>7 DEF IsWalk
<1> QED
  BY <1>8

(* So there is one up to any number: a function defined by recursion along *)
(* a map to smaller numbers exists.                                        *)
LEMMA WalkExists ==
    ASSUME NEW N \in Nat, NEW next, \A x \in 1 .. N : next[x] \in 0 .. x - 1
    PROVE  \E f : IsWalk(f, next, N)
<1> DEFINE Bad == {n \in 0 .. N : ~ \E f : IsWalk(f, next, n)}
<1>1. SUFFICES ASSUME Bad # {} PROVE FALSE
  OBVIOUS
<1>2. \E n \in Bad : \A m \in Bad : n <= m
  <2>1. Bad \in SUBSET Nat
    OBVIOUS
  <2> HIDE DEF Bad
  <2> QED
    BY <1>1, <2>1, LeastMember
<1>3. PICK n \in Bad : \A m \in Bad : n <= m
  BY <1>2
<1>4. n \in 0 .. N /\ ~ \E f : IsWalk(f, next, n)
  OBVIOUS
<1>5. n # 0
  <2> DEFINE g == [x \in 0 .. 0 |-> <<>>]
  <2>1. IsWalk(g, next, 0)
    BY DEF IsWalk
  <2> QED
    BY <1>4, <2>1
<1>6. n - 1 \in 0 .. N /\ n - 1 \notin Bad
  <2> HIDE DEF Bad
  <2> QED
    BY <1>3, <1>4, <1>5
<1>7. PICK f : IsWalk(f, next, n - 1)
  BY <1>6
<1>8. \A x \in 1 .. n : next[x] \in 0 .. x - 1
  BY <1>4
<1>9. \E g : IsWalk(g, next, n)
  BY <1>4, <1>5, <1>7, <1>8, WalkExtends
<1> QED
  BY <1>4, <1>9

(* The recursion of Cells, solved: a node, then the cells of its rest.     *)
LEMMA CellsUnfold ==
    ASSUME HeapOK
    PROVE  /\ Cells(NULL) = <<>>
           /\ \A r \in DOMAIN heap : Cells(r) = Before(r, Cells(Rest(r)))
<1> DEFINE N == Len(heap)
           D == DOMAIN heap \cup {NULL}
           IsCells(f) == f = [x \in D |-> IF x = NULL THEN <<>> ELSE <<x>> \o f[Rest(x)]]
           cells == CHOOSE f : IsCells(f)
           next == [x \in 1 .. N |-> Rest(x)]
<1>1. N \in Nat /\ D = 0 .. N /\ DOMAIN heap = 1 .. N
  BY HeapFacts DEF NULL
<1>2. \A x \in 1 .. N : next[x] \in 0 .. x - 1 /\ next[x] = Rest(x)
  BY <1>1, FirstRest
<1>3. PICK f : IsWalk(f, next, N)
  <2> HIDE DEF next, N
  <2> QED
    BY <1>1, <1>2, WalkExists
<1>4. IsCells(f)
  <2>1. \A x \in 0 .. N : (IF x = 0 THEN <<>> ELSE Before(x, f[next[x]]))
                          = (IF x = NULL THEN <<>> ELSE <<x>> \o f[Rest(x)])
    <3> TAKE x \in 0 .. N
    <3>1. CASE x = 0
      BY <3>1 DEF NULL
    <3>2. CASE x # 0
      <4>1. next[x] = Rest(x)
        BY <1>1, <3>2
      <4>2. Before(x, f[next[x]]) = <<x>> \o f[Rest(x)]
        BY <4>1 DEF Before
      <4> HIDE DEF next
      <4> QED
        BY <3>2, <4>2 DEF NULL
    <3> QED
      BY <3>1, <3>2
  <2> QED
    BY <1>1, <1>3, <2>1 DEF IsWalk
<1>5. IsCells(cells)
  BY <1>4
<1>6. \A r : Cells(r) = cells[r]
  BY DEF Cells
<1> HIDE DEF cells
<1>7. \A x \in D : cells[x] = IF x = NULL THEN <<>> ELSE <<x>> \o cells[Rest(x)]
  BY <1>5
<1>8. Cells(NULL) = <<>>
  BY <1>6, <1>7
<1>9. ASSUME NEW r \in DOMAIN heap PROVE Cells(r) = Before(r, Cells(Rest(r)))
  <2>1. r # NULL /\ r \in D
    BY <1>1 DEF NULL
  <2>2. cells[r] = <<r>> \o cells[Rest(r)]
    BY <1>7, <2>1
  <2> QED
    BY <1>6, <2>2 DEF Before
<1> QED
  BY <1>8, <1>9

(* What putting an element before a sequence does to each position.        *)
LEMMA BeforeFacts ==
    ASSUME NEW S, NEW s \in Seq(S), NEW x \in S
    PROVE  /\ Before(x, s) \in Seq(S)
           /\ Len(s) \in Nat
           /\ Len(Before(x, s)) = Len(s) + 1
           /\ Before(x, s)[1] = x
           /\ \A i \in 1 .. Len(s) : Before(x, s)[i + 1] = s[i]
<1>1. <<x>> \in Seq(S) /\ Len(<<x>>) = 1 /\ <<x>>[1] = x
  OBVIOUS
<1>2. /\ Before(x, s) \in Seq(S)
      /\ Len(s) \in Nat
      /\ Len(Before(x, s)) = 1 + Len(s)
      /\ \A i \in 1 .. 1 : Before(x, s)[i] = <<x>>[i]
      /\ \A i \in 1 .. Len(s) : Before(x, s)[1 + i] = s[i]
  BY <1>1, ConcatFacts DEF Before
<1> QED
  BY <1>1, <1>2

(* The cells of a node are the node, its rest, the rest of that, up to one *)
(* whose rest is NULL.                                                     *)
CellsOK(r) ==
    /\ Cells(r) \in Seq(DOMAIN heap)
    /\ Len(Cells(r)) \in Nat \ {0}
    /\ Cells(r)[1] = r
    /\ \A i \in 1 .. Len(Cells(r)) : Cells(r)[i] \in DOMAIN heap
    /\ \A i \in 1 .. Len(Cells(r)) - 1 :
          Cells(r)[i + 1] = Rest(Cells(r)[i]) /\ Rest(Cells(r)[i]) # NULL
    /\ Rest(Cells(r)[Len(Cells(r))]) = NULL

(* One node more at the front keeps that.                                  *)
LEMMA CellsStep ==
    ASSUME HeapOK, NEW r \in DOMAIN heap, Rest(r) # NULL => CellsOK(Rest(r))
    PROVE  CellsOK(r)
<1> DEFINE c == Cells(r)
           d == Cells(Rest(r))
           n == Len(d)
<1>1. c = Before(r, d)
  BY CellsUnfold
<1>2. CASE Rest(r) = NULL
  <2>1. d = <<>>
    BY <1>2, CellsUnfold
  <2>2. d \in Seq(DOMAIN heap) /\ Len(d) = 0
    BY <2>1
  <2>3. c \in Seq(DOMAIN heap) /\ Len(c) = 1 /\ c[1] = r
    <3>1. Before(r, d) \in Seq(DOMAIN heap) /\ Len(Before(r, d)) = Len(d) + 1 /\ Before(r, d)[1] = r
      <4>1. PICK S : S = DOMAIN heap
        OBVIOUS
      <4>2. d \in Seq(S) /\ r \in S
        BY <2>2, <4>1
      <4> HIDE DEF d
      <4> QED
        BY <4>1, <4>2, BeforeFacts
    <3> QED
      BY <1>1, <2>2, <3>1
  <2> QED
    BY <1>2, <2>3 DEF CellsOK
<1>3. CASE Rest(r) # NULL
  <2>1. /\ d \in Seq(DOMAIN heap) /\ n \in Nat \ {0} /\ d[1] = Rest(r)
        /\ \A i \in 1 .. n : d[i] \in DOMAIN heap
        /\ \A i \in 1 .. n - 1 : d[i + 1] = Rest(d[i]) /\ Rest(d[i]) # NULL
        /\ Rest(d[n]) = NULL
    BY <1>3 DEF CellsOK
  <2>2. /\ c \in Seq(DOMAIN heap) /\ Len(c) = n + 1 /\ c[1] = r
        /\ \A i \in 1 .. n : c[i + 1] = d[i]
    <3>1. /\ Before(r, d) \in Seq(DOMAIN heap) /\ Len(Before(r, d)) = Len(d) + 1 /\ Before(r, d)[1] = r
          /\ \A i \in 1 .. Len(d) : Before(r, d)[i + 1] = d[i]
      <4> HIDE DEF d
      <4> QED
        BY <2>1, BeforeFacts
    <3> QED
      BY <1>1, <3>1
  <2> HIDE DEF c, d, n
  <2>3. \A i \in 1 .. n + 1 : c[i] \in DOMAIN heap
    <3> TAKE i \in 1 .. n + 1
    <3>1. CASE i = 1
      BY <2>2, <3>1
    <3>2. CASE i # 1
      <4>1. i - 1 \in 1 .. n /\ i = (i - 1) + 1
        BY <2>1, <3>2
      <4> QED
        BY <2>1, <2>2, <4>1
    <3> QED
      BY <3>1, <3>2
  <2>4. \A i \in 1 .. n : c[i + 1] = Rest(c[i]) /\ Rest(c[i]) # NULL
    <3> TAKE i \in 1 .. n
    <3>1. CASE i = 1
      BY <1>3, <2>1, <2>2, <3>1
    <3>2. CASE i # 1
      <4>1. i - 1 \in 1 .. n - 1 /\ i = (i - 1) + 1 /\ i - 1 \in 1 .. n
        BY <2>1, <3>2
      <4>2. c[i] = d[i - 1] /\ c[i + 1] = d[i]
        BY <2>2, <4>1
      <4>3. d[i] = Rest(d[i - 1]) /\ Rest(d[i - 1]) # NULL
        BY <2>1, <4>1
      <4> QED
        BY <4>2, <4>3
    <3> QED
      BY <3>1, <3>2
  <2>5. c[n + 1] = d[n]
    BY <2>1, <2>2
  <2>6. Len(c) - 1 = n /\ Len(c) \in Nat \ {0}
    BY <2>1, <2>2
  <2>7. c = Cells(r)
    BY DEF c
  <2> QED
    BY <2>1, <2>2, <2>3, <2>4, <2>5, <2>6, <2>7 DEF CellsOK
<1> QED
  BY <1>2, <1>3

(* So it holds of every node.                                              *)
LEMMA CellsFacts ==
    ASSUME HeapOK
    PROVE  \A r \in DOMAIN heap : CellsOK(r)
<1> DEFINE Bad == {r \in DOMAIN heap : ~ CellsOK(r)}
<1>1. SUFFICES ASSUME Bad # {} PROVE FALSE
  OBVIOUS
<1>2. Bad \in SUBSET Nat
  BY HeapFacts
<1>3. \E r \in Bad : \A m \in Bad : r <= m
  <2> HIDE DEF Bad
  <2> QED
    BY <1>1, <1>2, LeastMember
<1>4. PICK r \in Bad : \A m \in Bad : r <= m
  BY <1>3
<1>5. Rest(r) \in 0 .. r - 1 /\ r \in DOMAIN heap /\ ~ CellsOK(r)
  BY FirstRest
<1>6. Rest(r) # NULL => CellsOK(Rest(r))
  <2> SUFFICES ASSUME Rest(r) # NULL PROVE CellsOK(Rest(r))
    OBVIOUS
  <2>1. Rest(r) \in DOMAIN heap /\ r \in Nat
    BY <1>5, HeapFacts DEF NULL
  <2>2. Rest(r) \notin Bad
    <3> HIDE DEF Bad
    <3> QED
      BY <1>4, <1>5, <2>1
  <2> QED
    BY <2>1, <2>2
<1> QED
  BY <1>5, <1>6, CellsStep

(* The items are cells, too.                                               *)
LEMMA ItemsFacts ==
    ASSUME HeapOK, NEW r \in DOMAIN heap
    PROVE  /\ Items(r) \in Seq(DOMAIN heap)
           /\ Len(Items(r)) \in Nat
           /\ Len(Items(r)) = IF Cells(r)[Len(Cells(r))] = NIL THEN Len(Cells(r)) - 1 ELSE Len(Cells(r))
           /\ \A i \in 1 .. Len(Items(r)) : Items(r)[i] = Cells(r)[i]
<1> DEFINE c == Cells(r)
<1>1. c \in Seq(DOMAIN heap) /\ Len(c) \in Nat \ {0} /\ c # <<>>
  BY CellsFacts DEF CellsOK
<1>2. Items(r) = IF c[Len(c)] = NIL THEN SubSeq(c, 1, Len(c) - 1) ELSE c
  BY <1>1 DEF Items, EndsInNil
<1> HIDE DEF c
<1>3. /\ SubSeq(c, 1, Len(c) - 1) \in Seq(DOMAIN heap)
      /\ Len(SubSeq(c, 1, Len(c) - 1)) = Len(c) - 1
      /\ \A i \in 1 .. Len(c) - 1 : SubSeq(c, 1, Len(c) - 1)[i] = c[i]
  BY <1>1, PopFacts
<1>4. c = Cells(r)
  BY DEF c
<1>5. CASE c[Len(c)] = NIL
  BY <1>1, <1>2, <1>3, <1>4, <1>5
<1>6. CASE c[Len(c)] # NIL
  BY <1>1, <1>2, <1>4, <1>6
<1> QED
  BY <1>5, <1>6

(* Two arguments: the second cell and what is behind it are nodes.         *)
LEMMA TwoCells ==
    ASSUME HeapOK, NEW r \in DOMAIN heap, Length(r) = 2
    PROVE  Rest(r) \in DOMAIN heap /\ Rest(Rest(r)) # NULL
<1>0. CellsOK(r)
  BY CellsFacts
<1>1. Len(Cells(r)) = 3 /\ Len(Cells(r)) - 1 = 2
  BY <1>0 DEF Length, CellsOK
<1>2. \A i \in 1 .. 2 : Cells(r)[i + 1] = Rest(Cells(r)[i]) /\ Rest(Cells(r)[i]) # NULL
  BY <1>0, <1>1 DEF CellsOK
<1>3. Cells(r)[1] = r /\ Cells(r)[2] \in DOMAIN heap
  BY <1>0, <1>1 DEF CellsOK
<1>4. Cells(r)[2] = Rest(r)
  BY <1>2, <1>3
<1> QED
  BY <1>2, <1>3, <1>4

(* New nodes that are as they should be, with their proper lists Q, leave  *)
(* the heap as it should be.                                               *)
LEMMA HeapGrows ==
    ASSUME HeapOK, NEW new, IsSequence(new), heap' = heap \o new,
           \A j \in 1 .. Len(new) : NodeOK(new[j], Len(heap) + j),
           NEW Q, Q \subseteq Len(heap) + 1 .. Len(heap) + Len(new),
           \A r \in Q : heap'[r].type = "LIST" /\ (heap'[r].rest = NIL \/ heap'[r].rest \in Q),
           \A j \in 1 .. Len(new) :
             new[j].type = "LAMBDA" => new[j].params = NIL \/ new[j].params \in Q
    PROVE  /\ HeapOK'
           /\ Len(heap') = Len(heap) + Len(new)
           /\ \A r \in DOMAIN heap : r \in DOMAIN heap' /\ heap'[r] = heap[r]
<1> DEFINE S == {heap[r] : r \in DOMAIN heap} \cup {new[j] : j \in DOMAIN new}
<1>1. heap \in Seq(S) /\ new \in Seq(S)
  <2>1. heap \in Seq({heap[r] : r \in DOMAIN heap}) /\ new \in Seq({new[j] : j \in DOMAIN new})
    BY DEF HeapOK, IsSequence
  <2> QED
    BY <2>1
<1> HIDE DEF S
<1>2. /\ heap' \in Seq(S) /\ Len(heap) \in Nat /\ Len(new) \in Nat
      /\ Len(heap') = Len(heap) + Len(new)
      /\ \A i \in 1 .. Len(heap) : heap'[i] = heap[i]
      /\ \A i \in 1 .. Len(new) : heap'[Len(heap) + i] = new[i]
  BY <1>1, ConcatFacts
<1>3. DOMAIN heap = 1 .. Len(heap) /\ DOMAIN heap' = 1 .. Len(heap')
  BY <1>1, <1>2, LenProperties
<1>4. Len(heap') \in Nat
  BY <1>2
<1>5. IsSequence(heap')
  BY <1>2, SequenceOfItsElements
<1>6. \A r \in DOMAIN heap' : r \notin DOMAIN heap => \E j \in 1 .. Len(new) : r = Len(heap) + j
  <2> TAKE r \in DOMAIN heap'
  <2> HAVE r \notin DOMAIN heap
  <2>1. r - Len(heap) \in 1 .. Len(new) /\ r = Len(heap) + (r - Len(heap))
    BY <1>2, <1>3
  <2> QED
    BY <2>1
<1>7. \A r \in DOMAIN heap' : NodeOK(heap'[r], r)
  <2> TAKE r \in DOMAIN heap'
  <2>1. CASE r \in DOMAIN heap
    BY <1>2, <1>3, <2>1 DEF HeapOK
  <2>2. CASE r \notin DOMAIN heap
    BY <1>2, <1>6, <2>2
  <2> QED
    BY <2>1, <2>2
<1>8. PICK P : /\ ProperLists(heap, P)
               /\ \A r \in DOMAIN heap : heap[r].type = "LAMBDA" => heap[r].params \in P
  BY DEF HeapOK
<1> DEFINE P2 == P \cup {NIL} \cup Q
<1>9. ProperLists(heap', P2)
  <2>1. P2 \subseteq DOMAIN heap'
    <3>1. P \subseteq DOMAIN heap /\ DOMAIN heap \subseteq DOMAIN heap' /\ NIL \in DOMAIN heap
      BY <1>2, <1>3, <1>8, HeapFacts DEF ProperLists
    <3>2. Q \subseteq DOMAIN heap'
      BY <1>2, <1>3
    <3> QED
      BY <3>1, <3>2
  <2>2. \A r \in P : r = NIL \/ (heap'[r].type = "LIST" /\ heap'[r].rest \in P2)
    BY <1>2, <1>3, <1>8 DEF ProperLists
  <2> QED
    BY <2>1, <2>2 DEF ProperLists
<1>10. \A r \in DOMAIN heap' : heap'[r].type = "LAMBDA" => heap'[r].params \in P2
  <2> TAKE r \in DOMAIN heap'
  <2>1. CASE r \in DOMAIN heap
    BY <1>2, <1>3, <1>8, <2>1
  <2>2. CASE r \notin DOMAIN heap
    BY <1>2, <1>6, <2>2
  <2> QED
    BY <2>1, <2>2
<1>11. Len(heap') >= 2 /\ heap'[NIL] = StaticNodes[1] /\ heap'[T] = StaticNodes[2]
  <2>1. NIL \in 1 .. Len(heap) /\ T \in 1 .. Len(heap)
    BY <1>2 DEF HeapOK, NIL, T
  <2> QED
    BY <1>2, <2>1 DEF HeapOK
<1> HIDE DEF P2
<1>12. HeapOK'
  BY <1>5, <1>7, <1>9, <1>10, <1>11 DEF HeapOK
<1> QED
  BY <1>2, <1>3, <1>12

-----------------------------------------------------------------------------
(* What the primitives hand out.                                           *)

MaybeRef == (0 .. Len(heap)) \cup {Undef}

(* Nodes that may go to the end of the heap, and a pointer to one of them, *)
(* to an older one, or garbage.                                            *)
ResultOK(r) ==
    /\ IsSequence(r.new)
    /\ \A j \in 1 .. Len(r.new) : NodeOK(r.new[j], Len(heap) + j) /\ r.new[j].type # "LAMBDA"
    /\ r.ref \in (0 .. Len(heap) + Len(r.new)) \cup {Undef}

(* A result that makes no node.                                            *)
LEMMA NothingMade ==
    ASSUME HeapOK, NEW r, r.new = <<>>, r.ref \in MaybeRef
    PROVE  ResultOK(r)
<1>1. IsSequence(<<>>) /\ Len(<<>>) = 0
  BY DEF IsSequence
<1> QED
  BY <1>1, HeapFacts DEF ResultOK, MaybeRef

(* A result that makes one node.                                           *)
LEMMA OneMade ==
    ASSUME HeapOK, NEW r, NEW n, r.new = <<n>>, r.ref = Len(heap) + 1,
           \/ n.type = "INTEGER"
           \/ n.type = "LIST" /\ {n.first, n.rest} \subseteq 0 .. Len(heap)
    PROVE  ResultOK(r)
<1>1. Len(<<n>>) = 1 /\ <<n>>[1] = n /\ DOMAIN <<n>> = 1 .. 1
  OBVIOUS
<1>2. IsSequence(<<n>>)
  BY DEF IsSequence
<1>3. NodeOK(n, Len(heap) + 1) /\ n.type # "LAMBDA"
  BY HeapFacts DEF NodeOK, Types
<1> QED
  BY <1>1, <1>2, <1>3, HeapFacts DEF ResultOK

(* The cells that pair() makes point backwards.                            *)
LEMMA PairsOK ==
    ASSUME HeapOK, NEW x, NEW y, Listp(x), Listp(y)
    PROVE  ResultOK(Pairs(x, y))
<1> DEFINE as == Items(x)
           bs == Items(y)
           n == IF Len(as) < Len(bs) THEN Len(as) ELSE Len(bs)
           new == PairNodes(x, y)
           L == Len(heap)
           OfSecond(j) == ConsList(First(bs[(j + 1) \div 2]), NIL)
           OfFirst(j) == ConsList(First(as[j \div 2]), L + j - 1)
           OfPair(j) == ConsList(L + 2 * (3 * n + 1 - j), IF j = 2 * n + 1 THEN NIL ELSE L + j - 1)
           Cell(j) == CASE j <= 2 * n /\ j % 2 = 1 -> OfSecond(j)
                        [] j <= 2 * n /\ j % 2 = 0 -> OfFirst(j)
                        [] j > 2 * n -> OfPair(j)
<1>1. x \in DOMAIN heap /\ y \in DOMAIN heap
  BY HeapFacts DEF Listp, IsList, Kind
<1>2. n \in Nat /\ L \in Nat /\ L >= 2
  <2>1. Len(as) \in Nat /\ Len(bs) \in Nat
    BY <1>1, ItemsFacts
  <2> QED
    BY <2>1, HeapFacts
<1>3. new = [j \in 1 .. 3 * n |-> Cell(j)]
  BY DEF PairNodes
<1> HIDE DEF n, L
<1>4. ASSUME NEW j \in 1 .. 3 * n
      PROVE  /\ Cell(j).type = "LIST"
             /\ Cell(j).first \in (0 .. L + j - 1) \cup {Undef}
             /\ Cell(j).rest \in (0 .. L + j - 1)
  <2>1. /\ OfSecond(j).type = "LIST"
        /\ OfSecond(j).first \in (0 .. L) \cup {Undef} /\ OfSecond(j).rest = NIL
    <3>1. First(bs[(j + 1) \div 2]) \in (0 .. L) \cup {Undef}
      BY FirstRest DEF L
    <3> QED
      BY <3>1 DEF ConsList
  <2>2. /\ OfFirst(j).type = "LIST"
        /\ OfFirst(j).first \in (0 .. L) \cup {Undef} /\ OfFirst(j).rest = L + j - 1
    <3>1. First(as[j \div 2]) \in (0 .. L) \cup {Undef}
      BY FirstRest DEF L
    <3> QED
      BY <3>1 DEF ConsList
  <2>3. /\ OfPair(j).type = "LIST"
        /\ OfPair(j).first = L + 2 * (3 * n + 1 - j)
        /\ OfPair(j).rest = IF j = 2 * n + 1 THEN NIL ELSE L + j - 1
    BY DEF ConsList
  <2> HIDE DEF OfFirst, OfSecond, OfPair
  <2>4. CASE j <= 2 * n /\ j % 2 = 1
    <3>1. Cell(j) = OfSecond(j)
      BY <1>2, <2>4
    <3> HIDE DEF Cell
    <3> QED
      BY <1>2, <2>1, <3>1 DEF NIL
  <2>5. CASE j <= 2 * n /\ j % 2 = 0
    <3>1. Cell(j) = OfFirst(j)
      BY <1>2, <2>5
    <3> HIDE DEF Cell
    <3> QED
      BY <1>2, <2>2, <3>1
  <2>6. CASE j > 2 * n
    <3>1. Cell(j) = OfPair(j)
      BY <1>2, <2>6
    <3> HIDE DEF Cell
    <3>2. L + 2 * (3 * n + 1 - j) \in 0 .. L + j - 1
      BY <1>2, <2>6
    <3> QED
      BY <1>2, <2>3, <2>6, <3>1, <3>2 DEF NIL
  <2>7. j % 2 = 0 \/ j % 2 = 1
    OBVIOUS
  <2> QED
    BY <1>2, <2>4, <2>5, <2>6, <2>7
<1> HIDE DEF Cell
<1>5. new \in Seq({Cell(j) : j \in 1 .. 3 * n}) /\ Len(new) = 3 * n
      /\ DOMAIN new = 1 .. 3 * n /\ \A j \in 1 .. 3 * n : new[j] = Cell(j)
  <2> DEFINE N == 3 * n
  <2>1. N \in Nat
    BY <1>2
  <2>2. new = [j \in 1 .. N |-> Cell(j)]
    BY <1>3
  <2> HIDE DEF N, new
  <2>3. new \in [1 .. N -> {Cell(i) : i \in 1 .. N}]
    BY <2>2
  <2>4. new \in Seq({Cell(i) : i \in 1 .. N})
    BY <2>1, <2>3, SeqDef
  <2>5. Len(new) = N
    BY <2>1, <2>2
  <2> QED
    BY <2>2, <2>4, <2>5 DEF N
<1>6. IsSequence(new)
  BY <1>5, SequenceOfItsElements
<1>7. ASSUME \A j \in DOMAIN new : Undef \notin {new[j].first, new[j].rest}
      PROVE  \A j \in 1 .. Len(new) : NodeOK(new[j], L + j) /\ new[j].type # "LAMBDA"
  <2> SUFFICES ASSUME NEW j \in 1 .. 3 * n
               PROVE  NodeOK(Cell(j), L + j) /\ Cell(j).type # "LAMBDA"
    BY <1>5
  <2>1. Cell(j).first # Undef
    BY <1>5, <1>7
  <2> QED
    BY <1>2, <1>4, <2>1 DEF NodeOK, Types
<1>8. ResultOK(Gives(Undef))
  BY NothingMade DEF Gives, MaybeRef
<1>9. ASSUME \A j \in DOMAIN new : Undef \notin {new[j].first, new[j].rest}
      PROVE  ResultOK(Makes(new, IF new = <<>> THEN NIL ELSE L + Len(new)))
  <2> HIDE DEF new
  <2>1. (IF new = <<>> THEN NIL ELSE L + Len(new)) \in 0 .. L + Len(new)
    BY <1>2, <1>5 DEF NIL
  <2> QED
    BY <1>6, <1>7, <1>9, <2>1 DEF ResultOK, Makes, L
<1>10. Pairs(x, y) \in {Gives(Undef), Conses(new, IF new = <<>> THEN NIL ELSE L + Len(new))}
  BY DEF Pairs, L
<1> HIDE DEF new
<1> QED
  BY <1>8, <1>9, <1>10 DEF Conses

(* What the primitives that only make nodes return.                        *)
LEMMA ResultsOK ==
    ASSUME HeapOK, NEW p \in PureBuiltins, NEW args
    PROVE  ResultOK(Result(p, args))
<1> DEFINE x == First(args)
           y == First(Rest(args))
           r == Result(p, args)
<1>1. /\ x \in MaybeRef /\ y \in MaybeRef
      /\ OrNil(First(x)) \in MaybeRef /\ OrNil(Rest(x)) \in MaybeRef
      /\ {T, NIL, NULL, Undef} \subseteq MaybeRef
  BY FirstRest, HeapFacts DEF OrNil, MaybeRef, NIL, NULL, T
<1>2. \A ref \in MaybeRef : ResultOK(Gives(ref))
  BY NothingMade DEF Gives
<1>3. \A e : ResultOK(Rejects(e))
  BY <1>1, NothingMade DEF Rejects
<1>4. \A b : ResultOK(Truth(b))
  BY <1>1, <1>2 DEF Truth
<1>5. \A i : ResultOK(Makes(<<ConsInteger(i)>>, Len(heap) + 1))
  BY OneMade DEF Makes, ConsInteger
<1>6. ResultOK(Conses(<<ConsList(x, y)>>, Len(heap) + 1))
  <2> DEFINE cells == <<ConsList(x, y)>>
  <2>1. DOMAIN cells = {1} /\ cells[1].first = x /\ cells[1].rest = y /\ cells[1].type = "LIST"
    BY DEF ConsList
  <2>2. CASE Undef \in {x, y}
    <3>1. Conses(cells, Len(heap) + 1) = Gives(Undef)
      BY <2>1, <2>2 DEF Conses
    <3> QED
      BY <1>1, <1>2, <3>1
  <2>3. CASE Undef \notin {x, y}
    <3>1. Conses(cells, Len(heap) + 1) = Makes(cells, Len(heap) + 1)
      BY <2>1, <2>3 DEF Conses
    <3>2. {x, y} \subseteq 0 .. Len(heap)
      BY <1>1, <2>3 DEF MaybeRef
    <3> QED
      BY <3>1, <3>2, OneMade DEF Makes, ConsList
  <2> QED
    BY <2>2, <2>3
<1>7. Listp(x) /\ Listp(y) => ResultOK(Pairs(x, y))
  BY PairsOK
<1>8. ASSUME NEW op PROVE ResultOK(Arithmetic(op, args))
  BY <1>1, <1>2, <1>3, <1>5 DEF Arithmetic
<1> HIDE DEF x, y
<1>a. CASE p = "CONS"
  <2>1. r = Conses(<<ConsList(x, y)>>, Len(heap) + 1)
    BY <1>a DEF Result, x, y
  <2> QED
    BY <1>6, <2>1
<1>b. CASE p = "EQ"
  <2>1. r = Gives(Undef) \/ r = Truth(Equal(x, y))
    BY <1>b DEF Result, x, y
  <2> QED
    BY <1>1, <1>2, <1>4, <2>1
<1>c. CASE p = "FIRST"
  <2>1. r = Gives(OrNil(First(x))) \/ r = Rejects("INVALID_ARG")
    BY <1>c DEF Result, x, y
  <2> QED
    BY <1>1, <1>2, <1>3, <2>1
<1>d. CASE p = "REST"
  <2>1. r = Gives(OrNil(Rest(x))) \/ r = Rejects("INVALID_ARG")
    BY <1>d DEF Result, x, y
  <2> QED
    BY <1>1, <1>2, <1>3, <2>1
<1>e. CASE p = "NOT"
  <2>1. r = Truth(x = NIL) \/ r = Rejects("INVALID_ARG")
    BY <1>e DEF Result, x, y
  <2> QED
    BY <1>3, <1>4, <2>1
<1>f. CASE p = "LEN"
  <2>1. \/ r = Rejects("INVALID_ARG") \/ r = Gives(Undef)
        \/ r = Makes(<<ConsInteger(Length(x))>>, Len(heap) + 1)
    BY <1>f DEF Result, x, y
  <2> QED
    BY <1>1, <1>2, <1>3, <1>5, <2>1
<1>g. CASE p = "PAIR"
  <2>1. (Listp(x) /\ Listp(y) /\ r = Pairs(x, y)) \/ r = Rejects("INVALID_ARG")
    BY <1>g DEF Result, x, y
  <2> QED
    BY <1>3, <1>7, <2>1
<1>h. CASE p \in MathOps
  <2>1. r = Arithmetic(p, args)
    BY <1>h DEF Result, MathOps
  <2> QED
    BY <1>8, <2>1
<1> QED
  BY <1>a, <1>b, <1>c, <1>d, <1>e, <1>f, <1>g, <1>h DEF PureBuiltins

(* What the parser has built may go to the end of the heap.                *)
LEMMA LoadOK ==
    ASSUME HeapOK, NEW nodes, BuiltByParser(nodes), Load(nodes)
    PROVE  /\ HeapOK'
           /\ Len(heap') = Len(heap) + Len(nodes)
           /\ \A r \in DOMAIN heap : r \in DOMAIN heap' /\ heap'[r] = heap[r]
<1> DEFINE L == Len(heap)
           new == [j \in DOMAIN nodes |-> RelocatedNode(nodes[j])]
           Q == {r \in L + 1 .. L + Len(nodes) : nodes[r - L].type = "LIST"}
           ListBefore(r, j) ==
             r = NIL \/ \E i \in 1 .. j - 1 : r = Len(StaticNodes) + i /\ nodes[i].type = "LIST"
<1>1. Len(StaticNodes) = 2
  BY DEF StaticNodes
<1>2. L \in Nat /\ L >= 2
  BY HeapFacts
<1>3. nodes \in Seq({nodes[j] : j \in DOMAIN nodes})
  BY DEF BuiltByParser
<1>4. Len(nodes) \in Nat /\ DOMAIN nodes = 1 .. Len(nodes)
  BY <1>3, LenProperties
<1>5. new \in Seq({RelocatedNode(nodes[j]) : j \in DOMAIN nodes}) /\ Len(new) = Len(nodes)
      /\ DOMAIN new = 1 .. Len(nodes)
      /\ \A j \in 1 .. Len(nodes) : new[j] = RelocatedNode(nodes[j])
  <2> DEFINE S == {RelocatedNode(nodes[j]) : j \in DOMAIN nodes}
  <2>1. new \in [1 .. Len(nodes) -> S]
    BY <1>4
  <2>2. DOMAIN new = 1 .. Len(nodes) /\ \A j \in 1 .. Len(nodes) : new[j] = RelocatedNode(nodes[j])
    BY <1>4
  <2> HIDE DEF new, S
  <2>3. new \in Seq(S)
    BY <1>4, <2>1, SeqDef
  <2>4. Len(new) = Len(nodes)
    BY <1>4, <2>2
  <2> QED
    BY <2>2, <2>3, <2>4 DEF S
<1>6. IsSequence(new)
  <2> HIDE DEF new
  <2> QED
    BY <1>5, SequenceOfItsElements
<1>7. \A j \in 1 .. Len(nodes) : \A r \in 0 .. 2 + j - 1 : Relocated(r) \in 0 .. L + j - 1
  BY <1>1, <1>2, <1>4 DEF Relocated, T
<1>8. \A j \in 1 .. Len(nodes) : \A r : ListBefore(r, j) => Relocated(r) = NIL \/ Relocated(r) \in Q
  <2> SUFFICES ASSUME NEW j \in 1 .. Len(nodes), NEW r, ListBefore(r, j), r # NIL
               PROVE  Relocated(r) \in Q
    BY DEF Relocated, NIL, T
  <2>1. PICK i \in 1 .. j - 1 : r = 2 + i /\ nodes[i].type = "LIST"
    BY <1>1
  <2>2. Relocated(r) = L + i
    BY <1>1, <1>2, <2>1 DEF Relocated, T
  <2> QED
    BY <1>2, <1>4, <2>1, <2>2
<1> HIDE DEF L
<1>9. ASSUME NEW j \in 1 .. Len(nodes)
      PROVE  /\ NodeOK(new[j], L + j)
             /\ new[j].type = nodes[j].type
             /\ new[j].type = "LIST" => new[j].rest = NIL \/ new[j].rest \in Q
             /\ new[j].type = "LAMBDA" => new[j].params = NIL \/ new[j].params \in Q
  <2>0. j \in DOMAIN nodes
    BY <1>4
  <2>1. /\ nodes[j].type \in {"SYMBOL", "INTEGER", "PRIMITIVE", "LIST", "LAMBDA"}
        /\ nodes[j].type = "SYMBOL" => nodes[j].symbol \in Symbols
        /\ nodes[j].type = "LIST" => nodes[j].first \in 0 .. 2 + j - 1 /\ ListBefore(nodes[j].rest, j)
        /\ nodes[j].type = "LAMBDA" =>
             /\ ListBefore(nodes[j].params, j) /\ nodes[j].body \in 0 .. 2 + j - 1
             /\ nodes[j].env = Global
    BY <1>1, <2>0 DEF BuiltByParser
  <2>2. \A r : ListBefore(r, j) => r \in 0 .. 2 + j - 1
    BY <1>1, <1>4 DEF NIL
  <2>3. new[j] = RelocatedNode(nodes[j])
    BY <1>5
  <2> HIDE DEF ListBefore, Q, new
  <2>4. CASE nodes[j].type = "LIST"
    <3>1. new[j] = ConsList(Relocated(nodes[j].first), Relocated(nodes[j].rest))
      BY <2>3, <2>4 DEF RelocatedNode
    <3>2. new[j].type = "LIST" /\ new[j].first = Relocated(nodes[j].first)
          /\ new[j].rest = Relocated(nodes[j].rest)
      BY <3>1 DEF ConsList
    <3>3. /\ Relocated(nodes[j].first) \in 0 .. L + j - 1
          /\ Relocated(nodes[j].rest) \in 0 .. L + j - 1
      BY <1>7, <2>1, <2>2, <2>4
    <3>4. Relocated(nodes[j].rest) = NIL \/ Relocated(nodes[j].rest) \in Q
      BY <1>8, <2>1, <2>4
    <3> QED
      BY <1>2, <2>4, <3>2, <3>3, <3>4 DEF NodeOK, Types
  <2>5. CASE nodes[j].type = "LAMBDA"
    <3>1. new[j] = ConsLambda(Relocated(nodes[j].params), Relocated(nodes[j].body), nodes[j].env)
      BY <2>3, <2>5 DEF RelocatedNode
    <3>2. new[j].type = "LAMBDA" /\ new[j].params = Relocated(nodes[j].params)
          /\ new[j].body = Relocated(nodes[j].body) /\ new[j].env = nodes[j].env
      BY <3>1 DEF ConsLambda
    <3>3. /\ Relocated(nodes[j].params) \in 0 .. L + j - 1
          /\ Relocated(nodes[j].body) \in 0 .. L + j - 1
      BY <1>7, <2>1, <2>2, <2>5
    <3>4. Relocated(nodes[j].params) = NIL \/ Relocated(nodes[j].params) \in Q
      BY <1>8, <2>1, <2>5
    <3> QED
      BY <1>2, <2>1, <2>5, <3>2, <3>3, <3>4 DEF NodeOK, Types
  <2>6. CASE nodes[j].type \notin {"LIST", "LAMBDA"}
    <3>1. new[j] = nodes[j]
      BY <2>3, <2>6 DEF RelocatedNode
    <3> QED
      BY <2>1, <2>6, <3>1 DEF NodeOK, Types
  <2> QED
    BY <2>4, <2>5, <2>6
<1>10. heap' = heap \o new
  BY DEF Load
<1>11. Q \subseteq L + 1 .. L + Len(new)
  BY <1>2, <1>4, <1>5
<1>12. \A r \in Q : heap'[r].type = "LIST" /\ (heap'[r].rest = NIL \/ heap'[r].rest \in Q)
  <2> SUFFICES ASSUME NEW j \in 1 .. Len(nodes), nodes[j].type = "LIST"
               PROVE  /\ heap'[L + j].type = "LIST"
                      /\ heap'[L + j].rest = NIL \/ heap'[L + j].rest \in Q
    <3>1. \A r \in Q : r - L \in 1 .. Len(nodes) /\ r = L + (r - L) /\ nodes[r - L].type = "LIST"
      BY <1>2, <1>4 DEF L
    <3> QED
      BY <3>1
  <2>1. heap'[L + j] = new[j]
    <3> DEFINE S == {heap[r] : r \in DOMAIN heap} \cup {new[i] : i \in DOMAIN new}
    <3>1. heap \in Seq({heap[r] : r \in DOMAIN heap}) /\ new \in Seq({new[i] : i \in DOMAIN new})
      BY <1>6 DEF HeapOK, IsSequence
    <3>2. heap \in Seq(S) /\ new \in Seq(S)
      BY <3>1
    <3> HIDE DEF S, new
    <3> QED
      BY <1>5, <1>10, <3>2, ConcatFacts DEF L
  <2> QED
    BY <1>9, <2>1
<1>13. /\ \A j \in 1 .. Len(new) : NodeOK(new[j], Len(heap) + j)
       /\ \A j \in 1 .. Len(new) :
             new[j].type = "LAMBDA" => new[j].params = NIL \/ new[j].params \in Q
  BY <1>5, <1>9 DEF L
<1> HIDE DEF new, Q
<1> QED
  BY <1>5, <1>6, <1>10, <1>11, <1>12, <1>13, HeapGrows DEF L

-----------------------------------------------------------------------------
(* The environments.                                                       *)

Environment == [chain : Seq(Nat), vals : Bindings(Nat)]

ChainOf(e) == IF e = Global THEN <<Global>> ELSE <<e, Global>>

EnvsOK ==
    /\ envs \in Seq(Environment)
    /\ Global \in Envs
    /\ ActivationsBelowGlobal
    /\ \A e \in Envs : \A s \in DOMAIN envs[e].vals : envs[e].vals[s] \in Ref

(* What the type says of one environment.                                  *)
LEMMA EnvironmentFacts ==
    ASSUME EnvsOK
    PROVE  /\ Len(envs) \in Nat /\ Len(envs) >= 1 /\ DOMAIN envs = Envs
           /\ \A e \in Envs : /\ envs[e] \in Environment
                               /\ envs[e].chain = ChainOf(e)
                               /\ DOMAIN envs[e].vals \subseteq Symbols
<1>1. Len(envs) \in Nat /\ DOMAIN envs = Envs /\ Len(envs) >= 1
  BY LenProperties DEF EnvsOK, Envs, Global
<1>2. ASSUME NEW e \in Envs
      PROVE  /\ envs[e] \in Environment
             /\ envs[e].chain = ChainOf(e)
             /\ DOMAIN envs[e].vals \subseteq Symbols
  <2>1. envs[e] \in Environment
    BY <1>1, ElementOfSeq DEF EnvsOK, Envs
  <2>2. envs[e].chain = ChainOf(e)
    BY DEF EnvsOK, ActivationsBelowGlobal, ChainOf
  <2>3. envs[e].vals \in Bindings(Nat)
    BY <2>1 DEF Environment
  <2> QED
    BY <2>1, <2>2, <2>3 DEF Bindings
<1> QED
  BY <1>1, <1>2

(* With no more than the global environment above it, an environment sees  *)
(* its own bindings first and then the global ones.                        *)
BinderRule ==
    \A e \in Envs : \A s :
      Binder(e, s) = IF s \in DOMAIN envs[e].vals THEN e
                     ELSE IF s \in DOMAIN envs[Global].vals THEN Global ELSE NoEnv

(* The environments keep that rule.                                        *)
LEMMA BinderIsOwnOrGlobal == EnvsOK => BinderRule
<1> SUFFICES ASSUME EnvsOK, NEW e \in Envs, NEW s
             PROVE  Binder(e, s) = IF s \in DOMAIN envs[e].vals THEN e
                                   ELSE IF s \in DOMAIN envs[Global].vals THEN Global ELSE NoEnv
  BY DEF BinderRule
<1> DEFINE c == envs[e].chain
           H == Hits(e, s)
<1>1. c = IF e = Global THEN <<Global>> ELSE <<e, Global>>
  BY DEF EnvsOK, ActivationsBelowGlobal
<1>2. H = {i \in DOMAIN c : s \in DOMAIN envs[c[i]].vals}
  BY DEF Hits
<1>3. CASE e = Global
  <2>1. DOMAIN c = {1} /\ c[1] = Global
    BY <1>1, <1>3
  <2> HIDE DEF c
  <2>2. H = IF s \in DOMAIN envs[Global].vals THEN {1} ELSE {}
    BY <1>2, <2>1
  <2>3. H # {} => FirstHit(e, s) = 1
    BY <2>2 DEF FirstHit
  <2> QED
    BY <1>3, <2>1, <2>2, <2>3 DEF Binder, c
<1>4. CASE e # Global
  <2>1. DOMAIN c = {1, 2} /\ c[1] = e /\ c[2] = Global
    BY <1>1, <1>4
  <2> HIDE DEF c
  <2>2. CASE s \in DOMAIN envs[e].vals
    <3>1. 1 \in H /\ \A j \in H : 1 <= j
      BY <1>2, <2>1, <2>2
    <3>2. H \subseteq {1, 2}
      BY <1>2, <2>1
    <3> HIDE DEF H
    <3>3. (CHOOSE i \in H : \A j \in H : i <= j) = 1
      <4>1. \A i \in H : (\A j \in H : i <= j) <=> i = 1
        BY <3>1, <3>2
      <4> QED
        BY <3>1, <4>1
    <3>4. FirstHit(e, s) = 1
      BY <3>3 DEF FirstHit, H
    <3> QED
      BY <2>1, <2>2, <3>1, <3>4 DEF Binder, H, c
  <2>3. CASE s \notin DOMAIN envs[e].vals
    <3>1. H = IF s \in DOMAIN envs[Global].vals THEN {2} ELSE {}
      BY <1>2, <2>1, <2>3
    <3>2. H # {} => FirstHit(e, s) = 2
      BY <3>1 DEF FirstHit
    <3> QED
      BY <2>1, <2>3, <3>1, <3>2 DEF Binder, c
  <2> QED
    BY <2>2, <2>3
<1> QED
  BY <1>3, <1>4

(* What a call of env_set does: it writes one name of the environment      *)
(* itself or of the global one, where the name is then found.              *)
LEMMA EnvSetOK ==
    ASSUME EnvsOK, HeapOK, NEW e \in Envs, NEW s \in Symbols, NEW v \in Ref, EnvSet(e, s, v),
           UNCHANGED heap
    PROVE  /\ EnvsOK'
           /\ Len(envs') = Len(envs)
           /\ \A d \in Envs \ {e, Global} : envs'[d] = envs[d]
           /\ \A d \in Envs : DOMAIN envs[d].vals \subseteq DOMAIN envs'[d].vals
           /\ Binder(e, s)' # NoEnv /\ EnvLookup(e, s)' = v
           /\ \A x : x # s => Binder(e, x)' = Binder(e, x)
           /\ \A x : x # s /\ Binder(e, x) # NoEnv => EnvLookup(e, x)' = EnvLookup(e, x)
<1> DEFINE t == IF Binder(e, s) = NoEnv THEN e ELSE Binder(e, s)
           f == [x \in DOMAIN envs[t].vals \cup {s} |-> IF x = s THEN v ELSE envs[t].vals[x]]
<1>1. t = IF s \in DOMAIN envs[e].vals THEN e
          ELSE IF s \in DOMAIN envs[Global].vals THEN Global ELSE e
  BY BinderIsOwnOrGlobal DEF EnvsOK, Envs, NoEnv, BinderRule
<1>2. t \in Envs /\ t \in {e, Global}
  BY <1>1 DEF EnvsOK
<1>3. envs' = [envs EXCEPT ![t].vals = f]
  BY DEF EnvSet, Bind
<1> HIDE DEF t
<1>4. /\ Len(envs) \in Nat /\ DOMAIN envs = Envs /\ envs[t] \in Environment
      /\ DOMAIN envs[t].vals \subseteq Symbols
      /\ \A x \in DOMAIN envs[t].vals : envs[t].vals[x] \in Ref
  <2>1. t \in Envs
    BY <1>2
  <2>2. envs[t] \in Environment /\ DOMAIN envs[t].vals \subseteq Symbols
    BY <2>1, EnvironmentFacts
  <2>3. \A x \in DOMAIN envs[t].vals : envs[t].vals[x] \in Ref
    BY <2>1 DEF EnvsOK
  <2> QED
    BY <2>2, <2>3, EnvironmentFacts
<1>5. Ref \subseteq Nat
  BY HeapFacts DEF Ref
<1>6. f \in Bindings(Nat)
  <2>1. f \in [DOMAIN envs[t].vals \cup {s} -> Nat]
    BY <1>4, <1>5
  <2>2. DOMAIN envs[t].vals \cup {s} \in SUBSET Symbols
    BY <1>4
  <2> HIDE DEF f
  <2> QED
    BY <2>1, <2>2 DEF Bindings
<1>7. /\ f[s] = v /\ DOMAIN f = DOMAIN envs[t].vals \cup {s}
      /\ \A x \in DOMAIN envs[t].vals : x # s => f[x] = envs[t].vals[x]
      /\ \A x \in DOMAIN f : f[x] \in Ref
  BY <1>4
<1> HIDE DEF f
<1>8. envs \in Seq(Environment)
  BY DEF EnvsOK
<1>9. [envs[t] EXCEPT !.vals = f] \in Environment
  BY <1>4, <1>6 DEF Environment
<1>10. /\ envs' = [envs EXCEPT ![t] = [envs[t] EXCEPT !.vals = f]]
       /\ envs' \in Seq(Environment) /\ Len(envs') = Len(envs)
  <2>1. envs' = [envs EXCEPT ![t] = [envs[t] EXCEPT !.vals = f]]
    BY <1>3
  <2>2. t \in 1 .. Len(envs)
    BY <1>2 DEF Envs
  <2> QED
    BY <1>8, <1>9, <2>1, <2>2, ExceptSeq
<1>11. Envs' = Envs
  BY <1>10 DEF Envs
<1>12. /\ \A d \in Envs : envs'[d].chain = envs[d].chain
       /\ \A d \in Envs : d # t => envs'[d] = envs[d]
       /\ envs'[t].vals = f
  BY <1>2, <1>4, <1>9, <1>10 DEF Environment
<1>13. EnvsOK'
  <2>1. ActivationsBelowGlobal'
    BY <1>11, <1>12 DEF EnvsOK, ActivationsBelowGlobal
  <2>2. \A d \in Envs : \A x \in DOMAIN envs'[d].vals : envs'[d].vals[x] \in Ref
    BY <1>7, <1>12 DEF EnvsOK
  <2> QED
    BY <1>10, <1>11, <2>1, <2>2 DEF EnvsOK, Ref
<1>14. \A x : Binder(e, x)' = IF x \in DOMAIN envs'[e].vals THEN e
                            ELSE IF x \in DOMAIN envs'[Global].vals THEN Global ELSE NoEnv
  <2>1. (EnvsOK => BinderRule)'
    BY BinderIsOwnOrGlobal, PTL
  <2> QED
    BY <1>11, <1>13, <2>1 DEF BinderRule
<1>15. \A x : Binder(e, x) = IF x \in DOMAIN envs[e].vals THEN e
                           ELSE IF x \in DOMAIN envs[Global].vals THEN Global ELSE NoEnv
  BY BinderIsOwnOrGlobal DEF BinderRule
<1>16. \A d \in Envs : /\ DOMAIN envs[d].vals \subseteq DOMAIN envs'[d].vals
                       /\ \A x : x # s => (x \in DOMAIN envs'[d].vals <=> x \in DOMAIN envs[d].vals)
                       /\ \A x \in DOMAIN envs[d].vals : x # s => envs'[d].vals[x] = envs[d].vals[x]
  BY <1>7, <1>12
<1>17. Binder(e, s)' = t /\ EnvLookup(e, s)' = v
  <2>1. Binder(e, s)' = t
    <3>1. CASE t = e
      BY <1>7, <1>12, <1>14, <3>1
    <3>2. CASE t # e
      <4>1. t = Global /\ s \notin DOMAIN envs[e].vals /\ envs'[e] = envs[e]
        BY <1>1, <1>2, <1>12, <3>2
      <4> QED
        BY <1>7, <1>12, <1>14, <4>1
    <3> QED
      BY <3>1, <3>2
  <2>2. EnvLookup(e, s)' = envs'[t].vals[s]
    BY <2>1 DEF EnvLookup
  <2> QED
    BY <1>7, <1>12, <2>1, <2>2
<1>18. \A x : x # s => Binder(e, x)' = Binder(e, x)
  BY <1>14, <1>15, <1>16 DEF EnvsOK
<1>19. ASSUME NEW x, x # s, Binder(e, x) # NoEnv
       PROVE  EnvLookup(e, x)' = EnvLookup(e, x)
  <2>1. Binder(e, x)' = Binder(e, x)
    BY <1>18, <1>19
  <2>2. Binder(e, x) \in Envs /\ x \in DOMAIN envs[Binder(e, x)].vals
    BY <1>15, <1>19 DEF EnvsOK
  <2> QED
    BY <1>16, <1>19, <2>1, <2>2 DEF EnvLookup
<1>20. t # NoEnv
  BY <1>2 DEF Envs, NoEnv
<1> QED
  BY <1>2, <1>10, <1>12, <1>13, <1>16, <1>17, <1>18, <1>19, <1>20

(* What env_new does below the global environment.                         *)
LEMMA EnvNewOK ==
    ASSUME EnvsOK, HeapOK, EnvNew(Global), UNCHANGED heap
    PROVE  /\ EnvsOK'
           /\ Len(envs') = Len(envs) + 1
           /\ \A d \in Envs : envs'[d] = envs[d]
           /\ DOMAIN envs'[Len(envs) + 1].vals = {}
<1> DEFINE L == Len(envs)
           new == NewEnv(L + 1, envs[Global].chain)
<1>1. envs' = Append(envs, new)
  BY DEF EnvNew, Global, NoEnv
<1>2. L \in Nat /\ L >= 1 /\ envs[Global].chain = <<Global>>
  BY EnvironmentFacts DEF EnvsOK, ChainOf
<1>3. <<L + 1>> \o <<Global>> = <<L + 1, Global>>
  <2> HIDE DEF L
  <2>1. <<L + 1>> \in Seq(Nat) /\ <<Global>> \in Seq(Nat) /\ <<L + 1, Global>> \in Seq(Nat)
    BY <1>2 DEF Global
  <2>2. /\ <<L + 1>> \o <<Global>> \in Seq(Nat)
        /\ Len(<<L + 1>> \o <<Global>>) = 2
        /\ \A i \in 1 .. 1 : (<<L + 1>> \o <<Global>>)[i] = <<L + 1>>[i]
        /\ \A i \in 1 .. 1 : (<<L + 1>> \o <<Global>>)[1 + i] = <<Global>>[i]
    BY <2>1, ConcatFacts
  <2>3. (<<L + 1>> \o <<Global>>)[1] = L + 1 /\ (<<L + 1>> \o <<Global>>)[2] = Global
    BY <2>2
  <2>4. Len(<<L + 1, Global>>) = 2 /\ <<L + 1, Global>>[1] = L + 1 /\ <<L + 1, Global>>[2] = Global
    OBVIOUS
  <2>5. \A i \in 1 .. 2 : (<<L + 1>> \o <<Global>>)[i] = <<L + 1, Global>>[i]
    BY <2>3, <2>4
  <2> QED
    BY <2>1, <2>2, <2>4, <2>5, SeqEqual
<1>4. new = [chain |-> <<L + 1, Global>>, vals |-> [s \in {} |-> s]]
  BY <1>2, <1>3 DEF NewEnv
<1>5. new.chain = ChainOf(L + 1) /\ DOMAIN new.vals = {}
  BY <1>2, <1>4 DEF ChainOf, Global
<1>6. new \in Environment
  <2>1. [s \in {} |-> s] \in [{} -> Nat]
    OBVIOUS
  <2>2. [s \in {} |-> s] \in Bindings(Nat)
    BY <2>1 DEF Bindings
  <2>3. <<L + 1, Global>> \in Seq(Nat)
    BY <1>2 DEF Global
  <2> HIDE DEF new
  <2> QED
    BY <1>4, <2>2, <2>3 DEF Environment
<1> HIDE DEF new, L
<1>7. envs \in Seq(Environment) /\ L = Len(envs)
  BY DEF EnvsOK, L
<1>8. /\ envs' \in Seq(Environment) /\ Len(envs') = L + 1
      /\ envs'[L + 1] = new
      /\ \A d \in 1 .. L : envs'[d] = envs[d]
  BY <1>1, <1>6, <1>7, AppendFacts
<1>9. Envs' = 1 .. L + 1 /\ Envs = 1 .. L
  BY <1>7, <1>8 DEF Envs
<1>10. ActivationsBelowGlobal'
  <2>1. \A e \in 1 .. L : envs'[e].chain = ChainOf(e)
    BY <1>8, <1>9 DEF EnvsOK, ActivationsBelowGlobal, ChainOf
  <2>2. \A e \in 1 .. L + 1 : envs'[e].chain = ChainOf(e)
    BY <1>2, <1>5, <1>8, <2>1
  <2> QED
    BY <1>9, <2>2 DEF ActivationsBelowGlobal, ChainOf
<1>11. \A e \in 1 .. L + 1 : \A s \in DOMAIN envs'[e].vals : envs'[e].vals[s] \in Ref
  <2>1. \A e \in 1 .. L : \A s \in DOMAIN envs'[e].vals : envs'[e].vals[s] \in Ref
    BY <1>8, <1>9 DEF EnvsOK
  <2> QED
    BY <1>2, <1>5, <1>8, <2>1
<1>12. Global \in Envs'
  BY <1>2, <1>9 DEF Global
<1>13. EnvsOK'
  BY <1>8, <1>9, <1>10, <1>11, <1>12 DEF EnvsOK, Ref
<1> QED
  BY <1>5, <1>7, <1>8, <1>9, <1>13

-----------------------------------------------------------------------------
(* Memory as a whole.                                                      *)

FreedOK == freed \subseteq DOMAIN heap /\ \A i \in freed : heap[i].type = "STRING"

MemOK == HeapOK /\ FreedOK /\ EnvsOK

(* Nodes are only added.                                                   *)
Grown ==
    /\ Len(heap') >= Len(heap)
    /\ \A r \in DOMAIN heap : r \in DOMAIN heap' /\ heap'[r] = heap[r]

(* A step that leaves memory alone.                                        *)
LEMMA MemStays ==
    ASSUME MemOK, UNCHANGED mem
    PROVE  MemOK' /\ Grown /\ Len(envs') = Len(envs)
<1>1. heap' = heap /\ freed' = freed /\ envs' = envs
  BY DEF mem
<1>2. HeapOK'
  BY <1>1 DEF MemOK, HeapOK
<1>3. FreedOK' /\ EnvsOK'
  BY <1>1 DEF MemOK, FreedOK, EnvsOK, ActivationsBelowGlobal, Envs, Ref
<1> QED
  BY <1>1, <1>2, <1>3, HeapFacts DEF MemOK, Grown

(* A step that only adds nodes.                                            *)
LEMMA MemGrows ==
    ASSUME MemOK, HeapOK', Grown, UNCHANGED <<freed, envs>>
    PROVE  MemOK' /\ Len(envs') = Len(envs)
<1>1. Len(heap) \in Nat /\ DOMAIN heap = 1 .. Len(heap)
  BY HeapFacts DEF MemOK
<1>2. Len(heap') \in Nat /\ DOMAIN heap' = 1 .. Len(heap')
  BY LenProperties DEF HeapOK, IsSequence
<1>3. Ref \subseteq Ref'
  BY <1>1, <1>2 DEF Grown, Ref
<1>4. FreedOK'
  BY DEF MemOK, FreedOK, Grown
<1>5. EnvsOK'
  BY <1>3 DEF MemOK, EnvsOK, ActivationsBelowGlobal, Envs
<1> QED
  BY <1>4, <1>5 DEF MemOK

(* One node more, of a type that is no lambda.                             *)
LEMMA NodeAdded ==
    ASSUME HeapOK, NEW n, NodeOK(n, Len(heap) + 1), n.type # "LAMBDA", heap' = Append(heap, n)
    PROVE  /\ HeapOK' /\ Grown /\ Len(heap') = Len(heap) + 1
           /\ heap'[Len(heap) + 1] = n
<1> DEFINE S == {heap[r] : r \in DOMAIN heap} \cup {n}
<1>1. heap \in Seq(S) /\ n \in S
  <2>1. heap \in Seq({heap[r] : r \in DOMAIN heap})
    BY DEF HeapOK, IsSequence
  <2> QED
    BY <2>1
<1>2. <<n>> \in Seq(S) /\ Len(<<n>>) = 1 /\ <<n>>[1] = n /\ IsSequence(<<n>>)
  BY <1>1 DEF IsSequence
<1> HIDE DEF S
<1>3. heap' = heap \o <<n>>
  BY <1>1, AppendIsConcat
<1>4. HeapOK' /\ Len(heap') = Len(heap) + 1 /\ \A r \in DOMAIN heap : r \in DOMAIN heap' /\ heap'[r] = heap[r]
  <2> DEFINE Q == {}
  <2>1. \A j \in 1 .. Len(<<n>>) : NodeOK(<<n>>[j], Len(heap) + j)
    BY <1>2
  <2>2. \A j \in 1 .. Len(<<n>>) : <<n>>[j].type # "LAMBDA"
    BY <1>2
  <2>3. Q \subseteq Len(heap) + 1 .. Len(heap) + Len(<<n>>) /\ \A r \in Q : FALSE
    OBVIOUS
  <2> HIDE DEF Q
  <2> QED
    BY <1>2, <1>3, <2>1, <2>2, <2>3, HeapGrows
<1>5. heap'[Len(heap) + 1] = n
  BY <1>1, AppendFacts
<1> QED
  BY <1>4, <1>5, HeapFacts DEF Grown

(* What was there stays what it was.                                       *)
LEMMA NodesStay ==
    ASSUME HeapOK, HeapOK', Grown, NEW r \in Ref
    PROVE  /\ r \in Ref'
           /\ Kind(r)' = Kind(r) /\ First(r)' = First(r) /\ Rest(r)' = Rest(r)
<1>1. Len(heap) \in Nat /\ DOMAIN heap = 1 .. Len(heap)
  BY HeapFacts
<1>2. Len(heap') \in Nat /\ DOMAIN heap' = 1 .. Len(heap')
  BY LenProperties DEF HeapOK, IsSequence
<1>3. r \in Ref'
  BY <1>1, <1>2 DEF Ref, Grown
<1>4. (r \in DOMAIN heap <=> r \in DOMAIN heap') /\ (r \in DOMAIN heap => heap'[r] = heap[r])
  BY <1>1, <1>2 DEF Ref, Grown
<1>5. Kind(r)' = Kind(r)
  BY <1>4 DEF Kind
<1>6. Kind(r) \in {"NIL", "LIST", "LAMBDA", "INTEGER"} => r \in DOMAIN heap
  BY DEF Kind
<1> QED
  BY <1>3, <1>4, <1>5, <1>6 DEF First, Rest

(* The walk over a list is the same as long as no node changes.            *)
LEMMA SameCells ==
    ASSUME UNCHANGED heap, NEW r
    PROVE  Cells(r)' = Cells(r) /\ Items(r)' = Items(r) /\ First(r)' = First(r) /\ Rest(r)' = Rest(r)
<1>1. Cells(r)' = Cells(r)
  BY DEF Cells, Rest, Kind
<1>2. First(r)' = First(r) /\ Rest(r)' = Rest(r)
  BY DEF First, Rest, Kind
<1> QED
  BY <1>1, <1>2 DEF Items, EndsInNil

(* A proper list ends in NIL, and NIL is nowhere else on it.               *)
LEMMA ProperListEnds ==
    ASSUME HeapOK, NEW P, ProperLists(heap, P), NEW r \in P
    PROVE  /\ r \in DOMAIN heap
           /\ \A i \in 1 .. Len(Cells(r)) : Cells(r)[i] = NIL <=> i = Len(Cells(r))
<1> DEFINE c == Cells(r)
           Bad == {i \in 1 .. Len(c) : c[i] \notin P}
<1>1. /\ r \in DOMAIN heap /\ P \subseteq DOMAIN heap
      /\ \A x \in P : x = NIL \/ (heap[x].type = "LIST" /\ heap[x].rest \in P)
  BY DEF ProperLists
<1>2. CellsOK(r)
  BY <1>1, CellsFacts
<1>3. /\ Len(c) \in Nat \ {0} /\ c[1] = r
      /\ \A i \in 1 .. Len(c) - 1 : c[i + 1] = Rest(c[i]) /\ Rest(c[i]) # NULL
      /\ Rest(c[Len(c)]) = NULL
  BY <1>2 DEF CellsOK
<1>4. \A x \in P : (x = NIL /\ Rest(x) = NULL) \/ (x # NIL /\ Rest(x) \in P /\ Rest(x) # NULL)
  <2> TAKE x \in P
  <2>1. NULL \notin P /\ x \in DOMAIN heap /\ Kind(NIL) = "NIL" /\ heap[NIL].rest = NULL
    BY <1>1, HeapFacts DEF NULL
  <2>2. CASE x = NIL
    BY <2>1, <2>2 DEF Rest
  <2>3. CASE x # NIL
    <3>1. Kind(x) = "LIST" /\ heap[x].rest \in P
      BY <1>1, <2>1, <2>3 DEF Kind
    <3> QED
      BY <2>1, <2>3, <3>1 DEF Rest
  <2> QED
    BY <2>2, <2>3
<1> HIDE DEF c
<1>5. \A i \in 1 .. Len(c) : c[i] \in P
  <2> SUFFICES ASSUME Bad # {} PROVE FALSE
    OBVIOUS
  <2>1. Bad \in SUBSET Nat
    BY <1>3
  <2>2. \E i \in Bad : \A m \in Bad : i <= m
    <3> HIDE DEF Bad
    <3> QED
      BY <2>1, LeastMember
  <2>3. PICK i \in Bad : \A m \in Bad : i <= m
    BY <2>2
  <2>4. i # 1
    BY <1>3
  <2>5. i - 1 \in 1 .. Len(c) - 1 /\ i - 1 \notin Bad
    <3>1. i \in 1 .. Len(c)
      OBVIOUS
    <3>2. i - 1 \in 1 .. Len(c) - 1
      BY <1>3, <2>4, <3>1
    <3>3. i - 1 \notin Bad
      <4> HIDE DEF Bad
      <4> QED
        BY <2>3, <3>1, <1>3
    <3> QED
      BY <3>2, <3>3
  <2>6. c[i - 1] \in P
    BY <1>3, <2>5
  <2>7. c[i] = Rest(c[i - 1]) /\ Rest(c[i - 1]) # NULL
    BY <1>3, <2>5
  <2>8. c[i] \in P
    BY <1>4, <2>6, <2>7
  <2> QED
    BY <2>8
<1>6. \A i \in 1 .. Len(c) : c[i] = NIL <=> i = Len(c)
  <2> TAKE i \in 1 .. Len(c)
  <2>1. CASE i = Len(c)
    BY <1>3, <1>4, <1>5, <2>1
  <2>2. CASE i # Len(c)
    <3>1. i \in 1 .. Len(c) - 1
      BY <1>3, <2>2
    <3> QED
      BY <1>3, <1>4, <1>5, <2>2, <3>1
  <2> QED
    BY <2>1, <2>2
<1> QED
  BY <1>1, <1>6 DEF c

(* The parameters of a lambda are such a list.                             *)
LEMMA ParamsEnd ==
    ASSUME HeapOK, NEW f, Kind(f) = "LAMBDA"
    PROVE  /\ f \in DOMAIN heap /\ First(f) \in DOMAIN heap
           /\ heap[f].env = Global
           /\ \A i \in 1 .. Len(Cells(First(f))) :
                 Cells(First(f))[i] = NIL <=> i = Len(Cells(First(f)))
<1>1. f \in DOMAIN heap /\ heap[f].type = "LAMBDA"
  BY DEF Kind
<1>2. heap[f].env = Global
  BY <1>1 DEF HeapOK, NodeOK
<1>3. First(f) = heap[f].params
  BY DEF First
<1>4. PICK P : ProperLists(heap, P) /\ heap[f].params \in P
  BY <1>1 DEF HeapOK
<1>5. PICK r \in P : r = First(f)
  BY <1>3, <1>4
<1> QED
  BY <1>1, <1>2, <1>4, <1>5, ProperListEnds
=============================================================================
