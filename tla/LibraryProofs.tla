---------------------------- MODULE LibraryProofs ----------------------------
(***************************************************************************)
(* What the stack, the list and the dictionary promise, for every size     *)
(* that they begin with and every growth, and that arithmetic is exact in  *)
(* a word of any size, for any number of arguments.                        *)
(***************************************************************************)
EXTENDS MC_Library, TLAPS, NaturalsInduction, SequenceTheorems, WellFoundedInduction,
        FiniteSetTheorems

(* A nonempty set of natural numbers has a least member.                   *)
LEMMA LeastIn ==
    ASSUME NEW H \in SUBSET Nat, H # {}
    PROVE  \E i \in H : \A j \in H : i <= j
<1>1. PICK i \in H : \A j \in H : ~ (<<j, i>> \in OpToRel(<, Nat))
  BY WFMin, NatLessThanWellFounded
<1>2. \A j \in H : ~ (j < i)
  BY <1>1 DEF OpToRel
<1> QED
  BY <1>2

(* A function on the first n numbers is a sequence of length n.            *)
LEMMA SequenceOfLength ==
    ASSUME NEW S, NEW n \in Nat, NEW s \in [1 .. n -> S]
    PROVE  s \in Seq(S) /\ Len(s) = n
<1>1. s \in Seq(S)
  BY SeqDef
<1>2. Len(s) \in Nat /\ 1 .. Len(s) = 1 .. n
  BY <1>1, LenProperties
<1>3. PICK m : m = Len(s)
  OBVIOUS
<1>4. m > n => m \in 1 .. m /\ m \notin 1 .. n
  BY <1>2, <1>3
<1>5. n > m => n \in 1 .. n /\ n \notin 1 .. m
  BY <1>2, <1>3
<1> QED
  BY <1>1, <1>2, <1>3, <1>4, <1>5

-----------------------------------------------------------------------------
(* The stack: where its frames begin.                                      *)

(* f tells for every cell where the frames begin that its content leads    *)
(* down to.                                                                *)
Leads(f, data, x) ==
    IF x = 0 THEN <<0>>
    ELSE IF data[x - 1] \in 0 .. x - 1 THEN Append(f[data[x - 1]], x)
    ELSE <<x>>

IsLead(f, data, n) == f = [x \in 0 .. n |-> Leads(f, data, x)]

(* What leads down from n - 1 can be extended to n.                        *)
LEMMA LeadExtends ==
    ASSUME NEW data, NEW n \in Nat \ {0}, NEW f, IsLead(f, data, n - 1)
    PROVE  \E g : IsLead(g, data, n)
<1> DEFINE last == Leads(f, data, n)
           g == [x \in 0 .. n |-> IF x = n THEN last ELSE f[x]]
<1>1. \A x \in 0 .. n - 1 : f[x] = Leads(f, data, x)
  BY DEF IsLead
<1> HIDE DEF last
<1>2. g[n] = last /\ \A x \in 0 .. n - 1 : g[x] = f[x]
  OBVIOUS
<1>3. g = [x \in 0 .. n |-> g[x]]
  OBVIOUS
<1> HIDE DEF g
<1>4. \A x \in 0 .. n : Leads(g, data, x) = Leads(f, data, x)
  <2> TAKE x \in 0 .. n
  <2>1. x # 0 /\ data[x - 1] \in 0 .. x - 1 => g[data[x - 1]] = f[data[x - 1]]
    BY <1>2
  <2> QED
    BY <2>1 DEF Leads
<1>5. \A x \in 0 .. n : g[x] = Leads(g, data, x)
  <2> TAKE x \in 0 .. n
  <2>1. CASE x = n
    BY <1>2, <1>4, <2>1 DEF last
  <2>2. CASE x # n
    <3>1. x \in 0 .. n - 1
      BY <2>2
    <3> QED
      BY <1>1, <1>2, <1>4, <3>1
  <2> QED
    BY <2>1, <2>2
<1>6. IsLead(g, data, n)
  BY <1>3, <1>5 DEF IsLead
<1> QED
  BY <1>6

(* So it exists for any number of cells.                                   *)
LEMMA LeadExists ==
    ASSUME NEW data, NEW m \in Nat
    PROVE  \E f : IsLead(f, data, m)
<1> DEFINE Bad == {n \in Nat : ~ \E f : IsLead(f, data, n)}
<1>1. SUFFICES ASSUME Bad # {} PROVE FALSE
  OBVIOUS
<1>2. PICK n \in Bad : \A k \in Bad : n <= k
  <2>1. Bad \in SUBSET Nat
    OBVIOUS
  <2> HIDE DEF Bad
  <2> QED
    BY <1>1, <2>1, LeastIn
<1>3. n \in Nat /\ ~ \E f : IsLead(f, data, n)
  OBVIOUS
<1>4. n # 0
  <2> DEFINE g == [x \in 0 .. 0 |-> <<0>>]
  <2>1. IsLead(g, data, 0)
    BY DEF IsLead, Leads
  <2> QED
    BY <1>3, <2>1
<1>5. n - 1 \notin Bad
  <2> HIDE DEF Bad
  <2> QED
    BY <1>2, <1>3, <1>4
<1>6. PICK f : IsLead(f, data, n - 1)
  BY <1>3, <1>4, <1>5
<1> QED
  BY <1>3, <1>4, <1>6, LeadExtends

BeginsOf(s) == (CHOOSE f : IsLead(f, s.data, s.sp))[s.fp]

(* B is where the frames begin: at 0, and above it behind cells that hold  *)
(* where the frame below begins.                                           *)
FramesAt(B, s) ==
    /\ B \in Seq(Nat) /\ Len(B) >= 1
    /\ B[1] = 0 /\ B[Len(B)] = s.fp
    /\ \A j \in 1 .. Len(B) : B[j] \in 0 .. s.fp /\ \A i \in 1 .. j : B[i] <= B[j]
    /\ \A j \in 1 .. Len(B) - 1 : B[j] < B[j + 1] /\ s.data[B[j + 1] - 1] = B[j]

(* The recursion of Begins, solved.                                        *)
LEMMA BeginsAre ==
    ASSUME NEW s, s.sp \in Nat, s.fp \in 0 .. s.sp, NEW B, FramesAt(B, s)
    PROVE  BeginsOf(s) = B
<1> DEFINE f == CHOOSE g : IsLead(g, s.data, s.sp)
<1>1. IsLead(f, s.data, s.sp)
  BY LeadExists
<1> HIDE DEF f
<1>2. \A x \in 0 .. s.sp : f[x] = Leads(f, s.data, x)
  BY <1>1 DEF IsLead
<1> DEFINE Bad == {j \in 1 .. Len(B) : f[B[j]] # SubSeq(B, 1, j)}
<1>3. Len(B) \in Nat /\ Len(B) >= 1
  BY LenProperties DEF FramesAt
<1>4. Bad = {}
  <2>1. SUFFICES ASSUME Bad # {} PROVE FALSE
    OBVIOUS
  <2>2. PICK j \in Bad : \A k \in Bad : j <= k
    <3>1. Bad \in SUBSET Nat
      OBVIOUS
    <3> HIDE DEF Bad
    <3> QED
      BY <2>1, <3>1, LeastIn
  <2>3. j \in 1 .. Len(B) /\ f[B[j]] # SubSeq(B, 1, j)
    OBVIOUS
  <2>4. j # 1
    <3>1. SUFFICES ASSUME j = 1 PROVE FALSE
      OBVIOUS
    <3>2. B[1] = 0 /\ f[0] = <<0>>
      BY <1>2 DEF Leads, FramesAt
    <3>3. SubSeq(B, 1, 1) = <<0>>
      <4>1. SubSeq(B, 1, 1) = SubSeq(B, 1, 0) \o << B[1] >>
        BY <1>3, SubSeqRecursiveSecond DEF FramesAt
      <4>2. SubSeq(B, 1, 0) = <<>>
        BY SubSeqEmpty
      <4>3. <<>> \o << 0 >> = << 0 >>
        BY ConcatEmptySeq
      <4> QED
        BY <3>2, <4>1, <4>2, <4>3
    <3> QED
      BY <2>3, <3>1, <3>2, <3>3
  <2>5. j - 1 \in 1 .. Len(B) - 1 /\ j - 1 \in 1 .. Len(B) /\ j - 1 + 1 = j
    BY <1>3, <2>3, <2>4
  <2>6. f[B[j - 1]] = SubSeq(B, 1, j - 1)
    <3>1. j - 1 \notin Bad
      <4> HIDE DEF Bad
      <4> QED
        BY <2>2, <2>3
    <3> QED
      BY <2>5, <3>1
  <2>7. B[j - 1] < B[j] /\ s.data[B[j] - 1] = B[j - 1] /\ B[j] \in 0 .. s.fp /\ B[j - 1] \in Nat
    BY <2>3, <2>5 DEF FramesAt
  <2>8. f[B[j]] = Append(SubSeq(B, 1, j - 1), B[j])
    <3>1. B[j] \in 0 .. s.sp /\ B[j] # 0 /\ B[j - 1] \in 0 .. B[j] - 1
      BY <2>7
    <3> QED
      BY <1>2, <2>6, <2>7, <3>1 DEF Leads
  <2>9. SubSeq(B, 1, j) = Append(SubSeq(B, 1, j - 1), B[j])
    <3>1. SubSeq(B, 1, j) = SubSeq(B, 1, j - 1) \o << B[j] >>
      <4>1. B \in Seq(Nat) /\ 1 \in 1 .. Len(B) /\ j \in 1 .. Len(B)
        BY <1>3, <2>3 DEF FramesAt
      <4> QED
        BY <4>1, SubSeqRecursiveSecond
    <3>2. SubSeq(B, 1, j - 1) \in Seq(Nat)
      BY <1>3, <2>3, SubSeqProperties, ElementOfSeq DEF FramesAt
    <3>3. B[j] \in Nat
      BY <2>7
    <3> QED
      BY <3>1, <3>2, <3>3, AppendIsConcat
  <2> QED
    BY <2>3, <2>8, <2>9
<1>5. f[B[Len(B)]] = SubSeq(B, 1, Len(B))
  BY <1>3, <1>4
<1>6. SubSeq(B, 1, Len(B)) = B
  BY SubSeqFull DEF FramesAt
<1> QED
  BY <1>5, <1>6 DEF FramesAt, BeginsOf, f

(* Begins is that.                                                         *)
LEMMA BeginsIsBeginsOf == Begins = BeginsOf(stack)
<1> DEFINE Down(f, x) == IF x = 0 THEN <<0>>
                         ELSE IF stack.data[x - 1] \in 0 .. x - 1
                              THEN Append(f[stack.data[x - 1]], x)
                         ELSE <<x>>
<1>1. \A f : (f = [x \in 0 .. stack.sp |-> Down(f, x)]) <=> IsLead(f, stack.data, stack.sp)
  BY DEF IsLead, Leads
<1>2. (CHOOSE f : f = [x \in 0 .. stack.sp |-> Down(f, x)])
        = (CHOOSE f : IsLead(f, stack.data, stack.sp))
  <2> HIDE DEF Down
  <2> QED
    BY <1>1
<1> QED
  BY <1>2 DEF Begins, BeginsOf

-----------------------------------------------------------------------------
(* The stack: its cells.                                                   *)

StackShape(s) ==
    /\ s = [data |-> s.data, data_size |-> s.data_size, sp |-> s.sp, fp |-> s.fp]
    /\ s.data_size \in Nat /\ s.sp \in 0 .. s.data_size /\ s.fp \in 0 .. s.sp
    /\ s.data = [i \in DOMAIN s.data |-> s.data[i]]

HasCells(s) == DOMAIN s.data = 0 .. s.data_size - 1

(* stack_push stores above what is there, and moves nothing.               *)
LEMMA PushEffect ==
    ASSUME NEW s, StackShape(s), HasCells(s), NEW v
    PROVE  /\ StackShape(Pushed(s, v)) /\ HasCells(Pushed(s, v))
           /\ Pushed(s, v).data_size > 0
           /\ Pushed(s, v).sp = s.sp + 1 /\ Pushed(s, v).fp = s.fp
           /\ Pushed(s, v).data[s.sp] = v
           /\ \A i \in 0 .. s.sp - 1 : Pushed(s, v).data[i] = s.data[i]
<1> DEFINE room == IF s.sp >= s.data_size THEN Realloc(s, s.data_size + STACK_GROWTH) ELSE s
<1>1. STACK_GROWTH \in Nat /\ STACK_GROWTH > 0
  BY StackAssumption
<1>2. s.data_size \in Nat /\ s.sp \in Nat /\ s.sp <= s.data_size /\ s.fp \in 0 .. s.sp
  BY DEF StackShape
<1>3. /\ room = [data |-> room.data, data_size |-> room.data_size, sp |-> room.sp, fp |-> room.fp]
      /\ room.sp = s.sp /\ room.fp = s.fp
      /\ room.data_size \in Nat /\ s.sp < room.data_size
      /\ room.data = [i \in 0 .. room.data_size - 1 |-> room.data[i]]
      /\ \A i \in 0 .. s.sp - 1 : room.data[i] = s.data[i]
  <2>1. CASE s.sp >= s.data_size
    <3> DEFINE c == s.data_size + STACK_GROWTH
               d == [i \in 0 .. c - 1 |-> IF i \in DOMAIN s.data THEN s.data[i] ELSE Raw]
    <3>1. c \in Nat /\ s.sp < c
      BY <1>1, <1>2
    <3>2. room = [data |-> d, data_size |-> c, sp |-> s.sp, fp |-> s.fp]
      <4>1. room = [s EXCEPT !.data_size = c, !.data = d]
        BY <2>1 DEF Realloc
      <4> HIDE DEF c, d
      <4> QED
        BY <4>1 DEF StackShape
    <3>3. \A i \in 0 .. s.sp - 1 : d[i] = s.data[i]
      <4>1. \A i \in 0 .. s.sp - 1 : i \in 0 .. c - 1 /\ i \in DOMAIN s.data
        <5> HIDE DEF c
        <5> QED
          BY <1>2, <3>1 DEF HasCells
      <4> HIDE DEF c
      <4> QED
        BY <4>1
    <3>4. d = [i \in 0 .. c - 1 |-> d[i]]
      OBVIOUS
    <3> HIDE DEF c, d, room
    <3> QED
      BY <3>1, <3>2, <3>3, <3>4
  <2>2. CASE ~ (s.sp >= s.data_size)
    BY <1>2, <2>2 DEF StackShape, HasCells
  <2> QED
    BY <2>1, <2>2
<1>4. Pushed(s, v) = [room EXCEPT !.data[s.sp] = v, !.sp = s.sp + 1]
  BY DEF Pushed
<1> HIDE DEF room
<1> DEFINE e == [room.data EXCEPT ![s.sp] = v]
<1>5. Pushed(s, v) = [data |-> e, data_size |-> room.data_size, sp |-> s.sp + 1, fp |-> s.fp]
  BY <1>3, <1>4
<1>6. /\ e[s.sp] = v
      /\ \A i \in 0 .. s.sp - 1 : e[i] = s.data[i]
      /\ e = [i \in 0 .. room.data_size - 1 |-> e[i]]
  <2>1. DOMAIN room.data = 0 .. room.data_size - 1
    BY <1>3
  <2>2. s.sp \in DOMAIN room.data
    BY <1>2, <1>3, <2>1
  <2>3. \A i \in 0 .. s.sp - 1 : i \in DOMAIN room.data /\ i # s.sp
    BY <1>2, <1>3, <2>1
  <2> QED
    BY <1>3, <2>1, <2>2, <2>3
<1> HIDE DEF e
<1>7. PICK q : q = Pushed(s, v)
  OBVIOUS
<1>8. /\ q = [data |-> q.data, data_size |-> q.data_size, sp |-> q.sp, fp |-> q.fp]
      /\ q.data = e /\ q.data_size = room.data_size /\ q.sp = s.sp + 1 /\ q.fp = s.fp
  BY <1>5, <1>7
<1>9. /\ room.data_size \in Nat /\ room.data_size > 0
      /\ s.sp + 1 \in 0 .. room.data_size /\ s.fp \in 0 .. s.sp + 1
  BY <1>2, <1>3
<1>10. DOMAIN e = 0 .. room.data_size - 1 /\ e = [i \in DOMAIN e |-> e[i]]
  BY <1>6
<1>11. StackShape(q) /\ HasCells(q)
  BY <1>8, <1>9, <1>10 DEF StackShape, HasCells
<1>12. /\ q.data_size > 0 /\ q.sp = s.sp + 1 /\ q.fp = s.fp /\ q.data[s.sp] = v
       /\ \A i \in 0 .. s.sp - 1 : q.data[i] = s.data[i]
  BY <1>6, <1>8, <1>9
<1> QED
  BY <1>7, <1>11, <1>12

(* A frame stays where it is as long as the cells below the current one do. *)
LEMMA FramesKept ==
    ASSUME NEW s, StackShape(s), NEW t, t.fp = s.fp, NEW B, FramesAt(B, s),
           \A i \in 0 .. s.fp - 1 : t.data[i] = s.data[i]
    PROVE  FramesAt(B, t)
<1>1. Len(B) \in Nat /\ s.fp \in Nat
  BY LenProperties DEF FramesAt, StackShape
<1>2. \A j \in 1 .. Len(B) - 1 : B[j + 1] - 1 \in 0 .. s.fp - 1
  <2> TAKE j \in 1 .. Len(B) - 1
  <2>1. j \in 1 .. Len(B) /\ j + 1 \in 1 .. Len(B)
    BY <1>1
  <2>2. B[j] \in 0 .. s.fp /\ B[j + 1] \in 0 .. s.fp
    BY <2>1 DEF FramesAt
  <2>3. B[j] < B[j + 1]
    BY DEF FramesAt
  <2> QED
    BY <1>1, <2>2, <2>3
<1>3. \A j \in 1 .. Len(B) - 1 : t.data[B[j + 1] - 1] = s.data[B[j + 1] - 1]
  BY <1>2
<1> QED
  BY <1>3 DEF FramesAt

Word(s) == {s.data[i] : i \in Int}

CellsOf(s, from, to) == [i \in 1 .. to - from |-> s.data[from + i - 1]]

ViewOf(B, s) ==
    [j \in 1 .. Len(B) |-> CellsOf(s, B[j], IF j = Len(B) THEN s.sp ELSE B[j + 1] - 1)]

(* A piece of the stack is a sequence.                                     *)
LEMMA CellsFact ==
    ASSUME NEW s, NEW from \in Nat, NEW to \in Nat, from <= to
    PROVE  /\ CellsOf(s, from, to) \in Seq(Word(s))
           /\ Len(CellsOf(s, from, to)) = to - from
           /\ \A i \in 1 .. to - from : CellsOf(s, from, to)[i] = s.data[from + i - 1]
<1> DEFINE n == to - from
           c == CellsOf(s, from, to)
<1>1. n \in Nat
  OBVIOUS
<1>2. \A i \in 1 .. n : s.data[from + i - 1] \in Word(s)
  <2> TAKE i \in 1 .. n
  <2>1. from + i - 1 \in Int
    OBVIOUS
  <2> QED
    BY <2>1 DEF Word
<1>3. c = [i \in 1 .. n |-> s.data[from + i - 1]]
  BY DEF CellsOf
<1> HIDE DEF n, c
<1>4. c \in [1 .. n -> Word(s)]
  BY <1>2, <1>3
<1>5. c \in Seq(Word(s)) /\ Len(c) = n
  BY <1>1, <1>4, SequenceOfLength
<1> QED
  BY <1>3, <1>5 DEF n, c

(* What is in the frames is a sequence of sequences; the last of them      *)
(* reaches from fp to sp.                                                  *)
LEMMA ViewFacts ==
    ASSUME NEW s, StackShape(s), NEW B, FramesAt(B, s)
    PROVE  /\ ViewOf(B, s) \in Seq(Seq(Word(s)))
           /\ Len(ViewOf(B, s)) = Len(B) /\ Len(B) \in Nat \ {0}
           /\ ViewOf(B, s)[Len(B)] = CellsOf(s, s.fp, s.sp)
           /\ \A j \in 1 .. Len(B) - 1 : ViewOf(B, s)[j] = CellsOf(s, B[j], B[j + 1] - 1)
<1> DEFINE V == ViewOf(B, s)
           n == Len(B)
<1>1. n \in Nat \ {0} /\ s.fp \in Nat /\ s.sp \in Nat /\ s.fp <= s.sp
  BY LenProperties DEF FramesAt, StackShape
<1>2. V = [j \in 1 .. n |-> CellsOf(s, B[j], IF j = n THEN s.sp ELSE B[j + 1] - 1)]
  BY DEF ViewOf
<1>3. n \in 1 .. n /\ B[n] = s.fp
  BY <1>1 DEF FramesAt
<1>4. \A j \in 1 .. n : B[j] \in Nat /\ (j # n => B[j + 1] \in Nat /\ B[j] <= B[j + 1] - 1)
  <2> TAKE j \in 1 .. n
  <2>1. B[j] \in 0 .. s.fp
    BY DEF FramesAt
  <2>2. ASSUME j # n PROVE B[j + 1] \in 0 .. s.fp /\ B[j] < B[j + 1]
    <3>1. j + 1 \in 1 .. n /\ j \in 1 .. n - 1
      BY <1>1, <2>2
    <3> QED
      BY <3>1 DEF FramesAt
  <2> QED
    BY <1>1, <2>1, <2>2
<1> HIDE DEF V, n
<1>5. V[n] = CellsOf(s, s.fp, s.sp)
  BY <1>2, <1>3
<1>6. \A j \in 1 .. n - 1 : V[j] = CellsOf(s, B[j], B[j + 1] - 1)
  <2> TAKE j \in 1 .. n - 1
  <2>1. j \in 1 .. n /\ j # n
    BY <1>1
  <2> QED
    BY <1>2, <2>1
<1>7. \A j \in 1 .. n : V[j] \in Seq(Word(s))
  <2> TAKE j \in 1 .. n
  <2>1. CASE j = n
    <3>1. CellsOf(s, s.fp, s.sp) \in Seq(Word(s))
      BY <1>1, CellsFact
    <3> QED
      BY <1>5, <2>1, <3>1
  <2>2. CASE j # n
    <3>1. B[j] \in Nat /\ B[j + 1] - 1 \in Nat /\ B[j] <= B[j + 1] - 1
      BY <1>4, <2>2
    <3>2. V[j] = CellsOf(s, B[j], B[j + 1] - 1)
      BY <1>2, <2>2
    <3>3. PICK to : to = B[j + 1] - 1
      OBVIOUS
    <3>4. CellsOf(s, B[j], to) \in Seq(Word(s))
      BY <3>1, <3>3, CellsFact
    <3> QED
      BY <3>2, <3>3, <3>4
  <2> QED
    BY <2>1, <2>2
<1>8. V \in [1 .. n -> Seq(Word(s))]
  BY <1>2, <1>7
<1>9. V \in Seq(Seq(Word(s))) /\ Len(V) = n
  BY <1>1, <1>8, SequenceOfLength
<1> QED
  BY <1>1, <1>5, <1>6, <1>9 DEF V, n

(* Where two stacks agree, so do their pieces.                             *)
LEMMA CellsAgree ==
    ASSUME NEW s, NEW t, NEW from \in Nat, NEW to \in Nat,
           \A i \in from .. to - 1 : t.data[i] = s.data[i]
    PROVE  CellsOf(t, from, to) = CellsOf(s, from, to)
<1>1. \A i \in 1 .. to - from : from + i - 1 \in from .. to - 1
  OBVIOUS
<1>2. \A i \in 1 .. to - from : t.data[from + i - 1] = s.data[from + i - 1]
  BY <1>1
<1> QED
  BY <1>2 DEF CellsOf

(* What lies below fp decides on all frames but the current one.           *)
LEMMA LowerFramesAgree ==
    ASSUME NEW s, StackShape(s), NEW B, FramesAt(B, s), NEW t, StackShape(t), FramesAt(B, t),
           \A i \in 0 .. s.fp - 1 : t.data[i] = s.data[i]
    PROVE  \A j \in 1 .. Len(B) - 1 : ViewOf(B, t)[j] = ViewOf(B, s)[j]
<1> TAKE j \in 1 .. Len(B) - 1
<1>1. Len(B) \in Nat /\ s.fp \in Nat
  BY LenProperties DEF FramesAt, StackShape
<1>2. j \in 1 .. Len(B) /\ j + 1 \in 1 .. Len(B)
  BY <1>1
<1>3. B[j] \in 0 .. s.fp /\ B[j + 1] \in 0 .. s.fp /\ B[j] < B[j + 1]
  BY <1>2 DEF FramesAt
<1>4. PICK to : to = B[j + 1] - 1
  OBVIOUS
<1>5. to \in Nat /\ B[j] \in Nat /\ \A i \in B[j] .. to - 1 : i \in 0 .. s.fp - 1
  BY <1>1, <1>3, <1>4
<1>6. CellsOf(t, B[j], to) = CellsOf(s, B[j], to)
  BY <1>5, CellsAgree
<1>7. ViewOf(B, s)[j] = CellsOf(s, B[j], B[j + 1] - 1)
  <2>1. \A i \in 1 .. Len(B) - 1 : ViewOf(B, s)[i] = CellsOf(s, B[i], B[i + 1] - 1)
    BY ViewFacts
  <2> QED
    BY <2>1
<1>8. ViewOf(B, t)[j] = CellsOf(t, B[j], B[j + 1] - 1)
  <2>1. \A i \in 1 .. Len(B) - 1 : ViewOf(B, t)[i] = CellsOf(t, B[i], B[i + 1] - 1)
    BY ViewFacts
  <2> QED
    BY <2>1
<1> QED
  BY <1>4, <1>6, <1>7, <1>8

(* stack_push puts the word at the end of the current frame.               *)
LEMMA PushView ==
    ASSUME NEW s, StackShape(s), HasCells(s), NEW B, FramesAt(B, s), NEW v
    PROVE  LET p == Pushed(s, v)
           IN  /\ FramesAt(B, p)
               /\ ViewOf(B, p) = [ViewOf(B, s) EXCEPT ![Len(ViewOf(B, s))] = Append(@, v)]
<1>1. PICK p : p = Pushed(s, v)
  OBVIOUS
<1>2. /\ StackShape(p) /\ p.sp = s.sp + 1 /\ p.fp = s.fp /\ p.data[s.sp] = v
      /\ \A i \in 0 .. s.sp - 1 : p.data[i] = s.data[i]
  BY <1>1, PushEffect
<1>3. s.fp \in Nat /\ s.sp \in Nat /\ s.fp <= s.sp
  BY DEF StackShape
<1>4. \A i \in 0 .. s.fp - 1 : p.data[i] = s.data[i]
  BY <1>2, <1>3
<1>5. FramesAt(B, p)
  BY <1>2, <1>4, FramesKept
<1> DEFINE V == ViewOf(B, s)
           W == ViewOf(B, p)
           n == Len(B)
<1>6. /\ V \in Seq(Seq(Word(s))) /\ Len(V) = n /\ n \in Nat \ {0}
      /\ V[n] = CellsOf(s, s.fp, s.sp)
  BY ViewFacts
<1>7. W \in Seq(Seq(Word(p))) /\ Len(W) = n /\ W[n] = CellsOf(p, s.fp, s.sp + 1)
  BY <1>2, <1>5, ViewFacts
<1>8. \A j \in 1 .. n - 1 : W[j] = V[j]
  BY <1>2, <1>4, <1>5, LowerFramesAgree
<1>9. CellsOf(p, s.fp, s.sp + 1) = Append(CellsOf(s, s.fp, s.sp), v)
  <2> DEFINE c == CellsOf(s, s.fp, s.sp)
             d == CellsOf(p, s.fp, s.sp + 1)
             m == s.sp - s.fp
             X == Word(s) \cup Word(p) \cup {v}
  <2>1. m \in Nat
    BY <1>3
  <2>2. /\ c \in Seq(Word(s)) /\ Len(c) = m
        /\ \A i \in 1 .. m : c[i] = s.data[s.fp + i - 1]
    BY <1>3, CellsFact
  <2>3. /\ d \in Seq(Word(p)) /\ Len(d) = m + 1
        /\ \A i \in 1 .. m + 1 : d[i] = p.data[s.fp + i - 1]
    <3>1. PICK to \in Nat : to = s.sp + 1
      BY <1>3
    <3>2. s.fp \in Nat /\ s.fp <= to
      BY <1>3, <3>1
    <3>3. /\ CellsOf(p, s.fp, to) \in Seq(Word(p)) /\ Len(CellsOf(p, s.fp, to)) = to - s.fp
          /\ \A i \in 1 .. to - s.fp : CellsOf(p, s.fp, to)[i] = p.data[s.fp + i - 1]
      BY <3>2, CellsFact
    <3>4. to - s.fp = m + 1
      BY <1>3, <3>1
    <3> QED
      BY <3>1, <3>3, <3>4
  <2> HIDE DEF c, d
  <2>4. c \in Seq(X) /\ d \in Seq(X) /\ v \in X
    <3>1. Word(s) \subseteq X /\ Word(p) \subseteq X /\ v \in X
      OBVIOUS
    <3> HIDE DEF X
    <3> QED
      BY <2>2, <2>3, <3>1, SeqMonotonic
  <2> HIDE DEF X, m
  <2>5. Append(c, v) \in Seq(X) /\ Len(Append(c, v)) = m + 1
        /\ Append(c, v)[m + 1] = v /\ \A i \in 1 .. m : Append(c, v)[i] = c[i]
    BY <2>1, <2>2, <2>4, AppendProperties
  <2>6. \A i \in 1 .. m + 1 : d[i] = Append(c, v)[i]
    <3> TAKE i \in 1 .. m + 1
    <3>1. CASE i = m + 1
      <4>1. s.fp + i - 1 = s.sp
        BY <1>3, <3>1 DEF m
      <4> QED
        BY <1>2, <2>3, <2>5, <3>1, <4>1
    <3>2. CASE i # m + 1
      <4>1. i \in 1 .. m
        BY <2>1, <3>2
      <4>2. s.fp + i - 1 \in 0 .. s.sp - 1
        BY <1>3, <4>1 DEF m
      <4> QED
        BY <1>2, <2>2, <2>3, <2>5, <4>1, <4>2
    <3> QED
      BY <3>1, <3>2
  <2>7. d = Append(c, v)
    BY <2>3, <2>4, <2>5, <2>6, SeqEqual
  <2> QED
    BY <2>7 DEF c, d
<1> HIDE DEF V, W, n
<1>10. W = [V EXCEPT ![Len(V)] = Append(@, v)]
  <2>1. DOMAIN W = 1 .. n /\ DOMAIN V = 1 .. n /\ W = [j \in 1 .. n |-> W[j]]
    BY <1>6, <1>7, LenProperties
  <2>2. \A j \in 1 .. n : W[j] = IF j = n THEN Append(V[n], v) ELSE V[j]
    BY <1>6, <1>7, <1>8, <1>9
  <2> QED
    BY <1>6, <2>1, <2>2
<1> QED
  BY <1>1, <1>5, <1>10 DEF V, W

(* stack_pop takes the last word of the current frame, which is the one    *)
(* that stack_peek sees.                                                   *)
LEMMA PopView ==
    ASSUME NEW s, StackShape(s), HasCells(s), NEW B, FramesAt(B, s), ~ Empty(s)
    PROVE  LET t == Popped(s)
               V == ViewOf(B, s)
               c == V[Len(V)]
           IN  /\ StackShape(t) /\ HasCells(t) /\ t.data_size = s.data_size
               /\ FramesAt(B, t)
               /\ ViewOf(B, t) = [V EXCEPT ![Len(V)] = SubSeq(@, 1, Len(@) - 1)]
               /\ c # <<>> /\ Peeked(s) = c[Len(c)]
<1>1. PICK t : t = Popped(s)
  OBVIOUS
<1>2. s.fp \in Nat /\ s.sp \in Nat /\ s.fp < s.sp /\ s.sp <= s.data_size /\ s.data_size \in Nat
  BY DEF StackShape, Empty
<1>3. t = [data |-> s.data, data_size |-> s.data_size, sp |-> s.sp - 1, fp |-> s.fp]
  BY <1>1 DEF Popped, StackShape
<1>4. StackShape(t) /\ HasCells(t) /\ t.data_size = s.data_size /\ t.fp = s.fp /\ t.sp = s.sp - 1
      /\ \A i : t.data[i] = s.data[i]
  BY <1>2, <1>3 DEF StackShape, HasCells
<1>5. FramesAt(B, t)
  BY <1>4, FramesKept
<1> DEFINE V == ViewOf(B, s)
           W == ViewOf(B, t)
           n == Len(B)
           c == CellsOf(s, s.fp, s.sp)
           d == CellsOf(t, s.fp, s.sp - 1)
           m == s.sp - s.fp - 1
<1>6. V \in Seq(Seq(Word(s))) /\ Len(V) = n /\ n \in Nat \ {0} /\ V[n] = c
  BY ViewFacts
<1>7. W \in Seq(Seq(Word(t))) /\ Len(W) = n /\ W[n] = d
  BY <1>4, <1>5, ViewFacts
<1>8. \A j \in 1 .. n - 1 : W[j] = V[j]
  BY <1>4, <1>5, LowerFramesAgree
<1>9. m \in Nat
  BY <1>2
<1>10. /\ c \in Seq(Word(s)) /\ Len(c) = m + 1
       /\ \A i \in 1 .. m + 1 : c[i] = s.data[s.fp + i - 1]
  <2>1. /\ c \in Seq(Word(s)) /\ Len(c) = s.sp - s.fp
        /\ \A i \in 1 .. s.sp - s.fp : c[i] = s.data[s.fp + i - 1]
    <3>1. s.fp \in Nat /\ s.sp \in Nat /\ s.fp <= s.sp
      BY <1>2
    <3> QED
      BY <3>1, CellsFact
  <2>2. s.sp - s.fp = m + 1
    BY <1>2
  <2> QED
    BY <2>1, <2>2
<1>11. d = CellsOf(s, s.fp, s.sp - 1)
  BY <1>4 DEF CellsOf
<1>12. /\ d \in Seq(Word(s)) /\ Len(d) = m
       /\ \A i \in 1 .. m : d[i] = s.data[s.fp + i - 1]
  <2>1. PICK to \in Nat : to = s.sp - 1
    BY <1>2
  <2>2. s.fp \in Nat /\ s.fp <= to /\ to - s.fp = m
    BY <1>2, <2>1
  <2>3. /\ CellsOf(s, s.fp, to) \in Seq(Word(s)) /\ Len(CellsOf(s, s.fp, to)) = to - s.fp
        /\ \A i \in 1 .. to - s.fp : CellsOf(s, s.fp, to)[i] = s.data[s.fp + i - 1]
    <3>1. PICK from \in Nat : from = s.fp
      BY <2>2
    <3>2. from <= to
      BY <2>2, <3>1
    <3>3. /\ CellsOf(s, from, to) \in Seq(Word(s)) /\ Len(CellsOf(s, from, to)) = to - from
          /\ \A i \in 1 .. to - from : CellsOf(s, from, to)[i] = s.data[from + i - 1]
      BY <3>2, CellsFact
    <3> QED
      BY <3>1, <3>3
  <2> QED
    BY <1>11, <2>1, <2>2, <2>3
<1> HIDE DEF c, d
<1>13. d = SubSeq(c, 1, Len(c) - 1)
  <2> HIDE DEF m
  <2>1. Len(c) - 1 = m /\ \A i \in 1 .. m : i \in 1 .. m + 1 /\ c[i] \in Word(s)
    <3>1. \A i \in 1 .. m : i \in 1 .. m + 1
      BY <1>9
    <3> QED
      BY <1>9, <1>10, <3>1, ElementOfSeq
  <2>2. /\ SubSeq(c, 1, m) \in Seq(Word(s))
        /\ Len(SubSeq(c, 1, m)) = IF 1 <= m THEN m - 1 + 1 ELSE 0
        /\ \A i \in 1 .. m - 1 + 1 : SubSeq(c, 1, m)[i] = c[1 + i - 1]
    BY <1>9, <2>1, SubSeqProperties
  <2>3. Len(SubSeq(c, 1, m)) = m /\ \A i \in 1 .. m : SubSeq(c, 1, m)[i] = c[i]
    BY <1>9, <2>2
  <2>4. \A i \in 1 .. m : SubSeq(c, 1, m)[i] = d[i]
    BY <1>10, <1>12, <2>1, <2>3
  <2>5. SubSeq(c, 1, m) = d
    BY <1>12, <2>2, <2>3, <2>4, SeqEqual
  <2> QED
    BY <2>1, <2>5
<1>14. c # <<>> /\ Peeked(s) = c[Len(c)]
  <2>1. c # <<>>
    BY <1>9, <1>10, EmptySeq
  <2>2. s.fp + (m + 1) - 1 = s.sp - 1 /\ m + 1 \in 1 .. m + 1
    BY <1>2, <1>9
  <2> HIDE DEF m
  <2>3. c[m + 1] = s.data[s.fp + (m + 1) - 1]
    BY <1>10, <2>2
  <2> QED
    BY <1>10, <2>1, <2>2, <2>3 DEF Peeked
<1> HIDE DEF V, W, n, m
<1>15. W = [V EXCEPT ![Len(V)] = SubSeq(@, 1, Len(@) - 1)]
  <2>1. DOMAIN W = 1 .. n /\ DOMAIN V = 1 .. n /\ W = [j \in 1 .. n |-> W[j]]
    BY <1>6, <1>7, LenProperties
  <2>2. \A j \in 1 .. n : W[j] = IF j = n THEN SubSeq(V[n], 1, Len(V[n]) - 1) ELSE V[j]
    BY <1>6, <1>7, <1>8, <1>13
  <2> QED
    BY <1>6, <2>1, <2>2
<1> QED
  BY <1>1, <1>4, <1>5, <1>6, <1>14, <1>15 DEF V, W

(* stack_enter_frame begins a frame, behind a cell that leads to the one   *)
(* below.                                                                  *)
LEMMA EnterView ==
    ASSUME NEW s, StackShape(s), HasCells(s), NEW B, FramesAt(B, s)
    PROVE  LET t == Entered(s)
           IN  /\ StackShape(t) /\ HasCells(t) /\ t.data_size > 0
               /\ FramesAt(Append(B, t.fp), t)
               /\ ViewOf(Append(B, t.fp), t) = Append(ViewOf(B, s), <<>>)
<1>1. PICK p : p = Pushed(s, s.fp)
  OBVIOUS
<1>2. /\ StackShape(p) /\ HasCells(p) /\ p.data_size > 0
      /\ p.sp = s.sp + 1 /\ p.fp = s.fp /\ p.data[s.sp] = s.fp
      /\ \A i \in 0 .. s.sp - 1 : p.data[i] = s.data[i]
  BY <1>1, PushEffect
<1>3. PICK t : t = [p EXCEPT !.fp = p.sp]
  OBVIOUS
<1>4. t = [data |-> p.data, data_size |-> p.data_size, sp |-> s.sp + 1, fp |-> s.sp + 1]
  BY <1>2, <1>3 DEF StackShape
<1>5. s.fp \in Nat /\ s.sp \in Nat /\ s.fp <= s.sp
  BY DEF StackShape
<1>6. /\ StackShape(t) /\ HasCells(t) /\ t.data_size > 0 /\ t.sp = s.sp + 1 /\ t.fp = s.sp + 1
      /\ t.data[s.sp] = s.fp
      /\ \A i \in 0 .. s.sp - 1 : t.data[i] = s.data[i]
  <2>1. /\ t = [data |-> t.data, data_size |-> t.data_size, sp |-> t.sp, fp |-> t.fp]
        /\ t.data = p.data /\ t.data_size = p.data_size
        /\ t.sp = s.sp + 1 /\ t.fp = s.sp + 1
    BY <1>4
  <2>2. s.sp + 1 \in 0 .. s.sp + 1 /\ p.data_size \in Nat /\ s.sp + 1 \in 0 .. p.data_size
    BY <1>2, <1>5 DEF StackShape
  <2>3. p.data = [i \in DOMAIN p.data |-> p.data[i]] /\ DOMAIN p.data = 0 .. p.data_size - 1
    BY <1>2 DEF StackShape, HasCells
  <2>4. StackShape(t) /\ HasCells(t)
    BY <2>1, <2>2, <2>3 DEF StackShape, HasCells
  <2> QED
    BY <1>2, <2>1, <2>4
<1> DEFINE C == Append(B, t.fp)
           n == Len(B)
           V == ViewOf(B, s)
           W == ViewOf(C, t)
<1>7. /\ B \in Seq(Nat) /\ n \in Nat \ {0} /\ B[1] = 0 /\ B[n] = s.fp
      /\ \A j \in 1 .. n : B[j] \in 0 .. s.fp
      /\ \A j \in 1 .. n - 1 : B[j] < B[j + 1] /\ s.data[B[j + 1] - 1] = B[j]
  BY LenProperties DEF FramesAt
<1>8. /\ C \in Seq(Nat) /\ Len(C) = n + 1 /\ C[n + 1] = s.sp + 1
      /\ \A j \in 1 .. n : C[j] = B[j]
  BY <1>5, <1>6, <1>7, AppendProperties
<1> HIDE DEF C, n
<1>9. \A j \in 1 .. n - 1 : j \in 1 .. n /\ j + 1 \in 1 .. n /\ B[j + 1] \in 1 .. s.fp
  <2> TAKE j \in 1 .. n - 1
  <2>1. j \in 1 .. n /\ j + 1 \in 1 .. n
    BY <1>7
  <2>2. B[j] \in 0 .. s.fp /\ B[j + 1] \in 0 .. s.fp /\ B[j] < B[j + 1]
    BY <1>7, <2>1
  <2> QED
    BY <1>5, <2>1, <2>2
<1>10. FramesAt(C, t)
  <2>1. \A j \in 1 .. n + 1 : C[j] \in 0 .. s.sp + 1
    <3> TAKE j \in 1 .. n + 1
    <3>1. CASE j = n + 1
      BY <1>5, <1>8, <3>1
    <3>2. CASE j # n + 1
      <4>1. j \in 1 .. n
        BY <1>7, <3>2
      <4>2. C[j] = B[j] /\ B[j] \in 0 .. s.fp
        BY <1>7, <1>8, <4>1
      <4> QED
        BY <1>5, <4>2
    <3> QED
      BY <3>1, <3>2
  <2>2. \A j \in 1 .. n : C[j] < C[j + 1] /\ t.data[C[j + 1] - 1] = C[j]
    <3> TAKE j \in 1 .. n
    <3>1. CASE j = n
      <4>1. C[j] = s.fp /\ C[j + 1] = s.sp + 1
        BY <1>7, <1>8, <3>1
      <4>2. s.sp + 1 - 1 = s.sp
        BY <1>5
      <4> QED
        BY <1>5, <1>6, <4>1, <4>2
    <3>2. CASE j # n
      <4>1. j \in 1 .. n - 1
        BY <1>7, <3>2
      <4>2. C[j] = B[j] /\ C[j + 1] = B[j + 1]
        BY <1>8, <1>9, <4>1
      <4>3. B[j + 1] \in 1 .. s.fp
        BY <1>9, <4>1
      <4>4. B[j + 1] - 1 \in 0 .. s.sp - 1
        BY <1>5, <4>3
      <4> QED
        BY <1>6, <1>7, <4>1, <4>2, <4>4
    <3> QED
      BY <3>1, <3>2
  <2>3. 1 \in 1 .. n /\ n + 1 >= 1 /\ n + 1 - 1 = n
    BY <1>7
  <2>5. \A j \in 1 .. n + 1 : \A i \in 1 .. j : C[i] <= C[j]
    <3> TAKE j \in 1 .. n + 1
    <3> TAKE i \in 1 .. j
    <3>1. i \in 1 .. n + 1 /\ C[i] \in 0 .. s.sp + 1
      BY <1>7, <2>1
    <3>2. CASE j = n + 1
      BY <1>5, <1>8, <3>1, <3>2
    <3>3. CASE j # n + 1
      <4>1. j \in 1 .. n /\ i \in 1 .. n
        BY <1>7, <3>3
      <4>2. B[i] <= B[j]
        BY <4>1 DEF FramesAt, n
      <4> QED
        BY <1>8, <4>1, <4>2
    <3> QED
      BY <3>2, <3>3
  <2>4. Len(C) - 1 = n
    BY <1>7, <1>8
  <2> QED
    BY <1>6, <1>7, <1>8, <2>1, <2>2, <2>3, <2>4, <2>5 DEF FramesAt
<1>11. /\ V \in Seq(Seq(Word(s))) /\ Len(V) = n /\ V[n] = CellsOf(s, s.fp, s.sp)
       /\ \A j \in 1 .. n - 1 : V[j] = CellsOf(s, B[j], B[j + 1] - 1)
  BY ViewFacts DEF n
<1>12. /\ W \in Seq(Seq(Word(t))) /\ Len(W) = n + 1
       /\ W[n + 1] = CellsOf(t, t.fp, t.sp)
       /\ \A j \in 1 .. n : W[j] = CellsOf(t, C[j], C[j + 1] - 1)
  <2>1. Len(C) - 1 = n
    BY <1>7, <1>8
  <2>2. /\ W \in Seq(Seq(Word(t))) /\ Len(W) = Len(C)
        /\ W[Len(C)] = CellsOf(t, t.fp, t.sp)
        /\ \A j \in 1 .. Len(C) - 1 : W[j] = CellsOf(t, C[j], C[j + 1] - 1)
    BY <1>6, <1>10, ViewFacts
  <2> HIDE DEF W
  <2> QED
    BY <1>8, <2>1, <2>2
<1> HIDE DEF V, W
<1>13. \A j \in 1 .. n : W[j] = V[j]
  <2> TAKE j \in 1 .. n
  <2>1. CASE j = n
    <3>1. CellsOf(t, s.fp, s.sp) = CellsOf(s, s.fp, s.sp)
      <4>1. \A i \in s.fp .. s.sp - 1 : t.data[i] = s.data[i]
        BY <1>5, <1>6
      <4> QED
        BY <1>5, <4>1, CellsAgree
    <3>2. C[n] = s.fp /\ C[n + 1] - 1 = s.sp
      BY <1>5, <1>7, <1>8
    <3> QED
      BY <1>11, <1>12, <2>1, <3>1, <3>2
  <2>2. CASE j # n
    <3>1. j \in 1 .. n - 1
      BY <1>7, <2>2
    <3>2. C[j] = B[j] /\ C[j + 1] = B[j + 1]
      BY <1>8, <1>9, <3>1
    <3>3. PICK to : to = B[j + 1] - 1
      OBVIOUS
    <3>4. B[j] \in Nat /\ to \in Nat /\ \A i \in B[j] .. to - 1 : i \in 0 .. s.sp - 1
      <4>1. B[j] \in 0 .. s.fp /\ B[j + 1] \in 1 .. s.fp
        BY <1>7, <1>9, <3>1
      <4>2. to \in 0 .. s.fp
        BY <1>5, <3>3, <4>1
      <4> QED
        BY <1>5, <4>1, <4>2
    <3>5. CellsOf(t, B[j], to) = CellsOf(s, B[j], to)
      BY <1>6, <3>4, CellsAgree
    <3> QED
      BY <1>11, <1>12, <3>1, <3>2, <3>3, <3>5
  <2> QED
    BY <2>1, <2>2
<1>14. W[n + 1] = <<>>
  BY <1>5, <1>6, <1>12 DEF CellsOf
<1>15. W = Append(V, <<>>)
  <2> DEFINE X == Seq(Word(s)) \cup Seq(Word(t))
  <2>1. V \in Seq(X) /\ W \in Seq(X) /\ <<>> \in X
    <3>1. Seq(Word(s)) \subseteq X /\ Seq(Word(t)) \subseteq X /\ <<>> \in X
      <4>1. <<>> \in Seq(Word(s))
        BY EmptySeq
      <4> QED
        BY <4>1
    <3> HIDE DEF X
    <3> QED
      BY <1>11, <1>12, <3>1, SeqMonotonic
  <2> HIDE DEF X
  <2>2. /\ Append(V, <<>>) \in Seq(X) /\ Len(Append(V, <<>>)) = n + 1
        /\ Append(V, <<>>)[n + 1] = <<>>
        /\ \A j \in 1 .. n : Append(V, <<>>)[j] = V[j]
    BY <1>11, <2>1, AppendProperties
  <2>3. \A j \in 1 .. n + 1 : W[j] = Append(V, <<>>)[j]
    <3> TAKE j \in 1 .. n + 1
    <3>1. CASE j = n + 1
      BY <1>14, <2>2, <3>1
    <3>2. CASE j # n + 1
      <4>1. j \in 1 .. n
        BY <1>7, <3>2
      <4> QED
        BY <1>13, <2>2, <4>1
    <3> QED
      BY <3>1, <3>2
  <2> QED
    BY <1>12, <2>1, <2>2, <2>3, SeqEqual
<1>16. Entered(s) = t
  BY <1>1, <1>3 DEF Entered
<1> QED
  BY <1>6, <1>10, <1>15, <1>16 DEF C, V, W

(* stack_exit_frame takes the current frame and the cell below it; the     *)
(* frames below are as they were left.                                     *)
LEMMA ExitView ==
    ASSUME NEW s, StackShape(s), HasCells(s), NEW B, FramesAt(B, s), s.fp > 0
    PROVE  LET t == Exited(s)
               V == ViewOf(B, s)
               C == SubSeq(B, 1, Len(B) - 1)
           IN  /\ StackShape(t) /\ HasCells(t) /\ t.data_size = s.data_size
               /\ FramesAt(C, t)
               /\ Len(V) > 1 /\ ViewOf(C, t) = SubSeq(V, 1, Len(V) - 1)
<1>1. PICK t : t = Exited(s)
  OBVIOUS
<1> DEFINE n == Len(B)
           m == n - 1
           C == SubSeq(B, 1, m)
           V == ViewOf(B, s)
           W == ViewOf(C, t)
<1>2. /\ B \in Seq(Nat) /\ n \in Nat \ {0} /\ B[1] = 0 /\ B[n] = s.fp
      /\ \A j \in 1 .. n : B[j] \in 0 .. s.fp /\ \A i \in 1 .. j : B[i] <= B[j]
      /\ \A j \in 1 .. n - 1 : B[j] < B[j + 1] /\ s.data[B[j + 1] - 1] = B[j]
  BY LenProperties DEF FramesAt
<1>3. s.fp \in Nat /\ s.sp \in Nat /\ s.fp <= s.sp /\ s.sp <= s.data_size /\ s.data_size \in Nat
  BY DEF StackShape
<1> HIDE DEF n
<1>4. n # 1
  BY <1>2
<1>5. m \in Nat /\ m >= 1 /\ m + 1 = n /\ m \in 1 .. n - 1 /\ m \in 1 .. n
  BY <1>2, <1>4
<1>6. B[m] < s.fp /\ s.data[s.fp - 1] = B[m] /\ B[m] \in Nat
  <2> HIDE DEF m
  <2>1. B[m] < B[m + 1] /\ s.data[B[m + 1] - 1] = B[m] /\ B[m] \in 0 .. s.fp
    BY <1>2, <1>5
  <2> QED
    BY <1>2, <1>5, <2>1
<1> HIDE DEF m
<1>7. t = [data |-> s.data, data_size |-> s.data_size, sp |-> s.fp - 1, fp |-> B[m]]
  <2>1. t = [s EXCEPT !.sp = s.fp - 1, !.fp = B[m]]
    BY <1>1, <1>6 DEF Exited
  <2> QED
    BY <2>1 DEF StackShape
<1>8. /\ StackShape(t) /\ HasCells(t) /\ t.data_size = s.data_size
      /\ t.sp = s.fp - 1 /\ t.fp = B[m] /\ t.data = s.data
  <2>1. /\ t = [data |-> t.data, data_size |-> t.data_size, sp |-> t.sp, fp |-> t.fp]
        /\ t.data = s.data /\ t.data_size = s.data_size /\ t.sp = s.fp - 1 /\ t.fp = B[m]
    BY <1>7
  <2>2. t.sp \in 0 .. t.data_size /\ t.fp \in 0 .. t.sp
    BY <1>3, <1>6, <2>1
  <2> QED
    BY <1>3, <2>1, <2>2 DEF StackShape, HasCells
<1>9. C \in Seq(Nat) /\ Len(C) = m /\ \A j \in 1 .. m : C[j] = B[j]
  <2>1. \A j \in 1 .. m : B[j] \in Nat
    BY <1>2, <1>5, ElementOfSeq
  <2>2. /\ C \in Seq(Nat)
        /\ Len(C) = IF 1 <= m THEN m - 1 + 1 ELSE 0
        /\ \A j \in 1 .. m - 1 + 1 : C[j] = B[1 + j - 1]
    BY <1>5, <2>1, SubSeqProperties
  <2> HIDE DEF C
  <2>3. \A j \in 1 .. m : 1 + j - 1 = j /\ j \in 1 .. m - 1 + 1
    BY <1>5
  <2> QED
    BY <1>5, <2>2, <2>3
<1> HIDE DEF C
<1>10. FramesAt(C, t)
  <2>1. \A j \in 1 .. m : j \in 1 .. n
    BY <1>5
  <2>2. \A j \in 1 .. m : C[j] \in 0 .. B[m] /\ \A i \in 1 .. j : C[i] <= C[j]
    <3> TAKE j \in 1 .. m
    <3>1. B[j] \in 0 .. s.fp /\ B[j] <= B[m]
      BY <1>2, <1>5, <2>1
    <3>2. ASSUME NEW i \in 1 .. j PROVE C[i] <= C[j]
      <4>1. i \in 1 .. m
        BY <1>5
      <4> QED
        BY <1>2, <1>9, <2>1, <4>1
    <3> QED
      BY <1>6, <1>9, <3>1, <3>2
  <2>3. \A j \in 1 .. m - 1 : C[j] < C[j + 1] /\ t.data[C[j + 1] - 1] = C[j]
    <3> TAKE j \in 1 .. m - 1
    <3>1. j \in 1 .. m /\ j + 1 \in 1 .. m /\ j \in 1 .. n - 1
      BY <1>5
    <3>2. C[j] = B[j] /\ C[j + 1] = B[j + 1]
      BY <1>9, <3>1
    <3> QED
      BY <1>2, <1>8, <3>1, <3>2
  <2>4. 1 \in 1 .. m
    BY <1>5
  <2> QED
    BY <1>2, <1>5, <1>8, <1>9, <2>2, <2>3, <2>4 DEF FramesAt
<1>11. /\ V \in Seq(Seq(Word(s))) /\ Len(V) = n
       /\ \A j \in 1 .. n - 1 : V[j] = CellsOf(s, B[j], B[j + 1] - 1)
  BY ViewFacts DEF n
<1>12. /\ W \in Seq(Seq(Word(t))) /\ Len(W) = m
       /\ W[m] = CellsOf(t, t.fp, t.sp)
       /\ \A j \in 1 .. m - 1 : W[j] = CellsOf(t, C[j], C[j + 1] - 1)
  <2>1. /\ W \in Seq(Seq(Word(t))) /\ Len(W) = Len(C)
        /\ W[Len(C)] = CellsOf(t, t.fp, t.sp)
        /\ \A j \in 1 .. Len(C) - 1 : W[j] = CellsOf(t, C[j], C[j + 1] - 1)
    BY <1>8, <1>10, ViewFacts
  <2> HIDE DEF W
  <2> QED
    BY <1>9, <2>1
<1> HIDE DEF V, W
<1>13. \A from, to : CellsOf(t, from, to) = CellsOf(s, from, to)
  BY <1>8 DEF CellsOf
<1>14. \A j \in 1 .. m : W[j] = V[j]
  <2> TAKE j \in 1 .. m
  <2>1. CASE j = m
    <3>1. V[m] = CellsOf(s, B[m], B[m + 1] - 1) /\ B[m + 1] = s.fp
      BY <1>2, <1>5, <1>11
    <3> QED
      BY <1>8, <1>12, <1>13, <2>1, <3>1
  <2>2. CASE j # m
    <3>1. j \in 1 .. m - 1 /\ j \in 1 .. m /\ j + 1 \in 1 .. m /\ j \in 1 .. n - 1
      BY <1>5, <2>2
    <3>2. C[j] = B[j] /\ C[j + 1] = B[j + 1]
      BY <1>9, <3>1
    <3>3. V[j] = CellsOf(s, B[j], B[j + 1] - 1)
      BY <1>11, <3>1
    <3>4. W[j] = CellsOf(t, C[j], C[j + 1] - 1)
      BY <1>12, <3>1
    <3>5. CellsOf(t, C[j], C[j + 1] - 1) = CellsOf(s, C[j], C[j + 1] - 1)
      BY <1>13
    <3> QED
      BY <3>2, <3>3, <3>4, <3>5
  <2> QED
    BY <2>1, <2>2
<1>15. W = SubSeq(V, 1, m)
  <2> DEFINE X == Seq(Word(s)) \cup Seq(Word(t))
             U == SubSeq(V, 1, m)
  <2>1. V \in Seq(X) /\ W \in Seq(X)
    <3>1. Seq(Word(s)) \subseteq X /\ Seq(Word(t)) \subseteq X
      OBVIOUS
    <3> HIDE DEF X
    <3> QED
      BY <1>11, <1>12, <3>1, SeqMonotonic
  <2> HIDE DEF X
  <2>2. \A j \in 1 .. m : V[j] \in X
    <3>1. \A j \in 1 .. m : j \in 1 .. n
      BY <1>5
    <3> QED
      BY <1>11, <2>1, <3>1, ElementOfSeq
  <2>3. /\ U \in Seq(X)
        /\ Len(U) = IF 1 <= m THEN m - 1 + 1 ELSE 0
        /\ \A j \in 1 .. m - 1 + 1 : U[j] = V[1 + j - 1]
    BY <1>5, <2>2, SubSeqProperties
  <2> HIDE DEF U
  <2>4. Len(U) = m /\ \A j \in 1 .. m : 1 + j - 1 = j /\ j \in 1 .. m - 1 + 1
    BY <1>5, <2>3
  <2>5. \A j \in 1 .. m : U[j] = V[j]
    BY <2>3, <2>4
  <2>6. W = U
    BY <1>12, <1>14, <2>1, <2>3, <2>4, <2>5, SeqEqual
  <2> QED
    BY <2>6 DEF U
<1>16. Len(V) > 1 /\ Len(V) - 1 = m /\ Len(B) - 1 = m
  BY <1>5, <1>11 DEF n
<1> QED
  BY <1>1, <1>8, <1>10, <1>15, <1>16 DEF C, V, W

(* stack_init leaves one empty frame.                                      *)
LEMMA FreshView ==
    ASSUME NEW s, StackShape(s)
    PROVE  LET t == Fresh(s, StackSize)
           IN  /\ StackShape(t) /\ HasCells(t)
               /\ FramesAt(<<0>>, t) /\ ViewOf(<<0>>, t) = << <<>> >>
<1> DEFINE d == [i \in 0 .. StackSize - 1 |-> IF i \in DOMAIN s.data THEN s.data[i] ELSE Raw]
<1>1. PICK t : t = Fresh(s, StackSize)
  OBVIOUS
<1>2. t = [data |-> d, data_size |-> StackSize, sp |-> 0, fp |-> 0]
  <2>1. Realloc(s, StackSize) = [s EXCEPT !.data_size = StackSize, !.data = d]
    BY DEF Realloc
  <2> HIDE DEF d
  <2> QED
    BY <1>1, <2>1 DEF Fresh, StackShape
<1>3. DOMAIN d = 0 .. StackSize - 1 /\ d = [i \in 0 .. StackSize - 1 |-> d[i]]
  OBVIOUS
<1> HIDE DEF d
<1>4. StackShape(t) /\ HasCells(t)
  <2>1. StackSize \in Nat /\ 0 \in 0 .. StackSize
    BY StackAssumption
  <2> QED
    BY <1>2, <1>3, <2>1 DEF StackShape, HasCells
<1>5. FramesAt(<<0>>, t)
  BY <1>2 DEF FramesAt
<1>6. ViewOf(<<0>>, t) = << <<>> >>
  <2>1. Len(<<0>>) = 1 /\ <<0>>[1] = 0
    OBVIOUS
  <2>2. CellsOf(t, 0, 0) = <<>>
    BY DEF CellsOf
  <2>3. ViewOf(<<0>>, t) = [j \in 1 .. 1 |-> CellsOf(t, 0, 0)]
    BY <1>2, <2>1 DEF ViewOf
  <2> QED
    BY <2>2, <2>3
<1> QED
  BY <1>1, <1>4, <1>5, <1>6

-----------------------------------------------------------------------------
(* The stack: its invariant.                                               *)

(* A stack is freed, or its saved beginnings lead down to 0; one that has  *)
(* no cells has never returned anything.                                   *)
StackInv ==
    /\ StackShape(stack)
    /\ Usable \/ stack.data = NoStack.data
    /\ Usable => \E B : FramesAt(B, stack)
    /\ stack.data_size = 0 => got = NULL

(* What the frames contain, from where they begin.                         *)
ViewRule == \A B : StackShape(stack) /\ FramesAt(B, stack) => View = ViewOf(B, stack) /\ Begins = B

(* It is what the calls return from.                                       *)
LEMMA ViewIs == ViewRule
<1> SUFFICES ASSUME NEW B, StackShape(stack), FramesAt(B, stack)
             PROVE  View = ViewOf(B, stack) /\ Begins = B
  BY DEF ViewRule
<1>1. Begins = B
  <2>1. stack.sp \in Nat /\ stack.fp \in 0 .. stack.sp
    BY DEF StackShape
  <2> QED
    BY <2>1, BeginsAre, BeginsIsBeginsOf
<1>2. View = [j \in 1 .. Len(B) |-> Cells(B[j], IF j = Len(B) THEN stack.sp ELSE B[j + 1] - 1)]
  BY <1>1 DEF View
<1>3. \A from, to : Cells(from, to) = CellsOf(stack, from, to)
  BY DEF Cells, CellsOf
<1> QED
  BY <1>1, <1>2, <1>3 DEF ViewOf

Frames == IF Usable THEN View ELSE << <<>> >>

(* What a call that leaves a usable stack leaves in the frames.            *)
LEMMA AfterCall ==
    ASSUME NEW t, stack' = t, StackShape(t), HasCells(t), NEW B, FramesAt(B, t)
    PROVE  Usable' /\ Frames' = ViewOf(B, t) /\ StackShape(stack)' /\ (\E C : FramesAt(C, stack))'
<1>1. ViewRule'
  BY ViewIs, PTL
<1>2. StackShape(stack)' /\ FramesAt(B, stack)'
  BY DEF StackShape, FramesAt
<1>3. View' = ViewOf(B, t)
  <2>1. View' = ViewOf(B, stack)'
    BY <1>1, <1>2 DEF ViewRule
  <2>2. ViewOf(B, stack)' = ViewOf(B, t)
    BY DEF ViewOf, CellsOf
  <2> QED
    BY <2>1, <2>2
<1>4. Usable'
  BY DEF Usable, HasCells
<1> QED
  BY <1>2, <1>3, <1>4 DEF Frames

(* What a usable stack has before a call.                                  *)
LEMMA BeforeCall ==
    ASSUME StackInv, Usable
    PROVE  StackShape(stack) /\ HasCells(stack)
           /\ \E B : FramesAt(B, stack) /\ Frames = ViewOf(B, stack)
  BY ViewIs DEF StackInv, ViewRule, Usable, HasCells, Frames

(* stack_push. *)
LEMMA PushStep ==
    ASSUME StackInv, NEW v, Push(v)
    PROVE  StackInv' /\ F!FPush(v)
<1>1. Usable /\ stack' = Pushed(stack, v) /\ got' = NULL
  BY DEF Push
<1>2. PICK B : FramesAt(B, stack) /\ Frames = ViewOf(B, stack)
  BY <1>1, BeforeCall
<1>3. StackShape(stack) /\ HasCells(stack)
  BY <1>1, BeforeCall
<1>4. PICK p : p = Pushed(stack, v)
  OBVIOUS
<1>5. /\ StackShape(p) /\ HasCells(p) /\ p.data_size > 0
      /\ FramesAt(B, p)
      /\ ViewOf(B, p) = [Frames EXCEPT ![Len(Frames)] = Append(@, v)]
  <2>1. StackShape(p) /\ HasCells(p) /\ p.data_size > 0
    BY <1>3, <1>4, PushEffect
  <2>2. FramesAt(B, p)
        /\ ViewOf(B, p) = [ViewOf(B, stack) EXCEPT ![Len(ViewOf(B, stack))] = Append(@, v)]
    BY <1>2, <1>3, <1>4, PushView
  <2> QED
    BY <1>2, <2>1, <2>2
<1>6. Usable' /\ Frames' = ViewOf(B, p) /\ StackShape(stack)' /\ (\E C : FramesAt(C, stack))'
  BY <1>1, <1>4, <1>5, AfterCall
<1>7. StackInv'
  BY <1>1, <1>6 DEF StackInv
<1> QED
  BY <1>1, <1>5, <1>6, <1>7 DEF F!FPush, Frames

(* The current frame of the abstract stack: empty just if stack_pop finds  *)
(* it so.                                                                  *)
LEMMA CurrentFrame ==
    ASSUME StackInv, Usable
    PROVE  /\ F!Current = Frames[Len(Frames)]
           /\ Empty(stack) => F!Current = <<>> /\ Peeked(stack) = NULL /\ Popped(stack) = stack
           /\ ~ Empty(stack) => F!Current # <<>> /\ Peeked(stack) = F!Top
<1>1. PICK B : FramesAt(B, stack) /\ Frames = ViewOf(B, stack)
  BY BeforeCall
<1>2. StackShape(stack) /\ HasCells(stack)
  BY BeforeCall
<1>3. F!Current = Frames[Len(Frames)]
  BY DEF F!Current, Frames
<1>4. Frames[Len(Frames)] = CellsOf(stack, stack.fp, stack.sp)
  BY <1>1, <1>2, ViewFacts
<1>5. ASSUME Empty(stack)
      PROVE  F!Current = <<>> /\ Peeked(stack) = NULL /\ Popped(stack) = stack
  <2>1. stack.sp = stack.fp /\ stack.sp \in Nat
    BY <1>2, <1>5 DEF Empty, StackShape
  <2>2. CellsOf(stack, stack.fp, stack.sp) = <<>>
    BY <2>1 DEF CellsOf
  <2> QED
    BY <1>3, <1>4, <1>5, <2>2 DEF Peeked, Popped
<1>6. ASSUME ~ Empty(stack)
      PROVE  F!Current # <<>> /\ Peeked(stack) = F!Top
  <2> DEFINE c == Frames[Len(Frames)]
  <2>1. c # <<>> /\ Peeked(stack) = c[Len(c)]
    BY <1>1, <1>2, <1>6, PopView
  <2>2. F!Top = F!Current[Len(F!Current)]
    BY DEF F!Top, F!Current
  <2> HIDE DEF c
  <2> QED
    BY <1>3, <2>1, <2>2 DEF c
<1> QED
  BY <1>3, <1>5, <1>6

(* stack_peek. *)
LEMMA PeekStep ==
    ASSUME StackInv, Peek
    PROVE  StackInv' /\ (F!FPeek \/ (F!Current = <<>> /\ F!FNothing))
<1>1. Usable /\ got' = Peeked(stack) /\ stack' = stack
  BY DEF Peek
<1>2. Usable' /\ View' = View
  BY <1>1 DEF Usable, View, Begins, Cells
<1>3. StackInv'
  <2>1. ASSUME stack.data_size = 0 PROVE Peeked(stack) = NULL
    BY <2>1 DEF Peeked, Empty, StackInv, StackShape
  <2> QED
    BY <1>1, <2>1 DEF StackInv, StackShape, FramesAt, Usable
<1>4. CASE Empty(stack)
  BY <1>1, <1>2, <1>3, <1>4, CurrentFrame DEF F!FNothing
<1>5. CASE ~ Empty(stack)
  BY <1>1, <1>2, <1>3, <1>5, CurrentFrame DEF F!FPeek
<1> QED
  BY <1>4, <1>5

(* stack_pop. *)
LEMMA PopStep ==
    ASSUME StackInv, Pop
    PROVE  StackInv' /\ (F!FPop \/ (F!Current = <<>> /\ F!FNothing))
<1>1. Usable /\ got' = Peeked(stack) /\ stack' = Popped(stack)
  BY DEF Pop
<1>2. CASE Empty(stack)
  <2>1. stack' = stack
    BY <1>1, <1>2, CurrentFrame
  <2> QED
    BY <1>1, <2>1, <1>2, PeekStep, CurrentFrame DEF Peek, F!FPeek
<1>3. CASE ~ Empty(stack)
  <2>1. PICK B : FramesAt(B, stack) /\ Frames = ViewOf(B, stack)
    BY <1>1, BeforeCall
  <2>2. StackShape(stack) /\ HasCells(stack)
    BY <1>1, BeforeCall
  <2>3. PICK t : t = Popped(stack)
    OBVIOUS
  <2>4. /\ StackShape(t) /\ HasCells(t) /\ t.data_size = stack.data_size /\ FramesAt(B, t)
        /\ ViewOf(B, t) = [Frames EXCEPT ![Len(Frames)] = SubSeq(@, 1, Len(@) - 1)]
    BY <1>3, <2>1, <2>2, <2>3, PopView
  <2>5. Usable' /\ Frames' = ViewOf(B, t) /\ StackShape(stack)' /\ (\E C : FramesAt(C, stack))'
    BY <1>1, <2>3, <2>4, AfterCall
  <2>6. stack'.data_size # 0
    BY <1>1, <1>3, <2>2, <2>3, <2>4 DEF Empty, StackShape
  <2>7. StackInv'
    BY <2>5, <2>6 DEF StackInv
  <2>8. F!Current # <<>> /\ Peeked(stack) = F!Top
    BY <1>1, <1>3, CurrentFrame
  <2> QED
    BY <1>1, <2>4, <2>5, <2>7, <2>8 DEF F!FPop, Frames
<1> QED
  BY <1>2, <1>3

(* stack_enter_frame. *)
LEMMA EnterStep ==
    ASSUME StackInv, EnterFrame
    PROVE  StackInv' /\ F!FEnter
<1>1. Usable /\ stack' = Entered(stack) /\ got' = NULL
  BY DEF EnterFrame
<1>2. PICK B : FramesAt(B, stack) /\ Frames = ViewOf(B, stack)
  BY <1>1, BeforeCall
<1>3. StackShape(stack) /\ HasCells(stack)
  BY <1>1, BeforeCall
<1>4. PICK t : t = Entered(stack)
  OBVIOUS
<1>5. PICK C : C = Append(B, t.fp)
  OBVIOUS
<1>6. /\ StackShape(t) /\ HasCells(t) /\ FramesAt(C, t)
      /\ ViewOf(C, t) = Append(Frames, <<>>)
  BY <1>2, <1>3, <1>4, <1>5, EnterView
<1>7. Usable' /\ Frames' = ViewOf(C, t) /\ StackShape(stack)' /\ (\E D : FramesAt(D, stack))'
  BY <1>1, <1>4, <1>6, AfterCall
<1>8. StackInv'
  BY <1>1, <1>7 DEF StackInv
<1> QED
  BY <1>1, <1>6, <1>7, <1>8 DEF F!FEnter, Frames

(* stack_exit_frame. *)
LEMMA ExitStep ==
    ASSUME StackInv, ExitFrame
    PROVE  StackInv' /\ (F!FExit \/ (Len(Frames) = 1 /\ F!FNothing))
<1>1. Usable /\ stack' = Exited(stack) /\ got' = NULL
  BY DEF ExitFrame
<1>2. PICK B : FramesAt(B, stack) /\ Frames = ViewOf(B, stack)
  BY <1>1, BeforeCall
<1>3. StackShape(stack) /\ HasCells(stack)
  BY <1>1, BeforeCall
<1>4. CASE stack.fp > 0
  <2>1. PICK t : t = Exited(stack)
    OBVIOUS
  <2>2. PICK C : C = SubSeq(B, 1, Len(B) - 1)
    OBVIOUS
  <2>3. /\ StackShape(t) /\ HasCells(t) /\ FramesAt(C, t)
        /\ Len(Frames) > 1 /\ ViewOf(C, t) = SubSeq(Frames, 1, Len(Frames) - 1)
    BY <1>2, <1>3, <1>4, <2>1, <2>2, ExitView
  <2>4. Usable' /\ Frames' = ViewOf(C, t) /\ StackShape(stack)' /\ (\E D : FramesAt(D, stack))'
    BY <1>1, <2>1, <2>3, AfterCall
  <2>5. StackInv'
    BY <1>1, <2>4 DEF StackInv
  <2> QED
    BY <1>1, <2>3, <2>4, <2>5 DEF F!FExit, Frames
<1>5. CASE ~ (stack.fp > 0)
  <2>1. stack' = stack /\ stack.fp = 0
    BY <1>1, <1>3, <1>5 DEF Exited, StackShape
  <2>2. Usable' /\ View' = View
    BY <1>1, <2>1 DEF Usable, View, Begins, Cells
  <2>3. StackInv'
    BY <1>1, <2>1 DEF StackInv, StackShape, FramesAt, Usable
  <2>4. Len(B) = 1
    <3>1. Len(B) \in Nat /\ Len(B) >= 1
      BY <1>2, LenProperties DEF FramesAt
    <3>2. ASSUME Len(B) > 1 PROVE FALSE
      <4>1. 1 \in 1 .. Len(B) - 1 /\ 2 \in 1 .. Len(B) /\ 1 + 1 = 2
        BY <3>1, <3>2
      <4>2. B[1] < B[2] /\ B[1] = 0 /\ B[2] \in 0 .. 0
        BY <1>2, <2>1, <4>1 DEF FramesAt
      <4> QED
        BY <4>2
    <3> QED
      BY <3>1, <3>2
  <2>5. Len(Frames) = 1
    BY <1>2, <1>3, <2>4, ViewFacts
  <2> QED
    BY <1>1, <2>1, <2>2, <2>3, <2>5 DEF F!FNothing
<1> QED
  BY <1>4, <1>5

(* stack_init, again. *)
LEMMA ResetStep ==
    ASSUME StackInv, StackReset
    PROVE  StackInv' /\ F!FReset
<1>1. stack' = Fresh(stack, StackSize) /\ got' = NULL
  BY DEF StackReset
<1>2. PICK t : t = Fresh(stack, StackSize)
  OBVIOUS
<1>3. /\ StackShape(t) /\ HasCells(t)
      /\ FramesAt(<<0>>, t) /\ ViewOf(<<0>>, t) = << <<>> >>
  BY <1>2, FreshView DEF StackInv
<1>4. Usable' /\ Frames' = ViewOf(<<0>>, t) /\ StackShape(stack)' /\ (\E C : FramesAt(C, stack))'
  BY <1>1, <1>2, <1>3, AfterCall
<1>5. StackInv'
  BY <1>1, <1>4 DEF StackInv
<1> QED
  BY <1>1, <1>3, <1>4, <1>5 DEF F!FReset, Frames

(* stack_free: a stack that never had a cell stays as it is, any other is  *)
(* empty from then on.                                                     *)
LEMMA FreeStep ==
    ASSUME StackInv, StackFree
    PROVE  StackInv' /\ (F!FReset \/ UNCHANGED <<Frames, IF Usable THEN got ELSE NULL>>)
<1>1. stack' = [stack EXCEPT !.data = NoStack.data] /\ got' = got
  BY DEF StackFree
<1> DEFINE none == [i \in {} |-> Raw]
<1>2. NoStack.data = none /\ DOMAIN none = {} /\ none = [i \in DOMAIN none |-> none[i]]
  BY DEF NoStack
<1> HIDE DEF none
<1>3. stack' = [data |-> none, data_size |-> stack.data_size, sp |-> stack.sp, fp |-> stack.fp]
  BY <1>1, <1>2 DEF StackInv, StackShape
<1>4. StackShape(stack)' /\ stack'.data = NoStack.data /\ stack'.data_size = stack.data_size
  BY <1>2, <1>3 DEF StackInv, StackShape
<1>5. CASE stack.data_size = 0
  <2>1. stack.sp = 0 /\ stack.fp = 0 /\ got = NULL
    BY <1>5 DEF StackInv, StackShape
  <2>2. stack.data = none
    <3>1. Usable => DOMAIN stack.data = {}
      BY <1>5 DEF Usable
    <3>2. DOMAIN stack.data = {} => stack.data = [i \in {} |-> stack.data[i]]
      BY DEF StackInv, StackShape
    <3>3. none = [i \in {} |-> none[i]]
      BY <1>2
    <3>4. [i \in {} |-> stack.data[i]] = [i \in {} |-> none[i]]
      OBVIOUS
    <3> QED
      BY <1>2, <3>1, <3>2, <3>3, <3>4 DEF StackInv
  <2>3. stack' = stack
    BY <1>3, <2>2 DEF StackInv, StackShape
  <2>4. Usable' = Usable /\ Frames' = Frames
    BY <2>3 DEF Usable, Frames, View, Begins, Cells
  <2>5. StackInv'
    <3>1. (Usable \/ stack.data = NoStack.data)'
      BY <1>4
    <3>2. (stack.data_size = 0 => got = NULL)'
      BY <1>1, <2>1
    <3>3. (Usable => \E B : FramesAt(B, stack))'
      BY <2>3, <2>4 DEF StackInv, FramesAt
    <3> QED
      BY <1>4, <3>1, <3>2, <3>3 DEF StackInv
  <2> QED
    BY <1>1, <2>4, <2>5
<1>6. CASE stack.data_size # 0
  <2>1. ~ Usable'
    <3>1. stack.data_size \in Nat
      BY DEF StackInv, StackShape
    <3>2. 0 \in 0 .. stack.data_size - 1
      BY <1>6, <3>1
    <3> QED
      BY <1>2, <1>4, <3>2 DEF Usable
  <2>2. StackInv'
    <3>1. (Usable \/ stack.data = NoStack.data)'
      BY <1>4
    <3>2. (stack.data_size = 0 => got = NULL)'
      BY <1>4, <1>6
    <3>3. (Usable => \E B : FramesAt(B, stack))'
      BY <2>1
    <3> QED
      BY <1>4, <3>1, <3>2, <3>3 DEF StackInv
  <2>3. F!FReset
    BY <2>1 DEF F!FReset
  <2> QED
    BY <2>2, <2>3
<1> QED
  BY <1>5, <1>6

(* stack_init of a new stack. *)
LEMMA StackInitInv ==
    ASSUME StackInit
    PROVE  StackInv /\ F!FramesInit
<1>1. PICK t : t = Fresh(NoStack, StackSize)
  OBVIOUS
<1>2. StackShape(NoStack)
  BY DEF StackShape, NoStack
<1>3. /\ StackShape(t) /\ HasCells(t)
      /\ FramesAt(<<0>>, t) /\ ViewOf(<<0>>, t) = << <<>> >>
  BY <1>1, <1>2, FreshView
<1>4. stack = t /\ got = NULL
  BY <1>1 DEF StackInit
<1>5. Usable /\ View = << <<>> >>
  BY <1>3, <1>4, ViewIs DEF Usable, HasCells, ViewRule
<1> QED
  BY <1>3, <1>4, <1>5 DEF StackInv, F!FramesInit

(* Every call keeps the invariant, and is one of the abstract stack's.     *)
LEMMA StackStep ==
    ASSUME StackInv, [StackNext]_stackVars
    PROVE  StackInv' /\ [F!FramesNext]_<<Frames, IF Usable THEN got ELSE NULL>>
<1>1. ASSUME NEW v \in Pointers \cup {NULL}, Push(v)
      PROVE  StackInv' /\ F!FramesNext
  BY <1>1, PushStep DEF F!FramesNext
<1>2. CASE Pop
  BY <1>2, PopStep DEF F!FramesNext
<1>3. CASE Peek
  BY <1>3, PeekStep DEF F!FramesNext
<1>4. CASE EnterFrame
  BY <1>4, EnterStep DEF F!FramesNext
<1>5. CASE ExitFrame
  BY <1>5, ExitStep DEF F!FramesNext, Frames
<1>6. CASE StackReset
  BY <1>6, ResetStep DEF F!FramesNext
<1>7. CASE StackFree
  BY <1>7, FreeStep DEF F!FramesNext
<1>8. CASE UNCHANGED stackVars
  <2>1. stack' = stack /\ got' = got
    BY <1>8 DEF stackVars
  <2>2. Usable' = Usable /\ Frames' = Frames
    BY <2>1 DEF Usable, Frames, View, Begins, Cells
  <2>3. StackInv'
    BY <2>1 DEF StackInv, StackShape, FramesAt, Usable
  <2> QED
    BY <2>1, <2>2, <2>3
<1> QED
  BY <1>1, <1>2, <1>3, <1>4, <1>5, <1>6, <1>7, <1>8 DEF StackNext

(* The saved beginnings hold whatever is called in whatever order. *)
THEOREM StackInvariant == StackSpec => []StackInv
<1>1. StackInit => StackInv
  BY StackInitInv
<1>2. StackInv /\ [StackNext]_stackVars => StackInv'
  BY StackStep
<1> QED
  BY <1>1, <1>2, PTL DEF StackSpec

(* No pop and no push within a frame touches the cell in which             *)
(* stack_enter_frame has saved where the frame below begins.               *)
THEOREM StackWellTyped == StackSpec => []StackTypeOK
<1>1. ASSUME StackInv PROVE StackTypeOK
  <2>1. ASSUME Usable PROVE Begins[1] = 0
    BY <1>1, <2>1, ViewIs DEF StackInv, ViewRule, FramesAt
  <2> QED
    BY <1>1, <2>1 DEF StackInv, StackShape, StackTypeOK
<1>2. StackInv => StackTypeOK
  BY <1>1
<1> QED
  BY <1>2, StackInvariant, PTL

(* stack.c implements frames that are stacks of their own: one array of    *)
(* words, moved when it grows, behaves like a sequence of sequences.       *)
THEOREM StackImplementsFrames == StackSpec => StackIsFrames
<1>1. StackInit => F!FramesInit
  BY StackInitInv
<1>2. StackInv /\ [StackNext]_stackVars => [F!FramesNext]_<<Frames, IF Usable THEN got ELSE NULL>>
  BY StackStep
<1>3. StackInv /\ [StackNext]_stackVars
        => [F!FramesNext]_<<IF Usable THEN View ELSE << <<>> >>, IF Usable THEN got ELSE NULL>>
  BY <1>2 DEF Frames
<1> QED
  BY <1>1, <1>3, StackInvariant, PTL DEF StackSpec, StackIsFrames, F!FramesSpec

-----------------------------------------------------------------------------
(* The list: its capacity.                                                 *)

Increment(c) == c \div 8 + (IF c < 9 THEN 3 ELSE 6)

(* f tells the capacity that c grows to, for every c from n on.            *)
GrowsFrom(f, least, n) ==
    /\ f \in [Nat -> Nat]
    /\ \A c \in Nat : c >= n => f[c] = IF c >= least THEN c ELSE f[c + Increment(c)]

(* A capacity grows by something. *)
LEMMA IncrementFact ==
    ASSUME NEW c \in Nat
    PROVE  Increment(c) \in Nat /\ Increment(c) > 0
<1>1. c \div 8 \in Nat
  OBVIOUS
<1> QED
  BY <1>1 DEF Increment

(* So the growth of list_resize ends, whatever capacity it begins with.    *)
LEMMA GrowthExists ==
    ASSUME NEW least \in Nat
    PROVE  \E f : GrowsFrom(f, least, 0)
<1> DEFINE Solved == {n \in Nat : n <= least /\ \E f : GrowsFrom(f, least, n)}
<1>1. least \in Solved
  <2> DEFINE g == [c \in Nat |-> c]
  <2>1. GrowsFrom(g, least, least)
    BY DEF GrowsFrom
  <2> HIDE DEF g
  <2> QED
    BY <2>1
<1>2. PICK n \in Solved : \A m \in Solved : n <= m
  <2>1. Solved \in SUBSET Nat /\ Solved # {}
    BY <1>1
  <2> HIDE DEF Solved
  <2> QED
    BY <2>1, LeastIn
<1>3. n \in Nat /\ n <= least
  OBVIOUS
<1>4. PICK f : GrowsFrom(f, least, n)
  OBVIOUS
<1>5. CASE n = 0
  BY <1>4, <1>5
<1>6. CASE n # 0
  <2> DEFINE g == [c \in Nat |-> IF c = n - 1 THEN f[c + Increment(c)] ELSE f[c]]
  <2>1. n - 1 \in Nat /\ n - 1 < least
    BY <1>3, <1>6
  <2>2. \A c \in Nat : c + Increment(c) \in Nat /\ c + Increment(c) > c
    BY IncrementFact
  <2>3. f \in [Nat -> Nat] /\ \A c \in Nat : c >= n => f[c] = IF c >= least THEN c ELSE f[c + Increment(c)]
    BY <1>4 DEF GrowsFrom
  <2>4. g \in [Nat -> Nat]
    BY <2>2, <2>3
  <2>5. \A c \in Nat : g[c] = IF c = n - 1 THEN f[c + Increment(c)] ELSE f[c]
    OBVIOUS
  <2> HIDE DEF g
  <2>6. \A c \in Nat : c >= n - 1 => g[c + Increment(c)] = f[c + Increment(c)]
    <3> TAKE c \in Nat
    <3> HAVE c >= n - 1
    <3>1. c + Increment(c) \in Nat /\ c + Increment(c) # n - 1
      BY <2>1, <2>2
    <3> QED
      BY <2>5, <3>1
  <2>7. \A c \in Nat : c >= n - 1 => g[c] = IF c >= least THEN c ELSE g[c + Increment(c)]
    <3> TAKE c \in Nat
    <3> HAVE c >= n - 1
    <3>1. CASE c = n - 1
      BY <2>1, <2>5, <2>6, <3>1
    <3>2. CASE c # n - 1
      <4>1. c >= n
        BY <1>3, <3>2
      <4> QED
        BY <2>3, <2>5, <2>6, <3>2, <4>1
    <3> QED
      BY <3>1, <3>2
  <2>8. GrowsFrom(g, least, n - 1)
    BY <2>4, <2>7 DEF GrowsFrom
  <2>9. n - 1 \in Solved
    BY <1>3, <2>1, <2>8
  <2> HIDE DEF Solved
  <2> QED
    BY <1>2, <1>3, <2>9
<1> QED
  BY <1>5, <1>6

(* list_resize makes at least the room it is asked for, and never less     *)
(* than there was.                                                         *)
LEMMA NewCapacityFact ==
    ASSUME NEW capacity \in Nat, NEW least \in Nat
    PROVE  /\ NewCapacity(capacity, least) \in Nat
           /\ NewCapacity(capacity, least) >= least
           /\ NewCapacity(capacity, least) >= capacity
<1> DEFINE Step(f, c) == IF c >= least THEN c ELSE f[c + c \div 8 + (IF c < 9 THEN 3 ELSE 6)]
           Is(f) == f = [c \in Nat |-> Step(f, c)]
           grown == CHOOSE f : Is(f)
<1>1. \A c \in Nat : c + Increment(c) = c + c \div 8 + (IF c < 9 THEN 3 ELSE 6)
  <2> TAKE c \in Nat
  <2>1. c \div 8 \in Nat
    OBVIOUS
  <2> QED
    BY <2>1 DEF Increment
<1>2. PICK f : GrowsFrom(f, least, 0)
  BY GrowthExists
<1>3. Is(f)
  <2>1. f = [c \in Nat |-> f[c]]
    BY <1>2 DEF GrowsFrom
  <2>2. \A c \in Nat : f[c] = IF c >= least THEN c ELSE f[c + Increment(c)]
    BY <1>2 DEF GrowsFrom
  <2>3. \A c \in Nat : f[c] = Step(f, c)
    BY <1>1, <2>2
  <2> QED
    BY <2>1, <2>3
<1>4. Is(grown)
  BY <1>3
<1>5. NewCapacity(capacity, least) = grown[capacity]
  BY DEF NewCapacity
<1>6. \A c \in Nat : grown[c] = IF c >= least THEN c ELSE grown[c + Increment(c)]
  <2> HIDE DEF grown
  <2>1. \A c \in Nat : grown[c] = Step(grown, c)
    BY <1>4
  <2> QED
    BY <1>1, <2>1
<1> HIDE DEF grown
<1> DEFINE Good(c) == grown[c] \in Nat /\ grown[c] >= least /\ grown[c] >= c
           Bad == {d \in Nat : \E c \in Nat : ~ Good(c) /\ d = least - c}
<1>7. Bad = {}
  <2>1. SUFFICES ASSUME Bad # {} PROVE FALSE
    OBVIOUS
  <2>2. PICK d \in Bad : \A e \in Bad : d <= e
    <3>1. Bad \in SUBSET Nat
      OBVIOUS
    <3> HIDE DEF Bad
    <3> QED
      BY <2>1, <3>1, LeastIn
  <2>3. PICK c \in Nat : ~ Good(c) /\ d = least - c
    OBVIOUS
  <2>4. c < least
    BY <1>6, <2>3
  <2>5. c + Increment(c) \in Nat /\ c + Increment(c) > c
    BY IncrementFact
  <2>6. ~ Good(c + Increment(c))
    BY <1>6, <2>3, <2>4, <2>5
  <2>7. c + Increment(c) < least
    BY <1>6, <2>5, <2>6
  <2>8. PICK e \in Nat : e = c + Increment(c)
    BY <2>5
  <2>9. least - e \in Bad /\ least - e < d
    BY <2>3, <2>5, <2>6, <2>7, <2>8
  <2> HIDE DEF Bad
  <2> QED
    BY <2>2, <2>3, <2>9
<1>8. Good(capacity)
  <2>1. SUFFICES ASSUME ~ Good(capacity) PROVE FALSE
    OBVIOUS
  <2>2. CASE capacity >= least
    BY <1>6, <2>1, <2>2
  <2>3. CASE capacity < least
    <3>1. least - capacity \in Nat
      BY <2>3
    <3> QED
      BY <1>7, <2>1, <3>1
  <2> QED
    BY <2>2, <2>3
<1> QED
  BY <1>5, <1>8

-----------------------------------------------------------------------------
(* The list: its items.                                                    *)

ListShape(l) ==
    /\ l = [items |-> l.items, count |-> l.count, capacity |-> l.capacity]
    /\ l.capacity \in Nat /\ l.count \in 0 .. l.capacity
    /\ l.items = [i \in 0 .. l.capacity - 1 |-> l.items[i]]

(* list_append adds one item, and leaves all others where they are.        *)
LEMMA ListAppendEffect ==
    ASSUME NEW l, ListShape(l), NEW x
    PROVE  /\ ListShape(ListAppend(l, x))
           /\ ListAppend(l, x).count = l.count + 1
           /\ ListAppend(l, x).items[l.count] = x
           /\ \A i \in 0 .. l.count - 1 : ListAppend(l, x).items[i] = l.items[i]
<1> DEFINE room == IF l.count >= l.capacity THEN ListResize(l, l.count + 1) ELSE l
<1>1. l.capacity \in Nat /\ l.count \in Nat /\ l.count <= l.capacity
  BY DEF ListShape
<1>2. /\ room = [items |-> room.items, count |-> l.count, capacity |-> room.capacity]
      /\ room.capacity \in Nat /\ l.count < room.capacity
      /\ room.items = [i \in 0 .. room.capacity - 1 |-> room.items[i]]
      /\ \A i \in 0 .. l.count - 1 : room.items[i] = l.items[i]
  <2>1. CASE l.count >= l.capacity
    <3>1. PICK c : c = NewCapacity(l.capacity, l.count + 1)
      OBVIOUS
    <3> DEFINE d == [i \in 0 .. c - 1 |-> IF i < l.capacity THEN l.items[i] ELSE Junk]
    <3>2. c \in Nat /\ c >= l.count + 1
      <4>1. l.count + 1 \in Nat
        BY <1>1
      <4> QED
        BY <1>1, <3>1, <4>1, NewCapacityFact
    <3>3. room = [l EXCEPT !.capacity = c, !.items = d]
      BY <2>1, <3>1 DEF ListResize
    <3>4. d = [i \in 0 .. c - 1 |-> d[i]] /\ \A i \in 0 .. l.count - 1 : d[i] = l.items[i]
      <4>1. \A i \in 0 .. l.count - 1 : i \in 0 .. c - 1 /\ i < l.capacity
        BY <1>1, <3>2
      <4> QED
        BY <4>1
    <3> HIDE DEF d, room
    <3>5. room = [items |-> d, count |-> l.count, capacity |-> c]
      BY <3>3 DEF ListShape
    <3>6. l.count < c
      BY <1>1, <3>2
    <3> QED
      BY <3>2, <3>4, <3>5, <3>6
  <2>2. CASE ~ (l.count >= l.capacity)
    BY <1>1, <2>2 DEF ListShape
  <2> QED
    BY <2>1, <2>2
<1>3. ListAppend(l, x) = [room EXCEPT !.items[l.count] = x, !.count = l.count + 1]
  BY DEF ListAppend
<1> HIDE DEF room
<1> DEFINE e == [room.items EXCEPT ![l.count] = x]
<1>4. ListAppend(l, x) = [items |-> e, count |-> l.count + 1, capacity |-> room.capacity]
  BY <1>2, <1>3
<1>5. l.count \in 0 .. room.capacity - 1
      /\ \A i \in 0 .. l.count - 1 : i \in 0 .. room.capacity - 1 /\ i # l.count
  BY <1>1, <1>2
<1>6. /\ e = [i \in 0 .. room.capacity - 1 |-> e[i]]
      /\ e[l.count] = x /\ \A i \in 0 .. l.count - 1 : e[i] = l.items[i]
  BY <1>2, <1>5
<1> HIDE DEF e
<1>7. l.count + 1 \in 0 .. room.capacity
  BY <1>1, <1>2
<1>8. PICK q : q = ListAppend(l, x)
  OBVIOUS
<1>9. /\ q = [items |-> q.items, count |-> q.count, capacity |-> q.capacity]
      /\ q.items = e /\ q.count = l.count + 1 /\ q.capacity = room.capacity
  BY <1>4, <1>8
<1>10. ListShape(q)
  BY <1>2, <1>6, <1>7, <1>9 DEF ListShape
<1>11. q.count = l.count + 1 /\ q.items[l.count] = x
       /\ \A i \in 0 .. l.count - 1 : q.items[i] = l.items[i]
  BY <1>6, <1>9
<1> QED
  BY <1>8, <1>10, <1>11

(* list_remove_index moves what is behind the item by one.                 *)
LEMMA ListRemoveEffect ==
    ASSUME NEW l, ListShape(l), NEW i \in Nat, i < l.count
    PROVE  /\ ListShape(ListRemoved(l, i))
           /\ ListRemoved(l, i).count = l.count - 1
           /\ \A j \in 0 .. l.count - 2 :
                 ListRemoved(l, i).items[j] = IF j < i THEN l.items[j] ELSE l.items[j + 1]
<1> DEFINE e == [j \in DOMAIN l.items |->
                   IF i <= j /\ j < l.count - 1 THEN l.items[j + 1] ELSE l.items[j]]
<1>1. /\ l.capacity \in Nat /\ l.count \in Nat /\ l.count <= l.capacity
      /\ DOMAIN l.items = 0 .. l.capacity - 1
  BY DEF ListShape
<1>2. \A j \in 0 .. l.count - 2 : j \in DOMAIN l.items /\ j < l.count - 1
  BY <1>1
<1>3. \A j \in 0 .. l.count - 2 : e[j] = IF j < i THEN l.items[j] ELSE l.items[j + 1]
  BY <1>2
<1>4. e = [j \in 0 .. l.capacity - 1 |-> e[j]]
  BY <1>1
<1>5. ListRemoved(l, i) = [l EXCEPT !.items = e, !.count = @ - 1]
  BY DEF ListRemoved
<1> HIDE DEF e
<1>6. ListRemoved(l, i) = [items |-> e, count |-> l.count - 1, capacity |-> l.capacity]
  BY <1>5 DEF ListShape
<1>7. l.count - 1 \in 0 .. l.capacity
  BY <1>1
<1>8. PICK q : q = ListRemoved(l, i)
  OBVIOUS
<1>9. /\ q = [items |-> q.items, count |-> q.count, capacity |-> q.capacity]
      /\ q.items = e /\ q.count = l.count - 1 /\ q.capacity = l.capacity
  BY <1>6, <1>8
<1>10. ListShape(q)
  BY <1>1, <1>4, <1>7, <1>9 DEF ListShape
<1>11. q.count = l.count - 1
       /\ \A j \in 0 .. l.count - 2 : q.items[j] = IF j < i THEN l.items[j] ELSE l.items[j + 1]
  BY <1>3, <1>9
<1> QED
  BY <1>8, <1>10, <1>11

ItemsOf(l) == [i \in 1 .. l.count |-> l.items[i - 1]]

(* What is on a list is a sequence.                                        *)
LEMMA ItemsOfFact ==
    ASSUME NEW l, ListShape(l), NEW S, \A i \in 0 .. l.count - 1 : l.items[i] \in S
    PROVE  /\ ItemsOf(l) \in Seq(S) /\ Len(ItemsOf(l)) = l.count
           /\ \A i \in 1 .. l.count : ItemsOf(l)[i] = l.items[i - 1]
<1>1. l.count \in Nat
  BY DEF ListShape
<1>2. \A i \in 1 .. l.count : i - 1 \in 0 .. l.count - 1
  BY <1>1
<1>3. ItemsOf(l) \in [1 .. l.count -> S]
  BY <1>2 DEF ItemsOf
<1> QED
  BY <1>1, <1>3, SequenceOfLength DEF ItemsOf

(* list_append is Append. *)
LEMMA AppendItems ==
    ASSUME NEW l, ListShape(l), NEW x
    PROVE  ItemsOf(ListAppend(l, x)) = Append(ItemsOf(l), x)
<1>1. PICK m : m = ListAppend(l, x)
  OBVIOUS
<1>2. /\ ListShape(m) /\ m.count = l.count + 1 /\ m.items[l.count] = x
      /\ \A i \in 0 .. l.count - 1 : m.items[i] = l.items[i]
  BY <1>1, ListAppendEffect
<1>3. l.count \in Nat
  BY DEF ListShape
<1> DEFINE S == {m.items[i] : i \in 0 .. l.count}
<1>4. x \in S /\ \A i \in 0 .. l.count : m.items[i] \in S
  BY <1>2, <1>3
<1>5. \A i \in 0 .. l.count - 1 : l.items[i] \in S
  BY <1>2, <1>3, <1>4
<1> HIDE DEF S
<1>6. /\ ItemsOf(l) \in Seq(S) /\ Len(ItemsOf(l)) = l.count
      /\ \A i \in 1 .. l.count : ItemsOf(l)[i] = l.items[i - 1]
  BY <1>5, ItemsOfFact
<1>7. /\ ItemsOf(m) \in Seq(S) /\ Len(ItemsOf(m)) = l.count + 1
      /\ \A i \in 1 .. l.count + 1 : ItemsOf(m)[i] = m.items[i - 1]
  <2>1. \A i \in 0 .. m.count - 1 : m.items[i] \in S
    BY <1>2, <1>3, <1>4
  <2> QED
    BY <1>2, <2>1, ItemsOfFact
<1>8. PICK a : a = Append(ItemsOf(l), x)
  OBVIOUS
<1>9. /\ a \in Seq(S) /\ Len(a) = l.count + 1 /\ a[l.count + 1] = x
      /\ \A i \in 1 .. l.count : a[i] = ItemsOf(l)[i]
  BY <1>4, <1>6, <1>8, AppendProperties
<1>10. \A i \in 1 .. l.count + 1 : ItemsOf(m)[i] = a[i]
  <2> TAKE i \in 1 .. l.count + 1
  <2>1. CASE i = l.count + 1
    <3>1. i - 1 = l.count
      BY <1>3, <2>1
    <3> QED
      BY <1>2, <1>7, <1>9, <2>1, <3>1
  <2>2. CASE i # l.count + 1
    <3>1. i \in 1 .. l.count /\ i - 1 \in 0 .. l.count - 1
      BY <1>3, <2>2
    <3> QED
      BY <1>2, <1>6, <1>7, <1>9, <3>1
  <2> QED
    BY <2>1, <2>2
<1>11. ItemsOf(m) = a
  BY <1>7, <1>9, <1>10, SeqEqual
<1> QED
  BY <1>1, <1>8, <1>11

(* list_remove_index takes one item out. *)
LEMMA RemoveItems ==
    ASSUME NEW l, ListShape(l), NEW i \in Nat, i < l.count
    PROVE  ItemsOf(ListRemoved(l, i)) = Without(ItemsOf(l), i + 1)
<1>1. PICK m : m = ListRemoved(l, i)
  OBVIOUS
<1>2. PICK n : n = l.count
  OBVIOUS
<1>3. /\ ListShape(m) /\ m.count = n - 1 /\ n \in Nat /\ i < n
      /\ \A j \in 0 .. n - 2 : m.items[j] = IF j < i THEN l.items[j] ELSE l.items[j + 1]
  <2>1. n \in Nat
    BY <1>2 DEF ListShape
  <2> QED
    BY <1>1, <1>2, <2>1, ListRemoveEffect
<1> DEFINE S == {l.items[j] : j \in 0 .. n - 1}
           s == ItemsOf(l)
           t == ItemsOf(m)
           a == SubSeq(s, 1, i)
           b == SubSeq(s, i + 2, n)
           u == a \o b
<1>4. \A j \in 0 .. n - 1 : l.items[j] \in S
  OBVIOUS
<1> HIDE DEF S
<1>5. s \in Seq(S) /\ Len(s) = n /\ \A j \in 1 .. n : s[j] = l.items[j - 1]
  BY <1>2, <1>4, ItemsOfFact
<1>6. t \in Seq(S) /\ Len(t) = n - 1 /\ \A j \in 1 .. n - 1 : t[j] = m.items[j - 1]
  <2>1. \A j \in 0 .. n - 2 : j \in 0 .. n - 1 /\ j + 1 \in 0 .. n - 1
    BY <1>3
  <2>2. \A j \in 0 .. n - 2 : m.items[j] \in S
    BY <1>3, <1>4, <2>1
  <2>3. m.count - 1 = n - 2
    BY <1>3
  <2> QED
    BY <1>3, <2>2, <2>3, ItemsOfFact
<1> HIDE DEF s, t
<1>7. \A j \in 1 .. n : s[j] \in S
  BY <1>5, ElementOfSeq
<1>8. a \in Seq(S) /\ Len(a) = i /\ \A j \in 1 .. i : a[j] = s[j]
  <2>1. \A j \in 1 .. i : s[j] \in S
    BY <1>3, <1>7
  <2>2. /\ a \in Seq(S) /\ Len(a) = IF 1 <= i THEN i - 1 + 1 ELSE 0
        /\ \A j \in 1 .. i - 1 + 1 : a[j] = s[1 + j - 1]
    BY <2>1, SubSeqProperties
  <2> HIDE DEF a
  <2>3. \A j \in 1 .. i : j \in 1 .. i - 1 + 1 /\ 1 + j - 1 = j
    OBVIOUS
  <2> QED
    BY <2>2, <2>3
<1>9. b \in Seq(S) /\ Len(b) = n - 1 - i /\ \A j \in 1 .. n - 1 - i : b[j] = s[i + 1 + j]
  <2>1. PICK k \in Nat : k = i + 2
    OBVIOUS
  <2>2. \A j \in k .. n : s[j] \in S
    BY <1>3, <1>7, <2>1
  <2>3. /\ SubSeq(s, k, n) \in Seq(S) /\ Len(SubSeq(s, k, n)) = IF k <= n THEN n - k + 1 ELSE 0
        /\ \A j \in 1 .. n - k + 1 : SubSeq(s, k, n)[j] = s[k + j - 1]
    BY <1>3, <2>2, SubSeqProperties
  <2>4. b = SubSeq(s, k, n)
    BY <2>1
  <2> HIDE DEF b
  <2>5. Len(b) = n - 1 - i
    BY <1>3, <2>1, <2>3, <2>4
  <2>6. \A j \in 1 .. n - 1 - i : j \in 1 .. n - k + 1 /\ k + j - 1 = i + 1 + j
    BY <1>3, <2>1
  <2> QED
    BY <2>3, <2>4, <2>5, <2>6
<1>10. Without(s, i + 1) = u
  <2>1. PICK k : k = i + 1
    OBVIOUS
  <2>2. k - 1 = i /\ k + 1 = i + 2
    BY <2>1
  <2>3. Without(s, k) = SubSeq(s, 1, k - 1) \o SubSeq(s, k + 1, Len(s))
    BY DEF Without
  <2>4. SubSeq(s, 1, k - 1) = a /\ SubSeq(s, k + 1, Len(s)) = b
    BY <1>5, <2>2
  <2> HIDE DEF a, b
  <2> QED
    BY <2>1, <2>3, <2>4
<1> HIDE DEF a, b
<1>11. /\ u \in Seq(S) /\ Len(u) = Len(a) + Len(b)
       /\ \A j \in 1 .. Len(a) + Len(b) : u[j] = IF j <= Len(a) THEN a[j] ELSE b[j - Len(a)]
  BY <1>8, <1>9, ConcatProperties
<1> HIDE DEF u
<1>12. Len(a) + Len(b) = n - 1
  BY <1>3, <1>8, <1>9
<1>13. \A j \in 1 .. n - 1 : t[j] = u[j]
  <2> TAKE j \in 1 .. n - 1
  <2>1. j \in 1 .. n /\ j + 1 \in 1 .. n /\ j - 1 \in 0 .. n - 2
    BY <1>3
  <2>2. CASE j <= i
    <3>1. j \in 1 .. i /\ j - 1 < i
      BY <1>3, <2>2
    <3>2. u[j] = s[j]
      BY <1>8, <1>11, <1>12, <3>1, <2>2
    <3>3. t[j] = l.items[j - 1]
      BY <1>3, <1>6, <2>1, <3>1
    <3> QED
      BY <1>5, <2>1, <3>2, <3>3
  <2>3. CASE ~ (j <= i)
    <3>1. j - i \in 1 .. n - 1 - i /\ ~ (j - 1 < i) /\ i + 1 + (j - i) = j + 1 /\ j - 1 + 1 = j
          /\ j + 1 - 1 = j
      BY <1>3, <2>3
    <3>2. u[j] = b[j - i]
      BY <1>8, <1>11, <1>12, <2>3
    <3>3. b[j - i] = s[j + 1]
      BY <1>9, <3>1
    <3>4. t[j] = l.items[j]
      BY <1>3, <1>6, <2>1, <3>1
    <3>5. s[j + 1] = l.items[j]
      BY <1>5, <2>1, <3>1
    <3> QED
      BY <3>2, <3>3, <3>4, <3>5
  <2> QED
    BY <2>2, <2>3
<1>14. t = u
  BY <1>6, <1>11, <1>12, <1>13, SeqEqual
<1> QED
  BY <1>1, <1>10, <1>14 DEF s, t

(* The list is always a list. *)
LEMMA ListInvariant == ListSpec => []ListShape(list)
<1>1. ListInit => ListShape(list)
  BY ListAssumption DEF ListInit, ListAlloc, ListShape
<1>2. ASSUME ListShape(list), [ListNext]_list PROVE ListShape(list)'
  <2>1. ASSUME NEW x \in Items, AppendItem(x) PROVE ListShape(list)'
    BY <1>2, <2>1, ListAppendEffect DEF AppendItem
  <2>2. ASSUME NEW i \in 0 .. MaxItems, RemoveItem(i) PROVE ListShape(list)'
    <3>1. i \in Nat
      BY ListAssumption
    <3> QED
      BY <1>2, <2>2, <3>1, ListRemoveEffect DEF RemoveItem
  <2>3. ASSUME NEW i \in 0 .. MaxItems, RemoveNothing(i) PROVE ListShape(list)'
    BY <1>2, <2>3 DEF RemoveNothing, ListShape
  <2>4. CASE UNCHANGED list
    BY <1>2, <2>4 DEF ListShape
  <2> QED
    BY <1>2, <2>1, <2>2, <2>3, <2>4 DEF ListNext
<1>3. ListShape(list) /\ [ListNext]_list => ListShape(list)'
  BY <1>2
<1> QED
  BY <1>1, <1>3, PTL DEF ListSpec

(* list.c is a sequence: list_append puts an item at its end,              *)
(* list_remove_index takes one out, and no growth and no move of the cells *)
(* is seen.                                                                *)
THEOREM ListIsASequence == ListSpec => ListIsSequence
<1> DEFINE A == /\ \A x \in Items : AppendItem(x) => AsSequence' = Append(AsSequence, x)
                /\ \A i \in 0 .. MaxItems : RemoveItem(i) => AsSequence' = Without(AsSequence, i + 1)
<1>1. ASSUME ListShape(list) PROVE A
  <2>1. AsSequence = ItemsOf(list) /\ AsSequence' = ItemsOf(list')
    BY DEF AsSequence, ItemsOf
  <2>2. ASSUME NEW x \in Items, AppendItem(x)
        PROVE  AsSequence' = Append(AsSequence, x)
    BY <1>1, <2>1, <2>2, AppendItems DEF AppendItem
  <2>3. ASSUME NEW i \in 0 .. MaxItems, RemoveItem(i)
        PROVE  AsSequence' = Without(AsSequence, i + 1)
    <3>1. i \in Nat
      BY ListAssumption
    <3> QED
      BY <1>1, <2>1, <2>3, <3>1, RemoveItems DEF RemoveItem
  <2> QED
    BY <2>2, <2>3
<1>2. ListShape(list) /\ [ListNext]_list => [A]_list
  BY <1>1
<1> QED
  BY <1>2, ListInvariant, PTL DEF ListSpec, ListIsSequence

-----------------------------------------------------------------------------
(* The dictionary: the order of a search.                                  *)

(* A remainder is one: division leaves less than the divisor.              *)
LEMMA RemainderFacts ==
    ASSUME NEW n \in Nat \ {0}, NEW h \in Nat
    PROVE  h \div n \in Nat /\ h % n \in 0 .. n - 1 /\ h = (n * (h \div n)) + (h % n)
  OBVIOUS

(* And it is the only one. *)
LEMMA RemainderIs ==
    ASSUME NEW n \in Nat \ {0}, NEW q \in Nat, NEW b \in 0 .. n - 1
    PROVE  (n * q + b) % n = b
  OBVIOUS

(* Going on from h, n steps come by everything there is, and the last is   *)
(* back at the first.                                                      *)
LEMMA OnceAround ==
    ASSUME NEW n \in Nat \ {0}, NEW h \in Nat
    PROVE  /\ \A i \in Nat : (h + i) % n \in 0 .. n - 1
           /\ (h + n) % n = (h + 0) % n
           /\ \A b \in 0 .. n - 1 : \E i \in 0 .. n - 1 : (h + i) % n = b
<1>1. PICK q \in Nat, r \in 0 .. n - 1 : h = n * q + r
  BY RemainderFacts
<1>2. n * (q + 1) = n * q + n
  OBVIOUS
<1>3. ASSUME NEW b \in 0 .. n - 1
      PROVE  \E i \in 0 .. n - 1 : (h + i) % n = b
  <2>1. CASE b >= r
    <3>1. b - r \in 0 .. n - 1 /\ h + (b - r) = n * q + b
      BY <1>1, <2>1
    <3>2. (n * q + b) % n = b
      BY RemainderIs
    <3> QED
      BY <3>1, <3>2
  <2>2. CASE b < r
    <3>1. b - r + n \in 0 .. n - 1 /\ h + (b - r + n) = n * (q + 1) + b
      BY <1>1, <1>2, <2>2
    <3>2. (n * (q + 1) + b) % n = b
      BY RemainderIs
    <3> QED
      BY <3>1, <3>2
  <2> QED
    BY <2>1, <2>2
<1>4. (h + n) % n = (h + 0) % n
  <2>1. h + n = n * (q + 1) + r /\ h + 0 = n * q + r
    BY <1>1, <1>2
  <2>2. (n * (q + 1) + r) % n = r /\ (n * q + r) % n = r
    BY RemainderIs
  <2> QED
    BY <2>1, <2>2
<1>5. ASSUME NEW i \in Nat PROVE (h + i) % n \in 0 .. n - 1
  <2>1. h + i \in Nat
    OBVIOUS
  <2> QED
    BY <2>1, RemainderFacts
<1> QED
  BY <1>3, <1>4, <1>5

(* K tells the key of every entry.                                         *)
DictShape(K, d) ==
    /\ d = [bins |-> d.bins, capacity |-> d.capacity, count |-> d.count]
    /\ d.capacity \in Nat \ {0}
    /\ d.bins = [b \in 0 .. d.capacity - 1 |-> d.bins[b]]
    /\ \A b \in 0 .. d.capacity - 1 : d.bins[b] \in {EMPTY, TOMBSTONE} \cup DOMAIN K
    /\ DOMAIN K \subseteq Nat

Taken(d) == {b \in 0 .. d.capacity - 1 : d.bins[b] >= 0}

StopsK(K, d, k, i) ==
    LET b == Bin(d, k, i) IN d.bins[b] = EMPTY \/ (d.bins[b] >= 0 /\ K[d.bins[b]] = k)

EndK(K, d, k) ==
    CHOOSE e \in 0 .. d.capacity :
       (e = d.capacity \/ StopsK(K, d, k, e)) /\ \A i \in 0 .. e - 1 : ~ StopsK(K, d, k, i)

FirstTomb(d, k, end) ==
    CHOOSE t \in 0 .. end : (t = end \/ IsTomb(d, k, t)) /\ \A i \in 0 .. t - 1 : ~ IsTomb(d, k, i)

BinK(K, d, k) ==
    LET end == EndK(K, d, k) IN
    IF d.bins[Bin(d, k, end)] >= 0 /\ end < d.capacity THEN Bin(d, k, end)
    ELSE Bin(d, k, FirstTomb(d, k, end))

(* The bins of a search.                                                   *)
LEMMA Probes ==
    ASSUME NEW K, NEW d, DictShape(K, d), NEW k \in Keys
    PROVE  /\ \A i \in Nat : Bin(d, k, i) \in 0 .. d.capacity - 1
           /\ Bin(d, k, d.capacity) = Bin(d, k, 0)
           /\ \A b \in 0 .. d.capacity - 1 : \E i \in 0 .. d.capacity - 1 : Bin(d, k, i) = b
<1>1. Hash[k] \in Nat
  BY DictAssumption
<1>2. d.capacity \in Nat \ {0}
  BY DEF DictShape
<1> QED
  BY <1>1, <1>2, OnceAround DEF Bin

(* The search for a key finds it in the first bin that holds it, if no     *)
(* EMPTY one comes before.                                                 *)
LEMMA SearchHits ==
    ASSUME NEW K, NEW d, DictShape(K, d), NEW k \in Keys, NEW i \in 0 .. d.capacity - 1,
           d.bins[Bin(d, k, i)] >= 0, K[d.bins[Bin(d, k, i)]] = k,
           \A j \in 0 .. i - 1 : ~ StopsK(K, d, k, j)
    PROVE  BinK(K, d, k) = Bin(d, k, i)
<1>1. d.capacity \in Nat /\ i \in 0 .. d.capacity /\ i < d.capacity
  BY DEF DictShape
<1>2. StopsK(K, d, k, i)
  BY DEF StopsK
<1>3. \A e \in 0 .. d.capacity :
         (e = d.capacity \/ StopsK(K, d, k, e)) /\ (\A j \in 0 .. e - 1 : ~ StopsK(K, d, k, j))
           => e = i
  <2> TAKE e \in 0 .. d.capacity
  <2>1. e < i => e \in 0 .. i - 1 /\ e # d.capacity
    BY <1>1
  <2>2. i < e => i \in 0 .. e - 1
    BY <1>1
  <2> QED
    BY <1>1, <1>2, <2>1, <2>2
<1>4. EndK(K, d, k) = i
  BY <1>1, <1>2, <1>3 DEF EndK
<1> QED
  BY <1>1, <1>4 DEF BinK

(* Where the search for a key that has no bin ends: at the first bin that  *)
(* is not in use.                                                          *)
LEMMA SearchMisses ==
    ASSUME NEW K, NEW d, DictShape(K, d), NEW k \in Keys,
           \A b \in Taken(d) : K[d.bins[b]] # k,
           NEW m \in 0 .. d.capacity - 1, d.bins[Bin(d, k, m)] < 0,
           \A j \in 0 .. m - 1 : d.bins[Bin(d, k, j)] >= 0
    PROVE  BinK(K, d, k) = Bin(d, k, m)
<1> DEFINE n == d.capacity
<1>1. n \in Nat /\ m < n /\ m \in Nat
  BY DEF DictShape
<1> HIDE DEF n
<1>2. \A j \in 0 .. n - 1 : Bin(d, k, j) \in 0 .. n - 1
  <2>1. \A j \in 0 .. n - 1 : j \in Nat
    BY <1>1
  <2> QED
    BY <2>1, Probes DEF n
<1>3. \A j \in 0 .. n - 1 : StopsK(K, d, k, j) <=> d.bins[Bin(d, k, j)] = EMPTY
  BY <1>2 DEF StopsK, Taken, n
<1>4. \A j \in 0 .. m - 1 : ~ StopsK(K, d, k, j) /\ ~ IsTomb(d, k, j)
  <2>1. \A j \in 0 .. m - 1 : j \in 0 .. n - 1
    BY <1>1
  <2> QED
    BY <1>3, <2>1 DEF IsTomb, EMPTY, TOMBSTONE
<1> DEFINE Ends == {e \in 0 .. n : e = n \/ StopsK(K, d, k, e)}
<1>5. \E e \in Ends : \A f \in Ends : e <= f
  <2>1. Ends \in SUBSET Nat /\ n \in Ends
    BY <1>1
  <2> HIDE DEF Ends
  <2> QED
    BY <2>1, LeastIn
<1>6. \E e \in 0 .. n : (e = n \/ StopsK(K, d, k, e)) /\ \A i \in 0 .. e - 1 : ~ StopsK(K, d, k, i)
  <2>1. PICK e \in Ends : \A f \in Ends : e <= f
    BY <1>5
  <2>2. \A i \in 0 .. e - 1 : i \in 0 .. n /\ ~ (e <= i)
    BY <1>1
  <2> QED
    BY <2>1, <2>2
<1>7. PICK end : end = EndK(K, d, k)
  OBVIOUS
<1>8. /\ end \in 0 .. n /\ (end = n \/ StopsK(K, d, k, end))
      /\ \A i \in 0 .. end - 1 : ~ StopsK(K, d, k, i)
  BY <1>6, <1>7 DEF EndK, n
<1>9. m <= end
  <2>1. end < m => end \in 0 .. m - 1 /\ end # n
    BY <1>1, <1>8
  <2> QED
    BY <1>1, <1>4, <1>8, <2>1
<1>10. ~ (d.bins[Bin(d, k, end)] >= 0 /\ end < n)
  <2>1. end < n => end \in 0 .. n - 1 /\ d.bins[Bin(d, k, end)] = EMPTY
    BY <1>1, <1>3, <1>8
  <2> QED
    BY <2>1 DEF EMPTY
<1>11. m = end \/ IsTomb(d, k, m)
  <2>1. d.bins[Bin(d, k, m)] \in {EMPTY, TOMBSTONE}
    <3>1. Bin(d, k, m) \in 0 .. n - 1
      BY <1>2 DEF n
    <3>2. d.bins[Bin(d, k, m)] \in {EMPTY, TOMBSTONE} \cup DOMAIN K /\ DOMAIN K \subseteq Nat
      BY <3>1 DEF DictShape, n
    <3>3. \A x \in Nat : ~ (x < 0)
      OBVIOUS
    <3> QED
      BY <3>2, <3>3
  <2>2. ASSUME d.bins[Bin(d, k, m)] = EMPTY PROVE m = end
    <3>1. StopsK(K, d, k, m)
      BY <2>2 DEF StopsK
    <3>2. m < end => m \in 0 .. end - 1
      BY <1>1, <1>8
    <3> QED
      BY <1>1, <1>8, <1>9, <3>1, <3>2
  <2> QED
    BY <2>1, <2>2 DEF IsTomb
<1>12. \A t \in 0 .. end : (t = end \/ IsTomb(d, k, t)) /\ (\A i \in 0 .. t - 1 : ~ IsTomb(d, k, i))
                            => t = m
  <2> TAKE t \in 0 .. end
  <2>1. t < m => t \in 0 .. m - 1 /\ t # end
    BY <1>1, <1>8, <1>9
  <2>2. m < t => m \in 0 .. t - 1 /\ m # end
    BY <1>1, <1>8
  <2> QED
    BY <1>1, <1>4, <1>8, <1>11, <2>1, <2>2
<1>13. FirstTomb(d, k, end) = m
  <2>1. m \in 0 .. end
    BY <1>1, <1>8, <1>9
  <2> QED
    BY <1>4, <1>11, <1>12, <2>1 DEF FirstTomb
<1> QED
  BY <1>7, <1>10, <1>13 DEF BinK, n

-----------------------------------------------------------------------------
(* The dictionary: the bins.                                               *)

OneBinEach(K, d) == \A b, c \in Taken(d) : K[d.bins[b]] = K[d.bins[c]] => b = c

(* The search for the key of a bin comes to the bin. *)
Reached(K, d, b) ==
    \E i \in 0 .. d.capacity - 1 :
       /\ Bin(d, K[d.bins[b]], i) = b
       /\ \A j \in 0 .. i - 1 : ~ StopsK(K, d, K[d.bins[b]], j)

DictGood(K, d) ==
    /\ DictShape(K, d)
    /\ \A e \in DOMAIN K : K[e] \in Keys
    /\ OneBinEach(K, d)
    /\ \A b \in Taken(d) : Reached(K, d, b)

Free(d, k, m) ==
    /\ m \in 0 .. d.capacity - 1 /\ d.bins[Bin(d, k, m)] < 0
    /\ \A j \in 0 .. m - 1 : d.bins[Bin(d, k, j)] >= 0

(* A bin holds an entry, or a negative number.                             *)
LEMMA BinContent ==
    ASSUME NEW K, NEW d, DictShape(K, d), NEW b \in 0 .. d.capacity - 1
    PROVE  /\ b \in Taken(d) => d.bins[b] \in DOMAIN K /\ d.bins[b] \in Nat
           /\ b \notin Taken(d) => d.bins[b] \in {EMPTY, TOMBSTONE} /\ d.bins[b] < 0
<1>1. d.bins[b] \in {EMPTY, TOMBSTONE} \cup DOMAIN K /\ DOMAIN K \subseteq Nat
  BY DEF DictShape
<1>2. b \in Taken(d) <=> d.bins[b] >= 0
  BY DEF Taken
<1>3. \A x \in Nat : x >= 0
  OBVIOUS
<1>4. EMPTY < 0 /\ TOMBSTONE < 0 /\ ~ (EMPTY >= 0) /\ ~ (TOMBSTONE >= 0)
  BY DEF EMPTY, TOMBSTONE
<1> QED
  BY <1>1, <1>2, <1>3, <1>4

(* The search for a key that a bin holds ends there.                       *)
LEMMA FoundWhereItIs ==
    ASSUME NEW K, NEW d, DictGood(K, d), NEW b \in Taken(d)
    PROVE  K[d.bins[b]] \in Keys /\ BinK(K, d, K[d.bins[b]]) = b
<1>1. DictShape(K, d) /\ b \in 0 .. d.capacity - 1 /\ d.bins[b] >= 0
  BY DEF DictGood, Taken
<1>2. PICK k : k = K[d.bins[b]]
  OBVIOUS
<1>3. k \in Keys
  BY <1>1, <1>2, BinContent DEF DictGood
<1>4. Reached(K, d, b)
  BY DEF DictGood
<1>5. PICK i \in 0 .. d.capacity - 1 :
         Bin(d, k, i) = b /\ \A j \in 0 .. i - 1 : ~ StopsK(K, d, k, j)
  BY <1>2, <1>4 DEF Reached
<1>6. BinK(K, d, k) = Bin(d, k, i)
  BY <1>1, <1>2, <1>3, <1>5, SearchHits
<1> QED
  BY <1>2, <1>3, <1>5, <1>6

(* If not all bins are in use, every search has a first that is not.       *)
LEMMA FreeExists ==
    ASSUME NEW K, NEW d, DictShape(K, d), NEW k \in Keys, Cardinality(Taken(d)) < d.capacity
    PROVE  \E m : Free(d, k, m)
<1> DEFINE n == d.capacity
           H == {i \in 0 .. n - 1 : d.bins[Bin(d, k, i)] < 0}
<1>1. n \in Nat
  BY DEF DictShape
<1>2. PICK b \in 0 .. n - 1 : b \notin Taken(d)
  <2>1. ASSUME \A b \in 0 .. n - 1 : b \in Taken(d) PROVE FALSE
    <3>1. Taken(d) = 0 .. n - 1
      BY <2>1 DEF Taken
    <3>2. Cardinality(0 .. n - 1) = n
      BY <1>1, FS_Interval
    <3> QED
      BY <1>1, <3>1, <3>2
  <2> QED
    BY <2>1
<1>3. PICK i \in 0 .. n - 1 : Bin(d, k, i) = b
  BY Probes
<1>4. i \in H
  BY <1>2, <1>3, BinContent
<1>5. H \in SUBSET Nat
  BY <1>1
<1>6. PICK m \in H : \A j \in H : m <= j
  <2> HIDE DEF H
  <2> QED
    BY <1>4, <1>5, LeastIn
<1>7. ASSUME NEW j \in 0 .. m - 1 PROVE d.bins[Bin(d, k, j)] >= 0
  <2>1. m \in 0 .. n - 1
    OBVIOUS
  <2>2. j \in 0 .. n - 1 /\ j \in Nat /\ ~ (m <= j)
    BY <1>1, <2>1
  <2>3. j \notin H
    BY <1>6, <2>2
  <2>4. Bin(d, k, j) \in 0 .. n - 1
    BY <2>2, Probes
  <2>5. d.bins[Bin(d, k, j)] < 0 \/ Bin(d, k, j) \in Taken(d)
    BY <2>4, BinContent
  <2> QED
    BY <2>2, <2>3, <2>5 DEF Taken
<1> QED
  BY <1>6, <1>7 DEF Free

(* p has e in r, a bin that d had not in use. *)
Filled(d, p, r, e) ==
    /\ r \in 0 .. d.capacity - 1 /\ r \notin Taken(d) /\ Taken(p) = Taken(d) \cup {r}
    /\ p.bins[r] = e /\ \A b \in Taken(d) : p.bins[b] = d.bins[b]

(* An entry of a key that has no bin is put in the first free one of the   *)
(* search.                                                                 *)
LEMMA PlaceGood ==
    ASSUME NEW K, NEW d, DictGood(K, d), NEW e \in DOMAIN K,
           \A b \in Taken(d) : K[d.bins[b]] # K[e],
           NEW r, \E m : Free(d, K[e], m) /\ r = Bin(d, K[e], m),
           NEW p, p = [bins |-> p.bins, capacity |-> d.capacity, count |-> p.count],
           p.bins = [d.bins EXCEPT ![r] = e]
    PROVE  DictGood(K, p) /\ Filled(d, p, r, e)
<1> DEFINE n == d.capacity
           k == K[e]
<1>1. /\ DictShape(K, d) /\ k \in Keys /\ n \in Nat
      /\ d.bins = [b \in 0 .. n - 1 |-> d.bins[b]] /\ DOMAIN K \subseteq Nat
  BY DEF DictGood, DictShape
<1>2. PICK m : Free(d, k, m) /\ r = Bin(d, k, m)
  OBVIOUS
<1>3. /\ m \in 0 .. n - 1 /\ m \in Nat /\ r = Bin(d, k, m) /\ d.bins[r] < 0
      /\ \A j \in 0 .. m - 1 : d.bins[Bin(d, k, j)] >= 0
  <2>1. /\ m \in 0 .. n - 1 /\ d.bins[Bin(d, k, m)] < 0
        /\ \A j \in 0 .. m - 1 : d.bins[Bin(d, k, j)] >= 0
    BY <1>2 DEF Free
  <2>2. m \in Nat
    BY <1>1, <2>1
  <2> QED
    BY <1>2, <2>1, <2>2
<1>4. r \in 0 .. n - 1
  BY <1>1, <1>3, Probes
<1>5. r \notin Taken(d)
  <2>1. d.bins[r] \in Int
    <3>1. d.bins[r] \in Nat \/ d.bins[r] \in {EMPTY, TOMBSTONE}
      BY <1>1, <1>4, BinContent
    <3> QED
      BY <3>1 DEF EMPTY, TOMBSTONE
  <2> QED
    BY <1>3, <2>1 DEF Taken
<1>6. /\ p = [bins |-> p.bins, capacity |-> p.capacity, count |-> p.count]
      /\ p.capacity = n /\ p.bins = [b \in 0 .. n - 1 |-> IF b = r THEN e ELSE d.bins[b]]
  <2>1. p.capacity = n
    OBVIOUS
  <2>2. p.bins = [b \in 0 .. n - 1 |-> IF b = r THEN e ELSE d.bins[b]]
    BY <1>1
  <2> QED
    BY <2>1, <2>2
<1>7. p.bins[r] = e /\ e >= 0 /\ \A b \in 0 .. n - 1 : b # r => p.bins[b] = d.bins[b]
  BY <1>1, <1>4, <1>6
<1> HIDE DEF n, k
<1>8. Taken(p) = Taken(d) \cup {r}
  BY <1>4, <1>6, <1>7 DEF Taken, n
<1>9. \A b \in Taken(d) : p.bins[b] = d.bins[b] /\ b \in 0 .. n - 1 /\ b # r
  BY <1>5, <1>7 DEF Taken, n
<1>10. \A b \in Taken(d) : K[p.bins[b]] # k
  BY <1>9 DEF k
<1>11. K[p.bins[r]] = k
  BY <1>7 DEF k
<1>12. DictShape(K, p)
  <2>1. \A b \in 0 .. n - 1 : p.bins[b] \in {EMPTY, TOMBSTONE} \cup DOMAIN K
    BY <1>1, <1>7 DEF DictShape, n
  <2>2. p.bins = [b \in 0 .. n - 1 |-> p.bins[b]]
    BY <1>6
  <2>3. n \in Nat \ {0}
    BY <1>1 DEF DictShape, n
  <2> QED
    BY <1>1, <1>6, <2>1, <2>2, <2>3 DEF DictShape
<1>13. OneBinEach(K, p)
  <2>1. \A a, b \in Taken(d) : K[p.bins[a]] = K[p.bins[b]] => a = b
    BY <1>9 DEF DictGood, OneBinEach
  <2> QED
    BY <1>8, <1>10, <1>11, <2>1 DEF OneBinEach
<1>14. ASSUME NEW b \in Taken(p) PROVE Reached(K, p, b)
  <2>1. \A x, i : Bin(p, x, i) = Bin(d, x, i)
    BY <1>6 DEF Bin, n
  <2>2. CASE b \in Taken(d)
    <3>1. PICK x : x = K[d.bins[b]]
      OBVIOUS
    <3>2. x \in Keys /\ K[p.bins[b]] = x /\ x # k
      BY <1>9, <1>10, <2>2, <3>1, FoundWhereItIs
    <3>3. Reached(K, d, b)
      BY <2>2 DEF DictGood
    <3>4. PICK i \in 0 .. n - 1 : Bin(d, x, i) = b /\ \A j \in 0 .. i - 1 : ~ StopsK(K, d, x, j)
      BY <3>1, <3>3 DEF Reached, n
    <3>5. ASSUME NEW j \in 0 .. i - 1 PROVE ~ StopsK(K, p, x, j)
      <4>1. j \in Nat
        BY <3>4
      <4>2. PICK y : y = Bin(d, x, j)
        OBVIOUS
      <4>3. y \in 0 .. n - 1 /\ Bin(p, x, j) = y
        <5>1. \A l \in Nat : Bin(d, x, l) \in 0 .. n - 1
          BY <1>1, <3>2, Probes DEF n
        <5> QED
          BY <2>1, <4>1, <4>2, <5>1
      <4>4. ~ StopsK(K, d, x, j)
        BY <3>4
      <4>5. ~ (d.bins[y] = EMPTY \/ (d.bins[y] >= 0 /\ K[d.bins[y]] = x))
        BY <4>2, <4>4 DEF StopsK
      <4>6. e # EMPTY
        BY <1>7 DEF EMPTY
      <4>7. ~ (p.bins[y] = EMPTY \/ (p.bins[y] >= 0 /\ K[p.bins[y]] = x))
        BY <1>7, <1>11, <3>2, <4>3, <4>5, <4>6
      <4> QED
        BY <4>3, <4>7 DEF StopsK
    <3> QED
      BY <1>6, <2>1, <3>2, <3>4, <3>5 DEF Reached
  <2>3. CASE b = r
    <3>1. ASSUME NEW j \in 0 .. m - 1 PROVE ~ StopsK(K, p, k, j)
      <4>1. j \in Nat
        BY <1>3
      <4>2. PICK y : y = Bin(d, k, j)
        OBVIOUS
      <4>3. y \in 0 .. n - 1 /\ Bin(p, k, j) = y
        BY <1>1, <2>1, <4>1, <4>2, Probes DEF n
      <4>4. d.bins[y] >= 0
        BY <1>3, <4>2
      <4>5. y \in Taken(d)
        BY <4>3, <4>4 DEF Taken, n
      <4>6. p.bins[y] \in Nat /\ K[p.bins[y]] # k
        BY <1>1, <1>9, <1>10, <4>5, BinContent DEF n
      <4> QED
        BY <4>3, <4>6 DEF StopsK, EMPTY
    <3>2. Bin(p, k, m) = b
      BY <1>3, <2>1, <2>3
    <3> QED
      BY <1>3, <1>6, <1>11, <2>3, <3>1, <3>2 DEF Reached
  <2> QED
    BY <1>8, <2>2, <2>3
<1>15. \A x \in DOMAIN K : K[x] \in Keys
  BY DEF DictGood
<1>16. Filled(d, p, r, e)
  BY <1>4, <1>5, <1>7, <1>8, <1>9 DEF Filled, n
<1> QED
  BY <1>12, <1>13, <1>14, <1>15, <1>16 DEF DictGood

(* p has nothing in r, which d had in use. *)
Emptied(d, p, r) ==
    Taken(p) = Taken(d) \ {r} /\ \A b \in Taken(p) : p.bins[b] = d.bins[b]

(* A deleted entry leaves a TOMBSTONE, at which no search ends.            *)
LEMMA DeleteGood ==
    ASSUME NEW K, NEW d, DictGood(K, d), NEW r \in Taken(d),
           NEW p, p = [bins |-> p.bins, capacity |-> d.capacity, count |-> p.count],
           p.bins = [d.bins EXCEPT ![r] = TOMBSTONE]
    PROVE  DictGood(K, p) /\ Emptied(d, p, r)
<1> DEFINE n == d.capacity
<1>1. /\ DictShape(K, d) /\ n \in Nat \ {0}
      /\ d.bins = [b \in 0 .. n - 1 |-> d.bins[b]] /\ DOMAIN K \subseteq Nat
  BY DEF DictGood, DictShape
<1>2. r \in 0 .. n - 1
  BY DEF Taken
<1>3. /\ p = [bins |-> p.bins, capacity |-> p.capacity, count |-> p.count]
      /\ p.capacity = n /\ p.bins = [b \in 0 .. n - 1 |-> IF b = r THEN TOMBSTONE ELSE d.bins[b]]
  <2>1. p.capacity = n
    OBVIOUS
  <2>2. p.bins = [b \in 0 .. n - 1 |-> IF b = r THEN TOMBSTONE ELSE d.bins[b]]
    BY <1>1
  <2> QED
    BY <2>1, <2>2
<1>4. p.bins[r] = TOMBSTONE /\ \A b \in 0 .. n - 1 : b # r => p.bins[b] = d.bins[b]
  BY <1>1, <1>2, <1>3
<1>5. ~ (TOMBSTONE >= 0) /\ TOMBSTONE # EMPTY
  BY DEF TOMBSTONE, EMPTY
<1> HIDE DEF n
<1>6. Taken(p) = Taken(d) \ {r}
  BY <1>2, <1>3, <1>4, <1>5 DEF Taken, n
<1>7. \A b \in Taken(p) : p.bins[b] = d.bins[b] /\ b \in Taken(d)
  BY <1>3, <1>4, <1>6 DEF Taken
<1>8. DictShape(K, p)
  <2>1. \A b \in 0 .. n - 1 : p.bins[b] \in {EMPTY, TOMBSTONE} \cup DOMAIN K
    BY <1>1, <1>4 DEF DictShape, n
  <2>2. p.bins = [b \in 0 .. n - 1 |-> p.bins[b]]
    BY <1>3
  <2> QED
    BY <1>1, <1>3, <2>1, <2>2 DEF DictShape
<1>9. OneBinEach(K, p)
  BY <1>7 DEF DictGood, OneBinEach
<1>10. ASSUME NEW b \in Taken(p) PROVE Reached(K, p, b)
  <2>1. \A x, i : Bin(p, x, i) = Bin(d, x, i)
    BY <1>3 DEF Bin, n
  <2>2. PICK x : x = K[d.bins[b]]
    OBVIOUS
  <2>3. x \in Keys /\ K[p.bins[b]] = x /\ Reached(K, d, b)
    BY <1>7, <2>2, FoundWhereItIs DEF DictGood
  <2>4. PICK i \in 0 .. n - 1 : Bin(d, x, i) = b /\ \A j \in 0 .. i - 1 : ~ StopsK(K, d, x, j)
    BY <2>2, <2>3 DEF Reached, n
  <2>5. ASSUME NEW j \in 0 .. i - 1 PROVE ~ StopsK(K, p, x, j)
    <3>1. j \in Nat
      BY <2>4
    <3>2. PICK y : y = Bin(d, x, j)
      OBVIOUS
    <3>3. y \in 0 .. n - 1 /\ Bin(p, x, j) = y
      <4>1. \A l \in Nat : Bin(d, x, l) \in 0 .. n - 1
        BY <1>1, <2>3, Probes DEF n
      <4> QED
        BY <2>1, <3>1, <3>2, <4>1
    <3>4. ~ StopsK(K, d, x, j)
      BY <2>4
    <3>5. ~ (d.bins[y] = EMPTY \/ (d.bins[y] >= 0 /\ K[d.bins[y]] = x))
      BY <3>2, <3>4 DEF StopsK
    <3>6. ~ (p.bins[y] = EMPTY \/ (p.bins[y] >= 0 /\ K[p.bins[y]] = x))
      BY <1>4, <1>5, <3>3, <3>5
    <3> QED
      BY <3>3, <3>6 DEF StopsK
  <2> QED
    BY <1>3, <2>1, <2>3, <2>4, <2>5 DEF Reached
<1>11. \A x \in DOMAIN K : K[x] \in Keys
  BY DEF DictGood
<1>12. Emptied(d, p, r)
  BY <1>6, <1>7 DEF Emptied
<1> QED
  BY <1>8, <1>9, <1>10, <1>11, <1>12 DEF DictGood

(* What is known of an entry does not change when there are more.          *)
LEMMA MoreKeys ==
    ASSUME NEW K, NEW d, DictGood(K, d),
           NEW M, DOMAIN K \subseteq DOMAIN M, DOMAIN M \subseteq Nat,
           \A e \in DOMAIN M : M[e] \in Keys, \A e \in DOMAIN K : M[e] = K[e]
    PROVE  DictGood(M, d)
<1> DEFINE n == d.capacity
<1>1. DictShape(K, d)
  BY DEF DictGood
<1>2. DictShape(M, d)
  BY <1>1 DEF DictShape
<1>3. \A b \in Taken(d) : d.bins[b] \in DOMAIN K /\ M[d.bins[b]] = K[d.bins[b]]
  <2> TAKE b \in Taken(d)
  <2>1. b \in 0 .. d.capacity - 1
    BY DEF Taken
  <2>2. d.bins[b] \in DOMAIN K
    BY <1>1, <2>1, BinContent
  <2> QED
    BY <2>2
<1>4. OneBinEach(M, d)
  BY <1>3 DEF DictGood, OneBinEach
<1>5. ASSUME NEW x \in Keys, NEW j \in Nat PROVE StopsK(M, d, x, j) <=> StopsK(K, d, x, j)
  <2>1. PICK y : y = Bin(d, x, j)
    OBVIOUS
  <2>2. y \in 0 .. n - 1
    BY <1>1, <2>1, Probes
  <2>3. d.bins[y] >= 0 => M[d.bins[y]] = K[d.bins[y]]
    BY <1>3, <2>2 DEF Taken
  <2> QED
    BY <2>1, <2>3 DEF StopsK
<1>6. ASSUME NEW b \in Taken(d) PROVE Reached(M, d, b)
  <2>1. PICK x : x = K[d.bins[b]]
    OBVIOUS
  <2>2. x \in Keys /\ M[d.bins[b]] = x /\ Reached(K, d, b)
    BY <1>3, <2>1, FoundWhereItIs DEF DictGood
  <2>3. PICK i \in 0 .. n - 1 : Bin(d, x, i) = b /\ \A j \in 0 .. i - 1 : ~ StopsK(K, d, x, j)
    BY <2>1, <2>2 DEF Reached
  <2>4. \A j \in 0 .. i - 1 : j \in Nat
    BY <2>3
  <2> QED
    BY <1>5, <2>2, <2>3, <2>4 DEF Reached
<1> QED
  BY <1>2, <1>4, <1>6 DEF DictGood

(* The entries that lookups find. *)
Held(d) == {d.bins[b] : b \in Taken(d)}

LookupK(K, d, k) == d.bins[BinK(K, d, k)]

(* A lookup finds the only entry of its key, if the dictionary has one.    *)
LEMMA LookupIs ==
    ASSUME NEW K, NEW d, DictGood(K, d), Cardinality(Taken(d)) < d.capacity, NEW k \in Keys
    PROVE  /\ BinK(K, d, k) \in 0 .. d.capacity - 1
           /\ \A e \in Held(d) : K[e] = k =>
                 e = LookupK(K, d, k) /\ BinK(K, d, k) \in Taken(d)
           /\ (\A e \in Held(d) : K[e] # k) =>
                 LookupK(K, d, k) < 0 /\ \E m : Free(d, k, m) /\ BinK(K, d, k) = Bin(d, k, m)
<1>1. DictShape(K, d)
  BY DEF DictGood
<1>2. ASSUME NEW e \in Held(d), K[e] = k
      PROVE  e = LookupK(K, d, k) /\ BinK(K, d, k) \in Taken(d)
  <2>1. PICK b \in Taken(d) : d.bins[b] = e
    BY DEF Held
  <2>2. BinK(K, d, k) = b
    BY <1>2, <2>1, FoundWhereItIs
  <2> QED
    BY <2>1, <2>2 DEF LookupK
<1>3. ASSUME \A e \in Held(d) : K[e] # k
      PROVE  /\ BinK(K, d, k) \in 0 .. d.capacity - 1 /\ LookupK(K, d, k) < 0
             /\ \E m : Free(d, k, m) /\ BinK(K, d, k) = Bin(d, k, m)
  <2>1. PICK m : Free(d, k, m)
    BY <1>1, FreeExists
  <2>2. \A b \in Taken(d) : K[d.bins[b]] # k
    BY <1>3 DEF Held
  <2>3. /\ m \in 0 .. d.capacity - 1 /\ d.bins[Bin(d, k, m)] < 0
        /\ \A j \in 0 .. m - 1 : d.bins[Bin(d, k, j)] >= 0
    BY <2>1 DEF Free
  <2>4. BinK(K, d, k) = Bin(d, k, m)
    BY <1>1, <2>2, <2>3, SearchMisses
  <2>5. m \in Nat
    BY <1>1, <2>3 DEF DictShape
  <2>6. Bin(d, k, m) \in 0 .. d.capacity - 1
    BY <1>1, <2>5, Probes
  <2> QED
    BY <2>1, <2>3, <2>4, <2>6 DEF LookupK
<1>4. \A b \in Taken(d) : b \in 0 .. d.capacity - 1
  BY DEF Taken
<1> QED
  BY <1>2, <1>3, <1>4

(* So what it finds tells whether there is one.                            *)
LEMMA LookupFinds ==
    ASSUME NEW K, NEW d, DictGood(K, d), Cardinality(Taken(d)) < d.capacity, NEW k \in Keys
    PROVE  /\ LookupK(K, d, k) >= 0 \/ LookupK(K, d, k) < 0
           /\ ~ (LookupK(K, d, k) >= 0 /\ LookupK(K, d, k) < 0)
           /\ LookupK(K, d, k) >= 0 =>
                /\ LookupK(K, d, k) \in Held(d) /\ LookupK(K, d, k) \in DOMAIN K
                /\ LookupK(K, d, k) \in Nat /\ K[LookupK(K, d, k)] = k
                /\ BinK(K, d, k) \in Taken(d)
           /\ LookupK(K, d, k) < 0 => \A e \in Held(d) : K[e] # k
<1>1. DictShape(K, d)
  BY DEF DictGood
<1>2. \A e \in Held(d) : e \in DOMAIN K /\ e \in Nat /\ e >= 0 /\ ~ (e < 0)
  <2>1. \A b \in Taken(d) : b \in 0 .. d.capacity - 1
    BY DEF Taken
  <2>2. \A b \in Taken(d) : d.bins[b] \in DOMAIN K /\ d.bins[b] \in Nat
    BY <1>1, <2>1, BinContent
  <2>3. \A e \in Nat : e >= 0 /\ ~ (e < 0)
    OBVIOUS
  <2> QED
    BY <2>2, <2>3 DEF Held
<1>3. PICK l : l = LookupK(K, d, k)
  OBVIOUS
<1>4. PICK b : b = BinK(K, d, k)
  OBVIOUS
<1>5. /\ b \in 0 .. d.capacity - 1
      /\ \A e \in Held(d) : K[e] = k => e = l /\ b \in Taken(d)
      /\ (\A e \in Held(d) : K[e] # k) => l < 0
  BY <1>3, <1>4, LookupIs
<1>6. l = d.bins[b]
  BY <1>3, <1>4 DEF LookupK
<1>7. l \in Int
  BY <1>1, <1>5, <1>6, BinContent DEF EMPTY, TOMBSTONE
<1>8. l >= 0 => \E e \in Held(d) : K[e] = k
  BY <1>5, <1>7
<1> QED
  BY <1>2, <1>3, <1>4, <1>5, <1>7, <1>8

-----------------------------------------------------------------------------
(* The dictionary: its entries, and the growth.                            *)

KeysOf(es) == [e \in 0 .. es.count - 1 |-> es.items[e].key]

(* How the search reads the keys.                                          *)
SearchRule ==
    \A d : DictShape(KeysOf(entries), d) =>
       \A k \in Keys : BinOf(d, k) = BinK(KeysOf(entries), d, k)

(* It reads them in the entries that the bins lead to.                     *)
LEMMA Searches == SearchRule
<1> SUFFICES ASSUME NEW d, DictShape(KeysOf(entries), d), NEW k \in Keys
             PROVE  BinOf(d, k) = BinK(KeysOf(entries), d, k)
  BY DEF SearchRule
<1> DEFINE K == KeysOf(entries)
           n == d.capacity
<1>1. DictShape(K, d) /\ n \in Nat
  BY DEF DictShape
<1>2. \A e \in DOMAIN K : K[e] = entries.items[e].key
  BY DEF KeysOf
<1> HIDE DEF K, n
<1>3. ASSUME NEW i \in Nat PROVE Stops(d, k, i) <=> StopsK(K, d, k, i)
  <2>1. PICK b : b = Bin(d, k, i)
    OBVIOUS
  <2>2. b \in 0 .. n - 1
    BY <1>1, <2>1, Probes DEF n
  <2>3. d.bins[b] >= 0 => d.bins[b] \in DOMAIN K
    BY <1>1, <2>2, BinContent DEF Taken, n
  <2>4. d.bins[b] >= 0 => KeyAt(d, b) = K[d.bins[b]]
    BY <1>2, <2>3 DEF KeyAt
  <2> QED
    BY <2>1, <2>4 DEF Stops, StopsK
<1> DEFINE Ends == {e \in 0 .. n : e = n \/ StopsK(K, d, k, e)}
<1>4. PICK end \in Ends : \A e \in Ends : end <= e
  <2>1. Ends \in SUBSET Nat /\ n \in Ends
    BY <1>1
  <2> HIDE DEF Ends
  <2> QED
    BY <2>1, LeastIn
<1>5. /\ end \in 0 .. n /\ (end = n \/ StopsK(K, d, k, end))
      /\ \A i \in 0 .. end - 1 : ~ StopsK(K, d, k, i)
  <2>1. end \in 0 .. n
    OBVIOUS
  <2>2. \A i \in 0 .. end - 1 : i \in 0 .. n /\ ~ (end <= i)
    BY <1>1, <2>1
  <2> QED
    BY <1>4, <2>2
<1>6. \A e \in 0 .. n :
         (e = n \/ StopsK(K, d, k, e)) /\ (\A i \in 0 .. e - 1 : ~ StopsK(K, d, k, i)) => e = end
  <2> TAKE e \in 0 .. n
  <2>1. e < end => e \in 0 .. end - 1 /\ e # n
    BY <1>1, <1>5
  <2>2. end < e => end \in 0 .. e - 1 /\ end # n
    BY <1>1, <1>5
  <2> QED
    BY <1>1, <1>5, <2>1, <2>2
<1>7. EndK(K, d, k) = end
  BY <1>5, <1>6 DEF EndK, n
<1>8. \A e \in 0 .. n : e \in Nat /\ \A i \in 0 .. e - 1 : i \in Nat
  BY <1>1
<1>9. /\ end = n \/ Stops(d, k, end)
      /\ \A i \in 0 .. end - 1 : ~ Stops(d, k, i)
  BY <1>3, <1>5, <1>8
<1>10. \A e \in 0 .. n :
         (e = n \/ Stops(d, k, e)) /\ (\A i \in 0 .. e - 1 : ~ Stops(d, k, i)) => e = end
  BY <1>3, <1>6, <1>8
<1>11. End(d, k) = end
  BY <1>5, <1>9, <1>10 DEF End, n
<1> QED
  BY <1>7, <1>11 DEF BinOf, BinK, FirstTomb, K

(* The first b bins of d, searched a new place. *)
Placing(d, f, b) ==
    IF b = 0 THEN EmptyBins(2 * d.capacity, d.count)
    ELSE LET p == f[b - 1]
             old == d.bins[b - 1]
         IN  IF old \in {EMPTY, TOMBSTONE} THEN p
             ELSE [p EXCEPT !.bins[BinOf(p, KeyAt(d, b - 1))] = old]

IsPlaced(f, d, n) == f = [b \in 0 .. n |-> Placing(d, f, b)]

(* Bin after bin, they find one. *)
LEMMA PlacedExists ==
    ASSUME NEW d, NEW m \in Nat
    PROVE  \E f : IsPlaced(f, d, m)
<1> DEFINE Bad == {n \in Nat : ~ \E f : IsPlaced(f, d, n)}
<1>1. SUFFICES ASSUME Bad # {} PROVE FALSE
  OBVIOUS
<1>2. PICK n \in Bad : \A k \in Bad : n <= k
  <2>1. Bad \in SUBSET Nat
    OBVIOUS
  <2> HIDE DEF Bad
  <2> QED
    BY <1>1, <2>1, LeastIn
<1>3. n \in Nat /\ ~ \E f : IsPlaced(f, d, n)
  OBVIOUS
<1>4. n # 0
  <2> DEFINE e == EmptyBins(2 * d.capacity, d.count)
             g == [b \in 0 .. 0 |-> e]
  <2>1. \A b \in 0 .. 0 : Placing(d, g, b) = e
    BY DEF Placing
  <2> HIDE DEF e
  <2>2. IsPlaced(g, d, 0)
    BY <2>1 DEF IsPlaced
  <2> QED
    BY <1>3, <2>2
<1>5. n - 1 \notin Bad
  <2> HIDE DEF Bad
  <2> QED
    BY <1>2, <1>3, <1>4
<1>6. PICK f : IsPlaced(f, d, n - 1)
  BY <1>3, <1>4, <1>5
<1> DEFINE last == Placing(d, f, n)
           g == [x \in 0 .. n |-> IF x = n THEN last ELSE f[x]]
<1>7. \A x \in 0 .. n - 1 : f[x] = Placing(d, f, x)
  BY <1>6 DEF IsPlaced
<1> HIDE DEF last
<1>8. g[n] = last /\ \A x \in 0 .. n - 1 : g[x] = f[x]
  BY <1>3
<1>9. g = [x \in 0 .. n |-> g[x]]
  OBVIOUS
<1> HIDE DEF g
<1>10. \A x \in 0 .. n : Placing(d, g, x) = Placing(d, f, x)
  <2> TAKE x \in 0 .. n
  <2>1. x # 0 => g[x - 1] = f[x - 1]
    BY <1>3, <1>8
  <2> QED
    BY <2>1 DEF Placing
<1>11. \A x \in 0 .. n : g[x] = Placing(d, g, x)
  <2> TAKE x \in 0 .. n
  <2>1. CASE x = n
    BY <1>8, <1>10, <2>1 DEF last
  <2>2. CASE x # n
    <3>1. x \in 0 .. n - 1
      BY <1>3, <2>2
    <3> QED
      BY <1>7, <1>8, <1>10, <3>1
  <2> QED
    BY <2>1, <2>2
<1>12. IsPlaced(g, d, n)
  BY <1>9, <1>11 DEF IsPlaced
<1> QED
  BY <1>3, <1>12

(* So the recursion of Grow ends.                                          *)
LEMMA GrowIsPlaced ==
    ASSUME NEW d, d.capacity \in Nat
    PROVE  \E f : IsPlaced(f, d, d.capacity) /\ Grow(d) = f[d.capacity]
<1> DEFINE Step(f, b) ==
             IF b = 0 THEN EmptyBins(2 * d.capacity, d.count)
             ELSE LET p == f[b - 1]
                      old == d.bins[b - 1]
                  IN  IF old \in {EMPTY, TOMBSTONE} THEN p
                      ELSE [p EXCEPT !.bins[BinOf(p, KeyAt(d, b - 1))] = old]
           Is(f) == f = [b \in 0 .. d.capacity |-> Step(f, b)]
           placed == CHOOSE f : Is(f)
<1>1. Grow(d) = placed[d.capacity]
  BY DEF Grow
<1>2. \A f : Is(f) <=> IsPlaced(f, d, d.capacity)
  BY DEF IsPlaced, Placing
<1> HIDE DEF Is
<1>3. Is(placed)
  BY <1>2, PlacedExists
<1> QED
  BY <1>1, <1>2, <1>3

(* New bins hold nothing. *)
LEMMA EmptyGood ==
    ASSUME NEW K, DOMAIN K \subseteq Nat, \A e \in DOMAIN K : K[e] \in Keys,
           NEW n \in Nat \ {0}, NEW c
    PROVE  DictGood(K, EmptyBins(n, c)) /\ Taken(EmptyBins(n, c)) = {}
<1>1. PICK d : d = EmptyBins(n, c)
  OBVIOUS
<1>2. /\ d = [bins |-> d.bins, capacity |-> d.capacity, count |-> d.count]
      /\ d.capacity = n /\ d.bins = [b \in 0 .. n - 1 |-> EMPTY]
  BY <1>1 DEF EmptyBins
<1>3. Taken(d) = {}
  BY <1>2 DEF Taken, EMPTY
<1>4. DictShape(K, d)
  BY <1>2 DEF DictShape
<1> QED
  BY <1>1, <1>3, <1>4 DEF DictGood, OneBinEach

Before(d, b) == {x \in Taken(d) : x < b}

(* p holds what the first b bins of d hold. *)
Holds(K, d, p, b) ==
    /\ DictGood(K, p) /\ p.capacity = 2 * d.capacity /\ p.count = d.count
    /\ Held(p) = {d.bins[x] : x \in Before(d, b)}
    /\ Cardinality(Taken(p)) = Cardinality(Before(d, b))

(* Some of the bins are in use, at most all. *)
LEMMA TakenFinite ==
    ASSUME NEW d, d.capacity \in Nat
    PROVE  /\ IsFiniteSet(Taken(d)) /\ Cardinality(Taken(d)) \in Nat
           /\ \A b \in 0 .. d.capacity :
                 IsFiniteSet(Before(d, b)) /\ Cardinality(Before(d, b)) \in 0 .. b
<1> DEFINE n == d.capacity
<1>1. IsFiniteSet(0 .. n - 1)
  BY FS_Interval
<1>2. Taken(d) \subseteq 0 .. n - 1
  BY DEF Taken
<1>3. ASSUME NEW b \in 0 .. n
      PROVE  IsFiniteSet(Before(d, b)) /\ Cardinality(Before(d, b)) \in 0 .. b
  <2>1. IsFiniteSet(0 .. b - 1) /\ Cardinality(0 .. b - 1) = b
    <3>1. b \in Nat /\ b - 1 \in Int /\ (0 > b - 1 => b = 0) /\ b - 1 - 0 + 1 = b
      OBVIOUS
    <3> QED
      BY <3>1, FS_Interval
  <2>2. Before(d, b) \subseteq 0 .. b - 1
    BY <1>2 DEF Before
  <2>3. IsFiniteSet(Before(d, b)) /\ Cardinality(Before(d, b)) <= Cardinality(0 .. b - 1)
    BY <2>1, <2>2, FS_Subset
  <2>4. Cardinality(Before(d, b)) \in Nat
    BY <2>3, FS_CardinalityType
  <2> QED
    BY <2>1, <2>3, <2>4
<1> QED
  BY <1>1, <1>2, <1>3, FS_Subset, FS_CardinalityType

(* One bin of the growth. *)
LEMMA PlacingHolds ==
    ASSUME NEW d, DictGood(KeysOf(entries), d), NEW b \in 1 .. d.capacity,
           NEW f, Holds(KeysOf(entries), d, f[b - 1], b - 1)
    PROVE  Holds(KeysOf(entries), d, Placing(d, f, b), b)
<1> DEFINE K == KeysOf(entries)
           n == d.capacity
           o == f[b - 1]
           p == Placing(d, f, b)
           e == d.bins[b - 1]
<1>1. /\ DictShape(K, d) /\ n \in Nat \ {0} /\ b - 1 \in 0 .. n - 1 /\ b # 0
      /\ b \in 0 .. n /\ b - 1 \in 0 .. n
  BY DEF DictGood, DictShape
<1>2. /\ DictGood(K, o) /\ o.capacity = 2 * n /\ o.count = d.count
      /\ Held(o) = {d.bins[x] : x \in Before(d, b - 1)}
      /\ Cardinality(Taken(o)) = Cardinality(Before(d, b - 1))
  BY DEF Holds
<1>3. \A x \in Taken(d) : x \in Int /\ (x < b <=> (x < b - 1 \/ x = b - 1)) /\ ~ (x < b - 1 /\ x = b - 1)
  BY <1>1 DEF Taken
<1>4. p = IF e \in {EMPTY, TOMBSTONE} THEN o
          ELSE [o EXCEPT !.bins[BinOf(o, KeyAt(d, b - 1))] = e]
  BY <1>1 DEF Placing
<1> HIDE DEF K, n, o, p
<1>5. CASE b - 1 \notin Taken(d)
  <2>1. e \in {EMPTY, TOMBSTONE}
    BY <1>1, <1>5, BinContent DEF n
  <2>2. Before(d, b) = Before(d, b - 1)
    BY <1>3, <1>5 DEF Before
  <2> QED
    BY <1>2, <1>4, <2>1, <2>2 DEF Holds, K, n, o, p
<1>6. CASE b - 1 \in Taken(d)
  <2>1. e \in DOMAIN K /\ e \in Nat /\ e \notin {EMPTY, TOMBSTONE}
    <3>1. e \in DOMAIN K /\ e \in Nat
      BY <1>1, <1>6, BinContent DEF n
    <3> QED
      BY <3>1 DEF EMPTY, TOMBSTONE
  <2> DEFINE k == K[e]
  <2>2. k \in Keys /\ KeyAt(d, b - 1) = k
    BY <2>1 DEF DictGood, K, KeysOf, KeyAt
  <2>3. Before(d, b) = Before(d, b - 1) \cup {b - 1} /\ b - 1 \notin Before(d, b - 1)
    BY <1>3, <1>6 DEF Before
  <2>4. \A x \in Taken(o) : K[o.bins[x]] # k
    <3> SUFFICES ASSUME NEW x \in Taken(o), K[o.bins[x]] = k PROVE FALSE
      OBVIOUS
    <3>1. PICK y \in Before(d, b - 1) : o.bins[x] = d.bins[y]
      BY <1>2 DEF Held
    <3>2. y \in Taken(d) /\ y # b - 1
      BY <2>3, <3>1 DEF Before
    <3>3. K[d.bins[y]] = K[d.bins[b - 1]]
      BY <3>1
    <3> QED
      BY <1>6, <3>2, <3>3 DEF DictGood, OneBinEach, K
  <2>5. DictShape(K, o)
    BY <1>2 DEF DictGood
  <2>6. d.capacity \in Nat /\ o.capacity \in Nat
    BY <1>1, <2>5 DEF DictShape, n
  <2>7. IsFiniteSet(Taken(o)) /\ IsFiniteSet(Before(d, b - 1)) /\ Cardinality(Taken(o)) < o.capacity
    <3>1. IsFiniteSet(Before(d, b - 1)) /\ Cardinality(Before(d, b - 1)) \in 0 .. b - 1
      BY <1>1, <2>6, TakenFinite DEF n
    <3>2. IsFiniteSet(Taken(o))
      BY <2>6, TakenFinite
    <3>3. b - 1 < 2 * n
      BY <1>1
    <3> QED
      BY <1>1, <1>2, <3>1, <3>2, <3>3
  <2>8. PICK m : Free(o, k, m)
    BY <2>2, <2>5, <2>7, FreeExists
  <2>9. PICK r : r = Bin(o, k, m)
    OBVIOUS
  <2>10. BinOf(o, k) = r
    <3>1. BinOf(o, k) = BinK(K, o, k)
      BY <2>2, <2>5, Searches DEF SearchRule, K
    <3>2. BinK(K, o, k) = Bin(o, k, m)
      BY <2>2, <2>4, <2>5, <2>8, SearchMisses DEF Free
    <3> QED
      BY <2>9, <3>1, <3>2
  <2>11. p = [o EXCEPT !.bins[r] = e]
    BY <1>4, <2>1, <2>2, <2>10
  <2>12. p = [bins |-> [o.bins EXCEPT ![r] = e], capacity |-> o.capacity, count |-> o.count]
    BY <2>5, <2>11 DEF DictShape
  <2>13. p.capacity = o.capacity /\ p.count = o.count
    BY <2>12
  <2>14. /\ DictGood(K, p) /\ r \notin Taken(o) /\ Taken(p) = Taken(o) \cup {r}
         /\ p.bins[r] = e /\ \A x \in Taken(o) : p.bins[x] = o.bins[x]
    <3>1. k = K[e]
      OBVIOUS
    <3> HIDE DEF k, e
    <3>2. /\ e \in DOMAIN K /\ \A x \in Taken(o) : K[o.bins[x]] # K[e]
          /\ Free(o, K[e], m) /\ r = Bin(o, K[e], m)
      BY <2>1, <2>4, <2>8, <2>9, <3>1
    <3>3. DictGood(K, o)
      BY <1>2
    <3>4. /\ p = [bins |-> p.bins, capacity |-> o.capacity, count |-> p.count]
          /\ p.bins = [o.bins EXCEPT ![r] = e]
      BY <2>12
    <3>5. \E x : Free(o, K[e], x) /\ r = Bin(o, K[e], x)
      BY <3>2
    <3>6. DictGood(K, p) /\ Filled(o, p, r, e)
      BY <3>2, <3>3, <3>4, <3>5, PlaceGood
    <3> QED
      BY <3>6 DEF Filled
  <2>15. Held(p) = Held(o) \cup {e}
    BY <2>14 DEF Held
  <2>16. Held(p) = {d.bins[x] : x \in Before(d, b)}
    BY <1>2, <2>3, <2>15
  <2>17. Cardinality(Taken(p)) = Cardinality(Before(d, b))
    <3>1. Cardinality(Taken(p)) = Cardinality(Taken(o)) + 1
      BY <2>7, <2>14, FS_AddElement
    <3>2. Cardinality(Before(d, b)) = Cardinality(Before(d, b - 1)) + 1
      BY <2>3, <2>7, FS_AddElement
    <3> QED
      BY <1>2, <3>1, <3>2
  <2> QED
    BY <1>2, <2>13, <2>14, <2>16, <2>17 DEF Holds, K, n, p
<1> QED
  BY <1>5, <1>6

(* The growth loses nothing, and adds nothing.                             *)
LEMMA GrowGood ==
    ASSUME NEW d, DictGood(KeysOf(entries), d)
    PROVE  /\ DictGood(KeysOf(entries), Grow(d))
           /\ Grow(d).capacity = 2 * d.capacity /\ Grow(d).count = d.count
           /\ Held(Grow(d)) = Held(d)
           /\ Cardinality(Taken(Grow(d))) = Cardinality(Taken(d))
<1> DEFINE K == KeysOf(entries)
           n == d.capacity
<1>1. DictShape(K, d) /\ n \in Nat \ {0}
  BY DEF DictGood, DictShape
<1>2. PICK f : IsPlaced(f, d, n) /\ Grow(d) = f[n]
  BY <1>1, GrowIsPlaced
<1>3. \A b \in 0 .. n : f[b] = Placing(d, f, b)
  BY <1>2 DEF IsPlaced
<1> HIDE DEF K, n
<1> DEFINE Bad == {b \in Nat : b <= n /\ ~ Holds(K, d, f[b], b)}
<1>4. Bad = {}
  <2>1. SUFFICES ASSUME Bad # {} PROVE FALSE
    OBVIOUS
  <2>2. PICK b \in Bad : \A x \in Bad : b <= x
    <3>1. Bad \in SUBSET Nat
      OBVIOUS
    <3> HIDE DEF Bad
    <3> QED
      BY <2>1, <3>1, LeastIn
  <2>3. b \in Nat /\ b <= n /\ ~ Holds(K, d, f[b], b)
    OBVIOUS
  <2>4. b \in 0 .. n
    BY <1>1, <2>3
  <2>5. CASE b = 0
    <3>1. f[b] = EmptyBins(2 * n, d.count)
      BY <1>3, <2>4, <2>5 DEF Placing, n
    <3>2. PICK p : p = EmptyBins(2 * n, d.count)
      OBVIOUS
    <3>3. DictGood(K, p) /\ Taken(p) = {}
      <4>1. 2 * n \in Nat \ {0}
        BY <1>1
      <4>2. DOMAIN K \subseteq Nat /\ \A e \in DOMAIN K : K[e] \in Keys
        BY DEF DictGood, DictShape, K
      <4> QED
        BY <3>2, <4>1, <4>2, EmptyGood
    <3>4. p.capacity = 2 * n /\ p.count = d.count
      BY <3>2 DEF EmptyBins
    <3>5. Before(d, b) = {}
      BY <1>1, <2>5 DEF Before, Taken, n
    <3>6. Held(p) = {d.bins[x] : x \in Before(d, b)}
      BY <3>3, <3>5 DEF Held
    <3>7. Cardinality(Taken(p)) = Cardinality(Before(d, b))
      BY <3>3, <3>5
    <3>8. Holds(K, d, p, b)
      BY <3>3, <3>4, <3>6, <3>7 DEF Holds, n
    <3> QED
      BY <2>3, <3>1, <3>2, <3>8
  <2>6. CASE b # 0
    <3>1. b - 1 \in Nat /\ b - 1 <= n /\ ~ (b <= b - 1)
      BY <1>1, <2>3, <2>6
    <3>2. Holds(K, d, f[b - 1], b - 1)
      BY <2>2, <3>1
    <3>3. b \in 1 .. d.capacity
      BY <2>4, <2>6 DEF n
    <3>4. Holds(K, d, Placing(d, f, b), b)
      BY <3>2, <3>3, PlacingHolds DEF K
    <3> QED
      BY <1>3, <2>3, <2>4, <3>4
  <2> QED
    BY <2>5, <2>6
<1>5. Holds(K, d, f[n], n)
  <2>1. n \in Nat /\ n <= n
    BY <1>1
  <2> QED
    BY <1>4, <2>1
<1>6. Before(d, n) = Taken(d)
  BY <1>1 DEF Before, Taken, n
<1>7. Held(f[n]) = Held(d)
  BY <1>5, <1>6 DEF Holds, Held
<1> QED
  BY <1>2, <1>5, <1>6, <1>7 DEF Holds, K, n

(* A dictionary is what its fields are.                                    *)
LEMMA DictFields ==
    ASSUME NEW x, NEW y, NEW z, NEW p, p = [bins |-> x, capacity |-> y, count |-> z]
    PROVE  /\ p.bins = x /\ p.capacity = y /\ p.count = z
           /\ p = [bins |-> p.bins, capacity |-> y, count |-> p.count]
  OBVIOUS

-----------------------------------------------------------------------------
(* The dictionary: what every call keeps.                                  *)

Fits(es, d) ==
    /\ ListShape(es)
    /\ \A i \in 0 .. es.count - 1 : es.items[i] \in [key : Keys, val : Values]
    /\ DictGood(KeysOf(es), d)
    /\ d.count = Cardinality(Taken(d))
    /\ 5 * d.count <= 4 * d.capacity

(* The entries are on a list, each bin is where the search for its key     *)
(* comes to, and a bin is left over.                                       *)
DictInv == Fits(entries, dict)

Binds(es, d, k, e) == e \in Held(d) /\ es.items[e].key = k

(* There is always a bin that is not in use.                               *)
LEMMA FitsFacts ==
    ASSUME NEW es, NEW d, Fits(es, d)
    PROVE  /\ es.count \in Nat /\ DOMAIN KeysOf(es) = 0 .. es.count - 1
           /\ \A e \in 0 .. es.count - 1 : KeysOf(es)[e] = es.items[e].key
           /\ d.capacity \in Nat \ {0} /\ d.count \in Nat
           /\ IsFiniteSet(Taken(d)) /\ Cardinality(Taken(d)) < d.capacity
           /\ Held(d) \subseteq 0 .. es.count - 1
<1>1. es.count \in Nat /\ DictShape(KeysOf(es), d)
  BY DEF Fits, ListShape, DictGood
<1>2. DOMAIN KeysOf(es) = 0 .. es.count - 1
      /\ \A e \in 0 .. es.count - 1 : KeysOf(es)[e] = es.items[e].key
  BY DEF KeysOf
<1>3. d.capacity \in Nat \ {0}
  BY <1>1 DEF DictShape
<1>4. IsFiniteSet(Taken(d)) /\ Cardinality(Taken(d)) \in Nat
  BY <1>3, TakenFinite
<1>5. d.count = Cardinality(Taken(d)) /\ 5 * d.count <= 4 * d.capacity
  BY DEF Fits
<1>6. Cardinality(Taken(d)) < d.capacity
  BY <1>3, <1>4, <1>5
<1>7. \A b \in Taken(d) : b \in 0 .. d.capacity - 1
  BY DEF Taken
<1>8. Held(d) \subseteq DOMAIN KeysOf(es)
  BY <1>1, <1>7, BinContent DEF Held
<1> QED
  BY <1>1, <1>2, <1>3, <1>4, <1>5, <1>6, <1>8

(* A lookup finds what the bins bind.                                      *)
LEMMA LookupBinds ==
    ASSUME NEW es, NEW d, Fits(es, d), NEW k \in Keys, NEW l, l = LookupK(KeysOf(es), d, k)
    PROVE  /\ l >= 0 \/ l < 0
           /\ ~ (l >= 0 /\ l < 0)
           /\ l >= 0 => Binds(es, d, k, l) /\ l \in 0 .. es.count - 1
           /\ \A e : Binds(es, d, k, e) => e = l /\ l >= 0
<1>1. /\ DictGood(KeysOf(es), d) /\ Cardinality(Taken(d)) < d.capacity
      /\ Held(d) \subseteq 0 .. es.count - 1
      /\ \A e \in 0 .. es.count - 1 : KeysOf(es)[e] = es.items[e].key
  BY FitsFacts DEF Fits
<1>2. /\ l >= 0 \/ l < 0
      /\ ~ (l >= 0 /\ l < 0)
      /\ l >= 0 => l \in Held(d) /\ KeysOf(es)[l] = k
      /\ l < 0 => \A e \in Held(d) : KeysOf(es)[e] # k
  BY <1>1, LookupFinds
<1>3. \A e \in Held(d) : KeysOf(es)[e] = k => e = l
  BY <1>1, LookupIs
<1> QED
  BY <1>1, <1>2, <1>3 DEF Binds

(* The search of dict.c is the one with the keys that the list tells.      *)
LEMMA LookupIsLookupK ==
    ASSUME NEW d, Fits(entries, d), NEW k \in Keys
    PROVE  /\ BinOf(d, k) = BinK(KeysOf(entries), d, k)
           /\ Lookup(d, k) = LookupK(KeysOf(entries), d, k)
<1>1. DictShape(KeysOf(entries), d)
  BY DEF Fits, DictGood
<1> QED
  BY <1>1, Searches DEF SearchRule, Lookup, LookupK

(* The growth makes room for one more.                                     *)
LEMMA RoomyFits ==
    ASSUME NEW d, Fits(entries, d)
    PROVE  /\ Fits(entries, Roomy(d))
           /\ 5 * (Roomy(d).count + 1) <= 4 * Roomy(d).capacity
           /\ Held(Roomy(d)) = Held(d) /\ Roomy(d).count = d.count
<1>1. d.capacity \in Nat \ {0} /\ d.count \in Nat /\ 5 * d.count <= 4 * d.capacity
  BY FitsFacts DEF Fits
<1>2. CASE Crowded(d)
  <2>1. Roomy(d) = Grow(d)
    BY <1>2 DEF Roomy
  <2>2. PICK g : g = Grow(d)
    OBVIOUS
  <2>3. /\ DictGood(KeysOf(entries), g) /\ g.capacity = 2 * d.capacity /\ g.count = d.count
        /\ Held(g) = Held(d) /\ Cardinality(Taken(g)) = Cardinality(Taken(d))
    BY <2>2, GrowGood DEF Fits
  <2>4. 5 * (g.count + 1) <= 4 * g.capacity /\ 5 * g.count <= 4 * g.capacity
    BY <1>1, <2>3
  <2>5. Fits(entries, g)
    BY <2>3, <2>4 DEF Fits
  <2> QED
    BY <2>1, <2>2, <2>3, <2>4, <2>5
<1>3. CASE ~ Crowded(d)
  <2>1. Roomy(d) = d
    BY <1>3 DEF Roomy
  <2>2. ~ ((d.count + 1) * 5 > d.capacity * 4)
    BY <1>3 DEF Crowded
  <2>3. 5 * (d.count + 1) <= 4 * d.capacity
    BY <1>1, <2>2
  <2> QED
    BY <2>1, <2>3
<1> QED
  BY <1>2, <1>3

(* What calls make of the entries and of the bins. *)
NewValue(es, e, v) == [es EXCEPT !.items[e].val = v]

OneMore(K, d, k, e) == [d EXCEPT !.bins[BinK(K, d, k)] = e, !.count = @ + 1]

OneLess(K, d, k) == [d EXCEPT !.bins[BinK(K, d, k)] = TOMBSTONE, !.count = @ - 1]

(* A new value leaves the keys as they are.                                *)
LEMMA OverwriteFits ==
    ASSUME NEW es, NEW d, Fits(es, d), NEW e \in 0 .. es.count - 1, NEW v \in Values,
           NEW fs, fs = NewValue(es, e, v)
    PROVE  /\ Fits(fs, d) /\ KeysOf(fs) = KeysOf(es) /\ fs.count = es.count
           /\ \A i \in 0 .. es.count - 1 :
                 /\ fs.items[i].key = es.items[i].key
                 /\ fs.items[i].val = IF i = e THEN v ELSE es.items[i].val
<1>1. /\ es = [items |-> es.items, count |-> es.count, capacity |-> es.capacity]
      /\ es.capacity \in Nat /\ es.count \in 0 .. es.capacity
      /\ es.items = [i \in 0 .. es.capacity - 1 |-> es.items[i]]
  BY DEF Fits, ListShape
<1>2. \A i \in 0 .. es.count - 1 : es.items[i] \in [key : Keys, val : Values]
  BY DEF Fits
<1> DEFINE x == [es.items[e] EXCEPT !.val = v]
           items == [es.items EXCEPT ![e] = x]
<1>3. fs = [es EXCEPT !.items = items]
  BY DEF NewValue
<1>4. x \in [key : Keys, val : Values] /\ x.key = es.items[e].key /\ x.val = v
  BY <1>2
<1> HIDE DEF x
<1>5. \A i \in 0 .. es.count - 1 : i \in 0 .. es.capacity - 1
  BY <1>1
<1>6. items = [i \in 0 .. es.capacity - 1 |-> items[i]]
      /\ \A i \in 0 .. es.count - 1 : items[i] = IF i = e THEN x ELSE es.items[i]
  BY <1>1, <1>5
<1> HIDE DEF items
<1>7. fs = [items |-> items, count |-> es.count, capacity |-> es.capacity]
  <2>1. es = [items |-> es.items, count |-> es.count, capacity |-> es.capacity]
    BY <1>1
  <2> QED
    BY <1>3, <2>1
<1>8. fs = [items |-> fs.items, count |-> fs.count, capacity |-> fs.capacity]
      /\ fs.items = items /\ fs.count = es.count /\ fs.capacity = es.capacity
  BY <1>7
<1>9. ListShape(fs)
  BY <1>1, <1>6, <1>8 DEF ListShape
<1>10. \A i \in 0 .. es.count - 1 :
         /\ fs.items[i].key = es.items[i].key
         /\ fs.items[i].val = IF i = e THEN v ELSE es.items[i].val
         /\ fs.items[i] \in [key : Keys, val : Values]
  <2> TAKE i \in 0 .. es.count - 1
  <2>1. fs.items[i] = IF i = e THEN x ELSE es.items[i]
    BY <1>6, <1>8
  <2> QED
    BY <1>2, <1>4, <2>1
<1>11. KeysOf(fs) = KeysOf(es)
  BY <1>8, <1>10 DEF KeysOf
<1>12. Fits(fs, d)
  BY <1>8, <1>9, <1>10, <1>11 DEF Fits
<1> QED
  BY <1>8, <1>10, <1>11, <1>12

(* A new entry is put in a bin that is not in use.                         *)
LEMMA InsertFits ==
    ASSUME NEW es, NEW d, Fits(es, d), 5 * (d.count + 1) <= 4 * d.capacity,
           NEW k \in Keys, NEW v \in Values, LookupK(KeysOf(es), d, k) < 0,
           NEW fs, fs = ListAppend(es, [key |-> k, val |-> v]),
           NEW p, p = OneMore(KeysOf(es), d, k, es.count)
    PROVE  /\ Fits(fs, p) /\ Held(p) = Held(d) \cup {es.count} /\ p.count = d.count + 1
           /\ fs.count = es.count + 1 /\ fs.items[es.count] = [key |-> k, val |-> v]
           /\ \A i \in 0 .. es.count - 1 : fs.items[i] = es.items[i]
<1> DEFINE K == KeysOf(es)
           M == KeysOf(fs)
           e == es.count
<1>1. /\ DictGood(K, d) /\ Cardinality(Taken(d)) < d.capacity /\ IsFiniteSet(Taken(d))
      /\ e \in Nat /\ DOMAIN K = 0 .. e - 1 /\ \A i \in 0 .. e - 1 : K[i] = es.items[i].key
      /\ Held(d) \subseteq 0 .. e - 1 /\ d.count = Cardinality(Taken(d))
  BY FitsFacts DEF Fits
<1>2. /\ ListShape(fs) /\ fs.count = e + 1 /\ fs.items[e] = [key |-> k, val |-> v]
      /\ \A i \in 0 .. e - 1 : fs.items[i] = es.items[i]
  BY ListAppendEffect DEF Fits
<1>3. \A i \in 0 .. fs.count - 1 : i \in 0 .. e - 1 \/ i = e
  BY <1>1, <1>2
<1>4. \A i \in 0 .. fs.count - 1 : fs.items[i] \in [key : Keys, val : Values]
  <2>1. [key |-> k, val |-> v] \in [key : Keys, val : Values]
    OBVIOUS
  <2>2. \A i \in 0 .. e - 1 : fs.items[i] \in [key : Keys, val : Values]
    BY <1>2 DEF Fits
  <2> QED
    BY <1>2, <1>3, <2>1, <2>2
<1>5. /\ DOMAIN M = 0 .. e /\ M[e] = k /\ \A i \in DOMAIN K : M[i] = K[i]
      /\ DOMAIN K \subseteq DOMAIN M /\ DOMAIN M \subseteq Nat /\ e \in DOMAIN M
      /\ \A i \in DOMAIN M : M[i] \in Keys
  <2>1. fs.count - 1 = e
    BY <1>1, <1>2
  <2>2. DOMAIN M = 0 .. e /\ \A i \in 0 .. e : M[i] = fs.items[i].key
    BY <2>1 DEF KeysOf
  <2>3. \A i \in 0 .. e - 1 : i \in 0 .. e
    BY <1>1
  <2>4. e \in 0 .. e /\ 0 .. e \subseteq Nat
    BY <1>1
  <2>5. \A i \in DOMAIN K : M[i] = K[i]
    BY <1>1, <1>2, <2>2, <2>3
  <2>6. M[e] = k
    BY <1>2, <2>2, <2>4
  <2>7. \A i \in 0 .. e : M[i] \in Keys
    BY <1>4, <2>1, <2>2
  <2> QED
    BY <1>1, <2>2, <2>3, <2>4, <2>5, <2>6, <2>7
<1> HIDE DEF K, M, e
<1>6. DictGood(M, d)
  BY <1>1, <1>5, MoreKeys
<1>7. PICK l : l = LookupK(K, d, k)
  OBVIOUS
<1>8. \A x \in Held(d) : K[x] # k
  <2>1. l < 0
    BY <1>7 DEF K
  <2> QED
    BY <1>1, <1>7, <2>1, LookupFinds
<1>9. PICK r : r = BinK(K, d, k)
  OBVIOUS
<1>10. \E m : Free(d, k, m) /\ r = Bin(d, k, m)
  BY <1>1, <1>8, <1>9, LookupIs
<1>11. \A b \in Taken(d) : M[d.bins[b]] # M[e]
  <2>1. \A x \in Held(d) : M[x] # M[e]
    BY <1>1, <1>5, <1>8
  <2> QED
    BY <2>1 DEF Held
<1>12. d = [bins |-> d.bins, capacity |-> d.capacity, count |-> d.count]
  BY <1>1 DEF DictGood, DictShape
<1>13. p = [d EXCEPT !.bins[r] = e, !.count = @ + 1]
  BY <1>9 DEF OneMore, K, e
<1>14. p = [bins |-> [d.bins EXCEPT ![r] = e], capacity |-> d.capacity, count |-> d.count + 1]
  BY <1>12, <1>13
<1>15. /\ p.bins = [d.bins EXCEPT ![r] = e]
       /\ p.capacity = d.capacity /\ p.count = d.count + 1
  BY <1>14, DictFields
<1>16. p = [bins |-> p.bins, capacity |-> d.capacity, count |-> p.count]
  BY <1>14, DictFields
<1>17. DictGood(M, p) /\ Filled(d, p, r, e)
  <2>1. \E m : Free(d, M[e], m) /\ r = Bin(d, M[e], m)
    BY <1>5, <1>10
  <2>2. e \in DOMAIN M
    BY <1>5
  <2> QED
    BY <1>6, <1>11, <1>15, <1>16, <2>1, <2>2, PlaceGood
<1>18. /\ r \notin Taken(d) /\ Taken(p) = Taken(d) \cup {r} /\ p.bins[r] = e
       /\ \A b \in Taken(d) : p.bins[b] = d.bins[b]
  BY <1>17 DEF Filled
<1>20. Held(p) = Held(d) \cup {e}
  BY <1>18 DEF Held
<1>21. p.count = Cardinality(Taken(p))
  <2>1. Cardinality(Taken(d) \cup {r}) = Cardinality(Taken(d)) + 1
    BY <1>1, <1>18, FS_AddElement
  <2> QED
    BY <1>1, <1>15, <1>18, <2>1
<1>22. 5 * p.count <= 4 * p.capacity
  BY <1>15
<1>23. Fits(fs, p)
  BY <1>2, <1>4, <1>17, <1>21, <1>22 DEF Fits, M
<1> QED
  BY <1>2, <1>15, <1>20, <1>23 DEF e

(* A deleted entry is one less.                                            *)
LEMMA DeleteFits ==
    ASSUME NEW es, NEW d, Fits(es, d), NEW k \in Keys, LookupK(KeysOf(es), d, k) >= 0,
           NEW p, p = OneLess(KeysOf(es), d, k)
    PROVE  /\ Fits(es, p) /\ Held(p) = Held(d) \ {LookupK(KeysOf(es), d, k)}
           /\ p.count = d.count - 1 /\ d.count \in Nat
<1> DEFINE K == KeysOf(es)
<1>1. /\ DictGood(K, d) /\ Cardinality(Taken(d)) < d.capacity /\ IsFiniteSet(Taken(d))
      /\ d.count = Cardinality(Taken(d)) /\ d.capacity \in Nat \ {0} /\ d.count \in Nat
      /\ 5 * d.count <= 4 * d.capacity
  BY FitsFacts DEF Fits
<1> HIDE DEF K
<1>2. PICK r : r = BinK(K, d, k)
  OBVIOUS
<1>3. r \in Taken(d)
  <2>1. LookupK(K, d, k) >= 0
    BY DEF K
  <2> QED
    BY <1>1, <1>2, <2>1, LookupFinds
<1>4. LookupK(K, d, k) = d.bins[r]
  BY <1>2 DEF LookupK
<1>5. /\ d = [bins |-> d.bins, capacity |-> d.capacity, count |-> d.count]
  BY <1>1 DEF DictGood, DictShape
<1>6. p = [d EXCEPT !.bins[r] = TOMBSTONE, !.count = @ - 1]
  BY <1>2 DEF OneLess, K
<1>7. p = [bins |-> [d.bins EXCEPT ![r] = TOMBSTONE], capacity |-> d.capacity, count |-> d.count - 1]
  BY <1>5, <1>6
<1>8. /\ p.bins = [d.bins EXCEPT ![r] = TOMBSTONE]
      /\ p.capacity = d.capacity /\ p.count = d.count - 1
  BY <1>7, DictFields
<1>9. p = [bins |-> p.bins, capacity |-> d.capacity, count |-> p.count]
  BY <1>7, DictFields
<1>10. DictGood(K, p) /\ Emptied(d, p, r)
  BY <1>1, <1>3, <1>8, <1>9, DeleteGood
<1>11. Taken(p) = Taken(d) \ {r} /\ \A b \in Taken(p) : p.bins[b] = d.bins[b]
  BY <1>10 DEF Emptied
<1>12. Held(p) = Held(d) \ {d.bins[r]}
  <2>1. \A a, b \in Taken(d) : d.bins[a] = d.bins[b] => a = b
    BY <1>1 DEF DictGood, OneBinEach
  <2>2. Held(p) = {d.bins[b] : b \in Taken(d) \ {r}}
    BY <1>11 DEF Held
  <2> QED
    BY <1>3, <2>1, <2>2 DEF Held
<1>13. p.count = Cardinality(Taken(p))
  BY <1>1, <1>3, <1>8, <1>11, FS_RemoveElement
<1>14. 5 * p.count <= 4 * p.capacity
  BY <1>1, <1>8
<1>15. Fits(es, p)
  BY <1>10, <1>13, <1>14 DEF Fits, K
<1> QED
  BY <1>1, <1>4, <1>8, <1>12, <1>15 DEF K

-----------------------------------------------------------------------------
(* The dictionary: what the calls do.                                      *)

Rests(es, d, fs, p) == fs = es /\ Held(p) = Held(d)

Rewrites(es, d, fs, p, k, v) ==
    /\ \E e : Binds(es, d, k, e) /\ fs = NewValue(es, e, v)
    /\ Held(p) = Held(d)

Gains(es, d, fs, p, k, v) ==
    /\ \A e : ~ Binds(es, d, k, e)
    /\ Held(p) = Held(d) \cup {es.count}
    /\ fs.count = es.count + 1 /\ fs.items[es.count] = [key |-> k, val |-> v]
    /\ \A i \in 0 .. es.count - 1 : fs.items[i] = es.items[i]

Loses(es, d, fs, p, k) ==
    /\ \E e : Binds(es, d, k, e) /\ Held(p) = Held(d) \ {e}
    /\ fs = es /\ p.count < d.count

DictEffect(es, d, fs, p) ==
    \/ Rests(es, d, fs, p)
    \/ \E k \in Keys : \E v \in Values : Rewrites(es, d, fs, p, k, v) \/ Gains(es, d, fs, p, k, v)
    \/ \E k \in Keys : Loses(es, d, fs, p, k)

(* A new dictionary is empty. *)
LEMMA DictInitInv == DictInit => DictInv /\ Held(dict) = {}
<1> SUFFICES ASSUME DictInit PROVE DictInv /\ Held(dict) = {}
  OBVIOUS
<1>1. dict = EmptyBins(InitCap, 0) /\ InitCap \in Nat \ {0} /\ EntriesCapacity \in Nat \ {0}
  BY DictAssumption DEF DictInit
<1>2. entries = [items |-> [i \in 0 .. EntriesCapacity - 1 |-> L!Zero], count |-> 0,
                 capacity |-> EntriesCapacity]
  BY DEF DictInit, L!ListAlloc
<1>3. /\ entries = [items |-> entries.items, count |-> entries.count, capacity |-> entries.capacity]
      /\ entries.count = 0 /\ entries.capacity = EntriesCapacity
      /\ entries.items = [i \in 0 .. EntriesCapacity - 1 |-> L!Zero]
  BY <1>2
<1>4. ListShape(entries)
  BY <1>1, <1>3 DEF ListShape
<1>5. DOMAIN KeysOf(entries) = {}
  BY <1>3 DEF KeysOf
<1>6. PICK K : K = KeysOf(entries)
  OBVIOUS
<1>7. DictGood(K, dict) /\ Taken(dict) = {}
  <2>1. DOMAIN K \subseteq Nat /\ \A e \in DOMAIN K : K[e] \in Keys
    BY <1>5, <1>6
  <2> QED
    BY <1>1, <2>1, EmptyGood
<1>8. dict.count = 0 /\ dict.capacity = InitCap
  BY <1>1 DEF EmptyBins
<1>9. Cardinality(Taken(dict)) = 0
  BY <1>7, FS_EmptySet
<1>10. \A i \in 0 .. entries.count - 1 : entries.items[i] \in [key : Keys, val : Values]
  BY <1>3
<1>11. 5 * dict.count <= 4 * dict.capacity
  BY <1>1, <1>8
<1>12. Held(dict) = {}
  BY <1>7 DEF Held
<1> QED
  BY <1>4, <1>6, <1>7, <1>8, <1>9, <1>10, <1>11, <1>12 DEF DictInv, Fits

(* The list of the entries is a list. *)
LEMMA EntriesAppend == \A es, x : L!ListAppend(es, x) = ListAppend(es, x)
  BY DEF L!ListAppend, ListAppend, L!ListResize, ListResize, L!NewCapacity, NewCapacity, L!Junk, Junk

(* Every call keeps the invariant, and what it does is one of four things. *)
LEMMA DictStep ==
    ASSUME DictInv, [DictNext]_dictVars
    PROVE  DictInv' /\ DictEffect(entries, dict, entries', dict')
<1> DEFINE d == Roomy(dict)
<1>1. /\ Fits(entries, d) /\ 5 * (d.count + 1) <= 4 * d.capacity
      /\ Held(d) = Held(dict) /\ d.count = dict.count
  BY RoomyFits DEF DictInv
<1>2. \A k, e : Binds(entries, d, k, e) <=> Binds(entries, dict, k, e)
  BY <1>1 DEF Binds
<1> HIDE DEF d
<1>3. CASE UNCHANGED dictVars
  <2>1. dict' = dict /\ entries' = entries
    BY <1>3 DEF dictVars
  <2>2. Rests(entries, dict, entries', dict')
    BY <2>1 DEF Rests
  <2> QED
    BY <2>1, <2>2 DEF DictInv, DictEffect
<1>4. CASE InsertWithoutBins
  BY <1>3, <1>4 DEF InsertWithoutBins
<1>5. ASSUME NEW k \in Keys, NEW v \in Values, Overwrite(k, v)
      PROVE  DictInv' /\ DictEffect(entries, dict, entries', dict')
  <2>1. PICK e : e = Lookup(d, k)
    OBVIOUS
  <2>2. e >= 0 /\ dict' = d /\ entries' = NewValue(entries, e, v)
    BY <1>5, <2>1 DEF Overwrite, NewValue, d
  <2>3. e = LookupK(KeysOf(entries), d, k)
    BY <1>1, <2>1, LookupIsLookupK
  <2>4. Binds(entries, d, k, e) /\ e \in 0 .. entries.count - 1
    BY <1>1, <2>2, <2>3, LookupBinds
  <2>5. PICK fs : fs = entries'
    OBVIOUS
  <2>6. Fits(fs, d)
    BY <1>1, <2>2, <2>4, <2>5, OverwriteFits
  <2>7. Rewrites(entries, dict, entries', dict', k, v)
    BY <1>1, <1>2, <2>2, <2>4 DEF Rewrites
  <2> QED
    BY <2>2, <2>5, <2>6, <2>7 DEF DictInv, DictEffect
<1>6. ASSUME NEW k \in Keys, NEW v \in Values, InsertNew(k, v)
      PROVE  DictInv' /\ DictEffect(entries, dict, entries', dict')
  <2>1. /\ Lookup(d, k) < 0 /\ entries' = L!ListAppend(entries, [key |-> k, val |-> v])
        /\ dict' = [d EXCEPT !.bins[BinOf(d, k)] = entries.count, !.count = @ + 1]
    BY <1>6 DEF InsertNew, d
  <2>2. /\ Lookup(d, k) = LookupK(KeysOf(entries), d, k)
        /\ BinOf(d, k) = BinK(KeysOf(entries), d, k)
    BY <1>1, LookupIsLookupK
  <2>3. dict' = OneMore(KeysOf(entries), d, k, entries.count)
    BY <2>1, <2>2 DEF OneMore
  <2>4. entries' = ListAppend(entries, [key |-> k, val |-> v])
    BY <2>1, EntriesAppend
  <2>5. LookupK(KeysOf(entries), d, k) < 0
    BY <2>1, <2>2
  <2>6. PICK fs : fs = entries'
    OBVIOUS
  <2>7. PICK p : p = dict'
    OBVIOUS
  <2>8. /\ Fits(fs, p) /\ Held(p) = Held(d) \cup {entries.count}
        /\ fs.count = entries.count + 1 /\ fs.items[entries.count] = [key |-> k, val |-> v]
        /\ \A i \in 0 .. entries.count - 1 : fs.items[i] = entries.items[i]
    BY <1>1, <2>3, <2>4, <2>5, <2>6, <2>7, InsertFits
  <2>9. \A e : ~ Binds(entries, dict, k, e)
    <3>1. PICK l : l = LookupK(KeysOf(entries), d, k)
      OBVIOUS
    <3>2. \A e : ~ Binds(entries, d, k, e)
      BY <1>1, <2>5, <3>1, LookupBinds
    <3> QED
      BY <1>2, <3>2
  <2>10. Gains(entries, dict, fs, p, k, v)
    BY <1>1, <2>8, <2>9 DEF Gains
  <2> QED
    BY <2>6, <2>7, <2>8, <2>10 DEF DictInv, DictEffect
<1>7. ASSUME NEW k \in Keys, InsertWithoutEntry(k)
      PROVE  DictInv' /\ DictEffect(entries, dict, entries', dict')
  <2>1. dict' = d /\ entries' = entries
    BY <1>7 DEF InsertWithoutEntry, d
  <2>2. Rests(entries, dict, entries', dict')
    BY <1>1, <2>1 DEF Rests
  <2> QED
    BY <1>1, <2>1, <2>2 DEF DictInv, DictEffect
<1>8. ASSUME NEW k \in Keys, Delete(k)
      PROVE  DictInv' /\ DictEffect(entries, dict, entries', dict')
  <2>1. PICK e : e = Lookup(dict, k)
    OBVIOUS
  <2>2. /\ e >= 0 /\ entries' = entries
        /\ dict' = [dict EXCEPT !.bins[BinOf(dict, k)] = TOMBSTONE, !.count = @ - 1]
    BY <1>8, <2>1 DEF Delete
  <2>3. /\ e = LookupK(KeysOf(entries), dict, k)
        /\ BinOf(dict, k) = BinK(KeysOf(entries), dict, k)
    BY <2>1, LookupIsLookupK DEF DictInv
  <2>4. dict' = OneLess(KeysOf(entries), dict, k)
    BY <2>2, <2>3 DEF OneLess
  <2>5. Binds(entries, dict, k, e)
    BY <2>2, <2>3, LookupBinds DEF DictInv
  <2>6. PICK p : p = dict'
    OBVIOUS
  <2>7. /\ Fits(entries, p) /\ Held(p) = Held(dict) \ {e}
        /\ p.count = dict.count - 1 /\ dict.count \in Nat
    BY <2>2, <2>3, <2>4, <2>6, DeleteFits DEF DictInv
  <2>8. p.count < dict.count
    BY <2>7
  <2>9. Loses(entries, dict, entries', p, k)
    BY <2>2, <2>5, <2>7, <2>8 DEF Loses
  <2> QED
    BY <2>2, <2>6, <2>7, <2>9 DEF DictInv, DictEffect
<1>9. ASSUME NEW k \in Keys, DeleteNothing(k)
      PROVE  DictInv' /\ DictEffect(entries, dict, entries', dict')
  BY <1>3, <1>9 DEF DeleteNothing
<1> QED
  BY <1>3, <1>4, <1>5, <1>6, <1>7, <1>8, <1>9 DEF DictNext

(* The invariant holds in every state.                                     *)
THEOREM DictInvariant == DictSpec => []DictInv
<1>1. DictInit => DictInv
  BY DictInitInv
<1>2. DictInv /\ [DictNext]_dictVars => DictInv'
  BY DictStep
<1> QED
  BY <1>1, <1>2, PTL DEF DictSpec

(* The bins in use lead to different entries of different keys, and the    *)
(* count is how many they are, whatever is inserted and deleted.           *)
THEOREM DictWellTyped == DictSpec => []DictTypeOK
<1>1. DictInv => DictTypeOK
  <2> SUFFICES ASSUME DictInv PROVE DictTypeOK
    OBVIOUS
  <2> DEFINE K == KeysOf(entries)
             n == dict.capacity
  <2>1. /\ DictGood(K, dict) /\ DictShape(K, dict) /\ DOMAIN K = 0 .. entries.count - 1
        /\ \A e \in 0 .. entries.count - 1 : K[e] = entries.items[e].key
        /\ entries.count \in Nat /\ n \in Nat \ {0} /\ dict.count = Cardinality(Taken(dict))
    BY FitsFacts DEF DictInv, Fits, DictGood
  <2>2. DOMAIN dict.bins = 0 .. n - 1
    BY <2>1 DEF DictShape
  <2>3. DOMAIN entries.items = 0 .. entries.capacity - 1 /\ entries.count <= entries.capacity
    BY DEF DictInv, Fits, ListShape
  <2> HIDE DEF K, n
  <2>4. InUse = Taken(dict)
    BY <2>2 DEF InUse, Taken, n
  <2>5. \A b \in DOMAIN dict.bins : dict.bins[b] \in -2 .. entries.count - 1
    <3> SUFFICES ASSUME NEW b \in 0 .. n - 1 PROVE dict.bins[b] \in -2 .. entries.count - 1
      BY <2>2
    <3>1. dict.bins[b] \in 0 .. entries.count - 1 \/ dict.bins[b] \in {EMPTY, TOMBSTONE}
      BY <2>1, BinContent DEF n
    <3> QED
      BY <2>1, <3>1 DEF EMPTY, TOMBSTONE
  <2>6. \A b \in InUse : KeyAt(dict, b) = K[dict.bins[b]]
    <3> TAKE b \in InUse
    <3>1. b \in Taken(dict) /\ b \in 0 .. n - 1
      BY <2>4 DEF Taken, n
    <3>2. dict.bins[b] \in 0 .. entries.count - 1
      BY <2>1, <3>1, BinContent DEF n
    <3> QED
      BY <2>1, <3>2 DEF KeyAt
  <2>7. \A b, c \in InUse : KeyAt(dict, b) = KeyAt(dict, c) => b = c
    BY <2>1, <2>4, <2>6 DEF DictGood, OneBinEach
  <2> QED
    BY <2>1, <2>2, <2>3, <2>4, <2>5, <2>7 DEF DictTypeOK, n
<1> QED
  BY <1>1, DictInvariant, PTL

(* Every search ends at the bin of its key, or at one that is not in use,  *)
(* however the tombstones lie.                                             *)
THEOREM SearchesEndRight == DictSpec => []LookupsAgree
<1>1. DictInv => LookupsAgree
  <2> SUFFICES ASSUME DictInv PROVE LookupsAgree
    OBVIOUS
  <2> DEFINE K == KeysOf(entries)
             n == dict.capacity
  <2>1. /\ Fits(entries, dict) /\ DictGood(K, dict) /\ DictShape(K, dict)
        /\ DOMAIN K = 0 .. entries.count - 1
        /\ \A e \in 0 .. entries.count - 1 : K[e] = entries.items[e].key
        /\ Cardinality(Taken(dict)) < dict.capacity
    BY FitsFacts DEF DictInv, Fits, DictGood
  <2>2. InUse = Taken(dict)
    BY <2>1 DEF InUse, Taken, DictShape
  <2>3. \A k \in Keys : BinOf(dict, k) = BinK(K, dict, k)
    BY <2>1, LookupIsLookupK
  <2> HIDE DEF K, n
  <2>4. \A b \in InUse : KeyAt(dict, b) = K[dict.bins[b]]
    <3> TAKE b \in InUse
    <3>1. b \in Taken(dict) /\ b \in 0 .. n - 1
      BY <2>2 DEF Taken, n
    <3>2. dict.bins[b] \in 0 .. entries.count - 1
      BY <2>1, <3>1, BinContent DEF n
    <3> QED
      BY <2>1, <3>2 DEF KeyAt
  <2>5. \A b \in InUse : BinOf(dict, KeyAt(dict, b)) = b
    <3> TAKE b \in InUse
    <3>1. K[dict.bins[b]] \in Keys /\ BinK(K, dict, K[dict.bins[b]]) = b
      BY <2>1, <2>2, FoundWhereItIs
    <3> QED
      BY <2>3, <2>4, <3>1
  <2>6. ASSUME NEW k \in Keys, BinOf(dict, k) \in InUse
        PROVE  KeyAt(dict, BinOf(dict, k)) = k
    <3>1. PICK b : b = BinK(K, dict, k)
      OBVIOUS
    <3>2. BinOf(dict, k) = b /\ b \in InUse /\ dict.bins[b] >= 0
      BY <2>2, <2>3, <2>6, <3>1 DEF Taken
    <3>3. LookupK(K, dict, k) >= 0 /\ LookupK(K, dict, k) = dict.bins[b]
      BY <3>1, <3>2 DEF LookupK
    <3>4. K[dict.bins[b]] = k
      BY <2>1, <3>3, LookupFinds
    <3> QED
      BY <2>4, <3>2, <3>4
  <2> QED
    BY <2>5, <2>6 DEF LookupsAgree
<1> QED
  BY <1>1, DictInvariant, PTL

(* What a lookup in es and d finds. *)
Find(es, d, k) == LookupK(KeysOf(es), d, k)

ContentsOf(es, d) ==
    [k \in {x \in Keys : Find(es, d, x) >= 0} |-> es.items[Find(es, d, k)].val]

FindRule ==
    DictInv => /\ \A k \in Keys : Lookup(dict, k) = Find(entries, dict, k)
               /\ Contents = ContentsOf(entries, dict)

(* Lookups and what they find, as the bins and the keys tell.              *)
LEMMA Finds == FindRule
<1> SUFFICES ASSUME DictInv
             PROVE  /\ \A k \in Keys : Lookup(dict, k) = Find(entries, dict, k)
                    /\ Contents = ContentsOf(entries, dict)
  BY DEF FindRule
<1>1. \A k \in Keys : Lookup(dict, k) = Find(entries, dict, k)
  BY LookupIsLookupK DEF DictInv, Find
<1> DEFINE at == [k \in Keys |-> Lookup(dict, k)]
           D == {x \in Keys : at[x] >= 0}
           E == {x \in Keys : Find(entries, dict, x) >= 0}
<1>2. Contents = [k \in D |-> entries.items[at[k]].val]
  BY DEF Contents
<1>3. D = E /\ \A k \in D : at[k] = Find(entries, dict, k)
  BY <1>1
<1>4. ContentsOf(entries, dict) = [k \in E |-> entries.items[Find(entries, dict, k)].val]
  BY DEF ContentsOf
<1> HIDE DEF at, D, E
<1> QED
  BY <1>1, <1>2, <1>3, <1>4

Stays(es, d, fs, p) ==
    \A k \in Keys : Find(es, d, k) >= 0 =>
       \/ Find(fs, p, k) = Find(es, d, k)
       \/ Find(fs, p, k) < 0 /\ p.count < d.count

(* No call moves what an earlier lookup found.                             *)
LEMMA EntryStays ==
    ASSUME NEW es, NEW d, NEW fs, NEW p, Fits(es, d), Fits(fs, p), DictEffect(es, d, fs, p)
    PROVE  Stays(es, d, fs, p)
<1> SUFFICES ASSUME NEW k \in Keys, Find(es, d, k) >= 0
             PROVE  \/ Find(fs, p, k) = Find(es, d, k)
                    \/ Find(fs, p, k) < 0 /\ p.count < d.count
  BY DEF Stays
<1>1. PICK l : l = Find(es, d, k)
  OBVIOUS
<1>2. PICK m : m = Find(fs, p, k)
  OBVIOUS
<1>3. Binds(es, d, k, l) /\ l \in 0 .. es.count - 1 /\ \A e : Binds(es, d, k, e) => e = l
  BY <1>1, LookupBinds DEF Find
<1>4. /\ m >= 0 => Binds(fs, p, k, m)
      /\ m >= 0 \/ m < 0
      /\ \A e : Binds(fs, p, k, e) => e = m
  BY <1>2, LookupBinds DEF Find
<1>5. CASE Rests(es, d, fs, p)
  <2>1. Binds(fs, p, k, l)
    BY <1>3, <1>5 DEF Rests, Binds
  <2> QED
    BY <1>1, <1>2, <1>4, <2>1
<1>6. ASSUME NEW x \in Keys, NEW v \in Values, Rewrites(es, d, fs, p, x, v)
      PROVE  m = l
  <2>1. PICK e : Binds(es, d, x, e) /\ fs = NewValue(es, e, v)
    BY <1>6 DEF Rewrites
  <2>2. e \in 0 .. es.count - 1
    BY <2>1, FitsFacts DEF Binds
  <2>3. fs.items[l].key = es.items[l].key
    BY <1>3, <2>1, <2>2, OverwriteFits
  <2>4. Binds(fs, p, k, l)
    BY <1>3, <1>6, <2>3 DEF Rewrites, Binds
  <2> QED
    BY <1>4, <2>4
<1>7. ASSUME NEW x \in Keys, NEW v \in Values, Gains(es, d, fs, p, x, v)
      PROVE  m = l
  <2>1. Binds(fs, p, k, l)
    BY <1>3, <1>7 DEF Gains, Binds
  <2> QED
    BY <1>4, <2>1
<1>8. ASSUME NEW x \in Keys, Loses(es, d, fs, p, x)
      PROVE  m = l \/ (m < 0 /\ p.count < d.count)
  <2>1. PICK e : Binds(es, d, x, e) /\ Held(p) = Held(d) \ {e} /\ fs = es /\ p.count < d.count
    BY <1>8 DEF Loses
  <2>2. m >= 0 => m = l
    BY <1>3, <1>4, <2>1 DEF Binds
  <2> QED
    BY <1>4, <2>1, <2>2
<1> QED
  BY <1>1, <1>2, <1>5, <1>6, <1>7, <1>8 DEF DictEffect

(* What a lookup handed out stays the entry of its key, through every      *)
(* growth, until the key is deleted.                                       *)
THEOREM EntriesStay == DictSpec => EntryStable
<1> DEFINE A == \A k \in Keys : Lookup(dict, k) >= 0 =>
                   \/ Lookup(dict, k)' = Lookup(dict, k)
                   \/ Lookup(dict, k)' < 0 /\ dict'.count < dict.count
<1>1. ASSUME DictInv, [DictNext]_dictVars PROVE A
  <2>1. DictInv' /\ DictEffect(entries, dict, entries', dict')
    BY <1>1, DictStep
  <2>2. \A k \in Keys : Lookup(dict, k) = Find(entries, dict, k)
    BY <1>1, Finds DEF FindRule
  <2>3. FindRule'
    BY Finds, PTL
  <2>4. \A k \in Keys : Lookup(dict, k)' = Find(entries', dict', k)
    BY <2>1, <2>3 DEF FindRule
  <2>5. Fits(entries', dict')
    BY <2>1 DEF DictInv
  <2>6. Stays(entries, dict, entries', dict')
    <3>1. Fits(entries, dict)
      BY <1>1 DEF DictInv
    <3> QED
      BY <2>1, <2>5, <3>1, EntryStays
  <2> QED
    BY <2>2, <2>4, <2>6 DEF Stays
<1>2. DictInv /\ [DictNext]_dictVars => [A]_dictVars
  BY <1>1
<1> QED
  BY <1>2, DictInvariant, PTL DEF DictSpec, EntryStable

(* The contents are what the entries bind.                                 *)
LEMMA ContentsFacts ==
    ASSUME NEW es, NEW d, Fits(es, d), NEW C, C = ContentsOf(es, d)
    PROVE  /\ C = [k \in DOMAIN C |-> C[k]]
           /\ DOMAIN C \subseteq Keys
           /\ \A k \in Keys : k \in DOMAIN C <=> \E e : Binds(es, d, k, e)
           /\ \A k \in Keys : \A e : Binds(es, d, k, e) => C[k] = es.items[e].val
<1> DEFINE E == {x \in Keys : Find(es, d, x) >= 0}
<1>1. C = [k \in E |-> es.items[Find(es, d, k)].val]
  BY DEF ContentsOf
<1>2. \A k \in Keys : k \in E <=> \E e : Binds(es, d, k, e)
  <2> TAKE k \in Keys
  <2>1. PICK l : l = LookupK(KeysOf(es), d, k)
    OBVIOUS
  <2>2. l >= 0 => Binds(es, d, k, l)
    BY <2>1, LookupBinds
  <2>3. \A e : Binds(es, d, k, e) => e = l /\ l >= 0
    BY <2>1, LookupBinds
  <2> QED
    BY <2>1, <2>2, <2>3 DEF Find
<1>3. ASSUME NEW k \in Keys, NEW e, Binds(es, d, k, e) PROVE k \in E /\ Find(es, d, k) = e
  <2>1. PICK l : l = LookupK(KeysOf(es), d, k)
    OBVIOUS
  <2>2. e = l /\ l >= 0
    BY <1>3, <2>1, LookupBinds
  <2> QED
    BY <2>1, <2>2 DEF Find
<1>4. E \subseteq Keys
  OBVIOUS
<1> HIDE DEF E
<1>5. DOMAIN C = E /\ \A k \in E : C[k] = es.items[Find(es, d, k)].val
  BY <1>1
<1>6. C = [k \in DOMAIN C |-> C[k]]
  BY <1>1, <1>5
<1> QED
  BY <1>2, <1>3, <1>4, <1>5, <1>6

(* Two maps with the same bindings are the same.                           *)
LEMMA SameMap ==
    ASSUME NEW C, NEW D, C = [k \in DOMAIN C |-> C[k]], D = [k \in DOMAIN D |-> D[k]],
           DOMAIN C = DOMAIN D, \A k \in DOMAIN C : C[k] = D[k]
    PROVE  C = D
  OBVIOUS

(* What a call does to the map. *)
MapEffect(C, D) ==
    \/ D = C
    \/ \E k \in Keys :
          \/ \E v \in Values :
                \/ k \notin DOMAIN C /\ D = [x \in DOMAIN C \cup {k} |-> IF x = k THEN v ELSE C[x]]
                \/ k \in DOMAIN C /\ D = [C EXCEPT ![k] = v]
          \/ k \in DOMAIN C /\ D = [x \in DOMAIN C \ {k} |-> C[x]]

(* Each of the four things that calls do is one that the map allows.       *)
LEMMA EffectOnMap ==
    ASSUME NEW es, NEW d, NEW fs, NEW p, Fits(es, d), Fits(fs, p), DictEffect(es, d, fs, p)
    PROVE  MapEffect(ContentsOf(es, d), ContentsOf(fs, p))
<1>1. PICK C : C = ContentsOf(es, d)
  OBVIOUS
<1>2. PICK D : D = ContentsOf(fs, p)
  OBVIOUS
<1>3. /\ C = [k \in DOMAIN C |-> C[k]] /\ DOMAIN C \subseteq Keys
      /\ \A k \in Keys : k \in DOMAIN C <=> \E e : Binds(es, d, k, e)
      /\ \A k \in Keys : \A e : Binds(es, d, k, e) => C[k] = es.items[e].val
  BY <1>1, ContentsFacts
<1>4. /\ D = [k \in DOMAIN D |-> D[k]] /\ DOMAIN D \subseteq Keys
      /\ \A k \in Keys : k \in DOMAIN D <=> \E e : Binds(fs, p, k, e)
      /\ \A k \in Keys : \A e : Binds(fs, p, k, e) => D[k] = fs.items[e].val
  BY <1>2, ContentsFacts
<1>5. Held(d) \subseteq 0 .. es.count - 1 /\ es.count \in Nat
  BY FitsFacts
<1>6. CASE Rests(es, d, fs, p)
  <2>1. \A k, e : Binds(fs, p, k, e) <=> Binds(es, d, k, e)
    BY <1>6 DEF Rests, Binds
  <2>2. DOMAIN C = DOMAIN D
    BY <1>3, <1>4, <2>1
  <2>3. \A k \in DOMAIN C : C[k] = D[k]
    BY <1>3, <1>4, <1>6, <2>1 DEF Rests
  <2>4. C = D
    BY <1>3, <1>4, <2>2, <2>3, SameMap
  <2> QED
    BY <1>1, <1>2, <2>4 DEF MapEffect
<1>7. ASSUME NEW k \in Keys, NEW v \in Values, Rewrites(es, d, fs, p, k, v)
      PROVE  MapEffect(C, D)
  <2>1. PICK e : Binds(es, d, k, e) /\ fs = NewValue(es, e, v)
    BY <1>7 DEF Rewrites
  <2>2. e \in 0 .. es.count - 1
    BY <1>5, <2>1 DEF Binds
  <2>3. \A i \in 0 .. es.count - 1 :
           /\ fs.items[i].key = es.items[i].key
           /\ fs.items[i].val = IF i = e THEN v ELSE es.items[i].val
    BY <2>1, <2>2, OverwriteFits
  <2>4. \A x, i : Binds(fs, p, x, i) <=> Binds(es, d, x, i)
    BY <1>5, <1>7, <2>3 DEF Rewrites, Binds
  <2>5. DOMAIN D = DOMAIN C /\ k \in DOMAIN C
    BY <1>3, <1>4, <2>1, <2>4
  <2> DEFINE N == [C EXCEPT ![k] = v]
  <2>6. DOMAIN N = DOMAIN C /\ N = [x \in DOMAIN N |-> N[x]]
        /\ \A x \in DOMAIN C : N[x] = IF x = k THEN v ELSE C[x]
    BY <1>3
  <2> HIDE DEF N
  <2>7. \A x \in DOMAIN C : D[x] = IF x = k THEN v ELSE C[x]
    <3> TAKE x \in DOMAIN C
    <3>1. PICK i : Binds(es, d, x, i)
      BY <1>3
    <3>2. i \in 0 .. es.count - 1 /\ (i = e <=> x = k)
      <4>1. i = e => x = k
        BY <2>1, <3>1 DEF Binds
      <4>2. PICK l : l = LookupK(KeysOf(es), d, k)
        OBVIOUS
      <4>3. \A j : Binds(es, d, k, j) => j = l
        BY <4>2, LookupBinds
      <4> QED
        BY <1>5, <2>1, <3>1, <4>1, <4>3 DEF Binds
    <3>3. C[x] = es.items[i].val /\ D[x] = fs.items[i].val
      BY <1>3, <1>4, <2>4, <3>1
    <3> QED
      BY <2>3, <3>2, <3>3
  <2>8. \A x \in DOMAIN D : D[x] = N[x]
    BY <2>5, <2>6, <2>7
  <2>9. D = N
    BY <1>4, <2>5, <2>6, <2>8, SameMap
  <2> QED
    BY <2>5, <2>9 DEF MapEffect, N
<1>8. ASSUME NEW k \in Keys, NEW v \in Values, Gains(es, d, fs, p, k, v)
      PROVE  MapEffect(C, D)
  <2> DEFINE e == es.count
             N == [x \in DOMAIN C \cup {k} |-> IF x = k THEN v ELSE C[x]]
  <2>1. /\ \A i : ~ Binds(es, d, k, i)
        /\ Held(p) = Held(d) \cup {e} /\ fs.items[e] = [key |-> k, val |-> v]
        /\ \A i \in 0 .. e - 1 : fs.items[i] = es.items[i]
    BY <1>8 DEF Gains
  <2>2. \A x, i : Binds(fs, p, x, i) <=> Binds(es, d, x, i) \/ (x = k /\ i = e)
    <3> SUFFICES ASSUME NEW x, NEW i
                 PROVE  Binds(fs, p, x, i) <=> Binds(es, d, x, i) \/ (x = k /\ i = e)
      OBVIOUS
    <3>1. CASE i = e
      <4>1. i \notin Held(d)
        BY <1>5, <3>1
      <4>2. fs.items[e].key = k
        BY <2>1
      <4> HIDE DEF e
      <4> QED
        BY <2>1, <3>1, <4>1, <4>2 DEF Binds
    <3>2. CASE i # e
      <4>1. i \in Held(d) => fs.items[i] = es.items[i]
        BY <1>5, <2>1
      <4> HIDE DEF e
      <4> QED
        BY <2>1, <3>2, <4>1 DEF Binds
    <3> QED
      BY <3>1, <3>2
  <2> HIDE DEF e
  <2>3. k \notin DOMAIN C
    BY <1>3, <2>1
  <2>4. DOMAIN D = DOMAIN C \cup {k}
    BY <1>3, <1>4, <2>2
  <2>5. ASSUME NEW x \in DOMAIN D PROVE D[x] = IF x = k THEN v ELSE C[x]
    <3>1. x \in Keys
      BY <1>4
    <3>2. CASE x = k
      <4>1. D[k] = fs.items[e].val
        BY <1>4, <2>2
      <4> QED
        BY <2>1, <3>2, <4>1
    <3>3. CASE x # k
      <4>1. PICK i : Binds(es, d, x, i)
        BY <1>3, <2>4, <3>1, <3>3
      <4>2. i \in 0 .. e - 1
        BY <1>5, <4>1 DEF Binds, e
      <4>3. C[x] = es.items[i].val /\ D[x] = fs.items[i].val
        BY <1>3, <1>4, <2>2, <3>1, <4>1
      <4> QED
        BY <2>1, <3>3, <4>2, <4>3
    <3> QED
      BY <3>2, <3>3
  <2>6. N = [x \in DOMAIN N |-> N[x]] /\ DOMAIN N = DOMAIN D
        /\ \A x \in DOMAIN D : N[x] = IF x = k THEN v ELSE C[x]
    BY <2>4
  <2> HIDE DEF N
  <2>7. D = N
    BY <1>4, <2>5, <2>6, SameMap
  <2> QED
    BY <2>3, <2>7 DEF MapEffect, N
<1>9. ASSUME NEW k \in Keys, Loses(es, d, fs, p, k)
      PROVE  MapEffect(C, D)
  <2> DEFINE N == [x \in DOMAIN C \ {k} |-> C[x]]
  <2>1. PICK e : Binds(es, d, k, e) /\ Held(p) = Held(d) \ {e} /\ fs = es
    BY <1>9 DEF Loses
  <2>2. \A i : Binds(es, d, k, i) => i = e
    <3>1. PICK l : l = LookupK(KeysOf(es), d, k)
      OBVIOUS
    <3>2. \A j : Binds(es, d, k, j) => j = l
      BY <3>1, LookupBinds
    <3> QED
      BY <2>1, <3>2
  <2>3. \A x, i : Binds(fs, p, x, i) <=> Binds(es, d, x, i) /\ x # k
    BY <2>1, <2>2 DEF Binds
  <2>4. DOMAIN D = DOMAIN C \ {k} /\ k \in DOMAIN C
    BY <1>3, <1>4, <2>1, <2>3
  <2>5. ASSUME NEW x \in DOMAIN D PROVE D[x] = C[x]
    <3>1. PICK i : Binds(fs, p, x, i)
      BY <1>4
    <3> QED
      BY <1>3, <1>4, <2>1, <2>3, <3>1
  <2>6. N = [x \in DOMAIN N |-> N[x]] /\ DOMAIN N = DOMAIN D
        /\ \A x \in DOMAIN D : N[x] = C[x]
    BY <2>4
  <2> HIDE DEF N
  <2>7. D = N
    BY <1>4, <2>5, <2>6, SameMap
  <2> QED
    BY <2>4, <2>7 DEF MapEffect, N
<1> QED
  BY <1>1, <1>2, <1>6, <1>7, <1>8, <1>9 DEF DictEffect

(* The hash table is a map to those who call it: each call changes one     *)
(* binding or none, and the growth changes none.                           *)
THEOREM DictImplementsMap == DictSpec => DictIsMap
<1>1. DictInit => Map!MapInit
  <2> SUFFICES ASSUME DictInit PROVE Map!MapInit
    OBVIOUS
  <2>1. DictInv /\ Held(dict) = {}
    BY DictInitInv
  <2>2. PICK C : C = ContentsOf(entries, dict)
    OBVIOUS
  <2>3. Contents = C /\ DOMAIN C = {} /\ C = [k \in DOMAIN C |-> C[k]]
    <3>1. Contents = C
      BY <2>1, <2>2, Finds DEF FindRule
    <3>2. /\ C = [k \in DOMAIN C |-> C[k]] /\ DOMAIN C \subseteq Keys
          /\ \A k \in Keys : k \in DOMAIN C <=> \E e : Binds(entries, dict, k, e)
      BY <2>1, <2>2, ContentsFacts DEF DictInv
    <3> QED
      BY <2>1, <3>1, <3>2 DEF Binds
  <2>4. Contents = [k \in {} |-> k]
    BY <2>3
  <2> QED
    BY <2>4 DEF Map!MapInit
<1>2. DictInv /\ [DictNext]_dictVars => [Map!MapNext]_Contents
  <2> SUFFICES ASSUME DictInv, [DictNext]_dictVars PROVE [Map!MapNext]_Contents
    OBVIOUS
  <2>1. DictInv' /\ DictEffect(entries, dict, entries', dict')
    BY DictStep
  <2>2. FindRule'
    BY Finds, PTL
  <2>3. Contents = ContentsOf(entries, dict)
    BY Finds DEF FindRule
  <2>4. Contents' = ContentsOf(entries', dict')
    BY <2>1, <2>2 DEF FindRule
  <2>5. Fits(entries, dict) /\ Fits(entries', dict')
    BY <2>1 DEF DictInv
  <2>6. MapEffect(Contents, Contents')
    BY <2>1, <2>3, <2>4, <2>5, EffectOnMap
  <2> QED
    BY <2>6 DEF MapEffect, Map!MapNext, Map!Add, Map!Change, Map!Delete
<1> QED
  BY <1>1, <1>2, DictInvariant, PTL DEF DictSpec, DictIsMap, Map!MapSpec

-----------------------------------------------------------------------------
(* The arithmetic: integers in a machine word.                             *)

(* A machine word leaves out multiples of the number of its values.        *)
LEMMA WrapFacts ==
    ASSUME NEW m \in Int
    PROVE  /\ Wrap(m) \in Integer
           /\ \E k \in Int : Wrap(m) = m + k * (2 * IntHalf)
<1>1. PICK w : w = 2 * IntHalf
  OBVIOUS
<1>2. w \in Nat \ {0} /\ IntHalf \in Nat
  BY <1>1, IntHalfAssumption
<1>3. PICK h : h = m + IntHalf
  OBVIOUS
<1>4. h \in Int
  BY <1>2, <1>3
<1>5. h \div w \in Int /\ h % w \in 0 .. w - 1 /\ h = (w * (h \div w)) + (h % w)
  BY <1>2, <1>4
<1>6. Wrap(m) = (h % w) - IntHalf
  BY <1>1, <1>3 DEF Wrap
<1>7. Wrap(m) \in Integer
  <2>1. PICK r : r = h % w
    OBVIOUS
  <2> QED
    BY <1>1, <1>2, <1>5, <1>6, <2>1 DEF Integer, IntMin
<1>8. PICK q, r : q = h \div w /\ r = h % w
  OBVIOUS
<1>9. q \in Int /\ r \in Int /\ h = (w * q) + r /\ Wrap(m) = r - IntHalf
  BY <1>5, <1>6, <1>8
<1>10. PICK k \in Int : k = - q
  BY <1>9
<1>11. Wrap(m) = m + k * w
  BY <1>2, <1>3, <1>9, <1>10
<1> QED
  BY <1>1, <1>7, <1>11

(* Two values of a machine word that differ by such a multiple are one.    *)
LEMMA WordsDiffer ==
    ASSUME NEW x \in Integer, NEW y \in Integer, NEW k \in Int, x = y + k * (2 * IntHalf)
    PROVE  x = y
<1>1. PICK w : w = 2 * IntHalf
  OBVIOUS
<1>2. w \in Nat \ {0} /\ x \in Int /\ y \in Int /\ x - y < w /\ y - x < w
  BY <1>1, IntHalfAssumption DEF Integer, IntMin
<1>3. x = y + k * w
  BY <1>1
<1>4. k >= 1 => k * w >= w
  BY <1>2
<1>5. k <= -1 => k * w <= - w
  BY <1>2
<1>6. k = 0 => k * w = 0
  BY <1>2
<1>7. k * w \in Int
  BY <1>2
<1> QED
  BY <1>2, <1>3, <1>4, <1>5, <1>6, <1>7

(* Numbers that differ by a multiple are one in the machine word.          *)
LEMMA WrapAgrees ==
    ASSUME NEW m \in Int, NEW n \in Int, NEW k \in Int, m = n + k * (2 * IntHalf)
    PROVE  Wrap(m) = Wrap(n)
<1>1. PICK i \in Int : Wrap(m) = m + i * (2 * IntHalf)
  BY WrapFacts
<1>2. PICK j \in Int : Wrap(n) = n + j * (2 * IntHalf)
  BY WrapFacts
<1>3. PICK x, y, w : x = Wrap(m) /\ y = Wrap(n) /\ w = 2 * IntHalf
  OBVIOUS
<1>4. x \in Integer /\ y \in Integer /\ w \in Int /\ x \in Int /\ y \in Int
  BY <1>3, WrapFacts, IntHalfAssumption DEF Integer, IntMin
<1>5. x = y + (k + i - j) * w
  BY <1>1, <1>2, <1>3, <1>4
<1>6. k + i - j \in Int
  OBVIOUS
<1> QED
  BY <1>3, <1>4, <1>5, <1>6, WordsDiffer

(* What fits is kept.                                                      *)
LEMMA WrapKeeps ==
    ASSUME NEW m \in Integer
    PROVE  Wrap(m) = m /\ m \in Int
<1>1. m \in Int
  BY IntHalfAssumption DEF Integer, IntMin
<1>2. Wrap(m) \in Integer /\ \E k \in Int : Wrap(m) = m + k * (2 * IntHalf)
  BY <1>1, WrapFacts
<1> QED
  BY <1>1, <1>2, WordsDiffer

(* To wrap a running value does not change what becomes of it.             *)
LEMMA WrapOnTheWay ==
    ASSUME NEW m \in Int, NEW n \in Int
    PROVE  /\ Wrap(Wrap(m) + n) = Wrap(m + n)
           /\ Wrap(Wrap(m) - n) = Wrap(m - n)
           /\ Wrap(Wrap(m) * n) = Wrap(m * n)
<1>1. PICK k \in Int : Wrap(m) = m + k * (2 * IntHalf)
  BY WrapFacts
<1>2. PICK x, w : x = Wrap(m) /\ w = 2 * IntHalf
  OBVIOUS
<1>3. x \in Int /\ w \in Int /\ x = m + k * w
  BY <1>1, <1>2, WrapFacts, IntHalfAssumption DEF Integer, IntMin
<1>4. x + n \in Int /\ m + n \in Int /\ x + n = (m + n) + k * w
  BY <1>3
<1>5. x - n \in Int /\ m - n \in Int /\ x - n = (m - n) + k * w
  BY <1>3
<1>6. x * n \in Int /\ m * n \in Int /\ k * n \in Int /\ x * n = (m * n) + (k * n) * w
  BY <1>3
<1> QED
  BY <1>2, <1>4, <1>5, <1>6, WrapAgrees

(* q is how often y goes into x.                                           *)
Goes(x, y, q) == \E r \in 0 .. y - 1 : x = (y * q) + r

(* That is the quotient of natural numbers.                                *)
LEMMA DivFacts ==
    ASSUME NEW x \in Nat, NEW y \in Nat \ {0}
    PROVE  x \div y \in Nat /\ Goes(x, y, x \div y)
<1>1. x \div y \in Nat /\ x % y \in 0 .. y - 1 /\ x = (y * (x \div y)) + (x % y)
  OBVIOUS
<1> QED
  BY <1>1 DEF Goes

(* And nothing else is.                                                    *)
LEMMA DivIs ==
    ASSUME NEW x \in Nat, NEW y \in Nat \ {0}, NEW q \in Nat, Goes(x, y, q)
    PROVE  x \div y = q
<1>0. PICK r \in 0 .. y - 1 : x = (y * q) + r
  BY DEF Goes
<1>1. PICK d : d = x \div y
  OBVIOUS
<1>10. d \in Nat /\ \E s \in 0 .. y - 1 : x = (y * d) + s
  BY <1>1, DivFacts DEF Goes
<1>11. PICK s \in 0 .. y - 1 : x = (y * d) + s
  BY <1>10
<1>2. ASSUME NEW i \in Nat, NEW j \in Nat, i > j PROVE y * i >= (y * j) + y
  <2>1. PICK e \in Nat : i = j + 1 + e
    <3>1. i - j - 1 \in Nat /\ i = j + 1 + (i - j - 1)
      BY <1>2
    <3> QED
      BY <3>1
  <2>2. y * (j + 1 + e) = (y * j) + y + (y * e) /\ y * e >= 0
    OBVIOUS
  <2>3. y * j \in Int /\ y * e \in Int
    OBVIOUS
  <2> QED
    BY <2>1, <2>2, <2>3
<1>3. d > q => y * d >= (y * q) + y
  BY <1>2, <1>10
<1>4. q > d => y * q >= (y * d) + y
  BY <1>2, <1>10
<1>5. y * q \in Int /\ y * d \in Int
  BY <1>10
<1> QED
  BY <1>0, <1>1, <1>3, <1>4, <1>5, <1>10, <1>11

(* To divide twice is to divide by the product.                            *)
LEMMA DivTwice ==
    ASSUME NEW x \in Nat, NEW y \in Nat \ {0}, NEW z \in Nat \ {0},
           NEW d \in Nat, Goes(x, y, d), NEW e \in Nat, Goes(d, z, e)
    PROVE  Goes(x, y * z, e)
<1>1. PICK r \in 0 .. y - 1 : x = (y * d) + r
  BY DEF Goes
<1>2. PICK u \in 0 .. z - 1 : d = (z * e) + u
  BY DEF Goes
<1>3. PICK p, v : p = y * z /\ v = (y * u) + r
  OBVIOUS
<1>4. x = (p * e) + v
  <2>1. (y * ((z * e) + u)) + r = ((y * z) * e) + ((y * u) + r)
    OBVIOUS
  <2> QED
    BY <1>1, <1>2, <1>3, <2>1
<1>5. v \in 0 .. p - 1
  <2>1. PICK c \in Nat : z = u + 1 + c
    <3>1. z - u - 1 \in Nat /\ z = u + 1 + (z - u - 1)
      OBVIOUS
    <3> QED
      BY <3>1
  <2>2. y * (u + 1 + c) = (y * u) + y + (y * c)
    OBVIOUS
  <2>3. y * c >= 0 /\ y * c \in Int /\ y * u >= 0 /\ y * u \in Int
    OBVIOUS
  <2> QED
    BY <1>3, <2>1, <2>2, <2>3
<1> QED
  BY <1>3, <1>4, <1>5 DEF Goes

-----------------------------------------------------------------------------
(* C division by sign and size.                                            *)
Size(k) == IF k < 0 THEN - k ELSE k

Signed(positive, q) == IF positive THEN q ELSE - q

(* The quotient in C has the size of the quotient of the sizes.            *)
LEMMA QuotientIs ==
    ASSUME NEW m \in Int, NEW n \in Int \ {0}
    PROVE  /\ Size(m) \in Nat /\ Size(n) \in Nat \ {0} /\ Size(m) \div Size(n) \in Nat
           /\ Quotient(m, n) = Signed((m < 0) <=> (n < 0), Size(m) \div Size(n))
           /\ Quotient(m, n) \in Int
<1>1. Size(m) \in Nat /\ Size(n) \in Nat \ {0}
  BY DEF Size
<1>2. Size(m) \div Size(n) \in Nat
  BY <1>1, DivFacts
<1>3. Quotient(m, n) = Signed((m < 0) <=> (n < 0), Size(m) \div Size(n))
  <2>1. ((m < 0) = (n < 0)) <=> ((m < 0) <=> (n < 0))
    OBVIOUS
  <2> QED
    BY <2>1 DEF Quotient, Signed, Size
<1>4. Quotient(m, n) \in Int
  <2>1. PICK q : q = Size(m) \div Size(n)
    OBVIOUS
  <2> QED
    BY <1>2, <1>3, <2>1 DEF Signed
<1> QED
  BY <1>1, <1>2, <1>3, <1>4

(* Dividing twice rounds to what dividing by the product does.             *)
LEMMA QuotientTwice ==
    ASSUME NEW m \in Int, NEW p \in Int \ {0}, NEW n \in Int \ {0}
    PROVE  p * n \in Int \ {0} /\ Quotient(Quotient(m, p), n) = Quotient(m, p * n)
<1>1. PICK x \in Nat, y \in Nat \ {0}, z \in Nat \ {0} : x = Size(m) /\ y = Size(p) /\ z = Size(n)
  <2>1. Size(m) \in Nat /\ Size(p) \in Nat \ {0} /\ Size(n) \in Nat \ {0}
    BY QuotientIs
  <2> QED
    BY <2>1
<1>2. x \in Nat /\ y \in Nat \ {0} /\ z \in Nat \ {0}
  OBVIOUS
<1>3. p * n \in Int \ {0} /\ Size(p * n) = y * z /\ ((p * n < 0) <=> ~ ((p < 0) <=> (n < 0)))
  <2>1. CASE p > 0 /\ n > 0
    <3>1. p * n > 0
      BY <2>1
    <3> QED
      BY <1>1, <2>1, <3>1 DEF Size
  <2>2. CASE p > 0 /\ n < 0
    <3>1. p * (- n) > 0 /\ p * (- n) = - (p * n)
      BY <2>2
    <3> QED
      BY <1>1, <2>2, <3>1 DEF Size
  <2>3. CASE p < 0 /\ n > 0
    <3>1. (- p) * n > 0 /\ (- p) * n = - (p * n)
      BY <2>3
    <3> QED
      BY <1>1, <2>3, <3>1 DEF Size
  <2>4. CASE p < 0 /\ n < 0
    <3>1. (- p) * (- n) > 0 /\ (- p) * (- n) = p * n
      BY <2>4
    <3> QED
      BY <1>1, <2>4, <3>1 DEF Size
  <2> QED
    BY <2>1, <2>2, <2>3, <2>4
<1>4. PICK d : d = x \div y
  OBVIOUS
<1>5. PICK e : e = d \div z
  OBVIOUS
<1>14. d \in Nat /\ Goes(x, y, d) /\ e \in Nat /\ Goes(d, z, e)
  BY <1>4, <1>5, DivFacts
<1>6. e = x \div (y * z)
  <2>1. PICK v : v = y * z
    OBVIOUS
  <2>2. Goes(x, v, e) /\ v \in Nat \ {0}
    BY <1>14, <2>1, DivTwice
  <2> QED
    BY <1>14, <2>1, <2>2, DivIs
<1>7. PICK q \in Int : q = Quotient(m, p)
  BY QuotientIs
<1>8. q = Signed((m < 0) <=> (p < 0), d)
  BY <1>1, <1>4, <1>7, QuotientIs
<1>9. Size(q) = d /\ (d # 0 => ((q < 0) <=> ~ ((m < 0) <=> (p < 0))))
  BY <1>8, <1>14 DEF Size, Signed
<1>10. Quotient(q, n) = Signed((q < 0) <=> (n < 0), e)
  BY <1>1, <1>5, <1>9, QuotientIs
<1>11. Quotient(m, p * n) = Signed((m < 0) <=> (p * n < 0), e)
  <2>1. PICK v \in Int \ {0} : v = p * n
    BY <1>3
  <2>2. Quotient(m, v) = Signed((m < 0) <=> (v < 0), Size(m) \div Size(v))
    BY QuotientIs
  <2>3. Size(m) \div Size(v) = e
    BY <1>1, <1>3, <1>6, <2>1
  <2> QED
    BY <2>1, <2>2, <2>3
<1>12. d = 0 => e = 0
  <2>1. SUFFICES ASSUME d = 0 PROVE e = 0
    OBVIOUS
  <2>2. Goes(d, z, 0)
    <3>1. d = (z * 0) + 0 /\ 0 \in 0 .. z - 1
      BY <2>1
    <3> QED
      BY <3>1 DEF Goes
  <2> QED
    BY <1>5, <1>14, <2>2, DivIs
<1>13. Signed((q < 0) <=> (n < 0), e) = Signed((m < 0) <=> (p * n < 0), e)
  <2>1. CASE e = 0
    BY <2>1 DEF Signed
  <2>2. CASE e # 0
    BY <1>3, <1>9, <1>12, <2>2 DEF Signed
  <2> QED
    BY <2>1, <2>2
<1> QED
  BY <1>3, <1>7, <1>10, <1>11, <1>13

(* Dividing by 1 leaves what there is.                                     *)
LEMMA QuotientByOne ==
    ASSUME NEW m \in Int
    PROVE  Quotient(m, 1) = m
<1>1. Size(m) \in Nat /\ Size(1) = 1
  BY DEF Size
<1>2. Goes(Size(m), 1, Size(m))
  <2>1. Size(m) = (1 * Size(m)) + 0 /\ 0 \in 0 .. 1 - 1
    BY <1>1
  <2> QED
    BY <2>1 DEF Goes
<1>3. Size(m) \div 1 = Size(m)
  BY <1>1, <1>2, DivIs
<1>4. Quotient(m, 1) = Signed((m < 0) <=> (1 < 0), Size(m))
  BY <1>1, <1>3, QuotientIs
<1> QED
  BY <1>4 DEF Signed, Size

(* The only quotient that does not fit is that of the smallest by -1.      *)
LEMMA QuotientFits ==
    ASSUME NEW m \in Integer, NEW n \in Int \ {0}
    PROVE  Quotient(m, n) \in Integer <=> ~ (m = IntMin /\ n = -1)
<1>1. m \in Int /\ IntHalf \in Nat \ {0} /\ m >= - IntHalf /\ m <= IntHalf - 1
  BY IntHalfAssumption DEF Integer, IntMin
<1>2. PICK x, y : x = Size(m) /\ y = Size(n)
  OBVIOUS
<1>3. x \in Nat /\ y \in Nat \ {0}
  BY <1>1, <1>2, QuotientIs
<1>4. PICK d \in Nat, r \in 0 .. y - 1 : d = x \div y /\ x = (y * d) + r
  <2>1. x \div y \in Nat /\ \E r \in 0 .. y - 1 : x = (y * (x \div y)) + r
    BY <1>3, DivFacts DEF Goes
  <2> QED
    BY <2>1
<1>5. PICK q : q = Quotient(m, n)
  OBVIOUS
<1>6. /\ q \in Int /\ q = Signed((m < 0) <=> (n < 0), d)
  BY <1>1, <1>2, <1>4, <1>5, QuotientIs
<1>7. x <= IntHalf /\ (x = IntHalf <=> m = - IntHalf)
  BY <1>1, <1>2 DEF Size
<1>8. d <= x /\ (y > 1 /\ x > 0 => d < x) /\ (y = 1 => d = x)
  <2>1. CASE y = 1
    BY <1>3, <1>4, <2>1
  <2>2. CASE y > 1
    <3>1. PICK c \in Nat : y = 2 + c
      <4>1. y - 2 \in Nat /\ y = 2 + (y - 2)
        BY <1>3, <2>2
      <4> QED
        BY <4>1
    <3>2. x = d + d + (c * d) + r /\ c * d >= 0 /\ c * d \in Int
      BY <1>3, <1>4, <3>1
    <3> QED
      BY <1>3, <1>4, <2>2, <3>2
  <2> QED
    BY <1>3, <2>1, <2>2
<1>9. y = 1 <=> n \in {1, -1}
  BY <1>2 DEF Size
<1>10. CASE m = - IntHalf /\ n = -1
  <2>1. q = IntHalf
    BY <1>1, <1>5, <1>6, <1>7, <1>8, <1>9, <1>10 DEF Signed
  <2> QED
    BY <1>1, <1>5, <1>10, <2>1 DEF Integer, IntMin
<1>11. CASE ~ (m = - IntHalf /\ n = -1)
  <2>1. q >= - IntHalf
    <3>1. q = d \/ q = - d
      BY <1>6 DEF Signed
    <3>2. d <= IntHalf
      BY <1>1, <1>3, <1>7, <1>8
    <3> QED
      BY <1>1, <3>1, <3>2
  <2>2. q <= IntHalf - 1
    <3>1. CASE d < IntHalf
      BY <1>1, <1>5, <1>6, <3>1 DEF Signed
    <3>2. CASE d >= IntHalf
      <4>1. x = IntHalf /\ m = - IntHalf /\ y = 1
        BY <1>1, <1>3, <1>7, <1>8, <3>2
      <4>2. n = 1 /\ q = - d
        BY <1>1, <1>5, <1>6, <1>9, <1>11, <4>1 DEF Signed
      <4> QED
        BY <1>1, <4>2
    <3> QED
      BY <1>1, <3>1, <3>2
  <2> QED
    BY <1>1, <1>5, <1>6, <1>11, <2>1, <2>2 DEF Integer, IntMin
<1> QED
  BY <1>10, <1>11 DEF IntMin

-----------------------------------------------------------------------------
(* f runs from base at lo through a step for each number up to hi.         *)
Runs(f, lo, hi, base, step) ==
    f[lo] = base /\ \A i \in lo + 1 .. hi : f[i] = step[i][f[i - 1]]

(* There is such a function.                                               *)
LEMMA RunExists ==
    ASSUME NEW V, NEW lo \in Nat, NEW hi \in Nat, lo <= hi,
           NEW base \in V, NEW step \in [lo + 1 .. hi -> [V -> V]]
    PROVE  \E f \in [lo .. hi -> V] : Runs(f, lo, hi, base, step)
<1> DEFINE Bad == {n \in lo .. hi : ~ \E f \in [lo .. n -> V] : Runs(f, lo, n, base, step)}
<1>1. SUFFICES ASSUME Bad # {} PROVE FALSE
  OBVIOUS
<1>2. PICK n \in Bad : \A k \in Bad : n <= k
  <2>1. Bad \in SUBSET Nat
    OBVIOUS
  <2> HIDE DEF Bad
  <2> QED
    BY <1>1, <2>1, LeastIn
<1>3. n \in lo .. hi /\ ~ \E f \in [lo .. n -> V] : Runs(f, lo, n, base, step)
  OBVIOUS
<1>4. n # lo
  <2> DEFINE g == [x \in lo .. lo |-> base]
  <2>1. g \in [lo .. lo -> V] /\ g[lo] = base
    OBVIOUS
  <2> HIDE DEF g
  <2>2. Runs(g, lo, lo, base, step)
    BY <2>1 DEF Runs
  <2> QED
    BY <1>3, <2>1, <2>2
<1>5. n - 1 \in lo .. hi /\ n - 1 \notin Bad
  <2> HIDE DEF Bad
  <2> QED
    BY <1>2, <1>3, <1>4
<1>6. PICK f \in [lo .. n - 1 -> V] : Runs(f, lo, n - 1, base, step)
  BY <1>5
<1> DEFINE last == step[n][f[n - 1]]
           g == [x \in lo .. n |-> IF x = n THEN last ELSE f[x]]
<1>7. last \in V
  <2>1. n \in lo + 1 .. hi /\ f[n - 1] \in V
    BY <1>3, <1>4, <1>6
  <2> QED
    BY <2>1
<1> HIDE DEF last
<1>8. g \in [lo .. n -> V]
  BY <1>3, <1>7
<1>9. g[n] = last /\ \A x \in lo .. n - 1 : g[x] = f[x]
  BY <1>3
<1> HIDE DEF g
<1>10. Runs(g, lo, n, base, step)
  <2>1. g[lo] = base
    BY <1>3, <1>4, <1>6, <1>9 DEF Runs
  <2>2. ASSUME NEW i \in lo + 1 .. n PROVE g[i] = step[i][g[i - 1]]
    <3>1. g[i - 1] = f[i - 1]
      BY <1>3, <1>9
    <3>2. CASE i = n
      BY <1>9, <3>1, <3>2 DEF last
    <3>3. CASE i # n
      <4>1. i \in lo + 1 .. n - 1 /\ g[i] = f[i]
        BY <1>3, <1>9, <3>3
      <4> QED
        BY <1>6, <3>1, <4>1 DEF Runs
    <3> QED
      BY <3>2, <3>3
  <2> QED
    BY <2>1, <2>2 DEF Runs
<1> HIDE DEF Bad
<1> QED
  BY <1>3, <1>8, <1>10

(* f has the sums of the arguments from m on.                                *)
Sums(f, args, m, n) ==
    /\ f \in [m - 1 .. n -> Int] /\ f[m - 1] = 0
    /\ \A i \in m .. n : f[i] = f[i - 1] + args[i][1]

(* Total is what a running sum comes to.                                   *)
LEMMA TotalIs ==
    ASSUME NEW args, NEW m \in Nat \ {0}, NEW n \in Nat, n >= m - 1,
           NEW f, Sums(f, args, m, n)
    PROVE  \A k \in m - 1 .. n : Total(args, m, k) = f[k]
<1> TAKE k \in m - 1 .. n
<1>0. /\ f \in [m - 1 .. n -> Int] /\ f[m - 1] = 0
      /\ \A i \in m .. n : f[i] = f[i - 1] + args[i][1]
  BY DEF Sums
<1> DEFINE Up(g, i) == IF i < m THEN 0 ELSE g[i - 1] + args[i][1]
           Is(g) == g = [i \in m - 1 .. k |-> Up(g, i)]
           T == CHOOSE g : Is(g)
<1>1. Total(args, m, k) = T[k]
  BY DEF Total
<1>2. \E g : Is(g)
  <2> DEFINE g == [i \in m - 1 .. k |-> f[i]]
  <2>1. \A i \in m - 1 .. k : g[i] = f[i]
    OBVIOUS
  <2>2. ASSUME NEW i \in m - 1 .. k PROVE g[i] = Up(g, i)
    <3>1. CASE i < m
      <4>1. i = m - 1
        BY <3>1
      <4> QED
        BY <1>0, <2>1, <3>1, <4>1
    <3>2. CASE i >= m
      <4>1. i \in m .. n /\ i - 1 \in m - 1 .. k
        BY <3>2
      <4> QED
        BY <1>0, <2>1, <3>2, <4>1
    <3> QED
      BY <3>1, <3>2
  <2>3. g = [i \in m - 1 .. k |-> g[i]]
    OBVIOUS
  <2>4. Is(g)
    <3> HIDE DEF g, Up
    <3> QED
      BY <2>2, <2>3
  <2> QED
    BY <2>4
<1>3. Is(T)
  <2> HIDE DEF Is
  <2> QED
    BY <1>2
<1>4. \A i \in m - 1 .. k : T[i] = Up(T, i)
  <2> HIDE DEF Up, T
  <2> QED
    BY <1>3
<1> HIDE DEF T, Is
<1> DEFINE Bad == {i \in m - 1 .. k : T[i] # f[i]}
<1>5. Bad = {}
  <2>1. SUFFICES ASSUME Bad # {} PROVE FALSE
    OBVIOUS
  <2>2. PICK i \in Bad : \A j \in Bad : i <= j
    <3>1. Bad \in SUBSET Nat
      OBVIOUS
    <3> HIDE DEF Bad
    <3> QED
      BY <2>1, <3>1, LeastIn
  <2>3. i \in m - 1 .. k /\ T[i] # f[i]
    OBVIOUS
  <2>4. i >= m
    BY <1>0, <1>4, <2>3
  <2>5. i - 1 \in m - 1 .. k /\ T[i - 1] = f[i - 1]
    <3>1. i - 1 \in m - 1 .. k /\ i - 1 \notin Bad
      <4> HIDE DEF Bad
      <4> QED
        BY <2>2, <2>3, <2>4
    <3> QED
      BY <3>1
  <2>6. T[i] = f[i - 1] + args[i][1]
    BY <1>4, <2>3, <2>4, <2>5
  <2> QED
    BY <1>0, <2>3, <2>4, <2>6
<1> QED
  BY <1>1, <1>5

(* A sum grows by its last summand.                                        *)
LEMMA TotalFacts ==
    ASSUME NEW args, NEW m \in Nat \ {0}, NEW n \in Nat, n >= m - 1,
           \A i \in m .. n : args[i][1] \in Int
    PROVE  /\ Total(args, m, n) \in Int
           /\ n = m - 1 => Total(args, m, n) = 0
           /\ n >= m => Total(args, m, n) = Total(args, m, n - 1) + args[n][1]
<1> DEFINE step == [i \in m .. n |-> [v \in Int |-> v + args[i][1]]]
<1>1. step \in [(m - 1) + 1 .. n -> [Int -> Int]]
  OBVIOUS
<1>2. \A i \in m .. n, v \in Int : step[i][v] = v + args[i][1]
  OBVIOUS
<1> HIDE DEF step
<1>3. PICK f \in [m - 1 .. n -> Int] : Runs(f, m - 1, n, 0, step)
  <2>1. PICK lo \in Nat : lo = m - 1
    OBVIOUS
  <2>2. lo <= n /\ step \in [lo + 1 .. n -> [Int -> Int]]
    BY <1>1, <2>1
  <2>3. PICK base \in Int : base = 0
    OBVIOUS
  <2>4. \E f \in [lo .. n -> Int] : Runs(f, lo, n, base, step)
    BY <2>2, RunExists
  <2> QED
    BY <2>1, <2>3, <2>4
<1>4. f[m - 1] = 0 /\ \A i \in m .. n : f[i] = f[i - 1] + args[i][1]
  <2>1. \A i \in m .. n : i - 1 \in m - 1 .. n /\ i \in (m - 1) + 1 .. n
    OBVIOUS
  <2> QED
    BY <1>2, <1>3, <2>1 DEF Runs
<1>5. \A k \in m - 1 .. n : Total(args, m, k) = f[k]
  <2>1. Sums(f, args, m, n)
    BY <1>4 DEF Sums
  <2> QED
    BY <2>1, TotalIs
<1>6. n \in m - 1 .. n /\ (n >= m => n \in m .. n /\ n - 1 \in m - 1 .. n)
  OBVIOUS
<1> QED
  BY <1>4, <1>5, <1>6

(* f has the products of the arguments from m on.                            *)
Products(f, args, m, n) ==
    /\ f \in [m - 1 .. n -> Int] /\ f[m - 1] = 1
    /\ \A i \in m .. n : f[i] = f[i - 1] * args[i][1]

(* Product is what a running product comes to.                               *)
LEMMA ProductIs ==
    ASSUME NEW args, NEW m \in Nat \ {0}, NEW n \in Nat, n >= m - 1,
           NEW f, Products(f, args, m, n)
    PROVE  \A k \in m - 1 .. n : Product(args, m, k) = f[k]
<1> TAKE k \in m - 1 .. n
<1>0. /\ f \in [m - 1 .. n -> Int] /\ f[m - 1] = 1
      /\ \A i \in m .. n : f[i] = f[i - 1] * args[i][1]
  BY DEF Products
<1> DEFINE Up(g, i) == IF i < m THEN 1 ELSE g[i - 1] * args[i][1]
           Is(g) == g = [i \in m - 1 .. k |-> Up(g, i)]
           T == CHOOSE g : Is(g)
<1>1. Product(args, m, k) = T[k]
  BY DEF Product
<1>2. \E g : Is(g)
  <2> DEFINE g == [i \in m - 1 .. k |-> f[i]]
  <2>1. \A i \in m - 1 .. k : g[i] = f[i]
    OBVIOUS
  <2>2. ASSUME NEW i \in m - 1 .. k PROVE g[i] = Up(g, i)
    <3>1. CASE i < m
      <4>1. i = m - 1
        BY <3>1
      <4> QED
        BY <1>0, <2>1, <3>1, <4>1
    <3>2. CASE i >= m
      <4>1. i \in m .. n /\ i - 1 \in m - 1 .. k
        BY <3>2
      <4> QED
        BY <1>0, <2>1, <3>2, <4>1
    <3> QED
      BY <3>1, <3>2
  <2>3. g = [i \in m - 1 .. k |-> g[i]]
    OBVIOUS
  <2>4. Is(g)
    <3> HIDE DEF g, Up
    <3> QED
      BY <2>2, <2>3
  <2> QED
    BY <2>4
<1>3. Is(T)
  <2> HIDE DEF Is
  <2> QED
    BY <1>2
<1>4. \A i \in m - 1 .. k : T[i] = Up(T, i)
  <2> HIDE DEF Up, T
  <2> QED
    BY <1>3
<1> HIDE DEF T, Is
<1> DEFINE Bad == {i \in m - 1 .. k : T[i] # f[i]}
<1>5. Bad = {}
  <2>1. SUFFICES ASSUME Bad # {} PROVE FALSE
    OBVIOUS
  <2>2. PICK i \in Bad : \A j \in Bad : i <= j
    <3>1. Bad \in SUBSET Nat
      OBVIOUS
    <3> HIDE DEF Bad
    <3> QED
      BY <2>1, <3>1, LeastIn
  <2>3. i \in m - 1 .. k /\ T[i] # f[i]
    OBVIOUS
  <2>4. i >= m
    BY <1>0, <1>4, <2>3
  <2>5. i - 1 \in m - 1 .. k /\ T[i - 1] = f[i - 1]
    <3>1. i - 1 \in m - 1 .. k /\ i - 1 \notin Bad
      <4> HIDE DEF Bad
      <4> QED
        BY <2>2, <2>3, <2>4
    <3> QED
      BY <3>1
  <2>6. T[i] = f[i - 1] * args[i][1]
    BY <1>4, <2>3, <2>4, <2>5
  <2> QED
    BY <1>0, <2>3, <2>4, <2>6
<1> QED
  BY <1>1, <1>5

(* A product grows by its last factor.                                     *)
LEMMA ProductFacts ==
    ASSUME NEW args, NEW m \in Nat \ {0}, NEW n \in Nat, n >= m - 1,
           \A i \in m .. n : args[i][1] \in Int
    PROVE  /\ Product(args, m, n) \in Int
           /\ n = m - 1 => Product(args, m, n) = 1
           /\ n >= m => Product(args, m, n) = Product(args, m, n - 1) * args[n][1]
<1> DEFINE step == [i \in m .. n |-> [v \in Int |-> v * args[i][1]]]
<1>1. step \in [(m - 1) + 1 .. n -> [Int -> Int]]
  OBVIOUS
<1>2. \A i \in m .. n, v \in Int : step[i][v] = v * args[i][1]
  OBVIOUS
<1> HIDE DEF step
<1>3. PICK f \in [m - 1 .. n -> Int] : Runs(f, m - 1, n, 1, step)
  <2>1. PICK lo \in Nat : lo = m - 1
    OBVIOUS
  <2>2. lo <= n /\ step \in [lo + 1 .. n -> [Int -> Int]]
    BY <1>1, <2>1
  <2>3. PICK base \in Int : base = 1
    OBVIOUS
  <2>4. \E f \in [lo .. n -> Int] : Runs(f, lo, n, base, step)
    BY <2>2, RunExists
  <2> QED
    BY <2>1, <2>3, <2>4
<1>4. f[m - 1] = 1 /\ \A i \in m .. n : f[i] = f[i - 1] * args[i][1]
  <2>1. \A i \in m .. n : i - 1 \in m - 1 .. n /\ i \in (m - 1) + 1 .. n
    OBVIOUS
  <2> QED
    BY <1>2, <1>3, <2>1 DEF Runs
<1>5. \A k \in m - 1 .. n : Product(args, m, k) = f[k]
  <2>1. Products(f, args, m, n)
    BY <1>4 DEF Products
  <2> QED
    BY <2>1, ProductIs
<1>6. n \in m - 1 .. n /\ (n >= m => n \in m .. n /\ n - 1 \in m - 1 .. n)
  OBVIOUS
<1> QED
  BY <1>4, <1>5, <1>6

-----------------------------------------------------------------------------
(* The arithmetic: what a walk over the arguments comes to.                *)

Arg == {<<x>> : x \in Integer} \cup {<<>>}

(* An argument is an integer or is not.                                    *)
LEMMA ArgIs ==
    ASSUME NEW a \in Arg
    PROVE  a # <<>> => a[1] \in Integer /\ a[1] \in Int /\ a = <<a[1]>>
<1>1. SUFFICES ASSUME a # <<>> PROVE a[1] \in Integer /\ a = <<a[1]>>
  BY WrapKeeps
<1>2. PICK x \in Integer : a = <<x>>
  BY <1>1 DEF Arg
<1> QED
  BY <1>2

WalkStates ==
    [tag : {"going", "nil", "undefined", "error"}, val : Int,
     err : {"none", "ARG_TYPE_MISMATCH", "DIVISION_BY_0"}]

(* A step of a walk is one of its states.                                  *)
LEMMA StepTyped ==
    ASSUME NEW op \in MathOps, NEW acc \in Int, NEW x \in Int
    PROVE  MathStep(op, acc, x) \in WalkStates
<1>1. \A v \in Int : Going(v) \in WalkStates
  BY DEF Going, WalkStates
<1>2. Halts("nil") \in WalkStates /\ Halts("undefined") \in WalkStates
  BY DEF Halts, WalkStates
<1>3. Fails("DIVISION_BY_0") \in WalkStates
  BY DEF Fails, WalkStates
<1>4. \A v \in Int : Wrap(v) \in Int
  BY WrapFacts, WrapKeeps
<1>5. acc + x \in Int /\ acc - x \in Int /\ acc * x \in Int
  OBVIOUS
<1>6. x # 0 => Quotient(acc, x) \in Int
  BY QuotientIs
<1>7. CASE op = "GT"
  BY <1>1, <1>2, <1>7 DEF MathStep
<1>8. CASE op = "LT"
  BY <1>1, <1>2, <1>8 DEF MathStep
<1>9. CASE op = "ADD"
  BY <1>1, <1>4, <1>5, <1>9 DEF MathStep
<1>10. CASE op = "SUB"
  BY <1>1, <1>4, <1>5, <1>10 DEF MathStep
<1>11. CASE op = "MUL"
  BY <1>1, <1>4, <1>5, <1>11 DEF MathStep
<1>12. CASE op = "DIV"
  BY <1>1, <1>2, <1>3, <1>6, <1>12 DEF MathStep
<1> QED
  BY <1>7, <1>8, <1>9, <1>10, <1>11, <1>12 DEF MathOps

Started(a) == IF a = <<>> THEN Fails("ARG_TYPE_MISMATCH") ELSE Going(a[1])

GoneOn(op, v, a) ==
    IF v.tag # "going" THEN v
    ELSE IF a = <<>> THEN Fails("ARG_TYPE_MISMATCH")
    ELSE MathStep(op, v.val, a[1])

(* The recursion of MathWalk, solved.                                      *)
LEMMA WalkIs ==
    ASSUME NEW op \in MathOps, NEW items \in Seq(Arg), NEW n \in Nat, n = Len(items), n >= 1
    PROVE  \E w : /\ MathWalk(op, items) = w[n] /\ w[1] = Started(items[1])
                  /\ \A i \in 2 .. n : w[i] = GoneOn(op, w[i - 1], items[i])
<1> DEFINE Up(f, i) == IF i > 1 /\ f[i - 1].tag # "going" THEN f[i - 1]
                       ELSE IF items[i] = <<>> THEN Fails("ARG_TYPE_MISMATCH")
                       ELSE IF i = 1 THEN Going(items[1][1])
                       ELSE MathStep(op, f[i - 1].val, items[i][1])
           Is(f) == f = [i \in DOMAIN items |-> Up(f, i)]
           w == CHOOSE f : Is(f)
<1>1. MathWalk(op, items) = w[n]
  BY DEF MathWalk
<1>2. DOMAIN items = 1 .. n /\ \A i \in 1 .. n : items[i] \in Arg
  OBVIOUS
<1>3. \A f, i : i = 1 => Up(f, i) = Started(items[1])
  BY DEF Started
<1>4. \A f, i : i \in 2 .. n => Up(f, i) = GoneOn(op, f[i - 1], items[i])
  BY DEF GoneOn
<1> HIDE DEF Up
<1>5. \E f : Is(f)
  <2> DEFINE step == [i \in 2 .. n |-> [v \in WalkStates |-> GoneOn(op, v, items[i])]]
  <2>1. Fails("ARG_TYPE_MISMATCH") \in WalkStates
    BY DEF Fails, WalkStates
  <2>2. ASSUME NEW i \in 2 .. n, NEW v \in WalkStates PROVE GoneOn(op, v, items[i]) \in WalkStates
    <3>1. CASE v.tag # "going" \/ items[i] = <<>>
      BY <2>1, <3>1 DEF GoneOn
    <3>2. CASE v.tag = "going" /\ items[i] # <<>>
      <4>1. v.val \in Int
        BY DEF WalkStates
      <4>2. items[i] \in Arg
        BY <1>2
      <4>3. items[i][1] \in Int
        BY <3>2, <4>2, ArgIs
      <4>4. MathStep(op, v.val, items[i][1]) \in WalkStates
        BY <4>1, <4>3, StepTyped
      <4> QED
        BY <3>2, <4>4 DEF GoneOn
    <3> QED
      BY <3>1, <3>2
  <2>3. step \in [1 + 1 .. n -> [WalkStates -> WalkStates]]
    BY <2>2
  <2>4. \A i \in 2 .. n, v \in WalkStates : step[i][v] = GoneOn(op, v, items[i])
    OBVIOUS
  <2> HIDE DEF step
  <2>5. PICK base \in WalkStates : base = Started(items[1])
    <3>1. items[1] \in Arg
      BY <1>2
    <3>2. items[1] # <<>> => Going(items[1][1]) \in WalkStates
      <4>1. items[1] # <<>> => items[1][1] \in Int
        BY <3>1, ArgIs
      <4> QED
        BY <4>1 DEF Going, WalkStates
    <3> QED
      BY <2>1, <3>2 DEF Started
  <2>6. PICK f \in [1 .. n -> WalkStates] : Runs(f, 1, n, base, step)
    BY <2>3, RunExists
  <2>7. \A i \in DOMAIN items : f[i] = Up(f, i)
    <3> TAKE i \in DOMAIN items
    <3>1. i \in 1 .. n
      BY <1>2
    <3>2. CASE i = 1
      BY <1>3, <2>5, <2>6, <3>2 DEF Runs
    <3>3. CASE i # 1
      <4>1. i \in 2 .. n /\ i \in 1 + 1 .. n /\ f[i - 1] \in WalkStates
        BY <2>6, <3>1, <3>3
      <4>2. f[i] = step[i][f[i - 1]]
        BY <2>6, <4>1 DEF Runs
      <4>3. f[i] = GoneOn(op, f[i - 1], items[i])
        BY <2>4, <4>1, <4>2
      <4> QED
        BY <1>4, <4>1, <4>3
    <3> QED
      BY <3>2, <3>3
  <2>8. f = [i \in DOMAIN items |-> f[i]]
    BY <1>2
  <2>9. Is(f)
    BY <2>7, <2>8
  <2> HIDE DEF Is
  <2> QED
    BY <2>9
<1>6. Is(w)
  <2> HIDE DEF Is
  <2> QED
    BY <1>5
<1>7. \A i \in 1 .. n : w[i] = Up(w, i)
  <2>1. \A i \in DOMAIN items : w[i] = Up(w, i)
    <3> HIDE DEF w
    <3> QED
      BY <1>6
  <2> HIDE DEF w, Is
  <2> QED
    BY <1>2, <2>1
<1> HIDE DEF w, Is
<1>8. w[1] = Started(items[1])
  BY <1>3, <1>7
<1>9. \A i \in 2 .. n : w[i] = GoneOn(op, w[i - 1], items[i])
  BY <1>4, <1>7
<1> QED
  BY <1>1, <1>8, <1>9

-----------------------------------------------------------------------------
(* The first i arguments can be used.                                      *)
AllUsable(op, args, i) == \A j \in 1 .. i : UsableArg(op, args, j)

(* Then they are integers.                                                 *)
LEMMA UsableAreIntegers ==
    ASSUME NEW op, NEW args \in Seq(Arg), NEW i \in Nat, i <= Len(args), AllUsable(op, args, i)
    PROVE  \A j \in 1 .. i : /\ args[j][1] \in Integer /\ args[j][1] \in Int
                             /\ args[j] # <<>> /\ args[j] = <<args[j][1]>>
<1> TAKE j \in 1 .. i
<1>1. args[j] \in Arg
  OBVIOUS
<1>2. args[j] # <<>>
  BY DEF AllUsable, UsableArg
<1> QED
  BY <1>1, <1>2, ArgIs

(* A product of what is not 0 is not.                                      *)
LEMMA ProductNotZero ==
    ASSUME NEW args, NEW n \in Nat \ {0}, \A j \in 2 .. n : args[j][1] \in Int \ {0}
    PROVE  Product(args, 2, n) \in Int \ {0}
<1> DEFINE Bad == {k \in 1 .. n : Product(args, 2, k) \notin Int \ {0}}
<1>1. SUFFICES ASSUME Bad # {} PROVE FALSE
  <2>1. n \in 1 .. n
    OBVIOUS
  <2> QED
    BY <2>1
<1>2. PICK k \in Bad : \A j \in Bad : k <= j
  <2>1. Bad \in SUBSET Nat
    OBVIOUS
  <2> HIDE DEF Bad
  <2> QED
    BY <1>1, <2>1, LeastIn
<1>3. k \in 1 .. n /\ Product(args, 2, k) \notin Int \ {0}
  OBVIOUS
<1>4. /\ k = 1 => Product(args, 2, k) = 1
      /\ k >= 2 => Product(args, 2, k) = Product(args, 2, k - 1) * args[k][1]
  <2>1. \A j \in 2 .. k : args[j][1] \in Int
    BY <1>3
  <2>2. PICK m \in Nat \ {0} : m = 2
    OBVIOUS
  <2>3. k \in Nat /\ k >= m - 1 /\ \A j \in m .. k : args[j][1] \in Int
    BY <1>3, <2>1, <2>2
  <2>4. /\ k = m - 1 => Product(args, m, k) = 1
        /\ k >= m => Product(args, m, k) = Product(args, m, k - 1) * args[k][1]
    BY <2>3, ProductFacts
  <2> QED
    BY <2>2, <2>4
<1>5. k >= 2
  BY <1>3, <1>4
<1>6. k - 1 \in 1 .. n /\ k - 1 \notin Bad
  <2> HIDE DEF Bad
  <2> QED
    BY <1>2, <1>3, <1>5
<1>7. PICK p \in Int \ {0} : p = Product(args, 2, k - 1)
  BY <1>6
<1>8. PICK x \in Int \ {0} : x = args[k][1]
  BY <1>3, <1>5
<1>9. p * x \in Int \ {0}
  BY QuotientTwice
<1> QED
  BY <1>3, <1>4, <1>5, <1>7, <1>8, <1>9

(* What the exact value becomes with one more argument.                    *)
LEMMA ExactFacts ==
    ASSUME NEW args, NEW i \in Nat \ {0}, \A j \in 1 .. i : args[j][1] \in Int,
           NEW x, x = args[i][1]
    PROVE  /\ \A op \in {"ADD", "SUB", "MUL"} :
                 ExactValue(op, args, i) \in Int /\ (i = 1 => ExactValue(op, args, i) = x)
           /\ i > 1 => /\ ExactValue("ADD", args, i) = ExactValue("ADD", args, i - 1) + x
                       /\ ExactValue("SUB", args, i) = ExactValue("SUB", args, i - 1) - x
                       /\ ExactValue("MUL", args, i) = ExactValue("MUL", args, i - 1) * x
<1>1. x \in Int /\ args[1][1] \in Int
  OBVIOUS
<1>2. ASSUME NEW k \in 1 .. i
      PROVE  /\ Total(args, 1, k) \in Int /\ Total(args, 2, k) \in Int /\ Product(args, 1, k) \in Int
             /\ Total(args, 1, k) = Total(args, 1, k - 1) + args[k][1]
             /\ Product(args, 1, k) = Product(args, 1, k - 1) * args[k][1]
             /\ k = 1 => Total(args, 2, k) = 0
             /\ k > 1 => Total(args, 2, k) = Total(args, 2, k - 1) + args[k][1]
  <2>1. PICK m, l \in Nat \ {0} : m = 1 /\ l = 2
    OBVIOUS
  <2>2. /\ k \in Nat /\ k >= m - 1 /\ k >= m /\ \A j \in m .. k : args[j][1] \in Int
        /\ k >= l - 1 /\ \A j \in l .. k : args[j][1] \in Int
    BY <2>1
  <2>3. Total(args, m, k) \in Int /\ Total(args, m, k) = Total(args, m, k - 1) + args[k][1]
    BY <2>2, TotalFacts
  <2>4. Product(args, m, k) \in Int /\ Product(args, m, k) = Product(args, m, k - 1) * args[k][1]
    BY <2>2, ProductFacts
  <2>5. /\ Total(args, l, k) \in Int
        /\ k = l - 1 => Total(args, l, k) = 0
        /\ k >= l => Total(args, l, k) = Total(args, l, k - 1) + args[k][1]
    BY <2>2, TotalFacts
  <2> QED
    BY <2>1, <2>3, <2>4, <2>5
<1>3. Total(args, 1, 0) = 0 /\ Product(args, 1, 0) = 1
  <2>1. PICK m \in Nat \ {0}, z \in Nat : m = 1 /\ z = 0
    OBVIOUS
  <2>2. z >= m - 1 /\ z = m - 1 /\ \A j \in m .. z : args[j][1] \in Int
    BY <2>1
  <2>3. Total(args, m, z) = 0 /\ Product(args, m, z) = 1
    BY <2>2, TotalFacts, ProductFacts
  <2> QED
    BY <2>1, <2>3
<1>4. \A k \in 1 .. i : /\ ExactValue("ADD", args, k) = Total(args, 1, k)
                        /\ ExactValue("SUB", args, k) = args[1][1] - Total(args, 2, k)
                        /\ ExactValue("MUL", args, k) = Product(args, 1, k)
  BY DEF ExactValue
<1>5. i \in 1 .. i /\ (i > 1 => i - 1 \in 1 .. i)
  OBVIOUS
<1>6. CASE i = 1
  BY <1>1, <1>2, <1>3, <1>4, <1>5, <1>6
<1>7. CASE i > 1
  <2>1. PICK s, q, p \in Int : s = Total(args, 1, i - 1) /\ q = Total(args, 2, i - 1) /\ p = Product(args, 1, i - 1)
    BY <1>2, <1>5, <1>7
  <2>2. PICK s1, q1, p1 \in Int : s1 = Total(args, 1, i) /\ q1 = Total(args, 2, i) /\ p1 = Product(args, 1, i)
    BY <1>2, <1>5
  <2>3. s1 = s + x /\ q1 = q + x /\ p1 = p * x
    BY <1>2, <1>5, <1>7, <2>1, <2>2
  <2>4. /\ ExactValue("ADD", args, i) = s1 /\ ExactValue("ADD", args, i - 1) = s
        /\ ExactValue("SUB", args, i) = args[1][1] - q1 /\ ExactValue("SUB", args, i - 1) = args[1][1] - q
        /\ ExactValue("MUL", args, i) = p1 /\ ExactValue("MUL", args, i - 1) = p
    BY <1>4, <1>5, <1>7, <2>1, <2>2
  <2> QED
    BY <1>1, <1>7, <2>3, <2>4
<1> QED
  BY <1>6, <1>7

(* The exact quotient with one more divisor.                               *)
LEMMA ExactQuotient ==
    ASSUME NEW args, NEW i \in Nat \ {0}, args[1][1] \in Int,
           \A j \in 2 .. i : args[j][1] \in Int \ {0}, NEW x, x = args[i][1]
    PROVE  /\ ExactValue("DIV", args, i) \in Int
           /\ i = 1 => ExactValue("DIV", args, i) = x
           /\ i > 1 => ExactValue("DIV", args, i) = Quotient(ExactValue("DIV", args, i - 1), x)
<1>1. PICK a \in Int : a = args[1][1]
  OBVIOUS
<1>2. \A k \in Nat : ExactValue("DIV", args, k) = Quotient(a, Product(args, 2, k))
  BY <1>1 DEF ExactValue
<1>3. PICK p \in Int \ {0} : p = Product(args, 2, i)
  BY ProductNotZero
<1>4. ExactValue("DIV", args, i) \in Int
  BY <1>2, <1>3, QuotientIs
<1>5. PICK m \in Nat \ {0} : m = 2
  OBVIOUS
<1>6. i >= m - 1 /\ \A j \in m .. i : args[j][1] \in Int
  BY <1>5
<1>7. /\ i = m - 1 => Product(args, m, i) = 1
      /\ i >= m => Product(args, m, i) = Product(args, m, i - 1) * args[i][1]
  BY <1>6, ProductFacts
<1>8. CASE i = 1
  BY <1>1, <1>2, <1>5, <1>7, <1>8, QuotientByOne
<1>9. CASE i > 1
  <2>1. PICK k \in Nat \ {0} : k = i - 1
    BY <1>9
  <2>2. \A j \in 2 .. k : args[j][1] \in Int \ {0}
    BY <1>9, <2>1
  <2>3. PICK q \in Int \ {0} : q = Product(args, 2, k)
    BY <2>2, ProductNotZero
  <2>4. PICK y \in Int \ {0} : y = x
    BY <1>9
  <2>5. p = q * y
    BY <1>3, <1>5, <1>7, <1>9, <2>1, <2>3, <2>4
  <2>6. Quotient(Quotient(a, q), y) = Quotient(a, q * y)
    BY QuotientTwice
  <2>7. ExactValue("DIV", args, k) = Quotient(a, q)
    BY <1>2, <2>3
  <2>8. ExactValue("DIV", args, i) = Quotient(a, q * y)
    BY <1>2, <1>3, <2>5
  <2> QED
    BY <1>4, <1>9, <2>1, <2>4, <2>6, <2>7, <2>8
<1> QED
  BY <1>4, <1>8, <1>9

(* The running value behind usable arguments, and what the first one that  *)
(* cannot be used ends the walk with.                                      *)
Running(op, args, i) ==
    IF op \in {"GT", "LT"} THEN args[i][1] ELSE Wrap(ExactValue(op, args, i))

Verdict(op, args, i) ==
    IF args[i] = <<>> THEN Fails("ARG_TYPE_MISMATCH")
    ELSE IF op # "DIV" THEN Halts("nil")
    ELSE IF args[i] = <<0>> THEN Fails("DIVISION_BY_0")
    ELSE Halts("undefined")

(* The next step agrees.                                                   *)
LEMMA StepAgrees ==
    ASSUME NEW op \in MathOps, NEW args \in Seq(Arg), NEW i \in Nat, i > 1, i <= Len(args),
           AllUsable(op, args, i - 1), args[i] # <<>>, NEW x, x = args[i][1],
           NEW r, r = MathStep(op, Running(op, args, i - 1), x)
    PROVE  /\ UsableArg(op, args, i) => r.tag = "going" /\ r.val = Running(op, args, i)
           /\ ~ UsableArg(op, args, i) => r = Verdict(op, args, i)
<1>1. PICK k \in Nat \ {0} : k = i - 1
  OBVIOUS
<1>2. k <= Len(args) /\ AllUsable(op, args, k)
  BY <1>1
<1>3. \A j \in 1 .. k : /\ args[j][1] \in Integer /\ args[j][1] \in Int
                        /\ args[j] # <<>> /\ args[j] = <<args[j][1]>>
  BY <1>2, UsableAreIntegers
<1>4. x \in Integer /\ x \in Int /\ args[i] = <<x>>
  <2>1. args[i] \in Arg
    OBVIOUS
  <2> QED
    BY <2>1, ArgIs
<1>5. \A j \in 1 .. i : args[j][1] \in Int
  BY <1>1, <1>3, <1>4
<1>6. \A v : Going(v).tag = "going" /\ Going(v).val = v
  BY DEF Going
<1>7. CASE op = "GT"
  <2>1. PICK y \in Int : y = args[k][1]
    BY <1>3
  <2>2. r = IF y > x THEN Going(x) ELSE Halts("nil")
    BY <1>1, <1>7, <2>1 DEF Running, MathStep
  <2>3. \A j \in 1 .. k - 1 : args[j][1] > y
    BY <1>2, <1>7, <2>1 DEF AllUsable, UsableArg
  <2>4. UsableArg(op, args, i) <=> \A j \in 1 .. k : args[j][1] > x
    BY <1>1, <1>7 DEF UsableArg
  <2>5. (\A j \in 1 .. k : args[j][1] > x) <=> y > x
    <3>1. ASSUME y > x, NEW j \in 1 .. k PROVE args[j][1] > x
      <4>1. j = k \/ j \in 1 .. k - 1
        OBVIOUS
      <4>2. args[j][1] \in Int /\ (args[j][1] = y \/ args[j][1] > y)
        BY <1>3, <2>1, <2>3, <4>1
      <4> QED
        BY <1>4, <3>1, <4>2
    <3>2. k \in 1 .. k
      OBVIOUS
    <3> QED
      BY <2>1, <3>1, <3>2
  <2> QED
    BY <1>6, <1>7, <2>2, <2>4, <2>5 DEF Running, Verdict
<1>8. CASE op = "LT"
  <2>1. PICK y \in Int : y = args[k][1]
    BY <1>3
  <2>2. r = IF y < x THEN Going(x) ELSE Halts("nil")
    BY <1>1, <1>8, <2>1 DEF Running, MathStep
  <2>3. \A j \in 1 .. k - 1 : args[j][1] < y
    BY <1>2, <1>8, <2>1 DEF AllUsable, UsableArg
  <2>4. UsableArg(op, args, i) <=> \A j \in 1 .. k : args[j][1] < x
    BY <1>1, <1>8 DEF UsableArg
  <2>5. (\A j \in 1 .. k : args[j][1] < x) <=> y < x
    <3>1. ASSUME y < x, NEW j \in 1 .. k PROVE args[j][1] < x
      <4>1. j = k \/ j \in 1 .. k - 1
        OBVIOUS
      <4>2. args[j][1] \in Int /\ (args[j][1] = y \/ args[j][1] < y)
        BY <1>3, <2>1, <2>3, <4>1
      <4> QED
        BY <1>4, <3>1, <4>2
    <3>2. k \in 1 .. k
      OBVIOUS
    <3> QED
      BY <2>1, <3>1, <3>2
  <2> QED
    BY <1>6, <1>8, <2>2, <2>4, <2>5 DEF Running, Verdict
<1>9. ASSUME op \in {"ADD", "SUB", "MUL"}
      PROVE  /\ UsableArg(op, args, i) /\ Running(op, args, k) = Wrap(ExactValue(op, args, k))
             /\ Running(op, args, i) = Wrap(ExactValue(op, args, i))
             /\ ExactValue(op, args, k) \in Int
             /\ ExactValue("ADD", args, i) = ExactValue("ADD", args, k) + x
             /\ ExactValue("SUB", args, i) = ExactValue("SUB", args, k) - x
             /\ ExactValue("MUL", args, i) = ExactValue("MUL", args, k) * x
  <2>1. UsableArg(op, args, i)
    BY <1>9 DEF UsableArg
  <2>2. Running(op, args, k) = Wrap(ExactValue(op, args, k)) /\ Running(op, args, i) = Wrap(ExactValue(op, args, i))
    BY <1>9 DEF Running
  <2>3. i \in Nat \ {0} /\ \A j \in 1 .. k : args[j][1] \in Int
    BY <1>3
  <2>4. ExactValue(op, args, k) \in Int
    BY <1>9, <2>3, ExactFacts
  <2>5. /\ ExactValue("ADD", args, i) = ExactValue("ADD", args, i - 1) + x
        /\ ExactValue("SUB", args, i) = ExactValue("SUB", args, i - 1) - x
        /\ ExactValue("MUL", args, i) = ExactValue("MUL", args, i - 1) * x
    BY <1>5, <2>3, ExactFacts
  <2> QED
    BY <1>1, <2>1, <2>2, <2>4, <2>5
<1>10. CASE op = "ADD"
  <2>1. r = Going(Wrap(Wrap(ExactValue("ADD", args, k)) + x))
    BY <1>1, <1>9, <1>10 DEF MathStep
  <2>2. Wrap(Wrap(ExactValue("ADD", args, k)) + x) = Wrap(ExactValue("ADD", args, k) + x)
    BY <1>4, <1>9, <1>10, WrapOnTheWay
  <2> QED
    BY <1>6, <1>9, <1>10, <2>1, <2>2
<1>11. CASE op = "SUB"
  <2>1. r = Going(Wrap(Wrap(ExactValue("SUB", args, k)) - x))
    BY <1>1, <1>9, <1>11 DEF MathStep
  <2>2. Wrap(Wrap(ExactValue("SUB", args, k)) - x) = Wrap(ExactValue("SUB", args, k) - x)
    BY <1>4, <1>9, <1>11, WrapOnTheWay
  <2> QED
    BY <1>6, <1>9, <1>11, <2>1, <2>2
<1>12. CASE op = "MUL"
  <2>1. r = Going(Wrap(Wrap(ExactValue("MUL", args, k)) * x))
    BY <1>1, <1>9, <1>12 DEF MathStep
  <2>2. Wrap(Wrap(ExactValue("MUL", args, k)) * x) = Wrap(ExactValue("MUL", args, k) * x)
    BY <1>4, <1>9, <1>12, WrapOnTheWay
  <2> QED
    BY <1>6, <1>9, <1>12, <2>1, <2>2
<1>13. CASE op = "DIV"
  <2>1. \A j \in 2 .. k : args[j][1] \in Int \ {0}
    <3> TAKE j \in 2 .. k
    <3>1. j \in 1 .. k /\ UsableArg(op, args, j)
      BY <1>2 DEF AllUsable
    <3> QED
      BY <1>3, <1>13, <3>1 DEF UsableArg
  <2>2. args[1][1] \in Integer /\ args[1][1] \in Int
    BY <1>3
  <2>3. PICK v : v = ExactValue("DIV", args, k)
    OBVIOUS
  <2>4. v \in Int /\ v \in Integer
    <3>1. v \in Int /\ (k = 1 => v = args[k][1])
      BY <2>1, <2>2, <2>3, ExactQuotient
    <3>2. k > 1 => v \in Integer
      <4>1. UsableArg(op, args, k)
        BY <1>2 DEF AllUsable
      <4> QED
        BY <1>13, <2>3, <4>1 DEF UsableArg
    <3> QED
      BY <2>2, <3>1, <3>2
  <2>5. Running(op, args, k) = v
    BY <1>13, <2>3, <2>4, WrapKeeps DEF Running
  <2>6. r = IF x = 0 THEN Fails("DIVISION_BY_0")
            ELSE IF v = IntMin /\ x = -1 THEN Halts("undefined")
            ELSE Going(Quotient(v, x))
    BY <1>1, <1>13, <2>5 DEF MathStep
  <2>7. UsableArg(op, args, i) <=> x # 0 /\ ExactValue("DIV", args, i) \in Integer
    BY <1>13 DEF UsableArg
  <2>8. x # 0 => ExactValue("DIV", args, i) = Quotient(v, x)
    <3>1. SUFFICES ASSUME x # 0 PROVE ExactValue("DIV", args, i) = Quotient(v, x)
      OBVIOUS
    <3>2. \A j \in 2 .. i : args[j][1] \in Int \ {0}
      BY <1>1, <1>4, <2>1, <3>1
    <3>3. i \in Nat \ {0}
      OBVIOUS
    <3>4. ExactValue("DIV", args, i) = Quotient(ExactValue("DIV", args, i - 1), x)
      BY <2>2, <3>2, <3>3, ExactQuotient
    <3> QED
      BY <1>1, <2>3, <3>4
  <2>9. x # 0 => (Quotient(v, x) \in Integer <=> ~ (v = IntMin /\ x = -1))
    BY <1>4, <2>4, QuotientFits
  <2>10. UsableArg(op, args, i) => Running(op, args, i) = Quotient(v, x)
    BY <1>13, <2>7, <2>8, WrapKeeps DEF Running
  <2>11. args[i] = <<0>> <=> x = 0
    BY <1>4
  <2> QED
    BY <1>6, <1>13, <2>6, <2>7, <2>8, <2>9, <2>10, <2>11 DEF Verdict
<1> QED
  BY <1>7, <1>8, <1>10, <1>11, <1>12, <1>13 DEF MathOps

(* The first argument starts the walk.                                     *)
LEMMA StartAgrees ==
    ASSUME NEW op \in MathOps, NEW args \in Seq(Arg), Len(args) >= 1, NEW r, r = Started(args[1])
    PROVE  /\ UsableArg(op, args, 1) => r.tag = "going" /\ r.val = Running(op, args, 1)
           /\ ~ UsableArg(op, args, 1) => r = Verdict(op, args, 1)
<1>1. args[1] \in Arg
  OBVIOUS
<1>2. UsableArg(op, args, 1) <=> args[1] # <<>>
  BY DEF UsableArg
<1>3. CASE args[1] = <<>>
  BY <1>2, <1>3 DEF Started, Verdict
<1>4. CASE args[1] # <<>>
  <2>1. PICK x \in Int : x = args[1][1] /\ x \in Integer
    BY <1>1, <1>4, ArgIs
  <2>2. r.tag = "going" /\ r.val = x
    BY <1>4, <2>1 DEF Started, Going
  <2>3. PICK i \in Nat \ {0} : i = 1
    OBVIOUS
  <2>4. \A j \in 1 .. i : args[j][1] \in Int
    BY <2>1, <2>3
  <2>5. op \in {"ADD", "SUB", "MUL"} => ExactValue(op, args, i) = x
    BY <2>1, <2>3, <2>4, ExactFacts
  <2>6. ExactValue("DIV", args, i) = x
    <3>1. args[1][1] \in Int /\ x = args[i][1] /\ \A j \in 2 .. i : args[j][1] \in Int \ {0}
      BY <2>1, <2>3
    <3> QED
      BY <2>3, <3>1, ExactQuotient
  <2>7. Running(op, args, 1) = x
    BY <2>1, <2>3, <2>5, <2>6, WrapKeeps DEF Running, MathOps
  <2> QED
    BY <1>2, <1>4, <2>2, <2>7
<1> QED
  BY <1>3, <1>4

(* What is true of a walk when it has come to argument i.                  *)
Agrees(w, op, args, i) ==
    \/ /\ AllUsable(op, args, i) /\ w[i].tag = "going" /\ w[i].val = Running(op, args, i)
    \/ \E k \in 1 .. i : /\ AllUsable(op, args, k - 1) /\ ~ UsableArg(op, args, k)
                         /\ w[i] = Verdict(op, args, k)

(* So does every step that follows: as long as all arguments can be used   *)
(* the walk goes on with the running value, and the first one that cannot  *)
(* ends it.                                                                *)
LEMMA WalkAgrees ==
    ASSUME NEW op \in MathOps, NEW args \in Seq(Arg), NEW n \in Nat, n = Len(args), n >= 1, NEW w,
           w[1] = Started(args[1]), \A i \in 2 .. n : w[i] = GoneOn(op, w[i - 1], args[i])
    PROVE  Agrees(w, op, args, n)
<1> DEFINE Bad == {i \in 1 .. n : ~ Agrees(w, op, args, i)}
<1>1. SUFFICES ASSUME Bad # {} PROVE FALSE
  <2>1. n \in 1 .. n
    OBVIOUS
  <2> QED
    BY <2>1
<1>2. PICK i \in Bad : \A j \in Bad : i <= j
  <2>1. Bad \in SUBSET Nat
    OBVIOUS
  <2> HIDE DEF Bad
  <2> QED
    BY <1>1, <2>1, LeastIn
<1>3. i \in 1 .. n /\ ~ Agrees(w, op, args, i)
  OBVIOUS
<1>4. ASSUME AllUsable(op, args, i - 1),
             UsableArg(op, args, i) => w[i].tag = "going" /\ w[i].val = Running(op, args, i),
             ~ UsableArg(op, args, i) => w[i] = Verdict(op, args, i)
      PROVE  FALSE
  <2>1. CASE UsableArg(op, args, i)
    <3>1. AllUsable(op, args, i)
      BY <1>3, <1>4, <2>1 DEF AllUsable
    <3> QED
      BY <1>3, <1>4, <2>1, <3>1 DEF Agrees
  <2>2. CASE ~ UsableArg(op, args, i)
    <3>1. i \in 1 .. i
      BY <1>3
    <3> QED
      BY <1>3, <1>4, <2>2, <3>1 DEF Agrees
  <2> QED
    BY <2>1, <2>2
<1>5. CASE i = 1
  <2>1. AllUsable(op, args, i - 1)
    BY <1>5 DEF AllUsable
  <2>2. /\ UsableArg(op, args, 1) => w[1].tag = "going" /\ w[1].val = Running(op, args, 1)
        /\ ~ UsableArg(op, args, 1) => w[1] = Verdict(op, args, 1)
    BY StartAgrees
  <2> QED
    BY <1>4, <1>5, <2>1, <2>2
<1>6. CASE i > 1
  <2>1. PICK h : h = i - 1
    OBVIOUS
  <2>2. h \in 1 .. n /\ i \in 2 .. n
    BY <1>3, <1>6, <2>1
  <2>3. Agrees(w, op, args, h)
    <3>1. h \notin Bad
      <4> HIDE DEF Bad
      <4> QED
        BY <1>2, <1>3, <2>1
    <3> QED
      BY <2>2, <3>1
  <2>4. w[i] = GoneOn(op, w[h], args[i])
    BY <2>1, <2>2
  <2>5. CASE AllUsable(op, args, h) /\ w[h].tag = "going" /\ w[h].val = Running(op, args, h)
    <3>1. CASE args[i] = <<>>
      <4>1. w[i] = Verdict(op, args, i)
        BY <2>4, <2>5, <3>1 DEF GoneOn, Verdict
      <4>2. ~ UsableArg(op, args, i)
        BY <3>1 DEF UsableArg
      <4> QED
        BY <1>4, <2>1, <2>5, <4>1, <4>2
    <3>2. CASE args[i] # <<>>
      <4>1. w[i] = MathStep(op, Running(op, args, i - 1), args[i][1])
        BY <2>1, <2>4, <2>5, <3>2 DEF GoneOn
      <4>2. i \in Nat /\ i > 1 /\ i <= Len(args) /\ AllUsable(op, args, i - 1)
        BY <2>1, <2>2, <2>5
      <4>3. /\ UsableArg(op, args, i) => w[i].tag = "going" /\ w[i].val = Running(op, args, i)
            /\ ~ UsableArg(op, args, i) => w[i] = Verdict(op, args, i)
        BY <3>2, <4>1, <4>2, StepAgrees
      <4> QED
        BY <1>4, <4>2, <4>3
    <3> QED
      BY <3>1, <3>2
  <2>6. ASSUME NEW k \in 1 .. h, AllUsable(op, args, k - 1), ~ UsableArg(op, args, k),
               w[h] = Verdict(op, args, k)
        PROVE  FALSE
    <3>1. w[h].tag # "going"
      BY <2>6 DEF Verdict, Fails, Halts
    <3>2. w[i] = w[h]
      BY <2>4, <3>1 DEF GoneOn
    <3>3. k \in 1 .. i
      BY <1>3, <2>1
    <3> QED
      BY <1>3, <2>6, <3>2, <3>3 DEF Agrees
  <2> QED
    BY <2>3, <2>5, <2>6 DEF Agrees
<1> QED
  BY <1>3, <1>5, <1>6

(* Every primitive computes its reference, of any number of arguments in a *)
(* word of any size.                                                       *)
LEMMA Exactly ==
    ASSUME NEW op \in MathOps, NEW args \in Seq(Arg), args # <<>>
    PROVE  ComputesExactly(op, args)
<1>1. PICK n \in Nat : n = Len(args) /\ n >= 1
  OBVIOUS
<1>2. PICK w : /\ MathWalk(op, args) = w[n] /\ w[1] = Started(args[1])
               /\ \A i \in 2 .. n : w[i] = GoneOn(op, w[i - 1], args[i])
  BY <1>1, WalkIs
<1>3. Agrees(w, op, args, n)
  BY <1>1, <1>2, WalkAgrees
<1> DEFINE bad == {i \in DOMAIN args :
                     (\A j \in 1 .. i - 1 : UsableArg(op, args, j)) /\ ~ UsableArg(op, args, i)}
<1>4. DOMAIN args = 1 .. n
  BY <1>1
<1>5. CASE AllUsable(op, args, n) /\ w[n].tag = "going" /\ w[n].val = Running(op, args, n)
  <2>1. bad = {}
    BY <1>4, <1>5 DEF AllUsable
  <2>2. op \notin {"GT", "LT"} => w[n].val = Wrap(ExactValue(op, args, Len(args)))
    BY <1>1, <1>5 DEF Running
  <2>3. ASSUME op \notin {"GT", "LT"}, ~ Overflows(op, args)
        PROVE  Wrap(ExactValue(op, args, n)) = ExactValue(op, args, n)
    <3>1. AllUsable(op, args, n) /\ n <= Len(args)
      BY <1>1, <1>5
    <3>2. \A j \in 1 .. n : args[j] # <<>> /\ args[j][1] \in Integer /\ args[j][1] \in Int
      BY <3>1, UsableAreIntegers
    <3>3. CASE op \in {"ADD", "SUB", "MUL"}
      <4>1. n \in DOMAIN args
        BY <1>1, <1>4
      <4>2. ExactValue(op, args, n) \in Integer
        BY <2>3, <3>2, <3>3, <4>1 DEF Overflows
      <4> QED
        BY <4>2, WrapKeeps
    <3>4. CASE op = "DIV" /\ n > 1
      <4>1. UsableArg(op, args, n)
        BY <1>1, <3>1 DEF AllUsable
      <4> QED
        BY <3>4, <4>1, WrapKeeps DEF UsableArg
    <3>5. CASE op = "DIV" /\ n = 1
      <4>1. PICK x \in Integer : x = args[n][1]
        BY <1>1, <3>2
      <4>2. ExactValue("DIV", args, n) = x
        BY <1>1, <3>2, <3>5, <4>1, ExactQuotient
      <4> QED
        BY <3>5, <4>2, WrapKeeps
    <3> QED
      BY <1>1, <2>3, <3>3, <3>4, <3>5 DEF MathOps
  <2>4. op \notin {"GT", "LT"} =>
          LET exact == ExactValue(op, args, Len(args))
          IN  w[n].val = IF Overflows(op, args) THEN Wrap(exact) ELSE exact
    BY <1>1, <2>2, <2>3
  <2> QED
    BY <1>2, <1>5, <2>1, <2>4 DEF ComputesExactly
<1>6. ASSUME NEW k \in 1 .. n, AllUsable(op, args, k - 1), ~ UsableArg(op, args, k),
             w[n] = Verdict(op, args, k)
      PROVE  ComputesExactly(op, args)
  <2>1. k \in bad
    BY <1>4, <1>6 DEF AllUsable
  <2>2. MathWalk(op, args) = IF args[k] = <<>> THEN Fails("ARG_TYPE_MISMATCH")
                             ELSE IF op # "DIV" THEN Halts("nil")
                             ELSE IF args[k] = <<0>> THEN Fails("DIVISION_BY_0")
                             ELSE Halts("undefined")
    BY <1>2, <1>6 DEF Verdict
  <2> QED
    BY <2>1, <2>2 DEF ComputesExactly
<1> QED
  BY <1>3, <1>5, <1>6 DEF Agrees

(* In a run of the library the arguments are integers and others.          *)
LEMMA ArgumentsAre == LibrarySpec => [](arguments \in Seq(Arg))
<1>1. LibraryInit => arguments \in Seq(Arg)
  BY DEF LibraryInit
<1>2. arguments \in Seq(Arg) /\ [LibraryNext]_<<which, list, dictVars, stackVars, arguments>>
        => (arguments \in Seq(Arg))'
  <2> SUFFICES ASSUME arguments \in Seq(Arg), UNCHANGED arguments \/ UseMath
               PROVE  arguments' \in Seq(Arg)
    BY DEF LibraryNext, UseList, UseDict, UseStack
  <2> QED
    BY DEF UseMath, Arg
<1> QED
  BY <1>1, <1>2, PTL DEF LibrarySpec

(* Running sums, differences, products and quotients, stopping at the      *)
(* first argument that is of no use, are exact as long as no value leaves  *)
(* the machine word, and exact in the word behind an overflow that wraps:  *)
(* of any number of arguments, for a word of any size.                     *)
THEOREM SumsAreExact == LibrarySpec => []ArithmeticIsExact
<1>1. arguments \in Seq(Arg) => ArithmeticIsExact
  <2> SUFFICES ASSUME arguments \in Seq(Arg), NEW op \in MathOps,
                      Len(arguments) >= (IF op \in {"SUB", "DIV"} THEN 2 ELSE 1)
               PROVE  ComputesExactly(op, arguments)
    BY DEF ArithmeticIsExact
  <2>1. arguments # <<>>
    OBVIOUS
  <2> QED
    BY <2>1, Exactly
<1> QED
  BY <1>1, ArgumentsAre, PTL

=============================================================================
