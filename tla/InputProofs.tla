----------------------------- MODULE InputProofs -----------------------------
(***************************************************************************)
(* What Input promises of the line buffer and of the parser's input, for   *)
(* every size of the buffer, every length and number of lines.             *)
(***************************************************************************)
EXTENDS Input, TLAPS, NaturalsInduction, SequenceTheorems, WellFoundedInduction

-----------------------------------------------------------------------------
(* Joined, solved.                                                         *)

(* A nonempty set of natural numbers has a least member. *)
LEMMA LeastNumber ==
    ASSUME NEW H \in SUBSET Nat, H # {}
    PROVE  \E i \in H : \A j \in H : i <= j
<1>1. PICK i \in H : \A j \in H : ~ (<<j, i>> \in OpToRel(<, Nat))
  BY WFMin, NatLessThanWellFounded
<1>2. \A j \in H : ~ (j < i)
  BY <1>1 DEF OpToRel
<1> QED
  BY <1>2

(* One line behind those that are joined. *)
JoinLine(before, line) ==
    IF line = <<>> THEN before
    ELSE IF before = <<>> THEN line
    ELSE before \o <<NL>> \o line

IsJoin(f, lines) ==
    f = [i \in 0 .. Len(lines) |-> IF i = 0 THEN <<>> ELSE JoinLine(f[i - 1], lines[i])]

Join(lines) == CHOOSE f : IsJoin(f, lines)

JoinTo(f, lines, n) ==
    f = [i \in 0 .. n |-> IF i = 0 THEN <<>> ELSE JoinLine(f[i - 1], lines[i])]

(* A join of n - 1 lines extends to one of n.                              *)
LEMMA JoinExtends ==
    ASSUME NEW lines, NEW n \in Nat \ {0}, NEW f, JoinTo(f, lines, n - 1)
    PROVE  \E g : JoinTo(g, lines, n)
<1> DEFINE last == JoinLine(f[n - 1], lines[n])
           g == [i \in 0 .. n |-> IF i = n THEN last ELSE f[i]]
<1>1. \A i \in 0 .. n - 1 : f[i] = IF i = 0 THEN <<>> ELSE JoinLine(f[i - 1], lines[i])
  BY DEF JoinTo
<1> HIDE DEF last
<1>2. g[n] = last /\ \A i \in 0 .. n - 1 : g[i] = f[i]
  OBVIOUS
<1>3. last = JoinLine(g[n - 1], lines[n])
  BY <1>2 DEF last
<1>4. g = [i \in 0 .. n |-> g[i]]
  OBVIOUS
<1> HIDE DEF g
<1>5. \A i \in 0 .. n : g[i] = IF i = 0 THEN <<>> ELSE JoinLine(g[i - 1], lines[i])
  <2> TAKE i \in 0 .. n
  <2>1. CASE i = n
    BY <1>2, <1>3, <2>1
  <2>2. CASE i = 0
    BY <1>1, <1>2, <2>2
  <2>3. CASE i \in 1 .. n - 1
    <3>1. g[i] = JoinLine(f[i - 1], lines[i])
      BY <1>1, <1>2, <2>3
    <3>2. g[i - 1] = f[i - 1]
      BY <1>2, <2>3
    <3> QED
      BY <2>3, <3>1, <3>2
  <2> QED
    BY <2>1, <2>2, <2>3
<1>6. JoinTo(g, lines, n)
  BY <1>4, <1>5 DEF JoinTo
<1> QED
  BY <1>6

(* So any number of lines can be joined.                                   *)
LEMMA JoinExists ==
    ASSUME NEW lines, NEW N0 \in Nat
    PROVE  \E f : JoinTo(f, lines, N0)
<1> DEFINE Bad == {n \in Nat : ~ \E f : JoinTo(f, lines, n)}
<1>1. SUFFICES ASSUME Bad # {} PROVE FALSE
  OBVIOUS
<1>2. PICK n \in Bad : \A m \in Bad : n <= m
  <2>1. Bad \in SUBSET Nat
    OBVIOUS
  <2> HIDE DEF Bad
  <2> QED
    BY <1>1, <2>1, LeastNumber
<1>3. n \in Nat /\ ~ \E f : JoinTo(f, lines, n)
  OBVIOUS
<1>4. n # 0
  <2> DEFINE g == [i \in 0 .. 0 |-> <<>>]
  <2>1. JoinTo(g, lines, 0)
    BY DEF JoinTo
  <2> QED
    BY <1>3, <2>1
<1>5. n - 1 \notin Bad
  <2> HIDE DEF Bad
  <2> QED
    BY <1>2, <1>3, <1>4
<1>6. PICK f : JoinTo(f, lines, n - 1)
  BY <1>3, <1>4, <1>5
<1> QED
  BY <1>3, <1>4, <1>6, JoinExtends

(* Joined of no line, and of one line more.                                *)
Joining(lines) == Join(lines)[Len(lines)]

(* They are joined behind one another.                                     *)
LEMMA JoinFacts ==
    ASSUME NEW S, NEW lines \in Seq(S)
    PROVE  \A i \in 0 .. Len(lines) :
              Join(lines)[i] = IF i = 0 THEN <<>> ELSE JoinLine(Join(lines)[i - 1], lines[i])
<1>1. Len(lines) \in Nat
  BY LenProperties
<1>2. \E f : IsJoin(f, lines)
  BY <1>1, JoinExists DEF JoinTo, IsJoin
<1>3. IsJoin(Join(lines), lines)
  BY <1>2 DEF Join
<1> QED
  BY <1>3 DEF IsJoin

(* Joining one line more joins it to what was joined.                      *)
LEMMA JoinAppend ==
    ASSUME NEW S, NEW lines \in Seq(S), NEW line \in S
    PROVE  Joining(Append(lines, line)) = JoinLine(Joining(lines), line)
<1> DEFINE more == Append(lines, line)
           n == Len(lines)
           Bad == {i \in 0 .. n : Join(more)[i] # Join(lines)[i]}
<1>1. /\ n \in Nat /\ more \in Seq(S) /\ Len(more) = n + 1 /\ more[n + 1] = line
      /\ \A i \in 1 .. n : more[i] = lines[i]
  BY AppendProperties, LenProperties
<1>2. \A i \in 0 .. n :
         Join(lines)[i] = IF i = 0 THEN <<>> ELSE JoinLine(Join(lines)[i - 1], lines[i])
  BY JoinFacts
<1> HIDE DEF more
<1>3. \A i \in 0 .. n + 1 :
         Join(more)[i] = IF i = 0 THEN <<>> ELSE JoinLine(Join(more)[i - 1], more[i])
  BY <1>1, JoinFacts
<1>4. Bad = {}
  <2>1. SUFFICES ASSUME Bad # {} PROVE FALSE
    OBVIOUS
  <2>2. Bad \in SUBSET Nat
    BY <1>1
  <2>3. \E i \in Bad : \A j \in Bad : i <= j
    <3> HIDE DEF Bad
    <3> QED
      BY <2>1, <2>2, LeastNumber
  <2>4. PICK i \in Bad : \A j \in Bad : i <= j
    BY <2>3
  <2>5. i \in 0 .. n /\ Join(more)[i] # Join(lines)[i]
    OBVIOUS
  <2> HIDE DEF n
  <2>6. i # 0
    BY <1>1, <1>2, <1>3, <2>5
  <2>7. Join(more)[i - 1] = Join(lines)[i - 1]
    BY <1>1, <2>4, <2>5, <2>6
  <2> QED
    BY <1>1, <1>2, <1>3, <2>5, <2>6, <2>7
<1>5. Join(more)[n] = Join(lines)[n]
  BY <1>1, <1>4
<1>6. Join(more)[n + 1] = JoinLine(Join(lines)[n], line)
  <2> HIDE DEF n
  <2> QED
    BY <1>1, <1>3, <1>5
<1> QED
  BY <1>1, <1>6 DEF Joining, more

(* What is defined by recursion is this. *)
LEMMA JoinedIsJoining ==
    ASSUME NEW S, typed \in Seq(S)
    PROVE  Joined = Joining(typed)
<1>1. Len(typed) \in Nat
  BY LenProperties
<1> DEFINE Step(f, i) == IF i = 0 THEN <<>>
                         ELSE IF typed[i] = <<>> THEN f[i - 1]
                         ELSE IF f[i - 1] = <<>> THEN typed[i]
                         ELSE f[i - 1] \o <<NL>> \o typed[i]
<1>2. \A f, i : Step(f, i) = IF i = 0 THEN <<>> ELSE JoinLine(f[i - 1], typed[i])
  BY DEF JoinLine
<1>3. \A f : (f = [i \in 0 .. Len(typed) |-> Step(f, i)]) <=> IsJoin(f, typed)
  <2> HIDE DEF Step
  <2> QED
    BY <1>2 DEF IsJoin
<1>4. (CHOOSE f : f = [i \in 0 .. Len(typed) |-> Step(f, i)]) = Join(typed)
  <2> HIDE DEF Step
  <2> QED
    BY <1>3 DEF Join
<1> QED
  BY <1>4 DEF Joined, Joining

-----------------------------------------------------------------------------
(* The buffer.                                                             *)

TextIn(buf, n) == [i \in 1 .. n |-> buf[i - 1]]

Chars == Letters \cup {NL}

(* What clsr_repl passes on: a string in an array that ends behind it.     *)
BufferOK(buf, n) ==
    /\ buf = [i \in Cells |-> buf[i]]
    /\ n \in 0 .. N - 1 /\ buf[n] = NUL /\ buf[N] = Stale
    /\ \A i \in 0 .. n - 1 : buf[i] \in Chars

(* A line is a sequence of letters.                                        *)
LEMMA LineFacts ==
    ASSUME NEW line \in Texts
    PROVE  /\ line \in Seq(Letters) /\ line \in Seq(Chars)
           /\ Len(line) \in Nat
           /\ line = <<>> <=> Len(line) = 0
           /\ line = [i \in 1 .. Len(line) |-> line[i]]
           /\ \A i \in 1 .. Len(line) : line[i] \in Letters
<1>1. PICK n \in 0 .. MaxLine : line \in [1 .. n -> Letters]
  BY DEF Texts
<1>2. n \in Nat
  BY InputAssumption
<1>3. line \in Seq(Letters)
  BY <1>1, <1>2, SeqDef
<1>4. line \in Seq(Chars)
  BY <1>3, SeqMonotonic DEF Chars
<1> QED
  BY <1>3, <1>4, LenProperties, EmptySeq

(* The first line is copied to the front of the buffer; whatever was       *)
(* there, the buffer holds the line then.                                  *)
LEMMA FirstAppended ==
    ASSUME BufferOK(full, len), len = 0, NEW line \in Texts, ~ TooLong(line)
    PROVE  /\ BufferOK(Appended(line).buf, Appended(line).len)
           /\ Appended(line).len = Len(line)
           /\ TextIn(Appended(line).buf, Appended(line).len) = line
           /\ ~ Over(Appended(line))
<1> DEFINE a == Appended(line)
           n == Len(line)
<1>1. n \in Nat /\ n + 2 < N /\ N \in Nat
  BY LineFacts, InputAssumption DEF TooLong
<1>2. /\ a.len = n
      /\ a.buf = [i \in Cells |-> IF i \in 0 .. n - 1 THEN line[i + 1]
                                  ELSE IF i = n THEN NUL ELSE full[i]]
  BY <1>1 DEF Appended
<1> HIDE DEF a, n
<1>3. \A i \in 0 .. n - 1 : a.buf[i] = line[i + 1]
  BY <1>1, <1>2 DEF Cells
<1>4. a.buf[n] = NUL /\ a.buf[N] = Stale
  BY <1>1, <1>2 DEF Cells, BufferOK
<1>5. \A i \in 1 .. n : line[i] \in Letters
  BY LineFacts DEF n
<1>6. BufferOK(a.buf, a.len)
  BY <1>1, <1>2, <1>3, <1>4, <1>5 DEF BufferOK, Chars
<1>7. \A i \in 1 .. n : a.buf[i - 1] = line[i]
  BY <1>1, <1>3
<1>8. TextIn(a.buf, a.len) = line
  <2>1. line = [i \in 1 .. n |-> line[i]]
    BY LineFacts DEF n
  <2> QED
    BY <1>2, <1>7, <2>1 DEF TextIn
<1>9. ~ Over(a)
  <2>1. ASSUME n > 0 PROVE a.buf[n - 1] \in Letters
    BY <1>1, <1>3, <1>5, <2>1
  <2> QED
    BY <1>1, <1>2, <2>1, InputAssumption DEF Over
<1> QED
  BY <1>2, <1>6, <1>8, <1>9 DEF a, n

(* The text of a buffer is a sequence.                                     *)
LEMMA TextFacts ==
    ASSUME NEW buf, NEW n \in Nat, \A i \in 0 .. n - 1 : buf[i] \in Chars
    PROVE  /\ TextIn(buf, n) \in Seq(Chars)
           /\ Len(TextIn(buf, n)) = n
           /\ \A i \in 1 .. n : TextIn(buf, n)[i] = buf[i - 1]
<1>1. \A i \in 1 .. n : buf[i - 1] \in Chars
  OBVIOUS
<1>2. TextIn(buf, n) \in [1 .. n -> Chars]
  BY <1>1 DEF TextIn
<1>3. TextIn(buf, n) \in Seq(Chars)
  BY <1>2, SeqDef
<1>4. Len(TextIn(buf, n)) \in Nat /\ 1 .. Len(TextIn(buf, n)) = 1 .. n
  BY <1>2, <1>3, LenProperties
<1>5. Len(TextIn(buf, n)) = n
  <2> DEFINE m == Len(TextIn(buf, n))
  <2>1. m \in Nat /\ 1 .. m = 1 .. n
    BY <1>4
  <2> HIDE DEF m
  <2>2. m = n
    <3>1. m > n => m \in 1 .. m /\ m \notin 1 .. n
      BY <2>1
    <3>2. n > m => n \in 1 .. n /\ n \notin 1 .. m
      BY <2>1
    <3> QED
      BY <2>1, <3>1, <3>2
  <2> QED
    BY <2>2 DEF m
<1> QED
  BY <1>3, <1>5 DEF TextIn

(* A later line is copied behind what is there, behind a newline; the      *)
(* buffer ends in a newline then just if the line was empty.               *)
LEMMA LaterAppended ==
    ASSUME BufferOK(full, len), len > 0, NEW line \in Texts, ~ TooLong(line)
    PROVE  /\ BufferOK(Appended(line).buf, Appended(line).len)
           /\ Appended(line).len = len + 1 + Len(line)
           /\ Appended(line).buf[len] = NL
           /\ \A i \in 0 .. len - 1 : Appended(line).buf[i] = full[i]
           /\ TextIn(Appended(line).buf, Appended(line).len)
                = TextIn(full, len) \o <<NL>> \o line
           /\ Over(Appended(line)) <=> line = <<>>
<1> DEFINE a == Appended(line)
           n == Len(line)
           end == len + 1 + n
<1>1. n \in Nat /\ len + n + 2 < N /\ N \in Nat /\ len \in Nat /\ len > 0
  BY LineFacts, InputAssumption DEF TooLong, BufferOK
<1>2. /\ a.len = end
      /\ a.buf = [i \in Cells |-> IF i \in len + 1 .. end - 1 THEN line[i - (len + 1) + 1]
                                  ELSE IF i = end THEN NUL
                                  ELSE IF i = len THEN NL
                                  ELSE full[i]]
  BY <1>1 DEF Appended
<1> HIDE DEF a
<1>3. end \in Nat /\ end < N
  BY <1>1
<1>4. \A i \in 1 .. n : len + i \in len + 1 .. end - 1 /\ len + i \in Cells
                         /\ len + i - (len + 1) + 1 = i
  <2> HIDE DEF n
  <2> QED
    BY <1>1 DEF Cells
<1>5. \A i \in 1 .. n : a.buf[len + i] = line[i]
  <2> TAKE i \in 1 .. n
  <2>1. len + i \in len + 1 .. end - 1 /\ len + i \in Cells
    BY <1>4
  <2>2. len + i - (len + 1) + 1 = i
    BY <1>4
  <2> HIDE DEF n, end
  <2>3. \A j \in Cells : j \in len + 1 .. end - 1 => a.buf[j] = line[j - (len + 1) + 1]
    BY <1>2
  <2>4. PICK j : j = len + i
    OBVIOUS
  <2>5. j \in Cells /\ j \in len + 1 .. end - 1
    BY <2>1, <2>4
  <2>6. j - (len + 1) + 1 = i
    BY <1>1, <2>4
  <2>7. a.buf[j] = line[j - (len + 1) + 1]
    BY <2>3, <2>5
  <2> QED
    BY <2>4, <2>6, <2>7
<1>6. /\ a.buf[end] = NUL /\ a.buf[N] = Stale /\ a.buf[len] = NL
      /\ \A i \in 0 .. len - 1 : a.buf[i] = full[i]
  <2> HIDE DEF n
  <2> QED
    BY <1>1, <1>2 DEF Cells, BufferOK
<1>7. \A i \in 1 .. n : line[i] \in Letters
  BY LineFacts DEF n
<1>8. \A i \in 0 .. end - 1 : a.buf[i] \in Chars
  <2> TAKE i \in 0 .. end - 1
  <2>4. i \in Nat /\ \A j \in 0 .. len - 1 : full[j] \in Chars
    <3> HIDE DEF end
    <3> QED
      BY <1>3 DEF BufferOK
  <2>1. CASE i < len
    <3>1. i \in 0 .. len - 1
      BY <1>1, <2>1, <2>4
    <3> QED
      BY <1>6, <2>4, <3>1
  <2>2. CASE i = len
    BY <1>6, <2>2 DEF Chars
  <2>3. CASE i > len
    <3>1. i - len \in 1 .. n /\ i = len + (i - len)
      <4> HIDE DEF n
      <4> QED
        BY <1>1, <2>3, <2>4
    <3>2. a.buf[i] = line[i - len]
      BY <1>5, <3>1
    <3> QED
      BY <1>7, <3>1, <3>2 DEF Chars
  <2> QED
    BY <1>1, <2>1, <2>2, <2>3, <2>4
<1>9. BufferOK(a.buf, a.len)
  <2> HIDE DEF end
  <2>1. a.buf = [i \in Cells |-> a.buf[i]]
    BY <1>2
  <2>2. end \in 0 .. N - 1
    BY <1>1, <1>3
  <2> QED
    BY <1>2, <1>6, <1>8, <2>1, <2>2 DEF BufferOK
<1>10. TextIn(a.buf, a.len) = TextIn(full, len) \o <<NL>> \o line
  <2> DEFINE old == TextIn(full, len)
             new == TextIn(a.buf, a.len)
             sum == old \o <<NL>> \o line
  <2>1. /\ old \in Seq(Chars) /\ Len(old) = len
        /\ \A i \in 1 .. len : old[i] = full[i - 1]
    BY <1>1, TextFacts DEF BufferOK
  <2>2. /\ new \in Seq(Chars) /\ Len(new) = end
        /\ \A i \in 1 .. end : new[i] = a.buf[i - 1]
    <3> HIDE DEF end
    <3> QED
      BY <1>2, <1>3, <1>8, TextFacts
  <2>3. line \in Seq(Chars) /\ <<NL>> \in Seq(Chars) /\ Len(<<NL>>) = 1 /\ <<NL>>[1] = NL
    BY LineFacts DEF Chars
  <2> HIDE DEF old, new
  <2>4. /\ old \o <<NL>> \in Seq(Chars) /\ Len(old \o <<NL>>) = len + 1
        /\ \A i \in 1 .. len + 1 : (old \o <<NL>>)[i] = IF i <= len THEN old[i] ELSE <<NL>>[i - len]
    BY <2>1, <2>3, ConcatProperties
  <2>5. /\ sum \in Seq(Chars) /\ Len(sum) = end
        /\ \A i \in 1 .. end : sum[i] = IF i <= len + 1 THEN (old \o <<NL>>)[i] ELSE line[i - (len + 1)]
    <3>1. PICK u : u = old \o <<NL>>
      OBVIOUS
    <3>2. /\ u \o line \in Seq(Chars) /\ Len(u \o line) = (len + 1) + n
          /\ \A i \in 1 .. (len + 1) + n :
                (u \o line)[i] = IF i <= len + 1 THEN u[i] ELSE line[i - (len + 1)]
      <4>1. u \in Seq(Chars) /\ Len(u) = len + 1
        BY <2>4, <3>1
      <4> QED
        <5> HIDE DEF n
        <5>1. line \in Seq(Chars) /\ Len(line) = n
          BY <2>3 DEF n
        <5>2. /\ u \o line \in Seq(Chars) /\ Len(u \o line) = Len(u) + Len(line)
              /\ \A i \in 1 .. Len(u) + Len(line) :
                    (u \o line)[i] = IF i <= Len(u) THEN u[i] ELSE line[i - Len(u)]
          BY <4>1, <5>1, ConcatProperties
        <5> QED
          BY <4>1, <5>1, <5>2
    <3> QED
      BY <3>1, <3>2
  <2> HIDE DEF sum
  <2>6. \A i \in 1 .. end : new[i] = sum[i]
    <3> TAKE i \in 1 .. end
    <3>1. CASE i <= len
      <4> HIDE DEF end, n
      <4>1. i \in 1 .. len /\ i \in 1 .. len + 1 /\ i <= len + 1 /\ i - 1 \in 0 .. len - 1
        BY <1>1, <1>3, <3>1
      <4>2. sum[i] = full[i - 1]
        BY <2>1, <2>4, <2>5, <3>1, <4>1
      <4>3. new[i] = full[i - 1]
        BY <1>6, <2>2, <4>1
      <4> QED
        BY <4>2, <4>3
    <3>2. CASE i = len + 1
      <4>1. sum[i] = NL /\ new[i] = NL
        <5> HIDE DEF end
        <5> QED
          BY <1>1, <1>6, <2>2, <2>3, <2>4, <2>5, <3>2
      <4> QED
        BY <4>1
    <3>3. CASE i > len + 1
      <4>1. PICK j \in 1 .. n : i = len + 1 + j
        <5>1. i - (len + 1) \in 1 .. n /\ i = len + 1 + (i - (len + 1))
          <6> HIDE DEF n
          <6> QED
            BY <1>1, <3>3
        <5> QED
          BY <5>1
      <4>2. sum[i] = line[j]
        <5> HIDE DEF end, n
        <5> QED
          BY <1>1, <2>5, <3>3, <4>1
      <4>3. new[i] = a.buf[len + j]
        <5>1. i - 1 = len + j
          <6> HIDE DEF n
          <6> QED
            BY <1>1, <4>1
        <5> QED
          BY <2>2, <5>1
      <4> QED
        BY <1>5, <4>1, <4>2, <4>3
    <3> QED
      BY <1>1, <3>1, <3>2, <3>3
  <2> QED
    <3> HIDE DEF end
    <3>1. new = sum
      BY <2>2, <2>5, <2>6, SeqEqual
    <3> QED
      BY <3>1 DEF new, sum, old
<1>11. Over(a) <=> line = <<>>
  <2>1. CASE line = <<>>
    <3>1. n = 0
      BY <2>1, LineFacts
    <3>2. a.len - 1 = len /\ a.len > 0
      BY <1>1, <1>2, <3>1
    <3> QED
      BY <1>6, <2>1, <3>2 DEF Over
  <2>2. CASE line # <<>>
    <3>1. n # 0
      BY <2>2, LineFacts
    <3>2. n \in 1 .. n /\ a.len - 1 = len + n
      <4> HIDE DEF n
      <4> QED
        BY <1>1, <1>2, <3>1
    <3>3. a.buf[a.len - 1] \in Letters
      BY <1>5, <1>7, <3>2
    <3> QED
      BY <2>2, <3>3, InputAssumption DEF Over
  <2> QED
    BY <2>1, <2>2
<1> QED
  BY <1>2, <1>6, <1>9, <1>10, <1>11 DEF a

-----------------------------------------------------------------------------
(* The invariant.                                                          *)

(* Between the lines of an input the buffer holds them, joined, and is     *)
(* empty only as long as empty lines were typed; the prompt begins with an *)
(* empty buffer, and behind an input with an empty scanner.                *)
InputInv ==
    /\ InputTypeOK
    /\ BufferOK(full, len)
    /\ typed \in Seq(Texts)
    /\ prompted => unread = <<>> /\ phase # "files"
    /\ phase = "files" => len = 0 /\ typed = <<>>
    /\ phase = "line" /\ len = 0 => \A i \in DOMAIN typed : typed[i] = <<>>
    /\ phase \in {"line", "parse"} => TextIn(full, len) = Joining(typed) /\ Blocks

(* Nothing typed: nothing joined. *)
LEMMA NothingTyped ==
    typed = <<>> => Joining(typed) = <<>> /\ Blocks /\ DOMAIN typed = {}
<1> SUFFICES ASSUME typed = <<>>
             PROVE  Joining(typed) = <<>> /\ Blocks /\ DOMAIN typed = {}
  OBVIOUS
<1>1. typed \in Seq({}) /\ Len(typed) = 0 /\ DOMAIN typed = {}
  OBVIOUS
<1>2. Join(typed)[0] = <<>>
  <2>1. \A i \in 0 .. Len(typed) :
           Join(typed)[i] = IF i = 0 THEN <<>> ELSE JoinLine(Join(typed)[i - 1], typed[i])
    BY <1>1, JoinFacts
  <2> QED
    BY <1>1, <2>1
<1> QED
  BY <1>1, <1>2 DEF Joining, Blocks

(* An array that is in order has the type that the runs check. *)
LEMMA BufferTyped ==
    ASSUME BufferOK(full, len)
    PROVE  /\ len \in 0 .. N - 1 /\ full[len] = NUL
           /\ \A i \in 0 .. len - 1 : full[i] \in Letters \cup {NL}
           /\ full[N] = Stale
  BY DEF BufferOK, Chars

(* The prompt begins with an empty buffer. *)
LEMMA InputInitInv == InputInit => InputInv
<1> SUFFICES ASSUME InputInit PROVE InputInv
  OBVIOUS
<1>1. N \in Nat \ {0} /\ 0 \in Cells /\ N \in Cells /\ MaxFiles \in Nat
  BY InputAssumption DEF Cells
<1>2. BufferOK(full, len)
  BY <1>1 DEF InputInit, BufferOK
<1>3. InputTypeOK
  BY <1>2, BufferTyped DEF InputInit, InputTypeOK
<1>4. typed \in Seq(Texts) /\ DOMAIN typed = {}
  BY DEF InputInit
<1> QED
  BY <1>2, <1>3, <1>4 DEF InputInit, InputInv

(* One line more in the block: the lines before it are as they were.       *)
LEMMA TypedFacts ==
    ASSUME typed \in Seq(Texts), NEW line \in Texts, typed' = Append(typed, line)
    PROVE  /\ Len(typed) \in Nat
           /\ DOMAIN typed = 1 .. Len(typed)
           /\ typed' \in Seq(Texts)
           /\ Len(typed') = Len(typed) + 1
           /\ DOMAIN typed' = 1 .. Len(typed) + 1
           /\ typed'[Len(typed) + 1] = line
           /\ \A i \in 1 .. Len(typed) : typed'[i] = typed[i]
           /\ Joining(typed') = JoinLine(Joining(typed), line)
<1>1. /\ Len(typed) \in Nat /\ DOMAIN typed = 1 .. Len(typed)
      /\ typed' \in Seq(Texts) /\ Len(typed') = Len(typed) + 1
      /\ typed'[Len(typed) + 1] = line
      /\ \A i \in 1 .. Len(typed) : typed'[i] = typed[i]
  BY AppendProperties, LenProperties
<1>2. DOMAIN typed' = 1 .. Len(typed')
  BY <1>1, LenProperties
<1>3. Joining(Append(typed, line)) = JoinLine(Joining(typed), line)
  BY JoinAppend
<1> QED
  BY <1>1, <1>2, <1>3

(* rl_readline copies a line and asks for another.                         *)
LEMMA LineContinuesInv ==
    ASSUME InputInv, NEW line \in Texts, LineContinues(line)
    PROVE  InputInv'
<1> DEFINE a == Appended(line)
<1>1. /\ phase = "line" /\ ~ TooLong(line) /\ ~ Over(a)
      /\ full' = a.buf /\ len' = a.len
      /\ typed' = Append(typed, line)
      /\ UNCHANGED <<phase, files, interactive, unread, prompted>>
  BY DEF LineContinues, sessionVars
<1>2. BufferOK(full, len) /\ TextIn(full, len) = Joining(typed) /\ Blocks
      /\ typed \in Seq(Texts) /\ len \in Nat
  BY <1>1 DEF InputInv, BufferOK
<1>3. /\ Len(typed) \in Nat
      /\ DOMAIN typed = 1 .. Len(typed)
      /\ typed' \in Seq(Texts)
      /\ Len(typed') = Len(typed) + 1
      /\ DOMAIN typed' = 1 .. Len(typed) + 1
      /\ typed'[Len(typed) + 1] = line
      /\ \A i \in 1 .. Len(typed) : typed'[i] = typed[i]
      /\ Joining(typed') = JoinLine(Joining(typed), line)
  BY <1>1, <1>2, TypedFacts
<1> HIDE DEF a
<1>4. /\ BufferOK(full', len')
      /\ TextIn(full', len') = Joining(typed')
      /\ Blocks'
      /\ len' = 0 => \A i \in DOMAIN typed' : typed'[i] = <<>>
  <2>1. CASE len = 0
    <3>1. /\ BufferOK(a.buf, a.len) /\ a.len = Len(line) /\ TextIn(a.buf, a.len) = line
      BY <1>1, <1>2, <2>1, FirstAppended DEF a
    <3>2. Joining(typed) = <<>>
      BY <1>2, <2>1 DEF TextIn
    <3>3. JoinLine(<<>>, line) = line
      BY DEF JoinLine
    <3>4. \A i \in 1 .. Len(typed) : typed[i] = <<>> /\ typed'[i] = <<>>
      BY <1>1, <1>3, <2>1 DEF InputInv
    <3>5. Blocks'
      <4>1. \A j \in DOMAIN typed' : typed'[j] # <<>> => j = Len(typed) + 1
        BY <1>3, <3>4
      <4>2. \A i \in DOMAIN typed' : typed'[i] = <<>> =>
               \A j \in {k \in DOMAIN typed' : typed'[k] # <<>>} : i < j
        BY <1>3, <4>1
      <4> QED
        BY <4>2 DEF Blocks
    <3>6. ASSUME len' = 0 PROVE \A i \in DOMAIN typed' : typed'[i] = <<>>
      <4>1. line = <<>>
        BY <1>1, <3>1, <3>6, LineFacts
      <4> QED
        BY <1>3, <3>4, <4>1
    <3> QED
      BY <1>1, <1>3, <3>1, <3>2, <3>3, <3>5, <3>6
  <2>2. CASE len > 0
    <3>1. /\ BufferOK(a.buf, a.len) /\ a.len = len + 1 + Len(line) /\ line # <<>>
          /\ TextIn(a.buf, a.len) = TextIn(full, len) \o <<NL>> \o line
      BY <1>1, <1>2, <2>2, LaterAppended DEF a
    <3>2. Joining(typed) # <<>>
      <4>1. Len(TextIn(full, len)) = len
        BY <1>2, TextFacts DEF BufferOK
      <4>2. Len(<<>>) = 0
        OBVIOUS
      <4> QED
        BY <1>2, <2>2, <4>1, <4>2
    <3>3. JoinLine(Joining(typed), line) = TextIn(full, len) \o <<NL>> \o line
      BY <1>2, <3>1, <3>2 DEF JoinLine
    <3>4. Blocks'
      <4>1. \A i \in 1 .. Len(typed) : typed[i] = <<>> =>
               \A j \in {k \in DOMAIN typed : typed[k] # <<>>} : i < j
        BY <1>1, <1>2, <1>3 DEF Blocks
      <4>2. \A i \in DOMAIN typed' : typed'[i] = <<>> =>
               \A j \in {k \in DOMAIN typed' : typed'[k] # <<>>} : i < j
        <5> TAKE i \in DOMAIN typed'
        <5> HAVE typed'[i] = <<>>
        <5> TAKE j \in {k \in DOMAIN typed' : typed'[k] # <<>>}
        <5>1. i \in 1 .. Len(typed) /\ typed[i] = <<>>
          BY <1>3, <3>1
        <5>2. CASE j = Len(typed) + 1
          BY <1>3, <5>1, <5>2
        <5>3. CASE j # Len(typed) + 1
          <6>1. j \in 1 .. Len(typed) /\ typed[j] # <<>>
            BY <1>3, <5>3
          <6> QED
            BY <1>3, <4>1, <5>1, <6>1
        <5> QED
          BY <5>2, <5>3
      <4> QED
        BY <4>2 DEF Blocks
    <3>5. len' # 0
      BY <1>1, <1>2, <3>1, LineFacts
    <3> QED
      BY <1>1, <1>3, <3>1, <3>3, <3>4, <3>5
  <2> QED
    BY <1>2, <2>1, <2>2
<1>5. InputTypeOK'
  BY <1>1, <1>4, BufferTyped DEF InputInv, InputTypeOK, BufferOK, Chars
<1> QED
  BY <1>1, <1>3, <1>4, <1>5 DEF InputInv, BufferOK, TextIn

(* rl_readline meets the empty line, and takes its newline back.           *)
LEMMA LineEndsInv ==
    ASSUME InputInv, NEW line \in Texts, LineEndsInput(line)
    PROVE  InputInv'
<1> DEFINE a == Appended(line)
<1>1. /\ phase = "line" /\ ~ TooLong(line) /\ Over(a)
      /\ full' = [a.buf EXCEPT ![a.len - 1] = NUL] /\ len' = a.len - 1
      /\ typed' = Append(typed, line)
      /\ phase' = "parse"
      /\ UNCHANGED <<files, interactive, unread, prompted>>
  BY DEF LineEndsInput
<1>2. BufferOK(full, len) /\ TextIn(full, len) = Joining(typed) /\ Blocks
      /\ typed \in Seq(Texts) /\ len \in Nat
  BY <1>1 DEF InputInv, BufferOK
<1>3. /\ Len(typed) \in Nat
      /\ DOMAIN typed = 1 .. Len(typed)
      /\ typed' \in Seq(Texts)
      /\ Len(typed') = Len(typed) + 1
      /\ DOMAIN typed' = 1 .. Len(typed) + 1
      /\ typed'[Len(typed) + 1] = line
      /\ \A i \in 1 .. Len(typed) : typed'[i] = typed[i]
      /\ Joining(typed') = JoinLine(Joining(typed), line)
  BY <1>1, <1>2, TypedFacts
<1>4. len > 0
  BY <1>1, <1>2, FirstAppended
<1>5. /\ BufferOK(a.buf, a.len) /\ a.len = len + 1 + Len(line)
      /\ \A i \in 0 .. len - 1 : a.buf[i] = full[i]
      /\ line = <<>>
  BY <1>1, <1>2, <1>4, LaterAppended
<1> HIDE DEF a
<1>6. a.len = len + 1 /\ len' = len /\ full' = [a.buf EXCEPT ![len] = NUL]
  BY <1>1, <1>2, <1>5, LineFacts
<1>7. N \in Nat /\ len < N /\ len \in Cells /\ N \in Cells
  BY <1>2, InputAssumption DEF BufferOK, Cells
<1>8. \A i \in 0 .. len - 1 : i \in Cells /\ full'[i] = full[i]
  <2> TAKE i \in 0 .. len - 1
  <2>1. i \in Cells /\ i # len
    BY <1>2, <1>7 DEF Cells
  <2>2. a.buf = [k \in Cells |-> a.buf[k]] /\ a.buf[i] = full[i]
    BY <1>5 DEF BufferOK
  <2>3. full'[i] = a.buf[i]
    BY <1>6, <2>1, <2>2
  <2> QED
    BY <2>1, <2>2, <2>3
<1>9. full'[len] = NUL /\ full'[N] = Stale
  BY <1>2, <1>5, <1>6, <1>7 DEF BufferOK
<1>10. BufferOK(full', len')
  <2>1. full' = [i \in Cells |-> full'[i]]
    BY <1>5, <1>6 DEF BufferOK
  <2> QED
    BY <1>2, <1>6, <1>8, <1>9, <2>1 DEF BufferOK
<1>11. TextIn(full', len') = Joining(typed')
  <2>1. \A i \in 1 .. len : full'[i - 1] = full[i - 1]
    BY <1>2, <1>8
  <2>2. TextIn(full', len') = TextIn(full, len)
    BY <1>6, <2>1 DEF TextIn
  <2> QED
    BY <1>2, <1>3, <1>5, <2>2 DEF JoinLine
<1>12. Blocks'
  <2>1. \A i \in 1 .. Len(typed) : typed[i] = <<>> =>
           \A j \in {k \in DOMAIN typed : typed[k] # <<>>} : i < j
    BY <1>1, <1>2, <1>3 DEF Blocks
  <2>2. \A j \in DOMAIN typed' : typed'[j] # <<>> => j \in DOMAIN typed /\ typed[j] # <<>>
    BY <1>3, <1>5
  <2>3. \A i \in DOMAIN typed' : typed'[i] = <<>> =>
           \/ \A j \in {k \in DOMAIN typed' : typed'[k] # <<>>} : i < j
           \/ i = Len(typed') /\ phase' # "line"
    <3> TAKE i \in DOMAIN typed'
    <3> HAVE typed'[i] = <<>>
    <3>1. CASE i = Len(typed) + 1
      BY <1>1, <1>3, <3>1
    <3>2. CASE i # Len(typed) + 1
      BY <1>3, <2>1, <2>2, <3>2
    <3> QED
      BY <3>1, <3>2
  <2> QED
    BY <2>3 DEF Blocks
<1>13. InputTypeOK'
  BY <1>1, <1>10, BufferTyped DEF InputInv, InputTypeOK, BufferOK, Chars
<1> QED
  BY <1>1, <1>3, <1>10, <1>11, <1>12, <1>13 DEF InputInv, BufferOK, TextIn

(* The next input begins with an empty buffer and an empty scanner.        *)
LEMMA ParseInputInv ==
    ASSUME InputInv, ParseInput
    PROVE  InputInv'
<1>1. /\ phase = "parse" /\ phase' = "line" /\ unread' = <<>>
      /\ full' = [full EXCEPT ![0] = NUL] /\ len' = 0 /\ typed' = <<>>
      /\ prompted' = TRUE
      /\ UNCHANGED <<files, interactive>>
  BY DEF ParseInput
<1>2. N \in Nat \ {0} /\ 0 \in Cells /\ N \in Cells
  BY InputAssumption DEF Cells
<1>3. BufferOK(full', len')
  BY <1>1, <1>2 DEF InputInv, BufferOK
<1>4. Joining(typed') = <<>> /\ Blocks' /\ DOMAIN typed' = {}
  <2>1. (typed = <<>> => Joining(typed) = <<>> /\ Blocks /\ DOMAIN typed = {})'
    BY NothingTyped, PTL
  <2> QED
    BY <1>1, <2>1
<1>5. TextIn(full', len') = <<>>
  BY <1>1 DEF TextIn
<1>6. InputTypeOK'
  BY <1>1, <1>3 DEF InputInv, InputTypeOK, BufferOK, Chars
<1>7. typed' \in Seq(Texts)
  BY <1>1
<1> QED
  BY <1>1, <1>3, <1>4, <1>5, <1>6, <1>7 DEF InputInv, BufferOK, TextIn

(* What leaves the prompt alone, or only begins or ends it.                *)
Elsewhere ==
    \/ ScriptRuns \/ ScriptFails \/ ScriptIsMissing \/ ScriptsEnd
    \/ EndOfInput \/ CloseNothing \/ UNCHANGED inputVars
    \/ \E line \in Texts : LineTooLong(line)

(* None of these touches what the invariant speaks of.                     *)
LEMMA ElsewhereInv ==
    ASSUME InputInv, Elsewhere
    PROVE  InputInv'
<1>1. UNCHANGED <<full, len, typed, prompted, interactive>>
  BY DEF Elsewhere, ScriptRuns, ScriptFails, ScriptIsMissing, ScriptsEnd, EndOfInput,
         CloseNothing, LineTooLong, readerVars, inputVars, sessionVars
<1>2. /\ phase' = phase \/ (phase = "files" /\ phase' = "line") \/ phase' = "ended"
      /\ files' = files \/ (files \in Nat /\ files > 0 /\ files' = files - 1)
      /\ unread' = unread \/ phase = "files"
  BY DEF Elsewhere, ScriptRuns, ScriptFails, ScriptIsMissing, ScriptsEnd, EndOfInput, AfterScripts,
         CloseNothing, LineTooLong, readerVars, inputVars, sessionVars, InputInv, InputTypeOK
<1>3. InputTypeOK'
  BY <1>1, <1>2, InputAssumption DEF InputInv, InputTypeOK
<1>4. BufferOK(full', len') /\ typed' \in Seq(Texts)
  BY <1>1 DEF InputInv
<1>5. TextIn(full', len') = TextIn(full, len) /\ Joining(typed') = Joining(typed)
  BY <1>1
<1>6. ASSUME phase' \in {"line", "parse"}
      PROVE  /\ TextIn(full', len') = Joining(typed')
             /\ Blocks'
             /\ phase' = "line" /\ len' = 0 => \A i \in DOMAIN typed' : typed'[i] = <<>>
  <2>1. CASE phase' = phase
    BY <1>1, <1>5, <1>6, <2>1 DEF InputInv, Blocks
  <2>2. CASE phase = "files" /\ phase' = "line"
    <3>1. typed = <<>> /\ len = 0
      BY <2>2 DEF InputInv
    <3>2. Joining(typed) = <<>> /\ DOMAIN typed = {}
      BY <3>1, NothingTyped
    <3>3. TextIn(full, len) = <<>>
      BY <3>1 DEF TextIn
    <3> QED
      BY <1>1, <1>5, <3>2, <3>3 DEF Blocks
  <2> QED
    BY <1>2, <1>6, <2>1, <2>2
<1>7. /\ prompted' => unread' = <<>> /\ phase' # "files"
      /\ phase' = "files" => len' = 0 /\ typed' = <<>>
  BY <1>1, <1>2 DEF InputInv
<1> QED
  BY <1>3, <1>4, <1>6, <1>7 DEF InputInv, BufferOK, TextIn

(* So every call keeps it. *)
LEMMA InputStepInv == InputInv /\ [InputNext]_inputVars => InputInv'
<1> SUFFICES ASSUME InputInv, [InputNext]_inputVars PROVE InputInv'
  OBVIOUS
<1>1. CASE Elsewhere
  BY <1>1, ElsewhereInv
<1>2. CASE ParseInput
  BY <1>2, ParseInputInv
<1>3. ASSUME NEW line \in Texts, LineContinues(line) PROVE InputInv'
  BY <1>3, LineContinuesInv
<1>4. ASSUME NEW line \in Texts, LineEndsInput(line) PROVE InputInv'
  BY <1>4, LineEndsInv
<1> QED
  BY <1>1, <1>2, <1>3, <1>4 DEF InputNext, Elsewhere

(* The invariant says what the runs check.                                 *)
LEMMA InputInvImplies == InputInv => BufferIsWhatWasTyped /\ ParserMeetsWhatWasTyped
<1> SUFFICES ASSUME InputInv PROVE BufferIsWhatWasTyped /\ ParserMeetsWhatWasTyped
  OBVIOUS
<1>1. Joined = Joining(typed)
  BY JoinedIsJoining DEF InputInv
<1>2. BufferText = TextIn(full, len)
  BY DEF BufferText, TextIn
<1>3. BufferText \in Seq(Chars)
  BY <1>2, TextFacts DEF InputInv, BufferOK
<1>4. BufferIsWhatWasTyped
  BY <1>1, <1>2 DEF InputInv, BufferIsWhatWasTyped
<1>5. ASSUME phase = "parse", prompted PROVE ParserMeets = Joined
  BY <1>1, <1>2, <1>3, <1>5, ConcatEmptySeq DEF InputInv, ParserMeets
<1>6. ASSUME phase = "parse" PROVE ParserMeets = unread \o Joined
  BY <1>1, <1>2, <1>6 DEF InputInv, ParserMeets
<1>7. prompted \in BOOLEAN
  BY DEF InputInv, InputTypeOK
<1> QED
  BY <1>4, <1>5, <1>6, <1>7 DEF ParserMeetsWhatWasTyped

(* It holds from the first prompt on. *)
THEOREM InputInvariant == InputSpec => []InputInv
  BY InputInitInv, InputStepInv, PTL DEF InputSpec

(* The buffer of clsr_repl holds a string, and rl_readline never writes    *)
(* behind the array, however long the lines are.                           *)
THEOREM InputWellTyped == InputSpec => []InputTypeOK
<1>1. InputInv => InputTypeOK
  BY DEF InputInv
<1> QED
  BY <1>1, InputInvariant, PTL

(* rl_readline joins exactly the lines of the block that was typed, and    *)
(* stops at the empty line behind it.                                      *)
THEOREM BufferHoldsInput == InputSpec => []BufferIsWhatWasTyped
<1>1. InputInv => BufferIsWhatWasTyped
  BY InputInvImplies
<1> QED
  BY <1>1, InputInvariant, PTL

(* What the parser is given is that text; behind the first input of the    *)
(* prompt, nothing else (yylex_destroy drops the rest of every input).     *)
THEOREM ParserMeetsInput == InputSpec => []ParserMeetsWhatWasTyped
<1>1. InputInv => ParserMeetsWhatWasTyped
  BY InputInvImplies
<1> QED
  BY <1>1, InputInvariant, PTL

=============================================================================
