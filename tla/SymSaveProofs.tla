---------------------------- MODULE SymSaveProofs ----------------------------
(***************************************************************************)
(* Theorems about SymSave, for any names of any length, any size of the    *)
(* bump pools and any number of tree nodes.                                *)
(***************************************************************************)
EXTENDS SymSave, SequenceTheorems, TLAPS

Bytes == (Names \X Nat) \cup {NUL}

Bump == [offset : 0 .. BumpSize, bytes : [1 .. BumpSize + 1 -> Bytes]]

Entry == [node : 1 .. SymCapacity, bump : 1 .. Len(bumps), at : Nat]

SymTypeOK ==
    /\ DOMAIN symtab \subseteq Names
    /\ symtab = [n \in DOMAIN symtab |-> symtab[n]]
    /\ \A n \in DOMAIN symtab : symtab[n] \in Entry
    /\ symFree \in Seq(1 .. SymCapacity)
    /\ bumps \in Seq(Bump) /\ bumps # <<>>

(* A saved name lies before the offset of its pool, where nothing is       *)
(* written any more.                                                       *)
NamesBeforeOffset ==
    \A n \in DOMAIN symtab :
        symtab[n].at + StoredSize(n) <= bumps[symtab[n].bump].offset

(* No tree node and no address is given to two names, nor is a node that   *)
(* is in the tree free.                                                    *)
PlacesApart ==
    /\ \A n, m \in DOMAIN symtab : n # m =>
          /\ symtab[n].node # symtab[m].node
          /\ <<symtab[n].bump, symtab[n].at>> # <<symtab[m].bump, symtab[m].at>>
    /\ \A i, j \in DOMAIN symFree : symFree[i] = symFree[j] => i = j
    /\ \A i \in DOMAIN symFree : \A n \in DOMAIN symtab : symtab[n].node # symFree[i]

SymInv ==
    /\ SymTypeOK /\ NamesBeforeOffset /\ PlacesApart
    /\ NamesReadBack /\ OnlyEndsBehindPools

-----------------------------------------------------------------------------
(* The first element of a sequence and what comes behind it. *)
LEMMA FirstAndRest ==
    ASSUME NEW S, NEW s \in Seq(S), s # <<>>
    PROVE  /\ Len(s) \in Nat \ {0} /\ DOMAIN s = 1 .. Len(s)
           /\ Head(s) = s[1] /\ Head(s) \in S
           /\ Tail(s) \in Seq(S) /\ DOMAIN Tail(s) = 1 .. Len(s) - 1
           /\ \A i \in 1 .. Len(s) - 1 : Tail(s)[i] = s[i + 1]
<1>1. Len(s) \in Nat \ {0} /\ DOMAIN s = 1 .. Len(s) /\ Head(s) = s[1] /\ s[1] \in S
  BY HeadTailProperties, LenProperties, EmptySeq
<1>2. /\ Tail(s) \in Seq(S) /\ Len(Tail(s)) = Len(s) - 1
      /\ \A i \in 1 .. Len(Tail(s)) : Tail(s)[i] = s[i + 1]
  BY HeadTailProperties
<1> QED
  BY <1>1, <1>2, LenProperties

(* bump_pool_strndup takes a byte more than the name has. *)
LEMMA SizeFacts ==
    ASSUME NEW n \in Names
    PROVE  NameLen[n] \in Nat \ {0} /\ StoredSize(n) = NameLen[n] + 1 /\ BumpSize \in Nat \ {0}
BY SymAssumption DEF StoredSize

(* bump_pool_new: all bytes are cleared. *)
LEMMA NewBumpFacts ==
    NewBump \in Bump /\ NewBump.offset = 0 /\ NewBump.bytes[BumpSize + 1] = NUL
BY SymAssumption DEF NewBump, Bump, Bytes

(* bump_pool_alloc: the pools that were there stay as they are, and the    *)
(* current one has room.                                                   *)
LEMMA RoomFacts ==
    ASSUME SymInv, NEW n \in Names, Fits(NewBump, n)
    PROVE  /\ Len(bumps) \in Nat \ {0} /\ Len(Room(n)) \in Nat
           /\ Room(n) \in Seq(Bump)
           /\ Len(Room(n)) >= Len(bumps)
           /\ \A b \in 1 .. Len(bumps) : Room(n)[b] = bumps[b]
           /\ \A b \in 1 .. Len(Room(n)) : Room(n)[b].bytes[BumpSize + 1] = NUL
           /\ Fits(Room(n)[Len(Room(n))], n)
<1>1. /\ bumps \in Seq(Bump) /\ Len(bumps) \in Nat \ {0}
      /\ \A b \in 1 .. Len(bumps) : bumps[b].bytes[BumpSize + 1] = NUL
  BY EmptySeq DEF SymInv, SymTypeOK, OnlyEndsBehindPools
<1>2. CASE Fits(bumps[Len(bumps)], n)
  <2>1. Room(n) = bumps
    BY <1>2 DEF Room
  <2> QED
    BY <1>1, <1>2, <2>1
<1>3. CASE ~ Fits(bumps[Len(bumps)], n)
  <2>1. Room(n) = Append(bumps, NewBump)
    BY <1>3 DEF Room
  <2>2. /\ Room(n) \in Seq(Bump) /\ Len(Room(n)) = Len(bumps) + 1
        /\ \A b \in 1 .. Len(bumps) : Room(n)[b] = bumps[b]
        /\ Room(n)[Len(bumps) + 1] = NewBump
    BY <1>1, <2>1, NewBumpFacts, AppendProperties
  <2> QED
    BY <1>1, <2>2, NewBumpFacts
<1> QED
  BY <1>2, <1>3

(* bump_pool_strndup: the name is behind the old offset, with its end      *)
(* before the new one; what lies before is not touched, and the byte       *)
(* behind the pool can only become NUL.                                    *)
LEMMA WrittenFacts ==
    ASSUME NEW bump \in Bump, NEW n \in Names, Fits(bump, n)
    PROVE  LET new == Written(bump, n) IN
           /\ bump.offset \in Nat
           /\ new \in Bump
           /\ new.offset = bump.offset + StoredSize(n) /\ new.offset <= BumpSize
           /\ \A i \in 1 .. bump.offset : new.bytes[i] = bump.bytes[i]
           /\ \A i \in 1 .. NameLen[n] : new.bytes[bump.offset + i] = <<n, i>>
           /\ new.bytes[bump.offset + NameLen[n] + 1] = NUL
           /\ bump.bytes[BumpSize + 1] = NUL => new.bytes[BumpSize + 1] = NUL
<1> DEFINE new == Written(bump, n)
           at == bump.offset
           size == StoredSize(n)
<1>1. /\ at \in Nat /\ at + size <= BumpSize /\ size = NameLen[n] + 1
      /\ NameLen[n] \in Nat \ {0} /\ BumpSize \in Nat \ {0}
      /\ bump.bytes \in [1 .. BumpSize + 1 -> Bytes]
  BY SizeFacts DEF Bump, Fits
<1>2. /\ new.offset = at + size
      /\ new.bytes = [i \in 1 .. BumpSize + 1 |->
                        IF i \in at + 1 .. at + size THEN SourceByte(n, i - at)
                        ELSE IF i = at + size + 1 THEN NUL ELSE bump.bytes[i]]
      /\ new = [offset |-> new.offset, bytes |-> new.bytes]
  BY <1>1 DEF Written, Bump
<1> HIDE DEF new, at, size
<1>3. \A i \in 1 .. size :
        SourceByte(n, i) \in Bytes /\ SourceByte(n, i) = (IF i <= NameLen[n] THEN <<n, i>> ELSE NUL)
  BY <1>1 DEF SourceByte, Bytes
<1>4. \A i \in 1 .. BumpSize + 1 : new.bytes[i] \in Bytes
  <2> SUFFICES ASSUME NEW i \in 1 .. BumpSize + 1 PROVE new.bytes[i] \in Bytes
    OBVIOUS
  <2>1. CASE i \in at + 1 .. at + size
    <3>1. i - at \in 1 .. size
      BY <2>1, <1>1
    <3> QED
      BY <3>1, <2>1, <1>2, <1>3
  <2>2. CASE i \notin at + 1 .. at + size
    BY <2>2, <1>1, <1>2 DEF Bytes
  <2> QED
    BY <2>1, <2>2
<1>5. new \in Bump
  <2>1. new.bytes \in [1 .. BumpSize + 1 -> Bytes]
    BY <1>2, <1>4
  <2>2. new.offset \in 0 .. BumpSize
    BY <1>1, <1>2
  <2> QED
    BY <1>2, <2>1, <2>2 DEF Bump
<1>6. \A i \in 1 .. at : new.bytes[i] = bump.bytes[i]
  BY <1>1, <1>2
<1>7. \A i \in 1 .. size : new.bytes[at + i] = SourceByte(n, i)
  <2> SUFFICES ASSUME NEW i \in 1 .. size PROVE new.bytes[at + i] = SourceByte(n, i)
    OBVIOUS
  <2>1. at + i \in 1 .. BumpSize + 1 /\ at + i \in at + 1 .. at + size /\ (at + i) - at = i
    BY <1>1
  <2> QED
    BY <2>1, <1>2
<1>8. /\ \A i \in 1 .. NameLen[n] : new.bytes[at + i] = <<n, i>>
      /\ new.bytes[at + (NameLen[n] + 1)] = NUL
  <2>1. NameLen[n] + 1 \in 1 .. size /\ ~ (NameLen[n] + 1 <= NameLen[n])
    BY <1>1
  <2>2. \A i \in 1 .. NameLen[n] : i \in 1 .. size /\ i <= NameLen[n]
    BY <1>1
  <2> QED
    BY <2>1, <2>2, <1>3, <1>7
<1>9. bump.bytes[BumpSize + 1] = NUL => new.bytes[BumpSize + 1] = NUL
  BY <1>1, <1>2
<1>10. at + (NameLen[n] + 1) = at + NameLen[n] + 1
  BY <1>1
<1> QED
  BY <1>1, <1>2, <1>5, <1>6, <1>8, <1>9, <1>10 DEF new, at, size

-----------------------------------------------------------------------------
(* sym_save of a new name. *)
LEMMA SaveSymbolStep ==
    ASSUME SymInv, NEW n \in Names, SaveSymbol(n)
    PROVE  SymInv' /\ \A m \in DOMAIN symtab : m \in DOMAIN symtab' /\ symtab'[m] = symtab[m]
<1> DEFINE room == Room(n)
           b == Len(room)
           bump == room[b]
           new == Written(bump, n)
           entry == [node |-> Head(symFree), bump |-> b, at |-> bump.offset]
<1>1. /\ n \notin DOMAIN symtab /\ symFree # <<>> /\ Fits(NewBump, n)
      /\ bumps' = [room EXCEPT ![b] = new]
      /\ symtab' = [m \in DOMAIN symtab \cup {n} |-> IF m = n THEN entry ELSE symtab[m]]
      /\ symFree' = Tail(symFree)
  BY DEF SaveSymbol, Known
<1>2. /\ Len(bumps) \in Nat \ {0} /\ b \in Nat \ {0} /\ room \in Seq(Bump) /\ b >= Len(bumps)
      /\ \A c \in 1 .. Len(bumps) : room[c] = bumps[c]
      /\ \A c \in 1 .. b : room[c].bytes[BumpSize + 1] = NUL
      /\ Fits(bump, n)
  BY <1>1, RoomFacts
<1>3. bump \in Bump /\ bump.bytes[BumpSize + 1] = NUL
  BY <1>2
<1> HIDE DEF bump, room
<1>4. /\ bump.offset \in Nat /\ new \in Bump
      /\ new.offset = bump.offset + StoredSize(n) /\ new.offset <= BumpSize
      /\ \A i \in 1 .. bump.offset : new.bytes[i] = bump.bytes[i]
      /\ \A i \in 1 .. NameLen[n] : new.bytes[bump.offset + i] = <<n, i>>
      /\ new.bytes[bump.offset + NameLen[n] + 1] = NUL
      /\ new.bytes[BumpSize + 1] = NUL
  BY <1>2, <1>3, WrittenFacts
<1> HIDE DEF new
<1>5. /\ bumps' \in Seq(Bump) /\ Len(bumps') = b /\ bumps'[b] = new
      /\ \A c \in 1 .. b : c # b => bumps'[c] = room[c]
  BY <1>1, <1>2, <1>4, ExceptSeq
<1>6. /\ symFree \in Seq(1 .. SymCapacity) /\ Len(symFree) \in Nat \ {0}
      /\ Head(symFree) = symFree[1] /\ Head(symFree) \in 1 .. SymCapacity
      /\ symFree' \in Seq(1 .. SymCapacity) /\ DOMAIN symFree' = 1 .. Len(symFree) - 1
      /\ \A i \in 1 .. Len(symFree) - 1 : symFree'[i] = symFree[i + 1]
  <2>1. symFree \in Seq(1 .. SymCapacity)
    BY DEF SymInv, SymTypeOK
  <2>2. symFree # <<>> /\ symFree' = Tail(symFree)
    BY DEF SaveSymbol
  <2> QED
    BY <2>1, <2>2, FirstAndRest
<1>7. /\ DOMAIN symtab' = DOMAIN symtab \cup {n} /\ symtab'[n] = entry
      /\ \A m \in DOMAIN symtab : m # n /\ symtab'[m] = symtab[m]
  BY <1>1
<1>8. entry.node = symFree[1] /\ entry.bump = b /\ entry.at = bump.offset /\ entry \in Entry'
  BY <1>2, <1>4, <1>5, <1>6 DEF Entry
<1> HIDE DEF entry
<1>9. ASSUME NEW m \in DOMAIN symtab
      PROVE  /\ m \in Names /\ symtab[m] \in Entry
             /\ symtab[m].bump \in 1 .. Len(bumps) /\ symtab[m].at \in Nat
             /\ NameLen[m] \in Nat \ {0} /\ StoredSize(m) = NameLen[m] + 1
             /\ symtab[m].at + StoredSize(m) <= bumps[symtab[m].bump].offset
             /\ bumps[symtab[m].bump].offset \in Nat
  <2>1. m \in Names /\ symtab[m] \in Entry /\ bumps \in Seq(Bump)
    BY DEF SymInv, SymTypeOK
  <2>2. bumps[symtab[m].bump] \in Bump
    BY <2>1 DEF Entry
  <2> QED
    BY <2>1, <2>2, SizeFacts, SymAssumption DEF Entry, Bump, SymInv, NamesBeforeOffset
<1>10. ASSUME NEW m \in DOMAIN symtab
       PROVE  LET before == bumps[symtab[m].bump]
                  after  == bumps'[symtab[m].bump]
              IN  /\ before.offset <= after.offset
                  /\ \A i \in 1 .. before.offset : after.bytes[i] = before.bytes[i]
  <2>1. symtab[m].bump \in 1 .. Len(bumps) /\ symtab[m].bump \in 1 .. b
    BY <1>2, <1>9
  <2>2. CASE symtab[m].bump = b
    <3>1. bumps[symtab[m].bump] = bump
      BY <2>1, <2>2, <1>2 DEF bump
    <3> QED
      BY <2>2, <3>1, <1>4, <1>5, SizeFacts
  <2>3. CASE symtab[m].bump # b
    <3>1. bumps'[symtab[m].bump] = bumps[symtab[m].bump]
      BY <2>1, <2>3, <1>2, <1>5
    <3> QED
      BY <3>1, <1>9
  <2> QED
    BY <2>2, <2>3
<1>11. SymTypeOK'
  <2>1. \A m \in DOMAIN symtab : symtab[m] \in Entry'
    BY <1>2, <1>5, <1>9 DEF Entry
  <2>2. symtab' = [m \in DOMAIN symtab' |-> symtab'[m]]
    BY <1>1
  <2>3. DOMAIN symtab' \subseteq Names
    BY <1>7 DEF SymInv, SymTypeOK
  <2>4. \A m \in DOMAIN symtab' : symtab'[m] \in Entry'
    BY <2>1, <1>7, <1>8
  <2>5. bumps' # <<>>
    BY <1>2, <1>5
  <2> QED
    BY <2>2, <2>3, <2>4, <2>5, <1>5, <1>6 DEF SymTypeOK
<1>12. NamesBeforeOffset'
  <2> SUFFICES ASSUME NEW m \in DOMAIN symtab'
               PROVE  symtab'[m].at + StoredSize(m) <= bumps'[symtab'[m].bump].offset
    BY DEF NamesBeforeOffset, StoredSize
  <2>1. CASE m = n
    BY <2>1, <1>4, <1>5, <1>7, <1>8, SizeFacts
  <2>2. CASE m # n
    <3>1. m \in DOMAIN symtab /\ symtab'[m] = symtab[m]
      BY <2>2, <1>7
    <3>2. bumps[symtab[m].bump].offset <= bumps'[symtab[m].bump].offset
      BY <3>1, <1>10
    <3>3. bumps'[symtab[m].bump] \in Bump
      BY <3>1, <1>2, <1>5, <1>9
    <3>4. bumps'[symtab[m].bump].offset \in Nat
      BY <3>3 DEF Bump
    <3> QED
      BY <3>1, <3>2, <3>4, <1>9
  <2> QED
    BY <2>1, <2>2
<1>13. NamesReadBack'
  <2> SUFFICES ASSUME NEW m \in DOMAIN symtab'
               PROVE  LET bytes == bumps'[symtab'[m].bump].bytes
                          at == symtab'[m].at
                      IN  /\ \A i \in 1 .. NameLen[m] : bytes[at + i] = <<m, i>>
                          /\ at + NameLen[m] < BumpSize
                          /\ bytes[at + NameLen[m] + 1] = NUL
    BY DEF NamesReadBack
  <2>1. CASE m = n
    <3>1. symtab'[m].at = bump.offset /\ bumps'[symtab'[m].bump] = new
      BY <2>1, <1>5, <1>7, <1>8
    <3>2. bump.offset + NameLen[n] < BumpSize
      BY <1>4, SizeFacts
    <3> QED
      BY <2>1, <3>1, <3>2, <1>4
  <2>2. CASE m # n
    <3> DEFINE at == symtab[m].at
               before == bumps[symtab[m].bump]
               after == bumps'[symtab[m].bump]
    <3>1. m \in DOMAIN symtab /\ symtab'[m] = symtab[m]
      BY <2>2, <1>7
    <3>2. /\ \A i \in 1 .. NameLen[m] : before.bytes[at + i] = <<m, i>>
          /\ at + NameLen[m] < BumpSize /\ before.bytes[at + NameLen[m] + 1] = NUL
      BY <3>1 DEF SymInv, NamesReadBack
    <3>3. \A i \in 1 .. before.offset : after.bytes[i] = before.bytes[i]
      BY <3>1, <1>10
    <3>4. /\ at \in Nat /\ NameLen[m] \in Nat /\ before.offset \in Nat
          /\ at + NameLen[m] + 1 <= before.offset
      BY <3>1, <1>9
    <3>5. /\ \A i \in 1 .. NameLen[m] : at + i \in 1 .. before.offset
          /\ at + NameLen[m] + 1 \in 1 .. before.offset
      BY <3>4
    <3> HIDE DEF at, before, after
    <3>6. /\ \A i \in 1 .. NameLen[m] : after.bytes[at + i] = <<m, i>>
          /\ at + NameLen[m] < BumpSize /\ after.bytes[at + NameLen[m] + 1] = NUL
      BY <3>2, <3>3, <3>5
    <3> QED
      BY <3>1, <3>6 DEF at, after
  <2> QED
    BY <2>1, <2>2
<1>14. ASSUME NEW m \in DOMAIN symtab
       PROVE  symtab[m].node # entry.node /\ <<symtab[m].bump, symtab[m].at>> # <<entry.bump, entry.at>>
  <2>1. symtab[m].node # symFree[1]
    BY <1>6 DEF SymInv, PlacesApart
  <2>2. ASSUME symtab[m].bump = b PROVE symtab[m].at # bump.offset
    <3>1. bumps[symtab[m].bump] = bump
      BY <2>2, <1>2, <1>9 DEF bump
    <3> QED
      BY <3>1, <1>9
  <2> QED
    BY <2>1, <2>2, <1>8
<1>15. PlacesApart'
  <2>1. ASSUME NEW m \in DOMAIN symtab', NEW k \in DOMAIN symtab', m # k
        PROVE  /\ symtab'[m].node # symtab'[k].node
               /\ <<symtab'[m].bump, symtab'[m].at>> # <<symtab'[k].bump, symtab'[k].at>>
    <3>1. CASE m = n
      BY <3>1, <2>1, <1>7, <1>14
    <3>2. CASE k = n
      BY <3>2, <2>1, <1>7, <1>14
    <3>3. CASE m # n /\ k # n
      BY <3>3, <2>1, <1>7 DEF SymInv, PlacesApart
    <3> QED
      BY <3>1, <3>2, <3>3
  <2>2. ASSUME NEW i \in DOMAIN symFree', NEW j \in DOMAIN symFree', symFree'[i] = symFree'[j]
        PROVE  i = j
    <3>1. i + 1 \in DOMAIN symFree /\ j + 1 \in DOMAIN symFree /\ symFree[i + 1] = symFree[j + 1]
      BY <2>2, <1>6
    <3>2. i + 1 = j + 1
      BY <3>1 DEF SymInv, PlacesApart
    <3> QED
      BY <3>2, <1>6
  <2>3. ASSUME NEW i \in DOMAIN symFree', NEW m \in DOMAIN symtab'
        PROVE  symtab'[m].node # symFree'[i]
    <3>1. /\ 1 \in DOMAIN symFree /\ i + 1 \in DOMAIN symFree
          /\ symFree'[i] = symFree[i + 1] /\ i + 1 # 1
      BY <1>6
    <3>2. CASE m = n
      <4>1. symFree[1] # symFree[i + 1]
        BY <3>1 DEF SymInv, PlacesApart
      <4> QED
        BY <3>1, <3>2, <4>1, <1>7, <1>8
    <3>3. CASE m # n
      BY <3>1, <3>3, <1>7 DEF SymInv, PlacesApart
    <3> QED
      BY <3>2, <3>3
  <2> QED
    BY <2>1, <2>2, <2>3 DEF PlacesApart
<1>16. OnlyEndsBehindPools'
  <2>1. DOMAIN bumps' = 1 .. b
    BY <1>5
  <2> QED
    BY <2>1, <1>2, <1>4, <1>5 DEF OnlyEndsBehindPools
<1> QED
  BY <1>7, <1>11, <1>12, <1>13, <1>15, <1>16 DEF SymInv

(* sym_save_init: an empty tree and a cleared pool. *)
LEMMA SymInitInv == SymInit => SymInv
<1> SUFFICES ASSUME SymInit PROVE SymInv
  OBVIOUS
<1>1. /\ DOMAIN symtab = {} /\ symtab = [n \in {} |-> n]
      /\ symFree = [i \in 1 .. SymCapacity |-> i] /\ bumps = <<NewBump>>
  BY DEF SymInit
<1>2. symFree \in Seq(1 .. SymCapacity) /\ DOMAIN symFree = 1 .. SymCapacity
  BY <1>1, SymAssumption
<1>3. symtab = [n \in DOMAIN symtab |-> symtab[n]]
  BY <1>1
<1>4. bumps \in Seq(Bump) /\ bumps # <<>> /\ DOMAIN bumps = {1} /\ bumps[1] = NewBump
  BY <1>1, NewBumpFacts
<1>5. SymTypeOK
  BY <1>1, <1>2, <1>3, <1>4 DEF SymTypeOK
<1>6. NamesBeforeOffset /\ NamesReadBack
  BY <1>1 DEF NamesBeforeOffset, NamesReadBack
<1>7. PlacesApart
  BY <1>1, <1>2 DEF PlacesApart
<1>8. OnlyEndsBehindPools
  BY <1>4, NewBumpFacts DEF OnlyEndsBehindPools
<1> QED
  BY <1>5, <1>6, <1>7, <1>8 DEF SymInv

(* What SymbolsKeepTheirPlace says of a step. *)
PlacesKept ==
    \A n \in DOMAIN symtab :
        /\ n \in DOMAIN symtab' /\ symtab'[n] = symtab[n]
        /\ \A m \in DOMAIN symtab' \ {n} :
              /\ symtab'[m].node # symtab[n].node
              /\ <<symtab'[m].bump, symtab'[m].at>> # <<symtab[n].bump, symtab[n].at>>

(* Every step keeps the invariant, and the names what they have. *)
LEMMA SymStep ==
    ASSUME SymInv, [SymNext]_symVars
    PROVE  SymInv' /\ PlacesKept
<1>1. CASE \E n \in Names : SaveSymbol(n)
  <2>1. SymInv' /\ \A m \in DOMAIN symtab : m \in DOMAIN symtab' /\ symtab'[m] = symtab[m]
    BY <1>1, SaveSymbolStep
  <2> QED
    BY <2>1 DEF SymInv, PlacesApart, PlacesKept
<1>2. CASE UNCHANGED <<symtab, symFree, bumps>>
  <2>1. SymInv'
    BY <1>2 DEF SymInv, SymTypeOK, Entry, NamesBeforeOffset, PlacesApart, NamesReadBack,
                OnlyEndsBehindPools, StoredSize
  <2> QED
    BY <1>2, <2>1 DEF SymInv, PlacesApart, PlacesKept
<1>3. ASSUME NEW n \in Names, FindSymbol(n) \/ SymbolsExhausted(n) \/ SymbolTooLong(n)
      PROVE  UNCHANGED <<symtab, symFree, bumps>>
  BY <1>3 DEF FindSymbol, SymbolsExhausted, SymbolTooLong, symVars
<1>4. CASE UNCHANGED symVars
  BY <1>2, <1>4 DEF symVars
<1> QED
  BY <1>1, <1>2, <1>3, <1>4 DEF SymNext

(* The inductive invariant of the symbol table. *)
THEOREM SymInvariant == SymSpec => []SymInv
<1>1. SymInv /\ [SymNext]_symVars => SymInv'
  BY SymStep
<1> QED
  BY <1>1, SymInitInv, PTL DEF SymSpec

(* What sym_save returns is the name, and stays it, whatever is saved      *)
(* later.                                                                  *)
THEOREM NamesAreIntact == SymSpec => []NamesReadBack
<1>1. SymInv => NamesReadBack
  BY DEF SymInv
<1> QED
  BY <1>1, SymInvariant, PTL

(* bump_pool_strndup writes nothing but NUL behind its pool. *)
THEOREM CharactersStayInPools == SymSpec => []OnlyEndsBehindPools
<1>1. SymInv => OnlyEndsBehindPools
  BY DEF SymInv
<1> QED
  BY <1>1, SymInvariant, PTL

(* A name has one address and one tree node for ever, and shares neither,  *)
(* which symbol_eq relies on.                                              *)
THEOREM AddressesIdentify == SymSpec => SymbolsKeepTheirPlace
<1>1. SymInv /\ [SymNext]_symVars => [PlacesKept]_symVars
  BY SymStep
<1> QED
  BY <1>1, SymInvariant, PTL DEF SymSpec, SymbolsKeepTheirPlace, PlacesKept
=============================================================================
