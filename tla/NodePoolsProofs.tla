--------------------------- MODULE NodePoolsProofs ---------------------------
(***************************************************************************)
(* Theorems about NodePools, for pools of any size and any number of them, *)
(* and for any depth of Contexts.                                          *)
(***************************************************************************)
EXTENDS NodePools, SequenceTheorems, TLAPS

Distinct(s) == \A i, j \in DOMAIN s : s[i] = s[j] => i = j

(* What makes the safety properties inductive: the pools are within their  *)
(* bound, and every pool is on its own chain, so that a head is one of the *)
(* pools that its Context can reach, with other pools that were made.      *)
ChainsHoldTheirPool ==
    \A p \in PoolIds :
        p \in Members(pools[p].chain) /\ Members(pools[p].chain) \subseteq PoolIds

PoolInv ==
    /\ PoolTypeOK /\ SlotsAccountedFor /\ ReachablePoolsExist
    /\ ChainsHoldTheirPool
    /\ Len(pools) <= MaxPools

-----------------------------------------------------------------------------
(* The first element of a sequence is taken away. *)
LEMMA TailFacts ==
    ASSUME NEW S, NEW s \in Seq(S), s # <<>>
    PROVE  /\ Head(s) \in S /\ Head(s) \in Members(s)
           /\ Tail(s) \in Seq(S)
           /\ Distinct(s) => Distinct(Tail(s)) /\ Members(Tail(s)) = Members(s) \ {Head(s)}
<1>1. /\ Len(s) \in Nat \ {0} /\ DOMAIN s = 1 .. Len(s)
      /\ Head(s) = s[1] /\ s[1] \in S
  BY HeadTailProperties, LenProperties, EmptySeq
<1>2. /\ Tail(s) \in Seq(S) /\ Len(Tail(s)) = Len(s) - 1
      /\ \A i \in 1 .. Len(Tail(s)) : Tail(s)[i] = s[i + 1]
  BY HeadTailProperties
<1>3. DOMAIN Tail(s) = 1 .. Len(s) - 1
  BY <1>1, <1>2, LenProperties
<1>4. Head(s) \in Members(s)
  BY <1>1 DEF Members
<1>5. ASSUME Distinct(s)
      PROVE  Distinct(Tail(s)) /\ Members(Tail(s)) = Members(s) \ {Head(s)}
  <2>1. Distinct(Tail(s))
    BY <1>1, <1>2, <1>3, <1>5 DEF Distinct
  <2>2. ASSUME NEW x \in Members(Tail(s)) PROVE x \in Members(s) \ {Head(s)}
    BY <1>1, <1>2, <1>3, <1>5 DEF Distinct, Members
  <2>3. ASSUME NEW x \in Members(s) \ {Head(s)} PROVE x \in Members(Tail(s))
    <3>1. PICK i \in DOMAIN s : x = s[i]
      BY DEF Members
    <3>2. i # 1
      BY <3>1, <1>1
    <3>3. i - 1 \in DOMAIN Tail(s) /\ x = Tail(s)[i - 1]
      BY <3>1, <3>2, <1>1, <1>2, <1>3
    <3> QED
      BY <3>3 DEF Members
  <2> QED
    BY <2>1, <2>2, <2>3
<1> QED
  BY <1>1, <1>2, <1>4, <1>5

(* An element is put in front of a sequence. *)
LEMMA ConsFacts ==
    ASSUME NEW S, NEW x \in S, NEW s \in Seq(S)
    PROVE  /\ <<x>> \o s \in Seq(S)
           /\ Members(<<x>> \o s) = {x} \cup Members(s)
           /\ Distinct(s) /\ x \notin Members(s) => Distinct(<<x>> \o s)
<1> DEFINE t == <<x>> \o s
<1>1. /\ t \in Seq(S) /\ Len(s) \in Nat /\ Len(t) = Len(s) + 1
      /\ DOMAIN t = 1 .. Len(s) + 1 /\ DOMAIN s = 1 .. Len(s)
      /\ t[1] = x /\ \A i \in 1 .. Len(s) : t[i + 1] = s[i]
  OBVIOUS
<1>2. \A i \in DOMAIN t : i = 1 \/ (i - 1 \in DOMAIN s /\ t[i] = s[i - 1])
  <2>1. ASSUME NEW i \in DOMAIN t, i # 1 PROVE i - 1 \in DOMAIN s /\ t[(i - 1) + 1] = s[i - 1]
    BY <1>1, <2>1
  <2> QED
    BY <1>1, <2>1
<1>3. 1 \in DOMAIN t /\ \A i \in DOMAIN s : i + 1 \in DOMAIN t /\ t[i + 1] = s[i]
  BY <1>1
<1> HIDE DEF t
<1>4. Members(t) = {x} \cup Members(s)
  <2>1. ASSUME NEW y \in Members(t) PROVE y \in {x} \cup Members(s)
    BY <1>1, <1>2 DEF Members
  <2>2. ASSUME NEW y \in Members(s) PROVE y \in Members(t)
    BY <1>3 DEF Members
  <2>3. x \in Members(t)
    BY <1>1, <1>3 DEF Members
  <2> QED
    BY <2>1, <2>2, <2>3
<1>5. ASSUME Distinct(s), x \notin Members(s) PROVE Distinct(t)
  <2> SUFFICES ASSUME NEW i \in DOMAIN t, NEW j \in DOMAIN t, t[i] = t[j] PROVE i = j
    BY DEF Distinct
  <2>1. CASE i = 1
    BY <2>1, <1>1, <1>2, <1>5 DEF Members
  <2>2. CASE j = 1
    BY <2>2, <1>1, <1>2, <1>5 DEF Members
  <2>3. CASE i # 1 /\ j # 1
    <3>1. i - 1 = j - 1
      BY <2>3, <1>2, <1>5 DEF Distinct
    <3> QED
      BY <3>1, <1>1
  <2> QED
    BY <2>1, <2>2, <2>3
<1> QED
  BY <1>1, <1>4, <1>5 DEF t

(* A sequence is one over any larger set too. *)
LEMMA WiderSeq ==
    ASSUME NEW S, NEW W, S \subseteq W, NEW s \in Seq(S)
    PROVE  s \in Seq(W)
OBVIOUS

Pool == [free : Seq(Places), chain : Seq(Nat)]

(* What the types say of one pool and of the Context that allocates. *)
LEMMA PoolMember ==
    ASSUME PoolTypeOK, NEW p \in PoolIds
    PROVE  /\ p \in Nat \ {0}
           /\ pools[p] \in Pool
           /\ pools[p].free \in Seq(Places) /\ pools[p].chain \in Seq(Nat)
<1>1. pools \in Seq(Pool)
  BY DEF PoolTypeOK, Pool
<1>2. Len(pools) \in Nat
  BY <1>1
<1>3. pools[p] \in Pool
  BY <1>1, ElementOfSeq DEF PoolIds
<1> QED
  BY <1>2, <1>3 DEF PoolIds, Pool

(* The head of the Context that allocates is a pool that was made. *)
LEMMA UserFacts ==
    ASSUME PoolTypeOK, heads # <<>>
    PROVE  /\ Len(pools) \in Nat
           /\ User \in DOMAIN heads
           /\ heads[User] \in PoolIds
<1>1. heads \in Seq(PoolIds) /\ (binding => Len(heads) > 1) /\ pools \in Seq(Pool)
  BY DEF PoolTypeOK, Pool
<1>2. Len(heads) \in Nat \ {0} /\ DOMAIN heads = 1 .. Len(heads)
  BY <1>1, EmptySeq
<1>3. User \in 1 .. Len(heads)
  BY <1>1, <1>2 DEF User
<1> QED
  BY <1>1, <1>2, <1>3

(* A new pool has all of its slots, and the pools behind it. *)
LEMMA NewPoolFacts ==
    ASSUME NEW id \in Nat, NEW behind \in Seq(Nat)
    PROVE  /\ NewPool(id, behind) \in Pool
           /\ NewPool(id, behind).free # <<>>
           /\ Distinct(NewPool(id, behind).free)
           /\ Members(NewPool(id, behind).free) = Places
           /\ Members(NewPool(id, behind).chain) = {id} \cup Members(behind)
<1> DEFINE new == NewPool(id, behind)
<1>1. /\ AllFree \in Seq(Places) /\ DOMAIN AllFree = 1 .. Count
      /\ \A i \in 1 .. Count : AllFree[i] = i
  BY PoolAssumption DEF AllFree, Places
<1>2. <<id>> \o behind \in Seq(Nat) /\ Members(<<id>> \o behind) = {id} \cup Members(behind)
  BY ConsFacts
<1>3. new.free = AllFree /\ new.chain = <<id>> \o behind /\ new \in Pool
  BY <1>1, <1>2 DEF NewPool, Pool
<1>4. Distinct(AllFree) /\ Members(AllFree) = Places
  BY <1>1 DEF Distinct, Members, Places
<1>5. AllFree # <<>>
  BY <1>1, PoolAssumption
<1> QED
  BY <1>2, <1>3, <1>4, <1>5

(* The pool a slot is taken from. *)
LEMMA TookFirstFacts ==
    ASSUME NEW pool \in Pool, pool.free # <<>>
    PROVE  /\ TookFirst(pool) \in Pool
           /\ TookFirst(pool).chain = pool.chain
           /\ Head(pool.free) \in Places
           /\ Head(pool.free) \in Members(pool.free)
           /\ Distinct(pool.free) =>
                /\ Distinct(TookFirst(pool).free)
                /\ Members(TookFirst(pool).free) = Members(pool.free) \ {Head(pool.free)}
<1>1. pool.free \in Seq(Places)
  BY DEF Pool
<1>2. /\ Head(pool.free) \in Places /\ Head(pool.free) \in Members(pool.free)
      /\ Tail(pool.free) \in Seq(Places)
      /\ Distinct(pool.free) =>
           Distinct(Tail(pool.free)) /\ Members(Tail(pool.free)) = Members(pool.free) \ {Head(pool.free)}
  BY <1>1, TailFacts
<1>3. /\ TookFirst(pool) \in Pool
      /\ TookFirst(pool).chain = pool.chain /\ TookFirst(pool).free = Tail(pool.free)
  BY <1>2 DEF Pool, TookFirst
<1> QED
  BY <1>2, <1>3

(* What SlotsAccountedFor says of one pool. *)
Accounted(pool, p, taken) ==
    Distinct(pool.free) /\ Members(pool.free) = {i \in Places : <<p, i>> \notin taken}

(* SlotsAccountedFor, pool by pool. *)
LEMMA SlotsByPool ==
    SlotsAccountedFor <=> \A p \in PoolIds \ destroyed : Accounted(pools[p], p, live)
BY DEF SlotsAccountedFor, Accounted, Distinct

-----------------------------------------------------------------------------
(* What the actions come down to: one pool changes its free list, a pool   *)
(* is added, or only Contexts change.                                      *)

(* One pool changes its free list, and slots of that pool change hands.    *)
LEMMA OnePoolChanges ==
    ASSUME PoolInv, NEW p \in PoolIds, NEW pool \in Pool,
           pools' = [pools EXCEPT ![p] = pool], pool.chain = pools[p].chain,
           UNCHANGED <<heads, binding, destroyed>>, handed' \in BOOLEAN,
           live' \subseteq PoolIds \X Places,
           p \notin destroyed => Accounted(pool, p, live'),
           \A s \in PoolIds \X Places : s[1] # p => (s \in live' <=> s \in live),
           \A s \in live' : s[1] \notin destroyed
    PROVE  PoolInv'
<1>1. pools \in Seq(Pool) /\ Len(pools) \in Nat /\ DOMAIN pools = PoolIds
  BY DEF PoolInv, PoolTypeOK, Pool, PoolIds
<1>2. pools' \in Seq(Pool) /\ Len(pools') = Len(pools) /\ PoolIds' = PoolIds
  BY <1>1, ExceptSeq DEF PoolIds
<1>3. \A q \in PoolIds : pools'[q] = (IF q = p THEN pool ELSE pools[q])
  BY <1>1
<1>4. PoolTypeOK'
  BY <1>2 DEF PoolInv, PoolTypeOK, Pool
<1>5. SlotsAccountedFor'
  <2> SUFFICES ASSUME NEW q \in PoolIds, q \notin destroyed
               PROVE  Accounted(pools'[q], q, live')
    BY <1>2, SlotsByPool DEF SlotsAccountedFor, Accounted, Distinct
  <2>1. CASE q = p
    BY <2>1, <1>3
  <2>2. CASE q # p
    <3>1. Accounted(pools[q], q, live)
      BY SlotsByPool DEF PoolInv
    <3>2. \A i \in Places : <<q, i>> \in live' <=> <<q, i>> \in live
      BY <2>2
    <3> QED
      BY <2>2, <1>3, <3>1, <3>2 DEF Accounted
  <2> QED
    BY <2>1, <2>2
<1>6. \A q \in PoolIds : pools'[q].chain = pools[q].chain
  BY <1>3
<1>7. ReachablePoolsExist'
  <2>1. \A c \in DOMAIN heads : heads[c] \in PoolIds
    BY DEF PoolInv, PoolTypeOK
  <2> QED
    BY <1>6, <2>1 DEF PoolInv, ReachablePoolsExist
<1>8. ChainsHoldTheirPool'
  BY <1>2, <1>6 DEF PoolInv, ChainsHoldTheirPool
<1> QED
  BY <1>2, <1>4, <1>5, <1>7, <1>8 DEF PoolInv

(* A pool is added, of which slots may be handed out at once, and Contexts *)
(* have heads that are the new pool or reach none that was destroyed.      *)
LEMMA OnePoolIsAdded ==
    ASSUME PoolInv, NEW pool \in Pool, Len(pools) < MaxPools,
           pools' = Append(pools, pool),
           heads' \in Seq(PoolIds'), binding' \in BOOLEAN, binding' => Len(heads') > 1,
           UNCHANGED destroyed, handed' \in BOOLEAN,
           live' \subseteq PoolIds' \X Places,
           live \subseteq live',
           \A s \in live' \ live : s[1] = Len(pools) + 1,
           Accounted(pool, Len(pools) + 1, live'),
           Len(pools) + 1 \in Members(pool.chain),
           Members(pool.chain) \subseteq PoolIds \cup {Len(pools) + 1},
           \A c \in DOMAIN heads' :
             \/ heads'[c] = Len(pools) + 1 /\ Members(pool.chain) \cap destroyed = {}
             \/ heads'[c] \in PoolIds /\ Members(pools[heads'[c]].chain) \cap destroyed = {}
    PROVE  PoolInv'
<1> DEFINE id == Len(pools) + 1
<1>1. pools \in Seq(Pool) /\ Len(pools) \in Nat /\ destroyed \subseteq PoolIds /\ live \subseteq PoolIds \X Places
  BY DEF PoolInv, PoolTypeOK, Pool, PoolIds
<1>2. /\ pools' \in Seq(Pool) /\ Len(pools') = id
      /\ pools'[id] = pool /\ \A q \in PoolIds : pools'[q] = pools[q]
  BY <1>1, AppendProperties DEF PoolIds
<1>3. PoolIds' = PoolIds \cup {id} /\ id \notin PoolIds
  BY <1>1, <1>2 DEF PoolIds
<1>4. PoolTypeOK'
  BY <1>1, <1>2, <1>3 DEF PoolTypeOK, Pool
<1>5. SlotsAccountedFor'
  <2> SUFFICES ASSUME NEW q \in PoolIds', q \notin destroyed
               PROVE  Accounted(pools'[q], q, live')
    BY DEF SlotsAccountedFor, Accounted, Distinct
  <2>1. CASE q = id
    BY <2>1, <1>2
  <2>2. CASE q \in PoolIds
    <3>1. Accounted(pools[q], q, live)
      BY <2>2, SlotsByPool DEF PoolInv
    <3>2. \A i \in Places : <<q, i>> \in live' <=> <<q, i>> \in live
      BY <2>2, <1>3
    <3> QED
      BY <2>2, <1>2, <3>1, <3>2 DEF Accounted
  <2> QED
    BY <2>1, <2>2, <1>3
<1>6. ReachablePoolsExist'
  <2>1. \A c \in DOMAIN heads' : Members(pools'[heads'[c]].chain) \cap destroyed = {}
    BY <1>2
  <2>2. \A s \in live' : s[1] \notin destroyed
    BY <1>1, <1>3 DEF PoolInv, ReachablePoolsExist
  <2> QED
    BY <2>1, <2>2 DEF ReachablePoolsExist
<1>7. ChainsHoldTheirPool'
  BY <1>2, <1>3 DEF PoolInv, ChainsHoldTheirPool
<1>8. Len(pools') <= MaxPools
  BY <1>1, <1>2, PoolAssumption
<1> QED
  BY <1>4, <1>5, <1>6, <1>7, <1>8 DEF PoolInv

(* Every Context has the head of one that was there before. *)
LEMMA ContextsChange ==
    ASSUME PoolInv, UNCHANGED <<pools, live, handed, destroyed>>,
           heads' \in Seq(PoolIds), binding' \in BOOLEAN, binding' => Len(heads') > 1,
           \A c \in DOMAIN heads' : \E d \in DOMAIN heads : heads'[c] = heads[d]
    PROVE  PoolInv'
<1>1. PoolIds' = PoolIds
  BY DEF PoolIds
<1>2. PoolTypeOK'
  BY <1>1 DEF PoolInv, PoolTypeOK
<1>3. SlotsAccountedFor' /\ ChainsHoldTheirPool'
  BY <1>1 DEF PoolInv, SlotsAccountedFor, ChainsHoldTheirPool
<1>4. ReachablePoolsExist'
  <2> SUFFICES ASSUME NEW c \in DOMAIN heads'
               PROVE  Members(pools[heads'[c]].chain) \cap destroyed = {}
    BY DEF PoolInv, ReachablePoolsExist
  <2> QED
    BY DEF PoolInv, ReachablePoolsExist
<1> QED
  BY <1>2, <1>3, <1>4 DEF PoolInv

-----------------------------------------------------------------------------
(* A Context that allocates finds its pool there, with every slot on the   *)
(* free list that nobody has.                                              *)
LEMMA HeadFacts ==
    ASSUME PoolInv, heads # <<>>
    PROVE  /\ Len(pools) \in Nat
           /\ User \in DOMAIN heads /\ heads[User] \in PoolIds
           /\ HeadPool \in Pool /\ HeadPool.chain \in Seq(Nat)
           /\ heads[User] \notin destroyed
           /\ Members(HeadPool.chain) \cap destroyed = {}
           /\ Members(HeadPool.chain) \subseteq PoolIds
           /\ Accounted(HeadPool, heads[User], live)
<1>1. Len(pools) \in Nat /\ User \in DOMAIN heads /\ heads[User] \in PoolIds
  BY UserFacts DEF PoolInv
<1>2. HeadPool \in Pool /\ HeadPool.chain \in Seq(Nat)
  BY <1>1, PoolMember DEF PoolInv, HeadPool
<1>3. Members(HeadPool.chain) \cap destroyed = {}
  BY <1>1 DEF PoolInv, ReachablePoolsExist, HeadPool
<1>4. heads[User] \in Members(HeadPool.chain) /\ Members(HeadPool.chain) \subseteq PoolIds
  BY <1>1 DEF PoolInv, ChainsHoldTheirPool, HeadPool
<1>5. Accounted(HeadPool, heads[User], live)
  BY <1>1, <1>3, <1>4, SlotsByPool DEF PoolInv, HeadPool
<1> QED
  BY <1>1, <1>2, <1>3, <1>4, <1>5

(* pool_alloc of the head: the slot was free, and the invariant holds on.  *)
LEMMA AllocFromHeadStep ==
    ASSUME PoolInv, AllocFromHead
    PROVE  /\ PoolInv'
           /\ \E s \in PoolIds \X Places : A!HandOut(s)
<1> DEFINE p == heads[User]
           i == Head(HeadPool.free)
           pool == TookFirst(HeadPool)
<1>1. heads # <<>> /\ HeadPool.free # <<>>
  BY DEF AllocFromHead
<1>2. /\ p \in PoolIds /\ HeadPool \in Pool /\ p \notin destroyed
      /\ Accounted(HeadPool, p, live)
  BY <1>1, HeadFacts
<1>3. /\ pool \in Pool /\ pool.chain = pools[p].chain
      /\ i \in Places /\ i \in Members(HeadPool.free)
      /\ Distinct(pool.free) /\ Members(pool.free) = Members(HeadPool.free) \ {i}
  BY <1>1, <1>2, TookFirstFacts DEF Accounted, HeadPool
<1>4. <<p, i>> \notin live
  BY <1>2, <1>3 DEF Accounted
<1>5. /\ pools' = [pools EXCEPT ![p] = pool]
      /\ live' = live \cup {<<p, i>>} /\ handed' = ~ handed
      /\ UNCHANGED <<heads, binding, destroyed>>
  BY DEF AllocFromHead, HeadPool
<1>6. Accounted(pool, p, live')
  BY <1>2, <1>3, <1>5 DEF Accounted
<1>7. live' \subseteq PoolIds \X Places
  BY <1>2, <1>3, <1>5 DEF PoolInv, PoolTypeOK
<1>8. \A s \in live' : s[1] \notin destroyed
  BY <1>2, <1>5 DEF PoolInv, ReachablePoolsExist
<1>9. \A s \in PoolIds \X Places : s[1] # p => (s \in live' <=> s \in live)
  BY <1>5
<1> HIDE DEF p, i, pool
<1>10. PoolInv'
  BY <1>2, <1>3, <1>5, <1>6, <1>7, <1>8, <1>9, OnePoolChanges
<1> QED
  BY <1>2, <1>3, <1>4, <1>5, <1>10 DEF A!HandOut

(* pool_alloc_hier of a head that is used up. *)
LEMMA AllocFromNewPoolStep ==
    ASSUME PoolInv, AllocFromNewPool
    PROVE  /\ PoolInv'
           /\ \E s \in (1 .. MaxPools) \X Places : A!HandOut(s)
<1> DEFINE id == Len(pools) + 1
           new == NewPool(id, HeadPool.chain)
           i == Head(new.free)
           pool == TookFirst(new)
<1>1. heads # <<>> /\ Len(pools) < MaxPools
  BY DEF AllocFromNewPool
<1>2. /\ Len(pools) \in Nat /\ User \in DOMAIN heads /\ heads[User] \in PoolIds
      /\ HeadPool.chain \in Seq(Nat) /\ Members(HeadPool.chain) \cap destroyed = {}
      /\ Members(HeadPool.chain) \subseteq PoolIds
  BY <1>1, HeadFacts
<1>3. /\ new \in Pool /\ new.free # <<>> /\ Distinct(new.free)
      /\ Members(new.free) = Places /\ Members(new.chain) = {id} \cup Members(HeadPool.chain)
  BY <1>2, NewPoolFacts
<1>4. /\ pools' = Append(pools, pool)
      /\ heads' = [heads EXCEPT ![User] = id]
      /\ live' = live \cup {<<id, i>>} /\ handed' = ~ handed
      /\ UNCHANGED <<binding, destroyed>>
  BY DEF AllocFromNewPool
<1> HIDE DEF new
<1>5. /\ pool \in Pool /\ pool.chain = new.chain /\ i \in Places
      /\ Distinct(pool.free) /\ Members(pool.free) = Places \ {i}
  BY <1>3, TookFirstFacts
<1> HIDE DEF pool, i
<1>6. /\ pools \in Seq(Pool) /\ live \subseteq PoolIds \X Places /\ destroyed \subseteq PoolIds
      /\ heads \in Seq(PoolIds) /\ binding \in BOOLEAN /\ (binding => Len(heads) > 1)
  BY DEF PoolInv, PoolTypeOK, Pool
<1>7. PoolIds' = PoolIds \cup {id} /\ id \notin PoolIds /\ id \in 1 .. MaxPools
  <2>1. Len(pools') = Len(pools) + 1
    BY <1>4, <1>5, <1>6, AppendProperties
  <2> QED
    BY <2>1, <1>1, <1>2, PoolAssumption DEF PoolIds
<1>8. heads' \in Seq(PoolIds') /\ Len(heads') = Len(heads) /\ DOMAIN heads' = DOMAIN heads
  <2>1. heads \in Seq(PoolIds')
    BY <1>6, <1>7, WiderSeq
  <2>2. id \in PoolIds' /\ User \in 1 .. Len(heads)
    BY <1>2, <1>6, <1>7
  <2> QED
    BY <2>1, <2>2, <1>4, ExceptSeq
<1>9. \A q \in Places : <<id, q>> \notin live
  BY <1>6, <1>7
<1>10. Accounted(pool, id, live')
  BY <1>4, <1>5, <1>9 DEF Accounted
<1>11. live' \subseteq PoolIds' \X Places /\ live \subseteq live' /\ \A s \in live' \ live : s[1] = id
  BY <1>4, <1>5, <1>6, <1>7
<1>12. /\ Members(pool.chain) \cap destroyed = {} /\ id \in Members(pool.chain)
       /\ Members(pool.chain) \subseteq PoolIds \cup {id}
  BY <1>2, <1>3, <1>5, <1>6, <1>7
<1>13. ASSUME NEW c \in DOMAIN heads'
       PROVE  \/ heads'[c] = id /\ Members(pool.chain) \cap destroyed = {}
              \/ heads'[c] \in PoolIds /\ Members(pools[heads'[c]].chain) \cap destroyed = {}
  <2>1. CASE c = User
    BY <2>1, <1>4, <1>8, <1>12
  <2>2. CASE c # User
    <3>1. heads'[c] = heads[c] /\ heads[c] \in PoolIds
      BY <2>2, <1>4, <1>6, <1>8
    <3> QED
      BY <3>1, <1>8 DEF PoolInv, ReachablePoolsExist
  <2> QED
    BY <2>1, <2>2
<1>14. PoolInv'
  <2>1. binding' \in BOOLEAN /\ (binding' => Len(heads') > 1)
    BY <1>4, <1>6, <1>8
  <2> QED
    BY <2>1, <1>1, <1>4, <1>5, <1>8, <1>10, <1>11, <1>12, <1>13, OnePoolIsAdded
<1> QED
  BY <1>4, <1>5, <1>7, <1>9, <1>14 DEF A!HandOut

(* pool_free: the slot was not on the free list of its pool, which exists. *)
LEMMA FreeSlotStep ==
    ASSUME PoolInv, NEW s \in live, FreeSlot(s)
    PROVE  PoolInv' /\ A!TakeBack({s})
<1> DEFINE p == s[1]
           i == s[2]
           pool == [pools[p] EXCEPT !.free = <<i>> \o @]
<1>1. p \in PoolIds /\ i \in Places /\ s = <<p, i>> /\ live \subseteq PoolIds \X Places
  BY DEF PoolInv, PoolTypeOK
<1>2. p \notin destroyed
  BY DEF PoolInv, ReachablePoolsExist
<1>3. pools[p] \in Pool /\ Accounted(pools[p], p, live)
  BY <1>1, <1>2, PoolMember, SlotsByPool DEF PoolInv
<1>4. pools[p].free \in Seq(Places) /\ Distinct(pools[p].free) /\ i \notin Members(pools[p].free)
  BY <1>1, <1>3 DEF Accounted, Pool
<1>5. /\ <<i>> \o pools[p].free \in Seq(Places)
      /\ Members(<<i>> \o pools[p].free) = {i} \cup Members(pools[p].free)
      /\ Distinct(<<i>> \o pools[p].free)
  BY <1>1, <1>4, ConsFacts
<1>6. pool \in Pool /\ pool.chain = pools[p].chain /\ pool.free = <<i>> \o pools[p].free
  BY <1>3, <1>5 DEF Pool
<1>7. /\ pools' = [pools EXCEPT ![p] = pool]
      /\ live' = live \ {s} /\ UNCHANGED <<heads, binding, handed, destroyed>>
      /\ handed \in BOOLEAN
  BY DEF FreeSlot, PoolInv, PoolTypeOK
<1>8. Accounted(pool, p, live')
  BY <1>1, <1>3, <1>5, <1>6, <1>7 DEF Accounted
<1>9. live' \subseteq PoolIds \X Places /\ \A r \in live' : r[1] \notin destroyed
  BY <1>1, <1>7 DEF PoolInv, ReachablePoolsExist
<1>10. \A r \in PoolIds \X Places : r[1] # p => (r \in live' <=> r \in live)
  BY <1>7
<1> HIDE DEF p, i, pool
<1>11. PoolInv'
  BY <1>1, <1>6, <1>7, <1>8, <1>9, <1>10, OnePoolChanges
<1> QED
  BY <1>7, <1>11 DEF A!TakeBack

(* clsr_init: the first pool of a session. *)
LEMMA ClsrInitStep ==
    ASSUME PoolInv, ClsrInit
    PROVE  PoolInv' /\ UNCHANGED <<live, handed>>
<1> DEFINE id == Len(pools) + 1
           new == NewPool(id, <<>>)
<1>1. /\ heads = <<>> /\ Len(pools) < MaxPools /\ pools' = Append(pools, new)
      /\ heads' = <<id>> /\ UNCHANGED <<binding, live, handed, destroyed>>
  BY DEF ClsrInit
<1>2. /\ pools \in Seq(Pool) /\ Len(pools) \in Nat /\ live \subseteq PoolIds \X Places
      /\ destroyed \subseteq PoolIds /\ handed \in BOOLEAN
      /\ binding \in BOOLEAN /\ (binding => Len(heads) > 1)
  BY DEF PoolInv, PoolTypeOK, Pool
<1>3. binding' = FALSE
  BY <1>1, <1>2
<1>4. /\ new \in Pool /\ Distinct(new.free)
      /\ Members(new.free) = Places /\ Members(new.chain) = {id}
  <2>1. <<>> \in Seq(Nat)
    OBVIOUS
  <2>2. Members(<<>>) = {}
    BY DEF Members
  <2>3. id \in Nat
    BY <1>2
  <2>4. Members(new.chain) = {id} \cup Members(<<>>)
    BY <2>1, <2>3, NewPoolFacts
  <2>5. new \in Pool /\ Distinct(new.free) /\ Members(new.free) = Places
    BY <2>1, <2>3, NewPoolFacts
  <2> QED
    BY <2>2, <2>4, <2>5
<1> HIDE DEF new
<1>5. PoolIds' = PoolIds \cup {id} /\ id \notin PoolIds
  <2>1. Len(pools') = id
    BY <1>1, <1>2, <1>4, AppendProperties
  <2> QED
    BY <2>1, <1>2 DEF PoolIds
<1>6. heads' \in Seq(PoolIds') /\ \A c \in DOMAIN heads' : heads'[c] = id
  BY <1>1, <1>5
<1>7. Members(new.chain) \cap destroyed = {}
  BY <1>2, <1>4, <1>5
<1>8. Accounted(new, id, live')
  BY <1>1, <1>2, <1>4, <1>5 DEF Accounted
<1>9. live' \subseteq PoolIds' \X Places /\ live' = live
  BY <1>1, <1>2, <1>5
<1>10. /\ handed' \in BOOLEAN /\ id \in Members(new.chain)
       /\ Members(new.chain) \subseteq PoolIds \cup {id}
       /\ \A s \in live' \ live : s[1] = id
  BY <1>1, <1>2, <1>4
<1>11. PoolInv'
  BY <1>1, <1>3, <1>4, <1>6, <1>7, <1>8, <1>9, <1>10, OnePoolIsAdded
<1> QED
  BY <1>1, <1>11

(* Contexts are copied, and dropped when a call returns or raise() leaves  *)
(* them all but the outermost; the pools stay.                             *)
LEMMA ContextStep ==
    ASSUME PoolInv, CopyContext \/ EnterBody \/ ReturnToCaller \/ RaiseToPrompt
    PROVE  PoolInv' /\ UNCHANGED <<live, handed>>
<1>1. heads \in Seq(PoolIds) /\ Len(heads) \in Nat /\ DOMAIN heads = 1 .. Len(heads)
  BY DEF PoolInv, PoolTypeOK
<1>2. CASE CopyContext
  <2>1. /\ Len(heads) \in Nat \ {0} /\ heads' = Append(heads, heads[Len(heads)])
        /\ binding' = TRUE /\ UNCHANGED <<pools, live, handed, destroyed>>
    BY <1>1, <1>2, EmptySeq DEF CopyContext
  <2>2. /\ heads' \in Seq(PoolIds) /\ Len(heads') = Len(heads) + 1
        /\ \A c \in 1 .. Len(heads) : heads'[c] = heads[c]
        /\ heads'[Len(heads) + 1] = heads[Len(heads)]
    BY <1>1, <2>1, AppendProperties
  <2>3. DOMAIN heads' = 1 .. Len(heads) + 1
    BY <2>2
  <2>4. \A c \in DOMAIN heads' : \E d \in DOMAIN heads : heads'[c] = heads[d]
    BY <1>1, <2>1, <2>2, <2>3
  <2> QED
    BY <2>1, <2>2, <2>4, ContextsChange
<1>3. CASE EnterBody
  <2>1. binding' = FALSE /\ UNCHANGED <<pools, heads, live, handed, destroyed>>
    BY <1>3 DEF EnterBody
  <2> QED
    BY <1>1, <2>1, ContextsChange
<1>4. CASE ReturnToCaller
  <2>1. /\ Len(heads) > 1 /\ binding = FALSE /\ heads' = SubSeq(heads, 1, Len(heads) - 1)
        /\ UNCHANGED <<pools, binding, live, handed, destroyed>>
    BY <1>4 DEF ReturnToCaller, PoolInv, PoolTypeOK
  <2>2. heads' \in Seq(PoolIds) /\ \A c \in DOMAIN heads' : c \in DOMAIN heads /\ heads'[c] = heads[c]
    BY <1>1, <2>1
  <2> QED
    BY <2>1, <2>2, ContextsChange
<1>5. CASE RaiseToPrompt
  <2>1. /\ Len(heads) \in Nat \ {0} /\ heads' = SubSeq(heads, 1, 1)
        /\ binding' = FALSE /\ UNCHANGED <<pools, live, handed, destroyed>>
    BY <1>1, <1>5, EmptySeq DEF RaiseToPrompt
  <2>2. heads' \in Seq(PoolIds) /\ \A c \in DOMAIN heads' : c \in DOMAIN heads /\ heads'[c] = heads[c]
    BY <1>1, <2>1
  <2> QED
    BY <2>1, <2>2, ContextsChange
<1> QED
  BY <1>2, <1>3, <1>4, <1>5

(* clsr_destroy: no Context is left, and who has a node of a pool that     *)
(* stays keeps it.                                                         *)
LEMMA ClsrDestroyStep ==
    ASSUME PoolInv, ClsrDestroy
    PROVE  PoolInv' /\ \E S \in SUBSET live : A!TakeBack(S)
<1> DEFINE gone == Members(pools[heads[1]].chain)
<1>1. /\ Len(heads) = 1 /\ heads' = <<>> /\ destroyed' = destroyed \cup gone
      /\ live' = {s \in live : s[1] \notin gone} /\ UNCHANGED <<pools, binding, handed>>
  BY DEF ClsrDestroy
<1>2. heads \in Seq(PoolIds) /\ live \subseteq PoolIds \X Places /\ destroyed \subseteq PoolIds
  BY DEF PoolInv, PoolTypeOK
<1>3. gone \subseteq PoolIds
  <2>1. heads[1] \in PoolIds
    BY <1>1, <1>2
  <2> QED
    BY <2>1 DEF PoolInv, ChainsHoldTheirPool
<1> HIDE DEF gone
<1>4. PoolIds' = PoolIds
  BY <1>1 DEF PoolIds
<1>5. PoolTypeOK'
  BY <1>1, <1>2, <1>3, <1>4 DEF PoolInv, PoolTypeOK
<1>6. SlotsAccountedFor'
  <2> SUFFICES ASSUME NEW q \in PoolIds, q \notin destroyed'
               PROVE  Accounted(pools[q], q, live')
    BY <1>1, <1>4 DEF SlotsAccountedFor, Accounted, Distinct
  <2>1. q \notin destroyed /\ q \notin gone
    BY <1>1
  <2>2. Accounted(pools[q], q, live)
    BY <2>1, SlotsByPool DEF PoolInv
  <2>3. \A i \in Places : <<q, i>> \in live' <=> <<q, i>> \in live
    BY <1>1, <2>1
  <2> QED
    BY <2>2, <2>3 DEF Accounted
<1>7. ReachablePoolsExist'
  BY <1>1 DEF PoolInv, ReachablePoolsExist
<1>8. ChainsHoldTheirPool' /\ Len(pools') <= MaxPools
  BY <1>1, <1>4 DEF PoolInv, ChainsHoldTheirPool
<1>9. live' = live \ {s \in live : s[1] \in gone}
  BY <1>1
<1> QED
  BY <1>1, <1>5, <1>6, <1>7, <1>8, <1>9 DEF PoolInv, A!TakeBack

-----------------------------------------------------------------------------
(* There are no pools at first. *)
LEMMA PoolInitInv == PoolInit => PoolInv
<1> SUFFICES ASSUME PoolInit PROVE PoolInv
  OBVIOUS
<1>1. /\ pools = <<>> /\ heads = <<>> /\ binding = FALSE /\ live = {}
      /\ handed = FALSE /\ destroyed = {}
      /\ PoolIds = {} /\ Len(pools) = 0
  BY DEF PoolInit, PoolIds
<1>2. PoolTypeOK
  <2>1. \A S : <<>> \in Seq(S)
    OBVIOUS
  <2> QED
    BY <1>1, <2>1 DEF PoolTypeOK
<1>3. SlotsAccountedFor /\ ChainsHoldTheirPool
  BY <1>1 DEF SlotsAccountedFor, ChainsHoldTheirPool
<1>4. ReachablePoolsExist
  <2>1. DOMAIN heads = {}
    BY <1>1
  <2> QED
    BY <1>1, <2>1 DEF ReachablePoolsExist
<1> QED
  BY <1>1, <1>2, <1>3, <1>4, PoolAssumption DEF PoolInv

(* Every step keeps the invariant, and to who has nodes it is a step of    *)
(* the allocator or none at all.                                           *)
LEMMA PoolStep ==
    ASSUME PoolInv, [PoolNext]_poolVars
    PROVE  PoolInv' /\ [A!AllocatorNext]_(A!allocatorVars)
<1>1. PoolIds \subseteq 1 .. MaxPools
  <2>1. Len(pools) \in Nat /\ Len(pools) <= MaxPools
    BY DEF PoolInv, PoolTypeOK
  <2> QED
    BY <2>1, PoolAssumption DEF PoolIds
<1>2. CASE AllocFromHead
  <2>1. PoolInv' /\ \E s \in PoolIds \X Places : A!HandOut(s)
    BY <1>2, AllocFromHeadStep
  <2> QED
    BY <1>1, <2>1 DEF A!AllocatorNext
<1>3. CASE AllocFromNewPool
  <2>1. PoolInv' /\ \E s \in (1 .. MaxPools) \X Places : A!HandOut(s)
    BY <1>3, AllocFromNewPoolStep
  <2> QED
    BY <2>1 DEF A!AllocatorNext
<1>4. CASE \E s \in live : FreeSlot(s)
  <2>1. PICK s \in live : PoolInv' /\ A!TakeBack({s})
    BY <1>4, FreeSlotStep
  <2>2. {s} \in SUBSET live
    OBVIOUS
  <2> QED
    BY <2>1, <2>2 DEF A!AllocatorNext
<1>5. CASE ClsrInit
  BY <1>5, ClsrInitStep DEF A!allocatorVars
<1>6. CASE CopyContext \/ EnterBody \/ ReturnToCaller \/ RaiseToPrompt
  BY <1>6, ContextStep DEF A!allocatorVars
<1>7. CASE ClsrDestroy
  <2>1. PoolInv' /\ \E S \in SUBSET live : A!TakeBack(S)
    BY <1>7, ClsrDestroyStep
  <2> QED
    BY <2>1 DEF A!AllocatorNext
<1>8. CASE UNCHANGED poolVars
  <2>1. UNCHANGED <<pools, heads, binding, live, handed, destroyed>>
    BY <1>8 DEF poolVars
  <2> QED
    BY <2>1 DEF PoolInv, PoolTypeOK, SlotsAccountedFor, ReachablePoolsExist,
                ChainsHoldTheirPool, PoolIds, A!allocatorVars
<1> QED
  BY <1>2, <1>3, <1>4, <1>5, <1>6, <1>7, <1>8 DEF PoolNext

(* The inductive invariant of the pools and the Contexts that use them. *)
THEOREM PoolInvariant == PoolSpec => []PoolInv
<1>1. PoolInit => PoolInv
  BY PoolInitInv
<1>2. PoolInv /\ [PoolNext]_poolVars => PoolInv'
  BY PoolStep
<1> QED
  BY <1>1, <1>2, PTL DEF PoolSpec

(* Every pointer of a Context and of a chain is to a pool that was made.   *)
THEOREM PoolsWellTyped == PoolSpec => []PoolTypeOK
<1>1. PoolInv => PoolTypeOK
  BY DEF PoolInv
<1> QED
  BY <1>1, PoolInvariant, PTL

(* pool_alloc, pool_free and pool_alloc_hier lose no slot of a pool that   *)
(* exists and hold none twice, however calls and raise() come between.     *)
THEOREM NoSlotLostOrTwice == PoolSpec => []SlotsAccountedFor
<1>1. PoolInv => SlotsAccountedFor
  BY DEF PoolInv
<1> QED
  BY <1>1, PoolInvariant, PTL

(* No Context reaches a pool that clsr_destroy has freed, though Contexts  *)
(* share pools and each moves its own head.                                *)
THEOREM ContextsReachPools == PoolSpec => []ReachablePoolsExist
<1>1. PoolInv => ReachablePoolsExist
  BY DEF PoolInv
<1> QED
  BY <1>1, PoolInvariant, PTL

(* The pools implement an allocator: each step hands out one slot nobody   *)
(* has, takes slots back, or does not concern who has them.                *)
THEOREM PoolsAreAnAllocator == PoolSpec => IsAllocator
<1>1. PoolInit => A!AllocatorInit
  BY DEF PoolInit, A!AllocatorInit
<1>2. PoolInv /\ [PoolNext]_poolVars => [A!AllocatorNext]_(A!allocatorVars)
  BY PoolStep
<1> QED
  BY <1>1, <1>2, PoolInvariant, PTL DEF PoolSpec, IsAllocator, A!AllocatorSpec
=============================================================================
