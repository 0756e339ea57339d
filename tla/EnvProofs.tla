----------------------------- MODULE EnvProofs -----------------------------
(***************************************************************************)
(* Theorems about Env, for any sets of names and values and any number of  *)
(* environments.                                                           *)
(***************************************************************************)
EXTENDS Env, NaturalsInduction, SequenceTheorems, WellFoundedInduction, TLAPS

EnvInv == EnvTypeOK /\ ChainsWellFormed

(* A non-empty set of naturals has a least member. *)
LEMMA LeastMember ==
    ASSUME NEW H \in SUBSET Nat, H # {}
    PROVE  \E i \in H : \A j \in H : i <= j
<1>1. PICK i \in H : \A j \in H : ~ (<<j, i>> \in OpToRel(<, Nat))
  BY WFMin, NatLessThanWellFounded
<1>2. \A j \in H : ~ (j < i)
  BY <1>1 DEF OpToRel
<1> QED
  BY <1>2

(* What the type of envs says of one environment. *)
LEMMA EnvMember ==
    ASSUME EnvTypeOK, NEW e \in Envs
    PROVE  /\ Len(envs) \in Nat
           /\ e \in Nat \ {0}
           /\ envs[e] \in [chain : Seq(Nat \ {0}), vals : Bindings(Values)]
           /\ envs[e].chain \in Seq(Nat \ {0})
           /\ DOMAIN envs[e].chain = 1 .. Len(envs[e].chain)
           /\ Len(envs[e].chain) \in Nat
           /\ DOMAIN envs[e].vals \subseteq Symbols
           /\ \A s \in DOMAIN envs[e].vals : envs[e].vals[s] \in Values
           /\ envs[e].vals = [s \in DOMAIN envs[e].vals |-> envs[e].vals[s]]
<1> DEFINE R == [chain : Seq(Nat \ {0}), vals : Bindings(Values)]
<1>0. envs \in Seq(R)
  BY DEF EnvTypeOK
<1> HIDE DEF R
<1>1. envs[e] \in R /\ Len(envs) \in Nat
  BY <1>0, ElementOfSeq DEF Envs
<1> USE DEF R
<1>2. PICK D \in SUBSET Symbols : envs[e].vals \in [D -> Values]
  BY <1>1 DEF Bindings
<1> QED
  BY <1>1, <1>2 DEF Envs

(* The first hit exists whenever there is a hit. *)
LEMMA FirstHitIsLeast ==
    ASSUME EnvTypeOK, NEW e \in Envs, NEW s, Hits(e, s) # {}
    PROVE  /\ FirstHit(e, s) \in Hits(e, s)
           /\ \A j \in Hits(e, s) : FirstHit(e, s) <= j
<1>0. DOMAIN envs[e].chain = 1 .. Len(envs[e].chain) /\ Len(envs[e].chain) \in Nat
  BY EnvMember
<1>1. Hits(e, s) \in SUBSET Nat
  BY <1>0 DEF Hits
<1>2. \E i \in Hits(e, s) : \A j \in Hits(e, s) : i <= j
  BY <1>1, LeastMember
<1> QED
  BY <1>2 DEF FirstHit

(* A binder is an environment of the chain, no younger than its user, that *)
(* binds the name.                                                         *)
LEMMA BinderOnChain ==
    ASSUME EnvInv, NEW e \in Envs, NEW s, Binder(e, s) # NoEnv
    PROVE  /\ Hits(e, s) # {}
           /\ FirstHit(e, s) \in DOMAIN envs[e].chain
           /\ Binder(e, s) = envs[e].chain[FirstHit(e, s)]
           /\ Binder(e, s) \in 1 .. e
           /\ Binder(e, s) \in Envs
           /\ s \in DOMAIN envs[Binder(e, s)].vals
<1>1. Hits(e, s) # {} /\ Binder(e, s) = envs[e].chain[FirstHit(e, s)]
  BY DEF Binder
<1>2. FirstHit(e, s) \in Hits(e, s)
  BY <1>1, FirstHitIsLeast DEF EnvInv
<1>3. /\ FirstHit(e, s) \in DOMAIN envs[e].chain
      /\ s \in DOMAIN envs[envs[e].chain[FirstHit(e, s)]].vals
  BY <1>2 DEF Hits
<1>4. Binder(e, s) \in 1 .. e
  <2>1. DOMAIN envs[e].chain = 1 .. Len(envs[e].chain)
    BY EnvMember DEF EnvInv
  <2> QED
    BY <1>1, <1>3, <2>1 DEF EnvInv, ChainsWellFormed, ChainOK
<1> QED
  BY <1>1, <1>3, <1>4, EnvMember DEF EnvInv, Envs

(* A hit is never the NULL environment, so an unbound name has no hit. *)
LEMMA NoBinderNoHit ==
    ASSUME EnvInv, NEW e \in Envs, NEW s, Binder(e, s) = NoEnv
    PROVE  Hits(e, s) = {}
<1> SUFFICES ASSUME Hits(e, s) # {} PROVE FALSE
  OBVIOUS
<1>1. FirstHit(e, s) \in Hits(e, s)
  BY FirstHitIsLeast DEF EnvInv
<1>2. FirstHit(e, s) \in DOMAIN envs[e].chain
  BY <1>1 DEF Hits
<1>3. envs[e].chain[FirstHit(e, s)] \in 1 .. e
  <2>1. DOMAIN envs[e].chain = 1 .. Len(envs[e].chain)
    BY EnvMember DEF EnvInv
  <2> QED
    BY <1>2, <2>1 DEF EnvInv, ChainsWellFormed, ChainOK
<1> QED
  BY <1>3, EnvMember DEF Binder, NoEnv, EnvInv

(* The environment that env_set writes to. *)
Target(e, s) == IF Binder(e, s) = NoEnv THEN e ELSE Binder(e, s)

(* What one write changes: one binding of one environment. *)
LEMMA SetEffect ==
    ASSUME EnvInv, NEW d \in Envs, NEW s \in Symbols, NEW v \in Values, EnvSet(d, s, v)
    PROVE  /\ Target(d, s) \in 1 .. d
           /\ Target(d, s) \in Envs
           /\ Len(envs') = Len(envs)
           /\ EnvTypeOK'
           /\ \A e \in Envs : envs'[e].chain = envs[e].chain
           /\ \A e \in Envs : e # Target(d, s) => envs'[e].vals = envs[e].vals
           /\ DOMAIN envs'[Target(d, s)].vals = DOMAIN envs[Target(d, s)].vals \cup {s}
           /\ envs'[Target(d, s)].vals[s] = v
           /\ \A x \in DOMAIN envs[Target(d, s)].vals :
                x # s => envs'[Target(d, s)].vals[x] = envs[Target(d, s)].vals[x]
<1> DEFINE t == Target(d, s)
           f == [x \in DOMAIN envs[t].vals \cup {s} |-> IF x = s THEN v ELSE envs[t].vals[x]]
<1>0. d \in Nat \ {0} /\ Len(envs) \in Nat
  BY EnvMember DEF EnvInv
<1>1. t \in Envs /\ t \in 1 .. d
  BY <1>0, BinderOnChain DEF Target, Envs
<1>2. envs' = [envs EXCEPT ![t].vals = f]
  BY DEF EnvSet, Bind, Target
<1> HIDE DEF t
<1>3. envs \in Seq([chain : Seq(Nat \ {0}), vals : Bindings(Values)])
  BY DEF EnvInv, EnvTypeOK
<1>4. envs[t] \in [chain : Seq(Nat \ {0}), vals : Bindings(Values)]
  BY <1>1, EnvMember DEF EnvInv
<1>5. DOMAIN envs[t].vals \subseteq Symbols /\ \A x \in DOMAIN envs[t].vals : envs[t].vals[x] \in Values
  BY <1>1, EnvMember DEF EnvInv
<1>6. f \in [DOMAIN envs[t].vals \cup {s} -> Values]
  BY <1>5
<1>7. f \in Bindings(Values)
  BY <1>5, <1>6 DEF Bindings
<1>8. f[s] = v /\ DOMAIN f = DOMAIN envs[t].vals \cup {s}
      /\ \A x \in DOMAIN envs[t].vals : x # s => f[x] = envs[t].vals[x]
  OBVIOUS
<1> HIDE DEF f
<1>9. envs' = [envs EXCEPT ![t] = [envs[t] EXCEPT !.vals = f]]
  BY <1>2, <1>1, <1>3 DEF Envs
<1>10. [envs[t] EXCEPT !.vals = f] \in [chain : Seq(Nat \ {0}), vals : Bindings(Values)]
  BY <1>4, <1>7
<1>11. EnvTypeOK'
  BY <1>1, <1>3, <1>9, <1>10, ExceptSeq DEF EnvTypeOK, Envs
<1>12. Len(envs') = Len(envs)
  BY <1>3, <1>9
<1>13. \A e \in Envs : envs'[e].chain = envs[e].chain
  BY <1>3, <1>4, <1>9 DEF Envs
<1>14. \A e \in Envs : e # t => envs'[e].vals = envs[e].vals
  BY <1>3, <1>9 DEF Envs
<1>15. envs'[t].vals = f
  BY <1>1, <1>3, <1>4, <1>9 DEF Envs
<1> QED
  BY <1>1, <1>8, <1>11, <1>12, <1>13, <1>14, <1>15 DEF t

(* What creating an environment changes: one more, with an empty map and   *)
(* the parent's chain behind it.                                           *)
LEMMA NewEffect ==
    ASSUME EnvInv, NEW p \in Envs \cup {NoEnv}, EnvNew(p)
    PROVE  LET n == Len(envs) + 1
               pc == IF p = NoEnv THEN <<>> ELSE envs[p].chain
           IN  /\ Len(envs) \in Nat
               /\ Len(envs') = n
               /\ EnvTypeOK'
               /\ \A e \in Envs : envs'[e] = envs[e]
               /\ pc \in Seq(Nat \ {0}) /\ Len(pc) \in Nat
               /\ Len(envs'[n].chain) = Len(pc) + 1
               /\ DOMAIN envs'[n].chain = 1 .. Len(pc) + 1
               /\ envs'[n].chain[1] = n
               /\ \A i \in 1 .. Len(pc) : envs'[n].chain[i + 1] = pc[i]
               /\ DOMAIN envs'[n].vals = {}
<1> DEFINE n == Len(envs) + 1
           pc == IF p = NoEnv THEN <<>> ELSE envs[p].chain
           R == [chain : Seq(Nat \ {0}), vals : Bindings(Values)]
           r == NewEnv(n, pc)
<1>1. envs \in Seq(R) /\ Len(envs) \in Nat
  BY DEF EnvInv, EnvTypeOK
<1>2. pc \in Seq(Nat \ {0})
  <2>1. CASE p = NoEnv
    BY <2>1
  <2>2. CASE p # NoEnv
    <3>1. p \in Envs
      BY <2>2
    <3> QED
      BY <2>2, <3>1, EnvMember DEF EnvInv
  <2> QED
    BY <2>1, <2>2
<1> DEFINE a == <<n>>
<1>3. a \in Seq(Nat \ {0}) /\ Len(a) = 1 /\ a[1] = n
  BY <1>1
<1>4. r.chain = a \o pc /\ r.vals = [s \in {} |-> s]
  BY DEF NewEnv
<1> HIDE DEF pc, a
<1>5. Len(pc) \in Nat /\ DOMAIN pc = 1 .. Len(pc)
  BY <1>2
<1>6a. /\ a \o pc \in Seq(Nat \ {0}) /\ Len(a \o pc) = Len(a) + Len(pc)
       /\ \A i \in 1 .. Len(a) + Len(pc) :
             (a \o pc)[i] = IF i <= Len(a) THEN a[i] ELSE pc[i - Len(a)]
  BY <1>2, <1>3, ConcatProperties
<1> HIDE DEF r
<1>6. r.chain \in Seq(Nat \ {0}) /\ Len(r.chain) = 1 + Len(pc)
  BY <1>3, <1>4, <1>6a
<1>7. r.chain[1] = n /\ \A i \in 1 .. Len(pc) : r.chain[i + 1] = pc[i]
  <2> DEFINE c == a \o pc
  <2>2. \A i \in 1 .. 1 + Len(pc) : c[i] = IF i <= 1 THEN a[i] ELSE pc[i - 1]
    BY <1>3, <1>6a
  <2> HIDE DEF c
  <2>4. c[1] = n
    BY <1>3, <1>5, <2>2
  <2>5. ASSUME NEW i \in 1 .. Len(pc) PROVE c[i + 1] = pc[i]
    <3>1. i + 1 \in 1 .. 1 + Len(pc) /\ ~(i + 1 <= 1) /\ (i + 1) - 1 = i
      BY <1>5
    <3> QED
      BY <2>2, <3>1
  <2> QED
    BY <2>4, <2>5, <1>4 DEF c
<1>8. DOMAIN r.vals = {} /\ r.vals \in [{} -> Values]
  BY <1>4
<1>9. r \in R
  <2>1. r.vals \in Bindings(Values)
    BY <1>8 DEF Bindings
  <2> QED
    BY <1>6, <2>1 DEF NewEnv, r
<1>10. envs' = Append(envs, r)
  BY DEF EnvNew, pc, r
<1> HIDE DEF R
<1>11. /\ envs' \in Seq(R) /\ Len(envs') = n
       /\ \A e \in 1 .. Len(envs) : envs'[e] = envs[e]
       /\ envs'[n] = r
  BY <1>1, <1>9, <1>10, AppendProperties
<1>12. EnvTypeOK'
  BY <1>11 DEF EnvTypeOK, R
<1>13. DOMAIN r.chain = 1 .. Len(pc) + 1
  BY <1>5, <1>6
<1> QED
  BY <1>1, <1>2, <1>5, <1>6, <1>7, <1>8, <1>11, <1>12, <1>13 DEF Envs, pc

-----------------------------------------------------------------------------
(* There are no environments at first. *)
LEMMA InitInv == EnvInit => EnvInv
<1> SUFFICES ASSUME EnvInit PROVE EnvInv
  OBVIOUS
<1> DEFINE r == NewEnv(1, <<>>)
<1>1. r.chain = <<1>> /\ r.vals \in [{} -> Values]
  BY DEF NewEnv
<1>2. r \in [chain : Seq(Nat \ {0}), vals : Bindings(Values)]
  <2>1. r.vals \in Bindings(Values)
    BY <1>1 DEF Bindings
  <2> QED
    BY <1>1, <2>1 DEF NewEnv
<1> HIDE DEF r
<1>3. envs = <<r>>
  BY DEF EnvInit, r
<1>4. EnvTypeOK
  BY <1>2, <1>3 DEF EnvTypeOK
<1>5. ChainsWellFormed
  BY <1>1, <1>3 DEF ChainsWellFormed, ChainOK, IsRest, Envs
<1> QED
  BY <1>4, <1>5 DEF EnvInv

(* A chain that was right stays right when neither it nor the chains of    *)
(* its members change.                                                     *)
LEMMA ChainKept ==
    ASSUME EnvInv, NEW es, NEW e \in Envs,
           \A d \in Envs : es[d].chain = envs[d].chain
    PROVE  ChainOK(es, e)
<1>1. ChainOK(envs, e) /\ es[e].chain = envs[e].chain
  BY DEF EnvInv, ChainsWellFormed
<1>2. e \in Nat /\ Len(envs) \in Nat
  BY EnvMember DEF EnvInv
<1>3. ASSUME NEW i \in 1 .. Len(envs[e].chain)
      PROVE  es[envs[e].chain[i]].chain = envs[envs[e].chain[i]].chain
  BY <1>1, <1>2, <1>3 DEF ChainOK, Envs
<1> QED
  BY <1>1, <1>3 DEF ChainOK

(* env_new and env_set keep the invariant. *)
LEMMA StepInv == EnvInv /\ [EnvNext]_envs => EnvInv'
<1> SUFFICES ASSUME EnvInv, [EnvNext]_envs PROVE EnvInv'
  OBVIOUS
<1>1. ASSUME NEW p \in Envs \cup {NoEnv}, EnvNew(p) PROVE EnvInv'
  <2> DEFINE n == Len(envs) + 1
             pc == IF p = NoEnv THEN <<>> ELSE envs[p].chain
             c == envs'[n].chain
  <2>1. /\ Len(envs) \in Nat
        /\ Len(envs') = n
        /\ EnvTypeOK'
        /\ \A e \in Envs : envs'[e] = envs[e]
        /\ Len(pc) \in Nat
        /\ Len(c) = Len(pc) + 1
        /\ c[1] = n
        /\ \A i \in 1 .. Len(pc) : c[i + 1] = pc[i]
    BY <1>1, NewEffect
  <2>2. \A i \in 1 .. Len(pc) : pc[i] \in Envs /\ IsRest(envs[pc[i]].chain, pc, i)
    <3>1. CASE p = NoEnv
      BY <3>1
    <3>2. CASE p # NoEnv
      <4>1. p \in Envs /\ pc = envs[p].chain
        BY <3>2
      <4>2. p \in Nat /\ Len(envs) \in Nat
        BY <4>1, EnvMember DEF EnvInv
      <4>3. ChainOK(envs, p)
        BY <4>1 DEF EnvInv, ChainsWellFormed
      <4> QED
        BY <4>1, <4>2, <4>3 DEF ChainOK, Envs
    <3> QED
      BY <3>1, <3>2
  <2> HIDE DEF pc, c
  <2>3. \A e \in Envs : ChainOK(envs', e)
    BY <2>1, ChainKept
  <2>4. ASSUME NEW i \in 1 .. Len(c)
        PROVE  c[i] \in 1 .. n /\ IsRest(envs'[c[i]].chain, c, i)
    <3>1. CASE i = 1
      BY <2>1, <3>1 DEF IsRest, c
    <3>2. CASE i # 1
      <4> DEFINE j == i - 1
                 t == envs[pc[j]].chain
      <4>1. j \in 1 .. Len(pc) /\ c[i] = pc[j] /\ i = j + 1
        BY <2>1, <3>2
      <4>2. pc[j] \in Envs /\ envs'[pc[j]] = envs[pc[j]]
        BY <2>1, <2>2, <4>1 DEF Envs
      <4>3. IsRest(t, pc, j)
        BY <2>2, <4>1
      <4> HIDE DEF t
      <4>4. Len(t) = Len(pc) - j + 1 /\ \A k \in 1 .. Len(t) : t[k] = pc[j + k - 1]
        BY <4>3 DEF IsRest
      <4>5. Len(t) = Len(c) - i + 1
        BY <2>1, <4>1, <4>4
      <4>6. ASSUME NEW k \in 1 .. Len(t) PROVE t[k] = c[i + k - 1]
        <5>1. j + k - 1 \in 1 .. Len(pc) /\ (j + k - 1) + 1 = i + k - 1
          BY <2>1, <4>1, <4>4
        <5> QED
          BY <2>1, <4>4, <5>1
      <4>7. IsRest(t, c, i)
        BY <4>5, <4>6 DEF IsRest
      <4>8. envs'[c[i]].chain = t
        BY <4>1, <4>2 DEF t
      <4> QED
        BY <2>1, <4>1, <4>2, <4>7, <4>8 DEF Envs
    <3> QED
      BY <3>1, <3>2
  <2>5. ChainOK(envs', n)
    BY <2>1, <2>4 DEF ChainOK, c
  <2>6. Envs' = Envs \cup {n}
    BY <2>1 DEF Envs
  <2>7. ChainsWellFormed'
    BY <2>3, <2>5, <2>6 DEF ChainsWellFormed
  <2> QED
    BY <2>1, <2>7 DEF EnvInv
<1>2. ASSUME NEW d \in Envs, NEW s \in Symbols, NEW v \in Values, EnvSet(d, s, v) PROVE EnvInv'
  <2>1. /\ Len(envs') = Len(envs) /\ EnvTypeOK'
        /\ \A e \in Envs : envs'[e].chain = envs[e].chain
    BY <1>2, SetEffect
  <2>2. \A e \in Envs : ChainOK(envs', e)
    BY <2>1, ChainKept
  <2>3. Envs' = Envs
    BY <2>1 DEF Envs
  <2> QED
    BY <2>1, <2>2, <2>3 DEF EnvInv, ChainsWellFormed
<1>3. CASE UNCHANGED envs
  BY <1>3 DEF EnvInv, EnvTypeOK, ChainsWellFormed, Envs, ChainOK
<1> QED
  BY <1>1, <1>2, <1>3 DEF EnvNext

(* Types and chains are right in every reachable state. *)
THEOREM EnvInvariant == EnvSpec => [](EnvTypeOK /\ ChainsWellFormed)
<1>1. EnvSpec => []EnvInv
  BY InitInv, StepInv, PTL DEF EnvSpec
<1> QED
  BY <1>1, PTL DEF EnvInv

(* Every environment is a chain of environments and a map of values,       *)
(* whatever env_new and env_set have been called with.                     *)
THEOREM EnvsWellTyped == EnvSpec => []EnvTypeOK
  BY EnvInvariant, PTL

-----------------------------------------------------------------------------
(* Where the hits of a name lie fixes its binder. *)
LEMMA SameFirstHit ==
    ASSUME EnvTypeOK, EnvTypeOK', NEW e \in Envs, e \in Envs', NEW s,
           envs'[e].chain = envs[e].chain,
           Hits(e, s) # {}, Hits(e, s) \subseteq Hits(e, s)',
           \A j \in Hits(e, s)' : \E i \in Hits(e, s) : i <= j
    PROVE  Hits(e, s)' # {} /\ FirstHit(e, s)' = FirstHit(e, s)
<1>1. /\ FirstHit(e, s) \in Hits(e, s)
      /\ \A j \in Hits(e, s) : FirstHit(e, s) <= j
  BY FirstHitIsLeast
<1>2. /\ DOMAIN envs[e].chain = 1 .. Len(envs[e].chain)
      /\ Len(envs[e].chain) \in Nat
  BY EnvMember
<1>3. Hits(e, s) \subseteq Nat /\ Hits(e, s)' \subseteq Nat
  BY <1>2 DEF Hits
<1> DEFINE F == FirstHit(e, s)
           H == Hits(e, s)'
<1>4. F \in H /\ F \in Nat
  BY <1>1, <1>3
<1>5. ASSUME NEW j \in H PROVE F <= j
  <2>1. PICK i \in Hits(e, s) : i <= j
    OBVIOUS
  <2>2. F <= i /\ i \in Nat /\ j \in Nat
    BY <1>1, <1>3, <2>1
  <2> QED
    BY <1>4, <2>1, <2>2
<1>6. FirstHit(e, s)' = CHOOSE i \in H : \A j \in H : i <= j
  BY DEF FirstHit
<1> HIDE DEF F, H
<1>7. ASSUME NEW i \in H, \A j \in H : i <= j PROVE i = F
  <2>1. i \in Nat /\ i <= F /\ F <= i
    BY <1>3, <1>4, <1>5, <1>7 DEF H
  <2> QED
    BY <1>4, <2>1
<1>8. (CHOOSE i \in H : \A j \in H : i <= j) = F
  BY <1>4, <1>5, <1>7
<1> QED
  BY <1>4, <1>6, <1>8 DEF F, H

(* A call of env_set leaves the binder of every resolved name in place. *)
LEMMA SetKeepsBinders ==
    ASSUME EnvInv, NEW d \in Envs, NEW s \in Symbols, NEW v \in Values, EnvSet(d, s, v),
           NEW e \in Envs, NEW x \in Symbols, Binder(e, x) # NoEnv
    PROVE  Binder(e, x)' = Binder(e, x)
<1> DEFINE t == Target(d, s)
<1>1. /\ t \in Envs /\ Len(envs') = Len(envs) /\ EnvTypeOK'
      /\ \A f \in Envs : envs'[f].chain = envs[f].chain
      /\ \A f \in Envs : f # t => envs'[f].vals = envs[f].vals
      /\ DOMAIN envs'[t].vals = DOMAIN envs[t].vals \cup {s}
  BY SetEffect
<1>2. /\ DOMAIN envs[e].chain = 1 .. Len(envs[e].chain)
      /\ Len(envs[e].chain) \in Nat /\ e \in Nat /\ Len(envs) \in Nat
  BY EnvMember DEF EnvInv
<1>3. ChainOK(envs, e)
  BY DEF EnvInv, ChainsWellFormed
<1>4. \A i \in DOMAIN envs[e].chain : envs[e].chain[i] \in Envs
  BY <1>2, <1>3 DEF ChainOK, Envs
<1>5. Hits(e, x) \subseteq Hits(e, x)'
  BY <1>1, <1>4 DEF Hits
<1>6. ASSUME NEW j \in Hits(e, x)' PROVE \E i \in Hits(e, x) : i <= j
  <2>1. j \in DOMAIN envs[e].chain /\ x \in DOMAIN envs'[envs[e].chain[j]].vals
    BY <1>1 DEF Hits
  <2>2. j \in Nat
    BY <1>2, <2>1
  <2>3. CASE j \in Hits(e, x)
    BY <2>2, <2>3
  <2>4. CASE j \notin Hits(e, x)
    <3>1. x \notin DOMAIN envs[envs[e].chain[j]].vals
      BY <2>1, <2>4 DEF Hits
    <3>2. envs[e].chain[j] = t /\ x = s
      BY <1>1, <1>4, <2>1, <3>1
    <3>3. Binder(d, s) = NoEnv /\ t = d
      BY <3>1, <3>2, BinderOnChain DEF Target
    <3>4. Hits(d, s) = {}
      BY <3>3, NoBinderNoHit
    <3>5. PICK i \in Hits(e, x) : TRUE
      BY BinderOnChain
    <3>6. i \in 1 .. Len(envs[e].chain) /\ s \in DOMAIN envs[envs[e].chain[i]].vals
      BY <1>2, <3>2, <3>5 DEF Hits
    <3>7. CASE i <= j
      BY <3>5, <3>7
    <3>8. CASE ~ (i <= j)
      <4> DEFINE k == i - j + 1
      <4>1. IsRest(envs[d].chain, envs[e].chain, j)
        BY <1>2, <1>3, <2>1, <3>2, <3>3 DEF ChainOK
      <4>2. k \in 1 .. Len(envs[d].chain) /\ j + k - 1 = i
        <5>1. Len(envs[d].chain) = Len(envs[e].chain) - j + 1
          BY <4>1 DEF IsRest
        <5>2. i \in 1 .. Len(envs[e].chain) /\ Len(envs[e].chain) \in Nat
          BY <1>2, <3>6
        <5> QED
          BY <2>2, <3>8, <5>1, <5>2
      <4>3. envs[d].chain[k] = envs[e].chain[i]
        BY <4>1, <4>2 DEF IsRest
      <4>4. k \in Hits(d, s)
        <5>1. DOMAIN envs[d].chain = 1 .. Len(envs[d].chain)
          BY EnvMember DEF EnvInv
        <5> QED
          BY <3>6, <4>2, <4>3, <5>1 DEF Hits
      <4> QED
        BY <3>4, <4>4
    <3> QED
      BY <3>7, <3>8
  <2> QED
    BY <2>3, <2>4
<1>7. Hits(e, x) # {} /\ Binder(e, x) = envs[e].chain[FirstHit(e, x)]
  BY BinderOnChain
<1>8. Hits(e, x)' # {} /\ FirstHit(e, x)' = FirstHit(e, x)
  <2>1. e \in Envs'
    BY <1>1 DEF Envs
  <2> QED
    BY <1>1, <1>5, <1>6, <1>7, <2>1, SameFirstHit DEF EnvInv
<1> QED
  BY <1>1, <1>7, <1>8 DEF Binder

(* Creating an environment does not move a binder either. *)
LEMMA NewKeepsBinders ==
    ASSUME EnvInv, NEW p \in Envs \cup {NoEnv}, EnvNew(p),
           NEW e \in Envs, NEW x \in Symbols
    PROVE  Binder(e, x)' = Binder(e, x)
<1>1. \A f \in Envs : envs'[f] = envs[f]
  BY NewEffect
<1>2. /\ DOMAIN envs[e].chain = 1 .. Len(envs[e].chain)
      /\ e \in Nat /\ Len(envs) \in Nat
  BY EnvMember DEF EnvInv
<1>3. \A i \in DOMAIN envs[e].chain : envs[e].chain[i] \in Envs
  BY <1>2 DEF EnvInv, ChainsWellFormed, ChainOK, Envs
<1>4. Hits(e, x)' = Hits(e, x)
  BY <1>1, <1>3 DEF Hits
<1>5. FirstHit(e, x)' = FirstHit(e, x)
  BY <1>4 DEF FirstHit
<1> QED
  BY <1>1, <1>4, <1>5 DEF Binder

(* Resolution is stable: no call of env_set ever shadows a visible name. *)
THEOREM ResolutionIsStable == EnvSpec => ResolutionStable
<1> DEFINE A == \A e \in Envs, s \in Symbols :
                  Binder(e, s) # NoEnv => Binder(e, s)' = Binder(e, s)
<1>1. EnvInv /\ [EnvNext]_envs => [A]_envs
  <2> SUFFICES ASSUME EnvInv, EnvNext PROVE A
    OBVIOUS
  <2>1. ASSUME NEW p \in Envs \cup {NoEnv}, EnvNew(p) PROVE A
    BY <2>1, NewKeepsBinders
  <2>2. ASSUME NEW d \in Envs, NEW s \in Symbols, NEW v \in Values, EnvSet(d, s, v) PROVE A
    BY <2>2, SetKeepsBinders
  <2> QED
    BY <2>1, <2>2 DEF EnvNext
<1>2. EnvSpec => []EnvInv
  BY InitInv, StepInv, PTL DEF EnvSpec
<1> QED
  BY <1>1, <1>2, PTL DEF EnvSpec, ResolutionStable

(* A call of env_set is seen by exactly the environments that resolve the  *)
(* name to the binding it wrote.                                           *)
THEOREM SetIsSeenByItsReaders == EnvSpec => SetReachesExactlyItsReaders
<1> DEFINE A == \A d \in Envs, s \in Symbols, v \in Values :
                  EnvSet(d, s, v) =>
                    /\ Binder(d, s)' # NoEnv /\ EnvLookup(d, s)' = v
                    /\ \A e \in Envs :
                         Binder(e, s)' # NoEnv =>
                           EnvLookup(e, s)' = IF Binder(e, s)' = Binder(d, s)' THEN v
                                              ELSE EnvLookup(e, s)
<1>1. ASSUME EnvInv, EnvInv', NEW d \in Envs, NEW s \in Symbols, NEW v \in Values, EnvSet(d, s, v)
      PROVE  /\ Binder(d, s)' # NoEnv /\ EnvLookup(d, s)' = v
             /\ \A e \in Envs :
                  Binder(e, s)' # NoEnv =>
                    EnvLookup(e, s)' = IF Binder(e, s)' = Binder(d, s)' THEN v
                                       ELSE EnvLookup(e, s)
  <2> DEFINE t == Target(d, s)
  <2>1. /\ t \in Envs /\ Envs' = Envs
        /\ \A e \in Envs : envs'[e].chain = envs[e].chain
        /\ \A e \in Envs : e # t => envs'[e].vals = envs[e].vals
        /\ DOMAIN envs'[t].vals = DOMAIN envs[t].vals \cup {s}
        /\ envs'[t].vals[s] = v
    BY <1>1, SetEffect DEF Envs
  <2>2. Binder(d, s)' = t
    <3>1. CASE Binder(d, s) # NoEnv
      BY <1>1, <3>1, SetKeepsBinders DEF Target
    <3>2. CASE Binder(d, s) = NoEnv
      <4>1. t = d /\ Hits(d, s) = {}
        BY <1>1, <3>2, NoBinderNoHit DEF Target
      <4>2. ChainOK(envs, d) /\ d \in Nat \ {0} /\ Len(envs) \in Nat
        BY <1>1, EnvMember DEF EnvInv, ChainsWellFormed
      <4>3. DOMAIN envs[d].chain = 1 .. Len(envs[d].chain) /\ Len(envs[d].chain) \in Nat
        BY <1>1, EnvMember DEF EnvInv
      <4>4. ASSUME NEW i \in Hits(d, s)' PROVE i = 1
        <5>1. i \in DOMAIN envs[d].chain /\ s \in DOMAIN envs'[envs[d].chain[i]].vals
          BY <2>1 DEF Hits
        <5>2. envs[d].chain[i] \in Envs /\ s \notin DOMAIN envs[envs[d].chain[i]].vals
          BY <4>1, <4>2, <4>3, <5>1 DEF ChainOK, Envs, Hits
        <5>3. envs[d].chain[i] = d
          BY <2>1, <4>1, <5>1, <5>2
        <5>4. Len(envs[d].chain) = Len(envs[d].chain) - i + 1
          BY <4>2, <4>3, <5>1, <5>3 DEF ChainOK, IsRest
        <5> QED
          BY <4>3, <5>1, <5>4
      <4>5. 1 \in Hits(d, s)'
        BY <2>1, <4>1, <4>2, <4>3 DEF Hits, ChainOK
      <4>6. Hits(d, s)' = {1}
        BY <4>4, <4>5
      <4>7. FirstHit(d, s)' = 1
        BY <4>6 DEF FirstHit
      <4> QED
        BY <2>1, <4>1, <4>2, <4>6, <4>7 DEF Binder, ChainOK
    <3> QED
      BY <3>1, <3>2
  <2>3. t # NoEnv
    BY <1>1, <2>1, EnvMember DEF EnvInv, NoEnv
  <2>4. ASSUME NEW e \in Envs, Binder(e, s)' # NoEnv, Binder(e, s)' # t
        PROVE  EnvLookup(e, s)' = EnvLookup(e, s)
    <3>1. /\ FirstHit(e, s)' \in DOMAIN envs[e].chain
          /\ Binder(e, s)' = envs[e].chain[FirstHit(e, s)']
          /\ Binder(e, s)' \in Envs
          /\ s \in DOMAIN envs'[Binder(e, s)'].vals
      <4>1. /\ DOMAIN envs[e].chain = 1 .. Len(envs[e].chain)
            /\ Len(envs[e].chain) \in Nat /\ e \in Nat /\ Len(envs) \in Nat
        BY <1>1, EnvMember DEF EnvInv
      <4>2. Hits(e, s)' # {} /\ Binder(e, s)' = envs[e].chain[FirstHit(e, s)']
        BY <2>1, <2>4 DEF Binder
      <4>3. Hits(e, s)' \in SUBSET Nat
        BY <2>1, <4>1 DEF Hits
      <4>4. \E i \in Hits(e, s)' : \A j \in Hits(e, s)' : i <= j
        BY <4>2, <4>3, LeastMember
      <4>5. FirstHit(e, s)' \in Hits(e, s)'
        BY <4>4 DEF FirstHit
      <4>6. /\ FirstHit(e, s)' \in DOMAIN envs[e].chain
            /\ s \in DOMAIN envs'[envs[e].chain[FirstHit(e, s)']].vals
        BY <2>1, <4>5 DEF Hits
      <4>7. envs[e].chain[FirstHit(e, s)'] \in Envs
        BY <1>1, <4>1, <4>6 DEF EnvInv, ChainsWellFormed, ChainOK, Envs
      <4> QED
        BY <4>2, <4>6, <4>7
    <3>2. envs'[Binder(e, s)'].vals = envs[Binder(e, s)'].vals
      BY <2>1, <2>4, <3>1
    <3>3. Binder(e, s) # NoEnv
      <4>1. FirstHit(e, s)' \in Hits(e, s)
        BY <3>1, <3>2 DEF Hits
      <4> QED
        BY <1>1, <4>1, NoBinderNoHit
    <3>4. Binder(e, s)' = Binder(e, s)
      BY <1>1, <3>3, SetKeepsBinders
    <3> QED
      BY <3>2, <3>4 DEF EnvLookup
  <2>5. ASSUME NEW e \in Envs, Binder(e, s)' = t
        PROVE  EnvLookup(e, s)' = v
    BY <2>1, <2>5 DEF EnvLookup
  <2> QED
    BY <1>1, <2>2, <2>3, <2>4, <2>5
<1>2. EnvInv /\ EnvInv' /\ [EnvNext]_envs => [A]_envs
  BY <1>1
<1>3. EnvSpec => []EnvInv
  BY InitInv, StepInv, PTL DEF EnvSpec
<1> QED
  BY <1>2, <1>3, PTL DEF EnvSpec, SetReachesExactlyItsReaders

=============================================================================
