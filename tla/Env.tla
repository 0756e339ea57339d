-------------------------------- MODULE Env --------------------------------
(***************************************************************************)
(* Environments of the interpreter (env.c, env.h): each one a map from     *)
(* symbol names to nodes, kept in a red-black tree, and a parent pointer.  *)
(*                                                                         *)
(* `envs' holds every environment ever created, in creation order: the     *)
(* program never frees one while it runs.  An environment is               *)
(*    chain : the environments the loops of env_lookup and env_set visit,  *)
(*            i.e. itself, its parent, the parent of that, up to the root; *)
(*    vals  : the tree's content, a function from the bound names.         *)
(* The tree that stores the names is module RbTree.                        *)
(***************************************************************************)
EXTENDS Integers, Sequences

CONSTANTS
    Symbols,     \* names that can be bound
    Values       \* what a name can be bound to (nodes, for the interpreter)

VARIABLE envs

NoEnv == 0       \* the NULL environment: parent of a root, binder of an unbound name

Envs == 1 .. Len(envs)

(* Every map from some of the names to such values. *)
Bindings(values) == UNION {[D -> values] : D \in SUBSET Symbols}

(* Mutant: the loops do not stop before the NULL parent. *)
NewEnvUpToNull(id, parentChain) ==
    [chain |-> (<<id>> \o parentChain) \o <<NoEnv>>, vals |-> [s \in {} |-> s]]

NewEnv(id, parentChain) ==
    [chain |-> <<id>> \o parentChain, vals |-> [s \in {} |-> s]]

-----------------------------------------------------------------------------
(* The positions of e's chain at which s is bound; the loops stop at the   *)
(* first one.                                                              *)
Hits(e, s) == {i \in DOMAIN envs[e].chain : s \in DOMAIN envs[envs[e].chain[i]].vals}

FirstHit(e, s) == CHOOSE i \in Hits(e, s) : \A j \in Hits(e, s) : i <= j

(* The environment whose binding of s is seen from e. *)
Binder(e, s) == IF Hits(e, s) = {} THEN NoEnv ELSE envs[e].chain[FirstHit(e, s)]

EnvLookup(e, s) == envs[Binder(e, s)].vals[s]

(* Mutant: the environments share what they bind. *)
BindEverywhere(d, s, v) ==
    envs' = [e \in Envs |->
               [envs[e] EXCEPT !.vals =
                  [x \in DOMAIN @ \cup (IF e = d THEN {s} ELSE {}) |->
                     IF x = s THEN v ELSE envs[e].vals[x]]]]

(* Write one binding of one environment. *)
Bind(d, s, v) ==
    envs' = [envs EXCEPT ![d].vals =
               [x \in DOMAIN envs[d].vals \cup {s} |-> IF x = s THEN v ELSE envs[d].vals[x]]]

(* Mutant: the parent's own parents are forgotten. *)
EnvNewOneParent(parent) ==
    envs' = Append(envs, NewEnv(Len(envs) + 1, IF parent = NoEnv THEN <<>> ELSE <<parent>>))

(* env_new: a fresh empty environment under `parent' (NoEnv for a root). *)
EnvNew(parent) ==
    envs' = Append(envs, NewEnv(Len(envs) + 1,
                                IF parent = NoEnv THEN <<>> ELSE envs[parent].chain))

(* Mutant: the environment of the call is written, whoever binds the name. *)
EnvSetHere(e, s, v) == Bind(e, s, v)

(* env_set: overwrite the binding that the walk up the parents finds; only *)
(* a name that is bound nowhere on the chain is added, to e itself.        *)
EnvSet(e, s, v) == Bind(IF Binder(e, s) = NoEnv THEN e ELSE Binder(e, s), s, v)

-----------------------------------------------------------------------------
EnvInit == envs = <<NewEnv(1, <<>>)>>

EnvNext ==
    \/ \E p \in Envs \cup {NoEnv} : EnvNew(p)
    \/ \E e \in Envs, s \in Symbols, v \in Values : EnvSet(e, s, v)

EnvSpec == EnvInit /\ [][EnvNext]_envs

-----------------------------------------------------------------------------
(* Every environment is a chain of environments and a map of values.       *)
EnvTypeOK ==
    envs \in Seq([chain : Seq(Nat \ {0}), vals : Bindings(Values)])

(* t is what is left of c from position i on. *)
IsRest(t, c, i) ==
    /\ Len(t) = Len(c) - i + 1
    /\ \A k \in 1 .. Len(t) : t[k] = c[i + k - 1]

ChainOK(es, e) ==
    /\ Len(es[e].chain) >= 1
    /\ es[e].chain[1] = e
    /\ \A i \in 1 .. Len(es[e].chain) :
          /\ es[e].chain[i] \in 1 .. e
          /\ IsRest(es[es[e].chain[i]].chain, es[e].chain, i)

(* A chain starts at its own environment, goes only to older ones, and     *)
(* continues from any of its members exactly as that member's own chain    *)
(* does: the parent pointers form a forest that no operation rearranges.   *)
ChainsWellFormed == \A e \in Envs : ChainOK(envs, e)

(* Once a name resolves from an environment it resolves to that same       *)
(* environment for ever: env_set walks to the outer binding before it      *)
(* would add an inner one, so no later call can shadow a name that was     *)
(* visible.  The calls may come through any other environment.             *)
ResolutionStable ==
    [][\A e \in Envs, s \in Symbols :
          Binder(e, s) # NoEnv => Binder(e, s)' = Binder(e, s)]_envs

(* What a call of env_set stores is what env_lookup then finds, from the   *)
(* environment of the call and from every other one that resolves the name *)
(* to the same binder; all that resolve it elsewhere see what they saw.    *)
SetReachesExactlyItsReaders ==
    [][\A d \in Envs, s \in Symbols, v \in Values :
          EnvSet(d, s, v) =>
            /\ Binder(d, s)' # NoEnv /\ EnvLookup(d, s)' = v
            /\ \A e \in Envs :
                 Binder(e, s)' # NoEnv =>
                   EnvLookup(e, s)' = IF Binder(e, s)' = Binder(d, s)' THEN v
                                      ELSE EnvLookup(e, s)]_envs

=============================================================================
