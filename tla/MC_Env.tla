------------------------------ MODULE MC_Env ------------------------------
(***************************************************************************)
(* Env for TLC: three environments are enough for a chain of three and     *)
(* for two branches below one parent; names and values are                 *)
(* interchangeable, so both are symmetry sets.                             *)
(***************************************************************************)
EXTENDS Env, TLC

CONSTANT MaxEnvs     \* bound on the environments created

ASSUME MaxEnvsAssumption == MaxEnvs \in Nat \ {0}

BoundedNew(p) == Len(envs) < MaxEnvs /\ EnvNew(p)

BoundedNext ==
    \/ \E p \in Envs \cup {NoEnv} : BoundedNew(p)
    \/ \E e \in Envs, s \in Symbols, v \in Values : EnvSet(e, s, v)

BoundedSpec == EnvInit /\ [][BoundedNext]_envs

EnvSymmetry == Permutations(Symbols) \cup Permutations(Values)
=============================================================================
