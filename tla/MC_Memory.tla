------------------------------ MODULE MC_Memory ------------------------------
(***************************************************************************)
(* The memory of a session for TLC: node pools and the symbol table.       *)
(* Names are saved while a text is read, when there is no Context but the  *)
(* outermost; a process that has ended does nothing more.                  *)
(***************************************************************************)
EXTENDS NodePools, SymSave, TLC

Reading == Len(heads) = 1

MemoryInit == PoolInit /\ SymInit

MemoryNext ==
    \/ process = "running" /\ PoolNext /\ UNCHANGED symVars
    \/ Reading /\ SymNext /\ UNCHANGED poolVars

MemorySpec == MemoryInit /\ [][MemoryNext]_<<poolVars, symVars>>

(* Two names fill a pool of four bytes to the last, one fits with room to  *)
(* spare, one needs more than a pool.                                      *)
MCNames == {"a", "bc", "def", "wxyz"}
MCNameLen == "a" :> 1 @@ "bc" :> 2 @@ "def" :> 3 @@ "wxyz" :> 4
=============================================================================
