------------------------------- MODULE SymSave -------------------------------
(***************************************************************************)
(* The symbol table (sym_save.c): a tree of names, and the memory that     *)
(* names are copied to.  `symtab' is the tree's content, a function from   *)
(* names to the tree node and the address of the characters.  The tree     *)
(* itself is module RbTree, and the pool its nodes come from is one of     *)
(* palloc.c that is never extended.                                        *)
(*                                                                         *)
(* Characters are copied to bump pools.  The last byte of `bytes' stands   *)
(* for the byte that follows a bump pool's buffer in memory.  The i-th     *)
(* character of a name n is <<n, i>>, and NUL ends a string.               *)
(***************************************************************************)
EXTENDS Integers, Sequences

CONSTANTS
    Names,          \* identifiers
    NameLen,        \* how many characters each has
    BumpSize,       \* SYM_SAVE_BUMP_SIZE
    SymCapacity     \* SYMTAB_POOL_CAPACITY

ASSUME SymAssumption ==
    /\ NameLen \in [Names -> Nat \ {0}]
    /\ BumpSize \in Nat \ {0} /\ SymCapacity \in Nat

VARIABLES
    symtab,
    symFree,        \* the free list of the pool of tree nodes
    bumps,          \* the bump pools, the current one last
    process         \* "running", "exited" or "undefined"

symVars == <<symtab, symFree, bumps, process>>

NUL == <<>>

NewBump == [offset |-> 0, bytes |-> [i \in 1 .. BumpSize + 1 |-> NUL]]

-----------------------------------------------------------------------------
(* Mutant: no byte for the end of the string. *)
UnendedSize(n) == NameLen[n]

(* What bump_pool_strndup asks for. *)
StoredSize(n) == NameLen[n] + 1

(* The text the lexer hands over is a string with an end. *)
SourceByte(n, i) == IF i <= NameLen[n] THEN <<n, i>> ELSE NUL

(* Mutant: any room at all is enough. *)
FitsIfNotFull(bump, n) == bump.offset < BumpSize

Fits(bump, n) == bump.offset + StoredSize(n) <= BumpSize

(* bump_pool_alloc takes a new pool when the name does not fit. *)
Room(n) ==
    IF Fits(bumps[Len(bumps)], n) THEN bumps ELSE Append(bumps, NewBump)

(* bump_pool_strndup: the string with its end is copied, and another NUL   *)
(* is written to the byte behind. *)
Written(bump, n) ==
    LET at == bump.offset
        size == StoredSize(n)
    IN  [offset |-> at + size,
         bytes |-> [i \in DOMAIN bump.bytes |->
                      IF i \in at + 1 .. at + size THEN SourceByte(n, i - at)
                      ELSE IF i = at + size + 1 THEN NUL
                      ELSE bump.bytes[i]]]

(* Mutant: the tree is not asked. *)
Unknown(n) == FALSE

Known(n) == n \in DOMAIN symtab

(* A name that is in the tree already. *)
FindSymbol(n) == process = "running" /\ Known(n) /\ UNCHANGED symVars

(* pool_alloc finds no tree node: the handler ends the process. *)
SymbolsExhausted(n) ==
    /\ process = "running" /\ ~ Known(n)
    /\ symFree = <<>>
    /\ process' = "exited"
    /\ UNCHANGED <<symtab, symFree, bumps>>

(* A name that is longer than a bump pool is written far behind it. *)
SymbolTooLong(n) ==
    /\ process = "running" /\ ~ Known(n) /\ symFree # <<>>
    /\ ~ Fits(NewBump, n)
    /\ process' = "undefined"
    /\ UNCHANGED <<symtab, symFree, bumps>>

SaveSymbol(n) ==
    /\ process = "running" /\ ~ Known(n) /\ symFree # <<>>
    /\ Fits(NewBump, n)
    /\ LET room == Room(n)
           bump == room[Len(room)]
       IN  /\ bumps' = [room EXCEPT ![Len(room)] = Written(bump, n)]
           /\ symtab' = [m \in DOMAIN symtab \cup {n} |->
                           IF m = n THEN [node |-> Head(symFree), bump |-> Len(room), at |-> bump.offset]
                           ELSE symtab[m]]
    /\ symFree' = Tail(symFree)
    /\ UNCHANGED process

SymInit ==
    /\ symtab = [n \in {} |-> n]
    /\ symFree = [i \in 1 .. SymCapacity |-> i]
    /\ bumps = <<NewBump>>
    /\ process = "running"

SymNext ==
    \E n \in Names : FindSymbol(n) \/ SymbolsExhausted(n) \/ SymbolTooLong(n) \/ SaveSymbol(n)

SymSpec == SymInit /\ [][SymNext]_symVars

-----------------------------------------------------------------------------
(* The address of a name, read as a string, is that name and nothing more, *)
(* whatever has been saved behind it since, and it ends within its pool.   *)
NamesReadBack ==
    \A n \in DOMAIN symtab :
        LET bytes == bumps[symtab[n].bump].bytes
            at == symtab[n].at
        IN  /\ \A i \in 1 .. NameLen[n] : bytes[at + i] = <<n, i>>
            /\ at + NameLen[n] < BumpSize
            /\ bytes[at + NameLen[n] + 1] = NUL

(* A saved name keeps its address and its tree node, and shares them with  *)
(* no other: symbol_eq may compare the addresses of two names instead of   *)
(* their characters, even when the nodes come from different programs.     *)
SymbolsKeepTheirPlace ==
    [][\A n \in DOMAIN symtab :
          /\ n \in DOMAIN symtab' /\ symtab'[n] = symtab[n]
          /\ \A m \in DOMAIN symtab' \ {n} :
                /\ symtab'[m].node # symtab[n].node
                /\ <<symtab'[m].bump, symtab'[m].at>> # <<symtab[n].bump, symtab[n].at>>]_symVars

(* bump_pool_strndup writes one byte more than it has asked for, which for *)
(* a name that fills its pool lies behind the pool.  That byte never       *)
(* becomes anything but NUL: characters stay within the pools.               *)
OnlyEndsBehindPools == \A b \in DOMAIN bumps : bumps[b].bytes[BumpSize + 1] = NUL
=============================================================================
