------------------------------ MODULE NodePools ------------------------------
(***************************************************************************)
(* The pools that nodes come from (palloc.c), and the Contexts that use    *)
(* them (eval_ctx.h, eval.c, repl.c).                                      *)
(*                                                                         *)
(* A Context holds a pointer to the head of a chain of pools and allocates *)
(* from the head only; when that is used up it puts a new pool in front    *)
(* and moves its own pointer there.  funcall_lambda copies its caller's    *)
(* Context, so the callee starts with the caller's head and from then on   *)
(* each moves its own copy: pools that a callee adds are behind no other   *)
(* Context, and two pools may have the same pool behind them.              *)
(*                                                                         *)
(* `pools' holds every pool ever made, in that order; a pool is            *)
(*    free  : its free list;                                               *)
(*    chain : itself and what follows along the `next' pointers.           *)
(* `prev' is written and never read, and left out.  A slot is a pair of a  *)
(* pool and a place in it.                                                 *)
(***************************************************************************)
EXTENDS Integers, Sequences

CONSTANTS
    Count,       \* slots of a pool (OBJ_POOL_CAPACITY)
    MaxPools,    \* bound on the pools ever made
    MaxDepth     \* bound on the Contexts that exist at a time

ASSUME PoolAssumption == Count \in Nat \ {0} /\ MaxPools \in Nat /\ MaxDepth \in Nat

VARIABLES
    pools,
    heads,       \* CTX_POOL of each Context on the C stack, innermost last
    binding,     \* is a call under way whose Context is copied and not yet in use?
    live,        \* the slots that were handed out and not given back
    handed,      \* changes with every allocation
    destroyed    \* the pools whose memory has been freed

poolVars == <<pools, heads, binding, live, handed, destroyed>>

PoolIds == 1 .. Len(pools)

Places == 1 .. Count

Members(s) == {s[i] : i \in DOMAIN s}

-----------------------------------------------------------------------------
(* Mutant: the loop that links the slots goes one too far, and the last of *)
(* them leads to the memory behind the pool. *)
AllFreeAndOneMore == [i \in 1 .. Count + 1 |-> i]

(* pool_reset_all: every slot is free, in the order they lie in memory. *)
AllFree == [i \in Places |-> i]

(* pool_init, with the chain it is put in front of. *)
NewPool(id, behind) == [free |-> AllFree, chain |-> <<id>> \o behind]

(* The Context that allocates: the innermost one, but for the pairs that   *)
(* funcall_lambda makes from parameters and arguments it is the caller's,  *)
(* of which the copy has already been taken. *)
User == IF binding THEN Len(heads) - 1 ELSE Len(heads)

HeadPool == pools[heads[User]]

(* Mutant: the slot stays on the free list. *)
TookFirstAndKept(pool) == pool

(* pool_alloc: the first slot leaves the free list. *)
TookFirst(pool) == [pool EXCEPT !.free = Tail(@)]

AllocFromHead ==
    /\ heads # <<>> /\ HeadPool.free # <<>>
    /\ pools' = [pools EXCEPT ![heads[User]] = TookFirst(@)]
    /\ live' = live \cup {<<heads[User], Head(HeadPool.free)>>}
    /\ handed' = ~ handed
    /\ UNCHANGED <<heads, binding, destroyed>>

(* Mutant: the new pool is there, and the Context goes on with the old one *)
(* as if the slot came from it. *)
AllocBehindHead ==
    /\ heads # <<>> /\ HeadPool.free = <<>> /\ Len(pools) < MaxPools
    /\ LET new == NewPool(Len(pools) + 1, HeadPool.chain) IN
       /\ pools' = Append(pools, TookFirst(new))
       /\ live' = live \cup {<<heads[User], Head(new.free)>>}
    /\ handed' = ~ handed
    /\ UNCHANGED <<heads, binding, destroyed>>

(* pool_alloc_hier when the head has nothing left. *)
AllocFromNewPool ==
    /\ heads # <<>> /\ HeadPool.free = <<>> /\ Len(pools) < MaxPools
    /\ LET new == NewPool(Len(pools) + 1, HeadPool.chain) IN
       /\ pools' = Append(pools, TookFirst(new))
       /\ heads' = [heads EXCEPT ![User] = Len(pools) + 1]
       /\ live' = live \cup {<<Len(pools) + 1, Head(new.free)>>}
    /\ handed' = ~ handed
    /\ UNCHANGED <<binding, destroyed>>

(* pool_free, of a slot to the pool it came from.  The interpreter itself  *)
(* never gives a node back. *)
FreeSlot(s) ==
    /\ s \in live
    /\ pools' = [pools EXCEPT ![s[1]].free = <<s[2]>> \o @]
    /\ live' = live \ {s}
    /\ UNCHANGED <<heads, binding, handed, destroyed>>

-----------------------------------------------------------------------------
(* clsr_init: a first pool for a new outermost Context. *)
ClsrInit ==
    /\ heads = <<>> /\ Len(pools) < MaxPools
    /\ pools' = Append(pools, NewPool(Len(pools) + 1, <<>>))
    /\ heads' = <<Len(pools) + 1>>
    /\ UNCHANGED <<binding, live, handed, destroyed>>

(* funcall_lambda copies the Context; when the parameters are bound the    *)
(* body runs with the copy. *)
CopyContext ==
    /\ heads # <<>> /\ ~ binding /\ Len(heads) < MaxDepth
    /\ heads' = Append(heads, heads[Len(heads)])
    /\ binding' = TRUE
    /\ UNCHANGED <<pools, live, handed, destroyed>>

EnterBody ==
    /\ binding
    /\ binding' = FALSE
    /\ UNCHANGED <<pools, heads, live, handed, destroyed>>

ReturnToCaller ==
    /\ Len(heads) > 1 /\ ~ binding
    /\ heads' = SubSeq(heads, 1, Len(heads) - 1)
    /\ UNCHANGED <<pools, binding, live, handed, destroyed>>

(* raise(): back to the outermost Context from any depth. *)
RaiseToPrompt ==
    /\ heads # <<>>
    /\ heads' = SubSeq(heads, 1, 1)
    /\ binding' = FALSE
    /\ UNCHANGED <<pools, live, handed, destroyed>>

(* Mutant: the Context keeps its pointer. *)
DestroyKeepingHead ==
    /\ Len(heads) = 1
    /\ LET gone == Members(pools[heads[1]].chain) IN
       /\ destroyed' = destroyed \cup gone
       /\ live' = {s \in live : s[1] \notin gone}
    /\ UNCHANGED <<pools, heads, binding, handed>>

(* clsr_destroy, pool_destroy_hier: the outermost Context's chain.  Pools  *)
(* that callees have added in front of it are not on that chain. *)
ClsrDestroy ==
    /\ Len(heads) = 1
    /\ LET gone == Members(pools[heads[1]].chain) IN
       /\ destroyed' = destroyed \cup gone
       /\ live' = {s \in live : s[1] \notin gone}
    /\ heads' = <<>>
    /\ UNCHANGED <<pools, binding, handed>>

-----------------------------------------------------------------------------
PoolInit ==
    /\ pools = <<>>
    /\ heads = <<>>
    /\ binding = FALSE
    /\ live = {}
    /\ handed = FALSE
    /\ destroyed = {}

PoolNext ==
    \/ AllocFromHead \/ AllocFromNewPool
    \/ \E s \in live : FreeSlot(s)
    \/ ClsrInit \/ CopyContext \/ EnterBody \/ ReturnToCaller \/ RaiseToPrompt \/ ClsrDestroy

PoolSpec == PoolInit /\ [][PoolNext]_poolVars

-----------------------------------------------------------------------------
(* Every pointer is to a pool that was made, every slot to a place in one, *)
(* and a Context that is being set up has a caller.                        *)
PoolTypeOK ==
    /\ pools \in Seq([free : Seq(Places), chain : Seq(Nat)])
    /\ heads \in Seq(PoolIds)
    /\ binding \in BOOLEAN
    /\ live \subseteq PoolIds \X Places
    /\ handed \in BOOLEAN
    /\ destroyed \subseteq PoolIds
    /\ binding => Len(heads) > 1

(* A free list names no place twice and none that somebody has, and a      *)
(* place that nobody has is on it: no slot is lost, and none can be handed *)
(* out to two nodes.                                                       *)
SlotsAccountedFor ==
    \A p \in PoolIds \ destroyed :
        /\ \A i, j \in DOMAIN pools[p].free : pools[p].free[i] = pools[p].free[j] => i = j
        /\ Members(pools[p].free) = {i \in Places : <<p, i>> \notin live}

(* The pools that a Context can reach exist, all of them, also those that  *)
(* it shares with other Contexts and those it copied from a caller that    *)
(* has moved on; and a node that somebody has lies in a pool that exists.  *)
ReachablePoolsExist ==
    /\ \A c \in DOMAIN heads : Members(pools[heads[c]].chain) \cap destroyed = {}
    /\ \A s \in live : s[1] \notin destroyed

(* To the code that makes nodes the pools are one allocator: whatever      *)
(* Context it uses, no slot is handed out that somebody still has.         *)
A == INSTANCE Allocator WITH Slots <- (1 .. MaxPools) \X Places

IsAllocator == A!AllocatorSpec
=============================================================================
