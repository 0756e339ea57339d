# A formal model of clsr

clsr is a small Lisp interpreter in C: a flex/bison reader, a recursive
evaluator over nodes from a pool allocator, environments chained by parent
pointers, and a driver that runs script files and then a prompt. This directory
holds TLA+ modules translated from its source, TLC configurations that check them on
small instances, and theorems proved with TLAPS.

## 1. Inventory

| Component | Source | State | Operations |
|---|---|---|---|
| Evaluator | `eval.c`, `eval_bool.c`, `eval_math.c`, `error.c`, `eval_ctx.h` | the C stack, one `Context` per lambda activation, the jump buffer | `eval` and its special forms, `apply`/`funcall`, `funcall_builtin`, `funcall_lambda`, 19 primitives, `raise` |
| Nodes and their text | `types.c`, `types.h`, `eval.h` | the nodes in the pools | constructors, `FIRST`/`REST`, `str_fn` and `eq_fn` of each type |
| Environments | `env.c` | parent pointers, one red-black tree of bindings each | `env_new`, `env_lookup`, `env_set` |
| Reader | `lexer.l`, `parser.y`, `keywords.gperf` | the parser's stack, the root node, the symbol table | `yyparse` |
| Session | `repl.c` | the position in the script list, the global environment, what the scanner has not yet scanned | `clsr_main`, `clsr_repl`, `clsr_eval_program` |
| Line input | `readline.c` | an 8 KB buffer | `rl_readline` (joins lines up to an empty one) |
| Red-black tree | `rb_tree.c` | colours, children, parents, keys | insert, remove, lookup, a post-order walk |
| Node pools | `palloc.c` | chains of pools, a free list in each | `pool_alloc_hier`, `pool_free`, `pool_reset_all` |
| Dictionary | `dict.c` | bins with tombstones, a list of entries | insert, delete, lookup, growth |
| List and stack | `list.c`, `stack.c` | a growing array; frames linked through the array | append, remove; push, pop, enter and exit frame |
| Symbol table | `sym_save.c` | a tree of names, bump pools of characters | `sym_save` |
| Small helpers | `safe_str.h`, `oom_handlers.c` | none | bounded string functions, handlers that exit |

How they interact. The session hands a text to the reader, which allocates nodes
from the pools, interns names in the symbol table and leaves a root node in the
`Context`. The session then calls `eval_program` under `setjmp`. The evaluator
walks the nodes, makes new ones, and reads and writes environments; `raise`
leaves any depth of it at once by `longjmp` to the session. What survives a program,
whether it ended or was thrown out, is shared memory: nodes, environments and
the buffers of strings. Nothing is concurrent, and the whole program is
deterministic but for its input and for undefined behaviour.

What is hard about it:

* **where a binding lands**: `env_set` overwrites an outer binding in preference to
  making an inner one, also for the parameters of a call, so the effect of a call
  depends on everything that was set before it in any scope;
* **unwinding**: `funcall_lambda` copies its caller's `Context` onto the C stack, and
  `raise` can leave in the middle of an argument list or of parameter binding;
* **which environment a lambda gets**: it is fixed in a grammar action, at a time when no
  call is active;
* **three ways into `funcall`** (a head, `FUNCALL`, `APPLY`), which evaluate different
  parts of a form, and primitives of that name which evaluate nothing more;
* **reading what is not there**: `FIRST` and `REST` are unchecked reads of a union;
  `NIL` holds two NULL pointers, an atom holds its payload; some walks end at NIL and
  some at NULL, and `CONS` makes lists that end in neither; the frees after printing take the
  buffer of a node that lives on;
* **memory that is shared by copying a pointer**: a callee's `Context` starts with its
  caller's pool, each moves its own pointer on, and only the outermost chain is freed;
* **what one input leaves to the next**: the scanner keeps text that the parser has not
  read, and the line buffer is used again for every input;
* **searches that must end**: a probe in the dictionary ends at an `EMPTY` bin, of which
  tombstones leave fewer and fewer;
* **a byte too many**: `bump_pool_strndup` terminates a string one byte behind what it
  has allocated.

Correct means, by component: *environments*: parents form a forest, a resolved name
keeps its binder, a write is seen by exactly its readers. *Evaluator*: calls and errors unwind
what was built, a body sees its arguments, an argument is evaluated once, a scope belongs to one activation, a
legal program reads no garbage, each program ends unless it recurses without end. *Reader*: the
nodes it builds are those of the grammar, in the global environment. *Tree*,
*dictionary*, *symbol table*: they are maps; an entry of the dictionary stays where it is
while its key is there, and a name has one address for ever. *Pools*: no slot is
handed out twice or lost, and no `Context` reaches a pool that was freed. *Stack*: a
frame is a stack of its own. *List*: a sequence. *Line input*: an input is what was typed,
within the buffer. *Session*: an input meets nothing of the input before it.

## 2. The modules

| Module | Models | Remarks |
|---|---|---|
| `Env` | `env.c` | one action per operation; an environment is its chain of parents and a function from names to values |
| `EnvProofs` | | the theorems about `Env` |
| `Nodes` | `types.c`, `types.h`, `eval.h` | the heap, what `FIRST`/`REST` read in each type, what formatting reads and frees |
| `EvalMath` | `eval_math.c` | the walk over an argument list, in a machine word of `2 * IntHalf` values, and what it should compute, in unbounded integers |
| `Eval` | `eval.c`, `eval_bool.c`, `error.c`, `repl.c` | extends the three above; the evaluator as a machine, and the session around it |
| `EvalMemoryProofs`, `EvalProofs` | | the theorems about `Eval`: first what every step keeps of the memory, then the rest |
| `Reader` | `lexer.l`, `parser.y`, `keywords.gperf` | a shift-reduce reader as a fold over the words of a text |
| `KVMap` | | the map that a search tree and a dictionary promise to be |
| `RbTree` | `rb_tree.c` | insertion, removal, lookup; each round of `rb_insert_bal` and `rb_remove_bal` is a step; the post-order walk with its two stacks |
| `RbTreeProofs` | | the theorems about `RbTree` |
| `NodePools` | `palloc.c`, with `eval_ctx.h`, `eval.c`, `repl.c` | pools, their free lists, and the pool pointers that `Context`s copy and move |
| `Allocator` | | what the pools promise to the code that makes nodes |
| `NodePoolsProofs` | | the theorems about `NodePools` |
| `SymSave` | `sym_save.c` | interning, and the bump pools byte by byte |
| `SymSaveProofs` | | the theorems about `SymSave` |
| `List` | `list.c` | all cells that are allocated, and the count |
| `Dict` | `dict.c` | bins, tombstones, growth, failing allocations; its entries are an instance of `List` |
| `Stack` | `stack.c` | the array of words in which frames are linked |
| `FrameStack` | | the stack of stacks that `Stack` promises to be |
| `LibraryProofs` | | the theorems about `List`, `Dict`, `Stack` and `EvalMath` |
| `Input` | `repl.c`, `readline.c` | scripts, prompt, lines, and the text that the scanner keeps |
| `InputProofs` | | the theorems about `Input` |
| `MC_Env`, `MC_Eval`, `MC_RbTree`, `MC_Memory`, `MC_Library` | | instances for TLC: bounds, programs, the documentation's examples; `MC_Memory` composes `NodePools` and `SymSave`, `MC_Library` runs `List`, `Dict`, `Stack` or `EvalMath` |

**State and code.** In `Eval` the C recursion is unfolded. `ctl` is the function being
entered with its arguments, or the value being returned; `kont` is a sequence of
frames, one for each C call that is waiting (`head`, `again`, `and`, `or`, `if`,
`FUNCALL`, `APPLY`, `args`, `car`, `cdr`, `program`, `call`), with the local it will need; `ctxs` is the
environment of each `Context` on the C stack. An action is what the C code does
between two calls or returns, so each runs exactly the state changes of the lines
the map names. `raise` is the operator `Raise`: back to the prompt, no frames, the
outermost `Context` only, memory as it is, and no more script files. `heap` is a
sequence of nodes that only grows: the interpreter never returns a node to its pool.

In `RbTree` a node is named by the key it holds, which abstracts from addresses: that
`rb_remove` copies the key and value of a node's predecessor into it appears as
a renaming of the two (`Moved`). The recursive calls of the two balancing functions are
tail calls, so `bal` (which of them runs, at which node) is their whole control state; while
it is not `Idle` no other operation can start. The phantom is a node of its own that
`TreeTypeOK` allows only while a removal is balanced. `IsMap` says that the tree implements
`KVMap` with `map <- Contents`, which is the function `vals` of an environment in
`Env`, and the set of names of the symbol table.

In `NodePools` a pool is a number, its chain the pools along its `next` pointers; `heads` has the
pool pointer of each `Context` on the C stack. While `binding` is TRUE `funcall_lambda`
has taken the copy for its callee and still allocates (the pairs of parameters and
arguments) through its own `Context`, so the callee may start behind its caller.
`ClsrDestroy` is `pool_destroy_hier`: it frees the chain of the outermost `Context`, and pools
that callees have put in front of their own copies stay. (Only the tests call `clsr_destroy`: the
interpreter leaves its pools to the end of the process.) `live` is who has a slot; `handed` changes
with every allocation, so that an allocation of a slot that somebody has is not taken for a step
in which nothing happens.

In `SymSave` a character is the pair of its name and its place in it, so that reading a name
back shows whose characters are found. `bytes` has one byte more than a bump pool: the
one behind it, which `bump_pool_strndup` writes when a name fills a pool (`malloc` rounds the
4112 bytes of a `BumpPool` up and has room for it, so that going on is what happens). A name that needs more
than a pool is the step `SymbolTooLong`, behind which nothing is claimed.

In `Dict` an insertion has four outcomes, two of them failures for want of memory, one of which
comes after the bins have grown. In `Stack` a cell is a word: a saved frame pointer and a
pushed pointer cannot be told apart, and 0 is NULL.

In `Input` a text is a sequence of characters of which only the newline matters. Where the
parser stops in a text is left open, since it depends on the grammar: `MayLeave` is every
rest of it. `typed` is a history variable with the lines of the current input, `prompted`
another one. `full` keeps what earlier inputs have left in the array.

**Undefined behaviour.** `Undef` is the result of a read through NULL or of another
union member. An action that would use or store it goes to `Crashed` and the
machine stops there: nothing is claimed about what comes after. FIRST of the integer 0 is NULL, of
any other it is such garbage. The walks of `eval_math.c` and of `pair` end at NIL only
(`EndsInNil`), so a list that ends in an atom or in NULL makes them read through NULL, unless
something ends them before. Where the outcome
depends on the allocator, as when a list's text is written behind its two-byte
buffer, or on the compiler, as when a sum overflows (`ArithmeticOverflows`; the Makefile has no `-fwrapv`),
going on and stopping are both steps of the model. `clsr_repl` closes NULL after every
input, because `yylex_destroy` resets `yyin`: `Input` has the outcome that the process ends
(`CloseNothing`); `Eval` is about C libraries that accept it.

**Left out.** The depth of the C stack and running out of memory (the handlers
exit); the layout of printed text, so `STR` yields a structure that is equal exactly
when the texts are made of the same parts; names longer than `ENV_STR_MAX` and keys longer than
`DICT_STR_MAX_LEN`; in `Eval`, which pool a node
comes from (that is `NodePools`) and the pairs `funcall_lambda` conses and drops; option parsing;
`list_free` and `dict_destroy`, after which nothing may be called.

## 3. The runs

| Run | Instance | What it shows |
|---|---|---|
| `env` | 3 environments, 2 names, 2 values, all interleavings | `EnvTypeOK`, `ChainsWellFormed`, `ResolutionStable`, `SetReachesExactlyItsReaders` |
| `eval` | a script and a typed line, each any of 28 programs | `EvalTypeOK`, `ContextsMatchCalls`, `ActivationsBelowGlobal`, `BodySeesItsArguments`, no undefined behaviour (`NeverUndefined`), `ScopesArePrivate`, `DataRunsOnlyByEval` (no argument is evaluated twice on any of the ways into a call), every program ends, and `EnvSpec`: the evaluator is a client that uses environments only as `Env` allows |
| `faults` | the same with 27 programs that read garbage, walk improper lists, overflow, print lists or reuse freed buffers | `ProgramEnds`: every such program ends, in one of the outcomes that it can have |
| `rbtree` | ten keys, all sequences of insertions, removals and value changes | `TreeTypeOK`, `ParentsAgree`, `EveryKeyIsFound`, `NoRedBelowRed`, `BlackHeightsAgree` in every intermediate state, `BalancingEnds`, `IterationIsPostOrder`, and `IsMap` |
| `memory` | three pools of two slots, three `Context`s, four names, two tree nodes | `PoolTypeOK`, `SlotsAccountedFor`, `ReachablePoolsExist`, `NamesReadBack`, `OnlyEndsBehindPools`, `SymbolsKeepTheirPlace`, and `IsAllocator`: the pools implement `Allocator` |
| `library` | a list of up to 8 items; a dictionary with 3 keys and 5 entries; a stack of 5 cells; 4 arguments of 8 values | `ListIsSequence`; `DictTypeOK`, `LookupsAgree`, `EntryStable` and `DictIsMap` (the dictionary implements `KVMap`); `StackTypeOK` and `StackIsFrames` (the stack implements `FrameStack`); `ArithmeticIsExact` |
| `input` | two scripts of up to 3 characters, up to 5 lines in a buffer of 9 | `InputTypeOK`, `BufferIsWhatWasTyped`, `ParserMeetsWhatWasTyped` |
| `doc_closures` | `add` from two nested lambdas | violated: the inner lambda does not capture the call's environment |
| `doc_parameters` | a parameter named like a global | violated: the call overwrites the global |
| `doc_missing_args` | `(FUNCALL)`, `(APPLY FIRST)` | violated: NULL is read where a missing argument should be reported |
| `doc_eval` | the README's `(eval ''a)` | violated: the value is the symbol, not 42 |
| `doc_list` | a list as a program's value | violated: its text does not fit the buffer allocated for it |

**Bounds.** Three environments give a chain of three and two siblings below one
parent, which is every shape a step of `env_set` or `env_lookup` can distinguish: a binder at the
environment itself, at its parent, further up, or on another branch. (What TLC finds for three,
`EnvProofs` shows for any number.) Programs are what TLC cannot enumerate: the 28 of
`eval` are chosen so that each form, each primitive, each error and each route into `funcall`
is taken, with arguments that are themselves calls, with nested activations, a
recursion, repeated parameters, a parameter that is bound outside, and errors
raised while arguments or outer calls are pending. A script followed by a line is enough
for one program to meet what another has left behind, including after an error; a third
would only repeat that. Integers have 16 values, so that 7 + 1 overflows and -8 / -1 occurs in `faults`, and
neither in `eval`.

Ten keys are the fewest from which removals reach a tree with three black nodes on every path
and no red one to borrow, where balancing climbs and then still has to recolor or rotate; with nine
every climb ends at the root. Values are never compared, so one key with a value
of its own shows whether values travel with their keys.

Three pools are enough for two chains that share a pool and differ in front of it, for a
callee that adds a pool behind its caller's back, and for a session after another; a third
`Context` is a call within a call. Two slots tell the order of a free list apart. Of the
names one has a single character, one leaves room in a bump pool of four bytes that the next does not
fit, one fills a pool to its last byte, so that the byte behind is written, and one is too long; there is a
name more than there are tree nodes.

In `library` two keys fall on the same bin, the last, of any number of bins, and the third is in the way of the
search that wraps around. Two bins at first make the load factor decide at every step; with five
entries the bins grow to eight, and two bins can be without an `EMPTY` one. The list grows
from 4 to 7 to 10 cells, the stack from 2 to 4 to 6; frames are nested up to five deep.
Every list of up to four arguments in words of three bits has every sign, every overflow and every order of a
failing and a stopping argument. An input buffer of nine characters takes three lines of
one character, or is full at the second line, and the bound on lines lets empty lines
come before, between and behind.

**Fairness.** `WF_vars(EvalStep)`: once started, C code runs on without being asked.
Reading another script or line and leaving are not fair: the user may stop typing.
Under it `ProgramEnds` says that no evaluation loops; it holds of programs that
do not recurse for ever, which the chosen ones do not. That the balancing of a tree ends
is stated without fairness: a bound on the rounds that are left goes down with each
(`BalancingEnds`, which is also proved: `RoundsFall`), and TLC finds no state of `rbtree` without a next step.

**Deadlock** is not checked in the runs of `Eval`: a session stops after the end of its input, in
undefined behaviour, or when the bound on typed lines is reached; nor in `input`, for the same
reason. In `memory` the process may have ended, and in `library` the bounds on arguments are
reached. In `env` and `rbtree` it is checked.

## 4. The proofs

`EnvProofs` proves, for any sets `Symbols` and `Values` and without a bound on the number of
environments:

* `EnvInvariant`: `EnvSpec => [](EnvTypeOK /\ ChainsWellFormed)`. The two together are
  inductive. `ChainsWellFormed` alone says of a chain that it starts at its own environment, goes
  only to older ones and agrees from each member on with that member's own chain;
  `env_new` needs the last part to extend a chain by one, and `env_set` needs the
  type invariant, without which the update of one binding says nothing about the chains.
* `ResolutionIsStable`: a resolved name keeps its binder. `env_new` changes no old chain.
  `env_set` adds a name only where its whole chain had none, so for another environment
  that resolves the name the new binding lies behind the first hit or is not on its chain: if it
  lay before it, the rest of that chain would be the chain of the written environment, which by
  `ChainsWellFormed` contains the old binder, and then nothing would have been added.
* `SetIsSeenByItsReaders`: after `env_set` the name resolves, and the environments that
  resolve it to the same binder see the new value while all others see what they saw.

`EnvsWellTyped` is the type invariant alone. The proofs assume nothing about the constants. That a chain has a
first hit is the lemma `LeastMember`, which follows from the well-foundedness of `<` on the naturals.

`EvalMemoryProofs` and `EvalProofs` prove, for any names, any number of scripts and lines, and any texts the
parser can have built:

* `EvalInvariant`: `EvalSpec => []EvalInv`. Its parts, and why each is needed:
  * `MemOK`: a node points to nodes older than itself, so that no list is a cycle and the walks that the source
    writes as loops end at NIL or at a node that is no list; the parameter lists of lambdas are proper lists, with all
    their tails (`ProperLists`), as every later step of a call follows their `rest`; every lambda has the global
    environment, so that the scope of a call is `<<e, Global>>` whatever the depth (`ActivationsBelowGlobal`).
  * `ControlOK` and `ContextsOK`: what waits is a frame, and there are as many `Context`s as `call` frames, which
    `raise` restores by dropping both.
  * `BindOK`: a call that binds its parameters has walked both lists to the same position and the names before it
    find their arguments (the last of them, where a name is repeated). `set` may overwrite an outer
    binding of the name instead of making one; it still finds the argument, and no other parameter loses its own.
  * `BodyOK`: `BodySeesItsArguments` speaks of the first expression of a body, so the invariant must know which one is
    the first; that the later ones are at smaller positions does it.
* From it `EvalWellTyped`, `ContextsUnwind`, `ScopesAreShallow`, `ArgumentsArrive`, and the action property
  `ScopesStayPrivate`: a step writes only the scope of the innermost call and the global one.
* `EvaluatorUsesEnvironments`: `EvalSpec => EnvSpec`. Each step of the evaluator makes an environment as `env_new`, sets a name as
  `env_set`, or leaves environments alone; with it the theorems about `Env` hold of every program (`ProgramsResolveStably`).
  Names are bound to nodes, which are positions in a heap without bound: hence the hypothesis `Nat \subseteq Values`.
  (TLC's heaps stay below 200.)

`Eval` assumes of its inputs (`InputsAssumption`) what the grammar actions of `parser.y` build, read off from them
(`BuiltByParser`): the parts of a node are made before it, lists are chained to lists or NIL, lambdas have a list of
parameters and the environment of the parser. TLC evaluates it for every program of the runs.

`InputProofs` proves, for a buffer of any size, any characters and any lines:

* `InputInvariant`: `InputSpec => []InputInv`. To the type invariant (nothing is written behind the buffer) it adds
  what the buffer holds between the lines: its text is the lines typed, joined, and it is empty only as long as empty
  lines were typed. So `rl_readline`'s test of the last character decides rightly: behind a line that is copied it is a
  newline only if the line was empty, whatever longer inputs have left in the buffer.
* `InputWellTyped`, `BufferHoldsInput`, and `ParserMeetsInput`: no text of an input reaches a later one, because the scanner
  is reset behind every input, also behind those that do not parse.

`LibraryProofs` proves, for any items, keys, hash function, sizes and growth:

* `StackInvariant`, `StackWellTyped`, `StackImplementsFrames`: the words below a frame's first are the saved beginnings of the
  frames below, down to 0 (`FramesAt`). The invariant is that they are; a push writes only above all of them. The
  refinement maps the array to the sequence of its frames, and every call of `stack.c` to the one of `FrameStack`.
* `ListIsASequence`: `list_resize` reaches the capacity it is asked for, by a formula that grows at every step
  (`NewCapacityFact`); all cells in use are copied; removing moves all that is behind.
* `DictInvariant`: `DictSpec => []DictInv`. `DictInv` says that each bin in use is where the search for its key comes to without a stop
  before (`Reached`), that no two hold one key, and that at most four fifths of the bins are in use. The
  searches end (`OnceAround`: going on from any hash, as many steps as there are bins come by all of
  them). As not all bins are in use, a search for a key that has none finds a first that is not (`FreeExists`), be it `EMPTY` or a tombstone,
  and putting an entry there leaves every other search as it was; a tombstone stops no search. The growth is
  an induction over the bins (`PlacingHolds`): the bins that have been moved are a dictionary with exactly the entries of the first
  `b` bins.
* From it `DictWellTyped`, `SearchesEndRight`, `EntriesStay` (whatever is inserted, a lookup's entry stays the same), and
  `DictImplementsMap`: each call is a step of `KVMap`, or none.
* `SumsAreExact`: in a word of any size and for any number of arguments each primitive of `eval_math.c` computes its
  reference: the exact value as long as none leaves the word (`Overflows`), and its remainder in the word when the machine goes on after
  an overflow. `-` and `/` of a single argument are left out: the code has them be that argument, which `basic.lisp` calls bugs (section 5). `Wrap` of a sum, difference or product does not depend on whether its operands were wrapped on the way
  (`WrapOnTheWay`). Division is different, as it does not agree modulo the word: there a truncated quotient of a
  quotient is the quotient by the product (`QuotientTwice`), and no quotient leaves the word (`QuotientFits`) but the one of the smallest
  integer by -1, which stops. The walk has the running value up to the first argument that is of no use,
  and that argument's verdict from there on (`WalkAgrees`).

`RbTreeProofs` proves, for any set of keys and values:

* `RbInvariant`: `RbSpec => []RbInv`, which holds between calls and between any two rounds of balancing. Its parts:
  * `Tree`: up and down pointers agree, and every node has an interval of numbers, which it divides between its
    children and in which its key lies (`Order`). Intervals get narrower on every way down, so there is no cycle, and every search and every
    recursion ends. A rotation changes the intervals of two nodes only (`TurnedOrder`). The phantom has an interval and no key.
  * `Weighted`: there is a height for every node such that both its subtrees lack just its own weight, which is 0 for a red node and 1
    for a black one. While a removal is balanced, the node it has come to weighs one more: what it lacks. So each round
    is a shift of weights between neighbours, and heights above it do not change.
  * `RedsApart`: no red node is below a red one, but for the node an insertion has come to; and the fields hold what they should.
  A removal of a node with two children is seen as the removal of its predecessor, and then as giving one node the other's name
  (`RelabelTree`, `RelabelSound`), which is what copying a key and a value amounts to where nodes are named by keys.
* From it `TreeTyped`, `UpAndDownAgree`, `KeysAreFound`, `RedsAreApart`, `HeightsAgree` (the recursive black height of the property is the height the
  invariant keeps), and `ImplementsMap`: each call changes one binding, at one of its steps, and balancing none.
* `RoundsFall`: the bound on the rounds to come goes down with every one. The node is less deep where an insertion or a removal
  climbs. Turning up a red sibling makes it deeper, but leaves it below a red parent, where one round is the last.
* `IterationIsRight`: what `rb_post_order_iter` will have left in the end (what is on its second stack, and behind it the nodes below
  each node on the first, `Spread`) is the same before and after every round, and one node less is to be visited.

`NodePoolsProofs` proves, for pools of any size (at least a slot), any number of pools and any depth
of calls:

* `PoolInvariant`: `PoolSpec => []PoolInv`, where `PoolInv` is the three invariants of the run,
  the bound on the pools, and `ChainsHoldTheirPool`. The last one is what makes it
  inductive: `ReachablePoolsExist` speaks of the pools on a chain, while an allocation takes a slot of
  the head, and only because a pool is on its own chain is the head one of those that exist, so that
  `SlotsAccountedFor` says what its free list is. That chains hold only pools that were made is
  needed when they are freed.
  All actions come down to three lemmas: one pool changes its free list (`OnePoolChanges`), one is
  added (`OnePoolIsAdded`), Contexts are replaced by copies of others (`ContextsChange`).
  From it follow `PoolsWellTyped`, `NoSlotLostOrTwice` and `ContextsReachPools`.
* `PoolsAreAnAllocator`: `PoolSpec => IsAllocator`. A slot that is taken from a free list was not
  with anybody, by `SlotsAccountedFor`; one of a new pool was not, because nobody has slots of pools that were not
  made. `pool_free` and the end of a session are steps that take slots back.

`SymSaveProofs` proves, for any names of any length, bump pools of any size and any number of tree nodes:

* `SymInvariant`: `SymSpec => []SymInv`. To `NamesReadBack` and `OnlyEndsBehindPools` it adds
  `NamesBeforeOffset` (a name lies before the offset of its pool; `bump_pool_strndup` writes only behind it,
  so that the byte too many is never one of a name) and `PlacesApart` (no two names have a node or an address
  in common, and no node in use is free).
* `NamesAreIntact`, `CharactersStayInPools`, and `AddressesIdentify`: a name keeps its address and
  shares it with no other, so that comparing addresses compares names.

The assumptions are those of the modules: sizes are naturals, a pool has a slot, a name a character, a dictionary a bin.

Recursive functions occur in the models of the stack (where frames begin), the list (its capacity), the dictionary (its growth), the input (the
lines joined), the evaluator (the walk along a list), the tree (searches, heights, depths, orders) and the arithmetic (the walk over arguments, and what it
should compute). Each theorem about one of them first shows, by a least counterexample, that a function with
these equations exists, and then what its values are by the same argument, which needs no induction scheme.

Only model-checked:

* all liveness (`ProgramEnds`), which under fairness is not within the prover's reach;
* `NeverUndefined`: it holds of the programs the run has, and not of all (`faults`, `doc_missing_args`), so there is nothing to prove for every
  value of the constants;
* `DataRunsOnlyByEval`: it holds of every program of the runs; the invariant of the proofs says nothing of what waits in a frame
  beyond its shape;
* `Reader`, whose result the programs of `MC_Eval` are: what the proofs need of it is `InputsAssumption`.

## 5. Where the documentation and the code disagree

1. `README.md:111` promises lexical scope; `parser.y:195` gives every lambda the
   global environment (`doc_closures`), and `funcall_lambda` assigns to outer bindings of its
   parameters' names (`doc_parameters`).
2. `README.md:188` gives 42 for `(eval ''a)`; the code yields the symbol (`doc_eval`).
3. `error.h:10` has an error for a missing argument; `apply` reads through NULL first
   (`doc_missing_args`).
4. `README.md:93` shows a list as a result; printing one writes behind its buffer
   (`doc_list`), because `list_append_strdup` takes an index for a failure (`types.c:30`).

Of these a run has a counterexample. Others the models have, too, and no run states what is promised:

* `README.md:56` gives foo for `(quote foo)`; the grammar knows `QUOTE` only in front of an expression, so that the
  list has a quoted symbol for its head and ends in NOT_A_FUNCTION (a program of `eval`).
* `basic.lisp:78-87` lists, commented out under BUGS, that `(+)` should be 0, `(*)` 1 and `(- 42)` -42, and that
  `(/ 42)` should not work. In the code the first two are errors and the last two 42; `eval_math.c:94` has a TODO on it.
  `ArithmeticIsExact` asks nothing of `-` and `/` with a single argument.
* `eval_math.c:108` reports "expected >= 1 arguments", behind a test for a list that NIL does not pass: `(+)` fails because NIL is
  no list, and the error for its length is never raised (a program of `eval`).
* `error.h:9` has an error for an invalid argument, which `FUNCALL` and `PAIR` raise for what is no list. Lists
  that do not end in NIL, such as `(CONS 1 2)`, and what `FUNCALL` takes for a function in `(APPLY FUNCALL 5)`, are
  read through first (programs of `faults`).

## 6. Plan

Done so far: environments, evaluator, reader and tree; pools, symbol table, dictionary, list,
stack, line input, the session's inputs, and the arithmetic against a reference; then the theorems about all of these
but the reader. In this order come next:

1. `Input` composed with `Reader`: where the parser stops, instead of anywhere.
2. A big-step definition of the language that the results of `Eval` are compared with.
3. A property that singles out the ownership of string buffers (`PRINT` and
   `clsr_eval_program` free what `string_tostr` lends); today the run `faults` shows what comes of it.

## 7. Not modelled

* `safe_str.h`, `oom_handlers.c`, `debug.h`: functions that copy and compare within a bound, and handlers that
  print and exit. Running out of memory is the end of the process wherever a handler is called; only the
  dictionary reports it to its caller, and there it is modelled.
* `is_keyword_strncmp`, completion and history: they call the readline library, read and write
  a file, and keep nothing that the interpreter uses.
* `getopt`: its outcomes are the initial states of `Input`.
* The layout of the text of nodes: only which nodes it reads, whose buffer it hands out, and whether its length is
  right matter to the rest of the program.
* Line numbers, and the characters of tokens.
* `list_free`, `dict_destroy`: no call may follow.
