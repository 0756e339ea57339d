-------------------------------- MODULE Dict --------------------------------
(***************************************************************************)
(* The dictionary (dict.c): a hash table with open addressing.             *)
(*                                                                         *)
(* A bin holds the index of an entry in a list, or EMPTY, or TOMBSTONE     *)
(* where an entry was deleted; entries are never taken off the list.  A    *)
(* search starts at the hash of the key and goes on from bin to bin, to    *)
(* the key, to an EMPTY bin, or once around.                               *)
(*                                                                         *)
(* Memory may run out: malloc and its callers report that to the caller of *)
(* dict_insert.  (Running out while the list grows ends the process.)      *)
(***************************************************************************)
EXTENDS Integers, FiniteSets

CONSTANTS
    Keys,            \* strings of at most DICT_STR_MAX_LEN characters
    Values,
    Hash,            \* djb2
    InitCap,         \* DICT_INIT_CAP
    EntriesCapacity, \* HEAP_LIST_INIT_CAPACITY
    MaxEntries       \* bound on the entries ever made

ASSUME DictAssumption ==
    /\ Hash \in [Keys -> Nat] /\ InitCap \in Nat \ {0} /\ \E n \in 0 .. InitCap : InitCap = 2 ^ n
    /\ EntriesCapacity \in Nat \ {0} /\ MaxEntries \in Nat

VARIABLES
    dict,            \* [bins, capacity, count]
    entries          \* dict->list

dictVars == <<dict, entries>>

L == INSTANCE List WITH
       list <- entries, Items <- [key : Keys, val : Values],
       ListCapacity <- EntriesCapacity, MaxItems <- MaxEntries

EMPTY     == -1
TOMBSTONE == -2

-----------------------------------------------------------------------------
(* alloc_bins, with the count of what is going to be in them. *)
EmptyBins(capacity, count) ==
    [bins |-> [b \in 0 .. capacity - 1 |-> EMPTY], capacity |-> capacity, count |-> count]

KeyAt(d, b) == entries.items[d.bins[b]].key

(* The bins in the order of the search for a key; the last is the first    *)
(* again. *)
Bin(d, k, i) == (Hash[k] + i) % d.capacity

(* The search ends at the key and at an EMPTY bin. *)
Stops(d, k, i) ==
    LET b == Bin(d, k, i) IN d.bins[b] = EMPTY \/ (d.bins[b] >= 0 /\ KeyAt(d, b) = k)

IsTomb(d, k, i) == d.bins[Bin(d, k, i)] = TOMBSTONE

(* Or once around. *)
End(d, k) ==
    CHOOSE e \in 0 .. d.capacity :
       (e = d.capacity \/ Stops(d, k, e)) /\ \A i \in 0 .. e - 1 : ~ Stops(d, k, i)

(* get_bins_idx: the bin of the key; if it has none, the first bin it may  *)
(* be put in: a TOMBSTONE on the way, or the EMPTY bin at the end.         *)
BinOf(d, k) ==
    LET end == End(d, k) IN
    IF d.bins[Bin(d, k, end)] >= 0 /\ end < d.capacity THEN Bin(d, k, end)
    ELSE Bin(d, k, CHOOSE t \in 0 .. end : (t = end \/ IsTomb(d, k, t))
                                         /\ \A i \in 0 .. t - 1 : ~ IsTomb(d, k, i))

(* dict_lookup: the index of the entry, or a bin's other content. *)
Lookup(d, k) == d.bins[BinOf(d, k)]

(* Mutant: the entry that is going to be inserted is not counted. *)
CrowdedLate(d) == d.count * 5 > d.capacity * 4

(* More than 80% of the bins would be in use. *)
Crowded(d) == (d.count + 1) * 5 > d.capacity * 4

(* grow_bins: bin after bin, what was in use is searched a new place. *)
Grow(d) ==
    LET placed[b \in 0 .. d.capacity] ==
          IF b = 0 THEN EmptyBins(2 * d.capacity, d.count)
          ELSE LET p == placed[b - 1]
                   old == d.bins[b - 1]
               IN  IF old \in {EMPTY, TOMBSTONE} THEN p
                   ELSE [p EXCEPT !.bins[BinOf(p, KeyAt(d, b - 1))] = old]
    IN  placed[d.capacity]

Roomy(d) == IF Crowded(d) THEN Grow(d) ELSE d

-----------------------------------------------------------------------------
(* dict_insert, when there is no memory for more bins. *)
InsertWithoutBins == Crowded(dict) /\ UNCHANGED dictVars

(* Mutant: a new entry instead of a new value. *)
ReplaceEntry(k, v) ==
    LET d == Roomy(dict) IN
    /\ Lookup(d, k) >= 0 /\ entries.count < MaxEntries
    /\ dict' = [d EXCEPT !.bins[BinOf(d, k)] = entries.count]
    /\ entries' = L!ListAppend(entries, [key |-> k, val |-> v])

(* dict_insert of a key that is there. *)
Overwrite(k, v) ==
    LET d == Roomy(dict) IN
    /\ Lookup(d, k) >= 0
    /\ dict' = d
    /\ entries' = [entries EXCEPT !.items[Lookup(d, k)].val = v]

(* dict_insert, when there is no memory for the entry. *)
InsertWithoutEntry(k) ==
    LET d == Roomy(dict) IN
    /\ Lookup(d, k) < 0
    /\ dict' = d
    /\ UNCHANGED entries

InsertNew(k, v) ==
    LET d == Roomy(dict) IN
    /\ Lookup(d, k) < 0 /\ entries.count < MaxEntries
    /\ entries' = L!ListAppend(entries, [key |-> k, val |-> v])
    /\ dict' = [d EXCEPT !.bins[BinOf(d, k)] = entries.count, !.count = @ + 1]

(* Mutant: searches for other keys end at the bin. *)
DeleteToEmpty(k) ==
    /\ Lookup(dict, k) >= 0
    /\ dict' = [dict EXCEPT !.bins[BinOf(dict, k)] = EMPTY, !.count = @ - 1]
    /\ UNCHANGED entries

(* Mutant: the count stays. *)
DeleteUncounted(k) ==
    /\ Lookup(dict, k) >= 0
    /\ dict' = [dict EXCEPT !.bins[BinOf(dict, k)] = TOMBSTONE]
    /\ UNCHANGED entries

(* dict_del. *)
Delete(k) ==
    /\ Lookup(dict, k) >= 0
    /\ dict' = [dict EXCEPT !.bins[BinOf(dict, k)] = TOMBSTONE, !.count = @ - 1]
    /\ UNCHANGED entries

DeleteNothing(k) == Lookup(dict, k) < 0 /\ UNCHANGED dictVars

DictInit == dict = EmptyBins(InitCap, 0) /\ entries = L!ListAlloc

DictNext ==
    \/ InsertWithoutBins
    \/ \E k \in Keys :
          \/ \E v \in Values : Overwrite(k, v) \/ InsertNew(k, v)
          \/ InsertWithoutEntry(k)
          \/ Delete(k) \/ DeleteNothing(k)

DictSpec == DictInit /\ [][DictNext]_dictVars

-----------------------------------------------------------------------------
InUse == {b \in DOMAIN dict.bins : dict.bins[b] >= 0}

(* The bins in use lead to different entries of different keys, and the    *)
(* count, on which alone the growth depends, is how many they are.         *)
DictTypeOK ==
    /\ DOMAIN dict.bins = 0 .. dict.capacity - 1
    /\ DOMAIN entries.items = 0 .. entries.capacity - 1 /\ entries.count <= entries.capacity
    /\ \A b \in DOMAIN dict.bins : dict.bins[b] \in -2 .. entries.count - 1
    /\ \A b, c \in InUse : KeyAt(dict, b) = KeyAt(dict, c) => b = c
    /\ dict.count = Cardinality(InUse)

(* The search for a key ends at the bin that holds it; for a key that has  *)
(* none it ends at a bin that is not in use, never at another key's, also  *)
(* when every bin is in use or has been: tombstones do not count.          *)
LookupsAgree ==
    /\ \A b \in InUse : BinOf(dict, KeyAt(dict, b)) = b
    /\ \A k \in Keys : BinOf(dict, k) \in InUse => KeyAt(dict, BinOf(dict, k)) = k

(* dict_lookup hands out a pointer to an entry.  It stays the entry of its *)
(* key, through growth and overwriting, for as long as the key is there.   *)
EntryStable ==
    [][\A k \in Keys : Lookup(dict, k) >= 0 =>
          \/ Lookup(dict, k)' = Lookup(dict, k)
          \/ Lookup(dict, k)' < 0 /\ dict'.count < dict.count]_dictVars

Contents ==
    LET at == [k \in Keys |-> Lookup(dict, k)]
    IN  [k \in {x \in Keys : at[x] >= 0} |-> entries.items[at[k]].val]

Map == INSTANCE KVMap WITH map <- Contents

(* What lookups find is a map: a call changes one binding or none, the     *)
(* growth and a failure to grow change none.                               *)
DictIsMap == Map!MapSpec
=============================================================================
