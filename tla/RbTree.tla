------------------------------- MODULE RbTree -------------------------------
(***************************************************************************)
(* The red-black tree (rb_tree.c) in which environments and the symbol     *)
(* table keep their names.                                                 *)
(*                                                                         *)
(* A node is named by the key it holds; the addresses of nodes are         *)
(* abstracted.  `tree' is the root and the fields of every node that is    *)
(* linked.  rb_insert_bal and rb_remove_bal are loops (their recursive     *)
(* calls are tail calls): `bal' says which of them is running and at which *)
(* node, and nothing else may happen until it has returned.                *)
(*                                                                         *)
(* rb_remove puts a phantom in the place of a leaf that goes, so that      *)
(* there is a node to balance from, and unlinks it at the end.             *)
(***************************************************************************)
EXTENDS Integers, FiniteSets, Sequences

CONSTANTS
    Keys,        \* what nodes are ordered by
    Values       \* what they carry

ASSUME KeysAssumption == Keys \subseteq Nat \ {0}

VARIABLES
    tree,        \* [root, node]
    bal          \* [op, n]: the balancing that is under way

rbVars == <<tree, bal>>

NULL    == 0
Phantom == -1

Opposite(side) == IF side = "left" THEN "right" ELSE "left"

Idle == [op |-> "none", n |-> NULL]

Nodes(t) == DOMAIN t.node
Parent(t, n) == t.node[n].parent
Side(t, n) == IF t.node[Parent(t, n)].left = n THEN "left" ELSE "right"
Sibling(t, n) == t.node[Parent(t, n)][Opposite(Side(t, n))]

(* RB_GET_COLOR: no node is a black one. *)
Color(t, n) == IF n = NULL THEN "black" ELSE t.node[n].color
Red(t, n) == Color(t, n) = "red"

Paint(t, n, c) == [t EXCEPT !.node[n].color = c]

-----------------------------------------------------------------------------
SetChild(t, n, side, c) == [t EXCEPT !.node[n][side] = c]

(* The pointer that leads to `old', in its parent or the root, leads to    *)
(* `new'. *)
Redirect(t, old, new) ==
    IF Parent(t, old) = NULL THEN [t EXCEPT !.root = new]
    ELSE SetChild(t, Parent(t, old), Side(t, old), new)

SetParent(t, n, p) == IF n = NULL THEN t ELSE [t EXCEPT !.node[n].parent = p]

(* Mutant: the grandchild that changes sides is not told of its parent. *)
RotateForgettingInner(t, n, side) ==
    LET up    == t.node[n][Opposite(side)]
        inner == t.node[up][side]
        t1 == SetChild(t, n, Opposite(side), inner)
        t2 == SetParent(Redirect(t1, n, up), up, Parent(t, n))
    IN  SetParent(SetChild(t2, up, side, n), n, up)

(* rb_rotate_left and rb_rotate_right: n goes down to `side', its child on *)
(* the other side takes its place. *)
Rotate(t, n, side) ==
    LET up    == t.node[n][Opposite(side)]
        inner == t.node[up][side]
        t1 == SetParent(SetChild(t, n, Opposite(side), inner), inner, n)
        t2 == SetParent(Redirect(t1, n, up), up, Parent(t, n))
    IN  SetParent(SetChild(t2, up, side, n), n, up)

(* The node at which the descent for key k ends: the one that holds it, or *)
(* the one it would be put below. *)
Descend(t, k) ==
    LET down[n \in Nodes(t)] ==
          LET next == IF k < n THEN t.node[n].left ELSE t.node[n].right
          IN  IF n = k \/ next = NULL THEN n ELSE down[next]
    IN  IF t.root = NULL THEN NULL ELSE down[t.root]

(* rb_lookup *)
Found(t, k) == Descend(t, k) = k

-----------------------------------------------------------------------------
(* rb_insert: the new node becomes a red leaf; a key that is there already *)
(* is left as it is. *)
Leaf(parent, v) ==
    [left |-> NULL, right |-> NULL, parent |-> parent, color |-> "red", val |-> v]

Linked(t, k, p, v) ==
    LET fields == [n \in Nodes(t) \cup {k} |-> IF n = k THEN Leaf(p, v) ELSE t.node[n]]
        grown  == [t EXCEPT !.node = fields]
    IN  IF p = NULL THEN [grown EXCEPT !.root = k]
        ELSE [grown EXCEPT !.node[p][IF k < p THEN "left" ELSE "right"] = k]

Insert(k, v) ==
    /\ bal = Idle /\ ~ Found(tree, k)
    /\ tree' = Linked(tree, k, Descend(tree, k), v)
    /\ bal' = [op |-> "insert", n |-> k]

(* A client writes the value of a node it has looked up. *)
Overwrite(k, v) ==
    /\ bal = Idle /\ Found(tree, k)
    /\ tree' = [tree EXCEPT !.node[k].val = v]
    /\ UNCHANGED bal

(* rb_insert_bal: one round. *)
Inserting == bal.op = "insert"
Uncle == Sibling(tree, Parent(tree, bal.n))

InsertAtRoot ==
    /\ Inserting /\ tree.root = bal.n
    /\ tree' = Paint(tree, bal.n, "black")
    /\ bal' = Idle

InsertBelowBlack ==
    /\ Inserting /\ tree.root # bal.n
    /\ ~ Red(tree, Parent(tree, bal.n))
    /\ bal' = Idle
    /\ UNCHANGED tree

RedRed == Inserting /\ tree.root # bal.n /\ Red(tree, Parent(tree, bal.n))

(* Mutant: the grandparent is not looked at any more. *)
InsertRecolorOnce ==
    /\ RedRed /\ Red(tree, Uncle)
    /\ LET p == Parent(tree, bal.n) g == Parent(tree, p) IN
       tree' = Paint(Paint(Paint(tree, p, "black"), Uncle, "black"), g, "red")
    /\ bal' = Idle

InsertRecolor ==
    /\ RedRed /\ Red(tree, Uncle)
    /\ LET p == Parent(tree, bal.n) g == Parent(tree, p) IN
       /\ tree' = Paint(Paint(Paint(tree, p, "black"), Uncle, "black"), g, "red")
       /\ bal' = [bal EXCEPT !.n = g]

InsertRotate ==
    /\ RedRed /\ ~ Red(tree, Uncle)
    /\ LET p == Parent(tree, bal.n)
           g == Parent(tree, p)
           side == Side(tree, p)
           inner == Side(tree, bal.n) # side
           t1 == IF inner THEN Rotate(tree, p, side) ELSE tree
           top == IF inner THEN bal.n ELSE p
       IN  tree' = Rotate(Paint(Paint(t1, top, "black"), g, "red"), g, Opposite(side))
    /\ bal' = Idle

-----------------------------------------------------------------------------
(* Mutant: the least key below n instead of the greatest. *)
LastIsFirst(t, n) ==
    LET last[m \in Nodes(t)] ==
          IF t.node[m].left = NULL THEN m ELSE last[t.node[m].left]
    IN  last[n]

(* rb_remove looks for the greatest key below n. *)
Last(t, n) ==
    LET last[m \in Nodes(t)] ==
          IF t.node[m].right = NULL THEN m ELSE last[t.node[m].right]
    IN  last[n]

(* t with the nodes that are called n and m renamed to m and n. *)
Renamed(t, n, m) ==
    LET name(x) == CASE x = n -> m [] x = m -> n [] OTHER -> x
        moved(x) == [left |-> name(t.node[x].left), right |-> name(t.node[x].right),
                     parent |-> name(t.node[x].parent), color |-> t.node[x].color,
                     val |-> t.node[x].val]
    IN  [root |-> name(t.root), node |-> [x \in Nodes(t) |-> moved(name(x))]]

(* Mutant: the value stays behind. *)
MovedKeyOnly(t, n, m) == Renamed(t, n, m)

(* The key and the value of m are copied to node n: as nodes are named by  *)
(* their keys, m is now the name of that node, and n the name of the one   *)
(* that is left to go.                                                     *)
Moved(t, n, m) == [Renamed(t, n, m) EXCEPT !.node[m].val = t.node[m].val]

(* n, which has one child at most, is taken out and the child, or the      *)
(* phantom, put in its place.                                              *)
Unlinked(t, n) ==
    LET child == CASE t.node[n].left # NULL -> t.node[n].left
                   [] t.node[n].right # NULL -> t.node[n].right
                   [] OTHER -> Phantom
        redirected == Redirect(t, n, child)
        entry(x) ==
          IF x # child THEN redirected.node[x]
          ELSE IF child = Phantom
               THEN [Leaf(Parent(t, n), t.node[n].val) EXCEPT !.color = "black"]
               ELSE [t.node[child] EXCEPT !.parent = Parent(t, n),
                       ![IF child = t.node[n].left THEN "right" ELSE "left"] = NULL]
    IN  [child |-> child,
         tree |-> [redirected EXCEPT
                     !.node = [x \in (Nodes(t) \ {n}) \cup {child} |-> entry(x)]]]

(* Mutant: the parent still points to the phantom. *)
PhantomLeftLinked(t) ==
    IF Phantom \in Nodes(t)
    THEN [t EXCEPT !.node = [x \in Nodes(t) \ {Phantom} |-> t.node[x]]]
    ELSE t

PhantomGone(t) ==
    IF Phantom \in Nodes(t)
    THEN [Redirect(t, Phantom, NULL) EXCEPT
            !.node = [x \in Nodes(t) \ {Phantom} |-> @[x]]]
    ELSE t

Finish(t) == tree' = PhantomGone(t) /\ bal' = Idle

Remove(k) ==
    /\ bal = Idle /\ Found(tree, k)
    /\ LET two == NULL \notin {tree.node[k].left, tree.node[k].right}
           t1 == IF two THEN Moved(tree, k, Last(tree, tree.node[k].left)) ELSE tree
           u  == Unlinked(t1, k)
       IN  CASE Red(t1, k) -> Finish(u.tree)
             [] ~ Red(t1, k) /\ Red(u.tree, u.child) -> Finish(Paint(u.tree, u.child, "black"))
             [] OTHER -> tree' = u.tree /\ bal' = [op |-> "remove", n |-> u.child]

(* rb_remove_bal: one round, at a node whose subtree lacks a black one.    *)
Removing == bal.op = "remove" /\ Parent(tree, bal.n) # NULL
Nephew(side) == tree.node[Sibling(tree, bal.n)][side]
BlackNephews == ~ Red(tree, Nephew("left")) /\ ~ Red(tree, Nephew("right"))

RemoveAtRoot ==
    /\ bal.op = "remove" /\ Parent(tree, bal.n) = NULL
    /\ Finish(tree)

RemoveBelowRedSibling ==
    /\ Removing /\ Red(tree, Sibling(tree, bal.n))
    /\ LET p == Parent(tree, bal.n) IN
       tree' = Rotate(Paint(Paint(tree, p, "red"), Sibling(tree, bal.n), "black"),
                      p, Side(tree, bal.n))
    /\ UNCHANGED bal

(* Mutant: the loop stays where it is. *)
RemoveWithoutClimbing ==
    /\ Removing /\ ~ Red(tree, Sibling(tree, bal.n)) /\ BlackNephews
    /\ ~ Red(tree, Parent(tree, bal.n))
    /\ tree' = Paint(tree, Sibling(tree, bal.n), "red")
    /\ UNCHANGED bal

RemoveClimb ==
    /\ Removing /\ ~ Red(tree, Sibling(tree, bal.n)) /\ BlackNephews
    /\ ~ Red(tree, Parent(tree, bal.n))
    /\ tree' = Paint(tree, Sibling(tree, bal.n), "red")
    /\ bal' = [bal EXCEPT !.n = Parent(tree, bal.n)]

RemoveRecolor ==
    /\ Removing /\ ~ Red(tree, Sibling(tree, bal.n)) /\ BlackNephews
    /\ Red(tree, Parent(tree, bal.n))
    /\ Finish(Paint(Paint(tree, Sibling(tree, bal.n), "red"), Parent(tree, bal.n), "black"))

(* Mutant: the sibling keeps its color when it takes the parent's place. *)
RemoveRotateUnpainted ==
    /\ Removing /\ ~ Red(tree, Sibling(tree, bal.n)) /\ ~ BlackNephews
    /\ LET p == Parent(tree, bal.n)
           s == Sibling(tree, bal.n)
           side == Side(tree, bal.n)
           t1 == IF Red(tree, Nephew(Opposite(side))) THEN tree
                 ELSE Rotate(Paint(Paint(tree, s, "red"), Nephew(side), "black"),
                             s, Opposite(side))
           top == Sibling(t1, bal.n)
       IN  Finish(Rotate(Paint(Paint(t1, p, "black"),
                               t1.node[top][Opposite(side)], "black"),
                         p, side))

RemoveRotate ==
    /\ Removing /\ ~ Red(tree, Sibling(tree, bal.n)) /\ ~ BlackNephews
    /\ LET p == Parent(tree, bal.n)
           s == Sibling(tree, bal.n)
           side == Side(tree, bal.n)
           t1 == IF Red(tree, Nephew(Opposite(side))) THEN tree
                 ELSE Rotate(Paint(Paint(tree, s, "red"), Nephew(side), "black"),
                             s, Opposite(side))
           top == Sibling(t1, bal.n)
       IN  Finish(Rotate(Paint(Paint(Paint(t1, top, Color(t1, p)), p, "black"),
                               t1.node[top][Opposite(side)], "black"),
                         p, side))

-----------------------------------------------------------------------------
RbInit ==
    /\ tree = [root |-> NULL, node |-> [n \in {} |-> Leaf(NULL, n)]]
    /\ bal = Idle

Balance ==
    \/ InsertAtRoot \/ InsertBelowBlack \/ InsertRecolor \/ InsertRotate
    \/ RemoveAtRoot \/ RemoveBelowRedSibling \/ RemoveClimb \/ RemoveRecolor \/ RemoveRotate

RbNext ==
    \/ \E k \in Keys : (\E v \in Values : Insert(k, v) \/ Overwrite(k, v)) \/ Remove(k)
    \/ Balance

RbSpec == RbInit /\ [][RbNext]_rbVars

(* The pushes that rb_post_order_iter makes to the first of its stacks. *)
Pushed(n) == IF n = NULL THEN <<>> ELSE <<n>>

(* Mutant: a node's left child is on top. *)
PushLeftLast(t, n) == Pushed(t.node[n].right) \o Pushed(t.node[n].left)

PushChildren(t, n) == Pushed(t.node[n].left) \o Pushed(t.node[n].right)

(* rb_post_order_iter: what it leaves on its second stack.  Both stacks    *)
(* are used without frames, and are what module FrameStack promises.       *)
PostOrderIter(t) ==
    LET iter[s \in [tmp_stack : Seq(Nodes(t)), stack : Seq(Nodes(t))]] ==
          IF s.tmp_stack = <<>> THEN s.stack
          ELSE LET n == s.tmp_stack[Len(s.tmp_stack)]
                   rest == SubSeq(s.tmp_stack, 1, Len(s.tmp_stack) - 1)
               IN  iter[[tmp_stack |-> rest \o PushChildren(t, n), stack |-> Append(s.stack, n)]]
    IN  iter[[tmp_stack |-> Pushed(t.root), stack |-> <<>>]]

-----------------------------------------------------------------------------
(* Every pointer is NULL or a linked node, the phantom is linked only      *)
(* while a removal is being balanced, and so is the node of `bal'.         *)
TreeTypeOK ==
    /\ Nodes(tree) \subseteq Keys \cup (IF bal.op = "remove" THEN {Phantom} ELSE {})
    /\ tree.root \in Nodes(tree) \cup {NULL}
    /\ \A n \in Nodes(tree) :
          /\ {tree.node[n].left, tree.node[n].right, Parent(tree, n)}
                \subseteq Nodes(tree) \cup {NULL}
          /\ Color(tree, n) \in {"red", "black"}
          /\ n # Phantom => tree.node[n].val \in Values
    /\ bal # Idle => bal.op \in {"insert", "remove"} /\ bal.n \in Nodes(tree)

Children(n) == {tree.node[n].left, tree.node[n].right} \ {NULL}

(* Up and down agree, also in the middle of balancing: the children of a   *)
(* node have it as their parent, and every node but the root is the child  *)
(* of its parent.  rb_remove_bal climbs by the parents and unlinks the     *)
(* phantom through its own.                                                *)
ParentsAgree ==
    /\ tree.root # NULL => Parent(tree, tree.root) = NULL
    /\ \A n \in Nodes(tree) :
          /\ \A c \in Children(n) : Parent(tree, c) = n
          /\ n # tree.root => Parent(tree, n) # NULL /\ n \in Children(Parent(tree, n))

(* At no point of any insertion or removal does the order of the tree hide *)
(* a key from a lookup. *)
EveryKeyIsFound == \A k \in Nodes(tree) \ {Phantom} : Found(tree, k)

(* A red node has no red child, but where an insertion is being repaired,  *)
(* and the root is black whenever a call has returned.                     *)
NoRedBelowRed ==
    /\ bal = Idle => ~ Red(tree, tree.root)
    /\ \A n \in Nodes(tree) :
          Red(tree, n) => \A c \in Children(n) : Red(tree, c) => Inserting /\ bal.n = c

(* The black nodes on the way down from n, if all ways agree, else -1.     *)
(* The node that balances a removal counts one more: the one it lacks.     *)
BlackHeight ==
    LET height[n \in Nodes(tree) \cup {NULL}] ==
          IF n = NULL THEN 0
          ELSE LET l == height[tree.node[n].left]
                   r == height[tree.node[n].right]
                   own == (IF Red(tree, n) \/ n = Phantom THEN 0 ELSE 1)
                          + (IF bal.op = "remove" /\ bal.n = n THEN 1 ELSE 0)
               IN  IF l = r /\ l >= 0 THEN l + own ELSE -1
    IN  height

(* All paths from the root have the same number of black nodes, during     *)
(* balancing too: no insertion, no removal unbalances the tree. *)
BlackHeightsAgree == BlackHeight[tree.root] >= 0

(* What comes off the stack that rb_post_order_iter leaves is every node  *)
(* once, each behind all that are below it: to free them in that order     *)
(* never reads a node that is gone.                                        *)
IterationIsPostOrder ==
    bal = Idle =>
        LET order[n \in Nodes(tree) \cup {NULL}] ==
              IF n = NULL THEN <<>>
              ELSE order[tree.node[n].left] \o order[tree.node[n].right] \o <<n>>
            expected == order[tree.root]
            left == PostOrderIter(tree)
        IN  left = [i \in DOMAIN expected |-> expected[Len(expected) - i + 1]]

Contents == [k \in Nodes(tree) \ {Phantom} |-> tree.node[k].val]

Map == INSTANCE KVMap WITH map <- Contents

(* To its users the tree is a map: each call changes one binding, at one   *)
(* step, and balancing changes none.                                       *)
IsMap == Map!MapSpec

Depth(n) ==
    LET depth[m \in Nodes(tree)] == IF Parent(tree, m) = NULL THEN 0 ELSE 1 + depth[Parent(tree, m)]
    IN  depth[n]

(* A bound on the rounds of balancing that are still to come. *)
RoundsLeft ==
    IF Removing /\ Red(tree, Parent(tree, bal.n)) THEN 1 ELSE 1 + Depth(bal.n)

(* Balancing comes to its end, in no more rounds than its node is deep: a  *)
(* round climbs, or turns the parent red, after which there is but one.    *)
BalancingEnds == [][bal # Idle /\ bal' # Idle => RoundsLeft' < RoundsLeft]_rbVars
=============================================================================
