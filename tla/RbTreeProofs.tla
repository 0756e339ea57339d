---------------------------- MODULE RbTreeProofs ----------------------------
(***************************************************************************)
(* What the red-black tree keeps through every insertion and every         *)
(* removal, in the middle of balancing too, for any set of keys.           *)
(***************************************************************************)
EXTENDS RbTree, TLAPS, NaturalsInduction, SequenceTheorems, WellFoundedInduction

Sides  == {"left", "right"}
Fields == Sides \cup {"parent", "color", "val"}

At(t, x, f) == t.node[x][f]

(* A tree has a root and nodes, a node has its fields.                     *)
Form(t) ==
    /\ DOMAIN t = {"root", "node"}
    /\ \A x \in Nodes(t) : DOMAIN t.node[x] = Fields

(* One field of one node is written.                                       *)
Put(t, x, f, v) == [t EXCEPT !.node[x][f] = v]

(* That field is all that differs then.                                    *)
LEMMA PutEffect ==
    ASSUME NEW t, Form(t), NEW x \in Nodes(t), NEW f \in Fields, NEW v
    PROVE  LET u == Put(t, x, f, v)
           IN  /\ Form(u) /\ Nodes(u) = Nodes(t) /\ u.root = t.root
               /\ \A y \in Nodes(t), g \in Fields :
                     At(u, y, g) = IF y = x /\ g = f THEN v ELSE At(t, y, g)
<1> DEFINE r == [t.node[x] EXCEPT ![f] = v]
           m == [t.node EXCEPT ![x] = r]
           u == Put(t, x, f, v)
<1>1. u = [t EXCEPT !.node = m]
  BY DEF Put
<1>2. DOMAIN r = Fields /\ \A g \in Fields : r[g] = IF g = f THEN v ELSE t.node[x][g]
  BY DEF Form
<1> HIDE DEF r
<1>3. DOMAIN m = Nodes(t) /\ \A y \in Nodes(t) : m[y] = IF y = x THEN r ELSE t.node[y]
  BY DEF Nodes
<1> HIDE DEF m
<1>4. DOMAIN u = {"root", "node"} /\ u.node = m /\ u.root = t.root
  BY <1>1 DEF Form
<1> HIDE DEF u
<1>5. Nodes(u) = Nodes(t)
  BY <1>3, <1>4 DEF Nodes
<1>6. Form(u)
  BY <1>2, <1>3, <1>4, <1>5 DEF Form
<1>7. \A y \in Nodes(t), g \in Fields : At(u, y, g) = IF y = x /\ g = f THEN v ELSE At(t, y, g)
  BY <1>2, <1>3, <1>4 DEF At
<1> QED
  BY <1>4, <1>5, <1>6, <1>7 DEF u

(* The writes of the tree, in these terms.                                 *)
LEMMA PaintIsPut ==
    ASSUME NEW t, NEW x, NEW c
    PROVE  Paint(t, x, c) = Put(t, x, "color", c)
  BY DEF Paint, Put

(* A child is written.                                                     *)
LEMMA SetChildIsPut ==
    ASSUME NEW t, NEW x, NEW s, NEW c
    PROVE  SetChild(t, x, s, c) = Put(t, x, s, c)
  BY DEF SetChild, Put

(* The parent of a node is written.                                        *)
LEMMA SetParentIsPut ==
    ASSUME NEW t, NEW x, NEW p
    PROVE  SetParent(t, x, p) = IF x = NULL THEN t ELSE Put(t, x, "parent", p)
  BY DEF SetParent, Put

(* The pointer that leads to x is written: t and u differ in nothing else. *)
LEMMA RedirectEffect ==
    ASSUME NEW t, Form(t), NEW x \in Nodes(t), NEW q, q = At(t, x, "parent"),
           q = NULL \/ q \in Nodes(t), NULL \notin Nodes(t), NEW new,
           NEW u, u = Redirect(t, x, new)
    PROVE  /\ Form(u) /\ Nodes(u) = Nodes(t)
           /\ u.root = IF q = NULL THEN new ELSE t.root
           /\ q # NULL => Side(t, x) \in Sides
           /\ \A y \in Nodes(t), g \in Fields :
                 At(u, y, g) = IF q # NULL /\ y = q /\ g = Side(t, x) THEN new ELSE At(t, y, g)
<1>1. q = Parent(t, x)
  BY DEF Parent, At
<1>2. CASE q = NULL
  <2>1. u = [t EXCEPT !.root = new]
    BY <1>1, <1>2 DEF Redirect
  <2>2. DOMAIN u = {"root", "node"} /\ u.root = new /\ u.node = t.node
    BY <2>1 DEF Form
  <2> QED
    BY <1>2, <2>2 DEF Form, Nodes, At
<1>3. CASE q # NULL
  <2>1. Side(t, x) \in Sides
    BY DEF Side, Sides
  <2>2. u = Put(t, q, Side(t, x), new)
    BY <1>1, <1>3, SetChildIsPut DEF Redirect
  <2>3. Side(t, x) \in Fields /\ q \in Nodes(t)
    BY <1>3, <2>1 DEF Fields
  <2> QED
    BY <1>3, <2>1, <2>2, <2>3, PutEffect
<1> QED
  BY <1>2, <1>3

(* What a rotation does: n goes down to side s, its other child comes up.  *)
Turned(t, u, n, s) ==
    LET o     == Opposite(s)
        up    == At(t, n, o)
        inner == At(t, up, s)
        q     == At(t, n, "parent")
    IN  /\ Form(u) /\ Nodes(u) = Nodes(t)
        /\ u.root = IF q = NULL THEN up ELSE t.root
        /\ At(u, n, o) = inner /\ At(u, n, s) = At(t, n, s) /\ At(u, n, "parent") = up
        /\ At(u, up, s) = n /\ At(u, up, o) = At(t, up, o) /\ At(u, up, "parent") = q
        /\ inner # NULL => /\ At(u, inner, "parent") = n
                           /\ \A d \in Sides : At(u, inner, d) = At(t, inner, d)
        /\ q # NULL => /\ Side(t, n) \in Sides
                       /\ At(u, q, Side(t, n)) = up
                       /\ \A g \in Sides \cup {"parent"} :
                             g # Side(t, n) => At(u, q, g) = At(t, q, g)
        /\ \A y \in Nodes(t) \ {n, up, inner, q} :
              \A g \in Sides \cup {"parent"} : At(u, y, g) = At(t, y, g)
        /\ \A y \in Nodes(t) : At(u, y, "color") = At(t, y, "color") /\ At(u, y, "val") = At(t, y, "val")

(* The pointers that a rotation writes, and no others, lead elsewhere.     *)
LEMMA RotateEffect ==
    ASSUME NEW t, Form(t), NULL \notin Nodes(t), NEW n \in Nodes(t), NEW s \in Sides,
           NEW up \in Nodes(t), up = At(t, n, Opposite(s)),
           NEW inner, inner = At(t, up, s), inner = NULL \/ inner \in Nodes(t),
           NEW q, q = At(t, n, "parent"), q = NULL \/ q \in Nodes(t),
           n # up, n # inner, up # inner, q # n, q # up, inner # NULL => q # inner
    PROVE  Turned(t, Rotate(t, n, s), n, s)
<1>1. PICK o : o = Opposite(s)
  OBVIOUS
<1>2. o \in Sides /\ o # s /\ s \in Fields /\ o \in Fields /\ "parent" \in Fields
      /\ s # "parent" /\ o # "parent"
  BY <1>1 DEF Sides, Fields, Opposite
<1>3. PICK a : a = SetChild(t, n, o, inner)
  OBVIOUS
<1>4. /\ Form(a) /\ Nodes(a) = Nodes(t) /\ a.root = t.root
      /\ \A y \in Nodes(t), g \in Fields :
            At(a, y, g) = IF y = n /\ g = o THEN inner ELSE At(t, y, g)
  BY <1>2, <1>3, SetChildIsPut, PutEffect
<1>5. PICK b : b = SetParent(a, inner, n)
  OBVIOUS
<1>6. /\ Form(b) /\ Nodes(b) = Nodes(t) /\ b.root = t.root
      /\ \A y \in Nodes(t), g \in Fields :
            At(b, y, g) = IF inner # NULL /\ y = inner /\ g = "parent" THEN n ELSE At(a, y, g)
  <2>1. CASE inner = NULL
    BY <1>4, <1>5, <2>1, SetParentIsPut
  <2>2. CASE inner # NULL
    <3>1. b = Put(a, inner, "parent", n)
      BY <1>5, <2>2, SetParentIsPut
    <3> QED
      BY <1>2, <1>4, <2>2, <3>1, PutEffect
  <2> QED
    BY <2>1, <2>2
<1>7. At(b, n, "parent") = q
  BY <1>2, <1>4, <1>6
<1>8. q # NULL => Side(b, n) = Side(t, n)
  <2>1. SUFFICES ASSUME q # NULL PROVE Side(b, n) = Side(t, n)
    OBVIOUS
  <2>2. At(b, q, "left") = At(t, q, "left")
    BY <1>2, <1>4, <1>6, <2>1 DEF Sides, Fields
  <2>3. Parent(b, n) = q /\ Parent(t, n) = q
    BY <1>7 DEF Parent, At
  <2> QED
    BY <2>2, <2>3 DEF Side, At
<1>9. PICK c : c = Redirect(b, n, up)
  OBVIOUS
<1>10. /\ Form(c) /\ Nodes(c) = Nodes(t)
       /\ c.root = IF q = NULL THEN up ELSE t.root
       /\ q # NULL => Side(t, n) \in Sides
       /\ \A y \in Nodes(t), g \in Fields :
             At(c, y, g) = IF q # NULL /\ y = q /\ g = Side(t, n) THEN up ELSE At(b, y, g)
  BY <1>6, <1>7, <1>8, <1>9, RedirectEffect
<1>11. PICK d : d = SetParent(c, up, q)
  OBVIOUS
<1>12. /\ Form(d) /\ Nodes(d) = Nodes(t) /\ d.root = c.root
       /\ \A y \in Nodes(t), g \in Fields :
             At(d, y, g) = IF y = up /\ g = "parent" THEN q ELSE At(c, y, g)
  <2>1. d = Put(c, up, "parent", q)
    BY <1>11, SetParentIsPut
  <2> QED
    BY <1>2, <1>10, <2>1, PutEffect
<1>13. PICK e : e = SetChild(d, up, s, n)
  OBVIOUS
<1>14. /\ Form(e) /\ Nodes(e) = Nodes(t) /\ e.root = c.root
       /\ \A y \in Nodes(t), g \in Fields :
             At(e, y, g) = IF y = up /\ g = s THEN n ELSE At(d, y, g)
  BY <1>2, <1>12, <1>13, SetChildIsPut, PutEffect
<1>15. PICK u : u = SetParent(e, n, up)
  OBVIOUS
<1>16. /\ Form(u) /\ Nodes(u) = Nodes(t) /\ u.root = c.root
       /\ \A y \in Nodes(t), g \in Fields :
             At(u, y, g) = IF y = n /\ g = "parent" THEN up ELSE At(e, y, g)
  <2>1. u = Put(e, n, "parent", up)
    BY <1>15, SetParentIsPut
  <2> QED
    BY <1>2, <1>14, <2>1, PutEffect
<1>17. Rotate(t, n, s) = u
  BY <1>1, <1>3, <1>5, <1>9, <1>11, <1>13, <1>15 DEF Rotate, At, Parent
<1>18. Side(t, n) \in Sides /\ Sides \cup {"parent"} \subseteq Fields
       /\ "parent" \notin Sides /\ "color" \in Fields /\ "val" \in Fields
       /\ "color" \notin Sides \cup {"parent"} /\ "val" \notin Sides \cup {"parent"}
  BY DEF Side, Sides, Fields
<1>19. Turned(t, u, n, s)
  <2>1. /\ At(u, n, o) = inner /\ At(u, n, s) = At(t, n, s) /\ At(u, n, "parent") = up
    BY <1>2, <1>4, <1>6, <1>10, <1>12, <1>14, <1>16
  <2>2. At(u, up, s) = n /\ At(u, up, o) = At(t, up, o) /\ At(u, up, "parent") = q
    BY <1>2, <1>4, <1>6, <1>10, <1>12, <1>14, <1>16
  <2>3. inner # NULL => /\ At(u, inner, "parent") = n
                        /\ \A g \in Sides : At(u, inner, g) = At(t, inner, g)
    BY <1>2, <1>4, <1>6, <1>10, <1>12, <1>14, <1>16, <1>18
  <2>4. q # NULL => /\ At(u, q, Side(t, n)) = up
                    /\ \A g \in Sides \cup {"parent"} :
                          g # Side(t, n) => At(u, q, g) = At(t, q, g)
    BY <1>2, <1>4, <1>6, <1>10, <1>12, <1>14, <1>16, <1>18
  <2>5. \A y \in Nodes(t) \ {n, up, inner, q} :
           \A g \in Sides \cup {"parent"} : At(u, y, g) = At(t, y, g)
    BY <1>2, <1>4, <1>6, <1>10, <1>12, <1>14, <1>16, <1>18
  <2>6. \A y \in Nodes(t) : At(u, y, "color") = At(t, y, "color") /\ At(u, y, "val") = At(t, y, "val")
    BY <1>2, <1>4, <1>6, <1>10, <1>12, <1>14, <1>16, <1>18
  <2> QED
    BY <1>1, <1>10, <1>16, <1>18, <2>1, <2>2, <2>3, <2>4, <2>5, <2>6 DEF Turned
<1> QED
  BY <1>17, <1>19

-----------------------------------------------------------------------------
(* Pointers up and down.                                                   *)

Links(t) ==
    /\ Nodes(t) \subseteq (Nat \ {0}) \cup {Phantom}
    /\ t.root \in Nodes(t) \cup {NULL}
    /\ t.root = NULL => Nodes(t) = {}
    /\ \A x \in Nodes(t) :
          /\ At(t, x, "parent") \in Nodes(t) \cup {NULL}
          /\ At(t, x, "parent") = NULL <=> x = t.root
          /\ x # t.root => \E d \in Sides : At(t, At(t, x, "parent"), d) = x
          /\ \A d \in Sides :
                /\ At(t, x, d) \in Nodes(t) \cup {NULL}
                /\ At(t, x, d) # NULL => At(t, At(t, x, d), "parent") = x
                /\ x = Phantom => At(t, x, d) = NULL

(* The order of the keys: every node has an interval, all of the numbers   *)
(* below `top' at the root, which it divides between its children.  The    *)
(* keys are within their intervals.                                        *)
Order(t, b, top) ==
    /\ top \in Nat
    /\ b \in [Nodes(t) -> [Sides -> Int]]
    /\ \A x \in Nodes(t) :
          /\ 0 <= b[x]["left"] /\ b[x]["left"] < b[x]["right"] /\ b[x]["right"] <= top
          /\ x # Phantom => b[x]["left"] < x /\ x < b[x]["right"]
          /\ \A d \in Sides : At(t, x, d) # NULL =>
                b[At(t, x, d)][d] = b[x][d] /\ b[At(t, x, d)][Opposite(d)] = x
    /\ t.root # NULL => b[t.root]["left"] = 0 /\ b[t.root]["right"] = top

Tree(t, b, top) == Form(t) /\ Links(t) /\ Order(t, b, top)

Width(b, x) == b[x]["right"] - b[x]["left"]

(* The sides.                                                              *)
LEMMA SidesFacts ==
    /\ \A d \in Sides : Opposite(d) \in Sides /\ Opposite(d) # d /\ Opposite(Opposite(d)) = d
    /\ \A d, e \in Sides : e = d \/ e = Opposite(d)
    /\ Sides \subseteq Fields /\ "parent" \notin Sides /\ {"parent", "color", "val"} \subseteq Fields
    /\ "left" \in Sides /\ "right" \in Sides
    /\ Opposite("left") = "right" /\ Opposite("right") = "left"
    /\ "color" \notin Sides /\ "val" \notin Sides
  BY DEF Sides, Fields, Opposite

(* A child has a part of the interval of its parent.                       *)
LEMMA ChildFacts ==
    ASSUME NEW t, NEW b, NEW top, Tree(t, b, top), NEW x \in Nodes(t), NEW d \in Sides,
           NEW c, c = At(t, x, d), c # NULL
    PROVE  /\ c \in Nodes(t) /\ c # x /\ x \in Nat \ {0} /\ x # Phantom
           /\ c # t.root /\ At(t, c, "parent") = x
           /\ b[c][d] = b[x][d] /\ b[c][Opposite(d)] = x
           /\ Width(b, c) \in Nat /\ Width(b, x) \in Nat /\ Width(b, c) < Width(b, x)
<1>1. c \in Nodes(t) /\ At(t, c, "parent") = x /\ x # Phantom /\ x \in Nat \ {0}
  BY DEF Tree, Links
<1>2. c # t.root
  BY <1>1 DEF Tree, Links, NULL
<1>3. b[c][d] = b[x][d] /\ b[c][Opposite(d)] = x
  BY DEF Tree, Order
<1>4. /\ b[x]["left"] \in Int /\ b[x]["right"] \in Int /\ b[c]["left"] \in Int /\ b[c]["right"] \in Int
      /\ b[x]["left"] < x /\ x < b[x]["right"] /\ b[c]["left"] < b[c]["right"]
      /\ x \in Int
  BY <1>1, SidesFacts DEF Tree, Order
<1>5. d = "left" \/ d = "right"
  BY DEF Sides
<1>6. Width(b, c) \in Nat /\ Width(b, x) \in Nat /\ Width(b, c) < Width(b, x)
  BY <1>3, <1>4, <1>5, SidesFacts DEF Width
<1>7. c # x
  BY <1>6
<1> QED
  BY <1>1, <1>2, <1>3, <1>6, <1>7

(* The two children of a node are not the same node.                       *)
LEMMA ChildrenDiffer ==
    ASSUME NEW t, NEW b, NEW top, Tree(t, b, top), NEW x \in Nodes(t), NEW d \in Sides,
           At(t, x, d) # NULL
    PROVE  At(t, x, d) # At(t, x, Opposite(d))
<1> DEFINE c == At(t, x, d)
<1>1. SUFFICES ASSUME c = At(t, x, Opposite(d)) PROVE FALSE
  OBVIOUS
<1>2. c \in Nodes(t) /\ b[c][Opposite(d)] = x
  BY ChildFacts
<1>3. b[c][d] = x
  BY <1>1, ChildFacts, SidesFacts
<1>4. b[c]["left"] < b[c]["right"] /\ b[c]["left"] = b[c]["right"] /\ b[c]["left"] \in Int
  <2>1. b[c]["left"] = x /\ b[c]["right"] = x
    BY <1>2, <1>3, SidesFacts DEF Sides
  <2> QED
    BY <1>2, <2>1, SidesFacts DEF Tree, Order
<1> QED
  BY <1>4

(* Who is around a node that is rotated.                                   *)
LEMMA Around ==
    ASSUME NEW t, NEW b, NEW top, Tree(t, b, top), NEW n \in Nodes(t), NEW s \in Sides,
           NEW up, up = At(t, n, Opposite(s)), up # NULL,
           NEW inner, inner = At(t, up, s), NEW q, q = At(t, n, "parent")
    PROVE  /\ NULL \notin Nodes(t) /\ up \in Nodes(t)
           /\ inner = NULL \/ inner \in Nodes(t)
           /\ q = NULL \/ q \in Nodes(t)
           /\ n # up /\ n # inner /\ up # inner /\ q # n /\ q # up
           /\ inner # NULL => q # inner
           /\ q # NULL => At(t, q, Side(t, n)) = n /\ Side(t, n) \in Sides
<1>1. NULL \notin Nodes(t)
  BY DEF Tree, Links, NULL, Phantom
<1>2. up \in Nodes(t) /\ n # up /\ Width(b, up) < Width(b, n) /\ Width(b, n) \in Nat
      /\ Width(b, up) \in Nat
  BY ChildFacts, SidesFacts
<1>3. inner # NULL => /\ inner \in Nodes(t) /\ Width(b, inner) < Width(b, up)
                      /\ Width(b, inner) \in Nat
  BY <1>2, ChildFacts
<1>4. q # NULL => /\ q \in Nodes(t) /\ Width(b, n) < Width(b, q) /\ Width(b, q) \in Nat
                  /\ At(t, q, Side(t, n)) = n /\ Side(t, n) \in Sides
  <2>1. SUFFICES ASSUME q # NULL
                 PROVE  /\ q \in Nodes(t) /\ Width(b, n) < Width(b, q) /\ Width(b, q) \in Nat
                        /\ At(t, q, Side(t, n)) = n /\ Side(t, n) \in Sides
    OBVIOUS
  <2>2. q \in Nodes(t) /\ n # t.root
    BY <2>1 DEF Tree, Links
  <2>3. PICK d \in Sides : At(t, q, d) = n
    BY <2>2 DEF Tree, Links
  <2>4. Width(b, n) < Width(b, q) /\ Width(b, q) \in Nat
    BY <1>1, <2>2, <2>3, ChildFacts
  <2>5. Parent(t, n) = q
    BY DEF Parent, At
  <2>6. Side(t, n) \in Sides
    BY DEF Side, Sides
  <2>7. At(t, q, Side(t, n)) = n
    BY <2>3, <2>5 DEF Side, At, Sides
  <2> QED
    BY <2>2, <2>4, <2>6, <2>7
<1> QED
  BY <1>1, <1>2, <1>3, <1>4

(* The intervals after a rotation.                                         *)
TurnedOrder(b, n, up, s) ==
    [x \in DOMAIN b |->
       IF x = up THEN b[n]
       ELSE IF x = n THEN [d \in Sides |-> IF d = s THEN b[n][s] ELSE up]
       ELSE b[x]]

(* Which pointers a rotation changes.                                      *)
LEMMA TurnedFacts ==
    ASSUME NEW t, NEW b, NEW top, Tree(t, b, top), NEW n \in Nodes(t), NEW s \in Sides,
           NEW up, up = At(t, n, Opposite(s)), up # NULL, NEW u, Turned(t, u, n, s),
           NEW o, o = Opposite(s), NEW inner, inner = At(t, up, s),
           NEW q, q = At(t, n, "parent"), NEW z, z = Side(t, n)
    PROVE  /\ \A k \in Nodes(t) \ {n, up, inner} : At(u, k, "parent") = At(t, k, "parent")
           /\ \A y \in Nodes(t), d \in Sides :
                 (y = n => d # o) /\ (y = up => d # s) /\ (y = q => d # z) =>
                    /\ At(u, y, d) = At(t, y, d)
                    /\ At(t, y, d) # NULL => /\ At(t, y, d) \in Nodes(t) \ {n, up, inner}
                                            /\ At(t, At(t, y, d), "parent") = y
<1>1. o \in Sides /\ o # s /\ s = Opposite(o) /\ \A d \in Sides : d = s \/ d = o
  BY SidesFacts
<1>2. /\ NULL \notin Nodes(t) /\ up \in Nodes(t)
      /\ inner = NULL \/ inner \in Nodes(t)
      /\ q = NULL \/ q \in Nodes(t)
      /\ n # up /\ n # inner /\ up # inner /\ q # n /\ q # up
      /\ inner # NULL => q # inner
      /\ q # NULL => At(t, q, z) = n /\ z \in Sides
  BY Around
<1>3. /\ Form(u) /\ Nodes(u) = Nodes(t)
      /\ u.root = IF q = NULL THEN up ELSE t.root
      /\ At(u, n, o) = inner /\ At(u, n, s) = At(t, n, s) /\ At(u, n, "parent") = up
      /\ At(u, up, s) = n /\ At(u, up, o) = At(t, up, o) /\ At(u, up, "parent") = q
      /\ inner # NULL => At(u, inner, "parent") = n
      /\ q # NULL => At(u, q, z) = up
  BY DEF Turned
<1>4. \A k \in Nodes(t) \ {n, up, inner} : At(u, k, "parent") = At(t, k, "parent")
  BY <1>2, SidesFacts DEF Turned
<1>5. \A y \in Nodes(t), d \in Sides :
         (y = n => d # o) /\ (y = up => d # s) /\ (y = q => d # z) => At(u, y, d) = At(t, y, d)
  <2> SUFFICES ASSUME NEW y \in Nodes(t), NEW d \in Sides,
                      y = n => d # o, y = up => d # s, y = q => d # z
               PROVE  At(u, y, d) = At(t, y, d)
    OBVIOUS
  <2>1. CASE y = n \/ y = up
    BY <1>1, <1>3, <2>1
  <2>2. CASE y = inner
    BY <1>2, <2>2 DEF Turned
  <2>3. CASE y = q
    BY <1>2, <2>3 DEF Turned
  <2>4. CASE y \notin {n, up, inner, q}
    BY <2>4 DEF Turned
  <2> QED
    BY <2>1, <2>2, <2>3, <2>4
<1>6. At(t, n, o) = up /\ At(t, up, "parent") = n /\ (inner # NULL => At(t, inner, "parent") = up)
       /\ up # t.root /\ (inner # NULL => inner # t.root)
  BY <1>1, <1>2, ChildFacts
<1>7. \A y \in Nodes(t), d \in Sides :
          (y = n => d # o) /\ (y = up => d # s) /\ (y = q => d # z) /\ At(t, y, d) # NULL
             => At(t, y, d) \in Nodes(t) \ {n, up, inner} /\ At(t, At(t, y, d), "parent") = y
  <2> SUFFICES ASSUME NEW y \in Nodes(t), NEW d \in Sides,
                      y = n => d # o, y = up => d # s, y = q => d # z,
                      NEW k, k = At(t, y, d), k # NULL
               PROVE  k \in Nodes(t) \ {n, up, inner} /\ At(t, k, "parent") = y
    OBVIOUS
  <2>1. k \in Nodes(t) /\ At(t, k, "parent") = y
    BY ChildFacts
  <2>2. k # n
    <3>1. SUFFICES ASSUME k = n PROVE FALSE
      OBVIOUS
    <3>2. y = q /\ d # z /\ q # NULL
      BY <1>2, <2>1, <3>1
    <3>3. At(t, q, z) = n /\ z \in Sides /\ d = Opposite(z)
      BY <1>2, <3>2, SidesFacts
    <3> QED
      BY <1>2, <3>1, <3>2, <3>3, ChildrenDiffer
  <2>3. k # up
    <3>1. SUFFICES ASSUME k = up PROVE FALSE
      OBVIOUS
    <3>2. y = n /\ d = s
      BY <1>1, <1>6, <2>1, <3>1
    <3> QED
      BY <1>6, <3>1, <3>2, ChildrenDiffer
  <2>4. k # inner
    <3>1. SUFFICES ASSUME k = inner PROVE FALSE
      OBVIOUS
    <3>2. y = up /\ d = o
      BY <1>1, <1>6, <2>1, <3>1
    <3> QED
      BY <1>2, <3>1, <3>2, ChildrenDiffer
  <2> QED
    BY <2>1, <2>2, <2>3, <2>4
<1> QED
  BY <1>4, <1>5, <1>7

(* A rotation leaves a tree, in which every key has its place.             *)
LEMMA TurnedTree ==
    ASSUME NEW t, NEW b, NEW top, Tree(t, b, top), NEW n \in Nodes(t), NEW s \in Sides,
           NEW up, up = At(t, n, Opposite(s)), up # NULL, up # Phantom,
           NEW u, Turned(t, u, n, s)
    PROVE  Tree(u, TurnedOrder(b, n, up, s), top)
<1>1. PICK o : o = Opposite(s)
  OBVIOUS
<1>2. PICK inner : inner = At(t, up, s)
  OBVIOUS
<1>3. PICK q : q = At(t, n, "parent")
  OBVIOUS
<1>4. PICK z : z = Side(t, n)
  OBVIOUS
<1>5. o \in Sides /\ o # s /\ s = Opposite(o) /\ \A d \in Sides : d = s \/ d = o
  BY <1>1, SidesFacts
<1>6. /\ NULL \notin Nodes(t) /\ up \in Nodes(t)
      /\ inner = NULL \/ inner \in Nodes(t)
      /\ q = NULL \/ q \in Nodes(t)
      /\ n # up /\ n # inner /\ up # inner /\ q # n /\ q # up
      /\ inner # NULL => q # inner
      /\ q # NULL => At(t, q, z) = n /\ z \in Sides
  BY <1>2, <1>3, <1>4, Around
<1>7. /\ Form(u) /\ Nodes(u) = Nodes(t)
      /\ u.root = IF q = NULL THEN up ELSE t.root
      /\ At(u, n, o) = inner /\ At(u, n, s) = At(t, n, s) /\ At(u, n, "parent") = up
      /\ At(u, up, s) = n /\ At(u, up, o) = At(t, up, o) /\ At(u, up, "parent") = q
      /\ inner # NULL => At(u, inner, "parent") = n
      /\ q # NULL => At(u, q, z) = up
  BY <1>1, <1>2, <1>3, <1>4 DEF Turned
<1>8. \A k \in Nodes(t) \ {n, up, inner} : At(u, k, "parent") = At(t, k, "parent")
  BY <1>1, <1>2, <1>3, <1>4, TurnedFacts
<1>9. \A y \in Nodes(t), d \in Sides :
         (y = n => d # o) /\ (y = up => d # s) /\ (y = q => d # z) => At(u, y, d) = At(t, y, d)
  BY <1>1, <1>2, <1>3, <1>4, TurnedFacts
<1>10. At(t, n, o) = up /\ At(t, up, "parent") = n /\ (inner # NULL => At(t, inner, "parent") = up)
       /\ up # t.root /\ (inner # NULL => inner # t.root)
  BY <1>1, <1>2, <1>5, <1>6, ChildFacts
<1>11. \A y \in Nodes(t), d \in Sides :
          (y = n => d # o) /\ (y = up => d # s) /\ (y = q => d # z) /\ At(t, y, d) # NULL
             => At(t, y, d) \in Nodes(t) \ {n, up, inner} /\ At(t, At(t, y, d), "parent") = y
  BY <1>1, <1>2, <1>3, <1>4, TurnedFacts
<1> DEFINE e == TurnedOrder(b, n, up, s)
<1>12. /\ DOMAIN b = Nodes(t) /\ e[up] = b[n]
       /\ e[n] = [d \in Sides |-> IF d = s THEN b[n][s] ELSE up]
       /\ \A y \in Nodes(t) \ {n, up} : e[y] = b[y]
  BY <1>6 DEF Tree, Order, TurnedOrder
<1>13. e[n][s] = b[n][s] /\ e[n][o] = up /\ e[n] \in [Sides -> Int]
  <2>1. up \in Int /\ b[n][s] \in Int
    BY <1>6 DEF Tree, Order, Links, Phantom
  <2> QED
    BY <1>5, <1>12, <2>1
<1>14. e \in [Nodes(t) -> [Sides -> Int]]
  <2>1. e = [x \in Nodes(t) |-> e[x]]
    BY <1>12 DEF TurnedOrder
  <2>2. \A x \in Nodes(t) : e[x] \in [Sides -> Int]
    BY <1>12, <1>13 DEF Tree, Order
  <2> HIDE DEF e
  <2> QED
    BY <2>1, <2>2
<1> HIDE DEF e
<1>15. b[up][o] = b[n][o] /\ b[up][s] = n
  BY <1>1, <1>5, <1>6, <1>10, ChildFacts
<1>16. inner # NULL => b[inner][s] = n /\ b[inner][o] = up
  BY <1>1, <1>2, <1>6, <1>15, ChildFacts
<1>17. q # NULL => b[n][z] = b[q][z] /\ b[n][Opposite(z)] = q
  BY <1>3, <1>6, ChildFacts
<1>18. Links(u)
  <2>1. \A y \in Nodes(t), d \in Sides :
           /\ At(u, y, d) \in Nodes(t) \cup {NULL}
           /\ At(u, y, d) # NULL => At(u, At(u, y, d), "parent") = y
    <3> TAKE y \in Nodes(t), d \in Sides
    <3>1. CASE y = n /\ d = o
      BY <1>6, <1>7, <3>1
    <3>2. CASE y = up /\ d = s
      BY <1>6, <1>7, <3>2
    <3>3. CASE y = q /\ d = z
      BY <1>6, <1>7, <3>3
    <3>4. CASE (y = n => d # o) /\ (y = up => d # s) /\ (y = q => d # z)
      <4>1. At(u, y, d) = At(t, y, d)
        BY <1>9, <3>4
      <4>2. At(t, y, d) # NULL =>
               At(t, y, d) \in Nodes(t) \ {n, up, inner} /\ At(t, At(t, y, d), "parent") = y
        BY <1>11, <3>4
      <4> QED
        BY <1>8, <4>1, <4>2
    <3> QED
      BY <3>1, <3>2, <3>3, <3>4
  <2>2. \A d \in Sides : Phantom \in Nodes(t) => At(u, Phantom, d) = NULL
    <3> SUFFICES ASSUME NEW d \in Sides, Phantom \in Nodes(t) PROVE At(u, Phantom, d) = NULL
      OBVIOUS
    <3>1. At(t, Phantom, d) = NULL
      BY DEF Tree, Links
    <3>2. n # Phantom /\ q # Phantom
      BY <1>5, <1>6, <1>10, ChildFacts
    <3> QED
      BY <1>9, <3>1, <3>2
  <2>3. \A x \in Nodes(t) :
           /\ At(u, x, "parent") \in Nodes(t) \cup {NULL}
           /\ At(u, x, "parent") = NULL <=> x = u.root
           /\ x # u.root => \E d \in Sides : At(u, At(u, x, "parent"), d) = x
    <3> TAKE x \in Nodes(t)
    <3>1. CASE x = n
      <4>1. n # u.root
        <5>1. q # NULL => t.root # n
          BY <1>3 DEF Tree, Links
        <5> QED
          BY <1>6, <1>7, <5>1
      <4> QED
        BY <1>6, <1>7, <3>1, <4>1
    <3>2. CASE x = up
      BY <1>6, <1>7, <1>10, <3>2
    <3>3. CASE x = inner
      <4>1. inner # u.root
        BY <1>6, <1>7, <1>10, <3>3
      <4> QED
        BY <1>5, <1>6, <1>7, <3>3, <4>1
    <3>4. CASE x \notin {n, up, inner}
      <4>1. At(u, x, "parent") = At(t, x, "parent")
        BY <1>8, <3>4
      <4>2. x = u.root <=> x = t.root
        <5>1. q = NULL <=> t.root = n
          BY <1>3 DEF Tree, Links
        <5> QED
          BY <1>7, <3>4, <5>1
      <4>3. ASSUME x # t.root PROVE \E d \in Sides : At(u, At(u, x, "parent"), d) = x
        <5>1. PICK p : p = At(t, x, "parent")
          OBVIOUS
        <5>2. PICK d \in Sides : At(t, p, d) = x
          BY <4>3, <5>1 DEF Tree, Links
        <5>3. p \in Nodes(t)
          BY <4>3, <5>1 DEF Tree, Links
        <5>4. (p = n => d # o) /\ (p = up => d # s) /\ (p = q => d # z)
          BY <1>2, <1>6, <1>10, <3>4, <5>2, <5>3
        <5>5. At(u, p, d) = x
          BY <1>9, <5>2, <5>3, <5>4
        <5> QED
          BY <4>1, <5>1, <5>5
      <4> QED
        BY <4>1, <4>2, <4>3 DEF Tree, Links
    <3> QED
      BY <3>1, <3>2, <3>3, <3>4
  <2>4. u.root \in Nodes(t) /\ Nodes(t) # {}
    BY <1>6, <1>7 DEF Tree, Links
  <2> QED
    BY <1>6, <1>7, <2>1, <2>2, <2>3, <2>4 DEF Tree, Links
<1>19. Order(u, e, top)
  <2>1. \A x \in Nodes(t) :
           /\ 0 <= e[x]["left"] /\ e[x]["left"] < e[x]["right"] /\ e[x]["right"] <= top
           /\ x # Phantom => e[x]["left"] < x /\ x < e[x]["right"]
    <3> TAKE x \in Nodes(t)
    <3>1. /\ top \in Nat /\ b[n]["left"] \in Int /\ b[n]["right"] \in Int
          /\ 0 <= b[n]["left"] /\ b[n]["right"] <= top
          /\ b[n]["left"] < n /\ n < b[n]["right"] /\ n \in Int /\ up \in Int
          /\ b[up]["left"] < up /\ up < b[up]["right"]
          /\ b[up]["left"] \in Int /\ b[up]["right"] \in Int
      <4>1. n # Phantom
        BY <1>5, <1>6, <1>10, ChildFacts
      <4> QED
        BY <1>6, <4>1, SidesFacts DEF Tree, Order, Links
    <3>2. CASE s = "left"
      <4>1. o = "right"
        BY <1>1, <3>2, SidesFacts
      <4> QED
        BY <1>12, <1>13, <1>15, <3>1, <3>2, <4>1 DEF Tree, Order
    <3>3. CASE s = "right"
      <4>1. o = "left"
        BY <1>1, <3>3, SidesFacts
      <4> QED
        BY <1>12, <1>13, <1>15, <3>1, <3>3, <4>1 DEF Tree, Order
    <3> QED
      BY <3>2, <3>3 DEF Sides
  <2>2. \A y \in Nodes(t), d \in Sides : At(u, y, d) # NULL =>
           e[At(u, y, d)][d] = e[y][d] /\ e[At(u, y, d)][Opposite(d)] = y
    <3> SUFFICES ASSUME NEW y \in Nodes(t), NEW d \in Sides, At(u, y, d) # NULL
                 PROVE  e[At(u, y, d)][d] = e[y][d] /\ e[At(u, y, d)][Opposite(d)] = y
      OBVIOUS
    <3>1. CASE y = n /\ d = o
      <4>1. inner # NULL /\ e[inner] = b[inner]
        BY <1>6, <1>7, <1>12, <3>1
      <4> QED
        BY <1>5, <1>7, <1>13, <1>16, <3>1, <4>1
    <3>2. CASE y = up /\ d = s
      BY <1>1, <1>7, <1>12, <1>13, <3>2
    <3>3. CASE y = q /\ d = z
      BY <1>6, <1>7, <1>12, <1>17, <3>3
    <3>4. CASE (y = n => d # o) /\ (y = up => d # s) /\ (y = q => d # z)
      <4>1. PICK k : k = At(t, y, d)
        OBVIOUS
      <4>2. At(u, y, d) = k /\ k # NULL
        BY <1>9, <3>4, <4>1
      <4>3. k \in Nodes(t) \ {n, up, inner}
        BY <1>11, <3>4, <4>1, <4>2
      <4>4. b[k][d] = b[y][d] /\ b[k][Opposite(d)] = y
        BY <4>1, <4>2, ChildFacts
      <4>5. e[k] = b[k]
        BY <1>12, <4>3
      <4>6. e[y][d] = b[y][d]
        BY <1>5, <1>12, <1>13, <1>15, <3>4
      <4> QED
        BY <4>2, <4>4, <4>5, <4>6
    <3> QED
      BY <3>1, <3>2, <3>3, <3>4
  <2>3. u.root # NULL => e[u.root]["left"] = 0 /\ e[u.root]["right"] = top
    <3>1. CASE q = NULL
      <4>1. t.root = n /\ n # NULL
        BY <1>3, <1>6, <3>1 DEF Tree, Links
      <4> QED
        BY <1>7, <1>12, <3>1, <4>1 DEF Tree, Order
    <3>2. CASE q # NULL
      <4>1. t.root # n /\ t.root # up /\ t.root \in Nodes(t)
        BY <1>3, <1>10, <3>2 DEF Tree, Links
      <4> QED
        BY <1>6, <1>7, <1>12, <3>2, <4>1 DEF Tree, Order
    <3> QED
      BY <3>1, <3>2
  <2> QED
    BY <1>7, <1>14, <2>1, <2>2, <2>3 DEF Tree, Order
<1> QED
  BY <1>7, <1>18, <1>19 DEF Tree, e

(* The pointers of two trees are the same.                                 *)
SameLinks(t, u) ==
    /\ Form(u) /\ Nodes(u) = Nodes(t) /\ u.root = t.root
    /\ \A y \in Nodes(t), g \in Sides \cup {"parent"} : At(u, y, g) = At(t, y, g)

(* If one of them is a tree, so is the other, with the same order.         *)
LEMMA SameTree ==
    ASSUME NEW t, NEW b, NEW top, Tree(t, b, top), NEW u, SameLinks(t, u)
    PROVE  Tree(u, b, top)
<1>1. Links(u)
  <2>1. \A x \in Nodes(t) : At(t, x, "parent") \in Nodes(t) \cup {NULL}
    BY DEF Tree, Links
  <2>2. \A x \in Nodes(t), d \in Sides : At(t, x, d) \in Nodes(t) \cup {NULL}
    BY DEF Tree, Links
  <2>3. \A x \in Nodes(t) : x # t.root => At(t, x, "parent") \in Nodes(t)
    BY <2>1 DEF Tree, Links
  <2> QED
    BY <2>1, <2>2, <2>3 DEF SameLinks, Tree, Links
<1>2. Order(u, b, top)
  BY DEF SameLinks, Tree, Order
<1> QED
  BY <1>1, <1>2 DEF SameLinks, Tree

(* Paint changes a color and nothing else.                                 *)
LEMMA PaintEffect ==
    ASSUME NEW t, Form(t), NEW x \in Nodes(t), NEW c
    PROVE  LET u == Paint(t, x, c)
           IN  /\ SameLinks(t, u)
               /\ \A y \in Nodes(t) : At(u, y, "color") = IF y = x THEN c ELSE At(t, y, "color")
               /\ \A y \in Nodes(t) : At(u, y, "val") = At(t, y, "val")
<1>1. PICK u : u = Paint(t, x, c)
  OBVIOUS
<1>2. "color" \in Fields /\ "val" \in Fields /\ Sides \cup {"parent"} \subseteq Fields
      /\ "color" \notin Sides \cup {"parent"}
  BY DEF Fields, Sides
<1>3. u = Put(t, x, "color", c)
  BY <1>1, PaintIsPut
<1>4. /\ Form(u) /\ Nodes(u) = Nodes(t) /\ u.root = t.root
      /\ \A y \in Nodes(t), g \in Fields :
            At(u, y, g) = IF y = x /\ g = "color" THEN c ELSE At(t, y, g)
  BY <1>2, <1>3, PutEffect
<1> QED
  BY <1>1, <1>2, <1>4 DEF SameLinks

-----------------------------------------------------------------------------
(* Black nodes on the way down: h counts for every node what the weights w *)
(* add up to on each of the ways down from it.                             *)
Weighted(t, w, h) ==
    /\ w \in [Nodes(t) -> Nat] /\ h \in [Nodes(t) \cup {NULL} -> Nat] /\ h[NULL] = 0
    /\ \A x \in Nodes(t), d \in Sides : h[x] = h[At(t, x, d)] + w[x]

(* A node that weighs nothing takes over the weight of its parent when it  *)
(* is turned up, and its parent weighs nothing then: nobody above notices. *)
LEMMA TurnedWeights ==
    ASSUME NEW t, NEW b, NEW top, Tree(t, b, top), NEW n \in Nodes(t), NEW s \in Sides,
           NEW up, up = At(t, n, Opposite(s)), up # NULL, NEW u, Turned(t, u, n, s),
           NEW w, NEW h, Weighted(t, w, h), w[up] = 0,
           NEW v \in [Nodes(t) -> Nat], v[n] = 0, v[up] = w[n],
           \A x \in Nodes(t) \ {n, up} : v[x] = w[x]
    PROVE  Weighted(u, v, [h EXCEPT ![n] = h[up], ![up] = h[n]])
<1>1. PICK o : o = Opposite(s)
  OBVIOUS
<1>2. PICK inner : inner = At(t, up, s)
  OBVIOUS
<1>3. PICK q : q = At(t, n, "parent")
  OBVIOUS
<1>4. PICK z : z = Side(t, n)
  OBVIOUS
<1>5. o \in Sides /\ o # s /\ s = Opposite(o) /\ \A d \in Sides : d = s \/ d = o
  BY <1>1, SidesFacts
<1>6. /\ NULL \notin Nodes(t) /\ up \in Nodes(t)
      /\ inner = NULL \/ inner \in Nodes(t)
      /\ q = NULL \/ q \in Nodes(t)
      /\ n # up /\ n # inner /\ up # inner /\ q # n /\ q # up
      /\ q # NULL => At(t, q, z) = n /\ z \in Sides
  BY <1>2, <1>3, <1>4, Around
<1>7. /\ Nodes(u) = Nodes(t)
      /\ At(u, n, o) = inner /\ At(u, up, s) = n /\ (q # NULL => At(u, q, z) = up)
  BY <1>1, <1>2, <1>3, <1>4 DEF Turned
<1>8. \A y \in Nodes(t), d \in Sides :
         (y = n => d # o) /\ (y = up => d # s) /\ (y = q => d # z) =>
            /\ At(u, y, d) = At(t, y, d)
            /\ At(t, y, d) # NULL => At(t, y, d) \in Nodes(t) \ {n, up, inner}
  BY <1>1, <1>2, <1>3, <1>4, TurnedFacts
<1> DEFINE g == [h EXCEPT ![n] = h[up], ![up] = h[n]]
<1>9. g \in [Nodes(t) \cup {NULL} -> Nat] /\ g[n] = h[up] /\ g[up] = h[n]
      /\ \A x \in Nodes(t) \cup {NULL} : x \notin {n, up} => g[x] = h[x]
  BY <1>6 DEF Weighted
<1> HIDE DEF g
<1>10. h[n] = h[up] + w[n] /\ h[inner] = h[up] /\ h[At(t, n, s)] = h[up] /\ h[At(t, up, o)] = h[up]
       /\ h[n] \in Nat /\ h[up] \in Nat /\ w[n] \in Nat
  <2>1. h[n] = h[up] + w[n] /\ h[n] = h[At(t, n, s)] + w[n]
    BY <1>1, <1>5 DEF Weighted
  <2>2. h[up] = h[inner] + w[up] /\ h[up] = h[At(t, up, o)] + w[up]
    BY <1>2, <1>5, <1>6 DEF Weighted
  <2>3. At(t, n, s) \in Nodes(t) \cup {NULL} /\ At(t, up, o) \in Nodes(t) \cup {NULL}
    BY <1>5, <1>6 DEF Tree, Links
  <2>4. /\ h[n] \in Nat /\ h[up] \in Nat /\ h[inner] \in Nat /\ h[At(t, n, s)] \in Nat
        /\ h[At(t, up, o)] \in Nat /\ w[n] \in Nat
    BY <1>6, <2>3 DEF Weighted
  <2> QED
    BY <2>1, <2>2, <2>4
<1>11. \A y \in Nodes(t), d \in Sides : g[y] = g[At(u, y, d)] + v[y]
  <2> TAKE y \in Nodes(t), d \in Sides
  <2>1. CASE y = n /\ d = o
    BY <1>6, <1>7, <1>9, <1>10, <2>1
  <2>2. CASE y = up /\ d = s
    BY <1>7, <1>9, <1>10, <2>2
  <2>3. CASE y = q /\ d = z
    <3>1. h[q] = h[n] + w[q] /\ v[q] = w[q] /\ g[q] = h[q] /\ q # NULL
      BY <1>6, <1>9, <2>3 DEF Weighted
    <3> QED
      BY <1>7, <1>9, <2>3, <3>1
  <2>4. CASE (y = n => d # o) /\ (y = up => d # s) /\ (y = q => d # z)
    <3>1. PICK k : k = At(u, y, d)
      OBVIOUS
    <3>2. k = At(t, y, d) /\ g[k] = h[k]
      <4>1. k = At(t, y, d) /\ (k # NULL => k \in Nodes(t) \ {n, up, inner})
        BY <1>8, <2>4, <3>1
      <4> QED
        BY <1>6, <1>9, <4>1
    <3>3. CASE y = n
      BY <1>5, <1>9, <1>10, <2>4, <3>1, <3>2, <3>3
    <3>4. CASE y = up
      BY <1>5, <1>9, <1>10, <2>4, <3>1, <3>2, <3>4
    <3>5. CASE y \notin {n, up}
      BY <1>9, <3>1, <3>2, <3>5 DEF Weighted
    <3> QED
      BY <3>3, <3>4, <3>5
  <2> QED
    BY <2>1, <2>2, <2>3, <2>4
<1>12. g[NULL] = 0
  BY <1>6, <1>9 DEF Weighted
<1> QED
  BY <1>7, <1>9, <1>11, <1>12 DEF Weighted, g

-----------------------------------------------------------------------------
(* Colors.                                                                 *)

IsRed(t, x) == At(t, x, "color") = "red"

(* Node e, if it is one, is counted once more.                             *)
Own(t, e, x) == (IF IsRed(t, x) \/ x = Phantom THEN 0 ELSE 1) + (IF x = e THEN 1 ELSE 0)

Weights(t, e) == [x \in Nodes(t) |-> Own(t, e, x)]

(* No red node has a red child, but for r; if the root is red, it is r.    *)
RedsApart(t, r) ==
    /\ \A x \in Nodes(t), d \in Sides :
          At(t, x, d) # NULL /\ IsRed(t, x) /\ IsRed(t, At(t, x, d)) => At(t, x, d) = r
    /\ t.root # NULL /\ IsRed(t, t.root) => t.root = r

(* What the nodes carry.                                                   *)
Carries(t) ==
    \A x \in Nodes(t) :
       /\ At(t, x, "color") \in {"red", "black"}
       /\ x = Phantom => ~ IsRed(t, x)
       /\ x # Phantom => x \in Keys /\ At(t, x, "val") \in Values

(* A tree in which but for e all ways down have the same number of black   *)
(* nodes, and but for r no two red nodes follow each other.                *)
Sound(t, e, r) ==
    /\ \E b, top : Tree(t, b, top)
    /\ \E h : Weighted(t, Weights(t, e), h)
    /\ RedsApart(t, r)
    /\ Carries(t)

(* Colors as the model asks for them.                                      *)
LEMMA RedIs ==
    ASSUME NEW t, NEW x, x # NULL
    PROVE  Red(t, x) <=> IsRed(t, x)
  BY DEF Red, Color, IsRed, At

(* No node is a black one.                                                 *)
LEMMA NullIsBlack ==
    ASSUME NEW t
    PROVE  ~ Red(t, NULL)
  BY DEF Red, Color

(* Which pointers of u are not those of t, if n goes down to side s.       *)
Swung(t, u, n, s, up) ==
    /\ Nodes(u) = Nodes(t)
    /\ u.root = IF t.root = n THEN up ELSE t.root
    /\ At(u, n, Opposite(s)) = At(t, up, s) /\ At(u, n, s) = At(t, n, s)
    /\ At(u, up, s) = n /\ At(u, up, Opposite(s)) = At(t, up, Opposite(s))
    /\ \A y \in Nodes(t) \ {n, up}, d \in Sides :
          /\ At(u, y, d) = IF At(t, y, d) = n THEN up ELSE At(t, y, d)
          /\ At(t, y, d) # up

(* They are those of a rotation.                                           *)
LEMMA TurnedSwung ==
    ASSUME NEW t, NEW b, NEW top, Tree(t, b, top), NEW n \in Nodes(t), NEW s \in Sides,
           NEW up, up = At(t, n, Opposite(s)), up # NULL, NEW u, Turned(t, u, n, s)
    PROVE  Swung(t, u, n, s, up)
<1>1. PICK o : o = Opposite(s)
  OBVIOUS
<1>2. PICK inner : inner = At(t, up, s)
  OBVIOUS
<1>3. PICK q : q = At(t, n, "parent")
  OBVIOUS
<1>4. PICK z : z = Side(t, n)
  OBVIOUS
<1>5. /\ up \in Nodes(t) /\ n # up /\ o \in Sides
      /\ q # NULL => q \in Nodes(t) /\ At(t, q, z) = n /\ z \in Sides /\ q # n /\ q # up
  BY <1>1, <1>3, <1>4, SidesFacts, Around
<1>6. /\ Nodes(u) = Nodes(t)
      /\ u.root = IF q = NULL THEN up ELSE t.root
      /\ At(u, n, o) = inner /\ At(u, n, s) = At(t, n, s)
      /\ At(u, up, s) = n /\ At(u, up, o) = At(t, up, o)
      /\ q # NULL => At(u, q, z) = up
  BY <1>1, <1>2, <1>3, <1>4 DEF Turned
<1>7. q = NULL <=> t.root = n
  BY <1>3 DEF Tree, Links
<1>8. At(t, up, "parent") = n
  BY <1>1, <1>5, ChildFacts
<1>9. \A y \in Nodes(t) \ {n, up}, d \in Sides :
         /\ At(u, y, d) = IF At(t, y, d) = n THEN up ELSE At(t, y, d)
         /\ At(t, y, d) # up
  <2> TAKE y \in Nodes(t) \ {n, up}, d \in Sides
  <2>1. CASE y = q /\ d = z
    <3>1. q # NULL
      BY <2>1, Around
    <3> QED
      BY <1>5, <1>6, <2>1, <3>1
  <2>2. CASE y = q => d # z
    <3>1. /\ At(u, y, d) = At(t, y, d)
          /\ At(t, y, d) # NULL => At(t, y, d) \in Nodes(t) \ {n, up, inner}
      BY <1>1, <1>2, <1>3, <1>4, <2>2, TurnedFacts
    <3>2. NULL \notin Nodes(t)
      BY Around
    <3> QED
      BY <1>5, <3>1, <3>2
  <2> QED
    BY <2>1, <2>2
<1> QED
  BY <1>1, <1>2, <1>6, <1>7, <1>9 DEF Swung

(* A rotation of a tree p that differs from t in colors and values only.   *)
LEMMA RotateTree ==
    ASSUME NEW t, NEW b, NEW top, Tree(t, b, top), NEW n \in Nodes(t), NEW s \in Sides,
           NEW up, up = At(t, n, Opposite(s)), up # NULL, up # Phantom,
           NEW p, SameLinks(t, p), NEW u, u = Rotate(p, n, s)
    PROVE  /\ Turned(p, u, n, s) /\ Swung(t, u, n, s, up)
           /\ Tree(p, b, top) /\ up = At(p, n, Opposite(s))
           /\ \E c : Tree(u, c, top)
           /\ \A y \in Nodes(t) : At(u, y, "color") = At(p, y, "color") /\ At(u, y, "val") = At(p, y, "val")
           /\ up \in Nodes(t) /\ up # n /\ n # Phantom /\ Nodes(u) = Nodes(t)
<1>1. Tree(p, b, top) /\ Nodes(p) = Nodes(t) /\ p.root = t.root
  BY SameTree DEF SameLinks
<1>2. \A y \in Nodes(t), d \in Sides : At(p, y, d) = At(t, y, d)
  BY DEF SameLinks
<1>3. PICK o : o = Opposite(s)
  OBVIOUS
<1>4. o \in Sides
  BY <1>3, SidesFacts
<1>5. up = At(p, n, Opposite(s))
  BY <1>2, <1>3, <1>4
<1>6. Turned(p, u, n, s)
  <2>1. PICK inner : inner = At(p, up, s)
    OBVIOUS
  <2>2. PICK q : q = At(p, n, "parent")
    OBVIOUS
  <2>3. /\ NULL \notin Nodes(p) /\ up \in Nodes(p)
        /\ inner = NULL \/ inner \in Nodes(p)
        /\ q = NULL \/ q \in Nodes(p)
        /\ n # up /\ n # inner /\ up # inner /\ q # n /\ q # up
        /\ inner # NULL => q # inner
    BY <1>1, <1>5, <2>1, <2>2, Around
  <2> QED
    BY <1>1, <1>5, <2>1, <2>2, <2>3, RotateEffect DEF Tree
<1>7. Swung(p, u, n, s, up)
  BY <1>1, <1>5, <1>6, TurnedSwung
<1>8. up \in Nodes(t) /\ up # n /\ n # Phantom
  BY <1>3, <1>4, ChildFacts
<1>9. Swung(t, u, n, s, up)
  BY <1>1, <1>2, <1>3, <1>4, <1>7, <1>8 DEF Swung
<1>10. Tree(u, TurnedOrder(b, n, up, s), top)
  BY <1>1, <1>5, <1>6, TurnedTree
<1>11. /\ \A y \in Nodes(t) : At(u, y, "color") = At(p, y, "color") /\ At(u, y, "val") = At(p, y, "val")
       /\ Nodes(u) = Nodes(t)
  BY <1>1, <1>6 DEF Turned
<1> QED
  BY <1>1, <1>5, <1>6, <1>8, <1>9, <1>10, <1>11

(* The rotation up of a red child, with which its parent changes colors.   *)
LEMMA RedTurned ==
    ASSUME NEW t, NEW b, NEW top, Tree(t, b, top), NEW n \in Nodes(t), NEW s \in Sides,
           NEW up, up = At(t, n, Opposite(s)), up # NULL, up # Phantom, IsRed(t, up),
           NEW p, SameLinks(t, p),
           \A y \in Nodes(t) : At(p, y, "color") = IF y = up THEN At(t, n, "color")
                                                   ELSE IF y = n THEN "red" ELSE At(t, y, "color"),
           NEW u, u = Rotate(p, n, s),
           NEW e, e # n, e # up, NEW h, Weighted(t, Weights(t, e), h)
    PROVE  \E g : Weighted(u, Weights(u, e), g)
<1>1. /\ Turned(p, u, n, s) /\ Tree(p, b, top) /\ up = At(p, n, Opposite(s))
      /\ \A y \in Nodes(t) : At(u, y, "color") = At(p, y, "color")
      /\ up \in Nodes(t) /\ up # n /\ n # Phantom /\ Nodes(u) = Nodes(t)
  BY RotateTree
<1> DEFINE w == Weights(t, e)
           v == Weights(u, e)
<1>2. Nodes(p) = Nodes(t) /\ \A y \in Nodes(t), d \in Sides : At(p, y, d) = At(t, y, d)
  BY DEF SameLinks
<1>3. w[up] = 0
  BY <1>1 DEF Weights, Own
<1>4. v \in [Nodes(t) -> Nat]
  BY <1>1 DEF Weights, Own
<1>5. v[n] = 0
  BY <1>1 DEF Weights, Own, IsRed
<1>6. v[up] = w[n]
  BY <1>1 DEF Weights, Own, IsRed
<1>7. \A x \in Nodes(t) \ {n, up} : v[x] = w[x]
  BY <1>1 DEF Weights, Own, IsRed
<1>8. Weighted(p, w, h)
  BY <1>2 DEF Weighted
<1> HIDE DEF w, v
<1>9. Weighted(u, v, [h EXCEPT ![n] = h[up], ![up] = h[n]])
  BY <1>1, <1>2, <1>3, <1>4, <1>5, <1>6, <1>7, <1>8, TurnedWeights
<1> QED
  BY <1>9 DEF v


-----------------------------------------------------------------------------
(* No way down from elsewhere passes a child of n: what the children weigh *)
(* more is made up for by n, and nobody above notices.                     *)
LEMMA Exchanged ==
    ASSUME NEW t, NEW b, NEW top, Tree(t, b, top), NEW n \in Nodes(t), NEW k \in Int,
           NEW w, NEW h, Weighted(t, w, h),
           NEW c, NEW d, c = At(t, n, "left"), d = At(t, n, "right"), c # NULL, d # NULL,
           NEW v \in [Nodes(t) -> Nat], v[c] = w[c] + k, v[d] = w[d] + k, v[n] = w[n] - k,
           \A x \in Nodes(t) \ {n, c, d} : v[x] = w[x]
    PROVE  Weighted(t, v, [h EXCEPT ![c] = h[c] + k, ![d] = h[d] + k])
<1>1. /\ c \in Nodes(t) /\ d \in Nodes(t) /\ c # n /\ d # n /\ c # d
      /\ At(t, c, "parent") = n /\ At(t, d, "parent") = n
  BY ChildFacts, ChildrenDiffer, SidesFacts
<1>2. NULL \notin Nodes(t)
  BY DEF Tree, Links, NULL, Phantom
<1>3. /\ w \in [Nodes(t) -> Nat] /\ h \in [Nodes(t) \cup {NULL} -> Nat] /\ h[NULL] = 0
      /\ \A x \in Nodes(t), s \in Sides : h[x] = h[At(t, x, s)] + w[x]
  BY DEF Weighted
<1>4. \A x \in Nodes(t), s \in Sides : At(t, x, s) \in Nodes(t) \cup {NULL}
  BY DEF Tree, Links
<1>5. h[c] + k \in Nat /\ h[d] + k \in Nat
  <2>1. h[c] = h[At(t, c, "left")] + w[c] /\ h[d] = h[At(t, d, "left")] + w[d]
    BY <1>1, <1>3, SidesFacts
  <2>2. h[At(t, c, "left")] \in Nat /\ h[At(t, d, "left")] \in Nat
    BY <1>1, <1>3, <1>4, SidesFacts
  <2> QED
    BY <1>1, <1>3, <2>1, <2>2
<1> DEFINE g == [h EXCEPT ![c] = h[c] + k, ![d] = h[d] + k]
<1>6. /\ g \in [Nodes(t) \cup {NULL} -> Nat] /\ g[NULL] = 0 /\ g[c] = h[c] + k /\ g[d] = h[d] + k
      /\ \A x \in Nodes(t) \cup {NULL} : x \notin {c, d} => g[x] = h[x]
  BY <1>1, <1>2, <1>3, <1>5
<1> HIDE DEF g
<1>7. \A x \in Nodes(t), s \in Sides : g[x] = g[At(t, x, s)] + v[x]
  <2> TAKE x \in Nodes(t), s \in Sides
  <2>1. PICK y : y = At(t, x, s)
    OBVIOUS
  <2>2. h[x] = h[y] + w[x] /\ y \in Nodes(t) \cup {NULL} /\ h[x] \in Nat /\ h[y] \in Nat /\ w[x] \in Nat
        /\ v[x] \in Nat
    BY <1>3, <1>4, <2>1
  <2>3. CASE x = n
    <3>1. y \in {c, d}
      BY <2>1, <2>3 DEF Sides
    <3> QED
      BY <1>1, <1>6, <2>1, <2>2, <2>3, <3>1
  <2>4. CASE x # n
    <3>1. y \notin {c, d}
      BY <1>1, <2>1, <2>4, ChildFacts
    <3> QED
      BY <1>1, <1>6, <2>1, <2>2, <2>4, <3>1
  <2> QED
    BY <2>3, <2>4
<1> QED
  BY <1>6, <1>7 DEF Weighted, g

(* No way down passes the root.                                            *)
LEMMA RootWeights ==
    ASSUME NEW t, NEW b, NEW top, Tree(t, b, top), NEW n \in Nodes(t), n = t.root,
           NEW w, NEW h, Weighted(t, w, h), NEW v \in [Nodes(t) -> Nat],
           \A x \in Nodes(t) \ {n} : v[x] = w[x]
    PROVE  Weighted(t, v, [h EXCEPT ![n] = h[n] - w[n] + v[n]])
<1>1. NULL \notin Nodes(t)
  BY DEF Tree, Links, NULL, Phantom
<1>2. /\ w \in [Nodes(t) -> Nat] /\ h \in [Nodes(t) \cup {NULL} -> Nat] /\ h[NULL] = 0
      /\ \A x \in Nodes(t), s \in Sides : h[x] = h[At(t, x, s)] + w[x]
  BY DEF Weighted
<1>3. \A x \in Nodes(t), s \in Sides : At(t, x, s) \in Nodes(t) \cup {NULL} /\ At(t, x, s) # n
  BY <1>1, ChildFacts DEF Tree, Links
<1>4. h[n] - w[n] + v[n] \in Nat
  <2>1. h[n] = h[At(t, n, "left")] + w[n]
    BY <1>2, SidesFacts
  <2>2. h[At(t, n, "left")] \in Nat
    BY <1>2, <1>3, SidesFacts
  <2> QED
    BY <1>2, <2>1, <2>2
<1> DEFINE g == [h EXCEPT ![n] = h[n] - w[n] + v[n]]
<1>5. /\ g \in [Nodes(t) \cup {NULL} -> Nat] /\ g[NULL] = 0 /\ g[n] = h[n] - w[n] + v[n]
      /\ \A x \in Nodes(t) \cup {NULL} : x # n => g[x] = h[x]
  BY <1>1, <1>2, <1>4
<1> HIDE DEF g
<1>6. \A x \in Nodes(t), s \in Sides : g[x] = g[At(t, x, s)] + v[x]
  <2> TAKE x \in Nodes(t), s \in Sides
  <2>1. PICK y : y = At(t, x, s)
    OBVIOUS
  <2>2. h[x] = h[y] + w[x] /\ y \in Nodes(t) \cup {NULL} /\ y # n
        /\ h[x] \in Nat /\ h[y] \in Nat /\ w[x] \in Nat /\ v[x] \in Nat /\ g[y] = h[y]
    BY <1>2, <1>3, <1>5, <2>1
  <2>3. g[x] = h[x] - w[x] + v[x]
    <3>1. CASE x = n
      BY <1>5, <3>1
    <3>2. CASE x # n
      <4>1. g[x] = h[x] /\ v[x] = w[x]
        BY <1>5, <3>2
      <4> QED
        BY <2>2, <4>1
    <3> QED
      BY <3>1, <3>2
  <2> QED
    BY <2>1, <2>2, <2>3
<1> QED
  BY <1>5, <1>6 DEF Weighted, g

(* The bindings of two trees are the same.                                 *)
SameBindings(t, u) ==
    /\ Nodes(u) = Nodes(t)
    /\ \A y \in Nodes(t) : At(u, y, "val") = At(t, y, "val")

(* Two nodes are painted one after the other.                              *)
LEMMA PaintTwice ==
    ASSUME NEW t, Form(t), NEW x \in Nodes(t), NEW y \in Nodes(t), NEW c, NEW d,
           NEW u, u = Paint(Paint(t, x, c), y, d)
    PROVE  /\ SameLinks(t, u) /\ SameBindings(t, u)
           /\ \A z \in Nodes(t) :
                 At(u, z, "color") = IF z = y THEN d ELSE IF z = x THEN c ELSE At(t, z, "color")
<1>1. PICK p : p = Paint(t, x, c)
  OBVIOUS
<1>2. /\ SameLinks(t, p)
      /\ \A z \in Nodes(t) : At(p, z, "color") = IF z = x THEN c ELSE At(t, z, "color")
      /\ \A z \in Nodes(t) : At(p, z, "val") = At(t, z, "val")
  BY <1>1, PaintEffect
<1>3. Form(p) /\ Nodes(p) = Nodes(t)
  BY <1>2 DEF SameLinks
<1>4. u = Paint(p, y, d)
  BY <1>1
<1>5. /\ SameLinks(p, u)
      /\ \A z \in Nodes(t) : At(u, z, "color") = IF z = y THEN d ELSE At(p, z, "color")
      /\ \A z \in Nodes(t) : At(u, z, "val") = At(p, z, "val")
  BY <1>3, <1>4, PaintEffect
<1> QED
  BY <1>2, <1>5 DEF SameLinks, SameBindings

-----------------------------------------------------------------------------
(* The rounds of rb_insert_bal.                                            *)

(* What is at the two sides of a node.                                     *)
LEMMA BothSides ==
    ASSUME NEW t, NEW b, NEW top, Tree(t, b, top), NEW n \in Nodes(t), n # t.root,
           NEW p, p = Parent(t, n), NEW s, s = Side(t, n)
    PROVE  /\ NULL \notin Nodes(t)
           /\ p \in Nodes(t) /\ p # n /\ s \in Sides /\ At(t, p, s) = n
           /\ Sibling(t, n) = At(t, p, Opposite(s)) /\ Sibling(t, n) # n
           /\ Sibling(t, n) \in Nodes(t) \cup {NULL}
           /\ Opposite(s) \in Sides /\ Opposite(Opposite(s)) = s /\ Opposite(s) # s
           /\ \A d \in Sides : d = s \/ d = Opposite(s)
           /\ s = "left" => At(t, p, "left") = n /\ At(t, p, "right") = Sibling(t, n)
           /\ s # "left" => At(t, p, "left") = Sibling(t, n) /\ At(t, p, "right") = n
<1>1. NULL \notin Nodes(t)
  BY DEF Tree, Links, NULL, Phantom
<1>2. p = At(t, n, "parent")
  BY DEF Parent, At
<1>3. p \in Nodes(t)
  BY <1>2 DEF Tree, Links
<1>4. PICK z \in Sides : At(t, p, z) = n
  BY <1>2 DEF Tree, Links
<1>5. s \in Sides /\ At(t, p, s) = n
  BY <1>4 DEF Side, At, Sides
<1>6. Sibling(t, n) = At(t, p, Opposite(s))
  BY DEF Sibling, At
<1>7. Sibling(t, n) # n /\ p # n
  BY <1>1, <1>3, <1>5, <1>6, ChildrenDiffer, ChildFacts
<1>8. /\ Opposite(s) \in Sides /\ Opposite(Opposite(s)) = s /\ Opposite(s) # s
      /\ \A d \in Sides : d = s \/ d = Opposite(s)
  BY <1>5, SidesFacts
<1>9. Sibling(t, n) \in Nodes(t) \cup {NULL}
  BY <1>3, <1>6, <1>8 DEF Tree, Links
<1>10. /\ s = "left" => At(t, p, "left") = n /\ At(t, p, "right") = Sibling(t, n)
       /\ s # "left" => At(t, p, "left") = Sibling(t, n) /\ At(t, p, "right") = n
  BY <1>5, <1>6 DEF Opposite, Sides
<1> QED
  BY <1>1, <1>3, <1>5, <1>6, <1>7, <1>8, <1>9, <1>10

(* At the root the new node is painted black: every way gets one more.     *)
LEMMA RootBlack ==
    ASSUME NEW t, NEW n \in Nodes(t), n = t.root, Sound(t, NULL, n), IsRed(t, n),
           NEW u, u = Paint(t, n, "black")
    PROVE  Sound(u, NULL, NULL) /\ SameBindings(t, u)
<1>1. PICK b, top : Tree(t, b, top)
  BY DEF Sound
<1>2. PICK h : Weighted(t, Weights(t, NULL), h)
  BY DEF Sound
<1>3. /\ SameLinks(t, u)
      /\ \A y \in Nodes(t) : At(u, y, "color") = IF y = n THEN "black" ELSE At(t, y, "color")
      /\ \A y \in Nodes(t) : At(u, y, "val") = At(t, y, "val")
  BY <1>1, PaintEffect DEF Tree
<1>4. Tree(u, b, top) /\ Nodes(u) = Nodes(t) /\ u.root = t.root
  BY <1>1, <1>3, SameTree DEF SameLinks
<1>5. \E g : Weighted(u, Weights(u, NULL), g)
  <2>1. Weighted(u, Weights(t, NULL), h)
    BY <1>2, <1>3 DEF Weighted, SameLinks
  <2>2. Weights(u, NULL) \in [Nodes(u) -> Nat]
    BY DEF Weights, Own
  <2>3. \A x \in Nodes(u) \ {n} : Weights(u, NULL)[x] = Weights(t, NULL)[x]
    BY <1>3, <1>4 DEF Weights, Own, IsRed
  <2>4. PICK v, w : v = Weights(u, NULL) /\ w = Weights(t, NULL)
    OBVIOUS
  <2>5. Weighted(u, v, [h EXCEPT ![n] = h[n] - w[n] + v[n]])
    BY <1>4, <2>1, <2>2, <2>3, <2>4, RootWeights
  <2> QED
    BY <2>4, <2>5
<1>6. RedsApart(u, NULL)
  <2>1. \A x \in Nodes(t), d \in Sides :
           At(t, x, d) # NULL => At(t, x, d) \in Nodes(t) /\ At(t, x, d) # n
    BY <1>1, ChildFacts
  <2>2. RedsApart(t, n)
    BY DEF Sound
  <2>3. "black" # "red"
    OBVIOUS
  <2> QED
    BY <1>3, <1>4, <2>1, <2>2, <2>3 DEF RedsApart, IsRed, SameLinks
<1>7. Carries(u)
  BY <1>3, <1>4 DEF Sound, Carries, IsRed
<1> QED
  BY <1>3, <1>4, <1>5, <1>6, <1>7 DEF Sound, SameBindings

(* Below a black parent there is nothing left to repair.                   *)
LEMMA BelowBlack ==
    ASSUME NEW t, NEW n \in Nodes(t), n # t.root, Sound(t, NULL, n),
           NEW p, p = Parent(t, n), ~ IsRed(t, p)
    PROVE  Sound(t, NULL, NULL)
<1>1. PICK b, top : Tree(t, b, top)
  BY DEF Sound
<1>2. \A x \in Nodes(t), d \in Sides : At(t, x, d) = n => x = p
  <2>1. NULL \notin Nodes(t)
    BY <1>1, BothSides
  <2> QED
    BY <1>1, <2>1, ChildFacts DEF Parent, At
<1>3. RedsApart(t, n)
  BY DEF Sound
<1>4. RedsApart(t, NULL)
  BY <1>2, <1>3 DEF RedsApart
<1> QED
  BY <1>4 DEF Sound

(* Parent and uncle turn black, the grandparent red.                       *)
LEMMA Recolored ==
    ASSUME NEW t, NEW n \in Nodes(t), n # t.root, Sound(t, NULL, n),
           NEW p, p = Parent(t, n), IsRed(t, n), IsRed(t, p), NEW g, g = Parent(t, p),
           NEW uncle, uncle = Sibling(t, p), uncle # NULL, IsRed(t, uncle),
           NEW u, u = Paint(Paint(Paint(t, p, "black"), uncle, "black"), g, "red")
    PROVE  /\ Sound(u, NULL, g) /\ SameBindings(t, u) /\ g \in Nodes(u) /\ IsRed(u, g)
<1>1. PICK b, top : Tree(t, b, top)
  BY DEF Sound
<1>2. PICK h : Weighted(t, Weights(t, NULL), h)
  BY DEF Sound
<1>3. RedsApart(t, n) /\ Carries(t)
  BY DEF Sound
<1>4. p \in Nodes(t) /\ p # n /\ NULL \notin Nodes(t) /\ Side(t, n) \in Sides
      /\ At(t, p, Side(t, n)) = n
  BY <1>1, BothSides
<1>5. p # t.root
  BY <1>3, <1>4 DEF RedsApart
<1>6. /\ g \in Nodes(t) /\ uncle \in Nodes(t) /\ g # p /\ uncle # p
      /\ \/ At(t, g, "left") = p /\ At(t, g, "right") = uncle
         \/ At(t, g, "left") = uncle /\ At(t, g, "right") = p
  BY <1>1, <1>4, <1>5, BothSides
<1>7. g # uncle
  BY <1>1, <1>4, <1>6, ChildFacts, SidesFacts
<1>8. ~ IsRed(t, g)
  BY <1>3, <1>4, <1>6, SidesFacts DEF RedsApart
<1>9. g # Phantom /\ p # Phantom /\ uncle # Phantom
  <2>1. g # Phantom
    BY <1>1, <1>4, <1>6, ChildFacts, SidesFacts
  <2> QED
    BY <1>3, <1>4, <1>6, <2>1 DEF Carries
<1>10. PICK m : m = Paint(Paint(t, p, "black"), uncle, "black")
  OBVIOUS
<1>11. /\ SameLinks(t, m) /\ SameBindings(t, m)
       /\ \A z \in Nodes(t) :
             At(m, z, "color") = IF z = uncle THEN "black" ELSE IF z = p THEN "black"
                                 ELSE At(t, z, "color")
  BY <1>1, <1>4, <1>6, <1>10, PaintTwice DEF Tree
<1>12. Form(m) /\ Nodes(m) = Nodes(t) /\ u = Paint(m, g, "red")
  BY <1>10, <1>11 DEF SameLinks
<1>13. /\ SameLinks(m, u)
       /\ \A y \in Nodes(t) : At(u, y, "color") = IF y = g THEN "red" ELSE At(m, y, "color")
       /\ \A y \in Nodes(t) : At(u, y, "val") = At(m, y, "val")
  BY <1>6, <1>12, PaintEffect
<1>14. SameLinks(t, u) /\ SameBindings(t, u)
  BY <1>11, <1>13 DEF SameLinks, SameBindings
<1>15. \A y \in Nodes(t) : At(u, y, "color") = IF y = g THEN "red"
                              ELSE IF y = p \/ y = uncle THEN "black" ELSE At(t, y, "color")
  BY <1>11, <1>13
<1>16. Tree(u, b, top) /\ Nodes(u) = Nodes(t) /\ u.root = t.root
  BY <1>1, <1>14, SameTree DEF SameLinks
<1>17. \E f : Weighted(u, Weights(u, NULL), f)
  <2>1. Weighted(u, Weights(t, NULL), h)
    BY <1>2, <1>14 DEF Weighted, SameLinks
  <2>2. Weights(u, NULL) \in [Nodes(u) -> Nat]
    BY DEF Weights, Own
  <2>3. PICK v, w : v = Weights(u, NULL) /\ w = Weights(t, NULL)
    OBVIOUS
  <2>4. v[p] = w[p] + 1 /\ v[uncle] = w[uncle] + 1 /\ v[g] = w[g] - 1
    BY <1>4, <1>6, <1>7, <1>8, <1>9, <1>15, <1>16, <2>3 DEF Weights, Own, IsRed, NULL
  <2>5. \A x \in Nodes(t) \ {p, uncle, g} : v[x] = w[x]
    BY <1>15, <1>16, <2>3 DEF Weights, Own, IsRed
  <2>6. \/ At(u, g, "left") = p /\ At(u, g, "right") = uncle
        \/ At(u, g, "left") = uncle /\ At(u, g, "right") = p
    BY <1>6, <1>14, SidesFacts DEF SameLinks
  <2>7. v \in [Nodes(u) -> Nat] /\ Weighted(u, w, h) /\ p # NULL
    BY <1>4, <2>1, <2>2, <2>3
  <2>8. CASE At(u, g, "left") = p /\ At(u, g, "right") = uncle
    <3>1. Weighted(u, v, [h EXCEPT ![p] = h[p] + 1, ![uncle] = h[uncle] + 1])
      BY <1>6, <1>16, <2>4, <2>5, <2>7, <2>8, Exchanged
    <3> QED
      BY <2>3, <3>1
  <2>9. CASE At(u, g, "left") = uncle /\ At(u, g, "right") = p
    <3>1. Weighted(u, v, [h EXCEPT ![uncle] = h[uncle] + 1, ![p] = h[p] + 1])
      BY <1>6, <1>16, <2>4, <2>5, <2>7, <2>9, Exchanged
    <3> QED
      BY <2>3, <3>1
  <2> QED
    BY <2>6, <2>8, <2>9
<1>18. RedsApart(u, g)
  <2>1. \A x \in Nodes(t), d \in Sides : At(u, x, d) = At(t, x, d)
    BY <1>14 DEF SameLinks
  <2>2. \A x \in Nodes(t), d \in Sides :
           At(t, x, d) # NULL => At(t, x, d) \in Nodes(t) /\ At(t, At(t, x, d), "parent") = x
    BY <1>1, ChildFacts
  <2>3. At(t, n, "parent") = p
    BY DEF Parent, At
  <2>4. \A d \in Sides : At(t, g, d) \in {p, uncle}
    BY <1>6 DEF Sides
  <2>5. ASSUME NEW x \in Nodes(t), NEW d \in Sides, NEW c, c = At(t, x, d), c # NULL,
               IsRed(u, x), IsRed(u, c)
        PROVE  c = g
    <3>1. c \in Nodes(t) /\ At(t, c, "parent") = x
      BY <2>2, <2>5
    <3>2. x # p /\ x # uncle /\ c # p /\ c # uncle
      BY <1>4, <1>6, <1>7, <1>15, <2>5, <3>1 DEF IsRed
    <3>3. x # g
      BY <2>4, <2>5, <3>2
    <3>4. SUFFICES ASSUME c # g PROVE FALSE
      OBVIOUS
    <3>5. IsRed(t, x) /\ IsRed(t, c)
      BY <1>15, <2>5, <3>1, <3>2, <3>3, <3>4 DEF IsRed
    <3>6. c = n
      BY <1>3, <2>5, <3>5 DEF RedsApart
    <3> QED
      BY <2>3, <3>1, <3>2, <3>6
  <2>6. t.root # NULL /\ IsRed(u, t.root) => t.root = g
    <3>1. t.root # NULL => t.root \in Nodes(t)
      BY <1>1 DEF Tree, Links
    <3>2. t.root # NULL => ~ IsRed(t, t.root)
      BY <1>3 DEF RedsApart
    <3> QED
      BY <1>15, <3>1, <3>2 DEF IsRed
  <2> QED
    BY <1>16, <2>1, <2>5, <2>6 DEF RedsApart
<1>19. Carries(u)
  BY <1>3, <1>9, <1>14, <1>15, <1>16 DEF Carries, IsRed, SameBindings
<1>20. IsRed(u, g)
  BY <1>6, <1>15 DEF IsRed
<1> QED
  BY <1>6, <1>14, <1>16, <1>17, <1>18, <1>19, <1>20 DEF Sound

(* The grandparent of a red node with a red parent is black.               *)
LEMMA Grandparent ==
    ASSUME NEW t, NEW n \in Nodes(t), n # t.root, Sound(t, NULL, n),
           NEW p, p = Parent(t, n), IsRed(t, n), IsRed(t, p), NEW g, g = Parent(t, p)
    PROVE  /\ p \in Nodes(t) /\ p # t.root /\ g \in Nodes(t) /\ ~ IsRed(t, g)
           /\ Side(t, p) \in Sides /\ At(t, g, Side(t, p)) = p
           /\ Sibling(t, p) = At(t, g, Opposite(Side(t, p)))
           /\ Sibling(t, p) \in Nodes(t) \cup {NULL}
           /\ p # Phantom /\ n # Phantom
<1>1. PICK b, top : Tree(t, b, top)
  BY DEF Sound
<1>2. RedsApart(t, n) /\ Carries(t)
  BY DEF Sound
<1>3. p \in Nodes(t) /\ p # n /\ NULL \notin Nodes(t)
  BY <1>1, BothSides
<1>4. p # t.root
  BY <1>2, <1>3 DEF RedsApart
<1>5. /\ g \in Nodes(t) /\ Side(t, p) \in Sides /\ At(t, g, Side(t, p)) = p
      /\ Sibling(t, p) = At(t, g, Opposite(Side(t, p)))
      /\ Sibling(t, p) \in Nodes(t) \cup {NULL}
  BY <1>1, <1>3, <1>4, BothSides
<1>6. ~ IsRed(t, g)
  BY <1>2, <1>3, <1>5 DEF RedsApart
<1>7. p # Phantom /\ n # Phantom
  BY <1>2, <1>3 DEF Carries
<1> QED
  BY <1>3, <1>4, <1>5, <1>6, <1>7

(* A red node between its red parent and the grandparent is turned up, so  *)
(* that both red ones are on the same side.                                *)
LEMMA TurnedOut ==
    ASSUME NEW t, NEW n \in Nodes(t), n # t.root, Sound(t, NULL, n),
           NEW p, p = Parent(t, n), IsRed(t, n), IsRed(t, p), NEW g, g = Parent(t, p),
           NEW side, side = Side(t, p), Side(t, n) # side, NEW u, u = Rotate(t, p, side)
    PROVE  /\ Sound(u, NULL, p) /\ SameBindings(t, u)
           /\ \A y \in Nodes(t) : IsRed(u, y) <=> IsRed(t, y)
           /\ At(u, g, side) = n /\ At(u, n, side) = p
           /\ At(u, g, Opposite(side)) = At(t, g, Opposite(side))
<1>1. PICK b, top : Tree(t, b, top)
  BY DEF Sound
<1>2. PICK h : Weighted(t, Weights(t, NULL), h)
  BY DEF Sound
<1>3. RedsApart(t, n) /\ Carries(t)
  BY DEF Sound
<1>4. PICK o : o = Opposite(side)
  OBVIOUS
<1>5. /\ p \in Nodes(t) /\ p # t.root /\ g \in Nodes(t) /\ ~ IsRed(t, g)
      /\ side \in Sides /\ At(t, g, side) = p /\ n # Phantom
  BY Grandparent
<1>6. /\ o \in Sides /\ o # side /\ NULL \notin Nodes(t) /\ At(t, p, o) = n /\ p # n
      /\ \A d \in Sides : d = side \/ d = o
  <2>1. Side(t, n) \in Sides /\ At(t, p, Side(t, n)) = n /\ NULL \notin Nodes(t) /\ p # n
    BY <1>1, BothSides
  <2> QED
    BY <1>4, <1>5, <2>1, SidesFacts
<1>7. SameLinks(t, t)
  BY <1>1 DEF Tree, SameLinks
<1>8. /\ Swung(t, u, p, side, n) /\ \E c : Tree(u, c, top)
      /\ \A y \in Nodes(t) : At(u, y, "color") = At(t, y, "color") /\ At(u, y, "val") = At(t, y, "val")
      /\ Nodes(u) = Nodes(t)
  BY <1>1, <1>4, <1>5, <1>6, <1>7, RotateTree
<1>9. \E f : Weighted(u, Weights(u, NULL), f)
  BY <1>1, <1>2, <1>4, <1>5, <1>6, <1>7, RedTurned DEF IsRed
<1>10. /\ u.root = t.root
       /\ At(u, p, o) = At(t, n, side) /\ At(u, p, side) = At(t, p, side)
       /\ At(u, n, side) = p /\ At(u, n, o) = At(t, n, o)
       /\ \A y \in Nodes(t) \ {p, n}, d \in Sides :
             /\ At(u, y, d) = IF At(t, y, d) = p THEN n ELSE At(t, y, d)
             /\ At(t, y, d) # n
  BY <1>4, <1>5, <1>8 DEF Swung
<1>11. \A x \in Nodes(t), d \in Sides :
          At(t, x, d) # NULL => At(t, x, d) \in Nodes(t) /\ At(t, x, d) # x
  BY <1>1, ChildFacts
<1>12. \A y \in Nodes(t) : IsRed(u, y) <=> IsRed(t, y)
  BY <1>8 DEF IsRed
<1>13. g \notin {p, n}
  BY <1>5
<1>14. At(u, g, side) = n
  BY <1>5, <1>10, <1>13
<1>15. At(t, g, o) # p
  BY <1>1, <1>4, <1>5, <1>6, ChildrenDiffer
<1>16. At(u, g, o) = At(t, g, o)
  BY <1>5, <1>6, <1>10, <1>13, <1>15
<1>17. RedsApart(u, p)
  <2>1. \A x \in Nodes(t), d \in Sides :
           At(t, x, d) # NULL /\ IsRed(t, x) /\ IsRed(t, At(t, x, d)) => At(t, x, d) = n
    BY <1>3 DEF RedsApart
  <2>2. At(t, p, side) # n
    BY <1>1, <1>4, <1>5, <1>6, ChildrenDiffer
  <2>3. ASSUME NEW x \in Nodes(t), NEW d \in Sides, NEW c, c = At(u, x, d), c # NULL,
               IsRed(u, x), IsRed(u, c)
        PROVE  c = p
    <3>1. CASE x = p
      <4>1. c = At(t, n, side) \/ c = At(t, p, side)
        BY <1>6, <1>10, <2>3, <3>1
      <4>2. c \in Nodes(t) /\ IsRed(t, c)
        BY <1>5, <1>11, <1>12, <2>3, <4>1
      <4> QED
        BY <1>5, <1>11, <2>1, <2>2, <2>3, <4>1, <4>2
    <3>2. CASE x = n
      <4>1. SUFFICES ASSUME c # p PROVE FALSE
        OBVIOUS
      <4>2. c = At(t, n, o)
        BY <1>6, <1>10, <2>3, <3>2, <4>1
      <4>3. c \in Nodes(t) /\ IsRed(t, c) /\ c # n
        BY <1>6, <1>11, <1>12, <2>3, <4>2
      <4> QED
        BY <1>6, <2>1, <2>3, <4>2, <4>3
    <3>3. CASE x \notin {n, p}
      <4>1. SUFFICES ASSUME c # p PROVE FALSE
        OBVIOUS
      <4>2. CASE At(t, x, d) = p
        <5>1. IsRed(t, x) /\ IsRed(t, p)
          BY <1>12, <2>3
        <5> QED
          BY <1>5, <1>6, <2>1, <2>3, <4>2, <5>1
      <4>3. CASE At(t, x, d) # p
        <5>1. c = At(t, x, d) /\ c # n
          BY <1>10, <2>3, <3>3, <4>3
        <5>2. c \in Nodes(t) /\ IsRed(t, c) /\ IsRed(t, x)
          BY <1>11, <1>12, <2>3, <5>1
        <5> QED
          BY <2>1, <2>3, <5>1, <5>2
      <4> QED
        BY <4>2, <4>3
    <3> QED
      BY <3>1, <3>2, <3>3
  <2>4. t.root # NULL => ~ IsRed(u, t.root)
    BY <1>1, <1>3, <1>12 DEF RedsApart, Tree, Links
  <2> QED
    BY <1>8, <1>10, <2>3, <2>4 DEF RedsApart
<1>18. Carries(u)
  BY <1>3, <1>8, <1>12 DEF Carries
<1> QED
  BY <1>4, <1>8, <1>9, <1>10, <1>12, <1>14, <1>16, <1>17, <1>18 DEF Sound, SameBindings

(* The upper of two red nodes on the same side is turned up in black.      *)
LEMMA TurnedUp ==
    ASSUME NEW t, NEW low, Sound(t, NULL, low), NEW g \in Nodes(t), NEW side \in Sides,
           NEW mid, mid = At(t, g, side), mid # NULL, low = At(t, mid, side), low # NULL,
           IsRed(t, mid), IsRed(t, low),
           NEW uncle, uncle = At(t, g, Opposite(side)), uncle # NULL => ~ IsRed(t, uncle),
           NEW u, u = Rotate(Paint(Paint(t, mid, "black"), g, "red"), g, Opposite(side))
    PROVE  Sound(u, NULL, NULL) /\ SameBindings(t, u)
<1>1. PICK b, top : Tree(t, b, top)
  BY DEF Sound
<1>2. PICK h : Weighted(t, Weights(t, NULL), h)
  BY DEF Sound
<1>3. RedsApart(t, low) /\ Carries(t)
  BY DEF Sound
<1>4. PICK o : o = Opposite(side)
  OBVIOUS
<1>5. o \in Sides /\ o # side /\ side = Opposite(o) /\ \A d \in Sides : d = side \/ d = o
  BY <1>4, SidesFacts
<1>6. /\ mid \in Nodes(t) /\ low \in Nodes(t) /\ mid # g /\ low # mid /\ NULL \notin Nodes(t)
      /\ mid # t.root /\ low # t.root /\ g # Phantom /\ mid # Phantom
  <2>1. NULL \notin Nodes(t)
    BY <1>1 DEF Tree, Links, NULL, Phantom
  <2>2. mid \in Nodes(t) /\ mid # g /\ g # Phantom /\ mid # t.root
    BY <1>1, ChildFacts
  <2> QED
    BY <1>1, <2>1, <2>2, ChildFacts
<1>7. ~ IsRed(t, g)
  BY <1>3, <1>6 DEF RedsApart
<1>8. PICK m : m = Paint(Paint(t, mid, "black"), g, "red")
  OBVIOUS
<1>9. /\ SameLinks(t, m) /\ SameBindings(t, m)
      /\ \A z \in Nodes(t) :
            At(m, z, "color") = IF z = g THEN "red" ELSE IF z = mid THEN "black"
                                ELSE At(t, z, "color")
  BY <1>1, <1>6, <1>8, PaintTwice DEF Tree
<1>10. u = Rotate(m, g, o)
  BY <1>4, <1>8
<1>11. /\ Swung(t, u, g, o, mid) /\ \E c : Tree(u, c, top)
       /\ \A y \in Nodes(t) : At(u, y, "color") = At(m, y, "color") /\ At(u, y, "val") = At(m, y, "val")
       /\ Nodes(u) = Nodes(t)
  BY <1>1, <1>5, <1>6, <1>9, <1>10, RotateTree
<1>12. \E f : Weighted(u, Weights(u, NULL), f)
  <2>1. At(t, g, "color") = "black"
    BY <1>3, <1>7 DEF Carries, IsRed
  <2>2. \A y \in Nodes(t) : At(m, y, "color") = IF y = mid THEN At(t, g, "color")
                                                 ELSE IF y = g THEN "red" ELSE At(t, y, "color")
    BY <1>6, <1>9, <2>1
  <2> QED
    BY <1>1, <1>2, <1>5, <1>6, <1>9, <1>10, <2>2, RedTurned
<1>13. /\ u.root = IF t.root = g THEN mid ELSE t.root
       /\ At(u, g, side) = At(t, mid, o) /\ At(u, g, o) = At(t, g, o)
       /\ At(u, mid, o) = g /\ At(u, mid, side) = At(t, mid, side)
       /\ \A y \in Nodes(t) \ {g, mid}, d \in Sides :
             At(u, y, d) = IF At(t, y, d) = g THEN mid ELSE At(t, y, d)
  BY <1>5, <1>11 DEF Swung
<1>14. \A y \in Nodes(t) : IsRed(u, y) <=> y = g \/ (y # mid /\ IsRed(t, y))
  BY <1>6, <1>9, <1>11 DEF IsRed
<1>15. \A x \in Nodes(t), d \in Sides :
          At(t, x, d) # NULL => At(t, x, d) \in Nodes(t) /\ At(t, x, d) # x
                                /\ At(t, At(t, x, d), "parent") = x
  BY <1>1, ChildFacts
<1>16. RedsApart(u, NULL)
  <2>1. \A x \in Nodes(t), d \in Sides :
           At(t, x, d) # NULL /\ IsRed(t, x) /\ IsRed(t, At(t, x, d)) => At(t, x, d) = low
    BY <1>3 DEF RedsApart
  <2>2. At(t, mid, o) # low
    BY <1>1, <1>4, <1>6, ChildrenDiffer
  <2>3. At(t, low, "parent") = mid /\ At(t, mid, "parent") = g
    BY <1>6, <1>15
  <2>4. ASSUME NEW x \in Nodes(t), NEW d \in Sides, NEW c, c = At(u, x, d), c # NULL,
               IsRed(u, x), IsRed(u, c)
        PROVE  FALSE
    <3>1. CASE x = g /\ d = side
      <4>1. c = At(t, mid, o)
        BY <1>13, <2>4, <3>1
      <4>2. c \in Nodes(t) /\ ~ IsRed(t, c)
        BY <1>5, <1>6, <1>15, <2>1, <2>2, <2>4, <4>1
      <4>3. c # g
        <5>1. At(t, c, "parent") = mid
          BY <1>5, <1>6, <1>15, <2>4, <4>1
        <5>2. Width(b, c) < Width(b, mid) /\ Width(b, mid) < Width(b, g)
              /\ Width(b, c) \in Nat /\ Width(b, mid) \in Nat /\ Width(b, g) \in Nat
          BY <1>1, <1>5, <1>6, <2>4, <4>1, ChildFacts
        <5> QED
          BY <5>2
      <4> QED
        BY <1>14, <2>4, <4>2, <4>3
    <3>2. CASE x = g /\ d = o
      <4>1. c = uncle /\ c = At(t, g, o)
        BY <1>4, <1>13, <2>4, <3>2
      <4>2. c \in Nodes(t) /\ c # g
        BY <1>5, <1>15, <2>4, <4>1
      <4> QED
        BY <1>14, <2>4, <4>1, <4>2
    <3>3. CASE x = mid
      <4>1. mid \in Nodes(t) /\ mid # g
        BY <1>6
      <4>2. ~ IsRed(u, mid)
        BY <1>14, <4>1
      <4> QED
        BY <2>4, <3>3, <4>2
    <3>4. CASE x \notin {g, mid}
      <4>1. IsRed(t, x)
        BY <1>14, <2>4, <3>4
      <4>2. CASE At(t, x, d) = g
        <5>1. c = mid
          BY <1>13, <2>4, <3>4, <4>2
        <5> QED
          BY <1>6, <1>14, <2>4, <5>1
      <4>3. CASE At(t, x, d) # g
        <5>1. c = At(t, x, d) /\ c \in Nodes(t) /\ c # g /\ At(t, c, "parent") = x
          BY <1>13, <1>15, <2>4, <3>4, <4>3
        <5>2. IsRed(t, c)
          BY <1>14, <2>4, <5>1
        <5>3. c = low
          BY <2>1, <2>4, <4>1, <5>1, <5>2
        <5> QED
          BY <2>3, <3>4, <5>1, <5>3
      <4> QED
        BY <4>2, <4>3
    <3> QED
      BY <1>5, <3>1, <3>2, <3>3, <3>4
  <2>5. u.root # NULL => ~ IsRed(u, u.root)
    <3>1. t.root # NULL => t.root \in Nodes(t) /\ ~ IsRed(t, t.root)
      BY <1>1, <1>3, <1>6 DEF RedsApart, Tree, Links
    <3>2. CASE t.root = g
      BY <1>6, <1>13, <1>14, <3>2
    <3>3. CASE t.root # g
      BY <1>13, <1>14, <3>1, <3>3
    <3> QED
      BY <3>2, <3>3
  <2> QED
    BY <1>11, <2>4, <2>5 DEF RedsApart
<1>17. SameBindings(t, u)
  BY <1>9, <1>11 DEF SameBindings
<1>18. Carries(u)
  BY <1>3, <1>6, <1>9, <1>11, <1>14, <1>17 DEF Carries, SameBindings
<1> QED
  BY <1>11, <1>12, <1>16, <1>17, <1>18 DEF Sound

(* The last round of rb_insert_bal.                                        *)
LEMMA Repaired ==
    ASSUME NEW t, NEW n \in Nodes(t), n # t.root, Sound(t, NULL, n),
           NEW p, p = Parent(t, n), IsRed(t, n), IsRed(t, p), NEW g, g = Parent(t, p),
           Sibling(t, p) # NULL => ~ IsRed(t, Sibling(t, p)),
           NEW side, side = Side(t, p), NEW inner, inner = (Side(t, n) # side),
           NEW t1, t1 = IF inner THEN Rotate(t, p, side) ELSE t,
           NEW mid, mid = IF inner THEN n ELSE p,
           NEW u, u = Rotate(Paint(Paint(t1, mid, "black"), g, "red"), g, Opposite(side))
    PROVE  Sound(u, NULL, NULL) /\ SameBindings(t, u)
<1>1. PICK b, top : Tree(t, b, top)
  BY DEF Sound
<1>2. /\ p \in Nodes(t) /\ g \in Nodes(t) /\ side \in Sides /\ At(t, g, side) = p
      /\ Sibling(t, p) = At(t, g, Opposite(side)) /\ Sibling(t, p) \in Nodes(t) \cup {NULL}
  BY Grandparent
<1>3. NULL \notin Nodes(t) /\ At(t, p, Side(t, n)) = n
  BY <1>1, BothSides
<1>4. CASE inner
  <2>1. t1 = Rotate(t, p, side) /\ mid = n /\ Side(t, n) # side
    BY <1>4
  <2>2. /\ Sound(t1, NULL, p) /\ SameBindings(t, t1)
        /\ \A y \in Nodes(t) : IsRed(t1, y) <=> IsRed(t, y)
        /\ At(t1, g, side) = n /\ At(t1, n, side) = p
        /\ At(t1, g, Opposite(side)) = At(t, g, Opposite(side))
    BY <2>1, TurnedOut
  <2>3. Nodes(t1) = Nodes(t)
    BY <2>2 DEF SameBindings
  <2>4. Sound(u, NULL, NULL) /\ SameBindings(t1, u)
    BY <1>2, <1>3, <2>1, <2>2, <2>3, TurnedUp
  <2> QED
    BY <2>2, <2>4 DEF SameBindings
<1>5. CASE ~ inner
  <2>1. t1 = t /\ mid = p /\ Side(t, n) = side
    BY <1>5
  <2> QED
    BY <1>2, <1>3, <2>1, TurnedUp
<1> QED
  BY <1>4, <1>5

-----------------------------------------------------------------------------
(* The rounds of rb_remove_bal.                                            *)

(* At the root, where every way down lacks the same black node, none does. *)
LEMMA RootReached ==
    ASSUME NEW t, NEW n \in Nodes(t), n = t.root, Sound(t, n, NULL)
    PROVE  Sound(t, NULL, NULL)
<1>1. PICK b, top : Tree(t, b, top)
  BY DEF Sound
<1>2. PICK h : Weighted(t, Weights(t, n), h)
  BY DEF Sound
<1>3. PICK v, w : v = Weights(t, NULL) /\ w = Weights(t, n)
  OBVIOUS
<1>4. v \in [Nodes(t) -> Nat]
  BY <1>3 DEF Weights, Own
<1>5. NULL \notin Nodes(t)
  BY <1>1 DEF Tree, Links, NULL, Phantom
<1>6. \A x \in Nodes(t) \ {n} : v[x] = w[x]
  BY <1>3, <1>5 DEF Weights, Own
<1>7. Weighted(t, v, [h EXCEPT ![n] = h[n] - w[n] + v[n]])
  BY <1>1, <1>2, <1>3, <1>4, <1>6, RootWeights
<1> QED
  BY <1>3, <1>7 DEF Sound

(* Where a black node is lacking on one side, the other side has one: the  *)
(* sibling is there.                                                       *)
LEMMA SiblingThere ==
    ASSUME NEW t, NEW n \in Nodes(t), n # t.root, Sound(t, n, NULL), ~ IsRed(t, n),
           NEW p, p = Parent(t, n), NEW s, s = Sibling(t, n)
    PROVE  /\ s \in Nodes(t) /\ s # NULL /\ s # Phantom /\ s # n /\ s # p /\ p # Phantom /\ p # n
           /\ p \in Nodes(t) /\ NULL \notin Nodes(t)
           /\ Weights(t, n)[n] >= 1
<1>1. PICK b, top : Tree(t, b, top)
  BY DEF Sound
<1>2. PICK h : Weighted(t, Weights(t, n), h)
  BY DEF Sound
<1>3. PICK w : w = Weights(t, n)
  OBVIOUS
<1>4. /\ NULL \notin Nodes(t) /\ p \in Nodes(t) /\ p # n /\ Side(t, n) \in Sides
      /\ At(t, p, Side(t, n)) = n /\ s = At(t, p, Opposite(Side(t, n))) /\ s # n
      /\ s \in Nodes(t) \cup {NULL} /\ Opposite(Side(t, n)) \in Sides
  BY <1>1, BothSides
<1>5. w[n] >= 1
  BY <1>3 DEF Weights, Own
<1>6. /\ h \in [Nodes(t) \cup {NULL} -> Nat] /\ h[NULL] = 0 /\ w \in [Nodes(t) -> Nat]
      /\ \A x \in Nodes(t), d \in Sides : h[x] = h[At(t, x, d)] + w[x]
  BY <1>2, <1>3 DEF Weighted
<1>7. h[n] >= 1
  <2>1. h[n] = h[At(t, n, "left")] + w[n] /\ At(t, n, "left") \in Nodes(t) \cup {NULL}
    BY <1>1, <1>6, SidesFacts DEF Tree, Links
  <2>2. h[At(t, n, "left")] \in Nat /\ w[n] \in Nat
    BY <1>6, <2>1
  <2> QED
    BY <1>5, <2>1, <2>2
<1>8. h[s] = h[n]
  <2>1. h[p] = h[n] + w[p] /\ h[p] = h[s] + w[p]
    BY <1>4, <1>6
  <2>2. h[n] \in Nat /\ h[s] \in Nat /\ w[p] \in Nat
    BY <1>4, <1>6
  <2> QED
    BY <2>1, <2>2
<1>9. s # NULL
  BY <1>6, <1>7, <1>8
<1>10. s # Phantom
  <2>1. SUFFICES ASSUME s = Phantom PROVE FALSE
    OBVIOUS
  <2>2. At(t, s, "left") = NULL
    BY <1>1, <1>4, <1>9, <2>1, SidesFacts DEF Tree, Links
  <2>3. w[s] = 0
    BY <1>3, <1>4, <1>9, <2>1 DEF Weights, Own
  <2>4. h[s] = h[At(t, s, "left")] + w[s]
    BY <1>4, <1>6, <1>9, SidesFacts
  <2> QED
    BY <1>6, <1>7, <1>8, <2>2, <2>3, <2>4
<1>11. p # Phantom /\ s # p
  BY <1>1, <1>4, <1>9, ChildFacts
<1> QED
  BY <1>3, <1>4, <1>5, <1>9, <1>10, <1>11

(* A red sibling is turned up: the node gets a red parent and a black      *)
(* sibling.                                                                *)
LEMMA RedSiblingTurned ==
    ASSUME NEW t, NEW n \in Nodes(t), n # t.root, Sound(t, n, NULL), ~ IsRed(t, n),
           NEW p, p = Parent(t, n), NEW s, s = Sibling(t, n), IsRed(t, s),
           NEW side, side = Side(t, n),
           NEW u, u = Rotate(Paint(Paint(t, p, "red"), s, "black"), p, side)
    PROVE  /\ Sound(u, n, NULL) /\ SameBindings(t, u)
           /\ ~ IsRed(u, n) /\ Parent(u, n) = p /\ IsRed(u, p)
<1>1. PICK b, top : Tree(t, b, top)
  BY DEF Sound
<1>2. PICK h : Weighted(t, Weights(t, n), h)
  BY DEF Sound
<1>3. RedsApart(t, NULL) /\ Carries(t)
  BY DEF Sound
<1>4. /\ s \in Nodes(t) /\ s # NULL /\ s # Phantom /\ s # n /\ s # p /\ p \in Nodes(t) /\ p # n
      /\ NULL \notin Nodes(t) /\ p # Phantom
  BY SiblingThere
<1>5. PICK o : o = Opposite(side)
  OBVIOUS
<1>6. /\ side \in Sides /\ o \in Sides /\ o # side /\ At(t, p, side) = n /\ At(t, p, o) = s
      /\ \A d \in Sides : d = side \/ d = o
  BY <1>1, <1>5, BothSides
<1>7. ~ IsRed(t, p)
  BY <1>3, <1>4, <1>6 DEF RedsApart
<1>8. PICK m : m = Paint(Paint(t, p, "red"), s, "black")
  OBVIOUS
<1>9. /\ SameLinks(t, m) /\ SameBindings(t, m)
      /\ \A z \in Nodes(t) :
            At(m, z, "color") = IF z = s THEN "black" ELSE IF z = p THEN "red"
                                ELSE At(t, z, "color")
  BY <1>1, <1>4, <1>8, PaintTwice DEF Tree
<1>10. u = Rotate(m, p, side)
  BY <1>8
<1>11. /\ Swung(t, u, p, side, s) /\ \E c : Tree(u, c, top)
       /\ \A y \in Nodes(t) : At(u, y, "color") = At(m, y, "color") /\ At(u, y, "val") = At(m, y, "val")
       /\ Nodes(u) = Nodes(t)
  BY <1>1, <1>4, <1>5, <1>6, <1>9, <1>10, RotateTree
<1>12. \E f : Weighted(u, Weights(u, n), f)
  <2>1. At(t, p, "color") = "black"
    BY <1>3, <1>4, <1>7 DEF Carries, IsRed
  <2>2. \A y \in Nodes(t) : At(m, y, "color") = IF y = s THEN At(t, p, "color")
                                                 ELSE IF y = p THEN "red" ELSE At(t, y, "color")
    BY <1>9, <2>1
  <2> QED
    BY <1>1, <1>2, <1>4, <1>5, <1>6, <1>9, <1>10, <2>2, RedTurned
<1>13. /\ u.root = IF t.root = p THEN s ELSE t.root
       /\ At(u, p, o) = At(t, s, side) /\ At(u, p, side) = n
       /\ At(u, s, side) = p
       /\ \A y \in Nodes(t) \ {p, s}, d \in Sides :
             At(u, y, d) = IF At(t, y, d) = p THEN s ELSE At(t, y, d)
  BY <1>5, <1>6, <1>11 DEF Swung
<1>14. \A y \in Nodes(t) : IsRed(u, y) <=> y = p \/ (y # s /\ IsRed(t, y))
  BY <1>4, <1>9, <1>11 DEF IsRed
<1>15. \A x \in Nodes(t), d \in Sides : At(t, x, d) # NULL => At(t, x, d) \in Nodes(t)
  BY <1>1, ChildFacts
<1>16. \A x \in Nodes(t), d \in Sides :
          At(t, x, d) # NULL /\ IsRed(t, x) => ~ IsRed(t, At(t, x, d))
  BY <1>3 DEF RedsApart
<1>17. RedsApart(u, NULL)
  <2>1. ASSUME NEW x \in Nodes(t), NEW d \in Sides, NEW c, c = At(u, x, d), c # NULL,
               IsRed(u, x), IsRed(u, c)
        PROVE  FALSE
    <3>1. CASE x = p
      <4>1. CASE d = side
        BY <1>4, <1>13, <1>14, <2>1, <3>1, <4>1
      <4>2. CASE d = o
        <5>1. c = At(t, s, side) /\ c \in Nodes(t) /\ ~ IsRed(t, c) /\ c # p
          <6>1. c = At(t, s, side)
            BY <1>13, <2>1, <3>1, <4>2
          <6>2. c \in Nodes(t) /\ ~ IsRed(t, c)
            BY <1>4, <1>6, <1>15, <1>16, <2>1, <6>1
          <6>3. c # p
            <7>1. Width(b, c) < Width(b, s) /\ Width(b, s) < Width(b, p)
                  /\ Width(b, c) \in Nat /\ Width(b, s) \in Nat /\ Width(b, p) \in Nat
              BY <1>1, <1>4, <1>6, <2>1, <6>1, ChildFacts
            <7> QED
              BY <7>1
          <6> QED
            BY <6>1, <6>2, <6>3
        <5> QED
          BY <1>14, <2>1, <5>1
      <4> QED
        BY <1>6, <4>1, <4>2
    <3>2. CASE x = s
      BY <1>4, <1>14, <2>1, <3>2
    <3>3. CASE x \notin {p, s}
      <4>1. IsRed(t, x)
        BY <1>14, <2>1, <3>3
      <4>2. CASE At(t, x, d) = p
        <5>1. c = s
          BY <1>13, <2>1, <3>3, <4>2
        <5> QED
          BY <1>4, <1>14, <2>1, <5>1
      <4>3. CASE At(t, x, d) # p
        <5>1. c = At(t, x, d) /\ c \in Nodes(t) /\ c # p
          BY <1>13, <1>15, <2>1, <3>3, <4>3
        <5> QED
          BY <1>14, <1>16, <2>1, <4>1, <5>1
      <4> QED
        BY <4>2, <4>3
    <3> QED
      BY <3>1, <3>2, <3>3
  <2>2. u.root # NULL => ~ IsRed(u, u.root)
    <3>1. t.root # NULL => t.root \in Nodes(t) /\ ~ IsRed(t, t.root)
      BY <1>1, <1>3 DEF RedsApart, Tree, Links
    <3>2. CASE t.root = p
      BY <1>4, <1>13, <1>14, <3>2
    <3>3. CASE t.root # p
      BY <1>13, <1>14, <3>1, <3>3
    <3> QED
      BY <3>2, <3>3
  <2> QED
    BY <1>11, <2>1, <2>2 DEF RedsApart
<1>18. SameBindings(t, u)
  BY <1>9, <1>11 DEF SameBindings
<1>19. Carries(u)
  BY <1>3, <1>4, <1>9, <1>11, <1>14, <1>18 DEF Carries, SameBindings
<1>20. Parent(u, n) = p
  <2>1. PICK c : Tree(u, c, top)
    BY <1>11
  <2>2. At(u, n, "parent") = p
    BY <1>4, <1>6, <1>11, <1>13, <2>1, ChildFacts
  <2> QED
    BY <2>2 DEF At, Parent
<1>21. ~ IsRed(u, n) /\ IsRed(u, p)
  BY <1>4, <1>14
<1> QED
  BY <1>11, <1>12, <1>17, <1>18, <1>19, <1>20, <1>21 DEF Sound

(* The sibling turns red: both sides lack a black node now.  A red parent  *)
(* makes up for it, a black one is the next to be balanced.                *)
LEMMA SiblingPainted ==
    ASSUME NEW t, NEW n \in Nodes(t), n # t.root, Sound(t, n, NULL), ~ IsRed(t, n),
           NEW p, p = Parent(t, n), NEW s, s = Sibling(t, n), ~ IsRed(t, s),
           \A d \in Sides : At(t, s, d) # NULL => ~ IsRed(t, At(t, s, d)),
           NEW e, e = IF IsRed(t, p) THEN NULL ELSE p,
           NEW u, SameLinks(t, u), SameBindings(t, u),
           \A z \in Nodes(t) :
                At(u, z, "color") = IF z = p THEN "black" ELSE IF z = s THEN "red"
                                    ELSE At(t, z, "color")
    PROVE  Sound(u, e, NULL) /\ ~ IsRed(u, p)
<1>1. PICK b, top : Tree(t, b, top)
  BY DEF Sound
<1>2. PICK h : Weighted(t, Weights(t, n), h)
  BY DEF Sound
<1>3. RedsApart(t, NULL) /\ Carries(t)
  BY DEF Sound
<1>4. /\ s \in Nodes(t) /\ s # NULL /\ s # Phantom /\ s # n /\ s # p /\ p \in Nodes(t) /\ p # n
      /\ NULL \notin Nodes(t) /\ p # Phantom /\ Weights(t, n)[n] >= 1
  BY SiblingThere
<1>5. Tree(u, b, top) /\ Nodes(u) = Nodes(t) /\ u.root = t.root
  BY <1>1, SameTree DEF SameLinks
<1>6. \E f : Weighted(u, Weights(u, e), f)
  <2>1. PICK v, w : v = Weights(u, e) /\ w = Weights(t, n)
    OBVIOUS
  <2>2. Weighted(u, w, h)
    BY <1>2, <2>1 DEF Weighted, SameLinks
  <2>3. v \in [Nodes(u) -> Nat]
    BY <2>1 DEF Weights, Own
  <2>4. v[n] = w[n] + (0 - 1)
    BY <1>4, <1>5, <2>1 DEF Weights, Own, IsRed
  <2>5. v[s] = w[s] + (0 - 1)
    BY <1>4, <1>5, <2>1 DEF Weights, Own, IsRed
  <2>6. v[p] = w[p] - (0 - 1)
    BY <1>4, <1>5, <2>1 DEF Weights, Own, IsRed
  <2>7. \A x \in Nodes(t) \ {n, s, p} : v[x] = w[x]
    BY <1>4, <1>5, <2>1 DEF Weights, Own, IsRed
  <2>8. \/ At(u, p, "left") = n /\ At(u, p, "right") = s
        \/ At(u, p, "left") = s /\ At(u, p, "right") = n
    <3>1. \/ At(t, p, "left") = n /\ At(t, p, "right") = s
          \/ At(t, p, "left") = s /\ At(t, p, "right") = n
      BY <1>1, BothSides
    <3> QED
      BY <1>4, <3>1, SidesFacts DEF SameLinks
  <2>9. n # NULL
    BY <1>4
  <2>10. CASE At(u, p, "left") = n /\ At(u, p, "right") = s
    <3>1. Weighted(u, v, [h EXCEPT ![n] = h[n] + (0 - 1), ![s] = h[s] + (0 - 1)])
      BY <1>4, <1>5, <2>2, <2>3, <2>4, <2>5, <2>6, <2>7, <2>9, <2>10, Exchanged
    <3> QED
      BY <2>1, <3>1
  <2>11. CASE At(u, p, "left") = s /\ At(u, p, "right") = n
    <3>1. Weighted(u, v, [h EXCEPT ![s] = h[s] + (0 - 1), ![n] = h[n] + (0 - 1)])
      BY <1>4, <1>5, <2>2, <2>3, <2>4, <2>5, <2>6, <2>7, <2>9, <2>11, Exchanged
    <3> QED
      BY <2>1, <3>1
  <2> QED
    BY <2>8, <2>10, <2>11
<1>7. \A y \in Nodes(t) : IsRed(u, y) <=> y # p /\ (y = s \/ IsRed(t, y))
  BY <1>4 DEF IsRed
<1>8. RedsApart(u, NULL)
  <2>1. \A x \in Nodes(t), d \in Sides : At(u, x, d) = At(t, x, d)
    BY DEF SameLinks
  <2>2. \A x \in Nodes(t), d \in Sides :
           At(t, x, d) # NULL => At(t, x, d) \in Nodes(t) /\ At(t, x, d) # x
                                 /\ At(t, At(t, x, d), "parent") = x
    BY <1>1, ChildFacts
  <2>3. At(t, s, "parent") = p
    <3>1. PICK d \in Sides : At(t, p, d) = s
      BY <1>1, BothSides
    <3> QED
      BY <1>4, <2>2, <3>1
  <2>4. ASSUME NEW x \in Nodes(t), NEW d \in Sides, NEW c, c = At(t, x, d), c # NULL,
               IsRed(u, x), IsRed(u, c)
        PROVE  FALSE
    <3>1. c \in Nodes(t) /\ c # x /\ At(t, c, "parent") = x
      BY <2>2, <2>4
    <3>2. c # s /\ IsRed(t, c)
      BY <1>7, <2>3, <2>4, <3>1
    <3>3. x # s
      BY <2>4, <3>2
    <3>4. IsRed(t, x)
      BY <1>7, <2>4, <3>3
    <3> QED
      BY <1>3, <2>4, <3>2, <3>4 DEF RedsApart
  <2>5. t.root # NULL => ~ IsRed(u, t.root)
    <3>1. t.root # NULL => t.root \in Nodes(t) /\ ~ IsRed(t, t.root)
      BY <1>1, <1>3 DEF RedsApart, Tree, Links
    <3>2. s # t.root
      <4>1. PICK d \in Sides : At(t, p, d) = s
        BY <1>1, BothSides
      <4> QED
        BY <1>1, <1>4, <4>1, ChildFacts
    <3> QED
      BY <1>7, <3>1, <3>2
  <2> QED
    BY <1>5, <2>1, <2>4, <2>5 DEF RedsApart
<1>9. Carries(u)
  BY <1>3, <1>4, <1>5, <1>7 DEF Carries, SameBindings
<1>10. ~ IsRed(u, p)
  BY <1>4, <1>7
<1> QED
  BY <1>5, <1>6, <1>8, <1>9, <1>10 DEF Sound

(* A red nephew on the near side is turned up in black, the sibling goes   *)
(* down in red: the far nephew is red then.                                *)
LEMMA NearTurned ==
    ASSUME NEW t, NEW n \in Nodes(t), n # t.root, Sound(t, n, NULL), ~ IsRed(t, n),
           NEW p, p = Parent(t, n), NEW s, s = Sibling(t, n), ~ IsRed(t, s),
           NEW side, side = Side(t, n),
           NEW near, near = At(t, s, side), near # NULL, IsRed(t, near),
           At(t, s, Opposite(side)) # NULL => ~ IsRed(t, At(t, s, Opposite(side))),
           NEW u, u = Rotate(Paint(Paint(t, s, "red"), near, "black"), s, Opposite(side))
    PROVE  /\ Sound(u, n, NULL) /\ SameBindings(t, u)
           /\ n # u.root /\ Parent(u, n) = p /\ Side(u, n) = side /\ Sibling(u, n) = near
           /\ ~ IsRed(u, near) /\ At(u, near, Opposite(side)) = s /\ IsRed(u, s) /\ ~ IsRed(u, n)
<1>1. PICK b, top : Tree(t, b, top)
  BY DEF Sound
<1>2. PICK h : Weighted(t, Weights(t, n), h)
  BY DEF Sound
<1>3. RedsApart(t, NULL) /\ Carries(t)
  BY DEF Sound
<1>0. PICK o : o = Opposite(side)
  OBVIOUS
<1>4. /\ s \in Nodes(t) /\ s # NULL /\ s # Phantom /\ s # n /\ s # p /\ p \in Nodes(t) /\ p # n
      /\ NULL \notin Nodes(t) /\ p # Phantom
  BY SiblingThere
<1>5. /\ side \in Sides /\ o \in Sides /\ o # side /\ At(t, p, side) = n /\ At(t, p, o) = s
      /\ \A d \in Sides : d = side \/ d = o
  BY <1>0, <1>1, BothSides
<1>26. side = Opposite(o)
  BY <1>0, <1>1, BothSides
<1>6. \A x \in Nodes(t), d \in Sides :
          At(t, x, d) # NULL => At(t, x, d) \in Nodes(t) /\ At(t, x, d) # x
                                /\ At(t, At(t, x, d), "parent") = x /\ At(t, x, d) # t.root
  BY <1>1, ChildFacts
<1>7. /\ near \in Nodes(t) /\ near # s /\ At(t, near, "parent") = s /\ near # t.root
      /\ At(t, s, "parent") = p /\ s # t.root /\ At(t, n, "parent") = p
  BY <1>4, <1>5, <1>6
<1>8. near # n /\ near # p /\ near # Phantom
  <2>1. near # Phantom
    BY <1>3, <1>7 DEF Carries
  <2>2. Width(b, near) < Width(b, s) /\ Width(b, s) < Width(b, p)
        /\ Width(b, near) \in Nat /\ Width(b, s) \in Nat /\ Width(b, p) \in Nat
    BY <1>1, <1>4, <1>5, ChildFacts
  <2>3. near # p
    BY <2>2
  <2> QED
    BY <1>4, <1>7, <2>1, <2>3
<1>9. PICK m : m = Paint(Paint(t, s, "red"), near, "black")
  OBVIOUS
<1>10. /\ SameLinks(t, m) /\ SameBindings(t, m)
       /\ \A z \in Nodes(t) :
             At(m, z, "color") = IF z = near THEN "black" ELSE IF z = s THEN "red"
                                 ELSE At(t, z, "color")
  BY <1>1, <1>4, <1>7, <1>9, PaintTwice DEF Tree
<1>11. u = Rotate(m, s, o)
  BY <1>0, <1>9
<1>12. /\ Swung(t, u, s, o, near) /\ \E c : Tree(u, c, top)
       /\ \A y \in Nodes(t) : At(u, y, "color") = At(m, y, "color") /\ At(u, y, "val") = At(m, y, "val")
       /\ Nodes(u) = Nodes(t)
  BY <1>1, <1>4, <1>5, <1>8, <1>10, <1>11, <1>26, RotateTree
<1>13. \E f : Weighted(u, Weights(u, n), f)
  <2>1. At(t, s, "color") = "black"
    BY <1>3, <1>4 DEF Carries, IsRed
  <2>2. \A y \in Nodes(t) : At(m, y, "color") = IF y = near THEN At(t, s, "color")
                                                 ELSE IF y = s THEN "red" ELSE At(t, y, "color")
    BY <1>10, <2>1
  <2> QED
    BY <1>1, <1>2, <1>4, <1>5, <1>8, <1>10, <1>11, <1>26, <2>2, RedTurned
<1>14. /\ u.root = t.root
       /\ At(u, s, side) = At(t, near, o) /\ At(u, s, o) = At(t, s, o)
       /\ At(u, near, o) = s /\ At(u, near, side) = At(t, near, side)
       /\ \A y \in Nodes(t) \ {s, near}, d \in Sides :
             At(u, y, d) = IF At(t, y, d) = s THEN near ELSE At(t, y, d)
  BY <1>5, <1>7, <1>12, <1>26 DEF Swung
<1>15. \A y \in Nodes(t) : IsRed(u, y) <=> y = s \/ (y # near /\ IsRed(t, y))
  BY <1>7, <1>10, <1>12 DEF IsRed
<1>16. \A x \in Nodes(t), d \in Sides :
          At(t, x, d) # NULL /\ IsRed(t, x) => ~ IsRed(t, At(t, x, d))
  BY <1>3 DEF RedsApart
<1>17. RedsApart(u, NULL)
  <2>1. ASSUME NEW x \in Nodes(t), NEW d \in Sides, NEW c, c = At(u, x, d), c # NULL,
               IsRed(u, x), IsRed(u, c)
        PROVE  FALSE
    <3>1. CASE x = s /\ d = side
      <4>1. c = At(t, near, o)
        BY <1>14, <2>1, <3>1
      <4>2. c \in Nodes(t) /\ ~ IsRed(t, c) /\ At(t, c, "parent") = near
        BY <1>5, <1>6, <1>7, <1>8, <1>16, <2>1, <4>1
      <4>3. c # s
        BY <1>4, <1>7, <1>8, <4>2
      <4> QED
        BY <1>15, <2>1, <4>2, <4>3
    <3>2. CASE x = s /\ d = o
      <4>1. c = At(t, s, o)
        BY <1>14, <2>1, <3>2
      <4>2. c \in Nodes(t) /\ ~ IsRed(t, c) /\ c # s
        BY <1>0, <1>4, <1>5, <1>6, <2>1, <4>1
      <4> QED
        BY <1>15, <2>1, <4>2
    <3>3. CASE x = near
      BY <1>7, <1>15, <2>1, <3>3
    <3>4. CASE x \notin {s, near}
      <4>1. IsRed(t, x)
        BY <1>15, <2>1, <3>4
      <4>2. CASE At(t, x, d) = s
        <5>1. c = near
          BY <1>14, <2>1, <3>4, <4>2
        <5> QED
          BY <1>7, <1>15, <2>1, <5>1
      <4>3. CASE At(t, x, d) # s
        <5>1. c = At(t, x, d) /\ c \in Nodes(t) /\ c # s
          BY <1>6, <1>14, <2>1, <3>4, <4>3
        <5> QED
          BY <1>15, <1>16, <2>1, <4>1, <5>1
      <4> QED
        BY <4>2, <4>3
    <3> QED
      BY <1>5, <3>1, <3>2, <3>3, <3>4
  <2>2. t.root # NULL => ~ IsRed(u, t.root)
    <3>1. t.root # NULL => t.root \in Nodes(t) /\ ~ IsRed(t, t.root)
      BY <1>1, <1>3 DEF RedsApart, Tree, Links
    <3> QED
      BY <1>7, <1>15, <3>1
  <2> QED
    BY <1>12, <1>14, <2>1, <2>2 DEF RedsApart
<1>18. SameBindings(t, u)
  BY <1>10, <1>12 DEF SameBindings
<1>19. Carries(u)
  BY <1>3, <1>4, <1>10, <1>12, <1>15, <1>18 DEF Carries, SameBindings
<1>20. At(u, p, side) = n /\ At(u, p, o) = near
  BY <1>4, <1>5, <1>8, <1>14
<1>21. Parent(u, n) = p /\ Side(u, n) = side /\ Sibling(u, n) = near
  <2>1. PICK c : Tree(u, c, top)
    BY <1>12
  <2>2. At(u, n, "parent") = p
    BY <1>4, <1>5, <1>12, <1>20, <2>1, ChildFacts
  <2>3. Parent(u, n) = p
    BY <2>2 DEF At, Parent
  <2>4. Side(u, n) = side
    BY <1>5, <1>8, <1>20, <2>3, SidesFacts DEF Side, At, Sides
  <2> QED
    BY <1>0, <1>20, <2>3, <2>4 DEF Sibling, At
<1>22. ~ IsRed(u, near) /\ IsRed(u, s) /\ ~ IsRed(u, n)
  BY <1>4, <1>7, <1>15
<1> QED
  BY <1>0, <1>12, <1>13, <1>14, <1>17, <1>18, <1>19, <1>21, <1>22 DEF Sound

(* The sibling takes the place and the color of the parent, which goes     *)
(* down in black to the side that lacks one.                               *)
LEMMA FarTurned ==
    ASSUME NEW t, NEW n \in Nodes(t), n # t.root, Sound(t, n, NULL), ~ IsRed(t, n),
           NEW p, p = Parent(t, n), NEW s, s = Sibling(t, n), ~ IsRed(t, s),
           NEW side, side = Side(t, n),
           NEW far, far = At(t, s, Opposite(side)), far # NULL, IsRed(t, far),
           NEW u, u = Rotate(Paint(Paint(Paint(t, s, Color(t, p)), p, "black"), far, "black"),
                             p, side)
    PROVE  Sound(u, NULL, NULL) /\ SameBindings(t, u)
<1>1. PICK b, top : Tree(t, b, top)
  BY DEF Sound
<1>2. PICK h : Weighted(t, Weights(t, n), h)
  BY DEF Sound
<1>3. RedsApart(t, NULL) /\ Carries(t)
  BY DEF Sound
<1>0. PICK o : o = Opposite(side)
  OBVIOUS
<1>4. /\ s \in Nodes(t) /\ s # NULL /\ s # Phantom /\ s # n /\ s # p /\ p \in Nodes(t) /\ p # n
      /\ NULL \notin Nodes(t) /\ p # Phantom /\ Weights(t, n)[n] >= 1
  BY SiblingThere
<1>5. /\ side \in Sides /\ o \in Sides /\ o # side /\ At(t, p, side) = n /\ At(t, p, o) = s
      /\ \A d \in Sides : d = side \/ d = o
  BY <1>0, <1>1, BothSides
<1>25. far = At(t, s, o)
  BY <1>0
<1>6. \A x \in Nodes(t), d \in Sides :
          At(t, x, d) # NULL => At(t, x, d) \in Nodes(t) /\ At(t, x, d) # x
                                /\ At(t, At(t, x, d), "parent") = x /\ At(t, x, d) # t.root
  BY <1>1, ChildFacts
<1>7. /\ far \in Nodes(t) /\ far # s /\ At(t, far, "parent") = s /\ far # t.root
      /\ At(t, s, "parent") = p /\ s # t.root /\ At(t, n, "parent") = p
  BY <1>4, <1>5, <1>6, <1>25
<1>8. far # n /\ far # p /\ far # Phantom
  <2>1. far # Phantom
    BY <1>3, <1>7 DEF Carries
  <2>2. Width(b, far) < Width(b, s) /\ Width(b, s) < Width(b, p)
        /\ Width(b, far) \in Nat /\ Width(b, s) \in Nat /\ Width(b, p) \in Nat
    BY <1>1, <1>4, <1>5, <1>25, ChildFacts
  <2>3. far # p
    BY <2>2
  <2> QED
    BY <1>4, <1>7, <2>1, <2>3
<1>9. PICK m1 : m1 = Paint(Paint(t, s, Color(t, p)), p, "black")
  OBVIOUS
<1>10. Color(t, p) = At(t, p, "color")
  BY <1>4 DEF Color, At
<1>11. /\ SameLinks(t, m1) /\ SameBindings(t, m1)
       /\ \A z \in Nodes(t) :
             At(m1, z, "color") = IF z = p THEN "black" ELSE IF z = s THEN At(t, p, "color")
                                 ELSE At(t, z, "color")
  BY <1>1, <1>4, <1>9, <1>10, PaintTwice DEF Tree
<1>12. PICK m : m = Paint(m1, far, "black")
  OBVIOUS
<1>13. Form(m1) /\ Nodes(m1) = Nodes(t)
  BY <1>11 DEF SameLinks
<1>14. /\ SameLinks(m1, m)
       /\ \A y \in Nodes(t) : At(m, y, "color") = IF y = far THEN "black" ELSE At(m1, y, "color")
       /\ \A y \in Nodes(t) : At(m, y, "val") = At(m1, y, "val")
  BY <1>7, <1>12, <1>13, PaintEffect
<1>15. /\ SameLinks(t, m) /\ SameBindings(t, m)
       /\ \A z \in Nodes(t) :
             At(m, z, "color") = IF z = p \/ z = far THEN "black"
                                 ELSE IF z = s THEN At(t, p, "color") ELSE At(t, z, "color")
  BY <1>11, <1>14 DEF SameLinks, SameBindings
<1>16. u = Rotate(m, p, side)
  BY <1>9, <1>12
<1>17. /\ Swung(t, u, p, side, s) /\ \E c : Tree(u, c, top)
       /\ \A y \in Nodes(t) : At(u, y, "color") = At(m, y, "color") /\ At(u, y, "val") = At(m, y, "val")
       /\ Nodes(u) = Nodes(t)
       /\ Turned(m, u, p, side) /\ Tree(m, b, top) /\ s = At(m, p, o)
  BY <1>0, <1>1, <1>4, <1>5, <1>15, <1>16, RotateTree
<1>18. /\ u.root = IF t.root = p THEN s ELSE t.root
       /\ At(u, p, side) = n
       /\ At(u, s, side) = p /\ At(u, s, o) = far
       /\ \A y \in Nodes(t) \ {p, s}, d \in Sides :
             At(u, y, d) = IF At(t, y, d) = p THEN s ELSE At(t, y, d)
  BY <1>0, <1>5, <1>17, <1>25 DEF Swung
<1>19. \A y \in Nodes(t) : IsRed(u, y) <=> y # p /\ y # far /\ IsRed(t, IF y = s THEN p ELSE y)
  BY <1>15, <1>17 DEF IsRed
<1>20. \E f : Weighted(u, Weights(u, NULL), f)
  <2> DEFINE w == Weights(t, n)
             v == [x \in Nodes(t) |-> IF x = n \/ x = s THEN w[x] - 1
                                      ELSE IF x = p THEN w[x] + 1 ELSE w[x]]
  <2>1. w \in [Nodes(t) -> Nat] /\ w[n] >= 1 /\ w[s] = 1 /\ w[far] = 0
    BY <1>4, <1>7, <1>8 DEF Weights, Own
  <2>2. w[p] = IF IsRed(t, p) THEN 0 ELSE 1
    BY <1>4 DEF Weights, Own
  <2>3. \A x \in Nodes(t) \ {n, s, p, far} : w[x] = Weights(u, NULL)[x]
    BY <1>4, <1>17, <1>19 DEF Weights, Own
  <2>4. /\ Weights(u, NULL) \in [Nodes(t) -> Nat]
        /\ Weights(u, NULL)[p] = 1 /\ Weights(u, NULL)[far] = 1
        /\ Weights(u, NULL)[s] = w[p] /\ Weights(u, NULL)[n] = w[n] - 1
    <3>1. Weights(u, NULL) \in [Nodes(t) -> Nat]
      BY <1>17 DEF Weights, Own
    <3>2. Weights(u, NULL)[p] = 1 /\ Weights(u, NULL)[far] = 1
      BY <1>4, <1>7, <1>8, <1>17, <1>19 DEF Weights, Own
    <3>3. Weights(u, NULL)[s] = w[p]
      BY <1>4, <1>7, <1>17, <1>19, <2>2 DEF Weights, Own
    <3>4. Weights(u, NULL)[n] = w[n] - 1
      BY <1>4, <1>8, <1>17, <1>19 DEF Weights, Own
    <3> QED
      BY <3>1, <3>2, <3>3, <3>4
  <2>5. PICK e : e = Weights(u, NULL)
    OBVIOUS
  <2>6. Weighted(t, w, h)
    BY <1>2
  <2> HIDE DEF w
  <2>7. /\ v \in [Nodes(t) -> Nat] /\ v[n] = w[n] + (0 - 1) /\ v[s] = w[s] + (0 - 1)
        /\ v[p] = w[p] - (0 - 1) /\ \A x \in Nodes(t) \ {n, s, p} : v[x] = w[x]
    BY <1>4, <2>1
  <2> HIDE DEF v
  <2>8. PICK h1 : Weighted(t, v, h1)
    <3>1. \/ At(t, p, "left") = n /\ At(t, p, "right") = s
          \/ At(t, p, "left") = s /\ At(t, p, "right") = n
      BY <1>0, <1>1, BothSides
    <3>2. n # NULL
      BY <1>4
    <3>3. CASE At(t, p, "left") = n /\ At(t, p, "right") = s
      <4>1. Weighted(t, v, [h EXCEPT ![n] = h[n] + (0 - 1), ![s] = h[s] + (0 - 1)])
        BY <1>1, <1>4, <2>6, <2>7, <3>2, <3>3, Exchanged
      <4> QED
        BY <4>1
    <3>4. CASE At(t, p, "left") = s /\ At(t, p, "right") = n
      <4>1. Weighted(t, v, [h EXCEPT ![s] = h[s] + (0 - 1), ![n] = h[n] + (0 - 1)])
        BY <1>1, <1>4, <2>6, <2>7, <3>2, <3>4, Exchanged
      <4> QED
        BY <4>1
    <3> QED
      BY <3>1, <3>3, <3>4
  <2>9. Weighted(m, v, h1) /\ Nodes(m) = Nodes(t)
    BY <1>15, <2>8 DEF Weighted, SameLinks
  <2> DEFINE r == [x \in Nodes(t) |-> IF x = p THEN 0 ELSE IF x = s THEN v[p] ELSE v[x]]
  <2>10. /\ r \in [Nodes(t) -> Nat] /\ r[p] = 0 /\ r[s] = v[p] /\ v[s] = 0
         /\ \A x \in Nodes(t) \ {p, s} : r[x] = v[x]
    BY <1>4, <2>1, <2>7
  <2> HIDE DEF r
  <2>11. PICK h2 : Weighted(u, r, h2)
    <3>1. Weighted(u, r, [h1 EXCEPT ![p] = h1[s], ![s] = h1[p]])
      BY <1>0, <1>4, <1>5, <1>17, <2>9, <2>10, TurnedWeights
    <3> QED
      BY <3>1
  <2>12. /\ e \in [Nodes(t) -> Nat] /\ e[p] = r[p] + 1 /\ e[far] = r[far] + 1 /\ e[s] = r[s] - 1
         /\ \A x \in Nodes(t) \ {p, far, s} : e[x] = r[x]
    <3>1. e \in [Nodes(t) -> Nat]
      BY <2>4, <2>5
    <3>2. e[p] = r[p] + 1
      BY <2>4, <2>5, <2>10
    <3>3. e[far] = r[far] + 1
      BY <1>7, <1>8, <2>1, <2>4, <2>5, <2>7, <2>10
    <3>4. e[s] = r[s] - 1
      BY <1>4, <2>1, <2>4, <2>5, <2>7, <2>10
    <3>5. \A x \in Nodes(t) \ {p, far, s} : e[x] = r[x]
      <4> TAKE x \in Nodes(t) \ {p, far, s}
      <4>1. r[x] = v[x]
        BY <2>10
      <4>2. CASE x = n
        BY <1>4, <2>1, <2>4, <2>5, <2>7, <4>1, <4>2
      <4>3. CASE x # n
        BY <2>3, <2>5, <2>7, <4>1, <4>3
      <4> QED
        BY <4>2, <4>3
    <3> QED
      BY <3>1, <3>2, <3>3, <3>4, <3>5
  <2>13. PICK c : Tree(u, c, top)
    BY <1>17
  <2>14. \E f : Weighted(u, e, f)
    <3>1. \/ At(u, s, "left") = p /\ At(u, s, "right") = far
          \/ At(u, s, "left") = far /\ At(u, s, "right") = p
      BY <1>5, <1>18 DEF Sides
    <3>2. p # NULL /\ far # NULL /\ s \in Nodes(u)
      BY <1>4, <1>17
    <3>3. CASE At(u, s, "left") = p /\ At(u, s, "right") = far
      <4>1. Weighted(u, e, [h2 EXCEPT ![p] = h2[p] + 1, ![far] = h2[far] + 1])
        BY <1>17, <2>11, <2>12, <2>13, <3>2, <3>3, Exchanged
      <4> QED
        BY <4>1
    <3>4. CASE At(u, s, "left") = far /\ At(u, s, "right") = p
      <4>1. Weighted(u, e, [h2 EXCEPT ![far] = h2[far] + 1, ![p] = h2[p] + 1])
        BY <1>17, <2>11, <2>12, <2>13, <3>2, <3>4, Exchanged
      <4> QED
        BY <4>1
    <3> QED
      BY <3>1, <3>3, <3>4
  <2> QED
    BY <2>5, <2>14
<1>21. \A x \in Nodes(t), d \in Sides :
          At(t, x, d) # NULL /\ IsRed(t, x) => ~ IsRed(t, At(t, x, d))
  BY <1>3 DEF RedsApart
<1>22. RedsApart(u, NULL)
  <2>1. ASSUME NEW x \in Nodes(t), NEW d \in Sides, NEW c, c = At(u, x, d), c # NULL,
               IsRed(u, x), IsRed(u, c)
        PROVE  FALSE
    <3>1. CASE x = p
      BY <1>19, <2>1, <3>1
    <3>2. CASE x = s
      <4>1. c = p \/ c = far
        BY <1>5, <1>18, <2>1, <3>2
      <4> QED
        BY <1>4, <1>7, <1>19, <2>1, <4>1
    <3>3. CASE x \notin {p, s}
      <4>1. IsRed(t, x)
        BY <1>19, <2>1, <3>3
      <4>2. CASE At(t, x, d) = p
        <5>1. c = s
          BY <1>18, <2>1, <3>3, <4>2
        <5>2. IsRed(t, p)
          BY <1>4, <1>19, <2>1, <5>1
        <5> QED
          BY <1>4, <1>21, <4>1, <4>2, <5>2
      <4>3. CASE At(t, x, d) # p
        <5>1. c = At(t, x, d) /\ c \in Nodes(t) /\ At(t, c, "parent") = x
          BY <1>6, <1>18, <2>1, <3>3, <4>3
        <5>2. c # s
          BY <1>7, <3>3, <5>1
        <5>3. IsRed(t, c)
          BY <1>19, <2>1, <5>1, <5>2
        <5> QED
          BY <1>21, <2>1, <4>1, <5>1, <5>3
      <4> QED
        BY <4>2, <4>3
    <3> QED
      BY <3>1, <3>2, <3>3
  <2>2. u.root # NULL => ~ IsRed(u, u.root)
    <3>1. t.root # NULL => t.root \in Nodes(t) /\ ~ IsRed(t, t.root)
      BY <1>1, <1>3 DEF RedsApart, Tree, Links
    <3>2. CASE t.root = p
      BY <1>4, <1>18, <1>19, <3>1, <3>2
    <3>3. CASE t.root # p
      BY <1>7, <1>18, <1>19, <3>1, <3>3
    <3> QED
      BY <3>2, <3>3
  <2> QED
    BY <1>17, <2>1, <2>2 DEF RedsApart
<1>23. SameBindings(t, u)
  BY <1>15, <1>17 DEF SameBindings
<1>24. Carries(u)
  <2>1. \A y \in Nodes(t) : At(u, y, "color") \in {"red", "black"}
    BY <1>3, <1>4, <1>15, <1>17 DEF Carries
  <2>2. Phantom \in Nodes(t) => ~ IsRed(u, Phantom)
    BY <1>3, <1>4, <1>19 DEF Carries
  <2>3. \A y \in Nodes(t) : y # Phantom => y \in Keys /\ At(u, y, "val") \in Values
    BY <1>3, <1>23 DEF Carries, SameBindings
  <2> QED
    BY <1>17, <2>1, <2>2, <2>3 DEF Carries
<1> QED
  BY <1>17, <1>20, <1>22, <1>23, <1>24 DEF Sound

-----------------------------------------------------------------------------
(* A set of numbers has a least one.                                       *)
LEMMA LeastIn ==
    ASSUME NEW H \in SUBSET Nat, H # {}
    PROVE  \E i \in H : \A j \in H : i <= j
<1>1. PICK i \in H : \A j \in H : ~ (<<j, i>> \in OpToRel(<, Nat))
  BY WFMin, NatLessThanWellFounded
<1>2. \A j \in H : ~ (j < i)
  BY <1>1 DEF OpToRel
<1> QED
  BY <1>2

(* Intervals have a width, and none is wider than the root's.              *)
LEMMA WidthFacts ==
    ASSUME NEW t, NEW b, NEW top, Tree(t, b, top), NEW x \in Nodes(t)
    PROVE  Width(b, x) \in Nat /\ top - Width(b, x) \in Nat
<1>1. /\ top \in Nat /\ b[x]["left"] \in Int /\ b[x]["right"] \in Int
      /\ 0 <= b[x]["left"] /\ b[x]["left"] < b[x]["right"] /\ b[x]["right"] <= top
  BY SidesFacts DEF Tree, Order
<1> QED
  BY <1>1 DEF Width

(* Among any nodes there is one that is not below another of them.         *)
LEMMA Topmost ==
    ASSUME NEW t, NEW b, NEW top, Tree(t, b, top), NEW S \in SUBSET Nodes(t), S # {}
    PROVE  \E x \in S : x = t.root \/ At(t, x, "parent") \notin S
<1> DEFINE H == {top - Width(b, x) : x \in S}
<1>1. H \in SUBSET Nat /\ H # {}
  BY WidthFacts
<1>2. PICK x \in S : \A y \in S : top - Width(b, x) <= top - Width(b, y)
  <2>1. PICK i \in H : \A j \in H : i <= j
    BY <1>1, LeastIn
  <2> QED
    BY <2>1
<1>3. ASSUME x # t.root, At(t, x, "parent") \in S PROVE FALSE
  <2>1. PICK y : y = At(t, x, "parent")
    OBVIOUS
  <2>2. PICK d \in Sides : At(t, y, d) = x
    BY <1>3, <2>1 DEF Tree, Links
  <2>3. x # NULL /\ y \in Nodes(t)
    BY <1>3, <2>1 DEF Tree, Links, NULL, Phantom
  <2>4. Width(b, x) < Width(b, y)
    BY <2>2, <2>3, ChildFacts
  <2>5. /\ Width(b, x) \in Nat /\ Width(b, y) \in Nat /\ top \in Nat
        /\ top - Width(b, x) <= top - Width(b, y)
    BY <1>2, <1>3, <2>1, <2>3, WidthFacts DEF Tree, Order
  <2> QED
    BY <2>4, <2>5
<1> QED
  BY <1>3

(* The phantom goes, and nothing of what the tree promises.                *)
LEMMA PhantomUnlinked ==
    ASSUME NEW t, Sound(t, NULL, NULL), NEW u, u = PhantomGone(t)
    PROVE  /\ Sound(u, NULL, NULL) /\ Nodes(u) = Nodes(t) \ {Phantom}
           /\ \A y \in Nodes(u) : At(u, y, "val") = At(t, y, "val")
<1>1. CASE Phantom \notin Nodes(t)
  <2>1. u = t
    BY <1>1 DEF PhantomGone
  <2> QED
    BY <1>1, <2>1
<1>2. CASE Phantom \in Nodes(t)
  <2>1. PICK b, top : Tree(t, b, top)
    BY DEF Sound
  <2>2. PICK h : Weighted(t, Weights(t, NULL), h)
    BY DEF Sound
  <2>3. RedsApart(t, NULL) /\ Carries(t)
    BY DEF Sound
  <2>4. PICK f : f = Phantom
    OBVIOUS
  <2>5. f \in Nodes(t) /\ NULL \notin Nodes(t) /\ f # NULL
    BY <1>2, <2>1, <2>4 DEF Tree, Links, NULL, Phantom
  <2>6. PICK q : q = At(t, f, "parent")
    OBVIOUS
  <2>7. PICK z : z = Side(t, f)
    OBVIOUS
  <2>8. /\ q = NULL \/ q \in Nodes(t)
        /\ q = NULL <=> f = t.root
    BY <2>1, <2>5, <2>6 DEF Tree, Links
  <2>9. f # t.root => q # f /\ z \in Sides /\ At(t, q, z) = f
    BY <2>1, <2>5, <2>6, <2>7, BothSides DEF Parent, At
  <2>10. PICK r : r = Redirect(t, f, NULL)
    OBVIOUS
  <2>11. /\ Form(r) /\ Nodes(r) = Nodes(t)
         /\ r.root = IF q = NULL THEN NULL ELSE t.root
         /\ \A y \in Nodes(t), g \in Fields :
               At(r, y, g) = IF q # NULL /\ y = q /\ g = z THEN NULL ELSE At(t, y, g)
    BY <2>1, <2>5, <2>6, <2>7, <2>8, <2>10, RedirectEffect DEF Tree
  <2>12. u = [r EXCEPT !.node = [x \in Nodes(t) \ {f} |-> r.node[x]]]
    BY <1>2, <2>4, <2>10 DEF PhantomGone
  <2>13. /\ Form(u) /\ Nodes(u) = Nodes(t) \ {f} /\ u.root = r.root
         /\ \A y \in Nodes(u), g \in Fields : At(u, y, g) = At(r, y, g)
    <3>1. DOMAIN r = {"root", "node"} /\ DOMAIN r.node = Nodes(t)
          /\ \A x \in Nodes(t) : DOMAIN r.node[x] = Fields
      BY <2>11 DEF Form, Nodes
    <3>2. DOMAIN u = {"root", "node"} /\ u.root = r.root
          /\ u.node = [x \in Nodes(t) \ {f} |-> r.node[x]]
      BY <2>12, <3>1
    <3>3. Nodes(u) = Nodes(t) \ {f} /\ \A x \in Nodes(t) \ {f} : u.node[x] = r.node[x]
      BY <3>2 DEF Nodes
    <3> QED
      BY <3>1, <3>2, <3>3 DEF Form, At
  <2>14. /\ \A y \in Nodes(u), g \in Sides :
                At(u, y, g) = IF At(t, y, g) = f THEN NULL ELSE At(t, y, g)
         /\ \A y \in Nodes(u) : /\ At(u, y, "parent") = At(t, y, "parent")
                                /\ At(u, y, "color") = At(t, y, "color")
                                /\ At(u, y, "val") = At(t, y, "val")
         /\ u.root = IF t.root = f THEN NULL ELSE t.root
    <3>1. ASSUME NEW y \in Nodes(u), NEW g \in Sides
          PROVE  At(u, y, g) = IF At(t, y, g) = f THEN NULL ELSE At(t, y, g)
      <4>1. y \in Nodes(t) /\ g \in Fields
        BY <2>13, SidesFacts
      <4>2. At(u, y, g) = IF q # NULL /\ y = q /\ g = z THEN NULL ELSE At(t, y, g)
        BY <2>11, <2>13, <4>1
      <4>3. At(t, y, g) = f => y = q
        BY <2>1, <2>5, <2>6, <4>1, ChildFacts
      <4>4. y = q /\ At(t, y, g) = f => g = z
        <5>1. SUFFICES ASSUME y = q, At(t, y, g) = f, g # z PROVE FALSE
          OBVIOUS
        <5>2. z \in Sides /\ At(t, q, z) = f /\ q \in Nodes(t) /\ g = Opposite(z)
          BY <2>5, <2>8, <2>9, <4>1, <5>1, SidesFacts
        <5> QED
          BY <2>1, <2>5, <5>1, <5>2, ChildrenDiffer
      <4>5. q # NULL /\ y = q /\ g = z => At(t, y, g) = f
        BY <2>8, <2>9
      <4>6. q = NULL => At(t, y, g) # f
        BY <2>5, <4>1, <4>3
      <4> QED
        BY <4>2, <4>3, <4>4, <4>5, <4>6
    <3>2. \A y \in Nodes(u) : /\ At(u, y, "parent") = At(t, y, "parent")
                              /\ At(u, y, "color") = At(t, y, "color")
                              /\ At(u, y, "val") = At(t, y, "val")
      <4>1. q # NULL => z \notin {"parent", "color", "val"}
        BY <2>8, <2>9, SidesFacts
      <4> QED
        BY <2>11, <2>13, <4>1, SidesFacts
    <3> QED
      BY <2>8, <2>11, <2>13, <3>1, <3>2
  <2>15. \A y \in Nodes(t), d \in Sides :
            /\ At(t, y, d) # NULL => At(t, y, d) \in Nodes(t) /\ At(t, At(t, y, d), "parent") = y
            /\ y = f => At(t, y, d) = NULL
            /\ At(t, y, "parent") # f
    <3> TAKE y \in Nodes(t), d \in Sides
    <3>1. y = f => At(t, y, d) = NULL
      BY <2>1, <2>4 DEF Tree, Links
    <3>2. At(t, y, d) # NULL => At(t, y, d) \in Nodes(t) /\ At(t, At(t, y, d), "parent") = y
      BY <2>1, ChildFacts
    <3>3. At(t, y, "parent") # f
      <4>1. SUFFICES ASSUME At(t, y, "parent") = f PROVE FALSE
        OBVIOUS
      <4>2. PICK e \in Sides : At(t, f, e) = y
        BY <2>1, <2>5, <4>1 DEF Tree, Links
      <4> QED
        BY <2>1, <2>4, <2>5, <4>2 DEF Tree, Links
    <3> QED
      BY <3>1, <3>2, <3>3
  <2>16. Links(u)
    <3>1. t.root = f => Nodes(t) \ {f} = {}
      <4>1. SUFFICES ASSUME t.root = f, Nodes(t) \ {f} # {} PROVE FALSE
        OBVIOUS
      <4>2. PICK x \in Nodes(t) \ {f} : x = t.root \/ At(t, x, "parent") \notin Nodes(t) \ {f}
        BY <2>1, <4>1, Topmost
      <4>3. At(t, x, "parent") \in Nodes(t)
        BY <2>1, <4>1, <4>2 DEF Tree, Links
      <4> QED
        BY <2>15, <4>1, <4>2, <4>3, SidesFacts
    <3>2. u.root \in Nodes(u) \cup {NULL} /\ (u.root = NULL => Nodes(u) = {})
      <4>1. t.root # NULL => t.root \in Nodes(t)
        BY <2>1 DEF Tree, Links
      <4>2. t.root = NULL => Nodes(t) = {}
        BY <2>1 DEF Tree, Links
      <4> QED
        BY <2>5, <2>13, <2>14, <3>1, <4>1, <4>2
    <3>3. \A x \in Nodes(u) :
             /\ At(u, x, "parent") \in Nodes(u) \cup {NULL}
             /\ At(u, x, "parent") = NULL <=> x = u.root
             /\ x # u.root => \E d \in Sides : At(u, At(u, x, "parent"), d) = x
      <4> TAKE x \in Nodes(u)
      <4>1. x \in Nodes(t) /\ x # f /\ x # NULL
        BY <2>5, <2>13
      <4>2. t.root # f
        BY <2>13, <3>1, <4>1
      <4>3. u.root = t.root /\ At(u, x, "parent") = At(t, x, "parent")
        BY <2>14, <4>2
      <4>4. At(t, x, "parent") \in Nodes(t) \cup {NULL} /\ At(t, x, "parent") # f
        BY <2>1, <2>15, <4>1, SidesFacts DEF Tree, Links
      <4>5. At(t, x, "parent") = NULL <=> x = t.root
        BY <2>1, <4>1 DEF Tree, Links
      <4>6. ASSUME x # t.root PROVE \E d \in Sides : At(u, At(u, x, "parent"), d) = x
        <5>1. PICK d \in Sides : At(t, At(t, x, "parent"), d) = x
          BY <2>1, <4>1, <4>6 DEF Tree, Links
        <5>2. At(t, x, "parent") \in Nodes(u)
          BY <2>13, <4>4, <4>5, <4>6
        <5> QED
          BY <2>14, <4>1, <4>3, <5>1, <5>2
      <4> QED
        BY <2>13, <4>3, <4>4, <4>5, <4>6
    <3>4. \A x \in Nodes(u), d \in Sides :
             /\ At(u, x, d) \in Nodes(u) \cup {NULL}
             /\ At(u, x, d) # NULL => At(u, At(u, x, d), "parent") = x
             /\ x = Phantom => At(u, x, d) = NULL
      <4> TAKE x \in Nodes(u), d \in Sides
      <4>1. x \in Nodes(t) /\ x # Phantom
        BY <2>4, <2>13
      <4>2. CASE At(t, x, d) \in {f, NULL}
        BY <2>14, <4>1, <4>2
      <4>3. CASE At(t, x, d) \notin {f, NULL}
        <5>1. At(u, x, d) = At(t, x, d) /\ At(t, x, d) \in Nodes(u)
          BY <2>13, <2>14, <2>15, <4>1, <4>3
        <5> QED
          BY <2>14, <2>15, <4>1, <4>3, <5>1
      <4> QED
        BY <4>2, <4>3
    <3>5. Nodes(u) \subseteq (Nat \ {0}) \cup {Phantom}
      BY <2>1, <2>13 DEF Tree, Links
    <3> QED
      BY <3>2, <3>3, <3>4, <3>5 DEF Links
  <2>17. \E c : Order(u, c, top)
    <3> DEFINE c == [x \in Nodes(u) |-> b[x]]
    <3>1. c \in [Nodes(u) -> [Sides -> Int]]
      BY <2>1, <2>13 DEF Tree, Order
    <3>2. \A x \in Nodes(u) : x \in Nodes(t) /\ c[x] = b[x]
      BY <2>13
    <3> HIDE DEF c
    <3>3. \A x \in Nodes(u), d \in Sides : At(u, x, d) # NULL =>
             c[At(u, x, d)][d] = c[x][d] /\ c[At(u, x, d)][Opposite(d)] = x
      <4> TAKE x \in Nodes(u), d \in Sides
      <4>1. At(u, x, d) # NULL => At(u, x, d) = At(t, x, d) /\ At(u, x, d) \in Nodes(u)
        BY <2>14, <2>16 DEF Links
      <4> QED
        BY <2>1, <3>2, <4>1 DEF Tree, Order
    <3>4. u.root # NULL => u.root = t.root /\ u.root \in Nodes(u)
      BY <2>14, <2>16 DEF Links
    <3>5. u.root # NULL => c[u.root]["left"] = 0 /\ c[u.root]["right"] = top
      BY <2>1, <3>2, <3>4 DEF Tree, Order
    <3>6. top \in Nat
      BY <2>1 DEF Tree, Order
    <3>7. \A x \in Nodes(u) :
             /\ 0 <= c[x]["left"] /\ c[x]["left"] < c[x]["right"] /\ c[x]["right"] <= top
             /\ x # Phantom => c[x]["left"] < x /\ x < c[x]["right"]
      BY <2>1, <3>2 DEF Tree, Order
    <3> QED
      BY <3>1, <3>3, <3>5, <3>6, <3>7 DEF Order
  <2>18. \E g : Weighted(u, Weights(u, NULL), g)
    <3> DEFINE g == [x \in Nodes(u) \cup {NULL} |-> h[x]]
               w == Weights(t, NULL)
               v == Weights(u, NULL)
    <3>1. v \in [Nodes(u) -> Nat] /\ \A x \in Nodes(u) : v[x] = w[x]
      BY <2>13, <2>14 DEF Weights, Own, IsRed
    <3>2. w[f] = 0
      BY <2>4, <2>5 DEF Weights, Own
    <3> HIDE DEF w, v
    <3>3. /\ h \in [Nodes(t) \cup {NULL} -> Nat] /\ h[NULL] = 0 /\ w \in [Nodes(t) -> Nat]
          /\ \A x \in Nodes(t), d \in Sides : h[x] = h[At(t, x, d)] + w[x]
      BY <2>2 DEF Weighted, w
    <3>4. h[f] = 0
      BY <2>5, <2>15, <3>2, <3>3, SidesFacts
    <3>5. /\ g \in [Nodes(u) \cup {NULL} -> Nat] /\ g[NULL] = 0
          /\ \A x \in Nodes(u) \cup {NULL} : g[x] = h[x]
      BY <2>13, <3>3
    <3> HIDE DEF g
    <3>6. \A x \in Nodes(u), d \in Sides : g[x] = g[At(u, x, d)] + v[x]
      <4> TAKE x \in Nodes(u), d \in Sides
      <4>1. x \in Nodes(t) /\ h[x] = h[At(t, x, d)] + w[x] /\ g[x] = h[x] /\ v[x] = w[x]
        BY <2>13, <3>1, <3>3, <3>5
      <4>2. g[At(u, x, d)] = h[At(t, x, d)]
        <5>1. CASE At(t, x, d) = f
          BY <2>14, <3>4, <3>5, <5>1
        <5>2. CASE At(t, x, d) # f
          <6>1. At(u, x, d) = At(t, x, d) /\ At(u, x, d) \in Nodes(u) \cup {NULL}
            BY <2>14, <2>16, <5>2 DEF Links
          <6> QED
            BY <3>5, <6>1
        <5> QED
          BY <5>1, <5>2
      <4> QED
        BY <4>1, <4>2
    <3>7. Weighted(u, v, g)
      BY <3>1, <3>5, <3>6 DEF Weighted
    <3> QED
      BY <3>7 DEF v
  <2>19. \A y \in Nodes(u) : y \in Nodes(t) /\ (IsRed(u, y) <=> IsRed(t, y))
    BY <2>13, <2>14 DEF IsRed
  <2>20. RedsApart(u, NULL)
    <3>1. \A x \in Nodes(u), d \in Sides : At(u, x, d) # NULL =>
             At(u, x, d) = At(t, x, d) /\ At(u, x, d) \in Nodes(u)
      BY <2>14, <2>16 DEF Links
    <3>2. u.root # NULL => u.root = t.root /\ u.root \in Nodes(u)
      BY <2>14, <2>16 DEF Links
    <3> QED
      BY <2>3, <2>19, <3>1, <3>2 DEF RedsApart
  <2>21. Carries(u)
    BY <2>3, <2>13, <2>14, <2>19 DEF Carries
  <2>22. \E c, i : Tree(u, c, i)
    BY <2>13, <2>16, <2>17 DEF Tree
  <2> QED
    BY <2>4, <2>13, <2>14, <2>18, <2>20, <2>21, <2>22 DEF Sound
<1> QED
  BY <1>1, <1>2

-----------------------------------------------------------------------------
(* The path from n leads by next to where it stops, and ranks fall.        *)
Path(N, stop, next, rank, bound) ==
    /\ stop \in SUBSET N /\ next \in [N \ stop -> N]
    /\ rank \in [N -> Nat] /\ bound \in Nat /\ \A n \in N : rank[n] <= bound
    /\ \A n \in N \ stop : rank[next[n]] < rank[n]

(* A function that calls itself along such a path is there.               *)
Follows(f, N, stop, next, base, step) ==
    \A n \in N : f[n] = IF n \in stop THEN base[n] ELSE step[f[next[n]]]

(* The path comes to where it stops, so there is a function that follows it. *)
LEMMA RecursionExists ==
    ASSUME NEW N, NEW V, NEW stop, NEW next, NEW rank, NEW bound,
           Path(N, stop, next, rank, bound), NEW base \in [N -> V], NEW step \in [V -> V]
    PROVE  \E f \in [N -> V] : Follows(f, N, stop, next, base, step)
<1> DEFINE Up(f, n) == IF n \in stop THEN base[n] ELSE step[f[next[n]]]
           Ok(m) == \E f \in [N -> V] : \A n \in N : rank[n] < m => f[n] = Up(f, n)
           H == {m \in Nat : ~ Ok(m)}
<1>0. /\ stop \in SUBSET N /\ next \in [N \ stop -> N]
      /\ rank \in [N -> Nat] /\ bound \in Nat /\ \A n \in N : rank[n] <= bound
      /\ \A n \in N \ stop : rank[next[n]] < rank[n]
  BY DEF Path
<1>1. Ok(0)
  <2>1. \A n \in N : ~ (rank[n] < 0)
    BY <1>0
  <2> QED
    BY <2>1
<1>2. ASSUME NEW m \in Nat, Ok(m) PROVE Ok(m + 1)
  <2>1. PICK f \in [N -> V] : \A n \in N : rank[n] < m => f[n] = Up(f, n)
    BY <1>2
  <2> DEFINE g == [n \in N |-> IF rank[n] < m THEN f[n] ELSE Up(f, n)]
  <2>2. \A n \in N : Up(f, n) \in V
    BY <1>0
  <2>3. g \in [N -> V] /\ \A n \in N : g[n] = IF rank[n] < m THEN f[n] ELSE Up(f, n)
    <3> HIDE DEF Up
    <3> QED
      BY <2>2
  <2> HIDE DEF g
  <2>4. \A n \in N : rank[n] < m + 1 => g[n] = Up(g, n)
    <3> SUFFICES ASSUME NEW n \in N, rank[n] < m + 1 PROVE g[n] = Up(g, n)
      OBVIOUS
    <3>1. g[n] = Up(f, n)
      BY <1>0, <2>1, <2>3
    <3>2. CASE n \in stop
      BY <3>1, <3>2
    <3>3. CASE n \notin stop
      <4>1. next[n] \in N /\ rank[next[n]] < m
        BY <1>0, <3>3
      <4>2. g[next[n]] = f[next[n]]
        BY <2>3, <4>1
      <4> QED
        BY <3>1, <3>3, <4>2
    <3> QED
      BY <3>2, <3>3
  <2> HIDE DEF Up
  <2> QED
    BY <2>3, <2>4
<1>3. Ok(bound + 1)
  <2>1. SUFFICES ASSUME ~ Ok(bound + 1) PROVE FALSE
    OBVIOUS
  <2> HIDE DEF Ok
  <2>2. H \in SUBSET Nat /\ H # {}
    BY <1>0, <2>1
  <2>3. PICK m \in H : \A j \in H : m <= j
    BY <2>2, LeastIn
  <2>4. m \in Nat /\ ~ Ok(m) /\ m # 0
    BY <1>1, <2>3
  <2>5. m - 1 \in Nat /\ m - 1 \notin H
    BY <2>3, <2>4
  <2>6. Ok(m - 1)
    BY <2>5
  <2>7. Ok((m - 1) + 1)
    BY <1>2, <2>5, <2>6
  <2> QED
    BY <2>4, <2>7
<1>4. PICK f \in [N -> V] : \A n \in N : rank[n] < bound + 1 => f[n] = Up(f, n)
  BY <1>3
<1>5. \A n \in N : f[n] = Up(f, n)
  <2>1. \A n \in N : rank[n] < bound + 1
    BY <1>0
  <2> QED
    BY <1>4, <2>1
<1> QED
  BY <1>5 DEF Follows

(* Key k has its place below x.                                            *)
In(b, x, k) == b[x]["left"] < k /\ k < b[x]["right"]

Next(t, x, k) == IF k < x THEN At(t, x, "left") ELSE At(t, x, "right")

(* The node on the way down to k.                                          *)
LEMMA NextFacts ==
    ASSUME NEW t, NEW b, NEW top, Tree(t, b, top), NEW x \in Nodes(t), NEW k \in Int,
           NEW c, c = Next(t, x, k), c # NULL
    PROVE  /\ c \in Nodes(t) /\ Width(b, c) \in Nat /\ Width(b, x) \in Nat
           /\ Width(b, c) < Width(b, x)
           /\ In(b, x, k) /\ x # k => In(b, c, k)
<1>1. CASE k < x
  <2>1. c = At(t, x, "left")
    BY <1>1 DEF Next
  <2>2. b[c]["left"] = b[x]["left"] /\ b[c]["right"] = x
    BY <2>1, ChildFacts, SidesFacts
  <2> QED
    BY <1>1, <2>1, <2>2, ChildFacts, SidesFacts DEF In
<1>2. CASE ~ (k < x)
  <2>1. c = At(t, x, "right")
    BY <1>2 DEF Next
  <2>2. b[c]["right"] = b[x]["right"] /\ b[c]["left"] = x
    BY <2>1, ChildFacts, SidesFacts
  <2>3. x \in Int
    BY <2>1, ChildFacts, SidesFacts
  <2> QED
    BY <1>2, <2>1, <2>2, <2>3, ChildFacts, SidesFacts DEF In
<1> QED
  BY <1>1, <1>2

(* The descent for k ends at k or where k would have to be.                *)
LEMMA DescendFacts ==
    ASSUME NEW t, NEW b, NEW top, Tree(t, b, top), t.root # NULL, NEW k \in Int, 0 < k, k < top,
           NEW p, p = Descend(t, k)
    PROVE  /\ p \in Nodes(t)
           /\ p # k => In(b, p, k) /\ Next(t, p, k) = NULL
<1>1. t.root \in Nodes(t) /\ NULL \notin Nodes(t)
  BY DEF Tree, Links, NULL, Phantom
<1> DEFINE N == Nodes(t)
           Stops(n) == n = k \/ Next(t, n, k) = NULL
           stop == {n \in N : Stops(n)}
           next == [n \in N \ stop |-> Next(t, n, k)]
           rank == [n \in N |-> Width(b, n)]
           Down(f) == [n \in N |-> IF Stops(n) THEN n ELSE f[Next(t, n, k)]]
<1>2. \E f : f = Down(f)
  <2>1. next \in [N \ stop -> N]
    BY NextFacts
  <2>2. rank \in [N -> Nat] /\ top \in Nat /\ \A n \in N : rank[n] <= top
    <3>1. top \in Nat
      BY DEF Tree, Order
    <3>2. \A n \in N : Width(b, n) \in Nat /\ top - Width(b, n) \in Nat
      BY WidthFacts
    <3> QED
      BY <3>1, <3>2
  <2>3. \A n \in N \ stop : rank[next[n]] < rank[n]
    BY NextFacts
  <2> DEFINE id == [n \in N |-> n]
  <2>4. id \in [N -> N] /\ stop \in SUBSET N
    OBVIOUS
  <2>8. Path(N, stop, next, rank, top)
    <3> HIDE DEF stop, next, rank
    <3> QED
      BY <2>1, <2>2, <2>3, <2>4 DEF Path
  <2> HIDE DEF next, rank, id, Stops
  <2>5. PICK f \in [N -> N] : Follows(f, N, stop, next, id, id)
    <3> HIDE DEF stop
    <3> QED
      BY <2>4, <2>8, RecursionExists
  <2>6. \A n \in N : (IF n \in stop THEN id[n] ELSE id[f[next[n]]])
                       = (IF Stops(n) THEN n ELSE f[Next(t, n, k)])
    <3> TAKE n \in N
    <3>1. CASE Stops(n)
      BY <3>1 DEF id
    <3>2. CASE ~ Stops(n)
      <4>1. next[n] = Next(t, n, k) /\ next[n] \in N
        BY <2>1, <3>2 DEF next
      <4>2. f[next[n]] \in N
        BY <4>1
      <4> QED
        BY <3>2, <4>1, <4>2 DEF id
    <3> QED
      BY <3>1, <3>2
  <2>7. f = Down(f)
    <3>1. f = [n \in N |-> f[n]]
      OBVIOUS
    <3>2. \A n \in N : f[n] = IF n \in stop THEN id[n] ELSE id[f[next[n]]]
      <4> HIDE DEF stop
      <4> QED
        BY <2>5 DEF Follows
    <3> HIDE DEF stop
    <3> QED
      BY <2>6, <3>1, <3>2
  <2> QED
    BY <2>7
<1>3. PICK d : d = Down(d) /\ Descend(t, k) = d[t.root]
  <2> DEFINE Ends(f) == [n \in N |-> LET c == IF k < n THEN t.node[n].left ELSE t.node[n].right
                                     IN  IF n = k \/ c = NULL THEN n ELSE f[c]]
  <2>1. Descend(t, k) = (CHOOSE f : f = Ends(f))[t.root]
    BY DEF Descend
  <2>2. \A f : Ends(f) = Down(f)
    BY DEF Next, At
  <2> HIDE DEF Down, Ends
  <2>3. \E f : f = Ends(f)
    BY <1>2, <2>2
  <2>4. PICK d : d = (CHOOSE f : f = Ends(f))
    OBVIOUS
  <2>5. d = Ends(d)
    BY <2>3, <2>4
  <2> QED
    BY <2>1, <2>2, <2>4, <2>5
<1>4. \A n \in N : d[n] = IF Stops(n) THEN n ELSE d[Next(t, n, k)]
  <2> HIDE DEF Stops
  <2> QED
    BY <1>3
<1> DEFINE Right(q) == q \in N /\ (q # k => In(b, q, k) /\ Next(t, q, k) = NULL)
           Bad == {n \in N : In(b, n, k) /\ ~ Right(d[n])}
           H == {Width(b, n) : n \in Bad}
<1>5. Bad = {}
  <2>1. SUFFICES ASSUME Bad # {} PROVE FALSE
    OBVIOUS
  <2>2. H \in SUBSET Nat /\ H # {}
    BY <2>1, WidthFacts
  <2>3. PICK i \in H : \A j \in H : i <= j
    <3> HIDE DEF H
    <3> QED
      BY <2>2, LeastIn
  <2>4. PICK n \in Bad : \A j \in Bad : Width(b, n) <= Width(b, j)
    BY <2>3
  <2>5. n \in N /\ In(b, n, k) /\ ~ Right(d[n])
    BY <2>4
  <2>6. ~ Stops(n)
    <3>1. SUFFICES ASSUME Stops(n) PROVE FALSE
      OBVIOUS
    <3>2. d[n] = n
      BY <1>4, <2>5, <3>1
    <3> QED
      BY <2>5, <3>1, <3>2
  <2>7. PICK c : c = Next(t, n, k)
    OBVIOUS
  <2>8. c \in N /\ In(b, c, k) /\ Width(b, c) < Width(b, n) /\ Width(b, c) \in Nat /\ Width(b, n) \in Nat
    BY <2>5, <2>6, <2>7, NextFacts
  <2>9. d[n] = d[c]
    BY <1>4, <2>5, <2>6, <2>7
  <2>10. c \in Bad
    BY <2>5, <2>8, <2>9
  <2> QED
    BY <2>4, <2>8, <2>10
<1>6. In(b, t.root, k)
  BY DEF Tree, Order, In
<1>7. Right(d[t.root])
  BY <1>1, <1>5, <1>6
<1> QED
  BY <1>3, <1>7

(* What holds of y, and of the parent of every node it holds of.           *)
ClosedUp(t, y, Q) ==
    Q \in SUBSET Nodes(t) /\ y \in Q /\ \A q \in Q : q # t.root => At(t, q, "parent") \in Q

(* A node that has y within its interval is on the way down to y.          *)
LEMMA TheWay ==
    ASSUME NEW t, NEW b, NEW top, Tree(t, b, top), NEW y \in Nodes(t), y # Phantom,
           NEW x \in Nodes(t), x # y, In(b, x, y)
    PROVE  \E d \in Sides : At(t, x, d) # NULL /\ In(b, At(t, x, d), y)
<1> DEFINE P == {z \in Nodes(t) : \A Q \in SUBSET Nodes(t) : ClosedUp(t, y, Q) => z \in Q}
           T == {z \in Nodes(t) : In(b, z, y) /\ z \notin P}
<1>1. NULL \notin Nodes(t) /\ y \in Int
  BY DEF Tree, Links, NULL, Phantom
<1>2. \A z \in Nodes(t) : z # t.root =>
         /\ At(t, z, "parent") \in Nodes(t)
         /\ \E d \in Sides : At(t, At(t, z, "parent"), d) = z
  BY DEF Tree, Links
<1>3. \A z \in Nodes(t), d \in Sides : At(t, z, d) # NULL =>
         /\ At(t, z, d) \in Nodes(t) /\ At(t, At(t, z, d), "parent") = z
         /\ At(t, z, d) # t.root
         /\ In(b, At(t, z, d), y) => In(b, z, y) /\ z # y
                                     /\ (d = "left" <=> y < z)
  <2> SUFFICES ASSUME NEW z \in Nodes(t), NEW d \in Sides, NEW c, c = At(t, z, d), c # NULL
               PROVE  /\ c \in Nodes(t) /\ At(t, c, "parent") = z /\ c # t.root
                      /\ In(b, c, y) => In(b, z, y) /\ z # y /\ (d = "left" <=> y < z)
    OBVIOUS
  <2>1. /\ c \in Nodes(t) /\ At(t, c, "parent") = z /\ c # t.root /\ z \in Int /\ z # Phantom
        /\ b[c][d] = b[z][d] /\ b[c][Opposite(d)] = z
    BY ChildFacts
  <2>2. /\ b[z]["left"] \in Int /\ b[z]["right"] \in Int /\ b[z]["left"] < z /\ z < b[z]["right"]
    BY <2>1, SidesFacts DEF Tree, Order
  <2>3. CASE d = "left"
    <3>1. b[c]["left"] = b[z]["left"] /\ b[c]["right"] = z
      BY <2>1, <2>3, SidesFacts
    <3> QED
      BY <1>1, <2>1, <2>2, <2>3, <3>1 DEF In
  <2>4. CASE d = "right"
    <3>1. b[c]["right"] = b[z]["right"] /\ b[c]["left"] = z
      BY <2>1, <2>4, SidesFacts
    <3> QED
      BY <1>1, <2>1, <2>2, <2>4, <3>1 DEF In
  <2> QED
    BY <2>3, <2>4 DEF Sides
<1>4. ClosedUp(t, y, P)
  <2>1. \A z \in P : z # t.root => At(t, z, "parent") \in P
    <3> SUFFICES ASSUME NEW z \in P, z # t.root, NEW Q \in SUBSET Nodes(t), ClosedUp(t, y, Q)
                 PROVE  At(t, z, "parent") \in Q
      <4> HIDE DEF ClosedUp
      <4> QED
        BY <1>2
    <3>1. z \in Q
      OBVIOUS
    <3> QED
      BY <1>2, <3>1 DEF ClosedUp
  <2>2. y \in P
    BY DEF ClosedUp
  <2> HIDE DEF P
  <2>3. P \in SUBSET Nodes(t)
    BY DEF P
  <2> QED
    BY <2>1, <2>2, <2>3 DEF ClosedUp
<1>5. \A Q \in SUBSET Nodes(t) : ClosedUp(t, y, Q) => P \subseteq Q
  OBVIOUS
<1> HIDE DEF P
<1>6. P \in SUBSET Nodes(t) /\ y \in P /\ \A q \in P : q # t.root => At(t, q, "parent") \in P
  BY <1>4 DEF ClosedUp
<1>7. \A z \in P : In(b, z, y)
  <2> DEFINE Q == {z \in P : In(b, z, y)}
  <2>1. In(b, y, y)
    BY DEF In, Tree, Order
  <2>2. \A z \in Q : z # t.root => At(t, z, "parent") \in Q
    <3> SUFFICES ASSUME NEW z \in Q, z # t.root PROVE At(t, z, "parent") \in Q
      OBVIOUS
    <3>1. PICK d \in Sides : At(t, At(t, z, "parent"), d) = z
      BY <1>2, <1>6
    <3>2. At(t, z, "parent") \in P /\ z \in Nodes(t) /\ z # NULL
      BY <1>1, <1>6
    <3> QED
      BY <1>3, <1>6, <3>1, <3>2
  <2>3. ClosedUp(t, y, Q)
    BY <1>6, <2>1, <2>2 DEF ClosedUp
  <2> QED
    BY <1>5, <1>6, <2>3
<1>8. \A q \in P : q # y => \E c \in P : c # t.root /\ At(t, c, "parent") = q
  <2> SUFFICES ASSUME NEW q \in P, q # y, \A c \in P : c # t.root => At(t, c, "parent") # q
               PROVE  FALSE
    OBVIOUS
  <2> DEFINE Q == P \ {q}
  <2>1. ClosedUp(t, y, Q)
    BY <1>6 DEF ClosedUp
  <2> QED
    BY <1>5, <1>6, <2>1
<1>9. T = {}
  <2>1. SUFFICES ASSUME T # {} PROVE FALSE
    OBVIOUS
  <2>2. PICK z \in T : z = t.root \/ At(t, z, "parent") \notin T
    <3>1. T \in SUBSET Nodes(t)
      OBVIOUS
    <3> HIDE DEF T
    <3> QED
      BY <2>1, <3>1, Topmost
  <2>3. z \in Nodes(t) /\ In(b, z, y) /\ z \notin P
    BY <2>2
  <2>4. z # t.root
    <3>1. SUFFICES ASSUME z = t.root PROVE FALSE
      OBVIOUS
    <3>2. PICK r \in P : r = t.root \/ At(t, r, "parent") \notin P
      BY <1>6, Topmost
    <3> QED
      BY <1>6, <2>3, <3>1, <3>2
  <2>5. PICK q : q = At(t, z, "parent")
    OBVIOUS
  <2>6. PICK d \in Sides : At(t, q, d) = z
    BY <1>2, <2>3, <2>4, <2>5
  <2>7. q \in Nodes(t) /\ In(b, q, y) /\ q # y /\ (d = "left" <=> y < q)
    <3>1. q \in Nodes(t) /\ z # NULL
      BY <1>1, <1>2, <2>3, <2>4, <2>5
    <3> QED
      BY <1>3, <2>3, <2>6, <3>1
  <2>8. q \in P
    BY <2>2, <2>4, <2>5, <2>7
  <2>9. PICK c \in P : c # t.root /\ At(t, c, "parent") = q
    BY <1>8, <2>7, <2>8
  <2>10. PICK e \in Sides : At(t, q, e) = c
    BY <1>2, <1>6, <2>9
  <2>11. c \in Nodes(t) /\ In(b, c, y)
    BY <1>6, <1>7, <2>9
  <2>12. e = "left" <=> y < q
    BY <1>1, <1>3, <2>7, <2>10, <2>11
  <2>13. e = d
    BY <2>7, <2>12 DEF Sides
  <2> QED
    BY <2>3, <2>6, <2>10, <2>13
<1>10. x \in P
  BY <1>9
<1>11. PICK c \in P : c # t.root /\ At(t, c, "parent") = x
  BY <1>8, <1>10
<1>12. PICK d \in Sides : At(t, x, d) = c
  BY <1>2, <1>6, <1>11
<1> QED
  BY <1>1, <1>6, <1>7, <1>11, <1>12

(* A lookup finds every key that is there.                                 *)
LEMMA KeyIsFound ==
    ASSUME NEW t, NEW b, NEW top, Tree(t, b, top), NEW k \in Nodes(t), k # Phantom
    PROVE  Found(t, k)
<1>1. /\ t.root # NULL /\ k \in Int /\ 0 < k
  BY DEF Tree, Links
<1>2. k < top
  BY <1>1, SidesFacts DEF Tree, Order
<1>3. PICK p : p = Descend(t, k)
  OBVIOUS
<1>4. p \in Nodes(t) /\ (p # k => In(b, p, k) /\ Next(t, p, k) = NULL)
  BY <1>1, <1>2, <1>3, DescendFacts
<1>5. p = k
  <2>1. SUFFICES ASSUME p # k PROVE FALSE
    OBVIOUS
  <2>2. PICK d \in Sides : At(t, p, d) # NULL /\ In(b, At(t, p, d), k)
    BY <1>4, <2>1, TheWay
  <2>3. PICK c : c = At(t, p, d)
    OBVIOUS
  <2>4. /\ c \in Nodes(t) /\ p \in Int /\ b[c][d] = b[p][d] /\ b[c][Opposite(d)] = p
    BY <1>4, <2>2, <2>3, ChildFacts
  <2>5. b[c]["left"] < k /\ k < b[c]["right"]
    BY <2>2, <2>3 DEF In
  <2>6. CASE d = "left"
    <3>1. b[c]["right"] = p
      BY <2>4, <2>6, SidesFacts
    <3> QED
      BY <1>4, <2>1, <2>2, <2>5, <2>6, <3>1 DEF Next
  <2>7. CASE d = "right"
    <3>1. b[c]["left"] = p
      BY <2>4, <2>7, SidesFacts
    <3> QED
      BY <1>1, <1>4, <2>1, <2>2, <2>4, <2>5, <2>7, <3>1 DEF Next
  <2> QED
    BY <2>6, <2>7 DEF Sides
<1> QED
  BY <1>3, <1>5 DEF Found

(* The numbers on the right of all keys are as good as any.                *)
LEMMA Widened ==
    ASSUME NEW t, NEW b, NEW top, Tree(t, b, top), NEW limit \in Nat, top <= limit
    PROVE  \E c : Tree(t, c, limit)
<1> DEFINE Wide(v, d) == IF d = "right" /\ v = top THEN limit ELSE v
           c == [x \in Nodes(t) |-> [d \in Sides |-> Wide(b[x][d], d)]]
<1>1. /\ top \in Nat /\ b \in [Nodes(t) -> [Sides -> Int]]
      /\ \A x \in Nodes(t) :
            /\ 0 <= b[x]["left"] /\ b[x]["left"] < b[x]["right"] /\ b[x]["right"] <= top
            /\ x # Phantom => b[x]["left"] < x /\ x < b[x]["right"]
      /\ t.root # NULL => b[t.root]["left"] = 0 /\ b[t.root]["right"] = top
  BY DEF Tree, Order
<1>2. \A x \in Nodes(t), d \in Sides : c[x][d] = Wide(b[x][d], d) /\ b[x][d] \in Int
  BY <1>1
<1>3. c \in [Nodes(t) -> [Sides -> Int]]
  BY <1>1
<1> HIDE DEF c
<1>4. \A x \in Nodes(t) :
         /\ c[x]["left"] = b[x]["left"]
         /\ c[x]["right"] = IF b[x]["right"] = top THEN limit ELSE b[x]["right"]
         /\ b[x]["left"] \in Int /\ b[x]["right"] \in Int
  BY <1>2, SidesFacts
<1>5. \A x \in Nodes(t) :
         /\ 0 <= c[x]["left"] /\ c[x]["left"] < c[x]["right"] /\ c[x]["right"] <= limit
         /\ x # Phantom => c[x]["left"] < x /\ x < c[x]["right"]
  <2> TAKE x \in Nodes(t)
  <2>1. x \in Int
    BY DEF Tree, Links, Phantom
  <2> QED
    BY <1>1, <1>4, <2>1
<1>6. \A x \in Nodes(t), d \in Sides : At(t, x, d) # NULL =>
         c[At(t, x, d)][d] = c[x][d] /\ c[At(t, x, d)][Opposite(d)] = x
  <2> SUFFICES ASSUME NEW x \in Nodes(t), NEW d \in Sides, NEW y, y = At(t, x, d), y # NULL
               PROVE  c[y][d] = c[x][d] /\ c[y][Opposite(d)] = x
    OBVIOUS
  <2>1. y \in Nodes(t) /\ x \in Int /\ x # Phantom /\ b[y][d] = b[x][d] /\ b[y][Opposite(d)] = x
    BY ChildFacts
  <2>2. Opposite(d) \in Sides
    BY SidesFacts
  <2>3. x < top
    BY <1>1, <1>4, <2>1
  <2>4. x # top
    BY <1>1, <2>1, <2>3
  <2> QED
    BY <1>2, <2>1, <2>2, <2>4
<1>7. t.root # NULL => t.root \in Nodes(t)
  BY DEF Tree, Links
<1>8. t.root # NULL => c[t.root]["left"] = 0 /\ c[t.root]["right"] = limit
  BY <1>1, <1>4, <1>7
<1>9. Order(t, c, limit)
  BY <1>3, <1>5, <1>6, <1>8 DEF Order
<1> QED
  BY <1>9 DEF Tree

-----------------------------------------------------------------------------
(* rb_insert.                                                              *)

(* A leaf is linked to p, on side z.                                       *)
Attached(t, u, k, p, z, v) ==
    /\ Form(u) /\ Nodes(u) = Nodes(t) \cup {k}
    /\ u.root = IF p = NULL THEN k ELSE t.root
    /\ \A d \in Sides : At(u, k, d) = NULL
    /\ At(u, k, "parent") = p /\ At(u, k, "color") = "red" /\ At(u, k, "val") = v
    /\ \A y \in Nodes(t), g \in Fields :
          At(u, y, g) = IF y = p /\ g = z THEN k ELSE At(t, y, g)

(* rb_insert links its leaf where the descent has ended.                   *)
LEMMA LinkedEffect ==
    ASSUME NEW t, Form(t), NULL \notin Nodes(t), NEW k, k \notin Nodes(t),
           NEW p, p = NULL \/ p \in Nodes(t), NEW v,
           NEW z, z = IF k < p THEN "left" ELSE "right"
    PROVE  Attached(t, Linked(t, k, p, v), k, p, z, v)
<1> DEFINE leaf   == Leaf(p, v)
           fields == [n \in Nodes(t) \cup {k} |-> IF n = k THEN leaf ELSE t.node[n]]
           grown  == [t EXCEPT !.node = fields]
<1>1. /\ DOMAIN leaf = Fields /\ leaf["left"] = NULL /\ leaf["right"] = NULL
      /\ leaf["parent"] = p /\ leaf["color"] = "red" /\ leaf["val"] = v
  BY DEF Leaf, Fields, Sides
<1> HIDE DEF leaf
<1>2. /\ DOMAIN fields = Nodes(t) \cup {k} /\ fields[k] = leaf
      /\ \A n \in Nodes(t) : fields[n] = t.node[n]
  OBVIOUS
<1> HIDE DEF fields
<1>3. DOMAIN grown = {"root", "node"} /\ grown.root = t.root /\ grown.node = fields
  BY DEF Form
<1>4. Linked(t, k, p, v) = IF p = NULL THEN [grown EXCEPT !.root = k]
                           ELSE [grown EXCEPT !.node[p][z] = k]
  BY DEF Linked, fields, leaf
<1> HIDE DEF grown
<1>5. /\ Form(grown) /\ Nodes(grown) = Nodes(t) \cup {k}
      /\ \A d \in Sides : At(grown, k, d) = NULL
      /\ At(grown, k, "parent") = p /\ At(grown, k, "color") = "red" /\ At(grown, k, "val") = v
      /\ \A y \in Nodes(t), g \in Fields : At(grown, y, g) = At(t, y, g)
  <2>1. Nodes(grown) = Nodes(t) \cup {k}
    BY <1>2, <1>3 DEF Nodes
  <2>2. Form(grown)
    BY <1>1, <1>2, <1>3, <2>1 DEF Form
  <2> QED
    BY <1>1, <1>2, <1>3, <2>1, <2>2 DEF At, Sides
<1>6. CASE p = NULL
  <2>1. PICK u : u = Linked(t, k, p, v)
    OBVIOUS
  <2>2. DOMAIN u = {"root", "node"} /\ u.root = k /\ u.node = grown.node
    BY <1>3, <1>4, <1>6, <2>1
  <2>3. Form(u) /\ Nodes(u) = Nodes(grown)
    BY <1>5, <2>2 DEF Form, Nodes
  <2>4. \A y, g : At(u, y, g) = At(grown, y, g)
    BY <2>2 DEF At
  <2> QED
    BY <1>5, <1>6, <2>1, <2>2, <2>3, <2>4 DEF Attached
<1>7. CASE p # NULL
  <2>1. Linked(t, k, p, v) = Put(grown, p, z, k)
    BY <1>4, <1>7 DEF Put
  <2>2. z \in Fields /\ p \in Nodes(grown) /\ p # k
    BY <1>5, <1>7 DEF Fields, Sides
  <2>3. PICK u : u = Put(grown, p, z, k)
    OBVIOUS
  <2>4. /\ Form(u) /\ Nodes(u) = Nodes(grown) /\ u.root = grown.root
        /\ \A y \in Nodes(grown), g \in Fields :
              At(u, y, g) = IF y = p /\ g = z THEN k ELSE At(grown, y, g)
    BY <1>5, <2>2, <2>3, PutEffect
  <2> QED
    BY <1>3, <1>5, <1>7, <2>1, <2>2, <2>3, <2>4, SidesFacts DEF Attached
<1> QED
  BY <1>6, <1>7

(* A leaf where its key belongs.                                           *)
LEMMA AttachedTree ==
    ASSUME NEW t, NEW b, NEW top, Tree(t, b, top), Phantom \notin Nodes(t),
           NEW k \in Nat \ {0}, k < top, k \notin Nodes(t),
           NEW p, NEW z, NEW v, NEW u, Attached(t, u, k, p, z, v),
           IF t.root = NULL THEN p = NULL
           ELSE p \in Nodes(t) /\ In(b, p, k) /\ z = (IF k < p THEN "left" ELSE "right")
                /\ At(t, p, z) = NULL
    PROVE  \E c : Tree(u, c, top)
<1>1. /\ Form(u) /\ Nodes(u) = Nodes(t) \cup {k}
      /\ u.root = IF p = NULL THEN k ELSE t.root
      /\ \A d \in Sides : At(u, k, d) = NULL
      /\ At(u, k, "parent") = p
  BY DEF Attached
<1>2. /\ NULL \notin Nodes(t) /\ Nodes(t) \subseteq Nat \ {0} /\ top \in Nat
      /\ t.root \in Nodes(t) \cup {NULL}
      /\ t.root = NULL => Nodes(t) = {}
  BY DEF Tree, Links, Order, NULL, Phantom
<1>3. \A y \in Nodes(t) : /\ At(u, y, "parent") = At(t, y, "parent")
                          /\ \A d \in Sides : At(u, y, d) = IF y = p /\ d = z THEN k ELSE At(t, y, d)
  <2>1. p \in Nodes(t) => z # "parent"
    BY <1>2
  <2> QED
    BY <2>1, SidesFacts DEF Attached
<1>4. p # NULL => /\ p \in Nodes(t) /\ p \in Int /\ z \in Sides /\ At(t, p, z) = NULL /\ t.root # NULL
                  /\ In(b, p, k) /\ (z = "left" <=> k < p)
  BY <1>2 DEF Sides
<1>5. p = NULL <=> t.root = NULL
  BY <1>2
<1>6. Links(u)
  <2>1. \A x \in Nodes(u) :
           /\ At(u, x, "parent") \in Nodes(u) \cup {NULL}
           /\ At(u, x, "parent") = NULL <=> x = u.root
           /\ x # u.root => \E d \in Sides : At(u, At(u, x, "parent"), d) = x
    <3> TAKE x \in Nodes(u)
    <3>1. CASE x = k
      BY <1>1, <1>2, <1>3, <1>4, <3>1
    <3>2. CASE x # k
      <4>1. x \in Nodes(t) /\ u.root = t.root /\ At(u, x, "parent") = At(t, x, "parent")
        BY <1>1, <1>2, <1>3, <1>5, <3>2
      <4>2. /\ At(t, x, "parent") \in Nodes(t) \cup {NULL}
            /\ At(t, x, "parent") = NULL <=> x = t.root
        BY <4>1 DEF Tree, Links
      <4>3. ASSUME x # t.root PROVE \E d \in Sides : At(u, At(t, x, "parent"), d) = x
        <5>1. PICK d \in Sides : At(t, At(t, x, "parent"), d) = x
          BY <4>1, <4>3 DEF Tree, Links
        <5> QED
          BY <1>2, <1>3, <1>4, <4>1, <4>2, <4>3, <5>1
      <4> QED
        BY <1>1, <4>1, <4>2, <4>3
    <3> QED
      BY <3>1, <3>2
  <2>2. \A x \in Nodes(u), d \in Sides :
           /\ At(u, x, d) \in Nodes(u) \cup {NULL}
           /\ At(u, x, d) # NULL => At(u, At(u, x, d), "parent") = x
    <3> TAKE x \in Nodes(u), d \in Sides
    <3>1. CASE x = k
      BY <1>1, <3>1
    <3>2. CASE x # k /\ x = p /\ d = z
      BY <1>1, <1>3, <3>2
    <3>3. CASE x # k /\ ~ (x = p /\ d = z)
      <4>1. x \in Nodes(t) /\ At(u, x, d) = At(t, x, d)
        BY <1>1, <1>3, <3>3
      <4>2. At(t, x, d) # NULL => At(t, x, d) \in Nodes(t) /\ At(t, At(t, x, d), "parent") = x
        BY <4>1, ChildFacts
      <4> QED
        BY <1>1, <1>3, <4>1, <4>2
    <3> QED
      BY <3>1, <3>2, <3>3
  <2>3. Nodes(u) \subseteq Nat \ {0} /\ Phantom \notin Nodes(u)
    BY <1>1, <1>2 DEF Phantom
  <2>4. u.root \in Nodes(u) /\ u.root # NULL
    BY <1>1, <1>2, <1>5, <2>3 DEF NULL
  <2> QED
    BY <2>1, <2>2, <2>3, <2>4 DEF Links
<1> DEFINE mine == IF p = NULL THEN [d \in Sides |-> IF d = "left" THEN 0 ELSE top]
                   ELSE [d \in Sides |-> IF d = z THEN b[p][d] ELSE p]
           c == [x \in Nodes(t) \cup {k} |-> IF x = k THEN mine ELSE b[x]]
<1>7. /\ b \in [Nodes(t) -> [Sides -> Int]]
      /\ \A x \in Nodes(t) :
            /\ 0 <= b[x]["left"] /\ b[x]["left"] < b[x]["right"] /\ b[x]["right"] <= top
            /\ x # Phantom => b[x]["left"] < x /\ x < b[x]["right"]
            /\ \A d \in Sides : At(t, x, d) # NULL =>
                  b[At(t, x, d)][d] = b[x][d] /\ b[At(t, x, d)][Opposite(d)] = x
      /\ t.root # NULL => b[t.root]["left"] = 0 /\ b[t.root]["right"] = top
  BY DEF Tree, Order
<1>8. /\ mine \in [Sides -> Int]
      /\ 0 <= mine["left"] /\ mine["left"] < k /\ k < mine["right"] /\ mine["right"] <= top
      /\ p # NULL => mine[z] = b[p][z] /\ mine[Opposite(z)] = p
      /\ p = NULL => mine["left"] = 0 /\ mine["right"] = top
  <2>1. CASE p = NULL
    <3>1. mine = [d \in Sides |-> IF d = "left" THEN 0 ELSE top]
      BY <2>1
    <3> HIDE DEF mine
    <3> QED
      BY <1>2, <2>1, <3>1, SidesFacts
  <2>2. CASE p # NULL
    <3>1. mine = [d \in Sides |-> IF d = z THEN b[p][d] ELSE p]
      BY <2>2
    <3>2. p \in Nodes(t) /\ p \in Int /\ z \in Sides /\ (z = "left" <=> k < p)
          /\ b[p]["left"] < k /\ k < b[p]["right"] /\ p # k
      BY <1>4, <2>2 DEF In
    <3>3. /\ b[p]["left"] \in Int /\ b[p]["right"] \in Int /\ 0 <= b[p]["left"]
          /\ b[p]["right"] <= top /\ b[p]["left"] < p /\ p < b[p]["right"]
      BY <1>7, <3>2, SidesFacts
    <3> HIDE DEF mine
    <3>4. mine[z] = b[p][z] /\ mine[Opposite(z)] = p
      BY <3>1, <3>2, SidesFacts
    <3>5. mine \in [Sides -> Int]
      BY <1>7, <3>1, <3>2
    <3>6. CASE z = "left"
      <4>1. mine["left"] = b[p]["left"] /\ mine["right"] = p
        BY <3>4, <3>6, SidesFacts
      <4>2. 0 <= mine["left"] /\ mine["left"] < k /\ k < mine["right"] /\ mine["right"] <= top
        BY <1>2, <3>2, <3>3, <3>6, <4>1
      <4> QED
        BY <2>2, <3>4, <3>5, <4>2
    <3>7. CASE z = "right"
      <4>1. mine["right"] = b[p]["right"] /\ mine["left"] = p
        BY <3>4, <3>7, SidesFacts
      <4>2. 0 <= mine["left"] /\ mine["left"] < k /\ k < mine["right"] /\ mine["right"] <= top
        BY <1>2, <3>2, <3>3, <3>7, <4>1
      <4> QED
        BY <2>2, <3>4, <3>5, <4>2
    <3> QED
      BY <3>2, <3>6, <3>7 DEF Sides
  <2> QED
    BY <2>1, <2>2
<1> HIDE DEF mine
<1>9. /\ c \in [Nodes(u) -> [Sides -> Int]] /\ c[k] = mine
      /\ \A x \in Nodes(t) : c[x] = b[x]
  BY <1>1, <1>7, <1>8
<1> HIDE DEF c
<1>10. \A x \in Nodes(u), d \in Sides : At(u, x, d) # NULL =>
          c[At(u, x, d)][d] = c[x][d] /\ c[At(u, x, d)][Opposite(d)] = x
  <2> SUFFICES ASSUME NEW x \in Nodes(u), NEW d \in Sides, At(u, x, d) # NULL
               PROVE  c[At(u, x, d)][d] = c[x][d] /\ c[At(u, x, d)][Opposite(d)] = x
    OBVIOUS
  <2>1. x # k /\ x \in Nodes(t)
    BY <1>1
  <2>2. CASE x = p /\ d = z
    <3>1. At(u, x, d) = k /\ p # NULL
      BY <1>2, <1>3, <2>1, <2>2
    <3> QED
      BY <1>8, <1>9, <2>1, <2>2, <3>1
  <2>3. CASE ~ (x = p /\ d = z)
    <3>1. At(u, x, d) = At(t, x, d) /\ At(t, x, d) \in Nodes(t)
      BY <1>3, <2>1, <2>3, ChildFacts
    <3> QED
      BY <1>7, <1>9, <2>1, <3>1
  <2> QED
    BY <2>2, <2>3
<1>11. \A x \in Nodes(u) :
          /\ 0 <= c[x]["left"] /\ c[x]["left"] < c[x]["right"] /\ c[x]["right"] <= top
          /\ x # Phantom => c[x]["left"] < x /\ x < c[x]["right"]
  <2> TAKE x \in Nodes(u)
  <2>1. CASE x = k
    <3>1. mine["left"] \in Int /\ mine["right"] \in Int
      BY <1>8, SidesFacts
    <3> QED
      BY <1>8, <1>9, <2>1, <3>1
  <2>2. CASE x # k
    BY <1>1, <1>7, <1>9, <2>2
  <2> QED
    BY <2>1, <2>2
<1>12. c[u.root]["left"] = 0 /\ c[u.root]["right"] = top
  BY <1>1, <1>2, <1>5, <1>7, <1>8, <1>9
<1>13. Order(u, c, top)
  BY <1>2, <1>9, <1>10, <1>11, <1>12 DEF Order
<1> QED
  BY <1>1, <1>6, <1>13 DEF Tree

(* rb_insert: the new node is the only thing that may be out of order.     *)
LEMMA Grown ==
    ASSUME NEW t, Sound(t, NULL, NULL), Phantom \notin Nodes(t),
           NEW k \in Keys, NEW v \in Values, ~ Found(t, k),
           NEW u, u = Linked(t, k, Descend(t, k), v)
    PROVE  /\ Sound(u, NULL, k) /\ k \notin Nodes(t) /\ Nodes(u) = Nodes(t) \cup {k}
           /\ At(u, k, "val") = v /\ \A y \in Nodes(t) : At(u, y, "val") = At(t, y, "val")
           /\ IsRed(u, k)
<1>1. PICK b0, top0 : Tree(t, b0, top0)
  BY DEF Sound
<1>2. k \in Nat \ {0} /\ k # Phantom /\ k # NULL
  BY KeysAssumption DEF Phantom, NULL
<1>3. k \notin Nodes(t)
  BY <1>1, <1>2, KeyIsFound
<1>4. PICK top : top \in Nat /\ k < top /\ top0 <= top
  <2>1. top0 \in Nat
    BY <1>1 DEF Tree, Order
  <2>2. CASE k < top0
    BY <2>1, <2>2
  <2>3. CASE ~ (k < top0)
    <3>1. k + 1 \in Nat /\ k < k + 1 /\ top0 <= k + 1
      BY <1>2, <2>1, <2>3
    <3> QED
      BY <3>1
  <2> QED
    BY <2>2, <2>3
<1>5. PICK b : Tree(t, b, top)
  BY <1>1, <1>4, Widened
<1>6. PICK p : p = Descend(t, k)
  OBVIOUS
<1>7. PICK z : z = IF k < p THEN "left" ELSE "right"
  OBVIOUS
<1>8. /\ NULL \notin Nodes(t) /\ Form(t) /\ t.root \in Nodes(t) \cup {NULL}
      /\ t.root = NULL => Nodes(t) = {}
  BY <1>5 DEF Tree, Links, NULL, Phantom
<1>9. IF t.root = NULL THEN p = NULL
      ELSE p \in Nodes(t) /\ In(b, p, k) /\ z = (IF k < p THEN "left" ELSE "right")
           /\ At(t, p, z) = NULL
  <2>1. CASE t.root = NULL
    BY <1>6, <2>1 DEF Descend
  <2>2. CASE t.root # NULL
    <3>1. k \in Int /\ 0 < k
      BY <1>2
    <3>2. p \in Nodes(t) /\ (p # k => In(b, p, k) /\ Next(t, p, k) = NULL)
      BY <1>4, <1>5, <1>6, <2>2, <3>1, DescendFacts
    <3>3. p # k
      BY <1>3, <3>2
    <3> QED
      BY <1>7, <2>2, <3>2, <3>3 DEF Next
  <2> QED
    BY <2>1, <2>2
<1>10. p = NULL \/ p \in Nodes(t)
  BY <1>9
<1>11. u = Linked(t, k, p, v)
  BY <1>6
<1>12. Attached(t, u, k, p, z, v)
  BY <1>3, <1>7, <1>8, <1>10, <1>11, LinkedEffect
<1>13. \E c : Tree(u, c, top)
  BY <1>2, <1>3, <1>4, <1>5, <1>9, <1>12, AttachedTree
<1>14. /\ Nodes(u) = Nodes(t) \cup {k} /\ u.root = IF p = NULL THEN k ELSE t.root
       /\ \A d \in Sides : At(u, k, d) = NULL
       /\ At(u, k, "color") = "red" /\ At(u, k, "val") = v
  BY <1>12 DEF Attached
<1>15. p \in Nodes(t) => z \in Sides
  BY <1>7 DEF Sides
<1>16. \A y \in Nodes(t) :
          /\ At(u, y, "color") = At(t, y, "color") /\ At(u, y, "val") = At(t, y, "val")
          /\ \A d \in Sides : At(u, y, d) = IF y = p /\ d = z THEN k ELSE At(t, y, d)
  BY <1>12, <1>15, SidesFacts DEF Attached
<1>17. p \in Nodes(t) => At(t, p, z) = NULL
  BY <1>8, <1>9
<1>18. \A y \in Nodes(t) : IsRed(u, y) <=> IsRed(t, y)
  BY <1>16 DEF IsRed
<1>19. IsRed(u, k)
  BY <1>14 DEF IsRed
<1>20. \A y \in Nodes(t), d \in Sides : At(t, y, d) \in Nodes(t) \cup {NULL}
  BY <1>5 DEF Tree, Links
<1>21. \E f : Weighted(u, Weights(u, NULL), f)
  <2>1. PICK h : Weighted(t, Weights(t, NULL), h)
    BY DEF Sound
  <2>2. PICK v1, w : v1 = Weights(u, NULL) /\ w = Weights(t, NULL)
    OBVIOUS
  <2>3. v1 \in [Nodes(u) -> Nat] /\ v1[k] = 0 /\ \A y \in Nodes(t) : v1[y] = w[y]
    BY <1>2, <1>14, <1>18, <1>19, <2>2 DEF Weights, Own
  <2>4. /\ h \in [Nodes(t) \cup {NULL} -> Nat] /\ h[NULL] = 0 /\ w \in [Nodes(t) -> Nat]
        /\ \A x \in Nodes(t), d \in Sides : h[x] = h[At(t, x, d)] + w[x]
    BY <2>1, <2>2 DEF Weighted
  <2> DEFINE f == [x \in Nodes(u) \cup {NULL} |-> IF x = k THEN 0 ELSE h[x]]
  <2>5. /\ f \in [Nodes(u) \cup {NULL} -> Nat] /\ f[NULL] = 0 /\ f[k] = 0
        /\ \A x \in Nodes(t) \cup {NULL} : f[x] = h[x]
    BY <1>2, <1>3, <1>14, <2>4
  <2> HIDE DEF f
  <2>6. \A x \in Nodes(u), d \in Sides : f[x] = f[At(u, x, d)] + v1[x]
    <3> TAKE x \in Nodes(u), d \in Sides
    <3>1. CASE x = k
      BY <1>14, <2>3, <2>5, <3>1
    <3>2. CASE x # k /\ x = p /\ d = z
      <4>1. x \in Nodes(t) /\ At(u, x, d) = k /\ At(t, x, d) = NULL
        BY <1>14, <1>16, <1>17, <3>2
      <4>2. f[x] = h[x] /\ v1[x] = w[x] /\ h[x] = h[NULL] + w[x] /\ w[x] \in Nat
        BY <2>3, <2>4, <2>5, <4>1
      <4> QED
        BY <2>4, <2>5, <4>1, <4>2
    <3>3. CASE x # k /\ ~ (x = p /\ d = z)
      <4>1. x \in Nodes(t) /\ At(u, x, d) = At(t, x, d) /\ At(t, x, d) \in Nodes(t) \cup {NULL}
        BY <1>14, <1>16, <1>20, <3>3
      <4> QED
        BY <2>3, <2>4, <2>5, <4>1
    <3> QED
      BY <3>1, <3>2, <3>3
  <2>7. Weighted(u, v1, f)
    BY <2>3, <2>5, <2>6 DEF Weighted
  <2> QED
    BY <2>2, <2>7
<1>22. RedsApart(u, k)
  <2>1. RedsApart(t, NULL)
    BY DEF Sound
  <2>2. ASSUME NEW x \in Nodes(u), NEW d \in Sides, NEW c, c = At(u, x, d), c # NULL,
               IsRed(u, x), IsRed(u, c), c # k
        PROVE  FALSE
    <3>1. x \in Nodes(t) /\ c = At(t, x, d) /\ c \in Nodes(t)
      BY <1>14, <1>16, <1>20, <2>2
    <3>2. IsRed(t, x) /\ IsRed(t, c)
      BY <1>18, <2>2, <3>1
    <3> QED
      BY <2>1, <2>2, <3>1, <3>2 DEF RedsApart
  <2>3. u.root # k => u.root = t.root /\ t.root \in Nodes(t) /\ ~ IsRed(u, t.root)
    <3>1. u.root # k => u.root = t.root /\ t.root \in Nodes(t) /\ t.root # NULL
      BY <1>8, <1>9, <1>14
    <3> QED
      BY <1>18, <2>1, <3>1 DEF RedsApart
  <2> QED
    BY <2>2, <2>3 DEF RedsApart
<1>23. Carries(u)
  <2>1. Carries(t)
    BY DEF Sound
  <2> QED
    BY <1>2, <1>14, <1>16, <1>18, <2>1 DEF Carries
<1> QED
  BY <1>3, <1>13, <1>14, <1>16, <1>19, <1>21, <1>22, <1>23 DEF Sound

-----------------------------------------------------------------------------
(* rb_remove: a node with one child at most is cut out.                    *)

(* n can be cut out, and c, a leaf or the phantom, put in its place.       *)
Removable(t, n, c) ==
    LET q == At(t, n, "parent") IN
    /\ Form(t) /\ NULL \notin Nodes(t) /\ Phantom \notin Nodes(t) /\ n \in Nodes(t)
    /\ At(t, n, "left") = NULL \/ At(t, n, "right") = NULL
    /\ c = IF At(t, n, "left") # NULL THEN At(t, n, "left")
           ELSE IF At(t, n, "right") # NULL THEN At(t, n, "right") ELSE Phantom
    /\ c # Phantom => c \in Nodes(t) \ {n} /\ \A d \in Sides : At(t, c, d) = NULL
    /\ q \in Nodes(t) \cup {NULL} /\ q # n /\ q # c
    /\ q = NULL <=> t.root = n
    /\ q # NULL => At(t, q, Side(t, n)) = n
    /\ \A y \in Nodes(t), d \in Sides : At(t, y, d) = n => y = q /\ d = Side(t, n)
    /\ \A y \in Nodes(t) : At(t, y, "parent") = n => y = c

(* c has taken the place of n.                                             *)
Cut(t, u, n, c) ==
    /\ Form(u) /\ Nodes(u) = (Nodes(t) \ {n}) \cup {c}
    /\ u.root = IF t.root = n THEN c ELSE t.root
    /\ At(u, c, "parent") = At(t, n, "parent")
    /\ \A d \in Sides : At(u, c, d) = NULL
    /\ c = Phantom => At(u, c, "color") = "black"
    /\ c # Phantom => At(u, c, "color") = At(t, c, "color") /\ At(u, c, "val") = At(t, c, "val")
    /\ \A y \in Nodes(t) \ {n, c} :
          /\ \A g \in {"parent", "color", "val"} : At(u, y, g) = At(t, y, g)
          /\ \A d \in Sides : At(u, y, d) = IF At(t, y, d) = n THEN c ELSE At(t, y, d)

(* To unlink n puts its only child, or the phantom, in its place.          *)
LEMMA UnlinkedEffect ==
    ASSUME NEW t, NEW n, NEW c, Removable(t, n, c)
    PROVE  Unlinked(t, n).child = c /\ Cut(t, Unlinked(t, n).tree, n, c)
<1>1. PICK q : q = At(t, n, "parent")
  OBVIOUS
<1>2. PICK z : z = Side(t, n)
  OBVIOUS
<1>3. /\ Form(t) /\ NULL \notin Nodes(t) /\ Phantom \notin Nodes(t) /\ n \in Nodes(t)
      /\ c = IF At(t, n, "left") # NULL THEN At(t, n, "left")
             ELSE IF At(t, n, "right") # NULL THEN At(t, n, "right") ELSE Phantom
      /\ c # Phantom => c \in Nodes(t) \ {n} /\ \A d \in Sides : At(t, c, d) = NULL
      /\ q \in Nodes(t) \cup {NULL} /\ q # n /\ q # c
      /\ q = NULL <=> t.root = n
      /\ q # NULL => At(t, q, z) = n
      /\ \A y \in Nodes(t), d \in Sides : At(t, y, d) = n => y = q /\ d = z
  BY <1>1, <1>2 DEF Removable
<1>4. PICK r : r = Redirect(t, n, c)
  OBVIOUS
<1>5. /\ Form(r) /\ Nodes(r) = Nodes(t)
      /\ r.root = IF q = NULL THEN c ELSE t.root
      /\ q # NULL => z \in Sides
      /\ \A y \in Nodes(t), g \in Fields :
            At(r, y, g) = IF q # NULL /\ y = q /\ g = z THEN c ELSE At(t, y, g)
  <2>1. q = NULL \/ q \in Nodes(t)
    BY <1>3
  <2> QED
    BY <1>1, <1>2, <1>3, <1>4, <2>1, RedirectEffect
<1> DEFINE other == IF c = t.node[n].left THEN "right" ELSE "left"
           mine == IF c = Phantom THEN [Leaf(Parent(t, n), t.node[n].val) EXCEPT !.color = "black"]
                   ELSE [t.node[c] EXCEPT !.parent = Parent(t, n), ![other] = NULL]
           node == [x \in (Nodes(t) \ {n}) \cup {c} |-> IF x # c THEN r.node[x] ELSE mine]
           u == [r EXCEPT !.node = node]
<1>6. Unlinked(t, n) = [child |-> c, tree |-> u]
  <2>1. c = CASE t.node[n].left # NULL -> t.node[n].left
              [] t.node[n].right # NULL -> t.node[n].right
              [] OTHER -> Phantom
    <3>1. c = IF t.node[n].left # NULL THEN t.node[n].left
              ELSE IF t.node[n].right # NULL THEN t.node[n].right ELSE Phantom
      BY <1>3 DEF At
    <3>2. t.node[n].left = NULL \/ t.node[n].right = NULL
      BY DEF Removable, At
    <3> QED
      BY <3>1, <3>2
  <2> QED
    BY <1>4, <2>1 DEF Unlinked
<1>7. /\ DOMAIN mine = Fields /\ mine["parent"] = q /\ mine["left"] = NULL /\ mine["right"] = NULL
      /\ c = Phantom => mine["color"] = "black"
      /\ c # Phantom => mine["color"] = At(t, c, "color") /\ mine["val"] = At(t, c, "val")
  <2>1. Parent(t, n) = q
    BY <1>1 DEF Parent, At
  <2>2. CASE c = Phantom
    <3>1. mine = [Leaf(q, t.node[n].val) EXCEPT !.color = "black"]
      BY <2>1, <2>2
    <3> QED
      BY <2>2, <3>1 DEF Leaf, Fields, Sides
  <2>3. CASE c # Phantom
    <3>1. mine = [t.node[c] EXCEPT !.parent = q, ![other] = NULL]
      BY <2>1, <2>3
    <3>2. /\ DOMAIN t.node[c] = Fields /\ t.node[c]["left"] = NULL /\ t.node[c]["right"] = NULL
      BY <1>3, <2>3, SidesFacts DEF Form, At
    <3>3. other \in Sides /\ other # "parent" /\ other # "color" /\ other # "val"
      BY DEF Sides
    <3> HIDE DEF mine, other
    <3>4. "parent" \in Fields /\ other \in Fields
      BY <3>3, SidesFacts
    <3>5. mine = [[t.node[c] EXCEPT !["parent"] = q] EXCEPT ![other] = NULL]
      BY <3>1
    <3>6. /\ DOMAIN mine = Fields
          /\ \A g \in Fields : mine[g] = IF g = other THEN NULL
                                         ELSE IF g = "parent" THEN q ELSE t.node[c][g]
      BY <3>2, <3>4, <3>5
    <3> QED
      BY <2>3, <3>2, <3>3, <3>6, SidesFacts DEF At
  <2> QED
    BY <2>2, <2>3
<1> HIDE DEF mine
<1>8. /\ DOMAIN node = (Nodes(t) \ {n}) \cup {c} /\ node[c] = mine
      /\ \A x \in Nodes(t) \ {n, c} : node[x] = r.node[x]
  OBVIOUS
<1> HIDE DEF node
<1>9. DOMAIN u = {"root", "node"} /\ u.root = r.root /\ u.node = node
  BY <1>5 DEF Form
<1> HIDE DEF u
<1>10. Nodes(u) = (Nodes(t) \ {n}) \cup {c}
  BY <1>8, <1>9 DEF Nodes
<1>11. Form(u)
  BY <1>5, <1>7, <1>8, <1>9, <1>10 DEF Form
<1>12. \A g : \A y \in Nodes(t) \ {n, c} : At(u, y, g) = At(r, y, g)
  BY <1>8, <1>9 DEF At
<1>13. \A g : At(u, c, g) = mine[g]
  BY <1>8, <1>9 DEF At
<1>14. \A y \in Nodes(t) \ {n, c} :
          /\ \A g \in {"parent", "color", "val"} : At(u, y, g) = At(t, y, g)
          /\ \A d \in Sides : At(u, y, d) = IF At(t, y, d) = n THEN c ELSE At(t, y, d)
  <2> TAKE y \in Nodes(t) \ {n, c}
  <2>1. \A g \in {"parent", "color", "val"} : At(u, y, g) = At(t, y, g)
    BY <1>5, <1>12, SidesFacts
  <2>2. \A d \in Sides : At(u, y, d) = IF At(t, y, d) = n THEN c ELSE At(t, y, d)
    BY <1>3, <1>5, <1>12, SidesFacts
  <2> QED
    BY <2>1, <2>2
<1>15. At(u, c, "parent") = At(t, n, "parent")
  BY <1>1, <1>7, <1>13
<1>16. \A d \in Sides : At(u, c, d) = NULL
  BY <1>7, <1>13 DEF Sides
<1>17. u.root = IF t.root = n THEN c ELSE t.root
  BY <1>3, <1>5, <1>9
<1>18. /\ c = Phantom => At(u, c, "color") = "black"
       /\ c # Phantom => At(u, c, "color") = At(t, c, "color") /\ At(u, c, "val") = At(t, c, "val")
  BY <1>7, <1>13
<1>19. Cut(t, u, n, c)
  BY <1>10, <1>11, <1>14, <1>15, <1>16, <1>17, <1>18 DEF Cut
<1> QED
  BY <1>6, <1>19

(* In a balanced tree a node with one child has a red leaf there, and is   *)
(* black itself.                                                           *)
LEMMA OneChild ==
    ASSUME NEW t, Sound(t, NULL, NULL), Phantom \notin Nodes(t), NEW n \in Nodes(t),
           At(t, n, "left") = NULL \/ At(t, n, "right") = NULL,
           NEW c, c = IF At(t, n, "left") # NULL THEN At(t, n, "left")
                      ELSE IF At(t, n, "right") # NULL THEN At(t, n, "right") ELSE Phantom
    PROVE  /\ Removable(t, n, c)
           /\ c # Phantom => IsRed(t, c) /\ ~ IsRed(t, n)
           /\ \A h : Weighted(t, Weights(t, NULL), h) => h[n] = Weights(t, NULL)[n]
<1>1. PICK b, top : Tree(t, b, top)
  BY DEF Sound
<1>2. RedsApart(t, NULL) /\ Carries(t)
  BY DEF Sound
<1>3. NULL \notin Nodes(t) /\ Form(t)
  BY <1>1 DEF Tree, Links, NULL, Phantom
<1>4. PICK w : w = Weights(t, NULL)
  OBVIOUS
<1>5. \A x \in Nodes(t) : w[x] \in Nat /\ (w[x] = 0 => IsRed(t, x))
  BY <1>4 DEF Weights, Own
<1>6. ASSUME c # Phantom
      PROVE  c \in Nodes(t) \ {n} /\ At(t, c, "parent") = n
             /\ \E d \in Sides : c = At(t, n, d) /\ At(t, n, Opposite(d)) = NULL
  <2>1. PICK d \in Sides : c = At(t, n, d) /\ c # NULL /\ At(t, n, Opposite(d)) = NULL
    <3>1. CASE At(t, n, "left") # NULL
      BY <1>6, <3>1, SidesFacts
    <3>2. CASE At(t, n, "left") = NULL /\ At(t, n, "right") # NULL
      BY <1>6, <3>2, SidesFacts
    <3> QED
      BY <1>6, <3>1, <3>2
  <2> QED
    BY <1>1, <2>1, ChildFacts
<1>7. ASSUME NEW h, Weighted(t, w, h) PROVE h[n] = w[n]
  <2>1. h[NULL] = 0 /\ h[n] = h[At(t, n, "left")] + w[n] /\ h[n] = h[At(t, n, "right")] + w[n]
    BY <1>7, SidesFacts DEF Weighted
  <2> QED
    BY <1>5, <2>1
<1>8. ASSUME c # Phantom PROVE IsRed(t, c) /\ ~ IsRed(t, n) /\ \A d \in Sides : At(t, c, d) = NULL
  <2>1. PICK h : Weighted(t, w, h)
    BY <1>4 DEF Sound
  <2>2. PICK d \in Sides : c = At(t, n, d) /\ c \in Nodes(t)
    BY <1>6, <1>8
  <2>3. /\ h \in [Nodes(t) \cup {NULL} -> Nat]
        /\ \A x \in Nodes(t), e \in Sides : h[x] = h[At(t, x, e)] + w[x]
        /\ \A x \in Nodes(t), e \in Sides : At(t, x, e) \in Nodes(t) \cup {NULL}
    BY <1>1, <2>1 DEF Weighted, Tree, Links
  <2>4. h[c] = 0
    <3>1. h[n] = h[c] + w[n] /\ h[n] = w[n] /\ h[c] \in Nat /\ w[n] \in Nat
      BY <1>5, <1>7, <2>1, <2>2, <2>3
    <3> QED
      BY <3>1
  <2>5. w[c] = 0 /\ \A e \in Sides : h[At(t, c, e)] = 0
    <3> SUFFICES ASSUME NEW e \in Sides PROVE w[c] = 0 /\ h[At(t, c, e)] = 0
      BY SidesFacts
    <3>1. h[c] = h[At(t, c, e)] + w[c] /\ h[At(t, c, e)] \in Nat /\ w[c] \in Nat
      BY <1>5, <2>2, <2>3
    <3> QED
      BY <2>4, <3>1
  <2>6. IsRed(t, c)
    BY <1>5, <2>2, <2>5
  <2>7. ~ IsRed(t, n)
    BY <1>2, <1>3, <2>2, <2>6 DEF RedsApart
  <2>8. \A e \in Sides : At(t, c, e) = NULL
    <3> SUFFICES ASSUME NEW e \in Sides, NEW f, f = At(t, c, e), f # NULL PROVE FALSE
      OBVIOUS
    <3>1. f \in Nodes(t) /\ h[f] = 0
      BY <2>2, <2>3, <2>5
    <3>2. h[f] = h[At(t, f, "left")] + w[f] /\ h[At(t, f, "left")] \in Nat /\ w[f] \in Nat
      BY <1>5, <2>3, <3>1, SidesFacts
    <3>3. IsRed(t, f)
      BY <1>5, <3>1, <3>2
    <3> QED
      BY <1>2, <2>2, <2>6, <3>1, <3>3 DEF RedsApart
  <2> QED
    BY <2>6, <2>7, <2>8
<1>9. Removable(t, n, c)
  <2>1. PICK q : q = At(t, n, "parent")
    OBVIOUS
  <2>2. PICK z : z = Side(t, n)
    OBVIOUS
  <2>3. /\ q \in Nodes(t) \cup {NULL}
        /\ q = NULL <=> t.root = n
    BY <1>1, <2>1 DEF Tree, Links
  <2>4. q # NULL => q # n /\ z \in Sides /\ At(t, q, z) = n
    BY <1>1, <2>1, <2>2, <2>3, BothSides DEF Parent, At
  <2>5. q # c
    <3>1. SUFFICES ASSUME q = c PROVE FALSE
      OBVIOUS
    <3>2. c # Phantom
      <4>1. Phantom # NULL
        BY DEF Phantom, NULL
      <4> QED
        BY <2>3, <3>1, <4>1
    <3> QED
      BY <1>3, <1>8, <2>3, <2>4, <3>1, <3>2
  <2>6. \A y \in Nodes(t), d \in Sides : At(t, y, d) = n => y = q /\ d = z
    <3> SUFFICES ASSUME NEW y \in Nodes(t), NEW d \in Sides, At(t, y, d) = n
                 PROVE  y = q /\ d = z
      OBVIOUS
    <3>1. y = q
      BY <1>1, <1>3, <2>1, ChildFacts
    <3>2. d = z
      <4>1. SUFFICES ASSUME d # z PROVE FALSE
        OBVIOUS
      <4>2. z \in Sides /\ At(t, y, z) = n
        BY <1>3, <2>4, <3>1
      <4>3. d = Opposite(z)
        BY <4>1, <4>2, SidesFacts
      <4> QED
        BY <1>1, <1>3, <4>2, <4>3, ChildrenDiffer
    <3> QED
      BY <3>1, <3>2
  <2>7. \A y \in Nodes(t) : At(t, y, "parent") = n => y = c
    <3> SUFFICES ASSUME NEW y \in Nodes(t), At(t, y, "parent") = n PROVE y = c
      OBVIOUS
    <3>1. PICK d \in Sides : At(t, n, d) = y
      BY <1>1, <1>3 DEF Tree, Links
    <3> QED
      BY <1>3, <3>1 DEF Sides
  <2>8. q # n
    BY <1>3, <2>3, <2>4
  <2> QED
    BY <1>3, <1>6, <1>8, <2>1, <2>2, <2>3, <2>4, <2>5, <2>6, <2>7, <2>8 DEF Removable
<1> QED
  BY <1>4, <1>7, <1>8, <1>9

(* The tree from which n has been cut out: c has its interval.             *)
LEMMA CutTree ==
    ASSUME NEW t, NEW b, NEW top, Tree(t, b, top), NEW n, NEW c, Removable(t, n, c),
           NEW u, Cut(t, u, n, c),
           NEW a, a = [x \in Nodes(u) |-> IF x = c THEN b[n] ELSE b[x]]
    PROVE  Tree(u, a, top)
<1>1. PICK q : q = At(t, n, "parent")
  OBVIOUS
<1>2. PICK z : z = Side(t, n)
  OBVIOUS
<1>3. /\ NULL \notin Nodes(t) /\ Phantom \notin Nodes(t) /\ n \in Nodes(t)
      /\ c # Phantom => c \in Nodes(t) \ {n} /\ \A d \in Sides : At(t, c, d) = NULL
      /\ q \in Nodes(t) \cup {NULL} /\ q # n /\ q # c
      /\ q = NULL <=> t.root = n
      /\ q # NULL => At(t, q, z) = n
      /\ \A y \in Nodes(t), d \in Sides : At(t, y, d) = n => y = q /\ d = z
      /\ \A y \in Nodes(t) : At(t, y, "parent") = n => y = c
  BY <1>1, <1>2 DEF Removable
<1>4. /\ Form(u) /\ Nodes(u) = (Nodes(t) \ {n}) \cup {c}
      /\ u.root = IF t.root = n THEN c ELSE t.root
      /\ At(u, c, "parent") = q
      /\ \A d \in Sides : At(u, c, d) = NULL
      /\ \A y \in Nodes(t) \ {n, c} :
            /\ At(u, y, "parent") = At(t, y, "parent")
            /\ \A d \in Sides : At(u, y, d) = IF At(t, y, d) = n THEN c ELSE At(t, y, d)
  BY <1>1 DEF Cut
<1>5. c # n /\ c # NULL /\ Phantom # NULL
  <2>1. Phantom # NULL
    BY DEF Phantom, NULL
  <2> QED
    BY <1>3, <2>1
<1>6. ASSUME c # Phantom
      PROVE  \E d \in Sides : c = At(t, n, d)
  BY <1>6, SidesFacts DEF Removable
<1>7. c # Phantom => At(t, c, "parent") = n /\ c # t.root
  BY <1>3, <1>5, <1>6, ChildFacts
<1>8. z \in Sides
  BY <1>2 DEF Side, Sides
<1>9. /\ Nodes(t) \subseteq (Nat \ {0}) \cup {Phantom}
      /\ t.root \in Nodes(t)
      /\ \A x \in Nodes(t) :
          /\ At(t, x, "parent") \in Nodes(t) \cup {NULL}
          /\ At(t, x, "parent") = NULL <=> x = t.root
          /\ x # t.root => \E d \in Sides : At(t, At(t, x, "parent"), d) = x
          /\ \A d \in Sides :
                /\ At(t, x, d) \in Nodes(t) \cup {NULL}
                /\ At(t, x, d) # NULL => At(t, At(t, x, d), "parent") = x
  BY <1>3 DEF Tree, Links
<1>10. \A x \in Nodes(t) \ {n, c} :
          /\ At(u, x, "parent") \in (Nodes(t) \ {n, c}) \cup {NULL}
          /\ At(u, x, "parent") = NULL <=> x = t.root
          /\ x # t.root => \E d \in Sides : At(u, At(u, x, "parent"), d) = x
  <2> TAKE x \in Nodes(t) \ {n, c}
  <2>1. PICK p : p = At(t, x, "parent")
    OBVIOUS
  <2>2. At(u, x, "parent") = p /\ p \in Nodes(t) \cup {NULL} /\ (p = NULL <=> x = t.root)
    BY <1>4, <1>9, <2>1
  <2>3. p # n
    BY <1>3, <2>1
  <2>4. ASSUME x # t.root PROVE p # c /\ \E d \in Sides : At(t, p, d) = x
    <3>1. PICK d \in Sides : At(t, p, d) = x
      BY <1>9, <2>1, <2>4
    <3>2. p # c
      BY <1>3, <2>2, <2>4, <3>1
    <3> QED
      BY <3>1, <3>2
  <2>5. ASSUME x # t.root PROVE \E d \in Sides : At(u, p, d) = x
    <3>1. PICK d \in Sides : At(t, p, d) = x
      BY <2>4, <2>5
    <3>2. p \in Nodes(t) \ {n, c}
      BY <2>2, <2>3, <2>4, <2>5
    <3> QED
      BY <1>4, <3>1, <3>2
  <2> QED
    BY <1>5, <2>2, <2>3, <2>4, <2>5
<1>11. \A x \in Nodes(t) \ {n, c}, d \in Sides :
          \/ At(t, x, d) = NULL /\ At(u, x, d) = NULL
          \/ At(t, x, d) = n /\ At(u, x, d) = c /\ x = q
          \/ /\ At(t, x, d) \in Nodes(t) \ {n, c} /\ At(u, x, d) = At(t, x, d)
             /\ At(u, At(u, x, d), "parent") = x
  <2> TAKE x \in Nodes(t) \ {n, c}, d \in Sides
  <2>1. PICK y : y = At(t, x, d)
    OBVIOUS
  <2>2. At(u, x, d) = IF y = n THEN c ELSE y
    BY <1>4, <2>1
  <2>3. y \in Nodes(t) \cup {NULL} /\ (y # NULL => At(t, y, "parent") = x)
    BY <1>9, <2>1
  <2>4. CASE y = NULL
    BY <1>3, <2>1, <2>2, <2>4
  <2>5. CASE y = n
    BY <1>3, <2>1, <2>2, <2>5
  <2>6. CASE y \notin {NULL, n}
    <3>1. y # c
      BY <1>3, <1>7, <2>3, <2>6
    <3> QED
      BY <1>4, <2>1, <2>2, <2>3, <2>6, <3>1
  <2> QED
    BY <2>4, <2>5, <2>6
<1>12. /\ At(u, c, "parent") \in Nodes(u) \cup {NULL}
       /\ At(u, c, "parent") = NULL <=> c = u.root
       /\ c # u.root => \E d \in Sides : At(u, At(u, c, "parent"), d) = c
  <2>1. q = NULL <=> c = u.root
    BY <1>3, <1>4, <1>7, <1>9
  <2>2. q # NULL => At(u, q, z) = c
    BY <1>3, <1>4, <1>8
  <2> QED
    BY <1>3, <1>4, <1>8, <2>1, <2>2
<1>13. Links(u)
  <2>1. Nodes(u) \subseteq (Nat \ {0}) \cup {Phantom}
    BY <1>3, <1>4, <1>9
  <2>2. u.root \in Nodes(u) \cup {NULL} /\ (u.root = NULL => Nodes(u) = {})
    BY <1>3, <1>4, <1>5, <1>9
  <2>3. \A x \in Nodes(u) :
          /\ At(u, x, "parent") \in Nodes(u) \cup {NULL}
          /\ At(u, x, "parent") = NULL <=> x = u.root
          /\ x # u.root => \E d \in Sides : At(u, At(u, x, "parent"), d) = x
    <3> TAKE x \in Nodes(u)
    <3>1. CASE x = c
      BY <1>12, <3>1
    <3>2. CASE x # c
      <4>1. x \in Nodes(t) \ {n, c}
        BY <1>4, <3>2
      <4>2. x = t.root <=> x = u.root
        BY <1>4, <4>1
      <4> QED
        BY <1>4, <1>10, <4>1, <4>2
    <3> QED
      BY <3>1, <3>2
  <2>4. \A x \in Nodes(u), d \in Sides :
          /\ At(u, x, d) \in Nodes(u) \cup {NULL}
          /\ At(u, x, d) # NULL => At(u, At(u, x, d), "parent") = x
          /\ x = Phantom => At(u, x, d) = NULL
    <3> TAKE x \in Nodes(u), d \in Sides
    <3>1. CASE x = c
      BY <1>4, <3>1
    <3>2. CASE x # c
      <4>1. x \in Nodes(t) \ {n, c} /\ x # Phantom
        BY <1>3, <1>4, <3>2
      <4> QED
        BY <1>4, <1>11, <4>1
    <3> QED
      BY <3>1, <3>2
  <2> QED
    BY <2>1, <2>2, <2>3, <2>4 DEF Links
<1>14. /\ top \in Nat /\ b \in [Nodes(t) -> [Sides -> Int]]
       /\ \A x \in Nodes(t) :
             /\ 0 <= b[x]["left"] /\ b[x]["left"] < b[x]["right"] /\ b[x]["right"] <= top
             /\ b[x]["left"] < x /\ x < b[x]["right"]
             /\ \A d \in Sides : At(t, x, d) # NULL =>
                   b[At(t, x, d)][d] = b[x][d] /\ b[At(t, x, d)][Opposite(d)] = x
       /\ b[t.root]["left"] = 0 /\ b[t.root]["right"] = top
  BY <1>3, <1>9 DEF Tree, Order
<1>15. /\ a \in [Nodes(u) -> [Sides -> Int]] /\ a[c] = b[n]
       /\ \A x \in Nodes(t) \ {n, c} : a[x] = b[x]
  BY <1>3, <1>4, <1>14
<1>16. c # Phantom => b[n]["left"] < c /\ c < b[n]["right"]
  <2>1. SUFFICES ASSUME c # Phantom PROVE b[n]["left"] < c /\ c < b[n]["right"]
    OBVIOUS
  <2>2. PICK d \in Sides : c = At(t, n, d)
    BY <1>6, <2>1
  <2>3. b[c][d] = b[n][d] /\ b[c][Opposite(d)] = n
    BY <1>3, <1>5, <1>14, <2>2
  <2>4. /\ b[c]["left"] < c /\ c < b[c]["right"] /\ b[n]["left"] < n /\ n < b[n]["right"]
        /\ n \in Int /\ c \in Int
        /\ b[c]["left"] \in Int /\ b[c]["right"] \in Int
        /\ b[n]["left"] \in Int /\ b[n]["right"] \in Int
    BY <1>3, <1>9, <1>14, <2>1, SidesFacts
  <2>5. CASE d = "left"
    <3>1. b[c]["left"] = b[n]["left"] /\ b[c]["right"] = n
      BY <2>3, <2>5, SidesFacts
    <3> QED
      BY <2>4, <3>1
  <2>6. CASE d = "right"
    <3>1. b[c]["right"] = b[n]["right"] /\ b[c]["left"] = n
      BY <2>3, <2>6, SidesFacts
    <3> QED
      BY <2>4, <3>1
  <2> QED
    BY <2>5, <2>6 DEF Sides
<1>17. Order(u, a, top)
  <2>1. \A x \in Nodes(u) :
          /\ 0 <= a[x]["left"] /\ a[x]["left"] < a[x]["right"] /\ a[x]["right"] <= top
          /\ x # Phantom => a[x]["left"] < x /\ x < a[x]["right"]
    <3> TAKE x \in Nodes(u)
    <3>1. CASE x = c
      BY <1>3, <1>14, <1>15, <1>16, <3>1
    <3>2. CASE x # c
      <4>1. x \in Nodes(t) \ {n, c}
        BY <1>4, <3>2
      <4> QED
        BY <1>14, <1>15, <4>1
    <3> QED
      BY <3>1, <3>2
  <2>2. \A x \in Nodes(u), d \in Sides : At(u, x, d) # NULL =>
           a[At(u, x, d)][d] = a[x][d] /\ a[At(u, x, d)][Opposite(d)] = x
    <3> TAKE x \in Nodes(u), d \in Sides
    <3>1. CASE x = c
      BY <1>4, <3>1
    <3>2. CASE x # c
      <4>1. x \in Nodes(t) \ {n, c}
        BY <1>4, <3>2
      <4>2. CASE At(t, x, d) = n /\ At(u, x, d) = c
        BY <1>3, <1>14, <1>15, <4>1, <4>2
      <4>3. CASE At(t, x, d) \in Nodes(t) \ {n, c} /\ At(u, x, d) = At(t, x, d)
        BY <1>14, <1>15, <4>1, <4>3
      <4> QED
        BY <1>11, <4>1, <4>2, <4>3
    <3> QED
      BY <3>1, <3>2
  <2>3. u.root # NULL => a[u.root]["left"] = 0 /\ a[u.root]["right"] = top
    <3>1. CASE t.root = n
      BY <1>4, <1>14, <1>15, <3>1
    <3>2. CASE t.root # n
      <4>1. u.root = t.root /\ t.root # c
        BY <1>3, <1>4, <1>7, <1>9, <3>2
      <4> QED
        BY <1>9, <1>14, <1>15, <3>2, <4>1
    <3> QED
      BY <3>1, <3>2
  <2> QED
    BY <1>14, <1>15, <2>1, <2>2, <2>3 DEF Order
<1> QED
  BY <1>4, <1>13, <1>17 DEF Tree

(* What rb_remove leaves when the node that goes has one child at most: if *)
(* there is a child, it is painted black; if not, and the node was black,  *)
(* the phantom lacks one.                                                  *)
LEMMA CutSound ==
    ASSUME NEW t, Sound(t, NULL, NULL), NEW b, NEW top, Tree(t, b, top),
           NEW n, NEW c, Removable(t, n, c), NEW u, Cut(t, u, n, c),
           c # Phantom => IsRed(t, c) /\ ~ IsRed(t, n),
           \A h : Weighted(t, Weights(t, NULL), h) => h[n] = Weights(t, NULL)[n],
           NEW p, p = IF c # Phantom THEN Paint(u, c, "black") ELSE u,
           NEW e, e = IF c = Phantom /\ ~ IsRed(t, n) THEN Phantom ELSE NULL
    PROVE  /\ Sound(p, e, NULL) /\ SameLinks(u, p) /\ SameBindings(u, p)
           /\ \A y \in Nodes(p) : At(p, y, "color") = IF y = c THEN "black" ELSE At(u, y, "color")
<1>1. /\ NULL \notin Nodes(t) /\ Phantom \notin Nodes(t) /\ n \in Nodes(t)
      /\ c # Phantom => c \in Nodes(t) \ {n}
      /\ \A y \in Nodes(t), d \in Sides : At(t, y, d) = n => y # c
  BY DEF Removable
<1>2. /\ Form(u) /\ Nodes(u) = (Nodes(t) \ {n}) \cup {c}
      /\ u.root = IF t.root = n THEN c ELSE t.root
      /\ \A d \in Sides : At(u, c, d) = NULL
      /\ c = Phantom => At(u, c, "color") = "black"
      /\ c # Phantom => At(u, c, "color") = At(t, c, "color") /\ At(u, c, "val") = At(t, c, "val")
      /\ \A y \in Nodes(t) \ {n, c} :
          /\ At(u, y, "color") = At(t, y, "color") /\ At(u, y, "val") = At(t, y, "val")
          /\ \A d \in Sides : At(u, y, d) = IF At(t, y, d) = n THEN c ELSE At(t, y, d)
  BY DEF Cut
<1>3. \E a : Tree(u, a, top)
  <2>1. PICK a : a = [x \in Nodes(u) |-> IF x = c THEN b[n] ELSE b[x]]
    OBVIOUS
  <2>2. Tree(u, a, top)
    BY <2>1, CutTree
  <2> QED
    BY <2>2
<1>4. /\ SameLinks(u, p) /\ SameBindings(u, p)
      /\ \A y \in Nodes(p) : At(p, y, "color") = IF y = c THEN "black" ELSE At(u, y, "color")
  <2>1. CASE c = Phantom
    BY <1>2, <2>1 DEF SameLinks, SameBindings
  <2>2. CASE c # Phantom
    <3>1. c \in Nodes(u)
      BY <1>2
    <3>2. p = Paint(u, c, "black")
      BY <2>2
    <3>3. /\ SameLinks(u, p)
          /\ \A y \in Nodes(u) : At(p, y, "color") = IF y = c THEN "black" ELSE At(u, y, "color")
          /\ \A y \in Nodes(u) : At(p, y, "val") = At(u, y, "val")
      BY <1>2, <3>1, <3>2, PaintEffect
    <3> QED
      BY <3>3 DEF SameLinks, SameBindings
  <2> QED
    BY <2>1, <2>2
<1>5. \E a : Tree(p, a, top)
  BY <1>3, <1>4, SameTree
<1>6. /\ Nodes(p) = Nodes(u) /\ p.root = u.root
      /\ \A y \in Nodes(u), d \in Sides : At(p, y, d) = At(u, y, d)
      /\ \A y \in Nodes(u) : At(p, y, "val") = At(u, y, "val")
  BY <1>4 DEF SameLinks, SameBindings
<1>7. RedsApart(t, NULL) /\ Carries(t)
  BY DEF Sound
<1>8. \A y \in Nodes(u) \ {c} : y \in Nodes(t) \ {n, c} /\ (IsRed(p, y) <=> IsRed(t, y))
  BY <1>2, <1>4, <1>6 DEF IsRed
<1>9. ~ IsRed(p, c)
  BY <1>2, <1>4, <1>6 DEF IsRed
<1>10. \E g : Weighted(p, Weights(p, e), g)
  <2>1. PICK w : w = Weights(t, NULL)
    OBVIOUS
  <2>2. PICK h : Weighted(t, w, h)
    BY <2>1 DEF Sound
  <2>3. PICK v : v = Weights(p, e)
    OBVIOUS
  <2>4. v \in [Nodes(p) -> Nat] /\ \A x \in Nodes(p) : v[x] = Own(p, e, x)
    BY <2>3 DEF Weights, Own
  <2>5. /\ h \in [Nodes(t) \cup {NULL} -> Nat] /\ h[NULL] = 0
        /\ \A x \in Nodes(t), d \in Sides : h[x] = h[At(t, x, d)] + w[x]
    BY <2>2 DEF Weighted
  <2>6. h[n] = w[n]
    BY <2>1, <2>2
  <2>7. w[n] = IF IsRed(t, n) THEN 0 ELSE 1
    BY <1>1, <2>1 DEF Weights, Own
  <2>8. v[c] = w[n]
    <3>1. v[c] = Own(p, e, c)
      BY <1>2, <1>6, <2>4
    <3>2. CASE c # Phantom
      <4>1. e # c
        BY <1>1, <3>2
      <4> QED
        BY <1>9, <2>7, <3>1, <3>2, <4>1 DEF Own
    <3>3. CASE c = Phantom /\ IsRed(t, n)
      <4>1. e # c
        BY <3>3 DEF Phantom, NULL
      <4> QED
        BY <2>7, <3>1, <3>3, <4>1 DEF Own
    <3>4. CASE c = Phantom /\ ~ IsRed(t, n)
      BY <2>7, <3>1, <3>4 DEF Own
    <3> QED
      BY <3>2, <3>3, <3>4
  <2>9. \A x \in Nodes(u) \ {c} : v[x] = w[x]
    <3> TAKE x \in Nodes(u) \ {c}
    <3>1. x \in Nodes(t) /\ (IsRed(p, x) <=> IsRed(t, x)) /\ x # NULL /\ x # Phantom
      BY <1>1, <1>8
    <3>2. x # e
      BY <3>1
    <3> QED
      BY <1>6, <2>1, <2>4, <3>1, <3>2 DEF Weights, Own
  <2> DEFINE g == [x \in Nodes(p) \cup {NULL} |-> IF x = c THEN h[n] ELSE h[x]]
  <2>10. c # NULL
    BY <1>1 DEF Phantom, NULL
  <2>11. /\ g \in [Nodes(p) \cup {NULL} -> Nat] /\ g[NULL] = 0 /\ g[c] = h[n]
         /\ \A x \in Nodes(u) \ {c} : g[x] = h[x]
    <3>1. \A x \in Nodes(p) \cup {NULL} : x # c => x \in Nodes(t) \cup {NULL}
      BY <1>2, <1>6
    <3>2. c \in Nodes(p)
      BY <1>2, <1>6
    <3> QED
      BY <1>1, <1>6, <2>5, <2>10, <3>1, <3>2
  <2> HIDE DEF g
  <2>12. \A x \in Nodes(p), d \in Sides : g[x] = g[At(p, x, d)] + v[x]
    <3> TAKE x \in Nodes(p), d \in Sides
    <3>1. At(p, x, d) = At(u, x, d)
      BY <1>6
    <3>2. CASE x = c
      <4>1. At(p, x, d) = NULL
        BY <1>2, <3>1, <3>2
      <4>2. w[n] \in Nat
        BY <2>7
      <4> QED
        BY <2>6, <2>8, <2>11, <3>2, <4>1, <4>2
    <3>3. CASE x # c
      <4>1. x \in Nodes(t) \ {n, c}
        BY <1>2, <1>6, <3>3
      <4>2. PICK y : y = At(t, x, d)
        OBVIOUS
      <4>3. At(p, x, d) = IF y = n THEN c ELSE y
        BY <1>2, <3>1, <4>1, <4>2
      <4>4. h[x] = h[y] + w[x] /\ g[x] = h[x] /\ v[x] = w[x]
        BY <1>6, <2>5, <2>9, <2>11, <4>1, <4>2
      <4>5. y \in Nodes(t) \cup {NULL}
        BY <4>1, <4>2 DEF Tree, Links
      <4>6. y # n => y # c
        <5>1. SUFFICES ASSUME y = c, y # n PROVE FALSE
          OBVIOUS
        <5>2. c # Phantom
          BY <1>1, <2>10, <4>5, <5>1
        <5>3. PICK o \in Sides : c = At(t, n, o)
          BY <5>2, SidesFacts DEF Removable
        <5>4. At(t, c, "parent") = n
          BY <1>1, <2>10, <5>3, ChildFacts
        <5>5. At(t, c, "parent") = x
          <6>1. c = At(t, x, d) /\ x \in Nodes(t)
            BY <4>1, <4>2, <5>1
          <6> QED
            BY <2>10, <6>1, ChildFacts
        <5> QED
          BY <4>1, <5>4, <5>5
      <4>7. g[At(p, x, d)] = h[y]
        <5>1. CASE y = n
          BY <2>11, <4>3, <5>1
        <5>2. CASE y = NULL
          BY <1>1, <2>5, <2>11, <4>3, <5>2
        <5>3. CASE y \notin {n, NULL}
          <6>1. y \in Nodes(u) \ {c}
            BY <1>2, <4>5, <4>6, <5>3
          <6> QED
            BY <2>11, <4>3, <5>3, <6>1
        <5> QED
          BY <5>1, <5>2, <5>3
      <4> QED
        BY <4>4, <4>7
    <3> QED
      BY <3>2, <3>3
  <2>13. Weighted(p, v, g)
    BY <2>4, <2>11, <2>12 DEF Weighted
  <2> QED
    BY <2>3, <2>13
<1>11. RedsApart(p, NULL)
  <2>1. \A x \in Nodes(p), d \in Sides :
           At(p, x, d) # NULL /\ IsRed(p, x) => ~ IsRed(p, At(p, x, d))
    <3> SUFFICES ASSUME NEW x \in Nodes(p), NEW d \in Sides, NEW y, y = At(p, x, d),
                        y # NULL, IsRed(p, x), IsRed(p, y)
                 PROVE  FALSE
      OBVIOUS
    <3>1. x # c /\ y # c
      BY <1>9
    <3>2. x \in Nodes(t) \ {n, c} /\ IsRed(t, x) /\ y = At(u, x, d)
      BY <1>6, <1>8, <3>1
    <3>3. y = At(t, x, d)
      BY <1>2, <3>1, <3>2
    <3>4. y \in Nodes(p)
      <4>1. PICK a : Tree(p, a, top)
        BY <1>5
      <4> QED
        BY <4>1, ChildFacts
    <3>5. IsRed(t, y)
      BY <1>6, <1>8, <3>1, <3>4
    <3> QED
      BY <1>7, <3>2, <3>3, <3>5 DEF RedsApart
  <2>2. p.root # NULL => ~ IsRed(p, p.root)
    <3>1. SUFFICES ASSUME NEW r, r = p.root, r # NULL, IsRed(p, r) PROVE FALSE
      OBVIOUS
    <3>2. r # c /\ r = t.root
      BY <1>2, <1>6, <1>9, <3>1
    <3>3. r \in Nodes(p)
      BY <1>5, <3>1 DEF Tree, Links
    <3>4. IsRed(t, r)
      BY <1>6, <1>8, <3>1, <3>2, <3>3
    <3> QED
      BY <1>7, <3>1, <3>2, <3>4 DEF RedsApart
  <2> QED
    BY <2>1, <2>2 DEF RedsApart
<1>12. Carries(p)
  <2> SUFFICES ASSUME NEW x \in Nodes(p)
               PROVE  /\ At(p, x, "color") \in {"red", "black"}
                      /\ x = Phantom => ~ IsRed(p, x)
                      /\ x # Phantom => x \in Keys /\ At(p, x, "val") \in Values
    BY DEF Carries
  <2>1. CASE x = c
    <3>1. At(p, x, "color") = "black"
      BY <1>4, <2>1
    <3>2. x # Phantom => x \in Nodes(t) /\ At(p, x, "val") = At(t, x, "val")
      BY <1>1, <1>2, <1>6, <2>1
    <3> QED
      BY <1>7, <3>1, <3>2 DEF Carries, IsRed
  <2>2. CASE x # c
    <3>1. x \in Nodes(t) \ {n, c} /\ x # Phantom
      BY <1>1, <1>2, <1>6, <2>2
    <3>2. At(p, x, "color") = At(t, x, "color") /\ At(p, x, "val") = At(t, x, "val")
      BY <1>2, <1>4, <1>6, <2>2, <3>1
    <3> QED
      BY <1>7, <3>1, <3>2 DEF Carries
  <2> QED
    BY <2>1, <2>2
<1> QED
  BY <1>4, <1>5, <1>10, <1>11, <1>12 DEF Sound

(* rb_remove goes right from n until it can go no further.                 *)
LEMMA LastFacts ==
    ASSUME NEW t, NEW b, NEW top, Tree(t, b, top), NEW n \in Nodes(t),
           NEW m, m = Last(t, n)
    PROVE  /\ m \in Nodes(t) /\ At(t, m, "right") = NULL
           /\ b[m]["right"] = b[n]["right"] /\ b[n]["left"] <= b[m]["left"]
<1> DEFINE N == Nodes(t)
           Right(x) == At(t, x, "right")
           stop == {x \in N : Right(x) = NULL}
           next == [x \in N \ stop |-> Right(x)]
           rank == [x \in N |-> Width(b, x)]
           Goes(f) == [x \in N |-> IF Right(x) = NULL THEN x ELSE f[Right(x)]]
<1>1. \A x \in N : Right(x) # NULL =>
         /\ Right(x) \in N /\ Width(b, Right(x)) < Width(b, x)
         /\ b[Right(x)]["right"] = b[x]["right"] /\ b[x]["left"] < b[Right(x)]["left"]
  <2> SUFFICES ASSUME NEW x \in N, NEW y, y = Right(x), y # NULL
               PROVE  /\ y \in N /\ Width(b, y) < Width(b, x)
                      /\ b[y]["right"] = b[x]["right"] /\ b[x]["left"] < b[y]["left"]
    OBVIOUS
  <2>1. /\ y \in N /\ x # Phantom /\ Width(b, y) < Width(b, x)
        /\ b[y]["right"] = b[x]["right"] /\ b[y]["left"] = x
    <3>1. /\ y \in N /\ x # Phantom /\ Width(b, y) < Width(b, x)
          /\ b[y]["right"] = b[x]["right"] /\ b[y][Opposite("right")] = x
      BY SidesFacts, ChildFacts
    <3> QED
      BY <3>1, SidesFacts
  <2>2. b[x]["left"] < x
    BY <2>1 DEF Tree, Order
  <2> QED
    BY <2>1, <2>2
<1>2. \A x \in N : Width(b, x) \in Nat /\ Width(b, x) <= top
  <2>1. top \in Nat
    BY DEF Tree, Order
  <2>2. \A x \in N : Width(b, x) \in Nat /\ top - Width(b, x) \in Nat
    BY WidthFacts
  <2> QED
    BY <2>1, <2>2
<1>3. \E f : f = Goes(f)
  <2> DEFINE id == [x \in N |-> x]
  <2>1. next \in [N \ stop -> N] /\ \A x \in N \ stop : next[x] = Right(x) /\ Right(x) # NULL
    BY <1>1
  <2>2. rank \in [N -> Nat] /\ top \in Nat /\ (\A x \in N : rank[x] <= top)
        /\ \A x \in N : rank[x] = Width(b, x)
    BY <1>2 DEF Tree, Order
  <2>3. id \in [N -> N] /\ stop \in SUBSET N /\ \A x \in N : id[x] = x
    OBVIOUS
  <2>4. \A x \in N : x \in stop <=> Right(x) = NULL
    OBVIOUS
  <2> HIDE DEF next, rank, id, stop
  <2>5. \A x \in N \ stop : rank[next[x]] < rank[x]
    BY <1>1, <2>1, <2>2
  <2>6. Path(N, stop, next, rank, top)
    BY <2>1, <2>2, <2>3, <2>5 DEF Path
  <2>7. PICK f \in [N -> N] : Follows(f, N, stop, next, id, id)
    BY <2>3, <2>6, RecursionExists
  <2>8. \A x \in N : f[x] = IF Right(x) = NULL THEN x ELSE f[Right(x)]
    <3> TAKE x \in N
    <3>1. f[x] = IF x \in stop THEN id[x] ELSE id[f[next[x]]]
      BY <2>7 DEF Follows
    <3>2. CASE x \in stop
      BY <2>3, <2>4, <3>1, <3>2
    <3>3. CASE x \notin stop
      <4>1. next[x] = Right(x) /\ Right(x) # NULL /\ f[next[x]] \in N
        BY <2>1, <3>3
      <4> QED
        BY <2>3, <3>1, <3>3, <4>1
    <3> QED
      BY <3>2, <3>3
  <2>9. f = [x \in N |-> f[x]]
    OBVIOUS
  <2>10. f = Goes(f)
    BY <2>8, <2>9
  <2> QED
    BY <2>10
<1>4. PICK d : d = Goes(d) /\ Last(t, n) = d[n]
  <2> DEFINE Ends(f) == [x \in N |-> IF t.node[x].right = NULL THEN x ELSE f[t.node[x].right]]
  <2>1. Last(t, n) = (CHOOSE f : f = Ends(f))[n]
    BY DEF Last
  <2>2. \A f : Ends(f) = Goes(f)
    BY DEF At
  <2> HIDE DEF Goes, Ends
  <2>3. \E f : f = Ends(f)
    BY <1>3, <2>2
  <2>4. PICK d : d = (CHOOSE f : f = Ends(f))
    OBVIOUS
  <2>5. d = Ends(d)
    BY <2>3, <2>4
  <2> QED
    BY <2>1, <2>2, <2>4, <2>5
<1>5. \A x \in N : d[x] = IF Right(x) = NULL THEN x ELSE d[Right(x)]
  BY <1>4
<1> DEFINE Good(x, q) == /\ q \in N /\ Right(q) = NULL
                         /\ b[q]["right"] = b[x]["right"] /\ b[x]["left"] <= b[q]["left"]
           Bad == {x \in N : ~ Good(x, d[x])}
           H == {Width(b, x) : x \in Bad}
<1>6. Bad = {}
  <2>1. SUFFICES ASSUME Bad # {} PROVE FALSE
    OBVIOUS
  <2>2. H \in SUBSET Nat /\ H # {}
    BY <1>2, <2>1
  <2>3. PICK i \in H : \A j \in H : i <= j
    <3> HIDE DEF H
    <3> QED
      BY <2>2, LeastIn
  <2>4. PICK x \in Bad : \A y \in Bad : Width(b, x) <= Width(b, y)
    BY <2>3
  <2>5. x \in N /\ ~ Good(x, d[x])
    BY <2>4
  <2>6. \A y \in N : b[y]["left"] \in Int
    BY SidesFacts DEF Tree, Order
  <2>7. Right(x) # NULL
    <3>1. SUFFICES ASSUME Right(x) = NULL PROVE FALSE
      OBVIOUS
    <3>2. d[x] = x
      BY <1>5, <2>5, <3>1
    <3> QED
      BY <2>5, <2>6, <3>1, <3>2
  <2>8. PICK y : y = Right(x)
    OBVIOUS
  <2>9. /\ y \in N /\ Width(b, y) < Width(b, x) /\ Width(b, x) \in Nat /\ Width(b, y) \in Nat
        /\ b[y]["right"] = b[x]["right"] /\ b[x]["left"] < b[y]["left"]
    BY <1>1, <1>2, <2>5, <2>7, <2>8
  <2>10. d[x] = d[y]
    BY <1>5, <2>5, <2>7, <2>8
  <2>11. y \notin Bad
    BY <2>4, <2>9
  <2>12. Good(y, d[y])
    BY <2>9, <2>11
  <2>13. b[x]["left"] <= b[d[y]]["left"]
    BY <2>5, <2>6, <2>9, <2>12
  <2> QED
    BY <2>5, <2>9, <2>10, <2>12, <2>13
<1>7. Good(n, d[n])
  BY <1>6
<1> QED
  BY <1>4, <1>7

(* The last node on the left of k is the next before it.                   *)
LEMMA NextBefore ==
    ASSUME NEW t, NEW b, NEW top, Tree(t, b, top), Phantom \notin Nodes(t), NEW k \in Nodes(t),
           At(t, k, "left") # NULL, NEW m, m = Last(t, At(t, k, "left"))
    PROVE  /\ m \in Nodes(t) /\ At(t, m, "right") = NULL /\ m < k
           /\ b[k]["left"] < m /\ b[m]["right"] = k /\ b[m]["left"] < m
           /\ \A y \in Nodes(t) : ~ (m < y /\ y < k)
<1>1. PICK n : n = At(t, k, "left")
  OBVIOUS
<1>2. /\ n \in Nodes(t) /\ b[n]["left"] = b[k]["left"] /\ b[n]["right"] = k
  <2>1. n \in Nodes(t) /\ b[n]["left"] = b[k]["left"] /\ b[n][Opposite("left")] = k
    BY <1>1, SidesFacts, ChildFacts
  <2> QED
    BY <2>1, SidesFacts
<1>3. /\ m \in Nodes(t) /\ At(t, m, "right") = NULL
      /\ b[m]["right"] = b[n]["right"] /\ b[n]["left"] <= b[m]["left"]
  BY <1>1, <1>2, LastFacts
<1>4. /\ b[m]["left"] \in Int /\ b[n]["left"] \in Int /\ m \in Int
      /\ b[m]["left"] < m /\ m < b[m]["right"]
  BY <1>2, <1>3, SidesFacts DEF Tree, Order, Links
<1>5. ASSUME NEW y \in Nodes(t), m < y, y < k PROVE FALSE
  <2>1. y # Phantom /\ m # y /\ y \in Int
    BY <1>4, <1>5 DEF Tree, Links
  <2>2. In(b, m, y)
    BY <1>2, <1>3, <1>4, <1>5, <2>1 DEF In
  <2>3. PICK d \in Sides : At(t, m, d) # NULL /\ In(b, At(t, m, d), y)
    BY <1>3, <2>1, <2>2, TheWay
  <2>4. d = "left"
    BY <1>3, <2>3 DEF Sides
  <2>5. PICK c : c = At(t, m, "left")
    OBVIOUS
  <2>6. b[c][Opposite("left")] = m
    BY <1>3, <2>3, <2>4, <2>5, SidesFacts, ChildFacts
  <2>7. b[c]["right"] = m /\ y < b[c]["right"]
    BY <2>3, <2>4, <2>5, <2>6, SidesFacts DEF In
  <2> QED
    BY <1>4, <1>5, <2>1, <2>7
<1> QED
  BY <1>2, <1>3, <1>4, <1>5

(* Two names are exchanged.                                                *)
Swap(x, k, m) == IF x = k THEN m ELSE IF x = m THEN k ELSE x

(* What has been called k is called m.                                     *)
LEMMA MovedEffect ==
    ASSUME NEW t, Form(t), NULL \notin Nodes(t), NEW k \in Nodes(t), NEW m \in Nodes(t), k # m,
           NEW u, u = Moved(t, k, m)
    PROVE  /\ Form(u) /\ Nodes(u) = Nodes(t) /\ u.root = Swap(t.root, k, m)
           /\ \A x \in Nodes(t) :
                 /\ \A g \in Sides \cup {"parent"} :
                       At(u, x, g) = Swap(At(t, Swap(x, k, m), g), k, m)
                 /\ At(u, x, "color") = At(t, Swap(x, k, m), "color")
                 /\ x # k => At(u, x, "val") = At(t, x, "val")
<1> DEFINE S(x) == Swap(x, k, m)
           entry(x) == [left |-> S(t.node[x].left), right |-> S(t.node[x].right),
                        parent |-> S(t.node[x].parent), color |-> t.node[x].color,
                        val |-> t.node[x].val]
           r == [root |-> S(t.root), node |-> [x \in Nodes(t) |-> entry(S(x))]]
<1>1. \A x : S(x) = CASE x = k -> m [] x = m -> k [] OTHER -> x
  BY DEF Swap
<1>2. Renamed(t, k, m) = r
  <2> DEFINE name(x) == CASE x = k -> m [] x = m -> k [] OTHER -> x
             moved(x) == [left |-> name(t.node[x].left), right |-> name(t.node[x].right),
                          parent |-> name(t.node[x].parent), color |-> t.node[x].color,
                          val |-> t.node[x].val]
  <2>1. Renamed(t, k, m) = [root |-> name(t.root), node |-> [x \in Nodes(t) |-> moved(name(x))]]
    BY DEF Renamed
  <2>2. \A x : name(x) = S(x)
    BY <1>1
  <2> HIDE DEF name, S
  <2>3. \A x : moved(x) = entry(x)
    BY <2>2
  <2> HIDE DEF moved, entry
  <2> QED
    BY <2>1, <2>2, <2>3
<1>3. Form(r) /\ Nodes(r) = Nodes(t) /\ r.root = S(t.root)
  <2>1. DOMAIN r = {"root", "node"} /\ r.root = S(t.root) /\ r.node = [x \in Nodes(t) |-> entry(S(x))]
    OBVIOUS
  <2>2. \A x : DOMAIN entry(x) = Fields
    BY DEF Fields, Sides
  <2> HIDE DEF entry, r, S
  <2> QED
    BY <2>1, <2>2 DEF Form, Nodes
<1>4. \A x \in Nodes(t), g \in Fields : At(r, x, g) = entry(S(x))[g]
  <2> HIDE DEF entry, S
  <2> QED
    BY DEF At
<1>5. \A x : /\ \A g \in Sides \cup {"parent"} : entry(x)[g] = S(At(t, x, g))
             /\ entry(x)["color"] = At(t, x, "color") /\ entry(x)["val"] = At(t, x, "val")
  <2> TAKE x
  <2>1. /\ entry(x)["left"] = S(At(t, x, "left")) /\ entry(x)["right"] = S(At(t, x, "right"))
        /\ entry(x)["parent"] = S(At(t, x, "parent"))
        /\ entry(x)["color"] = At(t, x, "color") /\ entry(x)["val"] = At(t, x, "val")
    <3> HIDE DEF S
    <3> QED
      BY DEF At
  <2> HIDE DEF entry, S
  <2> QED
    BY <2>1 DEF Sides
<1> HIDE DEF r, entry, S
<1>6. u = Put(r, m, "val", t.node[m].val)
  BY <1>2 DEF Moved, Put
<1>7. /\ Form(u) /\ Nodes(u) = Nodes(t) /\ u.root = S(t.root)
      /\ \A y \in Nodes(t), g \in Fields :
            At(u, y, g) = IF y = m /\ g = "val" THEN t.node[m].val ELSE At(r, y, g)
  BY <1>3, <1>6, SidesFacts, PutEffect
<1>8. \A x \in Nodes(t), g \in Sides \cup {"parent"} : At(u, x, g) = S(At(t, S(x), g))
  BY <1>4, <1>5, <1>7, SidesFacts
<1>9. \A x \in Nodes(t) : At(u, x, "color") = At(t, S(x), "color")
  BY <1>4, <1>5, <1>7, SidesFacts
<1>10. \A x \in Nodes(t) : x # k => At(u, x, "val") = At(t, x, "val")
  <2> SUFFICES ASSUME NEW x \in Nodes(t), x # k PROVE At(u, x, "val") = At(t, x, "val")
    OBVIOUS
  <2>1. CASE x = m
    BY <1>7, <2>1, SidesFacts DEF At
  <2>2. CASE x # m
    BY <1>4, <1>5, <1>7, <2>2, SidesFacts DEF S, Swap
  <2> QED
    BY <2>1, <2>2
<1> QED
  BY <1>7, <1>8, <1>9, <1>10 DEF S

(* After the move k can be cut out where m was to be.                      *)
LEMMA MovedRemovable ==
    ASSUME NEW t, NEW k \in Nodes(t), NEW m \in Nodes(t), k # m, NEW c, Removable(t, m, c), c # k,
           m # t.root, At(t, m, "parent") \in Nodes(t), NEW u, u = Moved(t, k, m)
    PROVE  Removable(u, k, c)
<1> DEFINE S(x) == Swap(x, k, m)
<1>1. PICK q : q = At(t, m, "parent")
  OBVIOUS
<1>2. PICK z : z = Side(t, m)
  OBVIOUS
<1>3. /\ Form(t) /\ NULL \notin Nodes(t) /\ Phantom \notin Nodes(t)
      /\ At(t, m, "left") = NULL \/ At(t, m, "right") = NULL
      /\ c = IF At(t, m, "left") # NULL THEN At(t, m, "left")
             ELSE IF At(t, m, "right") # NULL THEN At(t, m, "right") ELSE Phantom
      /\ c # Phantom => c \in Nodes(t) \ {m} /\ \A d \in Sides : At(t, c, d) = NULL
      /\ q \in Nodes(t) /\ q # m /\ q # c /\ At(t, q, z) = m
      /\ \A y \in Nodes(t), d \in Sides : At(t, y, d) = m => y = q /\ d = z
      /\ \A y \in Nodes(t) : At(t, y, "parent") = m => y = c
  <2>1. q # NULL
    BY <1>1 DEF Removable
  <2> QED
    BY <1>1, <1>2, <2>1 DEF Removable
<1>4. /\ Form(u) /\ Nodes(u) = Nodes(t) /\ u.root = S(t.root)
      /\ \A x \in Nodes(t), g \in Sides \cup {"parent"} : At(u, x, g) = S(At(t, S(x), g))
  BY <1>3, MovedEffect
<1>5. /\ \A x : S(S(x)) = x /\ (S(x) = k <=> x = m) /\ (S(x) = m <=> x = k)
      /\ S(k) = m /\ S(m) = k /\ \A x : x \notin {k, m} => S(x) = x
      /\ \A x \in Nodes(t) : S(x) \in Nodes(t)
  BY DEF Swap
<1>6. c # m /\ c # NULL /\ S(c) = c /\ S(NULL) = NULL
  <2>1. Phantom # NULL
    BY DEF Phantom, NULL
  <2>2. c # m /\ c # NULL
    BY <1>3, <2>1
  <2> QED
    BY <1>3, <1>5, <2>2
<1> HIDE DEF S
<1>7. At(u, k, "left") = At(t, m, "left") /\ At(u, k, "right") = At(t, m, "right")
  <2>1. \A d \in Sides : At(t, m, d) = NULL \/ At(t, m, d) = c
    BY <1>3 DEF Sides
  <2>2. \A d \in Sides : At(u, k, d) = S(At(t, m, d))
    BY <1>4, <1>5
  <2> QED
    BY <1>6, <2>1, <2>2, SidesFacts
<1>8. c # Phantom => \A d \in Sides : At(u, c, d) = NULL
  BY <1>3, <1>4, <1>6
<1>9. At(u, k, "parent") = S(q)
  BY <1>1, <1>4, <1>5
<1>10. S(q) \in Nodes(t) /\ S(q) # k /\ S(q) # c /\ S(q) # NULL
  BY <1>3, <1>5, <1>6
<1>11. Side(u, k) = z
  <2>1. Parent(u, k) = S(q) /\ Parent(t, m) = q
    BY <1>1, <1>9 DEF Parent, At
  <2>2. At(u, S(q), "left") = S(At(t, q, "left"))
    BY <1>3, <1>4, <1>5, SidesFacts
  <2>3. At(u, S(q), "left") = k <=> At(t, q, "left") = m
    BY <1>5, <2>2
  <2> QED
    BY <1>2, <2>1, <2>3 DEF Side, At
<1>12. z \in Sides
  BY <1>2 DEF Side, Sides
<1>13. At(u, S(q), z) = k
  BY <1>3, <1>4, <1>5, <1>12
<1>14. \A y \in Nodes(t), d \in Sides : At(u, y, d) = k => y = S(q) /\ d = z
  <2> SUFFICES ASSUME NEW y \in Nodes(t), NEW d \in Sides, At(u, y, d) = k
               PROVE  y = S(q) /\ d = z
    OBVIOUS
  <2>1. At(t, S(y), d) = m
    BY <1>4, <1>5
  <2>2. S(y) = q /\ d = z
    BY <1>3, <1>5, <2>1
  <2> QED
    BY <1>5, <2>2
<1>15. \A y \in Nodes(t) : At(u, y, "parent") = k => y = c
  <2> SUFFICES ASSUME NEW y \in Nodes(t), At(u, y, "parent") = k PROVE y = c
    OBVIOUS
  <2>1. At(t, S(y), "parent") = m
    BY <1>4, <1>5
  <2>2. S(y) = c
    BY <1>3, <1>5, <2>1
  <2> QED
    BY <1>5, <1>6, <2>2
<1>16. u.root # k
  BY <1>4, <1>5
<1> QED
  BY <1>3, <1>4, <1>7, <1>8, <1>9, <1>10, <1>11, <1>13, <1>14, <1>15, <1>16 DEF Removable

(* Node k is called m.                                                     *)
New(x, k, m) == IF x = k THEN m ELSE x

Relabeled(w, u, k, m) ==
    /\ Form(u) /\ Nodes(u) = (Nodes(w) \ {k}) \cup {m}
    /\ u.root = New(w.root, k, m)
    /\ \A y \in Nodes(w) :
          /\ \A g \in Sides \cup {"parent"} : At(u, New(y, k, m), g) = New(At(w, y, g), k, m)
          /\ At(u, New(y, k, m), "color") = At(w, y, "color")
          /\ y # k /\ y # Phantom => At(u, y, "val") = At(w, y, "val")

(* To cut out m and then call k m is what moving and cutting out k does.   *)
LEMMA CutRelabeled ==
    ASSUME NEW t, NEW k \in Nodes(t), NEW m \in Nodes(t), k # m, NEW c, Removable(t, m, c), c # k,
           m # t.root, At(t, m, "parent") \in Nodes(t), NEW v, v = Moved(t, k, m),
           NEW w, Cut(t, w, m, c), NEW u, Cut(v, u, k, c)
    PROVE  Relabeled(w, u, k, m) /\ At(u, m, "val") = At(t, m, "val")
<1> DEFINE S(x) == Swap(x, k, m)
           R(x) == New(x, k, m)
<1>1. PICK q : q = At(t, m, "parent")
  OBVIOUS
<1>2. /\ Form(t) /\ NULL \notin Nodes(t) /\ Phantom \notin Nodes(t)
      /\ c # Phantom => c \in Nodes(t) \ {m}
      /\ q \in Nodes(t) /\ q # m /\ q # c
      /\ \A y \in Nodes(t) : At(t, y, "parent") = m => y = c
  BY <1>1 DEF Removable
<1>3. /\ Nodes(v) = Nodes(t) /\ v.root = S(t.root)
      /\ \A x \in Nodes(t), g \in Sides \cup {"parent"} : At(v, x, g) = S(At(t, S(x), g))
      /\ \A x \in Nodes(t) : At(v, x, "color") = At(t, S(x), "color")
      /\ \A x \in Nodes(t) : x # k => At(v, x, "val") = At(t, x, "val")
  <2> HIDE DEF S
  <2>1. /\ Form(v) /\ Nodes(v) = Nodes(t) /\ v.root = Swap(t.root, k, m)
        /\ \A x \in Nodes(t) :
              /\ \A g \in Sides \cup {"parent"} :
                    At(v, x, g) = Swap(At(t, Swap(x, k, m), g), k, m)
              /\ At(v, x, "color") = At(t, Swap(x, k, m), "color")
              /\ x # k => At(v, x, "val") = At(t, x, "val")
    <3>1. Form(t) /\ NULL \notin Nodes(t)
      BY <1>2
    <3> QED
      BY <3>1, MovedEffect
  <2>2. v.root = S(t.root)
    BY <2>1 DEF S
  <2>3. \A x \in Nodes(t), g \in Sides \cup {"parent"} : At(v, x, g) = S(At(t, S(x), g))
    BY <2>1 DEF S
  <2>4. \A x \in Nodes(t) : At(v, x, "color") = At(t, S(x), "color")
    BY <2>1 DEF S
  <2> QED
    BY <2>1, <2>2, <2>3, <2>4
<1>4. /\ \A x : (S(x) = k <=> x = m) /\ (x # m => S(x) = R(x)) /\ (x # m => S(S(x)) = x)
      /\ S(k) = m /\ S(m) = k /\ R(k) = m /\ \A x : x # k => R(x) = x
      /\ \A x \in Nodes(t) : S(x) \in Nodes(t)
  BY DEF Swap, New
<1>5. c # m /\ c # NULL /\ R(c) = c /\ R(NULL) = NULL /\ S(c) = c
  <2>1. Phantom # NULL
    BY DEF Phantom, NULL
  <2>2. c # m /\ c # NULL
    BY <1>2, <2>1
  <2> QED
    BY <1>2, <1>4, <2>2
<1> HIDE DEF S, R
<1>6. /\ Form(w) /\ Nodes(w) = (Nodes(t) \ {m}) \cup {c}
      /\ w.root = t.root
      /\ At(w, c, "parent") = q
      /\ \A d \in Sides : At(w, c, d) = NULL
      /\ c = Phantom => At(w, c, "color") = "black"
      /\ c # Phantom => At(w, c, "color") = At(t, c, "color") /\ At(w, c, "val") = At(t, c, "val")
      /\ \A y \in Nodes(t) \ {m, c} :
          /\ \A g \in {"parent", "color", "val"} : At(w, y, g) = At(t, y, g)
          /\ \A d \in Sides : At(w, y, d) = IF At(t, y, d) = m THEN c ELSE At(t, y, d)
  BY <1>1 DEF Cut
<1>7. /\ Form(u) /\ Nodes(u) = (Nodes(t) \ {k}) \cup {c}
      /\ u.root = S(t.root)
      /\ At(u, c, "parent") = S(q)
      /\ \A d \in Sides : At(u, c, d) = NULL
      /\ c = Phantom => At(u, c, "color") = "black"
      /\ c # Phantom => At(u, c, "color") = At(v, c, "color") /\ At(u, c, "val") = At(v, c, "val")
      /\ \A y \in Nodes(t) \ {k, c} :
          /\ \A g \in {"parent", "color", "val"} : At(u, y, g) = At(v, y, g)
          /\ \A d \in Sides : At(u, y, d) = IF At(v, y, d) = k THEN c ELSE At(v, y, d)
  <2>1. At(v, k, "parent") = S(q) /\ v.root # k
    BY <1>1, <1>3, <1>4
  <2> QED
    BY <1>3, <2>1 DEF Cut
<1>8. Nodes(u) = (Nodes(w) \ {k}) \cup {m}
  BY <1>2, <1>5, <1>6, <1>7
<1>9. u.root = R(w.root)
  BY <1>4, <1>6, <1>7
<1>10. \A y \in Nodes(w), d \in Sides : At(u, R(y), d) = R(At(w, y, d))
  <2> TAKE y \in Nodes(w), d \in Sides
  <2>1. CASE y = c
    BY <1>5, <1>6, <1>7, <2>1
  <2>2. CASE y # c
    <3>1. y \in Nodes(t) \ {m, c} /\ R(y) = S(y) /\ S(y) \in Nodes(t) \ {k, c} /\ S(S(y)) = y
      BY <1>4, <1>5, <1>6, <2>2
    <3>2. At(v, S(y), d) = S(At(t, y, d))
      BY <1>3, <3>1
    <3>3. At(u, S(y), d) = IF At(t, y, d) = m THEN c ELSE S(At(t, y, d))
      BY <1>4, <1>7, <3>1, <3>2
    <3>4. At(w, y, d) = IF At(t, y, d) = m THEN c ELSE At(t, y, d)
      BY <1>6, <3>1
    <3> QED
      BY <1>4, <1>5, <3>1, <3>3, <3>4
  <2> QED
    BY <2>1, <2>2
<1>11. \A y \in Nodes(w) : At(u, R(y), "parent") = R(At(w, y, "parent"))
  <2> TAKE y \in Nodes(w)
  <2>1. CASE y = c
    BY <1>2, <1>4, <1>5, <1>6, <1>7, <2>1
  <2>2. CASE y # c
    <3>1. y \in Nodes(t) \ {m, c} /\ R(y) = S(y) /\ S(y) \in Nodes(t) \ {k, c} /\ S(S(y)) = y
      BY <1>4, <1>5, <1>6, <2>2
    <3>2. At(u, S(y), "parent") = S(At(t, y, "parent"))
      BY <1>3, <1>7, <3>1
    <3>3. At(w, y, "parent") = At(t, y, "parent") /\ At(t, y, "parent") # m
      BY <1>2, <1>6, <3>1
    <3> QED
      BY <1>4, <3>1, <3>2, <3>3
  <2> QED
    BY <2>1, <2>2
<1>12. \A y \in Nodes(w) : At(u, R(y), "color") = At(w, y, "color")
  <2> TAKE y \in Nodes(w)
  <2>1. CASE y = c
    <3>1. CASE c = Phantom
      BY <1>5, <1>6, <1>7, <2>1, <3>1
    <3>2. CASE c # Phantom
      <4>1. S(c) = c /\ c \in Nodes(t)
        BY <1>2, <1>4, <1>5, <3>2
      <4> QED
        BY <1>3, <1>5, <1>6, <1>7, <2>1, <3>2, <4>1
    <3> QED
      BY <3>1, <3>2
  <2>2. CASE y # c
    <3>1. y \in Nodes(t) \ {m, c} /\ R(y) = S(y) /\ S(y) \in Nodes(t) \ {k, c} /\ S(S(y)) = y
      BY <1>4, <1>5, <1>6, <2>2
    <3> QED
      BY <1>3, <1>6, <1>7, <3>1
  <2> QED
    BY <2>1, <2>2
<1>13. \A y \in Nodes(w) : y # k /\ y # Phantom => At(u, y, "val") = At(w, y, "val")
  <2> SUFFICES ASSUME NEW y \in Nodes(w), y # k, y # Phantom PROVE At(u, y, "val") = At(w, y, "val")
    OBVIOUS
  <2>1. CASE y = c
    BY <1>2, <1>3, <1>6, <1>7, <2>1
  <2>2. CASE y # c
    BY <1>3, <1>6, <1>7, <2>2
  <2> QED
    BY <2>1, <2>2
<1>14. At(u, m, "val") = At(t, m, "val")
  BY <1>3, <1>5, <1>7
<1>15. \A y \in Nodes(w), g \in Sides \cup {"parent"} : At(u, R(y), g) = R(At(w, y, g))
  BY <1>10, <1>11
<1> QED
  BY <1>7, <1>8, <1>9, <1>12, <1>13, <1>14, <1>15 DEF Relabeled, R

(* If no node is between m and k, and none the phantom could be at, then k *)
(* may be called m.                                                        *)
LEMMA RelabelTree ==
    ASSUME NEW w, NEW u, NEW k \in Nodes(w), NEW m \in Nat \ {0}, Relabeled(w, u, k, m),
           k # Phantom, m < k, m \notin Nodes(w), NEW a, NEW top, Tree(w, a, top),
           \A y \in Nodes(w) : ~ (m < y /\ y < k), a[k]["left"] < m,
           Phantom \in Nodes(w) /\ a[Phantom]["right"] = k => a[Phantom]["left"] < m
    PROVE  \E b : Tree(u, b, top)
<1> DEFINE R(x) == New(x, k, m)
<1>1. /\ Form(u) /\ Nodes(u) = (Nodes(w) \ {k}) \cup {m} /\ u.root = R(w.root)
      /\ \A y \in Nodes(w), g \in Sides \cup {"parent"} : At(u, R(y), g) = R(At(w, y, g))
  BY DEF Relabeled
<1>2. /\ Nodes(w) \subseteq (Nat \ {0}) \cup {Phantom}
      /\ w.root \in Nodes(w)
      /\ \A x \in Nodes(w) :
          /\ At(w, x, "parent") \in Nodes(w) \cup {NULL}
          /\ At(w, x, "parent") = NULL <=> x = w.root
          /\ x # w.root => \E d \in Sides : At(w, At(w, x, "parent"), d) = x
          /\ \A d \in Sides :
                /\ At(w, x, d) \in Nodes(w) \cup {NULL}
                /\ At(w, x, d) # NULL => At(w, At(w, x, d), "parent") = x
                /\ x = Phantom => At(w, x, d) = NULL
  BY DEF Tree, Links
<1>3. /\ NULL \notin Nodes(w) /\ m # NULL /\ m # Phantom /\ k # NULL
  BY <1>2 DEF NULL, Phantom
<1>4. /\ R(k) = m /\ \A x : x # k => R(x) = x
      /\ R(NULL) = NULL /\ R(Phantom) = Phantom
      /\ \A x \in Nodes(w) : R(x) \in Nodes(u) /\ (R(x) = Phantom <=> x = Phantom)
      /\ \A x, y \in Nodes(w) \cup {NULL} : R(x) = R(y) <=> x = y
  BY <1>1, <1>3 DEF New
<1> DEFINE Q(z) == IF z = m THEN k ELSE z
<1>5. \A z \in Nodes(u) : Q(z) \in Nodes(w) /\ R(Q(z)) = z
  BY <1>1, <1>4
<1>6. \A y \in Nodes(w) : Q(R(y)) = y
  BY <1>4
<1> HIDE DEF R, Q
<1>7. Links(u)
  <2>1. Nodes(u) \subseteq (Nat \ {0}) \cup {Phantom}
    BY <1>1, <1>2
  <2>2. u.root \in Nodes(u)
    BY <1>1, <1>2, <1>4
  <2>3. \A x \in Nodes(u) :
          /\ At(u, x, "parent") \in Nodes(u) \cup {NULL}
          /\ At(u, x, "parent") = NULL <=> x = u.root
          /\ x # u.root => \E d \in Sides : At(u, At(u, x, "parent"), d) = x
    <3> TAKE x \in Nodes(u)
    <3>1. PICK y \in Nodes(w) : R(y) = x
      BY <1>5
    <3>2. PICK p : p = At(w, y, "parent")
      OBVIOUS
    <3>3. At(u, x, "parent") = R(p) /\ p \in Nodes(w) \cup {NULL} /\ (p = NULL <=> y = w.root)
      BY <1>1, <1>2, <3>1, <3>2
    <3>4. x = u.root <=> y = w.root
      BY <1>1, <1>2, <1>4, <3>1
    <3>5. R(p) \in Nodes(u) \cup {NULL} /\ (R(p) = NULL <=> p = NULL)
      BY <1>4, <3>3
    <3>6. x # u.root => \E d \in Sides : At(u, R(p), d) = x
      BY <1>1, <1>2, <3>1, <3>2, <3>3, <3>4
    <3> QED
      BY <3>3, <3>4, <3>5, <3>6
  <2>4. \A x \in Nodes(u), d \in Sides :
          /\ At(u, x, d) \in Nodes(u) \cup {NULL}
          /\ At(u, x, d) # NULL => At(u, At(u, x, d), "parent") = x
          /\ x = Phantom => At(u, x, d) = NULL
    <3> TAKE x \in Nodes(u), d \in Sides
    <3>1. PICK y \in Nodes(w) : R(y) = x
      BY <1>5
    <3>2. PICK c : c = At(w, y, d)
      OBVIOUS
    <3>3. /\ At(u, x, d) = R(c) /\ c \in Nodes(w) \cup {NULL}
          /\ c # NULL => At(w, c, "parent") = y
          /\ y = Phantom => c = NULL
      BY <1>1, <1>2, <3>1, <3>2
    <3>4. R(c) \in Nodes(u) \cup {NULL} /\ (R(c) = NULL <=> c = NULL)
      BY <1>4, <3>3
    <3>5. c # NULL => At(u, R(c), "parent") = x
      BY <1>1, <3>1, <3>3
    <3> QED
      BY <1>4, <3>1, <3>3, <3>4, <3>5
  <2>5. NULL \notin Nodes(u)
    BY <1>1, <1>3
  <2> QED
    BY <2>1, <2>2, <2>3, <2>4, <2>5 DEF Links
<1>8. /\ top \in Nat /\ a \in [Nodes(w) -> [Sides -> Int]]
      /\ \A x \in Nodes(w) :
            /\ 0 <= a[x]["left"] /\ a[x]["left"] < a[x]["right"] /\ a[x]["right"] <= top
            /\ x # Phantom => a[x]["left"] < x /\ x < a[x]["right"]
            /\ \A d \in Sides : At(w, x, d) # NULL =>
                  a[At(w, x, d)][d] = a[x][d] /\ a[At(w, x, d)][Opposite(d)] = x
      /\ a[w.root]["left"] = 0 /\ a[w.root]["right"] = top
  BY <1>2, <1>3 DEF Tree, Order
<1> DEFINE b == [z \in Nodes(u) |-> [d \in Sides |-> R(a[Q(z)][d])]]
<1>9. k \in Int /\ m \in Int
  BY <1>2, <1>3
<1>10. /\ b \in [Nodes(u) -> [Sides -> Int]]
       /\ \A y \in Nodes(w), d \in Sides : b[R(y)][d] = R(a[y][d])
  <2>1. \A v \in Int : R(v) \in Int
    BY <1>4, <1>9
  <2>2. \A z \in Nodes(u), d \in Sides : R(a[Q(z)][d]) \in Int
    BY <1>5, <1>8, <2>1
  <2> QED
    BY <1>4, <1>6, <2>2
<1> HIDE DEF b
<1>11. \A x \in Nodes(u) :
          /\ 0 <= b[x]["left"] /\ b[x]["left"] < b[x]["right"] /\ b[x]["right"] <= top
          /\ x # Phantom => b[x]["left"] < x /\ x < b[x]["right"]
  <2> TAKE x \in Nodes(u)
  <2>1. PICK y \in Nodes(w) : R(y) = x
    BY <1>5
  <2>2. PICK l, r : l = a[y]["left"] /\ r = a[y]["right"]
    OBVIOUS
  <2>3. b[x]["left"] = R(l) /\ b[x]["right"] = R(r)
    BY <1>10, <2>1, <2>2, SidesFacts
  <2>4. /\ l \in Int /\ r \in Int /\ 0 <= l /\ l < r /\ r <= top
        /\ y # Phantom => y \in Int /\ l < y /\ y < r
        /\ x = Phantom <=> y = Phantom
    BY <1>2, <1>4, <1>8, <2>1, <2>2, SidesFacts
  <2>5. R(l) <= l /\ R(r) <= top /\ 0 <= R(l) /\ R(l) \in Int /\ R(r) \in Int
    <3>1. top \in Int
      BY <1>8
    <3>2. R(l) <= l /\ 0 <= R(l) /\ R(l) \in Int
      BY <1>4, <1>9, <2>4
    <3>3. R(r) <= r /\ R(r) \in Int
      BY <1>4, <1>9, <2>4
    <3> QED
      BY <2>4, <3>1, <3>2, <3>3
  <2>6. CASE y = k
    <3>1. l < m /\ R(l) = l /\ R(r) = r /\ x = m
      BY <1>4, <1>9, <1>3, <2>1, <2>2, <2>4, <2>6
    <3> QED
      BY <1>9, <1>3, <2>3, <2>4, <2>6, <3>1
  <2>7. CASE y = Phantom
    <3>1. r = k => l < m
      BY <2>2, <2>7
    <3>2. CASE r = k
      <4>1. R(l) = l /\ R(r) = m
        BY <1>4, <1>9, <2>4, <3>2
      <4> QED
        BY <2>3, <2>4, <2>5, <2>7, <3>1, <3>2, <4>1
    <3>3. CASE r # k
      <4>1. R(r) = r
        BY <1>4, <3>3
      <4> QED
        BY <2>3, <2>4, <2>5, <2>7, <4>1
    <3> QED
      BY <3>2, <3>3
  <2>8. CASE y # k /\ y # Phantom
    <3>1. x = y
      BY <1>4, <2>1, <2>8
    <3>2. CASE r = k
      <4>1. y < m
        BY <1>9, <2>4, <2>8, <3>2
      <4>2. R(l) = l /\ R(r) = m
        BY <1>4, <1>9, <2>4, <3>2
      <4> QED
        BY <1>9, <2>3, <2>4, <2>5, <2>8, <3>1, <3>2, <4>1, <4>2
    <3>3. CASE r # k
      <4>1. R(r) = r
        BY <1>4, <3>3
      <4> QED
        BY <2>3, <2>4, <2>5, <2>8, <3>1, <4>1
    <3> QED
      BY <3>2, <3>3
  <2> QED
    BY <2>6, <2>7, <2>8
<1>12. \A x \in Nodes(u), d \in Sides : At(u, x, d) # NULL =>
          b[At(u, x, d)][d] = b[x][d] /\ b[At(u, x, d)][Opposite(d)] = x
  <2> SUFFICES ASSUME NEW x \in Nodes(u), NEW d \in Sides, NEW y, y = At(u, x, d), y # NULL
               PROVE  b[y][d] = b[x][d] /\ b[y][Opposite(d)] = x
    OBVIOUS
  <2>1. PICK v \in Nodes(w) : R(v) = x
    BY <1>5
  <2>2. PICK c : c = At(w, v, d)
    OBVIOUS
  <2>3. y = R(c) /\ c \in Nodes(w)
    <3>1. y = R(c)
      BY <1>1, <2>1, <2>2
    <3>2. c \in Nodes(w) \cup {NULL}
      BY <1>2, <2>2
    <3> QED
      BY <1>4, <3>1, <3>2
  <2>4. a[c][d] = a[v][d] /\ a[c][Opposite(d)] = v
    BY <1>3, <1>8, <2>2, <2>3
  <2>5. Opposite(d) \in Sides
    BY SidesFacts
  <2> QED
    BY <1>10, <2>1, <2>3, <2>4, <2>5
<1>13. b[u.root]["left"] = 0 /\ b[u.root]["right"] = top
  <2>1. b[u.root]["left"] = R(0) /\ b[u.root]["right"] = R(top)
    BY <1>1, <1>2, <1>8, <1>10, SidesFacts
  <2>2. k # 0 /\ k < top
    <3>1. k < a[k]["right"] /\ a[k]["right"] <= top /\ a[k]["right"] \in Int
      BY <1>8, SidesFacts
    <3> QED
      BY <1>2, <1>3, <1>8, <1>9, <3>1 DEF NULL
  <2> QED
    BY <1>4, <1>8, <1>9, <2>1, <2>2
<1>14. Order(u, b, top)
  BY <1>8, <1>10, <1>11, <1>12, <1>13 DEF Order
<1> QED
  BY <1>1, <1>7, <1>14 DEF Tree

(* A name is neither a color nor a number of black nodes.                  *)
LEMMA RelabelSound ==
    ASSUME NEW w, NEW u, NEW k \in Nodes(w), NEW m \in Keys, Relabeled(w, u, k, m),
           k # Phantom, m \notin Nodes(w), \E b, top : Tree(u, b, top),
           NEW e \in {NULL, Phantom}, Sound(w, e, NULL), At(u, m, "val") \in Values
    PROVE  Sound(u, e, NULL)
<1> DEFINE R(x) == New(x, k, m)
<1>1. /\ Nodes(u) = (Nodes(w) \ {k}) \cup {m} /\ u.root = R(w.root)
      /\ \A y \in Nodes(w), g \in Sides \cup {"parent"} : At(u, R(y), g) = R(At(w, y, g))
      /\ \A y \in Nodes(w) : At(u, R(y), "color") = At(w, y, "color")
      /\ \A y \in Nodes(w) : y # k /\ y # Phantom => At(u, y, "val") = At(w, y, "val")
  BY DEF Relabeled
<1>2. /\ NULL \notin Nodes(w) /\ w.root \in Nodes(w)
      /\ \A x \in Nodes(w), d \in Sides : At(w, x, d) \in Nodes(w) \cup {NULL}
  BY DEF Sound, Tree, Links, NULL, Phantom
<1>3. m # NULL /\ m # Phantom /\ k # NULL
  BY <1>2, KeysAssumption DEF NULL, Phantom
<1>4. /\ R(k) = m /\ \A x : x # k => R(x) = x
      /\ R(NULL) = NULL
      /\ \A x \in Nodes(w) : R(x) \in Nodes(u) /\ (R(x) = Phantom <=> x = Phantom)
                             /\ (R(x) = e <=> x = e)
      /\ \A x, y \in Nodes(w) \cup {NULL} : R(x) = R(y) <=> x = y
  BY <1>1, <1>2, <1>3 DEF New
<1> DEFINE Q(z) == IF z = m THEN k ELSE z
<1>5. \A z \in Nodes(u) : Q(z) \in Nodes(w) /\ R(Q(z)) = z
  BY <1>1, <1>4
<1>6. /\ \A y \in Nodes(w) \cup {NULL} : Q(R(y)) = y
      /\ Q(NULL) = NULL
  BY <1>2, <1>3, <1>4
<1> HIDE DEF R, Q
<1>7. \A y \in Nodes(w) : IsRed(u, R(y)) <=> IsRed(w, y)
  BY <1>1 DEF IsRed
<1>8. RedsApart(w, NULL) /\ Carries(w)
  BY DEF Sound
<1>9. \E g : Weighted(u, Weights(u, e), g)
  <2>1. PICK v : v = Weights(w, e)
    OBVIOUS
  <2>2. PICK h : Weighted(w, v, h)
    BY <2>1 DEF Sound
  <2>3. PICK vu : vu = Weights(u, e)
    OBVIOUS
  <2>4. vu \in [Nodes(u) -> Nat] /\ \A x \in Nodes(u) : vu[x] = Own(u, e, x)
    BY <2>3 DEF Weights, Own
  <2>5. \A y \in Nodes(w) : vu[R(y)] = v[y]
    <3> TAKE y \in Nodes(w)
    <3>1. vu[R(y)] = Own(u, e, R(y)) /\ v[y] = Own(w, e, y)
      BY <1>4, <2>1, <2>4 DEF Weights
    <3> QED
      BY <1>4, <1>7, <3>1 DEF Own
  <2>6. /\ h \in [Nodes(w) \cup {NULL} -> Nat] /\ h[NULL] = 0
        /\ \A x \in Nodes(w), d \in Sides : h[x] = h[At(w, x, d)] + v[x]
    BY <2>2 DEF Weighted
  <2> DEFINE g == [z \in Nodes(u) \cup {NULL} |-> h[Q(z)]]
  <2>7. /\ g \in [Nodes(u) \cup {NULL} -> Nat] /\ g[NULL] = 0
        /\ \A y \in Nodes(w) \cup {NULL} : g[R(y)] = h[y]
    <3>1. \A z \in Nodes(u) \cup {NULL} : h[Q(z)] \in Nat
      BY <1>5, <1>6, <2>6
    <3>2. \A y \in Nodes(w) \cup {NULL} : R(y) \in Nodes(u) \cup {NULL}
      BY <1>4
    <3> QED
      BY <1>6, <2>6, <3>1, <3>2
  <2> HIDE DEF g
  <2>8. \A z \in Nodes(u), d \in Sides : g[z] = g[At(u, z, d)] + vu[z]
    <3> TAKE z \in Nodes(u), d \in Sides
    <3>1. PICK y \in Nodes(w) : R(y) = z
      BY <1>5
    <3>2. PICK c : c = At(w, y, d)
      OBVIOUS
    <3>3. At(u, z, d) = R(c) /\ c \in Nodes(w) \cup {NULL} /\ h[y] = h[c] + v[y]
      BY <1>1, <1>2, <2>6, <3>1, <3>2
    <3> QED
      BY <2>5, <2>7, <3>1, <3>3
  <2>9. Weighted(u, vu, g)
    BY <2>4, <2>7, <2>8 DEF Weighted
  <2> QED
    BY <2>3, <2>9
<1>10. RedsApart(u, NULL)
  <2>1. \A z \in Nodes(u), d \in Sides :
           At(u, z, d) # NULL /\ IsRed(u, z) => ~ IsRed(u, At(u, z, d))
    <3> SUFFICES ASSUME NEW z \in Nodes(u), NEW d \in Sides, NEW x, x = At(u, z, d),
                        x # NULL, IsRed(u, z), IsRed(u, x)
                 PROVE  FALSE
      OBVIOUS
    <3>1. PICK y \in Nodes(w) : R(y) = z
      BY <1>5
    <3>2. PICK c : c = At(w, y, d)
      OBVIOUS
    <3>3. x = R(c) /\ c \in Nodes(w) \cup {NULL}
      BY <1>1, <1>2, <3>1, <3>2
    <3>4. c # NULL
      BY <1>4, <3>3
    <3>5. IsRed(w, y) /\ IsRed(w, c)
      BY <1>7, <3>1, <3>3, <3>4
    <3> QED
      BY <1>8, <3>2, <3>4, <3>5 DEF RedsApart
  <2>2. ~ IsRed(u, u.root)
    BY <1>1, <1>2, <1>7, <1>8 DEF RedsApart
  <2> QED
    BY <2>1, <2>2 DEF RedsApart
<1>11. Carries(u)
  <2> SUFFICES ASSUME NEW z \in Nodes(u)
               PROVE  /\ At(u, z, "color") \in {"red", "black"}
                      /\ z = Phantom => ~ IsRed(u, z)
                      /\ z # Phantom => z \in Keys /\ At(u, z, "val") \in Values
    BY DEF Carries
  <2>1. PICK y \in Nodes(w) : R(y) = z
    BY <1>5
  <2>2. At(u, z, "color") = At(w, y, "color") /\ (IsRed(u, z) <=> IsRed(w, y))
        /\ (z = Phantom <=> y = Phantom)
    BY <1>1, <1>4, <1>7, <2>1
  <2>3. z # Phantom => z \in Keys /\ At(u, z, "val") \in Values
    <3>1. CASE y = k
      BY <1>4, <2>1, <3>1
    <3>2. CASE y # k
      BY <1>1, <1>4, <1>8, <2>1, <2>2, <3>2 DEF Carries
    <3> QED
      BY <3>1, <3>2
  <2> QED
    BY <1>8, <2>2, <2>3 DEF Carries
<1> QED
  BY <1>9, <1>10, <1>11 DEF Sound

(* What is left when k is gone: the node with color `red' or not went from *)
(* the place where c is now.                                               *)
Taken(t, k, red, c, u) ==
    /\ Form(u) /\ c \in Nodes(u) /\ c # NULL
    /\ Nodes(u) \ {Phantom} = Nodes(t) \ {k}
    /\ \A y \in Nodes(t) \ {k} : At(u, y, "val") = At(t, y, "val")
    /\ IF c # Phantom
       THEN ~ red /\ IsRed(u, c) /\ Sound(Paint(u, c, "black"), NULL, NULL)
       ELSE ~ IsRed(u, c) /\ Sound(u, IF red THEN NULL ELSE Phantom, NULL)

(* rb_remove of a node that has one child at most.                         *)
LEMMA TakenOne ==
    ASSUME NEW t, Sound(t, NULL, NULL), Phantom \notin Nodes(t), NEW k \in Nodes(t),
           At(t, k, "left") = NULL \/ At(t, k, "right") = NULL,
           NEW r, r = Unlinked(t, k)
    PROVE  Taken(t, k, IsRed(t, k), r.child, r.tree)
<1>1. PICK b, top : Tree(t, b, top)
  BY DEF Sound
<1>2. PICK c : c = IF At(t, k, "left") # NULL THEN At(t, k, "left")
                   ELSE IF At(t, k, "right") # NULL THEN At(t, k, "right") ELSE Phantom
  OBVIOUS
<1>3. /\ Removable(t, k, c)
      /\ c # Phantom => IsRed(t, c) /\ ~ IsRed(t, k)
      /\ \A h : Weighted(t, Weights(t, NULL), h) => h[k] = Weights(t, NULL)[k]
  BY <1>2, OneChild
<1>4. PICK u : u = Unlinked(t, k).tree
  OBVIOUS
<1>5. r.child = c /\ r.tree = u /\ Cut(t, u, k, c)
  BY <1>3, <1>4, UnlinkedEffect
<1>6. PICK p : p = IF c # Phantom THEN Paint(u, c, "black") ELSE u
  OBVIOUS
<1>7. PICK e : e = IF c = Phantom /\ ~ IsRed(t, k) THEN Phantom ELSE NULL
  OBVIOUS
<1>8. Sound(p, e, NULL)
  BY <1>1, <1>3, <1>5, <1>6, <1>7, CutSound
<1>9. NULL \notin Nodes(t) /\ (c # Phantom => c \in Nodes(t) \ {k})
  BY <1>3 DEF Removable
<1>10. /\ Form(u) /\ Nodes(u) = (Nodes(t) \ {k}) \cup {c}
       /\ c = Phantom => At(u, c, "color") = "black"
       /\ c # Phantom => At(u, c, "color") = At(t, c, "color") /\ At(u, c, "val") = At(t, c, "val")
       /\ \A y \in Nodes(t) \ {k, c} : At(u, y, "val") = At(t, y, "val")
  BY <1>5 DEF Cut
<1>11. c # NULL
  BY <1>9 DEF Phantom, NULL
<1>12. \A y \in Nodes(t) \ {k} : At(u, y, "val") = At(t, y, "val")
  <2> TAKE y \in Nodes(t) \ {k}
  <2>1. CASE y = c
    BY <1>10, <2>1
  <2>2. CASE y # c
    BY <1>10, <2>2
  <2> QED
    BY <2>1, <2>2
<1>13. c # Phantom => IsRed(u, c)
  BY <1>3, <1>10 DEF IsRed
<1>14. c = Phantom => ~ IsRed(u, c)
  BY <1>10 DEF IsRed
<1>15. IF c # Phantom
       THEN ~ IsRed(t, k) /\ IsRed(u, c) /\ Sound(Paint(u, c, "black"), NULL, NULL)
       ELSE ~ IsRed(u, c) /\ Sound(u, IF IsRed(t, k) THEN NULL ELSE Phantom, NULL)
  <2>1. CASE c # Phantom
    BY <1>3, <1>6, <1>7, <1>8, <1>13, <2>1
  <2>2. CASE c = Phantom
    <3>1. p = u /\ e = IF IsRed(t, k) THEN NULL ELSE Phantom
      BY <1>6, <1>7, <2>2
    <3> QED
      BY <1>8, <1>14, <2>2, <3>1
  <2> QED
    BY <2>1, <2>2
<1>16. Nodes(u) \ {Phantom} = Nodes(t) \ {k}
  BY <1>9, <1>10
<1> QED
  BY <1>5, <1>10, <1>11, <1>12, <1>15, <1>16 DEF Taken

(* Two trees that differ in a name still do when a node is painted.        *)
LEMMA PaintRelabeled ==
    ASSUME NEW w, NEW u, NEW k, NEW m, Relabeled(w, u, k, m), k \in Nodes(w), m \notin Nodes(w),
           NEW c \in Nodes(w), c # k, NEW p, NEW q, NEW d,
           SameLinks(w, p), SameBindings(w, p),
           \A y \in Nodes(p) : At(p, y, "color") = IF y = c THEN d ELSE At(w, y, "color"),
           q = Paint(u, c, d)
    PROVE  Relabeled(p, q, k, m)
<1> DEFINE R(x) == New(x, k, m)
<1>1. /\ Form(u) /\ Nodes(u) = (Nodes(w) \ {k}) \cup {m} /\ u.root = R(w.root)
      /\ \A y \in Nodes(w), g \in Sides \cup {"parent"} : At(u, R(y), g) = R(At(w, y, g))
      /\ \A y \in Nodes(w) : At(u, R(y), "color") = At(w, y, "color")
      /\ \A y \in Nodes(w) : y # k /\ y # Phantom => At(u, y, "val") = At(w, y, "val")
  BY DEF Relabeled
<1>2. \A y \in Nodes(w) : R(y) \in Nodes(u) /\ (R(y) = c <=> y = c) /\ (y # k => R(y) = y)
  BY <1>1 DEF New
<1> HIDE DEF R
<1>3. c \in Nodes(u)
  BY <1>1
<1>4. /\ SameLinks(u, q)
      /\ \A y \in Nodes(u) : At(q, y, "color") = IF y = c THEN d ELSE At(u, y, "color")
      /\ \A y \in Nodes(u) : At(q, y, "val") = At(u, y, "val")
  BY <1>1, <1>3, PaintEffect
<1>5. /\ Form(q) /\ Nodes(q) = Nodes(u) /\ q.root = u.root
      /\ \A y \in Nodes(u), g \in Sides \cup {"parent"} : At(q, y, g) = At(u, y, g)
  BY <1>4 DEF SameLinks
<1>6. /\ Nodes(p) = Nodes(w) /\ p.root = w.root
      /\ \A y \in Nodes(w), g \in Sides \cup {"parent"} : At(p, y, g) = At(w, y, g)
      /\ \A y \in Nodes(w) : At(p, y, "val") = At(w, y, "val")
  BY DEF SameLinks, SameBindings
<1>7. \A y \in Nodes(p), g \in Sides \cup {"parent"} : At(q, R(y), g) = R(At(p, y, g))
  BY <1>1, <1>2, <1>5, <1>6
<1>8. \A y \in Nodes(p) : At(q, R(y), "color") = At(p, y, "color")
  BY <1>1, <1>2, <1>4, <1>6
<1>9. \A y \in Nodes(p) : y # k /\ y # Phantom => At(q, y, "val") = At(p, y, "val")
  BY <1>1, <1>2, <1>4, <1>6
<1>10. Nodes(q) = (Nodes(p) \ {k}) \cup {m} /\ q.root = R(p.root)
  BY <1>1, <1>5, <1>6
<1> QED
  BY <1>5, <1>7, <1>8, <1>9, <1>10 DEF Relabeled, R

(* rb_remove of a node that has two: the last node on its left goes, and   *)
(* what it held is kept where k was.                                       *)
LEMMA TakenTwo ==
    ASSUME NEW t, Sound(t, NULL, NULL), Phantom \notin Nodes(t), NEW k \in Nodes(t),
           At(t, k, "left") # NULL,
           NEW m, m = Last(t, At(t, k, "left")), NEW v, v = Moved(t, k, m),
           NEW r, r = Unlinked(v, k)
    PROVE  Taken(t, k, IsRed(v, k), r.child, r.tree)
<1>1. PICK b, top : Tree(t, b, top)
  BY DEF Sound
<1>2. /\ m \in Nodes(t) /\ At(t, m, "right") = NULL /\ m < k
      /\ b[k]["left"] < m /\ b[m]["right"] = k /\ b[m]["left"] < m
      /\ \A y \in Nodes(t) : ~ (m < y /\ y < k)
  BY <1>1, NextBefore
<1>3. k \in Nat \ {0} /\ m \in Nat \ {0} /\ k # m /\ NULL \notin Nodes(t) /\ Form(t)
  <2>1. Nodes(t) \subseteq (Nat \ {0}) \cup {Phantom} /\ NULL \notin Nodes(t) /\ Form(t)
    BY <1>1 DEF Tree, Links, NULL, Phantom
  <2>2. k \in Nat /\ m \in Nat
    BY <1>2, <2>1
  <2> QED
    BY <1>2, <2>1, <2>2
<1>4. PICK c : c = IF At(t, m, "left") # NULL THEN At(t, m, "left")
                   ELSE IF At(t, m, "right") # NULL THEN At(t, m, "right") ELSE Phantom
  OBVIOUS
<1>5. /\ Removable(t, m, c)
      /\ c # Phantom => IsRed(t, c) /\ ~ IsRed(t, m)
      /\ \A h : Weighted(t, Weights(t, NULL), h) => h[m] = Weights(t, NULL)[m]
  BY <1>2, <1>4, OneChild
<1>6. (c # Phantom => c \in Nodes(t) \ {m} /\ \A d \in Sides : At(t, c, d) = NULL)
  BY <1>5 DEF Removable
<1>7. c # k /\ c # m /\ c # NULL
  <2>1. Phantom # NULL
    BY DEF Phantom, NULL
  <2> QED
    BY <1>2, <1>3, <1>6, <2>1, SidesFacts
<1>8. m # t.root /\ At(t, m, "parent") \in Nodes(t)
  <2>1. m # t.root
    <3>1. SUFFICES ASSUME m = t.root PROVE FALSE
      OBVIOUS
    <3>2. b[m]["right"] = top
      BY <1>1, <1>2, <1>3, <3>1 DEF Tree, Order
    <3>3. k < b[k]["right"] /\ b[k]["right"] <= top /\ b[k]["right"] \in Int
      BY <1>1, SidesFacts DEF Tree, Order
    <3> QED
      BY <1>2, <1>3, <3>2, <3>3
  <2> QED
    BY <1>1, <1>2, <2>1 DEF Tree, Links
<1>9. PICK w : w = Unlinked(t, m).tree
  OBVIOUS
<1>10. Cut(t, w, m, c)
  BY <1>5, <1>9, UnlinkedEffect
<1>11. Removable(v, k, c)
  BY <1>2, <1>3, <1>5, <1>7, <1>8, MovedRemovable
<1>12. PICK u : u = Unlinked(v, k).tree
  OBVIOUS
<1>13. r.child = c /\ r.tree = u /\ Cut(v, u, k, c)
  BY <1>11, <1>12, UnlinkedEffect
<1>14. Relabeled(w, u, k, m) /\ At(u, m, "val") = At(t, m, "val")
  BY <1>2, <1>3, <1>5, <1>7, <1>8, <1>10, <1>13, CutRelabeled
<1>15. IsRed(v, k) <=> IsRed(t, m)
  <2>1. /\ \A x \in Nodes(t) : At(v, x, "color") = At(t, Swap(x, k, m), "color")
    BY <1>2, <1>3, MovedEffect
  <2>2. Swap(k, k, m) = m
    BY DEF Swap
  <2> QED
    BY <2>1, <2>2 DEF IsRed
<1>16. PICK p : p = IF c # Phantom THEN Paint(w, c, "black") ELSE w
  OBVIOUS
<1>17. PICK e : e = IF c = Phantom /\ ~ IsRed(t, m) THEN Phantom ELSE NULL
  OBVIOUS
<1>18. /\ Sound(p, e, NULL) /\ SameLinks(w, p) /\ SameBindings(w, p)
       /\ \A y \in Nodes(p) : At(p, y, "color") = IF y = c THEN "black" ELSE At(w, y, "color")
  BY <1>1, <1>5, <1>10, <1>16, <1>17, CutSound
<1>19. PICK a : a = [x \in Nodes(w) |-> IF x = c THEN b[m] ELSE b[x]]
  OBVIOUS
<1>20. Tree(p, a, top)
  <2>1. Tree(w, a, top)
    BY <1>1, <1>5, <1>10, <1>19, CutTree
  <2> QED
    BY <1>18, <2>1, SameTree
<1>21. PICK q : q = IF c # Phantom THEN Paint(u, c, "black") ELSE u
  OBVIOUS
<1>22. /\ Nodes(w) = (Nodes(t) \ {m}) \cup {c} /\ Nodes(p) = Nodes(w)
       /\ c = Phantom => At(w, c, "color") = "black"
       /\ c # Phantom => At(w, c, "color") = At(t, c, "color") /\ At(w, c, "val") = At(t, c, "val")
       /\ \A y \in Nodes(t) \ {m, c} : At(w, y, "val") = At(t, y, "val")
  BY <1>10, <1>18 DEF Cut, SameLinks
<1>23. k \in Nodes(p) /\ m \notin Nodes(p) /\ c \in Nodes(p) /\ k # Phantom
  BY <1>3, <1>7, <1>22
<1>24. Relabeled(p, q, k, m) /\ At(q, m, "val") = At(t, m, "val")
  <2>1. CASE c = Phantom
    BY <1>14, <1>16, <1>21, <2>1
  <2>2. CASE c # Phantom
    <3>1. q = Paint(u, c, "black")
      BY <1>21, <2>2
    <3>2. Relabeled(p, q, k, m)
      BY <1>7, <1>14, <1>18, <1>22, <1>23, <3>1, PaintRelabeled
    <3>3. Form(u) /\ c \in Nodes(u) /\ m \in Nodes(u)
      BY <1>7, <1>14, <1>22 DEF Relabeled
    <3>4. \A y \in Nodes(u) : At(q, y, "val") = At(u, y, "val")
      BY <3>1, <3>3, PaintEffect
    <3> QED
      BY <1>14, <3>2, <3>3, <3>4
  <2> QED
    BY <2>1, <2>2
<1>25. \E d, limit : Tree(q, d, limit)
  <2>1. \A y \in Nodes(p) : ~ (m < y /\ y < k)
    <3>1. \A y \in Nodes(p) : y \in Nodes(t) \/ y = Phantom
      BY <1>6, <1>22
    <3>2. ~ (m < Phantom)
      BY <1>3 DEF Phantom
    <3> QED
      BY <1>2, <3>1, <3>2
  <2>2. a[k]["left"] < m
    BY <1>2, <1>7, <1>19, <1>22, <1>23
  <2>3. Phantom \in Nodes(p) => a[Phantom]["left"] < m
    <3>1. Phantom \in Nodes(p) => Phantom = c
      BY <1>22
    <3> QED
      BY <1>2, <1>19, <1>22, <3>1
  <2>4. \E d : Tree(q, d, top)
    BY <1>2, <1>3, <1>20, <1>23, <1>24, <2>1, <2>2, <2>3, RelabelTree
  <2> QED
    BY <2>4
<1>26. Sound(q, e, NULL)
  <2>1. m \in Keys /\ At(t, m, "val") \in Values
    <3>1. m # Phantom
      BY <1>2
    <3> QED
      BY <1>2, <3>1 DEF Sound, Carries
  <2>2. e \in {NULL, Phantom}
    BY <1>17
  <2> QED
    BY <1>18, <1>23, <1>24, <1>25, <2>1, <2>2, RelabelSound
<1>27. /\ Form(u) /\ Nodes(u) = (Nodes(w) \ {k}) \cup {m}
       /\ \A y \in Nodes(w) : At(u, New(y, k, m), "color") = At(w, y, "color")
       /\ \A y \in Nodes(w) : y # k /\ y # Phantom => At(u, y, "val") = At(w, y, "val")
  BY <1>14 DEF Relabeled
<1>28. c \in Nodes(u) /\ At(u, c, "color") = At(w, c, "color")
  <2>1. New(c, k, m) = c
    BY <1>7 DEF New
  <2> QED
    BY <1>7, <1>22, <1>27, <2>1
<1>29. Nodes(u) \ {Phantom} = Nodes(t) \ {k}
  BY <1>2, <1>3, <1>6, <1>7, <1>22, <1>27
<1>30. \A y \in Nodes(t) \ {k} : At(u, y, "val") = At(t, y, "val")
  <2> TAKE y \in Nodes(t) \ {k}
  <2>1. CASE y = m
    BY <1>14, <2>1
  <2>2. CASE y # m
    <3>1. y \in Nodes(w) /\ y # Phantom /\ At(w, y, "val") = At(t, y, "val")
      BY <1>22, <2>2
    <3> QED
      BY <1>27, <3>1
  <2> QED
    BY <2>1, <2>2
<1>31. IF c # Phantom
       THEN ~ IsRed(v, k) /\ IsRed(u, c) /\ Sound(Paint(u, c, "black"), NULL, NULL)
       ELSE ~ IsRed(u, c) /\ Sound(u, IF IsRed(v, k) THEN NULL ELSE Phantom, NULL)
  <2>1. CASE c # Phantom
    <3>1. IsRed(u, c)
      BY <1>5, <1>22, <1>28, <2>1 DEF IsRed
    <3> QED
      BY <1>5, <1>15, <1>17, <1>21, <1>26, <2>1, <3>1
  <2>2. CASE c = Phantom
    <3>1. q = u /\ e = IF IsRed(v, k) THEN NULL ELSE Phantom
      BY <1>15, <1>17, <1>21, <2>2
    <3>2. ~ IsRed(u, c)
      BY <1>22, <1>28, <2>2 DEF IsRed
    <3> QED
      BY <1>26, <2>2, <3>1, <3>2
  <2> QED
    BY <2>1, <2>2
<1> QED
  BY <1>7, <1>13, <1>27, <1>28, <1>29, <1>30, <1>31 DEF Taken

-----------------------------------------------------------------------------
(* The invariant.  Outside of balancing the tree is sound and without a    *)
(* phantom.  While an insertion is balanced, its red node may be below a   *)
(* red one; while a removal is, all ways down agree if its node counts one *)
(* more.                                                                   *)
Consistent(t, q) ==
    /\ q \in [op : {"none", "insert", "remove"}, n : Int]
    /\ q.op = "none" => q = Idle
    /\ Sound(t, IF q.op = "remove" THEN q.n ELSE NULL, IF q.op = "insert" THEN q.n ELSE NULL)
    /\ q.op # "none" => q.n \in Nodes(t)
    /\ q.op = "insert" => IsRed(t, q.n)
    /\ q.op = "remove" => ~ IsRed(t, q.n)
    /\ Phantom \in Nodes(t) => q.op = "remove"

RbInv == Consistent(tree, bal)

(* The bindings of t and u are the same: the phantom's is none.            *)
SameMap(t, u) ==
    /\ Nodes(u) \ {Phantom} = Nodes(t) \ {Phantom}
    /\ \A y \in Nodes(t) \ {Phantom} : At(u, y, "val") = At(t, y, "val")

(* Nodes are numbers.                                                      *)
LEMMA NodesAreInts ==
    ASSUME NEW t, NEW e, NEW r, Sound(t, e, r)
    PROVE  /\ Nodes(t) \subseteq Int /\ NULL \notin Nodes(t) /\ NULL \in Int /\ Form(t)
           /\ t.root \in Nodes(t) \cup {NULL}
           /\ \A x \in Nodes(t) : At(t, x, "parent") = NULL <=> x = t.root
  BY DEF Sound, Tree, Links, NULL, Phantom

(* Idle is a state of the balancing.                                       *)
LEMMA IdleFacts ==
    /\ Idle \in [op : {"none", "insert", "remove"}, n : Int]
    /\ Idle.op = "none" /\ Idle.n = NULL
  BY DEF Idle, NULL

(* A sound tree without a phantom is consistent when nothing is balanced.  *)
LEMMA Rests ==
    ASSUME NEW t, Sound(t, NULL, NULL), Phantom \notin Nodes(t)
    PROVE  Consistent(t, Idle)
  BY IdleFacts DEF Consistent

(* While nothing is balanced the tree is sound and without a phantom.      *)
LEMMA AtRest ==
    ASSUME NEW t, NEW q, Consistent(t, q), q = Idle
    PROVE  Sound(t, NULL, NULL) /\ Phantom \notin Nodes(t)
<1>1. q.op = "none"
  BY IdleFacts
<1>2. q.op # "remove" /\ q.op # "insert"
  BY <1>1
<1> QED
  BY <1>2 DEF Consistent

(* While an insertion is balanced, its node is red and nothing else wrong. *)
LEMMA AtInsertion ==
    ASSUME NEW t, NEW q, Consistent(t, q), q.op = "insert", NEW n, n = q.n
    PROVE  Sound(t, NULL, n) /\ n \in Nodes(t) /\ IsRed(t, n) /\ Phantom \notin Nodes(t)
<1>1. q.op # "remove" /\ q.op # "none"
  OBVIOUS
<1> QED
  BY <1>1 DEF Consistent

(* While a removal is balanced, its node is black and lacks a black one.   *)
LEMMA AtRemoval ==
    ASSUME NEW t, NEW q, Consistent(t, q), q.op = "remove", NEW n, n = q.n
    PROVE  Sound(t, n, NULL) /\ n \in Nodes(t) /\ ~ IsRed(t, n)
<1>1. q.op # "insert" /\ q.op # "none"
  OBVIOUS
<1> QED
  BY <1>1 DEF Consistent

(* The end of a removal, if the tree is sound.                             *)
LEMMA Finished ==
    ASSUME NEW t, Sound(t, NULL, NULL), NEW u, u = PhantomGone(t)
    PROVE  Consistent(u, Idle) /\ SameMap(t, u)
<1>1. /\ Sound(u, NULL, NULL) /\ Nodes(u) = Nodes(t) \ {Phantom}
      /\ \A y \in Nodes(u) : At(u, y, "val") = At(t, y, "val")
  BY PhantomUnlinked
<1> QED
  BY <1>1, Rests DEF SameMap

(* The same nodes with the same values are the same map.                   *)
LEMMA BindingsMap ==
    ASSUME NEW t, NEW u, SameBindings(t, u)
    PROVE  SameMap(t, u)
  BY DEF SameBindings, SameMap

(* One step after the other.                                               *)
LEMMA SameMapTwice ==
    ASSUME NEW t, NEW u, NEW v, SameMap(t, u), SameMap(u, v)
    PROVE  SameMap(t, v)
<1>1. Nodes(u) \ {Phantom} = Nodes(t) \ {Phantom}
  BY DEF SameMap
<1> QED
  BY <1>1 DEF SameMap

-----------------------------------------------------------------------------
(* Each action keeps the invariant, and what it does to the bindings.      *)

(* An insertion starts: the new key is a red leaf.                         *)
LEMMA InsertKeeps ==
    ASSUME RbInv, NEW k \in Keys, NEW v \in Values, Insert(k, v)
    PROVE  /\ RbInv' /\ k \notin Nodes(tree) /\ Nodes(tree') = Nodes(tree) \cup {k}
           /\ At(tree', k, "val") = v
           /\ \A y \in Nodes(tree) : At(tree', y, "val") = At(tree, y, "val")
           /\ Phantom \notin Nodes(tree) /\ k # Phantom
<1>1. PICK t : t = tree
  OBVIOUS
<1>2. Sound(t, NULL, NULL) /\ Phantom \notin Nodes(t)
  BY <1>1, AtRest DEF RbInv, Insert
<1>3. PICK u : u = Linked(t, k, Descend(t, k), v)
  OBVIOUS
<1>4. tree' = u /\ bal' = [op |-> "insert", n |-> k] /\ ~ Found(t, k)
  BY <1>1, <1>3 DEF Insert
<1>5. /\ Sound(u, NULL, k) /\ k \notin Nodes(t) /\ Nodes(u) = Nodes(t) \cup {k}
      /\ At(u, k, "val") = v /\ \A y \in Nodes(t) : At(u, y, "val") = At(t, y, "val")
      /\ IsRed(u, k)
  BY <1>2, <1>3, <1>4, Grown
<1>6. k \in Int /\ k # Phantom
  BY KeysAssumption DEF Phantom
<1>7. PICK q : q = [op |-> "insert", n |-> k]
  OBVIOUS
<1>8. q.op = "insert" /\ q.n = k /\ q \in [op : {"none", "insert", "remove"}, n : Int]
  BY <1>6, <1>7
<1>9. Consistent(u, q)
  BY <1>2, <1>5, <1>6, <1>8 DEF Consistent
<1>10. RbInv'
  BY <1>4, <1>7, <1>9 DEF RbInv
<1> QED
  BY <1>1, <1>2, <1>4, <1>5, <1>6, <1>10

(* A key that is found is there.                                           *)
LEMMA FoundIsThere ==
    ASSUME NEW t, NEW e, NEW r, Sound(t, e, r), NEW k \in Keys, Found(t, k)
    PROVE  k \in Nodes(t)
<1>1. PICK b, top : Tree(t, b, top)
  BY DEF Sound
<1>2. Descend(t, k) = k /\ k # NULL /\ k \in Nat /\ 0 < k
  BY KeysAssumption DEF Found, NULL
<1>3. t.root # NULL
  BY <1>2 DEF Descend
<1>4. PICK limit \in Nat : top <= limit /\ k < limit
  <2>1. top \in Nat
    BY <1>1 DEF Tree, Order
  <2>2. top + k + 1 \in Nat /\ top <= top + k + 1 /\ k < top + k + 1
    BY <1>2, <2>1
  <2> QED
    BY <2>2
<1>5. PICK c : Tree(t, c, limit)
  BY <1>1, <1>4, Widened
<1>6. PICK p : p = Descend(t, k)
  OBVIOUS
<1>7. p \in Nodes(t)
  BY <1>2, <1>3, <1>4, <1>5, <1>6, DescendFacts
<1> QED
  BY <1>2, <1>6, <1>7

(* A client writes a value: everything else is as it was.                  *)
LEMMA OverwriteKeeps ==
    ASSUME RbInv, NEW k \in Keys, NEW v \in Values, Overwrite(k, v)
    PROVE  /\ RbInv' /\ k \in Nodes(tree) /\ Nodes(tree') = Nodes(tree)
           /\ \A y \in Nodes(tree) : At(tree', y, "val") = IF y = k THEN v ELSE At(tree, y, "val")
           /\ Phantom \notin Nodes(tree)
<1>1. PICK t : t = tree
  OBVIOUS
<1>2. Sound(t, NULL, NULL) /\ Phantom \notin Nodes(t)
  BY <1>1, AtRest DEF RbInv, Overwrite
<1>3. PICK b, top : Tree(t, b, top)
  BY <1>2 DEF Sound
<1>4. Found(t, k) /\ bal = Idle /\ bal' = bal
  BY <1>1 DEF Overwrite
<1>5. k \in Nodes(t)
  BY <1>2, <1>4, FoundIsThere
<1>6. PICK u : u = Put(t, k, "val", v)
  OBVIOUS
<1>7. tree' = u
  BY <1>1, <1>6 DEF Overwrite, Put
<1>8. /\ Form(u) /\ Nodes(u) = Nodes(t) /\ u.root = t.root
      /\ \A y \in Nodes(t), g \in Fields :
            At(u, y, g) = IF y = k /\ g = "val" THEN v ELSE At(t, y, g)
  BY <1>3, <1>5, <1>6, SidesFacts, PutEffect DEF Tree
<1>9. /\ SameLinks(t, u)
      /\ \A y \in Nodes(t) : At(u, y, "color") = At(t, y, "color")
      /\ \A y \in Nodes(t) : At(u, y, "val") = IF y = k THEN v ELSE At(t, y, "val")
  BY <1>8, SidesFacts DEF SameLinks
<1>10. \E c, limit : Tree(u, c, limit)
  BY <1>3, <1>9, SameTree
<1>11. /\ Nodes(u) = Nodes(t) /\ u.root = t.root
       /\ \A y \in Nodes(t), d \in Sides : At(u, y, d) = At(t, y, d)
       /\ \A y \in Nodes(t) : IsRed(u, y) <=> IsRed(t, y)
  BY <1>9 DEF SameLinks, IsRed
<1>12. Weights(u, NULL) = Weights(t, NULL)
  BY <1>11 DEF Weights, Own
<1>13. \E h : Weighted(u, Weights(u, NULL), h)
  <2>1. PICK h : Weighted(t, Weights(t, NULL), h)
    BY <1>2 DEF Sound
  <2>2. Weighted(u, Weights(u, NULL), h)
    BY <1>11, <1>12, <2>1 DEF Weighted
  <2> QED
    BY <2>2
<1>14. RedsApart(u, NULL)
  <2>1. RedsApart(t, NULL)
    BY <1>2 DEF Sound
  <2>2. \A x \in Nodes(t), d \in Sides : At(t, x, d) \in Nodes(t) \cup {NULL}
    BY <1>3 DEF Tree, Links
  <2>3. t.root \in Nodes(t) \cup {NULL}
    BY <1>3 DEF Tree, Links
  <2> QED
    BY <1>11, <2>1, <2>2, <2>3 DEF RedsApart
<1>15. Carries(u)
  BY <1>2, <1>9, <1>11 DEF Sound, Carries
<1>16. Sound(u, NULL, NULL)
  BY <1>10, <1>13, <1>14, <1>15 DEF Sound
<1>17. Consistent(u, Idle)
  BY <1>2, <1>11, <1>16, Rests
<1> QED
  BY <1>1, <1>2, <1>4, <1>5, <1>7, <1>9, <1>11, <1>17 DEF RbInv

(* A balancing step, or the end of one.                                    *)
LEMMA InsertAtRootKeeps ==
    ASSUME RbInv, InsertAtRoot
    PROVE  RbInv' /\ SameMap(tree, tree')
<1>1. PICK t, n : t = tree /\ n = bal.n
  OBVIOUS
<1>2. Sound(t, NULL, n) /\ n \in Nodes(t) /\ IsRed(t, n) /\ Phantom \notin Nodes(t)
  BY <1>1, AtInsertion DEF RbInv, InsertAtRoot, Inserting
<1>3. PICK u : u = Paint(t, n, "black")
  OBVIOUS
<1>4. tree' = u /\ bal' = Idle /\ n = t.root
  BY <1>1, <1>3 DEF InsertAtRoot
<1>5. Sound(u, NULL, NULL) /\ SameBindings(t, u)
  BY <1>2, <1>3, <1>4, RootBlack
<1>6. Consistent(u, Idle)
  BY <1>2, <1>5, Rests DEF SameBindings
<1> QED
  BY <1>1, <1>4, <1>5, <1>6, BindingsMap DEF RbInv

(* Below a black parent the insertion is done.                             *)
LEMMA InsertBelowBlackKeeps ==
    ASSUME RbInv, InsertBelowBlack
    PROVE  RbInv' /\ SameMap(tree, tree')
<1>1. PICK t, n : t = tree /\ n = bal.n
  OBVIOUS
<1>2. Sound(t, NULL, n) /\ n \in Nodes(t) /\ IsRed(t, n) /\ Phantom \notin Nodes(t)
  BY <1>1, AtInsertion DEF RbInv, InsertBelowBlack, Inserting
<1>3. tree' = t /\ bal' = Idle /\ n # t.root /\ ~ Red(t, Parent(t, n))
  BY <1>1 DEF InsertBelowBlack
<1>4. PICK p : p = Parent(t, n)
  OBVIOUS
<1>5. ~ IsRed(t, p)
  <2>1. p # NULL
    BY <1>2, <1>3, <1>4, NodesAreInts DEF Parent, At
  <2> QED
    BY <1>3, <1>4, <2>1, RedIs
<1>6. Sound(t, NULL, NULL)
  BY <1>2, <1>3, <1>4, <1>5, BelowBlack
<1>7. Consistent(t, Idle)
  BY <1>2, <1>6, Rests
<1> QED
  BY <1>1, <1>3, <1>7 DEF RbInv, SameMap

(* A red parent.                                                           *)
LEMMA RedRedFacts ==
    ASSUME RbInv, RedRed, NEW t, t = tree, NEW n, n = bal.n, NEW p, p = Parent(t, n)
    PROVE  /\ Sound(t, NULL, n) /\ n \in Nodes(t) /\ IsRed(t, n) /\ Phantom \notin Nodes(t)
           /\ n # t.root /\ IsRed(t, p)
<1>1. Sound(t, NULL, n) /\ n \in Nodes(t) /\ IsRed(t, n) /\ Phantom \notin Nodes(t)
  BY AtInsertion DEF RbInv, RedRed, Inserting
<1>2. n # t.root /\ Red(t, p)
  BY DEF RedRed
<1>3. IsRed(t, p)
  <2>1. p # NULL
    BY <1>2, NullIsBlack
  <2> QED
    BY <1>2, <2>1, RedIs
<1> QED
  BY <1>1, <1>2, <1>3

(* With a red uncle, the insertion goes on at the grandparent.             *)
LEMMA InsertRecolorKeeps ==
    ASSUME RbInv, InsertRecolor
    PROVE  RbInv' /\ SameMap(tree, tree')
<1>1. PICK t, n : t = tree /\ n = bal.n
  OBVIOUS
<1>2. PICK p : p = Parent(t, n)
  OBVIOUS
<1>3. PICK g : g = Parent(t, p)
  OBVIOUS
<1>4. PICK uncle : uncle = Sibling(t, p)
  OBVIOUS
<1>5. PICK u : u = Paint(Paint(Paint(t, p, "black"), uncle, "black"), g, "red")
  OBVIOUS
<1>6. RedRed /\ Red(t, uncle)
  BY <1>1, <1>2, <1>4 DEF InsertRecolor, Uncle
<1>7. tree' = u /\ bal' = [bal EXCEPT !.n = g]
  BY <1>1, <1>2, <1>3, <1>4, <1>5 DEF InsertRecolor, Uncle
<1>8. /\ Sound(t, NULL, n) /\ n \in Nodes(t) /\ IsRed(t, n) /\ Phantom \notin Nodes(t)
      /\ n # t.root /\ IsRed(t, p)
  BY <1>1, <1>2, <1>6, RedRedFacts
<1>9. uncle # NULL /\ IsRed(t, uncle)
  <2>1. uncle # NULL
    BY <1>6, NullIsBlack
  <2> QED
    BY <1>6, <2>1, RedIs
<1>10. Sound(u, NULL, g) /\ SameBindings(t, u) /\ g \in Nodes(u) /\ IsRed(u, g)
  BY <1>2, <1>3, <1>4, <1>5, <1>8, <1>9, Recolored
<1>11. PICK q : q = [bal EXCEPT !.n = g]
  OBVIOUS
<1>12. g \in Int
  BY <1>10, NodesAreInts
<1>13. bal \in [op : {"none", "insert", "remove"}, n : Int] /\ bal.op = "insert"
  BY <1>6 DEF RbInv, Consistent, RedRed, Inserting
<1>14. q.op = "insert" /\ q.n = g /\ q \in [op : {"none", "insert", "remove"}, n : Int]
  BY <1>11, <1>12, <1>13
<1>15. Phantom \notin Nodes(u)
  BY <1>8, <1>10 DEF SameBindings
<1>16. Consistent(u, q)
  BY <1>10, <1>14, <1>15 DEF Consistent
<1> QED
  BY <1>1, <1>7, <1>10, <1>11, <1>16, BindingsMap DEF RbInv

(* With a black uncle, a rotation or two are the end.                      *)
LEMMA InsertRotateKeeps ==
    ASSUME RbInv, InsertRotate
    PROVE  RbInv' /\ SameMap(tree, tree')
<1>1. PICK t, n : t = tree /\ n = bal.n
  OBVIOUS
<1>2. PICK p : p = Parent(t, n)
  OBVIOUS
<1>3. PICK g : g = Parent(t, p)
  OBVIOUS
<1>4. PICK side : side = Side(t, p)
  OBVIOUS
<1>5. PICK inner : inner = (Side(t, n) # side)
  OBVIOUS
<1>6. PICK t1 : t1 = IF inner THEN Rotate(t, p, side) ELSE t
  OBVIOUS
<1>7. PICK mid : mid = IF inner THEN n ELSE p
  OBVIOUS
<1>8. PICK u : u = Rotate(Paint(Paint(t1, mid, "black"), g, "red"), g, Opposite(side))
  OBVIOUS
<1>9. RedRed /\ ~ Red(t, Sibling(t, p))
  BY <1>1, <1>2 DEF InsertRotate, Uncle
<1>10. tree' = u /\ bal' = Idle
  BY <1>1, <1>2, <1>3, <1>4, <1>5, <1>6, <1>7, <1>8 DEF InsertRotate
<1>11. /\ Sound(t, NULL, n) /\ n \in Nodes(t) /\ IsRed(t, n) /\ Phantom \notin Nodes(t)
       /\ n # t.root /\ IsRed(t, p)
  BY <1>1, <1>2, <1>9, RedRedFacts
<1>12. Sibling(t, p) # NULL => ~ IsRed(t, Sibling(t, p))
  BY <1>9, RedIs
<1>13. Sound(u, NULL, NULL) /\ SameBindings(t, u)
  BY <1>2, <1>3, <1>4, <1>5, <1>6, <1>7, <1>8, <1>11, <1>12, Repaired
<1>14. Consistent(u, Idle)
  BY <1>11, <1>13, Rests DEF SameBindings
<1> QED
  BY <1>1, <1>10, <1>13, <1>14, BindingsMap DEF RbInv

(* A removal starts: it is over, or the phantom has to be balanced.        *)
LEMMA RemoveKeeps ==
    ASSUME RbInv, NEW k \in Keys, Remove(k)
    PROVE  /\ RbInv' /\ k \in Nodes(tree) /\ k # Phantom
           /\ Nodes(tree') \ {Phantom} = Nodes(tree) \ {k}
           /\ \A y \in Nodes(tree) \ {k} : At(tree', y, "val") = At(tree, y, "val")
           /\ Phantom \notin Nodes(tree)
<1>1. PICK t : t = tree
  OBVIOUS
<1>2. Sound(t, NULL, NULL) /\ Phantom \notin Nodes(t)
  BY <1>1, AtRest DEF RbInv, Remove
<1>3. k \in Nodes(t) /\ k # Phantom
  <2>1. Found(t, k)
    BY <1>1 DEF Remove
  <2> QED
    BY <1>2, <2>1, FoundIsThere
<1>4. PICK t1 : t1 = IF NULL \notin {t.node[k].left, t.node[k].right}
                     THEN Moved(t, k, Last(t, t.node[k].left)) ELSE t
  OBVIOUS
<1>5. PICK r : r = Unlinked(t1, k)
  OBVIOUS
<1>6. (CASE Red(t1, k) -> Finish(r.tree)
         [] ~ Red(t1, k) /\ Red(r.tree, r.child) -> Finish(Paint(r.tree, r.child, "black"))
         [] OTHER -> tree' = r.tree /\ bal' = [op |-> "remove", n |-> r.child])
  BY <1>1, <1>4, <1>5 DEF Remove
<1>7. Taken(t, k, IsRed(t1, k), r.child, r.tree)
  <2>1. CASE At(t, k, "left") # NULL /\ At(t, k, "right") # NULL
    <3>1. PICK m : m = Last(t, At(t, k, "left"))
      OBVIOUS
    <3>2. t1 = Moved(t, k, m)
      BY <1>4, <2>1, <3>1 DEF At
    <3> QED
      BY <1>2, <1>3, <1>5, <2>1, <3>1, <3>2, TakenTwo
  <2>2. CASE At(t, k, "left") = NULL \/ At(t, k, "right") = NULL
    <3>1. t1 = t
      BY <1>4, <2>2 DEF At
    <3> QED
      BY <1>2, <1>3, <1>5, <2>2, <3>1, TakenOne
  <2> QED
    BY <2>1, <2>2
<1>8. PICK c, u, red : c = r.child /\ u = r.tree /\ red = IsRed(t1, k)
  OBVIOUS
<1>9. /\ Form(u) /\ c \in Nodes(u) /\ c # NULL
      /\ Nodes(u) \ {Phantom} = Nodes(t) \ {k}
      /\ \A y \in Nodes(t) \ {k} : At(u, y, "val") = At(t, y, "val")
      /\ IF c # Phantom
         THEN ~ red /\ IsRed(u, c) /\ Sound(Paint(u, c, "black"), NULL, NULL)
         ELSE ~ IsRed(u, c) /\ Sound(u, IF red THEN NULL ELSE Phantom, NULL)
  BY <1>7, <1>8 DEF Taken
<1>10. Red(t1, k) = red /\ (Red(u, c) <=> IsRed(u, c))
  <2>1. k # NULL
    BY KeysAssumption DEF NULL
  <2>2. Red(t1, k) = IsRed(t1, k)
    BY <2>1 DEF Red, Color, IsRed, At
  <2> QED
    BY <1>8, <1>9, <2>2, RedIs
<1>11. CASE c # Phantom
  <2>1. Finish(Paint(u, c, "black"))
    BY <1>6, <1>8, <1>9, <1>10, <1>11
  <2>2. PICK p : p = Paint(u, c, "black")
    OBVIOUS
  <2>3. tree' = PhantomGone(p) /\ bal' = Idle
    BY <2>1, <2>2 DEF Finish
  <2>4. Sound(p, NULL, NULL)
    BY <1>9, <1>11, <2>2
  <2>5. Nodes(p) = Nodes(u) /\ \A y \in Nodes(u) : At(p, y, "val") = At(u, y, "val")
    BY <1>9, <2>2, PaintEffect DEF SameLinks
  <2>6. PICK w : w = PhantomGone(p)
    OBVIOUS
  <2>7. Consistent(w, Idle) /\ SameMap(p, w)
    BY <2>4, <2>6, Finished
  <2>8. Nodes(w) \ {Phantom} = Nodes(t) \ {k}
    BY <1>9, <2>5, <2>7 DEF SameMap
  <2>9. \A y \in Nodes(t) \ {k} : At(w, y, "val") = At(t, y, "val")
    BY <1>2, <1>9, <2>5, <2>7 DEF SameMap
  <2> QED
    BY <1>1, <1>2, <1>3, <2>3, <2>6, <2>7, <2>8, <2>9 DEF RbInv
<1>12. CASE c = Phantom /\ red
  <2>1. Finish(u)
    BY <1>6, <1>8, <1>9, <1>10, <1>12
  <2>2. PICK w : w = PhantomGone(u)
    OBVIOUS
  <2>3. tree' = w /\ bal' = Idle
    BY <2>1, <2>2 DEF Finish
  <2>4. Sound(u, NULL, NULL)
    BY <1>9, <1>12
  <2>5. Consistent(w, Idle) /\ SameMap(u, w)
    BY <2>2, <2>4, Finished
  <2>6. Nodes(w) \ {Phantom} = Nodes(t) \ {k}
    BY <1>9, <2>5 DEF SameMap
  <2>7. \A y \in Nodes(t) \ {k} : At(w, y, "val") = At(t, y, "val")
    BY <1>2, <1>9, <2>5 DEF SameMap
  <2> QED
    BY <1>1, <1>2, <1>3, <2>3, <2>5, <2>6, <2>7 DEF RbInv
<1>13. CASE c = Phantom /\ ~ red
  <2>1. tree' = u /\ bal' = [op |-> "remove", n |-> c]
    BY <1>6, <1>8, <1>9, <1>10, <1>13
  <2>2. Sound(u, Phantom, NULL) /\ ~ IsRed(u, Phantom) /\ Phantom \in Nodes(u)
    BY <1>9, <1>13
  <2>3. PICK q : q = [op |-> "remove", n |-> c]
    OBVIOUS
  <2>4. q.op = "remove" /\ q.n = Phantom /\ q \in [op : {"none", "insert", "remove"}, n : Int]
    BY <1>13, <2>3 DEF Phantom
  <2>5. Consistent(u, q)
    BY <2>2, <2>4 DEF Consistent
  <2> QED
    BY <1>1, <1>2, <1>3, <1>9, <2>1, <2>3, <2>5 DEF RbInv
<1> QED
  BY <1>11, <1>12, <1>13

(* What stands around the node of a removal.                               *)
LEMMA RemovingFacts ==
    ASSUME RbInv, Removing, NEW t, t = tree, NEW n, n = bal.n, NEW p, p = Parent(t, n),
           NEW s, s = Sibling(t, n)
    PROVE  /\ Sound(t, n, NULL) /\ n \in Nodes(t) /\ ~ IsRed(t, n) /\ n # t.root
           /\ p \in Nodes(t) /\ p # NULL /\ s \in Nodes(t) /\ s # NULL /\ s # p /\ p # n
           /\ (Red(t, p) <=> IsRed(t, p)) /\ (Red(t, s) <=> IsRed(t, s))
<1>1. Sound(t, n, NULL) /\ n \in Nodes(t) /\ ~ IsRed(t, n)
  BY AtRemoval DEF RbInv, Removing
<1>2. p # NULL
  BY DEF Removing
<1>3. n # t.root
  <2>1. At(t, n, "parent") # NULL
    BY <1>2 DEF Parent, At
  <2> QED
    BY <1>1, <2>1, NodesAreInts
<1>4. s \in Nodes(t) /\ s # NULL /\ s # p /\ p \in Nodes(t) /\ p # n
  BY <1>1, <1>3, SiblingThere
<1> QED
  BY <1>1, <1>2, <1>3, <1>4, RedIs

(* At the root the removal is over.                                        *)
LEMMA RemoveAtRootKeeps ==
    ASSUME RbInv, RemoveAtRoot
    PROVE  RbInv' /\ SameMap(tree, tree')
<1>1. PICK t, n : t = tree /\ n = bal.n
  OBVIOUS
<1>2. Sound(t, n, NULL) /\ n \in Nodes(t)
  BY <1>1, AtRemoval DEF RbInv, RemoveAtRoot
<1>3. n = t.root
  <2>1. At(t, n, "parent") = NULL
    BY <1>1 DEF RemoveAtRoot, Parent, At
  <2> QED
    BY <1>2, <2>1, NodesAreInts
<1>4. Sound(t, NULL, NULL)
  BY <1>2, <1>3, RootReached
<1>5. PICK u : u = PhantomGone(t)
  OBVIOUS
<1>6. Consistent(u, Idle) /\ SameMap(t, u)
  BY <1>4, <1>5, Finished
<1> QED
  BY <1>1, <1>5, <1>6 DEF RbInv, RemoveAtRoot, Finish

(* A red sibling is turned up: the removal goes on below a red parent.     *)
LEMMA RemoveBelowRedSiblingKeeps ==
    ASSUME RbInv, RemoveBelowRedSibling
    PROVE  /\ RbInv' /\ SameMap(tree, tree') /\ bal' = bal
           /\ Removing' /\ Red(tree', Parent(tree', bal'.n))
<1>1. PICK t, n : t = tree /\ n = bal.n
  OBVIOUS
<1>2. PICK p : p = Parent(t, n)
  OBVIOUS
<1>3. PICK s : s = Sibling(t, n)
  OBVIOUS
<1>4. PICK side : side = Side(t, n)
  OBVIOUS
<1>5. PICK u : u = Rotate(Paint(Paint(t, p, "red"), s, "black"), p, side)
  OBVIOUS
<1>6. Removing /\ Red(t, s)
  BY <1>1, <1>3 DEF RemoveBelowRedSibling
<1>7. tree' = u /\ bal' = bal
  BY <1>1, <1>2, <1>3, <1>4, <1>5 DEF RemoveBelowRedSibling
<1>8. /\ Sound(t, n, NULL) /\ n \in Nodes(t) /\ ~ IsRed(t, n) /\ n # t.root
      /\ p \in Nodes(t) /\ p # NULL /\ IsRed(t, s)
  BY <1>1, <1>2, <1>3, <1>6, RemovingFacts
<1>9. /\ Sound(u, n, NULL) /\ SameBindings(t, u)
      /\ ~ IsRed(u, n) /\ Parent(u, n) = p /\ IsRed(u, p)
  BY <1>2, <1>3, <1>4, <1>5, <1>8, RedSiblingTurned
<1>10. bal \in [op : {"none", "insert", "remove"}, n : Int] /\ bal.op = "remove"
  BY <1>6 DEF RbInv, Consistent, Removing
<1>11. n \in Nodes(u)
  BY <1>8, <1>9 DEF SameBindings
<1>12. Consistent(u, bal)
  BY <1>1, <1>9, <1>10, <1>11 DEF Consistent
<1>13. Removing' /\ Red(tree', Parent(tree', bal'.n))
  <2>1. bal'.op = "remove" /\ Parent(tree', bal'.n) = p
    BY <1>1, <1>7, <1>9, <1>10
  <2>2. Red(u, p)
    BY <1>8, <1>9, RedIs
  <2> QED
    BY <1>7, <1>8, <2>1, <2>2 DEF Removing
<1> QED
  BY <1>1, <1>7, <1>9, <1>12, <1>13, BindingsMap DEF RbInv

(* The nephews are those of the model.                                     *)
LEMMA NephewsAre ==
    ASSUME NEW t, t = tree, NEW s, s = Sibling(t, bal.n)
    PROVE  /\ \A d \in Sides : Nephew(d) = At(t, s, d)
           /\ BlackNephews => \A d \in Sides : At(t, s, d) # NULL => ~ IsRed(t, At(t, s, d))
<1>1. \A d \in Sides : Nephew(d) = At(t, s, d)
  BY DEF Nephew, At
<1>2. BlackNephews => \A d \in Sides : ~ Red(t, At(t, s, d))
  BY <1>1 DEF BlackNephews, Sides
<1> QED
  BY <1>1, <1>2, RedIs

(* The sibling turns red, and the parent lacks a black one.                *)
LEMMA RemoveClimbKeeps ==
    ASSUME RbInv, RemoveClimb
    PROVE  RbInv' /\ SameMap(tree, tree')
<1>1. PICK t, n : t = tree /\ n = bal.n
  OBVIOUS
<1>2. PICK p : p = Parent(t, n)
  OBVIOUS
<1>3. PICK s : s = Sibling(t, n)
  OBVIOUS
<1>4. PICK u : u = Paint(t, s, "red")
  OBVIOUS
<1>5. Removing /\ ~ Red(t, s) /\ BlackNephews /\ ~ Red(t, p)
  BY <1>1, <1>2, <1>3 DEF RemoveClimb
<1>6. tree' = u /\ bal' = [bal EXCEPT !.n = p]
  BY <1>1, <1>2, <1>3, <1>4 DEF RemoveClimb
<1>7. /\ Sound(t, n, NULL) /\ n \in Nodes(t) /\ ~ IsRed(t, n) /\ n # t.root
      /\ p \in Nodes(t) /\ p # NULL /\ s \in Nodes(t) /\ s # p /\ ~ IsRed(t, s) /\ ~ IsRed(t, p)
  BY <1>1, <1>2, <1>3, <1>5, RemovingFacts
<1>8. \A d \in Sides : At(t, s, d) # NULL => ~ IsRed(t, At(t, s, d))
  BY <1>1, <1>3, <1>5, NephewsAre
<1>9. /\ SameLinks(t, u)
      /\ \A y \in Nodes(t) : At(u, y, "color") = IF y = s THEN "red" ELSE At(t, y, "color")
      /\ \A y \in Nodes(t) : At(u, y, "val") = At(t, y, "val")
  BY <1>4, <1>7, NodesAreInts, PaintEffect
<1>10. SameBindings(t, u)
  BY <1>9 DEF SameBindings, SameLinks
<1>11. At(t, p, "color") = "black"
  BY <1>7 DEF Sound, Carries, IsRed
<1>12. \A z \in Nodes(t) :
          At(u, z, "color") = IF z = p THEN "black" ELSE IF z = s THEN "red" ELSE At(t, z, "color")
  BY <1>7, <1>9, <1>11
<1>13. PICK e : e = IF IsRed(t, p) THEN NULL ELSE p
  OBVIOUS
<1>14. Sound(u, e, NULL) /\ ~ IsRed(u, p)
  BY <1>2, <1>3, <1>7, <1>8, <1>9, <1>10, <1>12, <1>13, SiblingPainted
<1>15. bal \in [op : {"none", "insert", "remove"}, n : Int] /\ bal.op = "remove"
  BY <1>5 DEF RbInv, Consistent, Removing
<1>16. PICK q : q = [bal EXCEPT !.n = p]
  OBVIOUS
<1>17. p \in Int /\ p \in Nodes(u) /\ e = p
  BY <1>7, <1>10, <1>13, NodesAreInts DEF SameBindings
<1>18. q.op = "remove" /\ q.n = p /\ q \in [op : {"none", "insert", "remove"}, n : Int]
  BY <1>15, <1>16, <1>17
<1>19. Consistent(u, q)
  BY <1>14, <1>17, <1>18 DEF Consistent
<1> QED
  BY <1>1, <1>6, <1>10, <1>16, <1>19, BindingsMap DEF RbInv

(* The sibling turns red, the red parent black: nothing is lacking.        *)
LEMMA RemoveRecolorKeeps ==
    ASSUME RbInv, RemoveRecolor
    PROVE  RbInv' /\ SameMap(tree, tree')
<1>1. PICK t, n : t = tree /\ n = bal.n
  OBVIOUS
<1>2. PICK p : p = Parent(t, n)
  OBVIOUS
<1>3. PICK s : s = Sibling(t, n)
  OBVIOUS
<1>4. PICK u : u = Paint(Paint(t, s, "red"), p, "black")
  OBVIOUS
<1>5. Removing /\ ~ Red(t, s) /\ BlackNephews /\ Red(t, p)
  BY <1>1, <1>2, <1>3 DEF RemoveRecolor
<1>6. tree' = PhantomGone(u) /\ bal' = Idle
  BY <1>1, <1>2, <1>3, <1>4 DEF RemoveRecolor, Finish
<1>7. /\ Sound(t, n, NULL) /\ n \in Nodes(t) /\ ~ IsRed(t, n) /\ n # t.root
      /\ p \in Nodes(t) /\ p # NULL /\ s \in Nodes(t) /\ s # p /\ ~ IsRed(t, s) /\ IsRed(t, p)
  BY <1>1, <1>2, <1>3, <1>5, RemovingFacts
<1>8. \A d \in Sides : At(t, s, d) # NULL => ~ IsRed(t, At(t, s, d))
  BY <1>1, <1>3, <1>5, NephewsAre
<1>9. /\ SameLinks(t, u) /\ SameBindings(t, u)
      /\ \A z \in Nodes(t) :
            At(u, z, "color") = IF z = p THEN "black" ELSE IF z = s THEN "red" ELSE At(t, z, "color")
  BY <1>4, <1>7, NodesAreInts, PaintTwice
<1>10. PICK e : e = IF IsRed(t, p) THEN NULL ELSE p
  OBVIOUS
<1>11. Sound(u, e, NULL)
  BY <1>2, <1>3, <1>7, <1>8, <1>9, <1>10, SiblingPainted
<1>12. e = NULL
  BY <1>7, <1>10
<1>13. PICK w : w = PhantomGone(u)
  OBVIOUS
<1>14. Consistent(w, Idle) /\ SameMap(u, w)
  BY <1>11, <1>12, <1>13, Finished
<1>15. SameMap(t, w)
  BY <1>9, <1>14, BindingsMap, SameMapTwice
<1> QED
  BY <1>1, <1>6, <1>13, <1>14, <1>15 DEF RbInv

(* With a red nephew, a rotation or two are the end.                       *)
LEMMA RemoveRotateKeeps ==
    ASSUME RbInv, RemoveRotate
    PROVE  RbInv' /\ SameMap(tree, tree')
<1>1. PICK t, n : t = tree /\ n = bal.n
  OBVIOUS
<1>2. PICK p : p = Parent(t, n)
  OBVIOUS
<1>3. PICK s : s = Sibling(t, n)
  OBVIOUS
<1>4. PICK side : side = Side(t, n)
  OBVIOUS
<1>5. PICK o : o = Opposite(side)
  OBVIOUS
<1>6. PICK near, far : near = At(t, s, side) /\ far = At(t, s, o)
  OBVIOUS
<1>7. side \in Sides /\ o \in Sides /\ \A d \in Sides : d = side \/ d = o
  BY <1>4, <1>5, SidesFacts DEF Side, Sides
<1>8. Nephew(side) = near /\ Nephew(o) = far
  BY <1>1, <1>3, <1>6, <1>7, NephewsAre
<1>9. Removing /\ ~ Red(t, s) /\ (Red(t, near) \/ Red(t, far))
  <2>1. Red(t, Nephew("left")) \/ Red(t, Nephew("right"))
    BY <1>1 DEF RemoveRotate, BlackNephews
  <2>2. Red(t, Nephew(side)) \/ Red(t, Nephew(o))
    BY <1>7, <2>1, SidesFacts
  <2> QED
    BY <1>1, <1>3, <1>8, <2>2 DEF RemoveRotate
<1>10. PICK t1 : t1 = IF Red(t, far) THEN t
                      ELSE Rotate(Paint(Paint(t, s, "red"), near, "black"), s, o)
  OBVIOUS
<1>11. PICK top : top = Sibling(t1, n)
  OBVIOUS
<1>12. PICK beyond : beyond = At(t1, top, o)
  OBVIOUS
<1>13. PICK u : u = Rotate(Paint(Paint(Paint(t1, top, Color(t1, p)), p, "black"), beyond, "black"),
                           p, side)
  OBVIOUS
<1>14. tree' = PhantomGone(u) /\ bal' = Idle
  BY <1>1, <1>2, <1>3, <1>4, <1>5, <1>8, <1>10, <1>11, <1>12, <1>13 DEF RemoveRotate, Finish, At
<1>15. /\ Sound(t, n, NULL) /\ n \in Nodes(t) /\ ~ IsRed(t, n) /\ n # t.root
       /\ p \in Nodes(t) /\ p # NULL /\ s \in Nodes(t) /\ ~ IsRed(t, s)
  BY <1>1, <1>2, <1>3, <1>9, RemovingFacts
<1>16. /\ Sound(t1, n, NULL) /\ SameBindings(t, t1) /\ ~ IsRed(t1, n)
       /\ n # t1.root /\ Parent(t1, n) = p /\ Side(t1, n) = side
       /\ ~ IsRed(t1, top) /\ beyond # NULL /\ IsRed(t1, beyond)
  <2>1. CASE Red(t, far)
    <3>1. t1 = t /\ top = s /\ beyond = far
      BY <1>3, <1>6, <1>10, <1>11, <1>12, <2>1
    <3>2. far # NULL /\ IsRed(t, far)
      BY <2>1, NullIsBlack, RedIs
    <3> QED
      BY <1>2, <1>4, <1>15, <3>1, <3>2 DEF SameBindings
  <2>2. CASE ~ Red(t, far)
    <3>1. near # NULL /\ IsRed(t, near)
      BY <1>9, <2>2, NullIsBlack, RedIs
    <3>2. far # NULL => ~ IsRed(t, far)
      BY <2>2, RedIs
    <3>3. t1 = Rotate(Paint(Paint(t, s, "red"), near, "black"), s, Opposite(side))
      BY <1>5, <1>10, <2>2
    <3>4. At(t, s, Opposite(side)) # NULL => ~ IsRed(t, At(t, s, Opposite(side)))
      BY <1>5, <1>6, <3>2
    <3>5. /\ Sound(t1, n, NULL) /\ SameBindings(t, t1)
          /\ n # t1.root /\ Parent(t1, n) = p /\ Side(t1, n) = side /\ Sibling(t1, n) = near
          /\ ~ IsRed(t1, near) /\ At(t1, near, Opposite(side)) = s /\ IsRed(t1, s) /\ ~ IsRed(t1, n)
      BY <1>2, <1>3, <1>4, <1>6, <1>15, <3>1, <3>3, <3>4, NearTurned
    <3>6. top = near /\ beyond = s
      BY <1>5, <1>11, <1>12, <3>5
    <3>7. s # NULL
      BY <1>15, NodesAreInts
    <3> QED
      BY <3>5, <3>6, <3>7
  <2> QED
    BY <2>1, <2>2
<1>17. Sound(u, NULL, NULL) /\ SameBindings(t1, u)
  <2>1. n \in Nodes(t1)
    BY <1>15, <1>16 DEF SameBindings
  <2>2. beyond = At(t1, top, Opposite(side))
    BY <1>5, <1>12
  <2> QED
    BY <1>11, <1>13, <1>16, <2>1, <2>2, FarTurned
<1>18. PICK w : w = PhantomGone(u)
  OBVIOUS
<1>19. Consistent(w, Idle) /\ SameMap(u, w)
  BY <1>17, <1>18, Finished
<1>20. SameMap(t, w)
  BY <1>16, <1>17, <1>19, BindingsMap, SameMapTwice
<1> QED
  BY <1>1, <1>14, <1>18, <1>19, <1>20 DEF RbInv

-----------------------------------------------------------------------------
(* The empty tree.                                                         *)
LEMMA InitConsistent ==
    ASSUME RbInit
    PROVE  RbInv
<1>1. PICK t : t = tree
  OBVIOUS
<1>2. Form(t) /\ Nodes(t) = {} /\ t.root = NULL
  BY <1>1 DEF RbInit, Form, Nodes
<1>3. \E b, top : Tree(t, b, top)
  <2> DEFINE b == [x \in Nodes(t) |-> [d \in Sides |-> 0]]
  <2>1. b \in [Nodes(t) -> [Sides -> Int]]
    OBVIOUS
  <2> HIDE DEF b
  <2>2. Tree(t, b, 0)
    BY <1>2, <2>1 DEF Tree, Links, Order
  <2> QED
    BY <2>2
<1>4. \E h : Weighted(t, Weights(t, NULL), h)
  <2> DEFINE h == [x \in Nodes(t) \cup {NULL} |-> 0]
  <2>1. h \in [Nodes(t) \cup {NULL} -> Nat] /\ h[NULL] = 0
    OBVIOUS
  <2>2. Weights(t, NULL) \in [Nodes(t) -> Nat]
    BY <1>2 DEF Weights
  <2> HIDE DEF h
  <2>3. Weighted(t, Weights(t, NULL), h)
    BY <1>2, <2>1, <2>2 DEF Weighted
  <2> QED
    BY <2>3
<1>5. Sound(t, NULL, NULL)
  BY <1>2, <1>3, <1>4 DEF Sound, RedsApart, Carries
<1>6. Consistent(t, Idle)
  BY <1>2, <1>5, Rests
<1> QED
  BY <1>1, <1>6 DEF RbInv, RbInit

(* No step leaves the invariant.                                           *)
LEMMA NextConsistent ==
    ASSUME RbInv, [RbNext]_rbVars
    PROVE  RbInv'
<1>1. CASE UNCHANGED rbVars
  BY <1>1 DEF rbVars, RbInv
<1>2. ASSUME NEW k \in Keys, NEW v \in Values, Insert(k, v)
      PROVE  RbInv'
  BY <1>2, InsertKeeps
<1>3. ASSUME NEW k \in Keys, NEW v \in Values, Overwrite(k, v)
      PROVE  RbInv'
  BY <1>3, OverwriteKeeps
<1>4. ASSUME NEW k \in Keys, Remove(k)
      PROVE  RbInv'
  BY <1>4, RemoveKeeps
<1>5. CASE Balance
  <2>1. CASE InsertAtRoot
    BY <2>1, InsertAtRootKeeps
  <2>2. CASE InsertBelowBlack
    BY <2>2, InsertBelowBlackKeeps
  <2>3. CASE InsertRecolor
    BY <2>3, InsertRecolorKeeps
  <2>4. CASE InsertRotate
    BY <2>4, InsertRotateKeeps
  <2>5. CASE RemoveAtRoot
    BY <2>5, RemoveAtRootKeeps
  <2>6. CASE RemoveBelowRedSibling
    BY <2>6, RemoveBelowRedSiblingKeeps
  <2>7. CASE RemoveClimb
    BY <2>7, RemoveClimbKeeps
  <2>8. CASE RemoveRecolor
    BY <2>8, RemoveRecolorKeeps
  <2>9. CASE RemoveRotate
    BY <2>9, RemoveRotateKeeps
  <2> QED
    BY <1>5, <2>1, <2>2, <2>3, <2>4, <2>5, <2>6, <2>7, <2>8, <2>9 DEF Balance
<1> QED
  BY <1>1, <1>2, <1>3, <1>4, <1>5 DEF RbNext

(* The invariant holds in every state that the tree reaches, the states    *)
(* between two rounds of balancing included.                               *)
THEOREM RbInvariant == RbSpec => []RbInv
<1>1. RbInit => RbInv
  BY InitConsistent
<1>2. RbInv /\ [RbNext]_rbVars => RbInv'
  BY NextConsistent
<1> QED
  BY <1>1, <1>2, PTL DEF RbSpec

-----------------------------------------------------------------------------
(* What the invariant says of the tree while a call is under way.          *)
LEMMA InvTree ==
    ASSUME RbInv
    PROVE  /\ \E b, top : Tree(tree, b, top)
           /\ Carries(tree)
           /\ RedsApart(tree, IF bal.op = "insert" THEN bal.n ELSE NULL)
           /\ \E h : Weighted(tree, Weights(tree, IF bal.op = "remove" THEN bal.n ELSE NULL), h)
           /\ NULL \notin Nodes(tree)
  BY NodesAreInts DEF RbInv, Consistent, Sound

(* No pointer of the tree leads anywhere but to a node that is linked, and *)
(* the phantom is linked only while a removal is balanced.                 *)
THEOREM TreeTyped == RbSpec => []TreeTypeOK
<1>1. ASSUME RbInv PROVE TreeTypeOK
  <2>1. PICK b, top : Tree(tree, b, top)
    BY <1>1, InvTree
  <2>2. Carries(tree) /\ NULL \notin Nodes(tree)
    BY <1>1, InvTree
  <2>3. Nodes(tree) \subseteq Keys \cup (IF bal.op = "remove" THEN {Phantom} ELSE {})
    <3>1. Phantom \in Nodes(tree) => bal.op = "remove"
      BY <1>1 DEF RbInv, Consistent
    <3> QED
      BY <2>2, <3>1 DEF Carries
  <2>4. tree.root \in Nodes(tree) \cup {NULL}
    BY <2>1 DEF Tree, Links
  <2>5. \A n \in Nodes(tree) :
           {tree.node[n].left, tree.node[n].right, Parent(tree, n)} \subseteq Nodes(tree) \cup {NULL}
    BY <2>1, SidesFacts DEF Tree, Links, At, Parent
  <2>6. \A n \in Nodes(tree) :
           /\ Color(tree, n) \in {"red", "black"}
           /\ n # Phantom => tree.node[n].val \in Values
    BY <2>2 DEF Carries, Color, At
  <2>7. bal # Idle => bal.op \in {"insert", "remove"} /\ bal.n \in Nodes(tree)
    BY <1>1 DEF RbInv, Consistent
  <2> QED
    BY <2>3, <2>4, <2>5, <2>6, <2>7 DEF TreeTypeOK
<1> QED
  BY <1>1, RbInvariant, PTL

(* A node's children have it as their parent, and a node that is not the   *)
(* root is a child of its parent: what rb_remove_bal climbs by agrees with *)
(* what rb_lookup descends by.                                             *)
THEOREM UpAndDownAgree == RbSpec => []ParentsAgree
<1>1. ASSUME RbInv PROVE ParentsAgree
  <2>1. PICK t : t = tree
    OBVIOUS
  <2>2. PICK b, top : Tree(t, b, top)
    BY <1>1, <2>1, InvTree
  <2>3. NULL \notin Nodes(t)
    BY <1>1, <2>1, InvTree
  <2>4. \A n \in Nodes(t) : Children(n) = {At(t, n, "left"), At(t, n, "right")} \ {NULL}
    BY <2>1 DEF Children, At
  <2>5. \A n \in Nodes(t) : \A c \in Children(n) : Parent(t, c) = n
    BY <2>2, <2>4, SidesFacts DEF Tree, Links, Parent, At
  <2>6. t.root # NULL => Parent(t, t.root) = NULL
    BY <2>2 DEF Tree, Links, Parent, At
  <2>7. ASSUME NEW n \in Nodes(t), n # t.root
        PROVE  Parent(t, n) # NULL /\ n \in Children(Parent(t, n))
    <3>1. PICK p : p = Parent(t, n)
      OBVIOUS
    <3>2. p \in Nodes(t) /\ \E d \in Sides : At(t, p, d) = n
      BY <2>2, <2>7, <3>1 DEF Tree, Links, Parent, At
    <3>3. n \in {At(t, p, "left"), At(t, p, "right")} \ {NULL}
      BY <2>3, <3>2 DEF Sides
    <3> QED
      BY <2>3, <2>4, <3>1, <3>2, <3>3
  <2> QED
    BY <2>1, <2>5, <2>6, <2>7 DEF ParentsAgree
<1> QED
  BY <1>1, RbInvariant, PTL

(* rb_lookup finds every key that is there, also while the tree is being   *)
(* balanced: no rotation, no removal puts one where the descent does not   *)
(* look.                                                                   *)
THEOREM KeysAreFound == RbSpec => []EveryKeyIsFound
<1>1. ASSUME RbInv PROVE EveryKeyIsFound
  <2>1. PICK t : t = tree
    OBVIOUS
  <2>2. PICK b, top : Tree(t, b, top)
    BY <1>1, <2>1, InvTree
  <2>3. \A k \in Nodes(t) \ {Phantom} : Found(t, k)
    BY <2>2, KeyIsFound
  <2> QED
    BY <2>1, <2>3 DEF EveryKeyIsFound
<1> QED
  BY <1>1, RbInvariant, PTL

(* A red node has a red child only where an insertion is being repaired,   *)
(* and between calls the root is black.                                    *)
THEOREM RedsAreApart == RbSpec => []NoRedBelowRed
<1>1. ASSUME RbInv PROVE NoRedBelowRed
  <2>1. PICK t : t = tree
    OBVIOUS
  <2>2. /\ RedsApart(t, IF bal.op = "insert" THEN bal.n ELSE NULL) /\ NULL \notin Nodes(t)
    BY <1>1, <2>1, InvTree
  <2>3. bal = Idle => ~ Red(t, t.root)
    <3>1. SUFFICES ASSUME bal = Idle, Red(t, t.root) PROVE FALSE
      OBVIOUS
    <3>2. bal.op # "insert"
      BY <3>1, IdleFacts
    <3>3. t.root # NULL
      BY <3>1, NullIsBlack
    <3>4. IsRed(t, t.root)
      BY <3>1, <3>3, RedIs
    <3> QED
      BY <2>2, <3>2, <3>3, <3>4 DEF RedsApart
  <2>4. ASSUME NEW n \in Nodes(t), Red(t, n), NEW c \in Children(n), Red(t, c)
        PROVE  Inserting /\ bal.n = c
    <3>1. PICK d \in Sides : c = At(t, n, d) /\ c # NULL
      BY <2>1, SidesFacts DEF Children, At
    <3>2. IsRed(t, n) /\ IsRed(t, c)
      BY <2>2, <2>4, <3>1, RedIs
    <3>3. c = IF bal.op = "insert" THEN bal.n ELSE NULL
      BY <2>2, <3>1, <3>2 DEF RedsApart
    <3> QED
      BY <3>1, <3>3 DEF Inserting
  <2> QED
    BY <2>1, <2>3, <2>4 DEF NoRedBelowRed
<1> QED
  BY <1>1, RbInvariant, PTL

(* Two ways to count the same: what the counts of a node follow from, they *)
(* are determined by.                                                      *)
LEMMA HeightIsCounted ==
    ASSUME NEW t, NEW b, NEW top, Tree(t, b, top), NEW w, NEW h, Weighted(t, w, h),
           NEW f, f[NULL] = 0,
           \A n \in Nodes(t) :
              f[n] = IF f[At(t, n, "left")] = f[At(t, n, "right")] /\ f[At(t, n, "left")] >= 0
                     THEN f[At(t, n, "left")] + w[n] ELSE -1
    PROVE  \A n \in Nodes(t) \cup {NULL} : f[n] = h[n]
<1> DEFINE Bad == {n \in Nodes(t) : f[n] # h[n]}
           H == {Width(b, n) : n \in Bad}
<1>1. /\ h \in [Nodes(t) \cup {NULL} -> Nat] /\ h[NULL] = 0 /\ w \in [Nodes(t) -> Nat]
      /\ \A x \in Nodes(t), d \in Sides : h[x] = h[At(t, x, d)] + w[x]
  BY DEF Weighted
<1>2. Bad = {}
  <2>1. SUFFICES ASSUME Bad # {} PROVE FALSE
    OBVIOUS
  <2>2. H \in SUBSET Nat /\ H # {}
    BY <2>1, WidthFacts
  <2>3. PICK i \in H : \A j \in H : i <= j
    <3> HIDE DEF H
    <3> QED
      BY <2>2, LeastIn
  <2>4. PICK n \in Bad : \A j \in Bad : Width(b, n) <= Width(b, j)
    BY <2>3
  <2>5. n \in Nodes(t) /\ f[n] # h[n]
    BY <2>4
  <2>6. \A d \in Sides : f[At(t, n, d)] = h[At(t, n, d)] /\ At(t, n, d) \in Nodes(t) \cup {NULL}
    <3> TAKE d \in Sides
    <3>1. PICK c : c = At(t, n, d)
      OBVIOUS
    <3>2. CASE c = NULL
      BY <1>1, <3>1, <3>2
    <3>3. CASE c # NULL
      <4>1. /\ c \in Nodes(t)
            /\ Width(b, c) \in Nat /\ Width(b, n) \in Nat /\ Width(b, c) < Width(b, n)
        BY <2>5, <3>1, <3>3, ChildFacts
      <4>2. c \notin Bad
        BY <2>4, <4>1
      <4> QED
        BY <3>1, <4>1, <4>2
    <3> QED
      BY <3>2, <3>3
  <2>7. PICK l, r : l = At(t, n, "left") /\ r = At(t, n, "right")
    OBVIOUS
  <2>8. /\ f[l] = h[l] /\ f[r] = h[r] /\ h[l] \in Nat /\ h[r] \in Nat /\ w[n] \in Nat
        /\ h[n] = h[l] + w[n] /\ h[n] = h[r] + w[n]
    BY <1>1, <2>5, <2>6, <2>7, SidesFacts
  <2>9. h[l] = h[r]
    BY <2>8
  <2>10. f[n] = f[l] + w[n]
    BY <2>5, <2>7, <2>8, <2>9
  <2> QED
    BY <2>5, <2>8, <2>10
<1> QED
  BY <1>1, <1>2

(* On every way down from the root there are as many black nodes, in the   *)
(* middle of balancing too, if the node of a removal counts one more.      *)
THEOREM HeightsAgree == RbSpec => []BlackHeightsAgree
<1>1. ASSUME RbInv PROVE BlackHeightsAgree
  <2>1. PICK t : t = tree
    OBVIOUS
  <2>2. PICK b, top : Tree(t, b, top)
    BY <1>1, <2>1, InvTree
  <2>3. PICK e : e = IF bal.op = "remove" THEN bal.n ELSE NULL
    OBVIOUS
  <2>4. PICK w : w = Weights(t, e)
    OBVIOUS
  <2>5. PICK h : Weighted(t, w, h)
    BY <1>1, <2>1, <2>3, <2>4, InvTree
  <2>6. NULL \notin Nodes(t)
    BY <1>1, <2>1, InvTree
  <2> DEFINE N == Nodes(t) \cup {NULL}
             Step(n, l, r) == IF l = r /\ l >= 0 THEN l + w[n] ELSE -1
             Counts(f) == [n \in N |-> IF n = NULL THEN 0
                                       ELSE Step(n, f[At(t, n, "left")], f[At(t, n, "right")])]
  <2>7. \A n \in Nodes(t) :
           w[n] = (IF Red(tree, n) \/ n = Phantom THEN 0 ELSE 1)
                  + (IF bal.op = "remove" /\ bal.n = n THEN 1 ELSE 0)
    <3> TAKE n \in Nodes(t)
    <3>1. w[n] = (IF IsRed(t, n) \/ n = Phantom THEN 0 ELSE 1) + (IF n = e THEN 1 ELSE 0)
      BY <2>4 DEF Weights, Own
    <3>2. Red(tree, n) <=> IsRed(t, n)
      BY <2>1, <2>6, RedIs
    <3>3. n = e <=> bal.op = "remove" /\ bal.n = n
      BY <2>3, <2>6
    <3> QED
      BY <3>1, <3>2, <3>3
  <2>8. BlackHeight = Counts(BlackHeight)
    <3> DEFINE Heights(f) ==
                 [n \in N |-> IF n = NULL THEN 0
                     ELSE LET l == f[tree.node[n].left]
                              r == f[tree.node[n].right]
                              own == (IF Red(tree, n) \/ n = Phantom THEN 0 ELSE 1)
                                     + (IF bal.op = "remove" /\ bal.n = n THEN 1 ELSE 0)
                          IN  IF l = r /\ l >= 0 THEN l + own ELSE -1]
    <3>1. BlackHeight = CHOOSE f : f = Heights(f)
      BY <2>1 DEF BlackHeight
    <3>2. \A f : Heights(f) = Counts(f)
      <4> TAKE f
      <4>1. \A n \in Nodes(t) :
               (LET l == f[tree.node[n].left]
                    r == f[tree.node[n].right]
                    own == (IF Red(tree, n) \/ n = Phantom THEN 0 ELSE 1)
                           + (IF bal.op = "remove" /\ bal.n = n THEN 1 ELSE 0)
                IN  IF l = r /\ l >= 0 THEN l + own ELSE -1)
               = Step(n, f[At(t, n, "left")], f[At(t, n, "right")])
        <5> TAKE n \in Nodes(t)
        <5>1. w[n] = (IF Red(tree, n) \/ n = Phantom THEN 0 ELSE 1)
                     + (IF bal.op = "remove" /\ bal.n = n THEN 1 ELSE 0)
          BY <2>7
        <5>2. tree.node[n].left = At(t, n, "left") /\ tree.node[n].right = At(t, n, "right")
          BY <2>1 DEF At
        <5> QED
          BY <5>1, <5>2
      <4> QED
        BY <4>1
    <3>3. h = Counts(h)
      <4>1. /\ h \in [N -> Nat] /\ h[NULL] = 0 /\ w \in [Nodes(t) -> Nat]
            /\ \A x \in Nodes(t), o \in Sides : h[x] = h[At(t, x, o)] + w[x]
        BY <2>5 DEF Weighted
      <4>2. \A x \in Nodes(t), o \in Sides : At(t, x, o) \in N
        BY <2>2 DEF Tree, Links
      <4>3. \A x \in Nodes(t) : h[x] = Step(x, h[At(t, x, "left")], h[At(t, x, "right")])
        <5> TAKE x \in Nodes(t)
        <5>1. PICK l, r : l = h[At(t, x, "left")] /\ r = h[At(t, x, "right")]
          OBVIOUS
        <5>2. l \in Nat /\ r \in Nat /\ w[x] \in Nat /\ h[x] = l + w[x] /\ h[x] = r + w[x]
          BY <4>1, <4>2, <5>1, SidesFacts
        <5>3. l = r
          BY <5>2
        <5> QED
          BY <5>1, <5>2, <5>3
      <4> HIDE DEF Step
      <4>4. h = [n \in N |-> h[n]]
        BY <4>1
      <4> QED
        BY <2>6, <4>1, <4>3, <4>4
    <3> HIDE DEF Heights, Counts
    <3>4. \E f : f = Heights(f)
      BY <3>2, <3>3
    <3>5. PICK g : g = (CHOOSE f : f = Heights(f))
      OBVIOUS
    <3>6. g = Heights(g)
      BY <3>4, <3>5
    <3> QED
      BY <3>1, <3>2, <3>5, <3>6
  <2>9. PICK f : f = BlackHeight
    OBVIOUS
  <2>10. f = Counts(f)
    BY <2>8, <2>9
  <2>11. f[NULL] = 0
    BY <2>10
  <2>12. \A n \in Nodes(t) : f[n] = Step(n, f[At(t, n, "left")], f[At(t, n, "right")])
    <3> HIDE DEF Step
    <3> QED
      BY <2>6, <2>10
  <2>13. \A n \in N : f[n] = h[n]
    <3>1. \A n \in Nodes(t) :
              f[n] = IF f[At(t, n, "left")] = f[At(t, n, "right")] /\ f[At(t, n, "left")] >= 0
                     THEN f[At(t, n, "left")] + w[n] ELSE -1
      BY <2>12
    <3> QED
      BY <2>2, <2>5, <2>11, <3>1, HeightIsCounted
  <2>14. t.root \in N /\ h \in [N -> Nat]
    BY <2>2, <2>5 DEF Tree, Links, Weighted
  <2>15. f[t.root] >= 0
    BY <2>13, <2>14
  <2> QED
    BY <2>1, <2>9, <2>15 DEF BlackHeightsAgree
<1> QED
  BY <1>1, RbInvariant, PTL

-----------------------------------------------------------------------------
(* What the clients see.                                                   *)
Bindings(t) == [k \in Nodes(t) \ {Phantom} |-> t.node[k].val]

(* The same bindings, the same map.                                        *)
LEMMA SameMapContents ==
    ASSUME NEW t, NEW u, SameMap(t, u)
    PROVE  Bindings(u) = Bindings(t)
  BY DEF SameMap, Bindings, At

(* Every step is one of a map's, or changes nothing there.                 *)
LEMMA NextIsMapNext ==
    ASSUME RbInv, RbInv', [RbNext]_rbVars
    PROVE  [Map!MapNext]_Contents
<1>1. Contents = Bindings(tree) /\ Contents' = Bindings(tree')
  BY DEF Contents, Bindings
<1>2. CASE UNCHANGED rbVars
  BY <1>2 DEF rbVars, Contents
<1>3. ASSUME NEW k \in Keys, NEW v \in Values, Insert(k, v)
      PROVE  Map!MapNext
  <2>1. /\ k \notin Nodes(tree) /\ Nodes(tree') = Nodes(tree) \cup {k}
        /\ At(tree', k, "val") = v
        /\ \A y \in Nodes(tree) : At(tree', y, "val") = At(tree, y, "val")
        /\ Phantom \notin Nodes(tree) /\ k # Phantom
    BY <1>3, InsertKeeps
  <2>2. Nodes(tree') \ {Phantom} = Nodes(tree) \cup {k} /\ Nodes(tree) \ {Phantom} = Nodes(tree)
    BY <2>1
  <2>3. DOMAIN Contents = Nodes(tree)
        /\ \A y \in Nodes(tree) : Contents[y] = At(tree, y, "val")
    BY <1>1, <2>2 DEF Bindings, At
  <2>4. Contents' = [y \in Nodes(tree) \cup {k} |-> At(tree', y, "val")]
    BY <1>1, <2>2 DEF Bindings, At
  <2>5. Contents' = [x \in DOMAIN Contents \cup {k} |-> IF x = k THEN v ELSE Contents[x]]
    BY <2>1, <2>3, <2>4
  <2>6. Map!Add(k, v)
    BY <2>1, <2>3, <2>5 DEF Map!Add
  <2> QED
    BY <2>6 DEF Map!MapNext
<1>4. ASSUME NEW k \in Keys, NEW v \in Values, Overwrite(k, v)
      PROVE  Map!MapNext
  <2>1. /\ k \in Nodes(tree) /\ Nodes(tree') = Nodes(tree)
        /\ \A y \in Nodes(tree) : At(tree', y, "val") = IF y = k THEN v ELSE At(tree, y, "val")
        /\ Phantom \notin Nodes(tree)
    BY <1>4, OverwriteKeeps
  <2>2. Nodes(tree') \ {Phantom} = Nodes(tree) /\ Nodes(tree) \ {Phantom} = Nodes(tree)
    BY <2>1
  <2>3. Contents = [y \in Nodes(tree) |-> At(tree, y, "val")]
    BY <1>1, <2>2 DEF Bindings, At
  <2>4. Contents' = [y \in Nodes(tree) |-> At(tree', y, "val")]
    BY <1>1, <2>2 DEF Bindings, At
  <2>5. Contents' = [Contents EXCEPT ![k] = v]
    BY <2>1, <2>3, <2>4
  <2>6. Map!Change(k, v)
    BY <2>1, <2>3, <2>5 DEF Map!Change
  <2> QED
    BY <2>6 DEF Map!MapNext
<1>5. ASSUME NEW k \in Keys, Remove(k)
      PROVE  Map!MapNext
  <2>1. /\ k \in Nodes(tree) /\ k # Phantom
        /\ Nodes(tree') \ {Phantom} = Nodes(tree) \ {k}
        /\ \A y \in Nodes(tree) \ {k} : At(tree', y, "val") = At(tree, y, "val")
        /\ Phantom \notin Nodes(tree)
    BY <1>5, RemoveKeeps
  <2>2. Nodes(tree) \ {Phantom} = Nodes(tree)
    BY <2>1
  <2>3. DOMAIN Contents = Nodes(tree)
        /\ \A y \in Nodes(tree) : Contents[y] = At(tree, y, "val")
    BY <1>1, <2>2 DEF Bindings, At
  <2>4. Contents' = [y \in Nodes(tree) \ {k} |-> At(tree', y, "val")]
    BY <1>1, <2>1 DEF Bindings, At
  <2>5. Contents' = [x \in DOMAIN Contents \ {k} |-> Contents[x]]
    BY <2>1, <2>3, <2>4
  <2>6. Map!Delete(k)
    BY <2>1, <2>3, <2>5 DEF Map!Delete
  <2> QED
    BY <2>6 DEF Map!MapNext
<1>6. CASE Balance
  <2>1. SameMap(tree, tree')
    BY <1>6, InsertAtRootKeeps, InsertBelowBlackKeeps, InsertRecolorKeeps, InsertRotateKeeps,
       RemoveAtRootKeeps, RemoveBelowRedSiblingKeeps, RemoveClimbKeeps, RemoveRecolorKeeps,
       RemoveRotateKeeps DEF Balance
  <2> QED
    BY <1>1, <2>1, SameMapContents
<1> QED
  BY <1>2, <1>3, <1>4, <1>5, <1>6 DEF RbNext

(* To its users the tree is a map: an insertion adds its binding, a        *)
(* removal takes away its own, each at its first step, also when the node  *)
(* that is unlinked is not the one that held the key; all of the balancing *)
(* changes none.                                                           *)
THEOREM ImplementsMap == RbSpec => IsMap
<1>1. RbInit => Map!MapInit
  <2> SUFFICES ASSUME RbInit PROVE Map!MapInit
    OBVIOUS
  <2>1. Nodes(tree) = {}
    BY DEF RbInit, Nodes
  <2> QED
    BY <2>1 DEF Map!MapInit, Contents
<1>2. RbInv /\ RbInv' /\ [RbNext]_rbVars => [Map!MapNext]_Contents
  BY NextIsMapNext
<1> QED
  BY <1>1, <1>2, RbInvariant, PTL DEF RbSpec, IsMap, Map!MapSpec

-----------------------------------------------------------------------------
(* How deep a node is.                                                     *)
DepthIn(t, n) ==
    LET depth[m \in Nodes(t)] == IF Parent(t, m) = NULL THEN 0 ELSE 1 + depth[Parent(t, m)]
    IN  depth[n]

(* A child is one deeper than its parent.                                  *)
LEMMA DepthFacts ==
    ASSUME NEW t, NEW b, NEW top, Tree(t, b, top)
    PROVE  \A n \in Nodes(t) :
              /\ DepthIn(t, n) \in Nat
              /\ DepthIn(t, n) = IF n = t.root THEN 0 ELSE 1 + DepthIn(t, Parent(t, n))
<1> DEFINE N == Nodes(t)
           Up(f) == [m \in N |-> IF Parent(t, m) = NULL THEN 0 ELSE 1 + f[Parent(t, m)]]
           stop == {m \in N : m = t.root}
           next == [m \in N \ stop |-> Parent(t, m)]
           rank == [m \in N |-> top - Width(b, m)]
           zero == [m \in N |-> 0]
           more == [i \in Nat |-> 1 + i]
<1>1. \A m \in N : Parent(t, m) = NULL <=> m = t.root
  BY DEF Tree, Links, Parent, At
<1>2. ASSUME NEW m \in N, m # t.root, NEW p, p = Parent(t, m)
      PROVE  /\ p \in N /\ Width(b, m) \in Nat /\ Width(b, p) \in Nat /\ Width(b, m) < Width(b, p)
  <2>1. p \in N /\ \E d \in Sides : At(t, p, d) = m /\ m # NULL
    <3>1. p = At(t, m, "parent") /\ m # NULL
      BY <1>2 DEF Parent, At, Tree, Links, NULL, Phantom
    <3> QED
      BY <1>2, <3>1 DEF Tree, Links
  <2> QED
    BY <2>1, ChildFacts
<1>3. \E f \in [N -> Nat] : f = Up(f)
  <2>1. top \in Nat /\ \A m \in N : Width(b, m) \in Nat /\ top - Width(b, m) \in Nat
    BY WidthFacts DEF Tree, Order
  <2>2. next \in [N \ stop -> N] /\ \A m \in N \ stop : next[m] = Parent(t, m)
    BY <1>2
  <2>3. rank \in [N -> Nat] /\ \A m \in N : rank[m] = top - Width(b, m)
    BY <2>1
  <2>4. stop \in SUBSET N /\ \A m \in N : m \in stop <=> m = t.root
    OBVIOUS
  <2>5. zero \in [N -> Nat] /\ (\A m \in N : zero[m] = 0)
        /\ more \in [Nat -> Nat] /\ \A i \in Nat : more[i] = 1 + i
    OBVIOUS
  <2> HIDE DEF next, rank, stop, zero, more
  <2>6. \A m \in N : rank[m] <= top
    BY <2>1, <2>3
  <2>7. \A m \in N \ stop : rank[next[m]] < rank[m]
    <3> TAKE m \in N \ stop
    <3>1. PICK p : p = Parent(t, m)
      OBVIOUS
    <3>2. p \in N /\ Width(b, m) < Width(b, p)
      BY <1>2, <2>4, <3>1
    <3> QED
      BY <2>1, <2>2, <2>3, <3>1, <3>2
  <2>8. Path(N, stop, next, rank, top)
    BY <2>1, <2>2, <2>3, <2>4, <2>6, <2>7 DEF Path
  <2>9. PICK f \in [N -> Nat] : Follows(f, N, stop, next, zero, more)
    BY <2>5, <2>8, RecursionExists
  <2>10. \A m \in N : f[m] = IF Parent(t, m) = NULL THEN 0 ELSE 1 + f[Parent(t, m)]
    <3> TAKE m \in N
    <3>1. f[m] = IF m \in stop THEN zero[m] ELSE more[f[next[m]]]
      BY <2>9 DEF Follows
    <3>2. CASE m \in stop
      BY <1>1, <2>4, <2>5, <3>1, <3>2
    <3>3. CASE m \notin stop
      <4>1. next[m] = Parent(t, m) /\ f[next[m]] \in Nat
        BY <2>2, <3>3
      <4> QED
        BY <1>1, <2>4, <2>5, <3>1, <3>3, <4>1
    <3> QED
      BY <3>2, <3>3
  <2>11. f = [m \in N |-> f[m]]
    OBVIOUS
  <2>12. f = Up(f)
    BY <2>10, <2>11
  <2> QED
    BY <2>12
<1>4. PICK d : d = (CHOOSE f : f = Up(f))
  OBVIOUS
<1>5. \A n : DepthIn(t, n) = d[n]
  BY <1>4 DEF DepthIn
<1>6. d = Up(d)
  <2> HIDE DEF Up
  <2> QED
    BY <1>3, <1>4
<1>7. \A m \in N : d[m] = IF m = t.root THEN 0 ELSE 1 + d[Parent(t, m)]
  BY <1>1, <1>6
<1>8. \A m \in N : d[m] \in Nat
  <2> DEFINE S == {m \in N : d[m] \notin Nat}
  <2>1. SUFFICES ASSUME S # {} PROVE FALSE
    OBVIOUS
  <2>2. PICK x \in S : x = t.root \/ At(t, x, "parent") \notin S
    <3>1. S \in SUBSET Nodes(t)
      OBVIOUS
    <3> HIDE DEF S
    <3> QED
      BY <2>1, <3>1, Topmost
  <2>3. x \in N /\ d[x] \notin Nat
    BY <2>2
  <2>4. x # t.root
    BY <1>7, <2>3
  <2>5. PICK p : p = Parent(t, x)
    OBVIOUS
  <2>6. p \in N /\ d[x] = 1 + d[p]
    BY <1>2, <1>7, <2>3, <2>4, <2>5
  <2>7. p \notin S
    BY <2>2, <2>4, <2>5 DEF Parent, At
  <2> QED
    BY <2>3, <2>6, <2>7
<1> QED
  BY <1>5, <1>7, <1>8

(* Colors make no node deeper.                                             *)
LEMMA SameDepth ==
    ASSUME NEW t, NEW b, NEW top, Tree(t, b, top), NEW u, SameLinks(t, u)
    PROVE  \A n \in Nodes(t) : DepthIn(u, n) = DepthIn(t, n)
<1> DEFINE S == {n \in Nodes(t) : DepthIn(u, n) # DepthIn(t, n)}
<1>1. SUFFICES ASSUME S # {} PROVE FALSE
  OBVIOUS
<1>2. PICK x \in S : x = t.root \/ At(t, x, "parent") \notin S
  <2>1. S \in SUBSET Nodes(t)
    OBVIOUS
  <2> HIDE DEF S
  <2> QED
    BY <1>1, <2>1, Topmost
<1>3. x \in Nodes(t) /\ DepthIn(u, x) # DepthIn(t, x)
  BY <1>2
<1>4. Tree(u, b, top) /\ Nodes(u) = Nodes(t) /\ u.root = t.root /\ Parent(u, x) = Parent(t, x)
  BY <1>3, SameTree DEF SameLinks, Parent, At
<1>5. /\ DepthIn(t, x) = IF x = t.root THEN 0 ELSE 1 + DepthIn(t, Parent(t, x))
      /\ DepthIn(u, x) = IF x = t.root THEN 0 ELSE 1 + DepthIn(u, Parent(t, x))
  BY <1>3, <1>4, DepthFacts
<1>6. x # t.root
  BY <1>3, <1>5
<1>7. Parent(t, x) \in Nodes(t) /\ Parent(t, x) \notin S
  BY <1>2, <1>3, <1>6 DEF Tree, Links, Parent, At
<1>8. DepthIn(u, Parent(t, x)) = DepthIn(t, Parent(t, x))
  BY <1>7
<1> QED
  BY <1>3, <1>5, <1>6, <1>8

-----------------------------------------------------------------------------
(* The bound on the rounds to come, of any tree and any balancing.         *)
RoundsOf(t, q) ==
    IF q.op = "remove" /\ Parent(t, q.n) # NULL /\ Red(t, Parent(t, q.n)) THEN 1
    ELSE 1 + DepthIn(t, q.n)

(* It is the one of the model.                                             *)
LEMMA RoundsAre == RoundsLeft = RoundsOf(tree, bal) /\ RoundsLeft' = RoundsOf(tree', bal')
<1>1. RoundsLeft = RoundsOf(tree, bal)
  BY DEF RoundsLeft, RoundsOf, Removing, Depth, DepthIn
<1>2. RoundsLeft' = RoundsOf(tree', bal')
  BY DEF RoundsLeft, RoundsOf, Removing, Depth, DepthIn
<1> QED
  BY <1>1, <1>2

(* Recoloring leaves the insertion two levels further up.                  *)
LEMMA RecolorFalls ==
    ASSUME RbInv, InsertRecolor
    PROVE  RoundsOf(tree', bal') < RoundsOf(tree, bal)
<1>1. PICK t, n : t = tree /\ n = bal.n
  OBVIOUS
<1>2. PICK p : p = Parent(t, n)
  OBVIOUS
<1>3. PICK g : g = Parent(t, p)
  OBVIOUS
<1>4. PICK uncle : uncle = Sibling(t, p)
  OBVIOUS
<1>5. PICK u : u = Paint(Paint(Paint(t, p, "black"), uncle, "black"), g, "red")
  OBVIOUS
<1>6. RedRed /\ Red(t, uncle)
  BY <1>1, <1>2, <1>4 DEF InsertRecolor, Uncle
<1>7. tree' = u /\ bal' = [bal EXCEPT !.n = g]
  BY <1>1, <1>2, <1>3, <1>4, <1>5 DEF InsertRecolor, Uncle
<1>8. Sound(t, NULL, n) /\ n \in Nodes(t) /\ IsRed(t, n) /\ n # t.root /\ IsRed(t, p)
  BY <1>1, <1>2, <1>6, RedRedFacts
<1>9. /\ p \in Nodes(t) /\ p # t.root /\ g \in Nodes(t) /\ uncle \in Nodes(t)
  <2>1. uncle # NULL
    BY <1>6, NullIsBlack
  <2> QED
    BY <1>2, <1>3, <1>4, <1>8, <2>1, Grandparent
<1>10. PICK b, top : Tree(t, b, top)
  BY <1>8 DEF Sound
<1>11. SameLinks(t, u)
  <2>1. PICK v : v = Paint(Paint(t, p, "black"), uncle, "black")
    OBVIOUS
  <2>2. SameLinks(t, v)
    BY <1>9, <1>10, <2>1, PaintTwice DEF Tree
  <2>3. u = Paint(v, g, "red") /\ Form(v) /\ g \in Nodes(v)
    BY <1>5, <1>9, <2>1, <2>2 DEF SameLinks
  <2>4. SameLinks(v, u)
    BY <2>3, PaintEffect
  <2> QED
    BY <2>2, <2>4 DEF SameLinks
<1>12. DepthIn(u, g) = DepthIn(t, g)
  BY <1>9, <1>10, <1>11, SameDepth
<1>13. /\ DepthIn(t, n) = 1 + DepthIn(t, p) /\ DepthIn(t, p) = 1 + DepthIn(t, g)
       /\ DepthIn(t, g) \in Nat
  BY <1>2, <1>3, <1>8, <1>9, <1>10, DepthFacts
<1>14. bal \in [op : {"none", "insert", "remove"}, n : Int] /\ bal.op = "insert"
  BY <1>6 DEF RbInv, Consistent, RedRed, Inserting
<1>15. bal'.op = "insert" /\ bal'.n = g
  BY <1>7, <1>14
<1>16. RoundsOf(tree, bal) = 1 + DepthIn(t, n)
  BY <1>1, <1>14 DEF RoundsOf
<1>17. RoundsOf(tree', bal') = 1 + DepthIn(u, g)
  BY <1>7, <1>15 DEF RoundsOf
<1> QED
  BY <1>12, <1>13, <1>16, <1>17

(* Climbing leaves the removal one level further up.                       *)
LEMMA ClimbFalls ==
    ASSUME RbInv, RemoveClimb
    PROVE  RoundsOf(tree', bal') < RoundsOf(tree, bal)
<1>1. PICK t, n : t = tree /\ n = bal.n
  OBVIOUS
<1>2. PICK p : p = Parent(t, n)
  OBVIOUS
<1>3. PICK s : s = Sibling(t, n)
  OBVIOUS
<1>4. PICK u : u = Paint(t, s, "red")
  OBVIOUS
<1>5. Removing /\ ~ Red(t, p)
  BY <1>1, <1>2 DEF RemoveClimb
<1>6. tree' = u /\ bal' = [bal EXCEPT !.n = p]
  BY <1>1, <1>2, <1>3, <1>4 DEF RemoveClimb
<1>7. Sound(t, n, NULL) /\ n \in Nodes(t) /\ n # t.root /\ p \in Nodes(t) /\ s \in Nodes(t)
  BY <1>1, <1>2, <1>3, <1>5, RemovingFacts
<1>8. PICK b, top : Tree(t, b, top)
  BY <1>7 DEF Sound
<1>9. SameLinks(t, u)
  BY <1>4, <1>7, <1>8, PaintEffect DEF Tree
<1>10. DepthIn(u, p) = DepthIn(t, p)
  BY <1>7, <1>8, <1>9, SameDepth
<1>11. DepthIn(t, n) = 1 + DepthIn(t, p) /\ DepthIn(t, p) \in Nat
  BY <1>2, <1>7, <1>8, DepthFacts
<1>12. bal \in [op : {"none", "insert", "remove"}, n : Int]
  BY DEF RbInv, Consistent
<1>13. bal'.n = p
  BY <1>6, <1>12
<1>14. RoundsOf(tree, bal) = 1 + DepthIn(t, n)
  BY <1>1, <1>2, <1>5 DEF RoundsOf
<1>15. RoundsOf(tree', bal') \in {1, 1 + DepthIn(u, p)}
  BY <1>6, <1>13 DEF RoundsOf
<1> QED
  BY <1>10, <1>11, <1>14, <1>15

(* A red sibling has a black parent, which is red when it has been turned: *)
(* one round is left.                                                      *)
LEMMA TurnFalls ==
    ASSUME RbInv, RemoveBelowRedSibling
    PROVE  RoundsOf(tree', bal') < RoundsOf(tree, bal)
<1>1. PICK t, n : t = tree /\ n = bal.n
  OBVIOUS
<1>2. PICK p : p = Parent(t, n)
  OBVIOUS
<1>3. PICK s : s = Sibling(t, n)
  OBVIOUS
<1>4. Removing /\ Red(t, s)
  BY <1>1, <1>3 DEF RemoveBelowRedSibling
<1>5. /\ Sound(t, n, NULL) /\ n \in Nodes(t) /\ n # t.root
      /\ p \in Nodes(t) /\ p # NULL /\ s # NULL /\ IsRed(t, s) /\ (Red(t, p) <=> IsRed(t, p))
  BY <1>1, <1>2, <1>3, <1>4, RemovingFacts
<1>6. PICK b, top : Tree(t, b, top)
  BY <1>5 DEF Sound
<1>7. ~ Red(t, p)
  <2>1. PICK o : o = Opposite(Side(t, n))
    OBVIOUS
  <2>2. o \in Sides /\ s = At(t, p, o)
    BY <1>2, <1>3, <1>5, <1>6, <2>1, BothSides, SidesFacts
  <2>3. RedsApart(t, NULL)
    BY <1>5 DEF Sound
  <2>4. ~ IsRed(t, p)
    BY <1>5, <2>2, <2>3 DEF RedsApart
  <2> QED
    BY <1>5, <2>4
<1>8. DepthIn(t, n) = 1 + DepthIn(t, p) /\ DepthIn(t, p) \in Nat
  BY <1>2, <1>5, <1>6, DepthFacts
<1>9. RoundsOf(tree, bal) = 1 + DepthIn(t, n)
  BY <1>1, <1>2, <1>7 DEF RoundsOf
<1>10. RoundsOf(tree', bal') = 1
  <2>1. Removing' /\ Red(tree', Parent(tree', bal'.n))
    BY RemoveBelowRedSiblingKeeps
  <2> QED
    BY <2>1 DEF RoundsOf, Removing
<1> QED
  BY <1>8, <1>9, <1>10

(* No insertion and no removal balances for more rounds than its node is   *)
(* deep, and one: each round that is not the last one leaves fewer.        *)
THEOREM RoundsFall == RbSpec => BalancingEnds
<1>1. RbInv /\ [RbNext]_rbVars => [bal # Idle /\ bal' # Idle => RoundsLeft' < RoundsLeft]_rbVars
  <2> SUFFICES ASSUME RbInv, RbNext, bal # Idle, bal' # Idle
               PROVE  RoundsLeft' < RoundsLeft
    OBVIOUS
  <2>1. InsertRecolor \/ RemoveClimb \/ RemoveBelowRedSibling
    <3>1. Balance
      BY DEF RbNext, Insert, Overwrite, Remove
    <3> QED
      BY <3>1 DEF Balance, Finish, InsertAtRoot, InsertBelowBlack, InsertRotate, RemoveAtRoot,
                  RemoveRecolor, RemoveRotate
  <2>2. RoundsOf(tree', bal') < RoundsOf(tree, bal)
    BY <2>1, RecolorFalls, ClimbFalls, TurnFalls
  <2> QED
    BY <2>2, RoundsAre
<1> QED
  BY <1>1, RbInvariant, PTL DEF RbSpec, BalancingEnds

-----------------------------------------------------------------------------
(* The walk with two stacks.  A sequence from its end to its beginning.    *)
Backward(s) == [i \in 1 .. Len(s) |-> s[Len(s) - i + 1]]

(* It is a sequence of the same elements.                                  *)
LEMMA BackwardFacts ==
    ASSUME NEW S, NEW s \in Seq(S)
    PROVE  /\ Backward(s) \in Seq(S) /\ Len(Backward(s)) = Len(s)
           /\ \A i \in 1 .. Len(s) : Backward(s)[i] = s[Len(s) - i + 1]
<1>1. PICK k \in Nat : k = Len(s)
  BY LenProperties
<1>2. \A i \in 1 .. k : s[k - i + 1] \in S
  <2> TAKE i \in 1 .. k
  <2>1. k - i + 1 \in 1 .. Len(s)
    BY <1>1
  <2> QED
    BY <2>1, ElementOfSeq
<1>3. Backward(s) \in [1 .. k -> S]
  BY <1>1, <1>2 DEF Backward
<1>4. Backward(s) \in Seq(S)
  BY <1>3, SeqDef
<1>5. Len(Backward(s)) = k
  BY <1>3, <1>4, LenProperties
<1> QED
  BY <1>1, <1>4, <1>5 DEF Backward

(* A sequence is turned around by turning around its parts.                *)
LEMMA BackwardTwo ==
    ASSUME NEW S, NEW a \in Seq(S), NEW c \in Seq(S)
    PROVE  Backward(a \o c) = Backward(c) \o Backward(a)
<1>1. PICK m \in Nat, n \in Nat : m = Len(a) /\ n = Len(c)
  BY LenProperties
<1>2. PICK u \in Seq(S) : u = a \o c
  BY ConcatProperties
<1>3. Len(u) = m + n /\ \A i \in 1 .. m + n : u[i] = IF i <= m THEN a[i] ELSE c[i - m]
  BY <1>1, <1>2, ConcatProperties
<1>4. PICK x \in Seq(S), y \in Seq(S), v \in Seq(S) :
         x = Backward(a) /\ y = Backward(c) /\ v = Backward(u)
  BY BackwardFacts
<1>5. /\ Len(x) = m /\ \A i \in 1 .. m : x[i] = a[m - i + 1]
      /\ Len(y) = n /\ \A i \in 1 .. n : y[i] = c[n - i + 1]
  BY <1>1, <1>4, BackwardFacts
<1>6. Len(v) = m + n /\ \A i \in 1 .. m + n : v[i] = u[m + n - i + 1]
  <2>1. Len(v) = Len(u) /\ \A i \in 1 .. Len(u) : v[i] = u[Len(u) - i + 1]
    BY <1>4, BackwardFacts
  <2> QED
    BY <1>3, <2>1
<1>7. PICK z \in Seq(S) : z = y \o x
  BY ConcatProperties
<1>8. Len(z) = n + m /\ \A i \in 1 .. n + m : z[i] = IF i <= n THEN y[i] ELSE x[i - n]
  <2>1. /\ Len(z) = Len(y) + Len(x)
        /\ \A i \in 1 .. Len(y) + Len(x) : z[i] = IF i <= Len(y) THEN y[i] ELSE x[i - Len(y)]
    BY <1>7, ConcatProperties, Zenon
  <2> QED
    BY <1>5, <2>1
<1>9. \A i \in 1 .. m + n : v[i] = z[i]
  <2> TAKE i \in 1 .. m + n
  <2>1. v[i] = u[m + n - i + 1] /\ m + n - i + 1 \in 1 .. m + n /\ i \in 1 .. n + m
    BY <1>6
  <2>2. CASE i <= n
    <3>1. ~ (m + n - i + 1 <= m) /\ m + n - i + 1 - m = n - i + 1 /\ i \in 1 .. n
      BY <2>2
    <3>2. z[i] = y[i]
      BY <1>8, <2>1, <2>2
    <3>3. y[i] = c[n - i + 1]
      BY <1>5, <3>1
    <3>4. u[m + n - i + 1] = c[n - i + 1]
      BY <1>3, <2>1, <3>1
    <3> QED
      BY <2>1, <3>2, <3>3, <3>4
  <2>3. CASE i > n
    <3>1. m + n - i + 1 <= m /\ i - n \in 1 .. m /\ m - (i - n) + 1 = m + n - i + 1
      BY <2>3
    <3>2. z[i] = x[i - n]
      BY <1>8, <2>1, <2>3
    <3>3. x[i - n] = a[m - (i - n) + 1]
      BY <1>5, <3>1
    <3>4. u[m + n - i + 1] = a[m + n - i + 1]
      BY <1>3, <2>1, <3>1
    <3> QED
      BY <2>1, <3>1, <3>2, <3>3, <3>4
  <2> QED
    BY <2>2, <2>3
<1>10. v = z
  <2>1. Len(v) = Len(z) /\ \A i \in 1 .. Len(v) : v[i] = z[i]
    BY <1>6, <1>8, <1>9
  <2> QED
    BY <2>1, SeqEqual
<1> QED
  BY <1>2, <1>4, <1>7, <1>10

(* So is one that ends with one element.                                   *)
LEMMA BackwardNode ==
    ASSUME NEW S, NEW a \in Seq(S), NEW c \in Seq(S), NEW n \in S
    PROVE  Backward(a \o c \o <<n>>) = <<n>> \o (Backward(c) \o Backward(a))
<1>1. PICK s \in Seq(S) : s = <<n>>
  <2>1. <<n>> \in Seq(S)
    OBVIOUS
  <2> QED
    BY <2>1
<1>2. Len(s) = 1 /\ s[1] = n
  BY <1>1
<1>3. PICK u \in Seq(S) : u = Backward(s)
  BY BackwardFacts
<1>4. Len(u) = 1 /\ u[1] = s[1]
  BY <1>2, <1>3, BackwardFacts
<1>5. \A i \in 1 .. Len(u) : u[i] = s[i]
  BY <1>4
<1>6. u = s
  BY <1>2, <1>4, <1>5, SeqEqual
<1>7. PICK w \in Seq(S) : w = a \o c
  BY ConcatProperties
<1>8. Backward(w \o s) = Backward(s) \o Backward(w)
  BY BackwardTwo
<1>9. Backward(w) = Backward(c) \o Backward(a)
  BY <1>7, BackwardTwo
<1> QED
  BY <1>1, <1>3, <1>6, <1>7, <1>8, <1>9

(* Nothing is nothing in either direction.                                 *)
LEMMA BackwardEmpty == Backward(<<>>) = <<>>
  BY DEF Backward

(* The nodes below n in the order in which they may be freed, of any f     *)
(* that does so below its children.                                        *)
Below(f, c) == IF c = NULL THEN <<>> ELSE f[c]

Freed(t, f, n) == Below(f, At(t, n, "left")) \o Below(f, At(t, n, "right")) \o <<n>>

InOrder(t, f) == \A n \in Nodes(t) : f[n] = Freed(t, f, n)

(* These are nodes, and what they are is up to the children.               *)
LEMMA FreedFacts ==
    ASSUME NEW t, NEW b, NEW top, Tree(t, b, top), NEW n \in Nodes(t),
           NEW f \in [Nodes(t) -> Seq(Nodes(t))]
    PROVE  /\ Freed(t, f, n) \in Seq(Nodes(t))
           /\ \A g : (\A c \in Nodes(t) : Width(b, c) < Width(b, n) => g[c] = f[c])
                        => Freed(t, g, n) = Freed(t, f, n)
<1>1. \A d \in Sides : At(t, n, d) # NULL =>
         At(t, n, d) \in Nodes(t) /\ Width(b, At(t, n, d)) < Width(b, n)
  BY ChildFacts
<1>2. \A d \in Sides : Below(f, At(t, n, d)) \in Seq(Nodes(t))
  BY <1>1, EmptySeq DEF Below
<1>3. PICK x \in Seq(Nodes(t)), y \in Seq(Nodes(t)), z \in Seq(Nodes(t)) :
         x = Below(f, At(t, n, "left")) /\ y = Below(f, At(t, n, "right")) /\ z = <<n>>
  <2>1. <<n>> \in Seq(Nodes(t))
    OBVIOUS
  <2> QED
    BY <1>2, <2>1, SidesFacts
<1>4. Freed(t, f, n) \in Seq(Nodes(t))
  <2>1. x \o y \in Seq(Nodes(t))
    BY ConcatProperties
  <2>2. (x \o y) \o z \in Seq(Nodes(t))
    BY <2>1, ConcatProperties
  <2> QED
    BY <1>3, <2>2 DEF Freed
<1>5. ASSUME NEW g, \A c \in Nodes(t) : Width(b, c) < Width(b, n) => g[c] = f[c]
      PROVE  Freed(t, g, n) = Freed(t, f, n)
  <2>1. \A d \in Sides : Below(g, At(t, n, d)) = Below(f, At(t, n, d))
    BY <1>1, <1>5 DEF Below
  <2> QED
    BY <2>1, SidesFacts DEF Freed
<1> QED
  BY <1>4, <1>5

(* There is such an order of all nodes.                                    *)
LEMMA OrderExists ==
    ASSUME NEW t, NEW b, NEW top, Tree(t, b, top)
    PROVE  \E f \in [Nodes(t) -> Seq(Nodes(t))] : \A n \in Nodes(t) : f[n] = Freed(t, f, n)
<1> DEFINE N == Nodes(t)
           V == Seq(Nodes(t))
           Ok(m) == \E f \in [N -> V] : \A n \in N : Width(b, n) < m => f[n] = Freed(t, f, n)
           H == {m \in Nat : ~ Ok(m)}
<1>1. \A n \in N : Width(b, n) \in Nat /\ Width(b, n) <= top /\ top \in Nat
  <2> TAKE n \in N
  <2>1. Width(b, n) \in Nat /\ top - Width(b, n) \in Nat
    BY WidthFacts
  <2>2. top \in Nat
    BY DEF Tree, Order
  <2> QED
    BY <2>1, <2>2
<1>2. Ok(0)
  <2>1. \A n \in N : ~ (Width(b, n) < 0)
    BY <1>1
  <2>2. [n \in N |-> <<>>] \in [N -> V]
    BY EmptySeq
  <2> HIDE DEF N, V
  <2> QED
    BY <2>1, <2>2
<1>3. ASSUME NEW m \in Nat, Ok(m) PROVE Ok(m + 1)
  <2>1. PICK f \in [N -> V] : \A n \in N : Width(b, n) < m => f[n] = Freed(t, f, n)
    BY <1>3
  <2> DEFINE g == [n \in N |-> IF Width(b, n) < m THEN f[n] ELSE Freed(t, f, n)]
  <2>2. g \in [N -> V]
    BY FreedFacts
  <2>3. \A n \in N : g[n] = IF Width(b, n) < m THEN f[n] ELSE Freed(t, f, n)
    OBVIOUS
  <2> HIDE DEF g
  <2>4. \A n \in N : Width(b, n) < m + 1 => g[n] = Freed(t, g, n)
    <3> SUFFICES ASSUME NEW n \in N, Width(b, n) < m + 1 PROVE g[n] = Freed(t, g, n)
      OBVIOUS
    <3>1. g[n] = Freed(t, f, n)
      BY <2>1, <2>3
    <3>2. \A c \in N : Width(b, c) < Width(b, n) => g[c] = f[c]
      BY <1>1, <2>3
    <3> QED
      BY <3>1, <3>2, FreedFacts
  <2> HIDE DEF N, V
  <2> QED
    BY <2>2, <2>4
<1>4. top + 1 \in Nat /\ \A n \in N : Width(b, n) < top + 1
  BY <1>1 DEF Tree, Order
<1>5. Ok(top + 1)
  <2>1. SUFFICES ASSUME ~ Ok(top + 1) PROVE FALSE
    OBVIOUS
  <2> HIDE DEF Ok
  <2>2. H \in SUBSET Nat /\ H # {}
    BY <1>4, <2>1
  <2>3. PICK m \in H : \A j \in H : m <= j
    BY <2>2, LeastIn
  <2>4. m \in Nat /\ ~ Ok(m) /\ m # 0
    BY <1>2, <2>3
  <2>5. m - 1 \in Nat /\ m - 1 \notin H
    BY <2>3, <2>4
  <2>6. Ok(m - 1)
    BY <2>5
  <2>7. Ok((m - 1) + 1)
    BY <1>3, <2>5, <2>6
  <2> QED
    BY <2>4, <2>7
<1> QED
  BY <1>4, <1>5

(* The sequences of the nodes in w, the last of them first.                *)
Along(g, r, w) ==
    /\ g[0] = <<>>
    /\ \A i \in 1 .. Len(w) : g[i] = r[w[i]] \o g[i - 1]

Spread(r, w, N) == (CHOOSE g : g \in [0 .. Len(w) -> Seq(N)] /\ Along(g, r, w))[Len(w)]

(* There are such.                                                         *)
LEMMA SpreadExists ==
    ASSUME NEW N, NEW r \in [N -> Seq(N)], NEW w \in Seq(N)
    PROVE  \E g \in [0 .. Len(w) -> Seq(N)] : Along(g, r, w)
<1> DEFINE Ok(k) == \E g \in [0 .. k -> Seq(N)] :
                       g[0] = <<>> /\ \A i \in 1 .. k : g[i] = r[w[i]] \o g[i - 1]
           H == {k \in 0 .. Len(w) : ~ Ok(k)}
<1>1. PICK n \in Nat : n = Len(w)
  BY LenProperties
<1>2. Ok(0)
  <2>1. PICK g : g = [i \in 0 .. 0 |-> <<>>]
    OBVIOUS
  <2>2. g \in [0 .. 0 -> Seq(N)] /\ g[0] = <<>>
    BY <2>1, EmptySeq
  <2> QED
    BY <2>2
<1>3. ASSUME NEW k \in 1 .. n, Ok(k - 1) PROVE Ok(k)
  <2>1. PICK g \in [0 .. k - 1 -> Seq(N)] :
           g[0] = <<>> /\ \A i \in 1 .. k - 1 : g[i] = r[w[i]] \o g[i - 1]
    BY <1>3
  <2>2. PICK s \in Seq(N) : s = r[w[k]] \o g[k - 1]
    <3>1. w[k] \in N
      BY <1>1, ElementOfSeq
    <3>2. PICK x \in Seq(N), y \in Seq(N) : x = r[w[k]] /\ y = g[k - 1]
      BY <3>1
    <3>3. x \o y \in Seq(N)
      BY ConcatProperties
    <3> QED
      BY <3>2, <3>3
  <2>3. PICK h : h = [i \in 0 .. k |-> IF i = k THEN s ELSE g[i]]
    OBVIOUS
  <2>4. h \in [0 .. k -> Seq(N)]
    BY <2>3
  <2>5. h[k] = s /\ \A i \in 0 .. k - 1 : h[i] = g[i]
    BY <2>3
  <2>6. h[0] = <<>>
    BY <2>1, <2>5
  <2>7. \A i \in 1 .. k : h[i] = r[w[i]] \o h[i - 1]
    <3> TAKE i \in 1 .. k
    <3>1. h[i - 1] = g[i - 1]
      BY <2>5
    <3>2. CASE i = k
      BY <2>2, <2>5, <3>1, <3>2
    <3>3. CASE i # k
      <4>1. i \in 1 .. k - 1 /\ i \in 0 .. k - 1
        BY <3>3
      <4>2. g[i] = r[w[i]] \o g[i - 1] /\ h[i] = g[i]
        BY <2>1, <2>5, <4>1
      <4> QED
        BY <3>1, <4>2
    <3> QED
      BY <3>2, <3>3
  <2> QED
    BY <2>4, <2>6, <2>7
<1>4. Ok(n)
  <2>1. SUFFICES ASSUME ~ Ok(n) PROVE FALSE
    OBVIOUS
  <2> HIDE DEF Ok
  <2>2. H \in SUBSET Nat /\ H # {}
    BY <1>1, <2>1
  <2>3. PICK k \in H : \A j \in H : k <= j
    BY <2>2, LeastIn
  <2>4. k \in 0 .. n /\ ~ Ok(k) /\ k # 0
    BY <1>1, <1>2, <2>3
  <2>5. k \in 1 .. n /\ k - 1 \in 0 .. n /\ k - 1 \notin H
    BY <2>3, <2>4
  <2>6. Ok(k - 1)
    BY <1>1, <2>5
  <2> QED
    BY <1>3, <2>4, <2>5, <2>6
<1> QED
  BY <1>1, <1>4 DEF Along

(* They are the same up to where two lists of nodes are.                   *)
LEMMA SpreadsAgree ==
    ASSUME NEW N, NEW r, NEW w \in Seq(N), NEW v \in Seq(N), NEW g, NEW h,
           Along(g, r, w), Along(h, r, v), Len(v) <= Len(w), \A i \in 1 .. Len(v) : v[i] = w[i]
    PROVE  \A i \in 0 .. Len(v) : g[i] = h[i]
<1> DEFINE Bad == {i \in 0 .. Len(v) : g[i] # h[i]}
<1>1. PICK m \in Nat, n \in Nat : m = Len(v) /\ n = Len(w) /\ m <= n
  BY LenProperties
<1>2. SUFFICES ASSUME Bad # {} PROVE FALSE
  OBVIOUS
<1>3. PICK i \in Bad : \A j \in Bad : i <= j
  <2>1. Bad \in SUBSET Nat
    BY <1>1
  <2> HIDE DEF Bad
  <2> QED
    BY <1>2, <2>1, LeastIn
<1>4. i \in 0 .. m /\ g[i] # h[i] /\ i # 0
  BY <1>1 DEF Along
<1>5. i \in 1 .. m /\ i \in 1 .. n /\ i - 1 \in 0 .. m /\ i - 1 \notin Bad
  BY <1>1, <1>3, <1>4
<1>6. g[i - 1] = h[i - 1]
  BY <1>1, <1>5
<1>7. g[i] = r[w[i]] \o g[i - 1] /\ h[i] = r[v[i]] \o h[i - 1] /\ v[i] = w[i]
  BY <1>1, <1>5 DEF Along
<1> QED
  BY <1>4, <1>6, <1>7

(* What it is, by what it ends with.                                       *)
LEMMA SpreadFacts ==
    ASSUME NEW N, NEW r \in [N -> Seq(N)]
    PROVE  /\ Spread(r, <<>>, N) = <<>>
           /\ \A w \in Seq(N) : Spread(r, w, N) \in Seq(N)
           /\ \A w \in Seq(N), n \in N :
                 Spread(r, Append(w, n), N) = r[n] \o Spread(r, w, N)
<1> DEFINE Is(g, w) == g \in [0 .. Len(w) -> Seq(N)] /\ Along(g, r, w)
<1>1. \A w \in Seq(N) : \E g : Is(g, w) /\ Spread(r, w, N) = g[Len(w)]
  <2> TAKE w \in Seq(N)
  <2>1. \E g : Is(g, w)
    BY SpreadExists
  <2>2. PICK g : g = CHOOSE h : Is(h, w)
    OBVIOUS
  <2>3. Is(g, w)
    <3> HIDE DEF Is
    <3> QED
      BY <2>1, <2>2
  <2> QED
    BY <2>2, <2>3 DEF Spread
<1>2. Spread(r, <<>>, N) = <<>>
  <2>1. PICK g : Is(g, <<>>) /\ Spread(r, <<>>, N) = g[Len(<<>>)]
    BY <1>1, EmptySeq
  <2> QED
    BY <2>1 DEF Along
<1>3. ASSUME NEW w \in Seq(N) PROVE Spread(r, w, N) \in Seq(N)
  <2>1. PICK g : Is(g, w) /\ Spread(r, w, N) = g[Len(w)]
    BY <1>1
  <2>2. Len(w) \in 0 .. Len(w)
    BY LenProperties
  <2> QED
    BY <2>1, <2>2
<1>4. ASSUME NEW w \in Seq(N), NEW n \in N
      PROVE  Spread(r, Append(w, n), N) = r[n] \o Spread(r, w, N)
  <2>1. PICK v \in Seq(N) : v = Append(w, n)
    BY AppendProperties
  <2>2. PICK m \in Nat : m = Len(w)
    BY LenProperties
  <2>3. Len(v) = m + 1 /\ v[m + 1] = n /\ \A i \in 1 .. m : v[i] = w[i]
    BY <2>1, <2>2, AppendProperties
  <2>4. PICK g : Is(g, w) /\ Spread(r, w, N) = g[m]
    BY <1>1, <2>2
  <2>5. PICK h : Is(h, v) /\ Spread(r, v, N) = h[m + 1]
    BY <1>1, <2>3
  <2>6. \A i \in 0 .. m : h[i] = g[i]
    <3>1. Along(h, r, v) /\ Along(g, r, w) /\ Len(w) <= Len(v) /\ \A i \in 1 .. Len(w) : w[i] = v[i]
      BY <2>2, <2>3, <2>4, <2>5
    <3> HIDE DEF Is
    <3>2. \A i \in 0 .. Len(w) : h[i] = g[i]
      BY <3>1, SpreadsAgree
    <3> QED
      BY <2>2, <3>2
  <2>7. h[m + 1] = r[v[m + 1]] \o h[(m + 1) - 1]
    <3>1. \A i \in 1 .. Len(v) : h[i] = r[v[i]] \o h[i - 1]
      BY <2>5 DEF Along
    <3>2. m + 1 \in 1 .. Len(v)
      BY <2>3
    <3> QED
      BY <3>1, <3>2
  <2>8. (m + 1) - 1 = m /\ m \in 0 .. m
    OBVIOUS
  <2> QED
    BY <2>1, <2>3, <2>4, <2>5, <2>6, <2>7, <2>8
<1> QED
  BY <1>2, <1>3, <1>4

(* Concatenation in either order of three.                                 *)
Associates(x, y, z) == (x \o y) \o z = x \o (y \o z)

(* It is the same.                                                         *)
LEMMA Associate ==
    ASSUME NEW S, NEW x \in Seq(S), NEW y \in Seq(S), NEW z \in Seq(S)
    PROVE  Associates(x, y, z)
  BY ConcatAssociative DEF Associates

(* Pushing a node that is there puts its nodes in front.                   *)
LEMMA SpreadPushed ==
    ASSUME NEW N, NEW r \in [N -> Seq(N)], NEW w \in Seq(N), NULL \notin N,
           NEW c, c = NULL \/ c \in N
    PROVE  /\ w \o Pushed(c) \in Seq(N)
           /\ Spread(r, w \o Pushed(c), N) = Below(r, c) \o Spread(r, w, N)
<1>1. Spread(r, w, N) \in Seq(N)
  BY SpreadFacts
<1>2. CASE c = NULL
  <2>1. w \o Pushed(c) = w /\ Below(r, c) = <<>>
    BY <1>2, ConcatEmptySeq DEF Pushed, Below
  <2>2. <<>> \o Spread(r, w, N) = Spread(r, w, N)
    BY <1>1, ConcatEmptySeq
  <2> QED
    BY <2>1, <2>2
<1>3. CASE c # NULL
  <2>1. c \in N
    BY <1>3
  <2>2. w \o Pushed(c) = Append(w, c)
    BY <1>3, <2>1, AppendIsConcat DEF Pushed
  <2>3. Below(r, c) = r[c]
    BY <1>3 DEF Below
  <2>4. Append(w, c) \in Seq(N)
    BY <2>1, AppendProperties
  <2>5. Spread(r, Append(w, c), N) = r[c] \o Spread(r, w, N)
    BY <2>1, SpreadFacts
  <2> QED
    BY <2>2, <2>3, <2>4, <2>5
<1> QED
  BY <1>2, <1>3

(* The nodes below one in the order in which the walk comes by them.       *)
Visited(t, r) ==
    /\ r \in [Nodes(t) -> Seq(Nodes(t))]
    /\ \A n \in Nodes(t) :
          r[n] = <<n>> \o (Below(r, At(t, n, "right")) \o Below(r, At(t, n, "left")))

TopOf(w) == w[Len(w)]

Onward(t, w) == SubSeq(w, 1, Len(w) - 1) \o PushChildren(t, TopOf(w))

(* The nodes that a round of the walk leaves to be visited: one less.      *)
LEMMA RoundSpread ==
    ASSUME NEW t, NEW b, NEW top, Tree(t, b, top), NEW r, Visited(t, r),
           NEW w \in Seq(Nodes(t)), w # <<>>
    PROVE  /\ TopOf(w) \in Nodes(t) /\ Onward(t, w) \in Seq(Nodes(t))
           /\ Spread(r, w, Nodes(t)) = <<TopOf(w)>> \o Spread(r, Onward(t, w), Nodes(t))
<1> DEFINE n == TopOf(w)
           v == Onward(t, w)
<1>0. PICK N : N = Nodes(t)
  OBVIOUS
<1>1. NULL \notin N /\ r \in [N -> Seq(N)] /\ w \in Seq(N)
  BY <1>0 DEF Tree, Links, Visited, NULL, Phantom
<1>2. PICK m \in Nat : m = Len(w) /\ m # 0
  BY <1>1, EmptySeq
<1>3. n \in N
  <2>1. Len(w) \in 1 .. Len(w)
    BY <1>2
  <2> QED
    BY <1>1, <2>1, ElementOfSeq DEF TopOf
<1>4. PICK u \in Seq(N) : u = SubSeq(w, 1, Len(w) - 1) /\ w = Append(u, n)
  <2>1. PICK p : p = SubSeq(w, 1, m - 1)
    OBVIOUS
  <2>2. p \in Seq(N) /\ Len(p) = m - 1 /\ \A i \in 1 .. m - 1 : p[i] = w[i]
    <3>1. 1 \in 1 .. Len(w) + 1 /\ m - 1 \in 0 .. Len(w)
      BY <1>2
    <3>2. /\ SubSeq(w, 1, m - 1) \in Seq(N)
          /\ Len(SubSeq(w, 1, m - 1)) = IF 1 <= m - 1 THEN m - 1 - 1 + 1 ELSE 0
          /\ \A i \in 1 .. m - 1 - 1 + 1 : SubSeq(w, 1, m - 1)[i] = w[1 + i - 1]
      BY <1>1, <3>1, SubSeqProperties
    <3> QED
      BY <1>2, <2>1, <3>2
  <2>3. PICK q \in Seq(N) : q = Append(p, n)
    BY <1>3, <2>2, AppendProperties
  <2>4. Len(q) = m /\ q[m] = n /\ \A i \in 1 .. m - 1 : q[i] = p[i]
    <3>1. Len(q) = Len(p) + 1 /\ q[Len(p) + 1] = n /\ \A i \in 1 .. Len(p) : q[i] = p[i]
      BY <1>3, <2>2, <2>3, AppendProperties
    <3> QED
      BY <1>2, <2>2, <3>1
  <2>5. \A i \in 1 .. m : q[i] = w[i]
    <3> TAKE i \in 1 .. m
    <3>1. i = m \/ i \in 1 .. m - 1
      OBVIOUS
    <3> QED
      BY <1>2, <2>2, <2>4, <3>1 DEF TopOf
  <2>6. q = w
    <3>1. Len(q) = Len(w) /\ \A i \in 1 .. Len(q) : q[i] = w[i]
      BY <1>2, <2>4, <2>5
    <3> QED
      BY <1>1, <3>1, SeqEqual
  <2> QED
    BY <1>2, <2>1, <2>2, <2>3, <2>6
<1>5. PICK l, o : l = At(t, n, "left") /\ o = At(t, n, "right")
  OBVIOUS
<1>6. (l = NULL \/ l \in N) /\ (o = NULL \/ o \in N)
  <2>1. \A y \in N, d \in Sides : At(t, y, d) \in N \cup {NULL}
    BY <1>0 DEF Tree, Links
  <2> HIDE DEF n
  <2> QED
    BY <1>3, <1>5, <2>1, SidesFacts
<1>7. PICK x \in Seq(N), y \in Seq(N), z \in Seq(N) :
         x = Below(r, o) /\ y = Below(r, l) /\ z = Spread(r, u, N)
  <2>1. Below(r, o) \in Seq(N) /\ Below(r, l) \in Seq(N)
    BY <1>1, <1>6, EmptySeq DEF Below
  <2> QED
    BY <1>1, <2>1, SpreadFacts
<1>8. Spread(r, w, N) = r[n] \o z
  <2>1. Spread(r, Append(u, n), N) = r[n] \o Spread(r, u, N)
    BY <1>1, <1>3, SpreadFacts
  <2> QED
    BY <1>4, <1>7, <2>1
<1>9. PICK k \in Seq(N) : k = <<n>>
  <2>1. <<n>> \in Seq(N)
    BY <1>3
  <2> QED
    BY <2>1
<1>10. r[n] = k \o (x \o y)
  BY <1>0, <1>3, <1>5, <1>7, <1>9 DEF Visited
<1>11. x \o y \in Seq(N) /\ (k \o (x \o y)) \o z = k \o ((x \o y) \o z) /\ (x \o y) \o z = x \o (y \o z)
  <2>1. PICK a \in Seq(N) : a = x \o y
    BY ConcatProperties
  <2>2. Associates(k, a, z) /\ Associates(x, y, z)
    BY Associate
  <2> QED
    BY <2>1, <2>2 DEF Associates
<1>12. u \o Pushed(l) \in Seq(N) /\ Spread(r, u \o Pushed(l), N) = y \o z
  BY <1>1, <1>6, <1>7, SpreadPushed
<1>13. /\ (u \o Pushed(l)) \o Pushed(o) \in Seq(N)
       /\ Spread(r, (u \o Pushed(l)) \o Pushed(o), N) = x \o (y \o z)
  <2>1. PICK q \in Seq(N) : q = u \o Pushed(l) /\ Spread(r, q, N) = y \o z
    BY <1>12
  <2>2. /\ q \o Pushed(o) \in Seq(N)
        /\ Spread(r, q \o Pushed(o), N) = Below(r, o) \o Spread(r, q, N)
    BY <1>1, <1>6, SpreadPushed
  <2> QED
    BY <1>7, <2>1, <2>2
<1>14. v = (u \o Pushed(l)) \o Pushed(o)
  <2>1. PICK p \in Seq(N), q \in Seq(N) : p = Pushed(l) /\ q = Pushed(o)
    <3>1. \A c \in N \cup {NULL} : Pushed(c) \in Seq(N)
      <4> TAKE c \in N \cup {NULL}
      <4>1. c # NULL => <<c>> \in Seq(N)
        OBVIOUS
      <4>2. <<>> \in Seq(N)
        BY EmptySeq
      <4> QED
        BY <4>1, <4>2 DEF Pushed
    <3> QED
      BY <1>6, <3>1
  <2>2. Associates(u, p, q)
    BY Associate
  <2> QED
    BY <1>4, <1>5, <2>1, <2>2 DEF Onward, PushChildren, At, Associates
<1> QED
  BY <1>0, <1>3, <1>8, <1>9, <1>10, <1>11, <1>13, <1>14

(* And there is one only.                                                  *)
LEMMA OrderIsOne ==
    ASSUME NEW t, NEW b, NEW top, Tree(t, b, top), NEW f \in [Nodes(t) -> Seq(Nodes(t))],
           InOrder(t, f), NEW g, InOrder(t, g)
    PROVE  \A n \in Nodes(t) : g[n] = f[n]
<1> DEFINE Bad == {n \in Nodes(t) : g[n] # f[n]}
           H == {Width(b, n) : n \in Bad}
<1>1. SUFFICES ASSUME Bad # {} PROVE FALSE
  OBVIOUS
<1>2. H \in SUBSET Nat /\ H # {}
  BY <1>1, WidthFacts
<1>3. PICK n \in Bad : \A c \in Bad : Width(b, n) <= Width(b, c)
  <2>1. PICK i \in H : \A j \in H : i <= j
    <3> HIDE DEF H
    <3> QED
      BY <1>2, LeastIn
  <2> QED
    BY <2>1
<1>4. n \in Nodes(t) /\ g[n] # f[n]
  OBVIOUS
<1>5. \A c \in Nodes(t) : Width(b, c) < Width(b, n) => g[c] = f[c]
  <2> SUFFICES ASSUME NEW c \in Nodes(t), Width(b, c) < Width(b, n), g[c] # f[c] PROVE FALSE
    OBVIOUS
  <2>1. Width(b, n) <= Width(b, c)
    BY <1>3
  <2>2. Width(b, n) \in Nat /\ Width(b, c) \in Nat
    BY <1>4, WidthFacts
  <2> QED
    BY <2>1, <2>2
<1>6. Freed(t, g, n) = Freed(t, f, n)
  BY <1>4, <1>5, FreedFacts
<1> QED
  BY <1>4, <1>6 DEF InOrder

(* A round moves one node from those to be visited to those on the stack.  *)
LEMMA RoundKeeps ==
    ASSUME NEW t, NEW b, NEW top, Tree(t, b, top), NEW r, Visited(t, r),
           NEW w \in Seq(Nodes(t)), w # <<>>, NEW d \in Seq(Nodes(t))
    PROVE  /\ Onward(t, w) \in Seq(Nodes(t)) /\ Append(d, TopOf(w)) \in Seq(Nodes(t))
           /\ d \o Spread(r, w, Nodes(t))
                 = Append(d, TopOf(w)) \o Spread(r, Onward(t, w), Nodes(t))
           /\ Len(Spread(r, Onward(t, w), Nodes(t))) < Len(Spread(r, w, Nodes(t)))
<1> DEFINE n == TopOf(w)
           v == Onward(t, w)
<1>1. PICK N : N = Nodes(t)
  OBVIOUS
<1>2. n \in N /\ v \in Seq(N) /\ Spread(r, w, N) = <<n>> \o Spread(r, v, N)
  BY <1>1, RoundSpread DEF Visited
<1>3. PICK y \in Seq(N) : y = Spread(r, v, N)
  BY <1>1, <1>2, SpreadFacts DEF Visited
<1>4. PICK x \in Seq(N) : x = <<n>> /\ Len(x) = 1
  <2>1. <<n>> \in Seq(N) /\ Len(<<n>>) = 1
    BY <1>2
  <2> QED
    BY <2>1
<1>5. d \in Seq(N)
  BY <1>1
<1>6. Associates(d, x, y)
  BY <1>5, Associate
<1>7. PICK e \in Seq(N) : e = Append(d, n) /\ e = d \o x
  <2>1. Append(d, n) \in Seq(N)
    BY <1>2, <1>5, AppendProperties
  <2>2. Append(d, n) = d \o <<n>>
    BY <1>2, <1>5, AppendIsConcat
  <2> QED
    BY <1>4, <2>1, <2>2
<1>8. PICK z \in Seq(N) : z = x \o y
  BY ConcatProperties
<1>9. Len(y) < Len(z)
  <2>1. Len(z) = Len(x) + Len(y)
    BY <1>8, ConcatProperties
  <2>2. Len(y) \in Nat
    BY LenProperties
  <2> QED
    BY <1>4, <2>1, <2>2
<1>10. d \o z = e \o y
  BY <1>6, <1>7, <1>8 DEF Associates
<1>11. Spread(r, w, N) = z
  BY <1>2, <1>3, <1>4, <1>8
<1> QED
  BY <1>1, <1>2, <1>3, <1>7, <1>9, <1>10, <1>11

(* Walking with the stacks.                                                *)
Pairs(t) == [tmp_stack : Seq(Nodes(t)), stack : Seq(Nodes(t))]

OneMore(t, s) ==
    [tmp_stack |-> Onward(t, s.tmp_stack), stack |-> Append(s.stack, TopOf(s.tmp_stack))]

Left(t, r, s) == s.stack \o Spread(r, s.tmp_stack, Nodes(t))

(* A round changes the stacks, and not what will be left in the end.       *)
LEMMA OneMoreFacts ==
    ASSUME NEW t, NEW b, NEW top, Tree(t, b, top), NEW r, Visited(t, r), NEW s \in Pairs(t)
    PROVE  /\ s.tmp_stack = <<>> => Left(t, r, s) = s.stack
           /\ s.tmp_stack # <<>> =>
                 /\ OneMore(t, s) \in Pairs(t)
                 /\ Left(t, r, OneMore(t, s)) = Left(t, r, s)
                 /\ Len(Spread(r, OneMore(t, s).tmp_stack, Nodes(t)))
                       < Len(Spread(r, s.tmp_stack, Nodes(t)))
           /\ Len(Spread(r, s.tmp_stack, Nodes(t))) \in Nat
<1>1. s.tmp_stack \in Seq(Nodes(t)) /\ s.stack \in Seq(Nodes(t))
  BY DEF Pairs
<1>2. Spread(r, s.tmp_stack, Nodes(t)) \in Seq(Nodes(t)) /\ Spread(r, <<>>, Nodes(t)) = <<>>
  BY <1>1, SpreadFacts DEF Visited
<1>3. s.tmp_stack = <<>> => Left(t, r, s) = s.stack
  <2>1. s.stack \o <<>> = s.stack
    BY <1>1, ConcatEmptySeq
  <2> QED
    BY <1>2, <2>1 DEF Left
<1>4. ASSUME s.tmp_stack # <<>>
      PROVE  /\ OneMore(t, s) \in Pairs(t)
             /\ Left(t, r, OneMore(t, s)) = Left(t, r, s)
             /\ Len(Spread(r, OneMore(t, s).tmp_stack, Nodes(t)))
                   < Len(Spread(r, s.tmp_stack, Nodes(t)))
  <2>1. PICK w \in Seq(Nodes(t)), d \in Seq(Nodes(t)) : w = s.tmp_stack /\ d = s.stack
    BY <1>1
  <2>2. PICK n, v : n = TopOf(w) /\ v = Onward(t, w)
    OBVIOUS
  <2>3. OneMore(t, s) = [tmp_stack |-> v, stack |-> Append(d, n)]
    BY <2>1, <2>2 DEF OneMore
  <2>4. /\ v \in Seq(Nodes(t)) /\ Append(d, n) \in Seq(Nodes(t))
        /\ d \o Spread(r, w, Nodes(t)) = Append(d, n) \o Spread(r, v, Nodes(t))
        /\ Len(Spread(r, v, Nodes(t))) < Len(Spread(r, w, Nodes(t)))
    <3>1. w # <<>>
      BY <1>4, <2>1
    <3>2. /\ Onward(t, w) \in Seq(Nodes(t)) /\ Append(d, TopOf(w)) \in Seq(Nodes(t))
          /\ d \o Spread(r, w, Nodes(t))
                = Append(d, TopOf(w)) \o Spread(r, Onward(t, w), Nodes(t))
          /\ Len(Spread(r, Onward(t, w), Nodes(t))) < Len(Spread(r, w, Nodes(t)))
      BY <3>1, RoundKeeps
    <3> QED
      BY <2>2, <3>2
  <2>5. OneMore(t, s).tmp_stack = v /\ OneMore(t, s).stack = Append(d, n)
    BY <2>3
  <2>6. OneMore(t, s) \in Pairs(t)
    BY <2>3, <2>4 DEF Pairs
  <2>7. Left(t, r, OneMore(t, s)) = Append(d, n) \o Spread(r, v, Nodes(t))
    BY <2>5 DEF Left
  <2>8. Left(t, r, s) = d \o Spread(r, w, Nodes(t))
    BY <2>1 DEF Left
  <2> QED
    BY <2>1, <2>4, <2>5, <2>6, <2>7, <2>8
<1> QED
  BY <1>2, <1>3, <1>4, LenProperties

(* What the two stacks begin with leads to the root's nodes as visited.    *)
LEMMA IterIs ==
    ASSUME NEW t, NEW b, NEW top, Tree(t, b, top), NEW r, Visited(t, r)
    PROVE  PostOrderIter(t) = Below(r, t.root)
<1> DEFINE S == Pairs(t)
           Steps(f) == [s \in S |-> IF s.tmp_stack = <<>> THEN s.stack ELSE f[OneMore(t, s)]]
           rest(s) == Len(Spread(r, s.tmp_stack, Nodes(t)))
<1>1. PICK s0 : s0 = [tmp_stack |-> Pushed(t.root), stack |-> <<>>]
  OBVIOUS
<1>2. PICK g : g = Steps(g) /\ PostOrderIter(t) = g[s0]
  <2> DEFINE Rounds(f) ==
               [s \in [tmp_stack : Seq(Nodes(t)), stack : Seq(Nodes(t))] |->
                  IF s.tmp_stack = <<>> THEN s.stack
                  ELSE LET n == s.tmp_stack[Len(s.tmp_stack)]
                           left == SubSeq(s.tmp_stack, 1, Len(s.tmp_stack) - 1)
                       IN  f[[tmp_stack |-> left \o PushChildren(t, n), stack |-> Append(s.stack, n)]]]
  <2>1. PostOrderIter(t) = (CHOOSE f : f = Rounds(f))[s0]
    BY <1>1 DEF PostOrderIter
  <2>2. \A f : Rounds(f) = Steps(f)
    BY DEF Pairs, OneMore, Onward, TopOf
  <2>3. PICK f : f = [s \in S |-> Left(t, r, s)]
    OBVIOUS
  <2>4. f = Steps(f)
    <3>1. \A s \in S : f[s] = IF s.tmp_stack = <<>> THEN s.stack ELSE f[OneMore(t, s)]
      <4> TAKE s \in S
      <4>1. f[s] = Left(t, r, s)
        BY <2>3
      <4>2. CASE s.tmp_stack = <<>>
        BY <4>1, <4>2, OneMoreFacts
      <4>3. CASE s.tmp_stack # <<>>
        <5>1. OneMore(t, s) \in S /\ Left(t, r, OneMore(t, s)) = Left(t, r, s)
          BY <4>3, OneMoreFacts
        <5>2. f[OneMore(t, s)] = Left(t, r, OneMore(t, s))
          BY <2>3, <5>1
        <5> QED
          BY <4>1, <4>3, <5>1, <5>2
      <4> QED
        BY <4>2, <4>3
    <3>2. f = [s \in S |-> f[s]]
      BY <2>3
    <3> HIDE DEF S
    <3> QED
      BY <3>1, <3>2
  <2> HIDE DEF Rounds, Steps
  <2>5. \E h : h = Rounds(h)
    BY <2>2, <2>4
  <2>6. PICK h : h = CHOOSE j : j = Rounds(j)
    OBVIOUS
  <2>7. h = Rounds(h)
    BY <2>5, <2>6
  <2> QED
    BY <2>1, <2>2, <2>6, <2>7
<1>3. \A s \in S : g[s] = IF s.tmp_stack = <<>> THEN s.stack ELSE g[OneMore(t, s)]
  BY <1>2
<1> DEFINE Bad == {s \in S : g[s] # Left(t, r, s)}
           H == {rest(s) : s \in Bad}
<1>4. Bad = {}
  <2>1. SUFFICES ASSUME Bad # {} PROVE FALSE
    OBVIOUS
  <2>2. \A s \in S : rest(s) \in Nat
    BY OneMoreFacts
  <2>3. H \in SUBSET Nat /\ H # {}
    <3> HIDE DEF rest, S
    <3> QED
      BY <2>1, <2>2
  <2>4. PICK s \in Bad : \A o \in Bad : rest(s) <= rest(o)
    <3>1. PICK i \in H : \A j \in H : i <= j
      <4> HIDE DEF H
      <4> QED
        BY <2>3, LeastIn
    <3> HIDE DEF rest, Bad
    <3> QED
      BY <3>1
  <2>5. s \in S /\ g[s] # Left(t, r, s)
    BY <2>4
  <2>6. s.tmp_stack # <<>>
    BY <1>3, <2>5, OneMoreFacts
  <2>7. PICK o : o = OneMore(t, s)
    OBVIOUS
  <2>8. o \in S /\ Left(t, r, o) = Left(t, r, s) /\ rest(o) < rest(s)
    BY <2>5, <2>6, <2>7, OneMoreFacts
  <2>9. g[s] = g[o]
    BY <1>3, <2>5, <2>6, <2>7
  <2>10. o \in Bad
    BY <2>5, <2>8, <2>9
  <2>11. rest(s) <= rest(o) /\ rest(s) \in Nat /\ rest(o) \in Nat
    BY <2>2, <2>4, <2>5, <2>8, <2>10
  <2> HIDE DEF rest
  <2> QED
    BY <2>8, <2>11
<1>5. PICK N : N = Nodes(t)
  OBVIOUS
<1>6. (t.root = NULL \/ t.root \in N) /\ NULL \notin N /\ r \in [N -> Seq(N)]
  BY <1>5 DEF Tree, Links, Visited, NULL, Phantom
<1>7. <<>> \in Seq(N)
  BY EmptySeq
<1>8. PICK p : p = <<>> \o Pushed(t.root)
  OBVIOUS
<1>9. p \in Seq(N) /\ Spread(r, p, N) = Below(r, t.root) \o Spread(r, <<>>, N)
  BY <1>6, <1>7, <1>8, SpreadPushed
<1>10. p = Pushed(t.root)
  <2>1. Pushed(t.root) \in Seq(N)
    BY <1>6, <1>7 DEF Pushed
  <2> QED
    BY <1>8, <2>1, ConcatEmptySeq
<1>11. Below(r, t.root) \in Seq(N)
  BY <1>6, <1>7 DEF Below
<1>12. Spread(r, p, N) = Below(r, t.root)
  <2>1. Spread(r, <<>>, N) = <<>>
    BY <1>6, SpreadFacts
  <2> QED
    BY <1>9, <1>11, <2>1, ConcatEmptySeq
<1>13. s0 \in S
  BY <1>1, <1>5, <1>7, <1>9, <1>10 DEF Pairs
<1>14. g[s0] = Left(t, r, s0)
  BY <1>4, <1>13
<1>15. Left(t, r, s0) = <<>> \o Spread(r, p, N)
  BY <1>1, <1>5, <1>10 DEF Left
<1>16. Left(t, r, s0) = Below(r, t.root)
  BY <1>11, <1>12, <1>15, ConcatEmptySeq
<1> QED
  BY <1>2, <1>14, <1>16

(* The order that the property speaks of.                                  *)
OrderOf(t) ==
    CHOOSE f : f = [n \in Nodes(t) \cup {NULL} |->
                      IF n = NULL THEN <<>>
                      ELSE f[t.node[n].left] \o f[t.node[n].right] \o <<n>>]

(* It is there, and what it says.                                          *)
LEMMA OrderSolved ==
    ASSUME NEW t, NEW b, NEW top, Tree(t, b, top)
    PROVE  /\ OrderOf(t)[NULL] = <<>>
           /\ \A n \in Nodes(t) : /\ OrderOf(t)[n] \in Seq(Nodes(t))
                                  /\ OrderOf(t)[n] = Freed(t, OrderOf(t), n)
<1> DEFINE N == Nodes(t) \cup {NULL}
           Orders(f) == [n \in N |-> IF n = NULL THEN <<>>
                                     ELSE f[t.node[n].left] \o f[t.node[n].right] \o <<n>>]
<1>1. NULL \notin Nodes(t) /\ \A n \in Nodes(t), d \in Sides : At(t, n, d) \in N
  <2>1. Links(t)
    BY DEF Tree
  <2>2. NULL \notin Nodes(t)
    BY <2>1 DEF Links, NULL, Phantom
  <2>3. \A n \in Nodes(t), d \in Sides : At(t, n, d) \in N
    BY <2>1 DEF Links
  <2> QED
    BY <2>2, <2>3
<1>2. \A f : f[NULL] = <<>> =>
         \A n \in Nodes(t) : f[t.node[n].left] \o f[t.node[n].right] \o <<n>> = Freed(t, f, n)
  BY DEF Freed, Below, At
<1>3. PICK f \in [Nodes(t) -> Seq(Nodes(t))] : \A n \in Nodes(t) : f[n] = Freed(t, f, n)
  BY OrderExists
<1>4. PICK g : g = [n \in N |-> Below(f, n)]
  OBVIOUS
<1>5. g = Orders(g)
  <2>1. g[NULL] = <<>> /\ \A n \in Nodes(t) : g[n] = f[n]
    BY <1>1, <1>4 DEF Below
  <2>2. \A n \in Nodes(t) : g[n] = Freed(t, g, n)
    BY <1>3, <2>1, FreedFacts
  <2>3. \A n \in N : g[n] = IF n = NULL THEN <<>>
                            ELSE g[t.node[n].left] \o g[t.node[n].right] \o <<n>>
    <3> TAKE n \in N
    <3>1. CASE n = NULL
      BY <2>1, <3>1
    <3>2. CASE n # NULL
      <4>1. n \in Nodes(t)
        BY <3>2
      <4>2. g[t.node[n].left] \o g[t.node[n].right] \o <<n>> = Freed(t, g, n)
        BY <1>2, <2>1, <4>1
      <4> QED
        BY <2>2, <3>2, <4>1, <4>2
    <3> QED
      BY <3>1, <3>2
  <2>4. g = [n \in N |-> g[n]]
    BY <1>4
  <2> HIDE DEF N
  <2> QED
    BY <2>3, <2>4
<1>6. PICK o : o = OrderOf(t) /\ o = Orders(o)
  <2>1. OrderOf(t) = CHOOSE h : h = Orders(h)
    BY DEF OrderOf
  <2> HIDE DEF Orders
  <2> QED
    BY <1>5, <2>1
<1>7. o[NULL] = <<>>
  BY <1>6
<1>8. \A n \in Nodes(t) : o[n] = Freed(t, o, n)
  <2> TAKE n \in Nodes(t)
  <2>1. n \in N /\ n # NULL
    BY <1>1
  <2>2. o[n] = o[t.node[n].left] \o o[t.node[n].right] \o <<n>>
    BY <1>6, <2>1
  <2> QED
    BY <1>2, <1>7, <2>2
<1>9. \A n \in Nodes(t) : o[n] = f[n]
  <2>1. InOrder(t, f) /\ InOrder(t, o)
    BY <1>3, <1>8 DEF InOrder
  <2> QED
    BY <2>1, OrderIsOne
<1> QED
  BY <1>3, <1>6, <1>7, <1>8, <1>9

(* From its end to its beginning it is what the walk comes by.             *)
LEMMA BackwardVisits ==
    ASSUME NEW t, NEW b, NEW top, Tree(t, b, top), NEW o,
           \A n \in Nodes(t) : o[n] \in Seq(Nodes(t)) /\ o[n] = Freed(t, o, n),
           NEW r, r = [n \in Nodes(t) |-> Backward(o[n])]
    PROVE  Visited(t, r)
<1>1. PICK N : N = Nodes(t)
  OBVIOUS
<1>2. r \in [N -> Seq(N)]
  BY <1>1, BackwardFacts
<1>3. ASSUME NEW n \in N
      PROVE  r[n] = <<n>> \o (Below(r, At(t, n, "right")) \o Below(r, At(t, n, "left")))
  <2>1. PICK l, e : l = At(t, n, "left") /\ e = At(t, n, "right")
    OBVIOUS
  <2>2. \A c \in N : o[c] \in Seq(N) /\ o[c] = Freed(t, o, c)
    BY <1>1
  <2>3. l \in N \cup {NULL} /\ e \in N \cup {NULL}
    <3>1. \A x \in N, d \in Sides : At(t, x, d) \in N \cup {NULL}
      BY <1>1 DEF Tree, Links
    <3> QED
      BY <2>1, <3>1, SidesFacts
  <2>4. \A c \in N \cup {NULL} : Below(o, c) \in Seq(N) /\ Below(r, c) = Backward(Below(o, c))
    <3> TAKE c \in N \cup {NULL}
    <3>1. CASE c = NULL
      BY <3>1, BackwardEmpty, EmptySeq DEF Below
    <3>2. CASE c # NULL
      <4>1. c \in N /\ Below(o, c) = o[c] /\ Below(r, c) = r[c]
        BY <3>2 DEF Below
      <4> QED
        BY <1>1, <2>2, <4>1
    <3> QED
      BY <3>1, <3>2
  <2>5. PICK x \in Seq(N), y \in Seq(N) : x = Below(o, l) /\ y = Below(o, e)
    BY <2>3, <2>4
  <2>6. o[n] = x \o y \o <<n>>
    BY <2>1, <2>2, <2>5 DEF Freed
  <2>7. Backward(x \o y \o <<n>>) = <<n>> \o (Backward(y) \o Backward(x))
    BY BackwardNode
  <2>8. r[n] = Backward(o[n])
    BY <1>1
  <2> QED
    BY <2>1, <2>3, <2>4, <2>5, <2>6, <2>7, <2>8
<1> QED
  BY <1>1, <1>2, <1>3 DEF Visited

(* rb_post_order_iter leaves every node once, behind all nodes that are    *)
(* below it, so that they can be freed in this order: of a tree of any     *)
(* size and shape that insertions and removals make.                       *)
THEOREM IterationIsRight == RbSpec => []IterationIsPostOrder
<1>1. ASSUME RbInv PROVE IterationIsPostOrder
  <2>1. PICK b, top : Tree(tree, b, top)
    BY <1>1, InvTree
  <2>2. PICK o : o = OrderOf(tree)
    OBVIOUS
  <2>3. /\ o[NULL] = <<>>
        /\ \A n \in Nodes(tree) : o[n] \in Seq(Nodes(tree)) /\ o[n] = Freed(tree, o, n)
    BY <2>1, <2>2, OrderSolved
  <2>4. PICK r : r = [n \in Nodes(tree) |-> Backward(o[n])]
    OBVIOUS
  <2>5. PostOrderIter(tree) = Below(r, tree.root)
    BY <2>1, <2>3, <2>4, BackwardVisits, IterIs
  <2>6. Below(r, tree.root) = Backward(o[tree.root]) /\ o[tree.root] \in Seq(Nodes(tree))
    <3>1. tree.root \in Nodes(tree) \cup {NULL} /\ NULL \notin Nodes(tree)
      BY <2>1 DEF Tree, Links, NULL, Phantom
    <3> QED
      BY <2>3, <2>4, <3>1, BackwardEmpty, EmptySeq DEF Below
  <2>7. PICK s \in Seq(Nodes(tree)) : s = o[tree.root]
    BY <2>6
  <2>8. PostOrderIter(tree) = [i \in DOMAIN s |-> s[Len(s) - i + 1]]
    <3>1. DOMAIN s = 1 .. Len(s)
      BY LenProperties
    <3> QED
      BY <2>5, <2>6, <2>7, <3>1 DEF Backward
  <2> QED
    BY <2>2, <2>7, <2>8 DEF IterationIsPostOrder, OrderOf
<1> QED
  BY <1>1, RbInvariant, PTL

=============================================================================
