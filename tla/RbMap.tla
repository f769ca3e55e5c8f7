------------------------------- MODULE RbMap -------------------------------
(***************************************************************************)
(* map.c: the left-leaning red-black tree behind the tables of open files, *)
(* symbols and breakpoints.  A tree is a value here; what map_insert and   *)
(* rb_remove do to the nodes of the path they keep, from the leaf back to  *)
(* the root, is done on the way back from the recursion.  The key of a     *)
(* node stands for the node: the code moves nodes and never their data.    *)
(***************************************************************************)
EXTENDS Integers, FiniteSets

CONSTANT Keys   \* keys, ordered by the comparator

VARIABLES
    root,   \* the tree
    size,   \* nodes counted
    it      \* the iterator a client holds: the key of a node, or End

mapVars == <<root, size, it>>

End == 0

ASSUME KeysAssumption == Keys \subseteq Nat \ {End}

\* NULL has no color and no children: to ask for them is an error.
Nil == [key |-> End]
Node(k) == [key |-> k, red |-> TRUE, left |-> Nil, right |-> Nil]

IsRed(t) == t # Nil /\ t.red
Paint(t, red) == [t EXCEPT !.red = red]
RotateLeft(x) == [x.right EXCEPT !.left = [x EXCEPT !.right = x.right.left]]
RotateRight(x) == [x.left EXCEPT !.right = [x EXCEPT !.left = x.left.right]]

RECURSIVE KeysOf(_)
KeysOf(t) == IF t = Nil THEN {} ELSE {t.key} \cup KeysOf(t.left) \cup KeysOf(t.right)

RECURSIVE Subtree(_, _)
\* The node of key k, found as map_find finds it, or Nil.
Subtree(t, k) ==
    IF t = Nil THEN Nil
    ELSE IF k = t.key THEN t
    ELSE Subtree(IF k < t.key THEN t.left ELSE t.right, k)

RECURSIVE Leftmost(_)
Leftmost(t) == IF t = Nil THEN End ELSE IF t.left = Nil THEN t.key ELSE Leftmost(t.left)

RECURSIVE Rightmost(_)
Rightmost(t) == IF t = Nil THEN End ELSE IF t.right = Nil THEN t.key ELSE Rightmost(t.right)
-----------------------------------------------------------------------------
(***************************************************************************)
(* map_insert.  The fixup of a subtree says whether it is the last one.    *)
(***************************************************************************)
Fixed(t) == [tree |-> t, done |-> TRUE]
GoOn(t) == [tree |-> t, done |-> FALSE]

AfterLeft(t) ==
    IF ~t.left.red THEN Fixed(t)
    ELSE IF IsRed(t.left.left) THEN GoOn(RotateRight([t EXCEPT !.left.left.red = FALSE]))
    ELSE GoOn(t)

\* A 4-node is split; otherwise the red child is made a left one.
AfterRight(t) ==
    IF ~t.right.red THEN Fixed(t)
    ELSE IF IsRed(t.left)
    THEN GoOn([t EXCEPT !.left.red = FALSE, !.right.red = FALSE, !.red = TRUE])
    ELSE GoOn(Paint(RotateLeft(Paint(t, TRUE)), t.red))

RECURSIVE Inserted(_, _)
Inserted(t, k) ==
    IF t = Nil THEN GoOn(Node(k))
    ELSE IF k < t.key
    THEN LET sub == Inserted(t.left, k)
             up == [t EXCEPT !.left = sub.tree]
         IN  IF sub.done THEN Fixed(up) ELSE AfterLeft(up)
    ELSE LET sub == Inserted(t.right, k)
             up == [t EXCEPT !.right = sub.tree]
         IN  IF sub.done THEN Fixed(up) ELSE AfterRight(up)

\* map_create_node may fail, which leaves the map as it is.
Insert(k) ==
    /\ Subtree(root, k) = Nil
    /\ root' = Paint(Inserted(root, k).tree, FALSE)
    /\ size' = size + 1
    /\ UNCHANGED it
-----------------------------------------------------------------------------
(***************************************************************************)
(* rb_remove.  A subtree that lost a black node is fixed on the way back   *)
(* to the root, until one makes up for it.                                 *)
(***************************************************************************)
ShortLeft(t) ==
    IF IsRed(t.right.left)
    THEN LET black == IF t.red THEN Paint(t, FALSE) ELSE [t EXCEPT !.right.left.red = FALSE]
         IN  Fixed(RotateLeft([black EXCEPT !.right = RotateRight(@)]))
    ELSE IF t.red THEN Fixed(RotateLeft(t))
    ELSE GoOn(RotateLeft(Paint(t, TRUE)))

\* The left child is red: it has a black right child.
ShortRightOfRed(t) ==
    IF IsRed(t.left.right.left)
    THEN LET u == RotateRight([t EXCEPT !.left.right.left.red = FALSE])
         IN  Fixed(RotateLeft([u EXCEPT !.right = RotateRight(@)]))
    ELSE Fixed(Paint(RotateRight([t EXCEPT !.left.right.red = TRUE]), FALSE))

\* Faulty form, for comparison: the red grandchild keeps its color.
ShortRightKeepsRed(t) ==
    IF t.left.red THEN ShortRightOfRed(t)
    ELSE IF t.red
    THEN IF IsRed(t.left.left)
         THEN Fixed(RotateRight([t EXCEPT !.red = FALSE, !.left.red = TRUE, !.left.left.red = FALSE]))
         ELSE Fixed([t EXCEPT !.red = FALSE, !.left.red = TRUE])
    ELSE IF IsRed(t.left.left) THEN Fixed(RotateRight(t))
    ELSE GoOn([t EXCEPT !.left.red = TRUE])

ShortRight(t) ==
    IF t.left.red THEN ShortRightOfRed(t)
    ELSE IF t.red
    THEN IF IsRed(t.left.left)
         THEN Fixed(RotateRight([t EXCEPT !.red = FALSE, !.left.red = TRUE, !.left.left.red = FALSE]))
         ELSE Fixed([t EXCEPT !.red = FALSE, !.left.red = TRUE])
    ELSE IF IsRed(t.left.left) THEN Fixed(RotateRight([t EXCEPT !.left.left.red = FALSE]))
    ELSE GoOn([t EXCEPT !.left.red = TRUE])

\* What is left of a node without children: nothing, and nothing to fix if it was red.
Pruned(t) == [tree |-> Nil, done |-> t.red]

RECURSIVE PruneLeftmost(_)
PruneLeftmost(t) ==
    IF t.left = Nil THEN Pruned(t)
    ELSE LET sub == PruneLeftmost(t.left)
             up == [t EXCEPT !.left = sub.tree]
         IN  IF sub.done THEN Fixed(up) ELSE ShortLeft(up)

\* The node of a subtree's top gives its place and color to its successor.
RemoveTop(t) ==
    IF t.right # Nil
    THEN LET sub == PruneLeftmost(t.right)
             up == [t EXCEPT !.key = Leftmost(t.right), !.right = sub.tree]
         IN  IF sub.done THEN Fixed(up) ELSE ShortRight(up)
    ELSE IF t.left # Nil THEN Fixed(Paint(t.left, FALSE))
    ELSE Pruned(t)

RECURSIVE Removed(_, _)
Removed(t, k) ==
    IF k = t.key THEN RemoveTop(t)
    ELSE IF k < t.key
    THEN LET sub == Removed(t.left, k)
             up == [t EXCEPT !.left = sub.tree]
         IN  IF sub.done THEN Fixed(up) ELSE ShortLeft(up)
    ELSE LET sub == Removed(t.right, k)
             up == [t EXCEPT !.right = sub.tree]
         IN  IF sub.done THEN Fixed(up) ELSE ShortRight(up)

Erase ==
    /\ it # End /\ size # 0
    /\ root' = Removed(root, it).tree
    /\ size' = size - 1
    /\ it' = End

Clear == root' = Nil /\ size' = 0 /\ it' = End
-----------------------------------------------------------------------------
(***************************************************************************)
(* Search and iteration.                                                   *)
(***************************************************************************)
Find(k) == it' = Subtree(root, k).key /\ UNCHANGED <<root, size>>
First == it' = Leftmost(root) /\ UNCHANGED <<root, size>>
Last == it' = Rightmost(root) /\ UNCHANGED <<root, size>>

\* Without a right subtree the successor is the last place the way from the root
\* turned left, and the other way round for the predecessor.
RECURSIVE LastLeftTurn(_, _, _)
LastLeftTurn(t, k, succ) ==
    IF t = Nil \/ t.key = k THEN succ
    ELSE IF k < t.key THEN LastLeftTurn(t.left, k, t.key)
    ELSE LastLeftTurn(t.right, k, succ)

RECURSIVE LastRightTurn(_, _, _)
LastRightTurn(t, k, pred) ==
    IF t = Nil \/ t.key = k THEN pred
    ELSE IF k > t.key THEN LastRightTurn(t.right, k, t.key)
    ELSE LastRightTurn(t.left, k, pred)

\* Faulty form, for comparison: a successor above the node is not looked for.
NextBelow ==
    /\ it # End
    /\ it' = Leftmost(Subtree(root, it).right)
    /\ UNCHANGED <<root, size>>

Next ==
    LET here == Subtree(root, it)
    IN  /\ it # End
        /\ it' = IF here.right # Nil THEN Leftmost(here.right) ELSE LastLeftTurn(root, it, End)
        /\ UNCHANGED <<root, size>>

Prev ==
    LET here == Subtree(root, it)
    IN  /\ it # End
        /\ it' = IF here.left # Nil THEN Rightmost(here.left) ELSE LastRightTurn(root, it, End)
        /\ UNCHANGED <<root, size>>

MapInit == root = Nil /\ size = 0 /\ it = End

MapStep ==
    \/ \E k \in Keys : Insert(k) \/ Find(k)
    \/ Erase \/ Clear \/ First \/ Last \/ Next \/ Prev

MapSpec == MapInit /\ [][MapStep]_mapVars
-----------------------------------------------------------------------------
Sorted == INSTANCE SortedMap WITH stored <- KeysOf(root)

\* Through any sequence of insertions and removals the tree stays a map: no rotation
\* loses or misplaces a node, a removed key is gone, and the iterator visits the keys
\* in order in both directions without parent pointers.
ImplementsSorted == Sorted!SortedSpec

RECURSIVE Even(_)
\* The black nodes on every way down from t, or -1 if two ways differ.
Even(t) ==
    IF t = Nil THEN 0
    ELSE IF Even(t.left) = -1 \/ Even(t.left) # Even(t.right) THEN -1
    ELSE Even(t.left) + (IF t.red THEN 0 ELSE 1)

RECURSIVE LeansLeft(_)
LeansLeft(t) ==
    \/ t = Nil
    \/ /\ LeansLeft(t.left) /\ LeansLeft(t.right)
       /\ ~IsRed(t.right)
       /\ t.red => ~IsRed(t.left)

\* Between operations the tree is balanced, which is what bounds the paths that
\* map_insert and rb_remove keep in arrays of RB_MAX_DEPTH entries and what rb_remove
\* asserts of the nodes it meets; and map_erase, which trusts the count, has the right one.
BalancedAndCounted ==
    /\ Even(root) # -1 /\ LeansLeft(root) /\ ~IsRed(root)
    /\ size = Cardinality(KeysOf(root))
=============================================================================
