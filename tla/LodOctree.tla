----------------------------- MODULE LodOctree -----------------------------
(***************************************************************************)
(* The octree of levels of detail, terrain/lod_octree.rs: nodes in packs,  *)
(* one pack per split node, recycled through a free list, and an update    *)
(* that splits and joins by predicates of its client and tells the client  *)
(* what appears and disappears.  The tree has Dims axes, so a pack holds   *)
(* 2^Dims nodes.                                                           *)
(***************************************************************************)
EXTENDS Integers, Sequences, SequencesExt, FiniteSets

CONSTANTS Dims, MaxDepth,
          Views,       \* places of a viewer, in blocks of LOD 0 along each axis
          LodDistances \* values of lod_distance

VARIABLES tree,  \* nodes (index 0 is the root), free (free_indexes, a stack), created, and
                 \* subdivided: whether subdivide made it
          shown  \* the nodes the client shows, as the calls of its actions told it

octreeVars == <<tree, shown>>

Arity == 2 ^ Dims
NoChildren == -1
RootPosition == [d \in 1 .. Dims |-> 0]
NewNode == [child |-> NoChildren, data |-> << >>]

\* get_child_position, and the cells of LOD 0 that a node covers (get_node_box)
ChildPosition(pos, i) == [d \in 1 .. Dims |-> pos[d] * 2 + ((i \div (2 ^ (d - 1))) % 2)]
NodeBox(pos, lod) == [d \in 1 .. Dims |-> [lo |-> pos[d] * (2 ^ lod), hi |-> (pos[d] + 1) * (2 ^ lod)]]
BoxesMeet(a, b) == \A d \in 1 .. Dims : a[d].lo < b[d].hi /\ b[d].lo < a[d].hi
Children == [i \in 1 .. Arity |-> i - 1]

HasChildren(st, n) == st.nodes[n].child # NoChildren

\* allocate_children: the pack freed last, or one behind the last node
FirstChild(st) == IF st.free # << >> THEN Last(st.free) ELSE Cardinality(DOMAIN st.nodes)
Allocate(st, n) ==
  LET c == FirstChild(st)
      grown == IF st.free # << >> THEN st.nodes
               ELSE [m \in 0 .. c + Arity - 1 |-> IF m < c THEN st.nodes[m] ELSE NewNode] IN
    [st EXCEPT !.nodes = [grown EXCEPT ![n].child = c],
               !.free = IF @ # << >> THEN Front(@) ELSE @]

\* Mutant: the parent keeps its children.
RecycleOnly(st, n) == [st EXCEPT !.free = Append(@, st.nodes[n].child)]

\* recycle_children, and the parent is a leaf again
Recycle(st, n) ==
  LET c == st.nodes[n].child
      cleared == [m \in DOMAIN st.nodes |->
                    IF m \in c .. c + Arity - 1 THEN NewNode ELSE st.nodes[m]] IN
    [st EXCEPT !.nodes = [cleared EXCEPT ![n].child = NoChildren], !.free = Append(@, c)]

\* the actions of the client: what a node holds is written when it is created
CreateChild(st, n, pos, lod) == [st EXCEPT !.nodes[n].data = <<pos, lod>>, !.shown = @ \cup {<<pos, lod>>}]
HideParent(st, pos, lod) == [st EXCEPT !.shown = @ \ {<<pos, lod>>}]
ShowParent(st, pos, lod) == [st EXCEPT !.shown = @ \cup {<<pos, lod>>}]
DestroyChild(st, pos, lod) == [st EXCEPT !.shown = @ \ {<<pos, lod>>}]

Square(n) == n * n
SumOver(f) == FoldFunction(+, 0, f)

\* is_below_split_distance, in halves of a block: the centre of the node to the viewer
IsBelowSplitDistance(pos, lod, view, lodDistance) ==
  SumOver([d \in 1 .. Dims |-> Square((2 ^ lod) * (2 * pos[d] + 1) - 2 * view[d])])
    < Square(2 * lodDistance * (2 ^ lod))

\* can_split and can_join of a client with a viewer
CanSplit(st, pos, lod) == IsBelowSplitDistance(pos, lod, st.view, st.distance)
CanJoin(st, pos, lod) == ~ IsBelowSplitDistance(pos, lod, st.view, st.distance)

RECURSIVE UpdateNode(_, _, _, _)

\* a leaf splits, its children may split in the same update, and only then it is hidden
SplitNode(st, n, pos, lod) ==
  LET c == FirstChild(st)
      make(s, i) == UpdateNode(CreateChild(s, c + i, ChildPosition(pos, i), lod - 1),
                               c + i, ChildPosition(pos, i), lod - 1) IN
    HideParent(FoldLeft(make, Allocate(st, n), Children), pos, lod)

\* a node joins when no child is split after the children were updated
JoinNode(st, n, pos, lod) ==
  LET destroyed == FoldLeft(LAMBDA s, i : DestroyChild(s, ChildPosition(pos, i), lod - 1), st, Children) IN
    ShowParent(Recycle(destroyed, n), pos, lod)

UpdateChildren(st, n, pos, lod) ==
  LET c == st.nodes[n].child
      updated == FoldLeft(LAMBDA s, i : UpdateNode(s, c + i, ChildPosition(pos, i), lod - 1), st, Children) IN
    IF (\E i \in 0 .. Arity - 1 : HasChildren(updated, c + i)) \/ ~ CanJoin(updated, pos, lod)
      THEN updated
      ELSE JoinNode(updated, n, pos, lod)

UpdateNode(st, n, pos, lod) ==
  CASE HasChildren(st, n) -> UpdateChildren(st, n, pos, lod)
    [] ~ HasChildren(st, n) /\ lod > 0 /\ CanSplit(st, pos, lod) -> SplitNode(st, n, pos, lod)
    [] OTHER -> st

RECURSIVE SubdivideNode(_, _, _, _)
SubdivideNode(st, n, pos, lod) ==
  IF HasChildren(st, n) \/ lod = 0 \/ ~ CanSplit(st, pos, lod) THEN st
  ELSE LET c == FirstChild(st)
           make(s, i) == SubdivideNode(CreateChild(s, c + i, ChildPosition(pos, i), lod - 1),
                                       c + i, ChildPosition(pos, i), lod - 1) IN
         FoldLeft(make, Allocate(st, n), Children)

-----------------------------------------------------------------------------
EmptyTree == [nodes |-> [n \in {0} |-> NewNode], free |-> << >>, created |-> FALSE, subdivided |-> FALSE]
WithClient(t, view, distance) ==
  [nodes |-> t.nodes, free |-> t.free, created |-> t.created, subdivided |-> t.subdivided,
   shown |-> shown, view |-> view, distance |-> distance]
Install(st) == /\ tree' = [nodes |-> st.nodes, free |-> st.free, created |-> st.created,
                           subdivided |-> st.subdivided]
               /\ shown' = st.shown

CreateRoot(st) == [CreateChild(st, 0, RootPosition, MaxDepth) EXCEPT !.created = TRUE]

\* update: the first call makes the root if the client allows it
Update(view, distance, canCreateRoot) ==
  LET st == WithClient(tree, view, distance) IN
    CASE tree.created -> Install(UpdateNode(st, 0, RootPosition, MaxDepth))
      [] ~ tree.created /\ canCreateRoot -> Install(UpdateNode(CreateRoot(st), 0, RootPosition, MaxDepth))
      [] OTHER -> UNCHANGED octreeVars

\* subdivide: only a tree without root, and it hides no parent
Subdivide(view, distance) ==
  LET st == [WithClient(tree, view, distance) EXCEPT !.subdivided = TRUE] IN
    /\ ~ tree.created /\ CanSplit(st, RootPosition, MaxDepth)
    /\ Install(SubdivideNode(CreateRoot(st), 0, RootPosition, MaxDepth))

\* create, which clears: the client forgets what it showed
Create == tree' = EmptyTree /\ shown' = {}

NodePositions(lod) == [1 .. Dims -> 0 .. 2 ^ (MaxDepth - lod) - 1]
OctreeInit == tree = EmptyTree /\ shown = {}
OctreeNext == \/ Create
              \/ \E view \in [1 .. Dims -> Views], distance \in LodDistances :
                   (\E root \in BOOLEAN : Update(view, distance, root)) \/ Subdivide(view, distance)

-----------------------------------------------------------------------------
\* for_each_leaf
RECURSIVE Leaves(_, _, _)
Leaves(n, pos, lod) ==
  IF HasChildren(tree, n)
    THEN UNION {Leaves(tree.nodes[n].child + i, ChildPosition(pos, i), lod - 1) : i \in 0 .. Arity - 1}
    ELSE {[index |-> n, pos |-> pos, lod |-> lod]}

\* for_leaves_in_box: a node outside the box is not entered
RECURSIVE LeavesInBox(_, _, _, _)
LeavesInBox(box, n, pos, lod) ==
  IF ~ BoxesMeet(NodeBox(pos, lod), box) THEN {}
  ELSE IF HasChildren(tree, n)
    THEN UNION {LeavesInBox(box, tree.nodes[n].child + i, ChildPosition(pos, i), lod - 1)
                  : i \in 0 .. Arity - 1}
    ELSE {[index |-> n, pos |-> pos, lod |-> lod]}

AllLeaves == Leaves(0, RootPosition, MaxDepth)
SplitNodes == {n \in DOMAIN tree.nodes : HasChildren(tree, n)}
Packs == {1 + k * Arity : k \in 0 .. (Cardinality(DOMAIN tree.nodes) - 1) \div Arity - 1}

\* OctreeExact: the client was told to show the leaves and nothing else (but for the parents
\* that subdivide does not hide); after any series of splits and joins over recycled packs, every pack is the
\* children of one node or free, and free once; no leaf carries the data of another node;
\* and a query by box finds the leaves that a walk of the tree finds there.
OctreeExact ==
  /\ tree.created => {<<l.pos, l.lod>> : l \in AllLeaves} \subseteq shown
  /\ tree.created /\ ~ tree.subdivided => shown = {<<l.pos, l.lod>> : l \in AllLeaves}
  /\ \A p \in Packs : Cardinality({n \in SplitNodes : tree.nodes[n].child = p})
                      + Cardinality({k \in DOMAIN tree.free : tree.free[k] = p}) = 1
  /\ tree.created => \A l \in AllLeaves : tree.nodes[l.index].data = <<l.pos, l.lod>>
  /\ \A x \in NodePositions(0) :
       LET cell == NodeBox(x, 0) IN
         /\ LeavesInBox(cell, 0, RootPosition, MaxDepth)
              = {l \in AllLeaves : BoxesMeet(NodeBox(l.pos, l.lod), cell)}
         /\ Cardinality(LeavesInBox(cell, 0, RootPosition, MaxDepth)) = 1

=============================================================================
