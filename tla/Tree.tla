--------------------------------- MODULE Tree ---------------------------------
(***************************************************************************)
(* h_tree.prg and the TREE cases of h_controlmisc.prg. The items live in   *)
(* the Win32 tree view; the control keeps beside it three arrays with one  *)
(* entry per item: the handle, the Id and the cargo. A program names an    *)
(* item by its place in these arrays, or by its Id under ITEMIDS; both     *)
(* lead through the arrays to the handle, so that every insertion and      *)
(* deletion has to hit the same places in the arrays and in the tree.      *)
(*                                                                         *)
(* When the selected item is deleted the tree view selects another one at  *)
(* once: the ON CHANGE block runs before _DeleteItem goes on with its      *)
(* arrays (h_events.prg:3388-3391) and may call any method of the tree.    *)
(*                                                                         *)
(* Handles are numbers in the order of creation, 0 is the root above the   *)
(* top level and the empty value of an array entry. A program names items  *)
(* that are in the tree: what Win32 does with the handle of another is not *)
(* modelled. Left out: pictures, texts, expansion, and which item is       *)
(* selected: the block of any deletion may run.                            *)
(***************************************************************************)
EXTENDS Integers, Sequences, SequencesExt, FiniteSets

CONSTANTS
  MaxItems,   \* bound: items ever created
  MaxLevel,   \* bound: levels of the tree
  Ids,        \* the Ids the program gives
  MaxNested   \* bound: deletions whose blocks run one within the other

ASSUME TreeBounds ==
  MaxItems \in Nat /\ MaxLevel \in Nat \ {0} /\ MaxNested \in Nat /\ 0 \notin Ids

VARIABLES
  itemIds,    \* _HMG_aControlInputMask: the ITEMIDS clause
  view,       \* the Win32 tree: its items, as it shows them from the top down
  above,      \* the items over each item, nothing for one that is gone
  nodes,      \* _HMG_NodeHandle[1.._HMG_NodeIndex] while it is defined, <<>> after
  handles,    \* _HMG_aControlPageMap
  ids,        \* _HMG_aControlPicture: the Ids
  cargo,      \* _HMG_aControlHeadClick: the item each cargo was given to
  idOf,       \* history: the Id each item was created with
  pending,    \* the deletions whose ON CHANGE block runs, the innermost last
  sorted,     \* history: TREESORT was called
  reentered   \* history: AddItem or DeleteItem was called in such a block

treeVars == <<itemIds, view, above, nodes, handles, ids, cargo, idOf, pending, sorted, reentered>>

Root    == 0
Handle  == 1..MaxItems
NewItem == Len(idOf) + 1

Items       == ToSet(view)
Count       == Len(view)
Over(h)     == IF h = Root THEN {} ELSE above[h]
Under(h)    == {x \in Items : h \in above[x] \cup {x}}
Children(h) == {x \in Items : above[x] = Over(h) \cup {h}}
Level(h)    == Cardinality(above[h])

\* Each item of the sequence s is followed by all that is below it.
Together(s) ==
  \A p \in DOMAIN s :
    {s[q] : q \in DOMAIN s \cap (p..(p + Cardinality(Under(s[p])) - 1))} = Under(s[p])

\* ASize, AIns followed by the assignment, and n times ADel.
Resize(s, n)   == [k \in 1..n |-> IF k \in DOMAIN s THEN s[k] ELSE 0]
PutAt(s, p, v) == [k \in 1..(Len(s) + 1) |-> IF k < p THEN s[k] ELSE IF k = p THEN v ELSE s[k - 1]]
Cut(s, p, n)   == [k \in DOMAIN s |-> IF k < p \/ n <= 0 THEN s[k]
                                      ELSE IF k + n \in DOMAIN s THEN s[k + n] ELSE 0]

Defining == nodes # <<>>
Ready    == ~Defining

\* The place in the tree view behind h and all that is below it.
Position(h) == CHOOSE p \in DOMAIN view : view[p] = h
Behind(h)   == IF h = Root THEN Count + 1 ELSE Position(h) + Cardinality(Under(h))

\* AddTreeItem: the last child of its parent.
Insert(h, id) ==
  /\ NewItem \in Handle
  /\ view' = PutAt(view, Behind(h), NewItem)
  /\ above' = Append(above, Over(h) \cup {h})
  /\ idOf' = Append(idOf, id)

GivenIds == IF itemIds THEN Ids ELSE {0}

-------------------------------------------------------------------------------
(* DEFINE TREE: every NODE and TREEITEM is appended to the arrays.         *)

Define(h, id) ==
  /\ Insert(h, id)
  /\ handles' = Append(handles, NewItem) /\ ids' = Append(ids, id) /\ cargo' = Append(cargo, NewItem)
  /\ UNCHANGED <<itemIds, pending, sorted, reentered>>

DefineTreeNode(id) ==
  /\ Defining /\ Len(nodes) <= MaxLevel
  /\ Define(Last(nodes), id)
  /\ nodes' = Append(nodes, NewItem)

EndTreeNode ==
  /\ Len(nodes) > 1 /\ nodes' = Front(nodes)
  /\ UNCHANGED <<itemIds, view, above, handles, ids, cargo, idOf, pending, sorted, reentered>>

DefineTreeItem(id) ==
  /\ Defining /\ Len(nodes) <= MaxLevel
  /\ Define(Last(nodes), id)
  /\ UNCHANGED nodes

EndTree ==
  /\ Len(nodes) = 1 /\ nodes' = <<>>
  /\ UNCHANGED <<itemIds, view, above, handles, ids, cargo, idOf, pending, sorted, reentered>>

-------------------------------------------------------------------------------
(* The methods. A place or Id the control does not know ends the program.  *)

\* The place in the arrays that the program's name for an item stands for.
Places == DOMAIN handles
Named(p) == IF itemIds THEN CHOOSE q \in Places : ids[q] = ids[p] /\ \A j \in 1..(q - 1) : ids[j] # ids[p]
            ELSE p

\* Mutant: only the children of h are counted.
StepsFlat(s, up, h) == Cardinality({x \in ToSet(s) : up[x] = up[h] \cup {h}})

FirstChild(s, up, y) == \E k \in 1..(Len(s) - 1) : s[k + 1] = y /\ s[k] \in up[y]

\* "Determine Position of New Item": the walk over the children of h counts an
\* item and its first child, and goes on with the siblings of that child. So it
\* passes over what is below a first child, except below the first child of h.
Steps(s, up, h) ==
  Cardinality({x \in ToSet(s) :
    /\ h \in up[x]
    /\ \A y \in up[x] \ {Root} : Cardinality(up[y]) > Cardinality(up[h]) + 1 => ~FirstChild(s, up, y)})

\* A call within the block of a deletion.
Call == reentered' = (reentered \/ pending # <<>>)

\* An entry that leads to an item, and one the methods take as a number.
There(p)    == p \in Places /\ (itemIds => ids[p] # 0) /\ handles[Named(p)] \in Items
Callable(p) == There(p) /\ (~itemIds => p <= Count)

\* The new item is the last of the top level, or a child of another. Then the
\* arrays get the length of the tree first, whatever they had.
AddItem(p, id) ==
  /\ Ready /\ Call
  /\ \/ /\ p = 0
        /\ itemIds => id \notin ToSet(ids)
        /\ Insert(Root, id)
        /\ handles' = Append(handles, NewItem) /\ ids' = Append(ids, id) /\ cargo' = Append(cargo, 0)
     \/ /\ Callable(p)
        /\ Level(handles[Named(p)]) < MaxLevel
        /\ itemIds => id \notin ToSet(Resize(ids, Count))
        /\ Insert(handles[Named(p)], id)
        /\ LET at == Named(p) + Steps(view', above', handles[Named(p)])
           IN  /\ at <= Count + 1
               /\ handles' = PutAt(Resize(handles, Count), at, NewItem)
               /\ ids' = PutAt(Resize(ids, Count), at, id)
               /\ cargo' = PutAt(Resize(cargo, Count), at, 0)
  /\ UNCHANGED <<itemIds, nodes, pending, sorted>>

\* TreeView_DeleteItem: h with all that is below it.
Prune(h) ==
  /\ view' = SubSeq(view, 1, Position(h) - 1) \o SubSeq(view, Behind(h), Count)
  /\ above' = [x \in DOMAIN above |-> IF x \in Under(h) THEN {} ELSE above[x]]

\* _DeleteItem up to the end of TreeView_DeleteItem and of the block it runs;
\* the place and the number of items are kept until then.
DeleteItem(p) ==
  /\ Ready /\ Call /\ Len(pending) < MaxNested
  /\ Callable(p)
  /\ Prune(handles[Named(p)])
  /\ pending' = Append(pending, [place |-> Named(p), before |-> Count])
  /\ UNCHANGED <<itemIds, nodes, handles, ids, cargo, idOf, sorted>>

\* Mutant: the Ids are only resized under ITEMIDS too.
CutIdsNot(s, p, n) == s

\* Without ITEMIDS nobody reads the Ids: they are only resized.
CutIds(s, p, n) == IF itemIds THEN Cut(s, p, n) ELSE s

\* Mutant: one entry is cut, however many items have gone.
DeletedOne == 1

\* As many entries as there are fewer items than before, from its place on.
Deleted == Last(pending).before - Count

\* What is left of the innermost deletion: of an item, or of all (place 0).
DeleteEntries ==
  /\ pending # <<>> /\ pending' = Front(pending)
  /\ LET p == Last(pending).place
     IN  \/ /\ p = 0
            /\ handles' = <<>> /\ ids' = <<>> /\ cargo' = <<>>
         \/ /\ p # 0
            /\ handles' = Resize(Cut(handles, p, Deleted), Count)
            /\ ids' = Resize(CutIds(ids, p, Deleted), Count)
            /\ cargo' = Resize(Cut(cargo, p, Deleted), Count)
  /\ UNCHANGED <<itemIds, view, above, nodes, idOf, sorted, reentered>>

\* The arrays are emptied when TreeView_DeleteAllItems and the block are through;
\* in an empty tree no block runs.
DeleteAllItems ==
  /\ Ready
  /\ view' = <<>> /\ above' = [x \in DOMAIN above |-> {}]
  /\ \/ /\ view # <<>> /\ Len(pending) < MaxNested
        /\ pending' = Append(pending, [place |-> 0, before |-> Count])
        /\ UNCHANGED <<handles, ids, cargo>>
     \/ /\ view = <<>>
        /\ handles' = <<>> /\ ids' = <<>> /\ cargo' = <<>>
        /\ UNCHANGED pending
  /\ UNCHANGED <<itemIds, nodes, idOf, sorted, reentered>>

\* The Cargo property.
SetCargo(p) ==
  /\ Ready /\ There(p)
  /\ cargo' = [cargo EXCEPT ![Named(p)] = handles[Named(p)]]
  /\ UNCHANGED <<itemIds, view, above, nodes, handles, ids, idOf, pending, sorted, reentered>>

\* TREESORT: the children of h, or of all below it too, in any new order (the
\* order of their texts). No item means the first of the top level.
IsBefore(s, x, y) == \E i, j \in DOMAIN s : i < j /\ s[i] = x /\ s[j] = y

TreeItemSort(h, recurse) ==
  /\ Ready
  /\ LET at == {a \in IF recurse THEN Under(h) ELSE {h} : Cardinality(Children(a)) > 1}
     IN  /\ at # {}
         /\ view' \in {s \in [1..Count -> Items] :
                         /\ ToSet(s) = Items /\ Together(s)
                         /\ \A a \in (Items \cup {Root}) \ at : \A x, y \in Children(a) :
                              IsBefore(view, x, y) => IsBefore(s, x, y)}
  /\ sorted' = TRUE
  /\ UNCHANGED <<itemIds, above, nodes, handles, ids, cargo, idOf, pending, reentered>>

InitTree ==
  /\ itemIds \in BOOLEAN
  /\ view = <<>> /\ above = <<>>
  /\ nodes = <<Root>>
  /\ handles = <<>> /\ ids = <<>> /\ cargo = <<>> /\ idOf = <<>>
  /\ pending = <<>> /\ sorted = FALSE /\ reentered = FALSE

Definition ==
  \/ \E id \in GivenIds : DefineTreeNode(id) \/ DefineTreeItem(id)
  \/ EndTreeNode \/ EndTree

Methods ==
  \/ \E p \in 0..Len(handles), id \in GivenIds : AddItem(p, id)
  \/ \E p \in Places : DeleteItem(p) \/ SetCargo(p)
  \/ DeleteEntries \/ DeleteAllItems
  \/ \E recurse \in BOOLEAN :
       \/ \E p \in Places : There(p) /\ TreeItemSort(handles[Named(p)], recurse)
       \/ view # <<>> /\ TreeItemSort(view[1], recurse)

TreeNext == Definition \/ Methods

TreeSpec == InitTree /\ [][TreeNext]_treeVars

-------------------------------------------------------------------------------
TreeTypeOK ==
  /\ itemIds \in BOOLEAN /\ sorted \in BOOLEAN /\ reentered \in BOOLEAN
  /\ view \in Seq(Handle) /\ above \in Seq(SUBSET ({Root} \cup Handle))
  /\ nodes \in Seq({Root} \cup Handle) /\ Len(nodes) <= MaxLevel + 1
  /\ handles \in Seq({0} \cup Handle) /\ cargo \in Seq({0} \cup Handle)
  /\ ids \in Seq(Ids \cup {0}) /\ idOf \in Seq(Ids \cup {0})
  /\ Len(ids) = Len(handles) /\ Len(cargo) = Len(handles)
  /\ pending \in Seq([place : Nat, before : 0..MaxItems]) /\ Len(pending) <= MaxNested

\* Between two calls the handle array holds the items of the tree, in the
\* order of the tree until it is sorted, in trees of at most three levels and
\* as long as no block of a deletion adds or deletes items (TreeReentered.cfg
\* shows what happens then). It may sort, set cargos and empty the tree.
MapFollowsTree ==
  pending = <<>> /\ ~reentered =>
    /\ Len(handles) = Count /\ ToSet(handles) = Items
    /\ ~sorted => handles = view

\* An item is followed by all that is below it, in a sorted tree too: the
\* entries _DeleteItem cuts are those of the items that went. The walk of
\* _AddItem sees to it in trees of at most three levels; in a deeper one it
\* passes over items (TreeOrder.cfg). The same exception for the blocks.
SubtreesTogether ==
  pending = <<>> /\ ~reentered => Together(handles)

\* Under ITEMIDS the Id beside a handle is that of its item, and a cargo stays
\* with the item it was given to, through insertions and deletions before it,
\* whatever the blocks of deletions do: entries without a handle, and those of
\* items that are gone, may come up, but no entry of another item.
EntriesBelong ==
  \A p \in Places :
    /\ itemIds => ids[p] = IF handles[p] = 0 THEN 0 ELSE idOf[handles[p]]
    /\ cargo[p] \in {0, handles[p]}

\* Between two calls every item of the tree has its entry, by which the program
\* names it (h_controlmisc.prg:711, samples/basic/tree/demo.prg:110). Violated
\* when the block of a deletion adds or deletes items (TreeReentered.cfg).
EveryItemNamed ==
  pending = <<>> => Items \subseteq ToSet(handles)

\* The constraint of that run: the tree view is left with an item to select, so
\* that the block runs for certain.
ItemToSelect ==
  pending # <<>> => view # <<>>
=============================================================================
