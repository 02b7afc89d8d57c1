------------------------------ MODULE MCControls ------------------------------
(***************************************************************************)
(* The controls for TLC in one run. BROWSE, TREE, TAB and the registry of  *)
(* timers and hotkeys share no state in these models, so that a product of *)
(* them would only multiply states: part says which of them moves, the     *)
(* others stay in an initial state.                                        *)
(***************************************************************************)
EXTENDS Registry, Tab, Browse, Tree

CONSTANT Parts   \* the parts of this run

VARIABLE part

\* Of the eight combinations of the three settings of a BROWSE two opposite ones
\* are initial; SetOrder changes the order later.
AllInit ==
  /\ part \in Parts
  /\ Init /\ InitDialogTab /\ InitBrowse /\ InitTree
  /\ table.delOn = (table.order = "up") /\ sync = ~table.delOn
  /\ part # "browse" => table.last = 1 /\ table.delOn
  /\ part # "tree" => itemIds
  /\ part # "tab" => map = <<{}>> /\ visible = {} /\ ask
  /\ part # "registry" => global

InBrowse(A)   == part = "browse"   /\ A /\ UNCHANGED <<part, treeVars, tabVars, vars>>
InTree(A)     == part = "tree"     /\ A /\ UNCHANGED <<part, browseVars, tabVars, vars>>
InTab(A)      == part = "tab"      /\ A /\ UNCHANGED <<part, browseVars, treeVars, vars>>
InRegistry(A) == part = "registry" /\ A /\ UNCHANGED <<part, browseVars, treeVars, tabVars>>

AllNext ==
  \/ InBrowse(UserKeys) \/ InBrowse(Editing) \/ InBrowse(BrowseProgram)
  \/ InTree(Definition) \/ InTree(Methods)
  \/ InTab(User) \/ InTab(Answer) \/ InTab(TabProgram)
  \/ InRegistry(Program) \/ InRegistry(System) \/ InRegistry(Handlers)

AllSpec == AllInit /\ [][AllNext]_<<part, browseVars, treeVars, tabVars, vars>>

-------------------------------------------------------------------------------
\* Each part keeps its types.
TypesOK ==
  /\ part = "browse" => BrowseTypeOK
  /\ part = "tree" => TreeTypeOK
  /\ part = "tab" => TabTypeOK
  /\ part = "registry" => TypeOK
=============================================================================
