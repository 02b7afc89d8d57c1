---------------------------------- MODULE Tab ----------------------------------
(***************************************************************************)
(* h_tab.prg and the TAB cases of h_controlmisc.prg and h_events.prg. The  *)
(* pages of a TAB are no windows: the controls of all pages are children   *)
(* of the form, and the library hides and shows them as the page changes.  *)
(* What the user sees must follow the page Win32 has selected, through     *)
(* clicks that an ON CHANGE block may refuse, pages added and deleted, and *)
(* controls hidden, shown and released meanwhile.                          *)
(*                                                                         *)
(* Each ON CHANGE block is a frame of blocks while it runs; the program    *)
(* and the user go on inside it. Left out: captions, images, tooltips, the *)
(* hotkeys of the captions, tabs in dialogs, controls on two pages.        *)
(***************************************************************************)
EXTENDS Integers, Sequences, SequencesExt

CONSTANTS
  Controls,   \* the controls of the form
  MaxPages,   \* bound: pages of the tab
  MaxBlocks   \* bound: blocks within blocks

TabBounds == MaxPages \in Nat \ {0, 1} /\ MaxBlocks \in Nat
ASSUME TabAssumption == TabBounds

VARIABLES
  map,        \* _HMG_aControlPageMap: the controls of each page
  sel,        \* the page Win32 has selected, 0 for none
  visible,    \* _HMG_aControlVisible of the controls
  shown,      \* the controls whose window is visible
  tabShown,   \* _HMG_aControlVisible of the tab, and whether its window is visible
  ask,        \* PROGRAMMATICCHANGE is on and ON CHANGE is a block: it may refuse
  old,        \* nOldPage, one for all tabs and all nested changes
  blocks,     \* the ON CHANGE blocks in progress: "click" awaits an answer
  live,       \* the controls not released
  touched     \* history: a page was clicked or controls shown while a click was open

tabVars == <<map, sel, visible, shown, tabShown, ask, old, blocks, live, touched>>

Pages == DOMAIN map
Asked == \E k \in DOMAIN blocks : blocks[k] = "click"
On(p) == IF p \in Pages THEN map[p] ELSE {}
Calls == Len(blocks) < MaxBlocks

\* Mutant: the page that was shown before is not hidden.
DrawnOver(m, s, w) == w \cup (IF s > 0 THEN m[s] \cap visible ELSE {})

\* Mutant: Hide() of a control is not looked at.
DrawnAll(m, s, w) == (w \ UNION ToSet(m)) \cup (IF s > 0 THEN m[s] ELSE {})

\* UpdateTab for the pages m with page s selected and w to be seen: the controls
\* of all pages are hidden, then those of page s shown that Hide() left alone.
Drawn(m, s, w) == (w \ UNION ToSet(m)) \cup (IF s > 0 THEN m[s] \cap visible ELSE {})

UpdateTab ==
  /\ shown' = Drawn(map', sel', shown)
  /\ touched' = \E k \in DOMAIN blocks' : blocks'[k] = "click"

\* TCN_SELCHANGING and TCN_SELCHANGE: the user clicks on another page.
Click(p) ==
  /\ Calls /\ tabShown /\ p # sel
  /\ old' = sel /\ sel' = p
  /\ UNCHANGED <<map, visible, tabShown, ask, live>>
  /\ \/ /\ ask
        /\ blocks' = Append(blocks, "click")
        /\ touched' = (touched \/ Asked)
        /\ UNCHANGED shown
     \/ /\ ~ask
        /\ blocks' = Append(blocks, "change")
        /\ UpdateTab

\* Its ON CHANGE block agrees ...
Accept ==
  /\ blocks # <<>> /\ Last(blocks) = "click"
  /\ blocks' = Front(blocks)
  /\ UNCHANGED <<map, sel, visible, tabShown, ask, old, live>>
  /\ UpdateTab

\* TabCtrl_SetCurSel: a page that is not there changes nothing, page 0 is none.
SetCurSel(n, p) == IF p \in 0..n THEN p ELSE sel

\* ... or returns .F.: the page is selected again, and nothing drawn.
Refuse ==
  /\ blocks # <<>> /\ Last(blocks) = "click"
  /\ blocks' = Front(blocks)
  /\ sel' = SetCurSel(Len(map), old)
  /\ UNCHANGED <<map, visible, shown, tabShown, ask, old, live, touched>>

\* A block that is not asked returns.
Return ==
  /\ blocks # <<>> /\ Last(blocks) = "change"
  /\ blocks' = Front(blocks)
  /\ UNCHANGED <<map, sel, visible, shown, tabShown, ask, old, live, touched>>

\* The Value property.
SetTabValue(v) ==
  /\ Calls
  /\ sel' = SetCurSel(Len(map), v)
  /\ UNCHANGED <<map, visible, tabShown, ask, old, live>>
  /\ IF map = <<>> THEN UNCHANGED <<shown, blocks, touched>>
     ELSE blocks' = Append(blocks, "change") /\ UpdateTab

\* AddPage: Win32 goes on showing the page it had, which may have moved.
AddTabPage(p) ==
  /\ Len(map) < MaxPages /\ p <= Len(map) + 1
  /\ map' = InsertAt(map, p, {})
  /\ sel' = (IF map = <<>> THEN 1 ELSE IF p <= sel THEN sel + 1 ELSE sel)
  /\ UNCHANGED <<visible, tabShown, ask, old, blocks, live>>
  /\ UpdateTab

AddTabControl(c, p) ==
  /\ c \in live \ UNION ToSet(map)
  /\ map' = [map EXCEPT ![p] = @ \cup {c}]
  /\ UNCHANGED <<sel, visible, tabShown, ask, old, blocks, live>>
  /\ UpdateTab

\* The page to select after page p is deleted and n pages are left: the one
\* before it; NewMap is then the array of tooltips, one for each page.
NextPage(n, p) == IF p > n THEN (IF n = 0 THEN 1 ELSE n) ELSE p - 1

\* DeletePage: the controls stay defined, hidden.
DeleteTabPage(p) ==
  /\ map' = RemoveAt(map, p)
  /\ sel' = (IF map' = <<>> THEN 0 ELSE SetCurSel(Len(map'), NextPage(Len(map'), p)))
  /\ shown' = Drawn(map', sel', shown \ IF sel = p THEN map[p] ELSE {})
  /\ touched' = Asked
  /\ UNCHANGED <<visible, tabShown, ask, old, blocks, live>>

\* Mutant: the page of the control is compared with the page left last.
OtherPageOld(c) == \E p \in Pages : c \in map[p] /\ p # old

\* TabHide: the control is on a page that is not shown.
OtherPage(c) == \E p \in Pages : c \in map[p] /\ p # sel

\* Show() of a control does nothing when the control is visible already.
ShowControl(c) ==
  /\ c \in live \ visible
  /\ visible' = visible \cup {c}
  /\ shown' = IF OtherPage(c) THEN shown ELSE shown \cup {c}
  /\ touched' = (touched \/ Asked)
  /\ UNCHANGED <<map, sel, tabShown, ask, old, blocks, live>>

HideControl(c) ==
  /\ c \in live
  /\ visible' = visible \ {c} /\ shown' = shown \ {c}
  /\ UNCHANGED <<map, sel, tabShown, ask, old, blocks, live, touched>>

\* Hide() of the tab hides the controls of all pages ...
HideTab ==
  /\ tabShown' = FALSE
  /\ shown' = shown \ UNION ToSet(map)
  /\ UNCHANGED <<map, sel, visible, ask, old, blocks, live, touched>>

\* ... and Show() shows those of the selected page, hidden ones too. With no
\* page selected it fails.
ShowTab ==
  /\ ~tabShown /\ sel > 0
  /\ tabShown' = TRUE
  /\ shown' = shown \cup map[sel]
  /\ touched' = (touched \/ Asked)
  /\ UNCHANGED <<map, sel, visible, ask, old, blocks, live>>

\* Release() of a control takes it out of the page.
ReleaseControl(c) ==
  /\ c \in live
  /\ live' = live \ {c} /\ visible' = visible \ {c} /\ shown' = shown \ {c}
  /\ map' = [p \in Pages |-> map[p] \ {c}]
  /\ UNCHANGED <<sel, tabShown, ask, old, blocks, touched>>

\* DEFINE TAB: its controls are defined on pages, visible or not; all pages but
\* the one given by VALUE are hidden.
InitDialogTab ==
  /\ map \in {<<{}>>} \cup {<<p, q>> : p \in SUBSET Controls, q \in SUBSET Controls}
  /\ \A p, q \in Pages : p # q => map[p] \cap map[q] = {}
  /\ sel \in Pages
  /\ live = Controls /\ visible \in SUBSET Controls
  /\ shown = visible \ UNION {map[p] : p \in Pages \ {sel}}
  /\ tabShown = TRUE /\ ask \in BOOLEAN /\ old = 0 /\ blocks = <<>>
  /\ touched = FALSE

User    == \E p \in Pages : Click(p)
Answer  == Accept \/ Refuse \/ Return
TabProgram ==
  \/ \E v \in 1..(MaxPages + 1) : SetTabValue(v) \/ AddTabPage(v)
  \/ \E p \in Pages : DeleteTabPage(p) \/ \E c \in Controls : AddTabControl(c, p)
  \/ \E c \in Controls : ShowControl(c) \/ HideControl(c) \/ ReleaseControl(c)
  \/ HideTab \/ ShowTab

TabNext == User \/ Answer \/ TabProgram

TabSpec == InitDialogTab /\ [][TabNext]_tabVars

-------------------------------------------------------------------------------
TabTypeOK ==
  /\ map \in Seq(SUBSET live) /\ Len(map) <= MaxPages
  /\ sel \in 0..Len(map) /\ old \in 0..MaxPages
  /\ visible \subseteq live /\ shown \subseteq live /\ live \subseteq Controls
  /\ tabShown \in BOOLEAN /\ ask \in BOOLEAN /\ touched \in BOOLEAN
  /\ blocks \in Seq({"click", "change"}) /\ Len(blocks) <= MaxBlocks

\* Once every click is answered, no control of another page is to be seen,
\* unless another click or the program changed the tab before the answer.
OnlyThePage == ~Asked /\ ~touched => \A p \in Pages \ {sel} : map[p] \cap shown = {}

\* ... and of the selected page every control that is not hidden is.
PageComplete == ~Asked /\ ~touched /\ tabShown => On(sel) \cap visible \subseteq shown

\* A control hidden by Hide() comes back by a Show() of it, or of the tab.
HiddenStep  == (shown' \ shown) \subseteq visible' \/ (~tabShown /\ tabShown')
HiddenStays == [][HiddenStep]_tabVars
=============================================================================
