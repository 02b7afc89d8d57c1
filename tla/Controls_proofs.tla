---------------------------- MODULE Controls_proofs ----------------------------
(***************************************************************************)
(* What the user sees of a TAB, for any controls, pages and nesting. The   *)
(* page that is drawn is the one left by the click still to be answered,   *)
(* or the selected one when there is none: that is the inductive           *)
(* strengthening, together with pages that share no control. Then the run  *)
(* of all the controls: each of them goes through it as through a run of   *)
(* its own, so that what is proved of each holds there.                    *)
(***************************************************************************)
EXTENDS MCControls, Registry_proofs, Browse_proofs, Tree_proofs

Disjoint(m) == \A p, q \in DOMAIN m : p # q => m[p] \cap m[q] = {}

\* Of the pages m only page s has controls in w, and in a tab to be seen (t) all
\* of those that are in v.
Fits(m, s, v, w, t) ==
  /\ \A p \in DOMAIN m \ {s} : m[p] \cap w = {}
  /\ t /\ s \in DOMAIN m => m[s] \cap v \subseteq w

Drawing == IF Asked THEN old ELSE sel

TabInv ==
  /\ TabTypeOK
  /\ Disjoint(map)
  /\ ~touched => Fits(map, Drawing, visible, shown, tabShown)
  /\ ~touched /\ Asked => old \in 0..Len(map)

-------------------------------------------------------------------------------
(* Sequences.                                                              *)

LEMMA InsertShape ==
  ASSUME NEW S, NEW s \in Seq(S), NEW i \in 1..(Len(s) + 1), NEW e \in S
  PROVE  /\ InsertAt(s, i, e) \in Seq(S)
         /\ Len(InsertAt(s, i, e)) = Len(s) + 1
         /\ \A k \in 1..(Len(s) + 1) :
              InsertAt(s, i, e)[k] = IF k < i THEN s[k] ELSE IF k = i THEN e ELSE s[k - 1]
<1> DEFINE a == SubSeq(s, 1, i - 1)
           b == a \o <<e>>
           c == SubSeq(s, i, Len(s))
<1>1. a \in Seq(S) /\ Len(a) = i - 1 /\ \A k \in 1..(i - 1) : a[k] = s[k]
  BY SubSeqProperties
<1>2. c \in Seq(S) /\ Len(c) = Len(s) + 1 - i /\ \A k \in 1..(Len(s) + 1 - i) : c[k] = s[i + k - 1]
  BY SubSeqProperties
<1> HIDE DEF a, c
<1>3. b \in Seq(S) /\ Len(b) = i /\ \A k \in 1..i : b[k] = IF k < i THEN s[k] ELSE e
  BY <1>1
<1> HIDE DEF b
<1>4. /\ b \o c \in Seq(S) /\ Len(b \o c) = Len(s) + 1
      /\ \A k \in 1..(Len(s) + 1) : (b \o c)[k] = IF k <= i THEN b[k] ELSE c[k - i]
  <2>1. Len(b) + Len(c) = Len(s) + 1
    BY <1>2, <1>3
  <2>2. /\ b \o c \in Seq(S) /\ Len(b \o c) = Len(b) + Len(c)
        /\ \A k \in 1..(Len(b) + Len(c)) : (b \o c)[k] = IF k <= Len(b) THEN b[k] ELSE c[k - Len(b)]
    BY <1>2, <1>3, ConcatProperties
  <2> QED  BY <1>3, <2>1, <2>2
<1>5. \A k \in 1..(Len(s) + 1) : k > i => c[k - i] = s[k - 1]
  BY <1>2
<1>6. InsertAt(s, i, e) = b \o c
  BY DEF InsertAt, a, b, c
<1> QED  BY <1>3, <1>4, <1>5, <1>6

LEMMA RemoveShape ==
  ASSUME NEW S, NEW s \in Seq(S), NEW i \in 1..Len(s)
  PROVE  /\ RemoveAt(s, i) \in Seq(S)
         /\ Len(RemoveAt(s, i)) = Len(s) - 1
         /\ \A k \in 1..(Len(s) - 1) : RemoveAt(s, i)[k] = IF k < i THEN s[k] ELSE s[k + 1]
<1> DEFINE a == SubSeq(s, 1, i - 1)
           c == SubSeq(s, i + 1, Len(s))
<1>1. a \in Seq(S) /\ Len(a) = i - 1 /\ \A k \in 1..(i - 1) : a[k] = s[k]
  BY SubSeqProperties
<1>2. c \in Seq(S) /\ Len(c) = Len(s) - i /\ \A k \in 1..(Len(s) - i) : c[k] = s[i + k]
  BY SubSeqProperties
<1> HIDE DEF a, c
<1>3. /\ a \o c \in Seq(S) /\ Len(a \o c) = Len(s) - 1
      /\ \A k \in 1..(Len(s) - 1) : (a \o c)[k] = IF k < i THEN a[k] ELSE c[k + 1 - i]
  <2>1. /\ a \o c \in Seq(S) /\ Len(a \o c) = Len(a) + Len(c)
        /\ \A k \in 1..(Len(a) + Len(c)) : (a \o c)[k] = IF k <= Len(a) THEN a[k] ELSE c[k - Len(a)]
    BY <1>1, <1>2, ConcatProperties
  <2>2. Len(a) + Len(c) = Len(s) - 1
    BY <1>1, <1>2
  <2>3. \A k \in 1..(Len(s) - 1) : (k <= Len(a) <=> k < i) /\ k - Len(a) = k + 1 - i
    BY <1>1
  <2> QED  BY <2>1, <2>2, <2>3
<1>4. \A k \in 1..(Len(s) - 1) : k >= i => c[k + 1 - i] = s[k + 1]
  BY <1>2
<1>5. RemoveAt(s, i) = a \o c
  BY DEF RemoveAt, a, c
<1> QED  BY <1>1, <1>3, <1>4, <1>5

-------------------------------------------------------------------------------
(* Drawing and selecting.                                                  *)

LEMMA DrawnFits ==
  ASSUME NEW S, NEW m \in Seq(S), Disjoint(m), NEW s \in 0..Len(m), NEW w
  PROVE  Fits(m, s, visible, Drawn(m, s, w), TRUE)
<1>1. ASSUME NEW p \in DOMAIN m \ {s}  PROVE m[p] \cap Drawn(m, s, w) = {}
  <2>1. m[p] \subseteq UNION ToSet(m)
    BY DEF ToSet
  <2>2. s > 0 => s \in DOMAIN m
    OBVIOUS
  <2>3. s > 0 => m[p] \cap m[s] = {}
    BY <2>2 DEF Disjoint
  <2> QED  BY <2>1, <2>3 DEF Drawn
<1>2. s \in DOMAIN m => m[s] \cap visible \subseteq Drawn(m, s, w)
  BY DEF Drawn
<1> QED  BY <1>1, <1>2 DEF Fits

LEMMA DrawnVisible ==
  ASSUME NEW S, NEW m \in Seq(SUBSET S), NEW s \in 0..Len(m), NEW w \in SUBSET S
  PROVE  Drawn(m, s, w) \subseteq S /\ Drawn(m, s, w) \subseteq w \cup visible
<1>1. s > 0 => m[s] \subseteq S
  OBVIOUS
<1> QED  BY <1>1 DEF Drawn

LEMMA CurSelType ==
  ASSUME NEW n \in Nat, NEW k \in 0..n, NEW p, k = sel
  PROVE  SetCurSel(n, p) \in 0..n
BY DEF SetCurSel

\* What UpdateTab draws.
LEMMA Redrawn ==
  ASSUME map' \in Seq(SUBSET live), sel' \in 0..Len(map'), Disjoint(map'),
         visible' = visible, visible \subseteq live, live' = live,
         NEW w \in SUBSET live, shown' = Drawn(map', sel', w), touched' = Asked'
  PROVE  /\ shown' \subseteq live'
         /\ touched' \in BOOLEAN
         /\ ~touched' => Fits(map, Drawing, visible, shown, tabShown)'
<1>1. shown' \subseteq live
  <2>1. Drawn(map', sel', w) \subseteq live
    BY DrawnVisible
  <2> QED  BY <2>1
<1>2. Fits(map', sel', visible, shown', TRUE)
  BY DrawnFits
<1>3. Asked' \in BOOLEAN
  BY DEF Asked
<1>4. ~touched' => Drawing' = sel'
  BY DEF Drawing
<1> QED  BY <1>1, <1>2, <1>3, <1>4 DEF Fits

-------------------------------------------------------------------------------
LEMMA TabInit == ASSUME TabBounds, InitDialogTab PROVE TabInv
<1>1. map \in Seq(SUBSET live) /\ Len(map) \in 1..2 /\ DOMAIN map = 1..Len(map)
  <2>1. map = <<{}>> \/ \E p, q \in SUBSET live : map = <<p, q>>
    BY DEF InitDialogTab
  <2>2. CASE map = <<{}>>
    BY <2>2
  <2>3. CASE \E p, q \in SUBSET live : map = <<p, q>>
    BY <2>3
  <2> QED  BY <2>1, <2>2, <2>3
<1>2. TabTypeOK
  <2>1. sel \in 0..Len(map) /\ old \in 0..MaxPages /\ Len(map) <= MaxPages
    BY <1>1 DEF InitDialogTab, TabBounds, Pages
  <2>2. blocks \in Seq({"click", "change"}) /\ Len(blocks) <= MaxBlocks
    BY DEF InitDialogTab, TabBounds
  <2>3. visible \subseteq live /\ shown \subseteq live /\ live \subseteq Controls
    BY DEF InitDialogTab
  <2>4. tabShown \in BOOLEAN /\ ask \in BOOLEAN /\ touched \in BOOLEAN
    <3>1. tabShown = TRUE /\ touched = FALSE
      BY DEF InitDialogTab
    <3>2. ask \in BOOLEAN
      BY DEF InitDialogTab
    <3> QED  BY <3>1, <3>2
  <2> QED  BY <1>1, <2>1, <2>2, <2>3, <2>4 DEF TabTypeOK
<1>3. ~Asked /\ ~touched
  BY DEF InitDialogTab, Asked
<1>4. Fits(map, sel, visible, shown, tabShown)
  <2>1. \A p \in Pages \ {sel} : map[p] \subseteq UNION {map[q] : q \in Pages \ {sel}}
    OBVIOUS
  <2>2. map[sel] \cap UNION {map[q] : q \in Pages \ {sel}} = {}
    BY DEF InitDialogTab
  <2> QED  BY <2>1, <2>2 DEF InitDialogTab, Fits, Pages
<1>5. Disjoint(map)
  BY DEF InitDialogTab, Disjoint, Pages
<1> QED  BY <1>2, <1>3, <1>4, <1>5 DEF TabInv, Drawing
-------------------------------------------------------------------------------
(* The blocks in progress.                                                 *)

LEMMA AskedType == Asked \in BOOLEAN
BY DEF Asked

LEMMA PushBlock ==
  ASSUME TabTypeOK, TabBounds, NEW k \in {"click", "change"}, Calls, blocks' = Append(blocks, k)
  PROVE  /\ blocks' \in Seq({"click", "change"}) /\ Len(blocks') <= MaxBlocks
         /\ k = "click" => Asked'
<1>1. blocks \in Seq({"click", "change"}) /\ Len(blocks) < MaxBlocks
  BY DEF TabTypeOK, Calls
<1>2. blocks' \in Seq({"click", "change"}) /\ Len(blocks') = Len(blocks) + 1
      /\ blocks'[Len(blocks) + 1] = k
  BY <1>1
<1> QED  BY <1>1, <1>2 DEF Asked, TabBounds

LEMMA PopBlock ==
  ASSUME TabTypeOK, TabBounds, blocks # <<>>, blocks' = Front(blocks)
  PROVE  /\ blocks' \in Seq({"click", "change"}) /\ Len(blocks') <= MaxBlocks
         /\ Last(blocks) = "change" => Asked' = Asked
         /\ Last(blocks) = "click" => Asked
<1>1. blocks \in Seq({"click", "change"}) /\ Len(blocks) \in Nat \ {0} /\ Len(blocks) <= MaxBlocks
  BY DEF TabTypeOK
<1>2. /\ blocks' \in Seq({"click", "change"}) /\ Len(blocks') = Len(blocks) - 1
      /\ \A k \in 1..(Len(blocks) - 1) : blocks'[k] = blocks[k]
  BY <1>1, FrontShape
<1>3. Asked <=> Asked' \/ Last(blocks) = "click"
  BY <1>1, <1>2 DEF Asked, Last
<1>4. Asked \in BOOLEAN /\ Asked' \in BOOLEAN
  BY DEF Asked
<1>5. Last(blocks) = "change" => (Asked <=> Asked')
  BY <1>3
<1>6. Last(blocks) = "change" => Asked' = Asked
  BY <1>4, <1>5, Zenon
<1>7. Len(blocks') <= MaxBlocks
  BY <1>1, <1>2 DEF TabBounds
<1> QED  BY <1>2, <1>3, <1>6, <1>7

-------------------------------------------------------------------------------
(* The steps, one lemma each.                                              *)

LEMMA ClickInv == ASSUME TabBounds, TabInv, NEW p \in Pages, Click(p) PROVE TabInv'
<1> USE DEF TabInv
<1>1. map \in Seq(SUBSET live) /\ sel \in 0..Len(map) /\ p \in 1..Len(map) /\ Len(map) <= MaxPages
  BY DEF TabTypeOK, Pages
<1>2. map' = map /\ live' = live /\ visible' = visible /\ tabShown' = tabShown /\ ask' = ask
      /\ old' = sel /\ sel' = p /\ Disjoint(map')
  BY DEF Click
<1>3. CASE ask /\ blocks' = Append(blocks, "click") /\ touched' = (touched \/ Asked) /\ shown' = shown
  <2>1. blocks' \in Seq({"click", "change"}) /\ Len(blocks') <= MaxBlocks /\ Asked'
    BY <1>3, PushBlock DEF Click
  <2>2. TabTypeOK'
    <3>1. touched' \in BOOLEAN
      BY <1>3, AskedType DEF TabTypeOK
    <3>2. old' \in 0..MaxPages
      BY <1>1, <1>2 DEF TabBounds
    <3> QED  BY <1>1, <1>2, <1>3, <2>1, <3>1, <3>2 DEF TabTypeOK
  <2>3. ~touched' => Fits(map, Drawing, visible, shown, tabShown)'
    <3>1. SUFFICES ASSUME ~touched'  PROVE Fits(map, sel, visible, shown, tabShown)
      BY <1>2, <1>3, <2>1 DEF Drawing, Fits
    <3>2. ~touched /\ ~Asked
      BY <1>3, <3>1
    <3> QED  BY <3>2 DEF Drawing
  <2> QED  BY <1>1, <1>2, <2>2, <2>3
<1>4. CASE blocks' = Append(blocks, "change") /\ UpdateTab
  <2>1. blocks' \in Seq({"click", "change"}) /\ Len(blocks') <= MaxBlocks
    BY <1>4, PushBlock DEF Click
  <2>2. touched' = Asked' /\ shown' = Drawn(map', sel', shown)
    BY <1>4 DEF UpdateTab, Asked
  <2>3. shown' \subseteq live' /\ touched' \in BOOLEAN
        /\ (~touched' => Fits(map, Drawing, visible, shown, tabShown)')
    BY <1>1, <1>2, <2>2, Redrawn DEF TabTypeOK
  <2>4. TabTypeOK'
    <3>1. old' \in 0..MaxPages
      BY <1>1, <1>2 DEF TabBounds
    <3> QED  BY <1>1, <1>2, <2>1, <2>3, <3>1 DEF TabTypeOK
  <2> QED  BY <1>2, <2>2, <2>3, <2>4
<1> QED  BY <1>3, <1>4 DEF Click

LEMMA AcceptInv == ASSUME TabBounds, TabInv, Accept PROVE TabInv'
<1> USE DEF TabInv
<1>1. map' = map /\ live' = live /\ visible' = visible /\ tabShown' = tabShown /\ ask' = ask
      /\ old' = old /\ sel' = sel /\ Disjoint(map')
  BY DEF Accept
<1>2. blocks' \in Seq({"click", "change"}) /\ Len(blocks') <= MaxBlocks
  BY PopBlock DEF Accept
<1>3. touched' = Asked' /\ shown' = Drawn(map', sel', shown)
  BY DEF Accept, UpdateTab, Asked
<1>4. shown' \subseteq live' /\ touched' \in BOOLEAN
      /\ (~touched' => Fits(map, Drawing, visible, shown, tabShown)')
  BY <1>1, <1>3, Redrawn DEF TabTypeOK
<1>5. TabTypeOK'
  BY <1>1, <1>2, <1>4 DEF TabTypeOK
<1> QED  BY <1>1, <1>3, <1>4, <1>5

LEMMA RefuseInv == ASSUME TabBounds, TabInv, Refuse PROVE TabInv'
<1> USE DEF TabInv
<1>1. map' = map /\ live' = live /\ visible' = visible /\ tabShown' = tabShown /\ ask' = ask
      /\ old' = old /\ sel' = SetCurSel(Len(map), old) /\ shown' = shown /\ touched' = touched
  BY DEF Refuse
<1>2. blocks' \in Seq({"click", "change"}) /\ Len(blocks') <= MaxBlocks /\ Asked
  BY PopBlock DEF Refuse
<1>3. sel' \in 0..Len(map)
  BY <1>1, CurSelType DEF TabTypeOK
<1>4. TabTypeOK'
  BY <1>1, <1>2, <1>3 DEF TabTypeOK
<1>5. ~touched => Drawing' = old /\ Drawing = old
  BY <1>1, <1>2 DEF Drawing, SetCurSel
<1> QED  BY <1>1, <1>4, <1>2, <1>5 DEF Fits

LEMMA ReturnInv == ASSUME TabBounds, TabInv, Return PROVE TabInv'
<1> USE DEF TabInv
<1>1. UNCHANGED <<map, sel, visible, shown, tabShown, ask, old, live, touched>>
  BY DEF Return
<1>2. blocks' \in Seq({"click", "change"}) /\ Len(blocks') <= MaxBlocks /\ Asked' = Asked
  BY PopBlock DEF Return
<1>3. TabTypeOK'
  BY <1>1, <1>2 DEF TabTypeOK
<1> QED  BY <1>1, <1>2, <1>3 DEF Drawing, Fits, Disjoint
LEMMA SetTabValueInv == ASSUME TabBounds, TabInv, NEW v, SetTabValue(v) PROVE TabInv'
<1> USE DEF TabInv
<1>1. map' = map /\ live' = live /\ visible' = visible /\ tabShown' = tabShown /\ ask' = ask
      /\ old' = old /\ Disjoint(map')
  BY DEF SetTabValue
<1>2. sel' \in 0..Len(map)
  <2>1. sel \in 0..Len(map) /\ Len(map) \in Nat
    BY DEF TabTypeOK
  <2>2. sel' = SetCurSel(Len(map), v)
    BY DEF SetTabValue
  <2> QED  BY <2>1, <2>2, CurSelType
<1>3. CASE map = <<>> /\ UNCHANGED <<shown, blocks, touched>>
  <2>1. TabTypeOK'
    BY <1>1, <1>2, <1>3 DEF TabTypeOK
  <2>2. Asked' <=> Asked
    BY <1>3 DEF Asked
  <2>3. Fits(map, Drawing, visible, shown, tabShown)'
    BY <1>1, <1>3 DEF Fits
  <2> QED  BY <1>1, <1>3, <2>1, <2>2, <2>3
<1>4. CASE blocks' = Append(blocks, "change") /\ UpdateTab
  <2>1. blocks' \in Seq({"click", "change"}) /\ Len(blocks') <= MaxBlocks
    BY <1>4, PushBlock DEF SetTabValue
  <2>2. touched' = Asked' /\ shown' = Drawn(map', sel', shown)
    BY <1>4 DEF UpdateTab, Asked
  <2>3. shown' \subseteq live' /\ touched' \in BOOLEAN
        /\ (~touched' => Fits(map, Drawing, visible, shown, tabShown)')
    BY <1>1, <1>2, <2>2, Redrawn DEF TabTypeOK
  <2>4. TabTypeOK'
    BY <1>1, <1>2, <2>1, <2>3 DEF TabTypeOK
  <2> QED  BY <1>1, <2>2, <2>3, <2>4
<1> QED  BY <1>3, <1>4 DEF SetTabValue

\* A step that changes the pages m, the selection and draws: AddTabPage,
\* AddTabControl, DeleteTabPage.
LEMMA RedrawnInv ==
  ASSUME TabInv, map' \in Seq(SUBSET live), Len(map') <= MaxPages, Disjoint(map'),
         sel' \in 0..Len(map'), NEW w \in SUBSET live, shown' = Drawn(map', sel', w),
         touched' = Asked', UNCHANGED <<visible, tabShown, ask, old, blocks, live>>
  PROVE  TabInv'
<1> USE DEF TabInv
<1>1. visible \subseteq live /\ visible' = visible /\ live' = live
  BY DEF TabTypeOK
<1>2. shown' \subseteq live' /\ touched' \in BOOLEAN
      /\ (~touched' => Fits(map, Drawing, visible, shown, tabShown)')
  BY <1>1, Redrawn
<1>3. TabTypeOK'
  BY <1>1, <1>2 DEF TabTypeOK
<1> QED  BY <1>2, <1>3

LEMMA AddTabPageInv == ASSUME TabBounds, TabInv, NEW p \in Nat \ {0}, AddTabPage(p) PROVE TabInv'
<1> USE DEF TabInv
<1>1. map \in Seq(SUBSET live) /\ sel \in 0..Len(map) /\ Len(map) < MaxPages /\ p \in 1..(Len(map) + 1)
  BY DEF TabTypeOK, AddTabPage
<1>2. /\ map' \in Seq(SUBSET live) /\ Len(map') = Len(map) + 1
      /\ \A k \in 1..(Len(map) + 1) : map'[k] = IF k < p THEN map[k] ELSE IF k = p THEN {} ELSE map[k - 1]
  <2>1. map' = InsertAt(map, p, {}) /\ {} \in SUBSET live
    BY DEF AddTabPage
  <2> HIDE DEF TabInv
  <2> QED  BY <1>1, <2>1, InsertShape
<1>3. Disjoint(map')
  <2>1. SUFFICES ASSUME NEW j \in 1..Len(map'), NEW k \in 1..Len(map'), j # k
                 PROVE  map'[j] \cap map'[k] = {}
    BY <1>2 DEF Disjoint
  <2> DEFINE from(i) == IF i < p THEN i ELSE i - 1
  <2>2. j # p => from(j) \in 1..Len(map) /\ map'[j] = map[from(j)]
    BY <1>1, <1>2
  <2>3. k # p => from(k) \in 1..Len(map) /\ map'[k] = map[from(k)]
    BY <1>1, <1>2
  <2>4. map'[p] = {}
    BY <1>1, <1>2
  <2>5. j # p /\ k # p => from(j) # from(k)
    BY <1>1, <2>1
  <2> HIDE DEF from
  <2> QED  BY <1>1, <2>2, <2>3, <2>4, <2>5 DEF Disjoint
<1>4. sel' \in 0..Len(map')
  <2>1. sel' = IF map = <<>> THEN 1 ELSE IF p <= sel THEN sel + 1 ELSE sel
    BY DEF AddTabPage
  <2> QED  BY <1>1, <1>2, <2>1
<1>5. touched' = Asked' /\ shown' = Drawn(map', sel', shown)
  BY DEF AddTabPage, UpdateTab, Asked
<1>6. Len(map') <= MaxPages /\ shown \in SUBSET live
  BY <1>1, <1>2 DEF TabBounds, TabTypeOK
<1> QED  BY <1>2, <1>3, <1>4, <1>5, <1>6, RedrawnInv DEF AddTabPage

LEMMA AddTabControlInv ==
  ASSUME TabBounds, TabInv, NEW p \in Pages, NEW c, AddTabControl(c, p)  PROVE TabInv'
<1> USE DEF TabInv
<1>1. map \in Seq(SUBSET live) /\ sel \in 0..Len(map) /\ p \in 1..Len(map) /\ c \in live
  BY DEF TabTypeOK, AddTabControl, Pages
<1>2. /\ map' \in Seq(SUBSET live) /\ Len(map') = Len(map)
      /\ \A k \in 1..Len(map) : map'[k] = IF k = p THEN map[k] \cup {c} ELSE map[k]
  <2>1. map' = [map EXCEPT ![p] = @ \cup {c}]
    BY DEF AddTabControl
  <2>2. map[p] \cup {c} \in SUBSET live
    BY <1>1
  <2> DEFINE S == SUBSET live
             e == map[p] \cup {c}
  <2>3. map \in Seq(S) /\ e \in S /\ map' = [map EXCEPT ![p] = e]
    BY <1>1, <2>1, <2>2
  <2> HIDE DEF S, e
  <2>4. map' \in Seq(S) /\ Len(map') = Len(map) /\ \A k \in 1..Len(map) : map'[k] = IF k = p THEN e ELSE map[k]
    BY <1>1, <2>3
  <2> QED  BY <2>4 DEF S, e
<1>3. Disjoint(map')
  <2>1. \A k \in 1..Len(map) : c \notin map[k]
    BY DEF AddTabControl, ToSet
  <2>2. SUFFICES ASSUME NEW j \in 1..Len(map), NEW k \in 1..Len(map), j # k
                 PROVE  map'[j] \cap map'[k] = {}
    BY <1>2 DEF Disjoint
  <2>3. map[j] \cap map[k] = {}
    BY <2>2 DEF Disjoint
  <2> QED  BY <1>2, <2>1, <2>2, <2>3
<1>4. sel' \in 0..Len(map')
  BY <1>1, <1>2 DEF AddTabControl
<1>5. touched' = Asked' /\ shown' = Drawn(map', sel', shown)
  BY DEF AddTabControl, UpdateTab, Asked
<1>6. Len(map') <= MaxPages /\ shown \in SUBSET live
  BY <1>2 DEF TabTypeOK
<1> QED  BY <1>2, <1>3, <1>4, <1>5, <1>6, RedrawnInv DEF AddTabControl

LEMMA DeleteTabPageInv == ASSUME TabBounds, TabInv, NEW p \in Pages, DeleteTabPage(p) PROVE TabInv'
<1> USE DEF TabInv
<1>1. map \in Seq(SUBSET live) /\ sel \in 0..Len(map) /\ p \in 1..Len(map)
  BY DEF TabTypeOK, Pages
<1>2. /\ map' \in Seq(SUBSET live) /\ Len(map') = Len(map) - 1
      /\ \A k \in 1..(Len(map) - 1) : map'[k] = IF k < p THEN map[k] ELSE map[k + 1]
  BY <1>1, RemoveShape DEF DeleteTabPage
<1>3. Disjoint(map')
  <2>1. SUFFICES ASSUME NEW j \in 1..Len(map'), NEW k \in 1..Len(map'), j # k
                 PROVE  map'[j] \cap map'[k] = {}
    BY <1>2 DEF Disjoint
  <2> DEFINE from(i) == IF i < p THEN i ELSE i + 1
  <2>2. from(j) \in 1..Len(map) /\ map'[j] = map[from(j)]
    BY <1>1, <1>2
  <2>3. from(k) \in 1..Len(map) /\ map'[k] = map[from(k)]
    BY <1>1, <1>2
  <2>4. from(j) # from(k)
    BY <1>1, <2>1
  <2> HIDE DEF from
  <2> QED  BY <1>1, <2>2, <2>3, <2>4 DEF Disjoint
<1>4. sel' \in 0..Len(map')
  <2>1. sel' = IF map' = <<>> THEN 0 ELSE SetCurSel(Len(map'), NextPage(Len(map'), p))
    BY DEF DeleteTabPage
  <2>2. NextPage(Len(map'), p) \in 0..Len(map') \/ Len(map') = 0
    BY <1>1, <1>2 DEF NextPage
  <2> QED  BY <1>2, <2>1, <2>2 DEF SetCurSel
<1>5. touched' = Asked'
  BY DEF DeleteTabPage, Asked
<1>6. PICK w \in SUBSET live : shown' = Drawn(map', sel', w)
  BY DEF DeleteTabPage, TabTypeOK
<1>7. Len(map') <= MaxPages
  BY <1>1, <1>2 DEF TabTypeOK, TabBounds
<1> QED  BY <1>2, <1>3, <1>4, <1>5, <1>6, <1>7, RedrawnInv DEF DeleteTabPage
LEMMA ShowControlInv == ASSUME TabBounds, TabInv, NEW c, ShowControl(c) PROVE TabInv'
<1> USE DEF TabInv
<1>1. UNCHANGED <<map, sel, tabShown, ask, old, blocks, live>> /\ visible' = visible \cup {c} /\ c \in live
      /\ shown' = (IF OtherPage(c) THEN shown ELSE shown \cup {c}) /\ touched' = (touched \/ Asked)
  BY DEF ShowControl
<1>2. TabTypeOK'
  <2>1. touched' \in BOOLEAN
    BY <1>1, AskedType DEF TabTypeOK
  <2>2. visible' \subseteq live /\ shown' \subseteq live
    BY <1>1 DEF TabTypeOK
  <2> QED  BY <1>1, <2>1, <2>2 DEF TabTypeOK
<1>3. ~touched' => Fits(map, sel, visible, shown, tabShown)'
  <2>1. SUFFICES ASSUME Fits(map, sel, visible, shown, tabShown)
                 PROVE  Fits(map, sel, visible', shown', tabShown)
    BY <1>1 DEF Drawing
  <2>2. ASSUME NEW p \in DOMAIN map \ {sel}  PROVE map[p] \cap shown' = {}
    <3>1. c \in map[p] => OtherPage(c)
      BY DEF OtherPage, Pages
    <3> QED  BY <1>1, <2>1, <3>1 DEF Fits
  <2>3. tabShown /\ sel \in DOMAIN map => map[sel] \cap visible' \subseteq shown'
    <3>1. sel \in DOMAIN map /\ c \in map[sel] => ~OtherPage(c)
      BY DEF OtherPage, Pages, Disjoint
    <3> QED  BY <1>1, <2>1, <3>1 DEF Fits
  <2> QED  BY <2>2, <2>3 DEF Fits
<1>4. ~touched' => ~Asked' /\ Drawing' = sel'
  BY <1>1 DEF Asked, Drawing
<1> QED  BY <1>1, <1>2, <1>3, <1>4 DEF Fits

\* Hiding controls, pages as they are or with a control less.
LEMMA LessInv ==
  ASSUME TabInv, NEW S, visible' \subseteq visible, shown' = shown \ S,
         map' \in Seq(SUBSET live'), Len(map') = Len(map),
         \A p \in 1..Len(map) : map'[p] \subseteq map[p],
         visible' \subseteq live', shown' \subseteq live', live' \subseteq live,
         tabShown' \in {tabShown, FALSE},
         \/ ~tabShown'
         \/ \A p \in 1..Len(map) : map'[p] \cap visible' \cap S = {},
         UNCHANGED <<sel, ask, old, blocks, touched>>
  PROVE  TabInv'
<1> USE DEF TabInv
<1>1. TabTypeOK'
  BY DEF TabTypeOK
<1>2. DOMAIN map = 1..Len(map) /\ DOMAIN map' = 1..Len(map)
  BY DEF TabTypeOK
<1>3. Disjoint(map')
  <2>1. SUFFICES ASSUME NEW j \in 1..Len(map), NEW k \in 1..Len(map), j # k
                 PROVE  map'[j] \cap map'[k] = {}
    BY <1>2 DEF Disjoint
  <2>2. map[j] \cap map[k] = {}
    BY <1>2, <2>1 DEF Disjoint
  <2> QED  BY <2>2
<1>4. Drawing' = Drawing /\ (Asked' <=> Asked)
  BY DEF Drawing, Asked
<1>5. ~touched => Fits(map', Drawing, visible', shown', tabShown')
  <2>1. SUFFICES ASSUME Fits(map, Drawing, visible, shown, tabShown)
                 PROVE  Fits(map', Drawing, visible', shown', tabShown')
    OBVIOUS
  <2>2. ASSUME NEW p \in DOMAIN map' \ {Drawing}  PROVE map'[p] \cap shown' = {}
    BY <1>2, <2>1 DEF Fits
  <2>3. ASSUME tabShown', Drawing \in DOMAIN map'  PROVE map'[Drawing] \cap visible' \subseteq shown'
    <3>1. map[Drawing] \cap visible \subseteq shown
      BY <1>2, <2>1, <2>3 DEF Fits
    <3>2. map'[Drawing] \subseteq map[Drawing] /\ map'[Drawing] \cap visible' \cap S = {}
      BY <1>2, <2>3
    <3> QED  BY <3>1, <3>2
  <2> QED  BY <2>2, <2>3 DEF Fits
<1> QED  BY <1>1, <1>3, <1>4, <1>5 DEF Fits

LEMMA HideControlInv == ASSUME TabBounds, TabInv, NEW c, HideControl(c) PROVE TabInv'
BY LessInv DEF HideControl, TabInv, TabTypeOK

LEMMA HideTabInv == ASSUME TabBounds, TabInv, HideTab PROVE TabInv'
BY LessInv DEF HideTab, TabInv, TabTypeOK

LEMMA ReleaseControlInv == ASSUME TabBounds, TabInv, NEW c, ReleaseControl(c) PROVE TabInv'
<1>1. map \in Seq(SUBSET live) /\ visible \subseteq live /\ shown \subseteq live
  BY DEF TabInv, TabTypeOK
<1>2. /\ map' \in Seq(SUBSET live') /\ Len(map') = Len(map)
      /\ \A p \in 1..Len(map) : map'[p] = map[p] \ {c}
  BY <1>1 DEF ReleaseControl, Pages
<1>3. visible' = visible \ {c} /\ shown' = shown \ {c} /\ live' = live \ {c}
      /\ UNCHANGED <<sel, tabShown, ask, old, blocks, touched>>
  BY DEF ReleaseControl
<1> QED  BY <1>1, <1>2, <1>3, LessInv

LEMMA ShowTabInv == ASSUME TabBounds, TabInv, ShowTab PROVE TabInv'
<1> USE DEF TabInv
<1>1. UNCHANGED <<map, sel, visible, ask, old, blocks, live>> /\ tabShown' = TRUE
      /\ shown' = shown \cup map[sel] /\ touched' = (touched \/ Asked)
  BY DEF ShowTab
<1>2. DOMAIN map = 1..Len(map) /\ sel \in DOMAIN map
  BY DEF TabTypeOK, ShowTab
<1>3. TabTypeOK'
  <2>1. touched' \in BOOLEAN
    BY <1>1, AskedType DEF TabTypeOK
  <2>2. map[sel] \subseteq live
    BY <1>2 DEF TabTypeOK
  <2> QED  BY <1>1, <2>1, <2>2 DEF TabTypeOK
<1>4. ~touched' => Fits(map, sel, visible, shown', TRUE)
  <2>1. SUFFICES ASSUME Fits(map, sel, visible, shown, tabShown)
                 PROVE  Fits(map, sel, visible, shown', TRUE)
    BY <1>1 DEF Drawing
  <2>2. ASSUME NEW p \in DOMAIN map \ {sel}  PROVE map[p] \cap shown' = {}
    BY <1>1, <1>2, <2>1 DEF Fits, Disjoint
  <2> QED  BY <1>1, <2>2 DEF Fits
<1>5. ~touched' => ~Asked' /\ Drawing' = sel'
  BY <1>1 DEF Asked, Drawing
<1> QED  BY <1>1, <1>3, <1>4, <1>5 DEF Fits

LEMMA TabStutter == ASSUME TabInv, UNCHANGED tabVars PROVE TabInv'
BY DEF tabVars, TabInv, TabTypeOK, Disjoint, Drawing, Asked, Fits

LEMMA TabNextInv == ASSUME TabBounds, TabInv, [TabNext]_tabVars PROVE TabInv'
<1>1. ASSUME User  PROVE TabInv'
  BY <1>1, ClickInv DEF User
<1>2. ASSUME Answer  PROVE TabInv'
  BY <1>2, AcceptInv, RefuseInv, ReturnInv DEF Answer
<1>3. ASSUME TabProgram  PROVE TabInv'
  <2>1. ASSUME NEW v \in 1..(MaxPages + 1), SetTabValue(v) \/ AddTabPage(v)  PROVE TabInv'
    BY <2>1, SetTabValueInv, AddTabPageInv DEF TabBounds
  <2>2. ASSUME NEW p \in Pages, DeleteTabPage(p) \/ \E c \in Controls : AddTabControl(c, p)  PROVE TabInv'
    BY <2>2, DeleteTabPageInv, AddTabControlInv
  <2>3. ASSUME NEW c \in Controls, ShowControl(c) \/ HideControl(c) \/ ReleaseControl(c)  PROVE TabInv'
    BY <2>3, ShowControlInv, HideControlInv, ReleaseControlInv
  <2> QED  BY <1>3, <2>1, <2>2, <2>3, HideTabInv, ShowTabInv DEF TabProgram
<1> QED  BY <1>1, <1>2, <1>3, TabStutter DEF TabNext

\* Everything the properties below rest on, for any pages, controls and nesting.
THEOREM TabInvariant == TabSpec => []TabInv
<1>1. InitDialogTab => TabInv
  BY TabInit, TabAssumption
<1>2. TabInv /\ [TabNext]_tabVars => TabInv'
  BY TabNextInv, TabAssumption
<1> QED  BY <1>1, <1>2, PTL DEF TabSpec

\* The state of a TAB keeps its types.
THEOREM TabTypes == TabSpec => []TabTypeOK
<1>1. TabInv => TabTypeOK
  BY DEF TabInv
<1> QED  BY <1>1, TabInvariant, PTL

\* Once the clicks are answered no control of another page is to be seen.
THEOREM PageAlone == TabSpec => []OnlyThePage
<1>1. TabInv => OnlyThePage
  BY DEF TabInv, OnlyThePage, Fits, Drawing, Pages
<1> QED  BY <1>1, TabInvariant, PTL

\* ... and those of the selected page are, unless Hide() hid them.
THEOREM PageWhole == TabSpec => []PageComplete
<1>1. TabInv => PageComplete
  BY DEF TabInv, PageComplete, Fits, Drawing, Pages, On
<1> QED  BY <1>1, TabInvariant, PTL

LEMMA DrawnStep ==
  ASSUME NEW m, NEW s, NEW w, w \subseteq shown, shown' = Drawn(m, s, w), visible' = visible
  PROVE  HiddenStep
BY DEF Drawn, HiddenStep

\* No step, of however many nested blocks, brings a control back that Hide() hid,
\* but Show() of it or of the whole tab.
THEOREM HiddenStaysHidden == TabSpec => HiddenStays
<1>1. ASSUME NEW p, Click(p)  PROVE HiddenStep
  <2>1. CASE shown' = shown
    BY <2>1 DEF HiddenStep
  <2>2. CASE UpdateTab
    BY <1>1, <2>2, DrawnStep DEF UpdateTab, Click
  <2> QED  BY <1>1, <2>1, <2>2 DEF Click
<1>2. ASSUME Answer  PROVE HiddenStep
  BY <1>2, DrawnStep DEF Answer, Accept, UpdateTab, Refuse, Return, HiddenStep
<1>3. ASSUME NEW v, SetTabValue(v)  PROVE HiddenStep
  <2>1. CASE shown' = shown
    BY <2>1 DEF HiddenStep
  <2>2. CASE UpdateTab
    BY <1>3, <2>2, DrawnStep DEF UpdateTab, SetTabValue
  <2> QED  BY <1>3, <2>1, <2>2 DEF SetTabValue
<1>4. ASSUME NEW v, AddTabPage(v)  PROVE HiddenStep
  BY <1>4, DrawnStep DEF AddTabPage, UpdateTab
<1>5. ASSUME NEW p, DeleteTabPage(p)  PROVE HiddenStep
  BY <1>5, DrawnStep DEF DeleteTabPage
<1>6. ASSUME NEW p, NEW c, AddTabControl(c, p)  PROVE HiddenStep
  BY <1>6, DrawnStep DEF AddTabControl, UpdateTab
<1>7. ASSUME NEW c, ShowControl(c) \/ HideControl(c) \/ ReleaseControl(c)  PROVE HiddenStep
  BY <1>7 DEF ShowControl, HideControl, ReleaseControl, HiddenStep
<1>8. ASSUME HideTab \/ ShowTab  PROVE HiddenStep
  BY <1>8 DEF HideTab, ShowTab, HiddenStep
<1>9. [TabNext]_tabVars => [HiddenStep]_tabVars
  <2>1. TabProgram => HiddenStep
    BY <1>3, <1>4, <1>5, <1>6, <1>7, <1>8 DEF TabProgram
  <2> QED  BY <1>1, <1>2, <2>1 DEF TabNext, User
<1> QED  BY <1>9, PTL DEF TabSpec, HiddenStays

-------------------------------------------------------------------------------
(* The controls of one run.                                                *)

\* The run of the controls is a run of each of them: what is proved of BROWSE,
\* TREE, TAB and the registry of timers and hotkeys holds in it.
THEOREM ControlsRun == AllSpec => BrowseSpec /\ TreeSpec /\ TabSpec /\ Spec
<1>1. AllInit => InitBrowse /\ InitTree /\ InitDialogTab /\ Init
  BY DEF AllInit
<1>2. ASSUME [AllNext]_<<part, browseVars, treeVars, tabVars, vars>>
      PROVE  [BrowseNext]_browseVars /\ [TreeNext]_treeVars /\ [TabNext]_tabVars /\ [Next]_vars
  <2>1. CASE UNCHANGED <<part, browseVars, treeVars, tabVars, vars>>
    BY <2>1
  <2>2. CASE InBrowse(UserKeys) \/ InBrowse(Editing) \/ InBrowse(BrowseProgram)
    BY <2>2 DEF InBrowse, BrowseNext
  <2>3. CASE InTree(Definition) \/ InTree(Methods)
    BY <2>3 DEF InTree, TreeNext
  <2>4. CASE InTab(User) \/ InTab(Answer) \/ InTab(TabProgram)
    BY <2>4 DEF InTab, TabNext
  <2>5. CASE InRegistry(Program) \/ InRegistry(System) \/ InRegistry(Handlers)
    BY <2>5 DEF InRegistry, Next
  <2> QED  BY <1>2, <2>1, <2>2, <2>3, <2>4, <2>5 DEF AllNext
<1> QED  BY <1>1, <1>2, PTL DEF AllSpec, BrowseSpec, TreeSpec, TabSpec, Spec

\* Each control keeps its types, whichever of them moves.
THEOREM ControlsTypes == AllSpec => []TypesOK
<1>1. TreeSpec => []TreeTypeOK
  BY TreeTypes
<1>2. BrowseTypeOK /\ TreeTypeOK /\ TabTypeOK /\ TypeOK => TypesOK
  BY DEF TypesOK
<1> QED  BY <1>1, <1>2, BrowseTypes, TabTypes, RegistryTypes, ControlsRun, PTL
=============================================================================
