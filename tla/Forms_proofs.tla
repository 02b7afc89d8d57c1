----------------------------- MODULE Forms_proofs -----------------------------
(***************************************************************************)
(* Type correctness, modality and the counters of window lists in Forms,  *)
(* for any set of windows, any choice of their blocks and any calls the    *)
(* blocks make.  The inductive invariant of the first two adds to the      *)
(* properties that a window has one slot and that only defined windows     *)
(* have one: without them the destruction of a window could leave it in    *)
(* the table, disabled.                                                    *)
(***************************************************************************)
EXTENDS Forms, FiniteSetTheorems, SequenceTheorems, TLAPS

\* A window has one slot, and was defined.
OneSlot ==
  /\ \A i, j \in Slot : form[i].h = form[j].h /\ form[i].h # NoWin => i = j
  /\ Live \subseteq defined

\* Both properties, of live windows l, enabled ones e and modality m, a.
Enabling(l, e, m, a) ==
  /\ ~m => l \subseteq e
  /\ m /\ a \in l => a \in e

IInv == TypeOK /\ OneSlot /\ Enabling(Live, enabled, isModal, activeModal)

-----------------------------------------------------------------------------
LEMMA SlotFacts == Cardinality(Windows) \in Nat /\ Slot \subseteq Nat
  BY FS_CardinalityType, FormsAssumption DEF Slot

\* The constructors make frames.
LEMMA Frames ==
  /\ \A ev \in BlockEvents, i \in Slot \cup {0} : Block(ev, i) \in Frame
  /\ \A wins \in SUBSET Windows : Loop(wins) \in Frame
  /\ Events \in Frame /\ Inkey \in Frame
  /\ \A i \in Slot, pc \in {"flag", "init"} : Activating(i, pc) \in Frame
  /\ \A rest \in Seq(Windows), id \in Ids, wins \in SUBSET Windows : Multi(rest, id, wins) \in Frame
  /\ \A w \in Windows, i \in Slot, pc \in {"ask", "asked", "released", "hidden"} :
       Closing(w, i, pc) \in Frame
  /\ \A i \in Slot \cup {0} : All(i) \in Frame
  BY DEF Frame, Block, Loop, Events, Inkey, Activating, Multi, Closing, All

\* The first n frames of a stack.
LEMMA Prefix ==
  ASSUME NEW s \in Seq(Frame), NEW n \in 0 .. Len(s)
  PROVE  /\ SubSeq(s, 1, n) \in Seq(Frame) /\ Len(SubSeq(s, 1, n)) = n
         /\ \A j \in 1 .. n : SubSeq(s, 1, n)[j] = s[j]
<1>1. Len(s) \in Nat /\ n \in Nat /\ n <= Len(s)
  BY LenProperties
<1>2. ASSUME NEW j \in 1 .. n
      PROVE  s[j] \in Frame
  <2>1. j \in 1 .. Len(s)
    BY <1>1
  <2> QED  BY <2>1, ElementOfSeq
<1>3. /\ SubSeq(s, 1, n) \in Seq(Frame) /\ Len(SubSeq(s, 1, n)) = IF 1 <= n THEN n - 1 + 1 ELSE 0
      /\ \A j \in 1 .. n - 1 + 1 : SubSeq(s, 1, n)[j] = s[1 + j - 1]
  BY <1>1, <1>2, SubSeqProperties
<1> QED  BY <1>1, <1>3

LEMMA StackFacts ==
  ASSUME stack \in Seq(Frame), stack # <<>>
  PROVE  Top \in Frame /\ Below \in Seq(Frame) /\ Len(stack) \in Nat \ {0}
<1>1. Len(stack) \in Nat \ {0}
  BY EmptySeq, LenProperties
<1>2. Top \in Frame
  BY <1>1, ElementOfSeq DEF Top
<1>3. Below \in Seq(Frame)
  BY <1>1, SubSeqProperties DEF Below
<1> QED  BY <1>1, <1>2, <1>3

\* The fields of the frame on top, by its kind.
LEMMA TopFields ==
  ASSUME stack \in Seq(Frame), stack # <<>>
  PROVE  /\ Top.k = "block"      => Top.ev \in BlockEvents /\ Top.this \in Slot \cup {0}
         /\ Top.k = "loop"       => Top.wins \in SUBSET Windows
         /\ Top.k = "activating" => Top.i \in Slot
         /\ Top.k = "multi"      => /\ Top.rest \in Seq(Windows) /\ Top.id \in Ids
                                    /\ Top.wins \in SUBSET Windows
         /\ Top.k = "closing"    => /\ Top.w \in Windows /\ Top.i \in Slot
                                    /\ \A pc \in {"ask", "asked", "released", "hidden"} :
                                         [Top EXCEPT !.pc = pc] \in Frame
         /\ Top.k = "all"        => Top.i \in Slot \cup {0}
<1> DEFINE t == Top
<1>1. t \in Frame
  BY StackFacts
<1> HIDE DEF t
<1>2. /\ t.k = "block"      => t.ev \in BlockEvents /\ t.this \in Slot \cup {0}
      /\ t.k = "loop"       => t.wins \in SUBSET Windows
      /\ t.k = "activating" => t.i \in Slot
      /\ t.k = "multi"      => /\ t.rest \in Seq(Windows) /\ t.id \in Ids
                               /\ t.wins \in SUBSET Windows
      /\ t.k = "closing"    => t.w \in Windows /\ t.i \in Slot
      /\ t.k = "all"        => t.i \in Slot \cup {0}
  BY <1>1 DEF Frame
<1>3. ASSUME t.k = "closing", NEW pc \in {"ask", "asked", "released", "hidden"}
      PROVE  [t EXCEPT !.pc = pc] \in Frame
  BY <1>1, <1>3 DEF Frame
<1> QED  BY <1>2, <1>3 DEF t

\* The event type in force is one of the block events.
LEMMA InnermostEvent ==
  ASSUME stack \in Seq(Frame), NEW j, Innermost(j)
  PROVE  stack[j].ev \in BlockEvents
<1> DEFINE t == stack[j]
<1>1. t \in Frame /\ t.k = "block"
  BY ElementOfSeq, LenProperties DEF Innermost
<1> HIDE DEF t
<1>2. t.ev \in BlockEvents
  BY <1>1 DEF Frame
<1> QED  BY <1>2 DEF t

LEMMA HoldsType ==
  ASSUME TypeOK, NEW i \in Slot
  PROVE  /\ form[i] \in Form /\ form[i].h \in Handle /\ form[i].parent \in Handle
         /\ form[i].active \in BOOLEAN /\ form[i].id \in Ids \cup {0}
  BY DEF TypeOK, Form

LEMMA LiveType ==
  ASSUME TypeOK
  PROVE  Live \subseteq Windows
  BY HoldsType DEF Live, Handle

-----------------------------------------------------------------------------
(* The procedures the actions share.                                       *)

LEMMA SetFocusType ==
  ASSUME TypeOK, NEW w \in Windows, NEW s \in Seq(Frame), SetFocus(w, s)
  PROVE  stack' \in Seq(Frame) /\ userWindow' \in Handle
<1>1. CASE stack' = s /\ UNCHANGED userWindow
  BY <1>1 DEF TypeOK
<1>2. ASSUME NEW i \in Slot,
             userWindow' = IF form[i].active THEN w ELSE userWindow,
             stack' = IF w \in HasGotFocus THEN Append(s, Block("gotfocus", i)) ELSE s
      PROVE  stack' \in Seq(Frame) /\ userWindow' \in Handle
  <2>1. Block("gotfocus", i) \in Frame
    BY Frames DEF BlockEvents
  <2>2. stack' \in Seq(Frame)
    BY <1>2, <2>1, AppendProperties
  <2>3. userWindow' \in Handle
    BY <1>2 DEF TypeOK, Handle
  <2> QED  BY <2>2, <2>3
<1> QED  BY <1>1, <1>2 DEF SetFocus

LEMMA PassFocusType ==
  ASSUME TypeOK, NEW i \in Slot, NEW s \in Seq(Frame), PassFocus(i, s)
  PROVE  stack' \in Seq(Frame) /\ userWindow' \in Handle
<1>1. CASE stack' = s /\ UNCHANGED userWindow
  BY <1>1 DEF TypeOK
<1>2. ASSUME NEW v \in visible \cap enabled, SetFocus(v, s)
      PROVE  stack' \in Seq(Frame) /\ userWindow' \in Handle
  <2>1. v \in Windows
    BY DEF TypeOK
  <2> QED  BY <1>2, <2>1, SetFocusType
<1> QED  BY <1>1, <1>2 DEF PassFocus

LEMMA OnHideSound ==
  ASSUME IInv, NEW i \in Slot, NEW s \in Seq(Frame), OnHide(i, s)
  PROVE  /\ stack' \in Seq(Frame) /\ userWindow' \in Handle
         /\ isModal' \in BOOLEAN /\ activeModal' \in Handle /\ enabled' \subseteq Windows
         /\ Enabling(Live, enabled', isModal', activeModal')
<1> DEFINE p == form[i].parent
<1>1. p \in Handle /\ Live \subseteq Windows /\ enabled \subseteq Windows
  BY HoldsType, LiveType DEF IInv, TypeOK
<1>2. CASE p = NoWin /\ OnHideNonModal(i, s)
  <2>1. stack' \in Seq(Frame) /\ userWindow' \in Handle
    BY <1>2, PassFocusType DEF IInv, OnHideNonModal
  <2> QED  BY <1>1, <1>2, <2>1 DEF OnHideNonModal, IInv, TypeOK, Enabling, modal
<1>3. CASE p \in Live \cap Modals /\ OnHideModalParent(p, s)
  <2>1. stack' \in Seq(Frame) /\ userWindow' \in Handle
    BY <1>1, <1>3, SetFocusType DEF IInv, OnHideModalParent
  <2> QED  BY <1>1, <1>3, <2>1 DEF OnHideModalParent, Enabling, Handle
<1>4. CASE p \in Windows \ (Live \cap Modals) /\ OnHideOtherParent(p, s)
  <2>1. (IF p \in Live THEN p ELSE Main) \in Windows
    BY <1>4, FormsAssumption
  <2>2. stack' \in Seq(Frame) /\ userWindow' \in Handle
    BY <1>4, <2>1, SetFocusType DEF IInv, OnHideOtherParent
  <2> QED  BY <1>1, <1>4, <2>2 DEF OnHideOtherParent, Enabling, Handle
<1> QED  BY <1>2, <1>3, <1>4 DEF OnHide

LEMMA HideWindowSound ==
  ASSUME IInv, NEW w, NEW i \in Slot, NEW s \in Seq(Frame), HideWindow(w, i, s)
  PROVE  /\ stack' \in Seq(Frame) /\ userWindow' \in Handle
         /\ isModal' \in BOOLEAN /\ activeModal' \in Handle
         /\ enabled' \subseteq Windows /\ visible' \subseteq Windows
         /\ halt' \in {"no", "quit", "error"}
         /\ Enabling(Live, enabled', isModal', activeModal')
<1>1. CASE UNCHANGED <<desktop, modal, userWindow>> /\ stack' \in {s, stack}
           /\ halt' \in {halt, "error"}
  BY <1>1 DEF IInv, TypeOK, desktop, modal, Enabling
<1>2. CASE visible' = visible \ {w} /\ OnHide(i, s) /\ UNCHANGED halt
  <2>1. visible' \subseteq Windows /\ halt' \in {"no", "quit", "error"}
    BY <1>2 DEF IInv, TypeOK
  <2> QED  BY <1>2, <2>1, OnHideSound
<1> QED  BY <1>1, <1>2 DEF HideWindow

\* Showing a modal window keeps some window enabled: itself.
LEMMA ShowWindowSound ==
  ASSUME IInv, NEW w \in Windows, ShowWindow(w)
  PROVE  /\ isModal' \in BOOLEAN /\ activeModal' \in Handle
         /\ enabled' \subseteq Windows /\ visible' \subseteq Windows
         /\ Enabling(Live, enabled', isModal', activeModal')
<1>1. CASE w \in Modals
  BY <1>1 DEF ShowWindow, IInv, TypeOK, Enabling, Handle
<1>2. CASE w \notin Modals
  BY <1>2 DEF ShowWindow, IInv, TypeOK, Enabling, modal
<1> QED  BY <1>1, <1>2

LEMMA ModalParentType ==
  ASSUME TypeOK
  PROVE  ModalParent \in Handle
  BY LiveType, FormsAssumption DEF ModalParent, TypeOK, Handle

\* Updates of a form that keep its handle keep the table.
SameHandles(f) == f \in [Slot -> Form] /\ \A i \in Slot : f[i].h = form[i].h

LEMMA SameTable ==
  ASSUME OneSlot, SameHandles(form'), UNCHANGED defined
  PROVE  OneSlot' /\ Live' = Live
<1>1. Live' = Live
  BY DEF SameHandles, Live
<1>2. \A i, j \in Slot : form'[i].h = form'[j].h /\ form'[i].h # NoWin => i = j
  BY DEF OneSlot, SameHandles
<1> QED  BY <1>1, <1>2 DEF OneSlot

LEMMA ShownFormSound ==
  ASSUME TypeOK, NEW w \in Windows, NEW i \in Slot
  PROVE  SameHandles(ShownForm(w, i, form))
<1>1. CASE w \in Modals
  <2> DEFINE g == [form EXCEPT ![i].parent = ModalParent]
  <2>1. g \in [Slot -> Form]
    BY ModalParentType DEF TypeOK, Form
  <2>2. \A j \in Slot : g[j].h = form[j].h
    BY DEF TypeOK, Form
  <2> QED  BY <1>1, <2>1, <2>2 DEF ShownForm, SameHandles
<1>2. CASE w \notin Modals
  BY <1>2 DEF ShownForm, SameHandles, TypeOK
<1> QED  BY <1>1, <1>2

-----------------------------------------------------------------------------
(* One lemma per action.                                                   *)

\* The variables that only have to keep their types.
RestOK ==
  /\ visible \subseteq Windows
  /\ posted \in Seq(Windows) /\ quit \in BOOLEAN
  /\ userWindow \in Handle /\ mainActive \in BOOLEAN
  /\ count \in [Ids -> Int]
  /\ stack \in Seq(Frame)
  /\ halt \in {"no", "quit", "error"}

LEMMA Rest == IInv => RestOK
  BY DEF IInv, TypeOK, RestOK

\* A step that moves no window in the table.
LEMMA KeepTable ==
  ASSUME IInv, RestOK', UNCHANGED defined, SameHandles(form'),
         enabled' \subseteq Windows, isModal' \in BOOLEAN, activeModal' \in Handle,
         Enabling(Live, enabled', isModal', activeModal')
  PROVE  IInv'
<1>1. OneSlot' /\ Live' = Live
  BY SameTable DEF IInv
<1>2. TypeOK'
  BY DEF IInv, TypeOK, RestOK, SameHandles
<1>3. Enabling(Live, enabled, isModal, activeModal)'
  BY <1>1
<1> QED  BY <1>1, <1>2, <1>3 DEF IInv

\* A step that changes neither the table nor what is enabled.
LEMMA KeepWindows ==
  ASSUME IInv, RestOK', UNCHANGED <<defined, form, enabled, modal>>
  PROVE  IInv'
<1>1. SameHandles(form')
  BY DEF IInv, TypeOK, SameHandles
<1>2. /\ enabled' \subseteq Windows /\ isModal' \in BOOLEAN /\ activeModal' \in Handle
      /\ Enabling(Live, enabled', isModal', activeModal')
  BY DEF IInv, TypeOK, modal
<1> QED  BY <1>1, <1>2, KeepTable

LEMMA DefineInv ==
  ASSUME IInv, NEW w \in Windows, Define(w)
  PROVE  IInv'
<1>1. PICK i \in Slot :
        /\ form[i].h = NoWin
        /\ form' = [form EXCEPT ![i] = [h |-> w, active |-> FALSE, id |-> 0,
                      parent |-> IF w \in Modals THEN Main ELSE NoWin]]
  BY DEF Define, Holds
<1> DEFINE r == [h |-> w, active |-> FALSE, id |-> 0,
                 parent |-> IF w \in Modals THEN Main ELSE NoWin]
<1>2. r \in Form /\ r.h = w
  BY FormsAssumption DEF Form, Handle
<1> HIDE DEF r
<1>3. form' \in [Slot -> Form] /\ form'[i] = r /\ \A j \in Slot \ {i} : form'[j] = form[j]
  BY <1>1, <1>2 DEF r, IInv, TypeOK
<1>4. w \notin Live /\ w # NoWin /\ Live \subseteq defined
  BY FormsAssumption DEF Define, IInv, OneSlot
<1>5. Live' \subseteq Live \cup {w}
  BY <1>2, <1>3 DEF Live
<1>6. \A a, b \in Slot : form'[a].h = form'[b].h /\ form'[a].h # NoWin => a = b
  <2> SUFFICES ASSUME NEW a \in Slot, NEW b \in Slot,
                      form'[a].h = form'[b].h, form'[a].h # NoWin
               PROVE  a = b
    OBVIOUS
  <2>1. CASE a = i /\ b # i
    BY <1>2, <1>3, <1>4, <2>1 DEF Live
  <2>2. CASE a # i /\ b = i
    BY <1>2, <1>3, <1>4, <2>2 DEF Live
  <2>3. CASE a # i /\ b # i
    BY <1>3, <2>3 DEF IInv, OneSlot
  <2> QED  BY <2>1, <2>2, <2>3
<1>7. defined' = defined \cup {w} /\ enabled' = enabled \cup {w}
      /\ UNCHANGED <<visible, queue, modal, userWindow, mainActive, count, stack, halt>>
  BY DEF Define
<1>8. TypeOK'
  BY <1>3, <1>7 DEF IInv, TypeOK, queue, modal
<1>9. OneSlot'
  BY <1>4, <1>5, <1>6, <1>7 DEF OneSlot
<1>10. Enabling(Live, enabled, isModal, activeModal)'
  BY <1>5, <1>7 DEF IInv, Enabling, modal
<1> QED  BY <1>8, <1>9, <1>10 DEF IInv

LEMMA ActivateInv ==
  ASSUME IInv, NEW w \in Windows, NEW nowait \in BOOLEAN, Activate(w, nowait)
  PROVE  IInv'
<1> DEFINE s(i) == stack \o (IF nowait THEN <<>> ELSE <<Loop({w})>>) \o <<Activating(i, "flag")>>
<1>1. PICK i \in Slot : form' = ShownForm(w, i, form) /\ SetFocus(w, s(i))
  BY DEF Activate
<1>2. s(i) \in Seq(Frame)
  <2>1. Loop({w}) \in Frame /\ Activating(i, "flag") \in Frame
    BY Frames
  <2>2. stack \in Seq(Frame)
    BY Rest DEF RestOK
  <2> QED  BY <2>1, <2>2, ConcatProperties, EmptySeq
<1> HIDE DEF s
<1>3. stack' \in Seq(Frame) /\ userWindow' \in Handle
  BY <1>1, <1>2, SetFocusType DEF IInv
<1>4. SameHandles(form')
  BY <1>1, ShownFormSound DEF IInv
<1>5. ShowWindow(w) /\ UNCHANGED <<defined, queue, count, halt>> /\ mainActive' = TRUE
  BY DEF Activate
<1>6. /\ isModal' \in BOOLEAN /\ activeModal' \in Handle
      /\ enabled' \subseteq Windows /\ visible' \subseteq Windows
      /\ Enabling(Live, enabled', isModal', activeModal')
  BY <1>5, ShowWindowSound
<1>7. RestOK'
  BY <1>3, <1>5, <1>6, Rest DEF RestOK, queue
<1> QED  BY <1>4, <1>5, <1>6, <1>7, KeepTable

LEMMA ActivateMultiInv ==
  ASSUME IInv, NEW v \in Windows, NEW w \in Windows, ActivateMulti(v, w)
  PROVE  IInv'
<1>1. PICK id \in Ids :
        /\ count' = [count EXCEPT ![id] = 2]
        /\ stack' = Append(stack, Multi(<<v, w>>, id, {v, w}))
  BY DEF ActivateMulti
<1>2. Multi(<<v, w>>, id, {v, w}) \in Frame
  <2>1. <<v, w>> \in Seq(Windows)
    OBVIOUS
  <2> QED  BY <2>1, Frames
<1>3. stack' \in Seq(Frame)
  BY <1>1, <1>2, Rest, AppendProperties DEF RestOK
<1>4. count' \in [Ids -> Int]
  BY <1>1, Rest DEF RestOK
<1>5. UNCHANGED <<defined, form, desktop, queue, modal, userWindow, halt>> /\ mainActive' = TRUE
  BY DEF ActivateMulti
<1>6. RestOK'
  BY <1>3, <1>4, <1>5, Rest DEF RestOK, desktop, queue
<1>7. UNCHANGED <<defined, form, enabled, modal>>
  BY <1>5 DEF desktop
<1> QED  BY <1>6, <1>7, KeepWindows

\* A step that only pushes or pops frames.
LEMMA KeepAllButStack ==
  ASSUME IInv, stack' \in Seq(Frame), halt' \in {"no", "quit", "error"},
         UNCHANGED <<defined, form, desktop, queue, modal, userWindow, mainActive, count>>
  PROVE  IInv'
<1>1. RestOK'
  BY Rest DEF RestOK, desktop, queue
<1>2. UNCHANGED <<defined, form, enabled, modal>>
  BY DEF desktop
<1> QED  BY <1>1, <1>2, KeepWindows

LEMMA Pushed ==
  ASSUME IInv, NEW f \in Frame, stack' = Append(stack, f)
  PROVE  stack' \in Seq(Frame)
  BY Rest, AppendProperties DEF RestOK

LEMMA MessageLoopInv ==
  ASSUME IInv, MessageLoop
  PROVE  IInv'
<1>1. Loop({}) \in Frame
  BY Frames
<1>2. stack' \in Seq(Frame)
  BY <1>1, Pushed DEF MessageLoop
<1>3. halt' \in {"no", "quit", "error"}
  BY Rest DEF RestOK, MessageLoop
<1> QED  BY <1>2, <1>3, KeepAllButStack DEF MessageLoop

LEMMA DoEventsInv ==
  ASSUME IInv, DoEvents
  PROVE  IInv'
<1>2. stack' \in Seq(Frame)
  BY Frames, Pushed DEF DoEvents
<1>3. halt' \in {"no", "quit", "error"}
  BY Rest DEF RestOK, DoEvents
<1> QED  BY <1>2, <1>3, KeepAllButStack DEF DoEvents

LEMMA ReleaseInv ==
  ASSUME IInv, NEW w \in Windows, Release(w)
  PROVE  IInv'
<1>1. CASE w = Main
  <2>1. /\ stack' = Append(stack, All(0))
        /\ UNCHANGED <<form, enabled, posted>>
        /\ UNCHANGED <<defined, visible, quit, modal, userWindow, mainActive, count, halt>>
    BY <1>1 DEF Release
  <2>2. stack' \in Seq(Frame)
    BY <2>1, Frames, Pushed
  <2>3. RestOK'
    BY <2>1, <2>2, Rest DEF RestOK
  <2> QED  BY <2>1, <2>3, KeepWindows
<1>2. CASE w # Main
  <2> DEFINE moved == [j \in Slot |-> IF form[j].parent = w
                                      THEN [form[j] EXCEPT !.parent = Main] ELSE form[j]]
  <2>1. /\ form' = IF w \in Modals /\ activeModal # w THEN form ELSE moved
        /\ enabled' = enabled \cup {w}
        /\ posted' = Append(posted, w)
        /\ UNCHANGED stack
        /\ UNCHANGED <<defined, visible, quit, modal, userWindow, mainActive, count, halt>>
    BY <1>2 DEF Release
  <2>2. SameHandles(moved)
    <3>1. ASSUME NEW j \in Slot
          PROVE  moved[j] \in Form /\ moved[j].h = form[j].h
      <4>1. form[j] \in Form /\ Main \in Handle
        BY HoldsType, FormsAssumption DEF IInv, Handle
      <4> QED  BY <4>1 DEF Form
    <3> QED  BY <3>1 DEF SameHandles
  <2>3. SameHandles(form')
    BY <2>1, <2>2 DEF SameHandles, IInv, TypeOK
  <2>4. posted' \in Seq(Windows)
    BY <2>1, Rest, AppendProperties DEF RestOK
  <2>5. RestOK'
    BY <2>1, <2>4, Rest DEF RestOK
  <2>6. /\ enabled' \subseteq Windows /\ isModal' \in BOOLEAN /\ activeModal' \in Handle
        /\ Enabling(Live, enabled', isModal', activeModal')
    BY <2>1 DEF IInv, TypeOK, Enabling, modal
  <2> QED  BY <2>1, <2>3, <2>5, <2>6, KeepTable
<1> QED  BY <1>1, <1>2

LEMMA ShowInv ==
  ASSUME IInv, NEW w \in Windows, Show(w)
  PROVE  IInv'
<1> DEFINE s == Append(stack, Events)
<1>1. PICK i \in Slot : form' = ShownForm(w, i, form) /\ SetFocus(w, s)
  BY DEF Show
<1>2. s \in Seq(Frame)
  BY Frames, Rest, AppendProperties DEF RestOK
<1> HIDE DEF s
<1>3. stack' \in Seq(Frame) /\ userWindow' \in Handle
  BY <1>1, <1>2, SetFocusType DEF IInv
<1>4. SameHandles(form')
  BY <1>1, ShownFormSound DEF IInv
<1>5. ShowWindow(w) /\ UNCHANGED <<defined, queue, mainActive, count, halt>>
  BY DEF Show
<1>6. /\ isModal' \in BOOLEAN /\ activeModal' \in Handle
      /\ enabled' \subseteq Windows /\ visible' \subseteq Windows
      /\ Enabling(Live, enabled', isModal', activeModal')
  BY <1>5, ShowWindowSound
<1>7. RestOK'
  BY <1>3, <1>5, <1>6, Rest DEF RestOK, queue
<1> QED  BY <1>4, <1>5, <1>6, <1>7, KeepTable

\* Hiding, from a block or from the WM_CLOSE handler.
LEMMA HidingInv ==
  ASSUME IInv, NEW w, NEW i \in Slot, NEW s \in Seq(Frame), HideWindow(w, i, s),
         UNCHANGED <<defined, form, queue, mainActive, count>>
  PROVE  IInv'
<1>1. /\ stack' \in Seq(Frame) /\ userWindow' \in Handle
      /\ isModal' \in BOOLEAN /\ activeModal' \in Handle
      /\ enabled' \subseteq Windows /\ visible' \subseteq Windows
      /\ halt' \in {"no", "quit", "error"}
      /\ Enabling(Live, enabled', isModal', activeModal')
  BY HideWindowSound
<1>2. RestOK'
  BY <1>1, Rest DEF RestOK, queue
<1>3. SameHandles(form')
  BY DEF SameHandles, IInv, TypeOK
<1> QED  BY <1>1, <1>2, <1>3, KeepTable

LEMMA HideInv ==
  ASSUME IInv, NEW w \in Windows, Hide(w)
  PROVE  IInv'
<1>1. PICK i \in Slot : HideWindow(w, i, stack)
  BY DEF Hide
<1>2. stack \in Seq(Frame)
  BY Rest DEF RestOK
<1> QED  BY <1>1, <1>2, HidingInv DEF Hide

LEMMA ReturnInv ==
  ASSUME IInv, Return
  PROVE  IInv'
<1>1. stack \in Seq(Frame) /\ stack # <<>>
  BY Rest DEF RestOK, Return, OnTop
<1>2. Below \in Seq(Frame) /\ Len(stack) \in Nat
  BY <1>1, StackFacts
<1>3. Len(stack) > 2 => SubSeq(stack, 1, Len(stack) - 2) \in Seq(Frame)
  BY <1>1, <1>2, SubSeqProperties
<1>4. stack' \in Seq(Frame)
  BY <1>1, <1>2, <1>3 DEF Return
<1>5. halt' \in {"no", "quit", "error"}
  BY Rest DEF RestOK, Return
<1> QED  BY <1>4, <1>5, KeepAllButStack DEF Return

LEMMA DispatchInv ==
  ASSUME IInv, Dispatch
  PROVE  IInv'
<1>1. posted \in Seq(Windows) /\ posted # <<>>
  BY Rest DEF RestOK, Dispatch
<1>2. Head(posted) \in Windows /\ Tail(posted) \in Seq(Windows)
  BY <1>1, HeadTailProperties
<1>3. stack' \in Seq(Frame)
  <2>1. CASE \E i \in Slot : stack' = Append(stack, Closing(Head(posted), i, "ask"))
    BY <1>2, <2>1, Frames, Pushed
  <2>2. CASE UNCHANGED stack
    BY <2>2, Rest DEF RestOK
  <2> QED  BY <2>1, <2>2 DEF Dispatch
<1>4. /\ posted' = Tail(posted)
      /\ UNCHANGED <<defined, form, desktop, quit, modal, userWindow, mainActive, count, halt>>
  BY DEF Dispatch
<1>5. RestOK'
  BY <1>2, <1>3, <1>4, Rest DEF RestOK, desktop
<1> QED  BY <1>4, <1>5, KeepWindows DEF desktop

LEMMA QuitInv ==
  ASSUME IInv, Quit
  PROVE  IInv'
<1>1. stack \in Seq(Frame) /\ stack # <<>>
  BY Rest DEF RestOK, Quit, Pumping
<1>2. stack' \in Seq(Frame)
  BY <1>1, StackFacts DEF Quit
<1>3. /\ quit' = FALSE
      /\ UNCHANGED <<defined, form, desktop, posted, modal, userWindow, mainActive, count, halt>>
  BY DEF Quit
<1>4. RestOK'
  BY <1>2, <1>3, Rest DEF RestOK, desktop
<1> QED  BY <1>3, <1>4, KeepWindows DEF desktop

LEMMA UserFocusInv ==
  ASSUME IInv, NEW w \in Windows, UserFocus(w)
  PROVE  IInv'
<1>1. stack' \in Seq(Frame) /\ userWindow' \in Handle
  BY Rest, SetFocusType DEF RestOK, UserFocus, IInv
<1>2. UNCHANGED <<defined, form, desktop, queue, modal, mainActive, count, halt>>
  BY DEF UserFocus
<1>3. RestOK'
  BY <1>1, <1>2, Rest DEF RestOK, desktop, queue
<1> QED  BY <1>2, <1>3, KeepWindows DEF desktop

\* Replacing the frame on top by f, with or without a block over it.
LEMMA Replaced ==
  ASSUME IInv, stack # <<>>, NEW f \in Frame, NEW g \in Frame
  PROVE  /\ Append(Below, f) \in Seq(Frame)
         /\ Append(Below, f) \o <<g>> \in Seq(Frame)
         /\ Append(Below, f) \o <<>> \in Seq(Frame)
<1>1. Below \in Seq(Frame)
  BY Rest, StackFacts DEF RestOK
<1>2. Append(Below, f) \in Seq(Frame) /\ <<g>> \in Seq(Frame) /\ <<>> \in Seq(Frame)
  BY <1>1, AppendProperties
<1> QED  BY <1>2, ConcatProperties

LEMMA DrainedInv ==
  ASSUME IInv, Drained
  PROVE  IInv'
<1>1. stack \in Seq(Frame) /\ stack # <<>>
  BY Rest DEF RestOK, Drained, Idle, Pumping
<1>8. stack' \in Seq(Frame)
  BY <1>1, StackFacts DEF Drained
<1>9. halt' \in {"no", "quit", "error"}
  BY Rest DEF RestOK, Drained
<1> QED  BY <1>8, <1>9, KeepAllButStack DEF Drained

LEMMA UserCloseInv ==
  ASSUME IInv, NEW w \in Windows, UserClose(w)
  PROVE  IInv'
<1>8. stack' \in Seq(Frame)
  BY Frames, Pushed DEF UserClose
<1>9. halt' \in {"no", "quit", "error"}
  BY Rest DEF RestOK, UserClose
<1> QED  BY <1>8, <1>9, KeepAllButStack DEF UserClose

LEMMA KeyInv ==
  ASSUME IInv, Key
  PROVE  IInv'
<1>8. stack' \in Seq(Frame)
  BY Frames, Pushed DEF Key
<1>9. halt' \in {"no", "quit", "error"}
  BY Rest DEF RestOK, Key
<1> QED  BY <1>8, <1>9, KeepAllButStack DEF Key

LEMMA ControlEventInv ==
  ASSUME IInv, ControlEvent
  PROVE  IInv'
<1>1. PICK j \in DOMAIN stack : Innermost(j) /\ stack' = Append(stack, Block(stack[j].ev, 0))
  BY DEF ControlEvent
<1>2. stack[j].ev \in BlockEvents
  BY <1>1, Rest, InnermostEvent DEF RestOK
<1>3. Block(stack[j].ev, 0) \in Frame
  BY <1>2, Frames
<1>4. stack' \in Seq(Frame)
  BY <1>1, <1>3, Pushed
<1>5. halt' \in {"no", "quit", "error"}
  BY Rest DEF RestOK, ControlEvent
<1> QED  BY <1>4, <1>5, KeepAllButStack DEF ControlEvent

LEMMA CloseAskInv ==
  ASSUME IInv, CloseAsk
  PROVE  IInv'
<1>1. stack \in Seq(Frame) /\ stack # <<>> /\ Top.k = "closing"
  BY Rest DEF RestOK, CloseAsk, At, OnTop
<1>2. Top.w \in Windows /\ Top.i \in Slot /\ Below \in Seq(Frame)
      /\ \A pc \in {"ask", "asked", "released", "hidden"} : [Top EXCEPT !.pc = pc] \in Frame
  BY <1>1, TopFields, StackFacts
<1>3. Block("query", Top.i) \in Frame
  BY <1>2, Frames DEF BlockEvents
<1>8. stack' \in Seq(Frame)
  BY <1>1, <1>2, <1>3, Replaced DEF CloseAsk
<1>9. halt' \in {"no", "quit", "error"}
  BY Rest DEF RestOK, CloseAsk
<1> QED  BY <1>8, <1>9, KeepAllButStack DEF CloseAsk

LEMMA CloseGoneInv ==
  ASSUME IInv, CloseGone
  PROVE  IInv'
<1>1. stack \in Seq(Frame) /\ stack # <<>> /\ Top.k = "closing"
  BY Rest DEF RestOK, CloseGone, At, OnTop
<1>2. Top.w \in Windows /\ Top.i \in Slot /\ Below \in Seq(Frame)
      /\ \A pc \in {"ask", "asked", "released", "hidden"} : [Top EXCEPT !.pc = pc] \in Frame
  BY <1>1, TopFields, StackFacts
<1>8. stack' \in Seq(Frame)
  BY <1>2 DEF CloseGone
<1>9. halt' \in {"no", "quit", "error"}
  BY Rest DEF RestOK, CloseGone
<1> QED  BY <1>8, <1>9, KeepAllButStack DEF CloseGone

LEMMA CloseMainInv ==
  ASSUME IInv, CloseMain
  PROVE  IInv'
<1>1. stack \in Seq(Frame) /\ stack # <<>> /\ Top.k = "closing"
  BY Rest DEF RestOK, CloseMain, At, OnTop
<1>2. Top.w \in Windows /\ Top.i \in Slot /\ Below \in Seq(Frame)
      /\ \A pc \in {"ask", "asked", "released", "hidden"} : [Top EXCEPT !.pc = pc] \in Frame
  BY <1>1, TopFields, StackFacts
<1>3. Append(Below, All(0)) \in Seq(Frame)
  BY <1>1, Frames, Replaced
<1>8. stack' \in Seq(Frame)
  BY <1>1, <1>3 DEF CloseMain
<1>9. halt' \in {"no", "quit", "error"}
  BY Rest DEF RestOK, CloseMain
<1> QED  BY <1>8, <1>9, KeepAllButStack DEF CloseMain

LEMMA CloseReleasesInv ==
  ASSUME IInv, CloseReleases
  PROVE  IInv'
<1>1. stack \in Seq(Frame) /\ stack # <<>> /\ Top.k = "closing"
  BY Rest DEF RestOK, CloseReleases, At, OnTop
<1>2. Top.w \in Windows /\ Top.i \in Slot /\ Below \in Seq(Frame)
      /\ \A pc \in {"ask", "asked", "released", "hidden"} : [Top EXCEPT !.pc = pc] \in Frame
  BY <1>1, TopFields, StackFacts
<1>3. Block("release", Top.i) \in Frame
  BY <1>2, Frames DEF BlockEvents
<1>8. stack' \in Seq(Frame)
  BY <1>1, <1>2, <1>3, Replaced DEF CloseReleases
<1>9. halt' \in {"no", "quit", "error"}
  BY Rest DEF RestOK, CloseReleases
<1> QED  BY <1>8, <1>9, KeepAllButStack DEF CloseReleases

LEMMA CloseHidesInv ==
  ASSUME IInv, CloseHides
  PROVE  IInv'
<1>1. stack \in Seq(Frame) /\ stack # <<>> /\ Top.k = "closing"
  BY Rest DEF RestOK, CloseHides, At, OnTop
<1>2. Top.w \in Windows /\ Top.i \in Slot /\ Below \in Seq(Frame)
      /\ \A pc \in {"ask", "asked", "released", "hidden"} : [Top EXCEPT !.pc = pc] \in Frame
  BY <1>1, TopFields, StackFacts
<1> QED  BY <1>2, HidingInv DEF CloseHides

LEMMA CloseYieldsInv ==
  ASSUME IInv, CloseYields
  PROVE  IInv'
<1>1. stack \in Seq(Frame) /\ stack # <<>> /\ Top.k = "closing"
  BY Rest DEF RestOK, CloseYields, At, OnTop
<1>2. Top.w \in Windows /\ Top.i \in Slot /\ Below \in Seq(Frame)
      /\ \A pc \in {"ask", "asked", "released", "hidden"} : [Top EXCEPT !.pc = pc] \in Frame
  BY <1>1, TopFields, StackFacts
<1> DEFINE s == Append(Below, [Top EXCEPT !.pc = "hidden"])
<1>3. s \in Seq(Frame)
  BY <1>1, <1>2, Replaced
<1>4. OnHide(Top.i, s)
  BY DEF CloseYields
<1> HIDE DEF s
<1>5. /\ stack' \in Seq(Frame) /\ userWindow' \in Handle
      /\ isModal' \in BOOLEAN /\ activeModal' \in Handle /\ enabled' \subseteq Windows
      /\ Enabling(Live, enabled', isModal', activeModal')
  BY <1>2, <1>3, <1>4, OnHideSound
<1>6. UNCHANGED <<defined, form, visible, queue, mainActive, count, halt>>
  BY DEF CloseYields
<1>7. RestOK'
  BY <1>5, <1>6, Rest DEF RestOK, queue
<1>8. SameHandles(form')
  BY <1>6 DEF SameHandles, IInv, TypeOK
<1> QED  BY <1>5, <1>6, <1>7, <1>8, KeepTable

LEMMA DestroyInv ==
  ASSUME IInv, Destroy
  PROVE  IInv'
<1>1. stack \in Seq(Frame) /\ stack # <<>> /\ Top.k = "closing"
  BY Rest DEF RestOK, Destroy, At, OnTop
<1>2. Top.w \in Windows /\ Top.i \in Slot /\ Below \in Seq(Frame)
      /\ \A pc \in {"ask", "asked", "released", "hidden"} : [Top EXCEPT !.pc = pc] \in Frame
  BY <1>1, TopFields, StackFacts
<1> DEFINE w == Top.w
<1>3. stack' \in Seq(Frame)
  BY <1>2 DEF Destroy
<1>4. UNCHANGED <<defined, posted, modal, userWindow, mainActive, halt>>
  BY DEF Destroy
<1>5. CASE UNCHANGED <<form, desktop, quit, count>>
  <2>1. RestOK'
    BY <1>3, <1>4, <1>5, Rest DEF RestOK, desktop
  <2> QED  BY <1>4, <1>5, <2>1, KeepWindows DEF desktop
<1>6. ASSUME NEW i \in Slot, form[i].h = w,
             form' = [form EXCEPT ![i] = Blank],
             enabled' = enabled \ {w}, visible' = visible \ {w},
             quit' \in BOOLEAN, count' \in [Ids -> Int]
      PROVE  IInv'
  <2>1. form' \in [Slot -> Form] /\ form'[i].h = NoWin
        /\ \A j \in Slot \ {i} : form'[j] = form[j]
    BY <1>6 DEF IInv, TypeOK, Form, Blank, Handle
  <2>2. \A j \in Slot \ {i} : form[j].h # w
    BY <1>2, <1>6, FormsAssumption DEF IInv, OneSlot
  <2>3. Live' \subseteq Live \ {w}
    BY <2>1, <2>2 DEF Live
  <2>4. \A a, b \in Slot : form'[a].h = form'[b].h /\ form'[a].h # NoWin => a = b
    BY <2>1 DEF IInv, OneSlot
  <2>5. OneSlot'
    BY <1>4, <2>3, <2>4 DEF IInv, OneSlot
  <2>6. TypeOK'
    BY <1>3, <1>4, <1>6, <2>1 DEF IInv, TypeOK, modal
  <2>7. Enabling(Live, enabled, isModal, activeModal)'
    BY <1>4, <1>6, <2>3 DEF IInv, Enabling, modal
  <2> QED  BY <2>5, <2>6, <2>7 DEF IInv
<1>7. ASSUME NEW i \in Slot, form[i].h = w, CountedOff(form[i].id)
      PROVE  quit' \in BOOLEAN /\ count' \in [Ids -> Int]
  <2> DEFINE id == form[i].id
  <2>1. id \in Ids \cup {0} /\ count \in [Ids -> Int] /\ quit \in BOOLEAN
    BY HoldsType DEF IInv, TypeOK
  <2>2. CASE id = 0
    BY <1>7, <2>1, <2>2 DEF CountedOff
  <2>3. CASE id # 0
    <3>1. count' = [count EXCEPT ![id] = count[id] - 1] /\ quit' = (quit \/ count[id] = 1)
      BY <1>7, <2>3 DEF CountedOff
    <3> QED  BY <2>1, <2>3, <3>1
  <2> QED  BY <2>2, <2>3
<1> QED  BY <1>5, <1>6, <1>7 DEF Destroy, Holds

LEMMA ReleaseNextInv ==
  ASSUME IInv, ReleaseNext
  PROVE  IInv'
<1>1. stack \in Seq(Frame) /\ stack # <<>> /\ Top.k = "all"
  BY Rest DEF RestOK, ReleaseNext, OnTop
<1>2. Top.i \in Slot \cup {0}
  BY <1>1, TopFields
<1>3. stack' \in Seq(Frame)
  <2>1. CASE Top.i < Cardinality(Windows)
    <3> DEFINE i == Top.i + 1
    <3>1. i \in Slot
      BY <1>2, <2>1, SlotFacts DEF Slot
    <3>2. \/ stack' = Append(Below, All(i)) \o <<Block("release", i)>>
          \/ stack' = Append(Below, All(i)) \o <<>>
      BY <2>1, SlotFacts DEF ReleaseNext
    <3> HIDE DEF i
    <3>3. All(i) \in Frame /\ Block("release", i) \in Frame
      BY <3>1, Frames DEF BlockEvents
    <3> QED  BY <1>1, <3>2, <3>3, Replaced
  <2>2. CASE ~(Top.i < Cardinality(Windows))
    BY <1>1, <2>2 DEF ReleaseNext
  <2> QED  BY <2>1, <2>2
<1>4. halt' \in {"no", "quit", "error"}
  BY Rest DEF RestOK, ReleaseNext
<1> QED  BY <1>3, <1>4, KeepAllButStack DEF ReleaseNext

LEMMA SetActivationFlagInv ==
  ASSUME IInv, SetActivationFlag
  PROVE  IInv'
<1>1. stack \in Seq(Frame) /\ stack # <<>> /\ Top.k = "activating"
  BY Rest DEF RestOK, SetActivationFlag, At, OnTop
<1>2. Top.i \in Slot /\ Below \in Seq(Frame)
  BY <1>1, TopFields, StackFacts
<1>3. SameHandles(form')
  <2>1. form' = [form EXCEPT ![Top.i].active = TRUE]
    BY DEF SetActivationFlag
  <2> DEFINE i == Top.i
  <2> HIDE DEF i
  <2>2. form' = [form EXCEPT ![i].active = TRUE] /\ i \in Slot
    BY <1>2, <2>1 DEF i
  <2> QED  BY <2>2 DEF SameHandles, IInv, TypeOK, Form
<1>4. stack' \in Seq(Frame)
  <2>1. Activating(Top.i, "init") \in Frame /\ Inkey \in Frame /\ Events \in Frame
    BY <1>2, Frames
  <2>2. Append(Below, Activating(Top.i, "init")) \in Seq(Frame) /\ <<Inkey, Events>> \in Seq(Frame)
    BY <1>2, <2>1, AppendProperties
  <2>3. Append(Below, Activating(Top.i, "init")) \o <<Inkey, Events>> \in Seq(Frame)
    BY <2>2, ConcatProperties
  <2> QED  BY <1>2, <2>3 DEF SetActivationFlag
<1>5. UNCHANGED <<defined, desktop, queue, modal, userWindow, mainActive, count, halt>>
  BY DEF SetActivationFlag
<1>6. RestOK'
  BY <1>4, <1>5, Rest DEF RestOK, desktop, queue
<1>7. /\ enabled' \subseteq Windows /\ isModal' \in BOOLEAN /\ activeModal' \in Handle
      /\ Enabling(Live, enabled', isModal', activeModal')
  BY <1>5 DEF IInv, TypeOK, modal, desktop
<1> QED  BY <1>3, <1>5, <1>6, <1>7, KeepTable

LEMMA InitProcedureInv ==
  ASSUME IInv, InitProcedure
  PROVE  IInv'
<1>1. stack \in Seq(Frame) /\ stack # <<>> /\ Top.k = "activating"
  BY Rest DEF RestOK, InitProcedure, At, OnTop
<1>2. Top.i \in Slot /\ Below \in Seq(Frame)
  BY <1>1, TopFields, StackFacts
<1>3. Block("init", Top.i) \in Frame
  BY <1>2, Frames DEF BlockEvents
<1>4. stack' \in Seq(Frame)
  BY <1>2, <1>3, AppendProperties DEF InitProcedure
<1>5. halt' \in {"no", "quit", "error"}
  BY Rest DEF RestOK, InitProcedure
<1> QED  BY <1>4, <1>5, KeepAllButStack DEF InitProcedure

LEMMA ActivateNextInv ==
  ASSUME IInv, ActivateNext
  PROVE  IInv'
<1> DEFINE w == Head(Top.rest)
           s(i) == Append(Below, Multi(Tail(Top.rest), Top.id, Top.wins)) \o <<Activating(i, "flag")>>
<1>1. stack \in Seq(Frame) /\ stack # <<>> /\ Top.k = "multi" /\ Top.rest # <<>>
  BY Rest DEF RestOK, ActivateNext, OnTop
<1>2. Top.rest \in Seq(Windows) /\ Top.id \in Ids /\ Top.wins \in SUBSET Windows
  BY <1>1, TopFields
<1>3. w \in Windows /\ Tail(Top.rest) \in Seq(Windows)
  BY <1>1, <1>2, HeadTailProperties
<1>4. ASSUME NEW i \in Slot
      PROVE  s(i) \in Seq(Frame)
  <2>1. Multi(Tail(Top.rest), Top.id, Top.wins) \in Frame /\ Activating(i, "flag") \in Frame
    BY <1>2, <1>3, Frames
  <2> QED  BY <1>1, <2>1, Replaced
<1>5. \/ \E i \in Slot :
           /\ form' = [form EXCEPT ![i].id = Top.id]
           /\ visible' = visible \cup {w}
           /\ SetFocus(w, s(i))
           /\ UNCHANGED halt
      \/ halt' = "error" /\ UNCHANGED <<form, visible, userWindow, stack>>
  BY DEF ActivateNext
<1>6. UNCHANGED <<defined, enabled, queue, modal, mainActive, count>>
  BY DEF ActivateNext
<1> DEFINE t == Top.id
<1>7. t \in Ids \cup {0}
  BY <1>2
<1> HIDE DEF w, s, t
<1>8. SameHandles(form') /\ RestOK'
  <2>1. ASSUME NEW i \in Slot,
               form' = [form EXCEPT ![i].id = t], visible' = visible \cup {w},
               SetFocus(w, s(i)), UNCHANGED halt
        PROVE  SameHandles(form') /\ RestOK'
    <3>1. SameHandles(form')
      BY <1>7, <2>1 DEF SameHandles, IInv, TypeOK, Form
    <3>2. stack' \in Seq(Frame) /\ userWindow' \in Handle
      BY <1>3, <1>4, <2>1, SetFocusType DEF IInv
    <3>3. RestOK'
      BY <1>3, <1>6, <2>1, <3>2, Rest DEF RestOK, queue
    <3> QED  BY <3>1, <3>3
  <2>2. CASE halt' = "error" /\ UNCHANGED <<form, visible, userWindow, stack>>
    <3>1. SameHandles(form')
      BY <2>2 DEF SameHandles, IInv, TypeOK
    <3>2. RestOK'
      BY <1>6, <2>2, Rest DEF RestOK, queue
    <3> QED  BY <3>1, <3>2
  <2> QED  BY <1>5, <2>1, <2>2 DEF t
<1>9. /\ enabled' \subseteq Windows /\ isModal' \in BOOLEAN /\ activeModal' \in Handle
      /\ Enabling(Live, enabled', isModal', activeModal')
  BY <1>6 DEF IInv, TypeOK, modal
<1> QED  BY <1>6, <1>8, <1>9, KeepTable

LEMMA ActivateLoopInv ==
  ASSUME IInv, ActivateLoop
  PROVE  IInv'
<1> DEFINE s == Append(Below, Loop(Top.wins)) \o <<Events>>
<1>1. stack \in Seq(Frame) /\ stack # <<>> /\ Top.k = "multi"
  BY Rest DEF RestOK, ActivateLoop, OnTop
<1>2. Top.wins \in SUBSET Windows
  BY <1>1, TopFields
<1>3. Loop(Top.wins) \in Frame /\ Events \in Frame
  BY <1>2, Frames
<1>4. s \in Seq(Frame) /\ Append(Below, Loop(Top.wins)) \in Seq(Frame)
  BY <1>1, <1>3, Replaced
<1>5. UNCHANGED <<defined, queue, mainActive, count>>
  BY DEF ActivateLoop
<1>6. \/ \E w \in Windows, i \in Slot :
           /\ form' = ShownForm(w, i, form)
           /\ SetFocus(w, s)
           /\ ShowWindow(w)
           /\ UNCHANGED halt
      \/ halt' = "error" /\ UNCHANGED <<form, desktop, modal, userWindow, stack>>
      \/ /\ stack' = Append(Below, Loop(Top.wins))
         /\ UNCHANGED <<form, desktop, modal, userWindow, halt>>
  BY <1>2 DEF ActivateLoop
<1> HIDE DEF s
<1>7. ASSUME NEW w \in Windows, NEW i \in Slot,
             form' = ShownForm(w, i, form), SetFocus(w, s), ShowWindow(w), UNCHANGED halt
      PROVE  IInv'
  <2>1. SameHandles(form')
    BY <1>7, ShownFormSound DEF IInv
  <2>2. stack' \in Seq(Frame) /\ userWindow' \in Handle
    BY <1>4, <1>7, SetFocusType DEF IInv
  <2>3. /\ isModal' \in BOOLEAN /\ activeModal' \in Handle
        /\ enabled' \subseteq Windows /\ visible' \subseteq Windows
        /\ Enabling(Live, enabled', isModal', activeModal')
    BY <1>7, ShowWindowSound
  <2>4. RestOK'
    BY <1>5, <1>7, <2>2, <2>3, Rest DEF RestOK, queue
  <2> QED  BY <1>5, <2>1, <2>3, <2>4, KeepTable
<1>8. CASE halt' = "error" /\ UNCHANGED <<form, desktop, modal, userWindow, stack>>
  <2>1. RestOK'
    BY <1>5, <1>8, Rest DEF RestOK, queue, desktop
  <2> QED  BY <1>5, <1>8, <2>1, KeepWindows DEF desktop
<1>9. CASE /\ stack' = Append(Below, Loop(Top.wins))
           /\ UNCHANGED <<form, desktop, modal, userWindow, halt>>
  <2>1. RestOK'
    BY <1>4, <1>5, <1>9, Rest DEF RestOK, queue, desktop
  <2> QED  BY <1>5, <1>9, <2>1, KeepWindows DEF desktop
<1> QED  BY <1>6, <1>7, <1>8, <1>9

-----------------------------------------------------------------------------
(* The invariant of the specification.                                     *)

LEMMA InitIInv == Init => IInv
<1> SUFFICES ASSUME Init PROVE IInv
  OBVIOUS
<1>1. form \in [Slot -> Form] /\ Live = {}
  BY DEF Init, Blank, Form, Handle, Live
<1>2. Block("", 0) \in Frame
  BY Frames DEF BlockEvents
<1> DEFINE f == Block("", 0)
<1>3. stack \in Seq(Frame)
  <2>1. stack = <<f>>
    BY DEF Init
  <2> HIDE DEF f
  <2>2. f \in Frame
    BY <1>2 DEF f
  <2> QED  BY <2>1, <2>2
<1>4. <<>> \in Seq(Windows) /\ [id \in Ids |-> 0] \in [Ids -> Int]
  OBVIOUS
<1>5. TypeOK
  BY <1>1, <1>3, <1>4 DEF Init, TypeOK, Handle
<1>6. OneSlot
  BY <1>1 DEF OneSlot, Init, Blank
<1> QED  BY <1>1, <1>5, <1>6 DEF IInv, Init, Enabling

LEMMA CallInv == IInv /\ Call => IInv'
  BY DefineInv, ReleaseInv, ShowInv, HideInv, ActivateInv, ActivateMultiInv,
     MessageLoopInv, DoEventsInv DEF Call

LEMMA HandlerInv == IInv /\ Handler => IInv'
  BY CloseAskInv, CloseGoneInv, CloseHidesInv, CloseMainInv, CloseReleasesInv,
     CloseYieldsInv, DestroyInv, ReleaseNextInv, SetActivationFlagInv,
     InitProcedureInv, ActivateNextInv, ActivateLoopInv DEF Handler

LEMMA InputInv == IInv /\ Input => IInv'
  BY UserCloseInv, UserFocusInv, ControlEventInv, KeyInv DEF Input

LEMMA NextIInv == IInv /\ [Next]_vars => IInv'
<1> SUFFICES ASSUME IInv, [Next]_vars PROVE IInv'
  OBVIOUS
<1>1. CASE Next
  BY <1>1, CallInv, HandlerInv, InputInv, ReturnInv, DispatchInv, QuitInv, DrainedInv
     DEF Next, System
<1>2. CASE UNCHANGED vars
  BY <1>2, Rest, KeepAllButStack DEF vars, RestOK
<1> QED  BY <1>1, <1>2

THEOREM Invariance == Spec => []IInv
<1>1. Init => IInv
  BY InitIInv
<1>2. IInv /\ [Next]_vars => IInv'
  BY NextIInv
<1> QED  BY <1>1, <1>2, PTL DEF Spec

\* Every reachable state has the types the code relies on: whatever the blocks
\* do, no handler leaves an index outside the arrays or a frame ill-formed.
THEOREM TypeCorrect == Spec => []TypeOK
<1>1. IInv => TypeOK
  BY DEF IInv
<1> QED  BY <1>1, Invariance, PTL

\* Without an active modal window no window stays disabled, for any nesting of
\* blocks and any order of closing (_hmg_OnHideFocusManagement).
THEOREM NoneLeftDisabled == Spec => []NoModalNoneDisabled
<1>1. IInv => NoModalNoneDisabled
  BY DEF IInv, Enabling, NoModalNoneDisabled
<1> QED  BY <1>1, Invariance, PTL

\* The window that disabled the others is itself enabled while it exists.
THEOREM ModalIsUsable == Spec => []ActiveModalUsable
<1>1. IInv => ActiveModalUsable
  BY DEF IInv, Enabling, ActiveModalUsable
<1> QED  BY <1>1, Invariance, PTL

-----------------------------------------------------------------------------
(* The counters of ACTIVATE WINDOW with a list (_HMG_ACTIVATE_<id>) are    *)
(* exact as long as no window has an ON GOTFOCUS block.  The counter, the  *)
(* activation ids in the table and the lists in progress on the stack      *)
(* change in different actions; what ties them is that a slot with an id   *)
(* belongs to an active window, that a deleted slot has none, that a list  *)
(* has at most two windows left and that a block which may drop two frames *)
(* has its WM_CLOSE handler below.                                         *)

\* A window of a list is active, or is the one being activated.
Listed == \A i \in Slot : form[i].id # 0 => form[i].active \/ (At("activating", "flag") /\ Top.i = i)

\* An ON INTERACTIVECLOSE block of a window.
Query(f) == f.k = "block" /\ f.ev = "query" /\ f.this # 0
Queried  == \A j \in DOMAIN stack : Query(stack[j]) => j > 1 /\ stack[j-1].k = "closing"

ShortLists == \A j \in DOMAIN stack : stack[j].k = "multi" => Len(stack[j].rest) <= 2

Deleted == \A i \in Slot : form[i].h = NoWin => form[i].id = 0

Counting == CountsWindows /\ Listed /\ Queried /\ ShortLists /\ Deleted

-----------------------------------------------------------------------------
(* The lists of a stack.                                                   *)

\* The windows the lists of activation id on s have not reached.
Pending(s, id) == {q \in (DOMAIN s) \X (1 .. 2) :
                     /\ s[q[1]].k = "multi" /\ s[q[1]].id = id
                     /\ q[2] <= Len(s[q[1]].rest)}

\* No window is left in the frame.
NoList(f) == f.k = "multi" => f.rest = <<>>

\* t is s with other frames above the n-th, in which no list has windows left
\* and every ON INTERACTIVECLOSE block has its handler below.
Edited(s, t, n) ==
  /\ n \in 0 .. Len(s) /\ n <= Len(t)
  /\ \A j \in 1 .. n : t[j] = s[j]
  /\ \A j \in n+1 .. Len(s) : NoList(s[j])
  /\ \A j \in n+1 .. Len(t) : /\ t[j].k # "multi"
                              /\ Query(t[j]) => j > 1 /\ t[j-1].k = "closing"

LEMMA PendingFinite ==
  ASSUME NEW s \in Seq(Frame), NEW id
  PROVE  IsFiniteSet(Pending(s, id))
<1>0. Len(s) \in Nat
  BY LenProperties
<1>1. IsFiniteSet(1 .. Len(s)) /\ IsFiniteSet(1 .. 2)
  <2>1. \A n \in Nat : IsFiniteSet(1 .. n)
    BY FS_Interval
  <2> QED  BY <1>0, <2>1
<1>2. IsFiniteSet((1 .. Len(s)) \X (1 .. 2))
  BY <1>1, FS_Product
<1>3. Pending(s, id) \subseteq (1 .. Len(s)) \X (1 .. 2)
  BY LenProperties DEF Pending
<1> QED  BY <1>2, <1>3, FS_Subset

LEMMA SamePending ==
  ASSUME NEW s \in Seq(Frame), NEW t \in Seq(Frame), NEW n, Edited(s, t, n), NEW id
  PROVE  Pending(t, id) = Pending(s, id)
<1>0. DOMAIN s = 1 .. Len(s) /\ DOMAIN t = 1 .. Len(t) /\ Len(s) \in Nat /\ Len(t) \in Nat
      /\ n \in Nat
  BY LenProperties DEF Edited
<1>1. ASSUME NEW q \in Pending(s, id)
      PROVE  q \in Pending(t, id)
  <2>1. q[1] \in 1 .. Len(s) /\ q[2] \in 1 .. 2 /\ q \in (DOMAIN s) \X (1 .. 2)
        /\ s[q[1]].k = "multi" /\ s[q[1]].id = id /\ q[2] <= Len(s[q[1]].rest)
    BY <1>0 DEF Pending
  <2>2. s[q[1]].rest # <<>>
    BY <2>1
  <2>3. q[1] \in 1 .. n
    BY <1>0, <2>1, <2>2 DEF Edited, NoList
  <2>4. q[1] \in DOMAIN t /\ t[q[1]] = s[q[1]]
    BY <1>0, <2>3 DEF Edited
  <2>5. q \in (DOMAIN t) \X (1 .. 2)
    BY <2>1, <2>4
  <2> QED  BY <2>1, <2>4, <2>5 DEF Pending
<1>2. ASSUME NEW q \in Pending(t, id)
      PROVE  q \in Pending(s, id)
  <2>1. q[1] \in 1 .. Len(t) /\ q[2] \in 1 .. 2 /\ q \in (DOMAIN t) \X (1 .. 2)
        /\ t[q[1]].k = "multi" /\ t[q[1]].id = id /\ q[2] <= Len(t[q[1]].rest)
    BY <1>0 DEF Pending
  <2>3. q[1] \in 1 .. n
    BY <1>0, <2>1 DEF Edited
  <2>4. q[1] \in DOMAIN s /\ t[q[1]] = s[q[1]]
    BY <1>0, <2>3 DEF Edited
  <2>5. q \in (DOMAIN s) \X (1 .. 2)
    BY <2>1, <2>4
  <2> QED  BY <2>1, <2>4, <2>5 DEF Pending
<1> QED  BY <1>1, <1>2

LEMMA OwnersFinite ==
  ASSUME NEW id
  PROVE  IsFiniteSet(Owners(id)) /\ Owners(id) \subseteq Slot
<1>1. IsFiniteSet(Slot)
  BY SlotFacts, FS_Interval DEF Slot
<1>2. Owners(id) \subseteq Slot
  BY DEF Owners
<1> QED  BY <1>1, <1>2, FS_Subset

\* What the counters count, in the operators above.
LEMMA WaitingPending ==
  ASSUME NEW id
  PROVE  Waiting(id) = Pending(stack, id) /\ Waiting(id)' = Pending(stack', id)
  BY DEF Waiting, Pending

-----------------------------------------------------------------------------
(* Steps that leave lists, ids and counters alone.                         *)

\* The parts of the table the counters rest on.
SameIds(f) == \A i \in Slot : f[i].h = form[i].h /\ f[i].id = form[i].id /\ f[i].active = form[i].active

\* Every window of a list is active: no activation is at its flag.
AllListed == \A i \in Slot : form[i].id # 0 => form[i].active

LEMMA NotAtFlag ==
  ASSUME Listed, ~At("activating", "flag")
  PROVE  AllListed
  BY DEF Listed, AllListed

LEMMA Edits ==
  ASSUME stack \in Seq(Frame), stack' \in Seq(Frame), Queried, ShortLists,
         NEW n, Edited(stack, stack', n)
  PROVE  Queried' /\ ShortLists' /\ \A id \in Ids : Pending(stack', id) = Pending(stack, id)
<1>0. DOMAIN stack = 1 .. Len(stack) /\ DOMAIN stack' = 1 .. Len(stack')
      /\ Len(stack) \in Nat /\ Len(stack') \in Nat /\ n \in Nat /\ n <= Len(stack)
  BY LenProperties DEF Edited
<1>1. ASSUME NEW j \in DOMAIN stack', Query(stack'[j])
      PROVE  j > 1 /\ stack'[j-1].k = "closing"
  <2>1. CASE j <= n
    <3>1. j \in DOMAIN stack /\ stack'[j] = stack[j]
      BY <1>0, <2>1 DEF Edited
    <3>2. j > 1 /\ stack[j-1].k = "closing"
      BY <1>1, <3>1 DEF Queried
    <3>3. stack'[j-1] = stack[j-1]
      BY <1>0, <2>1, <3>2 DEF Edited
    <3> QED  BY <3>2, <3>3
  <2>2. CASE ~(j <= n)
    <3>1. j \in n+1 .. Len(stack')
      BY <1>0, <2>2
    <3> QED  BY <1>1, <3>1 DEF Edited
  <2> QED  BY <2>1, <2>2
<1>2. ASSUME NEW j \in DOMAIN stack', stack'[j].k = "multi"
      PROVE  Len(stack'[j].rest) <= 2
  <2>1. CASE j <= n
    <3>1. j \in DOMAIN stack /\ stack'[j] = stack[j]
      BY <1>0, <2>1 DEF Edited
    <3> QED  BY <1>2, <3>1 DEF ShortLists
  <2>2. CASE ~(j <= n)
    <3>1. j \in n+1 .. Len(stack')
      BY <1>0, <2>2
    <3> QED  BY <1>2, <3>1 DEF Edited
  <2> QED  BY <2>1, <2>2
<1>3. \A id \in Ids : Pending(stack', id) = Pending(stack, id)
  BY SamePending
<1> QED  BY <1>1, <1>2, <1>3 DEF Queried, ShortLists

LEMMA SameOwners ==
  ASSUME SameIds(form'), NEW id
  PROVE  Owners(id)' = Owners(id)
  BY DEF SameIds, Owners

\* The common case: no activation at its flag, the stack edited.
LEMMA SameLists ==
  ASSUME Counting, ~At("activating", "flag"), SameIds(form'), UNCHANGED count,
         stack \in Seq(Frame), stack' \in Seq(Frame), NEW n, Edited(stack, stack', n)
  PROVE  Counting'
<1>1. Queried' /\ ShortLists' /\ \A id \in Ids : Pending(stack', id) = Pending(stack, id)
  BY Edits DEF Counting
<1>2. \A id \in Ids : Owners(id)' = Owners(id)
  BY SameOwners
<1>3. CountsWindows'
  <2>1. \A id \in Ids : Waiting(id)' = Waiting(id)
    BY <1>1, WaitingPending
  <2> QED  BY <1>2, <2>1 DEF Counting, CountsWindows
<1>4. AllListed
  BY NotAtFlag DEF Counting
<1>5. Listed' /\ Deleted'
  BY <1>4 DEF Listed, AllListed, Deleted, SameIds, Counting
<1> QED  BY <1>1, <1>3, <1>5 DEF Counting

(* The edits.                                                              *)

\* A frame that may be pushed anywhere.
Plain(f) == f.k # "multi" /\ ~Query(f)

LEMMA EditSame ==
  ASSUME NEW s \in Seq(Frame)
  PROVE  Edited(s, s, Len(s))
  BY LenProperties DEF Edited

LEMMA EditPush ==
  ASSUME NEW s \in Seq(Frame), NEW f \in Frame, Plain(f)
  PROVE  Edited(s, Append(s, f), Len(s))
<1>1. Len(s) \in Nat /\ Len(Append(s, f)) = Len(s) + 1
      /\ \A j \in 1 .. Len(s) : Append(s, f)[j] = s[j]
      /\ Append(s, f)[Len(s) + 1] = f
  BY AppendProperties, LenProperties
<1> QED  BY <1>1 DEF Edited, Plain

LEMMA EditPushTwo ==
  ASSUME NEW s \in Seq(Frame), NEW f \in Frame, NEW g \in Frame, Plain(f),
         g.k # "multi", Query(g) => f.k = "closing"
  PROVE  Edited(s, Append(Append(s, f), g), Len(s))
<1> DEFINE t == Append(s, f)
           u == Append(t, g)
<1>1. Len(s) \in Nat /\ Len(t) = Len(s) + 1 /\ t \in Seq(Frame)
      /\ (\A j \in 1 .. Len(s) : t[j] = s[j])
      /\ t[Len(s) + 1] = f
  BY AppendProperties, LenProperties
<1> HIDE DEF t
<1>2. Len(u) = Len(s) + 2
      /\ (\A j \in 1 .. Len(s) + 1 : u[j] = t[j])
      /\ u[Len(s) + 2] = g
  BY <1>1, AppendProperties
<1> HIDE DEF u
<1>3. u[Len(s) + 1] = f /\ \A j \in 1 .. Len(s) : u[j] = s[j]
  BY <1>1, <1>2
<1>4. ASSUME NEW j \in Len(s) + 1 .. Len(u)
      PROVE  u[j].k # "multi" /\ (Query(u[j]) => j > 1 /\ u[j-1].k = "closing")
  <2>1. j = Len(s) + 1 \/ j = Len(s) + 2
    BY <1>1, <1>2
  <2>2. CASE j = Len(s) + 1
    BY <1>3, <2>2 DEF Plain
  <2>3. CASE j = Len(s) + 2
    <3>1. j > 1 /\ j - 1 = Len(s) + 1
      BY <1>1, <2>3
    <3> QED  BY <1>2, <1>3, <2>3, <3>1
  <2> QED  BY <2>1, <2>2, <2>3
<1>5. Edited(s, u, Len(s))
  BY <1>1, <1>2, <1>3, <1>4 DEF Edited
<1> QED  BY <1>5 DEF t, u

LEMMA ConcatOne ==
  ASSUME NEW s \in Seq(Frame), NEW f \in Frame
  PROVE  s \o <<f>> = Append(s, f) /\ s \o <<>> = s
  BY AppendProperties, ConcatProperties

\* Edits of a stack without its last frame are edits of the stack.
LEMMA EditBelow ==
  ASSUME stack \in Seq(Frame), stack # <<>>, NoList(Top), NEW t,
         Edited(Below, t, Len(Below))
  PROVE  Edited(stack, t, Len(stack) - 1)
<1>1. Len(stack) \in Nat \ {0} /\ Len(Below) = Len(stack) - 1
      /\ \A j \in 1 .. Len(stack) - 1 : Below[j] = stack[j]
  <2>1. Len(stack) \in Nat \ {0}
    BY StackFacts
  <2>2. Len(stack) - 1 \in 0 .. Len(stack)
    BY <2>1
  <2> QED  BY <2>1, <2>2, Prefix DEF Below
<1>2. \A j \in Len(stack) .. Len(stack) : NoList(stack[j])
  BY <1>1 DEF Top
<1>3. /\ \A j \in 1 .. Len(stack) - 1 : t[j] = stack[j]
      /\ \A j \in Len(stack) .. Len(t) : /\ t[j].k # "multi"
                                         /\ Query(t[j]) => j > 1 /\ t[j-1].k = "closing"
      /\ Len(stack) - 1 <= Len(t)
  BY <1>1 DEF Edited
<1> QED  BY <1>1, <1>2, <1>3 DEF Edited

(* SameLists steps by what they do to the stack.                                *)

\* A step with no activation at its flag.
Unflagged ==
  /\ IInv /\ IInv' /\ Counting
  /\ stack # <<>> /\ ~At("activating", "flag")

LEMMA UnflaggedFacts ==
  ASSUME Unflagged
  PROVE  /\ stack \in Seq(Frame) /\ stack' \in Seq(Frame) /\ Counting
         /\ Len(stack) \in Nat \ {0} /\ Below \in Seq(Frame)
         /\ ~At("activating", "flag")
<1>1. stack \in Seq(Frame) /\ stack' \in Seq(Frame) /\ stack # <<>>
  BY DEF Unflagged, IInv, TypeOK
<1> QED  BY <1>1, StackFacts DEF Unflagged

LEMMA CalmSame ==
  ASSUME Unflagged, SameIds(form'), UNCHANGED <<count, stack>>
  PROVE  Counting'
<1>1. Edited(stack, stack', Len(stack))
  BY UnflaggedFacts, EditSame
<1> QED  BY <1>1, UnflaggedFacts, SameLists

LEMMA CalmPush ==
  ASSUME Unflagged, SameIds(form'), UNCHANGED count, NEW f \in Frame, Plain(f),
         stack' = Append(stack, f)
  PROVE  Counting'
<1>1. Edited(stack, stack', Len(stack))
  BY UnflaggedFacts, EditPush
<1> QED  BY <1>1, UnflaggedFacts, SameLists

LEMMA CalmPushTwo ==
  ASSUME Unflagged, SameIds(form'), UNCHANGED count, NEW f \in Frame, NEW g \in Frame,
         Plain(f), Plain(g), stack' = Append(Append(stack, f), g)
  PROVE  Counting'
<1>1. Edited(stack, stack', Len(stack))
  BY UnflaggedFacts, EditPushTwo DEF Plain
<1> QED  BY <1>1, UnflaggedFacts, SameLists

LEMMA CalmPop ==
  ASSUME Unflagged, SameIds(form'), UNCHANGED count, Top.k # "multi", stack' = Below
  PROVE  Counting'
<1>1. Edited(Below, Below, Len(Below)) /\ NoList(Top)
  BY UnflaggedFacts, EditSame DEF NoList
<1>2. Edited(stack, stack', Len(stack) - 1)
  BY <1>1, UnflaggedFacts, EditBelow DEF Unflagged
<1> QED  BY <1>2, UnflaggedFacts, SameLists

LEMMA CalmReplace ==
  ASSUME Unflagged, SameIds(form'), UNCHANGED count, NoList(Top), NEW f \in Frame, Plain(f),
         stack' = Append(Below, f)
  PROVE  Counting'
<1>1. Edited(Below, stack', Len(Below))
  BY UnflaggedFacts, EditPush
<1>2. Edited(stack, stack', Len(stack) - 1)
  BY <1>1, UnflaggedFacts, EditBelow DEF Unflagged
<1> QED  BY <1>2, UnflaggedFacts, SameLists

LEMMA CalmReplaceTwo ==
  ASSUME Unflagged, SameIds(form'), UNCHANGED count, NoList(Top),
         NEW f \in Frame, NEW g \in Frame, Plain(f), g.k # "multi", Query(g) => f.k = "closing",
         stack' = Append(Append(Below, f), g)
  PROVE  Counting'
<1>1. Edited(Below, stack', Len(Below))
  BY UnflaggedFacts, EditPushTwo
<1>2. Edited(stack, stack', Len(stack) - 1)
  BY <1>1, UnflaggedFacts, EditBelow DEF Unflagged
<1> QED  BY <1>2, UnflaggedFacts, SameLists

LEMMA PlainFrames ==
  /\ \A wins : Plain(Loop(wins))
  /\ Plain(Events) /\ Plain(Inkey)
  /\ \A i, pc : Plain(Activating(i, pc))
  /\ \A w, i, pc : Plain(Closing(w, i, pc))
  /\ \A i : Plain(All(i))
  /\ \A ev : Plain(Block(ev, 0))
  /\ \A i : Plain(Block("gotfocus", i)) /\ Plain(Block("release", i)) /\ Plain(Block("init", i))
  BY DEF Plain, Query, Loop, Events, Inkey, Activating, Closing, All, Block

LEMMA UnchangedIds ==
  ASSUME UNCHANGED form
  PROVE  SameIds(form')
  BY DEF SameIds

-----------------------------------------------------------------------------
(* Without ON GOTFOCUS the focus changes run nothing.                      *)

LEMMA QuietFocus ==
  ASSUME HasGotFocus = {}, NEW w, NEW s, SetFocus(w, s)
  PROVE  stack' = s
  BY DEF SetFocus

LEMMA QuietOnHide ==
  ASSUME HasGotFocus = {}, NEW i, NEW s, OnHide(i, s)
  PROVE  stack' = s
<1>1. ASSUME PassFocus(i, s)
      PROVE  stack' = s
  BY <1>1, QuietFocus DEF PassFocus
<1> QED  BY <1>1, QuietFocus DEF OnHide, OnHideNonModal, OnHideModalParent, OnHideOtherParent

LEMMA QuietHide ==
  ASSUME HasGotFocus = {}, NEW w, NEW i, NEW s, HideWindow(w, i, s)
  PROVE  stack' \in {s, stack}
  BY QuietOnHide DEF HideWindow

LEMMA ShownIds ==
  ASSUME TypeOK, NEW w \in Windows, NEW i \in Slot
  PROVE  SameIds(ShownForm(w, i, form))
<1>1. CASE w \in Modals
  <2> DEFINE p == ModalParent
  <2> HIDE DEF p
  <2> DEFINE g == [form EXCEPT ![i].parent = p]
  <2>1. form \in [Slot -> Form]
    BY DEF TypeOK
  <2>2. SameIds(g)
    BY <2>1 DEF SameIds, Form
  <2>3. ShownForm(w, i, form) = g
    BY <1>1 DEF ShownForm, p
  <2> QED  BY <2>2, <2>3
<1>2. CASE w \notin Modals
  BY <1>2 DEF ShownForm, SameIds
<1> QED  BY <1>1, <1>2

-----------------------------------------------------------------------------
(* The calls of a block.                                                   *)

Counted == IInv /\ IInv' /\ Counting

LEMMA DefineCounts ==
  ASSUME Counted, NEW w \in Windows, Define(w)
  PROVE  Counting'
<1>1. PICK i \in Slot :
        /\ form[i].h = NoWin
        /\ form' = [form EXCEPT ![i] = [h |-> w, active |-> FALSE, id |-> 0,
                      parent |-> IF w \in Modals THEN Main ELSE NoWin]]
  BY DEF Define, Holds
<1> DEFINE r == [h |-> w, active |-> FALSE, id |-> 0,
                 parent |-> IF w \in Modals THEN Main ELSE NoWin]
<1>2. r.id = 0 /\ r.h = w /\ w # NoWin
  BY FormsAssumption
<1> HIDE DEF r
<1>3. form'[i] = r /\ form[i].id = 0 /\ \A j \in Slot \ {i} : form'[j] = form[j]
  BY <1>1 DEF r, Counted, IInv, TypeOK, Counting, Deleted
<1>4. \A j \in Slot : form'[j].id = form[j].id
  BY <1>2, <1>3
<1>5. \A id \in Ids : Owners(id)' = Owners(id) /\ Waiting(id)' = Waiting(id)
  BY <1>4 DEF Define, Owners, Waiting
<1>6. CountsWindows'
  BY <1>5 DEF Define, Counted, Counting, CountsWindows
<1>7. stack # <<>> /\ Top.k = "block" /\ UNCHANGED stack
  BY DEF Define, Calling, OnTop
<1>8. AllListed
  BY <1>7, NotAtFlag DEF Counted, Counting, At, OnTop
<1>9. Listed' /\ Deleted' /\ Queried' /\ ShortLists'
  BY <1>2, <1>3, <1>7, <1>8 DEF AllListed, Counted, Counting, Listed, Deleted, Queried, ShortLists
<1> QED  BY <1>6, <1>9 DEF Counting

LEMMA CallReady ==
  ASSUME Counted, NEW c, Calling(c)
  PROVE  Unflagged /\ Top.k = "block"
  BY DEF Counted, Calling, OnTop, Unflagged, At

LEMMA ActivateCounts ==
  ASSUME HasGotFocus = {}, Counted, NEW w \in Windows, NEW nowait \in BOOLEAN, Activate(w, nowait)
  PROVE  Counting'
<1>1. PICK i \in Slot :
        /\ form' = ShownForm(w, i, form)
        /\ SetFocus(w, stack \o (IF nowait THEN <<>> ELSE <<Loop({w})>>) \o <<Activating(i, "flag")>>)
  BY DEF Activate
<1>2. stack' = stack \o (IF nowait THEN <<>> ELSE <<Loop({w})>>) \o <<Activating(i, "flag")>>
  BY <1>1, QuietFocus
<1>3. Unflagged
  BY CallReady DEF Activate
<1>4. SameIds(form') /\ UNCHANGED count
  BY <1>1, ShownIds DEF Activate, Counted, IInv
<1>5. /\ Loop({w}) \in Frame /\ Plain(Loop({w}))
      /\ Activating(i, "flag") \in Frame /\ Plain(Activating(i, "flag"))
  BY Frames, PlainFrames
<1> DEFINE l == Loop({w})
           a == Activating(i, "flag")
<1> HIDE DEF l, a
<1>6. CASE nowait
  <2>1. stack' = (stack \o <<>>) \o <<a>>
    BY <1>2, <1>6 DEF a
  <2>2. stack' = Append(stack, a)
    BY <1>3, <1>5, <2>1, UnflaggedFacts, ConcatOne DEF a
  <2> QED  BY <1>3, <1>4, <1>5, <2>2, CalmPush DEF a
<1>7. CASE ~nowait
  <2>1. stack' = (stack \o <<l>>) \o <<a>>
    BY <1>2, <1>7 DEF a, l
  <2>2. stack \o <<l>> = Append(stack, l) /\ Append(stack, l) \in Seq(Frame)
    BY <1>3, <1>5, UnflaggedFacts, ConcatOne, AppendProperties DEF l
  <2>3. stack' = Append(Append(stack, l), a)
    BY <1>5, <2>1, <2>2, ConcatOne DEF a
  <2> QED  BY <1>3, <1>4, <1>5, <2>3, CalmPushTwo DEF a, l
<1> QED  BY <1>6, <1>7

LEMMA MessageLoopCounts ==
  ASSUME Counted, MessageLoop
  PROVE  Counting'
<1>1. Unflagged /\ SameIds(form') /\ UNCHANGED count /\ stack' = Append(stack, Loop({}))
  BY CallReady, UnchangedIds DEF MessageLoop
<1>2. Loop({}) \in Frame /\ Plain(Loop({}))
  BY Frames, PlainFrames
<1> QED  BY <1>1, <1>2, CalmPush

LEMMA DoEventsCounts ==
  ASSUME Counted, DoEvents
  PROVE  Counting'
<1>1. Unflagged /\ SameIds(form') /\ UNCHANGED count /\ stack' = Append(stack, Events)
  BY CallReady, UnchangedIds DEF DoEvents
<1>2. Events \in Frame /\ Plain(Events)
  BY Frames, PlainFrames
<1> QED  BY <1>1, <1>2, CalmPush

LEMMA ReleaseCounts ==
  ASSUME Counted, NEW w \in Windows, Release(w)
  PROVE  Counting'
<1>1. Unflagged /\ UNCHANGED count
  BY CallReady DEF Release
<1>2. CASE w = Main
  <2>1. SameIds(form') /\ stack' = Append(stack, All(0))
    BY <1>2, UnchangedIds DEF Release
  <2>2. All(0) \in Frame /\ Plain(All(0))
    BY Frames, PlainFrames
  <2> QED  BY <1>1, <2>1, <2>2, CalmPush
<1>3. CASE w # Main
  <2> DEFINE moved == [j \in Slot |-> IF form[j].parent = w
                                      THEN [form[j] EXCEPT !.parent = Main] ELSE form[j]]
  <2>1. form' \in {form, moved} /\ UNCHANGED stack
    BY <1>3 DEF Release
  <2>2. SameIds(moved)
    <3>1. ASSUME NEW j \in Slot
          PROVE  moved[j].h = form[j].h /\ moved[j].id = form[j].id /\ moved[j].active = form[j].active
      <4>1. form[j] \in Form
        BY HoldsType DEF Counted, IInv
      <4> QED  BY <4>1 DEF Form
    <3> QED  BY <3>1 DEF SameIds
  <2>3. SameIds(form')
    BY <2>1, <2>2, UnchangedIds
  <2> QED  BY <1>1, <2>1, <2>3, CalmSame
<1> QED  BY <1>2, <1>3

LEMMA ShowCounts ==
  ASSUME HasGotFocus = {}, Counted, NEW w \in Windows, Show(w)
  PROVE  Counting'
<1>1. PICK i \in Slot : form' = ShownForm(w, i, form) /\ SetFocus(w, Append(stack, Events))
  BY DEF Show
<1>2. stack' = Append(stack, Events) /\ SameIds(form')
  BY <1>1, QuietFocus, ShownIds DEF Counted, IInv
<1>3. Unflagged /\ UNCHANGED count
  BY CallReady DEF Show
<1>4. Events \in Frame /\ Plain(Events)
  BY Frames, PlainFrames
<1> QED  BY <1>2, <1>3, <1>4, CalmPush

LEMMA HideCounts ==
  ASSUME HasGotFocus = {}, Counted, NEW w \in Windows, Hide(w)
  PROVE  Counting'
<1>1. stack' = stack
  BY QuietHide DEF Hide
<1>2. Unflagged /\ UNCHANGED count /\ SameIds(form')
  BY CallReady, UnchangedIds DEF Hide
<1> QED  BY <1>1, <1>2, CalmSame

\* A new list takes an id whose counter is 0: none has it.
LEMMA ActivateMultiCounts ==
  ASSUME Counted, NEW v \in Windows, NEW w \in Windows, ActivateMulti(v, w)
  PROVE  Counting'
<1>1. PICK id \in Ids :
        /\ count[id] = 0
        /\ count' = [count EXCEPT ![id] = 2]
        /\ stack' = Append(stack, Multi(<<v, w>>, id, {v, w}))
  BY DEF ActivateMulti
<1> DEFINE f == Multi(<<v, w>>, id, {v, w})
           n == Len(stack)
<1>2. f.k = "multi" /\ f.id = id /\ Len(f.rest) = 2 /\ f \in Frame
  <2>1. <<v, w>> \in Seq(Windows)
    OBVIOUS
  <2> QED  BY <2>1, Frames DEF Multi
<1>3. Unflagged /\ Top.k = "block" /\ UNCHANGED form
  BY CallReady DEF ActivateMulti
<1>4. stack \in Seq(Frame) /\ n \in Nat \ {0} /\ DOMAIN stack = 1 .. n /\ Counting
  BY <1>3, UnflaggedFacts, LenProperties
<1> HIDE DEF f
<1>5. DOMAIN stack' = 1 .. n + 1 /\ stack'[n + 1] = f /\ \A j \in 1 .. n : stack'[j] = stack[j]
  <2>1. stack' = Append(stack, f)
    BY <1>1 DEF f
  <2> QED  BY <1>2, <1>4, <2>1, AppendProperties, LenProperties
<1> HIDE DEF n
<1>6. Queried' /\ ShortLists'
  <2>1. ASSUME NEW j \in DOMAIN stack', Query(stack'[j])
        PROVE  j > 1 /\ stack'[j-1].k = "closing"
    <3>1. j \in 1 .. n
      BY <1>2, <1>4, <1>5, <2>1 DEF Query
    <3>2. j > 1 /\ stack[j-1].k = "closing"
      BY <1>4, <1>5, <2>1, <3>1 DEF Counting, Queried
    <3>3. j - 1 \in 1 .. n
      BY <1>4, <3>1, <3>2
    <3> QED  BY <1>5, <3>2, <3>3
  <2>2. ASSUME NEW j \in DOMAIN stack', stack'[j].k = "multi"
        PROVE  Len(stack'[j].rest) <= 2
    <3>1. CASE j = n + 1
      <4>1. stack'[j] = f
        BY <1>5, <3>1
      <4>2. Len(stack'[j].rest) = 2
        BY <1>2, <4>1
      <4> QED  BY <4>2
    <3>2. CASE j # n + 1
      <4>1. j \in 1 .. n
        BY <1>4, <1>5, <3>2
      <4> QED  BY <1>4, <1>5, <2>2, <4>1 DEF Counting, ShortLists
    <3> QED  BY <3>1, <3>2
  <2> QED  BY <2>1, <2>2 DEF Queried, ShortLists
<1>7. Listed' /\ Deleted'
  <2>1. AllListed
    BY <1>3, NotAtFlag DEF Unflagged, Counting
  <2> QED  BY <1>3, <1>4, <2>1 DEF AllListed, Listed, Deleted, Counting
<1>8. \A i \in Ids : Owners(i)' = Owners(i)
  BY <1>3 DEF Owners
<1>9. Pending(stack', id) = Pending(stack, id) \cup {<<n + 1, 1>>, <<n + 1, 2>>}
  BY <1>2, <1>4, <1>5 DEF Pending
<1>10. \A i \in Ids \ {id} : Pending(stack', i) = Pending(stack, i)
  BY <1>2, <1>4, <1>5 DEF Pending
<1>11. Cardinality(Pending(stack, id)) = 0 /\ Cardinality(Owners(id)) = 0
  <2>1. Cardinality(Pending(stack, id)) \in Nat /\ Cardinality(Owners(id)) \in Nat
    BY <1>4, PendingFinite, OwnersFinite, FS_CardinalityType
  <2>2. count[id] = Cardinality(Owners(id)) + Cardinality(Pending(stack, id))
    BY <1>4, WaitingPending DEF Counting, CountsWindows
  <2> QED  BY <1>1, <2>1, <2>2
<1>12. Pending(stack, id) = {}
  BY <1>4, <1>11, PendingFinite, FS_EmptySet
<1>13. Cardinality(Pending(stack', id)) = 2
  <2> DEFINE a == <<n + 1, 1>>
             b == <<n + 1, 2>>
  <2>1. a # b
    OBVIOUS
  <2>2. Pending(stack', id) = {a, b}
    BY <1>9, <1>12
  <2> HIDE DEF a, b
  <2>3. Cardinality({a, b}) = 2
    <3>1. IsFiniteSet({a}) /\ Cardinality({a}) = 1
      BY FS_Singleton
    <3>2. {a, b} = {a} \cup {b} /\ b \notin {a}
      BY <2>1
    <3>3. Cardinality({a} \cup {b}) = Cardinality({a}) + 1
      BY <3>1, <3>2, FS_AddElement
    <3> QED  BY <3>1, <3>2, <3>3
  <2> QED  BY <2>2, <2>3
<1>14. CountsWindows'
  <2>1. count \in [Ids -> Int]
    BY DEF Counted, IInv, TypeOK
  <2>2. count'[id] = 2 /\ \A i \in Ids \ {id} : count'[i] = count[i]
    BY <1>1, <2>1
  <2>3. ASSUME NEW i \in Ids
        PROVE  count'[i] = Cardinality(Owners(i)') + Cardinality(Pending(stack', i))
    <3>1. CASE i = id
      BY <1>8, <1>11, <1>13, <2>2, <3>1
    <3>2. CASE i # id
      <4>1. count[i] = Cardinality(Owners(i)) + Cardinality(Pending(stack, i))
        BY <1>4, WaitingPending DEF Counting, CountsWindows
      <4> QED  BY <1>8, <1>10, <2>2, <3>2, <4>1
    <3> QED  BY <3>1, <3>2
  <2> QED  BY <2>3, WaitingPending DEF CountsWindows
<1> QED  BY <1>6, <1>7, <1>14 DEF Counting

LEMMA CallCounts ==
  ASSUME HasGotFocus = {}, Counted, Call
  PROVE  Counting'
  BY DefineCounts, ReleaseCounts, ShowCounts, HideCounts, ActivateCounts, ActivateMultiCounts,
     MessageLoopCounts, DoEventsCounts DEF Call

-----------------------------------------------------------------------------
(* Blocks that return, the message loops and input.                        *)

LEMMA KindReady ==
  ASSUME Counted, stack # <<>>, Top.k # "activating"
  PROVE  Unflagged
  BY DEF Counted, Unflagged, At, OnTop

\* A refused WM_CLOSE drops its handler with the block, and nothing else.
LEMMA ReturnCounts ==
  ASSUME Counted, Return
  PROVE  Counting'
<1>1. Unflagged /\ Top.k = "block" /\ SameIds(form') /\ UNCHANGED count
  BY KindReady, UnchangedIds DEF Return, OnTop
<1>2. CASE UNCHANGED stack
  BY <1>1, <1>2, CalmSame
<1>3. CASE stack' = Below
  BY <1>1, <1>3, CalmPop
<1>4. CASE Len(stack) > 2 /\ Query(Top) /\ stack' = SubSeq(stack, 1, Len(stack) - 2)
  <2> DEFINE n == Len(stack)
  <2>1. stack \in Seq(Frame) /\ n \in Nat \ {0} /\ n - 2 \in 0 .. n /\ n > 2 /\ Counting
    BY <1>1, <1>4, UnflaggedFacts
  <2>2. Len(stack') = n - 2 /\ \A j \in 1 .. n - 2 : stack'[j] = stack[j]
    BY <1>4, <2>1, Prefix
  <2>3. NoList(stack[n]) /\ NoList(stack[n-1])
    <3>1. n \in DOMAIN stack /\ Query(stack[n])
      BY <1>4, <2>1, LenProperties DEF Top
    <3>2. stack[n-1].k = "closing"
      BY <2>1, <3>1 DEF Counting, Queried
    <3> QED  BY <3>1, <3>2 DEF NoList, Query
  <2> HIDE DEF n
  <2>4. \A j \in n - 2 + 1 .. n : j = n \/ j = n - 1
    BY <2>1
  <2>5. Edited(stack, stack', n - 2)
    BY <2>1, <2>2, <2>3, <2>4 DEF Edited, n
  <2> QED  BY <1>1, <2>5, UnflaggedFacts, SameLists
<1> QED  BY <1>1, <1>2, <1>3, <1>4 DEF Return, Query

LEMMA PumpReady ==
  ASSUME Counted, Pumping
  PROVE  Unflagged /\ Top.k # "multi"
  BY KindReady DEF Pumping

LEMMA DispatchCounts ==
  ASSUME Counted, Dispatch
  PROVE  Counting'
<1>1. Unflagged /\ SameIds(form') /\ UNCHANGED count
  BY PumpReady, UnchangedIds DEF Dispatch
<1>2. Head(posted) \in Windows
  BY Rest, HeadTailProperties DEF Counted, RestOK, Dispatch
<1>3. CASE UNCHANGED stack
  BY <1>1, <1>3, CalmSame
<1>4. ASSUME NEW i \in Slot, stack' = Append(stack, Closing(Head(posted), i, "ask"))
      PROVE  Counting'
  <2> DEFINE f == Closing(Head(posted), i, "ask")
  <2>1. f \in Frame /\ Plain(f)
    BY <1>2, Frames, PlainFrames
  <2> QED  BY <1>1, <1>4, <2>1, CalmPush
<1> QED  BY <1>3, <1>4 DEF Dispatch

LEMMA QuitCounts ==
  ASSUME Counted, Quit
  PROVE  Counting'
<1>1. Unflagged /\ SameIds(form') /\ UNCHANGED count /\ Top.k # "multi" /\ stack' \in {stack, Below}
  BY PumpReady, UnchangedIds DEF Quit
<1> QED  BY <1>1, CalmSame, CalmPop

LEMMA DrainedCounts ==
  ASSUME Counted, Drained
  PROVE  Counting'
<1>1. Unflagged /\ SameIds(form') /\ UNCHANGED count /\ Top.k # "multi" /\ stack' = Below
  BY PumpReady, UnchangedIds DEF Drained, Idle
<1> QED  BY <1>1, CalmPop

LEMMA UserCloseCounts ==
  ASSUME Counted, NEW w \in Windows, UserClose(w)
  PROVE  Counting'
<1>1. Unflagged /\ SameIds(form') /\ UNCHANGED count
  BY PumpReady, UnchangedIds DEF UserClose, Idle
<1>2. PICK i \in Slot : stack' = Append(stack, Closing(w, i, "ask"))
  BY DEF UserClose
<1>3. Closing(w, i, "ask") \in Frame /\ Plain(Closing(w, i, "ask"))
  BY Frames, PlainFrames
<1> QED  BY <1>1, <1>2, <1>3, CalmPush

LEMMA UserFocusCounts ==
  ASSUME HasGotFocus = {}, Counted, NEW w \in Windows, UserFocus(w)
  PROVE  Counting'
<1>1. Unflagged /\ SameIds(form') /\ UNCHANGED count
  BY PumpReady, UnchangedIds DEF UserFocus, Idle
<1>2. stack' = stack
  BY QuietFocus DEF UserFocus
<1> QED  BY <1>1, <1>2, CalmSame

LEMMA ControlEventCounts ==
  ASSUME Counted, ControlEvent
  PROVE  Counting'
<1>1. Unflagged /\ SameIds(form') /\ UNCHANGED count
  BY PumpReady, UnchangedIds DEF ControlEvent, Idle
<1>2. PICK j \in DOMAIN stack : Innermost(j) /\ stack' = Append(stack, Block(stack[j].ev, 0))
  BY DEF ControlEvent
<1>3. Block(stack[j].ev, 0) \in Frame /\ Plain(Block(stack[j].ev, 0))
  BY <1>1, <1>2, UnflaggedFacts, InnermostEvent, Frames, PlainFrames
<1> QED  BY <1>1, <1>2, <1>3, CalmPush

LEMMA KeyCounts ==
  ASSUME Counted, Key
  PROVE  Counting'
<1>1. Unflagged /\ SameIds(form') /\ UNCHANGED count /\ stack' = Append(stack, Events)
  BY PumpReady, UnchangedIds DEF Key, Idle
<1>2. Events \in Frame /\ Plain(Events)
  BY Frames, PlainFrames
<1> QED  BY <1>1, <1>2, CalmPush

LEMMA InputCounts ==
  ASSUME HasGotFocus = {}, Counted, Input
  PROVE  Counting'
  BY UserCloseCounts, UserFocusCounts, ControlEventCounts, KeyCounts DEF Input

-----------------------------------------------------------------------------
(* The WM_CLOSE handler.                                                   *)

LEMMA ClosingReady ==
  ASSUME Counted, stack # <<>>, Top.k = "closing"
  PROVE  /\ Unflagged /\ NoList(Top) /\ Top.k # "multi"
         /\ Top.w \in Windows /\ Top.i \in Slot
         /\ \A pc \in {"ask", "asked", "released", "hidden"} :
              LET f == [Top EXCEPT !.pc = pc] IN f \in Frame /\ Plain(f) /\ f.k = "closing"
<1>1. Unflagged /\ NoList(Top)
  BY KindReady DEF NoList
<1>2. /\ Top.w \in Windows /\ Top.i \in Slot
      /\ \A pc \in {"ask", "asked", "released", "hidden"} : [Top EXCEPT !.pc = pc] \in Frame
  BY <1>1, UnflaggedFacts, TopFields
<1> DEFINE t == Top
<1> HIDE DEF t
<1>3. t \in Frame /\ t.k = "closing"
  BY <1>1, UnflaggedFacts, StackFacts DEF t
<1>4. ASSUME NEW pc \in {"ask", "asked", "released", "hidden"}
      PROVE  [t EXCEPT !.pc = pc].k = "closing"
  BY <1>3 DEF Frame
<1>5. \A f : f.k = "closing" => Plain(f)
  BY DEF Plain, Query
<1> QED  BY <1>1, <1>2, <1>4, <1>5 DEF t

LEMMA CloseAskCounts ==
  ASSUME Counted, CloseAsk
  PROVE  Counting'
<1> DEFINE f == [Top EXCEPT !.pc = "asked"]
           g == Block("query", Top.i)
<1>1. /\ Unflagged /\ SameIds(form') /\ UNCHANGED count /\ NoList(Top)
      /\ f \in Frame /\ Plain(f) /\ f.k = "closing" /\ Top.i \in Slot
  BY ClosingReady, UnchangedIds DEF CloseAsk, At, OnTop
<1>2. g \in Frame /\ g.k # "multi"
  BY <1>1, Frames DEF BlockEvents, Block
<1>3. stack' \in {Append(Below, f) \o <<>>, Append(Below, f) \o <<g>>}
  BY DEF CloseAsk
<1> HIDE DEF f, g
<1>4. Append(Below, f) \in Seq(Frame)
  BY <1>1, UnflaggedFacts, AppendProperties
<1>5. stack' = Append(Below, f) \/ stack' = Append(Append(Below, f), g)
  BY <1>2, <1>3, <1>4, ConcatOne
<1> QED  BY <1>1, <1>2, <1>5, CalmReplace, CalmReplaceTwo

LEMMA CloseGoneCounts ==
  ASSUME Counted, CloseGone
  PROVE  Counting'
<1>1. Unflagged /\ SameIds(form') /\ UNCHANGED count /\ Top.k # "multi" /\ stack' = Below
  BY ClosingReady, UnchangedIds DEF CloseGone, At, OnTop
<1> QED  BY <1>1, CalmPop

LEMMA CloseHidesCounts ==
  ASSUME HasGotFocus = {}, Counted, CloseHides
  PROVE  Counting'
<1>1. Unflagged /\ SameIds(form') /\ UNCHANGED count /\ Top.k # "multi"
  BY ClosingReady, UnchangedIds DEF CloseHides, At, OnTop
<1>2. stack' \in {stack, Below}
  BY QuietHide DEF CloseHides
<1> QED  BY <1>1, <1>2, CalmSame, CalmPop

LEMMA CloseMainCounts ==
  ASSUME Counted, CloseMain
  PROVE  Counting'
<1>1. Unflagged /\ SameIds(form') /\ UNCHANGED count /\ NoList(Top)
      /\ (stack' = stack \/ stack' = Append(Below, All(0)))
  BY ClosingReady, UnchangedIds DEF CloseMain, At, OnTop
<1>2. All(0) \in Frame /\ Plain(All(0))
  BY Frames, PlainFrames
<1> QED  BY <1>1, <1>2, CalmSame, CalmReplace

LEMMA CloseReleasesCounts ==
  ASSUME Counted, CloseReleases
  PROVE  Counting'
<1> DEFINE f == [Top EXCEPT !.pc = "released"]
           g == Block("release", Top.i)
<1>1. /\ Unflagged /\ SameIds(form') /\ UNCHANGED count /\ NoList(Top)
      /\ f \in Frame /\ Plain(f) /\ Top.i \in Slot
  BY ClosingReady, UnchangedIds DEF CloseReleases, At, OnTop
<1>2. g \in Frame /\ Plain(g)
  BY <1>1, Frames, PlainFrames DEF BlockEvents
<1>3. stack' \in {Append(Below, f) \o <<>>, Append(Below, f) \o <<g>>}
  BY DEF CloseReleases
<1> HIDE DEF f, g
<1>4. Append(Below, f) \in Seq(Frame)
  BY <1>1, UnflaggedFacts, AppendProperties
<1>5. stack' = Append(Below, f) \/ stack' = Append(Append(Below, f), g)
  BY <1>2, <1>3, <1>4, ConcatOne
<1> QED  BY <1>1, <1>2, <1>5, CalmReplace, CalmReplaceTwo DEF Plain

LEMMA CloseYieldsCounts ==
  ASSUME HasGotFocus = {}, Counted, CloseYields
  PROVE  Counting'
<1> DEFINE f == [Top EXCEPT !.pc = "hidden"]
<1>1. /\ Unflagged /\ SameIds(form') /\ UNCHANGED count /\ NoList(Top)
      /\ f \in Frame /\ Plain(f)
  BY ClosingReady, UnchangedIds DEF CloseYields, At, OnTop
<1>2. stack' = Append(Below, f)
  BY QuietOnHide DEF CloseYields
<1> QED  BY <1>1, <1>2, CalmReplace

\* The window destroyed leaves the table and its counter together.
LEMMA DestroyCounts ==
  ASSUME Counted, Destroy
  PROVE  Counting'
<1>1. /\ Unflagged /\ Top.w \in Windows /\ NoList(Top) /\ Top.k # "multi" /\ stack' = Below
  BY ClosingReady DEF Destroy, At, OnTop
<1>2. CASE UNCHANGED <<form, desktop, quit, count>>
  BY <1>1, <1>2, UnchangedIds, CalmPop
<1>3. ASSUME NEW i \in Slot, form[i].h = Top.w, CountedOff(form[i].id),
             form' = [form EXCEPT ![i] = Blank]
      PROVE  Counting'
  <2>1. form'[i] = Blank /\ \A j \in Slot \ {i} : form'[j] = form[j]
    BY <1>3 DEF Counted, IInv, TypeOK
  <2>2. stack \in Seq(Frame) /\ stack' \in Seq(Frame) /\ Counting
    BY <1>1, UnflaggedFacts
  <2>3. Edited(stack, stack', Len(stack) - 1)
    BY <1>1, UnflaggedFacts, EditSame, EditBelow DEF Unflagged
  <2>4. Queried' /\ ShortLists' /\ \A id \in Ids : Pending(stack', id) = Pending(stack, id)
    BY <2>2, <2>3, Edits DEF Counting
  <2>5. AllListed
    BY <1>1, NotAtFlag DEF Unflagged, Counting
  <2>6. Listed' /\ Deleted'
    BY <2>1, <2>2, <2>5 DEF Listed, AllListed, Deleted, Counting, Blank
  <2> DEFINE d == form[i].id
  <2>7. d \in Ids \cup {0} /\ count \in [Ids -> Int]
    BY HoldsType DEF Counted, IInv, TypeOK
  <2>8. \A id \in Ids : Owners(id)' = Owners(id) \ {i}
    <3>1. \A id \in Ids : form'[i].id # id
      BY <2>1, FormsAssumption DEF Blank
    <3> QED  BY <2>1, <3>1 DEF Owners
  <2>9. ASSUME NEW id \in Ids
        PROVE  count'[id] = Cardinality(Owners(id)') + Cardinality(Pending(stack', id))
    <3>1. count[id] = Cardinality(Owners(id)) + Cardinality(Pending(stack, id))
      BY <2>2, WaitingPending DEF Counting, CountsWindows
    <3>2. CASE id # d
      <4>1. Owners(id)' = Owners(id)
        BY <2>8, <3>2 DEF Owners
      <4>2. count'[id] = count[id]
        BY <1>3, <2>7, <3>2 DEF CountedOff
      <4> QED  BY <2>4, <3>1, <4>1, <4>2
    <3>3. CASE id = d
      <4>1. i \in Owners(id) /\ IsFiniteSet(Owners(id))
        BY <3>3, OwnersFinite DEF Owners
      <4>2. Cardinality(Owners(id) \ {i}) = Cardinality(Owners(id)) - 1
        BY <4>1, FS_RemoveElement
      <4>3. id # 0
        BY FormsAssumption
      <4>4. count' = [count EXCEPT ![d] = count[d] - 1]
        BY <1>3, <3>3, <4>3 DEF CountedOff
      <4>5. count'[id] = count[id] - 1
        BY <2>7, <3>3, <4>4
      <4>6. Cardinality(Owners(id)) \in Nat /\ Cardinality(Pending(stack, id)) \in Nat
        BY <2>2, <4>1, PendingFinite, FS_CardinalityType
      <4> QED  BY <2>4, <2>8, <3>1, <4>2, <4>5, <4>6
    <3> QED  BY <3>2, <3>3
  <2>10. CountsWindows'
    BY <2>9, WaitingPending DEF CountsWindows
  <2> QED  BY <2>4, <2>6, <2>10 DEF Counting
<1> QED  BY <1>2, <1>3 DEF Destroy, Holds

LEMMA ReleaseNextCounts ==
  ASSUME Counted, ReleaseNext
  PROVE  Counting'
<1>1. Unflagged /\ SameIds(form') /\ UNCHANGED count /\ NoList(Top)
  BY KindReady, UnchangedIds DEF ReleaseNext, OnTop, NoList
<1>2. Top.i \in Slot \cup {0}
  BY <1>1, UnflaggedFacts, TopFields DEF ReleaseNext, OnTop, Unflagged
<1>3. CASE Top.i < Cardinality(Windows)
  <2> DEFINE i == Top.i + 1
             f == All(i)
             g == Block("release", i)
  <2>1. i \in Slot
    BY <1>2, <1>3, SlotFacts DEF Slot
  <2>2. stack' \in {Append(Below, f) \o <<>>, Append(Below, f) \o <<g>>}
    BY <1>3, SlotFacts DEF ReleaseNext
  <2>3. f \in Frame /\ Plain(f) /\ g \in Frame /\ Plain(g)
    BY <2>1, Frames, PlainFrames DEF BlockEvents
  <2> HIDE DEF f, g
  <2>4. Append(Below, f) \in Seq(Frame)
    BY <1>1, <2>3, UnflaggedFacts, AppendProperties
  <2>5. stack' = Append(Below, f) \/ stack' = Append(Append(Below, f), g)
    BY <2>2, <2>3, <2>4, ConcatOne
  <2> QED  BY <1>1, <2>3, <2>5, CalmReplace, CalmReplaceTwo DEF Plain
<1>4. CASE ~(Top.i < Cardinality(Windows))
  BY <1>1, <1>4, CalmSame DEF ReleaseNext
<1> QED  BY <1>3, <1>4

-----------------------------------------------------------------------------
(* The rest of _ActivateWindow.                                            *)

LEMMA EditMore ==
  ASSUME NEW s, NEW n, NEW t \in Seq(Frame), Edited(s, t, n), Len(s) \in Nat,
         NEW f \in Frame, Plain(f)
  PROVE  Edited(s, Append(t, f), n)
<1> DEFINE u == Append(t, f)
<1>1. Len(t) \in Nat /\ Len(u) = Len(t) + 1 /\ (\A j \in 1 .. Len(t) : u[j] = t[j]) /\ u[Len(t) + 1] = f
  BY AppendProperties, LenProperties
<1>2. n \in Nat /\ n <= Len(t)
  BY DEF Edited
<1> HIDE DEF u
<1>3. ASSUME NEW j \in n+1 .. Len(u)
      PROVE  u[j].k # "multi" /\ (Query(u[j]) => j > 1 /\ u[j-1].k = "closing")
  <2>1. CASE j = Len(t) + 1
    BY <1>1, <2>1 DEF Plain
  <2>2. CASE j # Len(t) + 1
    <3>1. j \in n+1 .. Len(t) /\ j \in 1 .. Len(t)
      BY <1>1, <1>2, <2>2
    <3>2. u[j] = t[j] /\ t[j].k # "multi" /\ (Query(t[j]) => j > 1 /\ t[j-1].k = "closing")
      BY <1>1, <3>1 DEF Edited
    <3>3. j > 1 => u[j-1] = t[j-1]
      BY <1>1, <3>1
    <3> QED  BY <3>2, <3>3
  <2> QED  BY <2>1, <2>2
<1>4. Edited(s, u, n)
  BY <1>1, <1>2, <1>3 DEF Edited
<1> QED  BY <1>4 DEF u

LEMMA SetActivationFlagCounts ==
  ASSUME Counted, SetActivationFlag
  PROVE  Counting'
<1>1. /\ IInv /\ Counting /\ stack \in Seq(Frame) /\ stack' \in Seq(Frame) /\ stack # <<>>
      /\ Top.k = "activating" /\ form \in [Slot -> Form]
  BY DEF Counted, IInv, TypeOK, SetActivationFlag, At, OnTop
<1>2. Top.i \in Slot /\ Below \in Seq(Frame) /\ NoList(Top) /\ Len(stack) \in Nat
  BY <1>1, TopFields, StackFacts DEF NoList
<1> DEFINE i == Top.i
           a == Activating(i, "init")
<1>3. Edited(Below, Below, Len(Below))
  BY <1>2, EditSame
<1>4. a \in Frame /\ Plain(a) /\ Inkey \in Frame /\ Plain(Inkey) /\ Events \in Frame /\ Plain(Events)
  BY <1>2, Frames, PlainFrames
<1>5. \/ stack' = Below
      \/ stack' = Append(Below, a) \o <<Inkey, Events>>
  BY DEF SetActivationFlag
<1> DEFINE e == Events
           ik == Inkey
<1>6. form' = [form EXCEPT ![i].active = TRUE] /\ UNCHANGED count
  BY DEF SetActivationFlag
<1> HIDE DEF i, a, e, ik
<1>7. Edited(Below, stack', Len(Below))
  <2>1. CASE stack' = Append(Below, a) \o <<ik, e>>
    <3>1. Append(Below, a) \in Seq(Frame) /\ Append(Append(Below, a), ik) \in Seq(Frame)
      BY <1>2, <1>4, AppendProperties DEF ik
    <3>2. stack' = Append(Append(Append(Below, a), ik), e)
      <4>1. <<ik, e>> = Append(<<ik>>, e)
        OBVIOUS
      <4>2. \A s \in Seq(Frame) : s \o Append(<<ik>>, e) = Append(s \o <<ik>>, e)
        BY <1>4, ConcatProperties, AppendProperties DEF ik, e
      <4> QED  BY <1>4, <2>1, <3>1, <4>1, <4>2, ConcatOne DEF ik
    <3>3. Edited(Below, Append(Append(Below, a), ik), Len(Below))
      BY <1>2, <1>4, EditPushTwo DEF Plain, ik
    <3>4. Len(Below) \in Nat
      BY <1>2, LenProperties
    <3> QED  BY <1>4, <3>1, <3>2, <3>3, <3>4, EditMore DEF e
  <2> QED  BY <1>3, <1>5, <2>1 DEF ik, e
<1>8. Edited(stack, stack', Len(stack) - 1)
  BY <1>1, <1>2, <1>7, EditBelow
<1>9. Queried' /\ ShortLists' /\ \A id \in Ids : Pending(stack', id) = Pending(stack, id)
  BY <1>1, <1>8, Edits DEF Counting
<1>10. \A j \in Slot : /\ form'[j].h = form[j].h /\ form'[j].id = form[j].id
                       /\ form'[j].active = (j = i \/ form[j].active)
  <2>1. i \in Slot
    BY <1>2 DEF i
  <2>2. ASSUME NEW j \in Slot
        PROVE  /\ form'[j].h = form[j].h /\ form'[j].id = form[j].id
               /\ form'[j].active = (j = i \/ form[j].active)
    <3>1. form[j] \in Form
      BY <1>1
    <3>2. CASE j = i
      <4>1. form'[j] = [form[j] EXCEPT !.active = TRUE]
        BY <1>1, <1>6, <2>1, <3>2
      <4> QED  BY <3>1, <3>2, <4>1 DEF Form
    <3>3. CASE j # i
      <4>1. form'[j] = form[j]
        BY <1>1, <1>6, <2>1, <3>3
      <4> QED  BY <3>1, <3>3, <4>1 DEF Form
    <3> QED  BY <3>2, <3>3
  <2> QED  BY <2>2
<1>11. Deleted'
  BY <1>1, <1>10 DEF Deleted, Counting
<1>12. Listed'
  <2>1. \A j \in Slot : form'[j].id # 0 => form'[j].active
    BY <1>1, <1>10 DEF Listed, Counting, i
  <2> QED  BY <2>1 DEF Listed
<1>13. CountsWindows'
  <2>1. \A id \in Ids : Owners(id)' = Owners(id)
    BY <1>10 DEF Owners
  <2>2. \A id \in Ids : Waiting(id)' = Waiting(id)
    BY <1>9, WaitingPending
  <2> QED  BY <1>1, <1>6, <2>1, <2>2 DEF Counting, CountsWindows
<1> QED  BY <1>9, <1>11, <1>12, <1>13 DEF Counting

LEMMA InitProcedureCounts ==
  ASSUME Counted, InitProcedure
  PROVE  Counting'
<1>1. Unflagged /\ SameIds(form') /\ UNCHANGED count /\ Top.k = "activating" /\ NoList(Top)
  BY UnchangedIds DEF InitProcedure, At, OnTop, Unflagged, Counted, NoList
<1>2. Top.i \in Slot
  BY <1>1, UnflaggedFacts, TopFields DEF Unflagged
<1> DEFINE f == Block("init", Top.i)
<1>3. f \in Frame /\ Plain(f)
  BY <1>2, Frames, PlainFrames DEF BlockEvents
<1>4. stack' = Below \/ stack' = Append(Below, f)
  BY DEF InitProcedure
<1> QED  BY <1>1, <1>3, <1>4, CalmPop, CalmReplace

\* The next window of a list moves from the frame to the table.
LEMMA ActivateNextCounts ==
  ASSUME HasGotFocus = {}, Counted, ActivateNext
  PROVE  Counting'
<1> DEFINE n == Len(stack)
           w == Head(Top.rest)
           m == Multi(Tail(Top.rest), Top.id, Top.wins)
<1>1. Unflagged /\ Top.k = "multi" /\ Top.rest # <<>> /\ UNCHANGED count
  BY KindReady DEF ActivateNext, OnTop
<1>2. /\ stack \in Seq(Frame) /\ stack' \in Seq(Frame) /\ Counting /\ Below \in Seq(Frame)
      /\ n \in Nat \ {0} /\ DOMAIN stack = 1 .. n /\ form \in [Slot -> Form] /\ stack # <<>>
  BY <1>1, UnflaggedFacts, LenProperties DEF Counted, IInv, TypeOK, Unflagged
<1>id. PICK id \in Ids : id = Top.id
  BY <1>1, <1>2, TopFields
<1>3. Top.rest \in Seq(Windows) /\ id \in Ids /\ Top.wins \in SUBSET Windows /\ id # 0
  BY <1>1, <1>2, TopFields, FormsAssumption
<1>4. w \in Windows /\ Tail(Top.rest) \in Seq(Windows) /\ Len(Tail(Top.rest)) = Len(Top.rest) - 1
      /\ Len(Top.rest) \in Nat
  BY <1>1, <1>3, HeadTailProperties, LenProperties
<1>5. CASE UNCHANGED <<form, visible, userWindow, stack>>
  BY <1>1, <1>5, UnchangedIds, CalmSame
<1>6. ASSUME NEW i \in Slot, form[i].h = w, ~form[i].active,
             form' = [form EXCEPT ![i].id = Top.id],
             SetFocus(w, Append(Below, m) \o <<Activating(i, "flag")>>)
      PROVE  Counting'
  <2> DEFINE a == Activating(i, "flag")
  <2>1. m \in Frame /\ a \in Frame /\ m.k = "multi" /\ m.id = id /\ m.rest = Tail(Top.rest)
        /\ Plain(a)
    BY <1>id, <1>3, <1>4, Frames, PlainFrames DEF Multi
  <2>2. stack' = Append(Below, m) \o <<a>>
    BY <1>6, QuietFocus
  <2>3. a.k = "activating" /\ a.pc = "flag" /\ a.i = i
    BY DEF Activating
  <2>4. stack[n] = Top /\ Len(Below) = n - 1 /\ \A j \in 1 .. n - 1 : Below[j] = stack[j]
    <3>1. n - 1 \in 0 .. Len(stack)
      BY <1>2
    <3> QED  BY <1>2, <3>1, Prefix DEF Top, Below
  <2> DEFINE r == Top.rest
             t == Top
  <2> HIDE DEF n, w, m, a, r, t
  <2>5. Append(Below, m) \in Seq(Frame) /\ Len(Append(Below, m)) = n
        /\ Append(Below, m)[n] = m /\ \A j \in 1 .. n - 1 : Append(Below, m)[j] = stack[j]
    BY <1>2, <2>1, <2>4, AppendProperties
  <2>6. stack' = Append(Append(Below, m), a)
    BY <2>1, <2>2, <2>5, ConcatOne
  <2>7. Len(stack') = n + 1 /\ stack'[n + 1] = a /\ stack'[n] = m
        /\ \A j \in 1 .. n - 1 : stack'[j] = stack[j]
    BY <1>2, <2>1, <2>5, <2>6, AppendProperties
  <2>8. DOMAIN stack' = 1 .. n + 1
    BY <1>2, <2>7, LenProperties
  <2>x. PICK x \in Nat : x = Len(r)
    BY <1>4 DEF r
  <2>9. /\ x \in 1 .. 2 /\ Len(m.rest) = x - 1 /\ Len(t.rest) = x
        /\ stack[n] = t /\ t.k = "multi" /\ t.id = id
    <3>1. n \in DOMAIN stack
      BY <1>2
    <3>2. Len(stack[n].rest) <= 2
      BY <1>1, <1>2, <2>4, <3>1 DEF Counting, ShortLists
    <3>3. Len(r) # 0
      BY <1>1, <1>3, EmptySeq DEF r
    <3>4. stack[n] = t /\ t.rest = r
      BY <2>4 DEF r, t
    <3>5. Len(r) <= 2
      BY <3>2, <3>4
    <3>6. x <= 2 /\ x # 0
      BY <2>x, <3>3, <3>5
    <3>7. x \in 1 .. 2
      BY <3>6
    <3>8. Len(m.rest) = x - 1
      BY <1>4, <2>1, <2>x DEF r
    <3>9. t.k = "multi" /\ t.id = id
      BY <1>id, <1>1 DEF t
    <3> QED  BY <2>x, <3>4, <3>7, <3>8, <3>9
  <2>10. Queried'
    <3>1. ASSUME NEW j \in DOMAIN stack', Query(stack'[j])
          PROVE  j > 1 /\ stack'[j-1].k = "closing"
      <4>1. j # n /\ j # n + 1
        BY <2>1, <2>3, <2>7, <3>1 DEF Query
      <4>2. j \in 1 .. n - 1
        BY <1>2, <2>8, <4>1
      <4>3. j > 1 /\ stack[j-1].k = "closing"
        BY <1>2, <2>7, <3>1, <4>2 DEF Counting, Queried
      <4>4. j - 1 \in 1 .. n - 1
        BY <1>2, <4>2, <4>3
      <4> QED  BY <2>7, <4>3, <4>4
    <3> QED  BY <3>1 DEF Queried
  <2>11. ShortLists'
    <3>1. ASSUME NEW j \in DOMAIN stack', stack'[j].k = "multi"
          PROVE  Len(stack'[j].rest) <= 2
      <4>1. CASE j = n
        <5>1. Len(stack'[j].rest) = x - 1
          BY <2>7, <2>9, <4>1
        <5>2. x - 1 <= 2
          BY <2>9
        <5> QED  BY <5>1, <5>2
      <4>2. CASE j # n
        <5>1. j # n + 1
          BY <2>3, <2>7, <3>1
        <5>2. j \in 1 .. n - 1
          BY <1>2, <2>8, <4>2, <5>1
        <5> QED  BY <1>2, <2>7, <3>1, <5>2 DEF Counting, ShortLists
      <4> QED  BY <4>1, <4>2
    <3> QED  BY <3>1 DEF ShortLists
  <2>12. AllListed
    BY <1>1, NotAtFlag DEF Unflagged, Counting
  <2>13. form[i].id = 0
    BY <1>6, <2>12 DEF AllListed
  <2>14. \A j \in Slot : /\ form'[j].h = form[j].h /\ form'[j].active = form[j].active
                         /\ form'[j].id = IF j = i THEN id ELSE form[j].id
    <3>1. ASSUME NEW j \in Slot
          PROVE  /\ form'[j].h = form[j].h /\ form'[j].active = form[j].active
                 /\ form'[j].id = IF j = i THEN id ELSE form[j].id
      <4>1. form[j] \in Form
        BY <1>2
      <4>2. CASE j = i
        <5>1. form'[j] = [form[j] EXCEPT !.id = id]
          BY <1>id, <1>2, <1>6, <4>2
        <5> QED  BY <4>1, <4>2, <5>1 DEF Form
      <4>3. CASE j # i
        BY <1>2, <1>6, <4>3
      <4> QED  BY <4>2, <4>3
    <3> QED  BY <3>1
  <2>15. Deleted'
    <3>1. form[i].h # NoWin
      BY <1>4, <1>6, FormsAssumption
    <3> QED  BY <1>2, <2>14, <3>1 DEF Deleted, Counting
  <2>16. Listed'
    <3>1. \A j \in Slot : form'[j].id # 0 => form'[j].active \/ j = i
      BY <2>12, <2>14 DEF AllListed
    <3>2. (At("activating", "flag"))' /\ Top' = a
      BY <1>2, <2>3, <2>7, EmptySeq DEF At, OnTop, Top
    <3> QED  BY <2>3, <3>1, <3>2 DEF Listed
  <2>17. Owners(id)' = Owners(id) \cup {i} /\ i \notin Owners(id)
    BY <1>3, <2>13, <2>14 DEF Owners
  <2>18. \A d \in Ids \ {id} : Owners(d)' = Owners(d)
    <3>1. \A d \in Ids : d # 0
      BY FormsAssumption
    <3> QED  BY <2>13, <2>14, <3>1 DEF Owners
  <2> DEFINE q == <<n, x>>
  <2>19. Pending(stack', id) = Pending(stack, id) \ {q} /\ q \in Pending(stack, id)
    <3>1. q \in Pending(stack, id)
      <4>1. n \in DOMAIN stack /\ stack[n].k = "multi" /\ stack[n].id = id
            /\ Len(stack[n].rest) = x /\ x \in 1 .. 2
        BY <1>2, <2>9
      <4>2. q \in (DOMAIN stack) \X (1 .. 2) /\ q[1] = n /\ q[2] = x
        BY <4>1
      <4>3. q[2] <= x
        BY <4>1, <4>2
      <4> QED  BY <4>1, <4>2, <4>3 DEF Pending
    <3>2. ASSUME NEW p \in (1 .. n - 1) \X (1 .. 2)
          PROVE  (p \in Pending(stack', id) <=> p \in Pending(stack, id)) /\ p # q
      BY <1>2, <2>7, <2>8 DEF Pending
    <3>3. ASSUME NEW y \in 1 .. 2
          PROVE  /\ <<n + 1, y>> \notin Pending(stack', id)
                 /\ <<n, y>> \in Pending(stack', id) <=> y <= x - 1
                 /\ <<n, y>> \in Pending(stack, id) <=> y <= x
      <4>1. stack'[n + 1].k # "multi"
        BY <2>3, <2>7
      <4>2. n \in DOMAIN stack' /\ n \in DOMAIN stack
        BY <1>2, <2>8
      <4>3. stack'[n].k = "multi" /\ stack'[n].id = id /\ Len(stack'[n].rest) = x - 1
        BY <2>1, <2>7, <2>9
      <4>4. stack[n].k = "multi" /\ stack[n].id = id /\ Len(stack[n].rest) = x
        BY <2>9
      <4> QED  BY <4>1, <4>2, <4>3, <4>4 DEF Pending
    <3>4. ASSUME NEW p
          PROVE  p \in Pending(stack', id) <=> p \in Pending(stack, id) /\ p # q
      <4>1. CASE p \in (1 .. n - 1) \X (1 .. 2)
        BY <3>2, <4>1
      <4>2. ASSUME NEW y \in 1 .. 2, p = <<n, y>>
            PROVE  p \in Pending(stack', id) <=> p \in Pending(stack, id) /\ p # q
        <5>1. p = q <=> y = x
          BY <4>2
        <5>2. x <= x - 1 <=> y <= x /\ x # x
          BY <2>9
        <5> QED  BY <3>3, <4>2, <5>1, <5>2
      <4>3. ASSUME NEW y \in 1 .. 2, p = <<n + 1, y>>
            PROVE  p \notin Pending(stack', id) /\ p \notin Pending(stack, id)
        <5>1. p[1] = n + 1 /\ n + 1 \notin DOMAIN stack
          BY <1>2, <4>3
        <5>2. p \notin Pending(stack, id)
          BY <5>1 DEF Pending
        <5> QED  BY <3>3, <4>3, <5>2
      <4>4. CASE p \notin (1 .. n + 1) \X (1 .. 2)
        <5>1. DOMAIN stack \subseteq 1 .. n + 1 /\ DOMAIN stack' \subseteq 1 .. n + 1
          BY <1>2, <2>8
        <5> QED  BY <4>4, <5>1 DEF Pending
      <4>5. \/ p \in (1 .. n - 1) \X (1 .. 2) \/ p \notin (1 .. n + 1) \X (1 .. 2)
            \/ \E y \in 1 .. 2 : p = <<n, y>> \/ p = <<n + 1, y>>
        BY <1>2
      <4> QED  BY <4>1, <4>2, <4>3, <4>4, <4>5
    <3> QED  BY <3>1, <3>4
  <2>20. \A d \in Ids \ {id} : Pending(stack', d) = Pending(stack, d)
    <3> SUFFICES ASSUME NEW d \in Ids \ {id}, NEW p
                 PROVE  p \in Pending(stack', d) <=> p \in Pending(stack, d)
      OBVIOUS
    <3>1. CASE p[1] \in 1 .. n - 1
      BY <1>2, <2>7, <2>8, <3>1 DEF Pending
    <3>2. CASE p[1] = n
      <4>1. stack'[n].id = id /\ stack[n].id = id
        BY <2>1, <2>7, <2>9
      <4> QED  BY <3>2, <4>1 DEF Pending
    <3>3. CASE p[1] = n + 1
      <4>1. stack'[n + 1].k # "multi" /\ n + 1 \notin DOMAIN stack
        BY <1>2, <2>3, <2>7
      <4> QED  BY <3>3, <4>1 DEF Pending
    <3>4. CASE p[1] \notin 1 .. n + 1
      <4>1. p[1] \notin DOMAIN stack /\ p[1] \notin DOMAIN stack'
        BY <1>2, <2>8, <3>4
      <4> QED  BY <4>1 DEF Pending
    <3>5. 1 .. n + 1 = (1 .. n - 1) \cup {n, n + 1}
      BY <1>2
    <3> QED  BY <3>1, <3>2, <3>3, <3>4, <3>5
  <2>21. CountsWindows'
    <3>1. ASSUME NEW d \in Ids
          PROVE  count[d] = Cardinality(Owners(d)') + Cardinality(Pending(stack', d))
      <4>1. count[d] = Cardinality(Owners(d)) + Cardinality(Pending(stack, d))
        BY <1>2, WaitingPending DEF Counting, CountsWindows
      <4>2. CASE d # id
        BY <2>18, <2>20, <4>1, <4>2
      <4>3. CASE d = id
        <5>1. IsFiniteSet(Owners(id)) /\ IsFiniteSet(Pending(stack, id))
          BY <1>2, PendingFinite, OwnersFinite
        <5>2. Cardinality(Owners(id)) \in Nat /\ Cardinality(Pending(stack, id)) \in Nat
          BY <5>1, FS_CardinalityType
        <5>3. Cardinality(Owners(id) \cup {i}) = Cardinality(Owners(id)) + 1
          BY <2>17, <5>1, FS_AddElement
        <5>4. Cardinality(Pending(stack, id) \ {q}) = Cardinality(Pending(stack, id)) - 1
          BY <2>19, <5>1, FS_RemoveElement
        <5>5. Cardinality(Owners(d)') = Cardinality(Owners(id)) + 1
          BY <2>17, <4>3, <5>3
        <5>6. Cardinality(Pending(stack', d)) = Cardinality(Pending(stack, id)) - 1
          BY <2>19, <4>3, <5>4
        <5>7. count[d] = Cardinality(Owners(id)) + Cardinality(Pending(stack, id))
          BY <4>1, <4>3
        <5> QED  BY <5>2, <5>5, <5>6, <5>7
      <4> QED  BY <4>2, <4>3
    <3> QED  BY <1>1, <3>1, WaitingPending DEF CountsWindows
  <2> QED  BY <2>10, <2>11, <2>15, <2>16, <2>21 DEF Counting
<1> QED  BY <1>5, <1>6 DEF ActivateNext, Holds

LEMMA ActivateLoopCounts ==
  ASSUME HasGotFocus = {}, Counted, ActivateLoop
  PROVE  Counting'
<1> DEFINE f == Loop(Top.wins)
<1>1. Unflagged /\ Top.k = "multi" /\ NoList(Top) /\ UNCHANGED count
  BY KindReady DEF ActivateLoop, OnTop, NoList
<1>2. Top.wins \in SUBSET Windows
  BY <1>1, UnflaggedFacts, TopFields DEF Unflagged
<1>3. f \in Frame /\ Plain(f) /\ Events \in Frame /\ Plain(Events)
  BY <1>2, Frames, PlainFrames
<1>4. ASSUME NEW w \in Windows, NEW i \in Slot, form' = ShownForm(w, i, form),
             SetFocus(w, Append(Below, f) \o <<Events>>)
      PROVE  Counting'
  <2>1. stack' = Append(Below, f) \o <<Events>> /\ SameIds(form')
    BY <1>4, QuietFocus, ShownIds DEF Counted, IInv
  <2>2. Append(Below, f) \in Seq(Frame)
    BY <1>1, <1>3, UnflaggedFacts, AppendProperties
  <2> DEFINE e == Events
  <2> HIDE DEF f, e
  <2>3. stack' = Append(Append(Below, f), e)
    BY <1>3, <2>1, <2>2, ConcatOne DEF e
  <2> QED  BY <1>1, <1>3, <2>1, <2>3, CalmReplaceTwo DEF Plain, e
<1>5. CASE UNCHANGED <<form, stack>>
  BY <1>1, <1>5, UnchangedIds, CalmSame
<1>6. CASE stack' = Append(Below, f) /\ UNCHANGED form
  BY <1>1, <1>3, <1>6, UnchangedIds, CalmReplace
<1> QED  BY <1>2, <1>4, <1>5, <1>6 DEF ActivateLoop

LEMMA HandlerCounts ==
  ASSUME HasGotFocus = {}, Counted, Handler
  PROVE  Counting'
  BY CloseAskCounts, CloseGoneCounts, CloseHidesCounts, CloseMainCounts, CloseReleasesCounts,
     CloseYieldsCounts, DestroyCounts, ReleaseNextCounts, SetActivationFlagCounts,
     InitProcedureCounts, ActivateNextCounts, ActivateLoopCounts DEF Handler

-----------------------------------------------------------------------------
(* The invariant of the specification.                                     *)

LEMMA InitCounting == Init => Counting
<1> SUFFICES ASSUME Init PROVE Counting
  OBVIOUS
<1> DEFINE f == Block("", 0)
<1>1. DOMAIN stack = {1} /\ stack[1].k = "block" /\ stack[1].ev = ""
  <2>1. stack = <<f>>
    BY DEF Init
  <2>2. f.k = "block" /\ f.ev = ""
    BY DEF Block
  <2> HIDE DEF f
  <2>3. DOMAIN stack = {1}
    BY <2>1
  <2>4. stack[1] = f
    BY <2>1
  <2> QED  BY <2>2, <2>3, <2>4
<1>2. Queried /\ ShortLists
  BY <1>1 DEF Queried, ShortLists, Query
<1>3. Listed /\ Deleted
  BY DEF Init, Blank, Listed, Deleted
<1>4. \A id \in Ids : Owners(id) = {}
  <2>1. \A id \in Ids : id # 0
    BY FormsAssumption
  <2> QED  BY <2>1 DEF Owners, Init, Blank
<1>5. \A id : Waiting(id) = {}
  BY <1>1 DEF Waiting
<1>6. CountsWindows
  <2>1. \A id \in Ids : count[id] = 0
    BY DEF Init
  <2> QED  BY <1>4, <1>5, <2>1, FS_EmptySet DEF CountsWindows
<1> QED  BY <1>2, <1>3, <1>6 DEF Counting

LEMMA NextCounting == HasGotFocus = {} => (IInv /\ IInv' /\ Counting /\ [Next]_vars => Counting')
<1> SUFFICES ASSUME HasGotFocus = {}, Counted, [Next]_vars PROVE Counting'
  BY DEF Counted
<1>1. CASE Next
  BY <1>1, CallCounts, HandlerCounts, InputCounts, ReturnCounts, DispatchCounts, QuitCounts,
     DrainedCounts DEF Next, System
<1>2. CASE UNCHANGED vars
  BY <1>2 DEF vars, Counted, Counting, CountsWindows, Owners, Waiting, Listed, Queried,
     ShortLists, Deleted, At, OnTop, Top
<1> QED  BY <1>1, <1>2

\* In a program without ON GOTFOCUS blocks, whatever its other blocks do and in
\* whatever order windows close, a counter of ACTIVATE WINDOW with a list is the
\* number of its windows still to be destroyed: WM_QUIT is posted once, by the
\* last of them.
THEOREM CountersExact == HasGotFocus = {} => (Spec => []CountsWindows)
<1> SUFFICES ASSUME HasGotFocus = {} PROVE Spec => []CountsWindows
  OBVIOUS
<1>1. Init => IInv /\ Counting
  BY InitIInv, InitCounting
<1>2. IInv /\ Counting /\ [Next]_vars => (IInv /\ Counting)'
  BY NextIInv, NextCounting
<1>3. Counting => CountsWindows
  BY DEF Counting
<1> QED  BY <1>1, <1>2, <1>3, PTL DEF Spec
=============================================================================
