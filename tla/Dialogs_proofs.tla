---------------------------- MODULE Dialogs_proofs ----------------------------
(***************************************************************************)
(* The modal windows of a program whose blocks only define and activate    *)
(* windows are a chain of nested message loops: for any number of windows, *)
(* any ON RELEASE, ON INTERACTIVECLOSE and ON GOTFOCUS blocks and any      *)
(* depth of nesting.  ON INIT blocks are excluded, since the loops inside  *)
(* them take the WM_QUIT of another one, and so are children destroyed on  *)
(* closing, whose WM_QUIT ends the loop of another child.                  *)
(*                                                                         *)
(* The invariant reads the stack as four sets: the loops with their        *)
(* windows and depths and the windows whose closing has given the focus    *)
(* back (both in MCForms), the slots at their activation flag and the      *)
(* depths at which the closing of a window that is not modal waits.  What  *)
(* a step does to these sets is computed once, for a frame pushed; the     *)
(* rest of the invariant is about them and the table of windows.  Every    *)
(* step also says what it shows the user (Shows), from which the           *)
(* refinement of DialogStack follows with the loops in order of depth.     *)
(***************************************************************************)
EXTENDS MCForms, Forms_proofs

\* Programs that only define and activate windows, and whose children are
\* NOAUTORELEASE: hidden when they are closed.
DialogProgram ==
  /\ Api \subseteq {"define", "activate"}
  /\ HasInit = {}
  /\ KeepAlive = Windows \ (Modals \cup {Main})

-----------------------------------------------------------------------------
(* What the invariant reads of a stack s.                                  *)

\* The slots at _SetActivationFlag.
FlaggedOf(s) == {i \in Slot : \E j \in DOMAIN s : s[j].k = "activating" /\ s[j].i = i}
\* The depths of the closing windows that are not modal.
OthersOf(s) == {j \in DOMAIN s : s[j].k = "closing" /\ s[j].w \notin Modals}

\* Blocks that may not activate; handlers and calls that wait for these and for
\* ON INTERACTIVECLOSE only.
Quiet(f) == f.k = "block" /\ f.ev \in {"release", "gotfocus"}
Busy(f)  == f.k \in {"activating", "all"} \/ (f.k = "closing" /\ f.pc # "asked")

\* Frame f may sit on frame g, with the table t.
On(f, g, t) ==
  /\ f.k \in {"block", "loop", "activating", "closing", "all"}
  /\ f.k = "loop" => \E w \in Windows : f = Loop({w})
  /\ f.k = "activating" => f.pc = "flag" /\ ~t[f.i].active /\ g = Loop({t[f.i].h})
  /\ f.k = "closing" =>
       /\ g.k = "loop" /\ t[f.i].h = f.w
       /\ f.w \in Modals => g = Loop({f.w})
       /\ f.w \notin Modals => f.pc \in {"ask", "asked"}
  /\ Query(f) => g.k = "closing"

\* The main program is the first frame.
Sits(s, t, j) ==
  IF j = 1 THEN s[j].k = "block" /\ ~Query(s[j]) ELSE On(s[j], s[j-1], t)

\* No frame but the last two is quiet or busy, and a busy one is last or below
\* a quiet one.
Crested(s) ==
  \A j \in DOMAIN s : j < Len(s) => /\ ~Quiet(s[j])
                                    /\ Busy(s[j]) => j = Len(s) - 1 /\ Quiet(s[Len(s)])

Shape(s, t) == s # <<>> /\ (\A j \in DOMAIN s : Sits(s, t, j)) /\ Crested(s)

-----------------------------------------------------------------------------
(* A frame pushed.                                                         *)

LEMMA Appended ==
  ASSUME NEW s \in Seq(Frame), NEW f \in Frame
  PROVE  /\ Append(s, f) \in Seq(Frame) /\ Len(s) \in Nat /\ Len(Append(s, f)) = Len(s) + 1
         /\ DOMAIN s = 1 .. Len(s) /\ DOMAIN Append(s, f) = 1 .. Len(s) + 1
         /\ \A j \in 1 .. Len(s) : Append(s, f)[j] = s[j]
         /\ Append(s, f)[Len(s) + 1] = f
  BY AppendProperties, LenProperties

\* What a frame at depth n adds to the sets.
LoopIn(f, n)  == {p \in {n} \X Windows : f = Loop({p[2]})}
LeavingIn(f)  == {w \in Windows : f.k = "closing" /\ f.pc = "hidden" /\ f.w = w}
FlaggedIn(f)  == {i \in Slot : f.k = "activating" /\ f.i = i}
OthersIn(f, n) == {j \in {n} : f.k = "closing" /\ f.w \notin Modals}

LEMMA AppendedSets ==
  ASSUME NEW s \in Seq(Frame), NEW f \in Frame
  PROVE  /\ LoopsOf(Append(s, f)) = LoopsOf(s) \cup LoopIn(f, Len(s) + 1)
         /\ LeavingOf(Append(s, f)) = LeavingOf(s) \cup LeavingIn(f)
         /\ FlaggedOf(Append(s, f)) = FlaggedOf(s) \cup FlaggedIn(f)
         /\ OthersOf(Append(s, f)) = OthersOf(s) \cup OthersIn(f, Len(s) + 1)
<1> DEFINE t == Append(s, f)
           n == Len(s) + 1
<1>1. /\ Len(s) \in Nat /\ DOMAIN s = 1 .. Len(s) /\ DOMAIN t = 1 .. n
      /\ \A j \in 1 .. Len(s) : t[j] = s[j]
      /\ t[n] = f
  BY Appended
<1>2. DOMAIN t = DOMAIN s \cup {n} /\ n \notin DOMAIN s /\ (\A j \in DOMAIN s : t[j] = s[j]) /\ t[n] = f
  BY <1>1
<1> HIDE DEF t, n
<1>3. LoopsOf(t) = LoopsOf(s) \cup LoopIn(f, n)
  <2>1. ASSUME NEW p \in LoopsOf(t)
        PROVE  p \in LoopsOf(s) \cup LoopIn(f, n)
    BY <1>2 DEF LoopsOf, LoopIn
  <2>2. ASSUME NEW p \in LoopsOf(s) \cup LoopIn(f, n)
        PROVE  p \in LoopsOf(t)
    BY <1>2 DEF LoopsOf, LoopIn
  <2> QED  BY <2>1, <2>2
<1>4. LeavingOf(t) = LeavingOf(s) \cup LeavingIn(f)
  BY <1>2 DEF LeavingOf, LeavingIn
<1>5. FlaggedOf(t) = FlaggedOf(s) \cup FlaggedIn(f)
  BY <1>2 DEF FlaggedOf, FlaggedIn
<1>6. OthersOf(t) = OthersOf(s) \cup OthersIn(f, n)
  BY <1>2 DEF OthersOf, OthersIn
<1> QED  BY <1>3, <1>4, <1>5, <1>6 DEF t, n

\* Frames that add to none of the sets but the last.
LEMMA PlainAdds ==
  ASSUME NEW f, f.k # "loop", f.k # "activating", ~(f.k = "closing" /\ f.pc = "hidden"), NEW n
  PROVE  LoopIn(f, n) = {} /\ LeavingIn(f) = {} /\ FlaggedIn(f) = {}
  BY DEF LoopIn, LeavingIn, FlaggedIn, Loop

LEMMA LoopEq ==
  ASSUME NEW v, NEW w
  PROVE  Loop({v}).k = "loop" /\ (Loop({v}) = Loop({w}) => v = w)
<1>1. Loop({v}).wins = {v} /\ Loop({w}).wins = {w}
  BY DEF Loop
<1> QED  BY <1>1 DEF Loop

LEMMA LoopAdds ==
  ASSUME NEW w \in Windows, NEW n
  PROVE  /\ LoopIn(Loop({w}), n) = {<<n, w>>}
         /\ LeavingIn(Loop({w})) = {} /\ FlaggedIn(Loop({w})) = {} /\ OthersIn(Loop({w}), n) = {}
<1>1. LoopIn(Loop({w}), n) = {<<n, w>>}
  <2>1. ASSUME NEW p \in {n} \X Windows
        PROVE  Loop({w}) = Loop({p[2]}) <=> p = <<n, w>>
    <3>1. PICK v \in Windows : p = <<n, v>>
      OBVIOUS
    <3>2. p[2] = v /\ (p = <<n, w>> <=> v = w)
      BY <3>1
    <3>3. Loop({w}) = Loop({v}) <=> v = w
      BY LoopEq
    <3> QED  BY <3>2, <3>3
  <2> QED  BY <2>1 DEF LoopIn
<1> QED  BY <1>1 DEF LeavingIn, FlaggedIn, OthersIn, Loop

\* A stack and the frames under its top.
LEMMA Popped ==
  ASSUME stack \in Seq(Frame), stack # <<>>
  PROVE  /\ Below \in Seq(Frame) /\ Top \in Frame /\ stack = Append(Below, Top)
         /\ Len(stack) \in Nat \ {0} /\ Len(Below) = Len(stack) - 1
         /\ DOMAIN stack = 1 .. Len(stack) /\ DOMAIN Below = 1 .. Len(stack) - 1
         /\ (\A j \in 1 .. Len(stack) - 1 : Below[j] = stack[j]) /\ stack[Len(stack)] = Top
<1>1. Below \in Seq(Frame) /\ Top \in Frame /\ Len(stack) \in Nat \ {0} /\ DOMAIN stack = 1 .. Len(stack)
  BY StackFacts, LenProperties
<1>4. Len(Below) = Len(stack) - 1 /\ (\A j \in 1 .. Len(stack) - 1 : Below[j] = stack[j])
  <2>1. Len(stack) - 1 \in 0 .. Len(stack)
    BY <1>1
  <2> QED  BY <2>1, Prefix DEF Below
<1>5. DOMAIN Below = 1 .. Len(stack) - 1
  BY <1>1, <1>4, LenProperties
<1>6. stack[Len(stack)] = Top
  BY DEF Top
<1> DEFINE u == Append(Below, Top)
<1>7. u \in Seq(Frame) /\ Len(u) = Len(stack) /\ (\A j \in 1 .. Len(stack) - 1 : u[j] = stack[j])
      /\ u[Len(stack)] = Top
  <2>1. /\ u \in Seq(Frame) /\ Len(u) = Len(Below) + 1
        /\ (\A j \in 1 .. Len(Below) : u[j] = Below[j]) /\ u[Len(Below) + 1] = Top
    BY <1>1, Appended
  <2> QED  BY <1>1, <1>4, <2>1
<1>8. stack = u
  <2> HIDE DEF u
  <2>1. \A j \in 1 .. Len(stack) : u[j] = stack[j]
    BY <1>1, <1>6, <1>7
  <2> QED  BY <1>7, <2>1, SeqEqual
<1> QED  BY <1>1, <1>4, <1>5, <1>6, <1>8

\* A stack keeps its shape under a frame that may be there.
LEMMA ShapeAppend ==
  ASSUME NEW s \in Seq(Frame), s # <<>>, NEW f \in Frame, NEW t
  PROVE  Shape(Append(s, f), t) <=>
           /\ Shape(s, t) /\ On(f, s[Len(s)], t)
           /\ ~Quiet(s[Len(s)]) /\ (Busy(s[Len(s)]) => Quiet(f))
<1>0. PICK n \in Nat : n = Len(s)
  BY Appended
<1> DEFINE u == Append(s, f)
           g == s[n]
<1>1. /\ n \in Nat /\ DOMAIN s = 1 .. n /\ DOMAIN u = 1 .. n + 1 /\ Len(u) = n + 1
      /\ \A j \in 1 .. n : u[j] = s[j]
      /\ u[n + 1] = f
  BY <1>0, Appended
<1>2. n > 0
  BY <1>0, EmptySeq
<1>3. \A j \in 1 .. n : Sits(u, t, j) <=> Sits(s, t, j)
  <2>1. \A j \in 1 .. n : j # 1 => u[j-1] = s[j-1]
    BY <1>1
  <2> QED  BY <1>1, <2>1 DEF Sits
<1>4. Sits(u, t, n + 1) <=> On(f, g, t)
  <2>1. n + 1 # 1 /\ n + 1 - 1 = n /\ u[n] = g
    BY <1>1, <1>2
  <2> QED  BY <1>1, <2>1 DEF Sits
<1>5. u # <<>>
  BY <1>1, <1>2
<1> HIDE DEF u
<1>6. ASSUME Shape(u, t)
      PROVE  Shape(s, t) /\ On(f, g, t) /\ ~Quiet(g) /\ (Busy(g) => Quiet(f))
  <2>1. (\A j \in DOMAIN s : Sits(s, t, j)) /\ On(f, g, t)
    <3>1. \A j \in 1 .. n + 1 : Sits(u, t, j)
      BY <1>1, <1>6 DEF Shape
    <3>2. n + 1 \in 1 .. n + 1 /\ \A j \in 1 .. n : j \in 1 .. n + 1
      BY <1>1
    <3> QED  BY <1>1, <1>3, <1>4, <3>1, <3>2
  <2>2. \A j \in 1 .. n : ~Quiet(s[j]) /\ (Busy(s[j]) => j = n /\ Quiet(f))
    <3>1. ASSUME NEW j \in 1 .. n
          PROVE  ~Quiet(s[j]) /\ (Busy(s[j]) => j = n /\ Quiet(f))
      <4>1. j \in DOMAIN u /\ j < Len(u) /\ u[j] = s[j] /\ Len(u) - 1 = n
        BY <1>1
      <4>2. ~Quiet(u[j]) /\ (Busy(u[j]) => j = Len(u) - 1 /\ Quiet(u[Len(u)]))
        BY <1>6, <4>1 DEF Shape, Crested
      <4> QED  BY <1>1, <4>1, <4>2
    <3> QED  BY <3>1
  <2>3. Crested(s)
    <3>1. \A j \in DOMAIN s : j < n => ~Quiet(s[j]) /\ ~Busy(s[j])
      BY <1>1, <2>2
    <3> QED  BY <1>0, <3>1 DEF Crested
  <2>4. ~Quiet(g) /\ (Busy(g) => Quiet(f))
    BY <1>1, <1>2, <2>2
  <2> QED  BY <2>1, <2>3, <2>4 DEF Shape
<1>7. ASSUME Shape(s, t), On(f, g, t), ~Quiet(g), Busy(g) => Quiet(f)
      PROVE  Shape(u, t)
  <2>1. ASSUME NEW j \in DOMAIN u
        PROVE  Sits(u, t, j)
    <3>1. CASE j = n + 1
      BY <1>4, <1>7, <3>1
    <3>2. CASE j # n + 1
      <4>1. j \in 1 .. n
        BY <1>1, <3>2
      <4> QED  BY <1>1, <1>3, <1>7, <4>1 DEF Shape
    <3> QED  BY <3>1, <3>2
  <2>2. ASSUME NEW j \in DOMAIN u, j < Len(u)
        PROVE  ~Quiet(u[j]) /\ (Busy(u[j]) => j = Len(u) - 1 /\ Quiet(u[Len(u)]))
    <3>1. j \in 1 .. n /\ u[j] = s[j] /\ Len(u) - 1 = n /\ u[Len(u)] = f
      BY <1>1, <2>2
    <3>2. CASE j = n
      BY <1>7, <3>1, <3>2
    <3>3. CASE j # n
      <4>1. j \in DOMAIN s /\ j < Len(s)
        BY <1>0, <1>1, <3>1, <3>3
      <4>2. ~Quiet(s[j]) /\ (Busy(s[j]) => Quiet(g))
        BY <1>0, <1>7, <4>1 DEF Shape, Crested
      <4> QED  BY <1>7, <3>1, <4>2
    <3> QED  BY <3>2, <3>3
  <2>3. Crested(u)
    BY <2>2 DEF Crested
  <2> QED  BY <1>5, <2>1, <2>3 DEF Shape
<1> QED  BY <1>0, <1>6, <1>7 DEF u

\* The table may change where no frame looks.
LEMMA ShapeTable ==
  ASSUME NEW s, NEW t, NEW v, Shape(s, t),
         \A j \in DOMAIN s :
           /\ s[j].k = "closing" => v[s[j].i].h = t[s[j].i].h
           /\ s[j].k = "activating" => v[s[j].i].h = t[s[j].i].h /\ ~v[s[j].i].active
  PROVE  Shape(s, v)
<1>1. ASSUME NEW j \in DOMAIN s
      PROVE  Sits(s, v, j)
  <2>1. Sits(s, t, j)
    BY DEF Shape
  <2>2. CASE s[j].k = "closing"
    BY <2>1, <2>2 DEF Sits, On
  <2>3. CASE s[j].k = "activating"
    BY <2>1, <2>3 DEF Sits, On
  <2>4. CASE s[j].k \notin {"closing", "activating"}
    BY <2>1, <2>4 DEF Sits, On
  <2> QED  BY <2>2, <2>3, <2>4
<1> QED  BY <1>1 DEF Shape

\* Under a frame that is neither quiet nor busy nothing is either.
LEMMA Rested ==
  ASSUME NEW s \in Seq(Frame), NEW t, Shape(s, t), ~Quiet(s[Len(s)]), ~Busy(s[Len(s)])
  PROVE  LeavingOf(s) = {} /\ FlaggedOf(s) = {} /\ \A j \in DOMAIN s : ~Quiet(s[j]) /\ ~Busy(s[j])
<1>0. PICK n \in Nat : n = Len(s) /\ DOMAIN s = 1 .. n
  BY LenProperties
<1>1. ASSUME NEW j \in DOMAIN s
      PROVE  ~Quiet(s[j]) /\ ~Busy(s[j])
  <2>1. CASE j < n
    BY <1>0, <2>1 DEF Shape, Crested
  <2>2. CASE ~(j < n)
    <3>1. j = n
      BY <1>0, <2>2
    <3> QED  BY <1>0, <3>1
  <2> QED  BY <2>1, <2>2
<1>2. \A j \in DOMAIN s : s[j].k # "activating" /\ ~(s[j].k = "closing" /\ s[j].pc = "hidden")
  BY <1>1 DEF Busy
<1> QED  BY <1>1, <1>2 DEF LeavingOf, FlaggedOf

-----------------------------------------------------------------------------
(* The invariant.                                                          *)

Flagged == FlaggedOf(stack)
Others  == OthersOf(stack)

Looping == {p[2] : p \in Loops}

\* p is the innermost of the loops r; the loops of r outside p.
Deepest(r, p)    == p \in r /\ \A q \in r : q[1] <= p[1]
Outside(r, p) == {q \in r : q[1] < p[1]}

\* Every window has one loop, from its activation on; only a modal window that
\* was destroyed leaves its loop, on top, with WM_QUIT to end it.
Waits ==
  /\ \A p, q \in Loops : p[2] = q[2] => p = q
  /\ \A i \in Slot : form[i].active => form[i].h \in Looping
  /\ \A i \in Slot : form[i].h \in Looping => form[i].active \/ i \in Flagged
  /\ \A p \in Loops : p[2] \notin Live => p[1] = Len(stack) /\ quit
  /\ quit => \E p \in Loops : p[1] = Len(stack) /\ p[2] \notin Live
  /\ \A i \in Slot : form[i].id = 0
  /\ posted = <<>>

\* Only activated windows are visible, modal ones until they are destroyed; the
\* window last used, while it exists, is active.
Seen ==
  /\ visible \subseteq Live \cap Looping
  /\ Modals \cap Live \cap Looping \subseteq visible
  /\ enabled \subseteq Live
  /\ userWindow \in defined \cup {NoWin}
  /\ \A i \in Slot : form[i].h = userWindow /\ userWindow # NoWin => form[i].active

\* v is the window of the innermost loop of r, a window that is not modal when
\* there is none.
Nested(r, v) == IF r = {} THEN v \in Windows \ Modals ELSE \E q \in r : Deepest(r, q) /\ q[2] = v

\* The parent of a modal window is the window of the next modal loop out.
Parents ==
  \A i \in Slot : form[i].h # NoWin =>
    /\ form[i].h \notin Modals => form[i].parent = NoWin
    /\ form[i].h \in Modals \ Looping => form[i].parent = Main
    /\ \A p \in ModalLoops : p[2] = form[i].h => Nested(Outside(ModalLoops, p), form[i].parent)

\* Modal loops run over everything that is not modal.
Order ==
  \A p \in ModalLoops : /\ \A q \in Loops : q[2] \notin Modals => q[1] < p[1]
                        /\ \A j \in Others : j < p[1]

\* The active modal window is the one of the innermost modal loop, and alone can
\* be used.
Modality ==
  IF isModal
  THEN /\ \E q \in OpenLoops : Deepest(OpenLoops, q) /\ q[2] = activeModal
       /\ (visible \cap enabled) \ Leaving = {activeModal}
  ELSE OpenLoops = {}

DInv == Shape(stack, form) /\ Waits /\ Seen /\ Parents /\ Order /\ Modality

\* What a step shows the user: nothing, a window opened as a modal one or closed
\* as such, a window shown or hidden while no modal window is open.
Rests == OpenLoops' = OpenLoops /\ visible' \ Leaving' = visible \ Leaving
OpensOne ==
  \E p \in Loops' :
    /\ p[2] \in Modals \ visible /\ OpenLoops' = OpenLoops \cup {p}
    /\ \A q \in OpenLoops : q[1] < p[1] /\ q[2] # p[2]
    /\ visible' = visible \cup {p[2]} /\ Leaving = {} /\ Leaving' = {}
ClosesOne ==
  \E p \in OpenLoops :
    /\ OpenLoops' = OpenLoops \ {p}
    /\ \A q \in OpenLoops' : q[1] < p[1]
    /\ visible' = visible /\ Leaving = {} /\ Leaving' = {p[2]}
ShowsOne ==
  \E w \in Windows :
    /\ OpenLoops = {} /\ OpenLoops' = {} /\ Leaving = {} /\ Leaving' = {}
    /\ w \notin visible /\ visible' = visible \cup {w}
HidesOne ==
  \E w \in Windows :
    /\ OpenLoops = {} /\ OpenLoops' = {} /\ Leaving = {} /\ Leaving' = {}
    /\ w \in visible \cap enabled /\ visible' = visible \ {w}
Shows == Rests \/ OpensOne \/ ClosesOne \/ ShowsOne \/ HidesOne

\* A step keeps the invariant, and every loop whose window is left.
Advances ==
  /\ DInv' /\ Shows
  /\ \A p \in Loops : p \in Loops' \/ p[2] \notin Live'

-----------------------------------------------------------------------------
(* Facts about the loops.                                                  *)

LEMMA LoopFacts ==
  ASSUME stack \in Seq(Frame)
  PROVE  /\ \A p \in Loops : /\ p = <<p[1], p[2]>> /\ p[1] \in DOMAIN stack /\ p[1] \in Nat
                             /\ p[2] \in Windows /\ stack[p[1]] = Loop({p[2]})
                             /\ stack[p[1]].k = "loop"
         /\ \A p, q \in Loops : p[1] = q[1] => p = q
         /\ Looping \subseteq Windows
<1>1. ASSUME NEW p \in Loops
      PROVE  /\ p = <<p[1], p[2]>> /\ p[1] \in DOMAIN stack /\ p[1] \in Nat
             /\ p[2] \in Windows /\ stack[p[1]] = Loop({p[2]})
             /\ stack[p[1]].k = "loop"
  <2>1. p \in (DOMAIN stack) \X Windows /\ stack[p[1]] = Loop({p[2]})
    BY DEF Loops, LoopsOf
  <2>2. DOMAIN stack \subseteq Nat
    BY LenProperties
  <2>3. PICK j \in DOMAIN stack, w \in Windows : p = <<j, w>>
    BY <2>1
  <2>4. p[1] = j /\ p[2] = w /\ stack[j] = Loop({w})
    BY <2>1, <2>3
  <2>5. stack[j].k = "loop"
    BY <2>4, LoopEq
  <2> QED  BY <2>2, <2>3, <2>4, <2>5
<1>2. ASSUME NEW p \in Loops, NEW q \in Loops, p[1] = q[1]
      PROVE  p = q
  <2>1. Loop({p[2]}) = Loop({q[2]})
    BY <1>1, <1>2
  <2>2. p[2] = q[2]
    BY <2>1, LoopEq
  <2> QED  BY <1>1, <1>2, <2>2
<1> QED  BY <1>1, <1>2 DEF Looping

\* A loop on top is one of the loops.
LEMMA TopLoop ==
  ASSUME stack \in Seq(Frame), stack # <<>>, Shape(stack, form), Top.k = "loop"
  PROVE  \E p \in Loops : p[1] = Len(stack) /\ Top = Loop({p[2]})
<1>1. PICK n \in Nat : n = Len(stack) /\ DOMAIN stack = 1 .. n /\ n # 0 /\ stack[n] = Top
  BY Popped
<1>2. n \in DOMAIN stack /\ Sits(stack, form, n)
  BY <1>1 DEF Shape
<1>3. PICK w \in Windows : stack[n] = Loop({w})
  BY <1>1, <1>2 DEF Sits, On
<1>4. <<n, w>> \in Loops
  BY <1>2, <1>3 DEF Loops, LoopsOf
<1> QED  BY <1>1, <1>3, <1>4

\* WM_QUIT is pending under a loop only.
LEMMA QuitTop ==
  ASSUME stack \in Seq(Frame), Waits, Top.k # "loop"
  PROVE  ~quit /\ \A p \in Loops : p[2] \in Live
<1>1. \A p \in Loops : p[1] # Len(stack)
  BY LoopFacts DEF Top
<1> QED  BY <1>1 DEF Waits

-----------------------------------------------------------------------------
(* Steps that leave the loops alone.                                       *)

\* The focus went to an active window, or nowhere.
UserKept == userWindow' = userWindow \/ \E i \in Slot : form[i].active /\ userWindow' = form[i].h

\* No window comes, goes or becomes active.
SameSlots ==
  \A i \in Slot : form'[i].h = form[i].h /\ form'[i].active = form[i].active /\ form'[i].id = form[i].id

LEMMA UserSeen ==
  ASSUME IInv, Seen, UserKept, UNCHANGED defined, SameSlots
  PROVE  /\ userWindow' \in defined' \cup {NoWin}
         /\ \A i \in Slot : form'[i].h = userWindow' /\ userWindow' # NoWin => form'[i].active
<1>1. CASE userWindow' = userWindow
  BY <1>1 DEF Seen, SameSlots
<1>2. ASSUME NEW k \in Slot, form[k].active, userWindow' = form[k].h
      PROVE  /\ userWindow' \in defined' \cup {NoWin}
             /\ \A i \in Slot : form'[i].h = userWindow' /\ userWindow' # NoWin => form'[i].active
  <2>1. form[k].h \in Live \cup {NoWin}
    BY DEF Live
  <2> QED  BY <1>2, <2>1 DEF IInv, OneSlot, SameSlots
<1> QED  BY <1>1, <1>2 DEF UserKept

LEMMA Calm ==
  ASSUME IInv, DInv, ~quit, Shape(stack', form'),
         Loops' = Loops, Leaving' = Leaving, Flagged \subseteq Flagged',
         Others' \subseteq Others \/ ModalLoops = {},
         UserKept, UNCHANGED <<defined, form, desktop, queue, modal>>
  PROVE  Advances
<1>1. Live' = Live /\ Looping' = Looping /\ ModalLoops' = ModalLoops /\ OpenLoops' = OpenLoops
  BY DEF Live, Looping, ModalLoops, OpenLoops
<1>2. Waits'
  <2>1. \A p \in Loops : p[2] \in Live
    BY DEF DInv, Waits
  <2> QED  BY <1>1, <2>1 DEF DInv, Waits, queue
<1>3. Seen'
  <2>1. SameSlots
    BY DEF SameSlots
  <2> QED  BY <1>1, <2>1, UserSeen DEF DInv, Seen, desktop
<1>4. Parents' /\ Order'
  BY <1>1 DEF DInv, Parents, Order
<1>5. Modality'
  BY <1>1 DEF DInv, Modality, desktop, modal
<1>6. Shows
  BY <1>1 DEF Shows, Rests, desktop
<1> QED  BY <1>2, <1>3, <1>4, <1>5, <1>6 DEF DInv, Advances

-----------------------------------------------------------------------------
(* The focus: an ON GOTFOCUS block runs over s, or nothing.                *)

FocusBlock(s) == stack' = s \/ \E i \in Slot : stack' = Append(s, Block("gotfocus", i))

LEMMA SetFocusSteps ==
  ASSUME NEW w, NEW s, SetFocus(w, s)
  PROVE  FocusBlock(s) /\ UserKept
<1>1. CASE stack' = s /\ UNCHANGED userWindow
  BY <1>1 DEF FocusBlock, UserKept
<1>2. ASSUME NEW i \in Slot, form[i].h = w,
             userWindow' = IF form[i].active THEN w ELSE userWindow,
             stack' = IF w \in HasGotFocus THEN Append(s, Block("gotfocus", i)) ELSE s
      PROVE  FocusBlock(s) /\ UserKept
  BY <1>2 DEF FocusBlock, UserKept
<1> QED  BY <1>1, <1>2 DEF SetFocus, Holds

LEMMA PassFocusSteps ==
  ASSUME NEW i, NEW s, PassFocus(i, s)
  PROVE  FocusBlock(s) /\ UserKept
<1>1. CASE stack' = s /\ UNCHANGED userWindow
  BY <1>1 DEF FocusBlock, UserKept
<1>2. CASE \E v \in (visible \cap enabled) \ {form[i].h} : SetFocus(v, s)
  BY <1>2, SetFocusSteps
<1> QED  BY <1>1, <1>2 DEF PassFocus

\* What FocusBlock(s) leaves of s.
LEMMA FocusSets ==
  ASSUME NEW s \in Seq(Frame), s # <<>>, NEW t, Shape(s, t), ~Quiet(s[Len(s)]), FocusBlock(s)
  PROVE  /\ Shape(stack', t)
         /\ Loops' = LoopsOf(s) /\ Leaving' = LeavingOf(s)
         /\ Flagged' = FlaggedOf(s) /\ Others' = OthersOf(s)
<1>1. CASE stack' = s
  BY <1>1 DEF Loops, Leaving, Flagged, Others
<1>2. ASSUME NEW i \in Slot, stack' = Append(s, Block("gotfocus", i))
      PROVE  /\ Shape(stack', t)
             /\ Loops' = LoopsOf(s) /\ Leaving' = LeavingOf(s)
             /\ Flagged' = FlaggedOf(s) /\ Others' = OthersOf(s)
  <2> DEFINE f == Block("gotfocus", i)
  <2>1. f \in Frame
    BY Frames DEF BlockEvents
  <2>2. f.k = "block" /\ f.ev = "gotfocus"
    BY DEF Block
  <2> HIDE DEF f
  <2>3. Quiet(f) /\ ~Query(f) /\ \A g : On(f, g, t)
    BY <2>2 DEF Quiet, Query, On
  <2>4. Shape(Append(s, f), t)
    BY <2>1, <2>3, ShapeAppend
  <2>5. \A n : LoopIn(f, n) = {} /\ LeavingIn(f) = {} /\ FlaggedIn(f) = {} /\ OthersIn(f, n) = {}
    BY <2>2, PlainAdds DEF OthersIn
  <2>6. /\ LoopsOf(Append(s, f)) = LoopsOf(s) /\ LeavingOf(Append(s, f)) = LeavingOf(s)
        /\ FlaggedOf(Append(s, f)) = FlaggedOf(s) /\ OthersOf(Append(s, f)) = OthersOf(s)
    <3>1. /\ LoopsOf(Append(s, f)) = LoopsOf(s) \cup LoopIn(f, Len(s) + 1)
          /\ LeavingOf(Append(s, f)) = LeavingOf(s) \cup LeavingIn(f)
          /\ FlaggedOf(Append(s, f)) = FlaggedOf(s) \cup FlaggedIn(f)
          /\ OthersOf(Append(s, f)) = OthersOf(s) \cup OthersIn(f, Len(s) + 1)
      BY <2>1, AppendedSets
    <3>2. /\ LoopIn(f, Len(s) + 1) = {} /\ LeavingIn(f) = {} /\ FlaggedIn(f) = {}
          /\ OthersIn(f, Len(s) + 1) = {}
      BY <2>5
    <3> QED  BY <3>1, <3>2
  <2> QED  BY <1>2, <2>4, <2>6 DEF Loops, Leaving, Flagged, Others, f
<1> QED  BY <1>1, <1>2 DEF FocusBlock

-----------------------------------------------------------------------------
(* The frame on top.                                                       *)

\* What the frame on top adds, and the stack under it.
LEMMA TopSets ==
  ASSUME stack \in Seq(Frame), stack # <<>>, Shape(stack, form)
  PROVE  /\ Loops = LoopsOf(Below) \cup LoopIn(Top, Len(stack))
         /\ Leaving = LeavingOf(Below) \cup LeavingIn(Top)
         /\ Flagged = FlaggedOf(Below) \cup FlaggedIn(Top)
         /\ Others = OthersOf(Below) \cup OthersIn(Top, Len(stack))
<1>1. Below \in Seq(Frame) /\ Top \in Frame /\ stack = Append(Below, Top) /\ Len(Below) + 1 = Len(stack)
  BY Popped
<1> DEFINE b == Below
           f == Top
<1> HIDE DEF b, f
<1>2. /\ LoopsOf(Append(b, f)) = LoopsOf(b) \cup LoopIn(f, Len(b) + 1)
      /\ LeavingOf(Append(b, f)) = LeavingOf(b) \cup LeavingIn(f)
      /\ FlaggedOf(Append(b, f)) = FlaggedOf(b) \cup FlaggedIn(f)
      /\ OthersOf(Append(b, f)) = OthersOf(b) \cup OthersIn(f, Len(b) + 1)
  BY <1>1, AppendedSets DEF b, f
<1> QED  BY <1>1, <1>2 DEF b, f, Loops, Leaving, Flagged, Others

\* The frame under the top.
Under == Below[Len(Below)]

\* Under anything but the main program there is a well-formed stack.
LEMMA TopOn ==
  ASSUME stack \in Seq(Frame), stack # <<>>, Shape(stack, form), Len(stack) # 1 \/ Top.k # "block"
  PROVE  /\ Below # <<>> /\ Len(stack) > 1 /\ Len(Below) = Len(stack) - 1
         /\ Under = stack[Len(stack) - 1] /\ Under \in Frame
         /\ Shape(Below, form) /\ On(Top, Under, form) /\ ~Quiet(Under) /\ (Busy(Under) => Quiet(Top))
<1>1. PICK n \in Nat : n = Len(stack) /\ n # 0 /\ DOMAIN stack = 1 .. n /\ stack[n] = Top
  BY Popped
<1>2. n # 1
  <2>1. n \in DOMAIN stack /\ Sits(stack, form, n)
    BY <1>1 DEF Shape
  <2> QED  BY <1>1, <2>1 DEF Sits
<1>3. /\ Below \in Seq(Frame) /\ Top \in Frame /\ stack = Append(Below, Top) /\ Len(Below) = n - 1
      /\ DOMAIN Below = 1 .. n - 1 /\ \A j \in 1 .. n - 1 : Below[j] = stack[j]
  BY <1>1, Popped
<1>4. Below # <<>> /\ n - 1 \in 1 .. n - 1
  BY <1>1, <1>2, <1>3
<1>5. Below[n-1] = stack[n-1] /\ Below[n-1] \in Frame
  <2>1. Below[n-1] \in Frame
    BY <1>3, <1>4, ElementOfSeq
  <2> QED  BY <1>3, <1>4, <2>1
<1> DEFINE b == Below
           f == Top
<1> HIDE DEF b, f
<1>6. Shape(Append(b, f), form)
  BY <1>3 DEF b, f
<1>7. Shape(b, form) /\ On(f, b[Len(b)], form) /\ ~Quiet(b[Len(b)]) /\ (Busy(b[Len(b)]) => Quiet(f))
  BY <1>3, <1>4, <1>6, ShapeAppend DEF b, f
<1>8. n > 1
  BY <1>1, <1>2
<1> QED  BY <1>1, <1>3, <1>4, <1>5, <1>7, <1>8 DEF b, f, Under

\* The premises of the action lemmas.
Ready == IInv /\ IInv' /\ DInv /\ stack # <<>>

LEMMA ReadyFacts ==
  ASSUME Ready
  PROVE  /\ IInv /\ DInv /\ stack \in Seq(Frame) /\ stack' \in Seq(Frame) /\ stack # <<>>
         /\ Shape(stack, form) /\ Waits /\ Seen /\ Parents /\ Order /\ Modality
         /\ form \in [Slot -> Form] /\ form' \in [Slot -> Form]
  BY DEF Ready, IInv, TypeOK, DInv

\* Popping a block.
LEMMA ReturnDInv ==
  ASSUME Ready, Return
  PROVE  Advances
<1>1. Top.k = "block" /\ UNCHANGED <<defined, form, desktop, queue, modal, userWindow>>
  BY DEF Return, OnTop
<1>2. ~quit /\ UserKept
  BY <1>1, ReadyFacts, QuitTop DEF UserKept
<1>3. CASE UNCHANGED stack
  BY <1>1, <1>2, <1>3, ReadyFacts, Calm DEF Loops, Leaving, Flagged, Others
<1>4. \A n : LoopIn(Top, n) = {} /\ LeavingIn(Top) = {} /\ FlaggedIn(Top) = {} /\ OthersIn(Top, n) = {}
  BY <1>1, PlainAdds DEF OthersIn
<1>5. /\ Loops = LoopsOf(Below) /\ Leaving = LeavingOf(Below)
      /\ Flagged = FlaggedOf(Below) /\ Others = OthersOf(Below)
  BY <1>4, ReadyFacts, TopSets
<1>6. CASE Len(stack) > 1 /\ stack' = Below
  <2>1. Len(stack) # 1
    <3>1. PICK n \in Nat : n = Len(stack)
      BY ReadyFacts, Popped
    <3> QED  BY <1>6, <3>1
  <2>2. Shape(Below, form)
    BY <2>1, ReadyFacts, TopOn
  <2>3. Shape(stack', form')
    BY <1>1, <1>6, <2>2
  <2> QED  BY <1>1, <1>2, <1>5, <1>6, <2>3, ReadyFacts, Calm DEF Loops, Leaving, Flagged, Others
<1>7. CASE Len(stack) > 2 /\ Query(Top) /\ stack' = SubSeq(stack, 1, Len(stack) - 2)
  <2> DEFINE b == Below
             n == Len(stack)
             c == SubSeq(stack, 1, n - 2)
             f == Under
  <2>1. /\ b \in Seq(Frame) /\ b # <<>> /\ Shape(b, form) /\ On(Top, f, form) /\ f \in Frame
        /\ Len(b) = n - 1 /\ (Busy(f) => Quiet(Top))
    <3>1. PICK m \in Nat : m = Len(stack)
      BY ReadyFacts, Popped
    <3>2. Len(stack) # 1
      BY <1>7, <3>1
    <3> QED  BY <3>2, ReadyFacts, Popped, TopOn
  <2>2. f.k = "closing"
    BY <1>7, <2>1 DEF On
  <2>3. ~Quiet(Top)
    BY <1>7 DEF Query, Quiet
  <2>4. f.pc = "asked"
    BY <2>1, <2>2, <2>3 DEF Busy
  <2>5. c \in Seq(Frame) /\ Len(c) = n - 2 /\ b = Append(c, f) /\ c # <<>>
    <3>1. PICK m \in Nat : m = Len(stack) /\ m > 2
      BY <1>7, ReadyFacts, Popped
    <3>2. c \in Seq(Frame) /\ Len(c) = m - 2 /\ (\A j \in 1 .. m - 2 : c[j] = stack[j])
      <4>1. m - 2 \in 0 .. Len(stack)
        BY <3>1
      <4> QED  BY <3>1, <4>1, ReadyFacts, Prefix
    <3>3. Len(b) = m - 1 /\ (\A j \in 1 .. m - 1 : b[j] = stack[j]) /\ f = b[m - 1]
      BY <2>1, <3>1, ReadyFacts, Popped DEF Under
    <3> HIDE DEF c, f, b, n
    <3>4. /\ Append(c, f) \in Seq(Frame) /\ Len(Append(c, f)) = m - 2 + 1
          /\ (\A j \in 1 .. m - 2 : Append(c, f)[j] = c[j]) /\ Append(c, f)[m - 2 + 1] = f
      BY <2>1, <3>2, Appended
    <3>5. \A j \in 1 .. m - 1 : Append(c, f)[j] = b[j]
      <4>1. ASSUME NEW j \in 1 .. m - 1
            PROVE  Append(c, f)[j] = b[j]
        <5>1. CASE j = m - 1
          BY <3>1, <3>3, <3>4, <5>1
        <5>2. CASE j # m - 1
          <6>1. j \in 1 .. m - 2
            BY <3>1, <5>2
          <6> QED  BY <3>2, <3>3, <3>4, <6>1
        <5> QED  BY <5>1, <5>2
      <4> QED  BY <4>1
    <3>6. Len(Append(c, f)) = m - 1
      BY <3>1, <3>4
    <3>7. b = Append(c, f)
      BY <2>1, <3>3, <3>4, <3>5, <3>6, SeqEqual
    <3>8. c # <<>>
      <4>1. m - 2 # 0
        BY <3>1
      <4> QED  BY <3>2, <4>1, EmptySeq
    <3> QED  BY <3>1, <3>2, <3>7, <3>8 DEF n
  <2> HIDE DEF b, c, f, n
  <2>6. Shape(c, form) /\ On(f, c[Len(c)], form)
    BY <2>1, <2>5, ShapeAppend
  <2>7. \A k : LoopIn(f, k) = {} /\ LeavingIn(f) = {} /\ FlaggedIn(f) = {}
    BY <2>2, <2>4, PlainAdds
  <2>8. /\ LoopsOf(b) = LoopsOf(c) /\ LeavingOf(b) = LeavingOf(c)
        /\ FlaggedOf(b) = FlaggedOf(c) /\ OthersOf(c) \subseteq OthersOf(b)
    <3>1. /\ LoopsOf(b) = LoopsOf(c) \cup LoopIn(f, Len(c) + 1)
          /\ LeavingOf(b) = LeavingOf(c) \cup LeavingIn(f)
          /\ FlaggedOf(b) = FlaggedOf(c) \cup FlaggedIn(f)
          /\ OthersOf(b) = OthersOf(c) \cup OthersIn(f, Len(c) + 1)
      BY <2>1, <2>5, AppendedSets
    <3>2. LoopIn(f, Len(c) + 1) = {} /\ LeavingIn(f) = {} /\ FlaggedIn(f) = {}
      BY <2>7
    <3> QED  BY <3>1, <3>2
  <2>9. stack' = c
    BY <1>7 DEF c, n
  <2> QED  BY <1>1, <1>2, <1>5, <2>6, <2>8, <2>9, ReadyFacts, Calm DEF Loops, Leaving, Flagged, Others, b
<1> QED  BY <1>1, <1>3, <1>6, <1>7 DEF Return, Query

-----------------------------------------------------------------------------
(* The shapes of the steps.                                                *)

\* A block over s.
LEMMA BlockSets ==
  ASSUME NEW s \in Seq(Frame), s # <<>>, NEW t, Shape(s, t), ~Quiet(s[Len(s)]),
         NEW g \in Frame, g.k = "block", Query(g) => s[Len(s)].k = "closing",
         Busy(s[Len(s)]) => Quiet(g)
  PROVE  /\ Shape(Append(s, g), t)
         /\ LoopsOf(Append(s, g)) = LoopsOf(s) /\ LeavingOf(Append(s, g)) = LeavingOf(s)
         /\ FlaggedOf(Append(s, g)) = FlaggedOf(s) /\ OthersOf(Append(s, g)) = OthersOf(s)
<1>1. On(g, s[Len(s)], t)
  BY DEF On
<1>2. Shape(Append(s, g), t)
  BY <1>1, ShapeAppend
<1>3. /\ LoopIn(g, Len(s) + 1) = {} /\ LeavingIn(g) = {} /\ FlaggedIn(g) = {}
      /\ OthersIn(g, Len(s) + 1) = {}
  BY PlainAdds DEF OthersIn
<1>4. /\ LoopsOf(Append(s, g)) = LoopsOf(s) \cup LoopIn(g, Len(s) + 1)
      /\ LeavingOf(Append(s, g)) = LeavingOf(s) \cup LeavingIn(g)
      /\ FlaggedOf(Append(s, g)) = FlaggedOf(s) \cup FlaggedIn(g)
      /\ OthersOf(Append(s, g)) = OthersOf(s) \cup OthersIn(g, Len(s) + 1)
  BY AppendedSets
<1> QED  BY <1>2, <1>3, <1>4

\* Concatenations of at most one frame.
LEMMA Concat ==
  ASSUME NEW s \in Seq(Frame), NEW g \in Frame
  PROVE  s \o <<g>> = Append(s, g) /\ s \o <<>> = s
  BY AppendProperties, ConcatProperties

\* A loop that runs: nothing is busy and every loop has its window.
LEMMA IdleFacts ==
  ASSUME Ready, Idle
  PROVE  /\ Top.k = "loop" /\ ~Quiet(Top) /\ ~Busy(Top) /\ ~quit /\ Leaving = {} /\ Flagged = {}
         /\ OpenLoops = ModalLoops
         /\ \A j \in DOMAIN stack : ~Quiet(stack[j]) /\ ~Busy(stack[j])
         /\ \E p \in Loops : p[1] = Len(stack) /\ Top = Loop({p[2]})
<1>1. PICK n \in Nat : n = Len(stack) /\ n # 0 /\ DOMAIN stack = 1 .. n /\ stack[n] = Top
  BY ReadyFacts, Popped
<1>2. Top.k = "loop"
  <2>1. n \in DOMAIN stack /\ Sits(stack, form, n)
    BY <1>1, ReadyFacts DEF Shape
  <2>2. Top.k \in {"block", "loop", "activating", "closing", "all"}
    BY <1>1, <2>1 DEF Sits, On
  <2> QED  BY <2>2 DEF Idle, Pumping
<1>3. ~Quiet(Top) /\ ~Busy(Top) /\ ~quit
  BY <1>2 DEF Quiet, Busy, Idle
<1>4. Leaving = {} /\ Flagged = {} /\ \A j \in DOMAIN stack : ~Quiet(stack[j]) /\ ~Busy(stack[j])
  <2>1. ~Quiet(stack[Len(stack)]) /\ ~Busy(stack[Len(stack)])
    BY <1>1, <1>3
  <2> QED  BY <2>1, ReadyFacts, Rested DEF Leaving, Flagged
<1>5. OpenLoops = ModalLoops
  BY <1>3, <1>4, ReadyFacts DEF Waits, OpenLoops, ModalLoops
<1> QED  BY <1>2, <1>3, <1>4, <1>5, ReadyFacts, TopLoop

LEMMA UserFocusDInv ==
  ASSUME Ready, NEW w \in Windows, UserFocus(w)
  PROVE  Advances
<1>1. Idle /\ SetFocus(w, stack) /\ UNCHANGED <<defined, form, desktop, queue, modal>>
  BY DEF UserFocus
<1>2. FocusBlock(stack) /\ UserKept
  BY <1>1, SetFocusSteps
<1>3. ~Quiet(stack[Len(stack)]) /\ ~quit
  BY <1>1, IdleFacts DEF Top
<1>4. /\ Shape(stack', form)
      /\ Loops' = Loops /\ Leaving' = Leaving /\ Flagged' = Flagged /\ Others' = Others
  BY <1>2, <1>3, ReadyFacts, FocusSets DEF Loops, Leaving, Flagged, Others
<1> QED  BY <1>1, <1>2, <1>3, <1>4, ReadyFacts, Calm

LEMMA ControlEventDInv ==
  ASSUME Ready, ControlEvent
  PROVE  Advances
<1>1. Idle /\ UNCHANGED <<defined, form, desktop, queue, modal, userWindow>>
  BY DEF ControlEvent
<1>2. PICK j \in DOMAIN stack : Innermost(j) /\ stack' = Append(stack, Block(stack[j].ev, 0))
  BY DEF ControlEvent
<1> DEFINE g == Block(stack[j].ev, 0)
<1>3. g \in Frame
  <2>1. stack[j].ev \in BlockEvents
    BY <1>2, ReadyFacts, InnermostEvent
  <2> QED  BY <2>1, Frames
<1>4. g.k = "block" /\ g.this = 0 /\ g.ev = stack[j].ev
  BY DEF Block
<1>5. stack[j].k = "block" /\ ~Quiet(stack[j])
  BY <1>1, <1>2, IdleFacts DEF Innermost
<1> HIDE DEF g
<1>6. ~Query(g) /\ ~Quiet(g)
  BY <1>4, <1>5 DEF Query, Quiet
<1>7. ~Quiet(stack[Len(stack)]) /\ ~Busy(stack[Len(stack)]) /\ ~quit
  BY <1>1, IdleFacts DEF Top
<1>8. /\ Shape(stack', form)
      /\ Loops' = Loops /\ Leaving' = Leaving /\ Flagged' = Flagged /\ Others' = Others
  <2>1. stack' = Append(stack, g)
    BY <1>2 DEF g
  <2> QED  BY <1>3, <1>4, <1>6, <1>7, <2>1, ReadyFacts, BlockSets DEF Loops, Leaving, Flagged, Others
<1>9. UserKept
  BY <1>1 DEF UserKept
<1> QED  BY <1>1, <1>7, <1>8, <1>9, ReadyFacts, Calm

LEMMA UserCloseDInv ==
  ASSUME Ready, NEW w \in Windows, UserClose(w)
  PROVE  Advances
<1>1. Idle /\ w \in visible \cap enabled
      /\ UNCHANGED <<defined, form, desktop, queue, modal, userWindow>>
  BY DEF UserClose, Reachable
<1>2. PICK i \in Slot : form[i].h = w /\ stack' = Append(stack, Closing(w, i, "ask"))
  BY DEF UserClose, Holds
<1> DEFINE f == Closing(w, i, "ask")
<1>3. f \in Frame /\ f.k = "closing" /\ f.w = w /\ f.i = i /\ f.pc = "ask"
  BY Frames DEF Closing
<1> HIDE DEF f
<1>4. /\ ~Quiet(stack[Len(stack)]) /\ ~Busy(stack[Len(stack)]) /\ stack[Len(stack)].k = "loop"
      /\ Leaving = {} /\ OpenLoops = ModalLoops
      /\ \A p \in Loops : p[2] \in Live
  BY <1>1, IdleFacts, ReadyFacts DEF Top, Waits
<1>5. PICK q0 \in Loops : q0[1] = Len(stack) /\ Top = Loop({q0[2]})
  BY <1>1, IdleFacts
<1>6. w \in Modals => Top = Loop({w})
  <2> SUFFICES ASSUME w \in Modals PROVE Top = Loop({w})
    OBVIOUS
  <2>1. isModal
    <3>1. w \in Live \cap Looping
      BY <1>1, ReadyFacts DEF Seen
    <3>2. PICK p \in Loops : p[2] = w
      BY <3>1 DEF Looping
    <3>3. p \in OpenLoops
      BY <3>1, <3>2, <1>4 DEF OpenLoops, ModalLoops
    <3> QED  BY <3>3, ReadyFacts DEF Modality
  <2>2. PICK q : Deepest(OpenLoops, q) /\ q[2] = activeModal
    BY <2>1, ReadyFacts DEF Modality
  <2>3. activeModal = w
    BY <1>1, <1>4, <2>1, ReadyFacts DEF Modality
  <2>4. q \in ModalLoops /\ q \in Loops /\ q[1] \in DOMAIN stack
    BY <2>2, ReadyFacts, LoopFacts DEF Deepest, OpenLoops, ModalLoops
  <2>5. PICK n \in Nat : n = Len(stack) /\ DOMAIN stack = 1 .. n
    BY ReadyFacts, Popped
  <2>6. q0 \in ModalLoops
    <3>1. q0[1] < q[1] => FALSE
      BY <1>5, <2>4, <2>5
    <3> QED  BY <1>5, <2>4, <3>1, ReadyFacts DEF Order, ModalLoops
  <2>7. q0[1] <= q[1]
    BY <1>4, <2>2, <2>6 DEF Deepest
  <2>8. q[1] = q0[1]
    BY <1>5, <2>4, <2>5, <2>7
  <2>9. q = q0
    BY <2>4, <2>8, <1>5, ReadyFacts, LoopFacts
  <2> QED  BY <1>5, <2>2, <2>3, <2>9
<1>7. w \notin Modals => ModalLoops = {}
  <2> SUFFICES ASSUME w \notin Modals PROVE ModalLoops = {}
    OBVIOUS
  <2>1. CASE isModal
    <3>1. PICK q : Deepest(OpenLoops, q) /\ q[2] = activeModal
      BY <2>1, ReadyFacts DEF Modality
    <3>2. activeModal = w
      BY <1>1, <1>4, <2>1, ReadyFacts DEF Modality
    <3> QED  BY <3>1, <3>2 DEF Deepest, OpenLoops, ModalLoops
  <2>2. CASE ~isModal
    BY <2>2, <1>4, ReadyFacts DEF Modality
  <2> QED  BY <2>1, <2>2
<1>8. Shape(stack', form)
  <2>1. On(f, stack[Len(stack)], form)
    BY <1>2, <1>3, <1>4, <1>6 DEF On, Query, Top
  <2>2. Shape(Append(stack, f), form)
    BY <1>3, <1>4, <2>1, ReadyFacts, ShapeAppend
  <2> QED  BY <1>2, <2>2 DEF f
<1>9. Loops' = Loops /\ Leaving' = Leaving /\ Flagged' = Flagged /\ (w \in Modals => Others' = Others)
  <2>1. /\ LoopsOf(Append(stack, f)) = LoopsOf(stack) \cup LoopIn(f, Len(stack) + 1)
        /\ LeavingOf(Append(stack, f)) = LeavingOf(stack) \cup LeavingIn(f)
        /\ FlaggedOf(Append(stack, f)) = FlaggedOf(stack) \cup FlaggedIn(f)
        /\ OthersOf(Append(stack, f)) = OthersOf(stack) \cup OthersIn(f, Len(stack) + 1)
    BY <1>3, ReadyFacts, AppendedSets
  <2>2. LoopIn(f, Len(stack) + 1) = {} /\ LeavingIn(f) = {} /\ FlaggedIn(f) = {}
    BY <1>3, PlainAdds
  <2>3. w \in Modals => OthersIn(f, Len(stack) + 1) = {}
    BY <1>3 DEF OthersIn
  <2> QED  BY <1>2, <2>1, <2>2, <2>3 DEF f, Loops, Leaving, Flagged, Others
<1>10. UserKept /\ ~quit
  BY <1>1, IdleFacts DEF UserKept
<1> QED  BY <1>1, <1>7, <1>8, <1>9, <1>10, ReadyFacts, Calm

\* A closing window on top, and the stack with its handler gone on to pc.
Recoded(pc) == Append(Below, [Top EXCEPT !.pc = pc])

LEMMA ClosingFacts ==
  ASSUME Ready, Top.k = "closing"
  PROVE  /\ Top.w \in Windows /\ Top.i \in Slot /\ form[Top.i].h = Top.w /\ Top.w \in Live
         /\ Below \in Seq(Frame) /\ Below # <<>> /\ Shape(Below, form)
         /\ Under.k = "loop" /\ Under \in Frame /\ On(Top, Under, form)
         /\ ~Quiet(Below[Len(Below)]) /\ ~Busy(Below[Len(Below)])
         /\ LeavingOf(Below) = {} /\ FlaggedOf(Below) = {}
         /\ ~quit /\ \A p \in Loops : p[2] \in Live
<1>1. Top.w \in Windows /\ Top.i \in Slot
  BY ReadyFacts, TopFields
<1>2. /\ Below \in Seq(Frame) /\ Below # <<>> /\ Shape(Below, form)
      /\ Under \in Frame /\ On(Top, Under, form)
  BY ReadyFacts, Popped, TopOn
<1>3. Under.k = "loop" /\ form[Top.i].h = Top.w
  BY <1>2 DEF On
<1>4. ~Quiet(Below[Len(Below)]) /\ ~Busy(Below[Len(Below)])
  BY <1>3 DEF Under, Quiet, Busy
<1>5. LeavingOf(Below) = {} /\ FlaggedOf(Below) = {}
  BY <1>2, <1>4, Rested
<1>6. Top.w \in Live
  <2>1. Top.w # NoWin
    BY <1>1, FormsAssumption
  <2> QED  BY <1>1, <1>3, <2>1 DEF Live
<1>7. ~quit /\ \A p \in Loops : p[2] \in Live
  BY ReadyFacts, QuitTop
<1> QED  BY <1>1, <1>2, <1>3, <1>4, <1>5, <1>6, <1>7

LEMMA RecodedFacts ==
  ASSUME Ready, Top.k = "closing", NEW pc \in {"asked", "released", "hidden"},
         pc = "asked" \/ Top.w \in Modals
  PROVE  /\ Recoded(pc) \in Seq(Frame) /\ Recoded(pc) # <<>> /\ Shape(Recoded(pc), form)
         /\ Recoded(pc)[Len(Recoded(pc))].k = "closing" /\ Recoded(pc)[Len(Recoded(pc))].pc = pc
         /\ LoopsOf(Recoded(pc)) = Loops /\ FlaggedOf(Recoded(pc)) = {}
         /\ OthersOf(Recoded(pc)) = Others
         /\ LeavingOf(Recoded(pc)) = IF pc = "hidden" THEN {Top.w} ELSE {}
<1> DEFINE f == [Top EXCEPT !.pc = pc]
           b == Below
           n == Len(stack)
<1>1. f \in Frame
  BY ReadyFacts, TopFields
<1>2. f.k = "closing" /\ f.w = Top.w /\ f.i = Top.i /\ f.pc = pc
  <2>1. Top \in Frame
    BY ReadyFacts, StackFacts
  <2> QED  BY <2>1 DEF Frame
<1> HIDE DEF f
<1>3. /\ b \in Seq(Frame) /\ b # <<>> /\ Shape(b, form) /\ On(Top, b[Len(b)], form)
      /\ ~Quiet(b[Len(b)]) /\ ~Busy(b[Len(b)]) /\ Len(b) + 1 = n
      /\ LeavingOf(b) = {} /\ FlaggedOf(b) = {} /\ Top.w \in Windows
  BY ReadyFacts, ClosingFacts, Popped DEF Under
<1>4. /\ Loops = LoopsOf(b) \cup LoopIn(Top, n) /\ Others = OthersOf(b) \cup OthersIn(Top, n)
  BY ReadyFacts, TopSets
<1> HIDE DEF b, n
<1>5. On(f, b[Len(b)], form)
  BY <1>2, <1>3 DEF On, Query
<1>6. Shape(Append(b, f), form)
  BY <1>1, <1>3, <1>5, ShapeAppend
<1>7. Append(b, f) \in Seq(Frame) /\ Append(b, f)[Len(Append(b, f))] = f /\ Append(b, f) # <<>>
  <2>1. PICK m \in Nat : m = Len(b)
    BY <1>3, Appended
  <2>2. Append(b, f) \in Seq(Frame) /\ Len(Append(b, f)) = m + 1 /\ Append(b, f)[m + 1] = f
    BY <1>1, <1>3, <2>1, Appended
  <2>3. Append(b, f) # <<>>
    BY <2>1, <2>2
  <2> QED  BY <2>2, <2>3
<1>8. /\ LoopsOf(Append(b, f)) = LoopsOf(b) \cup LoopIn(f, n)
      /\ LeavingOf(Append(b, f)) = LeavingOf(b) \cup LeavingIn(f)
      /\ FlaggedOf(Append(b, f)) = FlaggedOf(b) \cup FlaggedIn(f)
      /\ OthersOf(Append(b, f)) = OthersOf(b) \cup OthersIn(f, n)
  <2>1. /\ LoopsOf(Append(b, f)) = LoopsOf(b) \cup LoopIn(f, Len(b) + 1)
        /\ LeavingOf(Append(b, f)) = LeavingOf(b) \cup LeavingIn(f)
        /\ FlaggedOf(Append(b, f)) = FlaggedOf(b) \cup FlaggedIn(f)
        /\ OthersOf(Append(b, f)) = OthersOf(b) \cup OthersIn(f, Len(b) + 1)
    BY <1>1, <1>3, AppendedSets
  <2> QED  BY <1>3, <2>1
<1>9. LoopIn(f, n) = {} /\ LoopIn(Top, n) = {} /\ FlaggedIn(f) = {} /\ OthersIn(f, n) = OthersIn(Top, n)
  BY <1>2 DEF LoopIn, FlaggedIn, OthersIn, Loop
<1>10. LeavingIn(f) = IF pc = "hidden" THEN {Top.w} ELSE {}
  BY <1>2, <1>3 DEF LeavingIn
<1>11. Recoded(pc) = Append(b, f)
  BY DEF Recoded, b, f
<1> QED  BY <1>2, <1>3, <1>4, <1>6, <1>7, <1>8, <1>9, <1>10, <1>11

LEMMA ClosingSets ==
  ASSUME Ready, Top.k = "closing"
  PROVE  /\ Loops = LoopsOf(Below) /\ Flagged = {} /\ OthersOf(Below) \subseteq Others
         /\ Leaving = IF Top.pc = "hidden" THEN {Top.w} ELSE {}
<1>1. LoopIn(Top, Len(stack)) = {} /\ FlaggedIn(Top) = {}
  BY DEF LoopIn, FlaggedIn, Loop
<1>2. LeavingIn(Top) = IF Top.pc = "hidden" THEN {Top.w} ELSE {}
  BY ClosingFacts DEF LeavingIn
<1> QED  BY <1>1, <1>2, ReadyFacts, ClosingFacts, TopSets

\* The handler runs a block of the window, or goes on at once.
LEMMA RunsBlock ==
  ASSUME Ready, Top.k = "closing", Top.pc # "hidden", NEW pc \in {"asked", "released"},
         pc = "asked" \/ Top.w \in Modals,
         NEW g \in Frame, g.k = "block", pc = "released" => Quiet(g), NEW c \in BOOLEAN,
         stack' = Recoded(pc) \o (IF c THEN <<g>> ELSE <<>>),
         UNCHANGED <<defined, form, desktop, queue, modal, userWindow>>
  PROVE  Advances
<1> DEFINE s == Recoded(pc)
<1>1. /\ s \in Seq(Frame) /\ s # <<>> /\ Shape(s, form)
      /\ s[Len(s)].k = "closing" /\ s[Len(s)].pc = pc
      /\ LoopsOf(s) = Loops /\ FlaggedOf(s) = {} /\ OthersOf(s) = Others /\ LeavingOf(s) = {}
  BY RecodedFacts
<1>2. stack' = s \o (IF c THEN <<g>> ELSE <<>>)
  OBVIOUS
<1> HIDE DEF s
<1>3. stack' = s \/ stack' = Append(s, g)
  BY <1>1, <1>2, Concat
<1>4. ~Quiet(s[Len(s)]) /\ (Busy(s[Len(s)]) => pc = "released")
  BY <1>1 DEF Quiet, Busy
<1>5. /\ Shape(Append(s, g), form)
      /\ LoopsOf(Append(s, g)) = LoopsOf(s) /\ LeavingOf(Append(s, g)) = LeavingOf(s)
      /\ FlaggedOf(Append(s, g)) = FlaggedOf(s) /\ OthersOf(Append(s, g)) = OthersOf(s)
  BY <1>1, <1>4, BlockSets
<1>6. /\ Shape(stack', form')
      /\ Loops' = Loops /\ Leaving' = {} /\ Flagged' = {} /\ Others' = Others
  BY <1>1, <1>3, <1>5 DEF Loops, Leaving, Flagged, Others
<1>7. Leaving = {} /\ Flagged = {} /\ ~quit
  BY ClosingSets, ClosingFacts
<1>8. UserKept
  BY DEF UserKept
<1> QED  BY <1>6, <1>7, <1>8, ReadyFacts, Calm

LEMMA CloseAskDInv ==
  ASSUME Ready, CloseAsk
  PROVE  Advances
<1>1. Top.k = "closing" /\ Top.pc = "ask" /\ UNCHANGED <<defined, form, desktop, queue, modal, userWindow>>
  BY DEF CloseAsk, At, OnTop
<1> DEFINE g == Block("query", Top.i)
           c == form[Top.i].h \in HasQuery
<1>2. g \in Frame /\ g.k = "block"
  BY <1>1, ClosingFacts, Frames DEF BlockEvents, Block
<1>3. stack' = Recoded("asked") \o (IF c THEN <<g>> ELSE <<>>)
  BY DEF CloseAsk, Recoded
<1>4. c \in BOOLEAN
  OBVIOUS
<1> HIDE DEF g, c
<1> QED  BY <1>1, <1>2, <1>3, <1>4, RunsBlock

LEMMA CloseReleasesDInv ==
  ASSUME DialogProgram, Ready, CloseReleases
  PROVE  Advances
<1>1. Top.k = "closing" /\ Top.pc = "asked" /\ UNCHANGED <<defined, form, desktop, queue, modal, userWindow>>
  BY DEF CloseReleases, At, OnTop
<1> DEFINE g == Block("release", Top.i)
           c == form[Top.i].h \in HasRelease
<1>2. g \in Frame /\ g.k = "block" /\ Quiet(g)
  BY <1>1, ClosingFacts, Frames DEF BlockEvents, Block, Quiet
<1>3. stack' = Recoded("released") \o (IF c THEN <<g>> ELSE <<>>)
  BY DEF CloseReleases, Recoded
<1>4. c \in BOOLEAN
  OBVIOUS
<1>5. Top.w \in Modals
  BY <1>1, ClosingFacts DEF CloseReleases, DialogProgram
<1> HIDE DEF g, c
<1> QED  BY <1>1, <1>2, <1>3, <1>4, <1>5, RunsBlock

\* The stack stays: nothing changes that the invariant reads.
LEMMA Halts ==
  ASSUME Ready, ~quit, UNCHANGED <<defined, form, desktop, queue, modal, userWindow, stack>>
  PROVE  Advances
<1>1. /\ Loops' = Loops /\ Leaving' = Leaving /\ Flagged' = Flagged /\ Others' = Others
      /\ Shape(stack', form') /\ UserKept
  BY ReadyFacts DEF Loops, Leaving, Flagged, Others, UserKept
<1> QED  BY <1>1, ReadyFacts, Calm

\* ReleaseAllWindows over a well-formed stack.
LEMMA AllOver ==
  ASSUME NEW s \in Seq(Frame), s # <<>>, NEW t, Shape(s, t), ~Quiet(s[Len(s)]), ~Busy(s[Len(s)]),
         NEW i \in Slot \cup {0}
  PROVE  /\ Append(s, All(i)) \in Seq(Frame) /\ Append(s, All(i)) # <<>>
         /\ Shape(Append(s, All(i)), t)
         /\ Append(s, All(i))[Len(Append(s, All(i)))].k = "all"
         /\ LoopsOf(Append(s, All(i))) = LoopsOf(s) /\ LeavingOf(Append(s, All(i))) = LeavingOf(s)
         /\ FlaggedOf(Append(s, All(i))) = FlaggedOf(s) /\ OthersOf(Append(s, All(i))) = OthersOf(s)
<1> DEFINE f == All(i)
<1>1. f \in Frame /\ f.k = "all"
  BY Frames DEF All
<1> HIDE DEF f
<1>2. On(f, s[Len(s)], t)
  BY <1>1 DEF On, Query
<1>3. Shape(Append(s, f), t)
  BY <1>1, <1>2, ShapeAppend
<1>4. Append(s, f) \in Seq(Frame) /\ Append(s, f)[Len(Append(s, f))] = f /\ Append(s, f) # <<>>
  <2>1. PICK m \in Nat : m = Len(s)
    BY Appended
  <2>2. Append(s, f) \in Seq(Frame) /\ Len(Append(s, f)) = m + 1 /\ Append(s, f)[m + 1] = f
    BY <1>1, <2>1, Appended
  <2>3. Append(s, f) # <<>>
    BY <2>1, <2>2
  <2> QED  BY <2>2, <2>3
<1>5. LoopIn(f, Len(s) + 1) = {} /\ LeavingIn(f) = {} /\ FlaggedIn(f) = {} /\ OthersIn(f, Len(s) + 1) = {}
  BY <1>1, PlainAdds DEF OthersIn
<1>6. /\ LoopsOf(Append(s, f)) = LoopsOf(s) \cup LoopIn(f, Len(s) + 1)
      /\ LeavingOf(Append(s, f)) = LeavingOf(s) \cup LeavingIn(f)
      /\ FlaggedOf(Append(s, f)) = FlaggedOf(s) \cup FlaggedIn(f)
      /\ OthersOf(Append(s, f)) = OthersOf(s) \cup OthersIn(f, Len(s) + 1)
  BY <1>1, AppendedSets
<1> QED  BY <1>1, <1>3, <1>4, <1>5, <1>6 DEF f

LEMMA CloseMainDInv ==
  ASSUME Ready, CloseMain
  PROVE  Advances
<1>1. Top.k = "closing" /\ Top.pc = "asked" /\ UNCHANGED <<defined, form, desktop, queue, modal, userWindow>>
  BY DEF CloseMain, At, OnTop
<1>2. CASE UNCHANGED stack
  BY <1>1, <1>2, ClosingFacts, Halts
<1>3. CASE stack' = Append(Below, All(0))
  <2>1. /\ Shape(stack', form)
        /\ LoopsOf(stack') = LoopsOf(Below) /\ LeavingOf(stack') = LeavingOf(Below)
        /\ FlaggedOf(stack') = FlaggedOf(Below) /\ OthersOf(stack') = OthersOf(Below)
    BY <1>1, <1>3, ClosingFacts, AllOver
  <2>2. Loops' = Loops /\ Leaving' = {} /\ Flagged' = {} /\ Others' \subseteq Others
    BY <1>1, <2>1, ClosingFacts, ClosingSets DEF Loops, Leaving, Flagged, Others
  <2>3. Leaving = {} /\ Flagged = {} /\ UserKept /\ ~quit
    BY <1>1, ClosingSets, ClosingFacts DEF UserKept
  <2> QED  BY <1>1, <2>1, <2>2, <2>3, ReadyFacts, Calm
<1> QED  BY <1>2, <1>3 DEF CloseMain

LEMMA ReleaseNextDInv ==
  ASSUME Ready, ReleaseNext
  PROVE  Advances
<1>1. Top.k = "all" /\ UNCHANGED <<defined, form, desktop, queue, modal, userWindow>>
  BY DEF ReleaseNext, OnTop
<1>2. ~quit
  BY <1>1, ReadyFacts, QuitTop
<1>3. CASE UNCHANGED stack
  BY <1>1, <1>2, <1>3, Halts
<1>4. ASSUME Top.i < Cardinality(Windows),
             LET i == Top.i + 1 IN
             stack' = Append(Below, All(i))
                      \o (IF form[i].active /\ form[i].h \in HasRelease
                          THEN <<Block("release", i)>> ELSE <<>>)
      PROVE  Advances
  <2>1. Top.i + 1 \in Slot
    BY <1>1, <1>4, ReadyFacts, TopFields, SlotFacts DEF Slot
  <2> DEFINE s == Append(Below, All(Top.i + 1))
             g == Block("release", Top.i + 1)
  <2>2. g \in Frame /\ g.k = "block" /\ Quiet(g) /\ ~Query(g)
    BY <2>1, Frames DEF BlockEvents, Block, Quiet, Query
  <2>3. /\ Below \in Seq(Frame) /\ Below # <<>> /\ Shape(Below, form)
        /\ ~Quiet(Below[Len(Below)]) /\ ~Busy(Below[Len(Below)])
    <3>1. ~Quiet(Top)
      BY <1>1 DEF Quiet
    <3>2. Below \in Seq(Frame)
      BY ReadyFacts, Popped
    <3>3. Below # <<>> /\ Shape(Below, form) /\ ~Quiet(Under) /\ (Busy(Under) => Quiet(Top))
      BY <1>1, ReadyFacts, TopOn
    <3> QED  BY <3>1, <3>2, <3>3 DEF Under
  <2>4. /\ s \in Seq(Frame) /\ s # <<>> /\ Shape(s, form) /\ s[Len(s)].k = "all"
        /\ LoopsOf(s) = LoopsOf(Below) /\ LeavingOf(s) = LeavingOf(Below)
        /\ FlaggedOf(s) = FlaggedOf(Below) /\ OthersOf(s) = OthersOf(Below)
    BY <2>1, <2>3, AllOver
  <2>5. stack' = s \o <<g>> \/ stack' = s \o <<>>
    BY <1>4
  <2> HIDE DEF s, g
  <2>6. stack' = s \/ stack' = Append(s, g)
    BY <2>2, <2>4, <2>5, Concat
  <2>7. ~Quiet(s[Len(s)])
    BY <2>4 DEF Quiet
  <2>8. /\ Shape(Append(s, g), form)
        /\ LoopsOf(Append(s, g)) = LoopsOf(s) /\ LeavingOf(Append(s, g)) = LeavingOf(s)
        /\ FlaggedOf(Append(s, g)) = FlaggedOf(s) /\ OthersOf(Append(s, g)) = OthersOf(s)
    BY <2>2, <2>4, <2>7, BlockSets
  <2>9. /\ Loops = LoopsOf(Below) /\ Leaving = LeavingOf(Below)
        /\ Flagged = FlaggedOf(Below) /\ Others = OthersOf(Below)
    <3>1. /\ LoopIn(Top, Len(stack)) = {} /\ LeavingIn(Top) = {} /\ FlaggedIn(Top) = {}
          /\ OthersIn(Top, Len(stack)) = {}
      BY <1>1, PlainAdds DEF OthersIn
    <3> QED  BY <3>1, ReadyFacts, TopSets
  <2>10. Shape(stack', form') /\ Loops' = Loops /\ Leaving' = Leaving /\ Flagged' = Flagged /\ Others' = Others
    BY <1>1, <2>4, <2>6, <2>8, <2>9 DEF Loops, Leaving, Flagged, Others
  <2>11. UserKept
    BY <1>1 DEF UserKept
  <2> QED  BY <1>1, <1>2, <2>10, <2>11, ReadyFacts, Calm
<1> QED  BY <1>3, <1>4 DEF ReleaseNext

-----------------------------------------------------------------------------
(* The calls of a block.                                                   *)

\* A slot that a frame of the stack reads has its window.
LEMMA SlotTaken ==
  ASSUME Ready, NEW j \in DOMAIN stack, stack[j].k \in {"closing", "activating"}
  PROVE  stack[j].i \in Slot /\ form[stack[j].i].h \in Windows
<1> DEFINE f == stack[j]
<1>1. f \in Frame /\ Sits(stack, form, j)
  <2>1. stack[j] \in Frame
    BY ReadyFacts, LenProperties, ElementOfSeq
  <2> QED  BY <2>1, ReadyFacts DEF Shape
<1>2. CASE f.k = "closing"
  <2>1. f.w \in Windows /\ f.i \in Slot
    BY <1>1, <1>2 DEF Frame
  <2>2. form[f.i].h = f.w
    BY <1>1, <1>2 DEF Sits, On
  <2> QED  BY <2>1, <2>2
<1>3. CASE f.k = "activating"
  <2>1. f.i \in Slot
    BY <1>1, <1>3 DEF Frame
  <2>2. PICK n \in Nat : n = Len(stack) /\ DOMAIN stack = 1 .. n
    BY ReadyFacts, Popped
  <2>3. j # 1 /\ stack[j-1] = Loop({form[f.i].h})
    BY <1>1, <1>3 DEF Sits, On
  <2>4. j - 1 \in DOMAIN stack /\ stack[j-1].k = "loop"
    <3>1. j - 1 \in 1 .. n
      BY <2>2, <2>3
    <3>2. Loop({form[f.i].h}).k = "loop"
      BY LoopEq
    <3> QED  BY <2>2, <2>3, <3>1, <3>2
  <2>5. \E w \in Windows : stack[j-1] = Loop({w})
    BY <2>4, ReadyFacts DEF Shape, Sits, On
  <2>6. form[f.i].h \in Windows
    BY <2>3, <2>5, LoopEq
  <2> QED  BY <2>1, <2>6
<1> QED  BY <1>2, <1>3

LEMMA DefineDInv ==
  ASSUME Ready, NEW w \in Windows, Define(w)
  PROVE  Advances
<1>1. /\ Top.k = "block" /\ w \notin defined /\ defined' = defined \cup {w}
      /\ enabled' = enabled \cup {w}
      /\ UNCHANGED <<visible, queue, modal, userWindow, stack>>
  BY DEF Define, Calling, OnTop
<1>2. PICK i \in Slot :
        /\ form[i].h = NoWin
        /\ form' = [form EXCEPT ![i] = [h |-> w, active |-> FALSE, id |-> 0,
                      parent |-> IF w \in Modals THEN Main ELSE NoWin]]
  BY DEF Define, Holds
<1>3. /\ form'[i].h = w /\ form'[i].active = FALSE /\ form'[i].id = 0
      /\ form'[i].parent = IF w \in Modals THEN Main ELSE NoWin
      /\ \A k \in Slot \ {i} : form'[k] = form[k]
  BY <1>2, ReadyFacts
<1>4. /\ ~quit /\ (\A p \in Loops : p[2] \in Live) /\ w \notin Live /\ w # NoWin
      /\ Live \subseteq defined
  BY <1>1, ReadyFacts, QuitTop, FormsAssumption DEF IInv, OneSlot
<1>5. w \notin Looping
  BY <1>4 DEF Looping
<1>6. Live' = Live \cup {w}
  <2>1. ASSUME NEW v \in Live
        PROVE  v \in Live'
    <3>1. PICK k \in Slot : form[k].h = v /\ v # NoWin
      BY DEF Live
    <3>2. k # i
      BY <1>2, <3>1
    <3> QED  BY <1>3, <3>1, <3>2 DEF Live
  <2>2. ASSUME NEW v \in Live'
        PROVE  v \in Live \cup {w}
    <3>1. PICK k \in Slot : form'[k].h = v /\ v # NoWin
      BY DEF Live
    <3> QED  BY <1>3, <3>1 DEF Live
  <2>3. w \in Live'
    BY <1>3, <1>4 DEF Live
  <2> QED  BY <2>1, <2>2, <2>3
<1>7. /\ Loops' = Loops /\ Leaving' = Leaving /\ Flagged' = Flagged /\ Others' = Others
      /\ Looping' = Looping /\ ModalLoops' = ModalLoops
  BY <1>1 DEF Loops, Leaving, Flagged, Others, Looping, ModalLoops
<1>8. OpenLoops' = OpenLoops
  BY <1>4, <1>6, <1>7 DEF OpenLoops, ModalLoops
<1>9. Shape(stack', form')
  <2>1. ASSUME NEW j \in DOMAIN stack, stack[j].k \in {"closing", "activating"}
        PROVE  form'[stack[j].i] = form[stack[j].i]
    <3>1. stack[j].i \in Slot \ {i}
      BY <1>2, <2>1, SlotTaken, FormsAssumption
    <3> QED  BY <1>3, <3>1
  <2>2. \A j \in DOMAIN stack : stack[j].k = "activating" => ~form[stack[j].i].active
    BY ReadyFacts DEF Shape, Sits, On
  <2>3. Shape(stack, form')
    BY <2>1, <2>2, ReadyFacts, ShapeTable
  <2> QED  BY <1>1, <2>3
<1>10. Waits'
  <2>1. /\ \A k \in Slot : form'[k].active => form'[k].h \in Looping
        /\ \A k \in Slot : form'[k].h \in Looping => form'[k].active \/ k \in Flagged
        /\ \A k \in Slot : form'[k].id = 0
    BY <1>3, <1>5, ReadyFacts DEF Waits
  <2>2. quit' = quit /\ posted' = posted /\ stack' = stack
    BY <1>1 DEF queue
  <2>3. ~quit' /\ posted' = <<>> /\ \A p, q \in Loops : p[2] = q[2] => p = q
    BY <1>4, <2>2, ReadyFacts DEF Waits
  <2>4. \A p \in Loops' : p[2] \in Live'
    BY <1>4, <1>6, <1>7
  <2> QED  BY <1>7, <2>1, <2>3, <2>4 DEF Waits
<1>11. Seen'
  <2>1. userWindow' \in defined' \cup {NoWin}
    BY <1>1, ReadyFacts DEF Seen
  <2>2. ASSUME NEW k \in Slot, form'[k].h = userWindow', userWindow' # NoWin
        PROVE  form'[k].active
    <3>1. userWindow # w
      BY <1>1, <1>4, ReadyFacts DEF Seen
    <3>2. k # i
      BY <1>1, <1>3, <2>2, <3>1
    <3> QED  BY <1>1, <1>3, <2>2, <3>2, ReadyFacts DEF Seen
  <2>3. /\ visible' \subseteq Live' \cap Looping' /\ Modals \cap Live' \cap Looping' \subseteq visible'
        /\ enabled' \subseteq Live'
    BY <1>1, <1>5, <1>6, <1>7, ReadyFacts DEF Seen
  <2> QED  BY <2>1, <2>2, <2>3 DEF Seen
<1>12. Parents'
  <2>1. ASSUME NEW k \in Slot, form'[k].h # NoWin
        PROVE  /\ form'[k].h \notin Modals => form'[k].parent = NoWin
               /\ form'[k].h \in Modals \ Looping => form'[k].parent = Main
               /\ \A p \in ModalLoops : p[2] = form'[k].h =>
                    Nested(Outside(ModalLoops, p), form'[k].parent)
    <3>1. CASE k = i
      <4>1. \A p \in ModalLoops : p[2] # w
        BY <1>5 DEF Looping, ModalLoops
      <4> QED  BY <1>3, <3>1, <4>1
    <3>2. CASE k # i
      BY <1>3, <2>1, <3>2, ReadyFacts DEF Parents
    <3> QED  BY <3>1, <3>2
  <2> QED  BY <1>7, <2>1 DEF Parents
<1>13. Order'
  BY <1>7, ReadyFacts DEF Order
<1>14. Modality'
  <2>1. visible' \cap enabled' = visible \cap enabled
    BY <1>1, <1>4, ReadyFacts DEF Seen
  <2> QED  BY <1>1, <1>7, <1>8, <2>1, ReadyFacts DEF Modality, modal
<1>15. Shows
  BY <1>1, <1>7, <1>8 DEF Shows, Rests
<1> QED  BY <1>7, <1>9, <1>10, <1>11, <1>12, <1>13, <1>14, <1>15 DEF DInv, Advances

-----------------------------------------------------------------------------
(* The end of a loop and of an activation.                                 *)

LEMMA QuitDInv ==
  ASSUME Ready, Quit
  PROVE  Advances
<1>0. PICK n \in Nat : n = Len(stack) /\ n # 0 /\ DOMAIN stack = 1 .. n /\ stack[n] = Top
                       /\ Len(Below) = n - 1 /\ DOMAIN Below = 1 .. n - 1
  BY ReadyFacts, Popped
<1>1. /\ quit /\ quit' = FALSE /\ UNCHANGED <<defined, form, desktop, posted, modal, userWindow>>
  BY DEF Quit
<1>2. PICK p0 \in Loops : p0[1] = n /\ p0[2] \notin Live
  BY <1>0, <1>1, ReadyFacts DEF Waits
<1>3. Top = Loop({p0[2]}) /\ Top.k = "loop" /\ p0[2] \in Windows
  BY <1>0, <1>2, ReadyFacts, LoopFacts
<1>4. stack' = Below
  BY <1>3 DEF Quit
<1>5. /\ Below # <<>> /\ Shape(Below, form) /\ Below \in Seq(Frame)
  BY <1>3, ReadyFacts, Popped, TopOn
<1>6. /\ Loops = LoopsOf(Below) \cup {<<n, p0[2]>>} /\ Leaving = LeavingOf(Below)
      /\ Flagged = FlaggedOf(Below) /\ Others = OthersOf(Below)
  <2>1. /\ LoopIn(Top, n) = {<<n, p0[2]>>} /\ LeavingIn(Top) = {} /\ FlaggedIn(Top) = {}
        /\ OthersIn(Top, n) = {}
    BY <1>3, LoopAdds
  <2> QED  BY <1>0, <2>1, ReadyFacts, TopSets
<1>7. Loops' = LoopsOf(Below) /\ Leaving' = Leaving /\ Flagged' = Flagged /\ Others' = Others
  BY <1>4, <1>6 DEF Loops, Leaving, Flagged, Others
<1>8. \A p \in Loops' : p \in Loops /\ p[1] < n /\ p[2] # p0[2] /\ p[2] \in Live
  <2>1. ASSUME NEW p \in Loops'
        PROVE  p \in Loops /\ p[1] < n /\ p[2] # p0[2] /\ p[2] \in Live
    <3>1. p \in Loops
      BY <1>6, <1>7, <2>1
    <3>2. p[1] \in 1 .. n - 1
      <4>1. p \in (DOMAIN Below) \X Windows
        BY <1>7, <2>1 DEF LoopsOf
      <4>2. PICK j \in 1 .. n - 1, v \in Windows : p = <<j, v>>
        BY <1>0, <4>1
      <4> QED  BY <4>2
    <3>3. p[1] < n /\ p[1] # n
      BY <3>2
    <3>4. p[2] # p0[2] /\ p[2] \in Live
      BY <1>0, <1>2, <3>1, <3>3, ReadyFacts DEF Waits
    <3> QED  BY <3>1, <3>3, <3>4
  <2> QED  BY <2>1
<1>9. \A p \in Loops : p # p0 => p \in Loops'
  <2>1. p0 = <<n, p0[2]>>
    BY <1>2, ReadyFacts, LoopFacts
  <2> QED  BY <1>6, <1>7, <2>1
<1>10. Live' = Live /\ Looping' = Looping \ {p0[2]}
  <2>1. Live' = Live
    BY <1>1 DEF Live
  <2>2. Looping' = Looping \ {p0[2]}
    BY <1>8, <1>9 DEF Looping
  <2> QED  BY <2>1, <2>2
<1>11. OpenLoops' = OpenLoops
  BY <1>2, <1>7, <1>8, <1>9, <1>10 DEF OpenLoops, ModalLoops
<1>12. Waits'
  <2>1. \A p, q \in Loops' : p[2] = q[2] => p = q
    BY <1>8, ReadyFacts DEF Waits
  <2>2. \A i \in Slot : form[i].active => form[i].h \in Looping'
    <3>1. ASSUME NEW i \in Slot, form[i].active
          PROVE  form[i].h \in Looping'
      <4>1. form[i].h \in Looping /\ form[i].h \in Windows
        BY <3>1, ReadyFacts, LoopFacts DEF Waits
      <4>2. form[i].h \in Live
        BY <4>1, FormsAssumption DEF Live
      <4> QED  BY <1>2, <1>10, <4>1, <4>2
    <3> QED  BY <3>1
  <2>3. \A i \in Slot : form[i].h \in Looping' => form[i].active \/ i \in Flagged'
    BY <1>7, <1>10, ReadyFacts DEF Waits
  <2>4. \A p \in Loops' : p[2] \in Live'
    BY <1>8, <1>10
  <2>5. form' = form /\ posted' = <<>> /\ \A i \in Slot : form[i].id = 0
    BY <1>1, ReadyFacts DEF Waits
  <2> QED  BY <1>1, <2>1, <2>2, <2>3, <2>4, <2>5 DEF Waits
<1>13. Seen'
  BY <1>1, <1>2, <1>10, ReadyFacts DEF Seen, desktop
<1>14. Parents'
  <2>1. ASSUME NEW p \in ModalLoops'
        PROVE  p \in ModalLoops /\ Outside(ModalLoops', p) = Outside(ModalLoops, p)
    <3>1. p \in ModalLoops /\ p[1] < n /\ p[1] \in Nat
      BY <1>8, ReadyFacts, LoopFacts DEF ModalLoops
    <3>2. \A q \in ModalLoops : q[1] < p[1] => q # p0
      BY <1>2, <3>1
    <3>3. \A q \in ModalLoops : q[1] < p[1] => q \in ModalLoops'
      BY <1>9, <3>2 DEF ModalLoops
    <3>4. ModalLoops' \subseteq ModalLoops
      BY <1>8 DEF ModalLoops
    <3> QED  BY <3>1, <3>3, <3>4 DEF Outside
  <2>2. ASSUME NEW i \in Slot, form[i].h # NoWin
        PROVE  /\ form[i].h \notin Modals => form[i].parent = NoWin
               /\ form[i].h \in Modals \ Looping' => form[i].parent = Main
               /\ \A p \in ModalLoops' : p[2] = form[i].h =>
                    Nested(Outside(ModalLoops', p), form[i].parent)
    <3>1. form[i].h \in Live
      BY <2>2 DEF Live
    <3>2. form[i].h # p0[2]
      BY <1>2, <3>1
    <3>3. /\ form[i].h \notin Modals => form[i].parent = NoWin
          /\ form[i].h \in Modals \ Looping => form[i].parent = Main
          /\ \A p \in ModalLoops : p[2] = form[i].h => Nested(Outside(ModalLoops, p), form[i].parent)
      BY <2>2, ReadyFacts DEF Parents
    <3>4. ASSUME NEW p \in ModalLoops', p[2] = form[i].h
          PROVE  Nested(Outside(ModalLoops', p), form[i].parent)
      <4>1. Nested(Outside(ModalLoops, p), form[i].parent)
        BY <2>1, <3>3, <3>4
      <4> QED  BY <2>1, <4>1
    <3> QED  BY <1>10, <3>2, <3>3, <3>4
  <2> QED  BY <1>1, <2>2 DEF Parents
<1>15. Order'
  <2>1. ModalLoops' \subseteq ModalLoops
    BY <1>8 DEF ModalLoops
  <2> QED  BY <1>7, <1>8, <2>1, ReadyFacts DEF Order
<1>16. Modality'
  BY <1>1, <1>7, <1>11, ReadyFacts DEF Modality, desktop, modal
<1>17. Shape(stack', form')
  BY <1>1, <1>4, <1>5
<1>18. Shows
  BY <1>1, <1>7, <1>11 DEF Shows, Rests, desktop
<1> QED  BY <1>2, <1>9, <1>10, <1>12, <1>13, <1>14, <1>15, <1>16, <1>17, <1>18 DEF DInv, Advances

LEMMA SetActivationFlagDInv ==
  ASSUME DialogProgram, Ready, SetActivationFlag
  PROVE  Advances
<1>1. Top.k = "activating" /\ UNCHANGED <<defined, desktop, queue, modal, userWindow>>
      /\ form' = [form EXCEPT ![Top.i].active = TRUE]
  BY DEF SetActivationFlag, At, OnTop
<1>2. stack' = Below
  BY DEF SetActivationFlag, DialogProgram
<1>3. PICK i \in Slot : i = Top.i
  BY <1>1, ReadyFacts, TopFields
<1>4. /\ \A k \in Slot : form'[k].h = form[k].h /\ form'[k].parent = form[k].parent
                         /\ form'[k].id = form[k].id
      /\ \A k \in Slot \ {i} : form'[k] = form[k]
      /\ form'[i].active = TRUE
  <2>1. form[i] \in Form
    BY ReadyFacts
  <2>2. form'[i] = [form[i] EXCEPT !.active = TRUE] /\ \A k \in Slot \ {i} : form'[k] = form[k]
    BY <1>1, <1>3, ReadyFacts
  <2> QED  BY <2>1, <2>2 DEF Form
<1>5. /\ Below \in Seq(Frame) /\ Below # <<>> /\ Shape(Below, form)
      /\ Under = Loop({form[i].h}) /\ Under.k = "loop"
  <2>1. Below \in Seq(Frame)
    BY ReadyFacts, Popped
  <2>2. Below # <<>> /\ Shape(Below, form) /\ On(Top, Under, form)
    BY <1>1, ReadyFacts, TopOn
  <2>3. Under = Loop({form[i].h})
    BY <1>1, <1>3, <2>2 DEF On
  <2> QED  BY <2>1, <2>2, <2>3, LoopEq
<1>6. /\ LeavingOf(Below) = {} /\ FlaggedOf(Below) = {}
      /\ \A j \in DOMAIN Below : Below[j].k # "activating"
  <2>1. ~Quiet(Below[Len(Below)]) /\ ~Busy(Below[Len(Below)])
    BY <1>5 DEF Under, Quiet, Busy
  <2>2. \A j \in DOMAIN Below : ~Busy(Below[j])
    BY <1>5, <2>1, Rested
  <2> QED  BY <1>5, <2>1, <2>2, Rested DEF Busy
<1>7. Loops' = Loops /\ Leaving = {} /\ Leaving' = {} /\ Flagged \subseteq {i} /\ Others' = Others
  <2>1. LoopIn(Top, Len(stack)) = {} /\ LeavingIn(Top) = {} /\ OthersIn(Top, Len(stack)) = {}
        /\ FlaggedIn(Top) \subseteq {i}
    BY <1>1, <1>3 DEF LoopIn, LeavingIn, OthersIn, FlaggedIn, Loop
  <2> QED  BY <1>2, <1>6, <2>1, ReadyFacts, TopSets DEF Loops, Leaving, Flagged, Others
<1>8. Live' = Live /\ Looping' = Looping /\ ModalLoops' = ModalLoops /\ OpenLoops' = OpenLoops
  <2>1. Live' = Live
    BY <1>4 DEF Live
  <2>2. Looping' = Looping /\ ModalLoops' = ModalLoops
    BY <1>7 DEF Looping, ModalLoops
  <2> QED  BY <1>7, <2>1, <2>2 DEF OpenLoops
<1>9. form[i].h \in Looping
  <2>1. PICK m \in Nat : m = Len(Below) /\ m # 0 /\ DOMAIN Below = 1 .. m
    <3>1. Len(Below) \in Nat /\ DOMAIN Below = 1 .. Len(Below) /\ Len(Below) # 0
      BY <1>5, LenProperties, EmptySeq
    <3> QED  BY <3>1
  <2>2. m \in DOMAIN Below /\ Below[m] = Loop({form[i].h})
    BY <1>5, <2>1 DEF Under
  <2>3. form[i].h \in Windows
    <3>1. Sits(Below, form, m)
      BY <1>5, <2>2 DEF Shape
    <3>2. \E w \in Windows : Below[m] = Loop({w})
      BY <2>2, <3>1, LoopEq DEF Sits, On
    <3> QED  BY <2>2, <3>2, LoopEq
  <2>4. <<m, form[i].h>> \in LoopsOf(Below)
    BY <2>2, <2>3 DEF LoopsOf
  <2>5. <<m, form[i].h>> \in Loops
    BY <1>2, <1>7, <2>4 DEF Loops
  <2> QED  BY <2>5 DEF Looping
<1>10. ~quit /\ \A p \in Loops : p[2] \in Live
  BY <1>1, ReadyFacts, QuitTop
<1>11. Shape(stack', form')
  <2>1. \A j \in DOMAIN Below : Below[j].k = "closing" => form'[Below[j].i].h = form[Below[j].i].h
    <3>1. ASSUME NEW j \in DOMAIN Below, Below[j].k = "closing"
          PROVE  Below[j].i \in Slot
      <4>1. Below[j] \in Frame
        BY <1>5, LenProperties, ElementOfSeq
      <4> QED  BY <3>1, <4>1 DEF Frame
    <3> QED  BY <1>4, <3>1
  <2> QED  BY <1>2, <1>5, <1>6, <2>1, ShapeTable
<1>12. Waits'
  <2>1. \A k \in Slot : form'[k].active => form'[k].h \in Looping
    BY <1>4, <1>9, ReadyFacts DEF Waits
  <2>2. \A k \in Slot : form'[k].h \in Looping => form'[k].active
    BY <1>4, <1>7, ReadyFacts DEF Waits
  <2>3. /\ ~quit' /\ posted' = <<>> /\ \A p, q \in Loops : p[2] = q[2] => p = q
    BY <1>1, <1>10, ReadyFacts DEF Waits, queue
  <2>4. \A k \in Slot : form'[k].id = 0
    BY <1>4, ReadyFacts DEF Waits
  <2>5. \A p \in Loops' : p[2] \in Live'
    BY <1>7, <1>8, <1>10
  <2> QED  BY <1>7, <1>8, <2>1, <2>2, <2>3, <2>4, <2>5 DEF Waits
<1>13. Seen'
  <2>1. \A k \in Slot : form'[k].h = userWindow /\ userWindow # NoWin => form'[k].active
    BY <1>4, ReadyFacts DEF Seen
  <2> QED  BY <1>1, <1>8, <2>1, ReadyFacts DEF Seen, desktop
<1>14. Parents' /\ Order'
  BY <1>4, <1>7, <1>8, ReadyFacts DEF Parents, Order
<1>15. Modality'
  BY <1>1, <1>7, <1>8, ReadyFacts DEF Modality, desktop, modal
<1>16. Shows
  BY <1>1, <1>7, <1>8 DEF Shows, Rests, desktop
<1> QED  BY <1>7, <1>11, <1>12, <1>13, <1>14, <1>15, <1>16 DEF DInv, Advances

-----------------------------------------------------------------------------
(* Closing.                                                                *)

LEMMA CloseHidesDInv ==
  ASSUME DialogProgram, Ready, CloseHides
  PROVE  Advances
<1>1. Top.k = "closing" /\ Top.pc = "asked" /\ UNCHANGED <<defined, form, queue>>
  BY DEF CloseHides, At, OnTop
<1>2. PICK i \in Slot, w \in Windows :
        i = Top.i /\ w = Top.w /\ form[i].h = w /\ HideWindow(w, i, Below) /\ w \notin Modals
  BY <1>1, ClosingFacts DEF CloseHides, DialogProgram
<1>3. /\ Below \in Seq(Frame) /\ Below # <<>> /\ Shape(Below, form) /\ ~Quiet(Below[Len(Below)])
      /\ LeavingOf(Below) = {} /\ FlaggedOf(Below) = {} /\ ~quit /\ \A p \in Loops : p[2] \in Live
  BY <1>1, ClosingFacts
<1>4. Loops = LoopsOf(Below) /\ Flagged = {} /\ OthersOf(Below) \subseteq Others /\ Leaving = {}
  BY <1>1, ClosingSets
<1>5. ModalLoops = {}
  <2>1. PICK n \in Nat : n = Len(stack) /\ DOMAIN stack = 1 .. n /\ n # 0 /\ stack[n] = Top
    BY ReadyFacts, Popped
  <2>2. n \in Others
    BY <1>1, <1>2, <2>1 DEF Others, OthersOf
  <2>3. ASSUME NEW p \in ModalLoops
        PROVE  FALSE
    <3>1. n < p[1]
      BY <2>2, <2>3, ReadyFacts DEF Order
    <3>2. p[1] \in 1 .. n
      BY <2>1, <2>3, ReadyFacts, LoopFacts DEF ModalLoops
    <3> QED  BY <3>1, <3>2
  <2> QED  BY <2>3
<1>6. ~isModal
  BY <1>5, ReadyFacts DEF Modality, Deepest, OpenLoops
<1>7. FocusBlock(Below) => /\ Shape(stack', form') /\ Loops' = Loops /\ Leaving' = {}
                           /\ Flagged' = {} /\ Others' \subseteq Others
  BY <1>1, <1>3, <1>4, FocusSets
<1>8. CASE w \notin visible
  <2>1. stack' = Below /\ UNCHANGED <<desktop, modal, userWindow>>
    BY <1>2, <1>8 DEF HideWindow
  <2>2. FocusBlock(Below) /\ UserKept
    BY <2>1 DEF FocusBlock, UserKept
  <2> QED  BY <1>1, <1>3, <1>4, <1>7, <2>1, <2>2, ReadyFacts, Calm
<1>9. CASE w \in visible
  <2>1. visible' = visible \ {w} /\ OnHide(i, Below)
    BY <1>2, <1>9 DEF HideWindow
  <2>2. form[i].parent = NoWin
    BY <1>2, ReadyFacts, FormsAssumption DEF Parents
  <2>3. OnHideNonModal(i, Below)
    BY <2>1, <2>2, FormsAssumption DEF OnHide
  <2>4. enabled' = enabled \cup Live /\ UNCHANGED modal /\ FocusBlock(Below) /\ UserKept
    BY <1>6, <2>3, PassFocusSteps DEF OnHideNonModal
  <2>5. Shape(stack', form') /\ Loops' = Loops /\ Leaving' = {} /\ Flagged' = {} /\ Others' \subseteq Others
    BY <1>7, <2>4
  <2>6. Live' = Live /\ Looping' = Looping /\ ModalLoops' = {} /\ OpenLoops' = {}
    BY <1>1, <1>5, <2>5 DEF Live, Looping, ModalLoops, OpenLoops
  <2>7. Waits'
    <3>1. posted' = <<>> /\ ~quit' /\ \A p \in Loops' : p[2] \in Live'
      BY <1>1, <1>3, <2>5, <2>6, ReadyFacts DEF Waits, queue
    <3> QED  BY <1>1, <1>4, <2>5, <2>6, <3>1, ReadyFacts DEF Waits
  <2>8. Seen'
    <3>1. SameSlots
      BY <1>1 DEF SameSlots
    <3>2. /\ visible' \subseteq Live \cap Looping /\ Modals \cap Live \cap Looping \subseteq visible'
          /\ enabled' \subseteq Live
      BY <1>2, <2>1, <2>4, ReadyFacts DEF Seen
    <3> QED  BY <1>1, <2>4, <2>6, <3>1, <3>2, ReadyFacts, UserSeen DEF Seen
  <2>9. Parents' /\ Order'
    BY <1>1, <1>5, <2>6, ReadyFacts DEF Parents, Order
  <2>10. Modality'
    BY <1>6, <2>4, <2>6 DEF Modality, modal
  <2>11. Shows
    <3>1. w \in visible \cap enabled
      BY <1>6, <1>9, ReadyFacts DEF Seen, IInv, Enabling
    <3>2. OpenLoops = {}
      BY <1>5 DEF OpenLoops
    <3>3. HidesOne
      BY <1>4, <2>1, <2>5, <2>6, <3>1, <3>2 DEF HidesOne
    <3> QED  BY <3>3 DEF Shows
  <2> QED  BY <2>5, <2>7, <2>8, <2>9, <2>10, <2>11 DEF DInv, Advances
<1> QED  BY <1>8, <1>9

\* The loop of a modal window that is closing is under its handler, and is the
\* innermost one.
LEMMA ClosingModal ==
  ASSUME Ready, Top.k = "closing", Top.w \in Modals
  PROVE  /\ Len(stack) - 1 \in Nat /\ <<Len(stack) - 1, Top.w>> \in Loops
         /\ Under = Loop({Top.w})
         /\ \A p \in Loops : p[1] <= Len(stack) - 1
         /\ \A p \in Loops : p[1] # Len(stack) - 1 => p[1] < Len(stack) - 1
<1>1. PICK n \in Nat : n = Len(stack) /\ DOMAIN stack = 1 .. n /\ n # 0 /\ stack[n] = Top
  BY ReadyFacts, Popped
<1>2. n > 1 /\ Under = stack[n-1] /\ Under = Loop({Top.w}) /\ Top.w \in Windows
  <2>1. Len(stack) > 1 /\ Under = stack[Len(stack) - 1] /\ On(Top, Under, form)
    BY ReadyFacts, TopOn
  <2>2. Under = Loop({Top.w})
    BY <2>1 DEF On
  <2> QED  BY <1>1, <2>1, <2>2, ClosingFacts
<1>3. n - 1 \in DOMAIN stack
  BY <1>1, <1>2
<1>4. <<n - 1, Top.w>> \in Loops
  BY <1>2, <1>3 DEF Loops, LoopsOf
<1>5. \A p \in Loops : p[1] \in 1 .. n /\ p[1] # n
  BY <1>1, ReadyFacts, LoopFacts
<1>6. /\ \A p \in Loops : p[1] <= n - 1 /\ (p[1] # n - 1 => p[1] < n - 1)
      /\ n - 1 \in Nat
  BY <1>1, <1>5
<1> QED  BY <1>1, <1>2, <1>4, <1>6

LEMMA CloseYieldsDInv ==
  ASSUME DialogProgram, Ready, CloseYields
  PROVE  Advances
<1>1. /\ Top.k = "closing" /\ Top.pc = "released" /\ UNCHANGED <<defined, form, visible, queue>>
      /\ OnHide(Top.i, Recoded("hidden"))
  BY DEF CloseYields, At, OnTop, Recoded
<1>2. /\ Top.w \in Windows /\ Top.i \in Slot /\ form[Top.i].h = Top.w /\ Top.w \in Live
      /\ On(Top, Under, form) /\ ~quit /\ \A p \in Loops : p[2] \in Live
  BY <1>1, ClosingFacts
<1>3. Top.w \in Modals
  BY <1>1, <1>2 DEF On
<1>4. PICK i \in Slot, w \in Modals : i = Top.i /\ w = Top.w
  BY <1>2, <1>3
<1>5. PICK m \in Nat : m = Len(stack) - 1
  BY <1>1, <1>3, ClosingModal
<1> DEFINE p1 == <<m, w>>
           s == Recoded("hidden")
           old == Outside(ModalLoops, p1)
<1>6. p1[1] = m /\ p1[2] = w
  OBVIOUS
<1>7. /\ p1 \in Loops /\ \A p \in Loops : p[1] <= m /\ (p[1] # m => p[1] < m)
  BY <1>1, <1>3, <1>4, <1>5, ClosingModal
<1>8. /\ s \in Seq(Frame) /\ s # <<>> /\ Shape(s, form) /\ s[Len(s)].k = "closing"
      /\ LoopsOf(s) = Loops /\ FlaggedOf(s) = {} /\ OthersOf(s) = Others /\ LeavingOf(s) = {w}
  BY <1>1, <1>3, <1>4, RecodedFacts
<1>9. Leaving = {} /\ Flagged = {}
  BY <1>1, ClosingSets
<1> HIDE DEF p1, s
<1>10. \A p \in Loops : p # p1 => p[1] < p1[1] /\ p[2] # w
  BY <1>6, <1>7, ReadyFacts, LoopFacts DEF Waits
<1>11. p1 \in ModalLoops /\ OpenLoops = ModalLoops /\ Deepest(OpenLoops, p1)
  BY <1>2, <1>6, <1>7, <1>9 DEF OpenLoops, ModalLoops, Deepest
<1>12. \A p \in ModalLoops : p \in old <=> p # p1
  <2>1. ~(p1[1] < p1[1])
    BY <1>6
  <2> QED  BY <1>10, <2>1 DEF Outside, ModalLoops
<1>13. isModal /\ activeModal = w /\ visible \cap enabled = {w}
  <2>1. isModal
    BY <1>11, ReadyFacts DEF Modality, Deepest
  <2>2. PICK q : Deepest(OpenLoops, q) /\ q[2] = activeModal
    BY <2>1, ReadyFacts DEF Modality
  <2>3. q = p1
    <3>1. q \in Loops /\ p1[1] <= q[1]
      BY <1>11, <2>2 DEF Deepest, OpenLoops, ModalLoops
    <3>2. q[1] < p1[1] => FALSE
      <4>1. q[1] \in Nat /\ p1[1] \in Nat
        BY <1>7, <3>1, ReadyFacts, LoopFacts
      <4> QED  BY <3>1, <4>1
    <3> QED  BY <1>10, <3>1, <3>2
  <2>4. activeModal = w
    BY <1>6, <2>2, <2>3
  <2>5. visible \cap enabled = {w}
    BY <1>9, <2>1, <2>4, ReadyFacts DEF Modality
  <2> QED  BY <2>1, <2>4, <2>5
<1>14. w \in Live /\ form[i].h = w /\ Nested(old, form[i].parent)
  BY <1>2, <1>4, <1>6, <1>11, ReadyFacts, FormsAssumption DEF Parents
<1>15. ASSUME FocusBlock(s)
       PROVE  /\ Shape(stack', form') /\ Loops' = Loops /\ Leaving' = {w} /\ Flagged' = {}
              /\ Others' = Others
  <2>1. ~Quiet(s[Len(s)])
    BY <1>8 DEF Quiet
  <2> QED  BY <1>1, <1>8, <1>15, <2>1, FocusSets
<1>16. FocusBlock(s) /\ UserKept
  <2>1. \A v : SetFocus(v, s) => FocusBlock(s) /\ UserKept
    BY SetFocusSteps
  <2>2. PassFocus(i, s) => FocusBlock(s) /\ UserKept
    BY PassFocusSteps
  <2>3. OnHide(i, s)
    BY <1>1, <1>4 DEF s
  <2> QED  BY <2>1, <2>2, <2>3 DEF OnHide, OnHideNonModal, OnHideModalParent, OnHideOtherParent
<1>17. Live' = Live /\ Looping' = Looping /\ ModalLoops' = ModalLoops /\ OpenLoops' = old
  <2>1. Live' = Live /\ Looping' = Looping /\ ModalLoops' = ModalLoops
    BY <1>1, <1>15, <1>16 DEF Live, Looping, ModalLoops
  <2>2. \A p \in ModalLoops : p \in OpenLoops' <=> p # p1
    <3>1. \A p \in ModalLoops : p[2] \in Live /\ p \in Loops
      BY <1>2 DEF ModalLoops
    <3> QED  BY <1>6, <1>10, <1>15, <1>16, <2>1, <3>1 DEF OpenLoops
  <2>3. OpenLoops' \subseteq ModalLoops /\ old \subseteq ModalLoops
    BY <2>1 DEF OpenLoops, Outside
  <2> QED  BY <1>12, <2>1, <2>2, <2>3
<1>18. enabled' \subseteq Live /\ Modality'
  <2>1. CASE old = {}
    <3>1. form[i].parent \in Windows \ Modals
      BY <1>14, <2>1 DEF Nested
    <3>2. OnHideOtherParent(form[i].parent, s)
      BY <1>1, <1>4, <3>1, FormsAssumption DEF OnHide, s
    <3>3. ~isModal' /\ enabled' = enabled \cup Live
      BY <3>2 DEF OnHideOtherParent
    <3> QED  BY <1>17, <2>1, <3>3, ReadyFacts DEF Modality, Seen
  <2>2. CASE old # {}
    <3>1. PICK q : Deepest(old, q) /\ q[2] = form[i].parent
      BY <1>14, <2>2 DEF Nested
    <3>2. q \in ModalLoops /\ q # p1 /\ q \in Loops /\ q[2] \in Modals /\ q[2] \in Live /\ q[2] # w
      <4>1. q \in ModalLoops
        BY <3>1 DEF Deepest, Outside
      <4>2. q # p1
        BY <1>12, <3>1, <4>1 DEF Deepest
      <4> QED  BY <1>2, <1>10, <4>1, <4>2 DEF ModalLoops
    <3>3. OnHideModalParent(q[2], s)
      BY <1>1, <1>4, <3>1, <3>2, FormsAssumption DEF OnHide, s
    <3>4. isModal' /\ activeModal' = q[2] /\ enabled' = enabled \cup {q[2]}
      BY <3>3 DEF OnHideModalParent
    <3>5. q[2] \in visible
      BY <3>2, ReadyFacts DEF Seen, Looping
    <3>6. (visible' \cap enabled') \ Leaving' = {q[2]}
      BY <1>1, <1>13, <1>15, <1>16, <3>2, <3>4, <3>5
    <3>7. enabled' \subseteq Live
      BY <3>2, <3>4, ReadyFacts DEF Seen
    <3> QED  BY <1>17, <3>1, <3>4, <3>6, <3>7 DEF Modality, Deepest
  <2> QED  BY <2>1, <2>2
<1>19. Waits'
  <2>1. posted' = <<>> /\ ~quit' /\ \A p \in Loops' : p[2] \in Live'
    BY <1>1, <1>2, <1>15, <1>16, <1>17, ReadyFacts DEF Waits, queue
  <2> QED  BY <1>1, <1>9, <1>15, <1>16, <1>17, <2>1, ReadyFacts DEF Waits
<1>20. Seen'
  <2>1. SameSlots
    BY <1>1 DEF SameSlots
  <2> QED  BY <1>1, <1>16, <1>17, <1>18, <2>1, ReadyFacts, UserSeen DEF Seen
<1>21. Parents' /\ Order'
  BY <1>1, <1>15, <1>16, <1>17, ReadyFacts DEF Parents, Order
<1>22. Shows
  <2>1. OpenLoops' = OpenLoops \ {p1} /\ p1 \in OpenLoops
    BY <1>11, <1>12, <1>17 DEF Outside
  <2>2. \A q \in OpenLoops' : q[1] < p1[1]
    BY <1>10, <2>1 DEF OpenLoops, ModalLoops
  <2>3. ClosesOne
    BY <1>1, <1>6, <1>9, <1>15, <1>16, <2>1, <2>2 DEF ClosesOne
  <2> QED  BY <2>3 DEF Shows
<1> QED  BY <1>15, <1>16, <1>18, <1>19, <1>20, <1>21, <1>22 DEF DInv, Advances

LEMMA DestroyDInv ==
  ASSUME DialogProgram, Ready, Destroy
  PROVE  Advances
<1>1. /\ Top.k = "closing" /\ Top.pc = "hidden" /\ stack' = Below
      /\ UNCHANGED <<defined, posted, modal, userWindow>>
  BY DEF Destroy, At, OnTop
<1>2. /\ Top.w \in Windows /\ Top.i \in Slot /\ form[Top.i].h = Top.w /\ Top.w \in Live
      /\ On(Top, Under, form) /\ ~quit /\ \A p \in Loops : p[2] \in Live
      /\ Below \in Seq(Frame) /\ Below # <<>> /\ Shape(Below, form)
      /\ LeavingOf(Below) = {} /\ FlaggedOf(Below) = {}
      /\ ~Quiet(Below[Len(Below)]) /\ ~Busy(Below[Len(Below)])
  BY <1>1, ClosingFacts
<1>3. Top.w \in Modals
  BY <1>1, <1>2 DEF On
<1>4. PICK i \in Slot, w \in Modals : i = Top.i /\ w = Top.w
  BY <1>2, <1>3
<1>5. /\ quit' /\ form' = [form EXCEPT ![i] = Blank]
      /\ enabled' = enabled \ {w} /\ visible' = visible \ {w}
  <2>1. PICK k \in Slot :
          /\ Holds(k, Top.w) /\ CountedOff(form[k].id) /\ form' = [form EXCEPT ![k] = Blank]
          /\ enabled' = enabled \ {Top.w} /\ visible' = visible \ {Top.w}
    BY <1>2 DEF Destroy
  <2>2. k = i
    BY <1>2, <1>4, <2>1, ReadyFacts, FormsAssumption DEF Holds, IInv, OneSlot
  <2>3. form[k].id = 0
    BY ReadyFacts DEF Waits
  <2>4. quit'
    BY <2>1, <2>3 DEF CountedOff
  <2> QED  BY <1>4, <2>1, <2>2, <2>4
<1>6. /\ form[i].h = w /\ w \in Windows /\ form'[i] = Blank
      /\ form'[i].h = NoWin /\ form'[i].active = FALSE /\ form'[i].id = 0
      /\ \A k \in Slot \ {i} : form'[k] = form[k] /\ form[k].h # w
  <2>1. form[i].h = w /\ w \in Windows /\ w # NoWin
    BY <1>2, <1>4, FormsAssumption
  <2>2. \A k \in Slot \ {i} : form[k].h # w
    BY <2>1, ReadyFacts DEF IInv, OneSlot
  <2> QED  BY <1>5, <2>1, <2>2, ReadyFacts DEF Blank
<1>7. Live' = Live \ {w}
  <2>1. ASSUME NEW v \in Live \ {w}
        PROVE  v \in Live'
    <3>1. PICK k \in Slot : form[k].h = v /\ v # NoWin
      BY DEF Live
    <3>2. k # i
      BY <1>6, <3>1
    <3> QED  BY <1>6, <3>1, <3>2 DEF Live
  <2>2. ASSUME NEW v \in Live'
        PROVE  v \in Live \ {w}
    <3>1. PICK k \in Slot : form'[k].h = v /\ v # NoWin
      BY DEF Live
    <3>2. k # i
      BY <1>6, <3>1
    <3> QED  BY <1>6, <3>1, <3>2 DEF Live
  <2> QED  BY <2>1, <2>2
<1>8. PICK m \in Nat : m = Len(stack) - 1 /\ m = Len(stack')
  BY <1>1, <1>3, ReadyFacts, ClosingModal, Popped
<1> DEFINE p1 == <<m, w>>
<1>9. /\ p1 \in Loops /\ p1[1] = m /\ p1[2] = w
  BY <1>1, <1>3, <1>4, <1>8, ClosingModal
<1> HIDE DEF p1
<1>10. \A p \in Loops : p[2] = w <=> p = p1
  BY <1>9, ReadyFacts DEF Waits
<1>11. /\ Loops' = Loops /\ Leaving = {w} /\ Leaving' = {} /\ Flagged = {} /\ Flagged' = {}
       /\ Others' \subseteq Others
  BY <1>1, <1>2, <1>4, ClosingSets DEF Loops, Leaving, Flagged, Others
<1>12. Looping' = Looping /\ ModalLoops' = ModalLoops /\ OpenLoops' = OpenLoops
  <2>1. Looping' = Looping /\ ModalLoops' = ModalLoops
    BY <1>11 DEF Looping, ModalLoops
  <2> QED  BY <1>7, <1>11, <2>1 DEF OpenLoops
<1>13. Shape(stack', form')
  <2>1. ASSUME NEW j \in DOMAIN Below, Below[j].k = "closing"
        PROVE  form'[Below[j].i] = form[Below[j].i]
    <3>1. Below[j] \in Frame
      BY <1>2, LenProperties, ElementOfSeq
    <3>2. Below[j].i \in Slot /\ Below[j].w \in Windows
      BY <2>1, <3>1 DEF Frame
    <3>3. j # 1 /\ form[Below[j].i].h = Below[j].w
          /\ (Below[j].w \in Modals => Below[j-1] = Loop({Below[j].w}))
      BY <1>2, <2>1 DEF Shape, Sits, On
    <3>4. DOMAIN Below = 1 .. m /\ \A k \in 1 .. m : Below[k] = stack[k]
      BY <1>8, ReadyFacts, Popped
    <3>5. Below[j].w # w
      <4> SUFFICES ASSUME Below[j].w = w PROVE FALSE
        OBVIOUS
      <4>1. j - 1 \in 1 .. m /\ j - 1 # m
        BY <2>1, <3>3, <3>4
      <4>2. j - 1 \in DOMAIN Below /\ Below[j-1] = Loop({w})
        BY <3>3, <3>4, <4>1
      <4>3. <<j - 1, w>> \in LoopsOf(Below)
        BY <1>6, <4>2 DEF LoopsOf
      <4>4. <<j - 1, w>> \in Loops
        BY <1>1, <4>3, ClosingSets
      <4>5. <<j - 1, w>> = p1
        BY <1>10, <4>4
      <4> QED  BY <4>1, <4>5 DEF p1
    <3>6. Below[j].i # i
      BY <1>6, <3>3, <3>5
    <3> QED  BY <1>6, <3>2, <3>6
  <2>2. \A j \in DOMAIN Below : Below[j].k # "activating"
    BY <1>2, Rested DEF Busy
  <2> QED  BY <1>1, <1>2, <2>1, <2>2, ShapeTable
<1>14. Waits'
  <2>1. NoWin \notin Looping
    BY ReadyFacts, LoopFacts, FormsAssumption
  <2>2. /\ \A k \in Slot : form'[k].active => form'[k].h \in Looping
        /\ \A k \in Slot : form'[k].h \in Looping => form'[k].active
        /\ \A k \in Slot : form'[k].id = 0
    BY <1>6, <1>11, <2>1, ReadyFacts DEF Waits
  <2>3. \A p \in Loops : p[2] \notin Live' => p[1] = Len(stack') /\ quit'
    BY <1>2, <1>5, <1>7, <1>8, <1>9, <1>10
  <2>4. \E p \in Loops : p[1] = Len(stack') /\ p[2] \notin Live'
    BY <1>7, <1>8, <1>9
  <2>5. posted' = <<>> /\ \A p, q \in Loops : p[2] = q[2] => p = q
    BY <1>1, ReadyFacts DEF Waits
  <2> QED  BY <1>11, <1>12, <2>2, <2>3, <2>4, <2>5 DEF Waits
<1>15. Seen'
  <2>1. \A k \in Slot : form'[k].h = userWindow /\ userWindow # NoWin => form'[k].active
    BY <1>6, ReadyFacts DEF Seen
  <2> QED  BY <1>1, <1>5, <1>7, <1>12, <2>1, ReadyFacts DEF Seen
<1>16. Parents' /\ Order'
  <2>1. Parents'
    BY <1>6, <1>12, ReadyFacts DEF Parents
  <2> QED  BY <1>11, <1>12, <2>1, ReadyFacts DEF Order
<1>17. Modality'
  <2>1. (visible' \cap enabled') \ Leaving' = (visible \cap enabled) \ Leaving
    BY <1>5, <1>11
  <2> QED  BY <1>1, <1>12, <2>1, ReadyFacts DEF Modality, modal
<1>18. Shows
  BY <1>5, <1>11, <1>12 DEF Shows, Rests
<1> QED  BY <1>11, <1>13, <1>14, <1>15, <1>16, <1>17, <1>18 DEF DInv, Advances

-----------------------------------------------------------------------------
(* ACTIVATE WINDOW.                                                        *)

\* The block that activates a window: nothing is quiet or busy, every loop has
\* its window.
LEMMA CallerFacts ==
  ASSUME Ready, Top.k = "block", MayActivate
  PROVE  /\ ~quit /\ Leaving = {} /\ Flagged = {} /\ OpenLoops = ModalLoops
         /\ ~Quiet(stack[Len(stack)]) /\ ~Busy(stack[Len(stack)])
         /\ \A p \in Loops : p[2] \in Live
<1>1. PICK n \in Nat : n = Len(stack) /\ n # 0 /\ DOMAIN stack = 1 .. n /\ stack[n] = Top
  BY ReadyFacts, Popped
<1>2. Innermost(n)
  <2>1. n \in DOMAIN stack /\ \A m \in DOMAIN stack : ~(m > n)
    BY <1>1
  <2> QED  BY <1>1, <2>1 DEF Innermost
<1>3. Top.ev \notin {"release", "gotfocus"}
  BY <1>1, <1>2 DEF MayActivate, InEvent, Innermost
<1>4. ~Quiet(stack[Len(stack)]) /\ ~Busy(stack[Len(stack)])
  BY <1>1, <1>3 DEF Quiet, Busy
<1>5. Leaving = {} /\ Flagged = {}
  BY <1>4, ReadyFacts, Rested DEF Leaving, Flagged
<1>6. ~quit /\ \A p \in Loops : p[2] \in Live
  BY ReadyFacts, QuitTop
<1>7. OpenLoops = ModalLoops
  BY <1>5, <1>6 DEF OpenLoops, ModalLoops
<1> QED  BY <1>4, <1>5, <1>6, <1>7

\* The stack it leaves: the loop of w and, over it, the activation at its flag.
Started(w, i) == stack \o <<Loop({w})>> \o <<Activating(i, "flag")>>

LEMMA ActivateStack ==
  ASSUME Ready, Top.k = "block", MayActivate, NEW w \in Windows, NEW i \in Slot,
         NEW t, Shape(stack, t), t[i].h = w, ~t[i].active
  PROVE  /\ Started(w, i) \in Seq(Frame) /\ Started(w, i) # <<>> /\ Shape(Started(w, i), t)
         /\ ~Quiet(Started(w, i)[Len(Started(w, i))])
         /\ LoopsOf(Started(w, i)) = Loops \cup {<<Len(stack) + 1, w>>}
         /\ LeavingOf(Started(w, i)) = {}
         /\ FlaggedOf(Started(w, i)) = {i} /\ OthersOf(Started(w, i)) = Others
<1> DEFINE l == Loop({w})
           a == Activating(i, "flag")
           u == Append(stack, l)
           s == Append(u, a)
<1>0. PICK n \in Nat : n = Len(stack)
  BY ReadyFacts, Popped
<1>1. l \in Frame /\ a \in Frame /\ l.k = "loop" /\ a.k = "activating" /\ a.i = i /\ a.pc = "flag"
  BY Frames DEF Loop, Activating
<1>2. /\ LoopIn(l, Len(stack) + 1) = {<<Len(stack) + 1, w>>} /\ LeavingIn(l) = {} /\ FlaggedIn(l) = {}
      /\ OthersIn(l, Len(stack) + 1) = {}
  BY LoopAdds
<1>3. \A k : LoopIn(a, k) = {} /\ LeavingIn(a) = {} /\ FlaggedIn(a) = {i} /\ OthersIn(a, k) = {}
  BY <1>1 DEF LoopIn, LeavingIn, FlaggedIn, OthersIn, Loop
<1>4. \A g : On(l, g, t)
  BY <1>1 DEF On, Query
<1>5. On(a, l, t)
  BY <1>1 DEF On, Query
<1> HIDE DEF l, a, s
<1>6. /\ u \in Seq(Frame) /\ u # <<>> /\ u[Len(u)] = l /\ Shape(u, t)
      /\ LoopsOf(u) = Loops \cup {<<Len(stack) + 1, w>>} /\ LeavingOf(u) = {}
      /\ FlaggedOf(u) = {} /\ OthersOf(u) = Others
  <2>1. u \in Seq(Frame) /\ Len(u) = n + 1 /\ u[n + 1] = l
    BY <1>0, <1>1, ReadyFacts, Appended
  <2>2. u # <<>> /\ u[Len(u)] = l
    BY <2>1
  <2>3. Shape(u, t)
    BY <1>1, <1>4, ReadyFacts, CallerFacts, ShapeAppend
  <2>4. /\ LoopsOf(u) = LoopsOf(stack) \cup LoopIn(l, Len(stack) + 1)
        /\ LeavingOf(u) = LeavingOf(stack) \cup LeavingIn(l)
        /\ FlaggedOf(u) = FlaggedOf(stack) \cup FlaggedIn(l)
        /\ OthersOf(u) = OthersOf(stack) \cup OthersIn(l, Len(stack) + 1)
    BY <1>1, ReadyFacts, AppendedSets
  <2> QED  BY <1>2, <2>1, <2>2, <2>3, <2>4, CallerFacts DEF Loops, Leaving, Flagged, Others
<1>7. Started(w, i) = s
  <2>1. stack \o <<l>> = u
    BY <1>1, ReadyFacts, Concat
  <2>2. u \o <<a>> = Append(u, a)
    BY <1>1, <1>6, Concat
  <2>3. Started(w, i) = (stack \o <<l>>) \o <<a>>
    BY DEF l, a, Started
  <2> QED  BY <2>1, <2>2, <2>3 DEF s
<1> HIDE DEF u
<1>8. PICK m \in Nat : m = Len(u)
  BY <1>6, LenProperties
<1>9. s \in Seq(Frame) /\ Len(s) = m + 1 /\ s[m + 1] = a
  BY <1>1, <1>6, <1>8, Appended DEF s
<1>10. s # <<>> /\ s[Len(s)] = a
  BY <1>9
<1>11. Shape(s, t)
  <2>1. ~Quiet(u[Len(u)]) /\ ~Busy(u[Len(u)]) /\ On(a, u[Len(u)], t)
    BY <1>1, <1>5, <1>6 DEF Quiet, Busy
  <2> QED  BY <1>1, <1>6, <2>1, ShapeAppend DEF s
<1>12. /\ LoopsOf(s) = LoopsOf(u) \cup LoopIn(a, Len(u) + 1)
       /\ LeavingOf(s) = LeavingOf(u) \cup LeavingIn(a)
       /\ FlaggedOf(s) = FlaggedOf(u) \cup FlaggedIn(a)
       /\ OthersOf(s) = OthersOf(u) \cup OthersIn(a, Len(u) + 1)
  BY <1>1, <1>6, AppendedSets DEF s
<1>13. ~Quiet(s[Len(s)])
  BY <1>1, <1>10 DEF Quiet
<1> QED  BY <1>3, <1>6, <1>7, <1>9, <1>10, <1>11, <1>12, <1>13

LEMMA ActivateDInv ==
  ASSUME Ready, NEW w \in Windows, Activate(w, FALSE)
  PROVE  Advances
<1>1. /\ Top.k = "block" /\ MayActivate /\ (w \notin Modals => ~isModal)
      /\ ShowWindow(w) /\ UNCHANGED <<defined, queue>>
  BY DEF Activate, Calling, OnTop, MayWait
<1>2. PICK i \in Slot : /\ form[i].h = w /\ ~form[i].active
                        /\ form' = ShownForm(w, i, form) /\ SetFocus(w, Started(w, i))
  <2>1. PICK i \in Slot :
          /\ Holds(i, w) /\ ~form[i].active
          /\ form' = ShownForm(w, i, form)
          /\ SetFocus(w, stack \o <<Loop({w})>> \o <<Activating(i, "flag")>>)
    BY DEF Activate
  <2> QED  BY <2>1 DEF Holds, Started
<1>3. PICK s : s = Started(w, i)
  OBVIOUS
<1>4. PICK n \in Nat : n = Len(stack) /\ DOMAIN stack = 1 .. n
  BY ReadyFacts, Popped
<1>5. /\ ~quit /\ Leaving = {} /\ Flagged = {} /\ OpenLoops = ModalLoops
      /\ \A p \in Loops : p[2] \in Live
  BY <1>1, CallerFacts
<1>6. PICK mp : mp = ModalParent
  OBVIOUS
<1>7. /\ \A k \in Slot : form'[k].h = form[k].h /\ form'[k].active = form[k].active
                         /\ form'[k].id = form[k].id
      /\ \A k \in Slot \ {i} : form'[k] = form[k]
      /\ form'[i].parent = IF w \in Modals THEN mp ELSE form[i].parent
  <2>1. form[i] \in Form
    BY ReadyFacts
  <2>2. CASE w \in Modals
    <3>1. form' = [form EXCEPT ![i].parent = mp]
      BY <1>2, <1>6, <2>2 DEF ShownForm
    <3>2. form'[i] = [form[i] EXCEPT !.parent = mp] /\ \A k \in Slot \ {i} : form'[k] = form[k]
      BY <3>1, ReadyFacts
    <3> QED  BY <2>1, <2>2, <3>2 DEF Form
  <2>3. CASE w \notin Modals
    BY <1>2, <2>3 DEF ShownForm
  <2> QED  BY <2>2, <2>3
<1>8. SameSlots /\ Live' = Live /\ w \in Live /\ w # NoWin
  <2>1. SameSlots /\ Live' = Live
    BY <1>7 DEF SameSlots, Live
  <2> QED  BY <1>2, <2>1, FormsAssumption DEF Live
<1>9. w \notin Looping
  BY <1>2, <1>5, ReadyFacts DEF Waits
<1>10. /\ Shape(stack', form')
       /\ Loops' = Loops \cup {<<n + 1, w>>} /\ Leaving' = {} /\ Flagged' = {i} /\ Others' = Others
       /\ UserKept
  <2>1. FocusBlock(s) /\ UserKept
    BY <1>2, <1>3, SetFocusSteps
  <2>2. Shape(stack, form')
    <3>1. \A j \in DOMAIN stack : stack[j].k \in {"closing", "activating"} => stack[j].i \in Slot
      BY SlotTaken
    <3>2. \A j \in DOMAIN stack : stack[j].k = "activating" => ~form[stack[j].i].active
      BY ReadyFacts DEF Shape, Sits, On
    <3> QED  BY <1>7, <3>1, <3>2, ReadyFacts, ShapeTable
  <2>3. form'[i].h = w /\ ~form'[i].active
    BY <1>2, <1>7
  <2>5. PICK t : t = form'
    OBVIOUS
  <2>6. /\ s \in Seq(Frame) /\ s # <<>> /\ Shape(s, t) /\ ~Quiet(s[Len(s)])
        /\ LoopsOf(s) = Loops \cup {<<Len(stack) + 1, w>>} /\ LeavingOf(s) = {}
        /\ FlaggedOf(s) = {i} /\ OthersOf(s) = Others
    BY <1>1, <1>3, <2>2, <2>3, <2>5, ActivateStack
  <2>7. /\ Shape(stack', t)
        /\ Loops' = LoopsOf(s) /\ Leaving' = LeavingOf(s)
        /\ Flagged' = FlaggedOf(s) /\ Others' = OthersOf(s)
    BY <2>1, <2>6, FocusSets
  <2> QED  BY <1>4, <2>1, <2>5, <2>6, <2>7
<1>11. PICK p1 : p1 = <<n + 1, w>>
  OBVIOUS
<1>12. /\ p1[1] = n + 1 /\ p1[2] = w /\ Loops' = Loops \cup {p1}
       /\ \A p \in Loops : p[1] \in 1 .. n /\ p[1] < p1[1] /\ p[2] # w
  <2>1. \A p \in Loops : p[1] \in 1 .. n /\ p[2] # w
    BY <1>4, <1>9, ReadyFacts, LoopFacts DEF Looping
  <2>2. \A p \in Loops : p[1] < n + 1
    BY <2>1
  <2> QED  BY <1>10, <1>11, <2>1, <2>2
<1>13. Looping' = Looping \cup {w}
  BY <1>12 DEF Looping
<1>14. /\ w \in Modals => ModalLoops' = ModalLoops \cup {p1}
       /\ w \notin Modals => ModalLoops' = ModalLoops /\ ModalLoops = {}
       /\ OpenLoops' = ModalLoops'
  <2>1. w \in Modals => ModalLoops' = ModalLoops \cup {p1}
    BY <1>12 DEF ModalLoops
  <2>2. w \notin Modals => ModalLoops' = ModalLoops
    BY <1>12 DEF ModalLoops
  <2>3. w \notin Modals => ModalLoops = {}
    BY <1>1, <1>5, ReadyFacts DEF Modality
  <2>4. \A p \in Loops' : p[2] \in Live' /\ p[2] \notin Leaving'
    BY <1>5, <1>8, <1>10, <1>12
  <2>5. OpenLoops' = ModalLoops'
    BY <2>4 DEF OpenLoops, ModalLoops
  <2> QED  BY <2>1, <2>2, <2>3, <2>5
<1>15. Waits'
  <2>1. \A p, q \in Loops' : p[2] = q[2] => p = q
    BY <1>12, ReadyFacts DEF Waits
  <2>2. \A k \in Slot : form'[k].active => form'[k].h \in Looping'
    BY <1>7, <1>13, ReadyFacts DEF Waits
  <2>3. \A k \in Slot : form'[k].h \in Looping' => form'[k].active \/ k \in Flagged'
    <3>1. ASSUME NEW k \in Slot, form'[k].h \in Looping'
          PROVE  form'[k].active \/ k \in Flagged'
      <4>1. CASE form[k].h = w
        <5>1. k = i
          BY <1>2, <1>8, <4>1, ReadyFacts DEF IInv, OneSlot
        <5> QED  BY <1>10, <5>1
      <4>2. CASE form[k].h # w
        BY <1>5, <1>7, <1>13, <3>1, <4>2, ReadyFacts DEF Waits
      <4> QED  BY <4>1, <4>2
    <3> QED  BY <3>1
  <2>4. \A p \in Loops' : p[2] \in Live'
    BY <1>5, <1>8, <1>12
  <2>5. ~quit' /\ posted' = <<>> /\ \A k \in Slot : form'[k].id = 0
    BY <1>1, <1>5, <1>7, ReadyFacts DEF Waits, queue
  <2> QED  BY <2>1, <2>2, <2>3, <2>4, <2>5 DEF Waits
<1>16. visible' = visible \cup {w}
  BY <1>1 DEF ShowWindow
<1>17. \A x \in visible : \A k \in Slot : form[k].h = x => form[k].parent # w
  <2>1. ASSUME NEW x \in visible, NEW k \in Slot, form[k].h = x, form[k].parent = w
        PROVE  FALSE
    <3>1. x \in Live \cap Looping
      BY <2>1, ReadyFacts DEF Seen
    <3>2. form[k].h # NoWin
      BY <2>1, <3>1, ReadyFacts, LoopFacts, FormsAssumption
    <3>3. x \in Modals
      BY <1>8, <2>1, <3>2, ReadyFacts DEF Parents
    <3>4. PICK p \in ModalLoops : p[2] = x
      BY <3>1, <3>3 DEF Looping, ModalLoops
    <3>5. Nested(Outside(ModalLoops, p), w)
      BY <2>1, <3>2, <3>4, ReadyFacts DEF Parents
    <3>6. CASE Outside(ModalLoops, p) # {}
      <4>1. PICK q : q \in Outside(ModalLoops, p) /\ q[2] = w
        BY <3>5, <3>6 DEF Nested, Deepest
      <4> QED  BY <1>12, <4>1 DEF Outside, ModalLoops
    <3>7. CASE Outside(ModalLoops, p) = {}
      <4>1. w \notin Modals
        BY <3>5, <3>7 DEF Nested
      <4> QED  BY <1>14, <3>4, <4>1
    <3> QED  BY <3>6, <3>7
  <2> QED  BY <2>1
<1>18. /\ enabled' \subseteq Live
       /\ w \in Modals => visible' \cap enabled' = {w} /\ isModal' /\ activeModal' = w
       /\ w \notin Modals => UNCHANGED modal
  <2>1. CASE w \in Modals
    <3>1. /\ enabled' = {w} \cup {x \in enabled : \A j \in Slot : Holds(j, x) => form[j].parent = w}
          /\ isModal' = TRUE /\ activeModal' = w
      BY <1>1, <2>1 DEF ShowWindow
    <3>2. ASSUME NEW x \in visible, x \in enabled, \A j \in Slot : Holds(j, x) => form[j].parent = w
          PROVE  FALSE
      <4>1. PICK k \in Slot : form[k].h = x
        BY <3>2, ReadyFacts DEF Seen, Live
      <4> QED  BY <1>17, <3>2, <4>1 DEF Holds
    <3>3. visible' \cap enabled' = {w}
      BY <1>16, <3>1, <3>2
    <3>4. enabled' \subseteq Live
      BY <1>8, <3>1, ReadyFacts DEF Seen
    <3> QED  BY <2>1, <3>1, <3>3, <3>4
  <2>2. CASE w \notin Modals
    BY <1>1, <2>2, ReadyFacts DEF ShowWindow, Seen
  <2> QED  BY <2>1, <2>2
<1>19. Seen'
  <2>1. /\ visible' \subseteq Live' \cap Looping' /\ Modals \cap Live' \cap Looping' \subseteq visible'
        /\ enabled' \subseteq Live'
    BY <1>8, <1>13, <1>16, <1>18, ReadyFacts DEF Seen
  <2>2. /\ userWindow' \in defined' \cup {NoWin}
        /\ \A k \in Slot : form'[k].h = userWindow' /\ userWindow' # NoWin => form'[k].active
    BY <1>1, <1>8, <1>10, ReadyFacts, UserSeen
  <2> QED  BY <2>1, <2>2 DEF Seen
<1>20. Parents'
  <2>1. \A p \in ModalLoops : p \in ModalLoops' /\ Outside(ModalLoops', p) = Outside(ModalLoops, p)
    <3>1. ASSUME NEW p \in ModalLoops
          PROVE  p \in ModalLoops' /\ Outside(ModalLoops', p) = Outside(ModalLoops, p)
      <4>1. ~(p1[1] < p[1])
        <5>1. p[1] \in 1 .. n
          BY <1>12 DEF ModalLoops
        <5> QED  BY <1>12, <5>1
      <4> QED  BY <1>14, <4>1 DEF Outside
    <3> QED  BY <3>1
  <2>2. w \in Modals => Outside(ModalLoops', p1) = ModalLoops
    <3>1. ~(p1[1] < p1[1])
      BY <1>12
    <3> QED  BY <1>12, <1>14, <3>1 DEF Outside, ModalLoops
  <2>3. w \in Modals => Nested(ModalLoops, mp)
    <3> SUFFICES ASSUME w \in Modals PROVE Nested(ModalLoops, mp)
      OBVIOUS
    <3>1. CASE isModal
      <4>1. \E q : Deepest(ModalLoops, q) /\ q[2] = activeModal
        BY <1>5, <3>1, ReadyFacts DEF Modality
      <4>2. mp = activeModal
        BY <1>6, <3>1 DEF ModalParent
      <4> QED  BY <4>1, <4>2 DEF Nested, Deepest
    <3>2. CASE ~isModal
      <4>1. ModalLoops = {}
        BY <1>5, <3>2, ReadyFacts DEF Modality
      <4>2. mp \in Windows \ Modals
        <5>1. CASE userWindow \in Live
          <6>1. PICK k \in Slot : form[k].h = userWindow /\ userWindow # NoWin
            BY <5>1 DEF Live
          <6>2. userWindow \in Looping
            BY <6>1, ReadyFacts DEF Seen, Waits
          <6>3. userWindow \in Windows
            BY <6>2, ReadyFacts, LoopFacts
          <6>4. userWindow \notin Modals
            BY <4>1, <6>2 DEF Looping, ModalLoops
          <6> QED  BY <1>6, <3>2, <5>1, <6>3, <6>4 DEF ModalParent
        <5>2. CASE userWindow \notin Live
          BY <1>6, <3>2, <5>2, FormsAssumption DEF ModalParent
        <5> QED  BY <5>1, <5>2
      <4> QED  BY <4>1, <4>2 DEF Nested
    <3> QED  BY <3>1, <3>2
  <2>4. ASSUME NEW k \in Slot, form'[k].h # NoWin
        PROVE  /\ form'[k].h \notin Modals => form'[k].parent = NoWin
               /\ form'[k].h \in Modals \ Looping' => form'[k].parent = Main
               /\ \A p \in ModalLoops' : p[2] = form'[k].h =>
                    Nested(Outside(ModalLoops', p), form'[k].parent)
    <3>1. CASE k = i
      <4>1. form'[k].h = w
        BY <1>2, <1>7, <3>1
      <4>2. w \notin Modals => form'[k].parent = NoWin
        BY <1>2, <1>7, <1>8, <3>1, ReadyFacts DEF Parents
      <4>3. ASSUME NEW p \in ModalLoops', p[2] = w
            PROVE  Nested(Outside(ModalLoops', p), form'[k].parent)
        <5>1. p = p1 /\ w \in Modals
          BY <1>12, <4>3 DEF ModalLoops
        <5>2. form'[k].parent = mp
          BY <1>7, <3>1, <5>1
        <5>3. Outside(ModalLoops', p) = ModalLoops
          BY <2>2, <5>1
        <5> QED  BY <2>3, <5>1, <5>2, <5>3
      <4> QED  BY <1>13, <4>1, <4>2, <4>3
    <3>2. CASE k # i
      <4>1. form'[k] = form[k] /\ form[k].h # w
        BY <1>2, <1>7, <1>8, <3>2, ReadyFacts DEF IInv, OneSlot
      <4>2. /\ form[k].h \notin Modals => form[k].parent = NoWin
            /\ form[k].h \in Modals \ Looping => form[k].parent = Main
            /\ \A p \in ModalLoops : p[2] = form[k].h => Nested(Outside(ModalLoops, p), form[k].parent)
        BY <2>4, <4>1, ReadyFacts DEF Parents
      <4>3. ASSUME NEW p \in ModalLoops', p[2] = form[k].h
            PROVE  Nested(Outside(ModalLoops', p), form[k].parent)
        <5>1. p \in ModalLoops
          BY <1>12, <1>14, <4>1, <4>3
        <5>2. Outside(ModalLoops', p) = Outside(ModalLoops, p) /\ Nested(Outside(ModalLoops, p), form[k].parent)
          BY <2>1, <4>2, <4>3, <5>1
        <5> QED  BY <5>2
      <4> QED  BY <1>13, <4>1, <4>2, <4>3
    <3> QED  BY <3>1, <3>2
  <2> QED  BY <2>4 DEF Parents
<1>21. Order'
  <2>1. CASE w \in Modals
    <3>1. \A q \in Loops' : q[2] \notin Modals => q \in Loops
      BY <1>12, <2>1
    <3>2. \A j \in Others : j < p1[1]
      <4>1. Others \subseteq 1 .. n
        BY <1>4 DEF Others, OthersOf
      <4> QED  BY <1>12, <4>1
    <3> QED  BY <1>10, <1>12, <1>14, <2>1, <3>1, <3>2, ReadyFacts DEF Order
  <2>2. CASE w \notin Modals
    BY <1>14, <2>2 DEF Order
  <2> QED  BY <2>1, <2>2
<1>22. Modality'
  <2>1. CASE w \in Modals
    <3>1. Deepest(OpenLoops', p1)
      <4>1. \A p \in Loops : p[1] <= p1[1]
        BY <1>12
      <4>2. p1[1] <= p1[1]
        BY <1>12
      <4> QED  BY <1>14, <2>1, <4>1, <4>2 DEF Deepest, ModalLoops
    <3>2. (visible' \cap enabled') \ Leaving' = {w}
      BY <1>10, <1>18, <2>1
    <3> QED  BY <1>12, <1>18, <2>1, <3>1, <3>2 DEF Modality, Deepest
  <2>2. CASE w \notin Modals
    BY <1>1, <1>14, <1>18, <2>2 DEF Modality, modal
  <2> QED  BY <2>1, <2>2
<1>23. Shows
  <2>1. w \notin visible
    BY <1>9, ReadyFacts DEF Seen
  <2>2. CASE w \in Modals
    <3>1. p1 \in Loops' /\ \A q \in OpenLoops : q[1] < p1[1] /\ q[2] # p1[2]
      BY <1>12 DEF OpenLoops, ModalLoops
    <3>2. OpenLoops' = OpenLoops \cup {p1}
      BY <1>5, <1>14, <2>2
    <3>3. OpensOne
      BY <1>5, <1>10, <1>12, <1>16, <2>1, <2>2, <3>1, <3>2 DEF OpensOne
    <3> QED  BY <3>3 DEF Shows
  <2>3. CASE w \notin Modals
    <3>1. OpenLoops = {} /\ OpenLoops' = {}
      BY <1>5, <1>14, <2>3
    <3>2. ShowsOne
      BY <1>5, <1>10, <1>16, <2>1, <3>1 DEF ShowsOne
    <3> QED  BY <3>2 DEF Shows
  <2> QED  BY <2>2, <2>3
<1> QED  BY <1>10, <1>15, <1>19, <1>20, <1>21, <1>22, <1>23 DEF DInv, Advances

-----------------------------------------------------------------------------
(* The invariant of the specification.                                     *)

LEMMA CallDInv ==
  ASSUME DialogProgram, Ready, Call
  PROVE  Advances
<1>1. \E w \in Windows : Define(w) \/ Activate(w, FALSE)
  <2>1. \A c \in {"nowait", "multi", "loop", "release", "show", "hide", "events"} : c \notin Api
    BY DEF DialogProgram
  <2>2. ~MessageLoop /\ ~DoEvents
    BY <2>1 DEF MessageLoop, DoEvents, Calling
  <2>3. \A w \in Windows : ~Release(w) /\ ~Show(w) /\ ~Hide(w) /\ ~Activate(w, TRUE)
    BY <2>1 DEF Release, Show, Hide, Activate, Calling
  <2>4. \A v, w \in Windows : ~ActivateMulti(v, w)
    BY <2>1 DEF ActivateMulti, Calling
  <2> QED  BY <2>2, <2>3, <2>4 DEF Call
<1> QED  BY <1>1, DefineDInv, ActivateDInv

\* The frame on top is a block, a loop, an activation at its flag, a closing
\* whose window is left, or ReleaseAllWindows.
LEMMA TopKinds ==
  ASSUME Ready
  PROVE  /\ Top.k \in {"block", "loop", "activating", "closing", "all"}
         /\ Top.k = "activating" => Top.pc = "flag"
         /\ Top.k = "closing" => form[Top.i].h \in Windows
<1>1. PICK n \in Nat : n = Len(stack) /\ n # 0 /\ DOMAIN stack = 1 .. n /\ stack[n] = Top
  BY ReadyFacts, Popped
<1>2. n \in DOMAIN stack /\ Sits(stack, form, n)
  BY <1>1, ReadyFacts DEF Shape
<1>3. Top.k \in {"block", "loop", "activating", "closing", "all"} /\ (Top.k = "activating" => Top.pc = "flag")
  BY <1>1, <1>2 DEF Sits, On
<1> QED  BY <1>3, ClosingFacts

LEMMA HandlerDInv ==
  ASSUME DialogProgram, Ready, Handler
  PROVE  Advances
<1>1. ~InitProcedure /\ ~ActivateNext /\ ~ActivateLoop
  BY TopKinds DEF InitProcedure, ActivateNext, ActivateLoop, At, OnTop
<1>2. ~CloseGone
  BY TopKinds, FormsAssumption DEF CloseGone, At, OnTop
<1> QED  BY <1>1, <1>2, CloseAskDInv, CloseHidesDInv, CloseMainDInv, CloseReleasesDInv,
            CloseYieldsDInv, DestroyDInv, ReleaseNextDInv, SetActivationFlagDInv DEF Handler

LEMMA InputDInv ==
  ASSUME Ready, Input
  PROVE  Advances
<1>1. ~Key
  BY IdleFacts DEF Key
<1> QED  BY <1>1, UserCloseDInv, UserFocusDInv, ControlEventDInv DEF Input

LEMMA NextDInv ==
  ASSUME DialogProgram, IInv, DInv, [Next]_vars
  PROVE  IInv' /\ Advances
<1>1. IInv'
  BY NextIInv
<1>2. Ready
  BY <1>1 DEF Ready, DInv, Shape
<1>3. CASE Next
  <2>1. ~Dispatch /\ ~Drained
    BY <1>2, ReadyFacts, IdleFacts DEF Waits, Dispatch, Drained
  <2> QED  BY <1>1, <1>2, <1>3, <2>1, CallDInv, HandlerDInv, InputDInv, ReturnDInv, QuitDInv
           DEF Next, System
<1>4. CASE UNCHANGED vars
  <2>1. /\ UNCHANGED <<defined, form, desktop, queue, modal, userWindow, stack>>
    BY <1>4 DEF vars
  <2>2. Shape(stack', form') /\ Loops' = Loops /\ Live' = Live
    BY <2>1, <1>2, ReadyFacts DEF Loops, Live
  <2>3. Looping' = Looping /\ ModalLoops' = ModalLoops /\ OpenLoops' = OpenLoops
        /\ Leaving' = Leaving /\ Flagged' = Flagged /\ Others' = Others
    BY <2>1, <2>2 DEF Looping, ModalLoops, OpenLoops, Leaving, Flagged, Others
  <2>4. Waits' /\ Seen'
    BY <2>1, <2>2, <2>3 DEF DInv, Waits, Seen, queue, desktop
  <2>5. Parents' /\ Order' /\ Modality'
    BY <2>1, <2>2, <2>3 DEF DInv, Parents, Order, Modality, modal, desktop
  <2>6. Shows
    BY <2>1, <2>3 DEF Shows, Rests, desktop
  <2> QED  BY <1>1, <2>2, <2>4, <2>5, <2>6 DEF DInv, Advances
<1> QED  BY <1>3, <1>4

LEMMA InitDInv == Init => DInv
<1> SUFFICES ASSUME Init PROVE DInv
  OBVIOUS
<1> DEFINE f == Block("", 0)
<1>1. f.k = "block" /\ f.ev = "" /\ f.this = 0
  BY DEF Block
<1>2. stack = <<f>>
  BY DEF Init
<1> HIDE DEF f
<1>3. Len(stack) = 1 /\ DOMAIN stack = {1} /\ stack[1] = f /\ stack # <<>>
  BY <1>2
<1>4. Shape(stack, form)
  <2>1. \A j \in DOMAIN stack : Sits(stack, form, j)
    BY <1>1, <1>3 DEF Sits, Query
  <2>2. \A j \in DOMAIN stack : ~(j < Len(stack))
    <3>1. ~(1 < 1)
      OBVIOUS
    <3> QED  BY <1>3, <3>1
  <2> QED  BY <1>3, <2>1, <2>2 DEF Shape, Crested
<1>5. Loops = {} /\ Leaving = {} /\ Flagged = {} /\ Others = {}
  <2>1. \A p \in Loops : FALSE
    <3>1. ASSUME NEW p \in Loops
          PROVE  FALSE
      <4>1. p \in {1} \X Windows /\ stack[p[1]] = Loop({p[2]})
        BY <1>3 DEF Loops, LoopsOf
      <4>2. p[1] = 1
        BY <4>1
      <4>3. f = Loop({p[2]})
        BY <1>3, <4>1, <4>2
      <4> QED  BY <1>1, <4>3, LoopEq
    <3> QED  BY <3>1
  <2> QED  BY <1>1, <1>3, <2>1 DEF Leaving, Flagged, Others, LeavingOf, FlaggedOf, OthersOf
<1>6. Looping = {} /\ ModalLoops = {} /\ OpenLoops = {} /\ Live = {}
  BY <1>5 DEF Looping, ModalLoops, OpenLoops, Live, Init, Blank
<1>7. Waits
  BY <1>5, <1>6 DEF Waits, Init, Blank
<1>8. Seen
  BY <1>6 DEF Seen, Init, Blank
<1>9. Parents /\ Order /\ Modality
  BY <1>5, <1>6 DEF Parents, Order, Modality, Init, Blank
<1> QED  BY <1>4, <1>7, <1>8, <1>9 DEF DInv

\* The loops, the table and the modality of such a program agree in every
\* reachable state (_ActivateWindow, the WM_CLOSE and WM_DESTROY handlers).
THEOREM Chained == DialogProgram => (Spec => [](IInv /\ DInv))
<1> SUFFICES ASSUME DialogProgram PROVE Spec => [](IInv /\ DInv)
  OBVIOUS
<1>1. Init => IInv /\ DInv
  BY InitIInv, InitDInv
<1>2. (IInv /\ DInv) /\ [Next]_vars => (IInv /\ DInv)'
  BY NextDInv DEF Advances
<1> QED  BY <1>1, <1>2, PTL DEF Spec

-----------------------------------------------------------------------------
(* The theorems.                                                           *)

\* The depths of the dialogs are those of the loops of modal windows.
LEMMA DialogLoops ==
  ASSUME IInv, DInv, ~Between
  PROVE  /\ Leaving = {}
         /\ \A j \in Dialogs : \E p \in OpenLoops : p[1] = j /\ stack[j].wins = {p[2]}
         /\ \A p \in OpenLoops : p[1] \in Dialogs /\ p[1] \in Nat /\ stack[p[1]].wins = {p[2]}
<1>0. stack \in Seq(Frame) /\ Shape(stack, form)
  BY DEF IInv, TypeOK, DInv
<1>1. Leaving = {}
  BY DEF Leaving, LeavingOf, Between
<1>2. ASSUME NEW j \in Dialogs
      PROVE  \E p \in OpenLoops : p[1] = j /\ stack[j].wins = {p[2]}
  <2>1. j \in DOMAIN stack /\ stack[j].k = "loop" /\ stack[j].wins \cap Modals \cap Live # {}
    BY DEF Dialogs
  <2>2. PICK w \in Windows : stack[j] = Loop({w})
    BY <1>0, <2>1 DEF Shape, Sits, On
  <2>3. stack[j].wins = {w}
    BY <2>2 DEF Loop
  <2>4. PICK p : p = <<j, w>>
    OBVIOUS
  <2>5. p \in Loops /\ p[1] = j /\ p[2] = w
    BY <2>1, <2>2, <2>4 DEF Loops, LoopsOf
  <2>6. w \in Modals /\ w \in Live
    BY <2>1, <2>3
  <2> QED  BY <1>1, <2>3, <2>5, <2>6 DEF OpenLoops, ModalLoops
<1>3. ASSUME NEW p \in OpenLoops
      PROVE  p[1] \in Dialogs /\ p[1] \in Nat /\ stack[p[1]].wins = {p[2]}
  <2>1. p \in Loops /\ p[2] \in Modals /\ p[2] \in Live
    BY DEF OpenLoops, ModalLoops
  <2>2. p[1] \in DOMAIN stack /\ p[1] \in Nat /\ stack[p[1]] = Loop({p[2]}) /\ stack[p[1]].k = "loop"
    BY <1>0, <2>1, LoopFacts
  <2>3. stack[p[1]].wins = {p[2]}
    BY <2>2 DEF Loop
  <2> QED  BY <2>1, <2>2, <2>3 DEF Dialogs
<1> QED  BY <1>1, <1>2, <1>3

\* In a program whose blocks define and activate windows, with no ON INIT block
\* and NOAUTORELEASE children, the modal windows are the nested message loops:
\* the user reaches the innermost one alone, and each has the next one out for
\* its parent (_ShowWindow, _hmg_OnHideFocusManagement).
THEOREM ModalsNest == DialogProgram => (Spec => []ModalChain)
<1>1. ASSUME IInv, DInv, ~Between
      PROVE  /\ isModal <=> Dialogs # {}
             /\ isModal => visible \cap enabled = {activeModal}
             /\ \A j \in Dialogs : (\A m \in Dialogs : m <= j) => activeModal \in stack[j].wins
             /\ \A j, m \in Dialogs :
                  m < j /\ (\A n \in Dialogs : n <= m \/ j <= n)
                  => \E i \in Slot : form[i].h \in stack[j].wins \cap Modals /\ form[i].parent \in stack[m].wins
  <2>0. Modality /\ Waits /\ Parents /\ stack \in Seq(Frame)
    BY <1>1 DEF DInv, IInv, TypeOK
  <2>1. /\ Leaving = {}
        /\ \A j \in Dialogs : \E p \in OpenLoops : p[1] = j /\ stack[j].wins = {p[2]}
        /\ \A p \in OpenLoops : p[1] \in Dialogs /\ p[1] \in Nat /\ stack[p[1]].wins = {p[2]}
    BY <1>1, DialogLoops
  <2>2. isModal <=> Dialogs # {}
    BY <2>0, <2>1 DEF Modality, Deepest
  <2>3. isModal => visible \cap enabled = {activeModal}
    BY <2>0, <2>1 DEF Modality
  <2>4. ASSUME NEW j \in Dialogs, \A m \in Dialogs : m <= j
        PROVE  activeModal \in stack[j].wins
    <3>1. PICK p \in OpenLoops : p[1] = j /\ stack[j].wins = {p[2]}
      BY <2>1
    <3>2. PICK q : Deepest(OpenLoops, q) /\ q[2] = activeModal
      BY <2>0, <2>2 DEF Modality
    <3>3. q[1] \in Nat /\ p[1] \in Nat /\ q[1] <= p[1] /\ p[1] <= q[1]
      BY <2>1, <2>4, <3>1, <3>2 DEF Deepest
    <3>4. q[1] = p[1]
      BY <3>3
    <3>5. stack[q[1]].wins = {q[2]}
      BY <2>1, <3>2 DEF Deepest
    <3> QED  BY <3>1, <3>2, <3>4, <3>5
  <2>5. ASSUME NEW j \in Dialogs, NEW m \in Dialogs, m < j, \A n \in Dialogs : n <= m \/ j <= n
        PROVE  \E i \in Slot : form[i].h \in stack[j].wins \cap Modals /\ form[i].parent \in stack[m].wins
    <3>1. PICK p \in OpenLoops : p[1] = j /\ stack[j].wins = {p[2]}
      BY <2>1
    <3>2. PICK r \in OpenLoops : r[1] = m /\ stack[m].wins = {r[2]}
      BY <2>1
    <3>3. PICK i \in Slot : form[i].h = p[2] /\ form[i].h # NoWin
      BY <3>1 DEF OpenLoops, Live
    <3>4. p \in ModalLoops /\ p[2] \in Modals /\ r \in ModalLoops
      BY DEF OpenLoops, ModalLoops
    <3>5. r \in Outside(ModalLoops, p)
      BY <2>5, <3>1, <3>2, <3>4 DEF Outside
    <3>6. PICK q : Deepest(Outside(ModalLoops, p), q) /\ q[2] = form[i].parent
      BY <2>0, <3>3, <3>4, <3>5 DEF Parents, Nested
    <3>7. q \in ModalLoops /\ q[1] < p[1] /\ r[1] <= q[1]
      BY <3>5, <3>6 DEF Deepest, Outside
    <3>8. q \in OpenLoops
      <4>1. q \in Loops /\ q[1] \in Nat /\ p \in Loops /\ p[1] \in DOMAIN stack
        BY <2>0, <3>4, <3>7, LoopFacts DEF ModalLoops
      <4>2. PICK n \in Nat : n = Len(stack) /\ DOMAIN stack = 1 .. n
        BY <2>0, LenProperties
      <4>3. q[1] # n
        BY <3>7, <4>1, <4>2
      <4>4. q[2] \in Live
        BY <2>0, <4>1, <4>2, <4>3 DEF Waits
      <4> QED  BY <2>1, <3>7, <4>4 DEF OpenLoops
    <3>9. q[1] = m
      <4>1. q[1] \in Dialogs /\ q[1] \in Nat /\ p[1] \in Nat /\ r[1] \in Nat
        BY <2>1, <3>8
      <4>2. q[1] <= m \/ j <= q[1]
        BY <2>5, <4>1
      <4> QED  BY <3>1, <3>2, <3>7, <4>1, <4>2
    <3>10. stack[q[1]].wins = {q[2]}
      BY <2>1, <3>8
    <3> QED  BY <3>1, <3>3, <3>4, <3>6, <3>9, <3>10
  <2> QED  BY <2>2, <2>3, <2>4, <2>5
<1>2. IInv /\ DInv => ModalChain
  BY <1>1 DEF ModalChain
<1> QED  BY <1>2, Chained, PTL

\* The loop that waits for a window that is gone has the WM_QUIT that ends it
\* (h_events.prg:3652), in the same programs.
THEOREM DialogsReturn == DialogProgram => (Spec => []LoopHasWindow)
<1>1. ASSUME IInv, DInv, OnTop("loop"), Orphan(Len(stack))
      PROVE  quit
  <2>0. stack \in Seq(Frame) /\ stack # <<>> /\ Shape(stack, form) /\ Waits
    BY <1>1 DEF IInv, TypeOK, DInv, OnTop
  <2>1. PICK p \in Loops : p[1] = Len(stack) /\ Top = Loop({p[2]})
    BY <1>1, <2>0, TopLoop DEF OnTop
  <2>2. Top.wins = {p[2]} /\ Top.wins \cap Live = {}
    BY <1>1, <2>1 DEF Loop, Orphan, Top
  <2>3. p[2] \notin Live
    BY <2>2
  <2> QED  BY <2>0, <2>3 DEF Waits
<1>2. IInv /\ DInv => LoopHasWindow
  BY <1>1 DEF LoopHasWindow
<1> QED  BY <1>2, Chained, PTL

\* The window a handler closes keeps its slot in the _HMG_aForm* arrays, whatever
\* its blocks define and activate.
THEOREM SlotsStay == DialogProgram => (Spec => []CloseKeepsSlot)
<1>1. ASSUME IInv, DInv, NEW j \in DOMAIN stack, stack[j].k = "closing"
      PROVE  form[stack[j].i].h \in {stack[j].w, NoWin}
  BY <1>1 DEF DInv, Shape, Sits, On
<1>2. IInv /\ DInv => CloseKeepsSlot
  BY <1>1 DEF CloseKeepsSlot
<1> QED  BY <1>2, Chained, PTL

\* The loop of ACTIVATE WINDOW goes on as long as its window exists.
THEOREM LoopsLast == DialogProgram => (Spec => LoopEndsLast)
<1> SUFFICES ASSUME DialogProgram PROVE Spec => LoopEndsLast
  OBVIOUS
<1> DEFINE Ends == \A n \in DOMAIN stack :
              stack[n].k = "loop" /\ stack[n].wins # {} /\ Len(stack') < n
              => stack[n].wins \cap Live' = {}
<1>1. ASSUME IInv, DInv, [Next]_vars
      PROVE  Ends
  <2>0. stack \in Seq(Frame) /\ Shape(stack, form) /\ stack' \in Seq(Frame) /\ Advances
    BY <1>1, NextDInv DEF IInv, TypeOK, DInv
  <2>1. ASSUME NEW n \in DOMAIN stack, stack[n].k = "loop", Len(stack') < n
        PROVE  stack[n].wins \cap Live' = {}
    <3>1. PICK w \in Windows : stack[n] = Loop({w})
      BY <2>0, <2>1 DEF Shape, Sits, On
    <3>2. stack[n].wins = {w}
      BY <3>1 DEF Loop
    <3>3. PICK p : p = <<n, w>>
      OBVIOUS
    <3>4. p \in Loops /\ p[1] = n /\ p[2] = w
      BY <3>1, <3>3 DEF Loops, LoopsOf
    <3>5. p \notin Loops'
      <4>1. DOMAIN stack' = 1 .. Len(stack') /\ Len(stack') \in Nat
        BY <2>0, LenProperties
      <4>2. n \notin DOMAIN stack'
        BY <2>1, <4>1
      <4> QED  BY <3>3, <4>2 DEF Loops, LoopsOf
    <3>6. w \notin Live'
      BY <2>0, <3>4, <3>5 DEF Advances
    <3> QED  BY <3>2, <3>6
  <2> QED  BY <2>1
<1>2. IInv /\ DInv /\ [Next]_vars => [Ends]_vars
  BY <1>1
<1> HIDE DEF Ends
<1>3. Spec => [][Ends]_vars
  BY <1>2, Chained, PTL DEF Spec
<1> QED  BY <1>3 DEF LoopEndsLast, Ends

-----------------------------------------------------------------------------
(* The stack of dialogs: the loops in order of depth.                      *)

\* A set r of loops, and one further in than all of them.
Deeper(r, p) ==
  /\ IsFiniteSet(r) /\ (\A q \in r : q[1] \in Nat) /\ p[1] \in Nat
  /\ \A q \in r : q[1] < p[1]

LEMMA RankDeeper ==
  ASSUME NEW r, NEW p, Deeper(r, p)
  PROVE  /\ Cardinality(r) \in Nat /\ Cardinality(r \cup {p}) = Cardinality(r) + 1
         /\ p \notin r /\ Rank(r \cup {p}, p) = Cardinality(r) + 1
         /\ \A q \in r : /\ Rank(r \cup {p}, q) = Rank(r, q)
                         /\ Rank(r, q) \in Nat /\ Rank(r, q) <= Cardinality(r)
<1>1. p \notin r
  <2>1. ~(p[1] < p[1])
    BY DEF Deeper
  <2> QED  BY <2>1 DEF Deeper
<1>2. Cardinality(r) \in Nat /\ Cardinality(r \cup {p}) = Cardinality(r) + 1
  BY <1>1, FS_AddElement, FS_CardinalityType DEF Deeper
<1>3. Rank(r \cup {p}, p) = Cardinality(r) + 1
  <2>1. {q \in r \cup {p} : q[1] <= p[1]} = r \cup {p}
    BY DEF Deeper
  <2> QED  BY <1>2, <2>1 DEF Rank
<1>4. ASSUME NEW q \in r
      PROVE  /\ Rank(r \cup {p}, q) = Rank(r, q)
             /\ Rank(r, q) \in Nat /\ Rank(r, q) <= Cardinality(r)
  <2> DEFINE T == {u \in r : u[1] <= q[1]}
  <2>1. {u \in r \cup {p} : u[1] <= q[1]} = T
    <3>1. ~(p[1] <= q[1])
      BY DEF Deeper
    <3> QED  BY <3>1
  <2>2. Rank(r \cup {p}, q) = Cardinality(T) /\ Rank(r, q) = Cardinality(T)
    BY <2>1 DEF Rank
  <2>3. IsFiniteSet(T) /\ Cardinality(T) <= Cardinality(r)
    <3>1. T \in SUBSET r
      OBVIOUS
    <3> HIDE DEF T
    <3> QED  BY <3>1, FS_Subset DEF Deeper
  <2>4. Cardinality(T) \in Nat
    BY <2>3, FS_CardinalityType
  <2> QED  BY <2>2, <2>3, <2>4
<1> QED  BY <1>1, <1>2, <1>3, <1>4

\* The innermost loop is the last one.
LEMMA InOrderDeeper ==
  ASSUME NEW r, NEW p, Deeper(r, p)
  PROVE  /\ InOrder(r \cup {p}) = Append(InOrder(r), p[2])
         /\ \E S : InOrder(r) \in Seq(S) /\ p[2] \in S
         /\ Len(InOrder(r)) = Cardinality(r)
<1> DEFINE u == r \cup {p}
<1>1a. \A q \in r : Rank(u, q) = Rank(r, q) /\ Rank(r, q) \in Nat /\ Rank(r, q) <= Cardinality(r)
  BY RankDeeper, Zenon
<1>0. PICK n \in Nat : n = Cardinality(r) /\ Cardinality(u) = n + 1
  BY RankDeeper
<1> DEFINE e(k) == Element(Ranked(r, k))
           S == {e(k) : k \in 1 .. n} \cup {p[2]}
           s == InOrder(r)
           t == InOrder(u)
<1>1. \A k \in 1 .. n : Ranked(u, k) = Ranked(r, k)
  <2>1. ASSUME NEW k \in 1 .. n
        PROVE  {q \in u : Rank(u, q) = k} = {q \in r : Rank(r, q) = k}
    <3>1. Rank(u, p) # k
      BY <1>0, RankDeeper
    <3>2. \A q \in r : Rank(u, q) = Rank(r, q)
      BY RankDeeper
    <3> QED  BY <3>1, <3>2
  <2> QED  BY <2>1 DEF Ranked
<1>2. Element(Ranked(u, n + 1)) = p[2]
  <2>1. {q \in u : Rank(u, q) = n + 1} = {p}
    <3>1. Rank(u, p) = n + 1
      BY <1>0, RankDeeper
    <3>2. ASSUME NEW q \in r
          PROVE  Rank(u, q) # n + 1
      <4> QED  BY <1>0, <1>1a
    <3> QED  BY <3>1, <3>2
  <2>2. Ranked(u, n + 1) = {p[2]}
    BY <2>1 DEF Ranked
  <2> QED  BY <2>2 DEF Element
<1>3. s = [k \in 1 .. n |-> e(k)]
  BY <1>0 DEF InOrder
<1>4. s \in Seq(S) /\ Len(s) = n /\ \A k \in 1 .. n : s[k] = e(k)
  <2>1. \A k \in 1 .. n : e(k) \in S
    OBVIOUS
  <2> HIDE DEF e, S
  <2> QED  BY <1>3, <2>1
<1>5. t = [k \in 1 .. n + 1 |-> Element(Ranked(u, k))]
  BY <1>0 DEF InOrder
<1>6. \A k \in 1 .. n + 1 : t[k] = IF k = n + 1 THEN p[2] ELSE s[k]
  <2>1. ASSUME NEW k \in 1 .. n + 1
        PROVE  t[k] = IF k = n + 1 THEN p[2] ELSE s[k]
    <3>1. t[k] = Element(Ranked(u, k))
      BY <1>5
    <3>2. CASE k = n + 1
      BY <1>2, <3>1, <3>2
    <3>3. CASE k # n + 1
      <4>1. k \in 1 .. n
        BY <3>3
      <4> QED  BY <1>1, <1>4, <3>1, <3>3, <4>1
    <3> QED  BY <3>2, <3>3
  <2> QED  BY <2>1
<1> DEFINE v == Append(s, p[2])
<1>7. v \in Seq(S) /\ Len(v) = n + 1 /\ \A k \in 1 .. n + 1 : v[k] = IF k = n + 1 THEN p[2] ELSE s[k]
  <2>1. p[2] \in S
    OBVIOUS
  <2> HIDE DEF s, S
  <2> QED  BY <1>4, <2>1, AppendProperties
<1>8. t \in Seq(S) /\ Len(t) = n + 1
  <2>1. ASSUME NEW k \in 1 .. n + 1
        PROVE  t[k] \in S
    <3>1. CASE k = n + 1
      BY <1>6, <3>1
    <3>2. CASE k # n + 1
      <4>1. k \in 1 .. n
        BY <3>2
      <4>2. s[k] = e(k) /\ t[k] = s[k]
        BY <1>4, <1>6, <3>2, <4>1
      <4>3. e(k) \in S
        BY <4>1
      <4> HIDE DEF s, t, S, e
      <4> QED  BY <4>2, <4>3
    <3> QED  BY <3>1, <3>2
  <2> HIDE DEF S
  <2>2. t = [k \in 1 .. n + 1 |-> t[k]]
    BY <1>5
  <2> HIDE DEF t
  <2> QED  BY <2>1, <2>2
<1>9. t = v
  <2> HIDE DEF t, v, s, S
  <2> QED  BY <1>6, <1>7, <1>8, SeqEqual
<1>10. p[2] \in S
  OBVIOUS
<1> QED  BY <1>0, <1>4, <1>9, <1>10

\* Every place in the stack of dialogs is a loop's.
Numbered == \A n \in 1 .. Cardinality(OpenLoops) : \E p \in OpenLoops : Rank(OpenLoops, p) = n

LEMMA OpenFacts ==
  ASSUME stack \in Seq(Frame)
  PROVE  /\ IsFiniteSet(OpenLoops)
         /\ \A p \in OpenLoops : p[1] \in Nat /\ p[2] \in Windows /\ p[2] \in Modals /\ p \in Loops
<1>1. \A p \in OpenLoops : p[1] \in Nat /\ p[2] \in Windows /\ p[2] \in Modals /\ p \in Loops
  BY LoopFacts DEF OpenLoops, ModalLoops
<1>2. PICK n \in Nat : DOMAIN stack = 1 .. n
  BY LenProperties
<1>3. IsFiniteSet((1 .. n) \X Windows)
  <2>1. IsFiniteSet(1 .. n)
    BY FS_Interval
  <2>2. IsFiniteSet(Windows)
    BY FormsAssumption
  <2> DEFINE N == 1 .. n
  <2> HIDE DEF N
  <2> QED  BY <2>1, <2>2, FS_Product DEF N
<1>4. OpenLoops \in SUBSET ((1 .. n) \X Windows)
  BY <1>2 DEF OpenLoops, ModalLoops, Loops, LoopsOf
<1> QED  BY <1>1, <1>3, <1>4, FS_Subset

\* A loop further in than a set of open ones.
LEMMA DeeperOpen ==
  ASSUME stack \in Seq(Frame), NEW r \in SUBSET OpenLoops, NEW p, p[1] \in Nat, \A q \in r : q[1] < p[1]
  PROVE  Deeper(r, p)
<1>1. IsFiniteSet(r) /\ \A q \in r : q[1] \in Nat
  BY OpenFacts, FS_Subset
<1> QED  BY <1>1 DEF Deeper

\* The places, as a loop is added or taken away on the inside.
LEMMA NumberedDeeper ==
  ASSUME NEW r, NEW p, Deeper(r, p)
  PROVE  (\A n \in 1 .. Cardinality(r) : \E q \in r : Rank(r, q) = n)
         <=> (\A n \in 1 .. Cardinality(r \cup {p}) : \E q \in r \cup {p} : Rank(r \cup {p}, q) = n)
<1> DEFINE u == r \cup {p}
<1>1. /\ Cardinality(r) \in Nat /\ Cardinality(u) = Cardinality(r) + 1 /\ Rank(u, p) = Cardinality(r) + 1
      /\ \A q \in r : Rank(u, q) = Rank(r, q)
  BY RankDeeper, Zenon
<1>2. PICK c \in Nat : c = Cardinality(r)
  BY <1>1
<1>3. ASSUME \A n \in 1 .. c : \E q \in r : Rank(r, q) = n, NEW n \in 1 .. c + 1
      PROVE  \E q \in u : Rank(u, q) = n
  <2>1. CASE n = c + 1
    BY <1>1, <1>2, <2>1
  <2>2. CASE n # c + 1
    <3>1. n \in 1 .. c
      BY <1>2, <2>2
    <3>2. PICK q \in r : Rank(r, q) = n
      BY <1>3, <3>1
    <3> QED  BY <1>1, <3>2
  <2> QED  BY <2>1, <2>2
<1>4. ASSUME \A n \in 1 .. c + 1 : \E q \in u : Rank(u, q) = n, NEW n \in 1 .. c
      PROVE  \E q \in r : Rank(r, q) = n
  <2>1. n \in 1 .. c + 1 /\ n # c + 1
    BY <1>2
  <2>2. PICK q \in u : Rank(u, q) = n
    BY <1>4, <2>1
  <2>3. q \in r
    BY <1>1, <1>2, <2>1, <2>2
  <2> QED  BY <1>1, <2>2, <2>3
<1> QED  BY <1>1, <1>2, <1>3, <1>4

-----------------------------------------------------------------------------
(* The abstract state.                                                     *)

AbsOpen   == InOrder(OpenLoops)
AbsShown  == visible \ (Leaving \cup {p[2] : p \in OpenLoops})
AbsUsable == (visible \cap enabled) \ Leaving

\* The windows on the stack of dialogs are those of open loops.
LEMMA OpenHeld ==
  ASSUME stack \in Seq(Frame), Numbered
  PROVE  DialogStack!ToSet(AbsOpen) \subseteq {p[2] : p \in OpenLoops}
<1> DEFINE c == Cardinality(OpenLoops)
<1>1. c \in Nat
  BY OpenFacts, FS_CardinalityType
<1>2. ASSUME NEW n \in 1 .. c
      PROVE  Element(Ranked(OpenLoops, n)) \in {p[2] : p \in OpenLoops}
  <2>1. PICK p \in OpenLoops : Rank(OpenLoops, p) = n
    BY DEF Numbered
  <2>2. p[2] \in Ranked(OpenLoops, n)
    BY <2>1 DEF Ranked
  <2>3. Element(Ranked(OpenLoops, n)) \in Ranked(OpenLoops, n)
    BY <2>2 DEF Element
  <2> QED  BY <2>3 DEF Ranked
<1>3. DOMAIN AbsOpen = 1 .. c /\ \A n \in 1 .. c : AbsOpen[n] = Element(Ranked(OpenLoops, n))
  BY DEF AbsOpen, InOrder
<1> QED  BY <1>2, <1>3 DEF DialogStack!ToSet

\* The stack of dialogs with one more loop, or one less.
LEMMA AbsDeeper ==
  ASSUME NEW r, NEW p, Deeper(r, p)
  PROVE  LET s == InOrder(r \cup {p}) IN
         /\ s = Append(InOrder(r), p[2]) /\ s # <<>>
         /\ DialogStack!Last(s) = p[2] /\ DialogStack!Front(s) = InOrder(r)
<1> DEFINE t == InOrder(r)
           s == InOrder(r \cup {p})
<1>1. s = Append(t, p[2])
  BY InOrderDeeper, Zenon
<1>2. PICK S : t \in Seq(S) /\ p[2] \in S
  BY InOrderDeeper, Zenon
<1> DEFINE w == p[2]
<1> HIDE DEF t, s, w
<1>3. PICK n \in Nat : n = Len(t)
  BY <1>2, LenProperties
<1>4. s \in Seq(S) /\ Len(s) = n + 1 /\ s[n + 1] = w /\ \A j \in 1 .. n : s[j] = t[j]
  BY <1>1, <1>2, <1>3, AppendProperties DEF w
<1>5. s # <<>>
  BY <1>3, <1>4
<1>6. DialogStack!Last(s) = w
  BY <1>4 DEF DialogStack!Last
<1>7. SubSeq(s, 1, n) = t
  <2>1. SubSeq(s, 1, n) \in Seq(S) /\ Len(SubSeq(s, 1, n)) = n /\ \A j \in 1 .. n : SubSeq(s, 1, n)[j] = s[j]
    BY <1>3, <1>4, SubSeqProperties
  <2> DEFINE v == SubSeq(s, 1, n)
  <2> HIDE DEF v
  <2>2. v \in Seq(S) /\ Len(v) = n /\ \A j \in 1 .. n : v[j] = t[j]
    BY <2>1, <1>4 DEF v
  <2>3. v = t
    BY <2>2, <1>2, <1>3, SeqEqual
  <2> QED  BY <2>3 DEF v
<1>8. DialogStack!Front(s) = t
  <2>1. Len(s) - 1 = n
    BY <1>3, <1>4
  <2> QED  BY <2>1, <1>7 DEF DialogStack!Front
<1> QED  BY <1>1, <1>5, <1>6, <1>8 DEF t, s, w

\* The user reaches the innermost dialog, or every window shown.
LEMMA AbsReach ==
  ASSUME IInv, DInv
  PROVE  AbsUsable = DialogStack!Reach(AbsOpen, AbsShown)
<1>0. /\ stack \in Seq(Frame) /\ Modality /\ Seen
      /\ Enabling(Live, enabled, isModal, activeModal)
  BY DEF IInv, TypeOK, DInv
<1>1. ASSUME OpenLoops = {}
      PROVE  AbsOpen = <<>>
  <2>1. Cardinality(OpenLoops) = 0
    BY <1>1, FS_EmptySet
  <2>2. AbsOpen = [n \in 1 .. 0 |-> Element(Ranked(OpenLoops, n))]
    BY <2>1 DEF AbsOpen, InOrder
  <2> QED  BY <2>2
<1>2. CASE ~isModal
  <2>1. OpenLoops = {}
    BY <1>0, <1>2 DEF Modality
  <2>2. visible \subseteq enabled
    BY <1>0, <1>2 DEF Seen, Enabling
  <2>3. AbsUsable = AbsShown
    BY <2>1, <2>2 DEF AbsUsable, AbsShown
  <2> QED  BY <1>1, <2>1, <2>3 DEF DialogStack!Reach
<1>3. CASE isModal
  <2>1. PICK p \in OpenLoops : Deepest(OpenLoops, p) /\ p[2] = activeModal
    BY <1>0, <1>3 DEF Modality
  <2> DEFINE r == OpenLoops \ {p}
  <2>2. Deeper(r, p)
    <3>1. ASSUME NEW q \in r
          PROVE  q[1] < p[1]
      <4>1. q[1] \in Nat /\ p[1] \in Nat /\ q[1] <= p[1] /\ q \in Loops /\ p \in Loops /\ q # p
        BY <1>0, <2>1, OpenFacts DEF Deepest
      <4>2. q[1] # p[1]
        BY <1>0, <4>1, LoopFacts
      <4> QED  BY <4>1, <4>2
    <3>2. p[1] \in Nat
      BY <1>0, OpenFacts
    <3> QED  BY <1>0, <3>1, <3>2, DeeperOpen
  <2>3. OpenLoops = r \cup {p}
    OBVIOUS
  <2>4. AbsOpen # <<>> /\ DialogStack!Last(AbsOpen) = activeModal
    <3> HIDE DEF r
    <3> QED  BY <2>1, <2>2, <2>3, AbsDeeper DEF AbsOpen
  <2>5. AbsUsable = {activeModal}
    BY <1>0, <1>3 DEF Modality, AbsUsable
  <2> QED  BY <2>4, <2>5 DEF DialogStack!Reach
<1> QED  BY <1>2, <1>3

\* No loop is on the stack of dialogs when none is open.
LEMMA AbsNone ==
  ASSUME OpenLoops = {}
  PROVE  AbsOpen = <<>> /\ AbsShown = visible \ Leaving
<1>1. Cardinality(OpenLoops) = 0
  BY FS_EmptySet
<1>2. AbsOpen = [n \in 1 .. 0 |-> Element(Ranked(OpenLoops, n))]
  BY <1>1 DEF AbsOpen, InOrder
<1> QED  BY <1>2 DEF AbsShown

\* A step opens or closes the innermost dialog, or shows or hides a window while
\* there is none, or rests.
StackStep ==
  \/ AbsOpen' = AbsOpen /\ AbsShown' = AbsShown
  \/ \E w \in Modals \cup (Windows \ Modals) :
       DialogStack!Show(w) \/ DialogStack!Hide(w) \/ DialogStack!Open(w)
  \/ DialogStack!Close

LEMMA RestsStep ==
  ASSUME Rests, Numbered
  PROVE  StackStep /\ Numbered'
<1>1. AbsOpen' = AbsOpen /\ AbsShown' = AbsShown
  BY DEF Rests, AbsOpen, AbsShown
<1> QED  BY <1>1 DEF Rests, Numbered, StackStep

LEMMA OpensStep ==
  ASSUME stack \in Seq(Frame), stack' \in Seq(Frame), OpensOne, Numbered
  PROVE  StackStep /\ Numbered'
<1>1. PICK p \in Loops' :
    /\ p[2] \in Modals \ visible /\ OpenLoops' = OpenLoops \cup {p}
    /\ \A q \in OpenLoops : q[1] < p[1] /\ q[2] # p[2]
    /\ visible' = visible \cup {p[2]} /\ Leaving = {} /\ Leaving' = {}
  BY DEF OpensOne
<1> DEFINE r == OpenLoops
           w == p[2]
<1>2. p[1] \in Nat
  <2>1. DOMAIN stack' \subseteq Nat
    BY LenProperties
  <2>2. p \in (DOMAIN stack') \X Windows
    BY DEF Loops, LoopsOf
  <2> QED  BY <2>1, <2>2
<1>3. Deeper(r, p)
  BY <1>1, <1>2, DeeperOpen
<1>4. AbsOpen' = Append(AbsOpen, w)
  <2>1. InOrder(r \cup {p}) = Append(InOrder(r), w)
    BY <1>3, AbsDeeper
  <2> QED  BY <1>1, <2>1 DEF AbsOpen
<1>5. w \in Modals /\ w \notin DialogStack!ToSet(AbsOpen)
  BY <1>1, OpenHeld
<1>6. AbsShown' = AbsShown \ {w}
  BY <1>1 DEF AbsShown
<1>7. DialogStack!Open(w)
  BY <1>4, <1>5, <1>6 DEF DialogStack!Open, AbsOpen, AbsShown
<1>8. Numbered'
  <2>1. \A n \in 1 .. Cardinality(r \cup {p}) : \E q \in r \cup {p} : Rank(r \cup {p}, q) = n
    <3> HIDE DEF r
    <3>1. \A n \in 1 .. Cardinality(r) : \E q \in r : Rank(r, q) = n
      BY DEF Numbered, r
    <3> QED  BY <1>3, <3>1, NumberedDeeper
  <2> QED  BY <1>1, <2>1 DEF Numbered
<1> QED  BY <1>5, <1>7, <1>8 DEF StackStep

LEMMA ClosesStep ==
  ASSUME stack \in Seq(Frame), stack' \in Seq(Frame), ClosesOne, Numbered
  PROVE  StackStep /\ Numbered'
<1>1. PICK p \in OpenLoops :
    /\ OpenLoops' = OpenLoops \ {p}
    /\ \A q \in OpenLoops' : q[1] < p[1]
    /\ visible' = visible /\ Leaving = {} /\ Leaving' = {p[2]}
  BY DEF ClosesOne
<1> DEFINE r == OpenLoops'
<1>2. OpenLoops = r \cup {p} /\ r \in SUBSET OpenLoops
  BY <1>1
<1>3. Deeper(r, p)
  BY <1>1, <1>2, OpenFacts, DeeperOpen
<1>4. AbsOpen # <<>> /\ AbsOpen' = DialogStack!Front(AbsOpen)
  <2>1. LET s == InOrder(r \cup {p}) IN s # <<>> /\ DialogStack!Front(s) = InOrder(r)
    BY <1>3, AbsDeeper
  <2> QED  BY <1>2, <2>1 DEF AbsOpen
<1>5. AbsShown' = AbsShown
  <2>1. {q[2] : q \in OpenLoops} = {p[2]} \cup {q[2] : q \in r}
    BY <1>2
  <2> QED  BY <1>1, <2>1 DEF AbsShown
<1>6. DialogStack!Close
  BY <1>4, <1>5 DEF DialogStack!Close, AbsOpen, AbsShown
<1>7. Numbered'
  BY <1>2, <1>3, NumberedDeeper DEF Numbered
<1> QED  BY <1>6, <1>7 DEF StackStep

LEMMA ShowsStep ==
  ASSUME ShowsOne \/ HidesOne, Numbered
  PROVE  StackStep /\ Numbered'
<1>1. /\ OpenLoops = {} /\ OpenLoops' = {} /\ Leaving = {} /\ Leaving' = {}
      /\ \E w \in Windows : \/ w \notin visible /\ visible' = visible \cup {w}
                            \/ w \in visible \cap enabled /\ visible' = visible \ {w}
  BY DEF ShowsOne, HidesOne
<1>2. AbsOpen = <<>> /\ AbsShown = visible
  BY <1>1, AbsNone
<1>3. AbsOpen' = AbsOpen /\ AbsShown' = visible'
  BY <1>1 DEF AbsOpen, AbsShown
<1>4. AbsUsable = visible \cap enabled
  BY <1>1 DEF AbsUsable
<1>5. ASSUME NEW w \in Windows, w \notin visible, visible' = visible \cup {w}
      PROVE  DialogStack!Show(w)
  BY <1>2, <1>3, <1>5 DEF DialogStack!Show, AbsOpen, AbsShown
<1>6. ASSUME NEW w \in Windows, w \in visible \cap enabled, visible' = visible \ {w}
      PROVE  DialogStack!Hide(w)
  BY <1>2, <1>3, <1>4, <1>6 DEF DialogStack!Hide, AbsOpen, AbsShown, AbsUsable
<1>7. Numbered'
  BY <1>1 DEF Numbered
<1> QED  BY <1>1, <1>5, <1>6, <1>7 DEF StackStep

LEMMA NextStack ==
  ASSUME DialogProgram, IInv /\ DInv /\ Numbered, [Next]_vars
  PROVE  (IInv /\ DInv /\ Numbered)' /\ [DialogStack!Next]_(DialogStack!vars)
<1>1. IInv' /\ DInv' /\ Shows
  BY NextDInv DEF Advances
<1>2. stack \in Seq(Frame) /\ stack' \in Seq(Frame)
  BY <1>1 DEF IInv, TypeOK
<1>3. StackStep /\ Numbered'
  BY <1>1, <1>2, RestsStep, OpensStep, ClosesStep, ShowsStep DEF Shows
<1>4. AbsUsable = DialogStack!Reach(AbsOpen, AbsShown)
  BY AbsReach
<1>5. AbsUsable' = DialogStack!Reach(AbsOpen', AbsShown')
  <2>1. (IInv /\ DInv => AbsUsable = DialogStack!Reach(AbsOpen, AbsShown))'
    BY AbsReach, PTL
  <2> QED  BY <1>1, <2>1 DEF DialogStack!Reach
<1>6. CASE AbsOpen' = AbsOpen /\ AbsShown' = AbsShown
  <2>1. AbsUsable' = AbsUsable
    BY <1>4, <1>5, <1>6
  <2>2. UNCHANGED DialogStack!vars
    BY <1>6, <2>1 DEF DialogStack!vars, AbsOpen, AbsShown, AbsUsable
  <2> QED  BY <1>1, <1>3, <2>2
<1>7. CASE ~(AbsOpen' = AbsOpen /\ AbsShown' = AbsShown)
  <2>1. DialogStack!Next
    BY <1>3, <1>5, <1>7 DEF StackStep, DialogStack!Next, AbsOpen, AbsShown, AbsUsable
  <2> QED  BY <1>1, <1>3, <2>1
<1> QED  BY <1>6, <1>7

LEMMA InitStack == Init => IInv /\ DInv /\ Numbered /\ DialogStack!Init
<1> SUFFICES ASSUME Init PROVE Numbered /\ DialogStack!Init
  BY InitIInv, InitDInv
<1>1. DInv /\ ~isModal /\ visible = {}
  BY InitDInv DEF Init
<1>2. OpenLoops = {}
  BY <1>1 DEF DInv, Modality
<1>3. AbsOpen = <<>> /\ AbsShown = {} /\ AbsUsable = {}
  BY <1>1, <1>2, AbsNone DEF AbsUsable
<1>4. Numbered
  BY <1>2, FS_EmptySet DEF Numbered
<1> QED  BY <1>3, <1>4 DEF DialogStack!Init, AbsOpen, AbsShown, AbsUsable

\* The nested loops of modal windows implement a stack of dialogs: whatever the
\* program opens and the user closes, only the innermost dialog can be reached
\* or closed, and closing it gives back exactly what was reachable before it
\* (_ActivateWindow, _hmg_OnHideFocusManagement, the WM_CLOSE handler).
THEOREM DialogsImplementStack == DialogProgram => (Spec => ImplementsDialogStack)
<1> SUFFICES ASSUME DialogProgram PROVE Spec => ImplementsDialogStack
  OBVIOUS
<1>1. Init => IInv /\ DInv /\ Numbered /\ DialogStack!Init
  BY InitStack
<1>2. (IInv /\ DInv /\ Numbered) /\ [Next]_vars
      => (IInv /\ DInv /\ Numbered)' /\ [DialogStack!Next]_(DialogStack!vars)
  BY NextStack
<1> QED  BY <1>1, <1>2, PTL DEF Spec, ImplementsDialogStack, DialogStack!Spec
=============================================================================
