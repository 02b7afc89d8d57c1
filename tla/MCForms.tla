------------------------------- MODULE MCForms -------------------------------
(***************************************************************************)
(* Instances of Forms for TLC, and the stack of modal windows it is to     *)
(* implement when the program's blocks only define and activate windows.   *)
(***************************************************************************)
EXTENDS Forms

CONSTANTS c1, c2, m1, m2

\* The loops <<depth, window>> of activations of one window, in a stack s.
LoopsOf(s) == {p \in (DOMAIN s) \X Windows : s[p[1]] = Loop({p[2]})}
\* The windows WM_CLOSE has given the focus back from: gone for the user.
LeavingOf(s) == {w \in Windows : \E j \in DOMAIN s : s[j].k = "closing" /\ s[j].pc = "hidden" /\ s[j].w = w}

Loops      == LoopsOf(stack)
Leaving    == LeavingOf(stack)
ModalLoops == {p \in Loops : p[2] \in Modals}
OpenLoops  == {p \in ModalLoops : p[2] \in Live \ Leaving}

\* The windows of a set r of loops, outermost first.
Element(S)  == CHOOSE w \in S : TRUE
Rank(r, p)  == Cardinality({q \in r : q[1] <= p[1]})
Ranked(r, n) == {p[2] : p \in {q \in r : Rank(r, q) = n}}
InOrder(r)  == [n \in 1 .. Cardinality(r) |-> Element(Ranked(r, n))]

DialogStack == INSTANCE DialogStack WITH
  Dialog <- Modals,
  Other  <- Windows \ Modals,
  open   <- InOrder(OpenLoops),
  shown  <- visible \ (Leaving \cup {p[2] : p \in OpenLoops}),
  usable <- (visible \cap enabled) \ Leaving

\* Modality: the program's modal windows are a stack of dialogs.
ImplementsDialogStack == DialogStack!Spec
==============================================================================
