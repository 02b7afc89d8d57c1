----------------------------- MODULE DialogStack -----------------------------
(***************************************************************************)
(* What the modal windows of a program promise its user: they are a stack. *)
(* While one is open only the innermost can be reached, and only it can be *)
(* closed; closing it gives back exactly what was reachable before it.     *)
(***************************************************************************)
EXTENDS Sequences, SequencesExt

CONSTANTS Dialog,   \* the modal windows
          Other     \* the others

VARIABLES open,     \* the modal windows open, innermost last
          shown,    \* the windows shown and not open as modal ones
          usable    \* the windows the user reaches

vars == <<open, shown, usable>>

Reach(o, s) == IF o = <<>> THEN s ELSE {Last(o)}

Init == open = <<>> /\ shown = {} /\ usable = {}

\* A window is shown: no modal window is open.
Show(w) ==
  /\ open = <<>> /\ w \notin shown
  /\ shown' = shown \cup {w} /\ open' = open

\* A window is closed by its user.
Hide(w) ==
  /\ w \in shown /\ w \in usable
  /\ shown' = shown \ {w} /\ open' = open

\* A modal window is opened, over the one that is open.
Open(w) ==
  /\ w \in Dialog \ ToSet(open)
  /\ open' = Append(open, w) /\ shown' = shown \ {w}

\* The innermost one closes.
Close ==
  /\ open # <<>>
  /\ open' = Front(open) /\ shown' = shown

Next ==
  /\ \/ \E w \in Dialog \cup Other : Show(w) \/ Hide(w) \/ Open(w)
     \/ Close
  /\ usable' = Reach(open', shown')

Spec == Init /\ [][Next]_vars

=============================================================================
