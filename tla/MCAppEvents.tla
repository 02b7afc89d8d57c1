----------------------------- MODULE MCAppEvents -----------------------------
(***************************************************************************)
(* AppEvents for TLC: one window, three messages for two slots, so that a  *)
(* holder fills up; the blocks are interchangeable.                        *)
(***************************************************************************)
EXTENDS AppEvents, TLC

\* Every holder as the map it stands for.
AsMap(h) ==
  [m \in Msg |->
     IF \E i \in Slot : h.ev[i].msg = m
     THEN LET e == h.ev[CHOOSE i \in Slot : h.ev[i].msg = m]
          IN [blk |-> e.blk, active |-> e.active]
     ELSE [blk |-> NoBlock, active |-> FALSE]]

EventMap == INSTANCE EventMap WITH
  Capacity <- MaxEvents,
  map <- [w \in Windows |-> [p \in Props |-> AsMap(prop[w][p])]],
  on <- [w \in Windows |-> [p \in Props |-> prop[w][p].active]]

\* The slot arrays with their first-fit scan implement the map of handlers:
\* no call loses, duplicates or resurrects a handler, nor runs another one.
ImplementsEventMap == EventMap!Spec

BlockSymmetry == Permutations(Blocks)

=============================================================================
