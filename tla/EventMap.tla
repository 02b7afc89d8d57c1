------------------------------- MODULE EventMap -------------------------------
(***************************************************************************)
(* What the ON APPEVENT commands promise (doc/commands.txt:74-77), without *)
(* slots, counts or scans: per window and clause a map from messages to    *)
(* handlers that holds at most Capacity of them, a switch set when the map *)
(* gets its first handler, and the nested calls of the handlers.           *)
(***************************************************************************)
EXTENDS Integers, Sequences, FiniteSets

CONSTANTS Windows, Blocks, NoBlock, Msg, Capacity, MaxDepth

VARIABLES live, map, on, calls

vars == <<live, map, on, calls>>

Props     == {"ONCE", "ON"}
NoHandler == [blk |-> NoBlock, active |-> FALSE]
Empty     == [m \in Msg |-> NoHandler]

Known(f) == {m \in Msg : f[m].blk # NoBlock}

Init ==
  /\ live = Windows
  /\ map = [w \in Windows |-> [p \in Props |-> Empty]]
  /\ on = [w \in Windows |-> [p \in Props |-> FALSE]]
  /\ calls = <<>>

\* Gives (w, p) the map f; an emptied map is switched off.
SetMap(w, p, f, switch) ==
  /\ map' = [map EXCEPT ![w][p] = f]
  /\ on' = [on EXCEPT ![w][p] = Known(f) # {} /\ switch]

Register(w, p, m, b, act) ==
  /\ w \in live
  /\ m \in Known(map[w][p]) \/ Cardinality(Known(map[w][p])) < Capacity
  /\ SetMap(w, p, [map[w][p] EXCEPT ![m] = [blk |-> b, active |-> act]],
            IF Known(map[w][p]) = {} THEN act ELSE on[w][p])
  /\ UNCHANGED <<live, calls>>

Forget(w, p, ms) ==
  SetMap(w, p, [m \in Msg |-> IF m \in ms THEN NoHandler ELSE map[w][p][m]], on[w][p])

Unregister(w, p, ms) ==
  /\ w \in live
  /\ Forget(w, p, ms)
  /\ UNCHANGED <<live, calls>>

Update(w, p, m, b, act) ==
  /\ w \in live
  /\ m \in Known(map[w][p])
  /\ SetMap(w, p, [map[w][p] EXCEPT ![m] =
                     [blk |-> IF b = NoBlock THEN @.blk ELSE b, active |-> act]], on[w][p])
  /\ UNCHANGED <<live, calls>>

Switch(w, p, act) ==
  /\ w \in live
  /\ Known(map[w][p]) # {}
  /\ SetMap(w, p, map[w][p], act)
  /\ UNCHANGED <<live, calls>>

Ready(w, p, m) == on[w][p] /\ map[w][p][m].active

Push(below, w, p, m) ==
  calls' = Append(below, [win |-> w, prop |-> p, msg |-> m, blk |-> map[w][p][m].blk])

\* The ONCE handler runs before the ON handler of the same message.
Emit(w, m) ==
  /\ w \in live
  /\ IF Ready(w, "ONCE", m) THEN Push(calls, w, "ONCE", m)
     ELSE Ready(w, "ON", m) /\ Push(calls, w, "ON", m)
  /\ UNCHANGED <<live, map, on>>

\* A ONCE handler is forgotten when it returns; the ON handler is the one that
\* is registered then, not when the message was sent.
Return ==
  /\ calls # <<>>
  /\ LET c == calls[Len(calls)]  below == SubSeq(calls, 1, Len(calls) - 1) IN
     /\ IF c.prop = "ONCE" /\ Ready(c.win, "ON", c.msg)
        THEN Push(below, c.win, "ON", c.msg)
        ELSE calls' = below
     /\ IF c.prop = "ONCE" THEN Forget(c.win, "ONCE", {c.msg}) ELSE UNCHANGED <<map, on>>
  /\ UNCHANGED live

Destroy(w) ==
  /\ w \in live
  /\ live' = live \ {w}
  /\ map' = [map EXCEPT ![w] = [p \in Props |-> Empty]]
  /\ on' = [on EXCEPT ![w] = [p \in Props |-> FALSE]]
  /\ UNCHANGED calls

Next ==
  \/ \E w \in Windows, p \in Props, m \in Msg, b \in Blocks, act \in BOOLEAN :
       Register(w, p, m, b, act)
  \/ \E w \in Windows, p \in Props : Unregister(w, p, Msg)
  \/ \E w \in Windows, p \in Props, m \in Msg : Unregister(w, p, {m})
  \/ \E w \in Windows, p \in Props, m \in Msg, b \in Blocks \cup {NoBlock}, act \in BOOLEAN :
       Update(w, p, m, b, act)
  \/ \E w \in Windows, p \in Props, act \in BOOLEAN : Switch(w, p, act)
  \/ \E w \in Windows, m \in Msg : Emit(w, m)
  \/ Return
  \/ \E w \in Windows : Destroy(w)

Spec == Init /\ [][Next]_vars

=============================================================================
