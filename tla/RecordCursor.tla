----------------------------- MODULE RecordCursor -----------------------------
(***************************************************************************)
(* What a BROWSE promises its user: a cursor on a table. Each command says *)
(* where the cursor cur is afterwards; None is no record selected. A list  *)
(* drawn before the table changed (~ fresh) may send the cursor anywhere.  *)
(***************************************************************************)
EXTENDS WorkArea

CONSTANTS PageLength, None

VARIABLES table, cur, fresh

AtMost(n, move(_)) == \E k \in 0..n : cur' = move(k)
Clamp(r, q) == IF q = Eof(table) THEN r ELSE q

First == cur' = Top(table)
Final == cur' = Bottom(table)

Forward  == fresh /\ cur # None => cur' = Clamp(cur, Forth(table, cur))
\* A list may begin with a record that is not to be shown (the program gave it
\* as the value): going back may end on it.
Backward == fresh /\ cur # None /\ cur' \in Shown(table) => cur' = Back(table, cur)

\* A page key moves within a page in its own direction.
PageForward  == fresh /\ cur # None => AtMost(PageLength - 1, LAMBDA k : Skip(table, cur, k))
PageBackward == fresh /\ cur # None /\ cur' \in Shown(table) => AtMost(PageLength - 1, LAMBDA k : Skip(table, cur, -k))

\* Drawing the list again keeps the cursor on its record as long as that
\* record may be shown, whatever happened to the table meanwhile.
Keep == cur \in Shown(table') => cur' = cur

\* After a deletion the cursor is on the record that follows the deleted one
\* (or stays, when deleted records are shown), else on the last one.
Remove ==
  cur \in Shown(table) =>
  \/ cur' = cur
  \/ IF Forth(table', cur) # Eof(table') THEN cur' = Forth(table', cur)
     ELSE cur' = IF Shown(table') = {} THEN None ELSE Bottom(table')
=============================================================================
