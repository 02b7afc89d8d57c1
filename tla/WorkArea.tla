------------------------------- MODULE WorkArea -------------------------------
(***************************************************************************)
(* The record pointer of a DBF work area: what GO TOP, GO BOTTOM and SKIP  *)
(* do under a filter, SET DELETED and the direction of the order. GO r     *)
(* goes to any record, visible or not. The database driver is external:    *)
(* this is the part of it that h_browse.prg relies on.                     *)
(*                                                                         *)
(* A table t is a record: last (RecCount()), deleted, hidden (the records  *)
(* the filter rejects), delOn (SET DELETED), order ("natural", "up" and    *)
(* "down": an index that lists the records upwards or downwards).          *)
(***************************************************************************)
EXTENDS Integers

Eof(t) == t.last + 1

Shown(t) == {r \in 1..t.last : r \notin t.hidden /\ ~(t.delOn /\ r \in t.deleted)}

\* r comes before q in the order; the phantom record at EOF comes last.
Precedes(t, r, q) ==
  IF t.order = "down" /\ r < Eof(t) /\ q < Eof(t) THEN q < r ELSE r < q

After(t, r)  == {q \in Shown(t) : Precedes(t, r, q)}
Before(t, r) == {q \in Shown(t) : Precedes(t, q, r)}

FirstOf(t, R) == IF R = {} THEN Eof(t)
                 ELSE CHOOSE r \in R : \A q \in R \ {r} : Precedes(t, r, q)
LastOf(t, R)  == IF R = {} THEN Eof(t)
                 ELSE CHOOSE r \in R : \A q \in R \ {r} : Precedes(t, q, r)

Top(t)    == FirstOf(t, Shown(t))
Bottom(t) == LastOf(t, Shown(t))

\* SKIP past the bottom goes to EOF, SKIP -1 past the top to the top again.
Forth(t, r) == FirstOf(t, After(t, r))
Back(t, r)  == IF Before(t, r) = {} THEN Top(t) ELSE LastOf(t, Before(t, r))

\* SKIP n: SKIP 0 stays where it is, on a hidden record too.
Skip(t, r, n) ==
  LET walk[k \in Nat] == IF k = 0 THEN r
                         ELSE IF n > 0 THEN Forth(t, walk[k - 1]) ELSE Back(t, walk[k - 1])
  IN  walk[IF n > 0 THEN n ELSE -n]
=============================================================================
