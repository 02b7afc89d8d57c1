------------------------------- MODULE MCMru -------------------------------
(***************************************************************************)
(* Mru for TLC: "a" is the lower-case writing of "A"; the other names have *)
(* one case each, and nothing tells them apart.                            *)
(***************************************************************************)
EXTENDS Mru, TLC

CONSTANTS b, c, d

Upper == [n \in Text |-> IF n = "a" THEN "A" ELSE n]

Others == Permutations({b, c, d})

=============================================================================
