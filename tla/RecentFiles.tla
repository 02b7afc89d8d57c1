---------------------------- MODULE RecentFiles ----------------------------
(***************************************************************************)
(* What a most-recently-used list promises: the last Capacity different    *)
(* files the user opened, the latest first, kept in Capacity places of a   *)
(* file that outlives the program.  Case of names, menu items, slots and   *)
(* the order in which the places are read are not its business.            *)
(***************************************************************************)
EXTENDS Integers, Sequences, SequencesExt

CONSTANTS File,     \* the files
          None,     \* an empty place
          Capacity  \* how many files are remembered

VARIABLES phase,   \* "down", "starting" or "ready"
          recent,  \* the files remembered, the latest first
          kept     \* the places

vars == <<phase, recent, kept>>

Shorten(s) == SubSeq(s, 1, IF Len(s) < Capacity THEN Len(s) ELSE Capacity)

\* r lists the files of s once each, in the order of their first places.
Lists(r, s) ==
  /\ ToSet(r) = ToSet(s)
  /\ \A i, j \in DOMAIN r : i < j =>
       \E a \in DOMAIN s : s[a] = r[i] /\ \A b \in 1 .. a : s[b] # r[j]

\* r lists the files before the first empty place.
Found(r) ==
  \E n \in 0 .. Capacity :
    /\ \A i \in 1 .. n : kept[i] # None
    /\ n < Capacity => kept[n + 1] = None
    /\ Lists(r, [i \in 1 .. n |-> kept[i]])

Init == phase = "down" /\ recent = <<>> /\ kept \in [1 .. Capacity -> File \cup {None}]

\* A file that is remembered moves to the top, a new one may push one out.
Use(f) ==
  /\ phase = "ready"
  /\ \/ \E d \in DOMAIN recent : recent[d] = f /\ recent' = <<f>> \o RemoveAt(recent, d)
     \/ f \notin ToSet(recent) /\ recent' = Shorten(<<f>> \o recent)
  /\ UNCHANGED <<phase, kept>>

Forget == phase = "ready" /\ recent' = <<>> /\ UNCHANGED <<phase, kept>>

\* A place is brought up to date.
Keep(i) ==
  /\ phase = "ready"
  /\ kept' = [kept EXCEPT ![i] = IF i <= Len(recent) THEN recent[i] ELSE None]
  /\ UNCHANGED <<phase, recent>>

Start == phase = "down" /\ phase' = "starting" /\ UNCHANGED <<recent, kept>>

\* What was kept is what the user finds, at once or after a while.
Ready ==
  /\ phase \in {"down", "starting"} /\ phase' = "ready"
  /\ Found(recent') /\ UNCHANGED kept

Stop == phase # "down" /\ phase' = "down" /\ recent' = <<>> /\ UNCHANGED kept

Next ==
  \/ \E f \in File : Use(f)
  \/ Forget
  \/ \E i \in 1 .. Capacity : Keep(i)
  \/ Start
  \/ Ready
  \/ Stop

Spec == Init /\ [][Next]_vars

=============================================================================
