----------------------------- MODULE Browse_proofs -----------------------------
(***************************************************************************)
(* Records and pages of a BROWSE, for any table, page length, filters and  *)
(* blocks within blocks. The strengthening of the invariants about records *)
(* is about the blocks in progress: only the outermost one goes back to a  *)
(* record, so that this is the record the program left (Pointer); the      *)
(* record of an edit stays current while no block moves the pointer        *)
(* (Writing) and locked (Locked).                                          *)
(* What a page lists follows from SKIP alone, which is recursive: that it  *)
(* takes one step after the other is proved by induction on sets of        *)
(* numbers, and a page is then a run of the order. The last page of an     *)
(* Alt+A needs more: SKIP -1 is undone by SKIP 1, so the end of the table  *)
(* is less than a page away. That a deletion always draws the list again   *)
(* needs Within and Setting.                                               *)
(***************************************************************************)
EXTENDS Browse, SequenceTheorems, WellFoundedInduction, TLAPS

Table == [last : 1..MaxRecords, hidden : SUBSET (1..MaxRecords), deleted : SUBSET (1..MaxRecords),
          delOn : BOOLEAN, order : {"natural", "up", "down"}]
Kinds == {"change", "set", "when", "edit", "valid"}
Frame == [kind : Kinds, back : Nat, nrec : Nat, moved : BOOLEAN]
Edits == {"when", "edit"}

Typed ==
  /\ table \in Table /\ frames \in Seq(Frame)
  /\ sync \in BOOLEAN /\ changes \in Nat
  /\ home \in 1..Eof(table)

Nested ==
  \A k \in DOMAIN frames :
    /\ frames[k].back <= Eof(table) /\ frames[k].nrec <= Eof(table)
    /\ k > 1 => frames[k].back = 0 /\ frames[k].kind \notin Edits
    /\ frames[k].kind = "valid" => k = 2 /\ frames[1].kind = "edit"
    /\ frames[k].kind \in Edits => frames[k].back # 0 /\ frames[k].nrec # 0

GoesBack == frames # <<>> /\ frames[1].back # 0

Pointer ==
  /\ GoesBack /\ ~sync => home = frames[1].back
  /\ ~GoesBack => rec \in 1..Eof(table) /\ (~sync => rec = home)

Writing ==
  /\ frames # <<>> /\ frames[1].kind = "edit" /\ ~frames[1].moved => rec = frames[1].nrec
  /\ ~strayed

Locked == Shared => \A k \in DOMAIN frames : frames[k].kind \in Edits => frames[k].nrec \in locks

Blocks == Typed /\ Nested /\ Pointer /\ Writing /\ Locked
BrowseInv == Blocks /\ RowsMapped

-------------------------------------------------------------------------------
(* Sequences and the table.                                                *)

LEMMA FrontShape ==
  ASSUME NEW S, NEW s \in Seq(S), s # <<>>
  PROVE  /\ Front(s) \in Seq(S) /\ Len(Front(s)) = Len(s) - 1
         /\ \A k \in 1..(Len(s) - 1) : Front(s)[k] = s[k]
<1> DEFINE n == Len(s) - 1
<1>1. n \in Nat /\ \A k \in 1..n : s[k] \in S
  OBVIOUS
<1> HIDE DEF n
<1>2. /\ SubSeq(s, 1, n) \in Seq(S)
      /\ Len(SubSeq(s, 1, n)) = IF 1 <= n THEN n - 1 + 1 ELSE 0
      /\ \A k \in 1..(n - 1 + 1) : SubSeq(s, 1, n)[k] = s[1 + k - 1]
  BY <1>1, SubSeqProperties
<1>3. /\ SubSeq(s, 1, n) \in Seq(S) /\ Len(SubSeq(s, 1, n)) = n
      /\ \A k \in 1..n : SubSeq(s, 1, n)[k] = s[k]
  BY <1>1, <1>2
<1> QED  BY <1>3 DEF Front, n

LEMMA FrameShape ==
  ASSUME frames \in Seq(Frame), NEW k \in DOMAIN frames
  PROVE  /\ frames[k].back \in Nat /\ frames[k].nrec \in Nat
         /\ frames[k].kind \in Kinds /\ frames[k].moved \in BOOLEAN
<1>1. frames[k] \in Frame
  OBVIOUS
<1> QED  BY <1>1 DEF Frame

LEMMA GoToShape ==
  ASSUME NEW t, t.last \in Nat, NEW r
  PROVE  /\ GoTo(t, r) \in 1..Eof(t)
         /\ r \in 1..Eof(t) => GoTo(t, r) = r
BY DEF GoTo, Eof

\* A block pushed: those below are marked as moved under BROWSESYNC.
LEMMA OnChangeShape ==
  ASSUME frames \in Seq(Frame), sync \in BOOLEAN, NEW kind \in {"change", "set"},
         NEW r, NEW back \in Nat, OnChange(kind, r, back)
  PROVE  /\ frames' \in Seq(Frame)
         /\ DOMAIN frames' = 1..(Len(frames) + 1)
         /\ frames'[Len(frames) + 1].kind = kind
         /\ frames'[Len(frames) + 1].back = back /\ frames'[Len(frames) + 1].nrec = 0
         /\ \A k \in DOMAIN frames : /\ frames'[k].kind = frames[k].kind
                                     /\ frames'[k].back = frames[k].back
                                     /\ frames'[k].nrec = frames[k].nrec
                                     /\ ~sync => frames'[k].moved = frames[k].moved
                                     /\ sync => frames'[k].moved
         /\ rec' = IF sync THEN GoTo(table', Value') ELSE r
<1> DEFINE f(k) == [frames[k] EXCEPT !.moved = @ \/ sync]
           s == [k \in DOMAIN frames |-> f(k)]
           new == [kind |-> kind, back |-> back, nrec |-> 0, moved |-> FALSE]
<1>1. \A k \in DOMAIN frames : f(k) \in Frame
  <2> SUFFICES ASSUME NEW k \in DOMAIN frames  PROVE f(k) \in Frame
    OBVIOUS
  <2>1. frames[k] \in Frame
    OBVIOUS
  <2>2. (frames[k].moved \/ sync) \in BOOLEAN
    OBVIOUS
  <2> HIDE <2>2
  <2> QED  BY <2>1, <2>2 DEF Frame
<1>2. \A k \in DOMAIN frames : /\ f(k).kind = frames[k].kind /\ f(k).back = frames[k].back
                               /\ f(k).nrec = frames[k].nrec
                               /\ ~sync => f(k).moved = frames[k].moved
                               /\ sync => f(k).moved
  <2> SUFFICES ASSUME NEW k \in DOMAIN frames
               PROVE  /\ f(k).kind = frames[k].kind /\ f(k).back = frames[k].back
                      /\ f(k).nrec = frames[k].nrec
                      /\ ~sync => f(k).moved = frames[k].moved
                      /\ sync => f(k).moved
    OBVIOUS
  <2>1. frames[k] \in Frame
    OBVIOUS
  <2>2. f(k).moved = (frames[k].moved \/ sync)
    BY <2>1 DEF Frame
  <2>3. frames[k].moved \in BOOLEAN
    BY <2>1 DEF Frame
  <2>4. f(k).kind = frames[k].kind /\ f(k).back = frames[k].back /\ f(k).nrec = frames[k].nrec
    BY <2>1 DEF Frame
  <2> HIDE DEF f
  <2>5. ~sync => f(k).moved = frames[k].moved
    BY <2>2, <2>3
  <2>6. sync => f(k).moved
    BY <2>2
  <2> QED  BY <2>4, <2>5, <2>6
<1>3. new \in Frame
  BY DEF Frame, Kinds
<1> HIDE DEF f
<1>4. s \in Seq(Frame) /\ Len(s) = Len(frames)
  BY <1>1
<1>5. frames' = Append(s, new) /\ rec' = IF sync THEN GoTo(table', Value') ELSE r
  BY DEF OnChange, s, f, new
<1>6. /\ Append(s, new) \in Seq(Frame) /\ DOMAIN Append(s, new) = 1..(Len(frames) + 1)
      /\ Append(s, new)[Len(frames) + 1] = new
      /\ \A k \in 1..Len(frames) : Append(s, new)[k] = s[k]
  <2> HIDE DEF s, new
  <2> QED  BY <1>3, <1>4, AppendProperties
<1>7. /\ new.kind = kind /\ new.back = back /\ new.nrec = 0
      /\ \A k \in DOMAIN frames : k \in 1..Len(frames) /\ s[k] = f(k)
  OBVIOUS
<1> HIDE DEF s, new
<1>8. /\ frames' \in Seq(Frame) /\ DOMAIN frames' = 1..(Len(frames) + 1)
      /\ frames'[Len(frames) + 1] = new /\ \A k \in DOMAIN frames : frames'[k] = f(k)
  BY <1>5, <1>6, <1>7
<1>9. \A k \in DOMAIN frames : /\ frames'[k].kind = frames[k].kind
                               /\ frames'[k].back = frames[k].back
                               /\ frames'[k].nrec = frames[k].nrec
                               /\ ~sync => frames'[k].moved = frames[k].moved
                               /\ sync => frames'[k].moved
  <2> SUFFICES ASSUME NEW k \in DOMAIN frames
               PROVE  /\ frames'[k].kind = frames[k].kind
                      /\ frames'[k].back = frames[k].back
                      /\ frames'[k].nrec = frames[k].nrec
                      /\ ~sync => frames'[k].moved = frames[k].moved
                      /\ sync => frames'[k].moved
    OBVIOUS
  <2>1. frames'[k] = f(k)
    BY <1>8
  <2> QED  BY <1>2, <2>1
<1> QED  BY <1>5, <1>7, <1>8, <1>9

-------------------------------------------------------------------------------
(* Recursion over the numbers. The library's theorems on it take operators; *)
(* these two are about sets and functions.                                  *)

LEMMA Induction ==
  ASSUME NEW S, 0 \in S, \A k \in Nat : k \in S => k + 1 \in S
  PROVE  Nat \subseteq S
<1> DEFINE T == Nat \ S
           R == {p \in Nat \X Nat : p[1] < p[2]}
<1> SUFFICES ASSUME T # {}  PROVE FALSE
  OBVIOUS
<1>1. IsWellFoundedOn(R, Nat)
  BY NatLessThanWellFounded DEF OpToRel
<1> HIDE DEF R
<1>2. PICK x \in T : \A y \in T : ~(<<y, x>> \in R)
  BY <1>1, WFMin
<1>3. x \in Nat /\ x \notin S /\ x # 0
  OBVIOUS
<1>4. x - 1 \in Nat /\ x = (x - 1) + 1 /\ <<x - 1, x>> \in R
  BY <1>3 DEF R
<1> QED  BY <1>2, <1>3, <1>4

\* f iterates g from a.
Iterates(f, a, g) == f[0] = a /\ \A k \in Nat : f[k + 1] = g[f[k]]

LEMMA IterationExists ==
  ASSUME NEW S, NEW a \in S, NEW g \in [S -> S]
  PROVE  \E f \in [Nat -> S] : Iterates(f, a, g)
<1> DEFINE Upto(n, h) == h \in [0..n -> S] /\ h[0] = a /\ \A k \in 0..(n - 1) : h[k + 1] = g[h[k]]
           Q == {n \in Nat : \E h \in [0..n -> S] : Upto(n, h)}
<1>1. 0 \in Q
  <2> DEFINE h == [k \in 0..0 |-> a]
  <2>1. h \in [0..0 -> S] /\ Upto(0, h)
    OBVIOUS
  <2> QED  BY <2>1
<1>2. ASSUME NEW n \in Nat, n \in Q
      PROVE  n + 1 \in Q
  <2>1. PICK h \in [0..n -> S] : Upto(n, h)
    BY <1>2
  <2> DEFINE e == [k \in 0..(n + 1) |-> IF k = n + 1 THEN g[h[n]] ELSE h[k]]
  <2>2. e \in [0..(n + 1) -> S]
    OBVIOUS
  <2>3. e[0] = a
    BY <2>1
  <2>4. ASSUME NEW k \in 0..(n + 1 - 1)
        PROVE  e[k + 1] = g[e[k]]
    <3>1. CASE k = n
      BY <3>1
    <3>2. CASE k # n
      <4>1. k \in 0..(n - 1) /\ k + 1 \in 0..n /\ k + 1 # n + 1 /\ k # n + 1
        BY <3>2
      <4>2. h[k + 1] = g[h[k]]
        BY <2>1, <4>1
      <4> QED  BY <4>1, <4>2
    <3> QED  BY <3>1, <3>2
  <2>5. Upto(n + 1, e)
    <3> HIDE DEF e
    <3> QED  BY <2>2, <2>3, <2>4
  <2> HIDE DEF e, Upto
  <2> QED  BY <2>2, <2>5
<1>3. Nat \subseteq Q
  <2> HIDE DEF Q
  <2> QED  BY <1>1, <1>2, Induction
<1> DEFINE H(n) == CHOOSE h \in [0..n -> S] : Upto(n, h)
<1>4. ASSUME NEW n \in Nat
      PROVE  H(n) \in [0..n -> S] /\ Upto(n, H(n))
  <2>1. \E h \in [0..n -> S] : Upto(n, h)
    BY <1>3
  <2> HIDE DEF Upto
  <2> QED  BY <2>1
<1>5. ASSUME NEW m \in Nat, NEW n \in Nat, m <= n
      PROVE  \A k \in 0..m : H(n)[k] = H(m)[k]
  <2> DEFINE W == {k \in Nat : k <= m => H(n)[k] = H(m)[k]}
  <2>1. 0 \in W
    BY <1>4
  <2>2. ASSUME NEW k \in Nat, k \in W
        PROVE  k + 1 \in W
    <3>1. CASE k + 1 <= m
      <4>1. k \in 0..(n - 1) /\ k \in 0..(m - 1) /\ k <= m
        BY <1>5, <3>1
      <4>2. H(n)[k + 1] = g[H(n)[k]] /\ H(m)[k + 1] = g[H(m)[k]]
        BY <1>4, <4>1
      <4>3. H(n)[k] = H(m)[k]
        BY <2>2, <4>1
      <4> HIDE DEF H
      <4> QED  BY <4>2, <4>3
    <3>2. CASE ~(k + 1 <= m)
      BY <3>2
    <3> QED  BY <3>1, <3>2
  <2>3. Nat \subseteq W
    <3> HIDE DEF W
    <3> QED  BY <2>1, <2>2, Induction
  <2>4. \A k \in 0..m : k \in W
    <3> HIDE DEF W
    <3> QED  BY <2>3
  <2> HIDE DEF H
  <2> QED  BY <2>4
<1> DEFINE f == [n \in Nat |-> H(n)[n]]
<1>6. f \in [Nat -> S]
  <2>1. \A n \in Nat : H(n)[n] \in S
    BY <1>4
  <2> HIDE DEF H
  <2> QED  BY <2>1
<1>7. f[0] = a
  BY <1>4
<1>8. ASSUME NEW k \in Nat
      PROVE  f[k + 1] = g[f[k]]
  <2>1. H(k + 1)[k + 1] = g[H(k + 1)[k]]
    <3>1. k + 1 \in Nat /\ k \in 0..(k + 1 - 1)
      OBVIOUS
    <3>2. Upto(k + 1, H(k + 1))
      BY <1>4, <3>1
    <3> HIDE DEF H
    <3> QED  BY <3>1, <3>2
  <2>2. H(k + 1)[k] = H(k)[k]
    <3>1. k + 1 \in Nat /\ k <= k + 1 /\ k \in 0..k
      OBVIOUS
    <3> QED  BY <1>5, <3>1
  <2> HIDE DEF H
  <2> QED  BY <2>1, <2>2
<1> HIDE DEF f
<1> QED  BY <1>6, <1>7, <1>8 DEF Iterates

-------------------------------------------------------------------------------
(* The order of a table, and SKIP in it.                                    *)

LEMMA Least ==
  ASSUME NEW R, R \subseteq Nat, R # {}
  PROVE  \E x \in R : \A y \in R : x <= y
<1> DEFINE L == {p \in Nat \X Nat : p[1] < p[2]}
<1>1. IsWellFoundedOn(L, Nat)
  BY NatLessThanWellFounded DEF OpToRel
<1> HIDE DEF L
<1>2. PICK x \in R : \A y \in R : ~(<<y, x>> \in L)
  BY <1>1, WFMin
<1>3. \A y \in R : x <= y
  <2> SUFFICES ASSUME NEW y \in R  PROVE x <= y
    OBVIOUS
  <2>1. <<y, x>> \in L <=> y < x
    BY DEF L
  <2> QED  BY <1>2, <2>1
<1> QED  BY <1>3

LEMMA Greatest ==
  ASSUME NEW R, NEW n \in Nat, R \subseteq 1..n, R # {}
  PROVE  \E x \in R : \A y \in R : y <= x
<1> DEFINE B == {b \in Nat : \A y \in R : y <= b}
<1>1. n \in B
  OBVIOUS
<1>2. PICK b \in B : \A y \in B : b <= y
  <2> HIDE DEF B
  <2>1. B \subseteq Nat
    BY DEF B
  <2> QED  BY <1>1, <2>1, Least
<1>3. b \in R
  <2> SUFFICES ASSUME b \notin R  PROVE FALSE
    OBVIOUS
  <2>1. \A y \in R : y \in Nat /\ 1 <= y /\ y <= b /\ y # b
    OBVIOUS
  <2>2. b - 1 \in Nat /\ \A y \in R : y <= b - 1
    <3>1. b \in Nat
      OBVIOUS
    <3>2. PICK y \in R : TRUE
      OBVIOUS
    <3>3. b >= 1
      BY <2>1, <3>1, <3>2
    <3> HIDE DEF B
    <3> QED  BY <2>1, <3>1, <3>3
  <2>3. b - 1 \in B
    BY <2>2
  <2> QED  BY <1>2, <2>3
<1> QED  BY <1>3

\* FirstOf and LastOf are the two ends of a set of records.
LEMMA Ends ==
  ASSUME NEW t, t.last \in Nat, NEW R, R \subseteq 1..t.last, R # {}
  PROVE  /\ FirstOf(t, R) \in R /\ \A q \in R \ {FirstOf(t, R)} : Precedes(t, FirstOf(t, R), q)
         /\ LastOf(t, R) \in R /\ \A q \in R \ {LastOf(t, R)} : Precedes(t, q, LastOf(t, R))
<1>1. PICK a \in R : \A y \in R : a <= y
  <2>1. R \subseteq Nat
    OBVIOUS
  <2> QED  BY <2>1, Least
<1>2. PICK b \in R : \A y \in R : y <= b
  BY Greatest
<1>3. /\ \A q \in R \ {a} : a < q
      /\ \A q \in R \ {b} : q < b
      /\ \A q \in R : q < Eof(t)
  BY <1>1, <1>2 DEF Eof
<1>4. /\ \E r \in R : \A q \in R \ {r} : Precedes(t, r, q)
      /\ \E r \in R : \A q \in R \ {r} : Precedes(t, q, r)
  <2>1. CASE t.order = "down"
    BY <1>3, <2>1 DEF Precedes
  <2>2. CASE t.order # "down"
    BY <1>3, <2>2 DEF Precedes
  <2> QED  BY <2>1, <2>2
<1> QED  BY <1>4 DEF FirstOf, LastOf

LEMMA ForthShape ==
  ASSUME NEW t, t.last \in Nat, NEW r
  PROVE  /\ Forth(t, r) \in Shown(t) \cup {Eof(t)}
         /\ Forth(t, r) # Eof(t) => Precedes(t, r, Forth(t, r))
         /\ \A q \in After(t, r) : q # Forth(t, r) => Precedes(t, Forth(t, r), q)
         /\ Forth(t, r) = Eof(t) <=> After(t, r) = {}
         /\ Forth(t, r) \in 1..Eof(t)
<1>1. After(t, r) \subseteq Shown(t) /\ Shown(t) \subseteq 1..t.last
  BY DEF After, Shown
<1>2. CASE After(t, r) = {}
  BY <1>2 DEF Forth, FirstOf, Eof
<1>3. CASE After(t, r) # {}
  <2>1. /\ Forth(t, r) \in After(t, r)
        /\ \A q \in After(t, r) \ {Forth(t, r)} : Precedes(t, Forth(t, r), q)
    BY <1>1, <1>3, Ends DEF Forth
  <2>2. Forth(t, r) \in Shown(t) /\ Precedes(t, r, Forth(t, r))
    BY <2>1 DEF After
  <2>3. Forth(t, r) \in 1..t.last /\ Forth(t, r) # Eof(t) /\ Forth(t, r) \in 1..Eof(t)
    BY <1>1, <2>2 DEF Eof
  <2> QED  BY <1>3, <2>1, <2>2, <2>3
<1> QED  BY <1>2, <1>3

LEMMA BackShape ==
  ASSUME NEW t, t.last \in Nat, NEW r
  PROVE  /\ Back(t, r) \in Shown(t) \cup {Eof(t)} /\ Back(t, r) \in 1..Eof(t)
         /\ Shown(t) # {} => Back(t, r) \in Shown(t)
         /\ Before(t, r) # {} => /\ Back(t, r) \in Before(t, r)
                                 /\ \A q \in Before(t, r) \ {Back(t, r)} : Precedes(t, q, Back(t, r))
<1>1. Before(t, r) \subseteq Shown(t) /\ Shown(t) \subseteq 1..t.last /\ 1..t.last \subseteq 1..Eof(t)
  BY DEF Before, Shown, Eof
<1>2. CASE Before(t, r) # {}
  <2>1. /\ Back(t, r) \in Before(t, r)
        /\ \A q \in Before(t, r) \ {Back(t, r)} : Precedes(t, q, Back(t, r))
    BY <1>1, <1>2, Ends DEF Back
  <2> QED  BY <1>1, <2>1
<1>3. CASE Before(t, r) = {}
  <2>1. Back(t, r) = Top(t)
    BY <1>3 DEF Back
  <2>2. CASE Shown(t) = {}
    BY <1>3, <2>1, <2>2 DEF Top, FirstOf, Eof
  <2>3. CASE Shown(t) # {}
    <3>1. Top(t) \in Shown(t)
      BY <1>1, <2>3, Ends DEF Top
    <3> QED  BY <1>1, <1>3, <2>1, <3>1
  <2> QED  BY <2>2, <2>3
<1> QED  BY <1>2, <1>3

\* A function that takes the steps of SKIP n one by one says where it gets.
StepOf(t, n, r) == IF n > 0 THEN Forth(t, r) ELSE Back(t, r)

LEMMA SkipIs ==
  ASSUME NEW t, NEW r, NEW n \in Int, NEW S, NEW f \in [Nat -> S],
         f[0] = r, \A k \in Nat : f[k + 1] = StepOf(t, n, f[k])
  PROVE  Skip(t, r, n) = f[IF n > 0 THEN n ELSE -n]
<1> DEFINE Solves(w) == w = [k \in Nat |-> IF k = 0 THEN r
                               ELSE IF n > 0 THEN Forth(t, w[k - 1]) ELSE Back(t, w[k - 1])]
           walk == CHOOSE w : Solves(w)
           T == {k \in Nat : walk[k] = f[k]}
<1>1. Skip(t, r, n) = walk[IF n > 0 THEN n ELSE -n]
  BY DEF Skip
<1>2. Solves(f)
  <2> DEFINE e == [k \in Nat |-> IF k = 0 THEN r
                     ELSE IF n > 0 THEN Forth(t, f[k - 1]) ELSE Back(t, f[k - 1])]
  <2>1. ASSUME NEW k \in Nat  PROVE f[k] = e[k]
    <3>1. CASE k = 0
      BY <3>1
    <3>2. CASE k # 0
      <4>1. k - 1 \in Nat /\ (k - 1) + 1 = k
        BY <3>2
      <4>2. f[k] = StepOf(t, n, f[k - 1])
        BY <4>1
      <4> QED  BY <3>2, <4>2 DEF StepOf
    <3> QED  BY <3>1, <3>2
  <2>2. e = [k \in Nat |-> e[k]] /\ f = [k \in Nat |-> f[k]]
    OBVIOUS
  <2>3. e = f
    <3> HIDE DEF e
    <3> QED  BY <2>1, <2>2
  <2> QED  BY <2>3
<1>3. Solves(walk)
  <2> HIDE DEF Solves
  <2> QED  BY <1>2
<1> HIDE DEF walk
<1>4. \A k \in Nat : walk[k] = IF k = 0 THEN r
                       ELSE IF n > 0 THEN Forth(t, walk[k - 1]) ELSE Back(t, walk[k - 1])
  BY <1>3
<1>5. 0 \in T
  BY <1>4
<1>6. ASSUME NEW k \in Nat, k \in T
      PROVE  k + 1 \in T
  <2>1. k + 1 \in Nat /\ k + 1 # 0 /\ (k + 1) - 1 = k
    OBVIOUS
  <2>2. walk[k + 1] = StepOf(t, n, walk[k])
    BY <1>4, <2>1 DEF StepOf
  <2>3. f[k + 1] = StepOf(t, n, f[k]) /\ walk[k] = f[k]
    BY <1>6
  <2> QED  BY <2>1, <2>2, <2>3
<1>7. Nat \subseteq T
  <2> HIDE DEF T
  <2> QED  BY <1>5, <1>6, Induction
<1>8. (IF n > 0 THEN n ELSE -n) \in Nat
  OBVIOUS
<1> QED  BY <1>1, <1>7, <1>8

\* SKIP n is n times SKIP 1, or -n times SKIP -1.
LEMMA SkipWalks ==
  ASSUME NEW t, t.last \in Nat, NEW r
  PROVE  /\ Skip(t, r, 0) = r
         /\ \A k \in Nat : Skip(t, r, k + 1) = Forth(t, Skip(t, r, k))
         /\ \A k \in Nat : Skip(t, r, -(k + 1)) = Back(t, Skip(t, r, -k))
<1> DEFINE S == {r} \cup 1..Eof(t)
           fg == [x \in S |-> Forth(t, x)]
           bg == [x \in S |-> Back(t, x)]
<1>1. r \in S /\ fg \in [S -> S] /\ bg \in [S -> S]
  BY ForthShape, BackShape
<1>2. PICK f \in [Nat -> S] : Iterates(f, r, fg)
  <2> HIDE DEF S, fg
  <2> QED  BY <1>1, IterationExists
<1>3. PICK b \in [Nat -> S] : Iterates(b, r, bg)
  <2> HIDE DEF S, bg
  <2> QED  BY <1>1, IterationExists
<1>4. f[0] = r /\ \A k \in Nat : f[k + 1] = Forth(t, f[k])
  BY <1>2 DEF Iterates
<1>5. b[0] = r /\ \A k \in Nat : b[k + 1] = Back(t, b[k])
  BY <1>3 DEF Iterates
<1> HIDE DEF S, fg, bg
<1>6. ASSUME NEW n \in Nat, n # 0
      PROVE  Skip(t, r, n) = f[n]
  <2>1. n > 0 /\ n \in Int
    BY <1>6
  <2>2. \A k \in Nat : f[k + 1] = StepOf(t, n, f[k])
    BY <1>4, <2>1 DEF StepOf
  <2>3. Skip(t, r, n) = f[IF n > 0 THEN n ELSE -n]
    <3>1. f[0] = r
      BY <1>4
    <3> QED  BY ONLY f \in [Nat -> S], <3>1, <2>1, <2>2, SkipIs
  <2> QED  BY <2>1, <2>3
<1>7. ASSUME NEW n \in Nat
      PROVE  Skip(t, r, -n) = b[n]
  <2>1. ~(-n > 0) /\ -n \in Int /\ -(-n) = n
    OBVIOUS
  <2>2. \A k \in Nat : b[k + 1] = StepOf(t, -n, b[k])
    BY <1>5, <2>1 DEF StepOf
  <2>3. \A i \in Int : i = -n => Skip(t, r, i) = b[IF i > 0 THEN i ELSE -i]
    <3> SUFFICES ASSUME NEW i \in Int, i = -n
                 PROVE  Skip(t, r, i) = b[IF i > 0 THEN i ELSE -i]
      OBVIOUS
    <3>1. \A k \in Nat : b[k + 1] = StepOf(t, i, b[k])
      BY <2>2
    <3>2. b \in [Nat -> S] /\ b[0] = r
      BY <1>5
    <3>3. i \in Int
      OBVIOUS
    <3> QED  BY ONLY <3>1, <3>2, <3>3, SkipIs
  <2> QED  BY <2>1, <2>3
<1>8. Skip(t, r, 0) = r
  <2>1. Skip(t, r, -0) = b[0]
    BY <1>7
  <2> QED  BY <1>5, <2>1
<1>9. ASSUME NEW k \in Nat
      PROVE  Skip(t, r, k + 1) = Forth(t, Skip(t, r, k))
  <2>1. Skip(t, r, k + 1) = f[k + 1]
    BY <1>6
  <2>2. Skip(t, r, k) = f[k]
    BY <1>4, <1>6, <1>8
  <2> QED  BY <1>4, <2>1, <2>2
<1>10. ASSUME NEW k \in Nat
       PROVE  Skip(t, r, -(k + 1)) = Back(t, Skip(t, r, -k))
  <2>1. Skip(t, r, -(k + 1)) = b[k + 1]
    BY <1>7
  <2>2. Skip(t, r, -k) = b[k]
    BY <1>7
  <2> QED  BY <1>5, <2>1, <2>2
<1> QED  BY <1>8, <1>9, <1>10

\* A page is a run of the order: it stops when it is full or at the end.
IsPage(t, r, p, n) ==
  /\ p \in Seq({r} \cup 1..Eof(t)) /\ Len(p) = n /\ p[1] = r
  /\ \A k \in 1..n : p[k] = Skip(t, r, k - 1)
  /\ \A k \in 2..n : p[k] = Forth(t, p[k - 1]) /\ p[k] # Eof(t)
  /\ n = PageLength \/ Skip(t, r, n) = Eof(t)
  /\ Skip(t, r, n) = Forth(t, p[n])

LEMMA PageShape ==
  ASSUME NEW t, t.last \in Nat, NEW r
  PROVE  \E n \in 1..PageLength : IsPage(t, r, Page(t, r), n)
<1> DEFINE full(n) == \A k \in 2..n : Skip(t, r, k - 1) # Eof(t)
           Stops(n) == full(n) /\ (n = PageLength \/ ~full(n + 1))
           E == {n \in 1..PageLength : n = PageLength \/ ~full(n + 1)}
<1>0. PageLength \in Nat /\ PageLength >= 1
  BY BrowseAssumption DEF BrowseBounds
<1>1. PICK m \in E : \A n \in E : m <= n
  <2>1. PageLength \in E
    BY <1>0
  <2>2. E \subseteq Nat
    OBVIOUS
  <2> HIDE DEF E
  <2> QED  BY <2>1, <2>2, Least
<1>2. m \in 1..PageLength /\ Stops(m)
  <2>1. m \in 1..PageLength /\ (m = PageLength \/ ~full(m + 1))
    OBVIOUS
  <2>2. CASE m = 1
    BY <2>1, <2>2
  <2>3. CASE m # 1
    <3>1. m - 1 \in 1..PageLength /\ (m - 1) + 1 = m /\ ~(m <= m - 1)
      <4> HIDE DEF E
      <4> QED  BY <1>0, <2>1, <2>3
    <3>2. m - 1 \notin E
      <4> HIDE DEF E
      <4> QED  BY <1>1, <3>1
    <3>3. full((m - 1) + 1)
      <4> HIDE DEF full
      <4> QED  BY <3>1, <3>2
    <3> QED  BY <2>1, <3>1, <3>3
  <2> QED  BY <2>2, <2>3
<1> DEFINE n == CHOOSE n \in 1..PageLength : Stops(n)
           p == [k \in 1..n |-> Skip(t, r, k - 1)]
<1>3. n \in 1..PageLength /\ Stops(n)
  <2> HIDE DEF Stops
  <2> QED  BY <1>2
<1>4. Page(t, r) = p
  BY DEF Page
<1> HIDE DEF n
<1>5. \A k \in Nat : Skip(t, r, k) \in {r} \cup 1..Eof(t)
  <2> DEFINE T == {k \in Nat : Skip(t, r, k) \in {r} \cup 1..Eof(t)}
  <2>1. 0 \in T
    BY SkipWalks
  <2>2. \A k \in Nat : k + 1 \in T
    BY SkipWalks, ForthShape
  <2>3. Nat \subseteq T
    <3> HIDE DEF T
    <3> QED  BY <2>1, <2>2, Induction
  <2> QED  BY <2>3
<1>6. p \in Seq({r} \cup 1..Eof(t)) /\ Len(p) = n
  <2>1. \A k \in 1..n : p[k] \in {r} \cup 1..Eof(t)
    BY <1>3, <1>5
  <2>2. n \in Nat /\ p = [k \in 1..n |-> p[k]]
    BY <1>3
  <2> HIDE DEF p
  <2> QED  BY <2>1, <2>2
<1>7. \A k \in 1..n : p[k] = Skip(t, r, k - 1)
  OBVIOUS
<1>8. p[1] = r
  BY <1>3, <1>7, SkipWalks
<1>9. ASSUME NEW k \in 2..n
      PROVE  p[k] = Forth(t, p[k - 1]) /\ p[k] # Eof(t)
  <2>1. /\ n \in Nat /\ k \in 1..n /\ k - 1 \in 1..n /\ k - 2 \in Nat
        /\ (k - 2) + 1 = k - 1 /\ (k - 1) - 1 = k - 2
    BY <1>3
  <2>2. p[k] = Skip(t, r, k - 1) /\ p[k - 1] = Skip(t, r, k - 2)
    BY <1>7, <2>1
  <2>3. Skip(t, r, (k - 2) + 1) = Forth(t, Skip(t, r, k - 2))
    <3> HIDE DEF full, Stops, E, p
    <3>1. \A j \in Nat : Skip(t, r, j + 1) = Forth(t, Skip(t, r, j))
      BY SkipWalks, Zenon
    <3> QED  BY <2>1, <3>1
  <2>4. Skip(t, r, k - 1) # Eof(t)
    BY <1>3
  <2> QED  BY <2>1, <2>2, <2>3, <2>4
<1>10. n = PageLength \/ Skip(t, r, n) = Eof(t)
  <2> SUFFICES ASSUME n # PageLength  PROVE Skip(t, r, n) = Eof(t)
    OBVIOUS
  <2>1. PICK k \in 2..(n + 1) : Skip(t, r, k - 1) = Eof(t)
    BY <1>3
  <2>2. k = n + 1
    BY <1>3, <2>1
  <2> QED  BY <1>3, <2>1, <2>2
<1>11. Skip(t, r, n) = Forth(t, p[n])
  <2>1. n - 1 \in Nat /\ (n - 1) + 1 = n /\ n \in 1..n
    BY <1>3
  <2>2. Skip(t, r, (n - 1) + 1) = Forth(t, Skip(t, r, n - 1))
    BY <2>1, SkipWalks
  <2> QED  BY <1>7, <2>1, <2>2
<1> HIDE DEF p
<1> QED  BY <1>3, <1>4, <1>6, <1>7, <1>8, <1>9, <1>10, <1>11 DEF IsPage

\* What _BrowseUpdate leaves, from whatever record it starts.
Draws(t, r) == /\ rows' = Page(t, r) /\ recMap' = Page(t, r)
               /\ atEnd' = (Forth(t, Last(Page(t, r))) = Eof(t))

LEMMA DrawnInOrder ==
  ASSUME NEW t, t = table', t.last \in Nat, NEW r, Draws(t, r)
  PROVE  PageInOrder'
<1>0. PICK n \in 1..PageLength : IsPage(t, r, Page(t, r), n)
  BY PageShape
<1>1. /\ Page(t, r) \in Seq({r} \cup 1..Eof(t)) /\ Len(Page(t, r)) = n
      /\ \A k \in 2..n : Page(t, r)[k] = Forth(t, Page(t, r)[k - 1]) /\ Page(t, r)[k] # Eof(t)
      /\ n = PageLength \/ Skip(t, r, n) = Eof(t)
      /\ Skip(t, r, n) = Forth(t, Page(t, r)[n])
  BY <1>0 DEF IsPage
<1>2. Last(Page(t, r)) = Page(t, r)[n] /\ Page(t, r) # <<>>
  BY <1>1 DEF Last
<1>3. rows' = Page(t, r) /\ atEnd' = (Forth(t, Last(Page(t, r))) = Eof(t))
  BY DEF Draws
<1>4. Eof(table') = Eof(t) /\ \A x : Forth(table', x) = Forth(t, x)
  OBVIOUS
<1>5. rows' # <<>> /\ Len(rows') = n
  BY <1>1, <1>2, <1>3
<1>6. \A k \in 2..Len(rows') : rows'[k] = Forth(t, rows'[k - 1]) /\ rows'[k] # Eof(t)
  BY <1>1, <1>3, <1>5
<1>7. atEnd' = (Forth(t, Last(rows')) = Eof(t)) /\ (atEnd' \/ Len(rows') = PageLength)
  BY <1>1, <1>2, <1>3
<1> QED  BY <1>4, <1>5, <1>6, <1>7 DEF PageInOrder, Eof

-------------------------------------------------------------------------------
(* The last page, to which Alt+A adds a row.                               *)

LEMMA Ordered ==
  ASSUME NEW t, t.last \in Nat, NEW r \in Shown(t), NEW q \in Shown(t)
  PROVE  /\ r = q \/ Precedes(t, r, q) \/ Precedes(t, q, r)
         /\ ~(Precedes(t, r, q) /\ Precedes(t, q, r)) /\ ~Precedes(t, r, r)
         /\ \A p \in Shown(t) : Precedes(t, r, q) /\ Precedes(t, q, p) => Precedes(t, r, p)
BY DEF Precedes, Shown, Eof

\* SKIP 1 after SKIP -1 is back where it was, except at the top.
LEMMA ForthOfBack ==
  ASSUME NEW t, t.last \in Nat, NEW q \in Shown(t)
  PROVE  Back(t, q) = q \/ Forth(t, Back(t, q)) = q
<1> DEFINE b == Back(t, q)
           f == Forth(t, b)
<1>1. b \in Shown(t)
  BY BackShape
<1>2. CASE Before(t, q) # {}
  <2>1. b \in Before(t, q) /\ \A p \in Before(t, q) \ {b} : Precedes(t, p, b)
    BY <1>2, BackShape
  <2>2. q \in After(t, b)
    BY <2>1 DEF Before, After
  <2>3. f \in Shown(t) /\ Precedes(t, b, f) /\ (q # f => Precedes(t, f, q))
    BY <2>2, ForthShape
  <2>4. SUFFICES ASSUME Precedes(t, f, q)  PROVE FALSE
    BY <2>3
  <2>5. f \in Before(t, q) /\ f # b
    BY <1>1, <2>3, <2>4, Ordered DEF Before
  <2>6. Precedes(t, f, b)
    BY <2>1, <2>5
  <2> QED  BY <1>1, <2>3, <2>6, Ordered
<1>3. CASE Before(t, q) = {}
  <2>1. b = FirstOf(t, Shown(t))
    BY <1>3 DEF Back, Top
  <2>2. Shown(t) \subseteq 1..t.last
    BY DEF Shown
  <2>3. \A p \in Shown(t) \ {b} : Precedes(t, b, p)
    BY <2>1, <2>2, Ends
  <2>4. ~Precedes(t, b, q)
    BY <1>1, <1>3 DEF Before
  <2> QED  BY <2>3, <2>4
<1> QED  BY <1>2, <1>3

LEMMA BottomShape ==
  ASSUME NEW t, t.last \in Nat
  PROVE  /\ Bottom(t) \in Shown(t) \cup {Eof(t)} /\ Forth(t, Bottom(t)) = Eof(t)
         /\ Shown(t) # {} => Bottom(t) \in Shown(t)
<1>1. Shown(t) \subseteq 1..t.last
  BY DEF Shown
<1>2. CASE Shown(t) = {}
  <2>1. After(t, Bottom(t)) = {}
    BY <1>2 DEF After
  <2> QED  BY <1>2, <2>1, ForthShape DEF Bottom, LastOf
<1>3. CASE Shown(t) # {}
  <2>1. Bottom(t) \in Shown(t) /\ \A q \in Shown(t) \ {Bottom(t)} : Precedes(t, q, Bottom(t))
    BY <1>1, <1>3, Ends DEF Bottom
  <2>2. After(t, Bottom(t)) = {}
    BY <2>1, Ordered DEF After
  <2> QED  BY <2>1, <2>2, ForthShape
<1> QED  BY <1>2, <1>3

\* SKIP n + 1 is SKIP 1 and then SKIP n.
LEMMA SkipShift ==
  ASSUME NEW t, t.last \in Nat, NEW r
  PROVE  \A k \in Nat : Skip(t, r, k + 1) = Skip(t, Forth(t, r), k)
<1> DEFINE q == Forth(t, r)
           T == {k \in Nat : Skip(t, r, k + 1) = Skip(t, q, k)}
<1>1. /\ Skip(t, r, 0) = r /\ Skip(t, q, 0) = q
      /\ \A k \in Nat : Skip(t, r, k + 1) = Forth(t, Skip(t, r, k))
      /\ \A k \in Nat : Skip(t, q, k + 1) = Forth(t, Skip(t, q, k))
  BY SkipWalks
<1>2. 0 \in T
  BY <1>1
<1>3. ASSUME NEW k \in Nat, k \in T
      PROVE  k + 1 \in T
  <2>1. Skip(t, r, (k + 1) + 1) = Forth(t, Skip(t, r, k + 1))
    BY <1>1
  <2>2. Skip(t, r, k + 1) = Skip(t, q, k)
    BY <1>3
  <2> QED  BY <1>1, <2>1, <2>2
<1>4. Nat \subseteq T
  <2> HIDE DEF T
  <2> QED  BY <1>2, <1>3, Induction
<1> QED  BY <1>4

\* From SKIP -m before a record, the record is m records away, or less.
LEMMA BackNear ==
  ASSUME NEW t, t.last \in Nat, NEW m \in Nat, NEW q,
         q \in Shown(t) \/ (q = Eof(t) /\ Shown(t) = {})
  PROVE  /\ Skip(t, q, -m) \in Shown(t) \cup {Eof(t)}
         /\ \E d \in 0..m : Skip(t, Skip(t, q, -m), d) = q
<1> DEFINE b(i) == Skip(t, q, -i)
           T == {i \in Nat : /\ b(i) \in Shown(t) \cup {Eof(t)}
                             /\ Shown(t) # {} => b(i) \in Shown(t)
                             /\ \E d \in 0..i : Skip(t, b(i), d) = q}
<1>1. Skip(t, q, 0) = q /\ \A i \in Nat : b(i + 1) = Back(t, b(i))
  BY SkipWalks
<1>2. b(0) = q
  BY <1>1
<1> HIDE DEF b
<1>3. 0 \in T
  BY <1>1, <1>2
<1>4. ASSUME NEW i \in Nat, i \in T
      PROVE  i + 1 \in T
  <2>1. /\ b(i) \in Shown(t) \cup {Eof(t)}
        /\ Shown(t) # {} => b(i) \in Shown(t)
    BY <1>4
  <2>2. PICK d \in 0..i : Skip(t, b(i), d) = q
    BY <1>4
  <2>3. b(i + 1) = Back(t, b(i))
    BY <1>1
  <2>4. /\ b(i + 1) \in Shown(t) \cup {Eof(t)}
        /\ Shown(t) # {} => b(i + 1) \in Shown(t)
    BY <2>3, BackShape
  <2>5. b(i + 1) = b(i) \/ Forth(t, b(i + 1)) = b(i)
    <3>1. CASE Shown(t) = {}
      BY <2>1, <2>4, <3>1
    <3>2. CASE Shown(t) # {}
      BY <2>1, <2>3, <3>2, ForthOfBack
    <3> QED  BY <3>1, <3>2
  <2>6. \E e \in 0..(i + 1) : Skip(t, b(i + 1), e) = q
    <3>1. CASE b(i + 1) = b(i)
      BY <2>2, <3>1
    <3>2. CASE Forth(t, b(i + 1)) = b(i)
      <4>1. d + 1 \in 0..(i + 1)
        OBVIOUS
      <4>2. Skip(t, b(i + 1), d + 1) = Skip(t, b(i), d)
        BY <3>2, SkipShift
      <4> QED  BY <2>2, <4>1, <4>2
    <3> QED  BY <2>5, <3>1, <3>2
  <2> QED  BY <2>4, <2>6
<1>5. Nat \subseteq T
  <2> HIDE DEF T
  <2> QED  BY <1>3, <1>4, Induction
<1>6. m \in T
  <2> HIDE DEF T
  <2> QED  BY <1>5
<1> QED  BY <1>6 DEF b

\* So is the end, from there.
LEMMA EndIsNear ==
  ASSUME NEW t, t.last \in Nat, NEW m \in Nat
  PROVE  /\ Skip(t, Bottom(t), -m) \in Shown(t) \cup {Eof(t)}
         /\ \E d \in 0..m : Skip(t, Skip(t, Bottom(t), -m), d + 1) = Eof(t)
<1> DEFINE r == Skip(t, Bottom(t), -m)
<1>1. r \in Shown(t) \cup {Eof(t)} /\ \E d \in 0..m : Skip(t, r, d) = Bottom(t)
  BY BottomShape, BackNear
<1>2. PICK d \in 0..m : Skip(t, r, d) = Bottom(t)
  BY <1>1
<1> HIDE DEF r
<1>3. Skip(t, r, d + 1) = Forth(t, Skip(t, r, d))
  <2>1. \A k \in Nat : Skip(t, r, k + 1) = Forth(t, Skip(t, r, k))
    BY SkipWalks
  <2> QED  BY <2>1
<1>4. Skip(t, r, d + 1) = Eof(t)
  BY <1>2, <1>3, BottomShape
<1> QED  BY <1>1, <1>4 DEF r

\* The last page leaves a row for the record Alt+A appends.
LEMMA LastPage ==
  ASSUME NEW t, t.last \in Nat, NEW p, p = Page(t, Skip(t, Bottom(t), 2 - PageLength))
  PROVE  /\ p \in Seq(1..Eof(t)) /\ Len(p) \in 1..(PageLength - 1)
         /\ \A k \in 2..Len(p) : p[k] = Forth(t, p[k - 1]) /\ p[k] # Eof(t)
         /\ Forth(t, p[Len(p)]) = Eof(t)
         /\ p[Len(p)] # Eof(t) => \A k \in 1..Len(p) : p[k] \in Shown(t)
<1> DEFINE m == PageLength - 2
           r == Skip(t, Bottom(t), 2 - PageLength)
<1>1. PageLength \in Nat /\ m \in Nat /\ 2 - PageLength = -m
  BY BrowseAssumption DEF BrowseBounds
<1>2. r \in Shown(t) \cup {Eof(t)} /\ \E d \in 0..m : Skip(t, r, d + 1) = Eof(t)
  <2>1. r = Skip(t, Bottom(t), -m)
    BY <1>1
  <2> HIDE DEF m, r
  <2> QED  BY <1>1, <2>1, EndIsNear
<1>3. PICK d \in 0..m : Skip(t, r, d + 1) = Eof(t)
  BY <1>2
<1>4. PICK n \in 1..PageLength : IsPage(t, r, p, n)
  BY PageShape
<1> HIDE DEF m, r
<1>5. n < PageLength /\ Skip(t, r, n) = Eof(t)
  <2> SUFFICES ASSUME n = PageLength  PROVE FALSE
    BY <1>1, <1>4 DEF IsPage
  <2>1. d + 2 \in 2..n /\ d + 2 \in 1..n /\ (d + 2) - 1 = d + 1
    BY <1>1 DEF m
  <2>2. p[d + 2] = Eof(t)
    BY <1>3, <1>4, <2>1 DEF IsPage
  <2> QED  BY <1>4, <2>1, <2>2 DEF IsPage
<1>6. Len(p) = n /\ n \in 1..(PageLength - 1) /\ Forth(t, p[n]) = Eof(t) /\ p[1] = r
  BY <1>1, <1>4, <1>5 DEF IsPage
<1>7. \A k \in 2..n : p[k] = Forth(t, p[k - 1]) /\ p[k] # Eof(t) /\ p[k] \in Shown(t)
  <2>1. \A k \in 2..n : p[k] = Forth(t, p[k - 1]) /\ p[k] # Eof(t)
    BY <1>4 DEF IsPage
  <2> QED  BY <2>1, ForthShape
<1>8. p \in Seq(1..Eof(t))
  <2>1. r \in 1..Eof(t)
    BY <1>2 DEF Shown, Eof
  <2>2. {r} \cup 1..Eof(t) = 1..Eof(t)
    BY <2>1
  <2> QED  BY <1>4, <2>2 DEF IsPage
<1>9. ASSUME p[n] # Eof(t), NEW k \in 1..n
      PROVE  p[k] \in Shown(t)
  <2>1. CASE k # 1
    <3>1. k \in 2..n
      BY <2>1
    <3> QED  BY <1>7, <3>1
  <2>2. CASE k = 1
    <3>1. CASE n = 1
      BY <1>2, <1>6, <1>9, <2>2, <3>1
    <3>2. CASE n # 1
      <4>1. 2 \in 2..n /\ 2 - 1 = 1
        BY <1>6, <3>2
      <4>2. Forth(t, p[1]) # Eof(t)
        BY <1>7, <4>1
      <4>3. r # Eof(t)
        <5> SUFFICES After(t, Eof(t)) = {}
          BY <1>6, <4>2, ForthShape
        <5> QED  BY DEF After, Shown, Precedes, Eof
      <4> QED  BY <1>2, <1>6, <2>2, <4>3
    <3> QED  BY <3>1, <3>2
  <2> QED  BY <2>1, <2>2
<1> QED  BY <1>6, <1>7, <1>8, <1>9

\* A record appended is the one after the last that was shown.
LEMMA Appended ==
  ASSUME table \in Table, table'.last = table.last + 1, table'.hidden = table.hidden,
         table'.deleted = table.deleted, table'.delOn = table.delOn, table'.order = table.order,
         table.hidden \subseteq 1..table.last, table.deleted \subseteq 1..table.last,
         table.order # "down", NEW r \in 1..Eof(table)
  PROVE  Forth(table', r) = IF r = Eof(table) THEN Eof(table') ELSE Forth(table, r)
<1> DEFINE new == Eof(table)
           a == After(table, r)
           f == Forth(table, r)
           g == Forth(table', r)
<1>1. /\ table.last \in Nat /\ table'.last \in Nat /\ new = table.last + 1
      /\ Eof(table') = new + 1 /\ new \in Nat
  BY DEF Table, Eof
<1>2. Shown(table') = Shown(table) \cup {new} /\ Shown(table) \subseteq 1..table.last
  BY <1>1 DEF Shown
<1>3. \A x, y : Precedes(table, x, y) <=> x < y
  BY DEF Precedes
<1>4. \A x, y : Precedes(table', x, y) <=> x < y
  BY DEF Precedes
<1>5. After(table', r) = IF r = new THEN {} ELSE a \cup {new}
  BY <1>1, <1>2, <1>3, <1>4 DEF After
<1> HIDE DEF new, a, f, g
<1>6. CASE r = new
  BY <1>1, <1>5, <1>6, ForthShape DEF new
<1>7. CASE r # new
  <2>1. /\ g \in Shown(table') /\ g # Eof(table') /\ r < g
        /\ \A q \in a \cup {new} : q # g => g < q
    BY <1>1, <1>4, <1>5, <1>7, ForthShape DEF g, new
  <2>2. CASE a = {}
    <3>1. f = new
      BY <1>1, <2>2, ForthShape DEF a, f, new
    <3>2. g \notin Shown(table)
      BY <1>3, <2>1, <2>2 DEF a, After
    <3> QED  BY <1>2, <1>7, <2>1, <3>1, <3>2 DEF f, g, new
  <2>3. CASE a # {}
    <3>1. f \in Shown(table) /\ f # new /\ r < f /\ \A q \in a : q # f => f < q
      BY <1>1, <1>3, <2>3, ForthShape DEF a, f, new
    <3>2. f \in a
      BY <1>3, <3>1 DEF a, After
    <3>3. g # new
      BY <1>1, <1>2, <2>1, <3>1, <3>2
    <3>4. g \in a
      BY <1>2, <1>3, <2>1, <3>3 DEF a, After
    <3>5. f \in Nat /\ g \in Nat
      BY <1>1, <1>2, <2>1, <3>1
    <3>6. f = g
      BY <2>1, <3>1, <3>2, <3>4, <3>5
    <3> QED  BY <1>7, <3>6 DEF f, g, new
  <2> QED  BY <2>2, <2>3
<1> QED  BY <1>6, <1>7

-------------------------------------------------------------------------------
(* The selection as a cursor on the table.                                 *)

LEMMA RowOfShape ==
  ASSUME NEW S, NEW p \in Seq(S), NEW x
  PROVE  /\ RowOf(p, x) \in 0..Len(p)
         /\ x \in ToSet(p) => RowOf(p, x) \in 1..Len(p) /\ p[RowOf(p, x)] = x
<1> DEFINE R == {k \in 1..Len(p) : p[k] = x}
<1>1. Len(p) \in Nat /\ DOMAIN p = 1..Len(p)
  OBVIOUS
<1>2. CASE x \notin ToSet(p)
  BY <1>1, <1>2 DEF RowOf
<1>3. CASE x \in ToSet(p)
  <2>1. R # {} /\ R \subseteq Nat
    BY <1>1, <1>3 DEF ToSet
  <2>2. PICK k \in R : \A j \in R : k <= j
    <3> HIDE DEF R
    <3> QED  BY <2>1, Least
  <2>3. k \in DOMAIN p /\ p[k] = x /\ \A j \in 1..(k - 1) : p[j] # x
    <3>1. k \in 1..Len(p) /\ p[k] = x
      OBVIOUS
    <3>2. ASSUME NEW j \in 1..(k - 1), p[j] = x  PROVE FALSE
      <4>1. j \in R /\ ~(k <= j)
        BY <1>1, <3>1, <3>2
      <4> HIDE DEF R
      <4> QED  BY <2>2, <4>1
    <3> QED  BY <1>1, <3>1, <3>2
  <2>4. RowOf(p, x) \in DOMAIN p /\ p[RowOf(p, x)] = x
    BY <1>3, <2>3 DEF RowOf
  <2> QED  BY <1>1, <2>4
<1> QED  BY <1>2, <1>3

LEMMA EofStays ==
  ASSUME NEW t, t.last \in Nat, NEW r, NEW n \in Nat, Skip(t, r, n) = Eof(t)
  PROVE  \A d \in Nat : Skip(t, r, n + d) = Eof(t)
<1> DEFINE T == {d \in Nat : Skip(t, r, n + d) = Eof(t)}
<1>1. \A k \in Nat : Skip(t, r, k + 1) = Forth(t, Skip(t, r, k))
  BY SkipWalks
<1>2. Forth(t, Eof(t)) = Eof(t)
  <2> SUFFICES After(t, Eof(t)) = {}
    BY ForthShape
  <2> QED  BY DEF After, Shown, Precedes, Eof
<1>3. 0 \in T
  OBVIOUS
<1>4. ASSUME NEW d \in Nat, d \in T
      PROVE  d + 1 \in T
  <2>1. n + d \in Nat /\ n + (d + 1) = (n + d) + 1 /\ d + 1 \in Nat
    OBVIOUS
  <2>2. Skip(t, r, (n + d) + 1) = Forth(t, Skip(t, r, n + d))
    BY <1>1, <2>1
  <2> QED  BY <1>2, <1>4, <2>1, <2>2
<1>5. Nat \subseteq T
  <2> HIDE DEF T
  <2> QED  BY <1>3, <1>4, Induction
<1> QED  BY <1>5

\* A record less than a page away is on the page.
LEMMA OnPage ==
  ASSUME NEW t, t.last \in Nat, NEW r, NEW q, q # Eof(t),
         \E d \in 0..(PageLength - 1) : Skip(t, r, d) = q
  PROVE  q \in ToSet(Page(t, r))
<1>1. PICK d \in 0..(PageLength - 1) : Skip(t, r, d) = q
  OBVIOUS
<1>2. PICK n \in 1..PageLength : IsPage(t, r, Page(t, r), n)
  BY PageShape
<1>3. PageLength \in Nat /\ d \in Nat /\ n \in Nat
  BY BrowseAssumption DEF BrowseBounds
<1>4. d + 1 <= n
  <2> SUFFICES ASSUME ~(d + 1 <= n)  PROVE FALSE
    OBVIOUS
  <2>1. d - n \in Nat /\ n + (d - n) = d /\ n # PageLength
    BY <1>3
  <2>2. Skip(t, r, n) = Eof(t)
    BY <1>2, <2>1 DEF IsPage
  <2>3. Skip(t, r, n + (d - n)) = Eof(t)
    BY <1>3, <2>1, <2>2, EofStays
  <2> QED  BY <1>1, <2>1, <2>3
<1>5. d + 1 \in 1..n /\ (d + 1) - 1 = d
  BY <1>3, <1>4
<1>6. Page(t, r)[d + 1] = q /\ d + 1 \in DOMAIN Page(t, r)
  BY <1>1, <1>2, <1>5 DEF IsPage
<1> QED  BY <1>6 DEF ToSet

LEMMA BackOfForth ==
  ASSUME NEW t, t.last \in Nat, NEW x \in Shown(t), Forth(t, x) # Eof(t)
  PROVE  Back(t, Forth(t, x)) = x
<1> DEFINE f == Forth(t, x)
           b == Back(t, f)
<1>1. f \in Shown(t) /\ Precedes(t, x, f) /\ \A q \in After(t, x) : q # f => Precedes(t, f, q)
  BY ForthShape
<1>2. x \in Before(t, f)
  BY <1>1 DEF Before
<1>3. b \in Before(t, f) /\ \A q \in Before(t, f) \ {b} : Precedes(t, q, b)
  BY <1>2, BackShape
<1> HIDE DEF f, b
<1>4. b \in Shown(t) /\ Precedes(t, b, f)
  BY <1>3 DEF Before
<1> SUFFICES ASSUME b # x  PROVE FALSE
  BY DEF b, f
<1>5. b \in After(t, x) /\ b # f
  BY <1>1, <1>2, <1>3, <1>4, Ordered DEF After
<1>6. Precedes(t, f, b)
  BY <1>1, <1>5
<1> QED  BY <1>1, <1>4, <1>6, Ordered

\* SKIP within a list that is a run of the order.
LEMMA RunForth ==
  ASSUME NEW t, t.last \in Nat, NEW S, NEW p \in Seq(S), \A k \in 2..Len(p) : p[k] = Forth(t, p[k - 1]),
         NEW i \in 1..Len(p)
  PROVE  \A d \in 0..(Len(p) - i) : p[i + d] = Skip(t, p[i], d)
<1> DEFINE T == {d \in Nat : d <= Len(p) - i => p[i + d] = Skip(t, p[i], d)}
           n == Len(p)
<1>0. n \in Nat /\ Skip(t, p[i], 0) = p[i]
      /\ \A k \in Nat : Skip(t, p[i], k + 1) = Forth(t, Skip(t, p[i], k))
  <2>1. /\ Skip(t, p[i], 0) = p[i]
        /\ \A k \in Nat : Skip(t, p[i], k + 1) = Forth(t, Skip(t, p[i], k))
    BY ONLY t.last \in Nat, SkipWalks
  <2> QED  BY <2>1
<1>1. 0 \in T
  BY <1>0
<1>2. ASSUME NEW d \in Nat, d \in T
      PROVE  d + 1 \in T
  <2> SUFFICES ASSUME d + 1 <= n - i  PROVE p[i + (d + 1)] = Skip(t, p[i], d + 1)
    OBVIOUS
  <2>1. d <= n - i /\ i + (d + 1) \in 2..n /\ (i + (d + 1)) - 1 = i + d
    BY <1>0
  <2>2. p[i + (d + 1)] = Forth(t, p[i + d])
    BY <2>1
  <2> QED  BY <1>0, <1>2, <2>1, <2>2
<1>3. Nat \subseteq T
  <2> HIDE DEF T
  <2> QED  BY <1>1, <1>2, Induction
<1>4. \A d \in 0..(n - i) : d \in Nat /\ d <= n - i
  BY <1>0
<1> QED  BY <1>3, <1>4

LEMMA RunBack ==
  ASSUME NEW t, t.last \in Nat, NEW S, NEW p \in Seq(S),
         \A k \in 2..Len(p) : p[k] = Forth(t, p[k - 1]) /\ p[k] # Eof(t),
         NEW i \in 1..Len(p), p[1] \in Shown(t)
  PROVE  \A d \in 0..(i - 1) : p[i - d] = Skip(t, p[i], -d)
<1> DEFINE T == {d \in Nat : d <= i - 1 => p[i - d] = Skip(t, p[i], -d)}
           n == Len(p)
<1>0. n \in Nat /\ Skip(t, p[i], 0) = p[i]
      /\ \A k \in Nat : Skip(t, p[i], -(k + 1)) = Back(t, Skip(t, p[i], -k))
  <2> HIDE DEF T
  <2>1. \A a : Skip(t, a, 0) = a /\ \A k \in Nat : Skip(t, a, -(k + 1)) = Back(t, Skip(t, a, -k))
    BY SkipWalks
  <2> QED  BY <2>1
<1>a. ASSUME NEW k \in 2..n
      PROVE  Back(t, p[k]) = p[k - 1]
  <2>1. p[k - 1] \in Shown(t)
    <3>1. CASE k = 2
      BY <3>1
    <3>2. CASE k # 2
      <4>1. k - 1 \in 2..n
        BY <3>2
      <4> QED  BY <4>1, ForthShape
    <3> QED  BY <3>1, <3>2
  <2> QED  BY <2>1, BackOfForth
<1>1. 0 \in T
  BY <1>0
<1>2. ASSUME NEW d \in Nat, d \in T
      PROVE  d + 1 \in T
  <2> SUFFICES ASSUME d + 1 <= i - 1  PROVE p[i - (d + 1)] = Skip(t, p[i], -(d + 1))
    OBVIOUS
  <2>1. d <= i - 1 /\ i - d \in 2..n /\ (i - d) - 1 = i - (d + 1)
    BY <1>0
  <2>2. p[i - (d + 1)] = Back(t, p[i - d])
    BY <1>a, <2>1
  <2>3. p[i - d] = Skip(t, p[i], -d)
    BY <1>2, <2>1
  <2>4. Skip(t, p[i], -(d + 1)) = Back(t, Skip(t, p[i], -d))
    BY <1>0
  <2> QED  BY <2>2, <2>3, <2>4
<1>3. Nat \subseteq T
  <2> HIDE DEF T
  <2> QED  BY <1>1, <1>2, Induction
<1>4. \A d \in 0..(i - 1) : d \in Nat /\ d <= i - 1
  BY <1>0
<1> QED  BY <1>3, <1>4

\* Drawn k rows before a record, the list shows it.
LEMMA OnPageBefore ==
  ASSUME NEW t, t.last \in Nat, NEW k \in 1..PageLength, NEW q \in Shown(t)
  PROVE  q \in ToSet(Page(t, Skip(t, q, 1 - k)))
<1> DEFINE m == k - 1
           r == Skip(t, q, 1 - k)
<1>1. PageLength \in Nat /\ m \in Nat /\ m <= PageLength - 1 /\ 1 - k = -m /\ q # Eof(t)
  BY BrowseAssumption DEF BrowseBounds, Shown, Eof
<1>2. r = Skip(t, q, -m)
  BY <1>1
<1>3. \E d \in 0..m : Skip(t, r, d) = q
  <2> HIDE DEF m, r
  <2> QED  BY <1>1, <1>2, BackNear
<1> HIDE DEF r, m
<1>4. q \in ToSet(Page(t, r))
  BY <1>1, <1>3, OnPage
<1> QED  BY <1>4 DEF r

-------------------------------------------------------------------------------
(* Steps on the blocks in progress.                                        *)

\* The table of the next state, which may have more records.
Grown == table' \in Table /\ table.last <= table'.last

LEMMA GrownShape ==
  ASSUME Typed, Grown
  PROVE  /\ table.last \in Nat /\ table'.last \in Nat
         /\ Eof(table) \in Nat /\ Eof(table)' \in Nat /\ Eof(table) <= Eof(table)'
         /\ 1..Eof(table) \subseteq 1..Eof(table)'
  BY DEF Typed, Grown, Table, Eof

\* The ON CHANGE block of a command, or of a deletion that goes back to the
\* record the program left.
LEMMA PushStep ==
  ASSUME Blocks, Grown, changes' \in Nat, UNCHANGED <<home, sync, strayed>>,
         NEW kind \in {"change", "set"}, NEW r, NEW back, OnChange(kind, r, back),
         \/ back = 0 /\ r = rec
         \/ frames = <<>> /\ back = rec,
         locks' = locks \/ frames = <<>>
  PROVE  Blocks'
<1> USE GrownShape DEF Blocks
<1>1. frames \in Seq(Frame) /\ sync \in BOOLEAN /\ home \in 1..Eof(table)
  BY DEF Typed
<1>2. frames = <<>> => ~GoesBack
  BY DEF GoesBack
<1>3. back \in Nat /\ back <= Eof(table)
  BY <1>2 DEF Pointer
<1>4. /\ frames' \in Seq(Frame)
      /\ DOMAIN frames' = 1..(Len(frames) + 1)
      /\ frames'[Len(frames) + 1].kind = kind
      /\ frames'[Len(frames) + 1].back = back /\ frames'[Len(frames) + 1].nrec = 0
      /\ \A k \in DOMAIN frames : /\ frames'[k].kind = frames[k].kind
                                  /\ frames'[k].back = frames[k].back
                                  /\ frames'[k].nrec = frames[k].nrec
                                  /\ ~sync => frames'[k].moved = frames[k].moved
                                  /\ sync => frames'[k].moved
      /\ rec' = IF sync THEN GoTo(table', Value') ELSE r
  BY <1>1, <1>3, OnChangeShape
<1>5. DOMAIN frames = 1..Len(frames) /\ Len(frames) \in Nat /\ (frames = <<>> <=> Len(frames) = 0)
  BY <1>1
<1>6. frames' # <<>>
  BY <1>4, <1>5
<1>7. GoTo(table', Value') \in 1..Eof(table)'
  BY GoToShape DEF Eof
<1>a. Typed'
  BY <1>1, <1>4 DEF Typed, Grown
<1>b. Nested'
  <2> SUFFICES ASSUME NEW k \in DOMAIN frames'
               PROVE  /\ frames'[k].back <= Eof(table)' /\ frames'[k].nrec <= Eof(table)'
                      /\ k > 1 => frames'[k].back = 0 /\ frames'[k].kind \notin Edits
                      /\ frames'[k].kind = "valid" => k = 2 /\ frames'[1].kind = "edit"
                      /\ frames'[k].kind \in Edits => frames'[k].back # 0 /\ frames'[k].nrec # 0
    BY DEF Nested
  <2>1. CASE k \in DOMAIN frames
    <3>1. 1 \in DOMAIN frames
      BY <1>5, <2>1
    <3>2. frames[k].back \in Nat /\ frames[k].nrec \in Nat
      BY <1>1, <2>1, FrameShape
    <3> QED  BY <1>4, <2>1, <3>1, <3>2 DEF Nested
  <2>2. CASE k = Len(frames) + 1
    BY <1>3, <1>4, <1>5, <2>2 DEF Edits
  <2> QED  BY <1>4, <1>5, <2>1, <2>2
<1>c. Pointer'
  <2>1. CASE frames = <<>>
    <3>1. rec \in 1..Eof(table) /\ (~sync => rec = home)
      BY <1>2, <2>1 DEF Pointer
    <3>2. frames'[1].back = back /\ (GoesBack' <=> back # 0)
      BY <1>4, <1>5, <1>6, <2>1 DEF GoesBack
    <3>3. CASE back = 0 /\ r = rec
      BY <1>4, <1>7, <3>1, <3>2, <3>3 DEF Pointer
    <3>4. CASE back = rec
      <4>1. back # 0
        BY <3>1, <3>4
      <4> QED  BY <3>1, <3>2, <3>4, <4>1 DEF Pointer
    <3> QED  BY <3>3, <3>4
  <2>2. CASE frames # <<>>
    <3>1. frames'[1].back = frames[1].back /\ 1 \in DOMAIN frames
      BY <1>4, <1>5, <2>2
    <3>2. GoesBack' <=> GoesBack
      BY <1>6, <2>2, <3>1 DEF GoesBack
    <3> QED  BY <1>4, <1>7, <2>2, <3>1, <3>2 DEF Pointer
  <2> QED  BY <2>1, <2>2
<1>d. Writing'
  <2>1. SUFFICES ASSUME frames'[1].kind = "edit", ~frames'[1].moved
                 PROVE  rec' = frames'[1].nrec
    BY DEF Writing
  <2>2. frames # <<>> /\ 1 \in DOMAIN frames
    BY <1>4, <1>5, <2>1
  <2> QED  BY <1>4, <2>1, <2>2 DEF Writing
<1>e. Locked'
  <2> SUFFICES ASSUME Shared, NEW k \in DOMAIN frames', frames'[k].kind \in Edits
               PROVE  frames'[k].nrec \in locks'
    BY DEF Locked
  <2>1. k \in DOMAIN frames
    BY <1>4, <1>5 DEF Edits
  <2> QED  BY <1>4, <2>1 DEF Locked
<1> QED  BY <1>a, <1>b, <1>c, <1>d, <1>e

\* Whatever leaves the blocks and the pointer alone.
LEMMA KeepStep ==
  ASSUME Blocks, Grown, changes' \in Nat, UNCHANGED <<rec, frames, home, sync, strayed>>,
         locks' = locks \/ frames = <<>>
  PROVE  Blocks'
<1> USE GrownShape DEF Blocks
<1>0. frames \in Seq(Frame) /\ (frames = <<>> => DOMAIN frames = {})
  BY DEF Typed
<1>a. Typed'
  BY DEF Typed, Grown
<1>b. Nested'
  <2> SUFFICES ASSUME NEW k \in DOMAIN frames
               PROVE  frames[k].back <= Eof(table)' /\ frames[k].nrec <= Eof(table)'
    BY DEF Nested
  <2>1. frames[k].back \in Nat /\ frames[k].nrec \in Nat
    BY <1>0, FrameShape
  <2> QED  BY <2>1 DEF Nested
<1>c. Pointer'
  BY DEF Pointer, GoesBack
<1>d. Writing' /\ Locked'
  BY <1>0 DEF Writing, Locked
<1> QED  BY <1>a, <1>b, <1>c, <1>d

\* The outermost block returns to its record.
LEMMA LastReturn ==
  ASSUME Blocks, Grown, changes' \in Nat, UNCHANGED <<home, sync>>, ~strayed',
         GoesBack, frames' = <<>>, rec' = GoTo(table', frames[1].back)
  PROVE  Blocks'
<1> USE GrownShape DEF Blocks
<1>1. frames[1] \in Frame /\ 1 \in DOMAIN frames /\ <<>> \in Seq(Frame) /\ DOMAIN <<>> = {}
  BY DEF Typed, GoesBack
<1>2. frames[1].back \in 1..Eof(table)'
  BY <1>1 DEF Nested, GoesBack, Frame
<1>3. rec' = frames[1].back
  BY <1>2, GoToShape DEF Eof
<1>a. Typed'
  BY <1>1 DEF Typed, Grown
<1>b. Pointer'
  BY <1>2, <1>3 DEF Pointer, GoesBack
<1>c. Nested' /\ Writing' /\ Locked'
  BY <1>1 DEF Nested, Writing, Locked
<1> QED  BY <1>a, <1>b, <1>c

\* A block within another one returns.
LEMMA InnerReturns ==
  ASSUME Blocks, Grown, changes' \in Nat, UNCHANGED <<rec, home, sync, strayed, locks>>,
         Len(frames) > 1, frames' = Front(frames)
  PROVE  Blocks'
<1> USE GrownShape DEF Blocks
<1>1. /\ frames' \in Seq(Frame) /\ Len(frames') = Len(frames) - 1
      /\ \A k \in 1..(Len(frames) - 1) : frames'[k] = frames[k]
  BY FrontShape DEF Typed
<1>2. Len(frames) \in Nat /\ DOMAIN frames = 1..Len(frames) /\ DOMAIN frames' = 1..(Len(frames) - 1)
  BY <1>1 DEF Typed
<1>3. \A k \in DOMAIN frames' : k \in DOMAIN frames /\ frames'[k] = frames[k]
  BY <1>1, <1>2
<1>4. 1 \in DOMAIN frames' /\ frames' # <<>> /\ frames # <<>>
  BY <1>2
<1>a. Typed'
  BY <1>1 DEF Typed, Grown
<1>b. Nested'
  <2> SUFFICES ASSUME NEW k \in DOMAIN frames'
               PROVE  /\ frames'[k].back <= Eof(table)' /\ frames'[k].nrec <= Eof(table)'
                      /\ k > 1 => frames'[k].back = 0 /\ frames'[k].kind \notin Edits
                      /\ frames'[k].kind = "valid" => k = 2 /\ frames'[1].kind = "edit"
                      /\ frames'[k].kind \in Edits => frames'[k].back # 0 /\ frames'[k].nrec # 0
    BY DEF Nested
  <2>1. frames[k].back \in Nat /\ frames[k].nrec \in Nat
    BY <1>3, FrameShape DEF Typed
  <2> QED  BY <1>3, <1>4, <2>1 DEF Nested
<1>c. Pointer' /\ Writing' /\ Locked'
  BY <1>3, <1>4 DEF Pointer, GoesBack, Writing, Locked
<1> QED  BY <1>a, <1>b, <1>c

-------------------------------------------------------------------------------
(* The initial states and the actions.                                     *)

LEMMA TopShape ==
  ASSUME NEW t, t.last \in Nat
  PROVE  Top(t) \in 1..Eof(t)
<1>1. Shown(t) \subseteq 1..t.last /\ 1..t.last \subseteq 1..Eof(t)
  BY DEF Shown, Eof
<1>2. CASE Shown(t) = {}
  BY <1>2 DEF Top, FirstOf, Eof
<1>3. CASE Shown(t) # {}
  BY <1>1, <1>3, Ends DEF Top
<1> QED  BY <1>2, <1>3

LEMMA InitBrowseInv == InitBrowse => BrowseInv
<1> SUFFICES ASSUME InitBrowse  PROVE BrowseInv
  OBVIOUS
<1>1. table \in Table /\ table.last \in Nat /\ table.order # "down"
  <2>1. table \in [last : 1..MaxRecords, hidden : {{}}, deleted : {{}}, delOn : BOOLEAN,
                   order : {"natural", "up"}]
    BY DEF InitBrowse
  <2>2. {} \in SUBSET (1..MaxRecords) /\ MaxRecords \in Nat
    BY BrowseAssumption DEF BrowseBounds
  <2> QED  BY <2>1, <2>2 DEF Table
<1>2. Top(table) \in 1..Eof(table)
  BY <1>1, TopShape
<1>3. frames = <<>> /\ changes = 0 /\ locks = {} /\ ~strayed /\ sync \in BOOLEAN
  BY DEF InitBrowse
<1>4. frames \in Seq(Frame) /\ DOMAIN frames = {}
  BY <1>3, EmptySeq
<1>5. Typed
  <2>1. home \in 1..Eof(table)
    BY <1>2 DEF InitBrowse
  <2>2. changes \in Nat
    BY <1>3
  <2> QED  BY <1>1, <1>3, <1>4, <2>1, <2>2 DEF Typed
<1>6. Pointer
  BY <1>2, <1>3 DEF InitBrowse, Pointer, GoesBack
<1>7. Nested /\ Writing /\ Locked
  BY <1>3, <1>4 DEF Nested, Writing, Locked
<1> QED  BY <1>5, <1>6, <1>7 DEF InitBrowse, BrowseInv, Blocks, RowsMapped

LEMMA CommandStep ==
  ASSUME Blocks, Command
  PROVE  Blocks'
<1>1. /\ UNCHANGED <<table, locks, changes, sync, home, strayed>>
      /\ OnChange("change", rec, 0)
  BY DEF Command, others
<1>2. Grown /\ changes' \in Nat
  <2>1. table \in Table /\ changes \in Nat
    BY DEF Blocks, Typed
  <2> QED  BY <1>1, <2>1 DEF Grown, Table
<1> QED  BY <1>1, <1>2, PushStep

LEMMA CommandsStep ==
  ASSUME BrowseInv,
         \/ Home \/ End \/ Up \/ Down \/ PageUp \/ PageDown
         \/ \E k \in DOMAIN rows : ClickRow(k)
  PROVE  BrowseInv'
<1>1. Command
  BY DEF Home, End, Up, Down, PageUp, PageDown, ClickRow
<1>2. Blocks'
  BY <1>1, CommandStep DEF BrowseInv
<1>3. RowsMapped'
  <2>1. CASE Home
    BY <2>1 DEF Home, DrawFrom, RowsMapped
  <2>2. CASE End
    BY <2>2 DEF End, DrawFrom, RowsMapped
  <2>3. CASE Up
    BY <2>3 DEF Up, DrawFrom, BrowseInv, RowsMapped
  <2>4. CASE Down
    BY <2>4 DEF Down, DrawFrom, BrowseInv, RowsMapped
  <2>5. CASE PageUp
    BY <2>5 DEF PageUp, DrawFrom, BrowseInv, RowsMapped
  <2>6. CASE PageDown
    BY <2>6 DEF PageDown, DrawFrom, BrowseInv, RowsMapped
  <2>7. CASE \E k \in DOMAIN rows : ClickRow(k)
    BY <2>7 DEF ClickRow, BrowseInv, RowsMapped
  <2> QED  BY <2>1, <2>2, <2>3, <2>4, <2>5, <2>6, <2>7
<1> QED  BY <1>2, <1>3 DEF BrowseInv

\* An action that leaves the table, or changes only its order.
LEMMA SameTable ==
  ASSUME Typed, \/ table' = table
                \/ table' = [table EXCEPT !.order = IF @ = "up" THEN "down" ELSE "up"]
  PROVE  Grown
<1>1. table \in Table
  BY DEF Typed
<1>2. CASE table' = table
  BY <1>1, <1>2 DEF Grown, Table
<1>3. CASE table' = [table EXCEPT !.order = IF @ = "up" THEN "down" ELSE "up"]
  <2> DEFINE o == IF table.order = "up" THEN "down" ELSE "up"
  <2>1. o \in {"natural", "up", "down"}
    OBVIOUS
  <2>2. table' = [table EXCEPT !.order = o]
    BY <1>3
  <2> HIDE DEF o
  <2> QED  BY <1>1, <2>1, <2>2 DEF Grown, Table
<1> QED  BY <1>2, <1>3

LEMMA RefreshStep ==
  ASSUME BrowseInv, Refresh \/ SetOrder \/ AppendFails
  PROVE  BrowseInv'
<1> USE DEF BrowseInv, Blocks
<1>1. Grown
  BY SameTable DEF Refresh, SetOrder, AppendFails
<1>2. changes' \in Nat
  <2>1. changes' \in {changes, changes + 1}
    BY DEF Refresh, SetOrder, AppendFails, others
  <2> QED  BY <2>1 DEF Typed
<1>3. UNCHANGED <<rec, frames, locks, home, sync, strayed>>
  BY DEF Refresh, SetOrder, AppendFails, others
<1>4. Blocks'
  BY <1>1, <1>2, <1>3, KeepStep
<1>5. RowsMapped'
  <2>1. CASE Refresh
    BY <2>1 DEF Refresh, RefreshIn, DrawFrom, Reset, RowsMapped
  <2>2. CASE SetOrder
    BY <2>2 DEF SetOrder, RefreshIn, DrawFrom, Reset, RowsMapped
  <2>3. CASE AppendFails
    BY <2>3 DEF AppendFails, DrawFrom, RowsMapped, list
  <2> QED  BY <2>1, <2>2, <2>3
<1> QED  BY <1>4, <1>5

\* The Value property, set by the program or by a deletion.
LEMMA SetStep ==
  ASSUME BrowseInv, Grown, changes' \in Nat, UNCHANGED <<home, sync, strayed>>,
         NEW t, NEW v, NEW m, NEW r, NEW back, SetValueIn(t, v, m, r, back),
         \/ back = 0 /\ r = rec
         \/ frames = <<>> /\ back = rec,
         locks' = locks \/ frames = <<>>
  PROVE  BrowseInv'
<1> USE DEF BrowseInv
<1>1. CASE UNCHANGED <<list, rec, event, frames>>
  BY <1>1, KeepStep DEF list, RowsMapped
<1>2. CASE Reset /\ OnChange("change", r, back)
  BY <1>2, PushStep DEF Reset, RowsMapped
<1>3. ASSUME NEW q, NEW s(_), DrawFrom(t, q, s), OnChange("set", r, back)  PROVE BrowseInv'
  BY <1>3, PushStep DEF DrawFrom, RowsMapped
<1> QED  BY <1>1, <1>2, <1>3 DEF SetValueIn

LEMMA SetValueStep ==
  ASSUME BrowseInv, NEW v, SetBrowseValue(v)
  PROVE  BrowseInv'
<1>1. Grown /\ changes' \in Nat
  BY SameTable DEF SetBrowseValue, BrowseInv, Blocks, Typed, others
<1> QED  BY <1>1, SetStep DEF SetBrowseValue, others

LEMMA DeleteStepInv ==
  ASSUME BrowseInv, Delete
  PROVE  BrowseInv'
<1>1. frames = <<>> /\ UNCHANGED <<home, sync, changes, strayed>> /\ changes' \in Nat
  BY DEF Delete, Idle, others, BrowseInv, Blocks, Typed
<1>2. table \in Table
  BY DEF BrowseInv, Blocks, Typed
<1> DEFINE gone == [table EXCEPT !.deleted = @ \cup ({Value} \cap 1..table.last)]
<1>3. gone \in Table /\ gone.last = table.last /\ table.last \in Nat
  BY <1>2, BrowseAssumption DEF Table, BrowseBounds
<1>4. PICK t, v, next : /\ DeleteIn(t, v, next)
                        /\ t = table \/ t = gone
  BY DEF Delete
<1>5. Grown
  <2>1. table' = t
    BY <1>4 DEF DeleteIn
  <2> HIDE DEF gone
  <2> QED  BY <1>2, <1>3, <1>4, <2>1 DEF Grown
<1>6. PICK r : UNCHANGED <<list, rec, event, frames, halt>> \/ SetValueIn(t, r, row, r, rec)
  BY <1>4 DEF DeleteIn
<1>7. CASE UNCHANGED <<list, rec, event, frames, halt>>
  BY <1>1, <1>5, <1>7, KeepStep DEF BrowseInv, RowsMapped, list
<1>8. CASE SetValueIn(t, r, row, r, rec)
  BY <1>1, <1>5, <1>8, SetStep
<1> QED  BY <1>6, <1>7, <1>8

\* Alt+A; with n = 0 no other station has appended meanwhile.
LEMMA AppendStep ==
  ASSUME BrowseInv, NEW n \in {0, 1}, NEW hidden, AppendRecord(n, hidden)
  PROVE  BrowseInv'
<1> DEFINE new == table.last + 1 + n
           t   == [table EXCEPT !.last = new, !.hidden = @ \cup hidden]
<1>1. /\ frames = <<>> /\ UNCHANGED <<home, sync, changes, strayed>>
      /\ OnChange("change", rec, 0) /\ table' = t /\ new <= MaxRecords /\ hidden \subseteq {new}
  BY DEF AppendRecord, Idle, others
<1>2. table \in Table /\ changes \in Nat /\ table.last \in 1..MaxRecords /\ MaxRecords \in Nat
  BY BrowseAssumption DEF BrowseInv, Blocks, Typed, Table, BrowseBounds
<1>3. new \in 1..MaxRecords /\ table.last <= new
  BY <1>1, <1>2
<1>4. Grown
  <2> HIDE DEF new
  <2>1. t \in Table /\ t.last = new
    BY <1>1, <1>2, <1>3 DEF Table
  <2> QED  BY <1>1, <1>3, <2>1 DEF Grown
<1>5. Blocks'
  BY <1>1, <1>2, <1>4, PushStep DEF BrowseInv
<1>6. RowsMapped'
  <2> SUFFICES ASSUME ~drift'  PROVE recMap' = rows'
    BY DEF RowsMapped
  <2>1. n = 0 /\ (rows # <<>> \/ ~drift)
    <3>1. drift' = (n > 0 \/ (rows = <<>> /\ drift))
      BY DEF AppendRecord
    <3>2. ~(n > 0) /\ ~(rows = <<>> /\ drift)
      BY <3>1, Zenon
    <3> QED  BY <3>2
  <2>2. NewRecord = new
    BY <1>2, <2>1 DEF NewRecord
  <2>3. rows = <<>> => recMap = <<>>
    BY <2>1 DEF BrowseInv, RowsMapped
  <2> QED  BY <2>2, <2>3 DEF AppendRecord
<1> QED  BY <1>5, <1>6 DEF BrowseInv

-------------------------------------------------------------------------------
(* The edit in place.                                                      *)

\* A frame on top of those in progress; the others stay.
LEMMA PushShape ==
  ASSUME frames \in Seq(Frame), NEW kind \in Kinds, NEW back \in Nat, NEW nrec \in Nat,
         Push(kind, back, nrec)
  PROVE  /\ frames' \in Seq(Frame)
         /\ DOMAIN frames' = 1..(Len(frames) + 1) /\ frames' # <<>>
         /\ frames'[Len(frames) + 1].kind = kind
         /\ frames'[Len(frames) + 1].back = back /\ frames'[Len(frames) + 1].nrec = nrec
         /\ \A k \in 1..Len(frames) : frames'[k] = frames[k]
<1> DEFINE new == [kind |-> kind, back |-> back, nrec |-> nrec, moved |-> FALSE]
<1>1. new \in Frame /\ new.kind = kind /\ new.back = back /\ new.nrec = nrec
  BY DEF Frame
<1>2. frames' = Append(frames, new)
  BY DEF Push
<1> HIDE DEF new
<1>3. /\ frames' \in Seq(Frame) /\ DOMAIN frames' = 1..(Len(frames) + 1)
      /\ frames'[Len(frames) + 1] = new
      /\ \A k \in 1..Len(frames) : frames'[k] = frames[k]
  BY <1>1, <1>2, AppendProperties
<1>4. Len(frames) + 1 \in 1..(Len(frames) + 1)
  OBVIOUS
<1> QED  BY <1>1, <1>3, <1>4

\* The innermost frame.
LEMMA InnerShape ==
  ASSUME BrowseInv, Inner.kind # "none"
  PROVE  /\ frames # <<>> /\ Inner = frames[Len(frames)] /\ Len(frames) \in DOMAIN frames
         /\ Len(frames) \in Nat \ {0} /\ frames \in Seq(Frame)
         /\ Inner.kind \in Edits => Len(frames) = 1
         /\ Inner.kind = "valid" => Len(frames) = 2 /\ frames[1].kind = "edit"
<1>1. frames # <<>> /\ Inner = frames[Len(frames)]
  BY DEF Inner, NoFrame, Last
<1>2. frames \in Seq(Frame)
  BY DEF BrowseInv, Blocks, Typed
<1>3. Len(frames) \in DOMAIN frames /\ Len(frames) \in Nat \ {0}
  BY <1>1, <1>2
<1>4. Nested
  BY DEF BrowseInv, Blocks
<1>5. Inner.kind \in Edits => Len(frames) = 1
  <2>1. Len(frames) > 1 => Inner.kind \notin Edits
    BY <1>1, <1>3, <1>4 DEF Nested
  <2>2. ASSUME NEW n \in Nat \ {0}  PROVE n > 1 \/ n = 1
    OBVIOUS
  <2>3. Len(frames) > 1 \/ Len(frames) = 1
    BY <1>3, <2>2
  <2> QED  BY <2>1, <2>3
<1>6. Inner.kind = "valid" => Len(frames) = 2 /\ frames[1].kind = "edit"
  BY <1>1, <1>3, <1>4 DEF Nested
<1> QED  BY <1>1, <1>2, <1>3, <1>5, <1>6

LEMMA EditStartStep ==
  ASSUME BrowseInv, EditStart
  PROVE  BrowseInv'
<1>1. /\ frames = <<>> /\ UNCHANGED <<table, rows, recMap, drift, home, sync, changes, strayed>>
      /\ rec' = GoTo(table, Value) /\ Push("when", rec, rec')
      /\ Shared => rec' \in locks'
  BY DEF EditStart, Idle, list, others
<1>2. table.last \in Nat /\ frames \in Seq(Frame)
  BY BrowseAssumption DEF BrowseInv, Blocks, Typed, Table, BrowseBounds
<1>3. rec' \in 1..Eof(table)
  BY <1>1, <1>2, GoToShape
<1>4. rec \in 1..Eof(table) /\ (~sync => rec = home)
  BY <1>1 DEF BrowseInv, Blocks, Pointer, GoesBack
<1>5. /\ rec \in Nat /\ rec' \in Nat /\ rec # 0 /\ rec' # 0
      /\ rec <= Eof(table) /\ rec' <= Eof(table)
  BY <1>2, <1>3, <1>4 DEF Eof
<1>6. /\ frames' \in Seq(Frame) /\ DOMAIN frames' = 1..1 /\ frames' # <<>>
      /\ frames'[1].kind = "when" /\ frames'[1].back = rec /\ frames'[1].nrec = rec'
  <2>1. "when" \in Kinds /\ Len(frames) = 0
    BY <1>1 DEF Kinds
  <2>2. /\ frames' \in Seq(Frame)
        /\ DOMAIN frames' = 1..(Len(frames) + 1) /\ frames' # <<>>
        /\ frames'[Len(frames) + 1].kind = "when"
        /\ frames'[Len(frames) + 1].back = rec /\ frames'[Len(frames) + 1].nrec = rec'
    BY <1>1, <1>2, <1>5, <2>1, PushShape
  <2>3. Len(frames) + 1 = 1
    BY <2>1
  <2> QED  BY <2>2, <2>3
<1>7. Typed'
  BY <1>1, <1>6 DEF BrowseInv, Blocks, Typed, Eof
<1>8. Nested'
  BY <1>1, <1>5, <1>6 DEF Nested, Eof
<1>9. Pointer'
  BY <1>1, <1>4, <1>5, <1>6 DEF Pointer, GoesBack
<1>10. Writing'
  BY <1>1, <1>6 DEF BrowseInv, Blocks, Writing
<1>11. Locked'
  BY <1>1, <1>6 DEF Locked
<1>12. RowsMapped'
  BY <1>1 DEF BrowseInv, RowsMapped
<1> QED  BY <1>7, <1>8, <1>9, <1>10, <1>11, <1>12 DEF BrowseInv, Blocks

LEMMA EditOpenStep ==
  ASSUME BrowseInv, EditOpen
  PROVE  BrowseInv'
<1> DEFINE edit == [Inner EXCEPT !.kind = "edit", !.moved = FALSE]
<1>1. /\ Inner.kind = "when"
      /\ UNCHANGED <<table, rows, recMap, drift, locks, home, sync, changes, strayed>>
      /\ rec' = GoTo(table, Inner.nrec) /\ frames' = Front(frames) \o <<edit>>
  BY DEF EditOpen, list, others
<1>2. /\ frames # <<>> /\ Inner = frames[1] /\ Len(frames) = 1 /\ frames \in Seq(Frame)
      /\ 1 \in DOMAIN frames
  BY <1>1, InnerShape DEF Edits
<1>3. Inner \in Frame
  BY <1>2
<1>4. /\ edit \in Frame /\ edit.kind = "edit" /\ edit.back = frames[1].back
      /\ edit.nrec = frames[1].nrec
  BY <1>2, <1>3 DEF Frame, Kinds
<1>5. table.last \in Nat /\ frames[1].back \in Nat /\ frames[1].nrec \in Nat
  BY <1>2, FrameShape, BrowseAssumption DEF BrowseInv, Blocks, Typed, Table, BrowseBounds
<1>6. /\ frames[1].back <= Eof(table) /\ frames[1].nrec <= Eof(table)
      /\ frames[1].back # 0 /\ frames[1].nrec # 0
  BY <1>1, <1>2 DEF BrowseInv, Blocks, Nested, Edits
<1>7. rec' = frames[1].nrec
  BY <1>1, <1>2, <1>5, <1>6, GoToShape DEF Eof
<1>8. frames' = <<edit>>
  <2> HIDE DEF edit
  <2>1. Len(Front(frames)) = 0 /\ Front(frames) \in Seq(Frame)
    BY <1>2, FrontShape
  <2>2. Front(frames) = <<>>
    BY <2>1
  <2> QED  BY <1>1, <1>4, <2>2
<1> HIDE DEF edit
<1>9. /\ frames' \in Seq(Frame) /\ DOMAIN frames' = 1..1 /\ frames' # <<>> /\ frames'[1] = edit
  BY <1>4, <1>8
<1>10. Typed'
  BY <1>1, <1>9 DEF BrowseInv, Blocks, Typed, Eof
<1>11. Nested'
  BY <1>1, <1>4, <1>6, <1>9 DEF Nested, Eof
<1>12. Pointer'
  BY <1>1, <1>2, <1>4, <1>6, <1>9 DEF BrowseInv, Blocks, Pointer, GoesBack
<1>13. Writing'
  BY <1>1, <1>4, <1>7, <1>9 DEF BrowseInv, Blocks, Writing
<1>14. Locked'
  BY <1>1, <1>2, <1>4, <1>9 DEF BrowseInv, Blocks, Locked, Edits
<1>15. RowsMapped'
  BY <1>1 DEF BrowseInv, RowsMapped
<1> QED  BY <1>10, <1>11, <1>12, <1>13, <1>14, <1>15 DEF BrowseInv, Blocks

LEMMA EditEndStep ==
  ASSUME BrowseInv, EditRefused \/ EditEscape
  PROVE  BrowseInv'
<1>1. /\ Inner.kind \in Edits /\ Inner.kind # "none"
      /\ UNCHANGED <<table, rows, recMap, drift, home, sync, changes, strayed>>
      /\ rec' = GoTo(table, Inner.back) /\ frames' = Front(frames)
  BY DEF EditRefused, EditEscape, Edits, Pop, list, others
<1>2. /\ frames # <<>> /\ Inner = frames[1] /\ Len(frames) = 1 /\ frames \in Seq(Frame)
      /\ 1 \in DOMAIN frames
  BY <1>1, InnerShape
<1>3. frames' = <<>>
  <2>1. Len(Front(frames)) = 0 /\ Front(frames) \in Seq(Frame)
    BY <1>2, FrontShape
  <2> QED  BY <1>1, <2>1
<1>4. GoesBack
  BY <1>1, <1>2 DEF GoesBack, BrowseInv, Blocks, Nested
<1>5. Grown /\ changes' \in Nat /\ ~strayed'
  BY <1>1, SameTable DEF BrowseInv, Blocks, Typed, Writing
<1>6. Blocks'
  BY <1>1, <1>2, <1>3, <1>4, <1>5, LastReturn DEF BrowseInv
<1> QED  BY <1>1, <1>6 DEF BrowseInv, RowsMapped

LEMMA EditValidateStep ==
  ASSUME BrowseInv, EditValidate
  PROVE  BrowseInv'
<1>1. /\ Inner.kind = "edit" /\ Push("valid", 0, 0)
      /\ UNCHANGED <<table, rec, rows, recMap, drift, locks, home, sync, changes, strayed>>
  BY DEF EditValidate, list, others
<1>2. /\ frames # <<>> /\ Inner = frames[1] /\ Len(frames) = 1 /\ frames \in Seq(Frame)
      /\ 1 \in DOMAIN frames
  BY <1>1, InnerShape DEF Edits
<1>3. /\ frames' \in Seq(Frame) /\ DOMAIN frames' = 1..2 /\ frames' # <<>>
      /\ frames'[2].kind = "valid" /\ frames'[2].back = 0 /\ frames'[2].nrec = 0
      /\ frames'[1] = frames[1]
  <2>1. "valid" \in Kinds /\ 0 \in Nat
    BY DEF Kinds
  <2>2. /\ frames' \in Seq(Frame)
        /\ DOMAIN frames' = 1..(Len(frames) + 1) /\ frames' # <<>>
        /\ frames'[Len(frames) + 1].kind = "valid"
        /\ frames'[Len(frames) + 1].back = 0 /\ frames'[Len(frames) + 1].nrec = 0
        /\ \A k \in 1..Len(frames) : frames'[k] = frames[k]
    BY <1>1, <1>2, <2>1, PushShape
  <2>3. Len(frames) + 1 = 2 /\ 1 \in 1..Len(frames)
    BY <1>2
  <2> QED  BY <2>2, <2>3
<1>4. Typed'
  BY <1>1, <1>3 DEF BrowseInv, Blocks, Typed, Eof
<1>5. Nested'
  <2>1. Eof(table) \in Nat
    BY GrownShape, SameTable, <1>1 DEF BrowseInv, Blocks
  <2>2. \A k \in DOMAIN frames' : k \in {1, 2}
    BY <1>3
  <2> QED  BY <1>1, <1>2, <1>3, <2>1, <2>2 DEF BrowseInv, Blocks, Nested, Edits, Eof
<1>6. Pointer'
  BY <1>1, <1>2, <1>3 DEF BrowseInv, Blocks, Pointer, GoesBack, Eof
<1>7. Writing'
  BY <1>1, <1>2, <1>3 DEF BrowseInv, Blocks, Writing
<1>8. Locked'
  BY <1>1, <1>2, <1>3 DEF BrowseInv, Blocks, Locked, Edits
<1>9. RowsMapped'
  BY <1>1 DEF BrowseInv, RowsMapped
<1> QED  BY <1>4, <1>5, <1>6, <1>7, <1>8, <1>9 DEF BrowseInv, Blocks

LEMMA EditInvalidStep ==
  ASSUME BrowseInv, EditInvalid
  PROVE  BrowseInv'
<1>1. /\ Inner.kind = "valid" /\ frames' = Front(frames)
      /\ UNCHANGED <<table, rec, rows, recMap, drift, locks, home, sync, changes, strayed>>
  BY DEF EditInvalid, Pop, list, others
<1>2. Len(frames) > 1
  BY <1>1, InnerShape
<1>3. Grown /\ changes' \in Nat
  BY <1>1, SameTable DEF BrowseInv, Blocks, Typed
<1>4. Blocks'
  BY <1>1, <1>2, <1>3, InnerReturns DEF BrowseInv
<1> QED  BY <1>1, <1>4 DEF BrowseInv, RowsMapped

LEMMA EditSaveStep ==
  ASSUME BrowseInv, NEW hidden \in SUBSET (1..MaxRecords), EditSave(hidden)
  PROVE  BrowseInv'
<1> DEFINE t == [table EXCEPT !.hidden = hidden]
           edit == frames[Len(frames) - 1]
<1>1. /\ Inner.kind = "valid" /\ UNCHANGED <<home, sync, changes>>
      /\ table' = t /\ RefreshIn(t) /\ rec' = GoTo(t, edit.back)
      /\ frames' = SubSeq(frames, 1, Len(frames) - 2)
  BY DEF EditSave, others
<1>2. /\ frames # <<>> /\ Len(frames) = 2 /\ frames \in Seq(Frame) /\ frames[1].kind = "edit"
      /\ Len(frames) - 1 = 1 /\ Len(frames) - 2 = 0 /\ 1 \in DOMAIN frames
  BY <1>1, InnerShape
<1>3. frames' = <<>>
  BY <1>1, <1>2, SubSeqEmpty
<1>4. GoesBack
  BY <1>2 DEF GoesBack, BrowseInv, Blocks, Nested, Edits
<1>5. ~strayed'
  <2>1. strayed' = (strayed \/ (rec # edit.nrec /\ ~edit.moved)) /\ edit = frames[1]
    BY <1>2 DEF EditSave
  <2>2. ~strayed /\ (~frames[1].moved => rec = frames[1].nrec)
    BY <1>2 DEF BrowseInv, Blocks, Writing
  <2> QED  BY <2>1, <2>2, Zenon
<1>6. Grown /\ changes' \in Nat
  <2>1. table \in Table /\ changes \in Nat
    BY DEF BrowseInv, Blocks, Typed
  <2> QED  BY <1>1, <2>1 DEF Grown, Table
<1>7. Blocks'
  BY <1>1, <1>2, <1>3, <1>4, <1>5, <1>6, LastReturn DEF BrowseInv
<1>8. RowsMapped'
  BY <1>1 DEF RefreshIn, DrawFrom, Reset, RowsMapped
<1> QED  BY <1>7, <1>8 DEF BrowseInv

-------------------------------------------------------------------------------
(* Blocks that return, and the program.                                    *)

LEMMA ReturnStep ==
  ASSUME BrowseInv, ReturnChange
  PROVE  BrowseInv'
<1>1. /\ Inner.kind \in {"change", "set"} /\ frames' = Front(frames)
      /\ UNCHANGED <<table, rows, recMap, drift, locks, home, sync, changes, strayed>>
      /\ rec' = IF Inner.back = 0 THEN rec ELSE GoTo(table, Inner.back)
  BY DEF ReturnChange, Pop, list, others
<1>2. /\ frames # <<>> /\ Inner = frames[Len(frames)] /\ Len(frames) \in DOMAIN frames
      /\ Len(frames) \in Nat \ {0} /\ frames \in Seq(Frame)
  BY <1>1, InnerShape
<1>3. Grown /\ changes' \in Nat /\ ~strayed'
  BY <1>1, SameTable DEF BrowseInv, Blocks, Typed, Writing
<1>4. Blocks'
  <2>1. CASE Len(frames) > 1
    <3>1. Inner.back = 0
      BY <1>2, <2>1 DEF BrowseInv, Blocks, Nested
    <3> QED  BY <1>1, <1>3, <2>1, <3>1, InnerReturns DEF BrowseInv
  <2>2. CASE Len(frames) = 1
    <3>1. frames' = <<>> /\ Inner = frames[1]
      <4>1. Len(Front(frames)) = 0 /\ Front(frames) \in Seq(Frame)
        BY <1>2, <2>2, FrontShape
      <4> QED  BY <1>1, <1>2, <2>2, <4>1
    <3>2. CASE Inner.back # 0
      <4>1. GoesBack
        BY <1>2, <3>1, <3>2 DEF GoesBack
      <4> QED  BY <1>1, <1>3, <3>1, <3>2, <4>1, LastReturn DEF BrowseInv
    <3>3. CASE Inner.back = 0
      <4>1. ~GoesBack /\ rec' = rec
        BY <1>1, <3>1, <3>3 DEF GoesBack
      <4>2. frames' \in Seq(Frame) /\ DOMAIN frames' = {}
        BY <3>1, EmptySeq
      <4>3. Typed'
        BY <1>1, <4>2 DEF BrowseInv, Blocks, Typed, Eof
      <4>4. Pointer'
        BY <1>1, <3>1, <4>1 DEF BrowseInv, Blocks, Pointer, GoesBack, Eof
      <4>5. Nested' /\ Writing' /\ Locked'
        BY <1>3, <3>1, <4>2 DEF Nested, Writing, Locked
      <4> QED  BY <4>3, <4>4, <4>5 DEF Blocks
    <3> QED  BY <3>2, <3>3
  <2>3. Len(frames) > 1 \/ Len(frames) = 1
    <3>1. \A n \in Nat \ {0} : n > 1 \/ n = 1
      OBVIOUS
    <3> QED  BY <1>2, <3>1
  <2> QED  BY <2>1, <2>2, <2>3
<1> QED  BY <1>1, <1>4 DEF BrowseInv, RowsMapped

\* The program moves the record pointer: every edit in progress loses its
\* record, and what it goes to counts as its own place unless a block goes back.
LEMMA GoesStep ==
  ASSUME BrowseInv, NEW r, ProgramGoes(r)
  PROVE  BrowseInv'
<1> DEFINE f(k) == [frames[k] EXCEPT !.moved = TRUE]
<1>1. /\ UNCHANGED <<table, rows, recMap, drift, locks, sync, changes, strayed>>
      /\ rec' = GoTo(table, r) /\ frames' = [k \in DOMAIN frames |-> f(k)]
      /\ home' = IF \A k \in DOMAIN frames : frames[k].back = 0 THEN rec' ELSE home
  BY DEF ProgramGoes, list, others
<1>2. /\ frames \in Seq(Frame) /\ table.last \in Nat /\ home \in 1..Eof(table)
      /\ frames # <<>> <=> 1 \in DOMAIN frames
  BY BrowseAssumption DEF BrowseInv, Blocks, Typed, Table, BrowseBounds
<1>3. rec' \in 1..Eof(table)
  BY <1>1, <1>2, GoToShape
<1>4. \A k \in DOMAIN frames :
        /\ f(k) \in Frame /\ f(k).kind = frames[k].kind /\ f(k).back = frames[k].back
        /\ f(k).nrec = frames[k].nrec /\ f(k).moved
  <2> SUFFICES ASSUME NEW k \in DOMAIN frames
               PROVE  /\ f(k) \in Frame /\ f(k).kind = frames[k].kind /\ f(k).back = frames[k].back
                      /\ f(k).nrec = frames[k].nrec /\ f(k).moved
    OBVIOUS
  <2>1. frames[k] \in Frame
    BY <1>2
  <2> QED  BY <2>1 DEF Frame
<1> HIDE DEF f
<1>5. /\ frames' \in Seq(Frame) /\ DOMAIN frames' = DOMAIN frames
      /\ \A k \in DOMAIN frames : frames'[k] = f(k)
  BY <1>1, <1>2, <1>4
<1>6. \A k \in DOMAIN frames :
        /\ frames'[k].kind = frames[k].kind /\ frames'[k].back = frames[k].back
        /\ frames'[k].nrec = frames[k].nrec /\ frames'[k].moved
  BY <1>4, <1>5
<1>7. frames' # <<>> <=> frames # <<>>
  BY <1>2, <1>5
<1>8. GoesBack' <=> GoesBack
  BY <1>2, <1>6, <1>7 DEF GoesBack
<1>9. GoesBack <=> \E k \in DOMAIN frames : frames[k].back # 0
  <2>1. DOMAIN frames = 1..Len(frames) /\ Len(frames) \in Nat
    BY <1>2
  <2>2. ASSUME NEW k \in DOMAIN frames, frames[k].back # 0  PROVE frames # <<>> /\ frames[1].back # 0
    <3>1. Nested
      BY DEF BrowseInv, Blocks
    <3>2. ~(k > 1)
      BY <2>2, <3>1 DEF Nested
    <3>3. k = 1
      BY <2>1, <3>2
    <3> QED  BY <1>2, <2>2, <3>3
  <2> QED  BY <1>2, <2>2 DEF GoesBack
<1>10. Typed'
  BY <1>1, <1>2, <1>3, <1>5 DEF BrowseInv, Blocks, Typed, Eof
<1>11. Nested'
  <2> SUFFICES ASSUME NEW k \in DOMAIN frames'
               PROVE  /\ frames'[k].back <= Eof(table) /\ frames'[k].nrec <= Eof(table)
                      /\ k > 1 => frames'[k].back = 0 /\ frames'[k].kind \notin Edits
                      /\ frames'[k].kind = "valid" => k = 2 /\ frames'[1].kind = "edit"
                      /\ frames'[k].kind \in Edits => frames'[k].back # 0 /\ frames'[k].nrec # 0
    BY <1>1 DEF Nested, Eof
  <2>1. 1 \in DOMAIN frames
    BY <1>2, <1>5
  <2> QED  BY <1>5, <1>6, <2>1 DEF BrowseInv, Blocks, Nested
<1>12. Pointer'
  <2>1. CASE GoesBack
    <3>1. home' = home /\ frames'[1].back = frames[1].back
      BY <1>1, <1>2, <1>6, <1>9, <2>1 DEF GoesBack
    <3> QED  BY <1>1, <1>8, <2>1, <3>1 DEF BrowseInv, Blocks, Pointer
  <2>2. CASE ~GoesBack
    <3>1. home' = rec'
      BY <1>1, <1>9, <2>2
    <3> QED  BY <1>1, <1>3, <1>8, <2>2, <3>1 DEF Pointer, Eof
  <2> QED  BY <2>1, <2>2
<1>13. Writing'
  BY <1>1, <1>2, <1>6, <1>7 DEF BrowseInv, Blocks, Writing
<1>14. Locked'
  BY <1>1, <1>5, <1>6 DEF BrowseInv, Blocks, Locked
<1>15. RowsMapped'
  BY <1>1 DEF BrowseInv, RowsMapped
<1> QED  BY <1>10, <1>11, <1>12, <1>13, <1>14, <1>15 DEF BrowseInv, Blocks

LEMMA ChangesStep ==
  ASSUME BrowseInv, NEW t, TableChanges(t), t \in Table, table.last <= t.last
  PROVE  BrowseInv'
<1>1. /\ UNCHANGED <<rec, rows, recMap, drift, sync, frames, locks, home, strayed>>
      /\ table' = t /\ changes' = changes + 1
  BY DEF TableChanges
<1>2. Grown /\ changes' \in Nat
  BY <1>1 DEF BrowseInv, Blocks, Typed, Grown
<1>3. Blocks'
  BY <1>1, <1>2, KeepStep DEF BrowseInv
<1> QED  BY <1>1, <1>3 DEF BrowseInv, RowsMapped

LEMMA ProgramStep ==
  ASSUME BrowseInv, BrowseProgram
  PROVE  BrowseInv'
<1>1. /\ table \in Table /\ table.last \in 1..MaxRecords /\ MaxRecords \in Nat
      /\ Filters \subseteq SUBSET (1..MaxRecords)
  BY BrowseAssumption DEF BrowseInv, Blocks, Typed, Table, BrowseBounds
<1>2. CASE Refresh \/ ReturnChange
  BY <1>2, RefreshStep, ReturnStep
<1>3. CASE \E r \in Goals : SetBrowseValue(r) \/ ProgramGoes(r)
  BY <1>3, SetValueStep, GoesStep
<1>4. ASSUME NEW d \in SUBSET (1..MaxRecords), TableChanges([table EXCEPT !.deleted = d])  PROVE BrowseInv'
  <2> DEFINE t == [table EXCEPT !.deleted = d]
  <2>1. t \in Table /\ table.last <= t.last
    BY <1>1 DEF Table
  <2> QED  BY <1>4, <2>1, ChangesStep
<1>5. ASSUME NEW h \in SUBSET (1..MaxRecords), TableChanges([table EXCEPT !.hidden = h])  PROVE BrowseInv'
  <2> DEFINE t == [table EXCEPT !.hidden = h]
  <2>1. t \in Table /\ table.last <= t.last
    BY <1>1 DEF Table
  <2> QED  BY <1>5, <2>1, ChangesStep
<1>6. ASSUME table.last < MaxRecords, TableChanges([table EXCEPT !.last = table.last + 1])  PROVE BrowseInv'
  <2> DEFINE n == table.last + 1
             t == [table EXCEPT !.last = n]
  <2>1. n \in 1..MaxRecords /\ table.last <= n
    BY <1>1, <1>6
  <2> HIDE DEF n
  <2>2. t \in Table /\ table.last <= t.last
    BY <1>1, <2>1 DEF Table
  <2> HIDE DEF t
  <2>3. TableChanges(t)
    BY <1>6 DEF t, n
  <2> QED  BY <2>2, <2>3, ChangesStep
<1>7. ASSUME NEW r \in 1..table.last
      PROVE  /\ table.deleted \cup {r} \in SUBSET (1..MaxRecords)
             /\ table.deleted \ {r} \in SUBSET (1..MaxRecords)
  BY <1>1 DEF Table
<1>8. \A h \in Filters : h \cap 1..table.last \in SUBSET (1..MaxRecords)
  BY <1>1
<1> QED  BY <1>2, <1>3, <1>4, <1>5, <1>6, <1>7, <1>8 DEF BrowseProgram

LEMMA EditingStep ==
  ASSUME BrowseInv, Editing
  PROVE  BrowseInv'
<1>1. table.hidden \in SUBSET (1..MaxRecords) /\ Filters \subseteq SUBSET (1..MaxRecords)
  BY BrowseAssumption DEF BrowseInv, Blocks, Typed, Table, BrowseBounds
<1>2. \A h \in {table.hidden} \cup {f \cap 1..table.last : f \in Filters} : h \in SUBSET (1..MaxRecords)
  BY <1>1
<1>3. CASE \E h \in {table.hidden} \cup {f \cap 1..table.last : f \in Filters} : EditSave(h)
  BY <1>2, <1>3, EditSaveStep
<1> QED  BY <1>3, EditStartStep, EditOpenStep, EditEndStep, EditValidateStep, EditInvalidStep
         DEF Editing

LEMMA UserStep ==
  ASSUME BrowseInv, UserKeys
  PROVE  BrowseInv'
<1>1. CASE \E n \in IF Shared THEN {0, 1} ELSE {0}, h \in SUBSET {table.last + 1} : AppendRecord(n, h)
  BY <1>1, AppendStep
<1> QED  BY <1>1, CommandsStep, RefreshStep, DeleteStepInv DEF UserKeys

-------------------------------------------------------------------------------
(* The page through the steps.                                             *)

\* The filter and the deleted flags are about records of the table.
Within == table.hidden \subseteq 1..table.last /\ table.deleted \subseteq 1..table.last

\* Once all blocks have returned the event type is no longer that of Value.
Setting == event = "BROWSE_ONCHANGE" => \E k \in DOMAIN frames : frames[k].kind = "set"

PagesInv == BrowseInv /\ Within /\ Setting /\ PageInOrder

LEMMA WithinStep ==
  ASSUME BrowseInv, Within, BrowseNext
  PROVE  Within'
<1>1. table \in Table /\ table.last \in Nat
  BY DEF BrowseInv, Blocks, Typed, Table
<1>2. ASSUME UNCHANGED table  PROVE Within'
  BY <1>2 DEF Within
<1>3. ASSUME NEW q, table' = [table EXCEPT !.order = q]  PROVE Within'
  BY <1>1, <1>3 DEF Within, Table
<1>4. ASSUME NEW h, table' = [table EXCEPT !.hidden = h], h \subseteq 1..table.last  PROVE Within'
  BY <1>1, <1>4 DEF Within, Table
<1>5. ASSUME NEW d, table' = [table EXCEPT !.deleted = d], d \subseteq 1..table.last  PROVE Within'
  BY <1>1, <1>5 DEF Within, Table
<1>6. ASSUME NEW n \in Nat, NEW h, table' = [table EXCEPT !.last = n, !.hidden = h],
             table.last <= n, h \subseteq 1..n
      PROVE  Within'
  <2>1. table'.last = n /\ table'.hidden = h /\ table'.deleted = table.deleted
    BY <1>1, <1>6 DEF Table
  <2>2. 1..table.last \subseteq 1..n
    BY <1>1, <1>6
  <2> QED  BY <1>6, <2>1, <2>2 DEF Within
<1>7. CASE Delete
  <2>1. \/ table' = table
        \/ table' = [table EXCEPT !.deleted = @ \cup ({Value} \cap 1..table.last)]
    BY <1>7 DEF Delete, DeleteIn
  <2>2. table.deleted \cup ({Value} \cap 1..table.last) \subseteq 1..table.last
    BY DEF Within
  <2> QED  BY <1>2, <1>5, <2>1, <2>2
<1>8. CASE SetOrder
  BY <1>3, <1>8 DEF SetOrder
<1>9. CASE \E n \in IF Shared THEN {0, 1} ELSE {0}, h \in SUBSET {table.last + 1} : AppendRecord(n, h)
  <2>1. PICK n \in {0, 1}, hidden \in SUBSET {table.last + 1} : AppendRecord(n, hidden)
    BY <1>9
  <2> DEFINE new == table.last + 1 + n
  <2>2. /\ table' = [table EXCEPT !.last = new, !.hidden = table.hidden \cup hidden]
        /\ hidden \subseteq {new}
    BY <2>1 DEF AppendRecord
  <2>3. new \in Nat /\ table.last <= new /\ new \in 1..new /\ 1..table.last \subseteq 1..new
    BY <1>1
  <2> HIDE DEF new
  <2>4. table.hidden \cup hidden \subseteq 1..new
    BY <2>2, <2>3 DEF Within
  <2> QED  BY <1>6, <2>2, <2>3, <2>4
<1>10. CASE Editing
  <2>1. CASE \E h \in {table.hidden} \cup {f \cap 1..table.last : f \in Filters} : EditSave(h)
    <3>1. PICK h \in {table.hidden} \cup {f \cap 1..table.last : f \in Filters} : EditSave(h)
      BY <2>1
    <3>2. table' = [table EXCEPT !.hidden = h]
      BY <3>1 DEF EditSave
    <3>3. h \subseteq 1..table.last
      BY DEF Within
    <3> QED  BY <1>4, <3>2, <3>3
  <2>2. CASE EditStart \/ EditOpen \/ EditRefused \/ EditEscape \/ EditValidate \/ EditInvalid
    BY <1>2, <2>2 DEF EditStart, EditOpen, EditRefused, EditEscape, EditValidate, EditInvalid
  <2> QED  BY <1>10, <2>1, <2>2 DEF Editing
<1>11. CASE BrowseProgram
  <2>1. CASE Refresh \/ ReturnChange \/ (\E q \in Goals : SetBrowseValue(q) \/ ProgramGoes(q))
    BY <1>2, <2>1 DEF Refresh, ReturnChange, SetBrowseValue, ProgramGoes
  <2>2. ASSUME NEW r \in 1..table.last,
               \/ TableChanges([table EXCEPT !.deleted = @ \cup {r}])
               \/ TableChanges([table EXCEPT !.deleted = @ \ {r}])
        PROVE  Within'
    <3>1. table.deleted \cup {r} \subseteq 1..table.last /\ table.deleted \ {r} \subseteq 1..table.last
      BY DEF Within
    <3> QED  BY <1>5, <2>2, <3>1 DEF TableChanges
  <2>3. ASSUME NEW h, TableChanges([table EXCEPT !.hidden = h \cap 1..table.last])  PROVE Within'
    BY <1>4, <2>3 DEF TableChanges
  <2>4. ASSUME TableChanges([table EXCEPT !.last = @ + 1])  PROVE Within'
    <3> DEFINE n == table.last + 1
    <3>1. n \in Nat /\ table.last <= n /\ 1..table.last \subseteq 1..n
      BY <1>1
    <3>2. table' = [table EXCEPT !.last = n]
      BY <2>4 DEF TableChanges
    <3> HIDE DEF n
    <3>3. table'.last = n /\ table'.hidden = table.hidden /\ table'.deleted = table.deleted
      BY <1>1, <3>2 DEF Table
    <3> QED  BY <3>1, <3>3 DEF Within
  <2> QED  BY <1>11, <2>1, <2>2, <2>3, <2>4 DEF BrowseProgram
<1>12. CASE AppendFails \/ (\E k \in DOMAIN rows : ClickRow(k))
            \/ Home \/ End \/ Up \/ Down \/ PageUp \/ PageDown
  BY <1>2, <1>12 DEF AppendFails, Command, Home, End, Up, Down, PageUp, PageDown, ClickRow
<1> QED  BY <1>7, <1>8, <1>9, <1>10, <1>11, <1>12 DEF BrowseNext, UserKeys

LEMMA SettingStep ==
  ASSUME BrowseInv, Setting, BrowseNext
  PROVE  Setting'
<1>1. frames \in Seq(Frame) /\ sync \in BOOLEAN /\ Len(frames) \in Nat /\ DOMAIN frames = 1..Len(frames)
  BY DEF BrowseInv, Blocks, Typed
<1>2. ASSUME UNCHANGED <<event, frames>>  PROVE Setting'
  BY <1>2 DEF Setting
<1>3. ASSUME event' # "BROWSE_ONCHANGE"  PROVE Setting'
  BY <1>3 DEF Setting
<1>4. ASSUME NEW kind \in {"change", "set"}, NEW r, NEW back \in Nat, OnChange(kind, r, back),
             kind = "set" \/ UNCHANGED event
      PROVE  Setting'
  <2>1. /\ DOMAIN frames' = 1..(Len(frames) + 1) /\ frames'[Len(frames) + 1].kind = kind
        /\ \A k \in DOMAIN frames : frames'[k].kind = frames[k].kind
    BY <1>1, <1>4, OnChangeShape
  <2>2. Len(frames) + 1 \in DOMAIN frames' /\ DOMAIN frames \subseteq DOMAIN frames'
    BY <1>1, <2>1
  <2> QED  BY <1>4, <2>1, <2>2 DEF Setting
<1>5. ASSUME NEW t, NEW v, NEW m, NEW r, NEW back \in Nat, SetValueIn(t, v, m, r, back)
      PROVE  Setting'
  <2>1. CASE UNCHANGED <<list, rec, event, frames>>
    BY <1>2, <2>1
  <2>2. CASE OnChange("change", r, back) /\ UNCHANGED event
    BY <1>4, <2>2
  <2>3. CASE OnChange("set", r, back)
    BY <1>4, <2>3
  <2> QED  BY <1>5, <2>1, <2>2, <2>3 DEF SetValueIn
<1>6. CASE Command
  BY <1>4, <1>6 DEF Command
<1>7. CASE Delete
  <2>1. frames = <<>> /\ rec \in Nat
    <3>1. frames = <<>>
      BY <1>7 DEF Delete, Idle
    <3>2. rec \in 1..Eof(table)
      BY <3>1 DEF BrowseInv, Blocks, Pointer, GoesBack
    <3> QED  BY <3>1, <3>2
  <2>2. PICK t, v, next : DeleteIn(t, v, next)
    BY <1>7 DEF Delete
  <2>3. PICK r : UNCHANGED <<list, rec, event, frames, halt>> \/ SetValueIn(t, r, row, r, rec)
    BY <2>2 DEF DeleteIn
  <2> QED  BY <1>2, <1>5, <2>1, <2>3
<1>8. CASE SetOrder \/ AppendFails \/ Refresh \/ \E t : TableChanges(t)
  BY <1>2, <1>8 DEF SetOrder, AppendFails, Refresh, TableChanges
<1>9. ASSUME NEW n, NEW hidden, AppendRecord(n, hidden)  PROVE Setting'
  <2>1. OnChange("change", rec, 0) /\ UNCHANGED event
    BY <1>9 DEF AppendRecord
  <2> QED  BY <1>4, <2>1
<1>10. CASE EditStart \/ EditOpen \/ EditRefused \/ EditValidate \/ EditInvalid \/ \E h : EditSave(h)
  BY <1>3, <1>10 DEF EditStart, EditOpen, EditRefused, EditValidate, EditInvalid, EditSave
<1>11. CASE EditEscape
  <2>1. Inner.kind = "edit" /\ UNCHANGED event
    BY <1>11 DEF EditEscape
  <2>2. Inner = frames[Len(frames)] /\ Len(frames) = 1
    BY <2>1, InnerShape DEF Edits
  <2>3. event # "BROWSE_ONCHANGE"
    BY <1>1, <2>1, <2>2 DEF Setting
  <2> QED  BY <1>3, <2>1, <2>3
<1>12. CASE ReturnChange
  <2>1. /\ Inner.kind \in {"change", "set"} /\ frames' = Front(frames)
        /\ event' = IF Inner.kind = "set" THEN "" ELSE event
    BY <1>12 DEF ReturnChange, Pop
  <2>2. frames # <<>> /\ Inner = frames[Len(frames)]
    BY <2>1, InnerShape
  <2>3. CASE Inner.kind = "set"
    BY <1>3, <2>1, <2>3
  <2>4. CASE Inner.kind = "change"
    <3>1. /\ frames' \in Seq(Frame) /\ Len(frames') = Len(frames) - 1
          /\ \A k \in 1..(Len(frames) - 1) : frames'[k] = frames[k]
      BY <1>1, <2>1, <2>2, FrontShape
    <3>2. \A k \in DOMAIN frames : frames[k].kind = "set" => k \in 1..(Len(frames) - 1)
      BY <1>1, <2>2, <2>4
    <3>3. DOMAIN frames' = 1..(Len(frames) - 1)
      BY <3>1
    <3> QED  BY <2>1, <2>4, <3>1, <3>2, <3>3 DEF Setting
  <2> QED  BY <2>1, <2>3, <2>4
<1>13. ASSUME NEW q, SetBrowseValue(q)  PROVE Setting'
  <2>1. SetValueIn(table, q, PageLength \div 2, rec, 0)
    BY <1>13 DEF SetBrowseValue
  <2> QED  BY <1>5, <2>1
<1>14. ASSUME NEW q, ProgramGoes(q)  PROVE Setting'
  <2>1. UNCHANGED event /\ frames' = [k \in DOMAIN frames |-> [frames[k] EXCEPT !.moved = TRUE]]
    BY <1>14 DEF ProgramGoes
  <2>2. \A k \in DOMAIN frames : frames[k] \in Frame
    BY <1>1
  <2>3. \A k \in DOMAIN frames : [frames[k] EXCEPT !.moved = TRUE].kind = frames[k].kind
    BY <2>2 DEF Frame
  <2>4. DOMAIN frames' = DOMAIN frames /\ \A k \in DOMAIN frames : frames'[k].kind = frames[k].kind
    BY <2>1, <2>3
  <2> QED  BY <2>1, <2>4 DEF Setting
<1>15. CASE UserKeys
  <2>1. CASE Home \/ End \/ Up \/ Down \/ PageUp \/ PageDown \/ \E k \in DOMAIN rows : ClickRow(k)
    BY <1>6, <2>1 DEF Home, End, Up, Down, PageUp, PageDown, ClickRow
  <2> QED  BY <1>7, <1>8, <1>9, <1>15, <2>1 DEF UserKeys
<1>16. CASE Editing
  BY <1>10, <1>11, <1>16 DEF Editing
<1>17. CASE BrowseProgram
  BY <1>8, <1>12, <1>13, <1>14, <1>17 DEF BrowseProgram
<1> QED  BY <1>15, <1>16, <1>17 DEF BrowseNext

LEMMA PageStep ==
  ASSUME PagesInv, table' \in Table, BrowseNext
  PROVE  PageInOrder'
<1>1. /\ table \in Table /\ table.last \in Nat /\ table'.last \in Nat
      /\ table.hidden \subseteq 1..table.last /\ table.deleted \subseteq 1..table.last
  BY DEF PagesInv, BrowseInv, Blocks, Typed, Table, Within
<1>2. ASSUME UNCHANGED <<table, rows, atEnd, fresh>>  PROVE PageInOrder'
  <2>1. Eof(table') = Eof(table) /\ \A x : Forth(table', x) = Forth(table, x)
    BY <1>2
  <2> QED  BY <1>2, <2>1 DEF PagesInv, PageInOrder, Eof
<1>3. ASSUME ~fresh'  PROVE PageInOrder'
  BY <1>3 DEF PageInOrder
<1>4. ASSUME NEW t, NEW r, table' = t, Draws(t, r)  PROVE PageInOrder'
  BY <1>1, <1>4, DrawnInOrder
<1>5. ASSUME NEW t, table' = t, RefreshIn(t)  PROVE PageInOrder'
  <2>1. CASE Reset
    BY <1>3, <2>1 DEF Reset
  <2>2. CASE \E r : Draws(t, r)
    BY <1>4, <1>5, <2>2
  <2> QED  BY <1>5, <2>1, <2>2 DEF RefreshIn, DrawFrom, Draws
<1>6. ASSUME NEW t, table' = t, NEW v, NEW m, NEW r, NEW back, SetValueIn(t, v, m, r, back),
             event # "BROWSE_ONCHANGE" \/ UNCHANGED table
      PROVE  PageInOrder'
  <2>1. CASE event = "BROWSE_ONCHANGE" /\ UNCHANGED list
    BY <1>2, <1>6, <2>1 DEF list
  <2>2. CASE Reset
    BY <1>3, <2>2 DEF Reset
  <2>3. CASE \E q : Draws(t, q)
    BY <1>4, <1>6, <2>3
  <2> QED  BY <1>6, <2>1, <2>2, <2>3 DEF SetValueIn, DrawFrom, Draws
<1>7. CASE Home \/ End \/ Up \/ Down \/ PageUp \/ PageDown \/ \E k \in DOMAIN rows : ClickRow(k)
  <2>1. UNCHANGED table
    BY <1>7 DEF Home, End, Up, Down, PageUp, PageDown, ClickRow, Command
  <2>2. UNCHANGED <<rows, atEnd, fresh>> \/ \E r : Draws(table, r)
    BY <1>7 DEF Home, End, Up, Down, PageUp, PageDown, ClickRow, DrawFrom, Draws
  <2> QED  BY <1>2, <1>4, <2>1, <2>2
<1>8. CASE SetOrder
  BY <1>5, <1>8 DEF SetOrder
<1>9. CASE Delete
  <2>1. event # "BROWSE_ONCHANGE"
    <3>1. frames = <<>>
      BY <1>9 DEF Delete, Idle
    <3> QED  BY <3>1 DEF PagesInv, Setting
  <2>2. PICK t, v, next : /\ DeleteIn(t, v, next)
                          /\ \/ next
                             \/ t = table /\ ~next
                          /\ t.hidden = table.hidden /\ t.last = table.last
    <3> DEFINE gone == [table EXCEPT !.deleted = @ \cup ({Value} \cap 1..table.last)]
    <3>1. DeleteIn(gone, Value, TRUE) \/ DeleteIn(table, Value, FALSE)
      BY <1>9 DEF Delete
    <3>2. gone.hidden = table.hidden /\ gone.last = table.last
      BY <1>1 DEF Table
    <3> HIDE DEF gone
    <3> QED  BY <3>1, <3>2
  <2>3. table' = t
    BY <2>2 DEF DeleteIn
  <2> DEFINE below == Forth(t, v)
             r == IF next THEN IF below = Eof(t) THEN Bottom(t)
                               ELSE IF t.delOn THEN below ELSE Back(t, below)
                  ELSE v
  <2>4. IF r \in t.hidden THEN UNCHANGED <<list, rec, event, frames, halt>>
        ELSE SetValueIn(t, r, row, r, rec)
    BY <2>2 DEF DeleteIn
  <2>5. next => r \notin t.hidden
    <3> SUFFICES ASSUME next  PROVE r \notin t.hidden
      OBVIOUS
    <3>1. r \in Shown(t) \cup {Eof(t)}
      BY <1>1, <2>2, BottomShape, BackShape, ForthShape
    <3> HIDE DEF r
    <3> QED  BY <1>1, <2>2, <3>1 DEF Shown, Eof
  <2> HIDE DEF r
  <2>6. CASE SetValueIn(t, r, row, r, rec)
    BY <1>6, <2>1, <2>3, <2>6
  <2>7. CASE t = table /\ UNCHANGED list
    BY <1>2, <2>3, <2>7 DEF list
  <2> QED  BY <2>2, <2>4, <2>5, <2>6, <2>7
<1>10. CASE AppendFails
  BY <1>2, <1>4, <1>10 DEF AppendFails, DrawFrom, Draws, list
<1>11. ASSUME NEW n \in {0, 1}, NEW hidden, AppendRecord(n, hidden)  PROVE PageInOrder'
  <2> DEFINE page == IF rows = <<>> THEN <<>>
                     ELSE Page(table, Skip(table, Bottom(table), 2 - PageLength))
             new == Eof(table)
             m == Len(page)
  <2> SUFFICES ASSUME fresh'  PROVE PageInOrder'
    BY <1>3
  <2>1. /\ page # <<>> /\ n = 0 /\ hidden = {} /\ table.order # "down" /\ Last(page) # Eof(table)
    <3>1. fresh' = (page # <<>> /\ n = 0 /\ hidden = {} /\ table.order # "down"
                    /\ Last(page) # Eof(table))
      BY <1>11 DEF AppendRecord
    <3> HIDE DEF page
    <3> QED  BY <3>1, Zenon
  <2>2. rows # <<>> /\ page = Page(table, Skip(table, Bottom(table), 2 - PageLength))
    BY <2>1
  <2>3. /\ table' = [table EXCEPT !.last = table.last + 1 + n, !.hidden = @ \cup hidden]
        /\ rows' = Append(page, table.last + 1 + n) /\ atEnd' = (rows # <<>> \/ atEnd)
    BY <1>11 DEF AppendRecord
  <2> HIDE DEF page
  <2>4. /\ page \in Seq(1..new) /\ m \in 1..(PageLength - 1)
        /\ \A k \in 2..m : page[k] = Forth(table, page[k - 1]) /\ page[k] # new
        /\ Forth(table, page[m]) = new
        /\ page[m] # new => \A k \in 1..m : page[k] \in Shown(table)
    BY <1>1, <2>2, LastPage
  <2>5. m \in Nat /\ m >= 1 /\ \A k \in 1..m : page[k] \in 1..table.last
    <3>1. Last(page) = page[m]
      BY DEF Last
    <3> QED  BY <2>1, <2>4, <3>1 DEF Shown
  <2>6. /\ table'.last = table.last + 1 /\ table'.hidden = table.hidden
        /\ table'.deleted = table.deleted /\ table'.delOn = table.delOn /\ table'.order = table.order
    BY <1>1, <2>1, <2>3 DEF Table
  <2>7. \A r \in 1..new : Forth(table', r) = IF r = new THEN Eof(table') ELSE Forth(table, r)
    BY <1>1, <2>1, <2>6, Appended
  <2>8. new = table.last + 1 /\ Eof(table') = new + 1 /\ new \in 1..new
    BY <1>1, <2>6 DEF Eof
  <2>9. rows' = Append(page, new) /\ atEnd'
    <3>1. table.last + 1 + n = new
      BY <1>1, <2>1, <2>8
    <3>2. atEnd'
      BY <2>2, <2>3
    <3> HIDE DEF new
    <3> QED  BY <2>3, <3>1, <3>2
  <2>10. /\ rows' \in Seq(1..new) /\ Len(rows') = m + 1 /\ rows'[m + 1] = new
         /\ \A k \in 1..m : rows'[k] = page[k]
    <3>1. /\ Append(page, new) \in Seq(1..new) /\ Len(Append(page, new)) = m + 1
          /\ Append(page, new)[m + 1] = new /\ \A k \in 1..m : Append(page, new)[k] = page[k]
      BY <2>4, <2>8, AppendProperties
    <3> QED  BY <2>9, <3>1
  <2> HIDE DEF new, m
  <2>11. ASSUME NEW k \in 2..(m + 1)
         PROVE  rows'[k] = Forth(table', rows'[k - 1]) /\ rows'[k] # Eof(table')
    <3>1. k - 1 \in 1..m
      BY <2>5
    <3>2. page[k - 1] \in 1..new /\ page[k - 1] # new /\ rows'[k - 1] = page[k - 1]
      <4>1. page[k - 1] \in 1..table.last
        BY <2>5, <3>1
      <4>2. rows'[k - 1] = page[k - 1]
        BY <2>10, <3>1
      <4> QED  BY <1>1, <2>8, <4>1, <4>2
    <3>3. Forth(table', rows'[k - 1]) = Forth(table, page[k - 1])
      BY <2>7, <3>2
    <3>4. CASE k = m + 1
      BY <2>4, <2>5, <2>8, <2>10, <3>3, <3>4
    <3>5. CASE k # m + 1
      <4>1. k \in 2..m /\ k \in 1..m
        BY <2>5, <3>5
      <4>2. rows'[k] = page[k] /\ page[k] = Forth(table, page[k - 1])
        BY <2>4, <2>10, <4>1
      <4>3. page[k] # new + 1
        BY <1>1, <2>5, <2>8, <4>1
      <4> QED  BY <2>8, <3>3, <4>2, <4>3
    <3> QED  BY <3>4, <3>5
  <2>12. Last(rows') = new /\ rows' # <<>> /\ Forth(table', new) = Eof(table')
    <3>1. Forth(table', new) = Eof(table')
      BY <2>7, <2>8
    <3> QED  BY <2>5, <2>10, <3>1 DEF Last
  <2> QED  BY <2>9, <2>10, <2>11, <2>12 DEF PageInOrder, Eof
<1>12. CASE Editing
  <2>1. CASE \E h : EditSave(h)
    BY <1>5, <2>1 DEF EditSave
  <2>2. CASE EditStart \/ EditOpen \/ EditRefused \/ EditEscape \/ EditValidate \/ EditInvalid
    BY <1>2, <2>2 DEF EditStart, EditOpen, EditRefused, EditEscape, EditValidate, EditInvalid, list
  <2> QED  BY <1>12, <2>1, <2>2 DEF Editing
<1>13. ASSUME NEW q, SetBrowseValue(q)  PROVE PageInOrder'
  <2>1. SetValueIn(table, q, PageLength \div 2, rec, 0) /\ UNCHANGED table
    BY <1>13 DEF SetBrowseValue
  <2> QED  BY <1>6, <2>1
<1>14. CASE Refresh
  BY <1>5, <1>14 DEF Refresh
<1>15. CASE ReturnChange \/ \E r \in Goals : ProgramGoes(r)
  BY <1>2, <1>15 DEF ReturnChange, ProgramGoes, list
<1>16. CASE \E t : TableChanges(t)
  BY <1>3, <1>16 DEF TableChanges
<1>17. CASE UserKeys
  BY <1>7, <1>8, <1>9, <1>10, <1>11, <1>17 DEF UserKeys
<1>18. CASE BrowseProgram
  BY <1>13, <1>14, <1>15, <1>16, <1>18 DEF BrowseProgram
<1> QED  BY <1>12, <1>17, <1>18 DEF BrowseNext

-------------------------------------------------------------------------------
(* The rows through the steps.                                             *)

Sized ==
  /\ \E S : rows \in Seq(S)
  /\ Len(rows) <= PageLength /\ row \in 0..Len(rows)
  /\ fresh => ~drift

CursorInv == PagesInv /\ Sized

LEMMA DrawnSize ==
  ASSUME NEW t, t.last \in Nat, NEW r, Draws(t, r), ~drift',
         row' \in {0, 1, Len(rows')} \/ \E x : row' = RowOf(rows', x)
  PROVE  Sized'
<1>1. PICK n \in 1..PageLength : IsPage(t, r, Page(t, r), n)
  BY PageShape
<1>2. rows' \in Seq({r} \cup 1..Eof(t)) /\ Len(rows') = n /\ PageLength \in Nat
  BY <1>1, BrowseAssumption DEF IsPage, Draws, BrowseBounds
<1>3. \A x : RowOf(rows', x) \in 0..Len(rows')
  BY <1>2, RowOfShape
<1>4. row' \in 0..Len(rows')
  BY <1>2, <1>3
<1> QED  BY <1>2, <1>4 DEF Sized

LEMMA SizedStep ==
  ASSUME CursorInv, BrowseNext, table' \in Table
  PROVE  Sized'
<1>1. table.last \in Nat /\ table'.last \in Nat /\ PageLength \in Nat /\ PageLength >= 2
  BY BrowseAssumption DEF CursorInv, PagesInv, BrowseInv, Blocks, Typed, Table, BrowseBounds
<1>2. ASSUME UNCHANGED rows, row' = row \/ row' \in 1..Len(rows), UNCHANGED <<fresh, drift>> \/ ~fresh'
      PROVE  Sized'
  <2>1. PICK S : rows \in Seq(S)
    BY DEF CursorInv, Sized
  <2>2. row' \in 0..Len(rows)
    BY <1>2, <2>1 DEF CursorInv, Sized
  <2> QED  BY <1>2, <2>1, <2>2 DEF CursorInv, Sized
<1>3. ASSUME UNCHANGED list  PROVE Sized'
  BY <1>2, <1>3 DEF list
<1>4. CASE Reset
  <2>1. rows' = <<>> /\ row' = 0 /\ ~fresh'
    BY <1>4 DEF Reset
  <2>2. <<>> \in Seq({}) /\ Len(<<>>) = 0
    OBVIOUS
  <2> QED  BY <1>1, <2>1, <2>2 DEF Sized
<1>5. ASSUME NEW t, t.last \in Nat, RefreshIn(t)  PROVE Sized'
  <2>1. \/ Reset
        \/ \E r, x : Draws(t, r) /\ ~drift' /\ row' = RowOf(rows', x)
    BY <1>5 DEF RefreshIn, DrawFrom, Draws
  <2> QED  BY <1>4, <1>5, <2>1, DrawnSize
<1>6. ASSUME NEW t, t.last \in Nat, NEW v, NEW m, NEW r, NEW back, SetValueIn(t, v, m, r, back)
      PROVE  Sized'
  <2>1. \/ Reset \/ UNCHANGED list
        \/ \E q, x : Draws(t, q) /\ ~drift' /\ row' = RowOf(rows', x)
    BY <1>6 DEF SetValueIn, DrawFrom, Draws
  <2> QED  BY <1>3, <1>4, <1>6, <2>1, DrawnSize
<1>7. CASE Home \/ End \/ Up \/ Down \/ PageUp \/ PageDown \/ \E k \in DOMAIN rows : ClickRow(k)
  <2>1. \/ /\ UNCHANGED <<rows, fresh, drift>>
           /\ row' = row \/ row' \in 1..Len(rows)
        \/ \E r : /\ Draws(table, r) /\ ~drift'
                  /\ row' \in {0, 1, Len(rows')} \/ \E x : row' = RowOf(rows', x)
    <3>1. ASSUME NEW k, Select(k)  PROVE row' = row \/ row' \in 1..Len(rows)
      BY <3>1 DEF Select
    <3>2. CASE Home
      BY <3>2 DEF Home, DrawFrom, Draws
    <3>3. CASE End
      BY <3>3 DEF End, DrawFrom, Draws
    <3>4. CASE Up
      BY <3>1, <3>4 DEF Up, DrawFrom, Draws
    <3>5. CASE Down
      BY <3>1, <3>5 DEF Down, DrawFrom, Draws
    <3>6. CASE PageUp
      BY <3>1, <3>6 DEF PageUp, DrawFrom, Draws
    <3>7. CASE PageDown
      BY <3>1, <3>7 DEF PageDown, DrawFrom, Draws
    <3>8. CASE \E k \in DOMAIN rows : ClickRow(k)
      BY <3>1, <3>8 DEF ClickRow
    <3> QED  BY <1>7, <3>2, <3>3, <3>4, <3>5, <3>6, <3>7, <3>8
  <2> QED  BY <1>1, <1>2, <2>1, DrawnSize
<1>8. CASE SetOrder
  BY <1>1, <1>5, <1>8 DEF SetOrder
<1>9. CASE Delete
  <2>1. PICK t, v, next : DeleteIn(t, v, next)
    BY <1>9 DEF Delete
  <2>2. table' = t
    BY <2>1 DEF DeleteIn
  <2>3. PICK r : UNCHANGED list \/ SetValueIn(t, r, row, r, rec)
    BY <2>1 DEF DeleteIn
  <2> QED  BY <1>1, <1>3, <1>6, <2>2, <2>3
<1>10. CASE AppendFails
  <2>1. UNCHANGED list \/ \E r : Draws(table, r) /\ ~drift' /\ row' = 0
    BY <1>10 DEF AppendFails, DrawFrom, Draws
  <2> QED  BY <1>1, <1>3, <2>1, DrawnSize
<1>11. ASSUME NEW n \in {0, 1}, NEW hidden, AppendRecord(n, hidden)  PROVE Sized'
  <2> DEFINE page == IF rows = <<>> THEN <<>>
                     ELSE Page(table, Skip(table, Bottom(table), 2 - PageLength))
             new == table.last + 1 + n
             S == 1..Eof(table)
  <2>1. page \in Seq(S) /\ Len(page) \in 0..(PageLength - 1)
    <3>1. CASE rows = <<>>
      BY <1>1, <3>1
    <3>2. CASE rows # <<>>
      BY <1>1, <3>2, LastPage
    <3> QED  BY <3>1, <3>2
  <2>2. /\ rows' = Append(page, new) /\ drift' = (n > 0 \/ (rows = <<>> /\ drift))
        /\ row' = IF Len(recMap') \in 1..Len(rows') THEN Len(recMap') ELSE 0
        /\ fresh' = (page # <<>> /\ n = 0 /\ hidden = {} /\ table.order # "down"
                     /\ Last(page) # Eof(table))
    BY <1>11 DEF AppendRecord
  <2>3. fresh' => ~drift'
    <3>1. page # <<>> => rows # <<>>
      OBVIOUS
    <3>2. ~(n = 0 /\ n > 0)
      OBVIOUS
    <3> HIDE DEF page
    <3> QED  BY <2>2, <3>1, <3>2, Zenon
  <2> HIDE DEF page, new, S
  <2>4. rows' \in Seq(S \cup {new}) /\ Len(rows') = Len(page) + 1
    <3>1. page \in Seq(S \cup {new}) /\ new \in S \cup {new}
      BY <2>1
    <3>2. Append(page, new) \in Seq(S \cup {new}) /\ Len(Append(page, new)) = Len(page) + 1
      BY <3>1, AppendProperties
    <3> QED  BY <2>2, <3>2
  <2>5. row' \in 0..Len(rows')
    BY <2>1, <2>2, <2>4
  <2>6. Len(rows') <= PageLength
    BY <1>1, <2>1, <2>4
  <2> QED  BY <2>3, <2>4, <2>5, <2>6 DEF Sized
<1>12. CASE Editing
  <2>1. ASSUME NEW h, EditSave(h)  PROVE Sized'
    <3> DEFINE t == [table EXCEPT !.hidden = h]
    <3>1. table' = t /\ RefreshIn(t)
      BY <2>1 DEF EditSave
    <3> HIDE DEF t
    <3> QED  BY <1>1, <1>5, <3>1
  <2>2. CASE EditStart \/ EditOpen \/ EditRefused \/ EditEscape \/ EditValidate \/ EditInvalid
    BY <1>3, <2>2 DEF EditStart, EditOpen, EditRefused, EditEscape, EditValidate, EditInvalid
  <2> QED  BY <1>12, <2>1, <2>2 DEF Editing
<1>13. ASSUME NEW q, SetBrowseValue(q)  PROVE Sized'
  BY <1>1, <1>6, <1>13 DEF SetBrowseValue
<1>14. CASE Refresh
  BY <1>1, <1>5, <1>14 DEF Refresh
<1>15. CASE ReturnChange \/ \E r \in Goals : ProgramGoes(r)
  BY <1>3, <1>15 DEF ReturnChange, ProgramGoes
<1>16. CASE \E t : TableChanges(t)
  BY <1>2, <1>16 DEF TableChanges
<1>17. CASE UserKeys
  BY <1>7, <1>8, <1>9, <1>10, <1>11, <1>17 DEF UserKeys
<1>18. CASE BrowseProgram
  BY <1>13, <1>14, <1>15, <1>16, <1>18 DEF BrowseProgram
<1> QED  BY <1>12, <1>17, <1>18 DEF BrowseNext

-------------------------------------------------------------------------------
(* The commands as moves of the cursor.                                    *)

Selected == IF row = 0 THEN 0 ELSE rows[row]

\* RecordCursor has its own copy of WorkArea.
LEMMA SameArea ==
  ASSUME NEW t, NEW r, NEW n
  PROVE  /\ Cursor!Eof(t) = Eof(t) /\ Cursor!Shown(t) = Shown(t)
         /\ Cursor!Top(t) = Top(t) /\ Cursor!Bottom(t) = Bottom(t)
         /\ Cursor!Forth(t, r) = Forth(t, r) /\ Cursor!Back(t, r) = Back(t, r)
         /\ Cursor!Skip(t, r, n) = Skip(t, r, n)
<1>1. Cursor!Eof(t) = Eof(t)
  BY DEF Cursor!Eof, Eof
<1>2. Cursor!Shown(t) = Shown(t)
  BY DEF Cursor!Shown, Shown
<1>3. \A x, y : Cursor!Precedes(t, x, y) <=> Precedes(t, x, y)
  BY <1>1 DEF Cursor!Precedes, Precedes
<1>4. Cursor!Top(t) = Top(t)
  BY DEF Cursor!Top, Top, Cursor!FirstOf, FirstOf, Cursor!Shown, Shown, Cursor!Precedes, Precedes, Cursor!Eof, Eof
<1>5. Cursor!Bottom(t) = Bottom(t)
  BY DEF Cursor!Bottom, Bottom, Cursor!LastOf, LastOf, Cursor!Shown, Shown, Cursor!Precedes, Precedes, Cursor!Eof, Eof
<1>6. Cursor!Forth(t, r) = Forth(t, r)
  BY DEF Cursor!Forth, Forth, Cursor!FirstOf, FirstOf, Cursor!Shown, Shown, Cursor!Precedes, Precedes, Cursor!Eof, Eof,
    Cursor!After, After
<1>7. Cursor!Back(t, r) = Back(t, r)
  BY DEF Cursor!Back, Back, Cursor!LastOf, LastOf, Cursor!Shown, Shown, Cursor!Precedes, Precedes, Cursor!Eof, Eof,
    Cursor!Before, Before, Cursor!Top, Top, Cursor!FirstOf, FirstOf
<1>8. Cursor!Skip(t, r, n) = Skip(t, r, n)
  BY DEF Cursor!Skip, Skip, Cursor!Back, Back, Cursor!LastOf, LastOf, Cursor!Shown, Shown, Cursor!Precedes, Precedes, Cursor!Eof, Eof,
    Cursor!Before, Before, Cursor!Top, Top, Cursor!FirstOf, FirstOf, Cursor!After, After, Cursor!Forth, Forth
<1> QED  BY <1>1, <1>2, <1>4, <1>5, <1>6, <1>7, <1>8

LEMMA RowsShape ==
  ASSUME CursorInv
  PROVE  /\ table \in Table /\ table.last \in Nat /\ PageLength \in Nat /\ PageLength >= 2
         /\ Len(rows) \in 0..PageLength /\ row \in 0..Len(rows)
         /\ ~drift => recMap = rows
         /\ fresh => /\ ~drift /\ recMap = rows /\ rows # <<>>
                     /\ \A k \in 2..Len(rows) : rows[k] = Forth(table, rows[k - 1]) /\ rows[k] # Eof(table)
                     /\ atEnd = (Forth(table, rows[Len(rows)]) = Eof(table))
                     /\ atEnd \/ Len(rows) = PageLength
<1>1. table \in Table /\ table.last \in Nat /\ PageLength \in Nat /\ PageLength >= 2
  BY BrowseAssumption DEF CursorInv, PagesInv, BrowseInv, Blocks, Typed, Table, BrowseBounds
<1>2. PICK S : rows \in Seq(S)
  BY DEF CursorInv, Sized
<1>3. Len(rows) \in 0..PageLength /\ row \in 0..Len(rows) /\ (fresh => ~drift)
  BY <1>1, <1>2 DEF CursorInv, Sized
<1>4. ~drift => recMap = rows
  BY DEF CursorInv, PagesInv, BrowseInv, RowsMapped
<1>5. fresh => /\ rows # <<>>
               /\ \A k \in 2..Len(rows) : rows[k] = Forth(table, rows[k - 1]) /\ rows[k] # Eof(table)
               /\ atEnd = (Forth(table, rows[Len(rows)]) = Eof(table))
               /\ atEnd \/ Len(rows) = PageLength
  BY DEF CursorInv, PagesInv, PageInOrder, Last
<1> QED  BY <1>1, <1>3, <1>4, <1>5

LEMMA HomeMoves ==
  ASSUME CursorInv, Home
  PROVE  Selected' = Top(table)
<1>1. PICK n \in 1..PageLength : IsPage(table, Top(table), Page(table, Top(table)), n)
  BY RowsShape, PageShape
<1>2. rows' = Page(table, Top(table)) /\ row' = 1
  BY DEF Home, DrawFrom
<1> QED  BY <1>1, <1>2 DEF IsPage, Selected

\* The row of the record the list is drawn around.
LEMMA RowSelected ==
  ASSUME NEW t, t.last \in Nat, NEW r, NEW q, q \in ToSet(Page(t, r)),
         rows' = Page(t, r), row' = RowOf(Page(t, r), q)
  PROVE  Selected' = q
<1>1. PICK n \in 1..PageLength : IsPage(t, r, Page(t, r), n)
  BY PageShape
<1>2. Page(t, r) \in Seq({r} \cup 1..Eof(t))
  BY <1>1 DEF IsPage
<1>3. row' \in 1..Len(Page(t, r)) /\ rows'[row'] = q
  BY <1>2, RowOfShape
<1>4. row' # 0
  BY <1>2, <1>3
<1> QED  BY <1>3, <1>4 DEF Selected

LEMMA EndMoves ==
  ASSUME CursorInv, End
  PROVE  Selected' = Bottom(table)
<1> DEFINE r == Skip(table, Bottom(table), 1 - PageLength)
<1>1. rows' = Page(table, r) /\ row' = RowOf(Page(table, r), Bottom(table))
  BY DEF End, DrawFrom
<1>2. table.last \in Nat /\ PageLength \in Nat /\ PageLength >= 2
  BY RowsShape
<1>3. Bottom(table) \in ToSet(Page(table, r))
  <2>1. CASE Shown(table) # {}
    <3>1. Bottom(table) \in Shown(table) /\ PageLength \in 1..PageLength
      BY <1>2, <2>1, BottomShape
    <3> QED  BY <1>2, <3>1, OnPageBefore
  <2>2. CASE Shown(table) = {}
    <3> DEFINE m == PageLength - 1
    <3>1. m \in Nat /\ 1 - PageLength = -m
      BY <1>2
    <3>2. r = Skip(table, Bottom(table), -m)
      BY <3>1
    <3>3. r = Bottom(table)
      <4>1. Bottom(table) = Eof(table)
        BY <1>2, <2>2, BottomShape
      <4> HIDE DEF m, r
      <4>2. r \in Shown(table) \cup {Eof(table)}
        BY <1>2, <2>2, <3>1, <3>2, <4>1, BackNear
      <4> QED  BY <2>2, <4>1, <4>2
    <3> HIDE DEF r
    <3>4. PICK n \in 1..PageLength : IsPage(table, r, Page(table, r), n)
      BY <1>2, PageShape
    <3>5. Page(table, r)[1] = Bottom(table) /\ 1 \in DOMAIN Page(table, r)
      BY <3>3, <3>4 DEF IsPage
    <3> QED  BY <3>5 DEF ToSet
  <2> QED  BY <2>1, <2>2
<1> HIDE DEF r
<1> QED  BY <1>1, <1>2, <1>3, RowSelected

LEMMA DownMoves ==
  ASSUME CursorInv, Down, fresh, Selected # 0
  PROVE  Selected' = IF Forth(table, Selected) = Eof(table) THEN Selected ELSE Forth(table, Selected)
<1>0. /\ table.last \in Nat /\ PageLength \in Nat /\ PageLength >= 2
      /\ Len(rows) \in 0..PageLength /\ row \in 1..Len(rows) /\ recMap = rows
      /\ \A k \in 2..Len(rows) : rows[k] = Forth(table, rows[k - 1]) /\ rows[k] # Eof(table)
      /\ atEnd = (Forth(table, rows[Len(rows)]) = Eof(table))
      /\ atEnd \/ Len(rows) = PageLength
      /\ Selected = rows[row]
  BY RowsShape DEF Selected
<1>1. CASE row = PageLength
  <2> DEFINE r == Forth(table, rows[1])
             p == Page(table, r)
  <2>1. ~atEnd /\ rows' = p /\ row' = Len(p) /\ Len(rows) = PageLength
    BY <1>0, <1>1 DEF Down, DrawFrom
  <2>2. PICK n \in 1..PageLength : IsPage(table, r, p, n)
    BY <1>0, PageShape
  <2> DEFINE x(d) == Skip(table, r, d)
  <2>3. \A d \in 0..(PageLength - 1) : Skip(table, rows[1], d + 1) = x(d)
    BY <1>0, SkipShift
  <2>4. \A d \in 0..(PageLength - 2) : x(d) = rows[d + 2]
    <3>1. \E S : rows \in Seq(S)
      BY DEF CursorInv, Sized
    <3>2. \A d \in 0..(Len(rows) - 1) : rows[1 + d] = Skip(table, rows[1], d)
      <4>1. 1 \in 1..Len(rows)
        BY <1>0
      <4> QED  BY <1>0, <3>1, <4>1, RunForth
    <3> SUFFICES ASSUME NEW d \in 0..(PageLength - 2)  PROVE x(d) = rows[d + 2]
      OBVIOUS
    <3>3. d + 1 \in 0..(Len(rows) - 1) /\ 1 + (d + 1) = d + 2 /\ d \in 0..(PageLength - 1)
      BY <1>0, <2>1
    <3>4. rows[d + 2] = Skip(table, rows[1], d + 1)
      BY <3>2, <3>3
    <3> HIDE DEF x
    <3> QED  BY <2>3, <3>3, <3>4
  <2>5. x(PageLength - 1) = Forth(table, rows[PageLength])
    <3>1. \A k \in Nat : Skip(table, r, k + 1) = Forth(table, Skip(table, r, k))
      <4>1. table.last \in Nat
        BY <1>0
      <4> QED  BY ONLY <4>1, SkipWalks
    <3>2. PageLength - 2 \in Nat /\ (PageLength - 2) + 1 = PageLength - 1 /\ (PageLength - 2) + 2 = PageLength
          /\ PageLength - 2 \in 0..(PageLength - 2)
      BY <1>0
    <3>3. x(PageLength - 1) = Forth(table, x(PageLength - 2))
      BY <3>1, <3>2
    <3>4. x(PageLength - 2) = rows[(PageLength - 2) + 2]
      BY <2>4, <3>2
    <3> HIDE DEF x
    <3> QED  BY <3>2, <3>3, <3>4
  <2>6. Forth(table, rows[PageLength]) # Eof(table)
    BY <1>0, <2>1
  <2> HIDE DEF x, p, r
  <2>7. \A d \in 0..(PageLength - 1) : x(d) # Eof(table)
    <3> SUFFICES ASSUME NEW d \in 0..(PageLength - 1)  PROVE x(d) # Eof(table)
      OBVIOUS
    <3>1. CASE d = PageLength - 1
      BY <2>5, <2>6, <3>1
    <3>2. CASE d # PageLength - 1
      <4>1. d \in 0..(PageLength - 2) /\ d + 2 \in 2..Len(rows)
        BY <1>0, <2>1, <3>2
      <4> QED  BY <1>0, <2>4, <4>1
    <3> QED  BY <3>1, <3>2
  <2>8. n = PageLength
    <3> SUFFICES ASSUME n # PageLength  PROVE FALSE
      OBVIOUS
    <3>1. n \in 0..(PageLength - 1) /\ Skip(table, r, n) = Eof(table)
      BY <1>0, <2>2 DEF IsPage
    <3> QED  BY <2>7, <3>1 DEF x
  <2>9. Len(p) = PageLength /\ p[PageLength] = x(PageLength - 1)
    BY <1>0, <2>2, <2>8 DEF IsPage, x
  <2>10. Selected' = Forth(table, rows[PageLength])
    BY <1>0, <2>1, <2>5, <2>9 DEF Selected
  <2> QED  BY <1>0, <1>1, <2>6, <2>10
<1>2. CASE row # PageLength
  <2>1. rows' = rows /\ row' = IF row + 1 \in 1..Len(rows) THEN row + 1 ELSE row
    BY <1>2 DEF Down, Select
  <2>2. CASE row + 1 \in 1..Len(rows)
    <3>1. row + 1 \in 2..Len(rows) /\ (row + 1) - 1 = row /\ row + 1 # 0
      BY <1>0, <2>2
    <3>2. rows[row + 1] = Forth(table, rows[row]) /\ rows[row + 1] # Eof(table)
      BY <1>0, <3>1
    <3> QED  BY <1>0, <2>1, <2>2, <3>1, <3>2 DEF Selected
  <2>3. CASE row + 1 \notin 1..Len(rows)
    <3>1. row = Len(rows) /\ row # 0
      BY <1>0, <2>3
    <3>2. Forth(table, rows[row]) = Eof(table)
      BY <1>0, <1>2, <3>1
    <3> QED  BY <1>0, <2>1, <2>3, <3>1, <3>2 DEF Selected
  <2> QED  BY <2>2, <2>3
<1> QED  BY <1>1, <1>2

LEMMA UpMoves ==
  ASSUME CursorInv, Up, fresh, Selected # 0, Selected' \in Shown(table)
  PROVE  Selected' = Back(table, Selected)
<1>0. /\ table.last \in Nat /\ PageLength \in Nat /\ Len(rows) \in 0..PageLength
      /\ row \in 1..Len(rows) /\ recMap = rows
      /\ \A k \in 2..Len(rows) : rows[k] = Forth(table, rows[k - 1]) /\ rows[k] # Eof(table)
      /\ Selected = rows[row]
  BY RowsShape DEF Selected
<1> DEFINE p == Back(table, rows[1])
<1>1. CASE row = 1 /\ p # rows[1]
  <2>1. rows' = Page(table, p) /\ row' = 1
    BY <1>0, <1>1 DEF Up, DrawFrom
  <2> HIDE DEF p
  <2>2. PICK n \in 1..PageLength : IsPage(table, p, Page(table, p), n)
    BY <1>0, PageShape
  <2>3. Selected' = p
    BY <2>1, <2>2 DEF IsPage, Selected
  <2> QED  BY <1>0, <1>1, <2>3 DEF p
<1>2. CASE ~(row = 1 /\ p # rows[1])
  <2>1. rows' = rows /\ row' = IF row - 1 \in 1..Len(rows) THEN row - 1 ELSE row
    BY <1>0, <1>2 DEF Up, Select
  <2>2. CASE row = 1
    <3>1. Selected' = rows[1]
      BY <1>0, <2>1, <2>2 DEF Selected
    <3> QED  BY <1>0, <1>2, <2>2, <3>1
  <2>3. CASE row # 1
    <3>1. row - 1 \in 1..Len(rows) /\ row \in 2..Len(rows) /\ row - 1 # 0
      BY <1>0, <2>3
    <3>2. Selected' = rows[row - 1]
      BY <2>1, <3>1 DEF Selected
    <3>3. rows[row] = Forth(table, rows[row - 1]) /\ rows[row] # Eof(table)
      BY <1>0, <3>1
    <3>4. rows[row - 1] \in Shown(table)
      BY <3>2
    <3>5. Back(table, Forth(table, rows[row - 1])) = rows[row - 1]
      BY <1>0, <3>3, <3>4, BackOfForth
    <3> QED  BY <1>0, <3>2, <3>3, <3>5
  <2> QED  BY <2>2, <2>3
<1> QED  BY <1>1, <1>2

LEMMA PageDownMoves ==
  ASSUME CursorInv, PageDown, fresh, Selected # 0
  PROVE  \E d \in 0..(PageLength - 1) : Selected' = Skip(table, Selected, d)
<1>0. /\ table.last \in Nat /\ PageLength \in Nat /\ Len(rows) \in 0..PageLength
      /\ row \in 1..Len(rows) /\ recMap = rows
      /\ \A k \in 2..Len(rows) : rows[k] = Forth(table, rows[k - 1]) /\ rows[k] # Eof(table)
      /\ Selected = rows[row]
  BY RowsShape DEF Selected
<1>1. CASE row = PageLength
  <2> DEFINE r == rows[PageLength]
             p == Page(table, r)
  <2>1. rows' = p /\ row' = Len(p) /\ Selected = r
    BY <1>0, <1>1 DEF PageDown, DrawFrom
  <2> HIDE DEF p, r
  <2>2. PICK n \in 1..PageLength : IsPage(table, r, p, n)
    BY <1>0, PageShape DEF p
  <2>3. n - 1 \in 0..(PageLength - 1) /\ n # 0 /\ n \in 1..n
    BY <1>0
  <2>4. Selected' = Skip(table, r, n - 1)
    BY <2>1, <2>2, <2>3 DEF IsPage, Selected
  <2> QED  BY <2>1, <2>3, <2>4
<1>2. CASE row # PageLength
  <2>1. rows' = rows /\ row' = Len(rows)
    <3>1. Len(rows) \in 1..Len(rows)
      BY <1>0
    <3>2. Select(Len(recMap)) /\ rows' = rows
      BY <1>2 DEF PageDown
    <3> QED  BY <1>0, <3>1, <3>2 DEF Select
  <2> DEFINE d == Len(rows) - row
  <2>2. /\ d \in 0..(Len(rows) - row) /\ d \in 0..(PageLength - 1) /\ row + d = Len(rows) /\ Len(rows) # 0
    BY <1>0
  <2>3. \A e \in 0..(Len(rows) - row) : rows[row + e] = Skip(table, rows[row], e)
    <3>1. \E S : rows \in Seq(S)
      BY DEF CursorInv, Sized
    <3> QED  BY <1>0, <3>1, RunForth
  <2>4. Selected' = rows[row + d]
    BY <2>1, <2>2 DEF Selected
  <2> HIDE DEF d
  <2> QED  BY <1>0, <2>2, <2>3, <2>4
<1> QED  BY <1>1, <1>2

LEMMA PageUpMoves ==
  ASSUME CursorInv, PageUp, fresh, Selected # 0, Selected' \in Shown(table)
  PROVE  \E d \in 0..(PageLength - 1) : Selected' = Skip(table, Selected, -d)
<1>0. /\ table.last \in Nat /\ PageLength \in Nat /\ PageLength >= 2 /\ Len(rows) \in 0..PageLength
      /\ row \in 1..Len(rows) /\ recMap = rows
      /\ \A k \in 2..Len(rows) : rows[k] = Forth(table, rows[k - 1]) /\ rows[k] # Eof(table)
      /\ Selected = rows[row]
  BY RowsShape DEF Selected
<1>1. CASE row = 1
  <2> DEFINE r == Skip(table, rows[1], 1 - PageLength)
             p == Page(table, r)
             d == PageLength - 1
  <2>1. rows' = p /\ row' = 1
    BY <1>0, <1>1 DEF PageUp, DrawFrom
  <2>2. PICK n \in 1..PageLength : IsPage(table, r, p, n)
    BY <1>0, PageShape
  <2>3. d \in 0..(PageLength - 1) /\ 1 - PageLength = -d
    BY <1>0
  <2>4. r = Skip(table, rows[1], -d)
    BY <2>3
  <2> HIDE DEF r, p, d
  <2>5. Selected' = r
    BY <2>1, <2>2 DEF IsPage, Selected
  <2> QED  BY <1>0, <1>1, <2>3, <2>4, <2>5
<1>2. CASE row # 1
  <2>1. rows' = rows /\ row' = 1
    <3>1. 1 \in 1..Len(rows)
      BY <1>0
    <3>2. Select(1) /\ rows' = rows
      BY <1>2 DEF PageUp
    <3> QED  BY <3>1, <3>2 DEF Select
  <2> DEFINE d == row - 1
  <2>2. d \in 0..(row - 1) /\ d \in 0..(PageLength - 1) /\ row - d = 1
    BY <1>0
  <2>3. Selected' = rows[1]
    BY <2>1 DEF Selected
  <2>4. \A e \in 0..(row - 1) : rows[row - e] = Skip(table, rows[row], -e)
    <3>1. \E S : rows \in Seq(S)
      BY DEF CursorInv, Sized
    <3>2. rows[1] \in Shown(table)
      BY <2>3
    <3> QED  BY <1>0, <3>1, <3>2, RunBack
  <2> HIDE DEF d
  <2> QED  BY <1>0, <2>2, <2>3, <2>4
<1> QED  BY <1>1, <1>2

\* DrawnInOrder again, the list keeps a record that may be shown.
LEMMA RefreshKeeps ==
  ASSUME CursorInv, NEW t, t.last \in Nat, RefreshIn(t), ~drift, Selected \in Shown(t)
  PROVE  Selected' = Selected
<1>0. /\ PageLength \in Nat /\ Len(rows) \in 0..PageLength /\ row \in 0..Len(rows) /\ recMap = rows
  BY RowsShape
<1> DEFINE q == Selected
<1>1. q \in 1..t.last /\ q # Eof(t) /\ q \notin t.hidden /\ ~(t.delOn /\ q \in t.deleted)
  BY DEF Shown, Eof
<1>2. row # 0 /\ row \in 1..PageLength
  <2>1. row # 0
    BY <1>1 DEF Selected
  <2> QED  BY <1>0, <2>1
<1>3. Value = q
  BY <1>0, <1>2 DEF Value, Selected
<1> HIDE DEF q
<1>4. ~(Value <= 0)
  BY <1>1, <1>3
<1> DEFINE p == Page(t, Skip(t, q, 1 - row))
<1>5. rows' = p /\ row' = RowOf(p, q)
  BY <1>1, <1>2, <1>3, <1>4 DEF RefreshIn, DrawFrom
<1>6. q \in ToSet(p)
  BY <1>2, OnPageBefore DEF q
<1> QED  BY <1>5, <1>6, RowSelected DEF q

LEMMA DeleteMoves ==
  ASSUME CursorInv, Delete, fresh, Selected \in Shown(table)
  PROVE  \/ Selected' = Selected
         \/ IF Forth(table', Selected) # Eof(table') THEN Selected' = Forth(table', Selected)
            ELSE Selected' = IF Shown(table') = {} THEN 0 ELSE Bottom(table')
<1>0. /\ table \in Table /\ table.last \in Nat /\ Len(rows) \in 0..PageLength /\ PageLength \in Nat
      /\ row \in 1..Len(rows) /\ row \in 1..PageLength /\ recMap = rows /\ Selected = rows[row]
  <2>1. row # 0
    BY DEF Delete
  <2> QED  BY <2>1, RowsShape DEF Selected
<1>1. Value = Selected /\ Selected \in 1..table.last
  BY <1>0 DEF Value, Selected, Shown
<1>2. event # "BROWSE_ONCHANGE"
  <2>1. frames = <<>>
    BY DEF Delete, Idle
  <2> QED  BY <2>1 DEF CursorInv, PagesInv, Setting
<1>3. ASSUME UNCHANGED list  PROVE Selected' = Selected
  BY <1>3 DEF list, Selected
<1>4. ASSUME NEW t, t.last \in Nat, NEW r \in Shown(t), SetValueIn(t, r, row, r, rec)
      PROVE  Selected' = r
  <2>1. r # Eof(t)
    BY <1>4 DEF Shown, Eof
  <2> DEFINE p == Page(t, Skip(t, r, 1 - row))
  <2>2. rows' = p /\ row' = RowOf(p, r)
    BY <1>2, <1>4, <2>1 DEF SetValueIn, DrawFrom
  <2>3. r \in ToSet(p)
    BY <1>0, <1>4, OnPageBefore
  <2> QED  BY <1>4, <2>2, <2>3, RowSelected
<1>5. CASE DeleteIn(table, Selected, FALSE)
  <2>1. IF Selected \in table.hidden THEN UNCHANGED list
        ELSE SetValueIn(table, Selected, row, Selected, rec)
    BY <1>5 DEF DeleteIn
  <2> QED  BY <1>0, <1>3, <1>4, <2>1
<1>6. CASE \E d : DeleteIn([table EXCEPT !.deleted = d], Selected, TRUE)
  <2>1. PICK d : DeleteIn([table EXCEPT !.deleted = d], Selected, TRUE)
    BY <1>6
  <2> DEFINE t == [table EXCEPT !.deleted = d]
             below == Forth(t, Selected)
             r == IF below = Eof(t) THEN Bottom(t) ELSE IF t.delOn THEN below ELSE Back(t, below)
  <2>2. t.last = table.last /\ t.hidden = table.hidden /\ t.delOn = table.delOn /\ t.order = table.order
    BY <1>0 DEF Table
  <2>3. /\ table' = t
        /\ IF r \in t.hidden THEN UNCHANGED list ELSE SetValueIn(t, r, row, r, rec)
    BY <2>1 DEF DeleteIn
  <2> HIDE DEF t
  <2>4. t.last \in Nat
    BY <1>0, <2>2
  <2>5. CASE below # Eof(t)
    <3>1. below \in Shown(t)
      BY <2>4, <2>5, ForthShape
    <3>2. r \in Shown(t) /\ (r = below \/ r = Selected)
      <4>1. CASE t.delOn
        BY <2>5, <3>1, <4>1
      <4>2. CASE ~t.delOn
        <5>1. Shown(t) = Shown(table)
          BY <2>2, <4>2 DEF Shown
        <5>2. Back(t, below) = Selected
          BY <2>4, <2>5, <5>1, BackOfForth
        <5> QED  BY <2>5, <4>2, <5>1, <5>2
      <4> QED  BY <4>1, <4>2
    <3>3. r \notin t.hidden
      BY <3>2 DEF Shown
    <3> HIDE DEF r
    <3>4. Selected' = r
      BY <1>4, <2>3, <2>4, <3>2, <3>3
    <3> QED  BY <2>3, <2>5, <3>2, <3>4
  <2>6. CASE below = Eof(t)
    <3>1. r = Bottom(t)
      BY <2>6
    <3> HIDE DEF r
    <3>2. CASE Shown(t) # {}
      <4>1. r \in Shown(t)
        BY <2>4, <3>1, <3>2, BottomShape
      <4>2. r \notin t.hidden
        BY <4>1 DEF Shown
      <4>3. Selected' = r
        BY <1>4, <2>3, <2>4, <4>1, <4>2
      <4> QED  BY <2>3, <2>6, <3>1, <3>2, <4>3
    <3>3. CASE Shown(t) = {}
      <4>1. r = Eof(t)
        BY <2>4, <3>1, <3>3, BottomShape
      <4>2. r \notin t.hidden
        <5>1. t.hidden \subseteq 1..t.last
          BY <2>2 DEF CursorInv, PagesInv, Within
        <5> QED  BY <2>4, <4>1, <5>1 DEF Eof
      <4>3. SetValueIn(t, r, row, r, rec)
        BY <2>3, <4>2
      <4>4. ~(r < Eof(t))
        BY <2>4, <4>1 DEF Eof
      <4>5. row' = 0
        BY <1>2, <4>3, <4>4 DEF SetValueIn, Reset
      <4>6. Selected' = 0
        BY <4>5 DEF Selected
      <4> QED  BY <2>3, <2>6, <3>3, <4>6
    <3> QED  BY <3>2, <3>3
  <2> QED  BY <2>5, <2>6
<1> QED  BY <1>1, <1>5, <1>6 DEF Delete

-------------------------------------------------------------------------------
(* The results.                                                            *)

\* The inductive invariant: blocks in progress, pointer, locks and the map.
THEOREM BrowseInvariant == BrowseSpec => []BrowseInv
<1>1. InitBrowse => BrowseInv
  BY InitBrowseInv
<1>2. BrowseInv /\ [BrowseNext]_browseVars => BrowseInv'
  <2> SUFFICES ASSUME BrowseInv, [BrowseNext]_browseVars  PROVE BrowseInv'
    OBVIOUS
  <2>1. CASE BrowseNext
    BY <2>1, UserStep, EditingStep, ProgramStep DEF BrowseNext
  <2>2. CASE UNCHANGED browseVars
    BY <2>2 DEF browseVars, list, others, BrowseInv, Blocks, Typed, Nested, Pointer, GoesBack, Writing,
                Locked, RowsMapped, Eof
  <2> QED  BY <2>1, <2>2
<1> QED  BY <1>1, <1>2, PTL DEF BrowseSpec

\* recMap names the record every row shows, unless rows were added apart from
\* it (_BrowseUpdate, _BrowseAppend).
THEOREM RowsStand == BrowseSpec => []RowsMapped
<1>1. BrowseInv => RowsMapped
  BY DEF BrowseInv
<1> QED  BY <1>1, BrowseInvariant, PTL

\* Every operation that moves the pointer puts it back, in any nesting of
\* blocks: the record is the one the program went to.
THEOREM PointerReturned == BrowseSpec => []PointerKept
<1>1. BrowseInv => PointerKept
  BY DEF BrowseInv, Blocks, Pointer, GoesBack, PointerKept
<1> QED  BY <1>1, BrowseInvariant, PTL

\* _InPlaceEditSave replaces the fields of the record the edit was started on.
THEOREM EditsWriteTheirs == BrowseSpec => []EditWritesItsRecord
<1>1. BrowseInv => EditWritesItsRecord
  BY DEF BrowseInv, Blocks, Writing, EditWritesItsRecord
<1> QED  BY <1>1, BrowseInvariant, PTL

\* In shared mode nobody else writes the record while it is edited.
THEOREM EditedIsLocked == BrowseSpec => []EditLocked
<1>1. BrowseInv => EditLocked
  BY DEF BrowseInv, Blocks, Locked, Edits, EditLocked
<1> QED  BY <1>1, BrowseInvariant, PTL

LEMMA DeletedRecord ==
  ASSUME BrowseInv, BrowseNext, changes' = changes, ~drift, NEW r \in table'.deleted \ table.deleted
  PROVE  r = rows[row]
<1>1. table \in Table /\ changes \in Nat /\ recMap = rows
  BY DEF BrowseInv, Blocks, Typed, RowsMapped
<1>2. table' # table
  OBVIOUS
<1>3. \A q : table' # [table EXCEPT !.order = q]
  BY <1>1 DEF Table
<1>4. \A h : table' # [table EXCEPT !.hidden = h]
  BY <1>1 DEF Table
<1>5. \A n, h : table' # [table EXCEPT !.last = n, !.hidden = h]
  BY <1>1 DEF Table
<1>6. CASE Delete
  <2>1. PICK t, v, next : /\ DeleteIn(t, v, next) /\ row # 0
                          /\ \/ t = table
                             \/ t = [table EXCEPT !.deleted = @ \cup ({Value} \cap 1..table.last)]
    BY <1>6 DEF Delete
  <2>2. table' = t
    BY <2>1 DEF DeleteIn
  <2>3. table' = [table EXCEPT !.deleted = @ \cup ({Value} \cap 1..table.last)]
    BY <1>2, <2>1, <2>2
  <2>4. table'.deleted = table.deleted \cup ({Value} \cap 1..table.last)
    BY <1>1, <2>3 DEF Table
  <2>5. r = Value
    BY <2>4
  <2> QED  BY <1>1, <2>1, <2>5 DEF Value
<1>7. CASE SetOrder
  BY <1>1, <1>7 DEF SetOrder
<1>8. CASE \E n \in IF Shared THEN {0, 1} ELSE {0}, h \in SUBSET {table.last + 1} : AppendRecord(n, h)
  BY <1>5, <1>8 DEF AppendRecord
<1>9. CASE Editing
  BY <1>2, <1>4, <1>9 DEF Editing, EditStart, EditOpen, EditRefused, EditEscape, EditValidate, EditInvalid, EditSave
<1>10. CASE BrowseProgram
  <2>1. CASE Refresh \/ ReturnChange \/ (\E q \in Goals : SetBrowseValue(q) \/ ProgramGoes(q))
    BY <1>2, <2>1 DEF Refresh, ReturnChange, SetBrowseValue, ProgramGoes
  <2>2. CASE \E t : TableChanges(t)
    BY <1>1, <2>2 DEF TableChanges
  <2> QED  BY <1>10, <2>1, <2>2 DEF BrowseProgram
<1>11. CASE AppendFails \/ (\E k \in DOMAIN rows : ClickRow(k))
            \/ Home \/ End \/ Up \/ Down \/ PageUp \/ PageDown
  <2>1. CASE AppendFails
    BY <1>2, <2>1 DEF AppendFails
  <2>2. CASE Command
    BY <1>2, <2>2 DEF Command
  <2> QED  BY <1>11, <2>1, <2>2 DEF Home, End, Up, Down, PageUp, PageDown, ClickRow
<1> QED  BY <1>6, <1>7, <1>8, <1>9, <1>10, <1>11 DEF BrowseNext, UserKeys

\* DEL deletes the record shown in the selected row, never another one.
THEOREM SelectedDeleted == BrowseSpec => DeletesSelected
<1>1. BrowseInv /\ [BrowseNext]_browseVars => [DeleteStep]_browseVars
  BY DeletedRecord DEF DeleteStep
<1> QED  BY <1>1, BrowseInvariant, PTL DEF BrowseSpec, DeletesSelected

\* Pages stay in order, whatever changes the list and the table.
THEOREM PagesInvariant == BrowseSpec => []PagesInv
<1>1. InitBrowse => PagesInv
  BY InitBrowseInv DEF InitBrowse, PagesInv, Within, Setting, PageInOrder
<1>2. PagesInv /\ [BrowseNext]_browseVars => PagesInv'
  <2> SUFFICES ASSUME PagesInv, [BrowseNext]_browseVars  PROVE PagesInv'
    OBVIOUS
  <2>1. CASE BrowseNext
    <3>1. BrowseInv'
      BY <2>1, UserStep, EditingStep, ProgramStep DEF BrowseNext, PagesInv
    <3>2. table' \in Table
      BY <3>1 DEF BrowseInv, Blocks, Typed
    <3> QED  BY <2>1, <3>1, <3>2, WithinStep, SettingStep, PageStep DEF PagesInv
  <2>2. CASE UNCHANGED browseVars
    <3>1. BrowseInv'
      BY <2>2 DEF browseVars, list, others, PagesInv, BrowseInv, Blocks, Typed, Nested, Pointer, GoesBack,
                  Writing, Locked, RowsMapped, Eof
    <3>2. Eof(table') = Eof(table) /\ \A x : Forth(table', x) = Forth(table, x)
      BY <2>2 DEF browseVars
    <3> QED  BY <2>2, <3>1, <3>2 DEF browseVars, list, PagesInv, Within, Setting, PageInOrder, Eof
  <2> QED  BY <2>1, <2>2
<1> QED  BY <1>1, <1>2, PTL DEF BrowseSpec

\* A list drawn since the table last changed shows records that follow each
\* other in the order, as many as fit or up to the last (_BrowseUpdate).
THEOREM PagesInOrder == BrowseSpec => []PageInOrder
<1>1. PagesInv => PageInOrder
  BY DEF PagesInv
<1> QED  BY <1>1, PagesInvariant, PTL

\* The rows of a list fit its height, and the one selected is one of them.
THEOREM CursorInvariant == BrowseSpec => []CursorInv
<1>1. InitBrowse => CursorInv
  <2> SUFFICES ASSUME InitBrowse  PROVE CursorInv
    OBVIOUS
  <2>1. PagesInv
    BY InitBrowseInv DEF InitBrowse, PagesInv, Within, Setting, PageInOrder
  <2>2. rows = <<>> /\ row = 0 /\ ~fresh /\ PageLength \in Nat
    BY BrowseAssumption DEF InitBrowse, BrowseBounds
  <2>3. <<>> \in Seq({}) /\ Len(<<>>) = 0
    OBVIOUS
  <2> QED  BY <2>1, <2>2, <2>3 DEF CursorInv, Sized
<1>2. CursorInv /\ PagesInv' /\ [BrowseNext]_browseVars => CursorInv'
  <2> SUFFICES ASSUME CursorInv, PagesInv', [BrowseNext]_browseVars  PROVE Sized'
    BY DEF CursorInv
  <2>1. CASE BrowseNext
    <3>1. table' \in Table
      BY DEF PagesInv, BrowseInv, Blocks, Typed
    <3> QED  BY <2>1, <3>1, SizedStep
  <2>2. CASE UNCHANGED browseVars
    BY <2>2 DEF browseVars, list, CursorInv, Sized
  <2> QED  BY <2>1, <2>2
<1> QED  BY <1>1, <1>2, PagesInvariant, PTL DEF BrowseSpec

LEMMA CursorSteps ==
  ASSUME CursorInv, PagesInv'
  PROVE  CursorStep
<1>0. table.last \in Nat /\ table'.last \in Nat
  BY DEF CursorInv, PagesInv, BrowseInv, Blocks, Typed, Table
<1>1. Home => Cursor!First
  BY HomeMoves, SameArea DEF Cursor!First, Selected
<1>2. End => Cursor!Final
  BY EndMoves, SameArea DEF Cursor!Final, Selected
<1>3. Down => Cursor!Forward
  BY DownMoves, SameArea DEF Cursor!Forward, Cursor!Clamp, Selected
<1>4. Up => Cursor!Backward
  BY UpMoves, SameArea DEF Cursor!Backward, Selected
<1>5. PageDown => Cursor!PageForward
  BY PageDownMoves, SameArea DEF Cursor!PageForward, Cursor!AtMost, Selected
<1>6. PageUp => Cursor!PageBackward
  BY PageUpMoves, SameArea DEF Cursor!PageBackward, Cursor!AtMost, Selected
<1>7. fresh /\ Delete => Cursor!Remove
  BY DeleteMoves, SameArea DEF Cursor!Remove, Selected
<1>8. ~drift /\ SetOrder => Cursor!Keep
  BY <1>0, RefreshKeeps, SameArea DEF SetOrder, Cursor!Keep, Selected
<1>9. ~drift /\ UNCHANGED <<table, frames>> /\ Refresh => Cursor!Keep
  BY <1>0, RefreshKeeps, SameArea DEF Refresh, Cursor!Keep, Selected
<1> QED  BY <1>1, <1>2, <1>3, <1>4, <1>5, <1>6, <1>7, <1>8, <1>9 DEF CursorStep

\* The selection moves as a cursor on the table (RecordCursor): the arrows by
\* one record, Home and End to the ends, the page keys by a page at most; drawn
\* again it keeps its record, and after DEL it is on the neighbour.
THEOREM SelectionIsCursor == BrowseSpec => MovesAsCursor
<1>1. CursorInv /\ PagesInv' => [CursorStep]_browseVars
  BY CursorSteps
<1> QED  BY <1>1, CursorInvariant, PagesInvariant, PTL DEF MovesAsCursor
-------------------------------------------------------------------------------
(* The types.                                                              *)

\* What the list and the pointer name are records of the table, or the end.
Listed ==
  /\ rows \in Seq(1..Eof(table)) /\ recMap \in Seq(1..Eof(table))
  /\ Len(rows) <= Len(recMap) /\ row \in 0..Len(rows)
  /\ rec \in 1..Eof(table)

Flags ==
  /\ atEnd \in BOOLEAN /\ fresh \in BOOLEAN /\ drift \in BOOLEAN /\ strayed \in BOOLEAN
  /\ halt \in BOOLEAN /\ changes \in 0..MaxChanges /\ locks \subseteq Records
  /\ event \in {"", "BROWSE_ONCHANGE", "BROWSE_WHEN", "BROWSE_VALID"}

LEMMA SkipTyped ==
  ASSUME NEW t, t.last \in Nat, NEW r \in 1..Eof(t), NEW n \in Int
  PROVE  Skip(t, r, n) \in 1..Eof(t)
<1> DEFINE F == {k \in Nat : Skip(t, r, k) \in 1..Eof(t)}
           B == {k \in Nat : Skip(t, r, -k) \in 1..Eof(t)}
<1>0. /\ Skip(t, r, 0) = r
      /\ \A k \in Nat : Skip(t, r, k + 1) = Forth(t, Skip(t, r, k))
      /\ \A k \in Nat : Skip(t, r, -(k + 1)) = Back(t, Skip(t, r, -k))
  <2>1. \A q : /\ Skip(t, q, 0) = q
               /\ \A k \in Nat : Skip(t, q, k + 1) = Forth(t, Skip(t, q, k))
               /\ \A k \in Nat : Skip(t, q, -(k + 1)) = Back(t, Skip(t, q, -k))
    BY ONLY t.last \in Nat, SkipWalks, Zenon
  <2> QED  BY <2>1, Zenon
<1>1. Skip(t, r, -0) = r
  BY <1>0
<1>2. 0 \in F /\ 0 \in B
  BY <1>0, <1>1
<1>3. \A k \in Nat : k + 1 \in F /\ k + 1 \in B
  <2> SUFFICES ASSUME NEW k \in Nat  PROVE k + 1 \in F /\ k + 1 \in B
    OBVIOUS
  <2>1. Skip(t, r, k + 1) = Forth(t, Skip(t, r, k)) /\ Skip(t, r, -(k + 1)) = Back(t, Skip(t, r, -k))
    BY <1>0
  <2>2. Forth(t, Skip(t, r, k)) \in 1..Eof(t)
    BY ForthShape
  <2>3. Back(t, Skip(t, r, -k)) \in 1..Eof(t)
    BY BackShape
  <2> QED  BY <2>1, <2>2, <2>3
<1>4. Nat \subseteq F /\ Nat \subseteq B
  <2> HIDE DEF F, B
  <2> QED  BY <1>2, <1>3, Induction
<1>5. CASE n \in Nat
  BY <1>4, <1>5
<1>6. CASE n \notin Nat
  <2>1. -n \in Nat /\ -(-n) = n
    BY <1>6
  <2>2. -n \in B
    BY <1>4, <2>1
  <2>3. Skip(t, r, -(-n)) \in 1..Eof(t)
    BY <2>2
  <2> QED  BY <2>1, <2>3
<1> QED  BY <1>5, <1>6

LEMMA PageTyped ==
  ASSUME NEW t, t.last \in Nat, NEW r \in 1..Eof(t)
  PROVE  /\ Page(t, r) \in Seq(1..Eof(t)) /\ Len(Page(t, r)) \in 1..PageLength
         /\ \A x : RowOf(Page(t, r), x) \in 0..Len(Page(t, r))
<1>1. PICK n \in 1..PageLength : IsPage(t, r, Page(t, r), n)
  BY PageShape
<1>2. {r} \cup 1..Eof(t) = 1..Eof(t)
  OBVIOUS
<1>3. Page(t, r) \in Seq(1..Eof(t)) /\ Len(Page(t, r)) = n
  BY <1>1, <1>2 DEF IsPage
<1> QED  BY <1>3, RowOfShape

\* A list drawn from a record of the table.
LEMMA DrawnTyped ==
  ASSUME NEW t, t = table', t.last \in Nat, NEW r \in 1..Eof(t), Draws(t, r), rec' \in 1..Eof(t),
         row' \in {0, 1, Len(rows')} \/ \E x : row' = RowOf(rows', x)
  PROVE  Listed'
<1>1. /\ Page(t, r) \in Seq(1..Eof(t)) /\ Len(Page(t, r)) \in 1..PageLength /\ PageLength \in Nat
      /\ \A x : RowOf(Page(t, r), x) \in 0..Len(Page(t, r))
  BY PageTyped, BrowseAssumption DEF BrowseBounds
<1>2. rows' = Page(t, r) /\ recMap' = Page(t, r) /\ Eof(table') = Eof(t)
  BY DEF Draws
<1>3. row' \in 0..Len(rows')
  BY <1>1, <1>2
<1> QED  BY <1>1, <1>2, <1>3 DEF Listed

\* No step takes a record out of the table.
LEMMA NoneLost ==
  ASSUME BrowseInv, BrowseNext
  PROVE  table.last <= table'.last
<1>1. table \in Table /\ table.last \in Nat
  BY DEF BrowseInv, Blocks, Typed, Table
<1>2. ASSUME UNCHANGED table  PROVE table.last <= table'.last
  BY <1>1, <1>2
<1>3. ASSUME NEW q, \/ table' = [table EXCEPT !.order = q]
                    \/ table' = [table EXCEPT !.hidden = q]
                    \/ table' = [table EXCEPT !.deleted = q]
      PROVE  table.last <= table'.last
  <2>1. table'.last = table.last
    BY <1>1, <1>3 DEF Table
  <2> QED  BY <1>1, <2>1
<1>4. ASSUME NEW n \in Nat, NEW h, table.last <= n,
             \/ table' = [table EXCEPT !.last = n, !.hidden = h]
             \/ table' = [table EXCEPT !.last = n]
      PROVE  table.last <= table'.last
  <2>1. table'.last = n
    BY <1>1, <1>4 DEF Table
  <2> QED  BY <1>4, <2>1
<1>5. CASE UserKeys
  <2>1. CASE Delete
    <3>1. \/ UNCHANGED table
          \/ \E q : table' = [table EXCEPT !.deleted = q]
      BY <2>1 DEF Delete, DeleteIn
    <3> QED  BY <1>2, <1>3, <3>1
  <2>2. CASE SetOrder
    BY <1>3, <2>2 DEF SetOrder
  <2>3. CASE \E n \in IF Shared THEN {0, 1} ELSE {0}, h \in SUBSET {table.last + 1} : AppendRecord(n, h)
    <3>1. PICK n \in {0, 1}, hidden \in SUBSET {table.last + 1} : AppendRecord(n, hidden)
      BY <2>3
    <3> DEFINE new == table.last + 1 + n
               all == table.hidden \cup hidden
    <3>2. table' = [table EXCEPT !.last = new, !.hidden = all]
      BY <3>1 DEF AppendRecord
    <3>3. new \in Nat /\ table.last <= new
      BY <1>1
    <3> HIDE DEF new, all
    <3> QED  BY <1>4, <3>2, <3>3
  <2>4. CASE AppendFails \/ (\E k \in DOMAIN rows : ClickRow(k))
             \/ Home \/ End \/ Up \/ Down \/ PageUp \/ PageDown
    BY <1>2, <2>4 DEF AppendFails, Command, Home, End, Up, Down, PageUp, PageDown, ClickRow
  <2> QED  BY <1>5, <2>1, <2>2, <2>3, <2>4 DEF UserKeys
<1>6. CASE Editing
  <2>1. \/ UNCHANGED table
        \/ \E h : table' = [table EXCEPT !.hidden = h]
    BY <1>6 DEF Editing, EditStart, EditOpen, EditRefused, EditEscape, EditValidate, EditInvalid,
                EditSave
  <2> QED  BY <1>2, <1>3, <2>1
<1>7. CASE BrowseProgram
  <2>1. CASE Refresh \/ ReturnChange \/ (\E q \in Goals : SetBrowseValue(q) \/ ProgramGoes(q))
    BY <1>2, <2>1 DEF Refresh, ReturnChange, SetBrowseValue, ProgramGoes
  <2>2. ASSUME NEW q, \/ TableChanges([table EXCEPT !.deleted = q])
                      \/ TableChanges([table EXCEPT !.hidden = q])
        PROVE  table.last <= table'.last
    BY <1>3, <2>2 DEF TableChanges
  <2>3. CASE TableChanges([table EXCEPT !.last = @ + 1])
    <3> DEFINE n == table.last + 1
    <3>1. n \in Nat /\ table.last <= n /\ table' = [table EXCEPT !.last = n]
      BY <1>1, <2>3 DEF TableChanges
    <3> HIDE DEF n
    <3> QED  BY <1>4, <3>1
  <2> QED  BY <1>7, <2>1, <2>2, <2>3 DEF BrowseProgram
<1> QED  BY <1>5, <1>6, <1>7 DEF BrowseNext

LEMMA WiderSeq ==
  ASSUME NEW S, NEW T, S \subseteq T, NEW s \in Seq(S)
  PROVE  s \in Seq(T) /\ Len(s) \in Nat /\ \A k \in 1..Len(s) : s[k] \in S
OBVIOUS

\* The record the Value property names.
LEMMA ValueTyped ==
  ASSUME Listed, table.last \in Nat
  PROVE  /\ Value \in {0} \cup 1..Eof(table) /\ row \in Nat
         /\ row # 0 => Value \in 1..Eof(table) /\ row \in 1..Len(recMap)
<1>1. /\ row \in 0..Len(rows) /\ Len(rows) <= Len(recMap) /\ Len(rows) \in Nat /\ Len(recMap) \in Nat
      /\ \A k \in 1..Len(recMap) : recMap[k] \in 1..Eof(table)
  <2>1. rows \in Seq(1..Eof(table)) /\ recMap \in Seq(1..Eof(table))
    BY DEF Listed
  <2>2. Len(rows) \in Nat /\ Len(recMap) \in Nat
    BY <2>1
  <2>3. \A k \in 1..Len(recMap) : recMap[k] \in 1..Eof(table)
    BY <2>1, WiderSeq
  <2> QED  BY <2>2, <2>3 DEF Listed
<1>2. row # 0 => row \in 1..Len(recMap)
  BY <1>1
<1> QED  BY <1>1, <1>2 DEF Value

\* The rows stay, or go; the table may have grown.
LEMMA KeptTyped ==
  ASSUME Listed, table.last \in Nat, table'.last \in Nat, table.last <= table'.last,
         rec' \in 1..Eof(table'), recMap' = recMap,
         \/ rows' = rows /\ row' \in {row} \cup 1..Len(rows)
         \/ rows' = <<>> /\ row' = 0
  PROVE  Listed'
<1>1. 1..Eof(table) \subseteq 1..Eof(table')
  BY DEF Eof
<1>2. \A s \in Seq(1..Eof(table)) : s \in Seq(1..Eof(table')) /\ Len(s) \in Nat
  BY <1>1, WiderSeq
<1>3. recMap' \in Seq(1..Eof(table')) /\ Len(recMap) \in Nat
  BY <1>2 DEF Listed
<1>4. CASE rows' = rows /\ row' \in {row} \cup 1..Len(rows)
  <2>1. rows' \in Seq(1..Eof(table')) /\ Len(rows) \in Nat
    BY <1>2, <1>4 DEF Listed
  <2>2. row' \in 0..Len(rows)
    BY <1>4, <2>1 DEF Listed
  <2> QED  BY <1>3, <1>4, <2>1, <2>2 DEF Listed
<1>5. CASE rows' = <<>> /\ row' = 0
  <2>1. rows' \in Seq(1..Eof(table')) /\ Len(rows') = 0
    BY <1>5
  <2> QED  BY <1>3, <1>5, <2>1 DEF Listed
<1> QED  BY <1>4, <1>5

LEMMA RefreshTyped ==
  ASSUME Listed, table.last \in Nat, NEW t, t = table', t.last \in Nat, table.last <= t.last,
         RefreshIn(t), rec' \in 1..Eof(t)
  PROVE  Listed'
<1> DEFINE v == IF Value <= 0 THEN rec ELSE Value
           a == IF v \in t.hidden THEN Forth(t, v) ELSE v
           b == IF t.order # "natural" /\ a = Eof(t) THEN Top(t) ELSE a
           c == IF t.delOn /\ b \in t.deleted THEN Top(t) ELSE b
           r == IF row <= 1 THEN c ELSE v
<1>1. v \in 1..Eof(table) /\ row \in Nat
  <2>1. rec \in 1..Eof(table) /\ Value \in {0} \cup 1..Eof(table) /\ row \in Nat
    BY ValueTyped DEF Listed
  <2>2. \A x \in {0} \cup 1..Eof(table) : x <= 0 \/ x \in 1..Eof(table)
    BY DEF Eof
  <2> QED  BY <2>1, <2>2
<1>2. v \in 1..Eof(t)
  <2> HIDE DEF v
  <2> QED  BY <1>1 DEF Eof
<1>3. r \in 1..Eof(t)
  <2>1. Top(t) \in 1..Eof(t) /\ Forth(t, v) \in 1..Eof(t)
    BY TopShape, ForthShape
  <2> HIDE DEF v
  <2> QED  BY <1>2, <2>1
<1>4. \/ Reset
      \/ /\ Draws(t, IF row = 0 THEN r ELSE Skip(t, r, 1 - row))
         /\ row' = RowOf(rows', v)
  BY DEF RefreshIn, DrawFrom, Draws
<1> HIDE DEF v, r
<1>5. CASE Reset
  BY <1>5, KeptTyped DEF Reset
<1>6. Skip(t, r, 1 - row) \in 1..Eof(t)
  <2>1. 1 - row \in Int
    BY <1>1
  <2> QED  BY <1>3, <2>1, SkipTyped
<1>7. CASE Draws(t, IF row = 0 THEN r ELSE Skip(t, r, 1 - row)) /\ row' = RowOf(rows', v)
  BY <1>3, <1>6, <1>7, DrawnTyped
<1> QED  BY <1>4, <1>5, <1>7

LEMMA SetTyped ==
  ASSUME Listed, table.last \in Nat, NEW t, t = table', t.last \in Nat, table.last <= t.last,
         NEW v \in 1..Eof(t), NEW m \in Int, NEW r, NEW back, SetValueIn(t, v, m, r, back),
         rec' \in 1..Eof(t)
  PROVE  Listed'
<1>1. CASE UNCHANGED list
  BY <1>1, KeptTyped DEF list
<1>2. CASE Reset
  BY <1>2, KeptTyped DEF Reset
<1>3. CASE Draws(t, Skip(t, v, 1 - m)) /\ row' = RowOf(rows', v)
  <2>1. 1 - m \in Int
    OBVIOUS
  <2>2. Skip(t, v, 1 - m) \in 1..Eof(t)
    BY <2>1, SkipTyped
  <2> QED  BY <1>3, <2>2, DrawnTyped
<1> QED  BY <1>1, <1>2, <1>3 DEF SetValueIn, DrawFrom, Draws

\* The record DEL shows afterwards is one of the table.
LEMMA DeletedRow ==
  ASSUME Listed, table \in Table, table' \in Table, table.last <= table'.last, Delete
  PROVE  \E r \in 1..Eof(table') :
           UNCHANGED <<list, rec, event, frames, halt>> \/ SetValueIn(table', r, row, r, rec)
<1>1. /\ table.last \in Nat /\ table'.last \in Nat /\ 1..Eof(table) \subseteq 1..Eof(table')
  BY DEF Table, Eof
<1>2. Value \in 1..Eof(table')
  <2>1. row # 0
    BY DEF Delete
  <2> QED  BY <1>1, <2>1, ValueTyped
<1>3. PICK t, next : DeleteIn(t, Value, next)
  BY DEF Delete
<1> DEFINE below == Forth(t, Value)
           r == IF next THEN IF below = Eof(t) THEN Bottom(t)
                             ELSE IF t.delOn THEN below ELSE Back(t, below)
                ELSE Value
<1>4. t = table'
  BY <1>3 DEF DeleteIn
<1>5. r \in 1..Eof(table')
  <2>1. below \in 1..Eof(t) /\ Back(t, below) \in 1..Eof(t)
    BY <1>1, <1>4, ForthShape, BackShape
  <2>2. Bottom(t) \in 1..Eof(t)
    <3>1. Bottom(t) \in Shown(t) \cup {Eof(t)} /\ t.last \in Nat
      BY <1>1, <1>4, BottomShape
    <3> QED  BY <3>1 DEF Shown, Eof
  <2> HIDE DEF below
  <2> QED  BY <1>2, <1>4, <2>1, <2>2
<1>6. UNCHANGED <<list, rec, event, frames, halt>> \/ SetValueIn(t, r, row, r, rec)
  BY <1>3 DEF DeleteIn
<1> HIDE DEF r
<1> QED  BY <1>4, <1>5, <1>6

\* The pointer stays, goes to some record, or where a block was to go back to.
LEMMA PointerTyped ==
  ASSUME BrowseInv, Listed, table' \in Table, table.last <= table'.last, BrowseNext
  PROVE  rec' \in 1..Eof(table')
<1>1. /\ table.last \in Nat /\ table'.last \in Nat /\ table \in Table
      /\ rec \in 1..Eof(table) /\ 1..Eof(table) \subseteq 1..Eof(table')
  BY DEF BrowseInv, Blocks, Typed, Table, Listed, Eof
<1>2. ASSUME UNCHANGED rec \/ \E r : rec' = GoTo(table', r)  PROVE rec' \in 1..Eof(table')
  BY <1>1, <1>2, GoToShape
<1>3. ASSUME NEW kind, NEW r \in 1..Eof(table'), NEW back, OnChange(kind, r, back)
      PROVE  rec' \in 1..Eof(table')
  BY <1>2, <1>3 DEF OnChange
<1>4. ASSUME NEW t, NEW v, NEW m, NEW r \in 1..Eof(table'), NEW back, SetValueIn(t, v, m, r, back)
      PROVE  rec' \in 1..Eof(table')
  <2>1. UNCHANGED rec \/ \E kind : OnChange(kind, r, back)
    BY <1>4 DEF SetValueIn
  <2> QED  BY <1>2, <1>3, <2>1
<1>5. rec \in 1..Eof(table')
  BY <1>1
<1>6. CASE UserKeys
  <2>1. CASE Delete
    BY <1>1, <1>2, <1>4, <2>1, DeletedRow
  <2>2. CASE SetOrder \/ AppendFails
    BY <1>2, <2>2 DEF SetOrder, AppendFails
  <2>3. ASSUME NEW n, NEW hidden, AppendRecord(n, hidden)  PROVE rec' \in 1..Eof(table')
    <3>1. OnChange("change", rec, 0)
      BY <2>3 DEF AppendRecord
    <3> QED  BY <1>3, <1>5, <3>1
  <2>4. CASE Command
    <3>1. OnChange("change", rec, 0)
      BY <2>4 DEF Command
    <3> QED  BY <1>3, <1>5, <3>1
  <2>5. CASE Home \/ End \/ Up \/ Down \/ PageUp \/ PageDown \/ \E k \in DOMAIN rows : ClickRow(k)
    BY <2>4, <2>5 DEF Home, End, Up, Down, PageUp, PageDown, ClickRow
  <2> QED  BY <1>6, <2>1, <2>2, <2>3, <2>5 DEF UserKeys
<1>7. CASE Editing
  <2>1. ASSUME NEW h, EditSave(h)  PROVE rec' \in 1..Eof(table')
    <3>1. table' = [table EXCEPT !.hidden = h]
          /\ rec' = GoTo([table EXCEPT !.hidden = h], frames[Len(frames) - 1].back)
      BY <2>1 DEF EditSave
    <3> QED  BY <1>2, <3>1
  <2>2. CASE EditStart \/ EditOpen \/ EditRefused \/ EditEscape \/ EditValidate \/ EditInvalid
    BY <1>2, <2>2 DEF EditStart, EditOpen, EditRefused, EditEscape, EditValidate, EditInvalid
  <2> QED  BY <1>7, <2>1, <2>2 DEF Editing
<1>8. CASE BrowseProgram
  <2>1. ASSUME NEW q, SetBrowseValue(q)  PROVE rec' \in 1..Eof(table')
    BY <1>4, <1>5, <2>1 DEF SetBrowseValue
  <2>2. CASE Refresh \/ ReturnChange \/ (\E q \in Goals : ProgramGoes(q)) \/ \E t : TableChanges(t)
    BY <1>2, <2>2 DEF Refresh, ReturnChange, ProgramGoes, TableChanges
  <2> QED  BY <1>8, <2>1, <2>2 DEF BrowseProgram
<1> QED  BY <1>6, <1>7, <1>8 DEF BrowseNext

\* The row Alt+A adds.
LEMMA AppendTyped ==
  ASSUME Listed, table \in Table, table' \in Table, table.last <= table'.last,
         NEW n \in {0, 1}, NEW hidden, AppendRecord(n, hidden), rec' \in 1..Eof(table')
  PROVE  Listed'
<1> DEFINE S == 1..Eof(table')
           page == IF rows = <<>> THEN <<>>
                   ELSE Page(table, Skip(table, Bottom(table), 2 - PageLength))
           base == IF rows = <<>> THEN recMap ELSE page
           new == table.last + 1 + n
<1>1. /\ rows' = Append(page, new) /\ recMap' = Append(base, NewRecord)
      /\ row' = IF Len(recMap') \in 1..Len(rows') THEN Len(recMap') ELSE 0
      /\ table' = [table EXCEPT !.last = new, !.hidden = @ \cup hidden]
  BY DEF AppendRecord
<1>2. table.last \in Nat /\ table'.last = new /\ 1..Eof(table) \subseteq S
  BY <1>1 DEF Table, Eof
<1>3. new \in S /\ NewRecord \in S
  BY <1>2 DEF NewRecord, Eof
<1>4. page \in Seq(S) /\ base \in Seq(S) /\ Len(page) \in Nat /\ Len(base) \in Nat /\ Len(page) <= Len(base)
  <2>1. CASE rows = <<>>
    <3>1. page = <<>> /\ base = recMap
      BY <2>1
    <3>2. recMap \in Seq(S) /\ Len(recMap) \in Nat
      BY <1>2, WiderSeq DEF Listed
    <3>3. <<>> \in Seq(S) /\ Len(<<>>) = 0
      OBVIOUS
    <3> HIDE DEF S, page, base
    <3> QED  BY <3>1, <3>2, <3>3
  <2>2. CASE rows # <<>>
    <3>1. base = page /\ page = Page(table, Skip(table, Bottom(table), 2 - PageLength))
      BY <2>2
    <3>2. page \in Seq(1..Eof(table))
      BY <1>2, <3>1, LastPage
    <3> HIDE DEF S, page, base
    <3>3. page \in Seq(S) /\ Len(page) \in Nat
      BY <1>2, <3>2, WiderSeq
    <3> QED  BY <3>1, <3>3
  <2> QED  BY <2>1, <2>2
<1> HIDE DEF S, page, base, new
<1>5. /\ rows' \in Seq(S) /\ Len(rows') = Len(page) + 1
      /\ recMap' \in Seq(S) /\ Len(recMap') = Len(base) + 1
  BY <1>1, <1>3, <1>4, AppendProperties
<1>6. Len(rows') <= Len(recMap') /\ row' \in 0..Len(rows')
  BY <1>1, <1>4, <1>5
<1> QED  BY <1>5, <1>6 DEF Listed, S

LEMMA ListedStep ==
  ASSUME BrowseInv, Listed, table' \in Table, table.last <= table'.last, BrowseNext
  PROVE  Listed'
<1>1. /\ table.last \in Nat /\ table'.last \in Nat /\ table \in Table
      /\ rec' \in 1..Eof(table') /\ PageLength \in Nat
  BY PointerTyped, BrowseAssumption DEF BrowseInv, Blocks, Typed, Table, BrowseBounds
<1>2. ASSUME UNCHANGED <<rows, recMap>>, row' \in {row} \cup 1..Len(rows)  PROVE Listed'
  BY <1>1, <1>2, KeptTyped
<1>3. ASSUME UNCHANGED list  PROVE Listed'
  BY <1>2, <1>3 DEF list
<1>4. ASSUME RefreshIn(table')  PROVE Listed'
  BY <1>1, <1>4, RefreshTyped
<1>5. ASSUME NEW v \in 1..Eof(table'), NEW m \in Int, NEW r, NEW back,
             SetValueIn(table', v, m, r, back)
      PROVE  Listed'
  BY <1>1, <1>5, SetTyped
<1>6. ASSUME UNCHANGED table, NEW r \in 1..Eof(table), Draws(table, r),
             row' \in {0, 1, Len(rows')} \/ \E x : row' = RowOf(rows', x)
      PROVE  Listed'
  BY <1>1, <1>6, DrawnTyped
<1>7. Bottom(table) \in 1..Eof(table) /\ Top(table) \in 1..Eof(table)
  <2>1. Bottom(table) \in Shown(table) \cup {Eof(table)}
    BY <1>1, BottomShape
  <2> QED  BY <1>1, <2>1, TopShape DEF Shown, Eof
<1>8. \A r \in 1..Eof(table) : /\ Skip(table, r, 1 - PageLength) \in 1..Eof(table)
                              /\ Skip(table, r, 2 - PageLength) \in 1..Eof(table)
  <2>1. 1 - PageLength \in Int /\ 2 - PageLength \in Int
    BY <1>1
  <2> QED  BY <1>1, <2>1, SkipTyped
<1>9. \A k \in Nat : row = k /\ k # 0 => recMap[k] \in 1..Eof(table)
  BY <1>1, ValueTyped DEF Value
<1>10. ASSUME NEW k, Select(k)  PROVE row' \in {row} \cup 1..Len(rows)
  BY <1>10 DEF Select
<1>11. CASE Home \/ End \/ Up \/ Down \/ PageUp \/ PageDown \/ \E k \in DOMAIN rows : ClickRow(k)
  <2>0. UNCHANGED table
    BY <1>11 DEF Command, Home, End, Up, Down, PageUp, PageDown, ClickRow
  <2>1. \/ UNCHANGED <<rows, recMap>> /\ row' \in {row} \cup 1..Len(rows)
        \/ \E r \in 1..Eof(table) : /\ Draws(table, r)
                                    /\ \/ row' \in {0, 1, Len(rows')}
                                       \/ \E x : row' = RowOf(rows', x)
    <3>1. CASE Home
      BY <1>7, <3>1 DEF Home, DrawFrom, Draws
    <3>2. CASE End
      <4>1. Skip(table, Bottom(table), 1 - PageLength) \in 1..Eof(table)
        BY <1>1, <1>7, <1>8
      <4> QED  BY <3>2, <4>1 DEF End, DrawFrom, Draws
    <3>3. CASE Up
      <4>1. Back(table, recMap[1]) \in 1..Eof(table)
        BY <1>1, BackShape
      <4> QED  BY <1>10, <3>3, <4>1 DEF Up, DrawFrom, Draws
    <3>4. CASE Down
      <4>1. Forth(table, recMap[1]) \in 1..Eof(table)
        BY <1>1, ForthShape
      <4> QED  BY <1>10, <3>4, <4>1 DEF Down, DrawFrom, Draws
    <3>5. CASE PageUp
      <4>1. row = 1 => Skip(table, recMap[1], 1 - PageLength) \in 1..Eof(table)
        BY <1>1, <1>8, <1>9
      <4> QED  BY <1>10, <3>5, <4>1 DEF PageUp, DrawFrom, Draws
    <3>6. CASE PageDown
      <4>1. row = PageLength => recMap[PageLength] \in 1..Eof(table)
        BY <1>1, <1>9, BrowseAssumption DEF BrowseBounds
      <4> QED  BY <1>10, <3>6, <4>1 DEF PageDown, DrawFrom, Draws
    <3>7. CASE \E k \in DOMAIN rows : ClickRow(k)
      BY <1>10, <3>7 DEF ClickRow
    <3> QED  BY <1>11, <3>1, <3>2, <3>3, <3>4, <3>5, <3>6, <3>7
  <2> QED  BY <1>2, <1>6, <2>0, <2>1
<1>12. CASE Delete
  <2>1. PICK r \in 1..Eof(table') : UNCHANGED list \/ SetValueIn(table', r, row, r, rec)
    BY <1>1, <1>12, DeletedRow
  <2>2. row \in Int
    BY <1>1, ValueTyped
  <2> QED  BY <1>3, <1>5, <2>1, <2>2
<1>13. CASE AppendFails
  <2>1. Skip(table, Bottom(table), 2 - PageLength) \in 1..Eof(table)
    BY <1>1, <1>7, <1>8
  <2>2. \/ UNCHANGED list
        \/ /\ UNCHANGED table /\ Draws(table, Skip(table, Bottom(table), 2 - PageLength))
           /\ row' = 0
    BY <1>13 DEF AppendFails, DrawFrom, Draws
  <2> QED  BY <1>3, <1>6, <2>1, <2>2
<1>14. CASE \E n \in IF Shared THEN {0, 1} ELSE {0}, h \in SUBSET {table.last + 1} : AppendRecord(n, h)
  BY <1>1, <1>14, AppendTyped
<1>15. CASE SetOrder \/ Refresh
  <2>1. RefreshIn(table')
    <3>1. Refresh => UNCHANGED table /\ RefreshIn(table)
      BY DEF Refresh
    <3>2. UNCHANGED table => RefreshIn(table) = RefreshIn(table')
      OBVIOUS
    <3>3. SetOrder => RefreshIn(table')
      BY DEF SetOrder
    <3> QED  BY <1>15, <3>1, <3>2, <3>3
  <2> QED  BY <1>4, <2>1
<1>16. CASE Editing
  <2>1. ASSUME NEW h, EditSave(h)  PROVE Listed'
    <3> DEFINE t == [table EXCEPT !.hidden = h]
    <3>1. table' = t /\ RefreshIn(t)
      BY <2>1 DEF EditSave
    <3> HIDE DEF t
    <3> QED  BY <1>4, <3>1
  <2>2. CASE EditStart \/ EditOpen \/ EditRefused \/ EditEscape \/ EditValidate \/ EditInvalid
    BY <1>3, <2>2 DEF EditStart, EditOpen, EditRefused, EditEscape, EditValidate, EditInvalid
  <2> QED  BY <1>16, <2>1, <2>2 DEF Editing
<1>17. ASSUME NEW q \in Goals, SetBrowseValue(q)  PROVE Listed'
  <2>1. UNCHANGED table /\ q <= Eof(table) /\ SetValueIn(table, q, PageLength \div 2, rec, 0)
    BY <1>17 DEF SetBrowseValue
  <2>2. q \in 1..Eof(table')
    BY <1>1, <2>1, BrowseAssumption DEF BrowseBounds, Eof
  <2>3. PageLength \div 2 \in Int
    BY <1>1
  <2>4. SetValueIn(table', q, PageLength \div 2, rec, 0)
    BY <2>1
  <2> QED  BY <1>5, <2>2, <2>3, <2>4
<1>18. CASE ReturnChange \/ (\E r \in Goals : ProgramGoes(r)) \/ \E t : TableChanges(t)
  BY <1>2, <1>3, <1>18 DEF ReturnChange, ProgramGoes, TableChanges
<1>19. CASE UserKeys
  BY <1>11, <1>12, <1>13, <1>14, <1>15, <1>19 DEF UserKeys
<1>20. CASE BrowseProgram
  BY <1>15, <1>17, <1>18, <1>20 DEF BrowseProgram
<1> QED  BY <1>16, <1>19, <1>20 DEF BrowseNext

\* The marks of a step: flags, counter, locks and the event type.
LEMMA FlagsStep ==
  ASSUME BrowseInv, Flags, table' \in Table, rec' \in 1..Eof(table'), BrowseNext
  PROVE  Flags'
<1> DEFINE Drawn3 == atEnd' \in BOOLEAN /\ fresh' \in BOOLEAN /\ drift' \in BOOLEAN
           Events == {event, "", "BROWSE_ONCHANGE", "BROWSE_WHEN", "BROWSE_VALID"}
           Still  == UNCHANGED <<halt, changes, strayed, locks>> /\ event' \in Events
<1>1. /\ rec' \in Records /\ table'.last \in 1..MaxRecords /\ MaxRecords \in Nat
      /\ changes \in Nat /\ MaxChanges \in Nat
  <2>1. table'.last \in 1..MaxRecords /\ MaxRecords \in Nat /\ MaxChanges \in Nat
    BY BrowseAssumption DEF Table, BrowseBounds
  <2>2. 1..Eof(table') \subseteq Records
    BY <2>1 DEF Records, Eof
  <2> QED  BY <2>1, <2>2 DEF BrowseInv, Blocks, Typed
<1>2. ASSUME Drawn3, halt' \in {halt, TRUE}, strayed' \in BOOLEAN,
             changes' = changes \/ (changes < MaxChanges /\ changes' = changes + 1),
             locks' \subseteq locks \cup Records, event' \in Events
      PROVE  Flags'
  <2>1. changes' \in 0..MaxChanges
    <3>1. changes \in 0..MaxChanges
      BY DEF Flags
    <3>2. changes' = changes \/ (changes < MaxChanges /\ changes' = changes + 1)
      BY <1>2
    <3>3. MaxChanges \in Nat
      BY <1>1
    <3> QED  BY ONLY <3>1, <3>2, <3>3
  <2> QED  BY <1>2, <2>1 DEF Flags
<1>3. ASSUME \/ UNCHANGED list \/ Reset \/ UNCHANGED <<atEnd, fresh, drift>>
             \/ \E t, r : Draws(t, r) /\ fresh' = TRUE /\ drift' = FALSE
      PROVE  Drawn3
  BY <1>3 DEF Flags, list, Reset, Draws
<1>4. ASSUME Drawn3, Still  PROVE Flags'
  BY <1>2, <1>4 DEF Flags
<1>5. ASSUME NEW t, RefreshIn(t)  PROVE Drawn3
  <2>1. Reset \/ \E r : Draws(t, r) /\ fresh' = TRUE /\ drift' = FALSE
    BY <1>5 DEF RefreshIn, DrawFrom, Draws
  <2> QED  BY <1>3, <2>1
<1>6. ASSUME NEW t, NEW v, NEW m, NEW r, NEW back, SetValueIn(t, v, m, r, back)
      PROVE  Drawn3 /\ halt' \in {halt, TRUE} /\ event' \in Events
  <2>1. \/ UNCHANGED list \/ Reset
        \/ \E q : Draws(t, q) /\ fresh' = TRUE /\ drift' = FALSE
    BY <1>6 DEF SetValueIn, DrawFrom, Draws
  <2>2. halt' \in {halt, TRUE} /\ event' \in Events
    BY <1>6 DEF SetValueIn
  <2> QED  BY <1>3, <2>1, <2>2
<1>7. CASE Home \/ End \/ Up \/ Down \/ PageUp \/ PageDown \/ \E k \in DOMAIN rows : ClickRow(k)
  <2>1. Still
    BY <1>7 DEF Command, others, Home, End, Up, Down, PageUp, PageDown, ClickRow
  <2>2. \/ UNCHANGED <<atEnd, fresh, drift>>
        \/ \E r : Draws(table, r) /\ fresh' = TRUE /\ drift' = FALSE
    BY <1>7 DEF Home, End, Up, Down, PageUp, PageDown, ClickRow, DrawFrom, Draws
  <2> QED  BY <1>3, <1>4, <2>1, <2>2
<1>8. CASE Delete
  <2>1. PICK t, next : DeleteIn(t, Value, next)
    BY <1>8 DEF Delete
  <2>2. PICK r : UNCHANGED <<list, rec, event, frames, halt>> \/ SetValueIn(t, r, row, r, rec)
    BY <2>1 DEF DeleteIn
  <2>3. Drawn3 /\ halt' \in {halt, TRUE} /\ event' \in Events
    BY <1>3, <1>6, <2>2
  <2>4. UNCHANGED <<changes, strayed>> /\ locks' \subseteq locks
    BY <1>8 DEF Delete, others
  <2> QED  BY <1>2, <2>3, <2>4 DEF Flags
<1>9. CASE SetOrder
  <2>1. /\ RefreshIn(table') /\ UNCHANGED <<event, locks, halt, strayed>>
        /\ changes < MaxChanges /\ changes' = changes + 1
    BY <1>9 DEF SetOrder
  <2> QED  BY <1>2, <1>5, <2>1 DEF Flags
<1>10. CASE AppendFails
  <2>1. UNCHANGED list \/ \E r : Draws(table, r) /\ fresh' = TRUE /\ drift' = FALSE
    BY <1>10 DEF AppendFails, DrawFrom, Draws
  <2>2. Still
    BY <1>10 DEF AppendFails, others
  <2> QED  BY <1>3, <1>4, <2>1, <2>2
<1>11. ASSUME NEW n \in {0, 1}, NEW hidden, AppendRecord(n, hidden)  PROVE Flags'
  <2>1. /\ table'.last = table.last + 1 + n /\ UNCHANGED <<event, halt, changes, strayed>>
        /\ locks' \subseteq locks \cup {table.last + 1 + n}
    <3>1. table \in Table
      BY DEF BrowseInv, Blocks, Typed
    <3> QED  BY <1>11, <3>1 DEF AppendRecord, others, Table
  <2>2. atEnd' \in BOOLEAN /\ fresh' \in BOOLEAN /\ drift' \in BOOLEAN
    <3>1. atEnd' = (rows # <<>> \/ atEnd) /\ drift' = (n > 0 \/ (rows = <<>> /\ drift))
      BY <1>11 DEF AppendRecord
    <3>2. \E a, b, c, d, e : fresh' = (a /\ b /\ c /\ d /\ e)
      BY <1>11, Zenon DEF AppendRecord
    <3> QED  BY <3>1, <3>2
  <2>3. table'.last \in Records
    BY <1>1 DEF Records
  <2> QED  BY <1>2, <2>1, <2>2, <2>3 DEF Flags
<1>12. CASE Editing
  <2>1. ASSUME NEW h, EditSave(h)  PROVE Flags'
    <3>1. /\ RefreshIn([table EXCEPT !.hidden = h]) /\ UNCHANGED <<halt, changes>> /\ event' = ""
          /\ locks' \subseteq locks
      BY <2>1 DEF EditSave, others
    <3>2. strayed' \in BOOLEAN
      BY <2>1, Zenon DEF EditSave
    <3> QED  BY <1>2, <1>5, <3>1, <3>2
  <2>2. CASE EditStart
    <3>1. /\ UNCHANGED <<list, halt, changes, strayed>> /\ event' = "BROWSE_WHEN"
          /\ locks' \subseteq locks \cup {rec'}
      BY <2>2 DEF EditStart, others
    <3> QED  BY <1>1, <1>2, <1>3, <3>1 DEF Flags
  <2>3. CASE EditOpen \/ EditRefused \/ EditEscape \/ EditValidate \/ EditInvalid
    <3>1. /\ UNCHANGED <<list, halt, changes, strayed>> /\ event' \in Events
          /\ locks' \subseteq locks
      BY <2>3 DEF EditOpen, EditRefused, EditEscape, EditValidate, EditInvalid, others
    <3> QED  BY <1>2, <1>3, <3>1 DEF Flags
  <2> QED  BY <1>12, <2>1, <2>2, <2>3 DEF Editing
<1>13. ASSUME NEW q, SetBrowseValue(q)  PROVE Flags'
  <2>1. UNCHANGED <<locks, changes, strayed>> /\ SetValueIn(table, q, PageLength \div 2, rec, 0)
    BY <1>13 DEF SetBrowseValue, others
  <2> QED  BY <1>2, <1>6, <2>1 DEF Flags
<1>14. CASE Refresh
  <2>1. RefreshIn(table) /\ Still
    BY <1>14 DEF Refresh, others
  <2> QED  BY <1>4, <1>5, <2>1
<1>15. CASE ReturnChange \/ \E q \in Goals : ProgramGoes(q)
  <2>1. UNCHANGED list /\ Still
    BY <1>15 DEF ReturnChange, ProgramGoes, others
  <2> QED  BY <1>3, <1>4, <2>1
<1>16. CASE \E t : TableChanges(t)
  <2>1. /\ UNCHANGED <<atEnd, drift, event, halt, locks, strayed>> /\ fresh' = FALSE
        /\ changes < MaxChanges /\ changes' = changes + 1
    BY <1>16 DEF TableChanges
  <2> QED  BY <1>2, <2>1 DEF Flags
<1>17. CASE UserKeys
  BY <1>7, <1>8, <1>9, <1>10, <1>11, <1>17 DEF UserKeys
<1>18. CASE BrowseProgram
  BY <1>13, <1>14, <1>15, <1>16, <1>18 DEF BrowseProgram
<1> QED  BY <1>12, <1>17, <1>18 DEF BrowseNext

\* The variables of a BROWSE keep their types: what its rows, its record map,
\* the blocks in progress and the pointer name are records of the table or its
\* end, the row selected is a row, and each row has its place in the map.
THEOREM BrowseTypes == BrowseSpec => []BrowseTypeOK
<1> DEFINE Both == Listed /\ Flags
<1>1. InitBrowse => Both
  <2> SUFFICES ASSUME InitBrowse  PROVE Listed /\ Flags
    OBVIOUS
  <2>1. table.last \in Nat /\ MaxChanges \in Nat
    <3>1. /\ table \in [last : 1..MaxRecords, hidden : {{}}, deleted : {{}}, delOn : BOOLEAN,
                       order : {"natural", "up"}]
          /\ MaxRecords \in Nat /\ MaxChanges \in Nat
      BY BrowseAssumption DEF InitBrowse, BrowseBounds
    <3> QED  BY <3>1
  <2>2. rows = <<>> /\ recMap = <<>> /\ row = 0 /\ rec = Top(table)
    BY DEF InitBrowse
  <2>3. Listed
    <3>1. <<>> \in Seq(1..Eof(table)) /\ Len(<<>>) = 0
      OBVIOUS
    <3> QED  BY <2>1, <2>2, <3>1, TopShape DEF Listed
  <2>4. Flags
    <3>1. changes = 0 /\ locks = {} /\ event = ""
      BY DEF InitBrowse
    <3>2. 0 \in 0..MaxChanges
      BY <2>1
    <3>3. /\ atEnd = FALSE /\ fresh = FALSE /\ drift = FALSE /\ strayed = FALSE /\ halt = FALSE
      BY DEF InitBrowse
    <3> QED  BY <3>1, <3>2, <3>3 DEF Flags
  <2> QED  BY <2>3, <2>4
<1>2. Both /\ BrowseInv /\ BrowseInv' /\ [BrowseNext]_browseVars => Both'
  <2> SUFFICES ASSUME Listed, Flags, BrowseInv, BrowseInv', [BrowseNext]_browseVars  PROVE Listed' /\ Flags'
    OBVIOUS
  <2>1. CASE BrowseNext
    <3>1. table' \in Table /\ table.last <= table'.last
      BY <2>1, NoneLost DEF BrowseInv, Blocks, Typed
    <3>2. Listed' /\ rec' \in 1..Eof(table')
      BY <2>1, <3>1, ListedStep, PointerTyped
    <3> QED  BY <2>1, <3>1, <3>2, FlagsStep
  <2>2. CASE UNCHANGED browseVars
    BY <2>2 DEF browseVars, list, others, Listed, Flags, Eof
  <2> QED  BY <2>1, <2>2
<1>3. CursorInv /\ Both => BrowseTypeOK
  <2> SUFFICES ASSUME CursorInv, Listed, Flags  PROVE BrowseTypeOK
    OBVIOUS
  <2>1. Typed /\ Nested /\ Sized
    BY DEF CursorInv, PagesInv, BrowseInv, Blocks
  <2>2. table \in Table /\ table.last \in 1..MaxRecords /\ MaxRecords \in Nat
    BY <2>1, BrowseAssumption DEF Typed, Table, BrowseBounds
  <2>3. 1..Eof(table) \subseteq Records
    BY <2>2 DEF Records, Eof
  <2>4. rows \in Seq(Records) /\ recMap \in Seq(Records) /\ rec \in Records /\ home \in Records
    BY <2>1, <2>3, WiderSeq DEF Listed, Typed
  <2> DEFINE F == [kind : {"change", "set", "when", "edit", "valid"}, back : 0..(MaxRecords + 1),
                   nrec : 0..(MaxRecords + 1), moved : BOOLEAN]
  <2>5. frames \in Seq(F)
    <3>1. frames \in Seq(Frame) /\ Len(frames) \in Nat /\ DOMAIN frames = 1..Len(frames)
      BY <2>1 DEF Typed
    <3>2. ASSUME NEW k \in 1..Len(frames)  PROVE frames[k] \in F
      <4>1. frames[k] \in Frame
        BY <3>1
      <4>2. frames[k].back <= Eof(table) /\ frames[k].nrec <= Eof(table)
        BY <2>1, <3>1 DEF Nested
      <4>3. frames[k].back \in 0..(MaxRecords + 1) /\ frames[k].nrec \in 0..(MaxRecords + 1)
        BY <2>2, <4>1, <4>2 DEF Frame, Eof
      <4> QED  BY <4>1, <4>3 DEF Frame, Kinds
    <3> HIDE DEF F
    <3> QED  BY <3>1, <3>2
  <2>6. table \in [last : 1..MaxRecords, hidden : SUBSET (1..MaxRecords),
                   deleted : SUBSET (1..MaxRecords), delOn : BOOLEAN,
                   order : {"natural", "up", "down"}]
    BY <2>2 DEF Table
  <2> HIDE DEF F
  <2>7. Len(rows) <= PageLength /\ Len(rows) <= Len(recMap) /\ row \in 0..Len(rows) /\ sync \in BOOLEAN
    BY <2>1 DEF Sized, Listed, Typed
  <2> QED  BY <2>4, <2>5, <2>6, <2>7 DEF BrowseTypeOK, Flags, F
<1> HIDE DEF Both
<1> QED  BY <1>1, <1>2, <1>3, BrowseInvariant, CursorInvariant, PTL DEF BrowseSpec
===============================================================================
