------------------------------ MODULE Tree_proofs ------------------------------
(***************************************************************************)
(* TREE for any number of items, Ids and nested deletions. The tree is a   *)
(* family of sets: to each item those under it (Forest). A sequence that   *)
(* keeps each of these sets together (Lists) goes on doing so when the set *)
(* of an item is cut out, or a new item put behind it.                     *)
(*                                                                         *)
(* What holds of every program, whatever the blocks of its deletions do    *)
(* (TreeBase): the tree view is such a sequence, and the entries of the    *)
(* three arrays that stand side by side belong together. As long as no     *)
(* block adds or deletes items, and on at most three levels (Matched): the *)
(* arrays are such a sequence too, that of the tree view until it is       *)
(* sorted; while deletions are pending, the arrays as these leave them.    *)
(***************************************************************************)
EXTENDS Tree, SequenceTheorems, FiniteSetTheorems, FunctionTheorems,
        WellFoundedInduction, TLAPS

Forest(S, U) ==
  /\ U \in [S -> SUBSET S]
  /\ \A x \in S : x \in U[x]
  /\ \A x \in S : \A y \in U[x] : U[y] \subseteq U[x]
  /\ \A x, y \in S : U[x] \cap U[y] # {} => x \in U[y] \/ y \in U[x]

Lists(s, S, U) ==
  /\ s \in Seq(S)
  /\ \A i, j \in DOMAIN s : s[i] = s[j] => i = j
  /\ \A x \in S : \E i \in DOMAIN s : s[i] = x
  /\ \A i, j \in DOMAIN s : s[j] \in U[s[i]] => i <= j /\ \A k \in i..j : s[k] \in U[s[i]]

UnderOf == [x \in Items |-> Under(x)]

\* The entries once the pending deletions are done: one of an item, or of all.
KeptEntries ==
  IF pending = <<>> THEN handles
  ELSE IF view = <<>> THEN <<>>
  ELSE Resize(Cut(handles, pending[1].place, pending[1].before - Count), Count)

\* What is over an item is a path from the root.
Branches ==
  /\ Len(above) = Len(idOf) /\ Len(idOf) <= MaxItems
  /\ \A x \in Items :
       /\ x <= Len(idOf)
       /\ above[x] \subseteq {Root} \cup Items /\ Root \in above[x] /\ x \notin above[x]
       /\ IsFiniteSet(above[x]) /\ Cardinality(above[x]) <= MaxLevel
       /\ \A a \in above[x] \ {Root} :
            /\ above[a] \subseteq above[x] /\ Cardinality(above[a]) < Cardinality(above[x])
            /\ \A b \in above[x] \ {Root} : a = b \/ a \in above[b] \/ b \in above[a]

Known == \A k \in Places : handles[k] \in 0..Len(idOf)

Matched ==
  ~reentered =>
    /\ Lists(KeptEntries, Items, UnderOf)
    /\ ~sorted => KeptEntries = view
    /\ pending # <<>> /\ view # <<>> =>
         /\ Len(pending) = 1 /\ pending[1].place \in Places
         /\ pending[1].before = Len(handles) /\ Count <= Len(handles)

\* The open nodes of a definition are a path from the root to the end of the tree.
Growing ==
  Defining =>
    /\ pending = <<>> /\ ~sorted /\ ~reentered /\ nodes[1] = Root
    /\ \A i \in 2..Len(nodes) :
         /\ nodes[i] \in Items /\ above[nodes[i]] = {nodes[j] : j \in 1..(i - 1)}
         /\ Cardinality(above[nodes[i]]) = i - 1
         /\ view[Count] \in Under(nodes[i])

TreeBase ==
  TreeTypeOK /\ Branches /\ Lists(view, Items, UnderOf) /\ Known /\ Growing /\ EntriesBelong

TreeInv == TreeBase /\ Matched

-------------------------------------------------------------------------------
(* Sequences that keep the sets of a forest together.                      *)

LEMMA NatWellFounded == IsWellFoundedOn({p \in Nat \X Nat : p[1] < p[2]}, Nat)
BY NatLessThanWellFounded DEF OpToRel

\* Among numbers up to n one is the greatest.
LEMMA GreatestExists ==
  ASSUME NEW n \in Nat, NEW P \in SUBSET (1..n), P # {}
  PROVE  \E e \in P : \A q \in P : q <= e
<1> DEFINE R == {p \in Nat \X Nat : p[1] < p[2]}
           Q == {n - q : q \in P}
<1>1. Q \in SUBSET Nat /\ Q # {}
  <2>1. \A q \in P : n - q \in Nat
    OBVIOUS
  <2> QED  BY <2>1
<1>2. IsWellFoundedOn(R, Nat)
  BY NatWellFounded
<1>3. PICK d \in Q : \A c \in Q : ~(<<c, d>> \in R)
  <2> HIDE DEF R, Q
  <2> QED  BY <1>1, <1>2, WFMin
<1>4. PICK e \in P : d = n - e
  BY <1>3
<1>5. ASSUME NEW q \in P  PROVE q <= e
  <2>1. n - q \in Q /\ n - q \in Nat /\ n - e \in Nat
    BY <1>1
  <2>2. ~(<<n - q, n - e>> \in R)
    BY <1>3, <1>4, <2>1
  <2>3. ~(n - q < n - e)
    BY <2>1, <2>2
  <2> QED  BY <2>1, <2>3
<1> QED  BY <1>5

\* What is under the p-th item stands behind it without a gap.
LEMMA Block ==
  ASSUME NEW S, NEW U, NEW s, Forest(S, U), Lists(s, S, U), NEW p \in 1..Len(s)
  PROVE  LET n == Cardinality(U[s[p]])
         IN  /\ IsFiniteSet(U[s[p]]) /\ n \in Nat \ {0} /\ p + n - 1 <= Len(s)
             /\ \A q \in 1..Len(s) : s[q] \in U[s[p]] <=> q \in p..(p + n - 1)
<1>1. Len(s) \in Nat /\ s \in [1..Len(s) -> S] /\ DOMAIN s = 1..Len(s)
  BY LenProperties DEF Lists
<1> DEFINE h == s[p]
           P == {q \in 1..Len(s) : s[q] \in U[h]}
           f == [q \in P |-> s[q]]
<1>2. h \in S /\ h \in U[h] /\ U[h] \subseteq S
  BY <1>1 DEF Forest
<1>3. p \in P /\ P \in SUBSET (1..Len(s))
  BY <1>2
<1>4. PICK e \in P : \A q \in P : q <= e
  BY <1>1, <1>3, GreatestExists
<1>5. P = p..e
  <2>1. \A q \in P : p <= q /\ \A k \in p..q : s[k] \in U[h]
    BY <1>1 DEF Lists
  <2>2. ASSUME NEW q \in P  PROVE q \in p..e
    BY <2>1, <2>2, <1>4, <1>1
  <2>3. ASSUME NEW q \in p..e  PROVE q \in P
    BY <2>1, <2>3, <1>4, <1>1
  <2> QED  BY <2>2, <2>3
<1>6. f \in Bijection(P, U[h])
  <2>1. f \in [P -> U[h]]
    OBVIOUS
  <2>2. \A i, j \in P : f[i] = f[j] => i = j
    BY <1>1 DEF Lists
  <2>3. ASSUME NEW x \in U[h]  PROVE \E i \in P : f[i] = x
    <3>1. PICK i \in 1..Len(s) : s[i] = x
      BY <1>1, <1>2 DEF Lists
    <3> QED  BY <3>1
  <2> HIDE DEF f, P, h
  <2> QED  BY <2>1, <2>2, <2>3, Fun_IsBij
<1>7. IsFiniteSet(P) /\ Cardinality(P) = e - p + 1 /\ e \in p..Len(s)
  <2>1. e \in Int /\ p \in Int /\ p <= e /\ e <= Len(s)
    BY <1>1, <1>3, <1>4
  <2>2. IsFiniteSet(p..e) /\ Cardinality(p..e) = IF p > e THEN 0 ELSE e - p + 1
    BY <2>1, FS_Interval
  <2> HIDE DEF P
  <2> QED  BY <1>1, <1>5, <2>1, <2>2
<1>8. IsFiniteSet(U[h]) /\ Cardinality(U[h]) = Cardinality(P)
  <2> HIDE DEF f, P, h
  <2>1. ExistsBijection(P, U[h])
    BY <1>6 DEF ExistsBijection
  <2> QED  BY <1>7, <2>1, FS_Bijection
<1> HIDE DEF f
<1>9. \A q \in 1..Len(s) : s[q] \in U[h] <=> q \in p..e
  BY <1>5
<1> HIDE DEF P, h
<1>10. /\ Cardinality(U[h]) \in Nat \ {0} /\ p + Cardinality(U[h]) - 1 = e
  BY <1>1, <1>7, <1>8
<1> QED  BY <1>1, <1>7, <1>8, <1>9, <1>10 DEF h

LEMMA ListType == ASSUME NEW C, NEW n \in Nat, NEW t \in [1..n -> C] PROVE t \in Seq(C)
BY SeqDef, Zenon

LEMMA PutAtShape ==
  ASSUME NEW S, NEW s \in Seq(S), NEW c \in 1..(Len(s) + 1), NEW v
  PROVE  /\ PutAt(s, c, v) \in Seq(S \cup {v}) /\ Len(PutAt(s, c, v)) = Len(s) + 1
         /\ PutAt(s, c, v)[c] = v
         /\ \A k \in 1..(c - 1) : PutAt(s, c, v)[k] = s[k]
         /\ \A k \in (c + 1)..(Len(s) + 1) : PutAt(s, c, v)[k] = s[k - 1]
<1> DEFINE t == PutAt(s, c, v)
<1>1. Len(s) \in Nat /\ s \in [1..Len(s) -> S]
  BY LenProperties
<1>2. t = [k \in 1..(Len(s) + 1) |-> IF k < c THEN s[k] ELSE IF k = c THEN v ELSE s[k - 1]]
  BY DEF PutAt
<1>3. t \in [1..(Len(s) + 1) -> S \cup {v}]
  BY <1>1, <1>2
<1> HIDE DEF t
<1>4. t \in Seq(S \cup {v})
  <2>1. Len(s) + 1 \in Nat
    BY <1>1
  <2> QED  BY <1>3, <2>1, ListType
<1>5. Len(t) = Len(s) + 1
  BY <1>1, <1>3, <1>4, LenProperties
<1>6. /\ t[c] = v /\ \A k \in 1..(c - 1) : t[k] = s[k]
      /\ \A k \in (c + 1)..(Len(s) + 1) : t[k] = s[k - 1]
  BY <1>1, <1>2
<1> QED  BY <1>4, <1>5, <1>6 DEF t

LEMMA PutAtTyped ==
  ASSUME NEW S, NEW s \in Seq(S), NEW v \in S, NEW c \in 1..(Len(s) + 1)
  PROVE  /\ PutAt(s, c, v) \in Seq(S) /\ Len(PutAt(s, c, v)) = Len(s) + 1
         /\ PutAt(s, c, v)[c] = v
         /\ \A k \in 1..(c - 1) : PutAt(s, c, v)[k] = s[k]
         /\ \A k \in (c + 1)..(Len(s) + 1) : PutAt(s, c, v)[k] = s[k - 1]
<1>1. S \cup {v} = S
  OBVIOUS
<1> QED  BY <1>1, PutAtShape

\* A new item n put behind the last of those under the p-th item is under that
\* item, and everything that item is under.
LEMMA InsertLists ==
  ASSUME NEW S, NEW U, NEW s, Forest(S, U), Lists(s, S, U), NEW p \in 1..Len(s), NEW n, n \notin S,
         NEW V, V = [x \in S \cup {n} |-> IF x = n THEN {n} ELSE IF s[p] \in U[x] THEN U[x] \cup {n} ELSE U[x]]
  PROVE  Lists(PutAt(s, p + Cardinality(U[s[p]]), n), S \cup {n}, V)
<1> DEFINE h == s[p]
           c == p + Cardinality(U[h])
           t == PutAt(s, c, n)
<1>1. s \in Seq(S) /\ Len(s) \in Nat /\ s \in [1..Len(s) -> S] /\ DOMAIN s = 1..Len(s)
  BY LenProperties DEF Lists
<1>2. c \in (p + 1)..(Len(s) + 1) /\ \A q \in 1..Len(s) : s[q] \in U[h] <=> q \in p..(c - 1)
  <2> DEFINE m == Cardinality(U[h])
  <2>1. /\ m \in Nat \ {0} /\ p + m - 1 <= Len(s)
        /\ \A q \in 1..Len(s) : s[q] \in U[h] <=> q \in p..(p + m - 1)
    BY Block
  <2> HIDE DEF m, h
  <2>2. c = p + m
    BY DEF m
  <2> QED  BY <1>1, <2>1, <2>2
<1>3. h \in S /\ h \in U[h]
  BY <1>1 DEF Forest
<1> HIDE DEF c, h
<1>4. /\ t \in Seq(S \cup {n}) /\ Len(t) = Len(s) + 1 /\ t[c] = n
      /\ \A k \in 1..(c - 1) : t[k] = s[k]
      /\ \A k \in (c + 1)..(Len(s) + 1) : t[k] = s[k - 1]
  <2>1. c \in 1..(Len(s) + 1)
    BY <1>1, <1>2
  <2> HIDE DEF t
  <2> QED  BY ONLY <1>1, <2>1, PutAtShape DEF t
<1> DEFINE g(k) == IF k < c THEN k ELSE k - 1
<1>5. \A k \in 1..Len(t) : k # c => g(k) \in 1..Len(s) /\ t[k] = s[g(k)] /\ t[k] # n /\ t[k] \in S
  BY <1>1, <1>2, <1>4
<1> HIDE DEF t
<1>6. ASSUME NEW i \in 1..Len(t), NEW j \in 1..Len(t), t[i] = t[j]  PROVE i = j
  <2>1. CASE i = c \/ j = c
    BY <1>4, <1>5, <1>6, <2>1
  <2>2. CASE i # c /\ j # c
    <3>1. s[g(i)] = s[g(j)] /\ g(i) \in 1..Len(s) /\ g(j) \in 1..Len(s)
      BY <1>5, <1>6, <2>2
    <3>2. g(i) = g(j)
      <4> HIDE DEF g
      <4> QED  BY <1>1, <3>1 DEF Lists
    <3> QED  BY <1>1, <1>2, <2>2, <3>2
  <2> QED  BY <2>1, <2>2
<1>7. ASSUME NEW x \in S \cup {n}  PROVE \E i \in 1..Len(t) : t[i] = x
  <2>1. CASE x = n
    BY <1>1, <1>2, <1>4, <2>1
  <2>2. CASE x \in S
    <3>1. PICK i \in 1..Len(s) : s[i] = x
      BY <1>1, <2>2 DEF Lists
    <3>2. CASE i < c
      BY <1>1, <1>2, <1>4, <3>1, <3>2
    <3>3. CASE ~(i < c)
      <4>1. i + 1 \in (c + 1)..(Len(s) + 1) /\ (i + 1) - 1 = i /\ i + 1 \in 1..Len(t)
        BY <1>1, <1>2, <1>4, <3>3
      <4> QED  BY <1>4, <3>1, <4>1
    <3> QED  BY <3>2, <3>3
  <2> QED  BY <2>1, <2>2
<1>8. /\ V[n] = {n}
      /\ \A x \in S : /\ n \in V[x] <=> h \in U[x]
                      /\ \A y \in S : y \in V[x] <=> y \in U[x]
  <2>1. \A x \in S : V[x] = IF h \in U[x] THEN U[x] \cup {n} ELSE U[x]
    BY DEF h
  <2>2. \A x \in S : U[x] \subseteq S
    BY DEF Forest
  <2> QED  BY <2>1, <2>2
<1>9. ASSUME NEW i \in 1..Len(t), NEW j \in 1..Len(t), t[j] \in V[t[i]]
      PROVE  i <= j /\ \A k \in i..j : t[k] \in V[t[i]]
  <2>1. CASE i = c
    <3>1. t[j] = n
      BY <1>4, <1>8, <1>9, <2>1
    <3>2. j = c
      BY <1>5, <3>1
    <3> QED  BY <1>1, <1>2, <1>9, <2>1, <3>2
  <2>2. ASSUME i # c  PROVE i <= j /\ \A k \in i..j : t[k] \in V[t[i]]
    <3> DEFINE x == t[i]
               a == g(i)
    <3>1. a \in 1..Len(s) /\ x = s[a] /\ x \in S
      BY <1>5, <2>2
    <3>2. \A b \in 1..Len(s) : s[b] \in U[x] => a <= b /\ \A k \in a..b : s[k] \in U[x]
      BY ONLY <1>1, <3>1, Lists(s, S, U) DEF Lists
    <3> HIDE DEF x, a
    <3>3. CASE j = c
      <4>1. h \in U[x]
        BY <1>4, <1>8, <1>9, <3>1, <3>3 DEF x
      <4>2. a <= p /\ \A k \in a..p : s[k] \in U[x]
        BY <3>2, <4>1 DEF h
      <4>3. U[h] \subseteq U[x]
        BY <3>1, <4>1 DEF Forest
      <4>4. \A k \in a..(c - 1) : s[k] \in U[x]
        <5>1. \A k \in p..(c - 1) : s[k] \in U[x]
          BY <1>1, <1>2, <4>3
        <5>2. a \in Int /\ p \in Int /\ c \in Int
          BY <1>1, <1>2, <3>1
        <5> QED  BY <4>2, <5>1, <5>2
      <4>5. a = i /\ i < c
        BY <1>1, <1>2, <4>2, <1>9, <2>2 DEF a
      <4>6. ASSUME NEW k \in i..j  PROVE t[k] \in V[x]
        <5>1. CASE k = c
          BY <1>4, <1>8, <3>1, <4>1, <5>1
        <5>2. CASE k # c
          <6>1. k \in 1..(c - 1) /\ k \in a..(c - 1) /\ k \in 1..Len(t)
            BY <1>1, <1>2, <1>4, <3>3, <4>5, <5>2
          <6>2. t[k] = s[k] /\ t[k] \in S
            <7>1. t[k] \in S
              BY <1>5, <5>2, <6>1
            <7> QED  BY <1>4, <6>1, <7>1
          <6> QED  BY <1>8, <3>1, <4>4, <6>1, <6>2
        <5> QED  BY <5>1, <5>2
      <4>7. i <= j
        BY <1>1, <1>2, <3>3, <4>5
      <4> QED  BY <4>6, <4>7 DEF x
    <3>4. CASE j # c
      <4> DEFINE b == g(j)
      <4>1. b \in 1..Len(s) /\ t[j] = s[b] /\ t[j] \in S
        BY <1>5, <3>4
      <4>2. s[b] \in U[x]
        BY <1>8, <1>9, <3>1, <4>1 DEF x
      <4>3. a <= b /\ \A k \in a..b : s[k] \in U[x]
        BY ONLY <3>2, <4>1, <4>2
      <4>4. i <= j
        BY <1>1, <1>2, <1>4, <2>2, <3>1, <3>4, <4>1, <4>3 DEF a
      <4>5. ASSUME a < c, ~(b < c)  PROVE h \in U[x]
        <5>1. c - 1 \in a..b /\ c - 1 \in p..(c - 1) /\ c - 1 \in 1..Len(s)
          BY <1>1, <1>2, <3>1, <4>1, <4>5
        <5>2. s[c - 1] \in U[x] /\ s[c - 1] \in U[h]
          BY <1>2, <4>3, <5>1
        <5>3. x \in U[h] \/ h \in U[x]
          BY <1>3, <3>1, <5>2 DEF Forest
        <5>4. ASSUME x \in U[h]  PROVE FALSE
          <6>1. U[x] \subseteq U[h]
            BY <1>3, <5>4 DEF Forest
          <6>2. b \in p..(c - 1)
            BY <1>2, <4>1, <4>2, <6>1
          <6> QED  BY <1>1, <1>2, <4>1, <4>5, <6>2
        <5> QED  BY <5>3, <5>4
      <4>6. ASSUME NEW k \in i..j  PROVE t[k] \in V[x]
        <5>1. k \in 1..Len(t)
          BY <1>1, <1>4, <4>6
        <5>2. CASE k = c
          <6>1. a < c /\ ~(b < c)
            BY <1>1, <1>2, <1>4, <2>2, <3>4, <4>6, <5>2 DEF a
          <6> QED  BY <1>4, <1>8, <3>1, <4>5, <5>2, <6>1
        <5>3. CASE k # c
          <6>1. g(k) \in a..b
            BY <1>1, <1>2, <1>4, <2>2, <3>4, <4>6, <5>1, <5>3 DEF a
          <6>2. t[k] = s[g(k)] /\ t[k] \in S
            BY <1>5, <5>1, <5>3
          <6> QED  BY <1>8, <3>1, <4>3, <6>1, <6>2
        <5> QED  BY <5>2, <5>3
      <4> QED  BY <4>4, <4>6 DEF x
    <3> QED  BY <3>3, <3>4
  <2> QED  BY <2>1, <2>2
<1>10. DOMAIN t = 1..Len(t)
  BY <1>4, LenProperties
<1> QED  BY <1>4, <1>6, <1>7, <1>9, <1>10 DEF Lists, t, c, h

\* The same for a new item of the top level, that comes last.
LEMMA AppendLists ==
  ASSUME NEW S, NEW U, NEW s, Forest(S, U), Lists(s, S, U), NEW n, n \notin S,
         NEW V, V = [x \in S \cup {n} |-> IF x = n THEN {n} ELSE U[x]]
  PROVE  Lists(Append(s, n), S \cup {n}, V)
<1> DEFINE t == Append(s, n)
<1>1. s \in Seq(S) /\ Len(s) \in Nat /\ s \in [1..Len(s) -> S] /\ DOMAIN s = 1..Len(s)
  BY LenProperties DEF Lists
<1>2. t \in Seq(S \cup {n}) /\ Len(t) = Len(s) + 1 /\ t[Len(s) + 1] = n /\ \A k \in 1..Len(s) : t[k] = s[k]
  <2>1. s \in Seq(S \cup {n}) /\ n \in S \cup {n}
    BY <1>1, SeqMonotonic
  <2> QED  BY <2>1, AppendProperties
<1>3. DOMAIN t = 1..Len(t)
  BY <1>2, LenProperties
<1> HIDE DEF t
<1>4. \A k \in 1..Len(t) : k = Len(t) \/ k \in 1..Len(s)
  BY <1>1, <1>2
<1>5. \A k \in 1..Len(s) : t[k] \in S /\ t[k] # n /\ k < Len(t)
  BY <1>1, <1>2
<1>6. V[n] = {n} /\ \A x \in S : V[x] = U[x] /\ U[x] \subseteq S /\ n \notin U[x]
  BY DEF Forest
<1>7. ASSUME NEW i \in 1..Len(t), NEW j \in 1..Len(t), t[i] = t[j]  PROVE i = j
  <2>1. CASE i \in 1..Len(s) /\ j \in 1..Len(s)
    <3>1. s[i] = s[j]
      BY <1>2, <1>7, <2>1
    <3> QED  BY <1>1, <2>1, <3>1 DEF Lists
  <2> QED  BY <1>1, <1>2, <1>4, <1>5, <1>7, <2>1
<1>8. ASSUME NEW x \in S \cup {n}  PROVE \E i \in 1..Len(t) : t[i] = x
  <2>1. CASE x = n
    BY <1>1, <1>2, <2>1
  <2>2. CASE x \in S
    <3>1. PICK i \in 1..Len(s) : s[i] = x
      BY <1>1, <2>2 DEF Lists
    <3> QED  BY <1>1, <1>2, <3>1
  <2> QED  BY <2>1, <2>2
<1>9. ASSUME NEW i \in 1..Len(t), NEW j \in 1..Len(t), t[j] \in V[t[i]]
      PROVE  i <= j /\ \A k \in i..j : t[k] \in V[t[i]]
  <2>1. CASE i = Len(t)
    <3>1. j = Len(t)
      BY <1>2, <1>4, <1>5, <1>6, <1>9, <2>1
    <3> QED  BY <1>2, <1>1, <1>9, <2>1, <3>1
  <2>2. CASE i \in 1..Len(s)
    <3>1. t[i] = s[i] /\ V[t[i]] = U[s[i]] /\ n \notin U[s[i]]
      BY <1>1, <1>2, <1>5, <1>6, <2>2
    <3>2. j \in 1..Len(s) /\ t[j] = s[j]
      BY <1>1, <1>2, <1>4, <1>9, <3>1
    <3>3. i <= j /\ \A k \in i..j : s[k] \in U[s[i]]
      BY <1>1, <1>9, <2>2, <3>1, <3>2 DEF Lists
    <3>4. \A k \in i..j : t[k] = s[k]
      BY <1>1, <1>2, <2>2, <3>2
    <3> QED  BY <3>1, <3>3, <3>4
  <2> QED  BY <1>4, <2>1, <2>2
<1> QED  BY <1>2, <1>3, <1>7, <1>8, <1>9 DEF Lists, t

\* The p-th item cut out with all that is under it.
LEMMA PruneLists ==
  ASSUME NEW S, NEW U, NEW s, Forest(S, U), Lists(s, S, U), NEW p \in 1..Len(s),
         NEW m \in Nat, m = Cardinality(U[s[p]]),
         NEW t \in Seq(S), Len(t) = Len(s) - m,
         \A k \in 1..Len(t) : t[k] = IF k < p THEN s[k] ELSE s[k + m],
         NEW V, \A x \in S \ U[s[p]] : V[x] = U[x] \ U[s[p]]
  PROVE  Lists(t, S \ U[s[p]], V)
<1> DEFINE h == s[p]
           T == S \ U[h]
           g(k) == IF k < p THEN k ELSE k + m
<1>1. s \in Seq(S) /\ Len(s) \in Nat /\ s \in [1..Len(s) -> S] /\ DOMAIN s = 1..Len(s)
  BY LenProperties DEF Lists
<1>2. /\ m \in Nat \ {0} /\ p + m - 1 <= Len(s)
      /\ \A q \in 1..Len(s) : s[q] \in U[h] <=> q \in p..(p + m - 1)
  BY Block
<1> DEFINE l == Len(s) - m
<1>3. l \in Nat /\ DOMAIN t = 1..l /\ Len(t) = l /\ t \in [1..l -> S]
  BY <1>1, <1>2, LenProperties
<1>4. ASSUME NEW k \in 1..l
      PROVE  g(k) \in 1..Len(s) /\ t[k] = s[g(k)] /\ t[k] \in T /\ g(k) \notin p..(p + m - 1)
  <2>1. g(k) \in 1..Len(s) /\ g(k) \notin p..(p + m - 1)
    BY <1>1, <1>2, <1>3
  <2>2. t[k] = s[g(k)]
    BY <1>3
  <2>3. s[g(k)] \in S /\ s[g(k)] \notin U[h]
    BY <1>1, <1>2, <2>1
  <2> QED  BY <2>1, <2>2, <2>3
<1>5. \A i, j \in 1..l : g(i) = g(j) => i = j
  BY <1>2, <1>3
<1>6. ASSUME NEW i \in 1..l, NEW j \in 1..l, g(i) <= g(j)
      PROVE  i <= j /\ \A k \in i..j : k \in 1..l /\ g(k) \in g(i)..g(j)
  <2>1. m \in Nat \ {0} /\ p \in Nat /\ l \in Nat
    BY <1>1, <1>2, <1>3
  <2> HIDE DEF l
  <2>2. i <= j
    BY ONLY <2>1, <1>6
  <2>3. \A k \in i..j : k \in 1..l /\ g(k) \in g(i)..g(j)
    BY ONLY <2>1, <2>2
  <2> QED  BY <2>2, <2>3
<1>7. ASSUME NEW q \in 1..Len(s), q \notin p..(p + m - 1)  PROVE \E k \in 1..l : g(k) = q
  <2>1. CASE q < p
    BY <1>1, <1>2, <1>7, <2>1
  <2>2. CASE q > p + m - 1
    <3>1. q - m \in 1..l /\ g(q - m) = q
      BY <1>1, <1>2, <1>7, <2>2
    <3> QED  BY <3>1
  <2> QED  BY <1>1, <1>2, <1>7, <2>1, <2>2
<1> HIDE DEF l, g
<1>8. t \in Seq(T) /\ Len(t) = l
  <2> HIDE DEF T
  <2>1. t \in [1..l -> T]
    BY <1>3, <1>4
  <2> QED  BY <1>3, <2>1, ListType
<1>9. \A x \in T : V[x] = U[x] \ U[h]
  OBVIOUS
<1> HIDE DEF T, h
<1>10. ASSUME NEW i \in 1..l, NEW j \in 1..l, t[i] = t[j]  PROVE i = j
  <2>1. s[g(i)] = s[g(j)] /\ g(i) \in 1..Len(s) /\ g(j) \in 1..Len(s)
    BY <1>4, <1>10
  <2>2. g(i) = g(j)
    BY <1>1, <2>1 DEF Lists
  <2> QED  BY <1>5, <2>2
<1>11. ASSUME NEW x \in T  PROVE \E i \in 1..l : t[i] = x
  <2>1. PICK q \in 1..Len(s) : s[q] = x
    BY <1>1 DEF Lists, T
  <2>2. q \notin p..(p + m - 1)
    BY <1>2, <2>1 DEF T
  <2>3. PICK k \in 1..l : g(k) = q
    BY <1>7, <2>2
  <2> QED  BY <1>4, <2>1, <2>3
<1>12. ASSUME NEW i \in 1..l, NEW j \in 1..l, t[j] \in V[t[i]]
       PROVE  i <= j /\ \A k \in i..j : t[k] \in V[t[i]]
  <2>1. t[i] \in T /\ t[i] = s[g(i)] /\ t[j] = s[g(j)] /\ g(i) \in 1..Len(s) /\ g(j) \in 1..Len(s)
    BY <1>4
  <2>2. s[g(j)] \in U[s[g(i)]]
    BY <1>9, <1>12, <2>1
  <2>3. g(i) <= g(j) /\ \A q \in g(i)..g(j) : s[q] \in U[s[g(i)]]
    BY <1>1, <2>1, <2>2 DEF Lists
  <2>4. i <= j /\ \A k \in i..j : k \in 1..l /\ g(k) \in g(i)..g(j)
    BY <1>6, <2>3
  <2>5. ASSUME NEW k \in i..j  PROVE t[k] \in V[t[i]]
    <3>1. t[k] = s[g(k)] /\ t[k] \in T /\ g(k) \in g(i)..g(j)
      BY <1>4, <2>4
    <3>2. t[k] \in U[t[i]] /\ t[k] \notin U[h]
      BY <2>1, <2>3, <3>1 DEF T
    <3> QED  BY <1>9, <2>1, <3>2
  <2> QED  BY <2>4, <2>5
<1> QED  BY <1>3, <1>8, <1>10, <1>11, <1>12 DEF Lists, T, h

\* It lists each item once.
LEMMA ListsAll ==
  ASSUME NEW S, NEW U, NEW s, Lists(s, S, U)
  PROVE  IsFiniteSet(S) /\ Cardinality(S) = Len(s) /\ ToSet(s) = S
<1>1. s \in Seq(S) /\ Len(s) \in Nat /\ s \in [1..Len(s) -> S] /\ DOMAIN s = 1..Len(s)
  BY LenProperties DEF Lists
<1>2. s \in Bijection(1..Len(s), S)
  <2>1. \A i, j \in 1..Len(s) : s[i] = s[j] => i = j
    BY <1>1 DEF Lists
  <2>2. \A x \in S : \E i \in 1..Len(s) : s[i] = x
    BY <1>1 DEF Lists
  <2> QED  BY <1>1, <2>1, <2>2, Fun_IsBij
<1>3. IsFiniteSet(1..Len(s)) /\ Cardinality(1..Len(s)) = Len(s)
  <2>1. Cardinality(1..Len(s)) = IF 1 > Len(s) THEN 0 ELSE Len(s) - 1 + 1
    BY <1>1, FS_Interval
  <2> QED  BY <1>1, <2>1, FS_Interval
<1>4. ExistsBijection(1..Len(s), S)
  BY <1>2 DEF ExistsBijection
<1>5. ToSet(s) = S
  BY <1>1 DEF Lists, ToSet
<1> QED  BY <1>3, <1>4, <1>5, FS_Bijection

-------------------------------------------------------------------------------
(* The sets of the tree are a forest, and what an insertion or a deletion  *)
(* does to them.                                                           *)

LEMMA ItemsTyped ==
  ASSUME TreeTypeOK, Branches
  PROVE  /\ Items \subseteq Handle /\ Root \notin Items /\ Count \in Nat
         /\ DOMAIN above = 1..Len(idOf) /\ Len(idOf) \in Nat /\ NewItem \notin Items
         /\ \A x \in Items : x \in 1..Len(idOf)
<1>1. view \in [1..Len(view) -> Handle] /\ Len(view) \in Nat /\ DOMAIN view = 1..Len(view)
  BY LenProperties DEF TreeTypeOK
<1>2. Items \subseteq Handle /\ Root \notin Items
  <2>1. Items \subseteq Handle
    BY <1>1 DEF Items, ToSet
  <2> QED  BY <2>1 DEF Handle, Root
<1>3. DOMAIN above = 1..Len(idOf) /\ Len(idOf) \in Nat
  BY LenProperties DEF TreeTypeOK, Branches
<1>4. \A x \in Items : x \in 1..Len(idOf)
  BY <1>2, <1>3 DEF Branches, Handle
<1> QED  BY <1>1, <1>2, <1>3, <1>4 DEF NewItem, Count

LEMMA TreeForest ==
  ASSUME TreeTypeOK, Branches
  PROVE  Forest(Items, UnderOf)
<1>1. Root \notin Items
  BY ItemsTyped
<1>2. \A x \in Items : UnderOf[x] = {z \in Items : x \in above[z] \cup {z}}
  BY DEF UnderOf, Under
<1>3. UnderOf \in [Items -> SUBSET Items]
  BY DEF UnderOf, Under
<1>4. ASSUME NEW x \in Items, NEW y \in UnderOf[x], NEW z \in UnderOf[y]  PROVE z \in UnderOf[x]
  <2>1. y \in Items /\ z \in Items /\ x \in above[y] \cup {y} /\ y \in above[z] \cup {z}
    BY <1>2, <1>3, <1>4
  <2>2. y \in above[z] => above[y] \subseteq above[z]
    BY <1>1, <2>1 DEF Branches
  <2> QED  BY <1>2, <2>1, <2>2
<1>5. ASSUME NEW x \in Items, NEW y \in Items, NEW z \in UnderOf[x] \cap UnderOf[y]
      PROVE  x \in UnderOf[y] \/ y \in UnderOf[x]
  <2>1. z \in Items /\ x \in above[z] \cup {z} /\ y \in above[z] \cup {z}
    BY <1>2, <1>5
  <2>2. x \in above[z] /\ y \in above[z] => x = y \/ x \in above[y] \/ y \in above[x]
    BY <1>1, <2>1 DEF Branches
  <2> QED  BY <1>2, <2>1, <2>2
<1>6. \A x \in Items : x \in UnderOf[x]
  BY <1>2
<1> QED  BY <1>3, <1>4, <1>5, <1>6 DEF Forest

\* A sequence that keeps the sets together satisfies Together, and conversely.
LEMMA ListsTogether ==
  ASSUME TreeTypeOK, Branches, NEW s, Lists(s, Items, UnderOf)
  PROVE  Together(s)
<1>1. s \in Seq(Items) /\ Len(s) \in Nat /\ s \in [1..Len(s) -> Items] /\ DOMAIN s = 1..Len(s)
  BY LenProperties DEF Lists
<1>2. ASSUME NEW p \in 1..Len(s)
      PROVE  {s[q] : q \in DOMAIN s \cap (p..(p + Cardinality(Under(s[p])) - 1))} = Under(s[p])
  <2> DEFINE n == Cardinality(Under(s[p]))
  <2>1. UnderOf[s[p]] = Under(s[p])
    BY <1>1 DEF UnderOf
  <2>2. \A q \in 1..Len(s) : s[q] \in UnderOf[s[p]] <=> q \in p..(p + Cardinality(UnderOf[s[p]]) - 1)
    BY TreeForest, Block
  <2>3. \A q \in 1..Len(s) : s[q] \in Under(s[p]) <=> q \in p..(p + n - 1)
    BY <2>1, <2>2
  <2>4. \A x \in Under(s[p]) : \E q \in 1..Len(s) : s[q] = x
    BY <1>1 DEF Lists, Under
  <2> HIDE DEF n
  <2>5. {s[q] : q \in (1..Len(s)) \cap (p..(p + n - 1))} = Under(s[p])
    BY <2>3, <2>4
  <2> QED  BY <1>1, <2>5 DEF n
<1> QED  BY <1>1, <1>2 DEF Together

LEMMA TogetherLists ==
  ASSUME NEW s \in Seq(Items), \A i, j \in DOMAIN s : s[i] = s[j] => i = j,
         ToSet(s) = Items, IsFiniteSet(Items), Together(s)
  PROVE  Lists(s, Items, UnderOf)
<1>1. Len(s) \in Nat /\ s \in [1..Len(s) -> Items] /\ DOMAIN s = 1..Len(s)
  BY LenProperties
<1>2. ASSUME NEW i \in DOMAIN s, NEW j \in DOMAIN s, s[j] \in UnderOf[s[i]]
      PROVE  i <= j /\ \A k \in i..j : s[k] \in UnderOf[s[i]]
  <2> DEFINE e == i + Cardinality(Under(s[i])) - 1
  <2>1. UnderOf[s[i]] = Under(s[i])
    BY <1>1 DEF UnderOf
  <2>2. {s[q] : q \in DOMAIN s \cap (i..e)} = UnderOf[s[i]]
    BY <2>1 DEF Together
  <2>0. i \in Int /\ j \in Int /\ e \in Int
    <3>1. Under(s[i]) \subseteq Items
      BY DEF Under
    <3>2. Cardinality(Under(s[i])) \in Nat
      BY <3>1, FS_Subset, FS_CardinalityType
    <3> QED  BY <1>1, <3>2
  <2> HIDE DEF e
  <2>3. PICK q \in DOMAIN s \cap (i..e) : s[q] = s[j]
    BY <1>2, <2>2
  <2>4. q = j
    BY <2>3
  <2>5. j \in i..e /\ \A k \in i..j : k \in DOMAIN s /\ k \in i..e
    BY <1>1, <2>0, <2>3, <2>4
  <2> QED  BY <1>1, <2>2, <2>5
<1>3. \A x \in Items : \E i \in DOMAIN s : s[i] = x
  BY DEF ToSet
<1> QED  BY <1>2, <1>3 DEF Lists

\* The sets after an insertion under h, and after the deletion of h.
GrownSets(h) ==
  [x \in Items \cup {NewItem} |-> IF x = NewItem THEN {NewItem}
                                  ELSE IF x \in Over(h) \cup {h} THEN Under(x) \cup {NewItem}
                                  ELSE Under(x)]

Pruned(h) == [x \in Items \ Under(h) |-> Under(x) \ Under(h)]

LEMMA GrownLists ==
  ASSUME TreeTypeOK, Branches, NEW h, NEW s, Lists(s, Items, UnderOf)
  PROVE  /\ h = Root => Lists(Append(s, NewItem), Items \cup {NewItem}, GrownSets(h))
         /\ \A p \in 1..Len(s) : s[p] = h =>
              Lists(PutAt(s, p + Cardinality(Under(h)), NewItem), Items \cup {NewItem}, GrownSets(h))
<1>1. Forest(Items, UnderOf) /\ NewItem \notin Items /\ Root \notin Items
  BY TreeForest, ItemsTyped
<1>2. \A x \in Items : UnderOf[x] = Under(x)
  BY DEF UnderOf
<1>3. ASSUME h = Root  PROVE Lists(Append(s, NewItem), Items \cup {NewItem}, GrownSets(h))
  <2>1. \A x \in Items : ~(x \in Over(h) \cup {h})
    BY <1>1, <1>3 DEF Over
  <2>2. GrownSets(h) = [x \in Items \cup {NewItem} |-> IF x = NewItem THEN {NewItem} ELSE UnderOf[x]]
    BY <1>2, <2>1 DEF GrownSets
  <2> QED  BY <1>1, <2>2, AppendLists
<1>4. ASSUME NEW p \in 1..Len(s), s[p] = h
      PROVE  Lists(PutAt(s, p + Cardinality(Under(h)), NewItem), Items \cup {NewItem}, GrownSets(h))
  <2>1. h \in Items
    BY <1>4 DEF Lists
  <2>2. Over(h) = above[h] /\ UnderOf[h] = Under(h)
    BY <1>1, <1>2, <2>1 DEF Over
  <2>3. \A x \in Items : x \in Over(h) \cup {h} <=> h \in UnderOf[x]
    BY <1>2, <2>1, <2>2 DEF Under
  <2>4. GrownSets(h) = [x \in Items \cup {NewItem} |->
                      IF x = NewItem THEN {NewItem} ELSE IF s[p] \in UnderOf[x] THEN UnderOf[x] \cup {NewItem} ELSE UnderOf[x]]
    BY <1>2, <1>4, <2>3 DEF GrownSets
  <2>5. Lists(PutAt(s, p + Cardinality(UnderOf[s[p]]), NewItem), Items \cup {NewItem}, GrownSets(h))
    BY <1>1, <2>4, InsertLists
  <2> QED  BY <1>4, <2>2, <2>5
<1> QED  BY <1>3, <1>4

LEMMA PutAtEnd == ASSUME NEW S, NEW s \in Seq(S), NEW v PROVE PutAt(s, Len(s) + 1, v) = Append(s, v)
<1>1. Len(s) \in Nat /\ s \in [1..Len(s) -> S]
  BY LenProperties
<1> DEFINE l == Len(s)
           t == PutAt(s, l + 1, v)
<1>2. /\ t \in Seq(S \cup {v}) /\ Len(t) = l + 1 /\ t[l + 1] = v
      /\ \A k \in 1..((l + 1) - 1) : t[k] = s[k]
  <2>1. l + 1 \in 1..(l + 1) /\ s \in Seq(S)
    BY <1>1
  <2>2. ASSUME NEW c \in 1..(Len(s) + 1)
        PROVE  /\ PutAt(s, c, v) \in Seq(S \cup {v}) /\ Len(PutAt(s, c, v)) = Len(s) + 1
               /\ PutAt(s, c, v)[c] = v
               /\ \A k \in 1..(c - 1) : PutAt(s, c, v)[k] = s[k]
    BY PutAtShape
  <2> QED  BY <2>1, <2>2
<1>3. /\ Append(s, v) \in Seq(S \cup {v}) /\ Len(Append(s, v)) = l + 1 /\ Append(s, v)[l + 1] = v
      /\ \A k \in 1..l : Append(s, v)[k] = s[k]
  <2>1. s \in Seq(S \cup {v}) /\ v \in S \cup {v}
    BY SeqMonotonic
  <2> QED  BY <2>1, AppendProperties
<1> HIDE DEF t
<1>4. \A k \in 1..Len(t) : t[k] = Append(s, v)[k]
  <2>1. \A k \in 1..(l + 1) : k = l + 1 \/ (k \in 1..l /\ k \in 1..((l + 1) - 1))
    BY <1>1
  <2> QED  BY <1>2, <1>3, <2>1
<1>5. t = Append(s, v)
  BY <1>2, <1>3, <1>4, SeqEqual
<1> QED  BY <1>5 DEF t

LEMMA PlaceInView ==
  ASSUME TreeTypeOK, Branches, Lists(view, Items, UnderOf), NEW h \in Items
  PROVE  Position(h) \in 1..Count /\ view[Position(h)] = h
<1>1. DOMAIN view = 1..Count
  BY LenProperties DEF TreeTypeOK, Count
<1>2. \E p \in DOMAIN view : view[p] = h
  BY DEF Lists
<1> QED  BY <1>1, <1>2 DEF Position

LEMMA InsertTree ==
  ASSUME TreeTypeOK, Branches, Lists(view, Items, UnderOf), NEW h \in {Root} \cup Items, NEW id,
         Insert(h, id), Cardinality(Over(h)) < MaxLevel
  PROVE  /\ NewItem \in Handle /\ Items' = Items \cup {NewItem} /\ UnderOf' = GrownSets(h)
         /\ \A x \in Items : above'[x] = above[x]
         /\ above'[NewItem] = Over(h) \cup {h} /\ Cardinality(above'[NewItem]) = Cardinality(Over(h)) + 1
         /\ Branches' /\ Lists(view', Items', UnderOf')
         /\ above' \in Seq(SUBSET ({Root} \cup Handle))
<1>1. /\ Items \subseteq Handle /\ Root \notin Items /\ Count \in Nat
      /\ DOMAIN above = 1..Len(idOf) /\ Len(idOf) \in Nat /\ NewItem \notin Items
      /\ \A x \in Items : x \in 1..Len(idOf)
  BY ItemsTyped
<1>2. Lists(view', Items \cup {NewItem}, GrownSets(h))
  <2>1. CASE h = Root
    <3>1. view' = PutAt(view, Len(view) + 1, NewItem)
      BY <2>1 DEF Insert, Behind, Count
    <3>2. view' = Append(view, NewItem)
      BY <3>1, PutAtEnd DEF TreeTypeOK
    <3> QED  BY <2>1, <3>2, GrownLists
  <2>2. CASE h # Root
    <3> DEFINE p == Position(h)
    <3>1. h \in Items
      BY <2>2
    <3>2. p \in 1..Len(view) /\ view[p] = h
      BY <3>1, PlaceInView DEF Count
    <3>3. view' = PutAt(view, p + Cardinality(Under(h)), NewItem)
      BY <2>2 DEF Insert, Behind
    <3> HIDE DEF p
    <3> QED  BY <3>2, <3>3, GrownLists
  <2> QED  BY <2>1, <2>2
<1>3. Items' = Items \cup {NewItem}
  BY <1>2, ListsAll DEF Items
<1>4. /\ NewItem \in Handle /\ NewItem = Len(idOf) + 1 /\ Len(idOf') = NewItem /\ Len(above') = NewItem
      /\ \A x \in 1..Len(idOf) : above'[x] = above[x]
      /\ above'[NewItem] = Over(h) \cup {h}
  <2>1. above' = Append(above, Over(h) \cup {h}) /\ idOf' = Append(idOf, id) /\ NewItem \in Handle
    BY DEF Insert
  <2>2. /\ Len(above') = Len(above) + 1 /\ \A x \in 1..Len(above) : above'[x] = above[x]
        /\ above'[Len(above) + 1] = Over(h) \cup {h}
    <3> DEFINE C == (SUBSET ({Root} \cup Handle)) \cup {Over(h) \cup {h}}
    <3>1. above \in Seq(SUBSET ({Root} \cup Handle))
      BY DEF TreeTypeOK
    <3>2. above \in Seq(C) /\ Over(h) \cup {h} \in C
      BY <3>1, SeqMonotonic
    <3> HIDE DEF C
    <3> QED  BY <2>1, <3>2, AppendProperties
  <2>3. Len(idOf') = Len(idOf) + 1
    <3>1. idOf \in Seq(Ids \cup {0} \cup {id}) /\ id \in Ids \cup {0} \cup {id}
      BY SeqMonotonic DEF TreeTypeOK
    <3> QED  BY <2>1, <3>1, AppendProperties
  <2>4. Len(above) = Len(idOf)
    BY DEF Branches
  <2> QED  BY <2>1, <2>2, <2>3, <2>4 DEF NewItem
<1>5. \A x \in Items : above'[x] = above[x]
  BY <1>1, <1>4
<1>6. UnderOf' = GrownSets(h)
  <2>1. \A x \in Items : above[x] \subseteq {Root} \cup Items
    BY DEF Branches
  <2>2. NewItem # Root
    BY <1>4 DEF Handle, Root
  <2>3. ASSUME NEW x \in Items \cup {NewItem}
        PROVE  {z \in Items' : x \in above'[z] \cup {z}} = GrownSets(h)[x]
    <3>1. GrownSets(h)[x] = IF x = NewItem THEN {NewItem}
                        ELSE IF x \in Over(h) \cup {h} THEN Under(x) \cup {NewItem} ELSE Under(x)
      BY DEF GrownSets
    <3>2. CASE x = NewItem
      BY <1>1, <1>3, <1>5, <1>4, <2>1, <2>2, <3>1, <3>2
    <3>3. CASE x # NewItem
      <4>1. \A z \in Items : z \in Under(x) <=> x \in above'[z] \cup {z}
        BY <1>5 DEF Under
      <4>2. Under(x) \subseteq Items
        BY DEF Under
      <4> QED  BY <1>1, <1>3, <1>4, <3>1, <3>3, <4>1, <4>2
    <3> QED  BY <3>2, <3>3
  <2>4. UnderOf' = [x \in Items \cup {NewItem} |-> {z \in Items' : x \in above'[z] \cup {z}}]
    BY <1>3 DEF UnderOf, Under
  <2>5. GrownSets(h) = [x \in Items \cup {NewItem} |-> GrownSets(h)[x]]
    BY DEF GrownSets
  <2> QED  BY <2>3, <2>4, <2>5
<1>7. /\ IsFiniteSet(Over(h)) /\ h \notin Over(h) /\ Over(h) \subseteq {Root} \cup Items
      /\ Root \in Over(h) \cup {h}
  <2>1. CASE h = Root
    BY <2>1, FS_EmptySet DEF Over
  <2>2. CASE h # Root
    <3>1. h \in Items /\ Over(h) = above[h]
      BY <2>2 DEF Over
    <3> QED  BY <3>1 DEF Branches
  <2> QED  BY <2>1, <2>2
<1>8. /\ IsFiniteSet(above'[NewItem]) /\ Cardinality(above'[NewItem]) = Cardinality(Over(h)) + 1
      /\ Cardinality(Over(h)) \in Nat
  BY <1>4, <1>7, FS_AddElement, FS_CardinalityType
<1>9. Branches'
  <2>1. Len(above') = Len(idOf') /\ Len(idOf') <= MaxItems
    BY <1>4, TreeBounds DEF Handle
  <2>2. ASSUME NEW x \in Items
        PROVE  /\ x <= Len(idOf')
               /\ above'[x] \subseteq {Root} \cup Items' /\ Root \in above'[x] /\ x \notin above'[x]
               /\ IsFiniteSet(above'[x]) /\ Cardinality(above'[x]) <= MaxLevel
               /\ \A a \in above'[x] \ {Root} :
                    /\ above'[a] \subseteq above'[x] /\ Cardinality(above'[a]) < Cardinality(above'[x])
                    /\ \A b \in above'[x] \ {Root} : a = b \/ a \in above'[b] \/ b \in above'[a]
    <3>1. /\ above[x] \subseteq {Root} \cup Items /\ Root \in above[x] /\ x \notin above[x]
          /\ IsFiniteSet(above[x]) /\ Cardinality(above[x]) <= MaxLevel
          /\ \A a \in above[x] \ {Root} :
               /\ above[a] \subseteq above[x] /\ Cardinality(above[a]) < Cardinality(above[x])
               /\ \A b \in above[x] \ {Root} : a = b \/ a \in above[b] \/ b \in above[a]
      BY DEF Branches
    <3>2. x <= Len(idOf')
      BY <1>1, <1>4
    <3>3. above'[x] = above[x] /\ \A a \in above[x] \ {Root} : above'[a] = above[a]
      BY <1>5, <3>1
    <3> QED  BY <1>3, <3>1, <3>2, <3>3
  <2>3. /\ NewItem <= Len(idOf')
        /\ above'[NewItem] \subseteq {Root} \cup Items' /\ Root \in above'[NewItem] /\ NewItem \notin above'[NewItem]
        /\ IsFiniteSet(above'[NewItem]) /\ Cardinality(above'[NewItem]) <= MaxLevel
    <3>1. NewItem # Root
      BY <1>4 DEF Handle, Root
    <3>2. Cardinality(Over(h)) + 1 <= MaxLevel
      BY <1>8, TreeBounds
    <3> QED  BY <1>1, <1>3, <1>4, <1>7, <1>8, <3>1, <3>2
  <2>4. ASSUME NEW a \in above'[NewItem] \ {Root}
        PROVE  /\ above'[a] \subseteq above'[NewItem] /\ Cardinality(above'[a]) < Cardinality(above'[NewItem])
               /\ \A b \in above'[NewItem] \ {Root} : a = b \/ a \in above'[b] \/ b \in above'[a]
    <3>1. h \in Items /\ Over(h) = above[h]
      BY <1>4, <1>7, <2>4 DEF Over
    <3>2. \A b \in above[h] \ {Root} :
            /\ b \in Items /\ above[b] \subseteq above[h] /\ Cardinality(above[b]) < Cardinality(above[h])
            /\ \A d \in above[h] \ {Root} : b = d \/ b \in above[d] \/ d \in above[b]
      BY <3>1 DEF Branches
    <3>3. \A b \in above'[NewItem] \ {Root} : b = h \/ b \in above[h] \ {Root}
      BY <1>4, <3>1
    <3>4. \A b \in above'[NewItem] \ {Root} : above'[b] = above[b]
      BY <1>5, <3>1, <3>2, <3>3
    <3>5. above'[a] \subseteq above'[NewItem]
      BY <1>4, <2>4, <3>1, <3>2, <3>3, <3>4
    <3>6. Cardinality(above'[a]) < Cardinality(above'[NewItem])
      <4>1. Cardinality(above[h]) \in Nat /\ Cardinality(above'[NewItem]) = Cardinality(above[h]) + 1
        BY <1>8, <3>1
      <4>2. CASE a = h
        BY <3>4, <4>1, <4>2, <2>4
      <4>3. CASE a \in above[h] \ {Root}
        <5>1. Cardinality(above[a]) < Cardinality(above[h]) /\ Cardinality(above[a]) \in Nat
          <6>1. IsFiniteSet(above[a])
            BY <3>2, <4>3 DEF Branches
          <6> QED  BY <3>2, <4>3, <6>1, FS_CardinalityType
        <5> QED  BY <2>4, <3>4, <4>1, <5>1
      <4> QED  BY <2>4, <3>3, <4>2, <4>3
    <3>7. ASSUME NEW b \in above'[NewItem] \ {Root}  PROVE a = b \/ a \in above'[b] \/ b \in above'[a]
      BY <2>4, <3>2, <3>3, <3>4, <3>7
    <3> QED  BY <3>5, <3>6, <3>7
  <2> QED  BY <1>3, <2>1, <2>2, <2>3, <2>4 DEF Branches
<1>10. above' \in Seq(SUBSET ({Root} \cup Handle))
  <2> DEFINE C == SUBSET ({Root} \cup Handle)
  <2>1. above \in Seq(C) /\ Over(h) \cup {h} \in C /\ above' = Append(above, Over(h) \cup {h})
    BY <1>1, <1>7 DEF TreeTypeOK, Insert
  <2> HIDE DEF C
  <2>2. above' \in Seq(C)
    BY <2>1, AppendProperties
  <2> QED  BY <2>2 DEF C
<1> QED  BY <1>2, <1>3, <1>4, <1>5, <1>6, <1>8, <1>9, <1>10

LEMMA PrunedLists ==
  ASSUME TreeTypeOK, Branches, NEW s, Lists(s, Items, UnderOf), NEW p \in 1..Len(s), NEW h, h = s[p]
  PROVE  LET m == Cardinality(Under(h))
             t == [k \in 1..(Len(s) - m) |-> IF k < p THEN s[k] ELSE s[k + m]]
         IN  Lists(t, Items \ Under(h), Pruned(h)) /\ Len(t) = Len(s) - m
<1>1. h \in Items /\ UnderOf[h] = Under(h)
  <2>1. s \in [1..Len(s) -> Items]
    BY LenProperties DEF Lists
  <2> QED  BY <2>1 DEF UnderOf
<1>2. \A x \in Items \ UnderOf[s[p]] : Pruned(h)[x] = UnderOf[x] \ UnderOf[s[p]]
  <2>1. \A x \in Items \ Under(h) : UnderOf[x] = Under(x)
    BY DEF UnderOf
  <2> QED  BY <1>1, <2>1 DEF Pruned
<1>3. Cardinality(Under(h)) = Cardinality(UnderOf[s[p]]) /\ Under(h) = UnderOf[s[p]]
  BY <1>1
<1> DEFINE m == Cardinality(Under(h))
           t == [k \in 1..(Len(s) - m) |-> IF k < p THEN s[k] ELSE s[k + m]]
<1>4. Lists(t, Items \ UnderOf[s[p]], Pruned(h)) /\ Len(t) = Len(s) - m
  <2>1. m = Cardinality(UnderOf[s[p]]) /\ m \in Nat \ {0} /\ p + m - 1 <= Len(s)
    BY <1>3, TreeForest, Block
  <2> HIDE DEF m
  <2>2. s \in [1..Len(s) -> Items] /\ Len(s) \in Nat
    BY LenProperties DEF Lists
  <2>3. Len(s) - m \in Nat /\ t \in [1..(Len(s) - m) -> Items]
    BY <2>1, <2>2
  <2>4. \A k \in 1..(Len(s) - m) : t[k] = IF k < p THEN s[k] ELSE s[k + m]
    OBVIOUS
  <2> HIDE DEF t
  <2>5. t \in Seq(Items)
    BY <2>3, ListType
  <2>6. Len(t) \in Nat /\ 1..Len(t) = 1..(Len(s) - m)
    BY <2>3, <2>5, LenProperties
  <2>7. Len(t) = Len(s) - m
    BY ONLY <2>3, <2>6
  <2> DEFINE V == Pruned(h)
             S == Items
             U == UnderOf
  <2>8. /\ Forest(S, U) /\ Lists(s, S, U) /\ p \in 1..Len(s) /\ m \in Nat /\ m = Cardinality(U[s[p]])
        /\ t \in Seq(S) /\ Len(t) = Len(s) - m
        /\ \A k \in 1..Len(t) : t[k] = IF k < p THEN s[k] ELSE s[k + m]
        /\ \A x \in S \ U[s[p]] : V[x] = U[x] \ U[s[p]]
    BY <1>2, <2>1, <2>4, <2>5, <2>7, TreeForest
  <2> HIDE DEF V, S, U
  <2>9. Lists(t, S \ U[s[p]], V)
    BY ONLY <2>8, PruneLists
  <2> QED  BY <2>7, <2>9 DEF V, S, U
<1> HIDE DEF m
<1> QED  BY <1>3, <1>4 DEF m

LEMMA PruneTree ==
  ASSUME TreeTypeOK, Branches, Lists(view, Items, UnderOf), NEW h \in Items,
         Prune(h), UNCHANGED idOf
  PROVE  /\ Items' = Items \ Under(h) /\ UnderOf' = Pruned(h)
         /\ Branches' /\ Lists(view', Items', UnderOf')
         /\ Count' = Count - Cardinality(Under(h)) /\ Cardinality(Under(h)) \in Nat \ {0}
         /\ Position(h) + Cardinality(Under(h)) - 1 <= Count
         /\ view' = [k \in 1..Count' |-> IF k < Position(h) THEN view[k] ELSE view[k + Cardinality(Under(h))]]
         /\ above' \in Seq(SUBSET ({Root} \cup Handle))
<1> DEFINE p == Position(h)
           m == Cardinality(Under(h))
<1>1. /\ Items \subseteq Handle /\ Root \notin Items /\ Count \in Nat
      /\ DOMAIN above = 1..Len(idOf) /\ Len(idOf) \in Nat
      /\ \A x \in Items : x \in 1..Len(idOf)
  BY ItemsTyped
<1>2. p \in 1..Len(view) /\ view[p] = h /\ UnderOf[h] = Under(h) /\ Len(view) = Count
  BY PlaceInView DEF Count, UnderOf
<1>3. m \in Nat \ {0} /\ p + m - 1 <= Len(view)
  <2>1. /\ Cardinality(UnderOf[view[p]]) \in Nat \ {0}
        /\ p + Cardinality(UnderOf[view[p]]) - 1 <= Len(view)
    BY <1>2, TreeForest, Block
  <2> QED  BY <1>2, <2>1
<1> DEFINE t == [k \in 1..(Len(view) - m) |-> IF k < p THEN view[k] ELSE view[k + m]]
<1>4. view' = t
  <2>1. view' = SubSeq(view, 1, p - 1) \o SubSeq(view, p + m, Len(view))
    BY <1>1, <1>2 DEF Prune, Behind, Count
  <2>2. view \in Seq(Handle) /\ view \in [1..Len(view) -> Handle] /\ Len(view) \in Nat
    BY LenProperties DEF TreeTypeOK
  <2> HIDE DEF p, m
  <2>3. /\ SubSeq(view, 1, p - 1) \in Seq(Handle) /\ Len(SubSeq(view, 1, p - 1)) = p - 1
        /\ \A i \in 1..(p - 1) : SubSeq(view, 1, p - 1)[i] = view[i]
    <3>1. 1 \in Int /\ p - 1 \in Int /\ \A i \in 1..(p - 1) : view[i] \in Handle
      BY <1>2, <2>2
    <3> DEFINE a == SubSeq(view, 1, p - 1)
    <3>2. /\ a \in Seq(Handle) /\ Len(a) = IF 1 <= p - 1 THEN (p - 1) - 1 + 1 ELSE 0
          /\ \A i \in 1..((p - 1) - 1 + 1) : a[i] = view[1 + i - 1]
      BY <3>1, SubSeqProperties
    <3> HIDE DEF a
    <3>3. /\ a \in Seq(Handle) /\ Len(a) = p - 1 /\ \A i \in 1..(p - 1) : a[i] = view[i]
      BY <1>2, <2>2, <3>2
    <3> QED  BY <3>3 DEF a
  <2>4. /\ SubSeq(view, p + m, Len(view)) \in Seq(Handle)
        /\ Len(SubSeq(view, p + m, Len(view))) = Len(view) - (p + m) + 1
        /\ \A i \in 1..(Len(view) - (p + m) + 1) : SubSeq(view, p + m, Len(view))[i] = view[p + m + i - 1]
    <3>1. p + m \in Int /\ Len(view) \in Int /\ \A i \in (p + m)..Len(view) : view[i] \in Handle
      BY <1>2, <1>3, <2>2
    <3> DEFINE a == SubSeq(view, p + m, Len(view))
    <3>2. /\ a \in Seq(Handle) /\ Len(a) = IF p + m <= Len(view) THEN Len(view) - (p + m) + 1 ELSE 0
          /\ \A i \in 1..(Len(view) - (p + m) + 1) : a[i] = view[p + m + i - 1]
      BY <3>1, SubSeqProperties
    <3> HIDE DEF a
    <3>3. Len(a) = Len(view) - (p + m) + 1
      BY <1>2, <1>3, <2>2, <3>2
    <3> QED  BY <3>2, <3>3 DEF a
  <2> DEFINE a == SubSeq(view, 1, p - 1)
             b == SubSeq(view, p + m, Len(view))
  <2>5. /\ a \o b \in Seq(Handle) /\ Len(a \o b) = Len(a) + Len(b)
        /\ \A i \in 1..(Len(a) + Len(b)) : (a \o b)[i] = IF i <= Len(a) THEN a[i] ELSE b[i - Len(a)]
    BY <2>3, <2>4, ConcatProperties
  <2> DEFINE w == a \o b
             l == Len(view) - m
  <2> HIDE DEF a, b
  <2>6. Len(w) = l /\ l \in Nat
    BY <1>2, <1>3, <2>2, <2>3, <2>4, <2>5 DEF a, b
  <2>7. ASSUME NEW k \in 1..l  PROVE w[k] = IF k < p THEN view[k] ELSE view[k + m]
    <3>1. w[k] = IF k <= Len(a) THEN a[k] ELSE b[k - Len(a)]
      BY <2>5, <2>6
    <3>2. CASE k < p
      <4>1. k <= Len(a) /\ k \in 1..(p - 1)
        BY <1>2, <2>3, <3>2 DEF a
      <4> QED  BY <2>3, <3>1, <3>2, <4>1 DEF a
    <3>3. CASE ~(k < p)
      <4> DEFINE i == k - Len(a)
      <4>1. ~(k <= Len(a)) /\ i \in 1..(Len(view) - (p + m) + 1) /\ p + m + i - 1 = k + m
        BY <1>2, <1>3, <2>2, <2>3, <2>6, <3>3 DEF a
      <4>2. w[k] = b[i]
        BY <3>1, <4>1
      <4> HIDE DEF i
      <4>3. b[i] = view[p + m + i - 1]
        BY <2>4, <4>1 DEF b
      <4> QED  BY <3>3, <4>1, <4>2, <4>3
    <3> QED  BY <3>2, <3>3
  <2>8. w = [k \in 1..l |-> w[k]]
    <3> HIDE DEF w
    <3>1. w \in [1..Len(w) -> Handle]
      BY <2>5, LenProperties DEF w
    <3> QED  BY <2>6, <3>1
  <2>9. view' = w
    BY <2>1 DEF a, b
  <2> HIDE DEF w
  <2> QED  BY <2>7, <2>8, <2>9
<1>5. Lists(t, Items \ Under(h), Pruned(h)) /\ Len(t) = Len(view) - m
  <2>1. Lists(view, Items, UnderOf) /\ p \in 1..Len(view) /\ h = view[p] /\ TreeTypeOK /\ Branches
    BY <1>2
  <2> QED  BY ONLY <2>1, PrunedLists, ZenonT(60)
<1> HIDE DEF t
<1>6. Items' = Items \ Under(h)
  BY <1>4, <1>5, ListsAll DEF Items
<1>7. Count' = Count - m /\ view' = [k \in 1..Count' |-> IF k < p THEN view[k] ELSE view[k + m]]
  BY <1>2, <1>4, <1>5 DEF Count, t
<1>8. DOMAIN above' = DOMAIN above /\ \A x \in DOMAIN above : above'[x] = IF x \in Under(h) THEN {} ELSE above[x]
  BY DEF Prune
<1>9. above' \in Seq(SUBSET ({Root} \cup Handle)) /\ Len(above') = Len(idOf)
  <2>1. above \in [1..Len(idOf) -> SUBSET ({Root} \cup Handle)]
    BY <1>1, LenProperties DEF TreeTypeOK
  <2>2. above' \in [1..Len(idOf) -> SUBSET ({Root} \cup Handle)]
    BY <1>1, <2>1 DEF Prune
  <2>3. above' \in Seq(SUBSET ({Root} \cup Handle))
    BY <1>1, <2>2, ListType
  <2>4. 1..Len(above') = 1..Len(idOf) /\ Len(above') \in Nat
    BY <2>2, <2>3, LenProperties
  <2> QED  BY ONLY <1>1, <2>3, <2>4
<1>10. \A x \in Items' : above'[x] = above[x]
  BY <1>1, <1>6, <1>8
<1>11. ASSUME NEW x \in Items', NEW a \in above[x] \ {Root}  PROVE a \in Items'
  <2>1. x \in Items /\ x \notin Under(h)
    BY <1>6
  <2>2. a \in Items /\ above[a] \subseteq above[x]
    BY <2>1 DEF Branches
  <2>3. a \notin Under(h)
    BY <2>1, <2>2 DEF Under
  <2> QED  BY <1>6, <2>2, <2>3
<1>12. Branches'
  <2>1. ASSUME NEW x \in Items'
        PROVE  /\ x <= Len(idOf')
               /\ above'[x] \subseteq {Root} \cup Items' /\ Root \in above'[x] /\ x \notin above'[x]
               /\ IsFiniteSet(above'[x]) /\ Cardinality(above'[x]) <= MaxLevel
               /\ \A a \in above'[x] \ {Root} :
                    /\ above'[a] \subseteq above'[x] /\ Cardinality(above'[a]) < Cardinality(above'[x])
                    /\ \A b \in above'[x] \ {Root} : a = b \/ a \in above'[b] \/ b \in above'[a]
    <3>1. /\ x <= Len(idOf)
          /\ Root \in above[x] /\ x \notin above[x]
          /\ IsFiniteSet(above[x]) /\ Cardinality(above[x]) <= MaxLevel
          /\ \A a \in above[x] \ {Root} :
               /\ above[a] \subseteq above[x] /\ Cardinality(above[a]) < Cardinality(above[x])
               /\ \A b \in above[x] \ {Root} : a = b \/ a \in above[b] \/ b \in above[a]
      BY <1>6 DEF Branches
    <3>2. above'[x] = above[x] /\ \A a \in above[x] \ {Root} : a \in Items' /\ above'[a] = above[a]
      BY <1>10, <1>11
    <3> QED  BY <3>1, <3>2
  <2>2. Len(above') = Len(idOf') /\ Len(idOf') <= MaxItems
    BY <1>9 DEF Branches
  <2> QED  BY <2>1, <2>2 DEF Branches
<1>13. UnderOf' = Pruned(h)
  <2>1. UnderOf' = [x \in Items \ Under(h) |-> {z \in Items' : x \in above'[z] \cup {z}}]
    BY <1>6 DEF UnderOf, Under
  <2>2. ASSUME NEW x \in Items \ Under(h)
        PROVE  {z \in Items' : x \in above'[z] \cup {z}} = Under(x) \ Under(h)
    BY <1>6, <1>10 DEF Under
  <2> QED  BY <2>1, <2>2 DEF Pruned
<1> QED  BY <1>2, <1>3, <1>4, <1>5, <1>6, <1>7, <1>9, <1>12, <1>13

-------------------------------------------------------------------------------
(* What the methods do to the arrays.                                      *)

\* The first place with an Id is one of the places.
LEMMA NamedPlace ==
  ASSUME TreeTypeOK, NEW p \in Places
  PROVE  Named(p) \in Places
<1>1. Places = 1..Len(handles) /\ Len(handles) \in Nat
  BY LenProperties DEF TreeTypeOK, Places
<1> DEFINE n == Len(handles)
           P == {n + 1 - q : q \in {k \in 1..n : ids[k] = ids[p]}}
<1>2. P \in SUBSET (1..n)
  <2>1. \A q \in 1..n : n + 1 - q \in 1..n
    BY <1>1
  <2> QED  BY <2>1
<1>3. n + 1 - p \in P
  BY <1>1
<1>4. PICK e \in P : \A d \in P : d <= e
  <2> HIDE DEF P
  <2> QED  BY <1>1, <1>2, <1>3, GreatestExists
<1>5. PICK q \in 1..n : ids[q] = ids[p] /\ e = n + 1 - q
  BY <1>4
<1>6. ASSUME NEW j \in 1..(q - 1)  PROVE ids[j] # ids[p]
  <2>1. j \in 1..n
    BY <1>1, <1>5
  <2>2. CASE ids[j] = ids[p]
    <3>1. n + 1 - j \in P
      BY <2>1, <2>2
    <3>2. n + 1 - j <= n + 1 - q
      BY <1>4, <1>5, <3>1
    <3> QED  BY <1>1, <1>5, <2>1, <3>2
  <2> QED  BY <2>2
<1>7. \E k \in Places : ids[k] = ids[p] /\ \A j \in 1..(k - 1) : ids[j] # ids[p]
  BY <1>1, <1>5, <1>6
<1> QED  BY <1>7 DEF Named

\* In a tree of three levels the walk passes over nothing: below an item two
\* levels under h there is none.
LEMMA StepsCount ==
  ASSUME TreeTypeOK, Branches, Lists(view, Items, UnderOf), NEW h \in Items, NEW id,
         Insert(h, id), Cardinality(Over(h)) < MaxLevel, MaxLevel <= 3
  PROVE  Steps(view', above', h) = Cardinality(Under(h))
<1>1. /\ Items' = Items \cup {NewItem} /\ \A x \in Items : above'[x] = above[x]
      /\ above'[NewItem] = Over(h) \cup {h} /\ Branches'
  BY InsertTree
<1>2. /\ Root \notin Items /\ NewItem \notin Items /\ Over(h) = above[h]
  BY ItemsTyped DEF Over
<1>3. ASSUME NEW x \in Items', h \in above'[x], NEW y \in above'[x] \ {Root},
             Cardinality(above'[y]) > Cardinality(above'[h]) + 1
      PROVE  FALSE
  <2>1. /\ Cardinality(above'[x]) <= MaxLevel /\ IsFiniteSet(above'[x])
        /\ Cardinality(above'[y]) < Cardinality(above'[x]) /\ y \in Items'
    BY <1>1, <1>3 DEF Branches
  <2>2. IsFiniteSet(above'[y]) /\ Root \in above'[h] /\ IsFiniteSet(above'[h])
    BY <1>1, <2>1 DEF Branches
  <2>3. Cardinality(above'[x]) \in Nat /\ Cardinality(above'[y]) \in Nat
    BY <2>1, <2>2, FS_CardinalityType
  <2>4. Cardinality(above'[h]) \in Nat \ {0}
    BY <2>2, FS_CardinalityType, FS_EmptySet
  <2> QED  BY <1>3, <2>1, <2>3, <2>4, TreeBounds
<1> DEFINE T == {x \in Items' : h \in above'[x]}
<1>4. Steps(view', above', h) = Cardinality(T)
  <2>1. Items' = ToSet(view')
    BY DEF Items
  <2>2. {x \in ToSet(view') :
           /\ h \in above'[x]
           /\ \A y \in above'[x] \ {Root} :
                Cardinality(above'[y]) > Cardinality(above'[h]) + 1 => ~FirstChild(view', above', y)} = T
    BY <1>3, <2>1
  <2> QED  BY <2>2 DEF Steps
<1>5. T = (Under(h) \ {h}) \cup {NewItem}
  <2>1. h \notin above[h] /\ h \in Under(h)
    BY DEF Branches, Under
  <2> QED  BY <1>1, <1>2, <2>1 DEF Under
<1>6. IsFiniteSet(Under(h)) /\ h \in Under(h) /\ NewItem \notin Under(h)
  <2>1. Under(h) \subseteq Items /\ IsFiniteSet(Items)
    BY ListsAll DEF Under
  <2> QED  BY <1>2, <2>1, FS_Subset DEF Under
<1> HIDE DEF T
<1>7. /\ IsFiniteSet(Under(h) \ {h}) /\ Cardinality(Under(h) \ {h}) = Cardinality(Under(h)) - 1
      /\ Cardinality(Under(h)) \in Nat
  BY <1>6, FS_RemoveElement, FS_CardinalityType
<1>8. Cardinality(T) = Cardinality(Under(h) \ {h}) + 1
  BY <1>5, <1>6, <1>7, FS_AddElement
<1> QED  BY <1>4, <1>7, <1>8

\* ADel n times from p on, and ASize.
LEMMA CutShape ==
  ASSUME NEW C, NEW s \in Seq(C), NEW n \in Nat, NEW c \in Nat, Len(s) = c + n, NEW p \in 1..Len(s)
  PROVE  /\ Resize(Cut(s, p, n), c) = [k \in 1..c |-> IF k < p THEN s[k] ELSE s[k + n]]
         /\ Resize(Cut(s, p, n), c) \in Seq(C) /\ Len(Resize(Cut(s, p, n), c)) = c
<1>1. s \in [1..Len(s) -> C] /\ DOMAIN s = 1..Len(s)
  BY LenProperties
<1> DEFINE t == [k \in 1..c |-> IF k < p THEN s[k] ELSE s[k + n]]
<1>2. \A k \in 1..c : k \in DOMAIN s /\ k + n \in DOMAIN s
  BY <1>1
<1>3. Resize(Cut(s, p, n), c) = t
  BY <1>2 DEF Resize, Cut
<1>4. t \in [1..c -> C]
  BY <1>1, <1>2
<1> HIDE DEF t
<1>5. t \in Seq(C) /\ Len(t) = c
  <2>1. t \in Seq(C)
    BY <1>4, ListType
  <2>2. Len(t) \in Nat /\ 1..Len(t) = 1..c
    BY <1>4, <2>1, LenProperties
  <2> QED  BY <2>1, <2>2
<1> QED  BY <1>3, <1>5 DEF t


\* ASize: what is not there becomes empty.
LEMMA ResizeTyped ==
  ASSUME NEW C, 0 \in C, NEW s \in Seq(C), NEW n \in Nat
  PROVE  /\ Resize(s, n) \in Seq(C) /\ Len(Resize(s, n)) = n
         /\ \A k \in 1..n : Resize(s, n)[k] = IF k \in 1..Len(s) THEN s[k] ELSE 0
         /\ n = Len(s) => Resize(s, n) = s
<1> DEFINE t == Resize(s, n)
<1>1. s \in [1..Len(s) -> C] /\ DOMAIN s = 1..Len(s)
  BY LenProperties
<1>2. t = [k \in 1..n |-> IF k \in 1..Len(s) THEN s[k] ELSE 0]
  BY <1>1 DEF Resize
<1>3. t \in [1..n -> C]
  BY <1>1, <1>2
<1>4. n = Len(s) => t = s
  BY <1>1, <1>2
<1>5. \A k \in 1..n : t[k] = IF k \in 1..Len(s) THEN s[k] ELSE 0
  BY <1>2
<1> HIDE DEF t
<1>6. t \in Seq(C)
  BY <1>3, ListType
<1>7. Len(t) \in Nat /\ 1..Len(t) = 1..n
  BY <1>3, <1>6, LenProperties
<1>8. Len(t) = n
  BY ONLY <1>7, n \in Nat
<1> QED  BY <1>4, <1>5, <1>6, <1>8 DEF t

\* ADel, however often and wherever.
LEMMA CutTyped ==
  ASSUME NEW C, 0 \in C, NEW s \in Seq(C), NEW p \in Nat, NEW n \in Int
  PROVE  /\ Cut(s, p, n) \in Seq(C) /\ Len(Cut(s, p, n)) = Len(s)
         /\ \A k \in 1..Len(s) :
              Cut(s, p, n)[k] = IF k < p \/ n <= 0 THEN s[k]
                                ELSE IF k + n \in 1..Len(s) THEN s[k + n] ELSE 0
<1> DEFINE t == Cut(s, p, n)
<1>1. s \in [1..Len(s) -> C] /\ DOMAIN s = 1..Len(s) /\ Len(s) \in Nat
  BY LenProperties
<1>2. t = [k \in 1..Len(s) |-> IF k < p \/ n <= 0 THEN s[k]
                               ELSE IF k + n \in 1..Len(s) THEN s[k + n] ELSE 0]
  BY <1>1 DEF Cut
<1>3. t \in [1..Len(s) -> C]
  BY <1>1, <1>2
<1>4. \A k \in 1..Len(s) :
        t[k] = IF k < p \/ n <= 0 THEN s[k] ELSE IF k + n \in 1..Len(s) THEN s[k + n] ELSE 0
  BY <1>2
<1> HIDE DEF t
<1>5. t \in Seq(C)
  BY <1>1, <1>3, ListType
<1>6. Len(t) \in Nat /\ 1..Len(t) = 1..Len(s)
  BY <1>3, <1>5, LenProperties
<1>7. Len(t) = Len(s)
  BY ONLY <1>6, <1>1
<1> QED  BY <1>4, <1>5, <1>7 DEF t

LEMMA FrontTyped ==
  ASSUME NEW C, NEW s \in Seq(C), s # <<>>
  PROVE  /\ Front(s) \in Seq(C) /\ Len(s) \in Nat \ {0} /\ Len(Front(s)) = Len(s) - 1
         /\ \A j \in 1..(Len(s) - 1) : Front(s)[j] = s[j]
         /\ Last(s) = s[Len(s)] /\ Last(s) \in C
<1> DEFINE n == Len(s)
           a == SubSeq(s, 1, n - 1)
<1>1. s \in [1..n -> C] /\ n \in Nat \ {0}
  BY LenProperties, EmptySeq
<1>2. 1 \in Int /\ n - 1 \in Int /\ \A i \in 1..(n - 1) : s[i] \in C
  BY <1>1
<1> HIDE DEF n
<1>3. /\ a \in Seq(C) /\ Len(a) = IF 1 <= n - 1 THEN (n - 1) - 1 + 1 ELSE 0
      /\ \A i \in 1..((n - 1) - 1 + 1) : a[i] = s[1 + i - 1]
  BY <1>2, SubSeqProperties
<1> HIDE DEF a
<1>4. /\ a \in Seq(C) /\ Len(a) = n - 1 /\ \A i \in 1..(n - 1) : a[i] = s[i]
  BY <1>1, <1>3
<1>5. Front(s) = a /\ Last(s) = s[n]
  BY DEF Front, Last, a, n
<1>6. n \in 1..n /\ s[n] \in C
  BY ONLY <1>1
<1>7. /\ Front(s) \in Seq(C) /\ n \in Nat \ {0} /\ Len(Front(s)) = n - 1
      /\ \A j \in 1..(n - 1) : Front(s)[j] = s[j]
      /\ Last(s) = s[n] /\ Last(s) \in C
  BY ONLY <1>1, <1>4, <1>5, <1>6
<1> QED  BY ONLY <1>7 DEF n

-------------------------------------------------------------------------------
(* The entries that stand side by side in the three arrays.                *)

IdOf(x) == IF x = 0 THEN 0 ELSE idOf[x]

Beside(hs, is, cs) ==
  /\ hs \in Seq({0} \cup Handle) /\ is \in Seq(Ids \cup {0}) /\ cs \in Seq({0} \cup Handle)
  /\ Len(is) = Len(hs) /\ Len(cs) = Len(hs)
  /\ \A k \in 1..Len(hs) : /\ hs[k] \in 0..Len(idOf) /\ cs[k] \in {0, hs[k]}
                           /\ itemIds => is[k] = IdOf(hs[k])

LEMMA BesideArrays ==
  ASSUME TreeTypeOK, Known, EntriesBelong
  PROVE  Beside(handles, ids, cargo) /\ Places = 1..Len(handles) /\ Len(handles) \in Nat
<1>1. Places = 1..Len(handles) /\ Len(handles) \in Nat
  BY LenProperties DEF TreeTypeOK, Places
<1> QED  BY <1>1 DEF TreeTypeOK, Known, EntriesBelong, Beside, IdOf

LEMMA BesideResize ==
  ASSUME NEW hs, NEW is, NEW cs, Beside(hs, is, cs), Len(idOf) \in Nat, NEW n \in Nat
  PROVE  Beside(Resize(hs, n), Resize(is, n), Resize(cs, n)) /\ Len(Resize(hs, n)) = n
<1> DEFINE C == {0} \cup Handle
           I == Ids \cup {0}
           g(s, k) == IF k \in 1..Len(s) THEN s[k] ELSE 0
<1>1. hs \in Seq(C) /\ is \in Seq(I) /\ cs \in Seq(C) /\ Len(is) = Len(hs) /\ Len(cs) = Len(hs)
  BY DEF Beside
<1>2. 0 \in C /\ 0 \in I
  OBVIOUS
<1> HIDE DEF C, I
<1>3. Resize(hs, n) \in Seq(C) /\ Len(Resize(hs, n)) = n /\ \A k \in 1..n : Resize(hs, n)[k] = g(hs, k)
  BY <1>1, <1>2, ResizeTyped
<1>4. Resize(is, n) \in Seq(I) /\ Len(Resize(is, n)) = n /\ \A k \in 1..n : Resize(is, n)[k] = g(is, k)
  BY <1>1, <1>2, ResizeTyped
<1>5. Resize(cs, n) \in Seq(C) /\ Len(Resize(cs, n)) = n /\ \A k \in 1..n : Resize(cs, n)[k] = g(cs, k)
  BY <1>1, <1>2, ResizeTyped
<1>6. ASSUME NEW k \in 1..n
      PROVE  g(hs, k) \in 0..Len(idOf) /\ g(cs, k) \in {0, g(hs, k)} /\ (itemIds => g(is, k) = IdOf(g(hs, k)))
  <2>1. CASE k \in 1..Len(hs)
    BY <1>1, <2>1 DEF Beside
  <2>2. CASE k \notin 1..Len(hs)
    BY <1>1, <2>2 DEF IdOf
  <2> QED  BY <2>1, <2>2
<1> HIDE DEF g
<1> QED  BY <1>3, <1>4, <1>5, <1>6 DEF Beside, C, I

LEMMA BesideCut ==
  ASSUME NEW hs, NEW is, NEW cs, Beside(hs, is, cs), Len(idOf) \in Nat, NEW p \in Nat, NEW n \in Int
  PROVE  Beside(Cut(hs, p, n), CutIds(is, p, n), Cut(cs, p, n))
<1> DEFINE C == {0} \cup Handle
           I == Ids \cup {0}
           l == Len(hs)
           g(s, k) == IF k < p \/ n <= 0 THEN s[k] ELSE IF k + n \in 1..l THEN s[k + n] ELSE 0
<1>1. hs \in Seq(C) /\ is \in Seq(I) /\ cs \in Seq(C) /\ Len(is) = l /\ Len(cs) = l
  BY DEF Beside
<1>2. 0 \in C /\ 0 \in I
  OBVIOUS
<1> HIDE DEF C, I
<1>3. Cut(hs, p, n) \in Seq(C) /\ Len(Cut(hs, p, n)) = l /\ \A k \in 1..l : Cut(hs, p, n)[k] = g(hs, k)
  BY <1>1, <1>2, CutTyped
<1>4. Cut(is, p, n) \in Seq(I) /\ Len(Cut(is, p, n)) = l /\ \A k \in 1..l : Cut(is, p, n)[k] = g(is, k)
  BY <1>1, <1>2, CutTyped
<1>5. Cut(cs, p, n) \in Seq(C) /\ Len(Cut(cs, p, n)) = l /\ \A k \in 1..l : Cut(cs, p, n)[k] = g(cs, k)
  BY <1>1, <1>2, CutTyped
<1>6. /\ CutIds(is, p, n) \in Seq(I) /\ Len(CutIds(is, p, n)) = l
      /\ itemIds => CutIds(is, p, n) = Cut(is, p, n)
  BY <1>1, <1>4 DEF CutIds
<1>7. \A k \in 1..l : hs[k] \in 0..Len(idOf) /\ cs[k] \in {0, hs[k]} /\ (itemIds => is[k] = IdOf(hs[k]))
  BY DEF Beside
<1> HIDE DEF l
<1>8. ASSUME NEW k \in 1..l
      PROVE  g(hs, k) \in 0..Len(idOf) /\ g(cs, k) \in {0, g(hs, k)} /\ (itemIds => g(is, k) = IdOf(g(hs, k)))
  <2>1. CASE k < p \/ n <= 0
    BY <1>7, <2>1
  <2>2. CASE ~(k < p \/ n <= 0) /\ k + n \in 1..l
    BY <1>7, <2>2
  <2>3. CASE ~(k < p \/ n <= 0) /\ k + n \notin 1..l
    BY <2>3 DEF IdOf
  <2> QED  BY <2>1, <2>2, <2>3
<1> HIDE DEF g
<1> QED  BY <1>3, <1>4, <1>5, <1>6, <1>8 DEF Beside, C, I

\* The three entries of a new item, at the same place.
LEMMA BesideNew ==
  ASSUME NEW hs, NEW is, NEW cs, Beside(hs, is, cs), TreeTypeOK,
         NewItem \in Handle, NEW id \in Ids \cup {0}, NEW v \in {0, NewItem}, NEW c \in 1..(Len(hs) + 1),
         handles' = PutAt(hs, c, NewItem), ids' = PutAt(is, c, id), cargo' = PutAt(cs, c, v),
         idOf' = Append(idOf, id), UNCHANGED itemIds
  PROVE  /\ handles' \in Seq({0} \cup Handle) /\ cargo' \in Seq({0} \cup Handle)
         /\ ids' \in Seq(Ids \cup {0}) /\ idOf' \in Seq(Ids \cup {0})
         /\ Len(ids') = Len(handles') /\ Len(cargo') = Len(handles')
         /\ Known' /\ EntriesBelong'
<1> DEFINE l == Len(hs)
           C == {0} \cup Handle
           I == Ids \cup {0}
<1>1. /\ hs \in Seq(C) /\ cs \in Seq(C) /\ is \in Seq(I) /\ idOf \in Seq(I) /\ id \in I /\ NewItem \in C /\ v \in C
      /\ Len(is) = l /\ Len(cs) = l /\ l \in Nat /\ Len(idOf) \in Nat
      /\ NewItem = Len(idOf) + 1 /\ NewItem # 0
      /\ \A k \in 1..l : hs[k] \in 0..Len(idOf) /\ cs[k] \in {0, hs[k]} /\ (itemIds => is[k] = IdOf(hs[k]))
  BY LenProperties DEF Beside, TreeTypeOK, Handle, NewItem
<1>2. /\ idOf' \in Seq(I) /\ Len(idOf') = NewItem /\ idOf'[NewItem] = id
      /\ \A x \in 1..Len(idOf) : idOf'[x] = idOf[x]
  BY <1>1, AppendProperties
<1> HIDE DEF C, I
<1>0. c \in 1..(l + 1)
  OBVIOUS
<1> HIDE DEF l
<1>3. /\ handles' \in Seq(C) /\ Len(handles') = l + 1 /\ handles'[c] = NewItem
      /\ \A k \in 1..(c - 1) : handles'[k] = hs[k]
      /\ \A k \in (c + 1)..(l + 1) : handles'[k] = hs[k - 1]
  <2>1. hs \in Seq(C) /\ NewItem \in C /\ c \in 1..(Len(hs) + 1)
    BY <1>0, <1>1 DEF l
  <2>2. /\ PutAt(hs, c, NewItem) \in Seq(C) /\ Len(PutAt(hs, c, NewItem)) = Len(hs) + 1 /\ PutAt(hs, c, NewItem)[c] = NewItem
        /\ \A k \in 1..(c - 1) : PutAt(hs, c, NewItem)[k] = hs[k]
        /\ \A k \in (c + 1)..(Len(hs) + 1) : PutAt(hs, c, NewItem)[k] = hs[k - 1]
    BY ONLY <2>1, PutAtTyped, SMTT(60)
  <2> QED  BY <1>1, <2>2 DEF l
<1>4. /\ ids' \in Seq(I) /\ Len(ids') = l + 1 /\ ids'[c] = id
      /\ \A k \in 1..(c - 1) : ids'[k] = is[k]
      /\ \A k \in (c + 1)..(l + 1) : ids'[k] = is[k - 1]
  <2>1. is \in Seq(I) /\ id \in I /\ c \in 1..(Len(is) + 1)
    BY <1>0, <1>1 DEF l
  <2>2. /\ PutAt(is, c, id) \in Seq(I) /\ Len(PutAt(is, c, id)) = Len(is) + 1 /\ PutAt(is, c, id)[c] = id
        /\ \A k \in 1..(c - 1) : PutAt(is, c, id)[k] = is[k]
        /\ \A k \in (c + 1)..(Len(is) + 1) : PutAt(is, c, id)[k] = is[k - 1]
    BY ONLY <2>1, PutAtTyped, SMTT(60)
  <2> QED  BY <1>1, <2>2 DEF l
<1>5. /\ cargo' \in Seq(C) /\ Len(cargo') = l + 1 /\ cargo'[c] = v
      /\ \A k \in 1..(c - 1) : cargo'[k] = cs[k]
      /\ \A k \in (c + 1)..(l + 1) : cargo'[k] = cs[k - 1]
  <2>1. cs \in Seq(C) /\ v \in C /\ c \in 1..(Len(cs) + 1)
    BY <1>0, <1>1 DEF l
  <2>2. /\ PutAt(cs, c, v) \in Seq(C) /\ Len(PutAt(cs, c, v)) = Len(cs) + 1 /\ PutAt(cs, c, v)[c] = v
        /\ \A k \in 1..(c - 1) : PutAt(cs, c, v)[k] = cs[k]
        /\ \A k \in (c + 1)..(Len(cs) + 1) : PutAt(cs, c, v)[k] = cs[k - 1]
    BY ONLY <2>1, PutAtTyped, SMTT(60)
  <2> QED  BY <1>1, <2>2 DEF l
<1>6. ASSUME NEW k \in 1..(l + 1)
      PROVE  /\ handles'[k] \in 0..Len(idOf')
             /\ itemIds' => ids'[k] = IF handles'[k] = 0 THEN 0 ELSE idOf'[handles'[k]]
             /\ cargo'[k] \in {0, handles'[k]}
  <2>1. CASE k = c
    BY <1>1, <1>2, <1>3, <1>4, <1>5, <2>1
  <2>2. ASSUME NEW j \in 1..l, handles'[k] = hs[j], ids'[k] = is[j], cargo'[k] = cs[j]
        PROVE  /\ handles'[k] \in 0..Len(idOf')
               /\ itemIds' => ids'[k] = IF handles'[k] = 0 THEN 0 ELSE idOf'[handles'[k]]
               /\ cargo'[k] \in {0, handles'[k]}
    <3>1. hs[j] \in 0..Len(idOf) /\ cs[j] \in {0, hs[j]} /\ (itemIds => is[j] = IdOf(hs[j]))
      BY <1>1
    <3>2. hs[j] \in 0..Len(idOf') /\ (hs[j] # 0 => idOf'[hs[j]] = idOf[hs[j]])
      BY <1>1, <1>2, <3>1
    <3> QED  BY <2>2, <3>1, <3>2 DEF IdOf
  <2>3. CASE k < c
    <3>1. k \in 1..(c - 1) /\ k \in 1..l
      BY <1>0, <1>1, <2>3
    <3> QED  BY <1>3, <1>4, <1>5, <2>2, <3>1
  <2>4. CASE k > c
    <3>1. k \in (c + 1)..(l + 1) /\ k - 1 \in 1..l
      BY <1>0, <1>1, <2>4
    <3> QED  BY <1>3, <1>4, <1>5, <2>2, <3>1
  <2>5. k = c \/ k < c \/ k > c
    BY <1>0, <1>1
  <2> QED  BY <2>1, <2>3, <2>4, <2>5
<1>7. DOMAIN handles' = 1..(l + 1)
  <2>1. DOMAIN handles' = 1..Len(handles')
    BY <1>3, LenProperties
  <2> QED  BY <1>3, <2>1
<1>8. EntriesBelong' /\ Known'
  BY <1>6, <1>7 DEF EntriesBelong, Known, Places
<1> QED  BY <1>2, <1>3, <1>4, <1>5, <1>8 DEF C, I

\* Arrays that change while the items stay what they are.
LEMMA BesideNext ==
  ASSUME Beside(handles', ids', cargo'), UNCHANGED <<itemIds, idOf>>
  PROVE  /\ handles' \in Seq({0} \cup Handle) /\ cargo' \in Seq({0} \cup Handle)
         /\ ids' \in Seq(Ids \cup {0})
         /\ Len(ids') = Len(handles') /\ Len(cargo') = Len(handles')
         /\ Known' /\ EntriesBelong'
<1>1. DOMAIN handles' = 1..Len(handles')
  BY LenProperties DEF Beside
<1> QED  BY <1>1 DEF Beside, IdOf, Known, EntriesBelong, Places

-------------------------------------------------------------------------------
(* The pending deletions.                                                  *)

Frames == [place : Nat, before : 0..MaxItems]

LEMMA CountBound ==
  ASSUME TreeTypeOK, Branches, Lists(view, Items, UnderOf)
  PROVE  Count \in 0..MaxItems
<1>1. IsFiniteSet(Handle) /\ Cardinality(Handle) = MaxItems
  BY TreeBounds, FS_Interval DEF Handle
<1>2. Items \subseteq Handle /\ Count \in Nat
  BY ItemsTyped
<1>3. Cardinality(Items) <= Cardinality(Handle)
  BY <1>1, <1>2, FS_Subset
<1> QED  BY <1>1, <1>2, <1>3, ListsAll, TreeBounds DEF Count

LEMMA PushTyped ==
  ASSUME TreeTypeOK, Branches, Lists(view, Items, UnderOf), NEW q \in Nat, Len(pending) < MaxNested,
         pending' = Append(pending, [place |-> q, before |-> Count])
  PROVE  /\ pending' \in Seq(Frames) /\ Len(pending') = Len(pending) + 1 /\ Len(pending') <= MaxNested
         /\ pending' # <<>> /\ pending'[Len(pending) + 1] = [place |-> q, before |-> Count]
<1> DEFINE f == [place |-> q, before |-> Count]
<1>1. f \in Frames /\ pending \in Seq(Frames) /\ pending' = Append(pending, f) /\ MaxNested \in Nat
  BY CountBound, TreeBounds DEF Frames, TreeTypeOK
<1> HIDE DEF f
<1>2. /\ pending' \in Seq(Frames) /\ Len(pending') = Len(pending) + 1 /\ pending'[Len(pending) + 1] = f
      /\ Len(pending) \in Nat
  BY <1>1, AppendProperties, LenProperties
<1>3. Len(pending') <= MaxNested
  BY <1>1, <1>2
<1>4. pending' # <<>>
  BY <1>2, EmptySeq
<1> QED  BY <1>2, <1>3, <1>4 DEF f

LEMMA PopTyped ==
  ASSUME TreeTypeOK, pending # <<>>, pending' = Front(pending)
  PROVE  /\ pending' \in Seq(Frames) /\ Len(pending') <= MaxNested
         /\ Last(pending) \in Frames /\ Last(pending) = pending[Len(pending)]
         /\ Len(pending) = 1 => pending' = <<>>
<1>1. pending \in Seq(Frames) /\ Len(pending) <= MaxNested
  BY DEF Frames, TreeTypeOK
<1>2. /\ pending' \in Seq(Frames) /\ Len(pending) \in Nat \ {0} /\ Len(pending') = Len(pending) - 1
      /\ Last(pending) = pending[Len(pending)] /\ Last(pending) \in Frames
  BY <1>1, FrontTyped
<1>3. Len(pending) = 1 => pending' = <<>>
  BY <1>2, EmptySeq
<1>4. Len(pending') <= MaxNested
  BY <1>1, <1>2, TreeBounds
<1> QED  BY <1>2, <1>3, <1>4

-------------------------------------------------------------------------------
(* The steps of any program.                                               *)

\* A step that leaves the items alone.
LEMMA Unmoved ==
  ASSUME UNCHANGED <<view, above>>
  PROVE  Items' = Items /\ Count' = Count /\ UnderOf' = UnderOf
<1>1. Items' = Items /\ Count' = Count
  BY DEF Items, Count
<1>2. UnderOf' = UnderOf
  BY <1>1 DEF UnderOf, Under
<1> QED  BY <1>1, <1>2

\* A new item under h whose entries come at the place c of the arrays, which
\* may have been resized before.
LEMMA Grow ==
  ASSUME TreeBase, NEW h \in {Root} \cup Items, NEW id \in Ids \cup {0},
         Insert(h, id), Cardinality(Over(h)) < MaxLevel,
         NEW hs, NEW is, NEW cs, Beside(hs, is, cs),
         NEW v \in {0, NewItem}, NEW c \in 1..(Len(hs) + 1),
         handles' = PutAt(hs, c, NewItem), ids' = PutAt(is, c, id), cargo' = PutAt(cs, c, v),
         UNCHANGED <<itemIds, pending, sorted>>, reentered' \in BOOLEAN,
         nodes' \in Seq({Root} \cup Handle), Len(nodes') <= MaxLevel + 1
  PROVE  TreeTypeOK' /\ Branches' /\ Lists(view', Items', UnderOf') /\ Known' /\ EntriesBelong'
<1>1. TreeTypeOK /\ Branches /\ Lists(view, Items, UnderOf)
  BY DEF TreeBase
<1>2. /\ NewItem \in Handle /\ Items' = Items \cup {NewItem}
      /\ Branches' /\ Lists(view', Items', UnderOf')
      /\ above' \in Seq(SUBSET ({Root} \cup Handle))
  BY <1>1, InsertTree
<1>3. idOf' = Append(idOf, id)
  BY DEF Insert
<1>4. /\ handles' \in Seq({0} \cup Handle) /\ cargo' \in Seq({0} \cup Handle)
      /\ ids' \in Seq(Ids \cup {0}) /\ idOf' \in Seq(Ids \cup {0})
      /\ Len(ids') = Len(handles') /\ Len(cargo') = Len(handles')
      /\ Known' /\ EntriesBelong'
  BY <1>1, <1>2, <1>3, BesideNew
<1>5. view' \in Seq(Handle)
  <2>1. view' \in Seq(Items') /\ Items' \subseteq Handle
    BY <1>1, <1>2, ItemsTyped DEF Lists
  <2> QED  BY <2>1, SeqMonotonic
<1>6. TreeTypeOK'
  BY <1>1, <1>2, <1>4, <1>5 DEF TreeTypeOK
<1> QED  BY <1>2, <1>4, <1>6

\* While the tree is defined, the end of the tree is under the open node.
LEMMA OpenNode ==
  ASSUME TreeBase, Defining, Len(nodes) <= MaxLevel
  PROVE  /\ pending = <<>> /\ ~sorted /\ ~reentered /\ Len(nodes) \in Nat \ {0}
         /\ Last(nodes) \in {Root} \cup Items /\ Cardinality(Over(Last(nodes))) < MaxLevel
         /\ Cardinality(Over(Last(nodes))) = Len(nodes) - 1
         /\ Over(Last(nodes)) \cup {Last(nodes)} = {nodes[j] : j \in 1..Len(nodes)}
         /\ Behind(Last(nodes)) = Count + 1
<1>1. TreeTypeOK /\ Branches /\ Lists(view, Items, UnderOf) /\ Growing
  BY DEF TreeBase
<1> DEFINE n == Len(nodes)
           h == Last(nodes)
<1>2. n \in Nat \ {0} /\ h = nodes[n]
  BY <1>1, EmptySeq DEF TreeTypeOK, Defining, Last
<1>3. pending = <<>> /\ ~sorted /\ ~reentered /\ nodes[1] = Root
  BY <1>1 DEF Growing
<1>4. Lists(view, Items, UnderOf) /\ Count \in Nat /\ Root \notin Items
  BY <1>1, ItemsTyped
<1>5. CASE n = 1
  <2>1. h = Root /\ Over(h) = {}
    BY <1>2, <1>3, <1>5 DEF Over
  <2>2. Cardinality(Over(h)) = 0
    BY <2>1, FS_EmptySet
  <2>3. Over(h) \cup {h} = {nodes[j] : j \in 1..n}
    BY <1>3, <1>5, <2>1
  <2>4. Behind(h) = Count + 1
    BY <2>1 DEF Behind
  <2> QED  BY <1>2, <1>3, <1>5, <2>1, <2>2, <2>3, <2>4, TreeBounds
<1>6. CASE n # 1
  <2>1. n \in 2..n /\ n <= MaxLevel
    <3>1. n \in Nat \ {0} /\ n # 1 /\ n <= MaxLevel
      BY <1>2, <1>6
    <3> HIDE DEF n
    <3> QED  BY <3>1
  <2>2. /\ nodes[n] \in Items /\ above[nodes[n]] = {nodes[j] : j \in 1..(n - 1)}
        /\ Cardinality(above[nodes[n]]) = n - 1 /\ view[Count] \in Under(nodes[n])
    BY <1>1, <2>1 DEF Growing
  <2>3. h \in Items /\ Over(h) = above[h] /\ view[Count] \in Under(h)
    BY <1>2, <1>4, <2>2 DEF Over
  <2>4. Cardinality(Over(h)) = n - 1 /\ Cardinality(Over(h)) < MaxLevel
    <3>1. n \in Nat \ {0} /\ n <= MaxLevel /\ h = nodes[n] /\ Over(h) = above[h]
      BY <1>2, <2>1, <2>3
    <3>2. Cardinality(Over(h)) = n - 1
      BY <2>2, <3>1, Zenon
    <3> HIDE DEF n, h
    <3> QED  BY <3>1, <3>2, TreeBounds
  <2>5. Over(h) \cup {h} = {nodes[j] : j \in 1..n}
    <3>1. Over(h) = {nodes[j] : j \in 1..(n - 1)} /\ h = nodes[n]
      BY <1>2, <2>2, <2>3
    <3> HIDE DEF n, h
    <3>2. 1..n = 1..(n - 1) \cup {n}
      BY <1>2
    <3> QED  BY <3>1, <3>2
  <2>6. Behind(h) = Count + 1
    <3> DEFINE p == Position(h)
               m == Cardinality(Under(h))
    <3>1. p \in 1..Len(view) /\ view[p] = h /\ Len(view) = Count
      BY <1>1, <1>4, <2>3, PlaceInView DEF Count
    <3>2. UnderOf[view[p]] = Under(h)
      BY <2>3, <3>1 DEF UnderOf
    <3>3. /\ m \in Nat \ {0} /\ p + m - 1 <= Len(view)
          /\ \A q \in 1..Len(view) : view[q] \in UnderOf[view[p]] <=> q \in p..(p + m - 1)
      BY <1>1, <1>4, <3>1, <3>2, TreeForest, Block
    <3>4. Count \in p..(p + m - 1)
      <4>1. Count \in 1..Len(view)
        BY <1>4, <3>1
      <4> QED  BY <2>3, <3>2, <3>3, <4>1
    <3>5. Behind(h) = p + m
      BY <1>4, <2>3 DEF Behind
    <3> HIDE DEF p, m
    <3> QED  BY <1>4, <3>1, <3>3, <3>4, <3>5
  <2> QED  BY <1>2, <1>3, <2>3, <2>4, <2>5, <2>6
<1> QED  BY <1>5, <1>6

LEMMA DefineBase ==
  ASSUME TreeBase, Defining, Len(nodes) <= MaxLevel, NEW id \in Ids \cup {0}, Define(Last(nodes), id),
         nodes' \in {nodes, Append(nodes, NewItem)}
  PROVE  TreeBase'
<1> DEFINE n == Len(nodes)
<1>1. TreeTypeOK /\ Branches /\ Lists(view, Items, UnderOf) /\ Known /\ Growing /\ EntriesBelong
  BY DEF TreeBase
<1>2. PICK h \in {Root} \cup Items : h = Last(nodes)
  BY OpenNode
<1>3. /\ pending = <<>> /\ ~sorted /\ ~reentered /\ n \in Nat \ {0}
      /\ Cardinality(Over(h)) < MaxLevel /\ Cardinality(Over(h)) = n - 1
      /\ Over(h) \cup {h} = {nodes[j] : j \in 1..n} /\ Behind(h) = Count + 1
  BY <1>2, OpenNode
<1>4. /\ Insert(h, id) /\ handles' = Append(handles, NewItem) /\ ids' = Append(ids, id)
      /\ cargo' = Append(cargo, NewItem) /\ UNCHANGED <<itemIds, pending, sorted, reentered>>
  BY <1>2 DEF Define, Insert
<1>5. /\ Beside(handles, ids, cargo) /\ Len(handles) \in Nat /\ Count \in Nat
  BY <1>1, BesideArrays, ItemsTyped
<1>6. /\ NewItem \in Handle /\ Items' = Items \cup {NewItem} /\ UnderOf' = GrownSets(h)
      /\ \A x \in Items : above'[x] = above[x]
      /\ above'[NewItem] = Over(h) \cup {h} /\ Cardinality(above'[NewItem]) = n
      /\ Lists(view', Items', UnderOf')
  BY <1>1, <1>3, <1>4, InsertTree
<1>7. handles' = PutAt(handles, Len(handles) + 1, NewItem) /\ ids' = PutAt(ids, Len(handles) + 1, id)
      /\ cargo' = PutAt(cargo, Len(handles) + 1, NewItem)
  BY <1>1, <1>4, PutAtEnd DEF TreeTypeOK
<1>8. view' = Append(view, NewItem)
  BY <1>1, <1>3, <1>4, PutAtEnd DEF Insert, Count, TreeTypeOK
<1>9. /\ nodes \in Seq({Root} \cup Handle) /\ nodes' \in Seq({Root} \cup Handle) /\ Len(nodes') \in {n, n + 1}
      /\ \A j \in 1..n : nodes'[j] = nodes[j]
      /\ Len(nodes') = n + 1 => nodes'[n + 1] = NewItem
  <2> DEFINE C == {Root} \cup Handle
  <2>1. nodes \in Seq(C) /\ NewItem \in C
    BY <1>1, <1>6 DEF TreeTypeOK
  <2> HIDE DEF C
  <2>2. CASE nodes' = nodes
    BY <1>3, <2>1, <2>2 DEF C
  <2>3. CASE nodes' = Append(nodes, NewItem)
    BY <1>3, <2>1, <2>3, AppendProperties DEF C
  <2> QED  BY <2>2, <2>3
<1>10. Len(nodes') <= MaxLevel + 1
  BY <1>3, <1>9, TreeBounds
<1>11. TreeTypeOK' /\ Branches' /\ Lists(view', Items', UnderOf') /\ Known' /\ EntriesBelong'
  <2>1. Len(handles) + 1 \in 1..(Len(handles) + 1) /\ NewItem \in {0, NewItem}
    BY <1>5
  <2>2. reentered' \in BOOLEAN
    BY <1>1, <1>4 DEF TreeTypeOK
  <2> QED  BY <1>3, <1>4, <1>5, <1>7, <1>9, <1>10, <2>1, <2>2, Grow
<1>12. Growing'
  <2>1. pending' = <<>> /\ ~sorted' /\ ~reentered' /\ nodes'[1] = Root
    <3>1. nodes[1] = Root /\ 1 \in 1..n
      BY <1>1, <1>3 DEF Growing
    <3> QED  BY <1>3, <1>4, <1>9, <3>1
  <2>2. Count' = Count + 1 /\ view'[Count'] = NewItem
    <3>1. Len(Append(view, NewItem)) = Len(view) + 1 /\ Append(view, NewItem)[Len(view) + 1] = NewItem
      BY <1>1, <1>6, AppendProperties DEF TreeTypeOK
    <3> QED  BY <1>8, <3>1 DEF Count
  <2>3. ASSUME NEW i \in 2..Len(nodes')
        PROVE  /\ nodes'[i] \in Items' /\ above'[nodes'[i]] = {nodes'[j] : j \in 1..(i - 1)}
               /\ Cardinality(above'[nodes'[i]]) = i - 1
               /\ view'[Count'] \in {x \in Items' : nodes'[i] \in above'[x] \cup {x}}
    <3>1. CASE i \in 2..n
      <4>1. i \in 1..n /\ nodes'[i] = nodes[i] /\ \A j \in 1..(i - 1) : nodes'[j] = nodes[j]
        BY <1>3, <1>9, <3>1
      <4>2. /\ nodes[i] \in Items /\ above[nodes[i]] = {nodes[j] : j \in 1..(i - 1)}
            /\ Cardinality(above[nodes[i]]) = i - 1
        BY <1>1, <3>1, <1>3 DEF Growing, Defining
      <4>3. above'[nodes'[i]] = above[nodes[i]]
        BY <1>6, <4>1, <4>2
      <4>4. {nodes'[j] : j \in 1..(i - 1)} = {nodes[j] : j \in 1..(i - 1)}
        BY <4>1
      <4>5. nodes'[i] \in above'[NewItem] /\ NewItem \in Items'
        BY <1>3, <1>6, <4>1
      <4>6. NewItem \in {x \in Items' : nodes'[i] \in above'[x] \cup {x}}
        BY <4>5
      <4> QED  BY <1>6, <2>2, <4>1, <4>2, <4>3, <4>4, <4>6
    <3>2. CASE i = n + 1
      <4>1. nodes'[i] = NewItem /\ NewItem \in Items' /\ i - 1 = n
        BY <1>3, <1>6, <1>9, <3>2
      <4>2. {nodes'[j] : j \in 1..n} = {nodes[j] : j \in 1..n}
        BY <1>9
      <4>3. NewItem \in {x \in Items' : nodes'[i] \in above'[x] \cup {x}}
        BY <4>1
      <4> HIDE DEF n
      <4>4. above'[nodes'[i]] = {nodes'[j] : j \in 1..(i - 1)}
        BY <1>3, <1>6, <4>1, <4>2
      <4> QED  BY <1>6, <2>2, <4>1, <4>3, <4>4
    <3> QED  BY <1>3, <1>9, <3>1, <3>2
  <2> QED  BY <2>1, <2>3 DEF Growing, Under
<1> QED  BY <1>11, <1>12 DEF TreeBase

LEMMA InitStep == InitTree => TreeInv
<1> SUFFICES ASSUME InitTree  PROVE TreeInv
  OBVIOUS
<1>1. /\ view = <<>> /\ above = <<>> /\ nodes = <<Root>> /\ handles = <<>> /\ ids = <<>> /\ cargo = <<>>
      /\ idOf = <<>> /\ pending = <<>> /\ sorted = FALSE /\ reentered = FALSE /\ itemIds \in BOOLEAN
  BY DEF InitTree
<1>2. Items = {} /\ Count = 0 /\ Len(idOf) = 0 /\ DOMAIN handles = {}
  BY <1>1 DEF Items, Count, ToSet
<1>3. Len(nodes) = 1 /\ nodes[1] = Root /\ nodes \in Seq({Root} \cup Handle)
  BY <1>1
<1>4. TreeTypeOK
  <2>1. pending \in Seq([place : Nat, before : 0..MaxItems]) /\ Len(pending) <= MaxNested
    BY <1>1, TreeBounds
  <2>2. Len(nodes) <= MaxLevel + 1
    BY <1>3, TreeBounds
  <2>3. /\ view \in Seq(Handle) /\ above \in Seq(SUBSET ({Root} \cup Handle))
        /\ handles \in Seq({0} \cup Handle) /\ cargo \in Seq({0} \cup Handle)
        /\ ids \in Seq(Ids \cup {0}) /\ idOf \in Seq(Ids \cup {0})
        /\ Len(ids) = Len(handles) /\ Len(cargo) = Len(handles)
    BY <1>1
  <2> QED  BY <1>1, <1>3, <2>1, <2>2, <2>3 DEF TreeTypeOK
<1>5. Branches
  BY <1>1, <1>2, TreeBounds DEF Branches
<1>6. Lists(<<>>, Items, UnderOf)
  BY <1>2 DEF Lists
<1>7. Growing
  <2>1. 2..Len(nodes) = {}
    BY <1>3
  <2> QED  BY <1>1, <1>3, <2>1 DEF Growing
<1>8. EntriesBelong /\ Known
  BY <1>2 DEF EntriesBelong, Known, Places
<1>9. KeptEntries = <<>>
  BY <1>1 DEF KeptEntries
<1> QED  BY <1>1, <1>4, <1>5, <1>6, <1>7, <1>8, <1>9 DEF TreeInv, TreeBase, Matched

LEMMA EndTreeNodeBase == ASSUME TreeBase, EndTreeNode PROVE TreeBase'
<1> DEFINE n == Len(nodes)
<1>1. TreeTypeOK /\ Branches /\ Lists(view, Items, UnderOf) /\ Known /\ Growing /\ EntriesBelong
  BY DEF TreeBase
<1>2. /\ n > 1 /\ nodes' = Front(nodes)
      /\ UNCHANGED <<itemIds, view, above, handles, ids, cargo, idOf, pending, sorted, reentered>>
  BY DEF EndTreeNode
<1>3. /\ nodes' \in Seq({Root} \cup Handle) /\ Len(nodes') = n - 1 /\ n \in Nat
      /\ \A j \in 1..(n - 1) : nodes'[j] = nodes[j]
  <2> DEFINE C == {Root} \cup Handle
  <2>1. nodes \in Seq(C) /\ nodes # <<>>
    BY <1>1, <1>2 DEF TreeTypeOK
  <2> HIDE DEF C
  <2>2. /\ Front(nodes) \in Seq(C) /\ Len(nodes) \in Nat \ {0} /\ Len(Front(nodes)) = Len(nodes) - 1
        /\ \A j \in 1..(Len(nodes) - 1) : Front(nodes)[j] = nodes[j]
    BY <2>1, FrontTyped
  <2> QED  BY <1>2, <2>2 DEF C
<1>4. Items' = Items /\ Count' = Count /\ UnderOf' = UnderOf
  BY <1>2, Unmoved
<1>5. TreeTypeOK'
  <2>1. Len(nodes') <= MaxLevel + 1
    BY <1>1, <1>3, TreeBounds DEF TreeTypeOK
  <2> QED  BY <1>1, <1>2, <1>3, <2>1 DEF TreeTypeOK
<1>6. Branches'
  BY <1>1, <1>2, <1>4 DEF Branches
<1>7. Lists(view', Items', UnderOf')
  BY <1>1, <1>2, <1>4
<1>8. EntriesBelong' /\ Known'
  BY <1>1, <1>2 DEF EntriesBelong, Known, Places
<1>9. Growing'
  <2>1. /\ pending = <<>> /\ ~sorted /\ ~reentered /\ nodes[1] = Root
        /\ \A i \in 2..n :
             /\ nodes[i] \in Items /\ above[nodes[i]] = {nodes[j] : j \in 1..(i - 1)}
             /\ Cardinality(above[nodes[i]]) = i - 1
             /\ view[Count] \in Under(nodes[i])
    <3>1. nodes # <<>>
      BY <1>2
    <3> QED  BY <1>1, <3>1 DEF Growing, Defining
  <2>2. ASSUME NEW i \in 2..Len(nodes')
        PROVE  /\ nodes'[i] \in Items' /\ above'[nodes'[i]] = {nodes'[j] : j \in 1..(i - 1)}
               /\ Cardinality(above'[nodes'[i]]) = i - 1
               /\ view'[Count'] \in {x \in Items' : nodes'[i] \in above'[x] \cup {x}}
    <3>1. i \in 2..n /\ nodes'[i] = nodes[i] /\ \A j \in 1..(i - 1) : nodes'[j] = nodes[j]
      BY <1>3
    <3>2. {nodes'[j] : j \in 1..(i - 1)} = {nodes[j] : j \in 1..(i - 1)}
      BY <3>1
    <3>3. view[Count] \in {x \in Items : nodes[i] \in above[x] \cup {x}}
      BY <2>1, <3>1 DEF Under
    <3> HIDE DEF n
    <3> QED  BY <1>2, <1>4, <2>1, <3>1, <3>2, <3>3
  <2>3. nodes'[1] = Root /\ pending' = <<>> /\ ~sorted' /\ ~reentered'
    BY <1>2, <1>3, <2>1
  <2> QED  BY <2>2, <2>3 DEF Growing, Under
<1> QED  BY <1>5, <1>6, <1>7, <1>8, <1>9 DEF TreeBase

\* Steps that change nothing but nodes, which stay or are forgotten.
LEMMA QuietBase ==
  ASSUME TreeBase, UNCHANGED <<itemIds, view, above, handles, ids, cargo, idOf, pending, sorted, reentered>>,
         nodes' \in {nodes, <<>>}
  PROVE  TreeBase'
<1>1. TreeTypeOK /\ Branches /\ Lists(view, Items, UnderOf) /\ Known /\ Growing /\ EntriesBelong
  BY DEF TreeBase
<1>2. Items' = Items /\ Count' = Count /\ UnderOf' = UnderOf
  BY Unmoved
<1>3. TreeTypeOK'
  <2>1. nodes' \in Seq({Root} \cup Handle) /\ Len(nodes') <= MaxLevel + 1
    <3> DEFINE C == {Root} \cup Handle
    <3>1. nodes \in Seq(C) /\ Len(nodes) <= MaxLevel + 1
      BY <1>1 DEF TreeTypeOK
    <3>2. <<>> \in Seq(C) /\ Len(<<>>) <= MaxLevel + 1
      BY TreeBounds
    <3> HIDE DEF C
    <3>3. nodes' \in Seq(C) /\ Len(nodes') <= MaxLevel + 1
      BY <3>1, <3>2
    <3> QED  BY <3>3 DEF C
  <2> QED  BY <1>1, <2>1 DEF TreeTypeOK
<1>4. Branches'
  BY <1>1, <1>2 DEF Branches
<1>5. Lists(view', Items', UnderOf')
  BY <1>1, <1>2
<1>6. EntriesBelong' /\ Known'
  BY <1>1 DEF EntriesBelong, Known, Places
<1>7. Growing'
  <2>1. CASE nodes' = <<>>
    BY <2>1 DEF Growing, Defining
  <2>2. CASE nodes' = nodes
    <3>1. CASE Defining
      <4>1. /\ pending = <<>> /\ ~sorted /\ ~reentered /\ nodes[1] = Root
            /\ \A i \in 2..Len(nodes) :
                 /\ nodes[i] \in Items /\ above[nodes[i]] = {nodes[j] : j \in 1..(i - 1)}
                 /\ Cardinality(above[nodes[i]]) = i - 1
                 /\ view[Count] \in {x \in Items : nodes[i] \in above[x] \cup {x}}
        BY <1>1, <3>1 DEF Growing, Under
      <4>2. ASSUME NEW i \in 2..Len(nodes')
            PROVE  /\ nodes'[i] \in Items' /\ above'[nodes'[i]] = {nodes'[j] : j \in 1..(i - 1)}
                   /\ Cardinality(above'[nodes'[i]]) = i - 1
                   /\ view'[Count'] \in {x \in Items' : nodes'[i] \in above'[x] \cup {x}}
        <5>1. i \in 2..Len(nodes)
          BY <2>2
        <5>2. nodes' = nodes /\ above' = above /\ view' = view /\ Items' = Items /\ Count' = Count
          BY <1>2, <2>2
        <5>3. /\ nodes[i] \in Items /\ above[nodes[i]] = {nodes[j] : j \in 1..(i - 1)}
              /\ Cardinality(above[nodes[i]]) = i - 1
              /\ view[Count] \in {x \in Items : nodes[i] \in above[x] \cup {x}}
          BY <4>1, <5>1
        <5> QED  BY ONLY <5>2, <5>3
      <4>3. nodes'[1] = Root /\ pending' = <<>> /\ ~sorted' /\ ~reentered'
        BY <2>2, <4>1
      <4> QED  BY <4>2, <4>3 DEF Growing, Under
    <3>2. CASE ~Defining
      BY <2>2, <3>2 DEF Growing, Defining
    <3> QED  BY <3>1, <3>2
  <2> QED  BY <2>1, <2>2
<1> QED  BY <1>3, <1>4, <1>5, <1>6, <1>7 DEF TreeBase

LEMMA AddBase ==
  ASSUME TreeBase, NEW p \in 0..Len(handles), NEW id \in Ids \cup {0}, AddItem(p, id)
  PROVE  TreeBase'
<1>1. TreeTypeOK /\ Branches /\ Lists(view, Items, UnderOf) /\ Known /\ Growing /\ EntriesBelong
  BY DEF TreeBase
<1>2. Ready /\ Call /\ UNCHANGED <<itemIds, nodes, pending, sorted>>
  BY DEF AddItem
<1>3. Beside(handles, ids, cargo) /\ Len(handles) \in Nat /\ Count \in Nat /\ Len(idOf) \in Nat
  BY <1>1, BesideArrays, ItemsTyped
<1>4. nodes' \in Seq({Root} \cup Handle) /\ Len(nodes') <= MaxLevel + 1 /\ reentered' \in BOOLEAN
  BY <1>1, <1>2 DEF TreeTypeOK, Call
<1>5. Growing'
  BY <1>2 DEF Growing, Ready, Defining
<1>6. CASE /\ p = 0 /\ Insert(Root, id)
           /\ handles' = Append(handles, NewItem) /\ ids' = Append(ids, id) /\ cargo' = Append(cargo, 0)
  <2>1. Root \in {Root} \cup Items /\ 0 \in {0, NewItem} /\ Len(handles) + 1 \in 1..(Len(handles) + 1)
    BY <1>3
  <2>2. Cardinality(Over(Root)) < MaxLevel
    BY FS_EmptySet, TreeBounds DEF Over
  <2>3. /\ handles' = PutAt(handles, Len(handles) + 1, NewItem) /\ ids' = PutAt(ids, Len(handles) + 1, id)
        /\ cargo' = PutAt(cargo, Len(handles) + 1, 0)
    BY <1>1, <1>6, PutAtEnd DEF TreeTypeOK
  <2>4. TreeTypeOK' /\ Branches' /\ Lists(view', Items', UnderOf') /\ Known' /\ EntriesBelong'
    BY <1>2, <1>3, <1>4, <1>6, <2>1, <2>2, <2>3, Grow
  <2> QED  BY <1>5, <2>4 DEF TreeBase
<1>7. CASE /\ Callable(p) /\ Level(handles[Named(p)]) < MaxLevel /\ Insert(handles[Named(p)], id)
           /\ LET at == Named(p) + Steps(view', above', handles[Named(p)])
              IN  /\ at <= Count + 1
                  /\ handles' = PutAt(Resize(handles, Count), at, NewItem)
                  /\ ids' = PutAt(Resize(ids, Count), at, id)
                  /\ cargo' = PutAt(Resize(cargo, Count), at, 0)
  <2>1. PICK q \in Places : q = Named(p) /\ handles[q] \in Items
    BY <1>1, <1>7, NamedPlace DEF Callable, There
  <2>2. PICK h \in Items : h = handles[q]
    BY <2>1
  <2>3. Insert(h, id) /\ Over(h) = above[h] /\ Cardinality(Over(h)) < MaxLevel
    <3>1. h # Root
      BY <1>1, ItemsTyped
    <3> QED  BY <1>7, <2>1, <2>2, <3>1 DEF Over, Level
  <2> DEFINE hs == Resize(handles, Count)
             is == Resize(ids, Count)
             cs == Resize(cargo, Count)
             c == q + Steps(view', above', h)
  <2>4. Beside(hs, is, cs) /\ Len(hs) = Count
    BY <1>3, BesideResize
  <2>5. c <= Count + 1 /\ handles' = PutAt(hs, c, NewItem) /\ ids' = PutAt(is, c, id) /\ cargo' = PutAt(cs, c, 0)
    BY <1>7, <2>1, <2>2
  <2>6. Steps(view', above', h) \in Nat
    <3>1. IsFiniteSet(ToSet(view'))
      BY <1>1, <2>3, InsertTree, ListsAll DEF Items
    <3> QED  BY <3>1, FS_Subset, FS_CardinalityType DEF Steps
  <2> HIDE DEF hs, is, cs
  <2>7. c \in 1..(Len(hs) + 1) /\ 0 \in {0, NewItem}
    BY <1>3, <2>4, <2>5, <2>6 DEF Places
  <2> HIDE DEF c
  <2>8. TreeTypeOK' /\ Branches' /\ Lists(view', Items', UnderOf') /\ Known' /\ EntriesBelong'
    BY <1>2, <1>4, <2>3, <2>4, <2>5, <2>7, Grow
  <2> QED  BY <1>5, <2>8 DEF TreeBase
<1> QED  BY <1>6, <1>7 DEF AddItem

LEMMA DeleteItemBase == ASSUME TreeBase, NEW p \in Places, DeleteItem(p) PROVE TreeBase'
<1>1. TreeTypeOK /\ Branches /\ Lists(view, Items, UnderOf) /\ Known /\ Growing /\ EntriesBelong
  BY DEF TreeBase
<1>2. /\ Ready /\ Call /\ Callable(p) /\ Len(pending) < MaxNested /\ Prune(handles[Named(p)])
      /\ pending' = Append(pending, [place |-> Named(p), before |-> Count])
      /\ UNCHANGED <<itemIds, nodes, handles, ids, cargo, idOf, sorted>>
  BY DEF DeleteItem
<1>3. PICK q \in Places : q = Named(p) /\ handles[q] \in Items
  BY <1>1, <1>2, NamedPlace DEF Callable, There
<1>4. /\ Items' \subseteq Items /\ Branches' /\ Lists(view', Items', UnderOf')
      /\ above' \in Seq(SUBSET ({Root} \cup Handle))
  BY <1>1, <1>2, <1>3, PruneTree
<1>5. pending' \in Seq(Frames) /\ Len(pending') <= MaxNested
  <2>1. q \in Nat
    BY <1>1, BesideArrays
  <2> QED  BY <1>1, <1>2, <1>3, <2>1, PushTyped
<1>6. TreeTypeOK'
  <2>1. view' \in Seq(Handle)
    <3>1. view' \in Seq(Items') /\ Items' \subseteq Handle
      BY <1>1, <1>4, ItemsTyped DEF Lists
    <3> QED  BY <3>1, SeqMonotonic
  <2>2. reentered' \in BOOLEAN
    BY <1>1, <1>2 DEF Call, TreeTypeOK
  <2> QED  BY <1>1, <1>2, <1>4, <1>5, <2>1, <2>2 DEF TreeTypeOK, Frames
<1>7. Growing'
  BY <1>2 DEF Growing, Ready, Defining
<1>8. EntriesBelong' /\ Known'
  BY <1>1, <1>2 DEF EntriesBelong, Known, Places
<1> QED  BY <1>4, <1>6, <1>7, <1>8 DEF TreeBase

LEMMA DeleteEntriesBase == ASSUME TreeBase, DeleteEntries PROVE TreeBase'
<1>1. TreeTypeOK /\ Branches /\ Lists(view, Items, UnderOf) /\ Known /\ Growing /\ EntriesBelong
  BY DEF TreeBase
<1> DEFINE q == Last(pending).place
           n == Deleted
<1>2. /\ pending # <<>> /\ pending' = Front(pending)
      /\ UNCHANGED <<itemIds, view, above, nodes, idOf, sorted, reentered>>
  BY DEF DeleteEntries
<1>3. Items' = Items /\ Count' = Count /\ UnderOf' = UnderOf
  BY <1>2, Unmoved
<1>4. /\ Beside(handles, ids, cargo) /\ Count \in Nat /\ Len(idOf) \in Nat
      /\ q \in Nat /\ n \in Int /\ pending' \in Seq(Frames) /\ Len(pending') <= MaxNested
  <2>1. Last(pending) \in Frames /\ pending' \in Seq(Frames) /\ Len(pending') <= MaxNested
    BY <1>1, <1>2, PopTyped
  <2>2. Count \in Nat /\ Len(idOf) \in Nat
    BY <1>1, ItemsTyped
  <2>3. q \in Nat /\ n \in Int
    BY <2>1, <2>2, TreeBounds DEF Frames, Deleted
  <2> QED  BY <1>1, <2>1, <2>2, <2>3, BesideArrays
<1>5. Beside(handles', ids', cargo')
  <2>1. CASE handles' = <<>> /\ ids' = <<>> /\ cargo' = <<>>
    BY <2>1 DEF Beside
  <2>2. CASE /\ handles' = Resize(Cut(handles, q, n), Count)
             /\ ids' = Resize(CutIds(ids, q, n), Count)
             /\ cargo' = Resize(Cut(cargo, q, n), Count)
    <3> HIDE DEF q, n
    <3>1. Beside(Cut(handles, q, n), CutIds(ids, q, n), Cut(cargo, q, n))
      BY <1>4, BesideCut
    <3> QED  BY <1>4, <2>2, <3>1, BesideResize
  <2> QED  BY <2>1, <2>2 DEF DeleteEntries
<1>6. /\ handles' \in Seq({0} \cup Handle) /\ cargo' \in Seq({0} \cup Handle) /\ ids' \in Seq(Ids \cup {0})
      /\ Len(ids') = Len(handles') /\ Len(cargo') = Len(handles') /\ Known' /\ EntriesBelong'
  BY <1>2, <1>5, BesideNext
<1>7. TreeTypeOK'
  BY <1>1, <1>2, <1>4, <1>6 DEF TreeTypeOK, Frames
<1>8. Branches' /\ Lists(view', Items', UnderOf')
  BY <1>1, <1>2, <1>3 DEF Branches
<1>9. Growing'
  BY <1>1, <1>2 DEF Growing, Defining
<1> QED  BY <1>6, <1>7, <1>8, <1>9 DEF TreeBase

LEMMA DeleteAllBase == ASSUME TreeBase, DeleteAllItems PROVE TreeBase'
<1>1. TreeTypeOK /\ Branches /\ Lists(view, Items, UnderOf) /\ Known /\ Growing /\ EntriesBelong
  BY DEF TreeBase
<1>2. /\ Ready /\ view' = <<>> /\ above' = [x \in DOMAIN above |-> {}]
      /\ UNCHANGED <<itemIds, nodes, idOf, sorted, reentered>>
  BY DEF DeleteAllItems
<1>3. Items' = {} /\ Count' = 0 /\ Lists(view', Items', UnderOf')
  BY <1>2 DEF Items, Count, ToSet, Lists
<1>4. above' \in Seq(SUBSET ({Root} \cup Handle)) /\ Len(above') = Len(idOf)
  <2>1. DOMAIN above = 1..Len(idOf) /\ Len(idOf) \in Nat
    BY <1>1, ItemsTyped
  <2>2. above' \in [1..Len(idOf) -> SUBSET ({Root} \cup Handle)]
    BY <1>2, <2>1
  <2>3. above' \in Seq(SUBSET ({Root} \cup Handle))
    BY <2>1, <2>2, ListType
  <2>4. 1..Len(above') = 1..Len(idOf) /\ Len(above') \in Nat
    BY <2>2, <2>3, LenProperties
  <2> QED  BY ONLY <2>1, <2>3, <2>4
<1>5. Beside(handles', ids', cargo') /\ pending' \in Seq(Frames) /\ Len(pending') <= MaxNested
  <2>1. CASE /\ Len(pending) < MaxNested /\ pending' = Append(pending, [place |-> 0, before |-> Count])
             /\ UNCHANGED <<handles, ids, cargo>>
    <3>1. pending' \in Seq(Frames) /\ Len(pending') <= MaxNested
      BY <1>1, <2>1, PushTyped
    <3>2. Beside(handles, ids, cargo)
      BY <1>1, BesideArrays
    <3> QED  BY <2>1, <3>1, <3>2
  <2>2. CASE handles' = <<>> /\ ids' = <<>> /\ cargo' = <<>> /\ UNCHANGED pending
    BY <1>1, <2>2 DEF Beside, TreeTypeOK, Frames
  <2> QED  BY <2>1, <2>2 DEF DeleteAllItems
<1>6. /\ handles' \in Seq({0} \cup Handle) /\ cargo' \in Seq({0} \cup Handle) /\ ids' \in Seq(Ids \cup {0})
      /\ Len(ids') = Len(handles') /\ Len(cargo') = Len(handles') /\ Known' /\ EntriesBelong'
  BY <1>2, <1>5, BesideNext
<1>7. TreeTypeOK'
  <2>1. view' \in Seq(Handle)
    BY <1>2
  <2> QED  BY <1>1, <1>2, <1>4, <1>5, <1>6, <2>1 DEF TreeTypeOK, Frames
<1>8. Branches'
  BY <1>1, <1>2, <1>3, <1>4 DEF Branches
<1>9. Growing'
  BY <1>2 DEF Growing, Ready, Defining
<1> QED  BY <1>3, <1>6, <1>7, <1>8, <1>9 DEF TreeBase

LEMMA SetCargoBase == ASSUME TreeBase, NEW p \in Places, SetCargo(p) PROVE TreeBase'
<1>1. TreeTypeOK /\ Branches /\ Lists(view, Items, UnderOf) /\ Known /\ Growing /\ EntriesBelong
  BY DEF TreeBase
<1>2. /\ Ready /\ cargo' = [cargo EXCEPT ![Named(p)] = handles[Named(p)]]
      /\ UNCHANGED <<itemIds, view, above, nodes, handles, ids, idOf, pending, sorted, reentered>>
  BY DEF SetCargo
<1>3. PICK q \in Places : q = Named(p)
  BY <1>1, NamedPlace
<1>4. Items' = Items /\ Count' = Count /\ UnderOf' = UnderOf
  BY <1>2, Unmoved
<1> DEFINE l == Len(handles)
           C == {0} \cup Handle
<1>5. /\ cargo \in Seq(C) /\ cargo \in [1..l -> C] /\ Len(cargo) = l /\ l \in Nat /\ Places = 1..l
      /\ handles[q] \in C
  BY <1>1, <1>3, LenProperties DEF TreeTypeOK, Places
<1>6. cargo' \in Seq(C) /\ Len(cargo') = l
  <2>1. cargo' \in [1..l -> C]
    <3> HIDE DEF C, l
    <3> QED  BY <1>2, <1>3, <1>5
  <2> HIDE DEF C, l
  <2>2. cargo' \in Seq(C)
    BY <1>5, <2>1, ListType
  <2>3. Len(cargo') \in Nat /\ 1..Len(cargo') = 1..l
    BY <2>1, <2>2, LenProperties
  <2> QED  BY ONLY <1>5, <2>2, <2>3
<1>7. TreeTypeOK'
  BY <1>1, <1>2, <1>6 DEF TreeTypeOK
<1>8. Branches'
  BY <1>1, <1>2, <1>4 DEF Branches
<1>9. Lists(view', Items', UnderOf') /\ Known'
  BY <1>1, <1>2, <1>4 DEF Known, Places
<1>10. Growing'
  BY <1>2 DEF Growing, Ready, Defining
<1>11. EntriesBelong'
  <2>1. ASSUME NEW k \in 1..l
        PROVE  /\ itemIds' => ids'[k] = IF handles'[k] = 0 THEN 0 ELSE idOf'[handles'[k]]
               /\ cargo'[k] \in {0, handles'[k]}
    <3>1. /\ itemIds => ids[k] = IF handles[k] = 0 THEN 0 ELSE idOf[handles[k]]
          /\ cargo[k] \in {0, handles[k]}
      BY <1>1, <1>5, <2>1 DEF EntriesBelong
    <3>2. cargo'[k] = IF k = q THEN handles[q] ELSE cargo[k]
      <4> HIDE DEF l, C
      <4> QED  BY <1>2, <1>3, <1>5
    <3> QED  BY <1>2, <3>1, <3>2
  <2> QED  BY <1>2, <1>5, <2>1 DEF EntriesBelong, Places
<1> QED  BY <1>7, <1>8, <1>9, <1>10, <1>11 DEF TreeBase

LEMMA SortBase ==
  ASSUME TreeBase, NEW h, NEW recurse, TreeItemSort(h, recurse)
  PROVE  TreeBase' /\ Items' = Items /\ Count' = Count /\ UnderOf' = UnderOf
<1>1. TreeTypeOK /\ Branches /\ Lists(view, Items, UnderOf) /\ Known /\ Growing /\ EntriesBelong
  BY DEF TreeBase
<1>2. /\ Ready /\ sorted' = TRUE
      /\ UNCHANGED <<itemIds, above, nodes, handles, ids, cargo, idOf, pending, reentered>>
  BY DEF TreeItemSort
<1>3. PICK s \in [1..Count -> Items] : ToSet(s) = Items /\ Together(s) /\ view' = s
  BY DEF TreeItemSort
<1>4. /\ Lists(view, Items, UnderOf) /\ Count \in Nat
  BY <1>1, ItemsTyped
<1>5. IsFiniteSet(Items) /\ Cardinality(Items) = Count /\ Items \subseteq Handle
  BY <1>1, <1>4, ListsAll, ItemsTyped DEF Count
<1>6. s \in Seq(Items) /\ Len(s) = Count
  <2>1. s \in Seq(Items)
    BY <1>3, <1>4, ListType
  <2>2. Len(s) \in Nat /\ 1..Len(s) = 1..Count
    BY <1>3, <2>1, LenProperties
  <2> QED  BY ONLY <1>4, <2>1, <2>2
<1>7. \A i, j \in DOMAIN s : s[i] = s[j] => i = j
  <2> DEFINE D == 1..Count
  <2>1. IsFiniteSet(D) /\ Cardinality(D) = Cardinality(Items)
    BY <1>4, <1>5, FS_Interval
  <2>2. s \in [D -> Items] /\ \A x \in Items : \E i \in D : s[i] = x
    BY <1>3 DEF ToSet
  <2> HIDE DEF D
  <2>3. s \in Surjection(D, Items)
    BY <2>2, Fun_IsSurj
  <2>4. s \in Injection(D, Items)
    BY <1>5, <2>1, <2>3, FS_SurjSameCardinalityImpliesInj
  <2>5. \A i, j \in D : s[i] = s[j] => i = j
    BY <2>4 DEF Injection, IsInjective
  <2> QED  BY <2>2, <2>5
<1>8. Lists(s, Items, UnderOf)
  BY <1>3, <1>5, <1>6, <1>7, TogetherLists
<1>9. Items' = Items /\ Count' = Count
  BY <1>3, <1>6 DEF Items, Count
<1>10. UnderOf' = UnderOf
  BY <1>2, <1>9 DEF UnderOf, Under
<1>11. TreeTypeOK'
  <2>1. view' \in Seq(Handle)
    BY <1>3, <1>5, <1>6, SeqMonotonic
  <2> QED  BY <1>1, <1>2, <2>1 DEF TreeTypeOK
<1>12. Branches'
  BY <1>1, <1>2, <1>9 DEF Branches
<1>13. Lists(view', Items', UnderOf')
  BY <1>3, <1>8, <1>9, <1>10
<1>14. Growing'
  BY <1>2 DEF Growing, Ready, Defining
<1>15. EntriesBelong' /\ Known'
  BY <1>1, <1>2 DEF EntriesBelong, Known, Places
<1> QED  BY <1>9, <1>10, <1>11, <1>12, <1>13, <1>14, <1>15 DEF TreeBase

LEMMA BaseStep == ASSUME TreeBase, [TreeNext]_treeVars PROVE TreeBase'
<1>1. \A id \in GivenIds : id \in Ids \cup {0}
  BY DEF GivenIds
<1>2. CASE \E id \in GivenIds : DefineTreeNode(id) \/ DefineTreeItem(id)
  <2>1. PICK id \in Ids \cup {0} : DefineTreeNode(id) \/ DefineTreeItem(id)
    BY <1>1, <1>2
  <2>2. CASE DefineTreeNode(id)
    BY <2>2, DefineBase DEF DefineTreeNode
  <2>3. CASE DefineTreeItem(id)
    BY <2>3, DefineBase DEF DefineTreeItem
  <2> QED  BY <2>1, <2>2, <2>3
<1>3. CASE EndTreeNode
  BY <1>3, EndTreeNodeBase
<1>4. CASE EndTree
  BY <1>4, QuietBase DEF EndTree
<1>5. CASE \E p \in 0..Len(handles), id \in GivenIds : AddItem(p, id)
  BY <1>1, <1>5, AddBase
<1>6. CASE \E p \in Places : DeleteItem(p) \/ SetCargo(p)
  BY <1>6, DeleteItemBase, SetCargoBase
<1>7. CASE DeleteEntries \/ DeleteAllItems
  BY <1>7, DeleteEntriesBase, DeleteAllBase
<1>8. CASE \E recurse \in BOOLEAN :
             \/ \E p \in Places : There(p) /\ TreeItemSort(handles[Named(p)], recurse)
             \/ view # <<>> /\ TreeItemSort(view[1], recurse)
  <2>1. PICK h, recurse : TreeItemSort(h, recurse)
    BY <1>8
  <2> QED  BY <2>1, SortBase
<1>9. CASE UNCHANGED treeVars
  BY <1>9, QuietBase DEF treeVars
<1> QED  BY <1>2, <1>3, <1>4, <1>5, <1>6, <1>7, <1>8, <1>9 DEF TreeNext, Definition, Methods

-------------------------------------------------------------------------------
(* The steps while no block of a deletion adds or deletes items.           *)

LEMMA Settled ==
  ASSUME TreeInv, pending = <<>>, ~reentered
  PROVE  /\ TreeTypeOK /\ Branches /\ Lists(view, Items, UnderOf) /\ Lists(handles, Items, UnderOf)
         /\ Len(handles) = Count /\ Places = 1..Count /\ Count \in Nat
         /\ \A k \in Places : handles[k] \in Items
         /\ ~sorted => handles = view
<1>1. KeptEntries = handles
  BY DEF KeptEntries
<1>2. /\ TreeTypeOK /\ Branches /\ Lists(view, Items, UnderOf)
      /\ Lists(handles, Items, UnderOf) /\ (~sorted => handles = view)
  BY <1>1 DEF Matched, TreeInv, TreeBase
<1>3. Len(handles) = Count
  BY <1>2, ListsAll DEF Count
<1>4. handles \in [1..Len(handles) -> Items] /\ DOMAIN handles = 1..Len(handles) /\ Len(handles) \in Nat
  BY <1>2, LenProperties DEF Lists
<1> QED  BY <1>2, <1>3, <1>4 DEF Places

\* A new item under h, entered where the sequence of the handles has its end.
LEMMA GrowMatched ==
  ASSUME TreeInv, pending = <<>>, NEW h \in {Root} \cup Items, NEW id, Insert(h, id),
         Cardinality(Over(h)) < MaxLevel, UNCHANGED <<pending, sorted>>,
         Lists(handles', Items \cup {NewItem}, GrownSets(h)), ~sorted => handles' = view'
  PROVE  Matched'
<1>1. TreeTypeOK /\ Branches /\ Lists(view, Items, UnderOf)
  BY DEF TreeInv, TreeBase
<1>2. Items' = Items \cup {NewItem} /\ UnderOf' = GrownSets(h)
  BY <1>1, InsertTree
<1>3. KeptEntries' = handles' /\ pending' = <<>>
  BY DEF KeptEntries
<1> QED  BY <1>2, <1>3 DEF Matched

LEMMA DefineMatched ==
  ASSUME TreeInv, Defining, Len(nodes) <= MaxLevel, NEW id \in Ids \cup {0}, Define(Last(nodes), id)
  PROVE  Matched'
<1>1. TreeBase
  BY DEF TreeInv
<1>2. PICK h \in {Root} \cup Items : h = Last(nodes)
  BY <1>1, OpenNode
<1>3. pending = <<>> /\ ~sorted /\ ~reentered /\ Cardinality(Over(h)) < MaxLevel /\ Behind(h) = Count + 1
  BY <1>1, <1>2, OpenNode
<1>4. Insert(h, id) /\ handles' = Append(handles, NewItem) /\ UNCHANGED <<pending, sorted>>
  BY <1>2 DEF Define
<1>5. /\ TreeTypeOK /\ Branches /\ Lists(view, Items, UnderOf) /\ handles = view
  BY <1>3, Settled
<1>6. view' = Append(view, NewItem)
  BY <1>3, <1>4, <1>5, PutAtEnd DEF Insert, Count, TreeTypeOK
<1>7. Lists(view', Items \cup {NewItem}, GrownSets(h))
  BY <1>3, <1>4, <1>5, InsertTree
<1> QED  BY <1>3, <1>4, <1>5, <1>6, <1>7, GrowMatched

\* Steps that leave the items, the handles and the pending deletions alone.
LEMMA QuietMatched ==
  ASSUME Matched, UNCHANGED <<handles, pending>>, Items' = Items, Count' = Count, UnderOf' = UnderOf,
         reentered' = reentered, sorted' \/ UNCHANGED <<view, sorted>>, view' = <<>> <=> view = <<>>
  PROVE  Matched'
<1>1. KeptEntries' = KeptEntries /\ Places' = Places
  BY DEF KeptEntries, Places
<1> QED  BY <1>1 DEF Matched

LEMMA AddMatched ==
  ASSUME TreeInv, MaxLevel <= 3, NEW p \in 0..Len(handles), NEW id \in Ids \cup {0}, AddItem(p, id)
  PROVE  Matched'
<1>1. UNCHANGED <<pending, sorted>> /\ reentered' = (reentered \/ pending # <<>>)
  BY DEF AddItem, Call
<1>2. CASE reentered'
  BY <1>2 DEF Matched
<1>3. ASSUME ~reentered'  PROVE Matched'
  <2>1. pending = <<>> /\ ~reentered
    BY <1>1, <1>3
  <2>2. /\ TreeTypeOK /\ Branches /\ Lists(view, Items, UnderOf) /\ Lists(handles, Items, UnderOf)
        /\ Len(handles) = Count /\ Places = 1..Count /\ Count \in Nat
        /\ \A k \in Places : handles[k] \in Items
        /\ ~sorted => handles = view
    BY <2>1, Settled
  <2>3. CASE Insert(Root, id) /\ handles' = Append(handles, NewItem)
    <3>1. Cardinality(Over(Root)) < MaxLevel
      BY FS_EmptySet, TreeBounds DEF Over
    <3>2. Lists(handles', Items \cup {NewItem}, GrownSets(Root))
      BY <2>2, <2>3, GrownLists
    <3>3. view' = Append(view, NewItem)
      BY <2>2, <2>3, PutAtEnd DEF Insert, Behind, Count, TreeTypeOK
    <3> QED  BY <1>1, <2>1, <2>2, <2>3, <3>1, <3>2, <3>3, GrowMatched
  <2>4. CASE /\ Callable(p) /\ Level(handles[Named(p)]) < MaxLevel /\ Insert(handles[Named(p)], id)
             /\ handles' = PutAt(Resize(handles, Count),
                                 Named(p) + Steps(view', above', handles[Named(p)]), NewItem)
    <3>1. PICK q \in Places : q = Named(p) /\ handles[q] \in Items
      BY <2>2, <2>4, NamedPlace DEF Callable, There
    <3>2. PICK h \in Items : h = handles[q]
      BY <3>1
    <3>3. Insert(h, id) /\ Over(h) = above[h] /\ Cardinality(Over(h)) < MaxLevel /\ h # Root
      <4>1. h # Root
        BY <2>2, ItemsTyped
      <4> QED  BY <2>4, <3>1, <3>2, <4>1 DEF Over, Level
    <3>4. Steps(view', above', h) = Cardinality(Under(h))
      BY <2>2, <3>3, StepsCount
    <3>5. Resize(handles, Count) = handles
      <4>1. handles \in Seq({0} \cup Handle) /\ 0 \in {0} \cup Handle
        BY <2>2 DEF TreeTypeOK
      <4> QED  BY <2>2, <4>1, ResizeTyped
    <3>6. handles' = PutAt(handles, q + Cardinality(Under(h)), NewItem)
      BY <2>4, <3>1, <3>2, <3>4, <3>5
    <3>7. Lists(handles', Items \cup {NewItem}, GrownSets(h))
      BY <2>2, <3>1, <3>2, <3>6, GrownLists
    <3>8. ASSUME ~sorted  PROVE handles' = view'
      <4>1. Position(h) \in 1..Count /\ view[Position(h)] = h
        BY <2>2, PlaceInView
      <4>2. q = Position(h)
        <5>1. handles = view /\ q \in DOMAIN view /\ Position(h) \in DOMAIN view /\ view[q] = h
          BY <2>2, <3>2, <3>8, <4>1 DEF Places
        <5>2. \A i, j \in DOMAIN view : view[i] = view[j] => i = j
          BY <2>2 DEF Lists
        <5> QED  BY ONLY <4>1, <5>1, <5>2
      <4> QED  BY <2>2, <3>3, <3>6, <3>8, <4>2 DEF Insert, Behind
    <3> QED  BY <1>1, <2>1, <3>3, <3>7, <3>8, GrowMatched
  <2> QED  BY <2>3, <2>4 DEF AddItem
<1> QED  BY <1>2, <1>3

LEMMA DeleteItemMatched ==
  ASSUME TreeInv, NEW p \in Places, DeleteItem(p)
  PROVE  Matched'
<1>1. /\ Call /\ Callable(p) /\ Len(pending) < MaxNested /\ Prune(handles[Named(p)])
      /\ pending' = Append(pending, [place |-> Named(p), before |-> Count])
      /\ UNCHANGED <<itemIds, nodes, handles, ids, cargo, idOf, sorted>>
  BY DEF DeleteItem
<1>2. CASE reentered'
  BY <1>2 DEF Matched
<1>3. ASSUME ~reentered'  PROVE Matched'
  <2>1. pending = <<>> /\ ~reentered
    BY <1>1, <1>3 DEF Call
  <2>2. /\ TreeTypeOK /\ Branches /\ Lists(view, Items, UnderOf) /\ Lists(handles, Items, UnderOf)
        /\ Len(handles) = Count /\ Places = 1..Count /\ Count \in Nat
        /\ \A k \in Places : handles[k] \in Items
        /\ ~sorted => handles = view
    BY <2>1, Settled
  <2>3. PICK q \in Places : q = Named(p)
    BY <2>2, NamedPlace
  <2>4. PICK h \in Items : h = handles[q]
    BY <2>2
  <2>5. /\ pending' # <<>> /\ Len(pending') = 1 /\ pending'[1].place = q /\ pending'[1].before = Len(handles)
    <3>1. q \in Nat
      BY <2>2
    <3>2. Len(pending) = 0
      BY <2>1
    <3>3. /\ Len(pending') = Len(pending) + 1 /\ pending' # <<>>
          /\ pending'[Len(pending) + 1] = [place |-> q, before |-> Count]
      BY <1>1, <2>2, <2>3, <3>1, PushTyped
    <3> QED  BY <2>2, <3>2, <3>3
  <2> DEFINE m == Cardinality(Under(h))
             d == Count'
             t == [k \in 1..(Len(handles) - m) |-> IF k < q THEN handles[k] ELSE handles[k + m]]
  <2>6. /\ Items' = Items \ Under(h) /\ UnderOf' = Pruned(h) /\ Lists(view', Items', UnderOf')
        /\ Count' = Count - m /\ m \in Nat \ {0}
        /\ view' = [k \in 1..Count' |-> IF k < Position(h) THEN view[k] ELSE view[k + m]]
    BY <1>1, <2>2, <2>3, <2>4, PruneTree
  <2>7. q \in 1..Len(handles) /\ UnderOf[handles[q]] = Under(h) /\ handles[q] = h
    BY <2>2, <2>4 DEF UnderOf
  <2>8. q + m - 1 <= Len(handles)
    BY <2>2, <2>7, TreeForest, Block
  <2>9. Lists(t, Items', UnderOf')
    <3>1. Lists(t, Items \ Under(h), Pruned(h))
      BY ONLY <2>2, <2>7, PrunedLists, ZenonT(60)
    <3> QED  BY <2>6, <3>1
  <2>10. d \in Nat /\ m \in Nat /\ Len(handles) = d + m /\ Len(handles) - m = d /\ d <= Len(handles)
    <3>1. Count \in Nat /\ m \in Nat \ {0} /\ d = Count - m /\ Len(handles) = Count
          /\ q + m - 1 <= Len(handles) /\ q \in 1..Len(handles)
      BY <2>2, <2>6, <2>7, <2>8
    <3> HIDE DEF d, m
    <3> QED  BY ONLY <3>1
  <2>11. Resize(Cut(handles, q, m), d) = t
    <3>1. handles \in Seq({0} \cup Handle)
      BY <2>2 DEF TreeTypeOK
    <3> HIDE DEF d, m
    <3>2. Resize(Cut(handles, q, m), d) = [k \in 1..d |-> IF k < q THEN handles[k] ELSE handles[k + m]]
      BY <2>7, <2>10, <3>1, CutShape
    <3> QED  BY <2>10, <3>2
  <2>12. ~sorted => t = view'
    <3> SUFFICES ASSUME ~sorted  PROVE t = view'
      OBVIOUS
    <3>1. Position(h) \in 1..Count /\ view[Position(h)] = h
      BY <2>2, PlaceInView
    <3>2. q = Position(h)
      <4>1. handles = view /\ q \in DOMAIN view /\ Position(h) \in DOMAIN view /\ view[q] = h
        BY <2>2, <2>7, <3>1 DEF Places
      <4>2. \A i, j \in DOMAIN view : view[i] = view[j] => i = j
        BY <2>2 DEF Lists
      <4> QED  BY ONLY <3>1, <4>1, <4>2
    <3>3. Count' = Len(handles) - m /\ handles = view
      BY <2>2, <2>6
    <3> HIDE DEF m
    <3> QED  BY <2>6, <3>2, <3>3
  <2>13. KeptEntries' = t
    <3>1. CASE view' = <<>>
      <4>1. d = 0
        BY <3>1 DEF Count
      <4>2. t = <<>>
        <5> HIDE DEF d, m
        <5> QED  BY <2>10, <4>1
      <4> QED  BY <2>5, <3>1, <4>2 DEF KeptEntries
    <3>2. CASE view' # <<>>
      <4>1. KeptEntries' = Resize(Cut(handles, q, pending'[1].before - d), d)
        BY <1>1, <2>5, <3>2 DEF KeptEntries
      <4>2. pending'[1].before - d = m
        <5> HIDE DEF d, m
        <5> QED  BY <2>5, <2>10
      <4> QED  BY <2>11, <4>1, <4>2
    <3> QED  BY <3>1, <3>2
  <2> HIDE DEF t, m
  <2>14. Places' = Places /\ Len(handles') = Len(handles) /\ sorted' = sorted
    BY <1>1 DEF Places
  <2> QED  BY <2>3, <2>5, <2>9, <2>10, <2>12, <2>13, <2>14 DEF Matched
<1> QED  BY <1>2, <1>3

LEMMA DeleteEntriesMatched == ASSUME TreeInv, DeleteEntries PROVE Matched'
<1>1. /\ pending # <<>> /\ pending' = Front(pending)
      /\ UNCHANGED <<itemIds, view, above, nodes, idOf, sorted, reentered>>
  BY DEF DeleteEntries
<1>2. TreeTypeOK /\ Branches /\ Matched
  BY DEF TreeInv, TreeBase
<1>3. Items' = Items /\ Count' = Count /\ UnderOf' = UnderOf
  BY <1>1, Unmoved
<1>4. CASE reentered
  BY <1>1, <1>4 DEF Matched
<1>5. CASE ~reentered /\ view = <<>>
  <2>1. Count = 0
    BY <1>5 DEF Count
  <2>2. handles' = <<>>
    <3>1. ASSUME NEW s  PROVE Resize(s, 0) = <<>>
      BY DEF Resize
    <3> QED  BY <2>1, <3>1 DEF DeleteEntries
  <2>3. KeptEntries' = <<>> /\ KeptEntries = <<>>
    BY <1>1, <1>5, <2>2 DEF KeptEntries
  <2> QED  BY <1>1, <1>2, <1>3, <1>5, <2>3 DEF Matched
<1>6. CASE ~reentered /\ view # <<>>
  <2>1. /\ Len(pending) = 1 /\ pending[1].place \in Places /\ pending' = <<>> /\ Last(pending) = pending[1]
    BY <1>1, <1>2, <1>6, PopTyped DEF Matched
  <2>2. Last(pending).place # 0
    <3>1. Places = 1..Len(handles)
      BY <1>2, LenProperties DEF TreeTypeOK, Places
    <3> QED  BY <2>1, <3>1
  <2>3. handles' = KeptEntries
    BY <1>1, <1>6, <2>1, <2>2 DEF DeleteEntries, KeptEntries, Deleted
  <2>4. KeptEntries' = handles'
    BY <2>1 DEF KeptEntries
  <2> QED  BY <1>1, <1>2, <1>3, <1>6, <2>1, <2>3, <2>4 DEF Matched
<1> QED  BY <1>4, <1>5, <1>6

LEMMA DeleteAllMatched == ASSUME TreeInv, DeleteAllItems PROVE Matched'
<1>1. view' = <<>>
  BY DEF DeleteAllItems
<1>2. Items' = {} /\ Lists(<<>>, Items', UnderOf')
  BY <1>1 DEF Items, ToSet, Lists
<1>3. KeptEntries' = <<>>
  <2>1. CASE pending' = Append(pending, [place |-> 0, before |-> Count]) /\ Len(pending) < MaxNested
    <3>1. pending' # <<>>
      BY <2>1, PushTyped DEF TreeInv, TreeBase
    <3> QED  BY <1>1, <3>1 DEF KeptEntries
  <2>2. CASE handles' = <<>>
    BY <1>1, <2>2 DEF KeptEntries
  <2> QED  BY <2>1, <2>2 DEF DeleteAllItems
<1> QED  BY <1>1, <1>2, <1>3 DEF Matched

LEMMA TreeStep == ASSUME MaxLevel <= 3, TreeInv, [TreeNext]_treeVars PROVE TreeInv'
<1>1. TreeBase /\ Matched /\ TreeBase'
  BY BaseStep DEF TreeInv
<1> SUFFICES Matched'
  BY <1>1 DEF TreeInv
<1>2. \A id \in GivenIds : id \in Ids \cup {0}
  BY DEF GivenIds
<1>3. ASSUME UNCHANGED <<view, above, handles, pending, sorted, reentered>>  PROVE Matched'
  BY <1>1, <1>3, Unmoved, QuietMatched
<1>4. CASE \E id \in GivenIds : DefineTreeNode(id) \/ DefineTreeItem(id)
  <2>1. PICK id \in Ids \cup {0} : DefineTreeNode(id) \/ DefineTreeItem(id)
    BY <1>2, <1>4
  <2> QED  BY <2>1, DefineMatched DEF DefineTreeNode, DefineTreeItem
<1>5. CASE EndTreeNode \/ EndTree \/ UNCHANGED treeVars
  BY <1>3, <1>5 DEF EndTreeNode, EndTree, treeVars
<1>6. CASE \E p \in 0..Len(handles), id \in GivenIds : AddItem(p, id)
  BY <1>2, <1>6, AddMatched
<1>7. CASE \E p \in Places : DeleteItem(p) \/ SetCargo(p)
  <2>1. CASE \E p \in Places : DeleteItem(p)
    BY <2>1, DeleteItemMatched
  <2>2. CASE \E p \in Places : SetCargo(p)
    BY <1>3, <2>2 DEF SetCargo
  <2> QED  BY <1>7, <2>1, <2>2
<1>8. CASE DeleteEntries \/ DeleteAllItems
  BY <1>8, DeleteEntriesMatched, DeleteAllMatched
<1>9. CASE \E recurse \in BOOLEAN :
             \/ \E p \in Places : There(p) /\ TreeItemSort(handles[Named(p)], recurse)
             \/ view # <<>> /\ TreeItemSort(view[1], recurse)
  <2>1. PICK h, recurse : TreeItemSort(h, recurse)
    BY <1>9
  <2>2. /\ sorted' /\ UNCHANGED <<handles, pending, reentered>>
        /\ Items' = Items /\ Count' = Count /\ UnderOf' = UnderOf
    BY <1>1, <2>1, SortBase DEF TreeItemSort
  <2>3. view' = <<>> <=> view = <<>>
    <3>1. view \in Seq(Handle) /\ view' \in Seq(Handle)
      BY <1>1 DEF TreeBase, TreeTypeOK
    <3> QED  BY <2>2, <3>1, EmptySeq DEF Count
  <2> QED  BY <1>1, <2>2, <2>3, QuietMatched
<1> QED  BY <1>4, <1>5, <1>6, <1>7, <1>8, <1>9 DEF TreeNext, Definition, Methods

-------------------------------------------------------------------------------
(* The theorems.                                                           *)

\* Whatever a program does in the blocks of its deletions, and on any number of
\* levels: the tree view keeps each item before what is below it, and what
\* stands side by side in the three arrays belongs to one item (TreeBase).
THEOREM TreeBaseInvariant == TreeSpec => []TreeBase
<1>1. InitTree => TreeBase
  BY InitStep DEF TreeInv
<1>2. TreeBase /\ [TreeNext]_treeVars => TreeBase'
  BY BaseStep
<1> QED  BY <1>1, <1>2, PTL DEF TreeSpec

\* The variables keep their types: the three arrays are of one length whatever
\* comes between the two halves of a deletion, a definition opens no more nodes
\* than levels, and a pending deletion counted no more items than there can be.
THEOREM TreeTypes == TreeSpec => []TreeTypeOK
<1>1. TreeBase => TreeTypeOK
  BY DEF TreeBase
<1> QED  BY <1>1, TreeBaseInvariant, PTL

\* The Id and the cargo of an item stay beside its handle through insertions,
\* deletions and sorts, and through all that the blocks of deletions do: the
\* three arrays are cut at the same place by the same number (_DeleteItem).
THEOREM TreeEntries == TreeSpec => []EntriesBelong
<1>1. TreeBase => EntriesBelong
  BY DEF TreeBase
<1> QED  BY <1>1, TreeBaseInvariant, PTL

\* With at most three levels, where the walk of _AddItem counts every item, the
\* arrays follow the tree view until a block of a deletion adds or deletes items
\* (TreeInv); that block may sort the tree, empty it and set cargos.
THEOREM TreeInvariant == MaxLevel <= 3 => (TreeSpec => []TreeInv)
<1> SUFFICES ASSUME MaxLevel <= 3  PROVE TreeSpec => []TreeInv
  OBVIOUS
<1>1. InitTree => TreeInv
  BY InitStep
<1>2. TreeInv /\ [TreeNext]_treeVars => TreeInv'
  BY TreeStep
<1> QED  BY <1>1, <1>2, PTL DEF TreeSpec

\* Between two calls the handles are those of the tree view, and in its order
\* until TREESORT: _AddItem and _DeleteItem hit the same places in both, as
\* long as neither runs in the block of a deletion (MapFollowsTree says so).
THEOREM TreeMatched == MaxLevel <= 3 => (TreeSpec => []MapFollowsTree)
<1> SUFFICES ASSUME MaxLevel <= 3  PROVE TreeSpec => []MapFollowsTree
  OBVIOUS
<1>1. TreeInv => MapFollowsTree
  <2> SUFFICES ASSUME TreeInv, pending = <<>>, ~reentered
               PROVE  Len(handles) = Count /\ ToSet(handles) = Items /\ (~sorted => handles = view)
    BY DEF MapFollowsTree
  <2>1. Lists(handles, Items, UnderOf) /\ Len(handles) = Count /\ (~sorted => handles = view)
    BY Settled
  <2> QED  BY <2>1, ListsAll
<1> QED  BY <1>1, TreeInvariant, PTL

\* The entry of an item is followed by those of all that is below it, so that
\* the entries _DeleteItem cuts are those of the items that went, in a tree
\* TREESORT has reordered too; with the same exception.
THEOREM TreeTogether == MaxLevel <= 3 => (TreeSpec => []SubtreesTogether)
<1> SUFFICES ASSUME MaxLevel <= 3  PROVE TreeSpec => []SubtreesTogether
  OBVIOUS
<1>1. TreeInv => SubtreesTogether
  <2> SUFFICES ASSUME TreeInv, pending = <<>>, ~reentered  PROVE Together(handles)
    BY DEF SubtreesTogether
  <2>1. TreeTypeOK /\ Branches /\ Lists(handles, Items, UnderOf)
    BY Settled
  <2> QED  BY <2>1, ListsTogether
<1> QED  BY <1>1, TreeInvariant, PTL
===============================================================================
