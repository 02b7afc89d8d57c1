----------------------------- MODULE Mru_proofs -----------------------------
(***************************************************************************)
(* The menu, the control names and the duplicates of Mru for any names,    *)
(* any number of items and any Upper().  The inductive invariant adds to   *)
(* the properties where the control names come from: an entry is named     *)
(* after its slot, or has the base name and slot 1.  The second part shows *)
(* that the list implements RecentFiles.                                   *)
(***************************************************************************)
EXTENDS Mru, SequenceTheorems, TLAPS

Named(b, e) == e.id = Append(b, e.slot) \/ (e.id = b /\ e.slot = 1)

Entries(b, l) ==
  /\ l \in Seq(Entry)
  /\ \A i \in 1 .. Len(l) : Named(b, l[i])
  /\ \A i, j \in 1 .. Len(l) : l[i].slot = l[j].slot => i = j

Rows(l) == [i \in DOMAIN l |-> Shown(l[i].id, i, l[i].name)]

\* Menu m has the items of l, whatever their captions.
Matches(m, l) ==
  /\ m \in Seq(Item) /\ Len(m) = Len(l)
  /\ \A k \in 1 .. Len(l) : m[k].id = l[k].id

\* The entries written so far are those of the list.
Saving ==
  at # 0 => /\ up /\ todo = <<>>
            /\ \A i \in 1 .. at - 1 : ini[i] = Saved(i)

IInv ==
  /\ TypeOK
  /\ Entries(base, list)
  /\ filled <=> list # <<>>
  /\ MenuShowsList
  /\ Saving

\* No two entries of l are one file.
TwinFree(l) ==
  \A i, j \in 1 .. Len(l) :
    l[i].name # Blank /\ Fold[l[i].name] = Fold[l[j].name] => i = j

\* What a call that adds a name leaves.
Result ==
  /\ Entries(base, list') /\ list' # <<>> /\ Len(list') <= MaxItems
  /\ menu' = Rows(list') /\ filled' = TRUE

-----------------------------------------------------------------------------
(* Sequences.                                                              *)

LEMMA Segment ==
  ASSUME NEW S, NEW s \in Seq(S), NEW a \in Nat \ {0}, NEW z \in Nat, z <= Len(s), a <= z + 1
  PROVE  /\ SubSeq(s, a, z) \in Seq(S)
         /\ Len(SubSeq(s, a, z)) = z - a + 1
         /\ \A i, k \in Int : i >= 1 /\ k <= z /\ k = a + i - 1 => SubSeq(s, a, z)[i] = s[k]
<1>1. Len(s) \in Nat /\ a \in Int /\ z \in Int
  BY LenProperties
<1>2. \A i \in a .. z : s[i] \in S
  BY <1>1, ElementOfSeq
<1>3. /\ SubSeq(s, a, z) \in Seq(S)
      /\ Len(SubSeq(s, a, z)) = IF a <= z THEN z - a + 1 ELSE 0
      /\ \A i \in 1 .. z - a + 1 : SubSeq(s, a, z)[i] = s[a + i - 1]
  BY <1>1, <1>2, SubSeqProperties
<1>4. Len(SubSeq(s, a, z)) = z - a + 1
  <2>1. CASE a <= z
    BY <1>3, <2>1
  <2>2. CASE ~(a <= z)
    <3>1. z - a + 1 = 0
      BY <2>2
    <3> QED  BY <1>3, <2>2, <3>1
  <2> QED  BY <2>1, <2>2
<1>5. ASSUME NEW i \in Int, NEW k \in Int, i >= 1, k <= z, k = a + i - 1
      PROVE  SubSeq(s, a, z)[i] = s[k]
  <2>1. i \in 1 .. z - a + 1
    BY <1>5
  <2> QED  BY <1>3, <1>5, <2>1
<1> QED  BY <1>3, <1>4, <1>5

LEMMA RemoveAtFacts ==
  ASSUME NEW S, NEW s \in Seq(S), NEW d \in 1 .. Len(s)
  PROVE  /\ RemoveAt(s, d) \in Seq(S)
         /\ Len(RemoveAt(s, d)) = Len(s) - 1
         /\ \A i \in 1 .. Len(s) - 1 : RemoveAt(s, d)[i] = IF i < d THEN s[i] ELSE s[i + 1]
<1> DEFINE before == SubSeq(s, 1, d - 1)
           after  == SubSeq(s, d + 1, Len(s))
<1>0. Len(s) \in Nat
  BY LenProperties
<1>1. /\ before \in Seq(S) /\ Len(before) = d - 1
      /\ \A i \in 1 .. d - 1 : before[i] = s[i]
  <2>1. d - 1 \in Nat /\ d - 1 <= Len(s) /\ 1 <= (d - 1) + 1 
    BY <1>0
  <2>2. /\ before \in Seq(S) /\ Len(before) = d - 1 - 1 + 1
        /\ \A i, k \in Int : i >= 1 /\ k <= d - 1 /\ k = 1 + i - 1 => before[i] = s[k]
    BY <2>1, Segment
  <2> HIDE DEF before
  <2> QED  BY <2>2
<1>2. /\ after \in Seq(S) /\ Len(after) = Len(s) - d
      /\ \A i \in 1 .. Len(s) - d : after[i] = s[d + i]
  <2>1. d + 1 \in Nat \ {0} /\ d + 1 <= Len(s) + 1
    BY <1>0
  <2>2. /\ after \in Seq(S) /\ Len(after) = Len(s) - (d + 1) + 1
        /\ \A i, k \in Int : i >= 1 /\ k <= Len(s) /\ k = d + 1 + i - 1 => after[i] = s[k]
    BY <1>0, <2>1, Segment
  <2> HIDE DEF after
  <2>3. ASSUME NEW i \in 1 .. Len(s) - d PROVE after[i] = s[d + i]
    <3>1. i \in Int /\ i >= 1 /\ d + i \in Int /\ d + i <= Len(s) /\ d + i = d + 1 + i - 1
      BY <1>0
    <3> QED  BY <2>2, <3>1
  <2>4. Len(after) = Len(s) - d
    BY <1>0, <2>2
  <2> QED  BY <2>2, <2>3, <2>4
<1>3. RemoveAt(s, d) = before \o after
  BY DEF RemoveAt
<1> HIDE DEF before, after
<1>4. /\ before \o after \in Seq(S) /\ Len(before \o after) = Len(s) - 1
      /\ \A i \in 1 .. Len(s) - 1 :
           (before \o after)[i] = IF i <= d - 1 THEN before[i] ELSE after[i - (d - 1)]
  <2>1. Len(before) + Len(after) = Len(s) - 1
    BY <1>0, <1>1, <1>2
  <2>2. /\ before \o after \in Seq(S)
        /\ Len(before \o after) = Len(before) + Len(after)
        /\ \A i \in 1 .. Len(before) + Len(after) : (before \o after)[i] =
             IF i <= Len(before) THEN before[i] ELSE after[i - Len(before)]
    BY <1>1, <1>2, ConcatProperties
  <2>3. Len(before) = d - 1
    BY <1>1
  <2> QED  BY <2>1, <2>2, <2>3
<1>5. ASSUME NEW i \in 1 .. Len(s) - 1
      PROVE  (before \o after)[i] = IF i < d THEN s[i] ELSE s[i + 1]
  <2>1. CASE i < d
    <3>1. i <= d - 1 /\ i \in 1 .. d - 1
      BY <1>0, <2>1
    <3> QED  BY <1>1, <1>4, <2>1, <3>1
  <2>2. CASE ~(i < d)
    <3> DEFINE k == i - (d - 1)
    <3>1. k \in 1 .. Len(s) - d /\ d + k = i + 1 /\ ~(i <= d - 1)
      BY <1>0, <2>2
    <3>2. (before \o after)[i] = after[k]
      BY <1>4, <3>1
    <3> HIDE DEF k
    <3>3. after[k] = s[d + k]
      BY <1>2, <3>1
    <3> QED  BY <2>2, <3>1, <3>2, <3>3
  <2> QED  BY <2>1, <2>2
<1> QED  BY <1>3, <1>4, <1>5

LEMMA OnFront ==
  ASSUME NEW S, NEW s \in Seq(S), NEW e \in S
  PROVE  /\ <<e>> \o s \in Seq(S)
         /\ Len(<<e>> \o s) = Len(s) + 1
         /\ (<<e>> \o s)[1] = e
         /\ \A i \in 2 .. Len(s) + 1 : (<<e>> \o s)[i] = s[i - 1]
<1>1. <<e>> \in Seq(S) /\ Len(<<e>>) = 1 /\ <<e>>[1] = e
  OBVIOUS
<1>2. Len(s) \in Nat
  BY LenProperties
<1> QED  BY <1>1, <1>2, ConcatProperties

LEMMA FrontFacts ==
  ASSUME NEW S, NEW s \in Seq(S), s # <<>>
  PROVE  /\ Front(s) \in Seq(S) /\ Len(Front(s)) = Len(s) - 1
         /\ \A i \in 1 .. Len(s) - 1 : Front(s)[i] = s[i]
         /\ Len(s) \in Nat \ {0} /\ Last(s) = s[Len(s)]
<1>1. Len(s) \in Nat \ {0}
  BY EmptySeq
<1>2. Len(s) - 1 \in Nat /\ Len(s) - 1 <= Len(s) /\ 1 <= Len(s) - 1 + 1
  BY <1>1
<1>3. /\ Front(s) \in Seq(S) /\ Len(Front(s)) = Len(s) - 1 - 1 + 1
      /\ \A i, k \in Int : i >= 1 /\ k <= Len(s) - 1 /\ k = 1 + i - 1 => Front(s)[i] = s[k]
  <2> DEFINE z == Len(s) - 1
  <2>1. z \in Nat /\ z <= Len(s) /\ 1 <= z + 1 /\ Front(s) = SubSeq(s, 1, z)
    BY <1>2 DEF Front
  <2> HIDE DEF z
  <2>2. /\ SubSeq(s, 1, z) \in Seq(S) /\ Len(SubSeq(s, 1, z)) = z - 1 + 1
        /\ \A i, k \in Int : i >= 1 /\ k <= z /\ k = 1 + i - 1 => SubSeq(s, 1, z)[i] = s[k]
    BY <2>1, Segment
  <2> QED  BY <2>1, <2>2 DEF z
<1>4. Len(Front(s)) = Len(s) - 1
  BY <1>1, <1>3
<1>5. \A i \in 1 .. Len(s) - 1 : Front(s)[i] = s[i]
  BY <1>1, <1>3
<1> QED  BY <1>1, <1>3, <1>4, <1>5 DEF Last

\* Control names differ where slots do.
LEMMA DistinctIds ==
  ASSUME NEW b \in Id, NEW l, Entries(b, l), NEW i \in 1 .. Len(l), NEW j \in 1 .. Len(l),
         l[i].id = l[j].id
  PROVE  i = j
<1>1. l[i] \in Entry /\ l[j] \in Entry
  BY ElementOfSeq DEF Entries
<1>2. l[i].slot \in Nat /\ l[j].slot \in Nat
  BY <1>1 DEF Entry
<1>3. \A x, y \in Nat : /\ Append(b, x) = Append(b, y) => x = y
                        /\ Append(b, x) # b
  <2> SUFFICES ASSUME NEW x \in Nat, NEW y \in Nat
               PROVE  /\ Append(b, x) = Append(b, y) => x = y
                      /\ Append(b, x) # b
    OBVIOUS
  <2>1. Len(b) \in Nat
    BY LenProperties DEF Id
  <2>2. Append(b, x)[Len(b) + 1] = x /\ Append(b, y)[Len(b) + 1] = y
    BY AppendProperties DEF Id
  <2>3. Len(Append(b, x)) = Len(b) + 1
    BY AppendProperties DEF Id
  <2> QED  BY <2>1, <2>2, <2>3
<1>4. l[i].slot = l[j].slot
  BY <1>2, <1>3 DEF Entries, Named
<1> QED  BY <1>4 DEF Entries

\* The item of entry d is found at place d.
LEMMA Found ==
  ASSUME NEW b \in Id, NEW l, Entries(b, l), NEW m, Matches(m, l), NEW d \in 1 .. Len(l)
  PROVE  (CHOOSE k \in DOMAIN m : m[k].id = l[d].id) = d
<1>1. DOMAIN m = 1 .. Len(l)
  BY LenProperties DEF Matches
<1>2. \A k \in DOMAIN m : m[k].id = l[d].id <=> k = d
  BY <1>1, DistinctIds DEF Matches
<1> QED  BY <1>1, <1>2

-----------------------------------------------------------------------------
(* The menu.                                                               *)

LEMMA ShownType ==
  \A id \in Id, no \in Nat, n \in Text : Shown(id, no, n) \in Item
  BY DEF Shown, Item

LEMMA EntryFields ==
  ASSUME NEW l \in Seq(Entry), NEW i \in 1 .. Len(l)
  PROVE  l[i] \in Entry /\ l[i].id \in Id /\ l[i].name \in Text /\ l[i].slot \in Nat
<1>1. l[i] \in Entry
  BY ElementOfSeq
<1> QED  BY <1>1 DEF Entry

\* The rows of l, given as a function.
LEMMA RowsFacts ==
  ASSUME NEW l \in Seq(Entry)
  PROVE  /\ Rows(l) \in Seq(Item) /\ Len(Rows(l)) = Len(l)
         /\ \A k \in 1 .. Len(l) : Rows(l)[k] = Shown(l[k].id, k, l[k].name)
         /\ Matches(Rows(l), l)
<1>1. Len(l) \in Nat /\ DOMAIN l = 1 .. Len(l)
  BY LenProperties
<1>2. ASSUME NEW k \in 1 .. Len(l) PROVE Shown(l[k].id, k, l[k].name) \in Item
  <2>1. k \in Nat
    BY <1>1
  <2> QED  BY <2>1, EntryFields, ShownType
<1>3. Rows(l) \in [1 .. Len(l) -> Item]
  BY <1>1, <1>2 DEF Rows
<1>4. Rows(l) \in Seq(Item) /\ Len(Rows(l)) = Len(l)
  BY <1>1, <1>3
<1>5. \A k \in 1 .. Len(l) : Rows(l)[k] = Shown(l[k].id, k, l[k].name)
  BY <1>1 DEF Rows
<1>6. ASSUME NEW k \in 1 .. Len(l) PROVE Rows(l)[k].id = l[k].id
  <2>1. Shown(l[k].id, k, l[k].name).id = l[k].id
    BY DEF Shown
  <2> QED  BY <1>5, <2>1
<1> QED  BY <1>4, <1>5, <1>6 DEF Matches

\* Taking entry d out of the list and its item out of the menu.
LEMMA TakenOut ==
  ASSUME NEW b \in Id, NEW l, Entries(b, l), NEW m, Matches(m, l), NEW d \in 1 .. Len(l)
  PROVE  /\ Entries(b, RemoveAt(l, d))
         /\ Matches(RemoveMenuItem(m, l[d].id), RemoveAt(l, d))
         /\ Len(RemoveAt(l, d)) = Len(l) - 1
<1> DEFINE r == RemoveAt(l, d)
<1>1. l \in Seq(Entry) /\ m \in Seq(Item) /\ Len(m) = Len(l) /\ Len(l) \in Nat
  BY LenProperties DEF Entries, Matches
<1>2. /\ r \in Seq(Entry) /\ Len(r) = Len(l) - 1
      /\ \A i \in 1 .. Len(l) - 1 : r[i] = IF i < d THEN l[i] ELSE l[i + 1]
  BY <1>1, RemoveAtFacts
<1>3. RemoveMenuItem(m, l[d].id) = RemoveAt(m, d)
  <2>1. (CHOOSE k \in DOMAIN m : m[k].id = l[d].id) = d
    BY Found
  <2> QED  BY <2>1 DEF RemoveMenuItem
<1>4. /\ RemoveAt(m, d) \in Seq(Item) /\ Len(RemoveAt(m, d)) = Len(l) - 1
      /\ \A i \in 1 .. Len(l) - 1 : RemoveAt(m, d)[i] = IF i < d THEN m[i] ELSE m[i + 1]
  <2>1. d \in 1 .. Len(m)
    BY <1>1
  <2> QED  BY <1>1, <2>1, RemoveAtFacts
<1> HIDE DEF r
<1> DEFINE from(i) == IF i < d THEN i ELSE i + 1
<1>5. ASSUME NEW i \in 1 .. Len(r)
      PROVE  /\ from(i) \in 1 .. Len(l)
             /\ r[i] = l[from(i)] /\ RemoveAt(m, d)[i] = m[from(i)]
  BY <1>1, <1>2, <1>4
<1>6. \A i, j \in 1 .. Len(r) : from(i) = from(j) => i = j
  BY <1>1, <1>2
<1> HIDE DEF from
<1>7. Entries(b, r)
  <2>1. \A i \in 1 .. Len(r) : Named(b, r[i])
    BY <1>5 DEF Entries
  <2>2. ASSUME NEW i \in 1 .. Len(r), NEW j \in 1 .. Len(r), r[i].slot = r[j].slot
        PROVE  i = j
    BY <1>5, <1>6, <2>2 DEF Entries
  <2> QED  BY <1>2, <2>1, <2>2 DEF Entries
<1>8. Matches(RemoveAt(m, d), r)
  <2>1. ASSUME NEW k \in 1 .. Len(r) PROVE RemoveAt(m, d)[k].id = r[k].id
    BY <1>5 DEF Matches
  <2> QED  BY <1>2, <1>4, <2>1 DEF Matches
<1> QED  BY <1>2, <1>3, <1>7, <1>8 DEF r

\* A new entry with a free slot.
LEMMA Grown ==
  ASSUME NEW b \in Id, NEW l, Entries(b, l), NEW n \in Text, NEW x \in Nat \ {0},
         \A i \in DOMAIN l : l[i].slot # x,
         NEW e, e = [name |-> n, id |-> Append(b, x), slot |-> x]
  PROVE  Entries(b, <<e>> \o l)
<1> DEFINE g == <<e>> \o l
<1>1. l \in Seq(Entry) /\ Len(l) \in Nat /\ DOMAIN l = 1 .. Len(l)
  BY LenProperties DEF Entries
<1>2. Append(b, x) \in Id
  BY AppendProperties DEF Id
<1>3. e \in Entry
  BY <1>2 DEF Entry
<1>4. /\ g \in Seq(Entry) /\ Len(g) = Len(l) + 1 /\ g[1] = e
      /\ \A i \in 2 .. Len(l) + 1 : g[i] = l[i - 1]
  BY <1>1, <1>3, OnFront
<1> HIDE DEF g
<1>5. ASSUME NEW i \in 1 .. Len(g)
      PROVE  i # 1 => i - 1 \in 1 .. Len(l) /\ g[i] = l[i - 1]
  BY <1>1, <1>4
<1>6. Named(b, e) /\ e.slot = x
  BY DEF Named
<1>7. ASSUME NEW i \in 1 .. Len(g) PROVE Named(b, g[i])
  BY <1>4, <1>5, <1>6 DEF Entries
<1>8. ASSUME NEW i \in 1 .. Len(g), NEW j \in 1 .. Len(g), g[i].slot = g[j].slot
      PROVE  i = j
  <2>1. CASE i = 1 /\ j = 1
    BY <2>1
  <2>2. CASE i = 1 /\ j # 1
    BY <1>1, <1>4, <1>5, <1>6, <1>8, <2>2
  <2>3. CASE i # 1 /\ j = 1
    BY <1>1, <1>4, <1>5, <1>6, <1>8, <2>3
  <2>4. CASE i # 1 /\ j # 1
    <3> DEFINE p == i - 1
               q == j - 1
    <3>1. p \in 1 .. Len(l) /\ q \in 1 .. Len(l) /\ l[p].slot = l[q].slot
      BY <1>5, <1>8, <2>4
    <3> HIDE DEF p, q
    <3>2. p = q
      BY <3>1 DEF Entries
    <3> QED  BY <1>1, <1>4, <3>2 DEF p, q
  <2> QED  BY <2>1, <2>2, <2>3, <2>4
<1>9. Entries(b, g)
  BY <1>4, <1>7, <1>8 DEF Entries
<1> QED  BY <1>9 DEF g

\* An item inserted before the first one.
LEMMA Pushed ==
  ASSUME NEW b \in Id, NEW l, Entries(b, l), l # <<>>, NEW m, Matches(m, l),
         NEW e \in Entry, NEW item \in Item, item.id = e.id
  PROVE  Matches(InsertMenuItem(m, Head(l).id, item), <<e>> \o l)
<1> DEFINE g == <<e>> \o l
<1>1. l \in Seq(Entry) /\ m \in Seq(Item) /\ Len(m) = Len(l) /\ Len(l) \in Nat \ {0}
  BY EmptySeq DEF Entries, Matches
<1>2. Head(l) = l[1] /\ 1 \in 1 .. Len(l)
  BY <1>1
<1>3. (CHOOSE k \in DOMAIN m : m[k].id = Head(l).id) = 1
  BY <1>2, Found
<1>4. InsertMenuItem(m, Head(l).id, item) = SubSeq(m, 1, 0) \o <<item>> \o SubSeq(m, 1, Len(m))
  <2>1. InsertMenuItem(m, Head(l).id, item) = InsertAt(m, 1, item)
    BY <1>3 DEF InsertMenuItem
  <2>2. InsertAt(m, 1, item) = SubSeq(m, 1, 1 - 1) \o <<item>> \o SubSeq(m, 1, Len(m))
    BY DEF InsertAt
  <2> QED  BY <2>1, <2>2
<1>5. SubSeq(m, 1, 0) = <<>> /\ SubSeq(m, 1, Len(m)) = m
  BY <1>1, SubSeqEmpty, SubSeqFull
<1>6. <<item>> \in Seq(Item) /\ <<>> \o <<item>> = <<item>>
  BY ConcatEmptySeq
<1>7. InsertMenuItem(m, Head(l).id, item) = <<item>> \o m
  BY <1>4, <1>5, <1>6
<1>8. /\ <<item>> \o m \in Seq(Item) /\ Len(<<item>> \o m) = Len(l) + 1
      /\ (<<item>> \o m)[1] = item
      /\ \A i \in 2 .. Len(l) + 1 : (<<item>> \o m)[i] = m[i - 1]
  BY <1>1, OnFront
<1>9. /\ Len(g) = Len(l) + 1 /\ g[1] = e
      /\ \A i \in 2 .. Len(l) + 1 : g[i] = l[i - 1]
  BY <1>1, OnFront
<1> HIDE DEF g
<1>10. ASSUME NEW k \in 1 .. Len(g) PROVE (<<item>> \o m)[k].id = g[k].id
  <2>1. CASE k = 1
    BY <1>8, <1>9, <2>1
  <2>2. CASE k # 1
    <3>1. k \in 2 .. Len(l) + 1 /\ k - 1 \in 1 .. Len(l)
      BY <1>1, <1>9, <2>2
    <3> QED  BY <1>8, <1>9, <3>1 DEF Matches
  <2> QED  BY <2>1, <2>2
<1>11. Matches(<<item>> \o m, g)
  BY <1>8, <1>9, <1>10 DEF Matches
<1> QED  BY <1>7, <1>11 DEF g

\* All items get the captions of the list.
LEMMA Recaptioned ==
  ASSUME NEW b \in Id, NEW g, Entries(b, g), NEW m, Matches(m, g)
  PROVE  Recaption(m, g) = Rows(g)
<1>1. DOMAIN m = 1 .. Len(g) /\ DOMAIN g = 1 .. Len(g)
  BY LenProperties DEF Entries, Matches
<1>2. ASSUME NEW k \in 1 .. Len(g)
      PROVE  /\ \E i \in DOMAIN g : g[i].id = m[k].id
             /\ (CHOOSE i \in DOMAIN g : g[i].id = m[k].id) = k
             /\ m[k].id = g[k].id
  <2>1. m[k].id = g[k].id
    BY DEF Matches
  <2>2. \A i \in DOMAIN g : g[i].id = m[k].id <=> i = k
    BY <1>1, <2>1, DistinctIds
  <2> QED  BY <1>1, <2>1, <2>2
<1>3. ASSUME NEW k \in 1 .. Len(g)
      PROVE  (IF \E i \in DOMAIN g : g[i].id = m[k].id
              THEN LET i == CHOOSE i \in DOMAIN g : g[i].id = m[k].id
                   IN Shown(m[k].id, i, g[i].name)
              ELSE m[k])
             = Shown(g[k].id, k, g[k].name)
  BY <1>2
<1> QED  BY <1>1, <1>3 DEF Recaption, Rows

\* The last entry and its item are dropped.
LEMMA Dropped ==
  ASSUME NEW b \in Id, NEW g, Entries(b, g), g # <<>>
  PROVE  /\ Entries(b, Front(g))
         /\ RemoveMenuItem(Rows(g), Last(g).id) = Rows(Front(g))
<1> DEFINE f == Front(g)
<1>1. /\ g \in Seq(Entry) /\ Len(g) \in Nat \ {0}
      /\ f \in Seq(Entry) /\ Len(f) = Len(g) - 1 /\ Last(g) = g[Len(g)]
      /\ \A i \in 1 .. Len(g) - 1 : f[i] = g[i]
  BY FrontFacts DEF Entries
<1> HIDE DEF f
<1>2. Entries(b, f)
  <2>1. \A i \in 1 .. Len(f) : i \in 1 .. Len(g) /\ f[i] = g[i]
    BY <1>1
  <2> QED  BY <1>1, <2>1 DEF Entries
<1>3. /\ Rows(g) \in Seq(Item) /\ Len(Rows(g)) = Len(g) /\ Matches(Rows(g), g)
      /\ \A k \in 1 .. Len(g) : Rows(g)[k] = Shown(g[k].id, k, g[k].name)
  BY <1>1, RowsFacts
<1>4. RemoveMenuItem(Rows(g), Last(g).id) = RemoveAt(Rows(g), Len(g))
  <2>1. Len(g) \in 1 .. Len(g)
    BY <1>1
  <2>2. (CHOOSE k \in DOMAIN Rows(g) : Rows(g)[k].id = Last(g).id) = Len(g)
    BY <1>1, <1>3, <2>1, Found
  <2> QED  BY <2>2 DEF RemoveMenuItem
<1>5. /\ RemoveAt(Rows(g), Len(g)) \in Seq(Item)
      /\ Len(RemoveAt(Rows(g), Len(g))) = Len(g) - 1
      /\ \A i \in 1 .. Len(g) - 1 : RemoveAt(Rows(g), Len(g))[i] = Rows(g)[i]
  <2>1. Len(g) \in 1 .. Len(Rows(g))
    BY <1>1, <1>3
  <2>2. /\ RemoveAt(Rows(g), Len(g)) \in Seq(Item)
        /\ Len(RemoveAt(Rows(g), Len(g))) = Len(Rows(g)) - 1
        /\ \A i \in 1 .. Len(Rows(g)) - 1 : RemoveAt(Rows(g), Len(g))[i] =
             IF i < Len(g) THEN Rows(g)[i] ELSE Rows(g)[i + 1]
    BY <1>3, <2>1, RemoveAtFacts
  <2> QED  BY <1>1, <1>3, <2>2
<1>6. /\ Rows(f) \in Seq(Item) /\ Len(Rows(f)) = Len(g) - 1
      /\ \A k \in 1 .. Len(g) - 1 : Rows(f)[k] = Shown(f[k].id, k, f[k].name)
  BY <1>1, RowsFacts
<1>7. \A k \in 1 .. Len(g) - 1 : RemoveAt(Rows(g), Len(g))[k] = Rows(f)[k]
  <2> SUFFICES ASSUME NEW k \in 1 .. Len(g) - 1
               PROVE  RemoveAt(Rows(g), Len(g))[k] = Rows(f)[k]
    OBVIOUS
  <2>1. k \in 1 .. Len(g) /\ f[k] = g[k]
    BY <1>1
  <2> QED  BY <1>3, <1>5, <1>6, <2>1
<1>8. RemoveAt(Rows(g), Len(g)) = Rows(f)
  BY <1>5, <1>6, <1>7, SeqEqual
<1> QED  BY <1>2, <1>4, <1>8 DEF f

-----------------------------------------------------------------------------
(* Adding names.                                                           *)

LEMMA OnTop ==
  ASSUME base \in Id, NEW l, Entries(base, l), l # <<>>, Len(l) <= MaxItems,
         NEW m, Matches(m, l), NEW n \in Text, AddOnTop(n, l, m)
  PROVE  /\ Result
         /\ list'[1].name = n
         /\ \A i \in 2 .. Len(list') : i - 1 \in 1 .. Len(l) /\ list'[i] = l[i - 1]
         /\ Len(list') = IF Len(l) < MaxItems THEN Len(l) + 1 ELSE MaxItems
<1>1. /\ l \in Seq(Entry) /\ Len(l) \in Nat \ {0} /\ DOMAIN l = 1 .. Len(l)
      /\ MaxItems \in Nat \ {0}
  BY EmptySeq, LenProperties, MruAssumption DEF Entries
<1>2. PICK x \in 1 .. Len(l) + 1 :
        /\ FreeSlot(l, x)
        /\ LET id     == Append(base, x)
               grown  == <<[name |-> n, id |-> id, slot |-> x]>> \o l
               pushed == InsertMenuItem(m, Head(l).id, Shown(id, 1, n))
           IN DropOldest(grown, Recaption(pushed, grown))
  BY DEF AddOnTop
<1> DEFINE e == [name |-> n, id |-> Append(base, x), slot |-> x]
           g == <<e>> \o l
           p == InsertMenuItem(m, Head(l).id, Shown(Append(base, x), 1, n))
<1>3. x \in Nat \ {0} /\ Append(base, x) \in Id
  BY <1>1, AppendProperties DEF Id
<1>4. e \in Entry
  BY <1>3 DEF Entry
<1>5. Entries(base, g)
  <2>1. \A i \in DOMAIN l : l[i].slot # x
    BY <1>2 DEF FreeSlot
  <2> QED  BY <1>3, <2>1, Grown
<1>6. /\ Len(g) = Len(l) + 1 /\ g[1] = e
      /\ \A i \in 2 .. Len(l) + 1 : g[i] = l[i - 1]
  BY <1>1, <1>4, OnFront
<1>7. Matches(p, g)
  <2>1. Shown(Append(base, x), 1, n) \in Item
    BY <1>3, ShownType
  <2>2. Shown(Append(base, x), 1, n).id = e.id
    BY DEF Shown
  <2> QED  BY <1>4, <2>1, <2>2, Pushed
<1>8. Recaption(p, g) = Rows(g)
  BY <1>5, <1>7, Recaptioned
<1>9. DropOldest(g, Rows(g))
  BY <1>2, <1>8
<1>10. e.name = n
  OBVIOUS
<1>11. filled' = TRUE
  BY DEF AddOnTop
<1> HIDE DEF e, g, p
<1>12. g # <<>> /\ g \in Seq(Entry)
  BY <1>1, <1>5, <1>6, EmptySeq DEF Entries
<1>13. CASE Len(g) > MaxItems
  <2>1. list' = Front(g) /\ menu' = RemoveMenuItem(Rows(g), Last(g).id)
    BY <1>9, <1>13 DEF DropOldest
  <2>2. Entries(base, list') /\ menu' = Rows(list')
    BY <1>5, <1>12, <2>1, Dropped
  <2>3. /\ list' \in Seq(Entry) /\ Len(list') = Len(l)
        /\ \A i \in 1 .. Len(l) : list'[i] = g[i]
    <3>1. /\ Front(g) \in Seq(Entry) /\ Len(Front(g)) = Len(g) - 1
          /\ \A i \in 1 .. Len(g) - 1 : Front(g)[i] = g[i]
      BY <1>12, FrontFacts
    <3>2. Len(g) - 1 = Len(l)
      BY <1>1, <1>6
    <3> QED  BY <2>1, <3>1, <3>2
  <2>4. list' # <<>> /\ Len(list') <= MaxItems
    BY <1>1, <2>3, EmptySeq
  <2>5. list'[1].name = n
    BY <1>1, <1>6, <1>10, <2>3
  <2>6. \A i \in 2 .. Len(list') : i - 1 \in 1 .. Len(l) /\ list'[i] = l[i - 1]
    BY <1>1, <1>6, <2>3
  <2>7. Len(list') = IF Len(l) < MaxItems THEN Len(l) + 1 ELSE MaxItems
    <3>1. Len(g) = Len(l) + 1 /\ Len(list') = Len(l)
      BY <1>6, <2>3
    <3>2. Len(l) = MaxItems
      <4>1. Len(l) \in Nat /\ MaxItems \in Nat /\ Len(l) <= MaxItems /\ Len(l) + 1 > MaxItems
        BY <1>1, <1>13, <3>1
      <4> QED  BY ONLY <4>1
    <3> QED  BY <1>1, <3>1, <3>2
  <2> QED  BY <1>11, <2>2, <2>4, <2>5, <2>6, <2>7 DEF Result
<1>14. CASE ~(Len(g) > MaxItems)
  <2>1. list' = g /\ menu' = Rows(g)
    BY <1>9, <1>14 DEF DropOldest
  <2>2. Len(list') <= MaxItems
    BY <1>1, <1>6, <1>14, <2>1
  <2>3. \A i \in 2 .. Len(list') : i - 1 \in 1 .. Len(l) /\ list'[i] = l[i - 1]
    BY <1>1, <1>6, <2>1
  <2>4. Len(list') = IF Len(l) < MaxItems THEN Len(l) + 1 ELSE MaxItems
    BY <1>1, <1>6, <1>14, <2>1
  <2> QED  BY <1>5, <1>6, <1>10, <1>11, <1>12, <2>1, <2>2, <2>3, <2>4 DEF Result
<1> QED  BY <1>13, <1>14

LEMMA First ==
  ASSUME base \in Id, list = <<>>, NEW c \in BOOLEAN, menu = <<EmptyItem(base, c)>>,
         NEW n \in Text, AddFirst(n, list, menu)
  PROVE  Result /\ Len(list') = 1
<1> DEFINE e == [name |-> n, id |-> base, slot |-> 1]
<1>1. list' = <<e>> /\ menu' = ModifyMenuItem(menu, base, 1, n) /\ filled' = TRUE
  BY DEF AddFirst
<1>2. e \in Entry /\ e.id = base /\ e.slot = 1 /\ e.name = n
  BY DEF Entry
<1>3. EmptyItem(base, c).id = base
  BY DEF EmptyItem
<1> HIDE DEF e
<1>4. list' \in Seq(Entry) /\ Len(list') = 1 /\ list'[1] = e /\ DOMAIN list' = 1 .. 1
  BY <1>1, <1>2
<1>5. Entries(base, list')
  BY <1>2, <1>4 DEF Entries, Named
<1>6. menu' = Rows(list')
  <2>1. DOMAIN menu = 1 .. 1 /\ menu[1].id = base
    BY <1>3
  <2>2. menu' = [k \in 1 .. 1 |-> IF menu[k].id = base THEN Shown(base, 1, n) ELSE menu[k]]
    BY <1>1, <2>1 DEF ModifyMenuItem
  <2>3. menu' = [k \in 1 .. 1 |-> Shown(base, 1, n)]
    BY <2>1, <2>2
  <2>4. Rows(list') = [k \in 1 .. 1 |-> Shown(base, 1, n)]
    BY <1>2, <1>4 DEF Rows
  <2> QED  BY <2>3, <2>4
<1> QED  BY <1>1, <1>4, <1>5, <1>6, MruAssumption DEF Result

\* AddMenuElement keeps the menu in step with the list.
LEMMA Element ==
  ASSUME IInv, up, NEW n \in Text, AddMenuElement(n, list, menu)
  PROVE  Result
<1>1. base \in Id /\ Len(list) <= MaxItems /\ list \in Seq(Entry)
  BY DEF IInv, TypeOK
<1>2. CASE AddFirst(n, list, menu)
  <2>1. list = <<>> /\ menu = <<EmptyItem(base, todo # <<>>)>>
    BY <1>2 DEF AddFirst, IInv, MenuShowsList
  <2> QED  BY <1>1, <1>2, <2>1, First
<1>3. CASE AddOnTop(n, list, menu)
  <2>1. list # <<>>
    BY <1>3 DEF AddOnTop, IInv
  <2>2. menu = Rows(list)
    BY <2>1 DEF IInv, MenuShowsList, Rows
  <2>3. Matches(menu, list)
    BY <1>1, <2>2, RowsFacts
  <2> QED  BY <1>1, <1>3, <2>1, <2>3, OnTop DEF IInv
<1> QED  BY <1>2, <1>3 DEF AddMenuElement

\* A name put on top of entries that do not have it.
LEMMA TopTwinFree ==
  ASSUME NEW l \in Seq(Entry), NEW n \in Text, TwinFree(l),
         \A i \in 1 .. Len(l) : ~SameName(n, l[i].name),
         Entries(base, list'), list'[1].name = n,
         \A i \in 2 .. Len(list') : i - 1 \in 1 .. Len(l) /\ list'[i] = l[i - 1]
  PROVE  TwinFree(list')
<1> SUFFICES ASSUME NEW i \in 1 .. Len(list'), NEW j \in 1 .. Len(list'),
                    list'[i].name # Blank, Fold[list'[i].name] = Fold[list'[j].name]
             PROVE  i = j
  BY DEF TwinFree
<1>1. Len(list') \in Nat /\ Len(l) \in Nat
  BY LenProperties DEF Entries
<1>2. \A k \in 1 .. Len(l) : l[k].name \in Text
  BY EntryFields
<1>3. \A t \in Text : Fold[t] = Blank <=> t = Blank
  BY MruAssumption
<1>4. CASE i = 1 /\ j = 1
  BY <1>4
<1>5. CASE i = 1 /\ j # 1
  <2> DEFINE q == j - 1
  <2>1. q \in 1 .. Len(l) /\ list'[j] = l[q]
    BY <1>1, <1>5
  <2> HIDE DEF q
  <2> QED  BY <1>5, <2>1 DEF SameName
<1>6. CASE i # 1 /\ j = 1
  <2> DEFINE q == i - 1
  <2>1. q \in 1 .. Len(l) /\ list'[i] = l[q]
    BY <1>1, <1>6
  <2> HIDE DEF q
  <2>2. n # Blank
    BY <1>2, <1>3, <1>6, <2>1
  <2> QED  BY <1>6, <2>1, <2>2 DEF SameName
<1>7. CASE i # 1 /\ j # 1
  <2> DEFINE p == i - 1
             q == j - 1
  <2>1. p \in 1 .. Len(l) /\ list'[i] = l[p] /\ q \in 1 .. Len(l) /\ list'[j] = l[q]
    BY <1>1, <1>7
  <2> HIDE DEF p, q
  <2>2. p = q
    BY <2>1 DEF TwinFree
  <2> QED  BY <1>1, <2>2 DEF p, q
<1> QED  BY <1>4, <1>5, <1>6, <1>7

\* Without entry d, the first of its name, a name is found nowhere else.
LEMMA TakenTwinFree ==
  ASSUME NEW l \in Seq(Entry), TwinFree(l), NEW d \in 1 .. Len(l), NEW n \in Text,
         SameName(n, l[d].name)
  PROVE  /\ TwinFree(RemoveAt(l, d))
         /\ \A i \in 1 .. Len(RemoveAt(l, d)) : ~SameName(n, RemoveAt(l, d)[i].name)
<1> DEFINE r == RemoveAt(l, d)
           from(i) == IF i < d THEN i ELSE i + 1
<1>1. /\ Len(l) \in Nat /\ Len(r) = Len(l) - 1
      /\ \A i \in 1 .. Len(l) - 1 : r[i] = IF i < d THEN l[i] ELSE l[i + 1]
  BY LenProperties, RemoveAtFacts
<1> HIDE DEF r
<1>2. ASSUME NEW i \in 1 .. Len(r)
      PROVE  from(i) \in 1 .. Len(l) /\ from(i) # d /\ r[i] = l[from(i)]
  BY <1>1
<1>3. \A i, j \in 1 .. Len(r) : from(i) = from(j) => i = j
  BY <1>1
<1> HIDE DEF from
<1>4. TwinFree(r)
  BY <1>2, <1>3 DEF TwinFree
<1>5. ASSUME NEW i \in 1 .. Len(r), SameName(n, r[i].name)
      PROVE  FALSE
  <2>1. l[from(i)].name # Blank
    <3>1. l[from(i)].name \in Text /\ n # Blank /\ Fold[n] = Fold[l[from(i)].name]
      BY <1>2, <1>5, EntryFields DEF SameName
    <3> QED  BY <3>1, MruAssumption
  <2>2. Fold[l[from(i)].name] = Fold[l[d].name]
    BY <1>2, <1>5 DEF SameName
  <2> QED  BY <1>2, <2>1, <2>2 DEF TwinFree
<1> QED  BY <1>4, <1>5 DEF r

\* AddMRUItem keeps the menu in step and the list free of twins.
LEMMA AddedItem ==
  ASSUME IInv, up, NEW n \in Text, AddMRUItem(n)
  PROVE  /\ Result \/ (UNCHANGED <<list, menu, filled>> /\ list # <<>>)
         /\ TwinFree(list) => TwinFree(list')
<1>1. base \in Id /\ Len(list) <= MaxItems /\ list \in Seq(Entry) /\ MaxItems \in Nat
  BY MruAssumption DEF IInv, TypeOK
<1>2. Len(list) \in Nat /\ DOMAIN list = 1 .. Len(list)
  BY <1>1, LenProperties
<1>3. list # <<>> => menu = Rows(list) /\ Matches(menu, list)
  BY <1>1, RowsFacts DEF IInv, MenuShowsList, Rows
<1>4. CASE \A d \in DOMAIN list : ~SameName(n, list[d].name)
  <2>1. AddMenuElement(n, list, menu)
    BY <1>4 DEF AddMRUItem, DuplicateAt
  <2>2. Result
    BY <2>1, Element
  <2>3. CASE AddFirst(n, list, menu)
    <3>1. list = <<>> /\ menu = <<EmptyItem(base, todo # <<>>)>>
      BY <2>3 DEF AddFirst, IInv, MenuShowsList
    <3>2. Len(list') = 1
      BY <1>1, <2>3, <3>1, First
    <3>3. TwinFree(list')
      BY <3>2 DEF TwinFree
    <3> QED  BY <2>2, <3>3
  <2>4. CASE AddOnTop(n, list, menu)
    <3>1. list # <<>> /\ Matches(menu, list)
      BY <1>3, <2>4 DEF AddOnTop, IInv
    <3>2. /\ list'[1].name = n
          /\ \A i \in 2 .. Len(list') : i - 1 \in 1 .. Len(list) /\ list'[i] = list[i - 1]
      BY <1>1, <2>4, <3>1, OnTop DEF IInv
    <3>3. TwinFree(list) => TwinFree(list')
      BY <1>1, <1>2, <1>4, <2>2, <3>2, TopTwinFree DEF Result
    <3> QED  BY <2>2, <3>3
  <2> QED  BY <2>1, <2>3, <2>4 DEF AddMenuElement
<1>5. CASE \E d \in DOMAIN list : DuplicateAt(n, d) /\ MoveUp(n, d)
  <2>1. PICK d \in 1 .. Len(list) : DuplicateAt(n, d) /\ MoveUp(n, d)
    BY <1>2, <1>5
  <2>2. list # <<>> /\ filled = TRUE
    BY <1>2, <2>1, EmptySeq DEF IInv, TypeOK
  <2>3. CASE d = 1
    BY <2>1, <2>2, <2>3 DEF MoveUp
  <2>4. CASE d # 1
    <3> DEFINE r == RemoveAt(list, d)
               m == RemoveMenuItem(menu, list[d].id)
    <3>1. AddOnTop(n, r, m)
      BY <2>1, <2>2, <2>4 DEF MoveUp, AddMenuElement, AddFirst
    <3>2. Entries(base, r) /\ Matches(m, r) /\ Len(r) = Len(list) - 1
      BY <1>1, <1>3, <2>2, TakenOut DEF IInv
    <3> HIDE DEF m
    <3>3. TwinFree(list) =>
            /\ TwinFree(r)
            /\ \A i \in 1 .. Len(r) : ~SameName(n, r[i].name)
      BY <1>1, <2>1, TakenTwinFree DEF DuplicateAt
    <3> HIDE DEF r
    <3>4. r # <<>> /\ Len(r) <= MaxItems /\ r \in Seq(Entry)
      BY <1>1, <1>2, <2>4, <3>2, EmptySeq DEF Entries
    <3>5. /\ Result
          /\ list'[1].name = n
          /\ \A i \in 2 .. Len(list') : i - 1 \in 1 .. Len(r) /\ list'[i] = r[i - 1]
      BY <1>1, <3>1, <3>2, <3>4, OnTop
    <3>6. TwinFree(list) => TwinFree(list')
      BY <3>3, <3>4, <3>5, TopTwinFree DEF Result
    <3> QED  BY <3>5, <3>6
  <2> QED  BY <2>3, <2>4
<1> QED  BY <1>4, <1>5 DEF AddMRUItem

-----------------------------------------------------------------------------
(* The steps.                                                              *)

LEMMA Empties ==
  /\ <<>> \in Seq(Entry) /\ <<>> \in Seq(Item) /\ <<>> \in Seq(Names) /\ <<>> \in Id
  /\ Len(<<>>) <= MaxItems /\ 0 \in 0 .. MaxItems
<1>1. /\ <<>> \in Seq(Entry) /\ <<>> \in Seq(Item) /\ <<>> \in Seq(Names) /\ <<>> \in Id
      /\ Len(<<>>) = 0
  BY EmptySeq DEF Id
<1>2. MaxItems \in Nat
  BY MruAssumption
<1> QED  BY <1>1, <1>2

LEMMA InitIInv == Init => IInv /\ TwinFree(list)
<1> SUFFICES ASSUME Init PROVE IInv /\ TwinFree(list)
  OBVIOUS
<1>1. TypeOK
  BY Empties DEF Init, TypeOK
<1>2. Entries(base, list) /\ TwinFree(list)
  BY DEF Init, Entries, TwinFree
<1>3. MenuShowsList /\ Saving
  BY DEF Init, MenuShowsList, Saving
<1> QED  BY <1>1, <1>2, <1>3 DEF IInv, Init

\* A call that adds a name, with what is left to add.
LEMMA ResultIInv ==
  ASSUME IInv, up, Result \/ (UNCHANGED <<list, menu, filled>> /\ list # <<>>),
         todo' \in Seq(Names), at = 0, UNCHANGED <<looks, up, base, ini, at>>
  PROVE  IInv'
<1>1. Entries(base, list)' /\ list' # <<>> /\ Len(list') <= MaxItems /\ filled' = TRUE
      /\ menu' = Rows(list')
  BY DEF Result, IInv, TypeOK, MenuShowsList, Rows, Entries
<1>2. list' \in Seq(Entry)
  BY <1>1 DEF Entries
<1>3. menu' \in Seq(Item)
  BY <1>1, <1>2, RowsFacts
<1>4. TypeOK'
  BY <1>1, <1>2, <1>3 DEF IInv, TypeOK
<1>5. MenuShowsList'
  BY <1>1 DEF MenuShowsList, Rows
<1>6. Saving'
  BY DEF Saving
<1> QED  BY <1>1, <1>4, <1>5, <1>6 DEF IInv

LEMMA UseIInv ==
  ASSUME IInv, NEW n \in Added, Use(n)
  PROVE  IInv' /\ (TwinFree(list) => TwinFree(list'))
<1>1. n \in Text /\ up /\ at = 0 /\ todo' \in Seq(Names)
  BY MruAssumption DEF Use, Idle, IInv, TypeOK
<1> QED  BY <1>1, AddedItem, ResultIInv DEF Use

LEMMA UseUncheckedIInv ==
  ASSUME IInv, NEW n \in Unchecked, UseUnchecked(n)
  PROVE  IInv'
<1>1. n \in Text /\ up /\ at = 0 /\ todo' \in Seq(Names)
  BY MruAssumption DEF UseUnchecked, Idle, IInv, TypeOK
<1> QED  BY <1>1, Element, ResultIInv DEF UseUnchecked

LEMMA LoadIInv ==
  ASSUME IInv, Load
  PROVE  IInv' /\ (TwinFree(list) => TwinFree(list'))
<1>1. todo \in Seq(Names) /\ todo # <<>> /\ up /\ at = 0
  BY DEF Load, IInv, TypeOK, Saving
<1>2. Last(todo) \in Text /\ Front(todo) \in Seq(Names)
  <2>1. Len(todo) \in 1 .. Len(todo)
    BY <1>1, EmptySeq
  <2>2. todo[Len(todo)] \in Names
    BY <1>1, <2>1, ElementOfSeq
  <2> QED  BY <1>1, <2>2, FrontFacts DEF Text
<1> QED  BY <1>1, <1>2, AddedItem, ResultIInv DEF Load

LEMMA ClearIInv ==
  ASSUME IInv, ClearMRUList
  PROVE  IInv' /\ TwinFree(list')
<1>1. PICK k \in {1, Len(list)} :
        base' = list[k].id /\ menu' = <<EmptyItem(list[k].id, FALSE)>>
  BY DEF ClearMRUList
<1>2. list \in Seq(Entry) /\ k \in 1 .. Len(list)
  BY EmptySeq DEF IInv, TypeOK, ClearMRUList
<1>3. base' \in Id
  BY <1>1, <1>2, EntryFields
<1>4. EmptyItem(base', FALSE) \in Item
  BY <1>3 DEF EmptyItem, Item, Text
<1>5. /\ list' = <<>> /\ filled' = FALSE /\ todo = <<>> /\ at = 0
      /\ UNCHANGED <<looks, up, todo, ini, at>>
  BY DEF ClearMRUList, Idle
<1>6. TypeOK'
  <2>1. \A it \in Item : <<it>> \in Seq(Item)
    OBVIOUS
  <2>2. menu' = <<EmptyItem(base', FALSE)>>
    BY <1>1
  <2>3. menu' \in Seq(Item)
    BY <1>4, <2>1, <2>2
  <2> QED  BY <1>3, <1>5, <2>3, Empties DEF IInv, TypeOK
<1>7. MenuShowsList'
  BY <1>1, <1>5 DEF MenuShowsList
<1>8. Saving' /\ Entries(base, list)' /\ TwinFree(list')
  BY <1>5 DEF Saving, Entries, TwinFree
<1> QED  BY <1>5, <1>6, <1>7, <1>8 DEF IInv

LEMMA SaveIInv ==
  ASSUME IInv, BeginSave \/ WriteEntry
  PROVE  IInv'
<1>1. UNCHANGED <<looks, up, list, filled, base, menu, todo>>
  BY DEF BeginSave, WriteEntry
<1>2. Entries(base, list)' /\ MenuShowsList' /\ (filled <=> list # <<>>)'
  BY <1>1 DEF IInv, Entries, MenuShowsList
<1>3. CASE BeginSave
  <2>1. TypeOK'
    BY <1>1, <1>3, MruAssumption DEF BeginSave, IInv, TypeOK
  <2>2. Saving'
    BY <1>1, <1>3 DEF BeginSave, Idle, Saving
  <2> QED  BY <1>2, <2>1, <2>2 DEF IInv
<1>4. CASE WriteEntry
  <2>1. at \in Place /\ MaxItems \in Nat /\ Len(list) \in Nat /\ list \in Seq(Entry)
    BY <1>4, MruAssumption, LenProperties DEF WriteEntry, IInv, TypeOK, Place
  <2>2. Saved(at) \in Text
    <3>1. CASE at <= Len(list)
      BY <2>1, <3>1, EntryFields DEF Saved, Place
    <3>2. CASE ~(at <= Len(list))
      BY <3>2 DEF Saved, Text
    <3> QED  BY <3>1, <3>2
  <2>3. ini' \in [Place -> Text] /\ at' \in 0 .. MaxItems
    BY <1>4, <2>1, <2>2 DEF WriteEntry, IInv, TypeOK, Place
  <2>4. TypeOK'
    BY <1>1, <2>3 DEF IInv, TypeOK
  <2>5. ASSUME at' # 0
        PROVE  up' /\ todo' = <<>> /\ \A i \in 1 .. at' - 1 : ini'[i] = Saved(i)'
    <3>1. at' = at + 1 /\ up /\ todo = <<>> /\ \A i \in 1 .. at - 1 : ini[i] = Saved(i)
      BY <1>4, <2>5 DEF WriteEntry, IInv, Saving
    <3>2. ASSUME NEW i \in 1 .. at' - 1 PROVE ini'[i] = Saved(i)
      BY <1>4, <2>1, <3>1 DEF WriteEntry, IInv, TypeOK, Place
    <3>3. \A i : Saved(i)' = Saved(i)
      BY <1>1 DEF Saved
    <3> QED  BY <1>1, <3>1, <3>2, <3>3
  <2> QED  BY <1>2, <2>4, <2>5 DEF IInv, Saving
<1> QED  BY <1>3, <1>4

LEMMA StartIInv ==
  ASSUME IInv, Start
  PROVE  IInv' /\ TwinFree(list')
<1>1. PICK k \in 0 .. MaxItems :
        /\ Readable(k)
        /\ todo' = [i \in 1 .. k |-> ini[i]]
        /\ menu' = <<EmptyItem(<<>>, k # 0)>>
  BY DEF Start
<1>2. /\ up' = TRUE /\ base' = <<>> /\ list' = <<>> /\ filled' = FALSE
      /\ UNCHANGED <<looks, ini, at>>
  BY DEF Start
<1>3. MaxItems \in Nat /\ k \in Nat /\ base' \in Id
  BY <1>2, MruAssumption DEF Id
<1>4. \A i \in 1 .. k : ini[i] \in Names
  BY <1>1, <1>3 DEF Readable, IInv, TypeOK, Place, Text
<1>5. todo' \in Seq(Names) /\ (todo' # <<>> <=> k # 0)
  <2>1. todo' \in [1 .. k -> Names]
    BY <1>1, <1>4
  <2>2. todo' \in Seq(Names) /\ Len(todo') = k
    BY <1>3, <2>1
  <2> QED  BY <2>2, EmptySeq
<1>6. at = 0
  BY DEF Start, IInv, Saving
<1>7. EmptyItem(<<>>, k # 0) \in Item
  BY <1>2, <1>3 DEF EmptyItem, Item, Text
<1>8. TypeOK'
  <2>1. menu' \in Seq(Item)
    BY <1>1, <1>7
  <2> QED  BY <1>2, <1>3, <1>5, <2>1, Empties DEF IInv, TypeOK
<1>9. MenuShowsList'
  BY <1>1, <1>2, <1>5 DEF MenuShowsList, EmptyItem
<1>10. Saving' /\ Entries(base, list)' /\ TwinFree(list')
  BY <1>2, <1>6 DEF Saving, Entries, TwinFree
<1> QED  BY <1>2, <1>8, <1>9, <1>10 DEF IInv

LEMMA StopIInv ==
  ASSUME IInv, Stop
  PROVE  IInv' /\ TwinFree(list')
<1>1. /\ up' = FALSE /\ list' = <<>> /\ filled' = FALSE /\ base' = <<>> /\ menu' = <<>>
      /\ todo' = <<>> /\ at' = 0 /\ ini' = ini /\ looks' = looks
  BY DEF Stop
<1>2. TypeOK'
  BY <1>1, Empties DEF IInv, TypeOK
<1>3. MenuShowsList' /\ Saving' /\ Entries(base, list)' /\ TwinFree(list')
  BY <1>1 DEF MenuShowsList, Saving, Entries, TwinFree
<1> QED  BY <1>1, <1>2, <1>3 DEF IInv

LEMMA RestIInv ==
  ASSUME IInv, UNCHANGED vars
  PROVE  IInv' /\ (TwinFree(list) => TwinFree(list'))
<1>1. /\ looks' = looks /\ up' = up /\ list' = list /\ filled' = filled /\ base' = base
      /\ menu' = menu /\ todo' = todo /\ ini' = ini /\ at' = at
  BY DEF vars
<1>2. TypeOK' /\ MenuShowsList' /\ Saving' /\ Entries(base, list)' /\ (filled <=> list # <<>>)'
  BY <1>1 DEF IInv, TypeOK, MenuShowsList, Saving, Saved, Entries
<1> QED  BY <1>1, <1>2 DEF IInv

LEMMA NextIInv == IInv /\ [Next]_vars => IInv'
<1> SUFFICES ASSUME IInv, [Next]_vars PROVE IInv'
  OBVIOUS
<1>1. CASE Next
  BY <1>1, UseIInv, UseUncheckedIInv, LoadIInv, ClearIInv, SaveIInv, StartIInv, StopIInv DEF Next
<1>2. CASE UNCHANGED vars
  BY <1>2, RestIInv
<1> QED  BY <1>1, <1>2

LEMMA LooksConstant == [Next]_vars => looks' = looks
  BY DEF Next, vars, Use, UseUnchecked, ClearMRUList, BeginSave, WriteEntry, Start, Load, Stop

\* No twins in the list of a program that looks.
LooksFree == looks => TwinFree(list)

LEMMA NextLooksFree == IInv /\ LooksFree /\ [Next]_vars => LooksFree'
<1> SUFFICES ASSUME IInv, LooksFree, [Next]_vars, looks' PROVE TwinFree(list')
  BY DEF LooksFree, TwinFree
<1> TwinFree(list) /\ looks
  BY LooksConstant DEF LooksFree
<1>1. CASE BeginSave \/ WriteEntry
  <2>1. list' = list
    BY <1>1 DEF BeginSave, WriteEntry
  <2> QED  BY <2>1
<1>2. CASE Next
  <2>1. ~\E n \in Unchecked : UseUnchecked(n)
    BY DEF UseUnchecked
  <2> QED  BY <1>1, <1>2, <2>1, UseIInv, LoadIInv, ClearIInv, StartIInv, StopIInv DEF Next
<1>3. CASE UNCHANGED vars
  BY <1>3, RestIInv
<1> QED  BY <1>2, <1>3

-----------------------------------------------------------------------------
(* The theorems.                                                           *)

THEOREM Invariance == Spec => []IInv
<1>1. Init => IInv
  BY InitIInv
<1>2. IInv /\ [Next]_vars => IInv'
  BY NextIInv
<1> QED  BY <1>1, <1>2, PTL DEF Spec

\* The list never exceeds nMaxItems, and every reachable state is typed:
\* no call indexes the list or looks for a menu item that is not there.
THEOREM TypeCorrect == Spec => []TypeOK
<1>1. IInv => TypeOK
  BY DEF IInv
<1> QED  BY <1>1, Invariance, PTL

\* The popup shows the list, whatever names are added, with or without a
\* look for duplicates, cleared or read back (AddMenuElement, ClearMRUList).
THEOREM MenuInStep == Spec => []MenuShowsList
<1>1. IInv => MenuShowsList
  BY DEF IInv
<1> QED  BY <1>1, Invariance, PTL

\* No two menu items have one control name: slots are reused only when free,
\* and a cleared list passes a name on only once (AddMenuElement).
THEOREM NamesUnique == Spec => []UniqueIds
<1>1. IInv => UniqueIds
  <2> SUFFICES ASSUME IInv, NEW i \in DOMAIN list, NEW j \in DOMAIN list, i # j
               PROVE  list[i].id # list[j].id /\ list[i].slot # list[j].slot
    BY DEF UniqueIds
  <2>1. base \in Id /\ Entries(base, list) /\ DOMAIN list = 1 .. Len(list)
    BY LenProperties DEF IInv, TypeOK
  <2> QED  BY <2>1, DistinctIds DEF Entries
<1> QED  BY <1>1, Invariance, PTL

\* Where the program adds files with AddMRUItem only, none is listed twice,
\* whatever Upper() identifies and whatever the INI file held.
THEOREM FilesUnique == Spec => []NoTwins
<1>1. Init => LooksFree
  BY InitIInv DEF LooksFree
<1>2. IInv /\ LooksFree /\ [Next]_vars => LooksFree'
  BY NextLooksFree
<1>3. IInv /\ LooksFree => NoTwins
  <2> SUFFICES ASSUME IInv, LooksFree, looks PROVE NoTwins
    BY DEF NoTwins
  <2>1. DOMAIN list = 1 .. Len(list)
    BY LenProperties DEF IInv, TypeOK
  <2> QED  BY <2>1 DEF LooksFree, TwinFree, NoTwins
<1> QED  BY <1>1, <1>2, <1>3, Invariance, PTL DEF Spec

\* A save that is not cut off leaves exactly the list in the INI file.
THEOREM SaveIsComplete == Spec => SaveComplete
<1>1. ASSUME IInv, [Next]_vars, at # 0, at' = 0, up', NEW i \in Place
      PROVE  ini'[i] = Saved(i)
  <2>1. CASE WriteEntry
    <3>1. /\ at = MaxItems /\ MaxItems \in Nat \ {0}
          /\ ini' = [ini EXCEPT ![at] = Saved(at)] /\ DOMAIN ini = Place
      BY <1>1, <2>1, MruAssumption DEF WriteEntry, IInv, TypeOK
    <3>2. \A k \in 1 .. at - 1 : ini[k] = Saved(k)
      BY <1>1 DEF IInv, Saving
    <3>3. CASE i = at
      BY <3>1, <3>3
    <3>4. CASE i # at
      BY <3>1, <3>2, <3>4 DEF Place
    <3> QED  BY <3>3, <3>4
  <2>2. CASE ~WriteEntry
    <3>1. up /\ todo = <<>>
      BY <1>1 DEF IInv, Saving
    <3> QED  BY <1>1, <2>2, <3>1
         DEF Next, vars, Use, UseUnchecked, Idle, ClearMRUList, BeginSave, Start, Load, Stop
  <2> QED  BY <2>1, <2>2
<1>2. IInv /\ [Next]_vars =>
        [at # 0 /\ at' = 0 /\ up' =>
           \A i \in Place : ini'[i] = IF i <= Len(list) THEN list[i].name ELSE Blank]_vars
  BY <1>1 DEF Saved
<1> QED  BY <1>2, Invariance, PTL DEF Spec, SaveComplete

-----------------------------------------------------------------------------
(* The list of files.  While the section is read, the invariant says that  *)
(* the list has the files of the places read so far, which are the last    *)
(* ones, each once and in the order of their first places among them.      *)

FilesOf(l) == [i \in DOMAIN l |-> Fold[l[i].name]]

Kept == [i \in Place |-> Fold[ini[i]]]

Codes == {Fold[t] : t \in Text}

\* r lists the files of s[m], ..., s[k] once each, in their order there.
Covers(r, s, m, k) ==
  /\ \A i \in 1 .. Len(r) : \E a \in m .. k : s[a] = r[i]
  /\ \A a \in m .. k : \E i \in 1 .. Len(r) : r[i] = s[a]
  /\ \A i, j \in 1 .. Len(r) : i < j =>
       \E a \in m .. k : s[a] = r[i] /\ \A b \in m .. a : s[b] # r[j]

\* The files q are the files r after f was used.
Moved(f, r, q) == \E d \in 1 .. Len(r) : r[d] = f /\ q = <<f>> \o RemoveAt(r, d)
Entered(f, r, q) ==
  /\ \A i \in 1 .. Len(r) : r[i] # f
  /\ q = SubSeq(<<f>> \o r, 1, IF Len(r) < MaxItems THEN Len(r) + 1 ELSE MaxItems)

Ends(k) == Readable(k) /\ (k < MaxItems => ini[k + 1] = Blank)

Reading ==
  todo # <<>> => \E k \in 1 .. MaxItems :
    /\ Ends(k)
    /\ Len(todo) + Len(list) <= k
    /\ \A i \in 1 .. Len(todo) : todo[i] = ini[i]
    /\ Covers(FilesOf(list), Kept, Len(todo) + 1, k)

FInv == IInv /\ (~up => list = <<>>) /\ Reading

LEMMA FilesFacts ==
  ASSUME NEW l \in Seq(Entry)
  PROVE  /\ FilesOf(l) \in Seq(Codes) /\ Len(FilesOf(l)) = Len(l) /\ Len(l) \in Nat
         /\ \A i \in 1 .. Len(l) : FilesOf(l)[i] = Fold[l[i].name]
         /\ DOMAIN l = 1 .. Len(l) /\ DOMAIN FilesOf(l) = 1 .. Len(l)
<1>1. Len(l) \in Nat /\ DOMAIN l = 1 .. Len(l)
  BY LenProperties
<1>2. \A i \in 1 .. Len(l) : Fold[l[i].name] \in Codes
  BY EntryFields DEF Codes
<1>3. FilesOf(l) \in [1 .. Len(l) -> Codes]
  BY <1>1, <1>2 DEF FilesOf
<1>4. \A i \in 1 .. Len(l) : FilesOf(l)[i] = Fold[l[i].name]
  BY <1>1 DEF FilesOf
<1> HIDE DEF FilesOf
<1>5. FilesOf(l) \in Seq(Codes) /\ Len(FilesOf(l)) = Len(l)
  BY <1>1, <1>3
<1> QED  BY <1>1, <1>3, <1>4, <1>5

\* A name on top of the entries l: what falls off is the last one.
LEMMA TopFiles ==
  ASSUME NEW l \in Seq(Entry), Len(l) <= MaxItems, NEW n \in Text,
         list' \in Seq(Entry), list'[1].name = n,
         \A i \in 2 .. Len(list') : i - 1 \in 1 .. Len(l) /\ list'[i] = l[i - 1],
         Len(list') = IF Len(l) < MaxItems THEN Len(l) + 1 ELSE MaxItems
  PROVE  FilesOf(list') = SubSeq(<<Fold[n]>> \o FilesOf(l), 1,
                                 IF Len(l) < MaxItems THEN Len(l) + 1 ELSE MaxItems)
<1> DEFINE r == FilesOf(l)
           q == FilesOf(list')
           g == <<Fold[n]>> \o r
           z == IF Len(l) < MaxItems THEN Len(l) + 1 ELSE MaxItems
<1>1. /\ r \in Seq(Codes) /\ Len(r) = Len(l) /\ Len(l) \in Nat
      /\ \A i \in 1 .. Len(l) : r[i] = Fold[l[i].name]
  BY FilesFacts
<1>2. /\ q \in Seq(Codes) /\ Len(q) = Len(list')
      /\ \A i \in 1 .. Len(list') : q[i] = Fold[list'[i].name]
  BY FilesFacts
<1>3. Fold[n] \in Codes /\ MaxItems \in Nat \ {0}
  BY MruAssumption DEF Codes
<1>z. z \in Nat \ {0} /\ z <= Len(l) + 1
  BY <1>1, <1>3
<1>z2. Len(list') = z
  OBVIOUS
<1> HIDE DEF r, q, z
<1>4. /\ g \in Seq(Codes) /\ Len(g) = Len(l) + 1 /\ g[1] = Fold[n]
      /\ \A i \in 2 .. Len(l) + 1 : g[i] = r[i - 1]
  BY <1>1, <1>3, OnFront
<1> HIDE DEF g
<1>5. /\ SubSeq(g, 1, z) \in Seq(Codes) /\ Len(SubSeq(g, 1, z)) = z - 1 + 1
      /\ \A i, k \in Int : i >= 1 /\ k <= z /\ k = 1 + i - 1 => SubSeq(g, 1, z)[i] = g[k]
  BY <1>1, <1>z, <1>4, Segment
<1>6. Len(SubSeq(g, 1, z)) = z /\ Len(q) = z
  BY <1>2, <1>z, <1>z2, <1>5
<1>7. ASSUME NEW i \in 1 .. z PROVE q[i] = SubSeq(g, 1, z)[i]
  <2>1. SubSeq(g, 1, z)[i] = g[i] /\ q[i] = Fold[list'[i].name]
    BY <1>2, <1>5, <1>z2
  <2>2. CASE i = 1
    BY <1>4, <2>1, <2>2
  <2>3. CASE i # 1
    <3> DEFINE j == i - 1
    <3>1. j \in 1 .. Len(l) /\ list'[i] = l[j] /\ i \in 2 .. Len(l) + 1
      BY <1>1, <1>z, <1>z2, <2>3
    <3>2. g[i] = r[j]
      BY <1>4, <3>1
    <3> HIDE DEF j
    <3> QED  BY <1>1, <2>1, <3>1, <3>2
  <2> QED  BY <2>2, <2>3
<1>8. q = SubSeq(g, 1, z)
  BY <1>2, <1>5, <1>6, <1>7, SeqEqual
<1> QED  BY <1>8 DEF q, g, z, r

\* Entry d replaced by its name on top.
LEMMA MovedFiles ==
  ASSUME NEW l \in Seq(Entry), NEW d \in 1 .. Len(l), NEW n \in Text, Fold[l[d].name] = Fold[n],
         list' \in Seq(Entry), list'[1].name = n, Len(list') = Len(l),
         \A i \in 2 .. Len(list') : list'[i] = RemoveAt(l, d)[i - 1]
  PROVE  Moved(Fold[n], FilesOf(l), FilesOf(list'))
<1> DEFINE r == FilesOf(l)
           q == FilesOf(list')
           x == RemoveAt(r, d)
           g == <<Fold[n]>> \o x
<1>1. /\ r \in Seq(Codes) /\ Len(r) = Len(l) /\ Len(l) \in Nat
      /\ \A i \in 1 .. Len(l) : r[i] = Fold[l[i].name]
  BY FilesFacts
<1>2. /\ q \in Seq(Codes) /\ Len(q) = Len(l)
      /\ \A i \in 1 .. Len(l) : q[i] = Fold[list'[i].name]
  BY FilesFacts
<1>3. Fold[n] \in Codes
  BY DEF Codes
<1> HIDE DEF r, q
<1>4. /\ x \in Seq(Codes) /\ Len(x) = Len(l) - 1
      /\ \A i \in 1 .. Len(l) - 1 : x[i] = IF i < d THEN r[i] ELSE r[i + 1]
  BY <1>1, RemoveAtFacts
<1>5. \A i \in 1 .. Len(l) - 1 : RemoveAt(l, d)[i] = IF i < d THEN l[i] ELSE l[i + 1]
  BY RemoveAtFacts
<1> HIDE DEF x
<1>6. /\ g \in Seq(Codes) /\ Len(g) = Len(l) - 1 + 1 /\ g[1] = Fold[n]
      /\ \A i \in 2 .. Len(l) - 1 + 1 : g[i] = x[i - 1]
  BY <1>3, <1>4, OnFront
<1> HIDE DEF g
<1>7. ASSUME NEW i \in 1 .. Len(l) PROVE q[i] = g[i]
  <2>1. CASE i = 1
    BY <1>2, <1>6, <2>1
  <2>2. CASE i # 1
    <3> DEFINE j == i - 1
               c == IF j < d THEN j ELSE j + 1
    <3>1. i \in 2 .. Len(l) /\ j \in 1 .. Len(l) - 1 /\ c \in 1 .. Len(l)
      BY <1>1, <2>2
    <3>2. x[j] = r[c] /\ RemoveAt(l, d)[j] = l[c]
      BY <1>4, <1>5, <3>1
    <3>3. g[i] = x[j] /\ list'[i] = RemoveAt(l, d)[j]
      BY <1>1, <1>6, <3>1
    <3> HIDE DEF j, c
    <3>4. list'[i] = l[c] /\ q[i] = Fold[l[c].name]
      BY <1>2, <3>2, <3>3
    <3>5. r[c] = Fold[l[c].name]
      BY <1>1, <3>1
    <3> QED  BY <3>2, <3>3, <3>4, <3>5
  <2> QED  BY <2>1, <2>2
<1>8. Len(q) = Len(l) /\ Len(g) = Len(l)
  BY <1>1, <1>2, <1>6
<1>9. q = g
  BY <1>2, <1>6, <1>7, <1>8, SeqEqual
<1>10. r[d] = Fold[n] /\ d \in 1 .. Len(r)
  BY <1>1
<1> QED  BY <1>9, <1>10 DEF Moved, q, g, x, r

\* The first of its file stays where it is.
LEMMA StaysOnTop ==
  ASSUME NEW r \in Seq(Codes), r # <<>>
  PROVE  Moved(r[1], r, r)
<1>1. Len(r) \in Nat \ {0} /\ r[1] \in Codes
  BY EmptySeq, ElementOfSeq
<1> DEFINE x == RemoveAt(r, 1)
           g == <<r[1]>> \o x
<1>2. /\ x \in Seq(Codes) /\ Len(x) = Len(r) - 1
      /\ \A i \in 1 .. Len(r) - 1 : x[i] = IF i < 1 THEN r[i] ELSE r[i + 1]
  BY <1>1, RemoveAtFacts
<1> HIDE DEF x
<1>3. /\ g \in Seq(Codes) /\ Len(g) = Len(r) - 1 + 1 /\ g[1] = r[1]
      /\ \A i \in 2 .. Len(r) - 1 + 1 : g[i] = x[i - 1]
  BY <1>1, <1>2, OnFront
<1> HIDE DEF g
<1>4. ASSUME NEW i \in 1 .. Len(r) PROVE g[i] = r[i]
  <2>1. CASE i = 1
    BY <1>3, <2>1
  <2>2. CASE i # 1
    <3> DEFINE j == i - 1
    <3>1. j \in 1 .. Len(r) - 1 /\ i \in 2 .. Len(r) - 1 + 1 /\ ~(j < 1) /\ j + 1 = i
      BY <1>1, <2>2
    <3>2. g[i] = x[j]
      BY <1>3, <3>1
    <3> HIDE DEF j
    <3> QED  BY <1>2, <3>1, <3>2
  <2> QED  BY <2>1, <2>2
<1>5. Len(g) = Len(r)
  BY <1>1, <1>3
<1>6. g = r
  BY <1>3, <1>4, <1>5, SeqEqual
<1> QED  BY <1>1, <1>6 DEF Moved, g, x

\* AddMRUItem is a use of its file.
LEMMA AddedFiles ==
  ASSUME IInv, up, NEW n \in Names, AddMRUItem(n)
  PROVE  \/ Moved(Fold[n], FilesOf(list), FilesOf(list'))
         \/ Entered(Fold[n], FilesOf(list), FilesOf(list'))
<1>1. /\ base \in Id /\ Len(list) <= MaxItems /\ list \in Seq(Entry) /\ MaxItems \in Nat \ {0}
      /\ n \in Text /\ n # Blank
  BY MruAssumption DEF IInv, TypeOK, Text
<1>2. Len(list) \in Nat /\ DOMAIN list = 1 .. Len(list)
  BY <1>1, LenProperties
<1>3. list # <<>> => menu = Rows(list) /\ Matches(menu, list)
  BY <1>1, RowsFacts DEF IInv, MenuShowsList, Rows
<1>4. CASE \A d \in DOMAIN list : ~SameName(n, list[d].name)
  <2>1. AddMenuElement(n, list, menu)
    BY <1>4 DEF AddMRUItem, DuplicateAt
  <2>2. list' \in Seq(Entry)
    BY <1>1, <2>1, Element DEF Result, Entries
  <2>3. /\ list'[1].name = n
        /\ \A i \in 2 .. Len(list') : i - 1 \in 1 .. Len(list) /\ list'[i] = list[i - 1]
        /\ Len(list') = IF Len(list) < MaxItems THEN Len(list) + 1 ELSE MaxItems
    <3>1. CASE AddFirst(n, list, menu)
      <4>1. list = <<>> /\ menu = <<EmptyItem(base, todo # <<>>)>>
        BY <3>1 DEF AddFirst, IInv, MenuShowsList
      <4>2. Len(list') = 1 /\ Len(list) = 0
        BY <1>1, <3>1, <4>1, First, EmptySeq
      <4>3. list' = <<[name |-> n, id |-> base, slot |-> 1]>>
        BY <3>1, <4>1 DEF AddFirst
      <4> QED  BY <1>1, <4>2, <4>3
    <3>2. CASE AddOnTop(n, list, menu)
      <4>1. list # <<>> /\ Matches(menu, list)
        BY <1>3, <3>2 DEF AddOnTop, IInv
      <4> QED  BY <1>1, <3>2, <4>1, OnTop DEF IInv
    <3> QED  BY <2>1, <3>1, <3>2 DEF AddMenuElement
  <2>4. FilesOf(list') = SubSeq(<<Fold[n]>> \o FilesOf(list), 1,
                                IF Len(list) < MaxItems THEN Len(list) + 1 ELSE MaxItems)
    BY ONLY <1>1, <2>2, <2>3, TopFiles
  <2>5. \A i \in 1 .. Len(list) : Fold[list[i].name] # Fold[n]
    BY <1>1, <1>2, <1>4 DEF SameName
  <2>6. /\ Len(FilesOf(list)) = Len(list)
        /\ \A i \in 1 .. Len(list) : FilesOf(list)[i] = Fold[list[i].name]
    BY <1>1, FilesFacts
  <2>7. Entered(Fold[n], FilesOf(list), FilesOf(list'))
    BY ONLY <2>4, <2>5, <2>6 DEF Entered
  <2> QED  BY <2>7
<1>5. CASE \E d \in DOMAIN list : DuplicateAt(n, d) /\ MoveUp(n, d)
  <2>1. PICK d \in 1 .. Len(list) : DuplicateAt(n, d) /\ MoveUp(n, d)
    BY <1>2, <1>5
  <2>2. list # <<>> /\ filled = TRUE
    BY <1>2, <2>1, EmptySeq DEF IInv, TypeOK
  <2>3. Fold[list[d].name] = Fold[n]
    BY <2>1 DEF DuplicateAt, SameName
  <2>4. CASE d = 1
    <3>1. list' = list
      BY <2>1, <2>2, <2>4 DEF MoveUp
    <3>2. /\ FilesOf(list) \in Seq(Codes) /\ Len(FilesOf(list)) = Len(list)
          /\ FilesOf(list)[1] = Fold[n]
      BY <1>1, <2>1, <2>3, <2>4, FilesFacts
    <3>3. FilesOf(list) # <<>>
      BY <1>2, <2>1, <3>2, EmptySeq
    <3>4. Moved(FilesOf(list)[1], FilesOf(list), FilesOf(list))
      BY <3>2, <3>3, StaysOnTop
    <3> QED  BY <3>1, <3>2, <3>4
  <2>5. CASE d # 1
    <3> DEFINE r == RemoveAt(list, d)
               m == RemoveMenuItem(menu, list[d].id)
    <3>1. AddOnTop(n, r, m)
      BY <2>1, <2>2, <2>5 DEF MoveUp, AddMenuElement, AddFirst
    <3>2. Entries(base, r) /\ Matches(m, r) /\ Len(r) = Len(list) - 1
      BY <1>1, <1>3, <2>2, TakenOut DEF IInv
    <3> HIDE DEF m, r
    <3>3. r # <<>> /\ Len(r) <= MaxItems
      BY <1>1, <1>2, <2>5, <3>2, EmptySeq DEF Entries
    <3>4. /\ list' \in Seq(Entry) /\ list'[1].name = n
          /\ \A i \in 2 .. Len(list') : list'[i] = r[i - 1]
          /\ Len(list') = IF Len(r) < MaxItems THEN Len(r) + 1 ELSE MaxItems
      BY <1>1, <3>1, <3>2, <3>3, OnTop DEF Result, Entries
    <3>5. Len(list') = Len(list)
      <4>1. Len(r) < MaxItems
        BY <1>1, <1>2, <3>2
      <4>2. Len(list') = Len(r) + 1
        BY <3>4, <4>1
      <4> QED  BY ONLY <1>2, <3>2, <4>2
    <3>6. Moved(Fold[n], FilesOf(list), FilesOf(list'))
      BY <1>1, <2>3, <3>4, <3>5, MovedFiles DEF r
    <3> QED  BY <3>6
  <2> QED  BY <2>4, <2>5
<1> QED  BY <1>4, <1>5 DEF AddMRUItem

\* One more place is read, before the others: p says where the files of q
\* after the first one stand in r.
LEMMA CoversOneMore ==
  ASSUME NEW r \in Seq(Codes), NEW q \in Seq(Codes), NEW s, NEW m \in Nat \ {0}, NEW k \in Nat,
         m <= k, Covers(r, s, m + 1, k), q # <<>>, q[1] = s[m], NEW p,
         \A j \in 2 .. Len(q) : p[j] \in 1 .. Len(r) /\ q[j] = r[p[j]] /\ q[j] # s[m],
         \A i, j \in 2 .. Len(q) : i < j => p[i] < p[j],
         \A i \in 1 .. Len(r) : r[i] # s[m] => \E j \in 2 .. Len(q) : q[j] = r[i]
  PROVE  Covers(q, s, m, k)
<1>1. Len(q) \in Nat \ {0} /\ Len(r) \in Nat /\ m \in m .. k
  BY EmptySeq, LenProperties
<1>c. /\ \A i \in 1 .. Len(r) : \E a \in m + 1 .. k : s[a] = r[i]
      /\ \A a \in m + 1 .. k : \E i \in 1 .. Len(r) : r[i] = s[a]
  BY ONLY Covers(r, s, m + 1, k) DEF Covers
<1>o. \A i, j \in 1 .. Len(r) : i < j =>
        \E a \in m + 1 .. k : s[a] = r[i] /\ \A b \in m + 1 .. a : s[b] # r[j]
  BY ONLY Covers(r, s, m + 1, k) DEF Covers
<1>2. \A a \in m + 1 .. k : a \in m .. k
  OBVIOUS
<1>3. \A a \in m .. k : a = m \/ a \in m + 1 .. k
  OBVIOUS
<1>4. \A i \in 1 .. Len(q) : i = 1 \/ i \in 2 .. Len(q)
  BY <1>1
<1>5. ASSUME NEW i \in 1 .. Len(q) PROVE \E a \in m .. k : s[a] = q[i]
  <2>1. CASE i = 1
    BY <1>1, <2>1
  <2>2. CASE i # 1
    <3>1. i \in 2 .. Len(q)
      BY <1>4, <2>2
    <3>2. PICK c \in 1 .. Len(r) : q[i] = r[c]
      BY <3>1
    <3>3. PICK a \in m + 1 .. k : s[a] = r[c]
      BY ONLY <1>c, <3>2
    <3> QED  BY <1>2, <3>2, <3>3
  <2> QED  BY <2>1, <2>2
<1>6. ASSUME NEW a \in m .. k PROVE \E i \in 1 .. Len(q) : q[i] = s[a]
  <2>1. CASE s[a] = s[m]
    <3>1. 1 \in 1 .. Len(q)
      BY <1>1
    <3> QED  BY <2>1, <3>1
  <2>2. CASE s[a] # s[m]
    <3>1. a \in m + 1 .. k
      BY <1>3, <2>2
    <3>2. PICK c \in 1 .. Len(r) : r[c] = s[a]
      BY ONLY <1>c, <3>1
    <3>3. PICK j \in 2 .. Len(q) : q[j] = r[c]
      BY <2>2, <3>2
    <3>4. j \in 1 .. Len(q)
      BY <1>1
    <3> QED  BY <3>2, <3>3, <3>4
  <2> QED  BY <2>1, <2>2
<1>7. ASSUME NEW i \in 1 .. Len(q), NEW j \in 1 .. Len(q), i < j
      PROVE  \E a \in m .. k : s[a] = q[i] /\ \A b \in m .. a : s[b] # q[j]
  <2>1. j \in 2 .. Len(q)
    BY <1>1, <1>7
  <2>2. CASE i = 1
    <3>1. \A b \in m .. m : s[b] # q[j]
      <4>1. \A b \in m .. m : b = m
        OBVIOUS
      <4> QED  BY <2>1, <4>1
    <3> QED  BY <1>1, <2>2, <3>1
  <2>3. CASE i # 1
    <3>1. i \in 2 .. Len(q)
      BY <1>4, <2>3
    <3>2. p[i] \in 1 .. Len(r) /\ p[j] \in 1 .. Len(r) /\ p[i] < p[j]
      BY <1>7, <2>1, <3>1
    <3>3. q[i] = r[p[i]] /\ q[j] = r[p[j]] /\ q[j] # s[m]
      BY <2>1, <3>1
    <3>4. PICK a \in m + 1 .. k : s[a] = r[p[i]] /\ \A b \in m + 1 .. a : s[b] # r[p[j]]
      BY ONLY <1>o, <3>2
    <3>5. ASSUME NEW b \in m .. a PROVE s[b] # q[j]
      <4>1. b = m \/ b \in m + 1 .. a
        OBVIOUS
      <4> QED  BY <3>3, <3>4, <4>1
    <3> QED  BY <1>2, <3>3, <3>4, <3>5
  <2> QED  BY <2>2, <2>3
<1> QED  BY ONLY <1>5, <1>6, <1>7 DEF Covers

\* Files that are listed once each differ.
LEMMA CoversDistinct ==
  ASSUME NEW r \in Seq(Codes), NEW s, NEW m \in Nat, NEW k \in Nat, Covers(r, s, m, k),
         NEW i \in 1 .. Len(r), NEW j \in 1 .. Len(r), r[i] = r[j]
  PROVE  i = j
<1>1. ASSUME NEW x \in 1 .. Len(r), NEW y \in 1 .. Len(r), x < y PROVE r[x] # r[y]
  <2>1. PICK a \in m .. k : s[a] = r[x] /\ \A b \in m .. a : s[b] # r[y]
    BY <1>1 DEF Covers
  <2>2. a \in m .. a
    OBVIOUS
  <2> QED  BY <2>1, <2>2
<1>2. Len(r) \in Nat
  BY LenProperties
<1>3. i < j \/ j < i \/ i = j
  BY <1>2
<1> QED  BY <1>1, <1>3

LEMMA MovedCovers ==
  ASSUME NEW r \in Seq(Codes), NEW q \in Seq(Codes), NEW s, NEW m \in Nat \ {0}, NEW k \in Nat,
         m <= k, Covers(r, s, m + 1, k), Moved(s[m], r, q)
  PROVE  Covers(q, s, m, k) /\ Len(q) = Len(r)
<1>1. PICK d \in 1 .. Len(r) : r[d] = s[m] /\ q = <<s[m]>> \o RemoveAt(r, d)
  BY DEF Moved
<1> DEFINE x == RemoveAt(r, d)
           p == [j \in 2 .. Len(q) |-> IF j - 1 < d THEN j - 1 ELSE j]
<1>2. /\ x \in Seq(Codes) /\ Len(x) = Len(r) - 1 /\ Len(r) \in Nat \ {0}
      /\ \A i \in 1 .. Len(r) - 1 : x[i] = IF i < d THEN r[i] ELSE r[i + 1]
  <2>1. Len(r) \in Nat \ {0}
    BY <1>1, LenProperties
  <2> QED  BY <2>1, RemoveAtFacts
<1>3. s[m] \in Codes
  BY <1>1, ElementOfSeq
<1> HIDE DEF x
<1>4. /\ Len(q) = Len(r) - 1 + 1 /\ q[1] = s[m]
      /\ \A i \in 2 .. Len(r) - 1 + 1 : q[i] = x[i - 1]
  BY <1>1, <1>2, <1>3, OnFront DEF x
<1>5. Len(q) = Len(r) /\ q # <<>>
  <2>1. Len(q) = Len(r)
    BY <1>2, <1>4
  <2> QED  BY <1>2, <2>1, EmptySeq
<1>6. ASSUME NEW j \in 2 .. Len(q)
      PROVE  p[j] \in 1 .. Len(r) /\ p[j] # d /\ q[j] = r[p[j]]
  <2> DEFINE c == j - 1
  <2>1. c \in 1 .. Len(r) - 1 /\ j \in 2 .. Len(r) - 1 + 1 /\ c + 1 = j
    BY <1>2, <1>5
  <2>2. q[j] = x[c]
    BY <1>4, <2>1
  <2>3. p[j] = IF c < d THEN c ELSE c + 1
    BY <2>1
  <2> HIDE DEF c, p
  <2>4. p[j] \in 1 .. Len(r) /\ p[j] # d
    BY <1>2, <2>1, <2>3
  <2> QED  BY <1>2, <2>1, <2>2, <2>3, <2>4
<1>7. ASSUME NEW j \in 2 .. Len(q) PROVE q[j] # s[m]
  <2>1. p[j] \in 1 .. Len(r) /\ p[j] # d /\ q[j] = r[p[j]]
    BY <1>6
  <2> HIDE DEF p
  <2> QED  BY <1>1, <2>1, CoversDistinct
<1>8. \A i, j \in 2 .. Len(q) : i < j => p[i] < p[j]
  BY <1>2, <1>5
<1>9. ASSUME NEW i \in 1 .. Len(r), r[i] # s[m] PROVE \E j \in 2 .. Len(q) : q[j] = r[i]
  <2> DEFINE j == IF i < d THEN i + 1 ELSE i
  <2>1. i # d
    BY <1>1, <1>9
  <2>2. j \in 2 .. Len(q)
    BY <1>2, <1>5, <2>1
  <2>3. p[j] = i
    BY <2>1, <2>2
  <2> HIDE DEF j, p
  <2> QED  BY <1>6, <2>2, <2>3
<1> HIDE DEF p
<1> QED  BY <1>4, <1>5, <1>6, <1>7, <1>8, <1>9, CoversOneMore

LEMMA EnteredCovers ==
  ASSUME NEW r \in Seq(Codes), NEW q \in Seq(Codes), NEW s, NEW m \in Nat \ {0}, NEW k \in Nat,
         m <= k, Covers(r, s, m + 1, k), s[m] \in Codes, Entered(s[m], r, q), Len(r) < MaxItems
  PROVE  Covers(q, s, m, k) /\ Len(q) = Len(r) + 1
<1> DEFINE g == <<s[m]>> \o r
           p == [j \in 2 .. Len(q) |-> j - 1]
<1>1. /\ g \in Seq(Codes) /\ Len(g) = Len(r) + 1 /\ g[1] = s[m] /\ Len(r) \in Nat
      /\ \A i \in 2 .. Len(r) + 1 : g[i] = r[i - 1]
  BY LenProperties, OnFront
<1>2. q = g
  <2>1. q = SubSeq(g, 1, Len(r) + 1)
    BY DEF Entered
  <2> HIDE DEF g
  <2>2. SubSeq(g, 1, Len(g)) = g
    BY <1>1, SubSeqFull
  <2> QED  BY <1>1, <2>1, <2>2
<1> HIDE DEF g
<1>3. q # <<>> /\ q[1] = s[m] /\ Len(q) = Len(r) + 1
  BY <1>1, <1>2, EmptySeq
<1>4. ASSUME NEW j \in 2 .. Len(q)
      PROVE  p[j] \in 1 .. Len(r) /\ q[j] = r[p[j]] /\ q[j] # s[m]
  <2>1. p[j] = j - 1 /\ p[j] \in 1 .. Len(r) /\ j \in 2 .. Len(r) + 1
    BY <1>1, <1>3
  <2>2. q[j] = r[j - 1]
    BY <1>1, <1>2, <2>1
  <2>3. r[p[j]] # s[m]
    BY <2>1 DEF Entered
  <2> QED  BY <2>1, <2>2, <2>3
<1>5. \A i, j \in 2 .. Len(q) : i < j => p[i] < p[j]
  BY <1>1, <1>3
<1>6. ASSUME NEW i \in 1 .. Len(r) PROVE \E j \in 2 .. Len(q) : q[j] = r[i]
  <2> DEFINE j == i + 1
  <2>1. j \in 2 .. Len(q) /\ p[j] = i
    BY <1>1, <1>3
  <2> HIDE DEF j, p
  <2> QED  BY <1>4, <2>1
<1> HIDE DEF p
<1> QED  BY <1>3, <1>4, <1>5, <1>6, CoversOneMore

\* Loading takes the last place that is left.
LEMMA LoadReading ==
  ASSUME FInv, Load
  PROVE  \E k \in 1 .. MaxItems :
           /\ Ends(k)
           /\ Len(todo') + Len(list') <= k
           /\ \A i \in 1 .. Len(todo') : todo'[i] = ini[i]
           /\ Covers(FilesOf(list'), Kept, Len(todo') + 1, k)
<1>1. /\ up /\ todo # <<>> /\ todo \in Seq(Names) /\ list \in Seq(Entry) /\ Len(list) \in Nat
      /\ MaxItems \in Nat \ {0} /\ ini \in [Place -> Text] /\ todo' = Front(todo) /\ IInv
  BY LenProperties, MruAssumption DEF Load, FInv, IInv, TypeOK
<1>2. PICK k \in 1 .. MaxItems :
        /\ Ends(k)
        /\ Len(todo) + Len(list) <= k
        /\ \A i \in 1 .. Len(todo) : todo[i] = ini[i]
        /\ Covers(FilesOf(list), Kept, Len(todo) + 1, k)
  BY <1>1 DEF FInv, Reading
<1> DEFINE m == Len(todo)
           r == FilesOf(list)
           q == FilesOf(list')
<1>3. /\ m \in Nat \ {0} /\ Last(todo) = todo[m]
      /\ todo' \in Seq(Names) /\ Len(todo') = m - 1 /\ \A i \in 1 .. m - 1 : todo'[i] = todo[i]
  BY <1>1, FrontFacts
<1>4. m \in 1 .. m /\ m <= k /\ k \in Nat /\ m \in Place
  BY <1>1, <1>2, <1>3 DEF Place
<1>5. todo[m] \in Names /\ todo[m] \in Text /\ Kept[m] = Fold[todo[m]] /\ Kept[m] \in Codes
  <2>1. todo[m] \in Names /\ todo[m] = ini[m]
    BY <1>1, <1>2, <1>4, ElementOfSeq
  <2>2. Kept[m] = Fold[ini[m]]
    BY <1>4 DEF Kept
  <2> QED  BY <2>1, <2>2 DEF Text, Codes
<1>6. list' \in Seq(Entry)
  BY LoadIInv DEF FInv, IInv, TypeOK
<1>7. r \in Seq(Codes) /\ q \in Seq(Codes) /\ Len(r) = Len(list) /\ Len(q) = Len(list')
  BY <1>1, <1>6, FilesFacts
<1>8. Moved(Kept[m], r, q) \/ Entered(Kept[m], r, q)
  <2>1. AddMRUItem(todo[m])
    BY <1>3 DEF Load
  <2> QED  BY <1>1, <1>5, <2>1, AddedFiles
<1> HIDE DEF m, r, q
<1>9. Covers(r, Kept, m + 1, k) /\ m + Len(r) <= k
  BY <1>2, <1>7 DEF m, r
<1>10. Len(r) < MaxItems /\ Len(r) \in Nat
  BY <1>1, <1>2, <1>3, <1>7, <1>9
<1>11. Covers(q, Kept, m, k) /\ Len(q) <= Len(r) + 1
  BY <1>3, <1>4, <1>5, <1>7, <1>8, <1>9, <1>10, MovedCovers, EnteredCovers
<1>12. Len(todo') + 1 = m
  BY <1>3
<1>13. Covers(FilesOf(list'), Kept, Len(todo') + 1, k)
  BY <1>11, <1>12 DEF q
<1>14. Len(todo') + Len(list') <= k
  <2>1. Len(q) \in Nat
    BY <1>7, LenProperties
  <2> QED  BY <1>3, <1>4, <1>7, <1>9, <1>10, <1>11, <2>1
<1>15. \A i \in 1 .. Len(todo') : todo'[i] = ini[i]
  <2>1. \A i \in 1 .. m - 1 : i \in 1 .. m
    BY <1>3
  <2> QED  BY <1>2, <1>3, <2>1 DEF m
<1> QED  BY <1>2, <1>13, <1>14, <1>15

LEMMA InitFInv == Init => FInv
  BY InitIInv DEF Init, FInv, Reading

LEMMA StartReading ==
  ASSUME FInv, Start
  PROVE  Reading'
<1>1. PICK k \in 0 .. MaxItems :
        /\ Readable(k) /\ (k < MaxItems => ini[k + 1] = Blank)
        /\ todo' = [i \in 1 .. k |-> ini[i]]
  BY DEF Start
<1>2. list' = <<>> /\ ini' = ini /\ k \in Nat /\ MaxItems \in Nat /\ ini \in [Place -> Text]
  BY MruAssumption DEF Start, FInv, IInv, TypeOK
<1>3. /\ todo' \in Seq(Text) /\ Len(todo') = k
      /\ \A i \in 1 .. Len(todo') : todo'[i] = ini[i]
  <2>1. \A i \in 1 .. k : i \in Place
    BY <1>2 DEF Place
  <2>2. todo' \in [1 .. k -> Text]
    BY <1>1, <1>2, <2>1
  <2>3. Len(todo') = k /\ todo' \in Seq(Text)
    BY <1>2, <2>2
  <2> QED  BY <1>1, <2>3
<1>4. /\ FilesOf(list') \in Seq(Codes) /\ Len(FilesOf(list')) = 0
  <2>1. <<>> \in Seq(Entry) /\ Len(<<>>) = 0
    BY EmptySeq
  <2> QED  BY <1>2, <2>1, FilesFacts
<1>5. Covers(FilesOf(list'), Kept, k + 1, k)
  <2>1. \A i \in 1 .. 0 : FALSE
    OBVIOUS
  <2>2. \A a \in k + 1 .. k : FALSE
    BY <1>2
  <2> QED  BY <1>4, <2>1, <2>2 DEF Covers
<1>6. Kept' = Kept /\ Ends(k)' /\ FilesOf(list)' = FilesOf(list')
  BY <1>1, <1>2 DEF Kept, Ends, Readable, FilesOf
<1>7. ASSUME todo' # <<>> PROVE k \in 1 .. MaxItems
  BY <1>2, <1>3, <1>7, EmptySeq
<1>8. Len(todo') + Len(list') <= k
  <2>1. Len(<<>>) = 0
    OBVIOUS
  <2> QED  BY <1>2, <1>3, <2>1
<1>9. Covers(FilesOf(list)', Kept', Len(todo') + 1, k)
  BY <1>3, <1>5, <1>6
<1>10. Covers(FilesOf(list), Kept, Len(todo) + 1, k)'
  BY <1>9 DEF Covers
<1>11. \A i \in 1 .. Len(todo') : todo'[i] = ini'[i]
  BY <1>2, <1>3
<1> QED  BY <1>6, <1>7, <1>8, <1>10, <1>11 DEF Reading

\* A step that leaves the reading alone, or ends it.
LEMMA KeepsReading ==
  ASSUME Reading, todo' = <<>> \/ UNCHANGED <<todo, list, ini>>
  PROVE  Reading'
<1>1. CASE todo' = <<>>
  BY <1>1 DEF Reading
<1>2. CASE UNCHANGED <<todo, list, ini>>
  <2>1. /\ FilesOf(list)' = FilesOf(list) /\ Kept' = Kept
        /\ \A k : Ends(k)' <=> Ends(k)
    BY <1>2 DEF FilesOf, Kept, Ends, Readable
  <2>2. \A k : Covers(FilesOf(list), Kept, Len(todo) + 1, k)'
               <=> Covers(FilesOf(list), Kept, Len(todo) + 1, k)
    BY <1>2, <2>1 DEF Covers
  <2> QED  BY <1>2, <2>1, <2>2 DEF Reading
<1> QED  BY <1>1, <1>2

LEMMA NextFInv == FInv /\ [Next]_vars => FInv'
<1> SUFFICES ASSUME FInv, [Next]_vars PROVE FInv'
  OBVIOUS
<1>1. IInv'
  BY NextIInv DEF FInv
<1>2. (~up => list = <<>>)'
  <2>1. CASE Stop \/ Start
    BY <2>1 DEF Stop, Start
  <2>2. CASE ~(Stop \/ Start)
    <3>1. up' = up
      BY <2>2 DEF Next, vars, Use, UseUnchecked, ClearMRUList, BeginSave, WriteEntry, Load
    <3>2. CASE up
      BY <3>1, <3>2
    <3>3. CASE ~up
      <4>1. at = 0
        BY <3>3 DEF FInv, IInv, Saving
      <4>2. list' = list
        BY <2>2, <3>3, <4>1
           DEF Next, vars, Use, UseUnchecked, Idle, ClearMRUList, BeginSave, WriteEntry, Load
      <4> QED  BY <3>1, <3>3, <4>2 DEF FInv
    <3> QED  BY <3>2, <3>3
  <2> QED  BY <2>1, <2>2
<1>3. Reading'
  <2>1. CASE Load
    <3>1. UNCHANGED ini
      BY <2>1 DEF Load
    <3>2. PICK k \in 1 .. MaxItems :
            /\ Ends(k)
            /\ Len(todo') + Len(list') <= k
            /\ \A i \in 1 .. Len(todo') : todo'[i] = ini[i]
            /\ Covers(FilesOf(list'), Kept, Len(todo') + 1, k)
      BY <2>1, LoadReading
    <3>3. FilesOf(list)' = FilesOf(list') /\ Kept' = Kept /\ Ends(k)'
      BY <3>1, <3>2 DEF FilesOf, Kept, Ends, Readable
    <3>4. Covers(FilesOf(list)', Kept', Len(todo') + 1, k)
      BY ONLY <3>2, <3>3
    <3>5. Covers(FilesOf(list), Kept, Len(todo) + 1, k)'
      BY ONLY <3>4 DEF Covers
    <3> QED  BY <3>1, <3>2, <3>3, <3>5 DEF Reading
  <2>2. CASE Start
    BY <2>2, StartReading
  <2>3. CASE ~Load /\ ~Start
    <3>1. todo' = <<>> \/ UNCHANGED <<todo, list, ini>>
      <4>1. CASE WriteEntry
        <5>1. todo = <<>>
          BY <4>1 DEF WriteEntry, FInv, IInv, Saving
        <5> QED  BY <4>1, <5>1 DEF WriteEntry
      <4>2. CASE ~WriteEntry
        BY <2>3, <4>2
           DEF Next, vars, Use, UseUnchecked, Idle, ClearMRUList, BeginSave, Stop
      <4> QED  BY <4>1, <4>2
    <3> QED  BY <3>1, KeepsReading DEF FInv
  <2> QED  BY <2>1, <2>2, <2>3
<1> QED  BY <1>1, <1>2, <1>3 DEF FInv

-----------------------------------------------------------------------------
(* The steps of RecentFiles.                                               *)

LEMMA SameRemoveAt == \A s, d : RecentFiles!RemoveAt(s, d) = RemoveAt(s, d)
  BY DEF RecentFiles!RemoveAt, RemoveAt

LEMMA SameToSet == \A s : RecentFiles!ToSet(s) = ToSet(s)
  BY DEF RecentFiles!ToSet, ToSet

LEMMA FoldBlank == \A n \in Names : Fold[n] # Blank /\ n \in Text
  BY MruAssumption DEF Text

\* What Load and Start leave is what the places hold.
LEMMA CoversFound ==
  ASSUME FInv, NEW r \in Seq(Codes), NEW k \in 0 .. MaxItems, Ends(k), Covers(r, Kept, 1, k)
  PROVE  RecentFiles!Found(r)
<1> DEFINE s == [i \in 1 .. k |-> Kept[i]]
<1>1. MaxItems \in Nat /\ k \in Nat /\ ini \in [Place -> Text] /\ Len(r) \in Nat
      /\ DOMAIN r = 1 .. Len(r) /\ DOMAIN s = 1 .. k /\ \A i \in 1 .. k : s[i] = Kept[i]
  BY LenProperties, MruAssumption DEF FInv, IInv, TypeOK
<1>2. \A i \in Place : Kept[i] = Fold[ini[i]] /\ (Kept[i] = Blank <=> ini[i] = Blank)
  <2>1. \A i \in Place : ini[i] \in Text
    BY <1>1
  <2> QED  BY <2>1, MruAssumption DEF Kept
<1>3. \A i \in 1 .. k : Kept[i] # Blank
  BY <1>1, <1>2 DEF Ends, Readable, Place
<1>4. k < MaxItems => Kept[k + 1] = Blank
  BY <1>1, <1>2 DEF Ends, Place
<1> HIDE DEF s
<1>c. /\ \A i \in 1 .. Len(r) : \E a \in 1 .. k : Kept[a] = r[i]
      /\ \A a \in 1 .. k : \E i \in 1 .. Len(r) : r[i] = Kept[a]
  BY ONLY Covers(r, Kept, 1, k) DEF Covers
<1>o. \A i, j \in 1 .. Len(r) : i < j =>
        \E a \in 1 .. k : Kept[a] = r[i] /\ \A b \in 1 .. a : Kept[b] # r[j]
  BY ONLY Covers(r, Kept, 1, k) DEF Covers
<1>5. RecentFiles!Lists(r, s)
  <2>1. ToSet(r) = ToSet(s)
    <3>1. \A i \in DOMAIN r : \E a \in DOMAIN s : s[a] = r[i]
      BY <1>1, <1>c
    <3>2. \A a \in DOMAIN s : \E i \in DOMAIN r : r[i] = s[a]
      BY <1>1, <1>c
    <3>3. \A x : x \in ToSet(r) => x \in ToSet(s)
      BY <3>1 DEF ToSet
    <3>4. \A x : x \in ToSet(s) => x \in ToSet(r)
      BY <3>2 DEF ToSet
    <3> QED  BY <3>3, <3>4
  <2>2. ASSUME NEW i \in DOMAIN r, NEW j \in DOMAIN r, i < j
        PROVE  \E a \in DOMAIN s : s[a] = r[i] /\ \A b \in 1 .. a : s[b] # r[j]
    <3>1. PICK a \in 1 .. k : Kept[a] = r[i] /\ \A b \in 1 .. a : Kept[b] # r[j]
      BY <1>1, <1>o, <2>2
    <3>2. \A b \in 1 .. a : b \in 1 .. k
      BY <1>1
    <3> QED  BY <1>1, <3>1, <3>2
  <2> QED  BY <2>1, <2>2, SameToSet DEF RecentFiles!Lists
<1>6. s = [i \in 1 .. k |-> [j \in Place |-> Fold[ini[j]]][i]]
  BY DEF s, Kept
<1> QED  BY <1>3, <1>4, <1>5, <1>6 DEF RecentFiles!Found, Kept

LEMMA StepUse ==
  ASSUME FInv, Added \subseteq Names, NEW n \in Added, Use(n)
  PROVE  [RecentFiles!Next]_(RecentFiles!vars)
<1>1. /\ up /\ todo = <<>> /\ up' = up /\ todo' = todo /\ ini' = ini /\ n \in Names
      /\ list \in Seq(Entry) /\ list' \in Seq(Entry) /\ AddMRUItem(n) /\ MaxItems \in Nat
  BY UseIInv, MruAssumption DEF Use, Idle, FInv, IInv, TypeOK
<1> DEFINE r == FilesOf(list)
           q == FilesOf(list')
<1>2. Moved(Fold[n], r, q) \/ Entered(Fold[n], r, q)
  BY <1>1, AddedFiles DEF FInv
<1>3. /\ r \in Seq(Codes) /\ DOMAIN r = 1 .. Len(r) /\ Len(r) \in Nat
      /\ Fold[n] \in Codes
  BY <1>1, FilesFacts, FoldBlank DEF Codes
<1>4. r = FilesOf(list) /\ q = FilesOf(list)'
  BY DEF FilesOf
<1> HIDE DEF r, q
<1>5. \/ \E d \in DOMAIN r : r[d] = Fold[n] /\ q = <<Fold[n]>> \o RecentFiles!RemoveAt(r, d)
      \/ Fold[n] \notin RecentFiles!ToSet(r) /\ q = RecentFiles!Shorten(<<Fold[n]>> \o r)
  <2>1. CASE Moved(Fold[n], r, q)
    BY <1>3, <2>1, SameRemoveAt DEF Moved
  <2>2. CASE Entered(Fold[n], r, q)
    <3>1. Fold[n] \notin ToSet(r)
      BY <1>3, <2>2 DEF Entered, ToSet
    <3>2. Len(<<Fold[n]>> \o r) = Len(r) + 1
      BY <1>3, OnFront
    <3>3. (IF Len(r) < MaxItems THEN Len(r) + 1 ELSE MaxItems)
          = (IF Len(r) + 1 < MaxItems THEN Len(r) + 1 ELSE MaxItems)
      BY <1>1, <1>3
    <3>4. q = RecentFiles!Shorten(<<Fold[n]>> \o r)
      BY <2>2, <3>2, <3>3 DEF Entered, RecentFiles!Shorten
    <3> QED  BY <3>1, <3>4, SameToSet
  <2> QED  BY <1>2, <2>1, <2>2
<1>6. RecentFiles!Use(Fold[n])
  BY <1>1, <1>4, <1>5 DEF RecentFiles!Use, FilesOf
<1>7. Fold[n] \in {Fold[t] : t \in Names}
  BY <1>1
<1> QED  BY <1>6, <1>7 DEF RecentFiles!Next

LEMMA StepClear ==
  ASSUME FInv, ClearMRUList
  PROVE  [RecentFiles!Next]_(RecentFiles!vars)
<1>1. up /\ up' = up /\ todo = <<>> /\ todo' = todo /\ ini' = ini /\ list' = <<>>
  BY DEF ClearMRUList, Idle
<1>2. FilesOf(<<>>) = <<>>
  BY DEF FilesOf
<1>3. RecentFiles!Forget
  BY <1>1, <1>2 DEF RecentFiles!Forget, FilesOf
<1> QED  BY <1>3 DEF RecentFiles!Next

LEMMA StepWrite ==
  ASSUME FInv, WriteEntry
  PROVE  [RecentFiles!Next]_(RecentFiles!vars)
<1>1. /\ up /\ up' = up /\ todo = <<>> /\ todo' = todo /\ list' = list /\ at \in Place
      /\ ini' = [ini EXCEPT ![at] = Saved(at)] /\ list \in Seq(Entry) /\ DOMAIN ini = Place
  BY DEF WriteEntry, FInv, IInv, TypeOK, Saving, Place
<1>2. PICK p \in 1 .. MaxItems : p = at
  BY <1>1 DEF Place
<1>3. /\ Len(FilesOf(list)) = Len(list) /\ Len(list) \in Nat
      /\ \A i \in 1 .. Len(list) : FilesOf(list)[i] = Fold[list[i].name]
  BY <1>1, FilesFacts
<1>4. Fold[Blank] = Blank
  BY MruAssumption DEF Text
<1>5. Fold[Saved(p)] = IF p <= Len(FilesOf(list)) THEN FilesOf(list)[p] ELSE Blank
  BY <1>3, <1>4 DEF Saved
<1>6. Kept' = [Kept EXCEPT ![p] = Fold[Saved(p)]]
  BY <1>1, <1>2 DEF Kept
<1>7. Kept' = [Kept EXCEPT ![p] = IF p <= Len(FilesOf(list)) THEN FilesOf(list)[p] ELSE Blank]
  BY <1>5, <1>6
<1>8. FilesOf(list)' = FilesOf(list)
  BY <1>1 DEF FilesOf
<1>9. RecentFiles!Keep(p)
  BY <1>1, <1>7, <1>8 DEF RecentFiles!Keep, Kept, FilesOf
<1> QED  BY <1>9 DEF RecentFiles!Next

LEMMA StepStart ==
  ASSUME FInv, Start
  PROVE  [RecentFiles!Next]_(RecentFiles!vars)
<1>1. /\ ~up /\ up' = TRUE /\ ini' = ini /\ list' = <<>> /\ list = <<>>
      /\ FilesOf(<<>>) = <<>> /\ MaxItems \in Nat
  BY MruAssumption DEF Start, FInv, FilesOf
<1>2. PICK k \in 0 .. MaxItems :
        Ends(k) /\ todo' = [i \in 1 .. k |-> ini[i]]
  BY DEF Start, Ends
<1>3. CASE todo' # <<>>
  <2>1. RecentFiles!Start
    BY <1>1, <1>3 DEF RecentFiles!Start, FilesOf
  <2> QED  BY <2>1 DEF RecentFiles!Next
<1>4. CASE todo' = <<>>
  <2>1. k = 0
    <3>1. DOMAIN todo' = 1 .. k /\ DOMAIN <<>> = 1 .. 0
      BY <1>2
    <3> QED  BY <1>1, <1>4, <3>1
  <2>2. <<>> \in Seq(Codes) /\ Len(<<>>) = 0
    OBVIOUS
  <2>3. Covers(<<>>, Kept, 1, k)
    BY <2>1, <2>2 DEF Covers
  <2>4. RecentFiles!Found(<<>>)
    BY <1>2, <2>2, <2>3, CoversFound
  <2>5. RecentFiles!Ready
    BY <1>1, <1>4, <2>4 DEF RecentFiles!Ready, FilesOf
  <2> QED  BY <2>5 DEF RecentFiles!Next
<1> QED  BY <1>3, <1>4

LEMMA StepLoad ==
  ASSUME FInv, Load
  PROVE  [RecentFiles!Next]_(RecentFiles!vars)
<1>1. /\ up /\ up' = up /\ ini' = ini /\ todo # <<>> /\ list' \in Seq(Entry)
      /\ MaxItems \in Nat
  BY LoadIInv, MruAssumption DEF Load, FInv, IInv, TypeOK
<1>2. CASE todo' # <<>>
  BY <1>1, <1>2 DEF RecentFiles!vars
<1>3. CASE todo' = <<>>
  <2>1. PICK k \in 1 .. MaxItems :
          /\ Ends(k)
          /\ Covers(FilesOf(list'), Kept, Len(todo') + 1, k)
    BY LoadReading
  <2>2. Len(todo') + 1 = 1
    BY <1>3
  <2>3. k \in 0 .. MaxItems /\ Covers(FilesOf(list'), Kept, 1, k)
    BY <1>1, <2>1, <2>2
  <2>4. RecentFiles!Found(FilesOf(list'))
    BY <1>1, <2>1, <2>3, FilesFacts, CoversFound
  <2>5. RecentFiles!Ready
    BY <1>1, <1>3, <2>4 DEF RecentFiles!Ready, FilesOf
  <2> QED  BY <2>5 DEF RecentFiles!Next
<1> QED  BY <1>2, <1>3

LEMMA StepStop ==
  ASSUME FInv, Stop
  PROVE  [RecentFiles!Next]_(RecentFiles!vars)
<1>1. up /\ up' = FALSE /\ list' = <<>> /\ todo' = <<>> /\ ini' = ini
  BY DEF Stop
<1>2. FilesOf(<<>>) = <<>>
  BY DEF FilesOf
<1>3. RecentFiles!Stop
  BY <1>1, <1>2 DEF RecentFiles!Stop, FilesOf
<1> QED  BY <1>3 DEF RecentFiles!Next

LEMMA StepRest ==
  ASSUME BeginSave \/ UNCHANGED vars
  PROVE  [RecentFiles!Next]_(RecentFiles!vars)
<1>1. up' = up /\ list' = list /\ todo' = todo /\ ini' = ini
  BY DEF BeginSave, vars
<1> QED  BY <1>1 DEF RecentFiles!vars

LEMMA InitRecent == Init => RecentFiles!Init
<1> SUFFICES ASSUME Init PROVE RecentFiles!Init
  OBVIOUS
<1>1. up = FALSE /\ list = <<>> /\ todo = <<>> /\ ini \in [Place -> Text]
  BY DEF Init
<1>2. FilesOf(<<>>) = <<>>
  BY DEF FilesOf
<1>3. \A t \in Text : Fold[t] \in {Fold[n] : n \in Names} \cup {Blank}
  <2>1. Fold[Blank] = Blank
    BY MruAssumption DEF Text
  <2> QED  BY <2>1 DEF Text
<1>4. Kept \in [1 .. MaxItems -> {Fold[n] : n \in Names} \cup {Blank}]
  BY <1>1, <1>3 DEF Kept, Place
<1> QED  BY <1>1, <1>2, <1>4 DEF RecentFiles!Init, Kept, FilesOf

\* Where the program adds its files with AddMRUItem only, and no blank name,
\* the list, its menu and the INI file are a bounded move-to-front list, for
\* any number of files and places: a restart finds what the places hold, in
\* their order and each file once, also after a save that was cut off.
THEOREM MruImplementsRecentFiles ==
  ASSUME Added \subseteq Names
  PROVE  Spec => ImplementsRecentFiles
<1>1. Init => FInv /\ RecentFiles!Init
  BY InitFInv, InitRecent
<1>2. FInv /\ [Next]_vars => FInv'
  BY NextFInv
<1>3. FInv /\ [Next]_vars => [looks => RecentFiles!Next]_(RecentFiles!vars)
  <2> SUFFICES ASSUME FInv, [Next]_vars, looks PROVE [RecentFiles!Next]_(RecentFiles!vars)
    OBVIOUS
  <2>1. CASE \E n \in Added : Use(n)
    BY <2>1, StepUse
  <2>2. CASE ClearMRUList
    BY <2>2, StepClear
  <2>3. CASE WriteEntry
    BY <2>3, StepWrite
  <2>4. CASE Start
    BY <2>4, StepStart
  <2>5. CASE Load
    BY <2>5, StepLoad
  <2>6. CASE Stop
    BY <2>6, StepStop
  <2>7. CASE BeginSave \/ UNCHANGED vars
    BY <2>7, StepRest
  <2>8. ~\E n \in Unchecked : UseUnchecked(n)
    BY DEF UseUnchecked
  <2> QED  BY <2>1, <2>2, <2>3, <2>4, <2>5, <2>6, <2>7, <2>8 DEF Next
<1> QED  BY <1>1, <1>2, <1>3, PTL DEF Spec, ImplementsRecentFiles

=============================================================================
