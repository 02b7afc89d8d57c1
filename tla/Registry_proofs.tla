---------------------------- MODULE Registry_proofs ----------------------------
(***************************************************************************)
(* Timers and hotkeys for any windows, keys, ids and numbers of controls.  *)
(* The strengthening says which slots are in use: an erased one is empty,  *)
(* no two others share an id or are the same control (Distinct); and what  *)
(* Win32 and the messages know of a control is what its slot says (Backed, *)
(* Mailed).                                                                *)
(***************************************************************************)
EXTENDS Registry, SequenceTheorems, WellFoundedInduction, TLAPS

Used(c) == c.type # ""

Slotted ==
  \A i \in Slots : IF Used(ctl[i])
                   THEN /\ ctl[i].id \in IdSet /\ ctl[i].who \in 1..count /\ ctl[i].win \in alive
                        /\ ctl[i].type = "HOTKEY" => ctl[i].key \in Keys
                        /\ ctl[i].type = "TIMER" => ctl[i].value \in Intervals
                   ELSE ctl[i] = Free

Distinct ==
  \A i, j \in Slots : /\ Used(ctl[i]) /\ Used(ctl[j])
                      /\ ctl[i].id = ctl[j].id \/ ctl[i].who = ctl[j].who
                      => i = j

Backed == \A r \in reg : \E i \in Slots : ctl[i].type = "HOTKEY" /\ r = Hotkey(ctl[i])

Mailed ==
  \A m \in queue : /\ m.who \in 0..count
                   /\ \A i \in Slots : Used(ctl[i]) /\ ctl[i].who = m.who => ctl[i].id = m.id

RegistryInv == TypeOK /\ Slotted /\ Distinct /\ Backed /\ Mailed
        /\ EnabledTicks /\ KeysOfFocus /\ KeysReachable

-------------------------------------------------------------------------------
LEMMA LessWellFounded == IsWellFoundedOn({p \in Nat \X Nat : p[1] < p[2]}, Nat)
BY NatLessThanWellFounded DEF OpToRel

LEMMA MinExists ==
  ASSUME NEW S \in SUBSET Nat, S # {}
  PROVE  Min(S) \in S
<1> DEFINE R == {p \in Nat \X Nat : p[1] < p[2]}
<1>1. PICK x \in S : \A y \in S : ~(<<y, x>> \in R)
  <2>1. IsWellFoundedOn(R, Nat)
    BY LessWellFounded
  <2> HIDE DEF R
  <2> QED  BY <2>1, WFMin
<1>2. ASSUME NEW y \in S  PROVE x <= y
  <2>1. <<y, x>> \in R <=> y < x
    OBVIOUS
  <2> QED  BY <1>1, <2>1
<1> QED  BY <1>2 DEF Min

\* _GetControlFree gives an erased slot or a new one.
LEMMA PutShape ==
  ASSUME NEW s \in Seq(Control), NEW c \in Control
  PROVE  /\ Put(c, s) \in Seq(Control)
         /\ \E k \in DOMAIN Put(c, s) :
              /\ Put(c, s)[k] = c
              /\ DOMAIN Put(c, s) = DOMAIN s \cup {k}
              /\ k \in DOMAIN s => s[k].type = ""
              /\ \A i \in DOMAIN s \ {k} : Put(c, s)[i] = s[i]
<1> DEFINE gone == {i \in DOMAIN s : s[i].type = ""}
<1>0. DOMAIN s = 1..Len(s) /\ Len(s) \in Nat
  OBVIOUS
<1>1. CASE gone = {}
  <2>1. Put(c, s) = Append(s, c)
    BY <1>1 DEF Put
  <2> HIDE DEF gone
  <2>2. /\ Append(s, c) \in Seq(Control) /\ DOMAIN Append(s, c) = 1..(Len(s) + 1)
        /\ Append(s, c)[Len(s) + 1] = c /\ \A i \in 1..Len(s) : Append(s, c)[i] = s[i]
    BY AppendProperties
  <2>3. DOMAIN Append(s, c) = DOMAIN s \cup {Len(s) + 1} /\ Len(s) + 1 \notin DOMAIN s
    BY <1>0, <2>2
  <2> QED  BY <1>0, <2>1, <2>2, <2>3
<1>2. CASE gone # {}
  <2>1. Min(gone) \in gone
    <3>1. gone \in SUBSET Nat
      <4>1. gone \subseteq DOMAIN s
        OBVIOUS
      <4> HIDE DEF gone
      <4> QED  BY <1>0, <4>1
    <3> HIDE DEF gone
    <3> QED  BY <1>2, <3>1, MinExists
  <2>2. Put(c, s) = [s EXCEPT ![Min(gone)] = c]
    BY <1>2 DEF Put
  <2>3. Min(gone) \in DOMAIN s /\ s[Min(gone)].type = ""
    BY <2>1
  <2> DEFINE k == Min(gone)
             t == [s EXCEPT ![k] = c]
  <2> HIDE DEF gone, k
  <2>4. k \in DOMAIN s /\ s[k].type = "" /\ Put(c, s) = t
    BY <2>2, <2>3 DEF k
  <2> DEFINE C == Control
  <2>5. s \in Seq(C) /\ c \in C
    OBVIOUS
  <2> HIDE DEF C
  <2>6. t \in Seq(C) /\ DOMAIN t = DOMAIN s /\ t[k] = c /\ \A i \in DOMAIN s \ {k} : t[i] = s[i]
    <3>1. k \in 1..Len(s) /\ Len(s) \in Nat
      BY <1>0, <2>4
    <3>2. t \in Seq(C) /\ Len(t) = Len(s) /\ t[k] = c /\ \A i \in 1..Len(s) : i # k => t[i] = s[i]
      BY <2>5, <3>1
    <3> QED  BY <1>0, <3>2
  <2> HIDE DEF t
  <2> QED  BY <2>4, <2>6 DEF C
<1> QED  BY <1>1, <1>2

LEMMA Sequence == ASSUME NEW C, NEW n \in Nat, NEW t \in [1..n -> C] PROVE t \in Seq(C)
BY SeqDef, Zenon

LEMMA FreeType == ASSUME RegistryBounds PROVE Free \in Control
BY DEF Free, Control, None, RegistryBounds

\* The slot found by a number is the one that has it.
LEMMA ScanFinds ==
  ASSUME RegistryBounds, TypeOK, Slotted, Distinct, NEW i \in Slots, Used(ctl[i])
  PROVE  Scan(ctl[i].id) = i
<1>1. ctl[i].id \in IdSet /\ ctl[i].id # 0
  BY DEF Slotted, RegistryBounds
<1>2. ASSUME NEW j \in Slots, ctl[j].id = ctl[i].id  PROVE j = i
  <2>1. Used(ctl[j])
    <3>1. Free.id = 0
      BY DEF Free
    <3> QED  BY <1>1, <1>2, <3>1 DEF Slotted
  <2> QED  BY <1>2, <2>1 DEF Distinct
<1>3. {j \in Slots : ctl[j].id = ctl[i].id} = {i}
  BY <1>2
<1>4. Min({i}) = i
  BY DEF Min, Slots, TypeOK
<1> QED  BY <1>3, <1>4 DEF Scan

-------------------------------------------------------------------------------
(* Steps that leave only controls that were there: c is d, or d changed in *)
(* what is the timer's own, or erased.                                     *)

Like(c, d) == /\ Used(d) /\ c.type = d.type /\ c.win = d.win /\ c.id = d.id /\ c.key = d.key
              /\ c.who = d.who /\ (c.type = "TIMER" => c.value \in Intervals)
Near(c, d) == c = Free \/ c = d \/ Like(c, d)

LEMMA FreeUnused == ~Used(Free) /\ Free.who = 0 /\ Free.type = ""
BY DEF Used, Free

LEMMA ShrinkInv ==
  ASSUME Slotted, Distinct, Mailed, DOMAIN ctl' \subseteq Slots,
         \A i \in DOMAIN ctl' : Near(ctl'[i], ctl[i]),
         \A i \in DOMAIN ctl' : Used(ctl'[i]) => ctl'[i].win \in alive',
         count' = count, queue' \subseteq queue
  PROVE  Slotted' /\ Distinct' /\ Mailed'
<1>1. ASSUME NEW i \in DOMAIN ctl', Used(ctl'[i])
      PROVE  /\ i \in Slots /\ Used(ctl[i]) /\ ctl'[i].id = ctl[i].id /\ ctl'[i].who = ctl[i].who
             /\ ctl'[i].type = ctl[i].type /\ ctl'[i].key = ctl[i].key
             /\ ctl'[i].type = "TIMER" => ctl'[i].value \in Intervals
  BY <1>1, FreeUnused DEF Near, Like, Slotted, Used
<1>2. Slotted'
  <2>1. ASSUME NEW i \in DOMAIN ctl', ~Used(ctl'[i])  PROVE ctl'[i] = Free
    BY <2>1 DEF Near, Like, Slotted, Used
  <2>2. ASSUME NEW i \in DOMAIN ctl', Used(ctl'[i])
        PROVE  /\ ctl'[i].id \in IdSet /\ ctl'[i].who \in 1..count' /\ ctl'[i].win \in alive'
               /\ ctl'[i].type = "HOTKEY" => ctl'[i].key \in Keys
               /\ ctl'[i].type = "TIMER" => ctl'[i].value \in Intervals
    BY <1>1, <2>2 DEF Slotted
  <2> QED  BY <2>1, <2>2 DEF Slotted, Slots
<1>3. Distinct'
  BY <1>1 DEF Distinct, Slots
<1>4. Mailed'
  BY <1>1 DEF Mailed, Slots
<1> QED  BY <1>2, <1>3, <1>4

\* The hotkeys are the same ones in the same slots.
LEMMA SameHotkeys ==
  ASSUME Backed, KeysOfFocus, KeysReachable,
         \A i \in Slots : ctl[i].type = "HOTKEY" => i \in DOMAIN ctl' /\ ctl'[i] = ctl[i],
         \A i \in DOMAIN ctl' : ctl'[i].type = "HOTKEY" => i \in Slots /\ ctl'[i] = ctl[i],
         UNCHANGED <<reg, focus, global, strays, denied>>
  PROVE  Backed' /\ KeysOfFocus' /\ KeysReachable'
<1>1. Backed'
  BY DEF Backed, Slots, Hotkey
<1>2. KeysOfFocus'
  BY DEF KeysOfFocus
<1>3. HotkeysOf({focus})' = HotkeysOf({focus})
  BY DEF HotkeysOf, Slots
<1>4. KeysReachable'
  BY <1>3 DEF KeysReachable, Hotkey, None
<1> QED  BY <1>1, <1>2, <1>4

\* The timers are the same ones in the same slots, and so are those of Win32.
LEMMA SameTimers ==
  ASSUME EnabledTicks, armed' = armed,
         \A i \in DOMAIN ctl' : ctl'[i].type = "TIMER" => i \in Slots /\ ctl'[i] = ctl[i]
  PROVE  EnabledTicks'
BY DEF EnabledTicks, Slots, Timer

\* A control is edited in its slot: it is a timer, Win32 is told.
LEMMA TimerEdit ==
  ASSUME RegistryBounds, RegistryInv, NEW i \in Slots, ctl[i].type = "TIMER",
         NEW v \in Control, Like(v, ctl[i]), ctl' = [ctl EXCEPT ![i] = v],
         \/ v.enabled /\ armed' = Killed(ctl[i]) \cup {Timer(v)}
         \/ ~v.enabled /\ armed' = Killed(ctl[i])
         \/ ~v.enabled /\ ~ctl[i].enabled /\ armed' = armed,
         queue' \subseteq queue, UNCHANGED <<reg, focus, alive, global, count, strays, denied>>
  PROVE  RegistryInv'
<1> USE DEF RegistryInv
<1>1. ctl \in Seq(Control) /\ DOMAIN ctl = 1..Len(ctl) /\ i \in 1..Len(ctl)
  BY DEF TypeOK, Slots
<1>2. /\ ctl' \in Seq(Control) /\ DOMAIN ctl' = DOMAIN ctl /\ ctl'[i] = v
      /\ \A j \in Slots : j # i => ctl'[j] = ctl[j]
  <2> DEFINE C == Control
  <2>1. ctl \in Seq(C) /\ v \in C
    BY <1>1
  <2> HIDE DEF C
  <2>2. ctl' \in Seq(C)
    BY <1>1, <2>1
  <2> QED  BY <1>1, <2>2 DEF C, Slots
<1>3. v.type = "TIMER" /\ v.win = ctl[i].win /\ v.id = ctl[i].id /\ v.value \in Intervals
  BY DEF Like
<1>4. Slotted' /\ Distinct' /\ Mailed'
  <2>1. \A j \in DOMAIN ctl' : Near(ctl'[j], ctl[j])
    BY <1>2 DEF Near, Slots
  <2>2. \A j \in DOMAIN ctl' : Used(ctl'[j]) => ctl'[j].win \in alive'
    BY <1>2, <1>3 DEF Slotted, Slots, Like
  <2> QED  BY <1>2, <2>1, <2>2, ShrinkInv DEF Slots
<1>5. Backed' /\ KeysOfFocus' /\ KeysReachable'
  BY <1>2, <1>3, SameHotkeys DEF Slots
<1>6. \A t \in armed' : t.win \in alive' /\ t.id \in IdSet /\ t.every \in Intervals
  <2>1. Timer(v).win \in alive /\ Timer(v).id \in IdSet /\ Timer(v).every \in Intervals
    BY <1>3 DEF Timer, Slotted, Used
  <2> QED  BY <2>1 DEF TypeOK, Killed
<1>7. TypeOK'
  <2>1. queue' \subseteq Message
    BY DEF TypeOK
  <2>2. \A j \in Slots' : ctl'[j].win \in alive' \cup {None}
    BY <1>2, <1>3 DEF TypeOK, Slots, Slotted, Used
  <2> QED  BY <1>2, <1>6, <2>1, <2>2 DEF TypeOK
<1>8. EnabledTicks'
  <2>1. CASE armed' = armed /\ ~v.enabled /\ ~ctl[i].enabled
    <3>1. \A t \in armed' : <<t.win, t.id>> # <<v.win, v.id>>
      BY <1>3, <2>1 DEF EnabledTicks
    <3>2. ASSUME NEW j \in Slots, ctl'[j].type = "TIMER"
          PROVE  IF ctl'[j].enabled THEN Timer(ctl'[j]) \in armed'
                 ELSE \A t \in armed' : <<t.win, t.id>> # <<ctl'[j].win, ctl'[j].id>>
      <4>1. CASE j = i
        BY <1>2, <2>1, <3>1, <4>1
      <4>2. CASE j # i
        BY <1>2, <2>1, <3>2, <4>2 DEF EnabledTicks
      <4> QED  BY <4>1, <4>2
    <3> QED  BY <1>2, <3>2 DEF EnabledTicks, Slots, Timer
  <2>2. CASE armed' = (IF v.enabled THEN Killed(ctl[i]) \cup {Timer(v)} ELSE Killed(ctl[i]))
    <3>1. \A j \in Slots : j # i /\ ctl[j].type = "TIMER" => ctl[j].id # ctl[i].id
      BY DEF Distinct, Used
    <3>2. Timer(v).win = ctl[i].win /\ Timer(v).id = ctl[i].id
      BY <1>3 DEF Timer
    <3>3. \A j \in Slots : j # i /\ ctl[j].type = "TIMER" /\ ctl[j].enabled => Timer(ctl[j]) \in armed'
      BY <2>2, <3>1 DEF EnabledTicks, Killed, Timer
    <3>4. \A j \in Slots : j # i /\ ctl[j].type = "TIMER" /\ ~ctl[j].enabled
            => \A t \in armed' : <<t.win, t.id>> # <<ctl[j].win, ctl[j].id>>
      BY <2>2, <3>1, <3>2 DEF EnabledTicks, Killed
    <3>5. IF v.enabled THEN Timer(v) \in armed' ELSE \A t \in armed' : <<t.win, t.id>> # <<v.win, v.id>>
      BY <1>3, <2>2 DEF Killed
    <3> QED  BY <1>2, <3>3, <3>4, <3>5 DEF EnabledTicks, Slots, Timer
  <2> QED  BY <2>1, <2>2
<1> QED  BY <1>4, <1>5, <1>7, <1>8

-------------------------------------------------------------------------------
(* The timers.                                                             *)

LEMMA RegistryInit == ASSUME RegistryBounds, Init PROVE RegistryInv
<1>1. ctl = <<>> /\ armed = {} /\ reg = {} /\ queue = {} /\ focus = None /\ alive = Windows
      /\ count = 0 /\ strays = {} /\ denied = {}
  BY DEF Init
<1>2. global \in BOOLEAN
  BY DEF Init
<1>3. TypeOK
  BY <1>1, <1>2 DEF TypeOK, RegistryBounds, Slots
<1>4. Slotted /\ Distinct /\ EnabledTicks
  BY <1>1 DEF Slotted, Distinct, EnabledTicks, Slots
<1>5. Backed /\ Mailed /\ KeysOfFocus /\ KeysReachable
  BY <1>1 DEF Backed, Mailed, KeysOfFocus, KeysReachable
<1> QED  BY <1>3, <1>4, <1>5 DEF RegistryInv

\* A timer with a field of its own changed.
LEMMA Edited ==
  ASSUME RegistryBounds, NEW c \in Control, c.type = "TIMER", c.value \in Intervals, NEW e \in BOOLEAN, NEW n \in Intervals
  PROVE  /\ [c EXCEPT !.enabled = e] \in Control /\ [c EXCEPT !.value = n] \in Control
         /\ Like([c EXCEPT !.enabled = e], c) /\ Like([c EXCEPT !.value = n], c)
         /\ [c EXCEPT !.enabled = e].enabled = e /\ [c EXCEPT !.value = n].enabled = c.enabled
         /\ Timer([c EXCEPT !.enabled = e]) = Timer(c)
BY DEF Control, Like, Used, Timer

LEMMA TimerType ==
  ASSUME RegistryInv, NEW i \in Slots, ctl[i].type = "TIMER"
  PROVE  ctl[i] \in Control /\ ctl[i].value \in Intervals /\ ctl[i].enabled \in BOOLEAN
<1>1. ctl[i] \in Control
  BY DEF RegistryInv, TypeOK, Slots
<1>2. ctl[i].value \in Intervals
  BY DEF RegistryInv, Slotted, Used
<1>3. \A c \in Control : c.enabled \in BOOLEAN
  BY DEF Control
<1> QED  BY <1>1, <1>2, <1>3

LEMMA EnableTimerInv == ASSUME RegistryBounds, RegistryInv, NEW i \in Slots, EnableTimer(i) PROVE RegistryInv'
<1> DEFINE c == ctl[i]
           v == [c EXCEPT !.enabled = TRUE]
<1>1. ctl' = [ctl EXCEPT ![i] = v]
  BY DEF EnableTimer
<1>2. c \in Control /\ c.type = "TIMER" /\ c.value \in Intervals
  BY TimerType DEF EnableTimer
<1>3. v \in Control /\ Like(v, c) /\ v.enabled = TRUE /\ Timer(v) = Timer(c)
  <2> HIDE DEF c
  <2> QED  BY <1>2, Edited
<1>4. armed' = Killed(c) \cup {Timer(v)}
  BY <1>3 DEF EnableTimer, Started
<1> HIDE DEF v
<1> QED  BY <1>1, <1>2, <1>3, <1>4, TimerEdit DEF EnableTimer

LEMMA Disabled ==
  ASSUME RegistryBounds, RegistryInv, NEW i \in Slots, ctl[i].type = "TIMER",
         ctl' = [ctl EXCEPT ![i].enabled = FALSE],
         armed' = (IF ctl[i].enabled THEN Killed(ctl[i]) ELSE armed),
         queue' \subseteq queue, UNCHANGED <<reg, focus, alive, global, count, strays, denied>>
  PROVE  RegistryInv'
<1> DEFINE c == ctl[i]
           v == [c EXCEPT !.enabled = FALSE]
<1>1. ctl' = [ctl EXCEPT ![i] = v]
  OBVIOUS
<1>2. c \in Control /\ c.type = "TIMER" /\ c.value \in Intervals
  BY TimerType
<1>3. v \in Control /\ Like(v, c) /\ v.enabled = FALSE
  <2> HIDE DEF c
  <2> QED  BY <1>2, Edited
<1> HIDE DEF v
<1> QED  BY <1>1, <1>3, TimerEdit

LEMMA DisableTimerInv == ASSUME RegistryBounds, RegistryInv, NEW i \in Slots, DisableTimer(i) PROVE RegistryInv'
BY Disabled DEF DisableTimer

LEMMA SetTimerInv ==
  ASSUME RegistryBounds, RegistryInv, NEW i \in Slots, NEW n \in Intervals, SetValue(i, n)  PROVE RegistryInv'
<1> DEFINE c == ctl[i]
           v == [c EXCEPT !.value = n]
<1>1. ctl' = [ctl EXCEPT ![i] = v]
  BY DEF SetValue
<1>2. c \in Control /\ c.type = "TIMER" /\ c.value \in Intervals
  BY TimerType DEF SetValue
<1>3. v \in Control /\ Like(v, c) /\ v.enabled = c.enabled
  <2> HIDE DEF c
  <2> QED  BY <1>2, Edited
<1>4. ctl'[i] = v
  BY <1>1 DEF Slots
<1> HIDE DEF v
<1>5. armed' = IF c.enabled THEN Killed(c) \cup {Timer(v)} ELSE armed
  BY <1>4 DEF SetValue
<1> QED  BY <1>1, <1>2, <1>3, <1>5, TimerEdit DEF SetValue

-------------------------------------------------------------------------------
(* Controls defined and erased.                                            *)

\* A control c is defined in the slots s, which are those of ctl, some erased.
Defines(c, s) ==
  /\ DOMAIN s = Slots /\ \A i \in Slots : s[i] = Free \/ s[i] = ctl[i]
  /\ Used(c) /\ c.id \in IdSet /\ c.id \in GetId(s) /\ c.who = New /\ c.win \in alive
  /\ c.type = "HOTKEY" => c.key \in Keys
  /\ c.type = "TIMER" => c.value \in Intervals
  /\ count < MaxControls /\ count' = New /\ ctl' = Put(c, s) /\ alive' = alive /\ queue' = queue

\* It is in slot k then.
Placed(c, s, k) ==
  /\ k \in DOMAIN ctl' /\ ctl'[k] = c /\ DOMAIN ctl' = Slots \cup {k}
  /\ k \in Slots => ~Used(s[k])
  /\ \A i \in Slots \ {k} : ctl'[i] = s[i]

LEMMA PutInv ==
  ASSUME RegistryBounds, RegistryInv, NEW s \in Seq(Control), NEW c \in Control, Defines(c, s)
  PROVE  /\ ctl' \in Seq(Control) /\ Slotted' /\ Distinct' /\ Mailed'
         /\ \A i \in DOMAIN ctl' : ctl'[i].win \in alive' \cup {None}
         /\ count' \in 0..MaxControls
         /\ \E k : Placed(c, s, k)
<1> USE DEF Defines, Placed
<1>1. PICK k : Placed(c, s, k)
  <2>1. \E k \in DOMAIN Put(c, s) :
              /\ Put(c, s)[k] = c
              /\ DOMAIN Put(c, s) = DOMAIN s \cup {k}
              /\ k \in DOMAIN s => s[k].type = ""
              /\ \A i \in DOMAIN s \ {k} : Put(c, s)[i] = s[i]
    BY PutShape
  <2>2. \E k \in DOMAIN ctl' :
              /\ ctl'[k] = c
              /\ DOMAIN ctl' = Slots \cup {k}
              /\ k \in Slots => s[k].type = ""
              /\ \A i \in Slots \ {k} : ctl'[i] = s[i]
    BY <2>1, Zenon
  <2> QED  BY <2>2 DEF Used
<1>2. ctl' \in Seq(Control)
  BY PutShape
<1>3. count \in Nat /\ count' = count + 1 /\ count' \in 0..MaxControls
  BY DEF RegistryInv, TypeOK, RegistryBounds, New
<1>4. ASSUME NEW i \in DOMAIN ctl', i # k
      PROVE  /\ i \in Slots /\ (Used(ctl'[i]) => Used(ctl[i]) /\ ctl'[i] = ctl[i] /\ ctl[i].who \in 1..count)
             /\ ctl'[i].id # c.id /\ (~Used(ctl'[i]) => ctl'[i] = Free)
  <2>1. i \in Slots /\ ctl'[i] = s[i]
    BY <1>1, <1>4
  <2>2. s[i].id # c.id
    BY <2>1 DEF GetId
  <2> QED  BY <2>1, <2>2, FreeUnused DEF RegistryInv, Slotted
<1>5. Slotted'
  <2>1. ASSUME NEW i \in DOMAIN ctl', i # k, Used(ctl'[i])
        PROVE  /\ ctl'[i].id \in IdSet /\ ctl'[i].who \in 1..count' /\ ctl'[i].win \in alive'
               /\ ctl'[i].type = "HOTKEY" => ctl'[i].key \in Keys
               /\ ctl'[i].type = "TIMER" => ctl'[i].value \in Intervals
    BY <1>3, <1>4, <2>1 DEF RegistryInv, Slotted
  <2>2. c.who \in 1..count'
    BY <1>3 DEF New
  <2> QED  BY <1>1, <1>4, <2>1, <2>2 DEF Slotted, Slots
<1>6. Distinct'
  <2>1. ASSUME NEW i \in DOMAIN ctl', i # k, Used(ctl'[i])  PROVE ctl'[i].who # c.who /\ ctl'[i].id # c.id
    BY <1>3, <1>4, <2>1 DEF New
  <2>2. ASSUME NEW i \in DOMAIN ctl', NEW j \in DOMAIN ctl', i # k, j # k, Used(ctl'[i]), Used(ctl'[j]),
               ctl'[i].id = ctl'[j].id \/ ctl'[i].who = ctl'[j].who
        PROVE  i = j
    BY <1>4, <2>2 DEF RegistryInv, Distinct
  <2> QED  BY <1>1, <2>1, <2>2 DEF Distinct, Slots
<1>7. Mailed'
  <2>1. ASSUME NEW m \in queue  PROVE m.who \in 0..count' /\ m.who # c.who
    BY <1>3 DEF RegistryInv, Mailed, New
  <2> QED  BY <1>1, <1>4, <2>1 DEF RegistryInv, Mailed, Slots
<1>8. ASSUME NEW i \in DOMAIN ctl'  PROVE ctl'[i].win \in alive' \cup {None}
  <2>1. Free.win = None
    BY DEF Free
  <2> QED  BY <1>1, <1>4, <2>1 DEF RegistryInv, TypeOK
<1> QED  BY <1>1, <1>2, <1>3, <1>5, <1>6, <1>7, <1>8

LEMMA DefineTimerInv ==
  ASSUME RegistryBounds, RegistryInv, NEW w \in Windows, NEW id \in IdSet, NEW n \in Intervals, NEW once \in BOOLEAN,
         DefineTimer(w, id, n, once)
  PROVE  RegistryInv'
<1> DEFINE c == [Free EXCEPT !.type = "TIMER", !.win = w, !.id = id, !.value = n,
                             !.once = once, !.enabled = TRUE, !.who = New]
<1>1. ctl \in Seq(Control) /\ New \in 0..MaxControls /\ w \in alive /\ id \in GetId(ctl) /\ count < MaxControls
  BY DEF DefineTimer, RegistryInv, TypeOK, RegistryBounds, New
<1>2. /\ c \in Control /\ c.type = "TIMER" /\ c.win = w /\ c.id = id /\ c.value = n
      /\ c.enabled = TRUE /\ c.who = New
  BY <1>1 DEF Free, Control, None
<1>3. /\ ctl' = Put(c, ctl) /\ armed' = Killed(c) \cup {Timer(c)} /\ count' = New
      /\ UNCHANGED <<reg, queue, focus, alive, global, strays, denied>>
  BY DEF DefineTimer, Started
<1> HIDE DEF c
<1>4. Used(c) /\ DOMAIN ctl = Slots
  BY <1>2 DEF Used, Slots
<1>5. Defines(c, ctl)
  BY <1>1, <1>2, <1>3, <1>4 DEF Defines
<1>6. /\ ctl' \in Seq(Control) /\ Slotted' /\ Distinct' /\ Mailed'
      /\ \A i \in DOMAIN ctl' : ctl'[i].win \in alive' \cup {None}
      /\ count' \in 0..MaxControls
      /\ \E k : Placed(c, ctl, k)
  BY <1>1, <1>2, <1>5, PutInv
<1>7. PICK k \in DOMAIN ctl' :
           /\ ctl'[k] = c /\ DOMAIN ctl' = Slots \cup {k} /\ (k \in Slots => ~Used(ctl[k]))
           /\ \A i \in Slots \ {k} : ctl'[i] = ctl[i]
  BY <1>6 DEF Placed
<1>8. Backed' /\ KeysOfFocus' /\ KeysReachable'
  BY <1>2, <1>3, <1>7, SameHotkeys DEF RegistryInv, Used
<1>9. TypeOK'
  <2>1. \A t \in armed' : t.win \in alive' /\ t.id \in IdSet /\ t.every \in Intervals
    BY <1>1, <1>2, <1>3 DEF RegistryInv, TypeOK, Killed, Timer
  <2> QED  BY <1>3, <1>6, <2>1 DEF RegistryInv, TypeOK, Slots
<1>10. EnabledTicks'
  <2>1. Timer(c).win = w /\ Timer(c).id = id
    BY <1>2 DEF Timer
  <2>2. \A i \in Slots : ctl[i].id # id
    BY <1>1, <1>4 DEF GetId
  <2>3. ASSUME NEW i \in DOMAIN ctl', i # k, ctl'[i].type = "TIMER"
        PROVE  IF ctl'[i].enabled THEN Timer(ctl'[i]) \in armed'
               ELSE \A t \in armed' : <<t.win, t.id>> # <<ctl'[i].win, ctl'[i].id>>
    <3>1. i \in Slots /\ ctl'[i] = ctl[i] /\ ctl[i].id # id
      BY <1>7, <2>2, <2>3
    <3>2. CASE ctl[i].enabled
      <4>1. Timer(ctl[i]) \in armed /\ Timer(ctl[i]).id = ctl[i].id
        BY <2>3, <3>1, <3>2 DEF RegistryInv, EnabledTicks, Timer
      <4> QED  BY <1>2, <1>3, <3>1, <3>2, <4>1 DEF Killed
    <3>3. CASE ~ctl[i].enabled
      <4>1. \A t \in armed : <<t.win, t.id>> # <<ctl[i].win, ctl[i].id>>
        BY <2>3, <3>1, <3>3 DEF RegistryInv, EnabledTicks
      <4> QED  BY <1>3, <2>1, <3>1, <3>3, <4>1 DEF Killed
    <3> QED  BY <3>2, <3>3
  <2> QED  BY <1>2, <1>3, <1>7, <2>3 DEF EnabledTicks, Slots, Timer
<1> QED  BY <1>6, <1>8, <1>9, <1>10 DEF RegistryInv

\* The hotkeys that stay when the controls in the slots E are taken out.
Stay(E) == {i \in Slots \ E : ctl[i].type = "HOTKEY"}

LEMMA StayingHotkeys ==
  ASSUME RegistryInv, NEW E \in SUBSET Slots, NEW r \in Without(reg, {ctl[i] : i \in E})
  PROVE  /\ r \in reg /\ \E i \in Stay(E) : r = Hotkey(ctl[i])
<1>1. r \in reg /\ \A i \in E : r.who # ctl[i].who
  BY DEF Without
<1>2. PICK i \in Slots : ctl[i].type = "HOTKEY" /\ r = Hotkey(ctl[i])
  BY <1>1 DEF RegistryInv, Backed
<1>3. r.who = ctl[i].who
  BY <1>2 DEF Hotkey
<1> QED  BY <1>1, <1>2, <1>3 DEF Stay

LEMMA StayingKeys ==
  ASSUME RegistryInv, NEW E \in SUBSET Slots, NEW i \in Stay(E), Hotkey(ctl[i]) \in reg
  PROVE  Hotkey(ctl[i]) \in Without(reg, {ctl[j] : j \in E})
<1>1. Hotkey(ctl[i]).who = ctl[i].who /\ Used(ctl[i]) /\ i \in Slots /\ i \notin E
  BY DEF Hotkey, Stay, Used
<1>2. ASSUME NEW j \in E, ctl[j].who = ctl[i].who  PROVE FALSE
  <2>1. CASE Used(ctl[j])
    BY <1>1, <1>2, <2>1 DEF RegistryInv, Distinct
  <2>2. CASE ~Used(ctl[j])
    <3>1. ctl[j].who = 0 /\ ctl[i].who \in 1..count
      BY <1>1, <2>2, FreeUnused DEF RegistryInv, Slotted
    <3> QED  BY <1>2, <3>1 DEF RegistryInv, TypeOK
  <2> QED  BY <2>1, <2>2
<1> QED  BY <1>1, <1>2 DEF Without

\* The controls in E are erased, their hotkeys released.
LEMMA EraseInv ==
  ASSUME RegistryBounds, RegistryInv, NEW E \in SUBSET Slots,
         ctl' \in Seq(Control), DOMAIN ctl' = Slots,
         \A i \in Slots : ctl'[i] = IF i \in E THEN Free ELSE ctl[i],
         \A i \in Slots : ctl'[i].win \in alive' \cup {None},
         reg' = Without(reg, {ctl[i] : i \in E}),
         strays' = Kept(strays), denied' = Kept(denied),
         armed' \subseteq armed, \A t \in armed \ armed' : t.win \notin alive',
         queue' \subseteq queue, alive' \subseteq alive, focus \in alive' \cup {None},
         \A r \in reg' : r.win \in alive', \A t \in armed' : t.win \in alive',
         UNCHANGED <<focus, global, count>>
  PROVE  RegistryInv'
<1>0. Free.win = None /\ Free.type = "" /\ ~Used(Free)
  BY DEF Free, Used
<1>1. Slotted' /\ Distinct' /\ Mailed'
  <2>1. \A i \in DOMAIN ctl' : Near(ctl'[i], ctl[i])
    BY DEF Near
  <2>2. \A i \in DOMAIN ctl' : Used(ctl'[i]) => ctl'[i].win \in alive'
    <3>1. ASSUME NEW i \in DOMAIN ctl', Used(ctl'[i])  PROVE ctl'[i].win \in alive
      BY <1>0, <3>1 DEF RegistryInv, Slotted
    <3>2. None \notin alive
      BY DEF RegistryBounds, None, RegistryInv, TypeOK
    <3> QED  BY <3>1, <3>2
  <2> QED  BY <2>1, <2>2, ShrinkInv DEF RegistryInv, Slots
<1>2. \A i \in Stay(E) : i \in DOMAIN ctl' /\ ctl'[i] = ctl[i] /\ ctl[i].type = "HOTKEY"
  BY DEF Stay
<1>3. Backed'
  BY <1>2, StayingHotkeys DEF Backed, Slots, Hotkey
<1>4. KeysOfFocus'
  <2>1. ASSUME NEW r \in reg'  PROVE r.who \in strays' \/ r.win = focus \/ global
    <3>1. PICK i \in Stay(E) : r = Hotkey(ctl[i]) /\ r \in reg
      BY StayingHotkeys
    <3>2. r.who = ctl'[i].who /\ i \in DOMAIN ctl'
      BY <1>2, <3>1 DEF Hotkey
    <3> QED  BY <3>1, <3>2 DEF RegistryInv, KeysOfFocus, Kept
  <2> QED  BY <2>1 DEF KeysOfFocus
<1>5. KeysReachable'
  <2>1. ASSUME NEW i \in DOMAIN ctl', ctl'[i].type = "HOTKEY", ctl'[i].win = focus, focus # None
        PROVE  Hotkey(ctl'[i]) \in reg' \/ ctl'[i].who \in denied'
    <3>1. i \in Stay(E) /\ ctl'[i] = ctl[i]
      BY <1>0, <2>1 DEF Stay
    <3>2. Hotkey(ctl[i]) \in reg \/ ctl[i].who \in denied
      BY <2>1, <3>1 DEF RegistryInv, KeysReachable, HotkeysOf, Stay
    <3>3. CASE Hotkey(ctl[i]) \in reg
      BY <3>1, <3>3, StayingKeys
    <3>4. CASE ctl[i].who \in denied
      BY <3>1, <3>4 DEF Kept, Stay
    <3> QED  BY <3>1, <3>2, <3>3, <3>4
  <2> QED  BY <2>1 DEF KeysReachable, HotkeysOf, Slots, Hotkey, None
<1>6. TypeOK'
  <2>1. reg' \subseteq reg /\ strays' \subseteq strays /\ denied' \subseteq denied
    BY DEF Without, Kept
  <2>2. queue' \subseteq Message /\ alive' \subseteq Windows
    BY DEF RegistryInv, TypeOK
  <2> QED  BY <2>1, <2>2 DEF RegistryInv, TypeOK, Slots
<1>7. EnabledTicks'
  <2>1. ASSUME NEW i \in DOMAIN ctl', ctl'[i].type = "TIMER"
        PROVE  IF ctl'[i].enabled THEN Timer(ctl'[i]) \in armed'
               ELSE \A t \in armed' : <<t.win, t.id>> # <<ctl'[i].win, ctl'[i].id>>
    <3>1. i \in Slots /\ ctl'[i] = ctl[i] /\ ctl[i].type = "TIMER"
      BY <1>0, <2>1
    <3>2. ctl[i].win \in alive'
      BY <1>1, <2>1, <3>1 DEF Slotted, Slots, Used
    <3>3. Timer(ctl[i]).win = ctl[i].win
      BY DEF Timer
    <3>4. IF ctl[i].enabled THEN Timer(ctl[i]) \in armed
          ELSE \A t \in armed : <<t.win, t.id>> # <<ctl[i].win, ctl[i].id>>
      BY <3>1 DEF RegistryInv, EnabledTicks
    <3> QED  BY <3>1, <3>2, <3>3, <3>4
  <2> QED  BY <2>1 DEF EnabledTicks, Slots, Timer
<1> QED  BY <1>1, <1>3, <1>4, <1>5, <1>6, <1>7 DEF RegistryInv

LEMMA EraseControlInv == ASSUME RegistryBounds, RegistryInv, NEW i \in Slots, EraseControl(i) PROVE RegistryInv'
<1>1. /\ ctl' = [ctl EXCEPT ![i] = Free] /\ reg' = Without(reg, {ctl[j] : j \in {i}})
      /\ strays' = Kept(strays) /\ denied' = Kept(denied)
      /\ UNCHANGED <<armed, queue, focus, alive, global, count>>
  BY DEF EraseControl
<1>2. ctl \in Seq(Control) /\ i \in 1..Len(ctl) /\ DOMAIN ctl = Slots
  BY DEF RegistryInv, TypeOK, Slots
<1>3. ctl' \in Seq(Control) /\ DOMAIN ctl' = Slots
  <2> DEFINE C == Control
             f == Free
  <2>1. ctl \in Seq(C) /\ f \in C /\ ctl' = [ctl EXCEPT ![i] = f]
    BY <1>1, <1>2, FreeType
  <2> HIDE DEF C, f
  <2>2. ctl \in [1..Len(ctl) -> C] /\ Len(ctl) \in Nat /\ DOMAIN ctl = 1..Len(ctl)
    BY <2>1
  <2>3. ctl' \in [1..Len(ctl) -> C] /\ DOMAIN ctl' = Slots
    BY <1>2, <2>1, <2>2
  <2> QED  BY <2>2, <2>3, Sequence DEF C
<1>4. \A j \in Slots : ctl'[j] = IF j \in {i} THEN Free ELSE ctl[j]
  BY <1>1, <1>2
<1>5. \A j \in Slots : ctl'[j].win \in alive' \cup {None}
  <2>1. Free.win = None /\ \A j \in Slots : ctl[j].win \in alive \cup {None}
    BY DEF RegistryInv, TypeOK, Free
  <2> QED  BY <1>1, <1>4, <2>1
<1>6. /\ \A r \in reg' : r.win \in alive'
      /\ \A t \in armed' : t.win \in alive'
      /\ focus \in alive' \cup {None}
      /\ armed' \subseteq armed /\ \A t \in armed \ armed' : t.win \notin alive'
      /\ queue' \subseteq queue /\ alive' \subseteq alive
  BY <1>1 DEF Without, RegistryInv, TypeOK
<1> DEFINE E == {i}
<1>7. /\ E \in SUBSET Slots /\ reg' = Without(reg, {ctl[j] : j \in E})
      /\ \A j \in Slots : ctl'[j] = IF j \in E THEN Free ELSE ctl[j]
  BY <1>1, <1>4
<1> HIDE DEF E
<1> QED  BY <1>1, <1>3, <1>5, <1>6, <1>7, EraseInv

LEMMA DestroyInv == ASSUME RegistryBounds, RegistryInv, NEW w \in Windows, Destroy(w) PROVE RegistryInv'
<1> DEFINE E == {i \in Slots : ctl[i].win = w}
<1>1. /\ w \in alive /\ focus # w /\ alive' = alive \ {w}
      /\ ctl' = [i \in Slots |-> IF ctl[i].win = w THEN Free ELSE ctl[i]]
      /\ reg' = {r \in reg : r.win # w} /\ armed' = {t \in armed : t.win # w}
      /\ queue' \subseteq queue /\ strays' = Kept(strays) /\ denied' = Kept(denied)
      /\ UNCHANGED <<focus, global, count>>
  BY DEF Destroy
<1>2. DOMAIN ctl' = Slots /\ \A i \in Slots : ctl'[i] = IF i \in E THEN Free ELSE ctl[i]
  BY <1>1
<1>3. ctl' \in Seq(Control)
  <2> DEFINE C == Control
  <2>1. /\ ctl \in Seq(C) /\ \A i \in Slots : ctl'[i] \in C
        /\ ctl' = [i \in 1..Len(ctl) |-> IF ctl[i].win = w THEN Free ELSE ctl[i]] /\ Slots = 1..Len(ctl)
    BY <1>1, <1>2, FreeType DEF RegistryInv, TypeOK, Slots
  <2> HIDE DEF C
  <2>2. ctl' \in [1..Len(ctl) -> C] /\ Len(ctl) \in Nat
    BY <2>1
  <2> QED  BY <2>2, Sequence DEF C
<1>4. \A r \in reg : \E i \in Slots : r = Hotkey(ctl[i]) /\ r.win = ctl[i].win /\ r.who = ctl[i].who /\ Used(ctl[i])
  <2>1. \A i : Hotkey(ctl[i]).win = ctl[i].win /\ Hotkey(ctl[i]).who = ctl[i].who
    BY DEF Hotkey
  <2> QED  BY <2>1 DEF RegistryInv, Backed, Used
<1>5. \A i \in E : Used(ctl[i])
  <2>1. Free.win = 0 /\ w # 0
    BY DEF Free, None, RegistryBounds
  <2> QED  BY <2>1 DEF RegistryInv, Slotted
<1>6. reg' = Without(reg, {ctl[i] : i \in E})
  <2>1. ASSUME NEW r \in reg, r.win # w, NEW j \in E  PROVE r.who # ctl[j].who
    <3>1. PICK i \in Slots : r.win = ctl[i].win /\ r.who = ctl[i].who /\ Used(ctl[i])
      BY <1>4
    <3> QED  BY <1>5, <2>1, <3>1 DEF RegistryInv, Distinct
  <2>2. ASSUME NEW r \in reg, r.win = w  PROVE \E j \in E : r.who = ctl[j].who
    BY <1>4, <2>2
  <2> HIDE DEF E
  <2> QED  BY <1>1, <2>1, <2>2 DEF Without
<1>7. \A i \in Slots : ctl'[i].win \in alive' \cup {None}
  BY <1>1, <1>2 DEF RegistryInv, TypeOK, Free
<1>8. /\ \A r \in reg' : r.win \in alive'
      /\ \A t \in armed' : t.win \in alive'
      /\ focus \in alive' \cup {None} /\ armed' \subseteq armed /\ alive' \subseteq alive
      /\ \A t \in armed \ armed' : t.win \notin alive'
  BY <1>1 DEF RegistryInv, TypeOK
<1> HIDE DEF E
<1>9. E \in SUBSET Slots
  BY DEF E
<1> QED  BY <1>1, <1>2, <1>3, <1>6, <1>7, <1>8, <1>9, EraseInv

LEMMA DefineHotKeyInv ==
  ASSUME RegistryBounds, RegistryInv, NEW w \in Windows, NEW key \in Keys, NEW id \in IdSet, DefineHotKey(w, key, id)
  PROVE  RegistryInv'
<1> DEFINE same == {d \in HotkeysOf({w}) : d.key = key}
           E == {i \in Slots : ctl[i] \in same}
           s == [i \in Slots |-> IF ctl[i] \in same THEN Free ELSE ctl[i]]
           c == [Free EXCEPT !.type = "HOTKEY", !.win = w, !.id = id, !.key = key, !.who = New]
<1>1. ctl \in Seq(Control) /\ New \in 1..MaxControls /\ New \in 0..MaxControls /\ w \in alive /\ count < MaxControls
  BY DEF DefineHotKey, RegistryInv, TypeOK, RegistryBounds, New
<1>2. /\ c \in Control /\ c.type = "HOTKEY" /\ c.win = w /\ c.id = id /\ c.key = key /\ c.who = New
  BY <1>1 DEF Free, Control, None
<1>3. /\ ctl' = Put(c, s) /\ id \in GetId(s) /\ count' = New
      /\ reg' = InitHotKeys(Without(reg, same), {c})
      /\ strays' = Kept(IF w = focus THEN strays ELSE strays \cup {New})
      /\ denied' = Kept(IF Hotkey(c) \in reg' THEN denied ELSE denied \cup {New})
      /\ UNCHANGED <<armed, queue, focus, alive, global>>
  BY DEF DefineHotKey
<1>4. same = {ctl[i] : i \in E}
  BY DEF HotkeysOf
<1>5. DOMAIN s = Slots /\ \A i \in Slots : s[i] = IF i \in E THEN Free ELSE ctl[i]
  OBVIOUS
<1>6. \A i \in E : ctl[i].type = "HOTKEY"
  BY DEF HotkeysOf
<1>7. s \in Seq(Control)
  <2> DEFINE C == Control
  <2>1. Slots = 1..Len(ctl) /\ Len(ctl) \in Nat /\ \A i \in Slots : s[i] \in C
    BY <1>1, FreeType DEF Slots
  <2>2. s \in [1..Len(ctl) -> C]
    BY <2>1
  <2> HIDE DEF C, s
  <2> QED  BY <2>1, <2>2, Sequence DEF C
<1> HIDE DEF s, c
<1>8. Used(c) /\ Hotkey(c).who = New /\ Hotkey(c).win = w /\ Hotkey(c).key = key /\ Hotkey(c).id = id
  BY <1>2 DEF Used, Hotkey
<1>9. Defines(c, s)
  BY <1>1, <1>2, <1>3, <1>5, <1>8 DEF Defines
<1>10. /\ ctl' \in Seq(Control) /\ Slotted' /\ Distinct' /\ Mailed'
       /\ \A i \in DOMAIN ctl' : ctl'[i].win \in alive' \cup {None}
       /\ count' \in 0..MaxControls
       /\ \E k : Placed(c, s, k)
  BY <1>2, <1>7, <1>9, PutInv
<1>11. PICK k \in DOMAIN ctl' :
           /\ ctl'[k] = c /\ DOMAIN ctl' = Slots \cup {k} /\ (k \in Slots => ~Used(s[k]))
           /\ \A i \in Slots \ {k} : ctl'[i] = s[i]
  BY <1>10 DEF Placed
<1> HIDE DEF same, E
<1>12. E \in SUBSET Slots /\ \A i \in Stay(E) : i \in DOMAIN ctl' /\ i # k /\ ctl'[i] = ctl[i]
  <2>1. E \in SUBSET Slots
    BY DEF E
  <2> QED  BY <1>5, <1>11, <2>1 DEF Stay, Used
<1>13. ASSUME NEW r \in reg'
       PROVE  r = Hotkey(c) \/ (r \in reg /\ \E i \in Stay(E) : r = Hotkey(ctl[i]))
  BY <1>3, <1>4, <1>12, StayingHotkeys DEF InitHotKeys
<1>14. Backed'
  BY <1>2, <1>11, <1>12, <1>13 DEF Backed, Slots, Hotkey, Stay
<1>15. KeysOfFocus'
  <2>1. ASSUME NEW r \in reg', r # Hotkey(c)  PROVE r.who \in strays' \/ r.win = focus \/ global
    <3>1. PICK i \in Stay(E) : r = Hotkey(ctl[i]) /\ r \in reg
      BY <1>13, <2>1
    <3>2. r.who = ctl'[i].who /\ i \in DOMAIN ctl'
      BY <1>12, <3>1 DEF Hotkey
    <3> QED  BY <1>3, <3>1, <3>2 DEF RegistryInv, KeysOfFocus, Kept
  <2>2. New \in strays' \/ w = focus
    BY <1>2, <1>3, <1>11 DEF Kept
  <2> QED  BY <1>3, <1>8, <2>1, <2>2 DEF KeysOfFocus
<1>16. KeysReachable'
  <2>1. ASSUME NEW i \in DOMAIN ctl', ctl'[i].type = "HOTKEY", ctl'[i].win = focus, focus # None
        PROVE  Hotkey(ctl'[i]) \in reg' \/ ctl'[i].who \in denied'
    <3>1. CASE i = k
      BY <1>2, <1>3, <1>11, <3>1 DEF Kept
    <3>2. CASE i # k
      <4>1. i \in Stay(E) /\ ctl'[i] = ctl[i]
        BY <1>5, <1>11, <2>1, <3>2, FreeUnused DEF Stay
      <4>2. Hotkey(ctl[i]) \in reg \/ ctl[i].who \in denied
        BY <2>1, <4>1 DEF RegistryInv, KeysReachable, HotkeysOf, Stay
      <4>3. CASE Hotkey(ctl[i]) \in reg
        BY <1>3, <1>4, <1>12, <4>1, <4>3, StayingKeys DEF InitHotKeys
      <4>4. CASE ctl[i].who \in denied
        BY <1>3, <1>12, <4>1, <4>4 DEF Kept
      <4> QED  BY <4>1, <4>2, <4>3, <4>4
    <3> QED  BY <3>1, <3>2
  <2> QED  BY <1>3, <2>1 DEF KeysReachable, HotkeysOf, Slots, Hotkey, None
<1>17. TypeOK'
  <2>1. \A r \in reg' : r.win \in alive' /\ r.id \in IdSet /\ r.key \in Keys
    BY <1>1, <1>3, <1>8, <1>13 DEF RegistryInv, TypeOK
  <2>2. (strays' \cup denied') \subseteq 1..MaxControls
    BY <1>1, <1>3 DEF Kept, RegistryInv, TypeOK
  <2> QED  BY <1>3, <1>10, <2>1, <2>2 DEF RegistryInv, TypeOK, Slots
<1>18. EnabledTicks'
  <2>1. ASSUME NEW i \in DOMAIN ctl', ctl'[i].type = "TIMER"  PROVE i \in Slots /\ ctl'[i] = ctl[i]
    BY <1>2, <1>5, <1>11, <2>1, FreeUnused
  <2> QED  BY <1>3, <2>1, SameTimers DEF RegistryInv
<1> QED  BY <1>10, <1>14, <1>15, <1>16, <1>17, <1>18 DEF RegistryInv

-------------------------------------------------------------------------------
(* Messages and the focus.                                                 *)

\* Only the messages change.
LEMMA QueueInv ==
  ASSUME RegistryInv, queue' \subseteq Message,
         \A m \in queue' \ queue : /\ m.who \in 0..count
                                   /\ \A i \in Slots : Used(ctl[i]) /\ ctl[i].who = m.who => ctl[i].id = m.id,
         UNCHANGED <<ctl, armed, reg, focus, alive, global, count, strays, denied>>
  PROVE  RegistryInv'
<1>1. TypeOK'
  BY DEF RegistryInv, TypeOK, Slots
<1>2. Slotted' /\ Distinct' /\ Backed' /\ Mailed'
  BY DEF RegistryInv, Slotted, Distinct, Backed, Mailed, Slots, Used, Hotkey
<1>3. EnabledTicks' /\ KeysOfFocus' /\ KeysReachable'
  BY DEF RegistryInv, EnabledTicks, KeysOfFocus, KeysReachable, Slots, Timer, Hotkey, HotkeysOf, None
<1> QED  BY <1>1, <1>2, <1>3 DEF RegistryInv

LEMMA SlotsNat == ASSUME TypeOK PROVE Slots \subseteq Nat \ {0}
BY DEF TypeOK, Slots

LEMMA MessageType ==
  ASSUME RegistryBounds, TypeOK, NEW b \in {"TIMER", "HOTKEY"}, NEW w \in alive, NEW id \in IdSet, NEW k \in 0..count
  PROVE  [msg |-> b, win |-> w, id |-> id, who |-> k] \in Message
<1>1. k \in 0..MaxControls /\ w \in Windows
  BY DEF RegistryBounds, TypeOK
<1> QED  BY <1>1 DEF Message

LEMMA TickInv == ASSUME RegistryBounds, RegistryInv, NEW t \in armed, Tick(t) PROVE RegistryInv'
<1> DEFINE own == {i \in Slots : ctl[i].type = "TIMER" /\ ctl[i].win = t.win /\ ctl[i].id = t.id}
           who == OwnerOf(t.win, t.id)
           m   == [msg |-> "TIMER", win |-> t.win, id |-> t.id, who |-> who]
<1>1. who \in 0..count /\ \A i \in Slots : Used(ctl[i]) /\ ctl[i].who = who => ctl[i].id = t.id
  <2>1. CASE own = {}
    <3>1. who = 0 /\ count \in Nat
      BY <2>1 DEF OwnerOf, RegistryInv, TypeOK, RegistryBounds
    <3>2. \A i \in Slots : Used(ctl[i]) => ctl[i].who \in 1..count
      BY DEF RegistryInv, Slotted
    <3> QED  BY <3>1, <3>2
  <2>2. CASE own # {}
    <3>1. own \in SUBSET Nat
      BY SlotsNat DEF RegistryInv
    <3>2. Min(own) \in own /\ who = ctl[Min(own)].who
      <4>1. who = ctl[Min(own)].who
        BY <2>2 DEF OwnerOf
      <4> HIDE DEF own
      <4> QED  BY <2>2, <3>1, <4>1, MinExists
    <3> DEFINE j == Min(own)
    <3>3. j \in Slots /\ Used(ctl[j]) /\ ctl[j].id = t.id /\ who = ctl[j].who
      BY <3>2 DEF Used
    <3> HIDE DEF own, j, who
    <3>4. who \in 1..count
      BY <3>3 DEF RegistryInv, Slotted
    <3>5. \A i \in Slots : Used(ctl[i]) /\ ctl[i].who = who => i = j
      BY <3>3 DEF RegistryInv, Distinct
    <3> QED  BY <3>3, <3>4, <3>5
  <2> QED  BY <2>1, <2>2
<1>2. queue' = queue \cup {m} /\ UNCHANGED <<ctl, armed, reg, focus, alive, global, count, strays, denied>>
  BY DEF Tick
<1> HIDE DEF who
<1>3. m \in Message
  <2>1. t.win \in alive /\ t.id \in IdSet
    BY DEF RegistryInv, TypeOK
  <2> QED  BY <1>1, <2>1, MessageType DEF RegistryInv
<1>4. queue' \subseteq Message
  BY <1>2, <1>3 DEF RegistryInv, TypeOK
<1> QED  BY <1>1, <1>2, <1>4, QueueInv

LEMMA PressInv == ASSUME RegistryBounds, RegistryInv, NEW r \in reg, Press(r) PROVE RegistryInv'
<1> DEFINE m == [msg |-> "HOTKEY", win |-> r.win, id |-> r.id, who |-> r.who]
<1>1. PICK j \in Slots : ctl[j].type = "HOTKEY" /\ r = Hotkey(ctl[j])
  BY DEF RegistryInv, Backed
<1>2. r.who = ctl[j].who /\ r.id = ctl[j].id /\ Used(ctl[j])
  BY <1>1 DEF Hotkey, Used
<1>3. r.who \in 1..count
  BY <1>2 DEF RegistryInv, Slotted
<1>4. \A i \in Slots : Used(ctl[i]) /\ ctl[i].who = r.who => ctl[i].id = r.id
  BY <1>2 DEF RegistryInv, Distinct
<1>5. queue' = queue \cup {m} /\ UNCHANGED <<ctl, armed, reg, focus, alive, global, count, strays, denied>>
  BY DEF Press
<1>6. m \in Message
  <2>1. r.win \in alive /\ r.id \in IdSet /\ r.who \in 0..count
    BY <1>3 DEF RegistryInv, TypeOK
  <2> QED  BY <2>1, MessageType DEF RegistryInv
<1>7. queue' \subseteq Message
  BY <1>5, <1>6 DEF RegistryInv, TypeOK
<1> QED  BY <1>3, <1>4, <1>5, <1>7, QueueInv

\* The same with a message taken.
LEMMA TakenInv ==
  ASSUME RegistryInv, queue' \subseteq queue, UNCHANGED <<ctl, armed, reg, focus, alive, global, count, strays, denied>>
  PROVE  RegistryInv'
BY QueueInv DEF RegistryInv, TypeOK

LEMMA RegistryStutter == ASSUME RegistryInv, UNCHANGED vars PROVE RegistryInv'
BY TakenInv DEF vars

LEMMA OnHotKeyInv == ASSUME RegistryInv, NEW m \in queue, OnHotKey(m) PROVE RegistryInv'
BY TakenInv DEF OnHotKey

LEMMA OnTimerInv == ASSUME RegistryBounds, RegistryInv, NEW m \in queue, OnTimer(m) PROVE RegistryInv'
<1> DEFINE i == Scan(m.id)
<1>1. CASE i # 0 /\ ctl[i].once
  <2>1. i \in Slots
    <3> DEFINE S == {j \in Slots : ctl[j].id = m.id}
    <3>1. S # {} /\ i = Min(S) /\ S \in SUBSET Nat
      BY <1>1, SlotsNat DEF Scan, RegistryInv
    <3>2. S \subseteq Slots
      OBVIOUS
    <3> HIDE DEF S, i
    <3> QED  BY <3>1, <3>2, MinExists
  <2>2. /\ ctl[i].type = "TIMER" /\ ctl' = [ctl EXCEPT ![i].enabled = FALSE]
        /\ armed' = (IF ctl[i].enabled THEN Killed(ctl[i]) ELSE armed)
        /\ queue' \subseteq queue /\ UNCHANGED <<reg, focus, alive, global, count, strays, denied>>
    BY <1>1 DEF OnTimer
  <2> HIDE DEF i
  <2> QED  BY <2>1, <2>2, Disabled
<1>2. CASE ~(i # 0 /\ ctl[i].once)
  BY <1>2, TakenInv DEF OnTimer
<1> QED  BY <1>1, <1>2

LEMMA TimerFailsInv == ASSUME RegistryBounds, RegistryInv, NEW m \in queue, TimerFails(m) PROVE RegistryInv'
<1>1. /\ ctl' = <<>> /\ armed' = {} /\ reg' = {} /\ queue' = {}
      /\ focus' = None /\ alive' = {} /\ strays' = {} /\ denied' = {} /\ UNCHANGED <<global, count>>
  BY DEF TimerFails
<1>2. TypeOK'
  BY <1>1 DEF RegistryInv, TypeOK, Slots
<1>3. Slotted' /\ Distinct' /\ EnabledTicks'
  BY <1>1 DEF Slotted, Distinct, EnabledTicks, Slots
<1>4. Backed' /\ Mailed' /\ KeysOfFocus' /\ KeysReachable'
  BY <1>1 DEF Backed, Mailed, KeysOfFocus, KeysReachable, None
<1> QED  BY <1>2, <1>3, <1>4 DEF RegistryInv

\* Between the two loops of WM_SETFOCUS no hotkey is registered.
LEMMA NoneRegistered == ASSUME TypeOK, Backed PROVE Without(reg, HotkeysOf(Windows)) = {}
<1>1. ASSUME NEW r \in reg  PROVE \E c \in HotkeysOf(Windows) : r.who = c.who
  <2>1. PICK i \in Slots : ctl[i].type = "HOTKEY" /\ r = Hotkey(ctl[i])
    BY DEF Backed
  <2>2. r.who = ctl[i].who /\ r.win = ctl[i].win /\ r.win \in Windows
    BY <2>1 DEF Hotkey, TypeOK
  <2> QED  BY <2>1, <2>2 DEF HotkeysOf
<1> QED  BY <1>1 DEF Without

\* Only the focus and the hotkeys of Win32 change.
LEMMA FocusInv ==
  ASSUME RegistryInv, TypeOK', Backed', KeysOfFocus', KeysReachable',
         UNCHANGED <<ctl, armed, queue, alive, count>>
  PROVE  RegistryInv'
<1>1. Slotted' /\ Distinct' /\ Mailed'
  BY DEF RegistryInv, Slotted, Distinct, Mailed, Slots, Used, Free, None
<1>2. EnabledTicks'
  BY DEF RegistryInv, EnabledTicks, Slots, Timer
<1> QED  BY <1>1, <1>2 DEF RegistryInv

LEMMA SetFocusInv == ASSUME RegistryBounds, RegistryInv, NEW w \in Windows, SetFocus(w) PROVE RegistryInv'
<1>1. /\ focus' = w /\ w \in alive /\ strays' = {} /\ denied' = {}
      /\ UNCHANGED <<ctl, armed, queue, alive, global, count>>
  BY DEF SetFocus
<1>2. reg' = {Hotkey(c) : c \in HotkeysOf({w})}
  <2>1. reg' = InitHotKeys({}, HotkeysOf({w}))
    BY NoneRegistered DEF SetFocus, RegistryInv
  <2> QED  BY <2>1 DEF InitHotKeys
<1>3. \A r \in reg' : \E i \in Slots : ctl[i].type = "HOTKEY" /\ ctl[i].win = w /\ r = Hotkey(ctl[i])
  BY <1>2 DEF HotkeysOf
<1>4. Backed'
  BY <1>1, <1>3 DEF Backed, Slots, Hotkey
<1>5. \A r \in reg' : r.win = w /\ r.id \in IdSet /\ r.key \in Keys
  <2>1. ASSUME NEW i \in Slots, ctl[i].type = "HOTKEY"  PROVE ctl[i].id \in IdSet /\ ctl[i].key \in Keys
    BY <2>1 DEF RegistryInv, Slotted, Used
  <2> QED  BY <1>3, <2>1 DEF Hotkey
<1>6. KeysOfFocus'
  BY <1>1, <1>5 DEF KeysOfFocus
<1>7. KeysReachable'
  BY <1>1, <1>2 DEF KeysReachable, HotkeysOf, Slots, Hotkey
<1>8. TypeOK'
  BY <1>1, <1>5 DEF RegistryInv, TypeOK, Slots
<1> QED  BY <1>1, <1>4, <1>6, <1>7, <1>8, FocusInv

LEMMA DeactivateInv == ASSUME RegistryBounds, RegistryInv, Deactivate PROVE RegistryInv'
<1>1. /\ focus' = None /\ UNCHANGED <<ctl, armed, queue, alive, global, count>>
      /\ \/ global /\ UNCHANGED <<reg, strays, denied>>
         \/ reg' = Without(reg, HotkeysOf(Windows)) /\ strays' = {} /\ denied' = {}
  BY DEF Deactivate
<1>2. \/ global /\ UNCHANGED <<reg, strays, denied>>
      \/ reg' = {} /\ strays' = {} /\ denied' = {}
  BY <1>1, NoneRegistered DEF RegistryInv
<1>3. Backed'
  BY <1>1, <1>2 DEF RegistryInv, Backed, Slots, Hotkey
<1>4. KeysOfFocus' /\ KeysReachable'
  BY <1>1, <1>2 DEF KeysOfFocus, KeysReachable, None
<1>5. TypeOK'
  BY <1>1, <1>2 DEF RegistryInv, TypeOK, Slots
<1> QED  BY <1>1, <1>3, <1>4, <1>5, FocusInv

-------------------------------------------------------------------------------
LEMMA RegistryNext == ASSUME RegistryBounds, RegistryInv, [Next]_vars PROVE RegistryInv'
<1>1. CASE Program
  BY <1>1, DefineTimerInv, DefineHotKeyInv, EraseControlInv, EnableTimerInv, DisableTimerInv, SetTimerInv,
     DestroyInv DEF Program
<1>2. CASE System
  BY <1>2, TickInv, PressInv, SetFocusInv, DeactivateInv DEF System
<1>3. CASE Handlers
  BY <1>3, OnTimerInv, TimerFailsInv, OnHotKeyInv DEF Handlers
<1>4. CASE UNCHANGED vars
  BY <1>4, RegistryStutter
<1> QED  BY <1>1, <1>2, <1>3, <1>4 DEF Next

\* The strengthening holds in every state: slots and ids are never mixed up.
THEOREM RegistryInvariant == Spec => []RegistryInv
<1>1. Init => RegistryInv
  BY RegistryInit, RegistryAssumption
<1>2. RegistryInv /\ [Next]_vars => RegistryInv'
  BY RegistryNext, RegistryAssumption
<1> QED  BY <1>1, <1>2, PTL DEF Spec

\* The arrays, timers, hotkeys and messages keep their types: every slot index,
\* id and owner the code looks up is one there can be.
THEOREM RegistryTypes == Spec => []TypeOK
<1>1. RegistryInv => TypeOK
  BY DEF RegistryInv
<1> QED  BY <1>1, RegistryInvariant, PTL

LEMMA MessageFinds == ASSUME RegistryBounds, RegistryInv PROVE MessageFindsControl
<1>1. ASSUME NEW m \in queue, NEW j \in Slots, ctl[j].type # "", ctl[j].who = m.who
      PROVE  Scan(m.id) = j
  <2>1. Used(ctl[j]) /\ ctl[j].id = m.id
    BY <1>1 DEF RegistryInv, Mailed, Used
  <2> QED  BY <2>1, ScanFinds DEF RegistryInv
<1>2. 0 \notin Slots
  BY SlotsNat DEF RegistryInv
<1> QED  BY <1>1, <1>2 DEF MessageFindsControl, Live

\* WM_TIMER and WM_HOTKEY: a message on its way to a control that is still there
\* finds it, whatever slots and ids were used again meanwhile.
THEOREM MessageFound == Spec => []MessageFindsControl
<1>1. RegistryInv => MessageFindsControl
  BY MessageFinds, RegistryAssumption
<1> QED  BY <1>1, RegistryInvariant, PTL

\* Enabled and Value against Win32: an enabled timer ticks at its interval, a
\* disabled one does not.
THEOREM Ticks == Spec => []EnabledTicks
<1>1. RegistryInv => EnabledTicks
  BY DEF RegistryInv
<1> QED  BY <1>1, RegistryInvariant, PTL

\* WM_ACTIVATE, WM_SETFOCUS: a program not in front keeps no key from the others,
\* GLOBALHOTKEYS and stray definitions apart.
THEOREM KeysReleased == Spec => []KeysOfFocus
<1>1. RegistryInv => KeysOfFocus
  BY DEF RegistryInv
<1> QED  BY <1>1, RegistryInvariant, PTL

\* WM_SETFOCUS: the window in front has its hotkeys, whatever windows had the same
\* keys before.
THEOREM KeysReached == Spec => []KeysReachable
<1>1. RegistryInv => KeysReachable
  BY DEF RegistryInv
<1> QED  BY <1>1, RegistryInvariant, PTL
=============================================================================
