--------------------------- MODULE AppEvents_proofs ---------------------------
(***************************************************************************)
(* For every set of windows and blocks, every number of slots and every    *)
(* depth of nested dispatch, the event tables of application windows       *)
(* (MinMsg > 0) keep their slots, counts and holders consistent, and are   *)
(* a map from messages to handlers (EventMap).                             *)
(***************************************************************************)
EXTENDS MCAppEvents, FiniteSetTheorems, SequenceTheorems, TLAPS

\* A holder on its own: what TypeOK, UsedCountsSlots and OneSlotPerMessage say
\* of it.
Sound(h) ==
  /\ h \in Holder
  /\ h.used = Cardinality(Used(h))
  /\ h.installed <=> h.used > 0
  /\ \A i, j \in Used(h) : h.ev[i].msg = h.ev[j].msg => i = j

\* The inductive invariant.
IInv ==
  /\ live \subseteq Windows
  /\ prop \in [Windows -> [Props -> Holder]]
  /\ calls \in Seq(Call)
  /\ \A w \in Windows, p \in Props : Sound(prop[w][p])
  /\ DestroyedHoldNothing

LEMMA UsedFinite ==
  ASSUME NEW h
  PROVE  IsFiniteSet(Used(h)) /\ Cardinality(Used(h)) \in Nat
<1>1. IsFiniteSet(Slot)
  BY AppEventsAssumption, FS_Interval DEF Slot
<1>2. Used(h) \in SUBSET Slot
  BY DEF Used
<1>3. QED
  BY <1>1, <1>2, FS_Subset, FS_CardinalityType

\* A window property that is not set counts as a sound holder.
LEMMA NoHolderSound == Sound(NoHolder)
<1>1. NoHolder \in Holder
  BY AppEventsAssumption DEF NoHolder, Holder, EmptyEvent, Event
<1>2. Used(NoHolder) = {}
  BY DEF Used, NoHolder, EmptyEvent
<1>3. NoHolder.used = 0 /\ NoHolder.installed = FALSE
  BY DEF NoHolder
<1>4. QED
  BY <1>1, <1>2, <1>3, FS_EmptySet DEF Sound

\* Replacing the handler of a message in its slot keeps a holder sound.
LEMMA ReplaceSound ==
  ASSUME NEW h, Sound(h), NEW m \in Nat, NEW i \in Slot, At(h.ev, m, i),
         NEW b \in Blocks \cup {NoBlock}, NEW act \in BOOLEAN
  PROVE  Sound(Fill(h, i, m, b, act))
<1> DEFINE g == Fill(h, i, m, b, act)
<1>1. g \in Holder /\ g.used = h.used /\ g.installed = h.installed
  BY DEF Fill, Holder, Event, Sound
<1>2. \A j \in Slot : g.ev[j].msg = h.ev[j].msg
  BY DEF Fill, Holder, Event, Sound, At
<1>3. Used(g) = Used(h)
  BY <1>2 DEF Used
<1>4. QED
  BY <1>1, <1>2, <1>3 DEF Sound, Used

\* Taking a free slot for a new message keeps a holder sound once counted; the
\* holder may be one that was just allocated.
LEMMA TakeSound ==
  ASSUME NEW h \in Holder, h.used = Cardinality(Used(h)), h.installed,
         \A i, j \in Used(h) : h.ev[i].msg = h.ev[j].msg => i = j,
         NEW m \in Nat \ {0}, Absent(h.ev, m), NEW i \in Slot, At(h.ev, 0, i),
         NEW b \in Blocks, NEW act \in BOOLEAN
  PROVE  Sound([Fill(h, i, m, b, act) EXCEPT !.used = @ + 1])
<1> DEFINE f == Fill(h, i, m, b, act)
<1> DEFINE g == [f EXCEPT !.used = @ + 1]
<1>0. f \in Holder /\ f.used = h.used /\ f.installed
  BY DEF Fill, Holder, Event
<1>1. g \in Holder /\ g.used = h.used + 1 /\ g.installed /\ g.ev = f.ev
  BY <1>0 DEF Holder
<1>2. /\ g.ev[i].msg = m
      /\ \A j \in Slot \ {i} : g.ev[j].msg = h.ev[j].msg
  BY DEF Fill, Holder, Event
<1>3. Used(g) = Used(h) \cup {i} /\ i \notin Used(h)
  BY <1>2 DEF Used, At
<1>4. g.used = Cardinality(Used(g)) /\ g.used > 0
  BY <1>1, <1>3, UsedFinite, FS_AddElement
<1>5. \A j, k \in Used(g) : g.ev[j].msg = g.ev[k].msg => j = k
  BY <1>2, <1>3 DEF Absent, Used
<1>6. QED
  BY <1>1, <1>4, <1>5 DEF Sound

\* A holder allocated by the first registration is sound but for being empty.
LEMMA NewHolderFacts ==
  ASSUME NEW act \in BOOLEAN
  PROVE  /\ NewHolder(act) \in Holder
         /\ NewHolder(act).installed
         /\ NewHolder(act).used = Cardinality(Used(NewHolder(act)))
         /\ Used(NewHolder(act)) = {}
         /\ Absent(NewHolder(act).ev, 1)
<1>1. NoHolder \in Holder
  BY NoHolderSound DEF Sound
<1>2. NewHolder(act) \in Holder /\ NewHolder(act).installed
      /\ NewHolder(act).used = 0 /\ NewHolder(act).ev = NoHolder.ev
  BY <1>1 DEF NewHolder, NoHolder, Holder
<1>3. Used(NewHolder(act)) = {} /\ Absent(NewHolder(act).ev, 1)
  BY <1>2 DEF Used, NoHolder, EmptyEvent, Absent
<1>4. QED
  BY <1>2, <1>3, FS_EmptySet

\* Freeing a holder when its count reaches zero keeps it sound.
LEMMA CleanUpSound ==
  ASSUME NEW h \in Holder, h.used = Cardinality(Used(h)), h.installed,
         \A i, j \in Used(h) : h.ev[i].msg = h.ev[j].msg => i = j
  PROVE  Sound(CleanUp(h))
<1>1. CASE h.used = 0
  BY <1>1, NoHolderSound DEF CleanUp
<1>2. CASE h.used # 0
  BY <1>2, UsedFinite DEF CleanUp, Sound
<1>3. QED
  BY <1>1, <1>2

\* AppEventRemove keeps a holder sound, whatever it removes.
LEMMA RemoveSound ==
  ASSUME NEW h, Sound(h), h.installed, NEW m \in Nat, NEW g \in AfterRemove(h, m)
  PROVE  Sound(g)
<1>1. CASE m = 0
  BY <1>1, NoHolderSound DEF AfterRemove
<1>2. CASE m # 0 /\ Absent(h.ev, m)
  BY <1>2, CleanUpSound DEF AfterRemove, Sound
<1>3. CASE m # 0 /\ ~Absent(h.ev, m)
  <2>1. PICK i \in Slot : At(h.ev, m, i) /\ g = CleanUp(ClearSlot(h, i))
    BY <1>3 DEF AfterRemove
  <2> DEFINE c == ClearSlot(h, i)
  <2> DEFINE e == [h EXCEPT !.ev[i] = EmptyEvent]
  <2>a. e \in Holder /\ e.used = h.used /\ e.installed
    BY DEF Sound, Holder, EmptyEvent, Event
  <2>2. c \in Holder /\ c.used = h.used - 1 /\ c.installed /\ c.ev = e.ev
    <3>1. c = [e EXCEPT !.used = e.used - 1]
      BY Zenon DEF ClearSlot
    <3> HIDE DEF e
    <3>2. QED
      BY <2>a, <3>1 DEF Holder
  <2>3. c.ev[i].msg = 0 /\ \A j \in Slot \ {i} : c.ev[j].msg = h.ev[j].msg
    BY <2>2 DEF Sound, Holder, EmptyEvent, Event
  <2>4. Used(c) = Used(h) \ {i} /\ i \in Used(h)
    BY <1>3, <2>1, <2>3 DEF Used, At
  <2>5. c.used = Cardinality(Used(c))
    <3>1. Cardinality(Used(h) \ {i}) = Cardinality(Used(h)) - 1
      BY <2>4, UsedFinite, FS_RemoveElement
    <3>2. QED
      BY <2>2, <2>4, <3>1 DEF Sound
  <2>6. \A j, k \in Used(c) : c.ev[j].msg = c.ev[k].msg => j = k
    BY <2>3, <2>4 DEF Sound, Used
  <2>7. QED
    BY <2>1, <2>2, <2>5, <2>6, CleanUpSound
<1>4. QED
  BY <1>1, <1>2, <1>3

-----------------------------------------------------------------------------
LEMMA InitIInv == Init => IInv
<1> SUFFICES ASSUME Init PROVE IInv
  OBVIOUS
<1>1. NoHolder \in Holder
  BY NoHolderSound DEF Sound
<1>2. \A w \in Windows, p \in Props : prop[w][p] = NoHolder
  BY DEF Init
<1>3. prop \in [Windows -> [Props -> Holder]]
  BY <1>1 DEF Init
<1>4. calls \in Seq(Call)
  BY DEF Init
<1>5. QED
  BY <1>2, <1>3, <1>4, NoHolderSound DEF Init, IInv, DestroyedHoldNothing

\* Giving a sound holder to a window that still exists preserves the invariant.
LEMMA SetHolderInv ==
  ASSUME IInv, NEW w \in live, NEW p \in Props, NEW h, Sound(h), SetHolder(w, p, h),
         live' = live, calls' \in Seq(Call)
  PROVE  IInv'
<1>1. w \in Windows /\ h \in Holder
  BY DEF IInv, Sound
<1>2. prop' \in [Windows -> [Props -> Holder]]
  BY <1>1 DEF IInv, SetHolder
<1>3. \A v \in Windows, q \in Props :
        prop'[v][q] = IF v = w /\ q = p THEN h ELSE prop[v][q]
  BY <1>1 DEF IInv, SetHolder
<1>4. \A v \in Windows, q \in Props : Sound(prop'[v][q])
  BY <1>3 DEF IInv
<1>5. DestroyedHoldNothing'
  BY <1>3 DEF IInv, DestroyedHoldNothing
<1>6. QED
  BY <1>2, <1>4, <1>5 DEF IInv, Sound

\* A step that leaves windows and holders alone.
LEMMA CallsInv ==
  ASSUME IInv, UNCHANGED <<live, prop>>, calls' \in Seq(Call)
  PROVE  IInv'
<1>1. live' = live /\ prop' = prop
  OBVIOUS
<1>2. \A w \in Windows, p \in Props : Sound(prop'[w][p])
  BY <1>1 DEF IInv
<1>3. DestroyedHoldNothing'
  BY <1>1 DEF IInv, DestroyedHoldNothing
<1>4. QED
  BY <1>1, <1>2, <1>3 DEF IInv, Sound

LEMMA RegisterInv ==
  ASSUME IInv, MinMsg > 0, NEW w, NEW p \in Props, NEW m, NEW b \in Blocks,
         NEW act \in BOOLEAN, Register(w, p, m, b, act)
  PROVE  IInv'
<1> DEFINE h == IF prop[w][p].installed THEN prop[w][p] ELSE NewHolder(act)
<1>1. w \in live /\ w \in Windows /\ m \in Nat \ {0} /\ live' = live /\ calls' \in Seq(Call)
  BY AppEventsAssumption DEF Register, IInv, Msg
<1>2. /\ h \in Holder /\ h.used = Cardinality(Used(h)) /\ h.installed
      /\ \A i, j \in Used(h) : h.ev[i].msg = h.ev[j].msg => i = j
  BY <1>1, NewHolderFacts DEF IInv, Sound
<1>3. CASE \E i \in Slot : At(h.ev, m, i) /\ SetHolder(w, p, Fill(h, i, m, b, act))
  <2>1. PICK i \in Slot : At(h.ev, m, i) /\ SetHolder(w, p, Fill(h, i, m, b, act))
    BY <1>3
  <2>2. i \in Used(h)
    BY <1>1, <2>1 DEF At, Used
  <2>3. Sound(h)
    BY <1>1, <1>2, <2>2, NewHolderFacts DEF IInv
  <2>4. QED
    BY <1>1, <2>1, <2>3, ReplaceSound, SetHolderInv
<1>4. CASE \E i \in Slot :
             /\ Takes(h, m, i)
             /\ SetHolder(w, p, [Fill(h, i, m, b, act) EXCEPT !.used = @ + 1])
  <2>1. PICK i \in Slot :
               /\ Takes(h, m, i)
               /\ SetHolder(w, p, [Fill(h, i, m, b, act) EXCEPT !.used = @ + 1])
    BY <1>4
  <2>2. Sound([Fill(h, i, m, b, act) EXCEPT !.used = @ + 1])
    BY <1>1, <1>2, <2>1, TakeSound DEF Takes
  <2>3. QED
    BY <1>1, <2>1, <2>2, SetHolderInv
<1>5. CASE UNCHANGED prop
  BY <1>1, <1>5, CallsInv
<1>6. QED
  BY <1>3, <1>4, <1>5 DEF Register

LEMMA UnregisterInv ==
  ASSUME IInv, NEW w, NEW p \in Props, NEW m \in Nat, Unregister(w, p, m)
  PROVE  IInv'
<1>1. w \in live /\ w \in Windows /\ live' = live /\ calls' \in Seq(Call)
  BY DEF Unregister, IInv
<1>2. PICK h \in AfterRemove(prop[w][p], m) : SetHolder(w, p, h)
  BY DEF Unregister
<1>3. Sound(h)
  BY <1>1, <1>2, RemoveSound DEF IInv, Unregister
<1>4. QED
  BY <1>1, <1>2, <1>3, SetHolderInv

LEMMA UpdateInv ==
  ASSUME IInv, NEW w, NEW p \in Props, NEW m, NEW b \in Blocks \cup {NoBlock},
         NEW act \in BOOLEAN, Update(w, p, m, b, act)
  PROVE  IInv'
<1> DEFINE h == prop[w][p]
<1>1. w \in live /\ w \in Windows /\ live' = live /\ calls' \in Seq(Call) /\ Sound(h)
  BY DEF Update, IInv
<1>2. CASE \E i \in Slot :
             /\ m \in Msg
             /\ At(h.ev, m, i)
             /\ SetHolder(w, p, Fill(h, i, m, IF b = NoBlock THEN h.ev[i].blk ELSE b, act))
  <2>1. PICK i \in Slot :
             /\ m \in Nat
             /\ At(h.ev, m, i)
             /\ SetHolder(w, p, Fill(h, i, m, IF b = NoBlock THEN h.ev[i].blk ELSE b, act))
    BY <1>2, AppEventsAssumption DEF Msg
  <2>2. (IF b = NoBlock THEN h.ev[i].blk ELSE b) \in Blocks \cup {NoBlock}
    BY <1>1 DEF Sound, Holder, Event
  <2>3. QED
    BY <1>1, <2>1, <2>2, ReplaceSound, SetHolderInv
<1>3. CASE SetHolder(w, p, [h EXCEPT !.active = act])
  <2>1. [h EXCEPT !.active = act] \in Holder
    BY <1>1 DEF Sound, Holder
  <2>2. Sound([h EXCEPT !.active = act])
    BY <1>1, <2>1 DEF Sound, Used, Holder
  <2>3. QED
    BY <1>1, <1>3, <2>2, SetHolderInv
<1>4. QED
  BY <1>2, <1>3 DEF Update

\* The call that AppEventDo pushes is a call of a registered block.
LEMMA FiringIsCall ==
  ASSUME IInv, NEW w \in Windows, NEW p \in Props, NEW m \in Nat, NEW i \in Slot,
         Fires(prop[w][p], m, i), NEW below \in Seq(Call)
  PROVE  Append(below, [win |-> w, prop |-> p, msg |-> m, blk |-> prop[w][p].ev[i].blk])
           \in Seq(Call)
<1>1. prop[w][p].ev[i].blk \in Blocks
  BY DEF IInv, Fires, Sound, Holder, Event
<1>2. [win |-> w, prop |-> p, msg |-> m, blk |-> prop[w][p].ev[i].blk] \in Call
  BY <1>1 DEF Call
<1>3. QED
  BY <1>2

LEMMA ThenOnCalls ==
  ASSUME IInv, NEW w \in Windows, NEW m \in Nat, NEW below \in Seq(Call), ThenOn(w, m, below)
  PROVE  calls' \in Seq(Call)
BY FiringIsCall DEF ThenOn, Props

LEMMA BelowIsSeq ==
  ASSUME calls \in Seq(Call), calls # <<>>
  PROVE  Below \in Seq(Call) /\ Top \in Call
<1>1. Len(calls) \in Nat \ {0}
  OBVIOUS
<1>2. \A i \in 1 .. Len(calls) : calls[i] \in Call
  BY ElementOfSeq
<1>3. QED
  BY <1>1, <1>2, SubSeqProperties DEF Below, Top

LEMMA EmitInv ==
  ASSUME IInv, NEW w, NEW m, Emit(w, m)
  PROVE  IInv'
<1>1. w \in Windows /\ m \in Nat /\ UNCHANGED <<live, prop>> /\ calls \in Seq(Call)
  BY AppEventsAssumption DEF Emit, IInv, Msg
<1>2. calls' \in Seq(Call)
  BY <1>1, FiringIsCall, ThenOnCalls DEF Emit, Props
<1>3. QED
  BY <1>1, <1>2, CallsInv

LEMMA ReturnInv ==
  ASSUME IInv, ReturnOn \/ ReturnOnce
  PROVE  IInv'
<1>1. calls # <<>> /\ live' = live /\ Below \in Seq(Call) /\ Top \in Call
  BY BelowIsSeq DEF ReturnOn, ReturnOnce, IInv
<1>2. CASE ReturnOn
  BY <1>1, <1>2, CallsInv DEF ReturnOn
<1>3. CASE ReturnOnce
  <2>1. Top.win \in Windows /\ Top.msg \in Nat
    BY <1>1 DEF Call
  <2>2. calls' \in Seq(Call)
    BY <1>1, <1>3, <2>1, ThenOnCalls DEF ReturnOnce
  <2>3. CASE UNCHANGED prop
    BY <1>1, <2>2, <2>3, CallsInv
  <2>4. CASE /\ Top.win \in live /\ prop[Top.win]["ONCE"].installed
             /\ \E h2 \in AfterRemove(prop[Top.win]["ONCE"], Top.msg) :
                  SetHolder(Top.win, "ONCE", h2)
    <3>1. PICK h2 \in AfterRemove(prop[Top.win]["ONCE"], Top.msg) :
                 SetHolder(Top.win, "ONCE", h2)
      BY <2>4
    <3>2. "ONCE" \in Props /\ Sound(prop[Top.win]["ONCE"])
      BY <2>1 DEF IInv, Props
    <3>3. Sound(h2)
      BY <2>1, <2>4, <3>2, RemoveSound
    <3>4. QED
      BY <1>1, <2>2, <2>4, <3>1, <3>2, <3>3, SetHolderInv
  <2>5. QED
    BY <1>3, <2>3, <2>4 DEF ReturnOnce
<1>4. QED
  BY <1>2, <1>3

LEMMA DestroyInv ==
  ASSUME IInv, NEW w, Destroy(w)
  PROVE  IInv'
<1>1. w \in Windows /\ live' = live \ {w} /\ calls' \in Seq(Call)
  BY DEF Destroy, IInv
<1>2. \A v \in Windows, q \in Props :
        prop'[v][q] = IF v = w THEN NoHolder ELSE prop[v][q]
  BY <1>1 DEF Destroy, IInv
<1>3. prop' \in [Windows -> [Props -> Holder]]
  BY <1>1, NoHolderSound DEF Destroy, IInv, Sound
<1>4. \A v \in Windows, q \in Props : Sound(prop'[v][q])
  BY <1>2, NoHolderSound DEF IInv
<1>5. DestroyedHoldNothing'
  BY <1>1, <1>2 DEF IInv, DestroyedHoldNothing
<1>6. QED
  BY <1>1, <1>3, <1>4, <1>5 DEF IInv, Sound

LEMMA NextInv ==
  ASSUME IInv, MinMsg > 0, [Next]_vars
  PROVE  IInv'
<1>1. CASE Program
  <2>1. Msg \cup {0} \subseteq Nat
    BY AppEventsAssumption DEF Msg
  <2>2. QED
    BY <1>1, <2>1, RegisterInv, UnregisterInv, UpdateInv, EmitInv, DestroyInv DEF Program
<1>2. CASE ReturnOn \/ ReturnOnce
  BY <1>2, ReturnInv
<1>3. CASE UNCHANGED vars
  BY <1>3, CallsInv DEF vars, IInv
<1>4. QED
  BY <1>1, <1>2, <1>3 DEF Next

LEMMA Invariance == MinMsg > 0 => (Spec => []IInv)
<1> SUFFICES ASSUME MinMsg > 0 PROVE Spec => []IInv
  OBVIOUS
<1>1. IInv /\ [Next]_vars => IInv'
  BY NextInv
<1>2. QED
  BY InitIInv, <1>1, PTL DEF Spec

\* The types hold in every reachable state: in particular only blocks, never an
\* empty slot, are evaluated.
THEOREM TypeCorrect == MinMsg > 0 => (Spec => []TypeOK)
<1>1. IInv => TypeOK
  BY DEF IInv, TypeOK
<1>2. QED
  BY <1>1, Invariance, PTL

\* For any number of slots, windows and nested dispatches the count of a holder
\* is the number of its handlers and the holder lives exactly while it has one.
THEOREM HolderLifetime == MinMsg > 0 => (Spec => []UsedCountsSlots)
<1>1. IInv => UsedCountsSlots
  BY DEF IInv, UsedCountsSlots, Sound
<1>2. QED
  BY <1>1, Invariance, PTL

\* No two slots of a holder answer the same message.
THEOREM UniqueHandler == MinMsg > 0 => (Spec => []OneSlotPerMessage)
<1>1. IInv => OneSlotPerMessage
  BY DEF IInv, OneSlotPerMessage, Sound
<1>2. QED
  BY <1>1, Invariance, PTL

\* A window that was destroyed, even from inside one of its own handlers, never
\* owns a handler again.
THEOREM DestroyedClean == MinMsg > 0 => (Spec => []DestroyedHoldNothing)
<1>1. IInv => DestroyedHoldNothing
  BY DEF IInv
<1>2. QED
  BY <1>1, Invariance, PTL

-----------------------------------------------------------------------------
(* The holders implement the maps of EventMap.  Beyond IInv: a slot in use *)
(* has an accepted message and a block, a holder that is not there is      *)
(* switched off, and a call in progress is one of an accepted message.     *)

Filled(h) ==
  /\ \A i \in Slot : h.ev[i].msg # 0 => h.ev[i].msg \in Msg /\ h.ev[i].blk \in Blocks
  /\ ~h.installed => h.active = FALSE

MsgCall == [win : Windows, prop : Props, msg : Msg, blk : Blocks]

RInv ==
  /\ IInv
  /\ \A w \in Windows, p \in Props : Filled(prop[w][p])
  /\ calls \in Seq(MsgCall)

\* EventMap's own definitions, of constants only.
NoHandler == [blk |-> NoBlock, active |-> FALSE]
EmptyMap  == [m \in Msg |-> NoHandler]
Known(f)  == {m \in Msg : f[m].blk # NoBlock}
With(f, m, b, act) == [f EXCEPT ![m] = [blk |-> b, active |-> act]]
Without(f, ms)     == [m \in Msg |-> IF m \in ms THEN NoHandler ELSE f[m]]

\* No two slots answer the same message.
Unique(h) == \A i, j \in Used(h) : h.ev[i].msg = h.ev[j].msg => i = j

LEMMA MsgPositive == MinMsg > 0 => \A m \in Msg : m # 0 /\ m \in Nat
  BY AppEventsAssumption DEF Msg

\* The map of a holder, message by message.
LEMMA AsMapAt ==
  ASSUME MinMsg > 0, NEW h, Unique(h), NEW m \in Msg
  PROVE  /\ \A i \in Slot : h.ev[i].msg = m =>
              AsMap(h)[m] = [blk |-> h.ev[i].blk, active |-> h.ev[i].active]
         /\ Absent(h.ev, m) => AsMap(h)[m] = [blk |-> NoBlock, active |-> FALSE]
<1>1. m # 0
  BY MsgPositive
<1>2. ASSUME NEW i \in Slot, h.ev[i].msg = m
      PROVE  AsMap(h)[m] = [blk |-> h.ev[i].blk, active |-> h.ev[i].active]
  <2> DEFINE c == CHOOSE j \in Slot : h.ev[j].msg = m
  <2>1. c \in Slot /\ h.ev[c].msg = m
    BY <1>2
  <2>2. c = i
    BY <1>1, <1>2, <2>1 DEF Unique, Used
  <2>3. AsMap(h)[m] = [blk |-> h.ev[c].blk, active |-> h.ev[c].active]
    BY <1>2 DEF AsMap
  <2> QED  BY <2>2, <2>3
<1>3. ASSUME Absent(h.ev, m)
      PROVE  AsMap(h)[m] = [blk |-> NoBlock, active |-> FALSE]
  BY <1>3 DEF Absent, AsMap
<1> QED  BY <1>2, <1>3

\* Slots that differ in slot i only, which holds m in g: g has m on top of h.
LEMMA AsMapPut ==
  ASSUME MinMsg > 0, NEW h, NEW g, Unique(h), Unique(g), NEW m \in Msg, NEW i \in Slot,
         \A j \in Slot \ {i} : g.ev[j] = h.ev[j],
         h.ev[i].msg \in {m, 0}, g.ev[i].msg = m
  PROVE  AsMap(g) = [AsMap(h) EXCEPT ![m] = [blk |-> g.ev[i].blk, active |-> g.ev[i].active]]
<1> DEFINE new == [blk |-> g.ev[i].blk, active |-> g.ev[i].active]
<1>1. ASSUME NEW n \in Msg  PROVE AsMap(g)[n] = IF n = m THEN new ELSE AsMap(h)[n]
  <2>1. CASE n = m
    BY <2>1, AsMapAt
  <2>2. CASE n # m
    <3>1. CASE \E j \in Slot : g.ev[j].msg = n
      <4>1. PICK j \in Slot : g.ev[j].msg = n
        BY <3>1
      <4>2. j # i /\ h.ev[j] = g.ev[j]
        BY <2>2, <4>1
      <4>3. AsMap(g)[n] = [blk |-> g.ev[j].blk, active |-> g.ev[j].active]
        BY <4>1, AsMapAt
      <4>4. AsMap(h)[n] = [blk |-> h.ev[j].blk, active |-> h.ev[j].active]
        BY <4>1, <4>2, AsMapAt
      <4> QED  BY <2>2, <4>2, <4>3, <4>4, Zenon
    <3>2. CASE Absent(g.ev, n)
      <4>1. Absent(h.ev, n)
        BY <2>2, <3>2, MsgPositive DEF Absent
      <4> QED  BY <2>2, <3>2, <4>1, AsMapAt
    <3> QED  BY <3>1, <3>2 DEF Absent
  <2> QED  BY <2>1, <2>2
<1> HIDE DEF new
<1>2. AsMap(g) = [n \in Msg |-> AsMap(g)[n]] /\ AsMap(h) = [n \in Msg |-> AsMap(h)[n]]
  BY DEF AsMap
<1> QED  BY <1>1, <1>2 DEF new

\* Slot i is cleared.
LEMMA AsMapCut ==
  ASSUME MinMsg > 0, NEW h, NEW g, Unique(h), Unique(g), NEW m \in Msg, NEW i \in Slot,
         \A j \in Slot \ {i} : g.ev[j] = h.ev[j],
         h.ev[i].msg = m, g.ev[i].msg = 0
  PROVE  AsMap(g) = [n \in Msg |-> IF n \in {m} THEN NoHandler ELSE AsMap(h)[n]]
<1>1. ASSUME NEW n \in Msg
      PROVE  AsMap(g)[n] = IF n \in {m} THEN NoHandler ELSE AsMap(h)[n]
  <2>1. CASE n = m
    <3>1. Absent(g.ev, m)
      <4> SUFFICES ASSUME NEW j \in Slot, g.ev[j].msg = m  PROVE FALSE
        BY DEF Absent
      <4>1. j # i /\ h.ev[j].msg = m
        BY MsgPositive
      <4> QED  BY <4>1, MsgPositive DEF Unique, Used
    <3> QED  BY <2>1, <3>1, AsMapAt DEF NoHandler
  <2>2. CASE n # m
    <3>1. CASE \E j \in Slot : g.ev[j].msg = n
      <4>1. PICK j \in Slot : g.ev[j].msg = n
        BY <3>1
      <4>2. j # i /\ h.ev[j] = g.ev[j]
        BY <4>1, MsgPositive
      <4>3. AsMap(g)[n] = [blk |-> g.ev[j].blk, active |-> g.ev[j].active]
        BY <4>1, AsMapAt
      <4>4. AsMap(h)[n] = [blk |-> h.ev[j].blk, active |-> h.ev[j].active]
        BY <4>1, <4>2, AsMapAt
      <4> QED  BY <2>2, <4>2, <4>3, <4>4
    <3>2. CASE Absent(g.ev, n)
      <4>1. Absent(h.ev, n)
        BY <2>2, <3>2, MsgPositive DEF Absent
      <4> QED  BY <2>2, <3>2, <4>1, AsMapAt
    <3> QED  BY <3>1, <3>2 DEF Absent
  <2> QED  BY <2>1, <2>2
<1>2. AsMap(g) = [n \in Msg |-> AsMap(g)[n]]
  BY DEF AsMap
<1> QED  BY <1>1, <1>2

\* A holder that is not installed stands for the empty map.
LEMMA AsMapEmpty ==
  ASSUME MinMsg > 0, NEW h, Used(h) = {}
  PROVE  AsMap(h) = EmptyMap /\ Unique(h)
<1>1. \A m \in Msg : Absent(h.ev, m)
  BY MsgPositive DEF Used, Absent
<1>2. Unique(h)
  BY DEF Unique
<1> QED  BY <1>1, <1>2 DEF AsMap, Absent, EmptyMap, NoHandler

\* The messages a holder knows are those of its slots.
LEMMA KnownOf ==
  ASSUME MinMsg > 0, NEW h, Unique(h), Filled(h)
  PROVE  Known(AsMap(h)) = {h.ev[i].msg : i \in Used(h)}
<1>1. ASSUME NEW m \in Msg
      PROVE  AsMap(h)[m].blk # NoBlock <=> \E i \in Used(h) : h.ev[i].msg = m
  <2>1. CASE Absent(h.ev, m)
    BY <2>1, AsMapAt DEF Absent, Used
  <2>2. ASSUME NEW i \in Slot, h.ev[i].msg = m
        PROVE  AsMap(h)[m].blk # NoBlock /\ i \in Used(h)
    <3>1. h.ev[i].blk \in Blocks
      BY <2>2, MsgPositive DEF Filled
    <3>2. AsMap(h)[m] = [blk |-> h.ev[i].blk, active |-> h.ev[i].active]
      BY <2>2, AsMapAt
    <3>3. AsMap(h)[m].blk # NoBlock
      BY <3>1, <3>2, AppEventsAssumption
    <3> QED  BY <2>2, <3>3, MsgPositive DEF Used
  <2> QED  BY <2>1, <2>2 DEF Absent
<1>2. \A i \in Used(h) : h.ev[i].msg \in Msg
  BY DEF Filled, Used
<1> QED  BY <1>1, <1>2 DEF Known

\* A holder is installed exactly while its map has a handler.
LEMMA KnownWhileInstalled ==
  ASSUME MinMsg > 0, NEW h, Sound(h), Filled(h)
  PROVE  /\ Unique(h)
         /\ h.installed <=> Known(AsMap(h)) # {}
         /\ ~h.installed => AsMap(h) = EmptyMap /\ h.active = FALSE
<1>1. Unique(h)
  BY DEF Sound, Unique
<1>2. h.installed <=> Used(h) # {}
  BY UsedFinite, FS_EmptySet DEF Sound
<1>3. Known(AsMap(h)) # {} <=> Used(h) # {}
  <2>1. Known(AsMap(h)) = {h.ev[i].msg : i \in Used(h)}
    BY <1>1, KnownOf
  <2> QED  BY <2>1
<1> QED  BY <1>1, <1>2, <1>3, AsMapEmpty DEF Filled

\* The handler of a message is replaced in its slot.
LEMMA ReplaceMap ==
  ASSUME MinMsg > 0, NEW h, Sound(h), Filled(h), NEW m \in Msg, NEW i \in Slot,
         At(h.ev, m, i), NEW b \in Blocks, NEW act \in BOOLEAN
  PROVE  /\ Filled(Fill(h, i, m, b, act))
         /\ Sound(Fill(h, i, m, b, act))
         /\ AsMap(Fill(h, i, m, b, act)) = With(AsMap(h), m, b, act)
         /\ Fill(h, i, m, b, act).active = h.active
         /\ h.installed /\ Fill(h, i, m, b, act).installed
         /\ m \in Known(AsMap(h))
         /\ AsMap(h)[m].blk = h.ev[i].blk
<1> DEFINE g == Fill(h, i, m, b, act)
<1>1. m \in Nat /\ m # 0 /\ h.ev[i].msg = m /\ i \in Used(h)
  BY MsgPositive DEF At, Used
<1>2. Sound(g)
  BY <1>1, ReplaceSound
<1>3. /\ \A j \in Slot \ {i} : g.ev[j] = h.ev[j]
      /\ g.ev[i] = [msg |-> m, blk |-> b, active |-> act]
      /\ g.active = h.active /\ g.installed = h.installed
  BY DEF Fill, Sound, Holder
<1>4. h.installed
  BY <1>1, UsedFinite, FS_EmptySet DEF Sound
<1>5. Unique(h) /\ Unique(g)
  BY <1>2 DEF Sound, Unique
<1> HIDE DEF g
<1>6. Filled(g)
  BY <1>3, <1>4 DEF Filled
<1>7. AsMap(g) = [AsMap(h) EXCEPT ![m] = [blk |-> b, active |-> act]]
  <2>1. h.ev[i].msg \in {m, 0} /\ g.ev[i].msg = m
    BY <1>1, <1>3
  <2>2. g.ev[i].blk = b /\ g.ev[i].active = act
    BY <1>3
  <2>3. AsMap(g) = [AsMap(h) EXCEPT ![m] = [blk |-> g.ev[i].blk, active |-> g.ev[i].active]]
    BY <1>3, <1>5, <2>1, AsMapPut
  <2> QED  BY <2>2, <2>3
<1>8. m \in Known(AsMap(h))
  BY <1>1, <1>5, KnownOf
<1>9. AsMap(h)[m].blk = h.ev[i].blk
  <2>1. AsMap(h)[m] = [blk |-> h.ev[i].blk, active |-> h.ev[i].active]
    BY <1>1, <1>5, AsMapAt
  <2> QED  BY <2>1
<1> QED  BY <1>2, <1>3, <1>4, <1>6, <1>7, <1>8, <1>9 DEF g, With

\* A holder with a free slot has room for a message.
LEMMA RoomLeft ==
  ASSUME MinMsg > 0, NEW h, Unique(h), Filled(h), NEW i \in Slot, i \notin Used(h)
  PROVE  Cardinality(Known(AsMap(h))) < MaxEvents
<1> DEFINE known == Known(AsMap(h))
<1> DEFINE f == [m \in known |-> CHOOSE j \in Used(h) : h.ev[j].msg = m]
<1>1. IsFiniteSet(Slot) /\ Cardinality(Slot) = MaxEvents
  BY AppEventsAssumption, FS_Interval DEF Slot
<1>2. IsFiniteSet(Slot \ {i}) /\ Cardinality(Slot \ {i}) = MaxEvents - 1
  BY <1>1, FS_RemoveElement
<1>3. Used(h) \subseteq Slot \ {i}
  BY DEF Used
<1>4. known = {h.ev[j].msg : j \in Used(h)}
  BY KnownOf
<1> HIDE DEF known
<1>5. \A m \in known : f[m] \in Slot \ {i} /\ h.ev[f[m]].msg = m
  <2> SUFFICES ASSUME NEW m \in known  PROVE f[m] \in Slot \ {i} /\ h.ev[f[m]].msg = m
    OBVIOUS
  <2>1. \E j \in Used(h) : h.ev[j].msg = m
    BY <1>4
  <2> QED  BY <1>3, <2>1
<1> DEFINE f0 == f
<1>6. f0 \in [known -> Slot \ {i}] /\ \A m \in known : h.ev[f0[m]].msg = m
  BY <1>5
<1> HIDE DEF f0
<1>7. f0 \in Injection(known, Slot \ {i})
  BY <1>6, Zenon DEF Injection, IsInjective
<1>8. Cardinality(known) <= MaxEvents - 1 /\ IsFiniteSet(known)
  BY <1>2, <1>7, FS_Injection
<1>9. Cardinality(known) \in Nat
  BY <1>8, FS_CardinalityType
<1> QED  BY <1>8, <1>9, AppEventsAssumption DEF known

\* A new message takes a free slot.
LEMMA TakeMap ==
  ASSUME MinMsg > 0, NEW h \in Holder, h.used = Cardinality(Used(h)), h.installed,
         Unique(h), Filled(h), NEW m \in Msg, NEW i \in Slot, Takes(h, m, i),
         NEW b \in Blocks, NEW act \in BOOLEAN
  PROVE  LET g == [Fill(h, i, m, b, act) EXCEPT !.used = @ + 1] IN
         /\ Filled(g) /\ Sound(g) /\ g.installed
         /\ AsMap(g) = With(AsMap(h), m, b, act)
         /\ g.active = h.active
         /\ Cardinality(Known(AsMap(h))) < MaxEvents
<1> DEFINE g == [Fill(h, i, m, b, act) EXCEPT !.used = @ + 1]
<1>1. m \in Nat \ {0} /\ Absent(h.ev, m) /\ At(h.ev, 0, i)
  BY MsgPositive DEF Takes
<1>2. Sound(g)
  BY <1>1, TakeSound DEF Unique
<1> DEFINE f == Fill(h, i, m, b, act)
<1>3. /\ \A j \in Slot \ {i} : f.ev[j] = h.ev[j]
      /\ f.ev[i] = [msg |-> m, blk |-> b, active |-> act]
      /\ f.active = h.active /\ f.installed /\ f \in Holder
  BY <1>1 DEF Fill, Holder, Event
<1>4. g = [f EXCEPT !.used = f.used + 1]
  BY Zenon
<1> HIDE DEF f, g
<1>5. g.ev = f.ev /\ g.active = f.active /\ g.installed
  BY <1>3, <1>4 DEF Holder
<1>6. Unique(g)
  BY <1>2 DEF Sound, Unique
<1>7. Filled(g)
  BY <1>3, <1>5 DEF Filled
<1>8. AsMap(g) = [AsMap(h) EXCEPT ![m] = [blk |-> b, active |-> act]]
  <2>1. h.ev[i].msg \in {m, 0} /\ g.ev[i].msg = m
    BY <1>1, <1>3, <1>5 DEF At
  <2>2. g.ev[i].blk = b /\ g.ev[i].active = act /\ \A j \in Slot \ {i} : g.ev[j] = h.ev[j]
    BY <1>3, <1>5
  <2>3. AsMap(g) = [AsMap(h) EXCEPT ![m] = [blk |-> g.ev[i].blk, active |-> g.ev[i].active]]
    BY <1>6, <2>1, <2>2, AsMapPut
  <2> QED  BY <2>2, <2>3
<1>9. i \notin Used(h)
  BY <1>1 DEF At, Used
<1> QED  BY <1>2, <1>3, <1>5, <1>7, <1>8, <1>9, RoomLeft DEF g, With

\* AppEventRemove takes the message, or all of them, out of the map.
LEMMA RemoveMap ==
  ASSUME MinMsg > 0, NEW h, Sound(h), Filled(h), h.installed, NEW m \in Msg \cup {0},
         NEW g \in AfterRemove(h, m), NEW ms, ms = IF m = 0 THEN Msg ELSE {m}
  PROVE  /\ Sound(g) /\ Filled(g)
         /\ g.active \in {h.active, FALSE}
         /\ g.installed => g.active = h.active
         /\ AsMap(g) = Without(AsMap(h), ms)
<1>0. Unique(h) /\ m \in Nat /\ Sound(g)
  BY RemoveSound, AppEventsAssumption DEF Sound, Unique, Msg
<1>1. /\ Filled(NoHolder) /\ NoHolder.active = FALSE /\ ~NoHolder.installed
      /\ AsMap(NoHolder) = EmptyMap
  <2>1. Filled(NoHolder) /\ NoHolder.active = FALSE /\ ~NoHolder.installed
    BY DEF Filled, NoHolder, EmptyEvent
  <2> QED  BY <2>1, NoHolderSound, KnownWhileInstalled
<1>2. CASE m = 0
  <2>1. g = NoHolder
    BY <1>2 DEF AfterRemove
  <2>2. EmptyMap = Without(AsMap(h), ms)
    BY <1>2 DEF EmptyMap, Without
  <2> QED  BY <1>0, <1>1, <2>1, <2>2
<1>3. CASE m # 0 /\ Absent(h.ev, m)
  <2>1. g = h
    <3>1. g = CleanUp(h)
      BY <1>3 DEF AfterRemove
    <3> QED  BY <3>1 DEF CleanUp, Sound
  <2>2. m \in Msg /\ AsMap(h)[m] = NoHandler
    BY <1>0, <1>3, AsMapAt DEF NoHandler
  <2>3. AsMap(h) = [n \in Msg |-> AsMap(h)[n]]
    BY DEF AsMap
  <2>4. AsMap(h) = Without(AsMap(h), ms)
    BY <1>3, <2>2, <2>3 DEF Without
  <2> QED  BY <1>0, <2>1, <2>4
<1>4. CASE m # 0 /\ ~Absent(h.ev, m)
  <2>1. PICK i \in Slot : At(h.ev, m, i) /\ g = CleanUp(ClearSlot(h, i))
    BY <1>4 DEF AfterRemove
  <2> DEFINE e == [h EXCEPT !.ev[i] = EmptyEvent]
  <2> DEFINE c == ClearSlot(h, i)
  <2>2. /\ e.active = h.active /\ e.installed /\ e \in Holder /\ e.used = h.used
        /\ e.ev[i] = EmptyEvent /\ \A j \in Slot \ {i} : e.ev[j] = h.ev[j]
    BY DEF Sound, Holder, EmptyEvent, Event
  <2>3. c = [e EXCEPT !.used = e.used - 1]
    BY Zenon DEF ClearSlot
  <2> HIDE DEF e, c
  <2>4. /\ c.active = h.active /\ c.installed /\ c.used = h.used - 1
        /\ c.ev[i].msg = 0 /\ \A j \in Slot \ {i} : c.ev[j] = h.ev[j]
    BY <2>2, <2>3 DEF Holder, EmptyEvent
  <2>5. h.ev[i].msg = m /\ m \in Msg
    BY <1>4, <2>1 DEF At
  <2>6. Unique(c)
    BY <1>0, <2>4, MsgPositive DEF Unique, Used
  <2>7. AsMap(c) = Without(AsMap(h), {m})
    BY <1>0, <2>4, <2>5, <2>6, AsMapCut DEF Without
  <2>8. Filled(c)
    BY <2>4 DEF Filled
  <2>9. g = CleanUp(c)
    BY <2>1 DEF c
  <2>10. CASE c.used # 0
    <3>1. g = c
      BY <2>9, <2>10 DEF CleanUp
    <3> QED  BY <1>0, <1>4, <2>4, <2>7, <2>8, <3>1
  <2>11. CASE c.used = 0
    <3>1. g = NoHolder
      BY <2>9, <2>11 DEF CleanUp
    <3>2. Used(c) = {}
      <4>1. h.used = 1 /\ Cardinality(Used(h)) = 1
        BY <2>4, <2>11 DEF Sound, Holder
      <4>2. i \in Used(h) /\ IsFiniteSet(Used(h))
        BY <1>4, <2>5, UsedFinite DEF Used
      <4>3. Cardinality(Used(h) \ {i}) = 0 /\ IsFiniteSet(Used(h) \ {i})
        BY <4>1, <4>2, FS_RemoveElement
      <4>4. Used(h) \ {i} = {}
        BY <4>3, FS_EmptySet
      <4> QED  BY <2>4, <4>4 DEF Used
    <3>3. AsMap(g) = AsMap(c)
      BY <1>1, <3>1, <3>2, AsMapEmpty
    <3> QED  BY <1>0, <1>1, <1>4, <2>7, <3>1, <3>3
  <2> QED  BY <2>10, <2>11
<1> QED  BY <1>2, <1>3, <1>4

-----------------------------------------------------------------------------
\* A table of windows and clauses that differs from another at one entry.
LEMMA PutEntry ==
  ASSUME NEW S, NEW F \in [Windows -> [Props -> S]], NEW G \in [Windows -> [Props -> S]],
         NEW w \in Windows, NEW p \in Props, NEW x \in S,
         \A v \in Windows, q \in Props : G[v][q] = IF v = w /\ q = p THEN x ELSE F[v][q]
  PROVE  G = [F EXCEPT ![w][p] = x]
<1> DEFINE E == [F EXCEPT ![w][p] = x]
<1>1. E \in [Windows -> [Props -> S]]
  OBVIOUS
<1>2. \A v \in Windows, q \in Props : E[v][q] = G[v][q]
  OBVIOUS
<1> HIDE DEF E
<1>3. ASSUME NEW v \in Windows  PROVE E[v] = G[v]
  <2>1. E[v] \in [Props -> S] /\ G[v] \in [Props -> S]
    BY <1>1
  <2> QED  BY <1>2, <2>1
<1>4. E = G
  BY <1>1, <1>3
<1> QED  BY <1>4 DEF E

\* What EventMap's SetMap says of the holders.
Put(w, p, f, switch) ==
  /\ [v \in Windows |-> [q \in Props |-> AsMap(prop[v][q])]]'
       = [[v \in Windows |-> [q \in Props |-> AsMap(prop[v][q])]] EXCEPT ![w][p] = f]
  /\ [v \in Windows |-> [q \in Props |-> prop[v][q].active]]'
       = [[v \in Windows |-> [q \in Props |-> prop[v][q].active]]
            EXCEPT ![w][p] = Known(f) # {} /\ switch]

\* A window gets holder g: its map becomes that of g.
LEMMA SetHolderMap ==
  ASSUME MinMsg > 0, prop \in [Windows -> [Props -> Holder]],
         NEW w \in Windows, NEW p \in Props, NEW g, Sound(g), Filled(g),
         SetHolder(w, p, g), NEW sw \in BOOLEAN, g.installed => g.active = sw,
         NEW f, f = AsMap(g)
  PROVE  Put(w, p, f, sw)
<1>0. g \in Holder /\ prop' \in [Windows -> [Props -> Holder]]
  BY DEF Sound, SetHolder
<1>1. \A v \in Windows, q \in Props :
        prop'[v][q] = IF v = w /\ q = p THEN g ELSE prop[v][q]
  BY DEF SetHolder
<1>2. g.active = (Known(f) # {} /\ sw)
  <2>1. g.active \in BOOLEAN
    BY DEF Sound, Holder
  <2> QED  BY <2>1, KnownWhileInstalled
<1> DEFINE M == [v \in Windows |-> [q \in Props |-> AsMap(prop[v][q])]]
<1> DEFINE O == [v \in Windows |-> [q \in Props |-> prop[v][q].active]]
<1>3. M' = [M EXCEPT ![w][p] = f]
  <2> DEFINE N == M'
  <2> DEFINE S == {AsMap(h) : h \in Holder}
  <2>1. M \in [Windows -> [Props -> S]] /\ N \in [Windows -> [Props -> S]] /\ f \in S
    BY <1>0
  <2>2. \A v \in Windows, q \in Props : N[v][q] = IF v = w /\ q = p THEN f ELSE M[v][q]
    BY <1>1
  <2> HIDE DEF M, N, S
  <2>3. N = [M EXCEPT ![w][p] = f]
    BY <2>1, <2>2, PutEntry
  <2> QED  BY <2>3 DEF N
<1>4. O' = [O EXCEPT ![w][p] = Known(f) # {} /\ sw]
  <2> DEFINE N == O'
  <2> DEFINE S == {h.active : h \in Holder}
  <2>1. O \in [Windows -> [Props -> S]] /\ N \in [Windows -> [Props -> S]] /\ g.active \in S
    BY <1>0
  <2>2. \A v \in Windows, q \in Props :
          N[v][q] = IF v = w /\ q = p THEN g.active ELSE O[v][q]
    BY <1>1
  <2> HIDE DEF O, N, S
  <2>3. N = [O EXCEPT ![w][p] = g.active]
    BY <2>1, <2>2, PutEntry
  <2> QED  BY <1>2, <2>3 DEF N
<1> QED  BY <1>3, <1>4 DEF Put

\* ... and what the invariant asks of the holders is kept.
LEMMA SetHolderFilled ==
  ASSUME RInv, NEW w \in Windows, NEW p \in Props, NEW g, Filled(g), SetHolder(w, p, g)
  PROVE  \A v \in Windows, q \in Props : Filled(prop'[v][q])
<1>1. \A v \in Windows, q \in Props :
        prop'[v][q] = IF v = w /\ q = p THEN g ELSE prop[v][q]
  BY DEF SetHolder, RInv, IInv
<1> QED  BY <1>1 DEF RInv

\* The entry of a window and clause in the abstract tables.
Entry(w, p) ==
  /\ [v \in Windows |-> [q \in Props |-> AsMap(prop[v][q])]][w][p] = AsMap(prop[w][p])
  /\ [v \in Windows |-> [q \in Props |-> prop[v][q].active]][w][p] = prop[w][p].active

LEMMA EntryOf == \A w \in Windows, p \in Props : Entry(w, p)
  BY DEF Entry

\* FiniteSets, as EventMap sees it.
LEMMA SameCardinality == \A S : EventMap!Cardinality(S) = Cardinality(S)
  BY DEF EventMap!Cardinality, Cardinality

AllFilled == \A w \in Windows, p \in Props : Filled(prop[w][p])

LEMMA HolderFacts ==
  ASSUME RInv, NEW w \in Windows, NEW p \in Props
  PROVE  /\ Sound(prop[w][p]) /\ Filled(prop[w][p]) /\ prop[w][p] \in Holder
         /\ prop \in [Windows -> [Props -> Holder]] /\ prop[w][p].active \in BOOLEAN
<1>1. Sound(prop[w][p]) /\ Filled(prop[w][p]) /\ prop \in [Windows -> [Props -> Holder]]
  BY DEF RInv, IInv
<1> QED  BY <1>1 DEF Holder

\* A step that only runs or ends handlers.
LEMMA SameTables ==
  ASSUME UNCHANGED prop, UNCHANGED live, UNCHANGED calls
  PROVE  UNCHANGED EventMap!vars
  BY DEF EventMap!vars

LEMMA RegisterMap ==
  ASSUME RInv, MinMsg > 0, NEW w, NEW p \in Props, NEW m, NEW b \in Blocks,
         NEW act \in BOOLEAN, Register(w, p, m, b, act)
  PROVE  /\ EventMap!Register(w, p, m, b, act) \/ UNCHANGED EventMap!vars
         /\ AllFilled'
<1>0. PICK o, h : /\ o = prop[w][p]
                  /\ h = IF o.installed THEN o ELSE NewHolder(act)
  OBVIOUS
<1> DEFINE sw == IF Known(AsMap(o)) = {} THEN act ELSE o.active
<1>1. w \in live /\ w \in Windows /\ m \in Msg /\ UNCHANGED <<live, calls>>
  BY DEF Register, RInv, IInv
<1>2. /\ Sound(o) /\ Filled(o) /\ o \in Holder /\ o.active \in BOOLEAN
      /\ prop \in [Windows -> [Props -> Holder]]
  BY <1>0, <1>1, HolderFacts
<1>3. o.installed <=> Known(AsMap(o)) # {}
  BY <1>2, KnownWhileInstalled
<1>4. /\ h \in Holder /\ h.used = Cardinality(Used(h)) /\ h.installed
      /\ Unique(h) /\ Filled(h) /\ AsMap(h) = AsMap(o) /\ h.active = sw
  <2>1. CASE o.installed
    BY <1>0, <1>2, <1>3, <2>1 DEF Sound, Unique
  <2>2. CASE ~o.installed
    <3> DEFINE n == NewHolder(act)
    <3>1. n \in Holder /\ n.installed /\ n.used = Cardinality(Used(n)) /\ Used(n) = {}
      BY NewHolderFacts
    <3>2. n.active = act
      BY DEF NewHolder, NoHolder
    <3> HIDE DEF n
    <3>3. AsMap(n) = EmptyMap /\ Unique(n)
      BY <3>1, AsMapEmpty
    <3>4. AsMap(o) = EmptyMap
      BY <1>2, <2>2, KnownWhileInstalled
    <3>5. Filled(n)
      BY <3>1 DEF Filled, Used
    <3>6. h = n
      BY <1>0, <2>2 DEF n
    <3> QED  BY <1>3, <2>2, <3>1, <3>2, <3>3, <3>4, <3>5, <3>6
  <2> QED  BY <2>1, <2>2
<1>5. sw \in BOOLEAN
  BY <1>2
<1>6. Entry(w, p)
  BY <1>1, EntryOf
<1>7. ASSUME NEW g, Sound(g), Filled(g), SetHolder(w, p, g), g.active = sw,
             AsMap(g) = With(AsMap(o), m, b, act),
             \/ m \in Known(AsMap(o))
             \/ Cardinality(Known(AsMap(o))) < MaxEvents
      PROVE  EventMap!Register(w, p, m, b, act) /\ AllFilled'
  <2>1. Put(w, p, AsMap(g), sw)
    BY <1>1, <1>2, <1>5, <1>7, SetHolderMap
  <2>2. AllFilled'
    BY <1>1, <1>7, SetHolderFilled DEF AllFilled
  <2> DEFINE M == [v \in Windows |-> [q \in Props |-> AsMap(prop[v][q])]]
  <2> DEFINE O == [v \in Windows |-> [q \in Props |-> prop[v][q].active]]
  <2> DEFINE f == [M[w][p] EXCEPT ![m] = [blk |-> b, active |-> act]]
  <2>3. M[w][p] = AsMap(o) /\ O[w][p] = o.active
    BY <1>0, <1>6 DEF Entry
  <2>4. M' = [M EXCEPT ![w][p] = AsMap(g)]
        /\ O' = [O EXCEPT ![w][p] = Known(AsMap(g)) # {} /\ sw]
    BY <2>1 DEF Put
  <2> HIDE DEF M, O
  <2>5. AsMap(g) = f
    BY <1>7, <2>3 DEF With
  <2>6. /\ EventMap!Known(f) = Known(AsMap(g))
        /\ EventMap!Known(M[w][p]) = Known(AsMap(o))
    BY <2>3, <2>5 DEF EventMap!Known, Known
  <2>7. M' = [M EXCEPT ![w][p] = f]
    BY <2>4, <2>5
  <2>8. sw = IF EventMap!Known(M[w][p]) = {} THEN act ELSE O[w][p]
    BY <2>3, <2>6
  <2>9. O' = [O EXCEPT ![w][p] = EventMap!Known(f) # {} /\ (IF EventMap!Known(M[w][p]) = {} THEN act ELSE O[w][p])]
    BY <2>4, <2>6, <2>8
  <2>10. \/ m \in EventMap!Known(M[w][p])
         \/ EventMap!Cardinality(EventMap!Known(M[w][p])) < MaxEvents
    BY <1>7, <2>6, SameCardinality
  <2> QED  BY <1>1, <2>2, <2>7, <2>9, <2>10
           DEF EventMap!Register, EventMap!SetMap, M, O
<1> HIDE DEF sw
<1>8. CASE \E i \in Slot : At(h.ev, m, i) /\ SetHolder(w, p, Fill(h, i, m, b, act))
  <2>1. PICK i \in Slot : At(h.ev, m, i) /\ SetHolder(w, p, Fill(h, i, m, b, act))
    BY <1>8
  <2>2. Sound(h)
    <3>1. i \in Used(h)
      BY <1>1, <2>1, MsgPositive DEF At, Used
    <3> QED  BY <1>4, <3>1, UsedFinite, FS_EmptySet DEF Sound, Unique
  <2> DEFINE g == Fill(h, i, m, b, act)
  <2>3. /\ Filled(g) /\ Sound(g) /\ AsMap(g) = With(AsMap(h), m, b, act)
        /\ g.active = h.active /\ m \in Known(AsMap(h))
    <3>1. At(h.ev, m, i) /\ Filled(h) /\ m \in Msg
      BY <1>1, <1>4, <2>1
    <3> QED  BY <2>2, <3>1, ReplaceMap
  <2> HIDE DEF g
  <2>4. SetHolder(w, p, g)
    BY <2>1 DEF g
  <2> QED  BY <1>4, <1>7, <2>3, <2>4
<1>9. CASE \E i \in Slot :
             /\ Takes(h, m, i)
             /\ SetHolder(w, p, [Fill(h, i, m, b, act) EXCEPT !.used = @ + 1])
  <2>1. PICK i \in Slot :
               /\ Takes(h, m, i)
               /\ SetHolder(w, p, [Fill(h, i, m, b, act) EXCEPT !.used = @ + 1])
    BY <1>9
  <2> DEFINE g == [Fill(h, i, m, b, act) EXCEPT !.used = @ + 1]
  <2>2. /\ Filled(g) /\ Sound(g) /\ AsMap(g) = With(AsMap(h), m, b, act)
        /\ g.active = h.active /\ Cardinality(Known(AsMap(h))) < MaxEvents
    BY <1>1, <1>4, <2>1, TakeMap
  <2>3. SetHolder(w, p, g)
    BY <2>1
  <2> HIDE DEF g
  <2> QED  BY <1>4, <1>7, <2>2, <2>3
<1>10. CASE UNCHANGED prop
  BY <1>1, <1>10, SameTables DEF RInv, AllFilled
<1> QED  BY <1>8, <1>9, <1>10, <1>0 DEF Register

LEMMA UnregisterMap ==
  ASSUME RInv, MinMsg > 0, NEW w, NEW p \in Props, NEW m \in Msg \cup {0}, Unregister(w, p, m)
  PROVE  /\ EventMap!Unregister(w, p, IF m = 0 THEN Msg ELSE {m})
         /\ AllFilled'
<1>z. PICK o : o = prop[w][p]
  OBVIOUS
<1> DEFINE ms == IF m = 0 THEN Msg ELSE {m}
<1>0. o.installed
  BY <1>z DEF Unregister
<1>1. w \in live /\ w \in Windows /\ UNCHANGED <<live, calls>>
  BY DEF Unregister, RInv, IInv
<1>2. /\ Sound(o) /\ Filled(o) /\ o.active \in BOOLEAN
      /\ prop \in [Windows -> [Props -> Holder]]
  BY <1>z, <1>1, HolderFacts
<1>3. PICK g \in AfterRemove(o, m) : SetHolder(w, p, g)
  BY <1>z DEF Unregister
<1> HIDE DEF ms
<1>4. /\ Sound(g) /\ Filled(g) /\ (g.installed => g.active = o.active)
      /\ AsMap(g) = Without(AsMap(o), ms)
  BY <1>0, <1>2, <1>3, RemoveMap DEF ms
<1>5. AllFilled'
  BY <1>1, <1>3, <1>4, SetHolderFilled DEF AllFilled
<1>6. Put(w, p, Without(AsMap(o), ms), o.active)
  BY <1>1, <1>2, <1>3, <1>4, SetHolderMap
<1>7. Entry(w, p)
  BY <1>1, EntryOf
<1>8. EventMap!Unregister(w, p, ms)
  BY <1>z, <1>1, <1>6, <1>7 DEF EventMap!Unregister, EventMap!Forget, EventMap!NoHandler,
                            NoHandler, EventMap!SetMap, EventMap!Known, Known, Put, Entry, Without
<1> QED  BY <1>5, <1>8 DEF ms

LEMMA UpdateMap ==
  ASSUME RInv, MinMsg > 0, NEW w, NEW p \in Props, NEW m, NEW b \in Blocks \cup {NoBlock},
         NEW act \in BOOLEAN, Update(w, p, m, b, act)
  PROVE  /\ \/ m \in Msg /\ EventMap!Update(w, p, m, b, act)
            \/ EventMap!Switch(w, p, act)
         /\ AllFilled'
<1>z. PICK o : o = prop[w][p]
  OBVIOUS
<1>0. o.installed
  BY <1>z DEF Update
<1>1. w \in live /\ w \in Windows /\ UNCHANGED <<live, calls>>
  BY DEF Update, RInv, IInv
<1>2. /\ Sound(o) /\ Filled(o) /\ o.active \in BOOLEAN /\ o \in Holder
      /\ prop \in [Windows -> [Props -> Holder]]
  BY <1>z, <1>1, HolderFacts
<1>3. Known(AsMap(o)) # {}
  BY <1>0, <1>2, KnownWhileInstalled
<1>4. Entry(w, p)
  BY <1>1, EntryOf
<1>5. CASE m \in Msg /\ \E i \in Slot :
             /\ At(o.ev, m, i)
             /\ SetHolder(w, p, Fill(o, i, m, IF b = NoBlock THEN o.ev[i].blk ELSE b, act))
  <2>1. PICK i \in Slot :
             /\ At(o.ev, m, i)
             /\ SetHolder(w, p, Fill(o, i, m, IF b = NoBlock THEN o.ev[i].blk ELSE b, act))
    BY <1>5
  <2> DEFINE c == IF b = NoBlock THEN o.ev[i].blk ELSE b
  <2> DEFINE g == Fill(o, i, m, c, act)
  <2>2. c \in Blocks
    BY <1>2, <1>5, <2>1, MsgPositive DEF At, Filled
  <2> HIDE DEF c
  <2>3. SetHolder(w, p, g)
    BY <2>1 DEF c
  <2>4. /\ Filled(g) /\ Sound(g) /\ AsMap(g) = With(AsMap(o), m, c, act)
        /\ g.active = o.active /\ m \in Known(AsMap(o))
        /\ AsMap(o)[m].blk = o.ev[i].blk
    BY <1>2, <1>5, <2>1, <2>2, ReplaceMap
  <2> HIDE DEF g
  <2>5. AllFilled'
    BY <1>1, <2>3, <2>4, SetHolderFilled DEF AllFilled
  <2>6. c = IF b = NoBlock THEN AsMap(o)[m].blk ELSE b
    BY <2>4 DEF c
  <2>7. Put(w, p, AsMap(g), o.active)
    BY <1>1, <1>2, <2>3, <2>4, SetHolderMap
  <2>8. AsMap(g) = [AsMap(o) EXCEPT ![m] = [blk |-> IF b = NoBlock THEN @.blk ELSE b,
                                            active |-> act]]
    BY <2>4, <2>6 DEF With
  <2>9. EventMap!Update(w, p, m, b, act)
    <3> DEFINE M == [v \in Windows |-> [q \in Props |-> AsMap(prop[v][q])]]
    <3> DEFINE O == [v \in Windows |-> [q \in Props |-> prop[v][q].active]]
    <3> DEFINE f == [M[w][p] EXCEPT ![m] = [blk |-> IF b = NoBlock THEN @.blk ELSE b,
                                            active |-> act]]
    <3>3. M[w][p] = AsMap(o) /\ O[w][p] = o.active
      BY <1>z, <1>4 DEF Entry
    <3>4. M' = [M EXCEPT ![w][p] = AsMap(g)]
          /\ O' = [O EXCEPT ![w][p] = Known(AsMap(g)) # {} /\ o.active]
      BY <2>7 DEF Put
    <3> HIDE DEF M, O
    <3>5. AsMap(g) = f
      BY <2>8, <3>3
    <3>6. /\ EventMap!Known(f) = Known(AsMap(g))
          /\ EventMap!Known(M[w][p]) = Known(AsMap(o))
      BY <3>3, <3>5 DEF EventMap!Known, Known
    <3>7. M' = [M EXCEPT ![w][p] = f]
      BY <3>4, <3>5
    <3>8. O' = [O EXCEPT ![w][p] = EventMap!Known(f) # {} /\ O[w][p]]
      BY <3>3, <3>4, <3>6
    <3>9. m \in EventMap!Known(M[w][p])
      BY <2>4, <3>6
    <3> QED  BY <1>1, <3>7, <3>8, <3>9 DEF EventMap!Update, EventMap!SetMap, M, O
  <2> QED  BY <1>5, <2>5, <2>9
<1>6. CASE SetHolder(w, p, [o EXCEPT !.active = act])
  <2> DEFINE g == [o EXCEPT !.active = act]
  <2>1. g \in Holder /\ g.ev = o.ev /\ g.used = o.used /\ g.installed = o.installed
        /\ g.active = act
    BY <1>2 DEF Holder
  <2>2. SetHolder(w, p, g)
    BY <1>6
  <2> HIDE DEF g
  <2>3. Sound(g) /\ Filled(g) /\ AsMap(g) = AsMap(o)
    BY <1>0, <1>2, <2>1 DEF Sound, Used, Filled, AsMap
  <2>4. AllFilled'
    BY <1>1, <2>2, <2>3, SetHolderFilled DEF AllFilled
  <2>5. Put(w, p, AsMap(o), act)
    BY <1>1, <1>2, <2>1, <2>2, <2>3, SetHolderMap
  <2>6. EventMap!Switch(w, p, act)
    BY <1>z, <1>1, <1>3, <1>4, <2>5 DEF EventMap!Switch, EventMap!SetMap, EventMap!Known, Known, Put, Entry
  <2> QED  BY <2>4, <2>6
<1> QED  BY <1>z, <1>5, <1>6 DEF Update

\* A handler runs exactly when the map has it switched on.
LEMMA ReadyFires ==
  ASSUME MinMsg > 0, NEW h, Sound(h), Filled(h), NEW m \in Msg
  PROVE  /\ (h.active /\ AsMap(h)[m].active) <=> \E i \in Slot : Fires(h, m, i)
         /\ \A i \in Slot : Fires(h, m, i) =>
              AsMap(h)[m].blk = h.ev[i].blk /\ h.ev[i].blk \in Blocks
<1>1. Unique(h) /\ m # 0 /\ m \in Nat
  BY MsgPositive DEF Sound, Unique
<1>2. ASSUME NEW i \in Slot, h.ev[i].msg = m
      PROVE  /\ AsMap(h)[m].active = h.ev[i].active
             /\ AsMap(h)[m].blk = h.ev[i].blk /\ h.ev[i].blk \in Blocks
             /\ At(h.ev, m, i)
  <2>1. AsMap(h)[m] = [blk |-> h.ev[i].blk, active |-> h.ev[i].active]
    BY <1>1, <1>2, AsMapAt
  <2>2. h.ev[i].blk \in Blocks
    BY <1>1, <1>2 DEF Filled
  <2>3. \A j \in 1 .. i-1 : j \in Slot /\ j # i
    BY AppEventsAssumption DEF Slot
  <2>4. At(h.ev, m, i)
    BY <1>1, <1>2, <2>3 DEF At, Unique, Used
  <2> QED  BY <2>1, <2>2, <2>4
<1>3. ASSUME Absent(h.ev, m)  PROVE AsMap(h)[m].active = FALSE
  <2>1. AsMap(h)[m] = [blk |-> NoBlock, active |-> FALSE]
    BY <1>1, <1>3, AsMapAt
  <2> QED  BY <2>1
<1>4. ASSUME NEW i \in Slot, Fires(h, m, i)
      PROVE  /\ h.active /\ AsMap(h)[m].active
             /\ AsMap(h)[m].blk = h.ev[i].blk /\ h.ev[i].blk \in Blocks
  <2>1. h.ev[i].msg = m /\ h.active /\ h.ev[i].active
    BY <1>4 DEF Fires, At
  <2> QED  BY <1>2, <2>1, Zenon
<1>5. ASSUME h.active, AsMap(h)[m].active  PROVE \E i \in Slot : Fires(h, m, i)
  <2>1. PICK i \in Slot : h.ev[i].msg = m
    BY <1>3, <1>5 DEF Absent
  <2>2. h.ev[i].active /\ h.ev[i].blk \in Blocks /\ At(h.ev, m, i)
    BY <1>2, <1>5, <2>1, Zenon
  <2>3. h.installed
    BY <1>5 DEF Filled
  <2>4. h.ev[i].blk # NoBlock
    BY <2>2, AppEventsAssumption
  <2>5. Fires(h, m, i)
    BY <1>5, <2>2, <2>3, <2>4, Zenon DEF Fires
  <2> QED  BY <2>5
<1> QED  BY <1>4, <1>5, Zenon

\* EventMap's Ready and Push, of the holders.
ReadyAt(w, p, m) == prop[w][p].active /\ AsMap(prop[w][p])[m].active
PushAt(below, w, p, m) ==
  calls' = Append(below, [win |-> w, prop |-> p, msg |-> m, blk |-> AsMap(prop[w][p])[m].blk])

\* Running the handler in a slot is running the handler of the map.
LEMMA FiresPush ==
  ASSUME RInv, MinMsg > 0, NEW w \in Windows, NEW p \in Props, NEW m \in Msg,
         NEW below \in Seq(MsgCall), NEW i \in Slot, Fires(prop[w][p], m, i),
         calls' = Append(below, [win |-> w, prop |-> p, msg |-> m, blk |-> prop[w][p].ev[i].blk])
  PROVE  ReadyAt(w, p, m) /\ PushAt(below, w, p, m) /\ calls' \in Seq(MsgCall)
<1>0. PICK h : h = prop[w][p]
  OBVIOUS
<1>1. Sound(h) /\ Filled(h)
  BY <1>0, HolderFacts
<1>2. Fires(h, m, i)
  BY <1>0
<1>3. h.active /\ AsMap(h)[m].active
  BY <1>1, <1>2, ReadyFires, Zenon
<1>4. AsMap(h)[m].blk = h.ev[i].blk /\ h.ev[i].blk \in Blocks
  BY <1>1, <1>2, ReadyFires, Zenon
<1>5. [win |-> w, prop |-> p, msg |-> m, blk |-> h.ev[i].blk] \in MsgCall
  BY <1>4 DEF MsgCall
<1>6. calls' \in Seq(MsgCall)
  BY <1>0, <1>5, AppendProperties
<1>7. ReadyAt(w, p, m)
  BY <1>0, <1>3 DEF ReadyAt
<1> QED  BY <1>0, <1>4, <1>6, <1>7 DEF PushAt

LEMMA SilentReady ==
  ASSUME RInv, MinMsg > 0, NEW w \in Windows, NEW p \in Props, NEW m \in Msg
  PROVE  Silent(prop[w][p], m) <=> ~ReadyAt(w, p, m)
<1>0. PICK h : h = prop[w][p]
  OBVIOUS
<1>1. Sound(h) /\ Filled(h)
  BY <1>0, HolderFacts
<1>2. (h.active /\ AsMap(h)[m].active) <=> \E i \in Slot : Fires(h, m, i)
  BY <1>1, ReadyFires, Zenon
<1> QED  BY <1>0, <1>2 DEF Silent, ReadyAt

LEMMA ThenOnMap ==
  ASSUME RInv, MinMsg > 0, NEW w \in Windows, NEW m \in Msg, NEW below \in Seq(MsgCall),
         ThenOn(w, m, below)
  PROVE  /\ IF ReadyAt(w, "ON", m) THEN PushAt(below, w, "ON", m) ELSE calls' = below
         /\ calls' \in Seq(MsgCall)
<1>0. "ON" \in Props
  BY DEF Props
<1>1. CASE \E i \in Slot :
             /\ Fires(prop[w]["ON"], m, i)
             /\ calls' = Append(below, [win |-> w, prop |-> "ON", msg |-> m,
                                        blk |-> prop[w]["ON"].ev[i].blk])
  BY <1>0, <1>1, FiresPush
<1>2. CASE Silent(prop[w]["ON"], m) /\ calls' = below
  BY <1>0, <1>2, SilentReady
<1> QED  BY <1>1, <1>2 DEF ThenOn

LEMMA EmitMap ==
  ASSUME RInv, MinMsg > 0, NEW w, NEW m, Emit(w, m)
  PROVE  /\ (w \in Windows /\ m \in Msg /\ EventMap!Emit(w, m)) \/ UNCHANGED EventMap!vars
         /\ calls' \in Seq(MsgCall)
<1>1. w \in live /\ w \in Windows /\ m \in Msg /\ UNCHANGED <<live, prop>>
      /\ calls \in Seq(MsgCall) /\ "ONCE" \in Props /\ "ON" \in Props
  BY DEF Emit, RInv, IInv, Props
<1> DEFINE M == [v \in Windows |-> [q \in Props |-> AsMap(prop[v][q])]]
<1> DEFINE O == [v \in Windows |-> [q \in Props |-> prop[v][q].active]]
<1>2. UNCHANGED <<live, M, O>>
  BY <1>1
<1>3. \A q \in Props : M[w][q] = AsMap(prop[w][q]) /\ O[w][q] = prop[w][q].active
  BY <1>1
<1> HIDE DEF M, O
<1>4. \A q \in Props : EventMap!Ready(w, q, m) <=> ReadyAt(w, q, m)
  BY <1>3 DEF EventMap!Ready, ReadyAt, M, O
<1>5. \A q \in Props : EventMap!Push(calls, w, q, m) <=> PushAt(calls, w, q, m)
  BY <1>3 DEF EventMap!Push, PushAt, M, O
<1>6. CASE \E i \in Slot :
             /\ Fires(prop[w]["ONCE"], m, i)
             /\ calls' = Append(calls, [win |-> w, prop |-> "ONCE", msg |-> m,
                                        blk |-> prop[w]["ONCE"].ev[i].blk])
  <2>1. ReadyAt(w, "ONCE", m) /\ PushAt(calls, w, "ONCE", m) /\ calls' \in Seq(MsgCall)
    BY <1>1, <1>6, FiresPush
  <2> QED  BY <1>1, <1>2, <1>4, <1>5, <2>1 DEF EventMap!Emit, M, O
<1>7. CASE Silent(prop[w]["ONCE"], m) /\ ThenOn(w, m, calls)
  <2>1. ~ReadyAt(w, "ONCE", m)
    BY <1>1, <1>7, SilentReady
  <2>2. /\ IF ReadyAt(w, "ON", m) THEN PushAt(calls, w, "ON", m) ELSE calls' = calls
        /\ calls' \in Seq(MsgCall)
    BY <1>1, <1>7, ThenOnMap
  <2>3. CASE ReadyAt(w, "ON", m)
    BY <1>1, <1>2, <1>4, <1>5, <2>1, <2>2, <2>3 DEF EventMap!Emit, M, O
  <2>4. CASE ~ReadyAt(w, "ON", m)
    BY <1>2, <2>2, <2>4 DEF EventMap!vars, M, O
  <2> QED  BY <2>2, <2>3, <2>4
<1> QED  BY <1>6, <1>7 DEF Emit

LEMMA TopIsMsgCall ==
  ASSUME calls \in Seq(MsgCall), calls # <<>>
  PROVE  Below \in Seq(MsgCall) /\ Top \in MsgCall
<1>1. Len(calls) \in Nat \ {0}
  OBVIOUS
<1>2. \A i \in 1 .. Len(calls) : calls[i] \in MsgCall
  BY ElementOfSeq
<1> QED  BY <1>1, <1>2, SubSeqProperties DEF Below, Top

\* What is left of holder h without message m.
Forgets(g, h, m) ==
  /\ Sound(g) /\ Filled(g)
  /\ g.installed => g.active = h.active
  /\ AsMap(g) = Without(AsMap(h), {m})

\* A ONCE handler that returns is out of the map; a window that is gone, or has
\* no holder any more, has nothing to lose.
LEMMA OnceForgotten ==
  ASSUME RInv, MinMsg > 0, ReturnOnce, NEW c, c = Top, c \in MsgCall
  PROVE  \E g : /\ SetHolder(c.win, "ONCE", g)
               /\ Forgets(g, prop[c.win]["ONCE"], c.msg)
<1> DEFINE w == c.win
<1> DEFINE m == c.msg
<1>0. PICK h : h = prop[w]["ONCE"]
  OBVIOUS
<1>1. w \in Windows /\ m \in Msg /\ "ONCE" \in Props /\ m # 0
  BY MsgPositive DEF MsgCall, Props
<1>2. /\ Sound(h) /\ Filled(h)
      /\ prop \in [Windows -> [Props -> Holder]]
  BY <1>0, <1>1, HolderFacts
<1>3. CASE w \in live /\ h.installed
  <2>1. PICK g \in AfterRemove(h, m) : SetHolder(w, "ONCE", g)
    BY <1>0, <1>3 DEF ReturnOnce
  <2>2. {m} = IF m = 0 THEN Msg ELSE {m}
    BY <1>1
  <2>3. h.installed
    BY <1>3
  <2>4. /\ Sound(g) /\ Filled(g) /\ (g.installed => g.active = h.active)
        /\ AsMap(g) = Without(AsMap(h), {m})
    <3> HIDE DEF m
    <3> QED  BY <1>1, <1>2, <2>1, <2>2, <2>3, RemoveMap
  <2> QED  BY <1>0, <2>1, <2>4 DEF Forgets
<1>4. CASE ~(w \in live /\ h.installed)
  <2>1. UNCHANGED prop
    BY <1>0, <1>4 DEF ReturnOnce
  <2>2. ~h.installed
    BY <1>0, <1>1, <1>4 DEF RInv, IInv, DestroyedHoldNothing, NoHolder
  <2>3. AsMap(h) = EmptyMap
    BY <1>2, <2>2, KnownWhileInstalled
  <2>4. EmptyMap = Without(EmptyMap, {m})
    BY DEF EmptyMap, Without
  <2>5. SetHolder(w, "ONCE", h)
    BY <1>0, <1>1, <1>2, <2>1 DEF SetHolder
  <2> QED  BY <1>0, <1>2, <2>3, <2>4, <2>5 DEF Forgets
<1> QED  BY <1>3, <1>4

LEMMA ReturnMap ==
  ASSUME RInv, MinMsg > 0, ReturnOn \/ ReturnOnce
  PROVE  EventMap!Return /\ AllFilled' /\ calls' \in Seq(MsgCall)
<1> DEFINE M == [v \in Windows |-> [q \in Props |-> AsMap(prop[v][q])]]
<1> DEFINE O == [v \in Windows |-> [q \in Props |-> prop[v][q].active]]
<1>1. calls # <<>> /\ UNCHANGED live /\ Below \in Seq(MsgCall) /\ Top \in MsgCall
  BY TopIsMsgCall DEF ReturnOn, ReturnOnce, RInv
<1>2. PICK c, bl : c = Top /\ bl = Below
  OBVIOUS
<1>3. c.win \in Windows /\ c.msg \in Msg /\ "ON" \in Props /\ "ONCE" \in Props
      /\ c \in MsgCall /\ bl \in Seq(MsgCall)
  BY <1>1, <1>2 DEF MsgCall, Props
<1>4. CASE ReturnOn
  <2>1. c.prop = "ON" /\ calls' = bl /\ UNCHANGED prop
    BY <1>2, <1>4 DEF ReturnOn
  <2>2. AllFilled'
    BY <2>1 DEF RInv, AllFilled
  <2>3. UNCHANGED <<M, O>>
    BY <2>1
  <2> HIDE DEF M, O
  <2> QED  BY <1>1, <1>2, <1>3, <2>1, <2>2, <2>3 DEF EventMap!Return, Top, Below, M, O
<1>5. CASE ReturnOnce
  <2>1. c.prop = "ONCE" /\ ThenOn(c.win, c.msg, bl)
    BY <1>2, <1>5 DEF ReturnOnce
  <2>2. /\ IF ReadyAt(c.win, "ON", c.msg) THEN PushAt(bl, c.win, "ON", c.msg) ELSE calls' = bl
        /\ calls' \in Seq(MsgCall)
    BY <1>3, <2>1, ThenOnMap
  <2>3. PICK g : /\ SetHolder(c.win, "ONCE", g)
                 /\ Forgets(g, prop[c.win]["ONCE"], c.msg)
    BY <1>2, <1>3, <1>5, OnceForgotten
  <2>4. AllFilled'
    BY <1>3, <2>3, SetHolderFilled DEF AllFilled, Forgets
  <2>5. PICK f, sw : f = AsMap(g) /\ sw = prop[c.win]["ONCE"].active
    OBVIOUS
  <2>6. sw \in BOOLEAN /\ prop \in [Windows -> [Props -> Holder]]
    BY <1>3, <2>5, HolderFacts
  <2>7. Put(c.win, "ONCE", f, sw)
    BY <1>3, <2>3, <2>5, <2>6, SetHolderMap DEF Forgets
  <2>8. /\ M' = [M EXCEPT ![c.win]["ONCE"] = f]
        /\ O' = [O EXCEPT ![c.win]["ONCE"] = Known(f) # {} /\ sw]
    BY <2>7 DEF Put
  <2>9. /\ M[c.win]["ONCE"] = AsMap(prop[c.win]["ONCE"]) /\ O[c.win]["ONCE"] = sw
        /\ M[c.win]["ON"] = AsMap(prop[c.win]["ON"])
        /\ O[c.win]["ON"] = prop[c.win]["ON"].active
    BY <1>3, <2>5
  <2> HIDE DEF M, O
  <2>10. f = [n \in Msg |-> IF n \in {c.msg} THEN EventMap!NoHandler ELSE M[c.win]["ONCE"][n]]
    BY <2>3, <2>5, <2>9 DEF Forgets, Without, NoHandler, EventMap!NoHandler
  <2> DEFINE t == calls[Len(calls)]
  <2> DEFINE below == SubSeq(calls, 1, Len(calls) - 1)
  <2>11. c = t /\ bl = below
    BY <1>2 DEF Top, Below
  <2>12. EventMap!Forget(t.win, "ONCE", {t.msg})
    <3>1. EventMap!Known(f) = Known(f)
      BY DEF EventMap!Known, Known
    <3>2. f = [n \in Msg |-> IF n \in {t.msg} THEN EventMap!NoHandler ELSE M[t.win]["ONCE"][n]]
      BY <2>10, <2>11
    <3>3. /\ M' = [M EXCEPT ![t.win]["ONCE"] = f]
          /\ O' = [O EXCEPT ![t.win]["ONCE"] = EventMap!Known(f) # {} /\ O[t.win]["ONCE"]]
      BY <2>8, <2>9, <2>11, <3>1
    <3> HIDE DEF t
    <3> QED  BY <3>2, <3>3 DEF EventMap!Forget, EventMap!SetMap, M, O
  <2>13. EventMap!Ready(t.win, "ON", t.msg) <=> ReadyAt(c.win, "ON", c.msg)
    BY <2>9, <2>11 DEF EventMap!Ready, ReadyAt, M, O
  <2>14. EventMap!Push(below, t.win, "ON", t.msg) <=> PushAt(bl, c.win, "ON", c.msg)
    BY <2>9, <2>11 DEF EventMap!Push, PushAt, M, O
  <2>15. t.prop = "ONCE"
    BY <2>1, <2>11
  <2>16. EventMap!Return
    BY <1>1, <2>2, <2>11, <2>12, <2>13, <2>14, <2>15 DEF EventMap!Return
  <2> QED  BY <2>2, <2>4, <2>16
<1> QED  BY <1>4, <1>5

LEMMA NoHolderMap ==
  MinMsg > 0 => /\ Filled(NoHolder) /\ NoHolder.active = FALSE
                /\ AsMap(NoHolder) = EventMap!Empty
<1> SUFFICES ASSUME MinMsg > 0
             PROVE  /\ Filled(NoHolder) /\ NoHolder.active = FALSE
                    /\ AsMap(NoHolder) = EventMap!Empty
  OBVIOUS
<1>1. Filled(NoHolder) /\ NoHolder.active = FALSE /\ ~NoHolder.installed
  BY DEF Filled, NoHolder, EmptyEvent
<1>2. AsMap(NoHolder) = EmptyMap
  BY <1>1, NoHolderSound, KnownWhileInstalled
<1>3. EmptyMap = EventMap!Empty
  BY DEF EmptyMap, NoHandler, EventMap!Empty, EventMap!NoHandler
<1> QED  BY <1>1, <1>2, <1>3

LEMMA SameProps == EventMap!Props = Props
  BY DEF EventMap!Props, Props

LEMMA DestroyMap ==
  ASSUME RInv, MinMsg > 0, NEW w, Destroy(w)
  PROVE  w \in Windows /\ EventMap!Destroy(w) /\ AllFilled'
<1> DEFINE M == [v \in Windows |-> [q \in Props |-> AsMap(prop[v][q])]]
<1> DEFINE O == [v \in Windows |-> [q \in Props |-> prop[v][q].active]]
<1>1. w \in live /\ w \in Windows /\ live' = live \ {w} /\ UNCHANGED calls
  BY DEF Destroy, RInv, IInv
<1>2. \A v \in Windows, q \in Props :
        prop'[v][q] = IF v = w THEN NoHolder ELSE prop[v][q]
  BY <1>1 DEF Destroy, RInv, IInv
<1>3. AllFilled'
  BY <1>2, NoHolderMap DEF AllFilled, RInv
<1>4. M' = [M EXCEPT ![w] = [q \in Props |-> EventMap!Empty]]
  <2>1. ASSUME NEW v \in Windows
        PROVE  [q \in Props |-> AsMap(prop[v][q])]'
                 = IF v = w THEN [q \in Props |-> EventMap!Empty]
                   ELSE [q \in Props |-> AsMap(prop[v][q])]
    BY <1>2, NoHolderMap
  <2> QED  BY <1>1, <2>1
<1>5. O' = [O EXCEPT ![w] = [q \in Props |-> FALSE]]
  <2>1. ASSUME NEW v \in Windows
        PROVE  [q \in Props |-> prop[v][q].active]'
                 = IF v = w THEN [q \in Props |-> FALSE]
                   ELSE [q \in Props |-> prop[v][q].active]
    BY <1>2, NoHolderMap
  <2> QED  BY <1>1, <2>1
<1> QED  BY <1>1, <1>3, <1>4, <1>5, SameProps DEF EventMap!Destroy

LEMMA InitMap == MinMsg > 0 /\ Init => RInv /\ EventMap!Init
<1> SUFFICES ASSUME MinMsg > 0, Init PROVE RInv /\ EventMap!Init
  OBVIOUS
<1>1. \A w \in Windows, p \in Props : prop[w][p] = NoHolder
  BY DEF Init
<1>2. calls = <<>> /\ live = Windows
  BY DEF Init
<1>3. RInv
  BY <1>1, <1>2, InitIInv, NoHolderMap DEF RInv
<1>4. [w \in Windows |-> [p \in Props |-> AsMap(prop[w][p])]]
        = [w \in Windows |-> [p \in Props |-> EventMap!Empty]]
  BY <1>1, NoHolderMap
<1>5. [w \in Windows |-> [p \in Props |-> prop[w][p].active]]
        = [w \in Windows |-> [p \in Props |-> FALSE]]
  BY <1>1, NoHolderMap
<1> QED  BY <1>2, <1>3, <1>4, <1>5, SameProps DEF EventMap!Init

\* Every step of the slots is a step of the maps, or none.
LEMMA NextMap ==
  ASSUME RInv, MinMsg > 0, [Next]_vars
  PROVE  RInv' /\ [EventMap!Next]_EventMap!vars
<1>1. IInv'
  BY NextInv DEF RInv
<1>2. RInv' <=> AllFilled' /\ calls' \in Seq(MsgCall)
  BY <1>1 DEF RInv, AllFilled, MsgCall
<1>3. AllFilled /\ calls \in Seq(MsgCall)
  BY DEF RInv, AllFilled
<1>4. ASSUME NEW w \in Windows, NEW p \in Props, NEW m \in Msg, NEW b \in Blocks,
             NEW act \in BOOLEAN, Register(w, p, m, b, act)
      PROVE  RInv' /\ [EventMap!Next]_EventMap!vars
  <2>1. (EventMap!Register(w, p, m, b, act) \/ UNCHANGED EventMap!vars) /\ AllFilled'
    BY <1>4, RegisterMap
  <2>2. calls' = calls
    BY <1>4 DEF Register
  <2> QED  BY <1>2, <1>3, <2>1, <2>2, SameProps DEF EventMap!Next
<1>5. ASSUME NEW w \in Windows, NEW p \in Props, NEW m \in Msg \cup {0}, Unregister(w, p, m)
      PROVE  RInv' /\ [EventMap!Next]_EventMap!vars
  <2>1. EventMap!Unregister(w, p, IF m = 0 THEN Msg ELSE {m}) /\ AllFilled'
    BY <1>5, UnregisterMap
  <2>2. calls' = calls
    BY <1>5 DEF Unregister
  <2>3. CASE m = 0
    <3>1. EventMap!Unregister(w, p, Msg)
      BY <2>1, <2>3
    <3> QED  BY <1>2, <1>3, <2>1, <2>2, <3>1, SameProps DEF EventMap!Next
  <2>4. CASE m # 0
    <3>1. EventMap!Unregister(w, p, {m}) /\ m \in Msg
      BY <2>1, <2>4
    <3> QED  BY <1>2, <1>3, <2>1, <2>2, <3>1, SameProps DEF EventMap!Next
  <2> QED  BY <2>3, <2>4
<1>6. ASSUME NEW w \in Windows, NEW p \in Props, NEW m \in Msg \cup {0},
             NEW b \in Blocks \cup {NoBlock}, NEW act \in BOOLEAN, Update(w, p, m, b, act)
      PROVE  RInv' /\ [EventMap!Next]_EventMap!vars
  <2>1. /\ \/ m \in Msg /\ EventMap!Update(w, p, m, b, act)
           \/ EventMap!Switch(w, p, act)
        /\ AllFilled'
    BY <1>6, UpdateMap
  <2>2. calls' = calls
    BY <1>6 DEF Update
  <2> QED  BY <1>2, <1>3, <2>1, <2>2, SameProps DEF EventMap!Next
<1>7. ASSUME NEW w \in Windows, NEW m \in Msg, Emit(w, m)
      PROVE  RInv' /\ [EventMap!Next]_EventMap!vars
  <2>1. EventMap!Emit(w, m) \/ UNCHANGED EventMap!vars
    BY <1>7, EmitMap
  <2>2. calls' \in Seq(MsgCall)
    BY <1>7, EmitMap
  <2>3. AllFilled'
    BY <1>3, <1>7 DEF Emit, AllFilled
  <2> QED  BY <1>2, <2>1, <2>2, <2>3 DEF EventMap!Next
<1>8. ASSUME NEW w \in Windows, Destroy(w)
      PROVE  RInv' /\ [EventMap!Next]_EventMap!vars
  <2>1. EventMap!Destroy(w) /\ AllFilled'
    BY <1>8, DestroyMap
  <2>2. calls' = calls
    BY <1>8 DEF Destroy
  <2> QED  BY <1>2, <1>3, <2>1, <2>2 DEF EventMap!Next
<1>9. CASE ReturnOn \/ ReturnOnce
  BY <1>2, <1>9, ReturnMap DEF EventMap!Next
<1>10. CASE UNCHANGED vars
  <2>1. UNCHANGED EventMap!vars
    BY <1>10, SameTables DEF vars
  <2> QED  BY <1>2, <1>3, <1>10, <2>1 DEF vars, AllFilled
<1> QED  BY <1>4, <1>5, <1>6, <1>7, <1>8, <1>9, <1>10 DEF Next, Program

\* The slot arrays implement the map of handlers that the commands promise: for
\* any windows, messages and number of slots no call loses, duplicates or
\* resurrects a handler, or runs a block the map does not hold.
THEOREM SlotsImplementMap == MinMsg > 0 => (Spec => ImplementsEventMap)
<1> SUFFICES ASSUME MinMsg > 0 PROVE Spec => ImplementsEventMap
  OBVIOUS
<1>1. Init => RInv /\ EventMap!Init
  BY InitMap
<1>2. RInv /\ [Next]_vars => RInv' /\ [EventMap!Next]_EventMap!vars
  BY NextMap
<1> QED  BY <1>1, <1>2, PTL DEF Spec, ImplementsEventMap, EventMap!Spec

===============================================================================
