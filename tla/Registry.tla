------------------------------- MODULE Registry -------------------------------
(***************************************************************************)
(* The slots and ids of the controls, as timers and hotkeys use them:      *)
(* h_timer.prg, h_hotkey.prg, the TIMER cases and the free list of         *)
(* h_controlmisc.prg, the WM_TIMER, WM_HOTKEY, WM_ACTIVATE and WM_SETFOCUS *)
(* handlers of h_events.prg. Win32 knows a timer or a hotkey by a window   *)
(* and a number; its message carries the number, and the handler looks the *)
(* number up among the ids of all controls.                                *)
(*                                                                         *)
(* Controls are numbered in the order of definition (who), so that the     *)
(* properties can tell a control from another one in the same slot or with *)
(* the same id. Left out: MDI windows, Escape in an open menu, the other   *)
(* types of controls, whose ids come from _GetId too.                      *)
(***************************************************************************)
EXTENDS Integers, Sequences, SequencesExt, FiniteSetsExt

CONSTANTS
  Windows,     \* the windows of the program
  Keys,        \* key and modifier of a hotkey
  IdSet,       \* the numbers Random() may return
  Intervals,   \* the intervals of timers
  MaxControls, \* bound: controls ever defined
  MaxQueue     \* bound: messages waiting

RegistryBounds ==
  /\ Windows \subseteq Nat \ {0} /\ IdSet \subseteq Nat \ {0} /\ Intervals \subseteq Nat \ {0}
  /\ MaxControls \in Nat
ASSUME RegistryAssumption == RegistryBounds

VARIABLES
  ctl,     \* the _HMG_aControl arrays: one record for each slot
  armed,   \* the timers Win32 has
  reg,     \* the hotkeys Win32 has
  queue,   \* WM_TIMER and WM_HOTKEY messages on their way, in any order
  focus,   \* the foreground window, None when it is another program's
  alive,   \* windows not destroyed
  global,  \* SET GLOBALHOTKEYS
  count,   \* history: controls defined so far
  strays,  \* history: hotkeys registered for a window that had not the focus
  denied   \* history: hotkeys Win32 refused because the key was taken

vars == <<ctl, armed, reg, queue, focus, alive, global, count, strays, denied>>

None  == 0
Slots == DOMAIN ctl

Control == [type : {"", "TIMER", "HOTKEY"}, win : Windows \cup {None}, id : IdSet \cup {0},
            key : Keys \cup {None}, once : BOOLEAN, enabled : BOOLEAN,
            value : Intervals \cup {0}, who : 0..MaxControls]
Message == [msg : {"TIMER", "HOTKEY"}, win : Windows, id : IdSet, who : 0..MaxControls]

Free  == [type |-> "", win |-> None, id |-> 0, key |-> None, once |-> FALSE,
          enabled |-> FALSE, value |-> 0, who |-> 0]
New   == count + 1
Live(who) == \E i \in Slots : ctl[i].type # "" /\ ctl[i].who = who

\* Of the controls C, those that are still there after a step.
Kept(C) == {c \in C : \E i \in DOMAIN ctl' : ctl'[i].who = c}

\* Mutant: the ids in use are not looked at.
GetIdAny(s) == IdSet

\* _GetId: a random number that no control in the slots s has as its id.
GetId(s) == {n \in IdSet : \A i \in DOMAIN s : s[i].id # n}

\* _GetControlFree: c takes the first deleted slot of s, or a new one.
Put(c, s) == LET gone == {i \in DOMAIN s : s[i].type = ""}
             IN  IF gone = {} THEN Append(s, c) ELSE [s EXCEPT ![Min(gone)] = c]

Timer(c)  == [win |-> c.win, id |-> c.id, every |-> c.value]
Hotkey(c) == [win |-> c.win, id |-> c.id, key |-> c.key, who |-> c.who]

\* SetTimer and KillTimer: one timer for a window and a number.
Killed(c)  == {t \in armed : <<t.win, t.id>> # <<c.win, c.id>>}
Started(c) == Killed(c) \cup {Timer(c)}

DefineTimer(w, id, every, once) ==
  LET c == [Free EXCEPT !.type = "TIMER", !.win = w, !.id = id, !.value = every,
                        !.once = once, !.enabled = TRUE, !.who = New]
  IN  /\ count < MaxControls /\ w \in alive /\ id \in GetId(ctl)
      /\ count' = New
      /\ armed' = Started(c)
      /\ ctl' = Put(c, ctl)
      /\ UNCHANGED <<reg, queue, focus, alive, global, strays, denied>>

\* RegisterHotKey fails when the key is taken, by any window. Registered in
\* turn, those of cs come out as:
InitHotKeys(r, cs) == r \cup {Hotkey(c) : c \in {d \in cs : \A q \in r : q.key # d.key}}
Without(r, cs)     == {q \in r : \A c \in cs : q.who # c.who}
HotkeysOf(W)       == {ctl[i] : i \in {j \in Slots : ctl[j].type = "HOTKEY" /\ ctl[j].win \in W}}

\* ON KEY: _ReleaseHotKey of the same key of the window, then a new one.
DefineHotKey(w, key, id) ==
  LET same == {d \in HotkeysOf({w}) : d.key = key}
      cut  == [i \in Slots |-> IF ctl[i] \in same THEN Free ELSE ctl[i]]
      c    == [Free EXCEPT !.type = "HOTKEY", !.win = w, !.id = id, !.key = key, !.who = New]
  IN  /\ count < MaxControls /\ w \in alive
      /\ id \in GetId(cut)
      /\ count' = New
      /\ reg' = InitHotKeys(Without(reg, same), {c})
      /\ ctl' = Put(c, cut)
      /\ strays' = Kept(IF w = focus THEN strays ELSE strays \cup {New})
      /\ denied' = Kept(IF Hotkey(c) \in reg' THEN denied ELSE denied \cup {New})
      /\ UNCHANGED <<armed, queue, focus, alive, global>>

\* _ReleaseHotKey, and Release of a timer: the slot is erased; Win32 goes on
\* with the timer.
EraseControl(i) ==
  /\ ctl[i].type # ""
  /\ ctl' = [ctl EXCEPT ![i] = Free]
  /\ reg' = Without(reg, {ctl[i]})
  /\ strays' = Kept(strays) /\ denied' = Kept(denied)
  /\ UNCHANGED <<armed, queue, focus, alive, global, count>>

\* Enabled := .T. starts the timer anew, enabled or not.
EnableTimer(i) ==
  /\ ctl[i].type = "TIMER"
  /\ armed' = Started(ctl[i])
  /\ ctl' = [ctl EXCEPT ![i].enabled = TRUE]
  /\ UNCHANGED <<reg, queue, focus, alive, global, count, strays, denied>>

DisableTimer(i) ==
  /\ ctl[i].type = "TIMER"
  /\ armed' = IF ctl[i].enabled THEN Killed(ctl[i]) ELSE armed
  /\ ctl' = [ctl EXCEPT ![i].enabled = FALSE]
  /\ UNCHANGED <<reg, queue, focus, alive, global, count, strays, denied>>

\* Mutant: a new interval starts the timer, enabled or not.
SetValueStarts(i, every) ==
  /\ ctl[i].type = "TIMER"
  /\ ctl' = [ctl EXCEPT ![i].value = every]
  /\ armed' = Killed(ctl[i]) \cup {Timer(ctl'[i])}
  /\ UNCHANGED <<reg, queue, focus, alive, global, count, strays, denied>>

\* The Value property: the new interval counts from now, if it is enabled.
SetValue(i, every) ==
  /\ ctl[i].type = "TIMER"
  /\ ctl' = [ctl EXCEPT ![i].value = every]
  /\ armed' = IF ctl[i].enabled THEN Killed(ctl[i]) \cup {Timer(ctl'[i])} ELSE armed
  /\ UNCHANGED <<reg, queue, focus, alive, global, count, strays, denied>>

-------------------------------------------------------------------------------
(* Win32: messages, focus.                                                 *)

\* The control that a timer of Win32 was started for, as long as it is there.
OwnerOf(w, id) ==
  LET own == {i \in Slots : ctl[i].type = "TIMER" /\ ctl[i].win = w /\ ctl[i].id = id}
  IN  IF own = {} THEN 0 ELSE ctl[Min(own)].who

\* A timer has at most one message on its way.
Tick(t) ==
  /\ Cardinality(queue) < MaxQueue
  /\ \A m \in queue : ~(m.msg = "TIMER" /\ m.win = t.win /\ m.id = t.id)
  /\ queue' = queue \cup {[msg |-> "TIMER", win |-> t.win, id |-> t.id, who |-> OwnerOf(t.win, t.id)]}
  /\ UNCHANGED <<ctl, armed, reg, focus, alive, global, count, strays, denied>>

Press(r) ==
  /\ Cardinality(queue) < MaxQueue
  /\ queue' = queue \cup {[msg |-> "HOTKEY", win |-> r.win, id |-> r.id, who |-> r.who]}
  /\ UNCHANGED <<ctl, armed, reg, focus, alive, global, count, strays, denied>>

\* AScan( _HMG_aControlIds, wParam ), 0 when it is nobody's.
Scan(id) == IF \E i \in Slots : ctl[i].id = id THEN Min({i \in Slots : ctl[i].id = id}) ELSE 0

\* WM_TIMER: a ONCE timer is disabled before its block runs.
OnTimer(m) ==
  LET i == Scan(m.id)
  IN  /\ m \in queue /\ m.msg = "TIMER"
      /\ i # 0 => ctl[i].type = "TIMER"
      /\ queue' = queue \ {m}
      /\ IF i # 0 /\ ctl[i].once
         THEN /\ armed' = (IF ctl[i].enabled THEN Killed(ctl[i]) ELSE armed)
              /\ ctl' = [ctl EXCEPT ![i].enabled = FALSE]
         ELSE UNCHANGED <<ctl, armed>>
      /\ UNCHANGED <<reg, focus, alive, global, count, strays, denied>>

\* The timer of a control that was released finds a hotkey with its number. What
\* marks a ONCE timer is no logical value there: the error ends the program.
TimerFails(m) ==
  LET i == Scan(m.id)
  IN  /\ m \in queue /\ m.msg = "TIMER"
      /\ i # 0 /\ ctl[i].type # "TIMER"
      /\ ctl' = <<>> /\ armed' = {} /\ reg' = {} /\ queue' = {}
      /\ focus' = None /\ alive' = {} /\ strays' = {} /\ denied' = {}
      /\ UNCHANGED <<global, count>>

\* WM_HOTKEY: its block runs when the window is in front, or always under
\* GLOBALHOTKEYS; the model keeps nothing of a block.
OnHotKey(m) ==
  /\ m \in queue /\ m.msg = "HOTKEY"
  /\ queue' = queue \ {m}
  /\ UNCHANGED <<ctl, armed, reg, focus, alive, global, count, strays, denied>>

\* Mutant: the hotkeys stay registered.
DeactivateKeeps ==
  /\ focus # None
  /\ focus' = None
  /\ strays' = {} /\ denied' = {}
  /\ UNCHANGED <<reg, ctl, armed, queue, alive, global, count>>

\* WM_ACTIVATE: another window, or another program, comes to the front.
Deactivate ==
  /\ focus # None
  /\ focus' = None
  /\ IF global THEN UNCHANGED <<reg, strays, denied>>
     ELSE /\ reg' = Without(reg, HotkeysOf(Windows))
          /\ strays' = {} /\ denied' = {}
  /\ UNCHANGED <<ctl, armed, queue, alive, global, count>>

\* Mutant: one loop releases and registers.
SetFocusOneLoop(w) ==
  /\ focus = None /\ w \in alive
  /\ focus' = w
  /\ reg' = FoldLeft(LAMBDA r, c : IF c.type # "HOTKEY" THEN r
                                   ELSE IF c.win # w THEN Without(r, {c})
                                   ELSE InitHotKeys(Without(r, {c}), {c}), reg, ctl)
  /\ strays' = {} /\ denied' = {}
  /\ UNCHANGED <<ctl, armed, queue, alive, global, count>>

\* WM_SETFOCUS: the hotkeys of all windows are released, then those of this one
\* registered.
SetFocus(w) ==
  /\ focus = None /\ w \in alive
  /\ focus' = w
  /\ reg' = InitHotKeys(Without(reg, HotkeysOf(Windows)), HotkeysOf({w}))
  /\ strays' = {} /\ denied' = {}
  /\ UNCHANGED <<ctl, armed, queue, alive, global, count>>

\* Mutant: the controls of the window stay defined.
DestroyKeeps(w) ==
  /\ w \in alive /\ focus # w
  /\ alive' = alive \ {w}
  /\ reg' = {r \in reg : r.win # w}
  /\ armed' = {t \in armed : t.win # w}
  /\ queue' = {m \in queue : m.win # w}
  /\ strays' = Kept(strays) /\ denied' = Kept(denied)
  /\ UNCHANGED <<ctl, focus, global, count>>

\* WM_DESTROY erases the controls of the window, which has lost the focus before;
\* Win32 forgets its timers, hotkeys and messages.
Destroy(w) ==
  /\ w \in alive /\ focus # w
  /\ alive' = alive \ {w}
  /\ ctl' = [i \in Slots |-> IF ctl[i].win = w THEN Free ELSE ctl[i]]
  /\ reg' = {r \in reg : r.win # w}
  /\ armed' = {t \in armed : t.win # w}
  /\ queue' = {m \in queue : m.win # w}
  /\ strays' = Kept(strays) /\ denied' = Kept(denied)
  /\ UNCHANGED <<focus, global, count>>

Init ==
  /\ ctl = <<>> /\ armed = {} /\ reg = {} /\ queue = {} /\ focus = None
  /\ alive = Windows /\ global \in BOOLEAN
  /\ count = 0 /\ strays = {} /\ denied = {}

Program ==
  \/ \E w \in Windows, id \in IdSet, every \in Intervals, once \in BOOLEAN : DefineTimer(w, id, every, once)
  \/ \E w \in Windows, key \in Keys, id \in IdSet : DefineHotKey(w, key, id)
  \/ \E i \in Slots : \/ EraseControl(i) \/ EnableTimer(i) \/ DisableTimer(i)
                      \/ \E every \in Intervals : SetValue(i, every)
  \/ \E w \in Windows : Destroy(w)

System == \/ \E t \in armed : Tick(t)
          \/ \E r \in reg : Press(r)
          \/ \E w \in Windows : SetFocus(w)
          \/ Deactivate

Handlers == \E m \in queue : OnTimer(m) \/ TimerFails(m) \/ OnHotKey(m)

Next == Program \/ System \/ Handlers

Spec == Init /\ [][Next]_vars

-------------------------------------------------------------------------------
TypeOK ==
  /\ ctl \in Seq(Control)
  /\ \A i \in Slots : ctl[i].win \in alive \cup {None}
  /\ focus \in alive \cup {None} /\ alive \subseteq Windows /\ global \in BOOLEAN
  /\ \A t \in armed : t.win \in alive /\ t.id \in IdSet /\ t.every \in Intervals
  /\ \A r \in reg : r.win \in alive /\ r.id \in IdSet /\ r.key \in Keys
  /\ queue \subseteq Message /\ count \in 0..MaxControls
  /\ (strays \cup denied) \subseteq 1..MaxControls

\* As long as a control is there, the messages on their way to it find it:
\* slots are used again meanwhile, the ids of living controls are not.
MessageFindsControl ==
  \A m \in queue : Live(m.who) => LET i == Scan(m.id) IN i # 0 /\ ctl[i].who = m.who

\* An enabled timer ticks, at the interval its Value gives; a disabled one does not.
EnabledTicks ==
  \A i \in Slots : ctl[i].type = "TIMER" =>
    IF ctl[i].enabled THEN Timer(ctl[i]) \in armed
    ELSE \A t \in armed : <<t.win, t.id>> # <<ctl[i].win, ctl[i].id>>

\* The keys the program takes from all others are those of its window in front,
\* except where ON KEY was given for a window that was not.
KeysOfFocus == \A r \in reg : r.who \in strays \/ r.win = focus \/ global

\* The window in front has all its hotkeys, except where ON KEY found the key
\* taken by a stray one.
KeysReachable ==
  focus # None => \A c \in HotkeysOf({focus}) : Hotkey(c) \in reg \/ c.who \in denied
=============================================================================
