-------------------------------- MODULE Forms --------------------------------
(***************************************************************************)
(* The windows of a program: definition, activation, modality, closing and *)
(* destruction (h_windows.prg, the WM_CLOSE, WM_DESTROY and WM_SETFOCUS    *)
(* handlers of h_events.prg, the message loops of c_windowsapi.c and       *)
(* c_winapimisc.c).  There is one thread: what is concurrent here is the   *)
(* re-entrance.  ACTIVATE WINDOW runs a message loop and returns when a    *)
(* WM_QUIT ends it; any loop dispatches any window's messages; a handler   *)
(* evaluates the program's blocks, and a block may define, activate, show, *)
(* hide and release windows and pump messages itself.  "stack" holds what  *)
(* is in progress, innermost last.                                         *)
(*                                                                         *)
(* The _HMG_aForm* arrays are one array of records here, with the fields   *)
(* the control flow reads; a deleted slot has the handle NoWin.  A window  *)
(* handle stands for one DEFINE WINDOW: it is never used again.            *)
(* Calls that MsgMiniGuiError refuses end the program and are not made;    *)
(* an error raised inside a handler or a loop ends it (halt).              *)
(***************************************************************************)
EXTENDS Integers, Sequences, FiniteSets

CONSTANTS
  Windows,      \* the windows the program may define
  Main,         \* the MAIN window, type "A"
  Modals,       \* the MODAL windows, type "M"; the others are CHILD windows
  NoWin,        \* the handle 0
  KeepAlive,    \* the windows defined NOAUTORELEASE
  HasInit, HasRelease, HasQuery, HasGotFocus,
                \* the windows with a block ON INIT, ON RELEASE,
                \* ON INTERACTIVECLOSE, ON GOTFOCUS
  Api,          \* the calls the program's blocks make
  Ids,          \* the values _GenActivateId() takes
  MaxDepth,     \* bound on the stack when input or a call arrives
  MaxPosted     \* bound on the posted messages

Calls == {"define", "activate", "nowait", "multi", "loop", "release", "show",
          "hide", "events"}

ASSUME FormsAssumption ==
  /\ IsFiniteSet(Windows)
  /\ Main \in Windows /\ NoWin \notin Windows
  /\ Modals \subseteq Windows \ {Main}
  /\ KeepAlive \subseteq Windows \ {Main}
  /\ HasInit \subseteq Windows /\ HasRelease \subseteq Windows
  /\ HasQuery \subseteq Windows /\ HasGotFocus \subseteq Windows
  /\ Api \subseteq Calls
  /\ Ids \subseteq Nat \ {0}
  /\ MaxDepth \in Nat /\ MaxPosted \in Nat

VARIABLES
  defined,      \* the windows defined so far
  form,         \* form[i]: slot i of the _HMG_aForm* arrays
  enabled,      \* the windows IsWindowEnabled() is true of
  visible,      \* the windows IsWindowVisible() is true of
  posted,       \* the windows WM_CLOSE is posted to, in order
  quit,         \* PostQuitMessage() was called and WM_QUIT not retrieved
  isModal,      \* _HMG_IsModalActive
  activeModal,  \* _HMG_ActiveModalHandle
  userWindow,   \* _HMG_UserWindowHandle
  mainActive,   \* _HMG_MainActive
  count,        \* count[id]: the memvar _HMG_ACTIVATE_<id>, 0 when released
  stack,        \* what is in progress, innermost last
  halt          \* "no", "quit" (the program ended) or "error"

desktop == <<enabled, visible>>
queue   == <<posted, quit>>
modal   == <<isModal, activeModal>>
vars    == <<defined, form, desktop, queue, modal, userWindow, mainActive, count, stack, halt>>

Slot   == 1 .. Cardinality(Windows)
Handle == Windows \cup {NoWin}
Form   == [h : Handle, active : BOOLEAN, parent : Handle, id : Ids \cup {0}]
Blank  == [h |-> NoWin, active |-> FALSE, parent |-> NoWin, id |-> 0]

(* Frames of the stack.                                                    *)
\* a block (the first is the main program); ev is _HMG_ThisEventType while it
\* runs, this is _HMG_ThisIndex, 0 in a control's event
Block(ev, i) == [k |-> "block", ev |-> ev, this |-> i]
\* DOMESSAGELOOP; wins are the windows whose activation started it
Loop(wins) == [k |-> "loop", wins |-> wins]
\* DOEVENTS, and INKEYGUI inside SuppressKeyAndMouseEvents
Events == [k |-> "events"]
Inkey  == [k |-> "inkey"]
\* _ActivateWindow at _SetActivationFlag( i ), or past SuppressKey... of i
Activating(i, pc) == [k |-> "activating", i |-> i, pc |-> pc]
\* _ActivateWindow in the loop over the rest of a list of windows
Multi(rest, id, wins) == [k |-> "multi", rest |-> rest, id |-> id, wins |-> wins]
\* the WM_CLOSE handler of window w, which found it in slot i
Closing(w, i, pc) == [k |-> "closing", w |-> w, i |-> i, pc |-> pc]
\* ReleaseAllWindows, slots 1 .. i done
All(i) == [k |-> "all", i |-> i]

BlockEvents == {"", "init", "query", "release", "gotfocus"}
Frame ==
       [k : {"block"}, ev : BlockEvents, this : Slot \cup {0}]
  \cup [k : {"loop"}, wins : SUBSET Windows]
  \cup [k : {"events", "inkey"}]
  \cup [k : {"activating"}, i : Slot, pc : {"flag", "init"}]
  \cup [k : {"multi"}, rest : Seq(Windows), id : Ids, wins : SUBSET Windows]
  \cup [k : {"closing"}, w : Windows, i : Slot, pc : {"ask", "asked", "released", "hidden"}]
  \cup [k : {"all"}, i : Slot \cup {0}]

TypeOK ==
  /\ defined \subseteq Windows
  /\ form \in [Slot -> Form]
  /\ enabled \subseteq Windows /\ visible \subseteq Windows
  /\ posted \in Seq(Windows) /\ quit \in BOOLEAN
  /\ isModal \in BOOLEAN /\ activeModal \in Handle
  /\ userWindow \in Handle /\ mainActive \in BOOLEAN
  /\ count \in [Ids -> Int]
  /\ stack \in Seq(Frame)
  /\ halt \in {"no", "quit", "error"}

Init ==
  /\ defined = {} /\ form = [i \in Slot |-> Blank]
  /\ enabled = {} /\ visible = {}
  /\ posted = <<>> /\ quit = FALSE
  /\ isModal = FALSE /\ activeModal = NoWin
  /\ userWindow = NoWin /\ mainActive = FALSE
  /\ count = [id \in Ids |-> 0]
  /\ stack = <<Block("", 0)>>
  /\ halt = "no"

-----------------------------------------------------------------------------
Live     == {form[i].h : i \in Slot} \ {NoWin}
Holds(i, w) == form[i].h = w
Top      == stack[Len(stack)]
Below    == SubSeq(stack, 1, Len(stack) - 1)
OnTop(k) == stack # <<>> /\ Top.k = k

\* The innermost block: its event is _HMG_ThisEventType.
Innermost(j) ==
  /\ j \in DOMAIN stack /\ stack[j].k = "block"
  /\ \A m \in DOMAIN stack : m > j => stack[m].k # "block"
InEvent(evs) == \E j \in DOMAIN stack : Innermost(j) /\ stack[j].ev \in evs

\* Mutant: keeps the slot of the window in place of its handle.
SetFocusIndex(w, s) ==
  \/ stack' = s /\ UNCHANGED userWindow
  \/ \E i \in Slot :
       /\ Holds(i, w)
       /\ Len(s) < MaxDepth
       /\ userWindow' = IF form[i].active THEN i ELSE userWindow
       /\ stack' = IF w \in HasGotFocus THEN Append(s, Block("gotfocus", i)) ELSE s

\* A window receives the focus on top of s, or not (it has it, it is hidden):
\* the WM_SETFOCUS handler.
SetFocus(w, s) ==
  \/ stack' = s /\ UNCHANGED userWindow
  \/ \E i \in Slot :
       /\ Holds(i, w)
       /\ Len(s) < MaxDepth
       /\ userWindow' = IF form[i].active THEN w ELSE userWindow
       /\ stack' = IF w \in HasGotFocus THEN Append(s, Block("gotfocus", i)) ELSE s

\* The window in slot i is hidden or destroyed with the focus: Windows gives it
\* to another window, or to none.
PassFocus(i, s) ==
  \/ stack' = s /\ UNCHANGED userWindow
  \/ \E v \in (visible \cap enabled) \ {form[i].h} : SetFocus(v, s)

\* The three cases of _hmg_OnHideFocusManagement( i ), on top of s: a window
\* without parent; a modal parent gets modality back; any other parent, or the
\* main window for a missing one, gets the program back.
OnHideNonModal(i, s) ==
  /\ enabled' = IF isModal THEN enabled ELSE enabled \cup Live
  /\ PassFocus(i, s)
  /\ UNCHANGED modal
\* (Mutants: the parent stays disabled; it counts as a non-modal one.)
ModalParentDisabled(p, s) ==
  isModal' = TRUE /\ activeModal' = p /\ UNCHANGED enabled /\ SetFocus(p, s)
ModalParentFrees(p, s) ==
  isModal' = FALSE /\ activeModal' = NoWin /\ enabled' = enabled \cup Live /\ SetFocus(p, s)
OnHideModalParent(p, s) ==
  /\ isModal' = TRUE /\ activeModal' = p
  /\ enabled' = enabled \cup {p}
  /\ SetFocus(p, s)
\* (Mutant: only the parent is enabled again.)
OtherParentOnly(p, s) ==
  isModal' = FALSE /\ activeModal' = NoWin /\ enabled' = enabled \cup {p} /\ SetFocus(p, s)
OnHideOtherParent(p, s) ==
  /\ isModal' = FALSE /\ activeModal' = NoWin
  /\ enabled' = enabled \cup Live
  /\ SetFocus(IF p \in Live THEN p ELSE Main, s)

OnHide(i, s) ==
  LET p == form[i].parent IN
  \/ p = NoWin /\ OnHideNonModal(i, s)
  \/ p \in Live \cap Modals /\ OnHideModalParent(p, s)
  \/ p \in Windows \ (Live \cap Modals) /\ OnHideOtherParent(p, s)

\* _HideWindow of the window w in slot i.
HideWindow(w, i, s) ==
  \/ /\ w \notin visible
     /\ stack' = s
     /\ UNCHANGED <<desktop, modal, userWindow, halt>>
  \/ /\ w \in visible /\ w \in Modals /\ activeModal # w
     /\ halt' = "error"
     /\ UNCHANGED <<desktop, modal, userWindow, stack>>
  \/ /\ w \in visible /\ ~(w \in Modals /\ activeModal # w)
     /\ visible' = visible \ {w}
     /\ OnHide(i, s)
     /\ UNCHANGED halt

\* _ShowWindow up to ShowWindow(), for the window w in slot i: a modal takes
\* its parent, disables all the others and becomes the active modal.
\* (Mutants: the parent is the last window used; nothing is disabled.)
UsedParent == IF userWindow \in Live THEN userWindow ELSE Main
ModalParent == IF isModal THEN activeModal
               ELSE IF userWindow \in Live THEN userWindow ELSE Main
ShownForm(w, i, f) ==
  IF w \in Modals THEN [f EXCEPT ![i].parent = ModalParent] ELSE f
ShowWindowOnly(w) ==
  /\ visible' = visible \cup {w}
  /\ UNCHANGED enabled
  /\ IF w \in Modals THEN isModal' = TRUE /\ activeModal' = w ELSE UNCHANGED modal
ShowWindow(w) ==
  /\ visible' = visible \cup {w}
  /\ IF w \in Modals
     THEN /\ enabled' = {w} \cup {x \in enabled : \A j \in Slot : Holds(j, x) => form[j].parent = w}
          /\ isModal' = TRUE /\ activeModal' = w
     ELSE UNCHANGED <<enabled, modal>>

-----------------------------------------------------------------------------
(* The calls a block makes.                                                *)

Calling(c) == OnTop("block") /\ c \in Api /\ Len(stack) < MaxDepth

\* DEFINE WINDOW .. END WINDOW: the first deleted slot, or a new one.
Define(w) ==
  /\ Calling("define")
  /\ w \notin defined /\ (w # Main => Main \in Live)
  /\ \E i \in Slot :
       /\ Holds(i, NoWin) /\ \A j \in 1 .. i-1 : ~Holds(j, NoWin)
       /\ form' = [form EXCEPT ![i] = [h |-> w, active |-> FALSE, id |-> 0,
                     parent |-> IF w \in Modals THEN Main ELSE NoWin]]
  /\ defined' = defined \cup {w}
  /\ enabled' = enabled \cup {w}
  /\ UNCHANGED <<visible, queue, modal, userWindow, mainActive, count, stack, halt>>

MayActivate == ~InEvent({"release", "gotfocus"})

\* A window that is not modal may not wait under a modal one.  (Mutant: it may.)
MayAlwaysWait(w, nowait) == TRUE
MayWait(w, nowait) == w \notin Modals /\ isModal => nowait

\* ACTIVATE WINDOW w [ NOWAIT ], up to _SetActivationFlag: the message loop it
\* ends with is already on the stack.
Activate(w, nowait) ==
  /\ Calling(IF nowait THEN "nowait" ELSE "activate")
  /\ MayActivate
  /\ mainActive = (w # Main)
  /\ MayWait(w, nowait)
  /\ \E i \in Slot :
       /\ Holds(i, w) /\ ~form[i].active
       /\ form' = ShownForm(w, i, form)
       /\ SetFocus(w, stack \o (IF nowait THEN <<>> ELSE <<Loop({w})>>)
                            \o <<Activating(i, "flag")>>)
  /\ ShowWindow(w)
  /\ mainActive' = TRUE
  /\ UNCHANGED <<defined, queue, count, halt>>

\* ACTIVATE WINDOW v, w: at most one of them modal.
ActivateMulti(v, w) ==
  /\ Calling("multi")
  /\ MayActivate
  /\ ~isModal
  /\ v # w /\ {v, w} \subseteq Live /\ ~({v, w} \subseteq Modals)
  /\ mainActive = (Main \notin {v, w})
  /\ \A i \in Slot : form[i].h \in {v, w} => ~form[i].active
  /\ \E id \in Ids :
       /\ count[id] = 0
       /\ count' = [count EXCEPT ![id] = 2]
       /\ stack' = Append(stack, Multi(<<v, w>>, id, {v, w}))
  /\ mainActive' = TRUE
  /\ UNCHANGED <<defined, form, desktop, queue, modal, userWindow, halt>>

\* DO MESSAGE LOOP
MessageLoop ==
  /\ Calling("loop")
  /\ stack' = Append(stack, Loop({}))
  /\ UNCHANGED <<defined, form, desktop, queue, modal, userWindow, mainActive, count, halt>>

\* RELEASE WINDOW w
Release(w) ==
  /\ Calling("release")
  /\ \E i \in Slot :
       /\ Holds(i, w) /\ form[i].active
       /\ InEvent({"release"}) => w # Main /\ Top.this # i
  /\ IF w = Main
     THEN /\ stack' = Append(stack, All(0))
          /\ UNCHANGED <<form, enabled, posted>>
     ELSE /\ Len(posted) < MaxPosted
          /\ form' = IF w \in Modals /\ activeModal # w THEN form
                     ELSE [j \in Slot |-> IF form[j].parent = w
                                          THEN [form[j] EXCEPT !.parent = Main] ELSE form[j]]
          /\ enabled' = enabled \cup {w}
          /\ posted' = Append(posted, w)
          /\ UNCHANGED stack
  /\ UNCHANGED <<defined, visible, quit, modal, userWindow, mainActive, count, halt>>

\* w.Show(): DO EVENTS follows what the focus change runs.
Show(w) ==
  /\ Calling("show")
  /\ \E i \in Slot :
       /\ Holds(i, w) /\ form[i].active
       /\ form' = ShownForm(w, i, form)
       /\ SetFocus(w, Append(stack, Events))
  /\ ShowWindow(w)
  /\ UNCHANGED <<defined, queue, mainActive, count, halt>>

\* w.Hide()
Hide(w) ==
  /\ Calling("hide")
  /\ w \in visible /\ (w \in Modals => activeModal = w)
  /\ \E i \in Slot : Holds(i, w) /\ HideWindow(w, i, stack)
  /\ UNCHANGED <<defined, form, queue, mainActive, count>>

\* DO EVENTS
DoEvents ==
  /\ Calling("events")
  /\ stack' = Append(stack, Events)
  /\ UNCHANGED <<defined, form, desktop, queue, modal, userWindow, mainActive, count, halt>>

Call ==
  \/ \E w \in Windows :
       \/ Define(w) \/ Release(w) \/ Show(w) \/ Hide(w)
       \/ \E nowait \in BOOLEAN : Activate(w, nowait)
       \/ \E v \in Windows : ActivateMulti(v, w)
  \/ MessageLoop \/ DoEvents

\* A block returns: from ON INTERACTIVECLOSE with .F. it ends the WM_CLOSE
\* handler below; from the main program it ends the program.
Return ==
  /\ OnTop("block")
  /\ \/ Len(stack) = 1 /\ halt' = "quit" /\ UNCHANGED stack
     \/ Len(stack) > 1 /\ stack' = Below /\ UNCHANGED halt
     \/ /\ Len(stack) > 2 /\ Top.ev = "query" /\ Top.this # 0
        /\ stack' = SubSeq(stack, 1, Len(stack) - 2)
        /\ UNCHANGED halt
  /\ UNCHANGED <<defined, form, desktop, queue, modal, userWindow, mainActive, count>>

-----------------------------------------------------------------------------
(* The message loops.  GetMessage and PeekMessage retrieve the posted      *)
(* messages first, then WM_QUIT, then input.                               *)

Pumping == stack # <<>> /\ Top.k \in {"loop", "events", "inkey"}
Idle    == Pumping /\ posted = <<>> /\ ~quit

\* (Mutant: the message stays in the queue.)
DispatchPeek ==
  /\ Pumping
  /\ posted # <<>>
  /\ \/ \E i \in Slot : Holds(i, Head(posted))
                        /\ stack' = Append(stack, Closing(Head(posted), i, "ask"))
     \/ Head(posted) \notin Live /\ UNCHANGED stack
  /\ UNCHANGED <<defined, form, desktop, queue, modal, userWindow, mainActive, count, halt>>

\* A posted WM_CLOSE is dispatched; its window may be gone.
Dispatch ==
  /\ Pumping
  /\ posted # <<>>
  /\ posted' = Tail(posted)
  /\ \/ \E i \in Slot : Holds(i, Head(posted))
                        /\ stack' = Append(stack, Closing(Head(posted), i, "ask"))
     \/ Head(posted) \notin Live /\ UNCHANGED stack
  /\ UNCHANGED <<defined, form, desktop, quit, modal, userWindow, mainActive, count, halt>>

\* Mutant: DOMESSAGELOOP goes on as DOEVENTS does.
QuitIgnored ==
  /\ Pumping
  /\ posted = <<>> /\ quit
  /\ quit' = FALSE
  /\ UNCHANGED <<defined, form, desktop, posted, modal, userWindow, mainActive, count, stack, halt>>

\* WM_QUIT ends DOMESSAGELOOP and INKEYGUI; DOEVENTS drops it and goes on.
Quit ==
  /\ Pumping
  /\ posted = <<>> /\ quit
  /\ quit' = FALSE
  /\ stack' = IF Top.k = "events" THEN stack ELSE Below
  /\ UNCHANGED <<defined, form, desktop, posted, modal, userWindow, mainActive, count, halt>>

\* DOEVENTS finds the queue empty; the timer of INKEYGUI fires.
Drained ==
  /\ Idle
  /\ Top.k # "loop"
  /\ stack' = Below
  /\ UNCHANGED <<defined, form, desktop, queue, modal, userWindow, mainActive, count, halt>>

(* Input.                                                                  *)
Reachable(w) == w \in visible \cap enabled

\* The user closes a window.
UserClose(w) ==
  /\ Idle
  /\ Len(stack) < MaxDepth
  /\ Reachable(w)
  /\ \E i \in Slot : Holds(i, w) /\ stack' = Append(stack, Closing(w, i, "ask"))
  /\ UNCHANGED <<defined, form, desktop, queue, modal, userWindow, mainActive, count, halt>>

\* The user activates a window.
UserFocus(w) ==
  /\ Idle
  /\ Reachable(w)
  /\ SetFocus(w, stack)
  /\ UNCHANGED <<defined, form, desktop, queue, modal, mainActive, count, halt>>

\* A control's event or a timer: _DoControlEventProcedure leaves the event type.
ControlEvent ==
  /\ Idle
  /\ Len(stack) < MaxDepth
  /\ Live # {}
  /\ \E j \in DOMAIN stack : Innermost(j) /\ stack' = Append(stack, Block(stack[j].ev, 0))
  /\ UNCHANGED <<defined, form, desktop, queue, modal, userWindow, mainActive, count, halt>>

\* A key pressed in SuppressKeyAndMouseEvents: INKEYGUI returns it and the
\* REPEAT starts again, with DO EVENTS.
Key ==
  /\ Idle
  /\ Len(stack) < MaxDepth
  /\ Top.k = "inkey"
  /\ stack' = Append(stack, Events)
  /\ UNCHANGED <<defined, form, desktop, queue, modal, userWindow, mainActive, count, halt>>

Input ==
  \/ \E w \in Windows : UserClose(w) \/ UserFocus(w)
  \/ ControlEvent \/ Key

-----------------------------------------------------------------------------
(* The WM_CLOSE handler.  It found its window in slot i before it ran a    *)
(* block and reads the arrays at i after it.                               *)

At(k, pc) == OnTop(k) /\ Top.pc = pc

\* Evaluates the ON INTERACTIVECLOSE block.
CloseAsk ==
  /\ At("closing", "ask")
  /\ stack' = Append(Below, [Top EXCEPT !.pc = "asked"])
              \o (IF form[Top.i].h \in HasQuery THEN <<Block("query", Top.i)>> ELSE <<>>)
  /\ UNCHANGED <<defined, form, desktop, queue, modal, userWindow, mainActive, count, halt>>

\* The slot is free by now: its AutoRelease flag is .F. and its name unknown
\* to _HideWindow.
CloseGone ==
  /\ At("closing", "asked")
  /\ form[Top.i].h = NoWin
  /\ stack' = Below
  /\ UNCHANGED <<defined, form, desktop, queue, modal, userWindow, mainActive, count, halt>>

\* A NOAUTORELEASE window is hidden.
CloseHides ==
  /\ At("closing", "asked")
  /\ form[Top.i].h \in KeepAlive
  /\ HideWindow(form[Top.i].h, Top.i, Below)
  /\ UNCHANGED <<defined, form, queue, mainActive, count>>

\* The main window: ReleaseAllWindows.
CloseMain ==
  /\ At("closing", "asked")
  /\ form[Top.i].h = Main
  /\ \/ InEvent({"release"}) /\ halt' = "error" /\ UNCHANGED stack
     \/ ~InEvent({"release"}) /\ stack' = Append(Below, All(0)) /\ UNCHANGED halt
  /\ UNCHANGED <<defined, form, desktop, queue, modal, userWindow, mainActive, count>>

\* Evaluates the ON RELEASE block.
CloseReleases ==
  /\ At("closing", "asked")
  /\ form[Top.i].h \in Windows \ (KeepAlive \cup {Main})
  /\ stack' = Append(Below, [Top EXCEPT !.pc = "released"])
              \o (IF form[Top.i].h \in HasRelease THEN <<Block("release", Top.i)>> ELSE <<>>)
  /\ UNCHANGED <<defined, form, desktop, queue, modal, userWindow, mainActive, count, halt>>

\* Gives modality and focus back.
CloseYields ==
  /\ At("closing", "released")
  /\ OnHide(Top.i, Append(Below, [Top EXCEPT !.pc = "hidden"]))
  /\ UNCHANGED <<defined, form, visible, queue, mainActive, count, halt>>

\* A window of the activation id is destroyed: WM_QUIT is posted by the last one,
\* and always by a window activated alone.  (Mutants: the last one is not
\* counted off; only a counter that runs out posts WM_QUIT.)
CountedOffButLast(id) ==
  IF id = 0 THEN quit' = TRUE /\ UNCHANGED count
  ELSE /\ count' = IF count[id] = 1 THEN count ELSE [count EXCEPT ![id] = @ - 1]
       /\ quit' = (quit \/ count[id] = 1)
CountedOffOnly(id) ==
  IF id = 0 THEN UNCHANGED <<quit, count>>
  ELSE /\ count' = [count EXCEPT ![id] = @ - 1]
       /\ quit' = (quit \/ count[id] = 1)
CountedOff(id) ==
  IF id = 0 THEN quit' = TRUE /\ UNCHANGED count
  ELSE /\ count' = [count EXCEPT ![id] = @ - 1]
       /\ quit' = (quit \/ count[id] = 1)

\* DefWindowProc destroys the window: the WM_DESTROY handler.
Destroy ==
  /\ At("closing", "hidden")
  /\ stack' = Below
  /\ \/ \E i \in Slot :
          /\ Holds(i, Top.w)
          /\ CountedOff(form[i].id)
          /\ form' = [form EXCEPT ![i] = Blank]
          /\ enabled' = enabled \ {Top.w} /\ visible' = visible \ {Top.w}
     \/ Top.w \notin Live /\ UNCHANGED <<form, desktop, quit, count>>
  /\ UNCHANGED <<defined, posted, modal, userWindow, mainActive, halt>>

\* ReleaseAllWindows goes to the next slot: ON RELEASE of an active window.
ReleaseNext ==
  /\ OnTop("all")
  /\ \/ /\ Top.i < Cardinality(Windows)
        /\ LET i == Top.i + 1 IN
           stack' = Append(Below, All(i))
                    \o (IF form[i].active /\ form[i].h \in HasRelease
                        THEN <<Block("release", i)>> ELSE <<>>)
        /\ UNCHANGED halt
     \/ Top.i = Cardinality(Windows) /\ halt' = "quit" /\ UNCHANGED stack
  /\ UNCHANGED <<defined, form, desktop, queue, modal, userWindow, mainActive, count>>

-----------------------------------------------------------------------------
(* The rest of _ActivateWindow.                                            *)

\* _SetActivationFlag, then SuppressKeyAndMouseEvents when there is a block.
SetActivationFlag ==
  /\ At("activating", "flag")
  /\ form' = [form EXCEPT ![Top.i].active = TRUE]
  /\ stack' = IF form[Top.i].h \in HasInit
              THEN Append(Below, Activating(Top.i, "init")) \o <<Inkey, Events>>
              ELSE Below
  /\ UNCHANGED <<defined, desktop, queue, modal, userWindow, mainActive, count, halt>>

\* The ON INIT block the slot has by now.
InitProcedure ==
  /\ At("activating", "init")
  /\ stack' = IF form[Top.i].h \in HasInit THEN Append(Below, Block("init", Top.i)) ELSE Below
  /\ UNCHANGED <<defined, form, desktop, queue, modal, userWindow, mainActive, count, halt>>

\* The next window of the list.
ActivateNext ==
  /\ OnTop("multi")
  /\ Top.rest # <<>>
  /\ LET w == Head(Top.rest) IN
     \/ \E i \in Slot :
          /\ Holds(i, w) /\ ~form[i].active
          /\ form' = [form EXCEPT ![i].id = Top.id]
          /\ visible' = visible \cup {w}
          /\ SetFocus(w, Append(Below, Multi(Tail(Top.rest), Top.id, Top.wins))
                         \o <<Activating(i, "flag")>>)
          /\ UNCHANGED halt
     \/ /\ \A i \in Slot : Holds(i, w) => form[i].active
        /\ halt' = "error"
        /\ UNCHANGED <<form, visible, userWindow, stack>>
  /\ UNCHANGED <<defined, enabled, queue, modal, mainActive, count>>

\* The list is done: the modal is shown with DO EVENTS, then the loop starts.
ActivateLoop ==
  /\ OnTop("multi")
  /\ Top.rest = <<>>
  /\ \/ \E w \in Top.wins \cap Modals :
          \/ \E i \in Slot :
               /\ Holds(i, w)
               /\ form' = ShownForm(w, i, form)
               /\ SetFocus(w, Append(Below, Loop(Top.wins)) \o <<Events>>)
               /\ ShowWindow(w)
               /\ UNCHANGED halt
          \/ /\ w \notin Live
             /\ halt' = "error"
             /\ UNCHANGED <<form, desktop, modal, userWindow, stack>>
     \/ /\ Top.wins \cap Modals = {}
        /\ stack' = Append(Below, Loop(Top.wins))
        /\ UNCHANGED <<form, desktop, modal, userWindow, halt>>
  /\ UNCHANGED <<defined, queue, mainActive, count>>

Handler ==
  \/ CloseAsk \/ CloseGone \/ CloseHides \/ CloseMain \/ CloseReleases
  \/ CloseYields \/ Destroy \/ ReleaseNext
  \/ SetActivationFlag \/ InitProcedure \/ ActivateNext \/ ActivateLoop

System == Handler \/ Dispatch \/ Quit

Next == halt = "no" /\ (Call \/ Return \/ System \/ Drained \/ Input)

Spec == Init /\ [][Next]_vars

\* The program's blocks return and the thread keeps running handlers and
\* retrieving messages; nobody has to produce input.
FairSpec == Spec /\ WF_vars(halt = "no" /\ Return) /\ WF_vars(halt = "no" /\ System)

-----------------------------------------------------------------------------
(* Properties                                                              *)

\* While no modal window is active every window is enabled: every way a modal
\* window goes (closed, hidden, its parent gone, closed again from its own
\* block) gives the program back (_hmg_OnHideFocusManagement).
NoModalNoneDisabled == ~isModal => Live \subseteq enabled

\* The active modal window can be used: nothing leaves the one window that may
\* be closed disabled behind the windows it disabled (_ShowWindow).
ActiveModalUsable == isModal /\ activeModal \in Live => activeModal \in enabled

\* The counter of a multiple activation is the number of its windows still to
\* be destroyed, those the list has not reached included (WM_DESTROY): the
\* last one, and only it, posts WM_QUIT.  For programs with no ON GOTFOCUS: a
\* block run while a window of a list gets the focus may put that window, not
\* active yet, in a second list, which takes it over.
Owners(id)  == {i \in Slot : form[i].id = id}
Waiting(id) == {q \in (DOMAIN stack) \X (1 .. 2) :
                  /\ stack[q[1]].k = "multi" /\ stack[q[1]].id = id
                  /\ q[2] <= Len(stack[q[1]].rest)}
CountsWindows ==
  \A id \in Ids : count[id] = Cardinality(Owners(id)) + Cardinality(Waiting(id))

(* Of programs that only define and activate windows:                      *)

Dialogs == {j \in DOMAIN stack : stack[j].k = "loop" /\ stack[j].wins \cap Modals \cap Live # {}}
Between == \E j \in DOMAIN stack : stack[j].k = "closing" /\ stack[j].pc = "hidden"

\* The modal windows are the nested message loops: the innermost loop's window
\* is the active modal and the only window the user reaches, and the parent of
\* each is the next one out.
ModalChain ==
  ~Between =>
    /\ isModal <=> Dialogs # {}
    /\ isModal => visible \cap enabled = {activeModal}
    /\ \A j \in Dialogs : (\A m \in Dialogs : m <= j) => activeModal \in stack[j].wins
    /\ \A j, m \in Dialogs :
         m < j /\ (\A n \in Dialogs : n <= m \/ j <= n)
         => \E i \in Slot : form[i].h \in stack[j].wins \cap Modals /\ form[i].parent \in stack[m].wins

\* While a window is closing, no other window takes its slot: the handler reads
\* the arrays at an index it found before it ran the program's blocks.
CloseKeepsSlot ==
  \A j \in DOMAIN stack :
    stack[j].k = "closing" => form[stack[j].i].h \in {stack[j].w, NoWin}

\* RELEASE WINDOW is acted upon: a posted WM_CLOSE reaches its window.
ReleaseHandled ==
  \A w \in Windows :
    LET asked == \E n \in DOMAIN posted : posted[n] = w
    IN  (halt = "no" /\ asked) ~> ~(halt = "no" /\ asked)

\* A message loop that is waiting has a window of its activation left, or the
\* WM_QUIT that ends it (h_events.prg:3652).
Orphan(n) == n <= Len(stack) /\ stack[n].k = "loop" /\ stack[n].wins # {}
             /\ stack[n].wins \cap Live = {}
LoopHasWindow == OnTop("loop") /\ Orphan(Len(stack)) => quit

\* A message loop does not end before the windows of its activation.
LoopEndsLast ==
  [][\A n \in DOMAIN stack :
       stack[n].k = "loop" /\ stack[n].wins # {} /\ Len(stack') < n
       => stack[n].wins \cap Live' = {}]_vars

\* ACTIVATE WINDOW returns once its windows are gone.
ActivateReturns ==
  \A n \in 1 .. MaxDepth + 1 : (halt = "no" /\ Orphan(n)) ~> ~(halt = "no" /\ Orphan(n))

=============================================================================
