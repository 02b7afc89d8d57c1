------------------------------ MODULE AppEvents ------------------------------
(***************************************************************************)
(* The event tables of c_windows.c: the blocks a program registers with    *)
(* ON APPEVENT / ON WINEVENT on a window, kept in two holders per window   *)
(* (the window properties "ONCE" and "ON"), each a fixed array of slots,   *)
(* and the dispatcher that runs them.  A block is user code: while it runs *)
(* it may register, update and remove handlers, emit again (SendMessage is *)
(* a plain call) and destroy the window.  The calls in progress are the    *)
(* stack "calls", innermost last.                                          *)
(*                                                                         *)
(* The App* and the Win* functions are the same code but for the messages  *)
(* they accept: WM_APP .. WM_APP+MAX_EVENTS for windows (MinMsg > 0) and   *)
(* 0 .. WM_APP+MAX_EVENTS for message-only windows (MinMsg = 0).           *)
(***************************************************************************)
EXTENDS Integers, Sequences, FiniteSets

CONSTANTS
  Windows,     \* the windows of the program
  Blocks,      \* the code blocks it registers
  NoBlock,     \* bAction == NULL
  MinMsg,      \* the accepted messages are MinMsg .. MaxMsg
  MaxMsg,
  MaxEvents,   \* MAX_EVENTS, the slots of a holder
  MaxDepth     \* bound on nested dispatches

ASSUME AppEventsAssumption ==
  /\ MinMsg \in Nat /\ MaxMsg \in Nat
  /\ MaxEvents \in Nat \ {0}
  /\ MaxDepth \in Nat
  /\ NoBlock \notin Blocks

Props == {"ONCE", "ON"}
Msg   == MinMsg .. MaxMsg
Slot  == 1 .. MaxEvents

VARIABLES
  live,    \* the windows IsWindow() is true of
  prop,    \* prop[w][p]: the holder GetProp( w, p ) returns
  calls    \* the blocks being evaluated, innermost last

vars == <<live, prop, calls>>

\* A slot is empty when its message is 0 (hb_xgrabz, AppEventRemove).
EmptyEvent == [msg |-> 0, blk |-> NoBlock, active |-> FALSE]

Event  == [msg : Nat, blk : Blocks \cup {NoBlock}, active : BOOLEAN]
Holder == [installed : BOOLEAN, active : BOOLEAN, used : Int, ev : [Slot -> Event]]
Call   == [win : Windows, prop : Props, msg : Nat, blk : Blocks]

NoHolder == [installed |-> FALSE, active |-> FALSE, used |-> 0,
             ev |-> [i \in Slot |-> EmptyEvent]]

NewHolder(act) == [NoHolder EXCEPT !.installed = TRUE, !.active = act]

TypeOK ==
  /\ live \subseteq Windows
  /\ prop \in [Windows -> [Props -> Holder]]
  /\ calls \in Seq(Call)

Init ==
  /\ live = Windows
  /\ prop = [w \in Windows |-> [p \in Props |-> NoHolder]]
  /\ calls = <<>>

-----------------------------------------------------------------------------
(* AppEventScan: the first slot that holds m; m = 0 looks for a free slot. *)

At(ev, m, i)  == ev[i].msg = m /\ \A j \in 1 .. i-1 : ev[j].msg # m
Absent(ev, m) == \A i \in Slot : ev[i].msg # m

SetHolder(w, p, h) == prop' = [prop EXCEPT ![w][p] = h]

\* AppEventRemove on holder h: what is left of it.
CleanUp(h) == IF h.used = 0 THEN NoHolder ELSE h

\* (Mutant: the slot is cleared and still counted.)
ClearOnly(h, i) == [h EXCEPT !.ev[i] = EmptyEvent]
ClearSlot(h, i) == [[h EXCEPT !.ev[i] = EmptyEvent] EXCEPT !.used = @ - 1]

\* What AppEventRemove may leave of holder h (one value: the scan is total).
AfterRemove(h, m) ==
  IF m = 0 THEN {NoHolder}
  ELSE IF Absent(h.ev, m) THEN {CleanUp(h)}
  ELSE {CleanUp(ClearSlot(h, i)) : i \in {j \in Slot : At(h.ev, m, j)}}

-----------------------------------------------------------------------------
(* What the program calls, from its main line or from a running block.     *)

\* Writes message, block and flag of slot i.
\* (Mutant: the slot of a handler that is switched off gets no block.)
FillOff(h, i, m, b, act) ==
  [h EXCEPT !.ev[i] = [msg |-> m, blk |-> IF act THEN b ELSE "none", active |-> act]]
Fill(h, i, m, b, act) ==
  [h EXCEPT !.ev[i] = [msg |-> m, blk |-> b, active |-> act]]

\* A new message takes the first free slot.  (Mutant: without a look for the
\* slot it has already.)
TakesAny(h, m, i) == At(h.ev, 0, i)
Takes(h, m, i) == Absent(h.ev, m) /\ At(h.ev, 0, i)

\* AppEvents( w, m, b, act, once ): replaces the block of m, or takes a free
\* slot, or leaves a full holder as it is.
Register(w, p, m, b, act) ==
  /\ w \in live
  /\ m \in Msg
  /\ LET h == IF prop[w][p].installed THEN prop[w][p] ELSE NewHolder(act) IN
     \/ \E i \in Slot : At(h.ev, m, i) /\ SetHolder(w, p, Fill(h, i, m, b, act))
     \/ \E i \in Slot :
          /\ Takes(h, m, i)
          /\ SetHolder(w, p, [Fill(h, i, m, b, act) EXCEPT !.used = @ + 1])
     \/ /\ Absent(h.ev, m) /\ Absent(h.ev, 0)
        /\ UNCHANGED prop
  /\ UNCHANGED <<live, calls>>

\* AppEventsRemove( w, m, once ); m = 0 removes all of them.
Unregister(w, p, m) ==
  /\ w \in live
  /\ prop[w][p].installed
  /\ \E h \in AfterRemove(prop[w][p], m) : SetHolder(w, p, h)
  /\ UNCHANGED <<live, calls>>

\* AppEventsUpdate( w, m, b, act, once ): b = NoBlock leaves the block alone;
\* an unaccepted m = 0 switches the whole holder.
Update(w, p, m, b, act) ==
  /\ w \in live
  /\ prop[w][p].installed
  /\ LET h == prop[w][p] IN
     \/ /\ m \in Msg
        /\ \E i \in Slot :
             /\ At(h.ev, m, i)
             /\ SetHolder(w, p, Fill(h, i, m, IF b = NoBlock THEN h.ev[i].blk ELSE b, act))
     \/ /\ m \notin Msg /\ m = 0
        /\ SetHolder(w, p, [h EXCEPT !.active = act])
  /\ UNCHANGED <<live, calls>>

-----------------------------------------------------------------------------
(* AppEventOn: the ONCE handler, then the ON handler.                      *)

\* AppEventDo evaluates the block of slot i.
Fires(h, m, i) ==
  h.installed /\ At(h.ev, m, i) /\ h.active /\ h.ev[i].active /\ h.ev[i].blk # NoBlock

Silent(h, m) == \A i \in Slot : ~Fires(h, m, i)

\* The ON half of AppEventOn, on top of the calls in progress "below".
ThenOn(w, m, below) ==
  LET h == prop[w]["ON"] IN
  \/ \E i \in Slot :
       /\ Fires(h, m, i)
       /\ calls' = Append(below, [win |-> w, prop |-> "ON", msg |-> m, blk |-> h.ev[i].blk])
  \/ Silent(h, m) /\ calls' = below

\* A message reaches the window procedure.
Emit(w, m) ==
  /\ w \in live
  /\ m \in Msg
  /\ Len(calls) < MaxDepth
  /\ LET h == prop[w]["ONCE"] IN
     \/ \E i \in Slot :
          /\ Fires(h, m, i)
          /\ calls' = Append(calls, [win |-> w, prop |-> "ONCE", msg |-> m, blk |-> h.ev[i].blk])
     \/ Silent(h, m) /\ ThenOn(w, m, calls)
  /\ UNCHANGED <<live, prop>>

Top   == calls[Len(calls)]
Below == SubSeq(calls, 1, Len(calls) - 1)

\* The block of an ON handler returns.
ReturnOn ==
  /\ calls # <<>>
  /\ Top.prop = "ON"
  /\ calls' = Below
  /\ UNCHANGED <<live, prop>>

\* Mutant: the handler stays registered.
ReturnOnceKept ==
  /\ calls # <<>>
  /\ Top.prop = "ONCE"
  /\ ThenOn(Top.win, Top.msg, Below)
  /\ UNCHANGED <<live, prop>>

\* The block of a ONCE handler returns: AppEventDo looks the message up again
\* to remove it, then AppEventOn goes on with the ON handler.
ReturnOnce ==
  /\ calls # <<>>
  /\ Top.prop = "ONCE"
  /\ LET w == Top.win  h == prop[w]["ONCE"] IN
     IF w \in live /\ h.installed
     THEN \E h2 \in AfterRemove(h, Top.msg) : SetHolder(w, "ONCE", h2)
     ELSE UNCHANGED prop
  /\ ThenOn(Top.win, Top.msg, Below)
  /\ UNCHANGED live

\* WM_DESTROY: both holders go, whatever is running.  (Mutant: only one goes.)
DestroyOn(w) ==
  /\ w \in live
  /\ live' = live \ {w}
  /\ prop' = [prop EXCEPT ![w]["ON"] = NoHolder]
  /\ UNCHANGED calls

Destroy(w) ==
  /\ w \in live
  /\ live' = live \ {w}
  /\ prop' = [prop EXCEPT ![w] = [p \in Props |-> NoHolder]]
  /\ UNCHANGED calls

Program ==
  \/ \E w \in Windows, p \in Props, m \in Msg, b \in Blocks, act \in BOOLEAN :
       Register(w, p, m, b, act)
  \/ \E w \in Windows, p \in Props, m \in Msg \cup {0} : Unregister(w, p, m)
  \/ \E w \in Windows, p \in Props, m \in Msg \cup {0},
        b \in Blocks \cup {NoBlock}, act \in BOOLEAN : Update(w, p, m, b, act)
  \/ \E w \in Windows, m \in Msg : Emit(w, m)
  \/ \E w \in Windows : Destroy(w)

Next == Program \/ ReturnOn \/ ReturnOnce

Spec == Init /\ [][Next]_vars

-----------------------------------------------------------------------------
(* Properties                                                              *)

Used(h) == {i \in Slot : h.ev[i].msg # 0}

\* The reference count of a holder is the number of its occupied slots, and a
\* holder is installed exactly while it is positive: remove-then-free (line 243)
\* neither leaks an empty holder nor frees one with handlers, also when a block
\* removes its own handler before ONCE removes it again.
UsedCountsSlots ==
  \A w \in Windows, p \in Props :
    LET h == prop[w][p] IN
    /\ h.used = Cardinality(Used(h))
    /\ h.installed <=> h.used > 0

\* Two slots never answer the same message: AppEventScan stops at the first,
\* so a second one would be a handler that REMOVE and UPDATE cannot reach.
OneSlotPerMessage ==
  \A w \in Windows, p \in Props : \A i, j \in Used(prop[w][p]) :
    prop[w][p].ev[i].msg = prop[w][p].ev[j].msg => i = j

\* A destroyed window owns no handlers, although blocks it was running may
\* still be on the stack and register, update or return afterwards.
DestroyedHoldNothing ==
  \A w \in Windows \ live, p \in Props : prop[w][p] = NoHolder

\* ONCE as the command's name has it (doc/commands.txt:74): the block of a ONCE
\* handler is not started while it is already running.
OnceRunsOnce ==
  \A j, k \in DOMAIN calls :
    j # k /\ calls[j].prop = "ONCE" /\ calls[j].win = calls[k].win /\ calls[j].msg = calls[k].msg
      => calls[k].prop # "ONCE" \/ calls[j].blk # calls[k].blk

=============================================================================
