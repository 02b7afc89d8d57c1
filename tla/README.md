# TLA+ specifications of the MiniGUI core

MiniGUI (`src/hmge`) is a GUI library for Harbour programs on Windows: windows
and controls are created by commands, kept in parallel global arrays, and run
through one dispatcher, `Events()`. Specified here are the windows with their
activation, modality and message loops (`Forms`), the tables of user-defined
events of a window (`AppEvents`), the list of recent files (`Mru`), and four
kinds of controls: BROWSE over a DBF table (`Browse`), TREE (`Tree`), TAB
(`Tab`), timers and hotkeys in the registry of controls (`Registry`).

## 1. The system

| part | state | operations | properties that make it correct |
|---|---|---|---|
| windows, activation, modality: `h_windows.prg` | the `_HMG_aForm*` arrays (slot = index, a deleted slot is used again), `_HMG_IsModalActive`, `_HMG_ActiveModalHandle`, `_HMG_UserWindowHandle`, `_HMG_MainActive`, the counters `_HMG_ACTIVATE_<id>` | `_DefineWindow`, `_DefineModalWindow`, `_ActivateWindow`, `_ReleaseWindow`, `_ShowWindow`, `_HideWindow`, `ReleaseAllWindows` | modal windows nest; modality is given back; ACTIVATE WINDOW returns when its windows are gone and not before; a slot index is not used after its window |
| dispatcher: `h_events.prg` | the `_HMG_This*` variables and their stack `_HMG_aEventInfo` | a handler per Windows message, each evaluating blocks of the program | a handler does not act on what a block changed under it |
| message loops: `c_windowsapi.c`, `c_winapimisc.c` | the thread's message queue, WM_QUIT | DOMESSAGELOOP, DOEVENTS, INKEYGUI | the WM_QUIT of a window reaches the loop its activation started |
| user events: `c_windows.c` | two holders per window ("ONCE", "ON") of 64 slots, with a count | APPEVENTS, -REMOVE, -UPDATE, dispatch; the same for WINEVENTS | a map from messages to blocks; the count is the number of used slots; nothing outlives its window |
| control registry: `h_controlmisc.prg` | the `_HMG_aControl*` arrays, ids, public index variables | define, erase, properties, look-up by id or handle | no look-up finds another or a released control |
| timers, hotkeys: `h_timer.prg`, `h_hotkey.prg` | entries of the registry and of Windows | define, release, ONCE, registration on focus | a ONCE timer fires once; a hotkey acts for the focused window |
| menus, MRU list: `h_menu.prg`, `h_mru.prg` | the list of recent files, its menu items, its INI section | add, clear, save, load | the menu shows the list; a restart keeps it |
| BROWSE: `h_browse.prg` | the record map of the listed page, the selected row, the record being edited, the pointer and locks of the work area | keys, clicks, refresh, Value, delete, append, in-place editing | a row stands for the record it shows; an edit writes the record it was started on; the pointer is put back |
| TREE: `h_tree.prg` | arrays of handles, ids and cargos beside the Win32 tree | NODE, TREEITEM, AddItem, DeleteItem, DeleteAllItems, cargo, sort | an array entry belongs to the item it is looked up for |
| TAB: `h_tab.prg` | the controls of each page, the page left by the last click | change of page, refusal, pages and controls added, deleted, shown, hidden | only the controls of the selected page are seen, and all of them |
| other data controls: `h_grid.prg`, `h_getbox.prg`, `h_textbox.prg` | cells, masks | in-place editing, scrolling | - |
| other controls, dialogs, graphics, reports, INI, registry, media | what their Win32 control holds | creation, properties, painting | - |
| initialisation: `h_init.prg` | the globals | `Init` | - |
| sub-libraries of `source/` (tsbrowse, tget, hbprinter, miniprint, adordd, hbmysql, hbsqlite3, socket, propgrid, ...) | their own | - | - |
| IDE, samples, tutorial, utils, batch | programs written with the library | - | - |

How they interact. There is one thread, and nothing is concurrent in the usual
sense; what is hard is **re-entrance**. ACTIVATE WINDOW does not return: it
runs a message loop. A loop dispatches the messages of *every* window; a
handler evaluates a block; a block may define, activate, show, hide, release
any window, emit an event or pump messages - in nested loops - and only then
does the handler go on, with the slot index, the event type or the table
pointer it took before. WM_QUIT belongs to the thread, so it ends whichever
loop retrieves it. The order of two clicks, or a click in the twenty
milliseconds of `SuppressKeyAndMouseEvents`, decides what happens, which is
why tests hardly reach it. PROJECT.json lists these hazards with their lines.

`REPEAT ... UNTIL c` is a command of this library that repeats *while* c holds
(`include/i_pseudofunc.ch:750`). So `_GenActivateId` waits until an id is free,
and `SuppressKeyAndMouseEvents` goes on while INKEYGUI returns a key.

## 2. The modules

`Forms` - windows. `AppEvents` - event tables. `DialogStack` and `EventMap` -
what the two promise, with none of their machinery. `MCForms` and
`MCAppEvents` - the refinement mappings and definitions for TLC.
`Mru` - the list of recent files, `RecentFiles` - its promise, `MCMru` - case
folding for TLC. `Browse` - BROWSE over `WorkArea`, what it relies on of the database
driver; `RecordCursor` - what its commands promise. `Tree`, `Tab`, `Registry` -
the other controls. `MCControls` - the four, one at a time, for TLC.
`Forms_proofs`, `Dialogs_proofs`, `AppEvents_proofs`, `Mru_proofs`,
`Registry_proofs`, `Browse_proofs`, `Tree_proofs`, `Controls_proofs` (TAB, and
the controls together) - the theorems.

### Forms

| in the module | in the code |
|---|---|
| `form[i]`: `h`, `active`, `parent`, `id` | `_HMG_aFormHandles`, `-Active`, `-ParentHandle`, `-ActivateId`; the type, AutoRelease and the blocks are constants of the window (`Modals`, `KeepAlive`, `HasInit`, ...) |
| `h = NoWin` | `_HMG_aFormDeleted`, and slots never used: `Define` takes the first of them, as `AScan` and `AAdd` do |
| `enabled`, `visible` | `IsWindowEnabled`, `IsWindowVisible` |
| `posted`, `quit` | the posted WM_CLOSE messages; the flag of PostQuitMessage |
| `count[id]` | the memvar `_HMG_ACTIVATE_<id>` |
| `stack` | the calls in progress: blocks, loops, the WM_CLOSE handler between its blocks, the tails of `_ActivateWindow` and `ReleaseAllWindows` |
| `halt` | the end of the program, in order (`__Quit`) or by MsgMiniGuiError in a handler |

A block is nondeterministic: while it is on top of the stack it makes any call
in `Api` or returns. A call that the code refuses by MsgMiniGuiError from the
program's own line is a guard; an error that comes up inside a handler or a
list activation, where the program cannot know, is `halt = "error"`. Each
handler is cut where it evaluates a block or moves the focus, because there
anything can happen, and nowhere else. `SetFocus` covers what Windows does not
tell: a window may have the focus already, or be hidden, so the WM_SETFOCUS
handler runs or not.

Retrieval order is that of GetMessage: posted messages, then WM_QUIT, then input.

The refinement mapping to `DialogStack` is in `MCForms`. The dialogs open are
the windows of `OpenLoops`, the loops whose modal window exists and has not
given the focus back, `InOrder` of their depths. A window is `Leaving` between
the hand-over of the focus in the WM_CLOSE handler (`_hmg_OnHideFocusManagement`)
and its destruction: Windows still has it, the user has not.

Left out: ON LOSTFOCUS, FLASHEXIT, NOSHOW, panels, split and MDI children,
SET INTERACTIVECLOSE other than ON, the ESC check of edit controls, the
debugger flag, the final `_SetActivationFocus` of a window that is not modal
(a focus change before the loop, where the user may focus too), ACTIVATE
WINDOW ALL, WaitWindow, the modal file dialogs of Windows. Windows destroys
the windows owned by a destroyed one; here only the main window owns others
and it goes by ending the program. A handle is not used twice by Windows
within a run. `Ids` excludes 0, which `_GenActivateId` returns during the
first hundredth of a second of a day.

### AppEvents

| in the module | in the code |
|---|---|
| `prop[w]["ONCE"]`, `prop[w]["ON"]` | `GetProp( hWnd, pszProp )`: installed or NULL, `active`, `used`, `events[]` |
| `At`, `Absent` | `AppEventScan`; scanning for 0 finds a free slot |
| `Register`, `Unregister`, `Update` | APPEVENTS, APPEVENTSREMOVE, APPEVENTSUPDATE |
| `Emit`, `ReturnOnce`, `ReturnOn` | `AppEventOn` / `AppEventDo` up to the block, and from its return |
| `calls` | the evaluations in progress |

A holder that is freed while a block of it runs is `NoHolder`; the code after
the block goes by window and message, so nothing freed is read. Results of
blocks, parameters and the listener are left out. The WINEVENT functions are
the same code with message 0 accepted (`MinMsg = 0`); no run uses that yet,
and the theorems assume `MinMsg > 0`.

### Mru

| in the module | in the code |
|---|---|
| `looks` | the program: whether it adds files with `AddMRUItem` only, or names with `AddMenuElement` too |
| `list[i]`: `name`, `id`, `slot` | `aMRU_File[i]`: elements 2, 3 and 5; the caption is the name, shortened, and the action is left out |
| `filled`, `base` | `MRUCount # 0`, `cMRU_Id`; a control name is the sequence of the numbers appended to the base name |
| `menu` | the items of the Win32 popup, in order, with the number and name in their captions |
| `todo` | `aTmp` of `_DefineMruItem`, still to be added |
| `ini`, `at` | the section of the INI file, and where `SaveMRUFileList` is in it |

`Use` is the whole of `AddMRUItem`: the look for a duplicate, its removal from
list and menu, the new entry, the renumbering and the cut. `Start` and `Load`
are `_DefineMruItem` in a new process, `Stop` its end - in order or not, also
between two entries of a save. `ClearMRUList` leaves the oldest or the newest
item as the "(Empty)" one: the source asks `__enumIsLast()` in a descending
loop, and the branch for xHarbour keeps the newest, so the model has both. In
`RecentFiles` there are only files, a bound and a row of places; what a start
finds is stated there as a relation (each file of the places before the first
empty one once, in the order of their first places), not as a loop. While the
section is read the user sees no list yet.

### Browse

| in the module | in the code |
|---|---|
| `rows`, `row` | the rows of the list view, each the record it was filled from, and the selected one |
| `recMap` | `_HMG_aControlRangeMax`: the record number of every row |
| `atEnd` | `_HMG_aControlContainerHandle`: the page reaches the end |
| `table`, `rec`, `locks` | the work area: records, filter, SET DELETED, order; `RecNo()`; `NetRecLock` |
| `sync`, `event` | `_HMG_BrowseSyncStatus`, `_HMG_ThisEventType` |
| `frames` | the ON CHANGE, WHEN and VALID blocks in progress and the modal window of an edit, with the record each goes back to |
| `home`, `fresh`, `drift`, `strayed` | history: where the program left the pointer; whether the table changed since the page was listed; whether rows were added beside their map; whether an edit wrote another record |

Each function of h_browse.prg is one action up to the block it evaluates; the
rest of it is `ReturnChange`, `EditOpen` and so on. While a block or an edit is in
progress the program may refresh the list, set its value, move the pointer, and
the table may change, all from a timer or the block itself. `RecordCursor` has
a table, a cursor and no page: `MovesAsCursor` maps the selected row to it and
says which of its moves each key is.

Preconditions: a list of at least two rows, in a window (no dialog, no MDI);
the user does not press keys in a list while a block runs. Left out: scroll bars,
the work area selected, columns from other work areas, MEMO fields, the
edit-record dialog (Alt+E) of the library, colours and displayed items.

### Tree

| in the module | in the code |
|---|---|
| `view`, `above` | the Win32 tree view: its items from the top down, and what is over each |
| `handles`, `ids`, `cargo` | `_HMG_aControlPageMap`, `-Picture`, `-HeadClick`: handle, id and cargo of each item, in the same places |
| `nodes` | `_HMG_NodeHandle[ 1 .. _HMG_NodeIndex ]` during DEFINE TREE |
| `itemIds` | the ITEMIDS clause: items are named by id, not by place |
| `pending` | the deletions whose ON CHANGE block is running inside TreeView_DeleteItem, the innermost last: the local variables `Value` or `aPos` and `BeforeCount` of each `_DeleteItem`, place 0 for `_DeleteAllItems` |
| `reentered` | history: AddItem or DeleteItem was called in such a block |

`Steps` is what the walk of `_AddItem` for the place of a new entry counts: all
that is below the item, but not what is below a first child deeper down.
`Cut`, `PutAt` and `Resize` are ADel, AIns and ASize with the empty entries they
leave.

A deletion is two actions. `DeleteItem` goes up to the block that Windows makes
run when the selected item is deleted; the block is anything the program does
next: every method may be called in it, deletions within deletions too, each
with a block of its own. `DeleteEntries` is the rest of the innermost one. Its
number of entries (`Deleted`) is the difference of two counts, whatever has
happened between them. Which item is selected is not modelled, so the block of
any deletion may run; a deletion without one is that with an empty block. That
the block runs when the item is gone from the tree view, and that a new item
never gets the handle of one that is gone, is assumed of Windows. A program names items
that are in the tree (`There`, `Callable`): an entry that leads to no item or an
error message is not used in a call.

### Tab

| in the module | in the code |
|---|---|
| `map`, `sel` | `_HMG_aControlPageMap`: the controls of each page; the page Win32 has selected |
| `visible`, `shown` | `_HMG_aControlVisible`; whether the window of the control is visible |
| `ask`, `old` | PROGRAMMATICCHANGE with an ON CHANGE block, which may refuse; `nOldPage` |
| `blocks` | the ON CHANGE blocks in progress, those that are asked and those that are not |

`touched` is history: another click, a Show() or a change of the pages came in
before a click was answered. `OnlyThePage` and `PageComplete` except it, and with
it what a refusal finds in `nOldPage`, which is one for all tabs and clicks:
without the exception TLC finds a click refused after its block added a control,
which stays to be seen on the wrong page. Preconditions: VALUE names a page that is there, a control is on one
page.

### Registry

| in the module | in the code |
|---|---|
| `ctl[i]` | the `_HMG_aControl*` arrays: type, parent, id, key, ONCE, enabled, interval; a deleted slot is used again (`_GetControlFree`) |
| `armed`, `reg` | what Windows has: timers, by window and number, and registered hotkeys |
| `queue` | WM_TIMER and WM_HOTKEY messages on their way, in no order |
| `focus`, `alive` | the foreground window, or none; the windows not destroyed |
| `who`, `strays`, `denied` | history: which control it is, whatever its slot and id; hotkeys registered for a window that was not in front; hotkeys Windows refused |

A handler looks the number of its message up among the ids of *all* controls.
A released timer goes on in Windows, as in the code; when its number then
belongs to a hotkey, WM_TIMER reads a ONCE mark that is no logical value, and
the program ends (`TimerFails`). `Random` gives an id out of some 65000; with a
handful of them reuse is the normal case.

## 3. The runs

| run | instance | what it shows |
|---|---|---|
| AppEventsSlots | 1 window, 3 messages, 2 slots, no nesting beyond 1 | types; the count is the number of used slots and a holder exists exactly while it is positive; no message has two slots |
| AppEventsNested | 2 messages, 1 slot, 2 interchangeable blocks, nesting 2 | a destroyed window holds nothing; the slot arrays implement `EventMap` |
| AppEventsOnce | 1 message | *violation*: a ONCE block that emits its own message runs inside itself |
| FormsProgram | main, child, modal; every call; nesting 4 | types; the counter of a list activation is the number of its windows still to go; no window is left disabled without a modal; a posted WM_CLOSE is handled |
| FormsDialogs | main, a hidden-on-close child, two modals; define and activate only; nesting 9 | loops, parents and modality agree (`ModalChain`); the active modal can be used; no loop waits for nothing; a loop ends with its own window; a closing window keeps its slot; ACTIVATE WINDOW returns; the modals implement `DialogStack` |
| FormsInit | main and a modal with ON INIT | *violation*: closing the window before its ON INIT block loses the WM_QUIT of its loop |
| FormsChildren | main and two children | *violation*: closing one child ends the loop of the other |
| Mru | four files, one in two cases, the last three interchangeable, and the blank name; 3 places; any section to start from; programs that look for duplicates and programs that do not | types; the menu is the list; control names are unique; no file twice; a finished save is complete; the list implements `RecentFiles` across clears, restarts and saves cut off |
| Controls | a BROWSE of 2 rows over 3 records, shared; a TREE of 4 items on 3 levels, with deletions two deep; a TAB of 3 pages and 2 controls; 2 timers or hotkeys in 2 windows with 2 ids | rows stand for their records; a page is listed in order; the pointer is put back; edits write and keep locked their record; DEL deletes what is selected; keys move as a cursor; the arrays of a tree follow it; the page selected and what is seen agree; a message finds its control; timers tick when enabled; hotkeys follow the focus |
| BrowseValue | the same BROWSE | *violation*: a row appended to an emptied list stands for another record |
| TreeOrder | 5 items on 4 levels | *violation*: an entry lands among those of another subtree |
| TreeReentered | 3 items on one level, deletions two deep | *violation*: the ON CHANGE block of a deletion adds an item, and _DeleteItem drops its entry |

Bounds. One window is enough for `AppEvents`: no operation reads another
window's holders. Three messages over two slots give a full holder, a first
slot freed before the second and a refused registration; MAX_EVENTS itself
accepts 65 messages for 64 slots, the same ratio. Nesting 2 has a block that
re-emits, re-registers or destroys below a running one; a third level meets
nothing new since a call reads only the table. For `Forms`, two modals over
a main window are the shortest chain with a modal parent; `MaxDepth` bounds
calls and input, not handlers; at 9, two dialogs are open, each with a
handler in progress, below a third activation or closing. `MaxPosted = 1` lets a window be released while a
message for it waits; one activation id suffices since an id in use is not
given out again.

For `Mru`, three places give a list with a first, a middle and a last entry and
slots freed in any order; with four files every file falls off and comes back,
also beside one that is written in two cases. Every content of the section is an
initial state, since any may be left by an earlier program, an editor or a save
cut off. `MaxClears` bounds the length of the base name, which grows by one
number per clear.

`Controls` is one run of four specifications: they share no state in these
models, and a product would multiply states and show nothing more. `part` says
which of them moves. Two rows and three records have a first, a middle and a
last record, a page at the end and one that is not, and a page that scrolls;
`MaxDepth = 2` has an edit with a block in it, or a block in a block.
`MaxChanges` bounds what happens to the table from outside; a change of order
counts too. Of the settings of a BROWSE (order, SET DELETED, BROWSESYNC) two
opposite combinations are initial. Four items on three levels have an item with
a child and a sibling, one with a grandchild, and everything that can be cut
out between; two deletions, one in the block of the other, have the second one's
entries cut within the first. TreeOrder shows why not a fourth level. TreeReentered is
constrained to deletions that leave an item in the tree (`ItemToSelect`), since
only then does Windows select another one and run the block for certain. Two controls reuse each
other's slot, id and key; two messages can be on their way over a release and
a new definition.

Deadlock checking is off for `Forms`, `AppEvents` and the controls: the program ends (`halt`), and at a bound nothing
but returning may be possible.

Preconditions. `ModalChain`, `LoopHasWindow`, `CloseKeepsSlot`,
`LoopEndsLast`, `ActivateReturns` and `ImplementsDialogStack` are about
programs that open windows with ACTIVATE WINDOW and let the user close them,
where no window but the main one and the modals is ever destroyed (the child is
NOAUTORELEASE). FormsInit and FormsChildren show two
ways out of that: an ON INIT block, and children waited for. With Show, Hide
or RELEASE of other than the top modal the chain is not kept either, and the
code does not claim it. `CountsWindows` needs programs without ON GOTFOCUS
blocks (`HasGotFocus = {}`); such a block, run while a list is being shown, can
put a window of the list in a second one.

`MapFollowsTree` and `SubtreesTogether` hold between two calls, on three levels, as
long as no ON CHANGE block of a deletion has added or deleted items
(`~reentered`); such a block may sort the tree, empty it and set cargos.
TreeReentered shows that the exception is needed. `EntriesBelong` holds of
every program, at any time.

`RowsMapped`, `DeletesSelected` and `MovesAsCursor` are about lists whose rows were
filled together with their map: an append that another station overtakes, and a
list emptied alone, are marked by `drift` and excepted, so they do not catch the
raced append. `EditWritesItsRecord` excepts edits during which a block moved
the pointer itself, or BROWSESYNC did (`moved`), where it is meant to move.

`ImplementsRecentFiles` and `NoTwins` are about programs that add files with
`AddMRUItem` only (`looks`) and no blank names: demo2.prg calls `AddMenuElement` directly,
which lists a file as often as it is given, and a blank name ends the list at
the next start. The INI file is taken to be writable: `_BeginIni` shows a
message and the entries are dropped when it is not.

Fairness (`FairSpec`). `WF(Return)`: a block of the program returns - not to
assume it would make any liveness vacuous, since a block may loop. `WF(System)`:
the thread executes its handlers and retrieves posted messages and WM_QUIT,
which is what the loops do. Nothing forces a call, input, a drained queue or
a timer.

## 4. What is proved

All theorems hold for every value of the constants that satisfy the named
assumptions (`AppEventsAssumption`, `FormsAssumption`, `MruAssumption`,
`TabAssumption`, `RegistryAssumption`, `BrowseAssumption`, `TreeBounds`).

*AppEvents_proofs* (with `MinMsg > 0`): `TypeCorrect`, `HolderLifetime`
(`UsedCountsSlots`), `UniqueHandler` (`OneSlotPerMessage`), `DestroyedClean`
(`DestroyedHoldNothing`), `SlotsImplementMap` (`ImplementsEventMap`). The
invariant `IInv` says of every holder that it is `Sound`: its count is the
cardinality of its used slots, it is installed exactly when that is positive,
and no message has two slots. Each is needed for the others: a removal frees one
slot *because* the message has only one, and the holder may be freed at 0
*because* the count is exact. The lemmas `ReplaceSound`, `TakeSound`,
`RemoveSound` are facts about one holder; the steps only say where the holder is
put. For the refinement `RInv` adds that every used slot is `Filled` with a
message and a block of the program and that the calls in progress answer
messages. The lemmas about one holder say what a slot taken, replaced or freed
is in the map; every step is then a step of `EventMap` or leaves its map alone.

*Forms_proofs*: `Invariance`, `TypeCorrect`, `NoneLeftDisabled`
(`NoModalNoneDisabled`), `ModalIsUsable` (`ActiveModalUsable`), for every set
of windows, every depth and every choice of blocks and calls. The two
properties about who is enabled hold together with `OneSlot` - a live window
has one slot, and only defined windows live - which is what makes "the parent"
and "the slot of w" unique; `TypeOK` bounds every frame on the stack, so that
a handler that resumes has the fields it reads.

With `HasGotFocus = {}` *Forms_proofs* has `CountersExact` (`CountsWindows`)
too. The counter of a list activation changes when a window of the
list is flagged, shown or destroyed, the windows still to go are partly in the
table and partly in the frame of the activation, and these change in different
actions. `Counting` therefore adds that a slot with an activation id is active or
is the one at its flag (`Listed`), that a deleted slot has no id (`Deleted`),
that an activation has at most two windows left (`ShortLists`) and that an ON
INTERACTIVECLOSE block has the handler that asked it below (`Queried`), so that a
block which ends the handler with it drops no activation. The hypothesis is
needed: an ON GOTFOCUS block can put a window of the list in a second one.

*Dialogs_proofs* (with `DialogProgram`: the blocks only define and activate
windows, there is no ON INIT, and the children are NOAUTORELEASE): `Chained`,
`ModalsNest` (`ModalChain`), `DialogsReturn` (`LoopHasWindow`), `SlotsStay`
(`CloseKeepsSlot`), `LoopsLast` (`LoopEndsLast`), `DialogsImplementStack`
(`ImplementsDialogStack`), for any number of windows, of dialogs and of blocks in
progress. None of the five is inductive. `DInv` is the conjunction of

  - `Shape`: which frame may lie on which. A handler lies on the loop that
    dispatched its message, that of a modal window on the loop of that window;
    only the last two frames are at a point where no window may be opened;
  - `Waits`: every active window has one loop and every loop an active window,
    but the one on top whose modal window was just destroyed, and then there is a
    WM_QUIT, which is pending in no other state;
  - `Seen`: what is visible was activated, the modal windows until they are
    destroyed, and the focus is in an active window;
  - `Parents` and `Order`: the parent of a modal window is the window of the next
    modal loop out, and the modal loops run over all the others;
  - `Modality`: the active modal window is that of the innermost modal loop, and
    the only one enabled, except while it is leaving.

They need each other: that the WM_QUIT of a closing dialog meets its own loop
(`Waits`) follows from where its handler lies (`Shape`), that is from no other
window having been closable (`Modality`), which is so because the parents gave
modality back in the order of the loops (`Parents`). Each action lemma also
concludes `Shows`: the step opens or closes the innermost dialog, shows or hides
a window when none is open, or shows nothing. With `Numbered` - the ranks of the
open loops are 1 to their number - the refinement follows from `Shows` alone
(`StackStep`), and the Win32 state behind `usable` from `Modality` (`AbsReach`).
The hypothesis is needed: the run FormsInit breaks the theorem with an ON INIT
block, FormsChildren with children destroyed on closing; the run FormsDialogs
satisfies it.

*Mru_proofs*: `TypeCorrect`, `MenuInStep` (`MenuShowsList`), `NamesUnique`
(`UniqueIds`), `FilesUnique` (`NoTwins`) and
`SaveIsComplete` (`SaveComplete`), for any names, any case folding and any
number of places. `Entries` is the strengthening: an entry is named after its
slot, or has the base name and slot 1, and slots are distinct. That makes
control names distinct, so that the menu functions find the item they mean;
that the menu shows the list is in turn needed for its items to be found at
all. `Saving` says what a save in progress has written. The lemmas follow
`AddMenuElement`: `TakenOut`, `Grown`, `Pushed`, `Recaptioned`, `Dropped`.
`MruImplementsRecentFiles` (`ImplementsRecentFiles`) is for programs that add
files with `AddMRUItem` only (`looks`) and no blank names (`Added` among
`Names`), as in the run. `AddMRUItem` is one use of its file in the
abstract list (`AddedFiles`): it moves up, or enters and the list is cut. The
start is what needs an invariant (`Reading`): with `k` places read and some
still to be added, the list has the files of the places from the first one
added on, each once and in the order of their first places among them
(`Covers`). Adding backwards keeps that (`CoversOneMore`): the file of the
place before comes first, and its later places no longer count. The list is not
cut meanwhile, since it is no longer than the places it came from.

*Controls_proofs*, about TAB: `TabTypes`, `PageAlone` (`OnlyThePage`), `PageWhole` (`PageComplete`),
`HiddenStaysHidden` (`HiddenStays`), for any controls, pages and nesting of
blocks. While a click awaits its answer Win32 has selected the new page and the
controls still are those of the old one. `TabInv` therefore says which page is
*drawn* - `nOldPage` while a block is asked, the selected one otherwise -, that
the controls to be seen fit it, and that no control is on two pages, without
which taking a page away could take a control of another one.

*Browse_proofs*: `RowsStand` (`RowsMapped`), `PointerReturned` (`PointerKept`),
`EditsWriteTheirs` (`EditWritesItsRecord`), `EditedIsLocked` (`EditLocked`),
`SelectedDeleted` (`DeletesSelected`), for any table, filters, page length and
nesting of blocks, shared or not. None of these depends on what a page holds.
`Nested` says of the blocks in progress that only the outermost goes back to a
record, that an edit is the outermost, and VALID the one in it; `Pointer`, that
the record to go back to is the one the program left; `Writing` and `Locked`, that the record of an
edit stays current and locked until it is saved. A step either pushes a block
(`PushStep`), leaves them alone (`KeepStep`) or returns from one (`LastReturn`,
`InnerReturns`); only `EditStart`, `EditOpen`, `EditValidate` and
`ProgramGoes`, which change a frame, are argued on their own.
`PagesInOrder` (`PageInOrder`) is about what a page holds. `Skip` is a function
that recurs on itself: that it exists and takes one step after the other
(`SkipWalks`) is proved by induction on sets of numbers, from the
well-foundedness of `<` alone. A page is then a run of the order that stops when
it is full or at the end (`PageShape`). Alt+A starts `PageLength - 2` records
before the bottom; SKIP 1 undoes SKIP -1 (`ForthOfBack`), so the end is close
enough that a row is left for the new record (`EndIsNear`, `LastPage`), and the
new record is the one after the last (`Appended`). A deletion changes the table
and always draws it again because its neighbour is never a hidden record
(`Within`) and no block of a value is in progress (`Setting`).
`SelectionIsCursor` (`MovesAsCursor`, the promise of `RecordCursor`) goes on from
there: within a list that is a run of the order, the row below is SKIP 1 and,
from a record that may be shown, the row above SKIP -1 (`RunForth`, `RunBack`);
drawn `k - 1` records before a record, for any row `k`, the list shows that
record (`OnPageBefore`). `Sized` (rows and selection fit the list, and a list
just drawn has its record map) is the last part of the invariant.
`BrowseTypes` adds that the rows, the map and the pointer name records of the
table or the place behind its last one (`Listed`): a table loses no record while
its pages are listed, so what was drawn before it grew still is one.

*Registry_proofs*: `MessageFound` (`MessageFindsControl`), `Ticks`
(`EnabledTicks`), `KeysReleased` (`KeysOfFocus`), `KeysReached`
(`KeysReachable`), for any windows, keys, ids, numbers of controls and messages.
`Slotted` (an erased slot is empty, a used one belongs to a living window),
`Distinct` (no two controls share an id), `Backed` (a registered hotkey is that
of a control) and `Mailed` (a message carries the id of its control as long as
that is there) are the strengthening: the first slot with an id is *the* slot
of its control because ids are distinct, and they stay distinct because
`_GetId` looks at all slots before a slot is used again.

*Tree_proofs*, for any number of items, Ids and deletions within deletions:
`TreeBaseInvariant`, `TreeTypes`, `TreeEntries` (`EntriesBelong`) for every
program and any number of levels; with `MaxLevel <= 3` also `TreeInvariant`,
`TreeMatched` (`MapFollowsTree`) and `TreeTogether` (`SubtreesTogether`), which
say something until a block of a deletion adds or deletes items. There is no
induction over the tree: it is the sets of items under each item, of which two
are disjoint or one is in the other (`Forest`), and the tree view is a sequence
that keeps each of them together (`Lists`). `InsertLists` puts a new item behind
the set of its parent, `PruneLists` cuts the set of an item out, and both leave
such a sequence.

`TreeBase` is what no block can disturb: `Branches`, that what is over an item is
a path from the root, which makes the sets a forest; the tree view keeps them
together; `Growing`, that the open nodes of DEFINE TREE are the path to the end
of the list, so that appending is inserting; and `EntriesBelong`, because the
three arrays are always cut, filled and resized at the same places. The arrays are a second
sequence of the items, the same until TREESORT reorders the tree view alone.
`Matched` says so of the arrays as all that is left of the pending deletions
will leave them (`KeptEntries`): while a block runs they are longer than the tree,
and only the count of the *first* pending deletion matters, since without
additions and deletions the ones within it only empty the tree. `StepsCount` shows
that the walk of `_AddItem` counts all that is below an item when no item has
three levels below it. Both hypotheses are needed: TreeOrder breaks the
property on the fourth level, TreeReentered with an addition in a block.

*Controls_proofs*, about the run of all controls (`AllSpec` of `MCControls`):
`ControlsRun` says that it is a run of each of them - the initial states and the
steps of one part are those of its own specification, and the others stutter -,
so that every theorem about a control holds there, on whichever part the run is.
`ControlsTypes` (`TypesOK`) is that for the types.

Only model-checked: liveness (`ReleaseHandled`, `ActivateReturns`), since what
fairness brings about is beyond the prover. Every invariant a passing run
checks is a theorem with the hypotheses named above, and so is every property
about steps and every refinement.

## 5. Disagreements found

1. `OnceRunsOnce`: a ONCE handler is removed after its block, not before
   (`c_windows.c:269-277`).
2. `LoopHasWindow`: DOEVENTS and INKEYGUI swallow the WM_QUIT of a window
   closed before its loop has started (`h_windows.prg:1662`, `c_windowsapi.c:126`).
3. `LoopEndsLast`: a WM_QUIT ends the innermost loop, not the one of the
   window (`h_events.prg:3678`).
4. `ValueIsSelected`: a BROWSE emptied at the end of its table keeps its record
   map, and a row appended then stands for the record the first row had
   (`h_browse.prg:1149`, `1203`, `2558`).
5. `SubtreesTogether`: the walk of AddItem does not look below the first child
   of an item, so that from the fourth level on a new entry is put among those
   of another subtree (`h_controlmisc.prg:676-709`).
6. `EveryItemNamed`: an ON CHANGE block that adds or deletes an item while
   `_DeleteItem` waits in TreeView_DeleteItem changes the difference it takes for
   the number of its entries (`h_controlmisc.prg:827`, `851-884`): an item of the
   tree is left without an entry, so that no number or id leads to it.

Behaviours seen in the model that no text of the repository rules out: ON
RELEASE evaluated twice when its block pumps messages and the user closes the
window again; Show() of the active modal making it its own parent; a release
of a lower modal giving modality away from the one above it; an MRU save cut off
after its first entry, which loses a file for good (from `a, b` over `b, a`
the section becomes `a, a`); a record that stays locked after its WHEN block
refused the edit; after the first page of a TAB is deleted no page is selected,
and Show() of the tab then fails; Show() of a tab shows controls hidden one by
one; a timer released by its program goes on ticking.

## 6. Not modelled, and what is left

1. ACTIVATE WINDOW ALL, WaitWindow (which saves and restores
   `_HMG_IsModalActive` around an activation), FLASHEXIT, LOSTFOCUS, MDI.
2. The WINEVENT half of `AppEvents` (`MinMsg = 0`), where a message 0 is at the
   same time a handler and a free slot.
3. The virtual GRID, whose cell editing repeats that of BROWSE on arrays; the
   edit-record dialog of BROWSE.
4. The controls in composition with `Forms`: their blocks open windows as any
   block of `Forms` does, and the event type a BROWSE clears is the one the
   guards of `Forms` read.

Not modelled, and not planned: wrappers of Win32 controls, drawing, printing
and reports (no control flow of their own), bindings to external engines and
third-party code (most of the lines of the repository: `hbsqlite3`, `hbsqldd`,
`hbxlsxwriter`, `propgrid`, `tsbrowse`, ...), generated code, samples and the
IDE.
