-------------------------------- MODULE Browse --------------------------------
(***************************************************************************)
(* h_browse.prg: the BROWSE control, a page of a DBF table in a list view. *)
(* The list shows PageLength records at most; recMap (_HMG_aControlRangeMax)*)
(* keeps their record numbers, and every command goes from the selected    *)
(* row through recMap back to a record. The table changes under the list:  *)
(* by the program, by the ON CHANGE, WHEN and VALID blocks, by other       *)
(* stations.                                                               *)
(*                                                                         *)
(* Each block, and the modal window of an in-place edit, is a frame of     *)
(* frames while it runs: the commands below it wait for it, and the        *)
(* program goes on inside it (a timer, a nested call).                     *)
(* Left out: the work area selected (each function ends in                 *)
(* RestoreWorkArea), scroll bars, colours, fields of another work area,    *)
(* the editor of the legacy build.                                         *)
(***************************************************************************)
EXTENDS WorkArea, Sequences, SequencesExt

CONSTANTS
  PageLength,   \* rows of the list view
  MaxRecords,   \* bound: records of the table
  MaxChanges,   \* bound: changes of the order, and of the table from outside
  MaxDepth,     \* bound: blocks within blocks
  Filters,      \* the sets of records a SET FILTER may reject
  Goals,        \* the records the program goes to, or gives the Value property
  Shared        \* the table is open in shared mode: edits lock, locks may fail

BrowseBounds ==
  /\ PageLength \in Nat \ {0, 1} /\ MaxRecords \in Nat \ {0}
  /\ MaxChanges \in Nat /\ MaxDepth \in Nat
  /\ Filters \subseteq SUBSET (1..MaxRecords)
  /\ Goals \subseteq 1..(MaxRecords + 1)
  /\ Shared \in BOOLEAN
ASSUME BrowseAssumption == BrowseBounds

VARIABLES
  table,    \* the table, see WorkArea
  rec,      \* RecNo() of the work area
  rows,     \* the records the rows of the list view show
  recMap,   \* _HMG_aControlRangeMax
  row,      \* the selected row, 0 for none (LISTVIEW_GETFIRSTITEM)
  atEnd,    \* _HMG_aControlContainerHandle: the page reaches the last record
  sync,     \* SET BROWSESYNC
  event,    \* _HMG_ThisEventType
  frames,   \* the blocks in progress, the innermost last
  locks,    \* the records this program has locked
  halt,     \* MsgMiniGuiError has ended the program
  changes,  \* how often the table changed from outside
  home,     \* history: the record the program itself went to
  fresh,    \* history: the table is as it was when the list was drawn
  drift,    \* history: rows were added or removed without their recMap
  strayed   \* history: an edit wrote a record it was not started on

list == <<rows, recMap, row, atEnd, fresh, drift>>
others == <<sync, changes>>
browseVars == <<table, rec, list, sync, event, frames, locks, halt, changes, home, strayed>>

Records == 1..(MaxRecords + 1)
NoFrame == [kind |-> "none", back |-> 0, nrec |-> 0, moved |-> FALSE]
Inner   == IF frames = <<>> THEN NoFrame ELSE Last(frames)
Pop     == frames' = Front(frames)

\* Mutant: the page is filled up at the end of the table too.
PagePastEnd(t, r) == [k \in 1..PageLength |-> Skip(t, r, k - 1)]

\* The records _BrowseUpdate lists from r on: SKIP until the page is full.
Page(t, r) ==
  LET full(n) == \A k \in 2..n : Skip(t, r, k - 1) # Eof(t)
      n == CHOOSE n \in 1..PageLength :
             full(n) /\ (n = PageLength \/ ~full(n + 1))
  IN  [k \in 1..n |-> Skip(t, r, k - 1)]

RowOf(s, r) == IF r \in ToSet(s) THEN CHOOSE k \in DOMAIN s : s[k] = r /\ \A j \in 1..(k - 1) : s[j] # r
               ELSE 0

\* _BrowseUpdate from record r in table t, then row s(page) is selected.
DrawFrom(t, r, s(_)) ==
  LET page == Page(t, r)
  IN  /\ rows' = page /\ recMap' = page
      /\ atEnd' = (Forth(t, Last(page)) = Eof(t))
      /\ row' = s(page)
      /\ fresh' = TRUE /\ drift' = FALSE

Select(k) == row' = (IF k \in 1..Len(rows) THEN k ELSE row)

\* ListViewReset on its own: recMap and the end flag stay.
Reset == /\ rows' = <<>> /\ row' = 0
         /\ fresh' = FALSE /\ drift' = TRUE
         /\ UNCHANGED <<recMap, atEnd>>

\* _BrowseGetValue: the record the Value property names.
Value == IF row = 0 THEN 0 ELSE recMap[row]
GoTo(t, r) == IF r \in 1..t.last THEN r ELSE Eof(t)

Push(kind, back, nrec) ==
  frames' = Append(frames, [kind |-> kind, back |-> back, nrec |-> nrec, moved |-> FALSE])

\* _BrowseOnChange with the pointer at r: BROWSESYNC moves it to the selected
\* record, which an edit in progress does not expect. The block returns in
\* ReturnChange, which goes to back.
OnChange(kind, r, back) ==
  /\ rec' = IF sync THEN GoTo(table', Value') ELSE r
  /\ frames' = Append([k \in DOMAIN frames |-> [frames[k] EXCEPT !.moved = @ \/ sync]],
                      [kind |-> kind, back |-> back, nrec |-> 0, moved |-> FALSE])

Idle == ~halt /\ frames = <<>>
Runs == ~halt /\ Len(frames) < MaxDepth

\* The keys and clicks of the user: nobody else handles the list meanwhile.
Command == /\ Idle
           /\ UNCHANGED <<table, event, locks, halt, others, home, strayed>>
           /\ OnChange("change", rec, 0)

Home == DrawFrom(table, Top(table), LAMBDA p : 1) /\ Command

End == /\ DrawFrom(table, Skip(table, Bottom(table), 1 - PageLength),
                LAMBDA p : RowOf(p, Bottom(table)))
       /\ Command

Up ==
  /\ LET p == Back(table, recMap[1])
     IN  IF row = 1 /\ p # recMap[1] THEN DrawFrom(table, p, LAMBDA q : 1)
         ELSE Select(row - 1) /\ UNCHANGED <<rows, recMap, atEnd, fresh, drift>>
  /\ Command

\* Mutant: the SKIP before the list is drawn again is missing.
DownStays ==
  /\ ~(row = PageLength /\ atEnd)
  /\ IF row = PageLength THEN DrawFrom(table, recMap[1], LAMBDA p : Len(p))
     ELSE Select(row + 1) /\ UNCHANGED <<rows, recMap, atEnd, fresh, drift>>
  /\ Command

Down ==
  /\ ~(row = PageLength /\ atEnd)
  /\ IF row = PageLength THEN DrawFrom(table, Forth(table, recMap[1]), LAMBDA p : Len(p))
     ELSE Select(row + 1) /\ UNCHANGED <<rows, recMap, atEnd, fresh, drift>>
  /\ Command

PageDown ==
  /\ ~(row = PageLength /\ atEnd)
  /\ IF row = PageLength THEN DrawFrom(table, recMap[PageLength], LAMBDA p : Len(p))
     ELSE Select(Len(recMap)) /\ UNCHANGED <<rows, recMap, atEnd, fresh, drift>>
  /\ Command

PageUp ==
  /\ IF row = 1 THEN DrawFrom(table, Skip(table, recMap[1], 1 - PageLength), LAMBDA p : 1)
     ELSE Select(1) /\ UNCHANGED <<rows, recMap, atEnd, fresh, drift>>
  /\ Command

ClickRow(k) == Select(k) /\ UNCHANGED <<rows, recMap, atEnd, fresh, drift>> /\ Command

\* _BrowseRefresh of table t. On the first row, or none, a record that left
\* the filter, the index or the undeleted gives way to a neighbour.
RefreshIn(t) ==
  LET v == IF Value <= 0 THEN rec ELSE Value
      a == IF v \in t.hidden THEN Forth(t, v) ELSE v
      b == IF t.order # "natural" /\ a = Eof(t) THEN Top(t) ELSE a
      c == IF t.delOn /\ b \in t.deleted THEN Top(t) ELSE b
      r == IF row <= 1 THEN c ELSE v
  IN  IF r = Eof(t) THEN Reset
      ELSE DrawFrom(t, IF row = 0 THEN r ELSE Skip(t, r, 1 - row), LAMBDA p : RowOf(p, v))

Refresh == /\ Runs /\ RefreshIn(table)
           /\ UNCHANGED <<table, rec, event, frames, locks, halt, others, home, strayed>>

\* HMG_SetOrder from a click on a column header.
SetOrder ==
  /\ Idle /\ changes < MaxChanges /\ changes' = changes + 1
  /\ table' = [table EXCEPT !.order = IF @ = "up" THEN "down" ELSE "up"]
  /\ RefreshIn(table')
  /\ UNCHANGED <<rec, event, frames, locks, halt, sync, home, strayed>>

\* _BrowseSetValue in table t with the pointer at r: v is shown in row m. The
\* frame of its ON CHANGE block goes back to record back when it returns. Within
\* such a block it is an error, but not in the block of a timer that runs there.
SetValueIn(t, v, m, r, back) ==
  \/ /\ event = "BROWSE_ONCHANGE"
     /\ halt' = TRUE
     /\ UNCHANGED <<list, rec, event, frames>>
  \/ /\ v = Eof(t)
     /\ Reset
     /\ OnChange("change", r, back)
     /\ UNCHANGED <<event, halt>>
  \/ /\ v < Eof(t) /\ v \notin t.hidden
     /\ DrawFrom(t, Skip(t, v, 1 - m), LAMBDA p : RowOf(p, v))
     /\ event' = "BROWSE_ONCHANGE"
     /\ OnChange("set", r, back)
     /\ UNCHANGED halt

SetBrowseValue(v) ==
  /\ Runs /\ v <= Eof(table)
  /\ UNCHANGED <<table, locks, others, home, strayed>>
  /\ SetValueIn(table, v, PageLength \div 2, rec, 0)

\* The DEL key, confirmed: the record is deleted and its neighbour shown in
\* the same row; without SET DELETED the row stays where it is.
DeleteIn(t, v, next) ==
  LET below == Forth(t, v)
      r == IF next THEN IF below = Eof(t) THEN Bottom(t)
                        ELSE IF t.delOn THEN below ELSE Back(t, below)
           ELSE v
  IN  /\ table' = t
      /\ IF r \in t.hidden THEN UNCHANGED <<list, rec, event, frames, halt>>
         ELSE SetValueIn(t, r, row, r, rec)

\* Mutant: the current record is deleted, not the selected one.
DeleteHere ==
  /\ Idle /\ row # 0 /\ rec \notin table.deleted
  /\ \/ /\ DeleteIn([table EXCEPT !.deleted = @ \cup ({rec} \cap 1..table.last)], rec, TRUE)
        /\ locks' = {}
     \/ /\ Shared                                   \* NetDelete: no lock to be had
        /\ DeleteIn(table, rec, FALSE)
        /\ UNCHANGED locks
  /\ UNCHANGED <<others, home, strayed>>

Delete ==
  /\ Idle /\ row # 0 /\ Value \notin table.deleted
  /\ \/ /\ DeleteIn([table EXCEPT !.deleted = @ \cup ({Value} \cap 1..table.last)], Value, TRUE)
        /\ locks' = {}
     \/ /\ Shared                                   \* NetDelete: no lock to be had
        /\ DeleteIn(table, Value, FALSE)
        /\ UNCHANGED locks
  /\ UNCHANGED <<others, home, strayed>>

\* Mutant: the number of records, not of the one to come.
LastRecord == table.last

NewRecord == table.last + 1

\* Alt+A. _NewRec is RecCount() + 1 before NetAppend; more other stations may
\* append while it retries. The new record may fail the filter.
AppendRecord(n, hidden) ==
  LET page == IF rows = <<>> THEN <<>>
              ELSE Page(table, Skip(table, Bottom(table), 2 - PageLength))
      new  == table.last + 1 + n
      t    == [table EXCEPT !.last = new, !.hidden = @ \cup hidden]
  IN  /\ Idle /\ new <= MaxRecords
      /\ hidden \subseteq {new}
      /\ table' = t
      /\ recMap' = Append(IF rows = <<>> THEN recMap ELSE page, NewRecord)
      /\ rows' = Append(page, new)
      /\ row' = (IF Len(recMap') \in 1..Len(rows') THEN Len(recMap') ELSE 0)
      /\ atEnd' = (rows # <<>> \/ atEnd)
      /\ fresh' = (page # <<>> /\ n = 0 /\ hidden = {} /\ table.order # "down"
                   /\ Last(page) # Eof(table))
      /\ drift' = (n > 0 \/ (rows = <<>> /\ drift))
      /\ locks' = (IF Shared THEN {new} ELSE locks)
      /\ OnChange("change", rec, 0)
      /\ UNCHANGED <<event, halt, others, home, strayed>>

\* The append fails after the last page has been drawn.
AppendFails ==
  /\ Idle /\ Shared
  /\ IF rows = <<>> THEN UNCHANGED list
     ELSE DrawFrom(table, Skip(table, Bottom(table), 2 - PageLength), LAMBDA p : 0)
  /\ UNCHANGED <<table, rec, event, frames, locks, halt, others, home, strayed>>

\* Mutant: the lock is taken before the pointer has gone to the record.
EditStartEarly ==
  /\ Idle /\ row # 0
  /\ rec' = GoTo(table, Value)
  /\ locks' = (IF Shared THEN locks \cup {rec} ELSE locks)
  /\ event' = "BROWSE_WHEN"
  /\ Push("when", rec, rec')
  /\ UNCHANGED <<table, list, halt, others, home, strayed>>

\* Enter or double click on a row: lock, then the WHEN block of the column.
EditStart ==
  /\ Idle /\ row # 0
  /\ rec' = GoTo(table, Value)
  /\ locks' = (IF Shared THEN locks \cup {rec'} ELSE locks)
  /\ event' = "BROWSE_WHEN"
  /\ Push("when", rec, rec')
  /\ UNCHANGED <<table, list, halt, others, home, strayed>>

\* Mutant: the pointer is left where the WHEN block has put it.
EditOpenThere ==
  /\ ~halt /\ Inner.kind = "when"
  /\ event' = "" /\ rec' = rec
  /\ frames' = Front(frames) \o <<[Inner EXCEPT !.kind = "edit", !.moved = FALSE]>>
  /\ UNCHANGED <<table, list, locks, halt, others, home, strayed>>

\* The column has no WHEN block, or it lets the edit begin: the pointer goes
\* back to the record, and the modal window _InPlaceEdit is opened.
EditOpen ==
  /\ ~halt /\ Inner.kind = "when"
  /\ event' = "" /\ rec' = GoTo(table, Inner.nrec)
  /\ frames' = Front(frames) \o <<[Inner EXCEPT !.kind = "edit", !.moved = FALSE]>>
  /\ UNCHANGED <<table, list, locks, halt, others, home, strayed>>

EditRefused ==
  /\ ~halt /\ Inner.kind = "when"
  /\ event' = "" /\ rec' = GoTo(table, Inner.back) /\ Pop
  /\ UNCHANGED <<table, list, locks, halt, others, home, strayed>>

EditEscape ==
  /\ ~halt /\ Inner.kind = "edit"
  /\ locks' = {} /\ rec' = GoTo(table, Inner.back) /\ Pop
  /\ UNCHANGED <<table, list, event, halt, others, home, strayed>>

\* _InPlaceEditOk: the VALID block of the column.
EditValidate ==
  /\ Runs /\ Inner.kind = "edit"
  /\ event' = "BROWSE_VALID" /\ Push("valid", 0, 0)
  /\ UNCHANGED <<table, rec, list, locks, halt, others, home, strayed>>

EditInvalid ==
  /\ ~halt /\ Inner.kind = "valid"
  /\ event' = "" /\ Pop
  /\ UNCHANGED <<table, rec, list, locks, halt, others, home, strayed>>

\* _InPlaceEditSave: REPLACE writes the current record of the area. The new
\* value may take the record in or out of the filter. Then the list is drawn,
\* the window released and the pointer put back.
EditSave(hidden) ==
  LET edit == frames[Len(frames) - 1]
      t == [table EXCEPT !.hidden = hidden]
  IN  /\ ~halt /\ Inner.kind = "valid"
      /\ table.hidden \ {rec} = hidden \ {rec}
      /\ table' = t /\ RefreshIn(t)
      /\ event' = "" /\ locks' = (IF Shared THEN {} ELSE locks)
      /\ rec' = GoTo(t, edit.back)
      /\ frames' = SubSeq(frames, 1, Len(frames) - 2)
      /\ strayed' = (strayed \/ (rec # edit.nrec /\ ~edit.moved))
      /\ UNCHANGED <<halt, others, home>>

\* Mutant: _BrowseDelete does not go back.
ReturnStays ==
  /\ ~halt /\ Inner.kind \in {"change", "set"}
  /\ Pop
  /\ event' = (IF Inner.kind = "set" THEN "" ELSE event)
  /\ UNCHANGED <<rec, table, list, locks, halt, others, home, strayed>>

\* An ON CHANGE block returns: _BrowseSetValue clears the event type, not
\* caring what it was before, and _BrowseDelete goes back to its record.
ReturnChange ==
  /\ ~halt /\ Inner.kind \in {"change", "set"}
  /\ Pop
  /\ event' = (IF Inner.kind = "set" THEN "" ELSE event)
  /\ rec' = (IF Inner.back = 0 THEN rec ELSE GoTo(table, Inner.back))
  /\ UNCHANGED <<table, list, locks, halt, others, home, strayed>>

\* The program moves the record pointer, also inside the blocks.
ProgramGoes(r) ==
  /\ ~halt /\ rec' = GoTo(table, r)
  /\ frames' = [k \in DOMAIN frames |-> [frames[k] EXCEPT !.moved = TRUE]]
  /\ home' = (IF \A k \in DOMAIN frames : frames[k].back = 0 THEN rec' ELSE home)
  /\ UNCHANGED <<table, list, event, locks, halt, others, strayed>>

\* The program or another station deletes, recalls or appends records, or the
\* program sets another filter.
TableChanges(t) ==
  /\ ~halt /\ changes < MaxChanges
  /\ table' = t /\ t # table
  /\ changes' = changes + 1 /\ fresh' = FALSE
  /\ UNCHANGED <<rec, rows, recMap, row, atEnd, drift, sync, event, frames, locks, halt,
                 home, strayed>>

InitBrowse ==
  /\ table \in [last : 1..MaxRecords, hidden : {{}}, deleted : {{}}, delOn : BOOLEAN,
                order : {"natural", "up"}]
  /\ rec = Top(table) /\ home = Top(table)
  /\ rows = <<>> /\ recMap = <<>> /\ row = 0 /\ atEnd = FALSE
  /\ fresh = FALSE /\ drift = FALSE /\ strayed = FALSE
  /\ sync \in BOOLEAN /\ event = "" /\ frames = <<>> /\ locks = {} /\ halt = FALSE
  /\ changes = 0

UserKeys ==
  \/ Home \/ End \/ Up \/ Down \/ PageUp \/ PageDown \/ SetOrder \/ Delete \/ AppendFails
  \/ \E k \in DOMAIN rows : ClickRow(k)
  \/ \E n \in IF Shared THEN {0, 1} ELSE {0}, h \in SUBSET {table.last + 1} : AppendRecord(n, h)

Editing ==
  \/ EditStart \/ EditOpen \/ EditRefused \/ EditEscape \/ EditValidate \/ EditInvalid
  \/ \E h \in {table.hidden} \cup {f \cap 1..table.last : f \in Filters} : EditSave(h)

BrowseProgram ==
  \/ Refresh \/ ReturnChange
  \/ \E r \in Goals : SetBrowseValue(r) \/ ProgramGoes(r)
  \/ \E r \in 1..table.last :
       \/ TableChanges([table EXCEPT !.deleted = @ \cup {r}])
       \/ TableChanges([table EXCEPT !.deleted = @ \ {r}])
  \/ \E h \in Filters : TableChanges([table EXCEPT !.hidden = h \cap 1..table.last])
  \/ /\ table.last < MaxRecords
     /\ TableChanges([table EXCEPT !.last = @ + 1])

BrowseNext == UserKeys \/ Editing \/ BrowseProgram

BrowseSpec == InitBrowse /\ [][BrowseNext]_browseVars

-------------------------------------------------------------------------------
BrowseTypeOK ==
  /\ table \in [last : 1..MaxRecords, hidden : SUBSET (1..MaxRecords), deleted : SUBSET (1..MaxRecords),
                delOn : BOOLEAN, order : {"natural", "up", "down"}]
  /\ rec \in Records /\ home \in Records /\ locks \subseteq Records
  /\ rows \in Seq(Records) /\ Len(rows) <= PageLength
  /\ recMap \in Seq(Records) /\ Len(rows) <= Len(recMap)
  /\ row \in 0..Len(rows)
  /\ atEnd \in BOOLEAN /\ fresh \in BOOLEAN /\ drift \in BOOLEAN /\ strayed \in BOOLEAN
  /\ sync \in BOOLEAN /\ halt \in BOOLEAN /\ changes \in 0..MaxChanges
  /\ event \in {"", "BROWSE_ONCHANGE", "BROWSE_WHEN", "BROWSE_VALID"}
  /\ frames \in Seq([kind : {"change", "set", "when", "edit", "valid"},
                     back : 0..(MaxRecords + 1), nrec : 0..(MaxRecords + 1), moved : BOOLEAN])

\* Every row stands for the record it shows, as long as no row was added to a
\* list that had been emptied on its own (see Reset) or by a raced append.
RowsMapped == ~drift => recMap = rows

\* A list drawn since the table last changed is a run of the shown records
\* in their order, as long as the page or up to the last of them.
PageInOrder ==
  fresh => /\ rows # <<>>
           /\ \A k \in 2..Len(rows) : rows[k] = Forth(table, rows[k - 1]) /\ rows[k] # Eof(table)
           /\ atEnd = (Forth(table, Last(rows)) = Eof(table))
           /\ atEnd \/ Len(rows) = PageLength

\* "By default, Browse control does not change the record pointer in its work
\* area" (tutorial.htm): once all blocks have returned it is where the program
\* put it, through edits, deletions and appends.
PointerKept == ~sync /\ ~halt /\ frames = <<>> => rec = home

\* An in-place edit writes the record it was started on, whatever the timers
\* and blocks that run meanwhile do to the list, unless they move the pointer.
EditWritesItsRecord == ~strayed

\* In shared mode the record being edited is locked until the edit ends.
EditLocked == Shared => \A k \in DOMAIN frames : frames[k].kind = "edit" => frames[k].nrec \in locks

\* DEL deletes the record that the selected row shows.
DeleteStep == changes' = changes /\ ~drift => \A r \in table'.deleted \ table.deleted : r = rows[row]
DeletesSelected == [][DeleteStep]_browseVars

\* "'Value' property is use to set / get the selected record number"
\* (tutorial.htm).
ValueIsSelected == row # 0 => Value = rows[row]

\* What a BROWSE promises its user.
Cursor == INSTANCE RecordCursor WITH None <- 0, cur <- IF row = 0 THEN 0 ELSE rows[row]

\* The commands of the user move the selection of a BROWSE as a cursor on the
\* table moves: one record up or down, first, last, at most a page, whatever page
\* is drawn; a refresh keeps the record, a deletion goes to its neighbour.
CursorStep ==
  /\ Idle /\ frames' # frames =>
       /\ Home => Cursor!First
       /\ End => Cursor!Final
       /\ Down => Cursor!Forward
       /\ Up => Cursor!Backward
       /\ PageDown => Cursor!PageForward
       /\ PageUp => Cursor!PageBackward
  /\ Idle /\ fresh /\ changes' = changes /\ (table' # table \/ frames' # frames) /\ Delete
       => Cursor!Remove
  /\ Idle /\ ~drift /\ changes' # changes /\ SetOrder => Cursor!Keep
  /\ ~drift /\ UNCHANGED <<table, frames>> /\ Refresh => Cursor!Keep
MovesAsCursor == [][CursorStep]_browseVars
=============================================================================
