-------------------------------- MODULE Mru --------------------------------
(***************************************************************************)
(* The most-recently-used list of h_mru.prg: the array aMRU_File, the menu *)
(* items that show it (h_menu.prg keeps them in the Win32 menu, found by   *)
(* control names made of the base name and a slot number), and the section *)
(* of the INI file that carries the list over a restart.                   *)
(*                                                                         *)
(* A control name is the sequence of the numbers after the base name:      *)
(* <<>> is "MRU", <<2>> is "MRU_2", <<2, 1>> is "MRU_2_1".                 *)
(***************************************************************************)
EXTENDS Integers, Sequences, SequencesExt

CONSTANTS
  Names,      \* the file names, Blank not among them
  Blank,      \* the empty string
  Fold,       \* Fold[n] is Upper( n )
  MaxItems,   \* nMaxItems
  Added,      \* the names the program hands to AddMRUItem
  Unchecked,  \* those a program that does not look hands to AddMenuElement
  MaxClears   \* bound on clears that lengthen the base name

Text == Names \cup {Blank}

ASSUME MruAssumption ==
  /\ Blank \notin Names
  /\ Fold \in [Text -> Text]
  /\ \A n \in Text : Fold[n] = Blank <=> n = Blank
  /\ MaxItems \in Nat \ {0}
  /\ Added \subseteq Text /\ Unchecked \subseteq Text
  /\ MaxClears \in Nat

Place == 1 .. MaxItems

VARIABLES
  looks,   \* the program adds names with AddMRUItem only, which looks for them
  up,      \* the program runs
  list,    \* aMRU_File, most recent first
  filled,  \* MRUCount # 0
  base,    \* cMRU_Id
  menu,    \* the items of the popup menu, top down
  todo,    \* what _DefineMruItem has read and not added yet
  ini,     \* the section of the INI file
  at       \* the entry SaveMRUFileList writes next, 0 when it is not running

vars == <<looks, up, list, filled, base, menu, todo, ini, at>>

Id    == Seq(Nat)
Entry == [name : Text, id : Id, slot : Nat \ {0}]
Item  == [id : Id, no : Nat, name : Text, on : BOOLEAN]

TypeOK ==
  /\ looks \in BOOLEAN /\ up \in BOOLEAN /\ filled \in BOOLEAN
  /\ list \in Seq(Entry) /\ Len(list) <= MaxItems
  /\ base \in Id
  /\ menu \in Seq(Item)
  /\ todo \in Seq(Names)
  /\ ini \in [Place -> Text]
  /\ at \in 0 .. MaxItems

Init ==
  /\ looks \in BOOLEAN
  /\ up = FALSE
  /\ list = <<>> /\ filled = FALSE /\ base = <<>> /\ menu = <<>> /\ todo = <<>>
  /\ ini \in [Place -> Text]
  /\ at = 0

\* No call is in progress: the program is in its message loop.
Idle == up /\ todo = <<>> /\ at = 0

-----------------------------------------------------------------------------
(* The menu functions.  An item is found by its control name; ModifyMenu   *)
(* with MF_STRING also enables the item.                                   *)

EmptyItem(id, enabled) == [id |-> id, no |-> 0, name |-> Blank, on |-> enabled]

Shown(id, no, n) == [id |-> id, no |-> no, name |-> n, on |-> TRUE]

ModifyMenuItem(m, id, no, n) ==
  [k \in DOMAIN m |-> IF m[k].id = id THEN Shown(id, no, n) ELSE m[k]]

InsertMenuItem(m, before, item) ==
  InsertAt(m, CHOOSE k \in DOMAIN m : m[k].id = before, item)

RemoveMenuItem(m, id) ==
  RemoveAt(m, CHOOSE k \in DOMAIN m : m[k].id = id)

\* _ModifyMenuItem for every entry of the list, by its position.
\* (Mutant: the items after the new one keep their numbers.)
RecaptionFirst(m, l) == m
Recaption(m, l) ==
  [k \in DOMAIN m |->
     IF \E i \in DOMAIN l : l[i].id = m[k].id
     THEN LET i == CHOOSE i \in DOMAIN l : l[i].id = m[k].id
          IN Shown(m[k].id, i, l[i].name)
     ELSE m[k]]

-----------------------------------------------------------------------------
(* AddMenuElement: name n goes to the top of the entries l with menu m.    *)

\* The lowest slot number no entry has.
\* (Mutant: the next number, taken or not.)
NextSlot(l, x) == x = Len(l) + 1
FreeSlot(l, x) ==
  /\ x \in 1 .. Len(l) + 1
  /\ \A i \in DOMAIN l : l[i].slot # x
  /\ \A y \in 1 .. x - 1 : \E i \in DOMAIN l : l[i].slot = y

\* The first file takes the place of the "(Empty)" item.
AddFirst(n, l, m) ==
  /\ ~filled /\ filled' = TRUE
  /\ list' = Append(l, [name |-> n, id |-> base, slot |-> 1])
  /\ menu' = ModifyMenuItem(m, base, 1, n)

\* The oldest entry falls off a full list.
\* (Mutant: one entry too late.)
DropLate(l, m) ==
  IF Len(l) > MaxItems + 1
  THEN list' = Front(l) /\ menu' = RemoveMenuItem(m, Last(l).id)
  ELSE list' = l /\ menu' = m
DropOldest(l, m) ==
  IF Len(l) > MaxItems
  THEN list' = Front(l) /\ menu' = RemoveMenuItem(m, Last(l).id)
  ELSE list' = l /\ menu' = m

AddOnTop(n, l, m) ==
  /\ filled /\ filled' = filled
  /\ \E x \in 1 .. Len(l) + 1 :
       /\ FreeSlot(l, x)
       /\ LET id     == Append(base, x)
              grown  == <<[name |-> n, id |-> id, slot |-> x]>> \o l
              pushed == InsertMenuItem(m, Head(l).id, Shown(id, 1, n))
          IN DropOldest(grown, Recaption(pushed, grown))

AddMenuElement(n, l, m) == AddFirst(n, l, m) \/ AddOnTop(n, l, m)

\* CheckForDuplicateMRU: d is the first entry with the name n up to case.
\* (Mutant: names are compared as they are written.)
SameText(a, b) == a # Blank /\ a = b
SameName(a, b) == a # Blank /\ Fold[a] = Fold[b]

DuplicateAt(n, d) ==
  /\ SameName(n, list[d].name)
  /\ \A i \in 1 .. d - 1 : ~SameName(n, list[i].name)

\* ReorderMRUList takes entry d out, and AddMenuElement puts n on top; a
\* name that is on top already stays as it is.
MoveUp(n, d) ==
  IF d = 1 /\ filled THEN UNCHANGED <<list, menu, filled>>
  ELSE AddMenuElement(n, RemoveAt(list, d), RemoveMenuItem(menu, list[d].id))

AddMRUItem(n) ==
  \/ \E d \in DOMAIN list : DuplicateAt(n, d) /\ MoveUp(n, d)
  \/ /\ \A d \in DOMAIN list : ~SameName(n, list[d].name)
     /\ AddMenuElement(n, list, menu)

-----------------------------------------------------------------------------
(* What the program does with the list.                                    *)

\* The user opens a file.
Use(n) ==
  /\ Idle
  /\ AddMRUItem(n)
  /\ UNCHANGED <<looks, up, base, todo, ini, at>>

\* demo2.prg: the program adds the element itself, without a look at the list.
UseUnchecked(n) ==
  /\ Idle /\ ~looks
  /\ AddMenuElement(n, list, menu)
  /\ UNCHANGED <<looks, up, base, todo, ini, at>>

\* ClearMRUList.  One item is left as the "(Empty)" one and gives the base
\* name: the oldest or the newest, by what __enumIsLast() says in a loop
\* that descends; the xHarbour branch keeps the newest.
ClearMRUList ==
  /\ Idle /\ list # <<>> /\ Len(base) < MaxClears
  /\ \E k \in {1, Len(list)} :
       /\ base' = list[k].id
       /\ menu' = <<EmptyItem(list[k].id, FALSE)>>
  /\ list' = <<>> /\ filled' = FALSE
  /\ UNCHANGED <<looks, up, todo, ini, at>>

\* SaveMRUFileList writes the entries one by one, up to nMaxItems.
BeginSave ==
  /\ Idle /\ at' = 1
  /\ UNCHANGED <<looks, up, list, filled, base, menu, todo, ini>>

\* (Mutant: the places after the end of the list are not overwritten.)
SavedOnly(i) == IF i <= Len(list) THEN list[i].name ELSE ini[i]
Saved(i) == IF i <= Len(list) THEN list[i].name ELSE Blank

WriteEntry ==
  /\ at # 0
  /\ ini' = [ini EXCEPT ![at] = Saved(at)]
  /\ at' = IF at = MaxItems THEN 0 ELSE at + 1
  /\ UNCHANGED <<looks, up, list, filled, base, menu, todo>>

\* _DefineMruItem: the entries up to the first empty one are read ...
Readable(k) == \A i \in 1 .. k : ini[i] # Blank

Start ==
  /\ ~up /\ up' = TRUE
  /\ base' = <<>> /\ list' = <<>> /\ filled' = FALSE
  /\ \E k \in 0 .. MaxItems :
       /\ Readable(k) /\ (k < MaxItems => ini[k + 1] = Blank)
       /\ todo' = [i \in 1 .. k |-> ini[i]]
       /\ menu' = <<EmptyItem(<<>>, k # 0)>>
  /\ UNCHANGED <<looks, ini, at>>

\* ... and added, the last one first.
\* (Mutant: the first one first.)
LoadForwards ==
  /\ up /\ todo # <<>>
  /\ AddMRUItem(Head(todo)) /\ todo' = Tail(todo)
  /\ UNCHANGED <<looks, up, base, ini, at>>
Load ==
  /\ up /\ todo # <<>>
  /\ AddMRUItem(Last(todo)) /\ todo' = Front(todo)
  /\ UNCHANGED <<looks, up, base, ini, at>>

\* The program ends, or dies at any point: the INI file stays as it is.
Stop ==
  /\ up /\ up' = FALSE
  /\ list' = <<>> /\ filled' = FALSE /\ base' = <<>> /\ menu' = <<>>
  /\ todo' = <<>> /\ at' = 0
  /\ UNCHANGED <<looks, ini>>

Next ==
  \/ \E n \in Added : Use(n)
  \/ \E n \in Unchecked : UseUnchecked(n)
  \/ ClearMRUList
  \/ BeginSave
  \/ WriteEntry
  \/ Start
  \/ Load
  \/ Stop

Spec == Init /\ [][Next]_vars

-----------------------------------------------------------------------------
(* Properties.                                                             *)

\* The popup shows exactly the list: its files from the top, numbered by
\* position, under the control names the list holds, all enabled; or the one
\* "(Empty)" item under the base name when there is none (h_mru.prg:98-137).
MenuShowsList ==
  up => IF list # <<>>
        THEN menu = [i \in DOMAIN list |-> Shown(list[i].id, i, list[i].name)]
        ELSE menu = <<EmptyItem(base, todo # <<>>)>>

\* No two items of the menu have one control name, whatever slots were freed
\* by duplicates, by the oldest falling off and by clears: the functions of
\* h_menu.prg would change the wrong item (h_mru.prg:108-120).
UniqueIds ==
  \A i, j \in DOMAIN list : i # j =>
    /\ list[i].id # list[j].id
    /\ list[i].slot # list[j].slot

\* When the program looks, no file is in the list twice, in whatever case it
\* was given, not even after a start from a half-written section
\* (h_mru.prg:76-91).
NoTwins ==
  looks => \A i, j \in DOMAIN list :
    /\ list[i].name # Blank
    /\ Fold[list[i].name] = Fold[list[j].name]
    => i = j

\* When SaveMRUFileList is through, the section holds the list and nothing
\* older behind it (h_mru.prg:164-173).
SaveComplete ==
  [][at # 0 /\ at' = 0 /\ up' =>
       \A i \in Place :
         ini'[i] = IF i <= Len(list) THEN list[i].name ELSE Blank]_vars

\* The files are the names up to case.  While the section is read the user
\* sees none of them.
RecentFiles == INSTANCE RecentFiles WITH
  File     <- {Fold[n] : n \in Names},
  None     <- Blank,
  Capacity <- MaxItems,
  phase    <- IF ~up THEN "down" ELSE IF todo # <<>> THEN "starting" ELSE "ready",
  recent   <- IF todo # <<>> THEN <<>> ELSE [i \in DOMAIN list |-> Fold[list[i].name]],
  kept     <- [i \in Place |-> Fold[ini[i]]]

\* The list, the menu slots and the entry-by-entry load and save of a program
\* that looks implement the bounded move-to-front list of files
\* (h_mru.prg:67-281): this is RecentFiles!Spec when looks holds, and looks
\* never changes.
ImplementsRecentFiles ==
  /\ looks => RecentFiles!Init
  /\ [][looks => RecentFiles!Next]_(RecentFiles!vars)

=============================================================================
