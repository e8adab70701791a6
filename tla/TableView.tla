------------------------------- MODULE TableView -------------------------------
(***************************************************************************)
(* The three views of the storage: MacModel, SessionsModel and             *)
(* StatisticsModel.  None keeps a copy.  A timer tells Qt that the whole   *)
(* model was reset; Qt then asks for the number of rows and for one cell   *)
(* after another, and every answer takes the storage mutex for itself.     *)
(* The network threads and the REST server change the table in between.    *)
(*                                                                         *)
(* The rows are the entries of one interface in the order of the map       *)
(* (StatisticsModel), or all entries (the other two, with one interface).  *)
(* A row has two cells here, the key and the rest of its entry.            *)
(*                                                                         *)
(* Slip... definitions are mistakes to try the properties on (see          *)
(* SwitchLifecycle).                                                       *)
(***************************************************************************)
EXTENDS Integers, Sequences, FiniteSets, Tables

CONSTANTS
  Key,         \* keys of the table, in the order of the map
  Entry,       \* what the other columns show of an entry
  Interface,   \* interfaces a view can be of
  Of,          \* Of[k]: the interface entry k belongs to
  Blank        \* an invalid QVariant

ASSUME ViewAssumption ==
  /\ Key \subseteq Nat /\ IsFiniteSet(Key)
  /\ Of \in [Key -> Interface]
  /\ Blank \notin Key \cup Entry

VARIABLES
  table,     \* the table in the storage
  model,     \* currentInterface_m of the model the view shows
  reset,     \* endResetModel was called and Qt has not looked yet
  painting,  \* Qt is asking for cells
  rows,      \* the rowCount() of this picture
  picture,   \* its cells so far, row by row
  changed    \* history: what happened to the table since rowCount()

view == <<model, reset, painting, rows, picture>>
vars == <<table, view, changed>>

------------------------------------------------------------------------------

Width == 2     \* columns

Mine == {k \in DOMAIN table : Of[k] = model}

rowCount == Cardinality(Mine)

\* Slip: entries of the other interface are not skipped.
SlipIsRowUnfiltered(k, row) ==
  k \in DOMAIN table /\ Cardinality({j \in DOMAIN table : j < k}) = row

\* The loops of data() count the entries in front of the row.
IsRow(k, row) == k \in Mine /\ Cardinality({j \in Mine : j < k}) = row

Cell(k, column) == IF column = 0 THEN k ELSE table[k]

data(row, column) ==
  IF \E k \in Mine : IsRow(k, row)
  THEN Cell(CHOOSE k \in Mine : IsRow(k, row), column)
  ELSE Blank

Init ==
  /\ table = Empty
  /\ model \in Interface
  /\ reset = TRUE
  /\ painting = FALSE
  /\ rows = 0
  /\ picture = <<>>
  /\ changed = "rows"

------------------------------------------------------------------------------
(* The GUI thread *)

\* Slip: beginResetModel without endResetModel.
SlipUpdateBeginsOnly == UNCHANGED vars

\* updateMac, updateSessions and updateStats of the models.
update ==
  /\ ~painting
  /\ reset' = TRUE
  /\ UNCHANGED <<table, model, painting, rows, picture, changed>>

\* startNetworkThread makes a new StatisticsModel for the view.
setModel(i) ==
  /\ ~painting
  /\ model' = i
  /\ reset' = TRUE
  /\ changed' = "rows"
  /\ UNCHANGED <<table, painting, rows, picture>>

\* Slip: all entries are counted.
SlipLayoutCountsAll ==
  /\ reset /\ ~painting
  /\ reset' = FALSE /\ painting' = TRUE
  /\ rows' = Cardinality(DOMAIN table)
  /\ picture' = <<>>
  /\ changed' = "nothing"
  /\ UNCHANGED <<table, model>>

layout ==
  /\ reset /\ ~painting
  /\ reset' = FALSE /\ painting' = TRUE
  /\ rows' = rowCount
  /\ picture' = <<>>
  /\ changed' = "nothing"
  /\ UNCHANGED <<table, model>>

paint ==
  /\ painting /\ Len(picture) < Width * rows
  /\ picture' = Append(picture, data(Len(picture) \div Width, Len(picture) % Width))
  /\ UNCHANGED <<table, model, reset, painting, rows, changed>>

painted ==
  /\ painting /\ Len(picture) = Width * rows
  /\ painting' = FALSE
  /\ UNCHANGED <<table, model, reset, rows, picture, changed>>

\* The purges, the clear buttons, and the reset of the storage.
erase ==
  /\ ~painting
  /\ \E kept \in SUBSET DOMAIN table : table' = [k \in kept |-> table[k]]
  /\ changed' = "rows"
  /\ UNCHANGED view

------------------------------------------------------------------------------
(* The other threads *)

\* Learning a station, a login, the first packet of a protocol.
insert(k, e) ==
  /\ k \notin DOMAIN table
  /\ table' = Insert(table, k, e)
  /\ changed' = "rows"
  /\ UNCHANGED view

\* A station seen again, a packet counted, time that passes.
overwrite(k, e) ==
  /\ k \in DOMAIN table
  /\ table' = Insert(table, k, e)
  /\ changed' = IF changed = "nothing" THEN "entries" ELSE changed
  /\ UNCHANGED view

\* POST /logout
logout(k) ==
  /\ k \in DOMAIN table
  /\ table' = Without(table, k)
  /\ changed' = "rows"
  /\ UNCHANGED view

Gui == update \/ layout \/ paint \/ painted \/ erase \/ \E i \in Interface : setModel(i)

Others == \E k \in Key : logout(k) \/ \E e \in Entry : insert(k, e) \/ overwrite(k, e)

Next == Gui \/ Others

\* The timers of the models run from their constructors on; Qt paints.
Fairness == WF_vars(update) /\ WF_vars(layout) /\ WF_vars(paint) /\ WF_vars(painted)

Spec == Init /\ [][Next]_vars /\ Fairness

------------------------------------------------------------------------------
(* Properties *)

TypeOK ==
  /\ IsTable(table, Key, Entry)
  /\ model \in Interface
  /\ reset \in BOOLEAN /\ painting \in BOOLEAN
  /\ rows \in Nat
  /\ picture \in Seq(Key \cup Entry \cup {Blank})
  /\ changed \in {"nothing", "entries", "rows"}

\* The cells drawn so far are what the table has there.
Agrees(columns) ==
  /\ rows = rowCount
  /\ \A n \in 1..Len(picture) :
       ((n - 1) % Width) \in columns =>
         \E k \in Mine : IsRow(k, (n - 1) \div Width) /\ picture[n] = Cell(k, (n - 1) % Width)

\* As long as no entry comes or goes while the cells are read, no row mixes
\* two entries, none is missing and none is blank; only the entries' values may
\* be of different moments.
RowsStayInPlace == changed \in {"nothing", "entries"} => Agrees({0})

\* A picture during which nothing changed is the table.
UndisturbedIsExact == changed = "nothing" => Agrees({0, 1})

\* When the table comes to rest, the view comes to show it, although it is never told what
\* changed: the timers redraw everything.
Complete == ~painting /\ Len(picture) = Width * rows
ViewCatchesUp ==
  <>[][UNCHANGED <<table, model>>]_vars => <>[](~painting => Complete /\ Agrees({0, 1}))

==============================================================================
