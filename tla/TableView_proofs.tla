---------------------------- MODULE TableView_proofs ----------------------------
(***************************************************************************)
(* What the views show, for any finite set of keys and any entries.  The   *)
(* row numbers that data() counts are exactly 0 to rowCount() - 1, since   *)
(* counting the entries in front of a key is one to one (RowExists).       *)
(***************************************************************************)
EXTENDS TableView, FunctionTheorems, FiniteSetTheorems, TLAPS

IInv == TypeOK /\ RowsStayInPlace /\ UndisturbedIsExact

Before(M, k) == {j \in M : j < k}

------------------------------------------------------------------------------
(* Lemmas *)

LEMMA BeforeLess ==
  ASSUME NEW M \in SUBSET Nat, IsFiniteSet(M), NEW k \in M
  PROVE  /\ Cardinality(Before(M, k)) \in 0..(Cardinality(M) - 1)
         /\ \A l \in M : k < l => Cardinality(Before(M, k)) < Cardinality(Before(M, l))
<1>1. ASSUME NEW T \in SUBSET M, NEW U \in SUBSET T, NEW x \in T \ U
      PROVE  Cardinality(U) < Cardinality(T) /\ Cardinality(U) \in Nat /\ Cardinality(T) \in Nat
  <2>1. IsFiniteSet(T)
    BY FS_Subset
  <2>2. IsFiniteSet(U) /\ Cardinality(U) <= Cardinality(T) /\ Cardinality(U) # Cardinality(T)
    BY <2>1, FS_Subset
  <2> QED BY <2>1, <2>2, FS_CardinalityType
<1>2. Cardinality(Before(M, k)) < Cardinality(M) /\ Cardinality(Before(M, k)) \in Nat
      /\ Cardinality(M) \in Nat
  <2>1. Before(M, k) \in SUBSET M /\ k \in M \ Before(M, k)
    BY DEF Before
  <2> QED BY <2>1, <1>1
<1>3. ASSUME NEW l \in M, k < l PROVE Cardinality(Before(M, k)) < Cardinality(Before(M, l))
  <2>0. \A j \in M : j < k => j < l
    BY <1>3
  <2>1. Before(M, k) \subseteq Before(M, l) /\ Before(M, l) \subseteq M
    BY <2>0 DEF Before
  <2>2. k \in Before(M, l) \ Before(M, k)
    BY <1>3 DEF Before
  <2> QED BY <2>1, <2>2, <1>1
<1> QED BY <1>2, <1>3

LEMMA RowExists ==
  ASSUME NEW M \in SUBSET Nat, IsFiniteSet(M), NEW r \in 0..(Cardinality(M) - 1)
  PROVE  \E k \in M : Cardinality(Before(M, k)) = r
<1> DEFINE n == Cardinality(M)
           R == 0..(n - 1)
           f == [k \in M |-> Cardinality(Before(M, k))]
<1>1. n \in Nat
  BY FS_CardinalityType
<1>2. f \in [M -> R]
  BY BeforeLess
<1>3. ASSUME NEW k \in M, NEW l \in M, f[k] = f[l] PROVE k = l
  <2>1. CASE k < l
    BY <2>1, <1>3, BeforeLess
  <2>2. CASE l < k
    BY <2>2, <1>3, BeforeLess
  <2> QED BY <2>1, <2>2
<1>4. f \in Injection(M, R)
  BY <1>2, <1>3, Fun_IsInj DEF Injection, IsInjective
<1>5. IsFiniteSet(R) /\ Cardinality(R) = n
  BY <1>1, FS_Interval
<1>6. f \in Surjection(M, R)
  BY <1>4, <1>5, FS_Injection
<1>7. \E k \in M : f[k] = r
  BY <1>6 DEF Surjection
<1> QED BY <1>7
LEMMA MineLemma ==
  ASSUME TypeOK PROVE Mine \in SUBSET Nat /\ IsFiniteSet(Mine) /\ rowCount \in Nat
<1>1. Mine \in SUBSET Key
  BY DEF TypeOK, IsTable, Mine
<1>2. Mine \in SUBSET Nat /\ IsFiniteSet(Mine)
  BY <1>1, FS_Subset, ViewAssumption
<1> QED BY <1>2, FS_CardinalityType DEF rowCount

\* The cell data() returns for a row that exists.
LEMMA DataLemma ==
  ASSUME TypeOK, NEW row \in 0..(rowCount - 1), NEW column
  PROVE  \E k \in Mine : IsRow(k, row) /\ data(row, column) = Cell(k, column)
<1>1. \E k \in Mine : Cardinality(Before(Mine, k)) = row
  BY MineLemma, RowExists DEF rowCount
<1>2. \E k \in Mine : IsRow(k, row)
  BY <1>1 DEF IsRow, Before
<1>3. (CHOOSE k \in Mine : IsRow(k, row)) \in Mine
      /\ IsRow(CHOOSE k \in Mine : IsRow(k, row), row)
  BY <1>2
<1> QED BY <1>2, <1>3 DEF data

LEMMA DataType ==
  ASSUME TypeOK, NEW row, NEW column
  PROVE  data(row, column) \in Key \cup Entry \cup {Blank}
<1>1. Mine \subseteq Key /\ \A k \in Mine : table[k] \in Entry
  BY DEF TypeOK, IsTable, Mine
<1>2. \A k \in Mine : Cell(k, column) \in Key \cup Entry
  BY <1>1 DEF Cell
<1>3. CASE \E k \in Mine : IsRow(k, row)
  <2>1. (CHOOSE k \in Mine : IsRow(k, row)) \in Mine
    BY <1>3
  <2> QED BY <1>2, <1>3, <2>1 DEF data
<1>4. CASE ~ \E k \in Mine : IsRow(k, row)
  BY <1>4 DEF data
<1> QED BY <1>3, <1>4

\* What Agrees says depends on the rows, and on the entries if it looks at them.
LEMMA AgreesStays ==
  ASSUME NEW columns, Agrees(columns), Mine' = Mine, rows' = rows, picture' = picture,
         \A k \in Mine : \A column \in columns : Cell(k, column)' = Cell(k, column)
  PROVE  Agrees(columns)'
<1>1. rowCount' = rowCount
  BY DEF rowCount
<1>2. \A k, row : IsRow(k, row)' = IsRow(k, row)
  BY DEF IsRow
<1> QED BY <1>1, <1>2 DEF Agrees

LEMMA EmptyAgrees ==
  ASSUME NEW columns, rows = rowCount, picture = <<>> PROVE Agrees(columns)
  BY DEF Agrees

LEMMA KeysAgree ==
  ASSUME Agrees({0, 1}) PROVE Agrees({0})
  BY DEF Agrees

------------------------------------------------------------------------------
(* Types *)

LEMMA InitInv == Init => IInv
<1> SUFFICES ASSUME Init PROVE IInv
  OBVIOUS
<1>1. IsTable(Empty, Key, Entry)
  BY DEF IsTable, Empty
<1>2. TypeOK
  <2>1. IsTable(table, Key, Entry) /\ model \in Interface
    BY <1>1 DEF Init
  <2>2. picture \in Seq(Key \cup Entry \cup {Blank}) /\ rows \in Nat
    BY DEF Init
  <2>3. reset \in BOOLEAN /\ painting \in BOOLEAN /\ changed \in {"nothing", "entries", "rows"}
    BY DEF Init
  <2> QED BY <2>1, <2>2, <2>3 DEF TypeOK
<1>3. changed \notin {"nothing", "entries"}
  BY DEF Init
<1> QED BY <1>2, <1>3 DEF IInv, RowsStayInPlace, UndisturbedIsExact

LEMMA TypeNext == TypeOK /\ [Next]_vars => TypeOK'
<1> SUFFICES ASSUME TypeOK, [Next]_vars PROVE TypeOK'
  OBVIOUS
<1> DEFINE Picture == Seq(Key \cup Entry \cup {Blank})
<1>1. CASE update
  BY <1>1 DEF update, TypeOK
<1>2. ASSUME NEW i \in Interface, setModel(i) PROVE TypeOK'
  BY <1>2 DEF setModel, TypeOK
<1>3. CASE layout
  <2>1. rows' \in Nat
    BY <1>3, MineLemma DEF layout
  <2>2. picture' \in Picture
    BY <1>3 DEF layout
  <2> QED BY <1>3, <2>1, <2>2 DEF layout, TypeOK
<1>4. CASE paint
  <2>1. picture' \in Picture
    BY <1>4, DataType DEF paint, TypeOK
  <2> QED BY <1>4, <2>1 DEF paint, TypeOK
<1>5. CASE painted
  BY <1>5 DEF painted, TypeOK
<1>6. CASE erase
  <2>1. IsTable(table', Key, Entry)
    BY <1>6 DEF erase, TypeOK, IsTable
  <2> QED BY <1>6, <2>1 DEF erase, view, TypeOK
<1>7. ASSUME NEW k \in Key, logout(k) PROVE TypeOK'
  <2>1. IsTable(table', Key, Entry)
    BY <1>7 DEF logout, TypeOK, IsTable, Without
  <2> QED BY <1>7, <2>1 DEF logout, view, TypeOK
<1>8. ASSUME NEW k \in Key, NEW e \in Entry, insert(k, e) PROVE TypeOK'
  <2>1. IsTable(table', Key, Entry)
    BY <1>8 DEF insert, TypeOK, IsTable, Insert
  <2> QED BY <1>8, <2>1 DEF insert, view, TypeOK
<1>9. ASSUME NEW k \in Key, NEW e \in Entry, overwrite(k, e) PROVE TypeOK'
  <2>1. IsTable(table', Key, Entry)
    BY <1>9 DEF overwrite, TypeOK, IsTable, Insert
  <2> QED BY <1>9, <2>1 DEF overwrite, view, TypeOK
<1>10. CASE UNCHANGED vars
  BY <1>10 DEF vars, view, TypeOK
<1> QED BY <1>1, <1>2, <1>3, <1>4, <1>5, <1>6, <1>7, <1>8, <1>9, <1>10 DEF Next, Gui, Others

------------------------------------------------------------------------------
(* The picture *)

\* A cell that is added is right, and those before it stay.
LEMMA PaintAgrees ==
  ASSUME TypeOK, paint, NEW columns \in SUBSET {0, 1}, Agrees(columns)
  PROVE  Agrees(columns)'
<1> DEFINE l == Len(picture)
           row == l \div Width
           column == l % Width
<1>1. l \in Nat /\ rows \in Nat /\ l < 2 * rows /\ rows = rowCount
  BY DEF TypeOK, paint, Agrees, Width
<1>2. row \in 0..(rowCount - 1)
  BY <1>1 DEF Width
<1>3. PICK k0 \in Mine : IsRow(k0, row) /\ data(row, column) = Cell(k0, column)
  BY <1>2, DataLemma
<1>4. /\ Mine' = Mine /\ rows' = rows /\ rowCount' = rowCount
      /\ \A k, r : IsRow(k, r)' = IsRow(k, r) /\ Cell(k, r)' = Cell(k, r)
  BY DEF paint, Mine, rowCount, IsRow, Cell
<1>5. /\ Len(picture') = l + 1
      /\ picture'[l + 1] = data(row, column)
      /\ \A n \in 1..l : picture'[n] = picture[n]
  BY DEF paint, TypeOK
<1>6. ASSUME NEW n \in 1..Len(picture'), ((n - 1) % Width) \in columns
      PROVE  \E k \in Mine : IsRow(k, (n - 1) \div Width) /\ picture'[n] = Cell(k, (n - 1) % Width)
  <2>1. CASE n \in 1..l
    BY <2>1, <1>5, <1>6 DEF Agrees
  <2>2. CASE n = l + 1
    <3>1. n - 1 = l
      BY <2>2, <1>1
    <3> QED BY <3>1, <2>2, <1>3, <1>5
  <2> QED BY <2>1, <2>2, <1>1, <1>5
<1> QED BY <1>1, <1>4, <1>6 DEF Agrees

LEMMA PictureNext == IInv /\ [Next]_vars => (RowsStayInPlace /\ UndisturbedIsExact)'
<1> SUFFICES ASSUME IInv, [Next]_vars PROVE (RowsStayInPlace /\ UndisturbedIsExact)'
  OBVIOUS
<1> USE DEF IInv, RowsStayInPlace, UndisturbedIsExact
<1>1. ASSUME UNCHANGED <<table, model, rows, picture, changed>>
      PROVE  (RowsStayInPlace /\ UndisturbedIsExact)'
  <2>1. Mine' = Mine /\ \A k, column : Cell(k, column)' = Cell(k, column)
    BY <1>1 DEF Mine, Cell
  <2>2. ASSUME NEW columns, Agrees(columns) PROVE Agrees(columns)'
    BY <1>1, <2>1, <2>2, AgreesStays
  <2> QED BY <1>1, <2>2
<1>2. ASSUME changed' = "rows" PROVE (RowsStayInPlace /\ UndisturbedIsExact)'
  BY <1>2
<1>3. CASE layout
  <2>1. rowCount' = rowCount
    BY <1>3 DEF layout, rowCount, Mine
  <2>2. rows' = rowCount' /\ picture' = <<>>
    BY <1>3, <2>1 DEF layout
  <2> QED BY <2>2, EmptyAgrees DEF Agrees
<1>4. CASE paint
  <2>1. changed' = changed
    BY <1>4 DEF paint
  <2> QED BY <1>4, <2>1, PaintAgrees
<1>5. ASSUME NEW k \in Key, NEW e \in Entry, overwrite(k, e)
      PROVE  (RowsStayInPlace /\ UndisturbedIsExact)'
  <2>1. changed' # "nothing" /\ (changed' = "entries" => changed \in {"nothing", "entries"})
    BY <1>5 DEF overwrite
  <2>2. Mine' = Mine /\ rows' = rows /\ picture' = picture
    BY <1>5 DEF overwrite, Mine, Insert, view
  <2>3. \A j \in Mine : \A column \in {0} : Cell(j, column)' = Cell(j, column)
    BY DEF Cell
  <2>4. ASSUME Agrees({0}) PROVE Agrees({0})'
    BY <2>2, <2>3, <2>4, AgreesStays
  <2> QED BY <2>1, <2>4
<1>6. CASE update \/ painted \/ UNCHANGED vars
  BY <1>1, <1>6 DEF update, painted, vars, view
<1>7. CASE erase \/ (\E i \in Interface : setModel(i))
           \/ (\E k \in Key : logout(k) \/ \E e \in Entry : insert(k, e))
  BY <1>2, <1>7 DEF erase, setModel, logout, insert
<1> QED BY <1>3, <1>4, <1>5, <1>6, <1>7 DEF Next, Gui, Others

------------------------------------------------------------------------------
(* Theorems *)

\* The types and the two statements about the picture hold together.
THEOREM Inductive == Spec => []IInv
<1>1. IInv /\ [Next]_vars => IInv'
  BY TypeNext, PictureNext DEF IInv
<1> QED BY InitInv, <1>1, PTL DEF Spec

\* The view's variables keep their types.
THEOREM TypeCorrect == Spec => []TypeOK
<1>1. IInv => TypeOK
  BY DEF IInv
<1> QED BY Inductive, <1>1, PTL

\* While no entry comes or goes, no row mixes two entries and none is blank.
THEOREM RowsAreEntries == Spec => []RowsStayInPlace
<1>1. IInv => RowsStayInPlace
  BY DEF IInv
<1> QED BY Inductive, <1>1, PTL

\* A picture that nothing disturbed is the table.
THEOREM PictureIsTable == Spec => []UndisturbedIsExact
<1>1. IInv => UndisturbedIsExact
  BY DEF IInv
<1> QED BY Inductive, <1>1, PTL
==============================================================================
