SPECIFICATION Spec
CONSTANTS
  Key <- MCKey
  Entry = {10, 20}
  Interface = {1, 2}
  Of <- MCOf
  Blank = 0
INVARIANTS RowsStayInPlace UndisturbedIsExact
PROPERTY ViewCatchesUp
