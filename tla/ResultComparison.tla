-------------------------- MODULE ResultComparison --------------------------
(***************************************************************************)
(* How a learner's result is compared with the pinned one                  *)
(* (apps/api/src/grading/result-comparison.ts), and the equality it stands *)
(* for.  A cell is its type and what String() makes of it, a number here;  *)
(* a row is a sequence of cells, a result has columns and rows.            *)
(***************************************************************************)
EXTENDS Integers, Sequences, FiniteSets, Functions

\* What SQLite returns; the text of a null does not matter.
Cells == [type : {"null", "number", "text"}, text : Nat]

IsNull(cell) == cell.type = "null"

\* Defect: values of different types are never equal.
CellsEqualByType(a, b) == a = b

CellsEqual(a, b) ==
  IF IsNull(a) \/ IsNull(b) THEN IsNull(a) /\ IsNull(b)
  ELSE a.text = b.text

\* What a cell is normalised to: null, or its text.
Normalised(cell) == IF IsNull(cell) THEN -1 ELSE cell.text

\* The JSON text of the normalised row tells what this does.
RowKey(row) == [i \in DOMAIN row |-> Normalised(row[i])]

ColumnsMatch(actual, expected) == actual = expected

RowsEqualOrdered(actual, expected) ==
  /\ Len(actual) = Len(expected)
  /\ \A i \in DOMAIN expected :
       /\ Len(actual[i]) = Len(expected[i])
       /\ \A j \in DOMAIN expected[i] : CellsEqual(actual[i][j], expected[i][j])

\* The order of keys: which one it is does not matter, only that it is one.
KeyBefore(a, b) ==
  \E k \in DOMAIN b :
    /\ \A i \in 1..(k - 1) : i \in DOMAIN a /\ a[i] = b[i]
    /\ k \in DOMAIN a => a[k] < b[k]

\* The positions whose key is sorted to that of i or before it.
AtOrBefore(keys, i) ==
  {j \in DOMAIN keys :
     \/ KeyBefore(keys[j], keys[i])
     \/ keys[j] = keys[i] /\ j <= i}

\* sort(): the key at a place is the one that has as many keys at or before it.
Sorted(keys) ==
  [place \in DOMAIN keys |->
     keys[CHOOSE i \in DOMAIN keys : Cardinality(AtOrBefore(keys, i)) = place]]

\* Sorted keys, compared position by position.
RowsEqualUnordered(actual, expected) ==
  LET keys(rows) == [i \in DOMAIN rows |-> RowKey(rows[i])]
  IN Len(actual) = Len(expected) /\ Sorted(keys(actual)) = Sorted(keys(expected))

CompareResults(actual, expected, mode) ==
  /\ ColumnsMatch(actual.columns, expected.columns)
  /\ IF mode = "ORDERED"
     THEN RowsEqualOrdered(actual.rows, expected.rows)
     ELSE RowsEqualUnordered(actual.rows, expected.rows)

-----------------------------------------------------------------------------
\* Two rows that show the same values.
SameRow(a, b) ==
  Len(a) = Len(b) /\ \A i \in DOMAIN a :
    \/ a[i].type = "null" /\ b[i].type = "null"
    \/ a[i].type # "null" /\ b[i].type # "null" /\ a[i].text = b[i].text

\* The same results: the rows pair up, in their order or in any.
SameResult(actual, expected, mode) ==
  /\ actual.columns = expected.columns
  /\ Len(actual.rows) = Len(expected.rows)
  /\ \E pairing \in Bijection(DOMAIN actual.rows, DOMAIN expected.rows) :
       /\ mode = "ORDERED" => \A i \in DOMAIN pairing : pairing[i] = i
       /\ \A i \in DOMAIN pairing : SameRow(actual.rows[i], expected.rows[pairing[i]])
=============================================================================
