----------------------------- MODULE RowValues -----------------------------
(***************************************************************************)
(* Rows of two columns as compare_rows (harness/validate.py) sees them.  A *)
(* value is a float, counted in units of its last places, a null or a NaN. *)
(* Floats up to Tol apart match; the sort key rounds a float to the        *)
(* nearest multiple of Res, which is coarser than Tol.                     *)
(***************************************************************************)
EXTENDS Integers

CONSTANTS
    Floats,   \* the floats that rows may hold
    Tol,      \* the tolerance of _values_match
    Res,      \* the resolution of the sort key
    Keys      \* more than there are keys of one value

Null == -1
NaN == -2
Values == Floats \cup {Null, NaN}
Tuples == Values \X Values

(* _values_match: a null matches only a null, a NaN only a NaN.            *)
ValuesMatch(a, b) ==
    IF a \in {Null, NaN} \/ b \in {Null, NaN} THEN a = b ELSE a - b \in -Tol..Tol

(* _canon: "%.6g" rounds to the nearest value of the coarser scale; NaN    *)
(* sorts before None, and None before the numbers.                         *)
Canon(v) == IF v \in {Null, NaN} THEN v ELSE (2 * v + Res) \div (2 * Res)

ASSUME ValuesAssumption ==
    /\ Floats \subseteq Nat /\ Tol \in Nat /\ Res \in Nat \ {0}
    /\ Tol < Res /\ Keys \in Nat
    /\ \A v \in Values : Canon(v) + 2 < Keys

(* _rows_match and _sort_key: all columns match, the first sorts first.    *)
TuplesMatch(l, r) == \A c \in 1..2 : ValuesMatch(l[c], r[c])

TupleKey(row) == Keys * Canon(row[1]) + Canon(row[2])
=============================================================================
