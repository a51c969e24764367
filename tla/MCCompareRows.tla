--------------------------- MODULE MCCompareRows ---------------------------
(***************************************************************************)
(* Rows for model checking CompareRows: values on both sides of a rounding *)
(* boundary of the sort key, and rows told apart by either column.         *)
(***************************************************************************)
EXTENDS CompareRows, RowValues

MCFloats == 1..5

MCRows == {<<f, 1>> : f \in MCFloats} \cup {<<Null, 1>>, <<2, NaN>>}

ASSUME RowsAreTuples == MCRows \subseteq Tuples
=============================================================================
