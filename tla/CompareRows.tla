---------------------------- MODULE CompareRows ----------------------------
(***************************************************************************)
(* compare_rows (harness/validate.py): are two results the same, in any    *)
(* order and up to floating-point drift?                                   *)
(*                                                                         *)
(* A row is opaque here: what counts is which rows match and where its     *)
(* sort key puts a row.  RowValues gives both for rows of floats, nulls    *)
(* and NaNs.                                                               *)
(***************************************************************************)
EXTENDS Integers, Sequences, SequencesExt, Functions

CONSTANTS
    Rows,             \* the rows results may hold
    RowsMatch(_, _),  \* _rows_match
    SortKey(_),       \* _sort_key: the place of the row's key among all keys
    MaxRows,          \* bound: rows in a result
    MaxReport         \* max_report

(* math.isclose and == are symmetric, and so is all that is built on them. *)
ASSUME CompareAssumption ==
    /\ \A a, b \in Rows : RowsMatch(a, b) => RowsMatch(b, a)
    /\ \A a \in Rows : SortKey(a) \in Int
    /\ MaxRows \in Nat /\ MaxReport \in Nat \ {0}

VARIABLES
    left, right,     \* the rows of the two arms
    pc,              \* "sort", "zip", "match", "done"
    lorder, rorder,  \* where each row of the sorted results comes from
    cursor,          \* the position the first pass is at
    partner,         \* position of the right row paired with each left row, or 0
    unpaired,        \* positions of left rows the second pass has to match
    problems         \* how many problems have been listed

input == <<left, right>>
orders == <<lorder, rorder>>
vars == <<input, pc, orders, cursor, partner, unpaired, problems>>

Positions == DOMAIN left
L(i) == left[lorder[i]]
R(j) == right[rorder[j]]

----------------------------------------------------------------------------
Init ==
    /\ left \in BoundedSeq(Rows, MaxRows)
    /\ right \in BoundedSeq(Rows, MaxRows)
    /\ pc = "sort"
    /\ lorder = <<>> /\ rorder = <<>>
    /\ cursor = 1
    /\ partner = <<>>
    /\ unpaired = {}
    /\ problems = 0

RefuseCounts ==
    /\ pc = "sort" /\ Len(left) # Len(right)
    /\ problems' = 1
    /\ pc' = "done"
    /\ UNCHANGED <<input, orders, cursor, partner, unpaired>>

(* sorted(rows, key=_sort_key), which is stable.                           *)
SortedOrders(s) ==
    {p \in Bijection(DOMAIN s, DOMAIN s) :
        \A i, j \in DOMAIN s : i < j =>
            \/ SortKey(s[p[i]]) < SortKey(s[p[j]])
            \/ SortKey(s[p[i]]) = SortKey(s[p[j]]) /\ p[i] < p[j]}

Sort ==
    /\ pc = "sort" /\ Len(left) = Len(right)
    /\ lorder' \in SortedOrders(left)
    /\ rorder' \in SortedOrders(right)
    /\ partner' = [i \in Positions |-> 0]
    /\ pc' = "zip"
    /\ UNCHANGED <<input, cursor, unpaired, problems>>

(* First pass: the sorted rows side by side.                               *)
ZipRow ==
    /\ pc = "zip" /\ cursor \in Positions
    /\ IF RowsMatch(L(cursor), R(cursor))
       THEN partner' = [partner EXCEPT ![cursor] = cursor] /\ UNCHANGED unpaired
       ELSE unpaired' = unpaired \cup {cursor} /\ UNCHANGED partner
    /\ cursor' = cursor + 1
    /\ UNCHANGED <<input, pc, orders, problems>>

EndZip ==
    /\ pc = "zip" /\ cursor \notin Positions
    /\ pc' = IF unpaired = {} THEN "done" ELSE "match"
    /\ UNCHANGED <<input, orders, cursor, partner, unpaired, problems>>

(* Fault: a row that a left row took in the second pass stays in the pool. *)
NotZipped(j) == partner[j] # j

(* Is the right row at j in a pool, and not yet set to None there?         *)
Free(j) == \A i \in Positions : partner[i] # j

Pool(key) == {j \in Positions : Free(j) /\ SortKey(R(j)) = key}

(* Fault: only the head of the pool is tried.                              *)
HitsAtHead(i) ==
    {j \in Pool(SortKey(L(i))) : /\ RowsMatch(L(i), R(j))
                                 /\ \A k \in Pool(SortKey(L(i))) : j <= k}

Hits(i) == {j \in Pool(SortKey(L(i))) : RowsMatch(L(i), R(j))}

(* Fault: one problem more than asked for is listed.                       *)
TooLate(count) == count > MaxReport

Enough(count) == count >= MaxReport

(* Second pass: within the group of its key each left row takes the first  *)
(* row it matches, or is listed.  Groups share no rows; in which order     *)
(* they are taken is left open.                                            *)
MatchRow(i) ==
    LET listed == IF Hits(i) = {} THEN problems + 1 ELSE problems
    IN  /\ pc = "match" /\ i \in unpaired
        /\ \A k \in unpaired : SortKey(L(k)) = SortKey(L(i)) => i <= k
        /\ IF Hits(i) = {} THEN UNCHANGED partner
           ELSE \E j \in Hits(i) : /\ \A k \in Hits(i) : j <= k
                                   /\ partner' = [partner EXCEPT ![i] = j]
        /\ unpaired' = unpaired \ {i}
        /\ problems' = IF Enough(listed) THEN listed + 1 ELSE listed
        /\ pc' = IF Enough(listed) \/ unpaired' = {} THEN "done" ELSE "match"
        /\ UNCHANGED <<input, orders, cursor>>

Next ==
    \/ RefuseCounts \/ Sort \/ ZipRow \/ EndZip
    \/ \E i \in unpaired : MatchRow(i)

Spec == Init /\ [][Next]_vars

----------------------------------------------------------------------------
(* The reference: the rows can be paired off, each with one that agrees.   *)
PairedOff(l, r, Agree(_, _)) ==
    \E p \in Bijection(DOMAIN l, DOMAIN r) : \A i \in DOMAIN l : Agree(l[i], r[p[i]])

Accepted == pc = "done" /\ problems = 0

TypeOK ==
    /\ left \in Seq(Rows) /\ right \in Seq(Rows)
    /\ pc \in {"sort", "zip", "match", "done"}
    /\ cursor \in Nat \ {0}
    /\ unpaired \subseteq Positions
    /\ problems \in 0..(MaxReport + 1)
    /\ pc \in {"zip", "match"} =>
           /\ Len(right) = Len(left)
           /\ lorder \in SortedOrders(left) /\ rorder \in SortedOrders(right)
           /\ partner \in [Positions -> Positions \cup {0}]

(* No report means the results are the same: the rows can be paired off so *)
(* that all pairs match.  Neither pass accepts a pair twice or loses a row.*)
AcceptedMeansSame == Accepted => PairedOff(left, right, RowsMatch)

(* Among rows of one key, rows that match a common row match each other.   *)
Clustered ==
    \A a, b, c \in Range(left) \cup Range(right) :
        /\ SortKey(a) = SortKey(b) /\ SortKey(b) = SortKey(c)
        /\ RowsMatch(a, b) /\ RowsMatch(b, c)
        => RowsMatch(a, c)

SameUpToDrift(a, b) == RowsMatch(a, b) /\ SortKey(a) = SortKey(b)

(* Drift is tolerated where the key does not split it: results whose rows  *)
(* pair off within their keys are accepted if they are clustered.          *)
DriftWithinKeysAccepted ==
    (pc = "done" /\ Clustered /\ PairedOff(left, right, SameUpToDrift)) => Accepted

Identical(a, b) == a = b

(* validate.py:185, "compare two result sets order-insensitively": a result *)
(* compared with a permutation of itself is accepted.                      *)
OrderDoesNotMatter ==
    (pc = "done" /\ PairedOff(left, right, Identical)) => Accepted
=============================================================================
