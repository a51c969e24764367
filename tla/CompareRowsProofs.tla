------------------------- MODULE CompareRowsProofs -------------------------
(***************************************************************************)
(* Proofs about CompareRows, for rows of any kind, any way of matching     *)
(* them that is symmetric, any sort key and results of any length: what is *)
(* accepted is the same, and drift within the keys is accepted.            *)
(***************************************************************************)
EXTENDS CompareRows, RowValues, FunctionTheorems, FiniteSetTheorems, TLAPS

(* The keys of the values are numbers small enough to be told apart.       *)
LEMMA CanonRange ==
    ASSUME NEW v \in Values
    PROVE  Canon(v) \in Int /\ -2 <= Canon(v) /\ Canon(v) <= Keys - 3
<1>1. CASE v \in {Null, NaN}
  BY <1>1, ValuesAssumption DEF ValuesAssumption, Canon, Null, NaN
<1>2. CASE v \notin {Null, NaN}
  <2>1. v \in Nat /\ Res \in Nat \ {0} /\ Keys \in Nat /\ Canon(v) + 2 < Keys
    BY <1>2, ValuesAssumption DEF ValuesAssumption, Values
  <2>2. 2 * v + Res \in Nat /\ 2 * Res \in Nat \ {0}
    BY <2>1
  <2>3. Canon(v) \in Nat
    BY <1>2, <2>2 DEF Canon
  <2>4. QED
    BY <2>1, <2>3
<1>3. QED
  BY <1>1, <1>2

(* What RowValues gives for RowsMatch and SortKey is as CompareRows needs, *)
(* rows match themselves, and a key tells all it was made of.              *)
THEOREM TuplesFit ==
    \A l, r \in Tuples :
        /\ TuplesMatch(l, l)
        /\ TuplesMatch(l, r) => TuplesMatch(r, l)
        /\ TupleKey(l) \in Int
        /\ TupleKey(l) = TupleKey(r) <=> \A c \in 1..2 : Canon(l[c]) = Canon(r[c])
<1> SUFFICES ASSUME NEW l \in Tuples, NEW r \in Tuples
             PROVE  /\ TuplesMatch(l, l)
                    /\ TuplesMatch(l, r) => TuplesMatch(r, l)
                    /\ TupleKey(l) \in Int
                    /\ TupleKey(l) = TupleKey(r) <=> \A c \in 1..2 : Canon(l[c]) = Canon(r[c])
    OBVIOUS
<1>1. /\ l[1] \in Values /\ l[2] \in Values /\ r[1] \in Values /\ r[2] \in Values
      /\ Floats \subseteq Int /\ Tol \in Nat /\ Keys \in Nat
  BY ValuesAssumption DEF ValuesAssumption, Tuples
<1>2. TuplesMatch(l, l)
  <2>1. ASSUME NEW a \in Values PROVE ValuesMatch(a, a)
    <3>1. CASE a \in {Null, NaN}
      BY <3>1 DEF ValuesMatch
    <3>2. CASE a \notin {Null, NaN}
      <4>1. a - a = 0 /\ 0 \in -Tol..Tol
        BY <1>1, <3>2 DEF Values
      <4>2. QED
        BY <3>2, <4>1 DEF ValuesMatch
    <3>3. QED
      BY <3>1, <3>2
  <2>2. QED
    BY <1>1, <2>1 DEF TuplesMatch
<1>3. TuplesMatch(l, r) => TuplesMatch(r, l)
  <2>1. ASSUME NEW a \in Values, NEW b \in Values, ValuesMatch(a, b)
        PROVE  ValuesMatch(b, a)
    BY <1>1, <2>1 DEF ValuesMatch, Values, Null, NaN
  <2>2. QED
    BY <1>1, <2>1 DEF TuplesMatch
<1>4. TupleKey(l) \in Int
  BY <1>1, CanonRange DEF TupleKey
<1>5. TupleKey(l) = TupleKey(r) <=> \A c \in 1..2 : Canon(l[c]) = Canon(r[c])
  <2>1. ASSUME NEW a1 \in Int, NEW a2 \in Int, NEW b1 \in Int, NEW b2 \in Int,
               -2 <= a2, a2 <= Keys - 3, -2 <= b2, b2 <= Keys - 3,
               Keys * a1 + a2 = Keys * b1 + b2
        PROVE  a1 = b1 /\ a2 = b2
    <3>1. ASSUME NEW x \in Int, NEW y \in Int, x < y PROVE Keys * x + Keys <= Keys * y
      <4>1. y - x - 1 \in Nat /\ Keys * (y - x - 1) >= 0
        BY <1>1, <3>1
      <4>2. Keys * (y - x - 1) = Keys * y - Keys * x - Keys
        BY <1>1
      <4>3. QED
        BY <1>1, <4>1, <4>2
    <3>2. Keys * a1 \in Int /\ Keys * b1 \in Int
      BY <1>1
    <3>3. ~(a1 < b1) /\ ~(b1 < a1)
      BY <1>1, <2>1, <3>1, <3>2
    <3>4. a1 = b1
      BY <3>3
    <3>5. QED
      BY <2>1, <3>2, <3>4
  <2>2. QED
    BY <1>1, <2>1, CanonRange DEF TupleKey
<1>6. QED
  BY <1>2, <1>3, <1>4, <1>5

----------------------------------------------------------------------------
(* Sorting.                                                                *)

(* If two lists of keys in order are matched one to one, key by key, those *)
(* of the second are no greater than those of the first.                   *)
LEMMA NoneAfter ==
    ASSUME NEW n \in Nat, NEW a \in [1..n -> Int], NEW b \in [1..n -> Int],
           \A i, j \in 1..n : i < j => a[i] <= a[j] /\ b[i] <= b[j],
           NEW q \in Bijection(1..n, 1..n), \A i \in 1..n : a[i] = b[q[i]],
           NEW i \in 1..n
    PROVE  b[i] <= a[i]
<1> SUFFICES ASSUME a[i] < b[i] PROVE FALSE
    OBVIOUS
<1>1. /\ q \in [1..n -> 1..n]
      /\ \A x, y \in 1..n : q[x] = q[y] => x = y
    BY DEF Bijection, Injection, IsInjective
<1>2. ASSUME NEW k \in 1..i
      PROVE  k \in 1..n /\ q[k] \in 1..(i - 1)
  <2>1. k \in 1..n /\ q[k] \in 1..n
    BY <1>1
  <2>2. a[k] <= a[i]
    BY <2>1
  <2>3. b[q[k]] < b[i]
    BY <2>1, <2>2
  <2>4. ~(i <= q[k])
    BY <2>1, <2>3
  <2>5. QED
    BY <2>1, <2>4
<1> DEFINE f == [k \in 1..i |-> q[k]]
<1>3. f \in Injection(1..i, 1..(i - 1))
  <2>1. f \in [1..i -> 1..(i - 1)]
    BY <1>2
  <2>2. \A x, y \in 1..i : f[x] = f[y] => x = y
    BY <1>1, <1>2
  <2>3. QED
    BY <2>1, <2>2, Fun_IsInj
<1>4. ExistsInjection(1..i, 1..(i - 1))
  BY <1>3 DEF ExistsInjection
<1>5. i \in Nat /\ i - 1 \in Nat
  OBVIOUS
<1>6. i <= i - 1
  BY <1>4, <1>5, Fun_NatInjLeq
<1>7. QED
  BY <1>5, <1>6

LEMMA SameKeys ==
    ASSUME NEW n \in Nat, NEW a \in [1..n -> Int], NEW b \in [1..n -> Int],
           \A i, j \in 1..n : i < j => a[i] <= a[j] /\ b[i] <= b[j],
           NEW q \in Bijection(1..n, 1..n), \A i \in 1..n : a[i] = b[q[i]],
           NEW i \in 1..n
    PROVE  a[i] = b[i]
<1>1. b[i] <= a[i]
  BY NoneAfter
<1> DEFINE p == Inverse(q, 1..n, 1..n)
<1>2. p \in Bijection(1..n, 1..n) /\ \A k \in 1..n : p[q[k]] = k
  BY Fun_BijInverse
<1>3. \A k \in 1..n : b[k] = a[p[k]]
  <2>1. TAKE k \in 1..n
  <2>2. PICK j \in 1..n : q[j] = k
    BY DEF Bijection, Surjection
  <2>3. QED
    BY <1>2, <2>2
<1> HIDE DEF p
<1>4. a[i] <= b[i]
  BY <1>2, <1>3, NoneAfter
<1>5. QED
  BY <1>1, <1>4

----------------------------------------------------------------------------
(* The invariants.                                                         *)

(* The left rows without a partner, the right rows that are nobody's.      *)
Open == {i \in Positions : partner[i] = 0}
FreeRows == {j \in Positions : Free(j)}

Shape ==
    /\ Len(right) = Len(left)
    /\ lorder \in SortedOrders(left) /\ rorder \in SortedOrders(right)
    /\ partner \in [Positions -> Positions \cup {0}]

(* Partners match, and no right row is the partner of two.                 *)
Paired ==
    /\ \A i \in Positions \ Open : RowsMatch(L(i), R(partner[i]))
    /\ \A i, k \in Positions \ Open : partner[i] = partner[k] => i = k

(* Where rows without a partner can be: not yet zipped, waiting for the    *)
(* second pass, or listed.                                                 *)
Passes ==
    /\ pc = "sort" => problems = 0 /\ unpaired = {} /\ cursor = 1
    /\ pc = "zip" => /\ problems = 0 /\ \A i \in unpaired : i < cursor
                     /\ \A i \in Positions : partner[i] \in {0, i}
                     /\ \A i \in Positions : partner[i] = 0 <=> i \in unpaired \/ cursor <= i
    /\ pc = "match" => /\ problems < MaxReport /\ unpaired \subseteq Open
                       /\ problems = 0 => Open = unpaired
    /\ Accepted => Open = {}

Underway == pc \in {"zip", "match"} \/ Accepted

PairInv == TypeOK /\ Passes /\ (Underway => Shape /\ Paired)

(* The rows without a partner can still be paired off, with the free ones. *)
Completable ==
    \E q \in Injection(Open, FreeRows) :
        \A i \in Open : SameUpToDrift(L(i), R(q[i]))

DriftInv ==
    (Clustered /\ PairedOff(left, right, SameUpToDrift)) =>
        /\ problems = 0
        /\ pc \in {"zip", "match"} => Completable

----------------------------------------------------------------------------
(* Lengths and rows.                                                       *)

LEMMA PositionsAre ==
    ASSUME TypeOK
    PROVE  Positions = 1..Len(left) /\ Len(left) \in Nat /\ DOMAIN right = 1..Len(right)
BY DEF TypeOK, Positions

LEMMA RowsAre ==
    ASSUME TypeOK, Shape, NEW i \in Positions
    PROVE  /\ lorder[i] \in Positions /\ rorder[i] \in Positions
           /\ L(i) \in Rows /\ R(i) \in Rows
           /\ L(i) \in Range(left) /\ R(i) \in Range(right)
<1>1. DOMAIN right = Positions
  BY PositionsAre DEF Shape
<1>2. lorder \in [Positions -> Positions] /\ rorder \in [Positions -> Positions]
  BY <1>1 DEF Shape, SortedOrders, Bijection, Injection, Positions
<1>3. \A k \in Positions : left[k] \in Rows /\ right[k] \in Rows
  BY <1>1 DEF TypeOK, Positions
<1>4. QED
  BY <1>1, <1>2, <1>3 DEF L, R, Range, Positions

----------------------------------------------------------------------------
(* PairInv.                                                                *)

LEMMA InitPairInv == Init => PairInv
<1> SUFFICES ASSUME Init PROVE PairInv
    OBVIOUS
<1>1. left \in Seq(Rows) /\ right \in Seq(Rows)
  <2>1. ASSUME NEW s \in BoundedSeq(Rows, MaxRows)
        PROVE  s \in Seq(Rows)
    <3>1. PICK m \in 0..MaxRows : s \in [1..m -> Rows]
      BY DEF BoundedSeq, SeqOf
    <3>2. m \in Nat
      BY CompareAssumption DEF CompareAssumption
    <3>3. QED
      BY <3>1, <3>2
  <2>2. QED
    BY <2>1 DEF Init
<1>2. TypeOK
  BY <1>1, CompareAssumption DEF Init, TypeOK, CompareAssumption
<1>3. Passes /\ ~Underway
  BY DEF Init, Passes, Underway, Accepted
<1>4. QED
  BY <1>2, <1>3 DEF PairInv

LEMMA RefuseCountsKeeps ==
    ASSUME PairInv, RefuseCounts
    PROVE  PairInv'
<1>1. TypeOK /\ pc' = "done" /\ problems' = 1
  BY DEF PairInv, RefuseCounts
<1>2. TypeOK'
  BY <1>1, CompareAssumption DEF TypeOK, RefuseCounts, input, orders, Positions, CompareAssumption
<1>3. Passes' /\ ~Underway'
  BY <1>1 DEF Passes, Underway, Accepted
<1>4. QED
  BY <1>2, <1>3 DEF PairInv

LEMMA SortKeeps ==
    ASSUME PairInv, Sort
    PROVE  PairInv'
<1>1. /\ TypeOK /\ Passes /\ pc = "sort" /\ pc' = "zip"
      /\ UNCHANGED <<left, right, cursor, unpaired, problems>>
      /\ partner' = [i \in Positions |-> 0] /\ Positions' = Positions
  BY DEF PairInv, Sort, input, Positions
<1>2. Shape'
  BY <1>1 DEF Sort, Shape, SortedOrders
<1>3. TypeOK'
  BY <1>1, <1>2 DEF TypeOK, Shape
<1>4. Passes'
  BY <1>1, PositionsAre DEF Passes, Accepted
<1>5. Paired'
  BY <1>1 DEF Paired, Open
<1>6. QED
  BY <1>2, <1>3, <1>4, <1>5 DEF PairInv

LEMMA ZipRowKeeps ==
    ASSUME PairInv, ZipRow
    PROVE  PairInv'
<1>1. /\ TypeOK /\ Passes /\ Shape /\ Paired /\ pc = "zip" /\ pc' = "zip"
      /\ cursor \in Positions /\ cursor' = cursor + 1
      /\ UNCHANGED <<left, right, lorder, rorder, problems>> /\ Positions' = Positions
  BY DEF PairInv, ZipRow, input, orders, Positions, Underway
<1>2. /\ \A i \in Positions : L(i)' = L(i) /\ R(i)' = R(i)
      /\ partner \in [Positions -> Positions \cup {0}]
      /\ Positions = 1..Len(left) /\ Len(left) \in Nat /\ partner[cursor] = 0
  BY <1>1, PositionsAre DEF L, R, Shape, Passes
<1>3. CASE RowsMatch(L(cursor), R(cursor))
  <2>1. partner' = [partner EXCEPT ![cursor] = cursor] /\ unpaired' = unpaired
    BY <1>3 DEF ZipRow
  <2>2. Shape'
    BY <1>1, <1>2, <2>1 DEF Shape, SortedOrders
  <2>3. TypeOK'
    BY <1>1, <2>1, <2>2 DEF TypeOK, Shape
  <2>4. Passes'
    BY <1>1, <1>2, <2>1 DEF Passes, TypeOK, Accepted
  <2>5. Paired'
    BY <1>1, <1>2, <1>3, <2>1 DEF Paired, Open, Passes
  <2>6. QED
    BY <2>2, <2>3, <2>4, <2>5 DEF PairInv
<1>4. CASE ~RowsMatch(L(cursor), R(cursor))
  <2>1. partner' = partner /\ unpaired' = unpaired \cup {cursor}
    BY <1>4 DEF ZipRow
  <2>2. Shape'
    BY <1>1, <1>2, <2>1 DEF Shape, SortedOrders
  <2>3. TypeOK'
    BY <1>1, <2>1, <2>2 DEF TypeOK, Shape
  <2>4. Passes'
    BY <1>1, <1>2, <2>1 DEF Passes, TypeOK, Accepted
  <2>5. Paired'
    BY <1>1, <1>2, <2>1 DEF Paired, Open
  <2>6. QED
    BY <2>2, <2>3, <2>4, <2>5 DEF PairInv
<1>5. QED
  BY <1>3, <1>4

LEMMA EndZipKeeps ==
    ASSUME PairInv, EndZip
    PROVE  PairInv'
<1>1. /\ TypeOK /\ Passes /\ Shape /\ Paired /\ pc = "zip" /\ cursor \notin Positions
      /\ pc' = IF unpaired = {} THEN "done" ELSE "match"
      /\ UNCHANGED <<left, right, lorder, rorder, partner, unpaired, problems, cursor>>
  BY DEF PairInv, EndZip, input, orders, Underway
<1>2. Positions = 1..Len(left) /\ Len(left) \in Nat /\ \A i \in Positions : cursor > i
  BY <1>1, PositionsAre DEF TypeOK
<1>3. Positions' = Positions /\ Open' = Open /\ Open = unpaired
  BY <1>1, <1>2 DEF Positions, Open, Passes, TypeOK
<1>4. Shape' /\ Paired'
  BY <1>1, <1>3 DEF Shape, Paired, L, R, SortedOrders
<1>5. TypeOK'
  BY <1>1, <1>3, <1>4 DEF TypeOK, Shape
<1>6. Passes'
  BY <1>1, <1>3, CompareAssumption DEF Passes, Accepted, CompareAssumption
<1>7. QED
  BY <1>4, <1>5, <1>6 DEF PairInv

LEMMA MatchRowKeeps ==
    ASSUME PairInv, NEW i \in unpaired, MatchRow(i)
    PROVE  PairInv'
<1>1. /\ TypeOK /\ Passes /\ Shape /\ Paired /\ pc = "match"
      /\ UNCHANGED <<left, right, lorder, rorder, cursor>> /\ Positions' = Positions
      /\ unpaired' = unpaired \ {i}
  BY DEF PairInv, MatchRow, input, orders, Positions, Underway
<1>2. /\ \A k \in Positions : L(k)' = L(k) /\ R(k)' = R(k)
      /\ partner \in [Positions -> Positions \cup {0}]
      /\ Positions = 1..Len(left) /\ Len(left) \in Nat
      /\ i \in Positions /\ partner[i] = 0
      /\ MaxReport \in Nat \ {0} /\ problems \in Nat /\ problems < MaxReport
  BY <1>1, PositionsAre, CompareAssumption DEF L, R, Shape, Passes, TypeOK, Open, CompareAssumption
<1>3. CASE Hits(i) = {}
  <2>1. /\ partner' = partner /\ problems' > 0 /\ problems' <= MaxReport + 1
        /\ problems' \in Nat
        /\ pc' \in {"match", "done"} /\ (pc' = "match" => problems' < MaxReport)
    BY <1>2, <1>3 DEF MatchRow, Enough
  <2>2. Shape' /\ Paired'
    BY <1>1, <1>2, <2>1 DEF Shape, SortedOrders, Paired, Open
  <2>3. TypeOK'
    BY <1>1, <1>2, <2>1, <2>2 DEF TypeOK, Shape
  <2>4. Passes'
    BY <1>1, <1>2, <2>1 DEF Passes, Accepted, Open
  <2>5. QED
    BY <2>2, <2>3, <2>4 DEF PairInv
<1>4. CASE Hits(i) # {}
  <2>1. /\ problems' = problems
        /\ pc' = IF unpaired' = {} THEN "done" ELSE "match"
    BY <1>2, <1>4 DEF MatchRow, Enough
  <2>2. PICK j \in Hits(i) : partner' = [partner EXCEPT ![i] = j]
    BY <1>4 DEF MatchRow
  <2>3. j \in Positions /\ RowsMatch(L(i), R(j)) /\ \A k \in Positions : partner[k] # j
    BY DEF Hits, Pool, Free
  <2>4. Shape' /\ Paired'
    <3>1. Shape'
      BY <1>1, <1>2, <2>2, <2>3 DEF Shape, SortedOrders
    <3>2. Paired'
      BY <1>1, <1>2, <2>2, <2>3 DEF Paired, Open
    <3>3. QED
      BY <3>1, <3>2
  <2>5. TypeOK'
    BY <1>1, <1>2, <2>1, <2>4 DEF TypeOK, Shape
  <2>6. Open' = Open \ {i}
    BY <1>1, <1>2, <2>2, <2>3 DEF Open
  <2>7. Passes'
    BY <1>1, <1>2, <2>1, <2>6 DEF Passes, Accepted
  <2>8. QED
    BY <2>4, <2>5, <2>7 DEF PairInv
<1>5. QED
  BY <1>3, <1>4

LEMMA NextPairInv == PairInv /\ [Next]_vars => PairInv'
<1> SUFFICES ASSUME PairInv, [Next]_vars PROVE PairInv'
    OBVIOUS
<1>1. CASE UNCHANGED vars
  BY <1>1 DEF PairInv, TypeOK, Passes, Underway, Accepted, Shape, Paired, Open, Positions, L, R,
              SortedOrders, vars, input, orders
<1>2. CASE Next
  BY <1>2, RefuseCountsKeeps, SortKeeps, ZipRowKeeps, EndZipKeeps, MatchRowKeeps DEF Next
<1>3. QED
  BY <1>1, <1>2

(* What the two passes pair is always right, whatever the rows.            *)
THEOREM PairInvariance == Spec => []PairInv
BY InitPairInv, NextPairInv, PTL DEF Spec

(* Every variable stays within its type, and the report within its limit.  *)
THEOREM CompareTypes == Spec => []TypeOK
<1>1. PairInv => TypeOK
  BY DEF PairInv
<1>2. QED
  BY <1>1, PairInvariance, PTL

----------------------------------------------------------------------------
(* AcceptedMeansSame.                                                      *)

(* A one-to-one map of positions is a permutation of them.                 *)
LEMMA Permutation ==
    ASSUME TypeOK, NEW f \in [Positions -> Positions],
           \A i, k \in Positions : f[i] = f[k] => i = k
    PROVE  f \in Bijection(Positions, Positions)
<1>1. IsFiniteSet(Positions)
  BY PositionsAre, FS_Interval
<1>2. f \in Injection(Positions, Positions)
  BY Fun_IsInj
<1>3. f \in Surjection(Positions, Positions)
  BY <1>1, <1>2, FS_Injection
<1>4. QED
  BY <1>2, <1>3 DEF Bijection

LEMMA OrdersAre ==
    ASSUME TypeOK, Shape
    PROVE  /\ DOMAIN right = Positions
           /\ lorder \in Bijection(Positions, Positions)
           /\ rorder \in Bijection(Positions, Positions)
<1>1. DOMAIN right = Positions
  BY PositionsAre DEF Shape
<1>2. QED
  BY <1>1 DEF Shape, SortedOrders, Positions

LEMMA PairInvAccepts == PairInv => AcceptedMeansSame
<1> SUFFICES ASSUME PairInv, Accepted PROVE PairedOff(left, right, RowsMatch)
    BY DEF AcceptedMeansSame
<1>1. TypeOK /\ Shape /\ Paired /\ Open = {}
  BY DEF PairInv, Underway, Passes
<1>2. /\ partner \in [Positions -> Positions]
      /\ \A i, k \in Positions : partner[i] = partner[k] => i = k
      /\ \A i \in Positions : RowsMatch(L(i), R(partner[i]))
  BY <1>1 DEF Shape, Paired, Open
<1>3. partner \in Bijection(Positions, Positions)
  BY <1>1, <1>2, Permutation
<1> DEFINE place == Inverse(lorder, Positions, Positions)
           with == [i \in Positions |-> rorder[partner[i]]]
           p == [k \in Positions |-> with[place[k]]]
<1>4. place \in Bijection(Positions, Positions)
  BY <1>1, OrdersAre, Fun_BijInverse
<1>5. \A k \in Positions : place[k] \in Positions /\ lorder[place[k]] = k
  <2>1. TAKE k \in Positions
  <2>2. PICK i \in Positions : lorder[i] = k
    BY <1>1, OrdersAre DEF Bijection, Surjection
  <2>3. place[lorder[i]] = i
    BY <1>1, OrdersAre, Fun_BijInverse
  <2>4. QED
    BY <2>2, <2>3
<1> HIDE DEF place
<1>6. with \in Bijection(Positions, Positions)
  BY <1>1, <1>3, OrdersAre, Fun_BijTransitive
<1>7. p \in Bijection(Positions, Positions)
  BY <1>4, <1>6, Fun_BijTransitive
<1>8. \A k \in Positions : RowsMatch(left[k], right[p[k]])
  <2>1. TAKE k \in Positions
  <2>2. RowsMatch(L(place[k]), R(partner[place[k]]))
    BY <1>2, <1>5
  <2>3. L(place[k]) = left[k] /\ R(partner[place[k]]) = right[p[k]]
    BY <1>2, <1>5 DEF L, R
  <2>4. QED
    BY <2>2, <2>3
<1>9. DOMAIN left = Positions /\ DOMAIN right = Positions
  BY <1>1, OrdersAre DEF Positions
<1> HIDE DEF p
<1>10. QED
  BY <1>7, <1>8, <1>9 DEF PairedOff

(* Results of any length that are accepted can be paired off, row by       *)
(* matching row.                                                           *)
THEOREM AcceptedSame == Spec => []AcceptedMeansSame
BY PairInvAccepts, PairInvariance, PTL

----------------------------------------------------------------------------
(* DriftWithinKeysAccepted.                                                *)

(* Results that pair off within their keys have the same keys, position by *)
(* position, once they are sorted.                                         *)
LEMMA KeysAlign ==
    ASSUME TypeOK, Shape, NEW i \in Positions,
           NEW q \in Bijection(Positions, Positions),
           \A k \in Positions : SortKey(L(k)) = SortKey(R(q[k]))
    PROVE  SortKey(L(i)) = SortKey(R(i))
<1> DEFINE a == [k \in Positions |-> SortKey(L(k))]
           b == [k \in Positions |-> SortKey(R(k))]
<1>1. PICK n \in Nat : Positions = 1..n
  BY PositionsAre
<1>2. a \in [1..n -> Int] /\ b \in [1..n -> Int]
  BY <1>1, RowsAre, CompareAssumption DEF CompareAssumption
<1>3. \A j, k \in 1..n : j < k => a[j] <= a[k] /\ b[j] <= b[k]
  <2>1. TAKE j, k \in 1..n
  <2>2. HAVE j < k
  <2>3. j \in DOMAIN left /\ k \in DOMAIN left /\ j \in DOMAIN right /\ k \in DOMAIN right
    BY <1>1, OrdersAre DEF Positions
  <2>4. SortKey(L(j)) < SortKey(L(k)) \/ SortKey(L(j)) = SortKey(L(k))
    BY <2>2, <2>3 DEF Shape, SortedOrders, L
  <2>5. SortKey(R(j)) < SortKey(R(k)) \/ SortKey(R(j)) = SortKey(R(k))
    BY <2>2, <2>3 DEF Shape, SortedOrders, R
  <2>6. a[j] \in Int /\ a[k] \in Int /\ b[j] \in Int /\ b[k] \in Int
    BY <1>2
  <2>7. QED
    BY <1>1, <2>4, <2>5, <2>6
<1>4. \A k \in 1..n : a[k] = b[q[k]]
  BY <1>1 DEF Bijection, Injection
<1>5. q \in Bijection(1..n, 1..n)
  BY <1>1
<1>6. a[i] = SortKey(L(i)) /\ b[i] = SortKey(R(i)) /\ i \in 1..n
  BY <1>1
<1> HIDE DEF a, b
<1>7. a[i] = b[i]
  BY <1>2, <1>3, <1>4, <1>5, <1>6, SameKeys
<1>8. QED
  BY <1>6, <1>7

LEMMA SameLength ==
    ASSUME TypeOK, PairedOff(left, right, SameUpToDrift)
    PROVE  Len(left) = Len(right)
<1>1. PICK p : p \in Bijection(DOMAIN left, DOMAIN right)
  BY DEF PairedOff
<1>2. PICK m, n \in Nat : Len(left) = m /\ DOMAIN left = 1..m /\ Len(right) = n /\ DOMAIN right = 1..n
  BY DEF TypeOK
<1>3. ExistsBijection(1..m, 1..n)
  BY <1>1, <1>2 DEF ExistsBijection
<1>4. IsFiniteSet(1..m) /\ Cardinality(1..m) = m /\ Cardinality(1..n) = n
  BY FS_Interval
<1>5. QED
  BY <1>2, <1>3, <1>4, FS_Bijection

(* A pairing of the results is one of the sorted results.                  *)
LEMMA SortedPairing ==
    ASSUME TypeOK, Len(left) = Len(right), PairedOff(left, right, SameUpToDrift),
           NEW lo \in SortedOrders(left), NEW ro \in SortedOrders(right)
    PROVE  \E q \in Bijection(Positions, Positions) :
               \A i \in Positions : SameUpToDrift(left[lo[i]], right[ro[q[i]]])
<1>1. DOMAIN left = Positions /\ DOMAIN right = Positions
  BY PositionsAre DEF Positions
<1>2. lo \in Bijection(Positions, Positions) /\ ro \in Bijection(Positions, Positions)
  BY <1>1 DEF SortedOrders
<1>3. PICK p \in Bijection(Positions, Positions) :
          \A k \in Positions : SameUpToDrift(left[k], right[p[k]])
  BY <1>1 DEF PairedOff
<1> DEFINE place == Inverse(ro, Positions, Positions)
           mate == [i \in Positions |-> p[lo[i]]]
           q == [i \in Positions |-> place[mate[i]]]
<1>4. place \in Bijection(Positions, Positions)
  BY <1>2, Fun_BijInverse
<1>5. \A k \in Positions : place[k] \in Positions /\ ro[place[k]] = k
  <2>1. TAKE k \in Positions
  <2>2. PICK j \in Positions : ro[j] = k
    BY <1>2 DEF Bijection, Surjection
  <2>3. place[ro[j]] = j
    BY <1>2, Fun_BijInverse
  <2>4. QED
    BY <2>2, <2>3
<1> HIDE DEF place
<1>6. mate \in Bijection(Positions, Positions)
  BY <1>2, Fun_BijTransitive
<1>7. q \in Bijection(Positions, Positions)
  BY <1>4, <1>6, Fun_BijTransitive
<1>8. \A i \in Positions : SameUpToDrift(left[lo[i]], right[ro[q[i]]])
  <2>1. TAKE i \in Positions
  <2>2. lo[i] \in Positions /\ p[lo[i]] \in Positions
    BY <1>2 DEF Bijection, Injection
  <2>3. ro[q[i]] = p[lo[i]]
    BY <1>5, <2>2
  <2>4. QED
    BY <1>3, <2>2, <2>3
<1> HIDE DEF q
<1>9. QED
  BY <1>7, <1>8

(* Whichever free row i is given, the others can still be paired off: who  *)
(* was to have that row takes the one that i was to have.                  *)
LEMMA Exchange ==
    ASSUME TypeOK, Shape, Clustered,
           NEW q \in Injection(Open, FreeRows),
           \A k \in Open : SameUpToDrift(L(k), R(q[k])),
           NEW i \in Open, NEW j \in FreeRows, SameUpToDrift(L(i), R(j))
    PROVE  \E r \in Injection(Open \ {i}, FreeRows \ {j}) :
               \A k \in Open \ {i} : SameUpToDrift(L(k), R(r[k]))
<1> DEFINE r == [k \in Open \ {i} |-> IF q[k] = j THEN q[i] ELSE q[k]]
<1>1. q \in [Open -> FreeRows] /\ \A k, m \in Open : q[k] = q[m] => k = m
  BY DEF Injection, IsInjective
<1>2. r \in Injection(Open \ {i}, FreeRows \ {j})
  <2>1. r \in [Open \ {i} -> FreeRows \ {j}]
    BY <1>1
  <2>2. \A k, m \in Open \ {i} : r[k] = r[m] => k = m
    BY <1>1
  <2>3. QED
    BY <2>1, <2>2, Fun_IsInj
<1>3. ASSUME NEW k \in Open \ {i}
      PROVE  SameUpToDrift(L(k), R(r[k]))
  <2>1. CASE q[k] # j
    BY <2>1
  <2>2. CASE q[k] = j
    <3>1. r[k] = q[i] /\ q[i] \in Positions /\ j \in Positions /\ i \in Positions /\ k \in Positions
      BY <1>1, <2>2 DEF FreeRows, Open
    <3>2. /\ L(i) \in Range(left) /\ L(k) \in Range(left)
          /\ R(j) \in Range(right) /\ R(q[i]) \in Range(right)
          /\ L(i) \in Rows /\ R(j) \in Rows
      BY <3>1, RowsAre
    <3>3. SameUpToDrift(L(k), R(j)) /\ SameUpToDrift(L(i), R(q[i]))
      BY <2>2
    <3>4. RowsMatch(R(j), L(i))
      BY <3>2, CompareAssumption DEF SameUpToDrift, CompareAssumption
    <3>5. RowsMatch(L(k), L(i))
      BY <3>2, <3>3, <3>4 DEF Clustered, SameUpToDrift
    <3>6. RowsMatch(L(k), R(q[i]))
      BY <3>2, <3>3, <3>5 DEF Clustered, SameUpToDrift
    <3>7. QED
      BY <3>1, <3>3, <3>6 DEF SameUpToDrift
  <2>3. QED
    BY <2>1, <2>2
<1> HIDE DEF r
<1>4. QED
  BY <1>2, <1>3

(* A step that pairs i with j leaves the rest completable.                 *)
LEMMA PairingKeepsCompletable ==
    ASSUME TypeOK, Shape, Clustered, Completable,
           NEW i \in Open, NEW j \in FreeRows, SameUpToDrift(L(i), R(j)),
           partner' = [partner EXCEPT ![i] = j],
           UNCHANGED <<left, right, lorder, rorder>>
    PROVE  Completable'
<1>1. /\ partner \in [Positions -> Positions \cup {0}]
      /\ Positions = 1..Len(left) /\ Len(left) \in Nat /\ Positions' = Positions
  BY PositionsAre DEF Shape, Positions
<1>2. Open' = Open \ {i}
  BY <1>1 DEF Open, FreeRows
<1>3. FreeRows' = FreeRows \ {j}
  BY <1>1 DEF Open, FreeRows, Free
<1>4. PICK q \in Injection(Open, FreeRows) : \A k \in Open : SameUpToDrift(L(k), R(q[k]))
  BY DEF Completable
<1>5. PICK r \in Injection(Open \ {i}, FreeRows \ {j}) :
          \A k \in Open \ {i} : SameUpToDrift(L(k), R(r[k]))
  BY <1>4, Exchange
<1>6. \A k : L(k)' = L(k) /\ R(k)' = R(k)
  BY DEF L, R
<1>7. \A k \in Open' : SameUpToDrift(L(k)', R(r[k])')
  BY <1>2, <1>5, <1>6
<1>8. QED
  BY <1>2, <1>3, <1>5, <1>7 DEF Completable, SameUpToDrift

LEMMA NextDriftInv ==
    ASSUME PairInv, DriftInv, [Next]_vars
    PROVE  DriftInv'
<1> SUFFICES ASSUME (Clustered /\ PairedOff(left, right, SameUpToDrift))'
             PROVE  problems' = 0 /\ (pc' \in {"zip", "match"} => Completable')
    BY DEF DriftInv
<1>1. left' = left /\ right' = right /\ Positions' = Positions
  BY DEF Next, vars, input, RefuseCounts, Sort, ZipRow, EndZip, MatchRow, Positions
<1>2. /\ TypeOK /\ Passes /\ Clustered /\ PairedOff(left, right, SameUpToDrift)
      /\ Len(left) = Len(right)
      /\ problems = 0 /\ (pc \in {"zip", "match"} => Completable /\ Shape)
  <2>1. TypeOK /\ Passes /\ Clustered /\ PairedOff(left, right, SameUpToDrift)
    BY <1>1 DEF PairInv, Clustered, PairedOff, SameUpToDrift
  <2>2. QED
    BY <2>1, SameLength DEF PairInv, DriftInv, Underway
<1>3. CASE UNCHANGED vars
  <2>1. pc' \in {"zip", "match"} => Completable'
    BY <1>2, <1>3 DEF Completable, Open, FreeRows, Free, Positions, L, R, SameUpToDrift,
                      vars, input, orders
  <2>2. QED
    BY <1>2, <1>3, <2>1 DEF vars
<1>4. CASE RefuseCounts
  BY <1>2, <1>4 DEF RefuseCounts
<1>5. CASE Sort
  <2>1. /\ lorder' \in SortedOrders(left) /\ rorder' \in SortedOrders(right)
        /\ partner' = [i \in Positions |-> 0] /\ problems' = 0
    BY <1>2, <1>5 DEF Sort
  <2>2. PICK q \in Bijection(Positions, Positions) :
            \A i \in Positions : SameUpToDrift(left[lorder'[i]], right[rorder'[q[i]]])
    BY <1>2, <2>1, SortedPairing
  <2>3. 0 \notin Positions
    BY <1>2, PositionsAre
  <2>4. Open' = Positions /\ FreeRows' = Positions
    BY <1>1, <2>1, <2>3 DEF Open, FreeRows, Free
  <2>5. q \in Injection(Open', FreeRows')
    BY <2>4 DEF Bijection
  <2>6. \A i \in Open' : SameUpToDrift(L(i)', R(q[i])')
    BY <1>1, <2>2, <2>4 DEF L, R
  <2>7. Completable'
    BY <2>5, <2>6 DEF Completable, SameUpToDrift
  <2>8. QED
    BY <2>1, <2>7
<1>6. CASE ZipRow
  <2>1. /\ Completable /\ Shape /\ problems' = 0 /\ cursor \in Positions
        /\ UNCHANGED <<left, right, lorder, rorder>>
    BY <1>2, <1>6 DEF ZipRow, input, orders
  <2>2. CASE ~RowsMatch(L(cursor), R(cursor))
    <3>1. UNCHANGED <<left, right, lorder, rorder, partner>>
      BY <1>6, <2>1, <2>2 DEF ZipRow
    <3>2. Completable'
      BY <2>1, <3>1 DEF Completable, Open, FreeRows, Free, Positions, L, R, SameUpToDrift
    <3>3. QED
      BY <2>1, <3>2
  <2>3. CASE RowsMatch(L(cursor), R(cursor))
    <3>1. PICK q \in Bijection(Positions, Positions) :
              \A i \in Positions : SameUpToDrift(L(i), R(q[i]))
      BY <1>2, <2>1, SortedPairing DEF Shape, L, R
    <3>2. SortKey(L(cursor)) = SortKey(R(cursor))
      BY <1>2, <2>1, <3>1, KeysAlign DEF SameUpToDrift
    <3>3. SameUpToDrift(L(cursor), R(cursor))
      BY <2>3, <3>2 DEF SameUpToDrift
    <3>4. /\ partner \in [Positions -> Positions \cup {0}] /\ Positions = 1..Len(left)
          /\ Len(left) \in Nat /\ partner[cursor] = 0
          /\ \A i \in Positions : partner[i] \in {0, i}
      BY <1>2, <1>6, <2>1, PositionsAre DEF Shape, ZipRow, Passes
    <3>5. cursor \in Open /\ cursor \in FreeRows
      BY <2>1, <3>4 DEF Open, FreeRows, Free
    <3>6. partner' = [partner EXCEPT ![cursor] = cursor]
      BY <1>6, <2>3 DEF ZipRow
    <3>7. Completable'
      BY <1>2, <2>1, <3>3, <3>5, <3>6, PairingKeepsCompletable
    <3>8. QED
      BY <2>1, <3>7
  <2>4. QED
    BY <2>2, <2>3
<1>7. CASE EndZip
  <2>1. UNCHANGED <<left, right, lorder, rorder, partner, problems>> /\ Completable
    BY <1>2, <1>7 DEF EndZip, input, orders
  <2>2. Completable'
    BY <2>1 DEF Completable, Open, FreeRows, Free, Positions, L, R, SameUpToDrift
  <2>3. QED
    BY <1>2, <2>1, <2>2
<1>8. ASSUME NEW i \in unpaired, MatchRow(i)
      PROVE  problems' = 0 /\ Completable'
  <2>1. /\ Completable /\ Shape /\ i \in Open /\ i \in Positions
        /\ UNCHANGED <<left, right, lorder, rorder>>
    BY <1>2, <1>8 DEF MatchRow, Passes, Open, input, orders
  <2>2. PICK q \in Injection(Open, FreeRows) : \A k \in Open : SameUpToDrift(L(k), R(q[k]))
    BY <2>1 DEF Completable
  <2>3. q[i] \in Hits(i)
    BY <2>1, <2>2 DEF Injection, Hits, Pool, FreeRows, SameUpToDrift
  <2>4. problems' = 0
    BY <1>2, <1>8, <2>3, CompareAssumption DEF MatchRow, Enough, CompareAssumption
  <2>5. PICK j \in Hits(i) : partner' = [partner EXCEPT ![i] = j]
    BY <1>8, <2>3 DEF MatchRow
  <2>6. j \in FreeRows /\ SameUpToDrift(L(i), R(j))
    BY DEF Hits, Pool, FreeRows, SameUpToDrift
  <2>7. Completable'
    BY <1>2, <2>1, <2>5, <2>6, PairingKeepsCompletable
  <2>8. QED
    BY <2>4, <2>7
<1>9. QED
  BY <1>3, <1>4, <1>5, <1>6, <1>7, <1>8 DEF Next

(* Results of any length that differ by clustered drift within their keys  *)
(* are accepted: neither pass gives away a row that another needs.         *)
THEOREM DriftAccepted == Spec => []DriftWithinKeysAccepted
<1>1. Init => DriftInv
  BY DEF Init, DriftInv
<1>2. DriftInv => DriftWithinKeysAccepted
  BY DEF DriftInv, DriftWithinKeysAccepted, Accepted
<1>3. QED
  BY <1>1, <1>2, NextDriftInv, PairInvariance, PTL DEF Spec

(* OrderDoesNotMatter (validate.py:185) fails for rows in general, and this *)
(* says where: never where rows match themselves and are clustered, so only *)
(* chains of drift inside one sort key make order matter.                  *)
THEOREM PermutationAccepted ==
    ASSUME \A a \in Rows : RowsMatch(a, a)
    PROVE  Spec => [](Clustered => OrderDoesNotMatter)
<1>1. ASSUME TypeOK, DriftWithinKeysAccepted, Clustered, pc = "done",
             PairedOff(left, right, Identical)
      PROVE  Accepted
  <2>1. PICK p \in Bijection(DOMAIN left, DOMAIN right) :
            \A i \in DOMAIN left : left[i] = right[p[i]]
    BY <1>1 DEF PairedOff, Identical
  <2>2. \A i \in DOMAIN left : left[i] \in Rows
    BY <1>1 DEF TypeOK
  <2>3. \A i \in DOMAIN left : SameUpToDrift(left[i], right[p[i]])
    BY <2>1, <2>2 DEF SameUpToDrift
  <2>4. PairedOff(left, right, SameUpToDrift)
    BY <2>3 DEF PairedOff
  <2>5. QED
    BY <1>1, <2>4 DEF DriftWithinKeysAccepted
<1>2. TypeOK /\ DriftWithinKeysAccepted => (Clustered => OrderDoesNotMatter)
    BY <1>1 DEF OrderDoesNotMatter
<1>3. QED
    BY <1>2, CompareTypes, DriftAccepted, PTL
=============================================================================
