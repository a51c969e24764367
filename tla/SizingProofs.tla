---------------------------- MODULE SizingProofs ----------------------------
(***************************************************************************)
(* Proofs about Sizing, for units of any size, any host and any request.   *)
(***************************************************************************)
EXTENDS Sizing, TLAPS

(* Whole parts.                                                            *)
LEMMA WholeParts ==
    ASSUME NEW a \in Nat, NEW b \in Nat, b > 0
    PROVE  /\ a \div b \in Nat
           /\ (a \div b) * b <= a
           /\ a < (a \div b) * b + b
OBVIOUS

LEMMA WholeMultiples ==
    ASSUME NEW n \in Nat, NEW b \in Nat, b > 0
    PROVE  (n * b) \div b = n
OBVIOUS

LEMMA NoRemainder ==
    ASSUME NEW a \in Nat, NEW b \in Nat, b > 0, a % b = 0, a # 0
    PROVE  \E n \in Nat \ {0} : a = n * b
<1>1. a \div b \in Nat
    BY WholeParts
<1>2. a = b * (a \div b)
    BY Z3T(30)
<1>3. a \div b # 0
    BY <1>2
<1>4. QED
  <2>1. b * (a \div b) = (a \div b) * b
    BY <1>1
  <2>2. QED
    BY <1>1, <1>2, <1>3, <2>1

(* One unit divides the next, and all are positive.                        *)
LEMMA Units ==
    /\ KiB \in Nat /\ MiB \in Nat /\ GiB \in Nat
    /\ 0 < KiB /\ KiB <= MiB /\ MiB <= GiB
<1>1. K \in Nat /\ K >= 2
    BY SizingAssumption
<1>2. K * K \in Nat /\ K <= K * K
    BY <1>1
<1>3. \A m \in Nat : m <= m * K /\ m * K \in Nat
    BY <1>1
<1>4. (K * K) * K \in Nat /\ K * K <= (K * K) * K
    BY <1>2, <1>3
<1>5. QED
    BY <1>1, <1>2, <1>4 DEF KiB, MiB, GiB

----------------------------------------------------------------------------
(* Size strings.                                                           *)

(* A size string keeps whole GiB as they are, and of anything from 1 KiB   *)
(* up more than half.                                                      *)
LEMMA Formatted ==
    ASSUME NEW bytes \in Nat
    PROVE  /\ InBytes(FormatSize(bytes)) \in Nat
           /\ bytes >= KiB => /\ InBytes(FormatSize(bytes)) <= bytes
                              /\ bytes < 2 * InBytes(FormatSize(bytes))
<1> DEFINE u == UnitOf(bytes)
           n == bytes \div u
<1>1. u \in Nat /\ u > 0 /\ (bytes >= KiB => bytes >= u)
    BY Units DEF UnitOf
<1>2. n \in Nat /\ n * u \in Nat /\ n * u <= bytes /\ bytes < n * u + u
    BY <1>1, WholeParts
<1>3. InBytes(FormatSize(bytes)) = Larger(1, n) * u
    BY DEF InBytes, FormatSize
<1>4. CASE n = 0
  <2>1. bytes < u
    BY <1>1, <1>2, <1>4
  <2>2. InBytes(FormatSize(bytes)) = u
    BY <1>1, <1>3, <1>4 DEF Larger
  <2>3. QED
    BY <1>1, <2>1, <2>2, Units
<1>5. CASE n # 0
  <2>1. InBytes(FormatSize(bytes)) = n * u
    BY <1>2, <1>3, <1>5 DEF Larger
  <2>2. u <= n * u
    BY <1>1, <1>2, <1>5
  <2> HIDE DEF u, n
  <2>3. QED
    BY <1>1, <1>2, <2>1, <2>2
<1>6. QED
    BY <1>4, <1>5

LEMMA WholeGibFormatted ==
    ASSUME NEW n \in Nat, n > 0
    PROVE  InBytes(FormatSize(n * GiB)) = n * GiB
<1>1. GiB \in Nat /\ GiB > 0 /\ n * GiB \in Nat /\ n * GiB >= GiB
    BY Units
<1>2. UnitOf(n * GiB) = GiB
    BY <1>1 DEF UnitOf
<1>3. (n * GiB) \div GiB = n
    BY <1>1, WholeMultiples
<1>4. QED
    BY <1>2, <1>3 DEF InBytes, FormatSize, Larger

----------------------------------------------------------------------------
(* Usable memory and the default sizes.                                    *)

LEMMA Usable ==
    ASSUME TypeOK
    PROVE  /\ UsableRam \in Nat
           /\ machine > 0 => UsableRam <= machine
           /\ IsLimit(v2) => UsableRam <= v2
           /\ ~IsLimit(v2) /\ IsLimit(v1) => UsableRam <= v1
<1>1. machine \in Nat /\ Fallback \in Nat
    BY SizingAssumption, Units DEF TypeOK, Fallback
<1>2. CgroupLimit \in Nat
    BY DEF CgroupLimit, IsLimit
<1>3. QED
    BY <1>1, <1>2 DEF UsableRam, CgroupLimit, IsLimit, Smaller

(* A default is a whole number of GiB: one, or within its share.           *)
LEMMA Rounded ==
    ASSUME TypeOK, NEW percent \in Nat
    PROVE  \E n \in Nat \ {0} :
               /\ RoundDownGb(percent) = n * GiB
               /\ n = 1 \/ 100 * (n * GiB) <= percent * UsableRam
<1> DEFINE share == percent * UsableRam
           n == share \div (100 * GiB)
<1>1. share \in Nat /\ GiB \in Nat /\ 100 * GiB \in Nat /\ 100 * GiB > 0
    BY Usable, Units
<1>2. n \in Nat /\ n * (100 * GiB) <= share
    BY <1>1, WholeParts
<1>3. n * (100 * GiB) = 100 * (n * GiB)
    BY <1>1, <1>2
<1>4. Larger(1, n) \in Nat \ {0} /\ (Larger(1, n) = 1 \/ Larger(1, n) = n)
    BY <1>2 DEF Larger
<1>5. Larger(1, n) = 1 \/ 100 * (Larger(1, n) * GiB) <= share
    BY <1>2, <1>3, <1>4
<1>6. RoundDownGb(percent) = Larger(1, n) * GiB
    BY DEF RoundDownGb
<1>7. QED
    BY <1>4, <1>5, <1>6

LEMMA DefaultsFit ==
    ASSUME TypeOK, NEW memory \in Nat, UsableRam <= memory, memory > 2 * GiB
    PROVE  DefaultOffheap + DefaultHeap < memory
<1>1. PICK n \in Nat \ {0} :
          /\ DefaultOffheap = n * GiB
          /\ n = 1 \/ 100 * (n * GiB) <= 35 * UsableRam
    BY Rounded DEF DefaultOffheap
<1>2. PICK m \in Nat \ {0} :
          /\ DefaultHeap = m * GiB
          /\ m = 1 \/ 100 * (m * GiB) <= 25 * UsableRam
    BY Rounded DEF DefaultHeap
<1>3. GiB \in Nat /\ UsableRam \in Nat
    BY Units, Usable
<1>4. DefaultOffheap \in Nat /\ (DefaultOffheap = GiB \/ 100 * DefaultOffheap <= 35 * UsableRam)
    BY <1>1, <1>3
<1>5. DefaultHeap \in Nat /\ (DefaultHeap = GiB \/ 100 * DefaultHeap <= 25 * UsableRam)
    BY <1>2, <1>3
<1>6. QED
    BY <1>3, <1>4, <1>5

----------------------------------------------------------------------------
(* The inductive invariant: what has been handed over is what was meant.   *)

Sizes == [offheap  |-> OffheapBytes,
          heap     |-> InBytes(FormatSize(HeapBytes)),
          baseline |-> InBytes(FormatSize(BaselineBytes))]

SizedInv == TypeOK /\ (sized = Unsized \/ sized = Sizes)

LEMMA AsksAreSizes ==
    ASSUME TypeOK
    PROVE  OffheapBytes \in Nat /\ HeapBytes \in Nat /\ BaselineBytes \in Nat
<1>1. DefaultOffheap \in Nat /\ DefaultHeap \in Nat
    BY Rounded, Units DEF DefaultOffheap, DefaultHeap
<1>2. QED
    BY <1>1, SizingAssumption DEF TypeOK, OffheapBytes, HeapBytes, BaselineBytes

LEMMA SizesType == TypeOK => Sizes \in [offheap : Nat, heap : Nat, baseline : Nat]
BY AsksAreSizes, Formatted DEF Sizes

(* Every size handed to Spark is the one the caller or the host gave.      *)
THEOREM SizedInvariance == Spec => []SizedInv
<1>1. Init => SizedInv
    BY DEF Init, SizedInv, TypeOK, Unsized
<1>2. SizedInv /\ [Size]_vars => SizedInv'
  <2> SUFFICES ASSUME SizedInv, [Size]_vars PROVE SizedInv'
      OBVIOUS
  <2>1. CASE Size
    <3>1. sized' = Sizes /\ UNCHANGED <<machine, v2, v1, offheapArg, heapArg>>
      BY <2>1 DEF Size, Sizes
    <3>2. Sizes' = Sizes
      BY <3>1 DEF Sizes, OffheapBytes, HeapBytes, BaselineBytes, DefaultOffheap, DefaultHeap,
         RoundDownGb, UsableRam, CgroupLimit
    <3>3. QED
      BY <3>1, <3>2, SizesType DEF SizedInv, TypeOK
  <2>2. CASE UNCHANGED vars
    <3>1. Sizes' = Sizes
      BY <2>2 DEF vars, Sizes, OffheapBytes, HeapBytes, BaselineBytes, DefaultOffheap, DefaultHeap,
         RoundDownGb, UsableRam, CgroupLimit
    <3>2. QED
      BY <2>2, <3>1 DEF vars, SizedInv, TypeOK
  <2>3. QED
    BY <2>1, <2>2
<1>3. QED
    BY <1>1, <1>2, PTL DEF Spec

----------------------------------------------------------------------------
(* Theorems.                                                               *)

(* Sizes are sizes.                                                        *)
THEOREM SizingTypes == Spec => []TypeOK
<1>1. SizedInv => TypeOK
    BY DEF SizedInv
<1>2. QED
    BY <1>1, SizedInvariance, PTL

(* The default sizes never take all of a machine or of a container of more *)
(* than 2 GiB (memory.py:80-115), however large.                          *)
THEOREM HeadroomLeft == Spec => []DefaultsLeaveHeadroom
<1>1. ASSUME SizedInv PROVE DefaultsLeaveHeadroom
  <2> SUFFICES ASSUME Done, offheapArg = 0, heapArg = 0
               PROVE  /\ LeavesHeadroom(machine)
                      /\ IsLimit(v2) => LeavesHeadroom(v2)
                      /\ (~IsLimit(v2) /\ IsLimit(v1)) => LeavesHeadroom(v1)
      BY DEF DefaultsLeaveHeadroom
  <2>1. TypeOK /\ sized = Sizes
      BY <1>1 DEF SizedInv, Done
  <2>2. sized.offheap = DefaultOffheap
      BY <2>1 DEF Sizes, OffheapBytes
  <2>3. sized.heap = DefaultHeap
    <3>1. PICK n \in Nat \ {0} : DefaultHeap = n * GiB
      BY <2>1, Rounded DEF DefaultHeap
    <3>2. QED
      BY <2>1, <3>1, WholeGibFormatted DEF Sizes, HeapBytes
  <2>4. ASSUME NEW memory \in Nat, memory > 0 => UsableRam <= memory
        PROVE  LeavesHeadroom(memory)
      BY <2>1, <2>2, <2>3, <2>4, DefaultsFit, Units DEF LeavesHeadroom, Total
  <2>5. machine \in Nat
      BY <2>1, SizingAssumption DEF TypeOK
  <2>6. QED
      BY <2>1, <2>4, <2>5, Usable DEF IsLimit
<1>2. QED
    BY <1>1, SizedInvariance, PTL

(* A heap asked for is never exceeded, nor cut to half or less on its way  *)
(* through a size string (memory.py:42-48).                                *)
THEOREM HeapNearlyAsAsked == Spec => []HeapIsNearlyAsAsked
<1>1. ASSUME SizedInv PROVE HeapIsNearlyAsAsked
  <2> SUFFICES ASSUME Done, heapArg >= KiB
               PROVE  sized.heap <= heapArg /\ heapArg < 2 * sized.heap
      BY DEF HeapIsNearlyAsAsked
  <2>1. TypeOK /\ sized = Sizes
      BY <1>1 DEF SizedInv, Done
  <2>2. heapArg \in Nat /\ heapArg # 0
      BY <2>1, SizingAssumption, Units DEF TypeOK
  <2>3. sized.heap = InBytes(FormatSize(heapArg))
      BY <2>1, <2>2 DEF Sizes, HeapBytes
  <2>4. QED
      BY <2>2, <2>3, Formatted
<1>2. QED
    BY <1>1, SizedInvariance, PTL

(* With sizes in whole GiB, both arms of an isolated validation hold the   *)
(* same memory (validate.py:551-574).                                      *)
THEOREM ArmsEqual == Spec => []WholeGibArmsAreEqual
<1>1. ASSUME SizedInv PROVE WholeGibArmsAreEqual
  <2> SUFFICES ASSUME Done, offheapArg % GiB = 0, heapArg % GiB = 0
               PROVE  sized.baseline = sized.offheap + sized.heap
      BY DEF WholeGibArmsAreEqual, Total
  <2>1. TypeOK /\ sized = Sizes /\ GiB \in Nat /\ GiB > 0
      BY <1>1, Units DEF SizedInv, Done
  <2>2. ASSUME NEW asked \in Nat, asked # 0, asked % GiB = 0
        PROVE  \E n \in Nat \ {0} : asked = n * GiB
      BY <2>1, <2>2, NoRemainder
  <2>3. offheapArg \in Nat /\ heapArg \in Nat
      BY <2>1, SizingAssumption DEF TypeOK
  <2>4. PICK n \in Nat \ {0} : OffheapBytes = n * GiB
      BY <2>1, <2>2, <2>3, Rounded DEF OffheapBytes, DefaultOffheap
  <2>5. PICK m \in Nat \ {0} : HeapBytes = m * GiB
      BY <2>1, <2>2, <2>3, Rounded DEF HeapBytes, DefaultHeap
  <2>6. BaselineBytes = (m + n) * GiB /\ m + n \in Nat /\ m + n > 0
      BY <2>1, <2>4, <2>5 DEF BaselineBytes
  <2>7. sized.heap = m * GiB /\ sized.offheap = n * GiB /\ sized.baseline = (m + n) * GiB
    <3>1. InBytes(FormatSize(m * GiB)) = m * GiB
      BY WholeGibFormatted
    <3>2. InBytes(FormatSize((m + n) * GiB)) = (m + n) * GiB
      BY <2>6, WholeGibFormatted
    <3>3. QED
      BY <2>1, <2>4, <2>5, <2>6, <3>1, <3>2 DEF Sizes
  <2>8. QED
      BY <2>1, <2>7
<1>2. QED
    BY <1>1, SizedInvariance, PTL
=============================================================================
