------------------------------- MODULE Sizing -------------------------------
(***************************************************************************)
(* How much memory a session is given (memory.py, and its callers in       *)
(* session.py, config.py and harness/validate.py).                         *)
(*                                                                         *)
(* Sizes are in bytes of a machine whose units are K-fold: 1024 in the     *)
(* code, smaller in model checking.  A size string such as "7g" is the     *)
(* pair of a number and a unit, as memory.format_size writes and Spark     *)
(* reads it.                                                               *)
(***************************************************************************)
EXTENDS Integers

CONSTANTS
    K,            \* bytes in a KiB, KiB in a MiB, MiB in a GiB
    Machines,     \* physical memory of a host, or 0 where it is not found
    CgroupFiles,  \* what a cgroup limit file may hold: a limit, or
    Unlimited,    \* "max", the v1 sentinel, or no such file
    Asked         \* sizes callers pass as offheap or driver_memory; 0 is none

KiB == K
MiB == K * K
GiB == K * K * K

Fallback == 8 * GiB

ASSUME SizingAssumption ==
    /\ K \in Nat /\ K >= 2
    /\ Machines \subseteq Nat /\ Asked \subseteq Nat
    /\ CgroupFiles \subseteq Nat \cup {Unlimited}

VARIABLES
    machine, v2, v1,        \* the host
    offheapArg, heapArg,    \* what the caller asked for
    sized                   \* the sizes handed to Spark

vars == <<machine, v2, v1, offheapArg, heapArg, sized>>

Unsized == [offheap |-> 0, heap |-> 0, baseline |-> 0]

----------------------------------------------------------------------------
Smaller(a, b) == IF a <= b THEN a ELSE b
Larger(a, b) == IF a >= b THEN a ELSE b

(* Fault: a process is sized from the host, not from its container.        *)
CgroupLimitIgnored == 0

(* _cgroup_limit: the v2 file if it names a limit, else the v1 file.       *)
IsLimit(file) == file \in Nat /\ file > 0

CgroupLimit == IF IsLimit(v2) THEN v2 ELSE IF IsLimit(v1) THEN v1 ELSE 0

(* usable_ram: the smaller of what is known, 8 GiB if nothing is.          *)
UsableRam ==
    IF machine > 0 /\ CgroupLimit > 0 THEN Smaller(machine, CgroupLimit)
    ELSE IF machine > 0 THEN machine
    ELSE IF CgroupLimit > 0 THEN CgroupLimit
    ELSE Fallback

(* Fault: a GiB is set aside and there is no least size.                   *)
RoundDownGbUnbounded(percent) ==
    ((percent * UsableRam) \div (100 * GiB) - 1) * GiB

(* _round_down_gb, of a percentage of the usable memory; at least 1 GiB.   *)
RoundDownGb(percent) == Larger(1, (percent * UsableRam) \div (100 * GiB)) * GiB

DefaultOffheap == RoundDownGb(35)
DefaultHeap == RoundDownGb(25)

OffheapBytes == IF offheapArg = 0 THEN DefaultOffheap ELSE offheapArg
HeapBytes == IF heapArg = 0 THEN DefaultHeap ELSE heapArg

(* Fault: a unit is used before a whole one fits.                          *)
UnitOfEager(bytes) == IF 2 * bytes >= GiB THEN GiB ELSE KiB

(* format_size: whole units of the largest that fits, never "0k".          *)
UnitOf(bytes) ==
    IF bytes >= GiB THEN GiB ELSE IF bytes >= MiB THEN MiB ELSE KiB

FormatSize(bytes) == [number |-> Larger(1, bytes \div UnitOf(bytes)), unit |-> UnitOf(bytes)]

InBytes(size) == size.number * size.unit

(* Fault: the baseline arm's heap is that of the gluten arm.               *)
BaselineHeapOnly == HeapBytes

BaselineBytes == HeapBytes + OffheapBytes

----------------------------------------------------------------------------
Init ==
    /\ machine \in Machines
    /\ v2 \in CgroupFiles /\ v1 \in CgroupFiles
    /\ offheapArg \in Asked /\ heapArg \in Asked
    /\ sized = Unsized

(* The two arms of validate_isolated.  gluten_config hands the off-heap    *)
(* size over in bytes and the driver heap as a size string; the baseline   *)
(* arm gets the sum as its heap.                                           *)
Size ==
    /\ sized = Unsized
    /\ sized' = [offheap  |-> OffheapBytes,
                 heap     |-> InBytes(FormatSize(HeapBytes)),
                 baseline |-> InBytes(FormatSize(BaselineBytes))]
    /\ UNCHANGED <<machine, v2, v1, offheapArg, heapArg>>

Spec == Init /\ [][Size]_vars

----------------------------------------------------------------------------
(* Properties.                                                             *)

Done == sized # Unsized

TypeOK ==
    /\ machine \in Machines /\ v2 \in CgroupFiles /\ v1 \in CgroupFiles
    /\ offheapArg \in Asked /\ heapArg \in Asked
    /\ sized \in [offheap : Nat, heap : Nat, baseline : Nat]

Total == sized.offheap + sized.heap

LeavesHeadroom(memory) == memory > 2 * GiB => Total < memory

(* The default sizes leave something of whatever bounds the process: the   *)
(* machine, and the container's limit, where that is above 2 GiB.          *)
DefaultsLeaveHeadroom ==
    (Done /\ offheapArg = 0 /\ heapArg = 0) =>
        /\ LeavesHeadroom(machine)
        /\ IsLimit(v2) => LeavesHeadroom(v2)
        /\ (~IsLimit(v2) /\ IsLimit(v1)) => LeavesHeadroom(v1)

(* An explicit heap is rounded down on its way into a size string, by less *)
(* than one unit of at most the heap itself: the JVM never gets more than  *)
(* was asked for, nor half of it or less.                                  *)
HeapIsNearlyAsAsked ==
    (Done /\ heapArg >= KiB) => (sized.heap <= heapArg /\ heapArg < 2 * sized.heap)

(* "so both arms hold the same total memory" (validate.py:548): they do    *)
(* with sizes in whole GiB, the default ones for instance.  Rounding down  *)
(* once instead of twice gives the baseline more with 1.5 GiB and 1.5 GiB. *)
WholeGibArmsAreEqual ==
    (Done /\ offheapArg % GiB = 0 /\ heapArg % GiB = 0) => sized.baseline = Total
=============================================================================
