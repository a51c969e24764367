------------------------------ MODULE MCSizing ------------------------------
(* Hosts around the whole GiB from none detected to 12 GiB, and sizes      *)
(* around each unit, for model checking Sizing.                            *)
EXTENDS Sizing

MCMachines == {0} \cup {n * GiB + d : n \in 0..12, d \in {1, KiB, GiB - 1}}
                  \cup {n * GiB : n \in 1..12}

MCCgroupFiles == {Unlimited} \cup {GiB, 2 * GiB + 1, 3 * GiB, 6 * GiB - 1, 40 * GiB}

MCAsked == {0, 1, KiB, MiB - 1, MiB, GiB - 1, GiB, GiB + GiB \div 2,
            2 * GiB, 3 * GiB - 1, 8 * GiB}
=============================================================================
