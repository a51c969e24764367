----------------------------- MODULE MCRelease -----------------------------
(***************************************************************************)
(* Release for TLC: command lines that give no JAR, one without native     *)
(* libraries and one in the wrong place, a JAR for each platform and an    *)
(* extra one, and a JAR in the wrong place with a tag by hand, which asks  *)
(* for an older glibc than the aarch64 JAR does (NOTES.md:507-513).        *)
(***************************************************************************)
EXTENDS Release

MCFloors == {17, 34, 35}
MCFallback == [p \in Platforms |-> IF p = "x86_64" THEN 17 ELSE 34]

X86 == [named |-> TRUE, holds |-> "x86_64", glibc |-> 17]
Arm == [named |-> TRUE, holds |-> "aarch64", glibc |-> 35]
Empty == [named |-> TRUE, holds |-> "nothing", glibc |-> 0]

Given(x86, arm, tag, extra) ==
    [jar |-> [p \in Platforms |-> IF p = "x86_64" THEN x86 ELSE arm],
     plat |-> [p \in Platforms |-> IF p = "x86_64" THEN {} ELSE tag], extra |-> extra]

ArmTag == [platform |-> "aarch64", glibc |-> 34]

MCCommands ==
    {Given({}, {}, {}, {}), Given({Empty}, {X86}, {}, {}),
     Given({X86}, {Arm}, {}, {Empty}), Given({}, {X86}, {ArmTag}, {})}
=============================================================================
