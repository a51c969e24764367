------------------------------- MODULE Doctor -------------------------------
(***************************************************************************)
(* `velox-spark doctor` (__main__.py, preflight.summarize): its verdict on *)
(* the host, from its own copy of the checks, beside what get_session does *)
(* there.  The doctor is a process of its own and changes nothing; it sees *)
(* the environment the host sets and the packages installed at the moment. *)
(***************************************************************************)
EXTENDS GlutenSession

(* jar.resolve() without an explicit path; "absent" and "many" raise.      *)
DoctorJar == IF host.jarEnv # "unset" THEN host.jarEnv ELSE BundledJar

DoctorRaises == DoctorJar \in {"absent", "many"}

(* Fault: the package the pip installation brings is not looked for.       *)
DoctorZonesInOsOnly == host.osTz \/ host.tzdir # "unset"

(* tz_ok: any TZDIR counts, a directory or not.                            *)
DoctorZones == host.osTz \/ host.tzdir # "unset" \/ tzdata

(* "READY: native acceleration will be enabled."  Any Java will do, and    *)
(* VELOX_SPARK_DISABLE is not looked at.                                   *)
Ready ==
    /\ ~DoctorRaises /\ DoctorJar # "none"
    /\ JavaFound
    /\ ~ArchProblem(DoctorJar)
    /\ DoctorZones

----------------------------------------------------------------------------
(* A call that leaves to the defaults whatever the doctor looks at.        *)
Bare(c) ==
    /\ args[c].enabled /\ args[c].jarPath = "unset" /\ args[c].extraJars # "absent"
    /\ args[c].heap # BadSize
    /\ args[c].override = "none" /\ args[c].confPath = "unset"

Ends(c) == pc[c] \notin Resting /\ pc'[c] \in {"returned", "raised"}

Accelerated(c) == pc'[c] = "returned" /\ result'[c].loaded

MetASession(c) == "exists" \in warned'[c]

(* The engine comes with the settings of a JVM that was launched before,   *)
(* or with the driver options.                                             *)
Inherited(c) ==
    IF result'[c].launched THEN host.line.plugin ELSE gateway.plugin = "gluten"

(* The classpath of the JVM the session runs in has no bundle, whatever    *)
(* jar was found.                                                          *)
PathWithoutEngine ==
    IF gateway.up THEN ~EngineOn(gateway.cp) ELSE host.line.path = "stray"

(* What the doctor overlooks: that classpath, the switch                   *)
(* VELOX_SPARK_DISABLE, a jar that is no bundle (unless another one is on  *)
(* the classpath), and a TZDIR that leads nowhere where it is needed.      *)
Overlooked(c) ==
    \/ PathWithoutEngine
    \/ host.disabled
    \/ DoctorJar = "stray"
    \/ host.tzdir = "bogus" /\ ~host.osTz /\ ~tzdata

(* While no other code runs during a call, and but for what the doctor     *)
(* overlooks, a host it says is ready accelerates a bare get_session with  *)
(* no word of missing time zones, unless a live session was met.  On a     *)
(* host that it says is not ready, or where it raises, such a call is not  *)
(* accelerated without a warning that native tasks will fail, unless the   *)
(* engine comes with settings the call did not make.                       *)
DoctorForetells ==
    [][\A c \in Callers : (Bare(c) /\ Ends(c) /\ ~MetASession(c)) =>
         IF Ready THEN Overlooked(c) \/ (Accelerated(c) /\ "tz" \notin warned'[c])
         ELSE Accelerated(c) => ("tz" \in warned'[c] \/ Inherited(c))]_vars
=============================================================================
