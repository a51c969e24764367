--------------------------- MODULE GlutenSession ---------------------------
(***************************************************************************)
(* One Python process that uses velox_spark.get_session (session.py).      *)
(*                                                                         *)
(* A call of get_session is a sequence of steps, cut where the code reads  *)
(* or writes something other code of the process can change: the active    *)
(* SparkContext, os.environ["TZDIR"], the packages installed, the ivy      *)
(* cache, and the JVM.  The JVM ("gateway") is launched once per process,  *)
(* copies the environment and takes its classpath, its heap and the spark  *)
(* settings of its command line at that moment, and survives spark.stop(). *)
(***************************************************************************)
EXTENDS Integers, FiniteSets

CONSTANTS
    Callers,     \* threads of the process that call get_session
    Hosts,       \* the machines and environments a process may start on
    Requests,    \* the argument lists get_session is called with
    MaxCalls,    \* bound: get_session calls made in one process
    JvmHeap,     \* heap of a JVM nobody sized, in GiB
    HostHeap,    \* memory.default_heap() of the host, in GiB
    Overlap      \* may other code of the process run during a call?

BadSize == -1    \* a driver_memory that memory.parse_size rejects

JarKinds == {"bundle", "wrongArch", "stray"}
TzDirs == {"unset", "bogus", "operator", "tzdata"}

(* Maven coordinates that --packages may declare: a table format's runtime *)
(* ("format"), which Gluten looks up by class name, and the cloud SDK that *)
(* the format loads in its turn.                                           *)
Coordinates == {"format", "cloud"}

Jars == JarKinds \cup Coordinates \cup {"user", "iceberg", "localFormat"}

(* The driver options of spark-submit's command line or, under plain       *)
(* Python, of PYSPARK_SUBMIT_ARGS: --driver-class-path, --driver-memory    *)
(* (0 is none) and --conf spark.plugins.  Nothing here looks at them.      *)
LineType == [path : JarKinds \cup {"none"}, heap : Nat, plugin : BOOLEAN]

(* "disabled" is VELOX_SPARK_DISABLE, "jarEnv" GLUTEN_JAR_PATH; "submit"   *)
(* says that the JVM runs before Python does (spark-submit).  "packages"   *)
(* are declared in PYSPARK_SUBMIT_ARGS, some of them already in the ivy    *)
(* cache ("cached"), and so is a table format's jar, by --jars, which may  *)
(* not exist ("localFormat").                                              *)
HostType ==
    [osTz : BOOLEAN, tzdata : BOOLEAN, tzdir : TzDirs \ {"tzdata"},
     disabled : BOOLEAN, jarEnv : JarKinds \cup {"unset", "absent"},
     bundled : JarKinds \cup {"none", "many"}, archKnown : BOOLEAN,
     java : {"none", "unsupported", "supported"}, iceberg : BOOLEAN,
     packages : SUBSET Coordinates, cached : SUBSET Coordinates,
     localFormat : {"none", "present", "absent"},
     submit : BOOLEAN, line : LineType]

(* Of extra_conf: "override" empties spark.plugins or switches the engine  *)
(* off, "confHeap" is spark.driver.memory (0 is none) and "confPath"       *)
(* spark.driver.extraClassPath.                                            *)
RequestType ==
    [enabled : BOOLEAN, require : BOOLEAN,
     jarPath : JarKinds \cup {"unset", "absent"},
     heap : Nat \cup {BadSize}, extraJars : {"none", "present", "absent"},
     iceberg : BOOLEAN, resolvePackages : BOOLEAN,
     override : {"none", "noPlugin", "off"},
     confHeap : Nat, confPath : JarKinds \cup {"unset"}]

ConfType == [plugin : {"unset", "gluten", "none"}, enabled : {"unset", "true", "false"}]

(* A classpath is "given" when somebody wrote it down who is not asked     *)
(* what is on it: extra_conf or the driver options.                        *)
OptionType ==
    [plugin : {"unset", "gluten", "none"}, enabled : {"unset", "true", "false"},
     cp : SUBSET Jars, given : BOOLEAN, heap : Nat]

JvmType ==
    [up : BOOLEAN, tzdir : TzDirs, cp : SUBSET Jars, given : BOOLEAN, heap : Nat,
     plugin : {"unset", "gluten", "none"}, enabled : {"unset", "true", "false"}]

Notes == {"exists", "fallback", "java", "tz", "split", "iceberg", "heap"}
TzStatus == {"unknown", "os", "env", "bundled", "missing"}
Errors == {"none", "JarNotFound", "ManyBundles", "Unavailable", "JavaNotFound",
           "ValueError", "GatewayExited", "PluginNotFound"}

ASSUME ConstantsAssumption ==
    /\ Hosts \subseteq HostType
    /\ Requests \subseteq RequestType
    /\ MaxCalls \in Nat
    /\ JvmHeap \in Nat /\ HostHeap \in Nat
    /\ Overlap \in BOOLEAN
    /\ \A h \in Hosts : h.submit => h.java # "none"

VARIABLES
    host,      \* where the process runs
    tzdata,    \* is the tzdata package importable?
    TZDIR,     \* os.environ["TZDIR"]
    ivy,       \* the coordinates whose jars are in the ivy cache
    gateway,   \* the py4j gateway JVM and what it took at launch
    context,   \* SparkContext._active_spark_context: "none", "plain", "native"
    conf,      \* runtime conf of the live session
    pc, args, jar, tz, opts, warned, result,  \* the call each thread is in
    calls      \* calls made so far

world == <<host, tzdata, TZDIR>>
spark == <<ivy, gateway, context, conf>>
local == <<args, jar, tz, opts, result>>
vars == <<world, spark, local, pc, warned, calls>>

Resting == {"idle", "returned", "raised"}
Running == {"check", "attach", "resolve", "java", "tz", "jars", "create", "note"}

NoOptions ==
    [plugin |-> "unset", enabled |-> "unset", cp |-> {}, given |-> FALSE, heap |-> 0]
DefaultRequest ==
    [enabled |-> TRUE, require |-> FALSE, jarPath |-> "unset", heap |-> 0,
     extraJars |-> "none", iceberg |-> FALSE, resolvePackages |-> TRUE,
     override |-> "none", confHeap |-> 0, confPath |-> "unset"]
NoConf == [plugin |-> "unset", enabled |-> "unset"]
NoResult == [error |-> "none", created |-> FALSE, launched |-> FALSE, loaded |-> FALSE]
NoJvm ==
    [up |-> FALSE, tzdir |-> "unset", cp |-> {}, given |-> FALSE, heap |-> 0,
     plugin |-> "unset", enabled |-> "unset"]

----------------------------------------------------------------------------
(* What the code computes from the host and the arguments.                 *)

WantNative(c) == args[c].enabled /\ ~host.disabled

(* jar.bundled_jar: what the wheel carries; two bundles are refused.       *)
BundledJar == host.bundled

(* jar.resolve: explicit path, then GLUTEN_JAR_PATH, then the wheel's own.  *)
Resolved(c) ==
    IF args[c].jarPath # "unset" THEN args[c].jarPath
    ELSE IF host.jarEnv # "unset" THEN host.jarEnv
    ELSE BundledJar

(* Fault: the architecture is never looked at.                             *)
ArchIgnored(kind) == FALSE

(* preflight.check_jar_architecture says nothing about a jar without       *)
(* native libraries, nor on a CPU it does not know.                        *)
ArchProblem(kind) == host.archKnown /\ kind = "wrongArch"

(* preflight.ensure_timezone_database: its status and what it leaves in    *)
(* os.environ.  "bogus" is a TZDIR that is not a directory.                *)
TzdirIsDirectory(dir) == dir \in {"operator", "tzdata"}

(* Fault: a directory the operator chose is not noticed.                   *)
TzOutcomeIgnoringEnv ==
    IF host.osTz THEN "os" ELSE IF tzdata THEN "bundled" ELSE "missing"

TzOutcome ==
    IF host.osTz THEN "os"
    ELSE IF TzdirIsDirectory(TZDIR) THEN "env"
    ELSE IF tzdata THEN "bundled"
    ELSE "missing"

(* Fault: the package's directory is found but not exported.               *)
TzdirNotExported == TZDIR

TzdirAfter == IF TzOutcome = "bundled" THEN "tzdata" ELSE TZDIR

(* preflight.classpath_promotion.  Nothing is promoted unless something of *)
(* a table format is declared; then every coordinate found in the ivy      *)
(* cache is, and of the local jars those of a format, if they exist.       *)
SplitSensitive == "format" \in host.packages \/ host.localFormat # "none"

Promotes(c) == args[c].resolvePackages /\ SplitSensitive

Unresolved == host.packages \ ivy

(* Fault: only the table format's own coordinate is promoted.              *)
PromotedFormatOnly(c) ==
    IF Promotes(c) THEN host.packages \cap ivy \cap {"format"} ELSE {}

Promoted(c) ==
    IF ~Promotes(c) THEN {}
    ELSE (host.packages \cap ivy)
         \cup (IF host.localFormat = "present" THEN {"localFormat"} ELSE {})

SplitNote(c) == IF Promotes(c) /\ Unresolved # {} THEN {"split"} ELSE {}

(* The jars get_session puts on the classpath of a native session; the     *)
(* wheel's companion jars come with the bundle.                            *)

IcebergRuntime(c) ==
    IF args[c].iceberg /\ host.iceberg THEN {"iceberg"} ELSE {}

UserJars(c) == IF args[c].extraJars = "present" THEN {"user"} ELSE {}

(* Fault: only the Gluten jars go on the native classpath.                 *)
ClasspathWithoutUserJars(c) == {jar[c]} \cup Promoted(c) \cup IcebergRuntime(c)

Classpath(c) ==
    {jar[c]} \cup Promoted(c) \cup UserJars(c) \cup IcebergRuntime(c)

WantedHeap(c) == IF args[c].heap = 0 THEN HostHeap ELSE args[c].heap

(* extra_conf is applied last and wins.                                    *)
Overridden(c, o) ==
    [o EXCEPT !.plugin  = IF args[c].override = "noPlugin" THEN "none" ELSE @,
              !.enabled = IF args[c].override = "off" THEN "false" ELSE @,
              !.heap    = IF args[c].confHeap # 0 THEN args[c].confHeap ELSE @,
              !.cp      = IF args[c].confPath # "unset" THEN {args[c].confPath} ELSE @,
              !.given   = args[c].confPath # "unset"]

NativeOptions(c) ==
    Overridden(c, [plugin |-> "gluten", enabled |-> "true",
                   cp |-> Classpath(c), given |-> FALSE,
                   heap |-> WantedHeap(c)])

(* Fault: driver_memory goes to the builder without being parsed.          *)
PlainOptionsUnparsed(c) ==
    [plugin |-> "unset", enabled |-> "unset", cp |-> IcebergRuntime(c),
     given |-> FALSE, heap |-> args[c].heap]

PlainOptions(c) ==
    Overridden(c, [plugin |-> "unset", enabled |-> "unset",
                   cp |-> IcebergRuntime(c), given |-> FALSE,
                   heap |-> IF args[c].heap = BadSize THEN 0 ELSE args[c].heap])

(* diagnostics.is_engaged reads the runtime conf and nothing else.         *)
IsEngaged == conf.plugin = "gluten" /\ conf.enabled # "false"

----------------------------------------------------------------------------
(* The Spark side: what builder.getOrCreate does with the options.         *)

Overlay(old, o) ==
    [plugin  |-> IF o.plugin = "unset" THEN old.plugin ELSE o.plugin,
     enabled |-> IF o.enabled = "unset" THEN old.enabled ELSE o.enabled]

(* pyspark.java_gateway.launch_gateway: the builder's options go onto the  *)
(* command line, then PYSPARK_SUBMIT_ARGS, whose driver options win.       *)
Launch(o) ==
    [up      |-> TRUE,
     tzdir   |-> TZDIR,
     cp      |-> IF host.line.path # "none" THEN {host.line.path} ELSE o.cp,
     given   |-> host.line.path # "none" \/ o.given,
     heap    |-> IF host.line.heap # 0 THEN host.line.heap
                 ELSE IF o.heap # 0 THEN o.heap ELSE JvmHeap,
     plugin  |-> IF host.line.plugin THEN "gluten" ELSE o.plugin,
     enabled |-> o.enabled]

JvmFor(o) == IF gateway.up THEN gateway ELSE Launch(o)

(* Launching the JVM downloads what --packages declares.                   *)
IvyAfterLaunch == IF gateway.up THEN ivy ELSE ivy \cup host.packages

(* A plugin class is loaded from the JVM's own classpath; spark.jars does  *)
(* not reach it.                                                           *)
EngineOn(cp) == cp \cap {"bundle", "wrongArch"} # {}

(* The settings of a new context: the JVM keeps those it was launched with *)
(* as system properties, and the options go on top.                        *)
Settings(o) == Overlay(JvmFor(o), o)

Loads(o) == Settings(o).plugin = "gluten"

Starts(o) == Loads(o) => EngineOn(JvmFor(o).cp)

(* Launch the JVM if there is none and start a context in it; a plugin     *)
(* whose class is not found leaves the JVM only.                           *)
NewContext(o) ==
    /\ context = "none"
    /\ gateway.up \/ host.java # "none"
    /\ gateway' = JvmFor(o)
    /\ ivy' = IvyAfterLaunch
    /\ IF Starts(o)
       THEN /\ context' = IF Loads(o) THEN "native" ELSE "plain"
            /\ conf' = Settings(o)
       ELSE UNCHANGED <<context, conf>>

Fail(c, why) ==
    /\ pc' = [pc EXCEPT ![c] = "raised"]
    /\ result' = [result EXCEPT ![c].error = why]

StartContext(c, o, next) ==
    \/ /\ context = "none" /\ ~gateway.up /\ host.java = "none"
       /\ Fail(c, "GatewayExited")
       /\ UNCHANGED spark
    \/ /\ NewContext(o)
       /\ IF Starts(o)
          THEN /\ pc' = [pc EXCEPT ![c] = next]
               /\ result' = [result EXCEPT ![c] =
                      [error |-> "none", created |-> TRUE,
                       launched |-> ~gateway.up, loaded |-> Loads(o)]]
          ELSE Fail(c, "PluginNotFound")

(* A live context is handed back, with the options copied into its conf.   *)
ReuseContext(c, o, next) ==
    /\ context # "none"
    /\ conf' = Overlay(conf, o)
    /\ pc' = [pc EXCEPT ![c] = next]
    /\ result' = [result EXCEPT ![c] =
           [error |-> "none", created |-> FALSE, launched |-> FALSE,
            loaded |-> context = "native"]]
    /\ UNCHANGED <<ivy, gateway, context>>

GetOrCreate(c, o, next) == StartContext(c, o, next) \/ ReuseContext(c, o, next)

----------------------------------------------------------------------------
(* get_session, step by step.                                              *)

Goto(c, next, notes) ==
    /\ pc' = [pc EXCEPT ![c] = next]
    /\ warned' = [warned EXCEPT ![c] = @ \cup notes]

Raise(c, why) ==
    /\ Fail(c, why)
    /\ UNCHANGED <<world, spark, args, jar, tz, opts, warned, calls>>

Quiescent == \A c \in Callers : pc[c] \in Resting

Enter(c, r) ==
    /\ pc[c] \in Resting
    /\ Overlap \/ Quiescent
    /\ calls < MaxCalls
    /\ calls' = calls + 1
    /\ pc' = [pc EXCEPT ![c] = "check"]
    /\ args' = [args EXCEPT ![c] = r]
    /\ jar' = [jar EXCEPT ![c] = "none"]
    /\ tz' = [tz EXCEPT ![c] = "unknown"]
    /\ opts' = [opts EXCEPT ![c] = NoOptions]
    /\ warned' = [warned EXCEPT ![c] = {}]
    /\ result' = [result EXCEPT ![c] = NoResult]
    /\ UNCHANGED <<world, spark>>

(* Fault: the session is configured whether or not a context is live.      *)
SkipContextCheck(c) ==
    /\ pc[c] = "check"
    /\ Goto(c, "resolve", {})
    /\ UNCHANGED <<world, spark, local, calls>>

CheckContext(c) ==
    /\ pc[c] = "check"
    /\ IF context # "none" THEN Goto(c, "attach", {"exists"})
                           ELSE Goto(c, "resolve", {})
    /\ UNCHANGED <<world, spark, local, calls>>

Attach(c) ==
    /\ pc[c] = "attach"
    /\ GetOrCreate(c, NoOptions, "returned")
    /\ UNCHANGED <<world, args, jar, tz, opts, warned, calls>>

IcebergNote(c) ==
    IF args[c].iceberg /\ ~host.iceberg THEN {"iceberg"} ELSE {}

(* The rest of the call builds an unaccelerated session.                   *)
GoPlain(c, notes) ==
    /\ Goto(c, "create", notes \cup IcebergNote(c))
    /\ opts' = [opts EXCEPT ![c] = PlainOptions(c)]
    /\ UNCHANGED <<world, spark, args, jar, tz, result, calls>>

(* Faults: require_native forgotten; the warning forgotten.                *)
DegradeAnyway(c) == GoPlain(c, {"fallback"})
DegradeSilently(c) ==
    IF args[c].require THEN Raise(c, "Unavailable") ELSE GoPlain(c, {})

Degrade(c) ==
    IF args[c].require THEN Raise(c, "Unavailable") ELSE GoPlain(c, {"fallback"})

ResolveJar(c) ==
    /\ pc[c] = "resolve"
    /\ \/ ~WantNative(c) /\ GoPlain(c, {})
       \/ WantNative(c) /\ Resolved(c) = "absent" /\ Raise(c, "JarNotFound")
       \/ WantNative(c) /\ Resolved(c) = "many" /\ Raise(c, "ManyBundles")
       \/ /\ WantNative(c)
          /\ Resolved(c) = "none" \/ ArchProblem(Resolved(c))
          /\ Degrade(c)
       \/ /\ WantNative(c)
          /\ Resolved(c) \in JarKinds /\ ~ArchProblem(Resolved(c))
          /\ jar' = [jar EXCEPT ![c] = Resolved(c)]
          /\ Goto(c, "java", IcebergNote(c))
          /\ UNCHANGED <<world, spark, args, tz, opts, result, calls>>

(* jdk.java_executable, and jdk.check of what it finds.                    *)
JavaFound == host.java # "none"
JavaNote == IF host.java = "unsupported" THEN {"java"} ELSE {}

(* jdk.check, then the sizes are parsed.                                   *)
CheckJava(c) ==
    /\ pc[c] = "java"
    /\ \/ ~JavaFound /\ Raise(c, "JavaNotFound")
       \/ JavaFound /\ args[c].heap = BadSize /\ Raise(c, "ValueError")
       \/ /\ JavaFound /\ args[c].heap # BadSize
          /\ Goto(c, "tz", JavaNote)
          /\ UNCHANGED <<world, spark, local, calls>>

EnsureTimezones(c) ==
    /\ pc[c] = "tz"
    /\ IF TzOutcome = "missing" /\ args[c].require
       THEN Raise(c, "Unavailable")
       ELSE /\ tz' = [tz EXCEPT ![c] = TzOutcome]
            /\ TZDIR' = TzdirAfter
            /\ Goto(c, "jars", IF TzOutcome = "missing" THEN {"tz"} ELSE {})
            /\ UNCHANGED <<host, tzdata, spark, args, jar, opts, result, calls>>

(* Promotion of --packages jars, then extra_jars, then the options.        *)
AddJars(c) ==
    /\ pc[c] = "jars"
    /\ IF args[c].extraJars = "absent"
       THEN Raise(c, "Unavailable")
       ELSE /\ opts' = [opts EXCEPT ![c] = NativeOptions(c)]
            /\ Goto(c, "create", SplitNote(c))
            /\ UNCHANGED <<world, spark, args, jar, tz, result, calls>>

Create(c) ==
    /\ pc[c] = "create"
    /\ \/ jar[c] = "none" /\ args[c].heap = BadSize /\ Raise(c, "ValueError")
       \/ /\ jar[c] # "none" \/ args[c].heap # BadSize
          /\ GetOrCreate(c, opts[c], IF jar[c] = "none" THEN "returned" ELSE "note")
          /\ UNCHANGED <<world, args, jar, tz, opts, warned, calls>>

(* Fault: half the heap missing still passes.                              *)
HeapShortByHalf(actual, wanted) == 2 * actual < wanted

(* _check_driver_heap: Runtime.maxMemory() under 3/4 of what was asked.    *)
HeapShort(actual, wanted) == 4 * actual < 3 * wanted

NoteDriverHeap(c) ==
    /\ pc[c] = "note"
    /\ Goto(c, "returned",
            IF HeapShort(gateway.heap, WantedHeap(c)) THEN {"heap"} ELSE {})
    /\ UNCHANGED <<world, spark, local, calls>>

Step(c) ==
    \/ CheckContext(c) \/ Attach(c) \/ ResolveJar(c) \/ CheckJava(c)
    \/ EnsureTimezones(c) \/ AddJars(c) \/ Create(c) \/ NoteDriverHeap(c)

----------------------------------------------------------------------------
(* Other code of the process.                                              *)

Elsewhere == Overlap \/ Quiescent

(* A library or a notebook cell builds a session of its own.               *)
OtherSession ==
    /\ Elsewhere
    /\ NewContext(NoOptions)
    /\ UNCHANGED <<world, local, pc, warned, calls>>

(* spark.stop(): the context goes, the JVM stays.                          *)
Stop ==
    /\ Elsewhere
    /\ context # "none"
    /\ context' = "none"
    /\ conf' = NoConf
    /\ UNCHANGED <<world, ivy, gateway, local, pc, warned, calls>>

(* session.enable_gluten and session.disable_gluten on the live session.   *)
SetGluten(value) ==
    /\ Elsewhere
    /\ context # "none"
    /\ conf.enabled # value
    /\ conf' = [conf EXCEPT !.enabled = value]
    /\ UNCHANGED <<world, ivy, gateway, context, local, pc, warned, calls>>

(* `pip install tzdata`, as the warning about a missing database advises.  *)
InstallTzdata ==
    /\ Elsewhere
    /\ ~tzdata
    /\ tzdata' = TRUE
    /\ UNCHANGED <<host, TZDIR, spark, local, pc, warned, calls>>

----------------------------------------------------------------------------
Init ==
    /\ host \in Hosts
    /\ tzdata = host.tzdata
    /\ TZDIR = host.tzdir
    /\ ivy = host.cached
    /\ gateway = IF host.submit THEN Launch(NoOptions) ELSE NoJvm
    /\ context = "none"
    /\ conf = NoConf
    /\ pc = [c \in Callers |-> "idle"]
    /\ args = [c \in Callers |-> DefaultRequest]
    /\ jar = [c \in Callers |-> "none"]
    /\ tz = [c \in Callers |-> "unknown"]
    /\ opts = [c \in Callers |-> NoOptions]
    /\ warned = [c \in Callers |-> {}]
    /\ result = [c \in Callers |-> NoResult]
    /\ calls = 0

Next ==
    \/ \E c \in Callers, r \in Requests : Enter(c, r)
    \/ \E c \in Callers : Step(c)
    \/ OtherSession
    \/ Stop
    \/ \E value \in {"true", "false"} : SetGluten(value)
    \/ InstallTzdata

Spec == Init /\ [][Next]_vars

----------------------------------------------------------------------------
(* Properties.                                                             *)

TypeOK ==
    /\ host \in Hosts
    /\ tzdata \in BOOLEAN
    /\ TZDIR \in TzDirs
    /\ ivy \in SUBSET Coordinates
    /\ gateway \in JvmType
    /\ context \in {"none", "plain", "native"}
    /\ conf \in ConfType
    /\ pc \in [Callers -> Resting \cup Running]
    /\ args \in [Callers -> RequestType]
    /\ jar \in [Callers -> JarKinds \cup {"none"}]
    /\ tz \in [Callers -> TzStatus]
    /\ opts \in [Callers -> OptionType]
    /\ warned \in [Callers -> SUBSET Notes]
    /\ result \in [Callers -> [error : Errors, created : BOOLEAN,
                               launched : BOOLEAN, loaded : BOOLEAN]]
    /\ calls \in 0..MaxCalls

Returned(c) == pc[c] = "returned"

(* Can the live JVM's native library find a zoneinfo directory?  The one   *)
(* of the OS is taken to do, as get_session takes it, whatever TZDIR says. *)
JvmHasTimezones == host.osTz \/ TzdirIsDirectory(gateway.tzdir)

(* A session this call created with require_native=True, acceleration not  *)
(* switched off and no context met at the start, has the plugin loaded:    *)
(* every fallback path of get_session between the context check and        *)
(* getOrCreate raises instead.  If the call also launched the JVM, its     *)
(* native tasks find a time zone database.                                 *)
RequiredMeansLoaded ==
    \A c \in Callers :
        (/\ Returned(c) /\ result[c].created /\ "exists" \notin warned[c]
         /\ WantNative(c) /\ args[c].require /\ args[c].override # "noPlugin")
        => result[c].loaded /\ (result[c].launched => JvmHasTimezones)

(* The engine loads only from a JVM that has a bundle on its own classpath *)
(* and the bundle is one preflight let through, whatever order sessions    *)
(* were built and stopped in.  Excepted is a classpath from the driver     *)
(* options or from extra_conf: preflight looks at the jar it resolved and  *)
(* not at the one the JVM has.                                             *)
LoadedEngineFitsHost ==
    context = "native" =>
        /\ gateway.up /\ EngineOn(gateway.cp)
        /\ (host.archKnown /\ "wrongArch" \in gateway.cp) => gateway.given

(* When a call that configured the engine launches the JVM of its native   *)
(* session, that JVM can find a time zone database, or the caller was      *)
(* warned that native tasks will fail: TZDIR is in place before the        *)
(* environment is copied.                                                  *)
TimezonesReachJvm ==
    \A c \in Callers :
        (Returned(c) /\ jar[c] # "none" /\ result[c].launched /\ result[c].loaded)
        => (JvmHasTimezones \/ "tz" \in warned[c])

(* A TZDIR that the operator set to a directory is the one the JVM has,    *)
(* whoever launches it and whenever: get_session leaves it alone.          *)
OperatorTzdirReachesJvm ==
    (gateway.up /\ TzdirIsDirectory(host.tzdir)) => gateway.tzdir = host.tzdir

(* In the same case, all the jars the caller asked for are on the JVM's    *)
(* classpath: extra_jars, the Iceberg runtime, a table format's local jar, *)
(* and with a format in --packages everything declared there, what the     *)
(* format loads in its turn included, unless the split warning was given   *)
(* or extra_conf or the driver options replace the classpath as a whole.   *)
JarsReachJvm ==
    \A c \in Callers :
        (/\ Returned(c) /\ jar[c] # "none" /\ result[c].launched /\ result[c].loaded
         /\ args[c].confPath = "unset" /\ host.line.path = "none")
        => /\ args[c].extraJars # "none" => "user" \in gateway.cp
           /\ (args[c].iceberg /\ "iceberg" \notin warned[c]) => "iceberg" \in gateway.cp
           /\ (args[c].resolvePackages /\ host.localFormat = "present")
              => "localFormat" \in gateway.cp
           /\ (/\ args[c].resolvePackages /\ "format" \in host.packages
               /\ "split" \notin warned[c])
              => host.packages \subseteq gateway.cp

(* A call that configured the engine and comes back without the heap       *)
(* warning has a JVM with at least three quarters of the heap asked for.   *)
(* With the warning the heap is short, and that is because somebody else   *)
(* had sized the JVM: another call, the driver options or extra_conf.      *)
HeapIsAsAskedOrNoted ==
    \A c \in Callers :
        (Returned(c) /\ result[c].created /\ jar[c] # "none")
        => IF "heap" \notin warned[c] THEN 4 * gateway.heap >= 3 * WantedHeap(c)
           ELSE /\ 4 * gateway.heap < 3 * WantedHeap(c)
                /\ \/ ~result[c].launched
                   \/ args[c].confHeap # 0 \/ host.line.heap # 0

(* Falling back is loud: a call that wanted the engine and returns a       *)
(* session without it has warned, unless extra_conf took the plugin out.   *)
FallbackIsLoud ==
    \A c \in Callers :
        (/\ Returned(c) /\ WantNative(c) /\ args[c].override # "noPlugin"
         /\ ~result[c].loaded)
        => warned[c] \cap {"exists", "fallback"} # {}

(* While no other code runs during a call, is_engaged(spark) is never true *)
(* of a session whose plugin is not loaded: get_session does not write its *)
(* options into the conf of a session it did not build.                    *)
EngagedMeansLoaded == (context # "none" /\ IsEngaged) => context = "native"

(* While no other code runs during a call, no step of get_session changes  *)
(* the conf of a live session ("Returning the existing session unchanged").*)
ExistingSessionUnchanged ==
    [][(\E c \in Callers : Step(c)) /\ context # "none"
       => UNCHANGED <<context, conf, gateway>>]_vars

----------------------------------------------------------------------------
(* What get_session promises, as seen by its callers.                      *)

(* A call has been answered, for good or ill, when nothing is left of it   *)
(* but the heap note.                                                      *)
Stage(c) == IF pc[c] \in Resting \cup {"note"} THEN "resting" ELSE "working"

Wish(c) ==
    [engine |-> IF args[c].override = "noPlugin" THEN "never"
                ELSE IF WantNative(c) THEN "yes" ELSE "no",
     must   |-> args[c].require]

Answer(c) ==
    [kind |-> IF pc[c] = "raised" THEN "error"
              ELSE IF pc[c] \notin {"note", "returned"} THEN "none"
              ELSE IF result[c].loaded THEN "native" ELSE "plain",
     loud |-> pc[c] \in {"note", "returned"} /\ warned[c] \cap {"exists", "fallback"} # {}]

stages == [c \in Callers |-> Stage(c)]
wishes == [c \in Callers |-> Wish(c)]
answers == [c \in Callers |-> Answer(c)]

(* Has the process a JVM, or driver options for one, that name the plugin? *)
Kept == IF gateway.up THEN gateway.plugin = "gluten" ELSE host.line.plugin

Promised ==
    INSTANCE SessionPromise WITH
        session <- context, kept <- Kept, stage <- stages, wish <- wishes, answer <- answers

(* While no other code runs during a call, get_session is a single step to *)
(* its callers: it hands a live session back as it is and says so, or      *)
(* builds the session asked for, or falls back loudly where it may, or     *)
(* raises with nothing built.  Where nobody chooses, a session has the     *)
(* engine if the settings that the JVM was launched with name it.          *)
KeepsPromise == Promised!Spec

----------------------------------------------------------------------------
(* What documents say and the code does not do.                            *)

(* preflight.py:130, ensure_timezone_database "must run before the JVM     *)
(* starts": no native session the caller was not warned about runs in a    *)
(* JVM that cannot find a time zone database.                              *)
TimezonesAlwaysReachJvm ==
    \A c \in Callers :
        (/\ Returned(c) /\ jar[c] # "none" /\ result[c].created /\ result[c].loaded
         /\ context = "native")
        => (JvmHasTimezones \/ "tz" \in warned[c])

(* session.py:66, "falls back to ordinary Spark -- loudly, never silently":*)
(* a call that wanted the engine and returns a session without it has      *)
(* warned of something.                                                    *)
FallbackIsNeverSilent ==
    \A c \in Callers :
        (/\ Returned(c) /\ WantNative(c) /\ args[c].override # "noPlugin"
         /\ ~result[c].loaded)
        => warned[c] # {}

(* NOTES.md:50, TZDIR is set "only when the OS has none and the operator   *)
(* has not set it": a TZDIR that the operator set stays.                   *)
OperatorTzdirKept == host.tzdir # "unset" => TZDIR = host.tzdir

(* README.md:296, "plain Spark session", and NOTES.md:119, "a clean        *)
(* unaccelerated baseline": a session created with enabled=False is plain  *)
(* unless the driver options of the process name the plugin.               *)
PlainMeansPlain ==
    \A c \in Callers :
        (Returned(c) /\ result[c].created /\ ~args[c].enabled /\ ~host.line.plugin)
        => ~result[c].loaded
=============================================================================
