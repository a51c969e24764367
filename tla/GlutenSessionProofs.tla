------------------------ MODULE GlutenSessionProofs ------------------------
(***************************************************************************)
(* Proofs about GlutenSession, for any threads, hosts, requests and number *)
(* of calls, and whether or not other code runs during a call.             *)
(***************************************************************************)
EXTENDS GlutenSession, TLAPS

(* Would a JVM launched now find a time zone database?                     *)
ZoneReady == host.osTz \/ TzdirIsDirectory(TZDIR)

(* A call that must come back accelerated or raise.                        *)
Required(c) ==
    /\ WantNative(c) /\ args[c].require /\ args[c].override # "noPlugin"
    /\ "exists" \notin warned[c]

(* Nothing for another architecture is on the classpath of options or of a *)
(* JVM, but where the classpath was given.                                 *)
Fits(launch) == (host.archKnown /\ "wrongArch" \in launch.cp) => launch.given

(* What each step of a call relies on from the steps before it.            *)
JarInv(c) ==
    /\ jar[c] # "none" => ~ArchProblem(jar[c])
    /\ pc[c] \in {"check", "attach", "resolve"} => jar[c] = "none"
    /\ pc[c] \in {"java", "tz", "jars"} => jar[c] # "none"
    /\ pc[c] \in {"tz", "jars"} => args[c].heap # BadSize
    /\ Fits(opts[c])

TzInv(c) ==
    /\ pc[c] = "jars" => ZoneReady \/ "tz" \in warned[c]
    /\ (pc[c] = "create" /\ jar[c] # "none") => ZoneReady \/ "tz" \in warned[c]
    /\ (pc[c] \in {"note", "returned"} /\ jar[c] # "none" /\ result[c].launched)
       => JvmHasTimezones \/ "tz" \in warned[c]
    /\ result[c].launched => gateway.up

RequireInv(c) ==
    /\ args[c].require => "tz" \notin warned[c]
    /\ pc[c] = "attach" => "exists" \in warned[c]
    /\ (Required(c) /\ pc[c] = "create") => opts[c].plugin = "gluten" /\ jar[c] # "none"
    /\ (Required(c) /\ pc[c] \in {"note", "returned"} /\ result[c].created)
       => result[c].loaded /\ jar[c] # "none"

(* The JVM, the engine in it, and the TZDIR it has or will have.           *)
JvmInv ==
    /\ Fits(gateway)
    /\ context = "native" => EngineOn(gateway.cp)
    /\ ~gateway.up => context = "none"
    /\ TzdirIsDirectory(host.tzdir) =>
           /\ TZDIR = host.tzdir
           /\ gateway.up => gateway.tzdir = host.tzdir

IInv ==
    /\ TypeOK /\ JvmInv
    /\ \A c \in Callers : JarInv(c) /\ TzInv(c) /\ RequireInv(c)

----------------------------------------------------------------------------
(* What a launch makes of options o: TZDIR as it is, o's classpath unless  *)
(* the driver options give one.                                            *)
LEMMA LaunchFacts ==
    ASSUME host \in Hosts, TZDIR \in TzDirs, NEW o \in OptionType, Fits(o)
    PROVE  /\ Launch(o) \in JvmType
           /\ Launch(o).up /\ Launch(o).tzdir = TZDIR /\ Fits(Launch(o))
<1>1. host.line \in LineType /\ JvmHeap \in Nat
    BY ConstantsAssumption DEF ConstantsAssumption, HostType
<1>2. Launch(o).heap \in Nat
    BY <1>1 DEF Launch, LineType, OptionType
<1>3. Launch(o).cp \in SUBSET Jars
    BY <1>1 DEF Launch, LineType, OptionType, Jars
<1>4. Launch(o).given \in BOOLEAN
    BY DEF Launch, OptionType
<1>5. /\ Launch(o).plugin \in {"unset", "gluten", "none"}
      /\ Launch(o).enabled \in {"unset", "true", "false"}
    BY DEF Launch, OptionType
<1>6. Launch(o) \in JvmType
  <2>1. ASSUME NEW cp \in SUBSET Jars, NEW given \in BOOLEAN, NEW heap \in Nat,
               NEW plugin \in {"unset", "gluten", "none"},
               NEW enabled \in {"unset", "true", "false"}
        PROVE  [up |-> TRUE, tzdir |-> TZDIR, cp |-> cp, given |-> given, heap |-> heap,
                plugin |-> plugin, enabled |-> enabled] \in JvmType
    BY DEF JvmType
  <2>2. Launch(o) = [up |-> TRUE, tzdir |-> TZDIR, cp |-> Launch(o).cp,
                     given |-> Launch(o).given, heap |-> Launch(o).heap,
                     plugin |-> Launch(o).plugin, enabled |-> Launch(o).enabled]
    BY DEF Launch
  <2>3. QED
    BY <1>2, <1>3, <1>4, <1>5, <2>1, <2>2
<1>7. Fits(Launch(o))
    BY <1>1 DEF Launch, Fits
<1>8. QED
    BY <1>6, <1>7 DEF Launch

LEMMA NoOptionsFit == NoOptions \in OptionType /\ Fits(NoOptions)
BY DEF NoOptions, OptionType, Fits

LEMMA InitIInv == Init => IInv
<1> SUFFICES ASSUME Init PROVE IInv
    OBVIOUS
<1>1. host \in HostType /\ host \in Hosts /\ JvmHeap \in Nat /\ MaxCalls \in Nat
    BY ConstantsAssumption DEF Init, ConstantsAssumption
<1>0. TZDIR \in TzDirs
    BY <1>1 DEF Init, HostType, TzDirs
<1>9. /\ gateway \in JvmType /\ Fits(gateway)
      /\ gateway.up => gateway.tzdir = TZDIR
  <2>1. CASE host.submit
    BY <1>0, <1>1, <2>1, LaunchFacts, NoOptionsFit DEF Init
  <2>2. CASE ~host.submit
    BY <2>2 DEF Init, NoJvm, JvmType, TzDirs, Fits
  <2>3. QED
    BY <2>1, <2>2
<1>2. TypeOK
  <2>1. /\ tzdata \in BOOLEAN /\ TZDIR \in TzDirs /\ ivy \in SUBSET Coordinates
    BY <1>1 DEF Init, HostType, TzDirs
  <2>0. context \in {"none", "plain", "native"} /\ conf \in ConfType
        /\ calls \in 0..MaxCalls
    BY <1>1 DEF Init, ConfType, NoConf
  <2>2. gateway \in JvmType
    BY <1>9
  <2>3. /\ pc \in [Callers -> Resting \cup Running]
        /\ args \in [Callers -> RequestType]
        /\ jar \in [Callers -> JarKinds \cup {"none"}]
        /\ tz \in [Callers -> TzStatus]
        /\ warned \in [Callers -> SUBSET Notes]
    BY DEF Init, Resting, RequestType, DefaultRequest, JarKinds, TzStatus
  <2>4. opts \in [Callers -> OptionType]
    BY DEF Init, OptionType, NoOptions
  <2>5. result \in [Callers -> [error : Errors, created : BOOLEAN,
                              launched : BOOLEAN, loaded : BOOLEAN]]
    BY DEF Init, Errors, NoResult
  <2>6. QED
    BY <1>1, <2>0, <2>1, <2>2, <2>3, <2>4, <2>5 DEF TypeOK
<1>3. JvmInv
    BY <1>9 DEF Init, JvmInv
<1>4. \A c \in Callers : JarInv(c) /\ TzInv(c) /\ RequireInv(c)
    BY NoOptionsFit DEF Init, JarInv, TzInv, RequireInv, Required, NoResult, DefaultRequest
<1>5. QED
    BY <1>2, <1>3, <1>4 DEF IInv

----------------------------------------------------------------------------
(* A thread that is not the one stepping keeps its part of the invariant.  *)
LEMMA OthersKeepInv ==
    ASSUME IInv, NEW d \in Callers,
           host' = host, pc'[d] = pc[d], args'[d] = args[d], jar'[d] = jar[d],
           opts'[d] = opts[d], warned'[d] = warned[d], result'[d] = result[d],
           ZoneReady => ZoneReady', gateway.up => gateway' = gateway
    PROVE  (JarInv(d) /\ TzInv(d) /\ RequireInv(d))'
<1>1. JarInv(d) /\ TzInv(d) /\ RequireInv(d)
    BY DEF IInv
<1>2. JarInv(d)'
    BY <1>1 DEF JarInv, ArchProblem, Fits
<1>3. TzInv(d)'
  <2>1. result[d].launched => (JvmHasTimezones' <=> JvmHasTimezones)
    BY <1>1 DEF TzInv, JvmHasTimezones
  <2>2. QED
    BY <1>1, <2>1 DEF TzInv
<1>4. RequireInv(d)'
    BY <1>1 DEF RequireInv, Required, WantNative
<1>5. QED
    BY <1>2, <1>3, <1>4

(* A step of thread c, of what happens to everything but c's own record.   *)
Frame(c) ==
    /\ host' = host
    /\ ZoneReady => ZoneReady'
    /\ gateway.up => gateway' = gateway
    /\ \A d \in Callers \ {c} :
         /\ pc'[d] = pc[d] /\ args'[d] = args[d] /\ jar'[d] = jar[d]
         /\ opts'[d] = opts[d] /\ warned'[d] = warned[d] /\ result'[d] = result[d]

LEMMA FrameKeepsIInv ==
    ASSUME IInv, NEW c \in Callers, Frame(c), TypeOK', JvmInv',
           (JarInv(c) /\ TzInv(c) /\ RequireInv(c))'
    PROVE  IInv'
<1>1. ASSUME NEW d \in Callers PROVE (JarInv(d) /\ TzInv(d) /\ RequireInv(d))'
  <2>1. CASE d = c
    BY <2>1
  <2>2. CASE d # c
    <3>1. /\ host' = host /\ pc'[d] = pc[d] /\ args'[d] = args[d] /\ jar'[d] = jar[d]
          /\ opts'[d] = opts[d] /\ warned'[d] = warned[d] /\ result'[d] = result[d]
          /\ ZoneReady => ZoneReady'
          /\ gateway.up => gateway' = gateway
      BY <2>2 DEF Frame
    <3>2. QED
      BY <3>1, OthersKeepInv
  <2>3. QED
    BY <2>1, <2>2
<1>2. QED
    BY <1>1 DEF IInv

(* Code outside any call: sessions built, stopped and reconfigured.        *)
LEMMA OutsideKeepsIInv ==
    ASSUME IInv, TypeOK', JvmInv', UNCHANGED <<host, TZDIR, local, pc, warned>>,
           gateway.up => gateway' = gateway
    PROVE  IInv'
<1>1. ZoneReady => ZoneReady'
    BY DEF ZoneReady
<1>2. ASSUME NEW d \in Callers PROVE (JarInv(d) /\ TzInv(d) /\ RequireInv(d))'
  <2>1. /\ host' = host /\ pc'[d] = pc[d] /\ args'[d] = args[d] /\ jar'[d] = jar[d]
        /\ opts'[d] = opts[d] /\ warned'[d] = warned[d] /\ result'[d] = result[d]
    BY DEF local
  <2>2. QED
    BY <1>1, <2>1, OthersKeepInv
<1>3. QED
    BY <1>2 DEF IInv

LEMMA RaiseKeepsIInv ==
    ASSUME IInv, NEW c \in Callers, NEW why \in Errors, Raise(c, why)
    PROVE  IInv'
<1> USE DEF world, spark
<1>1. /\ pc' = [pc EXCEPT ![c] = "raised"]
      /\ result' = [result EXCEPT ![c] = [result[c] EXCEPT !.error = why]]
      /\ UNCHANGED <<host, tzdata, TZDIR, ivy, gateway, context, conf,
                     args, jar, tz, opts, warned, calls>>
    BY DEF Raise, Fail
<1>2. TypeOK'
  <2>1. result' \in [Callers -> [error : Errors, created : BOOLEAN,
                               launched : BOOLEAN, loaded : BOOLEAN]]
    BY <1>1 DEF IInv, TypeOK
  <2>2. QED
    BY <1>1, <2>1 DEF IInv, TypeOK, Resting
<1>3. JvmInv'
    BY <1>1 DEF IInv, JvmInv, EngineOn, Fits
<1>4. Frame(c)
    BY <1>1 DEF Frame, ZoneReady, IInv, TypeOK
<1>5. (JarInv(c) /\ TzInv(c) /\ RequireInv(c))'
  <2>1. JarInv(c) /\ TzInv(c) /\ RequireInv(c)
    BY DEF IInv
  <2>2. pc'[c] = "raised" /\ result'[c].launched = result[c].launched
    BY <1>1 DEF IInv, TypeOK
  <2>3. JarInv(c)'
    BY <1>1, <2>1, <2>2 DEF JarInv, ArchProblem, Fits
  <2>4. TzInv(c)'
    BY <1>1, <2>1, <2>2 DEF TzInv
  <2>5. RequireInv(c)'
    BY <1>1, <2>1, <2>2 DEF RequireInv
  <2>6. QED
    BY <2>3, <2>4, <2>5
<1>6. QED
    BY <1>2, <1>3, <1>4, <1>5, FrameKeepsIInv

LEMMA EnterKeepsIInv ==
    ASSUME IInv, NEW c \in Callers, NEW r \in Requests, Enter(c, r)
    PROVE  IInv'
<1> USE DEF world, spark
<1>1. r \in RequestType /\ MaxCalls \in Nat
    BY ConstantsAssumption DEF ConstantsAssumption
<1>2. TypeOK'
  <2>1. /\ opts' \in [Callers -> OptionType]
        /\ result' \in [Callers -> [error : Errors, created : BOOLEAN,
                               launched : BOOLEAN, loaded : BOOLEAN]]
    BY DEF IInv, TypeOK, Enter, NoOptions, OptionType, NoResult, Errors
  <2>2. calls' \in 0..MaxCalls
    BY <1>1 DEF IInv, TypeOK, Enter
  <2>3. QED
    BY <1>1, <2>1, <2>2 DEF IInv, TypeOK, Enter, Running, TzStatus
<1>3. JvmInv'
    BY DEF IInv, JvmInv, Enter, EngineOn, Fits
<1>4. Frame(c)
    BY DEF Frame, ZoneReady, IInv, TypeOK, Enter
<1>5. (JarInv(c) /\ TzInv(c) /\ RequireInv(c))'
  <2>1. /\ pc'[c] = "check" /\ jar'[c] = "none" /\ opts'[c] = NoOptions
        /\ warned'[c] = {} /\ result'[c] = NoResult
    BY DEF IInv, TypeOK, Enter
  <2>2. QED
    BY <2>1 DEF JarInv, TzInv, RequireInv, NoOptions, NoResult, Fits
<1>6. QED
    BY <1>2, <1>3, <1>4, <1>5, FrameKeepsIInv

LEMMA CheckContextKeepsIInv ==
    ASSUME IInv, NEW c \in Callers, CheckContext(c)
    PROVE  IInv'
<1> USE DEF world, spark, local
<1>1. TypeOK'
  <2>1. pc' \in [Callers -> Resting \cup Running] /\ warned' \in [Callers -> SUBSET Notes]
    BY DEF IInv, TypeOK, CheckContext, Goto, Running, Notes
  <2>2. QED
    BY <2>1 DEF IInv, TypeOK, CheckContext
<1>2. JvmInv'
    BY DEF IInv, JvmInv, CheckContext, EngineOn, Fits
<1>3. Frame(c)
    BY DEF Frame, ZoneReady, IInv, TypeOK, CheckContext, Goto
<1>4. (JarInv(c) /\ TzInv(c) /\ RequireInv(c))'
  <2>1. JarInv(c) /\ TzInv(c) /\ RequireInv(c)
    BY DEF IInv
  <2>2. /\ pc'[c] \in {"attach", "resolve"}
        /\ pc'[c] = "attach" => "exists" \in warned'[c]
        /\ "tz" \in warned'[c] <=> "tz" \in warned[c]
    BY DEF IInv, TypeOK, CheckContext, Goto
  <2>3. QED
    BY <2>1, <2>2
    DEF CheckContext, JarInv, ArchProblem, Fits, TzInv, RequireInv
<1>5. QED
    BY <1>1, <1>2, <1>3, <1>4, FrameKeepsIInv

----------------------------------------------------------------------------
(* The steps that decide what session is built.                            *)

LEMMA PlainOptionsType ==
    ASSUME TypeOK, NEW c \in Callers
    PROVE  PlainOptions(c) \in OptionType /\ Fits(PlainOptions(c))
<1>1. args[c] \in RequestType
    BY DEF TypeOK
<1>2. IcebergRuntime(c) \in SUBSET Jars /\ "wrongArch" \notin IcebergRuntime(c)
    BY DEF IcebergRuntime, Jars
<1>3. PlainOptions(c).heap \in Nat
    BY <1>1 DEF PlainOptions, Overridden, RequestType
<1>4. /\ PlainOptions(c).cp = IF args[c].confPath # "unset" THEN {args[c].confPath}
                              ELSE IcebergRuntime(c)
      /\ PlainOptions(c).given = (args[c].confPath # "unset")
    BY DEF PlainOptions, Overridden
<1>5. PlainOptions(c).cp \in SUBSET Jars /\ Fits(PlainOptions(c))
    BY <1>1, <1>2, <1>4 DEF RequestType, Jars, Fits
<1>6. QED
    BY <1>3, <1>4, <1>5 DEF PlainOptions, Overridden, OptionType

LEMMA NativeOptionsType ==
    ASSUME TypeOK, NEW c \in Callers, jar[c] # "none", args[c].heap # BadSize,
           ~ArchProblem(jar[c])
    PROVE  /\ NativeOptions(c) \in OptionType
           /\ Fits(NativeOptions(c))
           /\ args[c].override # "noPlugin" => NativeOptions(c).plugin = "gluten"
<1>1. args[c] \in RequestType /\ jar[c] \in JarKinds /\ HostHeap \in Nat
    BY ConstantsAssumption DEF TypeOK, ConstantsAssumption
<1>2. /\ Classpath(c) \in SUBSET Jars
      /\ host.archKnown => "wrongArch" \notin Classpath(c)
  <2>1. Promoted(c) \subseteq {"format", "cloud", "localFormat"}
    BY DEF TypeOK, Promoted, Coordinates
  <2>2. UserJars(c) \cup IcebergRuntime(c) \subseteq {"user", "iceberg"}
    BY DEF UserJars, IcebergRuntime
  <2>3. jar[c] \in Jars /\ (host.archKnown => jar[c] # "wrongArch")
    BY <1>1 DEF Jars, ArchProblem
  <2>4. QED
    BY <2>1, <2>2, <2>3 DEF Classpath, Jars, Coordinates
<1>3. NativeOptions(c).heap \in Nat
    BY <1>1 DEF NativeOptions, Overridden, WantedHeap, RequestType
<1>4. /\ NativeOptions(c).cp = IF args[c].confPath # "unset" THEN {args[c].confPath}
                               ELSE Classpath(c)
      /\ NativeOptions(c).given = (args[c].confPath # "unset")
    BY DEF NativeOptions, Overridden
<1>5. NativeOptions(c).cp \in SUBSET Jars /\ Fits(NativeOptions(c))
    BY <1>1, <1>2, <1>4 DEF RequestType, Jars, Fits
<1>6. QED
    BY <1>3, <1>4, <1>5 DEF NativeOptions, Overridden, OptionType

LEMMA GoPlainKeepsIInv ==
    ASSUME IInv, NEW c \in Callers, NEW notes \in SUBSET Notes, GoPlain(c, notes),
           pc[c] = "resolve", "tz" \notin notes, WantNative(c) => ~args[c].require
    PROVE  IInv'
<1> USE DEF world, spark
<1>1. /\ pc' = [pc EXCEPT ![c] = "create"]
      /\ opts' = [opts EXCEPT ![c] = PlainOptions(c)]
      /\ warned' = [warned EXCEPT ![c] = @ \cup notes \cup IcebergNote(c)]
      /\ UNCHANGED <<host, tzdata, TZDIR, ivy, gateway, context, conf,
                     args, jar, tz, result, calls>>
    BY DEF GoPlain, Goto
<1>2. PlainOptions(c) \in OptionType /\ Fits(PlainOptions(c))
    BY PlainOptionsType DEF IInv
<1>3. IcebergNote(c) \in SUBSET Notes /\ "tz" \notin IcebergNote(c)
    BY DEF IcebergNote, Notes
<1>4. TypeOK'
    BY <1>1, <1>2, <1>3 DEF IInv, TypeOK, Running
<1>5. JvmInv'
    BY <1>1 DEF IInv, JvmInv, EngineOn, Fits
<1>6. Frame(c)
    BY <1>1 DEF Frame, ZoneReady, IInv, TypeOK
<1>7. (JarInv(c) /\ TzInv(c) /\ RequireInv(c))'
  <2>1. JarInv(c) /\ TzInv(c) /\ RequireInv(c)
    BY DEF IInv
  <2>2. /\ pc'[c] = "create" /\ opts'[c] = PlainOptions(c)
        /\ "tz" \in warned'[c] <=> "tz" \in warned[c]
    BY <1>1, <1>3 DEF IInv, TypeOK
  <2>3. jar[c] = "none"
    BY <2>1 DEF JarInv
  <2>4. JarInv(c)'
    BY <1>1, <1>2, <2>1, <2>2 DEF JarInv, ArchProblem, Fits
  <2>5. TzInv(c)'
    BY <1>1, <2>1, <2>2, <2>3 DEF TzInv
  <2>6. RequireInv(c)'
    BY <1>1, <2>1, <2>2 DEF RequireInv, Required, WantNative
  <2>7. QED
    BY <2>4, <2>5, <2>6
<1>8. QED
    BY <1>4, <1>5, <1>6, <1>7, FrameKeepsIInv

LEMMA ResolveJarKeepsIInv ==
    ASSUME IInv, NEW c \in Callers, ResolveJar(c)
    PROVE  IInv'
<1> USE DEF world, spark
<1>0. pc[c] = "resolve"
    BY DEF ResolveJar
<1>1. CASE ~WantNative(c) /\ GoPlain(c, {})
    BY <1>0, <1>1, GoPlainKeepsIInv
<1>2. CASE Raise(c, "JarNotFound") \/ Raise(c, "ManyBundles")
    BY <1>2, RaiseKeepsIInv DEF Errors
<1>3. CASE Degrade(c)
  <2>1. CASE args[c].require
    BY <1>3, <2>1, RaiseKeepsIInv DEF Degrade, Errors
  <2>2. CASE ~args[c].require
    BY <1>0, <1>3, <2>2, GoPlainKeepsIInv DEF Degrade, Notes
  <2>3. QED
    BY <2>1, <2>2
<1>4. CASE /\ Resolved(c) \in JarKinds /\ ~ArchProblem(Resolved(c))
           /\ jar' = [jar EXCEPT ![c] = Resolved(c)]
           /\ Goto(c, "java", IcebergNote(c))
           /\ UNCHANGED <<world, spark, args, tz, opts, result, calls>>
  <2>1. IcebergNote(c) \in SUBSET Notes /\ "tz" \notin IcebergNote(c)
    BY DEF IcebergNote, Notes
  <2>2. TypeOK'
    BY <1>4, <2>1 DEF IInv, TypeOK, Goto, Running
  <2>3. JvmInv'
    BY <1>4 DEF IInv, JvmInv, EngineOn, Fits
  <2>4. Frame(c)
    BY <1>4 DEF Frame, ZoneReady, IInv, TypeOK, Goto
  <2>5. (JarInv(c) /\ TzInv(c) /\ RequireInv(c))'
    <3>1. JarInv(c) /\ TzInv(c) /\ RequireInv(c)
      BY DEF IInv
    <3>2. /\ pc'[c] = "java" /\ jar'[c] = Resolved(c)
          /\ "tz" \in warned'[c] <=> "tz" \in warned[c]
      BY <1>4, <2>1 DEF IInv, TypeOK, Goto
    <3>3. jar'[c] # "none"
      BY <1>4, <3>2 DEF JarKinds
    <3>4. JarInv(c)'
      BY <1>4, <3>1, <3>2, <3>3 DEF JarInv, ArchProblem, Fits
    <3>5. TzInv(c)' /\ RequireInv(c)'
      BY <1>4, <3>1, <3>2 DEF TzInv, RequireInv
    <3>6. QED
      BY <3>4, <3>5
  <2>6. QED
    BY <2>2, <2>3, <2>4, <2>5, FrameKeepsIInv
<1>5. QED
    BY <1>1, <1>2, <1>3, <1>4 DEF ResolveJar

(* A step that only moves the thread on and adds a warning which is not    *)
(* about time zones.                                                       *)
LEMMA MoveOnKeepsIInv ==
    ASSUME IInv, NEW c \in Callers, NEW next \in {"tz", "returned"},
           NEW notes \in SUBSET Notes, "tz" \notin notes, Goto(c, next, notes),
           next = "tz" => pc[c] = "java" /\ args[c].heap # BadSize,
           next = "returned" => pc[c] = "note",
           UNCHANGED <<world, spark, local, calls>>
    PROVE  IInv'
<1> USE DEF world, spark, local
<1>1. TypeOK'
    BY DEF IInv, TypeOK, Goto, Running, Resting
<1>2. JvmInv'
    BY DEF IInv, JvmInv, EngineOn, Fits
<1>3. Frame(c)
    BY DEF Frame, ZoneReady, IInv, TypeOK, Goto
<1>4. (JarInv(c) /\ TzInv(c) /\ RequireInv(c))'
  <2>1. JarInv(c) /\ TzInv(c) /\ RequireInv(c)
    BY DEF IInv
  <2>2. /\ pc'[c] = next
        /\ warned[c] \subseteq warned'[c]
        /\ "tz" \in warned'[c] <=> "tz" \in warned[c]
    BY DEF IInv, TypeOK, Goto
  <2>3. JarInv(c)'
    BY <2>1, <2>2 DEF JarInv, ArchProblem, Fits
  <2>4. TzInv(c)'
    BY <2>1, <2>2 DEF TzInv, JvmHasTimezones
  <2>5. RequireInv(c)'
    BY <2>1, <2>2 DEF RequireInv, Required, WantNative
  <2>6. QED
    BY <2>3, <2>4, <2>5
<1>5. QED
    BY <1>1, <1>2, <1>3, <1>4, FrameKeepsIInv

LEMMA CheckJavaKeepsIInv ==
    ASSUME IInv, NEW c \in Callers, CheckJava(c)
    PROVE  IInv'
<1>1. CASE Raise(c, "JavaNotFound") \/ Raise(c, "ValueError")
    BY <1>1, RaiseKeepsIInv DEF Errors
<1>2. CASE /\ args[c].heap # BadSize /\ Goto(c, "tz", JavaNote)
           /\ UNCHANGED <<world, spark, local, calls>>
  <2>1. JavaNote \in SUBSET Notes /\ "tz" \notin JavaNote
    BY DEF JavaNote, Notes
  <2>2. pc[c] = "java"
    BY DEF CheckJava
  <2>3. QED
    BY <1>2, <2>1, <2>2, MoveOnKeepsIInv
<1>3. QED
    BY <1>1, <1>2 DEF CheckJava

LEMMA NoteDriverHeapKeepsIInv ==
    ASSUME IInv, NEW c \in Callers, NoteDriverHeap(c)
    PROVE  IInv'
<1> DEFINE notes == IF HeapShort(gateway.heap, WantedHeap(c)) THEN {"heap"} ELSE {}
<1>1. notes \in SUBSET Notes /\ "tz" \notin notes
    BY DEF Notes
<1>2. /\ pc[c] = "note" /\ Goto(c, "returned", notes)
      /\ UNCHANGED <<world, spark, local, calls>>
    BY DEF NoteDriverHeap
<1> HIDE DEF notes
<1>3. QED
    BY <1>1, <1>2, MoveOnKeepsIInv

(* After the time zone step the next JVM finds a database, or the caller   *)
(* is warned, and warned only when nothing required the engine.            *)
LEMMA EnsureTimezonesKeepsIInv ==
    ASSUME IInv, NEW c \in Callers, EnsureTimezones(c)
    PROVE  IInv'
<1> USE DEF world, spark
<1>1. CASE TzOutcome = "missing" /\ args[c].require
    BY <1>1, RaiseKeepsIInv DEF EnsureTimezones, Errors
<1>2. CASE ~(TzOutcome = "missing" /\ args[c].require)
  <2> DEFINE notes == IF TzOutcome = "missing" THEN {"tz"} ELSE {}
  <2>1. /\ pc[c] = "tz"
        /\ tz' = [tz EXCEPT ![c] = TzOutcome]
        /\ TZDIR' = TzdirAfter
        /\ pc' = [pc EXCEPT ![c] = "jars"]
        /\ warned' = [warned EXCEPT ![c] = @ \cup notes]
        /\ UNCHANGED <<host, tzdata, ivy, gateway, context, conf, args, jar, opts,
                       result, calls>>
    BY <1>2 DEF EnsureTimezones, Goto
  <2>2. /\ TzOutcome \in TzStatus /\ TzdirAfter \in TzDirs /\ notes \in SUBSET Notes
    BY DEF IInv, TypeOK, TzOutcome, TzStatus, TzdirAfter, TzDirs, Notes
  <2>3. /\ ZoneReady => ZoneReady'
        /\ ZoneReady' \/ TzOutcome = "missing"
    BY <2>1 DEF ZoneReady, TzOutcome, TzdirAfter, TzdirIsDirectory
  <2>4. TypeOK'
    BY <2>1, <2>2 DEF IInv, TypeOK, Running
  <2>5. JvmInv'
    <3>1. JvmInv
      BY DEF IInv
    <3>2. TzdirIsDirectory(host.tzdir) => TZDIR' = TZDIR
      BY <2>1, <3>1 DEF JvmInv, TzdirAfter, TzOutcome
    <3>3. QED
      BY <2>1, <3>1, <3>2 DEF JvmInv, EngineOn, Fits
  <2>6. Frame(c)
    BY <2>1, <2>3 DEF Frame, IInv, TypeOK
  <2>7. (JarInv(c) /\ TzInv(c) /\ RequireInv(c))'
    <3>1. JarInv(c) /\ TzInv(c) /\ RequireInv(c)
      BY DEF IInv
    <3>2. pc'[c] = "jars" /\ warned'[c] = warned[c] \cup notes
      BY <2>1 DEF IInv, TypeOK
    <3>3. JarInv(c)'
      BY <2>1, <3>1, <3>2 DEF JarInv, ArchProblem, Fits
    <3>4. TzInv(c)'
      BY <2>1, <2>3, <3>1, <3>2 DEF TzInv
    <3>5. RequireInv(c)'
      BY <1>2, <2>1, <3>1, <3>2 DEF RequireInv
    <3>6. QED
      BY <3>3, <3>4, <3>5
  <2>8. QED
    BY <2>4, <2>5, <2>6, <2>7, FrameKeepsIInv
<1>3. QED
    BY <1>1, <1>2

LEMMA AddJarsKeepsIInv ==
    ASSUME IInv, NEW c \in Callers, AddJars(c)
    PROVE  IInv'
<1> USE DEF world, spark
<1>1. CASE args[c].extraJars = "absent"
    BY <1>1, RaiseKeepsIInv DEF AddJars, Errors
<1>2. CASE args[c].extraJars # "absent"
  <2> DEFINE notes == SplitNote(c)
  <2>1. /\ pc[c] = "jars"
        /\ opts' = [opts EXCEPT ![c] = NativeOptions(c)]
        /\ pc' = [pc EXCEPT ![c] = "create"]
        /\ warned' = [warned EXCEPT ![c] = @ \cup notes]
        /\ UNCHANGED <<host, tzdata, TZDIR, ivy, gateway, context, conf, args, jar,
                       tz, result, calls>>
    BY <1>2 DEF AddJars, Goto
  <2>2. notes \in SUBSET Notes /\ "tz" \notin notes
    BY DEF Notes, SplitNote
  <2>3. JarInv(c) /\ TzInv(c) /\ RequireInv(c) /\ TypeOK
    BY DEF IInv
  <2>4. jar[c] # "none" /\ args[c].heap # BadSize /\ ~ArchProblem(jar[c])
    BY <2>1, <2>3 DEF JarInv
  <2>5. /\ NativeOptions(c) \in OptionType
        /\ Fits(NativeOptions(c))
        /\ args[c].override # "noPlugin" => NativeOptions(c).plugin = "gluten"
    BY <2>3, <2>4, NativeOptionsType
  <2>6. TypeOK'
    BY <2>1, <2>2, <2>5 DEF IInv, TypeOK, Running
  <2>7. JvmInv'
    BY <2>1 DEF IInv, JvmInv, EngineOn, Fits
  <2>8. Frame(c)
    BY <2>1 DEF Frame, ZoneReady, IInv, TypeOK
  <2>9. (JarInv(c) /\ TzInv(c) /\ RequireInv(c))'
    <3>1. /\ pc'[c] = "create" /\ opts'[c] = NativeOptions(c)
          /\ "tz" \in warned'[c] <=> "tz" \in warned[c]
      BY <2>1, <2>2 DEF IInv, TypeOK
    <3>2. JarInv(c)'
      BY <2>1, <2>3, <2>5, <3>1 DEF JarInv, ArchProblem, Fits
    <3>3. TzInv(c)'
      BY <2>1, <2>3, <3>1 DEF TzInv, ZoneReady
    <3>4. RequireInv(c)'
      BY <2>1, <2>3, <2>4, <2>5, <3>1 DEF RequireInv, Required
    <3>5. QED
      BY <3>2, <3>3, <3>4
  <2>10. QED
    BY <2>6, <2>7, <2>8, <2>9, FrameKeepsIInv
<1>3. QED
    BY <1>1, <1>2

----------------------------------------------------------------------------
(* builder.getOrCreate with options o, which belong to a call that sets up *)
(* the engine only when a JVM launched now would find a time zone database *)
(* or the caller is warned.                                                *)

LEMMA JvmForFacts ==
    ASSUME TypeOK, JvmInv, NEW o \in OptionType, Fits(o)
    PROVE  /\ JvmFor(o) \in JvmType
           /\ JvmFor(o).up /\ Fits(JvmFor(o))
           /\ gateway.up => JvmFor(o) = gateway
           /\ ~gateway.up => JvmFor(o).tzdir = TZDIR
<1>1. CASE gateway.up
    BY <1>1 DEF TypeOK, JvmInv, JvmFor
<1>2. CASE ~gateway.up
    BY <1>2, LaunchFacts DEF TypeOK, JvmFor
<1>3. QED
    BY <1>1, <1>2

(* What a launch downloads is what --packages may declare.                 *)
LEMMA IvyType ==
    ASSUME TypeOK
    PROVE  IvyAfterLaunch \in SUBSET Coordinates
<1>1. host \in HostType
    BY ConstantsAssumption DEF ConstantsAssumption, TypeOK
<1>2. host.packages \in SUBSET Coordinates
    BY <1>1 DEF HostType
<1>3. QED
    BY <1>2 DEF TypeOK, IvyAfterLaunch

(* A new context, or the attempt at one, by whoever makes it.              *)
LEMMA NewContextFacts ==
    ASSUME IInv, NEW o \in OptionType, Fits(o), NewContext(o), UNCHANGED world
    PROVE  /\ gateway' \in JvmType /\ gateway'.up
           /\ gateway.up => gateway' = gateway
           /\ ~gateway.up => gateway'.tzdir = TZDIR
           /\ ivy' \in SUBSET Coordinates
           /\ context' \in {"none", "plain", "native"} /\ conf' \in ConfType
           /\ JvmInv'
<1> USE DEF world
<1>1. TypeOK /\ JvmInv
    BY DEF IInv
<1>2. /\ gateway' = JvmFor(o) /\ ivy' = IvyAfterLaunch
      /\ UNCHANGED <<host, tzdata, TZDIR>>
    BY DEF NewContext
<1>3. /\ gateway' \in JvmType /\ gateway'.up /\ Fits(JvmFor(o))
      /\ gateway.up => gateway' = gateway
      /\ ~gateway.up => gateway'.tzdir = TZDIR
    BY <1>1, <1>2, JvmForFacts
<1>4. Settings(o) \in ConfType
    BY <1>2, <1>3 DEF Settings, Overlay, ConfType, OptionType, JvmType
<1>5. context' \in {"none", "plain", "native"} /\ conf' \in ConfType
    BY <1>1, <1>4 DEF NewContext, TypeOK
<1>6. context' = "native" => EngineOn(gateway'.cp)
    BY <1>2 DEF NewContext, Starts
<1>7. JvmInv'
  <2>1. Fits(gateway)'
    BY <1>2, <1>3 DEF Fits
  <2>2. (TzdirIsDirectory(host.tzdir) => TZDIR = host.tzdir
                                         /\ (gateway.up => gateway.tzdir = host.tzdir))'
    BY <1>1, <1>2, <1>3 DEF JvmInv
  <2>3. QED
    BY <1>3, <1>6, <2>1, <2>2 DEF JvmInv, EngineOn
<1>8. QED
    BY <1>1, <1>2, <1>3, <1>5, <1>7, IvyType

LEMMA StartContextKeepsIInv ==
    ASSUME IInv, NEW c \in Callers, NEW o \in OptionType,
           NEW next \in {"note", "returned"},
           StartContext(c, o, next), UNCHANGED <<world, args, jar, tz, opts, warned, calls>>,
           Fits(o),
           jar[c] # "none" => ZoneReady \/ "tz" \in warned[c],
           Required(c) => o.plugin = "gluten" /\ jar[c] # "none"
    PROVE  IInv'
<1> USE DEF world, spark
<1>1. CASE Fail(c, "GatewayExited") /\ UNCHANGED spark
    BY <1>1, RaiseKeepsIInv DEF Raise, Errors
<1>2. CASE NewContext(o) /\ ~Starts(o) /\ Fail(c, "PluginNotFound")
  <2>1. /\ pc' = [pc EXCEPT ![c] = "raised"]
        /\ result' = [result EXCEPT ![c] = [result[c] EXCEPT !.error = "PluginNotFound"]]
        /\ UNCHANGED <<host, tzdata, TZDIR, args, jar, tz, opts, warned, calls>>
    BY <1>2 DEF Fail
  <2>2. /\ gateway' \in JvmType /\ gateway'.up
        /\ gateway.up => gateway' = gateway
        /\ ivy' \in SUBSET Coordinates
        /\ context' \in {"none", "plain", "native"} /\ conf' \in ConfType
        /\ JvmInv'
    BY <1>2, NewContextFacts
  <2>4. TypeOK'
    <3>2. result' \in [Callers -> [error : Errors, created : BOOLEAN,
                                 launched : BOOLEAN, loaded : BOOLEAN]]
      BY <2>1 DEF IInv, TypeOK, Errors
    <3>3. QED
      BY <2>1, <2>2, <3>2 DEF IInv, TypeOK, Resting
  <2>6. Frame(c)
    BY <2>1, <2>2 DEF Frame, ZoneReady, IInv, TypeOK
  <2>7. (JarInv(c) /\ TzInv(c) /\ RequireInv(c))'
    <3>1. JarInv(c) /\ TzInv(c) /\ RequireInv(c)
      BY DEF IInv
    <3>2. pc'[c] = "raised"
      BY <2>1 DEF IInv, TypeOK
    <3>3. JarInv(c)'
      BY <2>1, <3>1, <3>2 DEF JarInv, ArchProblem, Fits
    <3>4. TzInv(c)' /\ RequireInv(c)'
      BY <2>1, <2>2, <3>1, <3>2 DEF TzInv, RequireInv
    <3>5. QED
      BY <3>3, <3>4
  <2>8. QED
    BY <2>2, <2>4, <2>6, <2>7, FrameKeepsIInv
<1>3. CASE /\ NewContext(o) /\ Starts(o)
           /\ pc' = [pc EXCEPT ![c] = next]
           /\ result' = [result EXCEPT ![c] =
                  [error |-> "none", created |-> TRUE,
                   launched |-> ~gateway.up, loaded |-> Loads(o)]]
  <2>1. /\ gateway' \in JvmType /\ gateway'.up
        /\ gateway.up => gateway' = gateway
        /\ ~gateway.up => gateway'.tzdir = TZDIR
        /\ ivy' \in SUBSET Coordinates
        /\ context' \in {"none", "plain", "native"} /\ conf' \in ConfType
        /\ JvmInv'
    BY <1>3, NewContextFacts
  <2>2. gateway.up \in BOOLEAN /\ Loads(o) \in BOOLEAN
    BY DEF IInv, TypeOK, JvmType, Loads
  <2>3. TypeOK'
    <3>2. result' \in [Callers -> [error : Errors, created : BOOLEAN,
                                 launched : BOOLEAN, loaded : BOOLEAN]]
      BY <1>3, <2>2 DEF IInv, TypeOK, Errors
    <3>3. pc' \in [Callers -> Resting \cup Running]
      BY <1>3 DEF IInv, TypeOK, Resting, Running
    <3>5. QED
      BY <2>1, <3>2, <3>3 DEF IInv, TypeOK
  <2>5. Frame(c)
    BY <1>3, <2>1 DEF Frame, ZoneReady, IInv, TypeOK
  <2>6. (JarInv(c) /\ TzInv(c) /\ RequireInv(c))'
    <3>1. JarInv(c) /\ TzInv(c) /\ RequireInv(c)
      BY DEF IInv
    <3>2. pc'[c] = next /\ result'[c].launched = ~gateway.up
          /\ result'[c].loaded = Loads(o)
      BY <1>3 DEF IInv, TypeOK
    <3>3. JarInv(c)'
      BY <3>1, <3>2 DEF JarInv, ArchProblem, Fits
    <3>4. TzInv(c)'
      BY <2>1, <3>2 DEF TzInv, ZoneReady, JvmHasTimezones
    <3>5. o.plugin = "gluten" => Loads(o)
      BY DEF Loads, Settings, Overlay
    <3>6. RequireInv(c)'
      BY <3>1, <3>2, <3>5 DEF RequireInv, Required, WantNative
    <3>7. QED
      BY <3>3, <3>4, <3>6
  <2>7. QED
    BY <2>1, <2>3, <2>5, <2>6, FrameKeepsIInv
<1>4. QED
    BY <1>1, <1>2, <1>3 DEF StartContext

LEMMA ReuseContextKeepsIInv ==
    ASSUME IInv, NEW c \in Callers, NEW o \in OptionType,
           NEW next \in {"note", "returned"},
           ReuseContext(c, o, next), UNCHANGED <<world, args, jar, tz, opts, warned, calls>>
    PROVE  IInv'
<1> USE DEF world
<1>1. /\ conf' = Overlay(conf, o)
      /\ pc' = [pc EXCEPT ![c] = next]
      /\ result' = [result EXCEPT ![c] =
             [error |-> "none", created |-> FALSE, launched |-> FALSE,
              loaded |-> context = "native"]]
      /\ UNCHANGED <<host, tzdata, TZDIR, ivy, gateway, context, args, jar, tz,
                     opts, warned, calls>>
    BY DEF ReuseContext
<1>2. TypeOK'
  <2>1. conf' \in ConfType
    BY <1>1 DEF IInv, TypeOK, Overlay, ConfType, OptionType
  <2>2. result' \in [Callers -> [error : Errors, created : BOOLEAN,
                               launched : BOOLEAN, loaded : BOOLEAN]]
    BY <1>1 DEF IInv, TypeOK, Errors
  <2>3. pc' \in [Callers -> Resting \cup Running]
    BY <1>1 DEF IInv, TypeOK, Resting, Running
  <2>4. QED
    BY <1>1, <2>1, <2>2, <2>3 DEF IInv, TypeOK
<1>3. JvmInv'
    BY <1>1 DEF IInv, JvmInv, EngineOn, Fits
<1>4. Frame(c)
    BY <1>1 DEF Frame, ZoneReady, IInv, TypeOK
<1>5. (JarInv(c) /\ TzInv(c) /\ RequireInv(c))'
  <2>1. JarInv(c) /\ TzInv(c) /\ RequireInv(c)
    BY DEF IInv
  <2>2. pc'[c] = next /\ ~result'[c].launched /\ ~result'[c].created
    BY <1>1 DEF IInv, TypeOK
  <2>3. JarInv(c)'
    BY <1>1, <2>1, <2>2 DEF JarInv, ArchProblem, Fits
  <2>4. TzInv(c)'
    BY <2>2 DEF TzInv
  <2>5. RequireInv(c)'
    BY <1>1, <2>1, <2>2 DEF RequireInv, Required, WantNative
  <2>6. QED
    BY <2>3, <2>4, <2>5
<1>6. QED
    BY <1>2, <1>3, <1>4, <1>5, FrameKeepsIInv

LEMMA AttachKeepsIInv ==
    ASSUME IInv, NEW c \in Callers, Attach(c)
    PROVE  IInv'
<1>1. NoOptions \in OptionType /\ Fits(NoOptions)
    BY NoOptionsFit
<1>2. ~Required(c) /\ jar[c] = "none"
    BY DEF Attach, IInv, JarInv, RequireInv, Required
<1>3. /\ StartContext(c, NoOptions, "returned") \/ ReuseContext(c, NoOptions, "returned")
      /\ UNCHANGED <<world, args, jar, tz, opts, warned, calls>>
    BY DEF Attach, GetOrCreate
<1>4. CASE StartContext(c, NoOptions, "returned")
    BY <1>1, <1>2, <1>3, <1>4, StartContextKeepsIInv
<1>5. CASE ReuseContext(c, NoOptions, "returned")
    BY <1>1, <1>3, <1>5, ReuseContextKeepsIInv
<1>6. QED
    BY <1>3, <1>4, <1>5

LEMMA CreateKeepsIInv ==
    ASSUME IInv, NEW c \in Callers, Create(c)
    PROVE  IInv'
<1>1. CASE Raise(c, "ValueError")
    BY <1>1, RaiseKeepsIInv DEF Errors
<1>2. ASSUME NEW next \in {"note", "returned"}, GetOrCreate(c, opts[c], next),
             UNCHANGED <<world, args, jar, tz, opts, warned, calls>>
      PROVE  IInv'
  <2>1. opts[c] \in OptionType
    BY DEF IInv, TypeOK
  <2>2. /\ Fits(opts[c])
        /\ jar[c] # "none" => ZoneReady \/ "tz" \in warned[c]
        /\ Required(c) => opts[c].plugin = "gluten" /\ jar[c] # "none"
    BY DEF Create, IInv, JarInv, TzInv, RequireInv
  <2>3. CASE StartContext(c, opts[c], next)
    BY <1>2, <2>1, <2>2, <2>3, StartContextKeepsIInv
  <2>4. CASE ReuseContext(c, opts[c], next)
    BY <1>2, <2>1, <2>4, ReuseContextKeepsIInv
  <2>5. QED
    BY <1>2, <2>3, <2>4 DEF GetOrCreate
<1>3. CASE /\ GetOrCreate(c, opts[c], IF jar[c] = "none" THEN "returned" ELSE "note")
           /\ UNCHANGED <<world, args, jar, tz, opts, warned, calls>>
  <2>1. CASE jar[c] = "none"
    BY <1>2, <1>3, <2>1
  <2>2. CASE jar[c] # "none"
    BY <1>2, <1>3, <2>2
  <2>3. QED
    BY <2>1, <2>2
<1>4. QED
    BY <1>1, <1>3 DEF Create

LEMMA StepKeepsIInv ==
    ASSUME IInv, NEW c \in Callers, Step(c)
    PROVE  IInv'
BY CheckContextKeepsIInv, AttachKeepsIInv, ResolveJarKeepsIInv, CheckJavaKeepsIInv,
   EnsureTimezonesKeepsIInv, AddJarsKeepsIInv, CreateKeepsIInv, NoteDriverHeapKeepsIInv
DEF Step

(* What a step of thread c leaves alone.                                   *)
Apart(c) ==
    /\ host' = host /\ args' = args
    /\ pc[c] \in Running
    /\ gateway.up => gateway' = gateway
    /\ \A d \in Callers \ {c} :
           /\ pc'[d] = pc[d] /\ jar'[d] = jar[d] /\ opts'[d] = opts[d]
           /\ warned'[d] = warned[d] /\ result'[d] = result[d]

LEMMA StepIsApart ==
    ASSUME TypeOK, NEW c \in Callers, Step(c)
    PROVE  Apart(c)
<1> USE DEF world, spark, local, Goto, Raise, Fail, Apart, Running
<1>1. CASE CheckContext(c)
    BY <1>1 DEF CheckContext, TypeOK
<1>2. CASE Attach(c)
    BY <1>2 DEF Attach, GetOrCreate, StartContext, NewContext, JvmFor, ReuseContext, TypeOK
<1>3. CASE ResolveJar(c)
    BY <1>3 DEF ResolveJar, Degrade, GoPlain, TypeOK
<1>4. CASE CheckJava(c)
    BY <1>4 DEF CheckJava, TypeOK
<1>5. CASE EnsureTimezones(c)
    BY <1>5 DEF EnsureTimezones, TypeOK
<1>6. CASE AddJars(c)
    BY <1>6 DEF AddJars, TypeOK
<1>7. CASE Create(c)
    BY <1>7 DEF Create, GetOrCreate, StartContext, NewContext, JvmFor, ReuseContext, TypeOK
<1>8. CASE NoteDriverHeap(c)
    BY <1>8 DEF NoteDriverHeap, TypeOK
<1>9. QED
    BY <1>1, <1>2, <1>3, <1>4, <1>5, <1>6, <1>7, <1>8 DEF Step

----------------------------------------------------------------------------
(* Code outside the calls.                                                 *)

LEMMA OtherSessionKeepsIInv ==
    ASSUME IInv, OtherSession
    PROVE  IInv'
<1>1. /\ NewContext(NoOptions)
      /\ UNCHANGED <<world, args, jar, tz, opts, result, pc, warned, calls>>
    BY DEF OtherSession, local
<1>2. /\ gateway' \in JvmType
      /\ gateway.up => gateway' = gateway
      /\ ivy' \in SUBSET Coordinates
      /\ context' \in {"none", "plain", "native"} /\ conf' \in ConfType
      /\ JvmInv'
    BY <1>1, NoOptionsFit, NewContextFacts
<1>3. TypeOK'
    BY <1>1, <1>2 DEF IInv, TypeOK, world
<1>4. QED
    BY <1>1, <1>2, <1>3, OutsideKeepsIInv DEF local, world

LEMMA StopKeepsIInv ==
    ASSUME IInv, Stop
    PROVE  IInv'
<1> USE DEF world, local
<1>1. TypeOK'
    BY DEF IInv, TypeOK, Stop, NoConf, ConfType
<1>2. JvmInv'
    BY DEF IInv, JvmInv, Stop, EngineOn, Fits
<1>3. QED
    BY <1>1, <1>2, OutsideKeepsIInv DEF Stop

LEMMA SetGlutenKeepsIInv ==
    ASSUME IInv, NEW value \in {"true", "false"}, SetGluten(value)
    PROVE  IInv'
<1> USE DEF world, local
<1>1. TypeOK'
    BY DEF IInv, TypeOK, SetGluten, ConfType
<1>2. JvmInv'
    BY DEF IInv, JvmInv, SetGluten, EngineOn, Fits
<1>3. QED
    BY <1>1, <1>2, OutsideKeepsIInv DEF SetGluten

LEMMA InstallTzdataKeepsIInv ==
    ASSUME IInv, InstallTzdata
    PROVE  IInv'
<1> USE DEF spark, local
<1>1. TypeOK'
    BY DEF IInv, TypeOK, InstallTzdata
<1>2. JvmInv'
    BY DEF IInv, JvmInv, InstallTzdata, EngineOn, Fits
<1>3. QED
    BY <1>1, <1>2, OutsideKeepsIInv DEF InstallTzdata

LEMMA StutterKeepsIInv ==
    ASSUME IInv, UNCHANGED vars
    PROVE  IInv'
<1> USE DEF vars, world, spark, local
<1>1. TypeOK' /\ JvmInv'
    BY DEF IInv, TypeOK, JvmInv, EngineOn, Fits
<1>2. QED
    BY <1>1, OutsideKeepsIInv

(* The invariant is inductive.                                             *)
LEMMA NextKeepsIInv == IInv /\ [Next]_vars => IInv'
BY EnterKeepsIInv, StepKeepsIInv, OtherSessionKeepsIInv, StopKeepsIInv,
   SetGlutenKeepsIInv, InstallTzdataKeepsIInv, StutterKeepsIInv
DEF Next

----------------------------------------------------------------------------
(* The results.                                                            *)

(* IInv holds in every state the process can reach.                        *)
THEOREM Invariance == Spec => []IInv
<1>1. Init => IInv
    BY InitIInv
<1>2. IInv /\ [Next]_vars => IInv'
    BY NextKeepsIInv
<1>3. QED
    BY <1>1, <1>2, PTL DEF Spec

(* Every variable keeps its type, for any set of threads and hosts.        *)
THEOREM TypeCorrect == Spec => []TypeOK
<1>1. IInv => TypeOK
    BY DEF IInv
<1>2. QED
    BY <1>1, Invariance, PTL

(* No native session ever runs in a JVM without a bundle on its classpath, *)
(* nor, unless the classpath was given as a whole, in one with a bundle    *)
(* for another architecture (session.py:174-182).                          *)
THEOREM LoadedEngineFits == Spec => []LoadedEngineFitsHost
<1>1. IInv => LoadedEngineFitsHost
    BY DEF IInv, TypeOK, JvmInv, Fits, LoadedEngineFitsHost
<1>2. QED
    BY <1>1, Invariance, PTL

(* get_session never launches a JVM for a native session that cannot find  *)
(* a time zone database without warning its caller (session.py:195-204).   *)
THEOREM TimezonesReach == Spec => []TimezonesReachJvm
<1>1. IInv => TimezonesReachJvm
    BY DEF IInv, TzInv, TimezonesReachJvm, Returned
<1>2. QED
    BY <1>1, Invariance, PTL

(* A session created for a call with require_native=True that met no live  *)
(* context has the engine, and a JVM the call launched has time zones,     *)
(* whatever other threads did meanwhile (session.py:146-204, 296).         *)
THEOREM RequiredLoads == Spec => []RequiredMeansLoaded
<1>1. IInv => RequiredMeansLoaded
  <2> SUFFICES ASSUME IInv, NEW c \in Callers,
                      Returned(c), result[c].created, "exists" \notin warned[c],
                      WantNative(c), args[c].require, args[c].override # "noPlugin"
               PROVE  result[c].loaded /\ (result[c].launched => JvmHasTimezones)
      BY DEF RequiredMeansLoaded
  <2>1. TzInv(c) /\ RequireInv(c)
      BY DEF IInv
  <2>2. result[c].loaded /\ jar[c] # "none"
      BY <2>1 DEF RequireInv, Required, Returned
  <2>3. QED
      BY <2>1, <2>2 DEF TzInv, RequireInv, Returned
<1>2. QED
    BY <1>1, Invariance, PTL

(* A directory that the operator named in TZDIR is the one every JVM of    *)
(* the process is launched with (preflight.py:137-139).                    *)
THEOREM OperatorTzdirReaches == Spec => []OperatorTzdirReachesJvm
<1>1. IInv => OperatorTzdirReachesJvm
    BY DEF IInv, JvmInv, OperatorTzdirReachesJvm
<1>2. QED
    BY <1>1, Invariance, PTL

----------------------------------------------------------------------------
(* What a call has settled by the time it creates a session.               *)

Loud == {"exists", "fallback"}

(* What a call may ask a new session for.                                  *)
Chosen(c, o) ==
    /\ Wish(c).engine = "never" => o.plugin = "none" \/ "exists" \in warned[c]
    /\ IF o.plugin = "gluten" THEN Wish(c).engine = "yes"
       ELSE Wish(c).engine = "yes" => warned[c] \cap Loud # {}

(* What a session that a call created is: with the engine because it was   *)
(* wished for, or because the settings of the JVM's launch name it and the *)
(* call did not take it out, having met a session or not been told to;     *)
(* without it because that is what was wished for, or loudly.              *)
AsWished(c) ==
    IF result[c].loaded
    THEN \/ Wish(c).engine = "yes"
         \/ /\ gateway.plugin = "gluten"
            /\ Wish(c).engine = "no" \/ "exists" \in warned[c]
    ELSE Wish(c).engine = "yes" => warned[c] \cap {"exists", "fallback"} # {}

SettledCall(c) ==
    /\ pc[c] = "attach" => "exists" \in warned[c]
    /\ pc[c] \in {"java", "tz", "jars"} => WantNative(c)
    /\ pc[c] = "create" => Chosen(c, opts[c])
    /\ (pc[c] \in {"note", "returned"} /\ result[c].created) =>
           gateway.up /\ AsWished(c)

SettledInv == TypeOK /\ \A c \in Callers : SettledCall(c)

LEMMA WishStays ==
    ASSUME host' = host, NEW c \in Callers, args'[c] = args[c]
    PROVE  Wish(c)' = Wish(c) /\ WantNative(c)' = WantNative(c)
BY DEF Wish, WantNative

LEMMA CallUnmoved ==
    ASSUME NEW c \in Callers, SettledCall(c), host' = host, args'[c] = args[c], pc'[c] = pc[c],
           opts'[c] = opts[c], warned'[c] = warned[c], result'[c] = result[c],
           gateway.up => gateway' = gateway
    PROVE  SettledCall(c)'
BY WishStays DEF SettledCall, Chosen, AsWished

LEMMA CreateSettled ==
    ASSUME SettledInv, NEW c \in Callers, NEW o \in OptionType, NEW next \in {"note", "returned"},
           GetOrCreate(c, o, next), UNCHANGED <<host, args, warned>>, Chosen(c, o)
    PROVE  SettledCall(c)'
<1>1. Wish(c)' = Wish(c)
    BY WishStays
<1>2. CASE StartContext(c, o, next)
  <2>1. CASE pc'[c] = "raised"
    BY <2>1 DEF SettledCall
  <2>2. CASE /\ NewContext(o) /\ pc' = [pc EXCEPT ![c] = next]
             /\ result' = [result EXCEPT ![c] =
                   [error |-> "none", created |-> TRUE,
                    launched |-> ~gateway.up, loaded |-> Loads(o)]]
    <3>1. /\ pc'[c] = next /\ result'[c].loaded = Loads(o)
          /\ gateway' = JvmFor(o)
      BY <2>2 DEF SettledInv, TypeOK, NewContext
    <3>2. gateway'.up
      BY <3>1 DEF JvmFor, Launch
    <3>3. Loads(o) <=> (o.plugin = "gluten" \/ (o.plugin = "unset" /\ gateway'.plugin = "gluten"))
      BY <3>1 DEF Loads, Settings, Overlay, OptionType
    <3>4. Wish(c).engine \in {"yes", "no", "never"}
      BY DEF Wish
    <3>5. AsWished(c)'
      BY <1>1, <3>1, <3>3, <3>4 DEF AsWished, Chosen, Loud
    <3>6. QED
      BY <3>1, <3>2, <3>5 DEF SettledCall
  <2>3. QED
    BY <1>2, <2>1, <2>2 DEF StartContext, Fail, SettledInv, TypeOK
<1>3. CASE ReuseContext(c, o, next)
  <2>1. pc'[c] = next /\ ~result'[c].created
    BY <1>3 DEF ReuseContext, SettledInv, TypeOK
  <2>2. QED
    BY <2>1 DEF SettledCall
<1>4. QED
    BY <1>2, <1>3 DEF GetOrCreate

LEMMA RaiseSettled ==
    ASSUME TypeOK, NEW c \in Callers, NEW why, Raise(c, why)
    PROVE  SettledCall(c)'
<1>1. pc'[c] = "raised"
    BY DEF TypeOK, Raise, Fail
<1>2. QED
    BY <1>1 DEF SettledCall

LEMMA ResolveJarSettled ==
    ASSUME SettledInv, NEW c \in Callers, ResolveJar(c)
    PROVE  SettledCall(c)'
<1> USE DEF Goto, world
<1>1. TypeOK
    BY DEF SettledInv
<1>2. ASSUME NEW notes, GoPlain(c, notes), WantNative(c) => "fallback" \in notes
      PROVE  SettledCall(c)'
  <2>1. /\ pc'[c] = "create" /\ opts'[c] = PlainOptions(c)
        /\ warned'[c] = warned[c] \cup (notes \cup IcebergNote(c))
        /\ Wish(c)' = Wish(c)
    BY <1>1, <1>2, WishStays DEF GoPlain, TypeOK
  <2>2. /\ PlainOptions(c).plugin # "gluten"
        /\ Wish(c).engine = "yes" => WantNative(c)
        /\ Wish(c).engine = "never" => PlainOptions(c).plugin = "none"
    BY DEF PlainOptions, Overridden, Wish
  <2>3. QED
    BY <1>2, <2>1, <2>2 DEF SettledCall, Chosen, Loud
<1>3. CASE \E why : Raise(c, why)
    BY <1>1, <1>3, RaiseSettled
<1>4. CASE WantNative(c) /\ Goto(c, "java", IcebergNote(c)) /\ UNCHANGED <<world, args>>
  <2>1. pc'[c] = "java" /\ WantNative(c)'
    BY <1>1, <1>4, WishStays DEF TypeOK
  <2>2. QED
    BY <2>1 DEF SettledCall
<1>5. QED
  <2>1. Degrade(c) => SettledCall(c)'
    BY <1>2, <1>3 DEF Degrade
  <2>2. ~WantNative(c) /\ GoPlain(c, {}) => SettledCall(c)'
    BY <1>2
  <2>3. QED
    BY <1>3, <1>4, <2>1, <2>2 DEF ResolveJar

(* A step along the native path.                                           *)
LEMMA NativePathSettled ==
    ASSUME SettledInv, NEW c \in Callers, pc[c] \in {"java", "tz"}, NEW next \in {"tz", "jars"},
           NEW notes, Goto(c, next, notes), UNCHANGED <<host, args>>
    PROVE  SettledCall(c)'
<1>1. pc'[c] = next /\ WantNative(c)'
    BY WishStays DEF SettledInv, SettledCall, TypeOK, Goto
<1>2. QED
    BY <1>1 DEF SettledCall

LEMMA StepSettled ==
    ASSUME SettledInv, NEW c \in Callers, Step(c)
    PROVE  SettledCall(c)'
<1> USE DEF Goto, world
<1>1. TypeOK /\ SettledCall(c)
    BY DEF SettledInv
<1>2. CASE CheckContext(c)
  <2>1. \/ pc'[c] = "attach" /\ "exists" \in warned'[c]
        \/ pc'[c] = "resolve"
    BY <1>1, <1>2 DEF CheckContext, TypeOK
  <2>2. QED
    BY <2>1 DEF SettledCall
<1>3. CASE Attach(c)
  <2>1. NoOptions \in OptionType /\ NoOptions.plugin # "gluten"
    BY DEF NoOptions, OptionType
  <2>2. Chosen(c, NoOptions)
    BY <1>1, <1>3, <2>1 DEF Attach, SettledCall, Loud, Chosen
  <2>3. QED
    BY <1>3, <2>1, <2>2, CreateSettled DEF Attach, world
<1>4. CASE ResolveJar(c)
    BY <1>4, ResolveJarSettled
<1>5. CASE CheckJava(c)
    BY <1>1, <1>5, RaiseSettled, NativePathSettled DEF CheckJava, local
<1>6. CASE EnsureTimezones(c)
    BY <1>1, <1>6, RaiseSettled, NativePathSettled DEF EnsureTimezones
<1>7. CASE AddJars(c)
  <2>1. CASE Raise(c, "Unavailable")
    BY <1>1, <2>1, RaiseSettled
  <2>2. CASE opts' = [opts EXCEPT ![c] = NativeOptions(c)] /\ Goto(c, "create", SplitNote(c))
             /\ UNCHANGED <<world, args>>
    <3>1. pc'[c] = "create" /\ opts'[c] = NativeOptions(c) /\ Wish(c)' = Wish(c)
      BY <1>1, <2>2, WishStays DEF TypeOK
    <3>2. NativeOptions(c).plugin = IF args[c].override = "noPlugin" THEN "none" ELSE "gluten"
      BY DEF NativeOptions, Overridden
    <3>3. Wish(c).engine = IF args[c].override = "noPlugin" THEN "never" ELSE "yes"
      BY <1>1, <1>7 DEF AddJars, SettledCall, Wish
    <3>4. QED
      BY <3>1, <3>2, <3>3 DEF SettledCall, Chosen
  <2>3. QED
    BY <1>7, <2>1, <2>2 DEF AddJars
<1>8. CASE Create(c)
  <2>1. opts[c] \in OptionType
    BY <1>1 DEF TypeOK
  <2>2. Chosen(c, opts[c])
    BY <1>1, <1>8 DEF Create, SettledCall
  <2>3. QED
    BY <1>1, <1>8, <2>1, <2>2, RaiseSettled, CreateSettled DEF Create
<1>9. CASE NoteDriverHeap(c)
  <2>1. /\ pc[c] = "note" /\ pc'[c] = "returned" /\ result' = result /\ Wish(c)' = Wish(c)
        /\ warned[c] \subseteq warned'[c] /\ gateway' = gateway
    BY <1>1, <1>9, WishStays DEF NoteDriverHeap, TypeOK, local, spark
  <2>2. QED
    BY <1>1, <2>1 DEF SettledCall, AsWished
<1>10. QED
    BY <1>2, <1>3, <1>4, <1>5, <1>6, <1>7, <1>8, <1>9 DEF Step

LEMMA NextSettled == SettledInv /\ TypeOK' /\ [Next]_vars => SettledInv'
<1> SUFFICES ASSUME SettledInv, TypeOK', [Next]_vars, NEW d \in Callers
             PROVE  SettledCall(d)'
    BY DEF SettledInv
<1>1. TypeOK /\ SettledCall(d)
    BY DEF SettledInv
<1>2. ASSUME NEW c \in Callers, Step(c) PROVE SettledCall(d)'
    BY <1>1, <1>2, StepSettled, StepIsApart, CallUnmoved DEF Apart
<1>3. ASSUME NEW c \in Callers, NEW r \in Requests, Enter(c, r) PROVE SettledCall(d)'
  <2>1. CASE d = c
    <3>1. pc'[d] = "check"
      BY <1>1, <1>3, <2>1 DEF Enter, TypeOK
    <3>2. QED
      BY <3>1 DEF SettledCall
  <2>2. CASE d # c
    BY <1>1, <1>3, <2>2, CallUnmoved DEF Enter, TypeOK, world, spark
  <2>3. QED
    BY <2>1, <2>2
<1>4. CASE UNCHANGED <<host, local, pc, warned>> /\ (gateway.up => gateway' = gateway)
    BY <1>1, <1>4, CallUnmoved DEF local
<1>5. QED
    BY <1>2, <1>3, <1>4
    DEF Next, vars, world, spark, OtherSession, NewContext, JvmFor, Stop, SetGluten, InstallTzdata

(* Whatever other threads do, a session that a call created itself is as   *)
(* AsWished says.  So the silent fallback of FallbackIsNeverSilent is      *)
(* always a session that somebody else built since line 122, and the       *)
(* engine in a session that did not ask for it, as against PlainMeansPlain,*)
(* comes from the settings of the JVM's launch (session.py:122-296).       *)
THEOREM CreatedAsWished ==
    Spec => [](\A c \in Callers : (Returned(c) /\ result[c].created) => AsWished(c))
<1>1. Init => SettledInv
  <2>1. ASSUME Init PROVE \A c \in Callers : pc[c] = "idle"
    BY <2>1 DEF Init
  <2>2. QED
    BY <2>1, InitIInv DEF SettledInv, SettledCall, IInv
<1>2. IInv => TypeOK
    BY DEF IInv
<1>3. SettledInv => \A c \in Callers : (Returned(c) /\ result[c].created) => AsWished(c)
    BY DEF SettledInv, SettledCall, Returned
<1>4. QED
    BY <1>1, <1>2, <1>3, NextSettled, Invariance, PTL DEF Spec

=============================================================================
