-------------------------- MODULE SessionJvmProofs --------------------------
(***************************************************************************)
(* Proofs about GlutenSession: the JVM that a call launches has the jars   *)
(* and the heap the call asked for, whether or not other code of the       *)
(* process runs during the call.                                           *)
(***************************************************************************)
EXTENDS GlutenSessionProofs

(* The jars a call asked for are on a classpath.                           *)
Asked(c, cp) ==
    /\ args[c].extraJars # "none" => "user" \in cp
    /\ (args[c].iceberg /\ "iceberg" \notin warned[c]) => "iceberg" \in cp
    /\ (args[c].resolvePackages /\ host.localFormat = "present") => "localFormat" \in cp
    /\ (args[c].resolvePackages /\ "format" \in host.packages /\ "split" \notin warned[c])
       => host.packages \subseteq cp

JarsCall(c) ==
    /\ pc[c] \in {"java", "tz", "jars"} /\ args[c].iceberg
       => host.iceberg \/ "iceberg" \in warned[c]
    /\ pc[c] = "create" /\ jar[c] # "none" /\ args[c].confPath = "unset"
       => Asked(c, opts[c].cp)
    /\ (/\ pc[c] \in {"note", "returned"} /\ jar[c] # "none" /\ result[c].launched
        /\ args[c].confPath = "unset" /\ host.line.path = "none")
       => Asked(c, gateway.cp)

(* Did anybody but get_session size the JVM?                               *)
SizedByOthers(c) == ~result[c].launched \/ args[c].confHeap # 0 \/ host.line.heap # 0

HeapCall(c) ==
    /\ pc[c] \in {"check", "attach", "resolve"} => jar[c] = "none"
    /\ pc[c] \in Running => "heap" \notin warned[c]
    /\ pc[c] = "create" /\ jar[c] # "none" /\ args[c].confHeap = 0
       => opts[c].heap = WantedHeap(c)
    /\ pc[c] = "note" /\ ~SizedByOthers(c) => WantedHeap(c) \in {0, gateway.heap}
    /\ result[c].created => gateway.up
    /\ pc[c] = "returned" /\ result[c].created /\ jar[c] # "none"
       => \/ 4 * gateway.heap >= 3 * WantedHeap(c) /\ "heap" \notin warned[c]
          \/ /\ 4 * gateway.heap < 3 * WantedHeap(c)
             /\ "heap" \in warned[c] /\ SizedByOthers(c)

JvmCalls == IInv /\ \A c \in Callers : JarsCall(c) /\ HeapCall(c)

----------------------------------------------------------------------------
LEMMA InitJvmCalls == Init => JvmCalls
<1> SUFFICES ASSUME Init PROVE JvmCalls
    OBVIOUS
<1>1. \A c \in Callers : JarsCall(c) /\ HeapCall(c)
    BY DEF Init, JarsCall, HeapCall, NoResult, Running
<1>2. QED
    BY <1>1, InitIInv DEF JvmCalls

(* A JVM that runs is never launched again, nor changed.                   *)
LEMMA JvmStays ==
    ASSUME [Next]_vars, gateway.up
    PROVE  gateway' = gateway
<1> USE DEF world, spark, local
<1>1. ASSUME NEW c \in Callers, Step(c) PROVE gateway' = gateway
    BY <1>1 DEF Step, CheckContext, Attach, ResolveJar, CheckJava, EnsureTimezones, AddJars, Create,
       NoteDriverHeap, Degrade, GoPlain, Raise, GetOrCreate, StartContext, ReuseContext,
       NewContext, JvmFor
<1>2. QED
    BY <1>1 DEF Next, vars, Enter, OtherSession, NewContext, JvmFor, Stop, SetGluten, InstallTzdata

(* The part of a thread whose call does not step.                          *)
LEMMA OthersKeepCall ==
    ASSUME JvmCalls, NEW d \in Callers, [Next]_vars, host' = host,
           pc'[d] = pc[d], args'[d] = args[d], jar'[d] = jar[d], opts'[d] = opts[d],
           warned'[d] = warned[d], result'[d] = result[d]
    PROVE  (JarsCall(d) /\ HeapCall(d))'
<1>1. JarsCall(d) /\ HeapCall(d) /\ TzInv(d) /\ TypeOK
    BY DEF JvmCalls, IInv
<1>2. /\ WantedHeap(d)' = WantedHeap(d)
      /\ \A cp : Asked(d, cp)' <=> Asked(d, cp)
    BY DEF WantedHeap, Asked
<1>6. SizedByOthers(d)' <=> SizedByOthers(d)
    BY DEF SizedByOthers
<1>3. (result[d].created \/ result[d].launched) => gateway' = gateway /\ gateway.up
    BY <1>1, JvmStays DEF HeapCall, TzInv
<1>4. JarsCall(d)'
    BY <1>1, <1>2, <1>3 DEF JarsCall, Asked
<1>5. HeapCall(d)'
    BY <1>1, <1>2, <1>3, <1>6 DEF HeapCall, SizedByOthers
<1>7. QED
    BY <1>4, <1>5

----------------------------------------------------------------------------
(* Each step of a call.                                                    *)

LEMMA RaiseCall ==
    ASSUME JvmCalls, NEW c \in Callers, NEW why, Raise(c, why)
    PROVE  (JarsCall(c) /\ HeapCall(c))'
<1>1. JarsCall(c) /\ HeapCall(c) /\ TypeOK
    BY DEF JvmCalls, IInv
<1>2. pc'[c] = "raised" /\ result'[c].created = result[c].created /\ gateway' = gateway
    BY <1>1 DEF Raise, Fail, TypeOK, spark
<1>3. QED
    BY <1>1, <1>2 DEF JarsCall, HeapCall, Running

LEMMA CheckContextCall ==
    ASSUME JvmCalls, NEW c \in Callers, CheckContext(c)
    PROVE  (JarsCall(c) /\ HeapCall(c))'
<1>1. HeapCall(c) /\ TypeOK /\ pc[c] = "check"
    BY DEF JvmCalls, IInv, CheckContext
<1>2. /\ pc'[c] \in {"attach", "resolve"} /\ UNCHANGED <<jar, gateway, result>>
      /\ "heap" \notin warned'[c]
    BY <1>1 DEF CheckContext, Goto, TypeOK, HeapCall, Running, local, spark
<1>3. QED
    BY <1>1, <1>2 DEF JarsCall, HeapCall

LEMMA PlainCall ==
    ASSUME JvmCalls, NEW c \in Callers, NEW notes \in {{}, {"fallback"}},
           pc[c] = "resolve", GoPlain(c, notes)
    PROVE  (JarsCall(c) /\ HeapCall(c))'
<1>1. HeapCall(c) /\ TypeOK
    BY DEF JvmCalls, IInv
<1>2. /\ pc'[c] = "create" /\ opts'[c] = PlainOptions(c)
      /\ warned'[c] = warned[c] \cup notes \cup IcebergNote(c)
      /\ UNCHANGED <<jar, gateway, result>>
    BY <1>1 DEF GoPlain, Goto, TypeOK, spark
<1>3. "heap" \notin notes \cup IcebergNote(c) /\ jar[c] = "none"
    BY <1>1 DEF IcebergNote, HeapCall
<1>4. JarsCall(c)'
    BY <1>2, <1>3 DEF JarsCall
<1>5. HeapCall(c)'
    BY <1>1, <1>2, <1>3 DEF HeapCall, Running
<1>6. QED
    BY <1>4, <1>5

LEMMA ResolveJarCall ==
    ASSUME JvmCalls, NEW c \in Callers, ResolveJar(c)
    PROVE  (JarsCall(c) /\ HeapCall(c))'
<1>1. HeapCall(c) /\ TypeOK /\ pc[c] = "resolve"
    BY DEF JvmCalls, IInv, ResolveJar
<1>2. CASE \E why \in Errors : Raise(c, why)
    BY <1>2, RaiseCall
<1>3. CASE GoPlain(c, {}) \/ GoPlain(c, {"fallback"})
    BY <1>1, <1>3, PlainCall
<1>4. CASE /\ jar' = [jar EXCEPT ![c] = Resolved(c)]
           /\ Goto(c, "java", IcebergNote(c))
           /\ UNCHANGED <<world, spark, args, tz, opts, result, calls>>
  <2>1. /\ pc'[c] = "java" /\ warned'[c] = warned[c] \cup IcebergNote(c)
        /\ UNCHANGED <<host, args, gateway, result>>
    BY <1>1, <1>4 DEF Goto, TypeOK, world, spark
  <2>2. "heap" \notin IcebergNote(c)
    BY DEF IcebergNote
  <2>3. JarsCall(c)'
    BY <2>1 DEF JarsCall, IcebergNote
  <2>4. HeapCall(c)'
    BY <1>1, <2>1, <2>2 DEF HeapCall, Running
  <2>5. QED
    BY <2>3, <2>4
<1>5. QED
    BY <1>2, <1>3, <1>4 DEF ResolveJar, Degrade, Errors

(* Steps on the native path before the options are settled.                *)
LEMMA NativePathCall ==
    ASSUME JvmCalls, NEW c \in Callers, NEW next \in {"tz", "jars"}, NEW notes,
           pc[c] \in {"java", "tz"}, Goto(c, next, notes), "heap" \notin notes,
           UNCHANGED <<host, spark, args, jar, opts, result>>
    PROVE  (JarsCall(c) /\ HeapCall(c))'
<1>1. JarsCall(c) /\ HeapCall(c) /\ TypeOK
    BY DEF JvmCalls, IInv
<1>2. pc'[c] = next /\ warned'[c] = warned[c] \cup notes
    BY <1>1 DEF Goto, TypeOK
<1>3. JarsCall(c)'
    BY <1>1, <1>2 DEF JarsCall
<1>4. HeapCall(c)'
    BY <1>1, <1>2 DEF HeapCall, Running, spark
<1>5. QED
    BY <1>3, <1>4

LEMMA CheckJavaCall ==
    ASSUME JvmCalls, NEW c \in Callers, CheckJava(c)
    PROVE  (JarsCall(c) /\ HeapCall(c))'
<1>1. "heap" \notin JavaNote
    BY DEF JavaNote
<1>2. QED
    BY <1>1, RaiseCall, NativePathCall DEF CheckJava, world, local

LEMMA EnsureTimezonesCall ==
    ASSUME JvmCalls, NEW c \in Callers, EnsureTimezones(c)
    PROVE  (JarsCall(c) /\ HeapCall(c))'
<1> DEFINE notes == IF TzOutcome = "missing" THEN {"tz"} ELSE {}
<1>1. CASE Raise(c, "Unavailable")
    BY <1>1, RaiseCall
<1>2. CASE Goto(c, "jars", notes) /\ UNCHANGED <<host, spark, args, jar, opts, result>>
    BY <1>2, NativePathCall DEF EnsureTimezones
<1>3. QED
    BY <1>1, <1>2 DEF EnsureTimezones

LEMMA AddJarsCall ==
    ASSUME JvmCalls, NEW c \in Callers, AddJars(c)
    PROVE  (JarsCall(c) /\ HeapCall(c))'
<1>1. JarsCall(c) /\ HeapCall(c) /\ TypeOK /\ pc[c] = "jars"
    BY DEF JvmCalls, IInv, AddJars
<1>2. CASE args[c].extraJars = "absent"
    BY <1>2, RaiseCall DEF AddJars
<1>3. CASE args[c].extraJars # "absent"
  <2>1. /\ pc'[c] = "create" /\ opts'[c] = NativeOptions(c)
        /\ warned'[c] = warned[c] \cup SplitNote(c)
        /\ UNCHANGED <<host, args, jar, gateway, result>>
    BY <1>1, <1>3 DEF AddJars, Goto, TypeOK, world, spark
  <2>2. /\ args[c].confPath = "unset" => NativeOptions(c).cp = Classpath(c)
        /\ args[c].confHeap = 0 => NativeOptions(c).heap = WantedHeap(c)
    BY DEF NativeOptions, Overridden
  <2>3. "heap" \notin SplitNote(c)
    BY DEF SplitNote
  <2>4. PICK cp : cp = Classpath(c)
    OBVIOUS
  <2>5. JarsCall(c)'
    <3>1. args[c].extraJars # "none" => "user" \in cp
      <4>1. args[c] \in RequestType
        BY <1>1 DEF TypeOK
      <4>2. args[c].extraJars \in {"none", "present", "absent"}
        BY <4>1 DEF RequestType
      <4>3. QED
        BY <1>3, <2>4, <4>2 DEF Classpath, UserJars
    <3>2. (args[c].iceberg /\ "iceberg" \notin warned[c]) => "iceberg" \in cp
      BY <1>1, <2>4 DEF JarsCall, Classpath, IcebergRuntime
    <3>3. (args[c].resolvePackages /\ host.localFormat = "present") => "localFormat" \in cp
      BY <2>4 DEF Classpath, Promoted, Promotes, SplitSensitive
    <3>4. (args[c].resolvePackages /\ "format" \in host.packages /\ "split" \notin SplitNote(c))
          => host.packages \subseteq cp
      BY <2>4 DEF SplitNote, Unresolved, Classpath, Promoted, Promotes, SplitSensitive
    <3>5. Asked(c, cp)'
      BY <2>1, <3>1, <3>2, <3>3, <3>4 DEF Asked
    <3>6. QED
      BY <2>1, <2>2, <2>4, <3>5 DEF JarsCall, Asked
  <2>6. HeapCall(c)'
    BY <1>1, <2>1, <2>2, <2>3 DEF HeapCall, Running, WantedHeap
  <2>7. QED
    BY <2>5, <2>6
<1>4. QED
    BY <1>2, <1>3

(* builder.getOrCreate with the options of c, or with none.                *)
LEMMA StartContextCall ==
    ASSUME JvmCalls, NEW c \in Callers, NEW o \in OptionType, NEW next \in {"note", "returned"},
           StartContext(c, o, next), UNCHANGED <<world, args, jar, tz, opts, warned, calls>>,
           pc[c] \in Running,
           (jar[c] # "none" /\ args[c].confPath = "unset") => Asked(c, o.cp),
           (jar[c] # "none" /\ args[c].confHeap = 0) => o.heap = WantedHeap(c),
           next = "note" <=> jar[c] # "none"
    PROVE  (JarsCall(c) /\ HeapCall(c))'
<1> USE DEF world, spark
<1>1. JarsCall(c) /\ HeapCall(c) /\ TypeOK
    BY DEF JvmCalls, IInv
<1>2. CASE /\ pc'[c] = "raised" /\ result'[c].created = result[c].created
           /\ gateway.up => gateway' = gateway
    BY <1>1, <1>2 DEF JarsCall, HeapCall, Running
<1>3. CASE /\ NewContext(o) /\ Starts(o)
           /\ pc' = [pc EXCEPT ![c] = next]
           /\ result' = [result EXCEPT ![c] =
                  [error |-> "none", created |-> TRUE,
                   launched |-> ~gateway.up, loaded |-> Loads(o)]]
  <2>1. pc'[c] = next /\ result'[c].launched = ~gateway.up
    BY <1>1, <1>3 DEF TypeOK
  <2>2. /\ gateway'.up
        /\ ~gateway.up =>
               /\ host.line.path = "none" => gateway'.cp = o.cp
               /\ host.line.heap = 0 /\ o.heap # 0 => gateway'.heap = o.heap
    BY <1>1, <1>3 DEF NewContext, JvmFor, Launch
  <2>3. /\ WantedHeap(c)' = WantedHeap(c)
        /\ Asked(c, o.cp)' <=> Asked(c, o.cp)
    BY DEF WantedHeap, Asked
  <2>4. JarsCall(c)'
    BY <2>1, <2>2, <2>3 DEF JarsCall
  <2>5. HeapCall(c)'
    BY <1>1, <2>1, <2>2, <2>3 DEF HeapCall, SizedByOthers, Running
  <2>6. QED
    BY <2>4, <2>5
<1>4. QED
  <2>1. Fail(c, "GatewayExited") \/ Fail(c, "PluginNotFound")
        => pc'[c] = "raised" /\ result'[c].created = result[c].created
    BY <1>1 DEF Fail, TypeOK
  <2>2. QED
    BY <1>2, <1>3, <2>1 DEF StartContext, NewContext, JvmFor

LEMMA ReuseContextCall ==
    ASSUME JvmCalls, NEW c \in Callers, NEW o, NEW next \in {"note", "returned"},
           ReuseContext(c, o, next), UNCHANGED <<world, args, jar, tz, opts, warned, calls>>,
           pc[c] \in Running
    PROVE  (JarsCall(c) /\ HeapCall(c))'
<1>1. HeapCall(c) /\ TypeOK
    BY DEF JvmCalls, IInv
<1>2. pc'[c] = next /\ ~result'[c].created /\ ~result'[c].launched
    BY <1>1 DEF ReuseContext, TypeOK
<1>3. JarsCall(c)'
    BY <1>2 DEF JarsCall
<1>4. HeapCall(c)'
    BY <1>1, <1>2 DEF HeapCall, SizedByOthers, Running
<1>5. QED
    BY <1>3, <1>4

LEMMA AttachCall ==
    ASSUME JvmCalls, NEW c \in Callers, Attach(c)
    PROVE  (JarsCall(c) /\ HeapCall(c))'
<1>1. pc[c] \in Running /\ jar[c] = "none"
    BY DEF Attach, Running, JvmCalls, HeapCall
<1>2. NoOptions \in OptionType
    BY NoOptionsFit
<1>3. CASE StartContext(c, NoOptions, "returned")
    BY <1>1, <1>2, <1>3, StartContextCall DEF Attach
<1>4. CASE ReuseContext(c, NoOptions, "returned")
    BY <1>1, <1>4, ReuseContextCall DEF Attach
<1>5. QED
    BY <1>3, <1>4 DEF Attach, GetOrCreate

LEMMA CreateCall ==
    ASSUME JvmCalls, NEW c \in Callers, Create(c)
    PROVE  (JarsCall(c) /\ HeapCall(c))'
<1>1. JarsCall(c) /\ HeapCall(c) /\ TypeOK /\ pc[c] = "create" /\ pc[c] \in Running
    BY DEF JvmCalls, IInv, Create, Running
<1>2. /\ opts[c] \in OptionType
      /\ (jar[c] # "none" /\ args[c].confPath = "unset") => Asked(c, opts[c].cp)
      /\ (jar[c] # "none" /\ args[c].confHeap = 0) => opts[c].heap = WantedHeap(c)
    BY <1>1 DEF TypeOK, JarsCall, HeapCall
<1>3. CASE Raise(c, "ValueError")
    BY <1>3, RaiseCall
<1>4. CASE /\ GetOrCreate(c, opts[c], IF jar[c] = "none" THEN "returned" ELSE "note")
           /\ UNCHANGED <<world, args, jar, tz, opts, warned, calls>>
  <2>1. PICK next \in {"note", "returned"} :
            /\ GetOrCreate(c, opts[c], next)
            /\ next = IF jar[c] = "none" THEN "returned" ELSE "note"
    BY <1>4
  <2>2. next = "note" <=> jar[c] # "none"
    BY <2>1
  <2>3. CASE StartContext(c, opts[c], next)
    BY <1>1, <1>2, <1>4, <2>2, <2>3, StartContextCall
  <2>4. CASE ReuseContext(c, opts[c], next)
    BY <1>1, <1>4, <2>4, ReuseContextCall
  <2>5. QED
    BY <2>1, <2>3, <2>4 DEF GetOrCreate
<1>5. QED
    BY <1>3, <1>4 DEF Create

LEMMA NoteDriverHeapCall ==
    ASSUME JvmCalls, NEW c \in Callers, NoteDriverHeap(c)
    PROVE  (JarsCall(c) /\ HeapCall(c))'
<1> DEFINE notes == IF HeapShort(gateway.heap, WantedHeap(c)) THEN {"heap"} ELSE {}
<1>1. JarsCall(c) /\ HeapCall(c) /\ TypeOK /\ pc[c] = "note"
    BY DEF JvmCalls, IInv, NoteDriverHeap
<1>2. /\ pc'[c] = "returned" /\ warned'[c] = warned[c] \cup notes
      /\ UNCHANGED <<host, args, jar, gateway, result>>
    BY <1>1 DEF NoteDriverHeap, Goto, TypeOK, world, spark, local
<1>3. gateway.heap \in Nat /\ WantedHeap(c) \in Int
  <2>1. args[c] \in RequestType /\ HostHeap \in Nat
    BY <1>1, ConstantsAssumption DEF TypeOK, ConstantsAssumption
  <2>2. QED
    BY <1>1, <2>1 DEF TypeOK, JvmType, WantedHeap, RequestType, BadSize
<1>4. JarsCall(c)'
  <2>1. \A cp : Asked(c, cp) => Asked(c, cp)'
    BY <1>2 DEF Asked
  <2>2. QED
    BY <1>1, <1>2, <2>1 DEF JarsCall
<1>5. HeapCall(c)'
  <2>1. "heap" \notin warned[c] /\ WantedHeap(c)' = WantedHeap(c)
    BY <1>1, <1>2 DEF HeapCall, Running, WantedHeap
  <2>2. CASE 4 * gateway.heap < 3 * WantedHeap(c)
    <3>1. SizedByOthers(c)
      BY <1>1, <1>3, <2>2 DEF HeapCall
    <3>2. QED
      BY <1>1, <1>2, <2>1, <2>2, <3>1 DEF HeapCall, Running, HeapShort, SizedByOthers
  <2>3. CASE ~(4 * gateway.heap < 3 * WantedHeap(c))
    <3>1. 4 * gateway.heap >= 3 * WantedHeap(c)
      BY <1>3, <2>3
    <3>2. QED
      BY <1>1, <1>2, <2>1, <2>3, <3>1 DEF HeapCall, Running, HeapShort
  <2>4. QED
    BY <2>2, <2>3
<1>6. QED
    BY <1>4, <1>5

LEMMA EnterCall ==
    ASSUME JvmCalls, NEW c \in Callers, NEW r \in Requests, Enter(c, r)
    PROVE  (JarsCall(c) /\ HeapCall(c))'
<1>1. /\ pc'[c] = "check" /\ jar'[c] = "none" /\ warned'[c] = {} /\ result'[c] = NoResult
    BY DEF JvmCalls, IInv, TypeOK, Enter
<1>2. QED
    BY <1>1 DEF JarsCall, HeapCall, NoResult

----------------------------------------------------------------------------
LEMMA NextKeepsJvmCalls == JvmCalls /\ [Next]_vars => JvmCalls'
<1> SUFFICES ASSUME JvmCalls, [Next]_vars, NEW d \in Callers
             PROVE  (JarsCall(d) /\ HeapCall(d))'
    BY NextKeepsIInv DEF JvmCalls
<1>1. TypeOK
    BY DEF JvmCalls, IInv
<1>2. ASSUME NEW c \in Callers, Step(c) PROVE (JarsCall(d) /\ HeapCall(d))'
  <2>1. CASE d = c
    BY <1>2, <2>1, CheckContextCall, AttachCall, ResolveJarCall, CheckJavaCall, EnsureTimezonesCall,
       AddJarsCall, CreateCall, NoteDriverHeapCall DEF Step
  <2>2. CASE d # c
    BY <1>1, <1>2, <2>2, StepIsApart, OthersKeepCall DEF Apart
  <2>3. QED
    BY <2>1, <2>2
<1>3. ASSUME NEW c \in Callers, NEW r \in Requests, Enter(c, r)
      PROVE  (JarsCall(d) /\ HeapCall(d))'
  <2>1. CASE d = c
    BY <1>3, <2>1, EnterCall
  <2>2. CASE d # c
    BY <1>1, <1>3, <2>2, OthersKeepCall DEF Enter, TypeOK, world
  <2>3. QED
    BY <2>1, <2>2
<1>4. CASE UNCHANGED <<host, local, pc, warned>>
    BY <1>4, OthersKeepCall DEF local
<1>5. QED
    BY <1>2, <1>3, <1>4 DEF Next, vars, world, OtherSession, Stop, SetGluten, InstallTzdata

(* JvmCalls holds in every state the process can reach.                    *)
THEOREM JvmCallsInvariance == Spec => []JvmCalls
<1>1. Init => JvmCalls
    BY InitJvmCalls
<1>2. JvmCalls /\ [Next]_vars => JvmCalls'
    BY NextKeepsJvmCalls
<1>3. QED
    BY <1>1, <1>2, PTL DEF Spec

----------------------------------------------------------------------------
(* The results.                                                            *)

(* A JVM that a call launches for a native session has every jar the call  *)
(* asked for on its classpath, or the call has warned of the split, or the *)
(* classpath was replaced (session.py:206-252, preflight.py:165-272).      *)
THEOREM JarsReach == Spec => []JarsReachJvm
<1>1. JvmCalls => JarsReachJvm
    BY DEF JvmCalls, JarsCall, Asked, JarsReachJvm, Returned
<1>2. QED
    BY <1>1, JvmCallsInvariance, PTL

(* A native session has three quarters of the heap asked for, or its call  *)
(* has warned, and then the JVM was not launched by it, or sized by        *)
(* extra_conf or the driver options (session.py:291-294, 314-343).         *)
THEOREM HeapAsAsked == Spec => []HeapIsAsAskedOrNoted
<1>1. JvmCalls => HeapIsAsAskedOrNoted
    BY DEF JvmCalls, HeapCall, SizedByOthers, HeapIsAsAskedOrNoted, Returned
<1>2. QED
    BY <1>1, JvmCallsInvariance, PTL
=============================================================================
