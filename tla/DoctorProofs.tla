---------------------------- MODULE DoctorProofs ----------------------------
(***************************************************************************)
(* Proofs about Doctor, for any threads, hosts and requests, while no      *)
(* other code of the process runs during a call (~Overlap): what the       *)
(* doctor says is what get_session does.                                   *)
(***************************************************************************)
EXTENDS Doctor, SessionPromiseProofs

(* TZDIR is what the host set or what a call exported; a package that was  *)
(* exported is installed.                                                  *)
TzdirFits ==
    /\ TZDIR \in {host.tzdir, "tzdata"}
    /\ TZDIR = "tzdata" => tzdata

ZonesMissing == ~host.osTz /\ ~tzdata /\ host.tzdir # "operator"

(* What a bare call has found out, as the doctor would have.               *)
JarPassed(c) == jar[c] = DoctorJar /\ DoctorJar \in JarKinds /\ ~ArchProblem(DoctorJar)

ZonesTold(c) == "tz" \in warned[c] <=> ZonesMissing

Cleared(c) == JarPassed(c) /\ JavaFound /\ ZonesTold(c) /\ WantNative(c)

Bars == host.disabled \/ DoctorJar = "none" \/ ArchProblem(DoctorJar)

Course(c) ==
    /\ pc[c] \in {"check", "resolve"} => jar[c] = "none"
    /\ pc[c] \in {"resolve", "java", "tz"} => "tz" \notin warned[c]
    /\ pc[c] \in {"java", "tz", "jars"} => JarPassed(c)
    /\ pc[c] \in {"tz", "jars"} => JavaFound
    /\ pc[c] = "jars" => ZonesTold(c)
    /\ pc[c] = "create" =>
         IF opts[c].plugin = "gluten"
         THEN Cleared(c) /\ jar[c] \in opts[c].cp
         ELSE jar[c] = "none" /\ Bars
    /\ pc[c] = "note" => Cleared(c) /\ result[c].loaded

DoctorInv ==
    /\ AloneInv /\ TzdirFits
    /\ \A c \in Callers : Bare(c) => Course(c)

----------------------------------------------------------------------------
LEMMA AtRest ==
    ASSUME NEW c \in Callers, pc[c] \in Resting
    PROVE  Course(c)
BY DEF Course, Resting

LEMMA DoctorInit == Init => DoctorInv
<1> SUFFICES ASSUME Init PROVE DoctorInv
    OBVIOUS
<1>1. TzdirFits
    BY ConstantsAssumption DEF ConstantsAssumption, Init, HostType, TzdirFits
<1>2. \A c \in Callers : pc[c] \in Resting
    BY DEF Init, Resting
<1>3. QED
    BY <1>1, <1>2, AtRest, AloneInit DEF DoctorInv

(* What the doctor looks at does not change while a call runs.             *)
LEMMA HostKeepsWord ==
    ASSUME UNCHANGED <<host, tzdata>>, NEW c \in Callers
    PROVE  /\ DoctorJar' = DoctorJar /\ JavaFound' = JavaFound /\ Bars' = Bars
           /\ ZonesMissing' = ZonesMissing
           /\ ArchProblem(DoctorJar)' = ArchProblem(DoctorJar)
           /\ args'[c] = args[c] => (Bare(c)' <=> Bare(c)) /\ WantNative(c)' = WantNative(c)
BY DEF DoctorJar, BundledJar, JavaFound, Bars, ArchProblem, ZonesMissing, Bare, WantNative

(* A step of c has only c's own course to keep.                            *)
LEMMA ApartKeepsDoctorInv ==
    ASSUME DoctorInv, NEW c \in Callers, Step(c), UNCHANGED <<host, tzdata>>, TzdirFits',
           Bare(c) => Course(c)'
    PROVE  DoctorInv'
<1>1. AloneInv' /\ Apart(c)
    BY StepAlone, StepIsApart DEF DoctorInv, AloneInv, IInv
<1>2. Bare(c)' <=> Bare(c)
    BY <1>1, HostKeepsWord DEF Apart
<1>3. \A d \in Callers \ {c} : pc'[d] \in Resting
    BY <1>1 DEF DoctorInv, AloneInv, OneAtATime, Apart, Running, Resting
<1>4. \A d \in Callers \ {c} : Course(d)'
    BY <1>3 DEF Course, Resting
<1>5. QED
    BY <1>1, <1>2, <1>4 DEF DoctorInv

----------------------------------------------------------------------------
(* Each step of a bare call keeps to its course.                           *)

LEMMA BareCall ==
    ASSUME DoctorInv, NEW c \in Callers, Bare(c)
    PROVE  /\ TypeOK /\ AloneCall(c) /\ JarInv(c) /\ Course(c)
           /\ args[c].enabled /\ args[c].heap # BadSize /\ args[c].extraJars # "absent"
           /\ args[c].override = "none" /\ Resolved(c) = DoctorJar
           /\ WantNative(c) <=> ~host.disabled
BY DEF DoctorInv, AloneInv, IInv, Bare, Resolved, DoctorJar, WantNative

LEMMA RaiseCourse ==
    ASSUME TypeOK, NEW c \in Callers, NEW why, Raise(c, why)
    PROVE  Course(c)'
<1>1. pc'[c] = "raised"
    BY DEF TypeOK, Raise, Fail
<1>2. QED
    BY <1>1 DEF Course

LEMMA CheckContextCourse ==
    ASSUME DoctorInv, NEW c \in Callers, Bare(c), CheckContext(c)
    PROVE  Course(c)'
<1>1. /\ pc[c] = "check" /\ jar[c] = "none" /\ warned[c] = {} /\ jar' = jar
      /\ pc'[c] \in {"attach", "resolve"}
      /\ pc'[c] = "resolve" => warned'[c] = {}
    BY BareCall DEF CheckContext, Goto, TypeOK, AloneCall, Course, local
<1>2. QED
    BY <1>1 DEF Course

LEMMA ResolveJarCourse ==
    ASSUME DoctorInv, NEW c \in Callers, Bare(c), ResolveJar(c)
    PROVE  Course(c)'
<1> USE BareCall DEF world
<1>1. pc[c] = "resolve" /\ jar[c] = "none" /\ "tz" \notin warned[c]
    BY DEF Course, ResolveJar
<1>2. "tz" \notin IcebergNote(c)
    BY DEF IcebergNote
<1>3. ASSUME NEW why, Raise(c, why) PROVE Course(c)'
    BY <1>3, RaiseCourse
<1>4. ASSUME NEW notes, GoPlain(c, notes), Bars PROVE Course(c)'
  <2>1. pc'[c] = "create" /\ opts'[c] = PlainOptions(c) /\ jar'[c] = "none" /\ Bars'
    BY <1>1, <1>4, HostKeepsWord DEF GoPlain, Goto, TypeOK
  <2>2. PlainOptions(c).plugin # "gluten"
    BY DEF PlainOptions, Overridden
  <2>3. QED
    BY <2>1, <2>2 DEF Course
<1>5. CASE ~WantNative(c)
    BY <1>3, <1>4, <1>5 DEF ResolveJar, Bars, Degrade
<1>6. CASE WantNative(c) /\ (Resolved(c) = "none" \/ ArchProblem(Resolved(c))) /\ Degrade(c)
    BY <1>3, <1>4, <1>6 DEF Bars, Degrade
<1>7. CASE /\ WantNative(c) /\ Resolved(c) \in JarKinds /\ ~ArchProblem(Resolved(c))
           /\ jar' = [jar EXCEPT ![c] = Resolved(c)]
           /\ Goto(c, "java", IcebergNote(c))
           /\ UNCHANGED <<world, spark, args, tz, opts, result, calls>>
  <2>1. pc'[c] = "java" /\ jar'[c] = DoctorJar /\ warned'[c] = warned[c] \cup IcebergNote(c)
    BY <1>7 DEF Goto, TypeOK
  <2>2. JarPassed(c)'
    BY <1>7, <2>1, HostKeepsWord DEF JarPassed
  <2>3. QED
    BY <1>1, <1>2, <2>1, <2>2 DEF Course
<1>8. QED
    BY <1>3, <1>5, <1>6, <1>7 DEF ResolveJar

LEMMA CheckJavaCourse ==
    ASSUME DoctorInv, NEW c \in Callers, Bare(c), CheckJava(c)
    PROVE  Course(c)'
<1>1. CASE \E why : Raise(c, why)
    BY <1>1, BareCall, RaiseCourse
<1>2. CASE JavaFound /\ Goto(c, "tz", JavaNote) /\ UNCHANGED <<world, spark, local, calls>>
  <2>1. /\ pc'[c] = "tz" /\ warned'[c] = warned[c] \cup JavaNote
        /\ jar' = jar /\ UNCHANGED <<host, tzdata>>
    BY <1>2, BareCall DEF Goto, TypeOK, local, world
  <2>2. "tz" \notin warned'[c]
    BY <2>1, BareCall DEF Course, CheckJava, JavaNote
  <2>3. JarPassed(c)' /\ JavaFound'
    BY <1>2, <2>1, BareCall, HostKeepsWord DEF Course, CheckJava, JarPassed
  <2>4. QED
    BY <2>1, <2>2, <2>3 DEF Course
<1>3. QED
    BY <1>1, <1>2 DEF CheckJava

(* The doctor sees the TZDIR the host set, the call the one it inherits.   *)
LEMMA ZonesAgree ==
    ASSUME TypeOK, TzdirFits
    PROVE  TzOutcome = "missing" <=> ZonesMissing
<1>1. host \in HostType
    BY ConstantsAssumption DEF ConstantsAssumption, TypeOK
<1>2. TZDIR \in {host.tzdir, "tzdata"} /\ (TZDIR = "tzdata" => tzdata)
    BY DEF TzdirFits
<1>3. host.tzdir \in {"unset", "bogus", "operator"}
    BY <1>1 DEF HostType, TzDirs
<1>4. QED
    BY <1>2, <1>3 DEF TzOutcome, ZonesMissing, TzdirIsDirectory

LEMMA EnsureTimezonesCourse ==
    ASSUME DoctorInv, NEW c \in Callers, Bare(c), EnsureTimezones(c)
    PROVE  Course(c)'
<1>1. CASE Raise(c, "Unavailable")
    BY <1>1, BareCall, RaiseCourse
<1>2. CASE /\ Goto(c, "jars", IF TzOutcome = "missing" THEN {"tz"} ELSE {})
           /\ UNCHANGED <<host, tzdata, jar>>
  <2>1. /\ pc'[c] = "jars"
        /\ warned'[c] = warned[c] \cup IF TzOutcome = "missing" THEN {"tz"} ELSE {}
    BY <1>2, BareCall DEF Goto, TypeOK
  <2>2. "tz" \in warned'[c] <=> ZonesMissing
    BY <2>1, BareCall, ZonesAgree DEF DoctorInv, Course, EnsureTimezones
  <2>3. ZonesTold(c)' /\ JarPassed(c)' /\ JavaFound'
    BY <1>2, <2>2, BareCall, HostKeepsWord
    DEF Course, EnsureTimezones, ZonesTold, JarPassed
  <2>4. QED
    BY <2>1, <2>3 DEF Course
<1>3. QED
    BY <1>1, <1>2 DEF EnsureTimezones

LEMMA AddJarsCourse ==
    ASSUME DoctorInv, NEW c \in Callers, Bare(c), AddJars(c)
    PROVE  Course(c)'
<1>1. /\ JarPassed(c) /\ JavaFound /\ ZonesTold(c) /\ WantNative(c)
      /\ pc[c] = "jars"
    BY BareCall DEF Course, AddJars, AloneCall, BeforeCreate
<1>2. /\ pc'[c] = "create" /\ opts'[c] = NativeOptions(c)
      /\ warned'[c] = warned[c] \cup SplitNote(c)
      /\ UNCHANGED <<host, tzdata, jar, args>>
    BY BareCall DEF AddJars, Goto, TypeOK, world
<1>3. Cleared(c)'
  <2>1. "tz" \in warned'[c] <=> "tz" \in warned[c]
    BY <1>2 DEF SplitNote
  <2>2. QED
    BY <1>1, <1>2, <2>1, HostKeepsWord DEF Cleared, JarPassed, ZonesTold
<1>4. NativeOptions(c).plugin = "gluten" /\ jar[c] \in NativeOptions(c).cp
    BY DEF NativeOptions, Overridden, Classpath, Bare
<1>5. QED
    BY <1>2, <1>3, <1>4 DEF Course

LEMMA CreateCourse ==
    ASSUME DoctorInv, NEW c \in Callers, Bare(c), Create(c)
    PROVE  Course(c)'
<1>1. CASE pc'[c] # "note"
  <2>1. pc'[c] \in {"raised", "returned"}
    BY <1>1, CreateEffect DEF DoctorInv
  <2>2. QED
    BY <2>1 DEF Course
<1>2. CASE pc'[c] = "note"
  <2>1. jar[c] # "none" /\ UNCHANGED <<host, tzdata, args, jar, warned>>
    BY <1>2, BareCall
    DEF Create, Raise, Fail, GetOrCreate, StartContext, ReuseContext, TypeOK, world
  <2>2. opts[c].plugin = "gluten" /\ Cleared(c)
    BY <2>1, BareCall DEF Course, Create
  <2>3. result'[c].loaded
    BY <1>2, <2>2, CreateEffect DEF DoctorInv
  <2>4. Cleared(c)'
    BY <2>1, <2>2, HostKeepsWord DEF Cleared, JarPassed, ZonesTold
  <2>5. QED
    BY <1>2, <2>3, <2>4 DEF Course
<1>3. QED
    BY <1>1, <1>2

LEMMA EndedCourse ==
    ASSUME NEW c \in Callers, pc'[c] = "returned"
    PROVE  Course(c)'
BY DEF Course

LEMMA StepCourse ==
    ASSUME DoctorInv, NEW c \in Callers, Bare(c), Step(c)
    PROVE  Course(c)'
<1>1. Attach(c) => pc'[c] = "returned"
    BY AttachEffect DEF DoctorInv
<1>2. NoteDriverHeap(c) => pc'[c] = "returned"
    BY BareCall DEF NoteDriverHeap, Goto, TypeOK
<1>3. QED
    BY <1>1, <1>2, EndedCourse, CheckContextCourse, ResolveJarCourse, CheckJavaCourse,
       EnsureTimezonesCourse, AddJarsCourse, CreateCourse DEF Step

LEMMA StepKeepsTzdir ==
    ASSUME DoctorInv, NEW c \in Callers, Step(c)
    PROVE  TzdirFits' /\ UNCHANGED <<host, tzdata>>
<1> USE DEF world
<1>1. UNCHANGED <<host, tzdata>> /\ (TZDIR' = TZDIR \/ TZDIR' = TzdirAfter)
    BY DEF Step, CheckContext, Attach, ResolveJar, Degrade, GoPlain, Raise, CheckJava,
           EnsureTimezones, AddJars, Create, NoteDriverHeap
<1>2. TzdirAfter \in {TZDIR, "tzdata"} /\ (TzdirAfter # TZDIR => tzdata)
    BY DEF TzdirAfter, TzOutcome
<1>3. QED
    BY <1>1, <1>2 DEF DoctorInv, TzdirFits

LEMMA StepKeepsDoctorInv ==
    ASSUME DoctorInv, NEW c \in Callers, Step(c)
    PROVE  DoctorInv'
BY StepCourse, StepKeepsTzdir, ApartKeepsDoctorInv

----------------------------------------------------------------------------
(* Between calls.                                                          *)

LEMMA EnterKeepsDoctorInv ==
    ASSUME ~Overlap, DoctorInv, NEW c \in Callers, NEW r \in Requests, Enter(c, r)
    PROVE  DoctorInv'
<1>1. AloneInv' /\ Quiescent
    BY EnterAlone DEF DoctorInv, Enter
<1>2. /\ pc' = [pc EXCEPT ![c] = "check"] /\ jar' = [jar EXCEPT ![c] = "none"]
      /\ UNCHANGED <<host, tzdata, TZDIR>>
    BY DEF Enter, world
<1>3. TypeOK
    BY DEF DoctorInv, AloneInv, IInv
<1>4. ASSUME NEW d \in Callers PROVE Course(d)'
  <2>1. CASE d = c
    BY <1>2, <1>3, <2>1 DEF TypeOK, Course
  <2>2. CASE d # c
    BY <1>1, <1>2, <1>3, <2>2 DEF TypeOK, Course, Quiescent, Resting
  <2>3. QED
    BY <2>1, <2>2
<1>5. QED
    BY <1>1, <1>2, <1>4 DEF DoctorInv, TzdirFits

LEMMA OutsideKeepsDoctorInv ==
    ASSUME ~Overlap, DoctorInv,
           \/ OtherSession \/ Stop \/ InstallTzdata
           \/ \E value \in {"true", "false"} : SetGluten(value)
    PROVE  DoctorInv'
<1> USE DEF OtherSession, Stop, InstallTzdata, SetGluten, Elsewhere, world
<1>1. AloneInv'
    BY OutsideAlone DEF DoctorInv
<1>2. Quiescent /\ pc' = pc
    OBVIOUS
<1>3. UNCHANGED <<host, TZDIR>> /\ (tzdata => tzdata')
    BY DEF DoctorInv
<1>4. \A d \in Callers : Course(d)'
    BY <1>2 DEF Quiescent, Course, Resting
<1>5. QED
    BY <1>1, <1>3, <1>4 DEF DoctorInv, TzdirFits

LEMMA StutterKeepsDoctorInv ==
    ASSUME DoctorInv, UNCHANGED vars
    PROVE  DoctorInv'
<1> USE DEF vars, world, local
<1>1. AloneInv' /\ TzdirFits'
    BY StutterAlone DEF DoctorInv, TzdirFits
<1>2. ASSUME NEW c \in Callers, Bare(c)' PROVE Course(c)'
  <2>1. Course(c)
    BY <1>2, HostKeepsWord DEF DoctorInv
  <2>2. QED
    BY <2>1, HostKeepsWord DEF Course, Cleared, JarPassed, ZonesTold
<1>3. QED
    BY <1>1, <1>2 DEF DoctorInv

(* DoctorInv holds throughout.                                             *)
THEOREM DoctorInvariance ==
    ASSUME ~Overlap
    PROVE  Spec => []DoctorInv
<1>1. DoctorInv /\ [Next]_vars => DoctorInv'
    BY EnterKeepsDoctorInv, StepKeepsDoctorInv, OutsideKeepsDoctorInv, StutterKeepsDoctorInv DEF Next
<1>2. QED
    BY <1>1, DoctorInit, PTL DEF Spec

----------------------------------------------------------------------------
(* How a bare call ends, for each step that can end one.                   *)

Foretold(c) ==
    IF Ready THEN Overlooked(c) \/ (Accelerated(c) /\ "tz" \notin warned'[c])
             ELSE Accelerated(c) => ("tz" \in warned'[c] \/ Inherited(c))

LEMMA ZonesForetold ==
    ASSUME TypeOK
    PROVE  /\ ~DoctorZones => ZonesMissing
           /\ DoctorZones /\ ZonesMissing =>
                  host.tzdir = "bogus" /\ ~host.osTz /\ ~tzdata
<1>1. host.tzdir \in {"unset", "bogus", "operator"}
    BY ConstantsAssumption DEF ConstantsAssumption, TypeOK, HostType, TzDirs
<1>2. QED
    BY <1>1 DEF DoctorZones, ZonesMissing

LEMMA RaisedAsForetold ==
    ASSUME NEW c \in Callers, pc'[c] = "raised", ~Ready \/ Overlooked(c)
    PROVE  Foretold(c)
BY DEF Foretold, Accelerated

LEMMA ResolveJarForetold ==
    ASSUME DoctorInv, NEW c \in Callers, Bare(c), Ends(c), ResolveJar(c)
    PROVE  Foretold(c)
<1>1. pc'[c] \notin {"create", "java"}
    BY DEF Ends
<1>2. \A notes : ~GoPlain(c, notes) /\ ~Goto(c, "java", notes)
    BY <1>1, BareCall DEF GoPlain, Goto, TypeOK
<1>3. PICK why : Raise(c, why)
    BY <1>2 DEF ResolveJar, Degrade
<1>4. DoctorJar \in {"absent", "many", "none"} \/ ArchProblem(DoctorJar)
    BY <1>2, BareCall DEF ResolveJar
<1>5. ~Ready
    BY <1>4 DEF Ready, DoctorRaises
<1>6. pc'[c] = "raised"
    BY <1>3, BareCall DEF Raise, Fail, TypeOK
<1>7. QED
    BY <1>5, <1>6, RaisedAsForetold

LEMMA CheckJavaForetold ==
    ASSUME DoctorInv, NEW c \in Callers, Bare(c), Ends(c), CheckJava(c)
    PROVE  Foretold(c)
<1>1. ~Goto(c, "tz", JavaNote)
    BY BareCall DEF Ends, Goto, TypeOK
<1>2. ~JavaFound /\ Raise(c, "JavaNotFound")
    BY <1>1, BareCall DEF CheckJava
<1>3. pc'[c] = "raised" /\ ~Ready
    BY <1>2, BareCall DEF Raise, Fail, TypeOK, Ready
<1>4. QED
    BY <1>3, RaisedAsForetold

LEMMA EnsureTimezonesForetold ==
    ASSUME DoctorInv, NEW c \in Callers, Bare(c), Ends(c), EnsureTimezones(c)
    PROVE  Foretold(c)
<1>1. \A notes : ~Goto(c, "jars", notes)
    BY BareCall DEF Ends, Goto, TypeOK
<1>2. TzOutcome = "missing" /\ Raise(c, "Unavailable")
    BY <1>1 DEF EnsureTimezones
<1>3. pc'[c] = "raised" /\ ZonesMissing
    BY <1>2, BareCall, ZonesAgree DEF DoctorInv, Raise, Fail, TypeOK
<1>4. ~Ready \/ Overlooked(c)
    BY <1>3, BareCall, ZonesForetold DEF Ready, Overlooked
<1>5. QED
    BY <1>3, <1>4, RaisedAsForetold

LEMMA CreateForetold ==
    ASSUME DoctorInv, NEW c \in Callers, Bare(c), Ends(c), Create(c)
    PROVE  Foretold(c)
<1>1. pc[c] = "create" /\ context = "none"
    BY CreateEffect DEF DoctorInv, Create
<1>2. CASE opts[c].plugin = "gluten"
  <2>1. Cleared(c) /\ jar[c] = DoctorJar /\ jar[c] \in JarKinds /\ jar[c] \in opts[c].cp
    BY <1>1, <1>2, BareCall DEF Course, Cleared, JarPassed
  <2>2. GetOrCreate(c, opts[c], "note")
    BY <2>1, BareCall DEF Create, JarKinds
  <2>3. StartContext(c, opts[c], "note") /\ pc'[c] = "raised"
    BY <1>1, <2>2, BareCall, CreateEffect
    DEF GetOrCreate, ReuseContext, Ends, StartContext, TypeOK, Fail
  <2>4. ~EngineOn(JvmFor(opts[c]).cp)
    BY <2>1, <2>3, BareCall DEF StartContext, Starts, Cleared, JavaFound, TypeOK
  <2>5. PathWithoutEngine \/ DoctorJar = "stray"
    <3>1. host.line.path \in JarKinds \cup {"none"}
      BY BareCall, ConstantsAssumption DEF ConstantsAssumption, TypeOK, HostType, LineType
    <3>2. gateway.up => JvmFor(opts[c]).cp = gateway.cp
      BY DEF JvmFor
    <3>3. ~gateway.up => JvmFor(opts[c]).cp = IF host.line.path # "none" THEN {host.line.path}
                                              ELSE opts[c].cp
      BY DEF JvmFor, Launch
    <3>4. QED
      BY <2>1, <2>4, <3>1, <3>2, <3>3 DEF PathWithoutEngine, EngineOn, JarKinds
  <2>6. Overlooked(c)
    BY <2>5 DEF Overlooked
  <2>7. QED
    BY <2>3, <2>6, RaisedAsForetold
<1>3. CASE opts[c].plugin # "gluten"
  <2>1. Bars
    BY <1>1, <1>3, BareCall DEF Course
  <2>2. ~Ready \/ Overlooked(c)
    BY <2>1 DEF Bars, Ready, Overlooked
  <2>3. Accelerated(c) => Inherited(c)
    BY <1>1, <1>3, CreateEffect DEF DoctorInv, Accelerated, Inherited, Kept
  <2>4. QED
    BY <2>2, <2>3 DEF Foretold
<1>4. QED
    BY <1>2, <1>3

LEMMA NoteForetold ==
    ASSUME DoctorInv, NEW c \in Callers, Bare(c), NoteDriverHeap(c)
    PROVE  Foretold(c)
<1>1. Cleared(c) /\ result[c].loaded
    BY BareCall DEF Course, NoteDriverHeap
<1>2. /\ Accelerated(c)
      /\ "tz" \in warned'[c] <=> ZonesMissing
    BY <1>1, BareCall
    DEF NoteDriverHeap, Goto, TypeOK, local, Accelerated, Cleared, ZonesTold
<1>3. Ready <=> DoctorZones
    BY <1>1 DEF Cleared, JarPassed, Ready, DoctorRaises, JarKinds
<1>4. QED
    BY <1>2, <1>3, BareCall, ZonesForetold DEF Foretold, Overlooked

LEMMA StepForetold ==
    ASSUME DoctorInv, NEW c \in Callers, Bare(c), Ends(c), ~MetASession(c), Step(c)
    PROVE  Foretold(c)
<1>1. ~CheckContext(c) /\ ~AddJars(c)
  <2>1. CheckContext(c) => pc'[c] \in {"attach", "resolve"}
    BY BareCall DEF CheckContext, Goto, TypeOK
  <2>2. AddJars(c) => pc'[c] = "create"
    BY BareCall DEF AddJars, Goto, TypeOK
  <2>3. QED
    BY <2>1, <2>2 DEF Ends
<1>2. ~Attach(c)
    BY AttachEffect DEF DoctorInv, MetASession
<1>3. QED
    BY <1>1, <1>2, ResolveJarForetold, CheckJavaForetold, EnsureTimezonesForetold,
       CreateForetold, NoteForetold DEF Step

(* Only a step of its own ends a call.                                     *)
LEMMA OwnStepEnds ==
    ASSUME ~Overlap, DoctorInv, [Next]_vars, NEW c \in Callers, Ends(c)
    PROVE  Step(c)
<1>1. pc[c] \notin Resting /\ pc'[c] # pc[c]
    BY DEF Ends, Resting
<1>2. ~Quiescent /\ pc' # pc
    BY <1>1 DEF Quiescent
<1>3. PICK d \in Callers : Step(d)
    BY <1>2 DEF Next, vars, Enter, OtherSession, Stop, SetGluten, InstallTzdata
<1>4. Apart(d)
    BY <1>3, StepIsApart DEF DoctorInv, AloneInv, IInv
<1>5. QED
    BY <1>1, <1>3, <1>4 DEF Apart

(* The doctor is right about a bare get_session on this host, but for what *)
(* Overlooked lists (__main__.py:125-134, preflight.py:357-381): READY means *)
(* accelerated without a word of time zones, anything else means no        *)
(* acceleration, or a warning, or settings the call did not make.          *)
THEOREM DoctorIsRight ==
    ASSUME ~Overlap
    PROVE  Spec => DoctorForetells
<1>1. ASSUME DoctorInv, [Next]_vars, NEW c \in Callers, Bare(c), Ends(c), ~MetASession(c)
      PROVE  Foretold(c)
    BY <1>1, OwnStepEnds, StepForetold
<1>2. DoctorInv /\ [Next]_vars =>
        [\A c \in Callers : (Bare(c) /\ Ends(c) /\ ~MetASession(c)) =>
            IF Ready THEN Overlooked(c) \/ (Accelerated(c) /\ "tz" \notin warned'[c])
                     ELSE Accelerated(c) => ("tz" \in warned'[c] \/ Inherited(c))]_vars
    BY <1>1 DEF Foretold
<1>3. QED
    BY <1>2, DoctorInvariance, PTL DEF Spec, DoctorForetells
=============================================================================
