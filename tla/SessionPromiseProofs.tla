------------------------ MODULE SessionPromiseProofs ------------------------
(***************************************************************************)
(* Proofs about GlutenSession when no other code of the process runs       *)
(* during a call of get_session (~Overlap), for any threads, hosts and     *)
(* requests: the session promised is the session given.                    *)
(***************************************************************************)
EXTENDS GlutenSessionProofs

BeforeCreate == {"resolve", "java", "tz", "jars"}

(* One call at a time.                                                     *)
OneAtATime == \A c, d \in Callers : c # d => pc[c] \in Resting \/ pc[d] \in Resting

(* The conf of a live session names the plugin only if it is loaded.       *)
ConfFits == (context # "none" /\ conf.plugin = "gluten") => context = "native"

(* What the options of a call have come to when the session is built.      *)
OptionsFit(c) ==
    /\ opts[c].plugin = "gluten" => Wish(c).engine = "yes" /\ warned[c] \cap Loud = {}
    /\ opts[c].plugin = "none" <=> Wish(c).engine = "never"
    /\ (opts[c].plugin # "gluten" /\ Wish(c).engine = "yes")
       => "fallback" \in warned[c] /\ ~Wish(c).must

AloneCall(c) ==
    /\ pc[c] = "check" => warned[c] = {}
    /\ pc[c] = "attach" => context # "none" /\ "exists" \in warned[c]
    /\ pc[c] \in BeforeCreate => context = "none" /\ warned[c] \cap Loud = {}
    /\ pc[c] \in BeforeCreate \ {"resolve"} => WantNative(c)
    /\ pc[c] = "create" => context = "none" /\ OptionsFit(c)
    /\ (pc[c] \in {"note", "returned"} /\ Wish(c).engine = "yes" /\ ~result[c].loaded)
       => warned[c] \cap Loud # {}

AloneInv ==
    /\ IInv /\ OneAtATime /\ ConfFits
    /\ \A c \in Callers : AloneCall(c)

----------------------------------------------------------------------------
LEMMA AloneInit == Init => AloneInv
<1> SUFFICES ASSUME Init PROVE AloneInv
    OBVIOUS
<1>1. \A c \in Callers : pc[c] = "idle"
    BY DEF Init
<1>2. OneAtATime /\ ConfFits
    BY <1>1 DEF Init, OneAtATime, ConfFits, Resting
<1>3. \A c \in Callers : AloneCall(c)
    BY <1>1 DEF AloneCall, BeforeCreate
<1>4. QED
    BY <1>2, <1>3, InitIInv DEF AloneInv

----------------------------------------------------------------------------
(* What a process keeps of the engine's settings.                          *)

LEMMA KeptStays ==
    ASSUME host' = host, gateway' = gateway
    PROVE  Kept' = Kept
BY DEF Kept

LEMMA KeptType ==
    ASSUME TypeOK
    PROVE  Kept \in BOOLEAN
<1>1. host.line.plugin \in BOOLEAN
    BY ConstantsAssumption DEF ConstantsAssumption, TypeOK, HostType, LineType
<1>2. QED
    BY <1>1 DEF Kept

(* A new context has the engine if the options ask for it, or if they are  *)
(* silent and it is kept; options that ask for it may leave it kept.       *)
LEMMA NewContextSeen ==
    ASSUME TypeOK, NEW o \in OptionType, NewContext(o), host' = host
    PROVE  /\ Loads(o) <=> (o.plugin = "gluten" \/ (o.plugin = "unset" /\ Kept))
           /\ o.plugin = "gluten" => Kept' \in {Kept, TRUE}
           /\ o.plugin # "gluten" => Kept' = Kept
<1>1. host.line.plugin \in BOOLEAN
    BY ConstantsAssumption DEF ConstantsAssumption, TypeOK, HostType, LineType
<1>2. gateway' = JvmFor(o)
    BY DEF NewContext
<1>3. Loads(o) <=> (o.plugin = "gluten" \/ (o.plugin = "unset" /\ JvmFor(o).plugin = "gluten"))
    BY DEF Loads, Settings, Overlay, OptionType
<1>4. CASE gateway.up
    BY <1>2, <1>3, <1>4 DEF JvmFor, Kept
<1>5. CASE ~gateway.up
  <2>1. /\ JvmFor(o).up
        /\ JvmFor(o).plugin = IF host.line.plugin THEN "gluten" ELSE o.plugin
    BY <1>5 DEF JvmFor, Launch
  <2>2. Kept = host.line.plugin /\ (Kept' <=> JvmFor(o).plugin = "gluten")
    BY <1>2, <1>5, <2>1 DEF Kept
  <2>3. Kept' \in BOOLEAN
    BY <1>2, <2>1 DEF Kept
  <2>4. QED
    BY <1>1, <1>3, <2>1, <2>2, <2>3
<1>6. QED
    BY <1>4, <1>5

----------------------------------------------------------------------------
(* A step of c keeps the invariant if it keeps c's own part of it.         *)
LEMMA ApartKeepsAloneInv ==
    ASSUME AloneInv, NEW c \in Callers, Apart(c), IInv', ConfFits', AloneCall(c)'
    PROVE  AloneInv'
<1>1. \A d \in Callers \ {c} : pc[d] \in Resting
    BY DEF AloneInv, OneAtATime, Apart, Running, Resting
<1>2. OneAtATime'
    BY <1>1 DEF Apart, OneAtATime
<1>3. ASSUME NEW d \in Callers \ {c} PROVE AloneCall(d)'
  <2>1. AloneCall(d) /\ pc[d] \in Resting
    BY <1>1 DEF AloneInv
  <2>2. /\ pc'[d] = pc[d] /\ warned'[d] = warned[d] /\ result'[d] = result[d]
        /\ Wish(d)' = Wish(d)
    BY DEF Apart, Wish, WantNative
  <2>3. QED
    BY <2>1, <2>2 DEF AloneCall, Resting, BeforeCreate
<1>4. QED
    BY <1>2, <1>3 DEF AloneInv

----------------------------------------------------------------------------
(* Each step of a call keeps its part of the invariant.                    *)

LEMMA CheckContextAlone ==
    ASSUME AloneInv, NEW c \in Callers, CheckContext(c)
    PROVE  ConfFits' /\ AloneCall(c)'
<1> USE DEF Goto, spark, local
<1>1. AloneCall(c) /\ TypeOK /\ ConfFits
    BY DEF AloneInv, IInv
<1>2. ConfFits'
    BY <1>1 DEF CheckContext, ConfFits
<1>3. IF context # "none"
      THEN pc'[c] = "attach" /\ warned'[c] = {"exists"}
      ELSE pc'[c] = "resolve" /\ warned'[c] = {}
    BY <1>1 DEF CheckContext, TypeOK, AloneCall
<1>4. AloneCall(c)'
    BY <1>3 DEF CheckContext, AloneCall, BeforeCreate, Loud
<1>5. QED
    BY <1>2, <1>4

LEMMA RaiseAlone ==
    ASSUME AloneInv, NEW c \in Callers, NEW why, Raise(c, why)
    PROVE  ConfFits' /\ AloneCall(c)'
<1>1. pc'[c] = "raised"
    BY DEF AloneInv, IInv, TypeOK, Raise, Fail
<1>2. QED
    BY <1>1 DEF AloneInv, Raise, spark, ConfFits, AloneCall, BeforeCreate

LEMMA ResolveJarAlone ==
    ASSUME AloneInv, NEW c \in Callers, ResolveJar(c)
    PROVE  ConfFits' /\ AloneCall(c)'
<1> USE DEF Goto, spark, world
<1>1. AloneCall(c) /\ TypeOK /\ ConfFits
    BY DEF AloneInv, IInv
<1>2. pc[c] = "resolve" /\ context = "none" /\ warned[c] \cap Loud = {}
    BY <1>1 DEF ResolveJar, AloneCall, BeforeCreate
<1>3. IcebergNote(c) \cap Loud = {}
    BY DEF IcebergNote, Loud
<1>4. CASE \E why \in Errors : Raise(c, why)
    BY <1>4, RaiseAlone
<1>5. ASSUME NEW notes, GoPlain(c, notes), notes \subseteq {"fallback"},
             WantNative(c) => "fallback" \in notes /\ ~args[c].require
      PROVE  ConfFits' /\ AloneCall(c)'
  <2>1. /\ pc'[c] = "create" /\ context' = "none" /\ args' = args /\ host' = host
        /\ opts'[c] = PlainOptions(c)
        /\ warned'[c] = warned[c] \cup notes \cup IcebergNote(c)
    BY <1>1, <1>2, <1>5 DEF GoPlain, TypeOK
  <2>2. PlainOptions(c).plugin = IF args[c].override = "noPlugin" THEN "none" ELSE "unset"
    BY DEF PlainOptions, Overridden
  <2>3. /\ Wish(c)' = Wish(c) /\ Wish(c).must = args[c].require
        /\ Wish(c).engine = "yes" => WantNative(c)
        /\ Wish(c).engine = "never" <=> args[c].override = "noPlugin"
    BY <2>1 DEF Wish, WantNative
  <2>4. OptionsFit(c)'
    BY <1>5, <2>1, <2>2, <2>3 DEF OptionsFit
  <2>5. QED
    BY <2>1, <2>4 DEF AloneCall, BeforeCreate, ConfFits
<1>6. CASE /\ WantNative(c)
           /\ Goto(c, "java", IcebergNote(c))
           /\ UNCHANGED <<world, spark, args, tz, opts, result, calls>>
  <2>1. pc'[c] = "java" /\ warned'[c] = warned[c] \cup IcebergNote(c)
    BY <1>1, <1>6 DEF TypeOK
  <2>2. QED
    BY <1>1, <1>2, <1>3, <1>6, <2>1 DEF AloneCall, BeforeCreate, ConfFits, WantNative
<1>7. QED
  <2>1. GoPlain(c, {}) /\ ~WantNative(c) => ConfFits' /\ AloneCall(c)'
    BY <1>5
  <2>2. Degrade(c) => ConfFits' /\ AloneCall(c)'
    BY <1>4, <1>5 DEF Degrade, Errors
  <2>3. QED
    BY <1>4, <1>6, <2>1, <2>2 DEF ResolveJar, Errors

(* Steps on the native path before the options are settled.                *)
LEMMA NativePathAlone ==
    ASSUME AloneInv, NEW c \in Callers, NEW next \in {"tz", "jars"}, NEW notes,
           pc[c] \in {"java", "tz"}, Goto(c, next, notes), notes \cap Loud = {},
           UNCHANGED <<host, spark, args>>
    PROVE  ConfFits' /\ AloneCall(c)'
<1>1. AloneCall(c) /\ TypeOK /\ ConfFits
    BY DEF AloneInv, IInv
<1>2. context = "none" /\ warned[c] \cap Loud = {} /\ WantNative(c)
    BY <1>1 DEF AloneCall, BeforeCreate
<1>3. pc'[c] = next /\ warned'[c] = warned[c] \cup notes
    BY <1>1 DEF Goto, TypeOK
<1>4. QED
    BY <1>1, <1>2, <1>3 DEF AloneCall, BeforeCreate, ConfFits, WantNative, spark

LEMMA CheckJavaAlone ==
    ASSUME AloneInv, NEW c \in Callers, CheckJava(c)
    PROVE  ConfFits' /\ AloneCall(c)'
<1>1. JavaNote \cap Loud = {}
    BY DEF JavaNote, Loud
<1>2. QED
    BY <1>1, RaiseAlone, NativePathAlone DEF CheckJava, world, local

LEMMA EnsureTimezonesAlone ==
    ASSUME AloneInv, NEW c \in Callers, EnsureTimezones(c)
    PROVE  ConfFits' /\ AloneCall(c)'
<1> DEFINE notes == IF TzOutcome = "missing" THEN {"tz"} ELSE {}
<1>1. notes \cap Loud = {}
    BY DEF Loud
<1>2. CASE Raise(c, "Unavailable")
    BY <1>2, RaiseAlone
<1>3. CASE Goto(c, "jars", notes) /\ UNCHANGED <<host, spark, args>>
    BY <1>1, <1>3, NativePathAlone DEF EnsureTimezones
<1>4. QED
    BY <1>2, <1>3 DEF EnsureTimezones

LEMMA AddJarsAlone ==
    ASSUME AloneInv, NEW c \in Callers, AddJars(c)
    PROVE  ConfFits' /\ AloneCall(c)'
<1> USE DEF Goto, spark, world
<1>1. AloneCall(c) /\ TypeOK /\ ConfFits
    BY DEF AloneInv, IInv
<1>2. context = "none" /\ warned[c] \cap Loud = {} /\ WantNative(c)
    BY <1>1 DEF AddJars, AloneCall, BeforeCreate
<1>3. CASE args[c].extraJars = "absent"
    BY <1>3, RaiseAlone DEF AddJars
<1>4. CASE args[c].extraJars # "absent"
  <2>1. /\ pc'[c] = "create" /\ context' = "none" /\ args' = args /\ host' = host
        /\ opts'[c] = NativeOptions(c)
        /\ warned'[c] = warned[c] \cup SplitNote(c)
    BY <1>1, <1>2, <1>4 DEF AddJars, TypeOK
  <2>2. SplitNote(c) \cap Loud = {}
    BY DEF SplitNote, Loud
  <2>3. NativeOptions(c).plugin = IF args[c].override = "noPlugin" THEN "none" ELSE "gluten"
    BY DEF NativeOptions, Overridden
  <2>4. /\ Wish(c)' = Wish(c)
        /\ Wish(c).engine = IF args[c].override = "noPlugin" THEN "never" ELSE "yes"
    BY <1>2, <2>1 DEF Wish, WantNative
  <2>5. OptionsFit(c)'
    BY <1>2, <2>1, <2>2, <2>3, <2>4 DEF OptionsFit
  <2>6. QED
    BY <2>1, <2>5 DEF AloneCall, BeforeCreate, ConfFits
<1>5. QED
    BY <1>3, <1>4

LEMMA NoteDriverHeapAlone ==
    ASSUME AloneInv, NEW c \in Callers, NoteDriverHeap(c)
    PROVE  ConfFits' /\ AloneCall(c)'
<1>1. AloneCall(c) /\ TypeOK /\ ConfFits /\ pc[c] = "note"
    BY DEF AloneInv, IInv, NoteDriverHeap
<1>2. pc'[c] = "returned" /\ warned[c] \subseteq warned'[c] /\ result' = result /\ Wish(c)' = Wish(c)
    BY <1>1 DEF NoteDriverHeap, Goto, TypeOK, local, world, Wish, WantNative
<1>3. QED
    BY <1>1, <1>2 DEF AloneCall, BeforeCreate, ConfFits, NoteDriverHeap, spark

(* A live context handed back by Attach.                                   *)
LEMMA AttachEffect ==
    ASSUME AloneInv, NEW c \in Callers, Attach(c)
    PROVE  /\ context # "none" /\ UNCHANGED <<host, args, context, conf, gateway, warned>>
           /\ "exists" \in warned[c]
           /\ pc'[c] = "returned" /\ result'[c].loaded = (context = "native")
<1>1. AloneCall(c) /\ TypeOK
    BY DEF AloneInv, IInv
<1>2. context # "none" /\ "exists" \in warned[c]
    BY <1>1 DEF AloneCall, Attach
<1>3. ReuseContext(c, NoOptions, "returned")
    BY <1>2 DEF Attach, GetOrCreate, StartContext, NewContext
<1>4. conf' = conf
  <2>1. conf \in ConfType /\ Overlay(conf, NoOptions) = [plugin |-> conf.plugin, enabled |-> conf.enabled]
    BY <1>1 DEF TypeOK, Overlay, NoOptions
  <2>2. QED
    BY <1>3, <2>1 DEF ReuseContext, ConfType
<1>5. QED
    BY <1>1, <1>2, <1>3, <1>4 DEF ReuseContext, Attach, TypeOK, world

LEMMA AttachAlone ==
    ASSUME AloneInv, NEW c \in Callers, Attach(c)
    PROVE  ConfFits' /\ AloneCall(c)'
<1>1. ConfFits'
    BY AttachEffect DEF AloneInv, ConfFits
<1>2. AloneCall(c)'
    BY AttachEffect DEF AloneCall, BeforeCreate, Loud
<1>3. QED
    BY <1>1, <1>2

(* Nothing is live when the session is built, so it is this call's own.    *)
LEMMA CreateEffect ==
    ASSUME AloneInv, NEW c \in Callers, Create(c)
    PROVE  /\ context = "none" /\ UNCHANGED <<host, args, opts, warned>>
           /\ opts[c].plugin = "gluten" => Kept' \in {Kept, TRUE}
           /\ opts[c].plugin # "gluten" => Kept' = Kept
           /\ \/ /\ pc'[c] = "raised" /\ UNCHANGED <<context, conf>>
              \/ /\ pc'[c] \in {"note", "returned"}
                 /\ Loads(opts[c]) <=> \/ opts[c].plugin = "gluten"
                                       \/ (opts[c].plugin = "unset" /\ Kept)
                 /\ result'[c].loaded = Loads(opts[c])
                 /\ result'[c].launched = ~gateway.up
                 /\ context' = IF Loads(opts[c]) THEN "native" ELSE "plain"
                 /\ conf'.plugin = "gluten" <=> Loads(opts[c])
<1>1. AloneCall(c) /\ TypeOK
    BY DEF AloneInv, IInv
<1>2. context = "none"
    BY <1>1 DEF AloneCall, Create
<1>3. CASE Raise(c, "ValueError")
    BY <1>1, <1>2, <1>3, KeptStays DEF Raise, Fail, TypeOK, world, spark
<1>4. CASE /\ GetOrCreate(c, opts[c], IF jar[c] = "none" THEN "returned" ELSE "note")
           /\ UNCHANGED <<world, args, jar, tz, opts, warned, calls>>
  <2>1. PICK next \in {"note", "returned"} : GetOrCreate(c, opts[c], next)
    BY <1>4
  <2>2. StartContext(c, opts[c], next) /\ host' = host
    BY <1>2, <1>4, <2>1 DEF GetOrCreate, ReuseContext, world
  <2>3. CASE Fail(c, "GatewayExited") /\ UNCHANGED spark
    <3>1. pc'[c] = "raised" /\ UNCHANGED <<context, conf>> /\ Kept' = Kept
      BY <1>1, <2>2, <2>3, KeptStays DEF Fail, TypeOK, spark
    <3>2. QED
      BY <1>2, <1>4, <3>1 DEF world
  <2>4. CASE NewContext(opts[c]) /\ ~Starts(opts[c]) /\ Fail(c, "PluginNotFound")
    <3>1. opts[c] \in OptionType
      BY <1>1 DEF TypeOK
    <3>2. pc'[c] = "raised" /\ UNCHANGED <<context, conf>>
      BY <1>1, <2>4 DEF Fail, TypeOK, NewContext
    <3>3. QED
      BY <1>1, <1>2, <1>4, <2>2, <2>4, <3>1, <3>2, NewContextSeen DEF world
  <2>5. CASE /\ NewContext(opts[c]) /\ Starts(opts[c])
             /\ pc' = [pc EXCEPT ![c] = next]
             /\ result' = [result EXCEPT ![c] =
                    [error |-> "none", created |-> TRUE,
                     launched |-> ~gateway.up, loaded |-> Loads(opts[c])]]
    <3>1. opts[c] \in OptionType
      BY <1>1 DEF TypeOK
    <3>2. /\ pc'[c] \in {"note", "returned"} /\ result'[c].loaded = Loads(opts[c])
          /\ result'[c].launched = ~gateway.up
      BY <1>1, <2>5 DEF TypeOK
    <3>3. /\ context' = IF Loads(opts[c]) THEN "native" ELSE "plain"
          /\ conf'.plugin = "gluten" <=> Loads(opts[c])
      BY <2>5 DEF NewContext, Loads
    <3>4. QED
      BY <1>1, <1>2, <1>4, <2>2, <2>5, <3>1, <3>2, <3>3, NewContextSeen DEF world
  <2>6. QED
    BY <2>2, <2>3, <2>4, <2>5 DEF StartContext
<1>5. QED
    BY <1>3, <1>4 DEF Create

LEMMA CreateAlone ==
    ASSUME AloneInv, NEW c \in Callers, Create(c)
    PROVE  ConfFits' /\ AloneCall(c)'
<1>1. ConfFits'
    BY CreateEffect DEF ConfFits
<1>2. OptionsFit(c) /\ Wish(c)' = Wish(c)
    BY CreateEffect DEF AloneInv, AloneCall, Create, Wish, WantNative
<1>3. AloneCall(c)'
    BY <1>2, CreateEffect DEF AloneCall, BeforeCreate, OptionsFit, Loud
<1>4. QED
    BY <1>1, <1>3

LEMMA StepAlone ==
    ASSUME AloneInv, NEW c \in Callers, Step(c)
    PROVE  AloneInv'
<1>1. IInv' /\ Apart(c)
    BY StepKeepsIInv, StepIsApart DEF AloneInv, IInv
<1>2. ConfFits' /\ AloneCall(c)'
    BY CheckContextAlone, AttachAlone, ResolveJarAlone, CheckJavaAlone, EnsureTimezonesAlone,
       AddJarsAlone, CreateAlone, NoteDriverHeapAlone DEF Step
<1>3. QED
    BY <1>1, <1>2, ApartKeepsAloneInv

----------------------------------------------------------------------------
(* What happens between calls.                                             *)

LEMMA EnterAlone ==
    ASSUME ~Overlap, AloneInv, NEW c \in Callers, NEW r \in Requests, Enter(c, r)
    PROVE  AloneInv'
<1> USE DEF world, spark
<1>1. IInv' /\ Quiescent
    BY EnterKeepsIInv DEF AloneInv, Enter
<1>2. /\ pc' = [pc EXCEPT ![c] = "check"] /\ warned' = [warned EXCEPT ![c] = {}]
      /\ args' = [args EXCEPT ![c] = r] /\ result' = [result EXCEPT ![c] = NoResult]
      /\ UNCHANGED <<host, context, conf>>
    BY DEF Enter
<1>3. OneAtATime' /\ ConfFits'
    BY <1>1, <1>2 DEF AloneInv, IInv, TypeOK, OneAtATime, Quiescent, ConfFits
<1>4. ASSUME NEW d \in Callers PROVE AloneCall(d)'
  <2>1. CASE d = c
    BY <1>2, <2>1 DEF AloneInv, IInv, TypeOK, AloneCall, BeforeCreate
  <2>2. CASE d # c
    <3>1. /\ pc'[d] = pc[d] /\ warned'[d] = warned[d] /\ result'[d] = result[d]
          /\ Wish(d)' = Wish(d)
      BY <1>2, <2>2 DEF AloneInv, IInv, TypeOK, Wish, WantNative
    <3>2. AloneCall(d) /\ pc[d] \in Resting
      BY <1>1 DEF AloneInv, Quiescent
    <3>3. QED
      BY <3>1, <3>2 DEF AloneCall, BeforeCreate, Resting
  <2>3. QED
    BY <2>1, <2>2
<1>5. QED
    BY <1>1, <1>3, <1>4 DEF AloneInv

(* Other code changes nothing that a call at rest depends on.              *)
LEMMA BetweenCallsAlone ==
    ASSUME AloneInv, IInv', ConfFits', Quiescent, UNCHANGED <<host, local, pc, warned>>
    PROVE  AloneInv'
<1>1. OneAtATime'
    BY DEF AloneInv, OneAtATime
<1>2. ASSUME NEW d \in Callers PROVE AloneCall(d)'
  <2>1. AloneCall(d) /\ pc[d] \in Resting
    BY DEF AloneInv, Quiescent
  <2>2. QED
    BY <2>1 DEF AloneCall, BeforeCreate, Resting, local, Wish, WantNative
<1>3. QED
    BY <1>1, <1>2 DEF AloneInv

LEMMA OutsideAlone ==
    ASSUME ~Overlap, AloneInv,
           \/ OtherSession \/ Stop \/ InstallTzdata
           \/ \E value \in {"true", "false"} : SetGluten(value)
    PROVE  AloneInv'
<1>1. IInv'
    BY OtherSessionKeepsIInv, StopKeepsIInv, SetGlutenKeepsIInv, InstallTzdataKeepsIInv DEF AloneInv
<1>2. Quiescent /\ UNCHANGED <<host, local, pc, warned>>
    BY DEF OtherSession, Stop, SetGluten, InstallTzdata, Elsewhere, world
<1>3. ConfFits'
  <2>1. CASE OtherSession
    BY <2>1 DEF OtherSession, NewContext, Loads, ConfFits
  <2>2. CASE Stop
    BY <2>2 DEF Stop, ConfFits
  <2>3. CASE InstallTzdata
    BY <2>3 DEF InstallTzdata, spark, ConfFits, AloneInv
  <2>4. ASSUME NEW value \in {"true", "false"}, SetGluten(value) PROVE ConfFits'
    <3>1. conf'.plugin = conf.plugin /\ context' = context
      BY <2>4 DEF SetGluten, AloneInv, IInv, TypeOK, ConfType
    <3>2. QED
      BY <3>1 DEF AloneInv, ConfFits
  <2>5. QED
    BY <2>1, <2>2, <2>3, <2>4
<1>4. QED
    BY <1>1, <1>2, <1>3, BetweenCallsAlone

LEMMA StutterAlone ==
    ASSUME AloneInv, UNCHANGED vars
    PROVE  AloneInv'
<1> USE DEF vars, world, spark, local
<1>1. IInv' /\ OneAtATime' /\ ConfFits'
    BY StutterKeepsIInv DEF AloneInv, OneAtATime, ConfFits
<1>2. \A d \in Callers : AloneCall(d)'
    BY DEF AloneInv, AloneCall, OptionsFit, Wish, WantNative
<1>3. QED
    BY <1>1, <1>2 DEF AloneInv

LEMMA NextAlone ==
    ASSUME ~Overlap
    PROVE  AloneInv /\ [Next]_vars => AloneInv'
BY EnterAlone, StepAlone, OutsideAlone, StutterAlone DEF Next

(* While no other code runs during a call, AloneInv holds throughout.      *)
THEOREM AloneInvariance ==
    ASSUME ~Overlap
    PROVE  Spec => []AloneInv
<1>1. Init => AloneInv
    BY AloneInit
<1>2. AloneInv /\ [Next]_vars => AloneInv'
    BY NextAlone
<1>3. QED
    BY <1>1, <1>2, PTL DEF Spec

----------------------------------------------------------------------------
(* Every step is one of SessionPromise, or none.                           *)

LEMMA PromiseInit == Init => Promised!Init
<1> SUFFICES ASSUME Init PROVE Promised!Init
    OBVIOUS
<1>2. \A c \in Callers : Stage(c) = "resting" /\ Answer(c) = [kind |-> "none", loud |-> FALSE]
    BY DEF Init, Stage, Answer, Resting
<1>3. \A c \in Callers : Wish(c) \in [engine : {"yes", "no", "never"}, must : BOOLEAN]
    BY DEF Init, Wish, DefaultRequest
<1>4. Kept \in BOOLEAN
    BY InitIInv, KeptType DEF IInv
<1>5. QED
    BY <1>2, <1>3, <1>4 DEF Init, stages, wishes, answers, Promised!Init, Promised!NoAnswer, Promised!Wishes

(* Nobody sees a step that changes no stage, wish or answer.               *)
LEMMA UnseenStep ==
    ASSUME context' = context, Kept' = Kept,
           \A c \in Callers : /\ Stage(c)' = Stage(c) /\ Wish(c)' = Wish(c)
                              /\ Answer(c)' = Answer(c)
    PROVE  UNCHANGED Promised!vars
<1>1. stages' = stages /\ wishes' = wishes /\ answers' = answers
    BY DEF stages, wishes, answers
<1>2. QED
    BY <1>1 DEF Promised!vars

(* The end of a call, as seen by its caller.                               *)
LEMMA SeenEnd ==
    ASSUME TypeOK, NEW c \in Callers, Apart(c), Stage(c) = "working", Stage(c)' = "resting",
           NEW a, Answer(c)' = a
    PROVE  Promised!End(c, a)
<1>1. \A d \in Callers : Wish(d)' = Wish(d)
    BY DEF Apart, Wish, WantNative
<1>2. \A d \in Callers \ {c} : Stage(d)' = Stage(d) /\ Answer(d)' = Answer(d)
    BY DEF Apart, Stage, Answer
<1>3. QED
    BY <1>1, <1>2 DEF Promised!End, stages, wishes, answers

LEMMA SilentStep ==
    ASSUME NEW c \in Callers, Apart(c), context' = context, gateway' = gateway,
           Stage(c)' = Stage(c), Answer(c)' = Answer(c)
    PROVE  UNCHANGED Promised!vars
<1>1. \A d \in Callers : Wish(d)' = Wish(d)
    BY DEF Apart, Wish, WantNative
<1>2. \A d \in Callers \ {c} : Stage(d)' = Stage(d) /\ Answer(d)' = Answer(d)
    BY DEF Apart, Stage, Answer
<1>3. Kept' = Kept
    BY KeptStays DEF Apart
<1>4. QED
    BY <1>1, <1>2, <1>3, UnseenStep

LEMMA RaiseIsRefusal ==
    ASSUME AloneInv, NEW c \in Callers, NEW why, Raise(c, why), Apart(c),
           pc[c] \in BeforeCreate \cup {"create"}
    PROVE  Promised!Refuse(c)
<1>1. context = "none" /\ context' = "none" /\ TypeOK
    BY DEF AloneInv, IInv, AloneCall, Raise, spark
<1>2. pc'[c] = "raised"
    BY <1>1 DEF TypeOK, Raise, Fail
<1>3. Stage(c) = "working" /\ Stage(c)' = "resting"
    BY <1>2 DEF Stage, Resting, BeforeCreate
<1>4. Answer(c)' = [kind |-> "error", loud |-> FALSE]
    BY <1>2 DEF Answer
<1>5. Kept' = Kept
    BY KeptStays DEF Apart, Raise, spark
<1>6. QED
    BY <1>1, <1>3, <1>4, <1>5, SeenEnd DEF Promised!Refuse, Promised!Keep

LEMMA CreateKeepsPromise ==
    ASSUME AloneInv, NEW c \in Callers, Create(c), Apart(c)
    PROVE  Promised!Refuse(c) \/ Promised!Build(c) \/ Promised!FallBack(c)
<1>1. pc[c] = "create" /\ OptionsFit(c) /\ context = "none" /\ TypeOK
    BY DEF AloneInv, IInv, AloneCall, Create
<1>2. Stage(c) = "working" /\ (pc'[c] \in {"raised", "note", "returned"} => Stage(c)' = "resting")
    BY <1>1 DEF Stage, Resting
<1>3. CASE pc'[c] = "raised" /\ UNCHANGED <<context, conf>>
  <2>1. Answer(c)' = [kind |-> "error", loud |-> FALSE]
    BY <1>3 DEF Answer
  <2>2. Promised!Keep(c)
    BY <1>1, CreateEffect DEF OptionsFit, Promised!Keep, wishes
  <2>3. QED
    BY <1>1, <1>2, <1>3, <2>1, <2>2, SeenEnd DEF Promised!Refuse
<1>4. CASE /\ pc'[c] \in {"note", "returned"}
           /\ Loads(opts[c]) <=> \/ opts[c].plugin = "gluten"
                                 \/ (opts[c].plugin = "unset" /\ Kept)
           /\ result'[c].loaded = Loads(opts[c])
           /\ context' = IF Loads(opts[c]) THEN "native" ELSE "plain"
  <2> DEFINE loud == warned[c] \cap Loud # {}
  <2>1. Answer(c)' = [kind |-> context', loud |-> loud]
    BY <1>4, CreateEffect DEF Answer, Loud
  <2>2. Promised!End(c, [kind |-> context', loud |-> loud])
    BY <1>1, <1>2, <1>4, <2>1, SeenEnd
  <2>3. opts[c].plugin \in {"unset", "gluten", "none"} /\ Wish(c).engine \in {"yes", "no", "never"}
    BY <1>1 DEF TypeOK, OptionType, Wish
  <2>4. wishes[c] = Wish(c)
    BY DEF wishes
  <2>5. CASE opts[c].plugin = "gluten"
    <3>1. context' = "native" /\ ~loud /\ wishes[c].engine = "yes"
      BY <1>1, <1>4, <2>4, <2>5 DEF OptionsFit
    <3>2. Promised!Keep(c)
      BY <2>5, <3>1, CreateEffect DEF Promised!Keep
    <3>3. QED
      BY <1>1, <2>2, <3>1, <3>2 DEF Promised!Build
  <2>6. CASE opts[c].plugin # "gluten" /\ Wish(c).engine = "yes"
    <3>1. context' = Promised!Unchosen
      BY <1>1, <1>4, <2>3, <2>6 DEF OptionsFit, Promised!Unchosen
    <3>2. loud /\ ~Wish(c).must /\ Kept' = Kept
      BY <1>1, <2>6, CreateEffect DEF OptionsFit, Loud
    <3>3. QED
      BY <1>1, <2>2, <2>4, <2>6, <3>1, <3>2 DEF Promised!FallBack
  <2>7. CASE opts[c].plugin # "gluten" /\ Wish(c).engine # "yes"
    <3>1. Promised!Keep(c)
      BY <2>4, <2>7, CreateEffect DEF Promised!Keep
    <3>2. CASE Wish(c).engine = "no"
      <4>1. context' = Promised!Unchosen
        BY <1>1, <1>4, <2>3, <2>7, <3>2 DEF OptionsFit, Promised!Unchosen
      <4>2. QED
        BY <1>1, <2>2, <2>4, <3>1, <3>2, <4>1 DEF Promised!Build
    <3>3. CASE Wish(c).engine = "never"
      <4>1. context' = "plain"
        BY <1>1, <1>4, <3>3 DEF OptionsFit
      <4>2. QED
        BY <1>1, <2>2, <2>4, <3>1, <3>3, <4>1 DEF Promised!Build
    <3>4. QED
      BY <2>3, <2>7, <3>2, <3>3
  <2>8. QED
    BY <2>5, <2>6, <2>7
<1>5. QED
    BY <1>3, <1>4, CreateEffect

LEMMA AttachKeepsPromise ==
    ASSUME AloneInv, NEW c \in Callers, Attach(c), Apart(c)
    PROVE  Promised!HandBack(c)
<1>1. pc[c] = "attach" /\ TypeOK /\ context \in {"plain", "native"} /\ context' = context
    BY AttachEffect DEF AloneInv, IInv, TypeOK, Attach
<1>2. Stage(c) = "working" /\ Stage(c)' = "resting"
    BY <1>1, AttachEffect DEF Stage, Resting
<1>3. Answer(c)' = [kind |-> context, loud |-> TRUE]
    BY <1>1, AttachEffect DEF Answer
<1>4. Kept' = Kept
    BY AttachEffect, KeptStays
<1>5. QED
    BY <1>1, <1>2, <1>3, <1>4, SeenEnd DEF Promised!HandBack

(* The steps before the session is built show nothing, unless they raise.  *)
LEMMA PreparationKeepsPromise ==
    ASSUME AloneInv, NEW c \in Callers, Apart(c),
           CheckContext(c) \/ ResolveJar(c) \/ CheckJava(c) \/ EnsureTimezones(c) \/ AddJars(c)
    PROVE  Promised!Refuse(c) \/ UNCHANGED Promised!vars
<1> USE DEF spark
<1>1. TypeOK
    BY DEF AloneInv, IInv
<1>2. pc[c] = "check" \/ pc[c] \in BeforeCreate
    BY DEF CheckContext, ResolveJar, CheckJava, EnsureTimezones, AddJars, BeforeCreate
<1>3. CASE \E why \in Errors : Raise(c, why) /\ ~CheckContext(c)
    BY <1>3, RaiseIsRefusal
       DEF CheckContext, ResolveJar, CheckJava, EnsureTimezones, AddJars, BeforeCreate
<1>4. CASE \E next \in BeforeCreate \cup {"attach", "create"}, notes \in SUBSET Notes :
               Goto(c, next, notes) /\ UNCHANGED <<context, gateway>>
  <2>1. pc'[c] \in BeforeCreate \cup {"attach", "create"}
    BY <1>1, <1>4 DEF Goto, TypeOK
  <2>2. Stage(c)' = Stage(c) /\ Answer(c)' = Answer(c)
    BY <1>2, <2>1 DEF Stage, Answer, Resting, BeforeCreate
  <2>3. QED
    BY <1>4, <2>2, SilentStep
<1>5. CASE CheckContext(c)
  <2>1. {} \in SUBSET Notes /\ {"exists"} \in SUBSET Notes
    BY DEF Notes
  <2>2. QED
    BY <1>4, <1>5, <2>1 DEF CheckContext, BeforeCreate
<1>6. CASE ResolveJar(c)
  <2>1. \A notes \in {{}, {"fallback"}} : notes \cup IcebergNote(c) \in SUBSET Notes
    BY DEF IcebergNote, Notes
  <2>2. ASSUME NEW notes \in {{}, {"fallback"}}, GoPlain(c, notes)
        PROVE  UNCHANGED Promised!vars \/ Promised!Refuse(c)
    BY <1>4, <2>1, <2>2 DEF GoPlain
  <2>3. Raise(c, "JarNotFound") \/ Raise(c, "ManyBundles") \/ Raise(c, "Unavailable")
        => Promised!Refuse(c)
    BY <1>6, RaiseIsRefusal DEF ResolveJar, BeforeCreate
  <2>4. Goto(c, "java", IcebergNote(c)) /\ UNCHANGED <<context, gateway>>
        => UNCHANGED Promised!vars \/ Promised!Refuse(c)
    BY <1>4, <2>1 DEF BeforeCreate
  <2>5. QED
    BY <1>6, <2>2, <2>3, <2>4 DEF ResolveJar, Degrade
<1>7. CASE CheckJava(c)
  <2>1. JavaNote \in SUBSET Notes
    BY DEF JavaNote, Notes
  <2>2. QED
    BY <1>4, <1>7, <2>1, RaiseIsRefusal DEF CheckJava, BeforeCreate
<1>8. CASE EnsureTimezones(c)
  <2>1. (IF TzOutcome = "missing" THEN {"tz"} ELSE {}) \in SUBSET Notes
    BY DEF Notes
  <2>2. QED
    BY <1>4, <1>8, <2>1, RaiseIsRefusal DEF EnsureTimezones, BeforeCreate
<1>9. CASE AddJars(c)
  <2>1. SplitNote(c) \in SUBSET Notes
    BY DEF SplitNote, Notes
  <2>2. QED
    BY <1>4, <1>9, <2>1, RaiseIsRefusal DEF AddJars, BeforeCreate
<1>10. QED
    BY <1>5, <1>6, <1>7, <1>8, <1>9

LEMMA NoteKeepsPromise ==
    ASSUME AloneInv, NEW c \in Callers, NoteDriverHeap(c), Apart(c)
    PROVE  UNCHANGED Promised!vars
<1>1. pc[c] = "note" /\ TypeOK
    BY DEF AloneInv, IInv, NoteDriverHeap
<1>2. /\ pc'[c] = "returned" /\ result' = result /\ UNCHANGED <<context, gateway>>
      /\ warned'[c] \cap Loud = warned[c] \cap Loud
    BY <1>1 DEF NoteDriverHeap, Goto, TypeOK, local, spark, Loud
<1>3. Stage(c)' = Stage(c) /\ Answer(c)' = Answer(c)
    BY <1>1, <1>2 DEF Stage, Answer, Resting, Loud
<1>4. QED
    BY <1>2, <1>3, SilentStep

LEMMA StepKeepsPromise ==
    ASSUME AloneInv, NEW c \in Callers, Step(c)
    PROVE  Promised!Next \/ UNCHANGED Promised!vars
<1>1. Apart(c)
    BY StepIsApart DEF AloneInv, IInv
<1>2. \/ Promised!HandBack(c) \/ Promised!Build(c) \/ Promised!FallBack(c) \/ Promised!Refuse(c)
      \/ UNCHANGED Promised!vars
    BY <1>1, AttachKeepsPromise, CreateKeepsPromise, PreparationKeepsPromise, NoteKeepsPromise DEF Step
<1>3. QED
    BY <1>2 DEF Promised!Next

LEMMA QuiescentIsQuiet ==
    ASSUME Quiescent
    PROVE  Promised!Quiet
BY DEF Quiescent, Promised!Quiet, stages, Stage

LEMMA EnterIsCall ==
    ASSUME ~Overlap, AloneInv, NEW c \in Callers, NEW r \in Requests, Enter(c, r)
    PROVE  Promised!Next
<1> USE DEF world, spark
<1>1. Promised!Quiet
    BY QuiescentIsQuiet DEF Enter
<1>2. r \in RequestType /\ host \in HostType
    BY ConstantsAssumption DEF ConstantsAssumption, AloneInv, IInv, TypeOK
<1>3. /\ pc' = [pc EXCEPT ![c] = "check"] /\ warned' = [warned EXCEPT ![c] = {}]
      /\ args' = [args EXCEPT ![c] = r] /\ result' = [result EXCEPT ![c] = NoResult]
      /\ UNCHANGED <<host, context, gateway>> /\ TypeOK
    BY DEF Enter, AloneInv, IInv
<1>4. PICK w \in Promised!Wishes : Wish(c)' = w
  <2>1. args'[c] = r /\ host' = host
    BY <1>3 DEF TypeOK
  <2>2. r.require \in BOOLEAN
    BY <1>2 DEF RequestType
  <2>3. Wish(c)'.engine \in {"yes", "no", "never"} /\ Wish(c)'.must = r.require
    BY <2>1 DEF Wish
  <2>4. Wish(c)' \in [engine : {"yes", "no", "never"}, must : BOOLEAN]
    BY <2>2, <2>3 DEF Wish
  <2>5. QED
    BY <2>4 DEF Promised!Wishes
<1>5. Stage(c)' = "working" /\ Answer(c)' = Promised!NoAnswer
    BY <1>3 DEF Stage, Answer, Resting, TypeOK, Promised!NoAnswer
<1>6. \A d \in Callers \ {c} : /\ Stage(d)' = Stage(d) /\ Wish(d)' = Wish(d)
                                /\ Answer(d)' = Answer(d)
  <2> SUFFICES ASSUME NEW d \in Callers \ {c}
               PROVE  Stage(d)' = Stage(d) /\ Wish(d)' = Wish(d) /\ Answer(d)' = Answer(d)
      OBVIOUS
  <2>1. /\ pc'[d] = pc[d] /\ warned'[d] = warned[d] /\ args'[d] = args[d]
        /\ result'[d] = result[d]
      BY <1>3 DEF TypeOK
  <2>2. QED
      BY <1>3, <2>1 DEF Stage, Wish, Answer, WantNative
<1>7. Promised!Call(c, w)
    BY <1>1, <1>3, <1>4, <1>5, <1>6, KeptStays DEF Promised!Call, stages, wishes, answers
<1>8. QED
    BY <1>7 DEF Promised!Next

LEMMA OutsideKeepsPromise ==
    ASSUME ~Overlap, AloneInv,
           \/ OtherSession \/ Stop \/ InstallTzdata
           \/ \E value \in {"true", "false"} : SetGluten(value)
    PROVE  Promised!Next \/ UNCHANGED Promised!vars
<1>1. Promised!Quiet /\ UNCHANGED <<host, local, pc, warned>>
    BY QuiescentIsQuiet DEF OtherSession, Stop, SetGluten, InstallTzdata, Elsewhere, world
<1>2. \A c \in Callers : Stage(c)' = Stage(c) /\ Wish(c)' = Wish(c) /\ Answer(c)' = Answer(c)
    BY <1>1 DEF Stage, Wish, Answer, WantNative, local
<1>3. stages' = stages /\ wishes' = wishes /\ answers' = answers
    BY <1>2 DEF stages, wishes, answers
<1>4. CASE OtherSession
  <2>1. /\ NewContext(NoOptions) /\ TypeOK /\ NoOptions.plugin = "unset"
        /\ NoOptions \in OptionType /\ context = "none"
    BY <1>4, NoOptionsFit DEF OtherSession, NewContext, AloneInv, IInv, NoOptions
  <2>2. Kept' = Kept /\ (Loads(NoOptions) <=> Kept)
    BY <1>1, <2>1, NewContextSeen
  <2>3. CASE Starts(NoOptions)
    <3>1. context' = Promised!Unchosen
      BY <2>1, <2>2, <2>3 DEF NewContext, Promised!Unchosen
    <3>2. QED
      BY <1>1, <1>3, <2>1, <2>2, <3>1 DEF Promised!Others, Promised!Next
  <2>4. CASE ~Starts(NoOptions)
    BY <1>2, <2>1, <2>2, <2>4, UnseenStep DEF NewContext
  <2>5. QED
    BY <2>3, <2>4
<1>5. CASE Stop
  <2>1. context # "none" /\ context' = "none" /\ Kept' = Kept
    BY <1>1, <1>5, KeptStays DEF Stop
  <2>2. QED
    BY <1>1, <1>3, <2>1 DEF Promised!Others, Promised!Next
<1>6. CASE UNCHANGED <<context, gateway>>
    BY <1>1, <1>2, <1>6, KeptStays, UnseenStep
<1>7. QED
    BY <1>4, <1>5, <1>6 DEF SetGluten, InstallTzdata, spark

LEMMA NextKeepsPromise ==
    ASSUME ~Overlap
    PROVE  AloneInv /\ [Next]_vars => [Promised!Next]_(Promised!vars)
<1>1. ASSUME AloneInv, UNCHANGED vars PROVE UNCHANGED Promised!vars
  <2>1. \A c \in Callers : Stage(c)' = Stage(c) /\ Wish(c)' = Wish(c) /\ Answer(c)' = Answer(c)
    BY <1>1 DEF vars, world, local, Stage, Wish, Answer, WantNative
  <2>2. QED
    BY <1>1, <2>1, UnseenStep, KeptStays DEF vars, world, spark
<1>2. QED
    BY <1>1, EnterIsCall, StepKeepsPromise, OutsideKeepsPromise DEF Next

----------------------------------------------------------------------------
(* The results, for a process in which no other code runs during a call.   *)

(* get_session implements SessionPromise: to its callers it is one step    *)
(* that hands back, builds, falls back loudly or refuses (session.py:48).  *)
THEOREM PromiseKept ==
    ASSUME ~Overlap
    PROVE  Spec => KeepsPromise
<1>1. AloneInv /\ [Next]_vars => [Promised!Next]_(Promised!vars)
    BY NextKeepsPromise
<1>2. QED
    BY <1>1, PromiseInit, AloneInvariance, PTL DEF Spec, KeepsPromise, Promised!Spec

(* A call that wanted the engine and comes back without it has warned, on  *)
(* every path through get_session (session.py:146-204).                    *)
THEOREM FallbackLoud ==
    ASSUME ~Overlap
    PROVE  Spec => []FallbackIsLoud
<1>1. AloneInv => FallbackIsLoud
    BY DEF AloneInv, AloneCall, FallbackIsLoud, Returned, Wish, Loud
<1>2. QED
    BY <1>1, AloneInvariance, PTL

(* The conf of a live session says "engaged" only if the plugin is loaded: *)
(* no call writes its options into a session it met (session.py:122-133).  *)
THEOREM EngagedIsLoaded ==
    ASSUME ~Overlap
    PROVE  Spec => []EngagedMeansLoaded
<1>1. AloneInv => EngagedMeansLoaded
    BY DEF AloneInv, ConfFits, EngagedMeansLoaded, IsEngaged
<1>2. QED
    BY <1>1, AloneInvariance, PTL

(* No step of a call changes a live session (session.py:122-133).          *)
THEOREM ExistingUnchanged ==
    ASSUME ~Overlap
    PROVE  Spec => ExistingSessionUnchanged
<1> DEFINE A == (\E c \in Callers : Step(c)) /\ context # "none"
                => UNCHANGED <<context, conf, gateway>>
<1>1. ASSUME AloneInv, NEW c \in Callers, Step(c), context # "none"
      PROVE  UNCHANGED <<context, conf, gateway>>
  <2>1. pc[c] \notin BeforeCreate \cup {"create"}
    BY <1>1 DEF AloneInv, AloneCall
  <2>2. CheckContext(c) \/ Attach(c) \/ NoteDriverHeap(c)
    BY <1>1, <2>1 DEF Step, ResolveJar, CheckJava, EnsureTimezones, AddJars, Create, BeforeCreate
  <2>3. QED
    BY <1>1, <2>2, AttachEffect DEF CheckContext, NoteDriverHeap, spark
<1>2. AloneInv /\ [Next]_vars => [A]_vars
    BY <1>1
<1>3. QED
    BY <1>2, AloneInvariance, PTL DEF Spec, ExistingSessionUnchanged
=============================================================================
