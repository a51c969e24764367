------------------------------ MODULE Validate ------------------------------
(***************************************************************************)
(* One A/B validation of a query (harness/validate.py, harness/_arm.py):   *)
(* the gluten arm is measured, then the baseline arm, and a three-gate     *)
(* verdict is returned.  It is made in one of three ways:                  *)
(*                                                                         *)
(*   "library"   validate() in the session of the code that calls it       *)
(*   "command"   `velox-spark validate`: run_cli starts the session, runs  *)
(*               the setup statements, calls validate(), stops the session *)
(*   "isolated"  `velox-spark validate --isolated`: each arm is a process  *)
(*               with a session of its own and hands a result file over    *)
(*                                                                         *)
(* In the first two both arms run in one session and spark.gluten.enabled  *)
(* is switched between them.  Whatever touches Spark may fail or hang, and *)
(* the process of an arm may be killed at any moment.                      *)
(***************************************************************************)
EXTENDS PlanText

CONSTANTS
    Queries,   \* the queries validated
    Cap        \* --max-compare-rows

(* What distinguishes queries: their size, whether the result can be       *)
(* totally ordered, whether a capped prefix is one tie band, the text of   *)
(* the plan Velox executes, where Velox's result differs from the JVM's,   *)
(* the speedup, and how many rows the setup statements leave behind in     *)
(* the tables it reads, which outlive a session.  A result that "drifts"   *)
(* has floating-point drift between executions that compare_rows may not   *)
(* see through: in rows that tie on the sort key, across the rounding of a *)
(* key, or in which rows end up at the end of a capped prefix.             *)
QueryType ==
    [rows : Nat, orderable : BOOLEAN, tied : BOOLEAN, plan : PlanTexts,
     differs : {"nowhere", "prefix", "tail", "count"}, drifts : BOOLEAN,
     speed : {"faster", "slower", "unknown"}, appends : Nat]

ASSUME ValidateAssumption == Queries \subseteq QueryType /\ Cap \in Nat \ {0}

Modes == {"library", "command", "isolated"}
Arms == {"gluten", "baseline"}
Engines == {"native", "jvm"}
NoExit == -1    \* the command has not ended

VARIABLES
    mode,      \* how the validation is made
    query,     \* the query under test
    pc,        \* the step it is at
    arm,       \* the arm being measured
    session,   \* the session the arm runs in: "none", "open", "stopped"
    loaded,    \* is the plugin loaded in it?
    enabled,   \* spark.gluten.enabled there, at run time
    appended,  \* rows the setup statements have left behind so far
    measured,  \* what each arm has measured so far
    proc,      \* each arm's process: "none", "running", "ok", "failed"
    file,      \* the result file of the arm: "none", "partial", "whole"
    warning,   \* was the "comparison is meaningless" note added?
    mismatched, \* were mismatches reported with the verdict?
    verdict,   \* "none", "passed" or "failed"
    printed,   \* was the verdict printed?
    saved,     \* was it written as JSON?
    exit       \* exit code of the command, or NoExit

work == <<loaded, enabled, appended, measured>>
arms == <<proc, file>>
outcome == <<warning, mismatched, verdict, printed, saved, exit>>
vars == <<mode, query, pc, arm, session, work, arms, outcome>>

Isolated == mode = "isolated"

(* The engine an execution of the query uses, read when it is planned.     *)
Engine == IF loaded /\ enabled THEN "native" ELSE "jvm"

(* Fault: only the runtime switch is read.                                 *)
EngagedBySwitchAlone == enabled

IsEngaged == loaded /\ enabled

Nothing == [rowsBy |-> "none", rows |-> "none", total |-> 0,
            planBy |-> "none", timedBy |-> "none", engaged |-> FALSE]

(* Steps that execute statements, that read or set the conf of a session,  *)
(* and in which the process of an arm runs.                                *)
Executions == {"setup", "collect", "plan", "time"}
ConfSteps == {"check", "switch", "restore", "unwind"}
ArmSteps == Executions \cup {"open", "close", "abandon", "write", "leave"}
Steps == ArmSteps \cup ConfSteps
         \cup {"parse", "spawn", "reap", "judge", "report", "save", "tell"}

(* validate() ends with an exception ("raised") or, "lost", with one that  *)
(* says the conf of its session cannot be read or set any more.            *)
Ended == {"done", "raised", "lost", "hung"}

----------------------------------------------------------------------------
Init ==
    /\ mode \in Modes
    /\ query \in Queries
    /\ pc = IF mode = "library" THEN "check" ELSE "parse"
    /\ arm = "gluten"
    /\ session = IF mode = "library" THEN "open" ELSE "none"
    /\ loaded \in IF mode = "library" THEN BOOLEAN ELSE {FALSE}
    /\ enabled \in IF mode = "library" THEN BOOLEAN ELSE {FALSE}
    /\ appended = 0
    /\ measured = [a \in Arms |-> Nothing]
    /\ proc = [a \in Arms |-> "none"]
    /\ file = "none"
    /\ warning = FALSE
    /\ mismatched = FALSE
    /\ verdict = "none"
    /\ printed = FALSE
    /\ saved = FALSE
    /\ exit = NoExit

(* The process at work ends with an uncaught exception: that of an arm, or *)
(* the one that runs the command.                                          *)
Die ==
    IF Isolated /\ pc \in ArmSteps
    THEN /\ proc' = [proc EXCEPT ![arm] = "failed"]
         /\ pc' = "reap"
         /\ UNCHANGED exit
    ELSE /\ exit' = 1
         /\ pc' = "done"
         /\ UNCHANGED proc

----------------------------------------------------------------------------
(* run_cli, up to the session or the first process.                        *)

Parse ==
    /\ pc = "parse"
    /\ pc' = IF Isolated THEN "spawn" ELSE "open"
    /\ UNCHANGED <<mode, query, arm, session, work, arms, outcome>>

(* A --register or --conf that does not parse.                             *)
RefuseArguments ==
    /\ pc = "parse"
    /\ exit' = 2
    /\ pc' = "done"
    /\ UNCHANGED <<mode, query, arm, session, work, arms, warning, mismatched, verdict,
                   printed, saved>>

(* A query or setup file that cannot be read, sizes that do not parse.     *)
FailEarly ==
    /\ pc = "parse"
    /\ Die
    /\ UNCHANGED <<mode, query, arm, session, work, file, warning, mismatched, verdict,
                   printed, saved>>

(* _run_arm_in_subprocess: a directory of its own, then the process.       *)
Spawn ==
    /\ pc = "spawn"
    /\ proc' = [proc EXCEPT ![arm] = "running"]
    /\ file' = "none"
    /\ pc' = "open"
    /\ UNCHANGED <<mode, query, arm, session, work, outcome>>

(* get_session: the baseline process asks for no engine; whoever asks may  *)
(* be given a plain session all the same, and --conf may switch it off.    *)
Open ==
    /\ pc = "open"
    /\ session' = "open"
    /\ loaded' \in IF arm = "baseline" THEN {FALSE} ELSE BOOLEAN
    /\ enabled' \in BOOLEAN
    /\ pc' = "setup"
    /\ UNCHANGED <<mode, query, arm, appended, measured, arms, outcome>>

(* _apply_setup, in every process that opens a session.                    *)
Setup ==
    /\ pc = "setup"
    /\ appended' = appended + query.appends
    /\ pc' = IF Isolated THEN "collect" ELSE "check"
    /\ UNCHANGED <<mode, query, arm, session, loaded, enabled, measured, arms, outcome>>

----------------------------------------------------------------------------
(* validate(), and _measure for each arm.                                  *)

Check ==
    /\ pc = "check"
    /\ warning' = ~IsEngaged
    /\ enabled' = TRUE
    /\ pc' = "collect"
    /\ UNCHANGED <<mode, query, arm, session, loaded, appended, measured, arms,
                   mismatched, verdict, printed, saved, exit>>

(* Fault: what is counted is the rows beyond the cap.                      *)
TotalBeyondCap == query.rows - Cap

Total ==
    query.rows + appended
        + IF Engine = "native" /\ query.differs = "count" THEN 1 ELSE 0

(* _collect_for_compare: everything up to the cap, else a totally ordered  *)
(* prefix without its boundary tie band, else nothing.  A failing attempt  *)
(* to order the result counts as one that cannot be ordered.               *)
Collected ==
    IF Total <= Cap THEN {"all"}
    ELSE IF query.orderable /\ ~query.tied THEN {"prefix", "skipped"}
    ELSE {"skipped"}

Collect ==
    /\ pc = "collect"
    /\ \E rows \in Collected :
           measured' = [measured EXCEPT ![arm].rowsBy = Engine, ![arm].rows = rows,
                                        ![arm].total = Total]
    /\ pc' = "plan"
    /\ UNCHANGED <<mode, query, arm, session, loaded, enabled, appended, arms, outcome>>

(* executed_plan: of the collected execution when all rows were collected, *)
(* of a fresh one otherwise.                                               *)
ReadPlan ==
    /\ pc = "plan"
    /\ measured' = [measured EXCEPT ![arm].planBy =
           IF measured[arm].rows = "all" THEN measured[arm].rowsBy ELSE Engine]
    /\ pc' = "time"
    /\ UNCHANGED <<mode, query, arm, session, loaded, enabled, appended, arms, outcome>>

AfterTime ==
    IF Isolated THEN "close" ELSE IF arm = "gluten" THEN "switch" ELSE "restore"

Time ==
    /\ pc = "time"
    /\ measured' = [measured EXCEPT ![arm].timedBy = Engine, ![arm].engaged = IsEngaged]
    /\ pc' = AfterTime
    /\ UNCHANGED <<mode, query, arm, session, loaded, enabled, appended, arms, outcome>>

(* session.disable_gluten.                                                 *)
Switch ==
    /\ pc = "switch"
    /\ enabled' = FALSE
    /\ arm' = "baseline"
    /\ pc' = "collect"
    /\ UNCHANGED <<mode, query, session, loaded, appended, measured, arms, outcome>>

(* The finally clause around the baseline arm: session.enable_gluten.      *)
Restore ==
    /\ pc \in {"restore", "unwind"}
    /\ enabled' = TRUE
    /\ pc' = IF pc = "restore" THEN "judge"
             ELSE IF mode = "library" THEN "raised" ELSE "abandon"
    /\ UNCHANGED <<mode, query, arm, session, loaded, appended, measured, arms, outcome>>

----------------------------------------------------------------------------
(* What goes wrong with Spark.                                             *)

(* Faults: no finally clause around the baseline arm; none around setup    *)
(* and measurements.                                                       *)
AfterFailureAtOnce == IF mode = "library" THEN "raised" ELSE "abandon"
AfterFailureUnstopped ==
    IF ~Isolated /\ arm = "baseline" THEN "unwind"
    ELSE IF mode = "library" THEN "raised" ELSE "report"

(* Which finally clause a failing statement or execution reaches first.    *)
AfterFailure ==
    IF ~Isolated /\ arm = "baseline" THEN "unwind"
    ELSE IF mode = "library" THEN "raised" ELSE "abandon"

Fail ==
    /\ pc \in Executions
    /\ pc' = AfterFailure
    /\ UNCHANGED <<mode, query, arm, session, work, arms, outcome>>

(* The session is gone with its JVM, or stopped by others: is_engaged,     *)
(* enable_gluten or disable_gluten raises, in the finally clause too.      *)
FailToSwitch ==
    /\ pc \in ConfSteps
    /\ pc' = IF mode = "library" THEN "lost" ELSE "abandon"
    /\ UNCHANGED <<mode, query, arm, session, work, arms, outcome>>

(* get_session raises: there is no session to stop.                        *)
FailToOpen ==
    /\ pc = "open"
    /\ Die
    /\ UNCHANGED <<mode, query, arm, session, work, file, warning, mismatched, verdict,
                   printed, saved>>

(* A statement or an execution never comes back.  Nobody waits with a      *)
(* time limit, neither for Spark nor for the process of an arm.            *)
Hang ==
    /\ pc \in Executions \cup ConfSteps \cup {"open", "close", "abandon"}
    /\ pc' = "hung"
    /\ UNCHANGED <<mode, query, arm, session, work, arms, outcome>>

(* The operating system kills an arm's process, its session with it.       *)
Kill ==
    /\ Isolated /\ pc \in ArmSteps
    /\ session' = IF session = "open" THEN "stopped" ELSE session
    /\ file' \in IF pc = "write" THEN {"none", "partial"} ELSE {file}
    /\ proc' = [proc EXCEPT ![arm] = "failed"]
    /\ pc' = "reap"
    /\ UNCHANGED <<mode, query, arm, work, outcome>>

----------------------------------------------------------------------------
(* The end of a session and of an arm's process.                           *)

(* The finally clause around setup and measurements: spark.stop().         *)
Close ==
    /\ pc = "close"
    /\ session' = "stopped"
    /\ pc' = IF Isolated THEN "write" ELSE "report"
    /\ UNCHANGED <<mode, query, arm, work, arms, outcome>>

(* spark.stop() raises: the process ends, and takes the session with it.   *)
FailToClose ==
    /\ pc = "close"
    /\ session' = "stopped"
    /\ Die
    /\ UNCHANGED <<mode, query, arm, work, file, warning, mismatched, verdict,
                   printed, saved>>

(* The same clause, reached by an exception, whether spark.stop() succeeds *)
(* or not.                                                                 *)
Abandon ==
    /\ pc = "abandon"
    /\ session' = "stopped"
    /\ Die
    /\ UNCHANGED <<mode, query, arm, work, file, warning, mismatched, verdict,
                   printed, saved>>

Write ==
    /\ pc = "write"
    /\ file' = "whole"
    /\ pc' = "leave"
    /\ UNCHANGED <<mode, query, arm, session, work, proc, outcome>>

Leave ==
    /\ pc = "leave"
    /\ proc' = [proc EXCEPT ![arm] = "ok"]
    /\ pc' = "reap"
    /\ UNCHANGED <<mode, query, arm, session, work, file, outcome>>

(* Fault: a result file is enough.                                         *)
ArmSucceededByFile == file # "none"

ArmSucceeded == proc[arm] = "ok" /\ file # "none"

(* The parent has waited for the process: its result, or a RuntimeError.   *)
(* What both arms measured are then the results the parent has read.       *)
Reap ==
    /\ pc = "reap" /\ ArmSucceeded
    /\ arm' = "baseline"
    /\ pc' = IF arm = "gluten" THEN "spawn" ELSE "judge"
    /\ UNCHANGED <<mode, query, session, work, arms, outcome>>

ReapFailure ==
    /\ pc = "reap" /\ ~ArmSucceeded
    /\ exit' = 1
    /\ pc' = "done"
    /\ UNCHANGED <<mode, query, arm, session, work, arms, warning, mismatched, verdict,
                   printed, saved>>

----------------------------------------------------------------------------
(* _compare_arm_rows and _verdict.                                         *)

Gluten == measured["gluten"]
Baseline == measured["baseline"]

(* Fault: rows that could not be compared count as equal.                  *)
NeverSkipped == FALSE

Skipped ==
    Gluten.total = Baseline.total /\ "skipped" \in {Gluten.rows, Baseline.rows}

(* compare_rows sees the rows both arms collected.                         *)
SeenBy(rows) ==
    CASE rows = "all" -> {"prefix", "tail"} [] rows = "prefix" -> {"prefix"} [] OTHER -> {}

(* Fault: an impossible comparison is reported as a mismatch.              *)
DifferenceSeenOrSkipped ==
    \/ Skipped
    \/ Gluten.rowsBy # Baseline.rowsBy /\ query.differs \in SeenBy(Gluten.rows)

DifferenceSeen ==
    /\ ~Skipped
    /\ Gluten.rowsBy # Baseline.rowsBy /\ query.differs \in SeenBy(Gluten.rows)

(* Are mismatches reported?  Where the rows agree but for drift, they may. *)
Mismatches ==
    IF Gluten.total # Baseline.total \/ DifferenceSeen THEN {TRUE}
    ELSE IF query.drifts /\ ~Skipped THEN BOOLEAN
    ELSE {FALSE}

Offloaded == IF Gluten.planBy = "native" THEN OffloadedIn(query.plan) ELSE 0
Boundaries == IF Gluten.planBy = "native" THEN BoundariesIn(query.plan) ELSE 0

(* Fault: a plan with nothing offloaded has no boundaries, so it passes.   *)
FallbackByBoundariesOnly == Boundaries <= Offloaded

FallbackOk == Offloaded > 0 /\ Boundaries <= Offloaded

(* speedup >= min_speedup.  "unknown" is no timings at all (--runs 0): NaN *)
(* never passes.  The ratio of one engine to itself may be anything.       *)
SpeedOk ==
    IF query.speed = "unknown" THEN {FALSE}
    ELSE IF Gluten.timedBy = Baseline.timedBy THEN {TRUE, FALSE}
    ELSE {query.speed = "faster"}

(* The three gates, and the comparison must have taken place.              *)
Passed(mismatch, speedOk) == ~mismatch /\ ~Skipped /\ FallbackOk /\ speedOk

Judge ==
    /\ pc = "judge"
    /\ warning' = (warning \/ (Isolated /\ ~Gluten.engaged))
    /\ \E mismatch \in Mismatches, speedOk \in SpeedOk :
           /\ mismatched' = mismatch
           /\ verdict' = IF Passed(mismatch, speedOk) THEN "passed" ELSE "failed"
    /\ pc' = CASE mode = "library" -> "done"
              [] mode = "command" -> "close"
              [] mode = "isolated" -> "report"
    /\ UNCHANGED <<mode, query, arm, session, work, arms, printed, saved, exit>>

----------------------------------------------------------------------------
(* run_cli, from the verdict on.                                           *)

(* format_result takes the least and the greatest of the timings, which    *)
(* fails when there are none.                                              *)
Report ==
    /\ pc = "report"
    /\ IF query.speed = "unknown"
       THEN Die /\ UNCHANGED printed
       ELSE printed' = TRUE /\ pc' = "save" /\ UNCHANGED <<proc, exit>>
    /\ UNCHANGED <<mode, query, arm, session, work, file, warning, mismatched, verdict, saved>>

(* Fault: the exit code tells that there was a verdict, not which.         *)
ExitCodeOfRun == 0

ExitCode == IF verdict = "passed" THEN 0 ELSE 1

(* --json, if given: the file is written, then its path is printed.        *)
Save ==
    /\ pc = "save"
    /\ saved' = TRUE
    /\ pc' = "tell"
    /\ UNCHANGED <<mode, query, arm, session, work, arms, warning, mismatched, verdict,
                   printed, exit>>

(* Without --json, or once the path has been printed.                      *)
Exit ==
    /\ pc \in {"save", "tell"}
    /\ exit' = ExitCode
    /\ pc' = "done"
    /\ UNCHANGED <<mode, query, arm, session, work, arms, warning, mismatched, verdict,
                   printed, saved>>

(* The file cannot be written or the path not be printed.                  *)
FailToSave ==
    /\ pc \in {"save", "tell"}
    /\ Die
    /\ UNCHANGED <<mode, query, arm, session, work, file, warning, mismatched, verdict,
                   printed, saved>>

Next ==
    \/ Parse \/ RefuseArguments \/ FailEarly
    \/ Spawn \/ Open \/ Setup
    \/ Check \/ Collect \/ ReadPlan \/ Time \/ Switch \/ Restore
    \/ Fail \/ FailToOpen \/ FailToSwitch \/ FailToClose \/ Hang \/ Kill
    \/ Close \/ Abandon \/ Write \/ Leave \/ Reap \/ ReapFailure
    \/ Judge \/ Report \/ Save \/ Exit \/ FailToSave

Spec == Init /\ [][Next]_vars

----------------------------------------------------------------------------
(* Properties.                                                             *)

Measurement ==
    [rowsBy : Engines \cup {"none"}, rows : {"none", "all", "prefix", "skipped"},
     total : Nat, planBy : Engines \cup {"none"}, timedBy : Engines \cup {"none"},
     engaged : BOOLEAN]

TypeOK ==
    /\ mode \in Modes /\ query \in Queries
    /\ pc \in Steps \cup Ended
    /\ arm \in Arms
    /\ session \in {"none", "open", "stopped"}
    /\ loaded \in BOOLEAN /\ enabled \in BOOLEAN /\ appended \in Nat
    /\ measured \in [Arms -> Measurement]
    /\ proc \in [Arms -> {"none", "running", "ok", "failed"}]
    /\ file \in {"none", "partial", "whole"}
    /\ warning \in BOOLEAN /\ mismatched \in BOOLEAN
    /\ verdict \in {"none", "passed", "failed"}
    /\ printed \in BOOLEAN /\ saved \in BOOLEAN
    /\ exit \in {NoExit, 0, 1, 2}

(* A verdict "passed" compared the two engines: rows, plan and timings of  *)
(* the gluten arm came from Velox, those of the baseline from the JVM.     *)
PassComparedEngines ==
    verdict = "passed" =>
        /\ {Gluten.rowsBy, Gluten.planBy, Gluten.timedBy} = {"native"}
        /\ {Baseline.rowsBy, Baseline.planBy, Baseline.timedBy} = {"jvm"}

(* The gate fails closed: a query whose results differ between the engines *)
(* never passes, compared or not, except in rows beyond the compared       *)
(* prefix of a result larger than the cap, or when what setup statements   *)
(* add between the arms of an isolated validation makes up for it.         *)
PassMeansRowsAgree ==
    verdict = "passed" =>
        \/ query.differs = "nowhere"
        \/ query.differs = "tail" /\ query.rows + appended > Cap
        \/ query.differs = "count" /\ Isolated /\ query.appends > 0

(* Mismatches are blamed on the engines only when both were at work: they  *)
(* are reported of queries whose results differ from one engine to the     *)
(* other, or that drift in a way compare_rows does not see through, or     *)
(* whose setup statements, run once for each arm of an isolated            *)
(* validation, add to what the query reads.                                *)
MismatchMeansDifference ==
    mismatched =>
        \/ query.differs # "nowhere" /\ Gluten.rowsBy # Baseline.rowsBy
        \/ query.drifts
        \/ Isolated /\ query.appends > 0

(* A verdict "passed" is of a query that ran mostly in Velox: of the nodes *)
(* that ran, some were native and no more were conversions.  Not so if a   *)
(* subquery with an adaptive plan of its own cuts the text short.          *)
PassMeansMostlyNative ==
    (verdict = "passed" /\ ~HasNestedPlan(query.plan)) =>
        /\ RanIn(query.plan, OffloadedNodes) > 0
        /\ RanIn(query.plan, BoundaryNodes) <= RanIn(query.plan, OffloadedNodes)

(* Whichever arm failed, and wherever, validate() leaves native execution  *)
(* of the caller's session switched on, unless the conf of that session    *)
(* cannot be set any more.                                                 *)
SwitchedBackOn == (mode = "library" /\ pc \in {"done", "raised"}) => enabled

(* Two arms that ran on one engine are never compared without a note that  *)
(* the comparison is meaningless.                                          *)
SameEngineIsNoted ==
    (verdict # "none" /\ Gluten.timedBy = Baseline.timedBy) => warning

(* The command leaves no session and no process behind, whichever step of  *)
(* it or of an arm's process failed or was killed: a session that is not   *)
(* stopped is that of a process that ended.                                *)
NothingLeftRunning ==
    (mode # "library" /\ pc = "done") =>
        session # "open" /\ \A a \in Arms : proc[a] # "running"

(* A verdict of an isolated validation rests on two processes that ended   *)
(* well, never on what a failed or killed one had got done.                *)
VerdictFromWholeArms ==
    (Isolated /\ verdict # "none") => \A a \in Arms : proc[a] = "ok"

(* The exit code is the gate: 0 only with a verdict "passed" that was      *)
(* printed, 2 only for arguments, before anything was measured.  A verdict *)
(* on file was printed before; one that says "passed" may still end with   *)
(* exit code 1, if the path of the file cannot be printed.                 *)
ExitTellsVerdict ==
    /\ exit = 0 => verdict = "passed" /\ printed
    /\ exit = 2 => verdict = "none" /\ session = "none"
    /\ saved => printed /\ (verdict = "failed" => exit \in {NoExit, 1})
=============================================================================
