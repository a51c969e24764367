--------------------------- MODULE ValidateProofs ---------------------------
(***************************************************************************)
(* Proofs about Validate, for any queries and any cap: what a verdict, a   *)
(* note and an exit code mean, whatever fails and whoever is killed.       *)
(***************************************************************************)
EXTENDS Validate, WellFoundedInduction, TLAPS

(* Where each way of validating can be, and with which arm.                *)
Route ==
    /\ mode = "library" =>
           pc \in {"check", "collect", "plan", "time", "switch", "restore", "unwind", "judge",
                   "done", "raised", "lost", "hung"}
    /\ mode = "command" =>
           pc \in {"parse", "open", "setup", "check", "collect", "plan", "time", "switch",
                   "restore", "unwind", "judge", "close", "abandon", "report", "save",
                   "tell", "done", "hung"}
    /\ mode = "isolated" =>
           pc \in ArmSteps \cup {"parse", "spawn", "reap", "judge", "report", "save", "tell",
                               "done", "hung"}
    /\ pc \in {"parse", "check", "switch"} => arm = "gluten"
    /\ ~Isolated /\ pc \in {"open", "setup"} => arm = "gluten"
    /\ pc \in {"restore", "unwind", "judge"} \/ verdict # "none" => arm = "baseline"

(* A verdict is given once, and what follows only reports it.              *)
VerdictLast ==
    /\ verdict # "none" => pc \in {"close", "report", "save", "tell", "done", "hung"}
    /\ pc \in {"report", "save", "tell"} \/ (pc = "close" /\ mode = "command") => verdict # "none"
    /\ pc = "close" /\ mode # "command" => verdict = "none"

Control == TypeOK /\ Route /\ VerdictLast

----------------------------------------------------------------------------
(* Types.                                                                  *)

LEMMA QueryFacts ==
    ASSUME query \in Queries
    PROVE  /\ query.rows \in Nat /\ query.appends \in Nat
           /\ query.differs \in {"nowhere", "prefix", "tail", "count"}
           /\ query.speed \in {"faster", "slower", "unknown"} /\ query.drifts \in BOOLEAN
           /\ Cap \in Nat
BY ValidateAssumption DEF ValidateAssumption, QueryType

LEMMA InitControl == Init => Control
<1> SUFFICES ASSUME Init PROVE Control
    OBVIOUS
<1>1. Nothing \in Measurement
    BY DEF Nothing, Measurement
<1>2. TypeOK
    BY <1>1 DEF Init, TypeOK, Modes, Arms, Steps, ArmSteps, ConfSteps, NoExit
<1>3. Route /\ VerdictLast
    BY DEF Init, Route, VerdictLast, Modes, Isolated
<1>4. QED
    BY <1>2, <1>3 DEF Control

(* Each measuring step fills in part of what its arm has measured.         *)
LEMMA MeasuredType ==
    ASSUME TypeOK, Collect \/ ReadPlan \/ Time
    PROVE  measured' \in [Arms -> Measurement]
<1> USE DEF TypeOK, Measurement, Arms
<1>1. Engine \in Engines /\ IsEngaged \in BOOLEAN /\ Total \in Nat
    BY QueryFacts DEF Engine, Engines, IsEngaged, Total
<1>2. measured[arm] \in Measurement
    OBVIOUS
<1>3. CASE Collect
  <2>1. PICK rows \in Collected :
            measured' = [measured EXCEPT ![arm].rowsBy = Engine, ![arm].rows = rows,
                                         ![arm].total = Total]
    BY <1>3 DEF Collect
  <2>2. rows \in {"none", "all", "prefix", "skipped"}
    BY <2>1 DEF Collected
  <2>3. QED
    BY <1>1, <1>2, <2>1, <2>2
<1>4. CASE ReadPlan
    BY <1>1, <1>2, <1>4 DEF ReadPlan
<1>5. CASE Time
    BY <1>1, <1>2, <1>5 DEF Time
<1>6. QED
    BY <1>3, <1>4, <1>5

LEMMA TypeKept ==
    ASSUME TypeOK, [Next]_vars
    PROVE  TypeOK'
<1> USE DEF TypeOK, work, arms, outcome, Steps, ArmSteps, Executions, ConfSteps, Ended, Arms, NoExit
<1>1. ASSUME Die
      PROVE  /\ pc' \in Steps \cup Ended /\ exit' \in {NoExit, 0, 1, 2}
             /\ proc' \in [Arms -> {"none", "running", "ok", "failed"}]
    BY <1>1 DEF Die
<1>2. CASE Parse \/ RefuseArguments \/ FailEarly
    BY <1>1, <1>2 DEF Parse, RefuseArguments, FailEarly, Die
<1>3. CASE Spawn \/ Open
  <2>1. CASE Spawn
    BY <2>1 DEF Spawn
  <2>2. CASE Open
    <3>1. loaded' \in BOOLEAN
      BY <2>2, Zenon DEF Open
    <3>2. QED
      BY <2>2, <3>1 DEF Open
  <2>3. QED
    BY <1>3, <2>1, <2>2
<1>4. CASE Setup
    BY <1>4, QueryFacts DEF Setup
<1>5. CASE Check \/ Switch \/ Restore
  <2>1. CASE Check
    BY <2>1 DEF Check, IsEngaged
  <2>2. CASE Switch
    BY <2>2 DEF Switch
  <2>3. CASE Restore
    BY <2>3 DEF Restore
  <2>4. QED
    BY <1>5, <2>1, <2>2, <2>3
<1>6. CASE Collect \/ ReadPlan \/ Time
  <2>1. measured' \in [Arms -> Measurement]
    BY <1>6, MeasuredType, Zenon
  <2>2. UNCHANGED <<mode, query, arm, session, loaded, enabled, appended, arms, outcome>>
    BY <1>6, Zenon DEF Collect, ReadPlan, Time
  <2>3. pc' \in Steps
    BY <1>6 DEF Collect, ReadPlan, Time, AfterTime
  <2>4. QED
    BY <2>1, <2>2, <2>3
<1>7. CASE Fail \/ FailToOpen \/ FailToSwitch \/ Hang
  <2>1. CASE Fail
    BY <2>1 DEF Fail, AfterFailure
  <2>2. CASE FailToOpen
    BY <1>1, <2>2 DEF FailToOpen, Die
  <2>3. CASE Hang
    BY <2>3 DEF Hang
  <2>4. CASE FailToSwitch
    BY <2>4 DEF FailToSwitch
  <2>5. QED
    BY <1>7, <2>1, <2>2, <2>3, <2>4
<1>8. CASE Kill
  <2>1. /\ session' \in {"none", "open", "stopped"}
        /\ file' \in {"none", "partial", "whole"}
        /\ proc' \in [Arms -> {"none", "running", "ok", "failed"}]
        /\ pc' = "reap"
    BY <1>8 DEF Kill
  <2>2. QED
    BY <1>8, <2>1 DEF Kill
<1>9. CASE Close \/ FailToClose \/ Abandon \/ Write \/ Leave
    BY <1>1, <1>9 DEF Close, FailToClose, Abandon, Write, Leave, Die
<1>10. CASE Reap \/ ReapFailure
    BY <1>10 DEF Reap, ReapFailure
<1>11. CASE Judge
  <2>1. PICK mismatch \in Mismatches, speedOk \in SpeedOk :
            /\ mismatched' = mismatch
            /\ verdict' = IF Passed(mismatch, speedOk) THEN "passed" ELSE "failed"
    BY <1>11 DEF Judge
  <2>2. mismatched' \in BOOLEAN
    <3>1. Mismatches \in {{TRUE}, {FALSE}, BOOLEAN}
      BY DEF Mismatches
    <3>2. QED
      BY <2>1, <3>1
  <2>3. verdict' \in {"passed", "failed"}
    BY <2>1
  <2>4. warning' \in BOOLEAN
    BY <1>11 DEF Judge
  <2>5. pc' \in Steps \cup Ended
    BY <1>11 DEF Judge, Modes
  <2>6. QED
    BY <1>11, <2>2, <2>3, <2>4, <2>5 DEF Judge
<1>12. CASE Report \/ Save \/ Exit \/ FailToSave
  <2>1. CASE Report
    <3>1. printed' \in BOOLEAN
      <4>1. printed' = TRUE \/ printed' = printed
        BY <2>1, Zenon DEF Report
      <4>2. QED
        BY <4>1
    <3>2. CASE query.speed = "unknown"
      BY <1>1, <2>1, <3>1, <3>2 DEF Report
    <3>3. CASE query.speed # "unknown"
      BY <2>1, <3>1, <3>3 DEF Report
    <3>4. QED
      BY <3>2, <3>3
  <2>2. CASE Save
    BY <2>2 DEF Save, ExitCode
  <2>3. CASE FailToSave
    BY <1>1, <2>3 DEF FailToSave, Die
  <2>4. CASE Exit
    BY <2>4 DEF Exit, ExitCode
  <2>5. QED
    BY <1>12, <2>1, <2>2, <2>3, <2>4
<1>13. CASE UNCHANGED vars
    BY <1>13 DEF vars
<1>14. QED
    BY <1>2, <1>3, <1>4, <1>5, <1>6, <1>7, <1>8, <1>9, <1>10, <1>11, <1>12, <1>13 DEF Next

LEMMA RouteKept ==
    ASSUME Control, [Next]_vars
    PROVE  Route' /\ VerdictLast'
<1> USE DEF Control, Route, VerdictLast, Isolated, ArmSteps, Executions, ConfSteps,
        work, arms, outcome
<1>1. mode' = mode /\ mode \in Modes
    BY DEF Next, vars, TypeOK, Parse, RefuseArguments, FailEarly, Spawn, Open, Setup, Check, Collect,
       ReadPlan, Time, Switch, Restore, Fail, FailToOpen, FailToSwitch, FailToClose, Hang, Kill,
       Close, Abandon, Write, Leave,
       Reap, ReapFailure, Judge, Report, Save, Exit, FailToSave
<1>2. CASE Parse \/ RefuseArguments \/ FailEarly
    BY <1>1, <1>2 DEF Parse, RefuseArguments, FailEarly, Die
<1>3. CASE Spawn \/ Open \/ Setup
    BY <1>1, <1>3 DEF Spawn, Open, Setup, Modes
<1>4. CASE Check \/ Switch \/ Restore
    BY <1>1, <1>4 DEF Check, Switch, Restore
<1>5. CASE Collect \/ ReadPlan \/ Time
    BY <1>1, <1>5 DEF Collect, ReadPlan, Time, AfterTime, TypeOK, Arms, Modes
<1>6. CASE Fail \/ FailToOpen \/ FailToSwitch \/ Hang
    BY <1>1, <1>6 DEF Fail, FailToOpen, FailToSwitch, Hang, AfterFailure, Die, TypeOK, Arms, Modes
<1>7. CASE Kill
    BY <1>1, <1>7 DEF Kill
<1>8. CASE Close \/ FailToClose \/ Abandon \/ Write \/ Leave
    BY <1>1, <1>8 DEF Close, FailToClose, Abandon, Write, Leave, Die, Modes
<1>9. CASE Reap \/ ReapFailure
    BY <1>1, <1>9 DEF Reap, ReapFailure, TypeOK, Arms, Modes
<1>10. CASE Judge
    BY <1>1, <1>10 DEF Judge, Modes, TypeOK
<1>11. CASE Report \/ Save \/ Exit \/ FailToSave
    BY <1>1, <1>11 DEF Report, Save, Exit, ExitCode, FailToSave, Die
<1>12. CASE UNCHANGED vars
    BY <1>12 DEF vars
<1>13. QED
    BY <1>2, <1>3, <1>4, <1>5, <1>6, <1>7, <1>8, <1>9, <1>10, <1>11, <1>12 DEF Next

LEMMA ControlKept == Control /\ [Next]_vars => Control'
BY TypeKept, RouteKept DEF Control

----------------------------------------------------------------------------
(* Sessions, processes and the exit code.                                  *)

(* Where no session can be open.                                           *)
Sessions ==
    /\ mode # "library" /\ pc \in {"parse", "spawn", "open", "write", "leave", "reap", "report",
                                   "save", "tell", "done"} => session # "open"
    /\ pc = "parse" => session = "none"
    /\ Isolated /\ pc = "judge" => session # "open"

(* Only the process of the present arm runs, and each earlier one, like    *)
(* both once there is something to judge, has ended well.                  *)
Procs ==
    /\ \A a \in Arms : proc[a] = "running" => Isolated /\ a = arm /\ pc \in ArmSteps \cup {"hung"}
    /\ Isolated /\ pc \in ArmSteps => proc[arm] = "running"
    /\ Isolated /\ arm = "baseline" => proc["gluten"] = "ok"
    /\ Isolated /\ (pc = "judge" \/ verdict # "none") => proc["baseline"] = "ok"

(* What an exit code and a file stand for.                                 *)
Exits ==
    /\ exit # NoExit => pc = "done"
    /\ pc \in {"save", "tell"} => printed
    /\ exit = 0 => verdict = "passed" /\ printed
    /\ exit = 2 => verdict = "none" /\ session = "none"
    /\ saved => printed /\ (verdict = "failed" => exit \in {NoExit, 1})

LEMMA SessionsKept ==
    ASSUME Control, Sessions, [Next]_vars
    PROVE  Sessions'
<1> USE DEF Control, Route, Sessions, Isolated, ArmSteps, Executions, ConfSteps,
        work, arms, outcome, TypeOK, Modes, Arms
<1>1. CASE Parse \/ RefuseArguments \/ FailEarly
    BY <1>1 DEF Parse, RefuseArguments, FailEarly, Die
<1>2. CASE Spawn \/ Open \/ Setup
    BY <1>2 DEF Spawn, Open, Setup
<1>3. CASE Check \/ Switch \/ Restore
    BY <1>3 DEF Check, Switch, Restore
<1>4. CASE Collect \/ ReadPlan \/ Time
    BY <1>4 DEF Collect, ReadPlan, Time, AfterTime
<1>5. CASE Fail \/ FailToOpen \/ FailToSwitch \/ Hang
    BY <1>5 DEF Fail, FailToOpen, FailToSwitch, Hang, AfterFailure, Die
<1>6. CASE Kill
    BY <1>6 DEF Kill
<1>7. CASE Close \/ FailToClose \/ Abandon \/ Write \/ Leave
    BY <1>7 DEF Close, FailToClose, Abandon, Write, Leave, Die
<1>8. CASE Reap \/ ReapFailure
    BY <1>8 DEF Reap, ReapFailure
<1>9. CASE Judge
    BY <1>9 DEF Judge
<1>10. CASE Report \/ Save \/ Exit \/ FailToSave
    BY <1>10 DEF Report, Save, Exit, ExitCode, FailToSave, Die
<1>11. CASE UNCHANGED vars
    BY <1>11 DEF vars
<1>12. QED
    BY <1>1, <1>2, <1>3, <1>4, <1>5, <1>6, <1>7, <1>8, <1>9, <1>10, <1>11 DEF Next

LEMMA ProcsKept ==
    ASSUME Control, Procs, [Next]_vars
    PROVE  Procs'
<1> USE DEF Control, Route, VerdictLast, Procs, Isolated, ArmSteps, Executions, ConfSteps,
        work, arms, outcome, TypeOK, Modes, Arms
<1>1. CASE Parse \/ RefuseArguments \/ FailEarly
    BY <1>1 DEF Parse, RefuseArguments, FailEarly, Die
<1>2. CASE Spawn \/ Open \/ Setup
    BY <1>2 DEF Spawn, Open, Setup
<1>3. CASE Check \/ Switch \/ Restore
    BY <1>3 DEF Check, Switch, Restore
<1>4. CASE Collect \/ ReadPlan \/ Time
    BY <1>4 DEF Collect, ReadPlan, Time, AfterTime
<1>5. CASE Fail \/ FailToOpen \/ FailToSwitch \/ Hang
    BY <1>5 DEF Fail, FailToOpen, FailToSwitch, Hang, AfterFailure, Die
<1>6. CASE Kill
    BY <1>6 DEF Kill
<1>7. CASE Close \/ FailToClose \/ Abandon \/ Write \/ Leave
    BY <1>7 DEF Close, FailToClose, Abandon, Write, Leave, Die
<1>8. CASE Reap \/ ReapFailure
    BY <1>8 DEF Reap, ReapFailure, ArmSucceeded
<1>9. CASE Judge
    BY <1>9 DEF Judge
<1>10. CASE Report \/ Save \/ Exit \/ FailToSave
    BY <1>10 DEF Report, Save, Exit, ExitCode, FailToSave, Die
<1>11. CASE UNCHANGED vars
    BY <1>11 DEF vars
<1>12. QED
    BY <1>1, <1>2, <1>3, <1>4, <1>5, <1>6, <1>7, <1>8, <1>9, <1>10, <1>11 DEF Next

LEMMA ExitsKept ==
    ASSUME Control, Sessions, Exits, [Next]_vars
    PROVE  Exits'
<1> USE DEF Control, Route, VerdictLast, Exits, Isolated, ArmSteps, Executions, ConfSteps,
        work, arms, outcome, TypeOK, Modes, Arms, NoExit
<1>1. CASE Parse \/ RefuseArguments \/ FailEarly
    BY <1>1 DEF Parse, RefuseArguments, FailEarly, Die, Sessions
<1>2. CASE Spawn \/ Open \/ Setup
  <2>1. CASE Spawn
    BY <2>1 DEF Spawn
  <2>2. CASE Open
    BY <2>2 DEF Open
  <2>3. CASE Setup
    BY <2>3 DEF Setup
  <2>4. QED
    BY <1>2, <2>1, <2>2, <2>3
<1>3. CASE Check \/ Switch \/ Restore
    BY <1>3 DEF Check, Switch, Restore
<1>4. CASE Collect \/ ReadPlan \/ Time
  <2>1. UNCHANGED outcome
    BY <1>4 DEF Collect, ReadPlan, Time
  <2>2. pc # "done" /\ pc' \notin {"save", "tell", "done"}
    BY <1>4 DEF Collect, ReadPlan, Time, AfterTime
  <2>3. QED
    BY <2>1, <2>2
<1>5. CASE Fail \/ FailToOpen \/ FailToSwitch \/ Hang
    BY <1>5 DEF Fail, FailToOpen, FailToSwitch, Hang, AfterFailure, Die
<1>6. CASE Kill
    BY <1>6 DEF Kill
<1>7. CASE Close \/ FailToClose \/ Abandon \/ Write \/ Leave
    BY <1>7 DEF Close, FailToClose, Abandon, Write, Leave, Die
<1>8. CASE Reap \/ ReapFailure
  <2>1. CASE Reap
    BY <1>8, <2>1 DEF Reap
  <2>2. CASE ReapFailure
    BY <2>2 DEF ReapFailure
  <2>3. QED
    BY <1>8, <2>1, <2>2
<1>9. CASE Judge
    BY <1>9 DEF Judge
<1>10. CASE Report \/ Save \/ Exit \/ FailToSave
  <2>1. CASE Report
    <3>1. CASE query.speed = "unknown"
      BY <2>1, <3>1 DEF Report, Die
    <3>2. CASE query.speed # "unknown"
      BY <2>1, <3>2 DEF Report
    <3>3. QED
      BY <3>1, <3>2
  <2>2. CASE Save
    BY <2>2 DEF Save, ExitCode
  <2>3. CASE FailToSave
    BY <2>3 DEF FailToSave, Die
  <2>4. CASE Exit
    BY <2>4 DEF Exit, ExitCode
  <2>5. QED
    BY <1>10, <2>1, <2>2, <2>3, <2>4
<1>11. CASE UNCHANGED vars
    BY <1>11 DEF vars
<1>12. QED
    BY <1>1, <1>2, <1>3, <1>4, <1>5, <1>6, <1>7, <1>8, <1>9, <1>10, <1>11 DEF Next

----------------------------------------------------------------------------
(* Engines and measurements.                                               *)

(* How native execution is switched where an arm runs, and that the note   *)
(* is added before.                                                        *)
Switched ==
    /\ ~Isolated /\ arm = "gluten" /\ pc \in {"collect", "plan", "time", "switch"} => enabled
    /\ ~Isolated /\ arm = "baseline" /\ pc \in {"collect", "plan", "time"} => ~enabled
    /\ Isolated /\ arm = "baseline" /\ pc \in {"setup", "collect", "plan", "time"} => ~loaded
    /\ mode = "library" /\ pc \in {"judge", "done", "raised"} => enabled
    /\ ~Isolated /\ pc \in {"collect", "plan", "time", "switch", "restore", "judge"} =>
           loaded \/ warning

(* Everything an arm measures comes from one engine.                       *)
Complete(a) ==
    /\ measured[a].rows # "none"
    /\ measured[a].rowsBy \in Engines
    /\ measured[a].planBy = measured[a].rowsBy
    /\ measured[a].timedBy = measured[a].rowsBy
    /\ measured[a].engaged <=> measured[a].timedBy = "native"

Measured ==
    /\ pc \in {"plan", "time"} => measured[arm].rowsBy = Engine /\ measured[arm].rows # "none"
    /\ pc = "time" => measured[arm].planBy = Engine
    /\ pc \in {"switch", "restore", "close", "write", "leave"} => Complete(arm)
    /\ ~Isolated /\ arm = "baseline" => Complete("gluten")
    /\ \A a \in Arms : Isolated /\ proc[a] = "ok" => Complete(a)
    /\ pc = "judge" \/ verdict # "none" => Complete("gluten") /\ Complete("baseline")
    /\ measured["baseline"].timedBy # "native"
    /\ ~Isolated /\ (pc = "switch" \/ arm = "baseline") =>
           (loaded <=> measured["gluten"].timedBy = "native")

LEMMA SwitchedKept ==
    ASSUME Control, Switched, [Next]_vars
    PROVE  Switched'
<1> USE DEF Control, Route, Switched, Isolated, ArmSteps, Executions, ConfSteps,
        work, arms, outcome, TypeOK, Modes, Arms
<1>1. CASE Parse \/ RefuseArguments \/ FailEarly
    BY <1>1 DEF Parse, RefuseArguments, FailEarly, Die
<1>2. CASE Spawn \/ Setup
    BY <1>2 DEF Spawn, Setup
<1>3. CASE Open
  <2>1. arm = "baseline" => ~loaded'
    BY <1>3, Zenon DEF Open
  <2>2. QED
    BY <1>3, <2>1 DEF Open
<1>4. CASE Check
  <2>1. enabled' = TRUE /\ (loaded \/ warning')
    BY <1>4, Zenon DEF Check, IsEngaged
  <2>2. QED
    BY <1>4, <2>1 DEF Check
<1>5. CASE Switch \/ Restore
    BY <1>5 DEF Switch, Restore
<1>6. CASE Collect \/ ReadPlan \/ Time
  <2>1. UNCHANGED <<mode, arm, loaded, enabled, warning>>
    BY <1>6 DEF Collect, ReadPlan, Time
  <2>2. pc \in {"collect", "plan", "time"}
    BY <1>6 DEF Collect, ReadPlan, Time
  <2>3. \/ pc' \in {"plan", "time"}
        \/ Isolated /\ pc' = "close"
        \/ ~Isolated /\ arm = "gluten" /\ pc' = "switch"
        \/ ~Isolated /\ arm = "baseline" /\ pc' = "restore"
    BY <1>6 DEF Collect, ReadPlan, Time, AfterTime
  <2>4. QED
    BY <2>1, <2>2, <2>3
<1>7. CASE Fail \/ FailToOpen \/ FailToSwitch \/ Hang
    BY <1>7 DEF Fail, FailToOpen, FailToSwitch, Hang, AfterFailure, Die
<1>8. CASE Kill
    BY <1>8 DEF Kill
<1>9. CASE Close \/ FailToClose \/ Abandon \/ Write \/ Leave
    BY <1>9 DEF Close, FailToClose, Abandon, Write, Leave, Die
<1>10. CASE Reap \/ ReapFailure
    BY <1>10 DEF Reap, ReapFailure
<1>11. CASE Judge
    BY <1>11 DEF Judge
<1>12. CASE Report \/ Save \/ Exit \/ FailToSave
    BY <1>12 DEF Report, Save, Exit, ExitCode, FailToSave, Die
<1>13. CASE UNCHANGED vars
    BY <1>13 DEF vars
<1>14. QED
    BY <1>1, <1>2, <1>3, <1>4, <1>5, <1>6, <1>7, <1>8, <1>9, <1>10, <1>11, <1>12, <1>13 DEF Next

(* Steps that measure nothing.                                             *)
LEMMA Unmeasuring ==
    ASSUME [Next]_vars, ~(Collect \/ ReadPlan \/ Time)
    PROVE  measured' = measured
BY DEF Next, vars, work, arms, outcome, Parse, RefuseArguments, FailEarly, Spawn, Open, Setup, Check,
   Switch, Restore, Fail, FailToOpen, FailToSwitch, FailToClose, Hang, Kill, Close, Abandon,
   Write, Leave, Reap, ReapFailure,
   Judge, Report, Save, Exit, FailToSave

(* Who measures, and which engine.                                         *)
LEMMA EngineOfArm ==
    ASSUME Control, Switched, pc \in {"collect", "plan", "time"}
    PROVE  /\ Engine \in Engines
           /\ IsEngaged <=> Engine = "native"
           /\ arm = "baseline" => Engine = "jvm"
           /\ ~Isolated /\ arm = "gluten" => (loaded <=> Engine = "native")
BY DEF Control, TypeOK, Arms, Switched, Engine, Engines, IsEngaged

LEMMA MeasuredKept ==
    ASSUME Control, Procs, Switched, Measured, [Next]_vars
    PROVE  Measured'
<1> USE DEF Control, Route, VerdictLast, Measured, Isolated, ArmSteps, Executions, ConfSteps,
        work, arms, outcome, TypeOK, Modes, Arms
<1>1. CASE Collect \/ ReadPlan \/ Time
  <2> DEFINE d == measured'[arm]
  <2>1. /\ UNCHANGED <<mode, query, arm, session, loaded, enabled, appended, arms, outcome>>
        /\ Engine' = Engine
        /\ \A a \in Arms \ {arm} : measured'[a] = measured[a]
        /\ pc \in {"collect", "plan", "time"} /\ verdict = "none"
    <3>1. UNCHANGED <<mode, query, arm, session, loaded, enabled, appended, arms, outcome>>
      BY <1>1, Zenon DEF Collect, ReadPlan, Time
    <3>2. Engine' = Engine
      BY <3>1, Zenon DEF Engine
    <3>3. \A a \in Arms \ {arm} : measured'[a] = measured[a]
      BY <1>1 DEF Collect, ReadPlan, Time
    <3>4. pc \in {"collect", "plan", "time"} /\ verdict = "none"
      BY <1>1 DEF Collect, ReadPlan, Time
    <3>5. QED
      BY <3>1, <3>2, <3>3, <3>4
  <2>2. \A a \in Arms \ {arm} : Complete(a)' <=> Complete(a)
    BY <2>1 DEF Complete
  <2>3. measured[arm] \in Measurement
    OBVIOUS
  <2>4. Isolated => proc[arm] # "ok"
    BY <2>1 DEF Procs
  <2>5. CASE Collect
    <3>1. PICK rows \in Collected :
              measured' = [measured EXCEPT ![arm].rowsBy = Engine, ![arm].rows = rows,
                                           ![arm].total = Total]
      BY <2>5 DEF Collect
    <3>2. d.rowsBy = Engine /\ d.rows # "none" /\ d.timedBy = measured[arm].timedBy
      BY <2>3, <3>1 DEF Collected, Measurement
    <3>3. pc' = "plan"
      BY <2>5 DEF Collect
    <3>4. QED
      BY <2>1, <2>2, <2>4, <3>2, <3>3
  <2>6. CASE ReadPlan
    <3>1. /\ d.rowsBy = measured[arm].rowsBy /\ d.rows = measured[arm].rows
          /\ d.timedBy = measured[arm].timedBy /\ d.planBy = Engine
      BY <2>3, <2>6 DEF ReadPlan, Measurement
    <3>2. pc' = "time"
      BY <2>6 DEF ReadPlan
    <3>3. QED
      BY <2>1, <2>2, <2>4, <2>6, <3>1, <3>2 DEF ReadPlan
  <2>7. CASE Time
    <3>1. /\ d.rowsBy = measured[arm].rowsBy /\ d.rows = measured[arm].rows
          /\ d.planBy = measured[arm].planBy /\ d.timedBy = Engine
          /\ d.engaged = IsEngaged
      BY <2>3, <2>7 DEF Time, Measurement
    <3>2. /\ Engine \in Engines
          /\ IsEngaged <=> Engine = "native"
          /\ arm = "baseline" => Engine = "jvm"
          /\ ~Isolated /\ arm = "gluten" => (loaded <=> Engine = "native")
      BY <2>1, EngineOfArm DEF Control
    <3>3. d.engaged <=> Engine = "native"
      BY <3>1, <3>2, Zenon
    <3>4. Complete(arm)'
      BY <2>1, <2>7, <3>1, <3>2, <3>3 DEF Time, Complete
    <3>5. \/ Isolated /\ pc' = "close"
          \/ ~Isolated /\ arm = "gluten" /\ pc' = "switch"
          \/ ~Isolated /\ arm = "baseline" /\ pc' = "restore"
      BY <2>7 DEF Time, AfterTime
    <3>6. \A a \in Arms : Isolated /\ proc[a] = "ok" => Complete(a)'
      BY <2>2, <2>4
    <3>7. ~Isolated /\ arm = "baseline" => Complete("gluten")'
      BY <2>2
    <3>8. /\ (measured["baseline"].timedBy)' # "native"
          /\ ~Isolated => (loaded <=> (measured["gluten"].timedBy)' = "native")
      BY <2>1, <3>1, <3>2
    <3>9. QED
      BY <2>1, <3>4, <3>5, <3>6, <3>7, <3>8
  <2>8. QED
    BY <1>1, <2>5, <2>6, <2>7
<1>2. CASE ~(Collect \/ ReadPlan \/ Time)
  <2>1. measured' = measured
    BY <1>2, Unmeasuring
  <2>2. \A a \in Arms : Complete(a)' <=> Complete(a)
    BY <2>1 DEF Complete
  <2> USE <2>1, <2>2
  <2>3. CASE Parse \/ RefuseArguments \/ FailEarly
    BY <2>3 DEF Parse, RefuseArguments, FailEarly, Die
  <2>4. CASE Spawn \/ Open \/ Setup
    BY <2>4 DEF Spawn, Open, Setup
  <2>5. CASE Check
    BY <2>5 DEF Check
  <2>6. CASE Switch \/ Restore
    BY <2>6 DEF Switch, Restore
  <2>7. CASE Fail \/ FailToOpen \/ FailToSwitch \/ Hang
    BY <2>7 DEF Fail, FailToOpen, FailToSwitch, Hang, AfterFailure, Die
  <2>8. CASE Kill
    BY <2>8 DEF Kill
  <2>9. CASE Close \/ FailToClose \/ Abandon \/ Write \/ Leave
    BY <2>9 DEF Close, FailToClose, Abandon, Write, Leave, Die
  <2>10. CASE Reap \/ ReapFailure
    BY <2>10 DEF Reap, ReapFailure, ArmSucceeded, Procs
  <2>11. CASE Judge
    BY <2>11 DEF Judge
  <2>12. CASE Report \/ Save \/ Exit \/ FailToSave
    BY <2>12 DEF Report, Save, Exit, ExitCode, FailToSave, Die
  <2>13. CASE UNCHANGED vars
    BY <2>13 DEF vars, Engine
  <2>14. QED
    BY <1>2, <2>3, <2>4, <2>5, <2>6, <2>7, <2>8, <2>9, <2>10, <2>11, <2>12, <2>13 DEF Next
<1>3. QED
    BY <1>1, <1>2

----------------------------------------------------------------------------
(* Rows, and the verdict.                                                  *)

(* Does every arm find the rows the other finds?                           *)
Settled == ~Isolated \/ query.appends = 0

(* The row Velox alone returns, where the count differs.                   *)
Extra(a) == IF measured[a].rowsBy = "native" /\ query.differs = "count" THEN 1 ELSE 0

Counted(a) ==
    measured[a].rows # "none" =>
        /\ measured[a].total <= query.rows + appended + Extra(a)
        /\ Settled => measured[a].total = query.rows + appended + Extra(a)
        /\ measured[a].rows = "prefix" => measured[a].total > Cap

Rows ==
    /\ \A a \in Arms : Counted(a)
    /\ ~Isolated /\ pc \in {"parse", "open", "setup", "check"} =>
           \A a \in Arms : measured[a].rows = "none"

(* What a verdict was given for.                                           *)
Judged ==
    /\ verdict = "none" => ~mismatched
    /\ verdict # "none" => mismatched \in Mismatches
    /\ verdict = "passed" => ~mismatched /\ ~Skipped /\ FallbackOk
    /\ verdict # "none" => warning \/ Gluten.engaged

(* Rows are counted once, and rows are only added before.                  *)
LEMMA RowsKept ==
    ASSUME Control, Rows, [Next]_vars
    PROVE  Rows'
<1> USE DEF Control, Route, Rows, Isolated, ArmSteps, Executions, ConfSteps,
        work, arms, outcome, TypeOK, Modes, Arms
<1>1. UNCHANGED <<mode, query>>
    BY DEF Next, vars, Parse, RefuseArguments, FailEarly, Spawn, Open, Setup, Check, Collect,
       ReadPlan, Time, Switch, Restore, Fail, FailToOpen, FailToSwitch, FailToClose, Hang, Kill,
       Close, Abandon, Write, Leave,
       Reap, ReapFailure, Judge, Report, Save, Exit, FailToSave
<1>2. CASE Collect
  <2>1. PICK rows \in Collected :
            measured' = [measured EXCEPT ![arm].rowsBy = Engine, ![arm].rows = rows,
                                         ![arm].total = Total]
    BY <1>2 DEF Collect
  <2>2. measured[arm] \in Measurement
    OBVIOUS
  <2>3. /\ measured'[arm].rowsBy = Engine /\ measured'[arm].rows = rows
        /\ measured'[arm].total = Total
        /\ \A a \in Arms \ {arm} : measured'[a] = measured[a]
    BY <2>1, <2>2 DEF Measurement
  <2>4. appended' = appended /\ pc' = "plan"
    BY <1>2 DEF Collect
  <2>5. rows = "prefix" => Total > Cap
    <3>1. Total \in Nat /\ Cap \in Nat
      BY QueryFacts DEF Total
    <3>2. CASE Total <= Cap
      BY <3>2, <2>1 DEF Collected
    <3>3. QED
      BY <3>1, <3>2
  <2>6. Extra(arm)' = IF Engine = "native" /\ query.differs = "count" THEN 1 ELSE 0
    BY <1>1, <2>3, <2>4, <1>2 DEF Extra, Collect
  <2>7. Total = query.rows + appended + Extra(arm)'
    BY <2>6 DEF Total
  <2>8. Total \in Nat
    BY QueryFacts DEF Total
  <2>9. (measured[arm].total)' = Total /\ (measured[arm].rows)' = rows
    BY <1>2, <2>3 DEF Collect
  <2>10. Counted(arm)'
    <3>1. arm' = arm
      BY <1>2 DEF Collect
    <3>2. QED
      BY <1>1, <2>4, <2>5, <2>7, <2>8, <2>3, <3>1 DEF Counted
  <2>11. \A a \in Arms \ {arm} : Counted(a)'
    BY <1>1, <2>3, <2>4 DEF Counted, Extra, Settled
  <2>12. \A a \in Arms : Counted(a)'
    BY <2>10, <2>11, <1>2 DEF Collect
  <2>13. QED
    BY <2>4, <2>12
<1>3. CASE Setup
  <2>1. measured' = measured /\ appended' = appended + query.appends /\ pc = "setup"
    BY <1>3 DEF Setup
  <2>2. ASSUME NEW a \in Arms PROVE Counted(a)'
    <3>1. CASE ~Isolated
      BY <1>1, <2>1, <3>1 DEF Counted
    <3>2. CASE Isolated
      <4>1. query.rows \in Nat /\ query.appends \in Nat /\ appended \in Nat
        BY QueryFacts
      <4>2. measured[a].total \in Nat
        BY DEF Measurement
      <4>3. Extra(a)' = Extra(a) /\ Extra(a) \in {0, 1}
        BY <1>1, <2>1 DEF Extra
      <4>4. Settled => appended' = appended
        BY <2>1, <3>2, <4>1 DEF Settled
      <4>5. Settled' <=> Settled
        BY <1>1 DEF Settled
      <4>6. QED
        BY <1>1, <2>1, <4>1, <4>2, <4>3, <4>4, <4>5 DEF Counted
    <3>3. QED
      BY <3>1, <3>2
  <2>3. ~Isolated => \A a \in Arms : (measured[a].rows)' = "none"
    BY <2>1
  <2>4. QED
    BY <1>1, <2>2, <2>3
<1>4. CASE ReadPlan \/ Time
  <2>1. \A a \in Arms : /\ measured'[a].rows = measured[a].rows
                        /\ measured'[a].rowsBy = measured[a].rowsBy
                        /\ measured'[a].total = measured[a].total
    BY <1>4 DEF ReadPlan, Time, Measurement
  <2>2. appended' = appended /\ pc' \notin {"parse", "open", "setup", "check"}
    BY <1>4 DEF ReadPlan, Time, AfterTime
  <2>3. \A a \in Arms : Counted(a)'
    BY <1>1, <2>1, <2>2 DEF Counted, Extra, Settled
  <2>4. QED
    BY <2>2, <2>3
<1>5. CASE ~(Collect \/ ReadPlan \/ Time \/ Setup)
  <2>1. measured' = measured
    BY <1>5, Unmeasuring
  <2>2. appended' = appended
    BY <1>5 DEF Next, vars, Parse, RefuseArguments, FailEarly, Spawn, Open, Check, Switch, Restore,
       Fail, FailToOpen, FailToSwitch, FailToClose, Hang, Kill, Close, Abandon, Write, Leave,
       Reap, ReapFailure, Judge,
       Report, Save, Exit, FailToSave
  <2>3. \A a \in Arms : Counted(a)'
    BY <1>1, <2>1, <2>2 DEF Counted, Extra, Settled
  <2>4. ~Isolated /\ pc' \in {"parse", "open", "setup", "check"} =>
            pc \in {"parse", "open", "setup", "check"}
    BY <1>5 DEF Next, vars, Parse, RefuseArguments, FailEarly, Spawn, Open, Check, Switch, Restore,
       Fail, FailToOpen, FailToSwitch, FailToClose, Hang, Kill, Close, Abandon, Write, Leave,
       Reap, ReapFailure, Judge,
       Report, Save, Exit, FailToSave, Die, AfterFailure
  <2>5. QED
    BY <1>1, <2>1, <2>3, <2>4
<1>6. QED
    BY <1>2, <1>3, <1>4, <1>5

LEMMA JudgedKept ==
    ASSUME Control, Switched, Measured, Judged, [Next]_vars
    PROVE  Judged'
<1> USE DEF Control, VerdictLast, work, arms, outcome
<1>1. CASE Judge
  <2>1. UNCHANGED <<query, measured>> /\ pc = "judge"
    BY <1>1 DEF Judge
  <2>2. PICK mismatch \in Mismatches, speedOk \in SpeedOk :
            /\ mismatched' = mismatch
            /\ verdict' = IF Passed(mismatch, speedOk) THEN "passed" ELSE "failed"
    BY <1>1 DEF Judge
  <2>3. verdict' # "none" /\ (verdict' = "passed" => ~mismatched' /\ ~Skipped /\ FallbackOk)
    BY <2>2, Zenon DEF Passed
  <2>4. Mismatches' = Mismatches /\ (~Skipped /\ FallbackOk => (~Skipped /\ FallbackOk)')
    BY <2>1 DEF Mismatches, DifferenceSeen, Skipped, FallbackOk, Gluten, Baseline, SeenBy,
                Offloaded, Boundaries
  <2>5. warning' = (warning \/ (Isolated /\ ~Gluten.engaged))
    BY <1>1 DEF Judge
  <2>6. warning' \/ Gluten.engaged
    <3>1. CASE Isolated
      BY <2>5, <3>1, Zenon
    <3>2. CASE ~Isolated
      <4>1. loaded \/ warning
        BY <2>1, <3>2 DEF Switched
      <4>2. Complete("gluten") /\ (loaded <=> measured["gluten"].timedBy = "native")
        BY <2>1, <3>2 DEF Measured, Route
      <4>3. loaded => Gluten.engaged
        BY <4>2 DEF Complete, Gluten
      <4>4. QED
        BY <2>5, <4>1, <4>3, Zenon
    <3>3. QED
      BY <3>1, <3>2
  <2>7. Gluten.engaged => (Gluten.engaged)'
    BY <2>1 DEF Gluten
  <2>8. warning' \/ (Gluten.engaged)'
    BY <2>6, <2>7
  <2>9. mismatched' \in Mismatches'
    BY <2>2, <2>4
  <2>10. verdict' = "passed" => (~mismatched /\ ~Skipped /\ FallbackOk)'
    BY <2>3, <2>4, Zenon
  <2>11. QED
    BY <2>3, <2>8, <2>9, <2>10 DEF Judged
<1>2. CASE ~Judge
  <2>1. UNCHANGED <<verdict, mismatched>>
    BY <1>2 DEF Next, vars, Parse, RefuseArguments, FailEarly, Spawn, Open, Setup, Check, Collect,
       ReadPlan, Time, Switch, Restore, Fail, FailToOpen, FailToSwitch, FailToClose, Hang, Kill,
       Close, Abandon, Write, Leave,
       Reap, ReapFailure, Report, Save, Exit, FailToSave
  <2>2. CASE verdict = "none"
    BY <2>1, <2>2 DEF Judged
  <2>3. CASE verdict # "none"
    <3>1. pc \in {"close", "report", "save", "tell", "done", "hung"}
      BY <2>3
    <3>2. UNCHANGED <<query, measured, warning>>
      BY <1>2, <3>1 DEF Next, vars, Parse, RefuseArguments, FailEarly, Spawn, Open, Setup, Check,
         Collect, ReadPlan, Time, Switch, Restore, Fail, FailToOpen, FailToSwitch, FailToClose,
         Hang, Kill, Close, Abandon,
         Write, Leave, Reap, ReapFailure, Report, Save, Exit, FailToSave
    <3>3. Mismatches' = Mismatches /\ (~Skipped /\ FallbackOk => (~Skipped /\ FallbackOk)')
      BY <3>2 DEF Mismatches, DifferenceSeen, Skipped, FallbackOk, Gluten, Baseline, SeenBy,
                  Offloaded, Boundaries
    <3>4. warning \/ Gluten.engaged => (warning \/ Gluten.engaged)'
      BY <3>2 DEF Gluten
    <3>5. QED
      BY <2>1, <3>3, <3>4 DEF Judged
  <2>4. QED
    BY <2>2, <2>3
<1>3. QED
    BY <1>1, <1>2

----------------------------------------------------------------------------
(* The inductive invariant.                                                *)

GateInv ==
    /\ Control
    /\ Sessions /\ Procs /\ Exits
    /\ Switched /\ Measured /\ Rows /\ Judged

LEMMA InitGate == Init => GateInv
<1> SUFFICES ASSUME Init PROVE GateInv
    OBVIOUS
<1>1. Control
    BY InitControl
<1>2. Sessions /\ Procs /\ Exits /\ Switched
    BY DEF Init, Sessions, Procs, Exits, Switched, Isolated, Modes, Arms, ArmSteps, Executions, NoExit
<1>3. pc \in {"check", "parse"} /\ verdict = "none" /\ mismatched = FALSE /\ arm = "gluten"
    BY DEF Init
<1>4. \A a \in Arms : measured[a] = Nothing /\ proc[a] = "none"
    BY DEF Init, Arms
<1>5. Measured
    BY <1>3, <1>4 DEF Measured, Nothing, Arms
<1>6. Rows
    BY <1>4 DEF Rows, Counted, Nothing, Arms
<1>7. Judged
    BY <1>3 DEF Judged
<1>8. QED
    BY <1>1, <1>2, <1>5, <1>6, <1>7 DEF GateInv

LEMMA GateKept == GateInv /\ [Next]_vars => GateInv'
BY ControlKept, SessionsKept, ProcsKept, ExitsKept, SwitchedKept, MeasuredKept, RowsKept, JudgedKept
   DEF GateInv

(* The invariant holds in every reachable state.                           *)
THEOREM GateInvariance == Spec => []GateInv
BY InitGate, GateKept, PTL DEF Spec

----------------------------------------------------------------------------
(* Theorems.                                                               *)

(* Every variable keeps to its type in every reachable state.              *)
THEOREM TypeInvariance == Spec => []TypeOK
<1>1. GateInv => TypeOK
    BY DEF GateInv, Control
<1>2. QED
    BY <1>1, GateInvariance, PTL

(* A verdict "passed" compared what Velox did with what the JVM did.       *)
LEMMA PassedMeans ==
    ASSUME GateInv, verdict = "passed"
    PROVE  /\ PassComparedEngines
           /\ Gluten.rowsBy = "native" /\ Baseline.rowsBy = "jvm"
           /\ Gluten.rows # "none" /\ Baseline.rows # "none"
<1>1. /\ FallbackOk /\ Complete("gluten") /\ Complete("baseline")
      /\ measured["baseline"].timedBy # "native"
    BY DEF GateInv, Judged, Measured
<1>2. Gluten.planBy = "native"
    BY <1>1 DEF FallbackOk, Offloaded
<1>3. QED
    BY <1>1, <1>2 DEF Complete, Gluten, Baseline, Engines, PassComparedEngines

(* The gluten arm of a passed validation ran in Velox throughout, the      *)
(* baseline arm on the JVM, whoever started the session and however.       *)
THEOREM PassedComparedEngines == Spec => []PassComparedEngines
<1>1. GateInv => PassComparedEngines
    BY PassedMeans DEF PassComparedEngines
<1>2. QED
    BY <1>1, GateInvariance, PTL

(* With settled data, both arms count the rows the query has, and Velox    *)
(* the one more where the engines' counts differ.                          *)
LEMMA TotalsSettled ==
    ASSUME GateInv, verdict # "none", Settled
    PROVE  /\ Gluten.total = query.rows + appended + Extra("gluten")
           /\ Baseline.total = query.rows + appended + Extra("baseline")
BY DEF GateInv, Measured, Complete, Rows, Counted, Arms, Gluten, Baseline

(* The gate fails closed: differing results never pass, but for the rows   *)
(* beyond a compared prefix and for data that grows between the arms.      *)
THEOREM PassedRowsAgree == Spec => []PassMeansRowsAgree
<1>1. ASSUME GateInv PROVE PassMeansRowsAgree
  <2> SUFFICES ASSUME verdict = "passed", query.differs # "nowhere",
                      ~(query.differs = "count" /\ Isolated /\ query.appends > 0)
               PROVE  query.differs = "tail" /\ query.rows + appended > Cap
      BY DEF PassMeansRowsAgree
  <2> USE <1>1
  <2>1. /\ Gluten.rowsBy = "native" /\ Baseline.rowsBy = "jvm"
        /\ Gluten.rows # "none" /\ Baseline.rows # "none"
      BY PassedMeans
  <2>2. FALSE \in Mismatches /\ ~Skipped
    <3>1. mismatched = FALSE /\ mismatched \in Mismatches /\ ~Skipped
      BY DEF GateInv, Control, TypeOK, Judged
    <3>2. QED
      BY <3>1
  <2>3. Gluten.total = Baseline.total /\ ~DifferenceSeen
    <3>1. Gluten.total # Baseline.total \/ DifferenceSeen => Mismatches = {TRUE}
      BY DEF Mismatches
    <3>2. QED
      BY <2>2, <3>1
  <2>4. query.differs \notin SeenBy(Gluten.rows)
      BY <2>1, <2>2, <2>3 DEF DifferenceSeen
  <2>5. Gluten.rows \in {"all", "prefix"}
    <3>1. Gluten.rows \in {"none", "all", "prefix", "skipped"}
      BY DEF GateInv, Control, TypeOK, Measurement, Arms, Gluten
    <3>2. QED
      BY <2>1, <2>2, <2>3, <3>1 DEF Skipped
  <2>6. /\ query.rows \in Nat /\ query.appends \in Nat /\ appended \in Nat /\ Cap \in Nat
        /\ query.differs \in {"nowhere", "prefix", "tail", "count"}
      BY QueryFacts DEF GateInv, Control, TypeOK
  <2>7. query.differs # "count"
    <3>1. SUFFICES ASSUME query.differs = "count" PROVE FALSE
      OBVIOUS
    <3>2. Settled
      BY <2>6, <3>1 DEF Settled
    <3>3. Extra("gluten") = 1 /\ Extra("baseline") = 0
      BY <2>1, <3>1 DEF Extra, Gluten, Baseline
    <3>4. QED
      BY <2>3, <2>6, <3>2, <3>3, TotalsSettled
  <2>8. query.differs = "tail" /\ Gluten.rows = "prefix"
      BY <2>4, <2>5, <2>6, <2>7 DEF SeenBy
  <2>9. Gluten.total > Cap /\ Gluten.total <= query.rows + appended
    <3>1. Counted("gluten") /\ Extra("gluten") = 0
      BY <2>8 DEF GateInv, Rows, Arms, Extra
    <3>2. Gluten.total \in Nat
      BY DEF GateInv, Control, TypeOK, Measurement, Arms, Gluten
    <3>3. QED
      BY <2>1, <2>6, <2>8, <3>1, <3>2 DEF Counted, Gluten
  <2>10. Gluten.total \in Nat
      BY DEF GateInv, Control, TypeOK, Measurement, Arms, Gluten
  <2>11. QED
      BY <2>6, <2>8, <2>9, <2>10
<1>2. QED
    BY <1>1, GateInvariance, PTL

(* A mismatch is the engines', or that of drift compare_rows does not see  *)
(* through, or of data which grows between the arms; where one engine did  *)
(* both arms, or the engines agree, the harness itself makes none up.      *)
THEOREM MismatchesAreDifferences == Spec => []MismatchMeansDifference
<1>1. ASSUME GateInv PROVE MismatchMeansDifference
  <2> SUFFICES ASSUME mismatched, ~query.drifts, ~(Isolated /\ query.appends > 0),
                      query.differs = "nowhere" \/ Gluten.rowsBy = Baseline.rowsBy
               PROVE  FALSE
      BY DEF MismatchMeansDifference
  <2> USE <1>1
  <2>1. verdict # "none" /\ TRUE \in Mismatches
    <3>1. mismatched = TRUE /\ verdict # "none" /\ mismatched \in Mismatches
      BY DEF GateInv, Control, TypeOK, Judged
    <3>2. QED
      BY <3>1
  <2>2. query.rows \in Nat /\ query.appends \in Nat /\ appended \in Nat
      BY QueryFacts DEF GateInv, Control, TypeOK
  <2>3. Settled
      BY <2>2 DEF Settled
  <2>4. Extra("gluten") = Extra("baseline")
      BY DEF Extra, Gluten, Baseline
  <2>5. Gluten.total = Baseline.total
      BY <2>1, <2>3, <2>4, TotalsSettled
  <2>6. ~DifferenceSeen
      BY DEF DifferenceSeen, SeenBy
  <2>7. QED
      BY <2>1, <2>5, <2>6 DEF Mismatches
<1>2. QED
    BY <1>1, GateInvariance, PTL

(* validate() leaves native execution of its caller's session on.          *)
THEOREM LeftSwitchedOn == Spec => []SwitchedBackOn
<1>1. GateInv => SwitchedBackOn
    BY DEF GateInv, Switched, SwitchedBackOn
<1>2. QED
    BY <1>1, GateInvariance, PTL

(* Timings of one engine against itself are never shown without the note.  *)
THEOREM OneEngineNoted == Spec => []SameEngineIsNoted
<1>1. ASSUME GateInv PROVE SameEngineIsNoted
  <2> SUFFICES ASSUME verdict # "none", Gluten.timedBy = Baseline.timedBy
               PROVE  warning
      BY DEF SameEngineIsNoted
  <2>1. ~Gluten.engaged
      BY <1>1 DEF GateInv, Measured, Complete, Gluten, Baseline
  <2>2. warning \/ Gluten.engaged
      BY <1>1 DEF GateInv, Judged
  <2>3. QED
      BY <2>1, <2>2
<1>2. QED
    BY <1>1, GateInvariance, PTL

(* Whatever fails or is killed, the command leaves nothing behind.         *)
THEOREM NothingLeft == Spec => []NothingLeftRunning
<1>1. GateInv => NothingLeftRunning
    BY DEF GateInv, Sessions, Procs, ArmSteps, Executions, NothingLeftRunning
<1>2. QED
    BY <1>1, GateInvariance, PTL

(* The verdict of an isolated validation rests on two whole arms.          *)
THEOREM WholeArms == Spec => []VerdictFromWholeArms
<1>1. GateInv => VerdictFromWholeArms
    BY DEF GateInv, Control, Route, Procs, Arms, VerdictFromWholeArms
<1>2. QED
    BY <1>1, GateInvariance, PTL

(* The exit code is the gate, and agrees with what was printed and saved.  *)
THEOREM ExitIsGate == Spec => []ExitTellsVerdict
<1>1. GateInv => ExitTellsVerdict
    BY DEF GateInv, Exits, ExitTellsVerdict
<1>2. QED
    BY <1>1, GateInvariance, PTL

----------------------------------------------------------------------------
(* What is read from the text of a plan.                                   *)

(* The section ends before the first marker, if there is one.              *)
LEMMA SectionIs ==
    ASSUME NEW text \in Seq(LineType), NEW m \in DOMAIN text, text[m].node = Marker
    PROVE  \E n \in DOMAIN text :
               /\ text[n].node = Marker
               /\ \A i \in 1..(n - 1) : text[i].node # Marker
               /\ FinalPlanSection(text) = SubSeq(text, 1, n - 1)
<1> DEFINE marked == {i \in 1..Len(text) : text[i].node = Marker}
<1>1. DOMAIN text = 1..Len(text) /\ Len(text) \in Nat
  OBVIOUS
<1>2. marked \in SUBSET Nat /\ marked # {}
  BY <1>1
<1>3. PICK n \in marked : \A i \in marked : n <= i
  <2>1. PICK n \in marked : \A i \in marked : ~(<<i, n>> \in OpToRel(<, Nat))
    BY <1>2, NatLessThanWellFounded, WFMin
  <2>2. ASSUME NEW i \in marked PROVE n <= i
    <3>1. <<i, n>> \in Nat \X Nat /\ ~(<<i, n>> \in OpToRel(<, Nat))
      BY <1>2, <2>1
    <3>2. OpToRel(<, Nat) = {ss \in Nat \X Nat : ss[1] < ss[2]}
      BY DEF OpToRel
    <3>3. ~(i < n)
      BY <3>1, <3>2
    <3>4. QED
      BY <1>2, <3>3
  <2>3. QED
    BY <2>2
<1>4. Min(marked) = n
  <2>1. Min(marked) \in marked /\ \A i \in marked : Min(marked) <= i
    BY <1>3 DEF Min
  <2>2. QED
    BY <1>1, <1>3, <2>1
<1>5. SelectInSeq(text, LAMBDA line : line.node = Marker) = n
  BY <1>2, <1>4 DEF SelectInSeq
<1>6. FinalPlanSection(text) = SubSeq(text, 1, n - 1)
  BY <1>5 DEF FinalPlanSection
<1>7. \A i \in 1..(n - 1) : text[i].node # Marker
  BY <1>1, <1>3
<1>8. n \in DOMAIN text /\ text[n].node = Marker
  BY <1>1
<1>9. QED
  BY <1>6, <1>7, <1>8

(* The lines plan_stats counts are those of the nodes that ran, unless a   *)
(* plan inside the plan cuts the section short.                            *)
LEMMA CountedLinesRan ==
    ASSUME NEW text \in PlanTexts, ~HasNestedPlan(text),
           NEW nodes, Marker \notin nodes
    PROVE  CountIn(FinalPlanSection(text), nodes) = RanIn(text, nodes)
<1> DEFINE section == FinalPlanSection(text)
           counted == {i \in DOMAIN section : section[i].node \in nodes}
           ran == {i \in DOMAIN text : text[i].ran /\ text[i].node \in nodes}
<1>1. text \in Seq(LineType) /\ DOMAIN text = 1..Len(text) /\ Len(text) \in Nat
  BY DEF PlanTexts
<1>2. \A i \in DOMAIN text : text[i] \in LineType /\ text[i].ran \in BOOLEAN
  <2>1. \A i \in DOMAIN text : text[i] \in LineType
    BY <1>1
  <2>2. QED
    BY <2>1 DEF LineType
<1>3. CASE \A i \in DOMAIN text : text[i].node # Marker
  <2>1. section = text
    BY <1>3 DEF FinalPlanSection
  <2>2. \A i \in DOMAIN text : text[i].ran
    BY <1>1, <1>2, <1>3 DEF PlanTexts
  <2>3. counted = ran
    BY <2>1, <2>2
  <2>4. QED
    BY <2>3 DEF CountIn, RanIn
<1>4. CASE \E i \in DOMAIN text : text[i].node = Marker
  <2>1. PICK n \in DOMAIN text :
            /\ text[n].node = Marker
            /\ \A i \in 1..(n - 1) : text[i].node # Marker
            /\ section = SubSeq(text, 1, n - 1)
    BY <1>1, <1>4, SectionIs
  <2>2. DOMAIN section = 1..(n - 1) /\ \A i \in 1..(n - 1) : section[i] = text[i]
    BY <1>1, <2>1
  <2>3. \A i \in 1..(n - 1) : i \in DOMAIN text /\ text[i].ran
    BY <1>1, <1>2, <2>1 DEF PlanTexts
  <2>4. \A i \in DOMAIN text : text[i].ran /\ text[i].node # Marker => i \in 1..(n - 1)
    BY <1>1, <2>1 DEF HasNestedPlan
  <2>5. counted = ran
    BY <2>2, <2>3, <2>4
  <2>6. QED
    BY <2>5 DEF CountIn, RanIn
<1>5. QED
  BY <1>3, <1>4

(* A passed query ran mostly in Velox, whatever its plan, but for plans    *)
(* inside the plan.                                                        *)
THEOREM MostlyNative == Spec => []PassMeansMostlyNative
<1>1. ASSUME GateInv PROVE PassMeansMostlyNative
  <2> SUFFICES ASSUME verdict = "passed", ~HasNestedPlan(query.plan)
               PROVE  /\ RanIn(query.plan, OffloadedNodes) > 0
                      /\ RanIn(query.plan, BoundaryNodes) <= RanIn(query.plan, OffloadedNodes)
      BY DEF PassMeansMostlyNative
  <2>1. query.plan \in PlanTexts
      BY <1>1, ValidateAssumption DEF GateInv, Control, TypeOK, ValidateAssumption, QueryType
  <2>2. FallbackOk /\ Gluten.planBy = "native"
      BY <1>1, PassedMeans DEF GateInv, Judged, FallbackOk, Offloaded
  <2>3. /\ OffloadedIn(query.plan) = RanIn(query.plan, OffloadedNodes)
        /\ BoundariesIn(query.plan) = RanIn(query.plan, BoundaryNodes)
      BY <2>1, CountedLinesRan DEF OffloadedIn, BoundariesIn, OffloadedNodes, BoundaryNodes, Marker
  <2>4. QED
      BY <2>2, <2>3 DEF FallbackOk, Offloaded, Boundaries
<1>2. QED
    BY <1>1, GateInvariance, PTL

----------------------------------------------------------------------------
(* Termination: how far a validation is from its end, in steps.            *)

Weight(step) ==
    CASE step = "parse" -> 19
      [] step = "spawn" -> 18
      [] step = "open" -> 17
      [] step = "setup" -> 16
      [] step = "check" -> 15
      [] step = "collect" -> 14
      [] step = "plan" -> 13
      [] step = "time" -> 12
      [] step \in {"switch", "restore", "unwind"} -> 11
      [] step = "abandon" -> 10
      [] step = "close" -> IF Isolated THEN 10 ELSE 5
      [] step = "write" -> 9
      [] step = "leave" -> 8
      [] step = "reap" -> 7
      [] step = "judge" -> 6
      [] step = "report" -> 4
      [] step = "save" -> 3
      [] step = "tell" -> 2
      [] OTHER -> 0

(* The gluten arm has the baseline arm before it.                          *)
Distance == IF pc \in Ended THEN 0 ELSE Weight(pc) + IF arm = "gluten" THEN 20 ELSE 0

LEMMA StepsAdvance ==
    ASSUME Control, Next
    PROVE  Distance' < Distance
<1> USE DEF Control, Route, TypeOK, Distance, Weight, Ended, Isolated, Modes, Arms, work, arms, outcome
<1>1. CASE Parse \/ RefuseArguments \/ FailEarly
    BY <1>1 DEF Parse, RefuseArguments, FailEarly, Die, ArmSteps
<1>2. CASE Spawn \/ Open \/ Setup
  <2>1. /\ <<pc, pc'>> \in {<<"spawn", "open">>, <<"open", "setup">>, <<"setup", "collect">>,
                           <<"setup", "check">>}
        /\ UNCHANGED <<mode, arm>>
    BY <1>2 DEF Spawn, Open, Setup
  <2>2. Weight(pc) \in Nat /\ Weight(pc)' \in Nat /\ Weight(pc)' < Weight(pc)
    BY <2>1
  <2>3. QED
    BY <2>1, <2>2
<1>3. CASE Check \/ Collect \/ ReadPlan
  <2>1. /\ <<pc, pc'>> \in {<<"check", "collect">>, <<"collect", "plan">>, <<"plan", "time">>}
        /\ UNCHANGED <<mode, arm>>
    BY <1>3 DEF Check, Collect, ReadPlan
  <2>2. Weight(pc) \in Nat /\ Weight(pc)' \in Nat /\ Weight(pc)' < Weight(pc)
    BY <2>1
  <2>3. QED
    BY <2>1, <2>2
<1>4. CASE Time \/ Switch \/ Restore
    BY <1>4 DEF Time, Switch, Restore, AfterTime
<1>5. CASE Fail
  <2>1. pc \in {"setup", "collect", "plan", "time"} /\ pc' \in {"unwind", "raised", "abandon"}
    BY <1>5 DEF Fail, AfterFailure, Executions, ConfSteps
  <2>2. Weight(pc) >= 12 /\ Weight(pc) \in Nat /\ Weight(pc)' <= 11 /\ Weight(pc)' \in Nat
    BY <2>1
  <2>3. QED
    BY <1>5, <2>1, <2>2 DEF Fail
<1>6. CASE Kill
  <2>1. /\ pc \in {"open", "setup", "collect", "plan", "time", "close", "abandon", "write", "leave"}
        /\ mode = "isolated" /\ pc' = "reap"
    BY <1>6 DEF Kill, ArmSteps, Executions
  <2>2. Weight(pc) >= 8 /\ Weight(pc) \in Nat /\ Weight(pc)' = 7
    BY <2>1
  <2>3. QED
    BY <1>6, <2>1, <2>2 DEF Kill
<1>7. CASE FailToOpen \/ FailToSwitch \/ Hang
    BY <1>7 DEF FailToOpen, FailToSwitch, Hang, Die, Executions, ConfSteps, ArmSteps
<1>8. CASE Close \/ FailToClose \/ Abandon
    BY <1>8 DEF Close, FailToClose, Abandon, Die, ArmSteps
<1>9. CASE Write \/ Leave
    BY <1>9 DEF Write, Leave
<1>10. CASE Reap \/ ReapFailure
    BY <1>10 DEF Reap, ReapFailure
<1>11. CASE Judge
    BY <1>11 DEF Judge
<1>12. CASE Report \/ Save \/ Exit \/ FailToSave
  <2>1. pc \in {"report", "save", "tell"} /\ UNCHANGED <<mode, arm>>
    BY <1>12 DEF Report, Save, Exit, FailToSave
  <2>2. \/ pc' = "done"
        \/ <<pc, pc'>> \in {<<"report", "save">>, <<"save", "tell">>}
    BY <1>12, <2>1 DEF Report, Save, Exit, FailToSave, Die, ArmSteps, Executions
  <2>3. QED
    BY <2>1, <2>2
<1>13. QED
    BY <1>1, <1>2, <1>3, <1>4, <1>5, <1>6, <1>7, <1>8, <1>9, <1>10, <1>11, <1>12 DEF Next

(* A validation takes at most 39 steps, failures, kills and a hang, which  *)
(* nothing ends, included: no failed arm is started again, nothing is      *)
(* measured twice, and no process is waited for twice.                     *)
THEOREM AlwaysAdvances == Spec => [](Distance \in 0..39) /\ [][Distance' < Distance]_vars
<1>1. Control => Distance \in 0..39
    BY DEF Control, TypeOK, Distance, Weight, Ended, Isolated, Arms
<1>2. Control /\ [Next]_vars => [Distance' < Distance]_vars
    BY StepsAdvance
<1>3. GateInv => Control
    BY DEF GateInv
<1>4. QED
    BY <1>1, <1>2, <1>3, GateInvariance, PTL DEF Spec
=============================================================================
