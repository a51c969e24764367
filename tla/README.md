# A specification of velox-spark

TLA+ models of [velox-spark](../src), a Python package that starts PySpark
sessions with the Gluten/Velox native engine, with model-checking
configurations and proofs. Source positions below are relative to the
repository; `session.py` stands for `src/velox_spark/session.py`, and so on.

## The system

velox-spark keeps almost no state of its own. What makes it hard is that it
works on state other code shares and that is fixed at different moments: the
active `SparkContext`, the environment, the gateway JVM, which takes the
environment, its classpath, its heap and its settings once, when it is launched,
and outlives `spark.stop()` with them, and a runtime conf that can say "gluten"
when nothing is loaded.

| Component | State | Operations | Interacts with |
|---|---|---|---|
| Session start-up (`session.py`, `config.py`) | none of its own; reads and writes the process's | `get_session`, `enable_gluten`, `disable_gluten` | everything below; PySpark's `getOrCreate`, py4j's gateway |
| Preflight (`preflight.py`) | `os.environ["TZDIR"]`; reads the jar's directory, the ivy cache | `check_jar_architecture`, `ensure_timezone_database`, `classpath_promotion` | called by `get_session` and by doctor |
| JAR resolution (`jar.py`) | files of the wheel, `GLUTEN_JAR_PATH` | `resolve`, `bundled_jar`, `companion_jars`, `iceberg_runtime_jar` | called by `get_session` and doctor |
| Java (`jdk.py`) | `JAVA_HOME`, `PATH` | `check` | called by `get_session` |
| Memory (`memory.py`) | cgroup files, physical memory | `default_heap`, `default_offheap`, `parse_size`, `format_size` | `get_session`, `gluten_config`, the harness |
| A/B harness (`harness/validate.py`, `_arm.py`) | measurements of two arms, the caller's `spark.gluten.enabled`, result files | `validate`, `validate_isolated`, `run_cli` | `get_session`, the runtime switch, Spark executions, one process per arm when isolated |
| Row comparison (`harness/validate.py`) | none | `compare_rows` | harness |
| Diagnostics (`diagnostics.py`) | none | `is_engaged`, `executed_plan`, `plan_stats`, reports | harness, `explain` |
| Doctor (`__main__.py`) | none | `doctor`, `doctor --live` | repeats the preflight checks |
| Wheel building, releases (`scripts/`) | the jars directory, `dist/`, the index and its `.prev`, release assets | `build_wheels.sh`, `publish_release.sh` | git, GitHub |

**What is hard.** *Check-then-act:* the context is looked at once
(session.py:122) and `getOrCreate` runs a hundred lines later. *Order:* TZDIR
and the classpath count only if they are in place when the JVM starts.
*Sequences:* a JVM outlives its session, so a later call meets the classpath and
the settings an earlier one, or `spark-submit`, launched it with. *Precedence:*
`extra_conf` is applied after everything the code sets, and the driver options of
`PYSPARK_SUBMIT_ARGS` after that. *Partial failure:* every way to
lose the engine must warn, or raise under `require_native`; every way the
baseline arm can fail must give the caller the engine back; every way an arm's
process can end, killed ones included, must end the gate without a verdict.
*Copies:* doctor repeats the checks of `get_session`, and the harness reads the
text of a plan for what ran. *Staleness:* runtime
conf, plans and the ivy cache may not describe what runs. *Edges:* the
comparison cap, rounding in the sort key, tolerance that is not transitive,
flooring of sizes. `PROJECT.json` lists these hazards line by line.

**What makes each part correct.** Start-up: a session said to be native is
native, on a JVM that can serve it (as far as its classpath was not dictated
elsewhere); a session that is not says so; and whatever
happens inside, a caller sees one of four outcomes. Doctor: its verdict is what
`get_session` then does. Harness: a pass means two different engines were
compared and agree on a query that ran mostly natively, a mismatch is the
engines', the exit code tells the verdict, the session is handed back
accelerated and nothing is left running. Comparison: an empty report means equal up to order
and tolerance. Memory: defaults fit the container; both arms are equal.
Release: a wheel has the JAR its name promises; what users see resolves, and
what they pinned stays.

## The modules

**GlutenSession** models one Python process. Its variables are the host, the
environment (`tzdata`, `TZDIR`), the ivy cache, the gateway JVM, the active
context, the runtime conf, and for each thread the call it is in. `get_session`
is cut into one action per stretch of code between accesses to state others
can change:

| Action | Code |
|---|---|
| `Enter` | a call with some arguments |
| `CheckContext`, `Attach` | session.py:122-134 |
| `ResolveJar` (with `Degrade`, `GoPlain`) | session.py:146-182, 267-289; jar.py; preflight.py:68 |
| `CheckJava` | session.py:184-193, jdk.py |
| `EnsureTimezones` | session.py:195-204, preflight.py:118 |
| `AddJars` | session.py:206-241, preflight.py:243, config.py:49 |
| `Create` (`StartContext` or `ReuseContext`) | session.py:281-296 |
| `NoteDriverHeap` | session.py:298-311, 314-343 |
| `SetGluten` | session.py:364-383 |
| `OtherSession`, `Stop`, `InstallTzdata` | code and people outside the package |

The Spark side is external and modelled from how the code and its comments use
it: `getOrCreate` hands back a live context with the options copied into its
conf (README.md:267-270); otherwise it launches the JVM, unless one survives,
with the environment of that moment (preflight.py:130-132) and with the classpath,
heap and settings of the options (`Launch`; PySpark puts them on the command line
of the JVM). The driver options of `PYSPARK_SUBMIT_ARGS`, or of `spark-submit`,
which launches the JVM before Python runs, win over them (session.py:317-320,
337-340): `host.line` says whether they name a classpath, a heap or the plugin.
What a JVM was launched with stays with it as system properties, so the settings
of a new context are those, with the options on top (`Settings`); if they name the
plugin, the JVM's classpath must hold a bundle, or no context starts. `extra_conf`
is applied last (`Overridden`) and may take the plugin out, switch it off, or set
heap and classpath. Both it and the driver options name a classpath without anyone
looking at what is on it; `given` remembers that the classpath of a JVM came so.
Declared packages are in the ivy cache once a JVM has been launched.
`Overlap` says whether other code runs during a call. A jar is one of a bundle
for this CPU, a bundle for another one, or a jar without native libraries. Of
the packages declared two are told apart, the table format's own and one it
loads (a cloud SDK), each cached or not; a local jar of a format may be declared
and may exist. `Promoted` and `SplitNote` are `classpath_promotion` on them.

**SessionPromise** is the abstract specification of `get_session`: the process
has at most one session, and a call is one step that hands a live session back
loudly, builds what was asked for, falls back loudly unless the engine is
required, or raises and leaves no session. Whoever wants the engine gets it; whoever
does not ask for it, and a fallback, gets whatever the process keeps (`kept`),
which is plain Spark until a wish for the engine or the driver options leave it
there; only who takes the plugin out is sure of plain Spark. GlutenSession implements
it when nothing overlaps (`KeepsPromise`) under the mapping

| SessionPromise | GlutenSession |
|---|---|
| `session` | `context` |
| `kept` | do the launch settings of the JVM, or the driver options it will be launched with, name the plugin? |
| `stage[c]` | "working" from `Enter` until the step that creates the session, hands it back or raises |
| `wish[c]` | does the call ask for the engine (`enabled`, `VELOX_SPARK_DISABLE`, `extra_conf`), and `require_native` |
| `answer[c]` | kind of session or error, and whether the call warned of an existing session or a fallback |

**Doctor** extends GlutenSession with the verdict of `velox-spark doctor`, a
function of the host (`__main__.py:58-139`, `preflight.summarize`), and compares
it with how the calls of the same process end. What a call has inherited rather than
asked for is `Inherited`.

**PlanText** is what `plan_stats` reads from an executed plan. A line is a kind of
node and whether it ran; an adaptive plan prints what ran, a marker, and the plan
it began with. `FinalPlanSection` cuts at the first marker as the code does.

**Validate** models one validation, made in one of three ways: `validate()` called
from code, `velox-spark validate`, and `velox-spark validate --isolated` with a
process, a session and a result file per arm. What an execution runs on is
decided when it is planned, from the plugin and the runtime switch. Whatever
touches Spark may fail (`Fail`, `FailToOpen`, `FailToSwitch`, `FailToClose`) or
never return (`Hang`), which nothing in the harness ever ends; an arm's process may be killed between any two of its steps, in the middle of its result
file too (`Kill`); parsing, printing and writing the verdict may fail.

| Action | Code |
|---|---|
| `Parse`, `RefuseArguments`, `FailEarly` | validate.py:753-765 |
| `Spawn`, `Reap`, `ReapFailure` | validate.py:489-522, 567-587 |
| `Open`, `Setup`, `Close`, `FailToClose`, `Abandon` | validate.py:780-799, 740-750; _arm.py:27-62 |
| `Write`, `Leave` | _arm.py:64-70 |
| `Check`, `Switch`, `Restore`, `FailToSwitch` | validate.py:415-435 |
| `Collect`, `ReadPlan`, `Time` | validate.py:241-341 (`_measure`), diagnostics.py:71-118 |
| `Judge` | validate.py:344-387, 448-486 |
| `Report`, `Save`, `Exit`, `FailToSave` | validate.py:615-660, 801-807 |

A query is known by what the gates tell apart: how many rows it has, whether they
can be ordered and whether a capped prefix is one tie band, the text of its plan
under Velox, where Velox's result differs (nowhere, within the compared prefix,
beyond it, or by a row more), whether it drifts in a way `compare_rows` may take for
a difference, its speedup, and how many rows the setup statements add to its
tables, which the second arm of an isolated validation then sees. Where results
differ in what was collected `compare_rows` says so; where they only drift it may
say so or not, as the rows happen to fall (`Mismatches`).

**CompareRows** models one call of `compare_rows` and compares it with the
definition it stands for: the rows can be paired off so that all pairs match.
Rows are opaque; what counts is which match (`RowsMatch`) and where the sort key
puts each (`SortKey`). The second pass takes the rows of one key in order and the
keys in any; once `MaxReport` problems are listed it gives up.

| Action | Code |
|---|---|
| `RefuseCounts`, `Sort` | validate.py:192-197 |
| `ZipRow`, `EndZip` | validate.py:199-206 |
| `MatchRow` (with `Pool`, `Hits`, `Enough`) | validate.py:208-238 |

**RowValues** gives the two for rows of two columns. A value is a float, a null or
a NaN; a float counts units of its last places: values up to `Tol` apart match,
and the sort key rounds to multiples of the coarser `Res`, as `1e-9` and six
digits do.

**Sizing** states the arithmetic of memory sizes in bytes, with units of `K`
where the code has 1024.

**Release** models `build_wheels.sh`, `publish_release.sh` and what their
maintainer does around them: the JAR directory, `build/`, `dist/`, the index and
its `.prev`, the release assets, and the index that was pushed. A wheel is its
name (version and tag, which is a platform and the glibc version it asks for) and
its bytes (the JARs in it, the build that made it). The tag is read from the JAR
(`Tags`), a fallback where the JAR does not tell, or given by hand; so `dist/` may hold wheels of one version
and platform with different tags. A link of the index and an asset of a release are both a release and a
wheel, so a link resolves if it is an asset. The scripts are cut between their
commands and may stop at any of them; an upload may replace some assets and
delete others.

| Action | Code |
|---|---|
| `StartBuild`, `Stage` (with `Accepted`, `Tags`, `StageJar`) | build_wheels.sh:268-301, 73-222 |
| `BuildWheel`, `Retag` (with `Put`, `Renamed`) | build_wheels.sh:245-266 |
| `StopBuild` | `set -e` and the EXIT trap, or a crash |
| `StartPublish` | publish_release.sh:60-115 |
| `WriteLinks`, `KeepPrev` | publish_release.sh:117-134, 145-149 |
| `Upload`, `FailUpload`, `StopPublish` | publish_release.sh:151-168 (`gh`) |
| `Push`, `Bump`, `FreshCheckout` | the maintainer, as NOTES.md and the script's header ask |

Two of its variables are history, not state of the program: `built` (did the
last build of this version finish?) and `unfinished` (releases whose last
publication, dry runs included, was not carried through to the push).

**GlutenSessionProofs**, **SessionPromiseProofs**, **SessionJvmProofs**,
**DoctorProofs**, **ValidateProofs**, **CompareRowsProofs**, **SizingProofs** and
**ReleaseProofs** hold the theorems; the **MC** modules hold hosts, argument
lists, queries, rows, sizes and command lines for TLC.

Operators under a comment that begins with "Fault:" are not part of the models.
Each is a plausible mistake in the operator that follows it and shows which
property notices.

## The runs

| Run | Question | Result |
|---|---|---|
| `session_alone` | Do the promises of `get_session` hold over three calls in a process, other code running between calls? Is a call one step of SessionPromise? Does doctor foretell it? | all 12 hold |
| `session_busy` | Which hold when other threads run during a call? | 4 hold |
| `session_timezones` | Is TZDIR ever set too late, unnoticed? | yes |
| `session_tzdir` | Does a TZDIR the operator set always stay? | not if it is no directory |
| `session_plain` | Is a session built with `enabled=False` always plain? | not after a native one |
| `session_silent` | Is a fallback ever silent? | yes, in a race |
| `validate` | What do a passed verdict, a mismatch and an exit code mean; what is left behind? | all 10 hold |
| `compare` | Is `compare_rows` sound, and tolerant within a key? | yes |
| `compare_order` | Is it insensitive to order? | no |
| `sizing` | Do sizes fit, and survive their conversion? | yes |
| `release` | Do wheels fit their names, published links resolve and stay? | all 5 hold |
| `release_alone` | Is a pure wheel never published alone? | it can be |

The six runs that end in a counterexample check a sentence of the repository's
documentation or comments; the findings in `PROJECT.json` quote it.

- `session_timezones`: under `spark-submit` (or after `spark.stop()`) the JVM
  runs before `get_session` does. On an image without a zone database TZDIR is
  set in Python's environment only, and neither this call nor the next, which
  takes TZDIR for the operator's, warns.
- `session_tzdir`: NOTES.md says TZDIR is set only when the operator has not set
  it; a TZDIR that names no directory is overwritten without a warning. One that
  does name a directory is safe: `OperatorTzdirReachesJvm`.
- `session_plain`: a native session, `spark.stop()`, `get_session(enabled=False)`.
  The JVM still has `spark.plugins` from its launch, and the "plain" session is
  accelerated. This is how an A/B comparison in one process goes wrong;
  `validate_isolated` is safe, each of its arms being a process.
- `session_silent`: while one thread is between the context check and
  `getOrCreate`, other code builds a session. The first thread gets it back
  with `spark.plugins` written into its conf, no warning, and `is_engaged` true.
- `compare_order`: with a, b and c on one key, a close to b and b to c but not a
  to c, `[a, b, c]` against `[b, c, a]` is reported: the first pass keeps the
  accidental pairs and the second re-matches only what is left. The real
  function does so on `1.0, 1.0 + 0.9e-9, 1.0 + 1.8e-9`.
- `release_alone`: version 1 is built with JARs, version 2 without; version 1's
  wheels in `dist/` satisfy the gate.

Several properties hold with exceptions, and each exception is a behaviour TLC
shows when it is taken out:

- `RequiredMeansLoaded` is of sessions the call creates, with acceleration not
  switched off. README.md:299-300 says that with `require_native=True` a call "fails
  at startup if acceleration is unavailable"; with a live context, or
  `VELOX_SPARK_DISABLE` set, it does not look at `require_native` and returns what
  there is (session.py:122-134, 146).
- `LoadedEngineFitsHost`: preflight looks at the jar that was resolved. A classpath
  that `extra_conf` or the driver options give, to a JVM that runs already or is
  still to be launched, is not looked at, and a bundle for the other architecture on
  it is loaded. `JarsReachJvm` has the same exception.
- `HeapIsAsAskedOrNoted`: a call that launches the JVM gets another heap than it
  asked for, and is told, only if `extra_conf` or the driver options say so.
- `DoctorForetells`: `Overlooked` lists what doctor does not look at. It prints
  READY and exits 0 with `VELOX_SPARK_DISABLE` set, with a jar that is no bundle,
  with a TZDIR that leads nowhere, and where the classpath is given and has no
  bundle, although NOTES.md:30 says it "exits non-zero when native acceleration will
  not engage".
- `PassMeansRowsAgree`, `MismatchMeansDifference`: with `--isolated`, setup
  statements that add rows run once per arm. They can make equal results look
  different and, if Velox returns too many rows, different ones equal.
- `MismatchMeansDifference` excepts queries that drift in a way `compare_rows` does
  not see through: in rows that tie on the sort key, as `compare_order` shows,
  across the rounding of a key, or in which rows end up at the end of a capped
  prefix. What it says beyond that is that no mismatch is made of an impossible
  comparison, and none blamed on Velox when Velox was not at work.
- `SwitchedBackOn` excepts a session whose conf cannot be set any more (pc "lost").
- `ExitTellsVerdict`: a verdict on file that says "passed" may go with exit code 1,
  when the path of the file cannot be printed.
- `PassMeansMostlyNative`: a subquery with an adaptive plan of its own prints an
  "Initial Plan" marker in the middle of the text, and nothing after it is
  counted, so boundaries there do not weigh against the query.
- `TagReadFromJarFits` is of tags read from JARs. With `--x86-plat` or `--arm-plat`
  the JAR is not opened (build_wheels.sh:128), and one for the other platform is
  packed under the tag, although NOTES.md:478-479 says that a mismatch "fails the
  build"; the command NOTES.md gives passes `--arm-plat`.

Without the exception for unfinished releases, `PushedLinksResolve` and
`OldLinksStay` fail: after a dry run of a rebuilt version, or a failed upload,
and a version bump, the next index carries the links that never came to be.

**Bounds.** `MaxCalls` = 3 allows a call that launches the JVM, one that meets
or follows its session, and one after that; nothing in the code remembers
more than the JVM and TZDIR, which are set once. Twenty-four hosts and fourteen
argument lists each differ from the default in what one branch looks at; driver
options name a bundle of either architecture, a jar that is none, a heap, or the
plugin, with and without a JVM that runs already, and `extra_conf` each of the
things it may override. Two threads suffice for the races, as a third party
(`OtherSession`, `Stop`) is always there. Heaps are in GiB, with `JvmHeap` = 1 (what Spark launches by
default) and requests of 4 and 8 on both sides of three quarters. `Cap` = 2 with
results of 0 to 4 rows gives results below, at and beyond the cap, with 0 or 1
row added by setup statements, drifting or not. The five plans are one each that passes the
fallback gate, fails it for its boundaries, fails it with a native initial plan,
has no adaptive part, and has a nested one. In Release two versions
and two builds give an earlier release to keep or break, a rebuild with other
bytes under the same name or under another tag, and a version with the wheels of
another in `dist/`; the four command lines have no JAR, JARs that stop the build
or fall back to the default floor, a JAR for each platform with an extra one, and
a JAR in the wrong slot under a tag given by hand; of the three floors one is the
fallback of x86_64, one that of aarch64 and one newer. The theorems have no bounds.
`MaxRows` =
3 is the least that shows non-transitive tolerance, and `MaxReport` = 2 lets a
report of three rows be cut short; five consecutive floats with `Tol` = 1 and
`Res` = 3 give three keys, one of them with three floats, and a boundary on both
sides of it; a null and a NaN make one row each, of which one is told apart by its
second column. The theorems about CompareRows have neither bound. `K` = 4 keeps
three units apart; machines and sizes lie on and around every unit boundary.

**Fairness and deadlock.** No specification states fairness and no property is
one of liveness. Nothing in `get_session` waits, so that its calls end says nothing
about the code; the harness waits for Spark and for the processes of its arms
without a time limit (validate.py:495), so that it does not promise to end, and
`Hang` lets it stop at every step that asks Spark for something. Nobody is obliged
to make a call or to run a script. What can be said is how much there is to do:
`AlwaysAdvances` bounds the steps of a validation, failures and kills included. All
runs switch deadlock checking off because the modelled programs end: a process
makes at most `MaxCalls` calls, a validation ends with a verdict or an exception or
hangs, `compare_rows` and the sizing return, and Release stops when its bounds are
used up.

## The proofs

`GlutenSessionProofs` proves, for all threads, hosts, requests, heaps and
numbers of calls, and for both values of `Overlap`:

- `TypeCorrect`: `Spec => []TypeOK`
- `LoadedEngineFits`: `Spec => []LoadedEngineFitsHost`
- `TimezonesReach`: `Spec => []TimezonesReachJvm`
- `RequiredLoads`: `Spec => []RequiredMeansLoaded`
- `OperatorTzdirReaches`: `Spec => []OperatorTzdirReachesJvm`
- `CreatedAsWished`: a session a call created itself lacks an engine that was
  wished for only with a warning, and has one that was not wished for only from the
  settings its JVM was launched with. The silent fallback of `session_silent` is
  therefore always somebody else's session, and the engine of `session_plain`
  always an inherited one.

from `ConstantsAssumption` only: constants have their types, and a JVM that runs
before Python does is a Java that exists.

The properties in between are not inductive: that a returned session has time zones
depends on what an earlier step of the call established. `IInv` adds, for each
thread, what every step relies on: `JarInv` (a jar once resolved is for this
architecture, and options name another only if `extra_conf` gave them), `TzInv` (past the time zone
step a JVM launched now would find a database, or the caller is warned; a JVM
this call launched is still up), `RequireInv` (a required call never warns
about time zones and asks for the plugin when it reaches `Create`); and
`JvmInv` for the JVM (a native context implies a bundle on its classpath; a JVM
with a wrong one was given its classpath; a TZDIR that the operator set to a
directory is still there, and the JVM has it). `IInv` survives the steps of other
threads because TZDIR only changes for the better and a JVM that is up never
changes (`OthersKeepInv`, `FrameKeepsIInv`), which is why these properties hold in
`session_busy` too.
There is one lemma per action; `GetOrCreate` is treated once for both callers.
`CreatedAsWished` has an invariant of its own, `SettledInv`: what the options of
a call have come to and what it has warned of when it reaches `Create` agree with
what it wished for, and an engine it did not wish for is one of the JVM's settings. TLC finds `IInv` and `SettledInv` invariant on the instances
of `session_alone` and `session_busy`.

`ReleaseProofs` proves, for all numbers of versions and builds and all command
lines, from `ReleaseAssumption` (there is at least one version, the fallback tags
ask for known glibc versions): `ReleaseTypes`
(`[]TypeOK`), `PureWheel` (`[]PureWheelIsPure`), `TagFits`
(`[]TagReadFromJarFits`), `PushedResolve` (`[]PushedLinksResolve`) and
`OldLinks` (`OldLinksStay`). `BuildInv` adds what the JAR directory holds at
each step (`StagedInv`): a wheel is what it is called because the directory held
just its JAR and the extra ones when it was packed, and the tag at hand is one that
was read from that JAR or given for it. `TagsReadFit` is the lemma that a tag that
was read fits the JAR it was read from. `LinkInv` adds that `.prev` has all of what
users see, that its links resolve too, and how far the publication under way has
got (`ProgressInv`): uploads touch only the assets of a release that counts as
unfinished, so nobody else's links break, and when "Published" is printed the
links of this one are assets.

`SessionPromiseProofs` proves, for `~Overlap`, what needs the absence of overlap:
`PromiseKept` (`Spec => KeepsPromise`, the refinement), `FallbackLoud`,
`EngagedIsLoaded` and `ExistingUnchanged`. Its `AloneInv` says that at most one
call is under way (`OneAtATime`), that past `CheckContext` such a call found no
context and still finds none, what it has warned of by then (`AloneCall`), and
that a conf that says "gluten" belongs to a native context (`ConfFits`). Each step
of the module is then a step of SessionPromise or a stutter; a `Create` is a
`Build` or a `FallBack` by whether its options name the plugin. What the process
keeps changes only when a JVM is launched, and then for the engine only if the
options of a call that wants it name the plugin.

`SessionJvmProofs` proves `JarsReach` (`[]JarsReachJvm`) and `HeapAsAsked`
(`[]HeapIsAsAskedOrNoted`) with any overlap. `JvmCalls` adds to `IInv`, for each
call, `JarsCall` (the options of a call about to create a session name every jar
the call asked for, or the call has warned) and `HeapCall` (they name the heap it
wants); a call that launched the JVM finds these very jars and this heap on it,
as a JVM that is up never changes (`JvmStays`), unless it was `SizedByOthers` or
given its classpath.

`DoctorProofs` proves, for `~Overlap` and any hosts and requests, `DoctorIsRight`
(`Spec => DoctorForetells`). `DoctorInv` follows a bare call beside the doctor
(`Course`): past each check the call has found out what the doctor would
(`JarPassed`, `JavaFound`, `ZonesTold`), and a call that reaches `Create` without
the plugin has met something that bars it (`Bars`), so that an engine it has all
the same is `Inherited`. `TzdirFits` joins the two
views of the time zones: the doctor sees the TZDIR the host set, the call the one
an earlier call may have left. A bare call can then end in five steps, and each
has a lemma that it ends as foretold.

`ValidateProofs` proves, for any set of queries and any cap, all ten properties of
Validate: `TypeInvariance`, `PassedComparedEngines`,
`PassedRowsAgree`, `MismatchesAreDifferences`, `LeftSwitchedOn`,
`OneEngineNoted`, `NothingLeft`, `WholeArms`, `ExitIsGate` and `MostlyNative`.
For the last the plans are any texts in which whatever did not run comes under a
marker (`PlanTexts`): the lines counted are then lines that ran (`CountedLinesRan`),
and all of them unless a plan is nested. `AlwaysAdvances` bounds a validation:
`Distance`, at most 39, falls with every step, failing, killed and hanging ones
included, so no arm is started or measured twice. `GateInv` is their
common inductive invariant, and its parts are the argument: `Route` (where each
way of validating can be, with which arm), `VerdictLast`, `Sessions` and `Procs`
(where no session is open, whose process runs and whose has ended well), `Exits`,
`Switched` (how native execution is switched at each measuring step, and that the
note precedes it), `Measured` (all an arm measured came from one engine: the
baseline's from the JVM, gluten's from Velox just if it was engaged), `Rows` (an
arm counts the query's rows, those setup added, and Velox's extra one) and
`Judged` (what a verdict was given for stays true: mismatches are those that
`Mismatches` allows, and what passed was compared). Each part has one lemma that
every step keeps it.

`SizingProofs` proves all four properties of Sizing for every `K` of at least 2,
in particular 1024, every machine and every request: `SizingTypes`,
`HeadroomLeft`, `HeapNearlyAsAsked` and `ArmsEqual`, from what whole division
does and from what a size string keeps (`Formatted`, `WholeGibFormatted`).

`CompareRowsProofs` proves, for rows of any kind, any symmetric match, any sort
key, and results and reports of any length: `CompareTypes` (`[]TypeOK`),
`AcceptedSame` (`[]AcceptedMeansSame`), `DriftAccepted`
(`[]DriftWithinKeysAccepted`) and `PermutationAccepted`. From `CompareAssumption`:
matching is symmetric, keys are totally ordered. `TuplesFit` proves that the rows
of RowValues are such rows and match themselves.

- *Soundness.* `PairInv`: in both passes `partner` is injective on the left rows
  paired so far and pairs only rows that match (`Paired`); a left row without a
  partner is still to be matched or was listed (`Passes`). With no problem listed
  all are paired, and the two sorting orders turn the pairing into one of the
  results as given.
- *Tolerance.* `DriftInv`: as long as the results can be paired off within their
  keys and are clustered, no problem is listed and the rows left open can still be
  paired off (`Completable`). Two facts carry it. Sorted results that pair off
  within their keys have the same key at each position (`KeysAlign`, a counting
  argument), so the first pass too pairs only within keys. And giving i the row j
  that another row k was to have does no harm, since k can have i's row instead:
  the four are of one key and clustered (`Exchange`).
- *Order.* `PermutationAccepted`: `OrderDoesNotMatter` holds wherever the rows are
  clustered, so chains of drift inside one sort key, as in `compare_order`, are the
  only way that order matters.

TLC finds `PairInv` and `DriftInv` invariant on the instance of `compare`.

Every property that a passing run checks is a theorem. The properties of the runs
that end in a counterexample are false; `CreatedAsWished` says of
`FallbackIsNeverSilent` and `PlainMeansPlain`, `OperatorTzdirReaches` of
`OperatorTzdirKept` and `PermutationAccepted` of `OrderDoesNotMatter` how far.
Nothing is said of liveness or ENABLED, by TLC or by proof.

## Not modelled

Executors and cluster masters (`spark.executor.*`, `verify_executors`): which
classpath an executor host sees is decided outside this code. Text:
`explain_error`, `jvm_operators`, reports, banners, the layout of the printed
verdict, argument declarations, `explain` and `doctor --live`, which run a query
and print. The contents of jars beyond their architecture. `spark-defaults.conf`,
which Spark reads like driver options that lose against the builder's. What is in
a zone database: the OS's is taken to do wherever there is one, whatever TZDIR
says, as `ensure_timezone_database` takes it. The values of containers, decimals and
dates in `compare_rows` (its theorems hold for them, as far as matching is
symmetric), and the wording of its report. In Validate, a `--conf` or driver options
that load the plugin in the baseline arm, and how drift arises: whether a query
drifts is given. Time limits and progress: a step may hang and nothing is promised
then. In Release, licence files, JARs without a Gluten version in their name beyond
their being refused, and which of two wheels pip prefers; the upload to PyPI. Docker and Gluten build recipes, CI workflows, the
demo.

## Plan

Done, in this order: GlutenSession with its checks and proofs; Validate;
CompareRows; Sizing; Release with its checks and proofs; SessionPromise and the
refinement, checked and proved; Doctor; the isolated validation with its
processes and the command line, checked and proved; Sizing for every `K`;
CompareRows as a state machine over rows of any kind, checked and proved; the
doctor, proved; a bound on the steps of a validation; what a JVM keeps from its
launch, driver options and overriding settings, in GlutenSession, its promise and
their proofs; glibc floors and tags by hand in Release. What could follow:

1. A promise for the case with overlap: which of the four outcomes a call may
   still mix up when other threads build and stop sessions. `CreatedAsWished` is
   its first part.
2. For which plan texts with nested plans the fallback gate still tells the truth.
3. `_canon` and `_values_match` on containers: whether a container that matches
   can have another sort key.
