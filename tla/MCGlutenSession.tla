-------------------------- MODULE MCGlutenSession --------------------------
(***************************************************************************)
(* Hosts and argument lists for model checking GlutenSession.  Each host   *)
(* differs from a healthy workstation in what one of the branches of       *)
(* get_session looks at; so does each request from a bare get_session().   *)
(***************************************************************************)
EXTENDS Doctor

Workstation ==
    [osTz |-> TRUE, tzdata |-> TRUE, tzdir |-> "unset", disabled |-> FALSE,
     jarEnv |-> "unset", bundled |-> "bundle", archKnown |-> TRUE,
     java |-> "supported", iceberg |-> TRUE, packages |-> {}, cached |-> {},
     localFormat |-> "none", submit |-> FALSE,
     line |-> [path |-> "none", heap |-> 0, plugin |-> FALSE]]

SlimImage == [Workstation EXCEPT !.osTz = FALSE]
BareImage == [SlimImage EXCEPT !.tzdata = FALSE]

MCHosts ==
    {Workstation, SlimImage, BareImage,
     [SlimImage EXCEPT !.tzdir = "operator"],
     [BareImage EXCEPT !.tzdir = "bogus", !.java = "unsupported"],
     [Workstation EXCEPT !.disabled = TRUE],
     [Workstation EXCEPT !.java = "none"],
     [Workstation EXCEPT !.packages = Coordinates],
     [Workstation EXCEPT !.packages = Coordinates, !.cached = {"format"},
                         !.localFormat = "present"],
     [Workstation EXCEPT !.packages = {"cloud"}, !.cached = {"cloud"},
                         !.localFormat = "absent"],
     [Workstation EXCEPT !.packages = {"cloud"}],
     [Workstation EXCEPT !.bundled = "none", !.iceberg = FALSE],
     [Workstation EXCEPT !.bundled = "many"],
     [Workstation EXCEPT !.jarEnv = "absent"],
     [Workstation EXCEPT !.jarEnv = "wrongArch"],
     [Workstation EXCEPT !.jarEnv = "wrongArch", !.archKnown = FALSE],
     [Workstation EXCEPT !.jarEnv = "stray"],
     [SlimImage EXCEPT !.submit = TRUE],
     [SlimImage EXCEPT !.submit = TRUE, !.line.path = "bundle", !.packages = Coordinates],
     [SlimImage EXCEPT !.line.path = "bundle", !.line.plugin = TRUE],
     [SlimImage EXCEPT !.tzdir = "bogus"],
     [Workstation EXCEPT !.submit = TRUE, !.line.path = "wrongArch"],
     [Workstation EXCEPT !.line.path = "stray"],
     [Workstation EXCEPT !.line.heap = 2]}

(* Smaller hosts for the run with two threads.                             *)
MCBusyHosts ==
    {SlimImage, [SlimImage EXCEPT !.tzdir = "operator"],
     [BareImage EXCEPT !.packages = Coordinates],
     [Workstation EXCEPT !.jarEnv = "wrongArch"],
     [SlimImage EXCEPT !.submit = TRUE, !.line.path = "bundle"],
     [Workstation EXCEPT !.line.path = "wrongArch"]}

MCRequests ==
    {DefaultRequest,
     [DefaultRequest EXCEPT !.require = TRUE],
     [DefaultRequest EXCEPT !.enabled = FALSE, !.heap = 8],
     [DefaultRequest EXCEPT !.heap = BadSize],
     [DefaultRequest EXCEPT !.enabled = FALSE, !.heap = BadSize],
     [DefaultRequest EXCEPT !.require = TRUE, !.jarPath = "bundle", !.heap = 8],
     [DefaultRequest EXCEPT !.jarPath = "absent"],
     [DefaultRequest EXCEPT !.extraJars = "present", !.iceberg = TRUE],
     [DefaultRequest EXCEPT !.extraJars = "absent"],
     [DefaultRequest EXCEPT !.override = "noPlugin", !.iceberg = TRUE],
     [DefaultRequest EXCEPT !.resolvePackages = FALSE],
     [DefaultRequest EXCEPT !.override = "off", !.confHeap = 2],
     [DefaultRequest EXCEPT !.confPath = "wrongArch"],
     [DefaultRequest EXCEPT !.confPath = "stray"]}

MCBusyRequests ==
    {[DefaultRequest EXCEPT !.require = TRUE],
     [DefaultRequest EXCEPT !.enabled = FALSE],
     [DefaultRequest EXCEPT !.extraJars = "present", !.iceberg = TRUE]}
=============================================================================
