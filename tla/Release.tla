------------------------------ MODULE Release ------------------------------
(***************************************************************************)
(* Building and publishing the wheels (scripts/build_wheels.sh,            *)
(* scripts/publish_release.sh): the working tree on the maintainer's       *)
(* machine, the GitHub releases, and the package index users read.         *)
(*                                                                         *)
(* Both scripts may stop after any command.  They are run by one person,   *)
(* one after the other, and docs/ is pushed only after publish_release.sh  *)
(* has said "Published", as its header and NOTES.md ask.                   *)
(***************************************************************************)
EXTENDS Integers

CONSTANTS
    MaxVersion,   \* bound: versions released
    MaxBuilds,    \* bound: runs of build_wheels.sh
    Floors,       \* the glibc versions a platform tag may ask for
    Fallback,     \* the one it asks for when a JAR does not tell
    Commands      \* the command lines build_wheels.sh is given

Versions == 1..MaxVersion
Platforms == {"x86_64", "aarch64"}

(* A platform tag.  With glibc 0 it is no manylinux tag: "any", or a       *)
(* linux_x86_64 given by hand.                                             *)
Any == [platform |-> "any", glibc |-> 0]
PlatformTags == [platform : Platforms, glibc : Floors \cup {0}]
TagType == PlatformTags \cup {Any}

(* A JAR: whether its name carries the version of the package, whose       *)
(* native libraries it holds ("nothing": none at all, "other": not those   *)
(* of Gluten, or those for several platforms), and the greatest glibc      *)
(* version their symbols ask for, 0 if none.                               *)
JarType == [named : BOOLEAN, holds : Platforms \cup {"nothing", "other"},
            glibc : Floors \cup {0}]

AtMostOne(S) == {{}} \cup {{x} : x \in S}

(* --x86-jar and --arm-jar, --x86-plat and --arm-plat, and --extra-jar,    *)
(* which is given for JARs without native libraries.                       *)
CommandType ==
    [jar : [Platforms -> AtMostOne(JarType)], plat : [Platforms -> AtMostOne(PlatformTags)],
     extra : SUBSET {jar \in JarType : jar.holds = "nothing"}]

ASSUME ReleaseAssumption ==
    /\ MaxVersion \in Nat \ {0} /\ MaxBuilds \in Nat
    /\ Floors \subseteq Nat \ {0} /\ Fallback \in [Platforms -> Floors]
    /\ Commands \subseteq CommandType

(* A wheel: its name is the version and the platform tag, its bytes are    *)
(* the JARs packed into it and the build that packed them.                 *)
Wheels == [version : Versions, tag : TagType, jars : SUBSET JarType,
           build : 1..MaxBuilds, byHand : BOOLEAN]

SameName(f, g) == f.version = g.version /\ f.tag = g.tag

(* A link of the index names a file of a release and the hash of its bytes;*)
(* an asset is a file of a release.  The link resolves if it is an asset.  *)
Links == [release : Versions, wheel : Wheels]

VARIABLES
    version,     \* the version in pyproject.toml
    dist,        \* the wheels in dist/
    jarDir,      \* the JARs in src/velox_spark/jars
    buildDir,    \* the JARs setuptools has copied into build/
    builds,      \* runs of build_wheels.sh so far
    cmd, step, arch,      \* the run of build_wheels.sh and where it is
    plat,        \* the tag for the wheel at hand
    TAG, pub,             \* the run of publish_release.sh and where it is
    dryRun,
    index, prev,          \* docs/simple/velox-spark/index.html and .prev
    assets, released,     \* on GitHub: the files, the releases
    pushed,               \* the index users see
    built,       \* did the last build_wheels.sh of this version finish?
    unfinished   \* releases whose last publication did not reach the push

NoCommand ==
    [jar |-> [p \in Platforms |-> {}], plat |-> [p \in Platforms |-> {}], extra |-> {}]

tree == <<dist, jarDir, buildDir>>
building == <<builds, cmd, step, arch, plat, built>>
publishing == <<TAG, pub, dryRun, unfinished>>
docs == <<index, prev>>
github == <<assets, released>>
vars == <<version, tree, building, publishing, docs, github, pushed>>

----------------------------------------------------------------------------
(* build_wheels.sh                                                         *)

NoScript == step = "idle" /\ pub \in {"idle", "published"}

StartBuild(c) ==
    /\ NoScript
    /\ builds < MaxBuilds
    /\ builds' = builds + 1
    /\ cmd' = c
    /\ step' = "stage"
    /\ arch' = "x86_64"
    /\ plat' = Any
    /\ built' = FALSE
    /\ UNCHANGED <<version, tree, publishing, docs, github, pushed>>

NextArch == IF arch = "x86_64" THEN "aarch64" ELSE "any"

(* Fault: the libraries in the JAR are not looked at.                      *)
AcceptedByName(jar) == jar.named

(* check_jar_version, then detect_platform_tag, which looks into the JAR   *)
(* unless the tag is given.                                                *)
Accepted(jar) ==
    /\ jar.named
    /\ cmd.plat[arch] # {} \/ jar.holds \in {arch, "nothing"}

(* Fault: no fallback is printed, and the tag is empty.                    *)
TagsWithoutFallback(jar) ==
    IF cmd.plat[arch] # {} THEN cmd.plat[arch]
    ELSE IF jar.glibc = 0 THEN {[platform |-> "", glibc |-> 0]}
    ELSE {[platform |-> arch, glibc |-> jar.glibc]}

(* detect_platform_tag, of an accepted JAR.                                *)
Tags(jar) ==
    IF cmd.plat[arch] # {} THEN cmd.plat[arch]
    ELSE IF jar.holds = "nothing" \/ jar.glibc = 0
    THEN {[platform |-> arch, glibc |-> Fallback[arch]]}
    ELSE {[platform |-> arch, glibc |-> jar.glibc]}

Goto(s, a) == step' = s /\ arch' = a /\ cmd' = cmd
Exit == step' = "idle" /\ arch' = "x86_64" /\ plat' = Any /\ cmd' = NoCommand

(* build_arch, up to the build: the directory is emptied (also by the EXIT *)
(* trap) and takes the JAR of the platform and the extra ones.             *)
StageJar(jar) ==
    \/ /\ ~Accepted(jar)
       /\ jarDir' = {}
       /\ Exit
    \/ /\ Accepted(jar)
       /\ jarDir' = {jar} \cup cmd.extra
       /\ plat' \in Tags(jar)
       /\ Goto("wheel", arch)

Stage ==
    /\ step = "stage"
    /\ \/ /\ arch = "any"
          /\ jarDir' = {} /\ plat' = Any
          /\ Goto("wheel", arch)
       \/ /\ arch # "any" /\ cmd.jar[arch] = {}
          /\ Goto("stage", NextArch)
          /\ UNCHANGED <<jarDir, plat>>
       \/ arch # "any" /\ \E jar \in cmd.jar[arch] : StageJar(jar)
    /\ UNCHANGED <<version, dist, buildDir, builds, built,
                   publishing, docs, github, pushed>>

(* A file of the same name is replaced; one of the same version for the    *)
(* same platform that asks for another glibc is not.                       *)
Put(f) == {g \in dist : ~SameName(f, g)} \cup {f}

(* Fault: no `rm -rf build`.                                               *)
BuildDirKept == buildDir \cup jarDir

BuildDirFresh == jarDir

Packed(tag) == [version |-> version, tag |-> tag, jars |-> BuildDirFresh,
                build |-> builds, byHand |-> FALSE]

(* python -m build: whatever is inside, the wheel is named "any" at first. *)
BuildWheel ==
    /\ step = "wheel"
    /\ buildDir' = BuildDirFresh
    /\ dist' = Put(Packed(Any))
    /\ IF plat = Any THEN Exit /\ built' = TRUE /\ jarDir' = {}
                     ELSE Goto("retag", arch) /\ UNCHANGED <<plat, built, jarDir>>
    /\ UNCHANGED <<version, builds, publishing, docs, github, pushed>>

(* wheel tags --remove.                                                    *)
Renamed(f) == [f EXCEPT !.tag = plat, !.byHand = cmd.plat[arch] # {}]

Retag ==
    /\ step = "retag"
    /\ \E f \in dist : /\ f.version = version /\ f.tag = Any
                       /\ dist' = Put(Renamed(f)) \ {f}
    /\ Goto("stage", NextArch)
    /\ UNCHANGED <<version, jarDir, buildDir, builds, plat, built,
                   publishing, docs, github, pushed>>

(* A command fails and the EXIT trap empties the JAR directory, or the     *)
(* machine goes down and nothing does.                                     *)
StopBuild ==
    /\ step # "idle"
    /\ Exit
    /\ jarDir' \in {{}, jarDir}
    /\ UNCHANGED <<version, dist, buildDir, builds, built,
                   publishing, docs, github, pushed>>

----------------------------------------------------------------------------
(* publish_release.sh                                                      *)

(* Is there a wheel with a manylinux tag, of whatever version?             *)
HasPlatform == \E f \in dist : f.tag.glibc # 0

StartPublish(dry) ==
    /\ NoScript
    /\ dist # {}
    /\ HasPlatform \/ dry
    /\ TAG' = version
    /\ dryRun' = dry
    /\ index' = {}
    /\ unfinished' = unfinished \cup {version}
    /\ pub' = "links"
    /\ UNCHANGED <<version, tree, building, prev, github, pushed>>

NewLinks == {[release |-> TAG, wheel |-> f] : f \in dist}

(* Fault: links are carried from the index that is being written.          *)
CarriedFromIndex == {l \in index : l.release # TAG}

Carried == {l \in prev : l.release # TAG}

WriteLinks ==
    /\ pub = "links"
    /\ index' = Carried \cup NewLinks
    /\ pub' = "keep"
    /\ UNCHANGED <<version, tree, building, TAG, dryRun, unfinished, prev, github, pushed>>

KeepPrev ==
    /\ pub = "keep"
    /\ prev' = index
    /\ pub' = IF dryRun THEN "idle" ELSE "upload"
    /\ UNCHANGED <<version, tree, building, TAG, dryRun, unfinished, index, github, pushed>>

AssetOf(f) == [release |-> TAG, wheel |-> f]

Others(names) ==
    {a \in assets : a.release # TAG \/ \A f \in names : ~SameName(a.wheel, f)}

(* Fault: an existing asset is not replaced (no --clobber).                *)
UploadedOnce ==
    assets \cup {AssetOf(f) : f \in {g \in dist : \A a \in assets :
                     a.release = TAG => ~SameName(a.wheel, g)}}

Uploaded == Others(dist) \cup NewLinks

(* gh release create, or upload --clobber if the release exists.           *)
Upload ==
    /\ pub = "upload"
    /\ assets' = Uploaded
    /\ released' = released \cup {TAG}
    /\ pub' = "published"
    /\ UNCHANGED <<version, tree, building, TAG, dryRun, unfinished, docs, pushed>>

(* The upload fails: a release that did not exist still does not; of one   *)
(* that does, some files are replaced and some deleted, but not replaced.  *)
FailUpload ==
    /\ pub = "upload"
    /\ \E done \in SUBSET dist : \E gone \in SUBSET (dist \ done) :
           /\ TAG \notin released => done = {} /\ gone = {}
           /\ assets' = Others(done \cup gone) \cup {AssetOf(f) : f \in done}
    /\ pub' = "idle"
    /\ UNCHANGED <<version, tree, building, TAG, dryRun, unfinished, docs, released, pushed>>

(* The script stops before the upload.                                     *)
StopPublish ==
    /\ pub \in {"links", "keep", "upload"}
    /\ pub' = "idle"
    /\ UNCHANGED <<version, tree, building, TAG, dryRun, unfinished, docs, github, pushed>>

----------------------------------------------------------------------------
(* The maintainer.                                                         *)

(* git add docs/ && git commit && git push, after "Published".             *)
Push ==
    /\ step = "idle" /\ pub = "published"
    /\ pushed' = index
    /\ unfinished' = unfinished \ {TAG}
    /\ pub' = "idle"
    /\ UNCHANGED <<version, tree, building, TAG, dryRun, docs, github>>

Bump ==
    /\ NoScript
    /\ version < MaxVersion
    /\ version' = version + 1
    /\ built' = FALSE
    /\ UNCHANGED <<tree, builds, cmd, step, arch, plat, publishing, docs, github, pushed>>

(* dist/ and build/ are in .gitignore, docs/ is not: a fresh checkout has  *)
(* neither wheels nor anything of docs/ that was not pushed.               *)
FreshCheckout ==
    /\ NoScript
    /\ dist' = {} /\ jarDir' = {} /\ buildDir' = {}
    /\ index' = pushed /\ prev' = pushed
    /\ pub' = "idle"
    /\ built' = FALSE
    /\ UNCHANGED <<version, builds, cmd, step, arch, plat, TAG, dryRun, unfinished, github,
                   pushed>>

----------------------------------------------------------------------------
Init ==
    /\ version = 1
    /\ dist = {} /\ jarDir = {} /\ buildDir = {}
    /\ builds = 0 /\ cmd = NoCommand /\ step = "idle" /\ arch = "x86_64"
    /\ plat = Any
    /\ TAG = 1 /\ pub = "idle" /\ dryRun = FALSE
    /\ index = {} /\ prev = {} /\ pushed = {}
    /\ assets = {} /\ released = {}
    /\ built = FALSE /\ unfinished = {}

Next ==
    \/ \E c \in Commands : StartBuild(c)
    \/ Stage \/ BuildWheel \/ Retag \/ StopBuild
    \/ \E dry \in BOOLEAN : StartPublish(dry)
    \/ WriteLinks \/ KeepPrev \/ Upload \/ FailUpload \/ StopPublish
    \/ Push \/ Bump \/ FreshCheckout

Spec == Init /\ [][Next]_vars

----------------------------------------------------------------------------
(* Properties.                                                             *)

TypeOK ==
    /\ version \in Versions /\ TAG \in Versions
    /\ dist \subseteq Wheels
    /\ jarDir \subseteq JarType /\ buildDir \subseteq JarType
    /\ builds \in 0..MaxBuilds /\ cmd \in CommandType
    /\ step \in {"idle", "stage", "wheel", "retag"}
    /\ arch \in Platforms \cup {"any"} /\ plat \in TagType
    /\ pub \in {"idle", "links", "keep", "upload", "published"}
    /\ dryRun \in BOOLEAN /\ built \in BOOLEAN
    /\ index \subseteq Links /\ prev \subseteq Links /\ pushed \subseteq Links
    /\ assets \subseteq Links /\ released \subseteq Versions
    /\ unfinished \subseteq Versions

(* What a finished build leaves in dist/ is what pip takes it for: the     *)
(* wheel for any platform has no JAR, whatever earlier, interrupted builds *)
(* left in the JAR directory, in build/ or in dist/.                       *)
PureWheelIsPure ==
    built => \E f \in dist : f.version = version /\ f.tag = Any /\ f.jars = {}

(* pip installs a wheel nowhere its native libraries do not load: they are *)
(* for the platform of its tag and ask for no newer glibc, provided the    *)
(* tag was read from the JAR; at every moment, as dist/ may be published   *)
(* after a build that stopped, with the wheels of earlier builds and tags. *)
TagReadFromJarFits ==
    \A f \in dist : (f.tag # Any /\ ~f.byHand) =>
        /\ f.jars # {}
        /\ \A jar \in f.jars : \/ jar.holds = "nothing"
                               \/ jar.holds = f.tag.platform /\ jar.glibc <= f.tag.glibc

(* Every link users see names a file that is there with the bytes it was   *)
(* hashed from, unless the last publication of that release, a dry run     *)
(* included, was not carried through to the push.                          *)
PushedLinksResolve ==
    \A l \in pushed : l \in assets \/ l.release \in unfinished

(* "existing pins stay installable" (NOTES.md:587): no push drops a link of*)
(* an earlier release, with the same exception.                            *)
OldLinksStay ==
    [][\A l \in pushed : l.release \notin unfinished => l \in pushed']_vars

----------------------------------------------------------------------------
(* What documents say and the code does not do.                            *)

(* NOTES.md:629, "The script refuses to publish the pure wheel alone": a   *)
(* release of a finished build has a platform wheel of its version.        *)
PureWheelNotAlone ==
    (pub = "published" /\ built /\ version = TAG) =>
        \E l \in index : /\ l.release = TAG /\ l.wheel.version = TAG
                         /\ l.wheel.tag # Any
=============================================================================
