--------------------------- MODULE ReleaseProofs ---------------------------
(***************************************************************************)
(* Theorems about Release: for any number of versions and builds and any   *)
(* command lines, what build_wheels.sh leaves in dist/ fits its names and  *)
(* what publish_release.sh makes users see resolves and stays.             *)
(***************************************************************************)
EXTENDS Release, TLAPS

----------------------------------------------------------------------------
(* Types.                                                                  *)

(* While build_wheels.sh runs it has been counted; the wheel at hand has a *)
(* platform tag unless it is the last, and is renamed only then.           *)
TypeInv ==
    /\ TypeOK
    /\ step # "idle" => builds >= 1
    /\ step = "wheel" => (plat = Any <=> arch = "any")
    /\ step = "retag" => arch # "any" /\ plat \in PlatformTags

(* Tags that are not "any" are those of platforms.                         *)
LEMMA TagKinds == TagType \ {Any} = PlatformTags
  <1>1. Any.platform = "any"
    BY DEF Any
  <1>2. ASSUME NEW t \in PlatformTags
        PROVE  t.platform # "any"
    BY DEF PlatformTags, Platforms
  <1>3. Any \notin PlatformTags
    BY <1>1, <1>2
  <1>4. QED
    BY <1>3 DEF TagType

(* What a command line gives for a platform.                               *)
LEMMA Given ==
    ASSUME cmd \in CommandType, arch \in Platforms
    PROVE  /\ cmd.jar[arch] \subseteq JarType
           /\ cmd.plat[arch] \subseteq PlatformTags
           /\ cmd.extra \subseteq JarType
           /\ \A jar \in cmd.extra : jar.holds = "nothing"
  <1>1. /\ cmd.jar[arch] \in AtMostOne(JarType)
        /\ cmd.plat[arch] \in AtMostOne(PlatformTags)
        /\ cmd.extra \in SUBSET {jar \in JarType : jar.holds = "nothing"}
    BY DEF CommandType
  <1>2. QED
    BY <1>1 DEF AtMostOne

(* The tags detect_platform_tag may print are platform tags.               *)
LEMMA TagsAreTags ==
    ASSUME cmd \in CommandType, arch \in Platforms, NEW jar \in JarType
    PROVE  Tags(jar) \subseteq PlatformTags
  <1>1. Fallback[arch] \in Floors /\ jar.glibc \in Floors \cup {0}
    BY ReleaseAssumption DEF ReleaseAssumption, JarType
  <1>2. QED
    BY <1>1, Given DEF Tags, PlatformTags

(* A tag read from a JAR asks for the platform and the glibc of the JAR.   *)
LEMMA TagsReadFit ==
    ASSUME cmd \in CommandType, arch \in Platforms, NEW jar \in JarType,
           Accepted(jar), cmd.plat[arch] = {}, NEW tag \in Tags(jar)
    PROVE  \/ jar.holds = "nothing"
           \/ jar.holds = tag.platform /\ jar.glibc <= tag.glibc
  <1>1. Fallback[arch] \in Nat /\ jar.glibc \in Nat
    <2>1. Floors \subseteq Nat /\ Fallback[arch] \in Floors
      BY ReleaseAssumption DEF ReleaseAssumption
    <2>2. Fallback[arch] \in Nat
      BY <2>1, Zenon
    <2>3. CASE jar.glibc \in Floors
      BY <2>1, <2>2, <2>3, Zenon
    <2>4. CASE jar.glibc = 0
      BY <2>2, <2>4
    <2>5. QED
      BY <2>3, <2>4 DEF JarType
  <1>2. jar.holds \in {arch, "nothing"}
    BY DEF Accepted
  <1>3. QED
    BY <1>1, <1>2 DEF Tags

(* The wheel that `wheel tags` writes.                                     *)
LEMMA RenamedTypes ==
    ASSUME TypeOK, plat \in PlatformTags, NEW f \in dist
    PROVE  /\ Renamed(f) \in Wheels
           /\ Renamed(f).tag = plat
           /\ Renamed(f).byHand = (cmd.plat[arch] # {})
           /\ Renamed(f).jars = f.jars
           /\ Renamed(f).version = f.version
  <1>1. f \in Wheels /\ plat \in TagType /\ (cmd.plat[arch] # {}) \in BOOLEAN
    BY DEF TypeOK
  <1>2. QED
    BY <1>1 DEF Renamed, Wheels

(* Links made of wheels of dist/ are links.                                *)
LEMMA NewLinksTypes ==
    ASSUME TypeOK
    PROVE  NewLinks \subseteq Links
  BY DEF TypeOK, NewLinks, Links

LEMMA NoCommandType == NoCommand \in CommandType
  <1>1. {} \in AtMostOne(JarType) /\ {} \in AtMostOne(PlatformTags)
    BY DEF AtMostOne
  <1>2. QED
    BY <1>1 DEF NoCommand, CommandType

LEMMA TypeInit == Init => TypeInv
  <1> SUFFICES ASSUME Init
               PROVE  TypeInv
    OBVIOUS
  <1>1. 1 \in Versions /\ 0 \in 0..MaxBuilds /\ Any \in TagType
    BY ReleaseAssumption DEF Versions, TagType
  <1>2. QED
    BY <1>1, NoCommandType DEF Init, TypeInv, TypeOK, Platforms

LEMMA TypeStep == TypeInv /\ [Next]_vars => TypeInv'
  <1> SUFFICES ASSUME TypeInv, [Next]_vars
               PROVE  TypeInv'
    OBVIOUS
  <1> USE ReleaseAssumption
  <1>0. TypeOK
    BY DEF TypeInv
  <1>1. ASSUME NEW c \in Commands, StartBuild(c)
        PROVE  TypeInv'
    <2>1. builds' \in 0..MaxBuilds /\ builds' >= 1 /\ cmd' \in CommandType
      BY <1>0, <1>1 DEF StartBuild, TypeOK
    <2>2. plat' \in TagType
      BY <1>1 DEF StartBuild, TagType
    <2>3. QED
      BY <1>1, <2>1, <2>2 DEF StartBuild, TypeInv, TypeOK, Platforms, tree, publishing, docs,
                              github
  <1>2. CASE Stage
    <2>1. CASE arch = "any"
      BY <1>2, <2>1 DEF Stage, Goto, TypeInv, TypeOK, TagType, publishing, docs, github
    <2>2. CASE arch # "any" /\ cmd.jar[arch] = {}
      BY <1>2, <2>2 DEF Stage, Goto, NextArch, TypeInv, TypeOK, Platforms, publishing, docs,
                        github
    <2>3. CASE arch # "any" /\ cmd.jar[arch] # {}
      <3>1. PICK jar \in cmd.jar[arch] : StageJar(jar)
        BY <1>2, <2>3 DEF Stage
      <3>2. cmd \in CommandType /\ arch \in Platforms
        BY <1>0, <2>3 DEF TypeOK
      <3>3. jar \in JarType /\ cmd.extra \subseteq JarType /\ Tags(jar) \subseteq PlatformTags
        BY <3>2, Given, TagsAreTags
      <3>4. jarDir' \subseteq JarType
        BY <3>1, <3>3 DEF StageJar
      <3>5. \/ Exit
            \/ step' = "wheel" /\ UNCHANGED <<arch, cmd>> /\ plat' \in PlatformTags
        BY <3>1, <3>3 DEF StageJar, Goto
      <3>6. CASE Exit
        BY <1>2, <3>4, <3>6, NoCommandType
           DEF Stage, Exit, TypeInv, TypeOK, TagType, Platforms, publishing, docs, github
      <3>7. CASE step' = "wheel" /\ UNCHANGED <<arch, cmd>> /\ plat' \in PlatformTags
        <4>1. plat' \in TagType /\ plat' # Any
          BY <3>7, TagKinds
        <4>2. QED
          BY <1>2, <2>3, <3>4, <3>7, <4>1
             DEF Stage, TypeInv, TypeOK, publishing, docs, github
      <3>8. QED
        BY <3>5, <3>6, <3>7
    <2>4. QED
      BY <2>1, <2>2, <2>3
  <1>3. CASE BuildWheel
    <2>1. Packed(Any) \in Wheels
      BY <1>3 DEF BuildWheel, Packed, BuildDirFresh, Wheels, TagType, TypeInv, TypeOK
    <2>2. dist' \subseteq Wheels
      BY <1>0, <1>3, <2>1 DEF BuildWheel, Put, TypeOK
    <2>3. CASE plat = Any
      BY <1>3, <2>2, <2>3, NoCommandType
         DEF BuildWheel, BuildDirFresh, Exit, TypeInv, TypeOK, Platforms, publishing, docs, github
    <2>4. CASE plat # Any
      <3>1. arch # "any" /\ plat \in PlatformTags
        BY <1>0, <1>3, <2>4, TagKinds DEF BuildWheel, TypeInv, TypeOK
      <3>2. QED
        BY <1>3, <2>2, <2>4, <3>1
           DEF BuildWheel, BuildDirFresh, Goto, TypeInv, TypeOK, publishing, docs, github
    <2>5. QED
      BY <2>3, <2>4
  <1>4. CASE Retag
    <2>1. PICK f \in dist : dist' = Put(Renamed(f)) \ {f}
      BY <1>4 DEF Retag
    <2>2. Renamed(f) \in Wheels
      BY <1>0, <1>4, RenamedTypes DEF Retag, TypeInv
    <2>3. dist' \subseteq Wheels
      BY <1>0, <2>1, <2>2 DEF Put, TypeOK
    <2>4. QED
      BY <1>4, <2>3 DEF Retag, Goto, NextArch, TypeInv, TypeOK, Platforms, publishing, docs,
                        github
  <1>5. CASE StopBuild
    BY <1>5, NoCommandType
       DEF StopBuild, Exit, TypeInv, TypeOK, TagType, Platforms, publishing, docs, github
  <1>6. ASSUME NEW dry \in BOOLEAN, StartPublish(dry)
        PROVE  TypeInv'
    BY <1>6 DEF StartPublish, TypeInv, TypeOK, tree, building, github
  <1>7. CASE WriteLinks
    BY <1>0, <1>7, NewLinksTypes
       DEF WriteLinks, Carried, TypeInv, TypeOK, tree, building, github
  <1>8. CASE KeepPrev
    BY <1>8 DEF KeepPrev, TypeInv, TypeOK, tree, building, github
  <1>9. CASE Upload
    BY <1>0, <1>9, NewLinksTypes
       DEF Upload, Uploaded, Others, TypeInv, TypeOK, tree, building, docs
  <1>10. CASE FailUpload
    <2>1. PICK done \in SUBSET dist, gone \in SUBSET dist :
             assets' = Others(done \cup gone) \cup {AssetOf(f) : f \in done}
      BY <1>10 DEF FailUpload
    <2>2. {AssetOf(f) : f \in done} \subseteq NewLinks
      BY DEF AssetOf, NewLinks
    <2>3. assets' \subseteq Links
      BY <1>0, <2>1, <2>2, NewLinksTypes DEF Others, TypeOK
    <2>4. QED
      BY <1>10, <2>3 DEF FailUpload, TypeInv, TypeOK, tree, building, docs
  <1>11. CASE StopPublish
    BY <1>11 DEF StopPublish, TypeInv, TypeOK, tree, building, docs, github
  <1>12. CASE Push
    BY <1>12 DEF Push, TypeInv, TypeOK, tree, building, docs, github
  <1>13. CASE Bump
    <2>1. version' \in Versions
      BY <1>0, <1>13 DEF Bump, TypeOK, Versions
    <2>2. QED
      BY <1>13, <2>1 DEF Bump, TypeInv, TypeOK, tree, publishing, docs, github
  <1>14. CASE FreshCheckout
    BY <1>14 DEF FreshCheckout, TypeInv, TypeOK, github
  <1>15. CASE UNCHANGED vars
    BY <1>15 DEF vars, TypeInv, TypeOK, tree, building, publishing, docs, github
  <1>16. QED
    BY <1>1, <1>2, <1>3, <1>4, <1>5, <1>6, <1>7, <1>8, <1>9, <1>10, <1>11, <1>12, <1>13,
       <1>14, <1>15 DEF Next

(* Every variable keeps its type: in particular a wheel has a platform tag *)
(* or the tag "any", and a link leads to a wheel of a release.            *)
THEOREM ReleaseTypes == Spec => []TypeOK
  <1>1. Spec => []TypeInv
    BY TypeInit, TypeStep, PTL DEF Spec
  <1>2. TypeInv => TypeOK
    BY DEF TypeInv
  <1>3. QED
    BY <1>1, <1>2, PTL

----------------------------------------------------------------------------
(* build_wheels.sh.                                                        *)

(* What is in the JAR directory at each step: the JAR of the platform at   *)
(* hand, accepted for it, or nothing; and the wheel to be renamed has it.  *)
StagedInv ==
    /\ (step \in {"wheel", "retag"} /\ arch # "any") =>
          \E jar \in cmd.jar[arch] :
             jarDir = {jar} \cup cmd.extra /\ Accepted(jar) /\ plat \in Tags(jar)
    /\ (step = "wheel" /\ arch = "any") => jarDir = {}
    /\ step = "retag" =>
          \A f \in dist : (f.version = version /\ f.tag = Any) => f.jars = jarDir

BuildInv ==
    /\ TypeInv
    /\ StagedInv
    /\ built => step = "idle"
    /\ PureWheelIsPure
    /\ TagReadFromJarFits

LEMMA BuildInit == Init => BuildInv
  BY TypeInit DEF Init, BuildInv, StagedInv, PureWheelIsPure, TagReadFromJarFits

LEMMA BuildStep == BuildInv /\ [Next]_vars => BuildInv'
  <1> SUFFICES ASSUME BuildInv, [Next]_vars
               PROVE  BuildInv'
    OBVIOUS
  <1>0. TypeInv /\ TypeInv' /\ TypeOK
    BY TypeStep DEF BuildInv, TypeInv
  <1>1. ASSUME NEW c \in Commands, StartBuild(c)
        PROVE  BuildInv'
    BY <1>0, <1>1 DEF StartBuild, BuildInv, StagedInv, PureWheelIsPure, TagReadFromJarFits, tree
  <1>2. CASE Stage
    <2>1. StagedInv'
      BY <1>2 DEF Stage, StageJar, Goto, Exit, StagedInv, Accepted, Tags
    <2>2. ~built /\ UNCHANGED <<dist, built, version>>
      BY <1>2 DEF Stage, BuildInv
    <2>3. QED
      BY <1>0, <2>1, <2>2 DEF BuildInv, PureWheelIsPure, TagReadFromJarFits
  <1>3. CASE BuildWheel
    <2> DEFINE w == Packed(Any)
    <2>1. /\ w \in dist' /\ w.jars = jarDir /\ w.tag = Any /\ w.version = version
          /\ \A f \in dist' : f = w \/ (f \in dist /\ ~SameName(w, f))
      BY <1>3 DEF BuildWheel, Put, Packed, BuildDirFresh
    <2>2. TagReadFromJarFits'
      BY <2>1 DEF BuildInv, TagReadFromJarFits
    <2>3. ~built /\ version' = version /\ (plat = Any <=> arch = "any")
      BY <1>0, <1>3 DEF BuildWheel, BuildInv, TypeInv
    <2>4. CASE plat = Any
      <3>1. built' /\ step' = "idle" /\ w.jars = {}
        BY <1>3, <2>1, <2>3, <2>4 DEF BuildWheel, Exit, BuildInv, StagedInv
      <3>2. QED
        BY <1>0, <2>1, <2>2, <2>3, <3>1 DEF BuildInv, StagedInv, PureWheelIsPure
    <2>5. CASE plat # Any
      <3>1. ~built' /\ step' = "retag" /\ UNCHANGED <<jarDir, arch, cmd, plat>>
        BY <1>3, <2>3, <2>5 DEF BuildWheel, Goto
      <3>2. \A f \in dist' : (f.version = version /\ f.tag = Any) => f.jars = jarDir
        BY <2>1 DEF SameName
      <3>3. StagedInv'
        BY <1>3, <2>3, <2>5, <3>1, <3>2 DEF BuildWheel, BuildInv, StagedInv, Accepted, Tags
      <3>4. QED
        BY <1>0, <2>2, <3>1, <3>3 DEF BuildInv, PureWheelIsPure
    <2>6. QED
      BY <2>4, <2>5
  <1>4. CASE Retag
    <2>1. PICK f \in dist : /\ f.version = version /\ f.tag = Any
                            /\ dist' = Put(Renamed(f)) \ {f}
      BY <1>4 DEF Retag
    <2>2. arch \in Platforms /\ plat \in PlatformTags /\ cmd \in CommandType
      BY <1>0, <1>4 DEF Retag, TypeInv, TypeOK
    <2>3. PICK jar \in cmd.jar[arch] :
             jarDir = {jar} \cup cmd.extra /\ Accepted(jar) /\ plat \in Tags(jar)
      BY <1>4, <2>2 DEF Retag, BuildInv, StagedInv, Platforms
    <2>4. f.jars = {jar} \cup cmd.extra
      BY <1>4, <2>1, <2>3 DEF Retag, BuildInv, StagedInv
    <2>5. jar \in JarType /\ \A extra \in cmd.extra : extra.holds = "nothing"
      BY <2>2, Given
    <2>6. /\ Renamed(f).tag = plat /\ Renamed(f).byHand = (cmd.plat[arch] # {})
          /\ Renamed(f).jars = f.jars
      BY <1>0, <2>2, RenamedTypes
    <2>7. cmd.plat[arch] = {} =>
             \/ jar.holds = "nothing"
             \/ jar.holds = plat.platform /\ jar.glibc <= plat.glibc
      BY <2>2, <2>3, <2>5, TagsReadFit
    <2>8. ~Renamed(f).byHand =>
             /\ Renamed(f).jars # {}
             /\ \A j \in Renamed(f).jars :
                   \/ j.holds = "nothing"
                   \/ j.holds = plat.platform /\ j.glibc <= plat.glibc
      BY <2>4, <2>5, <2>6, <2>7
    <2>9. \A g \in dist' : g = Renamed(f) \/ g \in dist
      BY <2>1 DEF Put
    <2>10. TagReadFromJarFits'
      BY <2>6, <2>8, <2>9 DEF BuildInv, TagReadFromJarFits
    <2>11. step' = "stage" /\ ~built'
      BY <1>4 DEF Retag, Goto, BuildInv
    <2>12. QED
      BY <1>0, <2>10, <2>11 DEF BuildInv, StagedInv, PureWheelIsPure
  <1>5. CASE StopBuild
    BY <1>0, <1>5 DEF StopBuild, Exit, BuildInv, StagedInv, PureWheelIsPure, TagReadFromJarFits
  <1>6. CASE Bump
    BY <1>0, <1>6 DEF Bump, NoScript, BuildInv, StagedInv, PureWheelIsPure, TagReadFromJarFits,
                      tree
  <1>7. CASE FreshCheckout
    BY <1>0, <1>7 DEF FreshCheckout, NoScript, BuildInv, StagedInv, PureWheelIsPure,
                      TagReadFromJarFits
  <1>8. CASE UNCHANGED <<version, tree, building>>
    BY <1>0, <1>8 DEF BuildInv, StagedInv, Accepted, Tags, PureWheelIsPure, TagReadFromJarFits, tree,
                      building
  <1>9. ASSUME NEW dry \in BOOLEAN, StartPublish(dry)
        PROVE  BuildInv'
    BY <1>8, <1>9 DEF StartPublish
  <1>10. QED
    BY <1>1, <1>2, <1>3, <1>4, <1>5, <1>6, <1>7, <1>8, <1>9
       DEF Next, vars, WriteLinks, KeepPrev, Upload, FailUpload, StopPublish, Push

LEMMA BuildInvariance == Spec => []BuildInv
  BY BuildInit, BuildStep, PTL DEF Spec

(* A finished build leaves a wheel for any platform without a JAR.         *)
THEOREM PureWheel == Spec => []PureWheelIsPure
  BY BuildInvariance, PTL DEF BuildInv

(* pip installs a wheel whose tag was read from its JAR on no host where   *)
(* the JAR's native libraries do not load.                                 *)
THEOREM TagFits == Spec => []TagReadFromJarFits
  BY BuildInvariance, PTL DEF BuildInv

----------------------------------------------------------------------------
(* publish_release.sh and the push.                                        *)

(* Where the index of the publication under way stands: the links of other *)
(* releases are those of .prev, the links of this one lead to dist/, then  *)
(* to the assets.                                                          *)
ProgressInv ==
    /\ step # "idle" => pub \in {"idle", "published"}
    /\ pub # "idle" => TAG \in unfinished
    /\ pub = "keep" => \A l \in prev : l.release # TAG => l \in index
    /\ pub = "keep" => \A l \in index : l \in prev \/ l.release = TAG
    /\ pub \in {"keep", "upload"} => \A l \in index : l.release = TAG => l \in NewLinks
    /\ pub \in {"upload", "published"} => index = prev
    /\ pub = "published" => \A l \in index : l.release = TAG => l \in assets

(* Links of finished releases resolve, in .prev and in what users see, and *)
(* .prev has all those users see.                                          *)
LinkInv ==
    /\ ProgressInv
    /\ \A l \in prev : l \in assets \/ l.release \in unfinished
    /\ PushedLinksResolve
    /\ \A l \in pushed : l.release \notin unfinished => l \in prev

LEMMA LinkInit == Init => LinkInv
  BY DEF Init, LinkInv, ProgressInv, PushedLinksResolve

LEMMA LinkStep == LinkInv /\ [Next]_vars => LinkInv'
  <1> SUFFICES ASSUME LinkInv, [Next]_vars
               PROVE  LinkInv'
    OBVIOUS
  <1> USE DEF LinkInv, PushedLinksResolve
  (* build_wheels.sh touches nothing the invariant reads once links are    *)
  (* written, for the scripts do not run at the same time.                 *)
  <1>1. ASSUME UNCHANGED <<publishing, docs, github, pushed>>,
               pub \in {"idle", "published"} \/ (step' = "idle" /\ dist' = dist)
        PROVE  LinkInv'
    BY <1>1 DEF ProgressInv, NewLinks, publishing, docs, github
  <1>2. ASSUME NEW c \in Commands, StartBuild(c)
        PROVE  LinkInv'
    BY <1>1, <1>2 DEF StartBuild, NoScript
  <1>3. CASE Stage \/ BuildWheel \/ Retag \/ StopBuild
    BY <1>1, <1>3 DEF Stage, BuildWheel, Retag, StopBuild, ProgressInv
  <1>4. CASE Bump
    BY <1>1, <1>4 DEF Bump, NoScript
  <1>5. ASSUME NEW dry \in BOOLEAN, StartPublish(dry)
        PROVE  LinkInv'
    BY <1>5 DEF StartPublish, NoScript, ProgressInv, building, github
  <1>6. CASE WriteLinks
    BY <1>6 DEF WriteLinks, Carried, NewLinks, ProgressInv, tree, building, github
  <1>7. CASE KeepPrev
    <2>1. \A l \in index : l \in assets \/ l.release \in unfinished
      BY <1>7 DEF KeepPrev, ProgressInv
    <2>2. \A l \in pushed : l.release \notin unfinished => l \in index
      BY <1>7 DEF KeepPrev, ProgressInv
    <2>3. ProgressInv'
      BY <1>7 DEF KeepPrev, ProgressInv, NewLinks, tree, building
    <2>4. QED
      BY <1>7, <2>1, <2>2, <2>3 DEF KeepPrev, github
  <1>8. ASSUME \A a \in assets : a.release # TAG => a \in assets',
               TAG \in unfinished, UNCHANGED <<unfinished, prev, pushed>>
        PROVE  /\ \A l \in prev' : l \in assets' \/ l.release \in unfinished'
               /\ PushedLinksResolve'
               /\ \A l \in pushed' : l.release \notin unfinished' => l \in prev'
    BY <1>8
  <1>9. CASE Upload
    <2>1. \A a \in assets : a.release # TAG => a \in assets'
      BY <1>9 DEF Upload, Uploaded, Others
    <2>2. TAG \in unfinished /\ UNCHANGED <<unfinished, prev, pushed>>
      BY <1>9 DEF Upload, ProgressInv, docs
    <2>3. ProgressInv'
      BY <1>9 DEF Upload, Uploaded, ProgressInv, docs, tree, building
    <2>4. QED
      BY <1>8, <2>1, <2>2, <2>3
  <1>10. CASE FailUpload
    <2>1. \A a \in assets : a.release # TAG => a \in assets'
      BY <1>10 DEF FailUpload, Others
    <2>2. TAG \in unfinished /\ UNCHANGED <<unfinished, prev, pushed>>
      BY <1>10 DEF FailUpload, ProgressInv, docs
    <2>3. ProgressInv'
      BY <1>10 DEF FailUpload, ProgressInv, building
    <2>4. QED
      BY <1>8, <2>1, <2>2, <2>3
  <1>11. CASE StopPublish
    BY <1>11 DEF StopPublish, ProgressInv, building, docs, github
  <1>12. CASE Push
    <2>1. index = prev /\ \A l \in index : l.release = TAG => l \in assets
      BY <1>12 DEF Push, ProgressInv
    <2>2. \A l \in index : l \in assets \/ l.release \in unfinished \ {TAG}
      BY <2>1
    <2>3. ProgressInv'
      BY <1>12 DEF Push, ProgressInv, building
    <2>4. QED
      BY <1>12, <2>1, <2>2, <2>3 DEF Push, docs, github
  <1>13. CASE FreshCheckout
    BY <1>13 DEF FreshCheckout, ProgressInv, github
  <1>14. CASE UNCHANGED vars
    BY <1>14 DEF vars, ProgressInv, NewLinks, tree, building, publishing, docs, github
  <1>15. QED
    BY <1>2, <1>3, <1>4, <1>5, <1>6, <1>7, <1>9, <1>10, <1>11, <1>12, <1>13, <1>14 DEF Next

LEMMA LinkInvariance == Spec => []LinkInv
  BY LinkInit, LinkStep, PTL DEF Spec

(* What users see resolves, but for releases left unfinished.              *)
THEOREM PushedResolve == Spec => []PushedLinksResolve
  BY LinkInvariance, PTL DEF LinkInv

(* A push keeps the links of finished earlier releases.                    *)
THEOREM OldLinks == Spec => OldLinksStay
  <1> DEFINE Stays == \A l \in pushed : l.release \notin unfinished => l \in pushed'
  <1>1. LinkInv /\ [Next]_vars => [Stays]_vars
    <2> SUFFICES ASSUME LinkInv, [Next]_vars
                 PROVE  [Stays]_vars
      OBVIOUS
    <2>1. CASE Push
      BY <2>1 DEF Push, LinkInv, ProgressInv
    <2>2. CASE UNCHANGED pushed
      BY <2>2
    <2>3. QED
      BY <2>1, <2>2
         DEF Next, vars, StartBuild, Stage, BuildWheel, Retag, StopBuild, StartPublish,
             WriteLinks, KeepPrev, Upload, FailUpload, StopPublish, Bump, FreshCheckout
  <1>2. Spec => [][Stays]_vars
    BY <1>1, LinkInvariance, PTL DEF Spec
  <1>3. QED
    BY <1>2 DEF OldLinksStay
=============================================================================
