----------------------------- MODULE BuildRunProofs -----------------------------
(***************************************************************************)
(* Theorems about BuildRun for any number of builds on one host.  The      *)
(* inductive invariant has three parts: BuildFits, about the state a build *)
(* has to itself; CopyInv, about the copies of the prefetch directory,     *)
(* whose paths builds may share; RegistrationInv, about the registration   *)
(* of the host.                                                            *)
(***************************************************************************)
EXTENDS BuildRun, TLAPS

(* Before and after the prefetch is integrated, up to the build itself. *)
Early == {"start", "make copy", "walk"}
Mid == {"yum repos", "register", "gather", "inject", "build"}

NeedsEnv(b) == /\ params[b].prefetch # "none"
               /\ "prefetch.env" \in prefetchEnv \/ (prefetchEnv # {} /\ secretEnvMounts)

(* What a build mounts is in its workdir, with the edits that were made. *)
MountsFit(b) ==
    /\ pc[b] \in Early => volumes[b] = {} /\ edits[b] = {} /\ b \notin secrets
    /\ pc[b] \in Mid => /\ volumes[b] \ {"prefetched"} \subseteq workdir[b]
                        /\ b \in secrets => "env secrets" \in workdir[b]
                        /\ edits[b] # {} => "containerfile" \in workdir[b]

EditsFit(b) ==
    /\ pc[b] \in Mid => /\ ~(b \in secrets /\ "env" \in edits[b])
                        /\ NeedsEnv(b) => b \in secrets \/ "env" \in edits[b]
    /\ pc[b] \in Mid \ {"build"} => "buildinfo" \notin edits[b]
    /\ pc[b] = "build" => ("buildinfo" \in edits[b] <=> params[b].inject)

(* What is left of a build, up to the step that removes it. *)
CleanupFits(b) ==
    /\ pc[b] \in {"remove copy", "unregister", "end"} /\ workdir[b] # {} => "workdir" \in excused[b]
    /\ b \in containers => pc[b] \in {"scanning", "killed"} \/ "container" \in excused[b]

(* Only builds with a copy walk or mount it; only pre-registering ones     *)
(* register.                                                               *)
RolesFit(b) ==
    /\ pc[b] = "walk" => b \in outside
    /\ pc[b] \in Mid /\ "prefetched" \in volumes[b] => b \in outside
    /\ pc[b] = "register" => params[b].rhsm = "preregister"
    /\ b \in registered => params[b].rhsm = "preregister" /\ pc[b] # "start"

BuildFits(b) == MountsFit(b) /\ EditsFit(b) /\ CleanupFits(b) /\ RolesFit(b)

(* A build has its copy to itself from its creation to its removal. *)
HasCopy(b) == b \in outside /\ pc[b] \notin {"unregister", "end", "killed"}

CopyInv ==
    /\ \A b \in Builds : HasCopy(b) => copies[CopyName(b)] # {}
    /\ \A b, o \in Builds : HasCopy(b) /\ HasCopy(o) /\ CopyName(b) = CopyName(o) => b = o
    /\ \A b \in Builds : pc[b] = "walk" => "prefetched" \in listing[b] \union copies[CopyName(b)]
    /\ \A b \in Builds : pc[b] \in Mid /\ "prefetched" \in volumes[b] =>
          "prefetched" \in copies[CopyName(b)]

(* A copy that exists belongs to a build that will remove it or could not. *)
CopyOwned ==
    \A n \in DOMAIN copies : copies[n] # {} =>
        \E b \in outside : /\ CopyName(b) = n
                           /\ pc[b] \notin {"unregister", "end"} \/ "copy" \in excused[b]

OtherRegisters(b) == \E o \in Builds \ {b} : params[o].rhsm = "preregister" /\ pc[o] # "start"

RegistrationInv ==
    \A b \in Builds :
        /\ registration = b => b \in registered \/ "registration" \in excused[b]
        /\ pc[b] = "end" /\ registration = b => "registration" \in excused[b]
        /\ params[b].rhsm = "preregister" =>
              /\ pc[b] = "gather" => registration = b \/ OtherRegisters(b)
              /\ pc[b] \in {"inject", "build"} => certs[b] = b \/ OtherRegisters(b)

--------------------------------------------------------------------------------
(* Type correctness.                                                       *)

(* The name of a build's copy is one of the names of copies.               *)
LEMMA CopyNameType ==
    ASSUME NEW b \in Builds PROVE CopyName(b) \in Builds \union {"fixed"}
BY DEF CopyName

(* Adding elements of T to one of the sets of a family of subsets of T.    *)
LEMMA Added ==
    ASSUME NEW S, NEW T, NEW f \in [S -> SUBSET T], NEW x \in S, NEW E \in SUBSET T,
           NEW g, g = f \/ g = [f EXCEPT ![x] = f[x] \union E]
    PROVE  g \in [S -> SUBSET T]
<1>1. CASE g = f
  BY <1>1
<1>2. CASE g = [f EXCEPT ![x] = f[x] \union E]
  <2>1. f[x] \union E \in SUBSET T
    OBVIOUS
  <2> QED
    BY <1>2, <2>1
<1> QED
  BY <1>1, <1>2

(* Whatever a step of a build or a kill does, the state keeps its type.    *)
LEMMA TypeStep ==
    ASSUME TypeOK, [Next]_vars
    PROVE  TypeOK'
<1> USE DEF Goto, host, prefetching, rhsm, image
<1>workdir. workdir \in [Builds -> SUBSET Files]
  BY DEF TypeOK
<1>edits. edits \in [Builds -> SUBSET {"env", "buildinfo"}]
  BY DEF TypeOK
<1>volumes. volumes \in [Builds -> SUBSET Mounts]
  BY DEF TypeOK
<1>excused. excused \in [Builds -> SUBSET Leftovers]
  BY DEF TypeOK
<1>copies. copies \in [Builds \union {"fixed"} -> SUBSET (Builds \union {".", "prefetched"})]
  BY DEF TypeOK
<1>listing. listing \in [Builds -> SUBSET (Builds \union {"prefetched"})]
  BY DEF TypeOK
<1>certs. certs \in [Builds -> Builds \union {"nobody", "owner"}]
  BY DEF TypeOK
<1>registration. registration \in Builds \union {"nobody", "owner"}
  BY DEF TypeOK
<1>1. ASSUME NEW b \in Builds, Prepare(b)
      PROVE  TypeOK'
  BY <1>1 DEF Prepare, TypeOK, Steps, Cleaning, Files, Mounts, Leftovers
<1>2. ASSUME NEW b \in Builds, MakeCopyDir(b)
      PROVE  TypeOK'
  BY <1>2, CopyNameType DEF MakeCopyDir, TypeOK, Steps, Cleaning, Files, Mounts, Leftovers
<1>3. ASSUME NEW b \in Builds, IntegrateWithPrefetch(b)
      PROVE  TypeOK'
  BY <1>3 DEF PrefetchEnvVia, EnsureContainerfileCopied, IntegrateWithPrefetch, TypeOK, Steps,
     Cleaning, Files, Mounts, Leftovers
<1>4. ASSUME NEW b \in Builds, PrepareYumReposMount(b)
      PROVE  TypeOK'
  <2>1. workdir' = workdir \/ workdir' = [workdir EXCEPT ![b] = @ \union {".", "yum.repos.d"}]
    BY <1>4 DEF PrepareYumReposMount
  <2>2. {".", "yum.repos.d"} \in SUBSET Files
    BY DEF Files
  <2>3. workdir' \in [Builds -> SUBSET Files]
    BY <2>1, <2>2, <1>workdir, Added
  <2>4. volumes' = volumes \/ volumes' = [volumes EXCEPT ![b] = @ \union {"yum.repos.d"}]
    BY <1>4 DEF PrepareYumReposMount
  <2>5. {"yum.repos.d"} \in SUBSET Mounts
    BY DEF Mounts
  <2>6. volumes' \in [Builds -> SUBSET Mounts]
    BY <2>4, <2>5, <1>volumes, Added
  <2>7. pc' \in [Builds -> Steps]
    BY <1>4 DEF PrepareYumReposMount, TypeOK, Steps, Cleaning
  <2>8. UNCHANGED <<params, prefetchEnv, secretEnvMounts, edits, copies, listing, outside, secrets,
                 registration, registered, certs, containers, built, pushed, printed, excused>>
    BY <1>4 DEF PrepareYumReposMount
  <2> QED
    BY <2>3, <2>6, <2>7, <2>8 DEF TypeOK
<1>5. ASSUME NEW b \in Builds, RegisterRHSM(b)
      PROVE  TypeOK'
  BY <1>5 DEF RegisterRHSM, TypeOK, Steps, Cleaning, Files, Mounts, Leftovers
<1>6. ASSUME NEW b \in Builds, RegisterRHSMFails(b)
      PROVE  TypeOK'
  BY <1>6 DEF RegisterRHSMFails, TypeOK, Steps, Cleaning, Files, Mounts, Leftovers
<1>7. ASSUME NEW b \in Builds, GatherRHSMResources(b)
      PROVE  TypeOK'
  <2>1. workdir' = workdir \/ workdir' = [workdir EXCEPT ![b] = @ \union {".", "rhsm"}]
    BY <1>7 DEF GatherRHSMResources
  <2>2. {".", "rhsm"} \in SUBSET Files
    BY DEF Files
  <2>3. workdir' \in [Builds -> SUBSET Files]
    BY <2>1, <2>2, <1>workdir, Added
  <2>4. volumes' = volumes \/ volumes' = [volumes EXCEPT ![b] = @ \union {"rhsm"}]
    BY <1>7 DEF GatherRHSMResources
  <2>5. {"rhsm"} \in SUBSET Mounts
    BY DEF Mounts
  <2>6. volumes' \in [Builds -> SUBSET Mounts]
    BY <2>4, <2>5, <1>volumes, Added
  <2>7. certs' \in [Builds -> Builds \union {"nobody", "owner"}]
    BY <1>7, <1>certs, <1>registration DEF GatherRHSMResources
  <2>8. pc' \in [Builds -> Steps]
    BY <1>7 DEF GatherRHSMResources, TypeOK, Steps, Cleaning
  <2>9. UNCHANGED <<params, prefetchEnv, secretEnvMounts, edits, copies, listing, outside, secrets,
                 registration, registered, containers, built, pushed, printed, excused>>
    BY <1>7 DEF GatherRHSMResources
  <2> QED
    BY <2>3, <2>6, <2>7, <2>8, <2>9 DEF TypeOK
<1>8. ASSUME NEW b \in Builds, InjectBuildinfo(b)
      PROVE  TypeOK'
  <2>1. workdir' = workdir \/ workdir' = [workdir EXCEPT ![b] = @ \union {".", "buildinfo",
  "containerfile"}]
    BY <1>8 DEF InjectBuildinfo
  <2>2. {".", "buildinfo", "containerfile"} \in SUBSET Files
    BY DEF Files
  <2>3. workdir' \in [Builds -> SUBSET Files]
    BY <2>1, <2>2, <1>workdir, Added
  <2>4. EnsureContainerfileCopied(b) \union {"buildinfo"} \in SUBSET {"env", "buildinfo"}
    BY DEF EnsureContainerfileCopied, TypeOK
  <2>5. edits' = edits \/ edits' = [edits EXCEPT ![b] = EnsureContainerfileCopied(b) \union {"buildinfo"}]
    BY <1>8 DEF InjectBuildinfo
  <2>6. edits' \in [Builds -> SUBSET {"env", "buildinfo"}]
    BY <2>5, <2>4, <1>edits
  <2>7. pc' \in [Builds -> Steps]
    BY <1>8 DEF InjectBuildinfo, TypeOK, Steps, Cleaning
  <2>8. UNCHANGED <<params, prefetchEnv, secretEnvMounts, copies, listing, outside, secrets,
  volumes,
                 registration, registered, certs, containers, built, pushed, printed, excused>>
    BY <1>8 DEF InjectBuildinfo
  <2> QED
    BY <2>3, <2>6, <2>7, <2>8 DEF TypeOK
<1>9. ASSUME NEW b \in Builds, BuildImage(b)
      PROVE  TypeOK'
  BY <1>9 DEF BuildImage, TypeOK, Steps, Cleaning, Files, Mounts, Leftovers
<1>10. ASSUME NEW b \in Builds, FromImage(b)
      PROVE  TypeOK'
  BY <1>10 DEF FromImage, TypeOK, Steps, Cleaning, Files, Mounts, Leftovers
<1>11. ASSUME NEW b \in Builds, ScanImage(b)
      PROVE  TypeOK'
  <2>1. excused' = excused \/ excused' = [excused EXCEPT ![b] = @ \union {"container"}]
    BY <1>11 DEF ScanImage
  <2>2. {"container"} \in SUBSET Leftovers
    BY DEF Leftovers
  <2>3. excused' \in [Builds -> SUBSET Leftovers]
    BY <2>1, <2>2, <1>excused, Added
  <2>4. containers' \subseteq Builds
    BY <1>11 DEF ScanImage, TypeOK
  <2>5. pc' \in [Builds -> Steps]
    BY <1>11, ZenonT(60) DEF ScanImage, TypeOK, Steps, Cleaning
  <2>6. UNCHANGED <<params, prefetchEnv, secretEnvMounts, workdir, edits, copies, listing, outside,
                 secrets, volumes, registration, registered, certs, built, pushed, printed>>
    BY <1>11 DEF ScanImage
  <2> QED
    BY <2>3, <2>4, <2>5, <2>6 DEF TypeOK
<1>12. ASSUME NEW b \in Builds, PushImage(b)
      PROVE  TypeOK'
  BY <1>12 DEF PushImage, TypeOK, Steps, Cleaning, Files, Mounts, Leftovers
<1>13. ASSUME NEW b \in Builds, Report(b)
      PROVE  TypeOK'
  BY <1>13 DEF Report, TypeOK, Steps, Cleaning, Files, Mounts, Leftovers
<1>14. ASSUME NEW b \in Builds, Fail(b)
      PROVE  TypeOK'
  <2>1. workdir' = workdir \/ workdir' = [workdir EXCEPT ![b] = @ \union {"."}]
    BY <1>14 DEF Fail
  <2>2. {"."} \in SUBSET Files
    BY DEF Files
  <2>3. workdir' \in [Builds -> SUBSET Files]
    BY <2>1, <2>2, <1>workdir, Added
  <2>4. pc' \in [Builds -> Steps]
    BY <1>14 DEF Fail, TypeOK, Steps, Cleaning
  <2>5. UNCHANGED <<params, prefetchEnv, secretEnvMounts, edits, copies, listing, outside, secrets,
                 volumes, registration, registered, certs, containers, built, pushed, printed,
                 excused>>
    BY <1>14 DEF Fail
  <2> QED
    BY <2>3, <2>4, <2>5 DEF TypeOK
<1>15. ASSUME NEW b \in Builds, RemoveWorkdir(b)
      PROVE  TypeOK'
  <2>1. workdir' \in [Builds -> SUBSET Files]
    BY <1>15, <1>workdir DEF RemoveWorkdir
  <2>2. excused' = excused \/ excused' = [excused EXCEPT ![b] = @ \union {"workdir"}]
    BY <1>15 DEF RemoveWorkdir
  <2>3. {"workdir"} \in SUBSET Leftovers
    BY DEF Leftovers
  <2>4. excused' \in [Builds -> SUBSET Leftovers]
    BY <2>2, <2>3, <1>excused, Added
  <2>5. pc' \in [Builds -> Steps]
    BY <1>15 DEF RemoveWorkdir, TypeOK, Steps, Cleaning
  <2>6. UNCHANGED <<params, prefetchEnv, secretEnvMounts, edits, copies, listing, outside, secrets,
                 volumes, registration, registered, certs, containers, built, pushed, printed>>
    BY <1>15 DEF RemoveWorkdir
  <2> QED
    BY <2>1, <2>4, <2>5, <2>6 DEF TypeOK
<1>16. ASSUME NEW b \in Builds, RemoveOutside(b)
      PROVE  TypeOK'
  <2>1. copies' \in [Builds \union {"fixed"} -> SUBSET (Builds \union {".", "prefetched"})]
    BY <1>16, <1>copies, CopyNameType DEF RemoveOutside
  <2>2. excused' = excused \/ excused' = [excused EXCEPT ![b] = @ \union {"copy"}]
    BY <1>16 DEF RemoveOutside
  <2>3. {"copy"} \in SUBSET Leftovers
    BY DEF Leftovers
  <2>4. excused' \in [Builds -> SUBSET Leftovers]
    BY <2>2, <2>3, <1>excused, Added
  <2>5. pc' \in [Builds -> Steps]
    BY <1>16 DEF RemoveOutside, TypeOK, Steps, Cleaning
  <2>6. UNCHANGED <<params, prefetchEnv, secretEnvMounts, workdir, edits, listing, outside, secrets,
                 volumes, registration, registered, certs, containers, built, pushed, printed>>
    BY <1>16 DEF RemoveOutside
  <2> QED
    BY <2>1, <2>4, <2>5, <2>6 DEF TypeOK
<1>17. ASSUME NEW b \in Builds, Unregister(b)
      PROVE  TypeOK'
  <2>1. excused' = excused \/ excused' = [excused EXCEPT ![b] = @ \union {"registration"}]
    BY <1>17 DEF Unregister
  <2>2. {"registration"} \in SUBSET Leftovers
    BY DEF Leftovers
  <2>3. excused' \in [Builds -> SUBSET Leftovers]
    BY <2>1, <2>2, <1>excused, Added
  <2>4. registration' \in Builds \union {"nobody", "owner"}
    BY <1>17 DEF Unregister, TypeOK
  <2>5. pc' \in [Builds -> Steps]
    BY <1>17 DEF Unregister, TypeOK, Steps, Cleaning
  <2>6. UNCHANGED <<params, prefetchEnv, secretEnvMounts, workdir, edits, copies, listing, outside,
                 secrets, volumes, registered, certs, containers, built, pushed, printed>>
    BY <1>17 DEF Unregister
  <2> QED
    BY <2>3, <2>4, <2>5, <2>6 DEF TypeOK
<1>18. ASSUME NEW b \in Builds, Kill(b)
      PROVE  TypeOK'
  BY <1>18 DEF Kill, TypeOK, Steps, Cleaning, Files, Mounts, Leftovers
<1>19. ASSUME NEW b \in Builds, NEW e \in Builds \union {"prefetched"}, CopyEntry(b, e)
      PROVE  TypeOK'
  <2>1. copies' = copies \/ copies' = [copies EXCEPT ![CopyName(b)] = @ \union {e}]
    BY <1>19 DEF CopyEntry
  <2>2. copies' \in [Builds \union {"fixed"} -> SUBSET (Builds \union {".", "prefetched"})]
    BY <2>1, <1>copies, Added, CopyNameType
  <2>3. listing' \in [Builds -> SUBSET (Builds \union {"prefetched"})]
    BY <1>19, <1>listing, CopyNameType DEF CopyEntry
  <2>4. pc' \in [Builds -> Steps]
    BY <1>19 DEF CopyEntry, TypeOK, Steps, Cleaning
  <2>5. UNCHANGED <<params, prefetchEnv, secretEnvMounts, workdir, edits, outside, secrets, volumes,
                 registration, registered, certs, containers, built, pushed, printed, excused>>
    BY <1>19 DEF CopyEntry
  <2> QED
    BY <2>2, <2>3, <2>4, <2>5 DEF TypeOK
<1>20. CASE UNCHANGED vars
  BY <1>20 DEF vars, TypeOK
<1> QED
  BY <1>1, <1>2, <1>3, <1>4, <1>5, <1>6, <1>7, <1>8, <1>9, <1>10, <1>11, <1>12, <1>13, <1>14,
     <1>15, <1>16, <1>17, <1>18, <1>19, <1>20 DEF Next, Step, Terminated

(* The state of the builds, of their directories and of the host keeps     *)
(* its type.                                                               *)
THEOREM TypeCorrect == Spec => []TypeOK
<1>1. Init => TypeOK
  BY DEF Init, TypeOK, Steps
<1>2. TypeOK /\ [Next]_vars => TypeOK'
  BY TypeStep
<1> QED
  BY <1>1, <1>2, PTL DEF Spec

--------------------------------------------------------------------------------
(* What a build has to itself.                                             *)

(* A step that is none of o's changes nothing that is o's.                 *)
Kept(o) ==
    /\ pc'[o] = pc[o] /\ workdir'[o] = workdir[o] /\ edits'[o] = edits[o]
    /\ listing'[o] = listing[o] /\ volumes'[o] = volumes[o] /\ certs'[o] = certs[o]
    /\ excused'[o] = excused[o]
    /\ o \in outside' <=> o \in outside
    /\ o \in secrets' <=> o \in secrets
    /\ o \in registered' <=> o \in registered
    /\ o \in containers' <=> o \in containers

(* A build's step keeps the state of the other builds, the parameters and  *)
(* what the host provides.                                                 *)
LEMMA OthersKept ==
    ASSUME TypeOK, NEW b \in Builds, NEW o \in Builds \ {b}, Step(b) \/ Kill(b)
    PROVE  Kept(o) /\ UNCHANGED <<params, prefetchEnv, secretEnvMounts>>
<1> USE DEF Goto, host, prefetching, rhsm, image, TypeOK, Kept
<1>1. CASE Prepare(b)
  BY <1>1 DEF Prepare
<1>2. CASE MakeCopyDir(b)
  BY <1>2 DEF MakeCopyDir
<1>3. CASE IntegrateWithPrefetch(b)
  BY <1>3 DEF IntegrateWithPrefetch
<1>4. CASE PrepareYumReposMount(b)
  BY <1>4 DEF PrepareYumReposMount
<1>5. CASE RegisterRHSM(b)
  BY <1>5 DEF RegisterRHSM
<1>6. CASE RegisterRHSMFails(b)
  BY <1>6 DEF RegisterRHSMFails
<1>7. CASE GatherRHSMResources(b)
  BY <1>7 DEF GatherRHSMResources
<1>8. CASE InjectBuildinfo(b)
  BY <1>8 DEF InjectBuildinfo
<1>9. CASE BuildImage(b)
  BY <1>9 DEF BuildImage
<1>10. CASE FromImage(b)
  BY <1>10 DEF FromImage
<1>11. CASE ScanImage(b)
  BY <1>11 DEF ScanImage
<1>12. CASE PushImage(b)
  BY <1>12 DEF PushImage
<1>13. CASE Report(b)
  BY <1>13 DEF Report
<1>14. CASE Fail(b)
  BY <1>14 DEF Fail
<1>15. CASE RemoveWorkdir(b)
  BY <1>15 DEF RemoveWorkdir
<1>16. CASE RemoveOutside(b)
  BY <1>16 DEF RemoveOutside
<1>17. CASE Unregister(b)
  BY <1>17 DEF Unregister
<1>18. CASE Kill(b)
  BY <1>18 DEF Kill
<1>19. CASE \E e \in Builds \union {"prefetched"} : CopyEntry(b, e)
  BY <1>19 DEF CopyEntry
<1> QED
  BY <1>1, <1>2, <1>3, <1>4, <1>5, <1>6, <1>7, <1>8, <1>9, <1>10, <1>11, <1>12, <1>13, <1>14, <1>15,
     <1>16, <1>17, <1>18, <1>19 DEF Step

(* A build's own step keeps its own state in order.                        *)
LEMMA OwnFits ==
    ASSUME TypeOK, NEW b \in Builds, BuildFits(b), Step(b) \/ Kill(b)
    PROVE  BuildFits(b)'
<1> USE DEF Goto, host, prefetching, rhsm, image, TypeOK, Early, Mid, BuildFits
<1>typed. /\ workdir \in [Builds -> SUBSET Files] /\ volumes \in [Builds -> SUBSET Mounts]
          /\ excused \in [Builds -> SUBSET Leftovers] /\ containers \subseteq Builds
  OBVIOUS
<1>1. CASE Prepare(b)
  <2>1. MountsFit(b)'
    BY <1>1 DEF Prepare, MountsFit
  <2>2. EditsFit(b)'
    BY <1>1 DEF Prepare, EditsFit, NeedsEnv, MountsFit
  <2>3. CleanupFits(b)'
    BY <1>1 DEF Prepare, CleanupFits
  <2>4. RolesFit(b)'
    BY <1>1 DEF Prepare, RolesFit, MountsFit
  <2> QED
    BY <2>1, <2>2, <2>3, <2>4
<1>2. CASE MakeCopyDir(b)
  <2>1. MountsFit(b)'
    BY <1>2 DEF MakeCopyDir, MountsFit
  <2>2. EditsFit(b)'
    BY <1>2 DEF MakeCopyDir, EditsFit, NeedsEnv
  <2>3. CleanupFits(b)'
    BY <1>2 DEF MakeCopyDir, CleanupFits
  <2>4. RolesFit(b)'
    BY <1>2 DEF MakeCopyDir, RolesFit
  <2> QED
    BY <2>1, <2>2, <2>3, <2>4
<1>3. CASE IntegrateWithPrefetch(b)
  <2>1. MountsFit(b)'
    BY <1>3 DEF IntegrateWithPrefetch, MountsFit, PrefetchEnvVia, EnsureContainerfileCopied
  <2>2. EditsFit(b)'
    <3>1. edits[b] = {} /\ b \notin secrets
      BY <1>3 DEF IntegrateWithPrefetch, MountsFit
    <3>2. pc'[b] = "yum repos" /\ UNCHANGED <<params, prefetchEnv, secretEnvMounts>>
      BY <1>3 DEF IntegrateWithPrefetch
    <3>3. CASE PrefetchEnvVia = "secret"
      <4>1. b \in secrets' /\ edits'[b] = {}
        BY <1>3, <3>1, <3>3 DEF IntegrateWithPrefetch
      <4> QED
        BY <3>2, <4>1 DEF EditsFit
    <3>4. CASE PrefetchEnvVia = "file"
      <4>1. b \notin secrets' /\ edits'[b] = {"env"}
        BY <1>3, <3>1, <3>4 DEF IntegrateWithPrefetch, EnsureContainerfileCopied
      <4> QED
        BY <3>2, <4>1 DEF EditsFit
    <3>5. CASE PrefetchEnvVia \notin {"secret", "file"}
      <4>1. b \notin secrets' /\ edits'[b] = {}
        BY <1>3, <3>1, <3>5 DEF IntegrateWithPrefetch
      <4>2. ~NeedsEnv(b)'
        BY <3>2, <3>5 DEF NeedsEnv, PrefetchEnvVia, EnvFiles
      <4> QED
        BY <3>2, <4>1, <4>2 DEF EditsFit
    <3> QED
      BY <3>3, <3>4, <3>5
  <2>3. CleanupFits(b)'
    BY <1>3 DEF IntegrateWithPrefetch, CleanupFits
  <2>4. RolesFit(b)'
    BY <1>3 DEF IntegrateWithPrefetch, RolesFit
  <2> QED
    BY <2>1, <2>2, <2>3, <2>4
<1>4. CASE PrepareYumReposMount(b)
  <2>1. MountsFit(b)'
    <3>1. pc[b] \in Mid /\ pc'[b] \in Mid \ Early /\ UNCHANGED <<edits, secrets>>
      BY <1>4 DEF PrepareYumReposMount
    <3>2. \/ workdir' = workdir /\ volumes' = volumes
          \/ /\ workdir'[b] = workdir[b] \union {".", "yum.repos.d"}
             /\ volumes'[b] = volumes[b] \union {"yum.repos.d"}
      BY <1>4 DEF PrepareYumReposMount
    <3> QED
      BY <3>1, <3>2 DEF MountsFit
  <2>2. EditsFit(b)'
    BY <1>4 DEF PrepareYumReposMount, EditsFit, NeedsEnv
  <2>3. CleanupFits(b)'
    BY <1>4 DEF PrepareYumReposMount, CleanupFits
  <2>4. RolesFit(b)'
    <3>1. "prefetched" \in volumes'[b] => "prefetched" \in volumes[b]
      <4>1. volumes'[b] = volumes[b] \/ volumes'[b] = volumes[b] \union {"yum.repos.d"}
        BY <1>4 DEF PrepareYumReposMount
      <4> QED
        BY <4>1
    <3>2. /\ pc[b] = "yum repos" /\ pc'[b] \in {"register", "gather"}
          /\ pc'[b] = "register" => params[b].rhsm = "preregister"
          /\ UNCHANGED <<params, outside, registered>>
      BY <1>4 DEF PrepareYumReposMount
    <3> QED
      BY <3>1, <3>2 DEF RolesFit
  <2> QED
    BY <2>1, <2>2, <2>3, <2>4
<1>5. CASE RegisterRHSM(b)
  <2>1. MountsFit(b)'
    BY <1>5 DEF RegisterRHSM, MountsFit
  <2>2. EditsFit(b)'
    BY <1>5 DEF RegisterRHSM, EditsFit, NeedsEnv
  <2>3. CleanupFits(b)'
    BY <1>5 DEF RegisterRHSM, CleanupFits
  <2>4. RolesFit(b)'
    BY <1>5 DEF RegisterRHSM, RolesFit
  <2> QED
    BY <2>1, <2>2, <2>3, <2>4
<1>6. CASE RegisterRHSMFails(b)
  <2>1. MountsFit(b)'
    BY <1>6 DEF RegisterRHSMFails, MountsFit
  <2>2. EditsFit(b)'
    BY <1>6 DEF RegisterRHSMFails, EditsFit, NeedsEnv
  <2>3. CleanupFits(b)'
    BY <1>6 DEF RegisterRHSMFails, CleanupFits
  <2>4. RolesFit(b)'
    BY <1>6 DEF RegisterRHSMFails, RolesFit
  <2> QED
    BY <2>1, <2>2, <2>3, <2>4
<1>7. CASE GatherRHSMResources(b)
  <2>1. MountsFit(b)'
    <3>1. pc[b] \in Mid /\ pc'[b] \in Mid \ Early /\ UNCHANGED <<edits, secrets>>
      BY <1>7 DEF GatherRHSMResources
    <3>2. \/ workdir' = workdir /\ volumes' = volumes
          \/ /\ workdir'[b] = workdir[b] \union {".", "rhsm"}
             /\ volumes'[b] = volumes[b] \union {"rhsm"}
      BY <1>7 DEF GatherRHSMResources
    <3> QED
      BY <3>1, <3>2 DEF MountsFit
  <2>2. EditsFit(b)'
    BY <1>7 DEF GatherRHSMResources, EditsFit, NeedsEnv
  <2>3. CleanupFits(b)'
    BY <1>7 DEF GatherRHSMResources, CleanupFits
  <2>4. RolesFit(b)'
    BY <1>7 DEF GatherRHSMResources, RolesFit
  <2> QED
    BY <2>1, <2>2, <2>3, <2>4
<1>8. CASE InjectBuildinfo(b)
  <2>1. MountsFit(b)'
    <3>1. pc[b] \in Mid /\ pc'[b] \in Mid \ Early /\ UNCHANGED <<volumes, secrets>>
      BY <1>8 DEF InjectBuildinfo
    <3>2. \/ workdir' = workdir /\ edits' = edits
          \/ workdir'[b] = workdir[b] \union {".", "buildinfo", "containerfile"}
      BY <1>8 DEF InjectBuildinfo
    <3> QED
      BY <3>1, <3>2 DEF MountsFit
  <2>2. EditsFit(b)'
    <3>1. /\ pc[b] = "inject" /\ pc'[b] = "build"
          /\ UNCHANGED <<params, prefetchEnv, secretEnvMounts, secrets>>
      BY <1>8 DEF InjectBuildinfo
    <3>2. "buildinfo" \notin edits[b]
      BY <3>1 DEF EditsFit
    <3>3. ("env" \in edits'[b]) <=> ("env" \in edits[b])
      <4>1. CASE params[b].inject
        <5>1. EnsureContainerfileCopied(b) = edits[b]
          BY <3>1 DEF EnsureContainerfileCopied, MountsFit
        <5>2. edits'[b] = EnsureContainerfileCopied(b) \union {"buildinfo"}
          BY <1>8, <4>1 DEF InjectBuildinfo
        <5> QED
          BY <5>1, <5>2
      <4>2. CASE ~params[b].inject
        BY <1>8, <4>2 DEF InjectBuildinfo
      <4> QED
        BY <4>1, <4>2
    <3>4. "buildinfo" \in edits'[b] <=> params[b].inject
      <4>1. CASE params[b].inject
        BY <1>8, <4>1 DEF InjectBuildinfo
      <4>2. CASE ~params[b].inject
        BY <1>8, <3>2, <4>2 DEF InjectBuildinfo
      <4> QED
        BY <4>1, <4>2
    <3>5. NeedsEnv(b)' <=> NeedsEnv(b)
      BY <3>1 DEF NeedsEnv
    <3> QED
      BY <3>1, <3>3, <3>4, <3>5 DEF EditsFit
  <2>3. CleanupFits(b)'
    BY <1>8 DEF InjectBuildinfo, CleanupFits
  <2>4. RolesFit(b)'
    BY <1>8 DEF InjectBuildinfo, RolesFit
  <2> QED
    BY <2>1, <2>2, <2>3, <2>4
<1>9. CASE BuildImage(b)
  <2>1. MountsFit(b)'
    BY <1>9 DEF BuildImage, MountsFit
  <2>2. EditsFit(b)'
    BY <1>9 DEF BuildImage, EditsFit, NeedsEnv
  <2>3. CleanupFits(b)'
    BY <1>9 DEF BuildImage, CleanupFits
  <2>4. RolesFit(b)'
    BY <1>9 DEF BuildImage, RolesFit
  <2> QED
    BY <2>1, <2>2, <2>3, <2>4
<1>10. CASE FromImage(b)
  <2>1. MountsFit(b)'
    BY <1>10 DEF FromImage, MountsFit
  <2>2. EditsFit(b)'
    BY <1>10 DEF FromImage, EditsFit, NeedsEnv
  <2>3. CleanupFits(b)'
    BY <1>10 DEF FromImage, CleanupFits
  <2>4. RolesFit(b)'
    BY <1>10 DEF FromImage, RolesFit
  <2> QED
    BY <2>1, <2>2, <2>3, <2>4
<1>11. CASE ScanImage(b)
  <2>1. MountsFit(b)'
    BY <1>11, ZenonT(60) DEF ScanImage, MountsFit
  <2>2. EditsFit(b)'
    BY <1>11, ZenonT(60) DEF ScanImage, EditsFit, NeedsEnv
  <2>3. CleanupFits(b)'
    <3>1. pc'[b] \in {"push", "remove workdir"} /\ UNCHANGED workdir
      BY <1>11, ZenonT(60) DEF ScanImage
    <3> HIDE DEF TypeOK
    <3>2. b \in containers' => "container" \in excused'[b]
      BY <1>11, <1>typed DEF ScanImage
    <3> QED
      BY <3>1, <3>2 DEF CleanupFits
  <2>4. RolesFit(b)'
    BY <1>11, ZenonT(60) DEF ScanImage, RolesFit
  <2> QED
    BY <2>1, <2>2, <2>3, <2>4
<1>12. CASE PushImage(b)
  <2>1. MountsFit(b)'
    BY <1>12 DEF PushImage, MountsFit
  <2>2. EditsFit(b)'
    BY <1>12 DEF PushImage, EditsFit, NeedsEnv
  <2>3. CleanupFits(b)'
    BY <1>12 DEF PushImage, CleanupFits
  <2>4. RolesFit(b)'
    BY <1>12 DEF PushImage, RolesFit
  <2> QED
    BY <2>1, <2>2, <2>3, <2>4
<1>13. CASE Report(b)
  <2>1. MountsFit(b)'
    BY <1>13 DEF Report, MountsFit
  <2>2. EditsFit(b)'
    BY <1>13 DEF Report, EditsFit, NeedsEnv
  <2>3. CleanupFits(b)'
    BY <1>13 DEF Report, CleanupFits
  <2>4. RolesFit(b)'
    BY <1>13 DEF Report, RolesFit
  <2> QED
    BY <2>1, <2>2, <2>3, <2>4
<1>14. CASE Fail(b)
  <2>1. MountsFit(b)'
    BY <1>14, ZenonT(60) DEF Fail, MountsFit
  <2>2. EditsFit(b)'
    BY <1>14 DEF Fail, EditsFit, NeedsEnv
  <2>3. CleanupFits(b)'
    BY <1>14, ZenonT(60) DEF Fail, CleanupFits
  <2>4. RolesFit(b)'
    BY <1>14 DEF Fail, RolesFit
  <2> QED
    BY <2>1, <2>2, <2>3, <2>4
<1>15. CASE RemoveWorkdir(b)
  <2>1. MountsFit(b)'
    BY <1>15 DEF RemoveWorkdir, MountsFit
  <2>2. EditsFit(b)'
    BY <1>15 DEF RemoveWorkdir, EditsFit, NeedsEnv
  <2>3. CleanupFits(b)'
    <3>1. pc[b] = "remove workdir" /\ pc'[b] = "remove copy" /\ UNCHANGED containers
      BY <1>15 DEF RemoveWorkdir
    <3> HIDE DEF TypeOK
    <3>2. workdir'[b] = {} \/ "workdir" \in excused'[b]
      BY <1>15, <1>typed DEF RemoveWorkdir
    <3>3. excused[b] \subseteq excused'[b]
      BY <1>15, <1>typed DEF RemoveWorkdir
    <3> QED
      BY <3>1, <3>2, <3>3 DEF CleanupFits
  <2>4. RolesFit(b)'
    BY <1>15 DEF RemoveWorkdir, RolesFit
  <2> QED
    BY <2>1, <2>2, <2>3, <2>4
<1>16. CASE RemoveOutside(b)
  <2>1. MountsFit(b)'
    BY <1>16 DEF RemoveOutside, MountsFit
  <2>2. EditsFit(b)'
    BY <1>16 DEF RemoveOutside, EditsFit, NeedsEnv
  <2>3. CleanupFits(b)'
    <3>1. pc[b] = "remove copy" /\ pc'[b] = "unregister" /\ UNCHANGED <<workdir, containers>>
      BY <1>16 DEF RemoveOutside
    <3> HIDE DEF TypeOK
    <3>2. excused[b] \subseteq excused'[b]
      BY <1>16, <1>typed DEF RemoveOutside
    <3> QED
      BY <3>1, <3>2 DEF CleanupFits
  <2>4. RolesFit(b)'
    BY <1>16 DEF RemoveOutside, RolesFit
  <2> QED
    BY <2>1, <2>2, <2>3, <2>4
<1>17. CASE Unregister(b)
  <2>1. MountsFit(b)'
    BY <1>17 DEF Unregister, MountsFit
  <2>2. EditsFit(b)'
    BY <1>17 DEF Unregister, EditsFit, NeedsEnv
  <2>3. CleanupFits(b)'
    BY <1>17 DEF Unregister, CleanupFits
  <2>4. RolesFit(b)'
    BY <1>17 DEF Unregister, RolesFit
  <2> QED
    BY <2>1, <2>2, <2>3, <2>4
<1>18. CASE Kill(b)
  <2>1. MountsFit(b)'
    BY <1>18 DEF Kill, MountsFit
  <2>2. EditsFit(b)'
    BY <1>18 DEF Kill, EditsFit, NeedsEnv
  <2>3. CleanupFits(b)'
    BY <1>18 DEF Kill, CleanupFits
  <2>4. RolesFit(b)'
    BY <1>18 DEF Kill, RolesFit
  <2> QED
    BY <2>1, <2>2, <2>3, <2>4
<1>19. CASE \E e \in Builds \union {"prefetched"} : CopyEntry(b, e)
  <2>1. MountsFit(b)'
    BY <1>19 DEF CopyEntry, MountsFit
  <2>2. EditsFit(b)'
    BY <1>19 DEF CopyEntry, EditsFit, NeedsEnv
  <2>3. CleanupFits(b)'
    BY <1>19 DEF CopyEntry, CleanupFits
  <2>4. RolesFit(b)'
    BY <1>19 DEF CopyEntry, RolesFit
  <2> QED
    BY <2>1, <2>2, <2>3, <2>4
<1> QED
  BY <1>1, <1>2, <1>3, <1>4, <1>5, <1>6, <1>7, <1>8, <1>9, <1>10, <1>11, <1>12, <1>13, <1>14, <1>15,
     <1>16, <1>17, <1>18, <1>19 DEF Step

(* The state every build has to itself is in order. *)
AllFit == \A b \in Builds : BuildFits(b)

(* What a step keeps stays in order.                                       *)
LEMMA KeptFits ==
    ASSUME NEW o \in Builds, BuildFits(o), Kept(o),
           UNCHANGED <<params, prefetchEnv, secretEnvMounts>>
    PROVE  BuildFits(o)'
<1>1. MountsFit(o)'
  BY DEF BuildFits, MountsFit, Kept
<1>2. EditsFit(o)'
  BY DEF BuildFits, EditsFit, NeedsEnv, Kept
<1>3. CleanupFits(o)' /\ RolesFit(o)'
  BY DEF BuildFits, CleanupFits, RolesFit, Kept
<1> QED
  BY <1>1, <1>2, <1>3 DEF BuildFits

(* No step of any build disturbs it.                                       *)
LEMMA AllFitStep ==
    ASSUME TypeOK, AllFit, [Next]_vars
    PROVE  AllFit'
<1> SUFFICES ASSUME NEW o \in Builds
             PROVE  BuildFits(o)'
  BY DEF AllFit
<1> BuildFits(o)
  BY DEF AllFit
<1>1. ASSUME NEW b \in Builds, Step(b) \/ Kill(b)
      PROVE  BuildFits(o)'
  <2>1. CASE o = b
    BY <1>1, <2>1, OwnFits
  <2>2. CASE o # b
    BY <1>1, <2>2, OthersKept, KeptFits
  <2> QED
    BY <2>1, <2>2
<1>2. CASE UNCHANGED vars
  <2>1. Kept(o) /\ UNCHANGED <<params, prefetchEnv, secretEnvMounts>>
    BY <1>2 DEF vars, host, prefetching, rhsm, image, Kept
  <2> QED
    BY <2>1, KeptFits
<1> QED
  BY <1>1, <1>2 DEF Next, Terminated

(* In every reachable state the state of each build is in order.           *)
LEMMA AlwaysFit == Spec => []AllFit
<1>1. Init => AllFit
  BY DEF Init, AllFit, BuildFits, MountsFit, EditsFit, NeedsEnv, CleanupFits, RolesFit, Early, Mid
<1>2. TypeOK /\ AllFit /\ [Next]_vars => AllFit'
  BY AllFitStep
<1> QED
  BY <1>1, <1>2, TypeCorrect, PTL DEF Spec

--------------------------------------------------------------------------------
(* The copies of the prefetch directory.                                   *)

(* The steps that make, fill and remove a copy; every other step leaves    *)
(* the copies alone, makes no build the holder of a copy and mounts the    *)
(* output of the prefetch only at the end of the walk.                     *)
CopyStep(b) == \/ MakeCopyDir(b) \/ RemoveOutside(b)
               \/ \E e \in Builds \union {"prefetched"} : CopyEntry(b, e)

(* What the other steps keep, and when they mount the prefetch output.     *)
LEMMA OtherStepsKeepCopies ==
    ASSUME TypeOK, NEW b \in Builds, BuildFits(b), Step(b) \/ Kill(b), ~CopyStep(b)
    PROVE  /\ UNCHANGED <<copies, outside>>
           /\ pc[b] \in {"unregister", "end", "killed"} =>
                 pc'[b] \in {"unregister", "end", "killed"}
           /\ pc'[b] # "walk"
           /\ pc'[b] \in Mid /\ "prefetched" \in volumes'[b] =>
                 \/ pc[b] \in Mid /\ "prefetched" \in volumes[b]
                 \/ pc[b] = "walk" /\ listing[b] = {}
<1> USE DEF Goto, host, prefetching, rhsm, image, TypeOK, Early, Mid
<1>1. CASE Prepare(b)
  BY <1>1 DEF Prepare, BuildFits, MountsFit
<1>2. CASE IntegrateWithPrefetch(b)
  BY <1>2 DEF IntegrateWithPrefetch
<1>3. CASE PrepareYumReposMount(b)
  <2>1. volumes'[b] = volumes[b] \/ volumes'[b] = volumes[b] \union {"yum.repos.d"}
    BY <1>3 DEF PrepareYumReposMount
  <2>2. /\ pc[b] = "yum repos" /\ pc'[b] \in {"register", "gather"}
        /\ UNCHANGED <<copies, outside>>
    BY <1>3 DEF PrepareYumReposMount
  <2> QED
    BY <2>1, <2>2
<1>4. CASE RegisterRHSM(b)
  BY <1>4 DEF RegisterRHSM
<1>5. CASE RegisterRHSMFails(b)
  BY <1>5 DEF RegisterRHSMFails
<1>6. CASE GatherRHSMResources(b)
  BY <1>6 DEF GatherRHSMResources
<1>7. CASE InjectBuildinfo(b)
  BY <1>7 DEF InjectBuildinfo
<1>8. CASE BuildImage(b)
  BY <1>8 DEF BuildImage
<1>9. CASE FromImage(b)
  BY <1>9 DEF FromImage
<1>10. CASE ScanImage(b)
  BY <1>10 DEF ScanImage
<1>11. CASE PushImage(b)
  BY <1>11 DEF PushImage
<1>12. CASE Report(b)
  BY <1>12 DEF Report
<1>13. CASE Fail(b)
  BY <1>13 DEF Fail, Cleaning
<1>14. CASE RemoveWorkdir(b)
  BY <1>14, ZenonT(60) DEF RemoveWorkdir
<1>15. CASE Unregister(b)
  BY <1>15 DEF Unregister
<1>16. CASE Kill(b)
  BY <1>16 DEF Kill
<1> QED
  BY <1>1, <1>2, <1>3, <1>4, <1>5, <1>6, <1>7, <1>8, <1>9, <1>10, <1>11, <1>12, <1>13, <1>14, <1>15,
     <1>16 DEF Step, CopyStep

(* No step takes away the copy of a build that has one, or lets two builds *)
(* have the same one.                                                      *)
LEMMA CopyInvStep ==
    ASSUME TypeOK, AllFit, CopyInv, NEW b \in Builds, Step(b) \/ Kill(b)
    PROVE  CopyInv'
<1>1. ASSUME NEW o \in Builds \ {b} PROVE Kept(o)
  BY OthersKept
<1>2. UNCHANGED params
  <2> USE DEF Step, Prepare, MakeCopyDir, CopyEntry, IntegrateWithPrefetch, PrepareYumReposMount,
              RegisterRHSM, RegisterRHSMFails, GatherRHSMResources, InjectBuildinfo, BuildImage,
              FromImage, ScanImage, PushImage, Report, Fail, RemoveWorkdir, RemoveOutside,
              Unregister, Kill
  <2> QED
    OBVIOUS
<1>3. ASSUME NEW o \in Builds PROVE CopyName(o)' = CopyName(o) /\ CopyName(o) \in DOMAIN copies
  BY <1>2, CopyNameType DEF CopyName, TypeOK
<1>4. ASSUME NEW o \in Builds \ {b} PROVE HasCopy(o)' <=> HasCopy(o)
  BY <1>1 DEF HasCopy, Kept
<1>5. ASSUME NEW o \in Builds,
             pc[o] = "walk" \/ (pc[o] \in Mid /\ "prefetched" \in volumes[o])
      PROVE  HasCopy(o)
  BY <1>5 DEF AllFit, BuildFits, RolesFit, HasCopy, Mid
<1>6. BuildFits(b)
  BY DEF AllFit
<1>7. CASE ~CopyStep(b)
  <2>1. /\ UNCHANGED <<copies, outside>>
        /\ HasCopy(b)' => HasCopy(b)
        /\ pc'[b] # "walk"
        /\ pc'[b] \in Mid /\ "prefetched" \in volumes'[b] =>
              \/ pc[b] \in Mid /\ "prefetched" \in volumes[b]
              \/ pc[b] = "walk" /\ listing[b] = {}
    BY <1>6, <1>7, OtherStepsKeepCopies DEF HasCopy
  <2> QED
    BY <1>1, <1>3, <1>4, <2>1 DEF CopyInv, Kept
<1>8. CASE MakeCopyDir(b)
  <2>1. /\ copies[CopyName(b)] = {} /\ pc'[b] = "walk"
        /\ copies' = [copies EXCEPT ![CopyName(b)] = {"."}]
        /\ "prefetched" \in listing'[b]
    BY <1>8 DEF MakeCopyDir, Goto, TypeOK
  <2>2. ASSUME NEW o \in Builds \ {b}, HasCopy(o)
        PROVE  CopyName(o) # CopyName(b) /\ copies'[CopyName(o)] = copies[CopyName(o)]
    BY <1>3, <2>1, <2>2 DEF CopyInv
  <2>3. copies'[CopyName(b)] # {}
    BY <1>3, <2>1
  <2>4. \A o \in Builds : HasCopy(o)' => copies'[CopyName(o)'] # {}
    BY <1>3, <1>4, <2>2, <2>3 DEF CopyInv
  <2>5. \A o, p \in Builds : HasCopy(o)' /\ HasCopy(p)' /\ CopyName(o)' = CopyName(p)' => o = p
    BY <1>3, <1>4, <2>2 DEF CopyInv
  <2>6. ASSUME NEW o \in Builds, pc'[o] = "walk"
        PROVE  "prefetched" \in listing'[o] \union copies'[CopyName(o)']
    BY <1>1, <1>3, <1>5, <2>1, <2>2, <2>6 DEF CopyInv, Kept
  <2>7. ASSUME NEW o \in Builds, pc'[o] \in Mid, "prefetched" \in volumes'[o]
        PROVE  "prefetched" \in copies'[CopyName(o)']
    <3>1. o # b
      BY <2>1, <2>7 DEF Mid
    <3> QED
      BY <1>1, <1>3, <1>5, <2>2, <2>7, <3>1 DEF CopyInv, Kept
  <2> QED
    BY <2>4, <2>5, <2>6, <2>7 DEF CopyInv
<1>9. ASSUME NEW e \in Builds \union {"prefetched"}, CopyEntry(b, e)
      PROVE  CopyInv'
  <2>1. /\ copies' = [copies EXCEPT ![CopyName(b)] = @ \union {e}]
        /\ listing'[b] = listing[b] \ {e} /\ e \in listing[b]
        /\ pc' = pc /\ outside' = outside /\ volumes' = volumes
    BY <1>9 DEF CopyEntry, TypeOK
  <2>2. ASSUME NEW o \in Builds PROVE copies[CopyName(o)] \subseteq copies'[CopyName(o)]
    BY <1>3, <2>1
  <2>3. listing[b] \union copies[CopyName(b)] \subseteq listing'[b] \union copies'[CopyName(b)]
    BY <1>3, <2>1
  <2>4. ASSUME NEW o \in Builds PROVE HasCopy(o)' <=> HasCopy(o)
    BY <2>1 DEF HasCopy
  <2> QED
    BY <1>1, <1>3, <2>1, <2>2, <2>3, <2>4 DEF CopyInv, Kept
<1>10. CASE RemoveOutside(b)
  <2>1. /\ pc[b] = "remove copy" /\ pc'[b] = "unregister"
        /\ IF b \in outside
           THEN copies' = copies \/ copies' = [copies EXCEPT ![CopyName(b)] = {}]
           ELSE copies' = copies
    BY <1>10 DEF RemoveOutside, Goto, TypeOK
  <2>2. b \in outside => HasCopy(b)
    BY <2>1 DEF HasCopy
  <2>3. ASSUME NEW o \in Builds \ {b}, HasCopy(o)
        PROVE  copies'[CopyName(o)] = copies[CopyName(o)]
    BY <1>3, <2>1, <2>2, <2>3 DEF CopyInv
  <2>4. ~HasCopy(b)'
    BY <2>1 DEF HasCopy
  <2>5. \A o \in Builds : HasCopy(o)' => copies'[CopyName(o)'] # {}
    BY <1>3, <1>4, <2>3, <2>4 DEF CopyInv
  <2>6. \A o, p \in Builds : HasCopy(o)' /\ HasCopy(p)' /\ CopyName(o)' = CopyName(p)' => o = p
    BY <1>3, <1>4, <2>4 DEF CopyInv
  <2>7. ASSUME NEW o \in Builds, pc'[o] = "walk"
        PROVE  "prefetched" \in listing'[o] \union copies'[CopyName(o)']
    <3>1. o # b
      BY <2>1, <2>7
    <3>2. pc[o] = "walk" /\ listing'[o] = listing[o]
      BY <1>1, <2>7, <3>1 DEF Kept
    <3>3. copies'[CopyName(o)] = copies[CopyName(o)]
      BY <1>5, <2>3, <3>1, <3>2
    <3> QED
      BY <1>3, <3>2, <3>3 DEF CopyInv
  <2>8. ASSUME NEW o \in Builds, pc'[o] \in Mid, "prefetched" \in volumes'[o]
        PROVE  "prefetched" \in copies'[CopyName(o)']
    <3>1. o # b
      BY <2>1, <2>8 DEF Mid
    <3> QED
      BY <1>1, <1>3, <1>5, <2>3, <2>8, <3>1 DEF CopyInv, Kept
  <2> QED
    BY <2>5, <2>6, <2>7, <2>8 DEF CopyInv
<1> QED
  BY <1>7, <1>8, <1>9, <1>10 DEF CopyStep

(* In every reachable state a build that has a copy has it to itself.      *)
LEMMA CopiesAlwaysHeld == Spec => []CopyInv
<1>1. TypeOK /\ Init => CopyInv
  BY DEF Init, CopyInv, HasCopy, Mid
<1>2. TypeOK /\ AllFit /\ CopyInv /\ [Next]_vars => CopyInv'
  <2>1. ASSUME CopyInv, UNCHANGED vars PROVE CopyInv'
    BY <2>1 DEF vars, prefetching, CopyInv, HasCopy, CopyName
  <2> QED
    BY <2>1, CopyInvStep DEF Next, Terminated
<1> QED
  BY <1>1, <1>2, TypeCorrect, AlwaysFit, PTL DEF Spec

(* What a build hands to buildah to mount is there when buildah starts, in *)
(* every reachable state and for any number of builds: no clean-up of      *)
(* another build has removed it.                                           *)
THEOREM MountsAlwaysExist == Spec => []MountsExist
<1>1. AllFit /\ CopyInv => MountsExist
  BY DEF AllFit, BuildFits, MountsFit, CopyInv, Mid, MountsExist
<1> QED
  BY <1>1, AlwaysFit, CopiesAlwaysHeld, PTL

(* The containerfile buildah reads carries every edit of the earlier       *)
(* steps, and the prefetch environment reaches the build exactly once.     *)
THEOREM BuildAlwaysSeesEdits == Spec => []BuildSeesEdits
<1>1. AllFit => BuildSeesEdits
  BY DEF AllFit, BuildFits, MountsFit, EditsFit, NeedsEnv, Mid, BuildSeesEdits
<1> QED
  BY <1>1, AlwaysFit, PTL

(* A build never goes back to its start, and never forgets what it could   *)
(* not clean up; only the removal of its copy takes it to the last step of *)
(* the clean-up, and only that one to its end.                             *)
LEMMA CleanupOrder ==
    ASSUME TypeOK, NEW b \in Builds, Step(b) \/ Kill(b)
    PROVE  /\ pc'[b] # "start" /\ pc[b] # "end"
           /\ excused[b] \subseteq excused'[b]
           /\ outside \subseteq outside'
           /\ pc'[b] = "unregister" => RemoveOutside(b)
           /\ pc'[b] = "end" => Unregister(b)
<1> USE DEF Goto, host, prefetching, rhsm, image, Cleaning
<1>pc. pc \in [Builds -> Steps]
  BY DEF TypeOK
<1>excused. excused \in [Builds -> SUBSET Leftovers]
  BY DEF TypeOK
<1>1. CASE Prepare(b)
  BY <1>1, <1>pc, <1>excused DEF Prepare
<1>2. CASE MakeCopyDir(b)
  BY <1>2, <1>pc, <1>excused DEF MakeCopyDir
<1>3. CASE IntegrateWithPrefetch(b)
  BY <1>3, <1>pc, <1>excused DEF IntegrateWithPrefetch
<1>4. CASE PrepareYumReposMount(b)
  BY <1>4, <1>pc, <1>excused DEF PrepareYumReposMount
<1>5. CASE RegisterRHSM(b)
  BY <1>5, <1>pc, <1>excused DEF RegisterRHSM
<1>6. CASE RegisterRHSMFails(b)
  BY <1>6, <1>pc, <1>excused DEF RegisterRHSMFails
<1>7. CASE GatherRHSMResources(b)
  BY <1>7, <1>pc, <1>excused DEF GatherRHSMResources
<1>8. CASE InjectBuildinfo(b)
  BY <1>8, <1>pc, <1>excused DEF InjectBuildinfo
<1>9. CASE BuildImage(b)
  BY <1>9, <1>pc, <1>excused DEF BuildImage
<1>10. CASE FromImage(b)
  BY <1>10, <1>pc, <1>excused DEF FromImage
<1>11. CASE ScanImage(b)
  BY <1>11, <1>pc, <1>excused DEF ScanImage
<1>12. CASE PushImage(b)
  BY <1>12, <1>pc, <1>excused DEF PushImage
<1>13. CASE Report(b)
  BY <1>13, <1>pc, <1>excused DEF Report
<1>14. CASE Fail(b)
  BY <1>14, <1>pc, <1>excused DEF Fail
<1>15. CASE RemoveWorkdir(b)
  BY <1>15, <1>pc, <1>excused DEF RemoveWorkdir
<1>16. CASE RemoveOutside(b)
  BY <1>16, <1>pc, <1>excused DEF RemoveOutside
<1>17. CASE Unregister(b)
  BY <1>17, <1>pc, <1>excused DEF Unregister
<1>18. CASE Kill(b)
  BY <1>18, <1>pc, <1>excused DEF Kill
<1>19. CASE \E e \in Builds \union {"prefetched"} : CopyEntry(b, e)
  BY <1>19, <1>pc, <1>excused DEF CopyEntry
<1> QED
  BY <1>1, <1>2, <1>3, <1>4, <1>5, <1>6, <1>7, <1>8, <1>9, <1>10, <1>11, <1>12, <1>13, <1>14, <1>15,
     <1>16, <1>17, <1>18, <1>19 DEF Step

(* A copy that exists still has a build that will remove it or could not.  *)
LEMMA CopyOwnedStep ==
    ASSUME TypeOK, AllFit, CopyInv, CopyOwned, NEW b \in Builds, Step(b) \/ Kill(b)
    PROVE  CopyOwned'
<1>1. ASSUME NEW o \in Builds \ {b} PROVE Kept(o)
  BY OthersKept
<1>2. ASSUME NEW o \in Builds PROVE CopyName(o)' = CopyName(o)
  <2>1. UNCHANGED params
    BY DEF Step, Prepare, MakeCopyDir, CopyEntry, IntegrateWithPrefetch, PrepareYumReposMount,
           RegisterRHSM, RegisterRHSMFails, GatherRHSMResources, InjectBuildinfo, BuildImage,
           FromImage, ScanImage, PushImage, Report, Fail, RemoveWorkdir, RemoveOutside,
           Unregister, Kill
  <2> QED
    BY <2>1 DEF CopyName
<1>3. DOMAIN copies' = DOMAIN copies
  BY TypeStep DEF TypeOK, Next
<1> SUFFICES ASSUME NEW n \in DOMAIN copies, copies'[n] # {}
             PROVE  \E o \in outside' : /\ CopyName(o)' = n
                                        /\ \/ pc'[o] \notin {"unregister", "end"}
                                           \/ "copy" \in excused'[o]
  BY <1>3 DEF CopyOwned
<1>4. CASE copies[n] # {}
  <2>1. PICK o \in outside : /\ CopyName(o) = n
                             /\ pc[o] \notin {"unregister", "end"} \/ "copy" \in excused[o]
    BY <1>4 DEF CopyOwned
  <2>2. o \in Builds
    BY DEF TypeOK
  <2>3. CASE o # b
    BY <1>1, <1>2, <2>1, <2>2, <2>3 DEF Kept
  <2>4. CASE o = b
    <3>1. CASE RemoveOutside(b)
      <4>1. copies' = [copies EXCEPT ![n] = {}] \/ "copy" \in excused'[b]
        <5>1. \/ copies' = [copies EXCEPT ![n] = {}]
              \/ excused' = [excused EXCEPT ![b] = @ \union {"copy"}]
          BY <2>1, <2>4, <3>1 DEF RemoveOutside
        <5>2. excused \in [Builds -> SUBSET Leftovers]
          BY DEF TypeOK
        <5> QED
          BY <5>1, <5>2
      <4>2. "copy" \in excused'[b] /\ b \in outside'
        BY <4>1, <2>1, <2>4, CleanupOrder
      <4> QED
        BY <1>2, <2>1, <2>2, <2>4, <4>2
    <3>2. CASE ~RemoveOutside(b)
      <4>1. pc[b] \in {"unregister", "end"} \/ pc'[b] \notin {"unregister", "end"}
        BY <3>2, CleanupOrder DEF Unregister
      <4> QED
        BY <1>2, <2>1, <2>2, <2>4, <4>1, CleanupOrder
    <3> QED
      BY <3>1, <3>2
  <2> QED
    BY <2>3, <2>4
<1>5. CASE copies[n] = {}
  <2>1. CASE MakeCopyDir(b)
    <3>1. n = CopyName(b)
      BY <1>5, <2>1 DEF MakeCopyDir, TypeOK
    <3>2. b \in outside' /\ pc'[b] = "walk"
      BY <2>1 DEF MakeCopyDir, Goto, TypeOK
    <3> QED
      BY <1>2, <3>1, <3>2
  <2>2. CASE \E e \in Builds \union {"prefetched"} : CopyEntry(b, e)
    <3>1. n = CopyName(b)
      BY <1>5, <2>2 DEF CopyEntry, TypeOK
    <3>2. HasCopy(b)
      BY <2>2 DEF CopyEntry, AllFit, BuildFits, RolesFit, HasCopy
    <3> QED
      BY <1>5, <3>1, <3>2 DEF CopyInv
  <2>3. CASE RemoveOutside(b)
    BY <1>5, <2>3 DEF RemoveOutside, TypeOK
  <2>4. CASE ~CopyStep(b)
    <3>1. copies' = copies
      BY <2>4, OtherStepsKeepCopies DEF AllFit
    <3> QED
      BY <1>5, <3>1
  <2> QED
    BY <2>1, <2>2, <2>3, <2>4 DEF CopyStep
<1> QED
  BY <1>4, <1>5

(* In every reachable state a copy belongs to such a build.                *)
LEMMA CopiesAlwaysOwned == Spec => []CopyOwned
<1>1. Init => CopyOwned
  BY DEF Init, CopyOwned
<1>2. TypeOK /\ AllFit /\ CopyInv /\ CopyOwned /\ [Next]_vars => CopyOwned'
  <2>1. ASSUME CopyOwned, UNCHANGED vars PROVE CopyOwned'
    BY <2>1 DEF vars, prefetching, CopyOwned, CopyName
  <2> QED
    BY <2>1, CopyOwnedStep DEF Next, Terminated
<1> QED
  BY <1>1, <1>2, TypeCorrect, AlwaysFit, CopiesAlwaysHeld, PTL DEF Spec

--------------------------------------------------------------------------------
(* The registration of the host.                                           *)

(* Only these steps change it; the others neither bring a build to the     *)
(* collection of its certificates (but for one that does not register)     *)
(* nor change the certificates it has.                                     *)
RegistrationStep(b) == RegisterRHSM(b) \/ RegisterRHSMFails(b) \/ Unregister(b)

(* What the other steps keep, and where they can lead.                     *)
LEMMA OtherStepsKeepRegistration ==
    ASSUME TypeOK, NEW b \in Builds, Step(b) \/ Kill(b), ~RegistrationStep(b),
           ~GatherRHSMResources(b)
    PROVE  /\ UNCHANGED <<registration, registered, certs>>
           /\ pc'[b] # "end" /\ pc'[b] # "inject"
           /\ pc'[b] = "gather" => params[b].rhsm # "preregister"
           /\ pc'[b] = "build" => pc[b] = "inject"
<1> USE DEF Goto, host, prefetching, rhsm, image
<1>pc. pc \in [Builds -> Steps]
  BY DEF TypeOK
<1>1. CASE Prepare(b)
  BY <1>1, <1>pc DEF Prepare
<1>2. CASE MakeCopyDir(b)
  BY <1>2, <1>pc DEF MakeCopyDir
<1>3. CASE IntegrateWithPrefetch(b)
  BY <1>3, <1>pc DEF IntegrateWithPrefetch
<1>4. CASE PrepareYumReposMount(b)
  BY <1>4, <1>pc DEF PrepareYumReposMount
<1>5. CASE InjectBuildinfo(b)
  BY <1>5, <1>pc DEF InjectBuildinfo
<1>6. CASE BuildImage(b)
  BY <1>6, <1>pc DEF BuildImage
<1>7. CASE FromImage(b)
  BY <1>7, <1>pc DEF FromImage
<1>8. CASE ScanImage(b)
  BY <1>8, <1>pc DEF ScanImage
<1>9. CASE PushImage(b)
  BY <1>9, <1>pc DEF PushImage
<1>10. CASE Report(b)
  BY <1>10, <1>pc DEF Report
<1>11. CASE Fail(b)
  BY <1>11, <1>pc DEF Fail
<1>12. CASE RemoveWorkdir(b)
  BY <1>12, <1>pc DEF RemoveWorkdir
<1>13. CASE RemoveOutside(b)
  BY <1>13, <1>pc DEF RemoveOutside
<1>14. CASE Kill(b)
  BY <1>14, <1>pc DEF Kill
<1>15. CASE \E e \in Builds \union {"prefetched"} : CopyEntry(b, e)
  BY <1>15, <1>pc DEF CopyEntry
<1> QED
  BY <1>1, <1>2, <1>3, <1>4, <1>5, <1>6, <1>7, <1>8, <1>9, <1>10, <1>11, <1>12, <1>13, <1>14,
     <1>15 DEF Step, RegistrationStep

(* The registration stays the one of the last build that registered, or of *)
(* nobody, or of the owner of the host.                                    *)
LEMMA RegistrationInvStep ==
    ASSUME TypeOK, AllFit, RegistrationInv, NEW b \in Builds, Step(b) \/ Kill(b)
    PROVE  RegistrationInv'
<1>1. ASSUME NEW o \in Builds \ {b} PROVE Kept(o)
  BY OthersKept
<1>2. UNCHANGED params
  BY DEF Step, Prepare, MakeCopyDir, CopyEntry, IntegrateWithPrefetch, PrepareYumReposMount,
         RegisterRHSM, RegisterRHSMFails, GatherRHSMResources, InjectBuildinfo, BuildImage,
         FromImage, ScanImage, PushImage, Report, Fail, RemoveWorkdir, RemoveOutside,
         Unregister, Kill
<1>3. /\ pc'[b] # "start" /\ excused[b] \subseteq excused'[b]
      /\ pc'[b] = "end" => Unregister(b)
  BY CleanupOrder
<1>4. ASSUME NEW o \in Builds, OtherRegisters(o) PROVE OtherRegisters(o)'
  BY <1>1, <1>2, <1>3, <1>4 DEF OtherRegisters, Kept
<1>5. ASSUME NEW o \in Builds \ {b}, params[b].rhsm = "preregister" PROVE OtherRegisters(o)'
  BY <1>2, <1>3, <1>5 DEF OtherRegisters
<1>6. b \notin {"nobody", "owner"}
  BY BuildRunAssumption
<1>7. CASE RegisterRHSM(b)
  <2>1. /\ registration' = b /\ b \in registered' /\ pc'[b] = "gather"
        /\ params[b].rhsm = "preregister" /\ UNCHANGED certs
    BY <1>7 DEF RegisterRHSM, Goto, TypeOK, AllFit, BuildFits, RolesFit
  <2> QED
    BY <1>1, <1>2, <1>4, <1>5, <2>1 DEF RegistrationInv, Kept
<1>8. CASE RegisterRHSMFails(b)
  <2>1. /\ registration' \in {registration, "nobody", b} /\ pc'[b] = "remove workdir"
        /\ params[b].rhsm = "preregister" /\ UNCHANGED <<certs, registered>>
    BY <1>8 DEF RegisterRHSMFails, Goto, TypeOK, AllFit, BuildFits, RolesFit, rhsm
  <2>2. registration' = b => "registration" \in excused'[b]
    BY <1>8 DEF RegisterRHSMFails, TypeOK
  <2> QED
    BY <1>1, <1>2, <1>4, <1>5, <1>6, <2>1, <2>2, BuildRunAssumption DEF RegistrationInv, Kept
<1>9. CASE Unregister(b)
  <2>1. /\ pc'[b] = "end" /\ UNCHANGED <<certs, registered>>
        /\ b \notin registered => registration' = registration /\ excused' = excused
    BY <1>9 DEF Unregister, Goto, TypeOK
  <2>2. b \in registered => registration' = "nobody" \/ "registration" \in excused'[b]
    <3>1. b \in registered => \/ registration' = "nobody"
                              \/ excused' = [excused EXCEPT ![b] = @ \union {"registration"}]
      BY <1>9 DEF Unregister
    <3>2. excused \in [Builds -> SUBSET Leftovers]
      BY DEF TypeOK
    <3> QED
      BY <3>1, <3>2
  <2>3. registration' \in {registration, "nobody"}
    BY <1>9 DEF Unregister
  <2>4. b \in registered => params[b].rhsm = "preregister"
    BY DEF AllFit, BuildFits, RolesFit
  <2>5. registration' = b => "registration" \in excused'[b]
    BY <1>6, <2>1, <2>2, <2>3 DEF RegistrationInv
  <2>6. ASSUME NEW o \in Builds \ {b}, params[o].rhsm = "preregister"
        PROVE  /\ pc'[o] = "gather" => registration' = o \/ OtherRegisters(o)'
               /\ pc'[o] \in {"inject", "build"} => certs'[o] = o \/ OtherRegisters(o)'
    BY <1>1, <1>4, <1>5, <2>1, <2>4, <2>6 DEF RegistrationInv, Kept
  <2>7. ASSUME NEW o \in Builds \ {b}, registration' = o
        PROVE  registration = o
    BY <2>3, <2>7, BuildRunAssumption
  <2> QED
    BY <1>1, <1>2, <2>1, <2>5, <2>6, <2>7 DEF RegistrationInv, Kept
<1>10. CASE GatherRHSMResources(b)
  <2>1. pc[b] = "gather" /\ pc'[b] = "inject" /\ UNCHANGED <<registration, registered>>
    BY <1>10 DEF GatherRHSMResources, Goto, TypeOK
  <2>2. params[b].rhsm = "preregister" => certs'[b] = registration
    BY <1>10 DEF GatherRHSMResources, TypeOK
  <2> QED
    BY <1>1, <1>2, <1>3, <1>4, <2>1, <2>2 DEF RegistrationInv, Kept
<1>11. CASE ~RegistrationStep(b) /\ ~GatherRHSMResources(b)
  <2>1. /\ UNCHANGED <<registration, registered, certs>>
        /\ pc'[b] # "end" /\ pc'[b] # "inject"
        /\ pc'[b] = "gather" => params[b].rhsm # "preregister"
        /\ pc'[b] = "build" => pc[b] = "inject"
    BY <1>11, OtherStepsKeepRegistration
  <2> QED
    BY <1>1, <1>2, <1>3, <1>4, <2>1 DEF RegistrationInv, Kept
<1> QED
  BY <1>7, <1>8, <1>9, <1>10, <1>11 DEF RegistrationStep

(* In every reachable state the registration is accounted for.             *)
LEMMA AlwaysRegistrationInv == Spec => []RegistrationInv
<1>1. Init => RegistrationInv
  BY BuildRunAssumption DEF Init, RegistrationInv
<1>2. TypeOK /\ AllFit /\ RegistrationInv /\ [Next]_vars => RegistrationInv'
  <2>1. ASSUME RegistrationInv, UNCHANGED vars PROVE RegistrationInv'
    BY <2>1 DEF vars, rhsm, RegistrationInv, OtherRegisters
  <2> QED
    BY <2>1, RegistrationInvStep DEF Next, Terminated
<1> QED
  BY <1>1, <1>2, TypeCorrect, AlwaysFit, PTL DEF Spec

(* A pre-registering build mounts the certificates of its own              *)
(* registration, unless another pre-registering build was started.         *)
THEOREM EntitlementsAreOwn == Spec => []OwnEntitlements
<1>1. RegistrationInv => OwnEntitlements
  BY DEF RegistrationInv, OtherRegisters, OwnEntitlements
<1> QED
  BY <1>1, AlwaysRegistrationInv, PTL

(* A build that returns, at whatever step it failed and whatever the other *)
(* builds on the host do, leaves nothing of its own behind that it could   *)
(* remove.                                                                 *)
THEOREM NothingIsLeft == Spec => []NothingLeft
<1>1. AllFit /\ CopyOwned /\ RegistrationInv => NothingLeft
  <2> SUFFICES ASSUME AllFit, CopyOwned, RegistrationInv PROVE NothingLeft
    OBVIOUS
  <2>1. ASSUME NEW b \in Builds, pc[b] = "end"
        PROVE  /\ workdir[b] # {} => "workdir" \in excused[b]
               /\ b \in containers => "container" \in excused[b]
               /\ registration = b => "registration" \in excused[b]
    BY <2>1 DEF AllFit, BuildFits, CleanupFits, RegistrationInv
  <2>2. ASSUME NEW n \in DOMAIN copies, copies[n] # {}
        PROVE  \E b \in outside : CopyName(b) = n /\ (pc[b] # "end" \/ "copy" \in excused[b])
    BY <2>2 DEF CopyOwned
  <2> QED
    BY <2>1, <2>2 DEF NothingLeft
<1> QED
  BY <1>1, AlwaysFit, CopiesAlwaysOwned, AlwaysRegistrationInv, PTL
================================================================================
