-------------------------------- MODULE BuildRun --------------------------------
(***************************************************************************)
(* Build.run (pkg/commands/build.go): the steps of 'image build' in order, *)
(* for several builds on one host.  The builds share the prefetch          *)
(* directory, in which each puts its copy, and the host's registration     *)
(* with the subscription manager.  Any step may fail, which runs the       *)
(* deferred clean-up; a build may also be killed, which does not.          *)
(*                                                                         *)
(* A directory is the set of its entries, with "." for the directory       *)
(* itself: {} is a directory that does not exist.                          *)
(***************************************************************************)
EXTENDS FiniteSets

CONSTANTS Builds,
          ParamSet      \* the parameters a build may be started with

(* Of Build.Params: PrefetchDir and PrefetchDirCopy; yumRepos for either   *)
(* source of .repo files (YumReposDSources, or a prefetch with rpms); the  *)
(* RHSM options; SkipInjections and Target; SyftImageOutput; Push.         *)
ASSUME BuildRunAssumption ==
    /\ ParamSet \subseteq
         [prefetch: {"none", "default copy", "fixed copy"}, yumRepos: BOOLEAN,
          rhsm: {"none", "entitlements", "self-register", "preregister"},
          inject: BOOLEAN, syft: BOOLEAN, push: BOOLEAN]
    /\ Builds \intersect {"fixed", "nobody", "owner", ".", "prefetched"} = {}

VARIABLES params,
          prefetchEnv,    \* which env files the prefetch directory holds
          secretEnvMounts,\* is the host's buildah at least 1.44.0?
          pc,             \* the step each build is at
          workdir,        \* tempWorkdir
          edits,          \* what was edited into the containerfile copy
          copies,         \* the copies of the prefetch directory, by name
          listing,        \* what the walk of the prefetch directory has yet to visit
          outside,        \* the builds with a path in tempFilesOutsideWorkdir
          secrets,        \* the builds that pass the prefetch env as secrets
          volumes,        \* buildahVolumes
          registration,   \* whose registration the host has
          registered,     \* registeredWithRHSM
          certs,          \* whose entitlement certificates the build mounts
          containers,     \* working containers of the syft scan
          built, pushed,  \* the builds that have built and pushed their image
          printed,        \* the builds that have printed their results
          excused         \* history: what a build could not clean up, and why

host == <<prefetchEnv, secretEnvMounts>>
prefetching == <<copies, listing, outside>>
rhsm == <<registration, registered, certs>>
image == <<containers, built, pushed, printed>>
vars == <<params, host, pc, workdir, edits, prefetching, secrets, volumes, rhsm, image, excused>>

EnvFiles == {"prefetch.env", "prefetch-env.json"}

Init == /\ params \in [Builds -> ParamSet]
        /\ prefetchEnv \in SUBSET EnvFiles
        /\ secretEnvMounts \in BOOLEAN
        /\ pc = [b \in Builds |-> "start"]
        /\ workdir = [b \in Builds |-> {}]
        /\ edits = [b \in Builds |-> {}]
        /\ copies = [n \in Builds \union {"fixed"} |-> {}]
        /\ listing = [b \in Builds |-> {}]
        /\ outside = {}
        /\ secrets = {}
        /\ volumes = [b \in Builds |-> {}]
        /\ registration \in {"nobody", "owner"}
        /\ registered = {}
        /\ certs = [b \in Builds |-> "nobody"]
        /\ containers = {} /\ built = {} /\ pushed = {} /\ printed = {}
        /\ excused = [b \in Builds |-> {}]

Ended(b) == pc[b] \in {"end", "killed"}
Goto(b, step) == pc' = [pc EXCEPT ![b] = step]

--------------------------------------------------------------------------------
(* Checking the parameters, and the prefetch directory.                    *)

CopyName(b) == IF params[b].prefetch = "fixed copy" THEN "fixed" ELSE b

(* validateParams: the path of a copy must not exist yet. *)
ValidParams(b) == params[b].prefetch = "fixed copy" => copies["fixed"] = {}

(* The parameters are validated, buildah and the containerfile are         *)
(* detected, labels and secret directories are processed.                  *)
Prepare(b) ==
    /\ pc[b] = "start"
    /\ ValidParams(b)
    /\ Goto(b, IF params[b].prefetch = "none" THEN "yum repos" ELSE "make copy")
    /\ UNCHANGED <<params, host, workdir, edits, prefetching, secrets, volumes, rhsm, image,
                   excused>>

(* A mutant of MakeCopyDir: the path is registered for removal before it   *)
(* is known to be this build's.                                            *)
MakeCopyDirTracked(b) ==
    /\ pc[b] = "make copy"
    /\ outside' = outside \union {b}
    /\ IF copies[CopyName(b)] = {}
       THEN /\ copies' = [copies EXCEPT ![CopyName(b)] = {"."}]
            /\ listing' = [listing EXCEPT ![b] =
                              {"prefetched"} \union {o \in Builds \ {b} : copies[o] # {}}]
            /\ Goto(b, "walk")
       ELSE /\ Goto(b, "remove workdir")
            /\ UNCHANGED <<copies, listing>>
    /\ UNCHANGED <<params, host, workdir, edits, secrets, volumes, rhsm, image, excused>>

(* copyPrefetchDir: make the directory (a default copy is a new directory  *)
(* inside the prefetch directory; Mkdir of a fixed path that exists        *)
(* fails), then list what the walk is to visit: all but the copy itself.   *)
MakeCopyDir(b) ==
    /\ pc[b] = "make copy"
    /\ copies[CopyName(b)] = {}
    /\ copies' = [copies EXCEPT ![CopyName(b)] = {"."}]
    /\ outside' = outside \union {b}
    /\ listing' = [listing EXCEPT ![b] =
                      {"prefetched"} \union {o \in Builds \ {b} : copies[o] # {}}]
    /\ Goto(b, "walk")
    /\ UNCHANGED <<params, host, workdir, edits, secrets, volumes, rhsm, image, excused>>

(* The walk copies an entry; one that is gone by now is an error. *)
CopyEntry(b, e) ==
    /\ pc[b] = "walk"
    /\ e \in listing[b]
    /\ e \in Builds => copies[e] # {}
    /\ copies' = [copies EXCEPT ![CopyName(b)] = @ \union {e}]
    /\ listing' = [listing EXCEPT ![b] = @ \ {e}]
    /\ UNCHANGED <<params, host, pc, workdir, edits, outside, secrets, volumes, rhsm, image,
                   excused>>

(* A mutant of EnsureContainerfileCopied: every step copies the original   *)
(* anew.                                                                   *)
CopyContainerfileAgain(b) == {}

(* ensureContainerfileCopied: the edits the copy has when it is returned. *)
EnsureContainerfileCopied(b) == IF "containerfile" \in workdir[b] THEN edits[b] ELSE {}

(* How the prefetch environment reaches the build: as secrets              *)
(* (setPrefetchEnvSecrets) if buildah can mount them, else by edited RUN   *)
(* instructions (injectPrefetchEnvToContainerfile).                        *)
PrefetchEnvVia == IF "prefetch-env.json" \in prefetchEnv /\ secretEnvMounts THEN "secret"
                  ELSE IF "prefetch.env" \in prefetchEnv THEN "file"
                  ELSE "none"

(* integrateWithPrefetch, once the copy is complete: mount its output and  *)
(* pass its environment.                                                   *)
IntegrateWithPrefetch(b) ==
    /\ pc[b] = "walk"
    /\ listing[b] = {}
    /\ volumes' = [volumes EXCEPT ![b] = @ \union {"prefetched"}]
    /\ secrets' = IF PrefetchEnvVia = "secret" THEN secrets \union {b} ELSE secrets
    /\ edits' = [edits EXCEPT ![b] =
                    IF PrefetchEnvVia = "file" THEN EnsureContainerfileCopied(b) \union {"env"} ELSE @]
    /\ workdir' = [workdir EXCEPT ![b] =
                      @ \union CASE PrefetchEnvVia = "secret" -> {".", "env secrets"}
                                 [] PrefetchEnvVia = "file" -> {".", "containerfile"}
                                 [] PrefetchEnvVia = "none" -> {}]
    /\ Goto(b, "yum repos")
    /\ UNCHANGED <<params, host, prefetching, rhsm, image, excused>>

PrepareYumReposMount(b) ==
    /\ pc[b] = "yum repos"
    /\ Goto(b, IF params[b].rhsm = "preregister" THEN "register" ELSE "gather")
    /\ IF params[b].yumRepos
       THEN /\ workdir' = [workdir EXCEPT ![b] = @ \union {".", "yum.repos.d"}]
            /\ volumes' = [volumes EXCEPT ![b] = @ \union {"yum.repos.d"}]
       ELSE UNCHANGED <<workdir, volumes>>
    /\ UNCHANGED <<params, host, edits, prefetching, secrets, rhsm, image, excused>>

--------------------------------------------------------------------------------
(* integrateWithRHSM.                                                      *)

(* registerRHSM, with --force: the host is unregistered first. *)
RegisterRHSM(b) ==
    /\ pc[b] = "register"
    /\ registration' = b
    /\ registered' = registered \union {b}
    /\ Goto(b, "gather")
    /\ UNCHANGED <<params, host, workdir, edits, prefetching, secrets, volumes, certs, image,
                   excused>>

(* The command answers with an error (RetriedCall) after none, the first   *)
(* half or all of its effect.                                              *)
RegisterRHSMFails(b) ==
    /\ pc[b] = "register"
    /\ registration' \in {registration, "nobody", b}
    /\ excused' = [excused EXCEPT ![b] = IF registration' = b THEN @ \union {"registration"} ELSE @]
    /\ Goto(b, "remove workdir")
    /\ UNCHANGED <<params, host, workdir, edits, prefetching, secrets, volumes, registered, certs,
                   image>>

(* gatherRHSMresources: copies of the certificates go to the workdir. *)
GatherRHSMResources(b) ==
    /\ pc[b] = "gather"
    /\ Goto(b, "inject")
    /\ IF params[b].rhsm = "none"
       THEN UNCHANGED <<workdir, volumes, certs>>
       ELSE /\ workdir' = [workdir EXCEPT ![b] = @ \union {".", "rhsm"}]
            /\ volumes' = [volumes EXCEPT ![b] = @ \union {"rhsm"}]
            /\ certs' = [certs EXCEPT ![b] =
                            IF params[b].rhsm = "preregister" THEN registration ELSE @]
    /\ UNCHANGED <<params, host, edits, prefetching, secrets, registration, registered, image,
                   excused>>

--------------------------------------------------------------------------------
(* Building, scanning and pushing the image.                               *)

(* After the base images are pulled and verified: injectBuildinfo. *)
InjectBuildinfo(b) ==
    /\ pc[b] = "inject"
    /\ Goto(b, "build")
    /\ IF params[b].inject
       THEN /\ workdir' = [workdir EXCEPT ![b] = @ \union {".", "buildinfo", "containerfile"}]
            /\ edits' = [edits EXCEPT ![b] = EnsureContainerfileCopied(b) \union {"buildinfo"}]
       ELSE UNCHANGED <<workdir, edits>>
    /\ UNCHANGED <<params, host, prefetching, secrets, volumes, rhsm, image, excused>>

BuildImage(b) ==
    /\ pc[b] = "build"
    /\ built' = built \union {b}
    /\ Goto(b, IF params[b].syft THEN "scan" ELSE "push")
    /\ UNCHANGED <<params, host, workdir, edits, prefetching, secrets, volumes, rhsm, containers,
                   pushed, printed, excused>>

(* runSyftScans: buildah from, then mount and scan with the removal of the *)
(* working container deferred.                                             *)
FromImage(b) ==
    /\ pc[b] = "scan"
    /\ containers' = containers \union {b}
    /\ Goto(b, "scanning")
    /\ UNCHANGED <<params, host, workdir, edits, prefetching, secrets, volumes, rhsm, built, pushed,
                   printed, excused>>

(* A mutant of ScanImage: a failed scan returns before the removal. *)
ScanImageNoDefer(b) ==
    /\ pc[b] = "scanning"
    /\ \/ Goto(b, "push") /\ containers' = containers \ {b}
       \/ Goto(b, "remove workdir") /\ UNCHANGED containers
    /\ UNCHANGED <<params, host, workdir, edits, prefetching, secrets, volumes, rhsm, built, pushed,
                   printed, excused>>

ScanImage(b) ==
    /\ pc[b] = "scanning"
    /\ Goto(b, "push") \/ Goto(b, "remove workdir")
    /\ \/ containers' = containers \ {b} /\ UNCHANGED excused
       \/ excused' = [excused EXCEPT ![b] = @ \union {"container"}] /\ UNCHANGED containers
    /\ UNCHANGED <<params, host, workdir, edits, prefetching, secrets, volumes, rhsm, built, pushed,
                   printed>>

(* pushImage (module ImagePush) *)
PushImage(b) ==
    /\ pc[b] = "push"
    /\ pushed' = IF params[b].push THEN pushed \union {b} ELSE pushed
    /\ Goto(b, "report")
    /\ UNCHANGED <<params, host, workdir, edits, prefetching, secrets, volumes, rhsm, containers,
                   built, printed, excused>>

(* Buildprobe and the builder scan only log their errors; the requested    *)
(* files are written, then the results are printed.                        *)
Report(b) ==
    /\ pc[b] = "report"
    /\ printed' = printed \union {b}
    /\ Goto(b, "remove workdir")
    /\ UNCHANGED <<params, host, workdir, edits, prefetching, secrets, volumes, rhsm, containers,
                   built, pushed, excused>>

--------------------------------------------------------------------------------
(* Errors, the deferred cleanup, kills.                                    *)

Cleaning == {"remove workdir", "remove copy", "unregister"}

(* A step returns an error; one that writes to the workdir may have made   *)
(* the directory by then (ensureTempWorkdirExists).                        *)
Fail(b) ==
    /\ pc[b] \notin Cleaning \union {"end", "killed", "scanning", "register"}
    /\ \/ UNCHANGED workdir
       \/ /\ pc[b] \in {"walk", "yum repos", "gather", "inject"}
          /\ workdir' = [workdir EXCEPT ![b] = @ \union {"."}]
    /\ Goto(b, "remove workdir")
    /\ UNCHANGED <<params, host, edits, prefetching, secrets, volumes, rhsm, image,
                   excused>>

(* cleanup, part 1; a failed removal is only logged. *)
RemoveWorkdir(b) ==
    /\ pc[b] = "remove workdir"
    /\ \/ workdir' = [workdir EXCEPT ![b] = {}] /\ UNCHANGED excused
       \/ excused' = [excused EXCEPT ![b] = @ \union {"workdir"}] /\ UNCHANGED workdir
    /\ Goto(b, "remove copy")
    /\ UNCHANGED <<params, host, edits, prefetching, secrets, volumes, rhsm, image>>

(* Part 2: the paths outside the workdir. *)
RemoveOutside(b) ==
    /\ pc[b] = "remove copy"
    /\ IF b \in outside
       THEN \/ copies' = [copies EXCEPT ![CopyName(b)] = {}] /\ UNCHANGED excused
            \/ excused' = [excused EXCEPT ![b] = @ \union {"copy"}] /\ UNCHANGED copies
       ELSE UNCHANGED <<copies, excused>>
    /\ Goto(b, "unregister")
    /\ UNCHANGED <<params, host, workdir, edits, listing, outside, secrets, volumes, rhsm, image>>

(* A mutant of Unregister: the host is unregistered by builds that did not *)
(* register it.                                                            *)
UnregisterAlways(b) ==
    /\ pc[b] = "unregister"
    /\ registration' = "nobody"
    /\ Goto(b, "end")
    /\ UNCHANGED <<params, host, workdir, edits, prefetching, secrets, volumes, registered, certs,
                   image, excused>>

(* Part 3: Unregister, best effort. *)
Unregister(b) ==
    /\ pc[b] = "unregister"
    /\ IF b \in registered
       THEN \/ registration' = "nobody" /\ UNCHANGED excused
            \/ excused' = [excused EXCEPT ![b] = @ \union {"registration"}] /\ UNCHANGED registration
       ELSE UNCHANGED <<registration, excused>>
    /\ Goto(b, "end")
    /\ UNCHANGED <<params, host, workdir, edits, prefetching, secrets, volumes, registered, certs,
                   image>>

Kill(b) == /\ pc[b] \notin {"start", "end", "killed"}
           /\ Goto(b, "killed")
           /\ UNCHANGED <<params, host, workdir, edits, prefetching, secrets, volumes, rhsm, image,
                          excused>>

Step(b) == \/ Prepare(b) \/ MakeCopyDir(b) \/ (\E e \in Builds \union {"prefetched"} : CopyEntry(b, e))
           \/ IntegrateWithPrefetch(b) \/ PrepareYumReposMount(b)
           \/ RegisterRHSM(b) \/ RegisterRHSMFails(b) \/ GatherRHSMResources(b)
           \/ InjectBuildinfo(b) \/ BuildImage(b) \/ FromImage(b) \/ ScanImage(b)
           \/ PushImage(b) \/ Report(b) \/ Fail(b)
           \/ RemoveWorkdir(b) \/ RemoveOutside(b) \/ Unregister(b)

Terminated == (\A b \in Builds : Ended(b)) /\ UNCHANGED vars

Next == (\E b \in Builds : Step(b) \/ Kill(b)) \/ Terminated

Spec == Init /\ [][Next]_vars

--------------------------------------------------------------------------------
Steps == {"start", "make copy", "walk", "yum repos", "register", "gather", "inject", "build",
          "scan", "scanning", "push", "report", "end", "killed"} \union Cleaning

Files == {".", "env secrets", "containerfile", "yum.repos.d", "rhsm", "buildinfo"}
Mounts == {"prefetched", "yum.repos.d", "rhsm"}
Leftovers == {"workdir", "copy", "container", "registration"}

(* The state of the builds and of the host has its type. *)
TypeOK ==
    /\ params \in [Builds -> ParamSet]
    /\ prefetchEnv \subseteq EnvFiles /\ secretEnvMounts \in BOOLEAN
    /\ pc \in [Builds -> Steps]
    /\ workdir \in [Builds -> SUBSET Files]
    /\ edits \in [Builds -> SUBSET {"env", "buildinfo"}]
    /\ copies \in [Builds \union {"fixed"} -> SUBSET (Builds \union {".", "prefetched"})]
    /\ listing \in [Builds -> SUBSET (Builds \union {"prefetched"})]
    /\ volumes \in [Builds -> SUBSET Mounts]
    /\ registration \in Builds \union {"nobody", "owner"}
    /\ certs \in [Builds -> Builds \union {"nobody", "owner"}]
    /\ outside \subseteq Builds /\ secrets \subseteq Builds /\ registered \subseteq Builds
    /\ containers \subseteq Builds /\ built \subseteq Builds /\ pushed \subseteq Builds
    /\ printed \subseteq Builds
    /\ excused \in [Builds -> SUBSET Leftovers]

(* A build that returns, at whatever step it failed, leaves no temporary   *)
(* directory, prefetch copy, working container or registration of its own  *)
(* behind, unless the removal itself failed or the register command        *)
(* answered with an error after it had taken effect.                       *)
NothingLeft ==
    /\ \A b \in Builds : pc[b] = "end" =>
          /\ workdir[b] # {} => "workdir" \in excused[b]
          /\ b \in containers => "container" \in excused[b]
          /\ registration = b => "registration" \in excused[b]
    /\ \A n \in DOMAIN copies : copies[n] # {} =>
          \E b \in outside : CopyName(b) = n /\ (pc[b] # "end" \/ "copy" \in excused[b])

(* What a build hands to buildah to mount is there when buildah starts: no *)
(* clean-up of another build has removed it, even when both were told to   *)
(* use the same path for their copy.                                       *)
MountsExist ==
    \A b \in Builds : pc[b] = "build" =>
        /\ "prefetched" \in volumes[b] => "prefetched" \in copies[CopyName(b)]
        /\ volumes[b] \ {"prefetched"} \subseteq workdir[b]
        /\ b \in secrets => "env secrets" \in workdir[b]

(* The containerfile buildah reads carries every edit the earlier steps    *)
(* made: the prefetch environment reaches the build exactly once (as       *)
(* secrets or in the RUN instructions) whenever buildah can take one of    *)
(* the files, and the injection of the buildinfo does not undo it.         *)
BuildSeesEdits ==
    \A b \in Builds : pc[b] = "build" =>
        /\ "buildinfo" \in edits[b] <=> params[b].inject
        /\ ~(b \in secrets /\ "env" \in edits[b])
        /\ params[b].prefetch # "none" /\ ("prefetch.env" \in prefetchEnv \/ (prefetchEnv # {} /\ secretEnvMounts)) =>
              b \in secrets \/ "env" \in edits[b]
        /\ edits[b] # {} => "containerfile" \in workdir[b]

(* The entitlement certificates a pre-registering build mounts are those   *)
(* of its own registration, unless another pre-registering build was       *)
(* started on the same host.                                               *)
OwnEntitlements ==
    \A b \in Builds :
        pc[b] = "build" /\ params[b].rhsm = "preregister" =>
            \/ certs[b] = b
            \/ \E o \in Builds \ {b} : params[o].rhsm = "preregister" /\ pc[o] # "start"
================================================================================
