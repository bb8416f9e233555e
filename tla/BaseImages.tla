------------------------------- MODULE BaseImages -------------------------------
(***************************************************************************)
(* The base images of a build (pkg/commands/build.go): prePullBaseImages   *)
(* finds the images that the target stages of a containerfile need and     *)
(* pulls them, verifyBaseImageArchitectures inspects what was pulled, and  *)
(* injectBuildinfo reads the labels of the final stage's base image.       *)
(* A hermetic build has no network: what is not pulled here is missing.    *)
(*                                                                         *)
(* The queue of stages, the images to pull and the references of a stage   *)
(* are sets: their order decides in which order images are pulled, never   *)
(* which.                                                                  *)
(***************************************************************************)
EXTENDS Integers

CONSTANTS Refs,            \* what FROM, COPY --from and RUN --mount=from may name
          Atoi,            \* the number a reference is, or -1
          Pullable,        \* isPullableImage: not of an unsupported transport
          StoredAs,        \* the name of a reference in the local storage
          Archs,           \* the architectures a registry has for a name
          HostArch,
          Containerfiles,  \* the parsed containerfiles to build
          ParamSet         \* the parameters a build may be started with

Names == {StoredAs[r] : r \in Refs}
AllArchs == {HostArch} \union UNION {Archs[nm] : nm \in Names}
Images == [ref: Refs, platform: AllArchs \union {""}]

(* A parsed containerfile: the stages 0..last.  The parser resolves FROM   *)
(* to an earlier stage or to an image.                                     *)
Stage == [name: Refs \union {""}, from: {"stage", "image", "scratch"}, stage: Nat, image: Images,
          refs: SUBSET Refs]

(* Of Build.Params: Target, SkipUnusedStages, AllowCrossPlatformImages,    *)
(* SkipInjections, InheritLabels; and whether buildah is at least 1.44.0.  *)
ASSUME BaseImagesAssumption ==
    /\ "" \notin Refs
    /\ Atoi \in [Refs -> Int]
    /\ Pullable \in [Refs -> BOOLEAN]
    /\ StoredAs \in [Refs -> Names]
    /\ "none" \notin AllArchs
    /\ \A df \in Containerfiles :
          /\ df.last \in Nat
          /\ df.stages \in [0..df.last -> Stage]
          /\ \A i \in 0..df.last : df.stages[i].from = "stage" => df.stages[i].stage \in 0..(i - 1)
    /\ ParamSet \subseteq [target: Refs \union {""}, skipUnused: BOOLEAN, allowCross: BOOLEAN,
                           inject: BOOLEAN, inheritLabels: BOOLEAN, newBuildah: BOOLEAN]

VARIABLES df, params,
          pc,
          stagesToProcess, stagesSeen, images,   \* collectBaseImages
          current, refs,     \* the stage in process and its references still to be looked at
          todo,              \* images still to be pulled, or to be verified
          pulled,            \* pulledImages
          storage,           \* local storage: the architecture stored under a name, or "none"
          failure            \* why run() returned an error, or ""

collecting == <<stagesToProcess, stagesSeen, images, current, refs>>
pulling == <<todo, pulled, storage>>
vars == <<df, params, pc, collecting, pulling, failure>>

Indexes == 0..df.last

Init == /\ df \in Containerfiles
        /\ params \in ParamSet
        /\ pc = "select"
        /\ stagesToProcess = {} /\ stagesSeen = {} /\ images = {}
        /\ current = 0 /\ refs = {}
        /\ todo = {} /\ pulled = {}
        /\ storage \in [Names -> {"none"}]
        /\ failure = ""

Goto(step) == pc' = step /\ UNCHANGED failure
Error(why) == pc' = "error" /\ failure' = why

--------------------------------------------------------------------------------
(* A mutant of FindMatchingStages: numbers before names.                   *)
FindMatchingStagesIndexFirst(bound, ref) ==
    LET named == {i \in 0..(bound - 1) : df.stages[i].name = ref}
    IN  IF Atoi[ref] \in 0..(bound - 1) THEN {Atoi[ref]} ELSE named

(* findMatchingStages among the stages before bound: by name, else by      *)
(* number; none means that ref is not a stage.                             *)
FindMatchingStages(bound, ref) ==
    LET named == {i \in 0..(bound - 1) : df.stages[i].name = ref}
    IN  IF named # {} THEN named
        ELSE {i \in 0..(bound - 1) : i = Atoi[ref]}

(* prePullBaseImages: buildah 1.44.0 builds every stage the target names,  *)
(* earlier versions the first.                                             *)
TargetStages ==
    LET matching == FindMatchingStages(df.last + 1, params.target)
    IN  IF params.target = "" THEN {df.last}
        ELSE IF params.newBuildah THEN matching
        ELSE {i \in matching : \A j \in matching : i <= j}

(* collectBaseImages starts from the targets, or from all the stages up to *)
(* the last target.                                                        *)
StagesOfInterest == IF params.skipUnused THEN TargetStages
                    ELSE {i \in Indexes : \E t \in TargetStages : i <= t}

SelectTarget ==
    /\ pc = "select"
    /\ IF TargetStages = {}
       THEN Error("target not found") /\ UNCHANGED <<stagesToProcess, stagesSeen>>
       ELSE /\ stagesToProcess' = StagesOfInterest
            /\ stagesSeen' = StagesOfInterest
            /\ Goto("collect")
    /\ UNCHANGED <<df, params, images, current, refs, pulling>>

(* enqueue, with the stage that was taken from the queue out of it. *)
Enqueue(taken, stages) ==
    /\ stagesToProcess' = (stagesToProcess \ taken) \union (stages \ stagesSeen)
    /\ stagesSeen' = stagesSeen \union stages

(* A mutant of Conflicts: a reference is pulled for the platform that is   *)
(* seen first.                                                             *)
NeverConflicts(img) == FALSE

(* addImage: one reference may not be used with two platforms. *)
Conflicts(img) == \E i \in images : i.ref = img.ref /\ i.platform # img.platform

AddImage(img) ==
    IF Conflicts(img) THEN Error("conflicting platforms") /\ UNCHANGED images
    ELSE /\ images' = IF \E i \in images : i.ref = img.ref THEN images ELSE images \union {img}
         /\ Goto(pc)

(* One round of the loop: the stage's FROM. *)
TakeStage(i) ==
    LET stage == df.stages[i]
    IN  /\ pc = "collect"
        /\ refs = {}
        /\ i \in stagesToProcess
        /\ current' = i
        /\ refs' = stage.refs
        /\ Enqueue({i}, IF stage.from = "stage" THEN {stage.stage} ELSE {})
        /\ IF stage.from = "image" THEN AddImage(stage.image) ELSE Goto(pc) /\ UNCHANGED images
        /\ UNCHANGED <<df, params, pulling>>

(* The round goes on: a reference in the stage's commands. *)
TakeRef(r) ==
    LET stages == FindMatchingStages(current, r)
    IN  /\ pc = "collect"
        /\ r \in refs
        /\ refs' = refs \ {r}
        /\ Enqueue({}, stages)
        /\ IF stages = {} THEN AddImage([ref |-> r, platform |-> ""]) ELSE Goto(pc) /\ UNCHANGED images
        /\ UNCHANGED <<df, params, current, pulling>>

Collected == /\ pc = "collect"
             /\ refs = {} /\ stagesToProcess = {}
             /\ todo' = images
             /\ Goto("pull")
             /\ UNCHANGED <<df, params, collecting, pulled, storage>>

--------------------------------------------------------------------------------
(* 'buildah pull': of a multi-arch name the image for the platform asked   *)
(* for, or for the host, if there is one; the only image of another name.  *)
ArchOf(img) ==
    LET archs == Archs[StoredAs[img.ref]]
        asked == IF img.platform = "" THEN HostArch ELSE img.platform
    IN  {a \in archs : a = asked \/ archs = {a}}

PullImage(img) ==
    /\ pc = "pull"
    /\ img \in todo
    /\ todo' = todo \ {img}
    /\ IF Pullable[img.ref]
       THEN /\ \E a \in ArchOf(img) : storage' = [storage EXCEPT ![StoredAs[img.ref]] = a]
            /\ pulled' = pulled \union {img}
       ELSE UNCHANGED <<storage, pulled>>
    /\ UNCHANGED <<df, params, pc, collecting, failure>>

AllPulled == /\ pc = "pull"
             /\ todo = {}
             /\ todo' = pulled
             /\ Goto("verify")
             /\ UNCHANGED <<df, params, collecting, pulled, storage>>

(* A mutant of WrongArch: an image with a --platform is taken at its word. *)
WrongArchOfPlatform(img) == img.platform = "" /\ storage[StoredAs[img.ref]] # HostArch

WrongArch(img) == storage[StoredAs[img.ref]] # HostArch

(* verifyBaseImageArchitectures *)
VerifyImage(img) ==
    /\ pc = "verify"
    /\ img \in todo
    /\ todo' = todo \ {img}
    /\ IF WrongArch(img) /\ ~params.allowCross THEN Error("architecture") ELSE Goto(pc)
    /\ UNCHANGED <<df, params, collecting, pulled, storage>>

AllVerified == /\ pc = "verify"
               /\ todo = {}
               /\ Goto(IF params.inject /\ params.target = "" THEN "inject" ELSE "build")
               /\ UNCHANGED <<df, params, collecting, pulling>>

(* A mutant of BaseStage: the base stage is the first one. *)
FirstStage == 0

(* processUntilBaseStage: from the final stage along FROM. *)
BaseStage == LET base[i \in Indexes] == IF df.stages[i].from = "stage" THEN base[df.stages[i].stage] ELSE i
             IN  base[df.last]

(* determineFinalLabels: the labels of the base image are read from the    *)
(* local storage.                                                          *)
InjectBuildinfo ==
    LET stage == df.stages[BaseStage]
        ref == stage.image.ref
    IN  /\ pc = "inject"
        /\ IF params.inheritLabels /\ stage.from = "image" /\ Pullable[ref] /\ storage[StoredAs[ref]] = "none"
           THEN Error("no base image") ELSE Goto("build")
        /\ UNCHANGED <<df, params, collecting, pulling>>

(* A command fails. *)
Fail == /\ pc \in {"pull", "verify", "inject"}
        /\ Error("command")
        /\ UNCHANGED <<df, params, collecting, pulling>>

Step == \/ SelectTarget \/ (\E i \in Indexes : TakeStage(i)) \/ (\E r \in Refs : TakeRef(r)) \/ Collected
        \/ (\E img \in todo : PullImage(img) \/ VerifyImage(img)) \/ AllPulled \/ AllVerified
        \/ InjectBuildinfo \/ Fail

Terminated == pc \in {"build", "error"} /\ UNCHANGED vars

Spec == Init /\ [][Step \/ Terminated]_vars

--------------------------------------------------------------------------------
(* What the build reads, in the containerfile's own terms.                 *)

(* ref in stage i refers to stage j: an earlier stage of that name, or the *)
(* stage of that number if no earlier stage has the name.                  *)
RefersTo(i, ref, j) == /\ j < i
                       /\ \/ df.stages[j].name = ref
                          \/ Atoi[ref] = j /\ \A k \in 0..(i - 1) : df.stages[k].name # ref

Reads(i, j) == \/ df.stages[i].from = "stage" /\ df.stages[i].stage = j
               \/ \E r \in df.stages[i].refs : RefersTo(i, r, j)

(* The stages a build reads are the least set with the stages it starts    *)
(* from that is closed under Reads.                                        *)
Closed(S) == /\ StagesOfInterest \subseteq S
             /\ \A i \in S, j \in Indexes : Reads(i, j) => j \in S
NeededStages == {i \in Indexes : \A S \in SUBSET Indexes : Closed(S) => i \in S}

ReadsImage(i, img) ==
    \/ df.stages[i].from = "image" /\ img = df.stages[i].image
    \/ \E r \in df.stages[i].refs : /\ img = [ref |-> r, platform |-> ""]
                                    /\ \A j \in Indexes : ~RefersTo(i, r, j)
NeededImages == LET needed == NeededStages
                IN  {img \in Images : \E i \in needed : ReadsImage(i, img)}

--------------------------------------------------------------------------------
(* The state of the build has its type. *)
TypeOK == /\ df.last \in Nat /\ df.stages \in [Indexes -> Stage]
          /\ params \in ParamSet
          /\ pc \in {"select", "collect", "pull", "verify", "inject", "build", "error"}
          /\ stagesToProcess \subseteq Indexes /\ stagesSeen \subseteq Indexes
          /\ images \subseteq Images
          /\ current \in Indexes /\ refs \subseteq Refs
          /\ todo \subseteq Images /\ pulled \subseteq Images
          /\ storage \in [Names -> AllArchs \union {"none"}]

(* collectBaseImages finds the images that the stages needed for the       *)
(* target read, through any chain of FROM, COPY --from and RUN --mount,    *)
(* and no other: a hermetic build misses nothing, and no image that a      *)
(* skipped stage uses is pulled.                                           *)
CollectsWhatIsNeeded == pc \in {"pull", "verify", "inject", "build"} => images = NeededImages

(* When buildah starts, every image the build reads that can be pulled is  *)
(* in the local storage, in the variant asked for in its FROM: no later    *)
(* pull has replaced it, unless two spellings of one name were used.       *)
PulledAsAsked ==
    LET needed == NeededImages
    IN  pc = "build" =>
            \A img \in needed : Pullable[img.ref] =>
                \/ storage[StoredAs[img.ref]] \in ArchOf(img)
                \/ /\ storage[StoredAs[img.ref]] # "none"
                   /\ \E o \in needed : o.ref # img.ref /\ StoredAs[o.ref] = StoredAs[img.ref]

(* Unless cross-platform images are allowed, no build starts with a base   *)
(* image of another architecture, whatever platform its FROM names.        *)
NoEmulation ==
    pc = "build" /\ ~params.allowCross =>
        \A img \in NeededImages : Pullable[img.ref] => storage[StoredAs[img.ref]] = HostArch

(* The base image whose labels injectBuildinfo reads has been pulled:      *)
(* collectBaseImages and processUntilBaseStage agree on the base image.    *)
LabelsFromPulledBase == failure # "no base image"
================================================================================
