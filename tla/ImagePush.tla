------------------------------- MODULE ImagePush -------------------------------
(***************************************************************************)
(* Build.pushImage (pkg/commands/build.go): concurrent builds that push to *)
(* one repository of a registry, in a single compression format or as a    *)
(* dual-compression index, with the temporary tags, the local index in the *)
(* containers storage of the host, failed and lost replies, builds that    *)
(* are killed, and a registry that collects manifests no tag reaches.      *)
(*                                                                         *)
(* A digest is the content it identifies: a manifest is its own digest.    *)
(***************************************************************************)
EXTENDS Integers, Sequences, Functions

CONSTANTS Builds,             \* the builds (one process each)
          Hosts, Tags, Suffixes,
          ParamSet            \* the parameters a build may be started with

Formats == {"gzip", "zstd"}

(* Of Build.Params: the tag of OutputRef, AdditionalTags,                  *)
(* CompressionFormat, whether IndexManifestOutput is set; and the host,    *)
(* whose containers storage the build uses.                                *)
ASSUME ImagePushAssumption ==
    /\ ParamSet \subseteq [host: Hosts, outputTag: Tags, additionalTags: Seq(Tags),
                           compression: Formats \union {"dual"},
                           indexManifestOutput: BOOLEAN]
    /\ "no build" \notin Builds

--------------------------------------------------------------------------------
(* Manifests.                                                              *)

Entry(b, f, zstdAnnotation) == [build |-> b, format |-> f, zstd |-> zstdAnnotation]
Image(b, f) == [kind |-> "image", entries |-> <<Entry(b, f, FALSE)>>]
Index(entries) == [kind |-> "index", entries |-> entries]
NoManifest == [kind |-> "none", entries |-> <<>>]

Children(m) == IF m.kind = "index"
               THEN {Image(e.build, e.format) : e \in {m.entries[i] : i \in DOMAIN m.entries}}
               ELSE {}

(* The index a dual push is meant to publish: gzip first, zstd annotated. *)
WholeIndex(b) == Index(<<Entry(b, "gzip", FALSE), Entry(b, "zstd", TRUE)>>)

--------------------------------------------------------------------------------
VARIABLES params,    \* Params of each build
          stored,    \* registry: the manifests it holds
          tag,       \* registry: the manifest of each tag
          tempTag,   \* registry: the manifest of each <tag>-<format>-<suffix>
          local,     \* each host's local index of that name, or NoManifest
          pc,        \* where each build is
          suffix,    \* dualPushSuffix() of each build
          todo,      \* the tags still to be pushed
          outcome,   \* "none", then "ok", "error" or "refused" (a step could not succeed)
          results,   \* the digest and the images each build reports
          indexFile, \* the content of Params.IndexManifestOutput
          rmFailed,  \* the builds whose removal of the local index failed
          published  \* history: the tags each build has set

registry == <<stored, tag, tempTag>>
vars == <<params, registry, local, pc, suffix, todo, outcome, results, indexFile, rmFailed, published>>

NoResults == [digest |-> NoManifest, images |-> <<>>]

TagsToPush(b) == <<params[b].outputTag>> \o params[b].additionalTags
TagsOf(b) == Range(TagsToPush(b))

Init == /\ params \in [Builds -> ParamSet]
        /\ stored = {}
        /\ tag = [t \in Tags |-> NoManifest]
        /\ tempTag = [n \in Tags \X Formats \X Suffixes |-> NoManifest]
        /\ local = [n \in Hosts \X Tags \X Suffixes |-> NoManifest]
        /\ pc = [b \in Builds |-> "idle"]
        /\ suffix \in [Builds -> Suffixes]
        /\ todo = [b \in Builds |-> TagsToPush(b)]
        /\ outcome = [b \in Builds |-> "none"]
        /\ results = [b \in Builds |-> NoResults]
        /\ indexFile = [b \in Builds |-> NoManifest]
        /\ rmFailed = {}
        /\ published = [b \in Builds |-> {}]

Ended(b) == pc[b] \in {"end", "killed"}
Active(b) == pc[b] # "idle" /\ ~Ended(b)

(* A mutant of TempTag: the random suffix is left out. *)
TempTagFixed(b, f) == <<params[b].outputTag, f, CHOOSE s \in Suffixes : TRUE>>

TempTag(b, f) == <<params[b].outputTag, f, suffix[b]>>

(* A mutant of PerArchIndex: the random suffix is left out. *)
PerArchIndexFixed(b) == <<params[b].host, params[b].outputTag, CHOOSE s \in Suffixes : TRUE>>

(* localhost/kbc-dual-index-<hash of OutputRef>-<suffix> *)
PerArchIndex(b) == <<params[b].host, params[b].outputTag, suffix[b]>>

(* The image under OutputRef in the host's storage belongs to one build at *)
(* a time: pods do not share storage, a rerun follows the run before it.   *)
Begin(b) ==
    /\ pc[b] = "idle"
    /\ \A o \in Builds : ~(Active(o) /\ params[o].host = params[b].host /\ params[o].outputTag = params[b].outputTag)
    /\ pc' = [pc EXCEPT ![b] = IF params[b].compression = "dual" THEN "gzip" ELSE "single"]
    /\ UNCHANGED <<params, registry, local, suffix, todo, outcome, results, indexFile, rmFailed,
                   published>>

--------------------------------------------------------------------------------
(* Every push goes through the retry layer (RetriedCall): it may take      *)
(* effect any number of times before it answers.                           *)

(* The registry stores m and points tag t at it. *)
Put(b, t, m) == /\ stored' = stored \union {m}
                /\ tag' = [tag EXCEPT ![t] = m]
                /\ published' = [published EXCEPT ![b] = @ \union {t}]
                /\ UNCHANGED tempTag

(* A mutant of PutVariant: the variants go to the real tag. *)
PutVariantAtRealTag(b, f) == Put(b, params[b].outputTag, Image(b, f))

(* pushDualVariants: push the local image as this variant to its temporary *)
(* tag.                                                                    *)
PutVariant(b, f) == /\ stored' = stored \union {Image(b, f)}
                    /\ tempTag' = [tempTag EXCEPT ![TempTag(b, f)] = Image(b, f)]
                    /\ UNCHANGED <<tag, published>>

VariantLands(b) ==
    /\ pc[b] \in Formats
    /\ PutVariant(b, pc[b])
    /\ UNCHANGED <<params, local, pc, suffix, todo, outcome, results, indexFile, rmFailed>>

VariantPushed(b) ==
    /\ pc[b] \in Formats
    /\ PutVariant(b, pc[b])
    /\ pc' = [pc EXCEPT ![b] = IF @ = "gzip" THEN "zstd" ELSE "create"]
    /\ UNCHANGED <<params, local, suffix, todo, outcome, results, indexFile, rmFailed>>

--------------------------------------------------------------------------------
(* createPerArchIndex.                                                     *)

(* 'manifest create' fails when the name is in use. *)
CreateIndex(b) ==
    /\ pc[b] = "create"
    /\ local[PerArchIndex(b)] = NoManifest
    /\ local' = [local EXCEPT ![PerArchIndex(b)] = Index(<<>>)]
    /\ pc' = [pc EXCEPT ![b] = "add gzip"]
    /\ UNCHANGED <<params, registry, suffix, todo, outcome, results, indexFile, rmFailed, published>>

(* 'manifest add' reads the variant from the registry by its digest. *)
AddVariant(b, f) ==
    /\ pc[b] = IF f = "gzip" THEN "add gzip" ELSE "add zstd"
    /\ Image(b, f) \in stored
    /\ local' = [local EXCEPT ![PerArchIndex(b)].entries = Append(@, Entry(b, f, FALSE))]
    /\ pc' = [pc EXCEPT ![b] = IF f = "gzip" THEN "add zstd" ELSE "annotate"]
    /\ UNCHANGED <<params, registry, suffix, todo, outcome, results, indexFile, rmFailed, published>>

(* 'manifest annotate' of the zstd variant's entry. *)
Annotated(b, e) ==
    IF e.build = b /\ e.format = "zstd" THEN [e EXCEPT !.zstd = TRUE] ELSE e

Annotate(b) ==
    /\ pc[b] = "annotate"
    /\ local' = [local EXCEPT ![PerArchIndex(b)].entries = [i \in DOMAIN @ |-> Annotated(b, @[i])]]
    /\ pc' = [pc EXCEPT ![b] = IF params[b].indexManifestOutput THEN "inspect" ELSE "index"]
    /\ UNCHANGED <<params, registry, suffix, todo, outcome, results, indexFile, rmFailed, published>>

(* writeIndexManifest *)
WriteIndexManifest(b) ==
    /\ pc[b] = "inspect"
    /\ indexFile' = [indexFile EXCEPT ![b] = local[PerArchIndex(b)]]
    /\ pc' = [pc EXCEPT ![b] = "index"]
    /\ UNCHANGED <<params, registry, local, suffix, todo, outcome, results, rmFailed, published>>

--------------------------------------------------------------------------------
(* Pushing to the real tag and then to each additional tag.                *)

(* What a push of build b stores: the local index, whose children must be  *)
(* in the registry ('manifest push' copies them from there); the local     *)
(* image in the requested format; or, for an additional tag, the local     *)
(* image without compression flags, in that format or in the default one.  *)
Pushable(b) ==
    IF pc[b] = "index" THEN {m \in {local[PerArchIndex(b)]} : Children(m) \subseteq stored}
    ELSE IF todo[b] = TagsToPush(b) THEN {Image(b, params[b].compression)}
    ELSE {Image(b, params[b].compression), Image(b, "gzip")}

TagLands(b) ==
    /\ pc[b] \in {"index", "single"}
    /\ \E m \in Pushable(b) : Put(b, Head(todo[b]), m)
    /\ UNCHANGED <<params, local, pc, suffix, todo, outcome, results, indexFile, rmFailed>>

(* A mutant: additional tags are skipped when the first push is done. *)
RemainingTagsNone(ts) == <<>>

RemainingTags(ts) == Tail(ts)

(* The first push gives the digest of the build; after the last one the    *)
(* results are complete and the deferred removal of the local index runs.  *)
TagPushed(b) ==
    LET last == RemainingTags(todo[b]) = <<>>
        dual == pc[b] = "index"
    IN  /\ pc[b] \in {"index", "single"}
        /\ \E m \in Pushable(b) :
              /\ Put(b, Head(todo[b]), m)
              /\ results' = [results EXCEPT ![b] =
                     [digest |-> IF todo[b] = TagsToPush(b) THEN m ELSE @.digest,
                      images |-> IF last /\ dual
                                 THEN <<Image(b, "gzip"), Image(b, "zstd")>> ELSE @.images]]
        /\ todo' = [todo EXCEPT ![b] = RemainingTags(@)]
        /\ outcome' = [outcome EXCEPT ![b] = IF last THEN "ok" ELSE @]
        /\ pc' = [pc EXCEPT ![b] = IF ~last THEN @ ELSE IF dual THEN "rm" ELSE "end"]
        /\ UNCHANGED <<params, local, suffix, indexFile, rmFailed>>

--------------------------------------------------------------------------------
(* Errors, clean-up, kills and the registry's own housekeeping.            *)

(* A mutant of Stop: the clean-up is skipped while the index is filled. *)
StopWithoutCleanup(b, verdict) ==
    /\ outcome' = [outcome EXCEPT ![b] = verdict]
    /\ pc' = [pc EXCEPT ![b] = "end"]
    /\ UNCHANGED <<params, registry, local, suffix, todo, results, indexFile, rmFailed, published>>

(* A step answers with an error: the build fails, and once the local index *)
(* exists its removal is pending.                                          *)
Stop(b, verdict) ==
    /\ outcome' = [outcome EXCEPT ![b] = verdict]
    /\ pc' = [pc EXCEPT ![b] = IF @ \in Formats \union {"create", "single"}
                               THEN "end" ELSE "rm"]
    /\ UNCHANGED <<params, registry, local, suffix, todo, results, indexFile, rmFailed, published>>

(* Any step can fail (the network, the disk, the tool itself). *)
Fail(b) == Active(b) /\ pc[b] # "rm" /\ Stop(b, "error")

(* The name of the local index is in use, or a variant it needs is no      *)
(* longer in the registry: the step cannot but fail, however often it is   *)
(* retried.                                                                *)
Blocked(b) ==
    \/ pc[b] = "create" /\ local[PerArchIndex(b)] # NoManifest
    \/ pc[b] = "add gzip" /\ Image(b, "gzip") \notin stored
    \/ pc[b] = "add zstd" /\ Image(b, "zstd") \notin stored
    \/ pc[b] = "index" /\ Pushable(b) = {}

Refused(b) == Blocked(b) /\ Stop(b, "refused")

(* removePerArchIndex: a failure is only logged. *)
RemovePerArchIndex(b) ==
    /\ pc[b] = "rm"
    /\ \/ /\ local' = [local EXCEPT ![PerArchIndex(b)] = NoManifest]
          /\ UNCHANGED rmFailed
       \/ /\ rmFailed' = rmFailed \union {b}
          /\ UNCHANGED local
    /\ pc' = [pc EXCEPT ![b] = "end"]
    /\ UNCHANGED <<params, registry, suffix, todo, outcome, results, indexFile, published>>

(* The process is killed (the pod is evicted): no deferred call runs. *)
Kill(b) == /\ Active(b)
           /\ pc' = [pc EXCEPT ![b] = "killed"]
           /\ UNCHANGED <<params, registry, local, suffix, todo, outcome, results, indexFile,
                          rmFailed, published>>

(* The registry may drop a manifest that no tag reaches. *)
Tagged == {tag[t] : t \in Tags} \union {tempTag[n] : n \in DOMAIN tempTag}
Reachable == Tagged \union UNION {Children(m) : m \in Tagged}

Collect == /\ \E m \in stored \ Reachable : stored' = stored \ {m}
           /\ UNCHANGED <<params, tag, tempTag, local, pc, suffix, todo, outcome, results, indexFile,
                          rmFailed, published>>

(* A build goes on: the next step answers, or is refused. *)
Advance(b) == \/ Begin(b) \/ VariantPushed(b) \/ CreateIndex(b)
              \/ \E f \in Formats : AddVariant(b, f)
              \/ Annotate(b) \/ WriteIndexManifest(b) \/ TagPushed(b)
              \/ Refused(b) \/ RemovePerArchIndex(b)

Terminated == (\A b \in Builds : Ended(b)) /\ UNCHANGED vars

Next == \/ \E b \in Builds : Advance(b) \/ VariantLands(b) \/ TagLands(b) \/ Fail(b) \/ Kill(b)
        \/ Collect
        \/ Terminated

Spec == Init /\ [][Next]_vars

(* The retry loop of a push ends and local commands return: a build that   *)
(* can go on does.  Errors and kills may happen but need not.              *)
FairSpec == Spec /\ \A b \in Builds : WF_vars(Advance(b))

--------------------------------------------------------------------------------
Manifests == [kind: {"image", "index", "none"},
              entries: Seq([build: Builds, format: Formats, zstd: BOOLEAN])]

(* Registry, local storage and the state of the builds have their types. *)
TypeOK ==
    /\ params \in [Builds -> ParamSet]
    /\ stored \subseteq Manifests
    /\ tag \in [Tags -> Manifests]
    /\ tempTag \in [Tags \X Formats \X Suffixes -> Manifests]
    /\ local \in [Hosts \X Tags \X Suffixes -> Manifests]
    /\ pc \in [Builds -> {"idle", "gzip", "zstd", "create", "add gzip", "add zstd",
                          "annotate", "inspect", "index", "single", "rm", "end", "killed"}]
    /\ suffix \in [Builds -> Suffixes]
    /\ todo \in [Builds -> Seq(Tags)]
    /\ outcome \in [Builds -> {"none", "ok", "error", "refused"}]
    /\ results \in [Builds -> [digest: Manifests, images: Seq(Manifests)]]
    /\ indexFile \in [Builds -> Manifests]
    /\ rmFailed \subseteq Builds
    /\ published \in [Builds -> SUBSET Tags]

(* The real tags only ever point at the finished index of one dual build   *)
(* (both variants, gzip first, zstd annotated) or at the image of one      *)
(* single-format build, never at one variant or at a mixture of builds,    *)
(* whatever fails, is retried, is killed or runs at the same time.         *)
WholeImageOf(b) == IF params[b].compression = "dual" THEN {WholeIndex(b)}
                   ELSE {Image(b, f) : f \in Formats}

TagsNameWholeImages ==
    \A t \in Tags : \/ tag[t] = NoManifest
                    \/ \E b \in Builds : tag[t] \in WholeImageOf(b)

(* Between the push of a variant and the push of the index, the temporary  *)
(* tags keep the variants of a build from being collected, unless another  *)
(* build of the same tag drew the same random suffix.                      *)
SuffixShared(b) == \E o \in Builds \ {b} : /\ params[o].compression = "dual"
                                            /\ params[o].outputTag = params[b].outputTag
                                            /\ suffix[o] = suffix[b]

VariantsPushed(b) ==
    IF pc[b] = "zstd" THEN {"gzip"}
    ELSE IF pc[b] \in {"create", "add gzip", "add zstd", "annotate", "inspect", "index"}
    THEN Formats ELSE {}

VariantsAnchored ==
    \A b \in Builds : SuffixShared(b) \/ \A f \in VariantsPushed(b) : Image(b, f) \in stored

(* A dual build that reports success has published its own index under     *)
(* every tag; its digest, its images and its index manifest file agree on  *)
(* that index.                                                             *)
ResultsAgree ==
    \A b \in Builds : outcome[b] = "ok" =>
        /\ results[b].digest \in WholeImageOf(b)
        /\ published[b] = TagsOf(b)
        /\ params[b].compression = "dual" =>
              /\ Range(results[b].images) = Children(results[b].digest)
              /\ params[b].indexManifestOutput => indexFile[b] = results[b].digest

(* No build leaves its local index behind, whether it succeeds or fails at *)
(* any step, unless the removal itself failed or the process was killed.   *)
LocalIndexRemoved ==
    \A n \in DOMAIN local : local[n] # NoManifest =>
        \E b \in Builds : PerArchIndex(b) = n /\ (Active(b) \/ pc[b] = "killed" \/ b \in rmFailed)

(* Pushing implements PublishedTags: to the users of the repository a tag  *)
(* moves in one step from one complete image to another, and success means *)
(* that all tags were published.                                           *)
PT == INSTANCE PublishedTags WITH
        names <- [t \in Tags |->
                    IF tag[t] = NoManifest THEN "no build"
                    ELSE IF \E b \in Builds : tag[t] \in WholeImageOf(b)
                    THEN CHOOSE b \in Builds : tag[t] \in WholeImageOf(b)
                    ELSE "not an image"],
        wanted <- [b \in Builds |-> TagsOf(b)],
        reported <- {b \in Builds : outcome[b] = "ok"}

ImplementsPublishedTags == PT!Spec

(* A build meets with no refusal, unless it drew the random suffix of      *)
(* another build.                                                          *)
NeverRefused == \A b \in Builds : outcome[b] = "refused" => SuffixShared(b)

(* A build whose tools give no error and that is not killed succeeds in    *)
(* the end, whatever the other builds do, whatever a killed build has left *)
(* in the storage of the host and whatever the registry collects           *)
(* meanwhile: it does not wait in vain for another to end, no loop goes on *)
(* for ever, and no step is refused, unless suffixes collide.              *)
UndisturbedBuildsSucceed ==
    \A b \in Builds : <>(/\ Ended(b)
                         /\ pc[b] = "end" => outcome[b] # "none"
                         /\ outcome[b] = "refused" => SuffixShared(b))
================================================================================
