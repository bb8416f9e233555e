------------------------------- MODULE ImageIndex -------------------------------
(***************************************************************************)
(* BuildImageIndex.Run (pkg/commands/build_image_index.go) followed, as in *)
(* a Konflux pipeline, by ApplyTags.Run (pkg/commands/apply_tags.go) on    *)
(* the digest it reported.  Several runs share a registry with the         *)
(* repository of the index and the repository of the platform images,      *)
(* whose tags may move and whose unreachable manifests may be collected.   *)
(*                                                                         *)
(* A digest is the content it identifies: a manifest is its own digest.    *)
(***************************************************************************)
EXTENDS Sequences, Functions

CONSTANTS Runs, Hosts, Tags,
          PlatformImages,   \* the manifests of the platform repository
          PlatformTags,     \* the tags of the platform repository
          ParamSet          \* the parameters a run may be started with

IndexRepo == "index repo"
PlatformRepo == "platform repo"
Formats == {"oci", "docker"}

(* Of the parameters of both commands: Image (its tag), Images (each a tag *)
(* or a digest of the platform repository), AlwaysBuildIndex,              *)
(* AdditionalTags, BuildahFormat, NewTags, the tags in the label of the    *)
(* image, which may be invalid (none when no label is named, it is empty   *)
(* or the image has no labels); and the host, whose storage is used.       *)
References == [by: {"tag"}, id: PlatformTags] \union [by: {"digest"}, id: PlatformImages]

(* The images of the platform repository: an architecture and the format   *)
(* of the manifest each.                                                   *)
AllImages == UNION {m.images : m \in PlatformImages}

ASSUME ImageIndexAssumption ==
    /\ \A p \in ParamSet :
          /\ p.host \in Hosts /\ p.image \in Tags /\ p.format \in Formats
          /\ p.always \in BOOLEAN
          /\ p.additionalTags \in Seq(Tags) /\ p.newTags \in Seq(Tags)
          /\ p.label \in Seq(Tags \union {"not a tag"})
          /\ p.images \in Seq(References) /\ p.images # <<>>
    /\ PlatformImages \subseteq [kind: {"image", "index"}, images: SUBSET AllImages]
    /\ \A i \in AllImages : i = [arch |-> i.arch, format |-> i.format] /\ i.format \in Formats

--------------------------------------------------------------------------------
(* A manifest: an image of one platform, or an index of such images. *)
Image(i) == [kind |-> "image", images |-> {i}]
Index(is) == [kind |-> "index", images |-> is]
NoManifest == [kind |-> "none", images |-> {}]

Children(m) == IF m.kind = "index" THEN {Image(i) : i \in m.images} ELSE {}

VARIABLES params,
          holds,      \* registry: the pairs <<repository, manifest>> it has
          tag,        \* registry: the manifest of each <<repository, tag>>
          local,      \* the manifest list of each <<host, tag>>, or NoManifest
          pc,
          todo,       \* what the current loop has yet to do
          inspected,  \* manifestJson
          digest,     \* imageDigest
          images,     \* the images reported
          indexed,    \* the runs whose BuildImageIndex.Run succeeded
          tagged,     \* the runs whose ApplyTags.Run succeeded
          moved       \* history: the pairs <<tag, manifest>> each run has set

registry == <<holds, tag>>
vars == <<params, registry, local, pc, todo, inspected, digest, images, indexed, tagged, moved>>

Init == /\ params \in [Runs -> ParamSet]
        /\ holds = UNION {{<<PlatformRepo, m>>} \union {<<PlatformRepo, c>> : c \in Children(m)} : m \in PlatformImages}
        /\ \E named \in [PlatformTags -> PlatformImages] :
              tag = [n \in {IndexRepo, PlatformRepo} \X (Tags \union PlatformTags) |->
                        IF n[1] = PlatformRepo /\ n[2] \in PlatformTags THEN named[n[2]] ELSE NoManifest]
        /\ local = [n \in Hosts \X Tags |-> NoManifest]
        /\ pc = [r \in Runs |-> "create"]
        /\ todo = [r \in Runs |-> params[r].images]
        /\ inspected = [r \in Runs |-> NoManifest]
        /\ digest = [r \in Runs |-> NoManifest]
        /\ images = [r \in Runs |-> {}]
        /\ indexed = {} /\ tagged = {}
        /\ moved = [r \in Runs |-> {}]

ManifestName(r) == <<params[r].host, params[r].image>>
Goto(r, step) == pc' = [pc EXCEPT ![r] = step]

--------------------------------------------------------------------------------
(* buildManifestIndex.                                                     *)

Single(r) == ~params[r].always /\ Len(params[r].images) = 1

(* 'manifest create' fails when the name is in use; the list is never      *)
(* removed again.                                                          *)
ManifestCreate(r) ==
    /\ pc[r] = "create"
    /\ local[ManifestName(r)] = NoManifest
    /\ local' = [local EXCEPT ![ManifestName(r)] = Index({})]
    /\ Goto(r, IF Single(r) THEN "single" ELSE "add")
    /\ UNCHANGED <<params, registry, todo, inspected, digest, images, indexed, tagged, moved>>

(* A single image is reported as it is, without an index: its digest is    *)
(* the one in the reference, empty for a reference by tag (which then      *)
(* names no manifest in images either).                                    *)
ReturnSingle(r) ==
    LET ref == params[r].images[1]
    IN  /\ pc[r] = "single"
        /\ digest' = [digest EXCEPT ![r] = IF ref.by = "digest" THEN ref.id ELSE NoManifest]
        /\ images' = [images EXCEPT ![r] = IF ref.by = "digest" THEN {ref.id} ELSE {}]
        /\ indexed' = indexed \union {r}
        /\ Goto(r, "label")
        /\ UNCHANGED <<params, registry, local, todo, inspected, tagged, moved>>

(* What a reference names in the platform repository. *)
Resolve(ref) == IF ref.by = "digest" THEN ref.id ELSE tag[<<PlatformRepo, ref.id>>]

(* 'manifest add --all' adds the image, or every image of an index. *)
ManifestAdd(r) ==
    LET m == Resolve(Head(todo[r]))
    IN  /\ pc[r] = "add"
        /\ \A c \in {m} \union Children(m) : <<PlatformRepo, c>> \in holds
        /\ local' = [local EXCEPT ![ManifestName(r)] = Index(@.images \union m.images)]
        /\ todo' = [todo EXCEPT ![r] = Tail(@)]
        /\ Goto(r, IF Tail(todo[r]) = <<>> THEN "inspect" ELSE "add")
        /\ UNCHANGED <<params, registry, inspected, digest, images, indexed, tagged, moved>>

(* A mutant of FormatsConsistent: docker images go unnoticed. *)
FormatsUnchecked(m, format) == TRUE

(* validateFormatConsistency *)
FormatsConsistent(m, format) == \A i \in m.images : i.format = format

Inspect(r) ==
    /\ pc[r] = "inspect"
    /\ FormatsConsistent(local[ManifestName(r)], params[r].format)
    /\ inspected' = [inspected EXCEPT ![r] = local[ManifestName(r)]]
    /\ todo' = [todo EXCEPT ![r] = <<params[r].image>> \o params[r].additionalTags]
    /\ Goto(r, "push")
    /\ UNCHANGED <<params, registry, local, digest, images, indexed, tagged, moved>>

(* 'manifest push --all --format' copies the images to the repository of   *)
(* the index, in the format asked for.                                     *)
Pushed(r) == Index({[i EXCEPT !.format = params[r].format] : i \in local[ManifestName(r)].images})

(* A mutant of Put: only the index is pushed. *)
PutIndexOnly(r, t, m) ==
    /\ holds' = holds \union {<<IndexRepo, m>>}
    /\ tag' = [tag EXCEPT ![<<IndexRepo, t>>] = m]
    /\ moved' = [moved EXCEPT ![r] = @ \union {<<t, m>>}]

Put(r, t, m) ==
    /\ \A c \in Children(local[ManifestName(r)]) : \E repo \in {IndexRepo, PlatformRepo} : <<repo, c>> \in holds
    /\ holds' = holds \union {<<IndexRepo, c>> : c \in {m} \union Children(m)}
    /\ tag' = [tag EXCEPT ![<<IndexRepo, t>>] = m]
    /\ moved' = [moved EXCEPT ![r] = @ \union {<<t, m>>}]

(* A push goes through the retry layer (RetriedCall): it may take effect   *)
(* before an attempt that answers.                                         *)
PushLands(r) ==
    /\ pc[r] = "push"
    /\ Put(r, Head(todo[r]), Pushed(r))
    /\ UNCHANGED <<params, local, pc, todo, inspected, digest, images, indexed, tagged>>

ManifestPush(r) ==
    /\ pc[r] = "push"
    /\ Put(r, Head(todo[r]), Pushed(r))
    /\ digest' = [digest EXCEPT ![r] = IF @ = NoManifest THEN Pushed(r) ELSE @]
    /\ todo' = [todo EXCEPT ![r] = Tail(@)]
    /\ Goto(r, IF Tail(todo[r]) = <<>> THEN "results" ELSE "push")
    /\ UNCHANGED <<params, local, inspected, images, indexed, tagged>>

(* extractPlatformImages: the entries of the inspected list, as references *)
(* into the repository of the index.                                       *)
ExtractPlatformImages(m) == Children(m)

ReportIndex(r) ==
    /\ pc[r] = "results"
    /\ images' = [images EXCEPT ![r] = ExtractPlatformImages(inspected[r])]
    /\ indexed' = indexed \union {r}
    /\ Goto(r, "label")
    /\ UNCHANGED <<params, registry, local, todo, inspected, digest, tagged, moved>>

--------------------------------------------------------------------------------
(* ApplyTags, on the reported ImageURL and digest.                         *)

ResultRepo(r) == IF Single(r) THEN PlatformRepo ELSE IndexRepo

(* Results.ImageRef of BuildImageIndex: the repository of Params.Image with *)
(* the digest, for a single image of another repository too.               *)
ImageRef(r) == <<IndexRepo, digest[r]>>

Valid(ts) == Range(ts) \subseteq Tags

(* NewTags and the tags in the label, all valid. *)
TagsToApply(r, ts) == /\ Valid(params[r].label)
                      /\ ts = params[r].newTags \o params[r].label

(* validateParams asks for a digest; retrieveTagsFromImageLabel reads the  *)
(* manifest, and an image of an index for its labels (nothing is read when *)
(* no label is named).                                                     *)
ReadLabel(r) ==
    /\ pc[r] = "label"
    /\ digest[r] # NoManifest
    /\ params[r].label # <<>> =>
          /\ <<ResultRepo(r), digest[r]>> \in holds
          /\ digest[r].kind = "index" => \E c \in Children(digest[r]) : <<ResultRepo(r), c>> \in holds
    /\ \E ts \in {params[r].newTags \o params[r].label} :
          TagsToApply(r, ts) /\ todo' = [todo EXCEPT ![r] = ts]
    /\ Goto(r, "copy")
    /\ UNCHANGED <<params, registry, local, inspected, digest, images, indexed, tagged, moved>>

(* A mutant of Retag: the source is the tag of the index, not its digest. *)
RetagFromTag(r, t) ==
    LET m == tag[<<ResultRepo(r), params[r].image>>]
    IN  /\ m # NoManifest
        /\ tag' = [tag EXCEPT ![<<ResultRepo(r), t>>] = m]
        /\ moved' = [moved EXCEPT ![r] = @ \union {<<t, m>>}]
        /\ UNCHANGED holds

(* 'skopeo copy --multi-arch index-only' from the digest to a tag of the   *)
(* same repository; a registry refuses an index without its images.        *)
Retag(r, t) ==
    /\ <<ResultRepo(r), digest[r]>> \in holds
    /\ \A c \in Children(digest[r]) : <<ResultRepo(r), c>> \in holds
    /\ tag' = [tag EXCEPT ![<<ResultRepo(r), t>>] = digest[r]]
    /\ moved' = [moved EXCEPT ![r] = @ \union {<<t, digest[r]>>}]
    /\ UNCHANGED holds

CopyLands(r) ==
    /\ pc[r] = "copy" /\ todo[r] # <<>>
    /\ Retag(r, Head(todo[r]))
    /\ UNCHANGED <<params, local, pc, todo, inspected, digest, images, indexed, tagged>>

CopyTag(r) ==
    /\ pc[r] = "copy" /\ todo[r] # <<>>
    /\ Retag(r, Head(todo[r]))
    /\ todo' = [todo EXCEPT ![r] = Tail(@)]
    /\ UNCHANGED <<params, local, pc, inspected, digest, images, indexed, tagged>>

ReportTags(r) ==
    /\ pc[r] = "copy" /\ todo[r] = <<>>
    /\ tagged' = tagged \union {r}
    /\ Goto(r, "end")
    /\ UNCHANGED <<params, registry, local, todo, inspected, digest, images, indexed, moved>>

--------------------------------------------------------------------------------
(* A command fails (or its process is killed: neither command undoes       *)
(* anything), and the pipeline stops.                                      *)
Fail(r) == /\ pc[r] # "end"
           /\ Goto(r, "end")
           /\ UNCHANGED <<params, registry, local, todo, inspected, digest, images, indexed, tagged,
                          moved>>

(* Another build pushes its image to a tag of the platform repository. *)
MovePlatformTag == /\ \E t \in PlatformTags, m \in PlatformImages :
                        /\ holds' = holds \union {<<PlatformRepo, c>> : c \in {m} \union Children(m)}
                        /\ tag' = [tag EXCEPT ![<<PlatformRepo, t>>] = m]
                   /\ UNCHANGED <<params, local, pc, todo, inspected, digest, images, indexed,
                                  tagged, moved>>

(* The registry may drop a manifest that no tag of its repository reaches. *)
Reachable(repo) == LET named == {tag[n] : n \in {n \in DOMAIN tag : n[1] = repo}}
                   IN  named \union UNION {Children(m) : m \in named}

Collect == /\ \E h \in holds : h[2] \notin Reachable(h[1]) /\ holds' = holds \ {h}
           /\ UNCHANGED <<params, tag, local, pc, todo, inspected, digest, images, indexed, tagged,
                          moved>>

Step(r) == \/ ManifestCreate(r) \/ ReturnSingle(r) \/ ManifestAdd(r) \/ Inspect(r)
           \/ PushLands(r) \/ ManifestPush(r) \/ ReportIndex(r)
           \/ ReadLabel(r) \/ CopyLands(r) \/ CopyTag(r) \/ ReportTags(r) \/ Fail(r)

Terminated == (\A r \in Runs : pc[r] = "end") /\ UNCHANGED vars

Next == (\E r \in Runs : Step(r)) \/ MovePlatformTag \/ Collect \/ Terminated

Spec == Init /\ [][Next]_vars

--------------------------------------------------------------------------------
Converted == {[i EXCEPT !.format = f] : i \in AllImages, f \in Formats}
Manifests == [kind: {"image", "index", "none"}, images: SUBSET Converted]

(* Registry, local storage and the state of the runs have their types. *)
TypeOK ==
    /\ params \in [Runs -> ParamSet]
    /\ holds \subseteq {IndexRepo, PlatformRepo} \X Manifests
    /\ tag \in [{IndexRepo, PlatformRepo} \X (Tags \union PlatformTags) -> Manifests]
    /\ local \in [Hosts \X Tags -> Manifests]
    /\ pc \in [Runs -> {"create", "single", "add", "inspect", "push", "results", "label", "copy", "end"}]
    /\ DOMAIN todo = Runs
    /\ inspected \in [Runs -> Manifests]
    /\ digest \in [Runs -> Manifests]
    /\ images \in [Runs -> SUBSET Manifests]
    /\ indexed \subseteq Runs /\ tagged \subseteq Runs
    /\ moved \in [Runs -> SUBSET (Tags \X Manifests)]

IndexTags(r) == Range(<<params[r].image>> \o params[r].additionalTags)

(* A run that built an index and reports success has pushed that index to  *)
(* all its tags, the reference it reports is that of the index, and the    *)
(* images it reports are the images of the index, as they are in its       *)
(* repository; a run that applied tags applied all.                        *)
ResultsTrue ==
    \A r \in Runs :
        /\ r \in indexed /\ ~Single(r) =>
              /\ ImageRef(r) = <<ResultRepo(r), digest[r]>>
              /\ images[r] = Children(digest[r])
              /\ \A t \in IndexTags(r) : <<t, digest[r]>> \in moved[r]
        /\ r \in tagged =>
              \A t \in Range(params[r].newTags) \union Range(params[r].label) :
                  <<t, digest[r]>> \in moved[r]

(* All the tags one run sets name the same manifest, although other runs   *)
(* move the same tags between its steps.                                   *)
OneManifestPerRun == \A r \in Runs : \A p, q \in moved[r] : p[2] = q[2]

(* No tag names a manifest that is incomplete in its repository, whatever  *)
(* fails, is retried or is collected.                                      *)
NoDanglingTags ==
    \A n \in DOMAIN tag : tag[n] # NoManifest =>
        \A m \in {tag[n]} \union Children(tag[n]) : <<n[1], m>> \in holds
================================================================================
