---------------------------- MODULE ImagePushProofs ----------------------------
(***************************************************************************)
(* Theorems about ImagePush for any number of builds, hosts, tags and      *)
(* suffixes.  The inductive invariants say, for each place a build can be  *)
(* at, what its local index holds, what it has published and what it has   *)
(* recorded; they rest on Exclusive: no two running builds share a local   *)
(* index.                                                                  *)
(***************************************************************************)
EXTENDS ImagePush, SequenceTheorems, TLAPS

(* The steps of a dual build, and those at which its local index exists. *)
Holding == {"add gzip", "add zstd", "annotate", "inspect", "index"}
DualSteps == {"gzip", "zstd", "create", "rm"} \union Holding

(* Builds that run at the same time on one host have different output      *)
(* tags, hence different local indexes.                                    *)
Exclusive ==
    \A b, o \in Builds :
        /\ Active(b) /\ Active(o)
        /\ params[b].host = params[o].host
        /\ params[b].outputTag = params[o].outputTag
        => b = o

(* Where a build is agrees with its parameters and with what is left. *)
StepFits(b) ==
    /\ pc[b] \in DualSteps => params[b].compression = "dual"
    /\ pc[b] = "single" => params[b].compression \in Formats
    /\ pc[b] \notin {"rm", "end", "killed"} => outcome[b] = "none" /\ todo[b] # <<>>
    /\ pc[b] = "rm" => outcome[b] # "none"

(* What the local index of a build holds at each step that uses it. *)
UnannotatedIndex(b) == Index(<<Entry(b, "gzip", FALSE), Entry(b, "zstd", FALSE)>>)

LocalFits(b) ==
    /\ pc[b] = "add gzip" => local[PerArchIndex(b)] = Index(<<>>)
    /\ pc[b] = "add zstd" => local[PerArchIndex(b)] = Index(<<Entry(b, "gzip", FALSE)>>)
    /\ pc[b] = "annotate" => local[PerArchIndex(b)] = UnannotatedIndex(b)
    /\ pc[b] \in {"inspect", "index"} => local[PerArchIndex(b)] = WholeIndex(b)

(* Every tag is published or still to be pushed; success leaves none. *)
TodoFits(b) ==
    /\ published[b] \union Range(todo[b]) = TagsOf(b)
    /\ outcome[b] = "ok" => todo[b] = <<>>

(* What a build has recorded once the first tag is pushed, and at the end. *)
ResultsFit(b) ==
    /\ todo[b] # TagsToPush(b) => results[b].digest \in WholeImageOf(b)
    /\ params[b].compression = "dual" =>
          /\ outcome[b] = "ok" => results[b].images = <<Image(b, "gzip"), Image(b, "zstd")>>
          /\ params[b].indexManifestOutput /\ (pc[b] = "index" \/ outcome[b] = "ok")
                => indexFile[b] = WholeIndex(b)

(* The temporary tags of a build still name its own variants. *)
Anchored(b) ==
    \/ SuffixShared(b)
    \/ \A f \in VariantsPushed(b) :
          Image(b, f) \in stored /\ tempTag[TempTag(b, f)] = Image(b, f)

(* A local index belongs to a build that will remove it or could not. *)
LocalOwned ==
    \A n \in DOMAIN local : local[n] # NoManifest =>
        \E b \in Builds : /\ PerArchIndex(b) = n
                          /\ pc[b] \in Holding \union {"rm", "killed"} \/ b \in rmFailed

--------------------------------------------------------------------------------
(* Types.                                                                  *)

LEMMA ManifestTypes ==
    ASSUME NEW b \in Builds, NEW f \in Formats
    PROVE  /\ Image(b, f) \in Manifests
           /\ Index(<<>>) \in Manifests
           /\ NoManifest \in Manifests
<1>1. <<Entry(b, f, FALSE)>> \in Seq([build: Builds, format: Formats, zstd: BOOLEAN])
  BY DEF Entry
<1>2. <<>> \in Seq([build: Builds, format: Formats, zstd: BOOLEAN])
  BY EmptySeq
<1>3. QED
  BY <1>1, <1>2 DEF Image, Index, NoManifest, Manifests

LEMMA ParamTypes ==
    ASSUME TypeOK, NEW b \in Builds
    PROVE  /\ params[b].host \in Hosts
           /\ params[b].outputTag \in Tags
           /\ params[b].compression \in Formats \union {"dual"}
           /\ TagsToPush(b) \in Seq(Tags) \ {<<>>}
           /\ PerArchIndex(b) \in Hosts \X Tags \X Suffixes
           /\ \A f \in Formats : TempTag(b, f) \in Tags \X Formats \X Suffixes
<1>1. params[b] \in [host: Hosts, outputTag: Tags, additionalTags: Seq(Tags),
                     compression: Formats \union {"dual"}, indexManifestOutput: BOOLEAN]
  BY ImagePushAssumption DEF TypeOK
<1>2. suffix[b] \in Suffixes
  BY DEF TypeOK
<1>3. params[b].additionalTags \in Seq(Tags) /\ <<params[b].outputTag>> \in Seq(Tags)
  BY <1>1
<1>4. TagsToPush(b) \in Seq(Tags) \ {<<>>}
  BY <1>3, ConcatProperties DEF TagsToPush
<1>5. QED
  BY <1>1, <1>2, <1>4 DEF PerArchIndex, TempTag

(* What a push stores is a manifest. *)
LEMMA PushableTypes ==
    ASSUME TypeOK, NEW b \in Builds, NEW m \in Pushable(b),
           pc[b] = "single" => params[b].compression \in Formats,
           pc[b] \in {"index", "single"}
    PROVE  m \in Manifests
<1>1. CASE pc[b] = "index"
  BY <1>1, ParamTypes, ZenonT(60) DEF Pushable, TypeOK
<1>2. CASE pc[b] = "single"
  BY <1>2, ManifestTypes DEF Pushable, Formats
<1>3. QED
  BY <1>1, <1>2

(* No step changes the parameters or the suffix of a build. *)
LEMMA ParamsFixed ==
    ASSUME [Next]_vars
    PROVE  params' = params /\ suffix' = suffix
  BY DEF Next, Advance, Begin, VariantPushed, CreateIndex, AddVariant, Annotate, WriteIndexManifest,
         TagPushed, Fail, Refused, Stop, RemovePerArchIndex, VariantLands, TagLands, Kill, Collect, Terminated,
         vars

TypesAndSteps == TypeOK /\ \A b \in Builds : StepFits(b)

LEMMA TypesAndStepsInductive == Spec => []TypesAndSteps
<1>1. ASSUME Init
      PROVE  TypesAndSteps
  <2>1. params \in [Builds -> ParamSet] /\ suffix \in [Builds -> Suffixes]
    BY <1>1 DEF Init
  <2>2. ASSUME NEW b \in Builds
        PROVE  TagsToPush(b) \in Seq(Tags) \ {<<>>}
    <3>0. params[b] \in [host: Hosts, outputTag: Tags, additionalTags: Seq(Tags),
                         compression: Formats \union {"dual"}, indexManifestOutput: BOOLEAN]
      BY <2>1, ImagePushAssumption
    <3>1. params[b].additionalTags \in Seq(Tags) /\ params[b].outputTag \in Tags
      BY <3>0
    <3>2. <<params[b].outputTag>> \in Seq(Tags)
      BY <3>1
    <3>3. QED
      BY <3>1, <3>2, ConcatProperties DEF TagsToPush
  <2>3. NoManifest \in Manifests
    BY EmptySeq DEF NoManifest, Manifests
  <2>4. NoResults \in [digest: Manifests, images: Seq(Manifests)]
    BY <2>3, EmptySeq DEF NoResults
  <2>5. todo \in [Builds -> Seq(Tags)]
    BY <1>1, <2>2 DEF Init
  <2>6. TypeOK
    BY <1>1, <2>1, <2>3, <2>4, <2>5 DEF Init, TypeOK
  <2>7. \A b \in Builds : StepFits(b)
    BY <1>1, <2>2 DEF Init, StepFits, DualSteps, Holding
  <2>8. QED
    BY <2>6, <2>7 DEF TypesAndSteps
<1>2. ASSUME TypesAndSteps, [Next]_vars
      PROVE  TypesAndSteps'
  <2>0. TypeOK /\ (\A b \in Builds : StepFits(b)) /\ params' = params
    BY <1>2, ParamsFixed DEF TypesAndSteps
  <2>1. ASSUME NEW b \in Builds, Begin(b) \/ Kill(b) \/ Fail(b) \/ Refused(b)
        PROVE  TypesAndSteps'
    <3>1. TypeOK'
      <4>1. CASE Begin(b)
        BY <2>0, <4>1 DEF TypeOK, Begin, registry
      <4>2. CASE Kill(b)
        BY <2>0, <4>2 DEF TypeOK, Kill, registry
      <4>3. CASE Fail(b) \/ Refused(b)
        BY <2>0, <4>3 DEF TypeOK, Fail, Refused, Stop, registry
      <4>4. QED
        BY <2>1, <4>1, <4>2, <4>3
    <3>2. params[b].compression \in Formats \union {"dual"}
      BY <2>0, ParamTypes
    <3>3. ASSUME NEW o \in Builds
          PROVE  StepFits(o)'
      <4>1. CASE o # b
        BY <2>0, <2>1, <4>1 DEF TypeOK, StepFits, Begin, Kill, Fail, Refused, Stop
      <4>2. CASE o = b /\ Begin(b)
        BY <2>0, <3>2, <4>2 DEF TypeOK, StepFits, Begin, DualSteps, Holding
      <4>3. CASE o = b /\ (Kill(b) \/ Fail(b) \/ Refused(b))
        BY <2>0, <4>3, ZenonT(60) DEF TypeOK, StepFits, Kill, Fail, Refused, Stop, Blocked, Active, Ended, DualSteps, Holding, Formats
      <4>4. QED
        BY <2>1, <4>1, <4>2, <4>3
    <3>4. QED
      BY <3>1, <3>3 DEF TypesAndSteps
  <2>2. ASSUME NEW b \in Builds, VariantPushed(b) \/ VariantLands(b)
        PROVE  TypesAndSteps'
    <3>1. Image(b, pc[b]) \in Manifests /\ TempTag(b, pc[b]) \in Tags \X Formats \X Suffixes
      BY <2>0, <2>2, ManifestTypes, ParamTypes DEF VariantPushed, VariantLands
    <3>2. TypeOK'
      BY <2>0, <2>2, <3>1 DEF TypeOK, VariantPushed, VariantLands, PutVariant, Formats
    <3>3. \A o \in Builds : StepFits(o)'
      BY <2>0, <2>2, ZenonT(60) DEF TypeOK, StepFits, VariantPushed, VariantLands, PutVariant, Formats,
         DualSteps, Holding
    <3>4. QED
      BY <3>2, <3>3 DEF TypesAndSteps
  <2>3. ASSUME NEW b \in Builds, CreateIndex(b)
        PROVE  TypesAndSteps'
    <3>1. TypeOK'
      BY <2>0, <2>3, ManifestTypes, ParamTypes DEF TypeOK, CreateIndex, registry, Formats
    <3>2. \A o \in Builds : StepFits(o)'
      BY <2>0, <2>3 DEF TypeOK, StepFits, CreateIndex, DualSteps, Holding
    <3>3. QED
      BY <3>1, <3>2 DEF TypesAndSteps
  <2>4. ASSUME NEW b \in Builds, NEW f \in Formats, AddVariant(b, f)
        PROVE  TypesAndSteps'
    <3>1. [local[PerArchIndex(b)] EXCEPT !.entries = Append(@, Entry(b, f, FALSE))] \in Manifests
      <4>1. local[PerArchIndex(b)] \in Manifests
        BY <2>0, ParamTypes DEF TypeOK
      <4>2. Entry(b, f, FALSE) \in [build: Builds, format: Formats, zstd: BOOLEAN]
        BY DEF Entry
      <4>3. QED
        BY <4>1, <4>2, AppendProperties DEF Manifests
    <3>2. TypeOK'
      BY <2>0, <2>4, <3>1 DEF TypeOK, AddVariant, registry
    <3>3. \A o \in Builds : StepFits(o)'
      BY <2>0, <2>4 DEF TypeOK, StepFits, AddVariant, DualSteps, Holding
    <3>4. QED
      BY <3>2, <3>3 DEF TypesAndSteps
  <2>5. ASSUME NEW b \in Builds, Annotate(b)
        PROVE  TypesAndSteps'
    <3> DEFINE m == local[PerArchIndex(b)]
               E == [build: Builds, format: Formats, zstd: BOOLEAN]
    <3>1. m \in Manifests
      BY <2>0, ParamTypes DEF TypeOK
    <3>2. m.entries \in Seq(E) /\ m \in [kind: {"image", "index", "none"}, entries: Seq(E)]
      BY <3>1 DEF Manifests
    <3>3. \A e \in E : Annotated(b, e) \in E
      BY DEF Annotated
    <3>4. [i \in DOMAIN m.entries |-> Annotated(b, m.entries[i])] \in Seq(E)
      <4>1. DOMAIN m.entries = 1 .. Len(m.entries) /\ Len(m.entries) \in Nat
        BY <3>2, LenProperties
      <4>2. \A i \in DOMAIN m.entries : m.entries[i] \in E
        BY <3>2, <4>1, ElementOfSeq
      <4>3. \A i \in 1 .. Len(m.entries) : Annotated(b, m.entries[i]) \in E
        BY <3>3, <4>1, <4>2
      <4>4. QED
        BY <4>1, <4>3, IsASeq
    <3>5. [m EXCEPT !.entries = [i \in DOMAIN @ |-> Annotated(b, @[i])]] \in Manifests
      BY <3>2, <3>4 DEF Manifests
    <3>6. local' \in [Hosts \X Tags \X Suffixes -> Manifests]
      BY <2>0, <2>5, <3>5 DEF TypeOK, Annotate
    <3>7. TypeOK'
      BY <2>0, <2>5, <3>6 DEF TypeOK, Annotate, registry
    <3>8. \A o \in Builds : StepFits(o)'
      BY <2>0, <2>5 DEF TypeOK, StepFits, Annotate, DualSteps, Holding
    <3>9. QED
      BY <3>7, <3>8 DEF TypesAndSteps
  <2>6. ASSUME NEW b \in Builds, WriteIndexManifest(b)
        PROVE  TypesAndSteps'
    <3>1. local[PerArchIndex(b)] \in Manifests
      BY <2>0, ParamTypes DEF TypeOK
    <3>2. QED
      BY <2>0, <2>6, <3>1 DEF TypesAndSteps, TypeOK, StepFits, WriteIndexManifest, DualSteps,
         Holding, registry
  <2>7. ASSUME NEW b \in Builds, TagPushed(b)
        PROVE  TypesAndSteps'
    <3>1. PICK m \in Pushable(b) :
              /\ Put(b, Head(todo[b]), m)
              /\ results' = [results EXCEPT ![b] =
                     [digest |-> IF todo[b] = TagsToPush(b) THEN m ELSE @.digest,
                      images |-> IF RemainingTags(todo[b]) = <<>> /\ pc[b] = "index"
                                 THEN <<Image(b, "gzip"), Image(b, "zstd")>> ELSE @.images]]
      BY <2>7 DEF TagPushed
    <3>2. m \in Manifests
      BY <2>0, <2>7, <3>1, PushableTypes DEF TagPushed, StepFits
    <3>3. todo[b] \in Seq(Tags) /\ todo[b] # <<>>
      BY <2>0, <2>7 DEF TypeOK, StepFits, TagPushed
    <3>4. Head(todo[b]) \in Tags /\ Tail(todo[b]) \in Seq(Tags)
      BY <3>3, HeadTailProperties
    <3>5. <<Image(b, "gzip"), Image(b, "zstd")>> \in Seq(Manifests)
      BY ManifestTypes DEF Formats
    <3>6. results' \in [Builds -> [digest: Manifests, images: Seq(Manifests)]]
      <4> DEFINE r == [digest |-> IF todo[b] = TagsToPush(b) THEN m ELSE results[b].digest,
                       images |-> IF RemainingTags(todo[b]) = <<>> /\ pc[b] = "index"
                                  THEN <<Image(b, "gzip"), Image(b, "zstd")>>
                                  ELSE results[b].images]
      <4>1. results \in [Builds -> [digest: Manifests, images: Seq(Manifests)]]
        BY <2>0 DEF TypeOK
      <4>2. r \in [digest: Manifests, images: Seq(Manifests)]
        BY <4>1, <3>2, <3>5
      <4>3. results' = [results EXCEPT ![b] = r]
        BY <4>1, <3>1
      <4>4. QED
        BY <4>1, <4>2, <4>3
    <3>7. TypeOK'
      <4>1. /\ (stored \subseteq Manifests)' /\ (tag \in [Tags -> Manifests])'
            /\ (published \in [Builds -> SUBSET Tags])'
        BY <2>0, <3>1, <3>2, <3>4 DEF TypeOK, Put
      <4>2. (todo \in [Builds -> Seq(Tags)])'
        BY <2>0, <2>7, <3>4 DEF TypeOK, TagPushed, RemainingTags
      <4>3. /\ (outcome \in [Builds -> {"none", "ok", "error", "refused"}])'
            /\ (pc \in [Builds -> {"idle", "gzip", "zstd", "create", "add gzip", "add zstd",
                                   "annotate", "inspect", "index", "single", "rm", "end", "killed"}])'
        BY <2>0, <2>7 DEF TypeOK, TagPushed
      <4>4. UNCHANGED <<params, local, suffix, indexFile, rmFailed, tempTag>>
        BY <2>7, <3>1 DEF TagPushed, Put
      <4>5. QED
        BY <2>0, <3>6, <4>1, <4>2, <4>3, <4>4 DEF TypeOK
    <3>8. \A o \in Builds : StepFits(o)'
      BY <2>0, <2>7, <3>1 DEF TypeOK, StepFits, TagPushed, Put, DualSteps, Holding
    <3>9. QED
      BY <3>7, <3>8 DEF TypesAndSteps
  <2>8. ASSUME NEW b \in Builds, TagLands(b)
        PROVE  TypesAndSteps'
    <3>1. PICK m \in Pushable(b) : Put(b, Head(todo[b]), m)
      BY <2>8 DEF TagLands
    <3>2. m \in Manifests
      BY <2>0, <2>8, <3>1, PushableTypes DEF TagLands, StepFits
    <3>3. Head(todo[b]) \in Tags
      BY <2>0, <2>8, HeadTailProperties DEF TypeOK, StepFits, TagLands
    <3>4. TypeOK'
      BY <2>0, <2>8, <3>1, <3>2, <3>3, ZenonT(60) DEF TypeOK, TagLands, Put
    <3>5. \A o \in Builds : StepFits(o)'
      BY <2>0, <2>8 DEF StepFits, TagLands
    <3>6. QED
      BY <3>4, <3>5 DEF TypesAndSteps
  <2>9. ASSUME NEW b \in Builds, RemovePerArchIndex(b)
        PROVE  TypesAndSteps'
    <3>1. NoManifest \in Manifests
      BY ManifestTypes, EmptySeq DEF NoManifest, Manifests
    <3>2. QED
      BY <2>0, <2>9, <3>1 DEF TypesAndSteps, TypeOK, StepFits, RemovePerArchIndex, registry,
         DualSteps, Holding
  <2>10. CASE Collect \/ Terminated \/ UNCHANGED vars
    BY <2>0, <2>10 DEF TypesAndSteps, TypeOK, StepFits, Collect, Terminated, vars, registry
  <2>11. QED
    BY <1>2, <2>1, <2>2, <2>3, <2>4, <2>5, <2>6, <2>7, <2>8, <2>9, <2>10 DEF Next, Advance
<1>3. QED
  BY <1>1, <1>2, PTL DEF Spec

(* The registry, the local storage and every build keep their types. *)
THEOREM TypeCorrect == Spec => []TypeOK
<1>1. TypesAndSteps => TypeOK
  BY DEF TypesAndSteps
<1>2. QED
  BY <1>1, TypesAndStepsInductive, PTL

--------------------------------------------------------------------------------
(* Local indexes.                                                          *)

LEMMA ExclusiveInductive == Spec => []Exclusive
<1>1. Init => Exclusive
  BY DEF Init, Exclusive, Active
<1>2. ASSUME TypeOK, Exclusive, [Next]_vars
      PROVE  Exclusive'
  <2>0. params' = params /\ suffix' = suffix
    BY <1>2, ParamsFixed
  <2>1. ASSUME NEW b \in Builds, Begin(b)
        PROVE  Exclusive'
    <3>1. ASSUME NEW o \in Builds, o # b
          PROVE  Active(o)' = Active(o)
      BY <1>2, <2>1, <3>1 DEF TypeOK, Begin, Active, Ended
    <3>2. QED
      BY <1>2, <2>0, <2>1, <3>1 DEF Exclusive, Begin
  <2>2. ASSUME \A o \in Builds : Active(o)' => Active(o)
        PROVE  Exclusive'
    BY <1>2, <2>0, <2>2 DEF Exclusive
  <2>3. ASSUME NEW b \in Builds, ~Begin(b), Advance(b) \/ Fail(b) \/ Kill(b), NEW o \in Builds
        PROVE  Active(o)' => Active(o)
    BY <1>2, <2>3, ZenonT(60) DEF TypeOK, Advance, Kill, VariantPushed, CreateIndex, AddVariant, Annotate,
       WriteIndexManifest,
           TagPushed, Fail, Refused, Blocked, Stop, RemovePerArchIndex, Active, Ended, Formats
  <2>4. ASSUME NEW b \in Builds, VariantLands(b) \/ TagLands(b), NEW o \in Builds
        PROVE  Active(o)' => Active(o)
    BY <2>4 DEF VariantLands, TagLands, Active, Ended
  <2>5. ASSUME Collect \/ Terminated \/ UNCHANGED vars, NEW o \in Builds
        PROVE  Active(o)' => Active(o)
    BY <2>5 DEF Collect, Terminated, vars, Active, Ended
  <2>6. QED
    BY <1>2, <2>1, <2>2, <2>3, <2>4, <2>5 DEF Next
<1>3. QED
  BY <1>1, <1>2, TypeCorrect, PTL DEF Spec

(* Two running builds have different local indexes. *)
LEMMA OwnIndex ==
    ASSUME Exclusive, NEW b \in Builds, NEW o \in Builds, b # o, Active(b), Active(o)
    PROVE  PerArchIndex(b) # PerArchIndex(o)
  BY DEF Exclusive, PerArchIndex

LEMMA AppendTuple ==
    ASSUME NEW S, NEW x \in S, NEW y \in S
    PROVE  Append(<<>>, x) = <<x>> /\ Append(<<x>>, y) = <<x, y>>
<1>1. <<>> \in Seq(S) /\ <<x>> \in Seq(S) /\ <<x, y>> \in Seq(S)
  BY EmptySeq
<1>2. /\ Append(<<>>, x) \in Seq(S) /\ Len(Append(<<>>, x)) = 1 /\ Append(<<>>, x)[1] = x
  BY <1>1, AppendProperties
<1>3. /\ Append(<<x>>, y) \in Seq(S) /\ Len(Append(<<x>>, y)) = 2
      /\ Append(<<x>>, y)[1] = x /\ Append(<<x>>, y)[2] = y
  BY <1>1, AppendProperties
<1>4. Append(<<>>, x) = <<x>>
  BY <1>1, <1>2, SeqEqual
<1>5. Append(<<x>>, y) = <<x, y>>
  <2>1. Len(<<x, y>>) = 2 /\ \A i \in 1 .. 2 : Append(<<x>>, y)[i] = <<x, y>>[i]
    BY <1>3
  <2>2. QED
    BY <1>1, <1>3, <2>1, SeqEqual
<1>6. QED
  BY <1>4, <1>5

LEMMA PairOf ==
    ASSUME NEW S, NEW u \in S, NEW v \in S, NEW g,
           g = [i \in 1 .. 2 |-> g[i]], g[1] = u, g[2] = v
    PROVE  g = <<u, v>>
<1>1. \A i \in 1 .. 2 : g[i] \in S
  OBVIOUS
<1>2. g \in Seq(S) /\ Len(g) = 2
  <2>1. g \in [1 .. 2 -> S] /\ DOMAIN g = 1 .. 2
    BY <1>1
  <2>2. g \in Seq(S)
    BY <2>1
  <2>3. QED
    BY <2>1, <2>2, LenProperties
<1>3. <<u, v>> \in Seq(S) /\ Len(<<u, v>>) = 2 /\ \A i \in 1 .. 2 : g[i] = <<u, v>>[i]
  OBVIOUS
<1>4. QED
  BY <1>2, <1>3, SeqEqual

LEMMA IndexEntries ==
    ASSUME NEW es, NEW fs
    PROVE  Index(es).entries = es /\ [Index(es) EXCEPT !.entries = fs] = Index(fs)
  BY DEF Index

(* 'manifest add' and 'manifest annotate' turn the empty index of a build  *)
(* into its whole index.                                                   *)
LEMMA EntriesGrow ==
    ASSUME NEW b \in Builds
    PROVE  /\ Append(<<>>, Entry(b, "gzip", FALSE)) = <<Entry(b, "gzip", FALSE)>>
           /\ Append(<<Entry(b, "gzip", FALSE)>>, Entry(b, "zstd", FALSE))
                = <<Entry(b, "gzip", FALSE), Entry(b, "zstd", FALSE)>>
           /\ \A es : es = <<Entry(b, "gzip", FALSE), Entry(b, "zstd", FALSE)>> =>
                  [i \in DOMAIN es |-> Annotated(b, es[i])]
                    = <<Entry(b, "gzip", FALSE), Entry(b, "zstd", TRUE)>>
<1> DEFINE E == [build: Builds, format: Formats, zstd: BOOLEAN]
<1>1. Entry(b, "gzip", FALSE) \in E /\ Entry(b, "zstd", FALSE) \in E /\ Entry(b, "zstd", TRUE) \in E
  BY DEF Entry, Formats
<1>2. Append(<<>>, Entry(b, "gzip", FALSE)) = <<Entry(b, "gzip", FALSE)>>
  BY <1>1, AppendTuple
<1>3. Append(<<Entry(b, "gzip", FALSE)>>, Entry(b, "zstd", FALSE))
        = <<Entry(b, "gzip", FALSE), Entry(b, "zstd", FALSE)>>
  BY <1>1, AppendTuple
<1>4. ASSUME NEW es, es = <<Entry(b, "gzip", FALSE), Entry(b, "zstd", FALSE)>>
      PROVE  [i \in DOMAIN es |-> Annotated(b, es[i])]
               = <<Entry(b, "gzip", FALSE), Entry(b, "zstd", TRUE)>>
  <2>1. DOMAIN es = 1 .. 2 /\ es[1] = Entry(b, "gzip", FALSE) /\ es[2] = Entry(b, "zstd", FALSE)
    BY <1>4
  <2>2. Annotated(b, Entry(b, "gzip", FALSE)) = Entry(b, "gzip", FALSE)
    BY DEF Annotated, Entry
  <2>3. Annotated(b, Entry(b, "zstd", FALSE)) = Entry(b, "zstd", TRUE)
    BY DEF Annotated, Entry
  <2> DEFINE g == [i \in DOMAIN es |-> Annotated(b, es[i])]
  <2>4. 1 \in DOMAIN es /\ 2 \in DOMAIN es
    BY <2>1
  <2>5. g[1] = Annotated(b, es[1]) /\ g[2] = Annotated(b, es[2])
    BY <2>4
  <2>6. g = [i \in 1 .. 2 |-> g[i]]
    BY <2>1, Zenon
  <2> HIDE DEF g
  <2>7. g[1] = Entry(b, "gzip", FALSE) /\ g[2] = Entry(b, "zstd", TRUE)
    BY <2>1, <2>2, <2>3, <2>5, Zenon
  <2> HIDE DEF E
  <2>8. g = <<Entry(b, "gzip", FALSE), Entry(b, "zstd", TRUE)>>
    BY <1>1, <2>6, <2>7, PairOf, Zenon
  <2>9. QED
    BY <2>8 DEF g
<1>5. QED
  BY <1>2, <1>3, <1>4

(* A step that leaves a build and its local index alone keeps LocalFits. *)
LEMMA LocalKept ==
    ASSUME [Next]_vars, NEW o \in Builds, LocalFits(o), pc'[o] = pc[o],
           pc[o] \in Holding => local'[PerArchIndex(o)] = local[PerArchIndex(o)]
    PROVE  LocalFits(o)'
<1>1. PerArchIndex(o)' = PerArchIndex(o)
  BY ParamsFixed DEF PerArchIndex
<1>2. QED
  BY <1>1 DEF LocalFits, Holding, UnannotatedIndex, WholeIndex

LocalInv == \A b \in Builds : LocalFits(b)

LEMMA LocalFitsInductive == Spec => []LocalInv
<1>1. Init => LocalInv
  BY DEF Init, LocalInv, LocalFits
<1>2. ASSUME TypesAndSteps, Exclusive, LocalInv, [Next]_vars
      PROVE  LocalInv'
  <2>0. TypeOK /\ \A b \in Builds : StepFits(b) /\ LocalFits(b)
    BY <1>2 DEF TypesAndSteps, LocalInv
  <2>1. ASSUME local' = local, NEW o \in Builds, pc'[o] = pc[o]
        PROVE  LocalFits(o)'
    BY <1>2, <2>0, <2>1, LocalKept
  <2>2. ASSUME NEW b \in Builds, NEW o \in Builds, o # b, Active(b),
               NEW m, local' = [local EXCEPT ![PerArchIndex(b)] = m], pc'[o] = pc[o]
        PROVE  LocalFits(o)'
    <3>1. pc[o] \in Holding => PerArchIndex(o) # PerArchIndex(b)
      BY <1>2, <2>2, OwnIndex DEF Holding, Active, Ended
    <3>2. PerArchIndex(o) \in DOMAIN local
      BY <2>0, ParamTypes DEF TypeOK
    <3>3. QED
      BY <1>2, <2>0, <2>2, <3>1, <3>2, LocalKept
  <2>3. ASSUME NEW b \in Builds
        PROVE  /\ PerArchIndex(b) \in DOMAIN local
               /\ PerArchIndex(b)' = PerArchIndex(b)
    BY <1>2, <2>0, ParamTypes, ParamsFixed DEF TypeOK, PerArchIndex
  <2>4. ASSUME NEW b \in Builds, Begin(b) \/ VariantPushed(b) \/ Fail(b) \/ Refused(b) \/ Kill(b) \/ TagPushed(b)
        PROVE  \A o \in Builds : LocalFits(o)'
    <3>1. local' = local /\ \A o \in Builds : o # b => pc'[o] = pc[o]
      BY <2>0, <2>4 DEF TypeOK, Begin, VariantPushed, Fail, Refused, Stop, Kill, TagPushed
    <3>2. pc'[b] \notin Holding \/ pc'[b] = pc[b]
      BY <2>0, <2>4 DEF TypeOK, Begin, VariantPushed, Fail, Refused, Stop, Kill, TagPushed, Holding
    <3>3. LocalFits(b)'
      BY <2>1, <3>1, <3>2 DEF LocalFits, Holding
    <3>4. QED
      BY <2>1, <3>1, <3>3
  <2>5. ASSUME NEW b \in Builds, CreateIndex(b)
        PROVE  \A o \in Builds : LocalFits(o)'
    <3>1. Active(b) /\ local' = [local EXCEPT ![PerArchIndex(b)] = Index(<<>>)]
      BY <2>5 DEF CreateIndex, Active, Ended
    <3>2. pc' = [pc EXCEPT ![b] = "add gzip"]
      BY <2>5 DEF CreateIndex
    <3>3. ASSUME NEW o \in Builds, o # b
          PROVE  LocalFits(o)'
      BY <2>0, <2>2, <3>1, <3>2, <3>3 DEF TypeOK
    <3>4. LocalFits(b)'
      BY <2>0, <2>3, <3>1, <3>2 DEF TypeOK, LocalFits
    <3>5. QED
      BY <3>3, <3>4
  <2>6. ASSUME NEW b \in Builds, NEW f \in Formats, AddVariant(b, f)
        PROVE  \A o \in Builds : LocalFits(o)'
    <3> DEFINE m == [local[PerArchIndex(b)] EXCEPT !.entries = Append(@, Entry(b, f, FALSE))]
    <3>1. Active(b) /\ local' = [local EXCEPT ![PerArchIndex(b)] = m]
      BY <2>6 DEF AddVariant, Active, Ended
    <3>2. pc' = [pc EXCEPT ![b] = IF f = "gzip" THEN "add zstd" ELSE "annotate"]
      BY <2>6 DEF AddVariant
    <3>3. ASSUME NEW o \in Builds, o # b
          PROVE  LocalFits(o)'
      BY <2>0, <2>2, <3>1, <3>2, <3>3 DEF TypeOK
    <3>4. local'[PerArchIndex(b)] = m
      BY <2>0, <2>3, <3>1 DEF TypeOK
    <3>5. CASE f = "gzip"
      <4>1. local[PerArchIndex(b)] = Index(<<>>)
        BY <2>0, <2>6, <3>5 DEF AddVariant, LocalFits
      <4>2. m = Index(<<Entry(b, "gzip", FALSE)>>)
        BY <3>5, <4>1, EntriesGrow, IndexEntries, ZenonT(40)
      <4>3. pc'[b] = "add zstd"
        BY <2>0, <3>2, <3>5 DEF TypeOK
      <4>4. LocalFits(b)'
        BY <2>3, <3>4, <4>2, <4>3 DEF LocalFits
      <4>5. QED
        BY <3>3, <4>4
    <3>6. CASE f = "zstd"
      <4>1. local[PerArchIndex(b)] = Index(<<Entry(b, "gzip", FALSE)>>)
        BY <2>0, <2>6, <3>6 DEF AddVariant, LocalFits
      <4>2. m = UnannotatedIndex(b)
        BY <3>6, <4>1, EntriesGrow, IndexEntries, ZenonT(40) DEF UnannotatedIndex
      <4>3. pc'[b] = "annotate"
        BY <2>0, <3>2, <3>6 DEF TypeOK
      <4>4. LocalFits(b)'
        BY <2>3, <3>4, <4>2, <4>3 DEF LocalFits, UnannotatedIndex
      <4>5. QED
        BY <3>3, <4>4
    <3>7. QED
      BY <3>5, <3>6 DEF Formats
  <2>7. ASSUME NEW b \in Builds, Annotate(b)
        PROVE  \A o \in Builds : LocalFits(o)'
    <3> DEFINE es == local[PerArchIndex(b)].entries
               m == [local[PerArchIndex(b)] EXCEPT
                          !.entries = [i \in DOMAIN @ |-> Annotated(b, @[i])]]
    <3>1. Active(b) /\ local' = [local EXCEPT ![PerArchIndex(b)] = m]
      BY <2>7 DEF Annotate, Active, Ended
    <3>2. pc' = [pc EXCEPT ![b] = IF params[b].indexManifestOutput THEN "inspect" ELSE "index"]
      BY <2>7 DEF Annotate
    <3>3. ASSUME NEW o \in Builds, o # b
          PROVE  LocalFits(o)'
      <4> HIDE DEF m
      <4>1. pc'[o] = pc[o]
        BY <2>0, <3>2, <3>3 DEF TypeOK
      <4>2. QED
        BY <2>2, <3>1, <3>3, <4>1
    <3>4. local[PerArchIndex(b)] = UnannotatedIndex(b)
      BY <2>0, <2>7 DEF Annotate, LocalFits
    <3>5. es = <<Entry(b, "gzip", FALSE), Entry(b, "zstd", FALSE)>>
      BY <3>4, IndexEntries, Zenon DEF UnannotatedIndex
    <3> HIDE DEF es
    <3>6. [i \in DOMAIN es |-> Annotated(b, es[i])] = <<Entry(b, "gzip", FALSE), Entry(b, "zstd",
    TRUE)>>
      BY <3>5, EntriesGrow, Zenon
    <3>7. m = [UnannotatedIndex(b) EXCEPT !.entries = <<Entry(b, "gzip", FALSE), Entry(b, "zstd",
    TRUE)>>]
      BY <3>4, <3>6, Zenon DEF es
    <3>8. m = WholeIndex(b)
      BY <3>7, IndexEntries, Zenon DEF UnannotatedIndex, WholeIndex
    <3>9. local'[PerArchIndex(b)] = WholeIndex(b)
      <4> HIDE DEF m
      <4>1. QED
        BY <2>0, <2>3, <3>1, <3>8 DEF TypeOK
    <3>10. LocalFits(b)'
      BY <2>0, <2>3, <3>2, <3>9 DEF TypeOK, LocalFits, WholeIndex
    <3>11. QED
      BY <3>3, <3>10
  <2>8. ASSUME NEW b \in Builds, WriteIndexManifest(b)
        PROVE  \A o \in Builds : LocalFits(o)'
    <3>1. local' = local /\ \A o \in Builds : o # b => pc'[o] = pc[o]
      BY <2>0, <2>8 DEF TypeOK, WriteIndexManifest
    <3>2. pc[b] = "inspect" /\ pc'[b] = "index"
      BY <2>0, <2>8 DEF TypeOK, WriteIndexManifest
    <3>3. LocalFits(b)'
      BY <2>0, <2>3, <3>1, <3>2 DEF LocalFits, WholeIndex
    <3>4. QED
      BY <2>1, <3>1, <3>3
  <2>9. ASSUME NEW b \in Builds, RemovePerArchIndex(b)
        PROVE  \A o \in Builds : LocalFits(o)'
    <3>1. Active(b) /\ pc'[b] = "end" /\ \A o \in Builds : o # b => pc'[o] = pc[o]
      BY <2>0, <2>9 DEF TypeOK, RemovePerArchIndex, Active, Ended
    <3>2. local' = local \/ local' = [local EXCEPT ![PerArchIndex(b)] = NoManifest]
      BY <2>9 DEF RemovePerArchIndex
    <3>3. ASSUME NEW o \in Builds, o # b
          PROVE  LocalFits(o)'
      BY <2>1, <2>2, <3>1, <3>2, <3>3
    <3>4. LocalFits(b)'
      BY <3>1 DEF LocalFits
    <3>5. QED
      BY <3>3, <3>4
  <2>10. ASSUME NEW b \in Builds, VariantLands(b) \/ TagLands(b)
         PROVE  \A o \in Builds : LocalFits(o)'
    BY <2>1, <2>10 DEF VariantLands, TagLands
  <2>11. CASE Collect \/ Terminated \/ UNCHANGED vars
    BY <2>1, <2>11 DEF Collect, Terminated, vars, LocalInv
  <2>12. QED
    BY <1>2, <2>4, <2>5, <2>6, <2>7, <2>8, <2>9, <2>10, <2>11 DEF Next, Advance, LocalInv
<1>3. QED
  BY <1>1, <1>2, TypesAndStepsInductive, ExclusiveInductive, PTL DEF Spec

--------------------------------------------------------------------------------
(* What the real tags name.                                                *)

(* A push stores a whole image of its build, under a tag of that build. *)
LEMMA PushedIsWhole ==
    ASSUME TypesAndSteps, LocalInv, NEW b \in Builds, pc[b] \in {"index", "single"},
           NEW m \in Pushable(b)
    PROVE  m \in WholeImageOf(b) /\ m # NoManifest /\ m \in Manifests
<1>1. TypeOK /\ StepFits(b) /\ LocalFits(b)
  BY DEF TypesAndSteps, LocalInv
<1>2. m \in Manifests
  BY <1>1, PushableTypes DEF StepFits
<1>3. CASE pc[b] = "index"
  <2>1. params[b].compression = "dual" /\ m = WholeIndex(b)
    BY <1>1, <1>3 DEF StepFits, LocalFits, Pushable, DualSteps, Holding
  <2>2. WholeIndex(b) # NoManifest
    BY DEF WholeIndex, Index, NoManifest
  <2>3. QED
    BY <1>2, <2>1, <2>2 DEF WholeImageOf
<1>4. CASE pc[b] = "single"
  <2>1. params[b].compression \in Formats
    BY <1>1, <1>4 DEF StepFits
  <2>2. params[b].compression # "dual"
    BY <2>1 DEF Formats
  <2>3. \E f \in Formats : m = Image(b, f)
    BY <1>4, <2>1 DEF Pushable, Formats
  <2>4. \A f \in Formats : Image(b, f) # NoManifest
    BY DEF Image, NoManifest
  <2>5. QED
    BY <1>2, <2>2, <2>3, <2>4 DEF WholeImageOf
<1>5. QED
  BY <1>3, <1>4

(* What the push of a tag does to the registry. *)
LEMMA PushStep ==
    ASSUME TypesAndSteps, LocalInv, NEW b \in Builds, TagLands(b) \/ TagPushed(b)
    PROVE  /\ pc[b] \in {"index", "single"}
           /\ todo[b] \in Seq(Tags) /\ todo[b] # <<>> /\ Head(todo[b]) \in Tags
           /\ \E m \in Pushable(b) : /\ m \in WholeImageOf(b) /\ m # NoManifest /\ m \in Manifests
                                     /\ Put(b, Head(todo[b]), m)
<1>1. pc[b] \in {"index", "single"} /\ \E m \in Pushable(b) : Put(b, Head(todo[b]), m)
  BY DEF TagLands, TagPushed
<1>2. todo[b] \in Seq(Tags) /\ todo[b] # <<>>
  BY <1>1 DEF TypesAndSteps, TypeOK, StepFits
<1>3. QED
  BY <1>1, <1>2, PushedIsWhole, HeadTailProperties

(* No other step changes a tag or what is published. *)
LEMMA OtherStep ==
    ASSUME [Next]_vars, \A b \in Builds : ~TagLands(b) /\ ~TagPushed(b)
    PROVE  tag' = tag /\ published' = published /\ todo' = todo /\ results' = results
  BY DEF Next, Advance, Begin, VariantPushed, PutVariant, CreateIndex, AddVariant, Annotate,
         WriteIndexManifest, Fail, Refused, Stop, RemovePerArchIndex, VariantLands, Kill, Collect, Terminated,
         vars, registry

(* Whatever fails, is retried, is killed or runs at the same time, a real  *)
(* tag never names a single variant of a dual build, an index that is not  *)
(* finished, or a mixture of builds.                                       *)
THEOREM TagsAlwaysWhole == Spec => []TagsNameWholeImages
<1>1. Init => TagsNameWholeImages
  BY DEF Init, TagsNameWholeImages
<1>2. ASSUME TypesAndSteps, LocalInv, TagsNameWholeImages, [Next]_vars
      PROVE  TagsNameWholeImages'
  <2>1. \A b \in Builds : WholeImageOf(b)' = WholeImageOf(b)
    BY <1>2, ParamsFixed DEF WholeImageOf
  <2>2. ASSUME NEW b \in Builds, TagLands(b) \/ TagPushed(b)
        PROVE  TagsNameWholeImages'
    <3>1. PICK m \in WholeImageOf(b) : Put(b, Head(todo[b]), m)
      BY <1>2, <2>2, PushStep
    <3>2. tag \in [Tags -> Manifests] /\ tag' = [tag EXCEPT ![Head(todo[b])] = m]
      BY <1>2, <3>1 DEF TypesAndSteps, TypeOK, Put
    <3>3. QED
      BY <1>2, <2>1, <3>1, <3>2 DEF TagsNameWholeImages
  <2>3. CASE \A b \in Builds : ~TagLands(b) /\ ~TagPushed(b)
    BY <1>2, <2>1, <2>3, OtherStep DEF TagsNameWholeImages
  <2>4. QED
    BY <2>2, <2>3
<1>3. QED
  BY <1>1, <1>2, TypesAndStepsInductive, LocalFitsInductive, PTL DEF Spec

--------------------------------------------------------------------------------
(* What a build has published and what it reports.                         *)

LEMMA RangeHeadTail ==
    ASSUME NEW S, NEW s \in Seq(S), s # <<>>
    PROVE  Range(s) = {Head(s)} \union Range(Tail(s))
<1>1. /\ Len(s) \in Nat \ {0} /\ DOMAIN s = 1 .. Len(s) /\ Head(s) = s[1]
      /\ Tail(s) \in Seq(S) /\ Len(Tail(s)) = Len(s) - 1 /\ DOMAIN Tail(s) = 1 .. (Len(s) - 1)
      /\ \A i \in 1 .. (Len(s) - 1) : Tail(s)[i] = s[i + 1]
  BY HeadTailProperties, LenProperties, EmptySeq
<1>2. \A i \in 1 .. Len(s) : s[i] = Head(s) \/ \E j \in DOMAIN Tail(s) : s[i] = Tail(s)[j]
  <2>1. TAKE i \in 1 .. Len(s)
  <2>2. CASE i = 1
    BY <1>1, <2>2
  <2>3. CASE i # 1
    <3>1. i - 1 \in DOMAIN Tail(s) /\ Tail(s)[i - 1] = s[i]
      BY <1>1, <2>3
    <3>2. QED
      BY <3>1
  <2>4. QED
    BY <2>2, <2>3
<1>3. \A j \in DOMAIN Tail(s) : \E i \in 1 .. Len(s) : Tail(s)[j] = s[i]
  <2>1. TAKE j \in DOMAIN Tail(s)
  <2>2. j + 1 \in 1 .. Len(s) /\ Tail(s)[j] = s[j + 1]
    BY <1>1
  <2>3. QED
    BY <2>2
<1>4. 1 \in DOMAIN s
  BY <1>1
<1>5. QED
  BY <1>1, <1>2, <1>3, <1>4 DEF Range

TodoInv == \A b \in Builds : TodoFits(b)

LEMMA TodoFitsInductive == Spec => []TodoInv
<1>1. Init => TodoInv
  BY DEF Init, TodoInv, TodoFits, TagsOf
<1>2. ASSUME TypesAndSteps, LocalInv, TodoInv, [Next]_vars
      PROVE  TodoInv'
  <2>0. TypeOK /\ \A b \in Builds : StepFits(b) /\ TodoFits(b) /\ TagsOf(b)' = TagsOf(b)
    BY <1>2, ParamsFixed DEF TypesAndSteps, TodoInv, TagsOf, TagsToPush
  <2>1. ASSUME NEW b \in Builds, TagLands(b) \/ TagPushed(b)
        PROVE  TodoInv'
    <3>1. published' = [published EXCEPT ![b] = @ \union {Head(todo[b])}]
      BY <1>2, <2>1, PushStep DEF Put
    <3>2. Range(todo[b]) = {Head(todo[b])} \union Range(Tail(todo[b]))
      BY <1>2, <2>1, PushStep, RangeHeadTail
    <3>3. outcome[b] = "none"
      BY <2>0, <2>1 DEF StepFits, TagLands, TagPushed
    <3>4. ASSUME NEW o \in Builds, o # b
          PROVE  TodoFits(o)'
      <4>1. published'[o] = published[o] /\ todo'[o] = todo[o] /\ outcome'[o] = outcome[o]
        BY <2>0, <2>1, <3>1, <3>4 DEF TypeOK, TagLands, TagPushed
      <4>2. QED
        BY <2>0, <4>1 DEF TodoFits
    <3>5. published'[b] = published[b] \union {Head(todo[b])}
      BY <2>0, <3>1 DEF TypeOK
    <3>6. CASE TagLands(b)
      BY <2>0, <3>2, <3>3, <3>4, <3>5, <3>6 DEF TodoInv, TodoFits, TagLands
    <3>7. CASE TagPushed(b)
      <4>1. todo'[b] = Tail(todo[b]) /\ outcome'[b] = IF Tail(todo[b]) = <<>> THEN "ok" ELSE "none"
        BY <2>0, <3>3, <3>7 DEF TypeOK, TagPushed, RemainingTags
      <4>2. published'[b] \union Range(todo'[b]) = published[b] \union Range(todo[b])
        BY <3>2, <3>5, <4>1
      <4>3. outcome'[b] = "ok" => todo'[b] = <<>>
        BY <4>1
      <4>4. TodoFits(b)'
        BY <2>0, <4>2, <4>3 DEF TodoFits
      <4>5. QED
        BY <3>4, <4>4 DEF TodoInv
    <3>8. QED
      BY <2>1, <3>6, <3>7
  <2>2. ASSUME \A b \in Builds : ~TagLands(b) /\ ~TagPushed(b)
        PROVE  TodoInv'
    <3>1. published' = published /\ todo' = todo
      BY <1>2, <2>2, OtherStep
    <3>2. \A b \in Builds : outcome'[b] = "ok" => outcome[b] = "ok"
      BY <1>2, <2>0, <2>2, ZenonT(60) DEF TypeOK, Next, Advance, Begin, VariantPushed, CreateIndex,
         AddVariant, Annotate,
         WriteIndexManifest, Fail, Refused, Stop, RemovePerArchIndex, VariantLands, Kill, Collect, Terminated, vars
    <3>3. QED
      BY <2>0, <3>1, <3>2 DEF TodoInv, TodoFits
  <2>3. QED
    BY <2>1, <2>2
<1>3. QED
  BY <1>1, <1>2, TypesAndStepsInductive, LocalFitsInductive, PTL DEF Spec

ResultsInv == \A b \in Builds : ResultsFit(b)

(* A step that leaves a build alone keeps ResultsFit. *)
LEMMA ResultsKept ==
    ASSUME [Next]_vars, NEW o \in Builds, ResultsFit(o), todo'[o] = todo[o],
    results'[o] = results[o],
           indexFile'[o] = indexFile[o], pc'[o] = "index" => pc[o] = "index",
           outcome'[o] = "ok" => outcome[o] = "ok"
    PROVE  ResultsFit(o)'
<1>1. /\ params'[o] = params[o] /\ TagsToPush(o)' = TagsToPush(o)
      /\ WholeImageOf(o)' = WholeImageOf(o) /\ WholeIndex(o)' = WholeIndex(o)
  BY ParamsFixed DEF TagsToPush, WholeImageOf, WholeIndex
<1>2. QED
  BY <1>1, Zenon DEF ResultsFit, Image

LEMMA ResultsFitInductive == Spec => []ResultsInv
<1>1. ASSUME Init
      PROVE  ResultsInv
  BY <1>1 DEF Init, ResultsInv, ResultsFit
<1>2. ASSUME TypesAndSteps, LocalInv, ResultsInv, [Next]_vars
      PROVE  ResultsInv'
  <2>0. /\ TypeOK /\ params' = params
        /\ \A b \in Builds : /\ StepFits(b) /\ LocalFits(b) /\ ResultsFit(b)
                             /\ TagsToPush(b)' = TagsToPush(b) /\ WholeImageOf(b)' = WholeImageOf(b)
    BY <1>2, ParamsFixed DEF TypesAndSteps, LocalInv, ResultsInv, TagsToPush, WholeImageOf
  <2>1. ASSUME NEW b \in Builds, TagPushed(b)
        PROVE  ResultsInv'
    <3>1. ASSUME NEW o \in Builds, o # b
          PROVE  ResultsFit(o)'
      <4>1. /\ todo'[o] = todo[o] /\ results'[o] = results[o] /\ indexFile'[o] = indexFile[o]
            /\ pc'[o] = pc[o] /\ outcome'[o] = outcome[o]
        BY <2>0, <2>1, <3>1 DEF TypeOK, TagPushed
      <4>2. QED
        BY <1>2, <2>0, <4>1, ResultsKept
    <3>2. PICK m \in Pushable(b) :
              /\ Put(b, Head(todo[b]), m)
              /\ results' = [results EXCEPT ![b] =
                     [digest |-> IF todo[b] = TagsToPush(b) THEN m ELSE @.digest,
                      images |-> IF RemainingTags(todo[b]) = <<>> /\ pc[b] = "index"
                                 THEN <<Image(b, "gzip"), Image(b, "zstd")>> ELSE @.images]]
      BY <2>1 DEF TagPushed
    <3>3. m \in WholeImageOf(b)
      BY <1>2, <2>1, <3>2, PushedIsWhole DEF TagPushed
    <3>4. /\ results'[b].digest = IF todo[b] = TagsToPush(b) THEN m ELSE results[b].digest
          /\ results'[b].images = IF RemainingTags(todo[b]) = <<>> /\ pc[b] = "index"
                                  THEN <<Image(b, "gzip"), Image(b, "zstd")>> ELSE results[b].images
      BY <2>0, <3>2 DEF TypeOK
    <3>5. results'[b].digest \in WholeImageOf(b)
      BY <2>0, <3>3, <3>4 DEF ResultsFit
    <3>6. outcome[b] = "none" /\ indexFile' = indexFile /\ pc[b] \in {"index", "single"}
      BY <2>0, <2>1 DEF StepFits, TagPushed
    <3>7. outcome'[b] = "ok" => RemainingTags(todo[b]) = <<>>
      BY <2>0, <2>1, <3>6 DEF TypeOK, TagPushed
    <3>8. pc'[b] = "index" => pc[b] = "index"
      BY <2>0, <2>1 DEF TypeOK, TagPushed
    <3>9. params[b].compression = "dual" => pc[b] = "index"
      BY <2>0, <3>6 DEF StepFits, Formats
    <3>10. params[b].compression = "dual" /\ outcome'[b] = "ok"
             => results'[b].images = <<Image(b, "gzip"), Image(b, "zstd")>>
      BY <3>4, <3>7, <3>9
    <3>11. params[b].compression = "dual" /\ params[b].indexManifestOutput => indexFile'[b] = WholeIndex(b)
      BY <2>0, <3>6, <3>9 DEF ResultsFit
    <3>12. ResultsFit(b)'
      BY <2>0, <3>5, <3>10, <3>11, Zenon DEF ResultsFit, WholeIndex, Image
    <3>13. QED
      BY <3>1, <3>12 DEF ResultsInv
  <2>2. ASSUME NEW b \in Builds, WriteIndexManifest(b)
        PROVE  ResultsInv'
    <3>1. ASSUME NEW o \in Builds, o # b
          PROVE  ResultsFit(o)'
      <4>1. /\ todo'[o] = todo[o] /\ results'[o] = results[o] /\ indexFile'[o] = indexFile[o]
            /\ pc'[o] = pc[o] /\ outcome'[o] = outcome[o]
        BY <2>0, <2>2, <3>1 DEF TypeOK, WriteIndexManifest
      <4>2. QED
        BY <1>2, <2>0, <4>1, ResultsKept
    <3>2. indexFile'[b] = WholeIndex(b)
      BY <2>0, <2>2 DEF TypeOK, WriteIndexManifest, LocalFits
    <3>3. todo' = todo /\ results' = results /\ outcome' = outcome
      BY <2>2 DEF WriteIndexManifest
    <3>4. ResultsFit(b)'
      BY <2>0, <3>2, <3>3, Zenon DEF ResultsFit, WholeIndex, Image
    <3>5. QED
      BY <3>1, <3>4 DEF ResultsInv
  <2>3. ASSUME NEW b \in Builds, Annotate(b)
        PROVE  ResultsInv'
    <3>1. ASSUME NEW o \in Builds, o # b
          PROVE  ResultsFit(o)'
      <4>1. /\ todo'[o] = todo[o] /\ results'[o] = results[o] /\ indexFile'[o] = indexFile[o]
            /\ pc'[o] = pc[o] /\ outcome'[o] = outcome[o]
        BY <2>0, <2>3, <3>1 DEF TypeOK, Annotate
      <4>2. QED
        BY <1>2, <2>0, <4>1, ResultsKept
    <3>2. todo' = todo /\ results' = results /\ outcome' = outcome /\ indexFile' = indexFile
      BY <2>3 DEF Annotate
    <3>3. pc'[b] = "index" => ~params[b].indexManifestOutput
      BY <2>0, <2>3 DEF TypeOK, Annotate
    <3>4. outcome[b] = "none"
      BY <2>0, <2>3 DEF StepFits, Annotate
    <3>5. ResultsFit(b)'
      BY <2>0, <3>2, <3>3, <3>4, Zenon DEF ResultsFit, WholeIndex, Image
    <3>6. QED
      BY <3>1, <3>5 DEF ResultsInv
  <2>4. ASSUME NEW o \in Builds,
               \A b \in Builds : ~TagPushed(b) /\ ~WriteIndexManifest(b) /\ ~Annotate(b)
        PROVE  ResultsFit(o)'
    <3>1. /\ todo' = todo /\ results' = results /\ indexFile' = indexFile
          /\ pc'[o] = "index" => pc[o] = "index"
          /\ outcome'[o] = "ok" => outcome[o] = "ok"
      BY <1>2, <2>0, <2>4, ZenonT(60) DEF TypeOK, Next, Advance, Begin, VariantPushed, CreateIndex,
         AddVariant, TagLands,
         Fail, Refused, Stop, RemovePerArchIndex, VariantLands, Kill, Collect, Terminated, vars
    <3>2. QED
      BY <1>2, <2>0, <3>1, ResultsKept
  <2>5. QED
    BY <2>1, <2>2, <2>3, <2>4 DEF ResultsInv
<1>3. QED
  BY <1>1, <1>2, TypesAndStepsInductive, LocalFitsInductive, PTL DEF Spec

LEMMA WholeIndexChildren ==
    ASSUME NEW b \in Builds
    PROVE  Range(<<Image(b, "gzip"), Image(b, "zstd")>>) = Children(WholeIndex(b))
<1>1. ASSUME NEW x, NEW y
      PROVE  Range(<<x, y>>) = {x, y}
  BY DEF Range
<1>2. Range(<<Image(b, "gzip"), Image(b, "zstd")>>) = {Image(b, "gzip"), Image(b, "zstd")}
  BY <1>1
<1> DEFINE es == <<Entry(b, "gzip", FALSE), Entry(b, "zstd", TRUE)>>
<1>3. Range(es) = {Entry(b, "gzip", FALSE), Entry(b, "zstd", TRUE)}
  BY <1>1
<1>4. WholeIndex(b).kind = "index" /\ WholeIndex(b).entries = es
  BY DEF WholeIndex, Index
<1> HIDE DEF es
<1>5. Children(WholeIndex(b)) = {Image(e.build, e.format) : e \in Range(es)}
  BY <1>4, Zenon DEF Children, Range
<1>6. /\ Entry(b, "gzip", FALSE).build = b /\ Entry(b, "gzip", FALSE).format = "gzip"
      /\ Entry(b, "zstd", TRUE).build = b /\ Entry(b, "zstd", TRUE).format = "zstd"
  BY DEF Entry
<1>7. Children(WholeIndex(b)) = {Image(b, "gzip"), Image(b, "zstd")}
  BY <1>3, <1>5, <1>6
<1>8. QED
  BY <1>2, <1>7

(* A build that reports success has published a whole image of its own     *)
(* under each of its tags; its digest is that image, and for a dual build  *)
(* the images and the index manifest file are those of that index.         *)
THEOREM ResultsAlwaysAgree == Spec => []ResultsAgree
<1>1. ASSUME TypesAndSteps, TodoInv, ResultsInv
      PROVE  ResultsAgree
  <2>1. SUFFICES ASSUME NEW b \in Builds, outcome[b] = "ok"
                 PROVE  /\ results[b].digest \in WholeImageOf(b)
                        /\ published[b] = TagsOf(b)
                        /\ params[b].compression = "dual" =>
                              /\ Range(results[b].images) = Children(results[b].digest)
                              /\ params[b].indexManifestOutput => indexFile[b] = results[b].digest
    BY DEF ResultsAgree
  <2>2. TypeOK /\ TodoFits(b) /\ ResultsFit(b)
    BY <1>1 DEF TypesAndSteps, TodoInv, ResultsInv
  <2>3. todo[b] = <<>> /\ todo[b] # TagsToPush(b)
    BY <2>1, <2>2, ParamTypes DEF TodoFits
  <2>4. published[b] = TagsOf(b)
    <3>1. Range(<<>>) = {}
      BY DEF Range
    <3>2. QED
      BY <2>2, <2>3, <3>1 DEF TodoFits
  <2>5. results[b].digest \in WholeImageOf(b)
    BY <2>2, <2>3 DEF ResultsFit
  <2>6. ASSUME params[b].compression = "dual"
        PROVE  /\ results[b].digest = WholeIndex(b)
               /\ results[b].images = <<Image(b, "gzip"), Image(b, "zstd")>>
               /\ params[b].indexManifestOutput => indexFile[b] = WholeIndex(b)
    BY <2>1, <2>2, <2>5, <2>6 DEF ResultsFit, WholeImageOf
  <2>7. QED
    BY <2>4, <2>5, <2>6, WholeIndexChildren
<1>2. QED
  BY <1>1, TypesAndStepsInductive, TodoFitsInductive, ResultsFitInductive, PTL

--------------------------------------------------------------------------------
(* The variants in the registry.                                           *)

(* The temporary tags of a dual build are its own, unless another dual     *)
(* build of the same tag drew the same suffix.                             *)
LEMMA OwnTempTag ==
    ASSUME NEW b \in Builds, NEW o \in Builds, o # b, params[b].compression = "dual",
           ~SuffixShared(o), NEW f \in Formats, NEW g \in Formats
    PROVE  TempTag(b, f) # TempTag(o, g)
  BY DEF SuffixShared, TempTag

(* Steps that keep the registry's share of a build keep Anchored. *)
LEMMA AnchorKept ==
    ASSUME [Next]_vars, NEW o \in Builds, Anchored(o),
           VariantsPushed(o)' \subseteq VariantsPushed(o),
           ~SuffixShared(o) => \A f \in VariantsPushed(o) :
                Image(o, f) \in stored' /\ tempTag'[TempTag(o, f)] = tempTag[TempTag(o, f)]
    PROVE  Anchored(o)'
<1>1. SuffixShared(o)' = SuffixShared(o) /\ \A f : TempTag(o, f)' = TempTag(o, f)
  BY ParamsFixed DEF SuffixShared, TempTag
<1>2. QED
  BY <1>1 DEF Anchored, Image

AnchorInv == \A b \in Builds : Anchored(b)

LEMMA AnchoredInductive == Spec => []AnchorInv
<1>1. Init => AnchorInv
  BY DEF Init, AnchorInv, Anchored, VariantsPushed
<1>2. ASSUME TypesAndSteps, AnchorInv, [Next]_vars
      PROVE  AnchorInv'
  <2>0. /\ TypeOK /\ params' = params /\ suffix' = suffix
        /\ \A b \in Builds : StepFits(b) /\ Anchored(b)
    BY <1>2, ParamsFixed DEF TypesAndSteps, AnchorInv
  <2>1. ASSUME NEW o \in Builds, VariantsPushed(o)' \subseteq VariantsPushed(o),
               stored \subseteq stored', tempTag' = tempTag
        PROVE  Anchored(o)'
    BY <1>2, <2>0, <2>1, AnchorKept DEF Anchored
  <2>2. ASSUME NEW b \in Builds, VariantPushed(b) \/ VariantLands(b)
        PROVE  AnchorInv'
    <3>1. pc[b] \in Formats /\ PutVariant(b, pc[b])
      BY <2>2 DEF VariantPushed, VariantLands
    <3>2. params[b].compression = "dual"
      BY <2>0, <3>1 DEF StepFits, DualSteps, Formats
    <3>3. stored' = stored \union {Image(b, pc[b])} /\ tempTag' = [tempTag EXCEPT ![TempTag(b,
    pc[b])] = Image(b, pc[b])]
      BY <3>1 DEF PutVariant
    <3>4. ASSUME NEW o \in Builds, o # b
          PROVE  Anchored(o)'
      <4>1. pc'[o] = pc[o]
        BY <2>0, <2>2, <3>4 DEF TypeOK, VariantPushed, VariantLands
      <4>2. VariantsPushed(o)' = VariantsPushed(o) /\ VariantsPushed(o) \subseteq Formats
        BY <4>1 DEF VariantsPushed, Formats
      <4>3. ASSUME NEW f \in VariantsPushed(o), ~SuffixShared(o)
            PROVE  Image(o, f) \in stored' /\ tempTag'[TempTag(o, f)] = tempTag[TempTag(o, f)]
        <5>1. TempTag(b, pc[b]) # TempTag(o, f)
          BY <3>1, <3>2, <3>4, <4>2, <4>3, OwnTempTag
        <5>2. TempTag(o, f) \in DOMAIN tempTag
          BY <2>0, <4>2, <4>3, ParamTypes DEF TypeOK
        <5>3. Image(o, f) \in stored
          BY <2>0, <4>3 DEF Anchored
        <5>4. QED
          BY <3>3, <5>1, <5>2, <5>3
      <4>4. QED
        BY <1>2, <2>0, <4>2, <4>3, AnchorKept
    <3>5. Anchored(b)'
      <4>1. VariantsPushed(b)' \subseteq VariantsPushed(b) \union {pc[b]}
        BY <2>0, <2>2, <3>1 DEF TypeOK, VariantPushed, VariantLands, VariantsPushed, Formats
      <4>2. SuffixShared(b)' = SuffixShared(b) /\ \A f : TempTag(b, f)' = TempTag(b, f)
        BY <2>0 DEF SuffixShared, TempTag
      <4>3. \A f \in Formats : TempTag(b, f) \in DOMAIN tempTag
        BY <2>0, ParamTypes DEF TypeOK
      <4>4. \A f : f # pc[b] => TempTag(b, f) # TempTag(b, pc[b])
        BY DEF TempTag
      <4>5. VariantsPushed(b) \subseteq Formats
        BY DEF VariantsPushed, Formats
      <4>6. ASSUME NEW f \in VariantsPushed(b)', ~SuffixShared(b)
            PROVE  Image(b, f) \in stored' /\ tempTag'[TempTag(b, f)] = Image(b, f)
        <5>1. CASE f = pc[b]
          <6>1. TempTag(b, pc[b]) \in DOMAIN tempTag
            BY <3>1, <4>3
          <6>2. QED
            BY <3>3, <5>1, <6>1
        <5>2. CASE f # pc[b]
          <6>1. Image(b, f) \in stored /\ tempTag[TempTag(b, f)] = Image(b, f) /\ f \in Formats
            BY <2>0, <4>1, <4>5, <4>6, <5>2 DEF Anchored
          <6>2. QED
            BY <2>0, <3>1, <3>3, <4>3, <4>4, <5>2, <6>1 DEF TypeOK
        <5>3. QED
          BY <5>1, <5>2
      <4>7. QED
        BY <4>2, <4>6 DEF Anchored, Image
    <3>6. QED
      BY <3>4, <3>5 DEF AnchorInv
  <2>3. ASSUME NEW b \in Builds, TagLands(b) \/ TagPushed(b), NEW o \in Builds
        PROVE  Anchored(o)'
    <3>1. stored \subseteq stored' /\ tempTag' = tempTag
      BY <2>3 DEF TagLands, TagPushed, Put
    <3>2. VariantsPushed(o)' \subseteq VariantsPushed(o)
      BY <2>0, <2>3 DEF TypeOK, TagLands, TagPushed, VariantsPushed, Formats
    <3>3. QED
      BY <2>1, <3>1, <3>2
  <2>4. ASSUME NEW b \in Builds, NEW o \in Builds,
               \/ Begin(b) \/ CreateIndex(b) \/ Annotate(b) \/ WriteIndexManifest(b)
               \/ Fail(b) \/ Refused(b) \/ RemovePerArchIndex(b) \/ Kill(b)
               \/ \E f \in Formats : AddVariant(b, f)
        PROVE  Anchored(o)'
    <3>1. stored' = stored /\ tempTag' = tempTag
      BY <2>4 DEF Begin, CreateIndex, AddVariant, Annotate, WriteIndexManifest, Fail, Refused, Stop,
         RemovePerArchIndex, Kill, registry
    <3>2. VariantsPushed(o)' \subseteq VariantsPushed(o)
      BY <2>0, <2>4, ZenonT(60) DEF TypeOK, Begin, CreateIndex, AddVariant, Annotate, WriteIndexManifest,
         Fail, Refused, Stop, RemovePerArchIndex, Kill,
             VariantsPushed, Formats
    <3>3. QED
      BY <2>1, <3>1, <3>2
  <2>5. ASSUME Collect, NEW o \in Builds
        PROVE  Anchored(o)'
    <3>1. tempTag' = tempTag /\ pc' = pc /\ \A m \in stored \cap Reachable : m \in stored'
      BY <2>5 DEF Collect
    <3>2. ASSUME NEW f \in VariantsPushed(o), ~SuffixShared(o)
          PROVE  Image(o, f) \in stored'
      <4>1. TempTag(o, f) \in DOMAIN tempTag
        BY <2>0, <3>2, ParamTypes DEF TypeOK, VariantsPushed, Formats
      <4>2. Image(o, f) \in stored /\ tempTag[TempTag(o, f)] = Image(o, f)
        BY <2>0, <3>2 DEF Anchored
      <4>3. Image(o, f) \in Reachable
        BY <4>1, <4>2 DEF Reachable, Tagged
      <4>4. QED
        BY <3>1, <4>2, <4>3
    <3>3. VariantsPushed(o)' = VariantsPushed(o)
      BY <3>1 DEF VariantsPushed
    <3>4. QED
      BY <1>2, <2>0, <3>1, <3>2, <3>3, AnchorKept
  <2>6. ASSUME Terminated \/ UNCHANGED vars, NEW o \in Builds
        PROVE  Anchored(o)'
    BY <2>1, <2>6 DEF Terminated, vars, registry, VariantsPushed
  <2>7. QED
    BY <1>2, <2>2, <2>3, <2>4, <2>5, <2>6 DEF Next, Advance, AnchorInv
<1>3. QED
  BY <1>1, <1>2, TypesAndStepsInductive, PTL DEF Spec

(* From the push of a variant to the push of the index the registry cannot *)
(* collect that variant, unless another dual build of the same tag drew    *)
(* the same random suffix.                                                 *)
THEOREM VariantsStayAnchored == Spec => []VariantsAnchored
<1>1. AnchorInv => VariantsAnchored
  BY DEF AnchorInv, Anchored, VariantsAnchored
<1>2. QED
  BY <1>1, AnchoredInductive, PTL

--------------------------------------------------------------------------------
(* Clean-up.                                                               *)

LEMMA LocalOwnedInductive == Spec => []LocalOwned
<1>1. Init => LocalOwned
  BY DEF Init, LocalOwned
<1>2. ASSUME TypesAndSteps, LocalOwned, [Next]_vars
      PROVE  LocalOwned'
  <2> DEFINE Keeper(b) == pc[b] \in Holding \union {"rm", "killed"} \/ b \in rmFailed
  <2>0. TypeOK /\ (\A b \in Builds : PerArchIndex(b)' = PerArchIndex(b)) /\ DOMAIN local' = DOMAIN local
    <3>1. TypeOK /\ \A b \in Builds : PerArchIndex(b)' = PerArchIndex(b)
      BY <1>2, ParamsFixed DEF TypesAndSteps, PerArchIndex
    <3>2. DOMAIN local' = DOMAIN local
      BY <1>2 DEF Next, Advance, Begin, VariantPushed, CreateIndex, AddVariant, Annotate,
         WriteIndexManifest,
         TagPushed, Fail, Refused, Stop, RemovePerArchIndex, VariantLands, TagLands, Kill, Collect, Terminated,
         vars
    <3>3. QED
      BY <3>1, <3>2
  <2>1. ASSUME \A n \in DOMAIN local : local'[n] # NoManifest => local[n] # NoManifest,
               \A b \in Builds : Keeper(b) => Keeper(b)'
        PROVE  LocalOwned'
    BY <1>2, <2>0, <2>1 DEF LocalOwned
  <2>2. ASSUME NEW b \in Builds, CreateIndex(b)
        PROVE  LocalOwned'
    <3>1. local' = [local EXCEPT ![PerArchIndex(b)] = Index(<<>>)] /\ rmFailed' = rmFailed
      BY <2>2 DEF CreateIndex
    <3>2. pc'[b] = "add gzip" /\ pc[b] = "create" /\ \A o \in Builds : o # b => pc'[o] = pc[o]
      BY <2>0, <2>2 DEF CreateIndex, TypeOK
    <3>3. \A o \in Builds : Keeper(o) => Keeper(o)'
      BY <3>1, <3>2 DEF Holding
    <3>4. Keeper(b)'
      BY <3>2 DEF Holding
    <3>5. \A n \in DOMAIN local : n # PerArchIndex(b) => local'[n] = local[n]
      BY <3>1
    <3>6. QED
      BY <1>2, <2>0, <3>3, <3>4, <3>5 DEF LocalOwned
  <2>3. ASSUME NEW b \in Builds, Annotate(b) \/ \E f \in Formats : AddVariant(b, f)
        PROVE  LocalOwned'
    <3>1. rmFailed' = rmFailed /\ \A n \in DOMAIN local : n # PerArchIndex(b) => local'[n] = local[n]
      BY <2>3 DEF Annotate, AddVariant
    <3>2. pc'[b] \in Holding /\ \A o \in Builds : o # b => pc'[o] = pc[o]
      BY <2>0, <2>3 DEF Annotate, AddVariant, TypeOK, Holding
    <3>3. Keeper(b)' /\ \A o \in Builds : Keeper(o) => Keeper(o)'
      BY <3>1, <3>2
    <3>4. QED
      BY <1>2, <2>0, <3>1, <3>3 DEF LocalOwned
  <2>4. ASSUME NEW b \in Builds, RemovePerArchIndex(b)
        PROVE  LocalOwned'
    <3>1. \A o \in Builds : o # b => pc'[o] = pc[o]
      BY <2>0, <2>4 DEF RemovePerArchIndex, TypeOK
    <3>2. CASE local' = [local EXCEPT ![PerArchIndex(b)] = NoManifest] /\ rmFailed' = rmFailed
      <4>1. \A n \in DOMAIN local : /\ n = PerArchIndex(b) => local'[n] = NoManifest
                                    /\ n # PerArchIndex(b) => local'[n] = local[n]
        BY <3>2
      <4>2. \A o \in Builds : o # b /\ Keeper(o) => Keeper(o)'
        BY <3>1, <3>2
      <4>3. QED
        BY <1>2, <2>0, <4>1, <4>2 DEF LocalOwned
    <3>3. CASE local' = local /\ rmFailed' = rmFailed \union {b}
      BY <2>1, <3>1, <3>3
    <3>4. QED
      BY <2>4, <3>2, <3>3 DEF RemovePerArchIndex
  <2>5. ASSUME NEW b \in Builds, \/ Begin(b) \/ VariantPushed(b) \/ WriteIndexManifest(b)
                                 \/ TagPushed(b) \/ Fail(b) \/ Refused(b) \/ Kill(b)
        PROVE  LocalOwned'
    <3>1. local' = local /\ rmFailed' = rmFailed /\ \A o \in Builds : o # b => pc'[o] = pc[o]
      BY <2>0, <2>5 DEF TypeOK, Begin, VariantPushed, WriteIndexManifest, TagPushed, Fail, Refused, Stop, Kill
    <3>2. pc[b] \in Holding \union {"rm", "killed"} => pc'[b] \in Holding \union {"rm", "killed"}
      BY <2>0, <2>5 DEF TypeOK, Begin, VariantPushed, WriteIndexManifest, TagPushed, Fail, Refused, Stop, Kill,
             Holding, Formats, Active, Ended
    <3>3. QED
      BY <2>1, <3>1, <3>2
  <2>6. ASSUME NEW b \in Builds, VariantLands(b) \/ TagLands(b)
        PROVE  LocalOwned'
    BY <2>1, <2>6 DEF VariantLands, TagLands
  <2>7. CASE Collect \/ Terminated \/ UNCHANGED vars
    BY <2>1, <2>7 DEF Collect, Terminated, vars
  <2>8. QED
    BY <1>2, <2>2, <2>3, <2>4, <2>5, <2>6, <2>7 DEF Next, Advance
<1>3. QED
  BY <1>1, <1>2, TypesAndStepsInductive, PTL DEF Spec

(* Whichever step of a build fails, its local index is removed before the  *)
(* build ends; it stays only where the removal failed or the process was   *)
(* killed.                                                                 *)
THEOREM LocalIndexAlwaysRemoved == Spec => []LocalIndexRemoved
<1>1. LocalOwned => LocalIndexRemoved
  BY DEF LocalOwned, LocalIndexRemoved, Active, Ended, Holding
<1>2. QED
  BY <1>1, LocalOwnedInductive, PTL

--------------------------------------------------------------------------------
(* Refusals.                                                               *)

(* A local index was made by a dual build that is past making it. *)
PastCreate == Holding \union {"rm", "killed", "end"}
IndexMade ==
    \A n \in DOMAIN local : local[n] # NoManifest =>
        \E b \in Builds : /\ PerArchIndex(b) = n /\ params[b].compression = "dual"
                         /\ pc[b] \in PastCreate

(* A build that is past making its index stays so. *)
LEMMA PastCreateKept ==
    ASSUME TypeOK, [Next]_vars, NEW o \in Builds, pc[o] \in PastCreate
    PROVE  pc'[o] \in PastCreate
<1>1. ASSUME NEW b \in Builds, Advance(b) \/ Fail(b) \/ Kill(b)
      PROVE  pc'[o] \in PastCreate
  BY <1>1 DEF TypeOK, PastCreate, Holding, Formats, Advance, Begin, VariantPushed, CreateIndex, AddVariant,
     Annotate, WriteIndexManifest, TagPushed, Fail, Refused, Blocked, Stop, RemovePerArchIndex, Kill,
     Active, Ended
<1>2. ASSUME NEW b \in Builds, VariantLands(b) \/ TagLands(b)
      PROVE  pc'[o] \in PastCreate
  BY <1>2 DEF VariantLands, TagLands
<1>3. CASE Collect \/ Terminated \/ UNCHANGED vars
  BY <1>3 DEF Collect, Terminated, vars
<1>4. QED
  BY <1>1, <1>2, <1>3 DEF Next

(* Only a dual build at its own index makes or fills one. *)
LEMMA LocalChange ==
    ASSUME TypesAndSteps, [Next]_vars, NEW n \in DOMAIN local, local'[n] # NoManifest
    PROVE  \/ local[n] # NoManifest
           \/ \E b \in Builds : /\ PerArchIndex(b) = n /\ params[b].compression = "dual"
                               /\ pc'[b] \in PastCreate
<1>0. TypeOK /\ \A b \in Builds : StepFits(b)
  BY DEF TypesAndSteps
<1>1. ASSUME NEW b \in Builds, CreateIndex(b) \/ Annotate(b) \/ \E f \in Formats : AddVariant(b, f)
      PROVE  \/ local[n] # NoManifest
             \/ PerArchIndex(b) = n /\ params[b].compression = "dual" /\ pc'[b] \in PastCreate
  <2>1. params[b].compression = "dual" /\ pc'[b] \in PastCreate
    BY <1>0, <1>1 DEF TypeOK, StepFits, DualSteps, Holding, PastCreate, CreateIndex, Annotate, AddVariant
  <2>2. n # PerArchIndex(b) => local'[n] = local[n]
    BY <1>1 DEF CreateIndex, Annotate, AddVariant
  <2>3. QED
    BY <2>1, <2>2
<1>2. ASSUME NEW b \in Builds, RemovePerArchIndex(b)
      PROVE  local[n] # NoManifest
  BY <1>2 DEF RemovePerArchIndex
<1>3. ASSUME NEW b \in Builds, \/ Begin(b) \/ VariantPushed(b) \/ WriteIndexManifest(b) \/ TagPushed(b)
                               \/ Refused(b) \/ Fail(b) \/ Kill(b) \/ VariantLands(b) \/ TagLands(b)
      PROVE  local[n] # NoManifest
  BY <1>3 DEF Begin, VariantPushed, WriteIndexManifest, TagPushed, Refused, Fail, Stop, Kill, VariantLands,
     TagLands
<1>4. CASE Collect \/ Terminated \/ UNCHANGED vars
  BY <1>4 DEF Collect, Terminated, vars
<1>5. QED
  BY <1>1, <1>2, <1>3, <1>4 DEF Next, Advance

(* IndexMade holds throughout. *)
LEMMA IndexMadeInductive == Spec => []IndexMade
<1>1. Init => IndexMade
  BY DEF Init, IndexMade
<1>2. ASSUME TypesAndSteps, IndexMade, [Next]_vars
      PROVE  IndexMade'
  <2>0. TypeOK /\ params' = params /\ \A b : PerArchIndex(b)' = PerArchIndex(b)
    BY <1>2, ParamsFixed DEF TypesAndSteps, PerArchIndex
  <2>1. DOMAIN local' = DOMAIN local
    BY <1>2 DEF Next, Advance, Begin, VariantPushed, CreateIndex, AddVariant, Annotate, WriteIndexManifest,
       TagPushed, Fail, Refused, Stop, RemovePerArchIndex, VariantLands, TagLands, Kill, Collect,
       Terminated, vars
  <2>2. ASSUME NEW n \in DOMAIN local, local'[n] # NoManifest
        PROVE  \E b \in Builds : /\ PerArchIndex(b) = n /\ params[b].compression = "dual"
                                /\ pc'[b] \in PastCreate
    BY <1>2, <2>0, <2>2, LocalChange, PastCreateKept DEF IndexMade
  <2>3. QED
    BY <2>0, <2>1, <2>2 DEF IndexMade, PastCreate, Holding
<1>3. QED
  BY <1>1, <1>2, TypesAndStepsInductive, PTL DEF Spec

(* A step is refused only when another build drew the same suffix. *)
LEMMA RefusedShared ==
    ASSUME TypesAndSteps, LocalInv, AnchorInv, IndexMade, NEW b \in Builds, Blocked(b)
    PROVE  SuffixShared(b)
<1>0. TypeOK /\ StepFits(b) /\ LocalFits(b) /\ Anchored(b)
  BY DEF TypesAndSteps, LocalInv, AnchorInv
<1>1. CASE pc[b] = "create" /\ local[PerArchIndex(b)] # NoManifest
  <2>1. PerArchIndex(b) \in DOMAIN local
    BY <1>0, ParamTypes DEF TypeOK
  <2>2. PICK o \in Builds : /\ PerArchIndex(o) = PerArchIndex(b) /\ params[o].compression = "dual"
                            /\ pc[o] \in PastCreate
    BY <1>1, <2>1 DEF IndexMade
  <2>3. o # b /\ params[o].outputTag = params[b].outputTag /\ suffix[o] = suffix[b]
    BY <1>1, <2>2 DEF PerArchIndex, PastCreate, Holding
  <2>4. QED
    BY <2>2, <2>3 DEF SuffixShared
<1>2. ASSUME NEW f \in Formats, pc[b] \in {"add gzip", "add zstd"}, Image(b, f) \notin stored
      PROVE  SuffixShared(b)
  BY <1>0, <1>2 DEF Anchored, VariantsPushed
<1>3. CASE pc[b] = "index" /\ Pushable(b) = {}
  <2>1. Pushable(b) = {m \in {WholeIndex(b)} : Children(m) \subseteq stored}
    BY <1>0, <1>3 DEF Pushable, LocalFits
  <2>2. ~(Children(WholeIndex(b)) \subseteq stored)
    BY <1>3, <2>1
  <2>3. Children(WholeIndex(b)) = {Image(b, "gzip"), Image(b, "zstd")}
    <3>1. Range(<<Image(b, "gzip"), Image(b, "zstd")>>) = {Image(b, "gzip"), Image(b, "zstd")}
      BY DEF Range
    <3>2. QED
      BY <3>1, WholeIndexChildren
  <2>4. \E f \in Formats : Image(b, f) \notin stored
    BY <2>2, <2>3 DEF Formats
  <2>5. QED
    BY <1>0, <1>3, <2>4 DEF Anchored, VariantsPushed
<1>4. QED
  BY <1>1, <1>2, <1>3 DEF Blocked, Formats

(* Whatever killed builds have left in the storage and however eagerly the *)
(* registry collects, no step of a build is refused, unless another dual   *)
(* build of the same tag drew the same random suffix.                      *)
THEOREM BuildsNeverRefused == Spec => []NeverRefused
<1>1. Init => NeverRefused
  BY DEF Init, NeverRefused
<1>2. ASSUME TypesAndSteps, LocalInv, AnchorInv, IndexMade, NeverRefused, [Next]_vars
      PROVE  NeverRefused'
  <2>0. TypeOK /\ \A b \in Builds : SuffixShared(b)' = SuffixShared(b)
    BY <1>2, ParamsFixed DEF TypesAndSteps, SuffixShared
  <2>1. ASSUME NEW b \in Builds, Refused(b)
        PROVE  NeverRefused'
    <3>1. SuffixShared(b)
      BY <1>2, <2>1, RefusedShared DEF Refused
    <3>2. \A o \in Builds : o # b => outcome'[o] = outcome[o]
      BY <2>0, <2>1 DEF TypeOK, Refused, Stop
    <3>3. QED
      BY <1>2, <2>0, <3>1, <3>2 DEF NeverRefused
  <2>2. ASSUME \A b \in Builds : ~Refused(b), NEW o \in Builds
        PROVE  outcome'[o] = "refused" => outcome[o] = "refused"
    <3>1. \A b \in Builds : (Fail(b) \/ TagPushed(b)) =>
             \E v \in {"error", "ok", outcome[b]} : outcome' = [outcome EXCEPT ![b] = v]
      BY DEF Fail, Stop, TagPushed
    <3>2. outcome' = outcome \/ \E b \in Builds : Fail(b) \/ TagPushed(b)
      <4>1. \A b \in Builds : (Begin(b) \/ VariantPushed(b) \/ CreateIndex(b) \/ (\E f \in Formats : AddVariant(b, f))
                               \/ Annotate(b) \/ WriteIndexManifest(b) \/ RemovePerArchIndex(b)) => outcome' = outcome
        BY DEF Begin, VariantPushed, CreateIndex, AddVariant, Annotate, WriteIndexManifest, RemovePerArchIndex
      <4>2. \A b \in Builds : (VariantLands(b) \/ TagLands(b) \/ Kill(b)) => outcome' = outcome
        BY DEF VariantLands, TagLands, Kill
      <4>3. (Collect \/ Terminated \/ UNCHANGED vars) => outcome' = outcome
        BY DEF Collect, Terminated, vars
      <4>4. QED
        BY <1>2, <2>2, <4>1, <4>2, <4>3, Zenon DEF Next, Advance
    <3>3. outcome \in [Builds -> {"none", "ok", "error", "refused"}]
      BY <2>0 DEF TypeOK
    <3>4. QED
      BY <3>1, <3>2, <3>3
  <2>3. QED
    BY <1>2, <2>0, <2>1, <2>2 DEF NeverRefused
<1>3. QED
  BY <1>1, <1>2, TypesAndStepsInductive, LocalFitsInductive, AnchoredInductive, IndexMadeInductive, PTL
     DEF Spec

--------------------------------------------------------------------------------
(* The refinement.                                                         *)

(* A whole image belongs to one build. *)
LEMMA WholeImageOwner ==
    ASSUME NEW b \in Builds, NEW o \in Builds, NEW m \in WholeImageOf(b), m \in WholeImageOf(o)
    PROVE  b = o
<1>1. \A x \in Builds : m \in WholeImageOf(x) => m.entries[1].build = x
  <2>1. \A x \in Builds : WholeIndex(x).entries[1].build = x
    BY DEF WholeIndex, Index, Entry
  <2>2. \A x \in Builds, f \in Formats : Image(x, f).entries[1].build = x
    BY DEF Image, Entry
  <2>3. QED
    BY <2>1, <2>2 DEF WholeImageOf
<1>2. QED
  BY <1>1

(* The build whose image a tag names, as the refinement mapping has it. *)
Named(t) == IF tag[t] = NoManifest THEN "no build"
            ELSE IF \E b \in Builds : tag[t] \in WholeImageOf(b)
            THEN CHOOSE b \in Builds : tag[t] \in WholeImageOf(b)
            ELSE "not an image"

(* A push makes its tag name its build and leaves the other tags alone. *)
LEMMA PushNames ==
    ASSUME TypesAndSteps, LocalInv, [Next]_vars, NEW b \in Builds, TagLands(b) \/ TagPushed(b)
    PROVE  [t \in Tags |-> Named(t)]' = [[t \in Tags |-> Named(t)] EXCEPT ![Head(todo[b])] = b]
<1>1. PICK m \in WholeImageOf(b) : m # NoManifest /\ Put(b, Head(todo[b]), m)
  BY PushStep
<1>2. PICK h \in Tags : h = Head(todo[b])
  BY PushStep
<1>3. \A o \in Builds : WholeImageOf(o)' = WholeImageOf(o)
  BY ParamsFixed DEF WholeImageOf
<1>4. tag'[h] = m /\ \A t \in Tags : t # h => tag'[t] = tag[t]
  BY <1>1, <1>2 DEF TypesAndSteps, TypeOK, Put
<1>5. \A t \in Tags : t # h => Named(t)' = Named(t)
  <2>1. TAKE t \in Tags
  <2>2. HAVE t # h
  <2>3. tag'[t] = tag[t]
    BY <1>4, <2>2
  <2>4. (CHOOSE o \in Builds : tag[t] \in WholeImageOf(o))' = CHOOSE o \in Builds : tag[t] \in WholeImageOf(o)
    BY <1>3, <2>3
  <2>5. QED
    BY <1>3, <2>3, <2>4, Zenon DEF Named
<1>6. Named(h)' = b
  <2>1. \A o \in Builds : tag'[h] \in WholeImageOf(o)' <=> o = b
    BY <1>1, <1>3, <1>4, WholeImageOwner
  <2>2. (CHOOSE o \in Builds : tag'[h] \in WholeImageOf(o)') = b
    BY <2>1
  <2>3. QED
    BY <1>1, <1>4, <2>1, <2>2 DEF Named
<1>7. QED
  BY <1>2, <1>5, <1>6

(* Pushing implements PublishedTags: to the users of the repository a tag  *)
(* moves in one step from one complete image to another, and a build       *)
(* reports success only when all its tags are published.                   *)
THEOREM PushesPublishTags == Spec => ImplementsPublishedTags
<1>1. ASSUME Init
      PROVE  PT!Init
  <2>1. [b \in Builds |-> TagsOf(b)] \in [Builds -> SUBSET Tags]
    <3>1. ASSUME NEW b \in Builds
          PROVE  TagsOf(b) \subseteq Tags
      <4>1. params[b] \in [host: Hosts, outputTag: Tags, additionalTags: Seq(Tags),
                           compression: Formats \union {"dual"}, indexManifestOutput: BOOLEAN]
        BY <1>1, ImagePushAssumption DEF Init
      <4>2. <<params[b].outputTag>> \in Seq(Tags) /\ params[b].additionalTags \in Seq(Tags)
        BY <4>1
      <4>3. TagsToPush(b) \in Seq(Tags)
        BY <4>2, ConcatProperties DEF TagsToPush
      <4>4. QED
        BY <4>3 DEF TagsOf, Range
    <3>2. QED
      BY <3>1
  <2>2. \A t \in Tags : Named(t) = "no build"
    BY <1>1 DEF Init, Named
  <2>3. {b \in Builds : outcome[b] = "ok"} = {}
    BY <1>1 DEF Init
  <2>4. published = [b \in Builds |-> {}]
    BY <1>1 DEF Init
  <2>5. QED
    BY <2>1, <2>2, <2>3, <2>4 DEF PT!Init, PT!NoBuild, Named
<1>2. ASSUME TypesAndSteps, LocalInv, TodoInv, [Next]_vars
      PROVE  [PT!Next]_(PT!pvars)
  <2> DEFINE names == [t \in Tags |-> Named(t)]
             wanted == [b \in Builds |-> TagsOf(b)]
             reported == {b \in Builds : outcome[b] = "ok"}
  <2>0. /\ TypeOK /\ wanted' = wanted
        /\ \A b \in Builds : StepFits(b) /\ TodoFits(b)
    BY <1>2, ParamsFixed DEF TypesAndSteps, TodoInv, TagsOf, TagsToPush
  <2>1. ASSUME NEW b \in Builds, TagLands(b) \/ TagPushed(b)
        PROVE  PT!Next
    <3>1. /\ names' = [names EXCEPT ![Head(todo[b])] = b]
          /\ published' = [published EXCEPT ![b] = @ \union {Head(todo[b])}]
      BY <1>2, <2>1, PushNames, PushStep DEF Put
    <3>2. /\ todo[b] # <<>> /\ todo[b] \in Seq(Tags)
          /\ Range(todo[b]) = {Head(todo[b])} \union Range(Tail(todo[b]))
      BY <1>2, <2>1, PushStep, RangeHeadTail
    <3>3. PICK h \in wanted[b] : h = Head(todo[b])
      BY <2>0, <3>2 DEF TodoFits
    <3>4. outcome[b] = "none"
      BY <2>0, <2>1 DEF StepFits, TagLands, TagPushed
    <3>5. \A o \in Builds : o # b => outcome'[o] = outcome[o]
      BY <2>0, <2>1 DEF TypeOK, TagLands, TagPushed
    <3>6. CASE outcome'[b] # "ok"
      <4>1. reported' = reported /\ b \notin reported
        BY <3>4, <3>5, <3>6
      <4>2. PT!Publish(b, h)
        BY <2>0, <3>1, <3>3, <4>1 DEF PT!Publish, Named
      <4>3. QED
        BY <3>3, <4>2, Zenon DEF PT!Next
    <3>7. CASE outcome'[b] = "ok"
      <4>1. reported' = reported \union {b} /\ b \notin reported
        BY <3>4, <3>5, <3>7
      <4>2. Tail(todo[b]) = <<>>
        BY <2>0, <2>1, <3>4, <3>7 DEF TypeOK, TagLands, TagPushed, RemainingTags
      <4>3. Range(<<>>) = {}
        BY DEF Range
      <4>4. published[b] \union {Head(todo[b])} = wanted[b]
        BY <2>0, <3>2, <4>2, <4>3 DEF TodoFits
      <4>5. PT!PublishAndReport(b, h)
        BY <2>0, <3>1, <3>3, <4>1, <4>4 DEF PT!PublishAndReport, Named
      <4>6. QED
        BY <3>3, <4>5, Zenon DEF PT!Next
    <3>8. QED
      BY <3>6, <3>7
  <2>2. ASSUME \A b \in Builds : ~TagLands(b) /\ ~TagPushed(b)
        PROVE  UNCHANGED PT!pvars
    <3>1. tag' = tag /\ published' = published
      BY <1>2, <2>2, OtherStep
    <3>2. \A b \in Builds : WholeImageOf(b)' = WholeImageOf(b)
      BY <1>2, ParamsFixed DEF WholeImageOf
    <3>3. names' = names
      BY <3>1, <3>2, Zenon DEF Named
    <3>4. \A b \in Builds : outcome'[b] = "ok" <=> outcome[b] = "ok"
      BY <1>2, <2>0, <2>2, ZenonT(60) DEF TypeOK, StepFits, Next, Advance, Begin, VariantPushed, CreateIndex,
         AddVariant,
         Annotate, WriteIndexManifest, Fail, Refused, Blocked, Stop, RemovePerArchIndex, VariantLands, Kill, Collect,
         Terminated, vars,
         Active, Ended
    <3>5. reported' = reported
      BY <3>4
    <3>6. QED
      BY <2>0, <3>1, <3>3, <3>5 DEF PT!pvars, Named
  <2>3. QED
    BY <2>1, <2>2
<1>3. QED
  BY <1>1, <1>2, TypesAndStepsInductive, LocalFitsInductive, TodoFitsInductive, PTL
     DEF Spec, ImplementsPublishedTags, PT!Spec
================================================================================
