---------------------------- MODULE ImageIndexProofs ----------------------------
(***************************************************************************)
(* Theorems about ImageIndex for any number of runs, hosts, tags and       *)
(* images.  A run owns its manifest list from 'manifest create' on         *)
(* (OwnList), so what it pushes does not change between its pushes; the    *)
(* inductive invariant RunFits follows that manifest into the tags, the    *)
(* digest and the images the run reports.                                  *)
(***************************************************************************)
EXTENDS ImageIndex, SequenceTheorems, TLAPS

(* What a run has yet to do is a list of references, or of tags. *)
TodoFits(r) ==
    /\ pc[r] \in {"create", "add"} => todo[r] \in Seq(References) /\ todo[r] # <<>>
    /\ pc[r] = "push" => todo[r] \in Seq(Tags) /\ todo[r] # <<>>
    /\ pc[r] = "copy" => todo[r] \in Seq(Tags)

(* The steps at which a run uses its manifest list. *)
Building == {"add", "inspect", "push", "results"}

OwnList ==
    /\ \A r \in Runs : pc[r] \in Building => local[ManifestName(r)].kind = "index"
    /\ \A r, o \in Runs : /\ pc[r] \in Building /\ pc[o] \in Building
                          /\ ManifestName(r) = ManifestName(o)
                          => r = o

(* Nothing is reported or set before the pushes. *)
BeforePush(r) ==
    /\ pc[r] \in {"create", "single", "add", "inspect"} => moved[r] = {} /\ digest[r] = NoManifest
    /\ pc[r] = "single" => Single(r)
    /\ r \in indexed => pc[r] \in {"label", "copy", "end"}
    /\ r \in tagged => pc[r] = "end"

(* While a run pushes, everything it has set is what it would push next. *)
PushFits(r) ==
    pc[r] \in {"push", "results"} =>
        /\ inspected[r] = local[ManifestName(r)]
        /\ FormatsConsistent(local[ManifestName(r)], params[r].format)
        /\ digest[r] \in {NoManifest, Pushed(r)}
        /\ pc[r] = "results" => digest[r] = Pushed(r)
        /\ \A p \in moved[r] : p[2] = Pushed(r)
        /\ \A t \in IndexTags(r) : \/ <<t, Pushed(r)>> \in moved[r]
                                   \/ pc[r] = "push" /\ t \in Range(todo[r])

NewTagsOf(r) == Range(params[r].newTags) \union Range(params[r].label)

(* While a run applies tags, everything it has set is the digest. *)
TagsFit(r) ==
    /\ pc[r] \in {"label", "copy"} => \A p \in moved[r] : p[2] = digest[r]
    /\ pc[r] = "copy" => \A t \in NewTagsOf(r) : \/ <<t, digest[r]>> \in moved[r]
                                                 \/ t \in Range(todo[r])

ResultsFit(r) ==
    /\ r \in indexed /\ ~Single(r) =>
          /\ images[r] = Children(digest[r])
          /\ \A t \in IndexTags(r) : <<t, digest[r]>> \in moved[r]
    /\ r \in tagged => \A t \in NewTagsOf(r) : <<t, digest[r]>> \in moved[r]

OneManifest(r) == \A p, q \in moved[r] : p[2] = q[2]

RunFits(r) == BeforePush(r) /\ PushFits(r) /\ TagsFit(r) /\ ResultsFit(r) /\ OneManifest(r)

--------------------------------------------------------------------------------
(* Tags and manifests of the registry.                                     *)

(* A tag never names a manifest, or an index one of whose images, is not   *)
(* in the repository of the tag: pushes store images before the tag moves, *)
(* copies need them, and the registry collects only what no tag reaches.   *)
THEOREM TagsNeverDangle == Spec => []NoDanglingTags
<1>1. ASSUME Init
      PROVE  NoDanglingTags
  <2>1. PICK named \in [PlatformTags -> PlatformImages] :
            tag = [n \in {IndexRepo, PlatformRepo} \X (Tags \union PlatformTags) |->
                      IF n[1] = PlatformRepo /\ n[2] \in PlatformTags THEN named[n[2]] ELSE NoManifest]
    BY <1>1 DEF Init
  <2>2. \A m \in PlatformImages : \A c \in {m} \union Children(m) : <<PlatformRepo, c>> \in holds
    BY <1>1 DEF Init
  <2>3. \A n \in DOMAIN tag : tag[n] # NoManifest => n[1] = PlatformRepo /\ tag[n] \in PlatformImages
    BY <2>1
  <2>4. QED
    BY <2>2, <2>3 DEF NoDanglingTags
<1>2. ASSUME NoDanglingTags, [Next]_vars
      PROVE  NoDanglingTags'
  <2> DEFINE Whole(n, m) == \A c \in {m} \union Children(m) : <<n[1], c>> \in holds
  <2>1. ASSUME NEW x, NEW m, tag' = [tag EXCEPT ![x] = m], holds \subseteq holds', Whole(x, m)'
        PROVE  NoDanglingTags'
    <3>1. \A n \in DOMAIN tag' : n \in DOMAIN tag /\ (tag'[n] = tag[n] \/ (n = x /\ tag'[n] = m))
      BY <2>1
    <3>2. QED
      BY <1>2, <2>1, <3>1 DEF NoDanglingTags
  <2>2. ASSUME tag' = tag, holds' = holds
        PROVE  NoDanglingTags'
    BY <1>2, <2>2 DEF NoDanglingTags
  <2>3. ASSUME NEW r \in Runs, PushLands(r) \/ ManifestPush(r)
        PROVE  NoDanglingTags'
    <3>1. Put(r, Head(todo[r]), Pushed(r))
      BY <2>3 DEF PushLands, ManifestPush
    <3>2. PICK x, m : x = <<IndexRepo, Head(todo[r])>> /\ m = Pushed(r)
      OBVIOUS
    <3>3. tag' = [tag EXCEPT ![x] = m] /\ holds' = holds \union {<<IndexRepo,
    c>> : c \in {m} \union Children(m)}
      BY <3>1, <3>2 DEF Put
    <3>4. QED
      BY <2>1, <3>2, <3>3
  <2>4. ASSUME NEW r \in Runs, CopyLands(r) \/ CopyTag(r)
        PROVE  NoDanglingTags'
    <3>1. Retag(r, Head(todo[r]))
      BY <2>4 DEF CopyLands, CopyTag
    <3>2. PICK x, m : x = <<ResultRepo(r), Head(todo[r])>> /\ m = digest[r]
      OBVIOUS
    <3>3. /\ tag' = [tag EXCEPT ![x] = m] /\ holds' = holds
          /\ \A c \in {m} \union Children(m) : <<x[1], c>> \in holds
      BY <3>1, <3>2 DEF Retag
    <3>4. QED
      BY <2>1, <3>3
  <2>5. CASE MovePlatformTag
    <3>1. PICK t \in PlatformTags, m \in PlatformImages :
              /\ holds' = holds \union {<<PlatformRepo, c>> : c \in {m} \union Children(m)}
              /\ tag' = [tag EXCEPT ![<<PlatformRepo, t>>] = m]
      BY <2>5 DEF MovePlatformTag
    <3>2. PICK x : x = <<PlatformRepo, t>>
      OBVIOUS
    <3>3. QED
      BY <2>1, <3>1, <3>2
  <2>6. CASE Collect
    <3>1. PICK h \in holds : h[2] \notin Reachable(h[1]) /\ holds' = holds \ {h}
      BY <2>6 DEF Collect
    <3>2. tag' = tag
      BY <2>6 DEF Collect
    <3>3. ASSUME NEW n \in DOMAIN tag, tag[n] # NoManifest,
                 NEW c \in {tag[n]} \union Children(tag[n])
          PROVE  <<n[1], c>> \in holds'
      <4>1. c \in Reachable(n[1])
        BY <3>3 DEF Reachable
      <4>2. <<n[1], c>> # h
        BY <3>1, <4>1
      <4>3. <<n[1], c>> \in holds
        BY <1>2, <3>3 DEF NoDanglingTags
      <4>4. QED
        BY <3>1, <4>2, <4>3
    <3>4. QED
      BY <3>2, <3>3 DEF NoDanglingTags
  <2>7. ASSUME NEW r \in Runs,
               \/ ManifestCreate(r) \/ ReturnSingle(r) \/ ManifestAdd(r) \/ Inspect(r)
                               \/ ReportIndex(r) \/ ReadLabel(r) \/ ReportTags(r) \/ Fail(r)
        PROVE  NoDanglingTags'
    BY <2>2, <2>7 DEF ManifestCreate, ReturnSingle, ManifestAdd, Inspect, ReportIndex, ReadLabel,
       ReportTags,
           Fail, registry
  <2>8. CASE Terminated \/ UNCHANGED vars
    BY <2>2, <2>8 DEF Terminated, vars, registry
  <2>9. QED
    BY <1>2, <2>3, <2>4, <2>5, <2>6, <2>7, <2>8 DEF Next, Step
<1>3. QED
  BY <1>1, <1>2, PTL DEF Spec

--------------------------------------------------------------------------------
(* Types.                                                                  *)

(* Converting an image to its own format is the identity. *)
LEMMA Conversion ==
    ASSUME NEW x \in Converted
    PROVE  /\ \A f \in Formats : [x EXCEPT !.format = f] \in Converted
           /\ [x EXCEPT !.format = x.format] = x
<1>1. PICK i \in AllImages, g \in Formats : x = [i EXCEPT !.format = g]
  BY DEF Converted
<1>2. i = [arch |-> i.arch, format |-> i.format]
  BY ImageIndexAssumption
<1>3. x = [arch |-> i.arch, format |-> g]
  BY <1>1, <1>2
<1>4. \A f \in Formats : [x EXCEPT !.format = f] = [i EXCEPT !.format = f]
  BY <1>2, <1>3
<1>5. QED
  BY <1>3, <1>4 DEF Converted

(* A sequence over a larger set is one over any set that has its elements. *)
LEMMA SeqOver ==
    ASSUME NEW S, NEW T, NEW s \in Seq(S), \A i \in DOMAIN s : s[i] \in T
    PROVE  s \in Seq(T)
<1>1. Len(s) \in Nat /\ DOMAIN s = 1 .. Len(s) /\ s \in [1 .. Len(s) -> S]
  BY LenProperties
<1>2. s \in [1 .. Len(s) -> T]
  BY <1>1
<1>3. QED
  BY <1>1, <1>2, SeqDef

LEMMA ManifestTypes ==
    /\ PlatformImages \subseteq Manifests
    /\ NoManifest \in Manifests
    /\ \A is \in SUBSET Converted : Index(is) \in Manifests
    /\ \A m \in Manifests : Children(m) \subseteq Manifests /\ m.images \subseteq Converted
<1>1. AllImages \subseteq Converted
  <2>1. ASSUME NEW i \in AllImages
        PROVE  i \in Converted
    <3>1. i = [arch |-> i.arch, format |-> i.format] /\ i.format \in Formats
      BY ImageIndexAssumption
    <3>2. [i EXCEPT !.format = i.format] = i
      BY <3>1
    <3>3. QED
      BY <3>1, <3>2 DEF Converted
  <2>2. QED
    BY <2>1
<1>2. PlatformImages \subseteq Manifests
  BY <1>1, ImageIndexAssumption DEF Manifests
<1>3. NoManifest \in Manifests /\ \A is \in SUBSET Converted : Index(is) \in Manifests
  BY DEF NoManifest, Index, Manifests
<1>4. \A i \in Converted : Image(i) \in Manifests
  BY DEF Image, Manifests
<1>5. \A m \in Manifests : m.images \subseteq Converted
  BY DEF Manifests
<1>6. QED
  BY <1>2, <1>3, <1>4, <1>5 DEF Children

LEMMA ParamTypes ==
    ASSUME params \in [Runs -> ParamSet], NEW r \in Runs
    PROVE  /\ ManifestName(r) \in Hosts \X Tags
           /\ params[r].format \in Formats /\ params[r].image \in Tags
           /\ params[r].additionalTags \in Seq(Tags) /\ params[r].newTags \in Seq(Tags)
           /\ params[r].label \in Seq(Tags \union {"not a tag"})
           /\ params[r].images \in Seq(References) /\ params[r].images # <<>>
  BY ImageIndexAssumption DEF ManifestName

(* No step changes the parameters of a run. *)
LEMMA ParamsFixed ==
    ASSUME [Next]_vars
    PROVE  params' = params
  BY DEF Next, Step, ManifestCreate, ReturnSingle, ManifestAdd, Inspect, PushLands, ManifestPush,
     ReportIndex,
         ReadLabel, CopyLands, CopyTag, ReportTags, Fail, MovePlatformTag, Collect, Terminated, vars

(* What a reference names and what a run pushes are manifests. *)
LEMMA StepTypes ==
    ASSUME TypeOK, NEW r \in Runs
    PROVE  /\ \A ref \in References : Resolve(ref) \in Manifests
           /\ local[ManifestName(r)] \in Manifests
           /\ Pushed(r) \in Manifests
<1>1. local[ManifestName(r)] \in Manifests
  BY ParamTypes DEF TypeOK
<1>2. \A ref \in References : Resolve(ref) \in Manifests
  <2>1. TAKE ref \in References
  <2>2. CASE ref.by = "digest"
    BY <2>2, ManifestTypes DEF References, Resolve
  <2>3. CASE ref.by = "tag"
    BY <2>3 DEF References, Resolve, TypeOK
  <2>4. QED
    BY <2>2, <2>3 DEF References
<1>3. {[i EXCEPT !.format = params[r].format] : i \in local[ManifestName(r)].images} \in SUBSET Converted
  <2>1. local[ManifestName(r)].images \subseteq Converted /\ params[r].format \in Formats
    BY <1>1, ManifestTypes, ParamTypes DEF TypeOK
  <2>2. \A i \in Converted : [i EXCEPT !.format = params[r].format] \in Converted
    BY <2>1, Conversion
  <2>3. QED
    BY <2>1, <2>2
<1>4. Pushed(r) \in Manifests
  BY <1>3, ManifestTypes DEF Pushed
<1>5. QED
  BY <1>1, <1>2, <1>4

TypesAndTodo == TypeOK /\ \A r \in Runs : TodoFits(r)

LEMMA TypesAndTodoInductive == Spec => []TypesAndTodo
<1>1. ASSUME Init
      PROVE  TypesAndTodo
  <2>1. params \in [Runs -> ParamSet]
    BY <1>1 DEF Init
  <2>2. tag \in [{IndexRepo, PlatformRepo} \X (Tags \union PlatformTags) -> Manifests]
    <3>1. PICK named \in [PlatformTags -> PlatformImages] :
            tag = [n \in {IndexRepo, PlatformRepo} \X (Tags \union PlatformTags) |->
                      IF n[1] = PlatformRepo /\ n[2] \in PlatformTags THEN named[n[2]] ELSE NoManifest]
      BY <1>1 DEF Init
    <3>2. QED
      BY <3>1, ManifestTypes
  <2>3. holds \subseteq {IndexRepo, PlatformRepo} \X Manifests
    <3>1. \A m \in PlatformImages : \A c \in {m} \union Children(m) : c \in Manifests
      BY ManifestTypes
    <3>2. QED
      BY <1>1, <3>1 DEF Init
  <2>4. TypeOK
    BY <1>1, <2>1, <2>2, <2>3, ManifestTypes DEF Init, TypeOK
  <2>5. \A r \in Runs : TodoFits(r)
    BY <1>1, <2>1, ParamTypes DEF Init, TodoFits
  <2>6. QED
    BY <2>4, <2>5 DEF TypesAndTodo
<1>2. ASSUME TypesAndTodo, [Next]_vars
      PROVE  TypesAndTodo'
  <2>0. TypeOK /\ (\A r \in Runs : TodoFits(r)) /\ params' = params
    BY <1>2, ParamsFixed DEF TypesAndTodo
  <2>1. ASSUME NEW r \in Runs, ManifestCreate(r)
        PROVE  TypesAndTodo'
    <3>1. TypeOK'
      BY <2>0, <2>1, ManifestTypes DEF TypeOK, ManifestCreate, Goto, registry
    <3>2. \A o \in Runs : TodoFits(o)'
      BY <2>0, <2>1 DEF TypeOK, TodoFits, ManifestCreate, Goto
    <3>3. QED
      BY <3>1, <3>2 DEF TypesAndTodo
  <2>2. ASSUME NEW r \in Runs, ReturnSingle(r)
        PROVE  TypesAndTodo'
    <3>1. params[r].images[1] \in References
      <4>1. params[r].images \in Seq(References) /\ params[r].images # <<>>
        BY <2>0, ParamTypes DEF TypeOK
      <4>2. Len(params[r].images) \in Nat \ {0}
        BY <4>1, EmptySeq
      <4>3. 1 \in 1 .. Len(params[r].images)
        BY <4>2
      <4>4. QED
        BY <4>1, <4>3, ElementOfSeq
    <3>2. params[r].images[1].by = "digest" => params[r].images[1].id \in Manifests
      BY <3>1, ManifestTypes DEF References
    <3>3. TypeOK'
      BY <2>0, <2>2, <3>2, ManifestTypes DEF TypeOK, ReturnSingle, Goto, registry
    <3>4. \A o \in Runs : TodoFits(o)'
      BY <2>0, <2>2 DEF TypeOK, TodoFits, ReturnSingle, Goto
    <3>5. QED
      BY <3>3, <3>4 DEF TypesAndTodo
  <2>3. ASSUME NEW r \in Runs, ManifestAdd(r)
        PROVE  TypesAndTodo'
    <3>1. todo[r] \in Seq(References) /\ todo[r] # <<>>
      BY <2>0, <2>3 DEF TodoFits, ManifestAdd
    <3>2. Head(todo[r]) \in References /\ Tail(todo[r]) \in Seq(References)
      BY <3>1, HeadTailProperties
    <3>3. Index(local[ManifestName(r)].images \union Resolve(Head(todo[r])).images) \in Manifests
      <4>1. Resolve(Head(todo[r])) \in Manifests /\ local[ManifestName(r)] \in Manifests
        BY <2>0, <3>2, StepTypes
      <4>2. QED
        BY <4>1, ManifestTypes
    <3>4. TypeOK'
      BY <2>0, <2>3, <3>3 DEF TypeOK, ManifestAdd, Goto, registry
    <3>5. \A o \in Runs : TodoFits(o)'
      BY <2>0, <2>3, <3>2 DEF TypeOK, TodoFits, ManifestAdd, Goto
    <3>6. QED
      BY <3>4, <3>5 DEF TypesAndTodo
  <2>4. ASSUME NEW r \in Runs, Inspect(r)
        PROVE  TypesAndTodo'
    <3>1. local[ManifestName(r)] \in Manifests
      BY <2>0, StepTypes
    <3>2. TypeOK'
      BY <2>0, <2>4, <3>1 DEF TypeOK, Inspect, Goto, registry
    <3>3. params[r].image \in Tags /\ params[r].additionalTags \in Seq(Tags)
      BY <2>0, ParamTypes DEF TypeOK
    <3>4. <<params[r].image>> \in Seq(Tags) /\ <<params[r].image>> # <<>>
      BY <3>3
    <3>5. <<params[r].image>> \o params[r].additionalTags \in Seq(Tags) \ {<<>>}
      BY <3>3, <3>4, ConcatProperties
    <3>6. \A o \in Runs : TodoFits(o)'
      BY <2>0, <2>4, <3>5 DEF TypeOK, TodoFits, Inspect, Goto
    <3>7. QED
      BY <3>2, <3>6 DEF TypesAndTodo
  <2>5. ASSUME NEW r \in Runs, PushLands(r) \/ ManifestPush(r)
        PROVE  TypesAndTodo'
    <3>1. Put(r, Head(todo[r]), Pushed(r)) /\ pc[r] = "push"
      BY <2>5 DEF PushLands, ManifestPush
    <3>2. todo[r] \in Seq(Tags) /\ Head(todo[r]) \in Tags /\ Tail(todo[r]) \in Seq(Tags)
      BY <2>0, <3>1, HeadTailProperties DEF TodoFits
    <3>3. Pushed(r) \in Manifests /\ Children(Pushed(r)) \subseteq Manifests
      BY <2>0, StepTypes, ManifestTypes
    <3>4. /\ holds' \subseteq {IndexRepo, PlatformRepo} \X Manifests
          /\ tag' \in [{IndexRepo, PlatformRepo} \X (Tags \union PlatformTags) -> Manifests]
          /\ moved' \in [Runs -> SUBSET (Tags \X Manifests)]
      BY <2>0, <3>1, <3>2, <3>3 DEF TypeOK, Put
    <3>5. TypeOK'
      <4>1. CASE PushLands(r)
        BY <2>0, <3>4, <4>1 DEF TypeOK, PushLands
      <4>2. CASE ManifestPush(r)
        BY <2>0, <3>3, <3>4, <4>2 DEF TypeOK, ManifestPush, Goto
      <4>3. QED
        BY <2>5, <4>1, <4>2
    <3>6. \A o \in Runs : TodoFits(o)'
      BY <2>0, <2>5, <3>2 DEF TypeOK, TodoFits, PushLands, ManifestPush, Goto
    <3>7. QED
      BY <3>5, <3>6 DEF TypesAndTodo
  <2>6. ASSUME NEW r \in Runs, ReportIndex(r)
        PROVE  TypesAndTodo'
    <3>1. Children(inspected[r]) \subseteq Manifests
      BY <2>0, ManifestTypes DEF TypeOK
    <3>2. TypeOK'
      BY <2>0, <2>6, <3>1 DEF TypeOK, ReportIndex, ExtractPlatformImages, Goto, registry
    <3>3. \A o \in Runs : TodoFits(o)'
      BY <2>0, <2>6 DEF TypeOK, TodoFits, ReportIndex, Goto
    <3>4. QED
      BY <3>2, <3>3 DEF TypesAndTodo
  <2>7. ASSUME NEW r \in Runs, ReadLabel(r)
        PROVE  TypesAndTodo'
    <3>1. todo' = [todo EXCEPT ![r] = params[r].newTags \o params[r].label] /\ Range(params[r].label) \subseteq Tags
      BY <2>7 DEF ReadLabel, TagsToApply, Valid
    <3>2. params[r].newTags \in Seq(Tags) /\ params[r].label \in Seq(Tags)
      <4>1. params[r].newTags \in Seq(Tags) /\ params[r].label \in Seq(Tags \union {"not a tag"})
        BY <2>0, ParamTypes DEF TypeOK
      <4>2. \A i \in DOMAIN params[r].label : params[r].label[i] \in Tags
        BY <3>1 DEF Range
      <4>3. params[r].label \in Seq(Tags)
        BY <4>1, <4>2, SeqOver
      <4>4. QED
        BY <4>1, <4>3
    <3>3. params[r].newTags \o params[r].label \in Seq(Tags)
      BY <3>2, ConcatProperties
    <3>4. TypeOK'
      BY <2>0, <2>7, <3>1 DEF TypeOK, ReadLabel, Goto, registry
    <3>5. \A o \in Runs : TodoFits(o)'
      BY <2>0, <2>7, <3>1, <3>3 DEF TypeOK, TodoFits, ReadLabel, Goto
    <3>6. QED
      BY <3>4, <3>5 DEF TypesAndTodo
  <2>8. ASSUME NEW r \in Runs, CopyLands(r) \/ CopyTag(r)
        PROVE  TypesAndTodo'
    <3>1. Retag(r, Head(todo[r])) /\ pc[r] = "copy" /\ todo[r] # <<>>
      BY <2>8 DEF CopyLands, CopyTag
    <3>2. todo[r] \in Seq(Tags) /\ Head(todo[r]) \in Tags /\ Tail(todo[r]) \in Seq(Tags)
      BY <2>0, <3>1, HeadTailProperties DEF TodoFits
    <3>3. /\ tag' \in [{IndexRepo, PlatformRepo} \X (Tags \union PlatformTags) -> Manifests]
          /\ moved' \in [Runs -> SUBSET (Tags \X Manifests)] /\ holds' = holds
      BY <2>0, <3>1, <3>2 DEF TypeOK, Retag
    <3>4. TypeOK'
      BY <2>0, <2>8, <3>3 DEF TypeOK, CopyLands, CopyTag
    <3>5. \A o \in Runs : TodoFits(o)'
      BY <2>0, <2>8, <3>2 DEF TypeOK, TodoFits, CopyLands, CopyTag
    <3>6. QED
      BY <3>4, <3>5 DEF TypesAndTodo
  <2>9. ASSUME NEW r \in Runs, ReportTags(r) \/ Fail(r)
        PROVE  TypesAndTodo'
    <3>1. TypeOK'
      BY <2>0, <2>9 DEF TypeOK, ReportTags, Fail, Goto, registry
    <3>2. \A o \in Runs : TodoFits(o)'
      BY <2>0, <2>9 DEF TypeOK, TodoFits, ReportTags, Fail, Goto
    <3>3. QED
      BY <3>1, <3>2 DEF TypesAndTodo
  <2>10. CASE MovePlatformTag
    <3>1. PICK t \in PlatformTags, m \in PlatformImages :
              /\ holds' = holds \union {<<PlatformRepo, c>> : c \in {m} \union Children(m)}
              /\ tag' = [tag EXCEPT ![<<PlatformRepo, t>>] = m]
      BY <2>10 DEF MovePlatformTag
    <3>2. m \in Manifests /\ Children(m) \subseteq Manifests
      BY ManifestTypes
    <3>3. /\ holds' \subseteq {IndexRepo, PlatformRepo} \X Manifests
          /\ tag' \in [{IndexRepo, PlatformRepo} \X (Tags \union PlatformTags) -> Manifests]
      BY <2>0, <3>1, <3>2 DEF TypeOK
    <3>4. QED
      BY <2>0, <2>10, <3>3 DEF TypesAndTodo, TypeOK, TodoFits, MovePlatformTag
  <2>11. CASE Collect \/ Terminated \/ UNCHANGED vars
    BY <2>0, <2>11 DEF TypesAndTodo, TypeOK, TodoFits, Collect, Terminated, vars, registry
  <2>12. QED
    BY <1>2, <2>1, <2>2, <2>3, <2>4, <2>5, <2>6, <2>7, <2>8, <2>9, <2>10, <2>11 DEF Next, Step
<1>3. QED
  BY <1>1, <1>2, PTL DEF Spec

(* Registry, local storage and the state of the runs keep their types. *)
THEOREM TypeCorrect == Spec => []TypeOK
<1>1. TypesAndTodo => TypeOK
  BY DEF TypesAndTodo
<1>2. QED
  BY <1>1, TypesAndTodoInductive, PTL

--------------------------------------------------------------------------------
(* The manifest list of a run.                                             *)

LEMMA OwnListInductive == Spec => []OwnList
<1>1. Init => OwnList
  BY DEF Init, OwnList, Building
<1>2. ASSUME TypeOK, OwnList, [Next]_vars
      PROVE  OwnList'
  <2>0. /\ \A r \in Runs : ManifestName(r)' = ManifestName(r)
        /\ \A r \in Runs : ManifestName(r) \in DOMAIN local
    BY <1>2, ParamsFixed, ParamTypes DEF TypeOK, ManifestName
  <2>1. ASSUME local' = local, \A o \in Runs : pc'[o] \in Building => pc[o] \in Building
        PROVE  OwnList'
    BY <1>2, <2>0, <2>1 DEF OwnList
  <2>2. ASSUME NEW r \in Runs, ManifestCreate(r)
        PROVE  OwnList'
    <3>1. local' = [local EXCEPT ![ManifestName(r)] = Index({})] /\ local[ManifestName(r)] = NoManifest
      BY <2>2 DEF ManifestCreate
    <3>2. \A o \in Runs : o # r => pc'[o] = pc[o]
      BY <1>2, <2>2 DEF TypeOK, ManifestCreate, Goto
    <3>3. \A o \in Runs : pc[o] \in Building => ManifestName(o) # ManifestName(r)
      BY <1>2, <3>1 DEF OwnList, NoManifest
    <3>4. Index({}).kind = "index"
      BY DEF Index
    <3>5. QED
      BY <1>2, <2>0, <3>1, <3>2, <3>3, <3>4 DEF OwnList
  <2>3. ASSUME NEW r \in Runs, ManifestAdd(r)
        PROVE  OwnList'
    <3>1. PICK is : local' = [local EXCEPT ![ManifestName(r)] = Index(is)]
      BY <2>3 DEF ManifestAdd
    <3>2. Index(is).kind = "index"
      BY DEF Index
    <3>3. \A o \in Runs : pc'[o] \in Building => pc[o] \in Building
      BY <1>2, <2>3 DEF TypeOK, ManifestAdd, Goto, Building
    <3>4. QED
      BY <1>2, <2>0, <3>1, <3>2, <3>3 DEF OwnList
  <2>4. ASSUME NEW r \in Runs,
               \/ ReturnSingle(r) \/ Inspect(r) \/ PushLands(r) \/ ManifestPush(r) \/ ReportIndex(r)
                               \/ ReadLabel(r) \/ CopyLands(r) \/ CopyTag(r) \/ ReportTags(r) \/ Fail(r)
        PROVE  OwnList'
    <3>1. local' = local /\ \A o \in Runs : pc'[o] \in Building => pc[o] \in Building
      BY <1>2, <2>4 DEF TypeOK, Building, Goto, ReturnSingle, Inspect, PushLands, ManifestPush,
         ReportIndex, ReadLabel,
             CopyLands, CopyTag, ReportTags, Fail
    <3>2. QED
      BY <2>1, <3>1
  <2>5. CASE MovePlatformTag \/ Collect \/ Terminated \/ UNCHANGED vars
    BY <2>1, <2>5 DEF MovePlatformTag, Collect, Terminated, vars
  <2>6. QED
    BY <1>2, <2>2, <2>3, <2>4, <2>5 DEF Next, Step
<1>3. QED
  BY <1>1, <1>2, TypeCorrect, PTL DEF Spec

(* A step of one run leaves the manifest list of every other alone. *)
LEMMA ListKept ==
    ASSUME TypeOK, OwnList, NEW r \in Runs, Step(r), NEW o \in Runs, o # r, pc[o] \in Building
    PROVE  local'[ManifestName(o)] = local[ManifestName(o)]
<1>1. CASE ManifestCreate(r)
  <2>1. ManifestName(o) # ManifestName(r)
    BY <1>1 DEF OwnList, ManifestCreate, NoManifest
  <2>2. QED
    BY <1>1, <2>1, ParamTypes DEF TypeOK, ManifestCreate
<1>2. CASE ManifestAdd(r)
  <2>1. ManifestName(o) # ManifestName(r)
    BY <1>2 DEF OwnList, ManifestAdd, Building
  <2>2. QED
    BY <1>2, <2>1, ParamTypes DEF TypeOK, ManifestAdd
<1>3. CASE ~ManifestCreate(r) /\ ~ManifestAdd(r)
  BY <1>3 DEF Step, ReturnSingle, Inspect, PushLands, ManifestPush, ReportIndex, ReadLabel,
         CopyLands, CopyTag, ReportTags, Fail
<1>4. QED
  BY <1>1, <1>2, <1>3

(* A step of one run leaves the state of every other alone. *)
LEMMA OthersKept ==
    ASSUME TypeOK, NEW r \in Runs, Step(r), NEW o \in Runs, o # r
    PROVE  /\ pc'[o] = pc[o] /\ todo'[o] = todo[o] /\ inspected'[o] = inspected[o]
           /\ digest'[o] = digest[o] /\ images'[o] = images[o] /\ moved'[o] = moved[o]
           /\ o \in indexed' <=> o \in indexed
           /\ o \in tagged' <=> o \in tagged
<1>1. CASE ManifestCreate(r) \/ ReturnSingle(r) \/ ManifestAdd(r) \/ Inspect(r)
  BY <1>1 DEF TypeOK, ManifestCreate, ReturnSingle, ManifestAdd, Inspect, Goto
<1>2. CASE PushLands(r) \/ ManifestPush(r) \/ ReportIndex(r)
  BY <1>2 DEF TypeOK, PushLands, ManifestPush, ReportIndex, Put, Goto
<1>3. CASE ReadLabel(r) \/ CopyLands(r) \/ CopyTag(r) \/ ReportTags(r) \/ Fail(r)
  BY <1>3 DEF TypeOK, ReadLabel, CopyLands, CopyTag, ReportTags, Fail, Retag, Goto
<1>4. QED
  BY <1>1, <1>2, <1>3 DEF Step

(* What does not concern a run keeps RunFits. *)
LEMMA RunKept ==
    ASSUME params' = params, NEW o \in Runs, RunFits(o),
           pc'[o] = pc[o], todo'[o] = todo[o], inspected'[o] = inspected[o],
           digest'[o] = digest[o], images'[o] = images[o], moved'[o] = moved[o],
           o \in indexed' <=> o \in indexed, o \in tagged' <=> o \in tagged,
           pc[o] \in Building => local'[ManifestName(o)] = local[ManifestName(o)]
    PROVE  RunFits(o)'
<1>1. /\ ManifestName(o)' = ManifestName(o) /\ params'[o] = params[o]
      /\ Single(o)' = Single(o) /\ IndexTags(o)' = IndexTags(o) /\ NewTagsOf(o)' = NewTagsOf(o)
  BY DEF ManifestName, Single, IndexTags, NewTagsOf
<1>2. pc[o] \in Building => Pushed(o)' = Pushed(o)
  BY <1>1 DEF Pushed
<1>3. BeforePush(o)'
  BY <1>1 DEF RunFits, BeforePush
<1>4. PushFits(o)'
  BY <1>1, <1>2 DEF RunFits, PushFits, Building
<1>5. TagsFit(o)'
  BY <1>1 DEF RunFits, TagsFit
<1>6. ResultsFit(o)'
  BY <1>1, Zenon DEF RunFits, ResultsFit
<1>7. OneManifest(o)'
  BY DEF RunFits, OneManifest
<1>8. QED
  BY <1>3, <1>4, <1>5, <1>6, <1>7 DEF RunFits

LEMMA RangeHeadTail ==
    ASSUME NEW S, NEW s \in Seq(S), s # <<>>
    PROVE  Range(s) = {Head(s)} \union Range(Tail(s))
<1>1. /\ Len(s) \in Nat \ {0} /\ DOMAIN s = 1 .. Len(s) /\ Head(s) = s[1]
      /\ Tail(s) \in Seq(S) /\ Len(Tail(s)) = Len(s) - 1 /\ DOMAIN Tail(s) = 1 .. (Len(s) - 1)
      /\ \A i \in 1 .. (Len(s) - 1) : Tail(s)[i] = s[i + 1]
  BY HeadTailProperties, LenProperties, EmptySeq
<1>2. \A i \in 1 .. Len(s) : s[i] = Head(s) \/ \E j \in DOMAIN Tail(s) : s[i] = Tail(s)[j]
  <2>1. TAKE i \in 1 .. Len(s)
  <2>2. CASE i = 1
    BY <1>1, <2>2
  <2>3. CASE i # 1
    <3>1. i - 1 \in DOMAIN Tail(s) /\ Tail(s)[i - 1] = s[i]
      BY <1>1, <2>3
    <3>2. QED
      BY <3>1
  <2>4. QED
    BY <2>2, <2>3
<1>3. \A j \in DOMAIN Tail(s) : \E i \in 1 .. Len(s) : Tail(s)[j] = s[i]
  <2>1. TAKE j \in DOMAIN Tail(s)
  <2>2. j + 1 \in 1 .. Len(s) /\ Tail(s)[j] = s[j + 1]
    BY <1>1
  <2>3. QED
    BY <2>2
<1>4. 1 \in DOMAIN s
  BY <1>1
<1>5. QED
  BY <1>1, <1>2, <1>3, <1>4 DEF Range

(* The index a run pushes has the images its list was inspected with, once *)
(* their formats are the one asked for.                                    *)
LEMMA PushedImages ==
    ASSUME TypeOK, NEW r \in Runs, FormatsConsistent(local[ManifestName(r)], params[r].format),
           local[ManifestName(r)].kind = "index"
    PROVE  Children(Pushed(r)) = Children(local[ManifestName(r)])
<1> DEFINE is == local[ManifestName(r)].images
<1>1. is \subseteq Converted
  BY StepTypes, ManifestTypes
<1>2. \A i \in is : [i EXCEPT !.format = params[r].format] = i
  BY <1>1, Conversion DEF FormatsConsistent
<1>3. {[i EXCEPT !.format = params[r].format] : i \in is} = is
  BY <1>2
<1>4. Pushed(r) = Index(is)
  BY <1>3 DEF Pushed
<1>5. QED
  BY <1>4 DEF Index, Children

RunInv == \A r \in Runs : RunFits(r)

LEMMA RunFitsInductive == Spec => []RunInv
<1>1. ASSUME Init
      PROVE  RunInv
  BY <1>1 DEF Init, RunInv, RunFits, BeforePush, PushFits, TagsFit, ResultsFit, OneManifest
<1>2. ASSUME TypesAndTodo, OwnList, RunInv, [Next]_vars
      PROVE  RunInv'
  <2>0. TypeOK /\ params' = params /\ \A o \in Runs : RunFits(o) /\ TodoFits(o)
    BY <1>2, ParamsFixed DEF TypesAndTodo, RunInv
  <2>1. \A r \in Runs : /\ ManifestName(r)' = ManifestName(r) /\ Single(r)' = Single(r)
                        /\ IndexTags(r)' = IndexTags(r) /\ NewTagsOf(r)' = NewTagsOf(r)
    BY <2>0 DEF ManifestName, Single, IndexTags, NewTagsOf
  <2>2. ASSUME NEW r \in Runs, Step(r), RunFits(r)'
        PROVE  RunInv'
    <3>1. ASSUME NEW o \in Runs, o # r
          PROVE  RunFits(o)'
      <4>1. pc[o] \in Building => local'[ManifestName(o)] = local[ManifestName(o)]
        BY <1>2, <2>0, <2>2, <3>1, ListKept
      <4>2. /\ pc'[o] = pc[o] /\ todo'[o] = todo[o] /\ inspected'[o] = inspected[o]
            /\ digest'[o] = digest[o] /\ images'[o] = images[o] /\ moved'[o] = moved[o]
            /\ o \in indexed' <=> o \in indexed
            /\ o \in tagged' <=> o \in tagged
        BY <2>0, <2>2, <3>1, OthersKept
      <4>3. QED
        BY <2>0, <4>1, <4>2, RunKept
    <3>2. QED
      BY <2>2, <3>1 DEF RunInv
  <2>3. ASSUME NEW r \in Runs, ManifestCreate(r) \/ ManifestAdd(r)
        PROVE  RunFits(r)'
    <3>1. moved' = moved /\ digest' = digest /\ indexed' = indexed /\ tagged' = tagged
      BY <2>3 DEF ManifestCreate, ManifestAdd
    <3>2. pc'[r] \in {"single", "add", "inspect"} /\ (pc'[r] = "single" => Single(r))
      BY <2>0, <2>3 DEF TypeOK, ManifestCreate, ManifestAdd, Goto
    <3>3. moved[r] = {} /\ digest[r] = NoManifest /\ r \notin indexed /\ r \notin tagged
      BY <2>0, <2>3 DEF ManifestCreate, ManifestAdd, RunFits, BeforePush
    <3>4. QED
      BY <2>1, <3>1, <3>2, <3>3 DEF RunFits, BeforePush, PushFits, TagsFit, ResultsFit, OneManifest
  <2>4. ASSUME NEW r \in Runs, ReturnSingle(r)
        PROVE  RunFits(r)'
    <3>1. moved[r] = {} /\ Single(r) /\ r \notin tagged
      BY <2>0, <2>4 DEF ReturnSingle, RunFits, BeforePush
    <3>2. pc'[r] = "label" /\ moved' = moved /\ tagged' = tagged
      BY <2>0, <2>4 DEF TypeOK, ReturnSingle, Goto
    <3>3. QED
      BY <2>1, <3>1, <3>2 DEF RunFits, BeforePush, PushFits, TagsFit, ResultsFit, OneManifest
  <2>5. ASSUME NEW r \in Runs, Inspect(r)
        PROVE  RunFits(r)'
    <3>1. moved[r] = {} /\ digest[r] = NoManifest /\ r \notin indexed /\ r \notin tagged
      BY <2>0, <2>5 DEF Inspect, RunFits, BeforePush
    <3>2. /\ pc'[r] = "push" /\ inspected'[r] = local[ManifestName(r)] /\ local' = local
          /\ todo'[r] = <<params[r].image>> \o params[r].additionalTags
          /\ moved' = moved /\ digest' = digest /\ indexed' = indexed /\ tagged' = tagged
          /\ FormatsConsistent(local[ManifestName(r)], params[r].format)
      BY <2>0, <2>5 DEF TypeOK, Inspect, Goto
    <3>3. IndexTags(r) = Range(todo'[r])
      BY <3>2 DEF IndexTags
    <3>4. PushFits(r)'
      BY <2>0, <2>1, <3>1, <3>2, <3>3 DEF PushFits, FormatsConsistent
    <3>5. QED
      BY <2>1, <3>1, <3>2, <3>4 DEF RunFits, BeforePush, TagsFit, ResultsFit, OneManifest
  <2>6. ASSUME NEW r \in Runs, PushLands(r) \/ ManifestPush(r)
        PROVE  RunFits(r)'
    <3>1. /\ pc[r] = "push" /\ local' = local /\ inspected' = inspected
          /\ indexed' = indexed /\ tagged' = tagged
          /\ Put(r, Head(todo[r]), Pushed(r))
      BY <2>6 DEF PushLands, ManifestPush
    <3>2. moved'[r] = moved[r] \union {<<Head(todo[r]), Pushed(r)>>}
      BY <2>0, <3>1 DEF TypeOK, Put
    <3>3. Pushed(r)' = Pushed(r)
      BY <2>0, <2>1, <3>1 DEF Pushed
    <3>4. r \notin indexed /\ r \notin tagged /\ PushFits(r)
      BY <2>0, <3>1 DEF RunFits, BeforePush
    <3>5. \A p \in moved'[r] : p[2] = Pushed(r)
      BY <3>1, <3>2, <3>4 DEF PushFits
    <3>6. Range(todo[r]) = {Head(todo[r])} \union Range(Tail(todo[r]))
      BY <2>0, <3>1, RangeHeadTail DEF TodoFits
    <3>7. /\ digest'[r] \in {NoManifest, Pushed(r)} /\ pc'[r] \in {"push", "results"}
          /\ pc'[r] = "results" => digest'[r] = Pushed(r)
          /\ \A t \in IndexTags(r) : \/ <<t, Pushed(r)>> \in moved'[r]
                                     \/ pc'[r] = "push" /\ t \in Range(todo'[r])
      <4>1. CASE PushLands(r)
        BY <3>1, <3>2, <3>4, <4>1 DEF PushFits, PushLands
      <4>2. CASE ManifestPush(r)
        <5>1. /\ todo'[r] = Tail(todo[r])
              /\ pc'[r] = IF Tail(todo[r]) = <<>> THEN "results" ELSE "push"
              /\ digest'[r] = IF digest[r] = NoManifest THEN Pushed(r) ELSE digest[r]
          BY <2>0, <4>2 DEF TypeOK, ManifestPush, Goto
        <5>2. Range(<<>>) = {}
          BY DEF Range
        <5>3. digest'[r] = Pushed(r)
          BY <3>1, <3>4, <5>1 DEF PushFits
        <5>4. QED
          BY <3>1, <3>2, <3>4, <3>6, <5>1, <5>2, <5>3 DEF PushFits
      <4>3. QED
        BY <2>6, <4>1, <4>2
    <3>8. PushFits(r)'
      BY <2>0, <2>1, <3>1, <3>3, <3>4, <3>5, <3>7 DEF PushFits, FormatsConsistent
    <3>9. BeforePush(r)' /\ TagsFit(r)' /\ ResultsFit(r)' /\ OneManifest(r)'
      BY <3>1, <3>4, <3>5, <3>7 DEF BeforePush, TagsFit, ResultsFit, OneManifest
    <3>10. QED
      BY <3>8, <3>9 DEF RunFits
  <2>7. ASSUME NEW r \in Runs, ReportIndex(r)
        PROVE  RunFits(r)'
    <3>1. /\ pc[r] = "results" /\ pc'[r] = "label" /\ images'[r] = Children(inspected[r])
          /\ moved' = moved /\ digest' = digest /\ tagged' = tagged
      BY <2>0, <2>7 DEF TypeOK, ReportIndex, ExtractPlatformImages, Goto
    <3>2. r \notin tagged /\ PushFits(r) /\ OneManifest(r)
      BY <2>0, <3>1 DEF RunFits, BeforePush
    <3>3. local[ManifestName(r)].kind = "index"
      BY <1>2, <3>1 DEF OwnList, Building
    <3>4. images'[r] = Children(digest[r])
      BY <2>0, <3>1, <3>2, <3>3, PushedImages DEF PushFits
    <3>5. /\ \A p \in moved[r] : p[2] = digest[r]
          /\ \A t \in IndexTags(r) : <<t, digest[r]>> \in moved[r]
      BY <3>1, <3>2 DEF PushFits
    <3>6. QED
      BY <2>1, <3>1, <3>2, <3>4, <3>5 DEF RunFits, BeforePush, PushFits, TagsFit, ResultsFit,
         OneManifest
  <2>8. ASSUME NEW r \in Runs, ReadLabel(r)
        PROVE  RunFits(r)'
    <3>1. /\ pc[r] = "label" /\ pc'[r] = "copy" /\ todo'[r] = params[r].newTags \o params[r].label
          /\ moved' = moved /\ digest' = digest /\ tagged' = tagged /\ indexed' = indexed /\ images' = images
      BY <2>0, <2>8 DEF TypeOK, ReadLabel, TagsToApply, Goto
    <3>2. NewTagsOf(r) = Range(todo'[r])
      <4>1. params[r].newTags \in Seq(Tags \union {"not a tag"}) /\ params[r].label \in Seq(Tags \union {"not a tag"})
        <5>1. params[r].newTags \in Seq(Tags) /\ params[r].label \in Seq(Tags \union {"not a tag"})
          BY <2>0, ParamTypes DEF TypeOK
        <5>2. \A i \in DOMAIN params[r].newTags : params[r].newTags[i] \in Tags \union {"not a tag"}
          BY <5>1, LenProperties, ElementOfSeq
        <5>3. QED
          BY <5>1, <5>2, SeqOver
      <4>2. Range(params[r].newTags \o params[r].label) = Range(params[r].newTags) \union Range(params[r].label)
        BY <4>1, RangeConcatenation, ZenonT(40)
      <4>3. QED
        BY <3>1, <4>2 DEF NewTagsOf
    <3>3. r \notin tagged /\ TagsFit(r) /\ ResultsFit(r) /\ OneManifest(r)
      BY <2>0, <3>1 DEF RunFits, BeforePush
    <3>4. BeforePush(r)' /\ PushFits(r)' /\ TagsFit(r)' /\ OneManifest(r)'
      BY <2>1, <3>1, <3>2, <3>3 DEF BeforePush, PushFits, TagsFit, OneManifest
    <3>5. ResultsFit(r)'
      BY <2>1, <3>1, <3>3, Zenon DEF ResultsFit
    <3>6. QED
      BY <3>4, <3>5 DEF RunFits
  <2>9. ASSUME NEW r \in Runs, CopyLands(r) \/ CopyTag(r)
        PROVE  RunFits(r)'
    <3>1. /\ pc[r] = "copy" /\ pc' = pc /\ todo[r] # <<>> /\ Retag(r, Head(todo[r]))
          /\ digest' = digest /\ tagged' = tagged /\ indexed' = indexed /\ images' = images
      BY <2>9 DEF CopyLands, CopyTag
    <3>2. moved'[r] = moved[r] \union {<<Head(todo[r]), digest[r]>>}
      BY <2>0, <3>1 DEF TypeOK, Retag
    <3>3. r \notin tagged /\ BeforePush(r) /\ TagsFit(r) /\ ResultsFit(r)
      BY <2>0, <3>1 DEF RunFits, BeforePush
    <3>4. Range(todo[r]) = {Head(todo[r])} \union Range(Tail(todo[r]))
      BY <2>0, <3>1, RangeHeadTail DEF TodoFits
    <3>5. todo'[r] = todo[r] \/ todo'[r] = Tail(todo[r])
      BY <2>0, <2>9 DEF TypeOK, CopyLands, CopyTag
    <3>6. \A p \in moved'[r] : p[2] = digest[r]
      BY <3>1, <3>2, <3>3 DEF TagsFit
    <3>7. \A t \in NewTagsOf(r) : <<t, digest[r]>> \in moved'[r] \/ t \in Range(todo'[r])
      BY <3>1, <3>2, <3>3, <3>4, <3>5 DEF TagsFit
    <3>8. TagsFit(r)' /\ OneManifest(r)' /\ PushFits(r)'
      BY <2>1, <3>1, <3>6, <3>7 DEF TagsFit, OneManifest, PushFits
    <3>9. BeforePush(r)'
      BY <2>1, <3>1, <3>3 DEF BeforePush
    <3>10. ResultsFit(r)'
      BY <2>1, <3>1, <3>2, <3>3 DEF ResultsFit
    <3>11. QED
      BY <3>8, <3>9, <3>10 DEF RunFits
  <2>10. ASSUME NEW r \in Runs, ReportTags(r) \/ Fail(r)
         PROVE  RunFits(r)'
    <3>1. /\ pc'[r] = "end" /\ digest' = digest /\ indexed' = indexed /\ images' = images /\ moved' = moved
          /\ r \in tagged' => r \in tagged \/ (pc[r] = "copy" /\ todo[r] = <<>>)
      BY <2>0, <2>10 DEF TypeOK, ReportTags, Fail, Goto
    <3>2. Range(<<>>) = {}
      BY DEF Range
    <3>3. BeforePush(r)' /\ PushFits(r)' /\ TagsFit(r)' /\ OneManifest(r)'
      BY <2>0, <3>1 DEF RunFits, BeforePush, PushFits, TagsFit, OneManifest
    <3>4. r \in tagged' => \A t \in NewTagsOf(r) : <<t, digest[r]>> \in moved[r]
      BY <2>0, <3>1, <3>2 DEF RunFits, TagsFit, ResultsFit
    <3>5. RunFits(r) /\ ResultsFit(r)
      BY <2>0 DEF RunFits
    <3>6. ResultsFit(r)'
      BY <2>1, <3>1, <3>4, <3>5, Zenon DEF ResultsFit
    <3>7. QED
      BY <3>3, <3>6 DEF RunFits
  <2>11. CASE MovePlatformTag \/ Collect \/ Terminated \/ UNCHANGED vars
    <3>1. /\ pc' = pc /\ todo' = todo /\ inspected' = inspected /\ digest' = digest /\ images' = images
          /\ moved' = moved /\ indexed' = indexed /\ tagged' = tagged /\ local' = local
      BY <2>11 DEF MovePlatformTag, Collect, Terminated, vars
    <3>2. QED
      BY <2>0, <3>1, RunKept DEF RunInv
  <2>12. QED
    BY <1>2, <2>2, <2>3, <2>4, <2>5, <2>6, <2>7, <2>8, <2>9, <2>10, <2>11 DEF Next, Step
<1>3. QED
  BY <1>1, <1>2, TypesAndTodoInductive, OwnListInductive, PTL DEF Spec

(* All the tags a run sets, with both commands, name one manifest, although *)
(* other runs move the same tags and platform tags move between its steps.  *)
THEOREM OneManifestForEachRun == Spec => []OneManifestPerRun
<1>1. RunInv => OneManifestPerRun
  BY DEF RunInv, RunFits, OneManifest, OneManifestPerRun
<1>2. QED
  BY <1>1, RunFitsInductive, PTL

(* A run that reports an index has set all its tags to the reported digest *)
(* and reports the images of that index; a run that reports applied tags   *)
(* has applied all of them.                                                *)
THEOREM ResultsAlwaysTrue == Spec => []ResultsTrue
<1>1. RunInv => ResultsTrue
  BY DEF RunInv, RunFits, ResultsFit, NewTagsOf, ResultsTrue, ImageRef, ResultRepo
<1>2. QED
  BY <1>1, RunFitsInductive, PTL
================================================================================
