---------------------------- MODULE BaseImagesProofs ----------------------------
(***************************************************************************)
(* Proofs about BaseImages: for every containerfile and all parameters,    *)
(* the search of collectBaseImages finds the images the build reads and    *)
(* no others (CollectInv), the storage holds what was pulled and verified  *)
(* (PullInv, StoredInv), and the labels are read from a pulled image       *)
(* (LabelsInv).                                                            *)
(***************************************************************************)
EXTENDS BaseImages, WellFoundedInduction, TLAPS

(* The search has dealt with a reference of stage i: the stages it refers  *)
(* to are seen, or it is one of the images.                                *)
Handled(i, r) ==
    /\ \A j \in Indexes : RefersTo(i, r, j) => j \in stagesSeen
    /\ (\A j \in Indexes : ~RefersTo(i, r, j)) => [ref |-> r, platform |-> ""] \in images

FromHandled(i) == /\ df.stages[i].from = "stage" => df.stages[i].stage \in stagesSeen
                  /\ df.stages[i].from = "image" => df.stages[i].image \in images

(* Complete: a stage that left the queue is dealt with, but for the        *)
(* references of the stage in process.                                     *)
Complete == /\ StagesOfInterest \subseteq stagesSeen
            /\ stagesToProcess \subseteq stagesSeen
            /\ \A i \in stagesSeen : i \notin stagesToProcess =>
                  /\ FromHandled(i)
                  /\ \A r \in df.stages[i].refs : (i = current /\ r \in refs) \/ Handled(i, r)

(* Sound: nothing is seen or collected that the build does not read. *)
Sound == /\ \A S \in SUBSET Indexes : Closed(S) => stagesSeen \subseteq S
         /\ \A img \in images : \E i \in stagesSeen : ReadsImage(i, img)

InProcess == /\ refs \subseteq df.stages[current].refs
             /\ refs # {} => current \in stagesSeen

(* The inductive invariant of the search. *)
CollectInv == /\ TypeOK
              /\ df \in Containerfiles
              /\ pc = "select" => images = {} /\ refs = {}
              /\ pc \notin {"select", "error"} => Complete /\ Sound /\ InProcess
              /\ pc \notin {"select", "collect", "error"} => refs = {} /\ stagesToProcess = {}

--------------------------------------------------------------------------------
(* A parsed containerfile has stages 0..last, whose FROM is an image or an *)
(* earlier stage.                                                          *)
LEMMA Parsed ==
    ASSUME df \in Containerfiles
    PROVE  /\ df.last \in Nat
           /\ df.stages \in [Indexes -> Stage]
           /\ \A i \in Indexes : df.stages[i].from = "stage" => df.stages[i].stage \in 0..(i - 1)
BY BaseImagesAssumption DEF Indexes

(* findMatchingStages finds the earlier stages a reference refers to. *)
LEMMA MatchingStages ==
    ASSUME df \in Containerfiles, NEW i \in Indexes, NEW r \in Refs
    PROVE  FindMatchingStages(i, r) = {j \in Indexes : RefersTo(i, r, j)}
<1> df.last \in Nat  BY Parsed
<1> Atoi[r] \in Int  BY BaseImagesAssumption
<1> DEFINE named == {k \in 0..(i - 1) : df.stages[k].name = r}
<1>1. CASE named = {}
  BY <1>1 DEF FindMatchingStages, RefersTo, Indexes
<1>2. CASE named # {}
  BY <1>2 DEF FindMatchingStages, RefersTo, Indexes
<1> QED  BY <1>1, <1>2

(* The stages the search starts from are stages of the containerfile. *)
LEMMA StartsInside ==
    ASSUME df \in Containerfiles, params \in ParamSet
    PROVE  StagesOfInterest \subseteq Indexes
<1> df.last \in Nat  BY Parsed
<1>1. 0..((df.last + 1) - 1) = Indexes  BY DEF Indexes
<1>2. FindMatchingStages(df.last + 1, params.target) \subseteq Indexes
  BY <1>1 DEF FindMatchingStages
<1>3. df.last \in Indexes  BY DEF Indexes
<1>4. TargetStages \subseteq Indexes
  BY <1>2, <1>3 DEF TargetStages
<1> QED  BY <1>4 DEF StagesOfInterest

(* What the containerfile says does not change while it is searched. *)
LEMMA Frame ==
    ASSUME df' = df, params' = params
    PROVE  /\ Indexes' = Indexes
           /\ StagesOfInterest' = StagesOfInterest
           /\ \A i, r, j : RefersTo(i, r, j)' <=> RefersTo(i, r, j)
           /\ \A S : Closed(S)' <=> Closed(S)
           /\ \A i, img : ReadsImage(i, img)' <=> ReadsImage(i, img)
<1>1. Indexes' = Indexes  BY DEF Indexes
<1>2. StagesOfInterest' = StagesOfInterest
  BY DEF StagesOfInterest, TargetStages, FindMatchingStages, Indexes
<1>3. ASSUME NEW i, NEW r, NEW j PROVE RefersTo(i, r, j)' <=> RefersTo(i, r, j)
  BY DEF RefersTo
<1>4. ASSUME NEW S PROVE Closed(S)' <=> Closed(S)
  BY <1>1, <1>2 DEF Closed, Reads, RefersTo
<1>5. ASSUME NEW i, NEW img PROVE ReadsImage(i, img)' <=> ReadsImage(i, img)
  BY <1>1 DEF ReadsImage, RefersTo
<1> QED  BY <1>1, <1>2, <1>3, <1>4, <1>5

--------------------------------------------------------------------------------
(* Every step keeps the type of the state. *)
LEMMA TypeStep ==
    ASSUME TypeOK, df \in Containerfiles, [Step \/ Terminated]_vars
    PROVE  TypeOK' /\ df' \in Containerfiles
<1>0. /\ df.last \in Nat
      /\ df.stages \in [Indexes -> Stage]
      /\ \A i \in Indexes : df.stages[i].from = "stage" => df.stages[i].stage \in Indexes
  <2>1. \A i \in Indexes : df.stages[i].from = "stage" => df.stages[i].stage \in 0..(i - 1)
    BY Parsed
  <2>2. df.last \in Nat  BY Parsed
  <2>3. \A i \in Indexes : 0..(i - 1) \subseteq Indexes  BY <2>2 DEF Indexes
  <2> QED  BY <2>1, <2>2, <2>3, Parsed
<1>1. ASSUME NEW img \in Images PROVE AddImage(img) => images' \subseteq Images
  BY <1>1 DEF AddImage, TypeOK
<1>2. ASSUME df' = df, params' = params
      PROVE  df'.last \in Nat /\ df'.stages \in [Indexes' -> Stage] /\ params' \in ParamSet /\ Indexes' = Indexes
  BY <1>2, <1>0, Frame DEF TypeOK
<1>3. CASE SelectTarget
  <2> USE <1>3 DEF SelectTarget
  <2>1. StagesOfInterest \subseteq Indexes  BY StartsInside DEF TypeOK
  <2>2. stagesToProcess' \subseteq Indexes /\ stagesSeen' \subseteq Indexes
    BY <2>1 DEF TypeOK
  <2>3. pc' \in {"collect", "error"}  BY DEF Goto, Error
  <2> QED  BY <1>2, <2>2, <2>3 DEF TypeOK, pulling
<1>4. ASSUME NEW i \in Indexes, TakeStage(i) PROVE TypeOK' /\ df' \in Containerfiles
  <2> USE <1>4 DEF TakeStage
  <2>1. df.stages[i] \in Stage  BY <1>0
  <2>2. stagesToProcess' \subseteq Indexes /\ stagesSeen' \subseteq Indexes
    BY <1>0, <2>1 DEF Enqueue, TypeOK, Stage
  <2>3. refs' \subseteq Refs /\ df.stages[i].image \in Images  BY <2>1 DEF Stage
  <2>4. images' \subseteq Images  BY <1>1, <2>3 DEF TypeOK
  <2>5. pc' \in {"collect", "error"}  BY DEF Goto, Error, AddImage
  <2> QED  BY <1>2, <2>2, <2>3, <2>4, <2>5 DEF TypeOK, pulling
<1>5. ASSUME NEW r \in Refs, TakeRef(r) PROVE TypeOK' /\ df' \in Containerfiles
  <2> USE <1>5 DEF TakeRef
  <2>1. FindMatchingStages(current, r) \subseteq Indexes
    <3>1. current \in Indexes  BY DEF TypeOK
    <3> QED  BY <3>1, MatchingStages
  <2>2. stagesToProcess' \subseteq Indexes /\ stagesSeen' \subseteq Indexes
    BY <2>1 DEF Enqueue, TypeOK
  <2>3. [ref |-> r, platform |-> ""] \in Images  BY DEF Images
  <2>4. images' \subseteq Images  BY <1>1, <2>3 DEF TypeOK
  <2>5. pc' \in {"collect", "error"}  BY DEF Goto, Error, AddImage
  <2> QED  BY <1>2, <2>2, <2>4, <2>5 DEF TypeOK, pulling
<1>6. CASE Collected
  BY <1>2, <1>6 DEF Collected, TypeOK, Goto, collecting
<1>7. ASSUME NEW img \in todo, PullImage(img) PROVE TypeOK' /\ df' \in Containerfiles
  <2> USE <1>7 DEF PullImage
  <2>1. img \in Images /\ StoredAs[img.ref] \in Names
    BY BaseImagesAssumption DEF TypeOK, Images
  <2>2. \A a \in ArchOf(img) : a \in AllArchs  BY <2>1 DEF ArchOf, AllArchs
  <2>3. storage' \in [Names -> AllArchs \union {"none"}]  BY <2>1, <2>2 DEF TypeOK
  <2>4. todo' \subseteq Images /\ pulled' \subseteq Images  BY <2>1 DEF TypeOK
  <2> QED  BY <1>2, <2>3, <2>4 DEF TypeOK, collecting
<1>8. ASSUME NEW img \in todo, VerifyImage(img) PROVE TypeOK' /\ df' \in Containerfiles
  <2>1. pc' \in {"verify", "error"}  BY <1>8 DEF VerifyImage, Goto, Error
  <2> QED  BY <1>2, <1>8, <2>1 DEF VerifyImage, TypeOK, collecting
<1>9. CASE AllPulled
  BY <1>2, <1>9 DEF AllPulled, TypeOK, Goto, collecting
<1>10. CASE AllVerified \/ InjectBuildinfo \/ Fail
  <2>1. pc' \in {"inject", "build", "error"}
    BY <1>10 DEF AllVerified, InjectBuildinfo, Fail, Goto, Error
  <2>2. UNCHANGED <<df, params, collecting, pulling>>
    BY <1>10 DEF AllVerified, InjectBuildinfo, Fail
  <2> QED  BY <1>2, <2>1, <2>2 DEF TypeOK, collecting, pulling
<1>11. CASE UNCHANGED vars
  BY <1>2, <1>11 DEF vars, TypeOK, collecting, pulling
<1> QED
  BY <1>3, <1>4, <1>5, <1>6, <1>7, <1>8, <1>9, <1>10, <1>11 DEF Step, Terminated

--------------------------------------------------------------------------------
(* An image is its reference and its platform. *)
LEMMA ImageFields ==
    ASSUME NEW a \in Images, NEW b \in Images, a.ref = b.ref, a.platform = b.platform
    PROVE  a = b
<1>1. a = [ref |-> a.ref, platform |-> a.platform]  BY DEF Images
<1>2. b = [ref |-> b.ref, platform |-> b.platform]  BY DEF Images
<1> QED  BY <1>1, <1>2

(* addImage either refuses the image or leaves the images collected so far *)
(* with this one among them.                                               *)
LEMMA ImageAdded ==
    ASSUME TypeOK, NEW img \in Images, AddImage(img), pc' # "error"
    PROVE  images' = images \union {img} /\ pc' = pc
<1>1. ~Conflicts(img)  BY DEF AddImage, Error
<1>2. pc' = pc  BY <1>1 DEF AddImage, Goto
<1>3. CASE \E i \in images : i.ref = img.ref
  <2>1. PICK i \in images : i.ref = img.ref  BY <1>3
  <2>2. i.platform = img.platform  BY <1>1, <2>1 DEF Conflicts
  <2>3. i \in Images  BY DEF TypeOK
  <2>4. i = img  BY <2>1, <2>2, <2>3, ImageFields
  <2> QED  BY <1>1, <1>2, <1>3, <2>4 DEF AddImage
<1>4. CASE ~\E i \in images : i.ref = img.ref
  BY <1>1, <1>2, <1>4 DEF AddImage
<1> QED  BY <1>3, <1>4

(* The search keeps what it has dealt with: seen stages and images only    *)
(* grow.                                                                   *)
LEMMA HandledKept ==
    ASSUME df' = df, params' = params, stagesSeen \subseteq stagesSeen', images \subseteq images'
    PROVE  /\ \A i, r : Handled(i, r) => Handled(i, r)'
           /\ \A i : FromHandled(i) => FromHandled(i)'
<1>1. ASSUME NEW i, NEW r, Handled(i, r) PROVE Handled(i, r)'
  BY <1>1, Frame DEF Handled
<1>2. ASSUME NEW i, FromHandled(i) PROVE FromHandled(i)'
  BY <1>2 DEF FromHandled
<1> QED  BY <1>1, <1>2

(* Seeing the stages that a seen stage reads keeps the search sound. *)
LEMMA SoundKept ==
    ASSUME TypeOK, df' = df, params' = params, Sound,
           NEW i \in stagesSeen, NEW new \in SUBSET Indexes,
           \A j \in new : Reads(i, j),
           stagesSeen' = stagesSeen \union new,
           \A img \in images' : img \in images \/ ReadsImage(i, img)
    PROVE  Sound'
<1>1. ASSUME NEW S \in SUBSET Indexes, Closed(S) PROVE stagesSeen' \subseteq S
  <2>1. stagesSeen \subseteq S  BY <1>1 DEF Sound
  <2>2. i \in S  BY <2>1
  <2>3. new \subseteq S  BY <1>1, <2>2 DEF Closed
  <2> QED  BY <2>1, <2>3
<1>2. ASSUME NEW img \in images' PROVE \E k \in stagesSeen' : ReadsImage(k, img)
  BY <1>2 DEF Sound
<1> QED  BY <1>1, <1>2, Frame DEF Sound

(* One stage's FROM. *)
LEMMA TakeStageKeeps ==
    ASSUME CollectInv, NEW i \in Indexes, TakeStage(i), pc' # "error"
    PROVE  (Complete /\ Sound /\ InProcess)'
<1> DEFINE stage == df.stages[i]
<1> DEFINE new == IF stage.from = "stage" THEN {stage.stage} ELSE {}
<1>1. /\ TypeOK /\ df \in Containerfiles /\ pc = "collect"
      /\ Complete /\ Sound /\ refs = {} /\ i \in stagesToProcess /\ i \in stagesSeen
      /\ df' = df /\ params' = params /\ current' = i /\ refs' = stage.refs
  BY DEF CollectInv, TakeStage, Complete
<1>2. /\ stagesToProcess' = (stagesToProcess \ {i}) \union (new \ stagesSeen)
      /\ stagesSeen' = stagesSeen \union new
  BY DEF TakeStage, Enqueue
<1>3. stage \in Stage /\ new \subseteq Indexes
  <2>1. stage \in Stage  BY <1>1, Parsed
  <2>2. stage.from = "stage" => stage.stage \in 0..(i - 1)  BY <1>1, Parsed
  <2>3. 0..(i - 1) \subseteq Indexes  BY <1>1, Parsed DEF Indexes
  <2> QED  BY <2>1, <2>2, <2>3
<1>4. images' = IF stage.from = "image" THEN images \union {stage.image} ELSE images
  <2>1. CASE stage.from = "image"
    <3>1. stage.image \in Images  BY <1>3 DEF Stage
    <3>2. AddImage(stage.image)  BY <2>1 DEF TakeStage
    <3> QED  BY <1>1, <2>1, <3>1, <3>2, ImageAdded
  <2>2. CASE stage.from # "image"  BY <2>2 DEF TakeStage
  <2> QED  BY <2>1, <2>2
<1> HIDE DEF stage, new
<1>5. Sound'
  <2>1. \A j \in new : Reads(i, j)  BY DEF new, stage, Reads
  <2>2. \A img \in images' : img \in images \/ ReadsImage(i, img)
    BY <1>4 DEF ReadsImage, stage
  <2>3. new \in SUBSET Indexes  BY <1>3
  <2> QED  BY <1>1, <1>2, <2>1, <2>2, <2>3, SoundKept
<1>6. (\A k, q : Handled(k, q) => Handled(k, q)') /\ (\A k : FromHandled(k) => FromHandled(k)')
  BY <1>1, <1>2, <1>4, HandledKept
<1>7. FromHandled(i)'
  BY <1>1, <1>2, <1>4 DEF FromHandled, stage, new
<1>8. Complete'
  <2>1. StagesOfInterest' \subseteq stagesSeen' /\ stagesToProcess' \subseteq stagesSeen'
    BY <1>1, <1>2, Frame DEF Complete
  <2>2. ASSUME NEW k \in stagesSeen', k \notin stagesToProcess'
        PROVE  /\ FromHandled(k)'
               /\ \A q \in df'.stages[k].refs : (k = current' /\ q \in refs') \/ Handled(k, q)'
    <3>1. k \in stagesSeen  BY <1>2, <2>2
    <3>2. CASE k = i  BY <1>1, <1>7, <3>2 DEF stage
    <3>3. CASE k # i
      <4>1. k \notin stagesToProcess  BY <1>2, <2>2, <3>3
      <4>2. FromHandled(k) /\ \A q \in df.stages[k].refs : Handled(k, q)
        BY <1>1, <3>1, <4>1 DEF Complete
      <4> QED  BY <1>1, <1>6, <4>2
    <3> QED  BY <3>2, <3>3
  <2> QED  BY <2>1, <2>2 DEF Complete
<1>9. InProcess'
  BY <1>1, <1>2 DEF InProcess, stage
<1> QED  BY <1>5, <1>8, <1>9

(* One reference of a stage's commands. *)
LEMMA TakeRefKeeps ==
    ASSUME CollectInv, NEW r \in Refs, TakeRef(r), pc' # "error"
    PROVE  (Complete /\ Sound /\ InProcess)'
<1> DEFINE new == FindMatchingStages(current, r)
<1> DEFINE img == [ref |-> r, platform |-> ""]
<1>1. /\ TypeOK /\ df \in Containerfiles /\ pc = "collect"
      /\ Complete /\ Sound /\ InProcess /\ r \in refs
      /\ df' = df /\ params' = params /\ current' = current /\ refs' = refs \ {r}
  BY DEF CollectInv, TakeRef
<1>2. current \in Indexes /\ current \in stagesSeen /\ r \in df.stages[current].refs
  BY <1>1 DEF TypeOK, InProcess
<1>3. new = {j \in Indexes : RefersTo(current, r, j)}
  BY <1>1, <1>2, MatchingStages
<1>4. /\ stagesToProcess' = stagesToProcess \union (new \ stagesSeen)
      /\ stagesSeen' = stagesSeen \union new
  BY DEF TakeRef, Enqueue
<1>5. images' = IF new = {} THEN images \union {img} ELSE images
  <2>1. CASE new = {}
    <3>1. img \in Images  BY DEF Images
    <3>2. AddImage(img)  BY <2>1 DEF TakeRef
    <3> QED  BY <1>1, <2>1, <3>1, <3>2, ImageAdded
  <2>2. CASE new # {}  BY <2>2 DEF TakeRef
  <2> QED  BY <2>1, <2>2
<1> HIDE DEF new
<1>6. Sound'
  <2>1. \A j \in new : Reads(current, j)  BY <1>2, <1>3 DEF Reads
  <2>2. \A m \in images' : m \in images \/ ReadsImage(current, m)
    BY <1>2, <1>3, <1>5 DEF ReadsImage
  <2>3. new \in SUBSET Indexes  BY <1>3
  <2> QED  BY <1>1, <1>2, <1>4, <2>1, <2>2, <2>3, SoundKept
<1>7. (\A k, q : Handled(k, q) => Handled(k, q)') /\ (\A k : FromHandled(k) => FromHandled(k)')
  BY <1>1, <1>4, <1>5, HandledKept
<1>8. Handled(current, r)'
  <2>1. \A j \in Indexes : RefersTo(current, r, j) => j \in stagesSeen'  BY <1>3, <1>4
  <2>2. (\A j \in Indexes : ~RefersTo(current, r, j)) => img \in images'  BY <1>3, <1>5
  <2> QED  BY <1>1, <2>1, <2>2, Frame DEF Handled
<1>9. Complete'
  <2>1. StagesOfInterest' \subseteq stagesSeen' /\ stagesToProcess' \subseteq stagesSeen'
    BY <1>1, <1>4, Frame DEF Complete
  <2>2. ASSUME NEW k \in stagesSeen', k \notin stagesToProcess'
        PROVE  /\ FromHandled(k)'
               /\ \A q \in df'.stages[k].refs : (k = current' /\ q \in refs') \/ Handled(k, q)'
    <3>1. k \in stagesSeen /\ k \notin stagesToProcess  BY <1>4, <2>2
    <3>2. /\ FromHandled(k)
          /\ \A q \in df.stages[k].refs : (k = current /\ q \in refs) \/ Handled(k, q)
      BY <1>1, <3>1 DEF Complete
    <3> QED  BY <1>1, <1>7, <1>8, <3>2
  <2> QED  BY <2>1, <2>2 DEF Complete
<1>10. InProcess'
  BY <1>1, <1>2, <1>4 DEF InProcess
<1> QED  BY <1>6, <1>9, <1>10

(* The invariant of the search holds initially, and every step of the      *)
(* search, of the pulls and of the checks after it keeps it.               *)
THEOREM CollectInvInductive == Spec => []CollectInv
<1>1. Init => CollectInv
  <2> SUFFICES ASSUME Init PROVE CollectInv  OBVIOUS
  <2>1. df \in Containerfiles /\ df.last \in Nat /\ df.stages \in [Indexes -> Stage]
    BY Parsed DEF Init
  <2>2. current \in Indexes
    <3>1. current = 0  BY DEF Init
    <3>2. 0 \in 0..df.last  BY <2>1
    <3> QED  BY <3>1, <3>2 DEF Indexes
  <2>3. TypeOK  BY <2>1, <2>2 DEF Init, TypeOK
  <2> QED  BY <2>1, <2>3 DEF Init, CollectInv
<1>2. ASSUME CollectInv, [Step \/ Terminated]_vars PROVE CollectInv'
  <2>1. TypeOK' /\ df' \in Containerfiles  BY <1>2, TypeStep DEF CollectInv
  <2>2. CASE SelectTarget
    <3>1. pc' # "select"  BY <2>2 DEF SelectTarget, Goto, Error
    <3>2. CASE TargetStages = {}
      BY <2>1, <2>2, <3>2 DEF SelectTarget, Error, CollectInv
    <3>3. CASE TargetStages # {}
      <4>1. /\ df' = df /\ params' = params /\ images' = {} /\ refs' = {} /\ pc' = "collect"
            /\ stagesToProcess' = StagesOfInterest /\ stagesSeen' = StagesOfInterest
        BY <1>2, <2>2, <3>3 DEF SelectTarget, Goto, CollectInv
      <4>2. Complete'  BY <4>1, Frame DEF Complete
      <4>3. Sound'  BY <4>1, Frame DEF Sound, Closed
      <4>4. InProcess'  BY <4>1 DEF InProcess
      <4> QED  BY <2>1, <4>1, <4>2, <4>3, <4>4 DEF CollectInv
    <3> QED  BY <3>2, <3>3
  <2>3. ASSUME NEW i \in Indexes, TakeStage(i) PROVE CollectInv'
    <3>1. pc' \in {"collect", "error"}  BY <2>3 DEF TakeStage, AddImage, Goto, Error
    <3> QED  BY <1>2, <2>1, <2>3, <3>1, TakeStageKeeps DEF CollectInv
  <2>4. ASSUME NEW r \in Refs, TakeRef(r) PROVE CollectInv'
    <3>1. pc' \in {"collect", "error"}  BY <2>4 DEF TakeRef, AddImage, Goto, Error
    <3> QED  BY <1>2, <2>1, <2>4, <3>1, TakeRefKeeps DEF CollectInv
  <2>5. ASSUME UNCHANGED <<df, params, collecting>>, pc \notin {"select", "error"},
               pc' # "select", pc' # "collect",
               refs = {}, stagesToProcess = {}
        PROVE  CollectInv'
    <3>1. Complete /\ Sound /\ InProcess  BY <1>2, <2>5 DEF CollectInv
    <3>2. (\A k, q : Handled(k, q) => Handled(k, q)') /\ (\A k : FromHandled(k) => FromHandled(k)')
      BY <2>5, HandledKept DEF collecting
    <3>3. Complete'  BY <2>5, <3>1, <3>2, Frame DEF Complete, collecting
    <3>4. Sound'  BY <2>5, <3>1, Frame DEF Sound, collecting
    <3>5. InProcess'  BY <2>5, <3>1 DEF InProcess, collecting
    <3> QED  BY <2>1, <2>5, <3>3, <3>4, <3>5 DEF CollectInv, collecting
  <2>6. CASE Collected
    BY <2>5, <2>6 DEF Collected, Goto
  <2>7. ASSUME NEW img \in todo, PullImage(img) \/ VerifyImage(img) PROVE CollectInv'
    <3>1. pc \in {"pull", "verify"} /\ UNCHANGED <<df, params, collecting>> /\ pc' \in {pc, "error"}
      BY <2>7 DEF PullImage, VerifyImage, Goto, Error
    <3> QED  BY <1>2, <2>5, <3>1 DEF CollectInv
  <2>8. CASE AllPulled \/ AllVerified \/ InjectBuildinfo \/ Fail
    <3>1. /\ pc \in {"pull", "verify", "inject"} /\ UNCHANGED <<df, params, collecting>>
          /\ pc' \in {"verify", "inject", "build", "error"}
      BY <2>8 DEF AllPulled, AllVerified, InjectBuildinfo, Fail, Goto, Error
    <3> QED  BY <1>2, <2>5, <3>1 DEF CollectInv
  <2>9. CASE UNCHANGED vars
    <3>1. UNCHANGED <<df, params, pc, collecting>>  BY <2>9 DEF vars
    <3>2. CASE pc \in {"select", "error"}
      BY <1>2, <2>1, <3>1, <3>2 DEF CollectInv, collecting
    <3>3. CASE pc \notin {"select", "error"}
      <4>1. Complete /\ Sound /\ InProcess  BY <1>2, <3>3 DEF CollectInv
      <4>2. /\ (\A k, q : Handled(k, q) => Handled(k, q)')
            /\ (\A k : FromHandled(k) => FromHandled(k)')
        BY <3>1, HandledKept DEF collecting
      <4>3. Complete'  BY <3>1, <4>1, <4>2, Frame DEF Complete, collecting
      <4>4. Sound'  BY <3>1, <4>1, Frame DEF Sound, collecting
      <4>5. InProcess'  BY <3>1, <4>1 DEF InProcess, collecting
      <4> QED  BY <1>2, <2>1, <3>1, <3>3, <4>3, <4>4, <4>5 DEF CollectInv, collecting
    <3> QED  BY <3>2, <3>3
  <2> QED
    BY <1>2, <2>2, <2>3, <2>4, <2>6, <2>7, <2>8, <2>9 DEF Step, Terminated
<1> QED  BY <1>1, <1>2, PTL DEF Spec

(* The state of the build keeps its type. *)
THEOREM TypeCorrect == Spec => []TypeOK
<1>1. CollectInv => TypeOK  BY DEF CollectInv
<1> QED  BY <1>1, CollectInvInductive, PTL

(* For every containerfile: when the search of collectBaseImages ends, it  *)
(* has found the images that the least set of stages closed under FROM,    *)
(* COPY --from and RUN --mount=from reads, and no others.                  *)
THEOREM SearchIsExact == Spec => []CollectsWhatIsNeeded
<1>1. ASSUME CollectInv PROVE CollectsWhatIsNeeded
  <2> SUFFICES ASSUME pc \in {"pull", "verify", "inject", "build"} PROVE images = NeededImages
    BY DEF CollectsWhatIsNeeded
  <2>1. /\ TypeOK /\ Complete /\ Sound /\ refs = {} /\ stagesToProcess = {}
    BY <1>1 DEF CollectInv
  <2>2. stagesSeen \subseteq Indexes /\ images \subseteq Images  BY <2>1 DEF TypeOK
  <2>3. ASSUME NEW i \in stagesSeen
        PROVE  FromHandled(i) /\ \A r \in df.stages[i].refs : Handled(i, r)
    BY <2>1, <2>3 DEF Complete
  <2>4. Closed(stagesSeen)
    <3>1. StagesOfInterest \subseteq stagesSeen  BY <2>1 DEF Complete
    <3>2. ASSUME NEW i \in stagesSeen, NEW j \in Indexes, Reads(i, j) PROVE j \in stagesSeen
      BY <2>3, <3>2 DEF Reads, FromHandled, Handled
    <3> QED  BY <3>1, <3>2 DEF Closed
  <2>5. NeededStages = stagesSeen
    <3>1. NeededStages \subseteq stagesSeen  BY <2>2, <2>4 DEF NeededStages
    <3>2. stagesSeen \subseteq NeededStages  BY <2>1, <2>2 DEF NeededStages, Sound
    <3> QED  BY <3>1, <3>2
  <2>6. images \subseteq NeededImages
    BY <2>1, <2>2, <2>5 DEF NeededImages, Sound
  <2>7. ASSUME NEW img \in Images, NEW i \in stagesSeen, ReadsImage(i, img) PROVE img \in images
    BY <2>3, <2>7 DEF ReadsImage, FromHandled, Handled
  <2>8. NeededImages \subseteq images
    BY <2>5, <2>7 DEF NeededImages
  <2> QED  BY <2>6, <2>8
<1> QED  BY <1>1, CollectInvInductive, PTL

--------------------------------------------------------------------------------
(* What the pulls and the checks have dealt with so far. *)
PullInv == /\ pc = "pull" => \A img \in images : Pullable[img.ref] => img \in todo \/ img \in pulled
           /\ pc \in {"verify", "inject", "build"} =>
                 \A img \in images : Pullable[img.ref] => img \in pulled
           /\ pc = "verify" => \A img \in pulled : img \in todo \/ ~WrongArch(img) \/ params.allowCross
           /\ pc \in {"inject", "build"} => \A img \in pulled : ~WrongArch(img) \/ params.allowCross

(* The pulls and the checks leave out no image that can be pulled. *)
THEOREM PullInvInductive == Spec => []PullInv
<1>1. Init => PullInv  BY DEF Init, PullInv
<1>2. ASSUME PullInv, [Step \/ Terminated]_vars PROVE PullInv'
  <2>1. CASE SelectTarget \/ (\E i \in Indexes : TakeStage(i)) \/ (\E r \in Refs : TakeRef(r))
    <3>1. pc' \in {"collect", "error"}
      BY <2>1 DEF SelectTarget, TakeStage, TakeRef, AddImage, Goto, Error
    <3> QED  BY <3>1 DEF PullInv
  <2>2. CASE Collected
    BY <2>2 DEF Collected, Goto, collecting, PullInv
  <2>3. ASSUME NEW img \in todo, PullImage(img) PROVE PullInv'
    BY <1>2, <2>3 DEF PullImage, collecting, PullInv
  <2>4. ASSUME NEW img \in todo, VerifyImage(img) PROVE PullInv'
    <3>1. pc = "verify" /\ UNCHANGED <<params, images, pulled, storage>> /\ todo' = todo \ {img}
      BY <2>4 DEF VerifyImage, collecting
    <3>2. \A m : WrongArch(m)' <=> WrongArch(m)  BY <3>1 DEF WrongArch
    <3>3. pc' = "error" \/ (pc' = "verify" /\ (~WrongArch(img) \/ params.allowCross))
      BY <2>4 DEF VerifyImage, Goto, Error
    <3> QED  BY <1>2, <3>1, <3>2, <3>3 DEF PullInv
  <2>5. CASE AllPulled
    BY <1>2, <2>5 DEF AllPulled, Goto, collecting, PullInv
  <2>6. CASE AllVerified \/ InjectBuildinfo \/ Fail
    <3>1. UNCHANGED <<params, images, pulled, storage>>
      BY <2>6 DEF AllVerified, InjectBuildinfo, Fail, collecting, pulling
    <3>2. \A m : WrongArch(m)' <=> WrongArch(m)  BY <3>1 DEF WrongArch
    <3>3. \/ pc' = "error"
          \/ (pc = "verify" /\ todo = {} /\ pc' \in {"inject", "build"})
          \/ (pc = "inject" /\ pc' = "build")
      BY <2>6 DEF AllVerified, InjectBuildinfo, Fail, Goto, Error
    <3> QED  BY <1>2, <3>1, <3>2, <3>3 DEF PullInv
  <2>7. CASE UNCHANGED vars
    BY <1>2, <2>7 DEF vars, collecting, pulling, PullInv, WrongArch
  <2> QED  BY <1>2, <2>1, <2>2, <2>3, <2>4, <2>5, <2>6, <2>7 DEF Step, Terminated
<1> QED  BY <1>1, <1>2, PTL DEF Spec

(* For every containerfile and every registry: unless cross-platform       *)
(* images are allowed, a build starts only when all the base images it     *)
(* reads (and that can be pulled) are of the host's architecture.          *)
THEOREM NoEmulationEver == Spec => []NoEmulation
<1>1. ASSUME CollectsWhatIsNeeded, PullInv PROVE NoEmulation
  <2> SUFFICES ASSUME pc = "build", ~params.allowCross, NEW img \in NeededImages, Pullable[img.ref]
               PROVE  storage[StoredAs[img.ref]] = HostArch
    BY DEF NoEmulation
  <2>1. img \in pulled  BY <1>1 DEF CollectsWhatIsNeeded, PullInv
  <2> QED  BY <1>1, <2>1 DEF PullInv, WrongArch
<1> QED  BY <1>1, SearchIsExact, PullInvInductive, PTL

--------------------------------------------------------------------------------
(* What is in the local storage.                                           *)

(* Another image of the build is stored under the same name. *)
Shared(img) == \E o \in images : o.ref # img.ref /\ StoredAs[o.ref] = StoredAs[img.ref]

(* No reference is used with two platforms, and only collected images are  *)
(* pulled; the last pull of an image is the one of its own variant, unless *)
(* its name is shared.                                                     *)
StoredInv == /\ \A i, j \in images : i.ref = j.ref => i = j
             /\ pc \in {"select", "collect"} => pulled = {}
             /\ pc = "pull" => todo \subseteq images
             /\ pc # "error" => pulled \subseteq images
             /\ \A img \in pulled : \/ storage[StoredAs[img.ref]] \in ArchOf(img)
                                    \/ storage[StoredAs[img.ref]] # "none" /\ Shared(img)

(* Adding an image keeps one platform for each reference.                  *)
LEMMA OnePlatform ==
    ASSUME TypeOK, NEW img \in Images, AddImage(img),
           \A i, j \in images : i.ref = j.ref => i = j
    PROVE  \A i, j \in images' : i.ref = j.ref => i = j
<1>1. CASE Conflicts(img)
  BY <1>1 DEF AddImage
<1>2. CASE ~Conflicts(img) /\ \E i \in images : i.ref = img.ref
  BY <1>2 DEF AddImage
<1>3. CASE ~Conflicts(img) /\ ~\E i \in images : i.ref = img.ref
  <2>1. images' = images \union {img}
    BY <1>3 DEF AddImage
  <2> QED
    BY <1>3, <2>1
<1> QED
  BY <1>1, <1>2, <1>3

(* Pulling an image leaves it, and every other one whose name it does not  *)
(* share, in the variant asked for.                                        *)
LEMMA PullKeepsStored ==
    ASSUME TypeOK, StoredInv, NEW img \in todo, PullImage(img)
    PROVE  StoredInv'
<1>1. /\ pc = "pull" /\ pc' = pc /\ images' = images /\ todo' = todo \ {img}
      /\ todo \subseteq images /\ images \subseteq Images
  BY DEF PullImage, collecting, StoredInv, TypeOK
<1>2. \A m : Shared(m)' <=> Shared(m)
  BY <1>1 DEF Shared
<1>3. \A m : ArchOf(m)' = ArchOf(m)
  BY DEF ArchOf
<1>4. CASE ~Pullable[img.ref]
  <2>1. UNCHANGED <<storage, pulled>>
    BY <1>4 DEF PullImage
  <2> QED
    BY <1>1, <1>2, <1>3, <2>1 DEF StoredInv
<1>5. CASE Pullable[img.ref]
  <2> DEFINE nm == StoredAs[img.ref]
  <2>1. PICK a \in ArchOf(img) : storage' = [storage EXCEPT ![nm] = a]
    BY <1>5 DEF PullImage
  <2>2. pulled' = pulled \union {img}
    BY <1>5 DEF PullImage
  <2>3. img \in Images /\ img.ref \in Refs
    BY <1>1 DEF Images
  <2>4. nm \in Names
    BY <2>3 DEF Names
  <2>5. a # "none"
    <3>1. a \in Archs[nm]
      BY <2>1 DEF ArchOf
    <3>2. a \in AllArchs
      BY <2>4, <3>1 DEF AllArchs
    <3> QED
      BY <3>2, BaseImagesAssumption
  <2>6. /\ storage'[nm] = a
        /\ \A n \in Names \ {nm} : storage'[n] = storage[n]
    BY <2>1, <2>4 DEF TypeOK
  <2>7. ASSUME NEW m \in pulled'
        PROVE  \/ storage'[StoredAs[m.ref]] \in ArchOf(m)
               \/ storage'[StoredAs[m.ref]] # "none" /\ Shared(m)
    <3>1. m \in images
      BY <1>1, <2>2, <2>7 DEF StoredInv
    <3>2. CASE m.ref = img.ref
      <4>1. m = img
        BY <1>1, <3>1, <3>2 DEF StoredInv
      <4> QED
        BY <2>6, <4>1
    <3>3. CASE m.ref # img.ref /\ StoredAs[m.ref] = nm
      BY <1>1, <2>5, <2>6, <3>1, <3>3 DEF Shared
    <3>4. CASE StoredAs[m.ref] # nm
      <4>1. m \in pulled
        BY <2>2, <2>7, <3>4
      <4>2. StoredAs[m.ref] \in Names
        BY <1>1, <3>1 DEF Images, Names
      <4>3. storage'[StoredAs[m.ref]] = storage[StoredAs[m.ref]]
        BY <2>6, <3>4, <4>2
      <4> QED
        BY <4>1, <4>3 DEF StoredInv
    <3> QED
      BY <3>2, <3>3, <3>4
  <2> HIDE DEF nm
  <2> QED
    BY <1>1, <1>2, <1>3, <2>2, <2>7 DEF StoredInv
<1> QED
  BY <1>4, <1>5

(* What is in the local storage is accounted for in every reachable state. *)
THEOREM StoredInvInductive == Spec => []StoredInv
<1>1. Init => StoredInv
  BY DEF Init, StoredInv
<1>2. ASSUME TypeOK, StoredInv, [Step \/ Terminated]_vars PROVE StoredInv'
  <2>1. CASE SelectTarget
    BY <1>2, <2>1 DEF SelectTarget, Goto, Error, pulling, StoredInv, Shared, ArchOf
  <2>2. ASSUME NEW i \in Indexes, TakeStage(i) PROVE StoredInv'
    <3>1. /\ pc = "collect" /\ pc' \in {"collect", "error"} /\ pulled = {} /\ pulled' = {}
      BY <1>2, <2>2 DEF TakeStage, AddImage, Goto, Error, pulling, StoredInv
    <3>2. images' = images \/ AddImage(df.stages[i].image)
      BY <2>2 DEF TakeStage
    <3>3. df.stages[i].image \in Images
      BY <1>2, <2>2 DEF TypeOK, Stage
    <3>4. \A k, j \in images' : k.ref = j.ref => k = j
      BY <1>2, <3>2, <3>3, OnePlatform DEF StoredInv
    <3> QED
      BY <3>1, <3>4 DEF StoredInv
  <2>3. ASSUME NEW r \in Refs, TakeRef(r) PROVE StoredInv'
    <3>1. /\ pc = "collect" /\ pc' \in {"collect", "error"} /\ pulled = {} /\ pulled' = {}
      BY <1>2, <2>3 DEF TakeRef, AddImage, Goto, Error, pulling, StoredInv
    <3>2. images' = images \/ AddImage([ref |-> r, platform |-> ""])
      BY <2>3 DEF TakeRef
    <3>3. [ref |-> r, platform |-> ""] \in Images
      BY <2>3 DEF Images
    <3>4. \A k, j \in images' : k.ref = j.ref => k = j
      BY <1>2, <3>2, <3>3, OnePlatform DEF StoredInv
    <3> QED
      BY <3>1, <3>4 DEF StoredInv
  <2>4. ASSUME NEW img \in todo, PullImage(img) PROVE StoredInv'
    BY <1>2, <2>4, PullKeepsStored
  <2>5. ASSUME UNCHANGED <<images, pulled, storage>>, pc' \notin {"select", "collect"},
               pc # "error" \/ pc' = pc, pc' = "pull" => todo' \subseteq images
        PROVE  StoredInv'
    BY <1>2, <2>5 DEF StoredInv, Shared, ArchOf
  <2>6. CASE Collected \/ AllPulled \/ AllVerified \/ InjectBuildinfo \/ Fail
    <3>1. /\ UNCHANGED <<images, pulled, storage>>
          /\ pc # "error" /\ pc' \notin {"select", "collect"}
          /\ pc' = "pull" => todo' \subseteq images
      BY <2>6 DEF Collected, AllPulled, AllVerified, InjectBuildinfo, Fail, Goto, Error,
                  collecting, pulling
    <3> QED
      BY <2>5, <3>1
  <2>7. ASSUME NEW img \in todo, VerifyImage(img) PROVE StoredInv'
    <3>1. UNCHANGED <<images, pulled, storage>> /\ pc = "verify" /\ pc' \in {"verify", "error"}
      BY <2>7 DEF VerifyImage, Goto, Error, collecting
    <3> QED
      BY <2>5, <3>1
  <2>8. CASE UNCHANGED vars
    BY <1>2, <2>8 DEF vars, collecting, pulling, StoredInv, Shared, ArchOf
  <2> QED
    BY <1>2, <2>1, <2>2, <2>3, <2>4, <2>6, <2>7, <2>8 DEF Step, Terminated
<1> QED
  BY <1>1, <1>2, TypeCorrect, PTL DEF Spec

(* For every containerfile and every registry: when buildah starts, every  *)
(* image the build reads that can be pulled is stored in the variant asked *)
(* for, unless two spellings of one name were used.                        *)
THEOREM ImagesAsAsked == Spec => []PulledAsAsked
<1>1. ASSUME CollectsWhatIsNeeded, PullInv, StoredInv PROVE PulledAsAsked
  <2> SUFFICES ASSUME pc = "build", NEW img \in NeededImages, Pullable[img.ref]
               PROVE  \/ storage[StoredAs[img.ref]] \in ArchOf(img)
                      \/ /\ storage[StoredAs[img.ref]] # "none"
                         /\ \E o \in NeededImages :
                               o.ref # img.ref /\ StoredAs[o.ref] = StoredAs[img.ref]
    BY DEF PulledAsAsked
  <2>1. images = NeededImages /\ img \in pulled
    BY <1>1 DEF CollectsWhatIsNeeded, PullInv
  <2> QED
    BY <1>1, <2>1 DEF StoredInv, Shared
<1> QED
  BY <1>1, SearchIsExact, PullInvInductive, StoredInvInductive, PTL

--------------------------------------------------------------------------------
(* The base stage of the final stage.  The function that follows FROM is   *)
(* recursive; what it computes is proved by descent: a set of stages that  *)
(* is not empty has a first one.                                           *)

(* A set of numbers that is not empty has a least one.                     *)
LEMMA LeastElement ==
    ASSUME NEW T, T \subseteq Nat, T # {}
    PROVE  \E x \in T : \A y \in T : x <= y
<1> DEFINE R == OpToRel(<, Nat)
<1>1. IsWellFoundedOn(R, Nat)
  BY NatLessThanWellFounded
<1>2. \A x, y \in Nat : <<y, x>> \in R <=> y < x
  BY DEF OpToRel
<1> HIDE DEF R
<1>3. PICK x \in T : \A y \in T : ~(<<y, x>> \in R)
  BY <1>1, WFMin
<1>4. ASSUME NEW y \in T PROVE x <= y
  <2>1. x \in Nat /\ y \in Nat
    OBVIOUS
  <2>2. ~(y < x)
    BY <1>2, <1>3, <2>1
  <2> QED
    BY <2>1, <2>2
<1> QED
  BY <1>4

(* f follows FROM from each of the stages up to the n-th.                  *)
Follows(f, n) ==
    f = [i \in 0..n |-> IF df.stages[i].from = "stage" THEN f[df.stages[i].stage] ELSE i]

(* There is such a function for every number of stages, as a FROM names an *)
(* earlier stage.                                                          *)
LEMMA FollowsExists ==
    ASSUME df \in Containerfiles
    PROVE  \E f : Follows(f, df.last)
<1>1. /\ df.last \in Nat
      /\ \A i \in 0..df.last : df.stages[i].from = "stage" => df.stages[i].stage \in 0..(i - 1)
  BY BaseImagesAssumption
<1> DEFINE T == {n \in 0..df.last : ~\E f : Follows(f, n)}
<1>2. SUFFICES ASSUME T # {} PROVE FALSE
  BY <1>1
<1>3. T \subseteq Nat
  OBVIOUS
<1>4. PICK n \in T : \A m \in T : n <= m
  BY <1>2, <1>3, LeastElement
<1>5. n \in 0..df.last /\ ~\E f : Follows(f, n)
  BY <1>4
<1>6. CASE n = 0
  <2>1. df.stages[0].from # "stage"
    BY <1>1, <1>5, <1>6
  <2>2. Follows([i \in 0..0 |-> i], 0)
    BY <2>1 DEF Follows
  <2> QED
    BY <1>5, <1>6, <2>2
<1>7. CASE n # 0
  <2>1. n - 1 \in 0..df.last /\ n - 1 \notin T
    BY <1>1, <1>4, <1>5, <1>7
  <2>2. PICK f : Follows(f, n - 1)
    BY <2>1
  <2> DEFINE g == [i \in 0..n |-> IF i = n
                                  THEN IF df.stages[n].from = "stage" THEN f[df.stages[n].stage] ELSE n
                                  ELSE f[i]]
  <2>3. ASSUME NEW i \in 0..n
        PROVE  g[i] = IF df.stages[i].from = "stage" THEN g[df.stages[i].stage] ELSE i
    <3>1. df.stages[i].from = "stage" =>
             df.stages[i].stage \in 0..(n - 1) /\ g[df.stages[i].stage] = f[df.stages[i].stage]
      BY <1>1, <1>5, <1>7
    <3>2. CASE i = n
      BY <3>1, <3>2
    <3>3. CASE i # n
      <4>1. i \in 0..(n - 1) /\ g[i] = f[i]
        BY <1>5, <3>3
      <4>2. f[i] = IF df.stages[i].from = "stage" THEN f[df.stages[i].stage] ELSE i
        BY <2>2, <4>1 DEF Follows
      <4> QED
        BY <3>1, <4>1, <4>2
    <3> QED
      BY <3>2, <3>3
  <2>4. g = [i \in 0..n |-> g[i]]
    OBVIOUS
  <2> HIDE DEF g
  <2>5. Follows(g, n)
    BY <2>3, <2>4 DEF Follows
  <2> QED
    BY <1>5, <2>5
<1> QED
  BY <1>6, <1>7

(* So the base stage is where following FROM from the last stage leads.    *)
LEMMA BaseStageFollows ==
    ASSUME df \in Containerfiles
    PROVE  \E f : Follows(f, df.last) /\ BaseStage = f[df.last]
<1> DEFINE f == CHOOSE h : Follows(h, df.last)
<1>1. Follows(f, df.last)
  BY FollowsExists
<1>2. BaseStage = f[df.last]
  BY DEF BaseStage, Follows, Indexes
<1> HIDE DEF f
<1> QED
  BY <1>1, <1>2

(* The indexes up to n.                                                    *)
LEMMA Upto ==
    ASSUME NEW n \in Nat
    PROVE  /\ n \in 0..n /\ n <= n
           /\ 0..n \subseteq Nat
           /\ \A i \in 0..n : \A j \in 0..(i - 1) : ~(i <= j)
  OBVIOUS

(* When the search has ended, the base stage is one of the stages it has   *)
(* seen, and is built from an image or from scratch.                       *)
LEMMA BaseStageSeen ==
    ASSUME CollectInv, pc = "inject", params.target = ""
    PROVE  BaseStage \in stagesSeen /\ df.stages[BaseStage].from # "stage"
<1>1. /\ TypeOK /\ df \in Containerfiles /\ Complete /\ stagesToProcess = {}
  BY DEF CollectInv
<1>2. /\ df.last \in Nat /\ stagesSeen \subseteq 0..df.last
      /\ \A i \in 0..df.last : df.stages[i].from = "stage" => df.stages[i].stage \in 0..(i - 1)
  BY <1>1, BaseImagesAssumption DEF TypeOK, Indexes
<1>3. df.last \in Nat
  BY <1>2
<1>4. df.last \in stagesSeen
  <2>1. TargetStages = {df.last}
    BY DEF TargetStages
  <2>2. df.last \in Indexes /\ df.last <= df.last
    BY <1>3, Upto DEF Indexes
  <2>3. df.last \in StagesOfInterest
    BY <2>1, <2>2 DEF StagesOfInterest
  <2> QED
    BY <1>1, <2>3 DEF Complete
<1>5. PICK f : Follows(f, df.last) /\ BaseStage = f[df.last]
  BY <1>1, BaseStageFollows
<1>6. \A i \in 0..df.last : f[i] = IF df.stages[i].from = "stage" THEN f[df.stages[i].stage] ELSE i
  BY <1>5 DEF Follows
<1> DEFINE Good(i) == f[i] \in stagesSeen /\ df.stages[f[i]].from # "stage"
           T == {i \in stagesSeen : ~Good(i)}
<1>7. T = {}
  <2> SUFFICES ASSUME T # {} PROVE FALSE
    OBVIOUS
  <2>1. T \subseteq Nat
    <3>1. 0..df.last \subseteq Nat
      BY <1>3, Upto
    <3> QED
      BY <1>2, <3>1
  <2>2. PICK i \in T : \A j \in T : i <= j
    BY <2>1, LeastElement
  <2>3. i \in stagesSeen /\ i \in 0..df.last /\ ~Good(i)
    BY <1>2, <2>2
  <2>4. CASE df.stages[i].from # "stage"
    BY <1>6, <2>3, <2>4
  <2>5. CASE df.stages[i].from = "stage"
    <3> DEFINE j == df.stages[i].stage
    <3>1. j \in 0..(i - 1)
      BY <1>2, <2>3, <2>5
    <3>2. j \in stagesSeen
      BY <1>1, <2>3, <2>5 DEF Complete, FromHandled
    <3>3. f[i] = f[j]
      BY <1>6, <2>3, <2>5
    <3>4. j \in T
      BY <2>3, <3>2, <3>3
    <3>5. i <= j
      BY <2>2, <3>4
    <3> HIDE DEF j
    <3> QED
      BY <1>3, <2>3, <3>1, <3>5, Upto
  <2> QED
    BY <2>4, <2>5
<1> QED
  BY <1>4, <1>5, <1>7

(* The labels are read only when no target is named, and no build has      *)
(* missed its base image.                                                  *)
LabelsInv == LabelsFromPulledBase /\ (pc = "inject" => params.target = "")

(* The base image whose labels injectBuildinfo reads has been pulled, for  *)
(* every containerfile: the search for the images to pull and the search   *)
(* for the base stage agree.                                               *)
THEOREM LabelsAlwaysFromPulled == Spec => []LabelsFromPulledBase
<1>1. Init => LabelsInv
  BY DEF Init, LabelsInv, LabelsFromPulledBase
<1>2. ASSUME CollectInv, PullInv, StoredInv, LabelsInv, [Step \/ Terminated]_vars
      PROVE  LabelsInv'
  <2>1. CASE InjectBuildinfo
    <3> DEFINE stage == df.stages[BaseStage]
               ref == stage.image.ref
    <3>1. pc = "inject" /\ params.target = ""
      BY <1>2, <2>1 DEF InjectBuildinfo, LabelsInv
    <3>2. BaseStage \in stagesSeen
      BY <1>2, <3>1, BaseStageSeen
    <3>3. ASSUME stage.from = "image", Pullable[ref] PROVE storage[StoredAs[ref]] # "none"
      <4>1. stage.image \in images
        BY <1>2, <3>1, <3>2, <3>3 DEF CollectInv, Complete, FromHandled
      <4>2. stage.image \in pulled
        BY <1>2, <3>1, <3>3, <4>1 DEF PullInv
      <4>3. stage.image \in Images
        BY <1>2, <4>1 DEF CollectInv, TypeOK
      <4>4. "none" \notin ArchOf(stage.image)
        <5>1. StoredAs[ref] \in Names
          BY <4>3 DEF Images, Names
        <5>2. ArchOf(stage.image) \subseteq AllArchs
          BY <5>1 DEF ArchOf, AllArchs
        <5> QED
          BY <5>2, BaseImagesAssumption
      <4> QED
        BY <1>2, <4>2, <4>4 DEF StoredInv
    <3>4. failure' = failure /\ pc' = "build"
      BY <2>1, <3>3 DEF InjectBuildinfo, Goto
    <3> QED
      BY <1>2, <3>4 DEF LabelsInv, LabelsFromPulledBase
  <2>2. CASE AllVerified
    <3>1. failure' = failure /\ params' = params /\ (pc' = "inject" => params.target = "")
      BY <2>2 DEF AllVerified, Goto
    <3> QED
      BY <1>2, <3>1 DEF LabelsInv, LabelsFromPulledBase
  <2>3. CASE SelectTarget \/ (\E i \in Indexes : TakeStage(i)) \/ (\E r \in Refs : TakeRef(r))
    <3>1. pc' \in {"collect", "error"}
          /\ failure' \in {failure, "target not found", "conflicting platforms"}
      BY <2>3 DEF SelectTarget, TakeStage, TakeRef, AddImage, Goto, Error
    <3> QED
      BY <1>2, <3>1 DEF LabelsInv, LabelsFromPulledBase
  <2>4. CASE Collected \/ AllPulled \/ Fail
    <3>1. pc' \in {"pull", "verify", "error"} /\ failure' \in {failure, "command"}
      BY <2>4 DEF Collected, AllPulled, Fail, Goto, Error
    <3> QED
      BY <1>2, <3>1 DEF LabelsInv, LabelsFromPulledBase
  <2>5. ASSUME NEW img \in todo, PullImage(img) \/ VerifyImage(img) PROVE LabelsInv'
    <3>1. pc' \in {"pull", "verify", "error"} /\ failure' \in {failure, "architecture"}
      BY <2>5 DEF PullImage, VerifyImage, Goto, Error
    <3> QED
      BY <1>2, <3>1 DEF LabelsInv, LabelsFromPulledBase
  <2>6. CASE UNCHANGED vars
    BY <1>2, <2>6 DEF vars, LabelsInv, LabelsFromPulledBase
  <2> QED
    BY <1>2, <2>1, <2>2, <2>3, <2>4, <2>5, <2>6 DEF Step, Terminated
<1>3. LabelsInv => LabelsFromPulledBase
  BY DEF LabelsInv
<1> QED
  BY <1>1, <1>2, <1>3, CollectInvInductive, PullInvInductive, StoredInvInductive, PTL DEF Spec
================================================================================
