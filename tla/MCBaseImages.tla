------------------------------ MODULE MCBaseImages ------------------------------
(***************************************************************************)
(* Containerfiles of up to three stages, with stages that share a name or  *)
(* are called by a number, and references to stages (earlier, later, the   *)
(* same) and images (multi-arch, of one foreign architecture, under two    *)
(* spellings, of a transport that is not pulled).                          *)
(***************************************************************************)
EXTENDS BaseImages, TLC

AllRefs == {"base", "1", "multi", "docker://multi", "arm", "dir:x"}
Numbers == [r \in AllRefs |-> IF r = "1" THEN 1 ELSE -1]
CanPull == [r \in AllRefs |-> r # "dir:x"]
StoreName == [r \in AllRefs |-> IF r = "docker://multi" THEN "multi" ELSE r]
RegistryArchs == [nm \in {"base", "1", "multi", "arm", "dir:x"} |->
                    IF nm = "multi" THEN {"amd64", "arm64"} ELSE IF nm = "arm" THEN {"arm64"} ELSE {"amd64"}]

Scratch == [name |-> "", from |-> "scratch", stage |-> 0,
            image |-> [ref |-> "multi", platform |-> ""], refs |-> {}]
FromImage(r, p) == [Scratch EXCEPT !.from = "image", !.image = [ref |-> r, platform |-> p]]
FromStage(i) == [Scratch EXCEPT !.from = "stage", !.stage = i]

Stages0 == {[s EXCEPT !.name = nm] : s \in {FromImage("multi", ""), FromImage("multi", "arm64"), FromImage("arm", "")},
                                     nm \in {"", "base", "1"}}
Stages1 == {[s EXCEPT !.name = nm, !.refs = rs] :
              s \in {FromStage(0), FromImage("docker://multi", "")},
              nm \in {"", "base"}, rs \in {{}, {"base"}, {"1", "dir:x"}}}
Stages2 == {[s EXCEPT !.refs = rs] :
              s \in {FromStage(0), FromStage(1), Scratch, FromImage("multi", "amd64")},
              rs \in {{}, {"base"}, {"1"}, {"base", "arm"}}}

SomeContainerfiles ==
    {[last |-> 1, stages |-> (0 :> s0 @@ 1 :> s1)] : s0 \in Stages0, s1 \in Stages1}
    \union {[last |-> 2, stages |-> (0 :> s0 @@ 1 :> s1 @@ 2 :> s2)] :
               s0 \in Stages0, s1 \in Stages1, s2 \in Stages2}

Default == [target |-> "", skipUnused |-> TRUE, allowCross |-> FALSE, inject |-> TRUE,
            inheritLabels |-> TRUE, newBuildah |-> TRUE]
SomeParams == {Default,
               [Default EXCEPT !.allowCross = TRUE, !.inheritLabels = FALSE],
               [Default EXCEPT !.skipUnused = FALSE, !.inject = FALSE],
               [Default EXCEPT !.target = "base"],
               [Default EXCEPT !.target = "1", !.skipUnused = FALSE, !.allowCross = TRUE],
               [Default EXCEPT !.target = "base", !.newBuildah = FALSE, !.allowCross = TRUE]}
================================================================================
