------------------------------ MODULE MCBuildLabels ------------------------------
(***************************************************************************)
(* Four kinds of builds: every short command line and some environments;   *)
(* every combination of the options that add labels; every containerfile   *)
(* of up to three stages; every way to name a target or to skip the        *)
(* injections.                                                             *)
(***************************************************************************)
EXTENDS BuildLabels, TLC

MCParameters ==
    [labels      |-> [kind |-> "slice", required |-> FALSE, default |-> <<>>],
     annotations |-> [kind |-> "slice", required |-> FALSE, default |-> <<>>],
     outputRef   |-> [kind |-> "string", required |-> TRUE, default |-> <<>>],
     push        |-> [kind |-> "bool", required |-> FALSE, default |-> <<"false">>]]

MCFields == "k=2 j=1" :> <<"k=2", "j=1">> @@ "blank" :> <<>>
MCParses == [bool |-> {"true", "false"}, int |-> {"1"}]
MCLabelOf == "k=1" :> Label("k", "1") @@ "k=2" :> Label("k", "2") @@ "j=1" :> Label("j", "1")
             @@ "created=9" :> Label("created", "9")
             @@ "io.buildah.version=9" :> Label("io.buildah.version", "9") @@ "a flag" :> Label("a flag", "")
             @@ "io.buildah.stage.name=9" :> Label("io.buildah.stage.name", "9")
MCBaseLabels ==
    [registry |-> [pullable |-> TRUE, labels |-> <<Label("k", "base"), Label("io.buildah.stage.name", "base")>>],
     archive  |-> [pullable |-> FALSE, labels |-> <<Label("k", "base"), Label("i", "base")>>]]

NoEnv == [p \in DOMAIN MCParameters |-> ""]
NoOpts == [source |-> FALSE, revision |-> FALSE, expires |-> FALSE, legacyLabels |-> FALSE,
              time |-> "now", inherit |-> TRUE, annotationsFile |-> <<>>, badAnnotationsFile |-> FALSE,
              scanBuilders |-> FALSE, skipInjections |-> FALSE, target |-> 0]
FileAnnotations == <<Label("created", "file"), Label("k", "file")>>
FromScratch == [from |-> "scratch", stage |-> 0, image |-> "none", labels |-> <<Label("k", "stage")>>]

Tokens == {Flag("labels"), FlagEq("labels", "j=1"), Flag("outputRef"), Flag("push"), Dashes,
           Word("k=1"), Word("k=2")}
CommandLines == {<<Word("build")>> \o s : s \in UNION {[1..n -> Tokens] : n \in 0..4}}
                \union {<<FlagEq("outputRef", "k=1"), Word("build"), Flag("labels"), Word("k=1"), Word("k=2")>>,
                        <<Word("build"), FlagEq("push", "junk"), Flag("outputRef"), Word("k=1")>>,
                        <<Word("other"), Flag("push")>>}

Labelled == {<<Word("build"), FlagEq("outputRef", "k=1"), Flag("labels")>> \o s \o t :
                s \in {<<>>, <<Word("k=1"), Word("k=2")>>, <<Word("created=9"), Word("io.buildah.version=9")>>,
                      <<Word("io.buildah.stage.name=9")>>},
                t \in {<<>>, <<Flag("annotations"), Word("created=9"), Word("k=1")>>}}

StageLabels == {<<>>, <<Label("k", "one")>>, <<Label("k", "two"), Label("k", "three"), Label("j", "one")>>}
StageAt(i) == [from: {"scratch"}, stage: {0}, image: {"none"}, labels: StageLabels]
              \union [from: {"image"}, stage: {0}, image: DOMAIN MCBaseLabels, labels: StageLabels]
              \union [from: {"stage"}, stage: 1..(i - 1), image: {"none"}, labels: StageLabels]
Containerfiles == {<<s1>> : s1 \in StageAt(1)}
                  \union {<<s1, s2>> : s1 \in StageAt(1), s2 \in StageAt(2)}
                  \union {<<s1, s2, s3>> : s1 \in StageAt(1), s2 \in StageAt(2), s3 \in StageAt(3)}

MCCases ==
    [lines  |-> [argvs |-> CommandLines,
                 envs |-> {NoEnv, [NoEnv EXCEPT !.outputRef = "k=2"],
                           [NoEnv EXCEPT !.labels = "k=2 j=1", !.outputRef = "k=2"],
                           [NoEnv EXCEPT !.labels = "blank", !.push = "junk"]},
                 options |-> {NoOpts}, containerfiles |-> {<<FromScratch>>}],
     labels |-> [argvs |-> Labelled,
                 envs |-> {NoEnv, [NoEnv EXCEPT !.labels = "k=2 j=1"]},
                 options |-> {[NoOpts EXCEPT !.source = s, !.revision = r, !.expires = e, !.legacyLabels = l,
                                             !.time = t, !.annotationsFile = f] :
                                s \in BOOLEAN, r \in BOOLEAN, e \in BOOLEAN, l \in BOOLEAN,
                                t \in {"now", "epoch", "timestamp", "junk"}, f \in {<<>>, FileAnnotations}}
                             \union {[NoOpts EXCEPT !.scanBuilders = b, !.badAnnotationsFile = ~b] : b \in BOOLEAN},
                 containerfiles |-> {<<FromScratch>>}],
     stages |-> [argvs |-> {<<Word("build"), FlagEq("outputRef", "k=1")>>,
                            <<Word("build"), FlagEq("outputRef", "k=1"), Flag("labels"), Word("j=1")>>},
                 envs |-> {NoEnv},
                 options |-> {[NoOpts EXCEPT !.inherit = i, !.time = t] : i \in BOOLEAN, t \in {"now", "epoch"}}
                             \union {[NoOpts EXCEPT !.inherit = i, !.scanBuilders = TRUE] : i \in BOOLEAN},
                 containerfiles |-> Containerfiles],
     target |-> [argvs |-> {<<Word("build"), FlagEq("outputRef", "k=1"), Flag("labels"), Word("j=1")>>},
                 envs |-> {NoEnv},
                 options |-> {[NoOpts EXCEPT !.target = t, !.skipInjections = k, !.inherit = i, !.scanBuilders = b] :
                                t \in 0..3, k \in BOOLEAN, i \in BOOLEAN, b \in BOOLEAN},
                 containerfiles |-> {<<s1, s2>> : s1 \in StageAt(1), s2 \in StageAt(2)}]]
================================================================================
