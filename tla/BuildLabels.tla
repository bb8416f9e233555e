------------------------------- MODULE BuildLabels -------------------------------
(***************************************************************************)
(* 'image build' from its command line to the labels and annotations of    *)
(* the image (pkg/commands/build.go): the labels the user gave are merged  *)
(* with the default ones, labels.json foretells the labels of the image,   *)
(* and buildah then builds the image.                                      *)
(***************************************************************************)
EXTENDS CommandLine

CONSTANTS Cases,     \* by name: the command lines, environments, options and containerfiles
          LabelOf,   \* the key and the value of the texts of labels and annotations
          BaseLabels \* by image, its labels; images that cannot be inspected included

VARIABLES argv, env,     \* the command line and the environment
          options,       \* the other options of the build
          df,            \* the stages of the containerfile
          phase,
          parsed,        \* what pflag made of the command line
          todo,          \* the parameters ParseParameters has yet to visit
          params,        \* BuildParams, as far as they are known
          mergedLabels, mergedAnnotations,
          labelsJson,    \* what labels.json holds
          image          \* the labels and annotations of the image

LabelType == [key: STRING, value: STRING]

(* The stages of a containerfile as the parser gives them: a FROM that     *)
(* names a stage names an earlier one.                                     *)
IsContainerfile(stages) ==
    /\ stages \in Seq([from: {"scratch", "image", "stage"}, stage: Nat, image: STRING, labels: Seq(LabelType)])
    /\ stages # <<>>
    /\ \A i \in DOMAIN stages : /\ stages[i].from = "stage" => stages[i].stage \in 1..(i - 1)
                                /\ stages[i].from = "image" => stages[i].image \in DOMAIN BaseLabels

ASSUME BuildLabelsAssumption ==
    /\ {"labels", "annotations"} \subseteq Names
    /\ \A i \in DOMAIN BaseLabels : BaseLabels[i].labels \in Seq(LabelType)
    /\ \A case \in DOMAIN Cases :
          /\ \A a \in Cases[case].argvs : a \in Seq(Token)
          /\ \A e \in Cases[case].envs : \A p \in Names :
                /\ e[p] \in STRING
                /\ e[p] # "" /\ Parameters[p].kind = "slice" => Fields[e[p]] \in Seq(STRING)
          /\ \A o \in Cases[case].options : /\ o.time \in STRING /\ o.annotationsFile \in Seq(LabelType)
                                            /\ o.target \in Nat
          /\ \A d \in Cases[case].containerfiles : IsContainerfile(d)

inputs == <<argv, env, options, df>>
merged == <<mergedLabels, mergedAnnotations>>
labelVars == <<inputs, phase, parsed, todo, params, merged, labelsJson, image>>

NoImage == [labels |-> <<>>, annotations |-> <<>>]

LabelsInit ==
    /\ \E case \in DOMAIN Cases :
          /\ argv \in Cases[case].argvs
          /\ env \in Cases[case].envs
          /\ options \in Cases[case].options
          /\ df \in Cases[case].containerfiles
    /\ phase = "expand"
    /\ parsed = NothingParsed
    /\ todo = Names
    /\ params = [p \in Names |-> <<>>]
    /\ mergedLabels = <<>> /\ mergedAnnotations = <<>>
    /\ labelsJson = <<>>
    /\ image = NoImage

(* Execute: the expanded arguments are given to cobra, which runs the      *)
(* command if pflag accepts them.                                          *)
Execute ==
    LET result == ParseFlags(ExpandArrayParameters(argv))
    IN  /\ phase = "expand"
        /\ IF result.error \/ result.args = <<>> \/ Head(result.args) # "build"
           THEN phase' = "usage" /\ UNCHANGED parsed
           ELSE phase' = "parameters" /\ parsed' = [result EXCEPT !.args = Tail(@)]
        /\ UNCHANGED <<inputs, todo, params, merged, labelsJson, image>>

(* NewBuild: ParseParameters, one parameter after the other in any order. *)
ParseParameters(p) ==
    LET result == ParseParameter(p, parsed.flags[p], env)
    IN  /\ phase = "parameters" /\ p \in todo
        /\ todo' = todo \ {p}
        /\ IF result.error
           THEN phase' = "error" /\ UNCHANGED params
           ELSE /\ params' = [params EXCEPT ![p] = result.value]
                /\ phase' = IF todo' = {} THEN "labels" ELSE phase
        /\ UNCHANGED <<inputs, parsed, merged, labelsJson, image>>

--------------------------------------------------------------------------------
(* processLabelsAndAnnotations.                                            *)

Label(key, value) == [key |-> key, value |-> value]
If(cond, labels) == IF cond THEN labels ELSE <<>>

OciLabels ==
    <<Label("created", options.time)>>
    \o If(options.source, <<Label("source", "source")>>)
    \o If(options.revision, <<Label("revision", "revision")>>)

LegacyLabels ==
    <<Label("build-date", options.time), Label("architecture", "arch")>>
    \o If(options.source, <<Label("vcs-url", "source")>>)
    \o If(options.revision, <<Label("vcs-ref", "revision")>>)
    \o If(options.source \/ options.revision, <<Label("vcs-type", "git")>>)

DefaultLabels == OciLabels \o If(options.expires, <<Label("quay.expires-after", "expires")>>)
                 \o If(options.legacyLabels, LegacyLabels)

FromTexts(texts) == [i \in DOMAIN texts |-> LabelOf[texts[i]]]

(* A mutant of Merge: the defaults come last. *)
MergeDefaultsLast(defaults, file, user) == user \o file \o defaults

Merge(defaults, file, user) == defaults \o file \o user

(* The build time is now, or one of two options, which exclude each other  *)
(* and must be numbers; the annotations file must be one that              *)
(* parseAnnotationsFile can read.                                          *)
ProcessLabelsAndAnnotations ==
    /\ phase = "labels"
    /\ IF options.time = "junk" \/ options.badAnnotationsFile
       THEN phase' = "failed" /\ UNCHANGED merged
       ELSE /\ mergedLabels' = Merge(DefaultLabels, <<>>, FromTexts(params["labels"]))
            /\ mergedAnnotations' = Merge(OciLabels, options.annotationsFile,
                                          FromTexts(params["annotations"]))
            /\ phase' = "inject"
    /\ UNCHANGED <<inputs, parsed, todo, params, labelsJson, image>>

--------------------------------------------------------------------------------
(* labels.json.                                                            *)

(* A Go map filled in the order of a sequence of labels: the last one of a *)
(* key counts.                                                             *)
Keys(labels) == {labels[i].key : i \in DOMAIN labels}
LastOf(labels, key) == CHOOSE i \in DOMAIN labels :
                          /\ labels[i].key = key
                          /\ \A j \in DOMAIN labels : labels[j].key = key => j <= i
AsMap(labels) == [key \in Keys(labels) |-> labels[LastOf(labels, key)].value]

(* processUntilBaseStage follows FROM from the final stage to the base     *)
(* stage.                                                                  *)
BaseStage(stages) ==
    LET base[i \in DOMAIN stages] == IF stages[i].from = "stage" THEN base[stages[i].stage] ELSE i
    IN  stages[base[Len(stages)]]

(* A mutant of ContainerfileLabels: the chain is not reversed. *)
LabelsFinalStageFirst(stages) ==
    LET chain[i \in DOMAIN stages] ==
          IF stages[i].from = "stage" THEN stages[i].labels \o chain[stages[i].stage] ELSE stages[i].labels
    IN  chain[Len(stages)]

(* getStageLabels of the stages of the chain, the base stage first. *)
ContainerfileLabels(stages) ==
    LET chain[i \in DOMAIN stages] ==
          IF stages[i].from = "stage" THEN chain[stages[i].stage] \o stages[i].labels ELSE stages[i].labels
    IN  chain[Len(stages)]

(* isPullableImage, getImageLabels: labels of an image of another transport *)
(* are ignored with a warning.                                             *)
Pullable(stage) == stage.from = "image" /\ BaseLabels[stage.image].pullable
BaseImageLabels(stage) == If(Pullable(stage), BaseLabels[stage.image].labels)

VersionLabel(opts) == If(opts.time # "epoch", <<Label("io.buildah.version", "version")>>)

DetermineFinalLabels(stages, opts, userLabels) ==
    AsMap((IF opts.inherit THEN BaseImageLabels(BaseStage(stages)) \o ContainerfileLabels(stages)
           ELSE stages[Len(stages)].labels)
          \o userLabels \o VersionLabel(opts))

(* Buildinfo is not injected with --skip-injections, nor with --target. *)
Injects(opts) == ~opts.skipInjections /\ opts.target = 0

(* The base image may not be inspected, before labels.json is written, and *)
(* other files of the buildinfo may not be written after it.               *)
InjectBuildinfo ==
    /\ phase = "inject"
    /\ \/ /\ Injects(options)
          /\ labelsJson' = DetermineFinalLabels(df, options, mergedLabels)
          /\ phase' \in {"build", "failed"}
       \/ Injects(options) /\ phase' = "failed" /\ UNCHANGED labelsJson
       \/ ~Injects(options) /\ phase' = "build" /\ UNCHANGED labelsJson
    /\ UNCHANGED <<inputs, parsed, todo, params, merged, image>>

--------------------------------------------------------------------------------
(* buildah, external: each stage starts from the labels of what it is      *)
(* built FROM, if they are inherited, and runs its LABEL instructions; the *)
(* options apply to the image, the last one of a key counts, and buildah's *)
(* own labels come last.  The image is that of the last stage, or of the   *)
(* stage that --target names.                                              *)
Over(new, old) == [k \in DOMAIN new \union DOMAIN old |-> IF k \in DOMAIN new THEN new[k] ELSE old[k]]

StageLabelsOf(stages, target, inherit) ==
    LET built[i \in DOMAIN stages] ==
          Over(AsMap(stages[i].labels),
               IF ~inherit THEN <<>>
               ELSE IF stages[i].from = "stage" THEN built[stages[i].stage]
               ELSE IF stages[i].from = "image" THEN AsMap(BaseLabels[stages[i].image].labels) ELSE <<>>)
    IN  built[target]

TargetStage(stages, opts) == IF opts.target = 0 THEN Len(stages) ELSE opts.target

(* --stage-labels, which is given if builder content is to be scanned      *)
(* (enableBuilderContentScanning).                                         *)
StageLabelKeys(opts) == IF opts.scanBuilders THEN {"io.buildah.stage.name", "io.buildah.stage.base"} ELSE {}
StageInfo(stage) == [key \in {"io.buildah.stage.name", "io.buildah.stage.base"} |->
                        IF key = "io.buildah.stage.base" /\ stage.from = "image" THEN stage.image ELSE "stage"]

ImageLabels(stages, opts, userLabels) ==
    LET target == TargetStage(stages, opts)
        given == Over(AsMap(VersionLabel(opts)),
                      Over(AsMap(userLabels), StageLabelsOf(stages, target, opts.inherit)))
    IN  IF opts.scanBuilders THEN Over(StageInfo(stages[target]), given) ELSE given

(* buildImage: buildah may fail, and does so for an unknown target. *)
BuildImage ==
    /\ phase = "build"
    /\ \/ /\ TargetStage(df, options) \in DOMAIN df
          /\ image' = [labels      |-> ImageLabels(df, options, mergedLabels),
                       annotations |-> AsMap(mergedAnnotations)]
          /\ phase' = "built"
       \/ phase' = "failed" /\ UNCHANGED image
    /\ UNCHANGED <<inputs, parsed, todo, params, merged, labelsJson>>

LabelsTerminated == phase \in {"built", "error", "failed", "usage"} /\ UNCHANGED labelVars

LabelsNext ==
    \/ Execute \/ (\E p \in Names : ParseParameters(p)) \/ ProcessLabelsAndAnnotations
    \/ InjectBuildinfo \/ BuildImage \/ LabelsTerminated

LabelsSpec == LabelsInit /\ [][LabelsNext]_labelVars

--------------------------------------------------------------------------------
(* What parameter p should be, in terms of the command line as written. *)
Meant(p) ==
    LET given == Given(argv, p)
        convertible == Parameters[p].kind \in DOMAIN Parses => env[p] \in Parses[Parameters[p].kind]
    IN  CASE given # <<>> /\ Parameters[p].kind = "slice" -> Value(given)
          [] given # <<>> /\ Parameters[p].kind # "slice" -> Value(<<given[Len(given)]>>)
          [] given = <<>> /\ env[p] = "" /\ ~Parameters[p].required -> Value(Parameters[p].default)
          [] given = <<>> /\ env[p] # "" /\ Parameters[p].kind = "slice" -> Value(Fields[env[p]])
          [] given = <<>> /\ env[p] # "" /\ Parameters[p].kind # "slice" /\ convertible -> Value(<<env[p]>>)
          [] OTHER -> Missing

(* However array parameters, other flags, arguments and "--" follow each   *)
(* other on a command line that names the command first, and whatever the  *)
(* order in which the parameters are visited: every parameter gets the     *)
(* values the command line gives it, in order, no value becomes an         *)
(* argument or the other way round, and the command refuses to run only if *)
(* a value is missing or cannot be converted.                              *)
ParamsAsMeant ==
    WellFormed(argv) =>
        /\ phase = "usage" => \E p \in Names, k \in 1..Len(argv) :
              /\ k \in DOMAIN Given(argv, p) /\ Parameters[p].kind \in DOMAIN Parses
              /\ Given(argv, p)[k] \notin Parses[Parameters[p].kind]
        /\ phase \notin {"expand", "usage"} => parsed.args = Tail(Arguments(argv))
        /\ phase = "error" => \E p \in Names : Meant(p).error
        /\ phase \in {"labels", "inject", "build", "built", "failed"} =>
              \A p \in Names : params[p] = Meant(p).value /\ ~Meant(p).error

(* labels.json holds the labels that the image gets, through any chain of  *)
(* stages, with and without inheritance, except the inherited labels of a  *)
(* base image of a transport that cannot be inspected and, as the comment  *)
(* in buildImage says, the labels of --stage-labels.  Of those labels.json *)
(* holds what the base image, a LABEL or an option gave them, if anything. *)
LabelsDescribeImage ==
    LET foretold == DOMAIN labelsJson \ StageLabelKeys(options)
        found == DOMAIN image.labels \ StageLabelKeys(options)
        base == BaseStage(df)
    IN  phase = "built" /\ Injects(options) =>
            /\ foretold \subseteq found
            /\ \A k \in foretold : labelsJson[k] = image.labels[k]
            /\ foretold = found \/ (options.inherit /\ base.from = "image" /\ ~Pullable(base))

(* The last value of a key the user gave is the one the image has: options *)
(* before the annotations file, that before the defaults and all before    *)
(* the containerfile and the base image, whatever stage is built.  Only    *)
(* buildah's own labels take precedence: its version and, if it is told to *)
(* add them, the labels of --stage-labels.                                 *)
UserValuesWin ==
    LET last(labels, k) == AsMap(labels)[k]
        userLabels == FromTexts(Meant("labels").value)
        userAnnotations == options.annotationsFile \o FromTexts(Meant("annotations").value)
    IN  phase = "built" /\ WellFormed(argv) =>
            /\ \A k \in DOMAIN AsMap(userLabels) :
                  k \notin {"io.buildah.version"} \union StageLabelKeys(options) =>
                      image.labels[k] = last(userLabels, k)
            /\ \A k \in DOMAIN AsMap(userAnnotations) :
                  image.annotations[k] = last(userAnnotations, k)
================================================================================
