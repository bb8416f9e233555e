# TLA+ specifications of konflux-build-cli

`konflux-build-cli` is the command line program behind the build tasks of a Konflux
pipeline. It builds container images with buildah, pushes them, assembles image indexes,
applies tags, clones repositories and prefetches dependencies. Most of its logic is the
order in which it calls other programs (buildah, skopeo, oras, git, syft, hermeto,
subscription-manager) and what it does when one of them fails. That is what these modules
specify. Paths below are relative to `src/`.

## 1. The system

### Components

| Component | Source | State | Operations |
| --- | --- | --- | --- |
| retry layer | `pkg/cliwrappers/cli_retryer.go` | attempt, delay, last reply | `Run`, the `With...`/`StopIf...` options |
| tool wrappers | `pkg/cliwrappers/{buildah,skopeo,oras,git,subscription_manager,syft,hermeto}.go` | none; each configures a `Retryer` | one method per tool command |
| command executor | `pkg/cliwrappers/cli_executor.go` | two pipes, two goroutines, a channel, two buffers | `Execute` |
| image build: push | `pkg/commands/build.go` 2857-3124 | registry tags, temporary tags, a local index | `pushImage`, `pushImageDual`, `createPerArchIndex`, `pushAdditionalTags` |
| image build: steps and clean-up | `pkg/commands/build.go` `run`, `cleanup` | temporary work directory, containerfile copy, prefetch copy, volumes, secrets, RHSM registration, working container | `run` and the steps it calls |
| image build: base images | `pkg/commands/build.go` 2340-2680 | queue of stages, images found, local storage | `collectBaseImages`, `prePullBaseImages`, `verifyBaseImageArchitectures`, `processUntilBaseStage` |
| image build: SBOM inputs | `pkg/commands/build.go` 3126-3417 | files | `buildprobe`, `scanBuilderContent` |
| build-image-index | `pkg/commands/build_image_index.go` | local manifest list, registry | `buildManifestIndex`, `validateFormatConsistency` |
| apply-tags | `pkg/commands/apply_tags.go` | registry | `retrieveTagsFromImageLabel`, `applyTags` |
| push-containerfile | `pkg/commands/push_containerfile.go` | working directory, credentials file, temporary copy | `Run` and its deferred calls |
| git-clone | `pkg/commands/gitclone/` | checkout directory, credentials directory, repository | `Run`, `performClone`, `mergeTargetBranch` |
| prefetch-dependencies | `pkg/commands/prefetch_dependencies/` | hermeto's configuration file, git files in HOME, RHSM registration, entitlements | `New`, `Run` |
| config cache-proxy | `pkg/commands/cache_proxy.go`, `pkg/config/`, `pkg/clients/` | two result files | `Run` |
| parameters | `pkg/common/params.go`, `array_arg.go` | none | `ExpandArrayParameters`, `RegisterParameters`, `ParseParameters` |
| containerfile editor | `pkg/common/containerfile_editor/` | the lines of a file | `RunInjector.Inject` |
| other helpers | `pkg/common/` | none | credentials, image references, paths, symbolic links, results |
| wiring | `cmd/`, `pkg/logger/` | none | cobra commands |

### How they interact

Every command is one process that calls its steps in order. A step calls a tool wrapper, the
wrapper (for the tools that use the network) a `Retryer`, the `Retryer` the `CliExecutor`,
and that the child process. So `RetriedCall` is what the modules of the commands rely on: a
call may take effect several times, "ok" means that it took effect, "error" means nothing.
There are no messages and no shared memory between commands. What they share is outside:
a registry (tags and manifests), the containers storage of a host, the prefetch directory,
the git files in HOME and the host's RHSM registration. Inside one process only the executor is concurrent.

### What is hard

* A reply that is lost after the command took effect; retries of what was already done.
* Two pipelines that push, tag or index the same repository, and a registry that collects
  manifests no tag reaches between two steps of a build.
* Builds that share a prefetch directory, a storage or the registration of a host.
* An error at any of many steps, with deferred clean-up that must undo just what was done;
  and kills (evicted pods), after which a rerun meets what was left.
* Two drains, a bounded pipe and a child: blocked writers, output cut off at the end.
* A search over the stages of a containerfile with names, numbers and duplicates.
* Text that is rewritten by what it looks like, line by line or token by token: the
  configuration of hermeto, RUN instructions, array parameters, and labels.json, which
  foretells what buildah will do.

The hazards, each at its line, are in `PROJECT.json`; the properties are stated against them.

## 2. Modules

| Module | Models | Instances and proofs |
| --- | --- | --- |
| `Retryer` | one call of `Retryer.Run` | `MCRetryer`, `CommandProofs` |
| `RetriedCall` | abstract: what a caller of the retry layer may rely on | implemented by `Retryer` |
| `CliRetryPolicies` | the `Retryer`s that the wrappers configure | used by `MCRetryer` |
| `Executor` | one call of `CliExecutor.Execute` with the child and the pipes | `MCExecutor`, `CommandProofs` |
| `ImagePush` | `Build.pushImage` of several builds on one repository | `MCImagePush`, `ImagePushProofs` |
| `PublishedTags` | abstract: what users of the repository see | implemented by `ImagePush` |
| `BuildRun` | `Build.run` and `cleanup` of several builds on one host | `MCBuildRun`, `BuildRunProofs` |
| `BaseImages` | finding, pulling and verifying base images, inherited labels | `MCBaseImages`, `BaseImagesProofs` |
| `PushContainerfile` | `PushContainerfile.Run` with its deferred calls | `MCPushContainerfile`, `PushContainerfileProofs` |
| `ImageIndex` | `BuildImageIndex.Run` composed with `ApplyTags.Run` | `MCImageIndex`, `ImageIndexProofs` |
| `RegistryAuth` | operators: the selection of registry credentials | used by `PushContainerfile` |
| `GitClone` | `GitClone.Run` with the repositories it fetches from | `MCGitClone`, `GitCloneProofs` |
| `Prefetch` | `PrefetchDependencies.Run` and `CacheProxy.Run`, one after the other on a host | `MCPrefetch`, `PrefetchProofs` |
| `HermetoInput` | operators: how the input and the configuration of hermeto are rewritten | used by `Prefetch` |
| `KonfluxConfig` | operators: the configuration of the cluster and the decisions made from it | used by `Prefetch` |
| `CommandLine` | operators: array parameters, pflag (external), `ParseParameters` | used by `BuildLabels` |
| `BuildLabels` | `image build` from its command line to the labels of the image | `MCBuildLabels`, `CommandProofs` |
| `RunInjector` | `RunInjector.Inject` with the tokenizer | `MCRunInjector` |

`PROJECT.json` maps every definition to the lines it stands for. Some choices that hold for
all modules:

* A step of the code that changes the outside world is one action. An error of a step is a
  disjunct of it when the error can come after the effect, and otherwise the action `Fail`,
  which also stands for a killed process where nothing is undone anyway.
* A call through the retry layer has an action `...Lands` (the command took effect, its
  reply was lost) that may happen any number of times before the action that answers.
* A digest is the content it names, so a manifest is its own digest. A directory is the set
  of its entries; `{}` is a directory that does not exist.
* `excused` and `rmFailed` are history variables: what could not be undone because the
  removal itself failed. The clean-up properties except exactly that.
* Text is modelled by what the code tells apart: a line of YAML is its key and whether it is
  indented, a token of the command line a word, a flag or a flag with a value, a line of a
  containerfile a sequence of a dozen kinds of characters. What a rewriting promises is stated
  in terms of what reads the result: YAML's blocks, the positions of the command line,
  buildkit's instructions, buildah's labels.
* Definitions named "a mutant of ..." in a comment are variations of the next definition that
  a plausible mistake in the code would give. They are used by no specification; they
  document, for each property, an error that it catches.

### State and actions

**Retryer.** `opts` holds the fields of the struct; `attempt`, `delay` and `reply` are the
locals of `Run`; `calls`, `waits` and `effect` are history. `Call` executes the command,
`Return` is any of the four ways out, `Fail` the decision to wait, `Sleep` the wait with
the new delay. Outputs are the sets of stop patterns they match.

**Executor.** `caller` is the caller (`setup`, `join` on the channel, `wait`), `reader[s]` one
drain (`scan`, then `copy` after a scanner error), `pipe[s]` a bounded kernel pipe, `child`
and `writing` the process inside write(2). Without `LogOutput` os/exec does the copying and
the same actions stand for it.

**ImagePush.** `stored`, `tag` and `tempTag` are the registry, `local` the manifest lists in
each host's storage. A dual build goes `gzip`, `zstd` (`VariantPushed`), `create`,
`add gzip`, `add zstd`, `annotate`, optionally `inspect`, then `index` for each tag, then
`rm`. A single-format build is at `single` for each tag. `Collect` is the registry's garbage
collection. `Fail` is an error that any step may meet with; `Refused` is the error of a step that
cannot succeed, because the name of the local index is in use or the registry has no such
manifest (`Blocked`). Two builds that use the same reference on the same storage do not overlap.

**BuildRun.** `workdir` is `tempWorkdir`, `copies` the copies of the prefetch directory by
name, `listing` what the walk has yet to visit, `edits` what is in the containerfile copy,
`registration` whose registration the host has (the owner's, nobody's, a build's). Cleaning
is three steps, each of which may fail with a warning.

**BaseImages.** `stagesToProcess`, `stagesSeen` and `images` are the locals of
`collectBaseImages`; `current` and `refs` the round of its loop; `storage` one architecture
per name, as buildah keeps it. `NeededStages` is the reference definition: the least set of
stages that holds the stages to build and is closed under `Reads`.

**PushContainerfile.** `defers` is the stack of deferred calls, which `Unwind` runs one by
one on every way out.

**ImageIndex.** `holds` and `tag` are the registry with two repositories, `local` the manifest
lists; after `ReportIndex` or `ReturnSingle` the run goes on with apply-tags on the reported
digest. `ImageRef` is the reference it reports beside the digest.

**GitClone.** `server` holds the branches of the two remote repositories, which `Push` moves at
any time, `seen` the commits they have had; `remotes`, `tracking`, `fetchHead` and `head` are the
local repository, `internal` is `internalDir`. A merge commit is the set of what it merges, so
"a merge of the reported commit with the target" can be read off `head`. A fetch is retried, so
it may land several times with different commits before it answers.

**Prefetch.** `config`, `home`, `registration` and `entitlements` are what the host keeps between
runs; the other variables are those of the run in progress. `TearConfig` and `TearHome` are
writes that fail or are killed in the middle. The files in HOME are read-only, so only root can
write them again (`CanWrite`). An entitlement is its serial, under which a key and a
certificate are stored; a registration may leave keys without certificates or the other way
round. `original` is the user's configuration file: what hermeto is given after
any number of rewrites is compared with it. The input is a JSON value, a function from its places
(the steps to them from the root) to what is there, so that a recursive walk of the code is a
statement about the places it visits (`Visited`); `Packages` and `WithoutGoProxy` are the reference
definitions of what hermeto and YAML make of the texts.

**CommandLine, BuildLabels.** `Execute` expands the arguments and lets pflag parse them;
`ParseParameters(p)` visits the parameters in any order, as a Go map does, and stops at the first
error. The reference definition reads the command line position by position (`Given`,
`Arguments`), while the code and pflag go through it token by token: the array flag whose values
are being read, and the flag that waits for its value (`pending`), are the state of these loops.
Labels are sequences of key and value, of which the last one of a key counts.
A run fails after its parameters were accepted when the build time or the annotations file cannot
be read, the buildinfo cannot be written (the base image cannot be inspected) or buildah fails
(phase `failed`; phase `error` is that of the parameters). `InjectBuildinfo` does nothing with
`--skip-injections` or `--target`. `BuildImage` is what buildah does with the same labels, so that
labels.json can be compared with the image: the stage built is the target, if one is named, and
with `scanBuilders` (`enableBuilderContentScanning`) buildah is given `--stage-labels` and adds two
labels of its own.

**RunInjector.** `InjectNode` is one round of the loop over the instructions. `Parse` is the
buildkit parser: it gives the instructions of the original and, in the property, of the edited
file. An injected text may hold a line break, so that indices of later lines stay what they were.

## 3. Runs

| Run | Bounds | States | What it shows |
| --- | --- | --- | --- |
| `retryer` | all call sites, git with 0..5 attempts, 31 replies | 6,356 | attempts, sleeps and delays; the final reply is returned; refines `RetriedCall`; `Run` returns |
| `executor` | pipes of 1 chunk, 2 chunks per stream, 3 exit statuses | 22,170 | no gap, complete output, honest exit code; `Execute` returns |
| `image_push` | 2 builds, 2 hosts, 2 tags, 2 suffixes | 195,640 | whole images, anchored variants, true results, no local index left; refines `PublishedTags`; a build that meets with no error and is not killed succeeds |
| `build_run` | 2 builds on one host, 3 kinds of parameters, symmetric | 2,951,239 | clean-up, mounts, edits, entitlements |
| `base_images` | 2 or 3 stages, 6 references, 2 architectures | 406,248 | exact search, right variant, no emulation, labels from a pulled image |
| `push_containerfile` | all parameters, 2 repositories, auth files with 5 keys | 217,503 | restored state, true report, most specific credentials |
| `image_index` | 2 pipelines, 2 hosts, 3 tags, 4 platform images | 210,792 | true results, one manifest per run, no dangling tag |
| `git_clone` | 2 commits, 2 branches, 2 repositories, 5 kinds of parameters | 370,528 | results describe the checkout; credentials only during the run |
| `prefetch` | 4 kinds of hosts, configuration files of 3 or 4 lines, 8 inputs, 2 entitlements, any number of runs | 194,230 | configuration only loses the Go proxy, rpm packages prepared, registration removed, own credentials, proxies as allowed |
| `command_line` | up to 5 tokens, 4 environments; every combination of label options; up to 3 stages; targets, skipped injections, stage labels | 760,221 | parameters as meant, labels.json describes the image save its stage labels, user values win |
| `run_injector` | 2 instructions, up to 2 options, up to 2 line breaks with a comment or a blank line, 2 escape characters | 33,408 | the injection is in front of the command of every RUN in shell form, and nothing else has changed |

One more run, `push_containerfile_result`, states what a help text says and finds it violated;
see section 6.

The type invariants (`TypeOK`) are parts of the inductive invariants of section 4 or documentation
of the state; the runs spend their time on the other properties.

**Why the bounds are enough to be interesting.** One chunk in a pipe is what makes a writer
block; two chunks of which the first is long make the scanner hand over to `io.Copy`. Two
builds are what it takes to overwrite, collect or remove something of another's; a third
would repeat the roles. Two suffixes allow both the usual case and a collision. Three stages
allow a chain, a skipped stage, a duplicate name and a name that is a number. Retries land
any number of times, because the `...Lands` actions do not count. Four lines of configuration
are a block, a line of it, and another block with a line of its own, in any order, or a block
with an interruption; two entitlements are a pair that could be mixed up; runs on one host are
not counted. Four tokens after the command are a flag with two values and another flag. Two
breaks in a RUN instruction put the injection on a first, a middle or a last physical line, and
the second instruction is there to be spoilt by the first.

**Fairness.** `Retryer`: weak fairness of the loop, which runs in the caller's goroutine.
`Executor`: weak fairness of the caller, of each drain (goroutines that can run are
scheduled) and of the child, whose output is finite; nothing is assumed about read errors,
and `ExecuteReturns` is claimed only without them. `ImagePush`: weak fairness of the next
step of each build (`Advance`: its retry loop ends, which is `RunReturns`, and local commands
return); none of errors (`Fail`), lost replies, kills or garbage collection, so that
`UndisturbedBuildsSucceed` is about the steps themselves. The other runs check safety only: their commands are
sequences of steps without a loop that could fail to end.

**Deadlock** is checked except for `executor`: there a failed read leaves a pipe undrained, the
child blocks on it and `Execute` waits for ever. The code has no timeout for that.

## 4. Proofs

All proofs are for every value of the constants, under the named assumptions of the modules
(`RetryerAssumption`, `ImagePushAssumption` and so on), which TLC evaluates in the runs: any
number of builds, runs, hosts, tags, stages, attempts or commits, containerfiles and auth files
of any size. The assumptions state the types of the parameters and what the code has
established before (a FROM names an earlier stage, a name has a first part).

A property alone is seldom inductive. It speaks of the end of a run, or of the moment buildah
is called, and says nothing of the steps before. So the inductive invariants say what holds at
each `pc`:

* **CommandProofs, the retry loop.** `WorkIsBounded` and `FinalReplyReturned` from `RetryInv`, which ties the
  number of calls and sleeps to `attempt` at each `pc`; `SleepsAreCapped`;
  `SleepsFollowSchedule` from `NextWait`, which says of the variable `delay` what the property
  says of past sleeps. Its heart is `CapCommutes`: the loop cuts and then multiplies, the
  schedule multiplies and then cuts. `ImplementsRetriedCall`, the refinement, needs from
  `RetryInv` that a reply without an error implies the effect.
* **CommandProofs, the executor** (whose names are disjoint from those of `Retryer`).
  `ReadsHaveNoGap`, `OutputIsComplete`, `PipesAreClosedLast`,
  `ExitCodeIsHonest` from `ExecInv`: what was written is the buffer followed by the pipe until
  `Wait` closes it; a finished drain that did not fail has an empty pipe and an exited child; a
  caller past the channel has two finished drains. The lemmas `MoveHead` and `ConcatAppend` are
  the facts on sequences.
* **CommandProofs, the command line and the labels.** `LabelsInv` says which results exist after each
  phase and where they come from. `ParametersAsMeant` follows from `LineParsed` and `ParamsKnown`;
  its heart is `ParsedAsWritten`, for command lines of any length. Two loops run one behind the other,
  so the argument goes token by token through both at once: `InForce` says which array flag the
  expansion is at and `Waiting` that pflag waits for no value between two rounds except after a flag
  that takes the next word; then each token of the line sets one flag, is an argument or changes
  neither (`OneToken`, whose three outcomes are `Outcome`), which is what the reference definition
  says of its position. `LabelsOfImageForetold` rests on `LabelsForetold`: labels.json follows the
  chain of stages and then fills one map, buildah fills a map for each stage, and the two agree
  because filling a map with a concatenation is copying one map over the other (`MapOfConcat`,
  `BuiltLabels`). The labels that `--stage-labels` adds change the map at their own keys only
(`OverElsewhere`), and those keys the property leaves out. `UserLabelsWin` from `LabelsMerged` and `LastWins`, and from `ParametersAsMeant`.
* **ImagePushProofs.** `Exclusive` (running builds do not share a local index) makes
  `LocalFits` inductive, which says what the local index holds at each step, so that what is
  pushed is whole: `TagsAlwaysWhole`, and with `TodoFits` and `ResultsFit` also
  `ResultsAlwaysAgree`. `Anchored` strengthens `VariantsStayAnchored` by the temporary tags
  that keep the variants from collection. `LocalOwned` gives `LocalIndexAlwaysRemoved`.
  `BuildsNeverRefused` from `Anchored` and `IndexMade` (a local index was made by a build past
  `manifest create` that has its name, so that a build with a suffix of its own finds its name
  free): no step of a build is refused, which is what is left of `UndisturbedBuildsSucceed` without
  progress. The
  refinement `PushesPublishTags` maps the push of a tag, also one whose reply is lost, to a step
  of `PublishedTags` and everything else to a stutter.
* **ImageIndexProofs.** `TagsNeverDangle` is inductive by itself, given that the registry
  collects only what no tag reaches. `OwnList` (a run has its manifest list to itself from
  `manifest create` on) makes `PushFits` inductive: all pushes of a run push the same manifest.
  `RunFits` follows it into the results: `OneManifestForEachRun`, `ResultsAlwaysTrue`.
* **BuildRunProofs.** `BuildFits` is about the state a build has to itself, so that a step of
  another build keeps it (`OthersKept`): `BuildAlwaysSeesEdits` and part of `MountsAlwaysExist`.
  The rest is about what builds share: `CopyInv` and `CopyOwned` (a copy of the prefetch
  directory has one holder from its creation to its removal, and holds what the walk is past)
  and `RegistrationInv` (whose the registration of the host is): `EntitlementsAreOwn` and
  `NothingIsLeft`.
* **BaseImagesProofs.** `SearchIsExact`: the images collected are exactly the ones needed.
  `CollectInv` has two halves that are inductive only together with the bookkeeping of the
  queue: `Complete` (a stage that was seen and is no longer queued has all its references dealt
  with, save those of the stage in process) and `Sound` (what is seen is in every closed set;
  every image is read by a seen stage). When the queue is empty, `Complete` makes the seen
  stages a closed set and `Sound` makes it the least. `NoEmulationEver` adds `PullInv` (images
  pulled and verified so far have the host's architecture), `ImagesAsAsked` adds `StoredInv`
  (what a later pull may have replaced). `LabelsAlwaysFromPulled` joins two searches of the
  code: the base stage found by following FROM is among the stages the queue has seen.
* **GitCloneProofs.** `CredentialsAlwaysScoped` from `CredentialsFit` (git is pointed only to
  files that have been written). `ResultsAlwaysDescribe` from `CommitFits`, `MergeFits` and
  `OutcomeFits`, which follow the commit from the fetch to the results; since branches move
  during the run, what was fetched is related to the history of the branch (`seen`) rather than
  to where it is.
* **PushContainerfileProofs.** `NothingIsLeft` from `Pending`: what is set up and not undone is
  in the list of the deferred calls. `ReportedAlwaysPushed` from `FileFits`.
  `CredentialsAlwaysMostSpecific` from `AuthFits` and `FindAuthNearest`, which says what
  `findAuth` computes.
* **PrefetchProofs.** The host keeps state between runs, so each invariant says what holds between
  runs and at each step of one. `RegistrationIsRemoved` from `RegistrationInv` (who is registered
  at each step, and that the deferred call is pending); `GitCredentialsAreOwn` from `HomeInv` (a
  step past the first file has that file of this run); `ProxiesAreAllowed` from `ProxyInv`, where
  each result is explained by the decision of its own run. `RpmPackagesArePrepared` from
  `PreparedInv`, for JSON values of any size: neither injection changes where the walk goes
  (`SameWalk`), every package hermeto reads is visited (`PackagesVisited`), and merging keeps the
  settings of the user (`SettingsMerged`). `ConfigLosesOnlyGoProxy` from `ConfigInv`: a file is the
  user's or was rewritten, and rewriting it again changes nothing (`DropTwice`). For the latter the
  variable `inGomodBlock` of the loop is given a closed form, the last line that sets or clears it
  (`BlockState`), and `KeptLines` says which lines survive, at which positions. `BlockIsGomod`
  shows that the closed form is YAML's block for a well-formed file without interruptions, which
  is the guard of the property.

**Induction.** Induction over data is used for the recursive functions `Raised`, `BaseStage`,
`findAuth`, `InGomodBlock`, `Kept`, `Expand`, `Parsing`, `TextsAt`, `ContainerfileLabels` and
`StageLabelsOf`. It is written as a descent: the set of numbers at which the claim fails has a least
element (`LeastElement`, from the well-foundedness of `<`), which is led to a contradiction. The same
argument shows first that a function with the recursive equation exists, so that the definition, a
CHOOSE, satisfies it (`GrowingExists`, `FollowsExists`, `SearchedExists`, `KeepsExists`; for
`CommandLine` and `BuildLabels` once for all, `RecursionExists`, `FoldExists`, `UpTo`, with the step
as a function).

The parts of the inductive invariants were checked with TLC on the instances of the runs, too.

**Model-checked only.** Liveness (`RunReturns`, `ExecuteReturns`, `UndisturbedBuildsSucceed`), which the
prover does not do (the safety half of the last one is `BuildsNeverRefused`), and `InjectedBeforeCommand` of `RunInjector`: it compares a fold over the
characters of a line with a parser, both RECURSIVE operators, for which the prover has no support.
Every other property of the passing runs is stated by a theorem.

## 5. Not modelled

* The arguments the wrappers put together for their tools, build arguments, secrets and the extra
  arguments for buildah, which could name labels too.
* The SBOM steps (`buildprobe`, `scanBuilderContent`, `resolveBaseImages`), whose errors are
  logged and which compute JSON from tool output; the re-execution in a user namespace, which
  replaces the process image.
* The regular expressions of `image_ref.go` and `url.go` and the path resolution of `path.go` and
  `symlink.go`: character by character or a walk of a file system, left to their unit tests.
* Characters of a containerfile that neither the tokenizer nor the parser treats specially, tabs
  (which the code treats as spaces) and carriage returns.
* The hermeto process, the kubernetes client, pflag's short flags.
* A `manifest create` that fails after it took effect (a local command, not retried).
* Builds that use the same output reference on the same storage at the same time: image
  names in a storage are not protected by the program.
* Overflow of a delay: a duration overflows only after some 2^33 seconds.
* A checkout path that somebody replaces by a link while git-clone runs: the code checks twice,
  before and after it creates the directory, and `GitClone` has only links that were there before.
* Prefetch runs that share a HOME or a registration at the same time: each runs in a container
  of its own; `BuildRun` has the concurrent use of a registration.

## 6. Where text and code differ

One run ends with a counterexample: `push_containerfile_result`. The help text says "Write
digested image reference of the pushed Containerfile image into this file."
(`pkg/commands/push_containerfile.go:93`). A relative path is resolved in the directory of the
containerfile, or in a temporary directory that is then removed.

The models also show these, which no run states as a property:

* `copyPrefetchDir` "only copies the relevant deps directories" (`pkg/commands/build.go:1384`). The
  walk (line 1418) also copies the `copy-*` directories of other builds in the same prefetch
  directory, and fails when one disappears underneath it.
* "Konflux-build-cli also unregisters itself after the build completes, leaving the host system
  unregistered" (`cmd/image/build.go:82`). Not when the register command answered with an error
  after it took effect (`build.go:1713`), nor when unregistering fails. The same holds for
  prefetch-dependencies (`main.go:127-131`), whose `register --force` also replaces, and then
  removes, a registration the host had.
* The image reference of build-image-index contains "both the repository and the digest"
  (`pkg/commands/build_image_index.go:121`). A single image given by tag has none (line 244), and
  the reference of a single image of another repository joins the repository of the index and the
  digest of that image (line 189), which the index repository need not have. `ResultsTrue` is
  about runs that built an index.
* labels.json "contains the labels of the resulting image" (`build.go:2091`). With builder content
  scanning the image also has the labels `io.buildah.stage.name` and `io.buildah.stage.base`, which
  "will be missing from labels.json" (`build.go:2738-2740`). If the base image was itself built
  that way, labels.json even holds the values of the base image. `LabelsDescribeImage` leaves these
  two labels out when `--stage-labels` is given, and the labels a base image of another transport
  passes on, which are ignored with a warning.
* `dropGoProxyFrom` ends the gomod block at any line that is not indented, a blank line or a
  comment too (`prefetch_dependencies/utils.go:274-280`): a `proxy_url` after it is kept. The
  proxy of the cluster's configuration reaches hermeto for Go nevertheless, by its environment.
* A configuration file that was left half-written is taken as it is by a rerun, and the git files
  in HOME are created read-only, so that a rerun in the same HOME fails unless it is root.
* `injectSSLOptions` replaces all `options` of an rpm package that has options but no `ssl`
  (`utils.go:143`). An object with `type: rpm` and `packages` counts as an rpm package for the
  registration but nothing is injected into it.
* Array parameters are not expanded when a global flag or an argument precedes the command
  (`array_arg.go:46-54`); the values after the first then become extra arguments of buildah. These
  are said to be those after the "--" separator (`build.go:641`), but all arguments are taken.
* A blank line between the continued lines of a RUN ends it for `getPhysicalLines`
  (`run_injector.go:147`), though not for the parser: if no word of the command comes before it,
  the instruction is reported as a no-op and not prefixed. A word `--` is taken for an option.
* An entry of the auth file with an empty `auth` hides the less specific ones (`auth.go:77`).
* `resolveBaseImages` takes the first name of the image in storage (`build.go:3373`), which may be
  one of another repository.

Smaller observations, without a run: the default prefetch copy is made inside the prefetch
directory, not "alongside" it (`build.go:329`, 1403); `MaxDelay` does not cap the first wait when
`BaseDelay` exceeds it (`cli_retryer.go:18`; no call site does this); a `Retryer` with
`MaxAttempts <= 0` would return without an error and without running the command (call sites
exclude it); `push-containerfile` leaves its credentials file when writing or closing it fails
(lines 203-214); the manifest list of build-image-index stays in the local storage, so that a
rerun there fails at `manifest create`; additional tags of a single-format push are pushed
without compression flags and may get another manifest than the main tag; two spellings of a
base image ("docker://x" and "x") with different platforms replace each other in storage
unnoticed (`build.go:2561-2576`); two pre-registering builds on a host share one registration;
git-clone updates submodules before the merge and not after it, so they stay at those of the
reported commit (`gitclone.go:308`, 415), with an empty revision it checks out whatever branch
FETCH_HEAD names first, and a rerun in the same directory without `delete-existing` fails at
`remote add`.

## 7. Plan

Done: retry layer, executor, pushing, build steps, base images, push-containerfile with its
credentials, build-image-index with apply-tags, git-clone, prefetch-dependencies and cache-proxy,
parameters, labels and annotations, the containerfile editor; the proofs of section 4.

Next, in this order:

1. The SBOM inputs (`buildprobe`, `resolveBaseImages`), as far as their order and their errors
   matter.
2. `Prefetch` composed with `BuildRun` through the host's registration.
3. `RunInjector` with recursive functions in place of its RECURSIVE operators, so that
   `InjectedBeforeCommand` can be proved for files of any length.
