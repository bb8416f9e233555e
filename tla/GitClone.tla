-------------------------------- MODULE GitClone --------------------------------
(***************************************************************************)
(* GitClone.Run (pkg/commands/gitclone): set up credentials in a temporary *)
(* directory, clean the checkout directory, fetch and check out a revision,*)
(* record its commit and merge a target branch into it, while others push  *)
(* to the repositories.  The checkout directory may hold what an earlier   *)
(* run left.                                                               *)
(*                                                                         *)
(* A commit made by a merge is the set of the commits it merges; any other *)
(* commit c is {c}.  A directory is the set of its entries, with "." for   *)
(* the directory itself.                                                   *)
(***************************************************************************)
CONSTANTS Commits,      \* the commits that can be pushed
          Old,          \* the commit an earlier run has checked out
          Ancestors,    \* the commits each commit has in its history
          ParamSet      \* the parameters a run may be started with

Repos == {"origin", "merge-source"}
Branches == {"revision", "target"}
AuthFiles == {".git-credentials", ".gitconfig"}

(* Of Params: is Revision set, and Refspec; Submodules; MergeTargetBranch  *)
(* with a MergeSourceRepoURL that is empty or the same as URL ("origin")   *)
(* or another ("merge-source"); DeleteExisting; whether Subdirectory is    *)
(* set; what BasicAuthDirectory and SSHDirectory hold.                     *)
ASSUME GitCloneAssumption ==
    /\ Old \notin Commits
    /\ Ancestors \in [Commits -> SUBSET Commits]
    /\ ParamSet \subseteq [revision: BOOLEAN, refspec: BOOLEAN, submodules: BOOLEAN,
                           merge: Repos \union {"none"}, deleteExisting: BOOLEAN,
                           subdirectory: BOOLEAN, auth: {"none", "known", "unknown"}, ssh: BOOLEAN]

VARIABLES params,
          pc,
          server,      \* the commit of each branch of each repository
          seen,        \* history: the commits each branch has had during the run
          path,        \* the checkout path: "missing", "dir", "symlink" or "file"
          entries,     \* what is in the checkout directory, besides the repository
          remotes,     \* of the repository: its remotes,
          tracking,    \* the remote-tracking branches,
          fetchHead,   \* FETCH_HEAD
          head,        \* and HEAD
          modules,     \* the commit whose submodules are checked out
          internal,    \* internalDir
          env,         \* the variables given to git that point into internalDir
          results,     \* Results.Commit and Results.MergedSha
          outcome,     \* "none", then "ok" or "error"
          excused      \* history: could internalDir not be removed?

remote == <<server, seen>>
tree == <<path, entries>>
repository == <<remotes, tracking, fetchHead, head, modules>>
credentials == <<internal, env>>
ending == <<results, outcome, excused>>
vars == <<params, pc, remote, tree, repository, credentials, ending>>

None == {}
NoTracking == [r \in Repos |-> [b \in Branches |-> None]]

(* The repository that an earlier run left in the checkout directory. *)
LeftBehind == /\ path = "dir" /\ entries = {"stale"}
              /\ remotes = {"origin"} /\ head = {Old} /\ fetchHead = {Old}
              /\ tracking = [NoTracking EXCEPT !["origin"] = [b \in Branches |-> {Old}]]

Init == /\ params \in ParamSet
        /\ pc = "start"
        /\ server \in [Repos -> [Branches -> Commits]]
        /\ seen = [r \in Repos |-> [b \in Branches |-> {server[r][b]}]]
        /\ \/ LeftBehind
           \/ /\ path \in {"missing", "dir", "symlink", "file"}
              /\ entries \in (IF path = "dir" THEN {{}, {"stale"}} ELSE {{}})
              /\ remotes = {} /\ tracking = NoTracking /\ fetchHead = None /\ head = None
        /\ modules = None
        /\ internal = {} /\ env = {}
        /\ results = [commit |-> None, mergedSha |-> None]
        /\ outcome = "none" /\ excused = FALSE

Goto(step) == pc' = step /\ UNCHANGED outcome
Return(result) == pc' = "unwind" /\ outcome' = result

--------------------------------------------------------------------------------
(* Parameters and credentials.                                             *)

(* validateParams, then the directory for the credentials and its removal, *)
(* deferred.                                                               *)
MakeInternalDir ==
    /\ pc = "start"
    /\ internal' = {"."}
    /\ Goto("auth")
    /\ UNCHANGED <<params, remote, tree, repository, env, results, excused>>

(* setupBasicAuth: both files are written, then git is told of the config. *)
SetupBasicAuth ==
    /\ pc = "auth"
    /\ params.auth # "unknown"
    /\ IF params.auth = "known"
       THEN internal' = internal \union AuthFiles /\ env' = env \union {"GIT_CONFIG_GLOBAL"}
       ELSE UNCHANGED credentials
    /\ Goto("ssh")
    /\ UNCHANGED <<params, remote, tree, repository, results, excused>>

(* setupSSH *)
SetupSSH ==
    /\ pc = "ssh"
    /\ IF params.ssh
       THEN internal' = internal \union {".ssh"} /\ env' = env \union {"GIT_SSH_COMMAND"}
       ELSE UNCHANGED credentials
    /\ Goto("verify")
    /\ UNCHANGED <<params, remote, tree, repository, results, excused>>

--------------------------------------------------------------------------------
(* The checkout directory.                                                 *)

(* verifyCheckoutDirContainment: no symbolic link below the output dir. *)
Contained == params.subdirectory => path # "symlink"

VerifyCheckoutDirContainment ==
    /\ pc = "verify"
    /\ Contained
    /\ Goto(IF params.deleteExisting THEN "clean" ELSE "mkdir")
    /\ UNCHANGED <<params, remote, tree, repository, credentials, results, excused>>

(* cleanCheckoutDir: a missing directory is clean; else all the entries    *)
(* are removed, the repository with them.                                  *)
CleanCheckoutDir ==
    /\ pc = "clean"
    /\ path \in {"missing", "dir"}
    /\ entries' = {}
    /\ remotes' = {} /\ tracking' = NoTracking /\ fetchHead' = None /\ head' = None
    /\ Goto("mkdir")
    /\ UNCHANGED <<params, remote, path, modules, credentials, results, excused>>

(* An error on the way: some entries are gone. *)
CleanCheckoutDirFails ==
    /\ pc = "clean"
    /\ \/ UNCHANGED <<entries, remotes, tracking, fetchHead, head>>
       \/ /\ path = "dir" /\ entries' = {}
          /\ UNCHANGED <<remotes, tracking, fetchHead, head>>
       \/ /\ path = "dir" /\ UNCHANGED entries
          /\ remotes' = {} /\ tracking' = NoTracking /\ fetchHead' = None /\ head' = None
    /\ Return("error")
    /\ UNCHANGED <<params, remote, path, modules, credentials, results, excused>>

(* performClone: MkdirAll follows a link; then the second check, git init  *)
(* and the sparse checkout.  'remote add' fails when the remote is there.  *)
InitRepository ==
    /\ pc = "mkdir"
    /\ path # "file"
    /\ Contained
    /\ "origin" \notin remotes
    /\ path' = IF path = "missing" THEN "dir" ELSE path
    /\ remotes' = remotes \union {"origin"}
    /\ Goto("fetch")
    /\ UNCHANGED <<params, remote, entries, tracking, fetchHead, head, modules, credentials, results,
                   excused>>

--------------------------------------------------------------------------------
(* fetchRevision and checkout.                                             *)

(* 'git fetch' of some branches: FETCH_HEAD names one of them, and their   *)
(* remote-tracking branches follow.                                        *)
Fetch(r, branches) ==
    /\ \E b \in branches : fetchHead' = {server[r][b]}
    /\ tracking' = [tracking EXCEPT ![r] =
                       [b \in Branches |-> IF b \in branches THEN {server[r][b]} ELSE @[b]]]
    /\ UNCHANGED <<remotes, head, modules>>

(* A refspec stands for all the branches, as does an empty revision. *)
FetchedBranches == IF params.refspec \/ ~params.revision THEN Branches ELSE {"revision"}

(* A fetch goes through the retry layer (RetriedCall): it may take effect  *)
(* before an attempt that answers.                                         *)
FetchLands ==
    /\ pc = "fetch"
    /\ Fetch("origin", FetchedBranches)
    /\ UNCHANGED <<params, pc, remote, tree, credentials, ending>>

FetchRevision ==
    /\ pc = "fetch"
    /\ Fetch("origin", FetchedBranches)
    /\ Goto("checkout")
    /\ UNCHANGED <<params, remote, tree, credentials, results, excused>>

(* With a refspec and a revision, the revision; else FETCH_HEAD. *)
CheckoutRef == IF params.refspec /\ params.revision THEN tracking["origin"]["revision"] ELSE fetchHead

Checkout ==
    /\ pc = "checkout"
    /\ head' = CheckoutRef
    /\ Goto("submodules")
    /\ UNCHANGED <<params, remote, tree, remotes, tracking, fetchHead, modules, credentials, results,
                   excused>>

(* FetchTags, SubmoduleUpdate and SubmoduleFetchTags; a fetch of the tags   *)
(* overwrites FETCH_HEAD.                                                  *)
UpdateSubmodules ==
    /\ pc = "submodules"
    /\ fetchHead' \in {fetchHead, None}
    /\ modules' = IF params.submodules THEN head ELSE modules
    /\ Goto("commit info")
    /\ UNCHANGED <<params, remote, tree, remotes, tracking, head, credentials, results, excused>>

GatherCommitInfo ==
    /\ pc = "commit info"
    /\ results' = [results EXCEPT !.commit = head]
    /\ Goto(IF params.merge = "none" THEN "symlinks" ELSE "merge remote")
    /\ UNCHANGED <<params, remote, tree, repository, credentials, excused>>

--------------------------------------------------------------------------------
(* mergeTargetBranch.                                                      *)

(* A mutant of MergeRemote: another repository is not told apart. *)
MergeRemoteOrigin == "origin"

(* The URLs are compared without a trailing slash and ".git". *)
MergeRemote == params.merge

AddMergeRemote ==
    /\ pc = "merge remote"
    /\ MergeRemote # "origin" => MergeRemote \notin remotes
    /\ remotes' = remotes \union {MergeRemote}
    /\ Goto("fetch target")
    /\ UNCHANGED <<params, remote, tree, tracking, fetchHead, head, modules, credentials, results,
                   excused>>

FetchTargetLands ==
    /\ pc = "fetch target"
    /\ Fetch(MergeRemote, {"target"})
    /\ UNCHANGED <<params, pc, remote, tree, credentials, ending>>

FetchTarget ==
    /\ pc = "fetch target"
    /\ Fetch(MergeRemote, {"target"})
    /\ Goto("merge")
    /\ UNCHANGED <<params, remote, tree, credentials, results, excused>>

(* 'git merge --no-ff' of the remote-tracking branch: nothing to do for a  *)
(* commit that is in the (maybe shallow) history; a conflict is an error.  *)
Merge ==
    LET target == tracking[MergeRemote]["target"]
    IN  /\ pc = "merge"
        /\ \/ /\ \A t \in target, c \in head : t = c \/ t \in Ancestors[c]
              /\ UNCHANGED head
           \/ /\ target # head
              /\ head' = head \union target
        /\ Goto("merged")
        /\ UNCHANGED <<params, remote, tree, remotes, tracking, fetchHead, modules, credentials,
                       results, excused>>

RecordMergedSha ==
    /\ pc = "merged"
    /\ results' = [results EXCEPT !.mergedSha = head]
    /\ Goto("symlinks")
    /\ UNCHANGED <<params, remote, tree, repository, credentials, excused>>

(* CheckSymlinks, then the results are printed. *)
OutputResults ==
    /\ pc = "symlinks"
    /\ Return("ok")
    /\ UNCHANGED <<params, remote, tree, repository, credentials, results, excused>>

--------------------------------------------------------------------------------
(* A mutant of Fail: the temporary directory is removed at the end only. *)
FailWithoutDefer ==
    /\ pc \notin {"start", "clean", "unwind", "end", "killed"}
    /\ pc' = "end" /\ outcome' = "error"
    /\ UNCHANGED <<params, remote, tree, repository, credentials, results, excused>>

(* A step fails; by then the set-up of credentials may have copied some    *)
(* files, and performClone may have made the directory.                    *)
Fail ==
    /\ pc \notin {"clean", "unwind", "end", "killed"}
    /\ path' = path \/ (pc = "mkdir" /\ path = "missing" /\ path' = "dir")
    /\ \/ UNCHANGED internal
       \/ /\ pc = "auth" /\ params.auth = "known"
          /\ internal' = internal \union {".git-credentials"}
       \/ /\ pc = "ssh" /\ params.ssh
          /\ internal' = internal \union {".ssh"}
    /\ Return("error")
    /\ UNCHANGED <<params, remote, entries, repository, env, results, excused>>

(* The deferred RemoveAll, whose error is ignored. *)
RemoveInternalDir ==
    /\ pc = "unwind"
    /\ \/ internal' = {} /\ UNCHANGED excused
       \/ excused' = TRUE /\ UNCHANGED internal
    /\ Goto("end")
    /\ UNCHANGED <<params, remote, tree, repository, env, results>>

Kill == /\ pc \notin {"end", "killed"}
        /\ Goto("killed")
        /\ UNCHANGED <<params, remote, tree, repository, credentials, results, excused>>

(* Somebody pushes to a branch. *)
Push == /\ pc \notin {"end", "killed"}
        /\ \E r \in Repos, b \in Branches, c \in Commits :
              /\ server' = [server EXCEPT ![r][b] = c]
              /\ seen' = [seen EXCEPT ![r][b] = @ \union {c}]
        /\ UNCHANGED <<params, pc, tree, repository, credentials, ending>>

Terminated == pc \in {"end", "killed"} /\ UNCHANGED vars

Next == \/ MakeInternalDir \/ SetupBasicAuth \/ SetupSSH
        \/ VerifyCheckoutDirContainment \/ CleanCheckoutDir \/ CleanCheckoutDirFails \/ InitRepository
        \/ FetchLands \/ FetchRevision \/ Checkout \/ UpdateSubmodules \/ GatherCommitInfo
        \/ AddMergeRemote \/ FetchTargetLands \/ FetchTarget \/ Merge \/ RecordMergedSha \/ OutputResults
        \/ Fail \/ RemoveInternalDir \/ Kill \/ Push \/ Terminated

Spec == Init /\ [][Next]_vars

--------------------------------------------------------------------------------
(* The commits of origin that the parameters ask for: those the revision   *)
(* has had, or any branch when no revision is given.                       *)
Requested == IF params.revision THEN seen["origin"]["revision"]
             ELSE UNION {seen["origin"][b] : b \in Branches}

(* What GitClone.Run reports describes what is in the checkout directory,  *)
(* however the branches move and whatever an earlier run left there:       *)
(* Results.Commit is a commit that the requested revision of origin had    *)
(* during the run, taken before the merge; HEAD is that commit, or with    *)
(* MergeTargetBranch its merge with a commit the target branch of the      *)
(* merge-source repository had during the run, which is then MergedSha;    *)
(* submodules are those of Results.Commit; DeleteExisting leaves nothing   *)
(* of an earlier run; a subdirectory is no symbolic link.                  *)
ResultsDescribeCheckout ==
    outcome = "ok" =>
      /\ \E c \in Requested : results.commit = {c}
      /\ params.merge = "none" => head = results.commit /\ results.mergedSha = None
      /\ params.merge # "none" =>
           /\ results.mergedSha = head
           /\ \E t \in seen[params.merge]["target"] :
                 \/ head = results.commit \union {t}
                 \/ head = results.commit /\ \A c \in head : t \in Ancestors[c]
      /\ params.submodules => modules = results.commit
      /\ params.deleteExisting => entries = {}
      /\ params.subdirectory => path = "dir"

(* Credentials are where git looks for them whenever git talks to a        *)
(* remote, and no longer: the internal directory is gone when Run returns, *)
(* by an error as by success, unless the deferred removal itself failed.   *)
CredentialsOnlyDuringRun ==
    /\ pc \in {"fetch", "submodules", "fetch target"} =>
         /\ params.auth = "known" <=> "GIT_CONFIG_GLOBAL" \in env
         /\ params.ssh <=> "GIT_SSH_COMMAND" \in env
         /\ "GIT_CONFIG_GLOBAL" \in env => AuthFiles \subseteq internal
         /\ "GIT_SSH_COMMAND" \in env => ".ssh" \in internal
    /\ pc = "end" => internal = {} \/ excused
================================================================================
