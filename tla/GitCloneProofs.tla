----------------------------- MODULE GitCloneProofs -----------------------------
(***************************************************************************)
(* Theorems about GitClone for every history of commits and every set of   *)
(* parameters.  The inductive invariant follows a run step by step: what   *)
(* it has of the credentials (CredentialsFit), of the checkout directory   *)
(* (DirectoryFits), of the revision (CommitFits) and of the merge          *)
(* (MergeFits), with the histories of the branches (BranchesFit).          *)
(***************************************************************************)
EXTENDS GitClone, TLAPS

Cloned == {"fetch", "checkout", "submodules", "commit info", "merge remote", "fetch target",
           "merge", "merged", "symlinks"}
AfterSSH == Cloned \union {"verify", "clean", "mkdir"}
Over == {"unwind", "end", "killed"}

(* A branch is where its history says, the state has its type, and only    *)
(* runs that merge come to the steps of the merge.                         *)
BranchesFit ==
    /\ params \in ParamSet
    /\ server \in [Repos -> [Branches -> Commits]]
    /\ seen \in [Repos -> [Branches -> SUBSET Commits]]
    /\ \A r \in Repos, b \in Branches : server[r][b] \in seen[r][b]
    /\ tracking \in [Repos -> [Branches -> SUBSET (Commits \union {Old})]]
    /\ results \in [commit: SUBSET (Commits \union {Old}), mergedSha: SUBSET (Commits \union {Old})]
    /\ pc \in {"merge remote", "fetch target", "merge", "merged"} => params.merge # "none"
    /\ head \subseteq Commits \union {Old} /\ fetchHead \subseteq Commits \union {Old}

(* The variables given to git point to files that have been written. *)
CredentialsFit ==
    /\ pc \in {"start", "auth"} => env = {}
    /\ pc = "ssh" => "GIT_SSH_COMMAND" \notin env
    /\ pc \in AfterSSH \union {"ssh"} =>
          /\ params.auth = "known" <=> "GIT_CONFIG_GLOBAL" \in env
          /\ "GIT_CONFIG_GLOBAL" \in env => AuthFiles \subseteq internal
    /\ pc \in AfterSSH =>
          /\ params.ssh <=> "GIT_SSH_COMMAND" \in env
          /\ "GIT_SSH_COMMAND" \in env => ".ssh" \in internal
    /\ pc = "end" => internal = {} \/ excused

(* The checkout directory is a directory, and clean when it was asked for. *)
DirectoryFits ==
    /\ path \in {"missing", "dir", "symlink", "file"}
    /\ pc \in {"clean", "mkdir"} => Contained
    /\ pc \in Cloned => path \notin {"missing", "file"} /\ Contained
    /\ pc \in Cloned \union {"mkdir"} /\ params.deleteExisting => entries = {}

(* What has been checked out, and reported, is what was asked for. *)
IsRequested(commit) == \E c \in Requested : commit = {c}
ModulesFit == params.submodules => modules = results.commit

CommitFits ==
    /\ pc = "checkout" => IsRequested(CheckoutRef)
    /\ pc \in {"submodules", "commit info"} => IsRequested(head)
    /\ pc = "commit info" => (params.submodules => modules = head)
    /\ pc \in {"merge remote", "fetch target", "merge"} =>
          IsRequested(head) /\ results.commit = head /\ ModulesFit

(* The merge is one of a commit that the target branch has had. *)
Merged ==
    \E t \in seen[params.merge]["target"] :
        \/ head = results.commit \union {t}
        \/ head = results.commit /\ \A c \in head : t \in Ancestors[c]

MergeFits ==
    /\ pc \notin {"symlinks"} \union Over => results.mergedSha = None
    /\ pc = "merge" => \E t \in seen[params.merge]["target"] :
                          tracking[params.merge]["target"] = {t}
    /\ pc = "merged" => IsRequested(results.commit) /\ ModulesFit /\ Merged

(* What a run that succeeds will have established. *)
Described ==
    /\ IsRequested(results.commit)
    /\ params.merge = "none" => head = results.commit /\ results.mergedSha = None
    /\ params.merge # "none" => results.mergedSha = head /\ Merged
    /\ ModulesFit
    /\ params.deleteExisting => entries = {}
    /\ params.subdirectory => path = "dir"

OutcomeFits ==
    /\ pc \notin Over => outcome = "none"
    /\ pc = "symlinks" \/ outcome = "ok" => Described

--------------------------------------------------------------------------------
(* The branches, and the type of the state.                                *)

AnyCommit == SUBSET (Commits \union {Old})

(* A push moves one branch and adds to its history.                        *)
LEMMA PushMoves ==
    ASSUME BranchesFit, Push
    PROVE  /\ server' \in [Repos -> [Branches -> Commits]]
           /\ seen' \in [Repos -> [Branches -> SUBSET Commits]]
           /\ \A r \in Repos, b \in Branches : server'[r][b] \in seen'[r][b]
           /\ \A r \in Repos, b \in Branches : seen[r][b] \subseteq seen'[r][b]
<1>1. PICK r \in Repos, b \in Branches, c \in Commits :
         /\ server' = [server EXCEPT ![r][b] = c]
         /\ seen' = [seen EXCEPT ![r][b] = @ \union {c}]
  BY DEF Push
<1> DEFINE s == [server[r] EXCEPT ![b] = c]
           h == [seen[r] EXCEPT ![b] = seen[r][b] \union {c}]
<1>2. /\ server \in [Repos -> [Branches -> Commits]]
      /\ seen \in [Repos -> [Branches -> SUBSET Commits]]
      /\ \A q \in Repos, a \in Branches : server[q][a] \in seen[q][a]
  BY DEF BranchesFit
<1>3. s \in [Branches -> Commits] /\ s[b] = c /\ \A a \in Branches \ {b} : s[a] = server[r][a]
  BY <1>2
<1>4. /\ h \in [Branches -> SUBSET Commits]
      /\ h[b] = seen[r][b] \union {c} /\ \A a \in Branches \ {b} : h[a] = seen[r][a]
  BY <1>2
<1>5. server' = [server EXCEPT ![r] = s] /\ seen' = [seen EXCEPT ![r] = h]
  BY <1>1, <1>2
<1> HIDE DEF s, h
<1> QED
  BY <1>2, <1>3, <1>4, <1>5

(* A fetch brings commits of the branches as they are.                     *)
LEMMA FetchBrings ==
    ASSUME BranchesFit, NEW r \in Repos, NEW branches \in SUBSET Branches, Fetch(r, branches)
    PROVE  /\ \E b \in branches : fetchHead' = {server[r][b]}
           /\ \A b \in branches : tracking'[r][b] = {server[r][b]}
           /\ tracking' \in [Repos -> [Branches -> AnyCommit]]
           /\ fetchHead' \in AnyCommit
           /\ UNCHANGED <<remotes, head, modules>>
<1> DEFINE t == [b \in Branches |-> IF b \in branches THEN {server[r][b]} ELSE tracking[r][b]]
<1>1. server[r] \in [Branches -> Commits] /\ tracking \in [Repos -> [Branches -> AnyCommit]]
  BY DEF BranchesFit, AnyCommit
<1>2. \A b \in Branches : {server[r][b]} \in AnyCommit
  BY <1>1 DEF AnyCommit
<1>3. t \in [Branches -> AnyCommit] /\ \A b \in branches : t[b] = {server[r][b]}
  BY <1>1, <1>2
<1>4. tracking' = [tracking EXCEPT ![r] = t]
  BY DEF Fetch
<1> HIDE DEF t
<1>5. tracking' \in [Repos -> [Branches -> AnyCommit]] /\ tracking'[r] = t
  BY <1>1, <1>3, <1>4
<1>6. PICK b \in branches : fetchHead' = {server[r][b]}
  BY DEF Fetch
<1> QED
  BY <1>2, <1>3, <1>5, <1>6 DEF Fetch

(* The repository a run merges from is one of the two.                     *)
LEMMA MergeIsRepo ==
    ASSUME BranchesFit, pc \in {"merge remote", "fetch target", "merge", "merged"}
    PROVE  params.merge \in Repos
BY GitCloneAssumption DEF BranchesFit

(* No step breaks the histories of the branches or the types.              *)
LEMMA BranchesFitStep ==
    ASSUME BranchesFit, [Next]_vars
    PROVE  BranchesFit'
<1> USE DEF Goto, Return, remote, tree, repository, credentials, ending
<1>1. CASE MakeInternalDir
  BY <1>1 DEF MakeInternalDir, BranchesFit
<1>2. CASE SetupBasicAuth
  BY <1>2 DEF SetupBasicAuth, BranchesFit
<1>3. CASE SetupSSH
  BY <1>3 DEF SetupSSH, BranchesFit
<1>4. CASE VerifyCheckoutDirContainment
  BY <1>4 DEF VerifyCheckoutDirContainment, BranchesFit
<1>5. CASE CleanCheckoutDir
  BY <1>5 DEF CleanCheckoutDir, BranchesFit, NoTracking, None, Repos, Branches
<1>6. CASE CleanCheckoutDirFails
  BY <1>6 DEF CleanCheckoutDirFails, BranchesFit, NoTracking, None, Repos, Branches
<1>7. CASE InitRepository
  BY <1>7 DEF InitRepository, BranchesFit
<1>8. CASE FetchLands
  <2>1. "origin" \in Repos /\ FetchedBranches \in SUBSET Branches /\ Fetch("origin",
  FetchedBranches)
    BY <1>8, MergeIsRepo DEF FetchLands, Repos, Branches, FetchedBranches, MergeRemote
  <2>2. /\ tracking' \in [Repos -> [Branches -> AnyCommit]] /\ fetchHead' \in AnyCommit
        /\ UNCHANGED <<remotes, head, modules>>
    BY <2>1, FetchBrings
  <2> QED
    BY <1>8, <2>2 DEF FetchLands, BranchesFit, AnyCommit
<1>9. CASE FetchRevision
  <2>1. "origin" \in Repos /\ FetchedBranches \in SUBSET Branches /\ Fetch("origin",
  FetchedBranches)
    BY <1>9, MergeIsRepo DEF FetchRevision, Repos, Branches, FetchedBranches, MergeRemote
  <2>2. /\ tracking' \in [Repos -> [Branches -> AnyCommit]] /\ fetchHead' \in AnyCommit
        /\ UNCHANGED <<remotes, head, modules>>
    BY <2>1, FetchBrings
  <2> QED
    BY <1>9, <2>2 DEF FetchRevision, BranchesFit, AnyCommit
<1>10. CASE Checkout
  <2>1. CheckoutRef \in AnyCommit
    BY DEF BranchesFit, CheckoutRef, AnyCommit, Repos, Branches
  <2> QED
    BY <1>10, <2>1 DEF Checkout, BranchesFit, AnyCommit
<1>11. CASE UpdateSubmodules
  BY <1>11 DEF UpdateSubmodules, BranchesFit, None
<1>12. CASE GatherCommitInfo
  BY <1>12 DEF GatherCommitInfo, BranchesFit
<1>13. CASE AddMergeRemote
  BY <1>13 DEF AddMergeRemote, BranchesFit
<1>14. CASE FetchTargetLands
  <2>1. params.merge \in Repos /\ {"target"} \in SUBSET Branches /\ Fetch(params.merge, {"target"})
    BY <1>14, MergeIsRepo DEF FetchTargetLands, Repos, Branches, FetchedBranches, MergeRemote
  <2>2. /\ tracking' \in [Repos -> [Branches -> AnyCommit]] /\ fetchHead' \in AnyCommit
        /\ UNCHANGED <<remotes, head, modules>>
    BY <2>1, FetchBrings
  <2> QED
    BY <1>14, <2>2 DEF FetchTargetLands, BranchesFit, AnyCommit
<1>15. CASE FetchTarget
  <2>1. params.merge \in Repos /\ {"target"} \in SUBSET Branches /\ Fetch(params.merge, {"target"})
    BY <1>15, MergeIsRepo DEF FetchTarget, Repos, Branches, FetchedBranches, MergeRemote
  <2>2. /\ tracking' \in [Repos -> [Branches -> AnyCommit]] /\ fetchHead' \in AnyCommit
        /\ UNCHANGED <<remotes, head, modules>>
    BY <2>1, FetchBrings
  <2> QED
    BY <1>15, <2>2 DEF FetchTarget, BranchesFit, AnyCommit
<1>16. CASE Merge
  <2>1. tracking[params.merge]["target"] \in AnyCommit
    BY <1>16, MergeIsRepo DEF Merge, BranchesFit, AnyCommit, Branches
  <2> QED
    BY <1>16, <2>1 DEF Merge, MergeRemote, BranchesFit, AnyCommit
<1>17. CASE RecordMergedSha
  BY <1>17 DEF RecordMergedSha, BranchesFit
<1>18. CASE OutputResults
  BY <1>18 DEF OutputResults, BranchesFit
<1>19. CASE Fail
  BY <1>19 DEF Fail, BranchesFit
<1>20. CASE RemoveInternalDir
  BY <1>20 DEF RemoveInternalDir, BranchesFit
<1>21. CASE Kill
  BY <1>21 DEF Kill, BranchesFit
<1>22. CASE Push
  BY <1>22, PushMoves DEF Push, BranchesFit
<1>23. CASE UNCHANGED vars
  BY <1>23 DEF vars, BranchesFit
<1> QED
  BY <1>1, <1>2, <1>3, <1>4, <1>5, <1>6, <1>7, <1>8, <1>9, <1>10, <1>11, <1>12, <1>13, <1>14, <1>15,
     <1>16, <1>17, <1>18, <1>19, <1>20, <1>21, <1>22, <1>23 DEF Next, Terminated

(* In every reachable state the branches fit their histories.              *)
LEMMA AlwaysBranchesFit == Spec => []BranchesFit
<1>1. Init => BranchesFit
  BY DEF Init, BranchesFit, LeftBehind, NoTracking, None, Repos, Branches
<1>2. BranchesFit /\ [Next]_vars => BranchesFit'
  BY BranchesFitStep
<1> QED
  BY <1>1, <1>2, PTL DEF Spec

--------------------------------------------------------------------------------
(* The credentials.                                                        *)

(* No step points git to a file that is not there, or takes one away that  *)
(* is still in use.                                                        *)
LEMMA CredentialsFitStep ==
    ASSUME CredentialsFit, [Next]_vars
    PROVE  CredentialsFit'
<1> USE DEF Goto, Return, remote, tree, repository, credentials, ending, Cloned, AfterSSH
<1>1. CASE MakeInternalDir
  BY <1>1 DEF MakeInternalDir, CredentialsFit, Fetch
<1>2. CASE SetupBasicAuth
  BY <1>2 DEF SetupBasicAuth, CredentialsFit, Fetch
<1>3. CASE SetupSSH
  BY <1>3 DEF SetupSSH, CredentialsFit, Fetch
<1>4. CASE VerifyCheckoutDirContainment
  BY <1>4 DEF VerifyCheckoutDirContainment, CredentialsFit, Fetch
<1>5. CASE CleanCheckoutDir
  BY <1>5 DEF CleanCheckoutDir, CredentialsFit, Fetch
<1>6. CASE CleanCheckoutDirFails
  BY <1>6 DEF CleanCheckoutDirFails, CredentialsFit, Fetch
<1>7. CASE InitRepository
  BY <1>7 DEF InitRepository, CredentialsFit, Fetch
<1>8. CASE FetchLands
  BY <1>8 DEF FetchLands, CredentialsFit, Fetch
<1>9. CASE FetchRevision
  BY <1>9 DEF FetchRevision, CredentialsFit, Fetch
<1>10. CASE Checkout
  BY <1>10 DEF Checkout, CredentialsFit, Fetch
<1>11. CASE UpdateSubmodules
  BY <1>11 DEF UpdateSubmodules, CredentialsFit, Fetch
<1>12. CASE GatherCommitInfo
  BY <1>12 DEF GatherCommitInfo, CredentialsFit, Fetch
<1>13. CASE AddMergeRemote
  BY <1>13 DEF AddMergeRemote, CredentialsFit, Fetch
<1>14. CASE FetchTargetLands
  BY <1>14 DEF FetchTargetLands, CredentialsFit, Fetch
<1>15. CASE FetchTarget
  BY <1>15 DEF FetchTarget, CredentialsFit, Fetch
<1>16. CASE Merge
  BY <1>16 DEF Merge, CredentialsFit, Fetch
<1>17. CASE RecordMergedSha
  BY <1>17 DEF RecordMergedSha, CredentialsFit, Fetch
<1>18. CASE OutputResults
  BY <1>18 DEF OutputResults, CredentialsFit, Fetch
<1>19. CASE Fail
  BY <1>19 DEF Fail, CredentialsFit, Fetch
<1>20. CASE RemoveInternalDir
  BY <1>20 DEF RemoveInternalDir, CredentialsFit, Fetch
<1>21. CASE Kill
  BY <1>21 DEF Kill, CredentialsFit, Fetch
<1>22. CASE Push
  BY <1>22 DEF Push, CredentialsFit, Fetch
<1>23. CASE UNCHANGED vars
  BY <1>23 DEF vars, CredentialsFit
<1> QED
  BY <1>1, <1>2, <1>3, <1>4, <1>5, <1>6, <1>7, <1>8, <1>9, <1>10, <1>11, <1>12, <1>13, <1>14, <1>15,
     <1>16, <1>17, <1>18, <1>19, <1>20, <1>21, <1>22, <1>23 DEF Next, Terminated

(* Credentials are where git looks for them whenever git talks to a        *)
(* remote, and are gone when Run has returned, on every way out, unless    *)
(* the removal failed.                                                     *)
THEOREM CredentialsAlwaysScoped == Spec => []CredentialsOnlyDuringRun
<1>1. Init => CredentialsFit
  BY DEF Init, CredentialsFit, Cloned, AfterSSH
<1>2. CredentialsFit /\ [Next]_vars => CredentialsFit'
  BY CredentialsFitStep
<1>3. CredentialsFit => CredentialsOnlyDuringRun
  BY DEF CredentialsFit, CredentialsOnlyDuringRun, Cloned, AfterSSH
<1> QED
  BY <1>1, <1>2, <1>3, PTL DEF Spec

--------------------------------------------------------------------------------
(* The checkout.                                                           *)

(* No step brings a dirty or an escaping directory to the clone.           *)
LEMMA DirectoryFitsStep ==
    ASSUME BranchesFit, DirectoryFits, [Next]_vars
    PROVE  DirectoryFits'
<1> USE DEF Goto, Return, remote, tree, repository, credentials, ending, Cloned
<1>1. CASE MakeInternalDir
  BY <1>1 DEF MakeInternalDir, DirectoryFits, Contained, Fetch
<1>2. CASE SetupBasicAuth
  BY <1>2 DEF SetupBasicAuth, DirectoryFits, Contained, Fetch
<1>3. CASE SetupSSH
  BY <1>3 DEF SetupSSH, DirectoryFits, Contained, Fetch
<1>4. CASE VerifyCheckoutDirContainment
  BY <1>4 DEF VerifyCheckoutDirContainment, DirectoryFits, Contained, Fetch
<1>5. CASE CleanCheckoutDir
  BY <1>5 DEF CleanCheckoutDir, DirectoryFits, Contained, Fetch
<1>6. CASE CleanCheckoutDirFails
  BY <1>6 DEF CleanCheckoutDirFails, DirectoryFits, Contained, Fetch
<1>7. CASE InitRepository
  BY <1>7 DEF InitRepository, DirectoryFits, Contained, Fetch
<1>8. CASE FetchLands
  BY <1>8 DEF FetchLands, DirectoryFits, Contained, Fetch
<1>9. CASE FetchRevision
  BY <1>9 DEF FetchRevision, DirectoryFits, Contained, Fetch
<1>10. CASE Checkout
  BY <1>10 DEF Checkout, DirectoryFits, Contained, Fetch
<1>11. CASE UpdateSubmodules
  BY <1>11 DEF UpdateSubmodules, DirectoryFits, Contained, Fetch
<1>12. CASE GatherCommitInfo
  BY <1>12 DEF GatherCommitInfo, DirectoryFits, Contained, Fetch
<1>13. CASE AddMergeRemote
  BY <1>13 DEF AddMergeRemote, DirectoryFits, Contained, Fetch
<1>14. CASE FetchTargetLands
  BY <1>14 DEF FetchTargetLands, DirectoryFits, Contained, Fetch
<1>15. CASE FetchTarget
  BY <1>15 DEF FetchTarget, DirectoryFits, Contained, Fetch
<1>16. CASE Merge
  BY <1>16 DEF Merge, DirectoryFits, Contained, Fetch
<1>17. CASE RecordMergedSha
  BY <1>17 DEF RecordMergedSha, DirectoryFits, Contained, Fetch
<1>18. CASE OutputResults
  BY <1>18 DEF OutputResults, DirectoryFits, Contained, Fetch
<1>19. CASE Fail
  BY <1>19 DEF Fail, DirectoryFits, Contained, Fetch
<1>20. CASE RemoveInternalDir
  BY <1>20 DEF RemoveInternalDir, DirectoryFits, Contained, Fetch
<1>21. CASE Kill
  BY <1>21 DEF Kill, DirectoryFits, Contained, Fetch
<1>22. CASE Push
  BY <1>22 DEF Push, DirectoryFits, Contained, Fetch
<1>23. CASE UNCHANGED vars
  BY <1>23 DEF vars, DirectoryFits, Contained
<1> QED
  BY <1>1, <1>2, <1>3, <1>4, <1>5, <1>6, <1>7, <1>8, <1>9, <1>10, <1>11, <1>12, <1>13, <1>14, <1>15,
     <1>16, <1>17, <1>18, <1>19, <1>20, <1>21, <1>22, <1>23 DEF Next, Terminated

(* In every reachable state the checkout directory is as it should be.     *)
LEMMA AlwaysDirectoryFits == Spec => []DirectoryFits
<1>1. Init => DirectoryFits
  BY DEF Init, LeftBehind, DirectoryFits, Cloned
<1>2. BranchesFit /\ DirectoryFits /\ [Next]_vars => DirectoryFits'
  BY DirectoryFitsStep
<1> QED
  BY <1>1, <1>2, AlwaysBranchesFit, PTL DEF Spec

(* The parameters stay, and no step takes a commit from a history.         *)
LEMMA HistoriesGrow ==
    ASSUME BranchesFit, [Next]_vars
    PROVE  params' = params /\ \A r \in Repos, b \in Branches : seen[r][b] \subseteq seen'[r][b]
<1> USE DEF Goto, Return, remote, tree, repository, credentials, ending
<1>1. CASE MakeInternalDir
  BY <1>1 DEF MakeInternalDir, Fetch
<1>2. CASE SetupBasicAuth
  BY <1>2 DEF SetupBasicAuth, Fetch
<1>3. CASE SetupSSH
  BY <1>3 DEF SetupSSH, Fetch
<1>4. CASE VerifyCheckoutDirContainment
  BY <1>4 DEF VerifyCheckoutDirContainment, Fetch
<1>5. CASE CleanCheckoutDir
  BY <1>5 DEF CleanCheckoutDir, Fetch
<1>6. CASE CleanCheckoutDirFails
  BY <1>6 DEF CleanCheckoutDirFails, Fetch
<1>7. CASE InitRepository
  BY <1>7 DEF InitRepository, Fetch
<1>8. CASE FetchLands
  BY <1>8 DEF FetchLands, Fetch
<1>9. CASE FetchRevision
  BY <1>9 DEF FetchRevision, Fetch
<1>10. CASE Checkout
  BY <1>10 DEF Checkout, Fetch
<1>11. CASE UpdateSubmodules
  BY <1>11 DEF UpdateSubmodules, Fetch
<1>12. CASE GatherCommitInfo
  BY <1>12 DEF GatherCommitInfo, Fetch
<1>13. CASE AddMergeRemote
  BY <1>13 DEF AddMergeRemote, Fetch
<1>14. CASE FetchTargetLands
  BY <1>14 DEF FetchTargetLands, Fetch
<1>15. CASE FetchTarget
  BY <1>15 DEF FetchTarget, Fetch
<1>16. CASE Merge
  BY <1>16 DEF Merge, Fetch
<1>17. CASE RecordMergedSha
  BY <1>17 DEF RecordMergedSha, Fetch
<1>18. CASE OutputResults
  BY <1>18 DEF OutputResults, Fetch
<1>19. CASE Fail
  BY <1>19 DEF Fail, Fetch
<1>20. CASE RemoveInternalDir
  BY <1>20 DEF RemoveInternalDir, Fetch
<1>21. CASE Kill
  BY <1>21 DEF Kill, Fetch
<1>22. CASE Push
  BY <1>22, PushMoves DEF Push
<1>23. CASE UNCHANGED vars
  BY <1>23 DEF vars
<1> QED
  BY <1>1, <1>2, <1>3, <1>4, <1>5, <1>6, <1>7, <1>8, <1>9, <1>10, <1>11, <1>12, <1>13, <1>14, <1>15,
     <1>16, <1>17, <1>18, <1>19, <1>20, <1>21, <1>22, <1>23 DEF Next, Terminated

(* So what was requested stays requested.                                  *)
LEMMA StaysRequested ==
    ASSUME BranchesFit, [Next]_vars
    PROVE  Requested \subseteq Requested'
<1>1. params' = params /\ \A b \in Branches : seen["origin"][b] \subseteq seen'["origin"][b]
  BY HistoriesGrow DEF Repos
<1> QED
  BY <1>1 DEF Requested, Branches

(* No step checks out or reports a commit that was not requested.          *)
LEMMA CommitFitsStep ==
    ASSUME BranchesFit, CommitFits, [Next]_vars
    PROVE  CommitFits'
<1> USE DEF Goto, Return, remote, tree, repository, credentials, ending
<1>grows. Requested \subseteq Requested' /\ params' = params
  BY StaysRequested, HistoriesGrow
<1>1. CASE MakeInternalDir
  BY <1>1, <1>grows DEF MakeInternalDir, CommitFits, IsRequested, CheckoutRef, ModulesFit
<1>2. CASE SetupBasicAuth
  BY <1>2, <1>grows DEF SetupBasicAuth, CommitFits, IsRequested, CheckoutRef, ModulesFit
<1>3. CASE SetupSSH
  BY <1>3, <1>grows DEF SetupSSH, CommitFits, IsRequested, CheckoutRef, ModulesFit
<1>4. CASE VerifyCheckoutDirContainment
  BY <1>4, <1>grows DEF VerifyCheckoutDirContainment, CommitFits, IsRequested, CheckoutRef,
     ModulesFit
<1>5. CASE CleanCheckoutDir
  BY <1>5, <1>grows DEF CleanCheckoutDir, CommitFits, IsRequested, CheckoutRef, ModulesFit
<1>6. CASE CleanCheckoutDirFails
  BY <1>6, <1>grows DEF CleanCheckoutDirFails, CommitFits, IsRequested, CheckoutRef, ModulesFit
<1>7. CASE InitRepository
  BY <1>7, <1>grows DEF InitRepository, CommitFits, IsRequested, CheckoutRef, ModulesFit
<1>8. CASE FetchLands
  BY <1>8, <1>grows DEF FetchLands, CommitFits, IsRequested, CheckoutRef, ModulesFit, Fetch
<1>9. CASE FetchRevision
  <2>1. /\ "origin" \in Repos /\ FetchedBranches \in SUBSET Branches
        /\ Fetch("origin", FetchedBranches)
    BY <1>9 DEF FetchRevision, Repos, Branches, FetchedBranches
  <2>2. /\ \E b \in FetchedBranches : fetchHead' = {server["origin"][b]}
        /\ \A b \in FetchedBranches : tracking'["origin"][b] = {server["origin"][b]}
    BY <2>1, FetchBrings
  <2>3. ASSUME NEW b \in FetchedBranches, params.revision /\ ~params.refspec => b = "revision"
        PROVE  server["origin"][b] \in seen["origin"][b]
    BY <2>1 DEF BranchesFit
  <2>4. pc' = "checkout" /\ params' = params /\ seen' = seen
    BY <1>9 DEF FetchRevision
  <2>5. IsRequested(CheckoutRef)'
    <3>1. CASE params.revision /\ params.refspec
      BY <2>1, <2>2, <2>3, <2>4, <3>1 DEF FetchedBranches, CheckoutRef, IsRequested, Requested,
         Branches
    <3>2. CASE params.revision /\ ~params.refspec
      BY <2>1, <2>2, <2>3, <2>4, <3>2 DEF FetchedBranches, CheckoutRef, IsRequested, Requested
    <3>3. CASE ~params.revision
      BY <2>1, <2>2, <2>3, <2>4, <3>3 DEF FetchedBranches, CheckoutRef, IsRequested, Requested
    <3> QED
      BY <3>1, <3>2, <3>3
  <2> QED
    BY <2>4, <2>5 DEF CommitFits
<1>10. CASE Checkout
  BY <1>10, <1>grows DEF Checkout, CommitFits, IsRequested, CheckoutRef, ModulesFit
<1>11. CASE UpdateSubmodules
  BY <1>11, <1>grows DEF UpdateSubmodules, CommitFits, IsRequested, CheckoutRef, ModulesFit
<1>12. CASE GatherCommitInfo
  BY <1>12, <1>grows DEF GatherCommitInfo, CommitFits, IsRequested, CheckoutRef, ModulesFit,
     BranchesFit
<1>13. CASE AddMergeRemote
  BY <1>13, <1>grows DEF AddMergeRemote, CommitFits, IsRequested, CheckoutRef, ModulesFit
<1>14. CASE FetchTargetLands
  BY <1>14, <1>grows DEF FetchTargetLands, CommitFits, IsRequested, CheckoutRef, ModulesFit, Fetch
<1>15. CASE FetchTarget
  BY <1>15, <1>grows DEF FetchTarget, CommitFits, IsRequested, CheckoutRef, ModulesFit, Fetch
<1>16. CASE Merge
  BY <1>16, <1>grows DEF Merge, CommitFits, IsRequested, CheckoutRef, ModulesFit
<1>17. CASE RecordMergedSha
  BY <1>17, <1>grows DEF RecordMergedSha, CommitFits, IsRequested, CheckoutRef, ModulesFit
<1>18. CASE OutputResults
  BY <1>18, <1>grows DEF OutputResults, CommitFits, IsRequested, CheckoutRef, ModulesFit
<1>19. CASE Fail
  BY <1>19, <1>grows DEF Fail, CommitFits, IsRequested, CheckoutRef, ModulesFit
<1>20. CASE RemoveInternalDir
  BY <1>20, <1>grows DEF RemoveInternalDir, CommitFits, IsRequested, CheckoutRef, ModulesFit
<1>21. CASE Kill
  BY <1>21, <1>grows DEF Kill, CommitFits, IsRequested, CheckoutRef, ModulesFit
<1>22. CASE Push
  BY <1>22, <1>grows DEF Push, CommitFits, IsRequested, CheckoutRef, ModulesFit
<1>23. CASE UNCHANGED vars
  BY <1>23, <1>grows DEF vars, CommitFits, IsRequested, CheckoutRef, ModulesFit
<1> QED
  BY <1>1, <1>2, <1>3, <1>4, <1>5, <1>6, <1>7, <1>8, <1>9, <1>10, <1>11, <1>12, <1>13, <1>14, <1>15,
     <1>16, <1>17, <1>18, <1>19, <1>20, <1>21, <1>22, <1>23 DEF Next, Terminated

(* In every reachable state what is checked out was requested.             *)
LEMMA AlwaysCommitFits == Spec => []CommitFits
<1>1. Init => CommitFits
  BY DEF Init, CommitFits
<1>2. BranchesFit /\ CommitFits /\ [Next]_vars => CommitFits'
  BY CommitFitsStep
<1> QED
  BY <1>1, <1>2, AlwaysBranchesFit, PTL DEF Spec

--------------------------------------------------------------------------------
(* The merge and the results.                                              *)

(* A merge stays one with a commit that the target branch has had.         *)
LEMMA StaysMerged ==
    ASSUME BranchesFit, [Next]_vars, params.merge \in Repos, Merged, UNCHANGED <<head, results>>
    PROVE  Merged'
<1>1. /\ params' = params
      /\ seen[params.merge]["target"] \subseteq seen'[params.merge]["target"]
  BY HistoriesGrow DEF Branches
<1> QED
  BY <1>1 DEF Merged

(* No step merges anything else.                                           *)
LEMMA MergeFitsStep ==
    ASSUME BranchesFit, CommitFits, MergeFits, [Next]_vars
    PROVE  MergeFits'
<1> USE DEF Goto, Return, remote, tree, repository, credentials, ending, Over
<1>grows. Requested \subseteq Requested' /\ params' = params
  BY StaysRequested, HistoriesGrow
<1>repo. pc \in {"merge remote", "fetch target", "merge", "merged"} => params.merge \in Repos
  BY MergeIsRepo
<1>1. CASE MakeInternalDir
  BY <1>1, <1>grows DEF MakeInternalDir, MergeFits
<1>2. CASE SetupBasicAuth
  BY <1>2, <1>grows DEF SetupBasicAuth, MergeFits
<1>3. CASE SetupSSH
  BY <1>3, <1>grows DEF SetupSSH, MergeFits
<1>4. CASE VerifyCheckoutDirContainment
  BY <1>4, <1>grows DEF VerifyCheckoutDirContainment, MergeFits
<1>5. CASE CleanCheckoutDir
  BY <1>5, <1>grows DEF CleanCheckoutDir, MergeFits
<1>6. CASE CleanCheckoutDirFails
  BY <1>6, <1>grows DEF CleanCheckoutDirFails, MergeFits
<1>7. CASE InitRepository
  BY <1>7, <1>grows DEF InitRepository, MergeFits
<1>8. CASE FetchLands
  BY <1>8, <1>grows DEF FetchLands, MergeFits
<1>9. CASE FetchRevision
  BY <1>9, <1>grows DEF FetchRevision, MergeFits
<1>10. CASE Checkout
  BY <1>10, <1>grows DEF Checkout, MergeFits
<1>11. CASE UpdateSubmodules
  BY <1>11, <1>grows DEF UpdateSubmodules, MergeFits
<1>12. CASE GatherCommitInfo
  BY <1>12, <1>grows DEF GatherCommitInfo, MergeFits, BranchesFit
<1>13. CASE AddMergeRemote
  BY <1>13, <1>grows DEF AddMergeRemote, MergeFits
<1>14. CASE FetchTargetLands
  BY <1>14, <1>grows DEF FetchTargetLands, MergeFits
<1>15. CASE FetchTarget
  <2>1. /\ params.merge \in Repos /\ {"target"} \in SUBSET Branches
        /\ Fetch(params.merge, {"target"})
    BY <1>15, <1>repo DEF FetchTarget, MergeRemote, Branches
  <2>2. tracking'[params.merge]["target"] = {server[params.merge]["target"]}
    BY <2>1, FetchBrings
  <2>3. server[params.merge]["target"] \in seen[params.merge]["target"]
    BY <2>1 DEF BranchesFit
  <2>4. pc' = "merge" /\ params' = params /\ seen' = seen /\ results' = results
    BY <1>15 DEF FetchTarget
  <2>5. results'.mergedSha = None
    BY <1>15, <2>4 DEF FetchTarget, MergeFits
  <2> QED
    BY <2>2, <2>3, <2>4, <2>5 DEF MergeFits
<1>16. CASE Merge
  <2>1. PICK t \in seen[params.merge]["target"] : tracking[params.merge]["target"] = {t}
    BY <1>16 DEF Merge, MergeFits
  <2>2. /\ pc = "merge" /\ pc' = "merged" /\ UNCHANGED <<params, seen, modules, results>>
        /\ \/ (\A c \in head : t = c \/ t \in Ancestors[c]) /\ head' = head
           \/ head' = head \union {t}
    BY <1>16, <2>1 DEF Merge, MergeRemote
  <2>3. IsRequested(results.commit) /\ results.commit = head /\ ModulesFit
    BY <2>2 DEF CommitFits
  <2>4. PICK c \in Requested : head = {c}
    BY <2>3 DEF IsRequested
  <2>5. Merged'
    BY <2>2, <2>3, <2>4 DEF Merged
  <2>6. IsRequested(results.commit)' /\ ModulesFit'
    BY <1>grows, <2>2, <2>3 DEF IsRequested, ModulesFit
  <2>7. results'.mergedSha = None
    BY <2>2 DEF MergeFits
  <2> QED
    BY <2>2, <2>5, <2>6, <2>7 DEF MergeFits
<1>17. CASE RecordMergedSha
  BY <1>17, <1>grows DEF RecordMergedSha, MergeFits
<1>18. CASE OutputResults
  BY <1>18, <1>grows DEF OutputResults, MergeFits
<1>19. CASE Fail
  BY <1>19, <1>grows DEF Fail, MergeFits
<1>20. CASE RemoveInternalDir
  BY <1>20, <1>grows DEF RemoveInternalDir, MergeFits
<1>21. CASE Kill
  BY <1>21, <1>grows DEF Kill, MergeFits
<1>22. CASE Push
  <2>1. UNCHANGED <<params, pc, tracking, head, modules, results>>
    BY <1>22 DEF Push
  <2>2. pc = "merged" => Merged'
    BY <1>repo, <2>1, StaysMerged DEF MergeFits
  <2>3. pc = "merge" => seen[params.merge]["target"] \subseteq seen'[params.merge]["target"]
    BY <1>repo, HistoriesGrow DEF Branches
  <2> QED
    BY <1>grows, <2>1, <2>2, <2>3 DEF MergeFits, IsRequested, ModulesFit
<1>23. CASE UNCHANGED vars
  BY <1>23 DEF vars, MergeFits, Merged, IsRequested, Requested, ModulesFit
<1> QED
  BY <1>1, <1>2, <1>3, <1>4, <1>5, <1>6, <1>7, <1>8, <1>9, <1>10, <1>11, <1>12, <1>13, <1>14, <1>15,
     <1>16, <1>17, <1>18, <1>19, <1>20, <1>21, <1>22, <1>23 DEF Next, Terminated

(* In every reachable state the merge is the one that was asked for.       *)
LEMMA AlwaysMergeFits == Spec => []MergeFits
<1>1. Init => MergeFits
  BY DEF Init, MergeFits
<1>2. BranchesFit /\ CommitFits /\ MergeFits /\ [Next]_vars => MergeFits'
  BY MergeFitsStep
<1> QED
  BY <1>1, <1>2, AlwaysBranchesFit, AlwaysCommitFits, PTL DEF Spec

(* What describes the checkout goes on describing it.                      *)
LEMMA StaysDescribed ==
    ASSUME BranchesFit, [Next]_vars, Described,
           UNCHANGED <<head, results, modules, entries, path>>
    PROVE  Described'
<1>1. Requested \subseteq Requested' /\ params' = params
  BY StaysRequested, HistoriesGrow
<1>2. params.merge # "none" => Merged'
  BY StaysMerged, GitCloneAssumption DEF BranchesFit, Described
<1> QED
  BY <1>1, <1>2 DEF Described, IsRequested, ModulesFit

(* No step ends a run with success and with results that do not describe   *)
(* its checkout.                                                           *)
LEMMA OutcomeFitsStep ==
    ASSUME BranchesFit, DirectoryFits, CommitFits, MergeFits, OutcomeFits, [Next]_vars
    PROVE  OutcomeFits'
<1> USE DEF Goto, Return, remote, tree, repository, credentials, ending, Over
<1>none. pc \notin Over => outcome = "none"
  BY DEF OutcomeFits
<1>1. CASE MakeInternalDir
  BY <1>1, <1>none DEF MakeInternalDir, OutcomeFits
<1>2. CASE SetupBasicAuth
  BY <1>2, <1>none DEF SetupBasicAuth, OutcomeFits
<1>3. CASE SetupSSH
  BY <1>3, <1>none DEF SetupSSH, OutcomeFits
<1>4. CASE VerifyCheckoutDirContainment
  BY <1>4, <1>none DEF VerifyCheckoutDirContainment, OutcomeFits
<1>5. CASE CleanCheckoutDir
  BY <1>5, <1>none DEF CleanCheckoutDir, OutcomeFits
<1>6. CASE CleanCheckoutDirFails
  BY <1>6, <1>none DEF CleanCheckoutDirFails, OutcomeFits
<1>7. CASE InitRepository
  BY <1>7, <1>none DEF InitRepository, OutcomeFits
<1>8. CASE FetchLands
  BY <1>8, <1>none DEF FetchLands, OutcomeFits
<1>9. CASE FetchRevision
  BY <1>9, <1>none DEF FetchRevision, OutcomeFits
<1>10. CASE Checkout
  BY <1>10, <1>none DEF Checkout, OutcomeFits
<1>11. CASE UpdateSubmodules
  BY <1>11, <1>none DEF UpdateSubmodules, OutcomeFits
<1>12. CASE GatherCommitInfo
  <2>1. /\ pc = "commit info" /\ results' = [results EXCEPT !.commit = head]
        /\ pc' \in {"symlinks", "merge remote"} /\ outcome' = "none"
        /\ UNCHANGED <<params, seen, head, modules, entries, path>>
        /\ pc' = "symlinks" => params.merge = "none"
    BY <1>12, <1>none DEF GatherCommitInfo
  <2>2. results'.commit = head /\ results'.mergedSha = None
    BY <2>1 DEF BranchesFit, MergeFits
  <2>3. pc' = "symlinks" => IsRequested(results.commit)' /\ ModulesFit'
    BY <2>1, <2>2 DEF CommitFits, IsRequested, Requested, ModulesFit
  <2>4. /\ params.deleteExisting => entries = {}
        /\ params.subdirectory => path = "dir"
    BY <2>1 DEF DirectoryFits, Contained, Cloned
  <2> QED
    BY <2>1, <2>2, <2>3, <2>4 DEF OutcomeFits, Described
<1>13. CASE AddMergeRemote
  BY <1>13, <1>none DEF AddMergeRemote, OutcomeFits
<1>14. CASE FetchTargetLands
  BY <1>14, <1>none DEF FetchTargetLands, OutcomeFits
<1>15. CASE FetchTarget
  BY <1>15, <1>none DEF FetchTarget, OutcomeFits
<1>16. CASE Merge
  BY <1>16, <1>none DEF Merge, OutcomeFits
<1>17. CASE RecordMergedSha
  <2>1. /\ pc = "merged" /\ results' = [results EXCEPT !.mergedSha = head]
        /\ pc' = "symlinks" /\ outcome' = "none"
        /\ UNCHANGED <<params, seen, head, modules, entries, path>>
    BY <1>17, <1>none DEF RecordMergedSha
  <2>2. results'.commit = results.commit /\ results'.mergedSha = head
    BY <2>1 DEF BranchesFit
  <2>3. IsRequested(results.commit)' /\ ModulesFit' /\ Merged'
    BY <2>1, <2>2 DEF MergeFits, IsRequested, Requested, ModulesFit, Merged
  <2>4. params.merge # "none"
    BY <2>1 DEF BranchesFit
  <2>5. /\ params.deleteExisting => entries = {}
        /\ params.subdirectory => path = "dir"
    BY <2>1 DEF DirectoryFits, Contained, Cloned
  <2> QED
    BY <2>1, <2>2, <2>3, <2>4, <2>5 DEF OutcomeFits, Described
<1>18. CASE OutputResults
  BY <1>18, <1>none, StaysDescribed DEF OutputResults, OutcomeFits
<1>19. CASE Fail
  BY <1>19, <1>none DEF Fail, OutcomeFits
<1>20. CASE RemoveInternalDir
  BY <1>20, <1>none, StaysDescribed DEF RemoveInternalDir, OutcomeFits
<1>21. CASE Kill
  BY <1>21, <1>none, StaysDescribed DEF Kill, OutcomeFits
<1>22. CASE Push
  BY <1>22, <1>none, StaysDescribed DEF Push, OutcomeFits
<1>23. CASE UNCHANGED vars
  BY <1>23, StaysDescribed DEF vars, OutcomeFits
<1> QED
  BY <1>1, <1>2, <1>3, <1>4, <1>5, <1>6, <1>7, <1>8, <1>9, <1>10, <1>11, <1>12, <1>13, <1>14, <1>15,
     <1>16, <1>17, <1>18, <1>19, <1>20, <1>21, <1>22, <1>23 DEF Next, Terminated

(* What a run that succeeds reports describes what is in its checkout      *)
(* directory, for every history of commits, however the branches move      *)
(* during the run and whatever an earlier run left in the directory.       *)
THEOREM ResultsAlwaysDescribe == Spec => []ResultsDescribeCheckout
<1>1. Init => OutcomeFits
  BY DEF Init, OutcomeFits
<1>2. /\ BranchesFit /\ DirectoryFits /\ CommitFits /\ MergeFits /\ OutcomeFits
      /\ [Next]_vars
      => OutcomeFits'
  BY OutcomeFitsStep
<1>3. OutcomeFits => ResultsDescribeCheckout
  BY DEF OutcomeFits, Described, IsRequested, ModulesFit, Merged, ResultsDescribeCheckout
<1> QED
  BY <1>1, <1>2, <1>3, AlwaysBranchesFit, AlwaysDirectoryFits, AlwaysCommitFits, AlwaysMergeFits,
     PTL DEF Spec
================================================================================
