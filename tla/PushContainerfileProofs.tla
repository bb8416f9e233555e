------------------------ MODULE PushContainerfileProofs ------------------------
(***************************************************************************)
(* Theorems about PushContainerfile for every set of parameters.  What a   *)
(* run has set up is in the list of the deferred calls until it is undone  *)
(* (Pending), nothing is reported before the push of the file that was     *)
(* asked for (FileFits), and the credentials are those of the image from   *)
(* their selection on (AuthFits).                                          *)
(***************************************************************************)
EXTENDS PushContainerfile, SequenceTheorems, WellFoundedInduction, TLAPS

Deferred(call) == \E i \in 1 .. Len(defers) : defers[i] = call

(* A config file that is being written is not known to the defers yet. *)
Pending ==
    /\ cwd # "caller" => Deferred("chdir back") \/ "cwd" \in excused
    /\ tempDir # {} => Deferred("remove workDir") \/ "workDir" \in excused
    /\ config # "none" => \/ pc \in {"write config", "killed"}
                          \/ Deferred("remove config") \/ "config" \in excused
    /\ pc = "copy" => tempDir # {}
    /\ pc = "end" => defers = <<>>

AskedFile == IF params.alternativeFilename THEN "alternative" ELSE "containerfile"

FileFits ==
    /\ pc \in {"search", "verify", "create", "write config", "stage", "copy", "chdir", "oras push"}
          => printed = FALSE /\ resultIn = "none"
    /\ pc = "oras push" => cwd = IF params.alternativeFilename THEN "temp" ELSE "source"
    /\ pc \in {"report", "write result"} => pushed = AskedFile
    /\ printed = TRUE \/ resultIn # "none" => pushed = AskedFile

--------------------------------------------------------------------------------
(* The list of the deferred calls.                                         *)

(* Deferring a call keeps those that are deferred.                         *)
LEMMA DeferAdds ==
    ASSUME NEW s \in Seq(Calls), NEW c \in Calls
    PROVE  /\ <<c>> \o s \in Seq(Calls)
           /\ Len(<<c>> \o s) = Len(s) + 1 /\ (<<c>> \o s)[1] = c
           /\ \A i \in 1 .. Len(s) : (<<c>> \o s)[i + 1] = s[i]
OBVIOUS

(* Taking the next call off the list keeps the others.                     *)
LEMMA TakingTheNext ==
    ASSUME NEW s \in Seq(Calls), s # <<>>
    PROVE  /\ Head(s) \in Calls /\ Tail(s) \in Seq(Calls)
           /\ \A i \in 1 .. Len(s) : \/ s[i] = Head(s)
                                     \/ \E j \in 1 .. Len(Tail(s)) : Tail(s)[j] = s[i]
<1>1. Head(s) \in Calls /\ Tail(s) \in Seq(Calls) /\ Len(Tail(s)) = Len(s) - 1
  BY HeadTailProperties
<1>2. Head(s) = s[1] /\ Len(s) \in Nat /\ \A j \in 1 .. Len(Tail(s)) : Tail(s)[j] = s[j + 1]
  BY <1>1
<1>3. ASSUME NEW i \in 1 .. Len(s), i # 1
      PROVE  i - 1 \in 1 .. Len(Tail(s)) /\ Tail(s)[i - 1] = s[i]
  BY <1>1, <1>2, <1>3
<1> QED
  BY <1>1, <1>2, <1>3

(* So a call that is deferred stays so while calls are added, and          *)
(* until it is the next.                                                   *)
LEMMA StaysDeferred ==
    ASSUME TypeOK, NEW call
    PROVE  /\ \A c \in Calls : Defer(c) => Deferred(c)' /\ (Deferred(call) => Deferred(call)')
           /\ defers # <<>> /\ defers' = Tail(defers) /\ Deferred(call) =>
                 call = Head(defers) \/ Deferred(call)'
<1>1. defers \in Seq(Calls)
  BY DEF TypeOK, Calls
<1>2. ASSUME NEW c \in Calls, Defer(c)
      PROVE  Deferred(c)' /\ (Deferred(call) => Deferred(call)')
  <2>1. defers' = <<c>> \o defers
    BY <1>2 DEF Defer
  <2>2. /\ Len(defers') = Len(defers) + 1 /\ defers'[1] = c /\ Len(defers) \in Nat
        /\ \A i \in 1 .. Len(defers) : defers'[i + 1] = defers[i]
    BY <1>1, <2>1, DeferAdds
  <2> QED
    BY <2>2 DEF Deferred
<1>3. ASSUME defers # <<>>, defers' = Tail(defers), Deferred(call)
      PROVE  call = Head(defers) \/ Deferred(call)'
  BY <1>1, <1>3, TakingTheNext DEF Deferred
<1> QED
  BY <1>2, <1>3

--------------------------------------------------------------------------------
(* Type correctness.                                                       *)

(* Every step keeps the types.                                             *)
LEMMA TypeStep ==
    ASSUME TypeOK, [Next]_vars
    PROVE  TypeOK'
<1> USE DEF TypeOK, Return
<1>defers. defers \in Seq(Calls)
  OBVIOUS
<1>1. CASE SearchDockerfile
  BY <1>1, ZenonT(60) DEF SearchDockerfile
<1>2. CASE VerifyAndSelectAuth
  BY <1>2 DEF VerifyAndSelectAuth
<1>3. CASE CreateConfig
  BY <1>3 DEF CreateConfig
<1>4. CASE WriteConfig
  <2>1. defers' \in Seq(Calls)
    <3>1. "remove config" \in Calls
      BY DEF Calls
    <3>2. defers' = defers \/ defers' = <<"remove config">> \o defers
      BY <1>4 DEF WriteConfig, Defer
    <3> HIDE DEF TypeOK
    <3> QED
      BY <1>defers, <3>1, <3>2, DeferAdds
  <2>2. /\ config' \in {"empty", "written"} /\ excused' \subseteq {"config", "workDir", "cwd"}
        /\ outcome' \in {outcome, "error"} /\ pc' \in {"stage", "unwind"}
    BY <1>4 DEF WriteConfig
  <2> QED
    BY <1>4, <2>1, <2>2 DEF WriteConfig
<1>5. CASE MakeWorkDir
  <2>1. defers' \in Seq(Calls)
    <3>1. "remove workDir" \in Calls
      BY DEF Calls
    <3>2. defers' = defers \/ defers' = <<"remove workDir">> \o defers
      BY <1>5 DEF MakeWorkDir, Defer
    <3> HIDE DEF TypeOK
    <3> QED
      BY <1>defers, <3>1, <3>2, DeferAdds
  <2>2. tempDir' \subseteq {".", "alternative"} /\ pc' \in {"copy", "chdir"}
    BY <1>5 DEF MakeWorkDir
  <2> QED
    BY <1>5, <2>1, <2>2, ZenonT(60) DEF MakeWorkDir
<1>6. CASE CopyContainerfile
  BY <1>6 DEF CopyContainerfile
<1>7. CASE Chdir
  BY <1>7, <1>defers, DeferAdds DEF Chdir, Defer, Calls
<1>8. CASE OrasPush
  BY <1>8, ZenonT(60) DEF OrasPush
<1>9. CASE PrintResults
  BY <1>9 DEF PrintResults
<1>10. CASE WriteResult
  <2>1. resultIn' \in {"none", "absolute", "caller", "source", "temp"}
    BY <1>10, PushContainerfileAssumption DEF WriteResult
  <2> QED
    BY <1>10, <2>1 DEF WriteResult
<1>11. CASE Fail
  BY <1>11 DEF Fail
<1>12. CASE Unwind
  <2>1. PICK call \in Calls : call = Head(defers)
    BY <1>12, <1>defers, TakingTheNext DEF Unwind
  <2>2. defers' \in Seq(Calls)
    BY <1>12, <1>defers, TakingTheNext DEF Unwind
  <2>3. /\ config' \in {config, "none"} /\ tempDir' \in {tempDir, {}}
        /\ resultIn' \in {resultIn, "none"} /\ cwd' \in {cwd, "caller"}
    BY <1>12 DEF Unwind
  <2>4. excused' \subseteq {"config", "workDir", "cwd"}
    BY <1>12, <2>1 DEF Unwind, Calls
  <2>5. UNCHANGED <<params, pc, pushed, outcome>>
    BY <1>12 DEF Unwind
  <2>6. printed' \in BOOLEAN
    BY <1>12 DEF Unwind
  <2>7. tempDir' \subseteq {".", "alternative"}
    BY <2>3
  <2>8. params' \in ParamSet
    BY <2>5
  <2>9. (pc \in {"search", "verify", "create", "write config", "stage", "copy", "chdir",
               "oras push", "report", "write result", "unwind", "end", "killed"})'
    BY <2>5
  <2>10. (cwd \in {"caller", "source", "temp"})' /\ (config \in {"none", "empty", "written"})'
    BY <2>3
  <2>11. (pushed \in {"none", "containerfile", "alternative"})'
    BY <2>5
  <2>12. (resultIn \in {"none", "absolute", "caller", "source", "temp"})'
    BY <2>3
  <2>13. (outcome \in {"none", "ok", "error"})'
    BY <2>5
  <2> QED
    BY <2>2, <2>4, <2>6, <2>7, <2>8, <2>9, <2>10, <2>11, <2>12, <2>13
<1>13. CASE End
  BY <1>13 DEF End
<1>14. CASE Kill
  BY <1>14 DEF Kill
<1>15. CASE UNCHANGED vars
  <2>1. /\ UNCHANGED <<params, pc, defers, cwd, config, tempDir>>
        /\ UNCHANGED <<pushed, resultIn, outcome, excused>>
    BY <1>15 DEF vars
  <2>2. printed' \in BOOLEAN
    BY <1>15 DEF vars
  <2>3. defers' \in Seq(Calls)
    BY <1>defers, <2>1
  <2>4. tempDir' \subseteq {".", "alternative"} /\ excused' \subseteq {"config", "workDir", "cwd"}
    BY <2>1
  <2>5. (params \in ParamSet)'
    BY <2>1
  <2>6. (pc \in {"search", "verify", "create", "write config", "stage", "copy", "chdir",
  "oras push",
               "report", "write result", "unwind", "end", "killed"})'
    BY <2>1
  <2>7. (cwd \in {"caller", "source", "temp"})' /\ (config \in {"none", "empty", "written"})'
    BY <2>1
  <2>8. (pushed \in {"none", "containerfile", "alternative"})'
    BY <2>1
  <2>9. /\ (resultIn \in {"none", "absolute", "caller", "source", "temp"})'
        /\ (outcome \in {"none", "ok", "error"})'
    BY <2>1
  <2> QED
    BY <2>2, <2>3, <2>4, <2>5, <2>6, <2>7, <2>8, <2>9
<1> QED
  BY <1>1, <1>2, <1>3, <1>4, <1>5, <1>6, <1>7, <1>8, <1>9, <1>10, <1>11, <1>12, <1>13, <1>14,
     <1>15 DEF Next, Terminated

(* The state of a run and of the files it touches keeps its type.          *)
THEOREM TypeCorrect == Spec => []TypeOK
<1>1. Init => TypeOK
  <2>1. <<>> \in Seq(Calls)
    OBVIOUS
  <2>2. FALSE \in BOOLEAN
    OBVIOUS
  <2> QED
    BY <2>1, <2>2 DEF Init, TypeOK
<1>2. TypeOK /\ [Next]_vars => TypeOK'
  BY TypeStep
<1> QED
  BY <1>1, <1>2, PTL DEF Spec

--------------------------------------------------------------------------------
(* What was set up is undone.                                              *)

(* No step sets anything up without deferring how to undo it, or forgets a *)
(* deferred call.                                                          *)
LEMMA PendingStep ==
    ASSUME TypeOK, Pending, [Next]_vars
    PROVE  Pending'
<1> USE DEF Return
<1>1. CASE SearchDockerfile
  BY <1>1 DEF SearchDockerfile, Pending, Deferred
<1>2. CASE VerifyAndSelectAuth
  BY <1>2 DEF VerifyAndSelectAuth, Pending, Deferred
<1>3. CASE CreateConfig
  BY <1>3 DEF CreateConfig, Pending, Deferred
<1>4. CASE WriteConfig
  <2>1. \A call \in Calls : Deferred(call) => Deferred(call)'
    <3>1. CASE UNCHANGED defers
      BY <3>1 DEF Deferred
    <3>2. CASE Defer("remove config")
      BY <3>2, StaysDeferred DEF Calls
    <3> QED
      BY <1>4, <3>1, <3>2 DEF WriteConfig
  <2>2. Defer("remove config") => Deferred("remove config")'
    BY StaysDeferred DEF Calls
  <2> QED
    BY <1>4, <2>1, <2>2 DEF WriteConfig, Pending, Calls
<1>5. CASE MakeWorkDir
  <2>1. \A call \in Calls : Deferred(call) => Deferred(call)'
    <3>1. CASE UNCHANGED defers
      BY <3>1 DEF Deferred
    <3>2. CASE Defer("remove workDir")
      BY <3>2, StaysDeferred DEF Calls
    <3> QED
      BY <1>5, <3>1, <3>2 DEF MakeWorkDir
  <2>2. Defer("remove workDir") => Deferred("remove workDir")'
    BY StaysDeferred DEF Calls
  <2> QED
    BY <1>5, <2>1, <2>2 DEF MakeWorkDir, Pending, Calls
<1>6. CASE CopyContainerfile
  <2>1. tempDir # {}
    BY <1>6 DEF CopyContainerfile, Pending
  <2> QED
    BY <1>6, <2>1 DEF CopyContainerfile, Pending, Deferred
<1>7. CASE Chdir
  <2>1. \A call \in Calls : Deferred(call) => Deferred(call)'
    <3>1. CASE UNCHANGED defers
      BY <3>1 DEF Deferred
    <3>2. CASE Defer("chdir back")
      BY <3>2, StaysDeferred DEF Calls
    <3> QED
      BY <1>7, <3>1, <3>2 DEF Chdir
  <2>2. Defer("chdir back") => Deferred("chdir back")'
    BY StaysDeferred DEF Calls
  <2> QED
    BY <1>7, <2>1, <2>2 DEF Chdir, Pending, Calls
<1>8. CASE OrasPush
  BY <1>8 DEF OrasPush, Pending, Deferred
<1>9. CASE PrintResults
  BY <1>9 DEF PrintResults, Pending, Deferred
<1>10. CASE WriteResult
  BY <1>10 DEF WriteResult, Pending, Deferred
<1>11. CASE Fail
  BY <1>11 DEF Fail, Pending, Deferred
<1>12. CASE Unwind
  <2>1. PICK call \in Calls : call = Head(defers)
    BY <1>12, TakingTheNext DEF Unwind, TypeOK
  <2>2. \A c \in Calls : Deferred(c) => c = call \/ Deferred(c)'
    BY <1>12, <2>1, StaysDeferred DEF Unwind
  <2>3. /\ excused \subseteq excused' /\ pc' = pc /\ pc = "unwind"
        /\ config' # "none" => config # "none"
        /\ tempDir' # {} => tempDir # {}
        /\ cwd' # "caller" => cwd # "caller"
    BY <1>12 DEF Unwind
  <2>4. /\ call = "remove config" => config' = "none" \/ "config" \in excused'
        /\ call = "remove workDir" => tempDir' = {} \/ "workDir" \in excused'
        /\ call = "chdir back" => cwd' = "caller" \/ "cwd" \in excused'
    BY <1>12, <2>1 DEF Unwind
  <2> QED
    BY <2>2, <2>3, <2>4 DEF Pending, Calls
<1>13. CASE End
  BY <1>13 DEF End, Pending, Deferred
<1>14. CASE Kill
  BY <1>14 DEF Kill, Pending, Deferred
<1>15. CASE UNCHANGED vars
  BY <1>15 DEF vars, Pending, Deferred
<1> QED
  BY <1>1, <1>2, <1>3, <1>4, <1>5, <1>6, <1>7, <1>8, <1>9, <1>10, <1>11, <1>12, <1>13, <1>14,
     <1>15 DEF Next, Terminated

(* Whatever step failed, a run that has returned is back in the directory  *)
(* of its caller and leaves neither a copy nor credentials behind, unless  *)
(* undoing that failed or the credentials could not be written.            *)
THEOREM NothingIsLeft == Spec => []NothingLeft
<1>1. Init => Pending
  BY DEF Init, Pending
<1>2. TypeOK /\ Pending /\ [Next]_vars => Pending'
  BY PendingStep
<1>3. Pending => NothingLeft
  <2>1. ASSUME NEW call, defers = <<>> PROVE ~Deferred(call)
    BY <2>1 DEF Deferred
  <2> QED
    BY <2>1 DEF Pending, NothingLeft
<1> QED
  BY <1>1, <1>2, <1>3, TypeCorrect, PTL DEF Spec

--------------------------------------------------------------------------------
(* What is reported was pushed.                                            *)

(* No step reports anything but the file that was pushed.                  *)
LEMMA FileFitsStep ==
    ASSUME TypeOK, FileFits, [Next]_vars
    PROVE  FileFits'
<1> USE DEF Return
<1>1. CASE SearchDockerfile
  BY <1>1 DEF SearchDockerfile, FileFits, AskedFile, TypeOK
<1>2. CASE VerifyAndSelectAuth
  BY <1>2 DEF VerifyAndSelectAuth, FileFits, AskedFile, TypeOK
<1>3. CASE CreateConfig
  BY <1>3 DEF CreateConfig, FileFits, AskedFile, TypeOK
<1>4. CASE WriteConfig
  BY <1>4 DEF WriteConfig, FileFits, AskedFile, TypeOK
<1>5. CASE MakeWorkDir
  BY <1>5 DEF MakeWorkDir, FileFits, AskedFile, TypeOK
<1>6. CASE CopyContainerfile
  BY <1>6 DEF CopyContainerfile, FileFits, AskedFile, TypeOK
<1>7. CASE Chdir
  BY <1>7 DEF Chdir, FileFits, AskedFile, TypeOK
<1>8. CASE OrasPush
  BY <1>8 DEF OrasPush, FileFits, AskedFile, TypeOK
<1>9. CASE PrintResults
  BY <1>9 DEF PrintResults, FileFits, AskedFile, TypeOK
<1>10. CASE WriteResult
  BY <1>10 DEF WriteResult, FileFits, AskedFile, TypeOK
<1>11. CASE Fail
  BY <1>11 DEF Fail, FileFits, AskedFile, TypeOK
<1>12. CASE Unwind
  BY <1>12 DEF Unwind, FileFits, AskedFile, TypeOK
<1>13. CASE End
  BY <1>13 DEF End, FileFits, AskedFile, TypeOK
<1>14. CASE Kill
  BY <1>14 DEF Kill, FileFits, AskedFile, TypeOK
<1>15. CASE UNCHANGED vars
  BY <1>15 DEF vars, FileFits, AskedFile
<1> QED
  BY <1>1, <1>2, <1>3, <1>4, <1>5, <1>6, <1>7, <1>8, <1>9, <1>10, <1>11, <1>12, <1>13, <1>14,
     <1>15 DEF Next, Terminated

(* A reported reference names an artifact that is in the registry, with    *)
(* the file name that was asked for.                                       *)
THEOREM ReportedAlwaysPushed == Spec => []ReportedIsPushed
<1>1. Init => FileFits
  BY DEF Init, FileFits
<1>2. TypeOK /\ FileFits /\ [Next]_vars => FileFits'
  BY FileFitsStep
<1>3. TypeOK /\ FileFits => ReportedIsPushed
  BY DEF TypeOK, FileFits, AskedFile, ReportedIsPushed
<1> QED
  BY <1>1, <1>2, <1>3, TypeCorrect, PTL DEF Spec

--------------------------------------------------------------------------------
(* The credentials.  What findAuth returns is shown by descent: a set of   *)
(* lengths at which the search could go wrong has a least element.         *)

(* A set of numbers that is not empty has a least one.                     *)
LEMMA LeastElement ==
    ASSUME NEW T, T \subseteq Nat, T # {}
    PROVE  \E x \in T : \A y \in T : x <= y
<1> DEFINE R == OpToRel(<, Nat)
<1>1. IsWellFoundedOn(R, Nat)
  BY NatLessThanWellFounded
<1>2. \A x, y \in Nat : <<y, x>> \in R <=> y < x
  BY DEF OpToRel
<1> HIDE DEF R
<1>3. PICK x \in T : \A y \in T : ~(<<y, x>> \in R)
  BY <1>1, WFMin
<1>4. ASSUME NEW y \in T PROVE x <= y
  <2>1. x \in Nat /\ y \in Nat
    OBVIOUS
  <2>2. ~(y < x)
    BY <1>2, <1>3, <2>1
  <2> QED
    BY <2>1, <2>2
<1> QED
  BY <1>4

Key(repo, i) == SubSeq(repo, 1, i)

Login(auths, repo) == IF repo[1] = registryDockerIO /\ registryIndexDockerIO \in DOMAIN auths
                      THEN auths[registryIndexDockerIO] ELSE NoToken

Found(auths, repo, f, i) ==
    IF i = 0 THEN Login(auths, repo)
    ELSE IF Key(repo, i) \in DOMAIN auths THEN auths[Key(repo, i)] ELSE f[i - 1]

(* f is the result of the search for each of the first n parts of a name.  *)
Searched(auths, repo, f, n) == f = [i \in 0 .. n |-> Found(auths, repo, f, i)]

(* The search has a result for a name of any length.                       *)
LEMMA SearchedExists ==
    ASSUME NEW auths, NEW repo, NEW len \in Nat
    PROVE  \E f : Searched(auths, repo, f, len)
<1> DEFINE T == {n \in Nat : ~\E f : Searched(auths, repo, f, n)}
<1>1. SUFFICES ASSUME T # {} PROVE FALSE
  OBVIOUS
<1>2. T \subseteq Nat
  OBVIOUS
<1>3. PICK n \in T : \A m \in T : n <= m
  BY <1>1, <1>2, LeastElement
<1>4. n \in Nat /\ ~\E f : Searched(auths, repo, f, n)
  BY <1>3
<1>5. CASE n = 0
  <2> DEFINE g == [i \in 0 .. 0 |-> Login(auths, repo)]
  <2>1. \A i \in 0 .. 0 : Found(auths, repo, g, i) = Login(auths, repo)
    BY DEF Found
  <2>2. Searched(auths, repo, g, 0)
    BY <2>1 DEF Searched
  <2> QED
    BY <1>4, <1>5, <2>2
<1>6. CASE n # 0
  <2>1. n - 1 \in Nat /\ n - 1 \notin T
    BY <1>3, <1>4, <1>6
  <2>2. PICK f : Searched(auths, repo, f, n - 1)
    BY <2>1
  <2> DEFINE g == [i \in 0 .. n |-> Found(auths, repo, f, i)]
  <2>3. ASSUME NEW i \in 0 .. n PROVE Found(auths, repo, g, i) = Found(auths, repo, f, i)
    <3>1. CASE i = 0
      BY <3>1 DEF Found
    <3>2. CASE i # 0
      <4>1. i - 1 \in 0 .. (n - 1) /\ i - 1 \in 0 .. n
        BY <1>4, <3>2
      <4>2. f[i - 1] = Found(auths, repo, f, i - 1)
        BY <2>2, <4>1 DEF Searched
      <4>3. g[i - 1] = f[i - 1]
        BY <4>1, <4>2
      <4> HIDE DEF g
      <4> QED
        BY <4>3, <3>2 DEF Found
    <3> QED
      BY <3>1, <3>2
  <2>4. g = [i \in 0 .. n |-> Found(auths, repo, g, i)]
    BY <2>3
  <2> HIDE DEF g
  <2>5. Searched(auths, repo, g, n)
    BY <2>4 DEF Searched
  <2> QED
    BY <1>4, <2>5
<1> QED
  BY <1>5, <1>6

(* So findAuth is the result for the whole name.                           *)
LEMMA FindAuthSearches ==
    ASSUME NEW auths, NEW repo, Len(repo) \in Nat
    PROVE  \E f : Searched(auths, repo, f, Len(repo)) /\ findAuth(auths, repo) = f[Len(repo)]
<1> DEFINE f == CHOOSE h : Searched(auths, repo, h, Len(repo))
<1>1. Searched(auths, repo, f, Len(repo))
  BY SearchedExists
<1>2. findAuth(auths, repo) = f[Len(repo)]
  BY DEF findAuth, Searched, Found, Key, Login
<1> HIDE DEF f
<1> QED
  BY <1>1, <1>2

(* The first n parts of a name have the token of the longest of their      *)
(* prefixes that has an entry, or else that of the login name.             *)
Nearest(auths, repo, token, n) ==
    \/ \E m \in 1 .. n : /\ Key(repo, m) \in DOMAIN auths /\ token = auths[Key(repo, m)]
                         /\ \A k \in 1 .. n : Key(repo, k) \in DOMAIN auths => k <= m
    \/ (\A k \in 1 .. n : Key(repo, k) \notin DOMAIN auths) /\ token = Login(auths, repo)

(* findAuth returns the entry of the longest part of the name that has one,*)
(* for names of any length.                                                *)
LEMMA FindAuthNearest ==
    ASSUME NEW auths, NEW repo, Len(repo) \in Nat
    PROVE  Nearest(auths, repo, findAuth(auths, repo), Len(repo))
<1>1. PICK f : Searched(auths, repo, f, Len(repo)) /\ findAuth(auths, repo) = f[Len(repo)]
  BY FindAuthSearches
<1> DEFINE T == {n \in 0 .. Len(repo) : ~Nearest(auths, repo, f[n], n)}
<1>2. SUFFICES ASSUME T # {} PROVE FALSE
  BY <1>1
<1>3. T \subseteq Nat
  OBVIOUS
<1>4. PICK n \in T : \A m \in T : n <= m
  BY <1>2, <1>3, LeastElement
<1>5. n \in 0 .. Len(repo) /\ ~Nearest(auths, repo, f[n], n)
  BY <1>4
<1>6. f[n] = Found(auths, repo, f, n)
  BY <1>1, <1>5 DEF Searched
<1>7. CASE n = 0
  <2>1. f[n] = Login(auths, repo)
    BY <1>6, <1>7 DEF Found
  <2>2. 1 .. 0 = {}
    OBVIOUS
  <2> QED
    BY <1>5, <1>7, <2>1, <2>2 DEF Nearest
<1>8. CASE n # 0 /\ Key(repo, n) \in DOMAIN auths
  <2>1. f[n] = auths[Key(repo, n)]
    BY <1>6, <1>8 DEF Found
  <2>2. n \in 1 .. n /\ \A k \in 1 .. n : k <= n
    BY <1>5, <1>8
  <2> QED
    BY <1>5, <1>8, <2>1, <2>2 DEF Nearest
<1>9. CASE n # 0 /\ Key(repo, n) \notin DOMAIN auths
  <2>1. f[n] = f[n - 1]
    BY <1>6, <1>9 DEF Found
  <2>2. n - 1 \in 0 .. Len(repo) /\ ~(n <= n - 1)
    BY <1>5, <1>9
  <2>3. Nearest(auths, repo, f[n - 1], n - 1)
    BY <1>4, <2>2
  <2>4. 1 .. n = (1 .. (n - 1)) \union {n}
    BY <1>5, <1>9
  <2>5. Nearest(auths, repo, f[n - 1], n)
    BY <1>9, <2>3, <2>4 DEF Nearest
  <2> QED
    BY <1>5, <2>1, <2>5
<1> QED
  BY <1>7, <1>8, <1>9

(* Parts of a name are told apart by their lengths.                        *)
LEMMA KeyLength ==
    ASSUME NEW repo \in Seq(STRING), NEW m \in 1 .. Len(repo)
    PROVE  Len(Key(repo, m)) = m
BY SubSeqProperties DEF Key

(* From when the credentials have been selected they are those of the      *)
(* image, and there are some.                                              *)
AuthFits ==
    /\ pc \in {"search", "verify"} => pushed = "none"
    /\ pushed # "none" \/ pc \in {"create", "write config", "stage", "copy", "chdir", "oras push"} =>
          /\ registryAuth = SelectRegistryAuth(params.imageUrl, params.auths)
          /\ registryAuth # NoAuth

(* The selected credentials are those of the nearest entry.                *)
LEMMA SelectsNearest ==
    ASSUME TypeOK, AuthFits
    PROVE  MostSpecificCredentials
<1> SUFFICES ASSUME pushed # "none" PROVE MostSpecificCredentials
  BY DEF MostSpecificCredentials
<1> DEFINE repo == params.imageUrl.name
           auths == params.auths
           Prefix(k) == Len(k) <= Len(repo) /\ k = SubSeq(repo, 1, Len(k))
           keys == {k \in DOMAIN auths : Prefix(k)}
           Longest(k) == \A j \in keys : Len(j) <= Len(k)
           token == IF keys # {} THEN auths[CHOOSE k \in keys : Longest(k)]
                    ELSE auths[registryIndexDockerIO]
           found == findAuth(auths, repo)
<1>1. /\ repo \in Seq(STRING) /\ repo # <<>>
      /\ DOMAIN auths \subseteq Seq(STRING) \ {<<>>}
  BY PushContainerfileAssumption DEF TypeOK
<1>2. Len(repo) \in Nat
  BY <1>1
<1>3. found # NoToken /\ registryAuth = [registry |-> repo[1], token |-> found]
  BY DEF AuthFits, SelectRegistryAuth, GetImageName
<1>4. Nearest(auths, repo, found, Len(repo))
  BY <1>2, FindAuthNearest
<1> HIDE DEF found, auths, repo
<1>5. ASSUME NEW k \in keys
      PROVE  Len(k) \in 1 .. Len(repo) /\ k = Key(repo, Len(k)) /\ Key(repo, Len(k)) \in DOMAIN auths
  <2>1. k \in Seq(STRING) /\ k # <<>> /\ Len(k) <= Len(repo) /\ k = Key(repo, Len(k))
    BY <1>1 DEF Key
  <2>2. Len(k) \in Nat /\ Len(k) # 0
    BY <2>1, EmptySeq
  <2> QED
    BY <1>2, <2>1, <2>2
<1>6. ASSUME NEW m \in 1 .. Len(repo), Key(repo, m) \in DOMAIN auths
      PROVE  Key(repo, m) \in keys /\ Len(Key(repo, m)) = m
  <2>1. Len(Key(repo, m)) = m
    BY <1>1, KeyLength
  <2>2. m <= Len(repo)
    BY <1>2
  <2> QED
    BY <1>6, <2>1, <2>2 DEF Key
<1>7. CASE \A k \in 1 .. Len(repo) : Key(repo, k) \notin DOMAIN auths
  <2>1. keys = {}
    BY <1>5, <1>7
  <2>2. found = Login(auths, repo)
    BY <1>4, <1>7 DEF Nearest
  <2>3. repo[1] = registryDockerIO /\ found = auths[registryIndexDockerIO]
    BY <1>3, <2>2 DEF Login
  <2>4. token = found
    BY <2>1, <2>3
  <2> QED
    BY <1>3, <2>1, <2>3, <2>4 DEF MostSpecificCredentials, repo, auths
<1>8. CASE \E k \in 1 .. Len(repo) : Key(repo, k) \in DOMAIN auths
  <2>1. PICK m \in 1 .. Len(repo) :
           /\ Key(repo, m) \in DOMAIN auths /\ found = auths[Key(repo, m)]
           /\ \A k \in 1 .. Len(repo) : Key(repo, k) \in DOMAIN auths => k <= m
    BY <1>4, <1>8 DEF Nearest
  <2>2. Key(repo, m) \in keys /\ Len(Key(repo, m)) = m
    BY <1>6, <2>1
  <2>3. Longest(Key(repo, m))
    BY <1>5, <2>1, <2>2
  <2>4. ASSUME NEW k \in keys, Longest(k) PROVE k = Key(repo, m)
    <3>1. m <= Len(k)
      BY <2>2, <2>4
    <3>2. Len(k) <= m /\ Len(k) \in Nat
      BY <1>5, <2>1
    <3>3. m \in Nat
      BY <1>2
    <3>4. \A a, b \in Nat : a <= b /\ b <= a => a = b
      OBVIOUS
    <3> HIDE DEF keys, Longest
    <3>5. Len(k) = m
      BY <3>1, <3>2, <3>3, <3>4
    <3> QED
      BY <1>5, <3>5
  <2>5. token = found
    <3> HIDE DEF keys, Longest
    <3>1. (CHOOSE k \in keys : Longest(k)) = Key(repo, m)
      BY <2>2, <2>3, <2>4
    <3> QED
      BY <2>1, <2>2, <3>1
  <2>6. keys # {}
    BY <2>2
  <2> QED
    BY <1>3, <2>5, <2>6 DEF MostSpecificCredentials, repo, auths
<1> QED
  BY <1>7, <1>8

(* A push uses the token of the most specific entry of the auth file, and  *)
(* offers it to the registry of the image only, whatever the names and the *)
(* entries are.                                                            *)
THEOREM CredentialsAlwaysMostSpecific == Spec => []MostSpecificCredentials
<1>1. Init => AuthFits
  BY DEF Init, AuthFits
<1>2. TypeOK /\ AuthFits /\ [Next]_vars => AuthFits'
  <2> SUFFICES ASSUME TypeOK, AuthFits, [Next]_vars PROVE AuthFits'
    OBVIOUS
  <2> USE DEF Return, AuthFits
  <2>1. CASE SearchDockerfile
    BY <2>1 DEF SearchDockerfile
  <2>2. CASE VerifyAndSelectAuth
    BY <2>2 DEF VerifyAndSelectAuth
  <2>3. CASE CreateConfig \/ MakeWorkDir \/ CopyContainerfile \/ Chdir
    BY <2>3 DEF CreateConfig, MakeWorkDir, CopyContainerfile, Chdir
  <2>4. CASE WriteConfig \/ OrasPush
    BY <2>4 DEF WriteConfig, OrasPush
  <2>5. CASE PrintResults \/ WriteResult \/ Fail
    BY <2>5 DEF PrintResults, WriteResult, Fail
  <2>6. CASE Unwind \/ End \/ Kill
    BY <2>6 DEF Unwind, End, Kill
  <2>7. CASE UNCHANGED vars
    BY <2>7 DEF vars
  <2> QED
    BY <2>1, <2>2, <2>3, <2>4, <2>5, <2>6, <2>7 DEF Next, Terminated
<1>3. TypeOK /\ AuthFits => MostSpecificCredentials
  BY SelectsNearest
<1> QED
  BY <1>1, <1>2, <1>3, TypeCorrect, PTL DEF Spec
================================================================================
