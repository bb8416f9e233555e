--------------------------- MODULE PushContainerfile ---------------------------
(***************************************************************************)
(* PushContainerfile.Run (pkg/commands/push_containerfile.go): find the    *)
(* containerfile, write the registry credentials to a temporary file, move *)
(* to the directory of the containerfile (or of a renamed copy), push it   *)
(* with oras and write the reference of the artifact.  What was set up is  *)
(* undone by deferred calls, in reverse order, on every way out.           *)
(***************************************************************************)
EXTENDS Naturals, Sequences, RegistryAuth

CONSTANT ParamSet     \* the parameters the command may be started with

(* AlternativeFilename is set or not; ResultPathImageRef is empty, an      *)
(* absolute path or a path relative to the directory of the caller; auths  *)
(* is what ~/.docker/config.json holds.  A name has a part before its      *)
(* first slash, even when that part is the empty string.                   *)
ASSUME PushContainerfileAssumption ==
    \A p \in ParamSet : /\ p.alternativeFilename \in BOOLEAN
                        /\ p.resultPath \in {"none", "absolute", "relative"}
                        /\ p.imageUrl.name \in Seq(STRING) \ {<<>>}
                        /\ DOMAIN p.auths \subseteq Seq(STRING) \ {<<>>}
                        /\ \A key \in DOMAIN p.auths : p.auths[key] \in STRING

VARIABLES params,
          pc,
          defers,      \* the deferred calls, the one to run first at the head
          cwd,         \* working directory: "caller", "source" or "temp"
          registryAuth, \* the credentials selected for the image
          config,      \* registry config file: "none", "empty" or "written"
          tempDir,     \* the entries of workDir; {} when it does not exist
          pushed,      \* the file name the artifact was pushed with, or "none"
          printed,     \* have the results been printed?
          resultIn,    \* the directory the result file is in, or "none"
          outcome,     \* "none", then "ok" or "error"
          excused      \* history: what could not be undone

vars == <<params, pc, defers, cwd, registryAuth, config, tempDir, pushed, printed, resultIn, outcome,
          excused>>

Init == /\ params \in ParamSet
        /\ pc = "search"
        /\ defers = <<>>
        /\ cwd = "caller"
        /\ registryAuth = NoAuth
        /\ config = "none"
        /\ tempDir = {}
        /\ pushed = "none"
        /\ printed = FALSE
        /\ resultIn = "none"
        /\ outcome = "none"
        /\ excused = {}

Defer(call) == defers' = <<call>> \o defers

(* Any step may fail: Run returns the error and the deferred calls run. *)
Return(result) == outcome' = result /\ pc' = "unwind"

Fail == /\ pc \notin {"write config", "oras push", "unwind", "end", "killed"}
        /\ Return("error")
        /\ UNCHANGED <<params, registryAuth, defers, cwd, config, tempDir, pushed, printed, resultIn, excused>>

--------------------------------------------------------------------------------
(* validateParams, SearchDockerfile: no containerfile is not an error. *)
SearchDockerfile ==
    /\ pc = "search"
    /\ \/ pc' = "verify" /\ UNCHANGED outcome
       \/ Return("ok")
    /\ UNCHANGED <<params, registryAuth, defers, cwd, config, tempDir, pushed, printed, resultIn, excused>>

(* verifyContainerfileIsInSourceDir and the selection of the credentials;  *)
(* without credentials Run fails before anything is written.               *)
VerifyAndSelectAuth ==
    /\ pc = "verify"
    /\ registryAuth' = SelectRegistryAuth(params.imageUrl, params.auths)
    /\ IF registryAuth' = NoAuth THEN Return("error") ELSE pc' = "create" /\ UNCHANGED outcome
    /\ UNCHANGED <<params, defers, cwd, config, tempDir, pushed, printed, resultIn, excused>>

CreateConfig ==
    /\ pc = "create"
    /\ config' = "empty"
    /\ pc' = "write config"
    /\ UNCHANGED <<params, registryAuth, defers, cwd, tempDir, pushed, printed, resultIn, outcome, excused>>

(* The removal is deferred only once the file is written and closed; an    *)
(* error of either leaves it, with or without the credentials.             *)
WriteConfig ==
    /\ pc = "write config"
    /\ \/ /\ config' = "written"
          /\ Defer("remove config")
          /\ pc' = "stage"
          /\ UNCHANGED <<outcome, excused>>
       \/ /\ config' \in {"empty", "written"}
          /\ excused' = excused \union {"config"}
          /\ Return("error")
          /\ UNCHANGED defers
    /\ UNCHANGED <<params, registryAuth, cwd, tempDir, pushed, printed, resultIn>>

(* A renamed copy is made in a new directory; the containerfile itself is  *)
(* pushed from where it is.                                                *)
MakeWorkDir ==
    /\ pc = "stage"
    /\ IF params.alternativeFilename
       THEN tempDir' = {"."} /\ Defer("remove workDir") /\ pc' = "copy"
       ELSE pc' = "chdir" /\ UNCHANGED <<tempDir, defers>>
    /\ UNCHANGED <<params, registryAuth, cwd, config, pushed, printed, resultIn, outcome, excused>>

CopyContainerfile ==
    /\ pc = "copy"
    /\ tempDir' = tempDir \union {"alternative"}
    /\ pc' = "chdir"
    /\ UNCHANGED <<params, registryAuth, defers, cwd, config, pushed, printed, resultIn, outcome, excused>>

(* A mutant of Chdir: the way back is not deferred. *)
ChdirNoDefer ==
    /\ pc = "chdir"
    /\ cwd' = IF params.alternativeFilename THEN "temp" ELSE "source"
    /\ pc' = "oras push"
    /\ UNCHANGED <<params, registryAuth, defers, config, tempDir, pushed, printed, resultIn, outcome, excused>>

Chdir ==
    /\ pc = "chdir"
    /\ cwd' = IF params.alternativeFilename THEN "temp" ELSE "source"
    /\ Defer("chdir back")
    /\ pc' = "oras push"
    /\ UNCHANGED <<params, registryAuth, config, tempDir, pushed, printed, resultIn, outcome, excused>>

(* A mutant of OrasPush: its error is not noticed. *)
OrasPushErrorIgnored ==
    LET fileName == IF cwd = "temp" THEN "alternative" ELSE "containerfile"
    IN  /\ pc = "oras push"
        /\ pushed' \in {pushed, fileName}
        /\ pc' = "report"
        /\ UNCHANGED <<params, registryAuth, defers, cwd, config, tempDir, printed, resultIn, outcome, excused>>

(* oras push of the file in the working directory; an error may hide that  *)
(* the artifact was stored.                                                *)
OrasPush ==
    LET fileName == IF cwd = "temp" THEN "alternative" ELSE "containerfile"
    IN  /\ pc = "oras push"
        /\ \/ pushed' = fileName /\ pc' = "report" /\ UNCHANGED outcome
           \/ pushed' \in {pushed, fileName} /\ Return("error")
        /\ UNCHANGED <<params, registryAuth, defers, cwd, config, tempDir, printed, resultIn, excused>>

PrintResults ==
    /\ pc = "report"
    /\ printed' = TRUE
    /\ pc' = "write result"
    /\ UNCHANGED <<params, registryAuth, defers, cwd, config, tempDir, pushed, resultIn, outcome, excused>>

(* WriteResultString: a relative path is one of the working directory. *)
WriteResult ==
    /\ pc = "write result"
    /\ resultIn' = CASE params.resultPath = "none" -> "none"
                     [] params.resultPath = "absolute" -> "absolute"
                     [] params.resultPath = "relative" -> cwd
    /\ Return("ok")
    /\ UNCHANGED <<params, registryAuth, defers, cwd, config, tempDir, pushed, printed, excused>>

--------------------------------------------------------------------------------
(* The deferred call that is next; its failure is only logged. *)
Unwind ==
    /\ pc = "unwind"
    /\ defers # <<>>
    /\ LET call == Head(defers)
       IN  /\ defers' = Tail(defers)
           /\ \/ /\ config'  = IF call = "remove config" THEN "none" ELSE config
                 /\ tempDir' = IF call = "remove workDir" THEN {} ELSE tempDir
                 /\ resultIn' = IF call = "remove workDir" /\ resultIn = "temp" THEN "none" ELSE resultIn
                 /\ cwd' = IF call = "chdir back" THEN "caller" ELSE cwd
                 /\ UNCHANGED excused
              \/ /\ excused' = excused \union
                        {CASE call = "remove config" -> "config"
                           [] call = "remove workDir" -> "workDir"
                           [] call = "chdir back" -> "cwd"}
                 /\ UNCHANGED <<config, tempDir, resultIn, cwd>>
    /\ UNCHANGED <<params, registryAuth, pc, pushed, printed, outcome>>

End == /\ pc = "unwind"
       /\ defers = <<>>
       /\ pc' = "end"
       /\ UNCHANGED <<params, registryAuth, defers, cwd, config, tempDir, pushed, printed, resultIn, outcome,
                      excused>>

Kill == /\ pc \notin {"end", "killed"}
        /\ pc' = "killed"
        /\ UNCHANGED <<params, registryAuth, defers, cwd, config, tempDir, pushed, printed, resultIn, outcome,
                       excused>>

Terminated == pc \in {"end", "killed"} /\ UNCHANGED vars

Next == \/ SearchDockerfile \/ VerifyAndSelectAuth \/ CreateConfig \/ WriteConfig \/ MakeWorkDir
        \/ CopyContainerfile \/ Chdir \/ OrasPush \/ PrintResults \/ WriteResult
        \/ Fail \/ Unwind \/ End \/ Kill \/ Terminated

Spec == Init /\ [][Next]_vars

--------------------------------------------------------------------------------
Calls == {"remove config", "remove workDir", "chdir back"}

(* The state of Run and of the files it touches has its type. *)
TypeOK ==
    /\ params \in ParamSet
    /\ pc \in {"search", "verify", "create", "write config", "stage", "copy", "chdir", "oras push",
               "report", "write result", "unwind", "end", "killed"}
    /\ defers \in Seq(Calls)
    /\ cwd \in {"caller", "source", "temp"}
    /\ config \in {"none", "empty", "written"}
    /\ tempDir \subseteq {".", "alternative"}
    /\ pushed \in {"none", "containerfile", "alternative"}
    /\ printed \in BOOLEAN
    /\ resultIn \in {"none", "absolute", "caller", "source", "temp"}
    /\ outcome \in {"none", "ok", "error"}
    /\ excused \subseteq {"config", "workDir", "cwd"}

(* Whatever step failed, when Run has returned the process is back in the  *)
(* caller's directory, the copy is gone and so is the file with the        *)
(* registry credentials, unless undoing that failed or the file could not  *)
(* be written completely.                                                  *)
NothingLeft ==
    pc = "end" => /\ cwd # "caller" => "cwd" \in excused
                  /\ tempDir # {} => "workDir" \in excused
                  /\ config # "none" => "config" \in excused

(* A reported reference names an artifact that is in the registry, with    *)
(* the file name the user asked for.                                       *)
ReportedIsPushed ==
    printed \/ resultIn # "none" =>
        pushed = IF params.alternativeFilename THEN "alternative" ELSE "containerfile"

(* The token that a push uses is the one of the longest part of the        *)
(* repository's name that the auth file has an entry for, the login name   *)
(* of docker.io counting as the shortest; an entry without a token hides   *)
(* the less specific ones, and nothing is pushed.  The token is offered to *)
(* the registry of the image only.                                         *)
MostSpecificCredentials ==
    LET repo == params.imageUrl.name
        Prefix(k) == Len(k) <= Len(repo) /\ k = SubSeq(repo, 1, Len(k))
        keys == {k \in DOMAIN params.auths : Prefix(k)}
        Nearest(k) == \A j \in keys : Len(j) <= Len(k)
        token == IF keys # {} THEN params.auths[CHOOSE k \in keys : Nearest(k)]
                 ELSE params.auths[registryIndexDockerIO]
    IN  pushed # "none" => /\ keys = {} => repo[1] = registryDockerIO
                           /\ token # NoToken
                           /\ registryAuth = [registry |-> repo[1], token |-> token]

(* The usage text of result-path-image-ref: the reference is written into  *)
(* this file, that is, the file of that name for the caller.               *)
ResultWhereAsked ==
    pc = "end" /\ outcome = "ok" /\ pushed # "none" /\ params.resultPath = "relative" =>
        resultIn = "caller"
================================================================================
