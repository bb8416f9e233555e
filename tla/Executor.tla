-------------------------------- MODULE Executor --------------------------------
(***************************************************************************)
(* One call of CliExecutor.Execute (pkg/cliwrappers/cli_executor.go): the  *)
(* caller's goroutine, the two goroutines that drain the pipes, the child  *)
(* process and the bounded kernel pipes between them.  A chunk is what one *)
(* read returns; a "long" chunk completes a line that overflows the line   *)
(* scanner's buffer, after which the scanner reports an error.             *)
(***************************************************************************)
EXTENDS Integers, Sequences

CONSTANTS PipeCapacity,   \* chunks a pipe holds before its writer blocks
          MaxChunks,      \* bound: chunks the child writes to one stream
          ExitStatuses    \* exit statuses of the child; -1: killed by a signal

ASSUME ExecutorAssumption == /\ PipeCapacity \in Nat \ {0}
                             /\ MaxChunks \in Nat
                             /\ ExitStatuses \subseteq Int

Streams == {"stdout", "stderr"}
Chunks  == {"line", "long"}

VARIABLES logOutput, \* c.LogOutput
          caller,    \* its control: "setup", "join", "wait" or "done"
          child,     \* "none", "running", "writing" (inside write(2)) or "exited"
          writing,   \* the stream and chunk of the write(2) in progress
          status,    \* exit status of an exited child
          written,   \* all the child wrote to each stream so far
          pipe,      \* what is in each pipe
          closed,    \* has Wait closed the read ends?
          reader,    \* each drain: "none", "scan", "copy" or "finished"
          failed,    \* did the drain of this stream end with a read error?
          buf,       \* stdoutBuf and stderrBuf
          joined,    \* how many results the caller took from the channel done
          result     \* what Execute returned

childVars == <<child, writing, status, written>>
execVars == <<logOutput, caller, childVars, pipe, closed, reader, failed, buf, joined, result>>

NoWrite  == <<"stdout", "line">>
NoResult == [exitCode |-> 0, err |-> FALSE]

ExecInit == /\ logOutput \in BOOLEAN
            /\ caller = "setup"
            /\ child = "none" /\ writing = NoWrite /\ status = 0
            /\ written = [s \in Streams |-> <<>>]
            /\ pipe = [s \in Streams |-> <<>>]
            /\ closed = FALSE
            /\ reader = [s \in Streams |-> "none"]
            /\ failed = [s \in Streams |-> FALSE]
            /\ buf = [s \in Streams |-> <<>>]
            /\ joined = 0
            /\ result = NoResult

--------------------------------------------------------------------------------
(* The caller's goroutine.                                                 *)

(* StdoutPipe, StderrPipe or Start (inside Run when output is not logged)  *)
(* fails: no child, no drain, exit code -1.                                *)
SetupFails == /\ caller = "setup"
              /\ caller' = "done"
              /\ result' = [exitCode |-> -1, err |-> TRUE]
              /\ UNCHANGED <<logOutput, childVars, pipe, closed, reader, failed, buf, joined>>

(* Start succeeds and both drains start.  With LogOutput the caller goes   *)
(* on to the channel; without it, os/exec copies each pipe into its buffer *)
(* and the caller is inside Run.                                           *)
Start == /\ caller = "setup"
         /\ child' = "running"
         /\ reader' = [s \in Streams |-> IF logOutput THEN "scan" ELSE "copy"]
         /\ caller' = IF logOutput THEN "join" ELSE "wait"
         /\ UNCHANGED <<logOutput, writing, status, written, pipe, closed, failed, buf,
                        joined, result>>

(* errors.Join(<-done, <-done) takes one result per finished drain. *)
Join == /\ caller = "join"
        /\ \E s \in Streams : reader[s] = "finished"
        /\ \/ joined = 0
           \/ \A s \in Streams : reader[s] = "finished"
        /\ joined' = joined + 1
        /\ caller' = IF joined' = 2 THEN "wait" ELSE "join"
        /\ UNCHANGED <<logOutput, childVars, pipe, closed, reader, failed, buf, result>>

(* A mutant of ExitCodeFromError: a read error hides the child's status. *)
ExitCodeReadErrorFirst(st, readErr) ==
    IF readErr THEN [exitCode |-> -1, err |-> TRUE]
    ELSE [exitCode |-> st, err |-> st # 0]

(* getExitCodeFromError of the joined errors: the child's status when it   *)
(* did not exit with 0, else -1 when a read failed, else 0.                *)
ExitCodeFromError(st, readErr) ==
    IF st # 0 THEN [exitCode |-> st, err |-> TRUE]
    ELSE IF readErr THEN [exitCode |-> -1, err |-> TRUE]
    ELSE [exitCode |-> 0, err |-> FALSE]

(* cmd.Wait: reaps the child, (inside Run) awaits os/exec's copies, then   *)
(* closes the read ends, dropping whatever the pipes still hold.           *)
Wait == /\ caller = "wait"
        /\ child = "exited"
        /\ ~logOutput => \A s \in Streams : reader[s] = "finished"
        /\ closed' = TRUE
        /\ pipe' = [s \in Streams |-> <<>>]
        /\ result' = ExitCodeFromError(status, \E s \in Streams : failed[s])
        /\ caller' = "done"
        /\ UNCHANGED <<logOutput, childVars, reader, failed, buf, joined>>

--------------------------------------------------------------------------------
(* The drain of one stream: readStream, or os/exec's copy.                 *)

(* A mutant of Read: no TeeReader, the line that broke the scanner is lost. *)
ReadWithoutTee(s) ==
    /\ reader[s] \in {"scan", "copy"}
    /\ ~closed /\ pipe[s] # <<>>
    /\ pipe' = [pipe EXCEPT ![s] = Tail(@)]
    /\ buf' = [buf EXCEPT ![s] = IF logOutput /\ reader[s] = "scan" /\ Head(pipe[s]) = "long"
                                 THEN @ ELSE Append(@, Head(pipe[s]))]
    /\ reader' = [reader EXCEPT ![s] = IF @ = "scan" /\ Head(pipe[s]) = "long"
                                       THEN "copy" ELSE @]
    /\ UNCHANGED <<logOutput, caller, childVars, closed, failed, joined, result>>

(* One read: TeeReader has the chunk in buf before the scanner sees it, so *)
(* when the scanner gives up on a long line, io.Copy takes over with the   *)
(* next chunk.                                                             *)
Read(s) ==
    /\ reader[s] \in {"scan", "copy"}
    /\ ~closed /\ pipe[s] # <<>>
    /\ pipe' = [pipe EXCEPT ![s] = Tail(@)]
    /\ buf' = [buf EXCEPT ![s] = Append(@, Head(pipe[s]))]
    /\ reader' = [reader EXCEPT ![s] = IF @ = "scan" /\ Head(pipe[s]) = "long"
                                       THEN "copy" ELSE @]
    /\ UNCHANGED <<logOutput, caller, childVars, closed, failed, joined, result>>

(* End of file: the pipe is empty and the child, its only writer, is gone. *)
ReadEOF(s) ==
    /\ reader[s] \in {"scan", "copy"}
    /\ ~closed /\ pipe[s] = <<>> /\ child = "exited"
    /\ reader' = [reader EXCEPT ![s] = "finished"]
    /\ UNCHANGED <<logOutput, caller, childVars, pipe, closed, failed, buf, joined, result>>

(* A mutant of ReadError: the scanner's error ends the drain silently. *)
ReadErrorStopsDrain(s) ==
    /\ reader[s] \in {"scan", "copy"}
    /\ reader' = [reader EXCEPT ![s] = "finished"]
    /\ UNCHANGED <<logOutput, caller, childVars, pipe, closed, failed, buf, joined, result>>

(* A read fails: the scanner stops and io.Copy tries to read on; when      *)
(* io.Copy fails too, the drain ends with "failed to read remaining        *)
(* output" and leaves the pipe as it is.                                   *)
ReadError(s) ==
    /\ reader[s] \in {"scan", "copy"}
    /\ reader' = [reader EXCEPT ![s] = IF @ = "scan" THEN "copy" ELSE "finished"]
    /\ failed' = [failed EXCEPT ![s] = reader[s] = "copy"]
    /\ UNCHANGED <<logOutput, caller, childVars, pipe, closed, buf, joined, result>>

--------------------------------------------------------------------------------
(* The child process, an arbitrary tool: it writes and finally exits.      *)

BeginWrite(s, c) == /\ child = "running"
                    /\ Len(written[s]) < MaxChunks
                    /\ child' = "writing" /\ writing' = <<s, c>>
                    /\ UNCHANGED <<logOutput, caller, status, written, pipe, closed, reader,
                                   failed, buf, joined, result>>

(* write(2) blocks while the pipe is full. *)
EndWrite == LET s == writing[1] IN
            /\ child = "writing"
            /\ Len(pipe[s]) < PipeCapacity
            /\ pipe' = [pipe EXCEPT ![s] = Append(@, writing[2])]
            /\ written' = [written EXCEPT ![s] = Append(@, writing[2])]
            /\ child' = "running" /\ writing' = NoWrite
            /\ UNCHANGED <<logOutput, caller, status, closed, reader, failed, buf, joined, result>>

Exit(st) == /\ child = "running"
            /\ child' = "exited" /\ status' = st
            /\ UNCHANGED <<logOutput, caller, writing, written, pipe, closed, reader, failed,
                           buf, joined, result>>

--------------------------------------------------------------------------------
Caller == SetupFails \/ Start \/ Join \/ Wait

(* A mutant of Drain: stderr is read only after stdout is at its end. *)
DrainInSequence(s) == (s = "stderr" => reader["stdout"] = "finished") /\ (Read(s) \/ ReadEOF(s))

Drain(s) == Read(s) \/ ReadEOF(s)

Child == \/ \E s \in Streams, c \in Chunks : BeginWrite(s, c)
         \/ EndWrite
         \/ \E st \in ExitStatuses : Exit(st)

ExecNext == \/ Caller
            \/ \E s \in Streams : Drain(s) \/ ReadError(s)
            \/ Child

ExecSpec == ExecInit /\ [][ExecNext]_execVars

(* Goroutines and processes that can run are scheduled; the tool's output  *)
(* is finite (MaxChunks) and it exits when it has nothing more to write.   *)
(* Nothing is assumed about read errors.                                   *)
ExecFairSpec == /\ ExecSpec
                /\ WF_execVars(Caller) /\ WF_execVars(Child)
                /\ \A s \in Streams : WF_execVars(Drain(s))

--------------------------------------------------------------------------------
(* The locals of Execute, the pipes and the child have their types. *)
ExecTypeOK == /\ logOutput \in BOOLEAN
              /\ caller \in {"setup", "join", "wait", "done"}
              /\ child \in {"none", "running", "writing", "exited"}
              /\ writing \in Streams \X Chunks
              /\ status \in ExitStatuses \union {0}
              /\ written \in [Streams -> Seq(Chunks)]
              /\ pipe \in [Streams -> Seq(Chunks)]
              /\ closed \in BOOLEAN
              /\ reader \in [Streams -> {"none", "scan", "copy", "finished"}]
              /\ failed \in [Streams -> BOOLEAN]
              /\ buf \in [Streams -> Seq(Chunks)]
              /\ joined \in 0..2 /\ (caller \in {"setup", "join"} => joined < 2)
              /\ result \in [exitCode: Int, err: BOOLEAN]

(* What io.Copy reads continues exactly where the scanner stopped: as long *)
(* as Wait has not closed the pipes, a buffer holds all that was written   *)
(* and is not in the pipe any more, in order and without a gap.            *)
NoGap == ~closed => \A s \in Streams : written[s] = buf[s] \o pipe[s]

(* When Execute returns for a command that was started, and no read failed,*)
(* both streams are complete, also for a command that failed: the Retryer  *)
(* looks for stop patterns in them.  A read error is never reported as a   *)
(* success.                                                                *)
CompleteOutput ==
    caller = "done" /\ child # "none" =>
        /\ \A s \in Streams : buf[s] = written[s] \/ failed[s]
        /\ ~result.err => \A s \in Streams : buf[s] = written[s]

(* Wait closes the pipes only after both drains have finished with them,   *)
(* as the comment before cmd.Wait() demands.                               *)
PipesOutliveDrains == closed => \A s \in Streams : reader[s] = "finished"

(* Execute reports the child's own exit status, and reports success only   *)
(* for a child that was started and exited with 0.                         *)
HonestExitCode ==
    caller = "done" => /\ result.err <=> result.exitCode # 0
                       /\ ~result.err => child = "exited" /\ status = 0
                       /\ child = "exited" /\ status # 0 => result.exitCode = status

(* Execute returns unless a read failed: whatever the child writes to      *)
(* either stream, in whatever order and far beyond the capacity of the     *)
(* pipes, it is never left blocked.                                        *)
ExecuteReturns == <>(caller = "done" \/ \E s \in Streams : failed[s])
================================================================================
