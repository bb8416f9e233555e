-------------------------------- MODULE Retryer --------------------------------
(***************************************************************************)
(* The retry loop around every call of an external tool that talks to a    *)
(* registry, a git server or the subscription service                      *)
(* (pkg/cliwrappers/cli_retryer.go).  One behaviour is one call of Run:    *)
(* the command is executed, its reply judged, and either the loop returns  *)
(* that reply or it sleeps and executes the command again.  Delays are in  *)
(* seconds; an output is the set of stop patterns it would match.          *)
(***************************************************************************)
EXTENDS Integers, Sequences

CONSTANTS Options,    \* the configured Retryers (records built below)
          Patterns,   \* the stop patterns an output can match
          Replies     \* what one execution of the command can answer

VARIABLES opts,       \* the fields of this Retryer
          pc,         \* "call", "judge", "sleep" or "done"
          attempt,    \* the loop variable
          delay,      \* the local variable delay
          reply,      \* stdout, stderr, errCode and err of the last execution
          calls,      \* how many times cliCall has been invoked
          waits,      \* the durations given to time.Sleep so far
          effect      \* has an execution taken effect in the outside world?

vars == <<opts, pc, attempt, delay, reply, calls, waits, effect>>

Retryers == [baseDelay: Nat, delayFactor: Nat \ {0}, maxAttempts: Nat \ {0},
             maxDelay: Nat, stopExitCodes: SUBSET Int,
             stopErrorRegexs: SUBSET Patterns, disabled: BOOLEAN]

ReplySet == [err: BOOLEAN, errCode: Int, stdout: SUBSET Patterns,
             stderr: SUBSET Patterns, effect: BOOLEAN]

(* Every call site leaves MaxAttempts at 3, sets it to 10 or checks that   *)
(* it is at least 1; a tool that exits with 0 has done its work.           *)
ASSUME RetryerAssumption ==
    /\ Options \subseteq Retryers
    /\ Replies \subseteq ReplySet
    /\ \A r \in Replies : ~r.err => r.effect

--------------------------------------------------------------------------------
(* The constructor and the With... and Stop... options.                    *)

NewRetryer == [baseDelay |-> 1, delayFactor |-> 2, maxAttempts |-> 3, maxDelay |-> 0,
               stopExitCodes |-> {}, stopErrorRegexs |-> {}, disabled |-> FALSE]

WithMaxAttempts(r, n) == [r EXCEPT !.maxAttempts = n]

WithConstantDelay(r, d) == [r EXCEPT !.baseDelay = d, !.delayFactor = 1]

StopOnExitCode(r, code) == [r EXCEPT !.stopExitCodes = @ \union {code}]

StopIfOutputContains(r, p) == [r EXCEPT !.stopErrorRegexs = @ \union {p}]

WithImageRegistryPreset(r) ==
    [r EXCEPT !.baseDelay = 1, !.delayFactor = 2, !.maxAttempts = 10, !.maxDelay = 240]

DisableRetryer(r) == [r EXCEPT !.disabled = TRUE]

--------------------------------------------------------------------------------
NoReply == [err |-> FALSE, errCode |-> 0, stdout |-> {}, stderr |-> {}, effect |-> FALSE]

Init == /\ opts \in Options
        /\ pc = "call"
        /\ attempt = 1
        /\ delay = opts.baseDelay
        /\ reply = NoReply
        /\ calls = 0
        /\ waits = <<>>
        /\ effect = FALSE

(* cliCall(): the command runs and answers; the answer may be an error     *)
(* although the command took effect (the reply was lost on the way).       *)
Call == /\ pc = "call"
        /\ \E r \in Replies : reply' = r /\ effect' = (effect \/ r.effect)
        /\ calls' = calls + 1
        /\ pc' = "judge"
        /\ UNCHANGED <<opts, attempt, delay, waits>>

(* A mutant of StopConditionMet: only stderr is searched. *)
StopConditionStderrOnly(o, r) ==
    \/ r.errCode \in o.stopExitCodes
    \/ o.stopErrorRegexs \intersect r.stderr # {}

StopConditionMet(o, r) ==
    \/ r.errCode \in o.stopExitCodes
    \/ o.stopErrorRegexs \intersect (r.stdout \union r.stderr) # {}

(* A mutant of MustReturn: one attempt too many. *)
MustReturnOneLate == \/ opts.disabled
                     \/ ~reply.err
                     \/ StopConditionMet(opts, reply)
                     \/ attempt > opts.maxAttempts

MustReturn == \/ opts.disabled
              \/ ~reply.err
              \/ StopConditionMet(opts, reply)
              \/ attempt = opts.maxAttempts

(* A mutant of Return: the error of the last attempt is shadowed and lost. *)
ReturnLosesError == /\ pc = "judge"
                    /\ MustReturn
                    /\ pc' = "done"
                    /\ reply' = [reply EXCEPT !.err = FALSE]
                    /\ UNCHANGED <<opts, attempt, delay, calls, waits, effect>>

Return == /\ pc = "judge"
          /\ MustReturn
          /\ pc' = "done"
          /\ UNCHANGED <<opts, attempt, delay, reply, calls, waits, effect>>

(* A failed attempt that is neither final nor last: go on to sleep. *)
Fail == /\ pc = "judge"
        /\ ~MustReturn
        /\ pc' = "sleep"
        /\ UNCHANGED <<opts, attempt, delay, reply, calls, waits, effect>>

(* A mutant of NextDelay: the cap is forgotten. *)
NextDelayUncapped(o, d) == d * o.delayFactor

NextDelay(o, d) ==
    LET raised == d * o.delayFactor
    IN  IF o.maxDelay > 0 /\ raised > o.maxDelay THEN o.maxDelay ELSE raised

(* A mutant of Sleep: the loop goes on with the old reply and count. *)
SleepWithoutCall == /\ pc = "sleep"
                    /\ pc' = "judge"
                    /\ UNCHANGED <<opts, attempt, delay, waits, reply, calls, effect>>

Sleep == /\ pc = "sleep"
         /\ waits' = Append(waits, delay)
         /\ delay' = NextDelay(opts, delay)
         /\ attempt' = attempt + 1
         /\ pc' = "call"
         /\ UNCHANGED <<opts, reply, calls, effect>>

Next == Call \/ Return \/ Fail \/ Sleep

(* Run has returned: nothing more happens. *)
Terminated == pc = "done" /\ UNCHANGED vars

Spec == Init /\ [][Next \/ Terminated]_vars

(* The loop runs in the caller's goroutine: it never pauses for ever, and  *)
(* the external tool answers.                                              *)
FairSpec == Spec /\ WF_vars(Next)

--------------------------------------------------------------------------------
(* The fields of Run and the history variables have their types. *)
TypeOK == /\ opts \in Options
          /\ pc \in {"call", "judge", "sleep", "done"}
          /\ attempt \in Nat \ {0}
          /\ delay \in Nat
          /\ reply \in Replies \union {NoReply}
          /\ calls \in Nat
          /\ waits \in Seq(Nat)
          /\ effect \in BOOLEAN

(* The loop never executes the command more than MaxAttempts times, sleeps *)
(* exactly once between two executions and never after the last one, so    *)
(* giving up does not cost one more delay.                                 *)
BoundedWork == /\ calls <= opts.maxAttempts
               /\ Len(waits) < calls \/ pc = "call"
               /\ pc = "done" => Len(waits) = calls - 1

(* BaseDelay multiplied by DelayFactor before each wait but the first, as  *)
(* if there were no MaxDelay.                                              *)
Raised(o) == LET raised[i \in 1 .. o.maxAttempts] ==
                   IF i = 1 THEN o.baseDelay ELSE raised[i - 1] * o.delayFactor
             IN  raised

Capped(o, d) == IF o.maxDelay > 0 /\ d > o.maxDelay THEN o.maxDelay ELSE d

(* The sleeps of Run follow the documented schedule: the first is          *)
(* BaseDelay, and each later one the delay of exponential growth, cut at   *)
(* MaxDelay when MaxDelay is positive.                                     *)
BackoffSchedule ==
    \A i \in DOMAIN waits :
        waits[i] = IF i = 1 THEN opts.baseDelay ELSE Capped(opts, Raised(opts)[i])

(* The reply of an execution that succeeded, exited with a stop code or    *)
(* printed a stop pattern on either stream is final: the command is never  *)
(* executed again, and Run returns that very reply.                        *)
FinalReply == /\ calls > 0
              /\ \/ ~reply.err
                 \/ reply.errCode \in opts.stopExitCodes
                 \/ \E p \in opts.stopErrorRegexs : p \in reply.stdout \/ p \in reply.stderr

FinalReplyIsReturned == [][FinalReply => calls' = calls /\ reply' = reply]_vars

(* Run keeps the promise of RetriedCall: it answers "ok" only for a        *)
(* command that took effect, and it answers once.                          *)
RC == INSTANCE RetriedCall WITH
        answer <- IF pc # "done" THEN "none" ELSE IF reply.err THEN "error" ELSE "ok"

KeepsRetriedCallPromise == RC!Spec

(* Run returns, whatever the command answers. *)
RunReturns == <>(pc = "done")
================================================================================
