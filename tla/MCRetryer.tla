------------------------------- MODULE MCRetryer -------------------------------
(***************************************************************************)
(* Every Retryer the wrappers configure, with git's attempts from 1 to     *)
(* MaxFetchAttempts, a Retryer with a constant delay and a disabled one,   *)
(* against every reply: success or failure, a stop code or another code,   *)
(* at most one stop pattern on stdout or stderr, effect or no effect.      *)
(***************************************************************************)
EXTENDS CliRetryPolicies

CONSTANT MaxFetchAttempts

AllPatterns == {"unauthorized", "authentication required", "Authentication failed",
                "unsupported config media type", "no image found in image index",
                "unrelated"} \union FetchPolicy(1).stopErrorRegexs

CallSites ==
    {RegisterPolicy, CopyPolicy, InspectPolicy, PushPolicy, PullPolicy,
     WithConstantDelay(WithMaxAttempts(NewRetryer, 4), 5), DisableRetryer(PushPolicy)}
    \union {FetchPolicy(n) : n \in 0..MaxFetchAttempts}

Outputs == {{}} \union {{p} : p \in AllPatterns}

AllReplies ==
    {[err |-> FALSE, errCode |-> 0, stdout |-> o, stderr |-> {}, effect |-> TRUE] :
        o \in {{}, {"unauthorized"}}}
    \union
    {[err |-> TRUE, errCode |-> c, stdout |-> {}, stderr |-> {}, effect |-> e] :
        c \in {-1, 1, 128}, e \in BOOLEAN}
    \union
    {[err |-> TRUE, errCode |-> 1, stdout |-> {}, stderr |-> o, effect |-> FALSE] :
        o \in Outputs}
    \union
    {[err |-> TRUE, errCode |-> 1, stdout |-> o, stderr |-> {}, effect |-> TRUE] :
        o \in Outputs}
================================================================================
