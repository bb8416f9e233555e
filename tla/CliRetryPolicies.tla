---------------------------- MODULE CliRetryPolicies ----------------------------
(***************************************************************************)
(* The Retryers that the wrappers of the external tools configure, one per *)
(* call site in pkg/cliwrappers.                                           *)
(***************************************************************************)
EXTENDS Retryer

(* subscription_manager.go, Register *)
RegisterPolicy == StopIfOutputContains(NewRetryer, "unauthorized")

(* git.go, FetchWithRefspec *)
FetchPolicy(maxAttempts) ==
    LET r0 == IF maxAttempts > 0 THEN WithMaxAttempts(NewRetryer, maxAttempts)
                                 ELSE NewRetryer
        r1 == StopOnExitCode(r0, 128)
    IN  [r1 EXCEPT !.stopErrorRegexs = @ \union
            {"Authentication failed", "could not read Username", "fatal: repository",
             "Permission denied", "Could not resolve hostname"}]

(* skopeo.go, Copy *)
CopyPolicy == StopIfOutputContains(WithImageRegistryPreset(NewRetryer), "unauthorized")

(* skopeo.go, Inspect *)
InspectPolicy == StopIfOutputContains(CopyPolicy, "unsupported config media type")

(* buildah.go, Push and ManifestPush *)
PushPolicy == StopIfOutputContains(CopyPolicy, "authentication required")

(* buildah.go, Pull *)
PullPolicy == StopIfOutputContains(PushPolicy, "no image found in image index")
================================================================================
