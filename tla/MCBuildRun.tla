------------------------------- MODULE MCBuildRun -------------------------------
(***************************************************************************)
(* Two builds on one host: both copies in the prefetch directory, both at  *)
(* the same fixed path, or one of each; pre-registering or not.            *)
(***************************************************************************)
EXTENDS BuildRun, TLC

CONSTANTS b1, b2

Symmetry == Permutations(Builds)

Plain == [prefetch |-> "default copy", yumRepos |-> FALSE, rhsm |-> "none", inject |-> TRUE,
          syft |-> FALSE, push |-> TRUE]

SomeParams == {[Plain EXCEPT !.rhsm = "entitlements", !.push = FALSE],
               [Plain EXCEPT !.prefetch = "fixed copy", !.yumRepos = TRUE, !.rhsm = "preregister"],
               [Plain EXCEPT !.prefetch = "none", !.rhsm = "preregister", !.inject = FALSE, !.syft = TRUE]}
================================================================================
