------------------------------ MODULE MCGitClone ------------------------------
(* Two commits, the second a descendant of the first, on two branches of two *)
(* repositories; one set of parameters for each way through Run.             *)
EXTENDS GitClone

History == [c \in Commits |-> IF c = "c2" THEN {"c1"} ELSE {}]

Plain == [revision |-> TRUE, refspec |-> FALSE, submodules |-> FALSE, merge |-> "none",
          deleteExisting |-> TRUE, subdirectory |-> FALSE, auth |-> "none", ssh |-> FALSE]

Clones == {
    [Plain EXCEPT !.revision = FALSE, !.subdirectory = TRUE, !.auth = "known"],
    [Plain EXCEPT !.refspec = TRUE, !.submodules = TRUE, !.deleteExisting = FALSE, !.ssh = TRUE],
    [Plain EXCEPT !.merge = "origin", !.auth = "unknown"],
    [Plain EXCEPT !.merge = "origin", !.refspec = TRUE, !.subdirectory = TRUE],
    [Plain EXCEPT !.merge = "merge-source", !.submodules = TRUE, !.auth = "known", !.ssh = TRUE]}
================================================================================
