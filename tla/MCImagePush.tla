------------------------------ MODULE MCImagePush ------------------------------
(***************************************************************************)
(* Two builds of the same output tag: on one host (a rerun, which finds    *)
(* what a killed run left there) or on two (concurrent, with the same or   *)
(* different suffixes), dual or single, with and without an additional tag *)
(* and an index manifest file.                                             *)
(***************************************************************************)
EXTENDS ImagePush

Dual(h, ts, w) == [host |-> h, outputTag |-> "latest", additionalTags |-> ts,
                   compression |-> "dual", indexManifestOutput |-> w]

SomeParams == {Dual("h1", <<"v1">>, TRUE), Dual("h2", <<>>, FALSE),
               [Dual("h2", <<"v1">>, FALSE) EXCEPT !.compression = "zstd"]}
================================================================================
