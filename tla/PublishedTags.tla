----------------------------- MODULE PublishedTags -----------------------------
(***************************************************************************)
(* What pushing an image promises to the users of a repository: a tag      *)
(* always names the complete image of one build, a tag changes in one      *)
(* step, and a build reports success only after it has published all the   *)
(* tags it was asked for.                                                  *)
(***************************************************************************)
CONSTANTS Builds, Tags

VARIABLES wanted,      \* the tags each build was asked to publish
          names,       \* the build whose complete image a tag names, or NoBuild
          published,   \* the tags each build has published so far
          reported     \* the builds that reported success

NoBuild == "no build"

pvars == <<wanted, names, published, reported>>

Init == /\ wanted \in [Builds -> SUBSET Tags]
        /\ names = [t \in Tags |-> NoBuild]
        /\ published = [b \in Builds |-> {}]
        /\ reported = {}

Publish(b, t) == /\ b \notin reported
                 /\ names' = [names EXCEPT ![t] = b]
                 /\ published' = [published EXCEPT ![b] = @ \union {t}]
                 /\ UNCHANGED <<wanted, reported>>

Report(b) == /\ published[b] = wanted[b]
             /\ reported' = reported \union {b}
             /\ UNCHANGED <<wanted, names, published>>

(* The push that publishes the last tag can also report. *)
PublishAndReport(b, t) == /\ b \notin reported
                          /\ published[b] \union {t} = wanted[b]
                          /\ names' = [names EXCEPT ![t] = b]
                          /\ published' = [published EXCEPT ![b] = @ \union {t}]
                          /\ reported' = reported \union {b}
                          /\ UNCHANGED wanted

Next == \E b \in Builds : \/ Report(b)
                          \/ \E t \in wanted[b] : Publish(b, t) \/ PublishAndReport(b, t)

Spec == Init /\ [][Next]_pvars
================================================================================
