-------------------------- MODULE MCPushContainerfile --------------------------
(***************************************************************************)
(* Every combination of the parameters that the command tells apart, for a *)
(* repository of docker.io and one of another registry, and auth files     *)
(* with and without entries for the registry, the namespace, a namespace   *)
(* that is not the image's, the repository and the login name of docker.io.*)
(***************************************************************************)
EXTENDS PushContainerfile

Repos == {<<"docker.io", "team", "app">>, <<"quay.io", "team", "app">>}

Keys(repo) == {<<repo[1]>>, <<repo[1], "team">>, <<repo[1], "tea">>, repo, registryIndexDockerIO}

Tokens(keys) == {f \in [keys -> {NoToken, "registry's", "team's", "app's", "login's"}] :
                    \A k \in keys : f[k] \in {NoToken,
                        CASE Len(k) = 1 -> "registry's" [] Len(k) = 2 -> "team's"
                          [] Len(k) = 3 -> "app's" [] Len(k) > 3 -> "login's"}}

AuthFiles(repo) == UNION {Tokens(keys) : keys \in SUBSET Keys(repo)}

AllParams == UNION {[alternativeFilename: BOOLEAN,
                     resultPath: {"none", "absolute", "relative"},
                     imageUrl: {[name |-> repo, tag |-> "v1"]},
                     auths: AuthFiles(repo)] : repo \in Repos}
================================================================================
