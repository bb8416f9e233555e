------------------------------- MODULE MCPrefetch -------------------------------
(***************************************************************************)
(* Four hosts; the runs on each differ in what they do with one part of    *)
(* it: the configuration file, the git credentials, the registration and   *)
(* the packages of the input, the proxies of the cluster.                  *)
(***************************************************************************)
EXTENDS Prefetch, TLC

Word(w) == [json |-> FALSE, word |-> w]
Json(v) == [json |-> TRUE, value |-> v]
OtherOptions == [given |-> TRUE, other |-> TRUE, hasSSL |-> FALSE, ssl |-> <<>>]
OwnSSL == [given |-> TRUE, other |-> TRUE, hasSSL |-> TRUE,
           ssl |-> [client_key |-> <<"user", 0>>, ssl_verify |-> <<"user", 0>>]]
Rpm == Object("rpm", NoOptions)
Pip == Object("pip", NoOptions)

(* A list, and an object whose packages are a list; the last input has     *)
(* packages within a package, and packages that are no list.               *)
Listed(items) == (<<>> :> List) @@ [p \in {<<i>> : i \in DOMAIN items} |-> items[p[1]]]
WithPackages(type, items) ==
    (<<>> :> Object(type, NoOptions)) @@ (<<0>> :> List)
    @@ [p \in {<<0, i>> : i \in DOMAIN items} |-> items[p[2]]]

Inputs == {Word("rpm"), Word("pip"), Json(Only(Scalar)), Json(Only(Rpm)),
           Json(Listed(<<Object("rpm", OwnSSL), Pip>>)), Json(Listed(<<Pip>>)),
           Json(WithPackages("none", <<Object("rpm", OtherOptions), Pip, Rpm>>)),
           Json(WithPackages("rpm", <<Pip>>)),
           Json(Listed(<<Rpm, Rpm>>) @@ (<<1, 0>> :> List) @@ (<<1, 0, 1>> :> Rpm)
                @@ (<<2, 0>> :> Object("rpm", OwnSSL)))}

Base == [input |-> Word("pip"), configFile |-> FALSE, gitAuth |-> "none", rhsm |-> FALSE,
         enableProxy |-> FALSE, root |-> TRUE, envFiles |-> 1]

(* The configuration files of three or four lines over these in which an   *)
(* indented line belongs to a block.                                       *)
Lines == {Line("gomod", FALSE), Line("npm", FALSE), Line("goproxy_url", FALSE), Line("", FALSE),
          Line("proxy_url", TRUE), Line("other", TRUE)}
AllConfigFiles == {lines \in UNION {[1..n -> Lines] : n \in 3..4} : WellFormed(lines)}

NoCluster == [prefetch |-> {}, cacheProxy |-> {}, clusters |-> {}, configFiles |-> {<<>>}]

MCHosts ==
    [config      |-> [NoCluster EXCEPT
                        !.prefetch = {[Base EXCEPT !.configFile = TRUE], [Base EXCEPT !.input = Word("")]},
                        !.configFiles = AllConfigFiles],
     credentials |-> [NoCluster EXCEPT
                        !.prefetch = {[Base EXCEPT !.gitAuth = g, !.root = r] :
                            g \in {"none", "files", "password", "unknown"}, r \in BOOLEAN}],
     packages    |-> [NoCluster EXCEPT
                        !.prefetch = {[Base EXCEPT !.input = i, !.rhsm = s, !.root = r, !.gitAuth = g] :
                            i \in Inputs, s \in BOOLEAN, r \in BOOLEAN, g \in {"none", "files"}}],
     proxies     |-> [NoCluster EXCEPT
                        !.prefetch = {[Base EXCEPT !.enableProxy = e, !.envFiles = 2] : e \in BOOLEAN},
                        !.cacheProxy =
                            [enable: {"true", "false"},
                             defaults: [allowed: {FALSE}, httpProxy: {"default"}, noProxy: {"", "default"}]],
                        !.clusters =
                            [readable: {TRUE}, allowCacheProxy: {"", "true", "false", "junk"},
                             httpProxy: {"", "cluster"}, noProxy: {"", "cluster"},
                             allowPackageRegistryProxy: {"", "true", "false", "junk"},
                             packageProxies: {{}, {"gomod", "npm"}}]]]
================================================================================
