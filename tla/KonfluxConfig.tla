------------------------------ MODULE KonfluxConfig ------------------------------
(***************************************************************************)
(* The configuration of the cluster (pkg/config) and what the commands     *)
(* 'config cache-proxy' and 'prefetch-dependencies' make of it.            *)
(*                                                                         *)
(* A raw configuration holds the texts of the config map or the ini file;  *)
(* "" is a key that is not set.  "junk" is a text strconv.ParseBool does   *)
(* not know.  packageProxies is the set of the package managers that have  *)
(* a proxy URL.                                                            *)
(***************************************************************************)

Unreadable == [readable |-> FALSE]

ParseBool(text) == text = "true"       \* false, with an error, for junk

(* A mutant of NewCacheProxyConfig: a text that cannot be parsed is taken  *)
(* for one that is not set.                                                *)
CacheProxyUnlessForbidden(raw) ==
    [allowed   |-> raw.allowCacheProxy # "false",
     httpProxy |-> raw.httpProxy,
     noProxy   |-> raw.noProxy]

(* If unset, the proxy is allowed; the error of ParseBool is only logged. *)
NewCacheProxyConfig(raw) ==
    [allowed   |-> raw.allowCacheProxy = "" \/ ParseBool(raw.allowCacheProxy),
     httpProxy |-> raw.httpProxy,
     noProxy   |-> raw.noProxy]

NewHermetoProxyConfig(raw) ==
    [allowed |-> raw.allowPackageRegistryProxy # "" /\ ParseBool(raw.allowPackageRegistryProxy),
     proxies |-> raw.packageProxies]

(* What cache-proxy goes by: the defaults of its parameters if the cluster *)
(* configuration cannot be read or sets neither proxy.                     *)
CacheProxySettings(raw, defaults) ==
    IF raw = Unreadable THEN [defaults EXCEPT !.allowed = TRUE]
    ELSE LET config == NewCacheProxyConfig(raw)
         IN  IF config.httpProxy = "" /\ config.noProxy = ""
             THEN [defaults EXCEPT !.allowed = config.allowed] ELSE config

(* getPackageProxyConfiguration: the package managers that hermeto's       *)
(* environment gives a proxy.                                              *)
PackageProxies(raw) ==
    IF raw = Unreadable THEN {}
    ELSE LET config == NewHermetoProxyConfig(raw)
         IN  IF config.allowed THEN config.proxies ELSE {}
================================================================================
