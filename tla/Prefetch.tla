-------------------------------- MODULE Prefetch --------------------------------
(***************************************************************************)
(* The commands prefetch-dependencies (pkg/commands/prefetch_dependencies) *)
(* and 'config cache-proxy' (pkg/commands/cache_proxy.go), run one after   *)
(* the other on one host.  What a run leaves there is what the next one    *)
(* starts from: the configuration file of hermeto, rewritten in place, the *)
(* git credentials in HOME, the registration with the subscription         *)
(* manager and its entitlement certificates.  Any step may fail, and a run *)
(* may be killed at any point, in the middle of writing a file too.        *)
(***************************************************************************)
EXTENDS KonfluxConfig, HermetoInput, FiniteSetsExt

CONSTANTS Hosts,    \* by name: the runs that may be started on a host, and what they find
          Serials   \* the numbers of the entitlement certificates

(* Of a host: the parameters of its prefetch and cache-proxy runs, the     *)
(* configurations of its cluster, and what hermeto's configuration file    *)
(* may hold at first.                                                      *)

ASSUME PrefetchAssumption ==
    /\ Serials \subseteq Nat /\ IsFiniteSet(Serials)
    /\ \A h \in DOMAIN Hosts :
          /\ \A p \in Hosts[h].prefetch :
                /\ {p.configFile, p.rhsm, p.enableProxy, p.root} \subseteq BOOLEAN
                /\ p.gitAuth \in {"none", "files", "password", "unknown"}
                /\ p.envFiles \in Nat
                /\ p.input.json => IsJson(p.input.value)
          /\ \A p \in Hosts[h].cacheProxy :
                p.defaults \in [allowed: BOOLEAN, httpProxy: STRING, noProxy: STRING]
          /\ Hosts[h].configFiles \subseteq Seq([key: STRING, indented: BOOLEAN])

VARIABLES name,          \* of the host
          original,      \* the configuration file before the first run
          pc,            \* "idle" between runs
          outcome,       \* of the last run: "none", "ok", "error" or "killed"
          raw,           \* the configuration of the cluster, as the run has read it
          params,        \* the parameters of the run
          proxies,       \* HermetoCli.Env
          input,         \* decodedJSONInput
          deferred,      \* is unregisterRHSM deferred?
          envFile,       \* how many env files have been generated
          config,        \* the lines of the configuration file
          home,          \* the git files in HOME, by whose they are
          registration,  \* whose registration the host has
          entitlements,  \* the serials of the keys and certificates in /etc/pki/entitlement
          cacheParams,   \* the parameters of cache-proxy
          cacheProxy,    \* the settings it has decided on
          results,       \* its result files
          torn,          \* history: has writing the configuration file been interrupted?
          excused        \* history: why the registration of the run may still be there

host == <<config, home, registration, entitlements, torn>>
task == <<raw, params, proxies, input, deferred, envFile>>
cache == <<cacheParams, cacheProxy, results>>
vars == <<name, original, pc, outcome, host, task, cache, excused>>

(* The key and the certificate of a serial are two files. *)
Entitlements(keys, certs) == [keys |-> keys, certs |-> certs]
NoEntitlements == Entitlements({}, {})

NoParams == [input |-> [json |-> FALSE, word |-> ""], configFile |-> FALSE, gitAuth |-> "none",
             rhsm |-> FALSE, enableProxy |-> FALSE, root |-> FALSE, envFiles |-> 0]
NoSettings == [allowed |-> FALSE, httpProxy |-> "", noProxy |-> ""]
NoCacheParams == [enable |-> "", defaults |-> NoSettings]
NoResults == [httpProxy |-> "not written", noProxy |-> "not written"]

Init == /\ name \in DOMAIN Hosts
        /\ original \in Hosts[name].configFiles
        /\ pc = "idle" /\ outcome = "none"
        /\ raw = Unreadable
        /\ params = NoParams
        /\ proxies = {}
        /\ input = Only(Scalar)
        /\ deferred = FALSE
        /\ envFile = 0
        /\ config = original
        /\ home = [credentials |-> "none", config |-> "none"]
        /\ registration \in {"nobody", "owner"}
        /\ entitlements = IF registration = "owner" THEN Entitlements(Serials, Serials) ELSE NoEntitlements
        /\ cacheParams = NoCacheParams
        /\ cacheProxy = NoSettings
        /\ results = NoResults
        /\ torn = FALSE
        /\ excused = {}

--------------------------------------------------------------------------------
(* config cache-proxy.                                                     *)

(* GetKonfluxConfig: reading the configuration may fail. *)
StartCacheProxy(p, c) ==
    /\ pc = "idle"
    /\ cacheParams' = p
    /\ raw' = c
    /\ cacheProxy' = CacheProxySettings(c, p.defaults)
    /\ results' = NoResults
    /\ pc' = "write http-proxy"
    /\ outcome' = "none"
    /\ params' = NoParams /\ proxies' = {} /\ input' = Only(Scalar) /\ deferred' = FALSE /\ envFile' = 0
    /\ registration' = IF registration = "this" THEN "earlier" ELSE registration
    /\ excused' = {}
    /\ UNCHANGED <<name, original, config, home, entitlements, torn>>

(* Use the proxy only if both the cluster and the parameter allow it. *)
ProxyInUse == cacheProxy.allowed /\ cacheParams.enable = "true"

(* An error of writing a result is only logged. *)
WriteHttpProxy ==
    /\ pc = "write http-proxy"
    /\ \/ results' = [results EXCEPT !.httpProxy = IF ProxyInUse THEN cacheProxy.httpProxy ELSE ""]
       \/ UNCHANGED results
    /\ pc' = "write no-proxy"
    /\ UNCHANGED <<name, original, outcome, host, task, cacheParams, cacheProxy, excused>>

WriteNoProxy ==
    /\ pc = "write no-proxy"
    /\ \/ results' = [results EXCEPT !.noProxy = IF ProxyInUse THEN cacheProxy.noProxy ELSE ""]
       \/ UNCHANGED results
    /\ pc' = "idle" /\ outcome' = "ok"
    /\ UNCHANGED <<name, original, host, task, cacheParams, cacheProxy, excused>>

CacheProxyStep ==
    \/ \E p \in Hosts[name].cacheProxy, c \in Hosts[name].clusters \union {Unreadable} :
          StartCacheProxy(p, c)
    \/ WriteHttpProxy \/ WriteNoProxy

--------------------------------------------------------------------------------
(* prefetch-dependencies.                                                  *)

(* New: the proxies of the package managers are taken from the cluster's   *)
(* configuration, none if that cannot be read.                             *)
StartPrefetch(p, c) ==
    /\ pc = "idle"
    /\ params' = p
    /\ raw' = c
    /\ p.enableProxy \/ c = Unreadable      \* otherwise it is not read
    /\ proxies' = PackageProxies(c)
    /\ input' = Only(Scalar) /\ deferred' = FALSE /\ envFile' = 0
    /\ pc' = "version" /\ outcome' = "none"
    /\ registration' = IF registration = "this" THEN "earlier" ELSE registration
    /\ cacheParams' = NoCacheParams /\ cacheProxy' = NoSettings /\ results' = NoResults
    /\ excused' = {}
    /\ UNCHANGED <<name, original, config, home, entitlements, torn>>

(* A mutant of Return: the removal of the registration is not deferred. *)
ReturnAtOnce(result) == outcome' = result /\ pc' = "idle"

(* Run returns, through the deferred unregisterRHSM if there is one. *)
Return(result) == outcome' = result /\ pc' = IF deferred THEN "unregister" ELSE "idle"

(* hermeto --version; without an input there is nothing else to do. *)
Version ==
    /\ pc = "version"
    /\ IF params.input = [json |-> FALSE, word |-> ""]
       THEN Return("ok") ELSE pc' = "drop proxy" /\ UNCHANGED outcome
    /\ UNCHANGED <<name, original, host, task, cache, excused>>

(* dropGoProxyFrom: read, drop and write back in place. *)
DropGoProxyStep ==
    /\ pc = "drop proxy"
    /\ config' = IF params.configFile THEN dropGoProxyFrom(config) ELSE config
    /\ pc' = "git credentials"
    /\ UNCHANGED <<name, original, outcome, home, registration, entitlements, torn, task, cache,
                   excused>>

(* os.WriteFile truncates the file first: when it fails, or the process is *)
(* killed meanwhile, a part of the text is left.                           *)
TearConfig ==
    LET text == dropGoProxyFrom(config)
    IN  /\ pc = "drop proxy" /\ params.configFile /\ text # <<>>
        /\ \E n \in 0..(Len(text) - 1) : config' = SubSeq(text, 1, n)
        /\ torn' = TRUE
        /\ pc' = "idle" /\ outcome' \in {"error", "killed"}
        /\ UNCHANGED <<name, original, home, registration, entitlements, task, cache, excused>>

(* The files in HOME are created read-only: only root can write them a     *)
(* second time.                                                            *)
CanWrite(file) == home[file] = "none" \/ params.root

(* setupGitBasicAuth, first half: .git-credentials, copied or made from    *)
(* the user name, the password and the host of the remote.                 *)
WriteGitCredentials ==
    /\ pc = "git credentials"
    /\ CASE params.gitAuth = "none" ->
              pc' = "register" /\ UNCHANGED <<home, outcome>>
         [] params.gitAuth # "none" /\ (params.gitAuth = "unknown" \/ ~CanWrite("credentials")) ->
              Return("error") /\ UNCHANGED home
         [] OTHER ->
              /\ home' = [home EXCEPT !.credentials = params.gitAuth]
              /\ pc' = "git config" /\ UNCHANGED outcome
    /\ UNCHANGED <<name, original, config, registration, entitlements, torn, task, cache, excused>>

(* A mutant of WriteGitConfig: a configuration that is there is kept. *)
KeepGitConfig ==
    /\ pc = "git config"
    /\ home' = IF home.config = "none" THEN [home EXCEPT !.config = params.gitAuth] ELSE home
    /\ pc' = "register"
    /\ UNCHANGED <<name, original, outcome, config, registration, entitlements, torn, task, cache,
                   excused>>

(* setupGitBasicAuth, second half: .gitconfig. *)
WriteGitConfig ==
    /\ pc = "git config"
    /\ IF CanWrite("config")
       THEN /\ home' = [home EXCEPT !.config = params.gitAuth]
            /\ pc' = "register" /\ UNCHANGED outcome
       ELSE Return("error") /\ UNCHANGED home
    /\ UNCHANGED <<name, original, config, registration, entitlements, torn, task, cache, excused>>

(* Either file may be left half-written. *)
TearHome ==
    /\ pc \in {"git credentials", "git config"}
    /\ params.gitAuth \in {"files", "password"}
    /\ LET file == IF pc = "git config" THEN "config" ELSE "credentials"
       IN  CanWrite(file) /\ home' = [home EXCEPT ![file] = "torn"]
    /\ pc' = "idle" /\ outcome' \in {"error", "killed"}
    /\ UNCHANGED <<name, original, config, registration, entitlements, torn, task, cache, excused>>

(* Run parses the input; registerRHSM if it has an rpm package and the     *)
(* options name an organisation and a key.  Register --force replaces the  *)
(* registration of the host and is retried; an error may hide that it took *)
(* effect.  Its removal is deferred only when it returned no error.  The   *)
(* keys or the certificates may be missing.                                *)
RegisterRHSM ==
    LET parsed == parseInput(params.input)
        took == /\ registration' = "this"
                /\ \E S \in SUBSET Serials :
                      entitlements' \in {Entitlements(S, S), Entitlements(S, {}), Entitlements({}, S)}
    IN  /\ pc = "register"
        /\ input' = parsed
        /\ \/ /\ ~containsRPM(parsed)
              /\ pc' = "fetch deps"
              /\ UNCHANGED <<deferred, registration, entitlements, outcome, excused>>
           \/ /\ containsRPM(parsed) /\ ~params.rhsm
              /\ pc' = "inject"
              /\ UNCHANGED <<deferred, registration, entitlements, outcome, excused>>
           \/ /\ containsRPM(parsed) /\ params.rhsm /\ params.root
              /\ took
              /\ deferred' = TRUE /\ pc' = "inject"
              /\ UNCHANGED <<outcome, excused>>
           \/ /\ containsRPM(parsed) /\ params.rhsm /\ params.root
              /\ took
              /\ excused' = {"register"}
              /\ Return("error")
              /\ UNCHANGED deferred
           \/ /\ containsRPM(parsed) /\ params.rhsm      \* not root, no tool, refused
              /\ Return("error")
              /\ UNCHANGED <<deferred, registration, entitlements, excused>>
        /\ UNCHANGED <<name, original, config, home, torn, raw, params, proxies, envFile, cache>>

(* Mutant of ClientKey: the first key is taken. *)
FirstClientKey == Min(entitlements.keys)

(* The files are listed in the order of their names, and the last key and  *)
(* the last certificate are taken.                                         *)
ClientKey == Max(entitlements.keys)
ClientCert == Max(entitlements.certs)

SSL == [client_key |-> <<"key", ClientKey>>, client_cert |-> <<"cert", ClientCert>>,
        ca_bundle |-> <<"ca", 0>>]

(* injectRPMInput: a key and a certificate are needed. *)
InjectRPMInput ==
    /\ pc = "inject"
    /\ IF deferred /\ (entitlements.keys = {} \/ entitlements.certs = {})
       THEN Return("error") /\ UNCHANGED input
       ELSE /\ LET withSummary == injectSummaryInSBOMField(input)
               IN  input' = IF deferred THEN injectSSLOptions(withSummary, SSL) ELSE withSummary
            /\ pc' = "fetch deps" /\ UNCHANGED outcome
    /\ UNCHANGED <<name, original, host, raw, params, proxies, deferred, envFile, cache, excused>>

FetchDeps ==
    /\ pc = "fetch deps"
    /\ pc' = "generate env"
    /\ UNCHANGED <<name, original, outcome, host, task, cache, excused>>

GenerateEnv ==
    /\ pc = "generate env"
    /\ IF envFile < params.envFiles
       THEN envFile' = envFile + 1 /\ UNCHANGED pc
       ELSE pc' = "inject files" /\ UNCHANGED envFile
    /\ UNCHANGED <<name, original, outcome, host, raw, params, proxies, input, deferred, cache,
                   excused>>

InjectFiles ==
    /\ pc = "inject files"
    /\ Return("ok")
    /\ UNCHANGED <<name, original, host, task, cache, excused>>

(* unregisterRHSM: one attempt, whose error is only logged. *)
UnregisterRHSM ==
    /\ pc = "unregister"
    /\ \/ registration' = "nobody" /\ entitlements' = NoEntitlements /\ UNCHANGED excused
       \/ excused' = excused \union {"unregister"} /\ UNCHANGED <<registration, entitlements>>
    /\ pc' = "idle"
    /\ UNCHANGED <<name, original, outcome, config, home, torn, task, cache>>

(* A file cannot be read, or a command fails: the step has no effect that  *)
(* outlives it.                                                            *)
Fail ==
    /\ pc \in {"version", "drop proxy", "git credentials", "git config", "fetch deps", "generate env",
               "inject files"}
    /\ Return("error")
    /\ UNCHANGED <<name, original, host, task, cache, excused>>

(* The process is killed: nothing that was deferred runs. *)
Kill ==
    /\ pc # "idle"
    /\ pc' = "idle" /\ outcome' = "killed"
    /\ UNCHANGED <<name, original, host, task, cache, excused>>

PrefetchStep ==
    \/ \E p \in Hosts[name].prefetch, c \in Hosts[name].clusters \union {Unreadable} :
          StartPrefetch(p, c)
    \/ Version \/ DropGoProxyStep \/ WriteGitCredentials \/ WriteGitConfig \/ RegisterRHSM
    \/ InjectRPMInput \/ FetchDeps \/ GenerateEnv \/ InjectFiles \/ UnregisterRHSM
    \/ TearConfig \/ TearHome \/ Fail \/ Kill

Spec == Init /\ [][CacheProxyStep \/ PrefetchStep]_vars

--------------------------------------------------------------------------------
(* Has a run returned, rather than been killed? *)
Returned == pc = "idle" /\ outcome \in {"ok", "error"}

(* When hermeto fetches, its configuration is the file of the user without *)
(* the Go proxy and with every other setting, the proxies of the other     *)
(* package managers too, however often the file was rewritten by earlier   *)
(* runs.  Two exceptions: writing it was interrupted before, which no      *)
(* later run notices, and a blank line or a comment inside a block.        *)
ConfigOnlyLosesGoProxy ==
    pc = "fetch deps" /\ params.configFile /\ ~torn /\ WellFormed(original) /\ ~Interrupted(original) =>
        config = WithoutGoProxy(original)

(* When hermeto fetches, it reads the same packages as the user gave; each *)
(* rpm package asks for the summary, and after a registration it has the   *)
(* key and the certificate of one entitlement of that registration, which  *)
(* is still in effect, and the other ssl settings of the user.  Nothing    *)
(* but rpm packages is touched, wherever they are in the input.            *)
RpmPackagesPrepared ==
    LET given == parseInput(params.input)
        ssl(v, p) == v[p].options.ssl
    IN  pc = "fetch deps" =>
            /\ DOMAIN input = DOMAIN given /\ Packages(input) = Packages(given)
            /\ \A p \in DOMAIN given : IsRPM(given, p) \/ input[p] = given[p]
            /\ \A p \in Packages(given) : IsRPM(given, p) =>
                  /\ input[p].summary
                  /\ params.rhsm =>
                        /\ registration = "this"
                        /\ ssl(input, p)["client_key"][2] \in entitlements.keys \intersect entitlements.certs
                        /\ ssl(input, p)["client_cert"][2] = ssl(input, p)["client_key"][2]
                        /\ given[p].options.given /\ given[p].options.hasSSL =>
                              \A k \in DOMAIN ssl(given, p) \ {"client_key", "client_cert", "ca_bundle"} :
                                  k \in DOMAIN ssl(input, p) /\ ssl(input, p)[k] = ssl(given, p)[k]

(* A run that has registered the host leaves it unregistered, whatever     *)
(* failed afterwards and whoever's registration an earlier, killed run     *)
(* left, unless unregistering failed; a registration of a run outlives it  *)
(* otherwise only if it took effect without register knowing.              *)
RegistrationRemoved ==
    Returned => /\ deferred => registration = "nobody" \/ "unregister" \in excused
                /\ registration = "this" => excused # {}

(* When hermeto fetches for a run that was given git credentials, HOME     *)
(* holds both files, whole and of the same origin, also after a run with   *)
(* other credentials or one that was interrupted between the two.          *)
OwnGitCredentials ==
    pc = "fetch deps" /\ params.gitAuth # "none" =>
        home = [credentials |-> params.gitAuth, config |-> params.gitAuth]

(* A proxy reaches hermeto or the results of cache-proxy only if the       *)
(* parameter asks for it and the cluster does not forbid it, a text that   *)
(* cannot be parsed included; package proxies need the cluster's explicit  *)
(* consent.  The two results come from one source.                         *)
ProxiesAsAllowed ==
    /\ pc = "fetch deps" /\ proxies # {} =>
          params.enableProxy /\ raw # Unreadable /\ raw.allowPackageRegistryProxy = "true"
    /\ (results.httpProxy \notin {"", "not written"} \/ results.noProxy \notin {"", "not written"}) =>
          /\ cacheParams.enable = "true"
          /\ raw # Unreadable => raw.allowCacheProxy \in {"", "true"}
    /\ (pc = "idle" /\ results.httpProxy # "not written" /\ results.noProxy # "not written") =>
          <<results.httpProxy, results.noProxy>> \in
              {<<"", "">>, <<cacheParams.defaults.httpProxy, cacheParams.defaults.noProxy>>}
              \union (IF raw = Unreadable THEN {} ELSE {<<raw.httpProxy, raw.noProxy>>})
================================================================================
