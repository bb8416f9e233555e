----------------------------- MODULE PrefetchProofs -----------------------------
(***************************************************************************)
(* Theorems about Prefetch for every set of hosts, with any number of      *)
(* runs, any input and any configuration file, and for every finite set of *)
(* entitlements.                                                           *)
(***************************************************************************)
EXTENDS Prefetch, FiniteSetTheorems, SequenceTheorems, WellFoundedInduction, TLAPS

(* A set of natural numbers that is not empty has a least element: the     *)
(* induction the lemmas below are proved by, in the form of descent.       *)
LEMMA LeastElement ==
    ASSUME NEW T, T \subseteq Nat, T # {}
    PROVE  \E x \in T : \A y \in T : x <= y
<1> DEFINE R == OpToRel(<, Nat)
<1>1. IsWellFoundedOn(R, Nat)
  BY NatLessThanWellFounded
<1>2. \A x, y \in Nat : <<y, x>> \in R <=> y < x
  BY DEF OpToRel
<1> HIDE DEF R
<1>3. PICK x \in T : \A y \in T : ~(<<y, x>> \in R)
  BY <1>1, WFMin
<1>4. ASSUME NEW y \in T PROVE x <= y
  <2>1. x \in Nat /\ y \in Nat
    OBVIOUS
  <2>2. ~(y < x)
    BY <1>2, <1>3, <2>1
  <2> QED
    BY <2>1, <2>2
<1> QED
  BY <1>4

(* The last of the entitlements, of which there are finitely many, is one  *)
(* of them.                                                                *)
LEMMA LastEntitlement ==
    ASSUME NEW S, S \subseteq Nat, IsFiniteSet(S), S # {}
    PROVE  Max(S) \in S
<1> DEFINE Above(x) == {y \in S : y > x}
           T == {Cardinality(Above(x)) : x \in S}
<1>1. \A x \in S : IsFiniteSet(Above(x)) /\ Cardinality(Above(x)) \in Nat
  BY FS_Subset, FS_CardinalityType
<1>2. T \subseteq Nat /\ T # {}
  BY <1>1
<1> HIDE DEF T
<1>3. PICK c \in T : \A d \in T : c <= d
  BY <1>2, LeastElement
<1>4. PICK x \in S : c = Cardinality(Above(x))
  BY DEF T
<1>5. ASSUME NEW y \in S PROVE x >= y
  <2>1. SUFFICES ASSUME y > x PROVE FALSE
    OBVIOUS
  <2>2. Above(y) \subseteq Above(x) /\ y \in Above(x) /\ y \notin Above(y)
    <3>1. x \in Nat /\ y \in Nat /\ \A z \in S : z \in Nat
      OBVIOUS
    <3>2. \A z \in S : z > y => z > x
      BY <2>1, <3>1
    <3>3. ~(y > y)
      BY <3>1
    <3>4. QED
      BY <2>1, <3>2, <3>3
  <2>3. Cardinality(Above(y)) < Cardinality(Above(x))
    BY <1>1, <2>2, FS_Subset, SMTT(40)
  <2>4. Cardinality(Above(y)) \in T
    BY DEF T
  <2>5. QED
    BY <1>1, <1>3, <1>4, <2>3, <2>4
<1>6. QED
  BY <1>5 DEF Max

(* Every run has the parameters of one of the runs of its host. *)
InputInv == /\ name \in DOMAIN Hosts /\ original \in Hosts[name].configFiles
            /\ params \in Hosts[name].prefetch \union {NoParams}
            /\ cacheParams \in Hosts[name].cacheProxy \union {NoCacheParams}

LEMMA InputsKnown == Spec => []InputInv
<1>1. ASSUME Init
      PROVE  InputInv
  BY <1>1 DEF Init, InputInv
<1>2. ASSUME InputInv, [CacheProxyStep \/ PrefetchStep]_vars
      PROVE  InputInv'
  <2>1. ASSUME NEW p \in Hosts[name].cacheProxy, NEW c, StartCacheProxy(p, c)
        PROVE  InputInv'
    BY <1>2, <2>1 DEF InputInv, StartCacheProxy
  <2>2. ASSUME NEW p \in Hosts[name].prefetch, NEW c, StartPrefetch(p, c)
        PROVE  InputInv'
    BY <1>2, <2>2 DEF InputInv, StartPrefetch
  <2>3. \/ \E p \in Hosts[name].cacheProxy, c \in Hosts[name].clusters \union {Unreadable} :
              StartCacheProxy(p, c)
        \/ \E p \in Hosts[name].prefetch, c \in Hosts[name].clusters \union {Unreadable} :
              StartPrefetch(p, c)
        \/ UNCHANGED <<name, original, params, cacheParams>>
    BY <1>2 DEF CacheProxyStep, WriteHttpProxy, WriteNoProxy, PrefetchStep, Version, DropGoProxyStep,
       WriteGitCredentials, WriteGitConfig, RegisterRHSM, InjectRPMInput, FetchDeps, GenerateEnv,
       InjectFiles, UnregisterRHSM, TearConfig, TearHome, Fail, Kill, vars, task, cache
  <2>4. QED
    BY <1>2, <2>1, <2>2, <2>3 DEF InputInv
<1>3. QED
  BY <1>1, <1>2, PTL DEF Spec

--------------------------------------------------------------------------------
(* The steps of prefetch-dependencies; the first ones come before a        *)
(* registration.                                                           *)
BeforeRegistration == {"version", "drop proxy", "git credentials", "git config", "register"}
AfterRegistration == {"inject", "fetch deps", "generate env", "inject files", "unregister"}
CacheProxySteps == {"write http-proxy", "write no-proxy"}

(* The removal of a registration is deferred, or there is an excuse, as    *)
(* soon as there is one; nothing is deferred before, or in cache-proxy.    *)
RegistrationInv ==
    /\ pc \in {"idle"} \union BeforeRegistration \union AfterRegistration \union CacheProxySteps
    /\ registration = "this" => deferred \/ excused # {}
    /\ pc \in BeforeRegistration \union CacheProxySteps => ~deferred
    /\ pc \in CacheProxySteps => registration # "this"
    /\ Returned /\ deferred => registration = "nobody" \/ "unregister" \in excused

(* A registration by prefetch-dependencies does not outlive the run unless *)
(* unregisterRHSM failed or register hid that it took effect: whatever     *)
(* step fails, the deferred call is made.                                  *)
THEOREM RegistrationIsRemoved == Spec => []RegistrationRemoved
<1> USE DEF BeforeRegistration, AfterRegistration, CacheProxySteps, Returned
<1>1. ASSUME Init
      PROVE  RegistrationInv
  BY <1>1 DEF Init, RegistrationInv
<1>2. ASSUME RegistrationInv, [CacheProxyStep \/ PrefetchStep]_vars
      PROVE  RegistrationInv'
  <2>1. CASE CacheProxyStep
    <3>1. ASSUME NEW p, NEW c, StartCacheProxy(p, c) PROVE RegistrationInv'
      BY <1>2, <3>1 DEF RegistrationInv, StartCacheProxy
    <3>2. CASE WriteHttpProxy
      BY <1>2, <3>2 DEF RegistrationInv, WriteHttpProxy, host, task
    <3>3. CASE WriteNoProxy
      BY <1>2, <3>3 DEF RegistrationInv, WriteNoProxy, host, task
    <3>4. QED
      BY <2>1, <3>1, <3>2, <3>3 DEF CacheProxyStep
  <2>2. CASE PrefetchStep
    <3>1. ASSUME NEW p, NEW c, StartPrefetch(p, c) PROVE RegistrationInv'
      BY <1>2, <3>1 DEF RegistrationInv, StartPrefetch
    <3>2. CASE Version
      BY <1>2, <3>2 DEF RegistrationInv, Version, Return, host, task
    <3>3. CASE DropGoProxyStep
      BY <1>2, <3>3 DEF RegistrationInv, DropGoProxyStep, task
    <3>4. CASE WriteGitCredentials
      <4>1. \/ pc' \in {"register", "git config"}
            \/ pc' = "idle" /\ outcome' = "error"
        BY <1>2, <3>4 DEF RegistrationInv, WriteGitCredentials, Return
      <4>2. UNCHANGED <<registration, deferred, excused>> /\ ~deferred
        BY <1>2, <3>4 DEF RegistrationInv, WriteGitCredentials, task
      <4>3. QED
        BY <1>2, <4>1, <4>2 DEF RegistrationInv
    <3>5. CASE WriteGitConfig
      BY <1>2, <3>5 DEF RegistrationInv, WriteGitConfig, Return, task
    <3>6. CASE RegisterRHSM
      <4>1. ~deferred
        BY <1>2, <3>6 DEF RegistrationInv, RegisterRHSM
      <4>2. \/ /\ pc' \in {"fetch deps", "inject"}
               /\ ~deferred' /\ UNCHANGED <<registration, excused>>
            \/ deferred' /\ pc' = "inject"
            \/ pc' = "idle" /\ excused' = {"register"} /\ ~deferred'
            \/ pc' = "idle" /\ ~deferred' /\ UNCHANGED <<registration, excused>>
        BY <3>6, <4>1 DEF RegisterRHSM, Return
      <4>3. QED
        BY <1>2, <4>1, <4>2 DEF RegistrationInv
    <3>7. CASE InjectRPMInput
      BY <1>2, <3>7 DEF RegistrationInv, InjectRPMInput, Return, host
    <3>8. CASE FetchDeps
      BY <1>2, <3>8 DEF RegistrationInv, FetchDeps, host, task
    <3>9. CASE GenerateEnv
      BY <1>2, <3>9 DEF RegistrationInv, GenerateEnv, host
    <3>10. CASE InjectFiles
      BY <1>2, <3>10 DEF RegistrationInv, InjectFiles, Return, host, task
    <3>11. CASE UnregisterRHSM
      BY <1>2, <3>11 DEF RegistrationInv, UnregisterRHSM, task
    <3>12. CASE TearConfig
      BY <1>2, <3>12 DEF RegistrationInv, TearConfig, task
    <3>13. CASE TearHome
      BY <1>2, <3>13 DEF RegistrationInv, TearHome, task
    <3>14. CASE Fail
      BY <1>2, <3>14 DEF RegistrationInv, Fail, Return, host, task
    <3>15. CASE Kill
      BY <1>2, <3>15 DEF RegistrationInv, Kill, host, task
    <3>16. QED
      BY <2>2, <3>1, <3>2, <3>3, <3>4, <3>5, <3>6, <3>7, <3>8, <3>9, <3>10, <3>11, <3>12,
         <3>13, <3>14, <3>15 DEF PrefetchStep
  <2>3. CASE UNCHANGED vars
    BY <1>2, <2>3 DEF RegistrationInv, vars, host, task
  <2>4. QED
    BY <1>2, <2>1, <2>2, <2>3
<1>3. RegistrationInv => RegistrationRemoved
  BY DEF RegistrationInv, RegistrationRemoved
<1>4. QED
  BY <1>1, <1>2, <1>3, PTL DEF Spec

(* The git files in HOME are written one after the other; between the two  *)
(* only the first is the one of this run.                                  *)
HomeInv ==
    /\ home = [credentials |-> home.credentials, config |-> home.config]
    /\ pc = "git config" => home.credentials = params.gitAuth
    /\ pc \in {"register", "inject", "fetch deps"} /\ params.gitAuth # "none" =>
          home.credentials = params.gitAuth /\ home.config = params.gitAuth

(* When hermeto fetches for a run of prefetch-dependencies that was given  *)
(* git credentials, both files in HOME are those of this run: there is no  *)
(* way past setupGitBasicAuth with files of an earlier run, or torn ones.  *)
THEOREM GitCredentialsAreOwn == Spec => []OwnGitCredentials
<1>1. ASSUME Init
      PROVE  HomeInv
  BY <1>1 DEF Init, HomeInv
<1>2. ASSUME HomeInv, [CacheProxyStep \/ PrefetchStep]_vars
      PROVE  HomeInv'
  <2>1. CASE CacheProxyStep
    <3>1. ASSUME NEW p \in Hosts[name].cacheProxy,
                 NEW c \in Hosts[name].clusters \union {Unreadable}, StartCacheProxy(p, c)
          PROVE  HomeInv'
      BY <1>2, <3>1 DEF HomeInv, StartCacheProxy
    <3>2. CASE WriteHttpProxy
      BY <1>2, <3>2 DEF HomeInv, WriteHttpProxy, host, task
    <3>3. CASE WriteNoProxy
      BY <1>2, <3>3 DEF HomeInv, WriteNoProxy, host, task
    <3>4. QED
      BY <2>1, <3>1, <3>2, <3>3 DEF CacheProxyStep
  <2>2. CASE PrefetchStep
    <3>1. ASSUME NEW p \in Hosts[name].prefetch,
                 NEW c \in Hosts[name].clusters \union {Unreadable}, StartPrefetch(p, c)
          PROVE  HomeInv'
      BY <1>2, <3>1 DEF HomeInv, StartPrefetch
    <3>2. CASE Version
      BY <1>2, <3>2 DEF HomeInv, Version, Return, host, task
    <3>3. CASE DropGoProxyStep
      BY <1>2, <3>3 DEF HomeInv, DropGoProxyStep, task
    <3>4. CASE WriteGitCredentials
      BY <1>2, <3>4 DEF HomeInv, WriteGitCredentials, Return, task, CanWrite
    <3>5. CASE WriteGitConfig
      BY <1>2, <3>5 DEF HomeInv, WriteGitConfig, Return, task
    <3>6. CASE RegisterRHSM
      BY <1>2, <3>6 DEF HomeInv, RegisterRHSM, Return
    <3>7. CASE InjectRPMInput
      BY <1>2, <3>7 DEF HomeInv, InjectRPMInput, Return, host
    <3>8. CASE FetchDeps
      BY <1>2, <3>8 DEF HomeInv, FetchDeps, host, task
    <3>9. CASE GenerateEnv
      BY <1>2, <3>9 DEF HomeInv, GenerateEnv, host
    <3>10. CASE InjectFiles
      BY <1>2, <3>10 DEF HomeInv, InjectFiles, Return, host, task
    <3>11. CASE UnregisterRHSM
      BY <1>2, <3>11 DEF HomeInv, UnregisterRHSM, task
    <3>12. CASE TearConfig
      BY <1>2, <3>12 DEF HomeInv, TearConfig, task
    <3>13. CASE TearHome
      BY <1>2, <3>13 DEF HomeInv, TearHome, task
    <3>14. CASE Fail
      BY <1>2, <3>14 DEF HomeInv, Fail, Return, host, task
    <3>15. CASE Kill
      BY <1>2, <3>15 DEF HomeInv, Kill, host, task
    <3>16. QED
      BY <2>2, <3>1, <3>2, <3>3, <3>4, <3>5, <3>6, <3>7, <3>8, <3>9, <3>10, <3>11, <3>12,
         <3>13, <3>14, <3>15 DEF PrefetchStep
  <2>3. CASE UNCHANGED vars
    BY <1>2, <2>3 DEF HomeInv, vars, host, task
  <2>4. QED
    BY <1>2, <2>1, <2>2, <2>3
<1>3. HomeInv => OwnGitCredentials
  BY DEF HomeInv, OwnGitCredentials
<1>4. QED
  BY <1>1, <1>2, <1>3, PTL DEF Spec

--------------------------------------------------------------------------------
(* The proxies are those the configuration read by this run allows, and a  *)
(* result that is written is what cache-proxy decided on.                  *)
ProxyInv ==
    /\ pc \in BeforeRegistration \union AfterRegistration =>
          /\ proxies = PackageProxies(raw) /\ (params.enableProxy \/ raw = Unreadable)
          /\ results = NoResults
    /\ pc \in CacheProxySteps => cacheProxy = CacheProxySettings(raw, cacheParams.defaults)
    /\ pc = "write http-proxy" => results = NoResults
    /\ \/ results = NoResults
       \/ /\ cacheProxy = CacheProxySettings(raw, cacheParams.defaults)
          /\ results = [httpProxy |-> results.httpProxy, noProxy |-> results.noProxy]
          /\ results.httpProxy \in {"not written", IF ProxyInUse THEN cacheProxy.httpProxy ELSE ""}
          /\ results.noProxy \in {"not written", IF ProxyInUse THEN cacheProxy.noProxy ELSE ""}

(* A proxy reaches hermeto, or the results of cache-proxy, only with the   *)
(* consent of the parameter and of the cluster, and the two results are    *)
(* from one source, in every sequence of runs on a host, although a result *)
(* may fail to be written and a run may be killed between the two.         *)
THEOREM ProxiesAreAllowed == Spec => []ProxiesAsAllowed
<1> USE DEF BeforeRegistration, AfterRegistration, CacheProxySteps, ProxyInUse
<1>1. ASSUME Init
      PROVE  ProxyInv
  BY <1>1 DEF Init, ProxyInv, BeforeRegistration, AfterRegistration, CacheProxySteps
<1>2. ASSUME ProxyInv, [CacheProxyStep \/ PrefetchStep]_vars
      PROVE  ProxyInv'
  <2>1. CASE CacheProxyStep
    <3>1. ASSUME NEW p \in Hosts[name].cacheProxy,
                 NEW c \in Hosts[name].clusters \union {Unreadable}, StartCacheProxy(p, c)
          PROVE  ProxyInv'
      BY <1>2, <3>1 DEF ProxyInv, StartCacheProxy
    <3>2. CASE WriteHttpProxy
      <4>1. /\ UNCHANGED <<raw, cacheParams, cacheProxy>> /\ pc' = "write no-proxy"
            /\ cacheProxy = CacheProxySettings(raw, cacheParams.defaults)
            /\ results = [httpProxy |-> results.httpProxy, noProxy |-> results.noProxy]
        BY <1>2, <3>2 DEF ProxyInv, WriteHttpProxy, task, NoResults
      <4>2. \/ UNCHANGED results
            \/ /\ results'.httpProxy = IF ProxyInUse THEN cacheProxy.httpProxy ELSE ""
               /\ results'.noProxy = results.noProxy
               /\ results' = [httpProxy |-> results'.httpProxy, noProxy |-> results'.noProxy]
        BY <3>2, <4>1 DEF WriteHttpProxy
      <4>3. results.noProxy \in {"not written", IF ProxyInUse THEN cacheProxy.noProxy ELSE ""}
        <5>1. CASE results = NoResults
          BY <5>1 DEF NoResults
        <5>2. CASE results # NoResults
          BY <1>2, <5>2, Zenon DEF ProxyInv
        <5>3. QED
          BY <5>1, <5>2
      <4>4. QED
        BY <1>2, <4>1, <4>2, <4>3 DEF ProxyInv
    <3>3. CASE WriteNoProxy
      <4>1. /\ UNCHANGED <<raw, cacheParams, cacheProxy>> /\ pc' = "idle"
            /\ cacheProxy = CacheProxySettings(raw, cacheParams.defaults)
            /\ results = [httpProxy |-> results.httpProxy, noProxy |-> results.noProxy]
        BY <1>2, <3>3 DEF ProxyInv, WriteNoProxy, task, NoResults
      <4>2. \/ UNCHANGED results
            \/ /\ results'.noProxy = IF ProxyInUse THEN cacheProxy.noProxy ELSE ""
               /\ results'.httpProxy = results.httpProxy
               /\ results' = [httpProxy |-> results'.httpProxy, noProxy |-> results'.noProxy]
        BY <3>3, <4>1 DEF WriteNoProxy
      <4>3. results.httpProxy \in {"not written", IF ProxyInUse THEN cacheProxy.httpProxy ELSE ""}
        <5>1. CASE results = NoResults
          BY <5>1 DEF NoResults
        <5>2. CASE results # NoResults
          BY <1>2, <5>2, Zenon DEF ProxyInv
        <5>3. QED
          BY <5>1, <5>2
      <4>4. QED
        BY <1>2, <4>1, <4>2, <4>3 DEF ProxyInv
    <3>4. QED
      BY <2>1, <3>1, <3>2, <3>3 DEF CacheProxyStep
  <2>2. CASE PrefetchStep
    <3>1. ASSUME NEW p \in Hosts[name].prefetch,
                 NEW c \in Hosts[name].clusters \union {Unreadable}, StartPrefetch(p, c)
          PROVE  ProxyInv'
      BY <1>2, <3>1 DEF ProxyInv, StartPrefetch
    <3>2. CASE Version
      BY <1>2, <3>2 DEF ProxyInv, Version, Return, task, cache
    <3>3. CASE DropGoProxyStep
      BY <1>2, <3>3 DEF ProxyInv, DropGoProxyStep, task, cache
    <3>4. CASE WriteGitCredentials
      BY <1>2, <3>4 DEF ProxyInv, WriteGitCredentials, Return, task, cache
    <3>5. CASE WriteGitConfig
      BY <1>2, <3>5 DEF ProxyInv, WriteGitConfig, Return, task, cache
    <3>6. CASE RegisterRHSM
      BY <1>2, <3>6 DEF ProxyInv, RegisterRHSM, Return, cache
    <3>7. CASE InjectRPMInput
      BY <1>2, <3>7 DEF ProxyInv, InjectRPMInput, Return, cache
    <3>8. CASE FetchDeps
      BY <1>2, <3>8 DEF ProxyInv, FetchDeps, task, cache
    <3>9. CASE GenerateEnv
      BY <1>2, <3>9 DEF ProxyInv, GenerateEnv, cache
    <3>10. CASE InjectFiles
      BY <1>2, <3>10 DEF ProxyInv, InjectFiles, Return, task, cache
    <3>11. CASE UnregisterRHSM
      BY <1>2, <3>11 DEF ProxyInv, UnregisterRHSM, task, cache
    <3>12. CASE TearConfig
      BY <1>2, <3>12 DEF ProxyInv, TearConfig, task, cache
    <3>13. CASE TearHome
      BY <1>2, <3>13 DEF ProxyInv, TearHome, task, cache
    <3>14. CASE Fail
      BY <1>2, <3>14 DEF ProxyInv, Fail, Return, task, cache
    <3>15. CASE Kill
      BY <1>2, <3>15 DEF ProxyInv, Kill, task, cache
    <3>16. QED
      BY <2>2, <3>1, <3>2, <3>3, <3>4, <3>5, <3>6, <3>7, <3>8, <3>9, <3>10, <3>11, <3>12,
         <3>13, <3>14, <3>15 DEF PrefetchStep
  <2>3. CASE UNCHANGED vars
    BY <1>2, <2>3 DEF ProxyInv, vars, task, cache
  <2>4. QED
    BY <1>2, <2>1, <2>2, <2>3
<1>3. ASSUME ProxyInv, InputInv
      PROVE  ProxiesAsAllowed
  <2> DEFINE d == cacheParams.defaults
  <2>1. d = [allowed |-> d.allowed, httpProxy |-> d.httpProxy, noProxy |-> d.noProxy]
    <3>1. CASE cacheParams = NoCacheParams
      BY <3>1 DEF NoCacheParams, NoSettings
    <3>2. CASE cacheParams \in Hosts[name].cacheProxy
      <4>1. d \in [allowed: BOOLEAN, httpProxy: STRING, noProxy: STRING]
        BY <1>3, <3>2, PrefetchAssumption DEF InputInv
      <4>2. QED
        BY <4>1
    <3>3. QED
      BY <1>3, <3>1, <3>2 DEF InputInv
  <2>2. pc = "fetch deps" /\ proxies # {} =>
          params.enableProxy /\ raw # Unreadable /\ raw.allowPackageRegistryProxy = "true"
    BY <1>3 DEF ProxyInv, PackageProxies, NewHermetoProxyConfig, ParseBool
  <2> DEFINE settings == CacheProxySettings(raw, d)
  <2>3. /\ settings.allowed /\ raw # Unreadable => raw.allowCacheProxy \in {"", "true"}
        /\ <<settings.httpProxy, settings.noProxy>> \in
              {<<d.httpProxy, d.noProxy>>}
              \union (IF raw = Unreadable THEN {} ELSE {<<raw.httpProxy, raw.noProxy>>})
    BY <2>1 DEF CacheProxySettings, NewCacheProxyConfig, ParseBool
  <2> HIDE DEF settings
  <2>4. CASE results = NoResults
    BY <2>2, <2>4 DEF ProxiesAsAllowed, NoResults
  <2>5. CASE results # NoResults
    <3>1. /\ cacheProxy = settings
          /\ results.httpProxy \in {"not written", IF ProxyInUse THEN cacheProxy.httpProxy ELSE ""}
          /\ results.noProxy \in {"not written", IF ProxyInUse THEN cacheProxy.noProxy ELSE ""}
      BY <1>3, <2>5 DEF ProxyInv, settings
    <3>2. QED
      BY <2>2, <2>3, <3>1 DEF ProxiesAsAllowed
  <2>6. QED
    BY <2>4, <2>5
<1>4. QED
  BY <1>1, <1>2, <1>3, InputsKnown, PTL DEF Spec

--------------------------------------------------------------------------------
(* w has the lists and the objects of v, of the same types. *)
SameShape(v, w) ==
    DOMAIN w = DOMAIN v /\ \A p \in DOMAIN v : w[p].kind = v[p].kind /\ w[p].type = v[p].type

(* A walk through the input goes the same way, and finds the same rpm      *)
(* packages, after options have been injected.                             *)
LEMMA SameWalk ==
    ASSUME NEW v, NEW w, IsJson(v), SameShape(v, w)
    PROVE  /\ \A p \in DOMAIN v : (Visited(w, p) <=> Visited(v, p)) /\ (IsRPM(w, p) <=> IsRPM(v, p))
           /\ Packages(w) = Packages(v)
<1>1. \A p \in DOMAIN v : HasPackages(w, p) <=> HasPackages(v, p)
  BY DEF SameShape, HasPackages
<1>2. \A p \in DOMAIN v : IsRPM(w, p) <=> IsRPM(v, p)
  BY <1>1 DEF SameShape, IsRPM
<1>3. ASSUME NEW p \in DOMAIN v PROVE Visited(w, p) <=> Visited(v, p)
  <2>1. \A k \in 1..Len(p) : w[SubSeq(p, 1, k)].kind = v[SubSeq(p, 1, k)].kind
    BY DEF IsJson, SameShape
  <2>2. QED
    BY <2>1 DEF Visited
<1>4. Packages(w) = Packages(v)
  <2>1. <<>> \in DOMAIN v /\ w[<<>>].kind = v[<<>>].kind
    BY DEF IsJson, SameShape
  <2>2. DOMAIN w = DOMAIN v
    BY DEF SameShape
  <2>3. {p \in {<<>>} : w[p].kind = "object"} = {p \in {<<>>} : v[p].kind = "object"}
    BY <2>1
  <2>4. QED
    BY <1>1, <2>1, <2>2, <2>3 DEF Packages
<1>5. QED
  BY <1>2, <1>3, <1>4

(* The walk reaches every package that hermeto reads. *)
LEMMA PackagesVisited ==
    ASSUME NEW v, IsJson(v), NEW p \in Packages(v)
    PROVE  p \in DOMAIN v /\ Visited(v, p)
<1>1. CASE v[<<>>].kind = "list"
  <2>1. p \in DOMAIN v /\ Len(p) = 1 /\ p[1] > 0
    BY <1>1 DEF Packages
  <2>2. \A k \in 1..Len(p) : p[k] # 0
    BY <2>1 DEF IsJson
  <2>3. QED
    BY <2>1, <2>2 DEF Visited
<1>2. CASE v[<<>>].kind # "list" /\ HasPackages(v, <<>>)
  <2>1. p \in DOMAIN v /\ Len(p) = 2 /\ p[1] = 0 /\ p[2] > 0
    BY <1>2 DEF Packages
  <2>2. p \in Seq(Nat)
    BY <2>1 DEF IsJson
  <2>3. SubSeq(p, 1, 1) = Append(<<>>, 0)
    <3>1. SubSeq(p, 1, 1) \in Seq(Nat) /\ Len(SubSeq(p, 1, 1)) = 1 /\ SubSeq(p, 1, 1)[1] = 0
      BY <2>1, <2>2
    <3>2. Append(<<>>, 0) = <<0>>
      OBVIOUS
    <3>3. <<0>> \in Seq(Nat) /\ Len(<<0>>) = 1 /\ <<0>>[1] = 0
      OBVIOUS
    <3> DEFINE s == SubSeq(p, 1, 1)
               t == <<0>>
    <3>4. /\ s \in Seq(Nat) /\ t \in Seq(Nat) /\ Len(s) = Len(t)
          /\ \A i \in 1..Len(s) : s[i] = t[i]
      BY <3>1, <3>3
    <3> HIDE DEF s, t
    <3>5. s = t
      BY <3>4, SeqEqual
    <3>6. QED
      BY <3>2, <3>5 DEF s, t
  <2>4. v[SubSeq(p, 1, 1)].kind = "list"
    BY <1>2, <2>3 DEF HasPackages
  <2>5. \A k \in 1..Len(p) : p[k] = 0 => k = 1
    BY <2>1, <2>2
  <2>6. QED
    BY <2>1, <2>4, <2>5 DEF Visited
<1>3. CASE v[<<>>].kind # "list" /\ ~HasPackages(v, <<>>)
  <2>1. p = <<>> /\ <<>> \in DOMAIN v
    BY <1>3 DEF Packages, IsJson
  <2>2. \A k \in 1..Len(p) : FALSE
    BY <2>1
  <2>3. QED
    BY <2>1, <2>2 DEF Visited
<1>4. QED
  BY <1>1, <1>2, <1>3

(* Injecting the summary sets that, and nothing else, in the rpm packages  *)
(* the walk reaches.                                                       *)
LEMMA SummaryInjected ==
    ASSUME NEW v, IsJson(v)
    PROVE  LET w == injectSummaryInSBOMField(v)
           IN  /\ SameShape(v, w) /\ IsJson(w)
               /\ \A p \in DOMAIN v :
                     /\ w[p].options = v[p].options
                     /\ IF Visited(v, p) /\ IsRPM(v, p) THEN w[p].summary ELSE w[p] = v[p]
<1> DEFINE w == injectSummaryInSBOMField(v)
<1>1. ASSUME NEW p \in DOMAIN v
      PROVE  /\ w[p].kind = v[p].kind /\ w[p].type = v[p].type /\ w[p].options = v[p].options
             /\ IsNode(w[p])
             /\ IF Visited(v, p) /\ IsRPM(v, p) THEN w[p].summary ELSE w[p] = v[p]
  <2>1. IsNode(v[p])
    BY DEF IsJson
  <2>2. CASE Visited(v, p) /\ IsRPM(v, p)
    <3>1. w[p] = [v[p] EXCEPT !.summary = TRUE]
      BY <2>2 DEF injectSummaryInSBOMField
    <3>2. QED
      BY <2>1, <2>2, <3>1 DEF IsNode
  <2>3. CASE ~(Visited(v, p) /\ IsRPM(v, p))
    <3>1. w[p] = v[p]
      BY <2>3 DEF injectSummaryInSBOMField
    <3>2. QED
      BY <2>1, <2>3, <3>1
  <2>4. QED
    BY <2>2, <2>3
<1>2. DOMAIN w = DOMAIN v
  BY DEF injectSummaryInSBOMField
<1> HIDE DEF w
<1>3. IsJson(w)
  BY <1>1, <1>2 DEF IsJson
<1>4. QED
  BY <1>1, <1>2, <1>3 DEF SameShape, w

(* Injecting the ssl options sets those, and nothing else, in the rpm      *)
(* packages the walk reaches.                                              *)
LEMMA OptionsInjected ==
    ASSUME NEW v, IsJson(v), NEW ssl
    PROVE  LET w == injectSSLOptions(v, ssl)
           IN  /\ SameShape(v, w)
               /\ \A p \in DOMAIN v :
                     /\ w[p].summary = v[p].summary
                     /\ w[p] = v[p] \/ (Visited(v, p) /\ IsRPM(v, p))
                     /\ Visited(v, p) /\ IsRPM(v, p) => w[p].options = WithSSL(v[p].options, ssl)
<1> DEFINE w == injectSSLOptions(v, ssl)
<1>1. ASSUME NEW p \in DOMAIN v
      PROVE  /\ w[p].kind = v[p].kind /\ w[p].type = v[p].type /\ w[p].summary = v[p].summary
             /\ w[p] = v[p] \/ (Visited(v, p) /\ IsRPM(v, p))
             /\ Visited(v, p) /\ IsRPM(v, p) => w[p].options = WithSSL(v[p].options, ssl)
  <2>1. IsNode(v[p])
    BY DEF IsJson
  <2>2. CASE Visited(v, p) /\ IsRPM(v, p)
    <3>1. w[p] = [v[p] EXCEPT !.options = WithSSL(v[p].options, ssl)]
      BY <2>2 DEF injectSSLOptions
    <3>2. QED
      BY <2>1, <2>2, <3>1 DEF IsNode
  <2>3. CASE ~(Visited(v, p) /\ IsRPM(v, p))
    <3>1. w[p] = v[p]
      BY <2>3 DEF injectSSLOptions
    <3>2. QED
      BY <2>3, <3>1
  <2>4. QED
    BY <2>2, <2>3
<1>2. DOMAIN w = DOMAIN v
  BY DEF injectSSLOptions
<1> HIDE DEF w
<1>3. QED
  BY <1>1, <1>2 DEF SameShape, w

(* The injected settings are all there, and so are the user's other ones   *)
(* if there are options with an ssl object.                                *)
LEMMA SettingsMerged ==
    ASSUME NEW o, NEW ssl,
           o = [given |-> o.given, other |-> o.other, hasSSL |-> o.hasSSL, ssl |-> o.ssl]
    PROVE  LET new == WithSSL(o, ssl).ssl
           IN  /\ \A k \in DOMAIN ssl : new[k] = ssl[k]
               /\ o.given /\ o.hasSSL =>
                     \A k \in DOMAIN o.ssl \ DOMAIN ssl : k \in DOMAIN new /\ new[k] = o.ssl[k]
  BY DEF WithSSL, Copy

(* Where there are keys and certificates, each has its counterpart. *)
EntitlementsFit ==
    /\ entitlements.keys \subseteq Serials
    /\ entitlements.keys # {} /\ entitlements.certs # {} => entitlements.certs = entitlements.keys

(* Before the injection the input is the parsed one, and a registration    *)
(* that was asked for is in effect.                                        *)
PreparedInv ==
    /\ EntitlementsFit
    /\ pc = "inject" => /\ input = parseInput(params.input)
                        /\ params.rhsm => deferred /\ registration = "this"
    /\ RpmPackagesPrepared

(* What parseInput returns is a JSON value, for a word too. *)
LEMMA InputIsJson ==
    ASSUME InputInv
    PROVE  IsJson(parseInput(params.input))
<1>1. ASSUME NEW w
      PROVE  IsJson(Only(Object(w, NoOptions)))
  <2>1. IsNode(Object(w, NoOptions))
    BY DEF IsNode, Object, Node, NoOptions
  <2>2. /\ DOMAIN Only(Object(w, NoOptions)) = {<<>>} /\ <<>> \in Seq(Nat) /\ Len(<<>>) = 0
        /\ Only(Object(w, NoOptions))[<<>>] = Object(w, NoOptions)
    BY DEF Only
  <2>3. QED
    BY <2>1, <2>2 DEF IsJson
<1>2. CASE params = NoParams
  BY <1>1, <1>2 DEF NoParams, parseInput
<1>3. CASE params \in Hosts[name].prefetch
  BY <1>1, <1>3, PrefetchAssumption DEF InputInv, parseInput
<1>4. QED
  BY <1>2, <1>3 DEF InputInv

(* What hermeto fetches: every rpm package of the input asks for the       *)
(* summary and, after a registration, has one entitlement of it and the    *)
(* user's other ssl settings; everything else is as the user gave it, for  *)
(* every JSON value and any nesting of packages.                           *)
THEOREM RpmPackagesArePrepared == Spec => []RpmPackagesPrepared
<1>1. ASSUME Init
      PROVE  PreparedInv
  BY <1>1 DEF Init, PreparedInv, RpmPackagesPrepared, EntitlementsFit, Entitlements, NoEntitlements
<1>2. ASSUME PreparedInv, InputInv, [CacheProxyStep \/ PrefetchStep]_vars
      PROVE  PreparedInv'
  <2>1. CASE CacheProxyStep
    <3>1. ASSUME NEW p \in Hosts[name].cacheProxy,
                 NEW c \in Hosts[name].clusters \union {Unreadable}, StartCacheProxy(p, c)
          PROVE  PreparedInv'
      BY <1>2, <3>1 DEF PreparedInv, EntitlementsFit, StartCacheProxy, RpmPackagesPrepared
    <3>2. CASE WriteHttpProxy
      BY <1>2, <3>2 DEF PreparedInv, EntitlementsFit, WriteHttpProxy, host, task, RpmPackagesPrepared
    <3>3. CASE WriteNoProxy
      BY <1>2, <3>3 DEF PreparedInv, EntitlementsFit, WriteNoProxy, host, task, RpmPackagesPrepared
    <3>4. QED
      BY <2>1, <3>1, <3>2, <3>3 DEF CacheProxyStep
  <2>2. CASE PrefetchStep
    <3>1. ASSUME NEW p \in Hosts[name].prefetch,
                 NEW c \in Hosts[name].clusters \union {Unreadable}, StartPrefetch(p, c)
          PROVE  PreparedInv'
      BY <1>2, <3>1 DEF PreparedInv, EntitlementsFit, StartPrefetch, RpmPackagesPrepared
    <3>2. CASE Version
      BY <1>2, <3>2 DEF PreparedInv, EntitlementsFit, Version, Return, host, task, RpmPackagesPrepared
    <3>3. CASE DropGoProxyStep
      BY <1>2, <3>3 DEF PreparedInv, EntitlementsFit, DropGoProxyStep, task, RpmPackagesPrepared
    <3>4. CASE WriteGitCredentials
      BY <1>2, <3>4 DEF PreparedInv, EntitlementsFit, WriteGitCredentials, Return, task, RpmPackagesPrepared
    <3>5. CASE WriteGitConfig
      BY <1>2, <3>5 DEF PreparedInv, EntitlementsFit, WriteGitConfig, Return, task, RpmPackagesPrepared
    <3>6. CASE RegisterRHSM
      <4> DEFINE given == parseInput(params.input)
      <4>1. input' = given /\ UNCHANGED params
        BY <3>6 DEF RegisterRHSM
      <4>2. EntitlementsFit'
        <5>1. \/ entitlements' = entitlements
              \/ \E S \in SUBSET Serials :
                    entitlements' \in {Entitlements(S, S), Entitlements(S, {}), Entitlements({}, S)}
          BY <3>6 DEF RegisterRHSM
        <5>2. QED
          BY <1>2, <5>1 DEF PreparedInv, EntitlementsFit, Entitlements
      <4>3. pc' = "inject" /\ params.rhsm => deferred' /\ registration' = "this"
        BY <3>6 DEF RegisterRHSM, Return
      <4>4. ASSUME pc' = "fetch deps"
            PROVE  RpmPackagesPrepared'
        <5>1. ~containsRPM(given)
          BY <4>4, <3>6 DEF RegisterRHSM, Return
        <5>2. IsJson(given)
          BY <1>2, InputIsJson
        <5> HIDE DEF given
        <5>3. \A p \in Packages(given) : ~IsRPM(given, p)
          BY <5>1, <5>2, PackagesVisited DEF containsRPM, IsRPM
        <5>4. QED
          BY <4>1, <5>3 DEF RpmPackagesPrepared, given
      <4>5. pc' # "fetch deps" => RpmPackagesPrepared'
        BY DEF RpmPackagesPrepared
      <4>6. QED
        BY <4>1, <4>2, <4>3, <4>4, <4>5 DEF PreparedInv
    <3>7. CASE InjectRPMInput
      <4> DEFINE given == parseInput(params.input)
                 new == injectSummaryInSBOMField(given)
                 ssl == injectSSLOptions(new, SSL)
      <4>1. UNCHANGED <<params, registration, entitlements>> /\ pc' # "inject"
        BY <3>7 DEF InjectRPMInput, Return, host
      <4>2. ASSUME pc' = "fetch deps"
            PROVE  RpmPackagesPrepared'
        <5>1. input' = IF deferred THEN ssl ELSE new
          BY <1>2, <4>2, <3>7 DEF PreparedInv, InjectRPMInput, Return
        <5>2. params.rhsm => deferred /\ registration = "this" /\ entitlements.keys # {} /\ entitlements.certs # {}
          BY <1>2, <4>2, <3>7 DEF PreparedInv, InjectRPMInput, Return
        <5>3. IsJson(given)
          BY <1>2, InputIsJson
        <5> HIDE DEF given
        <5>4. /\ SameShape(given, new) /\ IsJson(new)
              /\ \A p \in DOMAIN given :
                    /\ new[p].options = given[p].options
                    /\ IF Visited(given, p) /\ IsRPM(given, p) THEN new[p].summary ELSE new[p] = given[p]
          BY <5>3, SummaryInjected
        <5> HIDE DEF new
        <5>5. /\ SameShape(new, ssl)
              /\ \A p \in DOMAIN new :
                    /\ ssl[p].summary = new[p].summary
                    /\ ssl[p] = new[p] \/ (Visited(new, p) /\ IsRPM(new, p))
                    /\ Visited(new, p) /\ IsRPM(new, p) => ssl[p].options = WithSSL(new[p].options, SSL)
          BY <5>4, OptionsInjected
        <5> HIDE DEF ssl
        <5>6. /\ DOMAIN new = DOMAIN given /\ DOMAIN ssl = DOMAIN given
              /\ \A p \in DOMAIN given : (Visited(new, p) <=> Visited(given, p)) /\ (IsRPM(new, p) <=> IsRPM(given, p))
              /\ Packages(new) = Packages(given) /\ Packages(ssl) = Packages(given)
          BY <5>3, <5>4, <5>5, SameWalk DEF SameShape
        <5>7. \A p \in Packages(given) : p \in DOMAIN given /\ Visited(given, p)
          BY <5>3, PackagesVisited
        <5>8. DOMAIN input' = DOMAIN given /\ Packages(input') = Packages(given)
          BY <5>1, <5>6
        <5>9. \A p \in DOMAIN given : IsRPM(given, p) \/ input'[p] = given[p]
          BY <5>1, <5>4, <5>5, <5>6
        <5>10. ASSUME NEW p \in Packages(given), IsRPM(given, p)
               PROVE  input'[p].summary
          <6>1. new[p].summary /\ ssl[p].summary
            BY <5>4, <5>5, <5>6, <5>7, <5>10
          <6>2. QED
            BY <5>1, <6>1
        <5>11. ASSUME NEW p \in Packages(given), IsRPM(given, p), params.rhsm
               PROVE  /\ registration' = "this"
                      /\ input'[p].options.ssl["client_key"][2] \in entitlements'.keys \intersect entitlements'.certs
                      /\ input'[p].options.ssl["client_cert"][2] = input'[p].options.ssl["client_key"][2]
                      /\ given[p].options.given /\ given[p].options.hasSSL =>
                            \A k \in DOMAIN given[p].options.ssl \ {"client_key", "client_cert", "ca_bundle"} :
                                /\ k \in DOMAIN input'[p].options.ssl
                                /\ input'[p].options.ssl[k] = given[p].options.ssl[k]
          <6> DEFINE o == given[p].options
                     now == input'[p].options.ssl
          <6>1. input'[p].options = WithSSL(o, SSL)
            BY <5>1, <5>2, <5>4, <5>5, <5>6, <5>7, <5>11
          <6>2. o = [given |-> o.given, other |-> o.other, hasSSL |-> o.hasSSL, ssl |-> o.ssl]
            BY <5>3, <5>7 DEF IsJson, IsNode
          <6>3. /\ DOMAIN SSL = {"client_key", "client_cert", "ca_bundle"}
                /\ SSL["client_key"][2] = ClientKey /\ SSL["client_cert"][2] = ClientCert
            BY DEF SSL
          <6>4. ClientKey \in entitlements.keys \intersect entitlements.certs /\ ClientCert = ClientKey
            <7>1. /\ entitlements.keys \subseteq Nat /\ IsFiniteSet(entitlements.keys) /\ entitlements.keys # {}
                  /\ entitlements.certs = entitlements.keys
              BY <1>2, <5>2, <5>11, PrefetchAssumption, FS_Subset DEF PreparedInv, EntitlementsFit
            <7>2. QED
              BY <7>1, LastEntitlement DEF ClientKey, ClientCert
          <6> HIDE DEF o
          <6>5. /\ \A k \in DOMAIN SSL : now[k] = SSL[k]
                /\ o.given /\ o.hasSSL =>
                      \A k \in DOMAIN o.ssl \ DOMAIN SSL : k \in DOMAIN now /\ now[k] = o.ssl[k]
            BY <6>1, <6>2, SettingsMerged
          <6>6. now["client_key"] = SSL["client_key"] /\ now["client_cert"] = SSL["client_cert"]
            BY <6>3, <6>5
          <6>7. QED
            BY <4>1, <5>2, <5>11, <6>3, <6>4, <6>5, <6>6 DEF o
        <5>12. QED
          BY <4>1, <5>8, <5>9, <5>10, <5>11, ZenonT(60) DEF RpmPackagesPrepared, given
      <4>3. pc' # "fetch deps" => RpmPackagesPrepared'
        BY DEF RpmPackagesPrepared
      <4>4. QED
        BY <1>2, <4>1, <4>2, <4>3 DEF PreparedInv, EntitlementsFit
    <3>8. CASE FetchDeps
      BY <1>2, <3>8 DEF PreparedInv, EntitlementsFit, FetchDeps, host, task, RpmPackagesPrepared
    <3>9. CASE GenerateEnv
      BY <1>2, <3>9 DEF PreparedInv, EntitlementsFit, GenerateEnv, host, RpmPackagesPrepared
    <3>10. CASE InjectFiles
      BY <1>2, <3>10 DEF PreparedInv, EntitlementsFit, InjectFiles, Return, host, task, RpmPackagesPrepared
    <3>11. CASE UnregisterRHSM
      BY <1>2, <3>11 DEF PreparedInv, EntitlementsFit, NoEntitlements, Entitlements, UnregisterRHSM, task, RpmPackagesPrepared
    <3>12. CASE TearConfig
      BY <1>2, <3>12 DEF PreparedInv, EntitlementsFit, TearConfig, task, RpmPackagesPrepared
    <3>13. CASE TearHome
      BY <1>2, <3>13 DEF PreparedInv, EntitlementsFit, TearHome, task, RpmPackagesPrepared
    <3>14. CASE Fail
      BY <1>2, <3>14 DEF PreparedInv, EntitlementsFit, Fail, Return, host, task, RpmPackagesPrepared
    <3>15. CASE Kill
      BY <1>2, <3>15 DEF PreparedInv, EntitlementsFit, Kill, host, task, RpmPackagesPrepared
    <3>16. QED
      BY <2>2, <3>1, <3>2, <3>3, <3>4, <3>5, <3>6, <3>7, <3>8, <3>9, <3>10, <3>11, <3>12,
         <3>13, <3>14, <3>15 DEF PrefetchStep
  <2>3. CASE UNCHANGED vars
    <3>1. UNCHANGED <<pc, input, params, registration, entitlements, deferred>>
      BY <2>3 DEF vars, host, task
    <3>2. RpmPackagesPrepared'
      BY <1>2, <3>1, ZenonT(60) DEF PreparedInv, EntitlementsFit, RpmPackagesPrepared
    <3>3. QED
      BY <1>2, <3>1, <3>2 DEF PreparedInv, EntitlementsFit
  <2>4. QED
    BY <1>2, <2>1, <2>2, <2>3
<1>3. PreparedInv => RpmPackagesPrepared
  BY DEF PreparedInv
<1>4. QED
  BY <1>1, <1>2, <1>3, InputsKnown, PTL DEF Spec

--------------------------------------------------------------------------------
LineType == [key: STRING, indented: BOOLEAN]
Files == Seq(LineType)

(* A line with the key "gomod" comes before, and since then no line at the *)
(* margin that is kept.                                                    *)
GomodBefore(lines, n) ==
    \E g \in 1..n : /\ lines[g].key = "gomod"
                    /\ \A j \in (g + 1)..n : lines[j].key = "goproxy_url" \/ lines[j].indented

(* f follows the loop of dropGoProxyFrom. *)
FollowsLoop(lines, f) ==
    f = [n \in 0..Len(lines) |->
          IF n = 0 THEN FALSE
          ELSE IF lines[n].key = "gomod" THEN TRUE
          ELSE IF lines[n].key = "goproxy_url" \/ lines[n].indented THEN f[n - 1]
          ELSE FALSE]

(* What one line does to it. *)
LEMMA GomodStep ==
    ASSUME NEW lines \in Files, NEW n \in 1..Len(lines)
    PROVE  GomodBefore(lines, n) <=>
               \/ lines[n].key = "gomod"
               \/ /\ GomodBefore(lines, n - 1)
                  /\ lines[n].key = "goproxy_url" \/ lines[n].indented
<1>1. n \in Nat /\ n - 1 \in Nat /\ \A g \in 1..n : g = n \/ g \in 1..(n - 1)
  BY DEF Files
<1>2. ASSUME lines[n].key = "gomod" PROVE GomodBefore(lines, n)
  <2>1. n \in 1..n /\ \A j \in (n + 1)..n : FALSE
    BY <1>1
  <2>2. QED
    BY <1>2, <2>1 DEF GomodBefore
<1>3. ASSUME GomodBefore(lines, n), lines[n].key # "gomod"
      PROVE  GomodBefore(lines, n - 1) /\ (lines[n].key = "goproxy_url" \/ lines[n].indented)
  <2>1. PICK g \in 1..n : /\ lines[g].key = "gomod"
                          /\ \A j \in (g + 1)..n : lines[j].key = "goproxy_url" \/ lines[j].indented
    BY <1>3 DEF GomodBefore
  <2>2. g \in 1..(n - 1) /\ n \in (g + 1)..n /\ \A j \in (g + 1)..(n - 1) : j \in (g + 1)..n
    BY <1>1, <1>3, <2>1
  <2>3. QED
    BY <2>1, <2>2 DEF GomodBefore
<1>4. ASSUME GomodBefore(lines, n - 1), lines[n].key = "goproxy_url" \/ lines[n].indented
      PROVE  GomodBefore(lines, n)
  <2>1. PICK g \in 1..(n - 1) :
             /\ lines[g].key = "gomod"
             /\ \A j \in (g + 1)..(n - 1) : lines[j].key = "goproxy_url" \/ lines[j].indented
    BY <1>4 DEF GomodBefore
  <2>2. g \in 1..n /\ \A j \in (g + 1)..n : j = n \/ j \in (g + 1)..(n - 1)
    BY <1>1
  <2>3. QED
    BY <1>4, <2>1, <2>2 DEF GomodBefore
<1>5. QED
  BY <1>2, <1>3, <1>4

(* The variable inGomodBlock of dropGoProxyFrom says that. *)
LEMMA BlockState ==
    ASSUME NEW lines \in Files
    PROVE  \A n \in 0..Len(lines) : InGomodBlock(lines)[n] <=> GomodBefore(lines, n)
<1> DEFINE Now(n) == IF GomodBefore(lines, n) THEN TRUE ELSE FALSE
           g == [n \in 0..Len(lines) |-> Now(n)]
           f == CHOOSE h : FollowsLoop(lines, h)
<1>1. Len(lines) \in Nat
  BY DEF Files
<1>2. ~GomodBefore(lines, 0)
  <2>1. \A i \in 1..0 : FALSE
    OBVIOUS
  <2>2. QED
    BY <2>1 DEF GomodBefore
<1>3. FollowsLoop(lines, g)
  <2>1. ASSUME NEW n \in 0..Len(lines)
        PROVE  Now(n) = IF n = 0 THEN FALSE
                        ELSE IF lines[n].key = "gomod" THEN TRUE
                        ELSE IF lines[n].key = "goproxy_url" \/ lines[n].indented THEN g[n - 1]
                        ELSE FALSE
    <3>1. CASE n = 0
      BY <1>2, <3>1
    <3>2. CASE n # 0
      <4>1. n \in 1..Len(lines) /\ n - 1 \in 0..Len(lines)
        BY <1>1, <3>2
      <4>2. g[n - 1] = Now(n - 1)
        BY <4>1
      <4> HIDE DEF g
      <4>3. QED
        BY <3>2, <4>1, <4>2, GomodStep
    <3>3. QED
      BY <3>1, <3>2
  <2>2. QED
    BY <2>1 DEF FollowsLoop
<1>4. FollowsLoop(lines, f)
  BY <1>3
<1>5. InGomodBlock(lines) = f
  BY DEF InGomodBlock, FollowsLoop
<1> HIDE DEF f, g
<1> DEFINE T == {n \in 0..Len(lines) : ~(f[n] <=> GomodBefore(lines, n))}
<1>6. T = {}
  <2>1. SUFFICES ASSUME T # {} PROVE FALSE
    OBVIOUS
  <2>2. T \subseteq Nat
    BY <1>1
  <2>3. PICK n \in T : \A m \in T : n <= m
    BY <2>1, <2>2, LeastElement
  <2>4. n \in 0..Len(lines) /\ ~(f[n] <=> GomodBefore(lines, n))
    BY <2>3
  <2>5. CASE n = 0
    BY <1>2, <1>4, <2>4, <2>5 DEF FollowsLoop
  <2>6. CASE n # 0
    <3>1. n \in 1..Len(lines) /\ n - 1 \in 0..Len(lines) /\ ~(n <= n - 1)
      BY <1>1, <2>4, <2>6
    <3>2. f[n - 1] <=> GomodBefore(lines, n - 1)
      BY <2>3, <3>1
    <3>3. f[n] = IF lines[n].key = "gomod" THEN TRUE
                 ELSE IF lines[n].key = "goproxy_url" \/ lines[n].indented THEN f[n - 1]
                 ELSE FALSE
      BY <1>4, <2>4, <2>6 DEF FollowsLoop
    <3>4. QED
      BY <2>4, <3>1, <3>2, <3>3, GomodStep
  <2>7. QED
    BY <2>5, <2>6
<1>7. QED
  BY <1>5, <1>6

(* f holds, for each of the first m lines, what is kept of the lines up to *)
(* it.                                                                     *)
Keeps(lines, S, f, m) ==
    f = [n \in 0..m |->
          IF n = 0 THEN <<>> ELSE IF n \in S THEN Append(f[n - 1], lines[n]) ELSE f[n - 1]]

(* There is such a function for every file and every set of positions. *)
LEMMA KeepsExists ==
    ASSUME NEW lines, NEW S, NEW len \in Nat
    PROVE  \E f : Keeps(lines, S, f, len)
<1> DEFINE T == {n \in Nat : ~\E f : Keeps(lines, S, f, n)}
<1>1. SUFFICES ASSUME T # {} PROVE FALSE
  OBVIOUS
<1>2. T \subseteq Nat
  OBVIOUS
<1>3. PICK n \in T : \A m \in T : n <= m
  BY <1>1, <1>2, LeastElement
<1>4. n \in Nat /\ ~\E f : Keeps(lines, S, f, n)
  BY <1>3
<1> DEFINE Step(h, i) == IF i = 0 THEN <<>> ELSE IF i \in S THEN Append(h[i - 1], lines[i]) ELSE h[i - 1]
<1>5. CASE n = 0
  <2> DEFINE g == [i \in 0..0 |-> <<>>]
  <2>1. Keeps(lines, S, g, 0)
    <3>1. \A i \in 0..0 : i = 0
      OBVIOUS
    <3>2. QED
      BY <3>1 DEF Keeps
  <2>2. QED
    BY <1>4, <1>5, <2>1
<1>6. CASE n # 0
  <2>1. n - 1 \in Nat /\ n - 1 \notin T
    BY <1>3, <1>4, <1>6
  <2>2. PICK f : Keeps(lines, S, f, n - 1)
    BY <2>1
  <2> DEFINE g == [i \in 0..n |-> Step(f, i)]
  <2>3. ASSUME NEW i \in 0..n PROVE Step(g, i) = Step(f, i)
    <3>1. CASE i = 0
      BY <3>1
    <3>2. CASE i # 0
      <4>1. i - 1 \in 0..(n - 1) /\ i - 1 \in 0..n
        BY <1>4, <3>2
      <4>2. f[i - 1] = Step(f, i - 1)
        BY <2>2, <4>1 DEF Keeps
      <4>3. g[i - 1] = f[i - 1]
        BY <4>1, <4>2
      <4> HIDE DEF g
      <4>4. QED
        BY <4>3, <3>2
    <3>3. QED
      BY <3>1, <3>2
  <2>4. g = [i \in 0..n |-> Step(g, i)]
    BY <2>3
  <2> HIDE DEF g
  <2>5. Keeps(lines, S, g, n)
    BY <2>4 DEF Keeps
  <2>6. QED
    BY <1>4, <2>5
<1>7. QED
  BY <1>5, <1>6

(* out is made of the lines at the positions of S up to n, in order: m     *)
(* tells where each of them was.                                           *)
Selects(lines, S, n, out, m) ==
    /\ m \in [1..Len(out) -> 1..n]
    /\ \A i, j \in 1..Len(out) : i < j => m[i] < m[j]
    /\ \A i \in 1..Len(out) : m[i] \in S /\ out[i] = lines[m[i]]
    /\ \A s \in S : s \in 1..n => \E i \in 1..Len(out) : m[i] = s

(* One more line is kept. *)
LEMMA SelectsOneMore ==
    ASSUME NEW lines \in Files, NEW S, NEW n \in 1..Len(lines), n \in S,
           NEW out \in Files, NEW m, Selects(lines, S, n - 1, out, m)
    PROVE  \E k : Selects(lines, S, n, Append(out, lines[n]), k)
<1> DEFINE new == Append(out, lines[n])
           k == [i \in 1..(Len(out) + 1) |-> IF i = Len(out) + 1 THEN n ELSE m[i]]
<1>1. /\ Len(out) \in Nat /\ n \in Nat /\ lines[n] \in LineType
      /\ Len(new) = Len(out) + 1
  BY DEF Files
<1>2. \A i \in 1..Len(new) : i = Len(out) + 1 \/ i \in 1..Len(out)
  BY <1>1
<1>3. \A i \in 1..Len(out) : /\ m[i] \in 1..(n - 1) /\ m[i] \in S /\ out[i] = lines[m[i]]
                             /\ k[i] = m[i] /\ new[i] = out[i] /\ i \in 1..Len(new)
  BY <1>1 DEF Selects, Files
<1>4. k[Len(out) + 1] = n /\ new[Len(out) + 1] = lines[n] /\ Len(out) + 1 \in 1..Len(new)
  BY <1>1 DEF Files
<1>5. DOMAIN k = 1..Len(new)
  BY <1>1
<1>6. k = [i \in 1..Len(new) |-> k[i]]
  BY <1>1
<1> HIDE DEF k, new
<1>7. \A i \in 1..Len(new) : k[i] \in 1..n /\ k[i] \in S /\ new[i] = lines[k[i]]
  BY <1>1, <1>2, <1>3, <1>4
<1>8. ASSUME NEW i \in 1..Len(new), NEW j \in 1..Len(new), i < j
      PROVE  k[i] < k[j]
  <2>1. i \in 1..Len(out)
    BY <1>1, <1>8
  <2>2. CASE j \in 1..Len(out)
    BY <1>3, <1>8, <2>1, <2>2 DEF Selects
  <2>3. CASE j = Len(out) + 1
    BY <1>1, <1>3, <1>4, <2>1, <2>3
  <2>4. QED
    BY <1>2, <2>2, <2>3
<1>9. ASSUME NEW s \in S, s \in 1..n
      PROVE  \E i \in 1..Len(new) : k[i] = s
  <2>1. CASE s = n
    BY <1>4, <2>1
  <2>2. CASE s # n
    <3>1. s \in 1..(n - 1)
      BY <1>1, <1>9, <2>2
    <3>2. PICK i \in 1..Len(out) : m[i] = s
      BY <3>1 DEF Selects
    <3>3. QED
      BY <1>3, <3>2
  <2>3. QED
    BY <2>1, <2>2
<1>10. k \in [1..Len(new) -> 1..n]
  BY <1>6, <1>7
<1>11. Selects(lines, S, n, new, k)
  BY <1>7, <1>8, <1>9, <1>10 DEF Selects
<1>12. QED
  BY <1>11 DEF new

(* What is kept of a file are the lines at the positions of S, in order;   *)
(* all of them if S has every position.                                    *)
LEMMA KeptLines ==
    ASSUME NEW lines \in Files, NEW S
    PROVE  /\ Kept(lines, S) \in Files
           /\ \E m : Selects(lines, S, Len(lines), Kept(lines, S), m)
           /\ 1..Len(lines) \subseteq S => Kept(lines, S) = lines
<1> DEFINE f == CHOOSE h : Keeps(lines, S, h, Len(lines))
<1>1. Len(lines) \in Nat
  BY DEF Files
<1>2. Keeps(lines, S, f, Len(lines))
  BY <1>1, KeepsExists
<1>3. Kept(lines, S) = f[Len(lines)]
  BY DEF Kept, Keeps
<1> HIDE DEF f
<1>4. /\ f[0] = <<>>
      /\ \A n \in 1..Len(lines) : f[n] = IF n \in S THEN Append(f[n - 1], lines[n]) ELSE f[n - 1]
  <2>1. 0 \in 0..Len(lines) /\ \A n \in 1..Len(lines) : n \in 0..Len(lines) /\ n # 0
    BY <1>1
  <2>2. QED
    BY <1>2, <2>1 DEF Keeps
<1> DEFINE Good(n) == /\ f[n] \in Files
                      /\ \E m : Selects(lines, S, n, f[n], m)
                      /\ 1..Len(lines) \subseteq S => f[n] = SubSeq(lines, 1, n)
           T == {n \in 0..Len(lines) : ~Good(n)}
<1>5. Good(0)
  <2>1. <<>> \in Files /\ Len(<<>>) = 0 /\ \A i \in 1..0 : FALSE
    BY DEF Files
  <2>2. SubSeq(lines, 1, 0) = <<>>
    BY DEF Files
  <2> DEFINE none == [i \in 1..0 |-> 0]
  <2>3. none \in [1..0 -> 1..0]
    BY <2>1
  <2>4. Selects(lines, S, 0, <<>>, none)
    BY <2>1, <2>3 DEF Selects
  <2>5. QED
    BY <1>4, <2>1, <2>2, <2>4
<1>6. ASSUME NEW n \in 1..Len(lines), Good(n - 1)
      PROVE  Good(n)
  <2>1. n \in Nat /\ n - 1 \in 0..Len(lines) /\ lines[n] \in LineType
    BY <1>1 DEF Files
  <2>2. PICK m : Selects(lines, S, n - 1, f[n - 1], m)
    BY <1>6
  <2>3. f[n] \in Files
    <3>1. f[n - 1] \in Files
      BY <1>6
    <3>2. Append(f[n - 1], lines[n]) \in Files
      BY <2>1, <3>1 DEF Files
    <3>3. QED
      BY <1>4, <3>1, <3>2
  <2>4. CASE n \in S
    <3>1. f[n] = Append(f[n - 1], lines[n])
      BY <1>4, <2>4
    <3>2. \E k : Selects(lines, S, n, f[n], k)
      BY <1>6, <2>2, <2>4, <3>1, SelectsOneMore
    <3>3. Append(SubSeq(lines, 1, n - 1), lines[n]) = SubSeq(lines, 1, n)
      <4> DEFINE head == SubSeq(lines, 1, n - 1)
      <4>1. head \in Files /\ 1 \in 1..Len(lines) /\ n \in 1..Len(lines)
        BY <1>1, <2>1 DEF Files
      <4>2. SubSeq(lines, 1, n) = head \o <<lines[n]>>
        BY <4>1, SubSeqRecursiveSecond DEF Files
      <4> HIDE DEF head
      <4>3. Append(head, lines[n]) = head \o <<lines[n]>>
        BY <2>1, <4>1, AppendIsConcat DEF Files
      <4>4. QED
        BY <4>2, <4>3 DEF head
    <3>4. QED
      BY <1>6, <2>3, <3>1, <3>2, <3>3
  <2>5. CASE n \notin S
    <3>1. f[n] = f[n - 1]
      BY <1>4, <2>5
    <3>2. \A s \in S : s \in 1..n => s \in 1..(n - 1)
      BY <2>1, <2>5
    <3>3. 1..(n - 1) \subseteq 1..n
      BY <2>1
    <3>4. Selects(lines, S, n, f[n], m)
      BY <2>2, <3>1, <3>2, <3>3 DEF Selects
    <3>5. QED
      BY <2>3, <2>5, <3>4
  <2>6. QED
    BY <2>4, <2>5
<1> HIDE DEF Good
<1>7. T = {}
  <2>1. SUFFICES ASSUME T # {} PROVE FALSE
    OBVIOUS
  <2>2. T \subseteq Nat
    BY <1>1
  <2>3. PICK n \in T : \A m \in T : n <= m
    BY <2>1, <2>2, LeastElement
  <2>4. n \in 1..Len(lines) /\ n - 1 \in 0..Len(lines) /\ ~(n <= n - 1)
    BY <1>1, <1>5, <2>3
  <2>5. Good(n - 1)
    BY <2>3, <2>4
  <2>6. QED
    BY <1>6, <2>3, <2>4, <2>5
<1>8. Good(Len(lines))
  BY <1>1, <1>7
<1>9. SubSeq(lines, 1, Len(lines)) = lines
  BY SubSeqFull DEF Files
<1>10. QED
  BY <1>3, <1>8, <1>9 DEF Good

(* dropGoProxyFrom drops nothing from what it has written itself: it may   *)
(* be run any number of times on a file.                                   *)
LEMMA DropTwice ==
    ASSUME NEW lines \in Files
    PROVE  /\ dropGoProxyFrom(lines) \in Files
           /\ dropGoProxyFrom(dropGoProxyFrom(lines)) = dropGoProxyFrom(lines)
<1> DEFINE S == {n \in 1..Len(lines) : ~Dropped(lines, n)}
           out == dropGoProxyFrom(lines)
           left == {n \in 1..Len(out) : ~Dropped(out, n)}
<1>1. out = Kept(lines, S)
  BY DEF dropGoProxyFrom
<1>2. dropGoProxyFrom(out) = Kept(out, left)
  BY DEF dropGoProxyFrom
<1> HIDE DEF S, out, left
<1>3. out \in Files
  BY <1>1, KeptLines
<1>4. PICK m : Selects(lines, S, Len(lines), out, m)
  BY <1>1, KeptLines
<1>5. Len(lines) \in Nat /\ Len(out) \in Nat
  BY <1>3 DEF Files
<1>6. ASSUME NEW k \in 1..Len(out), Dropped(out, k)
      PROVE  FALSE
  <2>1. /\ m[k] \in 1..Len(lines) /\ m[k] \in Nat /\ k \in Nat /\ out[k] = lines[m[k]]
        /\ ~Dropped(lines, m[k])
    BY <1>4, <1>5 DEF Selects, S
  <2>2. /\ out[k].key = "proxy_url" /\ out[k].indented /\ InGomodBlock(out)[k - 1]
    BY <1>6, <2>1 DEF Dropped
  <2>3. k - 1 \in 0..Len(out) /\ m[k] - 1 \in 0..Len(lines)
    BY <1>5, <2>1
  <2>4. GomodBefore(out, k - 1)
    BY <1>3, <2>2, <2>3, BlockState
  <2>5. PICK g \in 1..(k - 1) :
             /\ out[g].key = "gomod"
             /\ \A j \in (g + 1)..(k - 1) : out[j].key = "goproxy_url" \/ out[j].indented
    BY <2>4 DEF GomodBefore
  <2>6. g \in 1..Len(out) /\ g \in Nat /\ g < k
    BY <1>5, <2>1, <2>5
  <2>7. m[g] \in Nat /\ m[g] \in 1..(m[k] - 1) /\ lines[m[g]].key = "gomod"
    <3>1. m[g] \in 1..Len(lines) /\ m[g] < m[k] /\ out[g] = lines[m[g]]
      BY <1>4, <2>6 DEF Selects
    <3>2. QED
      BY <1>5, <2>1, <2>5, <3>1
  <2>8. ASSUME NEW j \in (m[g] + 1)..(m[k] - 1)
        PROVE  lines[j].key = "goproxy_url" \/ lines[j].indented
    <3>1. j \in 1..Len(lines) /\ j \in Nat /\ m[g] < j /\ j < m[k]
      BY <1>5, <2>1, <2>7
    <3>2. CASE j \notin S
      BY <3>1, <3>2 DEF S, Dropped
    <3>3. CASE j \in S
      <4>1. PICK i \in 1..Len(out) : m[i] = j
        BY <1>4, <3>1, <3>3 DEF Selects
      <4>2. i \in Nat /\ g < i /\ i < k
        <5>1. i \in Nat /\ i # g /\ i # k
          BY <1>5, <2>1, <2>7, <3>1, <4>1
        <5>2. ~(i < g) /\ ~(k < i)
          <6>1. i < g => m[i] < m[g]
            BY <1>4, <2>6 DEF Selects
          <6>2. k < i => m[k] < m[i]
            BY <1>4 DEF Selects
          <6>3. QED
            BY <2>1, <2>7, <3>1, <4>1, <6>1, <6>2
        <5>3. QED
          BY <2>1, <2>6, <5>1, <5>2
      <4>3. i \in (g + 1)..(k - 1)
        BY <2>1, <2>6, <4>2
      <4>4. out[i] = lines[j]
        BY <1>4, <4>1 DEF Selects
      <4>5. QED
        BY <2>5, <4>3, <4>4
    <3>4. QED
      BY <3>2, <3>3
  <2>9. GomodBefore(lines, m[k] - 1)
    BY <2>7, <2>8 DEF GomodBefore
  <2>10. InGomodBlock(lines)[m[k] - 1]
    BY <2>3, <2>9, BlockState
  <2>11. QED
    BY <2>1, <2>2, <2>10 DEF Dropped
<1>7. 1..Len(out) \subseteq left
  BY <1>6 DEF left
<1>8. Kept(out, left) = out
  BY <1>3, <1>7, KeptLines
<1>9. QED
  BY <1>2, <1>3, <1>8 DEF out

(* In a well-formed file that has no blank line or comment at the margin   *)
(* inside a block, the loop is in the gomod block exactly at the lines     *)
(* that YAML takes for its own.                                            *)
LEMMA BlockIsGomod ==
    ASSUME NEW lines \in Files, WellFormed(lines), ~Interrupted(lines),
           NEW i \in 1..Len(lines), lines[i].indented
    PROVE  InGomodBlock(lines)[i - 1] <=>
               \E h \in 1..(i - 1) : Heads(lines, h, i) /\ lines[h].key = "gomod"
<1>1. i \in Nat /\ Len(lines) \in Nat /\ i - 1 \in 0..Len(lines)
  BY DEF Files
<1>2. InGomodBlock(lines)[i - 1] <=> GomodBefore(lines, i - 1)
  BY <1>1, BlockState
<1>3. ASSUME NEW h \in 1..(i - 1), Heads(lines, h, i), lines[h].key = "gomod"
      PROVE  GomodBefore(lines, i - 1)
  <2> DEFINE T == {d \in Nat : \E j \in (h + 1)..(i - 1) : d = i - j /\ ~lines[j].indented}
  <2>1. T = {}
    <3>1. SUFFICES ASSUME T # {} PROVE FALSE
      OBVIOUS
    <3>2. T \subseteq Nat
      OBVIOUS
    <3>3. PICK d \in T : \A e \in T : d <= e
      BY <3>1, <3>2, LeastElement
    <3>4. PICK j \in (h + 1)..(i - 1) : d = i - j /\ ~lines[j].indented
      BY <3>3
    <3>5. /\ j \in Nat /\ h \in Nat /\ j \in 1..(Len(lines) - 1) /\ j + 1 \in Nat
          /\ j \in 1..Len(lines) /\ d \in Nat
      BY <1>1, <3>4
    <3>6. lines[j].key = "" /\ lines[j] \in LineType
      <4>1. lines[j] \in LineType
        BY <3>5 DEF Files
      <4>2. lines[j].key = ""
        BY <1>3, <3>4 DEF Heads
      <4>3. QED
        BY <4>1, <4>2
    <3>7. lines[j] = Line("", FALSE)
      BY <3>4, <3>6 DEF Line, LineType
    <3>8. ~lines[j + 1].indented
      BY <3>5, <3>7 DEF Interrupted
    <3>9. j + 1 # i
      BY <3>8
    <3>10. j + 1 \in (h + 1)..(i - 1) /\ i - (j + 1) \in Nat /\ i - (j + 1) < d
      BY <1>1, <3>4, <3>5, <3>9
    <3>11. i - (j + 1) \in T
      BY <3>8, <3>10
    <3>12. d <= i - (j + 1)
      BY <3>3, <3>11
    <3>13. QED
      BY <3>5, <3>10, <3>12
  <2>2. \A j \in (h + 1)..(i - 1) : lines[j].indented
    <3>1. \A j \in (h + 1)..(i - 1) : i - j \in Nat
      BY <1>1
    <3>2. QED
      BY <2>1, <3>1
  <2>3. QED
    BY <1>3, <2>2 DEF GomodBefore
<1>4. ASSUME GomodBefore(lines, i - 1)
      PROVE  \E h \in 1..(i - 1) : Heads(lines, h, i) /\ lines[h].key = "gomod"
  <2>1. PICK g \in 1..(i - 1) :
             /\ lines[g].key = "gomod"
             /\ \A j \in (g + 1)..(i - 1) : lines[j].key = "goproxy_url" \/ lines[j].indented
    BY <1>4 DEF GomodBefore
  <2>2. PICK h \in 1..(i - 1) : Heads(lines, h, i) /\ lines[h].key \notin {"", "goproxy_url"}
    BY DEF WellFormed
  <2>3. g \in Nat /\ h \in Nat /\ g \in 1..Len(lines) /\ ~lines[g].indented
    <3>1. g \in Nat /\ h \in Nat /\ g \in 1..Len(lines)
      BY <1>1
    <3>2. QED
      BY <2>1, <3>1 DEF WellFormed
  <2>4. ~(h < g)
    <3>1. SUFFICES ASSUME h < g PROVE FALSE
      OBVIOUS
    <3>2. g \in (h + 1)..(i - 1)
      BY <1>1, <2>1, <2>3, <3>1
    <3>3. QED
      BY <2>1, <2>2, <2>3, <3>2 DEF Heads
  <2>5. ~(g < h)
    <3>1. SUFFICES ASSUME g < h PROVE FALSE
      OBVIOUS
    <3>2. h \in (g + 1)..(i - 1)
      BY <1>1, <2>3, <3>1
    <3>3. QED
      BY <2>1, <2>2, <3>2 DEF Heads
  <2>6. g = h
    BY <2>3, <2>4, <2>5
  <2>7. QED
    BY <2>1, <2>2, <2>6
<1>5. QED
  BY <1>2, <1>3, <1>4

(* So it drops exactly the lines that set the Go proxy. *)
LEMMA DropsTheGoProxy ==
    ASSUME NEW lines \in Files, WellFormed(lines), ~Interrupted(lines)
    PROVE  dropGoProxyFrom(lines) = WithoutGoProxy(lines)
<1>1. ASSUME NEW n \in 1..Len(lines)
      PROVE  Dropped(lines, n) <=> SetsGoProxy(lines, n)
  <2>1. CASE lines[n].indented
    BY <2>1, BlockIsGomod DEF Dropped, SetsGoProxy
  <2>2. CASE ~lines[n].indented
    BY <2>2 DEF Dropped, SetsGoProxy, Heads
  <2>3. QED
    BY <2>1, <2>2
<1>2. {n \in 1..Len(lines) : ~Dropped(lines, n)} = {n \in 1..Len(lines) : ~SetsGoProxy(lines, n)}
  BY <1>1
<1>3. QED
  BY <1>2 DEF dropGoProxyFrom, WithoutGoProxy

(* The configuration file is the user's, or that without what              *)
(* dropGoProxyFrom drops, as it is once a run has rewritten it.            *)
ConfigInv ==
    /\ ~torn => config \in {original, dropGoProxyFrom(original)}
    /\ /\ pc \in {"git credentials", "git config", "register", "inject", "fetch deps"}
       /\ params.configFile /\ ~torn
       => config = dropGoProxyFrom(original)

(* When hermeto fetches, its configuration file has lost the Go proxy and  *)
(* no other line, for every well-formed file without a blank line or a     *)
(* comment at the margin inside a block, and after any number of runs of   *)
(* prefetch-dependencies, as long as none tore it.                         *)
THEOREM ConfigLosesOnlyGoProxy == Spec => []ConfigOnlyLosesGoProxy
<1>1. ASSUME Init
      PROVE  ConfigInv
  BY <1>1 DEF Init, ConfigInv
<1>2. ASSUME ConfigInv, InputInv, [CacheProxyStep \/ PrefetchStep]_vars
      PROVE  ConfigInv'
  <2>1. CASE CacheProxyStep
    <3>1. ASSUME NEW p \in Hosts[name].cacheProxy,
                 NEW c \in Hosts[name].clusters \union {Unreadable}, StartCacheProxy(p, c)
          PROVE  ConfigInv'
      BY <1>2, <3>1 DEF ConfigInv, StartCacheProxy
    <3>2. CASE WriteHttpProxy
      BY <1>2, <3>2 DEF ConfigInv, WriteHttpProxy, host, task
    <3>3. CASE WriteNoProxy
      BY <1>2, <3>3 DEF ConfigInv, WriteNoProxy, host, task
    <3>4. QED
      BY <2>1, <3>1, <3>2, <3>3 DEF CacheProxyStep
  <2>2. CASE PrefetchStep
    <3>1. ASSUME NEW p \in Hosts[name].prefetch,
                 NEW c \in Hosts[name].clusters \union {Unreadable}, StartPrefetch(p, c)
          PROVE  ConfigInv'
      BY <1>2, <3>1 DEF ConfigInv, StartPrefetch
    <3>2. CASE Version
      BY <1>2, <3>2 DEF ConfigInv, Version, Return, host, task
    <3>3. CASE DropGoProxyStep
      <4>1. original \in Files
        BY <1>2, PrefetchAssumption DEF InputInv, Files, LineType
      <4>2. UNCHANGED <<original, torn, params>> /\ pc' = "git credentials"
        BY <3>3 DEF DropGoProxyStep, task
      <4>3. config' = IF params.configFile THEN dropGoProxyFrom(config) ELSE config
        BY <3>3 DEF DropGoProxyStep
      <4>4. QED
        BY <1>2, <4>1, <4>2, <4>3, DropTwice DEF ConfigInv
    <3>4. CASE WriteGitCredentials
      BY <1>2, <3>4 DEF ConfigInv, WriteGitCredentials, Return, task
    <3>5. CASE WriteGitConfig
      BY <1>2, <3>5 DEF ConfigInv, WriteGitConfig, Return, task
    <3>6. CASE RegisterRHSM
      BY <1>2, <3>6 DEF ConfigInv, RegisterRHSM, Return
    <3>7. CASE InjectRPMInput
      BY <1>2, <3>7 DEF ConfigInv, InjectRPMInput, Return, host
    <3>8. CASE FetchDeps
      BY <1>2, <3>8 DEF ConfigInv, FetchDeps, host, task
    <3>9. CASE GenerateEnv
      BY <1>2, <3>9 DEF ConfigInv, GenerateEnv, host
    <3>10. CASE InjectFiles
      BY <1>2, <3>10 DEF ConfigInv, InjectFiles, Return, host, task
    <3>11. CASE UnregisterRHSM
      BY <1>2, <3>11 DEF ConfigInv, UnregisterRHSM, task
    <3>12. CASE TearConfig
      BY <1>2, <3>12 DEF ConfigInv, TearConfig, task
    <3>13. CASE TearHome
      BY <1>2, <3>13 DEF ConfigInv, TearHome, task
    <3>14. CASE Fail
      BY <1>2, <3>14 DEF ConfigInv, Fail, Return, host, task
    <3>15. CASE Kill
      BY <1>2, <3>15 DEF ConfigInv, Kill, host, task
    <3>16. QED
      BY <2>2, <3>1, <3>2, <3>3, <3>4, <3>5, <3>6, <3>7, <3>8, <3>9, <3>10, <3>11, <3>12,
         <3>13, <3>14, <3>15 DEF PrefetchStep
  <2>3. CASE UNCHANGED vars
    BY <1>2, <2>3 DEF ConfigInv, vars, host, task
  <2>4. QED
    BY <1>2, <2>1, <2>2, <2>3
<1>3. ASSUME ConfigInv, InputInv
      PROVE  ConfigOnlyLosesGoProxy
  <2>1. original \in Files
    BY <1>3, PrefetchAssumption DEF InputInv, Files, LineType
  <2>2. QED
    BY <1>3, <2>1, DropsTheGoProxy DEF ConfigInv, ConfigOnlyLosesGoProxy
<1>4. QED
  BY <1>1, <1>2, <1>3, InputsKnown, PTL DEF Spec
================================================================================
