------------------------------ MODULE Registry ------------------------------
(***************************************************************************)
(* The registry endpoints that all applications share, and how one image   *)
(* of one application gets its tag list from them: endpoint lookup and     *)
(* inference, credentials with their cache, expiry and single flight, the  *)
(* retry after a refused request, bearer tokens, the concurrent fetch of   *)
(* the tags' metadata and the tag cache.                                   *)
(*                                                                         *)
(* A worker is a goroutine of UpdateApplication; it looks at one image,    *)
(* cycle after cycle.  Prefixes, registries and image names are texts, in  *)
(* pieces of which "/" is one.  A credential is a source and the version of the      *)
(* password it had when it was read.                                       *)
(***************************************************************************)
EXTENDS Naturals, FiniteSets, Sequences

CONSTANTS
  Workers,
  Images,           \* the images the workers may look at: functions from workers
  Prefixes,         \* all registry prefixes that occur
  Configured,       \* the prefixes in registries.conf
  Credentials,      \* Credentials[p]: the credential source configured for p
  Expires,          \* the prefixes configured with credsexpire
  Sources,          \* credential sources (secrets)
  DefaultPrefix,    \* the prefix configured with default: true
  DockerHub,        \* the built-in registry (registryTweaks)
  TagNames,
  TagList,          \* TagList[n]: the tags the registry lists for repository n
  Responses,        \* the refusals a registry may send: status and body
  None,
  MaxMetadataConcurrency,
  MaxRotations,     \* bound: password changes of each source
  MaxBuild,         \* bound: pushes to one tag
  MaxFaults         \* bound: failing calls

VARIABLES
  loaded,           \* the prefixes LoadRegistryConfiguration has added
  registries,       \* registries[p]: the endpoint object at prefix p
  defaultRegistry,
  user,             \* user[e]: Username and Password cached on endpoint e
  age,              \* age[e]: whether CredsUpdated is zero, recent or too long ago
  cache,            \* cache[e][k]: the build of tag k in the cache of e, or 0
  pc, img,          \* a worker's position and the image it looks at
  ep, cred,         \* its endpoint, and its client's credential
  retried,          \* a worker has used up its retry
  refusal,          \* the response that refused a worker's request
  token,            \* a worker's client holds a bearer token
  todo, inflight,   \* tags not yet looked at, tags a goroutine fetches
  list,             \* the tag list of a worker
  password,         \* password[s]: the version the registry accepts
  secret,           \* secret[s]: the version in the cluster
  build,            \* build[k]: the newest build pushed to tag k[2] of repository k[1]
  faults

epVars == <<loaded, registries, defaultRegistry>>
credVars == <<user, age>>
tagVars == <<token, todo, inflight, list>>
envVars == <<password, secret, build>>
vars == <<epVars, credVars, cache, pc, img, ep, cred, retried, refusal, tagVars, envVars, faults>>

-----------------------------------------------------------------------------
(* Several endpoint objects may exist for one prefix: the built-in one,   *)
(* its copy in the table, the configured one, and those workers inferred.   *)

ImageType ==
  [registry : Prefixes \cup {<<>>}, name : Seq(STRING), secret : Sources \cup {None},
   strategy : {"semver", "newest-build", "digest"}, constraint : TagNames]

AllImages == {f[w] : f \in Images, w \in Workers}

Endpoints == Prefixes \X ({"default", "init", "config"} \cup Workers)

TagKeys == {i.name : i \in AllImages} \X TagNames

Creds == {c \in Sources \X Nat : c[2] <= MaxRotations[c[1]]}

ASSUME RegistryAssumption ==
  /\ None \notin Sources /\ None \notin Endpoints /\ None \notin Creds
  /\ Images \subseteq [Workers -> ImageType]
  /\ Configured \subseteq Prefixes /\ Expires \subseteq Configured /\ DockerHub \in Prefixes
  /\ Credentials \in [Prefixes -> Sources \cup {None}]
  /\ MaxRotations \in [Sources -> Nat]
  /\ MaxBuild \in Nat \ {0}

\* Only endpoints from the configuration have a credential source.
SourceOf(e) == IF e[2] = "config" THEN Credentials[e[1]] ELSE None

\* credsexpire is optional; without it credentials are cached until a restart.
CredsExpire(e) == e[2] = "config" /\ e[1] \in Expires
Expiring == {e \in Endpoints : CredsExpire(e)}

HasPrefix(p, s) == Len(p) <= Len(s) /\ SubSeq(s, 1, Len(p)) = p

FullName(w) == img[w].registry \o <<"/">> \o img[w].name

EffectiveSource(w) == IF img[w].secret # None THEN img[w].secret ELSE SourceOf(ep[w])

usingEndpointCreds(w) == img[w].secret = None

\* Mutant: every strategy reads the cache.
AlwaysCacheable(w) == TRUE

\* Only the digest strategy bypasses the tag cache; it wants one tag.
IsCacheable(w) == img[w].strategy # "digest"
FetchesMetadata(w) == img[w].strategy \in {"newest-build", "digest"}
Wanted(w) == IF img[w].strategy = "digest" THEN {img[w].constraint} ELSE TagList[img[w].name]

-----------------------------------------------------------------------------
(* Loading the configuration; the process exits when an entry is invalid,   *)
(* and no application is looked at before the last entry.                   *)

Init ==
  /\ loaded = {}
  /\ registries = [p \in Prefixes |-> IF p = DockerHub THEN <<p, "init">> ELSE None]
  /\ defaultRegistry = <<DockerHub, "default">>
  /\ user = [e \in Endpoints |-> None]
  /\ age = [e \in Endpoints |-> "zero"]
  /\ cache = [e \in Endpoints |-> [k \in TagKeys |-> 0]]
  /\ pc = [w \in Workers |-> "start"]
  /\ img \in Images
  /\ ep = [w \in Workers |-> None]
  /\ cred = [w \in Workers |-> None]
  /\ retried = [w \in Workers |-> FALSE]
  /\ refusal = [w \in Workers |-> None]
  /\ token = [w \in Workers |-> FALSE]
  /\ todo = [w \in Workers |-> {}]
  /\ inflight = [w \in Workers |-> {}]
  /\ list = [w \in Workers |-> {}]
  /\ password = [s \in Sources |-> 0]
  /\ secret = [s \in Sources |-> 0]
  /\ build = [k \in TagKeys |-> 1]
  /\ faults = 0

AddRegistryEndpoint(e) == registries' = [registries EXCEPT ![e[1]] = e]

LoadRegistryConfiguration(p) ==
  /\ p \in Configured \ loaded
  /\ loaded' = loaded \cup {p}
  /\ AddRegistryEndpoint(<<p, "config">>)
  /\ defaultRegistry' = IF p = DefaultPrefix THEN <<p, "config">> ELSE defaultRegistry
  /\ UNCHANGED <<credVars, cache, pc, img, ep, cred, retried, refusal, tagVars, envVars, faults>>

-----------------------------------------------------------------------------
(* GetRegistryEndpoint: the table is read under the lock, twice, and an     *)
(* inferred endpoint is added under the lock later.                         *)

To(w, at) == pc' = [pc EXCEPT ![w] = at]

Found(w, e) == ep' = [ep EXCEPT ![w] = e] /\ To(w, "creds")

GetRegistryEndpoint(w) ==
  /\ pc[w] = "start"
  /\ loaded = Configured
  /\ \/ /\ img[w].registry = <<>>
        /\ Found(w, defaultRegistry)
     \/ /\ img[w].registry # <<>>
        /\ registries[img[w].registry] # None
        /\ Found(w, registries[img[w].registry])
     \/ /\ img[w].registry # <<>>
        /\ registries[img[w].registry] = None
        /\ To(w, "find") /\ UNCHANGED ep
  /\ UNCHANGED <<epVars, credVars, cache, img, cred, retried, refusal, tagVars, envVars, faults>>

\* The registered prefixes that w's image starts with.
Matching(w) == {p \in Prefixes : registries[p] # None /\ HasPrefix(p, FullName(w))}

findRegistryEndpointByImage(w) ==
  /\ pc[w] = "find"
  /\ \/ \E p \in Matching(w) :
          /\ \A q \in Matching(w) : Len(q) <= Len(p)
          /\ Found(w, registries[p])
     \/ /\ Matching(w) = {}
        /\ ep' = [ep EXCEPT ![w] = <<img[w].registry, w>>]
        /\ To(w, "add")
  /\ UNCHANGED <<epVars, credVars, cache, img, cred, retried, refusal, tagVars, envVars, faults>>

AddInferred(w) ==
  /\ pc[w] = "add"
  /\ AddRegistryEndpoint(ep[w])
  /\ To(w, "creds")
  /\ UNCHANGED <<loaded, defaultRegistry, credVars, cache, img, ep, cred, retried, refusal, tagVars, envVars, faults>>

-----------------------------------------------------------------------------
(* SetEndpointCredentials: one flight per registry API and source.          *)

InFlight(w) == pc[w] \in {"begin", "fetch", "store"}

\* Mutant: the flight is keyed by the registry alone.
RegistryOnly(w) == <<ep[w][1]>>

flightKey(w) == <<ep[w][1], EffectiveSource(w)>>

\* Mutant: no single flight.
NoSingleFlight(w) ==
  /\ pc[w] = "creds"
  /\ To(w, "begin")
  /\ UNCHANGED <<epVars, credVars, cache, img, ep, cred, retried, refusal, tagVars, envVars, faults>>

SetEndpointCredentials(w) ==
  /\ pc[w] = "creds"
  /\ IF \E v \in Workers : InFlight(v) /\ flightKey(v) = flightKey(w)
       THEN To(w, "joined")
       ELSE To(w, "begin")
  /\ UNCHANGED <<epVars, credVars, cache, img, ep, cred, retried, refusal, tagVars, envVars, faults>>

\* The workers that get the result of w's flight.
Flight(w) == {w} \cup {v \in Workers : pc[v] = "joined" /\ flightKey(v) = flightKey(w)}

EndFlight(w, c) ==
  /\ pc' = [v \in Workers |-> IF v \in Flight(w) THEN "client" ELSE pc[v]]
  /\ cred' = [v \in Workers |-> IF v \in Flight(w) THEN c ELSE cred[v]]

credsExpiredByTime(e) == SourceOf(e) # None /\ CredsExpire(e) /\ age[e] = "expired"

\* Mutant: expired credentials are kept.
NeverUnexpired(e) == user[e]

\* Username after expireCredentials.
Unexpired(e) == IF credsExpiredByTime(e) THEN None ELSE user[e]

useCachedEndpointCreds(w) == usingEndpointCreds(w) /\ Unexpired(ep[w]) # None

setEndpointCredentialsInternal(w) ==
  /\ pc[w] = "begin"
  /\ user' = [user EXCEPT ![ep[w]] = Unexpired(ep[w])]
  /\ IF useCachedEndpointCreds(w) \/ EffectiveSource(w) = None
       THEN EndFlight(w, Unexpired(ep[w]))
       ELSE To(w, "fetch") /\ UNCHANGED cred
  /\ UNCHANGED <<epVars, age, cache, img, ep, retried, refusal, tagVars, envVars, faults>>

FetchCredentials(w) ==
  /\ pc[w] = "fetch"
  /\ LET c == <<EffectiveSource(w), secret[EffectiveSource(w)]>> IN
     IF usingEndpointCreds(w)
       THEN To(w, "store") /\ cred' = [cred EXCEPT ![w] = c]
       ELSE EndFlight(w, c)
  /\ UNCHANGED <<epVars, credVars, cache, img, ep, retried, refusal, tagVars, envVars, faults>>

StoreCredentials(w) ==
  /\ pc[w] = "store"
  /\ user' = [user EXCEPT ![ep[w]] = cred[w]]
  /\ age' = [age EXCEPT ![ep[w]] = "fresh"]
  /\ EndFlight(w, cred[w])
  /\ UNCHANGED <<epVars, cache, img, ep, retried, refusal, tagVars, envVars, faults>>

-----------------------------------------------------------------------------
(* The registry's answers.                                                  *)

\* The token server grants a token for the password of today, and to
\* anonymous clients where the image is public.
fetchToken(w) ==
  IF cred[w] = None THEN EffectiveSource(w) = None ELSE cred[w][2] = password[cred[w][1]]

\* A client authorises a request with its token; without one, or with an
\* expired one, it fetches one with its credential.
getToken(w) == token[w] \/ fetchToken(w)

\* What the body of a refusal becomes: a list of errors, the client's own
\* error type, or one error made from the status (makeError).
parseHTTPErrorResponse(r) ==
  CASE r.body = "errors" -> "Errors"
    [] r.body = "unparsable" -> "UnexpectedHTTPResponseError"
    [] OTHER -> "Error"

\* An error in the bearer challenge is merged with that of the body.
HandleHTTPResponseError(r) ==
  CASE r.body = "challenge" -> "Errors"
    [] r.body = "unparsable" /\ r.status = 401 -> "Error"
    [] OTHER -> parseHTTPErrorResponse(r)

IsAuthError(r) == HandleHTTPResponseError(r) \in {"Errors", "UnexpectedHTTPResponseError"}

\* The workers W are done with their images until the next cycle; endpoint
\* reference, client and tag list go out of scope.
Return(W) ==
  /\ pc' = [w \in Workers |-> IF w \in W THEN "start" ELSE pc[w]]
  /\ ep' = [w \in Workers |-> IF w \in W THEN None ELSE ep[w]]
  /\ cred' = [w \in Workers |-> IF w \in W THEN None ELSE cred[w]]
  /\ token' = [w \in Workers |-> IF w \in W THEN FALSE ELSE token[w]]
  /\ list' = [w \in Workers |-> IF w \in W THEN {} ELSE list[w]]
  /\ retried' = [w \in Workers |-> IF w \in W THEN FALSE ELSE retried[w]]

\* NewClient and NewRepository: the client falls back to the endpoint's
\* cached credential, then the registry is pinged.
NewRepository(w) ==
  /\ pc[w] = "client"
  /\ cred' = [cred EXCEPT ![w] = IF @ = None THEN user[ep[w]] ELSE @]
  /\ token' = [token EXCEPT ![w] = FALSE]
  /\ To(w, "tags")
  /\ UNCHANGED <<epVars, credVars, cache, img, ep, retried, refusal, todo, inflight, list, envVars, faults>>

Tags(w) ==
  /\ pc[w] = "tags"
  /\ \/ /\ getToken(w)
        /\ FetchesMetadata(w)
        /\ token' = [token EXCEPT ![w] = TRUE]
        /\ todo' = [todo EXCEPT ![w] = Wanted(w)]
        /\ To(w, "meta")
        /\ UNCHANGED <<ep, cred, retried, refusal, list>>
     \/ /\ getToken(w)
        /\ ~FetchesMetadata(w)
        /\ Return({w})
        /\ UNCHANGED <<refusal, todo>>
     \/ /\ ~getToken(w)
        /\ \E r \in Responses : refusal' = [refusal EXCEPT ![w] = r]
        /\ To(w, "refused")
        /\ UNCHANGED <<ep, cred, retried, token, todo, list>>
  /\ UNCHANGED <<epVars, credVars, cache, img, inflight, envVars, faults>>

\* The credential was refused although it should still be good.
ClearsCredentials(w) ==
  /\ usingEndpointCreds(w)
  /\ CredsExpire(ep[w])
  /\ ~credsExpiredByTime(ep[w])
  /\ IsAuthError(refusal[w])

\* GetTags under ep.lock, and UpdateApplication's single retry.
Refused(w) ==
  /\ pc[w] = "refused"
  /\ user' = [user EXCEPT ![ep[w]] = IF ClearsCredentials(w) THEN None ELSE @]
  /\ IF ClearsCredentials(w) /\ ~retried[w]
       THEN /\ retried' = [retried EXCEPT ![w] = TRUE]
            /\ To(w, "creds")
            /\ UNCHANGED <<ep, cred, token, list>>
       ELSE Return({w})
  /\ refusal' = [refusal EXCEPT ![w] = None]
  /\ UNCHANGED <<epVars, age, cache, img, todo, inflight, envVars, faults>>

-----------------------------------------------------------------------------
(* Metadata: a goroutine per tag that is not in the cache.                  *)

Key(w, t) == <<img[w].name, t>>

CacheHit(w, t) == IsCacheable(w) /\ cache[ep[w]][Key(w, t)] # 0

LookUp(w, t) ==
  /\ pc[w] = "meta" /\ t \in todo[w]
  /\ todo' = [todo EXCEPT ![w] = @ \ {t}]
  /\ \/ /\ CacheHit(w, t)
        /\ list' = [list EXCEPT ![w] = @ \cup {<<t, cache[ep[w]][Key(w, t)]>>}]
        /\ UNCHANGED inflight
     \/ /\ ~CacheHit(w, t)
        /\ Cardinality(inflight[w]) < MaxMetadataConcurrency
        /\ inflight' = [inflight EXCEPT ![w] = @ \cup {t}]
        /\ UNCHANGED list
  /\ UNCHANGED <<epVars, credVars, cache, pc, img, ep, cred, retried, refusal, token, envVars, faults>>

\* A tag whose manifest or metadata cannot be had is left out.
FetchMetadata(w, t) ==
  /\ t \in inflight[w]
  /\ inflight' = [inflight EXCEPT ![w] = @ \ {t}]
  /\ IF getToken(w)
       THEN /\ token' = [token EXCEPT ![w] = TRUE]
            /\ list' = [list EXCEPT ![w] = @ \cup {<<t, build[Key(w, t)]>>}]
            /\ cache' = [cache EXCEPT ![ep[w]][Key(w, t)] = build[Key(w, t)]]
       ELSE UNCHANGED <<token, list, cache>>
  /\ UNCHANGED <<epVars, credVars, pc, img, ep, cred, retried, refusal, todo, envVars, faults>>

\* Mutant: GetTags does not wait for the goroutines it started.
NoWait(w) ==
  /\ pc[w] = "meta" /\ todo[w] = {}
  /\ Return({w})
  /\ UNCHANGED <<epVars, credVars, cache, img, refusal, todo, inflight, envVars, faults>>

\* wg.Wait
GetTagsReturns(w) ==
  /\ pc[w] = "meta" /\ todo[w] = {} /\ inflight[w] = {}
  /\ Return({w})
  /\ UNCHANGED <<epVars, credVars, cache, img, refusal, todo, inflight, envVars, faults>>

-----------------------------------------------------------------------------
(* Failures, time, and the world outside.                                   *)

\* A Kubernetes or registry call fails for another reason.
CallFails(w) ==
  /\ faults < MaxFaults
  /\ faults' = faults + 1
  /\ \/ /\ pc[w] = "fetch"
        /\ Return(Flight(w))
        /\ UNCHANGED inflight
     \/ /\ pc[w] \in {"client", "tags"}
        /\ Return({w})
        /\ UNCHANGED inflight
     \/ /\ \E t \in inflight[w] : inflight' = [inflight EXCEPT ![w] = @ \ {t}]
        /\ UNCHANGED <<pc, ep, cred, retried, token, list>>
  /\ UNCHANGED <<epVars, credVars, cache, img, refusal, todo, envVars>>

\* CredsExpire has passed since CredsUpdated.
TimePasses(e) ==
  /\ age[e] = "fresh"
  /\ age' = [age EXCEPT ![e] = "expired"]
  /\ UNCHANGED <<epVars, user, cache, pc, img, ep, cred, retried, refusal, tagVars, envVars, faults>>

TokenExpires(w) ==
  /\ token[w] /\ pc[w] = "meta"
  /\ token' = [token EXCEPT ![w] = FALSE]
  /\ UNCHANGED <<epVars, credVars, cache, pc, img, ep, cred, retried, refusal, todo, inflight, list, envVars, faults>>

Rotate(s) ==
  /\ password[s] < MaxRotations[s]
  /\ password' = [password EXCEPT ![s] = @ + 1]
  /\ UNCHANGED <<epVars, credVars, cache, pc, img, ep, cred, retried, refusal, tagVars, secret, build, faults>>

UpdateSecret(s) ==
  /\ secret[s] # password[s]
  /\ secret' = [secret EXCEPT ![s] = password[s]]
  /\ UNCHANGED <<epVars, credVars, cache, pc, img, ep, cred, retried, refusal, tagVars, password, build, faults>>

\* A tag whose metadata a worker fetches is pushed again; no one sees the others.
PushTag(k) ==
  /\ \E w \in Workers : img[w].name = k[1] /\ FetchesMetadata(w) /\ k[2] \in Wanted(w)
  /\ build[k] < MaxBuild
  /\ build' = [build EXCEPT ![k] = @ + 1]
  /\ UNCHANGED <<epVars, credVars, cache, pc, img, ep, cred, retried, refusal, tagVars, password, secret, faults>>

Worker(w) ==
  \/ GetRegistryEndpoint(w) \/ findRegistryEndpointByImage(w) \/ AddInferred(w)
  \/ SetEndpointCredentials(w) \/ setEndpointCredentialsInternal(w)
  \/ FetchCredentials(w) \/ StoreCredentials(w)
  \/ NewRepository(w) \/ Tags(w) \/ Refused(w)
  \/ \E t \in TagNames : LookUp(w, t) \/ FetchMetadata(w, t)
  \/ GetTagsReturns(w)

Next ==
  \/ \E p \in Configured : LoadRegistryConfiguration(p)
  \/ \E w \in Workers : Worker(w) \/ CallFails(w) \/ TokenExpires(w)
  \/ \E e \in Expiring : TimePasses(e)
  \/ \E s \in Sources : Rotate(s) \/ UpdateSecret(s)
  \/ \E k \in TagKeys : PushTag(k)

Spec == Init /\ [][Next]_vars

\* The Go scheduler runs every goroutine; time passes; whoever changes a
\* password updates the secret; the configuration is loaded once.
Fairness ==
  /\ \A p \in Configured : WF_vars(LoadRegistryConfiguration(p))
  /\ \A w \in Workers : WF_vars(Worker(w))
  /\ \A e \in Expiring : WF_vars(TimePasses(e))
  /\ \A s \in Sources : WF_vars(UpdateSecret(s))

FairSpec == Spec /\ Fairness

-----------------------------------------------------------------------------
(* Properties.                                                              *)

\* The variables have their types; no goroutine of GetTags outlives it.
TypeOK ==
  /\ loaded \subseteq Configured
  /\ registries \in [Prefixes -> Endpoints \cup {None}]
  /\ defaultRegistry \in Endpoints
  /\ user \in [Endpoints -> Creds \cup {None}]
  /\ age \in [Endpoints -> {"zero", "fresh", "expired"}]
  /\ cache \in [Endpoints -> [TagKeys -> 0 .. MaxBuild]]
  /\ DOMAIN pc = Workers
  /\ img \in Images
  /\ ep \in [Workers -> Endpoints \cup {None}]
  /\ cred \in [Workers -> Creds \cup {None}]
  /\ DOMAIN inflight = Workers
  /\ \A w \in Workers : inflight[w] # {} => pc[w] = "meta"
  /\ DOMAIN password = Sources /\ \A s \in Sources : password[s] \in 0 .. MaxRotations[s]
  /\ DOMAIN secret = Sources /\ \A s \in Sources : secret[s] \in 0 .. MaxRotations[s]
  /\ build \in [TagKeys -> 1 .. MaxBuild]

\* The credential an endpoint caches is one of its own source, and a client
\* never talks to a registry with the credential of another source than the
\* one its image asks for, however flights, expiry and refusals of several
\* applications interleave on the endpoint they share (SetEndpointCredentials).
RightCredentials ==
  /\ \A e \in Endpoints : user[e] # None => user[e][1] = SourceOf(e)
  /\ \A w \in Workers : pc[w] \in {"store", "client", "tags", "refused", "meta"} =>
       \/ cred[w] = None
       \/ cred[w][1] = EffectiveSource(w)

\* The credentials of one source are never read twice at the same time for
\* the same registry (flightGroup.Do in SetEndpointCredentials).
SingleFetch ==
  \A v, w \in Workers :
    v # w /\ InFlight(v) /\ InFlight(w) => flightKey(v) # flightKey(w)

\* The endpoint caches its credential without an expiry: nothing drops it.
CachedForGood(w) == usingEndpointCreds(w) /\ SourceOf(ep[w]) # None /\ ~CredsExpire(ep[w])

\* Once passwords stop changing and calls stop failing, every cycle of every
\* application gets its tags, unless it uses the credential of an endpoint
\* configured without credsexpire, which stays stale until a restart.  Any other
\* stale credential is dropped, at the latest when it expires, and no worker waits
\* for a flight that is over (expireCredentials, the retry in UpdateApplication).
Recovers ==
  \A w \in Workers :
    /\ []<>(pc[w] = "start")
    /\ <>[](pc[w] = "refused" => CachedForGood(w))
    /\ <>[](pc[w] = "meta" /\ todo[w] = {} /\ inflight[w] = {} =>
              {x[1] : x \in list[w]} = Wanted(w))

\* In the end the digest strategy works with the manifest that was pushed
\* last, whatever other strategies put into the shared cache (GetTags).
DigestCurrent ==
  \A w \in Workers :
    <>[](img[w].strategy = "digest" /\ pc[w] = "meta" =>
           \A x \in list[w] : x[2] = build[Key(w, x[1])])
=============================================================================
