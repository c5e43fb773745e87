---------------------------- MODULE RegistryProofs ----------------------------
(***************************************************************************)
(* Proofs about Registry, for every set of workers, images, prefixes and   *)
(* sources and every value of the bounds: the types, that no client uses   *)
(* the credential of another source than its image's, and that the         *)
(* credentials of one source are read by one flight at a time.             *)
(***************************************************************************)
EXTENDS Registry, TLAPS

USE RegistryAssumption

-----------------------------------------------------------------------------
(***************************************************************************)
(* Constants and helpers.                                                  *)
(***************************************************************************)

\* A configured credential source is a source or there is none.
LEMMA SourceOfType ==
    ASSUME NEW e \in Endpoints
    PROVE  SourceOf(e) \in Sources \cup {None}
BY DEF SourceOf, Endpoints

\* An image is one of its worker's, with a registry, a secret and a name.
LEMMA ImageFields ==
    ASSUME TypeOK, NEW w \in Workers
    PROVE  /\ img[w].registry \in Prefixes \cup {<<>>}
           /\ img[w].secret \in Sources \cup {None}
           /\ \A t \in TagNames : Key(w, t) \in TagKeys
<1>1. img \in Images /\ img \in [Workers -> ImageType]
  BY Zenon, RegistryAssumption DEF TypeOK, RegistryAssumption
<1>2. img[w] \in ImageType
  BY <1>1
<1>3. img[w].name \in {i.name : i \in AllImages}
  <2>1. img[w] \in AllImages
    BY <1>1 DEF AllImages
  <2>2. QED
    BY Zenon, <2>1
<1>4. \A t \in TagNames : Key(w, t) \in TagKeys
  BY Zenon, <1>3 DEF Key, TagKeys
<1>5. QED
  BY <1>2, <1>4 DEF ImageType

\* The source a worker's image asks for is a source or there is none.
LEMMA EffectiveSourceType ==
    ASSUME TypeOK, NEW w \in Workers, ep[w] \in Endpoints
    PROVE  EffectiveSource(w) \in Sources \cup {None}
BY Zenon, SourceOfType, ImageFields DEF EffectiveSource

\* An endpoint object of a known prefix.
LEMMA EndpointTypes ==
    ASSUME NEW p \in Prefixes
    PROVE  /\ <<p, "default">> \in Endpoints
           /\ <<p, "init">> \in Endpoints
           /\ <<p, "config">> \in Endpoints
           /\ \A w \in Workers : <<p, w>> \in Endpoints
BY Zenon DEF Endpoints

\* A credential read from the cluster.
LEMMA CredType ==
    ASSUME TypeOK, NEW s \in Sources
    PROVE  <<s, secret[s]>> \in Creds
<1>1. secret[s] \in 0 .. MaxRotations[s] /\ MaxRotations[s] \in Nat
  BY DEF TypeOK
<1>2. QED
  BY <1>1 DEF Creds

-----------------------------------------------------------------------------
(***************************************************************************)
(* The inductive invariant.                                                *)
(***************************************************************************)

\* An endpoint caches only the credentials of its own source.
OwnCredentials == \A e \in Endpoints : user[e] # None => user[e][1] = SourceOf(e)

\* What holds at each position of a worker: it has an endpoint once it was
\* found, it only reads the credentials of a source there is, only those of
\* the endpoint are stored on it, a client without a credential needs none,
\* and any other client has one of the source its image asks for.
Sound(w) ==
  /\ pc[w] \notin {"start", "find"} => ep[w] # None
  /\ pc[w] = "find" => img[w].registry # <<>>
  /\ pc[w] = "fetch" => EffectiveSource(w) # None
  /\ pc[w] = "store" => usingEndpointCreds(w) /\ cred[w] # None
  /\ pc[w] = "client" /\ cred[w] = None => EffectiveSource(w) = None
  /\ pc[w] \in {"store", "client", "tags", "refused", "meta"} =>
       cred[w] = None \/ cred[w][1] = EffectiveSource(w)

IInv ==
  /\ TypeOK
  /\ OwnCredentials
  /\ \A w \in Workers : Sound(w)
  /\ SingleFetch

\* A worker that has an endpoint has one of the endpoint objects.
LEMMA HasEndpoint ==
    ASSUME TypeOK, NEW w \in Workers, Sound(w), pc[w] \notin {"start", "find"}
    PROVE  ep[w] \in Endpoints
BY DEF TypeOK, Sound

\* A step that does not touch a worker keeps it sound.
LEMMA Untouched ==
    ASSUME NEW w \in Workers, Sound(w),
           pc'[w] = pc[w], ep'[w] = ep[w], cred'[w] = cred[w], img' = img
    PROVE  Sound(w)'
BY DEF Sound, EffectiveSource, usingEndpointCreds

\* A worker that is done with its image is sound.
LEMMA Restarted ==
    ASSUME NEW w \in Workers, pc'[w] = "start"
    PROVE  Sound(w)'
BY DEF Sound

\* Flights end or keep their key, and none begins.
LEMMA NoNewFlight ==
    ASSUME SingleFetch, img' = img,
           \A w \in Workers : InFlight(w)' => InFlight(w) /\ ep'[w] = ep[w]
    PROVE  SingleFetch'
<1>1. \A w \in Workers : InFlight(w)' => flightKey(w)' = flightKey(w)
  BY Zenon DEF flightKey, EffectiveSource
<1>2. QED
  BY Zenon, <1>1 DEF SingleFetch

\* A worker moves on: what To does to the positions.
LEMMA Moves ==
    ASSUME TypeOK, NEW w \in Workers, NEW at, To(w, at)
    PROVE  /\ DOMAIN pc' = Workers
           /\ pc'[w] = at
           /\ \A v \in Workers : v # w => pc'[v] = pc[v]
BY Zenon DEF To, TypeOK

\* What Return does to the workers that are done and to the others.
LEMMA Returns ==
    ASSUME TypeOK, NEW W \in SUBSET Workers, Return(W)
    PROVE  /\ DOMAIN pc' = Workers
           /\ ep' \in [Workers -> Endpoints \cup {None}]
           /\ cred' \in [Workers -> Creds \cup {None}]
           /\ \A v \in W : pc'[v] = "start"
           /\ \A v \in Workers : v \notin W =>
                pc'[v] = pc[v] /\ ep'[v] = ep[v] /\ cred'[v] = cred[v]
<1>1. \A v \in Workers : ep[v] \in Endpoints \cup {None} /\ cred[v] \in Creds \cup {None}
  BY Zenon DEF TypeOK
<1>2. ep' \in [Workers -> Endpoints \cup {None}]
  BY Zenon, <1>1 DEF Return
<1>3. cred' \in [Workers -> Creds \cup {None}]
  BY Zenon, <1>1 DEF Return
<1>4. QED
  BY Zenon, <1>2, <1>3 DEF Return

\* Workers that return keep everyone sound and begin no flight.
LEMMA ReturnKeeps ==
    ASSUME IInv, NEW W \in SUBSET Workers, Return(W), img' = img
    PROVE  (\A v \in Workers : Sound(v)') /\ SingleFetch'
<1>1. \A v \in Workers : Sound(v)'
  <2> TAKE v \in Workers
  <2>1. CASE v \in W
    BY Zenon, <2>1, Returns, Restarted DEF IInv
  <2>2. CASE v \notin W
    BY Zenon, <2>2, Returns, Untouched DEF IInv
  <2>3. QED
    BY <2>1, <2>2
<1>2. \A v \in Workers : InFlight(v)' => InFlight(v) /\ ep'[v] = ep[v]
  BY Zenon, Returns DEF InFlight, IInv
<1>3. QED
  BY Zenon, <1>1, <1>2, NoNewFlight DEF IInv

\* A step that changes nothing these facts are about.
LEMMA Frame ==
    ASSUME IInv, UNCHANGED <<user, pc, img, ep, cred>>
    PROVE  OwnCredentials' /\ (\A v \in Workers : Sound(v)') /\ SingleFetch'
<1>1. OwnCredentials'
  BY Zenon DEF OwnCredentials, IInv
<1>2. \A v \in Workers : Sound(v)'
  BY Zenon, Untouched DEF IInv
<1>3. SingleFetch'
  <2>1. \A v \in Workers : InFlight(v)' => InFlight(v) /\ ep'[v] = ep[v]
    BY Zenon DEF InFlight
  <2>2. QED
    BY Zenon, <2>1, NoNewFlight DEF IInv
<1>4. QED
  BY <1>1, <1>2, <1>3

-----------------------------------------------------------------------------
(***************************************************************************)
(* Endpoints.                                                              *)
(***************************************************************************)

\* Loading an entry of the configuration keeps the invariant.
LEMMA LoadKeeps ==
    ASSUME IInv, NEW p \in Configured, LoadRegistryConfiguration(p)
    PROVE  IInv'
<1>1. <<p, "config">> \in Endpoints
  BY Zenon, EndpointTypes
<1>2. registries' \in [Prefixes -> Endpoints \cup {None}]
  <2>1. registries' = [registries EXCEPT ![p] = <<p, "config">>]
    BY DEF LoadRegistryConfiguration, AddRegistryEndpoint
  <2>2. QED
    BY Zenon, <1>1, <2>1 DEF IInv, TypeOK
<1>3. loaded' \subseteq Configured /\ defaultRegistry' \in Endpoints
  BY Zenon, <1>1 DEF LoadRegistryConfiguration, IInv, TypeOK
<1>4. TypeOK'
  BY Zenon, <1>2, <1>3 DEF LoadRegistryConfiguration, IInv, TypeOK, credVars, tagVars, envVars
<1>5. OwnCredentials' /\ (\A v \in Workers : Sound(v)') /\ SingleFetch'
  BY Zenon, Frame DEF LoadRegistryConfiguration, credVars
<1>6. QED
  BY Zenon, <1>4, <1>5 DEF IInv

\* A worker outside flights that gets an endpoint keeps the invariant when
\* nothing else changes.
LEMMA FoundKeeps ==
    ASSUME IInv, NEW w \in Workers, pc[w] \in {"start", "find"},
           NEW e \in Endpoints, NEW at \in {"creds", "add"},
           ep' = [ep EXCEPT ![w] = e], To(w, at),
           UNCHANGED <<epVars, credVars, cache, img, cred, retried, refusal, tagVars, envVars, faults>>
    PROVE  IInv'
<1>1. /\ DOMAIN pc' = Workers /\ pc'[w] = at
      /\ \A v \in Workers : v # w => pc'[v] = pc[v]
  BY Zenon, Moves DEF IInv
<1>2. /\ ep' \in [Workers -> Endpoints \cup {None}] /\ ep'[w] = e
      /\ \A v \in Workers : v # w => ep'[v] = ep[v]
  BY Zenon DEF IInv, TypeOK
<1>3. \A v \in Workers : inflight'[v] # {} => pc'[v] = "meta"
  <2>1. inflight' = inflight /\ pc[w] # "meta"
    BY DEF tagVars
  <2>2. \A v \in Workers : inflight[v] # {} => pc[v] = "meta"
    BY Zenon DEF IInv, TypeOK
  <2>3. QED
    BY Zenon, <1>1, <2>1, <2>2
<1>4. TypeOK'
  BY Zenon, <1>1, <1>2, <1>3 DEF IInv, TypeOK, epVars, credVars, tagVars, envVars
<1>5. OwnCredentials'
  BY Zenon DEF IInv, OwnCredentials, credVars
<1>6. \A v \in Workers : Sound(v)'
  <2> TAKE v \in Workers
  <2>1. CASE v = w
    <3>1. e # None
      BY Zenon
    <3>2. QED
      BY <1>1, <1>2, <2>1, <3>1 DEF Sound
  <2>2. CASE v # w
    BY Zenon, <1>1, <1>2, <2>2, Untouched DEF IInv
  <2>3. QED
    BY <2>1, <2>2
<1>7. SingleFetch'
  <2>1. \A v \in Workers : InFlight(v)' => InFlight(v) /\ ep'[v] = ep[v]
    <3>1. at \notin {"begin", "fetch", "store"}
      OBVIOUS
    <3>2. QED
      BY Zenon, <1>1, <1>2, <3>1 DEF InFlight
  <2>2. QED
    BY Zenon, <2>1, NoNewFlight DEF IInv
<1>8. QED
  BY Zenon, <1>4, <1>5, <1>6, <1>7 DEF IInv

\* A worker that moves between positions without a flight and changes
\* nothing else keeps the types.
LEMMA MoveType ==
    ASSUME TypeOK, NEW w \in Workers, pc[w] # "meta", NEW at, To(w, at),
           UNCHANGED <<epVars, credVars, cache, img, ep, cred, tagVars, envVars, faults>>
    PROVE  TypeOK'
<1>1. /\ DOMAIN pc' = Workers
      /\ \A v \in Workers : v # w => pc'[v] = pc[v]
  BY Zenon, Moves
<1>2. \A v \in Workers : inflight'[v] # {} => pc'[v] = "meta"
  BY Zenon, <1>1 DEF TypeOK, tagVars
<1>3. QED
  BY Zenon, <1>1, <1>2 DEF TypeOK, epVars, credVars, tagVars, envVars

\* Looking the endpoint up in the table.
LEMMA GetRegistryEndpointKeeps ==
    ASSUME IInv, NEW w \in Workers, GetRegistryEndpoint(w)
    PROVE  IInv'
<1>1. img[w].registry \in Prefixes \cup {<<>>}
  BY Zenon, ImageFields DEF IInv
<1>2. ASSUME NEW e \in Endpoints, Found(w, e) PROVE IInv'
  <2>1. ep' = [ep EXCEPT ![w] = e] /\ To(w, "creds")
    BY <1>2 DEF Found
  <2>2. QED
    BY Zenon, <2>1, FoundKeeps DEF GetRegistryEndpoint
<1>3. CASE img[w].registry = <<>>
  BY Zenon, <1>2, <1>3 DEF GetRegistryEndpoint, IInv, TypeOK
<1>4. CASE img[w].registry # <<>> /\ registries[img[w].registry] # None
  <2>1. registries[img[w].registry] \in Endpoints
    BY Zenon, <1>1, <1>4 DEF IInv, TypeOK
  <2>2. QED
    BY Zenon, <1>2, <1>4, <2>1 DEF GetRegistryEndpoint
<1>5. CASE img[w].registry # <<>> /\ registries[img[w].registry] = None
  <2>1. To(w, "find") /\ ep' = ep
    BY Zenon, <1>5 DEF GetRegistryEndpoint
  <2>2. /\ pc'[w] = "find"
        /\ \A v \in Workers : v # w => pc'[v] = pc[v]
    BY Zenon, <2>1, Moves DEF IInv
  <2>3. TypeOK'
    <3>1. pc[w] # "meta"
      BY DEF GetRegistryEndpoint
    <3>2. QED
      BY Zenon, <2>1, <3>1, MoveType DEF GetRegistryEndpoint, IInv
  <2>4. OwnCredentials'
    BY Zenon DEF GetRegistryEndpoint, IInv, OwnCredentials, credVars
  <2>5. \A v \in Workers : Sound(v)'
    <3> TAKE v \in Workers
    <3>1. CASE v = w
      BY <1>5, <2>2, <3>1 DEF Sound, GetRegistryEndpoint
    <3>2. CASE v # w
      BY Zenon, <2>1, <2>2, <3>2, Untouched DEF IInv, GetRegistryEndpoint
    <3>3. QED
      BY <3>1, <3>2
  <2>6. SingleFetch'
    <3>1. \A v \in Workers : InFlight(v)' => InFlight(v) /\ ep'[v] = ep[v]
      <4>1. ~InFlight(w)'
        BY <2>2 DEF InFlight
      <4>2. QED
        BY Zenon, <2>1, <2>2, <4>1 DEF InFlight
    <3>2. QED
      BY Zenon, <3>1, NoNewFlight DEF IInv, GetRegistryEndpoint
  <2>7. QED
    BY Zenon, <2>3, <2>4, <2>5, <2>6 DEF IInv
<1>6. QED
  BY Zenon, <1>3, <1>4, <1>5

\* Looking it up by the image's name, or inferring it.
LEMMA FindKeeps ==
    ASSUME IInv, NEW w \in Workers, findRegistryEndpointByImage(w)
    PROVE  IInv'
<1>1. pc[w] = "find" /\ Sound(w)
  BY Zenon DEF findRegistryEndpointByImage, IInv
<1>2. CASE \E p \in Matching(w) : Found(w, registries[p])
  <2>1. PICK p \in Matching(w) : Found(w, registries[p])
    BY <1>2
  <2>2. registries[p] \in Endpoints
    BY Zenon DEF Matching, IInv, TypeOK
  <2>3. ep' = [ep EXCEPT ![w] = registries[p]] /\ To(w, "creds")
    BY <2>1 DEF Found
  <2>4. QED
    BY Zenon, <1>1, <2>2, <2>3, FoundKeeps DEF findRegistryEndpointByImage
<1>3. CASE ep' = [ep EXCEPT ![w] = <<img[w].registry, w>>] /\ To(w, "add")
  <2>1. img[w].registry \in Prefixes
    <3>1. img[w].registry \in Prefixes \cup {<<>>}
      BY Zenon, ImageFields DEF IInv
    <3>2. img[w].registry # <<>>
      BY Zenon, <1>1 DEF Sound
    <3>3. QED
      BY Zenon, <3>1, <3>2
  <2>2. <<img[w].registry, w>> \in Endpoints
    BY Zenon, <2>1, EndpointTypes
  <2>3. QED
    BY Zenon, <1>1, <1>3, <2>2, FoundKeeps DEF findRegistryEndpointByImage
<1>4. QED
  BY Zenon, <1>2, <1>3 DEF findRegistryEndpointByImage

\* Adding the inferred endpoint to the table.
LEMMA AddKeeps ==
    ASSUME IInv, NEW w \in Workers, AddInferred(w)
    PROVE  IInv'
<1>1. ep[w] \in Endpoints /\ pc[w] = "add"
  <2>1. pc[w] = "add" /\ pc[w] \notin {"start", "find"}
    BY DEF AddInferred
  <2>2. QED
    BY Zenon, <2>1, HasEndpoint DEF IInv
<1>2. ep[w][1] \in Prefixes
  BY <1>1 DEF Endpoints
<1>3. /\ DOMAIN pc' = Workers /\ pc'[w] = "creds"
      /\ \A v \in Workers : v # w => pc'[v] = pc[v]
  BY Zenon, Moves DEF IInv, AddInferred
<1>4. TypeOK'
  <2>1. registries' \in [Prefixes -> Endpoints \cup {None}]
    BY Zenon, <1>1, <1>2 DEF AddInferred, AddRegistryEndpoint, IInv, TypeOK
  <2>2. \A v \in Workers : inflight'[v] # {} => pc'[v] = "meta"
    <3>1. pc[w] # "meta" /\ inflight' = inflight
      BY <1>1 DEF AddInferred, tagVars
    <3>2. QED
      BY Zenon, <1>3, <3>1 DEF IInv, TypeOK
  <2>3. QED
    BY Zenon, <1>3, <2>1, <2>2 DEF AddInferred, IInv, TypeOK, credVars, tagVars, envVars
<1>5. OwnCredentials'
  BY Zenon DEF AddInferred, IInv, OwnCredentials, credVars
<1>6. \A v \in Workers : Sound(v)'
  <2> TAKE v \in Workers
  <2>1. CASE v = w
    <3>1. ep'[w] # None
      BY Zenon, <1>1 DEF AddInferred
    <3>2. QED
      BY <1>3, <2>1, <3>1 DEF Sound
  <2>2. CASE v # w
    BY Zenon, <1>3, <2>2, Untouched DEF IInv, AddInferred
  <2>3. QED
    BY <2>1, <2>2
<1>7. SingleFetch'
  <2>1. ~InFlight(w)'
    BY <1>3 DEF InFlight
  <2>2. \A v \in Workers : InFlight(v)' => InFlight(v) /\ ep'[v] = ep[v]
    BY Zenon, <1>3, <2>1 DEF InFlight, AddInferred
  <2>3. QED
    BY Zenon, <2>2, NoNewFlight DEF IInv, AddInferred
<1>8. QED
  BY Zenon, <1>4, <1>5, <1>6, <1>7 DEF IInv

-----------------------------------------------------------------------------
(***************************************************************************)
(* Credentials.                                                            *)
(***************************************************************************)

\* Joining a flight or beginning one: the one step that begins a flight does
\* so only when none has its key.
LEMMA SetEndpointCredentialsKeeps ==
    ASSUME IInv, NEW w \in Workers, SetEndpointCredentials(w)
    PROVE  IInv'
<1>1. PICK at \in {"joined", "begin"} : To(w, at)
  BY Zenon DEF SetEndpointCredentials
<1>2. /\ DOMAIN pc' = Workers /\ pc'[w] = at
      /\ \A v \in Workers : v # w => pc'[v] = pc[v]
  BY Zenon, <1>1, Moves DEF IInv
<1>3. ep' = ep /\ img' = img /\ cred' = cred
  BY Zenon DEF SetEndpointCredentials
<1>4. TypeOK'
  <2>1. pc[w] # "meta"
    BY DEF SetEndpointCredentials
  <2>2. QED
    BY Zenon, <1>1, <2>1, MoveType DEF SetEndpointCredentials, IInv
<1>5. OwnCredentials'
  BY Zenon DEF SetEndpointCredentials, IInv, OwnCredentials, credVars
<1>6. \A v \in Workers : Sound(v)'
  <2> TAKE v \in Workers
  <2>1. CASE v = w
    <3>1. ep[w] # None
      <4>1. pc[w] \notin {"start", "find"}
        BY DEF SetEndpointCredentials
      <4>2. QED
        BY Zenon, <4>1 DEF IInv, Sound
    <3>2. QED
      BY <1>2, <1>3, <2>1, <3>1 DEF Sound
  <2>2. CASE v # w
    BY Zenon, <1>2, <1>3, <2>2, Untouched DEF IInv
  <2>3. QED
    BY <2>1, <2>2
<1>7. SingleFetch'
  <2>1. CASE \E v \in Workers : InFlight(v) /\ flightKey(v) = flightKey(w)
    <3>1. To(w, "joined")
      BY Zenon, <2>1 DEF SetEndpointCredentials
    <3>2. pc'[w] = "joined"
      BY Zenon, <3>1, Moves DEF IInv
    <3>3. ~InFlight(w)'
      BY <3>2 DEF InFlight
    <3>4. \A v \in Workers : InFlight(v)' => InFlight(v) /\ ep'[v] = ep[v]
      BY Zenon, <1>2, <1>3, <3>3 DEF InFlight
    <3>5. QED
      BY Zenon, <1>3, <3>4, NoNewFlight DEF IInv
  <2>2. CASE ~\E v \in Workers : InFlight(v) /\ flightKey(v) = flightKey(w)
    <3>1. \A v \in Workers : flightKey(v)' = flightKey(v)
      BY Zenon, <1>3 DEF flightKey, EffectiveSource
    <3>2. \A v \in Workers : v # w => (InFlight(v)' => InFlight(v))
      BY Zenon, <1>2 DEF InFlight
    <3>3. QED
      BY Zenon, <2>2, <3>1, <3>2 DEF IInv, SingleFetch
  <2>3. QED
    BY <2>1, <2>2
<1>8. QED
  BY Zenon, <1>4, <1>5, <1>6, <1>7 DEF IInv

\* The end of a flight gives each of its workers a credential of the source
\* its image asks for, or none where there is no source.
LEMMA FlightEnds ==
    ASSUME IInv, NEW w \in Workers, InFlight(w), NEW c \in Creds \cup {None},
           EndFlight(w, c), ep' = ep, img' = img, inflight' = inflight,
           c = None => EffectiveSource(w) = None,
           c # None => c[1] = EffectiveSource(w)
    PROVE  /\ DOMAIN pc' = Workers
           /\ cred' \in [Workers -> Creds \cup {None}]
           /\ \A v \in Workers : inflight'[v] # {} => pc'[v] = "meta"
           /\ \A v \in Workers : Sound(v)'
           /\ SingleFetch'
<1>1. /\ DOMAIN pc' = Workers
      /\ \A v \in Workers : v \in Flight(w) => pc'[v] = "client" /\ cred'[v] = c
      /\ \A v \in Workers : v \notin Flight(w) => pc'[v] = pc[v] /\ cred'[v] = cred[v]
  BY Zenon DEF EndFlight
<1>2. cred' \in [Workers -> Creds \cup {None}]
  <2>1. \A v \in Workers : cred[v] \in Creds \cup {None}
    BY Zenon DEF IInv, TypeOK
  <2>2. QED
    BY Zenon, <2>1 DEF EndFlight
<1>3. ASSUME NEW v \in Workers, v \in Flight(w)
      PROVE  /\ pc[v] \notin {"start", "find", "meta"}
             /\ EffectiveSource(v) = EffectiveSource(w)
  <2>1. pc[v] \in {"begin", "fetch", "store", "joined"}
    BY <1>3 DEF Flight, InFlight
  <2>2. v = w \/ flightKey(v) = flightKey(w)
    BY Zenon, <1>3 DEF Flight
  <2>3. EffectiveSource(v) = EffectiveSource(w)
    BY Zenon, <2>2 DEF flightKey
  <2>4. QED
    BY <2>1, <2>3
<1>4. \A v \in Workers : inflight'[v] # {} => pc'[v] = "meta"
  <2> TAKE v \in Workers
  <2>1. inflight[v] # {} => pc[v] = "meta"
    BY Zenon DEF IInv, TypeOK
  <2>2. pc[v] = "meta" => v \notin Flight(w)
    BY <1>3
  <2>3. QED
    BY Zenon, <1>1, <2>1, <2>2
<1>5. \A v \in Workers : Sound(v)'
  <2> TAKE v \in Workers
  <2>1. CASE v \in Flight(w)
    <3>1. ep[v] # None
      <4>1. pc[v] \notin {"start", "find"}
        BY <1>3, <2>1
      <4>2. QED
        BY Zenon, <4>1 DEF IInv, Sound
    <3>2. EffectiveSource(v)' = EffectiveSource(w)
      <4>1. EffectiveSource(v)' = EffectiveSource(v)
        BY Zenon DEF EffectiveSource
      <4>2. QED
        BY Zenon, <1>3, <2>1, <4>1
    <3>3. pc'[v] = "client" /\ cred'[v] = c
      BY Zenon, <1>1, <2>1
    <3>4. QED
      BY <3>1, <3>2, <3>3 DEF Sound
  <2>2. CASE v \notin Flight(w)
    BY Zenon, <1>1, <2>2, Untouched DEF IInv
  <2>3. QED
    BY <2>1, <2>2
<1>6. SingleFetch'
  <2>1. \A v \in Workers : InFlight(v)' => InFlight(v) /\ ep'[v] = ep[v]
    <3> TAKE v \in Workers
    <3>1. CASE v \in Flight(w)
      BY <1>1, <3>1 DEF InFlight
    <3>2. CASE v \notin Flight(w)
      BY Zenon, <1>1, <3>2 DEF InFlight
    <3>3. QED
      BY <3>1, <3>2
  <2>2. QED
    BY Zenon, <2>1, NoNewFlight DEF IInv
<1>7. QED
  BY Zenon, <1>1, <1>2, <1>4, <1>5, <1>6

\* What an endpoint still has cached is of its own source; without a source
\* there is nothing.
LEMMA UnexpiredOwn ==
    ASSUME TypeOK, OwnCredentials, NEW e \in Endpoints
    PROVE  /\ Unexpired(e) \in Creds \cup {None}
           /\ Unexpired(e) # None => Unexpired(e)[1] = SourceOf(e)
           /\ user[e] # None => user[e][1] = SourceOf(e) /\ SourceOf(e) # None
<1>1. user[e] \in Creds \cup {None}
  BY Zenon DEF TypeOK
<1>2. user[e] # None => user[e][1] = SourceOf(e)
  BY Zenon DEF OwnCredentials
<1>3. user[e] # None => user[e][1] \in Sources
  BY <1>1 DEF Creds
<1>4. Unexpired(e) \in {None, user[e]}
  BY Zenon DEF Unexpired
<1>5. QED
  BY Zenon, <1>1, <1>2, <1>3, <1>4

\* The cached credential of one endpoint is replaced by one of its source.
LEMMA UserWrite ==
    ASSUME TypeOK, OwnCredentials, NEW e \in Endpoints, NEW c \in Creds \cup {None},
           c # None => c[1] = SourceOf(e), user' = [user EXCEPT ![e] = c]
    PROVE  user' \in [Endpoints -> Creds \cup {None}] /\ OwnCredentials'
<1>1. user' \in [Endpoints -> Creds \cup {None}]
  BY Zenon DEF TypeOK
<1>2. user'[e] = c /\ \A x \in Endpoints : x # e => user'[x] = user[x]
  BY Zenon DEF TypeOK
<1>3. OwnCredentials'
  BY Zenon, <1>2 DEF OwnCredentials
<1>4. QED
  BY <1>1, <1>3

\* The start of a flight: expired credentials are dropped, and cached ones end
\* the flight.
LEMMA BeginKeeps ==
    ASSUME IInv, NEW w \in Workers, setEndpointCredentialsInternal(w)
    PROVE  IInv'
<1> DEFINE c == Unexpired(ep[w])
<1>1. ep[w] \in Endpoints /\ InFlight(w) /\ pc[w] # "meta"
  <2>1. pc[w] = "begin"
    BY DEF setEndpointCredentialsInternal
  <2>2. pc[w] \notin {"start", "find"} /\ InFlight(w) /\ pc[w] # "meta"
    BY <2>1 DEF InFlight
  <2>3. QED
    BY Zenon, <2>2, HasEndpoint DEF IInv
<1>2. c \in Creds \cup {None} /\ (c # None => c[1] = SourceOf(ep[w]))
  BY Zenon, <1>1, UnexpiredOwn DEF IInv
<1>3. user' \in [Endpoints -> Creds \cup {None}] /\ OwnCredentials'
  <2>1. user' = [user EXCEPT ![ep[w]] = c]
    BY DEF setEndpointCredentialsInternal
  <2> HIDE DEF c
  <2>2. QED
    BY Zenon, <1>1, <1>2, <2>1, UserWrite DEF IInv
<1>4. ep' = ep /\ img' = img /\ inflight' = inflight
  BY Zenon DEF setEndpointCredentialsInternal, tagVars
<1>5. CASE useCachedEndpointCreds(w) \/ EffectiveSource(w) = None
  <2>1. EndFlight(w, c)
    BY Zenon, <1>5 DEF setEndpointCredentialsInternal
  <2>2. c = None => EffectiveSource(w) = None
    BY Zenon, <1>5 DEF useCachedEndpointCreds
  <2>3. c # None => c[1] = EffectiveSource(w)
    <3>1. CASE usingEndpointCreds(w)
      BY Zenon, <1>2, <3>1 DEF EffectiveSource, usingEndpointCreds
    <3>2. CASE EffectiveSource(w) = None
      <4>1. img[w].secret = None
        BY Zenon, <3>2 DEF EffectiveSource
      <4>2. QED
        BY Zenon, <3>1, <4>1 DEF usingEndpointCreds
    <3>3. QED
      BY Zenon, <1>5, <3>1, <3>2 DEF useCachedEndpointCreds
  <2> HIDE DEF c
  <2>4. /\ DOMAIN pc' = Workers
        /\ cred' \in [Workers -> Creds \cup {None}]
        /\ \A v \in Workers : inflight'[v] # {} => pc'[v] = "meta"
        /\ \A v \in Workers : Sound(v)'
        /\ SingleFetch'
    BY Zenon, <1>1, <1>2, <1>4, <2>1, <2>2, <2>3, FlightEnds
  <2>5. TypeOK'
    BY Zenon, <1>3, <2>4 DEF setEndpointCredentialsInternal, IInv, TypeOK, epVars, tagVars, envVars
  <2>6. QED
    BY Zenon, <1>3, <2>4, <2>5 DEF IInv
<1>6. CASE ~(useCachedEndpointCreds(w) \/ EffectiveSource(w) = None)
  <2>1. To(w, "fetch") /\ cred' = cred
    BY Zenon, <1>6 DEF setEndpointCredentialsInternal
  <2>2. /\ DOMAIN pc' = Workers /\ pc'[w] = "fetch"
        /\ \A v \in Workers : v # w => pc'[v] = pc[v]
    BY Zenon, <2>1, Moves DEF IInv
  <2>3. TypeOK'
    <3>1. \A v \in Workers : inflight'[v] # {} => pc'[v] = "meta"
      BY Zenon, <1>1, <1>4, <2>2 DEF IInv, TypeOK
    <3>2. QED
      BY Zenon, <1>3, <2>1, <2>2, <3>1
      DEF setEndpointCredentialsInternal, IInv, TypeOK, epVars, tagVars, envVars
  <2>4. \A v \in Workers : Sound(v)'
    <3> TAKE v \in Workers
    <3>1. CASE v = w
      <4>1. EffectiveSource(w)' # None
        BY Zenon, <1>4, <1>6 DEF EffectiveSource
      <4>2. ep'[w] # None
        BY Zenon, <1>1, <1>4
      <4>3. QED
        BY <2>2, <3>1, <4>1, <4>2 DEF Sound
    <3>2. CASE v # w
      BY Zenon, <1>4, <2>1, <2>2, <3>2, Untouched DEF IInv
    <3>3. QED
      BY <3>1, <3>2
  <2>5. SingleFetch'
    <3>1. \A v \in Workers : InFlight(v)' => InFlight(v) /\ ep'[v] = ep[v]
      BY Zenon, <1>1, <1>4, <2>2 DEF InFlight
    <3>2. QED
      BY Zenon, <1>4, <3>1, NoNewFlight DEF IInv
  <2>6. QED
    BY Zenon, <1>3, <2>3, <2>4, <2>5 DEF IInv
<1>7. QED
  BY <1>5, <1>6

\* Reading the source: credentials of the image go to the flight at once.
LEMMA FetchKeeps ==
    ASSUME IInv, NEW w \in Workers, FetchCredentials(w)
    PROVE  IInv'
<1> DEFINE c == <<EffectiveSource(w), secret[EffectiveSource(w)]>>
<1>1. ep[w] \in Endpoints /\ InFlight(w) /\ pc[w] # "meta" /\ EffectiveSource(w) # None
  <2>1. pc[w] = "fetch"
    BY DEF FetchCredentials
  <2>2. pc[w] \notin {"start", "find"} /\ InFlight(w) /\ pc[w] # "meta"
    BY <2>1 DEF InFlight
  <2>3. EffectiveSource(w) # None
    BY Zenon, <2>1 DEF IInv, Sound
  <2>4. QED
    BY Zenon, <2>2, <2>3, HasEndpoint DEF IInv
<1>2. c \in Creds /\ c[1] = EffectiveSource(w)
  <2>1. EffectiveSource(w) \in Sources
    BY Zenon, <1>1, EffectiveSourceType DEF IInv
  <2>2. QED
    BY Zenon, <2>1, CredType DEF IInv
<1>3. c # None
  BY Zenon, <1>2
<1>4. ep' = ep /\ img' = img /\ inflight' = inflight
  BY Zenon DEF FetchCredentials, tagVars
<1>5. OwnCredentials'
  BY Zenon DEF FetchCredentials, IInv, OwnCredentials, credVars
<1>6. CASE ~usingEndpointCreds(w)
  <2>1. EndFlight(w, c)
    BY Zenon, <1>6 DEF FetchCredentials
  <2> HIDE DEF c
  <2>2. /\ DOMAIN pc' = Workers
        /\ cred' \in [Workers -> Creds \cup {None}]
        /\ \A v \in Workers : inflight'[v] # {} => pc'[v] = "meta"
        /\ \A v \in Workers : Sound(v)'
        /\ SingleFetch'
    BY Zenon, <1>1, <1>2, <1>3, <1>4, <2>1, FlightEnds
  <2>3. TypeOK'
    BY Zenon, <2>2 DEF FetchCredentials, IInv, TypeOK, epVars, credVars, tagVars, envVars
  <2>4. QED
    BY Zenon, <1>5, <2>2, <2>3 DEF IInv
<1>7. CASE usingEndpointCreds(w)
  <2>1. To(w, "store") /\ cred' = [cred EXCEPT ![w] = c]
    BY Zenon, <1>7 DEF FetchCredentials
  <2> HIDE DEF c
  <2>2. /\ DOMAIN pc' = Workers /\ pc'[w] = "store"
        /\ \A v \in Workers : v # w => pc'[v] = pc[v]
    BY Zenon, <2>1, Moves DEF IInv
  <2>3. /\ cred' \in [Workers -> Creds \cup {None}] /\ cred'[w] = c
        /\ \A v \in Workers : v # w => cred'[v] = cred[v]
    BY Zenon, <1>2, <2>1 DEF IInv, TypeOK
  <2>4. TypeOK'
    <3>1. \A v \in Workers : inflight'[v] # {} => pc'[v] = "meta"
      BY Zenon, <1>1, <1>4, <2>2 DEF IInv, TypeOK
    <3>2. QED
      BY Zenon, <2>2, <2>3, <3>1
      DEF FetchCredentials, IInv, TypeOK, epVars, credVars, tagVars, envVars
  <2>5. \A v \in Workers : Sound(v)'
    <3> TAKE v \in Workers
    <3>1. CASE v = w
      <4>1. EffectiveSource(w)' = EffectiveSource(w) /\ usingEndpointCreds(w)'
        BY Zenon, <1>4, <1>7 DEF EffectiveSource, usingEndpointCreds
      <4>2. ep'[w] # None
        BY Zenon, <1>1, <1>4
      <4>3. QED
        BY <1>2, <1>3, <2>2, <2>3, <3>1, <4>1, <4>2 DEF Sound
    <3>2. CASE v # w
      BY Zenon, <1>4, <2>2, <2>3, <3>2, Untouched DEF IInv
    <3>3. QED
      BY <3>1, <3>2
  <2>6. SingleFetch'
    <3>1. \A v \in Workers : InFlight(v)' => InFlight(v) /\ ep'[v] = ep[v]
      BY Zenon, <1>1, <1>4, <2>2 DEF InFlight
    <3>2. QED
      BY Zenon, <1>4, <3>1, NoNewFlight DEF IInv
  <2>7. QED
    BY Zenon, <1>5, <2>4, <2>5, <2>6 DEF IInv
<1>8. QED
  BY <1>6, <1>7

\* Storing what was read on the endpoint, and the end of the flight.
LEMMA StoreKeeps ==
    ASSUME IInv, NEW w \in Workers, StoreCredentials(w)
    PROVE  IInv'
<1>1. ep[w] \in Endpoints /\ InFlight(w) /\ pc[w] = "store"
  <2>1. pc[w] = "store" /\ pc[w] \notin {"start", "find"} /\ InFlight(w)
    BY DEF StoreCredentials, InFlight
  <2>2. QED
    BY Zenon, <2>1, HasEndpoint DEF IInv
<1>2. cred[w] \in Creds \cup {None}
  BY Zenon DEF IInv, TypeOK
<1>3. cred[w] # None /\ cred[w][1] = EffectiveSource(w) /\ EffectiveSource(w) = SourceOf(ep[w])
  <2>1. Sound(w)
    BY Zenon DEF IInv
  <2>2. usingEndpointCreds(w) /\ cred[w] # None /\ cred[w][1] = EffectiveSource(w)
    BY <1>1, <2>1 DEF Sound
  <2>3. QED
    BY Zenon, <2>2 DEF usingEndpointCreds, EffectiveSource
<1>4. user' \in [Endpoints -> Creds \cup {None}] /\ OwnCredentials'
  <2>1. user' = [user EXCEPT ![ep[w]] = cred[w]]
    BY Zenon DEF StoreCredentials
  <2>2. cred[w][1] = SourceOf(ep[w])
    BY Zenon, <1>3
  <2>3. QED
    BY Zenon, <1>1, <1>2, <2>1, <2>2, UserWrite DEF IInv
<1>5. age' \in [Endpoints -> {"zero", "fresh", "expired"}]
  <2>1. "fresh" \in {"zero", "fresh", "expired"}
    OBVIOUS
  <2>2. QED
    BY Zenon, <1>1, <2>1 DEF StoreCredentials, IInv, TypeOK
<1>6. /\ DOMAIN pc' = Workers
      /\ cred' \in [Workers -> Creds \cup {None}]
      /\ \A v \in Workers : inflight'[v] # {} => pc'[v] = "meta"
      /\ \A v \in Workers : Sound(v)'
      /\ SingleFetch'
  <2>1. ep' = ep /\ img' = img /\ inflight' = inflight /\ EndFlight(w, cred[w])
    BY Zenon DEF StoreCredentials, tagVars
  <2>2. QED
    BY Zenon, <1>1, <1>2, <1>3, <2>1, FlightEnds
<1>7. TypeOK'
  BY Zenon, <1>4, <1>5, <1>6 DEF StoreCredentials, IInv, TypeOK, epVars, tagVars, envVars
<1>8. QED
  BY Zenon, <1>4, <1>6, <1>7 DEF IInv

-----------------------------------------------------------------------------
(***************************************************************************)
(* Clients and tags.                                                       *)
(***************************************************************************)

\* A worker with an endpoint that moves from one position of a client to
\* another keeps everyone sound and begins no flight.
LEMMA ClientMoves ==
    ASSUME IInv, NEW w \in Workers, pc[w] \notin {"start", "find"},
           NEW at \in {"creds", "tags", "refused", "meta"}, To(w, at), ep' = ep, img' = img,
           \A v \in Workers : v # w => cred'[v] = cred[v],
           at # "creds" => cred'[w] = None \/ cred'[w][1] = EffectiveSource(w)
    PROVE  (\A v \in Workers : Sound(v)') /\ SingleFetch'
<1>1. /\ pc'[w] = at
      /\ \A v \in Workers : v # w => pc'[v] = pc[v]
  BY Zenon, Moves DEF IInv
<1>2. \A v \in Workers : Sound(v)'
  <2> TAKE v \in Workers
  <2>1. CASE v = w
    <3>1. ep'[w] # None
      BY Zenon DEF IInv, Sound
    <3>2. EffectiveSource(w)' = EffectiveSource(w)
      BY Zenon DEF EffectiveSource
    <3>3. QED
      BY <1>1, <2>1, <3>1, <3>2 DEF Sound
  <2>2. CASE v # w
    BY Zenon, <1>1, <2>2, Untouched DEF IInv
  <2>3. QED
    BY <2>1, <2>2
<1>3. SingleFetch'
  <2>1. ~InFlight(w)'
    BY <1>1 DEF InFlight
  <2>2. \A v \in Workers : InFlight(v)' => InFlight(v) /\ ep'[v] = ep[v]
    BY Zenon, <1>1, <2>1 DEF InFlight
  <2>3. QED
    BY Zenon, <2>2, NoNewFlight DEF IInv
<1>4. QED
  BY <1>2, <1>3

\* The client falls back to what the endpoint caches only when its image asks
\* for no source, and then there is nothing cached.
LEMMA NewRepositoryKeeps ==
    ASSUME IInv, NEW w \in Workers, NewRepository(w)
    PROVE  IInv'
<1>1. pc[w] = "client" /\ pc[w] \notin {"start", "find"} /\ pc[w] # "meta"
  BY DEF NewRepository
<1>2. ep[w] \in Endpoints
  BY Zenon, <1>1, HasEndpoint DEF IInv
<1> DEFINE c == IF cred[w] = None THEN user[ep[w]] ELSE cred[w]
<1>3. c \in Creds \cup {None}
  BY Zenon, <1>2 DEF IInv, TypeOK
<1>4. c = None \/ c[1] = EffectiveSource(w)
  <2>1. CASE cred[w] = None
    <3>1. EffectiveSource(w) = None
      BY Zenon, <1>1, <2>1 DEF IInv, Sound
    <3>2. SourceOf(ep[w]) = None
      BY Zenon, <3>1 DEF EffectiveSource
    <3>3. user[ep[w]] = None
      BY Zenon, <1>2, <3>2, UnexpiredOwn DEF IInv
    <3>4. QED
      BY Zenon, <2>1, <3>3
  <2>2. CASE cred[w] # None
    <3>1. Sound(w)
      BY Zenon DEF IInv
    <3>2. cred[w][1] = EffectiveSource(w)
      BY <1>1, <2>2, <3>1 DEF Sound
    <3>3. QED
      BY Zenon, <2>2, <3>2
  <2>3. QED
    BY <2>1, <2>2
<1>5. cred' = [cred EXCEPT ![w] = c]
  BY Zenon DEF NewRepository
<1> HIDE DEF c
<1>6. /\ cred' \in [Workers -> Creds \cup {None}] /\ cred'[w] = c
      /\ \A v \in Workers : v # w => cred'[v] = cred[v]
  BY Zenon, <1>3, <1>5 DEF IInv, TypeOK
<1>7. (\A v \in Workers : Sound(v)') /\ SingleFetch'
  <2>1. "tags" \in {"creds", "tags", "refused", "meta"}
    OBVIOUS
  <2>2. QED
    BY Zenon, <1>1, <1>4, <1>6, <2>1, ClientMoves DEF NewRepository
<1>8. TypeOK'
  <2>1. /\ DOMAIN pc' = Workers
        /\ \A v \in Workers : v # w => pc'[v] = pc[v]
    BY Zenon, Moves DEF IInv, NewRepository
  <2>2. \A v \in Workers : inflight'[v] # {} => pc'[v] = "meta"
    BY Zenon, <1>1, <2>1 DEF IInv, TypeOK, NewRepository
  <2>3. QED
    BY Zenon, <1>6, <2>1, <2>2 DEF NewRepository, IInv, TypeOK, epVars, credVars, envVars
<1>9. OwnCredentials'
  BY Zenon DEF NewRepository, IInv, OwnCredentials, credVars
<1>10. QED
  BY Zenon, <1>7, <1>8, <1>9 DEF IInv

\* Workers without goroutines that return keep the types.
LEMMA ReturnType ==
    ASSUME TypeOK, NEW W \in SUBSET Workers, Return(W), \A v \in W : inflight'[v] = {},
           \A v \in Workers : inflight'[v] \subseteq inflight[v], DOMAIN inflight' = Workers,
           user' \in [Endpoints -> Creds \cup {None}],
           UNCHANGED <<epVars, age, cache, img, envVars>>
    PROVE  TypeOK'
<1>1. /\ DOMAIN pc' = Workers
      /\ ep' \in [Workers -> Endpoints \cup {None}]
      /\ cred' \in [Workers -> Creds \cup {None}]
      /\ \A v \in Workers : v \notin W => pc'[v] = pc[v]
  BY Zenon, Returns
<1>2. \A v \in Workers : inflight'[v] # {} => pc'[v] = "meta"
  BY Zenon, <1>1 DEF TypeOK
<1>3. QED
  BY Zenon, <1>1, <1>2 DEF TypeOK, epVars, envVars

\* A worker without goroutines that returns and changes nothing else keeps
\* the invariant.
LEMMA WorkersReturn ==
    ASSUME IInv, NEW W \in SUBSET Workers, \A v \in W : inflight[v] = {}, Return(W),
           UNCHANGED <<epVars, credVars, cache, img, inflight, envVars>>
    PROVE  IInv'
<1>1. TypeOK'
  <2>1. user' \in [Endpoints -> Creds \cup {None}] /\ UNCHANGED <<epVars, age, cache, img, envVars>>
    BY Zenon DEF IInv, TypeOK, credVars
  <2>2. DOMAIN inflight' = Workers /\ \A v \in Workers : inflight'[v] \subseteq inflight[v]
    BY Zenon DEF IInv, TypeOK
  <2>3. QED
    BY Zenon, <2>1, <2>2, ReturnType DEF IInv
<1>2. OwnCredentials'
  BY Zenon DEF IInv, OwnCredentials, credVars
<1>3. (\A v \in Workers : Sound(v)') /\ SingleFetch'
  BY Zenon, ReturnKeeps
<1>4. QED
  BY Zenon, <1>1, <1>2, <1>3 DEF IInv

\* A worker that is not fetching metadata has no goroutines.
LEMMA NoGoroutines ==
    ASSUME TypeOK, NEW w \in Workers, pc[w] # "meta"
    PROVE  inflight[w] = {}
BY Zenon DEF TypeOK

\* Asking for the tag list.
LEMMA TagsKeeps ==
    ASSUME IInv, NEW w \in Workers, Tags(w)
    PROVE  IInv'
<1>1. pc[w] = "tags" /\ pc[w] \notin {"start", "find"} /\ pc[w] # "meta"
  BY DEF Tags
<1>2. CASE Return({w})
  <2>1. \A v \in {w} : inflight[v] = {}
    BY Zenon, <1>1, NoGoroutines DEF IInv
  <2>2. UNCHANGED <<epVars, credVars, cache, img, inflight, envVars>>
    BY Zenon DEF Tags
  <2>3. {w} \in SUBSET Workers
    OBVIOUS
  <2>4. QED
    BY Zenon, <1>2, <2>1, <2>2, <2>3, WorkersReturn
<1>3. ASSUME NEW at \in {"meta", "refused"}, To(w, at), UNCHANGED <<ep, cred>> PROVE IInv'
  <2>1. (\A v \in Workers : Sound(v)') /\ SingleFetch'
    <3>1. at \in {"creds", "tags", "refused", "meta"} /\ at # "creds"
      BY <1>3
    <3>2. cred'[w] = None \/ cred'[w][1] = EffectiveSource(w)
      <4>1. Sound(w)
        BY Zenon DEF IInv
      <4>2. QED
        BY <1>1, <1>3, <4>1 DEF Sound
    <3>3. ep' = ep /\ img' = img /\ \A v \in Workers : v # w => cred'[v] = cred[v]
      BY Zenon, <1>3 DEF Tags
    <3>4. QED
      BY Zenon, <1>1, <1>3, <3>1, <3>2, <3>3, ClientMoves
  <2>2. OwnCredentials'
    BY Zenon DEF Tags, IInv, OwnCredentials, credVars
  <2>3. TypeOK'
    <3>1. /\ DOMAIN pc' = Workers
          /\ \A v \in Workers : v # w => pc'[v] = pc[v]
      BY Zenon, <1>3, Moves DEF IInv
    <3>2. \A v \in Workers : inflight'[v] # {} => pc'[v] = "meta"
      BY Zenon, <1>1, <3>1 DEF IInv, TypeOK, Tags
    <3>3. UNCHANGED <<epVars, credVars, cache, img, inflight, envVars>>
      BY Zenon DEF Tags
    <3>4. QED
      BY Zenon, <1>3, <3>1, <3>2, <3>3 DEF IInv, TypeOK, epVars, credVars, envVars
  <2>4. QED
    BY Zenon, <2>1, <2>2, <2>3 DEF IInv
<1>4. \/ Return({w})
      \/ \E at \in {"meta", "refused"} : To(w, at) /\ UNCHANGED <<ep, cred>>
  BY Zenon DEF Tags
<1>5. QED
  BY Zenon, <1>2, <1>3, <1>4

\* After a refusal the cached credential may go; the worker tries again or
\* is done.
LEMMA RefusedKeeps ==
    ASSUME IInv, NEW w \in Workers, Refused(w)
    PROVE  IInv'
<1>1. pc[w] \notin {"start", "find"} /\ pc[w] # "meta" /\ pc[w] = "refused"
  BY DEF Refused
<1>2. ep[w] \in Endpoints
  BY Zenon, <1>1, HasEndpoint DEF IInv
<1> DEFINE c == IF ClearsCredentials(w) THEN None ELSE user[ep[w]]
<1>3. user' \in [Endpoints -> Creds \cup {None}] /\ OwnCredentials'
  <2>1. c \in Creds \cup {None} /\ (c # None => c[1] = SourceOf(ep[w]))
    BY Zenon, <1>2 DEF IInv, TypeOK, OwnCredentials
  <2>2. user' = [user EXCEPT ![ep[w]] = c]
    BY Zenon DEF Refused
  <2> HIDE DEF c
  <2>3. QED
    BY Zenon, <1>2, <2>1, <2>2, UserWrite DEF IInv
<1>4. UNCHANGED <<epVars, age, cache, img, inflight, envVars>>
  BY Zenon DEF Refused
<1>5. inflight[w] = {}
  BY Zenon, <1>1, NoGoroutines DEF IInv
<1>6. CASE Return({w})
  <2>1. {w} \in SUBSET Workers
    OBVIOUS
  <2>2. TypeOK'
    <3>1. DOMAIN inflight' = Workers /\ \A v \in Workers : inflight'[v] \subseteq inflight[v]
      BY Zenon, <1>4 DEF IInv, TypeOK
    <3>2. \A v \in {w} : inflight'[v] = {}
      BY Zenon, <1>4, <1>5
    <3>3. QED
      BY Zenon, <1>3, <1>4, <1>6, <2>1, <3>1, <3>2, ReturnType DEF IInv
  <2>3. (\A v \in Workers : Sound(v)') /\ SingleFetch'
    BY Zenon, <1>4, <1>6, <2>1, ReturnKeeps
  <2>4. QED
    BY Zenon, <1>3, <2>2, <2>3 DEF IInv
<1>7. CASE To(w, "creds") /\ UNCHANGED <<ep, cred>>
  <2>1. (\A v \in Workers : Sound(v)') /\ SingleFetch'
    <3>1. "creds" \in {"creds", "tags", "refused", "meta"}
      OBVIOUS
    <3>2. QED
      BY Zenon, <1>1, <1>4, <1>7, <3>1, ClientMoves
  <2>2. TypeOK'
    <3>1. /\ DOMAIN pc' = Workers
          /\ \A v \in Workers : v # w => pc'[v] = pc[v]
      BY Zenon, <1>7, Moves DEF IInv
    <3>2. \A v \in Workers : inflight'[v] # {} => pc'[v] = "meta"
      BY Zenon, <1>1, <1>4, <3>1 DEF IInv, TypeOK
    <3>3. QED
      BY Zenon, <1>3, <1>4, <1>7, <3>1, <3>2 DEF IInv, TypeOK, epVars, envVars
  <2>3. QED
    BY Zenon, <1>3, <2>1, <2>2 DEF IInv
<1>8. QED
  BY Zenon, <1>6, <1>7 DEF Refused

\* Looking at one tag: in the cache, or by a goroutine.
LEMMA LookUpKeeps ==
    ASSUME IInv, NEW w \in Workers, NEW t \in TagNames, LookUp(w, t)
    PROVE  IInv'
<1>1. pc[w] = "meta" /\ UNCHANGED <<epVars, credVars, cache, pc, img, ep, cred, envVars>>
  BY Zenon DEF LookUp
<1>2. inflight' = inflight \/ inflight' = [inflight EXCEPT ![w] = @ \cup {t}]
  BY Zenon DEF LookUp
<1>3. DOMAIN inflight' = Workers /\ \A v \in Workers : v # w => inflight'[v] = inflight[v]
  BY Zenon, <1>2 DEF IInv, TypeOK
<1>4. \A v \in Workers : inflight'[v] # {} => pc'[v] = "meta"
  BY Zenon, <1>1, <1>3 DEF IInv, TypeOK
<1>5. TypeOK'
  BY Zenon, <1>1, <1>3, <1>4 DEF IInv, TypeOK, epVars, credVars, envVars
<1>6. OwnCredentials' /\ (\A v \in Workers : Sound(v)') /\ SingleFetch'
  BY Zenon, <1>1, Frame DEF credVars
<1>7. QED
  BY Zenon, <1>5, <1>6 DEF IInv

\* A goroutine puts what it got into the cache.
LEMMA FetchMetadataKeeps ==
    ASSUME IInv, NEW w \in Workers, NEW t \in TagNames, FetchMetadata(w, t)
    PROVE  IInv'
<1>1. UNCHANGED <<epVars, credVars, pc, img, ep, cred, envVars>>
  BY Zenon DEF FetchMetadata
<1>2. pc[w] = "meta"
  BY Zenon DEF FetchMetadata, IInv, TypeOK
<1>3. ep[w] \in Endpoints /\ Key(w, t) \in TagKeys
  <2>1. pc[w] \notin {"start", "find"}
    BY <1>2
  <2>2. QED
    BY Zenon, <2>1, HasEndpoint, ImageFields DEF IInv
<1>4. cache' \in [Endpoints -> [TagKeys -> 0 .. MaxBuild]]
  <2> DEFINE f == [cache[ep[w]] EXCEPT ![Key(w, t)] = build[Key(w, t)]]
  <2>1. cache \in [Endpoints -> [TagKeys -> 0 .. MaxBuild]]
    BY Zenon DEF IInv, TypeOK
  <2>2. build[Key(w, t)] \in 0 .. MaxBuild
    <3>1. build[Key(w, t)] \in 1 .. MaxBuild
      BY Zenon, <1>3 DEF IInv, TypeOK
    <3>2. QED
      BY <3>1
  <2>3. f \in [TagKeys -> 0 .. MaxBuild]
    BY Zenon, <1>3, <2>1, <2>2
  <2>4. cache' = cache \/ cache' = [cache EXCEPT ![ep[w]] = f]
    BY Zenon DEF FetchMetadata
  <2> HIDE DEF f
  <2>5. QED
    BY Zenon, <1>3, <2>1, <2>3, <2>4
<1>5. DOMAIN inflight' = Workers /\ \A v \in Workers : v # w => inflight'[v] = inflight[v]
  BY Zenon DEF FetchMetadata, IInv, TypeOK
<1>6. \A v \in Workers : inflight'[v] # {} => pc'[v] = "meta"
  BY Zenon, <1>1, <1>2, <1>5 DEF IInv, TypeOK
<1>7. TypeOK'
  BY Zenon, <1>1, <1>4, <1>5, <1>6 DEF IInv, TypeOK, epVars, credVars, envVars
<1>8. OwnCredentials' /\ (\A v \in Workers : Sound(v)') /\ SingleFetch'
  BY Zenon, <1>1, Frame DEF credVars
<1>9. QED
  BY Zenon, <1>7, <1>8 DEF IInv

\* GetTags returns when its goroutines have.
LEMMA GetTagsReturnsKeeps ==
    ASSUME IInv, NEW w \in Workers, GetTagsReturns(w)
    PROVE  IInv'
<1>1. {w} \in SUBSET Workers
  OBVIOUS
<1>2. \A v \in {w} : inflight[v] = {}
  BY Zenon DEF GetTagsReturns
<1>3. UNCHANGED <<epVars, credVars, cache, img, inflight, envVars>> /\ Return({w})
  BY Zenon DEF GetTagsReturns
<1>4. QED
  BY Zenon, <1>1, <1>2, <1>3, WorkersReturn

\* A failing call ends a flight, a client or a goroutine.
LEMMA CallFailsKeeps ==
    ASSUME IInv, NEW w \in Workers, CallFails(w)
    PROVE  IInv'
<1>1. UNCHANGED <<epVars, credVars, cache, img, envVars>>
  BY Zenon DEF CallFails
<1>2. CASE pc[w] = "fetch" /\ Return(Flight(w)) /\ UNCHANGED inflight
  <2>1. Flight(w) \in SUBSET Workers
    BY Zenon DEF Flight
  <2>2. \A v \in Flight(w) : inflight[v] = {}
    <3> TAKE v \in Flight(w)
    <3>1. v \in Workers
      BY Zenon, <2>1
    <3>2. pc[v] # "meta"
      BY <1>2 DEF Flight
    <3>3. QED
      BY Zenon, <3>1, <3>2, NoGoroutines DEF IInv
  <2>3. QED
    BY Zenon, <1>1, <1>2, <2>1, <2>2, WorkersReturn
<1>3. CASE pc[w] \in {"client", "tags"} /\ Return({w}) /\ UNCHANGED inflight
  <2>1. {w} \in SUBSET Workers
    OBVIOUS
  <2>2. pc[w] # "meta"
    BY <1>3
  <2>3. \A v \in {w} : inflight[v] = {}
    BY Zenon, <2>2, NoGoroutines DEF IInv
  <2>4. QED
    BY Zenon, <1>1, <1>3, <2>1, <2>3, WorkersReturn
<1>4. CASE /\ \E t \in inflight[w] : inflight' = [inflight EXCEPT ![w] = @ \ {t}]
           /\ UNCHANGED <<pc, ep, cred>>
  <2>1. DOMAIN inflight' = Workers /\ \A v \in Workers : v # w => inflight'[v] = inflight[v]
    BY Zenon, <1>4 DEF IInv, TypeOK
  <2>2. \A v \in Workers : inflight'[v] # {} => pc'[v] = "meta"
    <3>1. pc[w] = "meta"
      BY Zenon, <1>4 DEF IInv, TypeOK
    <3>2. QED
      BY Zenon, <1>4, <2>1, <3>1 DEF IInv, TypeOK
  <2>3. TypeOK'
    BY Zenon, <1>1, <1>4, <2>1, <2>2 DEF IInv, TypeOK, epVars, credVars, envVars
  <2>4. OwnCredentials' /\ (\A v \in Workers : Sound(v)') /\ SingleFetch'
    BY Zenon, <1>1, <1>4, Frame DEF credVars
  <2>5. QED
    BY Zenon, <2>3, <2>4 DEF IInv
<1>5. QED
  BY Zenon, <1>2, <1>3, <1>4 DEF CallFails

-----------------------------------------------------------------------------
(***************************************************************************)
(* The world outside.                                                      *)
(***************************************************************************)

\* Time, tokens, passwords, secrets and pushes keep the invariant.
LEMMA OutsideKeeps ==
    ASSUME IInv,
           \/ \E w \in Workers : TokenExpires(w)
           \/ \E e \in Expiring : TimePasses(e)
           \/ \E s \in Sources : Rotate(s) \/ UpdateSecret(s)
           \/ \E k \in TagKeys : PushTag(k)
    PROVE  IInv'
<1>1. UNCHANGED <<user, pc, img, ep, cred, registries, loaded, defaultRegistry, cache, inflight>>
  BY Zenon DEF TokenExpires, TimePasses, Rotate, UpdateSecret, PushTag, epVars, credVars, tagVars
<1>2. OwnCredentials' /\ (\A v \in Workers : Sound(v)') /\ SingleFetch'
  BY Zenon, <1>1, Frame
<1>3. age' \in [Endpoints -> {"zero", "fresh", "expired"}]
  <2>1. age \in [Endpoints -> {"zero", "fresh", "expired"}]
    BY Zenon DEF IInv, TypeOK
  <2>2. \/ age' = age
        \/ \E e \in Endpoints : age' = [age EXCEPT ![e] = "expired"]
    BY Zenon DEF TokenExpires, TimePasses, Rotate, UpdateSecret, PushTag, credVars, Expiring
  <2>3. QED
    BY <2>1, <2>2
<1>4. DOMAIN password' = Sources /\ \A s \in Sources : password'[s] \in 0 .. MaxRotations[s]
  <2>1. DOMAIN password = Sources /\ \A s \in Sources : password[s] \in 0 .. MaxRotations[s]
    BY Zenon DEF IInv, TypeOK
  <2>2. \/ password' = password
        \/ \E s \in Sources : /\ password[s] < MaxRotations[s]
                              /\ password' = [password EXCEPT ![s] = password[s] + 1]
    BY Zenon DEF TokenExpires, TimePasses, Rotate, UpdateSecret, PushTag, envVars
  <2>3. QED
    BY <2>1, <2>2
<1>5. DOMAIN secret' = Sources /\ \A s \in Sources : secret'[s] \in 0 .. MaxRotations[s]
  <2>1. DOMAIN secret = Sources /\ \A s \in Sources : secret[s] \in 0 .. MaxRotations[s]
    BY Zenon DEF IInv, TypeOK
  <2>2. \A s \in Sources : password[s] \in 0 .. MaxRotations[s]
    BY Zenon DEF IInv, TypeOK
  <2>3. \/ secret' = secret
        \/ \E s \in Sources : secret' = [secret EXCEPT ![s] = password[s]]
    BY Zenon DEF TokenExpires, TimePasses, Rotate, UpdateSecret, PushTag, envVars
  <2>4. QED
    BY Zenon, <2>1, <2>2, <2>3
<1>6. build' \in [TagKeys -> 1 .. MaxBuild]
  <2>1. build \in [TagKeys -> 1 .. MaxBuild]
    BY Zenon DEF IInv, TypeOK
  <2>2. \/ build' = build
        \/ \E k \in TagKeys : build[k] < MaxBuild /\ build' = [build EXCEPT ![k] = build[k] + 1]
    BY Zenon DEF TokenExpires, TimePasses, Rotate, UpdateSecret, PushTag, envVars
  <2>3. QED
    BY <2>1, <2>2
<1>7. TypeOK'
  BY Zenon, <1>1, <1>3, <1>4, <1>5, <1>6 DEF IInv, TypeOK
<1>8. QED
  BY Zenon, <1>2, <1>7 DEF IInv

-----------------------------------------------------------------------------
(***************************************************************************)
(* The invariant is inductive, and what follows from it.                   *)
(***************************************************************************)

\* The invariant holds when the process starts.
LEMMA InitIInv == Init => IInv
<1> SUFFICES ASSUME Init PROVE IInv
  OBVIOUS
<1>1. registries \in [Prefixes -> Endpoints \cup {None}] /\ defaultRegistry \in Endpoints
  <2>1. <<DockerHub, "init">> \in Endpoints /\ <<DockerHub, "default">> \in Endpoints
    BY Zenon, EndpointTypes
  <2>2. \A p \in Prefixes : (IF p = DockerHub THEN <<p, "init">> ELSE None) \in Endpoints \cup {None}
    BY Zenon, <2>1
  <2>3. QED
    BY Zenon, <2>1, <2>2 DEF Init
<1>2. /\ loaded \subseteq Configured
      /\ user \in [Endpoints -> Creds \cup {None}]
      /\ ep \in [Workers -> Endpoints \cup {None}]
      /\ cred \in [Workers -> Creds \cup {None}]
      /\ DOMAIN pc = Workers
      /\ DOMAIN inflight = Workers
      /\ \A w \in Workers : inflight[w] = {}
      /\ img \in Images
  BY Zenon DEF Init
<1>3. age \in [Endpoints -> {"zero", "fresh", "expired"}]
  BY DEF Init
<1>4. /\ DOMAIN password = Sources /\ \A s \in Sources : password[s] \in 0 .. MaxRotations[s]
      /\ DOMAIN secret = Sources /\ \A s \in Sources : secret[s] \in 0 .. MaxRotations[s]
  BY DEF Init
<1>5. cache \in [Endpoints -> [TagKeys -> 0 .. MaxBuild]]
  <2>1. 0 \in 0 .. MaxBuild
    OBVIOUS
  <2>2. QED
    BY Zenon, <2>1 DEF Init
<1>6. build \in [TagKeys -> 1 .. MaxBuild]
  BY DEF Init
<1>7. TypeOK
  BY Zenon, <1>1, <1>2, <1>3, <1>4, <1>5, <1>6 DEF TypeOK
<1>8. OwnCredentials
  BY Zenon DEF Init, OwnCredentials
<1>9. \A w \in Workers : Sound(w)
  BY DEF Init, Sound
<1>10. SingleFetch
  BY DEF Init, SingleFetch, InFlight
<1>11. QED
  BY Zenon, <1>7, <1>8, <1>9, <1>10 DEF IInv

\* Every step keeps the invariant.
LEMMA NextIInv == IInv /\ [Next]_vars => IInv'
<1> SUFFICES ASSUME IInv, [Next]_vars PROVE IInv'
  OBVIOUS
<1>1. CASE UNCHANGED vars
  <2>1. /\ UNCHANGED <<user, pc, img, ep, cred>>
        /\ UNCHANGED <<epVars, credVars, cache, inflight, envVars>>
    BY Zenon, <1>1 DEF vars, epVars, credVars, tagVars, envVars
  <2>2. TypeOK'
    BY Zenon, <2>1 DEF IInv, TypeOK, epVars, credVars, envVars
  <2>3. QED
    BY Zenon, <2>1, <2>2, Frame DEF IInv
<1>2. ASSUME NEW p \in Configured, LoadRegistryConfiguration(p) PROVE IInv'
  BY Zenon, <1>2, LoadKeeps
<1>3. ASSUME NEW w \in Workers, Worker(w) PROVE IInv'
  <2>1. CASE GetRegistryEndpoint(w) \/ findRegistryEndpointByImage(w) \/ AddInferred(w)
    BY Zenon, <2>1, GetRegistryEndpointKeeps, FindKeeps, AddKeeps
  <2>2. CASE SetEndpointCredentials(w) \/ setEndpointCredentialsInternal(w)
    BY Zenon, <2>2, SetEndpointCredentialsKeeps, BeginKeeps
  <2>3. CASE FetchCredentials(w) \/ StoreCredentials(w)
    BY Zenon, <2>3, FetchKeeps, StoreKeeps
  <2>4. CASE NewRepository(w) \/ Tags(w) \/ Refused(w)
    BY Zenon, <2>4, NewRepositoryKeeps, TagsKeeps, RefusedKeeps
  <2>5. CASE \E t \in TagNames : LookUp(w, t) \/ FetchMetadata(w, t)
    BY Zenon, <2>5, LookUpKeeps, FetchMetadataKeeps
  <2>6. CASE GetTagsReturns(w)
    BY Zenon, <2>6, GetTagsReturnsKeeps
  <2>7. QED
    BY Zenon, <1>3, <2>1, <2>2, <2>3, <2>4, <2>5, <2>6 DEF Worker
<1>4. ASSUME NEW w \in Workers, CallFails(w) PROVE IInv'
  BY Zenon, <1>4, CallFailsKeeps
<1>5. QED
  BY Zenon, <1>1, <1>2, <1>3, <1>4, OutsideKeeps DEF Next

\* What the invariant says of the clients.
LEMMA IInvRight == IInv => RightCredentials
<1> SUFFICES ASSUME IInv PROVE RightCredentials
  OBVIOUS
<1>1. \A w \in Workers : pc[w] \in {"store", "client", "tags", "refused", "meta"} =>
        cred[w] = None \/ cred[w][1] = EffectiveSource(w)
  BY Zenon DEF IInv, Sound
<1>2. QED
  BY Zenon, <1>1 DEF IInv, OwnCredentials, RightCredentials

\* The variables keep their types, and no goroutine that fetches metadata
\* outlives the GetTags that started it.
THEOREM RegistryTypes == Spec => []TypeOK
<1>1. IInv => TypeOK
  BY DEF IInv
<1>2. QED
  BY <1>1, InitIInv, NextIInv, PTL DEF Spec

\* However the flights, expiries, refusals and retries of any number of
\* applications interleave on shared endpoints, an endpoint caches only
\* credentials of its own source and a client uses only one of the source its
\* image asks for (SetEndpointCredentials, NewClient).
THEOREM CredentialsAreRight == Spec => []RightCredentials
BY IInvRight, InitIInv, NextIInv, PTL DEF Spec

\* At most one flight per registry and source reads credentials at a time
\* (flightGroup.Do in SetEndpointCredentials).
THEOREM OneFlight == Spec => []SingleFetch
<1>1. IInv => SingleFetch
  BY DEF IInv
<1>2. QED
  BY <1>1, InitIInv, NextIInv, PTL DEF Spec

=============================================================================
