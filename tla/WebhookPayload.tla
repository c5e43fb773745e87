--------------------------- MODULE WebhookPayload ---------------------------
(***************************************************************************)
(* What a registry's webhook request is understood to say.  Each registry  *)
(* type has a handler that validates a request and reads the registry, the *)
(* repository and the tag that were pushed.                                *)
(*                                                                         *)
(* Host names are sequences of labels and repositories are sequences of    *)
(* path segments, so that the empty string is the empty sequence.  A field *)
(* of a payload that is missing or empty is None or <<>>.                  *)
(***************************************************************************)
EXTENDS Naturals, Sequences

CONSTANTS
  None,
  Lower            \* Lower[s]: path segment s in lower case

DockerIO == <<"docker", "io">>
GhcrIO == <<"ghcr", "io">>
QuayIO == <<"quay", "io">>

WebhookEvent(registryURL, repository, tag) ==
  [reg |-> registryURL, repo |-> repository, tag |-> tag]

\* The first of two texts that is there.
Else(a, b) == IF a = None THEN b ELSE a

\* server.secret[type] is None when it is not configured; with
\* --webhook-require-secret such a type has no handler.
RegisteredTypes(server) == {type \in DOMAIN server.secret : server.requireSecret => server.secret[type] # None}

-----------------------------------------------------------------------------
(* Validate.  A request may carry the secret in a query parameter or in a   *)
(* header, or have its body signed with it.                                 *)

Post(r) == r.method = "POST"
Knows(secret, sent) == secret = None \/ sent = secret

ValidateDockerHub(secret, r) == Post(r) /\ Knows(secret, r.query)
ValidateGHCR(secret, r) == Post(r) /\ r.githubEvent = "package" /\ Knows(secret, r.signedWith)
ValidateHarbor(secret, r) == Post(r) /\ r.contentType = "application/json" /\ Knows(secret, r.header)
ValidateQuay(secret, r) == Post(r) /\ Knows(secret, r.query)
ValidateACR(secret, r) == Post(r) /\ r.contentType = "application/json" /\ Knows(secret, r.header)
ValidateAliyunACR(secret, r) == Post(r) /\ Knows(secret, r.query)
ValidateCloudEvents(secret, r) ==
  /\ Post(r)
  /\ r.contentType \in {"application/json", "application/cloudevents+json"}
  /\ Knows(secret, Else(r.query, r.header))

Validate(type, secret, r) ==
  CASE type = "docker.io" -> ValidateDockerHub(secret, r)
    [] type = "ghcr.io" -> ValidateGHCR(secret, r)
    [] type = "harbor" -> ValidateHarbor(secret, r)
    [] type = "quay.io" -> ValidateQuay(secret, r)
    [] type = "acr" -> ValidateACR(secret, r)
    [] type = "aliyun-acr" -> ValidateAliyunACR(secret, r)
    [] type = "cloudevents" -> ValidateCloudEvents(secret, r)

-----------------------------------------------------------------------------
(* Parse.  Each handler gives the event, or None for an error.              *)

\* Docker Hub, Harbor and Aliyun: the full name, else namespace and name.
FullName(p) ==
  CASE p.fullName # <<>> -> p.fullName
    [] p.fullName = <<>> /\ p.name # None -> IF p.namespace = None THEN <<p.name>> ELSE <<p.namespace, p.name>>
    [] OTHER -> <<>>

ParseDockerHub(p) ==
  IF FullName(p) = <<>> \/ p.tag = None THEN None ELSE WebhookEvent(DockerIO, FullName(p), p.tag)

\* GitHub keeps the case of the owner's name, image references have none.
ParseGHCR(p) ==
  LET tag == Else(p.tag, Else(p.versionName, p.version))
  IN  IF p.action # "published" \/ p.packageType # "container" \/ None \in {p.name, p.owner, tag} THEN None
      ELSE WebhookEvent(GhcrIO, <<Lower[p.owner], Lower[p.name]>>, tag)

\* url is None, or its host and whether url.Parse accepts it.
ParseHarbor(p) ==
  LET registry == IF p.url = None \/ (~p.url.parses /\ Len(p.url.host) < 2) THEN <<"harbor">> ELSE p.url.host
  IN  IF p.action # "PUSH_ARTIFACT" \/ p.resources = 0 \/ p.tag = None \/ FullName(p) = <<>> THEN None
      ELSE WebhookEvent(registry, FullName(p), p.tag)

extractRegistryFromDockerURL(url) ==
  IF url.host # <<>> /\ (url.parses \/ Len(url.host) > 1) THEN url.host ELSE QuayIO

\* The first of the updated tags; the repository is not checked.
ParseQuay(p) ==
  IF p.updatedTags = <<>> THEN None
  ELSE WebhookEvent(IF p.url = None THEN QuayIO ELSE extractRegistryFromDockerURL(p.url),
                    p.repository, p.updatedTags[1])

\* The tag may be empty.
ParseACR(p) ==
  IF p.action # "push" \/ p.repository = <<>> THEN None ELSE WebhookEvent(p.host, p.repository, p.tag)

\* registry_url in the query of the webhook's address goes before the region.
ParseAliyunACR(p) ==
  IF FullName(p) = <<>> \/ p.tag = None THEN None
  ELSE WebhookEvent(CASE p.queryRegistry # <<>> -> p.queryRegistry
                      [] p.queryRegistry = <<>> /\ p.region # None -> <<"registry", p.region, "aliyuncs", "com">>
                      [] OTHER -> <<>>,
                    FullName(p), p.tag)

\* source is None, a URN with region and account, or a host with or without
\* a scheme before it.
extractECRRegistryURL(p) ==
  IF p.source = None \/ p.source.kind # "urn" THEN <<>>
  ELSE <<Else(p.registryId, p.source.account), "dkr", "ecr", p.source.region, "amazonaws", "com">>

extractRegistryFromSource(source) ==
  IF source # None /\ (source.kind = "url" \/ (source.kind = "path" /\ Len(source.host) > 1))
  THEN source.host ELSE <<>>

\* The type is None, or the set of the texts that count in it: the prefix
\* com.amazon.ecr., and container and image anywhere.
\* The data goes before the subject, which is None or holds repository:tag.
\* A registry in the data counts even when it is empty.
parseEvent(p) ==
  LET ecr == "com.amazon.ecr." \in p.type
      name == Else(p.repositoryName, IF ecr THEN None ELSE p.dataRepository)
      repository == CASE name # None -> name [] name = None /\ p.subject # None -> p.subject.repo [] OTHER -> <<>>
      tag == Else(p.imageTag, Else(IF ecr THEN None ELSE p.tag, IF p.subject = None THEN None ELSE p.subject.tag))
      registry == IF ecr THEN extractECRRegistryURL(p)
                  ELSE Else(p.registryUrl, Else(p.registry, extractRegistryFromSource(p.source)))
  IN  IF p.type = {} \/ repository = <<>> \/ tag = None \/ registry = <<>> THEN None
      ELSE WebhookEvent(registry, repository, tag)

ParseCloudEvents(p) == IF p.specversion = None \/ p.type = None THEN None ELSE parseEvent(p)

\* A body that is not JSON, None here, is an error.
Parse(type, p) ==
  CASE p = None -> None
    [] p # None /\ type = "docker.io" -> ParseDockerHub(p)
    [] p # None /\ type = "ghcr.io" -> ParseGHCR(p)
    [] p # None /\ type = "harbor" -> ParseHarbor(p)
    [] p # None /\ type = "quay.io" -> ParseQuay(p)
    [] p # None /\ type = "acr" -> ParseACR(p)
    [] p # None /\ type = "aliyun-acr" -> ParseAliyunACR(p)
    [] p # None /\ type = "cloudevents" -> ParseCloudEvents(p)

ProcessWebhook(server, r) ==
  IF r.type \in RegisteredTypes(server) /\ Validate(r.type, server.secret[r.type], r)
  THEN Parse(r.type, r.body) ELSE None

=============================================================================
