----------------------------- MODULE MCRegistry -----------------------------
(***************************************************************************)
(* Instances of Registry: a private registry with a rotating pull secret,  *)
(* a host whose name starts with that of the private one, part of a        *)
(* registry configured without an expiry, and a registry that is in no     *)
(* configuration.                                                          *)
(***************************************************************************)
EXTENDS Registry, TLC

CONSTANTS w1, w2, pull, own

Private == <<"priv">>
Neighbour == <<"priv", "-eu">>
Lasting == <<"last">>
LastingTeam == Lasting \o <<"/", "team">>
Hub == <<"docker">>
Other == <<"other">>

MCPrefixes == {Private, Neighbour, Lasting, LastingTeam, Hub, Other}

MCConfigured == {Private, LastingTeam}

MCCredentials == [p \in MCPrefixes |-> IF p \in MCConfigured THEN pull ELSE None]

MCExpires == {Private}

Img(r, n, s, st) ==
  [registry |-> r, name |-> n, secret |-> s, strategy |-> st, constraint |-> "a"]

App == <<"app">>
Web == <<"web">>
TeamApp == <<"team", "/", "app">>

\* The cache and the credentials of one endpoint; several tags beside another
\* secret; the default registry; a registry that both workers infer; and an
\* endpoint found by the path of the image, whose credentials do not expire.
MCImages ==
  {w1 :> Img(Private, App, None, "newest-build") @@ w2 :> Img(Private, App, None, "digest"),
   w1 :> Img(Private, Web, None, "newest-build") @@ w2 :> Img(Neighbour, App, own, "semver"),
   w1 :> Img(<<>>, App, None, "semver") @@ w2 :> Img(Private, App, None, "digest"),
   w1 :> Img(<<>>, App, None, "semver") @@ w2 :> Img(Neighbour, App, own, "semver"),
   w1 :> Img(Other, App, own, "semver") @@ w2 :> Img(Other, App, None, "digest"),
   w1 :> Img(Lasting, TeamApp, None, "semver") @@ w2 :> Img(Lasting, TeamApp, own, "digest")}

MCTagList == App :> {"a"} @@ TeamApp :> {"a"} @@ Web :> {"a", "b"}

\* An image's own secret is read in every cycle, so only the other rotates.
MCRotations == [s \in Sources |-> IF s = pull THEN 1 ELSE 0]

MCResponses ==
  {[status |-> 403, body |-> "errors"], [status |-> 401, body |-> "plain"]}
=============================================================================
