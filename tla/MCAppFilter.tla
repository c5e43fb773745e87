----------------------------- MODULE MCAppFilter -----------------------------
(***************************************************************************)
(* Small resources, applications and webhook requests for AppFilter.  Each *)
(* family of configurations varies what one part of the filter depends on. *)
(***************************************************************************)
EXTENDS AppFilter, TLC

MCLower == [s \in {"acme", "Acme", "web", "Web", "db", "library"} |->
              CASE s = "Acme" -> "acme" [] s = "Web" -> "web" [] OTHER -> s]

-----------------------------------------------------------------------------
(* Building blocks.                                                         *)

NoRaw == NoSettings
RawTarget == [helmName |-> None, helmTag |-> None, helmSpec |-> None, kustomizeName |-> None]
NotAnnotated ==
  [imageList |-> None, common |-> NoRaw, ofAlias |-> [a \in {"x", "y"} |-> NoRaw],
   targets |-> [a \in {"x", "y"} |-> RawTarget], writeBack |-> NoWriteBack]

Helm == [EmptySource EXCEPT !.helm = <<>>]
Application(name, labels) ==
  [name |-> name, labels |-> labels, multi |-> FALSE, hydrator |-> FALSE, sources |-> <<Helm>>,
   types |-> <<"Helm">>, repos |-> <<"repo1">>, annotations |-> NotAnnotated]

Written(host, path) == [host |-> host, path |-> path]
Web == Written(QuayIO, <<"acme", "web">>)
Db == Written(<<>>, <<"acme", "db">>)

Configured(alias, ref) ==
  [alias |-> alias, ref |-> ref, common |-> NoSettings, target |-> NoTarget, verification |-> NoVerification]
X == Configured("x", Web)
Y == Configured("y", Db)

Exactly(name) == [matches |-> {name}, valid |-> TRUE, exact |-> TRUE, literals |-> 1]
Everything == [matches |-> {"a", "b"}, valid |-> TRUE, exact |-> FALSE, literals |-> 0]
Malformed == [Everything EXCEPT !.valid = FALSE]
OneOf(names) == [Everything EXCEPT !.matches = names]
Selector(labels, expressions) == [valid |-> TRUE, labels |-> labels, expressions |-> expressions]

ApplicationRef(pattern) ==
  [pattern |-> pattern, selector |-> None, useAnnotations |-> FALSE, common |-> NoSettings,
   verification |-> NoVerification, writeBack |-> NoWriteBack, images |-> <<X>>]
Resource(rules) ==
  [refs |-> rules, common |-> NoSettings, verification |-> NoVerification, writeBack |-> NoWriteBack]

Git(creds) == [NoWriteBack EXCEPT !.method = <<"git", creds>>]
PullRequest(providers) == [providers |-> providers, labels |-> <<[text |-> "l"], [text |-> ""], [text |-> "l"]>>]

NoKeys == [s \in Secrets |-> None]
NoServer == [secret |-> <<>>, requireSecret |-> TRUE]
Conf(cr, apps) ==
  [cr |-> cr, apps |-> apps, server |-> NoServer, request |-> None, push |-> None, secrets |-> NoKeys,
   maxChanges |-> 0]

-----------------------------------------------------------------------------
(* Rules that compete for two applications.                                 *)

Annotated(app, list) == [app EXCEPT !.annotations.imageList = list]
Entry(alias, ref) == [alias |-> alias, ref |-> ref]

Rules ==
  LET star == ApplicationRef(Everything)
  IN  {star, [star EXCEPT !.images = <<Y>>], ApplicationRef(Exactly("a")), ApplicationRef(OneOf({"b"})),
       [star EXCEPT !.selector = Selector({"prod"}, {})],
       [star EXCEPT !.selector = Selector({}, {"prod"})],
       [star EXCEPT !.selector = [Selector({"prod"}, {}) EXCEPT !.valid = FALSE]],
       [ApplicationRef(Exactly("a")) EXCEPT !.useAnnotations = TRUE],
       [ApplicationRef(Exactly("a")) EXCEPT !.writeBack = Git("unknown")],
       [ApplicationRef(Exactly("b")) EXCEPT
          !.images = <<[X EXCEPT !.target.helm = TargetOf(None), !.target.plugin = TargetOf(None)], Y>>]}

Apps ==
  LET a == Application("a", {"prod"})
      b == Application("b", {})
  IN  {<<a, b>>, <<Annotated(a, <<Blank, Entry("y", Db)>>), b>>, <<Annotated(a, <<Blank>>), b>>, <<b>>, <<>>,
       <<[a EXCEPT !.types = <<"Directory">>], b>>, <<[a EXCEPT !.sources = <<>>], b>>}

\* namePattern is the key of the rules, so a name is there once; what a
\* pattern with wildcards matches can be written in many ways.
Pairs(rules) ==
  {r \in rules \X rules :
     r[1].pattern.exact /\ r[2].pattern.exact => r[1].pattern.matches # r[2].pattern.matches}

RuleFamily ==
  {Conf(Resource(Append(r, ApplicationRef(Everything))), apps) : r \in Pairs(Rules), apps \in Apps}
    \cup {Conf(Resource(rules), <<Application("a", {})>>) :
            rules \in {<<>>, <<ApplicationRef(Everything), ApplicationRef(Malformed)>>}}

-----------------------------------------------------------------------------
(* Two rules of every rank, up to the weights of the scores, for an         *)
(* application with a name of 99 characters and 99 labels.                  *)

OrderFamily ==
  LET patterns == {[Everything EXCEPT !.literals = n] : n \in {0, 1, 99}}
                    \cup {[Exactly("a") EXCEPT !.literals = 99]}
      selectors == {None, Selector({}, {}), Selector({1}, {}), Selector({1}, {0}), Selector(1..99, {})}
      ranked == {[ApplicationRef(p) EXCEPT !.selector = s] : p \in patterns, s \in selectors}
  IN  {Conf(Resource(r), <<Application("a", 1..99)>>) : r \in Pairs(ranked)}

-----------------------------------------------------------------------------
(* Settings at every level, in the resource and in annotations.             *)

Settings ==
  {NoSettings, [NoSettings EXCEPT !["force"] = "true", !["allow"] = "1"],
   [NoSettings EXCEPT !["strategy"] = "latest", !["allow"] = "2", !["force"] = "false", !["platforms"] = "arm"]}

RawSettings ==
  {NoRaw, [NoRaw EXCEPT !["force"] = "yes"], [NoRaw EXCEPT !["force"] = "true", !["platforms"] = "arm"],
   [NoRaw EXCEPT !["allow"] = Blank, !["ignore"] = Blank, !["strategy"] = "name"],
   [NoRaw EXCEPT !["allow"] = "1", !["platforms"] = "amd"]}

RawTargets ==
  {RawTarget, [RawTarget EXCEPT !.helmName = "n", !.helmSpec = Blank], [RawTarget EXCEPT !.helmSpec = "s"],
   [RawTarget EXCEPT !.kustomizeName = "web"], [RawTarget EXCEPT !.kustomizeName = "web", !.helmTag = "t"]}

FromAnnotations == [ApplicationRef(Exactly("a")) EXCEPT !.useAnnotations = TRUE]

AnnotatedApp(common, ofX, target, writeBack, list) ==
  [Application("a", {}) EXCEPT
     !.annotations = [imageList |-> list, common |-> common,
                      ofAlias |-> [a \in {"x", "y"} |-> IF a = "x" THEN ofX ELSE NoRaw],
                      targets |-> [a \in {"x", "y"} |-> IF a = "x" THEN target ELSE RawTarget],
                      writeBack |-> writeBack]]

SettingsFamily ==
  {Conf([Resource(<<[ApplicationRef(Everything) EXCEPT !.common = s2, !.images = <<[X EXCEPT !.common = s3], Y>>]>>)
           EXCEPT !.common = s1],
        <<Application("a", {})>>) : s1 \in Settings, s2 \in Settings, s3 \in Settings}
    \cup
  {Conf([Resource(<<FromAnnotations, ApplicationRef(Everything)>>) EXCEPT !.common = s1],
        <<AnnotatedApp(s2, s3, t, NoWriteBack, <<Entry("x", Web), Entry("", Db)>>)>>) :
     s1 \in Settings, s2 \in RawSettings, s3 \in RawSettings, t \in RawTargets}
    \cup
  {Conf(Resource(<<FromAnnotations, ApplicationRef(Everything)>>),
        <<AnnotatedApp(NoRaw, NoRaw, RawTarget, w, list)>>) :
     w \in {NoWriteBack, [NoWriteBack EXCEPT !.method = Blank], [Git(None) EXCEPT !.branch = <<"main">>],
            [Git(None) EXCEPT !.branch = <<"a", "b", "c">>]},
     list \in {<<Entry("x", None)>>, <<Entry("x", Web)>>}}

-----------------------------------------------------------------------------
(* Verification at every level, with secrets that come and go.              *)

Verified(enabled, cosignKey) == [present |-> TRUE, enabled |-> enabled, cosignKey |-> cosignKey]
Verifications ==
  {NoVerification, Verified(None, "s1"), Verified(TRUE, None), Verified(FALSE, None), Verified(TRUE, "s2")}

VerificationFamily ==
  {[Conf([Resource(<<[ref EXCEPT !.verification = v2, !.images = <<[X EXCEPT !.verification = v3], Y>>]>>)
            EXCEPT !.verification = v1],
         <<Annotated(Application("a", {}), <<Entry("x", Web)>>), Application("b", {})>>)
     EXCEPT !.secrets = [s \in Secrets |-> IF s = "s1" THEN "k1" ELSE None], !.maxChanges = 1] :
     ref \in {ApplicationRef(Everything), FromAnnotations}, v1 \in Verifications, v2 \in Verifications,
     v3 \in Verifications}

-----------------------------------------------------------------------------
(* Write-back configurations of the resource and of a rule.                 *)

WriteBacks ==
  {NoWriteBack, [NoWriteBack EXCEPT !.method = <<"argocd", None>>],
   [NoWriteBack EXCEPT !.method = <<"argocd", "secret">>],
   Git("secret"), Git("unknown"),
   [Git(None) EXCEPT !.pullRequest = PullRequest({"github"})],
   [NoWriteBack EXCEPT !.pullRequest = PullRequest({"gitlab"}), !.repo = "repo2"],
   [NoWriteBack EXCEPT !.pullRequest = PullRequest({"gitlab", "github"})],
   [NoWriteBack EXCEPT !.pullRequest = PullRequest({})],
   [NoWriteBack EXCEPT !.branch = <<"main", "image">>], [NoWriteBack EXCEPT !.branch = <<"main">>],
   [Git(None) EXCEPT !.branch = <<"a", "b", "c">>],
   [Git(None) EXCEPT !.target = [prefix |-> "kustomization", file |-> "kustomization"]],
   [Git(None) EXCEPT !.target = [prefix |-> "helmvalues", file |-> "yaml"]],
   [NoWriteBack EXCEPT !.target = [prefix |-> "", file |-> "kustomization"]],
   [NoWriteBack EXCEPT !.target = [prefix |-> "", file |-> "other"]]}

WriteBackFamily ==
  {Conf([Resource(<<[ApplicationRef(Everything) EXCEPT !.writeBack = w2]>>) EXCEPT !.writeBack = w1], <<app>>) :
     w1 \in WriteBacks, w2 \in WriteBacks,
     app \in {Application("a", {}),
              [Application("a", {}) EXCEPT !.multi = TRUE, !.sources = <<EmptySource, Helm>>,
                 !.types = <<"Directory", "Directory">>, !.repos = <<"repo1", "repo3">>]}}

-----------------------------------------------------------------------------
(* Webhook requests: what each kind of registry sends for a push.           *)

Push(reg, repo) == [reg |-> reg, repo |-> repo]
Payload ==
  [fullName |-> <<>>, name |-> None, namespace |-> None, owner |-> None, tag |-> None, versionName |-> None,
   version |-> None, action |-> None, packageType |-> None, resources |-> 0, url |-> None, updatedTags |-> <<>>,
   repository |-> <<>>, host |-> <<>>, queryRegistry |-> <<>>, region |-> None, specversion |-> None,
   type |-> None, subject |-> None, repositoryName |-> None, dataRepository |-> None, imageTag |-> None,
   registryUrl |-> None, registry |-> None, registryId |-> None, source |-> None]
URL(host, parses) == [host |-> host, parses |-> parses]
Source0(kind, host, region, account) == [kind |-> kind, host |-> host, region |-> region, account |-> account]

Named(repo) ==
  {[Payload EXCEPT !.fullName = repo, !.tag = "1.1"],
   [Payload EXCEPT !.namespace = repo[1], !.name = repo[2], !.tag = "1.1"]}

Sent(type, push) ==
  CASE type = "docker.io" -> Named(push.repo)
    [] type = "ghcr.io" ->
         {[p EXCEPT !.action = "published", !.packageType = "container", !.owner = "Acme", !.name = push.repo[2]] :
            p \in {[Payload EXCEPT !.tag = "1.1"], [Payload EXCEPT !.versionName = "1.1"],
                   [Payload EXCEPT !.version = "1.1"]}}
    [] type = "harbor" ->
         {[p EXCEPT !.action = "PUSH_ARTIFACT", !.resources = 1, !.url = URL(push.reg, ok)] :
            p \in Named(push.repo), ok \in BOOLEAN}
    [] type = "quay.io" ->
         {[Payload EXCEPT !.repository = push.repo, !.updatedTags = <<"1.1", "1">>, !.url = u] :
            u \in {URL(push.reg, TRUE), URL(push.reg, FALSE)}
                  \cup IF push.reg = QuayIO THEN {None, URL(<<>>, TRUE)} ELSE {}}
    [] type = "acr" ->
         {[Payload EXCEPT !.action = "push", !.repository = push.repo, !.host = push.reg, !.tag = t] :
            t \in {"1.1", None}}
    [] type = "aliyun-acr" ->
         {IF push.reg[1] = "registry" THEN [p EXCEPT !.region = push.reg[2]]
          ELSE [p EXCEPT !.region = "eu", !.queryRegistry = push.reg] : p \in Named(push.repo)}
    [] type = "cloudevents" ->
         LET ecr == Len(push.reg) = 6
             base == [Payload EXCEPT !.specversion = "1.0",
                                    !.type = IF ecr THEN {"com.amazon.ecr.", "image"} ELSE {"container"}]
             registries == IF ecr THEN {[base EXCEPT !.source = Source0("urn", <<>>, push.reg[4], push.reg[1])],
                                        [base EXCEPT !.source = Source0("urn", <<>>, push.reg[4], "0"),
                                                     !.registryId = push.reg[1]]}
                           ELSE {[base EXCEPT !.registryUrl = push.reg], [base EXCEPT !.registry = push.reg],
                                 [base EXCEPT !.source = Source0("url", push.reg, None, None)],
                                 [base EXCEPT !.source = Source0("path", push.reg, None, None)]}
         IN  UNION {{[p EXCEPT !.subject = [repo |-> push.repo, tag |-> "1.1"]],
                     [p EXCEPT !.repositoryName = push.repo, !.imageTag = "1.1",
                               !.type = IF ecr THEN {"com.amazon.ecr."} ELSE {"image"}]} : p \in registries}

Request(type, body) ==
  [type |-> type, method |-> "POST", contentType |-> "application/json", githubEvent |-> "package",
   query |-> IF type \in {"docker.io", "quay.io", "aliyun-acr"} THEN "secret" ELSE None,
   header |-> IF type \in {"harbor", "acr", "cloudevents"} THEN "secret" ELSE None,
   signedWith |-> IF type = "ghcr.io" THEN "secret" ELSE None, body |-> body]

Server == [secret |-> "docker.io" :> None
                        @@ [t \in {"ghcr.io", "harbor", "quay.io", "acr", "aliyun-acr", "cloudevents"} |-> "secret"],
           requireSecret |-> FALSE]

ECR == <<"1", "dkr", "ecr", "eu", "amazonaws", "com">>
Harbor == <<"harbor", "acme", "org">>
Aliyun == <<"registry", "eu", "aliyuncs", "com">>
Enterprise == <<"acme", "eu", "cr", "aliyuncs", "com">>

Pushes ==
  {<<"docker.io", DockerIO>>, <<"ghcr.io", GhcrIO>>, <<"harbor", Harbor>>, <<"quay.io", QuayIO>>,
   <<"quay.io", Harbor>>, <<"acr", Harbor>>, <<"aliyun-acr", Aliyun>>, <<"aliyun-acr", Enterprise>>,
   <<"cloudevents", ECR>>, <<"cloudevents", Harbor>>}

\* An application with images of the pushed repository and of others, two of
\* them without a registry for the parser.
Watching(push) ==
  <<Configured("1", Written(push.reg, push.repo)), Configured("2", Written(<<>>, push.repo)),
    Configured("3", Written(push.reg, <<"acme", "other">>)), Configured("4", Written(<<"other", "org">>, push.repo)),
    Configured("5", Written(DockerIndex, push.repo))>>

Genuine ==
  UNION {LET push == Push(w[2], <<"acme", repo>>)
         IN  {[Conf(Resource(<<[ApplicationRef(Everything) EXCEPT !.images = Watching(push)]>>),
                    <<Application("a", {}), Application("b", {})>>)
                 EXCEPT !.server = Server, !.request = Request(w[1], p), !.push = push] : p \in Sent(w[1], push)} :
           w \in Pushes, repo \in {"web", "db"}}

\* Requests that are not about a push, or not from the registry.
Invalid(r) ==
  {[r EXCEPT !.method = "GET"], [r EXCEPT !.query = "other", !.header = "other", !.signedWith = None],
   [r EXCEPT !.type = None], [r EXCEPT !.body = None],
   [r EXCEPT !.contentType = "text/plain", !.githubEvent = "ping"], [r EXCEPT !.body = Payload],
   [r EXCEPT !.body.tag = None, !.body.imageTag = None, !.body.subject = None, !.body.updatedTags = <<>>,
             !.body.action = "delete"],
   [r EXCEPT !.body.url = None, !.body.source = None, !.body.region = None], [r EXCEPT !.body.type = {}]}

WebhookFamily ==
  Genuine \cup
  UNION {{[c EXCEPT !.request = r, !.push = None, !.server.requireSecret = q] :
            q \in BOOLEAN, r \in Invalid(c.request)} : c \in {c \in Genuine : c.push.repo[2] = "web"}}

MCConfigurations == RuleFamily \cup OrderFamily \cup SettingsFamily \cup VerificationFamily \cup WriteBackFamily \cup WebhookFamily

=============================================================================
