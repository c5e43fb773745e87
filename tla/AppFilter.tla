------------------------------ MODULE AppFilter ------------------------------
(***************************************************************************)
(* Which applications an ImageUpdater resource updates, with which images  *)
(* and settings: FilterApplicationsForUpdate, in a pass over all           *)
(* applications of the namespace or in one that a registry's webhook       *)
(* started.  The secrets with the verification keys are read while the     *)
(* pass runs, and may change meanwhile.                                    *)
(*                                                                         *)
(* A settings block that is nil is one whose fields are all None.          *)
(***************************************************************************)
EXTENDS ApplicationType, FiniteSetsExt

CONSTANTS Blank,              \* an annotation that is there and has no text
          Lower,              \* see WebhookPayload
          Secrets,            \* names of secrets
          KeyValues,          \* verification keys they may hold
          Configurations      \* resources, applications, secrets and requests to start from

INSTANCE WebhookPayload

-----------------------------------------------------------------------------
(* Settings.  A value is a text; force-update is "true" or "false".         *)

Fields == {"strategy", "allow", "ignore", "pullSecret", "force", "platforms"}
NoSettings == [f \in Fields |-> None]
NoVerification == [present |-> FALSE, enabled |-> None, cosignKey |-> None]
NoWriteBack == [method |-> None, repo |-> None, branch |-> None, target |-> None, pullRequest |-> None]

\* Mutant: the outer level's settings go first.
OuterFirst(outer, inner) == [f \in Fields |-> Else(outer[f], inner[f])]

\* Later settings go before earlier ones, field by field.
mergeCommonUpdateSettings(outer, inner) == [f \in Fields |-> Else(inner[f], outer[f])]

\* cosignKey is the name of a secret.
mergeImagesVerification(outer, inner) ==
  [present |-> outer.present \/ inner.present,
   enabled |-> Else(inner.enabled, outer.enabled),
   cosignKey |-> Else(inner.cosignKey, outer.cosignKey)]

\* A pull request is replaced as a whole: its providers exclude each other.
mergeWBCSettings(global, app) == [f \in DOMAIN NoWriteBack |-> Else(app[f], global[f])]

ParseUpdateStrategy(text) ==
  CASE text \in {"semver", "newest-build", "alphabetical", "digest"} -> text
    [] text = "latest" -> "newest-build"
    [] text = "name" -> "alphabetical"
    [] OTHER -> "semver"

newImageFromCommonUpdateSettings(settings) ==
  [f \in Fields |-> CASE f = "strategy" -> IF settings[f] = None THEN "semver" ELSE ParseUpdateStrategy(settings[f])
                      [] f = "force" -> Else(settings[f], "false")
                      [] OTHER -> Else(settings[f], "")]

\* A manifest target has at most one of three blocks, each with name, tag
\* and spec; a spec goes before the others.  None is an error.
NoTarget == [helm |-> None, kustomize |-> None, plugin |-> None]
TargetOf(block) ==
  CASE block = None -> [name |-> None, tag |-> None, spec |-> None]
    [] block # None /\ block.spec # None -> [name |-> None, tag |-> None, spec |-> block.spec]
    [] OTHER -> block
newImageFromManifestTargetSettings(target) ==
  IF Cardinality({b \in DOMAIN target : target[b] # None}) > 1 THEN None
  ELSE [b \in DOMAIN target |-> TargetOf(target[b])]

\* None when the secret, or its field, is not there.
GetSecretField(keys, name) == keys[name]

\* Mutant: a key that is missing is no key.
MissingKeyIsNoKey(settings, keys) ==
  IF ~settings.present \/ settings.enabled = FALSE \/ settings.cosignKey = None THEN ""
  ELSE Else(GetSecretField(keys, settings.cosignKey), "")

\* The key to verify with, "" for no verification, None for an error: no key
\* is named, or its secret is not there.
newImageFromImagesVerification(settings, keys) ==
  CASE ~settings.present \/ settings.enabled = FALSE -> ""
    [] settings.present /\ settings.enabled # FALSE /\ settings.cosignKey # None ->
         GetSecretField(keys, settings.cosignKey)
    [] OTHER -> None

-----------------------------------------------------------------------------
(* Image references as they are written: a host, <<>> for none, and a path. *)

DockerIndex == <<"index", "docker", "io">>

\* Docker Hub is dropped unless it is written, and so is its library.
NewFromIdentifier(ref) ==
  LET hub == ref.host \in {<<>>, DockerIO, DockerIndex}
      keepsLibrary == ~hub \/ ref.host = <<>> \/ Len(ref.path) = 1
  IN  [reg |-> IF hub /\ ref.host # DockerIO THEN <<>> ELSE ref.host,
       repo |-> IF ref.path[1] = "library" /\ ~keepsLibrary THEN Tail(ref.path) ELSE ref.path]

\* Mutant: the registry is not compared.
AnyRegistry(i, event) == event = None \/ i.repo = event.repo

MatchesEvent(i, event) ==
  \/ event = None
  \/ (i.reg = <<>> \/ i.reg = event.reg) /\ i.repo = event.repo

\* The key of one image of a rule, as parseImageList reads it.
ImageKey(im, verification, keys) ==
  newImageFromImagesVerification(mergeImagesVerification(verification, im.verification), keys)

\* parseImageList leaves this image out.
SkipsImage(im, verification, keys, e) ==
  \/ newImageFromManifestTargetSettings(im.target) = None
  \/ ImageKey(im, verification, keys) = None
  \/ ~MatchesEvent(NewFromIdentifier(im.ref), e)

ParsedImage(im, settings, verification, keys) ==
  LET i == NewFromIdentifier(im.ref)
  IN  [alias |-> im.alias, reg |-> i.reg, repo |-> i.repo,
       target |-> newImageFromManifestTargetSettings(im.target),
       key |-> ImageKey(im, verification, keys),
       settings |-> newImageFromCommonUpdateSettings(mergeCommonUpdateSettings(settings, im.common))]

-----------------------------------------------------------------------------
(* The write-back configuration of an application.  A method is its name    *)
(* and the credentials after a colon, a branch the parts between colons, a  *)
(* target its prefix and whether the file is a kustomization or a YAML one. *)

\* The application itself is written, as in an empty configuration.
ArgoCDOnly ==
  [method |-> "argocd", target |-> "default", branch |-> None, writeBranch |-> None, repo |-> None,
   creds |-> None, provider |-> None, labels |-> <<>>]

\* The k-th of a set of positions.
Nth(positions, k) == CHOOSE i \in positions : Cardinality({j \in positions : j < i}) = k - 1

\* Labels without text and repeated ones are dropped.
sanitizePRLabels(labels) ==
  LET earlier(i) == {labels[j].text : j \in 1 .. i - 1}
      kept == {i \in DOMAIN labels : labels[i].text \notin earlier(i) \cup {""}}
  IN  [k \in 1 .. Cardinality(kept) |-> labels[Nth(kept, k)].text]

WriteBackTarget(t) ==
  CASE t = None -> "default"
    [] t # None /\ t.prefix = "kustomization" -> "kustomization"
    [] t # None /\ t.prefix # "kustomization" -> IF t.file = "yaml" THEN "values" ELSE "file"

LooksLikeKustomization(t) == t # None /\ t.prefix = "" /\ t.file = "kustomization"

parseGitConfig(app, settings, wbc) ==
  [branch |-> IF settings.branch = None THEN None ELSE settings.branch[1],
   writeBranch |-> IF settings.branch # None /\ Len(settings.branch) = 2 THEN settings.branch[2] ELSE None,
   repo |-> Else(settings.repo, app.repos[getApplicationSource(app, wbc)]),
   creds |-> Else(settings.method[2], "repocreds")]

InvalidMethodTargetOrBranch(settings) ==
  \/ settings.method[1] # "git"
  \/ LooksLikeKustomization(settings.target)
  \/ settings.branch # None /\ Len(settings.branch) > 2
  \/ settings.method[2] \notin {None, "repocreds", "secret"}

\* Mutant: a write branch may be named beside the request.
ProvidersOnly(settings) == settings.pullRequest # None /\ Cardinality(settings.pullRequest.providers) # 1

\* A pull request has one provider and no write branch.
InvalidPullRequest(settings) ==
  /\ settings.pullRequest # None
  /\ \/ settings.branch # None /\ Len(settings.branch) > 1
     \/ Cardinality(settings.pullRequest.providers) # 1

\* None is an error: the rule is not usable for this application.
newWBCFromSettings(app, settings) ==
  LET target == WriteBackTarget(settings.target)
      git == parseGitConfig(app, settings, [method |-> "git", target |-> target])
      pr == settings.pullRequest
  IN  IF app.sources = <<>> THEN None
      ELSE IF settings.method \in {None, <<"argocd", None>>} THEN ArgoCDOnly
      ELSE IF InvalidMethodTargetOrBranch(settings) \/ InvalidPullRequest(settings) THEN None
      ELSE [method |-> "git", target |-> target,
            branch |-> git.branch, writeBranch |-> git.writeBranch, repo |-> git.repo, creds |-> git.creds,
            provider |-> IF pr = None THEN None ELSE CHOOSE p \in pr.providers : TRUE,
            labels |-> IF pr = None THEN <<>> ELSE sanitizePRLabels(pr.labels)]

-----------------------------------------------------------------------------
(* The settings an application carries in its annotations.                  *)

Text(value) == IF value = Blank THEN None ELSE value

\* None is an error: force-update is not a Boolean.  Platforms are read for
\* an image only, and a blank list of tags to ignore ignores the empty tag.
getCommonUpdateSettingsFromAnnotations(raw, perImage) ==
  IF raw["force"] \notin {None, "true", "false"} THEN None
  ELSE [f \in Fields |-> CASE f = "ignore" /\ raw[f] = Blank -> ""
                           [] f = "platforms" /\ ~perImage -> None
                           [] OTHER -> Text(raw[f])]

\* None is an error: both Helm and Kustomize.
getManifestTargetsFromAnnotations(raw) ==
  LET helm == [name |-> Text(raw.helmName), tag |-> Text(raw.helmTag), spec |-> Text(raw.helmSpec)]
      kustomize == [name |-> Text(raw.kustomizeName), tag |-> None, spec |-> None]
      Given(block) == IF \E f \in DOMAIN block : block[f] # None THEN block ELSE None
  IN  IF Given(helm) # None /\ Given(kustomize) # None THEN None
      ELSE [NoTarget EXCEPT !.helm = Given(helm), !.kustomize = Given(kustomize)]

\* An entry of the list is Blank, or an alias, "" for none, and a reference,
\* None when nothing follows the equals sign.
AnnotatedImage(app, entry) ==
  LET named == entry.alias # ""
  IN  [alias |-> entry.alias, ref |-> entry.ref, verification |-> NoVerification,
       common |-> IF named THEN getCommonUpdateSettingsFromAnnotations(app.annotations.ofAlias[entry.alias], TRUE)
                  ELSE NoSettings,
       target |-> IF named THEN getManifestTargetsFromAnnotations(app.annotations.targets[entry.alias])
                  ELSE NoTarget]

\* Blank entries are dropped; None is an error, or no entry at all.
getImagesFromAnnotations(app) ==
  LET list == app.annotations.imageList
      entries == IF list = None THEN {} ELSE {i \in DOMAIN list : list[i] # Blank}
      images == [k \in 1 .. Cardinality(entries) |-> AnnotatedImage(app, list[Nth(entries, k)])]
      failed(im) == im.ref = None \/ im.common = None \/ im.target = None
  IN  IF entries = {} \/ \E k \in DOMAIN images : failed(images[k]) THEN None ELSE images

getWriteBackConfigFromAnnotations(app) ==
  [f \in DOMAIN NoWriteBack |-> IF f = "pullRequest" THEN None ELSE Text(app.annotations.writeBack[f])]

-----------------------------------------------------------------------------
(* Rules: the applicationRefs of the resource.  A name pattern is known by  *)
(* the names it matches, whether it is valid, whether it has no wildcard,   *)
(* and the number of its literal characters; a selector by the labels it    *)
(* wants and the labels its expressions forbid.                             *)

nameMatchesPattern(app, ref) == app.name \in ref.pattern.matches

nameMatchesLabels(app, ref) ==
  \/ ref.selector = None
  \/ ref.selector.valid /\ ref.selector.labels \subseteq app.labels
                        /\ ref.selector.expressions \cap app.labels = {}

Matches(app, ref) == nameMatchesPattern(app, ref) /\ nameMatchesLabels(app, ref)

\* Mutant: a label or an expression of the selector counts as one literal.
RequirementCountsOne(ref) ==
  (IF ref.pattern.exact THEN 1000000 ELSE 0) + ref.pattern.literals
    + IF ref.selector = None THEN 0
      ELSE 10000 + Cardinality(ref.selector.labels) + Cardinality(ref.selector.expressions)

calculateSpecificity(ref) ==
  (IF ref.pattern.exact THEN 1000000 ELSE 0) + ref.pattern.literals
    + IF ref.selector = None THEN 0
      ELSE 10000 + 100 * (Cardinality(ref.selector.labels) + Cardinality(ref.selector.expressions))

\* Rule i goes before rule j.  The sort is stable.
Before(rules, i, j) ==
  \/ calculateSpecificity(rules[i]) > calculateSpecificity(rules[j])
  \/ calculateSpecificity(rules[i]) = calculateSpecificity(rules[j]) /\ i < j

\* The positions of the rules in that order.
sortApplicationRefs(rules) ==
  CHOOSE s \in [DOMAIN rules -> DOMAIN rules] :
    \A k, l \in DOMAIN rules : k < l => Before(rules, s[k], s[l])

\* What a rule says for an application; images or common is None when its
\* annotations cannot be read.  A rule that reads the annotations ignores
\* the resource's settings except the rule's own verification block.
EffectiveRule(app, ref, cr) ==
  IF ref.useAnnotations
  THEN [images |-> getImagesFromAnnotations(app),
        common |-> getCommonUpdateSettingsFromAnnotations(app.annotations.common, FALSE),
        verification |-> ref.verification,
        writeBack |-> getWriteBackConfigFromAnnotations(app)]
  ELSE [images |-> ref.images,
        common |-> mergeCommonUpdateSettings(cr.common, ref.common),
        verification |-> mergeImagesVerification(cr.verification, ref.verification),
        writeBack |-> mergeWBCSettings(cr.writeBack, ref.writeBack)]

IsValidApplicationType(app, wbc) == getApplicationType(app, wbc) # "Unsupported"

-----------------------------------------------------------------------------
(* What the API server guarantees of a resource and of the applications of  *)
(* its namespace: no two applications share a name, and the images of a     *)
(* rule are a list map with their alias as the key.                         *)

IsList(list) == list \in Seq(Range(list))
Keyed(list, field) == \A i, j \in DOMAIN list : list[i][field] = list[j][field] => i = j
Verification == [present : BOOLEAN, enabled : BOOLEAN \cup {None}, cosignKey : Secrets \cup {None}]
HasProviders(writeBack) == writeBack.pullRequest # None => IsFiniteSet(writeBack.pullRequest.providers)

WellFormedRule(ref) ==
  /\ ref.pattern.exact \in BOOLEAN /\ ref.pattern.literals \in Nat
  /\ ref.selector # None => IsFiniteSet(ref.selector.labels) /\ IsFiniteSet(ref.selector.expressions)
  /\ ref.useAnnotations \in BOOLEAN /\ ref.verification \in Verification /\ HasProviders(ref.writeBack)
  /\ IsList(ref.images) /\ Keyed(ref.images, "alias")
  /\ \A i \in DOMAIN ref.images : ref.images[i].verification \in Verification

WellFormed(c) ==
  /\ c.secrets \in [Secrets -> KeyValues \cup {None}] /\ c.maxChanges \in Nat
  /\ IsList(c.apps) /\ Keyed(c.apps, "name")
  /\ \A i \in DOMAIN c.apps :
       c.apps[i].annotations.imageList # None => IsList(c.apps[i].annotations.imageList)
  /\ IsList(c.cr.refs) /\ \A i \in DOMAIN c.cr.refs : WellFormedRule(c.cr.refs[i])
  /\ c.cr.verification \in Verification /\ HasProviders(c.cr.writeBack)

ASSUME ConfigurationsAssumption == \A c \in Configurations : WellFormed(c)
ASSUME NoneAssumption == None # "" /\ None \notin KeyValues

-----------------------------------------------------------------------------
(* The pass.                                                                *)

VARIABLES
  conf,      \* the resource, the applications of its namespace, the webhook
             \* server and the request, the secrets at first and a bound on
             \* how often they change
  secrets,   \* the key each secret holds, None when it is not there
  pc,        \* "receive", "list", "rule", "writeback", "image", "done", "failed"
             \* or "rejected"
  event,     \* the webhook event, None for a pass over everything
  sorted,    \* applicationRefsSorted, as positions in the resource
  todo,      \* applications left
  refs,      \* rules left for the first of them
  rule,      \* the rule tried or used for it, with the images left in it
  images,    \* the images found for it
  result,    \* appsForUpdate
  changes,   \* how often a secret changed
  held       \* history: what each secret held during the pass

vars == <<conf, secrets, pc, event, sorted, todo, refs, rule, images, result, changes, held>>

Init ==
  /\ conf \in Configurations
  /\ secrets = conf.secrets
  /\ pc = IF conf.request = None THEN "list" ELSE "receive"
  /\ event = None /\ sorted = <<>> /\ todo = <<>> /\ refs = <<>> /\ rule = None
  /\ images = <<>> /\ result = <<>> /\ changes = 0
  /\ held = [s \in Secrets |-> {secrets[s]}]

\* The webhook server: an invalid request is answered with an error.
Receive ==
  /\ pc = "receive"
  /\ event' = ProcessWebhook(conf.server, conf.request)
  /\ pc' = IF event' = None THEN "rejected" ELSE "list"
  /\ UNCHANGED <<conf, secrets, sorted, todo, refs, rule, images, result, changes, held>>

\* Validation of the resource, then the list of all applications, which may
\* fail.
FilterApplicationsForUpdate ==
  /\ pc = "list"
  /\ LET valid == conf.cr.refs # <<>> /\ \A i \in DOMAIN conf.cr.refs : conf.cr.refs[i].pattern.valid
     IN  \/ pc' = "failed" /\ UNCHANGED <<sorted, todo, refs>>
         \/ /\ valid
            /\ sorted' = sortApplicationRefs(conf.cr.refs) /\ refs' = sorted'
            /\ pc' = "rule" /\ todo' = conf.apps
  /\ UNCHANGED <<conf, secrets, event, rule, images, result, changes, held>>

NextApplication == todo' = Tail(todo) /\ refs' = sorted /\ pc' = "rule" /\ rule' = None /\ images' = <<>>

\* One round of the inner loop over the rules.
TryRule ==
  /\ pc = "rule" /\ todo # <<>> /\ refs # <<>>
  /\ LET ref == conf.cr.refs[Head(refs)]
     IN  IF Matches(Head(todo), ref)
         THEN rule' = EffectiveRule(Head(todo), ref, conf.cr) /\ pc' = "writeback" /\ UNCHANGED refs
         ELSE refs' = Tail(refs) /\ UNCHANGED <<pc, rule>>
  /\ UNCHANGED <<conf, secrets, event, sorted, todo, images, result, changes, held>>

NoRule ==
  /\ pc = "rule" /\ todo # <<>> /\ refs = <<>>
  /\ NextApplication
  /\ UNCHANGED <<conf, secrets, event, sorted, result, changes, held>>

\* A rule that cannot be used is passed over for the next one; one that can
\* be used is the last, also for an application that cannot be updated.
UseRule ==
  /\ pc = "writeback"
  /\ LET wbc == newWBCFromSettings(Head(todo), rule.writeBack)
     IN  \/ /\ rule.images = None \/ rule.common = None \/ wbc = None
            /\ pc' = "rule" /\ refs' = Tail(refs) /\ rule' = None /\ UNCHANGED <<todo, images>>
         \/ /\ rule.images # None /\ rule.common # None /\ wbc # None
            /\ IF IsValidApplicationType(Head(todo), wbc)
               THEN rule' = [rule EXCEPT !.writeBack = wbc] /\ pc' = "image" /\ UNCHANGED <<todo, refs, images>>
               ELSE NextApplication
  /\ UNCHANGED <<conf, secrets, event, sorted, result, changes, held>>

\* The next image of the rule; its key is read from the secret.
ParseImage ==
  /\ pc = "image" /\ rule.images # <<>>
  /\ LET im == Head(rule.images)
     IN  images' = IF SkipsImage(im, rule.verification, secrets, event) THEN images
                   ELSE Append(images, ParsedImage(im, rule.common, rule.verification, secrets))
  /\ rule' = [rule EXCEPT !.images = Tail(@)]
  /\ UNCHANGED <<conf, secrets, pc, event, sorted, todo, refs, result, changes, held>>

\* appsForUpdate with an entry for the application at hand.
WithApplication ==
  LET name == Head(todo).name
  IN  [n \in DOMAIN result \cup {name} |->
         IF n = name THEN [ref |-> Head(refs), wbc |-> rule.writeBack, images |-> images] ELSE result[n]]

\* Mutant: an application is added without images.
AddWithoutImages ==
  /\ pc = "image" /\ rule.images = <<>>
  /\ result' = WithApplication
  /\ NextApplication
  /\ UNCHANGED <<conf, secrets, event, sorted, changes, held>>

\* An application without images is left out.
AddApplication ==
  /\ pc = "image" /\ rule.images = <<>>
  /\ result' = IF images = <<>> THEN result ELSE WithApplication
  /\ NextApplication
  /\ UNCHANGED <<conf, secrets, event, sorted, changes, held>>

Return ==
  /\ pc = "rule" /\ todo = <<>>
  /\ pc' = "done"
  /\ UNCHANGED <<conf, secrets, event, sorted, todo, refs, rule, images, result, changes, held>>

\* A secret is created, changed or deleted while the pass runs.
ChangeSecret ==
  /\ pc \in {"rule", "writeback", "image"} /\ changes < conf.maxChanges
  /\ \E s \in Secrets, v \in KeyValues \cup {None} :
       /\ v # secrets[s]
       /\ secrets' = [secrets EXCEPT ![s] = v]
       /\ held' = [held EXCEPT ![s] = @ \cup {v}]
  /\ changes' = changes + 1
  /\ UNCHANGED <<conf, pc, event, sorted, todo, refs, rule, images, result>>

Ended == pc \in {"done", "failed", "rejected"} /\ UNCHANGED vars

Updater ==
  Receive \/ FilterApplicationsForUpdate \/ TryRule \/ NoRule \/ UseRule \/ ParseImage \/ AddApplication \/ Return
Next == Updater \/ ChangeSecret \/ Ended

Spec == Init /\ [][Next]_vars

-----------------------------------------------------------------------------
(* Properties.                                                              *)

\* The applications found are of the list and each has an image to update.
TypeOK ==
  /\ secrets \in [Secrets -> KeyValues \cup {None}]
  /\ pc \in {"receive", "list", "rule", "writeback", "image", "done", "failed", "rejected"}
  /\ changes \in 0..conf.maxChanges
  /\ \A s \in Secrets : secrets[s] \in held[s]
  /\ IF pc \in {"writeback", "image"} THEN DOMAIN rule = {"images", "common", "verification", "writeBack"}
                                     ELSE rule = None
  /\ \A name \in DOMAIN result :
       /\ \E i \in DOMAIN conf.apps : conf.apps[i].name = name
       /\ result[name].images # <<>>
       /\ result[name].ref \in DOMAIN conf.cr.refs

App(name) == conf.apps[CHOOSE i \in DOMAIN conf.apps : conf.apps[i].name = name]
Rule(i) == conf.cr.refs[i]

\* What the innermost of several blocks that says anything says.
Innermost(blocks, f) ==
  LET says == {i \in DOMAIN blocks : blocks[i][f] # None}
  IN  IF says = {} THEN None ELSE blocks[Max(says)][f]

\* The blocks that apply to an image, from the resource to the image.
SettingsBlocks(app, ref, im) ==
  IF ref.useAnnotations
  THEN <<getCommonUpdateSettingsFromAnnotations(app.annotations.common, FALSE), im.common>>
  ELSE <<conf.cr.common, ref.common, im.common>>
VerificationBlocks(ref, im) ==
  IF ref.useAnnotations THEN <<ref.verification, im.verification>>
  ELSE <<conf.cr.verification, ref.verification, im.verification>>
WriteBackBlocks(app, ref) ==
  IF ref.useAnnotations THEN <<getWriteBackConfigFromAnnotations(app)>> ELSE <<conf.cr.writeBack, ref.writeBack>>
ConfiguredImages(app, ref) == Range(IF ref.useAnnotations THEN getImagesFromAnnotations(app) ELSE ref.images)

\* Every image found, with its application's entry and its configuration.
Found ==
  UNION {{<<name, i, im>> : i \in DOMAIN result[name].images,
                            im \in ConfiguredImages(App(name), Rule(result[name].ref))} : name \in DOMAIN result}
ForEveryFound(P(_, _, _, _)) ==
  \A w \in Found :
    LET entry == result[w[1]]
    IN  entry.images[w[2]].alias = w[3].alias => P(App(w[1]), Rule(entry.ref), w[3], entry.images[w[2]])

\* Each update setting of an image is the one of the innermost level that
\* sets it: the resource, the rule, the image.  The two merges in
\* FilterApplicationsForUpdate and parseImageList together do that.
InnermostWins ==
  ForEveryFound(LAMBDA app, ref, im, img :
    LET setting(f, default) == Else(Innermost(SettingsBlocks(app, ref, im), f), default)
    IN  /\ img.settings["strategy"] = ParseUpdateStrategy(setting("strategy", "semver"))
        /\ img.settings["force"] = setting("force", "false")
        /\ \A f \in Fields \ {"strategy", "force"} : img.settings[f] = setting(f, ""))

Required(ref, im) ==
  LET blocks == VerificationBlocks(ref, im)
  IN  (\E i \in DOMAIN blocks : blocks[i].present) /\ Innermost(blocks, "enabled") # FALSE
KeySecret(ref, im) == Innermost(VerificationBlocks(ref, im), "cosignKey")

\* An image some level wants verified is never found without a key, and its
\* key is one that the secret of the innermost level held during the pass:
\* a secret that is missing or vanishes leaves the image out.  The levels are
\* the resource, the rule and the image; under useAnnotations the resource is
\* none of them, as argocd_test.go:4878 demands: there the rule alone can ask
\* for verification.
VerificationKept ==
  ForEveryFound(LAMBDA app, ref, im, img :
    IF Required(ref, im) THEN KeySecret(ref, im) # None /\ img.key \in held[KeySecret(ref, im)] \ {None}
    ELSE img.key = "")

\* A pull request is proposed by one provider of one level, the innermost
\* that has a pullRequest block, and only where the merged branch names no
\* write branch; it is never dropped from a Git write-back.
OneProvider ==
  \A name \in DOMAIN result :
    LET entry == result[name]
        blocks == WriteBackBlocks(App(name), Rule(entry.ref))
        pr == Innermost(blocks, "pullRequest")
    IN  IF entry.wbc.method = "git" /\ pr # None
        THEN pr.providers = {entry.wbc.provider} /\ entry.wbc.writeBranch = None
        ELSE entry.wbc.provider = None

\* The rules that match an application, and those that can be used for it.
Matching(app) == {i \in DOMAIN conf.cr.refs : Matches(app, Rule(i))}
WriteBackConfig(app, i) == newWBCFromSettings(app, EffectiveRule(app, Rule(i), conf.cr).writeBack)
Usable(app) ==
  {i \in Matching(app) :
     LET r == EffectiveRule(app, Rule(i), conf.cr)
     IN  r.images # None /\ r.common # None /\ WriteBackConfig(app, i) # None}

\* How specific a rule is meant to be: an exact name goes before all else,
\* then a selector, then the longer selector, then the longer pattern; among
\* equals the first in the resource.  The scores keep to that order as long
\* as there are fewer than 100 literals and requirements in every rule.
Requirements(ref) ==
  IF ref.selector = None THEN 0 ELSE Cardinality(ref.selector.labels) + Cardinality(ref.selector.expressions)
Rank(ref) ==
  <<IF ref.pattern.exact THEN 1 ELSE 0, IF ref.selector = None THEN 0 ELSE 1, Requirements(ref), ref.pattern.literals>>
Outranks(a, b) == \E k \in 1..4 : Rank(a)[k] > Rank(b)[k] /\ \A l \in 1..k - 1 : Rank(a)[l] = Rank(b)[l]
Precedes(i, j) == Outranks(Rule(i), Rule(j)) \/ (Rank(Rule(i)) = Rank(Rule(j)) /\ i < j)
Ordinary == \A i \in DOMAIN conf.cr.refs : Requirements(Rule(i)) < 100 /\ Rule(i).pattern.literals < 100

\* The most specific of the matching rules, none when it cannot be used.
RuleFor(app) == {i \in Usable(app) : Ordinary /\ \A j \in Matching(app) \ {i} : Precedes(i, j)}

\* Nothing but the event can leave out this image of a rule.
Due(ref, im) ==
  /\ newImageFromManifestTargetSettings(im.target) # None
  /\ Required(ref, im) => KeySecret(ref, im) # None /\ None \notin held[KeySecret(ref, im)]

InResult(app, im) ==
  /\ app.name \in DOMAIN result
  /\ \E i \in DOMAIN result[app.name].images : result[app.name].images[i].alias = im.alias

\* The images that an application must be updated for.
DueImages(app) ==
  UNION {{im \in ConfiguredImages(app, Rule(i)) : Due(Rule(i), im)} :
           i \in {i \in RuleFor(app) : IsValidApplicationType(app, WriteBackConfig(app, i))}}

\* When the pass is done every application found has a rule that matches it
\* and can be used.  It is the most specific matching rule if that one can
\* be used, and then no image of it is forgotten, whatever is wrong with
\* other applications, other rules or other images of the rule.  When the
\* most specific one cannot be used the code tries the next and the
\* documentation stops: nothing is claimed about which rule is used then.
NobodyForgotten ==
  pc = "done" =>
    \A app \in Range(conf.apps) :
      /\ app.name \in DOMAIN result =>
           result[app.name].ref \in Usable(app) /\ \A i \in RuleFor(app) : result[app.name].ref = i
      /\ \A im \in DueImages(app) : MatchesEvent(NewFromIdentifier(im.ref), event) => InResult(app, im)

\* The repository an image reference means.
Means(ref, push) == ref.path = push.repo /\ (IF ref.host \in {<<>>, DockerIndex} THEN DockerIO ELSE ref.host) = push.reg

\* A request that a registry sends for a push is understood: it is not
\* rejected, the images of the pushed repository are all looked at, and no
\* image written with another registry or another repository is.  One
\* written without a registry, or with index.docker.io, which the parser
\* drops, is looked at for the push of any registry: argocd_test.go:2314
\* demands it of the former.  This takes the handler of the registry, the
\* parser of image references and the match of the two to agree.
PushReaches ==
  conf.push # None =>
    /\ pc # "rejected"
    /\ ForEveryFound(LAMBDA app, ref, im, img :
         im.ref.path = conf.push.repo /\ im.ref.host \in {<<>>, DockerIndex, conf.push.reg})
    /\ pc = "done" => \A app \in Range(conf.apps) : \A im \in DueImages(app) :
                         Means(im.ref, conf.push) => InResult(app, im)

=============================================================================
