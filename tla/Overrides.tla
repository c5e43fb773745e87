------------------------------ MODULE Overrides ------------------------------
(***************************************************************************)
(* How the image of a container is read from and written to an Argo CD     *)
(* application and to the file that overrides it: Helm parameters, entries *)
(* of a Helm values file, Kustomize images and plugin environments.        *)
(*                                                                         *)
(* A written value is a record of the parts of an image reference it       *)
(* holds.                                                                  *)
(***************************************************************************)
EXTENDS TagSelection

CONSTANTS
  Params,                \* Helm parameter names and plugin environment names
  DefaultHelmImageName,
  DefaultHelmImageTag,
  Latest,                \* the tag name latest
  Unsafe                 \* tags that need quotes in YAML, like 1.20

INSTANCE ApplicationType

Value(reg, repo, tag, digest) == [reg |-> reg, repo |-> repo, tag |-> tag, digest |-> digest]

\* An image is a value too: a reference with all its parts.
GetFullNameWithoutTag(i) == Value(i.reg, i.repo, None, None)
GetFullNameWithTag(i) == i

\* A digest alone becomes the digest of a tag named latest.
GetTagWithDigest(i) ==
  IF i.tag = None /\ i.digest # None THEN Value(None, None, Latest, i.digest)
  ELSE Value(None, None, i.tag, i.digest)
HasTag(i) == i.tag # None \/ i.digest # None

WithTag(img, t) == Value(img.reg, img.repo, t.name, t.digest)

Or(p, default) == IF p = None THEN default ELSE p

NoParams == [p \in Params |-> None]

-----------------------------------------------------------------------------
(* Live images: the references Argo CD reports, and one without a tag for   *)
(* each image with forceUpdate that is not among them.                      *)

\* The name a Kustomize image replaces is looked for first.
ContainsImage(live, img) ==
  LET named(reg, repo) == SelectSeq(live, LAMBDA i : i.reg = reg /\ i.repo = repo)
      replaced == IF img.kustomizeName = None THEN <<>> ELSE named(None, img.kustomizeName)
  IN  Head(replaced \o named(img.reg, img.repo) \o <<None>>)

GetImagesFromApplication(summary, images) ==
  FoldLeft(LAMBDA live, img : IF img.forceUpdate /\ ContainsImage(live, img) = None
                              THEN Append(live, Value(img.reg, img.repo, None, None)) ELSE live,
           summary, images)

\* A digest takes precedence over the tag name.
Equals(i, j) == IF i.digest # None \/ j.digest # None THEN i.digest = j.digest ELSE i.tag = j.tag

\* The live image of the container that an image tracks with the digest
\* strategy: one with its tag, rather stale than current, else a stale one.
MatchForDigestUpdate(live, img, digest) ==
  LET same == SelectSeq(live, LAMBDA i : i.reg = img.reg /\ i.repo = img.repo)
      stale(i) == i.digest # None /\ i.digest # digest
      tagged(i) == img.tag # None /\ i.tag = img.tag
  IN  Head(SelectSeq(same, LAMBDA i : tagged(i) /\ stale(i)) \o SelectSeq(same, tagged)
             \o SelectSeq(same, stale) \o <<None>>)

-----------------------------------------------------------------------------
(* Writing a source.                                                        *)

\* The hydrator's source is a copy: a field that was nil stays nil.
WithSource(app, at, kind, s) ==
  IF app.hydrator /\ ~app.multi /\ ~Has(app.sources[at], kind) THEN app
  ELSE [app EXCEPT !.sources[at] = s]

-----------------------------------------------------------------------------
(* Helm parameters.  An image names its parameters, None for the default.   *)

HelmName(img) == Or(img.helmName, DefaultHelmImageName)
HelmTag(img) == Or(img.helmTag, DefaultHelmImageTag)

GetHelmImage(s, img) ==
  LET params == s.helm
  IN  CASE params = None -> None
        [] img.helmSpec # None -> params[img.helmSpec]
        [] params[HelmName(img)] = None \/ params[HelmTag(img)] = None -> None
        [] OTHER -> Value(params[HelmName(img)].reg, params[HelmName(img)].repo,
                          params[HelmTag(img)].tag, params[HelmTag(img)].digest)

\* The parameters that an image sets, with their values.
HelmParameters(img, i) ==
  CASE img.helmSpec # None -> (img.helmSpec :> GetFullNameWithTag(i))
    [] HasTag(i) -> (HelmName(img) :> GetFullNameWithoutTag(i)) @@ (HelmTag(img) :> GetTagWithDigest(i))
    [] OTHER -> (HelmName(img) :> GetFullNameWithoutTag(i))

mergeHelmParams(src, merge) == merge @@ src

SetHelmImage(app, at, img, i) ==
  WithSource(app, at, "Helm",
             [app.sources[at] EXCEPT !.helm = mergeHelmParams(Or(@, NoParams), HelmParameters(img, i))])

-----------------------------------------------------------------------------
(* Kustomize images: an alias, or None, and an image reference.             *)

KustomizeImage(alias, i) == [alias |-> alias, image |-> i]

SameEntry(img, k) ==
  /\ k.image.repo = img.repo
  /\ img.kustomizeName # None /\ k.alias # None => k.alias = img.kustomizeName

GetKustomizeImage(s, img) == FirstOr(Or(s.kustomize, <<>>), LAMBDA k : SameEntry(img, k), None)

\* external: the match of Argo CD's KustomizeImage.
KustomizeMatch(k, j) ==
  k.alias = j.alias /\ (j.alias = None => k.image.reg = j.image.reg /\ k.image.repo = j.image.repo)

MergeImage(images, k) ==
  LET i == SelectInSeq(images, LAMBDA j : KustomizeMatch(j, k))
  IN  IF i = 0 THEN Append(images, k) ELSE ReplaceAt(images, i, k)

SetKustomizeImage(app, at, img, i) ==
  LET images == Or(app.sources[at].kustomize, <<>>)
      k == KustomizeImage(img.kustomizeName, i)
      replaced == [j \in DOMAIN images |-> IF SameEntry(img, images[j]) THEN k ELSE images[j]]
  IN  WithSource(app, at, "Kustomize", [app.sources[at] EXCEPT !.kustomize = MergeImage(replaced, k)])

-----------------------------------------------------------------------------
(* Plugin environments.                                                     *)

hasPluginTarget(img) == img.pluginSpec # None \/ img.pluginName # None

GetPluginImage(s, img) ==
  LET env == s.plugin
      name == env[img.pluginName]
      tag == env[img.pluginTag]
  IN  CASE env = None -> None
        [] img.pluginSpec # None -> env[img.pluginSpec]
        [] img.pluginName = None \/ img.pluginTag = None -> None
        [] name = None \/ tag = None -> None
        [] OTHER -> Value(name.reg, name.repo, tag.tag, tag.digest)

PluginEnv(img, i) ==
  LET name == IF img.pluginName = None THEN <<>> ELSE img.pluginName :> GetFullNameWithoutTag(i)
      tag == IF img.pluginTag = None \/ ~HasTag(i) THEN <<>> ELSE img.pluginTag :> GetTagWithDigest(i)
  IN  IF img.pluginSpec # None THEN img.pluginSpec :> GetFullNameWithTag(i) ELSE name @@ tag

SetPluginImage(app, at, img, i) ==
  WithSource(app, at, "Plugin", [app.sources[at] EXCEPT !.plugin = PluginEnv(img, i) @@ Or(@, NoParams)])

-----------------------------------------------------------------------------
(* Reading and writing an image, whatever the kind of the application.      *)

\* Plugin targets need a plugin source; other images a supported type.
Settable(app, wbc, img) ==
  IF hasPluginTarget(img) THEN getApplicationSourceType(app, wbc) = "Plugin"
  ELSE getApplicationType(app, wbc) # "Unsupported"

TargetKind(app, wbc, img) == IF hasPluginTarget(img) THEN "Plugin" ELSE getApplicationType(app, wbc)

getAppImage(s, kind, img) ==
  CASE kind = "Plugin" -> GetPluginImage(s, img)
    [] kind = "Kustomize" -> GetKustomizeImage(s, img)
    [] OTHER -> GetHelmImage(s, img)

\* A Kustomize entry is compared as a string, its alias included.
IsSet(s, kind, img, i) == getAppImage(s, kind, img) = IF kind = "Kustomize" THEN KustomizeImage(None, i) ELSE i

AlreadySet(app, wbc, img, i) == IsSet(Source(app, wbc), TargetKind(app, wbc, img), img, i)

SetIn(app, at, kind, img, i) ==
  CASE kind = "Plugin" -> SetPluginImage(app, at, img, i)
    [] kind = "Kustomize" -> SetKustomizeImage(app, at, img, i)
    [] OTHER -> SetHelmImage(app, at, img, i)

setAppImage(app, wbc, img, i) ==
  SetIn(app, getApplicationSource(app, wbc), TargetKind(app, wbc, img), img, i)

=============================================================================
