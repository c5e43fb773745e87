---------------------------- MODULE MCImageUpdate ----------------------------
(***************************************************************************)
(* Small applications for ImageUpdate.  Each configuration has its own few *)
(* images, pushes, faults and edits, so that their states add up.          *)
(***************************************************************************)
EXTENDS ImageUpdate

\* 1.0, 1.1, 2.0-rc, v1.1 (the same version as 1.1) and main.
MCTags == 1..5
MCSemVer == <<(<<1, 0, 1>>), (<<1, 1, 1>>), (<<2, 0, 0>>), (<<1, 1, 1>>), None>>
MCUnsafe == {2}
MCParams == {"image.name", "image.tag", "name", "tag", "spec", "other"}

\* image.name and image.tag are nested, spec is the first element of a list.
MCPath ==
  "image.name" :> <<Segment("image"), Segment("name")>>
    @@ "image.tag" :> <<Segment("image"), Segment("tag")>>
    @@ "name" :> <<Segment("name")>> @@ "tag" :> <<Segment("side"), Segment("tag")>>
    @@ "spec" :> <<Element("images", 0), Segment("ref")>> @@ "other" :> <<Segment("other")>>

MCKeys == {"ours", "theirs"}

Amd == <<"linux", "amd64", None>>
Arm == <<"linux", "arm", "v7">>

Old == Image(Amd, 1)
New == Image(Amd, 2)
Newer == Image(Amd, 3)
Undated == Image(Amd, None)
ForArm == Image(Arm, 4)
Multi == Index(<<Ref(Old), Ref(ForArm), Ref(Newer)>>)
ArmOnly == Index(<<Ref(ForArm)>>)

Pushed(t, m) == <<t, m>>

-----------------------------------------------------------------------------

Quay(repo, t, d) == Value("quay", repo, t, d)

Configured(strategy) ==
  [reg |-> "quay", repo |-> "web", strategy |-> strategy, match |-> "", allowed |-> {}, ignored |-> {},
   tag |-> None, range |-> None, platforms |-> {}, helmName |-> None, helmTag |-> None,
   helmSpec |-> None, kustomizeName |-> None, pluginName |-> None, pluginTag |-> None,
   pluginSpec |-> None, forceUpdate |-> FALSE, verification |-> FALSE, key |-> "ours",
   foreignSecret |-> FALSE]

SemVerImage == [Configured("semver") EXCEPT !.ignored = {5}]
DigestImage(t) == [Configured("digest") EXCEPT !.tag = t]
Second(img) == [img EXCEPT !.helmName = "name", !.helmTag = "tag"]

Helm == [EmptySource EXCEPT !.helm = NoParams]
Kustomize == [EmptySource EXCEPT !.kustomize = <<>>]
Plugin == [EmptySource EXCEPT !.plugin = NoParams]
App(source, type) == [multi |-> FALSE, hydrator |-> FALSE, sources |-> <<source>>, types |-> <<type>>, edits |-> {}]

\* An application with live images as its chart has them.
Configuration(images, source, type, wbc, chart) ==
  [images |-> images, app |-> App(source, type), file |-> None, wbc |-> wbc, chart |-> chart,
   summary |-> SetToSeq(ToSet(chart)), pushed |-> [r \in {"web"} |-> <<Pushed(1, Old)>>],
   pushes |-> [r \in {"web"} |-> {}], artifacts |-> {}, signatures |-> {},
   sort |-> "unsorted", ignorePlatforms |-> FALSE, runtime |-> Amd, dryRun |-> FALSE, updaters |-> {1},
   lag |-> 0, down |-> {}, fails |-> FALSE, edits |-> {}, byHand |-> [i \in DOMAIN images |-> {}]]

ArgoCD == [method |-> "argocd", target |-> "default"]
Git(place) == [method |-> "git", target |-> place]

Running(t) == <<Quay("web", t, None)>>
RunningBoth(t) == <<Quay("web", t, None), Quay("web", t, None)>>

\* Two updaters and a user share an application.
Shared ==
  [Configuration(<<SemVerImage>>, Helm, "Helm", ArgoCD, Running(1)) EXCEPT
     !.pushes["web"] = {Pushed(2, New), Pushed(3, Newer)},
     !.updaters = {1, 2}, !.lag = 1, !.edits = {1}, !.byHand = <<{Quay("web", 1, None)}>>]

\* A version and a name, the first of them within a range, with failures.
Pair(wbc) ==
  [Configuration(<<[SemVerImage EXCEPT !.range = [valid |-> TRUE, tags |-> {1, 2, 4}]],
                   Second([Configured("alphabetical") EXCEPT
                             !.repo = "db", !.match = "regexp", !.allowed = {1, 4, 5}])>>,
                 Helm, "Helm", wbc, <<Quay("web", 1, None), Quay("db", 1, None)>>) EXCEPT
     !.pushed = [r \in {"web", "db"} |-> <<Pushed(1, Old)>>],
     !.pushes = "web" :> {Pushed(2, New), Pushed(3, New), Pushed(4, New)}
                  @@ "db" :> {Pushed(2, New), Pushed(4, New), Pushed(5, Newer)},
     !.fails = TRUE]

\* The newest build for a platform, with manifests that cannot be fetched.
Builds(sort, wbc) ==
  [Configuration(<<[Configured("newest-build") EXCEPT
                      !.platforms = IF sort = "unsorted" THEN {} ELSE {<<"linux", "arm">>}]>>,
                 Helm, "Helm", wbc, Running(1)) EXCEPT
     !.pushes["web"] = {Pushed(2, New), Pushed(3, Multi), Pushed(4, Undated), Pushed(5, ArmOnly)},
     !.down = {New, Newer}, !.fails = TRUE, !.sort = sort]

\* Two containers track two tags of one repository.
Aliases(wbc) ==
  [Configuration(<<DigestImage(1), Second(DigestImage(2))>>, Helm, "Helm", wbc,
                 <<Quay("web", 1, None), Quay("web", 2, None)>>) EXCEPT
     !.pushed["web"] = <<Pushed(1, Old), Pushed(2, Old)>>,
     !.pushes["web"] = {Pushed(1, New), Pushed(2, New), Pushed(2, Newer)}]

\* Signatures by us and by others, one of them copied to another manifest.
Signed(img) ==
  [Configuration(<<[img EXCEPT !.verification = TRUE]>>, Helm, "Helm", ArgoCD, Running(1)) EXCEPT
     !.pushes["web"] = {Pushed(1, New), Pushed(2, New), Pushed(2, Newer)},
     !.artifacts = {Artifact("referrer", New, "simple", New, {"ours"}),
                    Artifact("referrer", Newer, "bundle", New, {"ours"})},
     !.signatures = {Artifact("digest-tag", New, "bundle", New, {"ours"}),
                     Artifact("sig-tag", Newer, "simple", Newer, {"theirs"})},
     !.fails = TRUE]

SignedBuild ==
  [Signed(Configured("newest-build")) EXCEPT
     !.pushes["web"] = {Pushed(2, New), Pushed(3, Newer)},
     !.signatures = @ \cup {Artifact("digest-tag", Newer, "bundle", Newer, {"ours"})}]

\* A values file: nested keys, a list element, and one key written with its dots.
ValuesFile ==
  Mapping(<<Entry(<<Segment("image")>>,
                  Mapping(<<Entry(<<Segment("name")>>, Scalar(Value(None, "web", None, None), TRUE)),
                            Entry(<<Segment("tag")>>, Scalar(Value(None, None, 1, None), TRUE))>>)),
            Entry(<<Segment("images")>>,
                  List(<<Mapping(<<Entry(<<Segment("ref")>>, Scalar(Quay("web", 1, None), FALSE))>>)>>))>>)

Values(doc, second) ==
  [Configuration(<<SemVerImage, second>>, Helm, "Helm", Git("values"),
                 RunningBoth(1)) EXCEPT
     !.file = doc,
     !.pushes["web"] = {Pushed(1, New), Pushed(2, New), Pushed(4, New)}]

\* Two containers of a Kustomize base are replaced by two tags of one image.
Renamed(n, t) == [DigestImage(t) EXCEPT !.kustomizeName = n]
Base(n) == Value(None, n, 1, None)
Kustomized(wbc, names) ==
  [Configuration([i \in DOMAIN names |-> Renamed(names[i], i)], Kustomize, "Kustomize", wbc,
                 [i \in DOMAIN names |-> Base(names[i])]) EXCEPT
     !.file = IF wbc.target = "kustomization" THEN <<>> ELSE None,
     !.pushed["web"] = <<Pushed(1, Old), Pushed(2, Old)>>,
     !.pushes["web"] = {Pushed(1, New), Pushed(2, Newer)}]

Plugged(wbc, spec) ==
  [Configuration(<<IF spec THEN [SemVerImage EXCEPT !.pluginSpec = "spec"]
                   ELSE [SemVerImage EXCEPT !.pluginName = "name", !.pluginTag = "tag"]>>,
                 Plugin, "Plugin", wbc, Running(1)) EXCEPT
     !.pushes["web"] = {Pushed(2, New), Pushed(4, New)}]

\* The second of two sources is a Helm chart; its image runs nowhere yet.
Several ==
  [Configuration(<<[SemVerImage EXCEPT !.forceUpdate = TRUE], Second([SemVerImage EXCEPT !.repo = "gone"])>>,
                 Helm, "Helm", ArgoCD, <<Quay("web", 1, None), Quay("gone", 1, None)>>) EXCEPT
     !.app = [multi |-> TRUE, hydrator |-> FALSE, sources |-> <<EmptySource, Helm>>,
              types |-> <<"Directory", "Helm">>, edits |-> {}],
     !.summary = <<>>,
     !.pushed = [r \in {"web", "gone"} |-> <<>>],
     !.pushes = [r \in {"web", "gone"} |-> {Pushed(1, Old), Pushed(2, New)}]]

\* A hydrated application, whose file is a values file in the dry source.
Hydrated ==
  [Values(ValuesFile, [DigestImage(1) EXCEPT !.helmSpec = "spec"]) EXCEPT !.app.hydrator = TRUE]

\* Images that cannot be updated: no valid range, no tag to track, no such match, no
\* plugin, a secret that may not be used.
Misconfigured ==
  [Configuration(<<[SemVerImage EXCEPT !.range = [valid |-> FALSE, tags |-> {}]],
                   Second([Configured("digest") EXCEPT !.repo = "web"]),
                   [Configured("alphabetical") EXCEPT !.match = "glob", !.helmSpec = "spec"],
                   [SemVerImage EXCEPT !.pluginSpec = "spec"],
                   [SemVerImage EXCEPT !.foreignSecret = TRUE]>>,
                 Helm, "Helm", ArgoCD, [i \in 1..5 |-> Quay("web", 1, None)]) EXCEPT
     !.pushes["web"] = {Pushed(2, New)}]

\* The manager's cache may be n versions behind.
Behind(config, n) == [config EXCEPT !.lag = n]

MCConfigs ==
  {Shared, Pair(ArgoCD), Builds("unsorted", ArgoCD), Builds("latest-first", Git("default")),
   Behind(Aliases(ArgoCD), 1), Aliases(Git("default")), Signed(DigestImage(1)), Signed(SemVerImage), SignedBuild,
   Values(ValuesFile, [DigestImage(1) EXCEPT !.helmSpec = "spec"]),
   [Values(None, Second(DigestImage(1))) EXCEPT !.wbc.target = "file"],
   Values(Garbled, Second(DigestImage(1))), [Plugged(Git("default"), TRUE) EXCEPT !.file = Garbled],
   Behind(Kustomized(ArgoCD, <<"a", "b">>), 1), Behind(Kustomized(Git("default"), <<"a">>), 1),
   Kustomized(Git("kustomization"), <<"a", "b">>),
   Pair(Git("default")), [Pair(ArgoCD) EXCEPT !.dryRun = TRUE], Hydrated, Misconfigured,
   Behind(Plugged(ArgoCD, TRUE), 2), Plugged(Git("default"), FALSE), Several}

\* The application itself has the parameters of its images too.
MCPreset ==
  {[Pair(Git("default")) EXCEPT
      !.app.sources[1].helm = [p \in MCParams |->
         CASE p = "image.name" -> Quay("web", None, None)
           [] p = "name" -> Quay("db", None, None)
           [] p \in {"image.tag", "tag"} -> Value(None, None, 1, None)
           [] OTHER -> None]]}

=============================================================================
