---------------------------- MODULE TagSelection ----------------------------
(***************************************************************************)
(* Which tag of a repository an image should run: the metadata of a tag    *)
(* under the platform options, the tag list GetTags makes of a repository, *)
(* the orders of the update strategies and the newest version.             *)
(*                                                                         *)
(* A tag name is a natural number, ordered as the strings are.  A manifest *)
(* is content addressed, so it is its own digest.  A repository is the     *)
(* sequence of the pushes made to it, each a tag and a manifest.           *)
(***************************************************************************)
EXTENDS Naturals, Sequences, FiniteSets, SequencesExt

CONSTANTS
  Tags,        \* tag names
  SemVer,      \* SemVer[t]: <<major, minor, 1 if a release else 0>>, or None
  None

\* A platform is <<os, arch, variant>>, with variant None when there is none.
\* kind is "image", "index" (with refs) or "other"; created is None when the
\* image's time stamp cannot be parsed.
Image(platform, created) == [kind |-> "image", platform |-> platform, created |-> created, refs |-> <<>>]
Index(refs) == [kind |-> "index", platform |-> None, created |-> None, refs |-> refs]

\* A manifest list or index names the platform of each image in a descriptor.
Ref(image) == [platform |-> image.platform, manifest |-> image]

\* manifestDigest comes with the metadata.
ImageTag(name, date, digest, manifestDigest) ==
  [name |-> name, date |-> date, digest |-> digest, manifestDigest |-> manifestDigest]

-----------------------------------------------------------------------------
(* Platforms.  opts is the set of platforms asked for, empty for any.       *)

WantsPlatform(opts, p) ==
  \/ opts = {}
  \/ p \in opts
  \/ p[3] # None /\ <<p[1], p[2], None>> \in opts

\* An identifier that cannot be parsed, of one segment, asks for a platform
\* no image has.
ParsePlatform(id) ==
  IF Len(id) < 2 THEN <<id[1], None, None>>
  ELSE <<id[1], id[2], IF Len(id) = 3 THEN id[3] ELSE None>>

GetPlatformOptions(ids, ignorePlatforms, runtime) ==
  IF ids # {} THEN {ParsePlatform(id) : id \in ids}
  ELSE IF ignorePlatforms THEN {} ELSE {runtime}

-----------------------------------------------------------------------------
(* Metadata.  down holds the manifests that cannot be fetched just now.     *)

Info(status, created, digest) == [status |-> status, created |-> created, digest |-> digest]
NoInfo == Info("nil", 0, None)
FetchError == Info("error", 0, None)

ImageInfo(m, opts) ==
  IF ~WantsPlatform(opts, m.platform) THEN NoInfo
  ELSE IF m.created = None THEN FetchError
  ELSE Info("ok", m.created, m)

\* One reference that fails fails the tag; otherwise the newest one counts.
TagInfoFromReferences(m, opts, wantsMetadata, down) ==
  LET ml == {r \in ToSet(m.refs) : WantsPlatform(opts, r.platform)}
      infos == {ImageInfo(r.manifest, opts) : r \in ml}
  IN  IF ml = {} THEN NoInfo
      ELSE IF ~wantsMetadata THEN Info("ok", 0, m)
      ELSE IF (\E r \in ml : r.manifest \in down) \/ FetchError \in infos THEN FetchError
      ELSE Info("ok", Max({0} \cup {i.created : i \in infos}), m)

TagMetadata(m, opts, wantsMetadata, down) ==
  CASE m.kind = "image" -> ImageInfo(m, opts)
    [] m.kind = "index" /\ m.refs # <<>> -> TagInfoFromReferences(m, opts, wantsMetadata, down)
    [] OTHER -> FetchError

-----------------------------------------------------------------------------
(* The tag list.  img is a configured image: its strategy, constraint (a    *)
(* tag for digest, else the tags whose version satisfies it), allowed and   *)
(* ignored tags and platforms.                                              *)

\* match is "", "any", "regexp" or anything else ParseMatch rejects.
MatchFunc(img, t) ==
  CASE img.match \in {"", "any"} -> TRUE
    [] img.match = "regexp" -> t \in img.allowed
    [] OTHER -> FALSE

IsTagIgnored(img, t) == t \in img.ignored

WantsOnlyConstraintTag(img) == img.strategy = "digest"

NeedsMetadata(img) == img.strategy = "newest-build"

IsCacheable(img) == img.strategy # "digest"

\* What the registry lists: each tag once, the one pushed last at the end.
Listed(pushed) ==
  LET last == SelectSeq([k \in DOMAIN pushed |-> k],
                        LAMBDA k : \A j \in DOMAIN pushed : j > k => pushed[j][1] # pushed[k][1])
  IN  [i \in DOMAIN last |-> pushed[last[i]][1]]

TagsOf(pushed) == {p[1] : p \in ToSet(pushed)}

ManifestForTag(pushed, t) ==
  LET k == Max({i \in DOMAIN pushed : pushed[i][1] = t}) IN pushed[k][2]

Wanted(img, t) ==
  /\ MatchFunc(img, t)
  /\ ~IsTagIgnored(img, t)
  /\ WantsOnlyConstraintTag(img) => t = img.tag

\* Without metadata the dates are positions, when the registry sorts its list.
DummyTags(img, pushed, sort) ==
  LET tags == SelectSeq(IF sort = "latest-first" THEN Reverse(Listed(pushed)) ELSE Listed(pushed),
                        LAMBDA t : Wanted(img, t))
      date(i) == CASE sort = "latest-first" -> Len(tags) - i + 1
                   [] sort = "latest-last" -> i - 1
                   [] OTHER -> 0
  IN  {ImageTag(tags[i], date(i), None, None) : i \in DOMAIN tags}

Timesorted(sort) == sort \in {"latest-first", "latest-last"}

FetchesMetadata(img, sort) == img.strategy \in {"newest-build", "digest"} /\ ~Timesorted(sort)

\* The tags whose metadata the cache does not answer, with what was fetched.
FetchedTags(img, pushed, opts, down, cache) ==
  LET fetched == {t \in TagsOf(pushed) :
                    Wanted(img, t) /\ ~(IsCacheable(img) /\ cache[t] # None)}
      info(t) == TagMetadata(ManifestForTag(pushed, t), opts, NeedsMetadata(img), down)
      made(t) == ImageTag(t, info(t).created, IF img.strategy = "digest" THEN info(t).digest ELSE None,
                          info(t).digest)
  IN  {made(t) : t \in {t \in fetched : ManifestForTag(pushed, t) \notin down /\ info(t).status = "ok"}}

CachedTags(img, pushed, cache) ==
  {cache[t] : t \in {t \in TagsOf(pushed) : Wanted(img, t) /\ IsCacheable(img) /\ cache[t] # None}}

-----------------------------------------------------------------------------
(* The newest version.                                                      *)

lessByName(a, b) == a.name < b.name

lessByDate(a, b) == IF a.date = b.date THEN a.name < b.name ELSE a.date < b.date

compareVersions(v, w) ==
  \/ v[1] < w[1]
  \/ v[1] = w[1] /\ v[2] < w[2]
  \/ v[1] = w[1] /\ v[2] = w[2] /\ v[3] < w[3]

lessBySemVer(a, b) ==
  IF SemVer[a.name] = SemVer[b.name] THEN a.name < b.name
  ELSE compareVersions(SemVer[a.name], SemVer[b.name])

SortAlphabetically(tagList) == SetToSortSeq(tagList, lessByName)

SortByDate(tagList) == SetToSortSeq(tagList, lessByDate)

\* Tags that are no version are dropped; the others are made anew, without
\* the digest of their manifest.
SortBySemVer(tagList) ==
  SetToSortSeq({[t EXCEPT !.manifestDigest = None] : t \in {t \in tagList : SemVer[t.name] # None}},
               lessBySemVer)

Newest(status, tag) == [status |-> status, tag |-> tag]

\* Without a constraint the wildcard leaves pre-releases out.
Check(img, t) == IF img.range = None THEN SemVer[t][3] = 1 ELSE t \in img.range.tags

GetNewestVersionFromTags(img, tagList) ==
  LET availableTags == CASE img.strategy = "semver" -> SortBySemVer(tagList)
                         [] img.strategy = "newest-build" -> SortByDate(tagList)
                         [] OTHER -> SortAlphabetically(tagList)
      considerTags == SelectSeq(availableTags,
                        LAMBDA t : CASE img.strategy = "semver" -> Check(img, t.name)
                                     [] img.strategy = "digest" -> t.name = img.tag
                                     [] OTHER -> TRUE)
  IN  IF availableTags = <<>> THEN Newest("nil", None)
      ELSE IF img.strategy = "semver" /\ img.range # None /\ ~img.range.valid THEN Newest("error", None)
      ELSE IF considerTags = <<>> THEN Newest("nil", None)
      ELSE Newest("ok", Last(considerTags))

=============================================================================
