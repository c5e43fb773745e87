--------------------------- MODULE AppFilterProofs ---------------------------
(***************************************************************************)
(* Proofs about AppFilter, for every resource and every list of            *)
(* applications: each application gets its most specific rule and no image *)
(* of it is forgotten, the innermost setting wins, an image that some      *)
(* level wants verified is never found without a key of the right secret,  *)
(* and a pull request has one provider.                                    *)
(*                                                                         *)
(* What only depends on the configuration c, on the keys kept so far and   *)
(* on the event is an operator of these, so that a step that leaves them   *)
(* alone leaves it alone.                                                  *)
(***************************************************************************)
EXTENDS AppFilter, FiniteSetTheorems, TLAPS

-----------------------------------------------------------------------------
(* The inductive invariant.                                                 *)

\* What is left of a list after its first n elements.
Rest(list, n) == [i \in 1 .. Len(list) - n |-> list[n + i]]

\* What rule r says for an application, the write-back configuration that
\* follows, and whether the rule can be used for it.
Effective(c, app, r) == EffectiveRule(app, c.cr.refs[r], c.cr)
Config(c, app, r) == newWBCFromSettings(app, Effective(c, app, r).writeBack)
Fits(c, app, r) ==
  /\ Matches(app, c.cr.refs[r])
  /\ Effective(c, app, r).images # None /\ Effective(c, app, r).common # None /\ Config(c, app, r) # None

\* Rule r is the first, in the order of the scores, that can be used.
FirstFit(c, app, r) ==
  /\ r \in DOMAIN c.cr.refs /\ Fits(c, app, r)
  /\ \A j \in DOMAIN c.cr.refs \ {r} : Fits(c, app, j) => Before(c.cr.refs, r, j)

\* The merged verification of an image, the keys that it allows, and whether
\* no change of a secret can leave the image out.
Merged(c, app, r, im) == mergeImagesVerification(Effective(c, app, r).verification, im.verification)
Needed(v) == v.present /\ v.enabled # FALSE
GoodKey(v, kept, key) ==
  IF Needed(v) THEN v.cosignKey # None /\ key \in kept[v.cosignKey] \ {None} ELSE key = ""
Sure(v, kept) == Needed(v) => v.cosignKey # None /\ None \notin kept[v.cosignKey]

\* img is what parseImageList makes of the image im of rule r.
FoundAs(c, kept, app, r, im, img) ==
  /\ img.alias = im.alias
  /\ img.settings = newImageFromCommonUpdateSettings(mergeCommonUpdateSettings(Effective(c, app, r).common, im.common))
  /\ GoodKey(Merged(c, app, r, im), kept, img.key)

AllFound(c, kept, app, r, list) ==
  \A i \in DOMAIN list : \E k \in DOMAIN Effective(c, app, r).images :
    FoundAs(c, kept, app, r, Effective(c, app, r).images[k], list[i])

\* An image that must be found.
MustHave(c, kept, e, app, r, im) ==
  /\ newImageFromManifestTargetSettings(im.target) # None /\ Sure(Merged(c, app, r, im), kept)
  /\ MatchesEvent(NewFromIdentifier(im.ref), e)

\* The first h images of the rule that must be found are.
Covers(c, kept, e, app, r, h, list) ==
  \A k \in 1..h : MustHave(c, kept, e, app, r, Effective(c, app, r).images[k]) =>
    \E i \in DOMAIN list : list[i].alias = Effective(c, app, r).images[k].alias

EntryOf(c, kept, app, entry) ==
  /\ FirstFit(c, app, entry.ref) /\ entry.wbc = Config(c, app, entry.ref)
  /\ entry.images # <<>> /\ AllFound(c, kept, app, entry.ref, entry.images)

\* The pass is through with an application.
Settled(c, kept, e, app, found) ==
  \/ app.name \notin DOMAIN found /\ \A r \in DOMAIN c.cr.refs : ~Fits(c, app, r)
  \/ \E r \in DOMAIN c.cr.refs :
       /\ FirstFit(c, app, r)
       /\ app.name \in DOMAIN found => found[app.name].ref = r
       /\ IsValidApplicationType(app, Config(c, app, r)) =>
            \A k \in DOMAIN Effective(c, app, r).images : MustHave(c, kept, e, app, r, Effective(c, app, r).images[k]) =>
              /\ app.name \in DOMAIN found
              /\ \E i \in DOMAIN found[app.name].images :
                   found[app.name].images[i].alias = Effective(c, app, r).images[k].alias

\* The first m applications of the list are settled, and nothing is found
\* for the others.
Through(c, kept, e, found, m) ==
  /\ \A i \in 1..m : Settled(c, kept, e, c.apps[i], found)
  /\ \A name \in DOMAIN found : \E i \in 1..m : c.apps[i].name = name /\ EntryOf(c, kept, c.apps[i], found[name])

\* The pass is at rule sorted[k + 1] for application m + 1.
Place(m, k) ==
  /\ todo = Rest(conf.apps, m) /\ refs = Rest(sorted, k)
  /\ Through(conf, held, event, result, m)
  /\ m < Len(conf.apps) => \A j \in 1..k : ~Fits(conf, conf.apps[m + 1], sorted[j])
  /\ IF pc = "rule" THEN rule = None /\ images = <<>>
     ELSE /\ m < Len(conf.apps) /\ k < Len(conf.cr.refs)
          /\ Matches(conf.apps[m + 1], conf.cr.refs[sorted[k + 1]])

\* The images of a rule that is used are handled one by one.
Parsing(app, r) ==
  /\ Fits(conf, app, r) /\ IsValidApplicationType(app, Config(conf, app, r))
  /\ rule = [images |-> rule.images, common |-> Effective(conf, app, r).common,
             verification |-> Effective(conf, app, r).verification, writeBack |-> Config(conf, app, r)]
  /\ IsList(images) /\ AllFound(conf, held, app, r, images)
  /\ \E h \in 0 .. Len(Effective(conf, app, r).images) :
       rule.images = Rest(Effective(conf, app, r).images, h) /\ Covers(conf, held, event, app, r, h, images)

PassInv ==
  /\ pc \in {"receive", "list", "failed", "rejected"} => rule = None /\ images = <<>> /\ result = <<>>
  /\ pc \in {"rule", "writeback", "image"} =>
       /\ sorted = sortApplicationRefs(conf.cr.refs)
       /\ \E m \in 0 .. Len(conf.apps), k \in 0 .. Len(conf.cr.refs) :
            /\ Place(m, k)
            /\ pc = "writeback" => rule = Effective(conf, conf.apps[m + 1], sorted[k + 1]) /\ images = <<>>
            /\ pc = "image" => Parsing(conf.apps[m + 1], sorted[k + 1])
  /\ pc = "done" => rule = None /\ Through(conf, held, event, result, Len(conf.apps))

\* What the variables range over.
Basics ==
  /\ conf \in Configurations /\ changes \in 0 .. conf.maxChanges
  /\ secrets \in [Secrets -> KeyValues \cup {None}]
  /\ held \in [Secrets -> SUBSET (KeyValues \cup {None})] /\ \A s \in Secrets : secrets[s] \in held[s]
  /\ pc \in {"receive", "list", "rule", "writeback", "image", "done", "failed", "rejected"}

-----------------------------------------------------------------------------
(* Lists.                                                                   *)

\* What is left of a list shrinks from its head to nothing.
LEMMA RestOfList ==
  ASSUME NEW list, IsList(list), NEW n \in 0 .. Len(list)
  PROVE  /\ Rest(list, 0) = list
         /\ Rest(list, n) = <<>> <=> n = Len(list)
         /\ n < Len(list) => Head(Rest(list, n)) = list[n + 1] /\ Tail(Rest(list, n)) = Rest(list, n + 1)
<1> DEFINE S == Range(list)
           R == Rest(list, n)
<1>1. list \in Seq(S)
  BY DEF IsList
<1> HIDE DEF S
<1>2. R \in Seq(S) /\ Len(R) = Len(list) - n
  BY <1>1 DEF Rest
<1>3. Rest(list, 0) = list
  BY <1>1 DEF Rest
<1>4. R = <<>> <=> n = Len(list)
  BY <1>1, <1>2
<1>5. ASSUME n < Len(list) PROVE Head(R) = list[n + 1] /\ Tail(R) = Rest(list, n + 1)
  <2>1. Head(R) = list[n + 1]
    BY <1>1, <1>2, <1>5 DEF Rest
  <2>2. Tail(R) \in Seq(S) /\ Len(Tail(R)) = Len(list) - (n + 1) /\ \A i \in 1 .. Len(list) - (n + 1) : Tail(R)[i] = R[i + 1]
    BY <1>1, <1>2, <1>5
  <2>3. \A i \in 1 .. Len(list) - (n + 1) : R[i + 1] = list[n + 1 + i]
    BY <1>1, <1>5 DEF Rest
  <2>4. Tail(R) = Rest(list, n + 1)
    BY SMTT(30), <1>1, <1>5, <2>2, <2>3 DEF Rest
  <2> QED BY <2>1, <2>4
<1> QED BY <1>3, <1>4, <1>5

\* A list with one more element.
LEMMA LongerList ==
  ASSUME NEW list, IsList(list), NEW x
  PROVE  /\ IsList(Append(list, x)) /\ Append(list, x) # <<>>
         /\ DOMAIN Append(list, x) = DOMAIN list \cup {Len(list) + 1}
         /\ Append(list, x)[Len(list) + 1] = x
         /\ \A i \in DOMAIN list : Append(list, x)[i] = list[i]
<1> DEFINE S == Range(list)
           A == Append(list, x)
<1>1. list \in Seq(S)
  BY DEF IsList
<1>2. A \in Seq(S \cup {x}) /\ Len(A) = Len(list) + 1 /\ A[Len(list) + 1] = x /\ \A i \in 1 .. Len(list) : A[i] = list[i]
  <2> HIDE DEF S
  <2>1. list \in Seq(S \cup {x})
    BY <1>1
  <2> QED BY <2>1
<1>3. DOMAIN list = 1 .. Len(list) /\ DOMAIN A = 1 .. Len(list) + 1 /\ Len(list) \in Nat
  <2> HIDE DEF S
  <2> QED BY <1>1, <1>2
<1>4. DOMAIN A = DOMAIN list \cup {Len(list) + 1}
  BY <1>3
<1>5. A \in [1 .. Len(A) -> Range(A)]
  <2> HIDE DEF A
  <2>1. A = [i \in 1 .. Len(A) |-> A[i]]
    <3> HIDE DEF S
    <3> QED BY <1>2
  <2>2. \A i \in 1 .. Len(A) : A[i] \in Range(A)
    BY <1>2, <1>3 DEF Range
  <2> QED BY <2>1, <2>2
<1>6. IsList(A)
  <2> HIDE DEF A
  <2> QED BY <1>2, <1>3, <1>5 DEF IsList
<1> QED
  <2> HIDE DEF S
  <2> QED BY <1>2, <1>3, <1>4, <1>6

\* A list is empty or has a head.
LEMMA ListDomain ==
  ASSUME NEW list, IsList(list)
  PROVE  Len(list) \in Nat /\ DOMAIN list = 1 .. Len(list)
<1> DEFINE S == Range(list)
<1>1. list \in Seq(S)
  BY DEF IsList
<1> HIDE DEF S
<1> QED BY <1>1

-----------------------------------------------------------------------------
(* The order of the rules.                                                  *)

\* Scores are numbers.
LEMMA SpecificityType ==
  ASSUME NEW ref, WellFormedRule(ref)
  PROVE  calculateSpecificity(ref) \in Int
<1> DEFINE base == (IF ref.pattern.exact THEN 1000000 ELSE 0) + ref.pattern.literals
           bonus == IF ref.selector = None THEN 0
                    ELSE 10000 + 100 * (Cardinality(ref.selector.labels) + Cardinality(ref.selector.expressions))
<1>1. base \in Int
  BY DEF WellFormedRule
<1>2. bonus \in Int
  <2>1. CASE ref.selector = None
    BY <2>1
  <2>2. CASE ref.selector # None
    <3>1. Cardinality(ref.selector.labels) \in Nat /\ Cardinality(ref.selector.expressions) \in Nat
      BY <2>2, FS_CardinalityType DEF WellFormedRule
    <3> QED BY <2>2, <3>1
  <2> QED BY <2>1, <2>2
<1>3. calculateSpecificity(ref) = base + bonus
  BY DEF calculateSpecificity
<1> HIDE DEF base, bonus
<1> QED BY <1>1, <1>2, <1>3

\* Before is a strict total order of the rules.
LEMMA TotalOrder ==
  ASSUME NEW rules, IsList(rules), \A i \in DOMAIN rules : WellFormedRule(rules[i])
  PROVE  /\ \A i \in DOMAIN rules : ~Before(rules, i, i)
         /\ \A i, j \in DOMAIN rules : i # j => (Before(rules, i, j) <=> ~Before(rules, j, i))
         /\ \A i, j, k \in DOMAIN rules : Before(rules, i, j) /\ Before(rules, j, k) => Before(rules, i, k)
<1> DEFINE score(i) == calculateSpecificity(rules[i])
<1>1. \A i \in DOMAIN rules : score(i) \in Int /\ i \in Int
  BY SpecificityType, ListDomain
<1>2. \A i, j : Before(rules, i, j) <=> score(i) > score(j) \/ (score(i) = score(j) /\ i < j)
  BY DEF Before
<1> HIDE DEF score
<1> QED BY <1>1, <1>2

\* An injective function of a finite set into itself reaches every element.
LEMMA ReachesAll ==
  ASSUME NEW D, IsFiniteSet(D), NEW f \in [D -> D], \A x, y \in D : f[x] = f[y] => x = y, NEW z \in D
  PROVE  \E x \in D : f[x] = z
<1>1. f \in Injection(D, D)
  BY DEF Injection, IsInjective
<1>2. f \in Surjection(D, D)
  BY <1>1, FS_Injection
<1> QED BY <1>2 DEF Surjection

\* A list of rules can be put in order: the place of a rule is one more than
\* the number of the rules before it.
LEMMA SortExists ==
  ASSUME NEW rules, IsList(rules), \A i \in DOMAIN rules : WellFormedRule(rules[i])
  PROVE  \E s \in [DOMAIN rules -> DOMAIN rules] :
           \A k, l \in DOMAIN rules : k < l => Before(rules, s[k], s[l])
<1> DEFINE D == DOMAIN rules
           n == Len(rules)
           above(i) == {j \in D : Before(rules, j, i)}
           rank == [i \in D |-> Cardinality(above(i)) + 1]
<1>1. n \in Nat /\ D = 1..n
  BY ListDomain
<1>2. IsFiniteSet(D) /\ Cardinality(D) = n
  BY SMTT(30), <1>1, FS_Interval
<1>3. \A i \in D : IsFiniteSet(above(i)) /\ Cardinality(above(i)) \in Nat /\ Cardinality(above(i)) < n
  <2> SUFFICES ASSUME NEW i \in D PROVE IsFiniteSet(above(i)) /\ Cardinality(above(i)) \in Nat /\ Cardinality(above(i)) < n
    OBVIOUS
  <2>1. above(i) \in SUBSET D /\ i \notin above(i)
    BY TotalOrder
  <2> HIDE DEF above, D, n
  <2>2. IsFiniteSet(above(i)) /\ Cardinality(above(i)) <= n /\ (n = Cardinality(above(i)) => D = above(i))
    BY <1>2, <2>1, FS_Subset
  <2>3. Cardinality(above(i)) \in Nat
    BY <2>2, FS_CardinalityType
  <2> QED BY <1>1, <2>1, <2>2, <2>3
<1>4. \A i, j \in D : Before(rules, i, j) => rank[i] < rank[j]
  <2> SUFFICES ASSUME NEW i \in D, NEW j \in D, Before(rules, i, j) PROVE rank[i] < rank[j]
    OBVIOUS
  <2>1. above(i) \in SUBSET above(j) /\ i \in above(j) /\ i \notin above(i)
    BY TotalOrder
  <2>2. rank[i] = Cardinality(above(i)) + 1 /\ rank[j] = Cardinality(above(j)) + 1
    OBVIOUS
  <2> HIDE DEF above, rank, D, n
  <2>3. Cardinality(above(i)) <= Cardinality(above(j)) /\ (Cardinality(above(j)) = Cardinality(above(i)) => above(j) = above(i))
    BY <1>3, <2>1, FS_Subset
  <2> QED BY <1>3, <2>1, <2>2, <2>3
<1>5. rank \in [D -> D]
  <2> HIDE DEF above, D, n
  <2>1. \A i \in D : Cardinality(above(i)) + 1 \in D
    BY <1>1, <1>3
  <2> QED BY <2>1
<1>6. \A i, j \in D : i # j => Before(rules, i, j) \/ Before(rules, j, i)
  BY TotalOrder
<1> HIDE DEF rank, D, n
<1>7. \A i, j \in D : rank[i] = rank[j] => i = j
  BY SMTT(30), <1>1, <1>4, <1>5, <1>6
<1> DEFINE s == [k \in D |-> CHOOSE i \in D : rank[i] = k]
<1>8. \A k \in D : s[k] \in D /\ rank[s[k]] = k
  BY <1>2, <1>5, <1>7, ReachesAll
<1>9. s \in [D -> D]
  BY <1>8
<1> HIDE DEF s
<1>10. \A k, l \in D : k < l => Before(rules, s[k], s[l])
  BY <1>1, <1>4, <1>6, <1>8
<1> QED BY <1>9, <1>10 DEF D

\* sortApplicationRefs puts every rule in its place.
LEMMA SortedRules ==
  ASSUME NEW rules, IsList(rules), \A i \in DOMAIN rules : WellFormedRule(rules[i])
  PROVE  /\ sortApplicationRefs(rules) \in [DOMAIN rules -> DOMAIN rules]
         /\ \A k, l \in DOMAIN rules : k < l => Before(rules, sortApplicationRefs(rules)[k], sortApplicationRefs(rules)[l])
         /\ \A i \in DOMAIN rules : \E k \in DOMAIN rules : sortApplicationRefs(rules)[k] = i
<1> DEFINE D == DOMAIN rules
           s == sortApplicationRefs(rules)
<1>1. s \in [D -> D] /\ \A k, l \in D : k < l => Before(rules, s[k], s[l])
  BY SortExists DEF sortApplicationRefs
<1>2. IsFiniteSet(D) /\ \A k \in D : k \in Int
  BY ListDomain, FS_Interval
<1>3. \A i \in D : ~Before(rules, i, i)
  BY TotalOrder
<1> HIDE DEF D, s
<1>4. \A k, l \in D : s[k] = s[l] => k = l
  BY <1>1, <1>2, <1>3
<1>5. \A i \in D : \E k \in D : s[k] = i
  BY <1>1, <1>2, <1>4, ReachesAll
<1> QED BY <1>1, <1>5 DEF D, s

-----------------------------------------------------------------------------
(* What a rule says.                                                        *)

\* The images of a rule that can be used are a list, whether they are the
\* rule's own or come from the annotations of the application; two of them
\* with the same alias have the same settings, target and verification.
LEMMA ImagesOfRule ==
  ASSUME NEW c \in Configurations, NEW a \in DOMAIN c.apps, NEW r \in DOMAIN c.cr.refs,
         Effective(c, c.apps[a], r).images # None
  PROVE  LET list == Effective(c, c.apps[a], r).images
         IN  /\ IsList(list)
             /\ \A i \in DOMAIN list : list[i].verification \in Verification
             /\ \A i, j \in DOMAIN list : list[i].alias = list[j].alias =>
                  list[i].common = list[j].common /\ list[i].verification = list[j].verification
<1> DEFINE app == c.apps[a]
           ref == c.cr.refs[r]
           list == Effective(c, app, r).images
<1>1. WellFormed(c) /\ WellFormedRule(ref)
  BY ConfigurationsAssumption DEF WellFormed
<1>2. CASE ~ref.useAnnotations
  <2>1. list = ref.images
    BY <1>2 DEF Effective, EffectiveRule
  <2>2. IsList(ref.images) /\ Keyed(ref.images, "alias") /\ \A i \in DOMAIN ref.images : ref.images[i].verification \in Verification
    BY Zenon, <1>1 DEF WellFormedRule
  <2>3. \A i, j \in DOMAIN ref.images : ref.images[i].alias = ref.images[j].alias => i = j
    BY Zenon, <2>2 DEF Keyed
  <2> HIDE DEF list, ref
  <2> QED BY Zenon, <2>1, <2>2, <2>3 DEF list
<1>3. CASE ref.useAnnotations
  <2> DEFINE raw == app.annotations.imageList
             entries == IF raw = None THEN {} ELSE {i \in DOMAIN raw : raw[i] # Blank}
             size == Cardinality(entries)
             entry(k) == raw[Nth(entries, k)]
  <2>1. list = getImagesFromAnnotations(app)
    BY <1>3 DEF Effective, EffectiveRule
  <2>2. list = [k \in 1..size |-> AnnotatedImage(app, entry(k))]
    BY Zenon, <2>1 DEF getImagesFromAnnotations
  <2>3. size \in Nat
    <3>1. CASE raw = None
      BY <3>1, FS_EmptySet
    <3>2. CASE raw # None
      <4>1. IsList(raw)
        BY <1>1, <3>2 DEF WellFormed
      <4>2. entries \in SUBSET DOMAIN raw
        BY <3>2
      <4> HIDE DEF entries, raw
      <4>3. Len(raw) \in Nat /\ DOMAIN raw = 1 .. Len(raw)
        BY Zenon, <4>1, ListDomain
      <4>4. IsFiniteSet(DOMAIN raw)
        BY <4>3, FS_Interval
      <4> QED BY SMTT(30), <4>2, <4>4, FS_Subset, FS_CardinalityType
    <3> QED BY Zenon, <3>1, <3>2
  <2> HIDE DEF size, entry, list, app
  <2>4. IsList(list) /\ DOMAIN list = 1..size
    <3>1. DOMAIN list = 1..size /\ list = [k \in 1..size |-> list[k]]
      BY <2>2
    <3>2. \A k \in 1..size : list[k] \in Range(list)
      BY <3>1 DEF Range
    <3>3. list \in [1..size -> Range(list)]
      BY <3>1, <3>2
    <3> QED BY <2>3, <3>1, <3>3 DEF IsList
  <2>5. \A k \in 1..size : /\ list[k].alias = entry(k).alias /\ list[k].verification = NoVerification
                           /\ list[k].common = IF entry(k).alias # ""
                                THEN getCommonUpdateSettingsFromAnnotations(app.annotations.ofAlias[entry(k).alias], TRUE)
                                ELSE NoSettings
    BY Zenon, <2>2 DEF AnnotatedImage
  <2>6. NoVerification \in Verification
    BY DEF NoVerification, Verification
  <2>7. \A i, j \in 1..size : list[i].alias = list[j].alias => list[i].common = list[j].common
    <3> SUFFICES ASSUME NEW i \in 1..size, NEW j \in 1..size, list[i].alias = list[j].alias
                 PROVE  list[i].common = list[j].common
      OBVIOUS
    <3>1. entry(i).alias = entry(j).alias
      BY Zenon, <2>5
    <3> QED BY Zenon, <2>5, <3>1
  <2> QED BY Zenon, <2>4, <2>5, <2>6, <2>7 DEF list, app
<1> QED BY Zenon, <1>1, <1>2, <1>3 DEF WellFormedRule

\* The verification block that is merged for an image.
LEMMA MergedType ==
  ASSUME NEW c \in Configurations, NEW app, NEW r \in DOMAIN c.cr.refs, NEW im, im.verification \in Verification
  PROVE  Effective(c, app, r).verification \in Verification /\ Merged(c, app, r, im) \in Verification
<1>1. c.cr.verification \in Verification /\ c.cr.refs[r].verification \in Verification
  BY Zenon, ConfigurationsAssumption DEF WellFormed, WellFormedRule
<1>2. \A v, w \in Verification : mergeImagesVerification(v, w) \in Verification
  BY DEF mergeImagesVerification, Verification, Else
<1>3. Effective(c, app, r).verification \in {c.cr.refs[r].verification, mergeImagesVerification(c.cr.verification, c.cr.refs[r].verification)}
  BY DEF Effective, EffectiveRule
<1> QED BY Zenon, <1>1, <1>2, <1>3 DEF Merged

\* Keys that are read from secrets while the pass runs.
ReadFrom(keys, kept) ==
  /\ keys \in [Secrets -> KeyValues \cup {None}] /\ kept \in [Secrets -> SUBSET (KeyValues \cup {None})]
  /\ \A s \in Secrets : keys[s] \in kept[s]

\* The key of an image is one the merged block allows, and an image that has
\* none is one that a secret could leave out.
LEMMA KeyIsGood ==
  ASSUME NEW v \in Verification, NEW keys, NEW kept, ReadFrom(keys, kept)
  PROVE  LET key == newImageFromImagesVerification(v, keys)
         IN  IF key = None THEN ~Sure(v, kept) ELSE GoodKey(v, kept, key)
<1> DEFINE key == newImageFromImagesVerification(v, keys)
<1>1. v.present \in BOOLEAN /\ v.cosignKey \in Secrets \cup {None}
  BY DEF Verification
<1>2. CASE ~Needed(v)
  <2>1. key = ""
    BY Zenon, <1>2 DEF newImageFromImagesVerification, Needed
  <2> HIDE DEF key
  <2>2. key # None /\ GoodKey(v, kept, key)
    BY Zenon, <1>2, <2>1, NoneAssumption DEF GoodKey
  <2> QED BY <2>2 DEF key
<1>3. CASE Needed(v) /\ v.cosignKey # None
  <2>1. key = keys[v.cosignKey]
    BY Zenon, <1>3 DEF newImageFromImagesVerification, Needed, GetSecretField
  <2>2. key \in kept[v.cosignKey]
    BY <1>1, <1>3, <2>1 DEF ReadFrom
  <2> HIDE DEF key
  <2>3. IF key = None THEN ~Sure(v, kept) ELSE GoodKey(v, kept, key)
    BY <1>3, <2>2 DEF GoodKey, Sure
  <2> QED BY <2>3 DEF key
<1>4. CASE Needed(v) /\ v.cosignKey = None
  <2>1. key = None
    BY Zenon, <1>1, <1>4 DEF newImageFromImagesVerification, Needed
  <2> HIDE DEF key
  <2>2. ~Sure(v, kept)
    BY <1>4 DEF Sure
  <2> QED BY <2>1, <2>2 DEF key
<1> QED BY <1>2, <1>3, <1>4

-----------------------------------------------------------------------------
(* More keys are known as the pass goes on.                                 *)

\* What the secrets held is never forgotten.
Grows(kept, later) == \A s \in Secrets : kept[s] \subseteq later[s]

LEMMA LaterKeys ==
  ASSUME NEW v \in Verification, NEW kept, NEW later, Grows(kept, later)
  PROVE  /\ \A key : GoodKey(v, kept, key) => GoodKey(v, later, key)
         /\ Sure(v, later) => Sure(v, kept)
<1>1. v.cosignKey \in Secrets \cup {None}
  BY DEF Verification
<1> QED BY Zenon, <1>1 DEF Grows, GoodKey, Sure

\* What was found stays found, and what must be found was due before.
LEMMA LaterFound ==
  ASSUME NEW c \in Configurations, NEW a \in DOMAIN c.apps, NEW r \in DOMAIN c.cr.refs, Fits(c, c.apps[a], r),
         NEW kept, NEW later, Grows(kept, later)
  PROVE  /\ \A list : AllFound(c, kept, c.apps[a], r, list) => AllFound(c, later, c.apps[a], r, list)
         /\ \A e : \A k \in DOMAIN Effective(c, c.apps[a], r).images :
              MustHave(c, later, e, c.apps[a], r, Effective(c, c.apps[a], r).images[k])
                => MustHave(c, kept, e, c.apps[a], r, Effective(c, c.apps[a], r).images[k])
<1> DEFINE app == c.apps[a]
           im(k) == Effective(c, app, r).images[k]
           D == DOMAIN Effective(c, app, r).images
<1>1. \A k \in D : im(k).verification \in Verification
  BY Zenon, ImagesOfRule DEF Fits
<1>2. \A k \in D : Merged(c, app, r, im(k)) \in Verification
  BY Zenon, <1>1, MergedType
<1> HIDE DEF app, im, D
<1>3. \A k \in D : \A img : FoundAs(c, kept, app, r, im(k), img) => FoundAs(c, later, app, r, im(k), img)
  BY Zenon, <1>2, LaterKeys DEF FoundAs
<1>4. \A k \in D : \A e : MustHave(c, later, e, app, r, im(k)) => MustHave(c, kept, e, app, r, im(k))
  BY Zenon, <1>2, LaterKeys DEF MustHave
<1>5. \A list : AllFound(c, kept, app, r, list) => AllFound(c, later, app, r, list)
  BY Zenon, <1>3 DEF AllFound, im, D
<1> QED BY Zenon, <1>4, <1>5 DEF app, im, D

\* An application that is settled stays so.
LEMMA LaterSettled ==
  ASSUME NEW c \in Configurations, NEW a \in DOMAIN c.apps, NEW kept, NEW later, Grows(kept, later),
         NEW e, NEW found, Settled(c, kept, e, c.apps[a], found)
  PROVE  Settled(c, later, e, c.apps[a], found)
<1> DEFINE app == c.apps[a]
<1>1. CASE app.name \notin DOMAIN found /\ \A r \in DOMAIN c.cr.refs : ~Fits(c, app, r)
  BY Zenon, <1>1 DEF Settled
<1>2. ASSUME NEW r \in DOMAIN c.cr.refs,
             FirstFit(c, app, r),
             app.name \in DOMAIN found => found[app.name].ref = r,
             IsValidApplicationType(app, Config(c, app, r)) =>
               \A k \in DOMAIN Effective(c, app, r).images : MustHave(c, kept, e, app, r, Effective(c, app, r).images[k]) =>
                 /\ app.name \in DOMAIN found
                 /\ \E i \in DOMAIN found[app.name].images :
                      found[app.name].images[i].alias = Effective(c, app, r).images[k].alias
      PROVE  Settled(c, later, e, app, found)
  <2>1. Fits(c, app, r)
    BY Zenon, <1>2 DEF FirstFit
  <2>2. \A k \in DOMAIN Effective(c, app, r).images :
          MustHave(c, later, e, app, r, Effective(c, app, r).images[k]) => MustHave(c, kept, e, app, r, Effective(c, app, r).images[k])
    BY Zenon, <2>1, LaterFound
  <2> HIDE DEF app
  <2> QED BY Zenon, <1>2, <2>2 DEF Settled
<1> QED BY Zenon, <1>1, <1>2 DEF Settled

LEMMA LaterThrough ==
  ASSUME NEW c \in Configurations, NEW m \in 0 .. Len(c.apps), NEW kept, NEW later, Grows(kept, later),
         NEW e, NEW found, Through(c, kept, e, found, m)
  PROVE  Through(c, later, e, found, m)
<1>1. 1..m \subseteq DOMAIN c.apps
  BY ListDomain, ConfigurationsAssumption DEF WellFormed
<1>2. \A i \in 1..m : Settled(c, later, e, c.apps[i], found)
  BY Zenon, <1>1, LaterSettled DEF Through
<1>3. \A i \in 1..m : \A entry : EntryOf(c, kept, c.apps[i], entry) => EntryOf(c, later, c.apps[i], entry)
  BY Zenon, <1>1, LaterFound DEF EntryOf, FirstFit
<1> QED BY Zenon, <1>2, <1>3 DEF Through

-----------------------------------------------------------------------------
(* One application after the other.                                         *)

\* Whether an application is settled depends on its own entry only.
LEMMA SettledAlike ==
  ASSUME NEW c, NEW kept, NEW e, NEW app, NEW found, NEW more,
         app.name \in DOMAIN found <=> app.name \in DOMAIN more,
         app.name \in DOMAIN found => more[app.name] = found[app.name],
         Settled(c, kept, e, app, found)
  PROVE  Settled(c, kept, e, app, more)
<1>1. CASE app.name \notin DOMAIN found /\ \A r \in DOMAIN c.cr.refs : ~Fits(c, app, r)
  BY Zenon, <1>1 DEF Settled
<1>2. ASSUME NEW r \in DOMAIN c.cr.refs,
             FirstFit(c, app, r),
             app.name \in DOMAIN found => found[app.name].ref = r,
             IsValidApplicationType(app, Config(c, app, r)) =>
               \A k \in DOMAIN Effective(c, app, r).images : MustHave(c, kept, e, app, r, Effective(c, app, r).images[k]) =>
                 /\ app.name \in DOMAIN found
                 /\ \E i \in DOMAIN found[app.name].images :
                      found[app.name].images[i].alias = Effective(c, app, r).images[k].alias
      PROVE  Settled(c, kept, e, app, more)
  <2>1. CASE app.name \in DOMAIN found
    <3>1. more[app.name] = found[app.name] /\ app.name \in DOMAIN more
      BY SMTT(30), <2>1
    <3>2. IsValidApplicationType(app, Config(c, app, r)) =>
            \A k \in DOMAIN Effective(c, app, r).images : MustHave(c, kept, e, app, r, Effective(c, app, r).images[k]) =>
              /\ app.name \in DOMAIN more
              /\ \E i \in DOMAIN more[app.name].images :
                   more[app.name].images[i].alias = Effective(c, app, r).images[k].alias
      BY SMT, <1>2, <3>1
    <3>3. more[app.name].ref = r
      BY Zenon, <1>2, <2>1, <3>1
    <3> QED BY Zenon, <1>2, <3>2, <3>3 DEF Settled
  <2>2. CASE app.name \notin DOMAIN found
    BY Zenon, <1>2, <2>2 DEF Settled
  <2> QED BY <2>1, <2>2
<1> QED BY Zenon, <1>1, <1>2 DEF Settled

\* Applications are found under their own names.
LEMMA FreshName ==
  ASSUME NEW c \in Configurations, NEW m \in 0 .. Len(c.apps), m < Len(c.apps),
         NEW kept, NEW e, NEW found, Through(c, kept, e, found, m)
  PROVE  /\ m + 1 \in DOMAIN c.apps /\ c.apps[m + 1].name \notin DOMAIN found
         /\ \A i \in 1..m : c.apps[i].name # c.apps[m + 1].name
<1>1. Len(c.apps) \in Nat /\ DOMAIN c.apps = 1 .. Len(c.apps)
  BY ListDomain, ConfigurationsAssumption DEF WellFormed
<1>2. \A i, j \in DOMAIN c.apps : c.apps[i].name = c.apps[j].name => i = j
  BY ConfigurationsAssumption DEF WellFormed, Keyed
<1>3. m + 1 \in DOMAIN c.apps /\ \A i \in 1..m : i \in DOMAIN c.apps /\ i # m + 1
  BY <1>1
<1>4. \A i \in 1..m : c.apps[i].name # c.apps[m + 1].name
  BY Zenon, <1>2, <1>3
<1> QED BY Zenon, <1>3, <1>4 DEF Through

\* With the next application settled, under its name if it is found.
LEMMA OneMore ==
  ASSUME NEW c \in Configurations, NEW m \in 0 .. Len(c.apps), m < Len(c.apps),
         NEW kept, NEW e, NEW found, Through(c, kept, e, found, m), NEW more,
         DOMAIN found \subseteq DOMAIN more, DOMAIN more \subseteq DOMAIN found \cup {c.apps[m + 1].name},
         \A n \in DOMAIN found : more[n] = found[n],
         c.apps[m + 1].name \in DOMAIN more => EntryOf(c, kept, c.apps[m + 1], more[c.apps[m + 1].name]),
         Settled(c, kept, e, c.apps[m + 1], more)
  PROVE  Through(c, kept, e, more, m + 1)
<1> DEFINE next == c.apps[m + 1]
<1>1. next.name \notin DOMAIN found /\ \A i \in 1..m : c.apps[i].name # next.name
  BY Zenon, FreshName
<1>2. 1 .. m + 1 = 1..m \cup {m + 1}
  OBVIOUS
<1>3. \A i \in 1..m : Settled(c, kept, e, c.apps[i], more)
  <2> SUFFICES ASSUME NEW i \in 1..m PROVE Settled(c, kept, e, c.apps[i], more)
    BY Zenon
  <2>1. Settled(c, kept, e, c.apps[i], found)
    BY Zenon DEF Through
  <2>2. c.apps[i].name \in DOMAIN found <=> c.apps[i].name \in DOMAIN more
    BY Zenon, <1>1
  <2> QED BY Zenon, <2>1, <2>2, SettledAlike
<1>4. \A i \in 1 .. m + 1 : Settled(c, kept, e, c.apps[i], more)
  BY Zenon, <1>2, <1>3
<1>5. \A name \in DOMAIN more : \E i \in 1 .. m + 1 : c.apps[i].name = name /\ EntryOf(c, kept, c.apps[i], more[name])
  <2> SUFFICES ASSUME NEW name \in DOMAIN more
               PROVE  \E i \in 1 .. m + 1 : c.apps[i].name = name /\ EntryOf(c, kept, c.apps[i], more[name])
    BY Zenon
  <2>1. CASE name \in DOMAIN found
    BY Zenon, <1>2, <2>1 DEF Through
  <2>2. CASE name = next.name
    BY Zenon, <1>2, <2>2
  <2> QED BY Zenon, <2>1, <2>2
<1> QED BY Zenon, <1>4, <1>5 DEF Through

\* The first rule in the order that can be used is the best one, and if none
\* can be used in the order, then none can be used.
LEMMA FirstInOrder ==
  ASSUME NEW c \in Configurations, NEW app, NEW k \in 0 .. Len(c.cr.refs),
         \A j \in 1..k : ~Fits(c, app, sortApplicationRefs(c.cr.refs)[j])
  PROVE  /\ k = Len(c.cr.refs) => \A r \in DOMAIN c.cr.refs : ~Fits(c, app, r)
         /\ k < Len(c.cr.refs) =>
              /\ sortApplicationRefs(c.cr.refs)[k + 1] \in DOMAIN c.cr.refs
              /\ Fits(c, app, sortApplicationRefs(c.cr.refs)[k + 1]) => FirstFit(c, app, sortApplicationRefs(c.cr.refs)[k + 1])
<1> DEFINE rules == c.cr.refs
           D == DOMAIN rules
           s == sortApplicationRefs(rules)
<1>1. IsList(rules) /\ \A i \in DOMAIN rules : WellFormedRule(rules[i])
  BY ConfigurationsAssumption DEF WellFormed
<1>2. Len(rules) \in Nat /\ D = 1 .. Len(rules)
  BY <1>1, ListDomain
<1>3. /\ s \in [D -> D] /\ \A i, l \in D : i < l => Before(rules, s[i], s[l])
      /\ \A r \in D : \E i \in D : s[i] = r
  BY Zenon, <1>1, SortedRules
<1> HIDE DEF rules, D, s
<1>4. ASSUME k = Len(rules), NEW r \in D PROVE ~Fits(c, app, r)
  BY Zenon, <1>2, <1>3, <1>4 DEF s, rules
<1>5. ASSUME k < Len(rules), Fits(c, app, s[k + 1]) PROVE \A j \in D \ {s[k + 1]} : Fits(c, app, j) => Before(rules, s[k + 1], j)
  <2> SUFFICES ASSUME NEW j \in D, j # s[k + 1], Fits(c, app, j) PROVE Before(rules, s[k + 1], j)
    OBVIOUS
  <2>1. PICK l \in D : s[l] = j
    BY <1>3
  <2>2. l \notin 1..k
    BY Zenon, <2>1 DEF s, rules
  <2>3. k + 1 \in D /\ k + 1 < l
    BY <1>2, <1>5, <2>1, <2>2
  <2> QED BY <1>3, <2>1, <2>3
<1>6. k < Len(rules) => s[k + 1] \in D
  <2>1. k < Len(rules) => k + 1 \in D
    BY <1>2
  <2> QED BY Zenon, <1>3, <2>1
<1> QED BY Zenon, <1>4, <1>5, <1>6 DEF FirstFit, rules, D, s

-----------------------------------------------------------------------------
(* The steps of the pass.                                                   *)

\* The order of the rules is a list of their positions.
LEMMA SortedList ==
  ASSUME NEW c \in Configurations
  PROVE  IsList(sortApplicationRefs(c.cr.refs)) /\ Len(sortApplicationRefs(c.cr.refs)) = Len(c.cr.refs)
<1> DEFINE D == DOMAIN c.cr.refs
           n == Len(c.cr.refs)
           s == sortApplicationRefs(c.cr.refs)
<1>1. IsList(c.cr.refs) /\ \A i \in DOMAIN c.cr.refs : WellFormedRule(c.cr.refs[i])
  BY ConfigurationsAssumption DEF WellFormed
<1>2. n \in Nat /\ D = 1..n
  BY <1>1, ListDomain
<1>3. s \in [D -> D]
  BY <1>1, SortedRules
<1> HIDE DEF D, n, s
<1>4. s \in [1..n -> Range(s)]
  <2>1. s = [i \in 1..n |-> s[i]] /\ DOMAIN s = 1..n
    BY <1>2, <1>3
  <2>2. \A i \in 1..n : s[i] \in Range(s)
    BY <2>1 DEF Range
  <2> QED BY <2>1, <2>2
<1>5. s \in Seq(Range(s)) /\ Len(s) = n
  <2> DEFINE T == Range(s)
  <2> HIDE DEF T
  <2>1. s \in [1..n -> T]
    BY <1>4 DEF T
  <2>2. s \in Seq(T) /\ Len(s) = n
    BY <1>2, <2>1
  <2> QED BY <2>2 DEF T
<1> QED BY <1>5 DEF IsList, s, n

\* Every step leaves the resource alone and remembers what secrets held.
LEMMA BasicsStep ==
  ASSUME Basics, [Next]_vars
  PROVE  Basics' /\ conf' = conf /\ Grows(held, held')
<1>1. CASE UNCHANGED <<conf, secrets, changes, held>> /\ pc' \in {"receive", "list", "rule", "writeback", "image", "done", "failed", "rejected"}
  BY Zenon, <1>1 DEF Basics, Grows
<1>2. CASE ChangeSecret
  <2>1. PICK s \in Secrets, v \in KeyValues \cup {None} :
          secrets' = [secrets EXCEPT ![s] = v] /\ held' = [held EXCEPT ![s] = @ \cup {v}]
    BY Zenon, <1>2 DEF ChangeSecret
  <2>2. secrets' \in [Secrets -> KeyValues \cup {None}] /\ held' \in [Secrets -> SUBSET (KeyValues \cup {None})]
    BY <2>1 DEF Basics
  <2>3. \A t \in Secrets : secrets'[t] \in held'[t] /\ held[t] \subseteq held'[t]
    BY <2>1 DEF Basics
  <2>4. conf.maxChanges \in Nat
    BY ConfigurationsAssumption DEF Basics, WellFormed
  <2>5. changes' \in 0 .. conf.maxChanges /\ conf' = conf /\ pc' = pc
    BY <1>2, <2>4 DEF Basics, ChangeSecret
  <2> QED BY Zenon, <2>2, <2>3, <2>5 DEF Basics, Grows
<1>3. CASE Updater
  <2>1. UNCHANGED <<conf, secrets, changes, held>>
    BY Zenon, <1>3 DEF Updater, Receive, FilterApplicationsForUpdate, TryRule, NoRule, UseRule, ParseImage, AddApplication, Return
  <2>2. CASE Receive \/ FilterApplicationsForUpdate \/ Return
    <3>1. pc' \in {"rejected", "list", "failed", "rule", "done"}
      BY <2>2 DEF Receive, FilterApplicationsForUpdate, Return
    <3> QED BY <1>1, <2>1, <3>1
  <2>3. CASE TryRule \/ NoRule \/ UseRule \/ ParseImage \/ AddApplication
    <3>1. pc' \in {"rule", "writeback", "image"}
      BY <2>3 DEF TryRule, NoRule, UseRule, ParseImage, AddApplication, NextApplication
    <3> QED BY <1>1, <2>1, <3>1
  <2> QED BY Zenon, <1>3, <2>2, <2>3 DEF Updater
<1>4. CASE UNCHANGED vars \/ Ended
  <2>1. UNCHANGED vars
    BY <1>4 DEF Ended
  <2> QED BY <1>1, <2>1 DEF vars, Basics
<1> QED BY Zenon, <1>2, <1>3, <1>4 DEF Next

\* Lengths and domains of the lists the pass goes through.
LEMMA Lengths ==
  ASSUME conf \in Configurations
  PROVE  /\ IsList(conf.apps) /\ IsList(conf.cr.refs)
         /\ Len(conf.apps) \in Nat /\ DOMAIN conf.apps = 1 .. Len(conf.apps)
         /\ Len(conf.cr.refs) \in Nat /\ DOMAIN conf.cr.refs = 1 .. Len(conf.cr.refs)
<1>1. IsList(conf.apps) /\ IsList(conf.cr.refs)
  BY ConfigurationsAssumption DEF WellFormed
<1> QED BY Zenon, <1>1, ListDomain

\* Nothing is found before the first application.
LEMMA NothingFound ==
  ASSUME NEW c, NEW kept, NEW e
  PROVE  Through(c, kept, e, <<>>, 0)
<1>1. DOMAIN <<>> = {} /\ 1..0 = {}
  OBVIOUS
<1> QED BY Zenon, <1>1 DEF Through

LEMMA PassStarts ==
  ASSUME Init
  PROVE  Basics /\ PassInv
<1>1. WellFormed(conf) /\ conf \in Configurations
  BY ConfigurationsAssumption DEF Init
<1>2. secrets \in [Secrets -> KeyValues \cup {None}] /\ conf.maxChanges \in Nat
  BY Zenon, <1>1 DEF Init, WellFormed
<1>3. held \in [Secrets -> SUBSET (KeyValues \cup {None})] /\ \A s \in Secrets : secrets[s] \in held[s]
  BY <1>2 DEF Init
<1>4. changes \in 0 .. conf.maxChanges
  BY <1>2 DEF Init
<1>5. pc \in {"receive", "list"}
  BY DEF Init
<1>6. Basics
  BY <1>1, <1>2, <1>3, <1>4, <1>5 DEF Basics
<1>7. rule = None /\ images = <<>> /\ result = <<>>
  BY DEF Init
<1>8. PassInv
  BY <1>5, <1>7 DEF PassInv
<1> QED BY <1>6, <1>8

\* The pass is at application m + 1 and rule sorted[k + 1], if there are such.
LEMMA Heads ==
  ASSUME conf \in Configurations, sorted = sortApplicationRefs(conf.cr.refs),
         NEW m \in 0 .. Len(conf.apps), NEW k \in 0 .. Len(conf.cr.refs), Place(m, k)
  PROVE  /\ todo = <<>> <=> m = Len(conf.apps)
         /\ refs = <<>> <=> k = Len(conf.cr.refs)
         /\ m < Len(conf.apps) => Head(todo) = conf.apps[m + 1] /\ Tail(todo) = Rest(conf.apps, m + 1)
         /\ k < Len(conf.cr.refs) => Head(refs) = sorted[k + 1] /\ Tail(refs) = Rest(sorted, k + 1)
<1>1. IsList(conf.apps) /\ IsList(sorted) /\ Len(sorted) = Len(conf.cr.refs)
  BY SMTT(30), Lengths, SortedList
<1>2. todo = Rest(conf.apps, m) /\ refs = Rest(sorted, k)
  BY DEF Place
<1>3. todo = <<>> <=> m = Len(conf.apps)
  BY Zenon, <1>1, <1>2, RestOfList
<1>4. m < Len(conf.apps) => Head(todo) = conf.apps[m + 1] /\ Tail(todo) = Rest(conf.apps, m + 1)
  BY Zenon, <1>1, <1>2, RestOfList
<1>5. k \in 0 .. Len(sorted)
  BY Zenon, <1>1
<1>6. refs = <<>> <=> k = Len(sorted)
  BY Zenon, <1>1, <1>2, <1>5, RestOfList
<1>7. k < Len(sorted) => Head(refs) = sorted[k + 1] /\ Tail(refs) = Rest(sorted, k + 1)
  BY Zenon, <1>1, <1>2, <1>5, RestOfList
<1> QED BY Zenon, <1>1, <1>3, <1>4, <1>6, <1>7

\* The pass turns to the next application once this one is settled.
LEMMA AppDone ==
  ASSUME conf \in Configurations, sorted = sortApplicationRefs(conf.cr.refs),
         NEW m \in 0 .. Len(conf.apps), NEW k \in 0 .. Len(conf.cr.refs), Place(m, k), m < Len(conf.apps),
         NextApplication, UNCHANGED <<conf, event, sorted, held>>, Through(conf, held, event, result', m + 1)
  PROVE  PassInv'
<1>1. todo' = Rest(conf'.apps, m + 1)
  BY Zenon, Heads DEF NextApplication
<1>2. refs' = Rest(sorted', 0)
  <2>1. IsList(sorted)
    BY SortedList
  <2>2. 0 \in 0 .. Len(sorted)
    BY <2>1, ListDomain
  <2> QED BY Zenon, <2>1, <2>2, RestOfList DEF NextApplication
<1>3. m + 1 \in 0 .. Len(conf'.apps) /\ 0 \in 0 .. Len(conf'.cr.refs) /\ 1..0 = {}
  BY Lengths
<1>4. pc' = "rule" /\ rule' = None /\ images' = <<>>
  BY DEF NextApplication
<1>5. Through(conf', held', event', result', m + 1)
  BY Zenon
<1>6. Place(m + 1, 0)'
  BY Zenon, <1>1, <1>2, <1>3, <1>4, <1>5 DEF Place
<1> QED BY <1>3, <1>4, <1>6 DEF PassInv

\* The pass turns to the next rule when this one cannot be used.
LEMMA RulePassed ==
  ASSUME conf \in Configurations, sorted = sortApplicationRefs(conf.cr.refs),
         NEW m \in 0 .. Len(conf.apps), NEW k \in 0 .. Len(conf.cr.refs), Place(m, k),
         m < Len(conf.apps), k < Len(conf.cr.refs), ~Fits(conf, conf.apps[m + 1], sorted[k + 1]),
         refs' = Tail(refs), pc' = "rule", rule' = None, images' = <<>>,
         UNCHANGED <<conf, event, sorted, held, todo, result>>
  PROVE  PassInv'
<1>1. refs' = Rest(sorted', k + 1)
  BY Zenon, Heads
<1>2. todo' = Rest(conf'.apps, m) /\ Through(conf', held', event', result', m)
  BY Zenon DEF Place
<1>3. k + 1 \in 0 .. Len(conf'.cr.refs) /\ m \in 0 .. Len(conf'.apps) /\ 1 .. k + 1 = 1..k \cup {k + 1}
  BY Lengths
<1>4. \A j \in 1 .. k + 1 : ~Fits(conf', conf'.apps[m + 1], sorted'[j])
  <2>1. \A j \in 1..k : ~Fits(conf, conf.apps[m + 1], sorted[j])
    BY Zenon DEF Place
  <2> QED BY Zenon, <1>3, <2>1
<1>5. Place(m, k + 1)'
  BY Zenon, <1>1, <1>2, <1>4 DEF Place
<1> QED BY Zenon, <1>3, <1>5 DEF PassInv

\* An application that nothing is found for.
LEMMA NotFound ==
  ASSUME conf \in Configurations, NEW m \in 0 .. Len(conf.apps), m < Len(conf.apps),
         Through(conf, held, event, result, m), Settled(conf, held, event, conf.apps[m + 1], result)
  PROVE  Through(conf, held, event, result, m + 1)
<1>1. conf.apps[m + 1].name \notin DOMAIN result
  BY Zenon, FreshName
<1> QED BY Zenon, <1>1, OneMore

LEMMA TryRuleStep ==
  ASSUME Basics, PassInv, TryRule
  PROVE  PassInv'
<1> USE DEF Basics
<1>1. sorted = sortApplicationRefs(conf.cr.refs) /\ UNCHANGED <<conf, event, sorted, held, todo, result, images>>
  BY Zenon DEF PassInv, TryRule
<1>2. PICK m \in 0 .. Len(conf.apps), k \in 0 .. Len(conf.cr.refs) : Place(m, k)
  BY Zenon DEF PassInv, TryRule
<1>3. m < Len(conf.apps) /\ k < Len(conf.cr.refs)
  <2>1. m # Len(conf.apps) /\ k # Len(conf.cr.refs)
    BY Zenon, <1>1, <1>2, Heads DEF TryRule
  <2> QED BY <2>1, Lengths
<1>4. Head(todo) = conf.apps[m + 1] /\ Head(refs) = sorted[k + 1]
  BY Zenon, <1>1, <1>2, <1>3, Heads
<1>5. rule = None /\ images = <<>>
  BY Zenon, <1>2 DEF Place, TryRule
<1>6. CASE Matches(conf.apps[m + 1], conf.cr.refs[sorted[k + 1]])
  <2>1. rule' = Effective(conf', conf'.apps[m + 1], sorted'[k + 1]) /\ pc' = "writeback" /\ refs' = refs /\ images' = <<>>
    BY Zenon, <1>1, <1>4, <1>5, <1>6 DEF TryRule, Effective
  <2>2. Place(m, k)'
    BY Zenon, <1>1, <1>2, <1>3, <1>6, <2>1 DEF Place
  <2> QED BY Zenon, <1>1, <2>1, <2>2 DEF PassInv
<1>7. CASE ~Matches(conf.apps[m + 1], conf.cr.refs[sorted[k + 1]])
  <2>1. ~Fits(conf, conf.apps[m + 1], sorted[k + 1])
    BY Zenon, <1>7 DEF Fits
  <2>2. refs' = Tail(refs) /\ pc' = "rule" /\ rule' = None /\ images' = <<>>
    BY Zenon, <1>1, <1>4, <1>5, <1>7 DEF TryRule
  <2> QED BY Zenon, <1>1, <1>2, <1>3, <2>1, <2>2, RulePassed
<1> QED BY <1>6, <1>7

LEMMA NoRuleStep ==
  ASSUME Basics, PassInv, NoRule
  PROVE  PassInv'
<1> USE DEF Basics
<1>1. sorted = sortApplicationRefs(conf.cr.refs) /\ UNCHANGED <<conf, event, sorted, held, result>> /\ NextApplication
  BY Zenon DEF PassInv, NoRule
<1>2. PICK m \in 0 .. Len(conf.apps), k \in 0 .. Len(conf.cr.refs) : Place(m, k)
  BY Zenon DEF PassInv, NoRule
<1>3. m < Len(conf.apps) /\ k = Len(conf.cr.refs)
  <2>1. m # Len(conf.apps) /\ k = Len(conf.cr.refs)
    BY Zenon, <1>1, <1>2, Heads DEF NoRule
  <2> QED BY <2>1, Lengths
<1>4. \A r \in DOMAIN conf.cr.refs : ~Fits(conf, conf.apps[m + 1], r)
  BY Zenon, <1>1, <1>2, <1>3, FirstInOrder DEF Place
<1>5. Through(conf, held, event, result, m)
  BY Zenon, <1>2 DEF Place
<1>6. Settled(conf, held, event, conf.apps[m + 1], result)
  BY Zenon, <1>3, <1>4, <1>5, FreshName DEF Settled
<1>7. Through(conf, held, event, result', m + 1)
  BY Zenon, <1>1, <1>3, <1>5, <1>6, NotFound
<1> QED BY Zenon, <1>1, <1>2, <1>3, <1>7, AppDone

LEMMA UseRuleStep ==
  ASSUME Basics, PassInv, UseRule
  PROVE  PassInv'
<1> USE DEF Basics
<1>1. sorted = sortApplicationRefs(conf.cr.refs) /\ UNCHANGED <<conf, event, sorted, held, result>> /\ pc = "writeback"
  BY DEF PassInv, UseRule
<1>2. PICK m \in 0 .. Len(conf.apps), k \in 0 .. Len(conf.cr.refs) :
        Place(m, k) /\ rule = Effective(conf, conf.apps[m + 1], sorted[k + 1]) /\ images = <<>>
  BY Zenon, <1>1 DEF PassInv
<1> DEFINE app == conf.apps[m + 1]
           r == sorted[k + 1]
           E == Effective(conf, app, r)
           wbc == Config(conf, app, r)
<1>3. m < Len(conf.apps) /\ k < Len(conf.cr.refs) /\ Matches(app, conf.cr.refs[r])
  BY Zenon, <1>1, <1>2 DEF Place
<1>4. Head(todo) = app /\ Head(refs) = r
  BY Zenon, <1>1, <1>2, <1>3, Heads
<1>5. newWBCFromSettings(Head(todo), rule.writeBack) = wbc
  BY Zenon, <1>2, <1>4 DEF Config
<1>6. r \in DOMAIN conf.cr.refs /\ (Fits(conf, app, r) => FirstFit(conf, app, r))
  BY Zenon, <1>1, <1>2, <1>3, FirstInOrder DEF Place
<1>7. m + 1 \in DOMAIN conf.apps
  BY <1>3, Lengths
<1> HIDE DEF E, wbc
<1>8. CASE E.images = None \/ E.common = None \/ wbc = None
  <2>1. ~Fits(conf, app, r)
    BY Zenon, <1>8 DEF Fits, E, wbc
  <2>2. pc' = "rule" /\ refs' = Tail(refs) /\ rule' = None /\ UNCHANGED <<todo, images>>
    BY Zenon, <1>2, <1>5, <1>8 DEF UseRule, E
  <2> QED BY Zenon, <1>1, <1>2, <1>3, <2>1, <2>2, RulePassed
<1>9. CASE E.images # None /\ E.common # None /\ wbc # None
  <2>1. Fits(conf, app, r)
    BY Zenon, <1>3, <1>9 DEF Fits, E, wbc
  <2>2. Through(conf, held, event, result, m)
    BY Zenon, <1>2 DEF Place
  <2>3. CASE ~IsValidApplicationType(app, wbc)
    <3>1. NextApplication
      BY Zenon, <1>2, <1>4, <1>5, <1>9, <2>3 DEF UseRule, E
    <3>2. Settled(conf, held, event, app, result)
      <4>1. app.name \notin DOMAIN result
        BY Zenon, <1>3, <2>2, FreshName
      <4> QED BY Zenon, <1>6, <2>1, <2>3, <4>1 DEF Settled, wbc
    <3>3. Through(conf, held, event, result', m + 1)
      BY Zenon, <1>1, <1>3, <2>2, <3>2, NotFound
    <3> QED BY Zenon, <1>1, <1>2, <1>3, <3>1, <3>3, AppDone
  <2>4. CASE IsValidApplicationType(app, wbc)
    <3>1. rule' = [rule EXCEPT !.writeBack = wbc] /\ pc' = "image" /\ UNCHANGED <<todo, refs, images>>
      BY Zenon, <1>2, <1>4, <1>5, <1>9, <2>4 DEF UseRule, E
    <3>2. rule' = [images |-> E.images, common |-> E.common, verification |-> E.verification, writeBack |-> wbc]
      <4>1. rule = [images |-> E.images, common |-> E.common, verification |-> E.verification, writeBack |-> E.writeBack]
        BY Zenon, <1>2 DEF E, Effective, EffectiveRule
      <4> QED BY <3>1, <4>1
    <3>3. rule'.images = Rest(E.images, 0) /\ 0 \in 0 .. Len(E.images)
      <4>1. IsList(E.images)
        BY Zenon, <1>6, <1>7, <1>9, ImagesOfRule DEF E
      <4>2. 0 \in 0 .. Len(E.images)
        BY <4>1, ListDomain
      <4>3. Rest(E.images, 0) = E.images
        BY Zenon, <4>1, <4>2, RestOfList
      <4> QED BY <3>2, <4>2, <4>3
    <3>4. images' = <<>> /\ DOMAIN <<>> = {} /\ 1..0 = {} /\ IsList(<<>>)
      BY <1>2, <3>1 DEF IsList
    <3>5. AllFound(conf, held, app, r, images') /\ Covers(conf, held, event, app, r, 0, images')
      BY Zenon, <3>4 DEF AllFound, Covers
    <3>6. rule' = [images |-> rule'.images, common |-> E.common, verification |-> E.verification, writeBack |-> wbc]
      BY <3>2
    <3>7. Parsing(app, r)'
      BY Zenon, <1>1, <2>1, <2>4, <3>3, <3>4, <3>5, <3>6 DEF Parsing, E, wbc
    <3>8. Place(m, k)'
      BY Zenon, <1>1, <1>2, <1>3, <3>1 DEF Place
    <3> QED BY Zenon, <1>1, <3>1, <3>7, <3>8 DEF PassInv
  <2> QED BY <2>3, <2>4
<1> QED BY Zenon, <1>8, <1>9

\* parseImageList leaves out an image only if it may be left out, and makes
\* of the others what the rule and the image say.
LEMMA ImageParsed ==
  ASSUME NEW c \in Configurations, NEW a \in DOMAIN c.apps, NEW r \in DOMAIN c.cr.refs, Fits(c, c.apps[a], r),
         NEW keys, NEW kept, ReadFrom(keys, kept), NEW e, NEW k \in DOMAIN Effective(c, c.apps[a], r).images
  PROVE  LET eff == Effective(c, c.apps[a], r)
             img == ParsedImage(eff.images[k], eff.common, eff.verification, keys)
         IN  IF SkipsImage(eff.images[k], eff.verification, keys, e) THEN ~MustHave(c, kept, e, c.apps[a], r, eff.images[k])
             ELSE FoundAs(c, kept, c.apps[a], r, eff.images[k], img) /\ img.alias = eff.images[k].alias
<1> DEFINE app == c.apps[a]
           eff == Effective(c, app, r)
           im == eff.images[k]
           v == Merged(c, app, r, im)
           key == ImageKey(im, eff.verification, keys)
           img == ParsedImage(im, eff.common, eff.verification, keys)
<1>1. im.verification \in Verification
  BY Zenon, ImagesOfRule DEF Fits
<1>2. v \in Verification
  BY Zenon, <1>1, MergedType
<1>3. key = newImageFromImagesVerification(v, keys)
  BY DEF ImageKey, Merged
<1>4. IF key = None THEN ~Sure(v, kept) ELSE GoodKey(v, kept, key)
  BY Zenon, <1>2, <1>3, KeyIsGood
<1>5. /\ img.alias = im.alias /\ img.key = key
      /\ img.settings = newImageFromCommonUpdateSettings(mergeCommonUpdateSettings(eff.common, im.common))
  BY Zenon DEF ParsedImage
<1> HIDE DEF app, eff, im, v, key, img
<1>6. CASE SkipsImage(im, eff.verification, keys, e)
  <2>1. ~MustHave(c, kept, e, app, r, im)
    BY Zenon, <1>4, <1>6 DEF SkipsImage, MustHave, v, key
  <2> QED BY Zenon, <1>6, <2>1 DEF app, eff, im
<1>7. CASE ~SkipsImage(im, eff.verification, keys, e)
  <2>1. GoodKey(v, kept, img.key)
    BY Zenon, <1>4, <1>5, <1>7 DEF SkipsImage, key
  <2>2. FoundAs(c, kept, app, r, im, img)
    BY Zenon, <1>5, <2>1 DEF FoundAs, v, eff
  <2> QED BY Zenon, <1>5, <1>7, <2>2 DEF app, eff, im, img
<1> QED BY Zenon, <1>6, <1>7

LEMMA ParseImageStep ==
  ASSUME Basics, PassInv, ParseImage
  PROVE  PassInv'
<1> USE DEF Basics
<1>1. /\ sorted = sortApplicationRefs(conf.cr.refs) /\ pc = "image"
      /\ UNCHANGED <<conf, pc, event, sorted, held, todo, refs, result>>
  BY DEF PassInv, ParseImage
<1>2. PICK m \in 0 .. Len(conf.apps), k \in 0 .. Len(conf.cr.refs) : Place(m, k) /\ Parsing(conf.apps[m + 1], sorted[k + 1])
  BY Zenon, <1>1 DEF PassInv
<1> DEFINE app == conf.apps[m + 1]
           r == sorted[k + 1]
           E == Effective(conf, app, r)
           list == E.images
<1>3. m < Len(conf.apps) /\ k < Len(conf.cr.refs) /\ Fits(conf, app, r)
  BY Zenon, <1>1, <1>2 DEF Place, Parsing
<1>4. r \in DOMAIN conf.cr.refs /\ m + 1 \in DOMAIN conf.apps
  <2>1. m + 1 \in DOMAIN conf.apps
    BY <1>3, Lengths
  <2>2. r \in DOMAIN conf.cr.refs
    BY Zenon, <1>1, <1>2, <1>3, FirstInOrder DEF Place
  <2> QED BY <2>1, <2>2
<1>5. PICK h \in 0 .. Len(list) : rule.images = Rest(list, h) /\ Covers(conf, held, event, app, r, h, images)
  BY Zenon, <1>2 DEF Parsing
<1>6. IsList(list) /\ Len(list) \in Nat /\ DOMAIN list = 1 .. Len(list)
  <2>1. IsList(list)
    BY Zenon, <1>3, <1>4, ImagesOfRule DEF Fits
  <2> QED BY Zenon, <2>1, ListDomain
<1>7. /\ rule = [images |-> rule.images, common |-> E.common, verification |-> E.verification, writeBack |-> Config(conf, app, r)]
      /\ IsList(images) /\ AllFound(conf, held, app, r, images)
  BY Zenon, <1>2 DEF Parsing
<1> HIDE DEF app, r, E, list
<1>8. h < Len(list) /\ h + 1 \in DOMAIN list /\ 1 .. h + 1 = 1..h \cup {h + 1} /\ h + 1 \in 0 .. Len(list)
  <2>1. h # Len(list)
    BY Zenon, <1>5, <1>6, RestOfList DEF ParseImage
  <2>2. h \in Nat /\ h < Len(list)
    <3> DEFINE n == Len(list)
    <3> HIDE DEF n
    <3>1. n \in Nat /\ h \in 0..n /\ h # n
      BY Zenon, <1>5, <1>6, <2>1 DEF n
    <3>2. h \in Nat /\ h < n
      BY <3>1
    <3> QED BY <3>2 DEF n
  <2>3. h + 1 \in 1 .. Len(list) /\ h + 1 \in 0 .. Len(list) /\ 1 .. h + 1 = 1..h \cup {h + 1}
    BY SMTT(30), <1>6, <2>2
  <2> QED BY Zenon, <1>6, <2>2, <2>3
<1>9. Head(rule.images) = list[h + 1] /\ Tail(rule.images) = Rest(list, h + 1)
  <2>1. Head(Rest(list, h)) = list[h + 1] /\ Tail(Rest(list, h)) = Rest(list, h + 1)
    BY Zenon, <1>5, <1>6, <1>8, RestOfList
  <2> QED BY <1>5, <2>1
<1>10. rule' = [images |-> Rest(list, h + 1), common |-> E.common, verification |-> E.verification, writeBack |-> Config(conf, app, r)]
  <2>1. rule' = [rule EXCEPT !.images = Tail(rule.images)]
    BY DEF ParseImage
  <2> DEFINE rest == Rest(list, h + 1)
             wbc == Config(conf, app, r)
  <2> HIDE DEF rest, wbc
  <2>2. rule' = [rule EXCEPT !.images = rest]
    BY Zenon, <1>9, <2>1 DEF rest
  <2>3. rule = [images |-> rule.images, common |-> E.common, verification |-> E.verification, writeBack |-> wbc]
    BY <1>7 DEF wbc
  <2>4. rule' = [images |-> rest, common |-> E.common, verification |-> E.verification, writeBack |-> wbc]
    BY SMTT(30), <2>2, <2>3
  <2> QED BY <2>4 DEF rest, wbc
<1> DEFINE img == ParsedImage(list[h + 1], E.common, E.verification, secrets)
           skip == SkipsImage(list[h + 1], E.verification, secrets, event)
<1>11. rule.common = E.common /\ rule.verification = E.verification
  BY <1>7
<1>12. images' = IF skip THEN images ELSE Append(images, img)
  BY Zenon, <1>9, <1>11 DEF ParseImage
<1>13. ReadFrom(secrets, held)
  BY DEF ReadFrom
<1>14. IF skip THEN ~MustHave(conf, held, event, app, r, list[h + 1])
       ELSE FoundAs(conf, held, app, r, list[h + 1], img) /\ img.alias = list[h + 1].alias
  BY Zenon, <1>3, <1>4, <1>8, <1>13, ImageParsed DEF app, E, list
<1> HIDE DEF img, skip
<1>15. IsList(images') /\ AllFound(conf, held, app, r, images') /\ Covers(conf, held, event, app, r, h + 1, images')
  <2>1. CASE skip
    <3>1. images' = images
      BY <1>12, <2>1
    <3>2. Covers(conf, held, event, app, r, h + 1, images')
      BY Zenon, <1>5, <1>8, <1>14, <2>1, <3>1 DEF Covers, E, list
    <3> QED BY Zenon, <1>7, <3>1, <3>2
  <2>2. CASE ~skip
    <3>1. images' = Append(images, img)
      BY <1>12, <2>2
    <3> DEFINE last == Len(images) + 1
    <3>2. /\ IsList(images') /\ DOMAIN images' = DOMAIN images \cup {last}
          /\ images'[last] = img /\ \A i \in DOMAIN images : images'[i] = images[i]
      <4>1. IsList(Append(images, img)) /\ DOMAIN Append(images, img) = DOMAIN images \cup {last}
        BY Zenon, <1>7, LongerList
      <4>2. Append(images, img)[last] = img
        BY Zenon, <1>7, LongerList
      <4>3. ASSUME NEW i \in DOMAIN images PROVE Append(images, img)[i] = images[i]
        BY <1>7, LongerList
      <4> QED BY Zenon, <3>1, <4>1, <4>2, <4>3
    <3> HIDE DEF last
    <3>3. AllFound(conf, held, app, r, images')
      BY Zenon, <1>7, <1>8, <1>14, <2>2, <3>2 DEF AllFound, E, list
    <3>4. \A j \in 1..h : MustHave(conf, held, event, app, r, list[j]) => \E i \in DOMAIN images' : images'[i].alias = list[j].alias
      BY Zenon, <1>5, <3>2 DEF Covers, E, list
    <3>5. \E i \in DOMAIN images' : images'[i].alias = list[h + 1].alias
      BY Zenon, <1>14, <2>2, <3>2
    <3>6. Covers(conf, held, event, app, r, h + 1, images')
      BY Zenon, <1>8, <3>4, <3>5 DEF Covers, E, list
    <3> QED BY Zenon, <3>2, <3>3, <3>6
  <2> QED BY <2>1, <2>2
<1>16. IsValidApplicationType(app, Config(conf, app, r))
  BY Zenon, <1>2 DEF Parsing, app, r
<1>17. rule'.images = Rest(list, h + 1) /\ rule' = [images |-> rule'.images, common |-> E.common, verification |-> E.verification, writeBack |-> Config(conf, app, r)]
  BY <1>10
<1>18. Parsing(conf.apps[m + 1], sorted[k + 1])'
  <2>1. \E n \in 0 .. Len(list) : rule'.images = Rest(list, n) /\ Covers(conf, held, event, app, r, n, images')
    BY Zenon, <1>8, <1>15, <1>17
  <2>2. app = conf'.apps[m + 1] /\ r = sorted'[k + 1]
    BY Zenon, <1>1 DEF app, r
  <2>3. Fits(conf', app, r) /\ IsValidApplicationType(app, Config(conf', app, r)) /\ IsList(images') /\ AllFound(conf', held', app, r, images')
    BY Zenon, <1>1, <1>3, <1>15, <1>16
  <2>4. rule' = [images |-> rule'.images, common |-> Effective(conf', app, r).common,
                 verification |-> Effective(conf', app, r).verification, writeBack |-> Config(conf', app, r)]
    BY Zenon, <1>1, <1>17 DEF E
  <2>5. \E n \in 0 .. Len(Effective(conf', app, r).images) :
          rule'.images = Rest(Effective(conf', app, r).images, n) /\ Covers(conf', held', event', app, r, n, images')
    BY Zenon, <1>1, <2>1 DEF E, list
  <2> QED BY Zenon, <2>2, <2>3, <2>4, <2>5 DEF Parsing
<1>19. Place(m, k)'
  BY Zenon, <1>1, <1>2 DEF Place
<1> QED BY Zenon, <1>1, <1>18, <1>19 DEF PassInv

LEMMA AddApplicationStep ==
  ASSUME Basics, PassInv, AddApplication
  PROVE  PassInv'
<1> USE DEF Basics
<1>1. /\ sorted = sortApplicationRefs(conf.cr.refs) /\ pc = "image" /\ NextApplication
      /\ UNCHANGED <<conf, event, sorted, held>> /\ rule.images = <<>>
  BY Zenon DEF PassInv, AddApplication
<1>2. PICK m \in 0 .. Len(conf.apps), k \in 0 .. Len(conf.cr.refs) : Place(m, k) /\ Parsing(conf.apps[m + 1], sorted[k + 1])
  BY Zenon, <1>1 DEF PassInv
<1> DEFINE app == conf.apps[m + 1]
           r == sorted[k + 1]
           list == Effective(conf, app, r).images
<1>3. m < Len(conf.apps) /\ k < Len(conf.cr.refs) /\ Fits(conf, app, r)
  BY Zenon, <1>1, <1>2 DEF Place, Parsing
<1>4. r \in DOMAIN conf.cr.refs /\ m + 1 \in DOMAIN conf.apps /\ FirstFit(conf, app, r)
  <2>1. m + 1 \in DOMAIN conf.apps
    BY <1>3, Lengths
  <2>2. r \in DOMAIN conf.cr.refs /\ FirstFit(conf, app, r)
    BY Zenon, <1>1, <1>2, <1>3, FirstInOrder DEF Place
  <2> QED BY Zenon, <2>1, <2>2
<1>5. Head(todo) = app /\ Head(refs) = r
  BY Zenon, <1>1, <1>2, <1>3, Heads
<1>6. Through(conf, held, event, result, m)
  BY Zenon, <1>2 DEF Place
<1>7. app.name \notin DOMAIN result
  BY Zenon, <1>3, <1>6, FreshName
<1>8. rule.writeBack = Config(conf, app, r) /\ AllFound(conf, held, app, r, images)
  BY <1>2 DEF Parsing
<1>9. \A j \in DOMAIN list : MustHave(conf, held, event, app, r, list[j]) => \E i \in DOMAIN images : images[i].alias = list[j].alias
  <2>1. PICK h \in 0 .. Len(list) : rule.images = Rest(list, h) /\ Covers(conf, held, event, app, r, h, images)
    BY Zenon, <1>2 DEF Parsing
  <2>2. IsList(list)
    BY Zenon, <1>3, <1>4, ImagesOfRule DEF Fits
  <2>3. h = Len(list)
    <3> HIDE DEF list
    <3>1. Rest(list, h) = <<>> <=> h = Len(list)
      BY Zenon, <2>1, <2>2, RestOfList
    <3> QED BY Zenon, <1>1, <2>1, <3>1
  <2>4. DOMAIN list = 1..h
    BY Zenon, <2>2, <2>3, ListDomain
  <2> QED BY Zenon, <2>1, <2>4 DEF Covers
<1> HIDE DEF app, r, list
<1>10. CASE images = <<>>
  <2>1. result' = result
    BY <1>10 DEF AddApplication
  <2>2. DOMAIN images = {}
    BY <1>10
  <2>3. Settled(conf, held, event, app, result)
    BY Zenon, <1>4, <1>7, <1>9, <2>2 DEF Settled, list
  <2>4. Through(conf, held, event, result', m + 1)
    BY Zenon, <1>3, <1>6, <2>1, <2>3, NotFound DEF app
  <2> QED BY Zenon, <1>1, <1>2, <1>3, <2>4, AppDone
<1>11. CASE images # <<>>
  <2> DEFINE entry == [ref |-> r, wbc |-> Config(conf, app, r), images |-> images]
  <2>1. result' = [n \in DOMAIN result \cup {app.name} |-> IF n = app.name THEN entry ELSE result[n]]
    BY Zenon, <1>5, <1>8, <1>11 DEF AddApplication, WithApplication
  <2>2. entry.ref = r /\ entry.wbc = Config(conf, app, r) /\ entry.images = images
    OBVIOUS
  <2> HIDE DEF entry
  <2>3. /\ DOMAIN result' = DOMAIN result \cup {app.name} /\ result'[app.name] = entry
        /\ \A n \in DOMAIN result : result'[n] = result[n]
    BY Zenon, <1>7, <2>1
  <2>4. EntryOf(conf, held, app, result'[app.name])
    BY Zenon, <1>4, <1>8, <1>11, <2>2, <2>3 DEF EntryOf
  <2>5. Settled(conf, held, event, app, result')
    <3>1. app.name \in DOMAIN result' /\ result'[app.name].ref = r /\ result'[app.name].images = images
      BY Zenon, <2>2, <2>3
    <3>2. \A j \in DOMAIN list : MustHave(conf, held, event, app, r, list[j]) =>
            app.name \in DOMAIN result' /\ \E i \in DOMAIN result'[app.name].images : result'[app.name].images[i].alias = list[j].alias
      BY Zenon, <1>9, <3>1
    <3> QED BY Zenon, <1>4, <3>1, <3>2 DEF Settled, list
  <2>6. Through(conf, held, event, result', m + 1)
    BY Zenon, <1>3, <1>6, <2>3, <2>4, <2>5, OneMore DEF app
  <2> QED BY Zenon, <1>1, <1>2, <1>3, <2>6, AppDone
<1> QED BY <1>10, <1>11

LEMMA StartStep ==
  ASSUME Basics, PassInv, Receive \/ FilterApplicationsForUpdate
  PROVE  PassInv'
<1> USE DEF Basics
<1>1. rule' = None /\ images' = <<>> /\ result' = <<>> /\ conf' = conf /\ held' = held
  BY Zenon DEF PassInv, Receive, FilterApplicationsForUpdate
<1>2. CASE pc' \in {"rejected", "list", "failed"}
  BY Zenon, <1>1, <1>2 DEF PassInv
<1>3. CASE FilterApplicationsForUpdate /\ pc' = "rule"
  <2>1. sorted' = sortApplicationRefs(conf.cr.refs) /\ refs' = sorted' /\ todo' = conf.apps
    BY Zenon, <1>3 DEF FilterApplicationsForUpdate
  <2>2. IsList(conf.apps) /\ IsList(sorted') /\ 0 \in 0 .. Len(conf.apps) /\ 0 \in 0 .. Len(conf.cr.refs)
        /\ 0 \in 0 .. Len(sorted') /\ 1..0 = {}
    <3>1. IsList(conf.apps) /\ IsList(sorted') /\ Len(sorted') = Len(conf.cr.refs)
      BY Zenon, <2>1, Lengths, SortedList
    <3>2. Len(conf.apps) \in Nat /\ Len(conf.cr.refs) \in Nat
      BY Zenon, Lengths
    <3> QED BY <3>1, <3>2
  <2>3. todo' = Rest(conf'.apps, 0) /\ refs' = Rest(sorted', 0)
    BY Zenon, <1>1, <2>1, <2>2, RestOfList
  <2>4. Through(conf', held', event', result', 0)
    BY Zenon, <1>1, NothingFound
  <2>5. Place(0, 0)'
    BY Zenon, <1>1, <1>3, <2>2, <2>3, <2>4 DEF Place
  <2> QED BY Zenon, <1>1, <1>3, <2>1, <2>2, <2>5 DEF PassInv
<1> QED BY Zenon, <1>2, <1>3 DEF Receive, FilterApplicationsForUpdate

LEMMA ReturnStep ==
  ASSUME Basics, PassInv, Return
  PROVE  PassInv'
<1> USE DEF Basics
<1>1. /\ sorted = sortApplicationRefs(conf.cr.refs) /\ pc' = "done" /\ pc = "rule" /\ todo = <<>>
      /\ UNCHANGED <<conf, event, held, result, rule>>
  BY Zenon DEF PassInv, Return
<1>2. PICK m \in 0 .. Len(conf.apps), k \in 0 .. Len(conf.cr.refs) : Place(m, k)
  BY Zenon, <1>1 DEF PassInv
<1>3. m = Len(conf.apps)
  BY Zenon, <1>1, <1>2, Heads
<1>4. rule = None /\ Through(conf, held, event, result, Len(conf.apps))
  BY Zenon, <1>1, <1>2, <1>3 DEF Place
<1> QED BY Zenon, <1>1, <1>4 DEF PassInv

LEMMA ChangeSecretStep ==
  ASSUME Basics, PassInv, ChangeSecret
  PROVE  PassInv'
<1>1. Grows(held, held') /\ conf' = conf /\ conf \in Configurations
  BY Zenon, BasicsStep DEF Next, Basics
<1>2. UNCHANGED <<conf, pc, event, sorted, todo, refs, rule, images, result>> /\ pc \in {"rule", "writeback", "image"}
  BY DEF ChangeSecret
<1>3. sorted = sortApplicationRefs(conf.cr.refs)
  BY Zenon, <1>2 DEF PassInv
<1>4. PICK m \in 0 .. Len(conf.apps), k \in 0 .. Len(conf.cr.refs) :
        /\ Place(m, k)
        /\ pc = "writeback" => rule = Effective(conf, conf.apps[m + 1], sorted[k + 1]) /\ images = <<>>
        /\ pc = "image" => Parsing(conf.apps[m + 1], sorted[k + 1])
  BY Zenon, <1>2 DEF PassInv
<1>5. Through(conf, held', event, result, m)
  BY Zenon, <1>1, <1>4, LaterThrough DEF Place
<1>6. Place(m, k)'
  BY Zenon, <1>2, <1>4, <1>5 DEF Place
<1>7. ASSUME pc = "image" PROVE Parsing(conf.apps[m + 1], sorted[k + 1])'
  <2> DEFINE app == conf.apps[m + 1]
             r == sorted[k + 1]
             list == Effective(conf, app, r).images
  <2>1. Parsing(app, r)
    BY <1>4, <1>7
  <2>2. m < Len(conf.apps) /\ k < Len(conf.cr.refs) /\ Fits(conf, app, r)
    BY Zenon, <1>4, <1>7, <2>1 DEF Place, Parsing
  <2>3. m + 1 \in DOMAIN conf.apps
    BY <1>1, <2>2, Lengths
  <2>4. r \in DOMAIN conf.cr.refs
    BY Zenon, <1>1, <1>3, <1>4, <2>2, FirstInOrder DEF Place
  <2>5. /\ AllFound(conf, held', app, r, images)
        /\ \A j \in DOMAIN list : MustHave(conf, held', event, app, r, list[j]) => MustHave(conf, held, event, app, r, list[j])
    BY Zenon, <1>1, <2>1, <2>2, <2>3, <2>4, LaterFound DEF Parsing
  <2>6. PICK h \in 0 .. Len(list) : rule.images = Rest(list, h) /\ Covers(conf, held, event, app, r, h, images)
    BY Zenon, <2>1 DEF Parsing
  <2>7. 1..h \subseteq DOMAIN list
    <3>1. IsList(list)
      BY Zenon, <1>1, <2>2, <2>3, <2>4, ImagesOfRule DEF Fits
    <3>2. Len(list) \in Nat /\ DOMAIN list = 1 .. Len(list)
      BY Zenon, <3>1, ListDomain
    <3> DEFINE n == Len(list)
    <3>3. n \in Nat /\ h \in 0..n
      BY Zenon, <2>6, <3>2
    <3> HIDE DEF n
    <3>4. 1..h \subseteq 1..n
      BY <3>3
    <3> QED BY Zenon, <3>2, <3>4 DEF n
  <2>8. Covers(conf, held', event, app, r, h, images)
    BY Zenon, <2>5, <2>6, <2>7 DEF Covers
  <2>9. \E n \in 0 .. Len(list) : rule.images = Rest(list, n) /\ Covers(conf, held', event, app, r, n, images)
    BY Zenon, <2>6, <2>8
  <2> QED BY Zenon, <1>2, <2>1, <2>5, <2>9 DEF Parsing
<1> QED BY Zenon, <1>2, <1>3, <1>4, <1>6, <1>7 DEF PassInv

LEMMA PassStep ==
  ASSUME Basics, PassInv, [Next]_vars
  PROVE  PassInv'
<1>1. CASE UNCHANGED vars \/ Ended
  <2>1. UNCHANGED vars
    BY <1>1 DEF Ended
  <2>2. UNCHANGED <<conf, pc, event, sorted, todo, refs, rule, images, result, held>>
    BY Zenon, <2>1 DEF vars
  <2>3. ASSUME NEW m, NEW k, Place(m, k) PROVE Place(m, k)'
    BY Zenon, <2>2, <2>3 DEF Place
  <2>4. ASSUME NEW app, NEW r, Parsing(app, r) PROVE Parsing(app, r)'
    BY <2>2, <2>4 DEF Parsing
  <2> QED BY Zenon, <2>2, <2>3, <2>4 DEF PassInv
<1> QED BY Zenon, <1>1, StartStep, TryRuleStep, NoRuleStep, UseRuleStep, ParseImageStep, AddApplicationStep, ReturnStep,
           ChangeSecretStep DEF Next, Updater

\* The inductive invariant holds throughout every pass.
LEMMA PassInvariant == Spec => [](Basics /\ PassInv)
<1>1. Init => Basics /\ PassInv
  BY PassStarts
<1>2. Basics /\ PassInv /\ [Next]_vars => (Basics /\ PassInv)'
  BY BasicsStep, PassStep
<1> QED BY <1>1, <1>2, PTL DEF Spec

-----------------------------------------------------------------------------
(* The blocks that apply, from the resource to the image.                   *)

LEMMA GreatestOf ==
  ASSUME NEW T, T \subseteq Int, NEW x \in T, \A y \in T : x >= y
  PROVE  Max(T) = x
<1>1. Max(T) \in T /\ \A y \in T : Max(T) >= y
  BY Zenon DEF Max
<1> DEFINE m == Max(T)
<1> HIDE DEF m
<1>2. m \in Int /\ x \in Int /\ m >= x /\ x >= m
  BY Zenon, <1>1 DEF m
<1>3. m = x
  BY <1>2
<1> QED BY <1>3 DEF m

\* One, two and three levels: the innermost that says anything wins.
LEMMA OneLevel ==
  ASSUME NEW a, NEW f
  PROVE  Innermost(<<a>>, f) = a[f]
<1> DEFINE blocks == <<a>>
           says == {i \in DOMAIN blocks : blocks[i][f] # None}
<1>1. DOMAIN blocks = {1} /\ blocks[1] = a
  OBVIOUS
<1>2. CASE a[f] = None
  BY <1>1, <1>2 DEF Innermost
<1>3. CASE a[f] # None
  <2>1. says = {1}
    BY Zenon, <1>1, <1>3
  <2>2. Max(says) = 1
    BY <2>1, GreatestOf
  <2> QED BY Zenon, <1>1, <2>1, <2>2 DEF Innermost
<1> QED BY <1>2, <1>3

LEMMA TwoLevels ==
  ASSUME NEW a, NEW b, NEW f
  PROVE  Innermost(<<a, b>>, f) = Else(b[f], a[f])
<1> DEFINE blocks == <<a, b>>
           says == {i \in DOMAIN blocks : blocks[i][f] # None}
<1>1. DOMAIN blocks = {1, 2} /\ blocks[1] = a /\ blocks[2] = b
  OBVIOUS
<1>2. Innermost(blocks, f) = IF says = {} THEN None ELSE blocks[Max(says)][f]
  BY DEF Innermost
<1>3. \A i : i \in says <=> i \in {1, 2} /\ blocks[i][f] # None
  BY <1>1
<1> HIDE DEF blocks, says
<1>4. CASE b[f] # None
  <2>1. 2 \in says /\ \A y \in says : y \in Int /\ 2 >= y
    BY <1>1, <1>3, <1>4
  <2>2. Max(says) = 2 /\ says # {}
    BY <2>1, GreatestOf
  <2> QED BY Zenon, <1>1, <1>2, <1>4, <2>2 DEF Else, blocks
<1>5. CASE b[f] = None /\ a[f] # None
  <2>1. 1 \in says /\ \A y \in says : y \in Int /\ 1 >= y
    BY SMTT(30), <1>1, <1>3, <1>5
  <2>2. Max(says) = 1 /\ says # {}
    BY <2>1, GreatestOf
  <2> QED BY Zenon, <1>1, <1>2, <1>5, <2>2 DEF Else, blocks
<1>6. CASE b[f] = None /\ a[f] = None
  <2>1. says = {}
    BY <1>1, <1>3, <1>6
  <2> QED BY Zenon, <1>2, <1>6, <2>1 DEF Else, blocks
<1> QED BY Zenon, <1>4, <1>5, <1>6

LEMMA ThreeLevels ==
  ASSUME NEW a, NEW b, NEW c, NEW f
  PROVE  Innermost(<<a, b, c>>, f) = Else(c[f], Else(b[f], a[f]))
<1> DEFINE blocks == <<a, b, c>>
           says == {i \in DOMAIN blocks : blocks[i][f] # None}
<1>1. DOMAIN blocks = {1, 2, 3} /\ blocks[1] = a /\ blocks[2] = b /\ blocks[3] = c
  OBVIOUS
<1>2. Innermost(blocks, f) = IF says = {} THEN None ELSE blocks[Max(says)][f]
  BY DEF Innermost
<1>3. \A i : i \in says <=> i \in {1, 2, 3} /\ blocks[i][f] # None
  BY <1>1
<1> HIDE DEF blocks, says
<1>4. CASE c[f] # None
  <2>1. 3 \in says /\ \A y \in says : y \in Int /\ 3 >= y
    BY <1>1, <1>3, <1>4
  <2>2. Max(says) = 3 /\ says # {}
    BY <2>1, GreatestOf
  <2> QED BY Zenon, <1>1, <1>2, <1>4, <2>2 DEF Else, blocks
<1>5. CASE c[f] = None /\ b[f] # None
  <2>1. 2 \in says /\ \A y \in says : y \in Int /\ 2 >= y
    BY SMTT(30), <1>1, <1>3, <1>5
  <2>2. Max(says) = 2 /\ says # {}
    BY <2>1, GreatestOf
  <2> QED BY Zenon, <1>1, <1>2, <1>5, <2>2 DEF Else, blocks
<1>6. CASE c[f] = None /\ b[f] = None /\ a[f] # None
  <2>1. 1 \in says /\ \A y \in says : y \in Int /\ 1 >= y
    BY SMTT(30), <1>1, <1>3, <1>6
  <2>2. Max(says) = 1 /\ says # {}
    BY <2>1, GreatestOf
  <2> QED BY Zenon, <1>1, <1>2, <1>6, <2>2 DEF Else, blocks
<1>7. CASE c[f] = None /\ b[f] = None /\ a[f] = None
  <2>1. says = {}
    BY <1>1, <1>3, <1>7
  <2> QED BY Zenon, <1>2, <1>7, <2>1 DEF Else, blocks
<1> QED BY Zenon, <1>4, <1>5, <1>6, <1>7

\* The two merges of the update settings give the innermost ones.
LEMMA SettingsMerged ==
  ASSUME NEW app, NEW r, NEW im, NEW f \in Fields
  PROVE  mergeCommonUpdateSettings(Effective(conf, app, r).common, im.common)[f] = Innermost(SettingsBlocks(app, Rule(r), im), f)
<1> DEFINE ref == conf.cr.refs[r]
           own == getCommonUpdateSettingsFromAnnotations(app.annotations.common, FALSE)
<1>1. \A o, i : mergeCommonUpdateSettings(o, i)[f] = Else(i[f], o[f])
  BY DEF mergeCommonUpdateSettings
<1>2. CASE ref.useAnnotations
  <2>1. Effective(conf, app, r).common = own
    BY Zenon, <1>2 DEF Effective, EffectiveRule
  <2>2. SettingsBlocks(app, Rule(r), im) = <<own, im.common>>
    BY Zenon, <1>2 DEF SettingsBlocks, Rule
  <2> HIDE DEF own
  <2>3. Innermost(SettingsBlocks(app, Rule(r), im), f) = Else(im.common[f], own[f])
    BY Zenon, <2>2, TwoLevels
  <2> QED BY Zenon, <1>1, <2>1, <2>3
<1>3. CASE ~ref.useAnnotations
  <2>1. Effective(conf, app, r).common = mergeCommonUpdateSettings(conf.cr.common, ref.common)
    BY Zenon, <1>3 DEF Effective, EffectiveRule
  <2>2. SettingsBlocks(app, Rule(r), im) = <<conf.cr.common, ref.common, im.common>>
    BY <1>3 DEF SettingsBlocks, Rule
  <2>3. Innermost(SettingsBlocks(app, Rule(r), im), f) = Else(im.common[f], Else(ref.common[f], conf.cr.common[f]))
    BY Zenon, <2>2, ThreeLevels
  <2> QED BY Zenon, <1>1, <2>1, <2>3
<1> QED BY Zenon, <1>2, <1>3

\* And so do those of the verification settings.
LEMMA VerificationMerged ==
  ASSUME NEW app, NEW r, NEW im
  PROVE  /\ Required(Rule(r), im) <=> Needed(Merged(conf, app, r, im))
         /\ KeySecret(Rule(r), im) = Merged(conf, app, r, im).cosignKey
<1> DEFINE ref == conf.cr.refs[r]
           x == conf.cr.verification
           y == ref.verification
           z == im.verification
           v == Merged(conf, app, r, im)
           blocks == VerificationBlocks(Rule(r), im)
<1>1. Required(Rule(r), im) <=> (\E i \in DOMAIN blocks : blocks[i].present) /\ Innermost(blocks, "enabled") # FALSE
  BY DEF Required
<1>2. KeySecret(Rule(r), im) = Innermost(blocks, "cosignKey")
  BY DEF KeySecret
<1>3. \A o, i : /\ mergeImagesVerification(o, i).present = (o.present \/ i.present)
                /\ mergeImagesVerification(o, i).enabled = Else(i.enabled, o.enabled)
                /\ mergeImagesVerification(o, i).cosignKey = Else(i.cosignKey, o.cosignKey)
  BY Zenon DEF mergeImagesVerification
<1>4. CASE ref.useAnnotations
  <2>1. blocks = <<y, z>>
    BY Zenon, <1>4 DEF VerificationBlocks, Rule
  <2>2. v = mergeImagesVerification(y, z)
    BY Zenon, <1>4 DEF Merged, Effective, EffectiveRule
  <2> HIDE DEF blocks, v, x, y, z
  <2>3. (\E i \in DOMAIN blocks : blocks[i].present) <=> y.present \/ z.present
    BY <2>1
  <2>4. Innermost(blocks, "enabled") = v.enabled /\ Innermost(blocks, "cosignKey") = v.cosignKey
    BY SMTT(30), <1>3, <2>1, <2>2, TwoLevels
  <2>5. v.present <=> y.present \/ z.present
    BY Zenon, <1>3, <2>2
  <2>6. /\ Required(Rule(r), im) <=> Needed(v)
        /\ KeySecret(Rule(r), im) = v.cosignKey
    BY Zenon, <1>1, <1>2, <2>3, <2>4, <2>5 DEF Needed
  <2> QED BY <2>6 DEF v
<1>5. CASE ~ref.useAnnotations
  <2>1. blocks = <<x, y, z>>
    BY <1>5 DEF VerificationBlocks, Rule
  <2>2. v = mergeImagesVerification(mergeImagesVerification(x, y), z)
    BY Zenon, <1>5 DEF Merged, Effective, EffectiveRule
  <2> HIDE DEF blocks, v, x, y, z
  <2>3. (\E i \in DOMAIN blocks : blocks[i].present) <=> x.present \/ y.present \/ z.present
    BY <2>1
  <2>4. Innermost(blocks, "enabled") = v.enabled /\ Innermost(blocks, "cosignKey") = v.cosignKey
    BY SMTT(30), <1>3, <2>1, <2>2, ThreeLevels
  <2>5. v.present <=> x.present \/ y.present \/ z.present
    BY Zenon, <1>3, <2>2
  <2>6. /\ Required(Rule(r), im) <=> Needed(v)
        /\ KeySecret(Rule(r), im) = v.cosignKey
    BY Zenon, <1>1, <1>2, <2>3, <2>4, <2>5 DEF Needed
  <2> QED BY <2>6 DEF v
<1> QED BY Zenon, <1>4, <1>5

-----------------------------------------------------------------------------
(* What the invariant says of the applications found.                       *)

\* Every entry of appsForUpdate is that of the application with its name.
LEMMA EntryOfApp ==
  ASSUME Basics, PassInv, NEW name \in DOMAIN result
  PROVE  \E a \in DOMAIN conf.apps :
           App(name) = conf.apps[a] /\ conf.apps[a].name = name /\ EntryOf(conf, held, conf.apps[a], result[name])
<1>0. conf \in Configurations
  BY DEF Basics
<1>1. \E m \in 0 .. Len(conf.apps) : Through(conf, held, event, result, m)
  <2>1. CASE pc \in {"receive", "list", "failed", "rejected"}
    <3>1. result = <<>>
      BY <2>1 DEF PassInv
    <3>2. 0 \in 0 .. Len(conf.apps)
      BY SMTT(30), <1>0, Lengths
    <3> QED BY Zenon, <3>1, <3>2, NothingFound
  <2>2. CASE pc \in {"rule", "writeback", "image"}
    BY Zenon, <2>2 DEF PassInv, Place
  <2>3. CASE pc = "done"
    <3>1. Len(conf.apps) \in 0 .. Len(conf.apps)
      BY SMTT(30), <1>0, Lengths
    <3> QED BY Zenon, <2>3, <3>1 DEF PassInv
  <2> QED BY <2>1, <2>2, <2>3 DEF Basics
<1>2. PICK m \in 0 .. Len(conf.apps) : Through(conf, held, event, result, m)
  BY <1>1
<1>3. PICK a \in 1..m : conf.apps[a].name = name /\ EntryOf(conf, held, conf.apps[a], result[name])
  BY Zenon, <1>2 DEF Through
<1>4. a \in DOMAIN conf.apps
  BY SMTT(30), <1>0, <1>2, <1>3, Lengths
<1>5. \A i, j \in DOMAIN conf.apps : conf.apps[i].name = conf.apps[j].name => i = j
  BY Zenon, <1>0, ConfigurationsAssumption DEF WellFormed, Keyed
<1>6. (CHOOSE i \in DOMAIN conf.apps : conf.apps[i].name = name) = a
  BY <1>3, <1>4, <1>5
<1>7. App(name) = conf.apps[a]
  BY Zenon, <1>6 DEF App
<1> QED BY Zenon, <1>3, <1>4, <1>7

\* The images that are configured for an application under a rule.
LEMMA Configured ==
  ASSUME NEW app, NEW r
  PROVE  ConfiguredImages(app, Rule(r)) = Range(Effective(conf, app, r).images)
<1>1. Effective(conf, app, r).images = IF conf.cr.refs[r].useAnnotations THEN getImagesFromAnnotations(app) ELSE conf.cr.refs[r].images
  BY Zenon DEF Effective, EffectiveRule
<1> QED BY Zenon, <1>1 DEF ConfiguredImages, Rule

\* An image that is found has the settings of each image that is configured
\* under its alias.
LEMMA FoundByAlias ==
  ASSUME Basics, PassInv, NEW name \in DOMAIN result, NEW i \in DOMAIN result[name].images,
         NEW im \in ConfiguredImages(App(name), Rule(result[name].ref)),
         result[name].images[i].alias = im.alias
  PROVE  FoundAs(conf, held, App(name), result[name].ref, im, result[name].images[i])
<1> DEFINE r == result[name].ref
           img == result[name].images[i]
<1>1. PICK a \in DOMAIN conf.apps : App(name) = conf.apps[a] /\ EntryOf(conf, held, conf.apps[a], result[name])
  BY Zenon, EntryOfApp
<1> DEFINE app == conf.apps[a]
           list == Effective(conf, app, r).images
<1>2. r \in DOMAIN conf.cr.refs /\ list # None /\ AllFound(conf, held, app, r, result[name].images)
  BY Zenon, <1>1 DEF EntryOf, FirstFit, Fits
<1>3. PICK k \in DOMAIN list : FoundAs(conf, held, app, r, list[k], img)
  BY Zenon, <1>2 DEF AllFound
<1>4. im \in Range(list)
  BY Zenon, <1>1, Configured
<1>5. PICK j \in DOMAIN list : im = list[j]
  <2> HIDE DEF list
  <2> QED BY Zenon, <1>4 DEF Range
<1>6. list[j].alias = list[k].alias
  BY Zenon, <1>3, <1>5 DEF FoundAs
<1>7. list[j].common = list[k].common /\ list[j].verification = list[k].verification
  BY Zenon, <1>2, <1>6, ImagesOfRule DEF Basics
<1> HIDE DEF app, list, r, img
<1>8. FoundAs(conf, held, app, r, im, img)
  BY Zenon, <1>3, <1>5, <1>6, <1>7 DEF FoundAs, Merged
<1> QED BY Zenon, <1>1, <1>8 DEF app, r, img

LEMMA TypeHolds ==
  ASSUME Basics, PassInv
  PROVE  TypeOK
<1>1. \A name \in DOMAIN result :
        /\ \E i \in DOMAIN conf.apps : conf.apps[i].name = name
        /\ result[name].images # <<>>
        /\ result[name].ref \in DOMAIN conf.cr.refs
  BY Zenon, EntryOfApp DEF EntryOf, FirstFit
<1>2. CASE pc = "writeback"
  <2>1. PICK m, k : rule = Effective(conf, conf.apps[m + 1], sorted[k + 1])
    BY Zenon, <1>2 DEF PassInv
  <2>2. DOMAIN rule = {"images", "common", "verification", "writeBack"}
    BY Zenon, <2>1 DEF Effective, EffectiveRule
  <2> QED BY Zenon, <1>1, <1>2, <2>2 DEF TypeOK, Basics
<1>3. CASE pc = "image"
  <2>1. PICK m, k : Parsing(conf.apps[m + 1], sorted[k + 1])
    BY Zenon, <1>3 DEF PassInv
  <2>2. \E c, v, w : rule = [images |-> rule.images, common |-> c, verification |-> v, writeBack |-> w]
    BY Zenon, <2>1 DEF Parsing
  <2>3. DOMAIN rule = {"images", "common", "verification", "writeBack"}
    BY <2>2
  <2> QED BY <1>1, <1>3, <2>3 DEF TypeOK, Basics
<1>4. CASE pc \notin {"writeback", "image"}
  <2>1. rule = None
    BY Zenon, <1>4 DEF PassInv, Basics, Place
  <2> QED BY Zenon, <1>1, <1>4, <2>1 DEF TypeOK, Basics
<1> QED BY <1>2, <1>3, <1>4

\* The entries of appsForUpdate are of listed applications, each with a rule
\* of the resource and an image, and the rule at hand is there exactly while
\* FilterApplicationsForUpdate works with it.
THEOREM FilterIsTyped == Spec => []TypeOK
<1>1. Basics /\ PassInv => TypeOK
  BY TypeHolds
<1> QED BY <1>1, PassInvariant, PTL

LEMMA InnermostHolds ==
  ASSUME Basics, PassInv
  PROVE  InnermostWins
<1> SUFFICES ASSUME NEW w \in Found, result[w[1]].images[w[2]].alias = w[3].alias
             PROVE  LET app == App(w[1])
                        ref == Rule(result[w[1]].ref)
                        img == result[w[1]].images[w[2]]
                        setting(f, default) == Else(Innermost(SettingsBlocks(app, ref, w[3]), f), default)
                    IN  /\ img.settings["strategy"] = ParseUpdateStrategy(setting("strategy", "semver"))
                        /\ img.settings["force"] = setting("force", "false")
                        /\ \A f \in Fields \ {"strategy", "force"} : img.settings[f] = setting(f, "")
  BY Zenon DEF InnermostWins, ForEveryFound
<1> DEFINE name == w[1]
           im == w[3]
           r == result[name].ref
           img == result[name].images[w[2]]
           merged == mergeCommonUpdateSettings(Effective(conf, App(name), r).common, im.common)
           inner(f) == Innermost(SettingsBlocks(App(name), Rule(r), im), f)
<1>1. name \in DOMAIN result /\ w[2] \in DOMAIN result[name].images /\ im \in ConfiguredImages(App(name), Rule(r))
  BY DEF Found
<1>2. img.settings = newImageFromCommonUpdateSettings(merged)
  BY Zenon, <1>1, FoundByAlias DEF FoundAs
<1>3. \A f \in Fields : merged[f] = inner(f)
  <2> DEFINE app == App(name)
  <2> HIDE DEF app, r, im
  <2>1. \A f \in Fields : mergeCommonUpdateSettings(Effective(conf, app, r).common, im.common)[f]
                             = Innermost(SettingsBlocks(app, Rule(r), im), f)
    BY SettingsMerged
  <2> QED BY Zenon, <2>1 DEF app
<1> HIDE DEF merged, inner
<1>4. \A f \in Fields : img.settings[f] = CASE f = "strategy" -> IF merged[f] = None THEN "semver" ELSE ParseUpdateStrategy(merged[f])
                                           [] f = "force" -> Else(merged[f], "false")
                                           [] OTHER -> Else(merged[f], "")
  BY Zenon, <1>2 DEF newImageFromCommonUpdateSettings
<1> HIDE DEF img
<1>5. "strategy" \in Fields /\ "force" \in Fields
  BY Zenon DEF Fields
<1>6. img.settings["strategy"] = ParseUpdateStrategy(Else(inner("strategy"), "semver"))
  <2>1. img.settings["strategy"] = IF inner("strategy") = None THEN "semver" ELSE ParseUpdateStrategy(inner("strategy"))
    BY Zenon, <1>3, <1>4, <1>5
  <2>2. ParseUpdateStrategy("semver") = "semver"
    BY DEF ParseUpdateStrategy
  <2> QED BY Zenon, <2>1, <2>2 DEF Else
<1>7. img.settings["force"] = Else(inner("force"), "false")
  BY Zenon, <1>3, <1>4, <1>5
<1>8. \A f \in Fields \ {"strategy", "force"} : img.settings[f] = Else(inner(f), "")
  BY Zenon, <1>3, <1>4
<1> QED BY Zenon, <1>6, <1>7, <1>8 DEF inner, img

\* Whatever the resource, its rules, its images and the annotations of the
\* applications set, each setting of an image found is that of the innermost
\* level that sets it.
THEOREM InnermostSettingsWin == Spec => []InnermostWins
<1>1. Basics /\ PassInv => InnermostWins
  BY InnermostHolds
<1> QED BY <1>1, PassInvariant, PTL

LEMMA VerificationHolds ==
  ASSUME Basics, PassInv
  PROVE  VerificationKept
<1> SUFFICES ASSUME NEW w \in Found, result[w[1]].images[w[2]].alias = w[3].alias
             PROVE  LET ref == Rule(result[w[1]].ref)
                        img == result[w[1]].images[w[2]]
                    IN  IF Required(ref, w[3]) THEN KeySecret(ref, w[3]) # None /\ img.key \in held[KeySecret(ref, w[3])] \ {None}
                        ELSE img.key = ""
  BY Zenon DEF VerificationKept, ForEveryFound
<1> DEFINE name == w[1]
           im == w[3]
           r == result[name].ref
           img == result[name].images[w[2]]
           v == Merged(conf, App(name), r, im)
<1>1. name \in DOMAIN result /\ w[2] \in DOMAIN result[name].images /\ im \in ConfiguredImages(App(name), Rule(r))
  BY DEF Found
<1>2. GoodKey(v, held, img.key)
  BY Zenon, <1>1, FoundByAlias DEF FoundAs
<1>3. (Required(Rule(r), im) <=> Needed(v)) /\ KeySecret(Rule(r), im) = v.cosignKey
  BY Zenon, VerificationMerged
<1> HIDE DEF v
<1> QED BY Zenon, <1>2, <1>3 DEF GoodKey

\* However the secrets change while the pass runs, an image that some level
\* wants verified is found with a key of the innermost secret or not at all.
THEOREM VerificationIsKept == Spec => []VerificationKept
<1>1. Basics /\ PassInv => VerificationKept
  BY VerificationHolds
<1> QED BY <1>1, PassInvariant, PTL

\* The write-back configuration of a rule is made from the innermost blocks.
LEMMA WriteBackMerged ==
  ASSUME NEW app, NEW r, NEW f \in DOMAIN NoWriteBack
  PROVE  Effective(conf, app, r).writeBack[f] = Innermost(WriteBackBlocks(app, Rule(r)), f)
<1> DEFINE ref == conf.cr.refs[r]
           own == getWriteBackConfigFromAnnotations(app)
<1>1. CASE ref.useAnnotations
  <2>1. Effective(conf, app, r).writeBack = own
    BY Zenon, <1>1 DEF Effective, EffectiveRule
  <2>2. WriteBackBlocks(app, Rule(r)) = <<own>>
    BY <1>1 DEF WriteBackBlocks, Rule
  <2> HIDE DEF own
  <2>3. Innermost(WriteBackBlocks(app, Rule(r)), f) = own[f]
    BY Zenon, <2>2, OneLevel
  <2> QED BY Zenon, <2>1, <2>3
<1>2. CASE ~ref.useAnnotations
  <2>1. Effective(conf, app, r).writeBack = mergeWBCSettings(conf.cr.writeBack, ref.writeBack)
    BY Zenon, <1>2 DEF Effective, EffectiveRule
  <2>2. WriteBackBlocks(app, Rule(r)) = <<conf.cr.writeBack, ref.writeBack>>
    BY <1>2 DEF WriteBackBlocks, Rule
  <2>3. Innermost(WriteBackBlocks(app, Rule(r)), f) = Else(ref.writeBack[f], conf.cr.writeBack[f])
    BY Zenon, <2>2, TwoLevels
  <2>4. mergeWBCSettings(conf.cr.writeBack, ref.writeBack)[f] = Else(ref.writeBack[f], conf.cr.writeBack[f])
    BY Zenon DEF mergeWBCSettings
  <2> QED BY Zenon, <2>1, <2>3, <2>4
<1> QED BY Zenon, <1>1, <1>2

\* A merged pull request block has a finite set of providers.
LEMMA FiniteProviders ==
  ASSUME conf \in Configurations, NEW app, NEW r \in DOMAIN conf.cr.refs,
         Effective(conf, app, r).writeBack["pullRequest"] # None
  PROVE  IsFiniteSet(Effective(conf, app, r).writeBack["pullRequest"].providers)
<1> DEFINE ref == conf.cr.refs[r]
           pr == Effective(conf, app, r).writeBack["pullRequest"]
<1>1. HasProviders(conf.cr.writeBack) /\ HasProviders(ref.writeBack)
  BY Zenon, ConfigurationsAssumption DEF WellFormed, WellFormedRule
<1>2. "pullRequest" \in DOMAIN NoWriteBack
  BY Zenon DEF NoWriteBack
<1>3. CASE ref.useAnnotations
  <2>1. Effective(conf, app, r).writeBack = getWriteBackConfigFromAnnotations(app)
    BY Zenon, <1>3 DEF Effective, EffectiveRule
  <2>2. getWriteBackConfigFromAnnotations(app)["pullRequest"] = None
    BY Zenon, <1>2 DEF getWriteBackConfigFromAnnotations
  <2> QED BY Zenon, <2>1, <2>2
<1>4. CASE ~ref.useAnnotations
  <2>1. Effective(conf, app, r).writeBack = mergeWBCSettings(conf.cr.writeBack, ref.writeBack)
    BY Zenon, <1>4 DEF Effective, EffectiveRule
  <2>2. mergeWBCSettings(conf.cr.writeBack, ref.writeBack)["pullRequest"]
          = Else(ref.writeBack["pullRequest"], conf.cr.writeBack["pullRequest"])
    BY Zenon, <1>2 DEF mergeWBCSettings
  <2> QED BY Zenon, <1>1, <2>1, <2>2 DEF HasProviders, Else
<1> QED BY Zenon, <1>3, <1>4

\* newWBCFromSettings accepts a pull request with one provider and without a
\* write branch, for a Git write-back only.
LEMMA ProviderOfSettings ==
  ASSUME NEW app, NEW settings, newWBCFromSettings(app, settings) # None,
         settings.pullRequest # None => IsFiniteSet(settings.pullRequest.providers)
  PROVE  LET wbc == newWBCFromSettings(app, settings)
         IN  IF wbc.method = "git" /\ settings.pullRequest # None
             THEN settings.pullRequest.providers = {wbc.provider} /\ wbc.writeBranch = None
             ELSE wbc.provider = None
<1> DEFINE wbc == newWBCFromSettings(app, settings)
           target == WriteBackTarget(settings.target)
           git == parseGitConfig(app, settings, [method |-> "git", target |-> target])
           pr == settings.pullRequest
           labels == IF pr = None THEN <<>> ELSE sanitizePRLabels(pr.labels)
           provider == IF pr = None THEN None ELSE CHOOSE p \in pr.providers : TRUE
<1>1. \/ wbc = ArgoCDOnly
      \/ /\ ~InvalidPullRequest(settings)
         /\ wbc = [method |-> "git", target |-> target,
                   branch |-> git.branch, writeBranch |-> git.writeBranch, repo |-> git.repo, creds |-> git.creds,
                   provider |-> provider, labels |-> labels]
  BY Zenon DEF newWBCFromSettings
<1>2. CASE wbc = ArgoCDOnly
  <2> HIDE DEF wbc
  <2>1. wbc.method = "argocd" /\ wbc.provider = None
    BY <1>2 DEF ArgoCDOnly
  <2> QED BY <2>1 DEF wbc
<1>3. CASE /\ ~InvalidPullRequest(settings)
           /\ wbc = [method |-> "git", target |-> target,
                     branch |-> git.branch, writeBranch |-> git.writeBranch, repo |-> git.repo, creds |-> git.creds,
                     provider |-> provider, labels |-> labels]
  <2>1. git.writeBranch = IF settings.branch # None /\ Len(settings.branch) = 2 THEN settings.branch[2] ELSE None
    BY Zenon DEF parseGitConfig
  <2> HIDE DEF wbc, git, target, labels, provider
  <2>2. wbc.method = "git" /\ wbc.provider = provider /\ wbc.writeBranch = git.writeBranch
    BY Zenon, <1>3
  <2>3. CASE pr = None
    <3>1. wbc.provider = None
      BY SMTT(30), <2>2, <2>3 DEF provider
    <3> QED BY Zenon, <2>3, <3>1 DEF wbc
  <2>4. CASE pr # None
    <3>1. ~(settings.branch # None /\ Len(settings.branch) > 1) /\ Cardinality(pr.providers) = 1
      BY Zenon, <1>3, <2>4 DEF InvalidPullRequest
    <3>2. wbc.writeBranch = None
      BY <2>1, <2>2, <3>1
    <3>3. PICK x : pr.providers = {x}
      BY Zenon, <2>4, <3>1, FS_Singleton
    <3>4. provider = x
      BY SMTT(30), <2>4, <3>3 DEF provider
    <3>5. pr.providers = {wbc.provider}
      BY SMTT(30), <2>2, <3>3, <3>4
    <3> QED BY SMTT(30), <2>4, <3>2, <3>5, <2>2 DEF wbc
  <2> QED BY Zenon, <2>3, <2>4
<1> QED BY Zenon, <1>1, <1>2, <1>3

LEMMA ProviderHolds ==
  ASSUME Basics, PassInv
  PROVE  OneProvider
<1> SUFFICES ASSUME NEW name \in DOMAIN result
             PROVE  LET entry == result[name]
                        pr == Innermost(WriteBackBlocks(App(name), Rule(entry.ref)), "pullRequest")
                    IN  IF entry.wbc.method = "git" /\ pr # None
                        THEN pr.providers = {entry.wbc.provider} /\ entry.wbc.writeBranch = None
                        ELSE entry.wbc.provider = None
  BY Zenon DEF OneProvider
<1>1. PICK a \in DOMAIN conf.apps : App(name) = conf.apps[a] /\ EntryOf(conf, held, conf.apps[a], result[name])
  BY Zenon, EntryOfApp
<1> DEFINE r == result[name].ref
           app == App(name)
           settings == Effective(conf, app, r).writeBack
           wbc == newWBCFromSettings(app, settings)
           pr == Innermost(WriteBackBlocks(app, Rule(r)), "pullRequest")
<1>2. r \in DOMAIN conf.cr.refs /\ wbc # None /\ result[name].wbc = wbc
  BY Zenon, <1>1 DEF EntryOf, FirstFit, Fits, Config
<1>3. settings["pullRequest"] = pr
  <2>1. "pullRequest" \in DOMAIN NoWriteBack
    BY DEF NoWriteBack
  <2> QED BY Zenon, <2>1, WriteBackMerged
<1>4. settings["pullRequest"] # None => IsFiniteSet(settings["pullRequest"].providers)
  BY Zenon, <1>2, FiniteProviders DEF Basics
<1> HIDE DEF settings, app, r, pr
<1>5. IF wbc.method = "git" /\ pr # None THEN pr.providers = {wbc.provider} /\ wbc.writeBranch = None ELSE wbc.provider = None
  BY Zenon, <1>2, <1>3, <1>4, ProviderOfSettings
<1> HIDE DEF wbc
<1> QED BY Zenon, <1>2, <1>5 DEF pr, app, r

\* Whatever blocks the resource and the rule have, a Git write-back proposes
\* a pull request through the only provider of the innermost pullRequest
\* block and without a write branch, and there is none otherwise.
THEOREM ProviderIsOne == Spec => []OneProvider
<1>1. Basics /\ PassInv => OneProvider
  BY ProviderHolds
<1> QED BY <1>1, PassInvariant, PTL

\* A score is the rank with the weights of calculateSpecificity.
LEMMA ScoreOfRank ==
  ASSUME NEW ref, WellFormedRule(ref)
  PROVE  /\ Rank(ref)[1] \in 0..1 /\ Rank(ref)[2] \in 0..1 /\ Rank(ref)[3] \in Nat /\ Rank(ref)[4] \in Nat
         /\ calculateSpecificity(ref) =
              1000000 * Rank(ref)[1] + 10000 * Rank(ref)[2] + 100 * Rank(ref)[3] + Rank(ref)[4]
<1>1. ref.pattern.exact \in BOOLEAN /\ ref.pattern.literals \in Nat
  BY SMTT(30) DEF WellFormedRule
<1>2. CASE ref.selector = None
  BY SMTT(30), <1>1, <1>2 DEF Rank, Requirements, calculateSpecificity
<1>3. CASE ref.selector # None
  <2>1. Cardinality(ref.selector.labels) \in Nat /\ Cardinality(ref.selector.expressions) \in Nat
    BY <1>3, FS_CardinalityType DEF WellFormedRule
  <2> QED BY SMTT(30), <1>1, <1>3, <2>1 DEF Rank, Requirements, calculateSpecificity
<1> QED BY SMTT(30), <1>2, <1>3

\* Below 100 literals and requirements the scores order rules by their rank.
LEMMA HigherRankHigherScore ==
  ASSUME NEW a, NEW b, WellFormedRule(a), WellFormedRule(b), Outranks(a, b),
         Requirements(b) < 100, b.pattern.literals < 100
  PROVE  calculateSpecificity(a) > calculateSpecificity(b)
<1> DEFINE ra == Rank(a)
           rb == Rank(b)
<1>1. /\ ra[1] \in 0..1 /\ ra[2] \in 0..1 /\ ra[3] \in Nat /\ ra[4] \in Nat
      /\ calculateSpecificity(a) = 1000000 * ra[1] + 10000 * ra[2] + 100 * ra[3] + ra[4]
  BY SMTT(30), ScoreOfRank
<1>2. /\ rb[1] \in 0..1 /\ rb[2] \in 0..1 /\ rb[3] \in Nat /\ rb[4] \in Nat
      /\ calculateSpecificity(b) = 1000000 * rb[1] + 10000 * rb[2] + 100 * rb[3] + rb[4]
  BY ScoreOfRank
<1>3. rb[3] < 100 /\ rb[4] < 100
  BY DEF Rank
<1>4. PICK k \in 1..4 : ra[k] > rb[k] /\ \A l \in 1..k - 1 : ra[l] = rb[l]
  BY DEF Outranks
<1> HIDE DEF ra, rb
<1>5. CASE k = 1
  BY SMTT(30), <1>1, <1>2, <1>3, <1>4, <1>5
<1>6. CASE k = 2
  BY SMTT(30), <1>1, <1>2, <1>3, <1>4, <1>6
<1>7. CASE k = 3
  BY SMTT(30), <1>1, <1>2, <1>3, <1>4, <1>7
<1>8. CASE k = 4
  BY SMTT(30), <1>1, <1>2, <1>3, <1>4, <1>8
<1> QED BY SMTT(30), <1>5, <1>6, <1>7, <1>8

LEMMA EqualRankEqualScore ==
  ASSUME NEW a, NEW b, WellFormedRule(a), WellFormedRule(b), Rank(a) = Rank(b)
  PROVE  calculateSpecificity(a) = calculateSpecificity(b)
BY SMTT(30), ScoreOfRank

\* So a rule that is meant to go before another does.
LEMMA PrecedesBefore ==
  ASSUME conf \in Configurations, Ordinary, NEW i \in DOMAIN conf.cr.refs, NEW j \in DOMAIN conf.cr.refs, Precedes(i, j)
  PROVE  Before(conf.cr.refs, i, j)
<1>1. WellFormedRule(Rule(i)) /\ WellFormedRule(Rule(j))
  BY Zenon, ConfigurationsAssumption DEF WellFormed, Rule
<1>2. Requirements(Rule(j)) < 100 /\ Rule(j).pattern.literals < 100
  BY Zenon DEF Ordinary
<1>3. CASE Outranks(Rule(i), Rule(j))
  BY Zenon, <1>1, <1>2, <1>3, HigherRankHigherScore DEF Before, Rule
<1>4. CASE Rank(Rule(i)) = Rank(Rule(j)) /\ i < j
  <2>1. calculateSpecificity(Rule(i)) = calculateSpecificity(Rule(j))
    BY Zenon, <1>1, <1>4, EqualRankEqualScore
  <2> QED BY Zenon, <1>4, <2>1 DEF Before, Rule
<1> QED BY Zenon, <1>3, <1>4 DEF Precedes

\* The usable rules.
LEMMA UsableRules ==
  ASSUME NEW app
  PROVE  \A r : r \in Usable(app) <=> r \in DOMAIN conf.cr.refs /\ Fits(conf, app, r)
BY Zenon DEF Usable, Matching, Fits, Config, Effective, WriteBackConfig, Rule

\* The rule that is meant for an application is the first that can be used.
LEMMA MeantRule ==
  ASSUME conf \in Configurations, NEW app, NEW r, FirstFit(conf, app, r), NEW i \in RuleFor(app)
  PROVE  i = r
<1> SUFFICES ASSUME i # r PROVE FALSE
  OBVIOUS
<1>1. Ordinary /\ i \in DOMAIN conf.cr.refs /\ Fits(conf, app, i)
  BY Zenon, UsableRules DEF RuleFor
<1>2. r \in DOMAIN conf.cr.refs /\ Fits(conf, app, r) /\ Before(conf.cr.refs, r, i)
  BY Zenon, <1>1 DEF FirstFit
<1>3. Precedes(i, r)
  BY Zenon, <1>2 DEF RuleFor, Matching, Fits, Rule
<1>4. Before(conf.cr.refs, i, r)
  BY Zenon, <1>1, <1>2, <1>3, PrecedesBefore
<1>5. IsList(conf.cr.refs) /\ \A k \in DOMAIN conf.cr.refs : WellFormedRule(conf.cr.refs[k])
  BY Zenon, ConfigurationsAssumption DEF WellFormed
<1> QED BY Zenon, <1>1, <1>2, <1>4, <1>5, TotalOrder

LEMMA NobodyHolds ==
  ASSUME Basics, PassInv
  PROVE  NobodyForgotten
<1>0. conf \in Configurations
  BY DEF Basics
<1> SUFFICES ASSUME pc = "done", NEW app \in Range(conf.apps)
             PROVE  /\ app.name \in DOMAIN result =>
                         result[app.name].ref \in Usable(app) /\ \A i \in RuleFor(app) : result[app.name].ref = i
                    /\ \A im \in DueImages(app) : MatchesEvent(NewFromIdentifier(im.ref), event) => InResult(app, im)
  BY Zenon DEF NobodyForgotten
<1>1. PICK a \in DOMAIN conf.apps : app = conf.apps[a]
  BY Zenon DEF Range
<1>2. Settled(conf, held, event, app, result)
  <2>1. Through(conf, held, event, result, Len(conf.apps))
    BY Zenon DEF PassInv
  <2>2. a \in 1 .. Len(conf.apps)
    BY Zenon, <1>0, Lengths
  <2> QED BY Zenon, <1>1, <2>1, <2>2 DEF Through
<1>3. CASE app.name \notin DOMAIN result /\ \A r \in DOMAIN conf.cr.refs : ~Fits(conf, app, r)
  <2>1. Usable(app) = {}
    BY Zenon, <1>3, UsableRules
  <2>2. DueImages(app) = {}
    BY Zenon, <2>1 DEF DueImages, RuleFor
  <2> QED BY Zenon, <1>3, <2>2
<1>4. ASSUME NEW r \in DOMAIN conf.cr.refs, FirstFit(conf, app, r),
             app.name \in DOMAIN result => result[app.name].ref = r,
             IsValidApplicationType(app, Config(conf, app, r)) =>
               \A k \in DOMAIN Effective(conf, app, r).images :
                 MustHave(conf, held, event, app, r, Effective(conf, app, r).images[k]) =>
                   /\ app.name \in DOMAIN result
                   /\ \E i \in DOMAIN result[app.name].images :
                        result[app.name].images[i].alias = Effective(conf, app, r).images[k].alias
      PROVE  /\ app.name \in DOMAIN result =>
                  result[app.name].ref \in Usable(app) /\ \A i \in RuleFor(app) : result[app.name].ref = i
             /\ \A im \in DueImages(app) : MatchesEvent(NewFromIdentifier(im.ref), event) => InResult(app, im)
  <2>1. r \in Usable(app) /\ \A i \in RuleFor(app) : i = r
    BY Zenon, <1>0, <1>4, UsableRules, MeantRule DEF FirstFit
  <2> SUFFICES ASSUME NEW im \in DueImages(app), MatchesEvent(NewFromIdentifier(im.ref), event)
               PROVE  InResult(app, im)
    BY Zenon, <1>4, <2>1
  <2>2. WriteBackConfig(app, r) = Config(conf, app, r)
    BY Zenon DEF WriteBackConfig, Config, Effective, Rule
  <2>3. IsValidApplicationType(app, Config(conf, app, r)) /\ im \in ConfiguredImages(app, Rule(r)) /\ Due(Rule(r), im)
    BY Zenon, <2>1, <2>2 DEF DueImages
  <2>4. PICK k \in DOMAIN Effective(conf, app, r).images : im = Effective(conf, app, r).images[k]
    <3> DEFINE list == Effective(conf, app, r).images
    <3> HIDE DEF list
    <3>1. im \in Range(list)
      BY Zenon, <2>3, Configured DEF list
    <3>2. \E k \in DOMAIN list : im = list[k]
      BY Zenon, <3>1 DEF Range
    <3> QED BY Zenon, <3>2 DEF list
  <2>5. Sure(Merged(conf, app, r, im), held)
    BY Zenon, <2>3, VerificationMerged DEF Due, Sure
  <2>6. MustHave(conf, held, event, app, r, im)
    BY Zenon, <2>3, <2>5 DEF Due, MustHave
  <2> QED BY Zenon, <1>4, <2>3, <2>4, <2>6 DEF InResult
<1> QED BY Zenon, <1>2, <1>3, <1>4 DEF Settled

\* For every resource and every list of applications: when the pass is done,
\* each application found has a rule that matches and can be used; if its
\* most specific matching rule can be used it is that one, with fewer than
\* 100 literals and requirements in every rule, and no image of it is missing
\* that nothing but the event could leave out.
THEOREM NobodyIsForgotten == Spec => []NobodyForgotten
<1>1. Basics /\ PassInv => NobodyForgotten
  BY NobodyHolds
<1> QED BY <1>1, PassInvariant, PTL

=============================================================================
