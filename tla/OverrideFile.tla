---------------------------- MODULE OverrideFile ----------------------------
(***************************************************************************)
(* What the updater makes of the file it overrides an application with in  *)
(* Git: the .argocd-source file of Helm parameters, Kustomize images or    *)
(* plugin environment entries, a Helm values file, and a kustomization.    *)
(*                                                                         *)
(* A YAML node is a scalar, a mapping (a sequence of keys and nodes) or a  *)
(* list.  The parameter of an image names a place in a values file by a    *)
(* path of segments, a.b or a[0].b; the same path as one key, dots and     *)
(* all, is a literal key.  Aliases, comments and layout are left out.      *)
(***************************************************************************)
EXTENDS Overrides

CONSTANTS
  Path,          \* Path[p]: the segments of the parameter name p
  Garbled        \* a file that cannot be parsed

Node(kind, value, plain, content) ==
  [kind |-> kind, value |-> value, plain |-> plain, content |-> content]
Scalar(value, plain) == Node("scalar", value, plain, <<>>)
Mapping(entries) == Node("mapping", None, TRUE, entries)
List(items) == Node("list", None, TRUE, items)
Entry(key, node) == [key |-> key, node |-> node]

Segment(key) == [key |-> key, id |-> None]
Element(key, id) == [key |-> key, id |-> id]

\* What a walk meets where a key has to be made, and where it cannot go on.
Created == Node("created", None, TRUE, <<>>)
Bad == Node("bad", None, TRUE, <<>>)

findHelmValuesKey(node, key) == SelectInSeq(node.content, LAMBDA e : e.key = key)

InRange(list, id) == id >= 0 /\ id < Len(list.content)

-----------------------------------------------------------------------------
(* Reading: first along the path, then the literal key.                     *)

Descend(node, seg) ==
  LET i == IF node.kind = "mapping" THEN findHelmValuesKey(node, <<Segment(seg.key)>>) ELSE 0
      child == node.content[i].node
  IN  CASE i = 0 -> Bad
        [] seg.id = None -> IF child.kind = "list" THEN Bad ELSE child
        [] child.kind = "list" /\ InRange(child, seg.id) -> child.content[seg.id + 1]
        [] OTHER -> Bad

Nested(doc, path) == FoldLeft(Descend, doc, path)
IsNested(doc, path) == Nested(doc, path).kind = "scalar"

Literal(doc, path) ==
  LET i == findHelmValuesKey(doc, path) IN IF i = 0 THEN Bad ELSE doc.content[i].node

resolveHelmScalarNode(doc, path) ==
  LET nested == Nested(doc, path) IN IF nested.kind = "scalar" THEN nested ELSE Literal(doc, path)

Readable(doc, path) == resolveHelmScalarNode(doc, path).kind = "scalar"
getHelmValue(doc, path) == resolveHelmScalarNode(doc, path).value

isSafePlainScalar(value) == value.repo # None \/ value.digest # None \/ value.tag \notin Unsafe

\* A scalar that is rewritten keeps its quotes, and gets them when it must.
Leaf(old, value) == Scalar(value, old.plain /\ isSafePlainScalar(value))

-----------------------------------------------------------------------------
(* Writing a value that is to be made, or cannot be patched: the literal    *)
(* key first, then along the path, making what is missing.                  *)

DescendOrCreate(node, seg) ==
  LET i == findHelmValuesKey(node, <<Segment(seg.key)>>)
      child == node.content[i].node
  IN  CASE node.kind \notin {"mapping", "created"} -> Bad
        [] i = 0 -> Created
        [] seg.id # None /\ child.kind # "list" -> Bad
        [] child.kind # "list" -> child
        [] seg.id # None /\ InRange(child, seg.id) -> child.content[seg.id + 1]
        [] OTHER -> Bad

Walk(doc, path) == FoldLeft(LAMBDA ns, seg : Append(ns, DescendOrCreate(Last(ns), seg)), <<doc>>, path)

\* A missing key is made as it is written in the path, with its [id].
Put(node, seg, child) ==
  LET i == findHelmValuesKey(node, <<Segment(seg.key)>>)
      old == node.content[i].node
  IN  CASE i = 0 -> Mapping(Append(node.content, Entry(<<seg>>, child)))
        [] seg.id = None -> [node EXCEPT !.content[i].node = child]
        [] OTHER -> [node EXCEPT !.content[i].node.content[seg.id + 1] = child]

SetNested(doc, path, value) ==
  LET nodes == Walk(doc, path)
  IN  FoldRight(LAMBDA i, child : Put(nodes[i], path[i], child), [i \in DOMAIN path |-> i],
                Leaf(Last(nodes), value))

SetLiteral(doc, path, value) ==
  [doc EXCEPT !.content[findHelmValuesKey(doc, path)].node = Leaf(@, value)]

\* A literal key that is no scalar keeps its content: only its value is set.
setHelmValue(doc, path, value) ==
  CASE doc.kind # "mapping" -> Bad
    [] findHelmValuesKey(doc, path) # 0 ->
         IF Literal(doc, path).kind = "scalar" THEN SetLiteral(doc, path, value) ELSE doc
    [] Last(Walk(doc, path)).kind \in {"scalar", "created"} -> SetNested(doc, path, value)
    [] OTHER -> Bad

-----------------------------------------------------------------------------
(* Patching in place: every write meets a plain scalar.                     *)

Patchable(doc, w) ==
  LET node == resolveHelmScalarNode(doc, Path[w.param])
  IN  node.kind = "scalar" /\ node.plain /\ isSafePlainScalar(w.value)

patchScalarValue(doc, path, value) ==
  IF IsNested(doc, path) THEN SetNested(doc, path, value)
  ELSE SetLiteral(doc, path, value)

\* Bad when the file is left alone because a key has another type.
applyHelmValueWrites(doc, writes) ==
  IF doc.content # <<>> /\ \A w \in ToSet(writes) : Patchable(doc, w)
  THEN FoldLeft(LAMBDA d, w : patchScalarValue(d, Path[w.param], w.value), doc, writes)
  ELSE FoldLeft(LAMBDA d, w : IF d = Bad THEN Bad ELSE setHelmValue(d, Path[w.param], w.value), doc, writes)

\* The writes of one image: its tag, unless that is empty, then its name.  A
\* name in the long form becomes short where the file has the short form.
HelmValueWrites(doc, params, img, current) ==
  LET set(p) == IF params = None THEN None ELSE params[p]
      version == Or(set(HelmTag(img)), GetTagWithDigest(current))
      name == IF img.helmSpec # None THEN img.helmSpec ELSE HelmName(img)
      full == Or(set(name), GetFullNameWithoutTag(current))
      short == /\ set(name) # None /\ full.reg # None
               /\ Readable(doc, Path[name]) /\ getHelmValue(doc, Path[name]).reg = None
      Write(p, v) == [param |-> p, value |-> v]
  IN  (IF img.helmSpec # None \/ ~HasTag(version) THEN <<>> ELSE <<Write(HelmTag(img), version)>>)
        \o <<Write(name, IF short THEN [full EXCEPT !.reg = None] ELSE full)>>

WriteValues(doc, params, images, live) ==
  LET present == SelectSeq(images, LAMBDA img : ContainsImage(live, img) # None)
      writes == [i \in DOMAIN present |->
                   HelmValueWrites(doc, params, present[i], ContainsImage(live, present[i]))]
  IN  applyHelmValueWrites(doc, FlattenSeq(writes))

-----------------------------------------------------------------------------
(* The .argocd-source file: only what the images manage is merged into it.  *)

ManagedParams(images) ==
  UNION {IF img.helmSpec # None THEN {img.helmSpec} ELSE {HelmName(img), HelmTag(img)} : img \in ToSet(images)}

TargetEnv(images) ==
  UNION {IF img.pluginSpec # None THEN {img.pluginSpec} ELSE {img.pluginName, img.pluginTag} \ {None} :
           img \in ToSet(images)}

mergeHelmOverride(file, params, managed) ==
  [p \in Params |-> IF p \in managed /\ params[p] # None THEN params[p] ELSE file[p]]

\* No registry is the default one.
sameImageNameAndRegistry(i, j) ==
  i.repo = j.repo /\ (i.reg = j.reg \/ {i.reg, j.reg} = {None, "docker.io"})

\* The alias of an entry is not looked at.
mergeKustomizeOverride(file, images) ==
  LET merge(ks, new) ==
        LET i == SelectInSeq(ks, LAMBDA k : sameImageNameAndRegistry(new.image, k.image))
        IN  CASE i = 0 -> Append(ks, new)
              [] ~HasTag(ks[i].image) \/ (HasTag(new.image) /\ ~Equals(ks[i].image, new.image)) ->
                   ReplaceAt(ks, i, new)
              [] OTHER -> ks
  IN  FoldLeft(merge, file, images)

-----------------------------------------------------------------------------
(* A kustomization: its images, by the name each replaces.                  *)

parseImageOverride(k) ==
  [name |-> IF k.alias # None THEN Value(None, k.alias, None, None) ELSE GetFullNameWithoutTag(k.image),
   newName |-> IF k.alias # None THEN GetFullNameWithoutTag(k.image) ELSE None,
   newTag |-> k.image.tag, digest |-> k.image.digest]

\* An element of the same name is replaced, the others stay.
imageFilter(file, o) ==
  LET i == SelectInSeq(file, LAMBDA e : e.name = o.name)
  IN  IF i = 0 THEN Append(file, o) ELSE ReplaceAt(file, i, o)

imagesFilter(file, images) == FoldLeft(LAMBDA f, k : imageFilter(f, parseImageOverride(k)), file, images)

-----------------------------------------------------------------------------
(* The new content of the file, None for an empty one; file is None when    *)
(* there is none.                                                           *)

Merged(old, new) == IF old \in {None, Garbled} THEN new ELSE old

\* A values file is left alone when it cannot be parsed.
WriteValuesFile(file, params, images, live) ==
  IF file = Garbled THEN Bad ELSE WriteValues(Merged(file, Mapping(<<>>)), params, images, live)

marshalParamsOverride(app, wbc, images, live, file) ==
  LET s == Source(app, wbc)
      type == getApplicationType(app, wbc)
  IN  CASE \E img \in ToSet(images) : hasPluginTarget(img) ->
             IF s.plugin = None THEN None
             ELSE mergeHelmOverride(Merged(file, NoParams), s.plugin, TargetEnv(images))
        [] type = "Kustomize" ->
             IF s.kustomize = None THEN None
             ELSE IF file \in {None, Garbled} THEN s.kustomize ELSE mergeKustomizeOverride(file, s.kustomize)
        [] type = "Helm" /\ wbc.target # "default" -> WriteValuesFile(file, s.helm, images, live)
        [] type = "Helm" ->
             IF s.helm = None THEN None
             ELSE mergeHelmOverride(Merged(file, NoParams), s.helm, ManagedParams(images))
        [] OTHER -> Bad

\* A kustomization must exist, and be one.
writeKustomization(app, wbc, file) ==
  LET images == Source(app, wbc).kustomize
  IN  IF file \in {None, Garbled} THEN Bad ELSE imagesFilter(file, Or(images, <<>>))

NewContent(app, wbc, images, live, file) ==
  IF wbc.target = "kustomization" THEN writeKustomization(app, wbc, file)
  ELSE marshalParamsOverride(app, wbc, images, live, file)

=============================================================================
