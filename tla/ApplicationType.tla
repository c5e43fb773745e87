--------------------------- MODULE ApplicationType ---------------------------
(***************************************************************************)
(* The type of an Argo CD application, Helm, Kustomize or plugin, and the  *)
(* one of its sources that an update is written to.                        *)
(*                                                                         *)
(* An application source has Helm parameters, Kustomize images and plugin  *)
(* environment entries, each None when it is nil.                          *)
(***************************************************************************)
EXTENDS Naturals, Sequences, Functions

CONSTANT None

EmptySource == [helm |-> None, kustomize |-> None, plugin |-> None]

\* The first element that passes the test.
FirstOr(seq, Test(_), default) == Head(Append(SelectSeq(seq, Test), default))

-----------------------------------------------------------------------------
(* The application: its sources, whether they are a list, whether it uses   *)
(* the source hydrator, and the source types Argo CD found.  wbc has the    *)
(* method, "argocd" or "git", and the target: "default" for .argocd-source, *)
(* "values" for a Helm values file, "kustomization" for a Kustomize base,   *)
(* "file" for any other file.                                               *)

Kinds == <<"Helm", "Kustomize", "Plugin">>
Has(s, kind) == CASE kind = "Helm" -> s.helm # None
                  [] kind = "Kustomize" -> s.kustomize # None
                  [] kind = "Plugin" -> s.plugin # None
                  [] OTHER -> FALSE

getApplicationSourceType(app, wbc) ==
  CASE wbc.target = "kustomization" -> "Kustomize"
    [] wbc.target = "values" -> "Helm"
    [] wbc.target \notin {"kustomization", "values"} /\ app.multi ->
         FirstOr(app.types, LAMBDA t : t \in Range(Kinds), "Directory")
    [] OTHER -> FirstOr(IF app.hydrator THEN Kinds ELSE <<>>, LAMBDA k : Has(app.sources[1], k), app.types[1])

\* A plugin with Git write-back is written as Helm parameters.
getApplicationType(app, wbc) ==
  LET type == getApplicationSourceType(app, wbc)
  IN  CASE type = "Plugin" /\ wbc.method = "git" -> "Helm"
        [] type \in Range(Kinds) -> type
        [] OTHER -> "Unsupported"

\* The position of the source an image is written to: of several, the first that
\* has the type set, the first of that type, the first of any kind, the first.
SourceOfType(app, type) ==
  LET all == [i \in DOMAIN app.sources |-> i]
      explicit(i) == Has(app.sources[i], type)
      detected(i) == Len(app.types) = Len(app.sources) /\ type # "Directory" /\ app.types[i] = type
      supported(i) == \E k \in Range(Kinds) : Has(app.sources[i], k)
  IN  IF ~app.multi THEN 1
      ELSE Head(SelectSeq(all, explicit) \o SelectSeq(all, detected) \o SelectSeq(all, supported) \o <<1>>)

getApplicationSource(app, wbc) == SourceOfType(app, getApplicationSourceType(app, wbc))

Source(app, wbc) == app.sources[getApplicationSource(app, wbc)]

=============================================================================
