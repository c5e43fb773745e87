--------------------------- MODULE MCController ---------------------------
(***************************************************************************)
(* Small instances of Controller for TLC.                                  *)
(***************************************************************************)
EXTENDS Controller, TLC

\* What users do in the different runs.
AllOps == {"create", "edit", "delete", "hold"}
LifeCycle == {"create", "edit", "delete"}
EditOnly == {"edit"}

OkOnly == {"ok"}
OkOrPartial == {"ok", "partial"}
NoEvents == {}
=============================================================================
