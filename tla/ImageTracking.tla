---------------------------- MODULE ImageTracking ----------------------------
(***************************************************************************)
(* What the updater promises about the containers of an application.  Each *)
(* container has one right image: the newest one its update strategy and   *)
(* its constraints allow.  It changes as images are published.  Updaters   *)
(* set images in cycles.  A cycle leaves a container as it found it, or    *)
(* gives it an image that was the right one at some time during this very  *)
(* cycle.  What it finds may be behind: an image that the container was    *)
(* set to a little earlier, which the cycle then sets again.               *)
(*                                                                         *)
(* A registry that does not answer about an image may make a cycle see an  *)
(* older image instead.                                                    *)
(***************************************************************************)
EXTENDS Naturals

CONSTANT Updaters

VARIABLES
  right,       \* right[c]: the image container c should have
  target,      \* target[c]: the image it is set to
  known,       \* known[c]: that image, and earlier ones that a new cycle may still find
  seen         \* seen[u][c]: what the cycle of u may set c to, {} for all c when idle

vars == <<right, target, known, seen>>

Containers == DOMAIN target

Idle == [c \in Containers |-> {}]

Init ==
  /\ seen = [u \in Updaters |-> Idle]
  /\ known = [c \in Containers |-> {target[c]}]

Begin(u) ==
  /\ seen[u] = Idle
  /\ seen' = [seen EXCEPT ![u] = [c \in Containers |-> known[c] \cup {right[c]}]]
  /\ UNCHANGED <<right, target>>

\* An image is published.
Publish ==
  /\ seen' = [u \in Updaters |-> IF seen[u] = Idle THEN Idle
                                 ELSE [c \in Containers |-> seen[u][c] \cup {right'[c]}]]
  /\ UNCHANGED target

Misread(u) ==
  /\ seen[u] # Idle
  /\ \A c \in Containers : seen[u][c] \subseteq seen'[u][c]
  /\ \A v \in Updaters \ {u} : seen'[v] = seen[v]
  /\ UNCHANGED <<right, target>>

\* The end of a cycle: all containers at once, or none.
Commit(u) ==
  /\ seen[u] # Idle
  /\ seen' = [seen EXCEPT ![u] = Idle]
  /\ \A c \in Containers : target'[c] \in seen[u][c] \cup {target[c]}
  /\ UNCHANGED right

\* Someone sets an image by hand.
SetByHand == UNCHANGED <<seen, right>>

\* Earlier images are forgotten sooner or later, and never come back.
Forgets ==
  \A c \in Containers : target'[c] \in known'[c] /\ known'[c] \subseteq known[c] \cup {target'[c]}

Next ==
  /\ SetByHand \/ Publish \/ \E u \in Updaters : Begin(u) \/ Misread(u) \/ Commit(u)
  /\ Forgets

Spec == Init /\ [][Next]_vars

=============================================================================
