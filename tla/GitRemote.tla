----------------------------- MODULE GitRemote -----------------------------
(***************************************************************************)
(* The Git server and the SCM's pull requests, as the write-back sees      *)
(* them.  A branch is the sequence of its commits; `remote' maps every     *)
(* branch that exists to its commits, `prs' is the set of open pull        *)
(* requests.  A commit writes one tag into one slot: the place of an image *)
(* in a write-back target file.  Commits carry their author so that two    *)
(* workers never produce the same commit.                                  *)
(***************************************************************************)
EXTENDS Integers, Sequences, FiniteSets, SequencesExt

VARIABLES remote, prs

\* The branch b exists on the server.
Exists(b) == b \in DOMAIN remote

\* The positions of the commits of h that write slot s.
Writes(h, s) == {k \in DOMAIN h : h[k].slot = s}

\* The tag that the files of history h hold for slot s (0: as installed).
TagAt(h, s) == IF Writes(h, s) = {} THEN 0 ELSE h[Max(Writes(h, s))].tag

\* The server after branch b was made to point at history h.
PointTo(b, h) == [x \in DOMAIN remote \cup {b} |-> IF x = b THEN h ELSE remote[x]]

\* `git push origin b' of local history h made of one commit on top of base:
\* the server takes a plain push only as a fast-forward, a forced one always.
Accepts(b, base, force) == (Exists(b) /\ ~force) => remote[b] = base

\* The head of branch b is the last commit of h.
HeadIs(b, h) == Exists(b) /\ remote[b] = h

\* The commits of branch x that branch y does not have.
Missing(x, y) == ToSet(remote[x]) \ ToSet(remote[y])

\* A pull request can be merged by hand when no slot was written on both sides
\* since they diverged.
Mergeable(pr) ==
  \A c \in Missing(pr.base, pr.head), d \in Missing(pr.head, pr.base) : c.slot # d.slot

\* The commits of pr.head from position n + 1 on are those its base lacks.
AheadFrom(pr, n) ==
  \A k \in DOMAIN remote[pr.head] : (remote[pr.head][k] \in ToSet(remote[pr.base])) <=> k <= n

=============================================================================
