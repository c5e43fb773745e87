---------------------------- MODULE Verification ----------------------------
(***************************************************************************)
(* Signature verification of an image: where cosign signatures are looked  *)
(* for, how each is bound to the digest of the image, and the check with   *)
(* the configured key.                                                     *)
(*                                                                         *)
(* A signature artifact is attached to a manifest as an OCI referrer or    *)
(* stored under one of two tags derived from the manifest's digest.        *)
(***************************************************************************)
EXTENDS Naturals, FiniteSets, Sequences

CONSTANTS Keys, NoDigest

\* at: "referrer", "digest-tag" or "sig-tag"; bundle: whether the artifact
\* type is a sigstore bundle; layer: "bundle", "simple" or "other"; payload:
\* the digest the signed payload names, or NoDigest; signers: who signed it.
Artifact(at, of, layer, payload, signers) ==
  [at |-> at, of |-> of, bundle |-> layer = "bundle", layer |-> layer, payload |-> payload,
   signers |-> signers]

checkDigestBinding(a, digest) == a.payload # NoDigest /\ a.payload = digest

\* One candidate for every signer; an artifact with an unknown layer, without
\* a signature or bound to another digest is skipped with a warning.
extractSigsFromManifest(a, digest) ==
  IF a.layer \in {"bundle", "simple"} /\ checkDigestBinding(a, digest)
  THEN {[payload |-> a.payload, key |-> k] : k \in a.signers}
  ELSE {}

ReferrerSigs(artifacts, digest, down) ==
  UNION {extractSigsFromManifest(a, digest) :
           a \in {a \in artifacts : a.at = "referrer" /\ a.of = digest /\ a.bundle /\ a \notin down}}

fetchSigsFromFallbackTag(artifacts, at, digest, down) ==
  UNION {extractSigsFromManifest(a, digest) :
           a \in {a \in artifacts : a.at = at /\ a.of = digest /\ a \notin down}}

\* The tags are tried when no referrer gave a candidate, the second when the
\* first gave none.
fetchTagSignatures(artifacts, digest, down) ==
  LET referrers == ReferrerSigs(artifacts, digest, down)
      first == fetchSigsFromFallbackTag(artifacts, "digest-tag", digest, down)
  IN  IF referrers # {} THEN referrers
      ELSE IF first # {} THEN first
      ELSE fetchSigsFromFallbackTag(artifacts, "sig-tag", digest, down)

\* A key that cannot be parsed verifies nothing.
verifySignature(sig, key) == key \in Keys /\ sig.key = key

VerifyWithPublicKey(sigs, key) == \E sig \in sigs : verifySignature(sig, key)

\* What verification promises: someone signed this very digest with the key.
SignedBy(artifacts, digest, key) ==
  \E a \in artifacts : key \in a.signers /\ a.payload = digest

=============================================================================
