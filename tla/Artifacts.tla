----------------------------- MODULE Artifacts ------------------------------
(***************************************************************************)
(* References to immutable content and the one path on which they are read:   *)
(* audience, expiry, producer, schema and binding are checked before the store   *)
(* is asked, and what the store answers is the content, never a stand-in.         *)
(* Content stands for its digest.  A reference is [id, digest, credential,          *)
(* producer, verified, schema, binding, visibility, partition, expires].             *)
(***************************************************************************)
EXTENDS Integers, FiniteSets

CONSTANT None

Visibilities == <<"public", "internal", "private", "held-out", "final">>
Audiences == {"author", "evaluator", "report", "asset-staging"}
Restricted == {"held-out", "final"}

-----------------------------------------------------------------------------
(* Access.                                                                      *)

VisibilityRank(v) == CHOOSE i \in DOMAIN Visibilities : Visibilities[i] = v

VisibilityCeiling(audience) == IF audience = "evaluator" THEN "final" ELSE "internal"

\* Visibility and partition are separate axes; "none" means the reference may be read.
WithheldReason(ref, audience) ==
  IF VisibilityRank(ref.visibility) > VisibilityRank(VisibilityCeiling(audience)) THEN "visibility"
  ELSE IF audience # "evaluator" /\ ref.partition \in Restricted THEN "partition" ELSE "none"

\* What an audience is shown of a set; the rest is counted.
PartitionFeedback(refs, audience) ==
  [visible |-> {r \in refs : WithheldReason(r, audience) = "none"},
   withheldVisibility |-> Cardinality({r \in refs : WithheldReason(r, audience) = "visibility"}),
   withheldPartition |-> Cardinality({r \in refs : WithheldReason(r, audience) = "partition"})]

Available(ref, at) == ref.expires = None \/ at < ref.expires

-----------------------------------------------------------------------------
(* Identity and binding.  An expectation is [schema, binding]; without a binding it     *)
(* is of a source that may precede every attempt.                                       *)

AttributedProducer(ref) == ref.producer # "human" \/ ref.verified

CheckBinding(ref, expected) == expected.binding # None => ref.binding = expected.binding

Expected(ref, expectation) ==
  /\ AttributedProducer(ref)
  /\ ref.schema = expectation.schema
  /\ CheckBinding(ref, expectation)

-----------------------------------------------------------------------------
(* The store: blobs maps an id to the digest it is bound to, or None.                *)

PutError(blobs, ref, content) ==
  IF ref.credential THEN "PRIVACY_VIOLATION"
  ELSE IF content # ref.digest \/ blobs[ref.id] \notin {None, ref.digest} THEN "ARTIFACT_DIGEST_MISMATCH"
  ELSE None

AfterPut(blobs, ref) == [blobs EXCEPT ![ref.id] = ref.digest]

GetError(blobs, ref) ==
  IF blobs[ref.id] = None THEN "ARTIFACT_UNAVAILABLE"
  ELSE IF blobs[ref.id] # ref.digest THEN "ARTIFACT_BINDING_MISMATCH" ELSE None

\* admitArtifact: producer, schema and binding come before the store.
AdmitError(blobs, ref, content, expectation) ==
  IF Expected(ref, expectation) THEN PutError(blobs, ref, content) ELSE "ARTIFACT_BINDING_MISMATCH"

\* readArtifact; the expectation may be None.
ReadError(blobs, ref, audience, at, expectation) ==
  IF WithheldReason(ref, audience) # "none" THEN "PRIVACY_VIOLATION"
  ELSE IF ~Available(ref, at) THEN "ARTIFACT_UNAVAILABLE"
  ELSE IF expectation # None /\ ~Expected(ref, expectation) THEN "ARTIFACT_BINDING_MISMATCH"
  ELSE GetError(blobs, ref)

-----------------------------------------------------------------------------
(* Consumers: the workspace and the evaluator read bound references, the writer of      *)
(* assets reads material nobody holds out.                                               *)

ConsumerAudience(role) ==
  CASE role = "workspace" -> "author" [] role = "evaluator" -> "evaluator" [] role = "asset" -> "asset-staging"

\* Some reference of the request is refused.
AdmitBoundRefs(blobs, role, refs, at, expectation) ==
  \A r \in refs : ReadError(blobs, r, ConsumerAudience(role), at, expectation) = None

AdmitAssetMaterial(blobs, contents, traces, revoked, at) ==
  /\ revoked = {} /\ contents # {} /\ traces # {}
  /\ \A r \in contents : r.partition \notin Restricted
  /\ \A r \in traces : r.partition = "train"
  /\ \A r \in contents \cup traces : ReadError(blobs, r, ConsumerAudience("asset"), at, None) = None
=============================================================================
