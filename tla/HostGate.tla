------------------------------ MODULE HostGate ------------------------------
(***************************************************************************)
(* What must be true before a host is called: the capabilities its probe      *)
(* verified against those an effect demands, the four associations of an        *)
(* effect (epoch, key, authority, budget), and how what comes back is read.       *)
(* A matrix maps the capabilities a probe reached to their status; a               *)
(* capability it does not name is unknown.                                           *)
(***************************************************************************)
EXTENDS Integers, Sequences, FiniteSets, SequencesExt

CONSTANT None

Verified == {"verified"}
VerifiedOrPartial == {"verified", "partial"}

Matrix(verified, partial, absent) ==
  [c \in verified \cup partial \cup absent |->
     IF c \in verified THEN "verified" ELSE IF c \in partial THEN "partial" ELSE "absent"]

DshCapabilities ==
  Matrix({"nativeSessionBinding", "contextAndResources", "agentPreStep", "toolRequestGate",
          "toolResultObservation", "settledAndIdle", "usageTokens", "teamDelegation",
          "nativeTeamGraphBoard", "teamTaskCas", "teamAuthorityIdentity", "sdkAbort",
          "transcriptRecovery", "projectionOrdering", "sdkChildSessionIsolation"},
         {"teamWaitAndInterrupt"}, {})

PiCapabilities ==
  Matrix({"nativeSessionBinding", "contextAndResources", "toolRequestGate", "sessionCustomEntries",
          "settledAndIdle", "usageTokens", "sdkChildSessionIsolation", "sdkAbort", "transcriptRecovery"},
         {"reasoningHighGuarantee"},
         {"osSandbox", "nativeTeamGraphBoard", "externalEffectReconciliation"})

CapabilityStatus(matrix, c) == IF c \in DOMAIN matrix THEN matrix[c] ELSE "unknown"

-----------------------------------------------------------------------------
(* Demands.                                                                     *)

Demand(c, accepts) == [capability |-> c, accepts |-> accepts]

ReconcileRequirements == {Demand("nativeSessionBinding", Verified), Demand("settledAndIdle", Verified)}

\* A stop demands nothing: that it is not confirmed is for its answer to say.
BaseRequirements(kind) ==
  CASE kind = "host.agent" -> ReconcileRequirements \cup {Demand("contextAndResources", VerifiedOrPartial)}
    [] kind = "host.tool" -> {Demand("toolRequestGate", VerifiedOrPartial)}
    [] kind = "host.delegate" -> {Demand("sdkChildSessionIsolation", VerifiedOrPartial)}
    [] kind = "host.cancel" -> {}
    [] kind \in {"host.activate", "host.reconcile"} -> ReconcileRequirements
    [] kind = "timer.wait" -> {Demand("settledAndIdle", VerifiedOrPartial)}

PayloadRequirements(effect) ==
  IF effect.durable THEN {Demand("teamMessageDelivery", Verified)} ELSE {}

RequiredCapabilities(effect, demands) == BaseRequirements(effect.kind) \cup PayloadRequirements(effect) \cup demands

CancelConfirmationCapability(kind) ==
  CASE kind = "host.tool" -> "toolCancellation"
    [] kind = "host.delegate" -> "parentChildCancellation"
    [] OTHER -> "sdkAbort"

JudgeRequirements(matrix, requirements) ==
  {r \in requirements : CapabilityStatus(matrix, r.capability) \notin r.accepts}

CapabilityGate(matrix, requirements) == JudgeRequirements(matrix, requirements) = {}

-----------------------------------------------------------------------------
(* Verification.                                                                *)

Billable == {"host.agent", "host.tool", "host.delegate"}

GrantIsLive(grant, now) == ~grant.revoked /\ now < grant.expires

VerifyEffect(effect, grants, now) ==
  LET known == {g \in grants : g.id = effect.grant}
      grant == CHOOSE g \in known : TRUE
  IN IF known = {} THEN "AUTHORITY_DENIED"
     ELSE IF ~GrantIsLive(grant, now) THEN IF grant.revoked THEN "GRANT_REVOKED" ELSE "GRANT_EXPIRED"
     ELSE IF effect.epoch < grant.issuedEpoch THEN "AUTHORITY_DENIED"
     ELSE IF effect.kind \in Billable /\ effect.reservation = None THEN "BUDGET_NOT_AUTHORIZED"
     ELSE IF effect.kind = "host.activate" /\ effect.leases = {} THEN "AUTHORITY_DENIED"
     ELSE None

\* Revocation only rises.
RevokeGrant(grant, epoch) ==
  IF grant.revoked /\ epoch <= grant.revocationEpoch THEN grant
  ELSE [grant EXCEPT !.revoked = TRUE,
                     !.revocationEpoch = IF epoch > @ + 1 THEN epoch ELSE @ + 1]

=============================================================================
