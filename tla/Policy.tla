------------------------------- MODULE Policy -------------------------------
(***************************************************************************)
(* The pure part of the policy lane: authority, which is only ever narrowed,  *)
(* the negotiation of a task's guarantees with what a host has evidence for,    *)
(* and the one decision that follows.  A scope is [workspace, reads, writes,      *)
(* artifacts, domain], a grant [scope, caps, nodes, depth, expires, epoch];         *)
(* absent values are None, refusals the code's codes without their prefix.           *)
(***************************************************************************)
EXTENDS Integers, Sequences, FiniteSets, SequencesExt, FiniteSetsExt, Relation

CONSTANT None

-----------------------------------------------------------------------------
(* Authority.                                                                   *)

WeakerTrustDomain(a, b) == IF a = "os-sandbox" /\ b = "os-sandbox" THEN "os-sandbox" ELSE "same-user"

\* root, parent and task: a workspace they do not agree on is none.
IntersectScopes(scopes) ==
  LET all == ToSet(scopes)
      common(field) == {x \in scopes[1][field] : \A s \in all : x \in s[field]}
  IN [workspace |-> IF \A s \in all : s.workspace = scopes[1].workspace THEN scopes[1].workspace ELSE None,
      reads     |-> common("reads"),
      writes    |-> common("writes"),
      artifacts |-> common("artifacts"),
      domain    |-> IF \A s \in all : s.domain = "os-sandbox" THEN "os-sandbox" ELSE "same-user"]

ScopeViolations(asked, ceiling) ==
  {<<"reads", x>> : x \in asked.reads \ ceiling.reads}
    \cup {<<"writes", x>> : x \in asked.writes \ ceiling.writes}
    \cup {<<"artifacts", x>> : x \in asked.artifacts \ ceiling.artifacts}
    \cup {<<"workspace", x>> : x \in {asked.workspace} \ {None, ceiling.workspace}}
    \cup {<<"domain", x>> : x \in {asked.domain} \ {"same-user", ceiling.domain}}

EarliestInstant(a, b) == IF a = None THEN b ELSE IF b = None THEN a ELSE Min({a, b})

\* Defect: a child is held to the root only.
CeilingOfRoot(root, parent, task) == IntersectScopes(<<root.scope, task>>)

Ceiling(root, parent, task) == IntersectScopes(<<root.scope, parent.scope, task>>)

\* A node asks with [node, scope, caps].
AuthorityError(root, parent, task, node, now, revokedEpoch) ==
  LET expires == EarliestInstant(root.expires, parent.expires)
  IN IF expires # None /\ now >= expires THEN "GRANT_EXPIRED"
     ELSE IF revokedEpoch > Max({root.epoch, parent.epoch}) THEN "GRANT_REVOKED"
     ELSE IF \/ parent.depth < 1
             \/ ScopeViolations(node.scope, Ceiling(root, parent, task)) # {}
             \/ ~(node.caps \subseteq root.caps \cap parent.caps)
             \/ node.node \notin root.nodes \cap parent.nodes
     THEN "AUTHORITY_DENIED" ELSE None

\* The effective authority, when there is no error.
DeriveAuthority(root, parent, task, node) ==
  LET ceiling == Ceiling(root, parent, task)
  IN [scope   |-> [node.scope EXCEPT !.workspace = IF @ = None THEN ceiling.workspace ELSE @,
                                     !.domain = WeakerTrustDomain(@, ceiling.domain)],
      caps    |-> node.caps,
      nodes   |-> {node.node},
      depth   |-> Min({root.depth, parent.depth}) - 1,
      expires |-> EarliestInstant(root.expires, parent.expires)]

-----------------------------------------------------------------------------
(* Negotiation.  A task is [protocol, guarantees, degradations]; a guarantee       *)
(* [cap, mode, coverage, kinds, alternatives]; a degradation [id, replaces,          *)
(* requirements, tradeoff, approvable]; a manifest [protocols, version, caps], where    *)
(* caps maps what the host reports to [status, version, model, coverage, kinds].         *)

\* satisfiesRequirement: None, or the reason of the gap.
Gap(r, manifest) ==
  IF r.cap \notin DOMAIN manifest.caps THEN "missing"
  ELSE LET seen == manifest.caps[r.cap]
       IN IF seen.status # "verified" THEN seen.status
          ELSE IF seen.version # manifest.version THEN "version"
          ELSE IF "provider-live" \in r.kinds /\ ~seen.model THEN "evidence-kind"
          ELSE IF ~(r.coverage \subseteq seen.coverage) THEN "coverage"
          ELSE IF ~(r.kinds \subseteq seen.kinds) THEN "evidence-kind" ELSE None

Satisfied(r, manifest) == Gap(r, manifest) = None

\* An alternative whose requirements name alternatives that lead back to it.
NamesAlternativeCycle(task, option) ==
  LET named(o) == UNION {q.alternatives : q \in o.requirements}
      ids == UNION {{o.id} \cup named(o) : o \in task.degradations}
      names == [i, j \in ids |-> \E o \in task.degradations : o.id = i /\ j \in named(o)]
  IN TransitiveClosure(names, ids)[option.id, option.id]

AlternativeMeets(option, original, task, manifest) ==
  /\ option.replaces = original.cap
  /\ option.tradeoff
  /\ \A q \in option.requirements : q.mode = "hard" /\ q.cap # original.cap /\ Satisfied(q, manifest)
  /\ ~NamesAlternativeCycle(task, option)

Viable(r, task, manifest) ==
  {o \in task.degradations : o.id \in r.alternatives /\ AlternativeMeets(o, r, task, manifest)}

NegotiationError(task, manifest) ==
  IF task.protocol \notin manifest.protocols THEN "PROTOCOL_UNSUPPORTED"
  ELSE IF \E i, j \in DOMAIN task.guarantees : i # j /\ task.guarantees[i].cap = task.guarantees[j].cap
  THEN "SCHEMA_INVALID" ELSE None

\* Of the approved alternatives of a guarantee the first is selected.
Negotiate(task, manifest, approvals) ==
  LET failing == {r \in ToSet(task.guarantees) : ~Satisfied(r, manifest)}
      viable(r) == IF r.mode = "hard" THEN {} ELSE Viable(r, task, manifest)
      approved(r) == {o.id : o \in {p \in viable(r) : p.approvable /\ p.id \in approvals}}
  IN [status   |-> IF \E r \in failing : viable(r) = {} THEN "unsupported"
                   ELSE IF \E r \in failing : approved(r) = {} THEN "needs-degradation" ELSE "executable",
      gaps     |-> {[cap |-> r.cap, reason |-> Gap(r, manifest)] : r \in failing},
      selected |-> {Min(approved(r)) : r \in {q \in failing : approved(q) # {}}}]

-----------------------------------------------------------------------------
(* The decision.  A policy is [mode, caps, domain, metered]: whether evolution needs    *)
(* its guarantees, which those are, the trust domain and complete usage required.       *)

Decided(disposition, evolution, reason) == [disposition |-> disposition, evolution |-> evolution, reason |-> reason]

Decide(policy, authority, negotiationError, negotiation, budgetError, exhausted, complete) ==
  IF authority = None THEN Decided("deny", "disabled", "authority")
  ELSE IF negotiationError # None THEN Decided("deny", "disabled", "protocol")
  ELSE IF policy.domain = "os-sandbox" /\ authority.scope.domain # "os-sandbox" THEN Decided("deny", "disabled", "trust-domain")
  ELSE IF negotiation.status = "unsupported"
       THEN IF policy.mode = "optional" /\ \A g \in negotiation.gaps : g.cap \in policy.caps
            THEN Decided("degrade", "disabled", "evolution-guarantee-absent")
            ELSE Decided("deny", "disabled", "capability-unsupported")
  ELSE IF negotiation.status = "needs-degradation"
       THEN Decided("needs-authorization", "enabled", "degradation-approval-required")
  ELSE IF budgetError # None THEN Decided("deny", "enabled", "budget")
  ELSE IF exhausted THEN Decided("deny", "enabled", "budget-exhausted")
  ELSE IF policy.metered /\ ~complete THEN Decided("deny", "enabled", "usage-incomplete")
  ELSE Decided("allow", "enabled", None)
=============================================================================
