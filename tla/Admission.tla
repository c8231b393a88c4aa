----------------------------- MODULE Admission ------------------------------
(***************************************************************************)
(* What an effect must show before a host is called, at its planning and once *)
(* more at its dispatch: an authority derived under the permission root, the     *)
(* task's guarantees negotiated with what the host has evidence for, the budget   *)
(* and usage decision, a live grant that covers the authority, leases of this       *)
(* epoch, and inputs that can still be read.  Time, probes, approvals, revocations   *)
(* and restarts come in between.                                                      *)
(***************************************************************************)
EXTENDS HostFake

CONSTANTS
  Task,        \* [protocol, guarantees, degradations, scope]
  Root,        \* the permission root, a grant of the policy
  Requests,    \* what the children of a grant ask for
  Manifests,   \* what a probe of the host may report
  Policies,    \* [mode, caps, domain, metered]
  Operations,  \* id -> [kind, durable, targets, inputs, request, level]
  Inputs,      \* id -> artifact reference
  Expectation, \* what the attempt expects of a reference it admits
  Delegated,   \* the grant the host port is given
  Approvable,  \* alternatives somebody may approve
  Slots, Ttl, MaxNow, MaxEpoch,
  MaxChanges   \* how often the surroundings change

Rules == INSTANCE Policy
Store == INSTANCE Artifacts
Port == INSTANCE HostPort

IsScope(s) ==
  /\ s = [workspace |-> s.workspace, reads |-> s.reads, writes |-> s.writes, artifacts |-> s.artifacts, domain |-> s.domain]
  /\ s.domain \in {"os-sandbox", "same-user"}

\* What the gates give as reasons.
Reasons ==
  {"GRANT_EXPIRED", "GRANT_REVOKED", "AUTHORITY_DENIED", "BUDGET_NOT_AUTHORIZED", "PROTOCOL_UNSUPPORTED",
   "SCHEMA_INVALID", "PRIVACY_VIOLATION", "ARTIFACT_UNAVAILABLE", "ARTIFACT_BINDING_MISMATCH",
   "missing", "version", "evidence-kind", "coverage"}

\* What decoded documents are: a root that may expire, complete scopes, guarantees that are
\* hard or degradable, inputs that exist, and None is nothing else.
ValidConstants ==
  /\ Root.depth \in Nat /\ Root.epoch \in Nat /\ Root.expires \in Nat \cup {None}
  /\ IsScope(Root.scope) /\ IsScope(Task.scope) /\ \A q \in Requests : IsScope(q.scope)
  /\ \A g \in ToSet(Task.guarantees) : g.mode \in {"hard", "degradable"}
  /\ \A o \in DOMAIN Operations : Operations[o].inputs \subseteq DOMAIN Inputs
  /\ \A r \in DOMAIN Inputs : Inputs[r].id = r
  /\ \A m \in Manifests : \A c \in DOMAIN m.caps : m.caps[c].status # None
  /\ None \notin Nat \cup Reasons

VARIABLES
  now, epoch, revoked, manifest, policy, approvals,
  chain,    \* the grants derived so far, each under the one before it; the first is the root
  grant,    \* the host port's grant
  blobs,    \* artifact id -> digest
  metered,  \* whether the usage of what is settled is complete
  effects,  \* operation -> effect, or None
  claimed,  \* operations whose dispatch is claimed
  changes   \* how often the surroundings changed

vars == <<now, epoch, revoked, manifest, policy, approvals, chain, grant, blobs, metered,
          effects, claimed, changes, fakeVars>>

Init ==
  /\ now = 0 /\ epoch = 1 /\ revoked = 0
  /\ manifest \in Manifests /\ policy \in Policies
  /\ approvals = {} /\ chain = <<Root>> /\ grant = Delegated
  /\ blobs = [r \in DOMAIN Inputs |-> None]
  /\ metered = TRUE
  /\ effects = [o \in DOMAIN Operations |-> None] /\ claimed = {} /\ changes = 0
  /\ FakeInit

-----------------------------------------------------------------------------
(* The admission of an operation, under the grant of its level.                 *)

Parent(o) == chain[Operations[o].level]

AuthorityRefusal(o) ==
  IF Operations[o].level \in DOMAIN chain
  THEN Rules!AuthorityError(Root, Parent(o), Task.scope, Operations[o].request, now, revoked)
  ELSE "AUTHORITY_DENIED"

Authority(o) ==
  IF AuthorityRefusal(o) = None THEN Rules!DeriveAuthority(Root, Parent(o), Task.scope, Operations[o].request) ELSE None

Reserved == {o \in DOMAIN Operations : effects[o] # None /\ effects[o].reservation # None}

\* A reservation the effect owns asks for no other.
DispatchAdmission(o, owns) ==
  Rules!Decide(policy, Authority(o), Rules!NegotiationError(Task, manifest), Rules!Negotiate(Task, manifest, approvals),
         None, ~owns /\ Cardinality(Reserved) >= Slots, metered)

Admits(decision) == decision.disposition \in {"allow", "degrade"}

GrantCovers(o) == GrantIsLive(grant, now) /\ Port!ScopeWithin(Authority(o).scope, grant.scope)

NewEffect(o) ==
  [id |-> o, key |-> <<"send", o>>, kind |-> Operations[o].kind, durable |-> Operations[o].durable,
   targets |-> Operations[o].targets, inputs |-> Operations[o].inputs, epoch |-> epoch,
   grant |-> grant.id, reservation |-> IF Operations[o].kind = "host.cancel" THEN None ELSE o,
   leases |-> IF Operations[o].kind = "host.cancel" THEN {} ELSE {[epoch |-> epoch, expires |-> now + Ttl]},
   deadline |-> now + Ttl]

\* A round plans an operation, or a cancellation of what was claimed is intended.
Plan(o) ==
  /\ effects[o] = None
  /\ IF Operations[o].kind = "host.cancel"
     THEN Operations[o].targets \cap claimed # {} /\ Authority(o) # None
     ELSE Admits(DispatchAdmission(o, FALSE))
  /\ GrantCovers(o)
  /\ effects' = [effects EXCEPT ![o] = NewEffect(o)]
  /\ UNCHANGED <<now, epoch, revoked, manifest, policy, approvals, chain, grant, blobs, metered, claimed, changes, fakeVars>>

LeasesHold(effect) ==
  /\ now < effect.deadline
  /\ \A l \in effect.leases : l.epoch = epoch /\ now < l.expires

\* Defect: a reservation is taken for an admission.
GatedOnce(o) ==
  /\ LeasesHold(effects[o])
  /\ IF effects[o].kind = "host.cancel" THEN Authority(o) # None ELSE o \in Reserved
  /\ VerifyEffect(effects[o], {grant}, now) = None
  /\ \A r \in effects[o].inputs : Store!ReadError(blobs, Inputs[r], "author", now, None) = None

\* The gates of a dispatch, all of them decided again.
Gated(o) ==
  /\ LeasesHold(effects[o])
  /\ IF effects[o].kind = "host.cancel" THEN Authority(o) # None
     ELSE o \in Reserved /\ Admits(DispatchAdmission(o, TRUE))
  /\ VerifyEffect(effects[o], {grant}, now) = None
  /\ GrantCovers(o)
  /\ \A r \in effects[o].inputs : Store!ReadError(blobs, Inputs[r], "author", now, None) = None

Dispatch(o) ==
  /\ effects[o] # None /\ o \notin claimed
  /\ Gated(o)
  /\ claimed' = claimed \cup {o}
  /\ UNCHANGED <<now, epoch, revoked, manifest, policy, approvals, chain, grant, blobs, metered, effects, changes, fakeVars>>

\* What was claimed reaches the host, once, twice or late; a retry of the unknown has a key of its own.
Deliver(o) ==
  /\ o \in claimed
  /\ \E key \in {effects[o].key, <<"again", o>>} :
       /\ key # effects[o].key => effects[o].kind \in Billable /\ o \in DOMAIN last /\ last[o] = "unknown"
       /\ Execute([effects[o] EXCEPT !.key = key], now)
  /\ UNCHANGED <<now, epoch, revoked, manifest, policy, approvals, chain, grant, blobs, metered, effects, claimed, changes>>

Reconcile ==
  /\ ReadBack(claimed) /\ Reconciled(claimed) # {}
  /\ UNCHANGED <<now, epoch, revoked, manifest, policy, approvals, chain, grant, blobs, metered, effects, claimed, changes>>

-----------------------------------------------------------------------------
(* What happens meanwhile.                                                      *)

\* The lead derives a grant for a child, which may derive another one.
Derive(request) ==
  LET parent == chain[Len(chain)]
      given == Rules!DeriveAuthority(Root, parent, Task.scope, request)
  IN /\ Rules!AuthorityError(Root, parent, Task.scope, request, now, revoked) = None
     /\ chain' = Append(chain, [scope |-> given.scope, caps |-> given.caps, nodes |-> given.nodes,
                               depth |-> given.depth, expires |-> given.expires, epoch |-> revoked])
     /\ UNCHANGED <<now, epoch, revoked, manifest, policy, approvals, grant, blobs, metered, effects, claimed, changes, fakeVars>>

PutArtifact(r, content) ==
  /\ Store!AdmitError(blobs, Inputs[r], content, Expectation) = None
  /\ blobs' = Store!AfterPut(blobs, Inputs[r])
  /\ UNCHANGED <<now, epoch, revoked, manifest, policy, approvals, chain, grant, metered, effects, claimed, changes, fakeVars>>

Around ==
  \/ \E m \in Manifests : manifest' = m /\ UNCHANGED <<now, epoch, revoked, approvals, grant, metered>>
  \/ \E a \in Approvable : approvals' = approvals \cup {a} /\ UNCHANGED <<now, epoch, revoked, manifest, grant, metered>>
  \/ now < MaxNow /\ now' = now + 1 /\ UNCHANGED <<epoch, revoked, manifest, approvals, grant, metered>>
  \/ epoch < MaxEpoch /\ epoch' = epoch + 1 /\ UNCHANGED <<now, revoked, manifest, approvals, grant, metered>>
  \/ revoked <= Root.epoch /\ revoked' = revoked + 1 /\ UNCHANGED <<now, epoch, manifest, approvals, grant, metered>>
  \/ grant' = RevokeGrant(grant, revoked) /\ UNCHANGED <<now, epoch, revoked, manifest, approvals, metered>>
  \/ claimed # {} /\ metered' = ~metered /\ UNCHANGED <<now, epoch, revoked, manifest, approvals, grant>>

Meanwhile ==
  /\ changes < MaxChanges /\ changes' = changes + 1
  /\ Around
  /\ UNCHANGED <<policy, chain, blobs, effects, claimed, fakeVars>>

Next ==
  \/ \E o \in DOMAIN Operations : Plan(o) \/ Dispatch(o) \/ Deliver(o)
  \/ Reconcile
  \/ \E q \in Requests : Derive(q)
  \/ \E r \in DOMAIN Inputs : \E c \in {Inputs[r].digest, "other"} : PutArtifact(r, c)
  \/ Meanwhile

Spec == Init /\ [][Next]_vars

-----------------------------------------------------------------------------
(* Properties.                                                                  *)

\* A grant is no more than the one it comes from: resources, capabilities, depth, time, domain.
Narrows(child, parent) ==
  /\ \A f \in {"reads", "writes", "artifacts"} : child.scope[f] \subseteq parent.scope[f]
  /\ child.caps \subseteq parent.caps /\ child.nodes \subseteq parent.nodes
  /\ child.depth < parent.depth
  /\ parent.expires # None => child.expires # None /\ child.expires <= parent.expires
  /\ child.scope.domain = "os-sandbox" => parent.scope.domain = "os-sandbox"

\* What is delegated along a chain never grows.
AuthorityShrinks == \A i, j \in DOMAIN chain : i < j => Narrows(chain[j], chain[i])

\* A message that must last is sent only by a host that is known to deliver it.
Guaranteed(effect) == effect.durable => CapabilityStatus(matrix, "teamMessageDelivery") = "verified"

\* The host runs what was claimed, once whatever is delivered, and nothing it cannot guarantee.
HostRunsOnce ==
  /\ \A o \in DOMAIN runs : o \in claimed /\ runs[o] = 1 /\ Guaranteed(ran[o])
  /\ \A k \in DOMAIN byKey : byKey[k].effect.key = k
  /\ \A o \in DOMAIN last : last[o] # "not-executed" /\ effects[o].kind \in Billable => o \in DOMAIN ran

\* What the host has evidence for at this moment.
Provided(g) ==
  /\ g.cap \in DOMAIN manifest.caps
  /\ manifest.caps[g.cap].status = "verified" /\ manifest.caps[g.cap].version = manifest.version
  /\ g.coverage \subseteq manifest.caps[g.cap].coverage

Substituted(g) ==
  /\ g.mode = "degradable"
  /\ \E d \in Task.degradations :
       d.id \in approvals /\ d.replaces = g.cap /\ \A q \in d.requirements : Provided(q)

\* Nothing is sent on the evidence of its planning: at the claim the guarantees hold, or only
\* evolution misses one and may; the grants live, and what it reads is there.
SentOnEvidence ==
  [][\A o \in claimed' \ claimed : effects[o].kind # "host.cancel" =>
       /\ LET missing == {g \in ToSet(Task.guarantees) : ~Provided(g)}
          IN \/ (policy.metered => metered) /\ \A g \in missing : Substituted(g)
             \/ policy.mode = "optional" /\ \A g \in missing : g.cap \in policy.caps
       /\ (Root.expires # None => now < Root.expires) /\ revoked <= Root.epoch /\ GrantIsLive(grant, now)
       /\ effects[o].epoch = epoch
       /\ \A r \in effects[o].inputs : blobs[r] = Inputs[r].digest /\ Store!Available(Inputs[r], now)]_vars
=============================================================================
