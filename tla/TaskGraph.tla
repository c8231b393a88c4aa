------------------------------ MODULE TaskGraph ------------------------------
(***************************************************************************)
(* The task graph as a value: what one revision says of a node, the single     *)
(* judgement (decide) of an outcome and of an upstream that did not succeed,    *)
(* readiness, the acceptance checks, and the patch transaction that installs     *)
(* the next revision whole or not at all.                                        *)
(*                                                                               *)
(* A predicate on an edge is the set of outcomes it matches; a schema, an          *)
(* artifact digest and a tool capability are opaque.  The slots an edge type may   *)
(* carry are checked by the decoder too and are taken as well formed here.         *)
(***************************************************************************)
EXTENDS Integers, Sequences, FiniteSets, SequencesExt, Graphs

CONSTANT Nil

RoutingEdges == {"route", "repair", "fallback"}
BlockingEdges == {"dependency", "data"}
MutationLockedStates == {"leased", "running", "verifying", "unknown", "cancelling"}

-----------------------------------------------------------------------------
(* The index of a compiled graph.                                             *)

NodesOf(g) == {g.nodes[i].id : i \in DOMAIN g.nodes}
Node(g, n) == CHOOSE node \in ToSet(g.nodes) : node.id = n
EdgesFrom(g, n) == SelectSeq(g.edges, LAMBDA e : e.from = n)
EdgesTo(g, n) == SelectSeq(g.edges, LAMBDA e : e.to = n)
AbandonedIn(g) == {g.abandoned[i].node : i \in DOMAIN g.abandoned}
Declared(node) == node.exclusive \o node.shared

OfTypes(edges, types) == {e \in ToSet(edges) : e.type \in types}
HasRealConsumer(g, n) == OfTypes(EdgesFrom(g, n), RoutingEdges \cup BlockingEdges) # {}
HasDeclaredCover(g, n) == OfTypes(EdgesTo(g, n), {"repair", "fallback"}) # {}

-----------------------------------------------------------------------------
(* The judgement of an outcome, rules A1 to A6.                                *)

StateFromDecision(decision) ==
  CASE decision = "completed"            -> "succeeded"
    [] decision \in {"repair", "failed"} -> "failed"
    [] decision = "needs-human"          -> "waiting"
    [] decision = "unknown"              -> "unknown"

Resolved(outcome) == IF outcome.ok THEN StateFromDecision(outcome.decision) ELSE "failed"

\* What the node becomes, the node the graph enables and the node that gets a new attempt.
Judged(rule, state, enabled, retried) ==
  [rule |-> rule, state |-> state, enable |-> enabled, retry |-> retried]

Matching(g, n, type, outcome) ==
  SelectSeq(EdgesFrom(g, n), LAMBDA e : e.type = type /\ outcome \in e.when)

DecideOutcome(g, n, outcome) ==
  LET routes    == Matching(g, n, "route", outcome)
      repairs   == Matching(g, n, "repair", outcome)
      fallbacks == Matching(g, n, "fallback", outcome)
  IN IF Node(g, n).terminal THEN Judged("A1", Resolved(outcome), Nil, Nil)
     ELSE IF routes # <<>> THEN Judged("A2", Resolved(outcome), Head(routes).to, Nil)
     ELSE IF repairs # <<>> THEN Judged("A3", "failed", Head(repairs).to, Head(repairs).to)
     ELSE IF fallbacks # <<>> THEN Judged("A4", "failed", Head(fallbacks).to, Nil)
     ELSE IF OfTypes(EdgesFrom(g, n), RoutingEdges) # {} THEN Judged("A5", "failed", Nil, Nil)
     ELSE Judged("A6", Resolved(outcome), Nil, Nil)

-----------------------------------------------------------------------------
(* The judgement of an upstream that did not succeed, joins and readiness.      *)

UpstreamRule(g, upstream) ==
  IF HasDeclaredCover(g, upstream) THEN "B1"
  ELSE IF upstream \in AbandonedIn(g) THEN "B2" ELSE "B3"

MissingBranches(g, join, states) ==
  {b \in Node(g, join).branches : states[b] # "succeeded"}

JoinStatus(g, join, states) ==
  LET missing == MissingBranches(g, join, states)
  IN IF \E b \in missing : UpstreamRule(g, b) = "B2" THEN "failed"
     ELSE IF missing # {} THEN "waiting" ELSE "verifying"

Ready == [state |-> "ready"]
Failed(reason) == [state |-> "failed", reason |-> reason]
Waiting(gap, on) == [state |-> "waiting", gap |-> gap, on |-> on]

\* Readable: the artifact the producer made is the one the edge selects or is bound to.
Consumable(e, produced) ==
  /\ e.expect # Nil /\ produced # Nil
  /\ produced.schema = e.expect
  /\ e.artifact # Nil => produced.digest = e.artifact.digest

Unmet(g, n, facts) ==
  SelectSeq(EdgesTo(g, n), LAMBDA e :
    /\ e.type \in BlockingEdges
    /\ \/ facts.states[e.from] # "succeeded"
       \/ e.type = "data" /\ ~Consumable(e, facts.artifacts[e.from]))

Readiness(g, n, facts) ==
  LET unmet    == Unmet(g, n, facts)
      unusable == {r \in ToSet(Declared(Node(g, n))) : g.policy[r].maxHolders = 0}
      status   == JoinStatus(g, n, facts.states)
  IN IF Node(g, n).kind = "join"
     THEN CASE status = "failed"    -> Failed("upstream-abandoned")
            [] status = "waiting"   -> Waiting("join-incomplete", n)
            [] status = "verifying" -> Ready
     ELSE IF unmet # <<>>
     THEN LET e == Head(unmet) IN
          IF facts.states[e.from] = "succeeded" THEN Waiting("input-artifact-stale", e.from)
          ELSE IF UpstreamRule(g, e.from) = "B2" THEN Failed("upstream-abandoned")
          ELSE Waiting("upstream-terminal", e.from)
     ELSE IF unusable # {} THEN Waiting("resource-unavailable", CHOOSE r \in unusable : TRUE)
     ELSE Ready

-----------------------------------------------------------------------------
(* The acceptance checks, by their number in the code.                          *)

Distinct(seq) == \A i, j \in DOMAIN seq : seq[i] = seq[j] => i = j

\* 2: ids are unique and everything named exists.
ReferencesResolve(g) ==
  /\ Distinct([i \in DOMAIN g.nodes |-> g.nodes[i].id])
  /\ Distinct([i \in DOMAIN g.edges |-> g.edges[i].id])
  /\ \A e \in ToSet(g.edges) : {e.from, e.to} \subseteq NodesOf(g)
  /\ \A node \in ToSet(g.nodes) : node.branches \cup node.loop \subseteq NodesOf(g)
  /\ AbandonedIn(g) \subseteq NodesOf(g)

Linked(g, types) ==
  [node |-> NodesOf(g),
   edge |-> {<<e.from, e.to>> : e \in OfTypes(g.edges, types)}]

\* The strongly connected components that hold a cycle.
CyclicComponents(digraph) ==
  LET linked == ConnectionsIn(digraph)
  IN {c \in {{m \in digraph.node : linked[n, m] /\ linked[m, n]} : n \in digraph.node} :
        Cardinality(c) > 1 \/ \E n \in c : <<n, n>> \in digraph.edge}

\* 3: dependencies and data together have no cycle.
DependenciesAcyclic(g) == CyclicComponents(Linked(g, BlockingEdges)) = {}

\* 4: a data edge selects exactly one declared output, or is bound to an artifact of its
\* producer that has the expected schema.
DataConsumable(g) ==
  \A e \in OfTypes(g.edges, {"data"}) :
    /\ e.expect # Nil
    /\ IF e.artifact = Nil
       THEN Len(SelectSeq(Node(g, e.from).outputs, LAMBDA s : s = e.expect)) = 1
       ELSE e.artifact.node = e.from /\ e.artifact.schema = e.expect

\* 5: joins, and only they, require branches, never themselves; contract branches exist.
FanInComplete(g, contractBranches) ==
  /\ \A node \in ToSet(g.nodes) :
       IF node.kind = "join" THEN node.branches # {} /\ node.id \notin node.branches
       ELSE node.branches = {}
  /\ contractBranches \subseteq NodesOf(g)

\* 7: every declaration has a policy of its mode.
ResourcesAgree(g) ==
  \A node \in ToSet(g.nodes) :
    /\ ToSet(node.exclusive) \cap ToSet(node.shared) = {}
    /\ \A r \in ToSet(node.exclusive) : r \in DOMAIN g.policy /\ g.policy[r].mode = "exclusive"
    /\ \A r \in ToSet(node.shared) : r \in DOMAIN g.policy /\ g.policy[r].mode = "shared"

\* 8: the graph limits bound nodes and attempts, and every repair or fallback is bounded.
Bounded(g) ==
  /\ Len(g.nodes) <= g.limits.maxNodes
  /\ \A e \in ToSet(g.edges) :
       /\ e.type \in {"repair", "fallback"} => e.maxAttempts # Nil
       /\ e.maxAttempts # Nil => e.maxAttempts <= g.limits.maxAttempts
  /\ \A node \in ToSet(g.nodes) : node.maxAttempts <= g.limits.maxAttempts

\* 9: a control cycle consists of repairs and fallbacks, or lies within declared loops.
Terminates(g) ==
  LET looped == UNION {node.loop \cup {node.id} : node \in {m \in ToSet(g.nodes) : m.loop # {}}}
  IN \A cycle \in CyclicComponents(Linked(g, RoutingEdges)) :
       \/ \A e \in OfTypes(g.edges, {"route"}) : ~({e.from, e.to} \subseteq cycle)
       \/ cycle \subseteq looped

\* 10: a node whose work nobody consumes is declared terminal.
TerminalsDeclared(g) ==
  \A node \in ToSet(g.nodes) : node.terminal \/ HasRealConsumer(g, node.id)

\* 11: a branch is abandoned once and for good, contract branches only by contract authority,
\* and no evidence is removed.
AbandonmentKept(g, removals, prior, ctx) ==
  /\ Distinct([i \in DOMAIN g.abandoned |-> g.abandoned[i].node])
  /\ \A b \in ToSet(g.abandoned) :
       b.node \in ctx.contractBranches => b.authority \in ctx.contractAuthorities
  /\ prior \subseteq AbandonedIn(g)
  /\ removals \cap (ctx.evidence \cup prior) = {}

Valid(g, removals, prior, ctx) ==
  /\ ReferencesResolve(g)
  /\ DependenciesAcyclic(g)
  /\ DataConsumable(g)
  /\ FanInComplete(g, ctx.contractBranches)
  /\ ResourcesAgree(g)
  /\ Bounded(g)
  /\ Terminates(g)
  /\ TerminalsDeclared(g)
  /\ AbandonmentKept(g, removals, prior, ctx)

\* Compilation accepts a graph that has no history yet.
Compiles(g, ctx) == Valid(g, {}, {}, [ctx EXCEPT !.evidence = {}])

-----------------------------------------------------------------------------
(* The patch transaction.                                                      *)

\* 6: the patch runs under a granted authority and stays inside its nodes and capabilities.
AuthorityCovers(authority, p, g) ==
  /\ p.authority \in authority.grants
  /\ authority.nodes # Nil => NodesOf(g) \subseteq authority.nodes
  /\ authority.capabilities # Nil =>
       \A node \in ToSet(p.adds \o p.changes) : node.tools \subseteq authority.capabilities

Locked(states) == {n \in DOMAIN states : states[n] \in MutationLockedStates}

Bound(e) == IF e.artifact = Nil THEN Nil ELSE [schema |-> e.artifact.schema, digest |-> e.artifact.digest]

\* Defect: an input may be bound to another artifact of the same schema.
SchemaChanged(e, previous) == e.type = "data" /\ \E old \in previous : e.expect # old.expect

BindingChanged(e, previous) ==
  /\ e.type = "data"
  /\ IF previous = {} THEN e.artifact # Nil
     ELSE \E old \in previous : e.expect # old.expect \/ Bound(e) # Bound(old)

SameId(edges, e) == {other \in ToSet(edges) : other.id = e.id}

\* The nodes in flight and their data inputs stay as they are.
KeepsWorkInFlight(g, p, locked) ==
  /\ {p.changes[i].id : i \in DOMAIN p.changes} \cap locked = {}
  /\ p.removals \cap locked = {}
  /\ \A old \in OfTypes(g.edges, {"data"}) : old.to \in locked =>
       \E e \in SameId(p.edges, old) : e.type = "data" /\ e.to = old.to /\ ~BindingChanged(e, {old})
  /\ \A e \in ToSet(p.edges) : e.to \in locked => ~BindingChanged(e, SameId(g.edges, e))

NamesWhatExists(g, p) ==
  LET kept == NodesOf(g) \ p.removals IN
    /\ p.removals \subseteq NodesOf(g)
    /\ \A node \in ToSet(p.changes) : node.id \in kept
    /\ \A node \in ToSet(p.adds) : node.id \notin kept
    /\ kept # {} \/ p.adds # <<>>

Changed(node, changes) ==
  LET by == {i \in DOMAIN changes : changes[i].id = node.id}
  IN IF by = {} THEN node ELSE changes[Max(by)]

KeptNodes(g, p) ==
  FlattenSeq([i \in DOMAIN g.nodes |->
                IF g.nodes[i].id \in p.removals THEN <<>> ELSE <<Changed(g.nodes[i], p.changes)>>])

\* The next revision: the patch names all of its edges, policy and limits are those of the graph.
Candidate(g, p) ==
  [g EXCEPT !.revision = p.expectedRevision + 1,
            !.nodes = KeptNodes(g, p) \o p.adds,
            !.edges = p.edges,
            !.abandoned = p.abandoned]

PatchApplies(g, p, locked, ctx) ==
  /\ p.expectedRevision = g.revision
  /\ KeepsWorkInFlight(g, p, locked)
  /\ NamesWhatExists(g, p)
  /\ Valid(Candidate(g, p), p.removals, AbandonedIn(g), ctx)
  /\ AuthorityCovers(ctx.authority, p, Candidate(g, p))
=============================================================================
