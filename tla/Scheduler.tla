------------------------------ MODULE Scheduler ------------------------------
(***************************************************************************)
(* The scheduler over a task graph that is patched while work runs: claims,    *)
(* fenced leases with an expiry, the gates of a dispatch round, the order that   *)
(* keeps a node from being passed over, receipts under a lease and reclaiming.    *)
(*                                                                                  *)
(* The library is pure.  Its caller commits at the revision it read, so a call and   *)
(* the commit of its result are one step, and moves the nodes as the session service  *)
(* does (planRound, evaluateSession).  That caller hands every round empty fairness    *)
(* counters; a caller may also carry them over, as the library is made for:             *)
(* CarriesFairness tells which.  The budget pool may refuse any node here.  A claim     *)
(* and its attempt have one identity, and all attempts belong to one epoch.              *)
(***************************************************************************)
EXTENDS TaskGraph

CONSTANTS
  NodeIds, FirstGraph,
  Patches,           \* the patches callers submit
  Contract,          \* what a patch runs under: authority, contract branches and authorities
  Digests,           \* the artifacts an attempt may produce
  Outcomes,          \* the outcomes evaluation may decide
  Refusals,          \* the sets of nodes the pool may refuse in a round
  CarriesFairness,   \* the caller hands each round the counters the last one returned
  MaxConcurrentAgents, LeaseTtl,
  MaxNow, MaxTokens, MaxStreak   \* bounds: instants, leases, consecutive deferrals

VARIABLES
  graph,     \* the compiled graph, the newest revision
  facts,     \* node states and produced artifacts of the current attempts
  attempts,  \* the ordinal of each node's current attempt, 0 before the first
  sched,     \* claims, lease grants and the next fencing token
  fairness,  \* consecutive deferrals and dispatches of each node
  now,
  work,      \* history: each attempt sent out, with what it was sent out to do
  accepted,  \* history: the leases whose receipts were applied
  passed     \* history: passed[n][m], how often m was dispatched since n has been waiting

vars == <<graph, facts, attempts, sched, fairness, now, work, accepted, passed>>

-----------------------------------------------------------------------------
(* What decoded documents are.                                                *)

\* Every specification a node, an edge or an abandoned branch is ever given.
NodeSpecs == ToSet(FirstGraph.nodes) \cup UNION {ToSet(p.adds) \cup ToSet(p.changes) : p \in Patches}
EdgeSpecs == ToSet(FirstGraph.edges) \cup UNION {ToSet(p.edges) : p \in Patches}
BranchSpecs == ToSet(FirstGraph.abandoned) \cup UNION {ToSet(p.abandoned) : p \in Patches}
Schemas == UNION {ToSet(node.outputs) : node \in NodeSpecs}
Resources == DOMAIN FirstGraph.policy

Graph ==
  [revision : Nat, nodes : Seq(NodeSpecs), edges : Seq(EdgeSpecs), abandoned : Seq(BranchSpecs),
   policy : {FirstGraph.policy}, limits : {FirstGraph.limits}]

States ==
  {"pending", "ready", "waiting", "leased", "running", "verifying", "unknown", "cancelling",
   "succeeded", "failed", "cancelled"}

Claim == NodeIds \X (Nat \ {0})
Modes == {"exclusive", "shared"}
Grant == [resource : Resources, owner : Claim, token : Nat, mode : Modes, expiresAt : Nat]

\* An exclusive resource has one holder at most (ResourcePolicy).
ValidConstants ==
  /\ IsFiniteSet(NodeIds)
  /\ {MaxConcurrentAgents, LeaseTtl, MaxNow, MaxTokens, MaxStreak} \subseteq Nat
  /\ FirstGraph \in Graph
  /\ FirstGraph.policy \in [Resources -> [mode : Modes, maxHolders : Nat]]
  /\ \A r \in Resources : FirstGraph.policy[r].mode = "exclusive" => FirstGraph.policy[r].maxHolders = 1
  /\ \A node \in NodeSpecs :
       /\ node.id \in NodeIds
       /\ {node.exclusive, node.shared} \subseteq Seq(ToSet(node.exclusive) \cup ToSet(node.shared))
       /\ node.outputs \in Seq(Schemas)
  /\ \A p \in Patches :
       /\ p.expectedRevision \in Nat
       /\ {p.adds, p.changes} \subseteq Seq(NodeSpecs) /\ p.removals \subseteq NodeIds
       /\ p.edges \in Seq(EdgeSpecs) /\ p.abandoned \in Seq(BranchSpecs)
  /\ \A o \in Outcomes : o.ok => o.decision \in {"completed", "repair", "failed", "needs-human", "unknown"}
  /\ Nil \notin States \cup NodeIds \cup [grants : SUBSET Grant, nextToken : Nat]

-----------------------------------------------------------------------------
(* Leases and claims.                                                         *)

AttemptOf(n) == IF attempts[n] = 0 THEN 1 ELSE attempts[n]
BindingFor(n) == <<n, AttemptOf(n)>>

LiveGrants(grants) == {g \in grants : g.expiresAt > now}
HoldersOf(grants, r) == {g \in LiveGrants(grants) : g.resource = r}

\* Defect: a resource at its limit still takes a holder.
GrantLeaseAtLimit(table, r, owner) ==
  IF table = Nil \/ Cardinality(HoldersOf(table.grants, r)) > graph.policy[r].maxHolders
  THEN Nil
  ELSE [table EXCEPT
          !.grants = @ \cup {[resource |-> r, owner |-> owner, token |-> table.nextToken,
                             mode |-> graph.policy[r].mode, expiresAt |-> now + LeaseTtl]},
          !.nextToken = @ + 1]

\* One holder more of a resource, or Nil when it is at capacity.
GrantLease(table, r, owner) ==
  IF table = Nil \/ Cardinality(HoldersOf(table.grants, r)) >= graph.policy[r].maxHolders
  THEN Nil
  ELSE [table EXCEPT
          !.grants = @ \cup {[resource |-> r, owner |-> owner, token |-> table.nextToken,
                             mode |-> graph.policy[r].mode, expiresAt |-> now + LeaseTtl]},
          !.nextToken = @ + 1]

\* Every declared resource or none.
Granting(table, declared, owner) ==
  LET held[i \in 0..Len(declared)] ==
        IF i = 0 THEN table ELSE GrantLease(held[i - 1], declared[i], owner)
  IN held

GrantAll(table, declared, owner) == Granting(table, declared, owner)[Len(declared)]

Owned(grants, claim) == {g \in grants : g.owner = claim}

Activity(claim, grants) ==
  IF \E g \in Owned(grants, claim) : g.expiresAt > now THEN "live"
  ELSE IF Owned(grants, claim) = {} THEN "claim-without-lease" ELSE "lease-expired"

ModeConflict(declared, grants) ==
  \E r \in ToSet(declared) : \E g \in HoldersOf(grants, r) : g.mode # graph.policy[r].mode

-----------------------------------------------------------------------------
(* The frontier.                                                              *)

\* Targets of control edges are left out until they have an attempt.
Schedulable(n) ==
  attempts[n] # 0 \/ \A e \in OfTypes(EdgesTo(graph, n), RoutingEdges) : e.from = n

Frontier ==
  {n \in NodesOf(graph) \ AbandonedIn(graph) :
     Schedulable(n) /\ facts.states[n] \notin {"succeeded", "cancelled"}}

Unstarted(n) == facts.states[n] \in {Nil, "pending", "ready"}

HasClaim(n) == \E c \in sched.claims : c[1] = n

DispositionOf(n) ==
  LET state == facts.states[n]
  IN CASE Unstarted(n) /\ HasClaim(n)                     -> "claimed"
       [] Unstarted(n) /\ ~HasClaim(n)                    ->
            LET readiness == Readiness(graph, n, facts).state
            IN IF readiness = "ready" THEN "dispatchable"
               ELSE IF readiness = "failed" THEN "halted" ELSE "waiting"
       [] state \in {"leased", "running", "verifying"}    -> "active"
       [] state = "failed"                                -> "halted"
       [] state \in {"unknown", "cancelling", "waiting"}  -> state

Dispatchable == {n \in Frontier : DispositionOf(n) = "dispatchable"}

\* Claims of nodes in play that hold a live lease.
LiveAttempts(claims, grants) ==
  {c \in claims : /\ c[1] \in Frontier
                  /\ DispositionOf(c[1]) \in {"dispatchable", "claimed", "active"}
                  /\ Activity(c, grants) = "live"}

-----------------------------------------------------------------------------
(* One round.                                                                 *)

Rank(n) == CHOOSE i \in DOMAIN graph.nodes : graph.nodes[i].id = n

\* Defect: who was passed over goes last.
GoesBeforeReversed(n, m) ==
  \/ fairness.streak[n] < fairness.streak[m]
  \/ fairness.streak[n] = fairness.streak[m] /\ Rank(n) < Rank(m)

\* Longest passed over first, then least often dispatched, then in order of declaration.
GoesBefore(n, m) ==
  \/ fairness.streak[n] > fairness.streak[m]
  \/ /\ fairness.streak[n] = fairness.streak[m]
     /\ \/ fairness.dispatches[n] < fairness.dispatches[m]
        \/ fairness.dispatches[n] = fairness.dispatches[m] /\ Rank(n) < Rank(m)

FirstOf(nodes) == CHOOSE n \in nodes : \A m \in nodes \ {n} : GoesBefore(n, m)

Gated(acc, declared) ==
  \/ Cardinality(LiveAttempts(acc.claims, acc.table.grants)) + acc.unleased >= MaxConcurrentAgents
  \/ ModeConflict(declared, acc.table.grants)

\* One node's turn in the round: every gate, then its leases and its claim together.
Turn(acc, n, refused) ==
  LET declared == Declared(Node(graph, n))
      table    == GrantAll(acc.table, declared, BindingFor(n))
  IN IF Gated(acc, declared) \/ table = Nil \/ n \in refused
     THEN [acc EXCEPT !.deferred = @ \cup {n}]
     ELSE [acc EXCEPT !.table = table,
                      !.claims = @ \cup {BindingFor(n)},
                      !.unleased = IF declared = <<>> THEN @ + 1 ELSE @,
                      !.dispatched = @ \cup {n}]

\* Before the first turn.
RoundBegins ==
  [table |-> [grants |-> sched.grants, nextToken |-> sched.nextToken],
   claims |-> sched.claims, unleased |-> 0, dispatched |-> {}, deferred |-> {}]

\* Those whose turn is still to come.
Left(acc) == Dispatchable \ (acc.dispatched \cup acc.deferred)

\* The round after each turn; the frontier is walked in its order.
Turns(refused) ==
  LET after[i \in 0..Cardinality(Dispatchable)] ==
        IF i = 0 THEN RoundBegins
        ELSE LET acc == after[i - 1] IN Turn(acc, FirstOf(Left(acc)), refused)
  IN after

DispatchRound(refused) == Turns(refused)[Cardinality(Dispatchable)]

AdvanceFairness(dispatched, deferred) ==
  [streak |-> [n \in NodeIds |-> IF n \notin Frontier \/ n \in dispatched THEN 0
                                 ELSE IF n \in deferred THEN fairness.streak[n] + 1
                                 ELSE fairness.streak[n]],
   dispatches |-> [n \in NodeIds |-> IF n \notin Frontier THEN 0
                                     ELSE IF n \in dispatched THEN fairness.dispatches[n] + 1
                                     ELSE fairness.dispatches[n]]]

\* What the journal writes of a node that was not dispatched: it wakes, or its gap is recorded.
Noted(n) ==
  LET readiness == Readiness(graph, n, facts).state
  IN IF facts.states[n] = "waiting" /\ readiness = "ready" THEN "pending"
     ELSE IF Unstarted(n) /\ readiness # "ready" THEN readiness
     ELSE facts.states[n]

DataInputs(n) == {e \in OfTypes(graph.edges, {"data"}) : e.to = n}

Sent(n, table) ==
  [binding |-> BindingFor(n), spec |-> Node(graph, n), inputs |-> DataInputs(n),
   leases |-> {g \in table.grants : g.owner = BindingFor(n) /\ g.token >= sched.nextToken}]

\* m takes a turn at the only resource n waits for.
Overtakes(m, n, round, refused) ==
  /\ m \in round.dispatched /\ n \in round.deferred \ refused
  /\ Len(Declared(Node(graph, n))) = 1
  /\ Head(Declared(Node(graph, n))) \in ToSet(Declared(Node(graph, m)))

Round(refused) ==
  LET round == DispatchRound(refused) IN
    /\ sched.nextToken <= MaxTokens
    /\ \A n \in NodeIds : fairness.streak[n] < MaxStreak
    /\ sched' = [claims |-> round.claims, grants |-> round.table.grants,
                 nextToken |-> round.table.nextToken]
    /\ facts' = [facts EXCEPT !.states = [n \in NodeIds |->
                   IF n \in round.dispatched THEN "leased"
                   ELSE IF n \in Frontier THEN Noted(n) ELSE @[n]]]
    /\ attempts' = [n \in NodeIds |->
                      IF facts'.states[n] # Nil THEN AttemptOf(n) ELSE attempts[n]]
    /\ fairness' = IF CarriesFairness THEN AdvanceFairness(round.dispatched, round.deferred) ELSE fairness
    /\ work' = {w \in work : w.binding[1] \notin round.dispatched \/ w.binding # BindingFor(w.binding[1])}
                 \cup {Sent(n, round.table) : n \in round.dispatched}
    /\ passed' = [n \in NodeIds |-> [m \in NodeIds |->
                    IF n \notin round.deferred THEN 0
                    ELSE IF Overtakes(m, n, round, refused) THEN passed[n][m] + 1 ELSE passed[n][m]]]
    /\ UNCHANGED <<graph, now, accepted>>

-----------------------------------------------------------------------------
(* Receipts, decisions, reclaiming and cancellation.                           *)

Released(grants, owner) == {g \in grants : g.owner # owner}

\* Defect: the lease is looked up whether or not it has expired.
ReceiptAppliesLate(lease, binding) ==
  lease \in sched.grants /\ lease.owner = binding /\ binding \in sched.claims

\* A receipt under a lease counts while that very grant is live and its attempt holds the claim.
ReceiptApplies(lease, binding) ==
  lease \in LiveGrants(sched.grants) /\ lease.owner = binding /\ binding \in sched.claims

\* The newest writer of the resource: no later lease was granted on it.
Newest(lease) ==
  lease.mode = "exclusive" =>
    ~\E w \in work : \E g \in w.leases : g.resource = lease.resource /\ g.token > lease.token

Produced(n, digest) ==
  LET outputs == Node(graph, n).outputs
  IN IF Len(outputs) = 1 THEN [node |-> n, schema |-> Head(outputs), digest |-> digest] ELSE Nil

\* A receipt may come at any time, and again: a stale one is archived and changes nothing.
Receive(w, digest) ==
  LET n == w.binding[1] IN
    /\ n \in NodesOf(graph)
    /\ IF w.leases = {}
       THEN w.binding = BindingFor(n) /\ facts.states[n] = "leased" /\ UNCHANGED <<sched, accepted>>
       ELSE \E lease \in w.leases :
              /\ ReceiptApplies(lease, w.binding)
              /\ sched' = [sched EXCEPT !.claims = @ \ {w.binding},
                                        !.grants = Released(@, w.binding)]
              /\ accepted' = Append(accepted, [lease |-> lease, newest |-> Newest(lease)])
    /\ facts' = [facts EXCEPT !.states[n] = "verifying", !.artifacts[n] = Produced(n, digest)]
    /\ UNCHANGED <<graph, attempts, fairness, now, work, passed>>

\* The attempt a repair opens, as long as the target is not in flight and has attempts left.
MayRetry(n, target) ==
  /\ target # n => facts.states[target] \notin MutationLockedStates
  /\ AttemptOf(target) < Node(graph, target).maxAttempts

Evaluate(n, outcome) ==
  LET judged == DecideOutcome(graph, n, outcome)
      woken  == {m \in {judged.enable} \ {Nil, judged.retry} :
                   facts.states[m] \in {Nil, "waiting"}}
  IN /\ n \in NodesOf(graph) /\ facts.states[n] = "verifying"
     /\ judged.retry # Nil => MayRetry(n, judged.retry)
     /\ facts' = [states |-> [m \in NodeIds |->
                                IF m \in woken \cup ({judged.retry} \ {Nil}) THEN "pending"
                                ELSE IF m = n THEN judged.state ELSE facts.states[m]],
                  artifacts |-> [m \in NodeIds |->
                                   IF m = judged.retry THEN Nil ELSE facts.artifacts[m]]]
     /\ attempts' = [m \in NodeIds |-> IF m = judged.retry THEN AttemptOf(m) + 1
                                       ELSE IF m \in woken THEN AttemptOf(m) ELSE attempts[m]]
     /\ UNCHANGED <<graph, sched, fairness, now, work, accepted, passed>>

\* Claims without a live lease are retired; their grants stay as history.
Reclaim ==
  /\ \E c \in sched.claims : Activity(c, sched.grants) # "live"
  /\ sched' = [sched EXCEPT !.claims = {c \in @ : Activity(c, sched.grants) = "live"}]
  /\ UNCHANGED <<graph, facts, attempts, fairness, now, work, accepted, passed>>

\* The journal approves a new attempt of a node whose attempt is over or has no live claim.
NewAttempt(n) ==
  /\ n \in NodesOf(graph) /\ AttemptOf(n) < Node(graph, n).maxAttempts
  /\ \/ facts.states[n] \in {"failed", "unknown"}
     \/ facts.states[n] = "leased" /\ ~\E c \in sched.claims : c[1] = n /\ Activity(c, sched.grants) = "live"
  /\ facts' = [facts EXCEPT !.states[n] = "pending", !.artifacts[n] = Nil]
  /\ attempts' = [attempts EXCEPT ![n] = AttemptOf(n) + 1]
  /\ UNCHANGED <<graph, sched, fairness, now, work, accepted, passed>>

\* A cancellation is confirmed by releasing the leases under one that is still live.
ConfirmCancel(w) ==
  LET n == w.binding[1] IN
    /\ w.binding = BindingFor(n) /\ facts.states[n] = "leased"
    /\ w.leases \cap LiveGrants(sched.grants) # {}
    /\ sched' = [sched EXCEPT !.grants = Released(@, w.binding)]
    /\ facts' = [facts EXCEPT !.states[n] = "cancelled"]
    /\ UNCHANGED <<graph, attempts, fairness, now, work, accepted, passed>>

-----------------------------------------------------------------------------
(* Patches and time.                                                          *)

\* Nodes that produced artifacts, decisions or failures.
Evidence == {n \in NodeIds : \/ facts.artifacts[n] # Nil
                             \/ facts.states[n] \in {"succeeded", "failed", "cancelled"}}

PatchContext ==
  [authority |-> Contract.authority, contractBranches |-> Contract.branches,
   contractAuthorities |-> Contract.authorities, evidence |-> Evidence]

ApplyGraphPatch(p) ==
  /\ PatchApplies(graph, p, Locked(facts.states), PatchContext)
  /\ graph' = Candidate(graph, p)
  /\ UNCHANGED <<facts, attempts, sched, fairness, now, work, accepted, passed>>

Tick ==
  /\ now < MaxNow
  /\ now' = now + 1
  /\ UNCHANGED <<graph, facts, attempts, sched, fairness, work, accepted, passed>>

Init ==
  /\ graph = FirstGraph
  /\ facts = [states |-> [n \in NodeIds |-> Nil], artifacts |-> [n \in NodeIds |-> Nil]]
  /\ attempts = [n \in NodeIds |-> 0]
  /\ sched = [claims |-> {}, grants |-> {}, nextToken |-> 1]
  /\ fairness = [streak |-> [n \in NodeIds |-> 0], dispatches |-> [n \in NodeIds |-> 0]]
  /\ now = 0
  /\ work = {} /\ accepted = <<>>
  /\ passed = [n \in NodeIds |-> [m \in NodeIds |-> 0]]
  /\ Compiles(graph, PatchContext)

Next ==
  \/ \E refused \in Refusals : Round(refused)
  \/ \E w \in work, digest \in Digests : Receive(w, digest)
  \/ \E n \in NodeIds, outcome \in Outcomes : Evaluate(n, outcome)
  \/ Reclaim
  \/ \E n \in NodeIds : NewAttempt(n)
  \/ \E w \in work : ConfirmCancel(w)
  \/ \E p \in Patches : ApplyGraphPatch(p)
  \/ Tick

Spec == Init /\ [][Next]_vars

-----------------------------------------------------------------------------
(* Properties.                                                                *)

\* At any instant the live leases of a resource are within its holders and of its mode, and
\* the attempts that hold one are within the number of concurrent agents - across rounds,
\* expiries, new attempts and patches (grantLease, preGates).
HoldersExclude ==
  /\ \A r \in DOMAIN graph.policy :
       /\ Cardinality(HoldersOf(sched.grants, r)) <= graph.policy[r].maxHolders
       /\ \A g \in HoldersOf(sched.grants, r) : g.mode = graph.policy[r].mode
  /\ Cardinality(LiveAttempts(sched.claims, sched.grants)) <= MaxConcurrentAgents

\* However late or often receipts come, a lease is honoured once, and the work accepted under
\* an exclusive lease is that of the newest writer: nobody was let in before it was applied
\* (applyLeaseReceipt, monotonic fencing tokens).
AcceptedFromNewest ==
  /\ \A i, j \in DOMAIN accepted : accepted[i].lease = accepted[j].lease => i = j
  /\ \A i \in DOMAIN accepted : accepted[i].newest

InFlight(w) ==
  LET n == w.binding[1] IN w.binding = BindingFor(n) /\ facts.states[n] \in MutationLockedStates

\* Whatever revisions are installed meanwhile, an attempt in flight works on the node it was
\* sent out for, and the selection and binding of each of its inputs stand (applyGraphPatch;
\* the producer an input comes from may be exchanged).
WorkMatchesGraph ==
  \A w \in work : InFlight(w) =>
    /\ w.spec \in ToSet(graph.nodes)
    /\ \A e \in w.inputs : \E f \in DataInputs(w.binding[1]) :
         f.id = e.id /\ f.expect = e.expect /\ Bound(f) = Bound(e)

\* What counts is current: receipts and work in flight.
WorkIsCurrent == AcceptedFromNewest /\ WorkMatchesGraph

\* A node that lost the race for its one resource moves to the front: nobody is dispatched
\* twice to that resource while it has been waiting all along (orderFrontier, advanceFairness;
\* types.ts, FairnessState).
PassedOverOnce == \A n, m \in NodeIds : passed[n][m] <= 1

=============================================================================
