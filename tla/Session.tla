------------------------------ MODULE Session ------------------------------
(***************************************************************************)
(* The session service of the runtime: one session whose state is the       *)
(* projection of its journal (project.ts), and the asynchronous operations  *)
(* that advance it.  An operation runs without interruption up to its next  *)
(* await; at an await every other operation, a webhook, the clock or a      *)
(* crash may come in between.  A state captured before an await is only     *)
(* written back if no other commit happened since: the expected revision is *)
(* kept as the flag "fresh" of the operation, cleared by every other commit.*)
(*                                                                          *)
(* The host is honest: it runs a call at most once, it reports a completed  *)
(* or failed execution only of a call it ran, and it declares a call not    *)
(* executed only when it will never run it.                                 *)
(***************************************************************************)
EXTENDS Budget, SequencesExt

CONSTANTS
  NodeOrder,            \* the nodes of the graph in the order of its specification
  Graphs,               \* the compiled graphs: their edges and their terminal nodes
  Writers,              \* the nodes that declare the one exclusive resource
  MaxAttempts,          \* termination.maxAttempts of every node
  MaxConcurrentAgents,
  PoolPolicy,           \* the budget policy of the session
  RequireCompleteUsage, \* of the risk policy
  UsageRows,            \* the metering an execution's receipt may carry, without its request
  Threads,              \* bound: the operations that may be in flight together
  Commands,             \* the operations callers and the environment use
  MaxEffects,           \* bound: the effects a session intends
  MaxEpoch              \* bound: the epochs callers resume into

VARIABLES s, graph, threads, running, host, expired

vars == <<s, graph, threads, running, host, expired>>

Nodes == {NodeOrder[i] : i \in DOMAIN NodeOrder}
Attempts == 1..MaxAttempts
Effects == 1..MaxEffects
Refs == Nodes \X Attempts \X (1..MaxEpoch)

RoutingEdges == {"route", "repair", "fallback"}
Edge == [from : Nodes, to : Nodes, type : RoutingEdges \cup {"dependency"}]

NodeStates == {"pending", "ready", "leased", "running", "verifying", "waiting", "succeeded",
               "failed", "unknown", "cancelling", "cancelled"}

Statuses == {"completed", "failed", "cancelled", "not-executed", "unknown"}

ASSUME SessionAssumption ==
  /\ MaxAttempts \in Nat \ {0} /\ MaxEffects \in Nat \ {0} /\ MaxEpoch \in Nat \ {0}
  /\ MaxConcurrentAgents \in Nat
  /\ RequestIds = Refs
  /\ PoolPolicy \in Policy /\ CanOpen(PoolPolicy)
  /\ Graphs \subseteq [edges : SUBSET Edge, terminal : SUBSET Nodes]
  /\ Writers \subseteq Nodes
  /\ RequireCompleteUsage \in BOOLEAN
  /\ UsageRows \subseteq [complete : BOOLEAN, micros : Micros \cup {None}]
  /\ NodeOrder \in Seq(Nodes)
  /\ \A i, j \in DOMAIN NodeOrder : NodeOrder[i] = NodeOrder[j] => i = j
  /\ Micros \subseteq Nat /\ PoolPolicy.reservePerRequest \in Micros
  /\ None \notin Nodes \cup Threads \cup Edge \cup NodeStates \cup Statuses \cup UsageRows

Effect ==
  [kind : {"task", "host.cancel"}, node : Nodes, attempt : Attempts, epoch : 1..MaxEpoch,
   leased : BOOLEAN, targets : SUBSET Effects,
   entry : {"intended", "dispatched", "unknown", "resolved"}, status : Statuses \cup {None}]

\* attempts[n] = 0: no transition of n was journalled yet.
RuntimeState ==
  [epoch : 1..MaxEpoch, dispatchMode : {"active", "paused", "cancelling", "cancelled"},
   attempts : [Nodes -> {0} \cup Attempts],
   nodeStates : [Nodes \X Attempts -> NodeStates \cup {None}],
   effects : Seq(Effect), budget : Ledger, usage : SUBSET Usage,
   blocked : BOOLEAN, fault : {"none", "chain", "budget"}]

Thread ==
  [pc : {"idle", "observing", "observed", "sending", "calling", "executing", "reconciling",
         "evaluating"},
   fresh : BOOLEAN, controlOnly : BOOLEAN, queue : Seq(Effects),
   targets : SUBSET Effects]

Idle == [pc |-> "idle", fresh |-> FALSE, controlOnly |-> FALSE, queue |-> <<>>, targets |-> {}]

-----------------------------------------------------------------------------
(* The projection.                                                           *)

CurrentAttempt(st, n) == IF st.attempts[n] = 0 THEN 1 ELSE st.attempts[n]

NodeStateAt(st, n) == st.nodeStates[<<n, CurrentAttempt(st, n)>>]

\* A reservation is named after the attempt and the epoch it is made in.
ReservationRef(f) == <<f.node, f.attempt, f.epoch>>

EffectsOf(st) == DOMAIN st.effects
Unresolved(st) == {e \in EffectsOf(st) : st.effects[e].entry # "resolved"}
TasksIn(st, E) == {e \in E : st.effects[e].kind = "task"}

\* The effects a host must be asked about.
UnknownEffectIds(st) == {e \in EffectsOf(st) : st.effects[e].entry \in {"dispatched", "unknown"}}

\* The effects a dispatcher may send, in journal order.
NextEffects(st) ==
  FlattenSeq([e \in EffectsOf(st) |->
                IF st.effects[e].entry = "intended" /\ st.effects[e].epoch = st.epoch THEN <<e>> ELSE <<>>])

Move(n, a, before, after) ==
  [type |-> "node.transition", node |-> n, attempt |-> a, before |-> before, after |-> after]
Intended(f) == [type |-> "effect.intended", effect |-> f]
Dispatched(e) == [type |-> "effect.dispatched", effect |-> e]
Applied(e, status, row) ==
  [type |-> "receipt.applied", effect |-> e, status |-> status, row |-> row]
Mode(m) == [type |-> "mode", mode |-> m]
EpochChanged(epoch) == [type |-> "session.epoch-changed", epoch |-> epoch]

\* What a host measured of effect f, as a usage row of its reservation.
RowOf(f, row) == [requestId |-> ReservationRef(f), complete |-> row.complete, counted |-> TRUE,
                  coherent |-> TRUE, sourced |-> TRUE, micros |-> row.micros]

Withdrawn(f, status) == f.kind = "task" /\ status = "not-executed"

\* not-executed proves the reservation unspent; a cancellation does not.
ReducedBudget(l, f, status, row) ==
  IF Withdrawn(f, status) THEN AfterRelease(l, ReservationRef(f), l.reservePerRequest)
  ELSE IF row # None THEN AfterSettle(l, RowOf(f, row)) ELSE l

UsageIssue(l, f, status, row) ==
  IF Withdrawn(f, status) THEN ReleaseError(l, ReservationRef(f), l.reservePerRequest)
  ELSE IF row # None THEN SettleError(l, RowOf(f, row)) ELSE None

\* A transition of a node the journal knows must start from the state it is in.
Chained(st, ev) == st.nodeStates[<<ev.node, ev.attempt>>] \in {None, ev.before}

\* reduce: the projection after one more event.  fault says that the store refuses the batch
\* (chain) or that no reader will accept it (budget).
Reduce(st, ev) ==
  CASE ev.type = "node.transition" ->
         [st EXCEPT !.nodeStates[<<ev.node, ev.attempt>>] = ev.after,
                    !.attempts[ev.node] = IF @ > ev.attempt THEN @ ELSE ev.attempt,
                    !.fault = IF Chained(st, ev) THEN @ ELSE "chain"]
    [] ev.type = "effect.intended" /\ ev.effect.kind = "task" ->
         [st EXCEPT !.effects = Append(@, ev.effect),
                    !.budget = AfterReserve(@, ReservationRef(ev.effect)),
                    !.fault = IF ReserveRefused(st.budget, ReservationRef(ev.effect))
                              THEN "budget" ELSE @]
    [] ev.type = "effect.intended" /\ ev.effect.kind # "task" ->
         [st EXCEPT !.effects = Append(@, ev.effect)]
    [] ev.type = "effect.dispatched" ->
         [st EXCEPT !.effects[ev.effect].entry = "dispatched"]
    [] ev.type = "receipt.applied" ->
         LET f == st.effects[ev.effect]
         IN [st EXCEPT
               !.effects[ev.effect].entry =
                  IF ev.status = "unknown" THEN "unknown" ELSE "resolved",
               !.effects[ev.effect].status = IF ev.status = "unknown" THEN None ELSE ev.status,
               !.budget = ReducedBudget(@, f, ev.status, ev.row),
               !.usage = IF ev.row = None THEN @ ELSE @ \cup {RowOf(f, ev.row)},
               !.blocked = @ \/ UsageIssue(st.budget, f, ev.status, ev.row)
                                  \notin {None, "USAGE_INCOMPLETE"}]
    [] ev.type = "mode" -> [st EXCEPT !.dispatchMode = ev.mode]
    [] ev.type = "session.epoch-changed" -> [st EXCEPT !.epoch = ev.epoch]

\* replay: the projection before the first event and after each of them.
History(st, events) ==
  LET h[i \in 0..Len(events)] == IF i = 0 THEN st ELSE Reduce(h[i - 1], events[i])
  IN h

After(st, events) == History(st, events)[Len(events)]

\* The moves of one attempt along a path of states.
Moves(n, a, path) ==
  [i \in 1..(Len(path) - 1) |-> Move(n, a, path[i], path[i + 1])]

-----------------------------------------------------------------------------
(* Admission and the round.                                                  *)

\* The rows of applied receipts, an incomplete one only while no complete one replaced it.
MeteredUsage(st) ==
  {row \in st.usage :
     row.complete \/ ~\E r \in st.usage : r.requestId = row.requestId /\ r.complete}

\* dispatchAdmission for a request that already owns a reservation, or for a new one (None).
Admitted(st, ref) ==
  /\ ~st.blocked
  /\ ref = None => ~Exhausted(st.budget)
  /\ RequireCompleteUsage =>
       UsageComplete(MeteredUsage(st),
                     (SettledIds(st.budget) \cup ReservedIds(st.budget)) \ {ref})

Live(st, e) == st.effects[e].leased /\ e \notin expired

WriterHeld(st) == \E e \in TasksIn(st, Unresolved(st)) : Live(st, e)

\* An unresolved effect is the claim of its node.
Claimed(st, n) == \E e \in TasksIn(st, Unresolved(st)) : st.effects[e].node = n

Ready(st, n) ==
  \A d \in graph.edges :
    d.type = "dependency" /\ d.to = n => NodeStateAt(st, d.from) = "succeeded"

\* The target of a control edge is scheduled only once a decision enabled it.
Schedulable(st, n) ==
  \/ st.attempts[n] # 0
  \/ ~\E d \in graph.edges : d.to = n /\ d.from # n /\ d.type \in RoutingEdges

Unstarted(st, n) == Schedulable(st, n) /\ NodeStateAt(st, n) \in {None, "pending", "ready"}

\* Defect: a node that is started may be started again while its effect is unresolved.
DispatchableAgain(st, n) ==
  /\ Schedulable(st, n) /\ Ready(st, n)
  /\ NodeStateAt(st, n) \in {None, "pending", "ready", "leased"}

Dispatchable(st, n) == Unstarted(st, n) /\ Ready(st, n) /\ ~Claimed(st, n)

\* The live claims that count against the cap on concurrent agents.
InFlight(st) ==
  {e \in TasksIn(st, Unresolved(st)) :
     /\ Live(st, e)
     /\ NodeStateAt(st, st.effects[e].node)
          \in {None, "pending", "ready", "leased", "running", "verifying"}}

LeaseFree(st, n, chosen) ==
  n \in Writers => ~WriterHeld(st) /\ ToSet(chosen) \cap Writers = {}

RefOf(st, n) == <<n, CurrentAttempt(st, n), st.epoch>>

\* dispatchRound: in declaration order, a node is dispatched when a slot, its lease and its
\* reservation are to be had after those already dispatched in this round.
RoundAfter(st, round, n) ==
  IF /\ Dispatchable(st, n)
     /\ Cardinality(InFlight(st)) + Len(round.chosen) < MaxConcurrentAgents
     /\ LeaseFree(st, n, round.chosen)
     /\ ~ReserveRefused(round.budget, RefOf(st, n))
  THEN [chosen |-> Append(round.chosen, n), budget |-> AfterReserve(round.budget, RefOf(st, n))]
  ELSE round

\* The round after each node of the declaration order.
Rounds(st) ==
  LET round[i \in 0..Len(NodeOrder)] ==
        IF i = 0 THEN [chosen |-> <<>>, budget |-> st.budget]
        ELSE RoundAfter(st, round[i - 1], NodeOrder[i])
  IN round

Chosen(st) == Rounds(st)[Len(NodeOrder)].chosen

TaskEffect(st, n) ==
  [kind |-> "task", node |-> n, attempt |-> CurrentAttempt(st, n), epoch |-> st.epoch,
   leased |-> n \in Writers, targets |-> {}, entry |-> "intended", status |-> None]

\* A waiting node whose inputs are there wakes; an unstarted one whose inputs are not waits.
Readied(st, n) ==
  LET now == NodeStateAt(st, n)
      moved(after) == <<Move(n, CurrentAttempt(st, n), now, after)>>
  IN CASE Schedulable(st, n) /\ now = "waiting" /\ Ready(st, n) -> moved("pending")
       [] Unstarted(st, n) /\ ~Ready(st, n) -> moved("waiting")
       [] OTHER -> <<>>

Launch(st, n) ==
  LET path == CASE NodeStateAt(st, n) = "ready" -> <<"ready", "leased">>
                [] NodeStateAt(st, n) = "pending" -> <<"pending", "ready", "leased">>
                [] OTHER -> <<NodeStateAt(st, n), "pending", "ready", "leased">>
  IN Moves(n, CurrentAttempt(st, n), path) \o <<Intended(TaskEffect(st, n))>>

EventsFor(f(_), nodes) == FlattenSeq([i \in DOMAIN nodes |-> f(nodes[i])])

PlanRound(st) ==
  IF st.dispatchMode # "active" THEN <<>>
  ELSE EventsFor(LAMBDA n : Readied(st, n), NodeOrder)
       \o EventsFor(LAMBDA n : Launch(st, n), Chosen(st))

\* One node that may not be dispatched stops the whole round.
RoundAdmitted(st) ==
  st.dispatchMode = "active" /\ (\E n \in Nodes : Dispatchable(st, n)) => Admitted(st, None)

-----------------------------------------------------------------------------
(* Receipts.                                                                 *)

\* A receipt of another epoch or attempt, or of an expired lease, is archived.
Stale(st, e) ==
  LET f == st.effects[e]
  IN \/ f.epoch # st.epoch
     \/ f.attempt # CurrentAttempt(st, f.node)
     \/ f.entry # "resolved" /\ f.leased /\ e \in expired

\* Defect: an outcome in doubt accepts no further receipt.
ReceivableOnce(st, e, status, row) == Stale(st, e) \/ st.effects[e].entry = "dispatched"

Receivable(st, e, status, row) ==
  Stale(st, e) \/
    /\ st.effects[e].entry # "intended"
    /\ st.effects[e].entry = "resolved" => status = st.effects[e].status
    /\ UsageIssue(st.budget, st.effects[e], status, row)
         \in {None, "USAGE_INCOMPLETE", "BUDGET_EXHAUSTED"}

\* The states an attempt goes through when its host reports status; only the evaluator
\* grants success, and a withdrawn execution always passes through cancelling.
ReceiptPath(before, status) ==
  CASE status = "unknown" ->
         IF before = "unknown" THEN <<before>> ELSE <<before, "unknown">>
    [] status \in {"cancelled", "not-executed"} ->
         CASE before \in {"pending", "ready", "cancelling"} -> <<before, "cancelled">>
           [] before = "unknown" -> <<before, "verifying", "cancelling", "cancelled">>
           [] OTHER -> <<before, "cancelling", "cancelled">>
    [] status \in {"completed", "failed"} ->
         CASE before = "leased" -> <<before, "running", "verifying">>
           [] before \in {"running", "unknown"} -> <<before, "verifying">>
           [] OTHER -> <<before>>

ReceiptMoves(st, e, status) ==
  LET f == st.effects[e]
  IN Moves(f.node, f.attempt, ReceiptPath(st.nodeStates[<<f.node, f.attempt>>], status))

\* The acknowledged cancellation of each target, then of the session.
Acknowledged(st, targets) ==
  EventsFor(LAMBDA e : IF e \in targets
                       THEN <<Applied(e, "cancelled", None)>> \o ReceiptMoves(st, e, "cancelled")
                       ELSE <<>>,
            [i \in EffectsOf(st) |-> i])
  \o <<Mode("cancelled")>>

ReceiptBatch(st, e, status, row) ==
  LET f == st.effects[e]
      consequence ==
        CASE f.entry = "resolved" -> <<>>
          [] f.entry # "resolved" /\ f.kind = "task" -> ReceiptMoves(st, e, status)
          [] f.entry # "resolved" /\ f.kind # "task" ->
               IF status = "cancelled" THEN Acknowledged(st, f.targets) ELSE <<>>
  IN IF Stale(st, e) THEN <<>> ELSE <<Applied(e, status, row)>> \o consequence

-----------------------------------------------------------------------------
(* Cancellation.                                                             *)

Active(st) == {e \in TasksIn(st, Unresolved(st)) : st.effects[e].entry # "intended"}

\* Defect: every unresolved effect is taken for unsent.
UnusedUnresolved(st) == TasksIn(st, Unresolved(st))

Unused(st) == {e \in TasksIn(st, Unresolved(st)) : st.effects[e].entry = "intended"}

\* What the journal proves unsent is withdrawn without asking the host.
WithdrawUnused(st) ==
  EventsFor(LAMBDA e :
              IF e \in Unused(st)
              THEN LET f == st.effects[e]
                   IN <<Applied(e, "not-executed", None),
                        Move(f.node, f.attempt, st.nodeStates[<<f.node, f.attempt>>], "cancelled")>>
              ELSE <<>>,
            [i \in EffectsOf(st) |-> i])

\* Defect: a leased node is stopped whether its effect was withdrawn or not.
StopNodeLeased(st, n) ==
  LET now == NodeStateAt(st, n)
      path == CASE now \in {None, "pending", "ready", "waiting"} -> <<now, "cancelled">>
                [] now \in {"running", "verifying", "leased"} -> <<now, "cancelling">>
                [] OTHER -> <<now>>
  IN Moves(n, CurrentAttempt(st, n), path)

StopNode(st, n) ==
  LET now == NodeStateAt(st, n)
      active == \E e \in Active(st) : st.effects[e].node = n
      path == CASE now \in {None, "pending", "ready", "waiting"} -> <<now, "cancelled">>
                [] now \in {"running", "verifying"} /\ ~active -> <<now, "cancelling", "cancelled">>
                [] now \in {"running", "verifying", "leased"} /\ active -> <<now, "cancelling">>
                [] OTHER -> <<now>>
  IN Moves(n, CurrentAttempt(st, n), path)

CancelEffect(st) ==
  LET first == st.effects[Min(Active(st))].node
  IN [kind |-> "host.cancel", node |-> first, attempt |-> CurrentAttempt(st, first),
      epoch |-> st.epoch, leased |-> FALSE, targets |-> Active(st), entry |-> "intended",
      status |-> None]

\* Defect: a session with executions in flight is confirmed as cancelled.
CancelBatchConfirmed(st) ==
  <<Mode("cancelling")>> \o WithdrawUnused(st)
  \o EventsFor(LAMBDA n : StopNode(st, n), NodeOrder) \o <<Mode("cancelled")>>

\* The cancellation is confirmed at once only when nothing is in flight.
CancelBatch(st) ==
  <<Mode("cancelling")>> \o WithdrawUnused(st)
  \o EventsFor(LAMBDA n : StopNode(st, n), NodeOrder)
  \o IF Active(st) = {} THEN <<Mode("cancelled")>> ELSE <<Intended(CancelEffect(st))>>

-----------------------------------------------------------------------------
(* Evaluation: the decision of the registered evaluator and its graph actions. *)

TaskOutcomes == {"completed", "repair", "failed", "needs-human", "unknown"}

\* Defect: the outcome of the decision is the state of the node.
StateIsOutcome(outcome) == IF outcome = "completed" THEN "succeeded" ELSE outcome

StateFromDecision(outcome) ==
  CASE outcome = "completed" -> "succeeded"
    [] outcome \in {"repair", "failed"} -> "failed"
    [] outcome = "needs-human" -> "waiting"
    [] outcome = "unknown" -> "unknown"

\* Defect: the evaluator's word is taken though the execution failed.
ResolvedByDecision(ok, outcome) == StateFromDecision(outcome)

Resolved(ok, outcome) == IF ok THEN StateFromDecision(outcome) ELSE "failed"

EdgesOf(n, types) == {d \in graph.edges : d.from = n /\ d.type \in types}

\* decide, rules A1 to A6: what becomes of node n and which node its control edge reaches.
\* matched is the first control edge whose predicate holds, if any.
Decided(n, ok, outcome, matched) ==
  CASE n \in graph.terminal -> [state |-> Resolved(ok, outcome), enabled |-> None, repair |-> FALSE]
    [] n \notin graph.terminal /\ matched # None ->
         [state |-> IF matched.type = "route" THEN Resolved(ok, outcome) ELSE "failed",
          enabled |-> matched.to, repair |-> matched.type = "repair"]
    [] n \notin graph.terminal /\ matched = None ->
         [state |-> IF EdgesOf(n, RoutingEdges) # {} THEN "failed" ELSE Resolved(ok, outcome),
          enabled |-> None, repair |-> FALSE]

\* Defect: a repair supersedes an attempt whose execution may still be in flight.
RepairableAlways(st, n, target) == CurrentAttempt(st, target) + 1 <= MaxAttempts

Repairable(st, n, target) ==
  /\ target = n \/ NodeStateAt(st, target)
                     \notin {"leased", "running", "verifying", "unknown", "cancelling"}
  /\ CurrentAttempt(st, target) + 1 <= MaxAttempts

GraphAction(st, d) ==
  LET a == CurrentAttempt(st, d.enabled)
      now == NodeStateAt(st, d.enabled)
  IN CASE d.enabled = None -> <<>>
       [] d.enabled # None /\ d.repair -> <<Move(d.enabled, a + 1, None, "pending")>>
       [] d.enabled # None /\ ~d.repair ->
            IF now \in {None, "waiting"} THEN <<Move(d.enabled, a, now, "pending")>> ELSE <<>>

\* Only an attempt that is verifying in the current epoch can be evaluated, on a receipt.
Evaluable(st, e) ==
  LET f == st.effects[e]
  IN /\ f.entry \in {"unknown", "resolved"}
     /\ st.nodeStates[<<f.node, f.attempt>>] = "verifying"
     /\ f.epoch = st.epoch

-----------------------------------------------------------------------------
(* Steps.                                                                    *)

Init ==
  /\ graph \in Graphs
  /\ s = [epoch |-> 1, dispatchMode |-> "active", attempts |-> [n \in Nodes |-> 0],
          nodeStates |-> [k \in Nodes \X Attempts |-> None], effects |-> <<>>,
          budget |-> OpenLedger(PoolPolicy), usage |-> {}, blocked |-> FALSE, fault |-> "none"]
  /\ threads = [t \in Threads |-> Idle]
  /\ running = None
  /\ host = [e \in Effects |-> [calls |-> 0, fate |-> "none"]]
  /\ expired = {}

\* One batch, written back under the revision its author read; t goes on as next.  (A value
\* bound by quantifying over its singleton is computed once, also where TLC asks for ENABLED.)
CommitAs(t, events, next) ==
  /\ \E batch \in {events} : \E after \in {After(s, batch)} :
       after.fault # "chain" /\ s' = after
  /\ threads' = [u \in Threads |-> IF u = t THEN next ELSE [threads[u] EXCEPT !.fresh = FALSE]]

\* The same of a command that has no await.
CommitNow(events) ==
  /\ running = None
  /\ CommitAs(None, events, Idle)
  /\ UNCHANGED <<graph, running, host, expired>>

Goes(t, next) == threads' = [threads EXCEPT ![t] = next]

\* t may take its next step: it is in state pc and nothing else is between two awaits.
At(t, pc) == threads[t].pc = pc /\ running \in {None, t}

\* t is resumed, or starts, when every other operation is at an await.
Await(t, pc) == threads[t].pc = pc /\ running = None

\* An operation ends, with its report or with an error.
Ends(t) == Goes(t, Idle) /\ running' = None /\ UNCHANGED <<s, graph, host, expired>>

StepBegin(t) ==
  /\ "step" \in Commands /\ Await(t, "idle")
  /\ Goes(t, [Idle EXCEPT !.pc = "observing", !.fresh = TRUE])
  /\ UNCHANGED <<s, graph, running, host, expired>>

\* The observation is journalled at the revision it was asked for, or the step fails.
Observed(t) ==
  /\ Await(t, "observing")
  /\ IF threads[t].fresh
     THEN CommitAs(t, <<>>, [Idle EXCEPT !.pc = "observed"])
     ELSE Goes(t, Idle) /\ UNCHANGED s
  /\ UNCHANGED <<graph, running, host, expired>>

Sending(queue, controlOnly) ==
  [Idle EXCEPT !.pc = "sending", !.controlOnly = controlOnly, !.queue = queue]

\* One round, and the effects it and earlier rounds left to send.
Plan(t) ==
  /\ Await(t, "observed")
  /\ RoundAdmitted(s)
  /\ Len(s.effects) + Len(Chosen(s)) <= MaxEffects
  /\ \E events \in {PlanRound(s)} :
       \E next \in {Sending(NextEffects(After(s, events)), FALSE)} :
         IF events = <<>> THEN Goes(t, next) /\ UNCHANGED s ELSE CommitAs(t, events, next)
  /\ running' = t
  /\ UNCHANGED <<graph, host, expired>>

\* The board, the policy port, the artifacts, the deadline or the host refuse: an error.
Denied(t) ==
  /\ \/ \E pc \in {"observing", "observed", "executing"} : Await(t, pc)
     \/ At(t, "sending") /\ threads[t].queue # <<>>
  /\ Ends(t)

\* Defect: an effect is sent whatever the session was told meanwhile.
SkippedNever(t, f) == FALSE

\* A cancelled or paused session sends nothing but the cancellation itself.
Skipped(t, f) ==
  f.kind # "host.cancel" /\ (threads[t].controlOnly \/ s.dispatchMode # "active")

Skip(t) ==
  /\ At(t, "sending") /\ threads[t].queue # <<>>
  /\ Skipped(t, s.effects[Head(threads[t].queue)])
  /\ Goes(t, [threads[t] EXCEPT !.queue = Tail(@)])
  /\ running' = t
  /\ UNCHANGED <<s, graph, host, expired>>

\* The gates of a launch that do not depend on an outside port.
Launchable(e) ==
  LET f == s.effects[e]
  IN /\ f.leased => f.epoch = s.epoch /\ e \notin expired
     /\ f.kind = "task" => ReservationRef(f) \in ReservedIds(s.budget)
                           /\ Admitted(s, ReservationRef(f))

\* Defect: the claim is not refused for an effect that was claimed or withdrawn meanwhile.
ClaimableAlways(f) == f.epoch = s.epoch

\* The claim of the outbox: an effect is claimed while intended, in its own epoch.
Claimable(f) == f.entry = "intended" /\ f.epoch = s.epoch

Claim(t) ==
  LET e == Head(threads[t].queue)
  IN /\ At(t, "sending") /\ threads[t].queue # <<>>
     /\ ~Skipped(t, s.effects[e]) /\ Launchable(e) /\ Claimable(s.effects[e])
     /\ CommitAs(t, <<Dispatched(e)>>, [threads[t] EXCEPT !.pc = "calling"])
     /\ running' = t
     /\ UNCHANGED <<graph, host, expired>>

\* The host is called with the claimed effect; what was claimed and not called stays so.
Call(t) ==
  LET e == Head(threads[t].queue)
  IN /\ At(t, "calling")
     /\ host' = [host EXCEPT ![e].calls = @ + 1]
     /\ Goes(t, [threads[t] EXCEPT !.pc = "executing"])
     /\ running' = None
     /\ UNCHANGED <<s, graph, expired>>

\* What an honest host may report of effect e.
Reportable(e, status, row) ==
  LET f == s.effects[e]
  IN /\ row # None => f.kind = "task" /\ status \in {"completed", "failed"}
     /\ CASE status = "unknown" -> TRUE
          [] status = "failed" -> f.kind # "task" \/ host[e].fate = "ran"
          [] status = "completed" -> f.kind = "task" /\ host[e].fate = "ran"
          [] status = "not-executed" -> f.kind = "task" /\ host[e].fate = "refused"
          [] status = "cancelled" ->
               \A x \in IF f.kind = "task" THEN {e} ELSE f.targets : host[x].fate # "none"

Receipts(e) == {r \in Statuses \X (UsageRows \cup {None}) : Reportable(e, r[1], r[2])}

\* receive: the receipt is committed with everything it changes, or refused.
Received(t, e, r, next) ==
  IF Receivable(s, e, r[1], r[2])
  THEN CommitAs(t, ReceiptBatch(s, e, r[1], r[2]), next)
  ELSE Goes(t, Idle) /\ UNCHANGED s

\* The host answers the call: its receipt is received and the next effect follows.
Executed(t) ==
  LET e == Head(threads[t].queue)
      next == [threads[t] EXCEPT !.pc = "sending", !.queue = Tail(@)]
  IN /\ Await(t, "executing")
     /\ \E r \in Receipts(e) :
          /\ Received(t, e, r, next)
          /\ running' = IF Receivable(s, e, r[1], r[2]) THEN t ELSE None
     /\ UNCHANGED <<graph, host, expired>>

Sent(t) == At(t, "sending") /\ threads[t].queue = <<>> /\ Ends(t)

\* A receipt outside any operation; one that is refused is no step.
Webhook ==
  /\ "webhook" \in Commands
  /\ \E e \in EffectsOf(s) : \E r \in Receipts(e) :
       /\ host[e].calls > 0 /\ Receivable(s, e, r[1], r[2])
       /\ CommitNow(ReceiptBatch(s, e, r[1], r[2]))

\* The host is asked about everything in doubt at this moment.
ReconcileBegin(t) ==
  /\ "reconcile" \in Commands /\ Await(t, "idle") /\ UnknownEffectIds(s) # {}
  /\ Goes(t, [Idle EXCEPT !.pc = "reconciling", !.targets = UnknownEffectIds(s)])
  /\ UNCHANGED <<s, graph, running, host, expired>>

\* One resolved outcome of its answer is received; one that stays unknown is skipped.
ReconcileNext(t) ==
  /\ At(t, "reconciling")
  /\ \E e \in threads[t].targets : \E r \in Receipts(e) :
       /\ r[1] # "unknown"
       /\ Received(t, e, r, [threads[t] EXCEPT !.targets = @ \ {e}])
       /\ running' = IF Receivable(s, e, r[1], r[2]) THEN t ELSE None
  /\ UNCHANGED <<graph, host, expired>>

Reconciled(t) == At(t, "reconciling") /\ Ends(t)

EvaluateBegin(t) ==
  /\ "evaluate" \in Commands /\ Await(t, "idle")
  /\ \E e \in TasksIn(s, EffectsOf(s)) :
       /\ Evaluable(s, e)
       /\ Goes(t, [Idle EXCEPT !.pc = "evaluating", !.fresh = TRUE, !.targets = {e}])
  /\ UNCHANGED <<s, graph, running, host, expired>>

\* The decision is journalled with its transitions, at the revision that was evaluated.
Decide(t, outcome, matched) ==
  LET e == CHOOSE x \in threads[t].targets : TRUE
      f == s.effects[e]
      d == Decided(f.node, f.status = "completed", outcome, matched)
  IN /\ threads[t].fresh
     /\ d.repair => Repairable(s, f.node, d.enabled)
     /\ CommitAs(t, Moves(f.node, f.attempt, <<"verifying", d.state>>) \o GraphAction(s, d), Idle)

EvaluateEnd(t) ==
  /\ Await(t, "evaluating")
  /\ \/ \E outcome \in TaskOutcomes :
          LET n == s.effects[CHOOSE x \in threads[t].targets : TRUE].node
          IN \E matched \in EdgesOf(n, RoutingEdges) \cup {None} : Decide(t, outcome, matched)
     \/ Goes(t, Idle) /\ UNCHANGED s
  /\ UNCHANGED <<graph, running, host, expired>>

Pause ==
  /\ "pause" \in Commands /\ s.dispatchMode \in {"active", "paused"}
  /\ CommitNow(<<Mode("paused")>>)

Resume ==
  /\ "pause" \in Commands /\ s.dispatchMode = "paused"
  /\ \E epoch \in (s.epoch + 1)..MaxEpoch : CommitNow(<<EpochChanged(epoch), Mode("active")>>)

\* A new command cancels, in every mode; then only the cancellation is dispatched.
Cancel(t) ==
  /\ "cancel" \in Commands /\ Await(t, "idle")
  /\ Active(s) # {} => Len(s.effects) < MaxEffects
  /\ \E events \in {CancelBatch(s)} :
       CommitAs(t, events, Sending(NextEffects(After(s, events)), TRUE))
  /\ running' = t
  /\ UNCHANGED <<graph, host, expired>>

\* A command that is in the journal already is only dispatched again.
CancelAgain(t) ==
  /\ "cancel" \in Commands /\ Await(t, "idle")
  /\ s.dispatchMode \in {"cancelling", "cancelled"}
  /\ Goes(t, Sending(NextEffects(s), TRUE))
  /\ running' = t
  /\ UNCHANGED <<s, graph, host, expired>>

\* The process is lost between two commits; the journal and the host are not.
Crash ==
  /\ "crash" \in Commands
  /\ threads # [t \in Threads |-> Idle]
  /\ threads' = [t \in Threads |-> Idle] /\ running' = None
  /\ UNCHANGED <<s, graph, host, expired>>

HostRuns(e) ==
  /\ host[e].calls > 0 /\ host[e].fate = "none" /\ s.effects[e].kind = "task"
  /\ host' = [host EXCEPT ![e].fate = "ran"]
  /\ UNCHANGED <<s, graph, threads, running, expired>>

\* The host will never run a call: it rejected or stopped it, or finds that none arrived.
HostRefuses(e) ==
  /\ s.effects[e].kind = "task" /\ s.effects[e].entry \in {"dispatched", "unknown"}
  /\ host[e].fate = "none"
  /\ host' = [host EXCEPT ![e].fate = "refused"]
  /\ UNCHANGED <<s, graph, threads, running, expired>>

Expire(e) ==
  /\ "expire" \in Commands
  /\ s.effects[e].leased /\ s.effects[e].entry # "resolved"
  /\ expired' = expired \cup {e}
  /\ UNCHANGED <<s, graph, threads, running, host>>

Operation(t) ==
  \/ StepBegin(t) \/ Observed(t) \/ Plan(t) \/ Denied(t)
  \/ Skip(t) \/ Claim(t) \/ Call(t) \/ Executed(t) \/ Sent(t)
  \/ ReconcileBegin(t) \/ ReconcileNext(t) \/ Reconciled(t)
  \/ EvaluateBegin(t) \/ EvaluateEnd(t)
  \/ Cancel(t) \/ CancelAgain(t)

Next ==
  \/ \E t \in Threads : Operation(t)
  \/ Webhook \/ Pause \/ Resume \/ Crash
  \/ \E e \in EffectsOf(s) : HostRuns(e) \/ HostRefuses(e) \/ Expire(e)

Spec == Init /\ [][Next]_vars

\* Every operation comes to its end, a caller keeps reconciling, and the host decides every
\* call and answers with what it decided.
Fairness ==
  /\ \A t \in Threads :
       /\ WF_vars(threads[t].pc # "idle" /\ Operation(t))
       /\ SF_vars(ReconcileBegin(t)) /\ SF_vars(ReconcileNext(t))
  /\ WF_vars(\E e \in EffectsOf(s) : HostRuns(e) \/ HostRefuses(e))

FairSpec == Spec /\ Fairness

-----------------------------------------------------------------------------
(* Properties.                                                               *)

TypeOK ==
  /\ s \in RuntimeState /\ Len(s.effects) <= MaxEffects /\ graph \in Graphs
  /\ threads \in [Threads -> Thread] /\ running \in Threads \cup {None}
  /\ host \in [Effects -> [calls : Nat, fate : {"none", "ran", "refused"}]]
  /\ expired \subseteq EffectsOf(s)

\* No effect is sent to the host twice, and none is sent before its claim is journalled:
\* not by two steps that hold the same effect in their queues, a retried cancellation, or a
\* step after a crash (dispatchPending).
SentOnce ==
  \A e \in EffectsOf(s) :
    /\ host[e].calls <= 1
    /\ host[e].calls = 1 => s.effects[e].entry # "intended"

\* What the journal records as not executed was not executed and never will be, so that its
\* reservation could be released (notExecutedReceipt, cancelSession).
WithdrawnNeverRuns ==
  \A e \in EffectsOf(s) : s.effects[e].status = "not-executed" => host[e].fate # "ran"

\* A session that was paused or cancelled while a step was under way starts no execution any
\* more, whatever the step had planned, claimed or queued (dispatchPending).
StoppedLaunchesNothing ==
  [][\A e \in EffectsOf(s) :
       host'[e].calls > host[e].calls /\ s.effects[e].kind = "task" => s.dispatchMode = "active"]_vars

\* An attempt has succeeded only if an effect of this very attempt ran on the host and was
\* reported completed: no decision, reconciliation or late receipt makes up a success
\* (receiptTransitions, evaluateSession).
SuccessIsBacked ==
  \A n \in Nodes, a \in Attempts :
    s.nodeStates[<<n, a>>] = "succeeded" =>
      \E e \in EffectsOf(s) :
        LET f == s.effects[e]
        IN f.node = n /\ f.attempt = a /\ f.status = "completed" /\ host[e].fate = "ran"

\* One attempt has at most one unresolved effect, over all epochs, and of the effects that
\* hold the writer lease at most one is live (dispatchRound, reduce).
OneClaim ==
  \A e, f \in TasksIn(s, Unresolved(s)) :
    e # f => /\ <<s.effects[e].node, s.effects[e].attempt>>
                  # <<s.effects[f].node, s.effects[f].attempt>>
             /\ ~(Live(s, e) /\ Live(s, f))

\* When the cancellation is confirmed nothing is in flight: every execution is resolved in
\* the journal and settled on the host (cancelSession, planReceipt).
CancelledIsSettled ==
  s.dispatchMode = "cancelled" =>
    /\ TasksIn(s, Unresolved(s)) = {}
    /\ \A e \in TasksIn(s, EffectsOf(s)) : host[e].calls = 1 => host[e].fate # "none"

\* Each effect reaches the host once and one thread holds its claim.
EachSentOnce == SentOnce /\ OneClaim

\* What is withdrawn never runs, and what is called cancelled is settled.
StopsAreFinal == WithdrawnNeverRuns /\ CancelledIsSettled

\* A superseded attempt keeps the state it had: no receipt, decision or round moves an attempt
\* after a repair opened the next one (evaluateSession, planReceipt).  Only a cancellation that
\* is acknowledged late still calls its targets cancelled, superseded ones too.
SupersededStays ==
  [][\A n \in Nodes, a \in Attempts :
       a < s.attempts[n] /\ s'.nodeStates[<<n, a>>] # s.nodeStates[<<n, a>>] =>
         \E c \in Unresolved(s) :
           /\ s'.effects[c].status = "cancelled"
           /\ \E e \in s.effects[c].targets : s.effects[e].node = n /\ s.effects[e].attempt = a]_vars

\* Whatever the service plans, the store accepts and the next reader can project: the states
\* a round, a receipt or a cancellation moves nodes from are the states they are in, also
\* when one batch moves a node several times, and every reservation still fits (commit, reduce).
PlansReplay ==
  /\ s.fault = "none"
  /\ After(s, CancelBatch(s)).fault = "none"
  /\ After(s, PlanRound(s)).fault = "none"
  /\ \A e \in EffectsOf(s) : \A r \in Receipts(e) :
       Receivable(s, e, r[1], r[2]) => After(s, ReceiptBatch(s, e, r[1], r[2])).fault = "none"

\* What the outbox may send owns the reservation it was planned with (dispatchPending).  A
\* node that woke after a decision for human review is planned in the same attempt and
\* epoch, hence under a reservation that its first execution has already settled.
IntendedOwnsReservation ==
  \A i \in DOMAIN NextEffects(s) :
    LET f == s.effects[NextEffects(s)[i]]
    IN f.kind = "task" => ReservationRef(f) \in ReservedIds(s.budget)

\* An effect whose outcome is in doubt is resolved when the host is asked about it again and
\* again (reconcile).
UnknownIsReconciled ==
  \A e \in Effects : (e \in UnknownEffectIds(s)) ~> (e \notin UnknownEffectIds(s))
=============================================================================
