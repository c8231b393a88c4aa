---------------------------- MODULE PiDelegation ----------------------------
(***************************************************************************)
(* Delegation from a Pi session to child sessions of the same process: a child   *)
(* grant is derived from the parent's, the child is created, its work runs one     *)
(* effect after the other, and every provider request it makes is reserved in      *)
(* the parent's pool.  Records are appended to the parent's file; the process is    *)
(* lost, the parent closes, grants expire and cancellations arrive at every await.  *)
(***************************************************************************)
EXTENDS HostPort

CONSTANTS
  Delegations,  \* effects of kind host.delegate
  Plans,        \* what the kernel may plan for one: [request, effects, retained]
  Sessions,     \* ids of native sessions
  Parent,       \* the parent's session id, one of Sessions, and the name of its own invocation
  ParentGrant,  \* the grant the delegations are authorized by
  Deadline,     \* of each delegation
  RequestIds, Micros,
  Policy,       \* of the pool
  Rows,         \* the usage rows a provider may report
  Outcomes,     \* of an effect of a child; one that is lost has no receipt
  MaxSteps,     \* the most effects a child is given
  MaxNow, MaxUpsets

Pool == INSTANCE Budget

VARIABLES
  now, open,
  records,  \* what the binding holds of each delegation
  log,      \* what the parent's file holds of it
  run,      \* its invocation in progress
  fate,     \* external: what became of each effect of its child
  calls,    \* external: how often each was executed
  ledger, owners, usage,  \* the state of the shared pool
  told, closing, upsets

binding == <<open, records, log, run>>
pool == <<ledger, owners, usage>>
vars == <<now, binding, fate, calls, pool, told, closing, upsets>>

Terminal == {"completed", "failed", "cancelled"}
NoRecord == [phase |-> "none", plan |-> None, child |-> None, receipt |-> None]
Idle == [at |-> "rest", interrupted |-> FALSE, dispatched |-> FALSE, step |-> 0]
Pending == {d \in Delegations : run[d].at # "rest"}
Steps == 1 .. MaxSteps

-----------------------------------------------------------------------------
(* The shared requests.                                                         *)

Owned(o, invocation) == {r \in RequestIds : [request |-> r, invocation |-> invocation] \in o}
Dispatched(o) == {x.request : x \in o}

\* Defect: only the requests that are still open are counted.
UnderCeilingOpen(policy, invocation) ==
  LET mine == Owned(owners, invocation) \cap Pool!ReservedIds(ledger)
  IN /\ Cardinality(mine) < policy.requests
     /\ policy.usd # None => (Cardinality(mine) + 1) * ledger.reservePerRequest <= policy.usd
     /\ Cardinality(mine) < policy.concurrent

\* The ceiling of a child counts its own requests, open or settled, in its own invocation.
UnderCeiling(policy, invocation) ==
  LET mine == Owned(owners, invocation)
  IN /\ Cardinality(mine) < policy.requests
     /\ policy.usd # None => (Cardinality(mine) + 1) * ledger.reservePerRequest <= policy.usd
     /\ Cardinality(mine \cap Pool!ReservedIds(ledger)) < policy.concurrent

\* beforeRequest: a request is reserved in the parent's pool before it is sent.
Reserves(r, invocation, policy) ==
  /\ r \notin Dispatched(owners)
  /\ UnderCeiling(policy, invocation)
  /\ ~Pool!ReserveRefused(ledger, r)
  /\ ledger' = Pool!AfterReserve(ledger, r)
  /\ owners' = owners \cup {[request |-> r, invocation |-> invocation]}
  /\ UNCHANGED usage

\* record: a complete row is never replaced; a row that contradicts itself is kept, not settled.
RowsWith(row) == {u \in usage : u.requestId # row.requestId} \cup {row}

Record(row) ==
  /\ row.requestId \in Dispatched(owners)
  /\ \A u \in usage : u.requestId = row.requestId /\ u.complete => u = row
  /\ usage' = RowsWith(row)
  /\ ledger' = IF Pool!NormalizeError(row) = None THEN Pool!AfterSettle(ledger, row) ELSE ledger
  /\ UNCHANGED owners

\* report and invocationUsage: every request of the invocation has its complete row.
UsageComplete(invocation) ==
  LET mine == Owned(owners, invocation)
  IN mine # {} /\ \A r \in mine : \E u \in usage : u.requestId = r /\ u.complete

-----------------------------------------------------------------------------
(* Grants and records.                                                          *)

Until(d, plan) == IF Deadline[d] < plan.request.expires THEN Deadline[d] ELSE plan.request.expires

\* checkPiChildPlan: one level, within the parent's grant, capabilities and pool, and every
\* effect of the child keeps the identity of the parent's.
PlanAdmitted(plan) ==
  /\ DelegateError(ParentGrant, plan.request, now) = None
  /\ plan.request.depth = 0
  /\ plan.request.expires > now
  /\ plan.request.id # ParentGrant.id
  /\ plan.effects \in 1 .. plan.request.budget.requests
  /\ plan.retained
  /\ plan.request.budget.authorization = ParentGrant.budget.authorization
  /\ plan.request.budget.price = ParentGrant.budget.price

\* save: memory first, then the file.
Saved(d, record) ==
  /\ records' = [records EXCEPT ![d] = record]
  /\ log' = [log EXCEPT ![d] = record]

Receipt(record, status) == [record EXCEPT !.phase = "receipt", !.receipt = status]
Tells(d, verdict) == told' = [told EXCEPT ![d] = @ \cup ({verdict} \ {"unknown"})]
Rests(d) == run' = [run EXCEPT ![d] = Idle]

\* finish: the receipt is saved and given; the invocation is over.
Finishes(d, record, status) == Saved(d, Receipt(record, status)) /\ Tells(d, status) /\ Rests(d)

\* Defect: the effects that did answer decide, for those that never ran as well.
AggregateAnswered(d, results, interrupted) ==
  IF (\E k \in DOMAIN results : results[k] \notin Terminal) \/ ~UsageComplete(d)
  THEN "unknown"
  ELSE IF \E k \in DOMAIN results : results[k] = "cancelled" THEN "cancelled"
  ELSE IF \E k \in DOMAIN results : results[k] = "failed" THEN "failed" ELSE "completed"

\* aggregate: unknown unless every effect of the child has its terminal receipt and every
\* request its usage.
Aggregate(d, results, interrupted) ==
  IF \/ interrupted
     \/ Cardinality(DOMAIN results) # records[d].plan.effects
     \/ \E k \in DOMAIN results : results[k] \notin Terminal
     \/ ~UsageComplete(d)
  THEN "unknown"
  ELSE IF \E k \in DOMAIN results : results[k] = "cancelled" THEN "cancelled"
  ELSE IF \E k \in DOMAIN results : results[k] = "failed" THEN "failed" ELSE "completed"

Starts(d, k) ==
  /\ fate' = [fate EXCEPT ![d][k] = "running"]
  /\ calls' = [calls EXCEPT ![d][k] = @ + 1]
  /\ run' = [run EXCEPT ![d] = [at |-> "working", interrupted |-> FALSE, dispatched |-> TRUE, step |-> k]]

-----------------------------------------------------------------------------
Init ==
  /\ now = 0 /\ open = TRUE /\ closing = "no" /\ upsets = 0
  /\ records = [d \in Delegations |-> NoRecord] /\ log = records
  /\ run = [d \in Delegations |-> Idle]
  /\ fate = [d \in Delegations |-> [k \in Steps |-> "none"]]
  /\ calls = [d \in Delegations |-> [k \in Steps |-> 0]]
  /\ ledger = Pool!OpenLedger(Policy) /\ owners = {} /\ usage = {}
  /\ told = [d \in Delegations |-> {}]

\* A repeat joins the invocation in progress or is given the recorded receipt; a delegation
\* on record without one is never run again.
Execute(d) ==
  /\ d \notin Pending
  /\ IF records[d] # NoRecord
     THEN Tells(d, IF records[d].receipt = None THEN "unknown" ELSE records[d].receipt) /\ UNCHANGED run
     ELSE /\ open /\ now < Deadline[d]
          /\ Cardinality(Pending) < ParentGrant.concurrency
          /\ run' = [run EXCEPT ![d].at = "planning"]
          /\ UNCHANGED told
  /\ UNCHANGED <<now, open, records, log, fate, calls, pool, closing, upsets>>

\* A plan that is late, or that exceeds the parent, leaves no record.
PlanRefused(d) ==
  /\ run[d].at = "planning" /\ Rests(d)
  /\ UNCHANGED <<now, open, records, log, fate, calls, pool, told, closing, upsets>>

\* A parent that closed while the plan was awaited has already interrupted the run.
Planned(d, plan) ==
  /\ run[d].at = "planning" /\ PlanAdmitted(plan)
  /\ LET record == [NoRecord EXCEPT !.phase = "prepared", !.plan = plan]
     IN IF ~open
        THEN Finishes(d, record, "not-executed")
        ELSE Saved(d, record) /\ run' = [run EXCEPT ![d].at = "creating"] /\ UNCHANGED told
  /\ UNCHANGED <<now, open, fate, calls, pool, closing, upsets>>

\* The factory fails, or returns a session that is the parent's or another child's.
CreateFails(d) ==
  /\ run[d].at = "creating"
  /\ Finishes(d, records[d], "unknown")
  /\ UNCHANGED <<now, open, fate, calls, pool, closing, upsets>>

Taken == {Parent} \cup {records[d].child : d \in {x \in Delegations : run[x].at = "working"}}

\* The creation may have spanned a cancellation, a close or an expiry: the gate before the
\* first effect of the child.
MayDispatch(d) ==
  /\ ~run[d].interrupted /\ open
  /\ PlanAdmitted(records[d].plan)
  /\ now < Deadline[d]

Created(d, s) ==
  /\ run[d].at = "creating" /\ s \notin Taken
  /\ LET created == [records[d] EXCEPT !.child = s, !.phase = "created"]
     IN IF MayDispatch(d)
        THEN Saved(d, [created EXCEPT !.phase = "dispatched"]) /\ Starts(d, 1) /\ UNCHANGED told
        ELSE Finishes(d, created, "not-executed") /\ UNCHANGED <<fate, calls>>
  /\ UNCHANGED <<now, open, pool, closing, upsets>>

\* External: the child's session settles an effect, or ends without saying how.
ChildSettles(d, outcome) ==
  /\ run[d].at = "working" /\ fate[d][run[d].step] = "running"
  /\ fate' = [fate EXCEPT ![d][run[d].step] = outcome]
  /\ UNCHANGED <<now, binding, calls, pool, told, closing, upsets>>

\* The child's answer: the next effect starts only after a completed one, for a run that is
\* neither interrupted nor late.
ChildReturns(d) ==
  LET k == run[d].step
      results == [j \in 1 .. k |-> fate[d][j]]
      more == /\ fate[d][k] = "completed" /\ k < records[d].plan.effects
              /\ ~run[d].interrupted /\ open
      late == now >= Until(d, records[d].plan)
  IN /\ run[d].at = "working" /\ fate[d][k] # "running"
     /\ IF more /\ ~late THEN Starts(d, k + 1) /\ UNCHANGED <<records, log, told>>
        ELSE /\ Finishes(d, records[d],
                         IF more THEN "unknown" ELSE Aggregate(d, results, run[d].interrupted))
             /\ UNCHANGED <<fate, calls>>
     /\ UNCHANGED <<now, open, pool, closing, upsets>>

\* The child, the factory or the file throws: the binding remembers an unknown outcome and
\* disposes of the child.
InvokeFails(d) ==
  /\ upsets < MaxUpsets /\ upsets' = upsets + 1
  /\ run[d].at \in {"creating", "working"}
  /\ records' = [records EXCEPT ![d] = Receipt(@, "unknown")]
  /\ fate' = [fate EXCEPT ![d] = [k \in Steps |-> IF @[k] = "running" THEN "lost" ELSE @[k]]]
  /\ Rests(d)
  /\ UNCHANGED <<now, open, log, calls, pool, told, closing>>

\* Requests of a child at work, of the parent, and rows that come at any time.
ChildRequest(d, r) ==
  /\ run[d].at = "working" /\ fate[d][run[d].step] = "running"
  /\ Reserves(r, d, records[d].plan.request.budget)
  /\ UNCHANGED <<now, binding, fate, calls, told, closing, upsets>>

ParentRequest(r) ==
  /\ Reserves(r, Parent, ParentGrant.budget)
  /\ UNCHANGED <<now, binding, fate, calls, told, closing, upsets>>

UsageArrives(row) ==
  /\ Record(row)
  /\ UNCHANGED <<now, binding, fate, calls, told, closing, upsets>>

-----------------------------------------------------------------------------
(* cancel, close and reconcile.                                                 *)

\* A run that has not dispatched is certainly not executed.
Cancel(d) ==
  /\ run[d].at \in {"creating", "working"}
  /\ run' = [run EXCEPT ![d].interrupted = TRUE]
  /\ IF run[d].dispatched THEN UNCHANGED told ELSE Tells(d, "not-executed")
  /\ UNCHANGED <<now, open, records, log, fate, calls, pool, closing, upsets>>

\* The parent's lifetime ends: nothing new starts, every run is interrupted.
Close ==
  /\ open /\ open' = FALSE /\ closing' = "awaiting"
  /\ run' = [d \in Delegations |-> IF run[d].at \in {"creating", "working"}
                                   THEN [run[d] EXCEPT !.interrupted = TRUE] ELSE run[d]]
  /\ UNCHANGED <<now, records, log, fate, calls, pool, told, upsets>>

\* close awaits every invocation.
EveryRunReturned == Pending = {}

Closed ==
  /\ closing = "awaiting" /\ EveryRunReturned
  /\ closing' = "closed"
  /\ UNCHANGED <<now, binding, fate, calls, pool, told, upsets>>

\* The child that was created is reopened and read; nothing is run.
Reconcile(d) ==
  LET r == records[d]
      results == [k \in 1 .. r.plan.effects |-> fate[d][k]]
      readable == /\ r.receipt \in {None, "unknown"} /\ d \notin Pending /\ r.child # None
                  /\ \A k \in 1 .. r.plan.effects : fate[d][k] \in Terminal
  IN /\ r # NoRecord
     /\ IF readable
        THEN /\ Saved(d, Receipt(r, Aggregate(d, results, FALSE)))
             /\ Tells(d, Aggregate(d, results, FALSE))
        ELSE /\ Tells(d, IF r.receipt = None THEN "unknown" ELSE r.receipt)
             /\ UNCHANGED <<records, log>>
     /\ UNCHANGED <<now, open, run, fate, calls, pool, closing, upsets>>

\* The process is lost with its children; the files and the pool's store stay.
Crash ==
  /\ upsets < MaxUpsets /\ upsets' = upsets + 1
  /\ open' = TRUE /\ closing' = "no"
  /\ records' = log
  /\ run' = [d \in Delegations |-> Idle]
  /\ fate' = [d \in Delegations |-> [k \in Steps |-> IF fate[d][k] = "running" THEN "lost" ELSE fate[d][k]]]
  /\ UNCHANGED <<now, log, calls, pool, told>>

Tick ==
  /\ now < MaxNow /\ now' = now + 1
  /\ UNCHANGED <<binding, fate, calls, pool, told, closing, upsets>>

Next ==
  \/ \E d \in Delegations :
       \/ Execute(d) \/ PlanRefused(d) \/ CreateFails(d) \/ ChildReturns(d) \/ InvokeFails(d)
       \/ Cancel(d) \/ Reconcile(d)
       \/ \E p \in Plans : Planned(d, p)
       \/ \E s \in Sessions : Created(d, s)
       \/ \E o \in Outcomes : ChildSettles(d, o)
       \/ \E r \in RequestIds : ChildRequest(d, r)
  \/ \E r \in RequestIds : ParentRequest(r)
  \/ \E row \in Rows : UsageArrives(row)
  \/ Close \/ Closed \/ Crash \/ Tick

Spec == Init /\ [][Next]_vars

-----------------------------------------------------------------------------
(* Properties.                                                                   *)

\* No effect of a child is executed twice, whoever repeats the delegation and whatever is lost.
ChildRunsOnce == \A d \in Delegations : \A k \in Steps : calls[d][k] <= 1

\* A delegation reported done did all of its plan, and every request it made has its complete
\* usage row.
DoneIsWholeAndPaid ==
  \A d \in Delegations : "completed" \in told[d] =>
    /\ \A k \in 1 .. log[d].plan.effects : fate[d][k] = "completed"
    /\ Owned(owners, d) \subseteq {u.requestId : u \in {x \in usage : x.complete}}

\* A child stays under the narrowed ceiling of its grant over its whole life, whatever its
\* requests settled as in between.
ChildStaysUnderCeiling ==
  \A d \in Delegations : Owned(owners, d) # {} =>
    LET budget == log[d].plan.request.budget
    IN /\ Cardinality(Owned(owners, d)) <= budget.requests
       /\ budget.usd # None => Cardinality(Owned(owners, d)) * ledger.reservePerRequest <= budget.usd
       /\ budget.requests <= ParentGrant.budget.requests
       /\ UsdWithin(ParentGrant.budget.usd, budget.usd)

\* Once close has returned no child works, and none ever does before the parent is bound again.
ClosedIsQuiet ==
  closing = "closed" => \A d \in Delegations : run[d].at = "rest" /\ \A k \in Steps : fate[d][k] # "running"
=============================================================================
