------------------------------ MODULE Revocation ------------------------------
(***************************************************************************)
(* The revocation service, on the journal and the state of the promotion      *)
(* service.  monitor plans in one commit: it revokes an asset with all that     *)
(* depends on it, ends promotions whose activation was never claimed, and        *)
(* records what must be cancelled and restored.  recover carries the plan out;   *)
(* it may be lost at any await and run again, in several processes at once, and   *)
(* each of its records is compared with the record it was computed from.         *)
(***************************************************************************)
EXTENDS Promotion

CONSTANTS
  Requests,   \* ids of monitor requests
  RestoreId   \* RestoreId[r][p]: the id of the rollback that restores p for r

VARIABLES
  revocations,   \* per request: the revocation record, or None
  cancels        \* history: per request and promotion, how often the host was asked to cancel

vars == <<projection, journal, fate, host, world, call, revocations, cancels>>

Ids == Assets \cup RollbackIds \cup {RestoreId[r][p] : r \in Requests, p \in Pointers}

CancelStates == {"not-executed", "needed", "requested", "observed", "settled"}

\* The record of a revocation: what it affects, cancels and restores, and how far it is.
Revisions ==
  [affected : SUBSET Assets,
   cancellations : UNION {[D -> CancelStates] : D \in SUBSET Ids},
   restores : UNION {[D -> Ids \cup {None}] : D \in SUBSET Pointers},
   error : {None, "denied", "cancel", "unconfirmed", "restore"},
   status : {"pending", "complete"}]

\* The id of a restore is made from its request and pointer, and callers choose no such id.
ASSUME RevocationAssumption ==
  /\ None \notin Revisions \cup Requests
  /\ \A r, s \in Requests, p, q \in Pointers :
       /\ RestoreId[r][p] \notin Assets \cup RollbackIds
       /\ RestoreId[r][p] = RestoreId[s][q] => r = s /\ p = q

-----------------------------------------------------------------------------
(* monitor                                                                   *)

\* Defect: a dispatched activation is taken for one that never ran.
NotObserved(id) == ~Record(id).effect \/ outbox[id] \in {"intended", "dispatched"}

\* The activation was not claimed, so the compare-and-set of the journal still owns it.
NeverClaimed(id) == ~Record(id).effect \/ outbox[id] = "intended"

Unfinished(affected) ==
  {id \in PromotionIds : Record(id).asset \in affected /\ Record(id).status \in {"promoted", "pending"}}

CancellationPlan(affected) ==
  [id \in Unfinished(affected) |-> IF NeverClaimed(id) THEN "not-executed" ELSE "needed"]

\* The last promotion of p that was decided active and still qualifies without what is affected.
VerifiedTarget(p, affected) ==
  LET last == SelectLastInSeq(promotions, LAMBDA r :
                r.pointer = p /\ r.status = "active" /\ r.asset \notin affected /\ Eligible(r.asset))
  IN IF last = 0 THEN None ELSE promotions[last].id

RestorePlan(affected, cancellations) ==
  LET inFlight == {Record(id).pointer : id \in {i \in DOMAIN cancellations : cancellations[i] = "needed"}}
      shaken == {p \in Pointers : pointers[p].active \in affected} \cup inFlight
  IN [p \in shaken |-> VerifiedTarget(p, affected)]

\* A pointer that names an affected asset is moved to what it runs, if that is unaffected.
Unpromote(affected) ==
  [p \in Pointers |->
    IF pointers[p].promoted \in affected
    THEN [pointers[p] EXCEPT !.version = @ + 1, !.promoted = IF pointers[p].active \in affected THEN None ELSE pointers[p].active]
    ELSE pointers[p]]

\* Signals, expiry or a changed context invalidate the asset; one commit holds the whole plan.
Monitor(r, root) ==
  /\ opened /\ revocations[r] = None /\ Registered(root) /\ Authorized("revoke")
  /\ LET affected == DependentClosure(root)
         cancellations == CancellationPlan(affected)
         restores == RestorePlan(affected, cancellations)
         over == {id \in DOMAIN cancellations : cancellations[id] = "not-executed"}
     IN /\ registry' = RevokeAll(affected)
        /\ promotions' = [i \in DOMAIN promotions |->
             IF promotions[i].id \in over THEN [promotions[i] EXCEPT !.status = "failed"] ELSE promotions[i]]
        /\ pointers' = Unpromote(affected)
        /\ outbox' = [id \in DOMAIN outbox |-> IF id \in over /\ Record(id).effect THEN "resolved" ELSE outbox[id]]
        /\ received' = [id \in DOMAIN received |-> IF id \in over /\ Record(id).effect THEN "not-executed" ELSE received[id]]
        /\ revocations' = [revocations EXCEPT ![r] =
             [affected |-> affected, cancellations |-> cancellations, restores |-> restores, error |-> None,
              status |-> IF over = DOMAIN cancellations /\ restores = << >> THEN "complete" ELSE "pending"]]
  /\ call' = Outdated(call)
  /\ UNCHANGED <<opened, fate, host, world, cancels>>

-----------------------------------------------------------------------------
(* recover: cancellations first, then restores.                              *)

Plan(t) == call[t].revision

\* updateRecord: refused when the record is no longer the one this recovery works on.
Current(t) == revocations[call[t].job] = Plan(t)

\* Write the record of the recovery, and go on with it at place.
Update(t, record, c) ==
  IF Current(t)
  THEN /\ revocations' = [revocations EXCEPT ![call[t].job] = record]
       /\ call' = [Outdated(call) EXCEPT ![t] = [c EXCEPT !.revision = record, !.fresh = FALSE]]
  ELSE UNCHANGED revocations /\ call' = [call EXCEPT ![t] = Idle]

Resting(t) == [Idle EXCEPT !.at = "recover", !.job = call[t].job, !.done = call[t].done]

\* The recovery gives up and says why; it can be run again.
Fail(t, error) == Update(t, [Plan(t) EXCEPT !.error = error], Idle)

CancelStatus(t, id, status) == [Plan(t) EXCEPT !.cancellations[id] = status]

Open(t) == {id \in DOMAIN Plan(t).cancellations : Plan(t).cancellations[id] \notin {"not-executed", "settled"}}

\* The cancellation in hand: they are taken in the order of the promotions.
InHand(t) == promotions[SelectInSeq(promotions, LAMBDA r : r.id \in Open(t))].id

NoPromotionStep == UNCHANGED <<projection, journal, fate, host, world>>

StartRecovery(t, r) ==
  /\ At(t, "idle") /\ revocations[r] # None /\ revocations[r].status = "pending"
  /\ call' = [call EXCEPT ![t].at = "recover", ![t].job = r, ![t].revision = revocations[r]]
  /\ NoPromotionStep /\ UNCHANGED <<revocations, cancels>>

\* Defect: a recovery that finds a request to cancel sends it again.
RequestAgain(t) ==
  /\ At(t, "recover") /\ Open(t) # {} /\ Plan(t).cancellations[InHand(t)] \in {"needed", "requested"}
  /\ IF Authorized("cancel")
     THEN Update(t, CancelStatus(t, InHand(t), "requested"),
                 [Resting(t) EXCEPT !.at = "cancelling", !.id = InHand(t)])
     ELSE Fail(t, "denied")
  /\ NoPromotionStep /\ UNCHANGED cancels

\* The intention to cancel is recorded before the host is asked, under live authority.
RequestCancel(t) ==
  /\ At(t, "recover") /\ Open(t) # {} /\ Plan(t).cancellations[InHand(t)] = "needed"
  /\ IF Authorized("cancel")
     THEN Update(t, CancelStatus(t, InHand(t), "requested"),
                 [Resting(t) EXCEPT !.at = "cancelling", !.id = InHand(t)])
     ELSE Fail(t, "denied")
  /\ NoPromotionStep /\ UNCHANGED cancels

CancelOnHost(t) ==
  /\ At(t, "cancelling")
  /\ cancels' = [cancels EXCEPT ![call[t].job] = [id \in DOMAIN @ \cup {call[t].id} |->
       (IF id \in DOMAIN @ THEN @[id] ELSE 0) + (IF id = call[t].id THEN 1 ELSE 0)]]
  /\ Goto(t, "cancelled")
  /\ NoPromotionStep /\ UNCHANGED revocations

\* An acknowledgement is evidence, not an outcome.
CancelAnswered(t) ==
  /\ At(t, "cancelled")
  /\ \/ Update(t, CancelStatus(t, call[t].id, "observed"), Resting(t))
     \/ Fail(t, "cancel")
  /\ NoPromotionStep /\ UNCHANGED cancels

\* settleCancellation: what is settled already, or has a receipt, needs no question.
SettleCancellation(t) ==
  /\ At(t, "recover") /\ Open(t) # {} /\ Plan(t).cancellations[InHand(t)] # "needed"
  /\ LET id == InHand(t)
     IN IF Record(id).status # "pending"
        THEN Update(t, [CancelStatus(t, id, "settled") EXCEPT !.error = None], Resting(t))
        ELSE /\ call' = [call EXCEPT ![t].id = id, ![t].receipt = received[id],
                           ![t].at = IF received[id] = None THEN "querying" ELSE "settle"]
             /\ UNCHANGED revocations
  /\ NoPromotionStep /\ UNCHANGED cancels

\* One commit ends a promotion the host did not execute; an outcome goes through settle.
CancellationQueried(t) ==
  /\ At(t, "querying")
  /\ LET id == call[t].id
     IN \E verdict \in Verdicts(id) :
          CASE verdict = "unknown" ->
                 Fail(t, "unconfirmed") /\ UNCHANGED <<promotions, journal>>
            [] verdict = "not-executed" ->
                 /\ Update(t, [CancelStatus(t, id, "settled") EXCEPT !.error = None], Resting(t))
                 /\ IF Current(t)
                    THEN /\ promotions' = WithRecord(id, [Record(id) EXCEPT !.status = "failed"])
                         /\ outbox' = [outbox EXCEPT ![id] = "resolved"]
                         /\ received' = [received EXCEPT ![id] = "not-executed"]
                    ELSE UNCHANGED <<promotions, journal>>
            [] OTHER -> Retain(t, id, verdict) /\ UNCHANGED <<promotions, revocations>>
  /\ UNCHANGED <<registry, opened, pointers, fate, host, world, cancels>>

Cancelling(t) == call[t].id \in DOMAIN Plan(t).cancellations

\* settle answers; an activation that no longer qualifies counts as ended here.
CancellationSettled(t) ==
  /\ call[t].at \in {"returned", "refused"} /\ Cancelling(t)
  /\ IF Record(call[t].id).status # "pending"
     THEN call' = [call EXCEPT ![t] = [Resting(t) EXCEPT !.revision = Plan(t)]] /\ UNCHANGED revocations
     ELSE Fail(t, "unconfirmed")
  /\ NoPromotionStep /\ UNCHANGED cancels

-----------------------------------------------------------------------------
(* Restores.                                                                 *)

ToRestore(t) == DOMAIN Plan(t).restores \ call[t].done

Restoring(t, p) == At(t, "recover") /\ Open(t) = {} /\ p \in ToRestore(t)

Target(t, p) == Record(Plan(t).restores[p])

\* The rollback must have become active on the exact snapshot.
Confirmed(t, id) ==
  Record(id).status = "active" /\ Record(id).snapshot = Target(t, Record(id).pointer).snapshot

ServedAlready(t, p) == p \in Served(Session[p]) /\ pointers[p].active = Target(t, p).asset

Restored(t, p) == call' = [call EXCEPT ![t] = [Resting(t) EXCEPT !.revision = Plan(t), !.done = @ \cup {p}]]

\* The restore is a rollback and its activation; one that was started is taken up again.
Restore(t, p) ==
  /\ Restoring(t, p)
  /\ LET id == RestoreId[call[t].job][p]
         target == Plan(t).restores[p]
         known == id \in PromotionIds
     IN IF target # None /\ ServedAlready(t, p)
        THEN Restored(t, p) /\ UNCHANGED <<projection, journal, fate, revocations>>
        ELSE IF target # None /\ ~known /\ Restorable(target, p)
        THEN /\ AddRollback(id, target, p)
             /\ call' = Outdated(call) /\ UNCHANGED <<registry, opened, revocations>>
        ELSE /\ IF target # None /\ known /\ Confirmed(t, id)
                THEN Restored(t, p) /\ UNCHANGED revocations
                ELSE IF target # None /\ known
                        /\ IF Record(id).status = "promoted" THEN Activatable(id)
                           ELSE Record(id).status = "pending" /\ Reconcilable(id)
                THEN /\ call' = [call EXCEPT ![t] = IF Record(id).status = "promoted"
                                   THEN Observing(@, id) ELSE Reconciling(@, id)]
                     /\ UNCHANGED revocations
                ELSE Fail(t, "restore")
             /\ UNCHANGED <<projection, journal, fate>>
  /\ UNCHANGED <<host, world, cancels>>

RestoreAnswered(t) ==
  /\ call[t].at \in {"returned", "refused"} /\ ~Cancelling(t)
  /\ IF At(t, "returned") /\ Confirmed(t, call[t].id)
     THEN Restored(t, Record(call[t].id).pointer) /\ UNCHANGED revocations
     ELSE Fail(t, "restore")
  /\ NoPromotionStep /\ UNCHANGED cancels

Complete(t) ==
  /\ At(t, "recover") /\ Open(t) = {} /\ ToRestore(t) = {}
  /\ Update(t, [Plan(t) EXCEPT !.status = "complete", !.error = None], Idle)
  /\ NoPromotionStep /\ UNCHANGED cancels

\* The host stops what it has not applied when it was asked to.
HostCancels(id) ==
  /\ fate[id] = "accepted"
  /\ \E r \in Requests : id \in DOMAIN cancels[r] /\ cancels[r][id] > 0
  /\ fate' = [fate EXCEPT ![id] = "never"]
  /\ UNCHANGED <<projection, journal, host, world, call, revocations, cancels>>

-----------------------------------------------------------------------------
Init ==
  /\ PromotionInit
  /\ revocations = [r \in Requests |-> None]
  /\ cancels = [r \in Requests |-> << >>]

Recovery(t) ==
  \/ \E r \in Requests : StartRecovery(t, r)
  \/ RequestCancel(t) \/ CancelOnHost(t) \/ CancelAnswered(t) \/ SettleCancellation(t)
  \/ CancellationQueried(t) \/ CancellationSettled(t)
  \/ (\E p \in Pointers : Restore(t, p)) \/ RestoreAnswered(t) \/ Complete(t)

Promoting ==
  /\ Administration \/ Environment \/ \E t \in Threads : Activation(t)
  /\ UNCHANGED <<revocations, cancels>>

Next ==
  \/ Promoting
  \/ \E r \in Requests, a \in Assets : Monitor(r, a)
  \/ \E t \in Threads : Recovery(t)
  \/ \E id \in PromotionIds : HostCancels(id)

Spec == Init /\ [][Next]_vars

-----------------------------------------------------------------------------
(* Properties.                                                               *)

\* While no activation of a pointer is open, the pointer is at the snapshot the host runs:
\* lost processes, racing recoveries and cancellations never leave them apart.
PointersMatchHost ==
  \A p \in Pointers :
    (\A id \in PromotionIds : Record(id).pointer = p => Record(id).status # "pending")
      => pointers[p].snapshot = host[p]

\* The host is asked to cancel an activation at most once for a request, in spite of crashes
\* and recoveries in several processes.
CancelSentOnce == \A r \in Requests : \A id \in DOMAIN cancels[r] : cancels[r][id] <= 1

\* A complete revocation leaves no pointer on an affected asset and no promotion of one open.
CompleteMeansClean ==
  \A r \in Requests : revocations[r] # None /\ revocations[r].status = "complete" =>
    /\ \A p \in Pointers : pointers[p].active \notin revocations[r].affected /\ host[p] \notin revocations[r].affected
    /\ Unfinished(revocations[r].affected) = {}

\* What tasks are given runs on the host, and was decided active by a promotion or a restore.
ServedIsActive ==
  \A p \in Pointers : p \in Served(Session[p]) =>
    host[p] = pointers[p].active /\ Usable(pointers[p].active, Session[p])

\* A pointer is what its host runs, and what is served is qualified.
PointersAreTrue == PointersMatchHost /\ ServedIsActive

\* A cancellation is asked for once, and a complete revocation leaves nothing affected behind.
RevocationIsHonest == CancelSentOnce /\ CompleteMeansClean
=============================================================================
