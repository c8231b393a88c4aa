------------------------------ MODULE MCKernel ------------------------------
(***************************************************************************)
(* Three machines of the kernel that share no state, the budget pool, the     *)
(* recovery of a session and the scheduler, explored side by side: the initial  *)
(* state chooses one of them and the others stay at rest.  The recovered session  *)
(* is exported, snapshotted, crashed and restarted, with two histories that        *)
(* diverge after a restart from an older export.                                    *)
(***************************************************************************)
EXTENDS MCBudgetPool, MCScheduler, StoreRecovery

CONSTANTS a1, n1

VARIABLE machine

ASSUME GraphsAssumption == ValidConstants

-----------------------------------------------------------------------------
(* The recovered session.                                                    *)

MCReceiptIds == {"r1", "r2"}
MCEventIds == {"c1", "i1", "x1", "x2", "t1", "t2", "p1"} \cup MCReceiptIds
MCNodeStates == {"pending", "ready", "leased"}

B1 == [epoch |-> 1, attempt |-> a1]
E1 == [effectId |-> "e1", key |-> "k1", binding |-> B1]

MCReceivable ==
  {[receiptId |-> "r1", effectId |-> "e1", binding |-> B1, status |-> "completed",
    observed |-> TRUE],
   [receiptId |-> "r2", effectId |-> "e1", binding |-> B1, status |-> "unknown",
    observed |-> FALSE]}

Move(eventId, before, after) ==
  [PlainDraft("node.transition", eventId, 1, Absent) EXCEPT
     !.node = n1, !.before = before, !.after = after]

Batch(q, ep, drafts, fs) ==
  [requestId |-> q, epoch |-> ep, drafts |-> drafts, effects |-> fs, receipts |-> {}]

MCAppends ==
  {Batch("q1", 1, <<Move("t1", "pending", "leased"), PlainDraft("effect.intended", "i1", 1, "e1")>>, {E1}),
   \* the same positions, another history
   Batch("q2", 1, <<Move("t2", "pending", "ready"), PlainDraft("session.paused", "p1", 1, Absent)>>, {}),
   Batch("q3", 2, <<PlainDraft("session.epoch-changed", "x1", 2, Absent),
                    PlainDraft("session.resumed", "x2", 2, Absent)>>, {})}

-----------------------------------------------------------------------------

KernelInit ==
  /\ machine \in {"pool", "recovery", "scheduler"}
  /\ PoolInit
  /\ machine # "pool" => ledger = OpenLedger(CHOOSE p \in Policies : CanOpen(p))
  /\ RecoveryInit
  /\ Init

KernelNext ==
  \/ machine = "pool" /\ PoolNext /\ UNCHANGED <<machine, recoveryVars, vars>>
  \/ machine = "recovery" /\ RecoveryNext /\ UNCHANGED <<machine, poolVars, vars>>
  \/ machine = "scheduler" /\ Next /\ UNCHANGED <<machine, poolVars, recoveryVars>>

KernelSpec == KernelInit /\ [][KernelNext]_<<machine, poolVars, recoveryVars, vars>>
=============================================================================
