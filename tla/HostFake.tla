------------------------------ MODULE HostFake ------------------------------
(***************************************************************************)
(* The host the kernel is exercised against: the guarantees are those of a     *)
(* probed matrix and the outcomes are scripted.  A key names one effect for      *)
(* good, its receipt is answered again and never run again, and reading back       *)
(* runs nothing.  An effect is [id, key, kind, durable, deadline, targets, ...].     *)
(***************************************************************************)
EXTENDS HostGate

CONSTANT
  Matrices,  \* the matrices a host may have
  Scripts    \* [outcome, evidence, cancels]: how what is run ends, what is found of it later,
             \* and whether stops are guaranteed

VARIABLES
  matrix,
  script,
  byKey,  \* key -> the effect it names and the status of its receipt
  last,   \* effect id -> the status of its last receipt
  ran,    \* effect id -> the effect, of what was invoked
  runs    \* effect id -> how often it was

fakeVars == <<matrix, script, byKey, last, ran, runs>>

IdempotentKinds == {"timer.wait", "host.reconcile", "host.cancel"}

Put(f, key, value) == [k \in DOMAIN f \cup {key} |-> IF k = key THEN value ELSE f[k]]
Empty == [k \in {} |-> None]
Count(f, id) == IF id \in DOMAIN f THEN f[id] ELSE 0

FakeInit ==
  /\ matrix \in Matrices /\ script \in Scripts
  /\ byKey = Empty /\ last = Empty /\ ran = Empty /\ runs = Empty

Dispatched(id) == id \in DOMAIN last /\ last[id] # "not-executed"

\* What record leaves of a set of receipts [effect, status].
Record(receipts) ==
  LET of(key) == CHOOSE r \in receipts : r.effect.key = key
      for(id) == CHOOSE r \in receipts : r.effect.id = id
      ids == {r.effect.id : r \in receipts}
      keys == {r.effect.key : r \in receipts}
  IN /\ byKey' = [k \in DOMAIN byKey \cup keys |-> IF k \in keys THEN of(k) ELSE byKey[k]]
     /\ last' = [i \in DOMAIN last \cup ids |-> IF i \in ids THEN for(i).status ELSE last[i]]

\* Whether a stop of one target is confirmed, by a verified guarantee only.
Confirmation(id) ==
  IF id \notin DOMAIN ran THEN "not-executed"
  ELSE IF script.cancels /\ CapabilityStatus(matrix, CancelConfirmationCapability(ran[id].kind)) = "verified"
  THEN "native-ack" ELSE "unconfirmed"

CancelOutcome(targets) ==
  IF \E t \in targets : Confirmation(t) = "unconfirmed" THEN "unknown" ELSE "cancelled"

\* What is read back of one target, and the receipt that comes of it.
Verdict(id) ==
  IF id \notin DOMAIN ran \/ script.evidence = "not-executed" THEN "not-executed"
  ELSE IF script.evidence = None THEN "unknown" ELSE "resolved"

Reconciled(targets) ==
  {[effect |-> ran[t], status |-> script.evidence] : t \in {u \in targets : Verdict(u) = "resolved"}}

Collides(effect) == effect.key \in DOMAIN byKey /\ byKey[effect.key].effect # effect

Supported(effect) == CapabilityGate(matrix, RequiredCapabilities(effect, {}))

\* Defect: only what completed counts as dispatched.
BlindRetryOfCompleted(effect) == Dispatched(effect.id) /\ last[effect.id] = "completed"

BlindRetry(effect) ==
  Dispatched(effect.id) /\ last[effect.id] = "unknown" /\ effect.kind \notin IdempotentKinds

\* A key that is known is answered from its receipt; otherwise the effect is served once.
Execute(effect, now) ==
  /\ effect.key \notin DOMAIN byKey /\ Supported(effect)
  /\ \/ /\ effect.kind = "host.cancel"
        /\ Record({[effect |-> effect, status |-> CancelOutcome(effect.targets)]})
        /\ UNCHANGED <<ran, runs>>
     \/ /\ effect.kind = "host.reconcile"
        /\ LET status == CASE \E t \in effect.targets : Verdict(t) = "unknown" -> "unknown"
                           [] effect.targets # {} /\ \A t \in effect.targets : Verdict(t) = "not-executed" -> "not-executed"
                           [] OTHER -> "completed"
           IN Record(Reconciled(effect.targets) \cup {[effect |-> effect, status |-> status]})
        /\ UNCHANGED <<ran, runs>>
     \/ /\ effect.kind \notin {"host.cancel", "host.reconcile"}
        /\ now > effect.deadline
        /\ Record({[effect |-> effect, status |-> "not-executed"]})
        /\ UNCHANGED <<ran, runs>>
     \/ /\ effect.kind \notin {"host.cancel", "host.reconcile"}
        /\ now <= effect.deadline /\ ~BlindRetry(effect)
        /\ Record({[effect |-> effect, status |-> script.outcome]})
        /\ ran' = Put(ran, effect.id, effect)
        /\ runs' = Put(runs, effect.id, Count(runs, effect.id) + 1)
  /\ UNCHANGED <<matrix, script>>

\* The port's own reading back, without an effect.
ReadBack(targets) ==
  /\ CapabilityGate(matrix, ReconcileRequirements)
  /\ Record(Reconciled(targets))
  /\ UNCHANGED <<matrix, script, ran, runs>>
=============================================================================
