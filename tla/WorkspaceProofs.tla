---------------------------- MODULE WorkspaceProofs ----------------------------
(***************************************************************************)
(* What the workspace provider keeps for every number of effects, instances,  *)
(* epochs and upsets, as long as an instance serves one call at a time.        *)
(***************************************************************************)
EXTENDS Workspace, SequenceTheorems, TLAPS

-----------------------------------------------------------------------------
(* The inductive invariants.                                                 *)

RunPlaces == RunLocked \cup {"lock", "owner"}

RecoveryPlaces == RecoveryLocked \cup {"exists", "inspect", "relock", "reown", "refused"}

CallRecord ==
  [at : RunPlaces \cup RecoveryPlaces \cup {"idle"}, effect : Effects \cup {None},
   kind : {"none", "run", "reconcile"}, before : Base \cup {None}, after : Base \cup {None},
   status : Outcomes \cup {None}, arbiter : BOOLEAN, wasActive : BOOLEAN, caught : BOOLEAN]

StageRecord == [phase : {"none", "open", "sealed"}, base : Base, content : Content]

JournalReceipt == [effect : Effects, status : Outcomes \cup {None}, applied : BOOLEAN]

\* A call (one record of "call") is where its kind may be and works for an effect; past its
\* plan it has the base it started from, and past its preparation the snapshot it made.
Placed(r) ==
  /\ \/ r = Idle
     \/ r.kind = "run" /\ r.effect \in Effects /\ r.at \in RunPlaces
     \/ r.kind = "reconcile" /\ r.effect \in Effects /\ r.at \in RecoveryPlaces
  /\ r.at \in {"claim", "record", "prepare", "check", "swap", "observe", "decide", "save", "commit"}
       => r.before \in Base
  /\ r.at \in {"check", "swap", "observe"} => r.after \in Base

TypeOK ==
  /\ undoes \in [Effects -> Effects \cup {None}]
  /\ stage \in [Effects -> StageRecord]
  /\ entry \in [Effects -> {"absent", "intended", "dispatched", "resolved"}]
  /\ receipts \in Seq(JournalReceipt)
  /\ head \in Base /\ revisions \in Nat
  /\ lock \in Lock \cup {None}
  /\ records \in [Effects -> Record \cup {None}]
  /\ published \in [Effects -> Nat]
  /\ call \in [Calls -> CallRecord]
  /\ \A c \in Calls : Placed(call[c])

\* What an intended undo undoes has been recorded, and a reconciliation decides by a record.
Recorded ==
  /\ \A e \in Effects : entry[e] # "absent" /\ undoes[e] # None => records[undoes[e]] \in Record
  /\ \A c \in Calls : call[c].kind = "reconcile" /\ At(c, {"decide", "save", "commit"}) =>
       records[Eff(c)] \in Record

\* The call has made the lock directory and not yet left it.
Holds(r) ==
  \/ r.kind = "run" /\ r.at \in RunLocked \cup {"owner"}
  \/ r.kind = "reconcile" /\ r.at \in RecoveryLocked \cup {"reown"}

\* The call holds the lock and has written its owner file.
Evidenced(r) ==
  \/ r.kind = "run" /\ r.at \in RunLocked
  \/ r.kind = "reconcile" /\ r.at \in RecoveryLocked

\* The lock directory is that of the call that holds it, and so is its owner file.
HoldersOwn ==
  \A c \in Calls :
    /\ Holds(call[c]) => lock # None /\ lock.owner = Serves[c] /\ lock.effect = Eff(c)
    /\ Evidenced(call[c]) => lock.evidence

Claimed(e) == entry[e] \in {"dispatched", "resolved"}

\* The call works on an effect that must have been claimed.
Dispatched(r) ==
  \/ r.kind = "reconcile"
  \/ r.kind = "run"
     /\ r.at \in {"record", "prepare", "check", "swap", "observe", "save", "commit"}

CallsAreClaimed == \A c \in Calls : Dispatched(call[c]) => Claimed(Eff(c))

\* A live lock is stuck, or held by a call, or kept with its owner file for a claimed effect.
LocksAreExplained ==
  lock # None /\ Alive(lock.owner) /\ ~lock.stuck =>
    \/ \E c \in Calls : Serves[c] = lock.owner /\ Holds(call[c])
    \/ Claimed(lock.effect) /\ lock.evidence

LockInv == HoldersOwn /\ CallsAreClaimed /\ LocksAreExplained

-----------------------------------------------------------------------------
(* What the records, the target and the calls say about publication.         *)

Prepared(e) == records[e] # None /\ records[e].after # None

\* Nothing happened to the target for an effect that was not claimed, and a snapshot is
\* selected once.
PublishedOnce ==
  \A e \in Effects :
    /\ published[e] \in {0, 1}
    /\ ~Claimed(e) => published[e] = 0 /\ ReceiptOf(e) = {}

\* Revisions grow from the base of an application to its snapshot, and are never shared.
RevisionsGrow ==
  /\ head.revision <= revisions
  /\ \A e \in Effects : Prepared(e) =>
       /\ records[e].after.revision <= revisions
       /\ records[e].after.revision > records[e].before.revision
  /\ \A e, f \in Effects :
       Prepared(e) /\ Prepared(f) /\ records[e].after.revision = records[f].after.revision
         => e = f

\* The target is at or past what was published, and at a prepared snapshot only if it was.
TargetShowsPublished ==
  \A e \in Effects :
    /\ published[e] = 1 => Prepared(e) /\ head.revision >= records[e].after.revision
    /\ Prepared(e) /\ head.revision = records[e].after.revision => published[e] = 1

\* The outcome saved in a record says what happened.
RecordsAreTrue ==
  \A e \in Effects :
    records[e] # None /\ records[e].completed # None =>
      (records[e].completed = "completed" <=> published[e] = 1)

TargetInv ==
  PublishedOnce /\ RevisionsGrow /\ TargetShowsPublished /\ RecordsAreTrue
    /\ ReceiptsTellTheTruth

\* The plan of a run is based on everything published.
BasedOnPublished(r) ==
  r.kind = "run" /\ r.at \in {"claim", "record", "prepare", "check", "swap"} =>
    /\ r.before.revision <= revisions
    /\ \A e \in Effects : published[e] = 1 => records[e].after.revision <= r.before.revision

\* Where a run is tells whether its snapshot has been selected.
RunKnows(r) ==
  r.kind = "run" =>
    /\ r.at \in {"record", "prepare", "check", "swap"} =>
         published[r.effect] = 0 /\ ReceiptOf(r.effect) = {}
    /\ r.at = "observe" => published[r.effect] = 1
    /\ r.at \in {"lock", "owner", "plan", "claim", "record"} => r.after = None
    /\ r.at \in {"prepare", "check", "swap"} =>
         records[r.effect] # None /\ records[r.effect].completed = None

\* The record of the effect is the one of this call.
OfRecord(r) ==
  /\ records[r.effect] # None
  /\ records[r.effect].before = r.before /\ records[r.effect].after = r.after

\* What a call has in hand is what the record of its effect says.
InHand(r) ==
  /\ r.kind = "run" /\ r.at \in {"prepare", "check", "swap", "observe"} => OfRecord(r)
  /\ r.at \in {"save", "commit"} /\ (r.after # None \/ published[r.effect] = 1) => OfRecord(r)

\* The outcome a call saves and reports is what happened to the target.
OutcomeIsTrue(r) ==
  r.at \in {"save", "commit"} => (r.status = "completed" <=> published[r.effect] = 1)

\* What a reconciliation has read of the target still tells whether its effect was published.
ReadIsTelling(r) ==
  r.at = "decide" =>
    /\ published[r.effect] = 1 => r.before.revision >= records[r.effect].after.revision
    /\ Prepared(r.effect) /\ r.before = records[r.effect].after => published[r.effect] = 1

CallInv(r) ==
  BasedOnPublished(r) /\ RunKnows(r) /\ InHand(r) /\ OutcomeIsTrue(r) /\ ReadIsTelling(r)

HistoryInv == TargetInv /\ \A c \in Calls : CallInv(call[c])
-----------------------------------------------------------------------------
(* The steps of a call: what each does to the record of the call.            *)

Steps(c, r) == call' = [call EXCEPT ![c] = r] /\ r \in CallRecord /\ Placed(r)

LEMMA CallsTyped ==
  ASSUME TypeOK, NEW c \in Calls, NEW r, Steps(c, r)
  PROVE  /\ call' \in [Calls -> CallRecord] /\ \A d \in Calls : Placed(call'[d])
         /\ call'[c] = r /\ \A d \in Calls : d # c => call'[d] = call[d]
BY DEF TypeOK, Steps

LEMMA IdleTyped == Idle \in CallRecord /\ Placed(Idle)
BY DEF Idle, CallRecord, Placed

LEMMA ReturnSteps ==
  ASSUME NEW c \in Calls, Return(c)
  PROVE  Steps(c, Idle)
BY IdleTyped DEF Return, Steps

\* A call of a kind that goes to another place, with what it needs there.
LEMMA PlacedRecord ==
  ASSUME NEW q \in CallRecord, Placed(q), q.at # "idle", NEW r \in CallRecord,
         r.kind = q.kind, r.effect = q.effect,
         \/ r.kind = "run" /\ r.at \in RunPlaces
         \/ r.kind = "reconcile" /\ r.at \in RecoveryPlaces,
         r.at \in {"claim", "record", "prepare", "check", "swap", "observe", "decide", "save",
                   "commit"} => r.before \in Base,
         r.at \in {"check", "swap", "observe"} => r.after \in Base
  PROVE  Placed(r)
BY DEF Placed, Idle

LEMMA GotoSteps ==
  ASSUME TypeOK, NEW c \in Calls, NEW p, Goto(c, p), call[c].at # "idle",
         \/ call[c].kind = "run" /\ p \in RunPlaces
         \/ call[c].kind = "reconcile" /\ p \in RecoveryPlaces,
         p \in {"claim", "record", "prepare", "check", "swap", "observe", "decide", "save",
                "commit"} => call[c].before \in Base,
         p \in {"check", "swap", "observe"} => call[c].after \in Base
  PROVE  \E r : /\ Steps(c, r) /\ r = [call[c] EXCEPT !.at = p]
                /\ r.at = p /\ r.kind = call[c].kind /\ r.effect = call[c].effect
                /\ r.before = call[c].before /\ r.after = call[c].after
                /\ r.status = call[c].status
<1> DEFINE r == [call[c] EXCEPT !.at = p]
<1>1. call[c] \in CallRecord /\ Placed(call[c])
  BY DEF TypeOK
<1>2. r \in CallRecord
  BY <1>1 DEF CallRecord
<1>3. /\ r.at = p /\ r.kind = call[c].kind /\ r.effect = call[c].effect
      /\ r.before = call[c].before /\ r.after = call[c].after /\ r.status = call[c].status
  BY <1>1 DEF CallRecord
<1> HIDE DEF r
<1>4. Placed(r)
  BY <1>1, <1>2, <1>3, PlacedRecord
<1> QED BY <1>2, <1>3, <1>4 DEF Steps, Goto, r
\* What the place of a call says about it.
LEMMA KindAt ==
  ASSUME TypeOK, NEW c \in Calls
  PROVE  /\ call[c] \in CallRecord /\ Placed(call[c])
         /\ call[c].at \in {"lock", "owner", "plan", "claim", "record", "prepare", "check",
                            "swap", "observe"} => call[c].kind = "run"
         /\ call[c].at \in {"exists", "inspect", "relock", "reown", "refused", "relocked",
                            "decide"} => call[c].kind = "reconcile"
         /\ call[c].at \in {"save", "commit", "unlock"} => call[c].kind \in {"run", "reconcile"}
         /\ call[c].at # "idle" => Eff(c) \in Effects
         /\ call[c].kind = "run" => call[c].at \in RunPlaces
         /\ call[c].kind = "reconcile" => call[c].at \in RecoveryPlaces
<1>1. call[c] \in CallRecord /\ Placed(call[c])
  BY DEF TypeOK
<1> QED BY <1>1 DEF Placed, Idle, RunPlaces, RecoveryPlaces, RunLocked, RecoveryLocked, Eff

\* A call that moves on within its run or its recovery keeps the rest of what it knows.
MovesTo(c, r, p) ==
  /\ Steps(c, r) /\ r.at = p /\ r.kind = call[c].kind /\ r.effect = call[c].effect
  /\ r.before = call[c].before /\ r.after = call[c].after /\ r.status = call[c].status

LEMMA GotoMoves ==
  ASSUME TypeOK, NEW c \in Calls, NEW p, Goto(c, p), call[c].at # "idle",
         \/ call[c].kind = "run" /\ p \in RunPlaces
         \/ call[c].kind = "reconcile" /\ p \in RecoveryPlaces,
         p \in {"claim", "record", "prepare", "check", "swap", "observe", "decide", "save",
                "commit"} => call[c].before \in Base,
         p \in {"check", "swap", "observe"} => call[c].after \in Base
  PROVE  \E r : MovesTo(c, r, p)
BY GotoSteps DEF MovesTo

LEMMA RunBeginMoves ==
  ASSUME NEW c \in Calls, NEW e \in Effects, RunBegin(c, e)
  PROVE  \E r : /\ Steps(c, r) /\ r.at = "lock" /\ r.kind = "run" /\ r.effect = e
                /\ r.after = None /\ call[c].at = "idle"
<1> DEFINE r == [Idle EXCEPT !.at = "lock", !.effect = e, !.kind = "run"]
<1>1. r \in CallRecord /\ r.at = "lock" /\ r.kind = "run" /\ r.effect = e /\ r.after = None
  BY DEF Idle, CallRecord, RunPlaces
<1> HIDE DEF r
<1>2. Placed(r)
  BY <1>1 DEF Placed, RunPlaces
<1> QED BY <1>1, <1>2 DEF RunBegin, Steps, r, At

LEMMA ReconcileBeginMoves ==
  ASSUME NEW c \in Calls, NEW e \in Effects, ReconcileBegin(c, e)
  PROVE  \E r : /\ Steps(c, r) /\ r.at = "exists" /\ r.kind = "reconcile" /\ r.effect = e
                /\ call[c].at = "idle"
<1> DEFINE active == Active(Serves[c], e)
           r == [Idle EXCEPT !.at = "exists", !.effect = e, !.kind = "reconcile",
                             !.wasActive = active]
<1>0. active \in BOOLEAN
  BY DEF Active
<1> HIDE DEF active
<1>1. r \in CallRecord /\ r.at = "exists" /\ r.kind = "reconcile" /\ r.effect = e
  BY <1>0 DEF Idle, CallRecord, RecoveryPlaces
<1> HIDE DEF r
<1>2. Placed(r)
  BY <1>1 DEF Placed, RecoveryPlaces
<1> QED BY <1>1, <1>2 DEF ReconcileBegin, Steps, r, At, active

LEMMA RunPlanMoves ==
  ASSUME TypeOK, NEW c \in Calls, RunPlan(c)
  PROVE  \E r : /\ Steps(c, r) /\ r.at \in {"claim", "unlock"} /\ r.kind = "run"
                /\ r.effect = Eff(c) /\ r.before = head /\ r.after = call[c].after
                /\ call[c].at = "plan" /\ call[c].kind = "run"
<1>1. call[c] \in CallRecord /\ Placed(call[c]) /\ call[c].at = "plan"
      /\ call[c].kind = "run" /\ head \in Base
  BY KindAt DEF RunPlan, At, TypeOK
<1>2. PICK p \in {"claim", "unlock"} : call' = [call EXCEPT ![c].before = head, ![c].at = p]
  BY DEF RunPlan
<1> DEFINE r == [call[c] EXCEPT !.before = head, !.at = p]
<1>3. /\ r \in CallRecord /\ r.at = p /\ r.kind = "run" /\ r.effect = call[c].effect
      /\ r.before = head /\ r.after = call[c].after
  BY <1>1, <1>2 DEF CallRecord, RunPlaces, RunLocked
<1>4. call' = [call EXCEPT ![c] = r]
  BY <1>2
<1> HIDE DEF r
<1>5. Placed(r)
  BY <1>1, <1>2, <1>3, PlacedRecord DEF RunPlaces, RunLocked
<1> QED BY <1>1, <1>2, <1>3, <1>4, <1>5 DEF Steps, Eff
\* The files an application aims at are a tree of the workspace.
LEMMA GoalTyped ==
  ASSUME TypeOK, Recorded, NEW e \in Effects, entry[e] # "absent"
  PROVE  Goal(e) \in Content
<1>1. CASE undoes[e] = None
  <2>1. stage[e].base.content \in Content /\ stage[e].content \in Content
    BY DEF TypeOK, StageRecord, Base
  <2>2. ApplyChanges(stage[e].base.content, Patch(e)) \in Content
    BY <2>1 DEF ApplyChanges, Patch, ChangesBetween, Content
  <2> QED BY <1>1, <2>2 DEF Goal
<1>2. CASE undoes[e] # None
  <2>1. records[undoes[e]] \in Record
    BY <1>2 DEF Recorded
  <2>2. records[undoes[e]].before \in Base
    BY <2>1 DEF Record
  <2>3. records[undoes[e]].before.content \in Content
    BY <2>2 DEF Base
  <2> QED BY <1>2, <2>3 DEF Goal
<1> QED BY <1>1, <1>2

LEMMA RunPrepareMoves ==
  ASSUME TypeOK, Recorded, CallsAreClaimed, NEW c \in Calls, RunPrepare(c)
  PROVE  \E r : /\ Steps(c, r) /\ r.at = "check" /\ r.kind = "run" /\ r.effect = Eff(c)
                /\ r.before = call[c].before /\ r.after \in Base
                /\ r.after.revision = revisions + 1
                /\ records' = [records EXCEPT ![Eff(c)] =
                     [before |-> r.before, after |-> r.after, completed |-> None]]
                /\ call[c].at = "prepare" /\ call[c].kind = "run" /\ call[c].before \in Base
<1>1. call[c] \in CallRecord /\ Placed(call[c]) /\ call[c].at = "prepare"
      /\ call[c].kind = "run" /\ Eff(c) \in Effects
  BY KindAt DEF RunPrepare, At
<1>2. entry[Eff(c)] # "absent"
  BY <1>1 DEF CallsAreClaimed, Dispatched, Claimed
<1> DEFINE after == Snapshot(Goal(Eff(c)))
<1>3. after \in Base /\ after.revision = revisions + 1
  BY <1>1, <1>2, GoalTyped DEF Snapshot, Base, TypeOK
<1>4. records' = [records EXCEPT ![Eff(c)] =
                    [before |-> call[c].before, after |-> after, completed |-> None]]
  <2>1. [NewRecord(c) EXCEPT !.after = after]
          = [before |-> call[c].before, after |-> after, completed |-> None]
    BY DEF NewRecord
  <2> QED BY <2>1 DEF RunPrepare
<1> DEFINE r == [call[c] EXCEPT !.after = after, !.at = "check"]
<1>5. call' = [call EXCEPT ![c] = r]
  BY DEF RunPrepare
<1> HIDE DEF after
<1>6. /\ r \in CallRecord /\ r.at = "check" /\ r.kind = "run" /\ r.effect = call[c].effect
      /\ r.before = call[c].before /\ r.after = after
  BY <1>1, <1>3 DEF CallRecord, RunPlaces, RunLocked
<1> HIDE DEF r
<1>7. call[c].before \in Base
  BY <1>1 DEF Placed
<1>8. Placed(r)
  BY <1>1, <1>3, <1>6, <1>7, PlacedRecord DEF RunPlaces, RunLocked
<1> QED BY <1>1, <1>3, <1>4, <1>5, <1>6, <1>7, <1>8 DEF Steps, Eff

\* A run that ends with a status goes on to save it.
LEMMA FinishMoves ==
  ASSUME TypeOK, NEW c \in Calls, NEW status \in Outcomes, NEW caught \in BOOLEAN,
         call[c].kind = "run", call[c].before \in Base,
         \/ call' = [call EXCEPT ![c].status = status, ![c].at = "save"]
         \/ call' = [call EXCEPT ![c].status = status, ![c].at = "save", ![c].caught = caught]
  PROVE  \E r : /\ Steps(c, r) /\ r.at = "save" /\ r.kind = "run" /\ r.effect = Eff(c)
                /\ r.before = call[c].before /\ r.after = call[c].after /\ r.status = status
<1>1. call[c] \in CallRecord /\ Placed(call[c]) /\ call[c].at # "idle"
  BY KindAt DEF RunPlaces, RunLocked
<1> DEFINE r1 == [call[c] EXCEPT !.status = status, !.at = "save"]
           r2 == [call[c] EXCEPT !.status = status, !.at = "save", !.caught = caught]
           saves(r) == /\ r \in CallRecord /\ r.at = "save" /\ r.kind = "run"
                       /\ r.effect = call[c].effect
                       /\ r.before = call[c].before /\ r.after = call[c].after /\ r.status = status
<1>2. saves(r1)
  BY <1>1 DEF CallRecord, RunPlaces, RunLocked
<1>3. saves(r2)
  BY <1>1 DEF CallRecord, RunPlaces, RunLocked
<1>4. \A r : saves(r) => Placed(r)
  BY <1>1, PlacedRecord DEF RunPlaces, RunLocked
<1>5. call' = [call EXCEPT ![c] = r1] \/ call' = [call EXCEPT ![c] = r2]
  OBVIOUS
<1> HIDE DEF r1, r2
<1> QED BY <1>2, <1>3, <1>4, <1>5 DEF Steps, Eff

LEMMA FinishSaveMoves ==
  ASSUME TypeOK, Recorded, NEW c \in Calls, FinishSave(c)
  PROVE  \E r : /\ Steps(c, r) /\ r.at = "commit" /\ r.kind = call[c].kind
                /\ r.effect = Eff(c) /\ r.before = call[c].before /\ r.after = call[c].after
                /\ r.status = SavedStatus(c)
                /\ records' = [records EXCEPT ![Eff(c)] =
                     [before |-> r.before, after |-> r.after, completed |-> r.status]]
                /\ r.before \in Base /\ call[c].at = "save" /\ Eff(c) \in Effects
                /\ call[c].kind \in {"run", "reconcile"}
<1>1. call[c] \in CallRecord /\ Placed(call[c]) /\ call[c].at = "save"
      /\ call[c].kind \in {"run", "reconcile"} /\ Eff(c) \in Effects
  BY KindAt DEF FinishSave, At
<1> DEFINE status == SavedStatus(c)
<1>2. status \in Outcomes \cup {None}
  <2>1. records[Eff(c)] \in Record \cup {None} /\ call[c].status \in Outcomes \cup {None}
    BY <1>1 DEF TypeOK, CallRecord
  <2>2. CASE call[c].kind = "reconcile"
    <3>1. records[Eff(c)] \in Record
      BY <1>1, <2>2 DEF Recorded, At
    <3> QED BY <2>1, <3>1 DEF SavedStatus, Record
  <2>3. CASE call[c].kind # "reconcile"
    BY <2>1, <2>3 DEF SavedStatus
  <2> QED BY <2>2, <2>3
<1>3. call[c].before \in Base
  BY <1>1 DEF Placed
<1> DEFINE r == [call[c] EXCEPT !.status = status, !.at = "commit"]
<1>4. /\ call' = [call EXCEPT ![c] = r]
      /\ records' = [records EXCEPT ![Eff(c)] =
           [before |-> call[c].before, after |-> call[c].after, completed |-> status]]
  BY DEF FinishSave
<1> HIDE DEF status
<1>5. /\ r \in CallRecord /\ r.at = "commit" /\ r.kind = call[c].kind
      /\ r.effect = call[c].effect /\ r.before = call[c].before /\ r.after = call[c].after
      /\ r.status = status
  BY <1>1, <1>2 DEF CallRecord, RunPlaces, RunLocked
<1> HIDE DEF r
<1>6. Placed(r)
  BY <1>1, <1>3, <1>5, PlacedRecord DEF RunPlaces, RunLocked, RecoveryPlaces, RecoveryLocked
<1> QED BY <1>1, <1>3, <1>4, <1>5, <1>6 DEF Steps, Eff, status
LEMMA RecoverExistsMoves ==
  ASSUME TypeOK, NEW c \in Calls, RecoverExists(c)
  PROVE  \E r : /\ Steps(c, r) /\ ~Holds(r)
                /\ \/ r = Idle
                   \/ r.kind = "reconcile" /\ r.effect = Eff(c) /\ r.at \in {"relock", "inspect"}
                /\ call[c].at = "exists" /\ call[c].kind = "reconcile"
<1>1. call[c] \in CallRecord /\ Placed(call[c]) /\ call[c].at = "exists"
      /\ call[c].kind = "reconcile" /\ Eff(c) \in Effects
  BY KindAt DEF RecoverExists, At
<1>2. CASE Goto(c, "relock")
  <2>1. PICK r : MovesTo(c, r, "relock")
    BY <1>1, <1>2, GotoMoves DEF RecoveryPlaces, RecoveryLocked
  <2> QED BY <1>1, <2>1 DEF MovesTo, Holds, Eff, RecoveryLocked
<1>3. CASE call' = [call EXCEPT ![c].arbiter = TRUE, ![c].at = "inspect"]
  <2> DEFINE r == [call[c] EXCEPT !.arbiter = TRUE, !.at = "inspect"]
  <2>1. call' = [call EXCEPT ![c] = r]
    BY <1>3
  <2>2. r \in CallRecord /\ r.at = "inspect" /\ r.kind = "reconcile" /\ r.effect = call[c].effect
    BY <1>1 DEF CallRecord, RecoveryPlaces
  <2> HIDE DEF r
  <2>3. Placed(r)
    BY <1>1, <2>2, PlacedRecord DEF RecoveryPlaces
  <2>4. ~Holds(r)
    BY <2>2 DEF Holds, RecoveryLocked
  <2> QED BY <1>1, <2>1, <2>2, <2>3, <2>4 DEF Steps, Eff
<1>4. CASE Return(c)
  BY <1>1, <1>4, ReturnSteps DEF Holds, Idle
<1> QED BY <1>2, <1>3, <1>4 DEF RecoverExists

LEMMA ReleaseArbiterMoves ==
  ASSUME TypeOK, NEW c \in Calls, ReleaseArbiter(c)
  PROVE  \E r : /\ Steps(c, r)
                /\ \/ r = Idle /\ call[c].at = "refused"
                   \/ /\ r.kind = "reconcile" /\ r.effect = Eff(c) /\ r.at = call[c].at
                      /\ r.before = call[c].before /\ r.after = call[c].after
                /\ call[c].at \in {"relock", "reown", "relocked", "refused"}
                /\ call[c].kind = "reconcile"
<1>1. call[c] \in CallRecord /\ Placed(call[c])
      /\ call[c].at \in {"relock", "reown", "relocked", "refused"}
      /\ call[c].kind = "reconcile" /\ Eff(c) \in Effects
  BY KindAt DEF ReleaseArbiter, At
<1>2. CASE Return(c) /\ call[c].at = "refused"
  BY <1>1, <1>2, ReturnSteps
<1>3. CASE call' = [call EXCEPT ![c].arbiter = FALSE]
  <2> DEFINE r == [call[c] EXCEPT !.arbiter = FALSE]
  <2>1. call' = [call EXCEPT ![c] = r]
    BY <1>3
  <2>2. /\ r \in CallRecord /\ r.at = call[c].at /\ r.kind = "reconcile"
        /\ r.effect = call[c].effect /\ r.before = call[c].before /\ r.after = call[c].after
    BY <1>1 DEF CallRecord
  <2> HIDE DEF r
  <2>3. Placed(r)
    BY <1>1, <2>2, PlacedRecord DEF RecoveryPlaces, RecoveryLocked
  <2> QED BY <1>1, <2>1, <2>2, <2>3 DEF Steps, Eff
<1> QED BY <1>2, <1>3 DEF ReleaseArbiter, At

LEMMA ReconcileReadMoves ==
  ASSUME TypeOK, NEW c \in Calls, ReconcileRead(c)
  PROVE  \E r : /\ Steps(c, r) /\ call[c].at = "relocked" /\ call[c].kind = "reconcile"
                /\ Eff(c) \in Effects
                /\ \/ r = Idle
                   \/ /\ r.kind = "reconcile" /\ r.effect = Eff(c) /\ r.at = "decide"
                      /\ r.before = head /\ records[Eff(c)] \in Record
<1>1. call[c] \in CallRecord /\ Placed(call[c]) /\ call[c].at = "relocked"
      /\ call[c].kind = "reconcile" /\ Eff(c) \in Effects /\ head \in Base
      /\ records[Eff(c)] \in Record \cup {None}
  BY KindAt DEF ReconcileRead, At, TypeOK
<1>2. CASE records[Eff(c)] = None
  BY <1>1, <1>2, ReturnSteps DEF ReconcileRead
<1>3. CASE records[Eff(c)] # None
  <2> DEFINE r == [call[c] EXCEPT !.at = "decide", !.before = head]
  <2>1. call' = [call EXCEPT ![c] = r]
    BY <1>3 DEF ReconcileRead
  <2>2. /\ r \in CallRecord /\ r.at = "decide" /\ r.kind = "reconcile"
        /\ r.effect = call[c].effect /\ r.before = head
    BY <1>1 DEF CallRecord, RecoveryPlaces, RecoveryLocked
  <2> HIDE DEF r
  <2>3. Placed(r)
    BY <1>1, <2>2, PlacedRecord DEF RecoveryPlaces, RecoveryLocked
  <2> QED BY <1>1, <1>3, <2>1, <2>2, <2>3 DEF Steps, Eff
<1> QED BY <1>2, <1>3

\* A reconciliation saves an outcome only when the target is where the record puts it.
LEMMA ReconcileDecideMoves ==
  ASSUME TypeOK, Recorded, NEW c \in Calls, ReconcileDecide(c)
  PROVE  \E r : /\ Steps(c, r) /\ call[c].at = "decide" /\ call[c].kind = "reconcile"
                /\ Eff(c) \in Effects /\ records[Eff(c)] \in Record
                /\ \/ r = Idle
                   \/ r.kind = "reconcile" /\ r.effect = Eff(c) /\ r.at = "unlock"
                   \/ /\ r.kind = "reconcile" /\ r.effect = Eff(c) /\ r.at = "save"
                      /\ r.before = records[Eff(c)].before /\ r.after = records[Eff(c)].after
                      /\ \/ /\ r.status = "completed" /\ r.after # None
                            /\ call[c].before = r.after
                         \/ /\ r.status = "not-executed" /\ call[c].before = r.before
                            /\ r.after = None \/ call[c].before # r.after
<1>1. call[c] \in CallRecord /\ Placed(call[c]) /\ call[c].at = "decide"
      /\ call[c].kind = "reconcile" /\ Eff(c) \in Effects /\ records[Eff(c)] \in Record
  BY KindAt DEF ReconcileDecide, At, Recorded
<1>2. CASE Return(c)
  BY <1>1, <1>2, ReturnSteps
<1>3. CASE Goto(c, "unlock")
  <2>1. PICK r : MovesTo(c, r, "unlock")
    BY <1>1, <1>3, GotoMoves DEF RecoveryPlaces, RecoveryLocked
  <2> QED BY <1>1, <2>1 DEF MovesTo, Eff
<1>4. ASSUME ~Return(c), ~Goto(c, "unlock")
      PROVE  \E status \in {"completed", "not-executed"} :
               /\ call' = [call EXCEPT ![c].before = records[Eff(c)].before,
                                       ![c].after = records[Eff(c)].after,
                                       ![c].at = "save", ![c].status = status]
               /\ status = "completed" => IsApplied(records[Eff(c)], call[c].before)
               /\ status = "not-executed" =>
                    /\ ~IsApplied(records[Eff(c)], call[c].before)
                    /\ call[c].before = records[Eff(c)].before
  BY <1>4 DEF ReconcileDecide, SameBase
<1>5. CASE ~Return(c) /\ ~Goto(c, "unlock")
  <2> DEFINE b == records[Eff(c)].before
             a == records[Eff(c)].after
  <2>1. PICK status \in {"completed", "not-executed"} :
               /\ call' = [call EXCEPT ![c].before = b, ![c].after = a,
                                       ![c].at = "save", ![c].status = status]
               /\ status = "completed" => IsApplied(records[Eff(c)], call[c].before)
               /\ status = "not-executed" =>
                    ~IsApplied(records[Eff(c)], call[c].before) /\ call[c].before = b
    BY <1>4, <1>5
  <2>2. b \in Base /\ a \in Base \cup {None}
    BY <1>1 DEF Record
  <2>3. /\ status = "completed" => a # None /\ call[c].before = a
        /\ status = "not-executed" =>
             call[c].before = b /\ (a = None \/ call[c].before # a)
    BY <2>1 DEF IsApplied, SameBase
  <2> HIDE DEF a, b
  <2> DEFINE r == [call[c] EXCEPT !.before = b, !.after = a, !.at = "save", !.status = status]
  <2>4. call' = [call EXCEPT ![c] = r]
    BY <2>1
  <2>5. /\ r \in CallRecord /\ r.at = "save" /\ r.kind = "reconcile"
        /\ r.effect = call[c].effect /\ r.before = b /\ r.after = a /\ r.status = status
    BY <1>1, <2>2 DEF CallRecord, RecoveryPlaces, RecoveryLocked, Outcomes
  <2> HIDE DEF r
  <2>6. Placed(r)
    BY <1>1, <2>2, <2>5, PlacedRecord DEF RecoveryPlaces, RecoveryLocked
  <2> QED BY <1>1, <2>3, <2>4, <2>5, <2>6 DEF Steps, Eff, a, b
<1> QED BY <1>2, <1>3, <1>5
LEMMA RunThrowMoves ==
  ASSUME TypeOK, NEW c \in Calls, RunThrow(c)
  PROVE  \E r : /\ Steps(c, r) /\ call[c].kind = "run" /\ Eff(c) \in Effects
                /\ \/ /\ r = Idle
                      /\ call[c].at \in {"record", "prepare", "check", "swap", "observe", "save",
                                         "commit"}
                   \/ call[c].at = "plan" /\ MovesTo(c, r, "unlock")
                   \/ /\ call[c].at \in {"record", "prepare", "check", "swap", "observe", "save",
                                         "commit"}
                      /\ head = call[c].before /\ r.at = "save" /\ r.kind = "run"
                      /\ r.effect = Eff(c) /\ r.status = "failed"
                      /\ r.before = call[c].before /\ r.after = call[c].after
<1>1. call[c] \in CallRecord /\ Placed(call[c]) /\ call[c].kind = "run" /\ Eff(c) \in Effects
      /\ call[c].at \in {"plan", "record", "prepare", "check", "swap", "observe", "save", "commit"}
  BY KindAt DEF RunThrow, At
<1>2. CASE call[c].at = "plan" /\ Goto(c, "unlock")
  <2>1. \E r : MovesTo(c, r, "unlock")
    BY <1>1, <1>2, GotoMoves DEF RunPlaces, RunLocked
  <2> QED BY <1>1, <1>2, <2>1 DEF MovesTo
<1>3. CASE call[c].at # "plan" /\ Return(c)
  BY <1>1, <1>3, ReturnSteps
<1>4. CASE /\ call[c].at # "plan" /\ head = call[c].before
           /\ call' = [call EXCEPT ![c].status = "failed", ![c].at = "save", ![c].caught = TRUE]
  <2>1. call[c].before \in Base
    BY <1>1, <1>4 DEF Placed
  <2>2. "failed" \in Outcomes /\ TRUE \in BOOLEAN
    BY DEF Outcomes
  <2>3. \E r : /\ Steps(c, r) /\ r.at = "save" /\ r.kind = "run" /\ r.effect = Eff(c)
               /\ r.before = call[c].before /\ r.after = call[c].after /\ r.status = "failed"
    BY <1>1, <1>4, <2>1, <2>2, FinishMoves
  <2> QED BY <1>1, <1>4, <2>3
<1> QED BY <1>1, <1>2, <1>3, <1>4 DEF RunThrow, At, SameBase

-----------------------------------------------------------------------------
(* The lock.                                                                 *)

\* The lock is as before for everybody, but its owner file may have been written.
SameOwner ==
  /\ lock' \in Lock \cup {None}
  /\ lock' = None <=> lock = None
  /\ lock # None => /\ lock'.owner = lock.owner /\ lock'.effect = lock.effect
                    /\ lock'.stuck = lock.stuck /\ (lock.evidence => lock'.evidence)

ClaimedNext(e) == entry'[e] \in {"dispatched", "resolved"}

ClaimsKept == \A e \in Effects : Claimed(e) => ClaimedNext(e)

\* Who holds the lock is its owner, so nobody else holds it.
LEMMA HoldsAlone ==
  ASSUME OneCallEach, HoldersOwn, NEW c \in Calls, NEW d \in Calls,
         Holds(call[c]), Holds(call[d])
  PROVE  c = d
BY DEF OneCallEach, HoldersOwn

\* Claims are for ever, so a call that moves on leaves those of the others alone.
LEMMA ClaimsStay ==
  ASSUME TypeOK, LockInv, NEW c \in Calls, NEW r, Steps(c, r), ClaimsKept,
         Dispatched(r) => ClaimedNext(r.effect)
  PROVE  CallsAreClaimed'
<1>1. call'[c] = r /\ \A d \in Calls : d # c => call'[d] = call[d]
  BY CallsTyped
<1> SUFFICES ASSUME NEW d \in Calls, Dispatched(call'[d])
             PROVE  ClaimedNext(call'[d].effect)
  BY DEF CallsAreClaimed, Claimed, ClaimedNext, Eff, Dispatched
<1>2. CASE d = c
  BY <1>1, <1>2
<1>3. CASE d # c
  <2>1. call'[d] = call[d]
    BY <1>1, <1>3
  <2>2. Claimed(Eff(d))
    BY <2>1 DEF LockInv, CallsAreClaimed
  <2>3. call[d].kind \in {"run", "reconcile"}
    BY <2>1 DEF Dispatched
  <2>4. Eff(d) \in Effects
    BY <2>3, KindAt DEF RunPlaces, RunLocked, RecoveryPlaces, RecoveryLocked
  <2> QED BY <2>1, <2>2, <2>4 DEF ClaimsKept, Eff
<1> QED BY <1>2, <1>3

\* A call moves on while the lock keeps its owner: it does not become a holder, and if it
\* stops being one without giving the lock back, its effect has been claimed under a lock that
\* names its owner.
LEMMA LockStays ==
  ASSUME TypeOK, LockInv, NEW c \in Calls, NEW r, Steps(c, r), SameOwner, ClaimsKept,
         Holds(r) => Holds(call[c]) /\ r.effect = Eff(c),
         Holds(call[c]) /\ ~Holds(r) => ClaimedNext(Eff(c)) /\ Evidenced(call[c]),
         Holds(r) /\ Evidenced(r) => Evidenced(call[c]) \/ (lock # None /\ lock'.evidence),
         Dispatched(r) => ClaimedNext(r.effect)
  PROVE  LockInv'
<1>1. call'[c] = r /\ \A d \in Calls : d # c => call'[d] = call[d]
  BY CallsTyped
<1>0. \A q : Evidenced(q) => Holds(q)
  BY DEF Evidenced, Holds
<1>2. HoldersOwn'
  <2>1. \A d \in Calls : Holds(call'[d]) => Holds(call[d]) /\ call'[d].effect = Eff(d)
    BY <1>1 DEF Eff
  <2>2. \A d \in Calls : Evidenced(call'[d]) =>
          Evidenced(call[d]) \/ (lock # None /\ lock'.evidence)
    BY <1>0, <1>1
  <2>3. \A d \in Calls : Evidenced(call[d]) => lock # None /\ lock.evidence
    BY <1>0 DEF LockInv, HoldersOwn
  <2>4. \A d \in Calls : Evidenced(call'[d]) => lock'.evidence
    BY <2>2, <2>3 DEF SameOwner
  <2>5. \A d \in Calls : Holds(call'[d]) =>
          lock' # None /\ lock'.owner = Serves[d] /\ lock'.effect = call'[d].effect
    BY <2>1 DEF LockInv, HoldersOwn, SameOwner
  <2> QED BY <2>4, <2>5 DEF HoldersOwn, Eff, Holds, Evidenced
<1>3. CallsAreClaimed'
  BY ClaimsStay
<1>4. LocksAreExplained'
  <2> SUFFICES ASSUME lock' # None, Alive(lock'.owner), ~lock'.stuck,
                      ~(ClaimedNext(lock'.effect) /\ lock'.evidence)
               PROVE  \E d \in Calls : Serves[d] = lock'.owner /\ Holds(call'[d])
    BY DEF LocksAreExplained, Alive, Claimed, ClaimedNext, Holds
  <2>1. lock # None /\ lock'.owner = lock.owner /\ lock'.effect = lock.effect
        /\ lock.effect \in Effects /\ ~lock.stuck /\ (lock.evidence => lock'.evidence)
    BY DEF SameOwner, TypeOK, Lock
  <2>2. ~(Claimed(lock.effect) /\ lock.evidence)
    BY <2>1 DEF ClaimsKept
  <2>3. PICK d \in Calls : Serves[d] = lock.owner /\ Holds(call[d])
    BY <2>1, <2>2 DEF LockInv, LocksAreExplained, Alive
  <2>4. lock.effect = Eff(d) /\ (Evidenced(call[d]) => lock.evidence)
    BY <2>3 DEF LockInv, HoldersOwn
  <2>5. Holds(call'[d])
    <3>1. CASE d # c
      BY <1>1, <2>3, <3>1
    <3>2. CASE d = c
      BY <1>1, <2>1, <2>3, <2>4, <3>2
    <3> QED BY <3>1, <3>2
  <2> QED BY <2>1, <2>3, <2>5
<1> QED BY <1>2, <1>3, <1>4 DEF LockInv

\* The lock stays behind stuck, when nobody but this call held it and it stops doing so.
LEMMA LockStuck ==
  ASSUME TypeOK, LockInv, NEW c \in Calls, NEW r, Steps(c, r), ClaimsKept, lock # None,
         lock'.stuck, ~Holds(r), \A d \in Calls : Holds(call[d]) => d = c,
         Dispatched(r) => ClaimedNext(r.effect)
  PROVE  LockInv'
<1>1. call'[c] = r /\ \A d \in Calls : d # c => call'[d] = call[d]
  BY CallsTyped
<1>2. \A d \in Calls : ~Holds(call'[d]) /\ ~Evidenced(call'[d])
  BY <1>1 DEF Evidenced, Holds
<1>3. HoldersOwn'
  BY <1>2 DEF HoldersOwn, Holds, Evidenced
<1>4. CallsAreClaimed'
  BY ClaimsStay
<1>5. LocksAreExplained'
  BY DEF LocksAreExplained
<1> QED BY <1>3, <1>4, <1>5 DEF LockInv

\* A call that finds no lock makes one and holds it.
LEMMA LockTaken ==
  ASSUME TypeOK, LockInv, NEW c \in Calls, NEW r, Steps(c, r), ClaimsKept, lock = None,
         lock' = [owner |-> Serves[c], effect |-> Eff(c), evidence |-> FALSE, stuck |-> FALSE],
         Eff(c) \in Effects, Holds(r), ~Evidenced(r), r.effect = Eff(c),
         Dispatched(r) => ClaimedNext(r.effect)
  PROVE  LockInv' /\ lock' \in Lock
<1>1. call'[c] = r /\ \A d \in Calls : d # c => call'[d] = call[d]
  BY CallsTyped
<1>2. \A d \in Calls : ~Holds(call[d]) /\ ~Evidenced(call[d])
  BY DEF LockInv, HoldersOwn, Evidenced, Holds
<1>3. lock' \in Lock /\ lock' # None /\ lock'.owner = Serves[c] /\ lock'.effect = Eff(c)
  <2>1. Serves[c] \in Instances
    BY WorkspaceAssumption
  <2>2. lock' \in Lock
    BY <2>1 DEF Lock
  <2>3. lock' # None
    BY <2>2, AbsentAssumption
  <2> QED BY <2>2, <2>3
<1>4. HoldersOwn'
  BY <1>1, <1>2, <1>3 DEF HoldersOwn, Eff
<1>5. CallsAreClaimed'
  BY ClaimsStay
<1>6. LocksAreExplained'
  BY <1>1, <1>3 DEF LocksAreExplained
<1> QED BY <1>3, <1>4, <1>5, <1>6 DEF LockInv

\* Removing the directory is right for whoever holds it, and when nobody does.
LEMMA LockRemoved ==
  ASSUME TypeOK, LockInv, OneCallEach, NEW c \in Calls, NEW r, Steps(c, r), ClaimsKept,
         lock' = None, ~Holds(r), \A d \in Calls : Holds(call[d]) => d = c,
         Dispatched(r) => ClaimedNext(r.effect)
  PROVE  LockInv'
<1>1. call'[c] = r /\ \A d \in Calls : d # c => call'[d] = call[d]
  BY CallsTyped
<1>2. HoldersOwn'
  <2>1. \A d \in Calls : ~Holds(call'[d]) /\ ~Evidenced(call'[d])
    BY <1>1 DEF Evidenced, Holds
  <2> QED BY <2>1 DEF HoldersOwn, Holds, Evidenced
<1>3. CallsAreClaimed'
  BY ClaimsStay
<1>4. LocksAreExplained'
  BY DEF LocksAreExplained
<1> QED BY <1>2, <1>3, <1>4 DEF LockInv
-----------------------------------------------------------------------------
(* What the steps of a call leave alone.                                     *)

Inv == TypeOK /\ Recorded /\ LockInv /\ HistoryInv

\* Nothing is written but locks, the fence and what the call itself remembers.
Quiet ==
  /\ UNCHANGED <<undoes, stage, entry, receipts, head, revisions, records, published>>
  /\ lock' \in Lock \cup {None}

\* A call that decides by a record has one.
DecidesByRecord(r) ==
  r.kind = "reconcile" /\ r.at \in {"decide", "save", "commit"} => records[r.effect] \in Record

\* Before its claim and after its commit nothing is said of a call but that it has no snapshot.
LEMMA NothingToTell ==
  ASSUME NEW r, Placed(r),
         r.at \in {"idle", "lock", "owner", "plan", "unlock", "exists", "inspect", "relock",
                   "reown", "refused", "relocked"},
         r.kind = "run" /\ r.at # "unlock" => r.after = None
  PROVE  CallInv(r) /\ DecidesByRecord(r)
BY DEF CallInv, BasedOnPublished, RunKnows, InHand, OutcomeIsTrue, ReadIsTelling, DecidesByRecord

LEMMA QuietKeeps ==
  ASSUME Inv, NEW c \in Calls, NEW r, Steps(c, r), Quiet, LockInv', CallInv(r),
         DecidesByRecord(r)
  PROVE  Inv'
<1>1. /\ call' \in [Calls -> CallRecord] /\ \A d \in Calls : Placed(call'[d])
      /\ call'[c] = r /\ \A d \in Calls : d # c => call'[d] = call[d]
  BY CallsTyped DEF Inv
<1>2. TypeOK'
  BY <1>1 DEF Inv, TypeOK, Quiet
<1>3. Recorded'
  BY <1>1 DEF Inv, Recorded, Quiet, DecidesByRecord, At, Eff
<1>4. TargetInv'
  BY DEF Inv, HistoryInv, TargetInv, Quiet, PublishedOnce, RevisionsGrow, TargetShowsPublished,
         RecordsAreTrue, ReceiptsTellTheTruth, Prepared, Claimed, ReceiptOf
<1>5. \A d \in Calls : CallInv(call'[d])
  BY <1>1 DEF Inv, HistoryInv
<1>6. \A q : CallInv(q) => CallInv(q)'
  BY DEF Quiet, CallInv, BasedOnPublished, RunKnows, InHand, OutcomeIsTrue, ReadIsTelling,
         OfRecord, Prepared, ReceiptOf
<1>7. HistoryInv'
  BY <1>4, <1>5, <1>6 DEF HistoryInv, CallInv, BasedOnPublished, RunKnows, InHand,
     OutcomeIsTrue, ReadIsTelling, OfRecord, Prepared, ReceiptOf
<1> QED BY <1>2, <1>3, <1>7 DEF Inv

\* What is said of a call that does not hold the lock is said of no state.
LEMMA NotConcerned ==
  ASSUME NEW q, Placed(q), ~Holds(q), CallInv(q)
  PROVE  CallInv(q)'
BY DEF Placed, Idle, Holds, RunPlaces, RunLocked, RecoveryPlaces, RecoveryLocked, CallInv,
       BasedOnPublished, RunKnows, InHand, OutcomeIsTrue, ReadIsTelling
\* A quiet step with the lock of before.
LEMMA QuietStep ==
  ASSUME Inv, NEW c \in Calls, NEW r, Steps(c, r), Quiet, SameOwner,
         CallInv(r), DecidesByRecord(r),
         Holds(r) => Holds(call[c]) /\ r.effect = Eff(c),
         Holds(call[c]) /\ ~Holds(r) => Claimed(Eff(c)) /\ Evidenced(call[c]),
         Holds(r) /\ Evidenced(r) => Evidenced(call[c]) \/ (lock # None /\ lock'.evidence),
         Dispatched(r) => Claimed(r.effect)
  PROVE  Inv'
<1>1. ClaimsKept /\ \A e : Claimed(e) => ClaimedNext(e)
  BY DEF Quiet, ClaimsKept, Claimed, ClaimedNext
<1>2. LockInv'
  BY <1>1, LockStays DEF Inv
<1> QED BY <1>2, QuietKeeps

\* A lock that stays as it is has the owner it had.
LEMMA LockUntouched ==
  ASSUME TypeOK, lock' = lock
  PROVE  SameOwner
BY DEF TypeOK, SameOwner

LEMMA RunBeginKeeps ==
  ASSUME Inv, NEW c \in Calls, NEW e \in Effects, RunBegin(c, e)
  PROVE  Inv'
<1>1. PICK r : /\ Steps(c, r) /\ r.at = "lock" /\ r.kind = "run" /\ r.effect = e
               /\ r.after = None /\ call[c].at = "idle"
  BY RunBeginMoves
<1>2. Quiet /\ SameOwner
  BY LockUntouched DEF RunBegin, NothingInDurable, journal, files, target, Quiet, Inv, TypeOK
<1>3. CallInv(r) /\ DecidesByRecord(r)
  BY <1>1, NothingToTell DEF Steps
<1>4. ~Holds(r) /\ ~Dispatched(r) /\ ~Holds(call[c])
  BY <1>1 DEF Holds, Dispatched, RunLocked, RecoveryLocked
<1> QED BY <1>1, <1>2, <1>3, <1>4, QuietStep

LEMMA ReconcileBeginKeeps ==
  ASSUME Inv, NEW c \in Calls, NEW e \in Effects, ReconcileBegin(c, e)
  PROVE  Inv'
<1>1. PICK r : /\ Steps(c, r) /\ r.at = "exists" /\ r.kind = "reconcile" /\ r.effect = e
               /\ call[c].at = "idle"
  BY ReconcileBeginMoves
<1>2. Quiet /\ SameOwner
  BY LockUntouched
     DEF ReconcileBegin, NothingInDurable, journal, files, target, Quiet, Inv, TypeOK
<1>3. CallInv(r) /\ DecidesByRecord(r)
  BY <1>1, NothingToTell DEF Steps
<1>4. ~Holds(r) /\ ~Holds(call[c])
  BY <1>1 DEF Holds, RunLocked, RecoveryLocked
<1>5. Claimed(e)
  BY DEF ReconcileBegin, Claimed
<1> QED BY <1>1, <1>2, <1>3, <1>4, <1>5, QuietStep

\* Taking the lock, for a run or for a recovery; a lock that is there is left.
LEMMA TakeLockKeeps ==
  ASSUME Inv, NEW c \in Calls, NEW granted, NEW refused, TakeLock(c, granted, refused),
         \/ call[c].at = "lock" /\ granted = "owner" /\ refused = "idle"
         \/ call[c].at = "relock" /\ granted = "reown" /\ refused \in {"idle", "refused"},
         UNCHANGED <<undoes, stage, journal, arbiter, fence, records, target, upsets>>
  PROVE  Inv'
<1>1. /\ call[c] \in CallRecord /\ Placed(call[c]) /\ Eff(c) \in Effects
      /\ call[c].at = "lock" => call[c].kind = "run"
      /\ call[c].at = "relock" => call[c].kind = "reconcile"
  BY KindAt DEF Inv
<1>2. ~Holds(call[c])
  BY <1>1 DEF Holds, RunLocked, RecoveryLocked
<1>3. call[c].kind = "run" => call[c].after = None
  BY <1>1 DEF Inv, HistoryInv, CallInv, RunKnows
<1>4. call[c].kind = "reconcile" => Claimed(Eff(c))
  BY DEF Inv, LockInv, CallsAreClaimed, Dispatched
<1>5. CASE lock = None
  <2>1. Goto(c, granted)
        /\ lock' = [owner |-> Serves[c], effect |-> Eff(c), evidence |-> FALSE, stuck |-> FALSE]
    BY <1>5 DEF TakeLock
  <2>2. PICK r : MovesTo(c, r, granted)
    BY <1>1, <2>1, GotoMoves DEF Inv, RunPlaces, RecoveryPlaces
  <2>3. Steps(c, r) /\ r.kind = call[c].kind /\ r.effect = Eff(c) /\ r.at = granted
        /\ r.after = call[c].after
    BY <2>2 DEF MovesTo, Eff
  <2>4. Holds(r) /\ ~Evidenced(r)
    BY <1>1, <2>3 DEF Holds, Evidenced, RunLocked, RecoveryLocked
  <2>5. ClaimsKept /\ (Dispatched(r) => ClaimedNext(r.effect))
    BY <1>1, <1>4, <2>3 DEF ClaimsKept, Claimed, ClaimedNext, Dispatched, journal
  <2>6. LockInv' /\ lock' \in Lock
    BY <1>1, <1>5, <2>1, <2>3, <2>4, <2>5, LockTaken DEF Inv
  <2>7. Quiet
    BY <2>6 DEF Quiet, journal, target
  <2>8. CallInv(r) /\ DecidesByRecord(r)
    BY <1>1, <1>3, <2>3, NothingToTell DEF Steps
  <2> QED BY <2>3, <2>6, <2>7, <2>8, QuietKeeps
<1>6. CASE lock # None
  <2>1. lock' = lock /\ (Return(c) \/ (call[c].at = "relock" /\ Goto(c, "refused")))
    BY <1>6 DEF TakeLock
  <2>2. PICK r : /\ Steps(c, r)
                 /\ r.kind = "run" => r.after = None
                 /\ r = Idle \/ (MovesTo(c, r, "refused") /\ call[c].at = "relock")
    <3>1. CASE Return(c)
      BY <3>1, ReturnSteps DEF Idle
    <3>2. CASE call[c].at = "relock" /\ Goto(c, "refused")
      <4>1. \E r : MovesTo(c, r, "refused")
        BY <1>1, <3>2, GotoMoves DEF Inv, RecoveryPlaces
      <4> QED BY <1>1, <3>2, <4>1 DEF MovesTo
    <3> QED BY <2>1, <3>1, <3>2
  <2>3. Quiet /\ SameOwner
    BY <2>1, LockUntouched DEF Quiet, journal, target, Inv, TypeOK
  <2>4. CallInv(r) /\ DecidesByRecord(r)
    BY <2>2, NothingToTell DEF Steps, MovesTo, Idle
  <2>5. ~Holds(r) /\ (Dispatched(r) => Claimed(r.effect))
    BY <1>1, <1>4, <2>2 DEF MovesTo, Idle, Holds, Dispatched, RunLocked, RecoveryLocked, Eff
  <2> QED BY <1>2, <2>2, <2>3, <2>4, <2>5, QuietStep
<1> QED BY <1>5, <1>6

LEMMA WriteOwnerKeeps ==
  ASSUME Inv, NEW c \in Calls,
         WriteOwner(c, "owner", "plan") \/ WriteOwner(c, "reown", "relocked")
  PROVE  Inv'
<1>1. PICK p : /\ Goto(c, p)
               /\ \/ call[c].at = "owner" /\ p = "plan"
                  \/ call[c].at = "reown" /\ p = "relocked"
  BY DEF WriteOwner, At
<1>2. /\ call[c] \in CallRecord /\ Placed(call[c]) /\ Eff(c) \in Effects
      /\ call[c].at = "owner" => call[c].kind = "run"
      /\ call[c].at = "reown" => call[c].kind = "reconcile"
  BY <1>1, KindAt DEF Inv
<1>3. call[c].kind = "run" => call[c].after = None
  BY <1>1, <1>2 DEF Inv, HistoryInv, CallInv, RunKnows
<1>4. PICK r : MovesTo(c, r, p)
  BY <1>1, <1>2, GotoMoves DEF Inv, RunPlaces, RunLocked, RecoveryPlaces, RecoveryLocked
<1>5. Steps(c, r) /\ r.kind = call[c].kind /\ r.effect = Eff(c) /\ r.at = p
      /\ r.after = call[c].after
  BY <1>4 DEF MovesTo, Eff
<1>6. SameOwner /\ lock # None /\ lock'.evidence
  <2>1. lock # None /\ lock' = [lock EXCEPT !.evidence = TRUE] /\ lock \in Lock
    BY DEF WriteOwner, Inv, TypeOK
  <2>2. /\ lock' \in Lock /\ lock'.owner = lock.owner /\ lock'.effect = lock.effect
        /\ lock'.stuck = lock.stuck /\ lock'.evidence
    BY <2>1 DEF Lock
  <2> QED BY <2>1, <2>2, AbsentAssumption DEF SameOwner
<1>7. Quiet
  BY <1>6 DEF WriteOwner, Quiet, SameOwner, journal, target
<1>8. CallInv(r) /\ DecidesByRecord(r)
  BY <1>1, <1>2, <1>3, <1>5, NothingToTell DEF Steps
<1>9. Holds(r) /\ Holds(call[c])
  BY <1>1, <1>2, <1>5 DEF Holds, RunLocked, RecoveryLocked
<1>10. Dispatched(r) => Claimed(r.effect)
  BY <1>1, <1>2, <1>5 DEF Inv, LockInv, CallsAreClaimed, Dispatched
<1> QED BY <1>5, <1>6, <1>7, <1>8, <1>9, <1>10, QuietStep
\* The plan is based on the target, which is at or past everything published.
LEMMA RunPlanKeeps ==
  ASSUME Inv, NEW c \in Calls, RunPlan(c)
  PROVE  Inv'
<1>1. PICK r : /\ Steps(c, r) /\ r.at \in {"claim", "unlock"} /\ r.kind = "run"
               /\ r.effect = Eff(c) /\ r.before = head /\ r.after = call[c].after
               /\ call[c].at = "plan" /\ call[c].kind = "run"
  BY RunPlanMoves DEF Inv
<1>2. Quiet /\ SameOwner
  BY LockUntouched DEF RunPlan, journal, target, Quiet, Inv, TypeOK
<1>3. call[c].after = None
  BY <1>1 DEF Inv, HistoryInv, CallInv, RunKnows
<1>4. BasedOnPublished(r)
  BY <1>1 DEF Inv, HistoryInv, TargetInv, RevisionsGrow, TargetShowsPublished, BasedOnPublished,
              TypeOK, Base
<1>5. CallInv(r) /\ DecidesByRecord(r)
  BY <1>1, <1>3, <1>4 DEF CallInv, RunKnows, InHand, OutcomeIsTrue, ReadIsTelling,
                          DecidesByRecord
<1>6. Holds(r) /\ Holds(call[c]) /\ Evidenced(call[c]) /\ ~Dispatched(r)
  BY <1>1 DEF Holds, Evidenced, RunLocked, Dispatched
<1> QED BY <1>1, <1>2, <1>5, <1>6, QuietStep

LEMMA RunObserveKeeps ==
  ASSUME Inv, NEW c \in Calls, RunObserve(c)
  PROVE  Inv'
<1>1. call[c] \in CallRecord /\ Placed(call[c]) /\ Eff(c) \in Effects
      /\ call[c].at = "observe" /\ call[c].kind = "run"
  BY KindAt DEF Inv, RunObserve, At
<1>2. Quiet /\ SameOwner
  BY LockUntouched
     DEF RunObserve, NothingInDurable, journal, files, target, Quiet, Inv, TypeOK
<1>3. Claimed(Eff(c)) /\ Holds(call[c]) /\ Evidenced(call[c])
  BY <1>1 DEF Inv, LockInv, CallsAreClaimed, Dispatched, Holds, Evidenced, RunLocked
<1>4. CASE Return(c)
  <2>1. Steps(c, Idle)
    BY <1>4, ReturnSteps
  <2>2. CallInv(Idle) /\ DecidesByRecord(Idle) /\ ~Dispatched(Idle) /\ ~Holds(Idle)
    BY IdleTyped, NothingToTell DEF Idle, Dispatched, Holds
  <2> QED BY <1>2, <1>3, <2>1, <2>2, QuietStep
<1>5. CASE Finish(c, "completed")
  <2>1. "completed" \in Outcomes /\ TRUE \in BOOLEAN /\ call[c].before \in Base
    BY <1>1 DEF Outcomes, Placed
  <2>2. PICK r : /\ Steps(c, r) /\ r.at = "save" /\ r.kind = "run" /\ r.effect = Eff(c)
                 /\ r.before = call[c].before /\ r.after = call[c].after
                 /\ r.status = "completed"
    BY <1>1, <1>5, <2>1, FinishMoves DEF Finish, Inv
  <2>3. /\ published[Eff(c)] = 1 /\ OfRecord(call[c])
    BY <1>1 DEF Inv, HistoryInv, CallInv, RunKnows, InHand, Eff
  <2>4. CallInv(r) /\ DecidesByRecord(r)
    BY <2>2, <2>3 DEF CallInv, BasedOnPublished, RunKnows, InHand, OutcomeIsTrue, ReadIsTelling,
                      DecidesByRecord, OfRecord, Eff
  <2>5. Holds(r)
    BY <2>2 DEF Holds, RunLocked
  <2> QED BY <1>2, <1>3, <2>2, <2>4, <2>5, QuietStep
<1> QED BY <1>4, <1>5 DEF RunObserve

\* While the target is where a run started, its snapshot has not been selected.
LEMMA TargetUnmoved ==
  ASSUME Inv, NEW c \in Calls, call[c].kind = "run", head = call[c].before,
         call[c].at \in {"record", "prepare", "check", "swap", "observe", "save", "commit"}
  PROVE  published[Eff(c)] = 0
<1>1. Eff(c) \in Effects
  BY KindAt DEF Inv
<1>2. published[Eff(c)] \in {0, 1}
  BY <1>1 DEF Inv, HistoryInv, TargetInv, PublishedOnce
<1>3. CASE call[c].at \in {"record", "prepare", "check", "swap"}
  BY <1>3 DEF Inv, HistoryInv, CallInv, RunKnows, Eff
<1>4. ASSUME call[c].at \in {"observe", "save", "commit"}, published[Eff(c)] = 1
      PROVE  FALSE
  <2>1. records[Eff(c)] # None /\ records[Eff(c)].before = head
    BY <1>4 DEF Inv, HistoryInv, CallInv, InHand, OfRecord, Eff
  <2>2. Prepared(Eff(c)) /\ head.revision >= records[Eff(c)].after.revision
    BY <1>1, <1>4 DEF Inv, HistoryInv, TargetInv, TargetShowsPublished
  <2>3. records[Eff(c)].after.revision > head.revision
    BY <1>1, <2>1, <2>2 DEF Inv, HistoryInv, TargetInv, RevisionsGrow
  <2>4. head.revision \in Nat /\ records[Eff(c)].after.revision \in Nat
    BY <1>1, <2>2 DEF Inv, TypeOK, Record, Base, Prepared
  <2> QED BY <2>2, <2>3, <2>4
<1> QED BY <1>2, <1>3, <1>4

LEMMA RunThrowKeeps ==
  ASSUME Inv, NEW c \in Calls, RunThrow(c)
  PROVE  Inv'
<1>1. PICK r : /\ Steps(c, r) /\ call[c].kind = "run" /\ Eff(c) \in Effects
               /\ \/ /\ r = Idle
                     /\ call[c].at \in {"record", "prepare", "check", "swap", "observe", "save",
                                        "commit"}
                  \/ call[c].at = "plan" /\ MovesTo(c, r, "unlock")
                  \/ /\ call[c].at \in {"record", "prepare", "check", "swap", "observe", "save",
                                        "commit"}
                     /\ head = call[c].before /\ r.at = "save" /\ r.kind = "run"
                     /\ r.effect = Eff(c) /\ r.status = "failed"
                     /\ r.before = call[c].before /\ r.after = call[c].after
  BY RunThrowMoves DEF Inv
<1>2. Quiet /\ SameOwner
  BY LockUntouched DEF RunThrow, journal, files, target, Quiet, Inv, TypeOK
<1>3. CASE r = Idle
  <2>1. Claimed(Eff(c)) /\ Evidenced(call[c])
    BY <1>1, <1>3 DEF Inv, LockInv, CallsAreClaimed, Dispatched, MovesTo, Idle, Evidenced,
                      RunLocked
  <2>2. CallInv(r) /\ DecidesByRecord(r) /\ ~Dispatched(r) /\ ~Holds(r)
    BY <1>3, IdleTyped, NothingToTell DEF Idle, Dispatched, Holds
  <2> QED BY <1>1, <1>2, <2>1, <2>2, QuietStep
<1>4. CASE call[c].at = "plan" /\ MovesTo(c, r, "unlock")
  <2>1. CallInv(r) /\ DecidesByRecord(r)
    BY <1>4, NothingToTell DEF MovesTo, Steps
  <2>2. Holds(call[c]) /\ Evidenced(call[c]) /\ ~Dispatched(r) /\ r.effect = Eff(c)
    BY <1>1, <1>4 DEF MovesTo, Holds, Evidenced, Dispatched, RunLocked, Eff
  <2>3. Holds(r)
    BY <1>1, <1>4 DEF MovesTo, Holds, RunLocked
  <2> QED BY <1>1, <1>2, <2>1, <2>2, <2>3, QuietStep
<1>5. CASE /\ call[c].at \in {"record", "prepare", "check", "swap", "observe", "save", "commit"}
           /\ head = call[c].before /\ r.at = "save" /\ r.kind = "run"
           /\ r.effect = Eff(c) /\ r.status = "failed"
           /\ r.before = call[c].before /\ r.after = call[c].after
  <2>1. published[Eff(c)] = 0
    BY <1>1, <1>5, TargetUnmoved
  <2>2. call[c].after # None => OfRecord(call[c])
    BY <1>1, <1>5 DEF Inv, HistoryInv, CallInv, InHand, RunKnows
  <2>3. CallInv(r) /\ DecidesByRecord(r)
    BY <1>5, <2>1, <2>2 DEF CallInv, BasedOnPublished, RunKnows, InHand, OutcomeIsTrue,
                            ReadIsTelling, DecidesByRecord, OfRecord, Eff
  <2>4. Holds(r) /\ Holds(call[c]) /\ Evidenced(call[c]) /\ Claimed(r.effect)
    BY <1>1, <1>5 DEF Holds, Evidenced, RunLocked, Inv, LockInv, CallsAreClaimed, Dispatched
  <2> QED BY <1>1, <1>2, <1>5, <2>3, <2>4, QuietStep
<1> QED BY <1>1, <1>3, <1>4, <1>5
LEMMA RecoverExistsKeeps ==
  ASSUME Inv, NEW c \in Calls, RecoverExists(c)
  PROVE  Inv'
<1>1. PICK r : /\ Steps(c, r) /\ ~Holds(r)
               /\ \/ r = Idle
                  \/ r.kind = "reconcile" /\ r.effect = Eff(c) /\ r.at \in {"relock", "inspect"}
               /\ call[c].at = "exists" /\ call[c].kind = "reconcile"
  BY RecoverExistsMoves DEF Inv
<1>2. Quiet /\ SameOwner
  BY LockUntouched DEF RecoverExists, journal, target, Quiet, Inv, TypeOK
<1>3. CallInv(r) /\ DecidesByRecord(r)
  BY <1>1, NothingToTell DEF Steps, Idle
<1>4. ~Holds(call[c]) /\ (Dispatched(r) => Claimed(r.effect))
  BY <1>1 DEF Holds, RecoveryLocked, Inv, LockInv, CallsAreClaimed, Dispatched, Idle
<1> QED BY <1>1, <1>2, <1>3, <1>4, QuietStep

\* A lock is taken away from nobody who holds it: its owner is dead, or is the instance that
\* recovers and has no other call.
LEMMA RecoveredUnheld ==
  ASSUME Inv, OneCallEach, NEW c \in Calls, ~Holds(call[c]), MayRecover(c)
  PROVE  \A d \in Calls : ~Holds(call[d])
<1> SUFFICES ASSUME NEW d \in Calls, Holds(call[d])
             PROVE  FALSE
  OBVIOUS
<1>1. lock.owner = Serves[d]
  BY DEF Inv, LockInv, HoldersOwn
<1>2. Alive(lock.owner)
  BY <1>1, WorkspaceAssumption DEF Alive
<1>3. Serves[d] = Serves[c]
  BY <1>1, <1>2 DEF MayRecover
<1> QED BY <1>3 DEF OneCallEach

LEMMA RecoverInspectKeeps ==
  ASSUME Inv, OneCallEach, NEW c \in Calls, RecoverInspect(c)
  PROVE  Inv'
<1>1. call[c] \in CallRecord /\ Placed(call[c]) /\ Eff(c) \in Effects
      /\ call[c].at = "inspect" /\ call[c].kind = "reconcile"
  BY KindAt DEF Inv, RecoverInspect, At
<1>2. ~Holds(call[c]) /\ Claimed(Eff(c))
  BY <1>1 DEF Holds, RecoveryLocked, Inv, LockInv, CallsAreClaimed, Dispatched
<1>3. PICK p \in {"relock", "refused"} :
        /\ Goto(c, p)
        /\ \/ lock' = lock
           \/ MayRecover(c) /\ lock' = None
  BY DEF RecoverInspect
<1>4. PICK r : MovesTo(c, r, p)
  BY <1>1, <1>3, GotoMoves DEF Inv, RecoveryPlaces
<1>5. Steps(c, r) /\ r.kind = "reconcile" /\ r.effect = Eff(c) /\ r.at \in {"relock", "refused"}
  BY <1>1, <1>4 DEF MovesTo, Eff
<1>6. CallInv(r) /\ DecidesByRecord(r) /\ ~Holds(r)
  BY <1>5, NothingToTell DEF Steps, Holds, RecoveryLocked
<1>7. Quiet
  BY <1>3 DEF RecoverInspect, journal, target, Quiet, Inv, TypeOK
<1>8. CASE lock' = lock
  <2>1. SameOwner
    BY <1>8, LockUntouched DEF Inv
  <2> QED BY <1>2, <1>5, <1>6, <1>7, <2>1, QuietStep
<1>9. CASE MayRecover(c) /\ lock' = None
  <2>1. \A d \in Calls : ~Holds(call[d])
    BY <1>2, <1>9, RecoveredUnheld
  <2>2. ClaimsKept /\ ClaimedNext(r.effect)
    BY <1>2, <1>5, <1>7 DEF Quiet, ClaimsKept, Claimed, ClaimedNext
  <2>3. LockInv'
    BY <1>5, <1>6, <1>9, <2>1, <2>2, LockRemoved DEF Inv
  <2> QED BY <1>5, <1>6, <1>7, <2>3, QuietKeeps
<1> QED BY <1>3, <1>8, <1>9

LEMMA ReleaseArbiterKeeps ==
  ASSUME Inv, NEW c \in Calls, ReleaseArbiter(c)
  PROVE  Inv'
<1>1. PICK r : /\ Steps(c, r)
               /\ \/ r = Idle /\ call[c].at = "refused"
                  \/ /\ r.kind = "reconcile" /\ r.effect = Eff(c) /\ r.at = call[c].at
                     /\ r.before = call[c].before /\ r.after = call[c].after
               /\ call[c].at \in {"relock", "reown", "relocked", "refused"}
               /\ call[c].kind = "reconcile"
  BY ReleaseArbiterMoves DEF Inv
<1>2. Quiet /\ SameOwner
  BY LockUntouched DEF ReleaseArbiter, journal, target, Quiet, Inv, TypeOK
<1>3. CallInv(r) /\ DecidesByRecord(r)
  BY <1>1, NothingToTell DEF Steps, Idle
<1>4. /\ r # Idle => (Holds(call[c]) <=> Holds(r)) /\ (Evidenced(call[c]) <=> Evidenced(r))
      /\ r = Idle => ~Holds(call[c]) /\ ~Holds(r)
  BY <1>1 DEF Holds, Evidenced, RecoveryLocked, RunLocked, Idle
<1>5. Dispatched(r) => Claimed(r.effect)
  BY <1>1 DEF Inv, LockInv, CallsAreClaimed, Dispatched, Idle
<1>6. Holds(r) => r.effect = Eff(c)
  BY <1>1 DEF Holds, Idle
<1> QED BY <1>1, <1>2, <1>3, <1>4, <1>5, <1>6, QuietStep

\* What is read of the target shows all that was published, and a snapshot only if it was.
LEMMA ReconcileReadKeeps ==
  ASSUME Inv, NEW c \in Calls, ReconcileRead(c)
  PROVE  Inv'
<1>1. PICK r : /\ Steps(c, r) /\ call[c].at = "relocked" /\ call[c].kind = "reconcile"
               /\ Eff(c) \in Effects
               /\ \/ r = Idle
                  \/ /\ r.kind = "reconcile" /\ r.effect = Eff(c) /\ r.at = "decide"
                     /\ r.before = head /\ records[Eff(c)] \in Record
  BY ReconcileReadMoves DEF Inv
<1>2. Quiet /\ SameOwner
  BY LockUntouched
     DEF ReconcileRead, NothingInDurable, journal, files, target, Quiet, Inv, TypeOK
<1>3. Claimed(Eff(c)) /\ Holds(call[c]) /\ Evidenced(call[c])
  BY <1>1 DEF Inv, LockInv, CallsAreClaimed, Dispatched, Holds, Evidenced, RecoveryLocked
<1>4. CASE r = Idle
  <2>1. CallInv(r) /\ DecidesByRecord(r) /\ ~Dispatched(r) /\ ~Holds(r)
    BY <1>4, IdleTyped, NothingToTell DEF Idle, Dispatched, Holds
  <2> QED BY <1>1, <1>2, <1>3, <2>1, QuietStep
<1>5. CASE /\ r.kind = "reconcile" /\ r.effect = Eff(c) /\ r.at = "decide"
           /\ r.before = head /\ records[Eff(c)] \in Record
  <2>1. ReadIsTelling(r)
    BY <1>1, <1>5 DEF Inv, HistoryInv, TargetInv, TargetShowsPublished, ReadIsTelling
  <2>2. CallInv(r) /\ DecidesByRecord(r)
    BY <1>5, <2>1 DEF CallInv, BasedOnPublished, RunKnows, InHand, OutcomeIsTrue,
                      DecidesByRecord
  <2>3. Holds(r)
    BY <1>5 DEF Holds, RecoveryLocked
  <2> QED BY <1>1, <1>2, <1>3, <1>5, <2>2, <2>3, QuietStep
<1> QED BY <1>1, <1>4, <1>5

\* A reconciliation decides for what happened to the target.
LEMMA ReconcileDecideKeeps ==
  ASSUME Inv, NEW c \in Calls, ReconcileDecide(c)
  PROVE  Inv'
<1> DEFINE e == Eff(c)
<1>1. PICK r : /\ Steps(c, r) /\ call[c].at = "decide" /\ call[c].kind = "reconcile"
               /\ e \in Effects /\ records[e] \in Record
               /\ \/ r = Idle
                  \/ r.kind = "reconcile" /\ r.effect = e /\ r.at = "unlock"
                  \/ /\ r.kind = "reconcile" /\ r.effect = e /\ r.at = "save"
                     /\ r.before = records[e].before /\ r.after = records[e].after
                     /\ \/ /\ r.status = "completed" /\ r.after # None
                           /\ call[c].before = r.after
                        \/ /\ r.status = "not-executed" /\ call[c].before = r.before
                           /\ r.after = None \/ call[c].before # r.after
  BY ReconcileDecideMoves DEF Inv
<1>2. Quiet /\ SameOwner
  BY LockUntouched
     DEF ReconcileDecide, NothingInDurable, journal, files, target, Quiet, Inv, TypeOK
<1>3. Claimed(e) /\ Holds(call[c]) /\ Evidenced(call[c]) /\ records[e] # None
  BY <1>1, AbsentAssumption
     DEF Inv, LockInv, CallsAreClaimed, Dispatched, Holds, Evidenced, RecoveryLocked
<1>4. CASE r = Idle \/ (r.kind = "reconcile" /\ r.effect = e /\ r.at = "unlock")
  <2>1. CallInv(r) /\ DecidesByRecord(r)
    BY <1>1, <1>4, NothingToTell DEF Idle, Steps
  <2>2. (Dispatched(r) => Claimed(r.effect)) /\ (Holds(r) => r.effect = e)
    BY <1>3, <1>4 DEF Idle, Dispatched, Holds
  <2> QED BY <1>1, <1>2, <1>3, <2>1, <2>2, QuietStep
<1>5. CASE /\ r.kind = "reconcile" /\ r.effect = e /\ r.at = "save"
           /\ r.before = records[e].before /\ r.after = records[e].after
           /\ \/ /\ r.status = "completed" /\ r.after # None /\ call[c].before = r.after
              \/ /\ r.status = "not-executed" /\ call[c].before = r.before
                 /\ r.after = None \/ call[c].before # r.after
  <2>1. /\ published[e] = 1 => call[c].before.revision >= records[e].after.revision
        /\ Prepared(e) /\ call[c].before = records[e].after => published[e] = 1
    BY <1>1 DEF Inv, HistoryInv, CallInv, ReadIsTelling, Eff
  <2>2. published[e] \in {0, 1} /\ (published[e] = 1 => Prepared(e))
    BY <1>1 DEF Inv, HistoryInv, TargetInv, PublishedOnce, TargetShowsPublished
  <2>3. Prepared(e) => /\ records[e].after.revision > records[e].before.revision
                       /\ records[e].after.revision \in Nat /\ records[e].before.revision \in Nat
    BY <1>1 DEF Inv, HistoryInv, TargetInv, RevisionsGrow, Prepared, Record, Base
  <2>4. r.status = "completed" <=> published[e] = 1
    <3>1. CASE r.status = "completed"
      BY <1>3, <1>5, <2>1, <3>1 DEF Prepared
    <3>2. CASE r.status = "not-executed" /\ call[c].before = records[e].before
      BY <2>1, <2>2, <2>3, <3>2
    <3> QED BY <1>5, <3>1, <3>2
  <2>5. CallInv(r) /\ DecidesByRecord(r)
    BY <1>1, <1>3, <1>5, <2>4 DEF CallInv, BasedOnPublished, RunKnows, InHand, OutcomeIsTrue,
                                  ReadIsTelling, OfRecord, DecidesByRecord
  <2>6. Holds(r)
    BY <1>5 DEF Holds, RecoveryLocked
  <2> QED BY <1>1, <1>2, <1>3, <1>5, <2>5, <2>6, QuietStep
<1> QED BY <1>1, <1>4, <1>5

LEMMA ReconcileThrowKeeps ==
  ASSUME Inv, NEW c \in Calls, ReconcileThrow(c)
  PROVE  Inv'
<1>1. Steps(c, Idle)
  BY ReturnSteps DEF ReconcileThrow
<1>2. Quiet /\ SameOwner
  BY LockUntouched DEF ReconcileThrow, journal, files, target, Quiet, Inv, TypeOK
<1>3. Claimed(Eff(c))
  BY DEF ReconcileThrow, Inv, LockInv, CallsAreClaimed, Dispatched
<1>4. CallInv(Idle) /\ DecidesByRecord(Idle) /\ ~Dispatched(Idle) /\ ~Holds(Idle)
  BY IdleTyped, NothingToTell DEF Idle, Dispatched, Holds
<1>5. Holds(call[c]) => Evidenced(call[c])
  BY DEF ReconcileThrow, At, Holds, Evidenced, RecoveryLocked
<1> QED BY <1>1, <1>2, <1>3, <1>4, <1>5, QuietStep

\* A call whose lock stays behind stuck: the only one that held it, or one that found it held
\* by nobody.
LEMMA StuckKeeps ==
  ASSUME Inv, NEW c \in Calls, NEW r, Steps(c, r), Quiet, lock # None, lock'.stuck,
         \A d \in Calls : Holds(call[d]) => d = c,
         r = Idle \/ (MovesTo(c, r, "refused") /\ call[c].kind = "reconcile")
  PROVE  Inv'
<1>1. CallInv(r) /\ DecidesByRecord(r) /\ ~Holds(r)
  BY NothingToTell DEF Idle, Steps, MovesTo, Holds, RunLocked, RecoveryLocked
<1>2. ClaimsKept /\ (Dispatched(r) => ClaimedNext(r.effect))
  BY DEF Quiet, ClaimsKept, Claimed, ClaimedNext, Dispatched, Idle, MovesTo, Inv, LockInv,
         CallsAreClaimed, Eff
<1>3. LockInv'
  BY <1>1, <1>2, LockStuck DEF Inv
<1> QED BY <1>1, <1>3, QuietKeeps

\* A directory whose removal failed is still a lock.
LEMMA StillThere ==
  ASSUME TypeOK, lock # None,
         \/ NotRemoved
         \/ lock' = [lock EXCEPT !.stuck = TRUE]
  PROVE  lock' \in Lock /\ lock'.stuck
<1>1. lock \in Lock
  BY DEF TypeOK
<1>2. \A b \in BOOLEAN : [lock EXCEPT !.stuck = TRUE, !.evidence = @ /\ b] \in Lock
                        /\ [lock EXCEPT !.stuck = TRUE, !.evidence = @ /\ b].stuck
  BY <1>1 DEF Lock
<1>3. [lock EXCEPT !.stuck = TRUE] \in Lock /\ [lock EXCEPT !.stuck = TRUE].stuck
  BY <1>1 DEF Lock
<1> QED BY <1>2, <1>3 DEF NotRemoved

\* An exception of acquireLock leaves a directory nobody holds.
LEMMA AcquireThrowKeeps ==
  ASSUME Inv, OneCallEach, NEW c \in Calls, AcquireThrow(c)
  PROVE  Inv'
<1>1. /\ call[c] \in CallRecord /\ Placed(call[c]) /\ Eff(c) \in Effects
      /\ call[c].at \in {"lock", "relock", "owner", "reown"}
      /\ call[c].at \in {"lock", "owner"} => call[c].kind = "run"
      /\ call[c].at \in {"relock", "reown"} => call[c].kind = "reconcile"
  BY KindAt DEF Inv, AcquireThrow, At
<1>2. PICK r : /\ Steps(c, r)
               /\ r = Idle \/ (MovesTo(c, r, "refused") /\ call[c].kind = "reconcile")
  <2>1. CASE Return(c)
    BY <2>1, ReturnSteps
  <2>2. CASE Goto(c, "refused") /\ At(c, {"relock", "reown"})
    <3>1. call[c].kind = "reconcile"
      BY <1>1, <2>2 DEF At
    <3>2. \E r : MovesTo(c, r, "refused")
      BY <1>1, <2>2, <3>1, GotoMoves DEF Inv, RecoveryPlaces
    <3> QED BY <3>1, <3>2 DEF MovesTo
  <2> QED BY <2>1, <2>2 DEF AcquireThrow
<1>3. UNCHANGED <<undoes, stage, entry, receipts, head, revisions, records, published>>
  BY DEF AcquireThrow, journal, target
<1>4. CASE call[c].at \in {"lock", "relock"}
  <2>1. lock' = lock
    BY <1>4 DEF AcquireThrow, At
  <2>2. Quiet /\ SameOwner
    BY <1>3, <2>1, LockUntouched DEF Quiet, Inv, TypeOK
  <2>3. CallInv(r) /\ DecidesByRecord(r) /\ ~Holds(r)
    BY <1>2, NothingToTell DEF Idle, Steps, MovesTo, Holds, RunLocked, RecoveryLocked
  <2>4. Dispatched(r) => Claimed(r.effect)
    BY <1>2 DEF Dispatched, Idle, MovesTo, Inv, LockInv, CallsAreClaimed, Eff
  <2>5. ~Holds(call[c])
    BY <1>1, <1>4 DEF Holds, RunLocked, RecoveryLocked
  <2> QED BY <1>2, <2>2, <2>3, <2>4, <2>5, QuietStep
<1>5. CASE call[c].at \in {"owner", "reown"}
  <2>1. Holds(call[c])
    BY <1>1, <1>5 DEF Holds
  <2>2. lock # None /\ \A d \in Calls : Holds(call[d]) => d = c
    BY <2>1, HoldsAlone DEF Inv, LockInv, HoldersOwn
  <2>3. lock' = [lock EXCEPT !.stuck = TRUE]
    BY <1>5, <2>2 DEF AcquireThrow, At
  <2>4. Quiet /\ lock'.stuck
    BY <1>3, <2>2, <2>3, StillThere DEF Quiet, Inv
  <2> QED BY <1>2, <2>2, <2>4, StuckKeeps
<1> QED BY <1>1, <1>4, <1>5

LEMMA UnlockThrowKeeps ==
  ASSUME Inv, OneCallEach, NEW c \in Calls, UnlockThrow(c)
  PROVE  Inv'
<1>1. Steps(c, Idle)
  BY ReturnSteps DEF UnlockThrow
<1>2. Holds(call[c])
  <2>1. call[c].at = "unlock" /\ call[c].kind \in {"run", "reconcile"}
    BY KindAt DEF UnlockThrow, At, Inv
  <2> QED BY <2>1 DEF Holds, RunLocked, RecoveryLocked
<1>3. lock # None /\ \A d \in Calls : Holds(call[d]) => d = c
  BY <1>2, HoldsAlone DEF Inv, LockInv, UnlockThrow
<1>4. lock' \in Lock /\ lock'.stuck
  BY <1>3, StillThere DEF UnlockThrow, Inv
<1>5. Quiet
  BY <1>4 DEF UnlockThrow, journal, target, Quiet
<1> QED BY <1>1, <1>3, <1>4, <1>5, StuckKeeps

LEMMA RecoverThrowKeeps ==
  ASSUME Inv, OneCallEach, NEW c \in Calls, RecoverThrow(c)
  PROVE  Inv'
<1>1. call[c] \in CallRecord /\ Placed(call[c]) /\ Eff(c) \in Effects
      /\ call[c].at = "inspect" /\ call[c].kind = "reconcile"
  BY KindAt DEF Inv, RecoverThrow, At
<1>2. ~Holds(call[c]) /\ Claimed(Eff(c))
  BY <1>1 DEF Holds, RecoveryLocked, Inv, LockInv, CallsAreClaimed, Dispatched
<1>3. UNCHANGED <<undoes, stage, entry, receipts, head, revisions, records, published>>
  BY DEF RecoverThrow, journal, target
<1>4. PICK r : Steps(c, r) /\ (r = Idle \/ MovesTo(c, r, "refused"))
  <2>1. CASE Return(c)
    BY <2>1, ReturnSteps
  <2>2. CASE Goto(c, "refused")
    <3>1. \E r : MovesTo(c, r, "refused")
      BY <1>1, <2>2, GotoMoves DEF Inv, RecoveryPlaces
    <3> QED BY <3>1 DEF MovesTo
  <2> QED BY <2>1, <2>2 DEF RecoverThrow
<1>5. CASE lock' = lock
  <2>1. Quiet /\ SameOwner
    BY <1>3, <1>5, LockUntouched DEF Quiet, Inv, TypeOK
  <2>2. CallInv(r) /\ DecidesByRecord(r) /\ ~Holds(r)
    BY <1>1, <1>4, NothingToTell DEF Idle, Steps, MovesTo, Holds, RunLocked, RecoveryLocked
  <2>3. Dispatched(r) => Claimed(r.effect)
    BY <1>2, <1>4 DEF Dispatched, Idle, MovesTo, Eff
  <2> QED BY <1>2, <1>4, <2>1, <2>2, <2>3, QuietStep
<1>6. CASE MayRecover(c) /\ NotRemoved
  <2>1. \A d \in Calls : Holds(call[d]) => d = c
    BY <1>2, <1>6, RecoveredUnheld
  <2>2. lock # None /\ lock' \in Lock /\ lock'.stuck
    BY <1>6, StillThere DEF MayRecover, Inv
  <2>3. Quiet
    BY <1>3, <2>2 DEF Quiet
  <2> QED BY <1>1, <1>4, <2>1, <2>2, <2>3, StuckKeeps
<1> QED BY <1>5, <1>6 DEF RecoverThrow

LEMMA UnlockKeeps ==
  ASSUME Inv, OneCallEach, NEW c \in Calls, Unlock(c)
  PROVE  Inv'
<1>1. Steps(c, Idle)
  BY ReturnSteps DEF Unlock
<1>2. CallInv(Idle) /\ DecidesByRecord(Idle) /\ ~Dispatched(Idle) /\ ~Holds(Idle)
  BY IdleTyped, NothingToTell DEF Idle, Dispatched, Holds
<1>3. Quiet /\ lock' = None /\ ClaimsKept
  BY DEF Unlock, journal, target, Quiet, ClaimsKept, Claimed, ClaimedNext
<1>4. Holds(call[c])
  <2>1. call[c].at = "unlock" /\ call[c].kind \in {"run", "reconcile"}
    BY KindAt DEF Unlock, At, Inv
  <2> QED BY <2>1 DEF Holds, RunLocked, RecoveryLocked
<1>5. \A d \in Calls : Holds(call[d]) => d = c
  BY <1>4, HoldsAlone DEF Inv, LockInv
<1>6. LockInv'
  BY <1>1, <1>2, <1>3, <1>5, LockRemoved DEF Inv
<1> QED BY <1>1, <1>2, <1>3, <1>6, QuietKeeps
LEMMA ReceiptsTyped ==
  ASSUME TypeOK
  PROVE  /\ receipts \in Seq(JournalReceipt) /\ Len(receipts) \in Nat
         /\ DOMAIN receipts = 1..Len(receipts)
         /\ \A i \in DOMAIN receipts : receipts[i].effect \in Effects
<1>1. receipts \in Seq(JournalReceipt)
  BY DEF TypeOK
<1>2. Len(receipts) \in Nat /\ DOMAIN receipts = 1..Len(receipts)
  BY <1>1, LenProperties
<1>3. \A i \in 1..Len(receipts) : receipts[i] \in JournalReceipt
  BY <1>1, ElementOfSeq
<1> QED BY <1>1, <1>2, <1>3 DEF JournalReceipt

-----------------------------------------------------------------------------
(* The steps that write what others read, all of them under the lock.         *)

\* What a step of the holder writes beside its call is of its type.
DurableTyped ==
  /\ undoes' = undoes /\ stage' = stage /\ lock' = lock
  /\ entry' \in [Effects -> {"absent", "intended", "dispatched", "resolved"}]
  /\ \A e \in Effects : entry[e] = "absent" => entry'[e] = "absent"
  /\ \A e \in Effects : Claimed(e) => ClaimedNext(e)
  /\ receipts' \in Seq(JournalReceipt)
  /\ head' \in Base /\ revisions' \in Nat
  /\ records' \in [Effects -> Record \cup {None}]
  /\ \A e \in Effects : records[e] \in Record => records'[e] \in Record
  /\ published' \in [Effects -> Nat]

\* Nothing but the call, which holds the lock, is concerned by what it writes.
LEMMA HolderKeeps ==
  ASSUME Inv, OneCallEach, NEW c \in Calls, NEW r, Steps(c, r), Holds(call[c]), DurableTyped,
         TargetInv', CallInv(r)',
         r.kind = "reconcile" /\ r.at \in {"decide", "save", "commit"}
           => records'[r.effect] \in Record,
         Holds(r) => r.effect = Eff(c), Evidenced(call[c]),
         ~Holds(r) => ClaimedNext(Eff(c)),
         Dispatched(r) => ClaimedNext(r.effect)
  PROVE  Inv'
<1>1. /\ call' \in [Calls -> CallRecord] /\ \A d \in Calls : Placed(call'[d])
      /\ call'[c] = r /\ \A d \in Calls : d # c => call'[d] = call[d]
  BY CallsTyped DEF Inv
<1>2. TypeOK'
  BY <1>1 DEF Inv, TypeOK, DurableTyped
<1>3. Recorded'
  <2>1. ASSUME NEW e \in Effects, entry'[e] # "absent", undoes'[e] # None
        PROVE  records'[undoes'[e]] \in Record
    <3>1. entry[e] # "absent" /\ undoes[e] # None /\ undoes[e] \in Effects
      BY <2>1 DEF DurableTyped, Inv, TypeOK
    <3> QED BY <3>1 DEF Inv, Recorded, DurableTyped
  <2>2. ASSUME NEW d \in Calls, call'[d].kind = "reconcile",
               call'[d].at \in {"decide", "save", "commit"}
        PROVE  records'[call'[d].effect] \in Record
    <3>1. CASE d = c
      BY <1>1, <2>2, <3>1
    <3>2. CASE d # c
      <4>1. records[Eff(d)] \in Record /\ call'[d] = call[d]
        BY <1>1, <2>2, <3>2 DEF Inv, Recorded, At
      <4>2. Eff(d) \in Effects
        BY <2>2, <4>1, KindAt DEF Inv
      <4> QED BY <4>1, <4>2 DEF DurableTyped, Eff
    <3> QED BY <3>1, <3>2
  <2> QED BY <2>1, <2>2 DEF Recorded, At, Eff
<1>4. LockInv'
  <2>1. SameOwner /\ ClaimsKept
    BY LockUntouched DEF DurableTyped, ClaimsKept, Inv
  <2> QED BY <2>1, LockStays DEF Inv
<1>5. ASSUME NEW d \in Calls, d # c
      PROVE  CallInv(call[d])'
  <2>1. ~Holds(call[d])
    BY <1>5, HoldsAlone DEF Inv, LockInv
  <2>2. CallInv(call[d]) /\ Placed(call[d])
    BY DEF Inv, HistoryInv, TypeOK
  <2>3. PICK q : q = call[d]
    OBVIOUS
  <2>4. CallInv(q)'
    BY <2>1, <2>2, <2>3, NotConcerned
  <2>5. call'[d] = q
    BY <1>1, <1>5, <2>3
  <2> QED BY <2>4, <2>5 DEF CallInv, BasedOnPublished, RunKnows, InHand, OutcomeIsTrue,
                            ReadIsTelling, OfRecord, Prepared, ReceiptOf
<1>6. CallInv(call[c])'
  BY <1>1 DEF CallInv, BasedOnPublished, RunKnows, InHand, OutcomeIsTrue, ReadIsTelling,
              OfRecord, Prepared, ReceiptOf
<1>7. HistoryInv'
  BY <1>5, <1>6 DEF HistoryInv
<1> QED BY <1>2, <1>3, <1>4, <1>7 DEF Inv

\* The claim: nothing happened before it, and from here on a run is the only one to publish.
LEMMA RunClaimKeeps ==
  ASSUME Inv, OneCallEach, NEW c \in Calls, RunClaim(c)
  PROVE  Inv'
<1> DEFINE e == Eff(c)
<1>1. call[c] \in CallRecord /\ Placed(call[c]) /\ e \in Effects
      /\ call[c].at = "claim" /\ call[c].kind = "run"
  BY KindAt DEF Inv, RunClaim, At
<1>2. Holds(call[c]) /\ Evidenced(call[c]) /\ call[c].before \in Base /\ call[c].after = None
  BY <1>1 DEF Holds, Evidenced, RunLocked, Placed, Inv, HistoryInv, CallInv, RunKnows
<1>3. BasedOnPublished(call[c])
  BY DEF Inv, HistoryInv, CallInv
<1>4. /\ UNCHANGED <<undoes, stage, receipts, head, revisions, published, lock, records>>
  BY DEF RunClaim, files, target
<1>5. CASE Current(e) /\ entry[e] = "intended"
  <2>1. entry' = [entry EXCEPT ![e] = "dispatched"] /\ Goto(c, "record")
    BY <1>5 DEF RunClaim
  <2>2. PICK r : MovesTo(c, r, "record")
    BY <1>1, <1>2, <2>1, GotoMoves DEF Inv, RunPlaces, RunLocked
  <2>3. /\ Steps(c, r) /\ r.kind = "run" /\ r.effect = e /\ r.at = "record"
        /\ r.before = call[c].before /\ r.after = None
    BY <1>1, <1>2, <2>2 DEF MovesTo, Eff
  <2>4. DurableTyped /\ ClaimedNext(e)
    BY <1>1, <1>4, <1>5, <2>1 DEF Inv, TypeOK, DurableTyped, Claimed, ClaimedNext
  <2>5. TargetInv'
    BY <1>4, <2>4 DEF Inv, HistoryInv, TargetInv, PublishedOnce, RevisionsGrow,
         TargetShowsPublished, RecordsAreTrue, ReceiptsTellTheTruth, Prepared, Claimed,
         ClaimedNext, ReceiptOf, DurableTyped
  <2>6. published[e] = 0 /\ ReceiptOf(e) = {}
    BY <1>1, <1>5 DEF Inv, HistoryInv, TargetInv, PublishedOnce, Claimed
  <2>7. CallInv(r)'
    BY <1>1, <1>3, <1>4, <2>3, <2>6 DEF CallInv, BasedOnPublished, RunKnows, InHand,
         OutcomeIsTrue, ReadIsTelling, ReceiptOf
  <2> QED BY <1>2, <2>3, <2>4, <2>5, <2>7, HolderKeeps
<1>6. CASE ~(Current(e) /\ entry[e] = "intended")
  <2>1. entry' = entry /\ Goto(c, "unlock")
    BY <1>6 DEF RunClaim
  <2>2. PICK r : MovesTo(c, r, "unlock")
    BY <1>1, <2>1, GotoMoves DEF Inv, RunPlaces, RunLocked
  <2>3. Steps(c, r) /\ r.kind = "run" /\ r.effect = e /\ r.at = "unlock"
    BY <1>1, <2>2 DEF MovesTo, Eff
  <2>4. Quiet /\ SameOwner
    BY <1>4, <2>1, LockUntouched DEF Quiet, Inv, TypeOK
  <2>5. CallInv(r) /\ DecidesByRecord(r) /\ Holds(r) /\ ~Dispatched(r)
    BY <2>3, NothingToTell DEF Steps, Holds, RunLocked, Dispatched
  <2> QED BY <1>2, <2>3, <2>4, <2>5, QuietStep
<1> QED BY <1>5, <1>6
\* The record of an effect is written by the call that works for it.
RecordWritten(e, b, a, o) ==
  records' = [records EXCEPT ![e] = [before |-> b, after |-> a, completed |-> o]]

LEMMA RecordWrittenParts ==
  ASSUME TypeOK, NEW e \in Effects, NEW b \in Base, NEW a \in Base \cup {None},
         NEW o \in Outcomes \cup {None}, RecordWritten(e, b, a, o)
  PROVE  /\ records' \in [Effects -> Record \cup {None}]
         /\ records'[e] \in Record /\ records'[e] # None
         /\ records'[e].before = b /\ records'[e].after = a /\ records'[e].completed = o
         /\ \A f \in Effects : f # e => records'[f] = records[f]
         /\ \A f \in Effects : records[f] \in Record => records'[f] \in Record
<1> DEFINE rec == [before |-> b, after |-> a, completed |-> o]
<1>1. rec \in Record /\ rec.before = b /\ rec.after = a /\ rec.completed = o
  BY DEF Record
<1>2. rec # None
  BY <1>1, AbsentAssumption
<1>3. records' = [records EXCEPT ![e] = rec]
  BY DEF RecordWritten
<1> HIDE DEF rec
<1> QED BY <1>1, <1>2, <1>3 DEF TypeOK

LEMMA RunRecordKeeps ==
  ASSUME Inv, OneCallEach, NEW c \in Calls, RunRecord(c)
  PROVE  Inv'
<1> DEFINE e == Eff(c)
           b == call[c].before
<1>1. call[c] \in CallRecord /\ Placed(call[c]) /\ e \in Effects
      /\ call[c].at = "record" /\ call[c].kind = "run"
  BY KindAt DEF Inv, RunRecord, At
<1>2. Holds(call[c]) /\ Evidenced(call[c]) /\ b \in Base /\ Claimed(e)
  BY <1>1 DEF Holds, Evidenced, RunLocked, Placed, Inv, LockInv, CallsAreClaimed, Dispatched
<1>3. BasedOnPublished(call[c])
  BY DEF Inv, HistoryInv, CallInv
<1>4. published[e] = 0 /\ ReceiptOf(e) = {} /\ call[c].after = None
  BY <1>1 DEF Inv, HistoryInv, CallInv, RunKnows, Eff
<1>5. UNCHANGED <<undoes, stage, entry, receipts, head, revisions, published, lock>>
  BY DEF RunRecord, journal, target
<1>6. RecordWritten(e, b, None, None) /\ Goto(c, "prepare")
  BY DEF RunRecord, NewRecord, RecordWritten
<1>7. PICK r : MovesTo(c, r, "prepare")
  BY <1>1, <1>2, <1>6, GotoMoves DEF Inv, RunPlaces, RunLocked
<1>8. /\ Steps(c, r) /\ r.kind = "run" /\ r.effect = e /\ r.at = "prepare"
      /\ r.before = b /\ r.after = None
  BY <1>1, <1>4, <1>7 DEF MovesTo, Eff
<1>9. /\ records' \in [Effects -> Record \cup {None}]
      /\ records'[e] \in Record /\ records'[e] # None
      /\ records'[e].before = b /\ records'[e].after = None /\ records'[e].completed = None
      /\ \A f \in Effects : f # e => records'[f] = records[f]
      /\ \A f \in Effects : records[f] \in Record => records'[f] \in Record
  BY <1>1, <1>2, <1>6, RecordWrittenParts DEF Inv
<1> HIDE DEF e, b
<1>10. DurableTyped /\ ClaimedNext(e)
  BY <1>2, <1>5, <1>9 DEF Inv, TypeOK, DurableTyped, Claimed, ClaimedNext
<1>11. \A f \in Effects : Prepared(f)' => f # e /\ Prepared(f)
  BY <1>9 DEF Prepared
<1>12. TargetInv'
  <2>1. PublishedOnce' /\ ReceiptsTellTheTruth'
    BY <1>5 DEF Inv, HistoryInv, TargetInv, PublishedOnce, ReceiptsTellTheTruth, Claimed,
                ReceiptOf
  <2>2. RevisionsGrow'
    BY <1>5, <1>9, <1>11 DEF Inv, HistoryInv, TargetInv, RevisionsGrow
  <2>3. TargetShowsPublished'
    BY <1>4, <1>5, <1>9, <1>11 DEF Inv, HistoryInv, TargetInv, TargetShowsPublished, Prepared
  <2>4. RecordsAreTrue'
    BY <1>5, <1>9 DEF Inv, HistoryInv, TargetInv, RecordsAreTrue
  <2> QED BY <2>1, <2>2, <2>3, <2>4 DEF TargetInv
<1>13. CallInv(r)'
  <2>1. BasedOnPublished(r)'
    BY <1>1, <1>3, <1>4, <1>5, <1>8, <1>9 DEF BasedOnPublished, b
  <2> QED BY <1>4, <1>5, <1>8, <1>9, <2>1
          DEF CallInv, RunKnows, InHand, OfRecord, OutcomeIsTrue, ReadIsTelling, ReceiptOf
<1>14. Holds(r)
  BY <1>8 DEF Holds, RunLocked
<1> QED BY <1>2, <1>8, <1>10, <1>12, <1>13, <1>14, HolderKeeps DEF e

\* A prepared snapshot has a revision of its own, above all others and selected by nothing.
LEMMA RunPrepareKeeps ==
  ASSUME Inv, OneCallEach, NEW c \in Calls, RunPrepare(c)
  PROVE  Inv'
<1> DEFINE e == Eff(c)
           b == call[c].before
<1>1. PICK r : /\ Steps(c, r) /\ r.at = "check" /\ r.kind = "run" /\ r.effect = e
               /\ r.before = b /\ r.after \in Base
               /\ r.after.revision = revisions + 1
               /\ records' = [records EXCEPT ![e] =
                    [before |-> r.before, after |-> r.after, completed |-> None]]
               /\ call[c].at = "prepare" /\ call[c].kind = "run" /\ b \in Base
  BY RunPrepareMoves DEF Inv, LockInv
<1>2. e \in Effects /\ Holds(call[c]) /\ Evidenced(call[c]) /\ Claimed(e)
  BY <1>1, KindAt DEF Holds, Evidenced, RunLocked, Inv, LockInv, CallsAreClaimed, Dispatched
<1>3. b.revision <= revisions
      /\ \A f \in Effects : published[f] = 1 => records[f].after.revision <= b.revision
  BY <1>1 DEF Inv, HistoryInv, CallInv, BasedOnPublished
<1>4. published[e] = 0 /\ ReceiptOf(e) = {}
  BY <1>1 DEF Inv, HistoryInv, CallInv, RunKnows, Eff
<1>5. UNCHANGED <<undoes, stage, entry, receipts, head, published, lock>>
      /\ revisions' = revisions + 1
  BY DEF RunPrepare, journal
<1> DEFINE a == r.after
<1>6. /\ records' \in [Effects -> Record \cup {None}]
      /\ records'[e] \in Record /\ records'[e] # None
      /\ records'[e].before = b /\ records'[e].after = a /\ records'[e].completed = None
      /\ \A f \in Effects : f # e => records'[f] = records[f]
      /\ \A f \in Effects : records[f] \in Record => records'[f] \in Record
  <2>1. RecordWritten(e, b, a, None) /\ a \in Base \cup {None}
    BY <1>1 DEF RecordWritten
  <2> HIDE DEF e, b, a
  <2> QED BY <1>1, <1>2, <2>1, RecordWrittenParts DEF Inv, b
<1>7. a.revision = revisions + 1 /\ a \in Base /\ a # None
  BY <1>1, AbsentAssumption
<1>8. head.revision \in Nat /\ revisions \in Nat /\ b.revision \in Nat
  BY <1>1 DEF Inv, TypeOK, Base
<1> HIDE DEF e, b, a
<1>9. DurableTyped /\ ClaimedNext(e)
  BY <1>2, <1>5, <1>6, <1>8 DEF Inv, TypeOK, DurableTyped, Claimed, ClaimedNext
<1>10. \A f \in Effects : f # e => (Prepared(f)' <=> Prepared(f))
  BY <1>6 DEF Prepared
<1>11. \A f \in Effects : Prepared(f) =>
         records[f].after.revision \in Nat /\ records[f].after.revision <= revisions
  BY DEF Inv, HistoryInv, TargetInv, RevisionsGrow, Prepared, TypeOK, Record, Base
<1>12. TargetInv'
  <2>1. PublishedOnce' /\ ReceiptsTellTheTruth'
    BY <1>5 DEF Inv, HistoryInv, TargetInv, PublishedOnce, ReceiptsTellTheTruth, Claimed,
                ReceiptOf
  <2>2. RevisionsGrow'
    <3>1. head'.revision <= revisions'
      BY <1>5, <1>8 DEF Inv, HistoryInv, TargetInv, RevisionsGrow
    <3>2. ASSUME NEW f \in Effects, Prepared(f)'
          PROVE  records'[f].after.revision <= revisions'
                 /\ records'[f].after.revision > records'[f].before.revision
      <4>1. CASE f = e
        BY <1>3, <1>5, <1>6, <1>7, <1>8, <4>1
      <4>2. CASE f # e
        BY <1>5, <1>6, <1>8, <1>10, <1>11, <3>2, <4>2
           DEF Inv, HistoryInv, TargetInv, RevisionsGrow
      <4> QED BY <4>1, <4>2
    <3>3. ASSUME NEW f \in Effects, NEW g \in Effects, Prepared(f)', Prepared(g)',
                 records'[f].after.revision = records'[g].after.revision
          PROVE  f = g
      <4>1. \A x \in Effects : x # e /\ Prepared(x)' => records'[x].after.revision < a.revision
        BY <1>6, <1>7, <1>8, <1>10, <1>11
      <4>2. CASE f = e \/ g = e
        BY <1>6, <1>7, <1>8, <3>3, <4>1, <4>2
      <4>3. CASE f # e /\ g # e
        BY <1>6, <1>10, <3>3, <4>3 DEF Inv, HistoryInv, TargetInv, RevisionsGrow
      <4> QED BY <4>2, <4>3
    <3> QED BY <3>1, <3>2, <3>3 DEF RevisionsGrow
  <2>3. TargetShowsPublished'
    <3>1. ASSUME NEW f \in Effects
          PROVE  /\ published'[f] = 1 =>
                      Prepared(f)' /\ head'.revision >= records'[f].after.revision
                 /\ Prepared(f)' /\ head'.revision = records'[f].after.revision
                      => published'[f] = 1
      <4>1. CASE f = e
        <5>1. head.revision < a.revision
          BY <1>7, <1>8 DEF Inv, HistoryInv, TargetInv, RevisionsGrow
        <5> QED BY <1>4, <1>5, <1>6, <1>7, <1>8, <4>1, <5>1
      <4>2. CASE f # e
        BY <1>5, <1>6, <1>10, <4>2 DEF Inv, HistoryInv, TargetInv, TargetShowsPublished
      <4> QED BY <4>1, <4>2
    <3> QED BY <3>1 DEF TargetShowsPublished
  <2>4. RecordsAreTrue'
    BY <1>5, <1>6 DEF Inv, HistoryInv, TargetInv, RecordsAreTrue
  <2> QED BY <2>1, <2>2, <2>3, <2>4 DEF TargetInv
<1>13. CallInv(r)'
  <2>1. BasedOnPublished(r)'
    BY <1>1, <1>3, <1>4, <1>5, <1>6, <1>8 DEF BasedOnPublished
  <2> QED BY <1>1, <1>4, <1>5, <1>6, <2>1
          DEF CallInv, RunKnows, InHand, OfRecord, OutcomeIsTrue, ReadIsTelling, ReceiptOf, a
<1>14. Holds(r)
  BY <1>1 DEF Holds, RunLocked
<1> QED BY <1>1, <1>2, <1>9, <1>12, <1>13, <1>14, HolderKeeps DEF e
\* Selecting a snapshot: of a run whose effect is not published, above everything published.
LEMMA SelectKeeps ==
  ASSUME Inv, OneCallEach, NEW c \in Calls, Select(c), At(c, {"check", "swap"}),
         UNCHANGED <<undoes, stage, journal, files, revisions, upsets>>
  PROVE  Inv'
<1> DEFINE e == Eff(c)
           a == call[c].after
           b == call[c].before
<1>1. call[c] \in CallRecord /\ Placed(call[c]) /\ e \in Effects
      /\ call[c].at \in {"check", "swap"} /\ call[c].kind = "run"
  BY KindAt DEF Inv, At
<1>2. Holds(call[c]) /\ Evidenced(call[c]) /\ a \in Base /\ b \in Base /\ Claimed(e)
  BY <1>1 DEF Holds, Evidenced, RunLocked, Placed, Inv, LockInv, CallsAreClaimed, Dispatched
<1>3. b.revision <= revisions
      /\ \A f \in Effects : published[f] = 1 => records[f].after.revision <= b.revision
  BY <1>1 DEF Inv, HistoryInv, CallInv, BasedOnPublished
<1>4. /\ published[e] = 0 /\ ReceiptOf(e) = {}
      /\ records[e] # None /\ records[e].completed = None
      /\ records[e].before = b /\ records[e].after = a
  BY <1>1 DEF Inv, HistoryInv, CallInv, RunKnows, InHand, OfRecord, Eff
<1>5. UNCHANGED <<undoes, stage, entry, receipts, revisions, records, lock>>
      /\ head' = a /\ published' = [published EXCEPT ![e] = @ + 1] /\ Goto(c, "observe")
  BY DEF Select, journal, files
<1>6. PICK r : MovesTo(c, r, "observe")
  BY <1>1, <1>2, <1>5, GotoMoves DEF Inv, RunPlaces, RunLocked
<1>7. /\ Steps(c, r) /\ r.kind = "run" /\ r.effect = e /\ r.at = "observe"
      /\ r.before = b /\ r.after = a
  BY <1>1, <1>6 DEF MovesTo, Eff
<1>8. a # None /\ Prepared(e) /\ records[e] \in Record
  BY <1>1, <1>2, <1>4, AbsentAssumption DEF Prepared, Inv, TypeOK
<1> HIDE DEF e, a, b
<1>9. published' \in [Effects -> Nat] /\ published'[e] = 1
      /\ \A f \in Effects : f # e => published'[f] = published[f]
  BY <1>1, <1>4, <1>5 DEF Inv, TypeOK, e
<1>10. /\ a.revision \in Nat /\ b.revision \in Nat
       /\ a.revision > b.revision /\ a.revision <= revisions
  BY <1>1, <1>2, <1>4, <1>8 DEF Inv, HistoryInv, TargetInv, RevisionsGrow, Base, e
<1>11. DurableTyped /\ ClaimedNext(e)
  BY <1>2, <1>5, <1>9 DEF Inv, TypeOK, DurableTyped, Claimed, ClaimedNext
<1>12. TargetInv'
  <2>1. PublishedOnce'
    BY <1>2, <1>5, <1>9 DEF Inv, HistoryInv, TargetInv, PublishedOnce, Claimed, ReceiptOf
  <2>2. RevisionsGrow'
    BY <1>5, <1>10 DEF Inv, HistoryInv, TargetInv, RevisionsGrow, Prepared
  <2>3. TargetShowsPublished'
    <3>1. ASSUME NEW f \in Effects
          PROVE  /\ published'[f] = 1 =>
                      Prepared(f)' /\ head'.revision >= records'[f].after.revision
                 /\ Prepared(f)' /\ head'.revision = records'[f].after.revision
                      => published'[f] = 1
      <4>1. CASE f = e
        BY <1>4, <1>5, <1>8, <1>9, <1>10, <4>1 DEF Prepared
      <4>2. CASE f # e
        <5>1. published'[f] = 1 =>
                Prepared(f) /\ records[f].after.revision <= b.revision
                  /\ records[f].after.revision \in Nat
          BY <1>3, <1>9, <4>2 DEF Inv, HistoryInv, TargetInv, TargetShowsPublished, Prepared,
                                  TypeOK, Record, Base
        <5>2. ~(Prepared(f) /\ a.revision = records[f].after.revision)
          BY <1>1, <1>4, <1>8, <4>2 DEF Inv, HistoryInv, TargetInv, RevisionsGrow, e
        <5>3. published'[f] = 1 => head'.revision >= records'[f].after.revision
          BY <1>5, <1>10, <5>1
        <5> QED BY <1>5, <5>1, <5>2, <5>3 DEF Prepared
      <4> QED BY <4>1, <4>2
    <3> QED BY <3>1 DEF TargetShowsPublished
  <2>4. RecordsAreTrue'
    BY <1>4, <1>5, <1>9 DEF Inv, HistoryInv, TargetInv, RecordsAreTrue
  <2>5. ReceiptsTellTheTruth'
    <3>1. \A i \in DOMAIN receipts : receipts[i].effect # e
      BY <1>4 DEF ReceiptOf
    <3>2. \A i \in DOMAIN receipts : receipts[i].effect \in Effects
      BY ReceiptsTyped DEF Inv
    <3> QED BY <1>5, <1>9, <3>1, <3>2 DEF Inv, HistoryInv, TargetInv, ReceiptsTellTheTruth
  <2> QED BY <2>1, <2>2, <2>3, <2>4, <2>5 DEF TargetInv
<1>13. CallInv(r)'
  BY <1>4, <1>5, <1>7, <1>9
     DEF CallInv, BasedOnPublished, RunKnows, InHand, OfRecord, OutcomeIsTrue, ReadIsTelling
<1>14. Holds(r)
  BY <1>7 DEF Holds, RunLocked
<1> QED BY <1>2, <1>7, <1>11, <1>12, <1>13, <1>14, HolderKeeps DEF e

LEMMA RunSwapKeeps ==
  ASSUME Inv, OneCallEach, NEW c \in Calls, RunSwap(c)
  PROVE  Inv'
BY SelectKeeps DEF RunSwap, At

LEMMA RunCheckKeeps ==
  ASSUME Inv, OneCallEach, NEW c \in Calls, RunCheck(c)
  PROVE  Inv'
<1>1. call[c] \in CallRecord /\ Placed(call[c]) /\ Eff(c) \in Effects
      /\ call[c].at = "check" /\ call[c].kind = "run"
  BY KindAt DEF Inv, RunCheck, At
<1>2. /\ Holds(call[c]) /\ Evidenced(call[c]) /\ Claimed(Eff(c))
      /\ call[c].before \in Base /\ call[c].after \in Base
  BY <1>1 DEF Holds, Evidenced, RunLocked, Placed, Inv, LockInv, CallsAreClaimed, Dispatched
<1>3. CallInv(call[c])
  BY DEF Inv, HistoryInv
<1>4. CASE Select(c)
  BY <1>4, SelectKeeps DEF RunCheck, At
<1>5. ASSUME UNCHANGED <<head, published>>
      PROVE  Quiet /\ SameOwner
  BY <1>5, LockUntouched DEF RunCheck, journal, files, Quiet, Inv, TypeOK
<1>6. CASE Goto(c, "swap") /\ UNCHANGED <<head, published>>
  <2>1. PICK r : MovesTo(c, r, "swap")
    BY <1>1, <1>2, <1>6, GotoMoves DEF Inv, RunPlaces, RunLocked
  <2>2. /\ Steps(c, r) /\ r.kind = "run" /\ r.effect = Eff(c) /\ r.at = "swap"
        /\ r.before = call[c].before /\ r.after = call[c].after
    BY <1>1, <2>1 DEF MovesTo, Eff
  <2>3. CallInv(r) /\ DecidesByRecord(r) /\ Holds(r)
    BY <1>1, <1>3, <2>2
       DEF CallInv, BasedOnPublished, RunKnows, InHand, OfRecord, OutcomeIsTrue, ReadIsTelling,
           DecidesByRecord, Holds, RunLocked, Eff
  <2> QED BY <1>2, <1>5, <1>6, <2>2, <2>3, QuietStep
<1>7. CASE Finish(c, "failed") /\ UNCHANGED <<head, published>>
  <2>1. "failed" \in Outcomes /\ TRUE \in BOOLEAN
    BY DEF Outcomes
  <2>2. PICK r : /\ Steps(c, r) /\ r.at = "save" /\ r.kind = "run" /\ r.effect = Eff(c)
                 /\ r.before = call[c].before /\ r.after = call[c].after /\ r.status = "failed"
    BY <1>1, <1>2, <1>7, <2>1, FinishMoves DEF Finish, Inv
  <2>3. CallInv(r) /\ DecidesByRecord(r) /\ Holds(r)
    BY <1>1, <1>3, <2>2
       DEF CallInv, BasedOnPublished, RunKnows, InHand, OfRecord, OutcomeIsTrue, ReadIsTelling,
           DecidesByRecord, Holds, RunLocked, Eff
  <2> QED BY <1>2, <1>5, <1>7, <2>2, <2>3, QuietStep
<1> QED BY <1>4, <1>6, <1>7 DEF RunCheck

\* The outcome saved is the one that happened, and the record stays that of the application.
LEMMA FinishSaveKeeps ==
  ASSUME Inv, OneCallEach, NEW c \in Calls, FinishSave(c)
  PROVE  Inv'
<1> DEFINE e == Eff(c)
           a == call[c].after
           b == call[c].before
           o == SavedStatus(c)
<1>1. PICK r : /\ Steps(c, r) /\ r.at = "commit" /\ r.kind = call[c].kind
               /\ r.effect = e /\ r.before = b /\ r.after = a /\ r.status = o
               /\ records' = [records EXCEPT ![e] =
                    [before |-> r.before, after |-> r.after, completed |-> r.status]]
               /\ r.before \in Base /\ call[c].at = "save" /\ e \in Effects
               /\ call[c].kind \in {"run", "reconcile"}
  BY FinishSaveMoves DEF Inv
<1>2. /\ Holds(call[c]) /\ Evidenced(call[c]) /\ Holds(r) /\ Claimed(e)
      /\ a \in Base \cup {None} /\ o \in Outcomes \cup {None} /\ b \in Base
  BY <1>1 DEF Holds, Evidenced, RunLocked, RecoveryLocked, Inv, LockInv, CallsAreClaimed,
              Dispatched,
              Steps, CallRecord
<1>3. a # None \/ published[e] = 1 =>
        records[e] # None /\ records[e].before = b /\ records[e].after = a
  BY <1>1 DEF Inv, HistoryInv, CallInv, InHand, OfRecord, Eff
<1>4. o = "completed" <=> published[e] = 1
  <2>1. call[c].status = "completed" <=> published[e] = 1
    BY <1>1 DEF Inv, HistoryInv, CallInv, OutcomeIsTrue, Eff
  <2>2. CASE call[c].kind = "reconcile" /\ records[e].completed # None
    <3>1. records[e] # None
      BY <1>1, <2>2, AbsentAssumption DEF Inv, Recorded, At
    <3>2. o = records[e].completed
      BY <2>2 DEF SavedStatus
    <3> QED BY <1>1, <2>2, <3>1, <3>2 DEF Inv, HistoryInv, TargetInv, RecordsAreTrue
  <2>3. CASE ~(call[c].kind = "reconcile" /\ records[e].completed # None)
    BY <2>1, <2>3 DEF SavedStatus
  <2> QED BY <2>2, <2>3
<1>5. UNCHANGED <<undoes, stage, entry, receipts, head, revisions, published, lock>>
  BY DEF FinishSave, journal, target
<1>6. /\ records' \in [Effects -> Record \cup {None}]
      /\ records'[e] \in Record /\ records'[e] # None
      /\ records'[e].before = b /\ records'[e].after = a /\ records'[e].completed = o
      /\ \A f \in Effects : f # e => records'[f] = records[f]
      /\ \A f \in Effects : records[f] \in Record => records'[f] \in Record
  <2>1. RecordWritten(e, b, a, o)
    BY <1>1 DEF RecordWritten
  <2> HIDE DEF e, a, b, o
  <2> QED BY <1>1, <1>2, <2>1, RecordWrittenParts DEF Inv
<1> HIDE DEF e, a, b, o
<1>7. DurableTyped /\ ClaimedNext(e)
  BY <1>2, <1>5, <1>6 DEF Inv, TypeOK, DurableTyped, Claimed, ClaimedNext
<1>8. \A f \in Effects : Prepared(f)' =>
        /\ Prepared(f) /\ records'[f].after = records[f].after
        /\ records'[f].before = records[f].before
  BY <1>3, <1>6 DEF Prepared
<1>9. \A f \in Effects : published[f] = 1 =>
        (Prepared(f) => Prepared(f)' /\ records'[f].after = records[f].after)
  BY <1>3, <1>6 DEF Prepared
<1>10. TargetInv'
  <2>1. PublishedOnce' /\ ReceiptsTellTheTruth'
    BY <1>5 DEF Inv, HistoryInv, TargetInv, PublishedOnce, ReceiptsTellTheTruth, Claimed,
                ReceiptOf
  <2>2. RevisionsGrow'
    BY <1>5, <1>8 DEF Inv, HistoryInv, TargetInv, RevisionsGrow
  <2>3. TargetShowsPublished'
    BY <1>5, <1>8, <1>9 DEF Inv, HistoryInv, TargetInv, TargetShowsPublished
  <2>4. RecordsAreTrue'
    BY <1>4, <1>5, <1>6 DEF Inv, HistoryInv, TargetInv, RecordsAreTrue
  <2> QED BY <2>1, <2>2, <2>3, <2>4 DEF TargetInv
<1>11. CallInv(r)'
  BY <1>1, <1>4, <1>5, <1>6
     DEF CallInv, BasedOnPublished, RunKnows, InHand, OfRecord, OutcomeIsTrue, ReadIsTelling
<1> QED BY <1>1, <1>2, <1>6, <1>7, <1>10, <1>11, HolderKeeps DEF e
\* The first receipt of an effect tells what happened to the target.
LEMMA FinishCommitKeeps ==
  ASSUME Inv, OneCallEach, NEW c \in Calls, FinishCommit(c)
  PROVE  Inv'
<1> DEFINE e == Eff(c)
           status == call[c].status
           new == [effect |-> e, status |-> status, applied |-> intent[e].epoch = epoch]
<1>1. /\ call[c] \in CallRecord /\ Placed(call[c]) /\ e \in Effects
      /\ call[c].at = "commit" /\ call[c].kind \in {"run", "reconcile"}
  BY KindAt DEF Inv, FinishCommit, At
<1>2. Holds(call[c]) /\ Evidenced(call[c]) /\ Claimed(e) /\ status \in Outcomes \cup {None}
  BY <1>1 DEF Holds, Evidenced, RunLocked, RecoveryLocked, Inv, LockInv, CallsAreClaimed,
              Dispatched,
              CallRecord
<1>3. UNCHANGED <<undoes, stage, head, revisions, published, lock, records>>
  BY DEF FinishCommit, files, target
<1>4. CASE Return(c) /\ UNCHANGED <<entry, receipts>>
  <2>1. Steps(c, Idle)
    BY <1>4, ReturnSteps
  <2>2. CallInv(Idle) /\ DecidesByRecord(Idle) /\ ~Dispatched(Idle) /\ ~Holds(Idle)
    BY IdleTyped, NothingToTell DEF Idle, Dispatched, Holds
  <2>3. Quiet /\ SameOwner
    BY <1>3, <1>4, LockUntouched DEF Quiet, Inv, TypeOK
  <2> QED BY <1>2, <2>1, <2>2, <2>3, QuietStep
<1>5. CASE RecordReceipt(e, status) /\ Goto(c, "unlock")
  <2>1. PICK r : MovesTo(c, r, "unlock")
    BY <1>1, <1>5, GotoMoves DEF Inv, RunPlaces, RunLocked, RecoveryPlaces, RecoveryLocked
  <2>2. Steps(c, r) /\ r.kind = call[c].kind /\ r.effect = e /\ r.at = "unlock"
    BY <2>1 DEF MovesTo, Eff
  <2>3. CallInv(r) /\ DecidesByRecord(r) /\ Holds(r) /\ (Dispatched(r) => Claimed(e))
    BY <1>1, <1>2, <2>2, NothingToTell DEF Steps, Holds, RunLocked, RecoveryLocked
  <2>4. CASE ReceiptOf(e) # {}
    <3>1. UNCHANGED <<entry, receipts>>
      BY <1>5, <2>4 DEF RecordReceipt
    <3>2. Quiet /\ SameOwner
      BY <1>3, <3>1, LockUntouched DEF Quiet, Inv, TypeOK
    <3> QED BY <1>2, <2>2, <2>3, <3>2, QuietStep
  <2>5. CASE ReceiptOf(e) = {}
    <3>1. receipts' = Append(receipts, new)
          /\ (entry' = entry \/ entry' = [entry EXCEPT ![e] = "resolved"])
      <4>1. entry' = [entry EXCEPT ![e] = IF intent[e].epoch = epoch THEN "resolved" ELSE @]
        BY <1>5, <2>5 DEF RecordReceipt
      <4>2. entry \in [Effects -> {"absent", "intended", "dispatched", "resolved"}]
        BY DEF Inv, TypeOK
      <4> QED BY <1>1, <1>5, <2>5, <4>1, <4>2 DEF RecordReceipt
    <3>2. new \in JournalReceipt /\ new.effect = e /\ new.status = status
      BY <1>1, <1>2 DEF JournalReceipt
    <3>3. /\ Len(receipts) \in Nat /\ DOMAIN receipts = 1..Len(receipts)
          /\ receipts \in Seq(JournalReceipt)
      BY ReceiptsTyped DEF Inv
    <3> HIDE DEF new
    <3>4. /\ receipts' \in Seq(JournalReceipt) /\ DOMAIN receipts' = 1..(Len(receipts) + 1)
          /\ receipts'[Len(receipts) + 1] = new
          /\ \A i \in 1..Len(receipts) : receipts'[i] = receipts[i]
      BY <3>1, <3>2, <3>3, AppendProperties
    <3>5. \A i \in DOMAIN receipts' :
            \/ receipts'[i].effect = e /\ receipts'[i].status = status
            \/ i \in DOMAIN receipts /\ receipts'[i] = receipts[i]
      BY <3>2, <3>3, <3>4
    <3>6. \A f \in Effects : f # e => (ReceiptOf(f)' # {} => ReceiptOf(f) # {})
      BY <3>5 DEF ReceiptOf
    <3>7. DurableTyped /\ ClaimedNext(e)
      BY <1>1, <1>2, <1>3, <3>1, <3>4 DEF Inv, TypeOK, DurableTyped, Claimed, ClaimedNext
    <3>8. published[e] = IF status = "completed" THEN 1 ELSE 0
      <4>1. status = "completed" <=> published[e] = 1
        BY <1>1 DEF Inv, HistoryInv, CallInv, OutcomeIsTrue, Eff
      <4>2. published[e] \in {0, 1}
        BY <1>1 DEF Inv, HistoryInv, TargetInv, PublishedOnce
      <4> QED BY <4>1, <4>2
    <3>9. TargetInv'
      <4>1. RevisionsGrow' /\ TargetShowsPublished' /\ RecordsAreTrue'
        BY <1>3 DEF Inv, HistoryInv, TargetInv, RevisionsGrow, TargetShowsPublished,
                    RecordsAreTrue, Prepared
      <4>2. PublishedOnce'
        <5> SUFFICES ASSUME NEW f \in Effects
                     PROVE  /\ published'[f] \in {0, 1}
                            /\ ~ClaimedNext(f) => published'[f] = 0 /\ ReceiptOf(f)' = {}
          BY DEF PublishedOnce, Claimed, ClaimedNext
        <5>1. ~ClaimedNext(f) => f # e /\ ~Claimed(f)
          BY <3>7 DEF DurableTyped
        <5> QED BY <1>3, <3>6, <5>1 DEF Inv, HistoryInv, TargetInv, PublishedOnce
      <4>3. ReceiptsTellTheTruth'
        BY <1>3, <3>5, <3>8 DEF Inv, HistoryInv, TargetInv, ReceiptsTellTheTruth
      <4> QED BY <4>1, <4>2, <4>3 DEF TargetInv
    <3>10. CallInv(r)'
      BY <2>2 DEF CallInv, BasedOnPublished, RunKnows, InHand, OutcomeIsTrue, ReadIsTelling
    <3> HIDE DEF e
    <3> QED BY <1>2, <2>2, <2>3, <3>7, <3>9, <3>10, HolderKeeps DEF e
  <2> QED BY <2>4, <2>5
<1> QED BY <1>4, <1>5 DEF FinishCommit

-----------------------------------------------------------------------------
(* The steps around the calls.                                               *)

\* A process is lost with its calls: its lock is no longer a live one's.
LEMMA CrashKeeps ==
  ASSUME Inv, NEW i \in Instances, Crash(i)
  PROVE  Inv'
<1>1. /\ call' = [c \in Calls |-> IF Serves[c] = i THEN Idle ELSE call[c]]
      /\ UNCHANGED <<undoes, stage, entry, receipts, head, revisions, records, published>>
  BY DEF Crash, journal, target
<1>2. \A c \in Calls : call'[c] = Idle \/ (call'[c] = call[c] /\ Serves[c] # i)
  BY <1>1
<1>3. /\ lock' \in Lock \cup {None}
      /\ lock # None /\ lock.owner # i => lock' = lock
      /\ lock # None /\ lock.owner = i => lock' # None /\ lock'.owner = Dead
      /\ lock = None => lock' = None
  <2>1. CASE lock # None /\ lock.owner = i
    <3>1. lock' = [lock EXCEPT !.owner = Dead] /\ lock \in Lock
      BY <2>1 DEF Crash, Inv, TypeOK
    <3>2. lock' \in Lock /\ lock'.owner = Dead
      BY <3>1 DEF Lock
    <3> QED BY <2>1, <3>2, AbsentAssumption
  <2>2. CASE ~(lock # None /\ lock.owner = i)
    BY <2>2 DEF Crash, Inv, TypeOK
  <2> QED BY <2>1, <2>2
<1>4. TypeOK'
  <2>1. call' \in [Calls -> CallRecord] /\ \A c \in Calls : Placed(call'[c])
    BY <1>1, <1>2, IdleTyped DEF Inv, TypeOK
  <2> QED BY <1>1, <1>3, <2>1 DEF Inv, TypeOK
<1>5. Recorded'
  BY <1>1, <1>2 DEF Inv, Recorded, At, Eff, Idle
<1>6. LockInv'
  <2>1. HoldersOwn'
    <3> SUFFICES ASSUME NEW c \in Calls, Holds(call'[c])
                 PROVE  /\ lock' # None /\ lock'.owner = Serves[c]
                        /\ lock'.effect = call'[c].effect
                        /\ Evidenced(call'[c]) => lock'.evidence
      BY DEF HoldersOwn, Holds, Evidenced, Eff
    <3>1. call'[c] = call[c] /\ Serves[c] # i
      BY <1>2 DEF Holds, Idle
    <3>2. lock # None /\ lock.owner = Serves[c] /\ lock.effect = Eff(c)
          /\ (Evidenced(call[c]) => lock.evidence)
      BY <3>1 DEF Inv, LockInv, HoldersOwn
    <3> QED BY <1>3, <3>1, <3>2 DEF Eff
  <2>2. CallsAreClaimed'
    BY <1>1, <1>2 DEF Inv, LockInv, CallsAreClaimed, Dispatched, Idle, Claimed, Eff
  <2>3. LocksAreExplained'
    <3> SUFFICES ASSUME lock' # None, lock'.owner # Dead, ~lock'.stuck,
                        ~(ClaimedNext(lock'.effect) /\ lock'.evidence)
                 PROVE  \E c \in Calls : Serves[c] = lock'.owner /\ Holds(call'[c])
      BY DEF LocksAreExplained, Alive, Claimed, ClaimedNext, Holds
    <3>1. lock' = lock /\ lock # None /\ lock.owner # i /\ ~lock.stuck
          /\ ~(Claimed(lock.effect) /\ lock.evidence)
      BY <1>1, <1>3 DEF Claimed, ClaimedNext
    <3>2. PICK c \in Calls : Serves[c] = lock.owner /\ Holds(call[c])
      BY <3>1 DEF Inv, LockInv, LocksAreExplained, Alive
    <3>3. call'[c] = call[c]
      BY <1>1, <3>1, <3>2
    <3> QED BY <3>1, <3>2, <3>3
  <2> QED BY <2>1, <2>2, <2>3 DEF LockInv
<1>7. HistoryInv'
  <2>1. TargetInv'
    BY <1>1 DEF Inv, HistoryInv, TargetInv, PublishedOnce, RevisionsGrow, TargetShowsPublished,
                RecordsAreTrue, ReceiptsTellTheTruth, Prepared, Claimed, ReceiptOf
  <2>2. \A c \in Calls : CallInv(call'[c])
    BY <1>2, IdleTyped, NothingToTell DEF Inv, HistoryInv, Idle
  <2>3. \A c \in Calls : CallInv(call[c])'
    BY <1>1, <2>2 DEF CallInv, BasedOnPublished, RunKnows, InHand, OutcomeIsTrue, ReadIsTelling,
                      OfRecord, Prepared, ReceiptOf
  <2> QED BY <2>1, <2>3 DEF HistoryInv
<1> QED BY <1>4, <1>5, <1>6, <1>7 DEF Inv

\* What is said of the calls stands while neither lock, records, receipts nor publications
\* change, nobody's claim changes and revisions only grow.
LEMMA CallsStand ==
  ASSUME Inv, UNCHANGED <<call, lock, receipts, records, published>>,
         \A e \in Effects : ClaimedNext(e) <=> Claimed(e),
         revisions' \in Nat, revisions <= revisions'
  PROVE  /\ LockInv' /\ \A c \in Calls : CallInv(call[c])'
         /\ PublishedOnce' /\ RecordsAreTrue' /\ ReceiptsTellTheTruth'
<1>1. LockInv'
  <2>1. HoldersOwn'
    BY DEF Inv, LockInv, HoldersOwn, Eff, Holds, Evidenced
  <2>2. CallsAreClaimed'
    <3> SUFFICES ASSUME NEW c \in Calls, Dispatched(call[c])
                 PROVE  ClaimedNext(Eff(c))
      BY DEF CallsAreClaimed, Claimed, ClaimedNext, Eff
    <3>1. Eff(c) \in Effects
      BY KindAt DEF Dispatched, Inv, RecoveryPlaces, RecoveryLocked
    <3> QED BY <3>1 DEF Inv, LockInv, CallsAreClaimed
  <2>3. LocksAreExplained'
    <3>1. lock # None => lock.effect \in Effects
      BY DEF Inv, TypeOK, Lock
    <3> QED BY <3>1 DEF Inv, LockInv, LocksAreExplained, Claimed, ClaimedNext
  <2> QED BY <2>1, <2>2, <2>3 DEF LockInv
<1>2. PublishedOnce' /\ RecordsAreTrue' /\ ReceiptsTellTheTruth'
  BY DEF Inv, HistoryInv, TargetInv, PublishedOnce, RecordsAreTrue, ReceiptsTellTheTruth,
         Claimed, ClaimedNext, ReceiptOf
<1>3. ASSUME NEW c \in Calls
      PROVE  CallInv(call[c])'
  <2>1. CallInv(call[c]) /\ Placed(call[c])
    BY DEF Inv, HistoryInv, TypeOK
  <2>2. BasedOnPublished(call[c])'
    <3>1. call[c].at \in {"claim", "record", "prepare", "check", "swap"}
            => call[c].before.revision \in Nat
      BY <2>1 DEF Placed, Base
    <3> QED BY <2>1, <3>1 DEF CallInv, BasedOnPublished, Inv, TypeOK
  <2> QED BY <2>1, <2>2 DEF CallInv, RunKnows, InHand, OutcomeIsTrue, ReadIsTelling, OfRecord,
                            Prepared, ReceiptOf
<1> QED BY <1>1, <1>2, <1>3

\* The author of a candidate writes nothing but the candidate.
LEMMA AuthorKeeps ==
  ASSUME Inv, NEW e \in Effects, Author(e)
  PROVE  Inv'
<1>1. UNCHANGED <<undoes, entry, receipts, head, revisions, records, published, lock, call>>
  BY DEF Author, Stage, Write, Seal, journal, files, target
<1>2. stage' \in [Effects -> StageRecord]
  <2>0. stage \in [Effects -> StageRecord] /\ head \in Base
    BY DEF Inv, TypeOK
  <2>1. CASE Stage(e)
    <3>1. [phase |-> "open", base |-> head, content |-> head.content] \in StageRecord
      BY <2>0 DEF StageRecord, Base
    <3> QED BY <2>0, <2>1, <3>1 DEF Stage
  <2>2. CASE Seal(e)
    <3>1. [stage[e] EXCEPT !.phase = "sealed"] \in StageRecord
      BY <2>0 DEF StageRecord
    <3> QED BY <2>0, <2>2, <3>1 DEF Seal
  <2>3. ASSUME NEW p \in Paths, Write(e, p)
        PROVE  stage' \in [Effects -> StageRecord]
    <3> DEFINE content == [stage[e].content EXCEPT ![p] = e]
    <3>1. stage[e] \in StageRecord
      BY <2>0
    <3>2. content \in Content
      BY <3>1 DEF StageRecord, Content
    <3>3. stage' = [stage EXCEPT ![e] = [stage[e] EXCEPT !.content = content]]
      BY <2>3 DEF Write
    <3> HIDE DEF content
    <3>4. [stage[e] EXCEPT !.content = content] \in StageRecord
      BY <3>1, <3>2 DEF StageRecord
    <3> QED BY <2>0, <3>3, <3>4
  <2> QED BY <2>1, <2>2, <2>3 DEF Author
<1>3. TypeOK'
  BY <1>1, <1>2 DEF Inv, TypeOK
<1>4. Recorded' /\ RevisionsGrow' /\ TargetShowsPublished'
  BY <1>1 DEF Inv, HistoryInv, TargetInv, Recorded, RevisionsGrow, TargetShowsPublished,
              Prepared, At, Eff
<1>5. /\ \A f \in Effects : ClaimedNext(f) <=> Claimed(f)
      /\ revisions' \in Nat /\ revisions <= revisions'
  BY <1>1 DEF ClaimedNext, Claimed, Inv, TypeOK
<1>6. /\ LockInv' /\ \A c \in Calls : CallInv(call[c])'
      /\ PublishedOnce' /\ RecordsAreTrue' /\ ReceiptsTellTheTruth'
  BY <1>1, <1>5, CallsStand
<1> QED BY <1>3, <1>4, <1>6 DEF Inv, HistoryInv, TargetInv

\* An intention is no claim yet, and what it would undo has been recorded as applied.
LEMMA IntendKeeps ==
  ASSUME Inv, NEW e \in Effects, Intend(e)
  PROVE  Inv'
<1>1. UNCHANGED <<undoes, stage, receipts, head, revisions, records, published, lock, call>>
  BY DEF Intend, files, target
<1>2. entry[e] = "absent" /\ entry' = [entry EXCEPT ![e] = "intended"]
  BY DEF Intend
<1>3. TypeOK'
  BY <1>1, <1>2 DEF Inv, TypeOK
<1>4. \A f \in Effects : ClaimedNext(f) <=> Claimed(f)
  BY <1>2 DEF ClaimedNext, Claimed, Inv, TypeOK
<1>5. undoes[e] # None => records[undoes[e]] \in Record
  BY DEF Intend, Applied, Inv, TypeOK
<1>6. Recorded'
  BY <1>1, <1>2, <1>5 DEF Inv, Recorded, At, Eff, TypeOK
<1>7. RevisionsGrow' /\ TargetShowsPublished'
  BY <1>1 DEF Inv, HistoryInv, TargetInv, RevisionsGrow, TargetShowsPublished, Prepared
<1>8. revisions' \in Nat /\ revisions <= revisions'
  BY <1>1 DEF Inv, TypeOK
<1>9. /\ LockInv' /\ \A c \in Calls : CallInv(call[c])'
      /\ PublishedOnce' /\ RecordsAreTrue' /\ ReceiptsTellTheTruth'
  BY <1>1, <1>4, <1>8, CallsStand
<1> QED BY <1>3, <1>6, <1>7, <1>9 DEF Inv, HistoryInv, TargetInv

\* What somebody else selects is a snapshot past every prepared one.
LEMMA ForeignChangeKeeps ==
  ASSUME Inv, NEW p \in Paths, ForeignChange(p)
  PROVE  Inv'
<1> DEFINE content == [head.content EXCEPT ![p] = "foreign"]
<1>1. /\ UNCHANGED <<undoes, stage, entry, receipts, records, published, lock, call>>
      /\ head' = [revision |-> revisions + 1, content |-> content]
      /\ revisions' = revisions + 1
  BY DEF ForeignChange, Snapshot, journal, files
<1>2. head \in Base /\ revisions \in Nat
  BY DEF Inv, TypeOK
<1>3. content \in Content
  BY <1>2 DEF Base, Content
<1> HIDE DEF content
<1>4. head' \in Base /\ head'.revision = revisions + 1 /\ revisions' \in Nat
      /\ revisions <= revisions'
  BY <1>1, <1>2, <1>3 DEF Base
<1>5. TypeOK'
  BY <1>1, <1>4 DEF Inv, TypeOK
<1>6. Recorded'
  BY <1>1 DEF Inv, Recorded, At, Eff
<1>7. \A e \in Effects : Prepared(e) =>
        records[e].after.revision \in Nat /\ records[e].after.revision <= revisions
  BY DEF Inv, HistoryInv, TargetInv, RevisionsGrow, TypeOK, Record, Base, Prepared
<1>8. RevisionsGrow'
  BY <1>1, <1>2, <1>4, <1>7 DEF Inv, HistoryInv, TargetInv, RevisionsGrow, Prepared
<1>9. TargetShowsPublished'
  BY <1>1, <1>2, <1>4, <1>7 DEF Inv, HistoryInv, TargetInv, TargetShowsPublished, Prepared
<1>10. \A e \in Effects : ClaimedNext(e) <=> Claimed(e)
  BY <1>1 DEF ClaimedNext, Claimed
<1>11. /\ LockInv' /\ \A c \in Calls : CallInv(call[c])'
       /\ PublishedOnce' /\ RecordsAreTrue' /\ ReceiptsTellTheTruth'
  BY <1>1, <1>4, <1>10, CallsStand
<1> QED BY <1>5, <1>6, <1>8, <1>9, <1>11 DEF Inv, HistoryInv, TargetInv

\* Expiries and epochs concern nothing the invariant speaks of.
LEMMA OutsideKeeps ==
  ASSUME Inv, UNCHANGED <<undoes, stage, entry, receipts, files, target, call>>
  PROVE  Inv'
<1>1. UNCHANGED <<undoes, stage, entry, receipts, head, revisions, records, published, lock,
                  call>>
  BY DEF files, target
<1>2. TypeOK'
  BY <1>1 DEF Inv, TypeOK
<1>3. Recorded' /\ RevisionsGrow' /\ TargetShowsPublished'
  BY <1>1 DEF Inv, HistoryInv, TargetInv, Recorded, RevisionsGrow, TargetShowsPublished,
              Prepared, At, Eff
<1>4. /\ \A f \in Effects : ClaimedNext(f) <=> Claimed(f)
      /\ revisions' \in Nat /\ revisions <= revisions'
  BY <1>1 DEF ClaimedNext, Claimed, Inv, TypeOK
<1>5. /\ LockInv' /\ \A c \in Calls : CallInv(call[c])'
      /\ PublishedOnce' /\ RecordsAreTrue' /\ ReceiptsTellTheTruth'
  BY <1>1, <1>4, CallsStand
<1> QED BY <1>2, <1>3, <1>5 DEF Inv, HistoryInv, TargetInv

-----------------------------------------------------------------------------
(* The invariant and what it says.                                           *)

LEMMA InitInv ==
  ASSUME Init
  PROVE  Inv
<1>1. FirstBase \in Base /\ FirstBase.revision = 0 /\ FirstBase.content \in Content
  BY DEF FirstBase, Base, Content
<1>2. NoStage \in StageRecord
  BY <1>1 DEF NoStage, StageRecord
<1>3. undoes \in [Effects -> Effects \cup {None}]
  BY WorkspaceAssumption DEF Init
<1>4. receipts \in Seq(JournalReceipt) /\ DOMAIN receipts = {}
  BY EmptySeq DEF Init
<1>5. \A c \in Calls : call[c] = Idle
  BY DEF Init
<1>6. TypeOK
  BY <1>1, <1>2, <1>3, <1>4, IdleTyped DEF Init, TypeOK
<1>7. Recorded
  BY <1>5 DEF Init, Recorded, Idle, At
<1>8. LockInv
  BY <1>5 DEF Init, LockInv, HoldersOwn, CallsAreClaimed, LocksAreExplained, Holds, Evidenced,
              Dispatched, Idle
<1>9. TargetInv
  BY <1>1, <1>4 DEF Init, TargetInv, PublishedOnce, RevisionsGrow, TargetShowsPublished,
                    RecordsAreTrue, ReceiptsTellTheTruth, Prepared, Claimed, ReceiptOf
<1>10. \A c \in Calls : CallInv(call[c])
  BY <1>5, IdleTyped, NothingToTell DEF Idle
<1> QED BY <1>6, <1>7, <1>8, <1>9, <1>10 DEF Inv, HistoryInv

LEMMA NextInv ==
  ASSUME Inv, OneCallEach, [Next]_vars
  PROVE  Inv'
<1>1. ASSUME NEW c \in Calls, Run(c)
      PROVE  Inv'
  <2>1. ASSUME NEW e \in Effects, RunBegin(c, e)
        PROVE  Inv'
    BY <2>1, RunBeginKeeps
  <2>2. CASE RunLock(c)
    BY <2>2, TakeLockKeeps DEF RunLock, At
  <2>3. CASE RunOwner(c)
    BY <2>3, WriteOwnerKeeps DEF RunOwner
  <2>4. CASE RunPlan(c)
    BY <2>4, RunPlanKeeps
  <2>5. CASE RunClaim(c)
    BY <2>5, RunClaimKeeps
  <2>6. CASE RunRecord(c)
    BY <2>6, RunRecordKeeps
  <2>7. CASE RunPrepare(c)
    BY <2>7, RunPrepareKeeps
  <2>8. CASE RunCheck(c)
    BY <2>8, RunCheckKeeps
  <2>9. CASE RunSwap(c)
    BY <2>9, RunSwapKeeps
  <2>10. CASE RunObserve(c)
    BY <2>10, RunObserveKeeps
  <2>11. CASE RunThrow(c)
    BY <2>11, RunThrowKeeps
  <2> QED BY <1>1, <2>1, <2>2, <2>3, <2>4, <2>5, <2>6, <2>7, <2>8, <2>9, <2>10, <2>11 DEF Run
<1>2. ASSUME NEW c \in Calls, Reconcile(c)
      PROVE  Inv'
  <2>1. ASSUME NEW e \in Effects, ReconcileBegin(c, e)
        PROVE  Inv'
    BY <2>1, ReconcileBeginKeeps
  <2>2. CASE RecoverExists(c)
    BY <2>2, RecoverExistsKeeps
  <2>3. CASE RecoverInspect(c)
    BY <2>3, RecoverInspectKeeps
  <2>4. CASE RecoverLock(c)
    <3> DEFINE refused == IF call[c].arbiter THEN "refused" ELSE "idle"
    <3>1. TakeLock(c, "reown", refused) /\ refused \in {"idle", "refused"}
          /\ call[c].at = "relock"
      BY <2>4 DEF RecoverLock, At
    <3>2. UNCHANGED <<undoes, stage, journal, arbiter, fence, records, target, upsets>>
      BY <2>4 DEF RecoverLock
    <3> QED BY <3>1, <3>2, TakeLockKeeps
  <2>5. CASE RecoverOwner(c)
    BY <2>5, WriteOwnerKeeps DEF RecoverOwner
  <2>6. CASE ReleaseArbiter(c)
    BY <2>6, ReleaseArbiterKeeps
  <2>7. CASE ReconcileRead(c)
    BY <2>7, ReconcileReadKeeps
  <2>8. CASE ReconcileDecide(c)
    BY <2>8, ReconcileDecideKeeps
  <2>9. CASE ReconcileThrow(c)
    BY <2>9, ReconcileThrowKeeps
  <2>10. CASE RecoverThrow(c)
    BY <2>10, RecoverThrowKeeps
  <2> QED BY <1>2, <2>1, <2>2, <2>3, <2>4, <2>5, <2>6, <2>7, <2>8, <2>9, <2>10 DEF Reconcile
<1>3. ASSUME NEW c \in Calls,
             \/ FinishSave(c) \/ FinishCommit(c)
             \/ Unlock(c) \/ AcquireThrow(c) \/ UnlockThrow(c)
      PROVE  Inv'
  BY <1>3, FinishSaveKeeps, FinishCommitKeeps, UnlockKeeps, AcquireThrowKeeps, UnlockThrowKeeps
<1>4. ASSUME NEW e \in Effects, Author(e) \/ Intend(e)
      PROVE  Inv'
  BY <1>4, AuthorKeeps, IntendKeeps
<1>5. ASSUME NEW i \in Instances, Crash(i)
      PROVE  Inv'
  BY <1>5, CrashKeeps
<1>6. ASSUME NEW p \in Paths, ForeignChange(p)
      PROVE  Inv'
  BY <1>6, ForeignChangeKeeps
<1>7. ASSUME \/ \E e \in Effects : Expire(e)
             \/ AdvanceEpoch
             \/ UNCHANGED vars
      PROVE  Inv'
  BY <1>7, OutsideKeeps DEF Expire, AdvanceEpoch, vars, journal
<1> QED BY <1>1, <1>2, <1>3, <1>4, <1>5, <1>6, <1>7 DEF Next

LEMMA InvHolds == OneCallEach /\ Spec => []Inv
<1>1. Init => Inv
  BY InitInv
<1>2. OneCallEach /\ Inv /\ [Next]_vars => Inv'
  BY NextInv
<1>3. OneCallEach => OneCallEach'
  OBVIOUS
<1> QED BY <1>1, <1>2, <1>3, PTL DEF Spec

\* One lock directory protects the integration target of every number of instances, through
\* crashes and recoveries at any point (acquireLock, recoveryLock, releaseLock): a call holds
\* the directory from the moment it made it, so nobody removes it but its own call or a
\* recovery that finds its process dead or its instance idle.
THEOREM LockProtects == OneCallEach /\ Spec => []OneWriter
<1>1. OneCallEach /\ Inv => OneWriter
  <2>1. \A c \in Calls : InTransaction(c) => Holds(call[c])
    BY DEF InTransaction, Holds, At
  <2> QED BY <2>1, HoldsAlone DEF Inv, LockInv, OneWriter, HoldersOwn
<1>2. OneCallEach => OneCallEach'
  OBVIOUS
<1> QED BY <1>1, <1>2, InvHolds, PTL

\* A receipt says what happened to the target, for every number of effects, of which some undo
\* others, whatever was lost between claim, record, publication and receipt (run, finish,
\* reconcile): revisions only grow, so that target and record together show whether a snapshot
\* was selected.
THEOREM ReceiptsAreTrue == OneCallEach /\ Spec => []ReceiptsTellTheTruth
<1>1. Inv => ReceiptsTellTheTruth
  BY DEF Inv, HistoryInv, TargetInv
<1> QED BY <1>1, InvHolds, PTL

\* An idle live instance keeps a lock only of an effect it has claimed and only with its owner
\* file, so that its next reconciliation may recover it: through every refusal, crash and
\* exception, unless the file system failed on the lock itself (run, recoveryLock, releaseLock).
THEOREM KeptForRecovery == OneCallEach /\ Spec => []KeptLocksAreRecoverable
<1>1. Inv => KeptLocksAreRecoverable
  <2> SUFFICES ASSUME Inv, lock # None, Alive(lock.owner), ~lock.stuck,
                      ~(Claimed(lock.effect) /\ lock.evidence),
                      \A c \in Calls : Serves[c] = lock.owner => call[c].at = "idle"
               PROVE  FALSE
    BY DEF KeptLocksAreRecoverable, Claimed, At
  <2>1. PICK c \in Calls : Serves[c] = lock.owner /\ Holds(call[c])
    BY DEF Inv, LockInv, LocksAreExplained
  <2> QED BY <2>1 DEF Holds, RunLocked, RecoveryLocked
<1> QED BY <1>1, InvHolds, PTL
=============================================================================
