------------------------------ MODULE Workspace ------------------------------
(***************************************************************************)
(* The workspace provider: candidates are staged and sealed apart from the   *)
(* integration target, and an effect the journal has committed applies a      *)
(* sealed patch, or undoes an application, under one writer lock that is a    *)
(* directory of the file system.  Provider instances live in processes that    *)
(* are lost at any point; what survives is the journal, the lock directories,  *)
(* the fence file, the application records and the snapshot pointer.          *)
(*                                                                          *)
(* A call is one asynchronous function of the provider: an action ends where   *)
(* the function awaits the file system.  Steps on files that only the lock     *)
(* holder touches are joined when no crash between them can be told apart.     *)
(***************************************************************************)
EXTENDS Integers, Sequences, FiniteSets, SequencesExt

CONSTANTS
  Effects,       \* the workspace effects, with their stage, patch and lease
  Paths,         \* relative files of the workspace
  Edits,         \* Edits[e]: the files the author of e's candidate writes
  Scope,         \* Scope[e]: the files the grant of e lets it write
  Tasks,         \* what the effects may be for: functions to the effect to undo, or None
  Instances,     \* provider instances, each in a process of its own
  Calls, Serves, \* Serves[c]: the instance call slot c belongs to
  AtomicSwap,    \* TRUE for the git driver: update-ref compares and swaps
  MaxEpoch, MaxUpsets,   \* bounds: epochs; crashes, exceptions, expiries, changes by others
  None

\* A file is who wrote it last.
Content == [Paths -> Effects \cup {"initial", "foreign"}]
Base == [revision : Nat, content : Content]

Outcomes == {"completed", "failed", "not-executed"}

\* The owner named by a lock: the instance while its process lives.
Dead == "dead"

\* "stuck" is history: an exception kept the lock's owner file from being written or the
\* directory from being removed.
Lock == [owner : Instances \cup {Dead}, effect : Effects, evidence : BOOLEAN, stuck : BOOLEAN]

Record == [before : Base, after : Base \cup {None}, completed : Outcomes \cup {None}]

ASSUME WorkspaceAssumption ==
  /\ Edits \in [Effects -> SUBSET Paths] /\ Scope \in [Effects -> SUBSET Paths]
  /\ Tasks \subseteq [Effects -> Effects \cup {None}]
  /\ Serves \in [Calls -> Instances] /\ AtomicSwap \in BOOLEAN
  /\ MaxEpoch \in Nat /\ MaxUpsets \in Nat
  /\ Dead \notin Instances

ASSUME AbsentAssumption ==
  /\ None \notin Effects /\ None \notin Outcomes
  /\ None \notin Base /\ None \notin Lock /\ None \notin Record

\* A provider instance serves one call at a time; a run shows what happens without it.
OneCallEach == \A c, d \in Calls : Serves[c] = Serves[d] => c = d

VARIABLES
  undoes,    \* per effect: the effect whose application it undoes, or None; never changes
  stage,     \* per effect: its candidate and whether it is sealed
  entry,     \* per effect: its outbox state in the session journal
  intent,    \* per effect: what the committed intention binds
  receipts,  \* receipts of the journal, in the order they were recorded
  epoch,     \* the epoch of the session
  expired,   \* effects whose grant, lease or deadline has passed
  head,      \* the snapshot the integration pointer selects
  revisions, \* snapshots made so far: a revision is never used twice
  lock,      \* writer.lock: the process and effect that hold it, and if its owner file exists
  arbiter,   \* whether reconcile.lock exists
  fence,     \* fence.json
  records,   \* per effect: the application record
  call,      \* per slot: the call in progress
  upsets,    \* crashes, exceptions, expiries and foreign changes so far
  published  \* history: per effect, how often a snapshot of it was selected

journal == <<entry, intent, receipts, epoch, expired>>
files   == <<lock, arbiter, fence, records>>
target  == <<head, revisions, published>>
vars == <<undoes, stage, journal, files, target, call, upsets>>

-----------------------------------------------------------------------------
(* Rules on bases, files and patches.                                        *)

\* The revision names one snapshot, so equality of bases compares everything sameBase does.
SameBase(a, b) == a = b

FirstBase == [revision |-> 0, content |-> [p \in Paths |-> "initial"]]

\* The changes that lead from one tree to another, as a function on the changed files.
ChangesBetween(before, after) == [p \in {q \in Paths : before[q] # after[q]} |-> after[p]]

ApplyChanges(before, changes) ==
  [p \in Paths |-> IF p \in DOMAIN changes THEN changes[p] ELSE before[p]]

CheckScope(e, changes) == DOMAIN changes \subseteq Scope[e]

\* A patch is never merged: any drift of the base asks for a new plan.
PatchConflict(base, current, changes) == ~SameBase(base, current)

-----------------------------------------------------------------------------
(* Stages: candidates apart from the target.                                 *)

\* One more thing that happens to the provider rather than in it.
Upset == upsets < MaxUpsets /\ upsets' = upsets + 1

NoStage == [phase |-> "none", base |-> FirstBase, content |-> FirstBase.content]

\* stage: the request names the current snapshot.
Stage(e) ==
  /\ undoes[e] = None /\ stage[e].phase = "none" /\ entry[e] = "absent"
  /\ stage' = [stage EXCEPT ![e] = [phase |-> "open", base |-> head, content |-> head.content]]
  /\ UNCHANGED <<undoes, journal, files, target, call, upsets>>

\* write: refused once the candidate is sealed and outside the scope of the grant.
Write(e, p) ==
  /\ stage[e].phase = "open" /\ p \in Edits[e] \cap Scope[e] /\ stage[e].content[p] # e
  /\ stage' = [stage EXCEPT ![e].content[p] = e]
  /\ UNCHANGED <<undoes, journal, files, target, call, upsets>>

\* seal: the differences are stored once and the stage accepts no write after it; the
\* author seals when its edits are made.
Seal(e) ==
  /\ stage[e].phase = "open" /\ \A p \in Edits[e] : stage[e].content[p] = e
  /\ CheckScope(e, ChangesBetween(stage[e].base.content, stage[e].content))
  /\ stage' = [stage EXCEPT ![e].phase = "sealed"]
  /\ UNCHANGED <<undoes, journal, files, target, call, upsets>>

Patch(e) == ChangesBetween(stage[e].base.content, stage[e].content)

-----------------------------------------------------------------------------
(* The session journal, as far as the provider uses it.                      *)

Applied(e) == records[e] # None /\ records[e].completed = "completed"

\* The session commits the intention of e: it binds the epoch, a base and a fencing token.
Intend(e) ==
  /\ entry[e] = "absent"
  /\ IF undoes[e] = None THEN stage[e].phase = "sealed" ELSE Applied(undoes[e])
  /\ entry' = [entry EXCEPT ![e] = "intended"]
  /\ intent' = [intent EXCEPT ![e] =
       [epoch |-> epoch, token |-> Cardinality({f \in Effects : entry[f] # "absent"}) + 1,
        base |-> IF undoes[e] = None THEN stage[e].base ELSE records[undoes[e]].after]]
  /\ UNCHANGED <<undoes, stage, receipts, epoch, expired, files, target, call, upsets>>

AdvanceEpoch ==
  /\ epoch < MaxEpoch /\ epoch' = epoch + 1 /\ Upset
  /\ UNCHANGED <<undoes, stage, entry, intent, receipts, expired, files, target, call>>

Expire(e) ==
  /\ entry[e] \in {"intended", "dispatched"} /\ e \notin expired /\ Upset
  /\ expired' = expired \cup {e}
  /\ UNCHANGED <<undoes, stage, entry, intent, receipts, epoch, files, target, call>>

\* journal: the exact committed intention, of the present epoch.
Current(e) == entry[e] # "absent" /\ intent[e].epoch = epoch

\* writerAdmission: live grant, deadline and lease of the workspace.
Admitted(e) == e \notin expired

ReceiptOf(e) == {i \in DOMAIN receipts : receipts[i].effect = e}

\* applyReceipt and reconcileEffect: a repeated receipt must be the recorded one; a receipt
\* of an earlier epoch is archived and leaves the effect where it was.
RecordReceipt(e, status) ==
  LET applies == intent[e].epoch = epoch
  IN IF ReceiptOf(e) # {} THEN UNCHANGED <<entry, receipts>>
     ELSE /\ receipts' = Append(receipts, [effect |-> e, status |-> status, applied |-> applies])
          /\ entry' = [entry EXCEPT ![e] = IF applies THEN "resolved" ELSE @]

\* The journal takes the receipt: it is new and the effect claimed, or it is the recorded one.
ReceiptAccepted(e, status) ==
  \/ ReceiptOf(e) = {} /\ entry[e] = "dispatched"
  \/ \E i \in ReceiptOf(e) : receipts[i].status = status

-----------------------------------------------------------------------------
(* Calls.                                                                    *)

Idle == [at |-> "idle", effect |-> None, kind |-> "none", before |-> None, after |-> None,
         status |-> None, arbiter |-> FALSE, wasActive |-> FALSE, caught |-> FALSE]

At(c, places) == call[c].at \in places
Eff(c) == call[c].effect
Goto(c, place) == call' = [call EXCEPT ![c].at = place]
Return(c) == call' = [call EXCEPT ![c] = Idle]

RunLocked == {"plan", "claim", "record", "prepare", "check", "swap", "observe",
              "save", "commit", "unlock"}
RecoveryLocked == {"relocked", "decide", "save", "commit", "unlock"}

\* The call has taken the writer lock and not yet given it back.
InTransaction(c) ==
  \/ call[c].kind = "run" /\ At(c, RunLocked)
  \/ call[c].kind = "reconcile" /\ At(c, RecoveryLocked)

\* active.has(key): a run of this instance is between its lock and its end.
Active(i, e) ==
  \E c \in Calls : /\ Serves[c] = i /\ call[c].kind = "run" /\ Eff(c) = e
                   /\ At(c, RunLocked \ {"unlock"})

NothingInDurable == UNCHANGED <<undoes, stage, journal, files, target, upsets>>

\* acquireLock: mkdir either makes the directory or finds it, the owner file comes after.
TakeLock(c, granted, refused) ==
  IF lock = None
  THEN /\ lock' = [owner |-> Serves[c], effect |-> Eff(c), evidence |-> FALSE, stuck |-> FALSE]
       /\ Goto(c, granted)
  ELSE /\ lock' = lock
       /\ IF refused = "idle" THEN Return(c) ELSE Goto(c, refused)

Unlock(c) ==
  /\ At(c, {"unlock"})
  /\ lock' = None    \* the directory of that name is removed, whoever made it
  /\ Return(c)
  /\ UNCHANGED <<undoes, stage, journal, arbiter, fence, records, target, upsets>>

\* acquireLock throws: the directory cannot be made, or its owner file cannot be written.
\* Both callers await it outside their try, so a directory that was made stays as it is.
AcquireThrow(c) ==
  /\ \/ At(c, {"lock", "relock"}) /\ Upset /\ lock' = lock
     \/ /\ At(c, {"owner", "reown"})
        /\ IF lock = None THEN UNCHANGED <<lock, upsets>>
           ELSE Upset /\ lock' = [lock EXCEPT !.stuck = TRUE]
  /\ IF At(c, {"relock", "reown"}) /\ call[c].arbiter THEN Goto(c, "refused") ELSE Return(c)
  /\ UNCHANGED <<undoes, stage, journal, arbiter, fence, records, target>>

\* The removal of a directory fails, before or after that of its owner file.
NotRemoved ==
  \E kept \in BOOLEAN : lock' = [lock EXCEPT !.stuck = TRUE, !.evidence = @ /\ kept]

UnlockThrow(c) ==
  /\ At(c, {"unlock"}) /\ lock # None /\ Upset
  /\ NotRemoved
  /\ Return(c)
  /\ UNCHANGED <<undoes, stage, journal, arbiter, fence, records, target>>

-----------------------------------------------------------------------------
(* run: apply or undo under the lock.                                        *)

RunBegin(c, e) ==
  /\ At(c, {"idle"})
  /\ Current(e) /\ Admitted(e) /\ entry[e] = "intended"
  /\ call' = [call EXCEPT ![c] = [Idle EXCEPT !.at = "lock", !.effect = e, !.kind = "run"]]
  /\ NothingInDurable

RunLock(c) ==
  /\ At(c, {"lock"})
  /\ TakeLock(c, "owner", "idle")
  /\ UNCHANGED <<undoes, stage, journal, arbiter, fence, records, target, upsets>>

WriteOwner(c, from, to) ==
  /\ At(c, {from}) /\ lock # None
  /\ lock' = [lock EXCEPT !.evidence = TRUE]
  /\ Goto(c, to)
  /\ UNCHANGED <<undoes, stage, journal, arbiter, fence, records, target, upsets>>

RunOwner(c) == WriteOwner(c, "owner", "plan")

\* The tree the transaction aims at, from the sealed patch or the application to undo.
Goal(e) ==
  IF undoes[e] = None THEN ApplyChanges(stage[e].base.content, Patch(e))
  ELSE records[undoes[e]].before.content

Conflicting(e, current) ==
  IF undoes[e] = None THEN PatchConflict(stage[e].base, current, Patch(e))
  ELSE ~SameBase(current, records[undoes[e]].after)

FenceAdmits(e) ==
  \/ intent[e].token > fence.token
  \/ intent[e].token = fence.token /\ fence.owner = e

\* driver.current, the plan, the bound base, the scope of what would change and the fence.
RunPlan(c) ==
  /\ At(c, {"plan"})
  /\ LET e == Eff(c)
         fits == /\ ~Conflicting(e, head)
                 /\ intent[e].base.content = head.content
                 /\ CheckScope(e, ChangesBetween(head.content, Goal(e)))
                 /\ FenceAdmits(e)
     IN /\ call' = [call EXCEPT ![c].before = head, ![c].at = IF fits THEN "claim" ELSE "unlock"]
        /\ fence' = IF fits THEN [token |-> intent[e].token, owner |-> e] ELSE fence
  /\ UNCHANGED <<undoes, stage, journal, lock, arbiter, records, target, upsets>>

\* Defect: the refusal of a claim returns with the lock.
RunClaimKeeping(c) ==
  /\ At(c, {"claim"})
  /\ LET e == Eff(c)
     IN IF Current(e) /\ entry[e] = "intended"
        THEN entry' = [entry EXCEPT ![e] = "dispatched"] /\ Goto(c, "record")
        ELSE entry' = entry /\ Return(c)
  /\ UNCHANGED <<undoes, stage, intent, receipts, epoch, expired, files, target, upsets>>

\* The journal is read again and the effect claimed in it before anything is written.
RunClaim(c) ==
  /\ At(c, {"claim"})
  /\ LET e == Eff(c)
     IN IF Current(e) /\ entry[e] = "intended"
        THEN entry' = [entry EXCEPT ![e] = "dispatched"] /\ Goto(c, "record")
        ELSE entry' = entry /\ Goto(c, "unlock")
  /\ UNCHANGED <<undoes, stage, intent, receipts, epoch, expired, files, target, upsets>>

\* driver.prepare: a new revision of the given content, selected by nothing yet.
Snapshot(content) == [revision |-> revisions + 1, content |-> content]

NewRecord(c) == [before |-> call[c].before, after |-> None, completed |-> None]

RunRecord(c) ==
  /\ At(c, {"record"})
  /\ records' = [records EXCEPT ![Eff(c)] = NewRecord(c)]
  /\ Goto(c, "prepare")
  /\ UNCHANGED <<undoes, stage, journal, lock, arbiter, fence, target, upsets>>

\* The record names the prepared snapshot before it is published.
RunPrepare(c) ==
  /\ At(c, {"prepare"})
  /\ LET after == Snapshot(Goal(Eff(c)))
     IN /\ call' = [call EXCEPT ![c].after = after, ![c].at = "check"]
        /\ records' = [records EXCEPT ![Eff(c)] = [NewRecord(c) EXCEPT !.after = after]]
  /\ revisions' = revisions + 1
  /\ UNCHANGED <<undoes, stage, journal, lock, arbiter, fence, head, published, upsets>>

Finish(c, status) == call' = [call EXCEPT ![c].status = status, ![c].at = "save"]

Select(c) ==
  /\ head' = call[c].after
  /\ published' = [published EXCEPT ![Eff(c)] = @ + 1]
  /\ Goto(c, "observe")

\* The live boundary again, then publish; the filesystem driver compares before it swaps.
RunCheck(c) ==
  /\ At(c, {"check"})
  /\ IF Admitted(Eff(c)) /\ Current(Eff(c)) /\ SameBase(head, call[c].before)
     THEN IF AtomicSwap THEN Select(c) ELSE Goto(c, "swap") /\ UNCHANGED <<head, published>>
     ELSE Finish(c, "failed") /\ UNCHANGED <<head, published>>
  /\ UNCHANGED <<undoes, stage, journal, files, revisions, upsets>>

RunSwap(c) ==
  /\ At(c, {"swap"})
  /\ Select(c)
  /\ UNCHANGED <<undoes, stage, journal, files, revisions, upsets>>

\* What is selected is observed; anything else than the snapshot keeps lock and claim.
RunObserve(c) ==
  /\ At(c, {"observe"})
  /\ IF SameBase(head, call[c].after) THEN Finish(c, "completed") ELSE Return(c)
  /\ NothingInDurable

-----------------------------------------------------------------------------
(* finish: the receipt is saved in the record before the journal takes it.   *)

SavedStatus(c) ==
  IF call[c].kind = "reconcile" /\ records[Eff(c)].completed # None
  THEN records[Eff(c)].completed ELSE call[c].status

FinishSave(c) ==
  /\ At(c, {"save"})
  /\ LET status == SavedStatus(c)
     IN /\ records' = [records EXCEPT ![Eff(c)] =
             [before |-> call[c].before, after |-> call[c].after, completed |-> status]]
        /\ call' = [call EXCEPT ![c].status = status, ![c].at = "commit"]
  /\ UNCHANGED <<undoes, stage, journal, lock, arbiter, fence, target, upsets>>

\* The journal's answer decides whether the lock is given back.
FinishCommit(c) ==
  /\ At(c, {"commit"})
  /\ IF ReceiptAccepted(Eff(c), call[c].status)
     THEN RecordReceipt(Eff(c), call[c].status) /\ Goto(c, "unlock")
     ELSE UNCHANGED <<entry, receipts>> /\ Return(c)
  /\ UNCHANGED <<undoes, stage, intent, epoch, expired, files, target, upsets>>

\* An exception before the claim gives the lock back; after it the target decides, unless it
\* cannot be read or no record was made, and an exception while that is recorded keeps the lock.
RunThrow(c) ==
  /\ call[c].kind = "run" /\ Upset
  /\ \/ At(c, {"plan"}) /\ Goto(c, "unlock")
     \/ /\ At(c, {"record", "prepare", "check", "swap", "observe", "save", "commit"})
        /\ \/ /\ ~call[c].caught /\ SameBase(head, call[c].before)
              /\ call' = [call EXCEPT ![c].status = "failed", ![c].at = "save",
                                      ![c].caught = TRUE]
           \/ Return(c)
  /\ UNCHANGED <<undoes, stage, journal, files, target>>

-----------------------------------------------------------------------------
(* reconcile: the lock is recovered, then record, journal and target compared. *)

\* The caller reconciles effects in doubt and repeats it for settled ones.
ReconcileBegin(c, e) ==
  /\ At(c, {"idle"}) /\ entry[e] \in {"dispatched", "resolved"}
  /\ call' = [call EXCEPT ![c] = [Idle EXCEPT !.at = "exists", !.effect = e,
                                   !.kind = "reconcile", !.wasActive = Active(Serves[c], e)]]
  /\ NothingInDurable

\* No lock: take it. Else the arbiter serialises those who want to recover it.
RecoverExists(c) ==
  /\ At(c, {"exists"})
  /\ CASE lock = None              -> arbiter' = arbiter /\ Goto(c, "relock")
       [] lock # None /\ ~arbiter  ->
            /\ arbiter' = TRUE
            /\ call' = [call EXCEPT ![c].arbiter = TRUE, ![c].at = "inspect"]
       [] OTHER                    -> arbiter' = arbiter /\ Return(c)
  /\ UNCHANGED <<undoes, stage, journal, lock, fence, records, target, upsets>>

Alive(owner) == owner # Dead

\* Defect: whoever asks may recover a lock whose effect is its own.
AnyoneRecovers(c) == lock # None /\ lock.evidence /\ lock.effect = Eff(c)

\* The owner file exists, names this effect, and its process is dead, or is this idle instance.
MayRecover(c) ==
  /\ lock # None /\ lock.evidence /\ lock.effect = Eff(c)
  /\ Alive(lock.owner) => lock.owner = Serves[c] /\ ~call[c].wasActive

RecoverInspect(c) ==
  /\ At(c, {"inspect"})
  /\ IF MayRecover(c) THEN lock' = None /\ Goto(c, "relock")
     ELSE lock' = lock /\ Goto(c, "refused")
  /\ UNCHANGED <<undoes, stage, journal, arbiter, fence, records, target, upsets>>

\* An exception once a lock was found: the arbiter's owner file is not written, and the arbiter
\* stays; the owner cannot be read or asked; or its directory cannot be removed.
RecoverThrow(c) ==
  /\ At(c, {"inspect"}) /\ Upset
  /\ \/ lock' = lock /\ Return(c)
     \/ lock' = lock /\ Goto(c, "refused")
     \/ MayRecover(c) /\ NotRemoved /\ Goto(c, "refused")
  /\ UNCHANGED <<undoes, stage, journal, arbiter, fence, records, target>>

\* The new lock and the removal of the arbiter are awaited together: neither waits for the other.
RecoverLock(c) ==
  /\ At(c, {"relock"})
  /\ TakeLock(c, "reown", IF call[c].arbiter THEN "refused" ELSE "idle")
  /\ UNCHANGED <<undoes, stage, journal, arbiter, fence, records, target, upsets>>

RecoverOwner(c) == WriteOwner(c, "reown", "relocked")

ReleaseArbiter(c) ==
  /\ At(c, {"relock", "reown", "relocked", "refused"}) /\ call[c].arbiter
  /\ arbiter' = FALSE
  /\ IF At(c, {"refused"}) THEN Return(c) ELSE call' = [call EXCEPT ![c].arbiter = FALSE]
  /\ UNCHANGED <<undoes, stage, journal, lock, fence, records, target, upsets>>

\* driver.current, then the record; a missing record stays unknown and keeps the lock.
ReconcileRead(c) ==
  /\ At(c, {"relocked"}) /\ ~call[c].arbiter
  /\ IF records[Eff(c)] = None THEN Return(c)
     ELSE call' = [call EXCEPT ![c].at = "decide", ![c].before = head]
  /\ NothingInDurable

\* knownSuccessor: applied receipts of other effects lead from this application to the target.
Successor(e, current) ==
  LET step(cursor, r) ==
        IF /\ r.applied /\ r.status = "completed" /\ r.effect # e
           /\ SameBase(cursor, records[r.effect].before)
        THEN records[r.effect].after ELSE cursor
      cursor == FoldLeft(step, records[e].after, receipts)
  IN /\ records[e].completed = "completed" /\ records[e].after # None
     /\ SameBase(cursor, current) /\ cursor # records[e].after

\* Defect: a record that names a snapshot is taken for a published one.
PreparedIsApplied(r, current) == r.after # None

IsApplied(r, current) == r.after # None /\ SameBase(current, r.after)

ReconcileDecide(c) ==
  /\ At(c, {"decide"})
  /\ LET e == Eff(c)
         r == records[e]
         current == call[c].before
         expected == IF r.completed = "completed" THEN r.after ELSE r.before
         settled == /\ r.completed # None /\ expected = current
                    /\ \E i \in ReceiptOf(e) : receipts[i].status = r.completed
         applied == IsApplied(r, current)
         explained == applied \/ SameBase(current, r.before)
     IN IF settled \/ Successor(e, current) THEN Goto(c, "unlock")
        ELSE IF explained /\ (r.completed # None => expected = current)
        THEN call' = [call EXCEPT ![c].before = r.before, ![c].after = r.after, ![c].at = "save",
                        ![c].status = IF applied THEN "completed" ELSE "not-executed"]
        ELSE Return(c)
  /\ NothingInDurable

\* Any failure of a file or an artifact ends the reconciliation and keeps the lock; where the
\* arbiter is still there, its removal failed and it stays.
ReconcileThrow(c) ==
  /\ call[c].kind = "reconcile" /\ Upset
  /\ At(c, (RecoveryLocked \cup {"exists", "refused"}) \ {"unlock"})
  /\ Return(c)
  /\ UNCHANGED <<undoes, stage, journal, files, target>>

-----------------------------------------------------------------------------
(* The environment.                                                          *)

\* The process of an instance is lost with its calls; a new instance takes its place.
Crash(i) ==
  /\ Upset
  /\ \E c \in Calls : Serves[c] = i /\ ~At(c, {"idle"})
  /\ lock' = IF lock # None /\ lock.owner = i THEN [lock EXCEPT !.owner = Dead] ELSE lock
  /\ call' = [c \in Calls |-> IF Serves[c] = i THEN Idle ELSE call[c]]
  /\ UNCHANGED <<undoes, stage, journal, arbiter, fence, records, target>>

\* Somebody moves the pointer without the provider.
ForeignChange(p) ==
  /\ Upset
  /\ head' = Snapshot([head.content EXCEPT ![p] = "foreign"])
  /\ revisions' = revisions + 1
  /\ UNCHANGED <<undoes, stage, journal, files, published, call>>

Init ==
  /\ undoes \in Tasks /\ stage = [e \in Effects |-> NoStage]
  /\ entry = [e \in Effects |-> "absent"]
  /\ intent = [e \in Effects |-> None]
  /\ receipts = <<>> /\ epoch = 1 /\ expired = {}
  /\ head = FirstBase /\ revisions = 0
  /\ lock = None /\ arbiter = FALSE /\ fence = [token |-> 0, owner |-> None]
  /\ records = [e \in Effects |-> None]
  /\ call = [c \in Calls |-> Idle]
  /\ upsets = 0
  /\ published = [e \in Effects |-> 0]

Author(e) == Stage(e) \/ Seal(e) \/ \E p \in Paths : Write(e, p)

Run(c) ==
  \/ \E e \in Effects : RunBegin(c, e)
  \/ RunLock(c) \/ RunOwner(c) \/ RunPlan(c) \/ RunClaim(c) \/ RunRecord(c)
  \/ RunPrepare(c) \/ RunCheck(c) \/ RunSwap(c) \/ RunObserve(c) \/ RunThrow(c)

Reconcile(c) ==
  \/ \E e \in Effects : ReconcileBegin(c, e)
  \/ RecoverExists(c) \/ RecoverInspect(c) \/ RecoverThrow(c) \/ RecoverLock(c)
  \/ RecoverOwner(c) \/ ReleaseArbiter(c)
  \/ ReconcileRead(c) \/ ReconcileDecide(c) \/ ReconcileThrow(c)

Next ==
  \/ \E e \in Effects : Author(e) \/ Intend(e) \/ Expire(e)
  \/ \E c \in Calls :
       \/ Run(c) \/ Reconcile(c) \/ FinishSave(c) \/ FinishCommit(c)
       \/ Unlock(c) \/ AcquireThrow(c) \/ UnlockThrow(c)
  \/ \E i \in Instances : Crash(i)
  \/ \E p \in Paths : ForeignChange(p)
  \/ AdvanceEpoch

Spec == Init /\ [][Next]_vars

-----------------------------------------------------------------------------
(* Correctness.                                                              *)

\* One filesystem lock protects the integration target: two calls are never in a transaction
\* at once, and a call in one owns the lock directory under its own effect, whatever
\* processes died and whoever recovered the lock (acquireLock, recoveryLock, releaseLock).
OneWriter ==
  /\ \A c, d \in Calls : InTransaction(c) /\ InTransaction(d) => c = d
  /\ \A c \in Calls :
       InTransaction(c) => lock # None /\ lock.owner = Serves[c] /\ lock.effect = Eff(c)

\* Two calls are never past the lock at the same time with work left to do, so that an idle
\* provider that recovers its own lock is idle in recoveries too (recoveryLock, active).
TransactionsExclude ==
  \A c, d \in Calls :
    InTransaction(c) /\ InTransaction(d) /\ ~At(c, {"unlock"}) /\ ~At(d, {"unlock"}) => c = d

\* The journal tells what happened to the target: a completed receipt belongs to an effect
\* whose snapshot was selected exactly once, a failed or not-executed one to an effect whose
\* snapshot never was and never will be, through every crash between claim, publication,
\* saved receipt and commit (run's catch, finish, reconcile).
ReceiptsTellTheTruth ==
  \A i \in DOMAIN receipts :
    published[receipts[i].effect] = IF receipts[i].status = "completed" THEN 1 ELSE 0

\* A lock that an idle live instance leaves is one its next reconciliation may recover: every
\* refusal before the claim gives it back, so that its effect is one reconcile asks for, and
\* it names its owner.  Left out is a lock whose own file or directory the file system failed
\* on: acquireLock and releaseLock then leave it to manual inspection (recoveryLock).
KeptLocksAreRecoverable ==
  lock # None /\ Alive(lock.owner) /\ ~lock.stuck
    /\ (\A c \in Calls : Serves[c] = lock.owner => At(c, {"idle"}))
  => lock.evidence /\ entry[lock.effect] \in {"dispatched", "resolved"}
=============================================================================
