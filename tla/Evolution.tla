------------------------------ MODULE Evolution ------------------------------
(***************************************************************************)
(* The generation runner.  Runs, each in a process of its own, evolve one     *)
(* repository: a run pins and records a baseline, and in each iteration an      *)
(* adapter proposes and implements a candidate in a worktree, the candidate is   *)
(* measured, judged by the gate, committed, pinned and recorded.  The command     *)
(* line rolls back beside them.  Awaits end an action; what an adapter or a        *)
(* process it left behind does to the worktree is the model's choice.              *)
(***************************************************************************)
EXTENDS HashLedger, GateVerdict

CONSTANTS
  Runs,            \* ids of runs, each started once
  Limits,          \* contract: limits [cost, tokens] of a run, Nil where it sets none
  Uses,            \* what an adapter may report it used: [cost, tokens], Nil if incomplete
  MaxIterations,   \* MaxIterations[r]: iterations asked of run r
  MaxFailed,       \* contract: max_failed_candidates
  MaxIdle,         \* contract: max_consecutive_no_improvement
  Strays,          \* bound: what a write to the worktree may make of it
  MaxDisturbances  \* bound: losses, errors, stray writes and policy changes

VARIABLES
  pinned,       \* commits under refs/evofence/generations
  activeRef,    \* refs/evofence/active
  policy,       \* version of contract, config and holdout
  run,          \* per run: its place, state, worktree and history
  rollback,     \* the rollback command: its place and commit
  disturbances  \* losses, errors, stray writes and policy changes so far

runnerVars == <<ledger, pinned, activeRef, policy, run, rollback, disturbances>>

Meters == {"cost", "tokens"}

\* What the worktree holds against its parent: nothing, a change that is declared and claimed
\* (the adapter's, or another), one the claims do not match, one with a capability nobody
\* approved, or one on paths the contract protects.
Contents == {"same", "change", "other", "unclaimed", "capable", "protected"}

Problems == {"POLICY_VIOLATION", "NO_CHANGE", "CLAIMS_DIFF_MISMATCH", "CAPABILITY_VIOLATION",
             "EVIDENCE_MODIFIED_CANDIDATE"}

\* What a validated contract and the meters leave possible: a limit is positive, and what is
\* used is counted in whole units.
ValidConstants ==
  /\ Limits \in [Meters -> (Nat \ {0}) \cup {Nil}]
  /\ \A use \in Uses : \A m \in Meters : use[m] \in Nat \cup {Nil}
  /\ Strays \subseteq Contents
  /\ Nil \notin Runs \cup Contents \cup Problems

\* A stray write never puts back what an earlier one replaced. What is replaced and put back
\* while it is measured is not seen: only the ends of the measurement are compared.
NothingPutBack == "change" \notin Strays

Commit(r, i) == [run |-> r, iteration |-> i]
HEAD == Commit(Nil, 0)

Unstarted == [at |-> "idle", iteration |-> 0, base |-> Nil, policy |-> 0,
              failures |-> 0, idle |-> 0, spent |-> [m \in Meters |-> 0],
              content |-> Nil, before |-> Nil, after |-> Nil, pre |-> Nil, measured |-> Nil]

RunAt(r, place) == run[r].at = place
Sets(r, q) == run' = [run EXCEPT ![r] = q]

\* The commit a run is about to make a generation.
TargetCommit(r) == IF run[r].iteration = 0 THEN run[r].base ELSE Commit(r, run[r].iteration)

-----------------------------------------------------------------------------
(* How an iteration ends.                                                    *)

Cleaned(q) == [q EXCEPT !.content = Nil, !.before = Nil, !.after = Nil, !.pre = Nil, !.measured = Nil]

\* A run that stops, by a decision, a count or what is thrown, forgets all and says so last.
Stopped == [Unstarted EXCEPT !.at = "ending"]

CountsReached(q) == q.failures >= MaxFailed \/ q.idle >= MaxIdle

Reject(q) ==
  LET c == [Cleaned(q) EXCEPT !.failures = @ + 1, !.idle = @ + 1]
  IN IF CountsReached(c) THEN Stopped ELSE [c EXCEPT !.at = "next"]

\* ESCALATE and QUARANTINE end the run.
Decided(q, decision) == IF decision = "REJECT" THEN Reject(q) ELSE Stopped

-----------------------------------------------------------------------------
(* Metering of adapters.                                                     *)

Counted(q, m, use) ==
  IF Limits[m] = Nil \/ use[m] = Nil THEN q ELSE [q EXCEPT !.spent[m] = @ + use[m]]

\* Defect: a total at the limit is let through.
OverOnly(q, m, use) ==
  Limits[m] # Nil /\ (use.late \/ use[m] = Nil \/ q.spent[m] + use[m] > Limits[m])

\* A total at the limit, an incomplete report and a timeout stop a metered run.
Exhausts(q, m, use) ==
  Limits[m] # Nil /\ (use.late \/ use[m] = Nil \/ q.spent[m] + use[m] >= Limits[m])

\* Refused below one unit of what remains; stopped by either meter, or a process that would not end.
Charged(q, use) ==
  IF \E m \in Meters : (Limits[m] # Nil /\ Limits[m] - q.spent[m] < 1) \/ Exhausts(q, m, use) \/ use.unkilled
  THEN Stopped ELSE Counted(Counted(q, "cost", use), "tokens", use)

-----------------------------------------------------------------------------
(* The run.                                                                  *)

NothingShared == UNCHANGED <<ledger, pinned, activeRef, policy, rollback, disturbances>>

\* prepareRun: the chain is verified; the active generation is read once for the whole run.
PrepareRun(r) ==
  /\ RunAt(r, "idle") /\ Intact
  /\ Sets(r, [run[r] EXCEPT !.base = IF active = Nil THEN HEAD ELSE active, !.policy = policy,
               !.at = IF active = Nil THEN "pin" ELSE "setref"])
  /\ NothingShared

Generation(r) ==
  [sha |-> TargetCommit(r), parent |-> run[r].base, by |-> r, content |-> run[r].pre, measured |-> run[r].measured]

\* pinGeneration: two refs, one after the other.
Pin(r) ==
  /\ RunAt(r, "pin")
  /\ pinned' = pinned \cup {TargetCommit(r)}
  /\ Sets(r, [run[r] EXCEPT !.at = "move"])
  /\ UNCHANGED <<ledger, activeRef, policy, rollback, disturbances>>

MoveActiveRef(r) ==
  /\ \/ RunAt(r, "move") /\ activeRef' = TargetCommit(r) /\ Sets(r, [run[r] EXCEPT !.at = "record"])
     \/ RunAt(r, "setref") /\ activeRef' = run[r].base /\ Sets(r, [run[r] EXCEPT !.at = "baseline"])
  /\ UNCHANGED <<ledger, pinned, policy, rollback, disturbances>>

\* recordGeneration and what the run remembers of it; another run may have recorded the baseline.
AcceptGeneration(r) ==
  /\ RunAt(r, "record")
  /\ LET q == run[r]
     IN \/ /\ RecordGeneration(Generation(r))
           /\ Sets(r, IF q.iteration = 0 THEN [q EXCEPT !.at = "baseline"]
                      ELSE [Cleaned(q) EXCEPT !.base = TargetCommit(r), !.idle = 0, !.at = "next"])
        \/ Recorded(TargetCommit(r)) /\ Sets(r, Stopped) /\ UNCHANGED ledger
  /\ UNCHANGED <<pinned, activeRef, policy, rollback, disturbances>>

\* runBaseline: an unhealthy baseline, or a deadline while it is measured, ends the run.
Baseline(r) ==
  /\ RunAt(r, "baseline")
  /\ \E q \in {[run[r] EXCEPT !.at = "next"], Stopped} : Sets(r, q)
  /\ NothingShared

\* The next iteration, unless that was the last or the deadline has passed.
NextIteration(r) ==
  /\ RunAt(r, "next")
  /\ \/ Sets(r, Stopped)
     \/ /\ run[r].iteration < MaxIterations[r]
        /\ Sets(r, [run[r] EXCEPT !.iteration = @ + 1, !.content = "same", !.at = "proposal"])
  /\ NothingShared

\* The proposal: what the adapter leaves, in the order it is looked at.
Proposed(q, use, result) ==
  IF q = Stopped \/ result = "metadata" \/ policy # q.policy THEN Stopped
  ELSE IF use.late \/ result \in {"crash", "unusable"} THEN Reject(q)
  ELSE IF result = "capability" THEN Stopped
  ELSE [q EXCEPT !.at = "implementation"]

Propose(r) ==
  /\ RunAt(r, "proposal")
  /\ \E q \in {Proposed(Charged(run[r], use), use, result) :
                use \in Uses, result \in {"good", "metadata", "crash", "unusable", "capability"}} : Sets(r, q)
  /\ NothingShared

\* The implementation, its claims, and the proposal as it was accepted.
Implemented(q, use, result) ==
  IF q = Stopped \/ result = "metadata" \/ policy # q.policy THEN Stopped
  ELSE IF use.late \/ result \in {"tampered", "crash", "unchanged"} THEN Reject(q)
  ELSE IF result = "blocked" THEN Stopped
  ELSE [q EXCEPT !.content = result, !.at = "diff"]

Implement(r) ==
  /\ RunAt(r, "implementation")
  /\ \E q \in {Implemented(Charged(run[r], use), use, result) :
                use \in Uses, result \in (Contents \ {"other"}) \cup {"metadata", "tampered", "crash", "unchanged", "blocked"}} : Sets(r, q)
  /\ NothingShared

\* checkTaskFile
Problem(content) ==
  CASE content = "protected" -> "POLICY_VIOLATION" [] content = "same" -> "NO_CHANGE"
    [] content = "unclaimed" -> "CLAIMS_DIFF_MISMATCH" [] content = "capable" -> "CAPABILITY_VIOLATION"
    [] OTHER -> Nil

CheckDiff(r) ==
  /\ RunAt(r, "diff")
  /\ LET q == run[r]
     IN Sets(r, IF Problem(q.content) # Nil THEN Decided(q, DecisionForCandidateCheck(Problem(q.content)))
                ELSE [q EXCEPT !.before = q.content, !.at = "evidence"])
  /\ NothingShared

\* collectEvidence measures what is there; a deadline that passes meanwhile is thrown.
Measure(r) ==
  /\ RunAt(r, "evidence")
  /\ \E q \in {[run[r] EXCEPT !.measured = run[r].content, !.at = "gate"], Stopped} : Sets(r, q)
  /\ NothingShared

\* checkFinalCandidate
FinalProblem(content, earlier) ==
  IF Problem(content) # Nil THEN Problem(content)
  ELSE IF content # earlier THEN "EVIDENCE_MODIFIED_CANDIDATE" ELSE Nil

Judge(r) ==
  /\ RunAt(r, "gate")
  /\ LET q == run[r]
         problem == FinalProblem(q.content, q.before)
     IN IF problem # Nil THEN Sets(r, Decided(q, DecisionForCandidateCheck(problem)))
        ELSE IF policy # q.policy THEN Sets(r, Stopped)
        ELSE \E decision \in {GateDecision(e, band) : e \in Evidences, band \in Bands} :
               Sets(r, IF decision # "ACCEPT" THEN Decided(q, decision)
                       ELSE [q EXCEPT !.after = q.content, !.at = "precommit"])
  /\ NothingShared

\* Defect: the candidate is not compared again with what was measured.
PreCommitUnchecked(r) ==
  /\ RunAt(r, "precommit") /\ Sets(r, [run[r] EXCEPT !.pre = run[r].content, !.at = "commit"]) /\ NothingShared

PreCommit(r) ==
  /\ RunAt(r, "precommit")
  /\ LET q == run[r]
     IN Sets(r, IF FinalProblem(q.content, q.after) # Nil THEN Stopped
                ELSE [q EXCEPT !.pre = q.content, !.at = "commit"])
  /\ NothingShared

\* commitCandidate, and the committed diff against the one checked before, whose place it takes.
CommitCandidate(r) ==
  /\ RunAt(r, "commit")
  /\ LET q == run[r]
     IN Sets(r, IF FinalProblem(q.content, q.pre) # Nil THEN Stopped
                ELSE [q EXCEPT !.pre = q.content, !.at = "pin"])
  /\ NothingShared

\* run.finished and run.failed.
Finish(r) ==
  /\ RunAt(r, "ending")
  /\ AppendEvent("run.ended", r, Nil)
  /\ Sets(r, [Unstarted EXCEPT !.at = "ended"])
  /\ UNCHANGED <<pinned, activeRef, policy, rollback, disturbances>>

-----------------------------------------------------------------------------
(* The rollback command and the world.                                       *)

RollbackCommand ==
  /\ \/ /\ rollback.at = "idle" /\ Intact
        /\ \E g \in generations : RollbackTo(g.sha, Nil) /\ rollback' = [at |-> "setref", sha |-> g.sha]
        /\ UNCHANGED activeRef
     \/ /\ rollback.at = "setref" /\ activeRef' = rollback.sha
        /\ rollback' = [rollback EXCEPT !.at = "ended"] /\ UNCHANGED ledger
  /\ UNCHANGED <<pinned, policy, run, disturbances>>

Disturbance == disturbances < MaxDisturbances /\ disturbances' = disturbances + 1

Working(r) == run[r].at \notin {"idle", "ended", "lost"}

\* A process is lost, git, the disk or the database fail, or something writes to the worktree.
Disturb(r) ==
  /\ Disturbance /\ Working(r)
  /\ \/ Sets(r, [Unstarted EXCEPT !.at = "lost"])
     \/ ~RunAt(r, "ending") /\ Sets(r, Stopped)
     \/ run[r].before # Nil /\ \E c \in Strays \ {run[r].content} : Sets(r, [run[r] EXCEPT !.content = c])
  /\ UNCHANGED <<ledger, pinned, activeRef, policy, rollback>>

ChangePolicy ==
  /\ Disturbance /\ policy' = policy + 1
  /\ UNCHANGED <<ledger, pinned, activeRef, run, rollback>>

RunnerInit ==
  /\ LedgerInit /\ pinned = {} /\ activeRef = Nil /\ policy = 0 /\ disturbances = 0
  /\ run = [r \in Runs |-> Unstarted]
  /\ rollback = [at |-> "idle", sha |-> Nil]

Step(r) ==
  \/ PrepareRun(r) \/ Pin(r) \/ MoveActiveRef(r) \/ AcceptGeneration(r) \/ Baseline(r) \/ NextIteration(r)
  \/ Propose(r) \/ Implement(r) \/ CheckDiff(r) \/ Measure(r) \/ Judge(r)
  \/ PreCommit(r) \/ CommitCandidate(r) \/ Finish(r) \/ Disturb(r)

RunnerNext == (\E r \in Runs : Step(r)) \/ RollbackCommand \/ ChangePolicy

RunnerSpec == RunnerInit /\ [][RunnerNext]_runnerVars

-----------------------------------------------------------------------------
(* Properties.                                                               *)

AboutGeneration(e) == e.kind \in {"generation.accepted", "generation.rollback"}

GenerationEvents == {i \in DOMAIN events : AboutGeneration(events[i])}

\* The ledger verifies after any interleaving of runs and rollbacks, and its tables are what its
\* events say: the active generation is the one last accepted or rolled back to.
LedgerIsExplained ==
  /\ Intact
  /\ GenerationEvents = {} => active = Nil
  /\ \A i \in GenerationEvents :
       (\A j \in GenerationEvents : j <= i) => active = events[i].about
  /\ {g.sha : g \in generations} = {events[i].about : i \in GenerationEvents}

\* Every recorded generation is pinned, so a crash, an error or a rollback never leaves the
\* ledger with a commit git may collect.
GenerationsArePinned == \A g \in generations : g.sha \in pinned

\* What a generation commits is what its evidence measured and what the contract permits, in
\* spite of writes to the worktree at any time after the first diff.
AcceptedIsEvaluated ==
  \A g \in generations : g.sha # HEAD => g.content = g.measured /\ Problem(g.content) = Nil

\* What is accepted is kept and was evaluated.
GenerationsAreGenuine == GenerationsArePinned /\ AcceptedIsEvaluated

\* No generation is accepted by a run that has used up a limit.
ExhaustedAcceptsNothing ==
  [][\A g \in generations' \ generations :
       \A m \in Meters : Limits[m] = Nil \/ run[g.by].spent[m] < Limits[m]]_runnerVars
=============================================================================
