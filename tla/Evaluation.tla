----------------------------- MODULE Evaluation -----------------------------
(***************************************************************************)
(* The kernel's task evaluator: whether an attempt did what its contract asks, *)
(* from registered measurements of what it left behind.  Items are collected,    *)
(* branches settle and attempts move on between the report and its evaluation;     *)
(* whatever was not measured is unknown, and unknown is never success.               *)
(*                                                                                    *)
(* An item is a reference with its content:                                            *)
(*   [id, schema, producer, binding, visibility, partition, content].                   *)
(***************************************************************************)
EXTENDS Integers, Sequences, FiniteSets, FiniteSetsExt

CONSTANTS
  Nil,
  Contract,    \* [branches, outcomes: id -> [schema, kinds], checks, workspace, outcomeSchema]
  Registration,\* [issuer, matches, providers, selected]; a provider is
               \* [id, metric, schema, producer, kind, private]
  Bundles(_),  \* the sets of items an attempt may leave behind together
  BranchItems, \* what the branches leave behind
  Endings,     \* how the run of an attempt may end
  MaxAttempts

VARIABLES
  attempt,   \* the attempt being judged
  evidence,  \* the items collected, whose bytes can be read
  branches,  \* branch -> [state, binding]
  run,       \* how the attempt's run ended, and whether its usage is complete
  report,    \* the report under way, or Nil
  verdict    \* of the last step, when that was an evaluation:
             \* [error, outcome, gaps, visibility, of, seen]

evaluationVars == <<attempt, evidence, branches, run, report, verdict>>

\* What an attempt leaves is bound to it, as what a branch leaves is to its own.
Bound(a) == <<"task", a>>

Metrics == {"tests", "outcome", "artifact", "host"}
Audience == INSTANCE Artifacts WITH None <- Nil

\* What an attempt or a branch may leave.
Left == BranchItems \cup UNION {UNION Bundles(a) : a \in 1 .. MaxAttempts}

\* A provider has a metric, tests are counted in whole numbers, and Nil is nothing else.
ValidRegistration ==
  /\ MaxAttempts \in Nat \ {0}
  /\ \A p \in Registration.providers : p.metric \in Metrics
  /\ \A p \in Registration.providers, i \in Left :
       p.metric = "tests" /\ i.schema = p.schema /\ i.producer = p.producer =>
         i.content.failed \in Nat /\ i.content.skipped \in Nat /\ i.content.passed \in Nat
  /\ Nil \notin {"completed", "repair", "failed", "unknown", "needs-human", "branch-binding-stale", "branch-failed",
                 "branch-state", "branch-evidence-missing", "DECISION_AUTHORITY_DENIED", "ARTIFACT_BINDING_MISMATCH",
                 "PRIVACY_VIOLATION"}

-----------------------------------------------------------------------------
(* Measurements: [status, refs, outcomes].                                       *)

Measurement(status, items, outcomes) == [status |-> status, refs |-> items, outcomes |-> outcomes]

\* All of them must pass, skipped ones and an exit code count as failures, none is unknown.
Tests(items) ==
  Measurement(
    IF \E i \in items : i.content.failed > 0 \/ i.content.skipped > 0 \/ i.content.exit # 0 THEN "failed"
    ELSE IF \A i \in items : i.content.passed = 0 THEN "unknown" ELSE "passed", items, {})

\* Each outcome is observed exactly once, and met; observations are [outcome, met].
Outcomes(items) ==
  LET seen(o) == {i \in items : \E v \in i.content.seen : v.outcome = o}
      met(o) == \A i \in seen(o) : \A v \in i.content.seen : v.outcome = o => v.met = TRUE
      all == UNION {i.content.seen : i \in items}
  IN Measurement(
       CASE \E v \in all : v.outcome \in DOMAIN Contract.outcomes /\ v.met = FALSE -> "failed"
         [] /\ \A o \in DOMAIN Contract.outcomes : Cardinality(seen(o)) = 1 /\ met(o)
            /\ \A v \in all : v.outcome \in DOMAIN Contract.outcomes -> "passed"
         [] OTHER -> "unknown", items, {v.outcome : v \in {w \in all : w.met = TRUE}})

Deliverables(provider, items) ==
  LET outcomes == {o \in DOMAIN Contract.outcomes :
                     Contract.outcomes[o].schema = provider.schema /\ provider.kind \in Contract.outcomes[o].kinds}
  IN Measurement(IF outcomes # {} /\ \A i \in items : i.content.text # "" THEN "passed" ELSE "unknown", items, outcomes)

HostRuns(items) ==
  LET status(i) == CASE i.content.status = "completed" /\ i.content.observed -> "passed"
                     [] i.content.status \in {"failed", "cancelled"} -> "failed"
                     [] OTHER -> "unknown"
      all == {status(i) : i \in items}
  IN Measurement(IF "failed" \in all THEN "failed" ELSE IF "unknown" \in all THEN "unknown" ELSE "passed", items, {})

\* A provider measures the items of its schema and its producer, and nothing is unknown.
Measure(provider, items) ==
  LET selected == {i \in items : i.schema = provider.schema /\ i.producer = provider.producer}
  IN IF selected = {} THEN Measurement("unknown", {}, {})
     ELSE CASE provider.metric = "tests" -> Tests(selected)
            [] provider.metric = "outcome" -> Outcomes(selected)
            [] provider.metric = "artifact" -> Deliverables(provider, selected)
            [] provider.metric = "host" -> HostRuns(selected)

-----------------------------------------------------------------------------
(* Gaps: [reason, status, refs, branch].                                          *)

Gap(reason, status, refs, branch) == [reason |-> reason, status |-> status, refs |-> refs, branch |-> branch]

\* A branch counts with its own receipt, its diff and the evaluator's decision on them.
BranchEvidence(b) ==
  LET mine == {i \in evidence : i.binding = branches[b].binding}
      runs == {i \in mine : i.schema = "Receipt" /\ i.content.status = "completed" /\ i.content.observed}
  IN /\ runs # {}
     /\ Contract.workspace => \E i \in mine : i.schema = "ActualDiff" /\ i.content.text # ""
     /\ \E i \in mine : /\ i.schema = "DecisionRecord" /\ i.producer = Registration.issuer
                        /\ i.content.outcome = "completed" /\ i.content.run \in {r.id : r \in runs}

\* Defect: any attempt of the branch will do.
BranchGapOfAny(b, reported) ==
  IF reported[b].state # "succeeded"
  THEN IF reported[b].state \in {"failed", "cancelled"} THEN "branch-failed" ELSE "branch-state"
  ELSE Nil

BranchGap(b, reported) ==
  IF reported[b].binding # branches[b].binding THEN "branch-binding-stale"
  ELSE IF reported[b].state \in {"failed", "cancelled"} THEN "branch-failed"
  ELSE IF reported[b].state # "succeeded" THEN "branch-state"
  ELSE IF ~BranchEvidence(b) THEN "branch-evidence-missing" ELSE Nil

BranchGaps(reported) ==
  {Gap(BranchGap(b, reported), IF BranchGap(b, reported) = "branch-failed" THEN "failed" ELSE "unknown",
       {i \in evidence : i.binding = reported[b].binding}, b) :
     b \in {c \in Contract.branches : BranchGap(c, reported) # Nil}}

Selected == {p \in Registration.providers : p.id \in Registration.selected}

\* What stands in the way of evaluating at all.
EvaluateError(r) ==
  IF \/ ~Registration.matches
     \/ \E id \in Registration.selected : ~\E p \in Registration.providers : p.id = id
     \/ \E p \in Registration.providers : p.private /\ p.metric # "tests"
  THEN "DECISION_AUTHORITY_DENIED"
  ELSE IF \/ r.binding # Bound(attempt)
          \/ \E p \in Selected : p.metric = "outcome" /\ p.schema # Contract.outcomeSchema
          \/ \E i \in r.refs : i.binding # Bound(attempt)
  THEN "ARTIFACT_BINDING_MISMATCH"
  ELSE IF \E p \in Selected : p.private /\
            \E i \in Measure(p, r.refs \cap evidence).refs : Audience!WithheldReason(i, "author") = "none"
  THEN "PRIVACY_VIOLATION" ELSE Nil

Gaps(r) ==
  LET items == r.refs \cap evidence
      measured(p) == Measure(p, items)
      holds(o) == \E p \in Selected : /\ p.metric = "artifact" /\ p.kind \in Contract.outcomes[o].kinds
                                      /\ p.schema = Contract.outcomes[o].schema
                                      /\ measured(p).status = "passed" /\ o \in measured(p).outcomes
      unless(met, reason) == IF met THEN {} ELSE {Gap(reason, "unknown", {}, Nil)}
  IN UNION {
       unless(r.refs \subseteq evidence, "artifact-bytes-missing"),
       unless(Contract.checks \subseteq {i.schema : i \in evidence}, "check-definition-missing"),
       unless(Metrics \subseteq {p.metric : p \in Selected}, "provider-missing"),
       {Gap(p.metric, measured(p).status, measured(p).refs, Nil) : p \in {q \in Selected : measured(q).status # "passed"}},
       unless(\A o \in DOMAIN Contract.outcomes : holds(o), "outcome-artifact-missing"),
       BranchGaps(r.branches),
       unless(Contract.workspace => \E i \in items : i.schema = "ActualDiff" /\ i.content.text # "", "actual-diff-missing"),
       unless(r.usage, "usage-incomplete"),
       IF r.status = "completed" THEN {}
       ELSE {Gap("run", CASE r.status = "needs-human" -> "needs-human"
                          [] r.status \in {"incomplete", "timeout", "cancelled"} -> "failed"
                          [] OTHER -> "unknown", {}, Nil)}}

\* Unknown dominates: nothing unmeasured is repaired, let alone completed.
Outcome(gaps, repairAllowed) ==
  LET any(status) == \E g \in gaps : g.status = status
  IN IF any("unknown") THEN "unknown"
     ELSE IF any("needs-human") THEN "needs-human"
     ELSE IF any("failed") THEN (IF repairAllowed THEN "repair" ELSE "failed") ELSE "completed"

\* The report itself is private when it stands on something an author may not read.
ReportVisibility(r) ==
  IF \E i \in r.refs \cup {j \in BranchItems \cap evidence : \E b \in Contract.branches : j.binding = r.branches[b].binding} : Audience!WithheldReason(i, "author") # "none" THEN "private" ELSE "internal"

\* Defect: references are withheld and the gap is told as it is.
FeedbackDetailed(v, audience) ==
  [outcome |-> v.outcome,
   gaps |-> {[g EXCEPT !.refs = Audience!PartitionFeedback(g.refs, audience).visible] : g \in v.gaps}]

\* What an audience is told: a gap with something withheld is told without its detail.
FeedbackFor(v, audience) ==
  LET told(g) ==
        IF \E i \in g.refs : Audience!WithheldReason(i, audience) # "none"
        THEN Gap("restricted-acceptance-unmet", g.status, {}, Nil)
        ELSE [g EXCEPT !.refs = Audience!PartitionFeedback(g.refs, audience).visible]
  IN [outcome |-> v.outcome, gaps |-> {told(g) : g \in v.gaps}]

-----------------------------------------------------------------------------
(* The machine.                                                                  *)

EvaluationInit ==
  /\ attempt = 1 /\ evidence = {}
  /\ branches = [b \in Contract.branches |-> [state |-> "verifying", binding |-> <<b, 1>>]]
  /\ run = [status |-> "unknown", usage |-> FALSE]
  /\ report = Nil /\ verdict = Nil

Collect(items) ==
  /\ ~(items \subseteq evidence)
  /\ evidence' = evidence \cup items
  /\ verdict' = Nil /\ UNCHANGED <<attempt, branches, run, report>>

RunEnds(status) ==
  /\ run.status = "unknown"
  /\ run' = [run EXCEPT !.status = status]
  /\ verdict' = Nil /\ UNCHANGED <<attempt, evidence, branches, report>>

UsageReconciled ==
  /\ run' = [run EXCEPT !.usage = TRUE]
  /\ verdict' = Nil /\ UNCHANGED <<attempt, evidence, branches, report>>

BranchSettles(b, state) ==
  /\ branches[b].state = "verifying"
  /\ branches' = [branches EXCEPT ![b].state = state]
  /\ verdict' = Nil /\ UNCHANGED <<attempt, evidence, run, report>>

\* A repair reopens a branch; what was collected for it is of its earlier attempt.
BranchReopens(b) ==
  /\ branches[b].state # "verifying" /\ branches[b].binding[2] < MaxAttempts
  /\ branches' = [branches EXCEPT ![b] = [state |-> "verifying", binding |-> <<b, @.binding[2] + 1>>]]
  /\ verdict' = Nil /\ UNCHANGED <<attempt, evidence, run, report>>

\* The observations of the attempt are named, and its branches as they stand.
Report ==
  /\ run.status # "unknown"
  /\ report' = [binding |-> Bound(attempt), status |-> run.status, usage |-> run.usage, branches |-> branches,
                refs |-> {i \in evidence : i.binding = Bound(attempt)}]
  /\ verdict' = Nil /\ UNCHANGED <<attempt, evidence, branches, run>>

\* A new attempt is judged by what is collected for it.
NextAttempt ==
  /\ attempt < MaxAttempts
  /\ attempt' = attempt + 1
  /\ evidence' = evidence \cap BranchItems
  /\ run' = [status |-> "unknown", usage |-> FALSE]
  /\ verdict' = Nil /\ UNCHANGED <<branches, report>>

Evaluate ==
  /\ report # Nil
  /\ LET error == EvaluateError(report)
         gaps == Gaps(report)
     IN verdict' = [error |-> error, of |-> report, seen |-> branches,
                    outcome |-> IF error = Nil THEN Outcome(gaps, attempt < MaxAttempts) ELSE Nil,
                    gaps |-> IF error = Nil THEN gaps ELSE {},
                    visibility |-> ReportVisibility(report)]
  /\ report' = Nil
  /\ UNCHANGED <<attempt, evidence, branches, run>>

EvaluationNext ==
  \/ \E items \in Bundles(attempt) \cup {BranchItems} : Collect(items)
  \/ \E s \in Endings : RunEnds(s)
  \/ UsageReconciled \/ Report \/ NextAttempt \/ Evaluate
  \/ \E b \in Contract.branches : BranchReopens(b) \/ \E s \in {"succeeded", "failed"} : BranchSettles(b, s)

EvaluationSpec == EvaluationInit /\ [][EvaluationNext]_evaluationVars

-----------------------------------------------------------------------------
(* Properties.                                                                  *)

\* What a metric is measured by: the observations of its registered providers.
MeasuredBy(metric, items) ==
  {i \in items : \E p \in Selected : p.metric = metric /\ i.schema = p.schema /\ i.producer = p.producer}

\* Success is measured, all of it, of the attempt and the branches that are current: the tests
\* ran and passed, each outcome is met and delivered, the host says it ran, nothing is open.
CompletedIsMeasured ==
  verdict # Nil /\ verdict.outcome = "completed" =>
    LET of(metric) == MeasuredBy(metric, verdict.of.refs)
    IN /\ verdict.of.binding = Bound(attempt) /\ verdict.of.status = "completed" /\ verdict.of.usage
       /\ \A i \in of("tests") : i.content.failed = 0 /\ i.content.skipped = 0 /\ i.content.exit = 0
       /\ \E i \in of("tests") : i.content.passed > 0
       /\ \A o \in DOMAIN Contract.outcomes :
            /\ \E i \in of("outcome") : \E v \in i.content.seen : v.outcome = o /\ v.met = TRUE
            /\ \E i \in of("artifact") : i.schema = Contract.outcomes[o].schema /\ i.content.text # ""
       /\ of("host") # {} /\ \A i \in of("host") : i.content.status = "completed"
       /\ \A b \in Contract.branches : verdict.seen[b] = verdict.of.branches[b] /\ verdict.seen[b].state = "succeeded"

\* What is repaired or failed for good was seen to fail, and whatever else is asked of the
\* attempt was measured: nothing is unknown of it.
FailureIsSeen ==
  verdict # Nil /\ verdict.outcome \in {"repair", "failed"} =>
    LET of(metric) == MeasuredBy(metric, verdict.of.refs)
    IN /\ verdict.of.binding = Bound(attempt) /\ verdict.of.usage /\ \A metric \in Metrics : of(metric) # {}
       /\ \/ verdict.of.status \in {"incomplete", "timeout", "cancelled"}
          \/ \E i \in of("tests") : i.content.failed > 0 \/ i.content.skipped > 0 \/ i.content.exit # 0
          \/ \E i \in of("outcome") : \E v \in i.content.seen : v.met = FALSE
          \/ \E i \in of("host") : i.content.status \in {"failed", "cancelled"}
          \/ \E b \in Contract.branches : /\ verdict.seen[b] = verdict.of.branches[b]
                                      /\ verdict.seen[b].state \in {"failed", "cancelled"}

OutcomeIsMeasured == CompletedIsMeasured /\ FailureIsSeen

\* Nobody but the evaluator is told of what is held out: neither the item, nor that it was
\* the measurement of such items which left a gap.
FeedbackIsPublic ==
  verdict # Nil =>
    \A audience \in {"author", "report"} : \A g \in FeedbackFor(verdict, audience).gaps :
      /\ \A i \in g.refs : Audience!WithheldReason(i, audience) = "none"
      /\ g.reason \in Metrics =>
           \E p \in Selected : /\ p.metric = g.reason
                               /\ \A i \in verdict.of.refs : i.schema = p.schema /\ i.producer = p.producer =>
                                    Audience!WithheldReason(i, audience) = "none"
=============================================================================
