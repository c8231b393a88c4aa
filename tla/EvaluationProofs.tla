-------------------------- MODULE EvaluationProofs --------------------------
(***************************************************************************)
(* What a verdict stands on, for every contract, registration, number of       *)
(* attempts and order in which their work is collected, reported and judged:     *)
(* success and failure were measured on the current attempt, and what is told of  *)
(* a verdict discloses nothing that is held out.                                    *)
(***************************************************************************)
EXTENDS Evaluation, FiniteSetTheorems, TLAPS

\* What a provider measures of a set of items.
Wanted(p, items) == {i \in items : i.schema = p.schema /\ i.producer = p.producer}

-----------------------------------------------------------------------------
(* Measurements.                                                                *)

\* Tests that passed all passed and ran; tests that failed have one that did not.
LEMMA TestsAre ==
  ASSUME NEW items
  PROVE  /\ Tests(items).refs = items /\ Tests(items).status \in {"passed", "failed", "unknown"}
         /\ Tests(items).status = "passed" =>
              /\ \A i \in items : ~(i.content.failed > 0 \/ i.content.skipped > 0 \/ i.content.exit # 0)
              /\ \E i \in items : i.content.passed # 0
         /\ Tests(items).status = "failed" =>
              \E i \in items : i.content.failed > 0 \/ i.content.skipped > 0 \/ i.content.exit # 0
BY DEF Tests, Measurement

\* Outcomes that passed are met, each of them; outcomes that failed have one that is not.
LEMMA OutcomesAre ==
  ASSUME NEW items
  PROVE  /\ Outcomes(items).refs = items /\ Outcomes(items).status \in {"passed", "failed", "unknown"}
         /\ Outcomes(items).status = "passed" =>
              \A o \in DOMAIN Contract.outcomes : \E i \in items : \E v \in i.content.seen : v.outcome = o /\ v.met = TRUE
         /\ Outcomes(items).status = "failed" => \E i \in items : \E v \in i.content.seen : v.met = FALSE
<1> DEFINE seen(o) == {i \in items : \E v \in i.content.seen : v.outcome = o}
           met(o) == \A i \in seen(o) : \A v \in i.content.seen : v.outcome = o => v.met = TRUE
           all == UNION {i.content.seen : i \in items}
           status == CASE \E v \in all : v.outcome \in DOMAIN Contract.outcomes /\ v.met = FALSE -> "failed"
                       [] /\ \A o \in DOMAIN Contract.outcomes : Cardinality(seen(o)) = 1 /\ met(o)
                          /\ \A v \in all : v.outcome \in DOMAIN Contract.outcomes -> "passed"
                       [] OTHER -> "unknown"
<1>1. Outcomes(items).refs = items /\ Outcomes(items).status = status
  BY DEF Outcomes, Measurement
<1>2. status \in {"passed", "failed", "unknown"}
      /\ (status = "passed" => \A o \in DOMAIN Contract.outcomes : Cardinality(seen(o)) = 1 /\ met(o))
      /\ (status = "failed" => \E v \in all : v.met = FALSE)
  OBVIOUS
<1>3. ASSUME NEW o \in DOMAIN Contract.outcomes, Cardinality(seen(o)) = 1, met(o)
      PROVE  \E i \in items : \E v \in i.content.seen : v.outcome = o /\ v.met = TRUE
  <2>1. PICK S : S = seen(o)
    OBVIOUS
  <2>2. S # {}
    <3>1. Cardinality(S) = 1
      BY <1>3, <2>1
    <3> QED BY <3>1, FS_EmptySet
  <2>3. PICK i \in items : \E v \in i.content.seen : v.outcome = o
    BY <2>1, <2>2
  <2> QED BY <1>3, <2>3
<1> HIDE DEF seen, met, status
<1>4. (\E v \in all : v.met = FALSE) => \E i \in items : \E v \in i.content.seen : v.met = FALSE
  OBVIOUS
<1> QED BY <1>1, <1>2, <1>3, <1>4

\* Deliverables never fail, and those that passed are not empty.
LEMMA DeliverablesAre ==
  ASSUME NEW p, NEW items
  PROVE  /\ Deliverables(p, items).refs = items /\ Deliverables(p, items).status \in {"passed", "unknown"}
         /\ Deliverables(p, items).status = "passed" => \A i \in items : i.content.text # ""
BY DEF Deliverables, Measurement

\* Runs of a host that passed are completed; those that failed have one that is not.
LEMMA HostRunsAre ==
  ASSUME NEW items
  PROVE  /\ HostRuns(items).refs = items /\ HostRuns(items).status \in {"passed", "failed", "unknown"}
         /\ HostRuns(items).status = "passed" => \A i \in items : i.content.status = "completed"
         /\ HostRuns(items).status = "failed" => \E i \in items : i.content.status \in {"failed", "cancelled"}
<1> DEFINE status(i) == CASE i.content.status = "completed" /\ i.content.observed -> "passed"
                          [] i.content.status \in {"failed", "cancelled"} -> "failed"
                          [] OTHER -> "unknown"
           all == {status(i) : i \in items}
<1>1. /\ HostRuns(items).refs = items
      /\ HostRuns(items).status = IF "failed" \in all THEN "failed" ELSE IF "unknown" \in all THEN "unknown" ELSE "passed"
  BY DEF HostRuns, Measurement
<1>2. \A i \in items : /\ status(i) \in {"passed", "failed", "unknown"}
                       /\ status(i) = "passed" => i.content.status = "completed"
                       /\ status(i) = "failed" => i.content.status \in {"failed", "cancelled"}
  OBVIOUS
<1> HIDE DEF status
<1> QED BY <1>1, <1>2

\* A provider measures what it wants; of nothing it knows nothing.
LEMMA MeasureIs ==
  ASSUME NEW p, p.metric \in Metrics, NEW items
  PROVE  /\ Measure(p, items).refs = Wanted(p, items)
         /\ Measure(p, items).status \in {"passed", "failed", "unknown"}
         /\ Wanted(p, items) = {} => Measure(p, items).status = "unknown"
         /\ Wanted(p, items) # {} =>
              /\ p.metric = "tests" => Measure(p, items) = Tests(Wanted(p, items))
              /\ p.metric = "outcome" => Measure(p, items) = Outcomes(Wanted(p, items))
              /\ p.metric = "artifact" => Measure(p, items) = Deliverables(p, Wanted(p, items))
              /\ p.metric = "host" => Measure(p, items) = HostRuns(Wanted(p, items))
<1>1. CASE Wanted(p, items) = {}
  BY <1>1 DEF Measure, Measurement, Wanted
<1>2. CASE Wanted(p, items) # {}
  <2>1. /\ p.metric = "tests" => Measure(p, items) = Tests(Wanted(p, items))
        /\ p.metric = "outcome" => Measure(p, items) = Outcomes(Wanted(p, items))
        /\ p.metric = "artifact" => Measure(p, items) = Deliverables(p, Wanted(p, items))
        /\ p.metric = "host" => Measure(p, items) = HostRuns(Wanted(p, items))
    BY <1>2 DEF Measure, Wanted
  <2> DEFINE W == Wanted(p, items)
  <2>2. Tests(W).refs = W /\ Tests(W).status \in {"passed", "failed", "unknown"}
    BY TestsAre
  <2>3. Outcomes(W).refs = W /\ Outcomes(W).status \in {"passed", "failed", "unknown"}
    BY OutcomesAre
  <2>4. Deliverables(p, W).refs = W /\ Deliverables(p, W).status \in {"passed", "failed", "unknown"}
    BY DeliverablesAre
  <2>5. HostRuns(W).refs = W /\ HostRuns(W).status \in {"passed", "failed", "unknown"}
    BY HostRunsAre
  <2> HIDE DEF W
  <2> QED BY <1>2, <2>1, <2>2, <2>3, <2>4, <2>5 DEF Metrics, W
<1> QED BY <1>1, <1>2

-----------------------------------------------------------------------------
(* Gaps.                                                                        *)

\* The observations that can be read, and what a provider makes of them.
Legible(r) == r.refs \cap evidence
Found(p, r) == Measure(p, Legible(r))

\* A deliverable of an outcome is there.
Holds(o, r) ==
  \E p \in Selected : /\ p.metric = "artifact" /\ p.kind \in Contract.outcomes[o].kinds /\ p.schema = Contract.outcomes[o].schema
                      /\ Found(p, r).status = "passed" /\ o \in Found(p, r).outcomes

RunStatus(r) ==
  CASE r.status = "needs-human" -> "needs-human"
    [] r.status \in {"incomplete", "timeout", "cancelled"} -> "failed"
    [] OTHER -> "unknown"

\* The gaps one after the other.
LEMMA GapsAre ==
  ASSUME NEW r, NEW g
  PROVE  g \in Gaps(r) <=>
    \/ ~(r.refs \subseteq evidence) /\ g = Gap("artifact-bytes-missing", "unknown", {}, Nil)
    \/ ~(Contract.checks \subseteq {i.schema : i \in evidence}) /\ g = Gap("check-definition-missing", "unknown", {}, Nil)
    \/ ~(Metrics \subseteq {p.metric : p \in Selected}) /\ g = Gap("provider-missing", "unknown", {}, Nil)
    \/ \E p \in Selected : Found(p, r).status # "passed" /\ g = Gap(p.metric, Found(p, r).status, Found(p, r).refs, Nil)
    \/ ~(\A o \in DOMAIN Contract.outcomes : Holds(o, r)) /\ g = Gap("outcome-artifact-missing", "unknown", {}, Nil)
    \/ g \in BranchGaps(r.branches)
    \/ ~(Contract.workspace => \E i \in Legible(r) : i.schema = "ActualDiff" /\ i.content.text # "")
       /\ g = Gap("actual-diff-missing", "unknown", {}, Nil)
    \/ ~r.usage /\ g = Gap("usage-incomplete", "unknown", {}, Nil)
    \/ r.status # "completed" /\ g = Gap("run", RunStatus(r), {}, Nil)
<1> DEFINE items == r.refs \cap evidence
           measured(p) == Measure(p, items)
           holds(o) == \E p \in Selected : /\ p.metric = "artifact" /\ p.kind \in Contract.outcomes[o].kinds
                                           /\ p.schema = Contract.outcomes[o].schema
                                           /\ measured(p).status = "passed" /\ o \in measured(p).outcomes
           unless(met, reason) == IF met THEN {} ELSE {Gap(reason, "unknown", {}, Nil)}
           A == unless(r.refs \subseteq evidence, "artifact-bytes-missing")
           B == unless(Contract.checks \subseteq {i.schema : i \in evidence}, "check-definition-missing")
           C == unless(Metrics \subseteq {p.metric : p \in Selected}, "provider-missing")
           D == {Gap(p.metric, measured(p).status, measured(p).refs, Nil) :
                   p \in {q \in Selected : measured(q).status # "passed"}}
           E == unless(\A o \in DOMAIN Contract.outcomes : holds(o), "outcome-artifact-missing")
           F == BranchGaps(r.branches)
           G == unless(Contract.workspace => \E i \in items : i.schema = "ActualDiff" /\ i.content.text # "",
                       "actual-diff-missing")
           H == unless(r.usage, "usage-incomplete")
           I == IF r.status = "completed" THEN {} ELSE {Gap("run", RunStatus(r), {}, Nil)}
<1>1. Gaps(r) = UNION {A, B, C, D, E, F, G, H, I}
  BY DEF Gaps, RunStatus
<1>2. g \in A <=> ~(r.refs \subseteq evidence) /\ g = Gap("artifact-bytes-missing", "unknown", {}, Nil)
  OBVIOUS
<1>3. g \in B <=> ~(Contract.checks \subseteq {i.schema : i \in evidence}) /\ g = Gap("check-definition-missing", "unknown", {}, Nil)
  OBVIOUS
<1>4. g \in C <=> ~(Metrics \subseteq {p.metric : p \in Selected}) /\ g = Gap("provider-missing", "unknown", {}, Nil)
  OBVIOUS
<1>5. g \in D <=> \E p \in Selected : /\ Found(p, r).status # "passed"
                                     /\ g = Gap(p.metric, Found(p, r).status, Found(p, r).refs, Nil)
  BY DEF Found, Legible
<1>6. g \in E <=> ~(\A o \in DOMAIN Contract.outcomes : Holds(o, r)) /\ g = Gap("outcome-artifact-missing", "unknown", {}, Nil)
  BY DEF Found, Legible, Holds
<1>7. g \in G <=> /\ ~(Contract.workspace => \E i \in Legible(r) : i.schema = "ActualDiff" /\ i.content.text # "")
                 /\ g = Gap("actual-diff-missing", "unknown", {}, Nil)
  BY DEF Legible
<1>8. g \in H <=> ~r.usage /\ g = Gap("usage-incomplete", "unknown", {}, Nil)
  OBVIOUS
<1>9. g \in I <=> r.status # "completed" /\ g = Gap("run", RunStatus(r), {}, Nil)
  OBVIOUS
<1>10. F = BranchGaps(r.branches)
  OBVIOUS
<1> HIDE DEF A, B, C, D, E, F, G, H, I
<1>11. g \in Gaps(r) <=> \/ g \in A \/ g \in B \/ g \in C \/ g \in D \/ g \in E \/ g \in F \/ g \in G
                          \/ g \in H \/ g \in I
  BY <1>1
<1> QED BY <1>2, <1>3, <1>4, <1>5, <1>6, <1>7, <1>8, <1>9, <1>10, <1>11

\* A gap is unknown, failed or for a human.
LEMMA GapStatus ==
  ASSUME ValidRegistration, NEW r, NEW g \in Gaps(r)
  PROVE  g.status \in {"unknown", "failed", "needs-human"}
<1>1. ASSUME NEW p \in Selected, Found(p, r).status # "passed"
      PROVE  Found(p, r).status \in {"unknown", "failed"}
  BY <1>1, MeasureIs DEF ValidRegistration, Selected, Found
<1>2. RunStatus(r) \in {"unknown", "failed", "needs-human"}
  BY DEF RunStatus
<1>3. ASSUME g \in BranchGaps(r.branches) PROVE g.status \in {"unknown", "failed"}
  BY <1>3 DEF BranchGaps, Gap
<1>4. \A reason, status, refs, branch : Gap(reason, status, refs, branch).status = status
  BY DEF Gap
<1>5. ASSUME NEW p \in Selected, Found(p, r).status # "passed",
             g = Gap(p.metric, Found(p, r).status, Found(p, r).refs, Nil)
      PROVE  g.status \in {"unknown", "failed"}
  BY <1>1, <1>4, <1>5
<1>6. \/ \E reason : g = Gap(reason, "unknown", {}, Nil)
      \/ \E p \in Selected : Found(p, r).status # "passed" /\ g = Gap(p.metric, Found(p, r).status, Found(p, r).refs, Nil)
      \/ g \in BranchGaps(r.branches)
      \/ g = Gap("run", RunStatus(r), {}, Nil)
  BY GapsAre
<1>7. CASE \E reason : g = Gap(reason, "unknown", {}, Nil)
  BY <1>4, <1>7
<1>8. CASE g = Gap("run", RunStatus(r), {}, Nil)
  BY <1>2, <1>4, <1>8
<1> QED BY <1>3, <1>5, <1>6, <1>7, <1>8

\* Where nothing is unknown the bytes are there, each metric has its provider, each of them
\* measured something, and the usage is complete.
LEMMA KnownIs ==
  ASSUME ValidRegistration, NEW r, \A g \in Gaps(r) : g.status # "unknown"
  PROVE  /\ r.refs \subseteq evidence /\ Legible(r) = r.refs /\ Metrics \subseteq {p.metric : p \in Selected} /\ r.usage
         /\ \A o \in DOMAIN Contract.outcomes : Holds(o, r)
         /\ \A p \in Selected : Wanted(p, r.refs) # {} /\ Found(p, r).status \in {"passed", "failed"}
<1>1. r.refs \subseteq evidence
  <2>1. ~(r.refs \subseteq evidence) => Gap("artifact-bytes-missing", "unknown", {}, Nil) \in Gaps(r)
    BY GapsAre
  <2> QED BY <2>1 DEF Gap
<1>2. Metrics \subseteq {p.metric : p \in Selected}
  <2>1. ~(Metrics \subseteq {p.metric : p \in Selected}) => Gap("provider-missing", "unknown", {}, Nil) \in Gaps(r)
    BY GapsAre
  <2> QED BY <2>1 DEF Gap
<1>3. r.usage
  <2>1. ~r.usage => Gap("usage-incomplete", "unknown", {}, Nil) \in Gaps(r)
    BY GapsAre
  <2> QED BY <2>1 DEF Gap
<1>4. \A o \in DOMAIN Contract.outcomes : Holds(o, r)
  <2>1. ~(\A o \in DOMAIN Contract.outcomes : Holds(o, r)) => Gap("outcome-artifact-missing", "unknown", {}, Nil) \in Gaps(r)
    BY GapsAre
  <2> QED BY <2>1 DEF Gap
<1>5. Legible(r) = r.refs
  BY <1>1 DEF Legible
<1>6. ASSUME NEW p \in Selected PROVE Wanted(p, r.refs) # {} /\ Found(p, r).status \in {"passed", "failed"}
  <2>1. Found(p, r).status # "passed" => Gap(p.metric, Found(p, r).status, Found(p, r).refs, Nil) \in Gaps(r)
    BY GapsAre
  <2>2. Found(p, r).status # "unknown"
    BY <2>1 DEF Gap
  <2>3. p.metric \in Metrics
    BY DEF Selected, ValidRegistration
  <2> QED BY <1>5, <2>2, <2>3, MeasureIs DEF Found
<1> QED BY <1>1, <1>2, <1>3, <1>4, <1>5, <1>6

-----------------------------------------------------------------------------
(* The invariant.                                                               *)

BranchRecords == [state : {"verifying", "succeeded", "failed"}, binding : Contract.branches \X Nat]

\* What a report says of a branch stays true of that attempt of the branch once it is settled.
BranchesAgree(reported, current) ==
  \A b \in Contract.branches :
    /\ reported[b].binding[2] <= current[b].binding[2]
    /\ reported[b].binding = current[b].binding /\ reported[b].state # "verifying" => reported[b] = current[b]

\* A report of the current attempt is of what is still there, an older one has another binding.
ReportFits ==
  report # Nil =>
    /\ report.refs \subseteq Left
    /\ \E a \in Nat : a <= attempt /\ report.binding = Bound(a)
    /\ report.binding = Bound(attempt) => report.refs \subseteq evidence
    /\ report.branches \in [Contract.branches -> BranchRecords]
    /\ BranchesAgree(report.branches, branches)

EvaluationInv ==
  /\ attempt \in 1 .. MaxAttempts /\ evidence \subseteq Left
  /\ branches \in [Contract.branches -> BranchRecords]
  /\ ReportFits

LEMMA InitFits == ValidRegistration /\ EvaluationInit => EvaluationInv
BY DEF ValidRegistration, EvaluationInit, EvaluationInv, ReportFits, BranchRecords

\* What is collected is left by somebody, and a report never says less of it.
LEMMA CollectKeeps ==
  ASSUME EvaluationInv, NEW items \in Bundles(attempt) \cup {BranchItems}, Collect(items)
  PROVE  EvaluationInv'
<1>1. items \subseteq Left
  BY DEF Left, EvaluationInv
<1> QED BY <1>1 DEF Collect, EvaluationInv, ReportFits, BranchesAgree, Bound

\* A branch settles once; a report that has it settled is of an earlier attempt of it.
LEMMA SettlesKeeps ==
  ASSUME EvaluationInv, NEW b \in Contract.branches, NEW state \in {"succeeded", "failed"}, BranchSettles(b, state)
  PROVE  EvaluationInv'
<1>1. /\ branches[b].state = "verifying" /\ branches' = [branches EXCEPT ![b].state = state]
      /\ UNCHANGED <<attempt, evidence, run, report>>
  BY DEF BranchSettles
<1>2. branches' \in [Contract.branches -> BranchRecords]
  BY <1>1 DEF EvaluationInv, BranchRecords
<1>3. branches'[b].binding = branches[b].binding
  BY <1>1 DEF EvaluationInv, BranchRecords
<1>4. ASSUME NEW c \in Contract.branches, c # b PROVE branches'[c] = branches[c]
  BY <1>1, <1>4 DEF EvaluationInv
<1>5. ASSUME report # Nil PROVE BranchesAgree(report.branches, branches')
  <2>1. BranchesAgree(report.branches, branches)
    BY <1>5 DEF EvaluationInv, ReportFits
  <2>2. report.branches[b] = branches[b] => report.branches[b].state = "verifying"
    BY <1>1
  <2>3. /\ report.branches[b].binding[2] <= branches'[b].binding[2]
        /\ report.branches[b].binding = branches'[b].binding => report.branches[b].state = "verifying"
    BY <2>1, <2>2, <1>3 DEF BranchesAgree
  <2>4. ASSUME NEW c \in Contract.branches, c # b
        PROVE  /\ report.branches[c].binding[2] <= branches'[c].binding[2]
               /\ report.branches[c].binding = branches'[c].binding /\ report.branches[c].state # "verifying" =>
                    report.branches[c] = branches'[c]
    BY <2>1, <1>4, <2>4 DEF BranchesAgree
  <2> QED BY <2>3, <2>4 DEF BranchesAgree
<1> QED BY <1>1, <1>2, <1>5 DEF EvaluationInv, ReportFits, Bound

\* A branch that reopens has a binding nobody reported yet.
LEMMA ReopensKeeps ==
  ASSUME EvaluationInv, NEW b \in Contract.branches, BranchReopens(b)
  PROVE  EvaluationInv'
<1>1. /\ branches' = [branches EXCEPT ![b] = [state |-> "verifying", binding |-> <<b, branches[b].binding[2] + 1>>]]
      /\ UNCHANGED <<attempt, evidence, run, report>>
  BY DEF BranchReopens
<1>2. branches[b].binding[2] \in Nat
  BY DEF EvaluationInv, BranchRecords
<1>3. branches' \in [Contract.branches -> BranchRecords]
  BY <1>1, <1>2 DEF EvaluationInv, BranchRecords
<1>4. /\ branches'[b].binding[2] = branches[b].binding[2] + 1
      /\ \A c \in Contract.branches : c # b => branches'[c] = branches[c]
  BY <1>1 DEF EvaluationInv
<1>5. ASSUME report # Nil PROVE BranchesAgree(report.branches, branches')
  <2>1. BranchesAgree(report.branches, branches)
    BY <1>5 DEF EvaluationInv, ReportFits
  <2>2. report.branches[b].binding[2] \in Nat
    BY <1>5 DEF EvaluationInv, ReportFits, BranchRecords
  <2>3. report.branches[b].binding[2] <= branches'[b].binding[2] /\ report.branches[b].binding # branches'[b].binding
    BY <2>1, <2>2, <1>2, <1>4 DEF BranchesAgree
  <2> QED BY <2>1, <2>3, <1>4 DEF BranchesAgree
<1> QED BY <1>1, <1>3, <1>5 DEF EvaluationInv, ReportFits, Bound

\* A report is of the attempt, its branches and what is there at that moment.
LEMMA ReportKeeps == EvaluationInv /\ Report => EvaluationInv'
<1> SUFFICES ASSUME EvaluationInv, Report PROVE EvaluationInv'
  OBVIOUS
<1>1. /\ report'.binding = Bound(attempt) /\ report'.branches = branches /\ report'.refs \subseteq evidence
      /\ UNCHANGED <<attempt, evidence, branches>>
  BY DEF Report
<1>2. BranchesAgree(branches, branches)
  BY DEF BranchesAgree, EvaluationInv, BranchRecords
<1> QED BY <1>1, <1>2 DEF EvaluationInv, ReportFits, BranchesAgree, Bound

\* A report of an attempt before is none of the next one.
LEMMA NextAttemptKeeps == ValidRegistration /\ EvaluationInv /\ NextAttempt => EvaluationInv'
<1> SUFFICES ASSUME ValidRegistration, EvaluationInv, NextAttempt PROVE EvaluationInv'
  OBVIOUS
<1>1. attempt' = attempt + 1 /\ attempt' \in 1 .. MaxAttempts /\ evidence' \subseteq evidence /\ UNCHANGED <<branches, report>>
  BY DEF NextAttempt, ValidRegistration, EvaluationInv
<1>2. ASSUME report # Nil
      PROVE  /\ \E a \in Nat : a <= attempt' /\ report.binding = Bound(a)
             /\ report.binding # Bound(attempt')
  BY <1>1, <1>2 DEF EvaluationInv, ReportFits, Bound
<1> QED BY <1>1, <1>2 DEF EvaluationInv, ReportFits, BranchesAgree, Bound

LEMMA NextKeeps == ValidRegistration /\ EvaluationInv /\ [EvaluationNext]_evaluationVars => EvaluationInv'
<1> SUFFICES ASSUME ValidRegistration, EvaluationInv, [EvaluationNext]_evaluationVars PROVE EvaluationInv'
  OBVIOUS
<1>1. ASSUME NEW s \in Endings, RunEnds(s) PROVE EvaluationInv'
  BY <1>1 DEF RunEnds, EvaluationInv, ReportFits, BranchesAgree, Bound
<1>2. CASE UsageReconciled
  BY <1>2 DEF UsageReconciled, EvaluationInv, ReportFits, BranchesAgree, Bound
<1>3. CASE Evaluate
  BY <1>3 DEF Evaluate, EvaluationInv, ReportFits
<1>4. CASE UNCHANGED evaluationVars
  BY <1>4 DEF evaluationVars, EvaluationInv, ReportFits, BranchesAgree, Bound
<1> QED BY <1>1, <1>2, <1>3, <1>4, CollectKeeps, SettlesKeeps, ReopensKeeps, ReportKeeps, NextAttemptKeeps DEF EvaluationNext

-----------------------------------------------------------------------------
(* A judgement.                                                                 *)

\* What is judged at all is of the current attempt.
LEMMA JudgedIs ==
  ASSUME ValidRegistration, NEW r, EvaluateError(r) = Nil
  PROVE  r.binding = Bound(attempt)
BY DEF EvaluateError, ValidRegistration

\* What a metric was measured by, by each of its providers.
LEMMA MeasuredIs ==
  ASSUME NEW metric, NEW items
  PROVE  /\ \A i \in MeasuredBy(metric, items) : \E p \in Selected : p.metric = metric /\ i \in Wanted(p, items)
         /\ \A p \in Selected : p.metric = metric => Wanted(p, items) \subseteq MeasuredBy(metric, items)
BY DEF MeasuredBy, Wanted

\* A branch in which no gap is was reported as it is, and succeeded.
LEMMA BranchIs ==
  ASSUME ValidRegistration, NEW reported, NEW b \in Contract.branches, BranchesAgree(reported, branches)
  PROVE  /\ BranchGap(b, reported) = Nil => reported[b] = branches[b] /\ reported[b].state = "succeeded"
         /\ BranchGap(b, reported) = "branch-failed" =>
              reported[b] = branches[b] /\ reported[b].state \in {"failed", "cancelled"}
BY DEF BranchGap, ValidRegistration, BranchesAgree
-----------------------------------------------------------------------------
(* What was judged.                                                             *)

\* A report that can be judged, of observations somebody left and branches that agree.
Judged(r) ==
  /\ EvaluateError(r) = Nil
  /\ r.refs \subseteq Left
  /\ BranchesAgree(r.branches, branches)

\* Without a gap everything asked for was found, and passed.
LEMMA NoGapIs ==
  ASSUME ValidRegistration, NEW r, NEW repairable \in BOOLEAN, Outcome(Gaps(r), repairable) = "completed"
  PROVE  Gaps(r) = {}
BY GapStatus DEF Outcome

\* A report judged completed.
LEMMA SuccessIs ==
  ASSUME ValidRegistration, NEW r, Judged(r), Gaps(r) = {}
  PROVE  /\ r.binding = Bound(attempt) /\ r.status = "completed" /\ r.usage
         /\ \A i \in MeasuredBy("tests", r.refs) : i.content.failed = 0 /\ i.content.skipped = 0 /\ i.content.exit = 0
         /\ \E i \in MeasuredBy("tests", r.refs) : i.content.passed > 0
         /\ \A o \in DOMAIN Contract.outcomes :
              /\ \E i \in MeasuredBy("outcome", r.refs) : \E v \in i.content.seen : v.outcome = o /\ v.met = TRUE
              /\ \E i \in MeasuredBy("artifact", r.refs) : i.schema = Contract.outcomes[o].schema /\ i.content.text # ""
         /\ MeasuredBy("host", r.refs) # {} /\ \A i \in MeasuredBy("host", r.refs) : i.content.status = "completed"
         /\ \A b \in Contract.branches : branches[b] = r.branches[b] /\ branches[b].state = "succeeded"
<1>1. r.binding = Bound(attempt)
  BY JudgedIs DEF Judged
<1>2. r.status = "completed"
  BY GapsAre
<1>3. /\ Legible(r) = r.refs /\ Metrics \subseteq {p.metric : p \in Selected} /\ r.usage
      /\ \A o \in DOMAIN Contract.outcomes : Holds(o, r)
      /\ \A p \in Selected : Wanted(p, r.refs) # {}
  BY KnownIs
<1>4. ASSUME NEW p \in Selected PROVE p.metric \in Metrics /\ Measure(p, r.refs).status = "passed"
  <2>1. Found(p, r).status = "passed"
    BY GapsAre
  <2> QED BY <1>3, <2>1 DEF Found, Selected, ValidRegistration
<1>5. /\ \E p \in Selected : p.metric = "tests"
      /\ \E p \in Selected : p.metric = "outcome"
      /\ \E p \in Selected : p.metric = "host"
  BY <1>3 DEF Metrics
<1>6. ASSUME NEW p \in Selected, p.metric = "tests"
      PROVE  /\ \A i \in Wanted(p, r.refs) : i.content.failed = 0 /\ i.content.skipped = 0 /\ i.content.exit = 0
             /\ \E i \in Wanted(p, r.refs) : i.content.passed > 0
  <2>1. Tests(Wanted(p, r.refs)).status = "passed"
    BY <1>3, <1>4, <1>6, MeasureIs
  <2>2. /\ \A i \in Wanted(p, r.refs) : ~(i.content.failed > 0 \/ i.content.skipped > 0 \/ i.content.exit # 0)
        /\ \E i \in Wanted(p, r.refs) : i.content.passed # 0
    BY <2>1, TestsAre
  <2>3. \A i \in Wanted(p, r.refs) : i.content.failed \in Nat /\ i.content.skipped \in Nat /\ i.content.passed \in Nat
    BY <1>6 DEF Judged, ValidRegistration, Wanted, Selected
  <2> QED BY <2>2, <2>3
<1>7. ASSUME NEW p \in Selected, p.metric = "outcome", NEW o \in DOMAIN Contract.outcomes
      PROVE  \E i \in Wanted(p, r.refs) : \E v \in i.content.seen : v.outcome = o /\ v.met = TRUE
  <2>1. Outcomes(Wanted(p, r.refs)).status = "passed"
    BY <1>3, <1>4, <1>7, MeasureIs
  <2>2. \A items : Outcomes(items).status = "passed" =>
          \A q \in DOMAIN Contract.outcomes : \E i \in items : \E v \in i.content.seen : v.outcome = q /\ v.met = TRUE
    BY OutcomesAre
  <2> QED BY <2>1, <2>2
<1>8. ASSUME NEW o \in DOMAIN Contract.outcomes
      PROVE  \E i \in MeasuredBy("artifact", r.refs) : i.schema = Contract.outcomes[o].schema /\ i.content.text # ""
  <2>1. PICK p \in Selected : p.metric = "artifact" /\ p.schema = Contract.outcomes[o].schema
    BY <1>3 DEF Holds
  <2>2. \A i \in Wanted(p, r.refs) : i.content.text # ""
    <3>1. Deliverables(p, Wanted(p, r.refs)).status = "passed"
      BY <1>3, <1>4, <2>1, MeasureIs
    <3> QED BY <3>1, DeliverablesAre
  <2>3. PICK i \in Wanted(p, r.refs) : TRUE
    BY <1>3
  <2>4. i \in MeasuredBy("artifact", r.refs) /\ i.schema = p.schema
    BY <2>1, MeasuredIs DEF Wanted
  <2> QED BY <2>1, <2>2, <2>4
<1>9. ASSUME NEW p \in Selected, p.metric = "host"
      PROVE  \A i \in Wanted(p, r.refs) : i.content.status = "completed"
  BY <1>3, <1>4, <1>9, MeasureIs, HostRunsAre
<1>10. ASSUME NEW b \in Contract.branches PROVE branches[b] = r.branches[b] /\ branches[b].state = "succeeded"
  <2>1. BranchGap(b, r.branches) = Nil
    <3>1. BranchGaps(r.branches) = {}
      BY GapsAre
    <3> QED BY <3>1 DEF BranchGaps
  <2> QED BY <2>1, BranchIs DEF Judged
<1>11. /\ \A i \in MeasuredBy("tests", r.refs) : i.content.failed = 0 /\ i.content.skipped = 0 /\ i.content.exit = 0
       /\ \E i \in MeasuredBy("tests", r.refs) : i.content.passed > 0
  BY <1>5, <1>6, MeasuredIs
<1>12. \A o \in DOMAIN Contract.outcomes :
         \E i \in MeasuredBy("outcome", r.refs) : \E v \in i.content.seen : v.outcome = o /\ v.met = TRUE
  BY <1>5, <1>7, MeasuredIs
<1>13. MeasuredBy("host", r.refs) # {} /\ \A i \in MeasuredBy("host", r.refs) : i.content.status = "completed"
  BY <1>3, <1>5, <1>9, MeasuredIs
<1> QED BY <1>1, <1>2, <1>3, <1>8, <1>10, <1>11, <1>12, <1>13

\* A report judged to be repaired, or failed.
LEMMA FailureIs ==
  ASSUME ValidRegistration, NEW r, Judged(r), NEW repairable \in BOOLEAN, Outcome(Gaps(r), repairable) \in {"repair", "failed"}
  PROVE  /\ r.binding = Bound(attempt) /\ r.usage /\ \A metric \in Metrics : MeasuredBy(metric, r.refs) # {}
         /\ \/ r.status \in {"incomplete", "timeout", "cancelled"}
            \/ \E i \in MeasuredBy("tests", r.refs) : i.content.failed > 0 \/ i.content.skipped > 0 \/ i.content.exit # 0
            \/ \E i \in MeasuredBy("outcome", r.refs) : \E v \in i.content.seen : v.met = FALSE
            \/ \E i \in MeasuredBy("host", r.refs) : i.content.status \in {"failed", "cancelled"}
            \/ \E b \in Contract.branches : branches[b] = r.branches[b] /\ branches[b].state \in {"failed", "cancelled"}
<1>1. (\A g \in Gaps(r) : g.status # "unknown") /\ (\E g \in Gaps(r) : g.status = "failed")
  BY DEF Outcome
<1>2. r.binding = Bound(attempt)
  BY JudgedIs DEF Judged
<1>3. /\ Legible(r) = r.refs /\ Metrics \subseteq {p.metric : p \in Selected} /\ r.usage
      /\ \A p \in Selected : Wanted(p, r.refs) # {}
  BY <1>1, KnownIs
<1>4. ASSUME NEW metric \in Metrics PROVE MeasuredBy(metric, r.refs) # {}
  <2>1. PICK p \in Selected : p.metric = metric
    BY <1>3
  <2> QED BY <1>3, <2>1, MeasuredIs
<1>5. PICK g \in Gaps(r) : g.status = "failed"
  BY <1>1
<1>6. \A reason, status, refs, branch : Gap(reason, status, refs, branch).status = status
  BY DEF Gap
<1>7. \/ \E p \in Selected : g = Gap(p.metric, Found(p, r).status, Found(p, r).refs, Nil)
      \/ g \in BranchGaps(r.branches)
      \/ r.status # "completed" /\ g = Gap("run", RunStatus(r), {}, Nil)
  <2>1. \/ \E reason : g = Gap(reason, "unknown", {}, Nil)
        \/ \E p \in Selected : g = Gap(p.metric, Found(p, r).status, Found(p, r).refs, Nil)
        \/ g \in BranchGaps(r.branches)
        \/ r.status # "completed" /\ g = Gap("run", RunStatus(r), {}, Nil)
    BY GapsAre
  <2> QED BY <1>5, <1>6, <2>1
<1>8. ASSUME NEW p \in Selected, g = Gap(p.metric, Found(p, r).status, Found(p, r).refs, Nil)
      PROVE  \/ \E i \in MeasuredBy("tests", r.refs) : i.content.failed > 0 \/ i.content.skipped > 0 \/ i.content.exit # 0
             \/ \E i \in MeasuredBy("outcome", r.refs) : \E v \in i.content.seen : v.met = FALSE
             \/ \E i \in MeasuredBy("host", r.refs) : i.content.status \in {"failed", "cancelled"}
  <2>1. Measure(p, r.refs).status = "failed"
    BY <1>3, <1>5, <1>6, <1>8 DEF Found
  <2>2. p.metric \in Metrics /\ Wanted(p, r.refs) # {}
    BY <1>3 DEF Selected, ValidRegistration
  <2>3. CASE p.metric = "tests"
    <3>1. \E i \in Wanted(p, r.refs) : i.content.failed > 0 \/ i.content.skipped > 0 \/ i.content.exit # 0
      BY <2>1, <2>2, <2>3, MeasureIs, TestsAre
    <3> QED BY <2>3, <3>1, MeasuredIs
  <2>4. CASE p.metric = "outcome"
    <3>1. \E i \in Wanted(p, r.refs) : \E v \in i.content.seen : v.met = FALSE
      BY <2>1, <2>2, <2>4, MeasureIs, OutcomesAre
    <3> QED BY <2>4, <3>1, MeasuredIs
  <2>5. CASE p.metric = "host"
    <3>1. \E i \in Wanted(p, r.refs) : i.content.status \in {"failed", "cancelled"}
      BY <2>1, <2>2, <2>5, MeasureIs, HostRunsAre
    <3> QED BY <2>5, <3>1, MeasuredIs
  <2>6. p.metric # "artifact"
    <3>1. p.metric = "artifact" => Deliverables(p, Wanted(p, r.refs)).status = "failed"
      BY <2>1, <2>2, MeasureIs
    <3>2. Deliverables(p, Wanted(p, r.refs)).status # "failed"
      BY DeliverablesAre
    <3> QED BY <3>1, <3>2
  <2> QED BY <2>2, <2>3, <2>4, <2>5, <2>6 DEF Metrics
<1>9. ASSUME g \in BranchGaps(r.branches)
      PROVE  \E b \in Contract.branches : branches[b] = r.branches[b] /\ branches[b].state \in {"failed", "cancelled"}
  <2>1. PICK b \in Contract.branches : BranchGap(b, r.branches) = "branch-failed"
    BY <1>5, <1>9 DEF BranchGaps, Gap
  <2>2. r.branches[b] = branches[b] /\ r.branches[b].state \in {"failed", "cancelled"}
    BY <2>1, BranchIs DEF Judged
  <2> QED BY <2>2
<1>10. ASSUME r.status # "completed", g = Gap("run", RunStatus(r), {}, Nil)
       PROVE  r.status \in {"incomplete", "timeout", "cancelled"}
  <2>1. RunStatus(r) = "failed"
    BY <1>5, <1>6, <1>10
  <2> QED BY <2>1 DEF RunStatus
<1> QED BY <1>2, <1>3, <1>4, <1>7, <1>8, <1>9, <1>10

\* A metric is a gap's reason only where one of its providers did not pass.
LEMMA MetricGapIs ==
  ASSUME ValidRegistration, NEW r, r.refs \subseteq evidence, NEW g \in Gaps(r), g.reason \in Metrics
  PROVE  \E p \in Selected : p.metric = g.reason /\ g.refs = Wanted(p, r.refs)
<1>1. \A reason, status, refs, branch : Gap(reason, status, refs, branch).reason = reason
                                        /\ Gap(reason, status, refs, branch).refs = refs
  BY DEF Gap
<1>2. ASSUME g \in BranchGaps(r.branches) PROVE FALSE
  <2>1. PICK b \in Contract.branches : g.reason = BranchGap(b, r.branches) /\ BranchGap(b, r.branches) # Nil
    <3>1. PICK b \in Contract.branches :
            /\ BranchGap(b, r.branches) # Nil
            /\ g = Gap(BranchGap(b, r.branches), IF BranchGap(b, r.branches) = "branch-failed" THEN "failed" ELSE "unknown",
                       {i \in evidence : i.binding = r.branches[b].binding}, b)
      BY <1>2 DEF BranchGaps
    <3> QED BY <1>1, <3>1
  <2> QED BY <2>1 DEF BranchGap, Metrics
<1>3. ASSUME NEW p \in Selected, g = Gap(p.metric, Found(p, r).status, Found(p, r).refs, Nil)
      PROVE  p.metric = g.reason /\ g.refs = Wanted(p, r.refs)
  <2>1. p.metric = g.reason /\ g.refs = Measure(p, Legible(r)).refs
    BY <1>1, <1>3 DEF Found
  <2>2. Legible(r) = r.refs
    BY DEF Legible
  <2>3. p.metric \in Metrics
    BY DEF Selected, ValidRegistration
  <2>4. Measure(p, r.refs).refs = Wanted(p, r.refs)
    BY <2>3, MeasureIs
  <2> QED BY <2>1, <2>2, <2>4
<1>4. \/ \E reason \in {"artifact-bytes-missing", "check-definition-missing", "provider-missing",
                        "outcome-artifact-missing", "actual-diff-missing", "usage-incomplete"} :
           g = Gap(reason, "unknown", {}, Nil)
      \/ \E p \in Selected : g = Gap(p.metric, Found(p, r).status, Found(p, r).refs, Nil)
      \/ g \in BranchGaps(r.branches)
      \/ g = Gap("run", RunStatus(r), {}, Nil)
  BY GapsAre
<1>5. CASE \E reason \in {"artifact-bytes-missing", "check-definition-missing", "provider-missing",
                          "outcome-artifact-missing", "actual-diff-missing", "usage-incomplete"} :
             g = Gap(reason, "unknown", {}, Nil)
  BY <1>1, <1>5 DEF Metrics
<1>6. CASE g = Gap("run", RunStatus(r), {}, Nil)
  BY <1>1, <1>6 DEF Metrics
<1> QED BY <1>2, <1>3, <1>4, <1>5, <1>6

\* Whatever is in the way is a gap.
LEMMA GapIs ==
  ASSUME NEW r, NEW g \in Gaps(r)
  PROVE  \E reason, status, refs, branch : g = Gap(reason, status, refs, branch)
<1>1. ASSUME g \in BranchGaps(r.branches) PROVE \E reason, status, refs, branch : g = Gap(reason, status, refs, branch)
  BY <1>1 DEF BranchGaps
<1>2. \/ \E reason : g = Gap(reason, "unknown", {}, Nil)
      \/ \E p \in Selected : g = Gap(p.metric, Found(p, r).status, Found(p, r).refs, Nil)
      \/ g \in BranchGaps(r.branches)
      \/ g = Gap("run", RunStatus(r), {}, Nil)
  BY GapsAre
<1>3. CASE g = Gap("run", RunStatus(r), {}, Nil)
  BY <1>3
<1>4. CASE \E reason : g = Gap(reason, "unknown", {}, Nil)
  BY <1>4
<1>5. CASE \E p \in Selected : g = Gap(p.metric, Found(p, r).status, Found(p, r).refs, Nil)
  BY <1>5
<1> QED BY <1>1, <1>2, <1>3, <1>4, <1>5

\* A gap is told as it is where all of it may be read, and without its reason otherwise.
LEMMA ToldIs ==
  ASSUME NEW v, NEW audience, NEW t \in FeedbackFor(v, audience).gaps,
         \A g \in v.gaps : \E reason, status, refs, branch : g = Gap(reason, status, refs, branch)
  PROVE  \/ t.reason = "restricted-acceptance-unmet" /\ t.refs = {}
         \/ \E g \in v.gaps : /\ t.reason = g.reason /\ t.refs \subseteq g.refs
                              /\ \A i \in g.refs : Audience!WithheldReason(i, audience) = "none"
<1> DEFINE told(g) ==
             IF \E i \in g.refs : Audience!WithheldReason(i, audience) # "none"
             THEN Gap("restricted-acceptance-unmet", g.status, {}, Nil)
             ELSE [g EXCEPT !.refs = Audience!PartitionFeedback(g.refs, audience).visible]
<1>1. PICK g \in v.gaps : t = told(g)
  BY DEF FeedbackFor
<1>2. CASE \E i \in g.refs : Audience!WithheldReason(i, audience) # "none"
  BY <1>1, <1>2 DEF Gap
<1>3. CASE ~\E i \in g.refs : Audience!WithheldReason(i, audience) # "none"
  <2>1. t = [g EXCEPT !.refs = Audience!PartitionFeedback(g.refs, audience).visible]
    BY <1>1, <1>3
  <2>2. PICK reason, status, refs, branch : g = Gap(reason, status, refs, branch)
    OBVIOUS
  <2>3. t.reason = g.reason /\ t.refs = Audience!PartitionFeedback(g.refs, audience).visible
    BY <2>1, <2>2 DEF Gap
  <2>4. t.refs \subseteq g.refs
    BY <2>3 DEF Audience!PartitionFeedback
  <2> QED BY <1>3, <2>3, <2>4
<1> QED BY <1>2, <1>3

-----------------------------------------------------------------------------
(* The verdicts.                                                                *)

\* A step judges the report under way, or leaves no verdict.
LEMMA VerdictIs ==
  ASSUME [EvaluationNext]_evaluationVars
  PROVE  \/ verdict' = Nil
         \/ UNCHANGED evaluationVars
         \/ /\ report # Nil /\ UNCHANGED <<attempt, branches>>
            /\ verdict'.of = report /\ verdict'.seen = branches
            /\ verdict'.outcome = IF EvaluateError(report) = Nil THEN Outcome(Gaps(report), attempt < MaxAttempts) ELSE Nil
            /\ verdict'.gaps = IF EvaluateError(report) = Nil THEN Gaps(report) ELSE {}
<1>1. Evaluate => /\ report # Nil /\ UNCHANGED <<attempt, branches>>
                  /\ verdict'.of = report /\ verdict'.seen = branches
                  /\ verdict'.outcome = IF EvaluateError(report) = Nil THEN Outcome(Gaps(report), attempt < MaxAttempts)
                                        ELSE Nil
                  /\ verdict'.gaps = IF EvaluateError(report) = Nil THEN Gaps(report) ELSE {}
  BY DEF Evaluate
<1>2. EvaluationNext => Evaluate \/ verdict' = Nil
  BY DEF EvaluationNext, Collect, RunEnds, UsageReconciled, BranchSettles, BranchReopens, Report, NextAttempt
<1> QED BY <1>1, <1>2

LEMMA OutcomeKeeps ==
  ASSUME ValidRegistration, EvaluationInv, OutcomeIsMeasured, [EvaluationNext]_evaluationVars
  PROVE  OutcomeIsMeasured'
<1>1. CASE verdict' = Nil
  BY <1>1 DEF OutcomeIsMeasured, CompletedIsMeasured, FailureIsSeen
<1>2. CASE UNCHANGED evaluationVars
  BY <1>2 DEF evaluationVars, OutcomeIsMeasured, CompletedIsMeasured, FailureIsSeen, Bound
<1>3. CASE /\ report # Nil /\ UNCHANGED <<attempt, branches>>
           /\ verdict'.of = report /\ verdict'.seen = branches
           /\ verdict'.outcome = IF EvaluateError(report) = Nil THEN Outcome(Gaps(report), attempt < MaxAttempts) ELSE Nil
  <2> DEFINE repairable == attempt < MaxAttempts
  <2>1. repairable \in BOOLEAN
    OBVIOUS
  <2>2. ASSUME verdict'.outcome \in {"completed", "repair", "failed"}
        PROVE  Judged(report) /\ verdict'.outcome = Outcome(Gaps(report), repairable)
    BY <1>3, <2>2 DEF Judged, EvaluationInv, ReportFits, ValidRegistration
  <2> HIDE DEF repairable
  <2>3. CompletedIsMeasured'
    <3>1. ASSUME verdict'.outcome = "completed" PROVE Judged(report) /\ Gaps(report) = {}
      BY <2>1, <2>2, <3>1, NoGapIs
    <3> QED BY <1>3, <3>1, SuccessIs DEF CompletedIsMeasured, Bound
  <2>4. FailureIsSeen'
    <3>1. ASSUME verdict'.outcome \in {"repair", "failed"}
          PROVE  Judged(report) /\ Outcome(Gaps(report), repairable) \in {"repair", "failed"}
      BY <2>2, <3>1
    <3> QED BY <1>3, <2>1, <3>1, FailureIs DEF FailureIsSeen, Bound
  <2> QED BY <2>3, <2>4 DEF OutcomeIsMeasured
<1> QED BY <1>1, <1>2, <1>3, VerdictIs

LEMMA FeedbackKeeps ==
  ASSUME ValidRegistration, EvaluationInv, FeedbackIsPublic, [EvaluationNext]_evaluationVars
  PROVE  FeedbackIsPublic'
<1>1. CASE verdict' = Nil
  BY <1>1 DEF FeedbackIsPublic
<1>2. CASE UNCHANGED evaluationVars
  BY <1>2 DEF evaluationVars, FeedbackIsPublic
<1>3. CASE /\ report # Nil /\ verdict'.of = report
           /\ verdict'.gaps = IF EvaluateError(report) = Nil THEN Gaps(report) ELSE {}
  <2>1. PICK v : v = verdict'
    OBVIOUS
  <2>2. \A g \in v.gaps : g \in Gaps(report) /\ report.refs \subseteq evidence
    BY <1>3, <2>1, JudgedIs DEF EvaluationInv, ReportFits
  <2>3. \A g \in v.gaps : \E reason, status, refs, branch : g = Gap(reason, status, refs, branch)
    BY <2>2, GapIs
  <2>4. ASSUME NEW audience \in {"author", "report"}, NEW t \in FeedbackFor(v, audience).gaps
        PROVE  /\ \A i \in t.refs : Audience!WithheldReason(i, audience) = "none"
               /\ t.reason \in Metrics =>
                    \E p \in Selected : /\ p.metric = t.reason
                                        /\ \A i \in report.refs : i.schema = p.schema /\ i.producer = p.producer =>
                                             Audience!WithheldReason(i, audience) = "none"
    <3>1. CASE t.reason = "restricted-acceptance-unmet" /\ t.refs = {}
      BY <3>1 DEF Metrics
    <3>2. CASE \E g \in v.gaps : /\ t.reason = g.reason /\ t.refs \subseteq g.refs
                                 /\ \A i \in g.refs : Audience!WithheldReason(i, audience) = "none"
      <4>1. PICK g \in v.gaps : /\ t.reason = g.reason /\ t.refs \subseteq g.refs
                                /\ \A i \in g.refs : Audience!WithheldReason(i, audience) = "none"
        BY <3>2
      <4>2. ASSUME t.reason \in Metrics
            PROVE  \E p \in Selected : p.metric = t.reason /\ g.refs = Wanted(p, report.refs)
        BY <2>2, <4>1, <4>2, MetricGapIs
      <4> QED BY <4>1, <4>2 DEF Wanted
    <3> QED BY <2>3, <3>1, <3>2, ToldIs
  <2>5. FeedbackIsPublic' <=>
          (v # Nil => \A audience \in {"author", "report"} : \A g \in FeedbackFor(v, audience).gaps :
             /\ \A i \in g.refs : Audience!WithheldReason(i, audience) = "none"
             /\ g.reason \in Metrics =>
                  \E p \in Selected : /\ p.metric = g.reason
                                      /\ \A i \in v.of.refs : i.schema = p.schema /\ i.producer = p.producer =>
                                           Audience!WithheldReason(i, audience) = "none")
    BY <2>1 DEF FeedbackIsPublic
  <2> QED BY <1>3, <2>1, <2>4, <2>5
<1> QED BY <1>1, <1>2, <1>3, VerdictIs

\* Success was measured, all of it, of the attempt and the branches that are current; what is
\* repaired or failed was seen to fail while nothing about it is unknown (Evaluate, Gaps).
THEOREM VerdictsAreMeasured == ValidRegistration /\ EvaluationSpec => []OutcomeIsMeasured
<1>1. ValidRegistration /\ EvaluationInit => EvaluationInv /\ OutcomeIsMeasured
  BY InitFits DEF EvaluationInit, OutcomeIsMeasured, CompletedIsMeasured, FailureIsSeen
<1>2. ValidRegistration /\ EvaluationInv /\ OutcomeIsMeasured /\ [EvaluationNext]_evaluationVars => EvaluationInv' /\ OutcomeIsMeasured'
  BY NextKeeps, OutcomeKeeps
<1>3. ValidRegistration => ValidRegistration'
  OBVIOUS
<1> QED BY <1>1, <1>2, <1>3, PTL DEF EvaluationSpec

\* Neither an author nor a report is told of an item that is held out, nor that it was a
\* measurement of such items that left a gap (FeedbackFor).
THEOREM FeedbackStaysPublic == ValidRegistration /\ EvaluationSpec => []FeedbackIsPublic
<1>1. ValidRegistration /\ EvaluationInit => EvaluationInv /\ FeedbackIsPublic
  BY InitFits DEF EvaluationInit, FeedbackIsPublic
<1>2. ValidRegistration /\ EvaluationInv /\ FeedbackIsPublic /\ [EvaluationNext]_evaluationVars => EvaluationInv' /\ FeedbackIsPublic'
  BY NextKeeps, FeedbackKeeps
<1>3. ValidRegistration => ValidRegistration'
  OBVIOUS
<1> QED BY <1>1, <1>2, <1>3, PTL DEF EvaluationSpec
=============================================================================
