----------------------------- MODULE GateVerdict -----------------------------
(***************************************************************************)
(* The decision table of the gate, twice: as the runner spells it out at the  *)
(* end of an iteration and as the gate maps a judgement to a verdict.          *)
(***************************************************************************)

Bands == {"LOW", "MEDIUM", "HIGH", "CRITICAL"}

\* What evidence and gate tell apart: the two groups of tests, whether the objective is a
\* valid score, and whether it improves on the baseline by the minimum.
Evidences == [public : BOOLEAN, private : BOOLEAN, valid : BOOLEAN, improves : BOOLEAN]

\* decisionForCandidateCheck
DecisionForCandidateCheck(problem) ==
  CASE problem = "CAPABILITY_VIOLATION" -> "ESCALATE"
    [] problem \in {"POLICY_VIOLATION", "EVIDENCE_MODIFIED_CANDIDATE"} -> "QUARANTINE"
    [] OTHER -> "REJECT"

\* verdictForRisk
DecisionForRisk(band) ==
  CASE band = "CRITICAL" -> "QUARANTINE" [] band = "HIGH" -> "ESCALATE" [] OTHER -> "ACCEPT"

\* evaluateCandidate
GateDecision(e, band) ==
  IF ~e.public \/ ~e.private THEN "REJECT"
  ELSE IF ~e.valid THEN "QUARANTINE"
  ELSE IF ~e.improves THEN "REJECT"
  ELSE DecisionForRisk(band)
=============================================================================
