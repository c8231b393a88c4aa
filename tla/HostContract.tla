---------------------------- MODULE HostContract ----------------------------
(***************************************************************************)
(* What a host promises of the effects it is given, whatever it is: it begins  *)
(* each of them at most once, and what it answers about one is true for good.    *)
(* One answer is only as good as its caller is consistent: a host may forget what  *)
(* it called not executed, and takes the same effect for a new one if asked again.  *)
(***************************************************************************)
EXTENDS Integers, FiniteSets

CONSTANT Effects

VARIABLES
  begun,    \* how often the host began each effect
  told,     \* the definite answers given about each effect
  reissued  \* effects the caller asked for again though they were called not executed

vars == <<begun, told, reissued>>

\* The outcome of something that ran.
Outcomes == {"completed", "failed", "cancelled"}

\* The verdicts that decide an effect; an acknowledged stop leaves its receipt to come.
Verdicts == Outcomes \cup {"not-executed"}

Init ==
  /\ begun = [e \in Effects |-> 0]
  /\ told = [e \in Effects |-> {}]
  /\ reissued = {}

\* The caller asks once more for an effect that was called not executed.
Reissue(e) ==
  /\ "not-executed" \in told[e]
  /\ reissued' = reissued \cup {e}
  /\ UNCHANGED <<begun, told>>

\* An effect called not executed does not begin unless its caller asks again.
Begin(e) ==
  /\ begun[e] = 0 /\ ("not-executed" \in told[e] => e \in reissued)
  /\ begun' = [begun EXCEPT ![e] = 1]
  /\ UNCHANGED <<told, reissued>>

\* The verdicts that a later one may replace.
Revocable(e) == IF e \in reissued THEN {"not-executed"} ELSE {}

\* An outcome, or an acknowledged stop, is of something that began; no verdict contradicts
\* an earlier one.
Answer(e, verdict) ==
  /\ verdict \in Verdicts \cup {"native-ack"}
  /\ begun[e] = IF verdict = "not-executed" THEN 0 ELSE 1
  /\ verdict \in Verdicts => told[e] \cap Verdicts \subseteq {verdict} \cup Revocable(e)
  /\ told' = [told EXCEPT ![e] = @ \cup {verdict}]
  /\ UNCHANGED <<begun, reissued>>

\* The answers of a step are those it adds.
Next == \E e \in Effects : Reissue(e) \/ Begin(e) \/ \E v \in told'[e] \ told[e] : Answer(e, v)

Spec == Init /\ [][Next]_vars
=============================================================================
