---------------------------- MODULE AssetRegistry ----------------------------
(***************************************************************************)
(* The registry of capability assets: revisions that pin earlier revisions,  *)
(* and for each one the last global state its history records.  It is a value   *)
(* that its caller commits, so its operations are plans over it; an asset is    *)
(* qualified in a context when it and all it depends on are.                    *)
(***************************************************************************)
EXTENDS Naturals, FiniteSets

CONSTANTS
  Assets,    \* revisions of assets; an asset has one evaluation
  Deps,      \* Deps[a]: the revisions a depends on
  None

ASSUME RegistryAssumption ==
  /\ Deps \in [Assets -> SUBSET Assets] /\ \A a \in Assets : a \notin Deps[a]
  /\ None \notin Assets

VARIABLES
  registry,  \* per asset: its global state and the contexts it became active in, or None
  expired    \* assets whose qualification, evidence or material has expired

States == {"staged", "validated", "promoted", "revoked"}

Registered(a) == registry[a] # None
State(a) == registry[a].state

\* All that a depends on: what every set has that has a's dependencies and those of its members.
DependsOn ==
  [a \in Assets |->
    {b \in Assets : \A S \in SUBSET Assets :
                      Deps[a] \subseteq S /\ (\A d \in S : Deps[d] \subseteq S) => b \in S}]

WithDependencies(a) == {a} \cup DependsOn[a]

\* invalidation: the asset or something below it is revoked or expired.
Invalid(a) == \E d \in WithDependencies(a) : State(d) = "revoked" \/ d \in expired

\* query: promoted, valid, and every dependency eligible.
Eligible(a) == ~Invalid(a) /\ \A d \in WithDependencies(a) : State(d) = "promoted"

\* query: eligible, and it and its dependencies have become active in this context.
Usable(a, context) ==
  Eligible(a) /\ \A d \in WithDependencies(a) : context \in registry[d].contexts

EligibleNow == {a \in Assets : Registered(a) /\ Eligible(a)}

\* validateDecisionTransition: evaluation, promotion and activation are separate steps.
Precedes(state) == IF state = "validated" THEN "staged" ELSE "validated"

Advance(a, state) == [registry EXCEPT ![a].state = state]

\* stageRevision: dependencies are pinned to registered revisions that are still valid.
Stageable(a) == ~Registered(a) /\ \A d \in Deps[a] : Registered(d) /\ ~Invalid(d)
StageRevision(a) == registry' = [registry EXCEPT ![a] = [state |-> "staged", contexts |-> {}]]

\* recordDecision of a candidate: the evaluation binds the revision and all it depends on.
Validatable(a) == Registered(a) /\ State(a) = Precedes("validated") /\ ~Invalid(a)

\* recordDecision of a promotion: the dependencies are qualified too.
Promotable(a) ==
  Registered(a) /\ State(a) = Precedes("promoted") /\ ~Invalid(a) /\ \A d \in Deps[a] : Eligible(d)

\* recordDecision of an activation: the dependencies are active in the same context.
Activates(a, context) == Eligible(a) /\ \A d \in Deps[a] : Usable(d, context)
RecordActive(a, context) == [registry EXCEPT ![a].contexts = @ \cup {context}]

\* revokeRevision for a set of revisions; one that is revoked already stays so.
RevokeAll(S) == [a \in Assets |-> IF a \in S THEN [registry[a] EXCEPT !.state = "revoked"] ELSE registry[a]]

\* dependentClosure: the root and every registered revision that depends on it.
DependentClosure(root) == {a \in Assets : Registered(a) /\ root \in WithDependencies(a)}
=============================================================================
