----------------------------- MODULE MCServices -----------------------------
(***************************************************************************)
(* Two services that share no state, the revocation of assets and the         *)
(* generation runner, explored side by side: the initial state chooses one      *)
(* of them and the other stays at rest.                                          *)
(***************************************************************************)
EXTENDS Revocation, Evolution

CONSTANTS
  a1, a2, p1, t1, t2, s1, x1, x2, q1, r1, r2

VARIABLE service

MCDeps == (a1 :> {}) @@ (a2 :> {a1})
MCSession == p1 :> s1
MCRestoreId == q1 :> (p1 :> x2)
Interchangeable == Permutations({t1, t2})

MCLimits == [cost |-> 8, tokens |-> 5]
Used(cost, tokens) == [cost |-> cost, tokens |-> tokens, late |-> FALSE, unkilled |-> FALSE]
MCUses == {Used(0, 1), Used(4, 1), Used(4, Nil), [Used(4, 1) EXCEPT !.late = TRUE], [Used(0, 1) EXCEPT !.unkilled = TRUE]}
MCIterations == (r1 :> 2) @@ (r2 :> 1)

ASSUME RunnerAssumption == ValidConstants /\ NothingPutBack

ServicesInit ==
  /\ service \in {"revocation", "generations"}
  /\ Init
  /\ RunnerInit

ServicesNext ==
  \/ service = "revocation" /\ Next /\ UNCHANGED <<service, runnerVars>>
  \/ service = "generations" /\ RunnerNext /\ UNCHANGED <<service, vars>>

ServicesSpec == ServicesInit /\ [][ServicesNext]_<<service, vars, runnerVars>>
=============================================================================
