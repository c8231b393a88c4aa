---------------------------- MODULE MCBudgetPool ----------------------------
(* Three requests against pools that differ in which cap binds first, and rows  *)
(* below, at and above the reservation, incomplete, and contradicting another.  *)
EXTENDS BudgetPool, TLC

MCRequestIds == {"r1", "r2", "r3"}
MCMicros == {0, 1, 3, 5}

Budgeted(category, cap, reserve, requests, concurrent) ==
  [category |-> category, authorized |-> FALSE, priced |-> TRUE, cap |-> cap,
   reservePerRequest |-> reserve, maxRequests |-> requests, maxConcurrent |-> concurrent]

\* The last three cannot be opened: too small a cap, no cap, no authorization.
MCPolicies ==
  {Budgeted("probe", 6, 2, 3, 2), Budgeted("probe", 7, 2, 3, 1),
   Budgeted("development", None, 2, 2, 2),
   Budgeted("probe", 5, 2, 3, 2), Budgeted("probe", None, 2, 2, 2),
   Budgeted("controlled-experiment", 6, 2, 3, 2)}

Row(id, complete, micros) ==
  [requestId |-> id, complete |-> complete, counted |-> TRUE, coherent |-> TRUE,
   sourced |-> TRUE, micros |-> micros]

MCRows ==
  {Row(id, TRUE, m) : id \in {"r1", "r2"}, m \in {1, 5}}
    \cup {Row("r3", TRUE, 3), Row("r1", FALSE, 0), Row("r2", TRUE, None),
          [Row("r3", TRUE, 1) EXCEPT !.counted = FALSE],
          [Row("r3", TRUE, 1) EXCEPT !.coherent = FALSE],
          [Row("r3", TRUE, 1) EXCEPT !.sourced = FALSE]}
=============================================================================
