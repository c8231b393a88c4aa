---------------------------- MODULE MCEvaluation ----------------------------
(***************************************************************************)
(* One outcome, one branch, private tests and two attempts.                   *)
(***************************************************************************)
EXTENDS Evaluation

Item(id, schema, producer, binding, visibility, content) ==
  [id |-> <<id, binding>>, schema |-> schema, producer |-> producer, binding |-> binding, visibility |-> visibility,
   partition |-> "not-evaluation", content |-> content]

Ran(status) == [status |-> status, observed |-> TRUE]
Counts(passed, failed) == [passed |-> passed, failed |-> failed, skipped |-> 0, exit |-> 0]
Met(met) == [seen |-> {[outcome |-> "o", met |-> met]}]
Text(text) == [text |-> text]

HostLeaves(a) ==
  {Item(<<"receipt">>, "Receipt", "host", <<"task", a>>, "internal", Ran("completed")),
   Item(<<"diff">>, "ActualDiff", "host", <<"task", a>>, "internal", Text("change")),
   Item(<<"check">>, "check", "kernel", <<"source", 0>>, "internal", Text("definition"))}

TestsLeave(a, passed, failed) ==
  {Item(<<"tests", passed, failed>>, "tests", "evaluator", <<"task", a>>, "held-out", Counts(passed, failed))}

Delivers(a, met) ==
  {Item(<<"outcome", met>>, "outcome", "evaluator", <<"task", a>>, "internal", Met(met)),
   Item(<<"deliverable">>, "doc", "author", <<"task", a>>, "internal", Text("text"))}

Done(a) == HostLeaves(a) \cup Delivers(a, TRUE)

MCBundles(a) ==
  IF a = 1 THEN {Done(a), TestsLeave(a, 1, 0), TestsLeave(a, 1, 1), Delivers(a, FALSE)}
  ELSE {Done(a) \cup TestsLeave(a, 1, 0)}

MCBranchItems ==
  {Item(<<"r">>, "Receipt", "host", <<"b", 1>>, "internal", Ran("completed")),
   Item(<<"d">>, "ActualDiff", "host", <<"b", 1>>, "internal", Text("change")),
   Item(<<"v">>, "DecisionRecord", "evaluator", <<"b", 1>>, "internal", [outcome |-> "completed", run |-> <<<<"r">>, <<"b", 1>>>>])}

MCContract ==
  [branches |-> {"b"}, outcomes |-> [o |-> [schema |-> "doc", kinds |-> {"file"}]],
   checks |-> {"check"}, workspace |-> TRUE, outcomeSchema |-> "outcome"]

Provider(id, metric, schema, producer, private) ==
  [id |-> id, metric |-> metric, schema |-> schema, producer |-> producer, kind |-> "file", private |-> private]

MCRegistration ==
  [issuer |-> "evaluator", matches |-> TRUE, selected |-> 1 .. 4,
   providers |-> {Provider(1, "tests", "tests", "evaluator", TRUE), Provider(2, "outcome", "outcome", "evaluator", FALSE),
                  Provider(3, "artifact", "doc", "author", FALSE), Provider(4, "host", "Receipt", "host", FALSE)}]

MCEndings == {"completed", "needs-human", "timeout"}

ASSUME RegistrationAssumption == ValidRegistration
=============================================================================
