----------------------------- MODULE MCScheduler -----------------------------
(***************************************************************************)
(* Two writers of one resource, a reader of what one of them makes and a join,  *)
(* patched while they run.                                                       *)
(***************************************************************************)
EXTENDS Scheduler

Task(n, exclusive, terminal) ==
  [id |-> n, kind |-> "task", terminal |-> terminal, branches |-> {}, loop |-> {},
   exclusive |-> exclusive, shared |-> <<>>, outputs |-> <<"report">>, tools |-> {},
   maxAttempts |-> 2]

Join(n, branches) == [Task(n, <<>>, TRUE) EXCEPT !.kind = "join", !.branches = branches]

Edge(id, type, from, to) ==
  [id |-> id, type |-> type, from |-> from, to |-> to, when |-> {}, artifact |-> Nil,
   expect |-> Nil, maxAttempts |-> Nil]

Data(id, from, to) == [Edge(id, "data", from, to) EXCEPT !.expect = "report"]
Control(id, type, from, to, when) ==
  [Edge(id, type, from, to) EXCEPT !.when = when, !.maxAttempts = IF type = "route" THEN Nil ELSE 2]

Done   == [ok |-> TRUE, decision |-> "completed"]
Broken == [ok |-> FALSE, decision |-> "failed"]
Unsure == [ok |-> TRUE, decision |-> "unknown"]
Asks   == [ok |-> TRUE, decision |-> "needs-human"]

MCOutcomes == {Done, Broken}

Edges == <<Data("d1", "n1", "n3"), Edge("e1", "dependency", "n2", "j"),
           Control("f1", "repair", "n1", "n1", {Broken}), Control("f2", "route", "n1", "n3", {Done})>>

MCGraph ==
  [revision |-> 1,
   nodes |-> <<Task("n1", <<"db">>, FALSE), Task("n2", <<"db">>, FALSE),
               Task("n3", <<"db">>, TRUE), Join("j", {"n2", "n3"})>>,
   edges |-> Edges, abandoned |-> <<>>,
   policy |-> [r \in {"db"} |-> [mode |-> "exclusive", maxHolders |-> 1]],
   limits |-> [maxNodes |-> 5, maxAttempts |-> 2]]

Patch(edges) ==
  [expectedRevision |-> 1, adds |-> <<>>, changes |-> <<>>, removals |-> {}, edges |-> edges,
   abandoned |-> <<>>, authority |-> "lead"]

\* Two that are accepted unless work is in flight, a removal, one that swaps the producer.
MCPatches ==
  {[Patch(Edges) EXCEPT !.changes = <<Task("n3", <<>>, TRUE)>>],
   [Patch(Edges) EXCEPT !.abandoned = <<[node |-> "n2", authority |-> "lead"]>>],
   Patch(<<Data("d1", "n2", "n3")>> \o Tail(Edges)),
   [Patch(<<[Data("d1", "n1", "n3") EXCEPT !.artifact = [node |-> "n1", schema |-> "report", digest |-> 1]]>>
      \o Tail(Edges)) EXCEPT !.expectedRevision = 2]}

MCContract ==
  [authority |-> [grants |-> {"lead"}, nodes |-> Nil, capabilities |-> Nil],
   branches |-> {"n3"}, authorities |-> {}]

MCNodeIds == {"n1", "n2", "n3", "j"}
MCRefusals == {{}}
=============================================================================
