----------------------------- MODULE MCSession -----------------------------
(***************************************************************************)
(* Instances of Session: the life of one node under every command, and the  *)
(* rounds and decisions of small graphs.                                    *)
(***************************************************************************)
EXTENDS Session

CONSTANTS t1, t2, na, nb, nc

OneNode == <<na>>
ThreeNodes == <<na, nb, nc>>
AllNodes == Nodes
SomeNodes == {na, nc}
TwoThreads == {t1, t2}
OneThread == {t1}

To(from, to, type) == [from |-> from, to |-> to, type |-> type]

TerminalOnly == {[edges |-> {}, terminal |-> {na}]}

\* nb waits for na beside an independent nc; nc routes to na, which nb may want repaired; na
\* repairs itself or falls back to nb, whose own dependant is nc.
SmallGraphs ==
  {[edges |-> {To(na, nb, "dependency")}, terminal |-> {nb, nc}],
   [edges |-> {To(nc, na, "route"), To(nb, na, "repair")}, terminal |-> {na}],
   [edges |-> {To(na, na, "repair"), To(na, nb, "fallback"), To(nb, nc, "dependency")},
    terminal |-> {nc}]}

\* Four requests of two micro-USD each.
Pool == [category |-> "development", authorized |-> FALSE, priced |-> TRUE, cap |-> 8,
         reservePerRequest |-> 2, maxRequests |-> 4, maxConcurrent |-> 4]
SomeMicros == {1, 2}
Paid == {[complete |-> TRUE, micros |-> 1]}

AllRefs == Refs

\* The threads are interchangeable, and no property names one.
ThreadSymmetry == Permutations(Threads)
=============================================================================
