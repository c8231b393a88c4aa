----------------------------- MODULE MCWorkspace -----------------------------
(* Instances of Workspace: two applications that compete and the undo of one. *)
EXTENDS Workspace, TLC

CONSTANTS e1, e2, p1, i1, i2, c1, c2

MCEdits == (e1 :> {p1}) @@ (e2 :> {p1})
MCScope == (e1 :> {p1}) @@ (e2 :> {p1})
Competing == (e1 :> None) @@ (e2 :> None)
Undoing == (e1 :> None) @@ (e2 :> e1)
UndoingFirst == (e2 :> None) @@ (e1 :> e2)
MCTasks == {Competing, Undoing, UndoingFirst}
Apart == (c1 :> i1) @@ (c2 :> i2)
\* The two instances with their calls, and the two effects, are interchangeable.
SwapInstances == (c1 :> c2) @@ (c2 :> c1) @@ (i1 :> i2) @@ (i2 :> i1) @@ (e1 :> e1) @@ (e2 :> e2)
SwapEffects == (c1 :> c1) @@ (c2 :> c2) @@ (i1 :> i1) @@ (i2 :> i2) @@ (e1 :> e2) @@ (e2 :> e1)
SwapBoth == (c1 :> c2) @@ (c2 :> c1) @@ (i1 :> i2) @@ (i2 :> i1) @@ (e1 :> e2) @@ (e2 :> e1)
Interchangeable == {SwapInstances, SwapEffects, SwapBoth}
OneTask == {Competing}
Together == (c1 :> i1) @@ (c2 :> i1)
=============================================================================
