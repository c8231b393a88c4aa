------------------------------ MODULE HostPort ------------------------------
(***************************************************************************)
(* What both Pi adapters take from the host port: the grants of a delegation,  *)
(* which only shrink, and the usage rows of an invocation.  The rules are pure   *)
(* operators over records; refusals are the code's codes without their prefix.    *)
(***************************************************************************)
EXTENDS Integers, FiniteSets

CONSTANT None

-----------------------------------------------------------------------------
(* Grants.  A grant has an id, a root, a scope, a budget, an epoch, an expiry, a  *)
(* depth, a concurrency and its revocation.                                      *)

ScopeWithin(child, parent) ==
  /\ child.workspace = parent.workspace
  /\ child.reads \subseteq parent.reads
  /\ child.writes \subseteq parent.writes
  /\ child.artifacts \subseteq parent.artifacts
  /\ child.domain = parent.domain

\* No ceiling admits any ceiling; a ceiling admits no child without one.
UsdWithin(parent, child) == parent # None => child # None /\ child <= parent

BudgetWithin(child, parent) ==
  /\ child.pool = parent.pool
  /\ child.category = parent.category
  /\ child.requests <= parent.requests
  /\ child.input <= parent.input
  /\ child.output <= parent.output
  /\ UsdWithin(parent.usd, child.usd)
  /\ child.wall <= parent.wall
  /\ child.concurrent <= parent.concurrent

\* The refusal of a delegation, None when the child may be granted.
DelegateError(parent, request, now) ==
  IF parent.revoked THEN "GRANT_REVOKED"
  ELSE IF now >= parent.expires THEN "GRANT_EXPIRED"
  ELSE IF \/ parent.depth < 1
          \/ request.depth >= parent.depth
          \/ request.expires > parent.expires
          \/ request.concurrency \notin 1 .. parent.concurrency
          \/ ~ScopeWithin(request.scope, parent.scope)
          \/ ~BudgetWithin(request.budget, parent.budget)
  THEN "AUTHORITY_DENIED"
  ELSE IF request.budget.category = "controlled-experiment" /\ request.budget.authorization = None
  THEN "BUDGET_NOT_AUTHORIZED" ELSE None

-----------------------------------------------------------------------------
(* Usage rows: [request, complete, reasoning, output].                             *)

\* The same request with different content is a conflict; a repeat is dropped.
UsageConflicts(rows) == \E r, q \in rows : r.request = q.request /\ r # q

UsageIsComplete(rows) ==
  /\ rows # {}
  /\ \A r \in rows :
       r.complete /\ (r.reasoning # None /\ r.output # None => r.reasoning <= r.output)
=============================================================================
