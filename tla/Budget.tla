------------------------------- MODULE Budget -------------------------------
(***************************************************************************)
(* The arithmetic of one budget pool: pure transitions over a ledger that   *)
(* every role of a session draws on, and the completeness of the telemetry  *)
(* that is supposed to explain it.  Amounts are whole micro-USD.  Role and  *)
(* parent of a request are provenance only and are left out; the identity   *)
(* of a settlement is the content its digest is taken of.                   *)
(***************************************************************************)
EXTENDS Integers, FiniteSetsExt

CONSTANTS RequestIds, Micros, None

\* A usage row of a receipt: counted, when its required counts are present; coherent, when
\* its reasoning tokens do not exceed its output; sourced, when its source is known.
Usage == [requestId : RequestIds, complete : BOOLEAN, counted : BOOLEAN, coherent : BOOLEAN,
          sourced : BOOLEAN, micros : Micros \cup {None}]

Digest == ({"usage"} \X Usage) \cup ({"release"} \X Micros)

Policy == [category : {"development", "probe", "controlled-experiment"},
           authorized : BOOLEAN, priced : BOOLEAN, cap : Nat \cup {None},
           reservePerRequest : Nat, maxRequests : Nat, maxConcurrent : Nat]

Reservation == [requestId : RequestIds, micros : Nat]
Settlement == [requestId : RequestIds, micros : Nat, digest : Digest]

Ledger == [cap : Nat \cup {None}, reservePerRequest : Nat, maxRequests : Nat,
           maxConcurrent : Nat, reservations : SUBSET Reservation,
           settlements : SUBSET Settlement, requestCount : Nat]

-----------------------------------------------------------------------------
(* Opening the pool.                                                         *)

\* A pool is opened only for a budget that can be dispatched within its own envelope.
CanOpen(p) ==
  /\ p.reservePerRequest >= 1
  /\ p.category = "controlled-experiment" => p.authorized
  /\ p.cap = None => p.category = "development"
  /\ p.cap # None => p.priced /\ p.maxRequests * p.reservePerRequest <= p.cap

OpenLedger(p) ==
  [cap |-> p.cap, reservePerRequest |-> p.reservePerRequest, maxRequests |-> p.maxRequests,
   maxConcurrent |-> p.maxConcurrent, reservations |-> {}, settlements |-> {},
   requestCount |-> 0]

-----------------------------------------------------------------------------
(* The snapshot.                                                             *)

SettledMicros(l) == MapThenSumSet(LAMBDA s : s.micros, l.settlements)

OutstandingMicros(l) == MapThenSumSet(LAMBDA r : r.micros, l.reservations)

\* What the pool owes at worst.
Committed(l) == SettledMicros(l) + OutstandingMicros(l)

Exhausted(l) ==
  \/ l.cap # None /\ l.cap - Committed(l) <= 0
  \/ l.requestCount >= l.maxRequests
  \/ Cardinality(l.reservations) >= l.maxConcurrent

-----------------------------------------------------------------------------
(* Reserve before dispatch.                                                  *)

SettledIds(l) == {s.requestId : s \in l.settlements}
ReservedIds(l) == {r.requestId : r \in l.reservations}

\* Defect: a settled request may be reserved again.
ChargedWhileReserved(l, id) == id \in ReservedIds(l)

\* A request that was charged once is never charged again.
Charged(l, id) == id \in SettledIds(l) \cup ReservedIds(l)

\* Defect: the caps are compared with the outstanding requests only.
HasRoomOutstanding(l) ==
  /\ l.requestCount + 1 <= l.maxRequests
  /\ Cardinality(l.reservations) + 1 <= l.maxConcurrent
  /\ l.cap # None => OutstandingMicros(l) + l.reservePerRequest <= l.cap

HasRoom(l) ==
  /\ l.requestCount + 1 <= l.maxRequests
  /\ Cardinality(l.reservations) + 1 <= l.maxConcurrent
  /\ l.cap # None => Committed(l) + l.reservePerRequest <= l.cap

\* EFK_BUDGET_EXHAUSTED: the only refusal of reserve.
ReserveRefused(l, id) == ~Charged(l, id) /\ ~HasRoom(l)

AfterReserve(l, id) ==
  IF Charged(l, id) \/ ~HasRoom(l) THEN l
  ELSE [l EXCEPT
          !.reservations = @ \cup {[requestId |-> id, micros |-> l.reservePerRequest]},
          !.requestCount = @ + 1]

-----------------------------------------------------------------------------
(* Settle from the receipt.                                                  *)

\* A reservation leaves the pool's outstanding part only into a settlement of its request.
Moved(l, id, micros, digest) ==
  [l EXCEPT
     !.reservations = {r \in @ : r.requestId # id},
     !.settlements = @ \cup {[requestId |-> id, micros |-> micros, digest |-> digest]}]

SettledAs(l, id, digest) == \E s \in l.settlements : s.requestId = id /\ s.digest = digest

OverCap(l) == l.cap # None /\ Committed(l) > l.cap

\* Defect: a cost that is not known settles the request as if it had been free.
ChargeOfUnknownIsZero(row) == IF row.complete /\ row.micros # None THEN row.micros ELSE 0

\* The normalized cost of a row: unknown unless the row is complete.
ChargeOf(row) == IF row.complete THEN row.micros ELSE None

AfterSettle(l, row) ==
  IF row.requestId \in ReservedIds(l) \ SettledIds(l) /\ ChargeOf(row) # None
  THEN Moved(l, row.requestId, ChargeOf(row), <<"usage", row>>)
  ELSE l

\* The error settle reports; only the last one comes with a changed ledger.
SettleError(l, row) ==
  IF row.requestId \in SettledIds(l)
  THEN IF SettledAs(l, row.requestId, <<"usage", row>>) THEN None ELSE "USAGE_CONFLICT"
  ELSE IF row.requestId \notin ReservedIds(l) THEN "INVARIANT_VIOLATION"
  ELSE IF ChargeOf(row) = None THEN "USAGE_INCOMPLETE"
  ELSE IF OverCap(AfterSettle(l, row)) THEN "BUDGET_EXHAUSTED" ELSE None

\* Defect: a confirmation above the reservation is credited in full.
SpentAtLeast(reserved, unspent) == reserved - unspent

\* What is left of a reservation once the proven-unspent part is released.
Spent(reserved, unspent) == IF unspent >= reserved THEN 0 ELSE reserved - unspent

\* releaseUnspent: unspent is what the host proved unspent, None for no proof at all.
AfterRelease(l, id, unspent) ==
  IF id \in ReservedIds(l) \ SettledIds(l) /\ unspent # None
  THEN LET r == CHOOSE x \in l.reservations : x.requestId = id
       IN Moved(l, id, Spent(r.micros, unspent), <<"release", unspent>>)
  ELSE l

ReleaseError(l, id, unspent) ==
  IF id \in SettledIds(l)
  THEN IF unspent # None /\ SettledAs(l, id, <<"release", unspent>>) THEN None ELSE "USAGE_CONFLICT"
  ELSE IF id \notin ReservedIds(l) THEN "INVARIANT_VIOLATION"
  ELSE IF unspent = None THEN "CANCEL_UNCONFIRMED" ELSE None

-----------------------------------------------------------------------------
(* Telemetry: what the usage rows prove about the requests that were charged. *)

\* normalizeUsage refuses a row that contradicts itself.
NormalizeError(row) ==
  IF ~row.coherent \/ (row.complete /\ ~row.sourced) THEN "USAGE_CONFLICT"
  ELSE IF row.complete /\ ~row.counted THEN "USAGE_INCOMPLETE" ELSE None

RowsOf(rows, id) == {row \in rows : row.requestId = id}

\* Every expected request has exactly one row, complete, sourced and with a cost, and no
\* row is of a request nobody expected.
UsageComplete(rows, expected) ==
  /\ \A id \in expected :
       \E row \in rows : /\ RowsOf(rows, id) = {row}
                         /\ row.complete /\ row.sourced /\ row.micros # None
  /\ \A row \in rows : row.requestId \in expected

KnownMicros(rows) ==
  MapThenSumSet(LAMBDA row : row.micros, {row \in rows : row.micros # None})
=============================================================================
