----------------------------- MODULE BudgetPool -----------------------------
(***************************************************************************)
(* One pool under the callers that share it: requests are reserved before   *)
(* they are dispatched, and telemetry and confirmed cancellations arrive    *)
(* late, twice, contradicting each other, or for a request nobody reserved. *)
(***************************************************************************)
EXTENDS Budget

CONSTANTS
  Policies,   \* the budgets a pool may be opened for
  Rows        \* the usage rows receipts may carry

VARIABLES
  ledger,
  rows,       \* the usage rows settle was called with for a charged request
  proofs      \* the confirmed cancellations releaseUnspent accepted

poolVars == <<ledger, rows, proofs>>

ASSUME PoolAssumption ==
  /\ Policies \subseteq Policy /\ Rows \subseteq Usage
  /\ Micros \subseteq Nat /\ None \notin Nat \cup {"INVARIANT_VIOLATION"}

PoolInit ==
  /\ \E p \in Policies : CanOpen(p) /\ ledger = OpenLedger(p)
  /\ rows = {} /\ proofs = {}

\* A refused or repeated reservation changes nothing and is no step.
Reserve(id) ==
  /\ ~Charged(ledger, id) /\ HasRoom(ledger)
  /\ ledger' = AfterReserve(ledger, id)
  /\ UNCHANGED <<rows, proofs>>

\* A row reaches settle only once it is normalized.
Settle(row) ==
  /\ NormalizeError(row) = None
  /\ ledger' = AfterSettle(ledger, row)
  /\ rows' = IF SettleError(ledger, row) = "INVARIANT_VIOLATION" THEN rows
             ELSE rows \cup {row}
  /\ UNCHANGED proofs

Release(id, unspent) ==
  /\ ledger' = AfterRelease(ledger, id, unspent)
  /\ proofs' = IF ReleaseError(ledger, id, unspent) # None THEN proofs
               ELSE proofs \cup {[requestId |-> id, unspent |-> unspent]}
  /\ UNCHANGED rows

PoolNext ==
  \/ \E id \in RequestIds : Reserve(id)
  \/ \E row \in Rows : Settle(row)
  \/ \E id \in RequestIds, unspent \in Micros \cup {None} : Release(id, unspent)

PoolSpec == PoolInit /\ [][PoolNext]_poolVars

-----------------------------------------------------------------------------

TypeOK ==
  /\ ledger \in Ledger
  /\ rows \subseteq Rows
  /\ proofs \subseteq [requestId : RequestIds, unspent : Micros \cup {None}]

\* Each request is charged to the pool once: it is outstanding or settled, never both and
\* never twice, and requestCount (reserve, budget.ts) is the number of requests charged.
ChargedOnce ==
  /\ \A r, q \in ledger.reservations : r.requestId = q.requestId => r = q
  /\ \A s, t \in ledger.settlements : s.requestId = t.requestId => s = t
  /\ ReservedIds(ledger) \cap SettledIds(ledger) = {}
  /\ ledger.requestCount = Cardinality(ledger.reservations) + Cardinality(ledger.settlements)
  /\ ledger.requestCount <= ledger.maxRequests
  /\ Cardinality(ledger.reservations) <= ledger.maxConcurrent

\* Hosts may report more than was reserved, and it is recorded, not hidden.  The pool can
\* still overrun its cap only by the excess of the requests in flight when it filled up.
\* With no row above the reservation this is: the pool never exceeds its cap.
OverrunBounded ==
  LET excess == {row.micros - ledger.reservePerRequest :
                   row \in {r \in rows : r.complete /\ r.micros # None}} \cup {0}
      worst == CHOOSE m \in excess : \A n \in excess : n <= m
  IN ledger.cap # None =>
       Committed(ledger) <= ledger.cap
         + (ledger.maxConcurrent - Cardinality(ledger.reservations)) * worst

\* Spend does not disappear: a request is settled for the cost a complete row reported, or
\* for what is left after a release somebody proved; a missing measurement is never zero.
SettledOnEvidence ==
  \A s \in ledger.settlements :
    \/ \E row \in rows : /\ row.requestId = s.requestId /\ row.complete
                         /\ row.micros = s.micros
    \/ \E p \in proofs : /\ p.requestId = s.requestId /\ p.unspent # None
                         /\ s.micros = IF p.unspent >= ledger.reservePerRequest THEN 0
                                       ELSE ledger.reservePerRequest - p.unspent

\* Telemetry and ledger agree: rows that are complete for every charged request (the test
\* of usageCompleteness) leave nothing outstanding, and without a release they add up to
\* what the pool settled.
CompleteUsageExplainsSpend ==
  LET charged == ReservedIds(ledger) \cup SettledIds(ledger) IN
    (UsageComplete(rows, charged) /\ proofs = {})
      => /\ ledger.reservations = {}
         /\ KnownMicros(rows) = SettledMicros(ledger)

\* The overrun is bounded by what was in flight, and complete usage explains what was spent.
SpendIsExplained == OverrunBounded /\ CompleteUsageExplainsSpend

\* What the comment of BudgetSnapshot.exhausted says: it is true when no further
\* reservation of the per-request worst case can be admitted.
ExhaustedWhenFull == ~HasRoom(ledger) => Exhausted(ledger)
=============================================================================
