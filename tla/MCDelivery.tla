----------------------------- MODULE MCDelivery -----------------------------
(***************************************************************************)
(* An effect on its way: the journal that records and claims it, and the four  *)
(* bindings that carry it out.  They share no state: the initial state chooses one   *)
(* of them and the others stay at rest.  The properties are those of modules           *)
(* EventStore and Bindings.                                                             *)
(***************************************************************************)
EXTENDS EventStore, Bindings, TLC

-----------------------------------------------------------------------------
(* The journal: two effects that compete for one idempotency key, an effect of the next *)
(* epoch, the effect of a cancellation, and the requests and receipts that race over them. *)

CONSTANTS a1, a2, n1

MCKeys == {"k1", "k2", "k3"}
MCEffectIds == {"e1", "e2", "e3", "e4"}
MCReceiptIds == {"r0", "r1", "r2", "r3", "r4"}
MCClaimIds == {"c1", "c2"}
MCRequestIds == {"q1", "q2", "q3", "q4", "q5", "q6"}
MCEventIds == MCClaimIds \cup MCReceiptIds \cup {"i1", "i2", "i3", "i4", "x1", "x2", "t1", "t2"}
MCNodeStates == {"pending", "ready", "leased"}

Bound(ep, at) == [epoch |-> ep, attempt |-> at]

E1 == [effectId |-> "e1", key |-> "k1", binding |-> Bound(1, a1)]
E2 == [effectId |-> "e2", key |-> "k1", binding |-> Bound(1, a1)]
E3 == [effectId |-> "e3", key |-> "k2", binding |-> Bound(2, a1)]
E4 == [effectId |-> "e4", key |-> "k3", binding |-> Bound(1, a1)]

Outcome(id, e, b, status, seen) ==
  [receiptId |-> id, effectId |-> e, binding |-> b, status |-> status, observed |-> seen]

\* A withdrawal the caller writes itself, an outcome and its contradiction under one id,
\* an outcome that is unknown, one of another attempt, one of the next epoch's effect.
R0 == Outcome("r0", "e1", Bound(1, a1), "not-executed", TRUE)
MCReceivable ==
  {Outcome("r1", "e1", Bound(1, a1), "completed", TRUE),
   Outcome("r1", "e1", Bound(1, a1), "failed", TRUE),
   Outcome("r2", "e1", Bound(1, a1), "unknown", FALSE),
   Outcome("r3", "e1", Bound(1, a2), "completed", TRUE),
   Outcome("r4", "e3", Bound(2, a1), "completed", TRUE),
   Outcome("r4", "e3", Bound(2, a1), "completed", FALSE)}

Move(eventId, ep, before, after) ==
  [PlainDraft("node.transition", eventId, ep, Absent) EXCEPT
     !.node = n1, !.before = before, !.after = after]

Batch(q, ep, drafts, fs, rs) ==
  [requestId |-> q, epoch |-> ep, drafts |-> drafts, effects |-> fs, receipts |-> rs]

Intend(eventId, ep, e) == PlainDraft("effect.intended", eventId, ep, e)
NewEpoch(eventId, ep) == PlainDraft("session.epoch-changed", eventId, ep, Absent)

Withdrawal == [PlainDraft("receipt.applied", "r0", 1, "e1") EXCEPT !.receiptId = "r0"]

MCAppends ==
  {\* an intention with the transition that led to it
   Batch("q1", 1, <<Move("t1", 1, "pending", "leased"), Intend("i1", 1, "e1")>>, {E1}, {}),
   \* the same request id with another content
   Batch("q1", 1, <<Intend("i2", 1, "e2")>>, {E2}, {}),
   \* another effect under the same idempotency key
   Batch("q2", 1, <<Intend("i2", 1, "e2")>>, {E2}, {}),
   \* a new epoch and its first intention
   Batch("q3", 2, <<NewEpoch("x1", 2), Intend("i3", 2, "e3")>>, {E3}, {}),
   \* a second session's resume to the same epoch, and an epoch change behind an event of it
   Batch("q4", 2, <<NewEpoch("x2", 2)>>, {}, {}),
   Batch("q4", 2, <<Move("t2", 2, "leased", "ready"), NewEpoch("x2", 2)>>, {}, {}),
   \* the withdrawal of an intention nobody claimed
   Batch("q5", 1, <<Withdrawal>>, {}, {R0}),
   \* the same as part of a cancellation, which intends an effect of its own
   Batch("q5", 1, <<Withdrawal, Intend("i4", 1, "e4")>>, {E4}, {R0}),
   \* content without its intention, an intention without its content
   Batch("q6", 1, <<PlainDraft("session.paused", "x2", 1, Absent)>>, {E2}, {}),
   Batch("q6", 1, <<Intend("i2", 1, "e2")>>, {}, {}),
   \* a transition from a state the node may have left, and one under a used event id
   Batch("q6", 1, <<Move("t2", 1, "pending", "ready")>>, {}, {}),
   Batch("q6", 1, <<Move("t1", 1, "leased", "ready")>>, {}, {})}

-----------------------------------------------------------------------------
(* The bindings.                                                                  *)

CONSTANTS d1, d2, s0, s1, s2, q1, q2, f1, k1, c1, c2, x1, x2, t1, t2

\* A turn that went well, a request that failed before it was sent, an aborted one, and one
\* whose counts disagree.
Message(stop, source, spent, total) ==
  [stop |-> stop, source |-> source, input |-> spent, cacheRead |-> 0, cacheWrite |-> 0,
   output |-> spent, reasoning |-> 0, total |-> total]
MCMessages ==
  {Message("stop", "sdk", 1, 2), Message("error", "sdk", 0, 0), Message("aborted", "provider", 1, 2),
   Message("stop", "sdk", 1, 3)}

MCPolicy ==
  [category |-> "development", authorized |-> FALSE, priced |-> TRUE, cap |-> 6,
   reservePerRequest |-> 2, maxRequests |-> 3, maxConcurrent |-> 2]
MCScope == [workspace |-> "w", reads |-> {"a"}, writes |-> {"a"}, artifacts |-> {}, domain |-> "d"]
MCBudget(requests, usd) ==
  [pool |-> "pool", category |-> "development", authorization |-> Nil, price |-> "p",
   requests |-> requests, input |-> 1, output |-> 1, usd |-> usd, wall |-> 1, concurrent |-> 1]
MCGrant ==
  [id |-> "g", scope |-> MCScope, budget |-> MCBudget(3, 6), expires |-> 2, depth |-> 1,
   concurrency |-> 2, revoked |-> FALSE]

\* Two effects under a ceiling that pays for one request in all, and the same without a ceiling
\* of its own, which the parent's grant does not admit.
MCPlan(usd) ==
  [request |-> [id |-> "c", scope |-> MCScope, budget |-> MCBudget(2, usd), expires |-> 1, depth |-> 0,
                concurrency |-> 1],
   effects |-> 2, retained |-> TRUE]
MCPlans == {MCPlan(2), MCPlan(Nil)}
MCDeadline == [d \in ChildDelegations |-> 1]
MCRows ==
  {[requestId |-> q, complete |-> TRUE, counted |-> TRUE, coherent |-> TRUE, sourced |-> TRUE,
    micros |-> 1] : q \in ProviderRequests}

\* One delegation to a new teammate, one handed to a member.
MCTarget == (x1 :> c1) @@ (x2 :> c2)

Interchangeable == Permutations({s1, s2}) \cup Permutations(ChildDelegations)

-----------------------------------------------------------------------------
VARIABLE carrier

piSession == <<piBinding, live, piTurn, piRun, abort, memo, entries, expired, prompts, piTold, piReissued, marred,
    piUpsets>>
piChildren ==
  <<now, childrenOpen, childRecords, childEntries, childRun, fate, calls, ledger, owners, usage, childTold, closing,
    childUpsets>>
dshSession ==
  <<journal, installed, hooked, agent, entry, op, stray, turn, inbox, given, readmitted, dshTold, shaken, dshUpsets>>
dshTeam ==
  <<teamOpen, held, teamRecords, teamRun, team, turns, messages, transcript, tools, sent, stopping,
    teamTold, strays, lost, teamUpsets>>

DeliveryInit ==
  /\ carrier \in {"journal", "pi", "pi children", "dsh", "dsh team"}
  /\ StoreInit /\ Pi!Init /\ Child!Init /\ Dsh!Init /\ Team!Init
  /\ held = {} <=> carrier # "dsh team"
  /\ held # {x1, x2}

DeliveryNext ==
  \/ carrier = "journal" /\ StoreNext /\ UNCHANGED <<carrier, piSession, piChildren, dshSession, dshTeam>>
  \/ carrier = "pi" /\ Pi!Next /\ UNCHANGED <<carrier, session, piChildren, dshSession, dshTeam>>
  \/ carrier = "pi children" /\ Child!Next /\ UNCHANGED <<carrier, session, piSession, dshSession, dshTeam>>
  \/ carrier = "dsh" /\ Dsh!Next /\ UNCHANGED <<carrier, session, piSession, piChildren, dshTeam>>
  \/ carrier = "dsh team" /\ Team!Next /\ UNCHANGED <<carrier, session, piSession, piChildren, dshSession>>

DeliverySpec ==
  DeliveryInit /\ [][DeliveryNext]_<<carrier, session, piSession, piChildren, dshSession, dshTeam>>
=============================================================================
