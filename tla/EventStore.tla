----------------------------- MODULE EventStore -----------------------------
(***************************************************************************)
(* The session journal of the kernel: one record per session, advanced by   *)
(* exactly one transaction (commitBatch), and an outbox that is nothing but *)
(* a projection of the journal.  Callers race by submitting requests that   *)
(* were computed at an older revision or epoch, by submitting one request   *)
(* twice, and by delivering the receipts of a host late, twice or out of    *)
(* order; the store commits a request whole or leaves the record alone.     *)
(*                                                                          *)
(* Identities are opaque; a digest is modelled by the content it is taken   *)
(* of.  A refused request changes nothing and is therefore no step.         *)
(***************************************************************************)
EXTENDS Integers, Sequences, FiniteSets

CONSTANTS
  EffectIds, Keys, ReceiptIds, Attempts, Nodes, NodeStates,
  EventIds,      \* includes ClaimIds and ReceiptIds: both are used as event ids
  AppendIds,    \* request ids chosen by callers of append
  ClaimIds,
  Appends,       \* the requests callers submit through append
  Receivable,    \* the receipt contents a host may deliver
  InitialEpoch,  \* the epoch createSession is called with
  MaxEpoch,      \* bound: the largest epoch a caller names
  MaxRevision,   \* bound: the journal stops growing at this revision
  Absent           \* the absent member of a payload

Statuses == {"completed", "failed", "cancelled", "not-executed", "unknown"}

EventTypes ==
  {"effect.intended", "effect.dispatched", "receipt.applied", "receipt.archived",
   "session.epoch-changed", "node.transition", "session.paused", "session.resumed",
   "session.cancel-requested", "session.cancel-confirmed"}

Epochs == 1..MaxEpoch

\* The execution an effect was intended by and a receipt claims to report on.
Binding == [epoch : Epochs, attempt : Attempts]

Effect == [effectId : EffectIds, key : Keys, binding : Binding]

Receipt == [receiptId : ReceiptIds, effectId : EffectIds, binding : Binding,
            status : Statuses, observed : BOOLEAN]

Draft == [type : EventTypes, eventId : EventIds, epoch : Epochs,
          effectId : EffectIds \cup {Absent}, receiptId : ReceiptIds \cup {Absent},
          node : Nodes \cup {Absent}, before : NodeStates \cup {Absent},
          after : NodeStates \cup {Absent}]

\* A committed event: a draft with the positions the journal assigned to it.
Event == [draft : Draft, sequence : Nat, revision : Nat]

\* The namespaces of request ids: append's callers, dispatch:<claim>, receipt:<receipt>.
RequestKeys == ({"append"} \X AppendIds) \cup ({"dispatch"} \X ClaimIds)
                 \cup ({"receipt"} \X ReceiptIds)

Request == [expectedRevision : Nat, epoch : Epochs, drafts : Seq(Draft),
            effects : SUBSET Effect, receipts : SUBSET Receipt]

SessionRecord ==
  [epoch : Epochs, revision : Nat, lastSequence : Nat \cup {-1}, events : Seq(Event),
   effects : SUBSET Effect, receipts : SUBSET Receipt,
   requests : Seq([requestId : RequestKeys, request : Request])]

ASSUME ConstantsAssumption ==
  /\ MaxEpoch \in Nat /\ MaxRevision \in Nat /\ InitialEpoch \in Epochs
  /\ ClaimIds \subseteq EventIds /\ ReceiptIds \subseteq EventIds
  /\ Receivable \subseteq Receipt
  /\ Appends \subseteq [requestId : AppendIds, epoch : Epochs, drafts : Seq(Draft),
                        effects : SUBSET Effect, receipts : SUBSET Receipt]

\* What every caller of append keeps to: claims are written by dispatchEffect alone, and a
\* receipt is applied with its content and under the binding its effect was intended with.
ASSUME CallersAssumption ==
  \A a \in Appends : \A i \in DOMAIN a.drafts :
    /\ a.drafts[i].type # "effect.dispatched"
    /\ a.drafts[i].type = "receipt.applied" =>
         \E r \in a.receipts :
           /\ r.receiptId = a.drafts[i].receiptId /\ r.effectId = a.drafts[i].effectId
           /\ \A b \in Appends : \A f \in b.effects :
                f.effectId = r.effectId => f.binding = r.binding

VARIABLE session

storeVars == <<session>>

-----------------------------------------------------------------------------
(* The outbox: the state of an effect is what the last event that moves it says. *)

MaxOf(S) == CHOOSE i \in S : \A j \in S : j <= i

TypeAt(log, i) == log[i].draft.type

\* The positions of the events that move effect e; receipt.archived moves nothing.
Moves(log, e) ==
  {i \in DOMAIN log :
     /\ log[i].draft.effectId = e
     /\ TypeAt(log, i) \in {"effect.intended", "effect.dispatched", "receipt.applied"}}

MovesBefore(log, e, i) == {j \in Moves(log, e) : j < i}

ReceiptSaysUnknown(rs, id) == \E r \in rs : r.receiptId = id /\ r.status = "unknown"

\* Defect: the claim does not move the effect out of the outbox.
StateAfterUnclaimed(log, rs, i) ==
  IF TypeAt(log, i) \in {"effect.intended", "effect.dispatched"} THEN "intended"
  ELSE IF ReceiptSaysUnknown(rs, log[i].draft.receiptId) THEN "unknown" ELSE "resolved"

\* Defect: an unknown outcome makes the effect sendable again.
StateAfterRetry(log, rs, i) ==
  CASE TypeAt(log, i) = "effect.intended"   -> "intended"
    [] TypeAt(log, i) = "effect.dispatched" -> "dispatched"
    [] OTHER -> IF ReceiptSaysUnknown(rs, log[i].draft.receiptId) THEN "intended" ELSE "resolved"

StateAfter(log, rs, i) ==
  CASE TypeAt(log, i) = "effect.intended"   -> "intended"
    [] TypeAt(log, i) = "effect.dispatched" -> "dispatched"
    [] OTHER -> IF ReceiptSaysUnknown(rs, log[i].draft.receiptId) THEN "unknown" ELSE "resolved"

Entry(s, e) ==
  IF Moves(s.events, e) = {} THEN "absent"
  ELSE StateAfter(s.events, s.receipts, MaxOf(Moves(s.events, e)))

\* The projection succeeds: an effect is intended once and with content, claimed only
\* while intended, and a receipt follows an intention and has content.
OutboxOk(log, fs, rs) ==
  \A i \in DOMAIN log :
    LET d == log[i].draft
        prior == MovesBefore(log, d.effectId, i)
    IN /\ d.type = "effect.intended" =>
            prior = {} /\ \E f \in fs : f.effectId = d.effectId
       /\ d.type = "effect.dispatched" =>
            prior # {} /\ StateAfter(log, rs, MaxOf(prior)) = "intended"
       /\ d.type = "receipt.applied" =>
            prior # {} /\ \E r \in rs : r.receiptId = d.receiptId
       /\ d.type = "receipt.archived" => d.receiptId # Absent

BindingOf(s, e) == (CHOOSE f \in s.effects : f.effectId = e).binding

NextEffects(s) ==
  {f \in s.effects : Entry(s, f.effectId) = "intended" /\ f.binding.epoch = s.epoch}

-----------------------------------------------------------------------------
(* Replay: the journal must stay one that the reducer accepts.               *)

\* The epoch a replay of the whole journal starts from.
Baseline(log) ==
  IF TypeAt(log, 1) = "session.epoch-changed" THEN log[1].draft.epoch - 1 ELSE log[1].draft.epoch

TransitionsBefore(log, n, i) ==
  {j \in DOMAIN log : j < i /\ TypeAt(log, j) = "node.transition" /\ log[j].draft.node = n}

EpochBefore(log, start, i) == IF i = 1 THEN start ELSE log[i - 1].draft.epoch

RevisionBefore(log, i) == IF i = 1 THEN 0 ELSE log[i - 1].revision

\* The reducer accepts event i: no sequence gap, revisions by steps of one, a strictly
\* advancing epoch change and no event of another epoch, chained node transitions.
ReplaysAt(log, start, i) ==
  LET d == log[i].draft
      prior == TransitionsBefore(log, d.node, i)
  IN /\ log[i].sequence = i - 1
     /\ log[i].revision \in {RevisionBefore(log, i), RevisionBefore(log, i) + 1}
     /\ IF d.type = "session.epoch-changed"
        THEN d.epoch > EpochBefore(log, start, i)
        ELSE d.epoch = EpochBefore(log, start, i)
     /\ d.type = "node.transition" =>
          /\ d.node # Absent /\ d.after # Absent
          /\ prior # {} => d.before = log[MaxOf(prior)].draft.after

ReplayOk(log, start) == \A i \in DOMAIN log : ReplaysAt(log, start, i)

-----------------------------------------------------------------------------
(* The transaction.                                                          *)

NewSession(e) ==
  [epoch |-> e, revision |-> 0, lastSequence |-> -1, events |-> <<>>,
   effects |-> {}, receipts |-> {}, requests |-> <<>>]

ChangesEpoch(req) == \E i \in DOMAIN req.drafts : req.drafts[i].type = "session.epoch-changed"

Stamped(s, drafts) ==
  [i \in DOMAIN drafts |->
     [draft |-> drafts[i], sequence |-> s.lastSequence + i, revision |-> s.revision + 1]]

\* The journal once the request is committed.
LogAfter(s, req) == s.events \o Stamped(s, req.drafts)

NotYetCommitted(s, id) == \A i \in DOMAIN s.requests : s.requests[i].requestId # id

\* Defect: a request computed at an earlier revision is accepted.
AtEarlierRevision(s, req) == req.expectedRevision <= s.revision

AtCurrentRevision(s, req) == req.expectedRevision = s.revision

AtOneEpoch(s, req) ==
  /\ ChangesEpoch(req) \/ req.epoch = s.epoch
  /\ \A i \in DOMAIN req.drafts : req.drafts[i].epoch = req.epoch

EventIdsFresh(s, req) ==
  /\ \A i, j \in DOMAIN req.drafts :
       req.drafts[i].eventId = req.drafts[j].eventId => i = j
  /\ \A i \in DOMAIN req.drafts, j \in DOMAIN s.events :
       req.drafts[i].eventId # s.events[j].draft.eventId

Intentions(req, e) ==
  {i \in DOMAIN req.drafts :
     req.drafts[i].type = "effect.intended" /\ req.drafts[i].effectId = e}

\* Defect: an idempotency key may serve a second effect.
NewEffectId(s, f) == \A g \in s.effects : g.effectId # f.effectId

NewEffect(s, f) == \A g \in s.effects : g.effectId # f.effectId /\ g.key # f.key

\* Every new effect is new, shares the transaction with exactly one intention, and its
\* idempotency key belongs to no other effect; every intention brings its content.
EffectsPlanned(s, req) ==
  /\ \A f, g \in req.effects : f.effectId = g.effectId \/ f.key = g.key => f = g
  /\ \A f \in req.effects :
       /\ NewEffect(s, f)
       /\ \E i \in DOMAIN req.drafts : Intentions(req, f.effectId) = {i}
  /\ \A i \in DOMAIN req.drafts :
       req.drafts[i].type = "effect.intended" =>
         \E f \in req.effects : f.effectId = req.drafts[i].effectId

ReferencedReceipts(req) ==
  {req.drafts[i].receiptId :
     i \in {j \in DOMAIN req.drafts :
              req.drafts[j].type \in {"receipt.applied", "receipt.archived"}}}

\* A committed receipt never changes its content; a new one is referenced by a receipt
\* event of the transaction, and every receipt event references a known receipt.
ReceiptsPlanned(s, req) ==
  /\ \A r, q \in req.receipts : r.receiptId = q.receiptId => r = q
  /\ \A r \in req.receipts :
       \/ r \in s.receipts
       \/ /\ \A q \in s.receipts : q.receiptId # r.receiptId
          /\ r.receiptId \in ReferencedReceipts(req)
  /\ \A id \in ReferencedReceipts(req) :
       \E r \in s.receipts \cup req.receipts : r.receiptId = id

Admissible(s, id, req) ==
  LET log == LogAfter(s, req)
      start == IF s.events = <<>> THEN s.epoch ELSE Baseline(s.events)
  IN /\ req.drafts # <<>>
     /\ NotYetCommitted(s, id)
     /\ AtCurrentRevision(s, req)
     /\ AtOneEpoch(s, req)
     /\ EventIdsFresh(s, req)
     /\ EffectsPlanned(s, req)
     /\ ReceiptsPlanned(s, req)
     /\ ReplayOk(log, start)
     /\ OutboxOk(log, s.effects \cup req.effects, s.receipts \cup req.receipts)

\* Defect: the cached epoch is not advanced with the journal.
EpochKept(s, req) == s.epoch

EpochAfter(s, req) == IF ChangesEpoch(req) THEN req.epoch ELSE s.epoch

AfterCommit(s, id, req) ==
  [epoch        |-> EpochAfter(s, req),
   revision     |-> s.revision + 1,
   lastSequence |-> s.lastSequence + Len(req.drafts),
   events       |-> LogAfter(s, req),
   effects      |-> s.effects \cup req.effects,
   receipts     |-> s.receipts \cup req.receipts,
   requests     |-> Append(s.requests, [requestId |-> id, request |-> req])]

\* A repeated submission is answered with the first outcome and, like a refusal, is no step.
CommitBatch(id, req) ==
  /\ Admissible(session, id, req)
  /\ session' = AfterCommit(session, id, req)

-----------------------------------------------------------------------------
(* The operations of the port.                                               *)

\* append: a caller submits a request it computed at revision rev.
AppendRequest(a, rev) ==
  CommitBatch(<<"append", a.requestId>>,
              [expectedRevision |-> rev, epoch |-> a.epoch, drafts |-> a.drafts,
               effects |-> a.effects, receipts |-> a.receipts])

PlainDraft(type, eventId, ep, e) ==
  [type |-> type, eventId |-> eventId, epoch |-> ep, effectId |-> e, receiptId |-> Absent,
   node |-> Absent, before |-> Absent, after |-> Absent]

\* dispatchEffect: claim an intended effect of the session's epoch before the host is called.
DispatchEffect(e, claim, ep, rev) ==
  /\ Entry(session, e) = "intended"
  /\ BindingOf(session, e).epoch = session.epoch
  /\ CommitBatch(<<"dispatch", claim>>,
                 [expectedRevision |-> rev, epoch |-> ep,
                  drafts |-> <<PlainDraft("effect.dispatched", claim, ep, e)>>,
                  effects |-> {}, receipts |-> {}])

\* Defect: the receipt of another attempt of the same epoch is taken for current.
IsOfOtherEpoch(s, r, ep) == r.binding.epoch # ep

IsStale(s, r, ep) == r.binding.epoch # ep \/ r.binding # BindingOf(s, r.effectId)

\* applyReceipt: a new receipt for a claimed effect is applied, or kept as evidence when
\* it reports on another epoch or another execution.
ApplyReceipt(r, ep, rev) ==
  /\ \A q \in session.receipts : q.receiptId # r.receiptId
  /\ Entry(session, r.effectId) \in {"dispatched", "unknown"}
  /\ r.status # "unknown" => r.observed
  /\ LET type == IF IsStale(session, r, ep) THEN "receipt.archived" ELSE "receipt.applied"
     IN CommitBatch(<<"receipt", r.receiptId>>,
          [expectedRevision |-> rev, epoch |-> ep,
           drafts |-> <<[PlainDraft(type, r.receiptId, ep, r.effectId) EXCEPT
                           !.receiptId = r.receiptId]>>,
           effects |-> {}, receipts |-> {r}])

\* reconcileEffect: only an observed outcome may move a claimed effect.
ReconcileEffect(r, ep, rev) ==
  /\ r.status # "unknown" /\ r.observed
  /\ ApplyReceipt(r, ep, rev)

-----------------------------------------------------------------------------

StoreInit == session = NewSession(InitialEpoch)

Revisions == 0..session.revision

StoreNext ==
  /\ session.revision < MaxRevision
  /\ \/ \E a \in Appends, rev \in Revisions : AppendRequest(a, rev)
     \/ \E e \in EffectIds, c \in ClaimIds, ep \in Epochs, rev \in Revisions :
          DispatchEffect(e, c, ep, rev)
     \/ \E r \in Receivable, ep \in Epochs, rev \in Revisions : ApplyReceipt(r, ep, rev)
     \/ \E r \in Receivable, ep \in Epochs, rev \in Revisions : ReconcileEffect(r, ep, rev)

StoreSpec == StoreInit /\ [][StoreNext]_storeVars

-----------------------------------------------------------------------------
(* Correctness.                                                              *)

RecordTyped == session \in SessionRecord

\* The outbox of the record: what nextEffects, dispatchTo and applyReceiptTo project.
OutboxProjects == OutboxOk(session.events, session.effects, session.receipts)

\* The epoch, revision and last sequence of a record are those its log replays to.
ReplaysToCache(log, epoch, revision, lastSequence) ==
  /\ lastSequence = Len(log) - 1
  /\ Len(log) = 0 => revision = 0
  /\ Len(log) > 0 => /\ ReplayOk(log, Baseline(log))
                     /\ epoch = log[Len(log)].draft.epoch
                     /\ revision = log[Len(log)].revision

\* The journal always replays and its outbox always projects, and replaying it yields
\* exactly the epoch, revision and last sequence the record caches: commitBatch updates
\* the caches, the log and the content together or not at all.
JournalReplays ==
  /\ ReplaysToCache(session.events, session.epoch, session.revision, session.lastSequence)
  /\ OutboxProjects

\* At most one claim of an effect is ever committed, whatever the number of callers and
\* however stale their view: projectOutbox and dispatchTo keep "it must never be sent again".
AtMostOneClaim ==
  \A i, j \in DOMAIN session.events :
    /\ TypeAt(session.events, i) = "effect.dispatched"
    /\ TypeAt(session.events, j) = "effect.dispatched"
    /\ session.events[i].draft.effectId = session.events[j].draft.effectId
    => i = j

EventsOfRevision(log, i) == {j \in DOMAIN log : log[j].revision = i}

\* The i-th request was computed at the revision before and made exactly the events of its own.
ProducedBy(log, i, req) ==
  /\ req.expectedRevision = i - 1
  /\ \E first \in 0..Len(log) :
       /\ EventsOfRevision(log, i) = (first + 1)..(first + Len(req.drafts))
       /\ \A k \in DOMAIN req.drafts : log[first + k].draft = req.drafts[k]

\* The committed requests form one serial history: the i-th was computed at the revision
\* it extends and produced exactly the events of revision i, so no update is lost.
SerialHistory ==
  /\ Len(session.requests) = session.revision
  /\ \A i \in DOMAIN session.requests :
       ProducedBy(session.events, i, session.requests[i].request)
  /\ \A i, j \in DOMAIN session.requests :
       session.requests[i].requestId = session.requests[j].requestId => i = j

IsReceiptEvent(log, i) == TypeAt(log, i) \in {"receipt.applied", "receipt.archived"}

IdentitiesUnique(fs, rs) ==
  /\ \A f, g \in fs : f.effectId = g.effectId \/ f.key = g.key => f = g
  /\ \A r, q \in rs : r.receiptId = q.receiptId => r = q

ContentJournaled(log, fs, rs) ==
  /\ \A f \in fs : \E i \in DOMAIN log :
       TypeAt(log, i) = "effect.intended" /\ log[i].draft.effectId = f.effectId
  /\ \A r \in rs : \E i \in DOMAIN log :
       IsReceiptEvent(log, i) /\ log[i].draft.receiptId = r.receiptId

EventsHaveContent(log, fs, rs) ==
  \A i \in DOMAIN log :
    /\ TypeAt(log, i) = "effect.intended" =>
         \E f \in fs : f.effectId = log[i].draft.effectId
    /\ IsReceiptEvent(log, i) => \E r \in rs : r.receiptId = log[i].draft.receiptId

\* Journal and content never drift apart: every effect and receipt the record holds is
\* referenced by its event, every such event finds its content, and no identity or
\* idempotency key is ever bound to two contents (planEffects, planReceipts).
ContentMatchesJournal ==
  /\ IdentitiesUnique(session.effects, session.receipts)
  /\ ContentJournaled(session.events, session.effects, session.receipts)
  /\ EventsHaveContent(session.events, session.effects, session.receipts)

\* The draft of a claim is of its effect's epoch, that of an applied receipt of its binding.
NotStale(s, d) ==
  /\ d.type = "effect.dispatched" => BindingOf(s, d.effectId).epoch = d.epoch
  /\ d.type = "receipt.applied" =>
       \E r \in s.receipts :
         /\ r.receiptId = d.receiptId
         /\ r.effectId = d.effectId
         /\ r.binding = BindingOf(s, d.effectId)

\* No committed claim or applied receipt is of another epoch than the effect's, and an
\* outcome reported for another execution (another attempt) never settles the effect.
NothingStaleMovesAnEffect ==
  \A i \in DOMAIN session.events : NotStale(session, session.events[i].draft)

-----------------------------------------------------------------------------
(* The journal and its projection implement the delivery they promise.       *)

HomeOf(s, e) == IF Entry(s, e) = "absent" THEN 0 ELSE BindingOf(s, e).epoch

Delivery == INSTANCE EffectDelivery
  WITH epoch <- session.epoch,
       phase <- [e \in EffectIds |-> Entry(session, e)],
       home  <- [e \in EffectIds |-> HomeOf(session, e)]

\* Every transaction the store commits is a step of the abstract delivery or leaves it
\* alone: no order of stale, repeated and racing requests makes an effect sendable again.
ImplementsDelivery == Delivery!Spec
=============================================================================
