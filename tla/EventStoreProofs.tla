--------------------------- MODULE EventStoreProofs ---------------------------
(***************************************************************************)
(* Safety of the session journal for every set of identities, every set of   *)
(* requests callers may submit, every set of receipts a host may deliver and *)
(* every bound.  All operations advance the record by one CommitBatch, so    *)
(* each invariant is shown once for a commit (steps <1>2 below).  Then what  *)
(* the journal does to external effects: nothing stale moves one, and the    *)
(* store implements the delivery of module EffectDelivery.  Last, recovery:  *)
(* the record is what its own requests make, so an export comes back as it   *)
(* was or not at all, and a snapshot never changes the projection.           *)
(***************************************************************************)
EXTENDS StoreRecovery, SequenceTheorems, FiniteSetTheorems, WellFoundedInduction, TLAPS

-----------------------------------------------------------------------------
(* The maximum of a set of journal positions.                                *)

\* A nonempty set of positions of a journal has a largest element, and MaxOf returns it:
\* "the last event that moves an effect" (outbox.ts folds the log in order) is well defined.
LEMMA MaxOfPositions ==
  ASSUME NEW n \in Nat, NEW S \in SUBSET (1..n), S # {}
  PROVE  MaxOf(S) \in S /\ \A j \in S : j <= MaxOf(S)
<1> DEFINE above(i) == (i+1)..n
           T == {above(i) : i \in S}
           fin == FiniteSubsetsOf(1..n)
<1>1. T \subseteq fin
  <2>1. \A i \in S : IsFiniteSet(above(i))
    BY FS_Interval
  <2> QED BY <2>1 DEF FiniteSubsetsOf
<1>2. T # {}
  OBVIOUS
<1>3. \E x \in T : \A y \in T : <<y, x>> \notin StrictSubsetOrdering(1..n)
  <2>1. IsWellFoundedOn(StrictSubsetOrdering(1..n), fin)
    BY FS_StrictSubsetOrderingWellFounded
  <2> HIDE DEF T, fin
  <2> QED BY <1>1, <1>2, <2>1, WFMin
<1>4. PICK i \in S : \A j \in S : <<above(j), above(i)>> \notin StrictSubsetOrdering(1..n)
  BY <1>3
<1>5. ASSUME NEW j \in S, ~(j <= i) PROVE FALSE
  <2>1. above(j) \subseteq above(i) /\ j \in above(i) /\ j \notin above(j)
    BY <1>5
  <2>2. above(j) # above(i)
    BY <2>1
  <2>3. <<above(j), above(i)>> \in (SUBSET (1..n)) \X (SUBSET (1..n))
    OBVIOUS
  <2>4. <<above(j), above(i)>> \in StrictSubsetOrdering(1..n)
    BY <2>1, <2>2, <2>3 DEF StrictSubsetOrdering
  <2> QED BY <1>4, <2>4
<1> QED BY <1>5 DEF MaxOf

-----------------------------------------------------------------------------
(* Every operation is one commit.                                            *)

\* Drafts built by dispatchTo and applyReceiptTo are drafts.
LEMMA DraftTyped ==
  ASSUME NEW type \in EventTypes, NEW eventId \in EventIds, NEW ep \in Epochs,
         NEW e \in EffectIds
  PROVE  /\ <<PlainDraft(type, eventId, ep, e)>> \in Seq(Draft)
         /\ \A id \in ReceiptIds :
              <<[PlainDraft(type, eventId, ep, e) EXCEPT !.receiptId = id]>> \in Seq(Draft)
BY DEF PlainDraft, Draft

\* append, dispatchEffect, applyReceipt and reconcileEffect change the record through
\* commitBatch alone, with a well-formed request ("the only function that mutates").
LEMMA NextCommits ==
  ASSUME RecordTyped, StoreNext
  PROVE  \E id \in RequestKeys, req \in Request : CommitBatch(id, req)
<1> USE ConstantsAssumption
<1>0. Revisions \subseteq Nat
  BY DEF Revisions, RecordTyped, SessionRecord
<1>1. CASE \E a \in Appends, rev \in Revisions : AppendRequest(a, rev)
  <2>1. PICK a \in Appends, rev \in Revisions : AppendRequest(a, rev)
    BY <1>1
  <2>2. <<"append", a.requestId>> \in RequestKeys
    BY DEF RequestKeys
  <2>3. [expectedRevision |-> rev, epoch |-> a.epoch, drafts |-> a.drafts,
         effects |-> a.effects, receipts |-> a.receipts] \in Request
    BY <1>0 DEF Request
  <2> QED BY <2>1, <2>2, <2>3 DEF AppendRequest
<1>2. CASE \E e \in EffectIds, c \in ClaimIds, ep \in Epochs, rev \in Revisions :
             DispatchEffect(e, c, ep, rev)
  <2>1. PICK e \in EffectIds, c \in ClaimIds, ep \in Epochs, rev \in Revisions :
               DispatchEffect(e, c, ep, rev)
    BY <1>2
  <2>2. <<"dispatch", c>> \in RequestKeys
    BY DEF RequestKeys
  <2>3. <<PlainDraft("effect.dispatched", c, ep, e)>> \in Seq(Draft)
    BY DraftTyped DEF EventTypes
  <2>4. [expectedRevision |-> rev, epoch |-> ep,
         drafts |-> <<PlainDraft("effect.dispatched", c, ep, e)>>,
         effects |-> {}, receipts |-> {}] \in Request
    BY <1>0, <2>3 DEF Request
  <2> QED BY <2>1, <2>2, <2>4 DEF DispatchEffect
<1>3. ASSUME NEW r \in Receivable, NEW ep \in Epochs, NEW rev \in Revisions,
             ApplyReceipt(r, ep, rev)
      PROVE  \E id \in RequestKeys, req \in Request : CommitBatch(id, req)
  <2> DEFINE type == IF IsStale(session, r, ep) THEN "receipt.archived" ELSE "receipt.applied"
             draft == [PlainDraft(type, r.receiptId, ep, r.effectId) EXCEPT
                         !.receiptId = r.receiptId]
             req == [expectedRevision |-> rev, epoch |-> ep, drafts |-> <<draft>>,
                     effects |-> {}, receipts |-> {r}]
  <2>1. r \in Receipt /\ r.receiptId \in ReceiptIds /\ r.effectId \in EffectIds
    BY DEF Receipt
  <2>2. <<"receipt", r.receiptId>> \in RequestKeys
    BY <2>1 DEF RequestKeys
  <2>3. <<draft>> \in Seq(Draft)
    <3>1. type \in EventTypes
      BY DEF EventTypes
    <3> HIDE DEF type
    <3> QED BY <2>1, <3>1, DraftTyped
  <2>4. req \in Request
    <3> HIDE DEF draft
    <3> QED BY <1>0, <2>1, <2>3 DEF Request
  <2>5. CommitBatch(<<"receipt", r.receiptId>>, req)
    BY <1>3 DEF ApplyReceipt
  <2> HIDE DEF req
  <2> QED BY <2>2, <2>4, <2>5
<1>4. ASSUME NEW r \in Receivable, NEW ep \in Epochs, NEW rev \in Revisions,
             ReconcileEffect(r, ep, rev)
      PROVE  \E id \in RequestKeys, req \in Request : CommitBatch(id, req)
  BY <1>3, <1>4 DEF ReconcileEffect
<1> QED BY <1>1, <1>2, <1>3, <1>4 DEF StoreNext

-----------------------------------------------------------------------------
(* Types.                                                                    *)

\* The drafts of a transaction get consecutive positions and one revision.
LEMMA StampedTyped ==
  ASSUME NEW s \in SessionRecord, NEW drafts \in Seq(Draft)
  PROVE  /\ Stamped(s, drafts) \in Seq(Event)
         /\ Len(Stamped(s, drafts)) = Len(drafts)
         /\ \A k \in 1..Len(drafts) :
              /\ Stamped(s, drafts)[k].draft = drafts[k]
              /\ Stamped(s, drafts)[k].sequence = s.lastSequence + k
              /\ Stamped(s, drafts)[k].revision = s.revision + 1
<1>1. s.lastSequence \in Nat \cup {-1} /\ s.revision \in Nat
  BY DEF SessionRecord
<1>2. Len(drafts) \in Nat /\ DOMAIN drafts = 1..Len(drafts)
      /\ \A k \in 1..Len(drafts) : drafts[k] \in Draft
  BY LenProperties, ElementOfSeq
<1>3. \A k \in 1..Len(drafts) :
        [draft |-> drafts[k], sequence |-> s.lastSequence + k, revision |-> s.revision + 1]
          \in Event
  BY <1>1, <1>2 DEF Event
<1>4. Stamped(s, drafts) \in [1..Len(drafts) -> Event]
  BY <1>2, <1>3 DEF Stamped
<1>5. Stamped(s, drafts) \in Seq(Event)
  BY <1>2, <1>4, SeqDef
<1>6. Len(Stamped(s, drafts)) = Len(drafts)
  BY <1>2, <1>4, <1>5, LenProperties
<1> QED BY <1>2, <1>5, <1>6 DEF Stamped

\* Where the elements of a concatenation come from.
LEMMA ConcatParts ==
  ASSUME NEW S, NEW a \in Seq(S), NEW b \in Seq(S), NEW c, c = a \o b,
         NEW n, n = Len(a), NEW m, m = Len(b)
  PROVE  /\ c \in Seq(S) /\ n \in Nat /\ m \in Nat /\ Len(c) = n + m
         /\ \A i \in 1..n : c[i] = a[i]
         /\ \A i \in (n+1)..(n+m) : i - n \in 1..m /\ c[i] = b[i - n]
<1>1. n \in Nat /\ m \in Nat
  BY LenProperties
<1>2. c \in Seq(S) /\ Len(c) = n + m
  BY ConcatProperties
<1>3. \A i \in 1..(n + m) : c[i] = IF i <= n THEN a[i] ELSE b[i - n]
  BY ConcatProperties
<1> QED BY <1>1, <1>2, <1>3

\* The log after a commit: the committed prefix, then the drafts with the positions
\* that follow it and the next revision.
LogParts(s, req, log, old, drafts, n, m) ==
  /\ log = LogAfter(s, req) /\ old = s.events /\ drafts = req.drafts
  /\ n = Len(old) /\ m = Len(drafts)
  /\ log \in Seq(Event) /\ n \in Nat /\ m \in Nat /\ Len(log) = n + m
  /\ \A i \in 1..n : log[i] = old[i]
  /\ \A i \in (n+1)..(n+m) :
       /\ i - n \in 1..m
       /\ log[i].draft = drafts[i - n]
       /\ log[i].sequence = s.lastSequence + (i - n)
       /\ log[i].revision = s.revision + 1

LEMMA LogAfterCommit ==
  ASSUME NEW s \in SessionRecord, NEW req \in Request
  PROVE  \E log, old, drafts, n, m : LogParts(s, req, log, old, drafts, n, m)
<1>1. PICK log, old, drafts, new, n, m :
        /\ log = LogAfter(s, req) /\ old = s.events /\ drafts = req.drafts
        /\ new = Stamped(s, drafts) /\ n = Len(old) /\ m = Len(drafts)
  OBVIOUS
<1>2. old \in Seq(Event) /\ drafts \in Seq(Draft)
  BY <1>1 DEF SessionRecord, Request
<1>3. /\ new \in Seq(Event) /\ m = Len(new)
      /\ \A k \in 1..m : /\ new[k].draft = drafts[k]
                         /\ new[k].sequence = s.lastSequence + k
                         /\ new[k].revision = s.revision + 1
  BY <1>1, <1>2, StampedTyped
<1>4. log = old \o new
  BY <1>1 DEF LogAfter
<1>5. n = Len(old) /\ m = Len(drafts) /\ new \in Seq(Event) /\ m = Len(new)
  BY <1>1, <1>3, Zenon
<1>6. /\ log \in Seq(Event) /\ n \in Nat /\ m \in Nat /\ Len(log) = n + m
      /\ \A i \in 1..n : log[i] = old[i]
      /\ \A i \in (n+1)..(n+m) : i - n \in 1..m /\ log[i] = new[i - n]
  BY <1>2, <1>4, <1>5, ConcatParts
<1>7. ASSUME NEW i \in (n+1)..(n+m)
      PROVE  /\ i - n \in 1..m
             /\ log[i].draft = drafts[i - n]
             /\ log[i].sequence = s.lastSequence + (i - n)
             /\ log[i].revision = s.revision + 1
  <2>1. PICK k \in 1..m : k = i - n /\ log[i] = new[k]
    BY <1>6
  <2> QED BY <1>3, <2>1
<1>8. LogParts(s, req, log, old, drafts, n, m)
  BY <1>1, <1>6, <1>7, Zenon DEF LogParts
<1> QED BY <1>8, Zenon

\* A commit keeps the record well typed.
LEMMA CommitKeepsTypes ==
  ASSUME RecordTyped, NEW id \in RequestKeys, NEW req \in Request, CommitBatch(id, req)
  PROVE  RecordTyped'
<1>1. session \in SessionRecord /\ session' = AfterCommit(session, id, req)
      /\ Admissible(session, id, req)
  BY DEF RecordTyped, CommitBatch
<1>2. /\ EpochAfter(session, req) \in Epochs
      /\ session.revision + 1 \in Nat
      /\ session.effects \cup req.effects \in SUBSET Effect
      /\ session.receipts \cup req.receipts \in SUBSET Receipt
  BY <1>1 DEF SessionRecord, Request, EpochAfter
<1>3. LogAfter(session, req) \in Seq(Event)
  BY <1>1, LogAfterCommit, Zenon DEF LogParts
<1>4. Append(session.requests, [requestId |-> id, request |-> req])
        \in Seq([requestId : RequestKeys, request : Request])
  BY <1>1, AppendProperties DEF SessionRecord
<1>5. session.lastSequence + Len(req.drafts) \in Nat \cup {-1}
  BY <1>1 DEF SessionRecord, Request
<1> QED BY <1>1, <1>2, <1>3, <1>4, <1>5 DEF RecordTyped, SessionRecord, AfterCommit

LEMMA InitTyped == StoreInit => RecordTyped
BY ConstantsAssumption, EmptySeq DEF StoreInit, RecordTyped, NewSession, SessionRecord

\* The session record is well typed in every reachable state.
THEOREM TypeCorrect == StoreSpec => []RecordTyped
<1>1. RecordTyped /\ [StoreNext]_storeVars => RecordTyped'
  <2>1. ASSUME RecordTyped, StoreNext PROVE RecordTyped'
    BY <2>1, NextCommits, CommitKeepsTypes
  <2>2. ASSUME RecordTyped, UNCHANGED storeVars PROVE RecordTyped'
    BY <2>2 DEF RecordTyped, storeVars
  <2> QED BY <2>1, <2>2
<1> QED BY InitTyped, <1>1, PTL DEF StoreSpec

-----------------------------------------------------------------------------
(* Claims.                                                                   *)

\* In a log the outbox projection accepts, an effect is claimed at most once: a second
\* claim needs an intention after the first one, and an intention admits no earlier move.
LEMMA ProjectedClaims ==
  ASSUME NEW log \in Seq(Event), NEW fs, NEW rs, OutboxOk(log, fs, rs),
         NEW i \in DOMAIN log, NEW j \in DOMAIN log,
         TypeAt(log, i) = "effect.dispatched", TypeAt(log, j) = "effect.dispatched",
         log[i].draft.effectId = log[j].draft.effectId
  PROVE  ~(i < j)
<1> SUFFICES ASSUME i < j PROVE FALSE
  OBVIOUS
<1> DEFINE e == log[j].draft.effectId
           prior == MovesBefore(log, e, j)
           k == MaxOf(prior)
<1>1. Len(log) \in Nat /\ DOMAIN log = 1..Len(log)
  BY LenProperties
<1>2. i \in prior /\ prior \in SUBSET (1..Len(log))
  BY <1>1 DEF MovesBefore, Moves, TypeAt
<1>3. k \in prior /\ \A x \in prior : x <= k
  <2> HIDE DEF prior
  <2> QED BY <1>1, <1>2, MaxOfPositions
<1>4. StateAfter(log, rs, k) = "intended"
  BY DEF OutboxOk, TypeAt
<1>5. TypeAt(log, k) = "effect.intended"
  BY <1>4 DEF StateAfter
<1>6. k \in DOMAIN log /\ log[k].draft.effectId = e /\ k < j
  BY <1>3 DEF MovesBefore, Moves
<1>7. MovesBefore(log, e, k) = {}
  BY <1>5, <1>6 DEF OutboxOk, TypeAt
<1>8. i < k
  BY <1>1, <1>2, <1>3, <1>5, <1>6
<1>9. i \in MovesBefore(log, e, k)
  BY <1>2, <1>8 DEF MovesBefore
<1> QED BY <1>7, <1>9

\* A commit leaves an outbox that projects: commitBatch simulates the projection of the
\* whole log before it touches the record.
LEMMA CommitProjects ==
  ASSUME NEW id, NEW req, CommitBatch(id, req)
  PROVE  OutboxProjects'
BY DEF CommitBatch, Admissible, AfterCommit, OutboxProjects

\* The outbox of every reachable record projects.
THEOREM OutboxAlwaysProjects == StoreSpec => []OutboxProjects
<1>1. StoreInit => OutboxProjects
  BY DEF StoreInit, NewSession, OutboxProjects, OutboxOk
<1>2. RecordTyped /\ OutboxProjects /\ [StoreNext]_storeVars => OutboxProjects'
  <2>1. ASSUME RecordTyped, StoreNext PROVE OutboxProjects'
    BY <2>1, NextCommits, CommitProjects
  <2>2. ASSUME OutboxProjects, UNCHANGED storeVars PROVE OutboxProjects'
    BY <2>2 DEF OutboxProjects, storeVars
  <2> QED BY <2>1, <2>2
<1> QED BY <1>1, <1>2, TypeCorrect, PTL DEF StoreSpec

\* No effect is ever claimed twice, whatever the callers and however stale their view.
THEOREM EffectsAreClaimedOnce == StoreSpec => []AtMostOneClaim
<1>1. RecordTyped /\ OutboxProjects => AtMostOneClaim
  <2> SUFFICES ASSUME RecordTyped, OutboxProjects,
                      NEW i \in DOMAIN session.events, NEW j \in DOMAIN session.events,
                      TypeAt(session.events, i) = "effect.dispatched",
                      TypeAt(session.events, j) = "effect.dispatched",
                      session.events[i].draft.effectId = session.events[j].draft.effectId
               PROVE  i = j
    BY DEF AtMostOneClaim
  <2>1. session.events \in Seq(Event)
    BY DEF RecordTyped, SessionRecord
  <2>2. ~(i < j) /\ ~(j < i)
    BY <2>1, ProjectedClaims DEF OutboxProjects
  <2>3. i \in Nat /\ j \in Nat
    BY <2>1, LenProperties
  <2> QED BY <2>2, <2>3
<1> QED BY <1>1, TypeCorrect, OutboxAlwaysProjects, PTL

-----------------------------------------------------------------------------
(* Replay.                                                                   *)

\* A log that replays from the epoch of its session replays from its own baseline: only
\* the first event looks at the start, and the baseline is derived from that event.
LEMMA ReplaysFromBaseline ==
  ASSUME NEW log \in Seq(Event), NEW start \in Epochs, ReplayOk(log, start)
  PROVE  ReplayOk(log, Baseline(log))
<1> SUFFICES ASSUME NEW i \in DOMAIN log PROVE ReplaysAt(log, Baseline(log), i)
  BY DEF ReplayOk
<1>1. ReplaysAt(log, start, i) /\ log[i] \in Event
  BY ElementOfSeq, LenProperties DEF ReplayOk
<1>2. log[i].draft.epoch \in Nat
  BY <1>1 DEF Event, Draft, Epochs
<1>3. CASE i = 1
  BY <1>1, <1>2, <1>3 DEF ReplaysAt, Baseline, EpochBefore, TypeAt
<1>4. CASE i # 1
  BY <1>1, <1>4 DEF ReplaysAt, EpochBefore
<1> QED BY <1>3, <1>4

\* A commit keeps the journal replayable and the cached positions equal to the replayed ones.
LEMMA CommitReplays ==
  ASSUME RecordTyped, JournalReplays, NEW id \in RequestKeys, NEW req \in Request,
         CommitBatch(id, req)
  PROVE  JournalReplays'
<1>1. /\ session \in SessionRecord /\ session' = AfterCommit(session, id, req)
      /\ Admissible(session, id, req)
  BY DEF RecordTyped, CommitBatch
<1>2. PICK log, old, drafts, n, m : LogParts(session, req, log, old, drafts, n, m)
  BY <1>1, LogAfterCommit, Zenon
<1>3. log \in Seq(Event) /\ n \in Nat /\ m \in Nat /\ Len(log) = n + m
  BY <1>2, Zenon DEF LogParts
<1>4. drafts = req.drafts /\ m = Len(drafts) /\ old = session.events /\ n = Len(old)
      /\ log = LogAfter(session, req)
  BY <1>2, Zenon DEF LogParts
<1>5. /\ session'.events = log
      /\ session'.lastSequence = session.lastSequence + m
      /\ session'.revision = session.revision + 1
      /\ session'.epoch = EpochAfter(session, req)
  BY <1>1, <1>4 DEF AfterCommit
<1>6. m > 0 /\ Len(log) > 0
  <2>1. drafts \in Seq(Draft) /\ drafts # <<>>
    BY <1>1, <1>4 DEF Admissible, Request
  <2>2. Len(drafts) > 0
    BY <2>1, EmptySeq
  <2>3. m = Len(drafts)
    BY <1>4
  <2> QED BY <1>3, <2>2, <2>3
<1>7. session'.lastSequence = Len(log) - 1
  <2>1. session.lastSequence = n - 1
    BY <1>4 DEF JournalReplays, ReplaysToCache
  <2> QED BY <1>3, <1>5, <2>1
<1>8. /\ log[Len(log)].draft = drafts[m]
      /\ session'.revision = log[Len(log)].revision
  <2>1. PICK last : last = n + m
    OBVIOUS
  <2>2. last \in (n+1)..(n+m) /\ last - n = m
    BY <1>3, <1>6, <2>1
  <2>3. log[last].draft = drafts[last - n] /\ log[last].revision = session.revision + 1
    BY <1>2, <2>2, Zenon DEF LogParts
  <2> QED BY <1>3, <1>5, <2>1, <2>2, <2>3
<1>9. session'.epoch = log[Len(log)].draft.epoch
  <2>1. m \in DOMAIN drafts
    BY <1>1, <1>3, <1>4, <1>6, LenProperties DEF Request
  <2>2. drafts[m].epoch = req.epoch /\ (ChangesEpoch(req) \/ req.epoch = session.epoch)
    BY <1>1, <1>4, <2>1 DEF Admissible, AtOneEpoch
  <2> QED BY <1>5, <1>8, <2>2 DEF EpochAfter
<1>10. ReplayOk(log, Baseline(log))
  <2>1. CASE old = <<>>
    <3>1. ReplayOk(log, session.epoch) /\ session.epoch \in Epochs
      BY <1>1, <1>4, <2>1 DEF Admissible, SessionRecord
    <3> QED BY <1>3, <3>1, ReplaysFromBaseline
  <2>2. CASE old # <<>>
    <3>1. ReplayOk(log, Baseline(old))
      BY <1>1, <1>4, <2>2 DEF Admissible
    <3>2. old \in Seq(Event) /\ Len(old) > 0
      BY <1>1, <1>4, <2>2, EmptySeq DEF SessionRecord
    <3>3. n = Len(old) /\ \A i \in 1..n : log[i] = old[i]
      BY <1>2, Zenon DEF LogParts
    <3>4. log[1] = old[1]
      BY <1>3, <3>2, <3>3
    <3> QED BY <3>1, <3>4 DEF Baseline, TypeAt
  <2> QED BY <2>1, <2>2
<1>11. OutboxProjects'
  BY CommitProjects
<1>12. ReplaysToCache(log, session'.epoch, session'.revision, session'.lastSequence)
  BY <1>6, <1>7, <1>8, <1>9, <1>10 DEF ReplaysToCache
<1> QED BY <1>5, <1>11, <1>12 DEF JournalReplays

\* The journal of every reachable record replays to the positions the record caches.
THEOREM JournalAlwaysReplays == StoreSpec => []JournalReplays
<1>1. StoreInit => JournalReplays
  <2> SUFFICES ASSUME StoreInit PROVE JournalReplays
    OBVIOUS
  <2>1. session.events = <<>> /\ session.lastSequence = -1 /\ session.revision = 0
    BY DEF StoreInit, NewSession
  <2>2. Len(session.events) = 0 /\ DOMAIN session.events = {}
    BY <2>1
  <2> QED BY <2>1, <2>2 DEF JournalReplays, ReplaysToCache, OutboxProjects, OutboxOk
<1>2. RecordTyped /\ JournalReplays /\ [StoreNext]_storeVars => JournalReplays'
  <2>1. ASSUME RecordTyped, JournalReplays, StoreNext PROVE JournalReplays'
    BY <2>1, NextCommits, CommitReplays
  <2>2. ASSUME JournalReplays, UNCHANGED storeVars PROVE JournalReplays'
    BY <2>2 DEF JournalReplays, OutboxProjects, storeVars
  <2> QED BY <2>1, <2>2
<1> QED BY <1>1, <1>2, TypeCorrect, PTL DEF StoreSpec

-----------------------------------------------------------------------------
(* Content.                                                                  *)

\* The drafts of the journal after a commit are those of the journal before it and those
\* of the request, no more and no fewer.
LEMMA DraftsAfterCommit ==
  ASSUME NEW s \in SessionRecord, NEW req \in Request, NEW log, log = LogAfter(s, req)
  PROVE  /\ \A i \in DOMAIN s.events : i \in DOMAIN log /\ log[i] = s.events[i]
         /\ \A k \in DOMAIN req.drafts : \E i \in DOMAIN log : log[i].draft = req.drafts[k]
         /\ \A i \in DOMAIN log :
              \/ i \in DOMAIN s.events /\ log[i] = s.events[i]
              \/ \E k \in DOMAIN req.drafts : log[i].draft = req.drafts[k]
<1>1. PICK old, drafts, n, m : LogParts(s, req, log, old, drafts, n, m)
  <2>1. PICK x, old, drafts, n, m : LogParts(s, req, x, old, drafts, n, m)
    BY LogAfterCommit, Zenon
  <2>2. x = log
    BY <2>1, Zenon DEF LogParts
  <2> QED BY <2>1, <2>2
<1>2. /\ log \in Seq(Event) /\ n \in Nat /\ m \in Nat /\ Len(log) = n + m
      /\ n = Len(old) /\ m = Len(drafts)
  BY <1>1, Zenon DEF LogParts
<1>3. old = s.events /\ drafts = req.drafts
  BY <1>1, Zenon DEF LogParts
<1>4. old \in Seq(Event) /\ drafts \in Seq(Draft)
  BY <1>3 DEF SessionRecord, Request
<1>5. DOMAIN log = 1..(n + m) /\ DOMAIN old = 1..n /\ DOMAIN drafts = 1..m
  BY <1>2, <1>4, LenProperties
<1>6. \A i \in DOMAIN old : i \in DOMAIN log /\ log[i] = old[i]
  <2>1. \A i \in 1..n : log[i] = old[i]
    BY <1>1, Zenon DEF LogParts
  <2> QED BY <1>2, <1>5, <2>1
<1>7. \A i \in (n+1)..(n+m) : i - n \in 1..m /\ log[i].draft = drafts[i - n]
  BY <1>1, Zenon DEF LogParts
<1>8. ASSUME NEW k \in DOMAIN drafts PROVE \E i \in DOMAIN log : log[i].draft = drafts[k]
  <2>1. n + k \in (n+1)..(n+m) /\ n + k \in DOMAIN log /\ (n + k) - n = k
    BY <1>2, <1>5
  <2> QED BY <1>7, <2>1
<1>9. ASSUME NEW i \in DOMAIN log, i \notin DOMAIN old
      PROVE  \E k \in DOMAIN drafts : log[i].draft = drafts[k]
  <2>1. i \in (n+1)..(n+m)
    BY <1>2, <1>5, <1>9
  <2> QED BY <1>5, <1>7, <2>1
<1> QED BY <1>3, <1>6, <1>8, <1>9

\* A commit keeps content and journal matched and every identity bound to one content.
LEMMA CommitMatches ==
  ASSUME RecordTyped, ContentMatchesJournal, NEW id \in RequestKeys, NEW req \in Request,
         CommitBatch(id, req)
  PROVE  ContentMatchesJournal'
<1>1. /\ session \in SessionRecord /\ session' = AfterCommit(session, id, req)
      /\ EffectsPlanned(session, req) /\ ReceiptsPlanned(session, req)
  BY DEF RecordTyped, CommitBatch, Admissible
<1>2. PICK log, old, drafts, fs, rs :
        /\ log = LogAfter(session, req) /\ old = session.events /\ drafts = req.drafts
        /\ fs = session.effects \cup req.effects
        /\ rs = session.receipts \cup req.receipts
  OBVIOUS
<1>3. session'.events = log /\ session'.effects = fs /\ session'.receipts = rs
  BY <1>1, <1>2 DEF AfterCommit
<1>4. /\ \A i \in DOMAIN old : i \in DOMAIN log /\ log[i] = old[i]
      /\ \A k \in DOMAIN drafts : \E i \in DOMAIN log : log[i].draft = drafts[k]
      /\ \A i \in DOMAIN log : \/ i \in DOMAIN old /\ log[i] = old[i]
                               \/ \E k \in DOMAIN drafts : log[i].draft = drafts[k]
  BY <1>1, <1>2, DraftsAfterCommit
<1>5. IdentitiesUnique(fs, rs)
  BY <1>1, <1>2 DEF ContentMatchesJournal, IdentitiesUnique, EffectsPlanned,
                    ReceiptsPlanned, NewEffect
<1>6. \A f \in fs : \E i \in DOMAIN log :
        TypeAt(log, i) = "effect.intended" /\ log[i].draft.effectId = f.effectId
  <2>1. ASSUME NEW f \in session.effects
        PROVE  \E i \in DOMAIN log :
                 TypeAt(log, i) = "effect.intended" /\ log[i].draft.effectId = f.effectId
    BY <1>2, <1>4 DEF ContentMatchesJournal, ContentJournaled, TypeAt
  <2>2. ASSUME NEW f \in req.effects
        PROVE  \E i \in DOMAIN log :
                 TypeAt(log, i) = "effect.intended" /\ log[i].draft.effectId = f.effectId
    <3>1. PICK k \in DOMAIN drafts :
            drafts[k].type = "effect.intended" /\ drafts[k].effectId = f.effectId
      BY <1>1, <1>2 DEF EffectsPlanned, Intentions
    <3> QED BY <1>4, <3>1 DEF TypeAt
  <2> QED BY <1>2, <2>1, <2>2
<1>7. \A r \in rs : \E i \in DOMAIN log :
        IsReceiptEvent(log, i) /\ log[i].draft.receiptId = r.receiptId
  <2>1. ASSUME NEW r \in session.receipts
        PROVE  \E i \in DOMAIN log :
                 IsReceiptEvent(log, i) /\ log[i].draft.receiptId = r.receiptId
    BY <1>2, <1>4 DEF ContentMatchesJournal, ContentJournaled, IsReceiptEvent, TypeAt
  <2>2. ASSUME NEW r \in req.receipts, r \notin session.receipts
        PROVE  \E i \in DOMAIN log :
                 IsReceiptEvent(log, i) /\ log[i].draft.receiptId = r.receiptId
    <3>1. PICK k \in DOMAIN drafts :
            /\ drafts[k].type \in {"receipt.applied", "receipt.archived"}
            /\ drafts[k].receiptId = r.receiptId
      BY <1>1, <1>2, <2>2 DEF ReceiptsPlanned, ReferencedReceipts
    <3> QED BY <1>4, <3>1 DEF IsReceiptEvent, TypeAt
  <2> QED BY <1>2, <2>1, <2>2
<1>8. ASSUME NEW i \in DOMAIN log, TypeAt(log, i) = "effect.intended"
      PROVE  \E f \in fs : f.effectId = log[i].draft.effectId
  <2>1. CASE i \in DOMAIN old /\ log[i] = old[i]
    BY <1>2, <1>8, <2>1 DEF ContentMatchesJournal, EventsHaveContent, TypeAt
  <2>2. CASE \E k \in DOMAIN drafts : log[i].draft = drafts[k]
    BY <1>1, <1>2, <1>8, <2>2 DEF EffectsPlanned, TypeAt
  <2> QED BY <1>4, <2>1, <2>2
<1>9. ASSUME NEW i \in DOMAIN log, IsReceiptEvent(log, i)
      PROVE  \E r \in rs : r.receiptId = log[i].draft.receiptId
  <2>1. CASE i \in DOMAIN old /\ log[i] = old[i]
    BY <1>2, <1>9, <2>1 DEF ContentMatchesJournal, EventsHaveContent, IsReceiptEvent, TypeAt
  <2>2. CASE \E k \in DOMAIN drafts : log[i].draft = drafts[k]
    <3>1. PICK k \in DOMAIN drafts : log[i].draft = drafts[k]
      BY <2>2
    <3>2. log[i].draft.receiptId \in ReferencedReceipts(req)
      BY <1>2, <1>9, <3>1 DEF ReferencedReceipts, IsReceiptEvent, TypeAt
    <3> QED BY <1>1, <1>2, <3>2 DEF ReceiptsPlanned
  <2> QED BY <1>4, <2>1, <2>2
<1>10. ContentJournaled(log, fs, rs) /\ EventsHaveContent(log, fs, rs)
  BY <1>6, <1>7, <1>8, <1>9 DEF ContentJournaled, EventsHaveContent
<1> QED BY <1>3, <1>5, <1>10 DEF ContentMatchesJournal

\* Content and journal match in every reachable record; an idempotency key serves one effect.
THEOREM ContentAlwaysMatches == StoreSpec => []ContentMatchesJournal
<1>1. StoreInit => ContentMatchesJournal
  BY DEF StoreInit, NewSession, ContentMatchesJournal, IdentitiesUnique, ContentJournaled,
         EventsHaveContent
<1>2. RecordTyped /\ ContentMatchesJournal /\ [StoreNext]_storeVars => ContentMatchesJournal'
  <2>1. ASSUME RecordTyped, ContentMatchesJournal, StoreNext PROVE ContentMatchesJournal'
    BY <2>1, NextCommits, CommitMatches
  <2>2. ASSUME ContentMatchesJournal, UNCHANGED storeVars PROVE ContentMatchesJournal'
    BY <2>2 DEF ContentMatchesJournal, storeVars
  <2> QED BY <2>1, <2>2
<1> QED BY <1>1, <1>2, TypeCorrect, PTL DEF StoreSpec
-----------------------------------------------------------------------------
(* History.                                                                  *)

\* No event of the journal is of a revision the record has not reached.
RevisionsReached ==
  \A j \in DOMAIN session.events : session.events[j].revision <= session.revision

\* The events of a revision reached before a commit are the same after it, and those of the
\* revision it makes are exactly its drafts, behind all others.
RevisionParts(s, req, log) ==
  /\ \A j \in DOMAIN log : log[j].revision <= s.revision + 1
  /\ \A i \in 1..s.revision : EventsOfRevision(log, i) = EventsOfRevision(s.events, i)
  /\ EventsOfRevision(log, s.revision + 1)
       = (Len(s.events) + 1)..(Len(s.events) + Len(req.drafts))
  /\ \A k \in DOMAIN req.drafts : log[Len(s.events) + k].draft = req.drafts[k]
  /\ Len(log) >= Len(s.events)

LEMMA RevisionsAfterCommit ==
  ASSUME NEW s \in SessionRecord, NEW req \in Request, NEW log, log = LogAfter(s, req),
         \A j \in DOMAIN s.events : s.events[j].revision <= s.revision
  PROVE  RevisionParts(s, req, log)
<1>1. PICK old, drafts, n, m : LogParts(s, req, log, old, drafts, n, m)
  <2>1. PICK x, old, drafts, n, m : LogParts(s, req, x, old, drafts, n, m)
    BY LogAfterCommit, Zenon
  <2>2. x = log
    BY <2>1, Zenon DEF LogParts
  <2> QED BY <2>1, <2>2
<1>a. old = s.events /\ drafts = req.drafts
  BY <1>1, Zenon DEF LogParts
<1>b. /\ log \in Seq(Event) /\ n \in Nat /\ m \in Nat /\ Len(log) = n + m
      /\ n = Len(old) /\ m = Len(drafts)
  BY <1>1, Zenon DEF LogParts
<1>2. n \in Nat /\ m \in Nat
  BY <1>b
<1>3. old \in Seq(Event) /\ drafts \in Seq(Draft) /\ s.revision \in Nat
  BY <1>a DEF SessionRecord, Request
<1>4. DOMAIN log = 1..(n + m) /\ DOMAIN old = 1..n /\ DOMAIN drafts = 1..m
  BY <1>b, <1>3, LenProperties
<1>5. \A j \in 1..n : log[j] = old[j] /\ old[j].revision \in Nat /\ old[j].revision <= s.revision
  <2>1. \A j \in 1..n : log[j] = old[j]
    BY <1>1, Zenon DEF LogParts
  <2>2. \A j \in 1..n : old[j] \in Event
    BY <1>3, <1>b, ElementOfSeq
  <2> QED BY <1>a, <1>4, <2>1, <2>2 DEF Event
<1>6. \A j \in (n+1)..(n+m) :
        j - n \in 1..m /\ log[j].draft = drafts[j - n] /\ log[j].revision = s.revision + 1
  BY <1>1, Zenon DEF LogParts
<1>7. \A j \in DOMAIN log : log[j].revision <= s.revision + 1
  BY <1>2, <1>3, <1>4, <1>5, <1>6
<1>8. ASSUME NEW i \in 1..s.revision
      PROVE  EventsOfRevision(log, i) = EventsOfRevision(old, i)
  <2>1. \A j \in DOMAIN log : log[j].revision = i => j \in 1..n
    BY <1>2, <1>3, <1>4, <1>6
  <2> QED BY <1>2, <1>4, <1>5, <2>1 DEF EventsOfRevision
<1>9. EventsOfRevision(log, s.revision + 1) = (n + 1)..(n + m)
  <2>1. \A j \in 1..n : log[j].revision # s.revision + 1
    BY <1>3, <1>5
  <2> QED BY <1>2, <1>4, <1>6, <2>1 DEF EventsOfRevision
<1>10. ASSUME NEW k \in 1..m PROVE log[n + k].draft = drafts[k]
  <2>1. n + k \in (n+1)..(n+m) /\ (n + k) - n = k
    BY <1>2
  <2> QED BY <1>6, <2>1
<1>11. Len(log) >= n
  BY <1>b
<1> QED BY <1>a, <1>b, <1>4, <1>7, <1>8, <1>9, <1>10, <1>11 DEF RevisionParts

\* A commit extends the history by the request it was computed for.
LEMMA CommitIsSerial ==
  ASSUME RecordTyped, SerialHistory, RevisionsReached, NEW id \in RequestKeys, NEW req \in Request,
         CommitBatch(id, req)
  PROVE  SerialHistory' /\ RevisionsReached'
<1>1. /\ session \in SessionRecord /\ session' = AfterCommit(session, id, req)
      /\ NotYetCommitted(session, id) /\ req.expectedRevision = session.revision
  BY DEF RecordTyped, CommitBatch, Admissible, AtCurrentRevision
<1>2. PICK log, old, done, entry :
        /\ log = LogAfter(session, req) /\ old = session.events
        /\ done = session.requests /\ entry = [requestId |-> id, request |-> req]
  OBVIOUS
<1>3. /\ session'.events = log /\ session'.requests = Append(done, entry)
      /\ session'.revision = session.revision + 1
  BY <1>1, <1>2 DEF AfterCommit
<1>a. PICK n : n = Len(done) /\ n = session.revision
  BY <1>2 DEF SerialHistory
<1>4. n \in Nat
  BY <1>1, <1>a DEF SessionRecord
<1>5. /\ Len(Append(done, entry)) = n + 1 /\ DOMAIN Append(done, entry) = 1..(n + 1)
      /\ DOMAIN done = 1..n
      /\ \A i \in 1..n : Append(done, entry)[i] = done[i]
      /\ Append(done, entry)[n + 1] = entry
  <2>1. done \in Seq([requestId : RequestKeys, request : Request])
        /\ entry \in [requestId : RequestKeys, request : Request]
    BY <1>1, <1>2 DEF SessionRecord
  <2>2. PICK longer : longer = Append(done, entry)
    OBVIOUS
  <2>3. /\ longer \in Seq([requestId : RequestKeys, request : Request])
        /\ Len(longer) = Len(done) + 1
        /\ \A i \in 1..Len(done) : longer[i] = done[i]
        /\ longer[Len(done) + 1] = entry
    BY <2>1, <2>2, AppendProperties
  <2>4. DOMAIN longer = 1..(n + 1) /\ DOMAIN done = 1..n
    BY <1>a, <2>1, <2>3, LenProperties
  <2> QED BY <1>a, <2>2, <2>3, <2>4
<1>6. /\ \A j \in DOMAIN log : log[j].revision <= n + 1
      /\ \A i \in 1..n : EventsOfRevision(log, i) = EventsOfRevision(old, i)
      /\ EventsOfRevision(log, n + 1) = (Len(old) + 1)..(Len(old) + Len(req.drafts))
      /\ \A k \in DOMAIN req.drafts : log[Len(old) + k].draft = req.drafts[k]
      /\ Len(log) >= Len(old) /\ Len(log) \in Nat /\ Len(old) \in Nat
  <2>1. log \in Seq(Event) /\ old \in Seq(Event)
    BY <1>1, <1>2, LogAfterCommit, Zenon DEF LogParts, SessionRecord
  <2>2. Len(log) \in Nat /\ Len(old) \in Nat
    BY <2>1, LenProperties
  <2>3. \A j \in DOMAIN session.events : session.events[j].revision <= session.revision
    BY DEF RevisionsReached
  <2>4. session \in SessionRecord /\ log = LogAfter(session, req)
    BY <1>1, <1>2
  <2>5. RevisionParts(session, req, log)
    BY <2>3, <2>4, RevisionsAfterCommit, Zenon
  <2>6. old = session.events
    BY <1>2
  <2> QED BY <1>a, <2>2, <2>5, <2>6, Zenon DEF RevisionParts
<1>7. ASSUME NEW i \in 1..n
      PROVE  ProducedBy(log, i, done[i].request)
  <2>1. PICK first \in 0..Len(old) :
          /\ EventsOfRevision(old, i) = (first + 1)..(first + Len(done[i].request.drafts))
          /\ \A k \in DOMAIN done[i].request.drafts :
               old[first + k].draft = done[i].request.drafts[k]
    BY <1>2, <1>5 DEF SerialHistory, ProducedBy
  <2>2. done[i].request.drafts \in Seq(Draft)
    <3>1. done[i] \in [requestId : RequestKeys, request : Request]
      <4>1. done \in Seq([requestId : RequestKeys, request : Request])
        BY <1>1, <1>2 DEF SessionRecord
      <4> QED BY <1>a, <4>1, ElementOfSeq
    <3> QED BY <3>1 DEF Request
  <2>3. ASSUME NEW k \in DOMAIN done[i].request.drafts
        PROVE  log[first + k] = old[first + k]
    <3>1. k \in 1..Len(done[i].request.drafts) /\ Len(done[i].request.drafts) \in Nat
      BY <2>2, LenProperties
    <3>2. first + k \in EventsOfRevision(old, i)
      BY <1>6, <2>1, <3>1
    <3>3. first + k \in DOMAIN old
      BY <3>2 DEF EventsOfRevision
    <3> QED BY <1>1, <1>2, <3>3, DraftsAfterCommit
  <2>4. first \in 0..Len(log)
    BY <1>6
  <2>5. done[i].request.expectedRevision = i - 1
    BY <1>2, <1>5 DEF SerialHistory, ProducedBy
  <2> QED BY <1>6, <2>1, <2>3, <2>4, <2>5 DEF ProducedBy
<1>8. \E first \in 0..Len(log) :
        /\ EventsOfRevision(log, n + 1) = (first + 1)..(first + Len(req.drafts))
        /\ \A k \in DOMAIN req.drafts : log[first + k].draft = req.drafts[k]
  BY <1>6
<1>9. ASSUME NEW i \in 1..(n + 1), NEW j \in 1..(n + 1),
             Append(done, entry)[i].requestId = Append(done, entry)[j].requestId
      PROVE  i = j
  <2>1. \A k \in 1..n : done[k].requestId # id
    BY <1>1, <1>2, <1>5 DEF NotYetCommitted
  <2>2. \A k, l \in 1..n : done[k].requestId = done[l].requestId => k = l
    BY <1>2, <1>5 DEF SerialHistory
  <2>3. entry.requestId = id
    BY <1>2
  <2> QED BY <1>4, <1>5, <1>9, <2>1, <2>2, <2>3
<1>10. RevisionsReached'
  BY <1>3, <1>a, <1>6, Zenon DEF RevisionsReached
<1>11. entry.request = req /\ req.expectedRevision = (n + 1) - 1
  <2>1. req.expectedRevision = n
    BY <1>1, <1>a, Zenon
  <2>2. entry.request = req
    BY <1>2
  <2> QED BY <1>4, <2>1, <2>2
<1>12. ASSUME NEW i \in 1..(n + 1)
       PROVE  ProducedBy(log, i, Append(done, entry)[i].request)
  <2>1. CASE i \in 1..n
    BY <1>5, <1>7, <2>1, Zenon
  <2>2. CASE i = n + 1
    BY <1>5, <1>8, <1>11, <2>2 DEF ProducedBy
  <2>3. i \in 1..n \/ i = n + 1
    BY <1>4
  <2> QED BY <2>1, <2>2, <2>3, Zenon
<1>13. Len(session'.requests) = session'.revision
  BY <1>3, <1>a, <1>5, Zenon
<1>14. session'.events = log /\ session'.requests = Append(done, entry)
  BY <1>3
<1>15. DOMAIN Append(done, entry) = 1..(n + 1)
  BY <1>5
<1>16. \A i, j \in DOMAIN session'.requests :
         session'.requests[i].requestId = session'.requests[j].requestId => i = j
  BY <1>9, <1>14, <1>15, Zenon
<1>17. \A i \in DOMAIN session'.requests :
         ProducedBy(session'.events, i, session'.requests[i].request)
  BY <1>12, <1>14, <1>15, Zenon
<1> QED BY <1>10, <1>13, <1>16, <1>17, Zenon DEF SerialHistory

\* The committed requests form one serial history: no update is lost, none is committed twice.
THEOREM HistoryIsSerial == StoreSpec => []SerialHistory
<1>1. StoreInit => SerialHistory /\ RevisionsReached
  <2> SUFFICES ASSUME StoreInit PROVE SerialHistory /\ RevisionsReached
    OBVIOUS
  <2>1. session.events = <<>> /\ session.requests = <<>> /\ session.revision = 0
    BY DEF StoreInit, NewSession
  <2>2. Len(session.requests) = 0 /\ DOMAIN session.requests = {} /\ DOMAIN session.events = {}
    BY <2>1
  <2> QED BY <2>1, <2>2 DEF SerialHistory, RevisionsReached
<1>2. RecordTyped /\ SerialHistory /\ RevisionsReached /\ [StoreNext]_storeVars
        => SerialHistory' /\ RevisionsReached'
  <2>1. ASSUME RecordTyped, SerialHistory, RevisionsReached, StoreNext
        PROVE  SerialHistory' /\ RevisionsReached'
    BY <2>1, NextCommits, CommitIsSerial
  <2>2. ASSUME SerialHistory, RevisionsReached, UNCHANGED storeVars
        PROVE  SerialHistory' /\ RevisionsReached'
    BY <2>2 DEF SerialHistory, RevisionsReached, storeVars
  <2> QED BY <2>1, <2>2
<1> QED BY <1>1, <1>2, TypeCorrect, PTL DEF StoreSpec

-----------------------------------------------------------------------------
(* The effects a journal moves have content, and one binding for ever.       *)

\* A nonempty set of positions of a journal has a smallest element.
LEMMA MinOfPositions ==
  ASSUME NEW n \in Nat, NEW S \in SUBSET (1..n), S # {}
  PROVE  \E i \in S : \A j \in S : i <= j
<1> DEFINE T == {(n + 1) - i : i \in S}
<1>1. T \in SUBSET (1..n) /\ T # {}
  <2>1. \A i \in S : (n + 1) - i \in 1..n
    OBVIOUS
  <2>2. T # {}
    OBVIOUS
  <2> QED BY <2>1, <2>2
<1>2. MaxOf(T) \in T /\ \A j \in T : j <= MaxOf(T)
  <2> HIDE DEF T
  <2> QED BY <1>1, MaxOfPositions
<1>3. PICK i \in S : MaxOf(T) = (n + 1) - i
  BY <1>2
<1>4. \A j \in S : (n + 1) - j <= (n + 1) - i
  BY <1>2, <1>3
<1> QED BY <1>4

\* In a log the projection accepts, the first event that moves an effect intends it.
LEMMA FirstMoveIntends ==
  ASSUME NEW log \in Seq(Event), NEW fs, NEW rs, OutboxOk(log, fs, rs),
         NEW e, Moves(log, e) # {}
  PROVE  \E i \in Moves(log, e) : TypeAt(log, i) = "effect.intended"
<1>1. Len(log) \in Nat /\ DOMAIN log = 1..Len(log)
  BY LenProperties
<1>2. Moves(log, e) \in SUBSET (1..Len(log))
  BY <1>1 DEF Moves
<1>3. PICK i \in Moves(log, e) : \A j \in Moves(log, e) : i <= j
  BY <1>1, <1>2, MinOfPositions
<1>4. MovesBefore(log, e, i) = {}
  BY <1>1, <1>2, <1>3 DEF MovesBefore
<1>5. i \in DOMAIN log /\ log[i].draft.effectId = e
      /\ TypeAt(log, i) \in {"effect.intended", "effect.dispatched", "receipt.applied"}
  BY <1>3 DEF Moves
<1>6. TypeAt(log, i) = "effect.intended"
  BY <1>4, <1>5 DEF OutboxOk, TypeAt
<1> QED BY <1>3, <1>6

\* Every effect that some event moves has content.
HasContent(s, e) == \E f \in s.effects : f.effectId = e

ContentOf(s) ==
  /\ IdentitiesUnique(s.effects, s.receipts)
  /\ EventsHaveContent(s.events, s.effects, s.receipts)
  /\ OutboxOk(s.events, s.effects, s.receipts)

LEMMA MovedHasContent ==
  ASSUME NEW s \in SessionRecord, ContentOf(s), NEW e, Moves(s.events, e) # {}
  PROVE  HasContent(s, e)
<1>1. s.events \in Seq(Event)
  BY DEF SessionRecord
<1>2. PICK i \in Moves(s.events, e) : TypeAt(s.events, i) = "effect.intended"
  BY <1>1, FirstMoveIntends DEF ContentOf
<1>3. i \in DOMAIN s.events /\ s.events[i].draft.effectId = e
  BY DEF Moves
<1> QED BY <1>2, <1>3 DEF ContentOf, EventsHaveContent, HasContent

\* An effect id is bound to one content, so its binding is that content's.
LEMMA BindingOfContent ==
  ASSUME NEW s, ContentOf(s), NEW f \in s.effects
  PROVE  BindingOf(s, f.effectId) = f.binding
<1>1. \A g \in s.effects : g.effectId = f.effectId => g = f
  BY DEF ContentOf, IdentitiesUnique
<1>2. (CHOOSE g \in s.effects : g.effectId = f.effectId) = f
  BY <1>1
<1> QED BY <1>2 DEF BindingOf

\* An effect with content is of the same execution before and after a commit.
LEMMA BindingKept ==
  ASSUME NEW s, NEW t, ContentOf(s), ContentOf(t), s.effects \subseteq t.effects,
         NEW e, HasContent(s, e)
  PROVE  BindingOf(t, e) = BindingOf(s, e)
<1>1. PICK f \in s.effects : f.effectId = e
  BY DEF HasContent
<1>2. BindingOf(s, e) = f.binding
  BY <1>1, BindingOfContent
<1>3. BindingOf(t, e) = f.binding
  BY <1>1, BindingOfContent
<1> QED BY <1>2, <1>3

\* A commit never takes the session back to an earlier epoch.
LEMMA EpochNeverFalls ==
  ASSUME RecordTyped, JournalReplays, NEW id \in RequestKeys, NEW req \in Request,
         CommitBatch(id, req)
  PROVE  session'.epoch \in Epochs /\ session'.epoch >= session.epoch
<1>1. /\ session \in SessionRecord /\ Admissible(session, id, req)
      /\ session' = AfterCommit(session, id, req)
  BY DEF RecordTyped, CommitBatch
<1>2. session'.epoch = EpochAfter(session, req) /\ req.epoch \in Epochs
      /\ session.epoch \in Epochs
  BY <1>1 DEF AfterCommit, Request, SessionRecord
<1>3. CASE ~ChangesEpoch(req)
  BY <1>2, <1>3 DEF EpochAfter, Epochs
<1>4. CASE ChangesEpoch(req)
  <2>1. PICK log, old, drafts, n, m : LogParts(session, req, log, old, drafts, n, m)
    BY <1>1, LogAfterCommit, Zenon
  <2>2. n \in Nat /\ m \in Nat /\ Len(log) = n + m /\ log \in Seq(Event)
    BY <2>1, Zenon DEF LogParts
  <2>3. old = session.events /\ drafts = req.drafts /\ n = Len(old) /\ m = Len(drafts)
        /\ log = LogAfter(session, req)
    BY <2>1, Zenon DEF LogParts
  <2>4. DOMAIN log = 1..(n + m) /\ DOMAIN old = 1..n /\ DOMAIN drafts = 1..m /\ m > 0
    <3>1. old \in Seq(Event) /\ drafts \in Seq(Draft)
      BY <1>1, <2>3 DEF SessionRecord, Request
    <3>2. drafts # <<>>
      BY <1>1, <2>3 DEF Admissible
    <3>3. Len(drafts) > 0
      BY <3>1, <3>2, EmptySeq
    <3>4. m > 0
      BY <2>3, <3>3
    <3> QED BY <2>2, <2>3, <3>1, <3>4, LenProperties
  <2>5. log[n + 1].draft = drafts[1] /\ n + 1 \in DOMAIN log
    <3>1. n + 1 \in (n+1)..(n+m) /\ (n + 1) - n = 1
      BY <2>2, <2>4
    <3>2. \A i \in (n+1)..(n+m) : log[i].draft = drafts[i - n]
      BY <2>1, Zenon DEF LogParts
    <3>3. log[n + 1].draft = drafts[1]
      BY <3>1, <3>2, Zenon
    <3>4. n + 1 \in DOMAIN log
      BY <2>2, <2>4
    <3> QED BY <3>3, <3>4
  <2>6. drafts[1].epoch = req.epoch
    BY <1>1, <2>2, <2>3, <2>4 DEF Admissible, AtOneEpoch
  <2> DEFINE start == IF old = <<>> THEN session.epoch ELSE Baseline(old)
  <2>7. ReplaysAt(log, start, n + 1)
    BY <1>1, <2>3, <2>5 DEF Admissible, ReplayOk
  <2>8. EpochBefore(log, start, n + 1) = session.epoch
    <3>1. CASE n = 0
      <4>1. old = <<>>
        BY <1>1, <2>3, <3>1, EmptySeq DEF SessionRecord
      <4> QED BY <3>1, <4>1 DEF EpochBefore
    <3>2. CASE n > 0
      <4>1. session.epoch = old[n].draft.epoch
        BY <2>3, <3>2 DEF JournalReplays, ReplaysToCache
      <4>2. log[n] = old[n]
        <5>1. \A i \in 1..n : log[i] = old[i]
          BY <2>1, Zenon DEF LogParts
        <5> QED BY <2>2, <3>2, <5>1
      <4>3. n + 1 # 1 /\ (n + 1) - 1 = n
        BY <2>2, <3>2
      <4> QED BY <4>1, <4>2, <4>3 DEF EpochBefore
    <3> QED BY <2>2, <3>1, <3>2
  <2>9. req.epoch > session.epoch \/ req.epoch = session.epoch
    BY <2>5, <2>6, <2>7, <2>8 DEF ReplaysAt
  <2> QED BY <1>2, <1>4, <2>9 DEF EpochAfter, Epochs
<1> QED BY <1>3, <1>4

\* The parts of a commit the following lemmas use: what it adds and what it leaves alone.
CommitParts(s, t, req) ==
  /\ s \in SessionRecord /\ t \in SessionRecord /\ req \in Request
  /\ ContentOf(s) /\ ContentOf(t)
  /\ s.effects \subseteq t.effects /\ s.receipts \subseteq t.receipts
  /\ t.effects = s.effects \cup req.effects /\ t.receipts = s.receipts \cup req.receipts
  /\ t.events = LogAfter(s, req)
  /\ t.epoch = EpochAfter(s, req) /\ t.epoch \in Epochs /\ t.epoch >= s.epoch
  /\ ChangesEpoch(req) \/ req.epoch = s.epoch

LEMMA CommitHasParts ==
  ASSUME RecordTyped, JournalReplays, ContentMatchesJournal,
         NEW id \in RequestKeys, NEW req \in Request, CommitBatch(id, req)
  PROVE  CommitParts(session, session', req)
<1>1. RecordTyped'
  BY CommitKeepsTypes
<1>2. OutboxProjects /\ OutboxProjects'
  BY CommitProjects DEF JournalReplays
<1>3. ContentMatchesJournal'
  BY CommitMatches
<1>4. session' = AfterCommit(session, id, req) /\ AtOneEpoch(session, req)
  BY DEF CommitBatch, Admissible
<1>5. /\ session'.effects = session.effects \cup req.effects
      /\ session'.receipts = session.receipts \cup req.receipts
      /\ session'.events = LogAfter(session, req)
      /\ session'.epoch = EpochAfter(session, req)
  BY <1>4 DEF AfterCommit
<1>6. ContentOf(session) /\ ContentOf(session')
  BY <1>2, <1>3 DEF ContentMatchesJournal, OutboxProjects, ContentOf
<1>7. session \in SessionRecord /\ session' \in SessionRecord
  BY <1>1 DEF RecordTyped
<1>8. ChangesEpoch(req) \/ req.epoch = session.epoch
  BY <1>4 DEF AtOneEpoch
<1>9. session'.epoch \in Epochs /\ session'.epoch >= session.epoch
  BY EpochNeverFalls
<1> QED BY <1>5, <1>6, <1>7, <1>8, <1>9 DEF CommitParts

-----------------------------------------------------------------------------
(* Staleness.                                                                *)

\* Effects enter the journal with requests of append alone.
EffectsAppended == session.effects \subseteq UNION {a.effects : a \in Appends}

\* A commit does not make an earlier event stale.
LEMMA OldEventsStayCurrent ==
  ASSUME NEW s, NEW t, NEW req, CommitParts(s, t, req),
         NEW i \in DOMAIN s.events, NotStale(s, s.events[i].draft)
  PROVE  NotStale(t, s.events[i].draft)
<1> DEFINE d == s.events[i].draft
<1>1. ASSUME d.type \in {"effect.dispatched", "receipt.applied"}
      PROVE  BindingOf(t, d.effectId) = BindingOf(s, d.effectId)
  <2>1. i \in Moves(s.events, d.effectId)
    BY <1>1 DEF Moves, TypeAt
  <2>2. HasContent(s, d.effectId)
    BY <2>1, MovedHasContent DEF CommitParts
  <2> QED BY <2>2, BindingKept DEF CommitParts
<1> QED BY <1>1 DEF NotStale, CommitParts

\* Whatever drafts a request brings, if each is current after the commit, all events are.
LEMMA AllStayCurrent ==
  ASSUME NEW req, CommitParts(session, session', req), NothingStaleMovesAnEffect,
         \A k \in DOMAIN req.drafts : NotStale(session', req.drafts[k])
  PROVE  NothingStaleMovesAnEffect'
<1> SUFFICES ASSUME NEW i \in DOMAIN session'.events
             PROVE  NotStale(session', session'.events[i].draft)
  BY DEF NothingStaleMovesAnEffect
<1>1. session \in SessionRecord /\ req \in Request /\ session'.events = LogAfter(session, req)
  BY DEF CommitParts
<1>2. \/ i \in DOMAIN session.events /\ session'.events[i] = session.events[i]
      \/ \E k \in DOMAIN req.drafts : session'.events[i].draft = req.drafts[k]
  BY <1>1, DraftsAfterCommit
<1>3. CASE i \in DOMAIN session.events /\ session'.events[i] = session.events[i]
  <2>1. NotStale(session, session.events[i].draft)
    BY <1>3 DEF NothingStaleMovesAnEffect
  <2>2. NotStale(session', session.events[i].draft)
    BY <1>3, <2>1, OldEventsStayCurrent
  <2> QED BY <1>3, <2>2
<1>4. CASE \E k \in DOMAIN req.drafts : session'.events[i].draft = req.drafts[k]
  BY <1>4
<1> QED BY <1>2, <1>3, <1>4

\* A request of append brings only current drafts: it claims nothing, and what it applies is
\* of the binding every caller intends the effect with.
LEMMA AppendIsCurrent ==
  ASSUME RecordTyped, JournalReplays, ContentMatchesJournal, EffectsAppended,
         NEW a \in Appends, NEW rev \in Nat, AppendRequest(a, rev)
  PROVE  \E req : /\ CommitParts(session, session', req)
                  /\ \A k \in DOMAIN req.drafts :
                       /\ NotStale(session', req.drafts[k])
                       /\ req.drafts[k].type # "effect.dispatched"
                  /\ EffectsAppended'
<1> USE ConstantsAssumption
<1> DEFINE id == <<"append", a.requestId>>
           req == [expectedRevision |-> rev, epoch |-> a.epoch, drafts |-> a.drafts,
                   effects |-> a.effects, receipts |-> a.receipts]
<1>1. id \in RequestKeys
  BY DEF RequestKeys
<1>2. req \in Request
  BY DEF Request
<1>3. CommitBatch(id, req)
  BY DEF AppendRequest
<1> HIDE DEF id
<1>4. CommitParts(session, session', req)
  <2> HIDE DEF req
  <2> QED BY <1>1, <1>2, <1>3, CommitHasParts
<1>5. req.drafts = a.drafts /\ req.effects = a.effects /\ req.receipts = a.receipts
  OBVIOUS
<1> HIDE DEF req
<1>6. EffectsAppended'
  BY <1>4, <1>5 DEF EffectsAppended, CommitParts
<1>7. ASSUME NEW k \in DOMAIN req.drafts
      PROVE  NotStale(session', req.drafts[k]) /\ req.drafts[k].type # "effect.dispatched"
  <2> DEFINE d == req.drafts[k]
  <2>1. d.type # "effect.dispatched"
    BY <1>5, CallersAssumption
  <2>2. ASSUME d.type = "receipt.applied"
        PROVE  \E r \in session'.receipts :
                 /\ r.receiptId = d.receiptId /\ r.effectId = d.effectId
                 /\ r.binding = BindingOf(session', d.effectId)
    <3>1. PICK r \in a.receipts :
            /\ r.receiptId = d.receiptId /\ r.effectId = d.effectId
            /\ \A b \in Appends : \A f \in b.effects :
                 f.effectId = r.effectId => f.binding = r.binding
      BY <1>5, <2>2, CallersAssumption
    <3>2. r \in session'.receipts
      BY <1>4, <1>5 DEF CommitParts
    <3>3. Moves(session'.events, d.effectId) # {}
      <4>1. session \in SessionRecord /\ session'.events = LogAfter(session, req)
        BY <1>4 DEF CommitParts
      <4>2. PICK i \in DOMAIN session'.events : session'.events[i].draft = d
        BY <1>2, <4>1, DraftsAfterCommit
      <4>3. i \in Moves(session'.events, d.effectId)
        BY <2>2, <4>2 DEF Moves, TypeAt
      <4> QED BY <4>3
    <3>4. PICK f \in session'.effects : f.effectId = d.effectId
      BY <1>4, <3>3, MovedHasContent DEF CommitParts, HasContent
    <3>5. PICK b \in Appends : f \in b.effects
      BY <1>6, <3>4 DEF EffectsAppended
    <3>6. f.binding = r.binding
      BY <3>1, <3>4, <3>5
    <3>7. BindingOf(session', d.effectId) = f.binding
      BY <1>4, <3>4, BindingOfContent DEF CommitParts
    <3> QED BY <3>1, <3>2, <3>6, <3>7
  <2> QED BY <2>1, <2>2 DEF NotStale
<1> QED BY <1>4, <1>6, <1>7

\* An effect the outbox does not call absent has content.
LEMMA PresentHasContent ==
  ASSUME NEW s \in SessionRecord, ContentOf(s), NEW e, Entry(s, e) # "absent"
  PROVE  HasContent(s, e)
BY MovedHasContent DEF Entry

\* A claim is of the epoch its effect was intended for.
LEMMA DispatchIsCurrent ==
  ASSUME RecordTyped, JournalReplays, ContentMatchesJournal, EffectsAppended,
         NEW e \in EffectIds, NEW c \in ClaimIds, NEW ep \in Epochs, NEW rev \in Nat,
         DispatchEffect(e, c, ep, rev)
  PROVE  \E req : /\ CommitParts(session, session', req)
                  /\ req.drafts = <<PlainDraft("effect.dispatched", c, ep, e)>>
                  /\ \A k \in DOMAIN req.drafts : NotStale(session', req.drafts[k])
                  /\ EffectsAppended'
                  /\ ~ChangesEpoch(req)
                  /\ BindingOf(session, e).epoch = session.epoch
<1> USE ConstantsAssumption
<1> DEFINE id == <<"dispatch", c>>
           draft == PlainDraft("effect.dispatched", c, ep, e)
           req == [expectedRevision |-> rev, epoch |-> ep, drafts |-> <<draft>>,
                   effects |-> {}, receipts |-> {}]
<1>1. id \in RequestKeys
  BY DEF RequestKeys
<1>2. req \in Request
  <2>1. <<draft>> \in Seq(Draft)
    BY DraftTyped DEF EventTypes
  <2> HIDE DEF draft
  <2> QED BY <2>1 DEF Request
<1>3. CommitBatch(id, req)
  BY DEF DispatchEffect
<1> HIDE DEF id
<1>4. CommitParts(session, session', req)
  <2> HIDE DEF req
  <2> QED BY <1>1, <1>2, <1>3, CommitHasParts
<1>5. /\ req.drafts = <<draft>> /\ req.effects = {} /\ req.epoch = ep
      /\ draft.type = "effect.dispatched" /\ draft.effectId = e /\ draft.epoch = ep
  BY DEF PlainDraft
<1> HIDE DEF req, draft
<1>6. ~ChangesEpoch(req)
  BY <1>5 DEF ChangesEpoch
<1>7. ep = session.epoch
  BY <1>4, <1>5, <1>6 DEF CommitParts
<1>8. BindingOf(session, e).epoch = session.epoch /\ Entry(session, e) = "intended"
  BY DEF DispatchEffect
<1>9. BindingOf(session', e) = BindingOf(session, e)
  BY <1>4, <1>8, PresentHasContent, BindingKept DEF CommitParts
<1>10. NotStale(session', draft)
  BY <1>5, <1>7, <1>8, <1>9 DEF NotStale
<1>11. \A k \in DOMAIN req.drafts : req.drafts[k] = draft
  BY <1>5
<1>12. EffectsAppended'
  BY <1>4, <1>5 DEF EffectsAppended, CommitParts
<1> QED BY <1>4, <1>5, <1>6, <1>8, <1>10, <1>11, <1>12 DEF draft

\* A receipt moves its effect only when it is of the execution the effect was intended with.
LEMMA ReceiptIsCurrent ==
  ASSUME RecordTyped, JournalReplays, ContentMatchesJournal, EffectsAppended,
         NEW r \in Receivable, NEW ep \in Epochs, NEW rev \in Nat, ApplyReceipt(r, ep, rev)
  PROVE  \E req : /\ CommitParts(session, session', req)
                  /\ \A k \in DOMAIN req.drafts :
                       /\ NotStale(session', req.drafts[k])
                       /\ req.drafts[k].type # "effect.dispatched"
                  /\ EffectsAppended'
<1> USE ConstantsAssumption
<1> DEFINE id == <<"receipt", r.receiptId>>
           type == IF IsStale(session, r, ep) THEN "receipt.archived" ELSE "receipt.applied"
           draft == [PlainDraft(type, r.receiptId, ep, r.effectId) EXCEPT
                       !.receiptId = r.receiptId]
           req == [expectedRevision |-> rev, epoch |-> ep, drafts |-> <<draft>>,
                   effects |-> {}, receipts |-> {r}]
<1>0. r \in Receipt /\ r.receiptId \in ReceiptIds /\ r.effectId \in EffectIds
  BY DEF Receipt
<1>1. id \in RequestKeys
  BY <1>0 DEF RequestKeys
<1>2. req \in Request
  <2>1. <<draft>> \in Seq(Draft)
    <3>1. type \in EventTypes
      BY DEF EventTypes
    <3> HIDE DEF type
    <3> QED BY <1>0, <3>1, DraftTyped
  <2> HIDE DEF draft
  <2> QED BY <1>0, <2>1 DEF Request
<1>3. CommitBatch(id, req)
  BY DEF ApplyReceipt
<1> HIDE DEF id
<1>4. CommitParts(session, session', req)
  <2> HIDE DEF req
  <2> QED BY <1>1, <1>2, <1>3, CommitHasParts
<1>5. /\ req.drafts = <<draft>> /\ req.effects = {} /\ req.receipts = {r}
      /\ draft.type = type /\ draft.effectId = r.effectId /\ draft.receiptId = r.receiptId
  BY DEF PlainDraft
<1> HIDE DEF req, draft
<1>6. type # "effect.dispatched"
  OBVIOUS
<1>7. ASSUME type = "receipt.applied"
      PROVE  r.binding = BindingOf(session', r.effectId)
  <2>1. r.binding = BindingOf(session, r.effectId)
    BY <1>7 DEF IsStale
  <2>2. Entry(session, r.effectId) # "absent"
    BY DEF ApplyReceipt
  <2>3. BindingOf(session', r.effectId) = BindingOf(session, r.effectId)
    BY <1>4, <2>2, PresentHasContent, BindingKept DEF CommitParts
  <2> QED BY <2>1, <2>3
<1> HIDE DEF type
<1>8. r \in session'.receipts
  BY <1>4, <1>5 DEF CommitParts
<1>9. NotStale(session', draft)
  BY <1>5, <1>6, <1>7, <1>8 DEF NotStale
<1>10. \A k \in DOMAIN req.drafts : req.drafts[k] = draft
  BY <1>5
<1>11. EffectsAppended'
  BY <1>4, <1>5 DEF EffectsAppended, CommitParts
<1> QED BY <1>4, <1>5, <1>6, <1>9, <1>10, <1>11

\* Nothing stale ever moves an effect: every claim is of the epoch of its effect, and every
\* applied receipt of the execution it was intended with.
THEOREM NothingStaleMoves == StoreSpec => []NothingStaleMovesAnEffect
<1>1. StoreInit => NothingStaleMovesAnEffect /\ EffectsAppended
  BY DEF StoreInit, NewSession, NothingStaleMovesAnEffect, EffectsAppended
<1>2. RecordTyped /\ JournalReplays /\ ContentMatchesJournal
        /\ NothingStaleMovesAnEffect /\ EffectsAppended /\ [StoreNext]_storeVars
        => NothingStaleMovesAnEffect' /\ EffectsAppended'
  <2> SUFFICES ASSUME RecordTyped, JournalReplays, ContentMatchesJournal,
                      NothingStaleMovesAnEffect, EffectsAppended, [StoreNext]_storeVars
               PROVE  NothingStaleMovesAnEffect' /\ EffectsAppended'
    OBVIOUS
  <2>0. Revisions \subseteq Nat
    BY DEF Revisions, RecordTyped, SessionRecord
  <2>1. CASE \E a \in Appends, rev \in Revisions : AppendRequest(a, rev)
    BY <2>0, <2>1, AppendIsCurrent, AllStayCurrent
  <2>2. CASE \E e \in EffectIds, c \in ClaimIds, ep \in Epochs, rev \in Revisions :
               DispatchEffect(e, c, ep, rev)
    BY <2>0, <2>2, DispatchIsCurrent, AllStayCurrent
  <2>3. CASE \E r \in Receivable, ep \in Epochs, rev \in Revisions : ApplyReceipt(r, ep, rev)
    BY <2>0, <2>3, ReceiptIsCurrent, AllStayCurrent
  <2>4. CASE \E r \in Receivable, ep \in Epochs, rev \in Revisions : ReconcileEffect(r, ep, rev)
    BY <2>0, <2>4, ReceiptIsCurrent, AllStayCurrent DEF ReconcileEffect
  <2>5. CASE UNCHANGED storeVars
    BY <2>5 DEF storeVars, NothingStaleMovesAnEffect, EffectsAppended
  <2> QED BY <2>1, <2>2, <2>3, <2>4, <2>5 DEF StoreNext
<1> QED BY <1>1, <1>2, TypeCorrect, JournalAlwaysReplays, ContentAlwaysMatches, PTL DEF StoreSpec

-----------------------------------------------------------------------------
(* Refinement.                                                               *)

MoveTypes == {"effect.intended", "effect.dispatched", "receipt.applied"}

\* An effect no draft of a commit moves keeps its place in the outbox.
LEMMA EntryKept ==
  ASSUME NEW s, NEW t, NEW req, CommitParts(s, t, req), NEW e,
         \A k \in DOMAIN req.drafts :
           req.drafts[k].type \in MoveTypes => req.drafts[k].effectId # e
  PROVE  Entry(t, e) = Entry(s, e)
<1>1. /\ \A i \in DOMAIN s.events : i \in DOMAIN t.events /\ t.events[i] = s.events[i]
      /\ \A i \in DOMAIN t.events :
           \/ i \in DOMAIN s.events /\ t.events[i] = s.events[i]
           \/ \E k \in DOMAIN req.drafts : t.events[i].draft = req.drafts[k]
  BY DraftsAfterCommit DEF CommitParts
<1>2. Moves(t.events, e) = Moves(s.events, e)
  <2>1. \A i \in Moves(s.events, e) : i \in Moves(t.events, e)
    BY <1>1 DEF Moves, TypeAt
  <2>2. \A i \in Moves(t.events, e) : i \in Moves(s.events, e)
    BY <1>1 DEF Moves, TypeAt, MoveTypes
  <2> QED BY <2>1, <2>2
<1>3. ASSUME NEW i \in Moves(s.events, e)
      PROVE  StateAfter(t.events, t.receipts, i) = StateAfter(s.events, s.receipts, i)
  <2>1. i \in DOMAIN s.events /\ t.events[i] = s.events[i]
    BY <1>1 DEF Moves
  <2>2. ASSUME TypeAt(s.events, i) = "receipt.applied"
        PROVE  ReceiptSaysUnknown(t.receipts, s.events[i].draft.receiptId)
                 <=> ReceiptSaysUnknown(s.receipts, s.events[i].draft.receiptId)
    <3>1. PICK q \in s.receipts : q.receiptId = s.events[i].draft.receiptId
      BY <2>1, <2>2 DEF CommitParts, ContentOf, EventsHaveContent, IsReceiptEvent
    <3>2. \A r \in t.receipts : r.receiptId = q.receiptId => r = q
      BY <3>1 DEF CommitParts, ContentOf, IdentitiesUnique
    <3>3. q \in t.receipts
      BY <3>1 DEF CommitParts
    <3> QED BY <3>1, <3>2, <3>3 DEF ReceiptSaysUnknown, CommitParts
  <2>3. TypeAt(s.events, i) \in MoveTypes /\ TypeAt(t.events, i) = TypeAt(s.events, i)
    BY <2>1 DEF Moves, TypeAt, MoveTypes
  <2> QED BY <2>1, <2>2, <2>3 DEF StateAfter, MoveTypes
<1>4. Moves(s.events, e) # {} => MaxOf(Moves(s.events, e)) \in Moves(s.events, e)
  <2>1. s.events \in Seq(Event)
    BY DEF CommitParts, SessionRecord
  <2>2. Len(s.events) \in Nat /\ Moves(s.events, e) \in SUBSET (1..Len(s.events))
    BY <2>1, LenProperties DEF Moves
  <2> QED BY <2>2, MaxOfPositions
<1> QED BY <1>2, <1>3, <1>4 DEF Entry

\* An effect some draft of a commit moves is what the last of these drafts says, and is only
\* intended by it if it was absent.
LEMMA EntryMoved ==
  ASSUME NEW s, NEW t, NEW req, CommitParts(s, t, req), NEW e, NEW k \in DOMAIN req.drafts,
         req.drafts[k].type \in MoveTypes, req.drafts[k].effectId = e
  PROVE  \E l \in DOMAIN req.drafts :
           /\ req.drafts[l].type \in MoveTypes /\ req.drafts[l].effectId = e
           /\ req.drafts[l].type = "effect.intended" =>
                Entry(s, e) = "absent" /\ Entry(t, e) = "intended"
           /\ req.drafts[l].type = "effect.dispatched" => Entry(t, e) = "dispatched"
           /\ req.drafts[l].type = "receipt.applied" => Entry(t, e) \in {"unknown", "resolved"}
<1>1. PICK old, drafts, n, m : LogParts(s, req, t.events, old, drafts, n, m)
  <2>1. s \in SessionRecord /\ req \in Request /\ t.events = LogAfter(s, req)
    BY DEF CommitParts
  <2>2. PICK x, old, drafts, n, m : LogParts(s, req, x, old, drafts, n, m)
    BY <2>1, LogAfterCommit, Zenon
  <2>3. x = t.events
    BY <2>1, <2>2, Zenon DEF LogParts
  <2> QED BY <2>2, <2>3
<1> DEFINE log == t.events
           max == MaxOf(Moves(log, e))
<1>2. n \in Nat /\ m \in Nat /\ Len(log) = n + m /\ log \in Seq(Event)
  BY <1>1, Zenon DEF LogParts
<1>3. old = s.events /\ drafts = req.drafts /\ n = Len(old) /\ m = Len(drafts)
  BY <1>1, Zenon DEF LogParts
<1>4. DOMAIN log = 1..(n + m) /\ DOMAIN old = 1..n /\ DOMAIN drafts = 1..m
  <2>1. old \in Seq(Event) /\ drafts \in Seq(Draft)
    BY <1>3 DEF CommitParts, SessionRecord, Request
  <2> QED BY <1>2, <1>3, <2>1, LenProperties
<1>5. \A i \in (n+1)..(n+m) : i - n \in 1..m /\ log[i].draft = drafts[i - n]
  BY <1>1, Zenon DEF LogParts
<1>6. \A i \in 1..n : log[i] = old[i]
  BY <1>1, Zenon DEF LogParts
<1>7. k \in 1..m /\ drafts[k].type \in MoveTypes /\ drafts[k].effectId = e
  BY <1>3, <1>4
<1>8. n + k \in Moves(log, e)
  <2>1. n + k \in (n+1)..(n+m) /\ (n + k) - n = k
    BY <1>2, <1>7
  <2>2. log[n + k].draft = drafts[k] /\ n + k \in DOMAIN log
    BY <1>2, <1>4, <1>5, <2>1
  <2> QED BY <1>7, <2>2 DEF Moves, TypeAt, MoveTypes
<1>9. max \in Moves(log, e) /\ \A j \in Moves(log, e) : j <= max
  <2>1. Len(log) \in Nat
    BY <1>2
  <2>2. Moves(log, e) \in SUBSET (1..Len(log))
    BY <1>2, <1>4 DEF Moves
  <2> HIDE DEF log
  <2> QED BY <1>8, <2>1, <2>2, MaxOfPositions
<1> HIDE DEF max
<1>10. max \in 1..(n + m) /\ n + k <= max
  BY <1>4, <1>8, <1>9 DEF Moves
<1>11. max \in (n+1)..(n+m)
  BY <1>2, <1>7, <1>10
<1>12. PICK l \in 1..m : l = max - n /\ log[max].draft = drafts[l]
  BY <1>5, <1>11
<1>13. drafts[l].type \in MoveTypes /\ drafts[l].effectId = e /\ TypeAt(log, max) = drafts[l].type
  BY <1>9, <1>12 DEF Moves, TypeAt, MoveTypes
<1>14. Entry(t, e) = StateAfter(log, t.receipts, max)
  BY <1>8 DEF Entry, max
<1>15. ASSUME drafts[l].type = "effect.intended"
       PROVE  Moves(old, e) = {}
  <2>1. MovesBefore(log, e, max) = {}
    <3>1. max \in DOMAIN log /\ log[max].draft.type = "effect.intended"
          /\ log[max].draft.effectId = e
      BY <1>9, <1>12, <1>13, <1>15 DEF Moves
    <3> QED BY <3>1 DEF CommitParts, ContentOf, OutboxOk
  <2>2. ASSUME NEW j \in Moves(old, e) PROVE FALSE
    <3>1. j \in 1..n
      BY <1>4 DEF Moves
    <3>2. log[j] = old[j] /\ j \in DOMAIN log /\ j < max
      BY <1>2, <1>4, <1>6, <1>11, <3>1
    <3>3. j \in MovesBefore(log, e, max)
      BY <2>2, <3>2 DEF MovesBefore, Moves, TypeAt
    <3> QED BY <2>1, <3>3
  <2> QED BY <2>2
<1>16. /\ drafts[l].type = "effect.intended" =>
            Entry(s, e) = "absent" /\ Entry(t, e) = "intended"
       /\ drafts[l].type = "effect.dispatched" => Entry(t, e) = "dispatched"
       /\ drafts[l].type = "receipt.applied" => Entry(t, e) \in {"unknown", "resolved"}
  BY <1>3, <1>13, <1>14, <1>15 DEF Entry, StateAfter
<1>17. l \in DOMAIN drafts
  BY <1>4
<1> QED BY <1>3, <1>13, <1>16, <1>17

\* The outbox gives an effect one of the abstract phases, and the epoch of its content.
LEMMA PhaseAndHome ==
  ASSUME NEW s \in SessionRecord, ContentOf(s), NEW e
  PROVE  /\ Entry(s, e) \in Delivery!Phases
         /\ HomeOf(s, e) \in Epochs \cup {0}
         /\ HomeOf(s, e) = 0 <=> Entry(s, e) = "absent"
<1>1. Entry(s, e) \in Delivery!Phases
  BY DEF Entry, StateAfter, Delivery!Phases
<1>2. ASSUME Entry(s, e) # "absent"
      PROVE  BindingOf(s, e).epoch \in Epochs
  <2>1. PICK f \in s.effects : f.effectId = e
    BY <1>2, PresentHasContent DEF HasContent
  <2>2. BindingOf(s, e) = f.binding
    BY <2>1, BindingOfContent
  <2>3. f \in Effect
    BY DEF SessionRecord
  <2> QED BY <2>2, <2>3 DEF Effect, Binding
<1>3. 0 \notin Epochs
  BY DEF Epochs
<1> QED BY <1>1, <1>2, <1>3 DEF HomeOf

\* An effect that is in the outbox keeps the epoch it was intended for.
LEMMA HomeKept ==
  ASSUME NEW s, NEW t, NEW req, CommitParts(s, t, req), NEW e,
         Entry(s, e) # "absent", Entry(t, e) # "absent"
  PROVE  HomeOf(t, e) = HomeOf(s, e)
<1>1. HasContent(s, e)
  BY PresentHasContent DEF CommitParts
<1>2. BindingOf(t, e) = BindingOf(s, e)
  BY <1>1, BindingKept DEF CommitParts
<1> QED BY <1>2 DEF HomeOf

\* An effect that is in the outbox never leaves it.
LEMMA PresentStays ==
  ASSUME NEW s, NEW t, NEW req, CommitParts(s, t, req), NEW e, Entry(s, e) # "absent"
  PROVE  Entry(t, e) # "absent"
<1>1. CASE \A k \in DOMAIN req.drafts :
             req.drafts[k].type \in MoveTypes => req.drafts[k].effectId # e
  BY <1>1, EntryKept
<1>2. CASE \E k \in DOMAIN req.drafts :
             req.drafts[k].type \in MoveTypes /\ req.drafts[k].effectId = e
  <2>1. PICK l \in DOMAIN req.drafts :
          /\ req.drafts[l].type \in MoveTypes
          /\ req.drafts[l].type = "effect.intended" => Entry(t, e) = "intended"
          /\ req.drafts[l].type = "effect.dispatched" => Entry(t, e) = "dispatched"
          /\ req.drafts[l].type = "receipt.applied" => Entry(t, e) \in {"unknown", "resolved"}
    BY <1>2, EntryMoved
  <2> QED BY <2>1 DEF MoveTypes
<1> QED BY <1>1, <1>2

\* A commit that claims nothing advances every effect the way the abstract delivery allows.
LEMMA CommitAdvances ==
  ASSUME NEW s, NEW t, NEW req, CommitParts(s, t, req), NEW e,
         \A k \in DOMAIN req.drafts : req.drafts[k].type # "effect.dispatched"
  PROVE  Delivery!Advances(Entry(s, e), Entry(t, e))
<1>1. CASE \A k \in DOMAIN req.drafts :
             req.drafts[k].type \in MoveTypes => req.drafts[k].effectId # e
  BY <1>1, EntryKept DEF Delivery!Advances
<1>2. CASE \E k \in DOMAIN req.drafts :
             req.drafts[k].type \in MoveTypes /\ req.drafts[k].effectId = e
  <2>1. PICK l \in DOMAIN req.drafts :
          /\ req.drafts[l].type \in MoveTypes
          /\ req.drafts[l].type = "effect.intended" =>
               Entry(s, e) = "absent" /\ Entry(t, e) = "intended"
          /\ req.drafts[l].type = "receipt.applied" => Entry(t, e) \in {"unknown", "resolved"}
    BY <1>2, EntryMoved
  <2> QED BY <2>1 DEF MoveTypes, Delivery!Advances, Delivery!Reported
<1> QED BY <1>1, <1>2

\* A commit that claims nothing is a transaction of the abstract delivery.
LEMMA CommitTransacts ==
  ASSUME NEW req, CommitParts(session, session', req),
         \A k \in DOMAIN req.drafts : req.drafts[k].type # "effect.dispatched"
  PROVE  Delivery!Transact
<1>1. /\ session \in SessionRecord /\ session' \in SessionRecord
      /\ ContentOf(session) /\ ContentOf(session')
      /\ session'.epoch \in Epochs /\ session'.epoch >= session.epoch
  BY DEF CommitParts
<1>2. \A e : /\ Entry(session', e) \in Delivery!Phases
             /\ HomeOf(session', e) \in Epochs \cup {0}
             /\ HomeOf(session', e) = 0 <=> Entry(session', e) = "absent"
  BY <1>1, PhaseAndHome
<1>3. \A e : Delivery!Advances(Entry(session, e), Entry(session', e))
  BY CommitAdvances
<1>4. \A e : Entry(session, e) # "absent" => HomeOf(session', e) = HomeOf(session, e)
  BY PresentStays, HomeKept
<1>5. [e \in EffectIds |-> Entry(session', e)] \in [EffectIds -> Delivery!Phases]
  BY <1>2
<1>6. [e \in EffectIds |-> HomeOf(session', e)] \in [EffectIds -> Epochs \cup {0}]
  BY <1>2
<1> QED BY <1>1, <1>2, <1>3, <1>4, <1>5, <1>6 DEF Delivery!Transact

\* A dispatch is the claim of the abstract delivery: of an effect that was intended, for the
\* session's epoch, alone in its transaction.
LEMMA DispatchClaims ==
  ASSUME NEW e \in EffectIds, NEW c, NEW ep, NEW req, CommitParts(session, session', req),
         req.drafts = <<PlainDraft("effect.dispatched", c, ep, e)>>, ~ChangesEpoch(req),
         Entry(session, e) = "intended", BindingOf(session, e).epoch = session.epoch
  PROVE  Delivery!Claim(e)
<1>1. DOMAIN req.drafts = {1} /\ req.drafts[1].type = "effect.dispatched"
      /\ req.drafts[1].effectId = e
  BY DEF PlainDraft
<1>2. session'.epoch = session.epoch
  BY DEF CommitParts, EpochAfter
<1>3. Entry(session', e) = "dispatched"
  BY <1>1, EntryMoved DEF MoveTypes
<1>4. \A g : g # e => Entry(session', g) = Entry(session, g)
  BY <1>1, EntryKept
<1>5. \A g : HomeOf(session', g) = HomeOf(session, g)
  <2> SUFFICES ASSUME NEW g PROVE HomeOf(session', g) = HomeOf(session, g)
    OBVIOUS
  <2>1. CASE Entry(session, g) = "absent"
    BY <1>4, <2>1 DEF HomeOf
  <2>2. CASE Entry(session, g) # "absent"
    BY <2>2, PresentStays, HomeKept
  <2> QED BY <2>1, <2>2
<1>6. HomeOf(session, e) = session.epoch
  BY DEF HomeOf
<1> DEFINE phase == [g \in EffectIds |-> Entry(session, g)]
<1>7. [g \in EffectIds |-> Entry(session', g)] = [phase EXCEPT ![e] = "dispatched"]
  BY <1>3, <1>4
<1>8. [g \in EffectIds |-> HomeOf(session', g)] = [g \in EffectIds |-> HomeOf(session, g)]
  BY <1>5
<1> QED BY <1>2, <1>6, <1>7, <1>8 DEF Delivery!Claim

\* The journal and its projection implement the delivery they promise: every transaction of
\* the store is a transaction or a claim of the abstract delivery, or leaves it alone.
THEOREM StoreDelivers == StoreSpec => ImplementsDelivery
<1>1. StoreInit => Delivery!Init
  BY DEF StoreInit, NewSession, Delivery!Init, Entry, HomeOf, Moves
<1>2. RecordTyped /\ JournalReplays /\ ContentMatchesJournal /\ EffectsAppended /\ [StoreNext]_storeVars
        => [Delivery!Next]_(Delivery!vars) /\ EffectsAppended'
  <2> SUFFICES ASSUME RecordTyped, JournalReplays, ContentMatchesJournal, EffectsAppended,
                      [StoreNext]_storeVars
               PROVE  [Delivery!Next]_(Delivery!vars) /\ EffectsAppended'
    OBVIOUS
  <2>0. Revisions \subseteq Nat
    BY DEF Revisions, RecordTyped, SessionRecord
  <2>1. CASE \E a \in Appends, rev \in Revisions : AppendRequest(a, rev)
    <3>1. PICK req : /\ CommitParts(session, session', req)
                     /\ \A k \in DOMAIN req.drafts : req.drafts[k].type # "effect.dispatched"
                     /\ EffectsAppended'
      BY <2>0, <2>1, AppendIsCurrent
    <3> QED BY <3>1, CommitTransacts DEF Delivery!Next
  <2>2. ASSUME NEW e \in EffectIds, NEW c \in ClaimIds, NEW ep \in Epochs,
               NEW rev \in Revisions, DispatchEffect(e, c, ep, rev)
        PROVE  Delivery!Next /\ EffectsAppended'
    <3>1. PICK req : /\ CommitParts(session, session', req)
                     /\ req.drafts = <<PlainDraft("effect.dispatched", c, ep, e)>>
                     /\ EffectsAppended' /\ ~ChangesEpoch(req)
                     /\ BindingOf(session, e).epoch = session.epoch
      BY <2>0, <2>2, DispatchIsCurrent
    <3>2. Entry(session, e) = "intended"
      BY <2>2 DEF DispatchEffect
    <3>3. Delivery!Claim(e)
      BY <3>1, <3>2, DispatchClaims
    <3> QED BY <3>1, <3>3 DEF Delivery!Next
  <2>3. ASSUME NEW r \in Receivable, NEW ep \in Epochs, NEW rev \in Revisions,
               ApplyReceipt(r, ep, rev)
        PROVE  Delivery!Next /\ EffectsAppended'
    <3>1. PICK req : /\ CommitParts(session, session', req)
                     /\ \A k \in DOMAIN req.drafts : req.drafts[k].type # "effect.dispatched"
                     /\ EffectsAppended'
      BY <2>0, <2>3, ReceiptIsCurrent
    <3> QED BY <3>1, CommitTransacts DEF Delivery!Next
  <2>4. CASE UNCHANGED storeVars
    BY <2>4 DEF storeVars, EffectsAppended, Delivery!vars
  <2> QED BY <2>1, <2>2, <2>3, <2>4 DEF StoreNext, ReconcileEffect
<1>3. StoreInit => EffectsAppended
  BY DEF StoreInit, NewSession, EffectsAppended
<1> QED BY <1>1, <1>2, <1>3, TypeCorrect, JournalAlwaysReplays, ContentAlwaysMatches, PTL
      DEF StoreSpec, ImplementsDelivery, Delivery!Spec

-----------------------------------------------------------------------------
(* Recovery.                                                                 *)

\* What holds of 0 and is passed on holds up to n.
LEMMA Induction ==
  ASSUME NEW n \in Nat, NEW P, 0 \in P, \A i \in 0..(n - 1) : i \in P => i + 1 \in P
  PROVE  \A i \in 0..n : i \in P
<1> DEFINE T == {i \in 0..n : i \notin P}
<1> SUFFICES ASSUME T # {} PROVE FALSE
  OBVIOUS
<1> DEFINE upTo(k) == 0..k
           U == {upTo(k) : k \in T}
           finite == FiniteSubsetsOf(0..n)
<1>a. U \subseteq finite /\ U # {}
  <2>1. \A k \in T : IsFiniteSet(upTo(k)) /\ upTo(k) \subseteq 0..n
    BY FS_Interval
  <2> QED BY <2>1 DEF FiniteSubsetsOf
<1>b. \E x \in U : \A y \in U : <<y, x>> \notin StrictSubsetOrdering(0..n)
  <2>1. IsWellFoundedOn(StrictSubsetOrdering(0..n), finite)
    BY FS_StrictSubsetOrderingWellFounded
  <2> HIDE DEF U, finite
  <2> QED BY <1>a, <2>1, WFMin
<1>1. PICK m \in T : \A k \in T : <<upTo(k), upTo(m)>> \notin StrictSubsetOrdering(0..n)
  BY <1>b
<1>2. ASSUME NEW k \in T, k < m PROVE FALSE
  <2>1. upTo(k) \subseteq upTo(m) /\ upTo(k) # upTo(m) /\ upTo(m) \subseteq 0..n
    BY <1>2
  <2> HIDE DEF upTo
  <2>2. <<upTo(k), upTo(m)>> \in StrictSubsetOrdering(0..n)
    BY <2>1 DEF StrictSubsetOrdering
  <2> QED BY <1>1, <2>2
<1>3. m # 0 /\ m - 1 \in 0..(n - 1)
  OBVIOUS
<1>4. m - 1 \in P
  BY <1>2, <1>3
<1> QED BY <1>3, <1>4

\* Replay starts from the seed and goes event by event (projection.ts, replay).
LEMMA ProjectionsUnfold ==
  ASSUME NEW st, NEW S, NEW events \in Seq(S)
  PROVE  /\ Projections(st, events)[0] = st
         /\ \A i \in 1..Len(events) : Projections(st, events)[i] = ReplayEvent(Projections(st, events)[i - 1], events[i])
<1> DEFINE n == Len(events)
           Rec(f, k) == f = [i \in 0..k |-> IF i = 0 THEN st ELSE ReplayEvent(f[i - 1], events[i])]
           Exists(k) == \E f : Rec(f, k)
           P == {k \in 0..n : Exists(k)}
<1>1. n \in Nat
  OBVIOUS
<1>2. 0 \in P
  <2>1. Rec([i \in 0..0 |-> st], 0)
    OBVIOUS
  <2>2. Exists(0)
    <3> HIDE DEF Rec
    <3> QED BY <2>1
  <2> HIDE DEF Exists
  <2> QED BY <1>1, <2>2
<1>3. ASSUME NEW k \in 0..(n - 1), k \in P PROVE k + 1 \in P
  <2>1. PICK f : Rec(f, k)
    <3> HIDE DEF Rec
    <3> QED BY <1>3
  <2> DEFINE g == [i \in 0..(k + 1) |-> IF i = k + 1 THEN ReplayEvent(f[k], events[k + 1]) ELSE f[i]]
  <2>2. \A i \in 0..(k + 1) : g[i] = IF i = 0 THEN st ELSE ReplayEvent(g[i - 1], events[i])
    <3> SUFFICES ASSUME NEW i \in 0..(k + 1) PROVE g[i] = IF i = 0 THEN st ELSE ReplayEvent(g[i - 1], events[i])
      OBVIOUS
    <3>1. CASE i = k + 1
      BY <1>1, <3>1
    <3>2. CASE i # k + 1
      <4>1. i \in 0..k /\ g[i] = f[i] /\ (i # 0 => g[i - 1] = f[i - 1])
        BY <1>1, <3>2
      <4>2. f[i] = IF i = 0 THEN st ELSE ReplayEvent(f[i - 1], events[i])
        BY <2>1, <4>1
      <4> QED BY <4>1, <4>2
    <3> QED BY <3>1, <3>2
  <2>3. Rec(g, k + 1)
    BY <2>2
  <2>4. Exists(k + 1)
    <3> HIDE DEF Rec, g
    <3> QED BY <2>3
  <2> HIDE DEF Exists
  <2> QED BY <1>1, <2>4
<1>4. n \in P
  <2> HIDE DEF P, n
  <2>1. \A i \in 0..(n - 1) : i \in P => i + 1 \in P
    BY <1>3
  <2>2. \A i \in 0..n : i \in P
    BY <1>1, <1>2, <2>1, Induction
  <2> QED BY <1>1, <2>2
<1>5. PICK f : Rec(f, n)
  <2> HIDE DEF Rec, n
  <2> QED BY <1>4
<1>6. Rec(Projections(st, events), n)
  BY <1>5 DEF Projections
<1> QED BY <1>1, <1>6

\* A revival starts from a new session and goes request by request (store-recovery.ts).
LEMMA RecommitsUnfold ==
  ASSUME NEW st, NEW S, NEW events \in Seq(S)
  PROVE  /\ Recommits(st, events)[0] = st
         /\ \A i \in 1..Len(events) : Recommits(st, events)[i] = Recommit(Recommits(st, events)[i - 1], events[i])
<1> DEFINE n == Len(events)
           Rec(f, k) == f = [i \in 0..k |-> IF i = 0 THEN st ELSE Recommit(f[i - 1], events[i])]
           Exists(k) == \E f : Rec(f, k)
           P == {k \in 0..n : Exists(k)}
<1>1. n \in Nat
  OBVIOUS
<1>2. 0 \in P
  <2>1. Rec([i \in 0..0 |-> st], 0)
    OBVIOUS
  <2>2. Exists(0)
    <3> HIDE DEF Rec
    <3> QED BY <2>1
  <2> HIDE DEF Exists
  <2> QED BY <1>1, <2>2
<1>3. ASSUME NEW k \in 0..(n - 1), k \in P PROVE k + 1 \in P
  <2>1. PICK f : Rec(f, k)
    <3> HIDE DEF Rec
    <3> QED BY <1>3
  <2> DEFINE g == [i \in 0..(k + 1) |-> IF i = k + 1 THEN Recommit(f[k], events[k + 1]) ELSE f[i]]
  <2>2. \A i \in 0..(k + 1) : g[i] = IF i = 0 THEN st ELSE Recommit(g[i - 1], events[i])
    <3> SUFFICES ASSUME NEW i \in 0..(k + 1) PROVE g[i] = IF i = 0 THEN st ELSE Recommit(g[i - 1], events[i])
      OBVIOUS
    <3>1. CASE i = k + 1
      BY <1>1, <3>1
    <3>2. CASE i # k + 1
      <4>1. i \in 0..k /\ g[i] = f[i] /\ (i # 0 => g[i - 1] = f[i - 1])
        BY <1>1, <3>2
      <4>2. f[i] = IF i = 0 THEN st ELSE Recommit(f[i - 1], events[i])
        BY <2>1, <4>1
      <4> QED BY <4>1, <4>2
    <3> QED BY <3>1, <3>2
  <2>3. Rec(g, k + 1)
    BY <2>2
  <2>4. Exists(k + 1)
    <3> HIDE DEF Rec, g
    <3> QED BY <2>3
  <2> HIDE DEF Exists
  <2> QED BY <1>1, <2>4
<1>4. n \in P
  <2> HIDE DEF P, n
  <2>1. \A i \in 0..(n - 1) : i \in P => i + 1 \in P
    BY <1>3
  <2>2. \A i \in 0..n : i \in P
    BY <1>1, <1>2, <2>1, Induction
  <2> QED BY <1>1, <2>2
<1>5. PICK f : Rec(f, n)
  <2> HIDE DEF Rec, n
  <2> QED BY <1>4
<1>6. Rec(Recommits(st, events), n)
  BY <1>5 DEF Recommits
<1> QED BY <1>1, <1>6

\* What two logs share they replay alike.
LEMMA ProjectionsAgree ==
  ASSUME NEW st, NEW S, NEW a \in Seq(S), NEW b \in Seq(S), NEW n \in Nat,
         n <= Len(a), n <= Len(b), \A i \in 1..n : a[i] = b[i]
  PROVE  \A i \in 0..n : Projections(st, a)[i] = Projections(st, b)[i]
<1> DEFINE p == Projections(st, a)
           q == Projections(st, b)
           P == {i \in 0..n : p[i] = q[i]}
<1>1. /\ p[0] = st /\ \A i \in 1..Len(a) : p[i] = ReplayEvent(p[i - 1], a[i])
      /\ q[0] = st /\ \A i \in 1..Len(b) : q[i] = ReplayEvent(q[i - 1], b[i])
      /\ Len(a) \in Nat /\ Len(b) \in Nat
  BY ProjectionsUnfold, LenProperties
<1> HIDE DEF p, q
<1>2. 0 \in P
  BY <1>1
<1>3. ASSUME NEW i \in 0..(n - 1), i \in P PROVE i + 1 \in P
  <2>1. i + 1 \in 1..n /\ i + 1 \in 1..Len(a) /\ i + 1 \in 1..Len(b) /\ (i + 1) - 1 = i
    BY <1>1
  <2>2. p[i + 1] = ReplayEvent(p[i], a[i + 1]) /\ q[i + 1] = ReplayEvent(q[i], b[i + 1])
    BY <1>1, <2>1
  <2> QED BY <1>3, <2>1, <2>2
<1>4. \A i \in 0..n : i \in P
  <2> HIDE DEF P
  <2> QED BY <1>2, <1>3, Induction
<1> QED BY <1>4 DEF p, q

\* To replay the rest of a log from the projection of its beginning is to replay the whole.
LEMMA ReplayContinues ==
  ASSUME NEW st, NEW S, NEW log \in Seq(S), NEW m \in 0..Len(log)
  PROVE  /\ ReplayFrom(st, SubSeq(log, 1, m)) = Projections(st, log)[m]
         /\ ReplayFrom(Projections(st, log)[m], SubSeq(log, m + 1, Len(log))) = ReplayFrom(st, log)
<1> DEFINE first == SubSeq(log, 1, m)
           rest == SubSeq(log, m + 1, Len(log))
           p == Projections(st, log)
           q == Projections(p[m], rest)
           k == Len(log) - m
           P == {i \in 0..k : q[i] = p[m + i]}
<1>1. Len(log) \in Nat /\ m \in Nat /\ m <= Len(log) /\ k \in Nat
  BY LenProperties
<1>2. first \in Seq(S) /\ Len(first) = m /\ \A i \in 1..m : first[i] = log[i]
  BY <1>1, SubSeqProperties
<1>3. rest \in Seq(S) /\ Len(rest) = k /\ \A i \in 1..k : rest[i] = log[m + i]
  BY <1>1, SubSeqProperties
<1> HIDE DEF first, rest
<1>4. p[0] = st /\ \A i \in 1..Len(log) : p[i] = ReplayEvent(p[i - 1], log[i])
  BY ProjectionsUnfold
<1>5. q[0] = p[m] /\ \A i \in 1..k : q[i] = ReplayEvent(q[i - 1], rest[i])
  <2> HIDE DEF p
  <2>1. q[0] = p[m] /\ \A i \in 1..Len(rest) : q[i] = ReplayEvent(q[i - 1], rest[i])
    BY <1>3, ProjectionsUnfold
  <2> QED BY <1>3, <2>1
<1>6. ReplayFrom(st, first) = p[m]
  <2>1. \A i \in 0..m : Projections(st, first)[i] = p[i]
    <3>1. m <= Len(first) /\ m <= Len(log)
      BY <1>1, <1>2
    <3> QED BY <1>1, <1>2, <3>1, ProjectionsAgree
  <2> QED BY <1>1, <1>2, <2>1 DEF ReplayFrom
<1>7. ReplayFrom(p[m], rest) = p[Len(log)]
  <2> HIDE DEF p, q
  <2>1. 0 \in P
    BY <1>1, <1>5
  <2>2. ASSUME NEW i \in 0..(k - 1), i \in P PROVE i + 1 \in P
    <3>1. /\ i + 1 \in 1..k /\ (i + 1) - 1 = i /\ m + (i + 1) \in 1..Len(log)
          /\ (m + (i + 1)) - 1 = m + i
      BY <1>1
    <3>2. q[i + 1] = ReplayEvent(q[i], rest[i + 1]) /\ p[m + (i + 1)] = ReplayEvent(p[m + i], log[m + (i + 1)])
      BY <1>4, <1>5, <3>1
    <3>3. rest[i + 1] = log[m + (i + 1)]
      BY <1>3, <3>1
    <3> QED BY <2>2, <3>1, <3>2, <3>3
  <2>3. \A i \in 0..k : i \in P
    <3> HIDE DEF P, k
    <3> QED BY <1>1, <2>1, <2>2, Induction
  <2>4. q[k] = p[m + k] /\ m + k = Len(log)
    BY <1>1, <2>3
  <2> QED BY <1>3, <2>4 DEF ReplayFrom, q
<1> QED BY <1>6, <1>7 DEF ReplayFrom, first, rest

\* What the reducer knows after the first i events of a log it accepts: the positions of the
\* last one and, of every node it has an entry for, the state of its last transition.
ProjectsTo(log, start, i, st) ==
  /\ st.ok = TRUE
  /\ st.revision = RevisionBefore(log, i + 1) /\ st.epoch = EpochBefore(log, start, i + 1)
  /\ st.lastSequence = i - 1
  /\ \A n \in st.nodeStates :
       /\ TransitionsBefore(log, n.node, i + 1) # {}
       /\ n.state = log[MaxOf(TransitionsBefore(log, n.node, i + 1))].draft.after

\* An event the log replays at is accepted, and projected to what the next one meets.
LEMMA EventProjects ==
  ASSUME NEW log \in Seq(Event), NEW start, NEW i \in 0..(Len(log) - 1),
         NEW st, ProjectsTo(log, start, i, st), ReplaysAt(log, start, i + 1)
  PROVE  ProjectsTo(log, start, i + 1, ReplayEvent(st, log[i + 1]))
<1> DEFINE ev == log[i + 1]
           d == ev.draft
           next == ReplayEvent(st, ev)
           before(n) == TransitionsBefore(log, n, i + 1)
           through(n) == TransitionsBefore(log, n, (i + 1) + 1)
<1>1. /\ Len(log) \in Nat /\ i \in Nat /\ i + 1 \in DOMAIN log /\ DOMAIN log = 1..Len(log)
      /\ (i + 1) - 1 = i /\ ((i + 1) + 1) - 1 = i + 1 /\ (i + 1) + 1 # 1
  BY LenProperties
<1>2. EventAccepted(st, ev)
  <2>1. ev.sequence = st.lastSequence + 1
    BY <1>1 DEF ReplaysAt, ProjectsTo
  <2>2. ev.revision \in {st.revision, st.revision + 1}
    BY DEF ReplaysAt, ProjectsTo
  <2>3. IF d.type = "session.epoch-changed" THEN d.epoch > st.epoch ELSE d.epoch = st.epoch
    BY DEF ReplaysAt, ProjectsTo
  <2>4. ASSUME d.type = "node.transition", NEW n \in st.nodeStates, n.node = d.node
        PROVE  n.state = d.before
    BY <2>4 DEF ReplaysAt, ProjectsTo
  <2>5. d.type = "node.transition" => d.node # Absent /\ d.after # Absent
    BY DEF ReplaysAt
  <2> QED BY <2>1, <2>2, <2>3, <2>4, <2>5 DEF EventAccepted
<1>3. next = [ok |-> TRUE, revision |-> ev.revision, epoch |-> d.epoch, lastSequence |-> ev.sequence,
              dispatchMode |-> DispatchModeFor(d.type, st.dispatchMode),
              nodeStates |-> NodeStatesAfter(st, ev)]
  BY <1>2 DEF ReplayEvent, ProjectsTo
<1>4. /\ next.revision = RevisionBefore(log, (i + 1) + 1)
      /\ next.epoch = EpochBefore(log, start, (i + 1) + 1)
      /\ next.lastSequence = (i + 1) - 1
  BY <1>1, <1>3 DEF RevisionBefore, EpochBefore, ReplaysAt
<1>5. ASSUME NEW n, ~(d.type = "node.transition" /\ d.node = n) PROVE through(n) = before(n)
  BY <1>1, <1>5 DEF TransitionsBefore, TypeAt
<1>6. ASSUME d.type = "node.transition" PROVE through(d.node) # {} /\ MaxOf(through(d.node)) = i + 1
  <2>1. i + 1 \in through(d.node) /\ through(d.node) \in SUBSET (1..Len(log))
    BY <1>1, <1>6 DEF TransitionsBefore, TypeAt
  <2>2. \A j \in through(d.node) : j <= i + 1
    BY <1>1 DEF TransitionsBefore
  <2>3. MaxOf(through(d.node)) \in through(d.node) /\ i + 1 <= MaxOf(through(d.node))
    <3> HIDE DEF through
    <3> QED BY <1>1, <2>1, MaxOfPositions
  <2>4. MaxOf(through(d.node)) <= i + 1 /\ MaxOf(through(d.node)) \in Nat
    BY <1>1, <2>1, <2>2, <2>3
  <2> HIDE DEF through
  <2> QED BY <1>1, <2>1, <2>3, <2>4
<1>7. ASSUME NEW n \in next.nodeStates
      PROVE  through(n.node) # {} /\ n.state = log[MaxOf(through(n.node))].draft.after
  <2>1. n \in NodeStatesAfter(st, ev)
    BY <1>3, <1>7
  <2>2. CASE n \in st.nodeStates /\ ~(d.type = "node.transition" /\ d.node = n.node)
    BY <1>5, <2>2 DEF ProjectsTo
  <2>3. CASE d.type = "node.transition" /\ n.node = d.node /\ n.state = d.after
    BY <1>6, <2>3
  <2> HIDE DEF through, before, next
  <2> QED BY <2>1, <2>2, <2>3 DEF NodeStatesAfter
<1>8. next.ok = TRUE
  BY <1>3
<1> QED BY <1>1, <1>4, <1>7, <1>8 DEF ProjectsTo

\* The reducer accepts every log that replays, and ends at the positions of its last event.
LEMMA ReplayAccepts ==
  ASSUME NEW log \in Seq(Event), NEW start, ReplayOk(log, start)
  PROVE  ProjectsTo(log, start, Len(log), ReplayFrom(EmptyReplayState(start), log))
<1> DEFINE p == Projections(EmptyReplayState(start), log)
           P == {i \in 0..Len(log) : ProjectsTo(log, start, i, p[i])}
<1>1. Len(log) \in Nat /\ DOMAIN log = 1..Len(log)
  BY LenProperties
<1>2. p[0] = EmptyReplayState(start) /\ \A i \in 1..Len(log) : p[i] = ReplayEvent(p[i - 1], log[i])
  BY ProjectionsUnfold
<1> HIDE DEF p
<1>3. 0 \in P
  BY <1>1, <1>2 DEF EmptyReplayState, ProjectsTo, RevisionBefore, EpochBefore
<1>4. ASSUME NEW i \in 0..(Len(log) - 1), i \in P PROVE i + 1 \in P
  <2>1. i + 1 \in 1..Len(log) /\ (i + 1) - 1 = i
    BY <1>1
  <2>2. p[i + 1] = ReplayEvent(p[i], log[i + 1])
    BY <1>2, <2>1
  <2>3. ReplaysAt(log, start, i + 1)
    BY <1>1, <2>1 DEF ReplayOk
  <2> QED BY <1>4, <2>1, <2>2, <2>3, EventProjects
<1>5. \A i \in 0..Len(log) : i \in P
  <2> HIDE DEF P
  <2> QED BY <1>1, <1>3, <1>4, Induction
<1> QED BY <1>1, <1>5 DEF ReplayFrom, p

\* What two lists of requests share they recommit alike.
LEMMA RecommitsAgree ==
  ASSUME NEW st, NEW S, NEW a \in Seq(S), NEW b \in Seq(S), NEW n \in Nat,
         n <= Len(a), n <= Len(b), \A i \in 1..n : a[i] = b[i]
  PROVE  \A i \in 0..n : Recommits(st, a)[i] = Recommits(st, b)[i]
<1> DEFINE p == Recommits(st, a)
           q == Recommits(st, b)
           P == {i \in 0..n : p[i] = q[i]}
<1>1. /\ p[0] = st /\ \A i \in 1..Len(a) : p[i] = Recommit(p[i - 1], a[i])
      /\ q[0] = st /\ \A i \in 1..Len(b) : q[i] = Recommit(q[i - 1], b[i])
      /\ Len(a) \in Nat /\ Len(b) \in Nat
  BY RecommitsUnfold, LenProperties
<1> HIDE DEF p, q
<1>2. 0 \in P
  BY <1>1
<1>3. ASSUME NEW i \in 0..(n - 1), i \in P PROVE i + 1 \in P
  <2>1. i + 1 \in 1..n /\ i + 1 \in 1..Len(a) /\ i + 1 \in 1..Len(b) /\ (i + 1) - 1 = i
    BY <1>1
  <2>2. p[i + 1] = Recommit(p[i], a[i + 1]) /\ q[i + 1] = Recommit(q[i], b[i + 1])
    BY <1>1, <2>1
  <2> QED BY <1>3, <2>1, <2>2
<1>4. \A i \in 0..n : i \in P
  <2> HIDE DEF P
  <2> QED BY <1>2, <1>3, Induction
<1> QED BY <1>4 DEF p, q

Entries == Seq([requestId : RequestKeys, request : Request])

\* A record that requests were committed to, from an epoch nobody checked: where its log stands.
Positioned(s, i) ==
  s # Refused => s.events \in Seq(Event) /\ s.revision = i /\ s.lastSequence = Len(s.events) - 1

\* A recommitted request grows the log by its drafts and the revision by one.
LEMMA RecommitGrows ==
  ASSUME NEW s, NEW i \in Nat, Positioned(s, i),
         NEW entry \in [requestId : RequestKeys, request : Request], Recommit(s, entry) # Refused
  PROVE  /\ s # Refused /\ Admissible(s, entry.requestId, entry.request)
         /\ Recommit(s, entry) = AfterCommit(s, entry.requestId, entry.request)
         /\ Positioned(Recommit(s, entry), i + 1)
         /\ Len(Recommit(s, entry).events) = Len(s.events) + Len(entry.request.drafts)
<1>0. PICK id, req : id = entry.requestId /\ req = entry.request /\ req \in Request
  <2>1. entry.request \in Request
    OBVIOUS
  <2> QED BY <2>1
<1>1. /\ s # Refused /\ Admissible(s, id, req)
      /\ Recommit(s, entry) = AfterCommit(s, id, req)
  BY <1>0 DEF Recommit
<1>2. s.events \in Seq(Event) /\ s.revision = i /\ s.lastSequence = Len(s.events) - 1
  BY <1>1 DEF Positioned
<1>3. PICK t \in SessionRecord : t.events = s.events /\ t.revision = s.revision /\ t.lastSequence = s.lastSequence
  <2> DEFINE t == [NewSession(InitialEpoch) EXCEPT !.events = s.events, !.revision = s.revision,
                                                   !.lastSequence = s.lastSequence]
  <2>1. Len(s.events) \in Nat
    BY <1>2, LenProperties
  <2>2. s.lastSequence \in Nat \cup {-1}
    BY <1>2, <2>1
  <2>3. t \in SessionRecord
    BY <1>2, <2>2, ConstantsAssumption, EmptySeq DEF NewSession, SessionRecord
  <2> QED BY <2>3 DEF NewSession
<1>4. LogAfter(s, req) = LogAfter(t, req)
  BY <1>3 DEF LogAfter, Stamped
<1>5. LogAfter(s, req) \in Seq(Event) /\ Len(LogAfter(s, req)) = Len(s.events) + Len(req.drafts)
  <2>1. PICK log, old, drafts, n, m : LogParts(t, req, log, old, drafts, n, m)
    BY <1>0, <1>3, LogAfterCommit, Zenon
  <2>2. /\ log = LogAfter(t, req) /\ old = t.events /\ drafts = req.drafts
        /\ n = Len(old) /\ m = Len(drafts) /\ log \in Seq(Event) /\ Len(log) = n + m
    BY <2>1, Zenon DEF LogParts
  <2> QED BY <1>3, <1>4, <2>2
<1>6. Len(s.events) \in Nat /\ Len(req.drafts) \in Nat
  BY <1>2, LenProperties DEF Request
<1>7. s.lastSequence + Len(req.drafts) = Len(LogAfter(s, req)) - 1
  BY <1>2, <1>5, <1>6
<1>8. /\ AfterCommit(s, id, req).events = LogAfter(s, req)
      /\ AfterCommit(s, id, req).revision = i + 1
      /\ AfterCommit(s, id, req).lastSequence = Len(LogAfter(s, req)) - 1
  BY <1>2, <1>7 DEF AfterCommit
<1>9. Positioned(AfterCommit(s, id, req), i + 1)
  BY <1>5, <1>8 DEF Positioned
<1> QED BY <1>0, <1>1, <1>5, <1>8, <1>9

\* Recommitting i requests reaches revision i.
LEMMA RecommitsReach ==
  ASSUME NEW e, NEW entries \in Entries
  PROVE  \A i \in 0..Len(entries) : Positioned(Recommits(NewSession(e), entries)[i], i)
<1> DEFINE r == Recommits(NewSession(e), entries)
           P == {i \in 0..Len(entries) : Positioned(r[i], i)}
<1>1. /\ r[0] = NewSession(e) /\ \A i \in 1..Len(entries) : r[i] = Recommit(r[i - 1], entries[i])
      /\ Len(entries) \in Nat
  BY RecommitsUnfold, LenProperties DEF Entries
<1> HIDE DEF r
<1>2. 0 \in P
  <2>1. r[0].events = <<>> /\ r[0].revision = 0 /\ r[0].lastSequence = -1
    BY <1>1 DEF NewSession
  <2>2. <<>> \in Seq(Event) /\ Len(<<>>) = 0
    BY EmptySeq
  <2>3. Positioned(r[0], 0)
    BY <2>1, <2>2 DEF Positioned
  <2> QED BY <1>1, <2>3
<1>3. ASSUME NEW i \in 0..(Len(entries) - 1), i \in P PROVE i + 1 \in P
  <2>1. i \in Nat /\ i + 1 \in 1..Len(entries) /\ (i + 1) - 1 = i
    BY <1>1
  <2>2. entries[i + 1] \in [requestId : RequestKeys, request : Request]
    BY <2>1, ElementOfSeq DEF Entries
  <2>3. r[i + 1] = Recommit(r[i], entries[i + 1])
    BY <1>1, <2>1
  <2>4. CASE r[i + 1] = Refused
    BY <2>1, <2>4 DEF Positioned
  <2>5. CASE r[i + 1] # Refused
    <3>1. Positioned(r[i], i)
      BY <1>3
    <3>2. Recommit(r[i], entries[i + 1]) # Refused
      BY <2>3, <2>5
    <3>3. Positioned(Recommit(r[i], entries[i + 1]), i + 1)
      BY <2>1, <2>2, <3>1, <3>2, RecommitGrows
    <3> QED BY <2>1, <2>3, <3>3
  <2> QED BY <2>4, <2>5
<1>4. \A i \in 0..Len(entries) : i \in P
  <2> HIDE DEF P
  <2> QED BY <1>1, <1>2, <1>3, Induction
<1> QED BY <1>4 DEF r

\* How many events the requests make does not depend on the epoch they are recommitted from.
LEMMA RecommitsMakeAsMany ==
  ASSUME NEW e, NEW f, NEW entries \in Entries,
         Recommits(NewSession(e), entries)[Len(entries)] # Refused,
         Recommits(NewSession(f), entries)[Len(entries)] # Refused
  PROVE  Len(Recommits(NewSession(e), entries)[Len(entries)].events)
           = Len(Recommits(NewSession(f), entries)[Len(entries)].events)
<1> DEFINE r == Recommits(NewSession(e), entries)
           q == Recommits(NewSession(f), entries)
           Same(i) == r[i] # Refused /\ q[i] # Refused => Len(r[i].events) = Len(q[i].events)
           P == {i \in 0..Len(entries) : Same(i)}
<1>1. /\ r[0] = NewSession(e) /\ \A i \in 1..Len(entries) : r[i] = Recommit(r[i - 1], entries[i])
      /\ q[0] = NewSession(f) /\ \A i \in 1..Len(entries) : q[i] = Recommit(q[i - 1], entries[i])
      /\ Len(entries) \in Nat
  BY RecommitsUnfold, LenProperties DEF Entries
<1>2. \A i \in 0..Len(entries) : Positioned(r[i], i) /\ Positioned(q[i], i)
  BY RecommitsReach
<1> HIDE DEF r, q
<1>3. 0 \in P
  BY <1>1 DEF NewSession
<1>4. ASSUME NEW i \in 0..(Len(entries) - 1), i \in P PROVE i + 1 \in P
  <2>1. i \in Nat /\ i \in 0..Len(entries) /\ i + 1 \in 1..Len(entries) /\ (i + 1) - 1 = i
    BY <1>1
  <2>2. entries[i + 1] \in [requestId : RequestKeys, request : Request]
    BY <2>1, ElementOfSeq DEF Entries
  <2>3. /\ r[i + 1] = Recommit(r[i], entries[i + 1])
        /\ q[i + 1] = Recommit(q[i], entries[i + 1])
    BY <1>1, <2>1
  <2>5. ASSUME r[i + 1] # Refused, q[i + 1] # Refused PROVE Len(r[i + 1].events) = Len(q[i + 1].events)
    <3>1. r[i] # Refused /\ Len(r[i + 1].events) = Len(r[i].events) + Len(entries[i + 1].request.drafts)
      BY <1>2, <2>1, <2>2, <2>3, <2>5, RecommitGrows
    <3>2. q[i] # Refused /\ Len(q[i + 1].events) = Len(q[i].events) + Len(entries[i + 1].request.drafts)
      BY <1>2, <2>1, <2>2, <2>3, <2>5, RecommitGrows
    <3> QED BY <1>4, <3>1, <3>2
  <2> QED BY <2>1, <2>5
<1>5. \A i \in 0..Len(entries) : i \in P
  <2> HIDE DEF P
  <2> QED BY <1>1, <1>3, <1>4, Induction
<1>6. Same(Len(entries))
  BY <1>1, <1>5
<1> QED BY <1>6 DEF r, q

\* The records a store may hold: the caches are the replay of the log, content and log agree, no
\* identity occurs twice, and the requests, committed again, make the record.
Sound(s) ==
  /\ s \in SessionRecord
  /\ ReplaysToCache(s.events, s.epoch, s.revision, s.lastSequence)
  /\ OutboxOk(s.events, s.effects, s.receipts)
  /\ IdentitiesUnique(s.effects, s.receipts)
  /\ ContentJournaled(s.events, s.effects, s.receipts)
  /\ EventsHaveContent(s.events, s.effects, s.receipts)
  /\ \A i, j \in DOMAIN s.events :
       s.events[i].draft.eventId = s.events[j].draft.eventId => i = j
  /\ Len(s.requests) = s.revision
  /\ \A i, j \in DOMAIN s.requests :
       s.requests[i].requestId = s.requests[j].requestId => i = j
  /\ Indexed(ExportOf(s)) = s
  /\ s.events = <<>> => s = NewSession(s.epoch)

LEMMA RecordIsNotRefused ==
  ASSUME NEW s \in SessionRecord
  PROVE  s # Refused
<1>1. DOMAIN s = {"epoch", "revision", "lastSequence", "events", "effects", "receipts", "requests"}
  BY DEF SessionRecord
<1>2. DOMAIN Refused = {"ok"}
  BY DEF Refused
<1> QED BY <1>1, <1>2

\* The projection of a nonempty journal carries what the record caches.
LEMMA JournalProjects ==
  ASSUME NEW s, Sound(s), s.events # <<>>
  PROVE  /\ Replay(s.events).ok = TRUE /\ Replay(s.events).epoch = s.epoch
         /\ Replay(s.events).revision = s.revision
         /\ Replay(s.events).lastSequence = s.lastSequence
         /\ s.lastSequence = Len(s.events) - 1
<1>1. PICK log \in Seq(Event) : log = s.events
  BY DEF Sound, SessionRecord
<1>2. Len(log) \in Nat /\ Len(log) > 0
  BY <1>1, LenProperties, EmptySeq
<1>3. /\ s.lastSequence = Len(log) - 1 /\ ReplayOk(log, Baseline(log))
      /\ s.epoch = log[Len(log)].draft.epoch /\ s.revision = log[Len(log)].revision
  BY <1>1, <1>2 DEF Sound, ReplaysToCache
<1>4. ProjectsTo(log, Baseline(log), Len(log), Replay(log))
  BY <1>3, ReplayAccepts DEF Replay
<1>5. Len(log) + 1 # 1 /\ (Len(log) + 1) - 1 = Len(log)
  BY <1>2
<1> QED BY <1>1, <1>3, <1>4, <1>5 DEF ProjectsTo, RevisionBefore, EpochBefore

\* An export of a sound record replays to the positions it is exported with.
LEMMA ExportReplays ==
  ASSUME NEW s, Sound(s)
  PROVE  LET x == ExportedReplay(ExportOf(s)) IN
           x.ok = TRUE /\ x.epoch = s.epoch /\ x.revision = s.revision /\ x.lastSequence = s.lastSequence
<1>1. ExportOf(s).events = s.events /\ ExportOf(s).epoch = s.epoch
  BY DEF ExportOf
<1>2. CASE s.events = <<>>
  <2>1. s = NewSession(s.epoch)
    BY <1>2 DEF Sound
  <2>2. s.revision = 0 /\ s.lastSequence = -1
    BY <2>1 DEF NewSession
  <2> QED BY <1>1, <1>2, <2>2 DEF ExportedReplay, EmptyReplayState
<1>3. CASE s.events # <<>>
  BY <1>1, <1>3, JournalProjects DEF ExportedReplay
<1> QED BY <1>2, <1>3

\* Every export of a sound record is accepted by reviveSession and comes back as it was.
LEMMA SoundRevives ==
  ASSUME NEW s, Sound(s)
  PROVE  CanRevive(ExportOf(s)) /\ Revived(ExportOf(s)) = s
<1> DEFINE x == ExportOf(s)
<1>1. /\ x.epoch = s.epoch /\ x.revision = s.revision /\ x.events = s.events /\ x.effects = s.effects
      /\ x.receipts = s.receipts /\ x.requests = s.requests
  BY DEF ExportOf
<1>2. /\ ExportedReplay(x).ok = TRUE /\ ExportedReplay(x).epoch = s.epoch
      /\ ExportedReplay(x).revision = s.revision /\ ExportedReplay(x).lastSequence = s.lastSequence
  BY ExportReplays
<1>3. s \in SessionRecord /\ Indexed(x) = s /\ OutboxOk(x.events, x.effects, x.receipts)
  BY <1>1 DEF Sound
<1> HIDE DEF x
<1>4. IdentitiesOk(x)
  BY <1>1 DEF IdentitiesOk, Sound, IdentitiesUnique
<1>5. MetadataOk(x)
  BY <1>1, <1>2 DEF MetadataOk
<1>6. Reproduces(x)
  BY <1>1, <1>3, RecordIsNotRefused DEF Reproduces
<1>7. Revived(x) = s
  <2>1. Revived(x) = [epoch |-> s.epoch, revision |-> s.revision, lastSequence |-> s.lastSequence,
                      events |-> s.events, effects |-> s.effects, receipts |-> s.receipts,
                      requests |-> s.requests]
    BY <1>1, <1>2, <1>3 DEF Revived
  <2> QED BY <1>3, <2>1 DEF SessionRecord
<1>8. CanRevive(x)
  BY <1>3, <1>4, <1>5, <1>6 DEF CanRevive
<1> QED BY <1>7, <1>8 DEF x

-----------------------------------------------------------------------------
(* Damaged exports.                                                          *)

\* What an export with the events and the requests of a sound record is indexed to, whatever else
\* it says.
LEMMA IndexedAlike ==
  ASSUME NEW s, Sound(s), NEW y, y.events = s.events, y.requests = s.requests,
         s.events = <<>> => y.epoch = s.epoch
  PROVE  Indexed(y) = s
BY DEF Indexed, Sound, ExportOf

\* An export is refused whose other parts are not those its commands make.
LEMMA OtherPartsRefused ==
  ASSUME NEW s, Sound(s), NEW y, y.events = s.events, y.requests = s.requests,
         s.events = <<>> => y.epoch = s.epoch,
         \/ y.epoch # s.epoch \/ y.revision # s.revision
         \/ y.effects # s.effects \/ y.receipts # s.receipts
  PROVE  ~CanRevive(y)
BY IndexedAlike DEF CanRevive, Reproduces

\* An export is refused that lost an event: its commands make as many as before.
LEMMA LostEventRefused ==
  ASSUME NEW s, Sound(s), NEW y, y.requests = s.requests,
         y.events \in Seq(Event), Len(y.events) # Len(s.events)
  PROVE  ~CanRevive(y)
<1> SUFFICES ASSUME Reproduces(y) PROVE FALSE
  BY DEF CanRevive
<1> DEFINE seed(z) == IF z.events = <<>> THEN z.epoch ELSE Baseline(z.events)
           x == ExportOf(s)
           n == Len(s.requests)
<1>1. s.requests \in Entries /\ s # Refused
  BY RecordIsNotRefused DEF Sound, SessionRecord, Entries
<1>2. Recommits(NewSession(seed(x)), s.requests)[n] = s
  BY DEF Sound, Indexed, ExportOf
<1>3. Recommits(NewSession(seed(y)), s.requests)[n] = Indexed(y)
  BY DEF Indexed
<1>4. Indexed(y) # Refused /\ Indexed(y).events = y.events
  BY DEF Reproduces
<1> HIDE DEF seed, x, n
<1>5. Len(Indexed(y).events) = Len(s.events)
  BY <1>1, <1>2, <1>3, <1>4, RecommitsMakeAsMany DEF n
<1> QED BY <1>4, <1>5

\* An export is refused that lost a command: the revision is the number of commands.
LEMMA LostRequestRefused ==
  ASSUME NEW s, Sound(s), NEW y, y.requests \in Entries, y.revision = s.revision,
         Len(y.requests) # Len(s.requests)
  PROVE  ~CanRevive(y)
<1> SUFFICES ASSUME Reproduces(y) PROVE FALSE
  BY DEF CanRevive
<1>1. Indexed(y) # Refused /\ Indexed(y).revision = s.revision
  BY DEF Reproduces
<1>2. Len(y.requests) \in Nat
  BY LenProperties DEF Entries
<1>3. Positioned(Indexed(y), Len(y.requests))
  BY <1>2, RecommitsReach DEF Indexed
<1> QED BY <1>1, <1>3 DEF Positioned, Sound

\* Without one element a sequence is shorter by one.
LEMMA WithoutOne ==
  ASSUME NEW S, NEW seq \in Seq(S), NEW i \in DOMAIN seq
  PROVE  Without(seq, i) \in Seq(S) /\ Len(Without(seq, i)) # Len(seq)
<1>1. Len(seq) \in Nat /\ i \in 1..Len(seq)
  BY LenProperties
<1>2. SubSeq(seq, 1, i - 1) \in Seq(S) /\ Len(SubSeq(seq, 1, i - 1)) = i - 1
  BY <1>1, SubSeqProperties
<1>3. SubSeq(seq, i + 1, Len(seq)) \in Seq(S) /\ Len(SubSeq(seq, i + 1, Len(seq))) = Len(seq) - i
  BY <1>1, SubSeqProperties
<1>4. Without(seq, i) \in Seq(S) /\ Len(Without(seq, i)) = (i - 1) + (Len(seq) - i)
  BY <1>2, <1>3, ConcatProperties DEF Without
<1> QED BY <1>1, <1>4

\* An export with a repeated command is refused: its request id occurs twice.
LEMMA RepeatedRequestRefused ==
  ASSUME NEW s, Sound(s), NEW y, NEW i \in DOMAIN s.requests,
         y.requests = Append(s.requests, s.requests[i])
  PROVE  ~CanRevive(y)
<1>1. s.requests \in Entries
  BY DEF Sound, SessionRecord, Entries
<1>2. Len(s.requests) \in Nat /\ i \in 1..Len(s.requests)
  BY <1>1, LenProperties DEF Entries
<1>3. /\ Len(y.requests) = Len(s.requests) + 1 /\ DOMAIN y.requests = 1..(Len(s.requests) + 1)
      /\ y.requests[i] = s.requests[i] /\ y.requests[Len(s.requests) + 1] = s.requests[i]
  BY <1>1, <1>2, AppendProperties DEF Entries
<1>4. ~IdentitiesOk(y)
  <2>1. i \in DOMAIN y.requests /\ Len(s.requests) + 1 \in DOMAIN y.requests /\ i # Len(s.requests) + 1
    BY <1>2, <1>3
  <2> QED BY <1>3, <2>1 DEF IdentitiesOk
<1> QED BY <1>4 DEF CanRevive

\* No damaged export of a sound record is revived.
LEMMA DamagedRefused ==
  ASSUME NEW s, Sound(s), NEW y \in Damaged(ExportOf(s)) \ {ExportOf(s)}
  PROVE  ~CanRevive(y)
<1> DEFINE x == ExportOf(s)
<1>1. /\ x.epoch = s.epoch /\ x.revision = s.revision /\ x.events = s.events /\ x.effects = s.effects
      /\ x.receipts = s.receipts /\ x.requests = s.requests
      /\ x = [epoch |-> s.epoch, revision |-> s.revision, events |-> s.events, effects |-> s.effects,
              receipts |-> s.receipts, requests |-> s.requests]
  BY DEF ExportOf
<1>2. /\ s.events \in Seq(Event) /\ s.requests \in Entries /\ s.revision \in Nat /\ s.epoch \in Nat
  BY ConstantsAssumption DEF Sound, SessionRecord, Entries, Epochs
<1>3. y \in Damaged(x) /\ y # x
  OBVIOUS
<1> HIDE DEF x
<1>4. ASSUME NEW i \in DOMAIN x.events, y = [x EXCEPT !.events = Without(x.events, i)] PROVE ~CanRevive(y)
  <2>1. y.requests = s.requests /\ y.events = Without(s.events, i)
    BY <1>1, <1>4
  <2>2. i \in DOMAIN s.events
    BY <1>1, <1>4
  <2>3. y.events \in Seq(Event) /\ Len(y.events) # Len(s.events)
    BY <1>2, <2>1, <2>2, WithoutOne
  <2> QED BY <2>1, <2>3, LostEventRefused
<1>5. ASSUME NEW i \in DOMAIN x.requests, y = [x EXCEPT !.requests = Without(x.requests, i)]
      PROVE  ~CanRevive(y)
  <2>1. y.revision = s.revision /\ y.requests = Without(s.requests, i) /\ i \in DOMAIN s.requests
    BY <1>1, <1>5
  <2>2. y.requests \in Entries /\ Len(y.requests) # Len(s.requests)
    BY <1>2, <2>1, WithoutOne DEF Entries
  <2> QED BY <2>1, <2>2, LostRequestRefused
<1>6. ASSUME NEW i \in DOMAIN x.requests, y = [x EXCEPT !.requests = Append(x.requests, x.requests[i])]
      PROVE  ~CanRevive(y)
  <2>1. y.requests = Append(s.requests, s.requests[i]) /\ i \in DOMAIN s.requests
    BY <1>1, <1>6
  <2> QED BY <2>1, RepeatedRequestRefused
<1>7. ASSUME NEW fs, y = [x EXCEPT !.effects = fs] PROVE ~CanRevive(y)
  <2>1. y.events = s.events /\ y.requests = s.requests /\ y.epoch = s.epoch /\ y.effects # s.effects
    BY <1>1, <1>3, <1>7
  <2> QED BY <2>1, OtherPartsRefused
<1>8. ASSUME NEW rs, y = [x EXCEPT !.receipts = rs] PROVE ~CanRevive(y)
  <2>1. y.events = s.events /\ y.requests = s.requests /\ y.epoch = s.epoch /\ y.receipts # s.receipts
    BY <1>1, <1>3, <1>8
  <2> QED BY <2>1, OtherPartsRefused
<1>9. ASSUME NEW r, y = [x EXCEPT !.revision = r] PROVE ~CanRevive(y)
  <2>1. y.events = s.events /\ y.requests = s.requests /\ y.epoch = s.epoch /\ y.revision # s.revision
    BY <1>1, <1>3, <1>9
  <2> QED BY <2>1, OtherPartsRefused
<1>10. ASSUME x.events # <<>>, y = [x EXCEPT !.epoch = x.epoch + 1] PROVE ~CanRevive(y)
  <2>1. y.events = s.events /\ y.requests = s.requests /\ y.epoch # s.epoch /\ s.events # <<>>
    BY <1>1, <1>2, <1>10
  <2> QED BY <2>1, OtherPartsRefused
<1> QED BY <1>3, <1>4, <1>5, <1>6, <1>7, <1>8, <1>9, <1>10 DEF Damaged

-----------------------------------------------------------------------------
(* A commit keeps the record sound.                                          *)

\* The first commit may as well be made in the epoch its own log starts from.
LEMMA FirstCommitFromBaseline ==
  ASSUME NEW e \in Epochs, NEW id \in RequestKeys, NEW req \in Request,
         Admissible(NewSession(e), id, req)
  PROVE  LET b == Baseline(LogAfter(NewSession(e), req)) IN
           /\ Admissible(NewSession(b), id, req)
           /\ AfterCommit(NewSession(b), id, req) = AfterCommit(NewSession(e), id, req)
<1> DEFINE log == LogAfter(NewSession(e), req)
           b == Baseline(log)
           s == NewSession(e)
           t == NewSession(b)
<1>1. /\ s.epoch = e /\ t.epoch = b
      /\ s.revision = t.revision /\ s.lastSequence = t.lastSequence /\ s.events = t.events
      /\ s.effects = t.effects /\ s.receipts = t.receipts /\ s.requests = t.requests /\ t.events = <<>>
  BY DEF NewSession
<1>2. s \in SessionRecord
  BY EmptySeq DEF NewSession, SessionRecord
<1>3. log \in Seq(Event) /\ Len(log) > 0 /\ log[1].draft \in {req.drafts[i] : i \in DOMAIN req.drafts}
  <2>1. PICK l, old, drafts, n, m : LogParts(s, req, l, old, drafts, n, m)
    BY <1>2, LogAfterCommit, Zenon
  <2>2. /\ l = log /\ old = <<>> /\ drafts = req.drafts /\ n = Len(old) /\ m = Len(drafts)
        /\ l \in Seq(Event) /\ Len(l) = n + m
        /\ \A i \in (n+1)..(n+m) : i - n \in 1..m /\ l[i].draft = drafts[i - n]
    <3>1. s.events = <<>>
      BY <1>1
    <3> QED BY <2>1, <3>1, Zenon DEF LogParts
  <2>3. req.drafts \in Seq(Draft) /\ req.drafts # <<>>
    BY DEF Request, Admissible
  <2>4. n = 0 /\ m \in Nat /\ m > 0 /\ DOMAIN req.drafts = 1..m
    BY <2>2, <2>3, EmptySeq, LenProperties
  <2>5. l[1].draft = drafts[1]
    BY <2>2, <2>4
  <2> HIDE DEF log
  <2> QED BY <2>2, <2>4, <2>5
<1>4. LogAfter(t, req) = log
  BY <1>1 DEF LogAfter, Stamped
<1>5. ReplayOk(log, e) /\ ReplayOk(log, b)
  <2>1. ReplayOk(log, e)
    BY <1>1 DEF Admissible
  <2> HIDE DEF log
  <2> QED BY <1>3, <2>1, ReplaysFromBaseline
<1>6. ~ChangesEpoch(req) => b = e
  <2>1. PICK i \in DOMAIN req.drafts : log[1].draft = req.drafts[i]
    BY <1>3
  <2>2. ReplaysAt(log, e, 1)
    <3>1. 1 \in DOMAIN log
      BY <1>3, LenProperties
    <3> QED BY <1>5, <3>1 DEF ReplayOk
  <2> HIDE DEF log
  <2> QED BY <2>1, <2>2 DEF ChangesEpoch, ReplaysAt, EpochBefore, Baseline, TypeAt
<1> HIDE DEF s, t, b, log
<1>7. /\ req.drafts # <<>> /\ NotYetCommitted(s, id) /\ AtCurrentRevision(s, req) /\ AtOneEpoch(s, req)
      /\ EventIdsFresh(s, req) /\ EffectsPlanned(s, req) /\ ReceiptsPlanned(s, req)
      /\ OutboxOk(log, s.effects \cup req.effects, s.receipts \cup req.receipts)
  BY DEF Admissible, s, log
<1>8. /\ NotYetCommitted(t, id) /\ AtCurrentRevision(t, req) /\ EventIdsFresh(t, req)
      /\ EffectsPlanned(t, req) /\ ReceiptsPlanned(t, req)
  <2>1. NotYetCommitted(t, id)
    BY <1>1, <1>7 DEF NotYetCommitted
  <2>2. AtCurrentRevision(t, req)
    BY <1>1, <1>7 DEF AtCurrentRevision
  <2>3. EventIdsFresh(t, req)
    BY <1>1, <1>7 DEF EventIdsFresh
  <2>4. \A f : NewEffect(t, f) <=> NewEffect(s, f)
    BY <1>1 DEF NewEffect
  <2>5. EffectsPlanned(t, req)
    BY <1>7, <2>4, Zenon DEF EffectsPlanned
  <2>6. ReceiptsPlanned(t, req)
    BY <1>1, <1>7, Zenon DEF ReceiptsPlanned
  <2> QED BY <2>1, <2>2, <2>3, <2>5, <2>6
<1>9. AtOneEpoch(t, req)
  BY <1>1, <1>6, <1>7 DEF AtOneEpoch
<1>10. Admissible(t, id, req)
  BY <1>1, <1>4, <1>5, <1>7, <1>8, <1>9 DEF Admissible
<1>11. EpochAfter(t, req) = EpochAfter(s, req)
  BY <1>1, <1>6 DEF EpochAfter
<1>12. AfterCommit(t, id, req) = AfterCommit(s, id, req)
  <2>1. LogAfter(s, req) = log
    BY DEF s, log
  <2> QED BY <1>1, <1>4, <1>11, <2>1 DEF AfterCommit
<1> QED BY <1>10, <1>12 DEF s, t, b, log

\* A longer log starts from the same epoch.
LEMMA BaselineKept ==
  ASSUME NEW s \in SessionRecord, NEW req \in Request, s.events # <<>>
  PROVE  Baseline(LogAfter(s, req)) = Baseline(s.events)
<1>1. 1 \in DOMAIN s.events
  BY LenProperties, EmptySeq DEF SessionRecord
<1>2. LogAfter(s, req)[1] = s.events[1]
  BY <1>1, DraftsAfterCommit
<1> QED BY <1>2 DEF Baseline, TypeAt

\* The requests of a record and one more, committed again, make the record and commit the one.
LEMMA CommitIndexes ==
  ASSUME NEW s, Sound(s), NEW id \in RequestKeys, NEW req \in Request, Admissible(s, id, req)
  PROVE  Indexed(ExportOf(AfterCommit(s, id, req))) = AfterCommit(s, id, req)
<1> DEFINE t == AfterCommit(s, id, req)
           entry == [requestId |-> id, request |-> req]
           entries == Append(s.requests, entry)
           n == Len(s.requests)
           log == LogAfter(s, req)
           seed == Baseline(log)
           r == Recommits(NewSession(seed), entries)
<1>1. s \in SessionRecord /\ s.requests \in Entries /\ n \in Nat
  BY LenProperties DEF Sound, SessionRecord, Entries
<1>2. entry \in [requestId : RequestKeys, request : Request] /\ entry.requestId = id /\ entry.request = req
  OBVIOUS
<1>3. entries \in Entries /\ Len(entries) = n + 1 /\ entries[n + 1] = entry
      /\ \A i \in 1..n : entries[i] = s.requests[i]
  <2> HIDE DEF entry
  <2> QED BY <1>1, <1>2, AppendProperties DEF Entries
<1>4. log # <<>>
  <2>1. \A k \in DOMAIN req.drafts : \E i \in DOMAIN log : log[i].draft = req.drafts[k]
    BY <1>1, DraftsAfterCommit
  <2>2. req.drafts \in Seq(Draft) /\ req.drafts # <<>>
    BY DEF Request, Admissible
  <2>3. 1 \in DOMAIN req.drafts
    BY <2>2, LenProperties, EmptySeq
  <2> HIDE DEF log
  <2> QED BY <2>1, <2>3
<1>5. Indexed(ExportOf(t)) = r[n + 1]
  <2>1. ExportOf(t).events = log /\ ExportOf(t).requests = entries
    BY DEF ExportOf, AfterCommit
  <2> HIDE DEF log, entries, t
  <2> QED BY <1>3, <1>4, <2>1 DEF Indexed
<1>6. r[0] = NewSession(seed) /\ r[n + 1] = Recommit(r[n], entry)
  <2> HIDE DEF entries, seed, entry
  <2>1. r[0] = NewSession(seed) /\ \A i \in 1..Len(entries) : r[i] = Recommit(r[i - 1], entries[i])
    BY <1>3, RecommitsUnfold DEF Entries
  <2>2. n + 1 \in 1..Len(entries) /\ (n + 1) - 1 = n
    BY <1>1, <1>3
  <2> QED BY <1>3, <2>1, <2>2
<1>7. CASE s.events # <<>>
  <2>1. seed = Baseline(s.events)
    BY <1>1, <1>7, BaselineKept
  <2>2. r[n] = Recommits(NewSession(seed), s.requests)[n]
    <3> HIDE DEF entries, seed, n
    <3>1. n <= Len(entries) /\ n <= Len(s.requests) /\ n \in 0..n
      BY <1>1, <1>3 DEF n
    <3> QED BY <1>1, <1>3, <3>1, RecommitsAgree DEF Entries
  <2>3. Recommits(NewSession(seed), s.requests)[n] = s
    BY <1>7, <2>1 DEF Sound, Indexed, ExportOf
  <2>4. s # Refused
    BY <1>1, RecordIsNotRefused
  <2> HIDE DEF entry, r
  <2> QED BY <1>2, <1>5, <1>6, <2>2, <2>3, <2>4 DEF Recommit
<1>8. CASE s.events = <<>>
  <2>1. s = NewSession(s.epoch) /\ s.epoch \in Epochs
    BY <1>1, <1>8 DEF Sound, SessionRecord
  <2>2. s.requests = <<>> /\ n = 0
    <3>1. s.requests = <<>>
      BY <2>1 DEF NewSession
    <3> QED BY <3>1, EmptySeq
  <2>3. Admissible(NewSession(seed), id, req) /\ AfterCommit(NewSession(seed), id, req) = AfterCommit(s, id, req)
    BY <2>1, FirstCommitFromBaseline
  <2>4. NewSession(seed) # Refused
    <3>1. "revision" \in DOMAIN NewSession(seed) /\ "revision" \notin DOMAIN Refused
      BY DEF NewSession, Refused
    <3> QED BY <3>1
  <2>5. r[n + 1] = Recommit(NewSession(seed), entry)
    BY <1>6, <2>2
  <2> HIDE DEF entry, r, seed
  <2> QED BY <1>2, <1>5, <2>3, <2>4, <2>5 DEF Recommit
<1> QED BY <1>7, <1>8

\* Event ids stay unique: those of a request are fresh.
LEMMA CommitKeepsEventIds ==
  ASSUME NEW s, Sound(s), NEW req \in Request, EventIdsFresh(s, req)
  PROVE  LET log == LogAfter(s, req) IN
           \A i, j \in DOMAIN log : log[i].draft.eventId = log[j].draft.eventId => i = j
<1>1. s \in SessionRecord
  BY DEF Sound
<1>2. PICK log, old, drafts, n, m : LogParts(s, req, log, old, drafts, n, m)
  BY <1>1, LogAfterCommit, Zenon
<1>3. /\ log = LogAfter(s, req) /\ old = s.events /\ drafts = req.drafts
      /\ log \in Seq(Event) /\ n \in Nat /\ m \in Nat /\ Len(log) = n + m
      /\ n = Len(old) /\ m = Len(drafts)
  BY <1>2, Zenon DEF LogParts
<1>4. /\ \A i \in 1..n : log[i] = old[i]
      /\ \A i \in (n+1)..(n+m) : i - n \in 1..m /\ log[i].draft = drafts[i - n]
  BY <1>2, Zenon DEF LogParts
<1>5. old \in Seq(Event) /\ drafts \in Seq(Draft)
  BY <1>1, <1>3 DEF SessionRecord, Request
<1>6. DOMAIN log = 1..(n + m) /\ DOMAIN old = 1..n /\ DOMAIN drafts = 1..m
  BY <1>3, <1>5, LenProperties
<1>7. /\ \A i, j \in 1..n : old[i].draft.eventId = old[j].draft.eventId => i = j
      /\ \A i, j \in 1..m : drafts[i].eventId = drafts[j].eventId => i = j
      /\ \A i \in 1..m, j \in 1..n : drafts[i].eventId # old[j].draft.eventId
  BY <1>3, <1>6 DEF Sound, EventIdsFresh
<1>8. n \in Nat /\ m \in Nat
  BY <1>3, Zenon
<1>9. ASSUME NEW i \in 1..(n + m), NEW j \in 1..(n + m), log[i].draft.eventId = log[j].draft.eventId
      PROVE  i = j
  <2>1. \A k \in 1..n : log[k].draft.eventId = old[k].draft.eventId
    BY <1>4
  <2>2. CASE i <= n /\ j <= n
    <3>1. i \in 1..n /\ j \in 1..n
      BY <1>8, <2>2
    <3> QED BY <1>7, <1>9, <2>1, <3>1
  <2>3. CASE i > n
    <3>1. i \in (n+1)..(n+m)
      BY <1>8, <2>3
    <3>2. PICK k \in 1..m : k = i - n /\ log[i].draft = drafts[k]
      BY <1>4, <3>1
    <3>3. CASE j <= n
      <4>1. j \in 1..n
        BY <1>8, <3>3
      <4> QED BY <1>7, <1>9, <2>1, <3>2, <4>1
    <3>4. CASE j > n
      <4>1. j \in (n+1)..(n+m)
        BY <1>8, <3>4
      <4>2. PICK l \in 1..m : l = j - n /\ log[j].draft = drafts[l]
        BY <1>4, <4>1
      <4>3. k = l
        BY <1>7, <1>9, <3>2, <4>2
      <4> QED BY <1>8, <3>2, <4>2, <4>3
    <3> QED BY <1>8, <3>3, <3>4
  <2>4. CASE i <= n /\ j > n
    <3>1. i \in 1..n /\ j \in (n+1)..(n+m)
      BY <1>8, <2>4
    <3>2. PICK k \in 1..m : k = j - n /\ log[j].draft = drafts[k]
      BY <1>4, <3>1
    <3> QED BY <1>7, <1>9, <2>1, <3>1, <3>2
  <2> QED BY <1>8, <2>2, <2>3, <2>4
<1> QED BY <1>3, <1>6, <1>9

LEMMA CommitStaysSound ==
  ASSUME Sound(session), NEW id \in RequestKeys, NEW req \in Request, CommitBatch(id, req)
  PROVE  Sound(session')
<1>1. RecordTyped /\ JournalReplays /\ ContentMatchesJournal
  BY DEF Sound, RecordTyped, JournalReplays, OutboxProjects, ContentMatchesJournal
<1>2. RecordTyped' /\ JournalReplays' /\ ContentMatchesJournal'
  BY <1>1, CommitKeepsTypes, CommitReplays, CommitMatches
<1>3. /\ session' \in SessionRecord
      /\ ReplaysToCache(session'.events, session'.epoch, session'.revision, session'.lastSequence)
      /\ OutboxOk(session'.events, session'.effects, session'.receipts)
      /\ IdentitiesUnique(session'.effects, session'.receipts)
      /\ ContentJournaled(session'.events, session'.effects, session'.receipts)
      /\ EventsHaveContent(session'.events, session'.effects, session'.receipts)
  BY <1>2 DEF RecordTyped, JournalReplays, OutboxProjects, ContentMatchesJournal
<1>4. session' = AfterCommit(session, id, req) /\ Admissible(session, id, req)
  BY DEF CommitBatch
<1>5. Indexed(ExportOf(session')) = session'
  BY <1>4, CommitIndexes
<1>6. \A i, j \in DOMAIN session'.events :
        session'.events[i].draft.eventId = session'.events[j].draft.eventId => i = j
  <2>1. session'.events = LogAfter(session, req) /\ EventIdsFresh(session, req)
    BY <1>4 DEF AfterCommit, Admissible
  <2> QED BY <2>1, CommitKeepsEventIds
<1>7. /\ Len(session'.requests) = session'.revision
      /\ \A i, j \in DOMAIN session'.requests :
           session'.requests[i].requestId = session'.requests[j].requestId => i = j
  <2>0. PICK done, entry, n :
          /\ done = session.requests /\ entry = [requestId |-> id, request |-> req] /\ n = Len(done)
    OBVIOUS
  <2>1. /\ done = session.requests /\ entry = [requestId |-> id, request |-> req] /\ n = Len(done)
        /\ done \in Entries /\ n \in Nat
    BY <2>0, LenProperties DEF Sound, SessionRecord, Entries
  <2>2. entry \in [requestId : RequestKeys, request : Request] /\ entry.requestId = id
    BY <2>1
  <2>3. session'.requests = Append(done, entry) /\ session'.revision = session.revision + 1
    BY <1>4, <2>1 DEF AfterCommit
  <2>4. /\ Len(Append(done, entry)) = n + 1 /\ DOMAIN Append(done, entry) = 1..(n + 1)
        /\ Append(done, entry)[n + 1] = entry /\ \A i \in 1..n : Append(done, entry)[i] = done[i]
    BY <2>1, <2>2, AppendProperties DEF Entries
  <2>5. DOMAIN done = 1..n
    BY <2>1, LenProperties DEF Entries
  <2>6. /\ n = session.revision /\ \A i, j \in 1..n : done[i].requestId = done[j].requestId => i = j
        /\ \A i \in 1..n : done[i].requestId # id
    BY <1>4, <2>1, <2>5 DEF Sound, Admissible, NotYetCommitted
  <2> DEFINE all == Append(done, entry)
  <2> HIDE DEF all
  <2>7. \A i, j \in 1..(n + 1) : all[i].requestId = all[j].requestId => i = j
    <3>1. all[n + 1].requestId = id /\ \A i \in 1..n : all[i] = done[i]
      BY <2>2, <2>4 DEF all
    <3>2. ASSUME NEW i \in 1..(n + 1) PROVE i \in 1..n \/ i = n + 1
      BY <2>1
    <3> QED BY <2>6, <3>1, <3>2
  <2> QED BY <2>3, <2>4, <2>6, <2>7 DEF all
<1>8. session'.events # <<>>
  <2>1. session'.events = LogAfter(session, req) /\ req.drafts # <<>> /\ req.drafts \in Seq(Draft)
    BY <1>4 DEF AfterCommit, Admissible, Request
  <2>2. \A k \in DOMAIN req.drafts : \E i \in DOMAIN session'.events : session'.events[i].draft = req.drafts[k]
    BY <2>1, DraftsAfterCommit DEF Sound
  <2>3. 1 \in DOMAIN req.drafts
    BY <2>1, LenProperties, EmptySeq
  <2> QED BY <2>2, <2>3
<1> QED BY <1>3, <1>5, <1>6, <1>7, <1>8 DEF Sound

-----------------------------------------------------------------------------
(* Recovery from a snapshot.                                                 *)

\* Recovery is refused or yields the projection of the whole journal, and is refused only for a
\* snapshot that lies ahead of the journal or is not the projection of its beginning.
LEMMA RecoveryTells ==
  ASSUME NEW s, Sound(s), s.events # <<>>,
         NEW t, Sound(t), t.events # <<>>, NEW snap, snap = SnapshotOf(t)
  PROVE  LET recovered == Recover(snap, s.events)
             full == Replay(s.events)
         IN /\ recovered.ok => recovered = full
            /\ ~recovered.ok =>
                 \/ snap.sequence > s.lastSequence
                 \/ Replay(UpTo(s.events, snap.sequence)) # snap.projection
<1> DEFINE log == s.events
           k == t.lastSequence
           seed == EmptyReplayState(Baseline(log))
           full == Replay(log)
           recovered == Recover(snap, log)
<1> SUFFICES /\ recovered.ok => recovered = full
             /\ ~recovered.ok =>
                  \/ snap.sequence > s.lastSequence
                  \/ Replay(UpTo(log, snap.sequence)) # snap.projection
  OBVIOUS
<1>1. full.ok = TRUE /\ full.lastSequence = s.lastSequence /\ s.lastSequence = Len(log) - 1
  BY JournalProjects
<1>2. /\ snap.sequence = k /\ snap.projection = Replay(t.events)
      /\ snap.projection.lastSequence = k /\ snap.projection.ok = TRUE
  BY JournalProjects DEF SnapshotOf
<1>3. k \in Nat
  <2>1. k = Len(t.events) - 1 /\ t.events \in Seq(Event)
    BY JournalProjects DEF Sound, SessionRecord
  <2> QED BY <2>1, LenProperties, EmptySeq
<1>4. log \in Seq(Event) /\ Len(log) \in Nat /\ Len(log) > 0
  BY LenProperties, EmptySeq DEF Sound, SessionRecord
<1> HIDE DEF full, recovered, log, k
<1>5. CASE snap = Absent
  BY <1>1, <1>5 DEF Recover, recovered, full
<1>6. CASE snap # Absent /\ k > full.lastSequence
  <2>1. snap.sequence > s.lastSequence
    BY <1>1, <1>2, <1>6, Zenon
  <2>2. recovered = Refused
    BY <1>1, <1>2, <1>6 DEF Recover, recovered, full
  <2> QED BY <2>1, <2>2 DEF Refused
<1>7. CASE snap # Absent /\ ~(k > full.lastSequence) /\ ~VerifyProjection(snap, log)
  <2>1. recovered = Refused
    BY <1>1, <1>2, <1>3, <1>7 DEF Recover, recovered, full
  <2> QED BY <1>2, <1>7, <2>1 DEF VerifyProjection, Refused
<1>8. CASE snap # Absent /\ ~(k > full.lastSequence) /\ VerifyProjection(snap, log)
  <2>1. recovered = ReplayFrom(snap.projection, After(log, k))
    BY <1>1, <1>2, <1>3, <1>8 DEF Recover, recovered, full
  <2>2. k + 1 \in 0..Len(log) /\ k + 1 \in Nat /\ k + 1 > 0 /\ (k + 1) + 1 = k + 2
    BY <1>1, <1>3, <1>4, <1>8
  <2>3. snap.projection = Replay(SubSeq(log, 1, k + 1))
    BY <1>2, <1>8 DEF VerifyProjection, UpTo
  <2>4. Baseline(SubSeq(log, 1, k + 1)) = Baseline(log)
    <3>1. SubSeq(log, 1, k + 1)[1] = log[1]
      BY <1>4, <2>2, SubSeqProperties
    <3> QED BY <3>1 DEF Baseline, TypeAt
  <2>5. snap.projection = Projections(seed, log)[k + 1]
    <3> HIDE DEF seed
    <3>1. Replay(SubSeq(log, 1, k + 1)) = ReplayFrom(seed, SubSeq(log, 1, k + 1))
      BY <2>4 DEF Replay, seed
    <3> QED BY <1>4, <2>2, <2>3, <3>1, ReplayContinues
  <2>6. ReplayFrom(snap.projection, SubSeq(log, k + 2, Len(log))) = ReplayFrom(seed, log)
    <3> HIDE DEF seed
    <3>1. ReplayFrom(Projections(seed, log)[k + 1], SubSeq(log, (k + 1) + 1, Len(log))) = ReplayFrom(seed, log)
      BY <1>4, <2>2, ReplayContinues
    <3> QED BY <2>2, <2>5, <3>1
  <2>7. recovered = full
    BY <2>1, <2>6 DEF After, Replay, full
  <2> QED BY <1>1, <2>7
<1> QED BY <1>5, <1>6, <1>7, <1>8

-----------------------------------------------------------------------------
(* Restarts.                                                                 *)

\* The record in memory, the one that was exported and the one a snapshot was taken of are sound.
SurvivorsSound ==
  /\ Sound(session)
  /\ kept = Absent \/ \E s : Sound(s) /\ kept = ExportOf(s)
  /\ snapshot = Absent \/ \E s : Sound(s) /\ s.events # <<>> /\ snapshot = SnapshotOf(s)

LEMMA NewSessionSound == Sound(NewSession(InitialEpoch))
<1> DEFINE s == NewSession(InitialEpoch)
<1>1. /\ s.epoch = InitialEpoch /\ s.revision = 0 /\ s.lastSequence = -1 /\ s.events = <<>>
      /\ s.effects = {} /\ s.receipts = {} /\ s.requests = <<>>
  BY DEF NewSession
<1>2. s \in SessionRecord
  BY ConstantsAssumption, EmptySeq DEF NewSession, SessionRecord
<1>3. Len(<<>>) = 0 /\ DOMAIN <<>> = {} /\ <<>> \in Entries
  BY EmptySeq DEF Entries
<1>4. Indexed(ExportOf(s)) = s
  <2>1. Indexed(ExportOf(s)) = Recommits(s, <<>>)[0]
    BY <1>1, <1>3 DEF Indexed, ExportOf
  <2> HIDE DEF s
  <2> QED BY <1>3, <2>1, RecommitsUnfold DEF Entries
<1>5. s.events = <<>> => s = NewSession(s.epoch)
  BY <1>1
<1> HIDE DEF s
<1>6. /\ ReplaysToCache(s.events, s.epoch, s.revision, s.lastSequence)
      /\ OutboxOk(s.events, s.effects, s.receipts)
  BY <1>1, <1>3 DEF ReplaysToCache, OutboxOk
<1>7. /\ IdentitiesUnique(s.effects, s.receipts) /\ ContentJournaled(s.events, s.effects, s.receipts)
      /\ EventsHaveContent(s.events, s.effects, s.receipts)
  BY <1>1, <1>3 DEF IdentitiesUnique, ContentJournaled, EventsHaveContent
<1>8. Sound(s)
  BY <1>1, <1>2, <1>3, <1>4, <1>5, <1>6, <1>7 DEF Sound
<1> QED BY <1>8 DEF s

\* No operation, crash or restart makes an unsound record, and none is kept or saved.
LEMMA SurvivorsStaySound ==
  ASSUME SurvivorsSound, [RecoveryNext]_recoveryVars
  PROVE  SurvivorsSound'
<1>1. CASE Work
  <2>1. RecordTyped /\ StoreNext
    BY <1>1 DEF Work, SurvivorsSound, Sound, RecordTyped
  <2>2. PICK id \in RequestKeys, req \in Request : CommitBatch(id, req)
    BY <2>1, NextCommits
  <2>3. Sound(session')
    BY <2>2, CommitStaysSound DEF SurvivorsSound
  <2> QED BY <1>1, <2>3 DEF Work, SurvivorsSound
<1>2. CASE ExportSession
  BY <1>2 DEF ExportSession, SurvivorsSound
<1>3. CASE SaveSnapshot
  BY <1>3 DEF SaveSnapshot, SurvivorsSound
<1>4. CASE Crash
  BY <1>4, NewSessionSound DEF Crash, SurvivorsSound
<1>5. CASE RestoreSession
  <2>1. PICK s : Sound(s) /\ kept = ExportOf(s)
    BY <1>5 DEF RestoreSession, SurvivorsSound
  <2>2. Revived(kept) = s
    BY <2>1, SoundRevives
  <2> QED BY <1>5, <2>1, <2>2 DEF RestoreSession, SurvivorsSound
<1>6. CASE UNCHANGED recoveryVars
  BY <1>6 DEF recoveryVars, SurvivorsSound
<1> QED BY <1>1, <1>2, <1>3, <1>4, <1>5, <1>6 DEF RecoveryNext

LEMMA SurvivorsAreExact == SurvivorsSound => RecoveryIsExact
<1> SUFFICES ASSUME SurvivorsSound PROVE RecoveryIsExact
  OBVIOUS
<1>1. ExportsRevive
  BY SoundRevives DEF SurvivorsSound, ExportsRevive
<1>2. DamageIsRefused
  BY DamagedRefused DEF SurvivorsSound, DamageIsRefused
<1>3. RecoveryIsTruthful
  <2> SUFFICES ASSUME session.events # <<>>
               PROVE  LET recovered == Recover(snapshot, session.events)
                          full == Replay(session.events)
                      IN /\ full.ok
                         /\ recovered.ok => recovered = full
                         /\ ~recovered.ok =>
                              \/ snapshot.sequence > session.lastSequence
                              \/ Replay(UpTo(session.events, snapshot.sequence)) # snapshot.projection
    BY DEF RecoveryIsTruthful
  <2>1. Sound(session) /\ Replay(session.events).ok
    BY JournalProjects DEF SurvivorsSound
  <2>2. CASE snapshot = Absent
    BY <2>1, <2>2 DEF Recover
  <2>3. CASE snapshot # Absent
    BY <2>1, <2>3, RecoveryTells DEF SurvivorsSound
  <2> QED BY <2>1, <2>2, <2>3
<1> QED BY <1>1, <1>2, <1>3 DEF RecoveryIsExact

\* What was exported comes back as it was or not at all, and a recovered projection is that of the
\* whole journal, over every history of commits, exports, snapshots, crashes and restarts.
THEOREM RecoveryStaysExact == RecoverySpec => []RecoveryIsExact
<1>1. RecoveryInit => SurvivorsSound
  BY NewSessionSound DEF RecoveryInit, StoreInit, SurvivorsSound
<1>2. SurvivorsSound /\ [RecoveryNext]_recoveryVars => SurvivorsSound'
  BY SurvivorsStaySound
<1> QED BY <1>1, <1>2, SurvivorsAreExact, PTL DEF RecoverySpec
=============================================================================
