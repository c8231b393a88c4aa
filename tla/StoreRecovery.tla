---------------------------- MODULE StoreRecovery ----------------------------
(***************************************************************************)
(* Restart of a session from an export, and recovery of its projection from  *)
(* a snapshot.  The store loses its memory in a crash; what survives is the   *)
(* last export somebody kept and the last snapshot somebody saved, which may  *)
(* be older than the journal or, after a restart from an old export, may      *)
(* describe a history the journal no longer has.                              *)
(*                                                                         *)
(* The reducer is written here as the code writes it, a fold over the events, *)
(* while EventStore states what it accepts; the runs compare the two.         *)
(***************************************************************************)
EXTENDS EventStore

VARIABLES
  open,      \* the session is in the memory of the store
  kept,      \* the last export, Absent before the first one
  snapshot   \* the snapshot store's entry of the session, Absent before the first save

recoveryVars == <<session, open, kept, snapshot>>

Refused == [ok |-> FALSE]

-----------------------------------------------------------------------------
(* The reducer.                                                              *)

EmptyReplayState(ep) ==
  [ok |-> TRUE, revision |-> 0, epoch |-> ep, lastSequence |-> -1,
   dispatchMode |-> "active", nodeStates |-> {}]

DispatchModeFor(type, current) ==
  CASE type = "session.paused"           -> "paused"
    [] type = "session.resumed"          -> "active"
    [] type = "session.cancel-requested" -> "cancelling"
    [] type = "session.cancel-confirmed" -> "cancelled"
    [] OTHER                             -> current

EventAccepted(st, ev) ==
  LET d == ev.draft IN
    /\ ev.sequence = st.lastSequence + 1
    /\ ev.revision \in {st.revision, st.revision + 1}
    /\ IF d.type = "session.epoch-changed" THEN d.epoch > st.epoch ELSE d.epoch = st.epoch
    /\ d.type = "node.transition" =>
         /\ d.node # Absent /\ d.after # Absent
         /\ \A n \in st.nodeStates : n.node = d.node => n.state = d.before

NodeStatesAfter(st, ev) ==
  IF ev.draft.type # "node.transition" THEN st.nodeStates
  ELSE {n \in st.nodeStates : n.node # ev.draft.node}
         \cup {[node |-> ev.draft.node, epoch |-> ev.draft.epoch,
                state |-> ev.draft.after, since |-> ev.sequence]}

ReplayEvent(st, ev) ==
  IF ~st.ok THEN st
  ELSE IF ~EventAccepted(st, ev) THEN Refused
  ELSE [ok |-> TRUE, revision |-> ev.revision, epoch |-> ev.draft.epoch,
        lastSequence |-> ev.sequence,
        dispatchMode |-> DispatchModeFor(ev.draft.type, st.dispatchMode),
        nodeStates |-> NodeStatesAfter(st, ev)]

\* The projection before the first event and after each of them.
Projections(seed, log) ==
  LET p[i \in 0..Len(log)] == IF i = 0 THEN seed ELSE ReplayEvent(p[i - 1], log[i])
  IN p

ReplayFrom(seed, log) == Projections(seed, log)[Len(log)]

\* A nonempty journal is replayed without a seed.
Replay(log) == ReplayFrom(EmptyReplayState(Baseline(log)), log)

-----------------------------------------------------------------------------
(* reviveSession                                                             *)

ExportOf(s) ==
  [epoch |-> s.epoch, revision |-> s.revision, events |-> s.events,
   effects |-> s.effects, receipts |-> s.receipts, requests |-> s.requests]

ExportedReplay(x) == IF x.events = <<>> THEN EmptyReplayState(x.epoch) ELSE Replay(x.events)

\* uniqueIdentities and uniqueEffects, before anything is put in a map.
IdentitiesOk(x) ==
  /\ \A f, g \in x.effects : f.effectId = g.effectId \/ f.key = g.key => f = g
  /\ \A r, q \in x.receipts : r.receiptId = q.receiptId => r = q
  /\ \A i, j \in DOMAIN x.events :
       x.events[i].draft.eventId = x.events[j].draft.eventId => i = j
  /\ \A i, j \in DOMAIN x.requests :
       x.requests[i].requestId = x.requests[j].requestId => i = j

MetadataOk(x) ==
  LET replayed == ExportedReplay(x)
  IN replayed.ok /\ replayed.epoch = x.epoch /\ replayed.revision = x.revision

Recommit(s, entry) ==
  IF s # Refused /\ Admissible(s, entry.requestId, entry.request)
  THEN AfterCommit(s, entry.requestId, entry.request) ELSE Refused

Recommits(s, entries) ==
  LET r[i \in 0..Len(entries)] == IF i = 0 THEN s ELSE Recommit(r[i - 1], entries[i])
  IN r

\* The exported commands, run again through the transaction they were accepted by.
Indexed(x) ==
  Recommits(NewSession(IF x.events = <<>> THEN x.epoch ELSE Baseline(x.events)), x.requests)[Len(x.requests)]

\* Defect: the commands are replayed, but their outcome is not compared with the export.
ReproducesUnchecked(x) == Indexed(x) # Refused

Reproduces(x) ==
  /\ Indexed(x) # Refused
  /\ Indexed(x).events = x.events
  /\ Indexed(x).epoch = x.epoch /\ Indexed(x).revision = x.revision
  /\ Indexed(x).effects = x.effects /\ Indexed(x).receipts = x.receipts

CanRevive(x) ==
  /\ IdentitiesOk(x)
  /\ MetadataOk(x)
  /\ OutboxOk(x.events, x.effects, x.receipts)
  /\ Reproduces(x)

Revived(x) ==
  [epoch |-> x.epoch, revision |-> ExportedReplay(x).revision,
   lastSequence |-> ExportedReplay(x).lastSequence, events |-> x.events,
   effects |-> x.effects, receipts |-> x.receipts, requests |-> Indexed(x).requests]

-----------------------------------------------------------------------------
(* recoverOne                                                                *)

SnapshotOf(s) == [sequence |-> s.lastSequence, projection |-> Replay(s.events)]

\* A log that was replayed numbers its events from 0 on.
UpTo(log, sequence) == SubSeq(log, 1, sequence + 1)

After(log, sequence) == SubSeq(log, sequence + 2, Len(log))

VerifyProjection(snap, log) == Replay(UpTo(log, snap.sequence)) = snap.projection

Recover(snap, log) ==
  LET full == Replay(log) IN
    IF ~full.ok THEN Refused
    ELSE IF snap = Absent THEN full
    ELSE IF snap.sequence > full.lastSequence THEN Refused
    ELSE IF snap.projection.lastSequence # snap.sequence THEN Refused
    ELSE IF ~VerifyProjection(snap, log) THEN Refused
    ELSE ReplayFrom(snap.projection, After(log, snap.sequence))

-----------------------------------------------------------------------------

RecoveryInit == StoreInit /\ open = TRUE /\ kept = Absent /\ snapshot = Absent

Work == open /\ StoreNext /\ UNCHANGED <<open, kept, snapshot>>

ExportSession ==
  /\ open
  /\ kept' = ExportOf(session)
  /\ UNCHANGED <<session, open, snapshot>>

SaveSnapshot ==
  /\ open /\ session.events # <<>>
  /\ snapshot' = SnapshotOf(session)
  /\ UNCHANGED <<session, open, kept>>

\* The process ends: the record is gone, the export and the snapshot are not.
Crash ==
  /\ open
  /\ open' = FALSE
  /\ session' = NewSession(InitialEpoch)
  /\ UNCHANGED <<kept, snapshot>>

RestoreSession ==
  /\ ~open /\ kept # Absent /\ CanRevive(kept)
  /\ session' = Revived(kept)
  /\ open' = TRUE
  /\ UNCHANGED <<kept, snapshot>>

RecoveryNext == Work \/ ExportSession \/ SaveSnapshot \/ Crash \/ RestoreSession

RecoverySpec == RecoveryInit /\ [][RecoveryNext]_recoveryVars

-----------------------------------------------------------------------------

\* A crash never strands a session: every export of a reachable record is accepted by
\* reviveSession, and the revived record is the exported one, request index included.
ExportsRevive ==
  LET x == ExportOf(session) IN open => CanRevive(x) /\ Revived(x) = session

\* One part of an export lost, repeated or relabelled (a truncated file, a missing row).
Without(seq, i) == SubSeq(seq, 1, i - 1) \o SubSeq(seq, i + 1, Len(seq))

Damaged(x) ==
  {[x EXCEPT !.events = Without(x.events, i)] : i \in DOMAIN x.events}
    \cup {[x EXCEPT !.requests = Without(x.requests, i)] : i \in DOMAIN x.requests}
    \cup {[x EXCEPT !.requests = Append(x.requests, x.requests[i])] : i \in DOMAIN x.requests}
    \cup {[x EXCEPT !.effects = x.effects \ {f}] : f \in x.effects}
    \cup {[x EXCEPT !.receipts = x.receipts \ {r}] : r \in x.receipts}
    \cup {[x EXCEPT !.receipts = (x.receipts \ {r})
                        \cup {[r EXCEPT !.status = s]}] : r \in x.receipts, s \in Statuses \ {"unknown"}}
    \cup {[x EXCEPT !.revision = x.revision + 1], [x EXCEPT !.revision = x.revision - 1]}
    \cup (IF x.events = <<>> THEN {} ELSE {[x EXCEPT !.epoch = x.epoch + 1]})

\* An export that lost or changed one part is never revived as if it were whole: a missing
\* command, event, effect or receipt, or a rewritten outcome, refuses the restart.
DamageIsRefused ==
  LET x == ExportOf(session) IN \A y \in Damaged(x) \ {x} : ~CanRevive(y)

\* Recovery from any surviving snapshot, also one of a history that a restart from an older
\* export discarded, is refused or yields exactly the projection of the whole journal; a
\* snapshot of a prefix of the journal is never refused.
RecoveryIsTruthful ==
  open /\ session.events # <<>> =>
    LET recovered == Recover(snapshot, session.events)
        full == Replay(session.events)
    IN /\ full.ok
       /\ recovered.ok => recovered = full
       /\ ~recovered.ok =>
            \/ snapshot.sequence > session.lastSequence
            \/ Replay(UpTo(session.events, snapshot.sequence)) # snapshot.projection

\* What was exported comes back as it was or not at all, and a recovered projection is that of
\* the whole journal.
RecoveryIsExact == ExportsRevive /\ DamageIsRefused /\ RecoveryIsTruthful
=============================================================================
