------------------------------ MODULE HashLedger ------------------------------
(***************************************************************************)
(* The evidence ledger of a repository: a chain of events, the generations    *)
(* they accepted and the one that is active, in one database.  Each operation  *)
(* is one transaction of SQLite (external): it takes place whole, after all     *)
(* that committed before it, or is refused.  Contents stand for their digests.  *)
(***************************************************************************)
EXTENDS Naturals, Sequences

CONSTANT Nil

VARIABLES
  events,       \* the rows of the chain in order
  generations,  \* the accepted generations
  active        \* the commit of the active generation, or Nil

ledger == <<events, generations, active>>

\* eventHash: over the columns of the row, the hash of the row before it left out here.
Hash(e) == [seq |-> e.seq, kind |-> e.kind, by |-> e.by, about |-> e.about]

Latest == events[Len(events)]

Row(kind, by, about, previous) ==
  [seq |-> IF events = << >> THEN 1 ELSE Latest.seq + 1, kind |-> kind, by |-> by, about |-> about,
   previous |-> previous]

\* Defect: a connection links to the last event it wrote itself.
InsertOwn(kind, by, about) ==
  LET own == SelectSeq(events, LAMBDA e : e.by = by)
  IN events' = Append(events, Row(kind, by, about, IF own = << >> THEN Nil ELSE Hash(own[Len(own)])))

\* insertEvent: sequence and link are read from the tail in the transaction that writes.
InsertEvent(kind, by, about) ==
  events' = Append(events, Row(kind, by, about, IF events = << >> THEN Nil ELSE Hash(Latest)))

\* verifyChain
Intact ==
  \A i \in DOMAIN events :
    events[i].seq = i /\ events[i].previous = IF i = 1 THEN Nil ELSE Hash(events[i - 1])

\* append of an event that is about the run itself.
AppendEvent(kind, by, about) == InsertEvent(kind, by, about) /\ UNCHANGED <<generations, active>>

Recorded(sha) == \E g \in generations : g.sha = sha

\* recordGeneration: row, event and active generation together; a row is never replaced.
RecordGeneration(g) ==
  /\ ~Recorded(g.sha)
  /\ generations' = generations \cup {g}
  /\ InsertEvent("generation.accepted", g.by, g.sha)
  /\ active' = g.sha

\* rollback
RollbackTo(sha, by) ==
  /\ Recorded(sha)
  /\ InsertEvent("generation.rollback", by, sha)
  /\ active' = sha
  /\ UNCHANGED generations

LedgerInit == events = << >> /\ generations = {} /\ active = Nil
=============================================================================
