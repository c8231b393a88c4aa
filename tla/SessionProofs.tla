--------------------------- MODULE SessionProofs ----------------------------
(***************************************************************************)
(* Safety of the session service for every graph, every set of operations in *)
(* flight, every budget and every bound.  What a batch does to the projection  *)
(* is shown event by event: History gives the states between its events, and    *)
(* whatever one event preserves the batch preserves (Induction).                  *)
(***************************************************************************)
EXTENDS Session, SequenceTheorems, FiniteSetTheorems, WellFoundedInduction, TLAPS

-----------------------------------------------------------------------------
(* Folds.                                                                      *)

\* What holds of 0 and is passed on holds up to n.
LEMMA Induction ==
  ASSUME NEW n \in Nat, NEW P, 0 \in P, \A i \in 0..(n - 1) : i \in P => i + 1 \in P
  PROVE  \A i \in 0..n : i \in P
<1> DEFINE T == {i \in 0..n : i \notin P}
<1> SUFFICES ASSUME T # {} PROVE FALSE
  OBVIOUS
<1> DEFINE upTo(k) == 0..k
           U == {upTo(k) : k \in T}
           finite == FiniteSubsetsOf(0..n)
<1>a. U \subseteq finite /\ U # {}
  <2>1. \A k \in T : IsFiniteSet(upTo(k)) /\ upTo(k) \subseteq 0..n
    BY FS_Interval
  <2> QED BY <2>1 DEF FiniteSubsetsOf
<1>b. \E x \in U : \A y \in U : <<y, x>> \notin StrictSubsetOrdering(0..n)
  <2>1. IsWellFoundedOn(StrictSubsetOrdering(0..n), finite)
    BY FS_StrictSubsetOrderingWellFounded
  <2> HIDE DEF U, finite
  <2> QED BY <1>a, <2>1, WFMin
<1>1. PICK m \in T : \A k \in T : <<upTo(k), upTo(m)>> \notin StrictSubsetOrdering(0..n)
  BY <1>b
<1>2. ASSUME NEW k \in T, k < m PROVE FALSE
  <2>1. upTo(k) \subseteq upTo(m) /\ upTo(k) # upTo(m) /\ upTo(m) \subseteq 0..n
    BY <1>2
  <2> HIDE DEF upTo
  <2>2. <<upTo(k), upTo(m)>> \in StrictSubsetOrdering(0..n)
    BY <2>1 DEF StrictSubsetOrdering
  <2> QED BY <1>1, <2>2
<1>3. m # 0 /\ m - 1 \in 0..(n - 1)
  OBVIOUS
<1>4. m - 1 \in P
  BY <1>2, <1>3
<1> QED BY <1>3, <1>4

\* Replay starts from the projection and goes event by event.
LEMMA HistoryUnfolds ==
  ASSUME NEW st, NEW S, NEW events \in Seq(S)
  PROVE  /\ DOMAIN History(st, events) = 0..Len(events)
         /\ History(st, events)[0] = st
         /\ \A i \in 1..Len(events) : History(st, events)[i] = Reduce(History(st, events)[i - 1], events[i])
<1> DEFINE n == Len(events)
           Rec(f, k) == f = [i \in 0..k |-> IF i = 0 THEN st ELSE Reduce(f[i - 1], events[i])]
           Exists(k) == \E f : Rec(f, k)
           P == {k \in 0..n : Exists(k)}
<1>1. n \in Nat
  OBVIOUS
<1>2. 0 \in P
  <2>1. Rec([i \in 0..0 |-> st], 0)
    OBVIOUS
  <2>2. Exists(0)
    <3> HIDE DEF Rec
    <3> QED BY <2>1
  <2> HIDE DEF Exists
  <2> QED BY <1>1, <2>2
<1>3. ASSUME NEW k \in 0..(n - 1), k \in P PROVE k + 1 \in P
  <2>1. PICK f : Rec(f, k)
    <3> HIDE DEF Rec
    <3> QED BY <1>3
  <2> DEFINE g == [i \in 0..(k + 1) |-> IF i = k + 1 THEN Reduce(f[k], events[k + 1]) ELSE f[i]]
  <2>2. \A i \in 0..(k + 1) : g[i] = IF i = 0 THEN st ELSE Reduce(g[i - 1], events[i])
    <3> SUFFICES ASSUME NEW i \in 0..(k + 1) PROVE g[i] = IF i = 0 THEN st ELSE Reduce(g[i - 1], events[i])
      OBVIOUS
    <3>1. CASE i = k + 1
      BY <1>1, <3>1
    <3>2. CASE i # k + 1
      <4>1. i \in 0..k /\ g[i] = f[i] /\ (i # 0 => g[i - 1] = f[i - 1])
        BY <1>1, <3>2
      <4>2. f[i] = IF i = 0 THEN st ELSE Reduce(f[i - 1], events[i])
        BY <2>1, <4>1
      <4> QED BY <4>1, <4>2
    <3> QED BY <3>1, <3>2
  <2>3. Rec(g, k + 1)
    BY <2>2
  <2>4. Exists(k + 1)
    <3> HIDE DEF Rec, g
    <3> QED BY <2>3
  <2> HIDE DEF Exists
  <2> QED BY <1>1, <2>4
<1>4. n \in P
  <2> HIDE DEF P, n
  <2>1. \A i \in 0..(n - 1) : i \in P => i + 1 \in P
    BY <1>3
  <2>2. \A i \in 0..n : i \in P
    BY <1>1, <1>2, <2>1, Induction
  <2> QED BY <1>1, <2>2
<1>5. PICK f : Rec(f, n)
  <2> HIDE DEF Rec, n
  <2> QED BY <1>4
<1>6. Rec(History(st, events), n)
  BY <1>5 DEF History
<1> QED BY <1>1, <1>6

\* What FlattenSeq joins it joins from the left.
LEMMA FlattenUnfolds ==
  ASSUME NEW S, NEW seqs \in Seq(S), Len(seqs) # 0
  PROVE  \E f : /\ f[1] = seqs[1] /\ \A i \in 2..Len(seqs) : f[i] = f[i - 1] \o seqs[i]
                /\ FlattenSeq(seqs) = f[Len(seqs)]
<1> DEFINE n == Len(seqs)
           Rec(f, k) == f = [i \in 1..k |-> IF i = 1 THEN seqs[i] ELSE f[i - 1] \o seqs[i]]
           Exists(k) == \E f : Rec(f, k)
           P == {k \in 0..n : Exists(k)}
<1>1. n \in Nat \ {0}
  OBVIOUS
<1>2. 0 \in P
  <2>1. Rec([i \in 1..0 |-> seqs[i]], 0)
    OBVIOUS
  <2>2. Exists(0)
    <3> HIDE DEF Rec
    <3> QED BY <2>1
  <2> HIDE DEF Exists
  <2> QED BY <1>1, <2>2
<1>3. ASSUME NEW k \in 0..(n - 1), k \in P PROVE k + 1 \in P
  <2>1. PICK f : Rec(f, k)
    <3> HIDE DEF Rec
    <3> QED BY <1>3
  <2> DEFINE g == [i \in 1..(k + 1) |-> IF i = k + 1 THEN (IF i = 1 THEN seqs[i] ELSE f[k] \o seqs[k + 1]) ELSE f[i]]
  <2>2. \A i \in 1..(k + 1) : g[i] = IF i = 1 THEN seqs[i] ELSE g[i - 1] \o seqs[i]
    <3> SUFFICES ASSUME NEW i \in 1..(k + 1) PROVE g[i] = IF i = 1 THEN seqs[i] ELSE g[i - 1] \o seqs[i]
      OBVIOUS
    <3>1. CASE i = k + 1
      <4>1. i # 1 => k \in 1..(k + 1) /\ g[k] = f[k]
        BY <1>1, <3>1
      <4> QED BY <1>1, <3>1, <4>1
    <3>2. CASE i # k + 1
      <4>1. i \in 1..k /\ g[i] = f[i] /\ (i # 1 => g[i - 1] = f[i - 1])
        BY <1>1, <3>2
      <4>2. f[i] = IF i = 1 THEN seqs[i] ELSE f[i - 1] \o seqs[i]
        BY <2>1, <4>1
      <4> QED BY <4>1, <4>2
    <3> QED BY <3>1, <3>2
  <2>3. Rec(g, k + 1)
    BY <2>2
  <2>4. Exists(k + 1)
    <3> HIDE DEF Rec, g
    <3> QED BY <2>3
  <2> HIDE DEF Exists
  <2> QED BY <1>1, <2>4
<1>4. n \in P
  <2> HIDE DEF P, n
  <2>1. \A i \in 0..(n - 1) : i \in P => i + 1 \in P
    BY <1>3
  <2>2. \A i \in 0..n : i \in P
    BY <1>1, <1>2, <2>1, Induction
  <2> QED BY <1>1, <2>2
<1>5. \E f : Rec(f, n)
  <2> HIDE DEF Rec, n
  <2> QED BY <1>4
<1> DEFINE f == CHOOSE f : Rec(f, n)
<1>6. Rec(f, n)
  BY <1>5
<1>7. FlattenSeq(seqs) = f[n]
  BY DEF FlattenSeq
<1> HIDE DEF f
<1>8. f[1] = seqs[1] /\ \A i \in 2..n : f[i] = f[i - 1] \o seqs[i]
  <2> HIDE DEF n
  <2>1. \A i \in 1..n : f[i] = IF i = 1 THEN seqs[i] ELSE f[i - 1] \o seqs[i]
    BY <1>6
  <2>2. 1 \in 1..n /\ \A i \in 2..n : i \in 1..n /\ i # 1
    BY <1>1
  <2> QED BY <2>1, <2>2
<1> QED BY <1>7, <1>8

\* A joined batch holds what its parts hold, and nothing else.
LEMMA FlattenHolds ==
  ASSUME NEW S, NEW seqs \in Seq(Seq(S))
  PROVE  /\ FlattenSeq(seqs) \in Seq(S)
         /\ \A j \in 1..Len(FlattenSeq(seqs)) :
              \E i \in 1..Len(seqs) : \E k \in 1..Len(seqs[i]) : FlattenSeq(seqs)[j] = seqs[i][k]
         /\ \A i \in 1..Len(seqs) : \A k \in 1..Len(seqs[i]) :
              \E j \in 1..Len(FlattenSeq(seqs)) : FlattenSeq(seqs)[j] = seqs[i][k]
<1> DEFINE n == Len(seqs)
           Holds(q, m) ==
             /\ q \in Seq(S)
             /\ \A j \in 1..Len(q) : \E i \in 1..m : \E k \in 1..Len(seqs[i]) : q[j] = seqs[i][k]
             /\ \A i \in 1..m : \A k \in 1..Len(seqs[i]) : \E j \in 1..Len(q) : q[j] = seqs[i][k]
<1> SUFFICES Holds(FlattenSeq(seqs), n)
  OBVIOUS
<1>1. n \in Nat /\ \A i \in 1..n : seqs[i] \in Seq(S)
  OBVIOUS
<1>2. CASE n = 0
  <2>1. FlattenSeq(seqs) = <<>>
    BY <1>2 DEF FlattenSeq
  <2> QED BY <1>2, <2>1
<1>3. CASE n # 0
  <2>1. PICK f : /\ f[1] = seqs[1] /\ \A i \in 2..n : f[i] = f[i - 1] \o seqs[i]
                 /\ FlattenSeq(seqs) = f[n]
    BY <1>3, FlattenUnfolds
  <2> DEFINE P == {m \in 0..n : m # 0 => Holds(f[m], m)}
  <2>2. 0 \in P
    BY <1>1
  <2>3. ASSUME NEW m \in 0..(n - 1), m \in P PROVE Holds(f[m + 1], m + 1)
    <3>1. CASE m = 0
      BY <1>1, <1>3, <2>1, <3>1
    <3>2. CASE m # 0
      <4> DEFINE q == f[m]  r == seqs[m + 1]
      <4>1. Holds(q, m) /\ r \in Seq(S) /\ f[m + 1] = q \o r
        <5>1. m \in Nat /\ m + 1 \in 2..n
          BY <1>1, <3>2
        <5>2. Holds(q, m)
          BY <2>3, <3>2
        <5> HIDE DEF Holds, P
        <5>3. f[m + 1] = f[(m + 1) - 1] \o seqs[m + 1] /\ (m + 1) - 1 = m
          <6>1. (m + 1) - 1 = m
            BY <5>1
          <6> QED BY <2>1, <5>1, <6>1
        <5>4. seqs[m + 1] \in Seq(S)
          BY <1>1, <5>1
        <5> QED BY <5>2, <5>3, <5>4
      <4> HIDE DEF q, r
      <4>2. /\ q \o r \in Seq(S) /\ Len(q \o r) = Len(q) + Len(r)
            /\ \A j \in 1..Len(q) : (q \o r)[j] = q[j]
            /\ \A j \in 1..Len(r) : (q \o r)[Len(q) + j] = r[j]
        BY <4>1
      <4>3. ASSUME NEW j \in 1..Len(q \o r)
            PROVE  \E i \in 1..(m + 1) : \E k \in 1..Len(seqs[i]) : (q \o r)[j] = seqs[i][k]
        <5>1. CASE j \in 1..Len(q)
          <6>1. PICK i \in 1..m : \E k \in 1..Len(seqs[i]) : q[j] = seqs[i][k]
            BY <4>1, <5>1
          <6>2. i \in 1..(m + 1) /\ (q \o r)[j] = q[j]
            BY <4>2, <5>1, <6>1
          <6> QED BY <6>1, <6>2
        <5>2. CASE j \notin 1..Len(q)
          <6>1. j - Len(q) \in 1..Len(r) /\ (q \o r)[j] = r[j - Len(q)]
            BY <4>1, <4>2, <5>2
          <6>2. m + 1 \in 1..(m + 1)
            OBVIOUS
          <6>3. PICK k \in 1..Len(r) : (q \o r)[j] = r[k]
            BY <6>1
          <6>4. seqs[m + 1] = r
            BY DEF r
          <6>5. k \in 1..Len(seqs[m + 1]) /\ (q \o r)[j] = seqs[m + 1][k]
            BY <6>3, <6>4
          <6> QED BY <6>2, <6>5
        <5> QED BY <5>1, <5>2
      <4>4. ASSUME NEW i \in 1..(m + 1), NEW k \in 1..Len(seqs[i])
            PROVE  \E j \in 1..Len(q \o r) : (q \o r)[j] = seqs[i][k]
        <5>1. CASE i \in 1..m
          <6>1. PICK j \in 1..Len(q) : q[j] = seqs[i][k]
            BY <4>1, <5>1
          <6>2. j \in 1..Len(q \o r) /\ (q \o r)[j] = q[j]
            BY <4>1, <4>2, <6>1
          <6> QED BY <6>1, <6>2
        <5>2. CASE i = m + 1
          <6>1. k \in 1..Len(r) /\ r[k] = seqs[i][k]
            BY <5>2 DEF r
          <6>2. Len(q) + k \in 1..Len(q \o r) /\ (q \o r)[Len(q) + k] = r[k]
            BY <4>1, <4>2, <6>1
          <6> QED BY <6>1, <6>2
        <5>3. i \in 1..m \/ i = m + 1
          OBVIOUS
        <5> QED BY <5>1, <5>2, <5>3
      <4>5. Holds(q \o r, m + 1)
        BY <4>2, <4>3, <4>4
      <4> HIDE DEF Holds
      <4> QED BY <4>1, <4>5
    <3> QED BY <3>1, <3>2
  <2>4. \A m \in 0..(n - 1) : m \in P => m + 1 \in P
    <3> HIDE DEF Holds
    <3> QED BY <1>1, <2>3
  <2> HIDE DEF P, n
  <2>5. n \in P
    <3>1. \A m \in 0..n : m \in P
      BY <1>1, <2>2, <2>4, Induction
    <3> QED BY <1>1, <3>1
  <2> HIDE DEF Holds
  <2> QED BY <1>3, <2>1, <2>5 DEF P
<1> QED BY <1>2, <1>3

-----------------------------------------------------------------------------
(* One event.                                                                  *)

\* What a batch may hold that is planned while there are k effects.
Event(k) ==
  [type : {"node.transition"}, node : Nodes, attempt : Attempts,
   before : NodeStates \cup {None}, after : NodeStates \cup {None}]
  \cup [type : {"effect.intended"}, effect : Effect]
  \cup [type : {"effect.dispatched"}, effect : 1..k]
  \cup [type : {"receipt.applied"}, effect : 1..k, status : Statuses, row : UsageRows \cup {None}]
  \cup [type : {"mode"}, mode : {"active", "paused", "cancelling", "cancelled"}]
  \cup [type : {"session.epoch-changed"}, epoch : 1..MaxEpoch]

\* The projections there are: what is reserved for a request can be released again.
State == {st \in RuntimeState : st.budget.reservePerRequest \in Micros}

\* The five kinds of event, and what each does (reduce).
LEMMA ReduceMove ==
  ASSUME NEW st, NEW ev, ev.type = "node.transition"
  PROVE  Reduce(st, ev) = [st EXCEPT !.nodeStates[<<ev.node, ev.attempt>>] = ev.after,
                                     !.attempts[ev.node] = IF @ > ev.attempt THEN @ ELSE ev.attempt,
                                     !.fault = IF Chained(st, ev) THEN @ ELSE "chain"]
BY DEF Reduce

\* An intention is journalled with the reservation of its task.
LEMMA ReduceIntended ==
  ASSUME NEW st, NEW ev, ev.type = "effect.intended"
  PROVE  Reduce(st, ev) =
           IF ev.effect.kind = "task"
           THEN [st EXCEPT !.effects = Append(@, ev.effect),
                           !.budget = AfterReserve(@, ReservationRef(ev.effect)),
                           !.fault = IF ReserveRefused(st.budget, ReservationRef(ev.effect))
                                     THEN "budget" ELSE @]
           ELSE [st EXCEPT !.effects = Append(@, ev.effect)]
<1>1. ev.effect.kind = "task" \/ ev.effect.kind # "task"
  OBVIOUS
<1> QED BY <1>1 DEF Reduce

\* An effect with what a receipt says of it.
Answered(f, status) ==
  [f EXCEPT !.entry = IF status = "unknown" THEN "unknown" ELSE "resolved",
            !.status = IF status = "unknown" THEN None ELSE status]

\* A receipt resolves its effect or leaves it in doubt, and moves its reservation.
LEMMA ReduceApplied ==
  ASSUME NEW st \in RuntimeState, NEW ev, ev.type = "receipt.applied", ev.effect \in 1..Len(st.effects)
  PROVE  Reduce(st, ev) =
           [st EXCEPT
              !.effects = [st.effects EXCEPT ![ev.effect] = Answered(st.effects[ev.effect], ev.status)],
              !.budget = ReducedBudget(st.budget, st.effects[ev.effect], ev.status, ev.row),
              !.usage = IF ev.row = None THEN st.usage ELSE st.usage \cup {RowOf(st.effects[ev.effect], ev.row)},
              !.blocked = st.blocked \/ UsageIssue(st.budget, st.effects[ev.effect], ev.status, ev.row)
                                 \notin {None, "USAGE_INCOMPLETE"}]
<1> DEFINE f == st.effects[ev.effect]
           x == IF ev.status = "unknown" THEN "unknown" ELSE "resolved"
           y == IF ev.status = "unknown" THEN None ELSE ev.status
           B == ReducedBudget(st.budget, f, ev.status, ev.row)
           U == IF ev.row = None THEN st.usage ELSE st.usage \cup {RowOf(f, ev.row)}
           W == st.blocked \/ UsageIssue(st.budget, f, ev.status, ev.row) \notin {None, "USAGE_INCOMPLETE"}
<1>1. Reduce(st, ev) = [st EXCEPT !.effects[ev.effect].entry = x, !.effects[ev.effect].status = y,
                                  !.budget = B, !.usage = U, !.blocked = W]
  BY DEF Reduce
<1>2. st.effects \in Seq(Effect) /\ f \in Effect
  BY DEF RuntimeState
<1> HIDE DEF x, y, B, U, W
<1> DEFINE E == [st.effects EXCEPT ![ev.effect] = [f EXCEPT !.entry = x]]
           G == [st.effects EXCEPT ![ev.effect] = [f EXCEPT !.entry = x, !.status = y]]
<1>3. [st EXCEPT !.effects[ev.effect].entry = x] = [st EXCEPT !.effects = E]
  BY DEF RuntimeState
<1>4. E[ev.effect] = [f EXCEPT !.entry = x] /\ [E EXCEPT ![ev.effect] = [f EXCEPT !.entry = x, !.status = y]] = G
  BY <1>2
<1>5. [[st EXCEPT !.effects = E] EXCEPT !.effects[ev.effect].status = y] = [st EXCEPT !.effects = G]
  <2>1. [[st EXCEPT !.effects = E] EXCEPT !.effects[ev.effect].status = y]
          = [[st EXCEPT !.effects = E] EXCEPT !.effects = [E EXCEPT ![ev.effect] = [[f EXCEPT !.entry = x] EXCEPT !.status = y]]]
    <3>1. [st EXCEPT !.effects = E].effects = E
      BY DEF RuntimeState
    <3> HIDE DEF E
    <3> QED BY <1>4, <3>1
  <2>2. [E EXCEPT ![ev.effect] = [[f EXCEPT !.entry = x] EXCEPT !.status = y]] = G
    BY <1>4
  <2> HIDE DEF E, G
  <2> QED BY <2>1, <2>2 DEF RuntimeState
<1>6. Reduce(st, ev) = [st EXCEPT !.effects = G, !.budget = B, !.usage = U, !.blocked = W]
  <2> HIDE DEF E, G
  <2>1. [st EXCEPT !.effects[ev.effect].entry = x, !.effects[ev.effect].status = y] = [st EXCEPT !.effects = G]
    BY <1>3, <1>5
  <2> QED BY <1>1, <2>1
<1> QED BY <1>6 DEF x, y, B, U, W, Answered

\* A claim, a mode and an epoch are single fields.
LEMMA ReduceField ==
  ASSUME NEW st, NEW ev
  PROVE  /\ ev.type = "effect.dispatched" =>
              Reduce(st, ev) = [st EXCEPT !.effects[ev.effect].entry = "dispatched"]
         /\ ev.type = "mode" => Reduce(st, ev) = [st EXCEPT !.dispatchMode = ev.mode]
         /\ ev.type = "session.epoch-changed" => Reduce(st, ev) = [st EXCEPT !.epoch = ev.epoch]
BY DEF Reduce

\* The ledger stays one whatever is reserved, settled or released (reserve, settle, releaseUnspent).
LEMMA LedgerStays ==
  ASSUME NEW l \in Ledger, l.reservePerRequest \in Micros
  PROVE  /\ \A id \in RequestIds :
              /\ AfterReserve(l, id) \in Ledger
              /\ AfterReserve(l, id).reservePerRequest = l.reservePerRequest
              /\ AfterRelease(l, id, l.reservePerRequest) \in Ledger
              /\ AfterRelease(l, id, l.reservePerRequest).reservePerRequest = l.reservePerRequest
         /\ \A row \in Usage :
              /\ AfterSettle(l, row) \in Ledger
              /\ AfterSettle(l, row).reservePerRequest = l.reservePerRequest
<1> USE SessionAssumption
<1>1. \A i \in RequestIds, x \in Nat, d \in Digest :
        Moved(l, i, x, d) \in Ledger /\ Moved(l, i, x, d).reservePerRequest = l.reservePerRequest
  <2> TAKE i \in RequestIds, x \in Nat, d \in Digest
  <2>1. [requestId |-> i, micros |-> x, digest |-> d] \in Settlement
    BY DEF Settlement
  <2>2. /\ {r \in l.reservations : r.requestId # i} \in SUBSET Reservation
        /\ l.settlements \cup {[requestId |-> i, micros |-> x, digest |-> d]} \in SUBSET Settlement
    BY <2>1 DEF Ledger
  <2> HIDE DEF Settlement
  <2> QED BY <2>2 DEF Moved, Ledger
<1>2. ASSUME NEW id \in RequestIds
      PROVE  AfterReserve(l, id) \in Ledger /\ AfterReserve(l, id).reservePerRequest = l.reservePerRequest
  <2>1. l.reservePerRequest \in Nat
    BY DEF Ledger
  <2>2. [requestId |-> id, micros |-> l.reservePerRequest] \in Reservation
    BY <2>1 DEF Reservation
  <2> DEFINE R == l.reservations \cup {[requestId |-> id, micros |-> l.reservePerRequest]}
  <2>3. R \in SUBSET Reservation /\ l.requestCount + 1 \in Nat
    BY <2>2 DEF Ledger
  <2>4. AfterReserve(l, id) \in {l, [l EXCEPT !.reservations = R, !.requestCount = @ + 1]}
    BY DEF AfterReserve
  <2> HIDE DEF R
  <2>5. [l EXCEPT !.reservations = R, !.requestCount = @ + 1] \in Ledger
    BY <2>3 DEF Ledger
  <2> QED BY <2>4, <2>5 DEF Ledger
<1>3. ASSUME NEW row \in Usage
      PROVE  AfterSettle(l, row) \in Ledger /\ AfterSettle(l, row).reservePerRequest = l.reservePerRequest
  <2>1. row.requestId \in RequestIds /\ <<"usage", row>> \in Digest /\ (ChargeOf(row) # None => ChargeOf(row) \in Nat)
    BY DEF Usage, Digest, ChargeOf
  <2> QED BY <1>1, <2>1 DEF AfterSettle
<1>4. ASSUME NEW id \in RequestIds
      PROVE  /\ AfterRelease(l, id, l.reservePerRequest) \in Ledger
             /\ AfterRelease(l, id, l.reservePerRequest).reservePerRequest = l.reservePerRequest
  <2>1. CASE id \in ReservedIds(l) \ SettledIds(l) /\ l.reservePerRequest # None
    <3> DEFINE r == CHOOSE x \in l.reservations : x.requestId = id
    <3>1. r \in l.reservations
      BY <2>1 DEF ReservedIds
    <3>2. Spent(r.micros, l.reservePerRequest) \in Nat /\ <<"release", l.reservePerRequest>> \in Digest
      BY <3>1 DEF Spent, Digest, Ledger, Reservation
    <3>3. AfterRelease(l, id, l.reservePerRequest) =
            Moved(l, id, Spent(r.micros, l.reservePerRequest), <<"release", l.reservePerRequest>>)
      BY <2>1 DEF AfterRelease
    <3> QED BY <1>1, <3>2, <3>3
  <2>2. CASE ~(id \in ReservedIds(l) \ SettledIds(l) /\ l.reservePerRequest # None)
    BY <2>2 DEF AfterRelease
  <2> QED BY <2>1, <2>2
<1> QED BY <1>2, <1>3, <1>4

\* An effect keeps what it is; only its entry and its outcome change.
SameEffect(f, g) ==
  /\ f.kind = g.kind /\ f.node = g.node /\ f.attempt = g.attempt /\ f.epoch = g.epoch
  /\ f.leased = g.leased /\ f.targets = g.targets

\* next is a projection with the effects of st, and perhaps more.
Extends(st, next) ==
  /\ next \in State /\ Len(next.effects) >= Len(st.effects)
  /\ \A e \in 1..Len(st.effects) : SameEffect(st.effects[e], next.effects[e])

\* Every event leads from a projection to one (reduce).
LEMMA ReduceTyped ==
  ASSUME NEW st \in State, NEW k \in Nat, k <= Len(st.effects), NEW ev \in Event(k)
  PROVE  Extends(st, Reduce(st, ev))
<1> DEFINE next == Reduce(st, ev)
<1> USE SessionAssumption
<1>1. st \in RuntimeState /\ st.effects \in Seq(Effect) /\ st.budget \in Ledger /\ st.budget.reservePerRequest \in Micros
  BY DEF State, RuntimeState
<1>2. CASE ev.type = "node.transition"
  <2>1. ev.node \in Nodes /\ ev.attempt \in Attempts /\ ev.after \in NodeStates \cup {None}
    BY <1>2 DEF Event
  <2> DEFINE N == [st.nodeStates EXCEPT ![<<ev.node, ev.attempt>>] = ev.after]
             A == [st.attempts EXCEPT ![ev.node] = IF @ > ev.attempt THEN @ ELSE ev.attempt]
             F == IF Chained(st, ev) THEN st.fault ELSE "chain"
  <2>2. next = [st EXCEPT !.nodeStates = N, !.attempts = A, !.fault = F]
    BY <1>2, ReduceMove, <1>1 DEF RuntimeState
  <2>3. N \in [Nodes \X Attempts -> NodeStates \cup {None}] /\ A \in [Nodes -> {0} \cup Attempts]
        /\ F \in {"none", "chain", "budget"}
    BY <1>1, <2>1 DEF RuntimeState
  <2> HIDE DEF N, A, F, next
  <2>4. next \in RuntimeState /\ next.budget = st.budget /\ next.effects = st.effects
    BY <1>1, <2>2, <2>3 DEF RuntimeState
  <2> QED BY <1>1, <2>4 DEF State, Extends, SameEffect, next
<1>3. CASE ev.type = "effect.intended"
  <2>1. ev.effect \in Effect
    BY <1>3 DEF Event
  <2>2. ReservationRef(ev.effect) \in RequestIds
    BY <2>1 DEF Effect, ReservationRef, Refs
  <2> DEFINE E == Append(st.effects, ev.effect)
             B == IF ev.effect.kind = "task" THEN AfterReserve(st.budget, ReservationRef(ev.effect)) ELSE st.budget
             F == IF ev.effect.kind = "task" /\ ReserveRefused(st.budget, ReservationRef(ev.effect))
                  THEN "budget" ELSE st.fault
  <2>3. next = [st EXCEPT !.effects = E, !.budget = B, !.fault = F]
    <3>1. CASE ev.effect.kind = "task"
      BY <1>3, <3>1, ReduceIntended
    <3>2. CASE ev.effect.kind # "task"
      <4>1. B = st.budget /\ F = st.fault
        BY <3>2
      <4>2. next = [st EXCEPT !.effects = E]
        BY <1>3, <3>2, ReduceIntended
      <4> HIDE DEF E, B, F, next
      <4> QED BY <1>1, <4>1, <4>2 DEF RuntimeState
    <3> QED BY <3>1, <3>2
  <2>4. B \in Ledger /\ B.reservePerRequest = st.budget.reservePerRequest
    BY <1>1, <2>2, LedgerStays
  <2>5. E \in Seq(Effect) /\ F \in {"none", "chain", "budget"}
    BY <1>1, <2>1 DEF RuntimeState
  <2>6. Len(E) >= Len(st.effects) /\ \A e \in 1..Len(st.effects) : E[e] = st.effects[e]
    BY <1>1, <2>1
  <2> HIDE DEF E, B, F, next
  <2>7. next \in RuntimeState /\ next.budget = B /\ next.effects = E
    BY <1>1, <2>3, <2>4, <2>5 DEF RuntimeState
  <2> QED BY <1>1, <2>4, <2>6, <2>7 DEF State, Extends, SameEffect, next
<1>4. CASE ev.type = "effect.dispatched"
  <2>1. ev.effect \in 1..Len(st.effects)
    BY <1>4 DEF Event
  <2> DEFINE g == [st.effects[ev.effect] EXCEPT !.entry = "dispatched"]
             E == [st.effects EXCEPT ![ev.effect] = g]
  <2>2. next = [st EXCEPT !.effects = E]
    BY <1>4, ReduceField, <1>1 DEF RuntimeState
  <2>a. g \in Effect /\ SameEffect(st.effects[ev.effect], g)
    <3>1. PICK f \in Effect : f = st.effects[ev.effect]
      BY <1>1, <2>1
    <3>2. [f EXCEPT !.entry = "dispatched"] \in Effect /\ SameEffect(f, [f EXCEPT !.entry = "dispatched"])
      BY DEF Effect, SameEffect
    <3> QED BY <3>1, <3>2
  <2>3. E \in Seq(Effect) /\ Len(E) = Len(st.effects) /\ \A e \in 1..Len(st.effects) : SameEffect(st.effects[e], E[e])
    <3> HIDE DEF g
    <3> QED BY <1>1, <2>1, <2>a DEF SameEffect
  <2> HIDE DEF E, next
  <2>4. next \in RuntimeState /\ next.budget = st.budget /\ next.effects = E
    BY <1>1, <2>2, <2>3 DEF RuntimeState
  <2> QED BY <1>1, <2>3, <2>4 DEF State, Extends, next
<1>5. CASE ev.type = "receipt.applied"
  <2>1. ev.effect \in 1..Len(st.effects) /\ ev.status \in Statuses /\ ev.row \in UsageRows \cup {None}
    BY <1>5 DEF Event
  <2> DEFINE f == st.effects[ev.effect]
             g == Answered(f, ev.status)
             E == [st.effects EXCEPT ![ev.effect] = g]
             B == ReducedBudget(st.budget, f, ev.status, ev.row)
             U == IF ev.row = None THEN st.usage ELSE st.usage \cup {RowOf(f, ev.row)}
             W == st.blocked \/ UsageIssue(st.budget, f, ev.status, ev.row) \notin {None, "USAGE_INCOMPLETE"}
  <2>2. next = [st EXCEPT !.effects = E, !.budget = B, !.usage = U, !.blocked = W]
    BY <1>1, <1>5, <2>1, ReduceApplied
  <2>a. f \in Effect
    BY <1>1, <2>1
  <2>3. f \in Effect /\ ReservationRef(f) \in RequestIds
    <3> HIDE DEF f
    <3> QED BY <2>a DEF Effect, ReservationRef, Refs
  <2>b. g \in Effect /\ SameEffect(f, g)
    <3> HIDE DEF f
    <3> QED BY <2>1, <2>a DEF Effect, SameEffect, Answered
  <2>4. ev.row # None => RowOf(f, ev.row) \in Usage
    BY <2>1, <2>3 DEF RowOf, Usage
  <2>5. E \in Seq(Effect) /\ Len(E) = Len(st.effects) /\ \A e \in 1..Len(st.effects) : SameEffect(st.effects[e], E[e])
    <3> HIDE DEF g
    <3> QED BY <1>1, <2>1, <2>b DEF SameEffect
  <2>6. B \in Ledger /\ B.reservePerRequest = st.budget.reservePerRequest
    BY <1>1, <2>3, <2>4, LedgerStays DEF ReducedBudget
  <2>7. U \in SUBSET Usage /\ W \in BOOLEAN
    BY <1>1, <2>4 DEF RuntimeState
  <2> HIDE DEF E, B, U, W, next
  <2>8. next \in RuntimeState /\ next.budget = B /\ next.effects = E
    BY <1>1, <2>2, <2>5, <2>6, <2>7 DEF RuntimeState
  <2> QED BY <1>1, <2>5, <2>6, <2>8 DEF State, Extends, next
<1>6. CASE ev.type = "mode"
  <2>1. next = [st EXCEPT !.dispatchMode = ev.mode] /\ ev.mode \in {"active", "paused", "cancelling", "cancelled"}
    BY <1>6, ReduceField DEF Event
  <2> HIDE DEF next
  <2>2. next \in RuntimeState /\ next.budget = st.budget /\ next.effects = st.effects
    BY <1>1, <2>1 DEF RuntimeState
  <2> QED BY <1>1, <2>2 DEF State, Extends, SameEffect, next
<1>7. CASE ev.type = "session.epoch-changed"
  <2>1. next = [st EXCEPT !.epoch = ev.epoch] /\ ev.epoch \in 1..MaxEpoch
    BY <1>7, ReduceField DEF Event
  <2> HIDE DEF next
  <2>2. next \in RuntimeState /\ next.budget = st.budget /\ next.effects = st.effects
    BY <1>1, <2>1 DEF RuntimeState
  <2> QED BY <1>1, <2>2 DEF State, Extends, SameEffect, next
<1>8. ev.type \in {"node.transition", "effect.intended", "effect.dispatched", "receipt.applied", "mode",
                   "session.epoch-changed"}
  BY DEF Event
<1> QED BY <1>2, <1>3, <1>4, <1>5, <1>6, <1>7, <1>8

-----------------------------------------------------------------------------
(* A batch.                                                                    *)

\* An empty batch changes nothing, and a batch of one event does what the event does.
LEMMA AfterFew ==
  ASSUME NEW st
  PROVE  After(st, <<>>) = st /\ \A ev : After(st, <<ev>>) = Reduce(st, ev)
<1>1. After(st, <<>>) = st
  <2>1. <<>> \in Seq({}) /\ Len(<<>>) = 0
    OBVIOUS
  <2> QED BY <2>1, HistoryUnfolds DEF After
<1>2. ASSUME NEW ev PROVE After(st, <<ev>>) = Reduce(st, ev)
  <2>a. <<ev>> \in Seq({ev}) /\ Len(<<ev>>) = 1 /\ <<ev>>[1] = ev
    OBVIOUS
  <2>1. PICK one \in Seq({ev}) : one = <<ev>> /\ Len(one) = 1 /\ one[1] = ev
    BY <2>a
  <2>2. /\ History(st, one)[0] = st
        /\ \A i \in 1..Len(one) : History(st, one)[i] = Reduce(History(st, one)[i - 1], one[i])
    BY HistoryUnfolds
  <2>3. 1 \in 1..Len(one) /\ 1 - 1 = 0
    BY <2>1
  <2>4. History(st, one)[1] = Reduce(History(st, one)[1 - 1], one[1])
    BY <2>2, <2>3
  <2> QED BY <2>1, <2>2, <2>3, <2>4 DEF After
<1> QED BY <1>1, <1>2

\* A batch that is one batch after another is replayed one after the other.
LEMMA AfterConcat ==
  ASSUME NEW st, NEW S, NEW a \in Seq(S), NEW b \in Seq(S)
  PROVE  After(st, a \o b) = After(After(st, a), b)
<1> DEFINE m == Len(a)  n == Len(b)  c == a \o b
           h == History(st, c)  f == History(st, a)  g == History(After(st, a), b)
<1>1. /\ m \in Nat /\ n \in Nat /\ c \in Seq(S) /\ Len(c) = m + n
      /\ \A i \in 1..m : c[i] = a[i]
      /\ \A i \in 1..n : c[m + i] = b[i]
  OBVIOUS
<1>2. h[0] = st /\ \A i \in 1..(m + n) : h[i] = Reduce(h[i - 1], c[i])
  <2> HIDE DEF c, m, n
  <2>a. c \in Seq(S)
    BY <1>1
  <2>1. h[0] = st /\ \A i \in 1..Len(c) : h[i] = Reduce(h[i - 1], c[i])
    BY <2>a, HistoryUnfolds
  <2> QED BY <1>1, <2>1
<1>3. f[0] = st /\ \A i \in 1..m : f[i] = Reduce(f[i - 1], a[i])
  BY HistoryUnfolds
<1>4. g[0] = f[m] /\ \A i \in 1..n : g[i] = Reduce(g[i - 1], b[i])
  BY HistoryUnfolds DEF After
<1> HIDE DEF m, n, c, h, f, g
<1>5. h[m] = f[m]
  <2> DEFINE P == {i \in 0..m : h[i] = f[i]}
  <2>1. 0 \in P
    BY <1>1, <1>2, <1>3
  <2>2. \A i \in 0..(m - 1) : i \in P => i + 1 \in P
    <3> SUFFICES ASSUME NEW i \in 0..(m - 1), h[i] = f[i] PROVE i + 1 \in 0..m /\ h[i + 1] = f[i + 1]
      OBVIOUS
    <3>1. i + 1 \in 0..m /\ i + 1 \in 1..m /\ i + 1 \in 1..(m + n) /\ (i + 1) - 1 = i
      BY <1>1
    <3>2. h[i + 1] = Reduce(h[(i + 1) - 1], c[i + 1]) /\ f[i + 1] = Reduce(f[(i + 1) - 1], a[i + 1])
      BY <1>2, <1>3, <3>1
    <3> QED BY <1>1, <3>1, <3>2
  <2> HIDE DEF P
  <2>3. \A i \in 0..m : i \in P
    BY <1>1, <2>1, <2>2, Induction
  <2> QED BY <1>1, <2>3 DEF P
<1>6. h[m + n] = g[n]
  <2> DEFINE P == {i \in 0..n : h[m + i] = g[i]}
  <2>1. 0 \in P
    BY <1>1, <1>4, <1>5
  <2>2. \A i \in 0..(n - 1) : i \in P => i + 1 \in P
    <3> SUFFICES ASSUME NEW i \in 0..(n - 1), h[m + i] = g[i]
                 PROVE  i + 1 \in 0..n /\ h[m + (i + 1)] = g[i + 1]
      OBVIOUS
    <3>1. /\ i + 1 \in 0..n /\ i + 1 \in 1..n /\ m + (i + 1) \in 1..(m + n)
          /\ (i + 1) - 1 = i /\ (m + (i + 1)) - 1 = m + i
      BY <1>1
    <3>2. h[m + (i + 1)] = Reduce(h[(m + (i + 1)) - 1], c[m + (i + 1)]) /\ g[i + 1] = Reduce(g[(i + 1) - 1], b[i + 1])
      BY <1>2, <1>4, <3>1
    <3> QED BY <1>1, <3>1, <3>2
  <2> HIDE DEF P
  <2>3. \A i \in 0..n : i \in P
    BY <1>1, <2>1, <2>2, Induction
  <2> QED BY <1>1, <2>3 DEF P
<1>7. After(st, c) = h[m + n] /\ After(After(st, a), b) = g[n]
  BY <1>1 DEF After, h, g, n
<1> QED BY <1>6, <1>7 DEF c

\* A joined batch is replayed part by part.
LEMMA AfterJoined ==
  ASSUME NEW st, NEW S, NEW seqs \in Seq(Seq(S))
  PROVE  \E h : /\ h[0] = st /\ \A i \in 1..Len(seqs) : h[i] = After(h[i - 1], seqs[i])
                /\ After(st, FlattenSeq(seqs)) = h[Len(seqs)]
<1> DEFINE n == Len(seqs)
<1>1. n \in Nat /\ \A i \in 1..n : seqs[i] \in Seq(S)
  OBVIOUS
<1>2. CASE n = 0
  <2>1. FlattenSeq(seqs) = <<>>
    BY <1>2 DEF FlattenSeq
  <2> DEFINE h == [i \in 0..0 |-> st]
  <2>2. h[0] = st /\ 1..Len(seqs) = {} /\ Len(seqs) = 0
    BY <1>2
  <2> HIDE DEF h
  <2> QED BY <2>1, <2>2, AfterFew
<1>3. CASE n # 0
  <2>1. PICK f : /\ f[1] = seqs[1] /\ \A i \in 2..n : f[i] = f[i - 1] \o seqs[i]
                 /\ FlattenSeq(seqs) = f[n]
    BY <1>3, FlattenUnfolds
  <2> DEFINE P == {i \in 0..n : i # 0 => f[i] \in Seq(S)}
             h == [i \in 0..n |-> IF i = 0 THEN st ELSE After(st, f[i])]
  <2> HIDE DEF n
  <2>2. 0 \in P
    BY <1>1
  <2>3. ASSUME NEW i \in 0..(n - 1), i \in P PROVE i + 1 \in P
    <3>1. CASE i = 0
      BY <1>1, <1>3, <2>1, <3>1
    <3>2. CASE i # 0
      <4>1. i \in Nat /\ i + 1 \in 2..n /\ (i + 1) - 1 = i
        BY <1>1, <3>2
      <4>a. f[i + 1] = f[(i + 1) - 1] \o seqs[i + 1] /\ f[i] \in Seq(S)
        BY <2>1, <2>3, <3>2, <4>1
      <4>b. i + 1 \in 1..n
        BY <1>1, <4>1
      <4>2. f[i + 1] = f[i] \o seqs[i + 1] /\ f[i] \in Seq(S) /\ seqs[i + 1] \in Seq(S)
        BY <1>1, <4>1, <4>a, <4>b
      <4>3. f[i + 1] \in Seq(S)
        BY <4>2
      <4> QED BY <1>1, <4>1, <4>3
    <3> QED BY <3>1, <3>2
  <2>4. \A i \in 0..n : i \in P
    <3>1. \A i \in 0..(n - 1) : i \in P => i + 1 \in P
      BY <2>3
    <3> HIDE DEF P
    <3> QED BY <1>1, <2>2, <3>1, Induction
  <2>5. ASSUME NEW i \in 1..n PROVE h[i] = After(h[i - 1], seqs[i])
    <3>1. CASE i = 1
      <4>1. h[1] = After(st, seqs[1]) /\ h[1 - 1] = st
        BY <1>1, <1>3, <2>1
      <4> QED BY <3>1, <4>1
    <3>2. CASE i # 1
      <4>1. i \in 0..n /\ i - 1 \in 0..n /\ i # 0 /\ i - 1 # 0 /\ i \in 2..n
        BY <1>1, <3>2
      <4>2. h[i] = After(st, f[i]) /\ h[i - 1] = After(st, f[i - 1]) /\ f[i] = f[i - 1] \o seqs[i]
        BY <2>1, <4>1
      <4>3. f[i - 1] \in Seq(S) /\ seqs[i] \in Seq(S)
        BY <1>1, <2>4, <4>1
      <4> QED BY <4>2, <4>3, AfterConcat
    <3> QED BY <3>1, <3>2
  <2>6. h[0] = st /\ h[n] = After(st, FlattenSeq(seqs))
    BY <1>1, <1>3, <2>1
  <2> HIDE DEF h
  <2> QED BY <2>5, <2>6 DEF n
<1> QED BY <1>2, <1>3

\* Whatever a batch plans, a projection comes out of it, with the effects it went in with.
LEMMA AfterTyped ==
  ASSUME NEW st \in State, NEW k \in Nat, k <= Len(st.effects), NEW events \in Seq(Event(k))
  PROVE  Extends(st, After(st, events))
<1> DEFINE n == Len(events)
           h == History(st, events)
           P == {i \in 0..n : Extends(st, h[i])}
<1>1. n \in Nat /\ h[0] = st /\ (\A i \in 1..n : h[i] = Reduce(h[i - 1], events[i] ) /\ events[i] \in Event(k))
  <2> HIDE DEF Event
  <2> QED BY HistoryUnfolds
<1>2. st.effects \in Seq(Effect)
  BY DEF State, RuntimeState
<1> HIDE DEF h, n, Event
<1>3. 0 \in P
  BY <1>1, <1>2 DEF Extends, SameEffect
<1>4. ASSUME NEW i \in 0..(n - 1), i \in P PROVE i + 1 \in P
  <2>1. i + 1 \in 1..n /\ (i + 1) - 1 = i
    BY <1>1
  <2>2. h[i + 1] = Reduce(h[(i + 1) - 1], events[i + 1]) /\ events[i + 1] \in Event(k)
    BY <1>1, <2>1
  <2> DEFINE a == h[i]  b == h[i + 1]
  <2>3. Extends(st, a) /\ b = Reduce(a, events[i + 1])
    BY <1>4, <2>1, <2>2
  <2> HIDE DEF a, b
  <2>4. a \in State /\ k <= Len(a.effects)
    <3>1. a \in State /\ Len(a.effects) >= Len(st.effects) /\ Len(a.effects) \in Nat /\ Len(st.effects) \in Nat
      BY <1>2, <2>3 DEF Extends, State, RuntimeState
    <3> QED BY <3>1
  <2>5. Extends(a, b)
    BY <2>2, <2>3, <2>4, ReduceTyped
  <2>6. Extends(st, b)
    <3>1. Len(a.effects) \in Nat /\ Len(st.effects) \in Nat /\ Len(b.effects) \in Nat
      BY <1>2, <2>4, <2>5 DEF Extends, State, RuntimeState
    <3> QED BY <2>3, <2>5, <3>1 DEF Extends, SameEffect
  <2> QED BY <1>1, <2>1, <2>6 DEF b
<1>5. n \in P
  <2>1. \A i \in 0..(n - 1) : i \in P => i + 1 \in P
    BY <1>4
  <2> HIDE DEF P
  <2>2. \A i \in 0..n : i \in P
    BY <1>1, <1>3, <2>1, Induction
  <2> QED BY <1>1, <2>2
<1> QED BY <1>5 DEF After, h, n

-----------------------------------------------------------------------------
(* The moves of one attempt.                                                   *)

Later(a, b) == IF a > b THEN a ELSE b

\* What else there is in a projection that moves leave alone.
SameBut(st, next) ==
  /\ next.effects = st.effects /\ next.epoch = st.epoch /\ next.dispatchMode = st.dispatchMode
  /\ next.budget = st.budget /\ next.usage = st.usage /\ next.blocked = st.blocked /\ next.fault = st.fault

\* next is the projection st with attempt a of node n in state x.
Puts(st, next, n, a, x) ==
  /\ next \in State /\ SameBut(st, next)
  /\ next.nodeStates = [st.nodeStates EXCEPT ![<<n, a>>] = x]
  /\ next.attempts = [st.attempts EXCEPT ![n] = Later(st.attempts[n], a)]

\* Put once more, the attempt is where it was put last.
LEMMA PutsAgain ==
  ASSUME NEW st \in State, NEW mid, NEW next, NEW n \in Nodes, NEW a \in Attempts, NEW x, NEW y,
         Puts(st, mid, n, a, x), Puts(mid, next, n, a, y)
  PROVE  Puts(st, next, n, a, y)
<1>1. /\ st.nodeStates \in [Nodes \X Attempts -> NodeStates \cup {None}]
      /\ st.attempts \in [Nodes -> {0} \cup Attempts] /\ st.attempts[n] \in Nat /\ a \in Nat
  BY SessionAssumption DEF State, RuntimeState, Attempts
<1>2. next.nodeStates = [st.nodeStates EXCEPT ![<<n, a>>] = y]
  BY <1>1 DEF Puts
<1>3. next.attempts = [st.attempts EXCEPT ![n] = Later(st.attempts[n], a)]
  <2> DEFINE l == Later(st.attempts[n], a)
  <2>1. mid.attempts = [st.attempts EXCEPT ![n] = l] /\ mid.attempts[n] = l
    BY <1>1 DEF Puts
  <2>2. Later(l, a) = l
    BY <1>1 DEF Later
  <2>3. next.attempts = [mid.attempts EXCEPT ![n] = l]
    BY <2>1, <2>2 DEF Puts
  <2>4. mid.attempts \in [Nodes -> {0} \cup Attempts]
    BY DEF Puts, State, RuntimeState
  <2> HIDE DEF l
  <2>5. next.attempts = mid.attempts
    BY <2>1, <2>3, <2>4
  <2> QED BY <2>1, <2>5 DEF l
<1>4. next \in State /\ SameBut(st, next)
  BY DEF Puts, SameBut
<1> QED BY <1>2, <1>3, <1>4 DEF Puts

\* A transition that starts from the state its attempt is in puts the attempt in the next one.
LEMMA MovePuts ==
  ASSUME NEW st \in State, NEW n \in Nodes, NEW a \in Attempts, NEW b \in NodeStates \cup {None},
         NEW x \in NodeStates \cup {None}, st.nodeStates[<<n, a>>] \in {None, b}
  PROVE  Puts(st, Reduce(st, Move(n, a, b, x)), n, a, x)
<1> DEFINE ev == Move(n, a, b, x)
           N == [st.nodeStates EXCEPT ![<<n, a>>] = x]
           A == [st.attempts EXCEPT ![n] = Later(st.attempts[n], a)]
           q == Reduce(st, ev)
<1>1. ev.type = "node.transition" /\ ev.node = n /\ ev.attempt = a /\ ev.before = b /\ ev.after = x
  BY DEF Move
<1>2. st \in RuntimeState
  BY DEF State
<1>3. Chained(st, ev)
  BY <1>1 DEF Chained
<1>4. q = [st EXCEPT !.nodeStates = N, !.attempts = A]
  <2> HIDE DEF ev
  <2>1. q = [st EXCEPT !.nodeStates[<<ev.node, ev.attempt>>] = ev.after,
                       !.attempts[ev.node] = IF @ > ev.attempt THEN @ ELSE ev.attempt,
                       !.fault = IF Chained(st, ev) THEN @ ELSE "chain"]
    BY <1>1, ReduceMove
  <2>2. q = [st EXCEPT !.nodeStates[<<n, a>>] = x, !.attempts[n] = IF @ > a THEN @ ELSE a, !.fault = st.fault]
    BY <1>1, <1>3, <2>1
  <2> HIDE DEF q
  <2> QED BY <1>2, <2>2 DEF Later, RuntimeState
<1>5. N \in [Nodes \X Attempts -> NodeStates \cup {None}] /\ A \in [Nodes -> {0} \cup Attempts]
  BY <1>2, SessionAssumption DEF RuntimeState, Later
<1> HIDE DEF N, A, q
<1>6. q \in State /\ SameBut(st, q) /\ q.nodeStates = N /\ q.attempts = A
  BY <1>2, <1>4, <1>5 DEF RuntimeState, State, SameBut
<1> QED BY <1>6 DEF Puts, q, N, A

\* Moves along a path that starts where the attempt is lead to its end.
LEMMA MovesPut ==
  ASSUME NEW st \in State, NEW n \in Nodes, NEW a \in Attempts, NEW path \in Seq(NodeStates \cup {None}),
         path # <<>>, st.nodeStates[<<n, a>>] \in {None, path[1]}
  PROVE  /\ \A k : Moves(n, a, path) \in Seq(Event(k))
         /\ IF Len(path) = 1 THEN After(st, Moves(n, a, path)) = st
            ELSE Puts(st, After(st, Moves(n, a, path)), n, a, path[Len(path)])
<1> DEFINE m == Len(path)  moves == Moves(n, a, path)
<1>1. m \in Nat \ {0} /\ \A i \in 1..m : path[i] \in NodeStates \cup {None}
  OBVIOUS
<1>2. ASSUME NEW k PROVE moves \in Seq(Event(k))
  <2>1. \A b, x \in NodeStates \cup {None} : Move(n, a, b, x) \in Event(k)
    BY DEF Move, Event
  <2> HIDE DEF m, Event
  <2>2. moves = [i \in 1..(m - 1) |-> Move(n, a, path[i], path[i + 1])]
    BY DEF Moves, m
  <2>3. m - 1 \in Nat /\ \A i \in 1..(m - 1) : i \in 1..m /\ i + 1 \in 1..m
    BY <1>1
  <2>a. ASSUME NEW i \in 1..(m - 1) PROVE Move(n, a, path[i], path[i + 1]) \in Event(k)
    BY <1>1, <2>1, <2>3
  <2>4. moves \in [1..(m - 1) -> Event(k)]
    BY <2>2, <2>a
  <2> QED BY <2>3, <2>4
<1>3. Len(moves) = m - 1 /\ \A i \in 1..(m - 1) : moves[i] = Move(n, a, path[i], path[i + 1])
  BY <1>1 DEF Moves
<1>4. History(st, moves)[0] = st /\ \A i \in 1..(m - 1) : History(st, moves)[i] = Reduce(History(st, moves)[i - 1], moves[i])
  <2>1. moves \in Seq(Event(0))
    BY <1>2
  <2> HIDE DEF moves, m, Event
  <2> QED BY <1>3, <2>1, HistoryUnfolds
<1>5. After(st, moves) = History(st, moves)[m - 1]
  BY <1>3 DEF After
<1> DEFINE h == History(st, moves)
           P == {i \in 0..(m - 1) : IF i = 0 THEN h[i] = st ELSE Puts(st, h[i], n, a, path[i + 1])}
<1> HIDE DEF moves, m, h
<1>6. 0 \in P
  BY <1>1, <1>4 DEF h
<1>7. ASSUME NEW i \in 0..(m - 2), i \in P PROVE i + 1 \in P
  <2>1. /\ i \in Nat /\ i + 1 \in 1..(m - 1) /\ i + 1 \in 1..m /\ (i + 1) + 1 \in 1..m /\ (i + 1) - 1 = i
        /\ i + 1 # 0
    BY <1>1
  <2>2. h[i + 1] = Reduce(h[i], Move(n, a, path[i + 1], path[(i + 1) + 1]))
    BY <1>3, <1>4, <2>1 DEF h
  <2>b. PICK b \in NodeStates \cup {None}, x \in NodeStates \cup {None} : b = path[i + 1] /\ x = path[(i + 1) + 1]
    BY <1>1, <2>1
  <2>q. PICK q : q = h[i]
    OBVIOUS
  <2>r. PICK r : r = h[i + 1]
    OBVIOUS
  <2>3. st.nodeStates \in [Nodes \X Attempts -> NodeStates \cup {None}]
    BY DEF State, RuntimeState
  <2>4. IF i = 0 THEN q = st /\ b = path[1] ELSE Puts(st, q, n, a, b)
    BY <1>7, <2>b, <2>q
  <2>5. q \in State /\ q.nodeStates[<<n, a>>] \in {None, b}
    BY <2>3, <2>4 DEF Puts
  <2>6. Puts(q, r, n, a, x)
    BY <2>2, <2>5, <2>b, <2>q, <2>r, MovePuts
  <2>7. Puts(st, r, n, a, x)
    BY <2>4, <2>6, PutsAgain
  <2> QED BY <2>1, <2>7, <2>b, <2>r
<1>8. m - 1 \in P
  <2>1. \A i \in 0..((m - 1) - 1) : i \in P => i + 1 \in P
    BY <1>1, <1>7
  <2> HIDE DEF P
  <2>2. m - 1 \in Nat
    BY <1>1
  <2>3. \A i \in 0..(m - 1) : i \in P
    BY <1>6, <2>1, <2>2, Induction
  <2> QED BY <2>2, <2>3
<1>9. IF m = 1 THEN h[m - 1] = st ELSE Puts(st, h[m - 1], n, a, path[m])
  <2>1. m - 1 = 0 <=> m = 1
    BY <1>1
  <2>2. (m - 1) + 1 = m
    BY <1>1
  <2> QED BY <1>8, <2>1, <2>2
<1> QED BY <1>2, <1>5, <1>9 DEF h, moves, m

\* No node has another attempt.
SameAttempts(st, next) == \A m \in Nodes : CurrentAttempt(next, m) = CurrentAttempt(st, m)

\* next is the projection st with the known attempt a of node n in state x.
Lands(st, next, n, a, x) ==
  /\ next \in State /\ SameBut(st, next) /\ SameAttempts(st, next)
  /\ next.nodeStates = [st.nodeStates EXCEPT ![<<n, a>>] = x]

\* A path of states from one state to another.
LeadsTo(path, first, last) ==
  path \in Seq(NodeStates \cup {None}) /\ path # <<>> /\ path[1] = first /\ path[Len(path)] = last

\* The lists that pathTo builds go where they are meant to.
LEMMA Tuples ==
  \A x, y, z, w \in NodeStates \cup {None} :
    /\ LeadsTo(<<x>>, x, x) /\ LeadsTo(<<x, y>>, x, y) /\ LeadsTo(<<x, y, z>>, x, z)
    /\ LeadsTo(<<x, y, z, w>>, x, w)
BY DEF LeadsTo

\* The moves of a known attempt along a path from where it is.
LEMMA PathLands ==
  ASSUME NEW st \in State, NEW n \in Nodes, NEW a \in Attempts, a <= CurrentAttempt(st, n),
         NEW path \in Seq(NodeStates \cup {None}), path # <<>>, st.nodeStates[<<n, a>>] = path[1]
  PROVE  /\ \A k : Moves(n, a, path) \in Seq(Event(k))
         /\ Lands(st, After(st, Moves(n, a, path)), n, a, path[Len(path)])
<1> DEFINE next == After(st, Moves(n, a, path))
<1>1. /\ \A k : Moves(n, a, path) \in Seq(Event(k))
      /\ IF Len(path) = 1 THEN next = st ELSE Puts(st, next, n, a, path[Len(path)])
  BY MovesPut
<1> HIDE DEF next, Event
<1>2. /\ st.nodeStates \in [Nodes \X Attempts -> NodeStates \cup {None}]
      /\ st.attempts \in [Nodes -> {0} \cup Attempts] /\ Attempts \subseteq Nat
  BY SessionAssumption DEF State, RuntimeState, Attempts
<1>3. CASE Len(path) = 1
  <2>1. next = st /\ path[Len(path)] = st.nodeStates[<<n, a>>]
    BY <1>1, <1>3
  <2>2. st.nodeStates = [st.nodeStates EXCEPT ![<<n, a>>] = st.nodeStates[<<n, a>>]]
    BY <1>2
  <2>3. SameBut(st, st) /\ SameAttempts(st, st)
    BY DEF SameBut, SameAttempts
  <2>4. Lands(st, st, n, a, st.nodeStates[<<n, a>>])
    BY <2>2, <2>3 DEF Lands
  <2> QED BY <1>1, <2>1, <2>4 DEF next
<1>4. CASE Len(path) # 1
  <2>1. Puts(st, next, n, a, path[Len(path)])
    BY <1>1, <1>4
  <2>2. SameAttempts(st, next)
    <3> SUFFICES ASSUME NEW m \in Nodes PROVE CurrentAttempt(next, m) = CurrentAttempt(st, m)
      BY DEF SameAttempts
    <3>1. next.attempts[m] = IF m = n THEN Later(st.attempts[n], a) ELSE st.attempts[m]
      BY <1>2, <2>1 DEF Puts
    <3>2. st.attempts[m] \in Nat /\ st.attempts[n] \in Nat /\ a \in Nat \ {0}
      BY <1>2, SessionAssumption DEF Attempts
    <3> QED BY <3>1, <3>2 DEF CurrentAttempt, Later
  <2> QED BY <1>1, <2>1, <2>2 DEF Puts, Lands, next
<1> QED BY <1>3, <1>4

-----------------------------------------------------------------------------
(* Receipts.                                                                   *)

\* Where a receipt leaves an attempt.
ReceiptEnd(before, status) ==
  IF status = "unknown" THEN "unknown"
  ELSE IF status \in {"cancelled", "not-executed"} THEN "cancelled"
  ELSE IF before \in {"leased", "running", "unknown"} THEN "verifying" ELSE before

\* The moves of a receipt start where the attempt is and end where ReceiptEnd says
\* (receiptTransitions).
LEMMA ReceiptPathParts ==
  ASSUME NEW before \in NodeStates \cup {None}, NEW status \in Statuses
  PROVE  LeadsTo(ReceiptPath(before, status), before, ReceiptEnd(before, status))
<1> DEFINE S == NodeStates \cup {None}
<1>0. /\ before \in S /\ "unknown" \in S /\ "verifying" \in S /\ "running" \in S /\ "cancelling" \in S
      /\ "cancelled" \in S
  BY DEF NodeStates
<1>1. CASE status = "unknown"
  <2>1. ReceiptPath(before, status) = IF before = "unknown" THEN <<before>> ELSE <<before, "unknown">>
    BY <1>1 DEF ReceiptPath
  <2>2. ReceiptEnd(before, status) = "unknown"
    BY <1>1 DEF ReceiptEnd
  <2> HIDE DEF S
  <2> QED BY <1>0, <2>1, <2>2, Tuples DEF S
<1>2. CASE status \in {"cancelled", "not-executed"}
  <2>1. ReceiptPath(before, status) =
          IF before \in {"pending", "ready", "cancelling"} THEN <<before, "cancelled">>
          ELSE IF before = "unknown" THEN <<before, "verifying", "cancelling", "cancelled">>
          ELSE <<before, "cancelling", "cancelled">>
    BY <1>2 DEF ReceiptPath
  <2>2. ReceiptEnd(before, status) = "cancelled"
    BY <1>2 DEF ReceiptEnd
  <2> HIDE DEF S
  <2> QED BY <1>0, <2>1, <2>2, Tuples DEF S
<1>3. CASE status \in {"completed", "failed"}
  <2>1. ReceiptPath(before, status) =
          IF before = "leased" THEN <<before, "running", "verifying">>
          ELSE IF before \in {"running", "unknown"} THEN <<before, "verifying">> ELSE <<before>>
    BY <1>3 DEF ReceiptPath
  <2>2. ReceiptEnd(before, status) = IF before \in {"leased", "running", "unknown"} THEN "verifying" ELSE before
    BY <1>3 DEF ReceiptEnd
  <2> HIDE DEF S
  <2> QED BY <1>0, <2>1, <2>2, Tuples DEF S
<1> QED BY <1>1, <1>2, <1>3 DEF Statuses

\* The session itself stays as it is.
SameControl(st, next) ==
  next.epoch = st.epoch /\ next.dispatchMode = st.dispatchMode /\ next.fault = st.fault

\* next is the projection st with what a receipt of effect e says.
Answers(st, next, e, status) ==
  /\ next \in State /\ SameControl(st, next)
  /\ next.effects = [st.effects EXCEPT ![e] = Answered(st.effects[e], status)]
  /\ next.nodeStates = st.nodeStates /\ next.attempts = st.attempts

\* A receipt says nothing but what it says (reduce).
LEMMA AppliedAnswers ==
  ASSUME NEW st \in State, NEW e \in 1..Len(st.effects), NEW status \in Statuses, NEW row \in UsageRows \cup {None}
  PROVE  /\ Answers(st, Reduce(st, Applied(e, status, row)), e, status)
         /\ \A k \in Nat : e <= k => Applied(e, status, row) \in Event(k)
<1> DEFINE ev == Applied(e, status, row)  f == st.effects[e]
<1>1. st \in RuntimeState /\ st.effects \in Seq(Effect) /\ e \in Nat \ {0}
  BY DEF State, RuntimeState
<1>2. ev.type = "receipt.applied" /\ ev.effect = e /\ ev.status = status /\ ev.row = row
  BY DEF Applied
<1>3. \A k \in Nat : e <= k => ev \in Event(k)
  BY <1>1 DEF Event, Applied
<1>4. Extends(st, Reduce(st, ev))
  <2>1. Len(st.effects) \in Nat /\ e <= Len(st.effects)
    BY <1>1
  <2>2. ev \in Event(Len(st.effects))
    BY <1>3, <2>1
  <2> HIDE DEF ev, Event
  <2> QED BY <2>1, <2>2, ReduceTyped
<1> DEFINE E == [st.effects EXCEPT ![e] = Answered(f, status)]
           B == ReducedBudget(st.budget, f, status, row)
           U == IF row = None THEN st.usage ELSE st.usage \cup {RowOf(f, row)}
           W == st.blocked \/ UsageIssue(st.budget, f, status, row) \notin {None, "USAGE_INCOMPLETE"}
           q == Reduce(st, ev)
<1>5. q = [st EXCEPT !.effects = E, !.budget = B, !.usage = U, !.blocked = W]
  <2> HIDE DEF ev
  <2> QED BY <1>1, <1>2, ReduceApplied
<1> HIDE DEF E, B, U, W, q
<1>6. /\ q.effects = E /\ q.nodeStates = st.nodeStates /\ q.attempts = st.attempts /\ SameControl(st, q)
  BY <1>1, <1>5 DEF RuntimeState, SameControl
<1> QED BY <1>3, <1>4, <1>6 DEF Answers, Extends, q, E

\* The attempt an effect was intended for.
CellOf(st, e) == <<st.effects[e].node, st.effects[e].attempt>>

\* next is the projection st with a receipt of effect e and its attempt in state x.
Closes(st, next, e, status, x) ==
  /\ next \in State /\ SameControl(st, next) /\ SameAttempts(st, next)
  /\ next.effects = [st.effects EXCEPT ![e] = Answered(st.effects[e], status)]
  /\ next.nodeStates = [st.nodeStates EXCEPT ![CellOf(st, e)] = x]

\* A receipt with the moves of its attempt (planReceipt).
LEMMA ReceiptCloses ==
  ASSUME NEW st \in State, NEW e \in 1..Len(st.effects), NEW status \in Statuses, NEW row \in UsageRows \cup {None},
         st.effects[e].attempt <= CurrentAttempt(st, st.effects[e].node),
         NEW path, NEW x, LeadsTo(path, st.nodeStates[CellOf(st, e)], x), NEW k \in Nat, e <= k,
         NEW batch, batch = <<Applied(e, status, row)>> \o Moves(st.effects[e].node, st.effects[e].attempt, path)
  PROVE  batch \in Seq(Event(k)) /\ Closes(st, After(st, batch), e, status, x)
<1>1. PICK mid : mid = Reduce(st, Applied(e, status, row))
  OBVIOUS
<1>2. Answers(st, mid, e, status) /\ Applied(e, status, row) \in Event(k)
  BY <1>1, AppliedAnswers
<1>3. PICK n \in Nodes, a \in Attempts : n = st.effects[e].node /\ a = st.effects[e].attempt
  <2>1. st.effects[e] \in Effect
    BY DEF State, RuntimeState
  <2> QED BY <2>1 DEF Effect
<1>4. mid \in State /\ CurrentAttempt(mid, n) = CurrentAttempt(st, n) /\ mid.nodeStates = st.nodeStates
  BY <1>2 DEF Answers, CurrentAttempt
<1>5. PICK moves : moves = Moves(n, a, path)
  OBVIOUS
<1>6. moves \in Seq(Event(k)) /\ Lands(mid, After(mid, moves), n, a, x)
  <2>1. path \in Seq(NodeStates \cup {None}) /\ path # <<>> /\ mid.nodeStates[<<n, a>>] = path[1] /\ path[Len(path)] = x
    BY <1>3, <1>4 DEF LeadsTo, CellOf
  <2>2. a <= CurrentAttempt(mid, n)
    BY <1>3, <1>4
  <2>3. (\A j : moves \in Seq(Event(j))) /\ Lands(mid, After(mid, moves), n, a, path[Len(path)])
    BY <1>4, <1>5, <2>1, <2>2, PathLands
  <2> QED BY <2>1, <2>3
<1>7. <<Applied(e, status, row)>> \in Seq(Event(k))
  <2>1. PICK ev \in Event(k) : ev = Applied(e, status, row)
    BY <1>2
  <2> QED BY <2>1
<1>8. PICK one \in Seq(Event(k)) : one = <<Applied(e, status, row)>> /\ batch = one \o moves
  BY <1>3, <1>5, <1>7
<1>9. After(st, batch) = After(mid, moves)
  <2>1. After(st, one) = mid
    BY <1>1, <1>8, AfterFew
  <2>2. After(st, one \o moves) = After(After(st, one), moves)
    BY <1>6, AfterConcat
  <2> QED BY <1>8, <2>1, <2>2
<1>10. batch \in Seq(Event(k))
  <2>1. one \o moves \in Seq(Event(k))
    BY <1>6, ConcatProperties
  <2> QED BY <1>8, <2>1
<1>11. PICK next : next = After(mid, moves)
  OBVIOUS
<1>12. Closes(st, next, e, status, x)
  <2>1. SameControl(st, next) /\ next.effects = mid.effects /\ SameAttempts(st, next)
    BY <1>2, <1>6, <1>11 DEF Answers, Lands, SameBut, SameControl, SameAttempts, CurrentAttempt
  <2>2. next.nodeStates = [st.nodeStates EXCEPT ![<<n, a>>] = x] /\ next \in State
    BY <1>4, <1>6, <1>11 DEF Lands
  <2> QED BY <1>2, <1>3, <2>1, <2>2 DEF Closes, CellOf, Answers
<1> QED BY <1>9, <1>10, <1>11, <1>12

\* next is the projection st after a receipt of each effect of E, all of them cancelled.
ClosesAll(st, next, E, status) ==
  /\ next \in State /\ SameControl(st, next) /\ SameAttempts(st, next)
  /\ Len(next.effects) = Len(st.effects)
  /\ \A e \in 1..Len(st.effects) :
       next.effects[e] = IF e \in E THEN Answered(st.effects[e], status) ELSE st.effects[e]
  /\ \A c \in Nodes \X Attempts :
       next.nodeStates[c] = IF \E e \in E : CellOf(st, e) = c THEN "cancelled" ELSE st.nodeStates[c]

\* Effects of different attempts are closed one after the other (WithdrawUnused, Acknowledged).
LEMMA ClosingEach ==
  ASSUME NEW st \in State, NEW k, k = Len(st.effects), NEW E \in SUBSET (1..k), NEW status,
         NEW seqs \in Seq(Seq(Event(k))), Len(seqs) = k,
         \A x, y \in E : x # y => CellOf(st, x) # CellOf(st, y),
         \A e \in 1..k : e \notin E => seqs[e] = <<>>,
         \A e \in E : \A q \in State :
            /\ Len(q.effects) = k /\ q.effects[e] = st.effects[e] /\ SameAttempts(st, q)
            /\ q.nodeStates[CellOf(st, e)] = st.nodeStates[CellOf(st, e)]
            => Closes(q, After(q, seqs[e]), e, status, "cancelled")
  PROVE  ClosesAll(st, After(st, FlattenSeq(seqs)), E, status)
<1>1. st.effects \in Seq(Effect) /\ k \in Nat /\ \A e \in 1..k : st.effects[e] \in Effect /\ CellOf(st, e) \in Nodes \X Attempts
  <2>1. st.effects \in Seq(Effect) /\ k \in Nat /\ \A e \in 1..k : st.effects[e] \in Effect
    BY DEF State, RuntimeState
  <2>2. \A f \in Effect : f.node \in Nodes /\ f.attempt \in Attempts
    BY DEF Effect
  <2> QED BY <2>1, <2>2 DEF CellOf
<1>2. PICK h : /\ h[0] = st /\ \A i \in 1..k : h[i] = After(h[i - 1], seqs[i])
               /\ After(st, FlattenSeq(seqs)) = h[k]
  <2> HIDE DEF Event
  <2> QED BY AfterJoined
<1> DEFINE Done(i) == E \cap (1..i)
           P == {i \in 0..k : ClosesAll(st, h[i], Done(i), status)}
<1>3. 0 \in P
  <2>1. Done(0) = {}
    OBVIOUS
  <2>2. ClosesAll(st, st, {}, status)
    BY <1>1 DEF ClosesAll, SameControl, SameAttempts
  <2> QED BY <1>1, <1>2, <2>1, <2>2
<1>4. ASSUME NEW i \in 0..(k - 1), i \in P PROVE i + 1 \in P
  <2>1. PICK e \in 1..k : e = i + 1 /\ e - 1 = i
    BY <1>1
  <2>2. PICK q : q = h[i]
    OBVIOUS
  <2>3. PICK r : r = h[e]
    OBVIOUS
  <2>4. r = After(q, seqs[e])
    BY <1>2, <2>1, <2>2, <2>3
  <2>5. ClosesAll(st, q, Done(i), status)
    BY <1>4, <2>2
  <2>6. e \notin Done(i) /\ Done(e) = IF e \in E THEN Done(i) \cup {e} ELSE Done(i)
    BY <1>1, <2>1
  <2>7. ClosesAll(st, r, Done(e), status)
    <3> HIDE DEF Done
    <3>1. CASE e \notin E
      <4>1. r = q
        BY <2>4, <3>1, AfterFew
      <4> QED BY <2>5, <2>6, <3>1, <4>1
    <3>2. CASE e \in E
      <4>1. /\ q \in State /\ Len(q.effects) = k /\ q.effects[e] = st.effects[e] /\ SameAttempts(st, q)
            /\ CellOf(q, e) = CellOf(st, e)
        BY <2>5, <2>6 DEF ClosesAll, CellOf
      <4>2. q.nodeStates[CellOf(st, e)] = st.nodeStates[CellOf(st, e)]
        <5>1. \A x \in Done(i) : CellOf(st, x) # CellOf(st, e)
          BY <2>6, <3>2 DEF Done
        <5> QED BY <1>1, <2>5, <5>1 DEF ClosesAll
      <4>3. Closes(q, r, e, status, "cancelled")
        BY <2>4, <3>2, <4>1, <4>2
      <4>4. r \in State /\ SameControl(st, r) /\ SameAttempts(st, r)
        BY <2>5, <4>3 DEF ClosesAll, Closes, SameControl, SameAttempts
      <4>5. r.effects = [q.effects EXCEPT ![e] = Answered(st.effects[e], status)]
            /\ r.nodeStates = [q.nodeStates EXCEPT ![CellOf(st, e)] = "cancelled"]
        BY <4>1, <4>3 DEF Closes
      <4>6. q.effects \in Seq(Effect) /\ q.nodeStates \in [Nodes \X Attempts -> NodeStates \cup {None}]
        BY <4>1 DEF State, RuntimeState
      <4>7. Len(r.effects) = k /\ \A x \in 1..k : r.effects[x] = IF x = e THEN Answered(st.effects[e], status) ELSE q.effects[x]
        BY <4>1, <4>5, <4>6
      <4>8. \A c \in Nodes \X Attempts : r.nodeStates[c] = IF c = CellOf(st, e) THEN "cancelled" ELSE q.nodeStates[c]
        BY <4>5, <4>6
      <4>9. \A x \in 1..k : r.effects[x] = IF x \in Done(e) THEN Answered(st.effects[x], status) ELSE st.effects[x]
        <5>1. \A x \in 1..k : q.effects[x] = IF x \in Done(i) THEN Answered(st.effects[x], status) ELSE st.effects[x]
          BY <2>5 DEF ClosesAll
        <5>2. \A x : x \in Done(e) <=> x = e \/ x \in Done(i)
          BY <2>6, <3>2
        <5> QED BY <4>7, <5>1, <5>2
      <4>10. \A c \in Nodes \X Attempts :
               r.nodeStates[c] = IF \E x \in Done(e) : CellOf(st, x) = c THEN "cancelled" ELSE st.nodeStates[c]
        <5> TAKE c \in Nodes \X Attempts
        <5>1. q.nodeStates[c] = IF \E x \in Done(i) : CellOf(st, x) = c THEN "cancelled" ELSE st.nodeStates[c]
          BY <2>5 DEF ClosesAll
        <5>2. (\E x \in Done(e) : CellOf(st, x) = c) <=> c = CellOf(st, e) \/ \E x \in Done(i) : CellOf(st, x) = c
          BY <2>6, <3>2
        <5> QED BY <4>8, <5>1, <5>2
      <4> QED BY <4>4, <4>7, <4>9, <4>10 DEF ClosesAll
    <3> QED BY <3>1, <3>2
  <2> QED BY <1>1, <2>1, <2>3, <2>7
<1>5. k \in P
  <2>1. \A i \in 0..(k - 1) : i \in P => i + 1 \in P
    BY <1>4
  <2> HIDE DEF P
  <2>2. \A i \in 0..k : i \in P
    BY <1>1, <1>3, <2>1, Induction
  <2> QED BY <1>1, <2>2
<1>6. Done(k) = E
  OBVIOUS
<1> QED BY <1>2, <1>5, <1>6

-----------------------------------------------------------------------------
(* Every node in the declaration order.                                        *)

\* next is the projection st with the current attempt of each node of N where x says.
LandsAll(st, next, N, x) ==
  /\ next \in State /\ SameBut(st, next) /\ SameAttempts(st, next)
  /\ \A n \in Nodes, a \in Attempts :
       next.nodeStates[<<n, a>>] = IF n \in N /\ a = CurrentAttempt(st, n) THEN x[n] ELSE st.nodeStates[<<n, a>>]

\* The current attempt of a node is one, and its state is known or absent.
LEMMA CurrentTyped ==
  ASSUME NEW st \in State, NEW n \in Nodes
  PROVE  CurrentAttempt(st, n) \in Attempts /\ NodeStateAt(st, n) \in NodeStates \cup {None}
<1>1. st.attempts[n] \in {0} \cup Attempts /\ st.nodeStates \in [Nodes \X Attempts -> NodeStates \cup {None}]
  BY DEF State, RuntimeState
<1>2. CurrentAttempt(st, n) \in Attempts
  BY <1>1, SessionAssumption DEF CurrentAttempt, Attempts
<1> QED BY <1>1, <1>2 DEF NodeStateAt

\* The declaration order names nodes, each once.
LEMMA OrderedNodes ==
  /\ Len(NodeOrder) \in Nat /\ DOMAIN NodeOrder = 1..Len(NodeOrder)
  /\ \A i \in 1..Len(NodeOrder) : NodeOrder[i] \in Nodes
  /\ \A i, j \in 1..Len(NodeOrder) : NodeOrder[i] = NodeOrder[j] => i = j
<1>1. NodeOrder \in Seq(Nodes) /\ \A i, j \in DOMAIN NodeOrder : NodeOrder[i] = NodeOrder[j] => i = j
  BY SessionAssumption
<1> QED BY <1>1

\* The i-th of the batches leaves the i-th node alone or moves it from where st has it.
EachLands(st, seqs, x) ==
  \A i \in 1..Len(NodeOrder) :
     LET n == NodeOrder[i]
         a == CurrentAttempt(st, n)
     IN \/ seqs[i] = <<>> /\ x[n] = st.nodeStates[<<n, a>>]
        \/ \A q \in State :
             SameAttempts(st, q) /\ q.nodeStates[<<n, a>>] = st.nodeStates[<<n, a>>]
             => Lands(q, After(q, seqs[i]), n, a, x[n])

\* Each node is moved once, from the state it is in (PlanRound, CancelBatch).
LEMMA LandingEach ==
  ASSUME NEW st \in State, NEW k, NEW seqs \in Seq(Seq(Event(k))), Len(seqs) = Len(NodeOrder), NEW x, EachLands(st, seqs, x)
  PROVE  LandsAll(st, After(st, FlattenSeq(seqs)), Nodes, x)
<1> DEFINE m == Len(NodeOrder)
           Done(i) == {NodeOrder[j] : j \in 1..i}
<1>1. /\ m \in Nat /\ DOMAIN NodeOrder = 1..m /\ \A i \in 1..m : NodeOrder[i] \in Nodes
      /\ \A i, j \in 1..m : NodeOrder[i] = NodeOrder[j] => i = j
  BY OrderedNodes
<1>2. PICK h : /\ h[0] = st /\ \A i \in 1..m : h[i] = After(h[i - 1], seqs[i])
               /\ After(st, FlattenSeq(seqs)) = h[m]
  <2>1. \E h : /\ h[0] = st /\ \A i \in 1..Len(seqs) : h[i] = After(h[i - 1], seqs[i])
               /\ After(st, FlattenSeq(seqs)) = h[Len(seqs)]
    <3>1. PICK S : seqs \in Seq(Seq(S))
      OBVIOUS
    <3> QED BY <3>1, AfterJoined
  <2>2. Len(seqs) = m
    OBVIOUS
  <2> HIDE DEF m
  <2> QED BY <2>1, <2>2
<1> HIDE DEF m
<1> DEFINE P == {i \in 0..m : LandsAll(st, h[i], Done(i), x)}
<1>3. 0 \in P
  <2>1. Done(0) = {}
    OBVIOUS
  <2>2. LandsAll(st, st, {}, x)
    BY DEF LandsAll, SameBut, SameAttempts
  <2>3. LandsAll(st, h[0], Done(0), x)
    BY <1>2, <2>1, <2>2
  <2>4. 0 \in 0..m
    BY <1>1
  <2> QED BY <2>3, <2>4
<1>4. ASSUME NEW i \in 0..(m - 1), i \in P PROVE i + 1 \in P
  <2>1. PICK e \in 1..m : e = i + 1 /\ e - 1 = i
    BY <1>1
  <2>2. PICK q : q = h[i]
    OBVIOUS
  <2>3. PICK r : r = h[e]
    OBVIOUS
  <2>4. r = After(q, seqs[e])
    BY <1>2, <2>1, <2>2, <2>3
  <2>5. LandsAll(st, q, Done(i), x)
    BY <1>4, <2>2
  <2>6. PICK n \in Nodes : n = NodeOrder[e]
    BY <1>1
  <2>7. PICK a \in Attempts : a = CurrentAttempt(st, n)
    BY CurrentTyped
  <2>8. n \notin Done(i) /\ Done(e) = Done(i) \cup {n}
    <3>1. \A j \in 1..i : j \in 1..m /\ j # e
      BY <1>1, <2>1
    <3>2. 1..e = (1..i) \cup {e}
      BY <1>1, <2>1
    <3>3. n \notin Done(i)
      BY <1>1, <2>6, <3>1
    <3>4. Done(e) = Done(i) \cup {n}
      BY <2>6, <3>2
    <3> QED BY <3>3, <3>4
  <2>9. q.nodeStates[<<n, a>>] = st.nodeStates[<<n, a>>]
    BY <2>5, <2>8 DEF LandsAll
  <2>10. CASE seqs[e] = <<>> /\ x[n] = st.nodeStates[<<n, a>>]
    <3> HIDE DEF Done
    <3>1. r = q
      BY <2>4, <2>10, AfterFew
    <3>2. LandsAll(st, r, Done(e), x)
      BY <2>5, <2>7, <2>8, <2>9, <2>10, <3>1 DEF LandsAll
    <3> QED BY <1>1, <2>1, <2>3, <3>2
  <2>11. CASE Lands(q, After(q, seqs[e]), n, a, x[n])
    <3> HIDE DEF Done
    <3>1. r \in State /\ SameBut(st, r) /\ SameAttempts(st, r)
      BY <2>4, <2>5, <2>11 DEF Lands, LandsAll, SameBut, SameAttempts
    <3>2. r.nodeStates = [q.nodeStates EXCEPT ![<<n, a>>] = x[n]]
      BY <2>4, <2>11 DEF Lands
    <3>3. q.nodeStates \in [Nodes \X Attempts -> NodeStates \cup {None}]
      BY <2>5 DEF LandsAll, State, RuntimeState
    <3>4. \A n2 \in Nodes, a2 \in Attempts :
            r.nodeStates[<<n2, a2>>] = IF n2 = n /\ a2 = a THEN x[n] ELSE q.nodeStates[<<n2, a2>>]
      BY <3>2, <3>3
    <3>5. LandsAll(st, r, Done(e), x)
      BY <2>5, <2>7, <2>8, <3>1, <3>4 DEF LandsAll
    <3> QED BY <1>1, <2>1, <2>3, <3>5
  <2>12. \/ seqs[e] = <<>> /\ x[n] = st.nodeStates[<<n, a>>]
         \/ \A p \in State :
              SameAttempts(st, p) /\ p.nodeStates[<<n, a>>] = st.nodeStates[<<n, a>>]
              => Lands(p, After(p, seqs[e]), n, a, x[n])
    BY <2>6, <2>7 DEF EachLands, m
  <2> QED BY <2>5, <2>9, <2>10, <2>11, <2>12 DEF LandsAll
<1>5. m \in P
  <2>1. \A i \in 0..(m - 1) : i \in P => i + 1 \in P
    BY <1>4
  <2> HIDE DEF P
  <2>2. \A i \in 0..m : i \in P
    BY <1>1, <1>3, <2>1, Induction
  <2> QED BY <1>1, <2>2
<1>6. Done(m) = Nodes
  BY <1>1 DEF Nodes
<1> QED BY <1>2, <1>5, <1>6

-----------------------------------------------------------------------------
(* The round.                                                                  *)

\* One more part is joined at the end.
LEMMA FlattenAppend ==
  ASSUME NEW S, NEW seqs \in Seq(Seq(S)), NEW last \in Seq(S)
  PROVE  FlattenSeq(Append(seqs, last)) = FlattenSeq(seqs) \o last
<1> DEFINE n == Len(seqs)  more == Append(seqs, last)
<1>1. /\ n \in Nat /\ more \in Seq(Seq(S)) /\ Len(more) = n + 1 /\ more[n + 1] = last
      /\ \A i \in 1..n : more[i] = seqs[i]
  OBVIOUS
<1> HIDE DEF more
<1>2. PICK g : g[1] = more[1] /\ (\A i \in 2..(n + 1) : g[i] = g[i - 1] \o more[i]) /\ FlattenSeq(more) = g[n + 1]
  <2>1. Len(more) # 0
    BY <1>1
  <2>2. PICK T : more \in Seq(T)
    BY <1>1
  <2>3. \E g : /\ g[1] = more[1] /\ \A i \in 2..Len(more) : g[i] = g[i - 1] \o more[i]
               /\ FlattenSeq(more) = g[Len(more)]
    BY <2>1, <2>2, FlattenUnfolds
  <2> HIDE DEF n
  <2> QED BY <1>1, <2>3
<1>3. CASE n = 0
  <2>1. FlattenSeq(seqs) = <<>>
    BY <1>3 DEF FlattenSeq
  <2>2. <<>> \o last = last
    BY ConcatEmptySeq
  <2> QED BY <1>1, <1>2, <1>3, <2>1, <2>2 DEF more
<1>4. CASE n # 0
  <2>1. PICK f : f[1] = seqs[1] /\ (\A i \in 2..n : f[i] = f[i - 1] \o seqs[i]) /\ FlattenSeq(seqs) = f[n]
    BY <1>4, FlattenUnfolds
  <2> HIDE DEF n
  <2> DEFINE P == {i \in 0..n : i # 0 => f[i] = g[i]}
  <2>2. 0 \in P
    BY <1>1
  <2>3. ASSUME NEW i \in 0..(n - 1), i \in P PROVE i + 1 \in P
    <3>1. CASE i = 0
      <4>1. 1 \in 1..n
        BY <1>1, <1>4
      <4>2. f[1] = g[1]
        BY <1>1, <1>2, <2>1, <4>1
      <4> QED BY <3>1, <4>1, <4>2
    <3>2. CASE i # 0
      <4>1. i + 1 \in 2..n /\ i + 1 \in 2..(n + 1) /\ i + 1 \in 1..n /\ (i + 1) - 1 = i /\ i + 1 \in 0..n
        BY <1>1, <3>2
      <4>2. f[i] = g[i]
        BY <2>3, <3>2
      <4>3. f[i + 1] = f[(i + 1) - 1] \o seqs[i + 1] /\ g[i + 1] = g[(i + 1) - 1] \o more[i + 1]
        BY <1>2, <2>1, <4>1
      <4>4. f[i + 1] = g[i + 1]
        BY <1>1, <4>1, <4>2, <4>3
      <4> QED BY <4>1, <4>4
    <3> QED BY <3>1, <3>2
  <2>4. \A i \in 0..n : i \in P
    <3>1. \A i \in 0..(n - 1) : i \in P => i + 1 \in P
      BY <2>3
    <3> HIDE DEF P
    <3> QED BY <1>1, <2>2, <3>1, Induction
  <2>5. f[n] = g[n] /\ n + 1 \in 2..(n + 1) /\ (n + 1) - 1 = n
    BY <1>1, <1>4, <2>4
  <2>6. g[n + 1] = g[(n + 1) - 1] \o more[n + 1]
    BY <1>2, <2>5
  <2> QED BY <1>1, <1>2, <2>1, <2>5, <2>6 DEF more
<1> QED BY <1>3, <1>4

\* The round goes node by node (dispatchRound).
LEMMA RoundsUnfold ==
  ASSUME NEW st
  PROVE  /\ Rounds(st)[0] = [chosen |-> <<>>, budget |-> st.budget]
         /\ \A i \in 1..Len(NodeOrder) : Rounds(st)[i] = RoundAfter(st, Rounds(st)[i - 1], NodeOrder[i])
<1> DEFINE n == Len(NodeOrder)
           start == [chosen |-> <<>>, budget |-> st.budget]
           Rec(f, k) == f = [i \in 0..k |-> IF i = 0 THEN start ELSE RoundAfter(st, f[i - 1], NodeOrder[i])]
           Exists(k) == \E f : Rec(f, k)
           P == {k \in 0..n : Exists(k)}
<1>1. n \in Nat
  BY OrderedNodes
<1> HIDE DEF start
<1>2. 0 \in P
  <2>1. Rec([i \in 0..0 |-> start], 0)
    OBVIOUS
  <2>2. Exists(0)
    <3> HIDE DEF Rec
    <3> QED BY <2>1
  <2> HIDE DEF Exists
  <2> QED BY <1>1, <2>2
<1>3. ASSUME NEW k \in 0..(n - 1), k \in P PROVE k + 1 \in P
  <2>1. PICK f : Rec(f, k)
    <3> HIDE DEF Rec
    <3> QED BY <1>3
  <2> DEFINE g == [i \in 0..(k + 1) |-> IF i = k + 1 THEN RoundAfter(st, f[k], NodeOrder[k + 1]) ELSE f[i]]
  <2>2. \A i \in 0..(k + 1) : g[i] = IF i = 0 THEN start ELSE RoundAfter(st, g[i - 1], NodeOrder[i])
    <3> SUFFICES ASSUME NEW i \in 0..(k + 1)
                 PROVE  g[i] = IF i = 0 THEN start ELSE RoundAfter(st, g[i - 1], NodeOrder[i])
      OBVIOUS
    <3>1. CASE i = k + 1
      BY <1>1, <3>1
    <3>2. CASE i # k + 1
      <4>1. i \in 0..k /\ g[i] = f[i] /\ (i # 0 => g[i - 1] = f[i - 1])
        BY <1>1, <3>2
      <4>2. f[i] = IF i = 0 THEN start ELSE RoundAfter(st, f[i - 1], NodeOrder[i])
        BY <2>1, <4>1
      <4> QED BY <4>1, <4>2
    <3> QED BY <3>1, <3>2
  <2>3. Rec(g, k + 1)
    BY <2>2
  <2>4. Exists(k + 1)
    <3> HIDE DEF Rec, g
    <3> QED BY <2>3
  <2> HIDE DEF Exists
  <2> QED BY <1>1, <2>4
<1>4. n \in P
  <2> HIDE DEF P, n
  <2>1. \A i \in 0..(n - 1) : i \in P => i + 1 \in P
    BY <1>3
  <2>2. \A i \in 0..n : i \in P
    BY <1>1, <1>2, <2>1, Induction
  <2> QED BY <1>1, <2>2
<1>5. PICK f : Rec(f, n)
  <2> HIDE DEF Rec, n
  <2> QED BY <1>4
<1>6. Rec(Rounds(st), n)
  BY <1>5 DEF Rounds, start
<1> QED BY <1>1, <1>6 DEF start

\* next is the projection st with attempt a of node n leased and the effect f intended.
LaunchedOne(st, next, n, a, f) ==
  /\ next \in State /\ SameControl(st, next) /\ SameAttempts(st, next)
  /\ next.effects = Append(st.effects, f)
  /\ next.nodeStates = [st.nodeStates EXCEPT ![<<n, a>>] = "leased"]
  /\ next.budget = AfterReserve(st.budget, ReservationRef(f))

\* What a round intends is an effect under a reservation of its own (launchNode).
LEMMA TaskEffectTyped ==
  ASSUME NEW st \in State, NEW n \in Nodes
  PROVE  /\ TaskEffect(st, n) \in Effect /\ ReservationRef(TaskEffect(st, n)) = RefOf(st, n)
         /\ TaskEffect(st, n).kind = "task"
<1>1. CurrentAttempt(st, n) \in Attempts /\ st.epoch \in 1..MaxEpoch
  BY CurrentTyped DEF State, RuntimeState
<1>2. (n \in Writers) \in BOOLEAN
  OBVIOUS
<1>3. TaskEffect(st, n) \in Effect
  BY <1>1, <1>2 DEF TaskEffect, Effect
<1> QED BY <1>3 DEF TaskEffect, ReservationRef, RefOf

\* An intention of a task whose reservation is to be had (reduce).
LEMMA IntendedReserves ==
  ASSUME NEW st \in State, NEW f \in Effect, f.kind = "task", ~ReserveRefused(st.budget, ReservationRef(f))
  PROVE  LET next == Reduce(st, Intended(f))
         IN /\ next \in State /\ SameControl(st, next) /\ next.attempts = st.attempts
            /\ next.nodeStates = st.nodeStates /\ next.effects = Append(st.effects, f)
            /\ next.budget = AfterReserve(st.budget, ReservationRef(f))
            /\ \A k : Intended(f) \in Event(k)
<1> DEFINE ev == Intended(f)  q == Reduce(st, ev)  E == Append(st.effects, f)
           B == AfterReserve(st.budget, ReservationRef(f))
<1>1. ev.type = "effect.intended" /\ ev.effect = f
  BY DEF Intended
<1>2. \A k : ev \in Event(k)
  BY DEF Intended, Event
<1>3. st \in RuntimeState /\ Len(st.effects) \in Nat
  BY DEF State, RuntimeState
<1>4. Extends(st, q)
  <2> HIDE DEF ev, Event
  <2> QED BY <1>2, <1>3, ReduceTyped
<1>5. q = [st EXCEPT !.effects = E, !.budget = B, !.fault = st.fault]
  <2> HIDE DEF ev
  <2>1. q = [st EXCEPT !.effects = Append(@, ev.effect),
                       !.budget = AfterReserve(@, ReservationRef(ev.effect)),
                       !.fault = IF ReserveRefused(st.budget, ReservationRef(ev.effect)) THEN "budget" ELSE @]
    BY <1>1, ReduceIntended
  <2> QED BY <1>1, <2>1
<1> HIDE DEF q, E, B
<1>6. q.effects = E /\ q.budget = B /\ q.attempts = st.attempts /\ q.nodeStates = st.nodeStates /\ SameControl(st, q)
  BY <1>3, <1>5 DEF RuntimeState, SameControl
<1> QED BY <1>2, <1>4, <1>6 DEF Extends, q, E, B

\* The states a launch moves its node through.
LEMMA LaunchParts ==
  ASSUME NEW st \in State, NEW n \in Nodes, NodeStateAt(st, n) \in {None, "pending", "ready"}
  PROVE  \E path : /\ LeadsTo(path, NodeStateAt(st, n), "leased")
                   /\ Launch(st, n) = Moves(n, CurrentAttempt(st, n), path) \o <<Intended(TaskEffect(st, n))>>
<1> DEFINE now == NodeStateAt(st, n)
           path == IF now = "ready" THEN <<"ready", "leased">>
                   ELSE IF now = "pending" THEN <<"pending", "ready", "leased">>
                   ELSE <<now, "pending", "ready", "leased">>
<1>1. LeadsTo(path, now, "leased")
  <2>1. now \in NodeStates \cup {None} /\ {"pending", "ready", "leased"} \subseteq NodeStates \cup {None}
    BY DEF NodeStates
  <2> HIDE DEF now
  <2> QED BY <2>1, Tuples
<1>2. Launch(st, n) = Moves(n, CurrentAttempt(st, n), path) \o <<Intended(TaskEffect(st, n))>>
  BY DEF Launch
<1> HIDE DEF path
<1> QED BY <1>1, <1>2

\* A node is launched from where the round found it (dispatchRound).
LEMMA LaunchesOne ==
  ASSUME NEW st \in State, NEW n \in Nodes, NodeStateAt(st, n) \in {None, "pending", "ready"},
         NEW q \in State, SameAttempts(st, q),
         q.nodeStates[<<n, CurrentAttempt(st, n)>>] = NodeStateAt(st, n),
         ~ReserveRefused(q.budget, RefOf(st, n))
  PROVE  /\ \A k \in Nat : Launch(st, n) \in Seq(Event(k))
         /\ LaunchedOne(q, After(q, Launch(st, n)), n, CurrentAttempt(st, n), TaskEffect(st, n))
<1>1. PICK path : /\ LeadsTo(path, NodeStateAt(st, n), "leased")
                  /\ Launch(st, n) = Moves(n, CurrentAttempt(st, n), path) \o <<Intended(TaskEffect(st, n))>>
  BY LaunchParts
<1>2. PICK a \in Attempts : a = CurrentAttempt(st, n)
  BY CurrentTyped
<1>3. PICK f \in Effect : f = TaskEffect(st, n) /\ f.kind = "task" /\ ReservationRef(f) = RefOf(st, n)
  BY TaskEffectTyped
<1>4. PICK moves : moves = Moves(n, a, path)
  OBVIOUS
<1>5. PICK mid : mid = After(q, moves)
  OBVIOUS
<1>6. (\A k : moves \in Seq(Event(k))) /\ Lands(q, mid, n, a, "leased")
  <2>1. a <= CurrentAttempt(q, n)
    BY <1>2, SessionAssumption DEF SameAttempts, Attempts
  <2>2. path \in Seq(NodeStates \cup {None}) /\ path # <<>> /\ q.nodeStates[<<n, a>>] = path[1] /\ path[Len(path)] = "leased"
    BY <1>1, <1>2 DEF LeadsTo
  <2>3. (\A k : moves \in Seq(Event(k))) /\ Lands(q, After(q, moves), n, a, path[Len(path)])
    BY <1>4, <2>1, <2>2, PathLands
  <2> QED BY <1>5, <2>2, <2>3
<1>7. mid \in State /\ ~ReserveRefused(mid.budget, ReservationRef(f))
  BY <1>3, <1>6 DEF Lands, SameBut
<1>8. PICK next : next = Reduce(mid, Intended(f))
  OBVIOUS
<1>9. /\ next \in State /\ SameControl(mid, next) /\ next.attempts = mid.attempts
      /\ next.nodeStates = mid.nodeStates /\ next.effects = Append(mid.effects, f)
      /\ next.budget = AfterReserve(mid.budget, ReservationRef(f))
      /\ \A k : Intended(f) \in Event(k)
  BY <1>3, <1>7, <1>8, IntendedReserves
<1>10. LaunchedOne(q, next, n, a, f)
  BY <1>6, <1>9 DEF LaunchedOne, Lands, SameBut, SameControl, SameAttempts, CurrentAttempt
<1>11. \A k \in Nat : <<Intended(f)>> \in Seq(Event(k))
  <2> TAKE k \in Nat
  <2>1. PICK ev \in Event(k) : ev = Intended(f)
    BY <1>9
  <2> QED BY <2>1
<1>12. After(q, moves \o <<Intended(f)>>) = next
  <2>1. moves \in Seq(Event(0)) /\ <<Intended(f)>> \in Seq(Event(0))
    BY <1>6, <1>11
  <2>2. PICK one \in Seq(Event(0)) : one = <<Intended(f)>>
    BY <2>1
  <2>3. After(q, moves \o one) = After(After(q, moves), one)
    <3> HIDE DEF Event
    <3> QED BY <2>1, AfterConcat
  <2>4. After(mid, one) = next
    BY <1>8, <2>2, AfterFew
  <2> QED BY <1>5, <2>2, <2>3, <2>4
<1>13. \A k \in Nat : moves \o <<Intended(f)>> \in Seq(Event(k))
  <2> TAKE k \in Nat
  <2>1. moves \in Seq(Event(k)) /\ <<Intended(f)>> \in Seq(Event(k))
    BY <1>6, <1>11
  <2> QED BY <2>1, ConcatProperties
<1> QED BY <1>1, <1>2, <1>3, <1>4, <1>10, <1>12, <1>13

\* What a round may choose among its first j nodes.
ChoiceFits(st, c, j) ==
  /\ c \in Seq(Nodes)
  /\ \A i \in 1..Len(c) : Dispatchable(st, c[i]) /\ \E o \in 1..j : c[i] = NodeOrder[o]
  /\ \A i, o \in 1..Len(c) : c[i] = c[o] => i = o
  /\ \A i \in 1..Len(c) : c[i] \in Writers => ~WriterHeld(st)
  /\ \A i, o \in 1..Len(c) : c[i] \in Writers /\ c[o] \in Writers => i = o

\* The batches that launch the nodes of c, and the batch of them all.
Launches(st, c) == [i \in 1..Len(c) |-> Launch(st, c[i])]

\* next is the projection mid with the nodes of c leased, and the effects of st with theirs.
LaunchedAll(st, mid, next, c, budget) ==
  /\ next \in State /\ SameControl(st, next) /\ SameAttempts(st, next) /\ next.budget = budget
  /\ Len(next.effects) = Len(st.effects) + Len(c)
  /\ \A e \in 1..Len(st.effects) : next.effects[e] = st.effects[e]
  /\ \A i \in 1..Len(c) : next.effects[Len(st.effects) + i] = TaskEffect(st, c[i])
  /\ \A n \in Nodes, a \in Attempts :
       next.nodeStates[<<n, a>>] =
         IF a = CurrentAttempt(st, n) /\ \E i \in 1..Len(c) : c[i] = n THEN "leased"
         ELSE mid.nodeStates[<<n, a>>]

\* A choice stays one when it grows by a node that may be dispatched with it.
LEMMA ChoiceGrows ==
  ASSUME NEW st, NEW c, NEW j \in Nat, ChoiceFits(st, c, j), NEW n \in Nodes,
         j + 1 \in 1..Len(NodeOrder), n = NodeOrder[j + 1], Dispatchable(st, n), LeaseFree(st, n, c)
  PROVE  ChoiceFits(st, Append(c, n), j + 1) /\ \A i \in 1..Len(c) : c[i] # n
<1> DEFINE m == Len(c)  d == Append(c, n)
<1>1. /\ m \in Nat /\ d \in Seq(Nodes) /\ Len(d) = m + 1 /\ d[m + 1] = n
      /\ \A i \in 1..m : d[i] = c[i] /\ c[i] \in Nodes
  BY DEF ChoiceFits
<1>2. \A i \in 1..m : c[i] # n
  <2> SUFFICES ASSUME NEW i \in 1..m PROVE c[i] # n
    OBVIOUS
  <2>1. PICK o \in 1..j : c[i] = NodeOrder[o]
    BY DEF ChoiceFits
  <2>2. o \in 1..Len(NodeOrder) /\ o # j + 1
    BY OrderedNodes
  <2> QED BY <2>1, <2>2, OrderedNodes
<1>3. n \in Writers => ~WriterHeld(st) /\ \A i \in 1..m : c[i] \notin Writers
  <2>1. \A i \in 1..m : c[i] \in ToSet(c)
    BY <1>1 DEF ToSet, ChoiceFits
  <2> QED BY <2>1 DEF LeaseFree
<1>4. \A i \in 1..(m + 1) : i \in 1..m \/ i = m + 1
  BY <1>1
<1> HIDE DEF m, d
<1>5. \A i \in 1..(m + 1) : Dispatchable(st, d[i]) /\ \E o \in 1..(j + 1) : d[i] = NodeOrder[o]
  <2> SUFFICES ASSUME NEW i \in 1..(m + 1) PROVE Dispatchable(st, d[i]) /\ \E o \in 1..(j + 1) : d[i] = NodeOrder[o]
    OBVIOUS
  <2>1. CASE i \in 1..m
    <3>1. Dispatchable(st, c[i]) /\ \E o \in 1..j : c[i] = NodeOrder[o]
      BY <2>1 DEF ChoiceFits, m
    <3>2. \A o \in 1..j : o \in 1..(j + 1)
      OBVIOUS
    <3> QED BY <1>1, <2>1, <3>1, <3>2
  <2>2. CASE i = m + 1
    <3>1. j + 1 \in 1..(j + 1)
      OBVIOUS
    <3> QED BY <1>1, <2>2, <3>1
  <2> QED BY <1>4, <2>1, <2>2
<1>6. \A i, o \in 1..(m + 1) : d[i] = d[o] => i = o
  <2>1. \A i, o \in 1..m : c[i] = c[o] => i = o
    BY DEF ChoiceFits, m
  <2> QED BY <1>1, <1>2, <1>4, <2>1
<1>7. /\ \A i \in 1..(m + 1) : d[i] \in Writers => ~WriterHeld(st)
      /\ \A i, o \in 1..(m + 1) : d[i] \in Writers /\ d[o] \in Writers => i = o
  <2>1. /\ \A i \in 1..m : c[i] \in Writers => ~WriterHeld(st)
        /\ \A i, o \in 1..m : c[i] \in Writers /\ c[o] \in Writers => i = o
    BY DEF ChoiceFits, m
  <2> QED BY <1>1, <1>3, <1>4, <2>1
<1> QED BY <1>1, <1>2, <1>5, <1>6, <1>7 DEF ChoiceFits, d, m

\* One more node is launched after those launched already.
LEMMA LaunchesMore ==
  ASSUME NEW st \in State, NEW mid \in State, NEW c \in Seq(Nodes), NEW q, NEW budget,
         LaunchedAll(st, mid, q, c, budget), NEW n \in Nodes, \A i \in 1..Len(c) : c[i] # n,
         mid.nodeStates[<<n, CurrentAttempt(st, n)>>] = NodeStateAt(st, n),
         NodeStateAt(st, n) \in {None, "pending", "ready"}, ~ReserveRefused(budget, RefOf(st, n))
  PROVE  /\ \A k \in Nat : Launch(st, n) \in Seq(Event(k))
         /\ LaunchedAll(st, mid, After(q, Launch(st, n)), Append(c, n), AfterReserve(budget, RefOf(st, n)))
<1>1. PICK a \in Attempts : a = CurrentAttempt(st, n)
  BY CurrentTyped
<1>2. PICK f \in Effect : f = TaskEffect(st, n) /\ ReservationRef(f) = RefOf(st, n)
  BY TaskEffectTyped
<1>3. PICK r : r = After(q, Launch(st, n))
  OBVIOUS
<1>4. q \in State /\ SameAttempts(st, q) /\ q.nodeStates[<<n, a>>] = NodeStateAt(st, n) /\ q.budget = budget
  BY <1>1 DEF LaunchedAll
<1>5. (\A k \in Nat : Launch(st, n) \in Seq(Event(k))) /\ LaunchedOne(q, r, n, a, f)
  BY <1>1, <1>2, <1>3, <1>4, LaunchesOne
<1>6. PICK d \in Seq(Nodes) : d = Append(c, n)
  BY AppendProperties
<1>7. PICK m \in Nat : m = Len(c)
  OBVIOUS
<1>8. Len(d) = m + 1 /\ d[m + 1] = n /\ \A i \in 1..m : d[i] = c[i]
  BY <1>6, <1>7
<1>9. \A i \in 1..(m + 1) : i \in 1..m \/ i = m + 1
  BY <1>7
<1>10. PICK l \in Nat : l = Len(st.effects)
  BY DEF State, RuntimeState
<1>11. /\ Len(r.effects) = l + (m + 1) /\ r.effects[l + (m + 1)] = f
       /\ \A e \in 1..(l + m) : r.effects[e] = q.effects[e]
  <2>1. q.effects \in Seq(Effect) /\ Len(q.effects) = l + m /\ r.effects = Append(q.effects, f)
    BY <1>4, <1>5, <1>7, <1>10 DEF LaunchedAll, LaunchedOne, State, RuntimeState
  <2> QED BY <2>1
<1>12. \A e \in 1..l : r.effects[e] = st.effects[e]
  <2>1. \A e \in 1..l : e \in 1..(l + m) /\ q.effects[e] = st.effects[e]
    BY <1>10 DEF LaunchedAll
  <2> QED BY <1>11, <2>1
<1>13. \A i \in 1..(m + 1) : r.effects[l + i] = TaskEffect(st, d[i])
  <2>1. \A i \in 1..m : l + i \in 1..(l + m) /\ q.effects[l + i] = TaskEffect(st, c[i])
    BY <1>7, <1>10 DEF LaunchedAll
  <2> QED BY <1>2, <1>8, <1>9, <1>11, <2>1
<1>14. \A n2 \in Nodes, a2 \in Attempts :
         r.nodeStates[<<n2, a2>>] =
           IF a2 = CurrentAttempt(st, n2) /\ \E i \in 1..(m + 1) : d[i] = n2 THEN "leased"
           ELSE mid.nodeStates[<<n2, a2>>]
  <2> TAKE n2 \in Nodes, a2 \in Attempts
  <2>1. q.nodeStates \in [Nodes \X Attempts -> NodeStates \cup {None}]
    BY <1>4 DEF State, RuntimeState
  <2>2. r.nodeStates = [q.nodeStates EXCEPT ![<<n, a>>] = "leased"]
    BY <1>5 DEF LaunchedOne
  <2>3. r.nodeStates[<<n2, a2>>] = IF n2 = n /\ a2 = a THEN "leased" ELSE q.nodeStates[<<n2, a2>>]
    BY <2>1, <2>2
  <2>4. q.nodeStates[<<n2, a2>>] =
          IF a2 = CurrentAttempt(st, n2) /\ \E i \in 1..m : c[i] = n2 THEN "leased"
          ELSE mid.nodeStates[<<n2, a2>>]
    BY <1>7 DEF LaunchedAll
  <2>5. (\E i \in 1..(m + 1) : d[i] = n2) <=> n2 = n \/ \E i \in 1..m : c[i] = n2
    BY <1>7, <1>8, <1>9
  <2> QED BY <1>1, <2>3, <2>4, <2>5
<1>15. r \in State /\ SameControl(st, r) /\ SameAttempts(st, r) /\ r.budget = AfterReserve(budget, RefOf(st, n))
  BY <1>2, <1>4, <1>5 DEF LaunchedAll, LaunchedOne, SameControl, SameAttempts
<1> QED BY <1>3, <1>5, <1>6, <1>8, <1>10, <1>12, <1>13, <1>11, <1>14, <1>15 DEF LaunchedAll

\* The round chooses nodes it may launch together, and their launches replay (dispatchRound).
LEMMA RoundLaunches ==
  ASSUME NEW st \in State, NEW mid \in State, SameBut(st, mid), SameAttempts(st, mid),
         \A n \in Nodes : Dispatchable(st, n) =>
            mid.nodeStates[<<n, CurrentAttempt(st, n)>>] = NodeStateAt(st, n)
  PROVE  LET c == Chosen(st)
         IN /\ ChoiceFits(st, c, Len(NodeOrder))
            /\ \A k \in Nat : Launches(st, c) \in Seq(Seq(Event(k)))
            /\ \E budget : LaunchedAll(st, mid, After(mid, FlattenSeq(Launches(st, c))), c, budget)
<1> DEFINE R == Rounds(st)
           m == Len(NodeOrder)
           Fits(j) == LET c == R[j].chosen
                      IN /\ ChoiceFits(st, c, j)
                         /\ \A k \in Nat : Launches(st, c) \in Seq(Seq(Event(k)))
                         /\ LaunchedAll(st, mid, After(mid, FlattenSeq(Launches(st, c))), c, R[j].budget)
           P == {j \in 0..m : Fits(j)}
<1>1. /\ m \in Nat /\ \A j \in 1..m : NodeOrder[j] \in Nodes
  BY OrderedNodes
<1>2. /\ R[0] = [chosen |-> <<>>, budget |-> st.budget]
      /\ \A j \in 1..m : R[j] = RoundAfter(st, R[j - 1], NodeOrder[j])
  BY RoundsUnfold
<1> HIDE DEF R, m
<1>3. 0 \in P
  <2> DEFINE c == R[0].chosen
  <2>1. c = <<>> /\ R[0].budget = st.budget
    BY <1>2
  <2>2. Launches(st, c) = <<>>
    BY <2>1 DEF Launches
  <2>3. FlattenSeq(Launches(st, c)) = <<>>
    BY <2>2 DEF FlattenSeq
  <2>4. After(mid, <<>>) = mid
    BY AfterFew
  <2>5. LaunchedAll(st, mid, mid, <<>>, st.budget)
    <3>1. Len(st.effects) \in Nat /\ Len(<<>>) = 0 /\ 1..0 = {}
      BY DEF State, RuntimeState
    <3> QED BY <3>1 DEF LaunchedAll, SameBut, SameControl
  <2>6. ChoiceFits(st, <<>>, 0)
    BY DEF ChoiceFits
  <2>7. \A k \in Nat : <<>> \in Seq(Seq(Event(k)))
    OBVIOUS
  <2> HIDE DEF c
  <2>8. Fits(0)
    BY <2>1, <2>2, <2>3, <2>4, <2>5, <2>6, <2>7 DEF c
  <2> HIDE DEF Fits
  <2> QED BY <1>1, <2>8
<1>4. ASSUME NEW i \in 0..(m - 1), i \in P PROVE i + 1 \in P
  <2>1. PICK j \in Nat : j = i
    OBVIOUS
  <2>2. /\ j + 1 \in 1..m /\ (j + 1) - 1 = j /\ j + 1 \in 0..m
    BY <1>1, <2>1
  <2>3. PICK n \in Nodes : n = NodeOrder[j + 1]
    BY <1>1, <2>2
  <2>4. PICK c : c = R[j].chosen
    OBVIOUS
  <2>5. PICK budget : budget = R[j].budget
    OBVIOUS
  <2>6. PICK launches : launches = Launches(st, c)
    OBVIOUS
  <2>7. PICK q : q = After(mid, FlattenSeq(launches))
    OBVIOUS
  <2>8. /\ ChoiceFits(st, c, j) /\ (\A k \in Nat : launches \in Seq(Seq(Event(k))))
        /\ LaunchedAll(st, mid, q, c, budget)
    BY <1>4, <2>1, <2>4, <2>5, <2>6, <2>7
  <2>9. PICK r : r = R[j + 1] /\ r = RoundAfter(st, R[j], n)
    BY <1>2, <2>2, <2>3
  <2>10. r = IF /\ Dispatchable(st, n)
                /\ Cardinality(InFlight(st)) + Len(c) < MaxConcurrentAgents
                /\ LeaseFree(st, n, c)
                /\ ~ReserveRefused(budget, RefOf(st, n))
             THEN [chosen |-> Append(c, n), budget |-> AfterReserve(budget, RefOf(st, n))]
             ELSE R[j]
    BY <2>4, <2>5, <2>9 DEF RoundAfter
  <2>11. CASE r = R[j]
    <3>1. ChoiceFits(st, c, j + 1)
      <4>1. \A o \in 1..j : o \in 1..(j + 1)
        OBVIOUS
      <4> QED BY <2>8, <4>1 DEF ChoiceFits
    <3>2. R[j + 1].chosen = c /\ R[j + 1].budget = budget
      BY <2>4, <2>5, <2>9, <2>11
    <3>3. Fits(j + 1)
      BY <2>6, <2>7, <2>8, <3>1, <3>2
    <3> HIDE DEF Fits
    <3> QED BY <2>1, <2>2, <3>3
  <2>12. CASE /\ Dispatchable(st, n) /\ LeaseFree(st, n, c) /\ ~ReserveRefused(budget, RefOf(st, n))
              /\ r = [chosen |-> Append(c, n), budget |-> AfterReserve(budget, RefOf(st, n))]
    <3>1. PICK d : d = Append(c, n)
      OBVIOUS
    <3>2. ChoiceFits(st, d, j + 1) /\ \A o \in 1..Len(c) : c[o] # n
      BY <2>2, <2>3, <2>8, <2>12, <3>1, ChoiceGrows DEF m
    <3>3. PICK launch : launch = Launch(st, n)
      OBVIOUS
    <3>4. c \in Seq(Nodes) /\ NodeStateAt(st, n) \in {None, "pending", "ready"}
      BY <2>8, <2>12 DEF ChoiceFits, Dispatchable, Unstarted
    <3>5. /\ \A k \in Nat : launch \in Seq(Event(k))
          /\ LaunchedAll(st, mid, After(q, launch), d, AfterReserve(budget, RefOf(st, n)))
      BY <2>8, <2>12, <3>1, <3>2, <3>3, <3>4, LaunchesMore
    <3>6. Launches(st, d) = Append(launches, launch)
      <4>1. PICK l \in Nat : l = Len(c)
        BY <3>4
      <4>2. Len(d) = l + 1 /\ d[l + 1] = n /\ \A o \in 1..l : d[o] = c[o]
        BY <3>1, <3>4, <4>1
      <4>3. Launches(st, d) = [o \in 1..(l + 1) |-> Launch(st, d[o])] /\ launches = [o \in 1..l |-> Launch(st, c[o])]
        BY <2>6, <4>1, <4>2 DEF Launches
      <4>4. \A o \in 1..(l + 1) : Launch(st, d[o]) = IF o = l + 1 THEN launch ELSE launches[o]
        <5>1. \A o \in 1..(l + 1) : o = l + 1 \/ o \in 1..l
          OBVIOUS
        <5> QED BY <3>3, <4>2, <4>3, <5>1
      <4>5. PICK S : launches \in Seq(S) /\ Len(launches) = l
        <5>1. launches \in Seq(Seq(Event(0)))
          BY <2>8
        <5> HIDE DEF Event
        <5>2. Len(launches) = l
          BY <4>3, <5>1
        <5> QED BY <5>1, <5>2
      <4>6. Append(launches, launch) = [o \in 1..(l + 1) |-> IF o = l + 1 THEN launch ELSE launches[o]]
        <5>1. PICK more \in Seq(S \cup {launch}) : more = Append(launches, launch)
          <6>1. launches \in Seq(S \cup {launch}) /\ launch \in S \cup {launch}
            BY <4>5
          <6> QED BY <6>1, AppendProperties
        <5>2. Len(more) = l + 1 /\ \A o \in 1..(l + 1) : more[o] = IF o = l + 1 THEN launch ELSE launches[o]
          BY <4>5, <5>1
        <5>3. more = [o \in 1..Len(more) |-> more[o]]
          OBVIOUS
        <5> QED BY <5>1, <5>2, <5>3
      <4> QED BY <4>3, <4>4, <4>6
    <3>7. \A k \in Nat : Launches(st, d) \in Seq(Seq(Event(k)))
      <4> TAKE k \in Nat
      <4>1. launches \in Seq(Seq(Event(k))) /\ launch \in Seq(Event(k))
        BY <2>8, <3>5
      <4>2. Append(launches, launch) \in Seq(Seq(Event(k)))
        <5> HIDE DEF Event
        <5> QED BY <4>1, AppendProperties
      <4> QED BY <3>6, <4>2
    <3>8. After(mid, FlattenSeq(Launches(st, d))) = After(q, launch)
      <4>1. launches \in Seq(Seq(Event(0))) /\ launch \in Seq(Event(0))
        BY <2>8, <3>5
      <4>2. PICK E : E = Event(0)
        OBVIOUS
      <4>3. launches \in Seq(Seq(E)) /\ launch \in Seq(E)
        BY <4>1, <4>2
      <4>4. FlattenSeq(Append(launches, launch)) = FlattenSeq(launches) \o launch
        BY <4>3, FlattenAppend
      <4>5. FlattenSeq(launches) \in Seq(E)
        BY <4>3, FlattenHolds
      <4>6. After(mid, FlattenSeq(launches) \o launch) = After(After(mid, FlattenSeq(launches)), launch)
        BY <4>3, <4>5, AfterConcat
      <4> QED BY <2>7, <3>6, <4>4, <4>6
    <3>9. R[j + 1].chosen = d /\ R[j + 1].budget = AfterReserve(budget, RefOf(st, n))
      BY <2>9, <2>12, <3>1
    <3>10. Fits(j + 1)
      BY <3>2, <3>5, <3>7, <3>8, <3>9
    <3> HIDE DEF Fits
    <3> QED BY <2>1, <2>2, <3>10
  <2> HIDE DEF P
  <2> QED BY <2>10, <2>11, <2>12
<1>5. m \in P
  <2>1. \A i \in 0..(m - 1) : i \in P => i + 1 \in P
    BY <1>4
  <2> HIDE DEF P
  <2>2. \A i \in 0..m : i \in P
    BY <1>1, <1>3, <2>1, Induction
  <2> QED BY <1>1, <2>2
<1>6. R[m].chosen = Chosen(st)
  BY DEF R, m, Chosen
<1> QED BY <1>5, <1>6 DEF m

\* A single move is a path of two states.
LEMMA OneMove ==
  ASSUME NEW n, NEW a, NEW x, NEW y
  PROVE  <<Move(n, a, x, y)>> = Moves(n, a, <<x, y>>)
<1>1. Moves(n, a, <<x, y>>) = [i \in 1..1 |-> Move(n, a, <<x, y>>[i], <<x, y>>[i + 1])]
  BY DEF Moves
<1>2. \A i \in 1..1 : i = 1 /\ i + 1 = 2
  OBVIOUS
<1>3. \A i \in 1..1 : Move(n, a, <<x, y>>[i], <<x, y>>[i + 1]) = Move(n, a, x, y)
  BY <1>2
<1>4. PICK e : e = Move(n, a, x, y)
  OBVIOUS
<1>5. Moves(n, a, <<x, y>>) = [i \in 1..1 |-> e]
  BY <1>1, <1>3, <1>4
<1>6. <<e>> = [i \in 1..1 |-> e]
  OBVIOUS
<1> QED BY <1>4, <1>5, <1>6

\* Where a round leaves a node it does not launch.
ReadiedTo(st) ==
  [n \in Nodes |->
     CASE Schedulable(st, n) /\ NodeStateAt(st, n) = "waiting" /\ Ready(st, n) -> "pending"
       [] Unstarted(st, n) /\ ~Ready(st, n) -> "waiting"
       [] OTHER -> NodeStateAt(st, n)]

\* A round moves each node at most once before it launches any (dispatchRound).
LEMMA ReadiedLands ==
  ASSUME NEW st \in State
  PROVE  LET seqs == [i \in 1..Len(NodeOrder) |-> Readied(st, NodeOrder[i])]
         IN (\A k : seqs \in Seq(Seq(Event(k)))) /\ EachLands(st, seqs, ReadiedTo(st))
<1> DEFINE seqs == [i \in 1..Len(NodeOrder) |-> Readied(st, NodeOrder[i])]
<1>1. ASSUME NEW n \in Nodes
      PROVE  /\ \A k : Readied(st, n) \in Seq(Event(k))
             /\ \/ Readied(st, n) = <<>> /\ ReadiedTo(st)[n] = st.nodeStates[<<n, CurrentAttempt(st, n)>>]
                \/ \A q \in State :
                     SameAttempts(st, q) /\ q.nodeStates[<<n, CurrentAttempt(st, n)>>] = st.nodeStates[<<n, CurrentAttempt(st, n)>>]
                     => Lands(q, After(q, Readied(st, n)), n, CurrentAttempt(st, n), ReadiedTo(st)[n])
  <2>1. PICK a \in Attempts, now \in NodeStates \cup {None} : a = CurrentAttempt(st, n) /\ now = NodeStateAt(st, n)
    BY CurrentTyped
  <2>2. now = st.nodeStates[<<n, a>>]
    BY <2>1 DEF NodeStateAt
  <2>3. \/ Readied(st, n) = <<>> /\ ReadiedTo(st)[n] = now
        \/ \E x \in NodeStates \cup {None} : Readied(st, n) = <<Move(n, a, now, x)>> /\ ReadiedTo(st)[n] = x
    <3>1. CASE Schedulable(st, n) /\ now = "waiting" /\ Ready(st, n)
      <4>1. Readied(st, n) = <<Move(n, a, now, "pending")>>
        BY <2>1, <3>1 DEF Readied, Unstarted
      <4>2. ReadiedTo(st)[n] = "pending"
        BY <2>1, <3>1 DEF ReadiedTo, Unstarted
      <4> QED BY <4>1, <4>2 DEF NodeStates
    <3>2. CASE Unstarted(st, n) /\ ~Ready(st, n)
      <4>1. Readied(st, n) = <<Move(n, a, now, "waiting")>>
        BY <2>1, <3>2 DEF Readied
      <4>2. ReadiedTo(st)[n] = "waiting"
        BY <2>1, <3>2 DEF ReadiedTo
      <4> QED BY <4>1, <4>2 DEF NodeStates
    <3>3. CASE ~(Schedulable(st, n) /\ now = "waiting" /\ Ready(st, n)) /\ ~(Unstarted(st, n) /\ ~Ready(st, n))
      <4>1. Readied(st, n) = <<>>
        BY <2>1, <3>3 DEF Readied
      <4>2. ReadiedTo(st)[n] = now
        BY <2>1, <3>3 DEF ReadiedTo
      <4> QED BY <4>1, <4>2
    <3> QED BY <3>1, <3>2, <3>3
  <2>4. CASE Readied(st, n) = <<>> /\ ReadiedTo(st)[n] = now
    <3>1. \A k : <<>> \in Seq(Event(k))
      OBVIOUS
    <3> QED BY <2>1, <2>2, <2>4, <3>1
  <2>5. ASSUME NEW x \in NodeStates \cup {None}, Readied(st, n) = <<Move(n, a, now, x)>>, ReadiedTo(st)[n] = x
        PROVE  /\ \A k : Readied(st, n) \in Seq(Event(k))
               /\ \A q \in State : SameAttempts(st, q) /\ q.nodeStates[<<n, a>>] = now
                                   => Lands(q, After(q, Readied(st, n)), n, a, x)
    <3>1. PICK path : path = <<now, x>>
      OBVIOUS
    <3>2. path \in Seq(NodeStates \cup {None}) /\ path # <<>> /\ path[1] = now /\ path[Len(path)] = x
      BY <3>1, Tuples DEF LeadsTo
    <3>3. Readied(st, n) = Moves(n, a, path)
      BY <2>5, <3>1, OneMove
    <3>4. ASSUME NEW q \in State, SameAttempts(st, q), q.nodeStates[<<n, a>>] = now
          PROVE  (\A k : Moves(n, a, path) \in Seq(Event(k))) /\ Lands(q, After(q, Moves(n, a, path)), n, a, x)
      <4>1. a <= CurrentAttempt(q, n)
        BY <2>1, <3>4, SessionAssumption DEF SameAttempts, Attempts
      <4>2. /\ \A k : Moves(n, a, path) \in Seq(Event(k))
            /\ Lands(q, After(q, Moves(n, a, path)), n, a, path[Len(path)])
        BY <3>2, <3>4, <4>1, PathLands
      <4> QED BY <3>2, <4>2
    <3>5. \A k : Moves(n, a, path) \in Seq(Event(k))
      <4>1. SameAttempts(st, st)
        BY DEF SameAttempts
      <4> QED BY <2>2, <3>4, <4>1
    <3> QED BY <3>3, <3>4, <3>5
  <2> QED BY <2>1, <2>2, <2>3, <2>4, <2>5
<1>2. /\ Len(NodeOrder) \in Nat /\ \A i \in 1..Len(NodeOrder) : NodeOrder[i] \in Nodes
  BY OrderedNodes
<1>3. ASSUME NEW k PROVE seqs \in Seq(Seq(Event(k)))
  <2>1. PICK T : T = Seq(Event(k))
    OBVIOUS
  <2>2. \A i \in 1..Len(NodeOrder) : Readied(st, NodeOrder[i]) \in T
    BY <1>1, <1>2, <2>1
  <2>3. seqs \in [1..Len(NodeOrder) -> T]
    BY <2>2
  <2> HIDE DEF seqs
  <2> QED BY <1>2, <2>1, <2>3
<1>4. EachLands(st, seqs, ReadiedTo(st))
  <2> SUFFICES ASSUME NEW i \in 1..Len(NodeOrder), NEW n, n = NodeOrder[i], NEW a, a = CurrentAttempt(st, n)
               PROVE  \/ seqs[i] = <<>> /\ ReadiedTo(st)[n] = st.nodeStates[<<n, a>>]
                      \/ \A q \in State :
                           SameAttempts(st, q) /\ q.nodeStates[<<n, a>>] = st.nodeStates[<<n, a>>]
                           => Lands(q, After(q, seqs[i]), n, a, ReadiedTo(st)[n])
    BY DEF EachLands
  <2>1. n \in Nodes /\ seqs[i] = Readied(st, n)
    BY <1>2
  <2> HIDE DEF seqs
  <2> QED BY <1>1, <2>1
<1> QED BY <1>3, <1>4

\* next is the projection st after a round that chose c.
RoundDone(st, next, c) ==
  /\ next \in State /\ SameControl(st, next) /\ SameAttempts(st, next)
  /\ Len(next.effects) = Len(st.effects) + Len(c)
  /\ \A e \in 1..Len(st.effects) : next.effects[e] = st.effects[e]
  /\ \A i \in 1..Len(c) : next.effects[Len(st.effects) + i] = TaskEffect(st, c[i])
  /\ \A n \in Nodes, a \in Attempts :
       next.nodeStates[<<n, a>>] =
         IF a # CurrentAttempt(st, n) THEN st.nodeStates[<<n, a>>]
         ELSE IF \E i \in 1..Len(c) : c[i] = n THEN "leased" ELSE ReadiedTo(st)[n]

\* What a round does (dispatchRound).
LEMMA PlanDone ==
  ASSUME NEW st \in State
  PROVE  /\ \A k \in Nat : PlanRound(st) \in Seq(Event(k))
         /\ IF st.dispatchMode = "active"
            THEN /\ ChoiceFits(st, Chosen(st), Len(NodeOrder))
                 /\ RoundDone(st, After(st, PlanRound(st)), Chosen(st))
            ELSE PlanRound(st) = <<>>
<1>1. CASE st.dispatchMode # "active"
  BY <1>1 DEF PlanRound
<1>2. CASE st.dispatchMode = "active"
  <2>1. PICK seqs : seqs = [i \in 1..Len(NodeOrder) |-> Readied(st, NodeOrder[i])]
    OBVIOUS
  <2>2. PICK x : x = ReadiedTo(st)
    OBVIOUS
  <2>3. (\A k : seqs \in Seq(Seq(Event(k)))) /\ EachLands(st, seqs, x)
    BY <2>1, <2>2, ReadiedLands
  <2>4. Len(seqs) = Len(NodeOrder)
    BY <2>1, OrderedNodes
  <2>5. PICK mid : mid = After(st, FlattenSeq(seqs))
    OBVIOUS
  <2>6. LandsAll(st, mid, Nodes, x)
    <3>1. seqs \in Seq(Seq(Event(0)))
      BY <2>3
    <3> QED BY <2>3, <2>4, <2>5, <3>1, LandingEach
  <2>7. mid \in State /\ SameBut(st, mid) /\ SameAttempts(st, mid)
    BY <2>6 DEF LandsAll
  <2>8. ASSUME NEW n \in Nodes, Dispatchable(st, n)
        PROVE  mid.nodeStates[<<n, CurrentAttempt(st, n)>>] = NodeStateAt(st, n)
    <3>1. x[n] = NodeStateAt(st, n)
      <4>1. NodeStateAt(st, n) # "waiting" /\ Ready(st, n)
        BY <2>8, SessionAssumption DEF Dispatchable, Unstarted, NodeStates
      <4> QED BY <2>2, <4>1 DEF ReadiedTo
    <3> QED BY <2>6, <3>1, CurrentTyped DEF LandsAll
  <2>9. PICK c : c = Chosen(st)
    OBVIOUS
  <2>10. PICK launches : launches = Launches(st, c)
    OBVIOUS
  <2>11. PICK next : next = After(mid, FlattenSeq(launches))
    OBVIOUS
  <2>12. PICK budget : /\ ChoiceFits(st, c, Len(NodeOrder)) /\ (\A k \in Nat : launches \in Seq(Seq(Event(k))))
                       /\ LaunchedAll(st, mid, next, c, budget)
    BY <2>7, <2>8, <2>9, <2>10, <2>11, RoundLaunches
  <2>13. PlanRound(st) = FlattenSeq(seqs) \o FlattenSeq(launches)
    <3>1. DOMAIN NodeOrder = 1..Len(NodeOrder)
      BY OrderedNodes
    <3>2. DOMAIN c = 1..Len(c)
      BY <2>12 DEF ChoiceFits
    <3>3. seqs = [i \in DOMAIN NodeOrder |-> Readied(st, NodeOrder[i])]
      BY <2>1, <3>1
    <3>4. launches = [i \in DOMAIN c |-> Launch(st, c[i])]
      BY <2>10, <3>2 DEF Launches
    <3>5. EventsFor(LAMBDA n : Readied(st, n), NodeOrder) = FlattenSeq(seqs)
      BY <3>3 DEF EventsFor
    <3>6. EventsFor(LAMBDA n : Launch(st, n), Chosen(st)) = FlattenSeq(launches)
      BY <2>9, <3>4 DEF EventsFor
    <3> QED BY <1>2, <3>5, <3>6 DEF PlanRound
  <2>14. ASSUME NEW k \in Nat
         PROVE  /\ FlattenSeq(seqs) \in Seq(Event(k)) /\ FlattenSeq(launches) \in Seq(Event(k))
                /\ FlattenSeq(seqs) \o FlattenSeq(launches) \in Seq(Event(k))
    <3>1. PICK E : E = Event(k)
      OBVIOUS
    <3>2. seqs \in Seq(Seq(E)) /\ launches \in Seq(Seq(E))
      BY <2>3, <2>12, <3>1
    <3>3. FlattenSeq(seqs) \in Seq(E) /\ FlattenSeq(launches) \in Seq(E)
      BY <3>2, FlattenHolds
    <3> QED BY <3>1, <3>3, ConcatProperties
  <2>15. After(st, PlanRound(st)) = next
    <3>1. PICK E : E = Event(0)
      OBVIOUS
    <3>2. FlattenSeq(seqs) \in Seq(E) /\ FlattenSeq(launches) \in Seq(E)
      BY <2>14, <3>1
    <3> QED BY <2>5, <2>11, <2>13, <3>2, AfterConcat
  <2>16. RoundDone(st, next, c)
    <3>1. \A n \in Nodes, a \in Attempts :
            mid.nodeStates[<<n, a>>] = IF a = CurrentAttempt(st, n) THEN ReadiedTo(st)[n] ELSE st.nodeStates[<<n, a>>]
      BY <2>2, <2>6 DEF LandsAll
    <3>2. \A n \in Nodes, a \in Attempts :
            next.nodeStates[<<n, a>>] =
              IF a # CurrentAttempt(st, n) THEN st.nodeStates[<<n, a>>]
              ELSE IF \E i \in 1..Len(c) : c[i] = n THEN "leased" ELSE ReadiedTo(st)[n]
      <4>1. \A n \in Nodes, a \in Attempts :
              next.nodeStates[<<n, a>>] =
                IF a = CurrentAttempt(st, n) /\ \E i \in 1..Len(c) : c[i] = n THEN "leased"
                ELSE mid.nodeStates[<<n, a>>]
        BY <2>12 DEF LaunchedAll
      <4> TAKE n \in Nodes, a \in Attempts
      <4>2. CASE a # CurrentAttempt(st, n)
        BY <3>1, <4>1, <4>2
      <4>3. CASE a = CurrentAttempt(st, n) /\ \E i \in 1..Len(c) : c[i] = n
        BY <4>1, <4>3
      <4>4. CASE a = CurrentAttempt(st, n) /\ ~\E i \in 1..Len(c) : c[i] = n
        BY <3>1, <4>1, <4>4
      <4> QED BY <4>2, <4>3, <4>4
    <3> QED BY <2>12, <3>2 DEF LaunchedAll, RoundDone
  <2> QED BY <1>2, <2>9, <2>12, <2>13, <2>14, <2>15, <2>16
<1> QED BY <1>1, <1>2

-----------------------------------------------------------------------------
(* What holds of the projection between any two batches.                       *)

\* An effect has an outcome once it is resolved.
StatusFits(st) ==
  \A e \in EffectsOf(st) :
    LET f == st.effects[e]
    IN f.status # "unknown" /\ (f.entry = "resolved" <=> f.status # None)

\* Where an attempt is whose effect is unresolved.
ClaimStates(entry) ==
  CASE entry = "intended" -> {"leased"}
    [] entry = "dispatched" -> {"leased", "cancelling"}
    [] entry = "unknown" -> {"unknown"}

\* An execution that is not resolved is one of the current attempt of its node.
EntriesFit(st) ==
  \A e \in TasksIn(st, EffectsOf(st)) :
    LET f == st.effects[e]
    IN /\ f.attempt <= CurrentAttempt(st, f.node)
       /\ f.entry # "resolved" => /\ f.attempt = CurrentAttempt(st, f.node)
                                  /\ st.nodeStates[CellOf(st, e)] \in ClaimStates(f.entry)

\* An attempt has one unresolved execution.
ClaimsFit(st) ==
  \A e, f \in TasksIn(st, Unresolved(st)) : e # f => CellOf(st, e) # CellOf(st, f)

\* A superseded attempt is at rest, and an attempt to come has no state.
AttemptFits(st, n, a) ==
  /\ a < CurrentAttempt(st, n) =>
       st.nodeStates[<<n, a>>] \notin {"leased", "running", "verifying", "unknown", "cancelling"}
  /\ a > CurrentAttempt(st, n) => st.nodeStates[<<n, a>>] = None

\* All attempts of all nodes are where they may be.
AttemptsFit(st) == \A n \in Nodes, a \in Attempts : AttemptFits(st, n, a)

\* A cancellation has everything unresolved among its targets, which are different attempts.
StopsFit(st) ==
  /\ st.dispatchMode = "cancelled" => TasksIn(st, Unresolved(st)) = {}
  /\ \A c \in EffectsOf(st) \ TasksIn(st, EffectsOf(st)) :
       LET T == st.effects[c].targets
       IN /\ st.dispatchMode \in {"cancelling", "cancelled"}
          /\ TasksIn(st, Unresolved(st)) \subseteq T /\ T \subseteq TasksIn(st, EffectsOf(st))
          /\ \A x, y \in T : x # y => CellOf(st, x) # CellOf(st, y)

\* What holds of every journal that the service writes.
Sound(st) ==
  /\ st \in State /\ Len(st.effects) <= MaxEffects /\ st.fault = "none"
  /\ StatusFits(st) /\ EntriesFit(st) /\ ClaimsFit(st) /\ AttemptsFit(st) /\ StopsFit(st)

-----------------------------------------------------------------------------
(* What a receipt does.                                                        *)

\* A receipt that moves nothing leaves its attempt where it is.
LEMMA AnswersCloses ==
  ASSUME NEW st \in State, NEW next, NEW e, NEW status, Answers(st, next, e, status)
  PROVE  Closes(st, next, e, status, st.nodeStates[CellOf(st, e)])
<1>1. st.nodeStates \in [Nodes \X Attempts -> NodeStates \cup {None}]
  BY DEF State, RuntimeState
<1>2. st.nodeStates = [st.nodeStates EXCEPT ![CellOf(st, e)] = st.nodeStates[CellOf(st, e)]]
  BY <1>1
<1>3. SameAttempts(st, next)
  BY DEF Answers, SameAttempts, CurrentAttempt
<1> QED BY <1>2, <1>3 DEF Answers, Closes

\* next is the projection st after the acknowledgement of the cancellation c.
Acked(st, next, c) ==
  LET T == st.effects[c].targets
  IN /\ next \in State /\ next.epoch = st.epoch /\ next.fault = st.fault /\ next.dispatchMode = "cancelled"
     /\ SameAttempts(st, next) /\ Len(next.effects) = Len(st.effects)
     /\ \A e \in 1..Len(st.effects) :
          next.effects[e] = IF e = c \/ e \in T THEN Answered(st.effects[e], "cancelled") ELSE st.effects[e]
     /\ \A cell \in Nodes \X Attempts :
          next.nodeStates[cell] = IF \E e \in T : CellOf(st, e) = cell THEN "cancelled" ELSE st.nodeStates[cell]

\* A change of the mode changes nothing else (reduce).
LEMMA ModeSets ==
  ASSUME NEW st \in State, NEW m \in {"active", "paused", "cancelling", "cancelled"}
  PROVE  /\ \A k : Mode(m) \in Event(k)
         /\ Reduce(st, Mode(m)) = [st EXCEPT !.dispatchMode = m] /\ Reduce(st, Mode(m)) \in State
<1>1. \A k : Mode(m) \in Event(k)
  BY DEF Mode, Event
<1>2. Reduce(st, Mode(m)) = [st EXCEPT !.dispatchMode = m]
  <2>1. PICK ev : ev = Mode(m)
    OBVIOUS
  <2>2. ev.type = "mode" /\ ev.mode = m
    BY <2>1 DEF Mode
  <2>3. Reduce(st, ev) = [st EXCEPT !.dispatchMode = ev.mode]
    BY <2>2, ReduceField
  <2> QED BY <2>1, <2>2, <2>3
<1>3. [st EXCEPT !.dispatchMode = m] \in State
  BY DEF State, RuntimeState
<1> QED BY <1>1, <1>2, <1>3

\* Effects of different attempts are answered, and their attempts cancelled, one by one.
LEMMA PathsClose ==
  ASSUME NEW st \in State, NEW T \in SUBSET (1..Len(st.effects)), NEW status \in Statuses, NEW path,
         \A x \in T : LeadsTo(path[x], st.nodeStates[CellOf(st, x)], "cancelled"),
         \A x \in T : st.effects[x].attempt <= CurrentAttempt(st, st.effects[x].node),
         \A x, y \in T : x # y => CellOf(st, x) # CellOf(st, y),
         NEW seqs, seqs = [e \in 1..Len(st.effects) |->
                             IF e \in T
                             THEN <<Applied(e, status, None)>> \o Moves(st.effects[e].node, st.effects[e].attempt, path[e])
                             ELSE <<>>]
  PROVE  /\ seqs \in Seq(Seq(Event(Len(st.effects))))
         /\ ClosesAll(st, After(st, FlattenSeq(seqs)), T, status)
<1>1. PICK k \in Nat : k = Len(st.effects)
  BY DEF State, RuntimeState
<1>2. PICK E : E = Event(k)
  OBVIOUS
<1>4. ASSUME NEW e \in T, NEW q \in State, Len(q.effects) = k, q.effects[e] = st.effects[e], SameAttempts(st, q),
             q.nodeStates[CellOf(st, e)] = st.nodeStates[CellOf(st, e)]
      PROVE  seqs[e] \in Seq(E) /\ Closes(q, After(q, seqs[e]), e, status, "cancelled")
  <2>1. e \in 1..k /\ e <= k
    BY <1>1
  <2>2. PICK f \in Effect : f = st.effects[e]
    BY <1>1, <2>1 DEF State, RuntimeState
  <2>3. CellOf(q, e) = CellOf(st, e) /\ f.node \in Nodes
    BY <1>4, <2>2 DEF CellOf, Effect
  <2>4. PICK p : p = path[e]
    OBVIOUS
  <2>5. LeadsTo(p, q.nodeStates[CellOf(q, e)], "cancelled")
    BY <1>4, <2>3, <2>4
  <2>6. PICK batch : batch = <<Applied(e, status, None)>> \o Moves(q.effects[e].node, q.effects[e].attempt, p)
    OBVIOUS
  <2>7. seqs[e] = batch
    BY <1>1, <1>4, <2>1, <2>4, <2>6
  <2>8. q.effects[e].attempt <= CurrentAttempt(q, q.effects[e].node)
    BY <1>4, <2>2, <2>3 DEF SameAttempts
  <2>9. batch \in Seq(Event(k)) /\ Closes(q, After(q, batch), e, status, "cancelled")
    <3>1. None \in UsageRows \cup {None} /\ e \in 1..Len(q.effects)
      BY <1>4, <2>1
    <3> QED BY <2>1, <2>5, <2>6, <2>8, <3>1, ReceiptCloses
  <2> QED BY <1>2, <2>7, <2>9
<1>5. \A e \in T : seqs[e] \in Seq(E)
  <2>1. SameAttempts(st, st)
    BY DEF SameAttempts
  <2> QED BY <1>1, <1>4, <2>1
<1>6. \A e \in 1..k : e \notin T => seqs[e] = <<>>
  BY <1>1
<1>7. seqs \in Seq(Seq(E))
  <2>1. <<>> \in Seq(E)
    OBVIOUS
  <2>2. \A e \in 1..k : seqs[e] \in Seq(E)
    BY <1>5, <1>6, <2>1
  <2>3. seqs \in [1..k -> Seq(E)]
    BY <1>1, <2>2
  <2> QED BY <1>1, <2>3
<1>8. ClosesAll(st, After(st, FlattenSeq(seqs)), T, status)
  <2>1. Len(seqs) = k
    BY <1>1, <1>7
  <2>2. \A e \in T : \A q \in State :
          /\ Len(q.effects) = k /\ q.effects[e] = st.effects[e] /\ SameAttempts(st, q)
          /\ q.nodeStates[CellOf(st, e)] = st.nodeStates[CellOf(st, e)]
          => Closes(q, After(q, seqs[e]), e, status, "cancelled")
    BY <1>4
  <2> QED BY <1>1, <1>2, <1>6, <1>7, <2>1, <2>2, ClosingEach
<1> QED BY <1>1, <1>2, <1>7, <1>8

\* The acknowledged cancellation closes its targets one by one (planReceipt).
LEMMA TargetsClose ==
  ASSUME NEW st \in State, NEW T \in SUBSET (1..Len(st.effects)),
         \A x \in T : st.effects[x].attempt <= CurrentAttempt(st, st.effects[x].node),
         \A x, y \in T : x # y => CellOf(st, x) # CellOf(st, y)
  PROVE  LET seqs == [e \in 1..Len(st.effects) |->
                        IF e \in T THEN <<Applied(e, "cancelled", None)>> \o ReceiptMoves(st, e, "cancelled")
                        ELSE <<>>]
         IN /\ seqs \in Seq(Seq(Event(Len(st.effects))))
            /\ ClosesAll(st, After(st, FlattenSeq(seqs)), T, "cancelled")
<1>1. PICK path : path = [x \in T |-> ReceiptPath(st.nodeStates[CellOf(st, x)], "cancelled")]
  OBVIOUS
<1>2. PICK seqs : seqs = [e \in 1..Len(st.effects) |->
                            IF e \in T THEN <<Applied(e, "cancelled", None)>> \o ReceiptMoves(st, e, "cancelled")
                            ELSE <<>>]
  OBVIOUS
<1>3. \A x \in T : LeadsTo(path[x], st.nodeStates[CellOf(st, x)], "cancelled")
  <2> TAKE x \in T
  <2>1. CellOf(st, x) \in Nodes \X Attempts
    <3>1. st.effects[x] \in Effect
      BY DEF State, RuntimeState
    <3> QED BY <3>1 DEF Effect, CellOf
  <2>2. PICK before \in NodeStates \cup {None} : before = st.nodeStates[CellOf(st, x)]
    BY <2>1 DEF State, RuntimeState
  <2>3. "cancelled" \in Statuses /\ ReceiptEnd(before, "cancelled") = "cancelled"
    BY DEF Statuses, ReceiptEnd
  <2>4. path[x] = ReceiptPath(before, "cancelled")
    BY <1>1, <2>2
  <2> QED BY <2>2, <2>3, <2>4, ReceiptPathParts
<1>4. \A e \in T : ReceiptMoves(st, e, "cancelled") = Moves(st.effects[e].node, st.effects[e].attempt, path[e])
  BY <1>1 DEF ReceiptMoves, CellOf
<1>5. seqs = [e \in 1..Len(st.effects) |->
                IF e \in T
                THEN <<Applied(e, "cancelled", None)>> \o Moves(st.effects[e].node, st.effects[e].attempt, path[e])
                ELSE <<>>]
  BY <1>2, <1>4
<1>6. "cancelled" \in Statuses
  BY DEF Statuses
<1>7. seqs \in Seq(Seq(Event(Len(st.effects)))) /\ ClosesAll(st, After(st, FlattenSeq(seqs)), T, "cancelled")
  <2>1. PICK status \in Statuses : status = "cancelled"
    BY <1>6
  <2>2. seqs = [e \in 1..Len(st.effects) |->
                  IF e \in T
                  THEN <<Applied(e, status, None)>> \o Moves(st.effects[e].node, st.effects[e].attempt, path[e])
                  ELSE <<>>]
    BY <1>5, <2>1
  <2>3. seqs \in Seq(Seq(Event(Len(st.effects)))) /\ ClosesAll(st, After(st, FlattenSeq(seqs)), T, status)
    BY <1>3, <2>2, PathsClose
  <2> QED BY <2>1, <2>3
<1> QED BY <1>2, <1>7

\* The effect answered last is one of them all.
LEMMA AckDone ==
  ASSUME NEW st \in State, NEW c \in 1..Len(st.effects), NEW row \in UsageRows \cup {None},
         NEW T, T = st.effects[c].targets, T \subseteq 1..Len(st.effects), c \notin T,
         \A x \in T : st.effects[x].attempt <= CurrentAttempt(st, st.effects[x].node),
         \A x, y \in T : x # y => CellOf(st, x) # CellOf(st, y)
  PROVE  LET batch == <<Applied(c, "cancelled", row)>> \o Acknowledged(st, T)
         IN batch \in Seq(Event(Len(st.effects))) /\ Acked(st, After(st, batch), c)
<1>1. PICK k \in Nat : k = Len(st.effects)
  BY DEF State, RuntimeState
<1>2. PICK E : E = Event(k)
  OBVIOUS
<1>3. PICK mid : mid = Reduce(st, Applied(c, "cancelled", row))
  OBVIOUS
<1>4. Answers(st, mid, c, "cancelled") /\ Applied(c, "cancelled", row) \in E
  <2>1. "cancelled" \in Statuses /\ c <= k
    BY <1>1 DEF Statuses
  <2> QED BY <1>1, <1>2, <1>3, <2>1, AppliedAnswers
<1>5. /\ mid \in State /\ Len(mid.effects) = k /\ SameAttempts(st, mid)
      /\ \A x \in 1..k : mid.effects[x] = IF x = c THEN Answered(st.effects[x], "cancelled") ELSE st.effects[x]
  <2>1. st.effects \in Seq(Effect) /\ mid.effects = [st.effects EXCEPT ![c] = Answered(st.effects[c], "cancelled")]
    BY <1>4 DEF State, RuntimeState, Answers
  <2>2. Len(mid.effects) = k /\ \A x \in 1..k : mid.effects[x] = IF x = c THEN Answered(st.effects[x], "cancelled") ELSE st.effects[x]
    BY <1>1, <2>1
  <2> QED BY <1>4, <2>2 DEF Answers, SameAttempts, CurrentAttempt
<1>6. \A x \in T : x \in 1..k /\ mid.effects[x] = st.effects[x] /\ CellOf(mid, x) = CellOf(st, x)
  BY <1>1, <1>5 DEF CellOf
<1>7. PICK seqs : seqs = [e \in 1..k |-> IF e \in T THEN <<Applied(e, "cancelled", None)>> \o ReceiptMoves(st, e, "cancelled")
                                         ELSE <<>>]
  OBVIOUS
<1>8. PICK closed : closed = After(mid, FlattenSeq(seqs))
  OBVIOUS
<1>9. seqs \in Seq(Seq(E)) /\ ClosesAll(mid, closed, T, "cancelled")
  <2>1. \A e \in T : ReceiptMoves(mid, e, "cancelled") = ReceiptMoves(st, e, "cancelled")
    BY <1>4, <1>6 DEF ReceiptMoves, Answers
  <2>2. seqs = [e \in 1..Len(mid.effects) |->
                  IF e \in T THEN <<Applied(e, "cancelled", None)>> \o ReceiptMoves(mid, e, "cancelled") ELSE <<>>]
    BY <1>5, <1>7, <2>1
  <2>3. \A x \in T : mid.effects[x].attempt <= CurrentAttempt(mid, mid.effects[x].node)
    <3> SUFFICES ASSUME NEW x \in T PROVE mid.effects[x].attempt <= CurrentAttempt(mid, mid.effects[x].node)
      OBVIOUS
    <3>1. PICK f \in Effect : f = st.effects[x]
      BY DEF State, RuntimeState
    <3>2. f.node \in Nodes
      BY DEF Effect
    <3>3. mid.effects[x] = f /\ CurrentAttempt(mid, f.node) = CurrentAttempt(st, f.node)
      BY <1>5, <1>6, <3>1, <3>2 DEF SameAttempts
    <3> QED BY <3>1, <3>3
  <2>4. \A x, y \in T : x # y => CellOf(mid, x) # CellOf(mid, y)
    BY <1>6
  <2>5. T \in SUBSET (1..Len(mid.effects))
    BY <1>1, <1>5
  <2> QED BY <1>2, <1>5, <1>8, <2>2, <2>3, <2>4, <2>5, TargetsClose
<1>10. PICK next : next = Reduce(closed, Mode("cancelled"))
  OBVIOUS
<1>11. next \in State /\ next = [closed EXCEPT !.dispatchMode = "cancelled"] /\ Mode("cancelled") \in E /\ closed \in State
  <2>1. closed \in State
    BY <1>9 DEF ClosesAll
  <2> QED BY <1>2, <1>10, <2>1, ModeSets
<1>12. Acknowledged(st, T) = FlattenSeq(seqs) \o <<Mode("cancelled")>>
  <2>1. EffectsOf(st) = 1..k
    BY <1>1 DEF EffectsOf, State, RuntimeState
  <2>2. PICK ids : ids = [i \in EffectsOf(st) |-> i]
    OBVIOUS
  <2>3. DOMAIN ids = 1..k /\ \A e \in 1..k : ids[e] = e
    BY <2>1, <2>2
  <2>4. seqs = [i \in DOMAIN ids |-> IF ids[i] \in T THEN <<Applied(ids[i], "cancelled", None)>> \o ReceiptMoves(st, ids[i], "cancelled")
                                     ELSE <<>>]
    BY <1>7, <2>3
  <2>5. EventsFor(LAMBDA e : IF e \in T THEN <<Applied(e, "cancelled", None)>> \o ReceiptMoves(st, e, "cancelled") ELSE <<>>, ids)
          = FlattenSeq(seqs)
    BY <2>4 DEF EventsFor
  <2> QED BY <2>2, <2>5 DEF Acknowledged
<1>13. PICK one \in Seq(E), joined \in Seq(E), last \in Seq(E) :
         one = <<Applied(c, "cancelled", row)>> /\ joined = FlattenSeq(seqs) /\ last = <<Mode("cancelled")>>
  <2>1. PICK a \in E, b \in E : a = Applied(c, "cancelled", row) /\ b = Mode("cancelled")
    BY <1>4, <1>11
  <2>2. FlattenSeq(seqs) \in Seq(E)
    BY <1>9, FlattenHolds
  <2>3. <<a>> \in Seq(E) /\ <<b>> \in Seq(E)
    OBVIOUS
  <2> QED BY <2>1, <2>2, <2>3
<1>14. PICK rest \in Seq(E) : rest = joined \o last /\ one \o rest \in Seq(E)
  <2>1. joined \o last \in Seq(E)
    BY ConcatProperties
  <2> QED BY <2>1, ConcatProperties
<1>15. After(st, one \o rest) = next
  <2>1. After(st, one \o rest) = After(After(st, one), rest)
    BY AfterConcat
  <2>2. After(st, one) = mid
    BY <1>3, <1>13, AfterFew
  <2>3. After(mid, joined \o last) = After(After(mid, joined), last)
    BY AfterConcat
  <2>4. After(closed, last) = next
    BY <1>10, <1>13, AfterFew
  <2> QED BY <1>8, <1>13, <1>14, <2>1, <2>2, <2>3, <2>4
<1>16. Acked(st, next, c)
  <2>1. closed \in RuntimeState
    BY <1>11 DEF State
  <2>2. /\ next.dispatchMode = "cancelled" /\ next.effects = closed.effects /\ next.nodeStates = closed.nodeStates
        /\ next.attempts = closed.attempts /\ next.epoch = closed.epoch /\ next.fault = closed.fault
    BY <1>11, <2>1 DEF RuntimeState
  <2>3. next.epoch = st.epoch /\ next.fault = st.fault /\ SameAttempts(st, next)
    BY <1>4, <1>5, <1>9, <2>2 DEF ClosesAll, Answers, SameControl, SameAttempts, CurrentAttempt
  <2>4. \A e \in 1..k : next.effects[e] = IF e = c \/ e \in T THEN Answered(st.effects[e], "cancelled") ELSE st.effects[e]
    <3>1. \A e \in 1..k : closed.effects[e] = IF e \in T THEN Answered(mid.effects[e], "cancelled") ELSE mid.effects[e]
      BY <1>5, <1>9 DEF ClosesAll
    <3> QED BY <1>5, <1>6, <2>2, <3>1
  <2>5. \A cell \in Nodes \X Attempts :
          next.nodeStates[cell] = IF \E e \in T : CellOf(st, e) = cell THEN "cancelled" ELSE st.nodeStates[cell]
    <3> TAKE cell \in Nodes \X Attempts
    <3>1. closed.nodeStates[cell] = IF \E e \in T : CellOf(mid, e) = cell THEN "cancelled" ELSE mid.nodeStates[cell]
      BY <1>9 DEF ClosesAll
    <3>2. mid.nodeStates = st.nodeStates
      BY <1>4 DEF Answers
    <3> QED BY <1>6, <2>2, <3>1, <3>2
  <2>6. Len(next.effects) = k
    BY <1>5, <1>9, <2>2 DEF ClosesAll
  <2> QED BY <1>1, <1>11, <2>2, <2>3, <2>4, <2>5, <2>6 DEF Acked
<1> QED BY <1>1, <1>2, <1>12, <1>13, <1>14, <1>15, <1>16

\* A receipt is archived, noted with the moves of its attempt, or acknowledges a cancellation.
ReceiptDone(st, next, e, status) ==
  LET f == st.effects[e]
      before == st.nodeStates[CellOf(st, e)]
  IN \/ next = st
     \/ /\ ~Stale(st, e) /\ (f.kind = "task" \/ f.entry = "resolved" \/ status # "cancelled")
        /\ Closes(st, next, e, status,
                  IF f.kind = "task" /\ f.entry # "resolved" THEN ReceiptEnd(before, status) ELSE before)
     \/ ~Stale(st, e) /\ f.kind # "task" /\ f.entry # "resolved" /\ status = "cancelled" /\ Acked(st, next, e)

\* What a receipt does (planReceipt).
LEMMA ReceiptPlanned ==
  ASSUME NEW st, Sound(st), NEW e \in EffectsOf(st), NEW status \in Statuses, NEW row \in UsageRows \cup {None}
  PROVE  LET batch == ReceiptBatch(st, e, status, row)
         IN batch \in Seq(Event(Len(st.effects))) /\ ReceiptDone(st, After(st, batch), e, status)
<1>1. st \in State /\ EffectsOf(st) = 1..Len(st.effects) /\ Len(st.effects) \in Nat
  BY DEF Sound, EffectsOf, State, RuntimeState
<1>2. PICK k \in Nat : k = Len(st.effects) /\ e \in 1..k /\ e <= k
  BY <1>1
<1>3. PICK f \in Effect : f = st.effects[e] /\ f.node \in Nodes /\ f.attempt \in Attempts
  <2>1. st.effects[e] \in Effect
    BY <1>1 DEF State, RuntimeState
  <2> QED BY <2>1 DEF Effect
<1>4. PICK batch : batch = ReceiptBatch(st, e, status, row)
  OBVIOUS
<1>5. PICK before \in NodeStates \cup {None} : before = st.nodeStates[CellOf(st, e)] /\ before = st.nodeStates[<<f.node, f.attempt>>]
  BY <1>1, <1>3 DEF State, RuntimeState, CellOf
<1>6. CASE Stale(st, e)
  <2>1. batch = <<>>
    BY <1>4, <1>6 DEF ReceiptBatch
  <2>2. After(st, <<>>) = st /\ <<>> \in Seq(Event(k))
    BY AfterFew
  <2> QED BY <1>2, <1>4, <2>1, <2>2 DEF ReceiptDone
<1>7. CASE ~Stale(st, e) /\ f.kind = "task" /\ f.entry # "resolved"
  <2>1. PICK path : path = ReceiptPath(before, status)
    OBVIOUS
  <2>2. batch = <<Applied(e, status, row)>> \o Moves(st.effects[e].node, st.effects[e].attempt, path)
    BY <1>3, <1>4, <1>5, <1>7, <2>1 DEF ReceiptBatch, ReceiptMoves
  <2>3. LeadsTo(path, st.nodeStates[CellOf(st, e)], ReceiptEnd(before, status))
    BY <1>5, <2>1, ReceiptPathParts
  <2>4. st.effects[e].attempt <= CurrentAttempt(st, st.effects[e].node)
    BY <1>3, <1>7 DEF Sound, EntriesFit, TasksIn
  <2>5. batch \in Seq(Event(k)) /\ Closes(st, After(st, batch), e, status, ReceiptEnd(before, status))
    BY <1>1, <1>2, <2>2, <2>3, <2>4, ReceiptCloses
  <2> QED BY <1>2, <1>3, <1>4, <1>5, <1>7, <2>5 DEF ReceiptDone
<1>8. CASE ~Stale(st, e) /\ (f.entry = "resolved" \/ (f.kind # "task" /\ status # "cancelled"))
  <2>1. PICK ev : ev = Applied(e, status, row)
    OBVIOUS
  <2>2. batch = <<ev>> \o <<>>
    BY <1>3, <1>4, <1>8, <2>1 DEF ReceiptBatch
  <2>3. Answers(st, Reduce(st, ev), e, status) /\ ev \in Event(k)
    BY <1>1, <1>2, <2>1, AppliedAnswers
  <2>4. <<ev>> \in Seq(Event(k)) /\ <<ev>> \o <<>> = <<ev>>
    <3>1. PICK ev2 \in Event(k) : ev2 = ev
      BY <2>3
    <3>2. <<ev2>> \in Seq(Event(k))
      OBVIOUS
    <3> HIDE DEF Event
    <3> QED BY <3>1, <3>2, ConcatEmptySeq
  <2>5. After(st, batch) = Reduce(st, ev)
    BY <2>2, <2>4, AfterFew
  <2>6. Closes(st, After(st, batch), e, status, before)
    BY <1>1, <1>5, <2>3, <2>5, AnswersCloses
  <2> QED BY <1>2, <1>3, <1>4, <1>5, <1>8, <2>2, <2>4, <2>6 DEF ReceiptDone
<1>9. CASE ~Stale(st, e) /\ f.kind # "task" /\ f.entry # "resolved" /\ status = "cancelled"
  <2>1. PICK T : T = st.effects[e].targets
    OBVIOUS
  <2>2. batch = <<Applied(e, "cancelled", row)>> \o Acknowledged(st, T)
    BY <1>3, <1>4, <1>9, <2>1 DEF ReceiptBatch
  <2>3. T \subseteq TasksIn(st, EffectsOf(st)) /\ \A x, y \in T : x # y => CellOf(st, x) # CellOf(st, y)
    BY <1>3, <1>9, <2>1 DEF Sound, StopsFit, TasksIn
  <2>4. T \subseteq 1..Len(st.effects) /\ e \notin T
    BY <1>1, <1>3, <1>9, <2>3 DEF TasksIn
  <2>5. \A x \in T : st.effects[x].attempt <= CurrentAttempt(st, st.effects[x].node)
    BY <2>3 DEF Sound, EntriesFit
  <2>6. batch \in Seq(Event(k)) /\ Acked(st, After(st, batch), e)
    BY <1>1, <1>2, <2>1, <2>2, <2>3, <2>4, <2>5, AckDone
  <2> QED BY <1>2, <1>3, <1>4, <1>9, <2>6 DEF ReceiptDone
<1>10. \/ Stale(st, e)
       \/ ~Stale(st, e) /\ f.kind = "task" /\ f.entry # "resolved"
       \/ ~Stale(st, e) /\ (f.entry = "resolved" \/ (f.kind # "task" /\ status # "cancelled"))
       \/ ~Stale(st, e) /\ f.kind # "task" /\ f.entry # "resolved" /\ status = "cancelled"
  OBVIOUS
<1> QED BY <1>6, <1>7, <1>8, <1>9, <1>10

-----------------------------------------------------------------------------
(* What a cancellation does.                                                   *)

\* The unsent effects are withdrawn one by one (cancelSession).
LEMMA UnusedClose ==
  ASSUME NEW st, Sound(st), NEW base \in State, base.effects = st.effects, base.nodeStates = st.nodeStates,
         SameAttempts(st, base)
  PROVE  LET seqs == [e \in 1..Len(st.effects) |->
                        IF e \in Unused(st)
                        THEN LET f == st.effects[e]
                             IN <<Applied(e, "not-executed", None),
                                  Move(f.node, f.attempt, st.nodeStates[<<f.node, f.attempt>>], "cancelled")>>
                        ELSE <<>>]
         IN /\ seqs \in Seq(Seq(Event(Len(st.effects))))
            /\ ClosesAll(base, After(base, FlattenSeq(seqs)), Unused(st), "not-executed")
<1>1. PICK T : T = Unused(st)
  OBVIOUS
<1>2. /\ st \in State /\ T \subseteq 1..Len(st.effects) /\ T \subseteq TasksIn(st, EffectsOf(st))
      /\ T \subseteq TasksIn(st, Unresolved(st))
  BY <1>1 DEF Sound, State, RuntimeState, Unused, TasksIn, Unresolved, EffectsOf
<1>3. PICK path : path = [x \in T |-> <<st.nodeStates[CellOf(st, x)], "cancelled">>]
  OBVIOUS
<1>4. PICK seqs : seqs = [e \in 1..Len(st.effects) |->
                            IF e \in T
                            THEN LET f == st.effects[e]
                                 IN <<Applied(e, "not-executed", None),
                                      Move(f.node, f.attempt, st.nodeStates[<<f.node, f.attempt>>], "cancelled")>>
                            ELSE <<>>]
  OBVIOUS
<1>5. \A x \in T : LeadsTo(path[x], st.nodeStates[CellOf(st, x)], "cancelled")
  <2> TAKE x \in T
  <2>1. CellOf(st, x) \in Nodes \X Attempts
    <3>1. st.effects[x] \in Effect
      BY <1>2 DEF State, RuntimeState
    <3> QED BY <3>1 DEF Effect, CellOf
  <2>2. PICK before \in NodeStates \cup {None}, last \in NodeStates \cup {None} :
          before = st.nodeStates[CellOf(st, x)] /\ last = "cancelled"
    BY <1>2, <2>1 DEF State, RuntimeState, NodeStates
  <2>3. path[x] = <<before, last>>
    BY <1>3, <2>2
  <2> QED BY <2>2, <2>3, Tuples
<1>6. \A x \in T : st.effects[x].attempt <= CurrentAttempt(base, st.effects[x].node)
  <2> TAKE x \in T
  <2>1. st.effects[x].attempt <= CurrentAttempt(st, st.effects[x].node)
    BY <1>2 DEF Sound, EntriesFit
  <2>2. st.effects[x].node \in Nodes
    <3>1. st.effects[x] \in Effect
      BY <1>2 DEF State, RuntimeState
    <3> QED BY <3>1 DEF Effect
  <2> QED BY <2>1, <2>2 DEF SameAttempts
<1>7. \A x, y \in T : x # y => CellOf(st, x) # CellOf(st, y)
  BY <1>2 DEF Sound, ClaimsFit
<1>8. PICK status \in Statuses : status = "not-executed"
  BY DEF Statuses
<1>9. seqs = [e \in 1..Len(st.effects) |->
                IF e \in T
                THEN <<Applied(e, status, None)>> \o Moves(st.effects[e].node, st.effects[e].attempt, path[e])
                ELSE <<>>]
  <2>1. ASSUME NEW e \in T
        PROVE  <<Applied(e, "not-executed", None),
                 Move(st.effects[e].node, st.effects[e].attempt, st.nodeStates[CellOf(st, e)], "cancelled")>>
               = <<Applied(e, status, None)>> \o Moves(st.effects[e].node, st.effects[e].attempt, path[e])
    <3>1. PICK ev : ev = Applied(e, status, None)
      OBVIOUS
    <3>2. PICK mv : mv = Move(st.effects[e].node, st.effects[e].attempt, st.nodeStates[CellOf(st, e)], "cancelled")
      OBVIOUS
    <3>3. Moves(st.effects[e].node, st.effects[e].attempt, path[e]) = <<mv>>
      BY <1>3, <3>2, OneMove
    <3>4. <<ev>> \o <<mv>> = <<ev, mv>>
      <4>1. PICK S : ev \in S /\ mv \in S
        <5>1. ev \in {ev, mv} /\ mv \in {ev, mv}
          OBVIOUS
        <5> QED BY <5>1
      <4>2. PICK a \in Seq(S), b \in Seq(S), c \in Seq(S) : a = <<ev>> /\ b = <<mv>> /\ c = <<ev, mv>>
        <5>1. PICK x \in S, y \in S : x = ev /\ y = mv
          BY <4>1
        <5>2. <<x>> \in Seq(S) /\ <<y>> \in Seq(S) /\ <<x, y>> \in Seq(S)
          OBVIOUS
        <5> QED BY <5>1, <5>2
      <4>3. Len(c) = 2 /\ c[1] = ev /\ c[2] = mv /\ Len(a \o b) = 2 /\ (a \o b)[1] = ev /\ (a \o b)[2] = mv
            /\ a \o b \in Seq(S)
        BY <4>2
      <4>4. \A i \in 1..2 : i = 1 \/ i = 2
        OBVIOUS
      <4>5. \A i \in 1..Len(c) : (a \o b)[i] = c[i]
        BY <4>3, <4>4
      <4>6. a \o b = c
        BY <4>3, <4>5, SeqEqual
      <4> QED BY <4>2, <4>6
    <3> QED BY <1>8, <3>1, <3>2, <3>3, <3>4
  <2> QED BY <1>4, <2>1 DEF CellOf
<1>10. seqs \in Seq(Seq(Event(Len(st.effects)))) /\ ClosesAll(base, After(base, FlattenSeq(seqs)), T, status)
  <2>1. \A x : CellOf(base, x) = CellOf(st, x)
    BY DEF CellOf
  <2>2. seqs = [e \in 1..Len(base.effects) |->
                  IF e \in T
                  THEN <<Applied(e, status, None)>> \o Moves(base.effects[e].node, base.effects[e].attempt, path[e])
                  ELSE <<>>]
    BY <1>9
  <2>3. T \in SUBSET (1..Len(base.effects)) /\ \A x \in T : base.effects[x].attempt <= CurrentAttempt(base, base.effects[x].node)
    BY <1>2, <1>6
  <2>4. \A x \in T : LeadsTo(path[x], base.nodeStates[CellOf(base, x)], "cancelled")
    BY <1>5, <2>1
  <2>5. \A x, y \in T : x # y => CellOf(base, x) # CellOf(base, y)
    BY <1>7, <2>1
  <2>6. seqs \in Seq(Seq(Event(Len(base.effects)))) /\ ClosesAll(base, After(base, FlattenSeq(seqs)), T, status)
    BY <2>2, <2>3, <2>4, <2>5, PathsClose
  <2> QED BY <2>6
<1> QED BY <1>1, <1>4, <1>8, <1>10

\* Where a cancellation leaves the current attempt of each node.
StoppedTo(st) ==
  [n \in Nodes |->
     LET now == NodeStateAt(st, n)
         active == \E e \in Active(st) : st.effects[e].node = n
     IN CASE now \in {None, "pending", "ready", "waiting"} -> "cancelled"
          [] now \in {"running", "verifying"} /\ ~active -> "cancelled"
          [] now \in {"running", "verifying", "leased"} /\ active -> "cancelling"
          [] OTHER -> IF \E e \in Unused(st) : st.effects[e].node = n THEN "cancelled" ELSE now]

\* An unsent effect has its node leased, and nothing else of the node is in flight.
LEMMA UnusedLeased ==
  ASSUME NEW st, Sound(st), NEW e \in Unused(st)
  PROVE  LET n == st.effects[e].node
         IN /\ n \in Nodes /\ st.effects[e].attempt = CurrentAttempt(st, n)
            /\ NodeStateAt(st, n) = "leased" /\ ~\E x \in Active(st) : st.effects[x].node = n
<1>1. e \in TasksIn(st, EffectsOf(st)) /\ e \in TasksIn(st, Unresolved(st)) /\ st.effects[e].entry = "intended"
  BY DEF Unused, TasksIn, Unresolved
<1>2. PICK f \in Effect : f = st.effects[e] /\ f.node \in Nodes
  <2>1. st.effects[e] \in Effect
    BY <1>1 DEF Sound, State, RuntimeState, TasksIn, EffectsOf
  <2> QED BY <2>1 DEF Effect
<1>3. f.attempt = CurrentAttempt(st, f.node) /\ st.nodeStates[CellOf(st, e)] = "leased"
  BY <1>1, <1>2 DEF Sound, EntriesFit, ClaimStates
<1>4. NodeStateAt(st, f.node) = "leased"
  BY <1>2, <1>3 DEF NodeStateAt, CellOf
<1>5. ASSUME NEW x \in Active(st), st.effects[x].node = f.node PROVE FALSE
  <2>1. x \in TasksIn(st, EffectsOf(st)) /\ x \in TasksIn(st, Unresolved(st)) /\ st.effects[x].entry # "intended"
        /\ st.effects[x].entry # "resolved"
    BY DEF Active, TasksIn, Unresolved
  <2>2. st.effects[x].attempt = CurrentAttempt(st, f.node)
    BY <1>5, <2>1 DEF Sound, EntriesFit
  <2>3. x # e /\ CellOf(st, x) = CellOf(st, e)
    BY <1>1, <1>2, <1>3, <1>5, <2>1, <2>2 DEF CellOf
  <2> QED BY <1>1, <2>1, <2>3 DEF Sound, ClaimsFit
<1> QED BY <1>2, <1>3, <1>4, <1>5

\* The states a cancellation moves a node through.
LEMMA StopPath ==
  ASSUME NEW st, Sound(st), NEW n \in Nodes
  PROVE  \E path : /\ StopNode(st, n) = Moves(n, CurrentAttempt(st, n), path)
                   /\ IF \E e \in Unused(st) : st.effects[e].node = n
                      THEN Len(path) = 1 /\ StoppedTo(st)[n] = "cancelled" /\ LeadsTo(path, "leased", "leased")
                      ELSE LeadsTo(path, NodeStateAt(st, n), StoppedTo(st)[n])
<1>1. PICK now \in NodeStates \cup {None} : now = NodeStateAt(st, n)
  BY CurrentTyped DEF Sound
<1>2. PICK active \in BOOLEAN : active <=> \E e \in Active(st) : st.effects[e].node = n
  OBVIOUS
<1>3. PICK unused \in BOOLEAN : unused <=> \E e \in Unused(st) : st.effects[e].node = n
  OBVIOUS
<1>4. unused => now = "leased" /\ ~active
  BY <1>1, <1>2, <1>3, UnusedLeased
<1>5. PICK path : path = CASE now \in {None, "pending", "ready", "waiting"} -> <<now, "cancelled">>
                [] now \in {"running", "verifying"} /\ ~active -> <<now, "cancelling", "cancelled">>
                [] now \in {"running", "verifying", "leased"} /\ active -> <<now, "cancelling">>
                [] OTHER -> <<now>>
  OBVIOUS
<1>6. StopNode(st, n) = Moves(n, CurrentAttempt(st, n), path)
  BY <1>1, <1>2, <1>5 DEF StopNode
<1>7. StoppedTo(st)[n] =
        CASE now \in {None, "pending", "ready", "waiting"} -> "cancelled"
          [] now \in {"running", "verifying"} /\ ~active -> "cancelled"
          [] now \in {"running", "verifying", "leased"} /\ active -> "cancelling"
          [] OTHER -> IF unused THEN "cancelled" ELSE now
  BY <1>1, <1>2, <1>3 DEF StoppedTo
<1>8. {"cancelled", "cancelling"} \subseteq NodeStates \cup {None} /\ None \notin NodeStates
  BY SessionAssumption DEF NodeStates
<1>9. CASE now \in {None, "pending", "ready", "waiting"}
  <2>1. path = <<now, "cancelled">> /\ StoppedTo(st)[n] = "cancelled" /\ ~unused
    BY <1>4, <1>5, <1>7, <1>8, <1>9 DEF NodeStates
  <2> QED BY <1>1, <1>3, <1>6, <1>8, <2>1, Tuples
<1>10. CASE now \in {"running", "verifying"} /\ ~active
  <2>1. path = <<now, "cancelling", "cancelled">> /\ StoppedTo(st)[n] = "cancelled" /\ ~unused
    BY <1>4, <1>5, <1>7, <1>8, <1>10 DEF NodeStates
  <2> QED BY <1>1, <1>3, <1>6, <1>8, <2>1, Tuples
<1>11. CASE now \in {"running", "verifying", "leased"} /\ active
  <2>1. path = <<now, "cancelling">> /\ StoppedTo(st)[n] = "cancelling" /\ ~unused
    BY <1>4, <1>5, <1>7, <1>8, <1>11 DEF NodeStates
  <2> QED BY <1>1, <1>3, <1>6, <1>8, <2>1, Tuples
<1>12. CASE /\ now \notin {None, "pending", "ready", "waiting"}
            /\ ~(now \in {"running", "verifying"} /\ ~active)
            /\ ~(now \in {"running", "verifying", "leased"} /\ active)
  <2>1. path = <<now>> /\ StoppedTo(st)[n] = IF unused THEN "cancelled" ELSE now
    BY <1>5, <1>7, <1>12
  <2>2. LeadsTo(path, now, now) /\ Len(path) = 1
    BY <2>1, Tuples
  <2> QED BY <1>1, <1>3, <1>4, <1>6, <2>1, <2>2
<1> QED BY <1>9, <1>10, <1>11, <1>12

\* With the unsent effects withdrawn each node is moved from where it is (cancelSession).
LEMMA StopLands ==
  ASSUME NEW st, Sound(st), NEW base \in State, SameAttempts(st, base),
         NEW mid, ClosesAll(base, mid, Unused(st), "not-executed"), base.effects = st.effects,
         base.nodeStates = st.nodeStates
  PROVE  LET seqs == [i \in 1..Len(NodeOrder) |-> StopNode(st, NodeOrder[i])]
         IN (\A k : seqs \in Seq(Seq(Event(k)))) /\ EachLands(mid, seqs, StoppedTo(st))
<1> DEFINE seqs == [i \in 1..Len(NodeOrder) |-> StopNode(st, NodeOrder[i])]
<1>1. mid \in State /\ SameAttempts(st, mid) /\ st \in State
  BY DEF ClosesAll, SameAttempts, Sound
<1>2. ASSUME NEW n \in Nodes, NEW a, a = CurrentAttempt(mid, n)
      PROVE  /\ \A k : StopNode(st, n) \in Seq(Event(k))
             /\ \/ StopNode(st, n) = <<>> /\ StoppedTo(st)[n] = mid.nodeStates[<<n, a>>]
                \/ \A q \in State :
                     SameAttempts(mid, q) /\ q.nodeStates[<<n, a>>] = mid.nodeStates[<<n, a>>]
                     => Lands(q, After(q, StopNode(st, n)), n, a, StoppedTo(st)[n])
  <2>1. a \in Attempts /\ a = CurrentAttempt(st, n)
    BY <1>1, <1>2, CurrentTyped DEF SameAttempts
  <2>2. PICK path : /\ StopNode(st, n) = Moves(n, a, path)
                    /\ IF \E e \in Unused(st) : st.effects[e].node = n
                       THEN Len(path) = 1 /\ StoppedTo(st)[n] = "cancelled" /\ LeadsTo(path, "leased", "leased")
                       ELSE LeadsTo(path, NodeStateAt(st, n), StoppedTo(st)[n])
    BY <2>1, StopPath
  <2>3. mid.nodeStates[<<n, a>>] =
          IF \E e \in Unused(st) : CellOf(base, e) = <<n, a>> THEN "cancelled" ELSE NodeStateAt(st, n)
    BY <2>1 DEF ClosesAll, NodeStateAt
  <2>4. (\E e \in Unused(st) : CellOf(base, e) = <<n, a>>) <=> \E e \in Unused(st) : st.effects[e].node = n
    BY <2>1, UnusedLeased DEF CellOf
  <2>5. CASE \E e \in Unused(st) : st.effects[e].node = n
    <3>1. Moves(n, a, path) = <<>>
      <4>1. Len(path) = 1 /\ 1..(1 - 1) = {}
        BY <2>2, <2>5
      <4>2. Moves(n, a, path) = [i \in {} |-> Move(n, a, path[i], path[i + 1])]
        BY <4>1 DEF Moves
      <4> QED BY <4>2
    <3>2. \A k : <<>> \in Seq(Event(k))
      OBVIOUS
    <3> QED BY <2>2, <2>3, <2>4, <2>5, <3>1, <3>2
  <2>6. CASE ~\E e \in Unused(st) : st.effects[e].node = n
    <3>1. LeadsTo(path, mid.nodeStates[<<n, a>>], StoppedTo(st)[n])
      BY <2>2, <2>3, <2>4, <2>6
    <3>2. PICK x : x = StoppedTo(st)[n]
      OBVIOUS
    <3>3. ASSUME NEW q \in State, SameAttempts(mid, q), q.nodeStates[<<n, a>>] = mid.nodeStates[<<n, a>>]
          PROVE  (\A k : Moves(n, a, path) \in Seq(Event(k))) /\ Lands(q, After(q, Moves(n, a, path)), n, a, x)
      <4>1. a <= CurrentAttempt(q, n)
        <5>1. CurrentAttempt(q, n) = a
          BY <1>2, <3>3 DEF SameAttempts
        <5>2. a \in Nat
          BY <2>1, SessionAssumption DEF Attempts
        <5> QED BY <5>1, <5>2
      <4>2. path \in Seq(NodeStates \cup {None}) /\ path # <<>> /\ q.nodeStates[<<n, a>>] = path[1] /\ path[Len(path)] = x
        BY <3>1, <3>2, <3>3 DEF LeadsTo
      <4>3. /\ \A k : Moves(n, a, path) \in Seq(Event(k))
            /\ Lands(q, After(q, Moves(n, a, path)), n, a, path[Len(path)])
        BY <2>1, <4>1, <4>2, PathLands
      <4> QED BY <4>2, <4>3
    <3>4. \A k : Moves(n, a, path) \in Seq(Event(k))
      <4>1. SameAttempts(mid, mid)
        BY DEF SameAttempts
      <4> QED BY <1>1, <3>3, <4>1
    <3> QED BY <2>2, <3>2, <3>3, <3>4
  <2> QED BY <2>5, <2>6
<1>3. /\ Len(NodeOrder) \in Nat /\ \A i \in 1..Len(NodeOrder) : NodeOrder[i] \in Nodes
  BY OrderedNodes
<1>4. ASSUME NEW k PROVE seqs \in Seq(Seq(Event(k)))
  <2>1. PICK T : T = Seq(Event(k))
    OBVIOUS
  <2>2. \A i \in 1..Len(NodeOrder) : StopNode(st, NodeOrder[i]) \in T
    BY <1>2, <1>3, <2>1
  <2>3. seqs \in [1..Len(NodeOrder) -> T]
    BY <2>2
  <2> HIDE DEF seqs
  <2> QED BY <1>3, <2>1, <2>3
<1>5. EachLands(mid, seqs, StoppedTo(st))
  <2> SUFFICES ASSUME NEW i \in 1..Len(NodeOrder), NEW n, n = NodeOrder[i], NEW a, a = CurrentAttempt(mid, n)
               PROVE  \/ seqs[i] = <<>> /\ StoppedTo(st)[n] = mid.nodeStates[<<n, a>>]
                      \/ \A q \in State :
                           SameAttempts(mid, q) /\ q.nodeStates[<<n, a>>] = mid.nodeStates[<<n, a>>]
                           => Lands(q, After(q, seqs[i]), n, a, StoppedTo(st)[n])
    BY DEF EachLands
  <2>1. n \in Nodes /\ seqs[i] = StopNode(st, n)
    BY <1>3
  <2> HIDE DEF seqs
  <2> QED BY <1>2, <2>1
<1> QED BY <1>4, <1>5

\* The cancellation of what is in flight is an effect of the session like any other.
LEMMA CancelEffectTyped ==
  ASSUME NEW st, Sound(st), Active(st) # {}
  PROVE  CancelEffect(st) \in Effect
<1>1. st \in State /\ st.effects \in Seq(Effect) /\ Len(st.effects) \in Nat /\ EffectsOf(st) = 1..Len(st.effects)
  BY DEF Sound, State, RuntimeState, EffectsOf
<1>2. Active(st) \subseteq 1..Len(st.effects)
  BY <1>1 DEF Active, TasksIn, Unresolved
<1>3. PICK A : A = Active(st)
  OBVIOUS
<1>4. \E m \in A : \A y \in A : m <= y
  <2> SUFFICES ASSUME ~\E m \in A : \A y \in A : m <= y PROVE FALSE
    OBVIOUS
  <2> DEFINE P == {i \in 0..Len(st.effects) : \A y \in A : i < y}
  <2>1. A \subseteq 1..Len(st.effects) /\ A # {}
    BY <1>2, <1>3
  <2>2. 0 \in P
    BY <1>1, <2>1
  <2>3. ASSUME NEW i \in 0..(Len(st.effects) - 1), i \in P PROVE i + 1 \in P
    <3>1. i + 1 \notin A
      <4>1. \A y \in A : i + 1 <= y
        BY <1>1, <2>1, <2>3
      <4> QED BY <4>1
    <3>2. \A y \in A : i + 1 < y
      <4> TAKE y \in A
      <4>1. i < y /\ y # i + 1 /\ y \in Nat
        BY <1>1, <2>1, <2>3, <3>1
      <4> QED BY <4>1
    <3> QED BY <1>1, <3>2
  <2>4. Len(st.effects) \in P
    <3>1. \A i \in 0..(Len(st.effects) - 1) : i \in P => i + 1 \in P
      BY <2>3
    <3> HIDE DEF P
    <3>2. \A i \in 0..Len(st.effects) : i \in P
      BY <1>1, <2>2, <3>1, Induction
    <3> QED BY <1>1, <3>2
  <2>5. PICK y \in A : y \in 1..Len(st.effects)
    BY <2>1
  <2>6. Len(st.effects) < y
    BY <2>4, <2>5
  <2> QED BY <1>1, <2>5, <2>6
<1>5. Min(A) \in A
  BY <1>4 DEF Min
<1>6. PICK m \in 1..Len(st.effects) : m = Min(Active(st))
  BY <1>2, <1>3, <1>5
<1>7. PICK n \in Nodes : n = st.effects[m].node
  <2>1. st.effects[m] \in Effect
    BY <1>1
  <2> QED BY <2>1 DEF Effect
<1>8. CurrentAttempt(st, n) \in Attempts /\ st.epoch \in 1..MaxEpoch
  BY <1>1, CurrentTyped DEF State, RuntimeState
<1>9. A \in SUBSET Effects
  BY <1>1, <1>2, <1>3, SessionAssumption DEF Sound, Effects
<1>10. CancelEffect(st) =
         [kind |-> "host.cancel", node |-> n, attempt |-> CurrentAttempt(st, n),
          epoch |-> st.epoch, leased |-> FALSE, targets |-> A, entry |-> "intended",
          status |-> None]
  BY <1>3, <1>6, <1>7 DEF CancelEffect
<1> QED BY <1>8, <1>9, <1>10 DEF Effect

\* An intention that is no task reserves nothing (reduce).
LEMMA IntendedStays ==
  ASSUME NEW st \in State, NEW f \in Effect, f.kind # "task"
  PROVE  LET next == Reduce(st, Intended(f))
         IN /\ next \in State /\ next = [st EXCEPT !.effects = Append(@, f)]
            /\ \A k : Intended(f) \in Event(k)
<1>1. PICK ev : ev = Intended(f)
  OBVIOUS
<1>2. ev.type = "effect.intended" /\ ev.effect = f
  BY <1>1 DEF Intended
<1>3. \A k : ev \in Event(k)
  BY <1>1 DEF Intended, Event
<1>4. Reduce(st, ev) = [st EXCEPT !.effects = Append(@, f)]
  BY <1>2, ReduceIntended
<1>5. Reduce(st, ev) \in State
  <2>1. Len(st.effects) \in Nat
    BY DEF State, RuntimeState
  <2> QED BY <1>3, <2>1, ReduceTyped DEF Extends
<1> QED BY <1>1, <1>3, <1>4, <1>5

\* next is the projection st after a cancellation.
StopDone(st, next) ==
  LET idle == Active(st) = {}
  IN /\ next \in State /\ next.epoch = st.epoch /\ next.fault = st.fault /\ SameAttempts(st, next)
     /\ next.dispatchMode = IF idle THEN "cancelled" ELSE "cancelling"
     /\ Len(next.effects) = Len(st.effects) + IF idle THEN 0 ELSE 1
     /\ \A e \in 1..Len(st.effects) :
          next.effects[e] = IF e \in Unused(st) THEN Answered(st.effects[e], "not-executed") ELSE st.effects[e]
     /\ ~idle => next.effects[Len(st.effects) + 1] = CancelEffect(st)
     /\ \A n \in Nodes, a \in Attempts :
          next.nodeStates[<<n, a>>] =
            IF a = CurrentAttempt(st, n) THEN StoppedTo(st)[n] ELSE st.nodeStates[<<n, a>>]

\* The last event of a cancellation confirms it or intends to ask the host.
LEMMA LastOfCancel ==
  ASSUME NEW st, Sound(st), NEW q \in State, q.dispatchMode = "cancelling"
  PROVE  LET last == IF Active(st) = {} THEN Mode("cancelled") ELSE Intended(CancelEffect(st))
             next == Reduce(q, last)
         IN /\ \A k : last \in Event(k)
            /\ next \in State /\ next.epoch = q.epoch /\ next.fault = q.fault /\ next.attempts = q.attempts
            /\ next.nodeStates = q.nodeStates
            /\ next.dispatchMode = IF Active(st) = {} THEN "cancelled" ELSE "cancelling"
            /\ next.effects = IF Active(st) = {} THEN q.effects ELSE Append(q.effects, CancelEffect(st))
<1>1. q \in RuntimeState
  BY DEF State
<1>2. CASE Active(st) = {}
  <2>1. PICK next : next = Reduce(q, Mode("cancelled"))
    OBVIOUS
  <2>2. (\A k : Mode("cancelled") \in Event(k)) /\ next = [q EXCEPT !.dispatchMode = "cancelled"] /\ next \in State
    BY <2>1, ModeSets
  <2>3. /\ next.epoch = q.epoch /\ next.fault = q.fault /\ next.attempts = q.attempts
        /\ next.nodeStates = q.nodeStates /\ next.effects = q.effects /\ next.dispatchMode = "cancelled"
    BY <1>1, <2>2 DEF RuntimeState
  <2> HIDE DEF Event
  <2> QED BY <1>2, <2>1, <2>2, <2>3
<1>3. CASE Active(st) # {}
  <2>a. CancelEffect(st).kind # "task"
    BY DEF CancelEffect
  <2>1. PICK f \in Effect : f = CancelEffect(st) /\ f.kind # "task"
    BY <1>3, <2>a, CancelEffectTyped
  <2>2. PICK next : next = Reduce(q, Intended(f))
    OBVIOUS
  <2>3. next \in State /\ next = [q EXCEPT !.effects = Append(@, f)] /\ \A k : Intended(f) \in Event(k)
    BY <2>1, <2>2, IntendedStays
  <2>4. /\ next.epoch = q.epoch /\ next.fault = q.fault /\ next.attempts = q.attempts
        /\ next.nodeStates = q.nodeStates /\ next.effects = Append(q.effects, f) /\ next.dispatchMode = "cancelling"
    BY <1>1, <2>3 DEF RuntimeState
  <2> HIDE DEF Event
  <2> QED BY <1>3, <2>1, <2>2, <2>3, <2>4
<1> QED BY <1>2, <1>3

\* What a cancellation does (cancelSession).
LEMMA CancelDone ==
  ASSUME NEW st, Sound(st)
  PROVE  CancelBatch(st) \in Seq(Event(Len(st.effects))) /\ StopDone(st, After(st, CancelBatch(st)))
<1>1. PICK k \in Nat : k = Len(st.effects) /\ EffectsOf(st) = 1..k
  BY DEF Sound, State, RuntimeState, EffectsOf
<1>2. PICK E : E = Event(k)
  OBVIOUS
<1>3. st \in State /\ st \in RuntimeState
  BY DEF Sound, State
<1>4. PICK base : base = Reduce(st, Mode("cancelling"))
  OBVIOUS
<1>5. base \in State /\ base = [st EXCEPT !.dispatchMode = "cancelling"] /\ Mode("cancelling") \in E
  BY <1>2, <1>3, <1>4, ModeSets
<1>6. /\ base.epoch = st.epoch /\ base.fault = st.fault /\ base.attempts = st.attempts /\ SameAttempts(st, base)
      /\ base.nodeStates = st.nodeStates /\ base.effects = st.effects /\ base.dispatchMode = "cancelling"
  BY <1>3, <1>5 DEF RuntimeState, SameAttempts, CurrentAttempt
<1>7. PICK U : U = Unused(st)
  OBVIOUS
<1>8. PICK unused : unused = [e \in 1..k |->
                                IF e \in U
                                THEN LET f == st.effects[e]
                                     IN <<Applied(e, "not-executed", None),
                                          Move(f.node, f.attempt, st.nodeStates[<<f.node, f.attempt>>], "cancelled")>>
                                ELSE <<>>]
  OBVIOUS
<1>9. PICK mid : mid = After(base, FlattenSeq(unused))
  OBVIOUS
<1>10. unused \in Seq(Seq(E)) /\ ClosesAll(base, mid, U, "not-executed")
  BY <1>1, <1>2, <1>5, <1>6, <1>7, <1>8, <1>9, UnusedClose
<1>11. mid \in State /\ Len(mid.effects) = k /\ SameAttempts(st, mid)
  BY <1>1, <1>6, <1>10 DEF ClosesAll, SameAttempts
<1>12. PICK stops : stops = [i \in 1..Len(NodeOrder) |-> StopNode(st, NodeOrder[i])]
  OBVIOUS
<1>13. PICK x : x = StoppedTo(st)
  OBVIOUS
<1>14. (\A j : stops \in Seq(Seq(Event(j)))) /\ EachLands(mid, stops, x)
  BY <1>5, <1>6, <1>7, <1>10, <1>12, <1>13, StopLands
<1>15. PICK stopped : stopped = After(mid, FlattenSeq(stops))
  OBVIOUS
<1>16. LandsAll(mid, stopped, Nodes, x)
  <2>1. stops \in Seq(Seq(E)) /\ Len(stops) = Len(NodeOrder)
    BY <1>2, <1>12, <1>14, OrderedNodes
  <2> QED BY <1>2, <1>11, <1>14, <1>15, <2>1, LandingEach
<1>17. stopped \in State /\ SameBut(mid, stopped) /\ SameAttempts(st, stopped) /\ stopped.dispatchMode = "cancelling"
  BY <1>6, <1>10, <1>11, <1>16 DEF LandsAll, ClosesAll, SameBut, SameControl, SameAttempts
<1>18. PICK event : event = IF Active(st) = {} THEN Mode("cancelled") ELSE Intended(CancelEffect(st))
  OBVIOUS
<1>19. PICK next : next = Reduce(stopped, event)
  OBVIOUS
<1>20. /\ event \in E
       /\ next \in State /\ next.epoch = stopped.epoch /\ next.fault = stopped.fault
       /\ next.attempts = stopped.attempts /\ next.nodeStates = stopped.nodeStates
       /\ next.dispatchMode = IF Active(st) = {} THEN "cancelled" ELSE "cancelling"
       /\ next.effects = IF Active(st) = {} THEN stopped.effects ELSE Append(stopped.effects, CancelEffect(st))
  BY <1>2, <1>17, <1>18, <1>19, LastOfCancel
<1>21. PICK p1 \in Seq(E), p2 \in Seq(E), p3 \in Seq(E), p4 \in Seq(E) :
         /\ p1 = <<Mode("cancelling")>> /\ p2 = FlattenSeq(unused) /\ p3 = FlattenSeq(stops) /\ p4 = <<event>>
  <2>1. PICK a \in E, b \in E : a = Mode("cancelling") /\ b = event
    BY <1>5, <1>20
  <2>2. <<a>> \in Seq(E) /\ <<b>> \in Seq(E)
    OBVIOUS
  <2>3. stops \in Seq(Seq(E))
    BY <1>2, <1>14
  <2>4. FlattenSeq(unused) \in Seq(E) /\ FlattenSeq(stops) \in Seq(E)
    BY <1>10, <2>3, FlattenHolds
  <2> QED BY <2>1, <2>2, <2>4
<1>22. CancelBatch(st) = ((p1 \o p2) \o p3) \o p4
  <2>1. WithdrawUnused(st) = p2
    <3>1. PICK ids : ids = [i \in EffectsOf(st) |-> i]
      OBVIOUS
    <3>2. DOMAIN ids = 1..k /\ \A e \in 1..k : ids[e] = e
      BY <1>1, <3>1
    <3>3. unused = [i \in DOMAIN ids |->
                      IF ids[i] \in U
                      THEN LET f == st.effects[ids[i]]
                           IN <<Applied(ids[i], "not-executed", None),
                                Move(f.node, f.attempt, st.nodeStates[<<f.node, f.attempt>>], "cancelled")>>
                      ELSE <<>>]
      BY <1>8, <3>2
    <3> QED BY <1>7, <1>21, <3>1, <3>3 DEF WithdrawUnused, EventsFor
  <2>2. EventsFor(LAMBDA n : StopNode(st, n), NodeOrder) = p3
    BY <1>12, <1>21, OrderedNodes DEF EventsFor
  <2> QED BY <1>18, <1>21, <2>1, <2>2 DEF CancelBatch
<1>23. PICK q2 \in Seq(E), q3 \in Seq(E) : q2 = p1 \o p2 /\ q3 = q2 \o p3 /\ q3 \o p4 \in Seq(E)
  <2>1. PICK q2 \in Seq(E) : q2 = p1 \o p2
    BY ConcatProperties
  <2>2. PICK q3 \in Seq(E) : q3 = q2 \o p3
    BY ConcatProperties
  <2> QED BY <2>1, <2>2, ConcatProperties
<1>24. After(st, q3 \o p4) = next
  <2>1. After(st, p1) = base
    BY <1>4, <1>21, AfterFew
  <2>2. After(st, q2) = mid
    <3>1. After(st, p1 \o p2) = After(After(st, p1), p2)
      BY AfterConcat
    <3> QED BY <1>9, <1>21, <1>23, <2>1, <3>1
  <2>3. After(st, q3) = stopped
    <3>1. After(st, q2 \o p3) = After(After(st, q2), p3)
      BY AfterConcat
    <3> QED BY <1>15, <1>21, <1>23, <2>2, <3>1
  <2>4. After(st, q3 \o p4) = After(After(st, q3), p4)
    BY AfterConcat
  <2>5. After(stopped, p4) = next
    BY <1>19, <1>21, AfterFew
  <2> QED BY <2>3, <2>4, <2>5
<1>25. StopDone(st, next)
  <2>1. /\ next.epoch = st.epoch /\ next.fault = st.fault
    BY <1>6, <1>10, <1>17, <1>20 DEF ClosesAll, SameBut, SameControl
  <2>2. SameAttempts(st, next)
    BY <1>17, <1>20 DEF SameAttempts, CurrentAttempt
  <2>3. /\ stopped.effects \in Seq(Effect) /\ Len(stopped.effects) = k
        /\ \A e \in 1..k : stopped.effects[e] = IF e \in U THEN Answered(st.effects[e], "not-executed") ELSE st.effects[e]
    BY <1>1, <1>6, <1>10, <1>17 DEF ClosesAll, SameBut, State, RuntimeState
  <2>4. /\ Len(next.effects) = k + IF Active(st) = {} THEN 0 ELSE 1
        /\ \A e \in 1..k : next.effects[e] = stopped.effects[e]
        /\ Active(st) # {} => next.effects[k + 1] = CancelEffect(st)
    <3>1. CASE Active(st) = {}
      BY <1>20, <2>3, <3>1
    <3>2. CASE Active(st) # {}
      <4>1. PICK f \in Effect : f = CancelEffect(st)
        BY <3>2, CancelEffectTyped
      <4>2. next.effects = Append(stopped.effects, f)
        BY <1>20, <3>2, <4>1
      <4>3. PICK g \in Seq(Effect) : g = stopped.effects /\ Len(g) = k
        BY <2>3
      <4>4. Len(Append(g, f)) = k + 1 /\ Append(g, f)[k + 1] = f /\ \A e \in 1..k : Append(g, f)[e] = g[e]
        BY <4>3
      <4> QED BY <3>2, <4>1, <4>2, <4>3, <4>4
    <3> QED BY <3>1, <3>2
  <2>5. ASSUME NEW n \in Nodes, NEW a \in Attempts
        PROVE  next.nodeStates[<<n, a>>] = IF a = CurrentAttempt(st, n) THEN x[n] ELSE st.nodeStates[<<n, a>>]
    <3>1. next.nodeStates[<<n, a>>] = IF a = CurrentAttempt(st, n) THEN x[n] ELSE mid.nodeStates[<<n, a>>]
      BY <1>11, <1>16, <1>20 DEF LandsAll, SameAttempts
    <3>2. mid.nodeStates[<<n, a>>] = IF \E e \in U : CellOf(st, e) = <<n, a>> THEN "cancelled" ELSE st.nodeStates[<<n, a>>]
      <4>1. PICK cell \in Nodes \X Attempts : cell = <<n, a>>
        OBVIOUS
      <4>2. mid.nodeStates[cell] = IF \E e \in U : CellOf(base, e) = cell THEN "cancelled" ELSE base.nodeStates[cell]
        BY <1>10 DEF ClosesAll
      <4>3. \A e : CellOf(base, e) = CellOf(st, e)
        BY <1>6 DEF CellOf
      <4> QED BY <1>6, <4>1, <4>2, <4>3
    <3>3. a # CurrentAttempt(st, n) => ~\E e \in U : CellOf(st, e) = <<n, a>>
      BY <1>7, UnusedLeased DEF CellOf
    <3> QED BY <3>1, <3>2, <3>3
  <2> QED BY <1>1, <1>7, <1>13, <1>20, <2>1, <2>2, <2>3, <2>4, <2>5 DEF StopDone
<1> QED BY <1>1, <1>2, <1>22, <1>23, <1>24, <1>25

-----------------------------------------------------------------------------
(* What a decision does.                                                       *)

\* A decision succeeds only on a completed execution, and repairs only what failed (decide).
LEMMA DecidedFits ==
  ASSUME graph \in Graphs, NEW n \in Nodes, NEW ok \in BOOLEAN, NEW outcome \in TaskOutcomes,
         NEW matched \in EdgesOf(n, RoutingEdges) \cup {None}, NEW d, d = Decided(n, ok, outcome, matched)
  PROVE  /\ d.state \in {"succeeded", "failed", "waiting", "unknown"} /\ (d.state = "succeeded" => ok)
         /\ d.enabled \in Nodes \cup {None} /\ d.repair \in BOOLEAN
         /\ d.repair => d.state = "failed" /\ d.enabled # None
<1>1. PICK x : x = Resolved(ok, outcome)
  OBVIOUS
<1>2. x \in {"succeeded", "failed", "waiting", "unknown"} /\ (x = "succeeded" => ok)
  BY <1>1 DEF Resolved, StateFromDecision, TaskOutcomes
<1>3. None \notin Nodes /\ None \notin Edge
  BY SessionAssumption
<1>4. matched # None => matched \in Edge
  <2>1. graph.edges \subseteq Edge
    BY SessionAssumption
  <2> QED BY <2>1 DEF EdgesOf
<1>5. matched # None => matched.to \in Nodes
  BY <1>4 DEF Edge
<1>6. CASE n \in graph.terminal
  <2>1. d = [state |-> x, enabled |-> None, repair |-> FALSE]
    BY <1>1, <1>6 DEF Decided
  <2> QED BY <1>2, <2>1
<1>7. CASE n \notin graph.terminal /\ matched # None
  <2>1. PICK y : y = IF matched.type = "route" THEN x ELSE "failed"
    OBVIOUS
  <2>2. PICK rep \in BOOLEAN : rep = (matched.type = "repair")
    OBVIOUS
  <2>3. PICK m \in Nodes : m = matched.to
    BY <1>5, <1>7
  <2>4. d = [state |-> y, enabled |-> m, repair |-> rep]
    <3>1. d = [state |-> IF matched.type = "route" THEN x ELSE "failed",
               enabled |-> matched.to, repair |-> matched.type = "repair"]
      BY <1>1, <1>7 DEF Decided
    <3> QED BY <2>1, <2>2, <2>3, <3>1
  <2>5. d.state = y /\ d.enabled = m /\ d.repair = rep
    BY <2>4
  <2>6. y \in {"succeeded", "failed", "waiting", "unknown"} /\ (y = "succeeded" => ok)
    BY <1>2, <2>1
  <2>7. rep => y = "failed"
    BY <2>1, <2>2
  <2> QED BY <1>3, <2>3, <2>5, <2>6, <2>7
<1>8. CASE n \notin graph.terminal /\ matched = None
  <2>1. d = [state |-> IF EdgesOf(n, RoutingEdges) # {} THEN "failed" ELSE x, enabled |-> None, repair |-> FALSE]
    BY <1>1, <1>8 DEF Decided
  <2> QED BY <1>2, <2>1
<1> QED BY <1>6, <1>7, <1>8

\* next is the projection st with node n decided to be x.
DecisionDone(st, next, n, x) ==
  LET a == CurrentAttempt(st, n)
  IN /\ next \in State /\ SameBut(st, next)
     /\ \/ SameAttempts(st, next) /\ next.nodeStates = [st.nodeStates EXCEPT ![<<n, a>>] = x]
        \/ \E m \in Nodes \ {n} :
             /\ NodeStateAt(st, m) \in {None, "waiting"} /\ SameAttempts(st, next)
             /\ next.nodeStates = [st.nodeStates EXCEPT ![<<n, a>>] = x, ![<<m, CurrentAttempt(st, m)>>] = "pending"]
        \/ \E m \in Nodes :
             LET b == CurrentAttempt(st, m) + 1
             IN /\ x = "failed" /\ b \in Attempts
                /\ m = n \/ NodeStateAt(st, m) \notin {"leased", "running", "verifying", "unknown", "cancelling"}
                /\ \A n2 \in Nodes : CurrentAttempt(next, n2) = IF n2 = m THEN b ELSE CurrentAttempt(st, n2)
                /\ next.nodeStates = [st.nodeStates EXCEPT ![<<n, a>>] = x, ![<<m, b>>] = "pending"]

\* The evaluated attempt is the current one; it is decided, then a node is enabled or repaired
\* (evaluateSession).
LEMMA DecisionPlanned ==
  ASSUME NEW st, Sound(st), NEW n \in Nodes, NEW a \in Attempts, st.nodeStates[<<n, a>>] = "verifying",
         NEW d, NEW x \in NodeStates, d.state = x, d.enabled \in Nodes \cup {None}, d.repair \in BOOLEAN,
         d.repair => Repairable(st, n, d.enabled) /\ x = "failed" /\ d.enabled # None,
         NEW batch, batch = Moves(n, a, <<"verifying", x>>) \o GraphAction(st, d)
  PROVE  /\ a = CurrentAttempt(st, n)
         /\ batch \in Seq(Event(Len(st.effects))) /\ DecisionDone(st, After(st, batch), n, x)
<1>1. st \in State /\ st.nodeStates \in [Nodes \X Attempts -> NodeStates \cup {None}] /\ Attempts \subseteq Nat
  BY SessionAssumption DEF Sound, State, RuntimeState, Attempts
<1>2. PICK E : E = Event(Len(st.effects))
  OBVIOUS
<1>3. /\ \A m \in Nodes : CurrentAttempt(st, m) \in Attempts /\ CurrentAttempt(st, m) \in Nat
      /\ None \notin Nodes /\ "verifying" # None
  BY <1>1, CurrentTyped, SessionAssumption DEF NodeStates
<1>4. a = CurrentAttempt(st, n)
  <2>1. ~(a < CurrentAttempt(st, n)) /\ ~(a > CurrentAttempt(st, n))
    BY <1>3 DEF Sound, AttemptsFit, AttemptFits
  <2>2. a \in Nat /\ CurrentAttempt(st, n) \in Nat
    BY <1>1, <1>3
  <2> QED BY <2>1, <2>2
<1>5. PICK path : path = <<"verifying", x>>
  OBVIOUS
<1>6. PICK mid : mid = After(st, Moves(n, a, path))
  OBVIOUS
<1>7. Moves(n, a, path) \in Seq(E) /\ Lands(st, mid, n, a, x)
  <2>1. "verifying" \in NodeStates \cup {None} /\ x \in NodeStates \cup {None}
    BY DEF NodeStates
  <2>2. LeadsTo(path, "verifying", x)
    BY <1>5, <2>1, Tuples
  <2>3. a <= CurrentAttempt(st, n)
    BY <1>3, <1>4
  <2>4. path \in Seq(NodeStates \cup {None}) /\ path # <<>> /\ st.nodeStates[<<n, a>>] = path[1] /\ path[Len(path)] = x
    BY <2>2 DEF LeadsTo
  <2>5. /\ \A k : Moves(n, a, path) \in Seq(Event(k))
        /\ Lands(st, After(st, Moves(n, a, path)), n, a, path[Len(path)])
    BY <1>1, <2>3, <2>4, PathLands
  <2> QED BY <1>2, <1>6, <2>4, <2>5
<1>8. PICK first \in Seq(E) : first = Moves(n, a, path)
  BY <1>7
<1>9. mid \in State /\ SameBut(st, mid) /\ SameAttempts(st, mid) /\ mid.nodeStates = [st.nodeStates EXCEPT ![<<n, a>>] = x]
  BY <1>7 DEF Lands
<1>10. PICK m : m = d.enabled /\ m \in Nodes \cup {None}
  OBVIOUS
<1>11. CASE GraphAction(st, d) = <<>>
  <2>1. batch = first
    BY <1>5, <1>8, <1>11, ConcatEmptySeq
  <2>2. After(st, batch) = mid
    BY <1>6, <1>8, <2>1
  <2>3. DecisionDone(st, mid, n, x)
    BY <1>4, <1>9 DEF DecisionDone
  <2> QED BY <1>2, <1>4, <2>1, <2>2, <2>3
<1>12. ASSUME NEW b \in Attempts, NEW now \in NodeStates \cup {None}, m \in Nodes, mid.nodeStates[<<m, b>>] \in {None, now},
              GraphAction(st, d) = <<Move(m, b, now, "pending")>>, NEW next, next = After(st, batch)
       PROVE  batch \in Seq(E) /\ Puts(mid, next, m, b, "pending")
  <2>1. PICK mv : mv = Move(m, b, now, "pending")
    OBVIOUS
  <2>2. "pending" \in NodeStates \cup {None}
    BY DEF NodeStates
  <2>3. mv \in E
    BY <1>2, <1>12, <2>1, <2>2 DEF Move, Event
  <2>4. Puts(mid, Reduce(mid, mv), m, b, "pending")
    BY <1>9, <1>12, <2>1, <2>2, MovePuts
  <2>5. PICK one \in Seq(E) : one = <<mv>>
    <3>1. PICK ev \in E : ev = mv
      BY <2>3
    <3>2. <<ev>> \in Seq(E)
      OBVIOUS
    <3> QED BY <3>1, <3>2
  <2>6. After(st, first \o one) = After(After(st, first), one) /\ first \o one \in Seq(E)
    BY AfterConcat, ConcatProperties
  <2>7. After(mid, one) = Reduce(mid, mv)
    BY <2>5, AfterFew
  <2> QED BY <1>5, <1>6, <1>8, <1>12, <2>1, <2>4, <2>5, <2>6, <2>7
<1>13. CASE m # None /\ d.repair
  <2>1. PICK b : b = CurrentAttempt(st, m) + 1
    OBVIOUS
  <2>2. m \in Nodes /\ GraphAction(st, d) = <<Move(m, b, None, "pending")>>
    BY <1>10, <1>13, <2>1 DEF GraphAction
  <2>3. /\ m = n \/ NodeStateAt(st, m) \notin {"leased", "running", "verifying", "unknown", "cancelling"}
        /\ b <= MaxAttempts /\ x = "failed"
    BY <1>10, <1>13, <2>1 DEF Repairable
  <2>4. b \in Attempts /\ b > CurrentAttempt(st, m)
    BY <1>3, <2>1, <2>2, <2>3, SessionAssumption DEF Attempts
  <2>5. st.nodeStates[<<m, b>>] = None /\ <<m, b>> # <<n, a>>
    BY <1>3, <1>4, <2>2, <2>4 DEF Sound, AttemptsFit, AttemptFits
  <2>6. mid.nodeStates[<<m, b>>] \in {None}
    BY <1>1, <1>9, <2>2, <2>4, <2>5
  <2>7. PICK next : next = After(st, batch)
    OBVIOUS
  <2>8. batch \in Seq(E) /\ Puts(mid, next, m, b, "pending")
    BY <1>12, <2>2, <2>4, <2>6, <2>7
  <2>9. \A n2 \in Nodes : CurrentAttempt(next, n2) = IF n2 = m THEN b ELSE CurrentAttempt(st, n2)
    <3> TAKE n2 \in Nodes
    <3>1. mid.attempts \in [Nodes -> {0} \cup Attempts] /\ next.attempts = [mid.attempts EXCEPT ![m] = Later(mid.attempts[m], b)]
      BY <1>9, <2>8 DEF Puts, State, RuntimeState
    <3>2. next.attempts[n2] = IF n2 = m THEN Later(mid.attempts[m], b) ELSE mid.attempts[n2]
      BY <3>1
    <3>3. CASE n2 # m
      BY <1>9, <3>2, <3>3 DEF SameAttempts, CurrentAttempt
    <3>4. CASE n2 = m
      <4>1. CurrentAttempt(mid, m) = CurrentAttempt(st, m) /\ mid.attempts[m] \in Nat /\ b \in Nat
        <5>1. CurrentAttempt(mid, m) = CurrentAttempt(st, m)
          BY <1>9, <2>2 DEF SameAttempts
        <5>2. mid.attempts[m] \in {0} \cup Attempts
          BY <2>2, <3>1
        <5>3. Attempts \subseteq Nat /\ b \in Attempts
          BY <1>1, <2>4
        <5>4. PICK o : o = mid.attempts[m]
          OBVIOUS
        <5>5. o \in Nat /\ b \in Nat
          <6>1. o = 0 \/ o \in Attempts
            BY <5>2, <5>4, Zenon
          <6>2. CASE o = 0
            BY <5>3, <6>2
          <6>3. CASE o \in Attempts
            BY <5>3, <6>3
          <6> QED BY <6>1, <6>2, <6>3
        <5> QED BY <5>1, <5>4, <5>5
      <4>2. mid.attempts[m] = 0 \/ mid.attempts[m] < b
        BY <2>4, <4>1 DEF CurrentAttempt
      <4>3. b # 0 /\ Later(mid.attempts[m], b) = b
        BY <1>3, <2>1, <2>2, <4>1, <4>2 DEF Later
      <4> QED BY <3>2, <3>4, <4>3 DEF CurrentAttempt
    <3> QED BY <3>3, <3>4
  <2>10. next \in State /\ SameBut(st, next)
    BY <1>9, <2>8 DEF Puts, SameBut
  <2>11. next.nodeStates = [st.nodeStates EXCEPT ![<<n, a>>] = x, ![<<m, b>>] = "pending"]
    BY <1>9, <2>8 DEF Puts
  <2>12. DecisionDone(st, next, n, x)
    BY <1>4, <2>1, <2>2, <2>3, <2>4, <2>9, <2>10, <2>11 DEF DecisionDone
  <2> QED BY <1>2, <1>4, <2>7, <2>8, <2>12
<1>14. CASE m # None /\ ~d.repair /\ NodeStateAt(st, m) \in {None, "waiting"}
  <2>1. PICK b \in Attempts, now \in NodeStates \cup {None} : b = CurrentAttempt(st, m) /\ now = NodeStateAt(st, m)
    BY <1>1, <1>10, <1>14, CurrentTyped
  <2>2. m \in Nodes /\ GraphAction(st, d) = <<Move(m, b, now, "pending")>>
    BY <1>10, <1>14, <2>1 DEF GraphAction
  <2>3. m # n /\ st.nodeStates[<<m, b>>] = now
    BY <1>3, <1>4, <1>14, <2>1 DEF NodeStateAt
  <2>4. mid.nodeStates[<<m, b>>] = now
    BY <1>1, <1>9, <2>1, <2>2, <2>3
  <2>5. PICK next : next = After(st, batch)
    OBVIOUS
  <2>6. batch \in Seq(E) /\ Puts(mid, next, m, b, "pending")
    BY <1>12, <2>1, <2>2, <2>4, <2>5
  <2>7. SameAttempts(st, next)
    <3> SUFFICES ASSUME NEW n2 \in Nodes PROVE CurrentAttempt(next, n2) = CurrentAttempt(st, n2)
      BY DEF SameAttempts
    <3>1. mid.attempts \in [Nodes -> {0} \cup Attempts] /\ next.attempts = [mid.attempts EXCEPT ![m] = Later(mid.attempts[m], b)]
      BY <1>9, <2>6 DEF Puts, State, RuntimeState
    <3>2. next.attempts[n2] = IF n2 = m THEN Later(mid.attempts[m], b) ELSE mid.attempts[n2]
      BY <3>1
    <3>3. CurrentAttempt(mid, n2) = CurrentAttempt(st, n2) /\ CurrentAttempt(mid, m) = b
      BY <1>9, <2>1, <2>2 DEF SameAttempts
    <3>4. mid.attempts[m] \in Nat /\ b \in Nat /\ b # 0
      BY <1>1, <2>2, <3>1 DEF Attempts
    <3>5. CASE n2 # m
      BY <3>2, <3>3, <3>5 DEF CurrentAttempt
    <3>6. CASE n2 = m
      BY <3>2, <3>3, <3>4, <3>6 DEF CurrentAttempt, Later
    <3> QED BY <3>5, <3>6
  <2>8. next \in State /\ SameBut(st, next)
    BY <1>9, <2>6 DEF Puts, SameBut
  <2>9. next.nodeStates = [st.nodeStates EXCEPT ![<<n, a>>] = x, ![<<m, CurrentAttempt(st, m)>>] = "pending"]
    BY <1>9, <2>1, <2>6 DEF Puts
  <2>10. DecisionDone(st, next, n, x)
    BY <1>4, <1>14, <2>2, <2>3, <2>7, <2>8, <2>9 DEF DecisionDone
  <2> QED BY <1>2, <1>4, <2>5, <2>6, <2>10
<1>15. GraphAction(st, d) = <<>> \/ (m # None /\ d.repair) \/ (m # None /\ ~d.repair /\ NodeStateAt(st, m) \in {None, "waiting"})
  BY <1>10 DEF GraphAction
<1> QED BY <1>11, <1>13, <1>14, <1>15

-----------------------------------------------------------------------------
(* What the journal always holds.                                              *)

\* The effects of a projection, and what their fields are.
LEMMA EffectsTyped ==
  ASSUME NEW st \in State
  PROVE  /\ EffectsOf(st) = 1..Len(st.effects) /\ Len(st.effects) \in Nat
         /\ \A e \in EffectsOf(st) :
              /\ st.effects[e] \in Effect /\ st.effects[e].node \in Nodes
              /\ st.effects[e].attempt \in Attempts /\ st.effects[e].attempt \in Nat
              /\ st.effects[e].entry \in {"intended", "dispatched", "unknown", "resolved"}
              /\ CellOf(st, e) \in Nodes \X Attempts
              /\ st.nodeStates[CellOf(st, e)] \in NodeStates \cup {None}
<1>1. st.effects \in Seq(Effect) /\ st.nodeStates \in [Nodes \X Attempts -> NodeStates \cup {None}]
  BY DEF State, RuntimeState
<1>2. EffectsOf(st) = 1..Len(st.effects) /\ Len(st.effects) \in Nat
  BY <1>1 DEF EffectsOf
<1>3. ASSUME NEW e \in EffectsOf(st)
      PROVE  /\ st.effects[e] \in Effect /\ st.effects[e].node \in Nodes
             /\ st.effects[e].attempt \in Attempts /\ st.effects[e].attempt \in Nat
             /\ st.effects[e].entry \in {"intended", "dispatched", "unknown", "resolved"}
             /\ CellOf(st, e) \in Nodes \X Attempts
             /\ st.nodeStates[CellOf(st, e)] \in NodeStates \cup {None}
  <2>1. PICK f \in Effect : f = st.effects[e]
    BY <1>1, <1>2
  <2>2. f.node \in Nodes /\ f.attempt \in Attempts /\ f.entry \in {"intended", "dispatched", "unknown", "resolved"}
    BY DEF Effect
  <2>3. f.attempt \in Nat
    BY <2>2, SessionAssumption DEF Attempts
  <2>4. CellOf(st, e) \in Nodes \X Attempts
    BY <2>1, <2>2 DEF CellOf
  <2> QED BY <1>1, <2>1, <2>2, <2>3, <2>4
<1> QED BY <1>2, <1>3

\* An attempt that is not current moves only if it is cancelled, and then it is a past one.
Rests(st, next, n, a) ==
  /\ a < CurrentAttempt(st, n) => next.nodeStates[<<n, a>>] \in {st.nodeStates[<<n, a>>], "cancelled"}
  /\ a > CurrentAttempt(st, n) => next.nodeStates[<<n, a>>] = st.nodeStates[<<n, a>>]

\* next is the projection st with some of its effects further on their way.
Settles(st, next) ==
  /\ next \in State /\ SameAttempts(st, next) /\ next.fault = st.fault /\ Len(next.effects) = Len(st.effects)
  /\ \A e \in EffectsOf(st) : SameEffect(st.effects[e], next.effects[e])
  /\ Unresolved(next) \subseteq Unresolved(st)
  /\ StatusFits(next)
  /\ \A e \in TasksIn(next, Unresolved(next)) : next.nodeStates[CellOf(next, e)] \in ClaimStates(next.effects[e].entry)
  /\ \A n \in Nodes, a \in Attempts : Rests(st, next, n, a)
  /\ \/ next.dispatchMode = st.dispatchMode
     \/ next.dispatchMode = "cancelled" /\ TasksIn(next, Unresolved(next)) = {}

\* What may happen to effects that are in the journal keeps it sound.
LEMMA SettlesSound ==
  ASSUME NEW st, Sound(st), NEW next, Settles(st, next)
  PROVE  Sound(next)
<1>1. st \in State /\ next \in State /\ Len(st.effects) <= MaxEffects /\ st.fault = "none"
  BY DEF Sound, Settles
<1>2. EffectsOf(next) = EffectsOf(st)
  BY <1>1, EffectsTyped DEF Settles
<1>3. \A e \in EffectsOf(st) : CellOf(next, e) = CellOf(st, e)
  BY DEF Settles, SameEffect, CellOf
<1>4. TasksIn(next, EffectsOf(next)) = TasksIn(st, EffectsOf(st))
  BY <1>2 DEF Settles, SameEffect, TasksIn
<1>5. TasksIn(next, Unresolved(next)) \subseteq TasksIn(st, Unresolved(st))
  BY DEF Settles, SameEffect, TasksIn, Unresolved
<1>6. next \in State /\ Len(next.effects) <= MaxEffects /\ next.fault = "none" /\ StatusFits(next)
  BY <1>1 DEF Settles
<1>7. EntriesFit(next)
  <2> SUFFICES ASSUME NEW e \in TasksIn(st, EffectsOf(st))
               PROVE  /\ next.effects[e].attempt <= CurrentAttempt(next, next.effects[e].node)
                      /\ next.effects[e].entry # "resolved" =>
                           /\ next.effects[e].attempt = CurrentAttempt(next, next.effects[e].node)
                           /\ next.nodeStates[CellOf(next, e)] \in ClaimStates(next.effects[e].entry)
    BY <1>4 DEF EntriesFit
  <2>1. e \in EffectsOf(st) /\ SameEffect(st.effects[e], next.effects[e]) /\ st.effects[e].node \in Nodes
    BY <1>1, EffectsTyped DEF TasksIn, Settles
  <2>2. CurrentAttempt(next, next.effects[e].node) = CurrentAttempt(st, st.effects[e].node)
    BY <2>1 DEF Settles, SameAttempts, SameEffect
  <2>3. next.effects[e].attempt <= CurrentAttempt(next, next.effects[e].node)
    BY <2>1, <2>2 DEF Sound, EntriesFit, SameEffect
  <2>4. ASSUME next.effects[e].entry # "resolved"
        PROVE  /\ next.effects[e].attempt = CurrentAttempt(next, next.effects[e].node)
               /\ next.nodeStates[CellOf(next, e)] \in ClaimStates(next.effects[e].entry)
    <3>1. e \in TasksIn(next, Unresolved(next)) /\ e \in TasksIn(st, Unresolved(st))
      BY <1>2, <1>4, <1>5, <2>1, <2>4 DEF TasksIn, Unresolved
    <3>2. st.effects[e].entry # "resolved"
      BY <3>1 DEF TasksIn, Unresolved
    <3>3. next.effects[e].attempt = CurrentAttempt(next, next.effects[e].node)
      BY <2>1, <2>2, <3>2 DEF Sound, EntriesFit, SameEffect
    <3> QED BY <3>1, <3>3 DEF Settles
  <2> QED BY <2>3, <2>4
<1>8. ClaimsFit(next)
  <2> SUFFICES ASSUME NEW e \in TasksIn(next, Unresolved(next)), NEW f \in TasksIn(next, Unresolved(next)), e # f
               PROVE  CellOf(next, e) # CellOf(next, f)
    BY DEF ClaimsFit
  <2>1. e \in TasksIn(st, Unresolved(st)) /\ f \in TasksIn(st, Unresolved(st)) /\ e \in EffectsOf(st) /\ f \in EffectsOf(st)
    BY <1>5 DEF TasksIn, Unresolved
  <2> QED BY <1>3, <2>1 DEF Sound, ClaimsFit
<1>9. AttemptsFit(next)
  <2> SUFFICES ASSUME NEW n \in Nodes, NEW a \in Attempts PROVE AttemptFits(next, n, a)
    BY DEF AttemptsFit
  <2>1. CurrentAttempt(next, n) = CurrentAttempt(st, n)
    BY DEF Settles, SameAttempts
  <2>2. /\ a < CurrentAttempt(st, n) => next.nodeStates[<<n, a>>] \in {st.nodeStates[<<n, a>>], "cancelled"}
        /\ a > CurrentAttempt(st, n) => next.nodeStates[<<n, a>>] = st.nodeStates[<<n, a>>]
    BY DEF Settles, Rests
  <2>3. /\ a < CurrentAttempt(st, n) =>
             st.nodeStates[<<n, a>>] \notin {"leased", "running", "verifying", "unknown", "cancelling"}
        /\ a > CurrentAttempt(st, n) => st.nodeStates[<<n, a>>] = None
    BY DEF Sound, AttemptsFit, AttemptFits
  <2> QED BY <2>1, <2>2, <2>3 DEF AttemptFits
<1>10. StopsFit(next)
  <2>1. next.dispatchMode = "cancelled" => TasksIn(next, Unresolved(next)) = {}
    BY <1>5 DEF Settles, Sound, StopsFit
  <2>2. ASSUME NEW c \in EffectsOf(next) \ TasksIn(next, EffectsOf(next))
        PROVE  LET T == next.effects[c].targets
               IN /\ next.dispatchMode \in {"cancelling", "cancelled"}
                  /\ TasksIn(next, Unresolved(next)) \subseteq T /\ T \subseteq TasksIn(next, EffectsOf(next))
                  /\ \A x, y \in T : x # y => CellOf(next, x) # CellOf(next, y)
    <3>1. c \in EffectsOf(st) \ TasksIn(st, EffectsOf(st))
      BY <1>2, <1>4
    <3>2. PICK T : T = st.effects[c].targets /\ T = next.effects[c].targets
      BY <3>1 DEF Settles, SameEffect
    <3>3. /\ st.dispatchMode \in {"cancelling", "cancelled"}
          /\ TasksIn(st, Unresolved(st)) \subseteq T /\ T \subseteq TasksIn(st, EffectsOf(st))
          /\ \A x, y \in T : x # y => CellOf(st, x) # CellOf(st, y)
      BY <3>1, <3>2 DEF Sound, StopsFit
    <3>4. next.dispatchMode \in {"cancelling", "cancelled"}
      BY <3>3 DEF Settles
    <3>5. T \subseteq EffectsOf(st)
      BY <3>3 DEF TasksIn
    <3>6. \A x, y \in T : x # y => CellOf(next, x) # CellOf(next, y)
      BY <1>3, <3>3, <3>5
    <3> QED BY <1>4, <1>5, <3>2, <3>3, <3>4, <3>6
  <2> QED BY <2>1, <2>2 DEF StopsFit
<1> QED BY <1>6, <1>7, <1>8, <1>9, <1>10 DEF Sound

\* An effect that is claimed.
Claiming(f) == [f EXCEPT !.entry = "dispatched"]

\* next is the projection st with the claim of effect e.
ClaimDone(st, next, e) ==
  /\ next \in State /\ SameControl(st, next) /\ next.nodeStates = st.nodeStates /\ next.attempts = st.attempts
  /\ next.effects = [st.effects EXCEPT ![e] = Claiming(st.effects[e])]

\* What a claim does (dispatchPending).
LEMMA ClaimPlanned ==
  ASSUME NEW st \in State, NEW e \in EffectsOf(st)
  PROVE  ClaimDone(st, After(st, <<Dispatched(e)>>), e)
<1>1. PICK ev : ev = Dispatched(e)
  OBVIOUS
<1>2. ev.type = "effect.dispatched" /\ ev.effect = e
  BY <1>1 DEF Dispatched
<1>3. PICK next : next = Reduce(st, ev) /\ next = After(st, <<ev>>)
  BY AfterFew
<1>4. next = [st EXCEPT !.effects[e].entry = "dispatched"]
  BY <1>2, <1>3, ReduceField
<1>5. PICK k \in Nat : k = Len(st.effects) /\ k <= Len(st.effects) /\ ev \in Event(k)
  <2>1. PICK k \in Nat : k = Len(st.effects) /\ e \in 1..k
    BY EffectsTyped
  <2>2. ev \in Event(k) /\ k <= Len(st.effects)
    BY <1>1, <2>1 DEF Event, Dispatched
  <2> QED BY <2>1, <2>2
<1>6. next \in State
  BY <1>3, <1>5, ReduceTyped DEF Extends
<1>7. /\ next.effects = [st.effects EXCEPT ![e] = Claiming(st.effects[e])]
      /\ next.nodeStates = st.nodeStates /\ next.attempts = st.attempts /\ SameControl(st, next)
  BY <1>4 DEF State, RuntimeState, SameControl, Claiming
<1> QED BY <1>1, <1>3, <1>6, <1>7 DEF ClaimDone

\* A claim keeps the journal sound.
LEMMA ClaimSound ==
  ASSUME NEW st, Sound(st), NEW e \in EffectsOf(st), st.effects[e].entry = "intended",
         NEW next, ClaimDone(st, next, e)
  PROVE  Sound(next) /\ Len(next.effects) = Len(st.effects)
<1>1. st \in State /\ next \in State
  BY DEF Sound, ClaimDone
<1>2. /\ EffectsOf(st) = 1..Len(st.effects) /\ Len(st.effects) \in Nat /\ st.effects \in Seq(Effect)
      /\ \A x \in EffectsOf(st) : st.effects[x] \in Effect
  BY <1>1, EffectsTyped DEF State, RuntimeState
<1>3. PICK g : g = Claiming(st.effects[e])
  OBVIOUS
<1>4. g.entry = "dispatched" /\ g.status = st.effects[e].status /\ SameEffect(st.effects[e], g)
  <2>1. st.effects[e] \in Effect
    BY <1>2
  <2> QED BY <1>3, <2>1 DEF Claiming, Effect, SameEffect
<1>5. Len(next.effects) = Len(st.effects) /\ \A x \in EffectsOf(st) : next.effects[x] = IF x = e THEN g ELSE st.effects[x]
  BY <1>2, <1>3 DEF ClaimDone
<1>6. \A x \in EffectsOf(st) : SameEffect(st.effects[x], next.effects[x])
  BY <1>4, <1>5 DEF SameEffect
<1>7. EffectsOf(next) = EffectsOf(st)
  BY <1>1, <1>2, <1>5, EffectsTyped
<1>8. Unresolved(next) \subseteq Unresolved(st)
  BY <1>5, <1>7 DEF Unresolved
<1>9. StatusFits(next)
  <2> SUFFICES ASSUME NEW x \in EffectsOf(st)
               PROVE  next.effects[x].status # "unknown" /\ (next.effects[x].entry = "resolved" <=> next.effects[x].status # None)
    BY <1>7 DEF StatusFits
  <2>1. st.effects[x].status # "unknown" /\ (st.effects[x].entry = "resolved" <=> st.effects[x].status # None)
    BY DEF Sound, StatusFits
  <2>2. CASE x = e
    BY <1>4, <1>5, <2>1, <2>2
  <2>3. CASE x # e
    BY <1>5, <2>1, <2>3
  <2> QED BY <2>2, <2>3
<1>10. ASSUME NEW x \in TasksIn(next, Unresolved(next))
       PROVE  next.nodeStates[CellOf(next, x)] \in ClaimStates(next.effects[x].entry)
  <2>1. x \in EffectsOf(st) /\ x \in TasksIn(st, EffectsOf(st)) /\ x \in Unresolved(st)
    BY <1>6, <1>7, <1>8 DEF TasksIn, Unresolved, SameEffect
  <2>2. next.nodeStates[CellOf(next, x)] = st.nodeStates[CellOf(st, x)]
    BY <1>6, <2>1 DEF CellOf, SameEffect, ClaimDone
  <2>3. st.nodeStates[CellOf(st, x)] \in ClaimStates(st.effects[x].entry)
    BY <2>1 DEF Sound, EntriesFit, Unresolved
  <2>4. CASE x = e
    <3>1. st.nodeStates[CellOf(st, x)] \in {"leased"}
      BY <2>3, <2>4 DEF ClaimStates
    <3> QED BY <1>4, <1>5, <2>1, <2>2, <2>4, <3>1 DEF ClaimStates
  <2>5. CASE x # e
    BY <1>5, <2>1, <2>2, <2>3, <2>5
  <2> QED BY <2>4, <2>5
<1>11. Settles(st, next)
  <2>1. SameAttempts(st, next) /\ next.nodeStates = st.nodeStates
    BY DEF ClaimDone, SameAttempts, CurrentAttempt
  <2>2. next.fault = st.fault /\ next.dispatchMode = st.dispatchMode
    BY DEF ClaimDone, SameControl
  <2>3. \A n \in Nodes, a \in Attempts : Rests(st, next, n, a)
    BY <2>1 DEF Rests
  <2> QED BY <1>1, <1>5, <1>6, <1>8, <1>9, <1>10, <2>1, <2>2, <2>3 DEF Settles
<1> QED BY <1>5, <1>11, SettlesSound

\* What a receipt makes of the effects: it is noted once, and a cancellation notes its targets.
Heard(st, next, e, status) ==
  /\ Len(next.effects) = Len(st.effects)
  /\ \A x \in EffectsOf(st) :
       \/ next.effects[x] = st.effects[x]
       \/ /\ x = e /\ st.effects[e].entry \in {"dispatched", "unknown"}
          /\ next.effects[x] = Answered(st.effects[e], status)
       \/ /\ st.effects[e].kind # "task" /\ x \in st.effects[e].targets /\ status = "cancelled"
          /\ st.effects[e].entry \in {"dispatched", "unknown"}
          /\ next.effects[x] = Answered(st.effects[x], "cancelled")

\* What an answer leaves of an effect.
LEMMA AnsweredFits ==
  ASSUME NEW f \in Effect, NEW status \in Statuses
  PROVE  LET g == Answered(f, status)
         IN /\ SameEffect(f, g) /\ g.status # "unknown" /\ (g.entry = "resolved" <=> g.status # None)
            /\ g.entry = IF status = "unknown" THEN "unknown" ELSE "resolved"
            /\ g.status = IF status = "unknown" THEN None ELSE status
<1>1. None \notin Statuses /\ "unknown" \in Statuses
  BY SessionAssumption DEF Statuses
<1>2. PICK entry : entry = IF status = "unknown" THEN "unknown" ELSE "resolved"
  OBVIOUS
<1>3. PICK x : x = IF status = "unknown" THEN None ELSE status
  OBVIOUS
<1>4. PICK g : g = Answered(f, status)
  OBVIOUS
<1>5. g = [f EXCEPT !.entry = entry, !.status = x]
  BY <1>2, <1>3, <1>4 DEF Answered
<1>6. SameEffect(f, g) /\ g.entry = entry /\ g.status = x
  BY <1>5 DEF Effect, SameEffect
<1>7. x # "unknown" /\ (entry = "resolved" <=> x # None)
  BY <1>1, <1>2, <1>3
<1> QED BY <1>2, <1>3, <1>4, <1>6, <1>7

\* A receipt of one effect keeps the journal sound.
LEMMA CloseSound ==
  ASSUME NEW st, Sound(st), NEW e \in EffectsOf(st), NEW status \in Statuses, NEW next, NEW f, f = st.effects[e],
         f.entry # "intended", f.entry = "resolved" => status = f.status,
         NEW y, y = IF f.kind = "task" /\ f.entry # "resolved"
                    THEN ReceiptEnd(st.nodeStates[CellOf(st, e)], status) ELSE st.nodeStates[CellOf(st, e)],
         Closes(st, next, e, status, y)
  PROVE  Sound(next) /\ Heard(st, next, e, status)
<1>1. st \in State /\ next \in State
  BY DEF Sound, Closes
<1>2. /\ EffectsOf(st) = 1..Len(st.effects) /\ Len(st.effects) \in Nat /\ st.effects \in Seq(Effect)
      /\ f \in Effect /\ f.entry \in {"dispatched", "unknown", "resolved"}
      /\ st.nodeStates \in [Nodes \X Attempts -> NodeStates \cup {None}]
      /\ \A x \in EffectsOf(st) : CellOf(st, x) \in Nodes \X Attempts
  BY <1>1, EffectsTyped DEF State, RuntimeState
<1>3. PICK g : g = Answered(f, status)
  OBVIOUS
<1>4. /\ SameEffect(f, g) /\ g.status # "unknown" /\ (g.entry = "resolved" <=> g.status # None)
      /\ g.entry = IF status = "unknown" THEN "unknown" ELSE "resolved"
      /\ g.status = IF status = "unknown" THEN None ELSE status
  BY <1>2, <1>3, AnsweredFits
<1>5. Len(next.effects) = Len(st.effects) /\ \A x \in EffectsOf(st) : next.effects[x] = IF x = e THEN g ELSE st.effects[x]
  BY <1>2, <1>3 DEF Closes
<1>6. f.entry = "resolved" => g = f
  <2>1. f.status # "unknown"
    BY DEF Sound, StatusFits
  <2>2. ASSUME f.entry = "resolved" PROVE g = f
    <3>1. status # "unknown" /\ status = f.status
      BY <2>1, <2>2
    <3>2. g = [f EXCEPT !.entry = "resolved", !.status = status]
      BY <1>3, <3>1 DEF Answered
    <3> QED BY <1>2, <2>2, <3>1, <3>2 DEF Effect
  <2> QED BY <2>2
<1>7. \A x \in EffectsOf(st) : SameEffect(st.effects[x], next.effects[x])
  BY <1>4, <1>5 DEF SameEffect
<1>8. EffectsOf(next) = EffectsOf(st)
  BY <1>1, <1>2, <1>5, EffectsTyped
<1>9. Unresolved(next) \subseteq Unresolved(st)
  BY <1>5, <1>6, <1>8 DEF Unresolved
<1>10. StatusFits(next)
  <2> SUFFICES ASSUME NEW x \in EffectsOf(st)
               PROVE  next.effects[x].status # "unknown" /\ (next.effects[x].entry = "resolved" <=> next.effects[x].status # None)
    BY <1>8 DEF StatusFits
  <2>1. st.effects[x].status # "unknown" /\ (st.effects[x].entry = "resolved" <=> st.effects[x].status # None)
    BY DEF Sound, StatusFits
  <2>2. CASE x = e
    BY <1>4, <1>5, <2>2
  <2>3. CASE x # e
    BY <1>5, <2>1, <2>3
  <2> QED BY <2>2, <2>3
<1>11. \A cell \in Nodes \X Attempts : next.nodeStates[cell] = IF cell = CellOf(st, e) THEN y ELSE st.nodeStates[cell]
  BY <1>2 DEF Closes
<1>12. ASSUME f.kind = "task", f.entry # "resolved"
       PROVE  /\ e \in TasksIn(st, Unresolved(st)) /\ f.attempt = CurrentAttempt(st, f.node)
              /\ y = ReceiptEnd(st.nodeStates[CellOf(st, e)], status)
  BY <1>12 DEF TasksIn, Unresolved, Sound, EntriesFit
<1>13. ASSUME NEW x \in TasksIn(next, Unresolved(next))
       PROVE  next.nodeStates[CellOf(next, x)] \in ClaimStates(next.effects[x].entry)
  <2>1. x \in EffectsOf(st) /\ x \in TasksIn(st, EffectsOf(st)) /\ x \in Unresolved(st) /\ x \in TasksIn(st, Unresolved(st))
    BY <1>7, <1>8, <1>9 DEF TasksIn, Unresolved, SameEffect
  <2>2. CellOf(next, x) = CellOf(st, x) /\ CellOf(st, x) \in Nodes \X Attempts
    BY <1>2, <1>7, <2>1 DEF CellOf, SameEffect
  <2>3. st.nodeStates[CellOf(st, x)] \in ClaimStates(st.effects[x].entry)
    BY <2>1 DEF Sound, EntriesFit, Unresolved
  <2>4. CASE x = e
    <3>1. f.kind = "task" /\ f.entry # "resolved" /\ g.entry # "resolved"
      BY <1>5, <2>1, <2>4 DEF TasksIn, Unresolved
    <3>2. status = "unknown" /\ g.entry = "unknown"
      BY <1>4, <3>1
    <3>3. y = "unknown"
      BY <1>12, <3>1, <3>2 DEF ReceiptEnd
    <3>4. next.nodeStates[CellOf(next, x)] = "unknown" /\ next.effects[x].entry = "unknown"
      BY <1>5, <1>11, <2>1, <2>2, <2>4, <3>2, <3>3
    <3> QED BY <3>4 DEF ClaimStates
  <2>5. CASE x # e
    <3>1. next.nodeStates[CellOf(next, x)] = st.nodeStates[CellOf(st, x)]
      <4>1. CASE f.kind = "task" /\ f.entry # "resolved"
        <5>1. CellOf(st, x) # CellOf(st, e)
          BY <1>12, <2>1, <2>5, <4>1 DEF Sound, ClaimsFit
        <5> QED BY <1>11, <2>2, <5>1
      <4>2. CASE ~(f.kind = "task" /\ f.entry # "resolved")
        BY <1>11, <2>2, <4>2
      <4> QED BY <4>1, <4>2
    <3> QED BY <1>5, <2>1, <2>3, <2>5, <3>1
  <2> QED BY <2>4, <2>5
<1>14. ASSUME NEW n \in Nodes, NEW a \in Attempts, a # CurrentAttempt(st, n)
       PROVE  next.nodeStates[<<n, a>>] = st.nodeStates[<<n, a>>]
  <2>1. PICK cell \in Nodes \X Attempts : cell = <<n, a>>
    OBVIOUS
  <2>2. CASE f.kind = "task" /\ f.entry # "resolved"
    <3>1. cell # CellOf(st, e)
      BY <1>12, <1>14, <2>1, <2>2 DEF CellOf
    <3> QED BY <1>11, <2>1, <3>1
  <2>3. CASE ~(f.kind = "task" /\ f.entry # "resolved")
    BY <1>11, <2>1, <2>3
  <2> QED BY <2>2, <2>3
<1>15. Settles(st, next)
  <2>1. SameAttempts(st, next) /\ next.fault = st.fault /\ next.dispatchMode = st.dispatchMode
    BY DEF Closes, SameControl
  <2>2. \A n \in Nodes : CurrentAttempt(st, n) \in Nat
    BY <1>1, CurrentTyped, SessionAssumption DEF Attempts
  <2>3. \A n \in Nodes, a \in Attempts : Rests(st, next, n, a)
    <3> SUFFICES ASSUME NEW n \in Nodes, NEW a \in Attempts PROVE Rests(st, next, n, a)
      OBVIOUS
    <3>1. a < CurrentAttempt(st, n) \/ a > CurrentAttempt(st, n) => a # CurrentAttempt(st, n)
      BY <2>2, SessionAssumption DEF Attempts
    <3> QED BY <1>14, <3>1 DEF Rests
  <2> QED BY <1>1, <1>5, <1>7, <1>9, <1>10, <1>13, <2>1, <2>3 DEF Settles
<1>16. Heard(st, next, e, status)
  BY <1>2, <1>3, <1>5, <1>6 DEF Heard
<1> QED BY <1>15, <1>16, SettlesSound

\* The acknowledgement of a cancellation keeps the journal sound.
LEMMA AckSound ==
  ASSUME NEW st, Sound(st), NEW e \in EffectsOf(st), NEW next,
         st.effects[e].kind # "task", st.effects[e].entry \in {"dispatched", "unknown"}, Acked(st, next, e)
  PROVE  Sound(next) /\ Heard(st, next, e, "cancelled") /\ TasksIn(next, Unresolved(next)) = {}
<1>1. st \in State /\ next \in State
  BY DEF Sound, Acked
<1>2. /\ EffectsOf(st) = 1..Len(st.effects) /\ Len(st.effects) \in Nat
      /\ \A x \in EffectsOf(st) : st.effects[x] \in Effect /\ CellOf(st, x) \in Nodes \X Attempts
  BY <1>1, EffectsTyped
<1>3. PICK T : T = st.effects[e].targets
  OBVIOUS
<1>4. e \in EffectsOf(st) \ TasksIn(st, EffectsOf(st))
  BY DEF TasksIn
<1>5. TasksIn(st, Unresolved(st)) \subseteq T /\ T \subseteq TasksIn(st, EffectsOf(st))
  BY <1>3, <1>4 DEF Sound, StopsFit
<1>6. /\ SameAttempts(st, next) /\ next.fault = st.fault /\ next.dispatchMode = "cancelled"
      /\ Len(next.effects) = Len(st.effects)
      /\ \A x \in EffectsOf(st) :
           next.effects[x] = IF x = e \/ x \in T THEN Answered(st.effects[x], "cancelled") ELSE st.effects[x]
      /\ \A cell \in Nodes \X Attempts :
           next.nodeStates[cell] = IF \E x \in T : CellOf(st, x) = cell THEN "cancelled" ELSE st.nodeStates[cell]
  BY <1>2, <1>3 DEF Acked
<1>7. EffectsOf(next) = EffectsOf(st)
  BY <1>1, <1>2, <1>6, EffectsTyped
<1>8. ASSUME NEW x \in EffectsOf(st)
      PROVE  LET g == Answered(st.effects[x], "cancelled")
             IN SameEffect(st.effects[x], g) /\ g.status # "unknown" /\ g.entry = "resolved" /\ g.status # None
  <2>1. st.effects[x] \in Effect /\ "cancelled" \in Statuses
    BY <1>2 DEF Statuses
  <2> QED BY <2>1, AnsweredFits
<1>9. \A x \in EffectsOf(st) : SameEffect(st.effects[x], next.effects[x])
  BY <1>6, <1>8 DEF SameEffect
<1>10. Unresolved(next) \subseteq Unresolved(st)
  BY <1>6, <1>7, <1>8 DEF Unresolved
<1>11. TasksIn(next, Unresolved(next)) = {}
  <2> SUFFICES ASSUME NEW x \in TasksIn(next, Unresolved(next)) PROVE FALSE
    OBVIOUS
  <2>1. x \in EffectsOf(st) /\ x \in TasksIn(st, Unresolved(st)) /\ next.effects[x].entry # "resolved"
    BY <1>7, <1>9, <1>10 DEF TasksIn, Unresolved, SameEffect
  <2>2. next.effects[x] = Answered(st.effects[x], "cancelled")
    BY <1>5, <1>6, <2>1
  <2> QED BY <1>8, <2>1, <2>2
<1>12. StatusFits(next)
  <2> SUFFICES ASSUME NEW x \in EffectsOf(st)
               PROVE  next.effects[x].status # "unknown" /\ (next.effects[x].entry = "resolved" <=> next.effects[x].status # None)
    BY <1>7 DEF StatusFits
  <2>1. st.effects[x].status # "unknown" /\ (st.effects[x].entry = "resolved" <=> st.effects[x].status # None)
    BY DEF Sound, StatusFits
  <2>2. next.effects[x] = Answered(st.effects[x], "cancelled") \/ next.effects[x] = st.effects[x]
    BY <1>6
  <2> QED BY <1>8, <2>1, <2>2
<1>13. ASSUME NEW n \in Nodes, NEW a \in Attempts PROVE Rests(st, next, n, a)
  <2>1. PICK cell \in Nodes \X Attempts : cell = <<n, a>>
    OBVIOUS
  <2>2. CASE \E x \in T : CellOf(st, x) = cell
    <3>1. PICK x \in T : CellOf(st, x) = cell
      BY <2>2
    <3>2. st.effects[x].attempt <= CurrentAttempt(st, st.effects[x].node)
      BY <1>5 DEF Sound, EntriesFit
    <3>3. a <= CurrentAttempt(st, n)
      BY <2>1, <3>1, <3>2 DEF CellOf
    <3>4. ~(a > CurrentAttempt(st, n))
      <4>1. PICK o \in Nat : o = CurrentAttempt(st, n)
        BY <1>1, CurrentTyped, SessionAssumption DEF Attempts
      <4>2. a \in Nat
        BY SessionAssumption DEF Attempts
      <4> QED BY <3>3, <4>1, <4>2
    <3>5. next.nodeStates[<<n, a>>] = "cancelled"
      BY <1>6, <2>1, <2>2
    <3> QED BY <3>4, <3>5 DEF Rests
  <2>3. CASE ~\E x \in T : CellOf(st, x) = cell
    <3>1. next.nodeStates[<<n, a>>] = st.nodeStates[<<n, a>>]
      BY <1>6, <2>1, <2>3
    <3> QED BY <3>1 DEF Rests
  <2> QED BY <2>2, <2>3
<1>14. Settles(st, next)
  BY <1>1, <1>6, <1>9, <1>10, <1>11, <1>12, <1>13 DEF Settles
<1>15. Heard(st, next, e, "cancelled")
  BY <1>3, <1>6 DEF Heard
<1> QED BY <1>11, <1>14, <1>15, SettlesSound

\* A receipt keeps the journal sound, and changes nothing that is resolved but the targets of a
\* cancellation it acknowledges.
LEMMA ReceiptSound ==
  ASSUME NEW st, Sound(st), NEW e \in EffectsOf(st), NEW status \in Statuses, NEW row, Receivable(st, e, status, row),
         NEW next, ReceiptDone(st, next, e, status)
  PROVE  Sound(next) /\ Heard(st, next, e, status)
<1>1. st \in State
  BY DEF Sound
<1>2. PICK f : f = st.effects[e] /\ f.entry \in {"intended", "dispatched", "unknown", "resolved"}
  BY <1>1, EffectsTyped
<1>3. PICK y : y = IF f.kind = "task" /\ f.entry # "resolved"
                   THEN ReceiptEnd(st.nodeStates[CellOf(st, e)], status) ELSE st.nodeStates[CellOf(st, e)]
  OBVIOUS
<1>4. ~Stale(st, e) => f.entry # "intended" /\ (f.entry = "resolved" => status = f.status)
  BY <1>2 DEF Receivable
<1>5. CASE next = st
  BY <1>5 DEF Heard
<1>6. CASE ~Stale(st, e) /\ Closes(st, next, e, status, y)
  <2>1. f.entry # "intended" /\ (f.entry = "resolved" => status = f.status)
    BY <1>4, <1>6
  <2> QED BY <1>2, <1>3, <1>6, <2>1, CloseSound
<1>7. CASE ~Stale(st, e) /\ f.kind # "task" /\ f.entry # "resolved" /\ status = "cancelled" /\ Acked(st, next, e)
  <2>1. st.effects[e].kind # "task" /\ st.effects[e].entry \in {"dispatched", "unknown"}
    BY <1>2, <1>4, <1>7
  <2> QED BY <1>7, <2>1, AckSound
<1> QED BY <1>2, <1>3, <1>5, <1>6, <1>7 DEF ReceiptDone

\* A round keeps the journal sound: it claims nodes that nothing claims.
LEMMA RoundSound ==
  ASSUME NEW st, Sound(st), st.dispatchMode = "active", NEW c, ChoiceFits(st, c, Len(NodeOrder)),
         Len(st.effects) + Len(c) <= MaxEffects, NEW next, RoundDone(st, next, c)
  PROVE  Sound(next)
<1>1. st \in State /\ next \in State
  BY DEF Sound, RoundDone
<1>2. PICK k \in Nat : k = Len(st.effects)
  BY <1>1, EffectsTyped
<1>3. PICK m \in Nat : m = Len(c)
  BY DEF ChoiceFits
<1>4. /\ EffectsOf(st) = 1..k /\ EffectsOf(next) = 1..(k + m) /\ k + m <= MaxEffects
      /\ \A x \in 1..k : next.effects[x] = st.effects[x]
      /\ \A i \in 1..m : next.effects[k + i] = TaskEffect(st, c[i])
  BY <1>1, <1>2, <1>3, EffectsTyped DEF RoundDone
<1>5. \A i \in 1..m : c[i] \in Nodes /\ Dispatchable(st, c[i])
  BY <1>3 DEF ChoiceFits
<1>6. \A i, o \in 1..m : c[i] = c[o] => i = o
  BY <1>3 DEF ChoiceFits
<1>7. ASSUME NEW x \in 1..(k + m), x \notin 1..k
      PROVE  \E i \in 1..m : x = k + i
  <2>1. x - k \in 1..m /\ x = k + (x - k)
    BY <1>7
  <2> QED BY <2>1
<1>8. ASSUME NEW i \in 1..m
      PROVE  LET g == next.effects[k + i]
             IN /\ g.kind = "task" /\ g.node = c[i] /\ g.attempt = CurrentAttempt(st, c[i])
                /\ g.entry = "intended" /\ g.status = None
  <2>1. PICK g : g = TaskEffect(st, c[i])
    OBVIOUS
  <2>2. g = next.effects[k + i]
    BY <1>4, <2>1
  <2>3. /\ g.kind = "task" /\ g.node = c[i] /\ g.attempt = CurrentAttempt(st, c[i])
        /\ g.entry = "intended" /\ g.status = None
    BY <2>1 DEF TaskEffect
  <2> QED BY <2>2, <2>3
<1>9. \A x \in EffectsOf(st) : st.effects[x].kind = "task"
  BY DEF Sound, StopsFit, TasksIn
<1>10. \A x \in EffectsOf(next) : next.effects[x].kind = "task"
  <2> SUFFICES ASSUME NEW x \in 1..(k + m) PROVE next.effects[x].kind = "task"
    BY <1>4
  <2>1. CASE x \in 1..k
    BY <1>4, <1>9, <2>1
  <2>2. CASE x \notin 1..k
    BY <1>7, <1>8, <2>2
  <2> QED BY <2>1, <2>2
<1>11. ASSUME NEW x \in Unresolved(st), NEW i \in 1..m
       PROVE  st.effects[x].node # c[i]
  <2>1. ~Claimed(st, c[i])
    BY <1>5 DEF Dispatchable
  <2> QED BY <1>9, <2>1 DEF Claimed, TasksIn, Unresolved
<1>12. /\ SameAttempts(st, next) /\ next.fault = st.fault /\ next.dispatchMode = "active"
       /\ \A n \in Nodes, a \in Attempts :
            next.nodeStates[<<n, a>>] =
              IF a # CurrentAttempt(st, n) THEN st.nodeStates[<<n, a>>]
              ELSE IF \E i \in 1..m : c[i] = n THEN "leased" ELSE ReadiedTo(st)[n]
  BY <1>3 DEF RoundDone, SameControl
<1>13. StatusFits(next)
  <2> SUFFICES ASSUME NEW x \in EffectsOf(next)
               PROVE  next.effects[x].status # "unknown" /\ (next.effects[x].entry = "resolved" <=> next.effects[x].status # None)
    BY DEF StatusFits
  <2>1. CASE x \in 1..k
    BY <1>4, <2>1 DEF Sound, StatusFits
  <2>2. CASE x \notin 1..k
    <3>1. PICK i \in 1..m : x = k + i
      BY <1>4, <1>7, <2>2
    <3>2. None # "unknown"
      BY SessionAssumption DEF Statuses
    <3> QED BY <1>8, <3>1, <3>2
  <2> QED BY <2>1, <2>2
<1>14. EntriesFit(next)
  <2> SUFFICES ASSUME NEW x \in EffectsOf(next)
               PROVE  /\ next.effects[x].attempt <= CurrentAttempt(next, next.effects[x].node)
                      /\ next.effects[x].entry # "resolved" =>
                           /\ next.effects[x].attempt = CurrentAttempt(next, next.effects[x].node)
                           /\ next.nodeStates[CellOf(next, x)] \in ClaimStates(next.effects[x].entry)
    BY DEF EntriesFit, TasksIn
  <2>1. CASE x \in 1..k
    <3>1. x \in TasksIn(st, EffectsOf(st)) /\ next.effects[x] = st.effects[x] /\ CellOf(next, x) = CellOf(st, x)
      BY <1>4, <1>9, <2>1 DEF TasksIn, CellOf
    <3>2. PICK n \in Nodes, a \in Attempts : n = st.effects[x].node /\ a = st.effects[x].attempt /\ CellOf(st, x) = <<n, a>>
      BY <1>1, <3>1, EffectsTyped DEF TasksIn, CellOf
    <3>3. CurrentAttempt(next, n) = CurrentAttempt(st, n) /\ a <= CurrentAttempt(st, n)
      BY <1>12, <3>1, <3>2 DEF SameAttempts, Sound, EntriesFit
    <3>4. ASSUME st.effects[x].entry # "resolved"
          PROVE  a = CurrentAttempt(st, n) /\ next.nodeStates[<<n, a>>] \in ClaimStates(st.effects[x].entry)
      <4>1. a = CurrentAttempt(st, n) /\ st.nodeStates[<<n, a>>] \in ClaimStates(st.effects[x].entry)
        BY <3>1, <3>2, <3>4 DEF Sound, EntriesFit
      <4>2. ~\E i \in 1..m : c[i] = n
        BY <1>4, <1>11, <2>1, <3>2, <3>4 DEF Unresolved
      <4>3. next.nodeStates[<<n, a>>] = ReadiedTo(st)[n]
        BY <1>12, <4>1, <4>2
      <4>4. NodeStateAt(st, n) \in {"leased", "cancelling", "unknown"} /\ NodeStateAt(st, n) = st.nodeStates[<<n, a>>]
        <5>1. st.effects[x].entry \in {"intended", "dispatched", "unknown"}
          BY <1>1, <3>1, <3>4, EffectsTyped DEF TasksIn
        <5> QED BY <4>1, <5>1 DEF ClaimStates, NodeStateAt
      <4>5. NodeStateAt(st, n) # None
        BY <4>4, SessionAssumption DEF NodeStates
      <4>6. ReadiedTo(st)[n] = NodeStateAt(st, n)
        BY <4>4, <4>5 DEF ReadiedTo, Unstarted
      <4> QED BY <4>1, <4>3, <4>4, <4>6
    <3> QED BY <3>1, <3>2, <3>3, <3>4
  <2>2. CASE x \notin 1..k
    <3>1. PICK i \in 1..m : x = k + i
      BY <1>4, <1>7, <2>2
    <3>2. PICK n \in Nodes, a \in Attempts : n = c[i] /\ a = CurrentAttempt(st, n)
      BY <1>1, <1>5, CurrentTyped
    <3>3. next.effects[x].node = n /\ next.effects[x].attempt = a /\ next.effects[x].entry = "intended" /\ CellOf(next, x) = <<n, a>>
      BY <1>8, <3>1, <3>2 DEF CellOf
    <3>4. CurrentAttempt(next, n) = a /\ next.nodeStates[<<n, a>>] = "leased"
      BY <1>12, <3>2 DEF SameAttempts
    <3>5. a <= a
      BY SessionAssumption DEF Attempts
    <3> QED BY <3>3, <3>4, <3>5 DEF ClaimStates
  <2> QED BY <2>1, <2>2
<1>15. ClaimsFit(next)
  <2> SUFFICES ASSUME NEW x \in Unresolved(next), NEW y \in Unresolved(next), CellOf(next, x) = CellOf(next, y), x # y
               PROVE  FALSE
    BY DEF ClaimsFit, TasksIn
  <2>1. next.effects[x].node = next.effects[y].node
    BY DEF CellOf
  <2>2. x \in EffectsOf(next) /\ y \in EffectsOf(next)
    BY DEF Unresolved
  <2>3. CASE x \in 1..k /\ y \in 1..k
    <3>1. x \in TasksIn(st, Unresolved(st)) /\ y \in TasksIn(st, Unresolved(st)) /\ CellOf(st, x) = CellOf(st, y)
      BY <1>4, <1>9, <2>3 DEF TasksIn, Unresolved, CellOf
    <3> QED BY <3>1 DEF Sound, ClaimsFit
  <2>4. CASE x \in 1..k /\ y \notin 1..k
    <3>1. PICK i \in 1..m : y = k + i
      BY <1>4, <1>7, <2>2, <2>4
    <3>2. x \in Unresolved(st) /\ st.effects[x].node = next.effects[x].node
      BY <1>4, <2>4 DEF Unresolved
    <3> QED BY <1>8, <1>11, <2>1, <3>1, <3>2
  <2>5. CASE x \notin 1..k /\ y \in 1..k
    <3>1. PICK i \in 1..m : x = k + i
      BY <1>4, <1>7, <2>2, <2>5
    <3>2. y \in Unresolved(st) /\ st.effects[y].node = next.effects[y].node
      BY <1>4, <2>5 DEF Unresolved
    <3> QED BY <1>8, <1>11, <2>1, <3>1, <3>2
  <2>6. CASE x \notin 1..k /\ y \notin 1..k
    <3>1. PICK i \in 1..m : x = k + i
      BY <1>4, <1>7, <2>2, <2>6
    <3>2. PICK o \in 1..m : y = k + o
      BY <1>4, <1>7, <2>2, <2>6
    <3>3. c[i] = c[o]
      BY <1>8, <2>1, <3>1, <3>2
    <3> QED BY <1>6, <3>1, <3>2, <3>3
  <2> QED BY <2>3, <2>4, <2>5, <2>6
<1>16. AttemptsFit(next)
  <2> SUFFICES ASSUME NEW n \in Nodes, NEW a \in Attempts PROVE AttemptFits(next, n, a)
    BY DEF AttemptsFit
  <2>1. AttemptFits(st, n, a) /\ CurrentAttempt(next, n) = CurrentAttempt(st, n)
    BY <1>12 DEF Sound, AttemptsFit, SameAttempts
  <2>2. CASE a # CurrentAttempt(st, n)
    <3>1. next.nodeStates[<<n, a>>] = st.nodeStates[<<n, a>>]
      BY <1>12, <2>2
    <3> QED BY <2>1, <3>1 DEF AttemptFits
  <2>3. CASE a = CurrentAttempt(st, n)
    <3>1. ~(a < a)
      BY SessionAssumption DEF Attempts
    <3> QED BY <2>1, <2>3, <3>1 DEF AttemptFits
  <2> QED BY <2>2, <2>3
<1>17. StopsFit(next)
  BY <1>10, <1>12 DEF StopsFit, TasksIn
<1>18. Len(next.effects) <= MaxEffects /\ next.fault = "none"
  BY <1>2, <1>3, <1>4, <1>12 DEF Sound, RoundDone
<1> QED BY <1>1, <1>13, <1>14, <1>15, <1>16, <1>17, <1>18 DEF Sound

\* What is in flight is left where a cancellation may find it.
LEMMA ActiveStops ==
  ASSUME NEW st, Sound(st), NEW e \in Active(st)
  PROVE  LET n == st.effects[e].node
         IN /\ n \in Nodes /\ st.effects[e].attempt = CurrentAttempt(st, n)
            /\ StoppedTo(st)[n] \in ClaimStates(st.effects[e].entry)
<1>1. /\ e \in TasksIn(st, EffectsOf(st)) /\ e \in EffectsOf(st) /\ st.effects[e].entry # "resolved"
      /\ st.effects[e].entry # "intended" /\ st \in State
  BY DEF Active, TasksIn, Unresolved, Sound
<1>2. PICK n \in Nodes, x \in {"dispatched", "unknown"} : n = st.effects[e].node /\ x = st.effects[e].entry
  BY <1>1, EffectsTyped
<1>3. st.effects[e].attempt = CurrentAttempt(st, n) /\ st.nodeStates[CellOf(st, e)] \in ClaimStates(x)
  BY <1>1, <1>2 DEF Sound, EntriesFit
<1>4. PICK now \in NodeStates \cup {None} : now = NodeStateAt(st, n)
  BY <1>1, CurrentTyped
<1>5. now \in ClaimStates(x)
  BY <1>2, <1>3, <1>4 DEF NodeStateAt, CellOf
<1>6. PICK active \in BOOLEAN : active <=> \E y \in Active(st) : st.effects[y].node = n
  OBVIOUS
<1>7. PICK unused \in BOOLEAN : unused <=> \E y \in Unused(st) : st.effects[y].node = n
  OBVIOUS
<1>8. active /\ ~unused
  BY <1>2, <1>6, <1>7, UnusedLeased
<1>9. StoppedTo(st)[n] =
        CASE now \in {None, "pending", "ready", "waiting"} -> "cancelled"
          [] now \in {"running", "verifying"} /\ ~active -> "cancelled"
          [] now \in {"running", "verifying", "leased"} /\ active -> "cancelling"
          [] OTHER -> IF unused THEN "cancelled" ELSE now
  BY <1>4, <1>6, <1>7 DEF StoppedTo
<1>10. None \notin NodeStates /\ {"leased", "unknown", "cancelling"} \subseteq NodeStates
  BY SessionAssumption DEF NodeStates
<1>11. CASE x = "dispatched"
  <2>1. now \in {"leased", "cancelling"} /\ now # None
    BY <1>5, <1>10, <1>11 DEF ClaimStates
  <2>2. StoppedTo(st)[n] = "cancelling"
    BY <1>8, <1>9, <2>1
  <2> QED BY <1>2, <1>3, <1>11, <2>2 DEF ClaimStates
<1>12. CASE x = "unknown"
  <2>1. now = "unknown" /\ now # None
    BY <1>5, <1>10, <1>12 DEF ClaimStates
  <2>2. StoppedTo(st)[n] = "unknown"
    BY <1>8, <1>9, <2>1
  <2> QED BY <1>2, <1>3, <1>12, <2>2 DEF ClaimStates
<1> QED BY <1>11, <1>12

\* A cancellation keeps the journal sound: it aims at all that is in flight, once.
LEMMA StopSound ==
  ASSUME NEW st, Sound(st), Active(st) # {} => Len(st.effects) < MaxEffects, NEW next, StopDone(st, next)
  PROVE  Sound(next)
<1>1. st \in State /\ next \in State /\ Len(st.effects) <= MaxEffects
  BY DEF Sound, StopDone
<1>2. PICK k \in Nat : k = Len(st.effects)
  BY <1>1, EffectsTyped
<1>3. PICK A : A = Active(st)
  OBVIOUS
<1>4. PICK j \in Nat : j = Len(next.effects) /\ j = k + IF A = {} THEN 0 ELSE 1
  BY <1>1, <1>2, <1>3, EffectsTyped DEF StopDone
<1>5. EffectsOf(st) = 1..k /\ EffectsOf(next) = 1..j /\ k <= j
  <2>1. k <= j
    BY <1>4
  <2> QED BY <1>1, <1>2, <1>4, <2>1, EffectsTyped
<1>6. \A x \in 1..k : next.effects[x] = IF x \in Unused(st) THEN Answered(st.effects[x], "not-executed") ELSE st.effects[x]
  BY <1>2 DEF StopDone
<1>7. ASSUME NEW x \in 1..k
      PROVE  LET g == Answered(st.effects[x], "not-executed")
             IN SameEffect(st.effects[x], g) /\ g.status # "unknown" /\ g.entry = "resolved" /\ g.status # None
  <2>1. st.effects[x] \in Effect /\ "not-executed" \in Statuses
    BY <1>1, <1>5, EffectsTyped DEF Statuses
  <2> QED BY <2>1, AnsweredFits
<1>8. \A x \in 1..k : SameEffect(st.effects[x], next.effects[x]) /\ CellOf(next, x) = CellOf(st, x)
  BY <1>6, <1>7 DEF SameEffect, CellOf
<1>9. ASSUME NEW x \in 1..j, x \notin 1..k
      PROVE  /\ A # {} /\ next.effects[x].kind = "host.cancel" /\ next.effects[x].entry = "intended"
             /\ next.effects[x].status = None /\ next.effects[x].targets = A
  <2>1. A # {} /\ x = k + 1
    BY <1>4, <1>9
  <2>2. next.effects[x] = CancelEffect(st)
    BY <1>2, <1>3, <2>1 DEF StopDone
  <2>3. PICK g : g = CancelEffect(st)
    OBVIOUS
  <2>4. g.kind = "host.cancel" /\ g.entry = "intended" /\ g.status = None /\ g.targets = A
    BY <1>3, <2>3 DEF CancelEffect
  <2> QED BY <2>1, <2>2, <2>3, <2>4
<1>10. A \subseteq 1..k /\ A \subseteq TasksIn(st, Unresolved(st))
  BY <1>3, <1>5 DEF Active, TasksIn, Unresolved
<1>11. ASSUME NEW x \in TasksIn(next, EffectsOf(next))
       PROVE  x \in 1..k /\ x \in TasksIn(st, EffectsOf(st))
  <2>1. x \in 1..j /\ next.effects[x].kind = "task"
    BY <1>5 DEF TasksIn
  <2>2. x \in 1..k
    BY <1>9, <2>1
  <2> QED BY <1>5, <1>8, <2>1, <2>2 DEF TasksIn, SameEffect
<1>12. TasksIn(st, EffectsOf(st)) \subseteq TasksIn(next, EffectsOf(next))
  BY <1>4, <1>5, <1>8 DEF TasksIn, SameEffect
<1>13. ASSUME NEW x \in TasksIn(next, EffectsOf(next)), next.effects[x].entry # "resolved"
       PROVE  x \in A /\ next.effects[x] = st.effects[x]
  <2>1. x \in 1..k /\ x \in TasksIn(st, EffectsOf(st)) /\ x \notin Unused(st)
    BY <1>6, <1>7, <1>11, <1>13
  <2>2. next.effects[x] = st.effects[x]
    BY <1>6, <2>1
  <2>3. x \in TasksIn(st, Unresolved(st))
    BY <1>13, <2>1, <2>2 DEF TasksIn, Unresolved
  <2> QED BY <1>3, <2>1, <2>2, <2>3 DEF Active, Unused
<1>14. TasksIn(next, Unresolved(next)) \subseteq A
  <2> SUFFICES ASSUME NEW x \in TasksIn(next, Unresolved(next)) PROVE x \in A
    OBVIOUS
  <2>1. x \in TasksIn(next, EffectsOf(next)) /\ next.effects[x].entry # "resolved"
    BY DEF TasksIn, Unresolved
  <2> QED BY <1>13, <2>1
<1>15. /\ SameAttempts(st, next) /\ next.fault = st.fault
       /\ next.dispatchMode = IF A = {} THEN "cancelled" ELSE "cancelling"
       /\ \A n \in Nodes, a \in Attempts :
            next.nodeStates[<<n, a>>] = IF a = CurrentAttempt(st, n) THEN StoppedTo(st)[n] ELSE st.nodeStates[<<n, a>>]
  BY <1>3 DEF StopDone
<1>16. StatusFits(next)
  <2> SUFFICES ASSUME NEW x \in 1..j
               PROVE  next.effects[x].status # "unknown" /\ (next.effects[x].entry = "resolved" <=> next.effects[x].status # None)
    BY <1>5 DEF StatusFits
  <2>1. CASE x \in 1..k
    <3>1. st.effects[x].status # "unknown" /\ (st.effects[x].entry = "resolved" <=> st.effects[x].status # None)
      BY <1>5, <2>1 DEF Sound, StatusFits
    <3>2. next.effects[x] = Answered(st.effects[x], "not-executed") \/ next.effects[x] = st.effects[x]
      BY <1>6, <2>1
    <3> QED BY <1>7, <2>1, <3>1, <3>2
  <2>2. CASE x \notin 1..k
    <3>1. None # "unknown"
      BY SessionAssumption DEF Statuses
    <3> QED BY <1>9, <2>2, <3>1
  <2> QED BY <2>1, <2>2
<1>17. EntriesFit(next)
  <2> SUFFICES ASSUME NEW x \in TasksIn(next, EffectsOf(next))
               PROVE  /\ next.effects[x].attempt <= CurrentAttempt(next, next.effects[x].node)
                      /\ next.effects[x].entry # "resolved" =>
                           /\ next.effects[x].attempt = CurrentAttempt(next, next.effects[x].node)
                           /\ next.nodeStates[CellOf(next, x)] \in ClaimStates(next.effects[x].entry)
    BY DEF EntriesFit
  <2>1. x \in 1..k /\ x \in TasksIn(st, EffectsOf(st)) /\ SameEffect(st.effects[x], next.effects[x])
    BY <1>8, <1>11
  <2>2. PICK n \in Nodes, a \in Attempts : n = st.effects[x].node /\ a = st.effects[x].attempt /\ CellOf(st, x) = <<n, a>>
    BY <1>1, <1>5, <2>1, EffectsTyped DEF CellOf
  <2>3. CurrentAttempt(next, n) = CurrentAttempt(st, n) /\ a <= CurrentAttempt(st, n)
    BY <1>15, <2>1, <2>2 DEF SameAttempts, Sound, EntriesFit
  <2>4. next.effects[x].node = n /\ next.effects[x].attempt = a /\ CellOf(next, x) = <<n, a>>
    BY <1>8, <2>1, <2>2 DEF SameEffect
  <2>5. ASSUME next.effects[x].entry # "resolved"
        PROVE  a = CurrentAttempt(st, n) /\ next.nodeStates[<<n, a>>] \in ClaimStates(next.effects[x].entry)
    <3>1. x \in Active(st) /\ next.effects[x] = st.effects[x]
      BY <1>3, <1>13, <2>5
    <3>2. a = CurrentAttempt(st, n) /\ StoppedTo(st)[n] \in ClaimStates(st.effects[x].entry)
      BY <2>2, <3>1, ActiveStops
    <3> QED BY <1>15, <3>1, <3>2
  <2> QED BY <2>3, <2>4, <2>5
<1>18. ClaimsFit(next)
  <2> SUFFICES ASSUME NEW x \in TasksIn(next, Unresolved(next)), NEW y \in TasksIn(next, Unresolved(next)), x # y
               PROVE  CellOf(next, x) # CellOf(next, y)
    BY DEF ClaimsFit
  <2>1. x \in 1..k /\ y \in 1..k /\ x \in TasksIn(st, Unresolved(st)) /\ y \in TasksIn(st, Unresolved(st))
    BY <1>10, <1>14
  <2> QED BY <1>8, <2>1 DEF Sound, ClaimsFit
<1>19. AttemptsFit(next)
  <2> SUFFICES ASSUME NEW n \in Nodes, NEW a \in Attempts PROVE AttemptFits(next, n, a)
    BY DEF AttemptsFit
  <2>1. AttemptFits(st, n, a) /\ CurrentAttempt(next, n) = CurrentAttempt(st, n)
    BY <1>15 DEF Sound, AttemptsFit, SameAttempts
  <2>2. CASE a # CurrentAttempt(st, n)
    <3>1. next.nodeStates[<<n, a>>] = st.nodeStates[<<n, a>>]
      BY <1>15, <2>2
    <3> QED BY <2>1, <3>1 DEF AttemptFits
  <2>3. CASE a = CurrentAttempt(st, n)
    <3>1. ~(a < a)
      BY SessionAssumption DEF Attempts
    <3> QED BY <2>1, <2>3, <3>1 DEF AttemptFits
  <2> QED BY <2>2, <2>3
<1>20. StopsFit(next)
  <2>1. next.dispatchMode = "cancelled" => TasksIn(next, Unresolved(next)) = {}
    BY <1>14, <1>15
  <2>2. next.dispatchMode \in {"cancelling", "cancelled"}
    BY <1>15
  <2>3. ASSUME NEW c \in EffectsOf(next) \ TasksIn(next, EffectsOf(next))
        PROVE  LET T == next.effects[c].targets
               IN /\ TasksIn(next, Unresolved(next)) \subseteq T /\ T \subseteq TasksIn(next, EffectsOf(next))
                  /\ \A x, y \in T : x # y => CellOf(next, x) # CellOf(next, y)
    <3>1. PICK T : /\ T = next.effects[c].targets /\ A \subseteq T /\ T \subseteq TasksIn(st, EffectsOf(st))
                   /\ \A x, y \in T : x # y => CellOf(st, x) # CellOf(st, y)
      <4>1. CASE c \in 1..k
        <5>1. c \in EffectsOf(st) \ TasksIn(st, EffectsOf(st)) /\ next.effects[c].targets = st.effects[c].targets
          BY <1>5, <1>8, <1>12, <2>3, <4>1 DEF TasksIn, SameEffect
        <5>2. PICK T : T = st.effects[c].targets
          OBVIOUS
        <5>3. /\ TasksIn(st, Unresolved(st)) \subseteq T /\ T \subseteq TasksIn(st, EffectsOf(st))
              /\ \A x, y \in T : x # y => CellOf(st, x) # CellOf(st, y)
          BY <5>1, <5>2 DEF Sound, StopsFit
        <5> QED BY <1>10, <5>1, <5>2, <5>3
      <4>2. CASE c \notin 1..k
        <5>1. next.effects[c].targets = A
          BY <1>5, <1>9, <2>3, <4>2
        <5>2. A \subseteq TasksIn(st, EffectsOf(st))
          BY <1>10 DEF TasksIn, Unresolved
        <5>3. \A x, y \in A : x # y => CellOf(st, x) # CellOf(st, y)
          BY <1>10 DEF Sound, ClaimsFit
        <5> QED BY <5>1, <5>2, <5>3
      <4> QED BY <4>1, <4>2
    <3>2. T \subseteq 1..k
      BY <1>5, <3>1 DEF TasksIn
    <3>3. \A x, y \in T : x # y => CellOf(next, x) # CellOf(next, y)
      BY <1>8, <3>1, <3>2
    <3> QED BY <1>12, <1>14, <3>1, <3>3
  <2> QED BY <2>1, <2>2, <2>3 DEF StopsFit
<1>21. Len(next.effects) <= MaxEffects /\ next.fault = "none"
  <2>1. next.fault = "none"
    BY <1>15 DEF Sound
  <2>2. MaxEffects \in Nat
    BY SessionAssumption
  <2>3. j <= MaxEffects
    <3>1. CASE A = {}
      BY <1>1, <1>2, <1>4, <3>1
    <3>2. CASE A # {}
      <4>1. k < MaxEffects
        BY <1>2, <1>3, <3>2
      <4> QED BY <1>4, <2>2, <3>2, <4>1
    <3> QED BY <3>1, <3>2
  <2> QED BY <1>4, <2>1, <2>3
<1> QED BY <1>1, <1>16, <1>17, <1>18, <1>19, <1>20, <1>21 DEF Sound

\* next leaves the claimed attempts of st where they are, and the others at rest.
ClaimsKeep(st, next) ==
  /\ \A e \in TasksIn(st, Unresolved(st)) :
       /\ next.nodeStates[CellOf(st, e)] = st.nodeStates[CellOf(st, e)]
       /\ CurrentAttempt(next, st.effects[e].node) = CurrentAttempt(st, st.effects[e].node)
  /\ \A m \in Nodes : CurrentAttempt(st, m) <= CurrentAttempt(next, m)
  /\ \A m \in Nodes, b \in Attempts : AttemptFits(next, m, b)

\* A decision keeps the journal sound: what it moves nothing claims.
LEMMA DecisionSound ==
  ASSUME NEW st, Sound(st), NEW n \in Nodes, NEW x, NEW next, DecisionDone(st, next, n, x),
         NodeStateAt(st, n) = "verifying"
  PROVE  Sound(next) /\ next.effects = st.effects
<1>1. st \in State /\ next \in State /\ SameBut(st, next)
  BY DEF Sound, DecisionDone
<1>2. PICK a \in Attempts : a = CurrentAttempt(st, n) /\ st.nodeStates[<<n, a>>] = "verifying"
  BY <1>1, CurrentTyped DEF NodeStateAt
<1>3. /\ \A m \in Nodes : CurrentAttempt(st, m) \in Attempts /\ CurrentAttempt(next, m) \in Attempts
      /\ Attempts \subseteq Nat
  BY <1>1, CurrentTyped, SessionAssumption DEF Attempts
<1>4. st.nodeStates \in [Nodes \X Attempts -> NodeStates \cup {None}] /\ None \notin NodeStates
  BY <1>1, SessionAssumption DEF State, RuntimeState
<1>5. ASSUME NEW e \in TasksIn(st, Unresolved(st)), NEW p, p = st.effects[e].node
      PROVE  /\ p \in Nodes /\ p # n /\ CellOf(st, e) = <<p, CurrentAttempt(st, p)>>
             /\ NodeStateAt(st, p) \in {"leased", "cancelling", "unknown"}
  <2>1. e \in TasksIn(st, EffectsOf(st)) /\ e \in EffectsOf(st) /\ st.effects[e].entry # "resolved"
    BY DEF TasksIn, Unresolved
  <2>2. p \in Nodes /\ st.effects[e].entry \in {"intended", "dispatched", "unknown"}
    BY <1>1, <1>5, <2>1, EffectsTyped
  <2>3. st.effects[e].attempt = CurrentAttempt(st, p) /\ st.nodeStates[CellOf(st, e)] \in ClaimStates(st.effects[e].entry)
    BY <1>5, <2>1 DEF Sound, EntriesFit
  <2>4. CellOf(st, e) = <<p, CurrentAttempt(st, p)>>
    BY <1>5, <2>3 DEF CellOf
  <2>5. NodeStateAt(st, p) \in ClaimStates(st.effects[e].entry)
    BY <2>3, <2>4 DEF NodeStateAt
  <2>6. NodeStateAt(st, p) \in {"leased", "cancelling", "unknown"}
    BY <2>2, <2>5 DEF ClaimStates
  <2> QED BY <2>2, <2>4, <2>6
<1>6. ClaimsKeep(st, next)
  <2>1. CASE SameAttempts(st, next) /\ next.nodeStates = [st.nodeStates EXCEPT ![<<n, a>>] = x]
    <3>1. ASSUME NEW e \in TasksIn(st, Unresolved(st))
          PROVE  /\ next.nodeStates[CellOf(st, e)] = st.nodeStates[CellOf(st, e)]
                 /\ CurrentAttempt(next, st.effects[e].node) = CurrentAttempt(st, st.effects[e].node)
      <4>1. PICK p \in Nodes, b \in Attempts : p = st.effects[e].node /\ p # n /\ CellOf(st, e) = <<p, b>>
        BY <1>3, <1>5
      <4>2. next.nodeStates[<<p, b>>] = st.nodeStates[<<p, b>>]
        BY <1>4, <2>1, <4>1
      <4> QED BY <2>1, <4>1, <4>2 DEF SameAttempts
    <3>2. ASSUME NEW m \in Nodes PROVE CurrentAttempt(st, m) <= CurrentAttempt(next, m)
      <4>1. PICK o \in Nat : o = CurrentAttempt(st, m) /\ o = CurrentAttempt(next, m)
        BY <1>3, <2>1 DEF SameAttempts
      <4> QED BY <4>1
    <3>3. ASSUME NEW m \in Nodes, NEW b \in Attempts PROVE AttemptFits(next, m, b)
      <4>1. AttemptFits(st, m, b) /\ CurrentAttempt(next, m) = CurrentAttempt(st, m)
        BY <2>1 DEF Sound, AttemptsFit, SameAttempts
      <4>2. CASE m = n /\ b = a
        <5>1. ~(a < a)
          BY <1>3
        <5> QED BY <1>2, <4>1, <4>2, <5>1 DEF AttemptFits
      <4>3. CASE ~(m = n /\ b = a)
        <5>1. next.nodeStates[<<m, b>>] = st.nodeStates[<<m, b>>]
          BY <1>2, <1>4, <2>1, <4>3
        <5> QED BY <4>1, <5>1 DEF AttemptFits
      <4> QED BY <4>2, <4>3
    <3> QED BY <3>1, <3>2, <3>3 DEF ClaimsKeep
  <2>2. ASSUME NEW m \in Nodes \ {n}, NodeStateAt(st, m) \in {None, "waiting"}, SameAttempts(st, next),
               NEW c \in Attempts, c = CurrentAttempt(st, m),
               next.nodeStates = [st.nodeStates EXCEPT ![<<n, a>>] = x, ![<<m, c>>] = "pending"]
        PROVE  ClaimsKeep(st, next)
    <3>1. ASSUME NEW e \in TasksIn(st, Unresolved(st))
          PROVE  /\ next.nodeStates[CellOf(st, e)] = st.nodeStates[CellOf(st, e)]
                 /\ CurrentAttempt(next, st.effects[e].node) = CurrentAttempt(st, st.effects[e].node)
      <4>1. PICK p \in Nodes, b \in Attempts : /\ p = st.effects[e].node /\ p # n /\ CellOf(st, e) = <<p, b>>
                                               /\ NodeStateAt(st, p) \in {"leased", "cancelling", "unknown"}
        BY <1>3, <1>5
      <4>2. p # m
        BY <1>4, <2>2, <4>1 DEF NodeStates
      <4>3. next.nodeStates[<<p, b>>] = st.nodeStates[<<p, b>>]
        BY <1>4, <2>2, <4>1, <4>2
      <4> QED BY <2>2, <4>1, <4>3 DEF SameAttempts
    <3>2. ASSUME NEW q \in Nodes PROVE CurrentAttempt(st, q) <= CurrentAttempt(next, q)
      <4>1. PICK o \in Nat : o = CurrentAttempt(st, q) /\ o = CurrentAttempt(next, q)
        BY <1>3, <2>2 DEF SameAttempts
      <4> QED BY <4>1
    <3>3. ASSUME NEW q \in Nodes, NEW b \in Attempts PROVE AttemptFits(next, q, b)
      <4>1. AttemptFits(st, q, b) /\ CurrentAttempt(next, q) = CurrentAttempt(st, q)
        BY <2>2 DEF Sound, AttemptsFit, SameAttempts
      <4>2. CASE b = CurrentAttempt(st, q)
        <5>1. ~(b < b)
          BY <1>3
        <5> QED BY <4>1, <4>2, <5>1 DEF AttemptFits
      <4>3. CASE b # CurrentAttempt(st, q)
        <5>1. next.nodeStates[<<q, b>>] = st.nodeStates[<<q, b>>]
          BY <1>2, <1>4, <2>2, <4>3
        <5> QED BY <4>1, <5>1 DEF AttemptFits
      <4> QED BY <4>2, <4>3
    <3> QED BY <3>1, <3>2, <3>3 DEF ClaimsKeep
  <2>3. ASSUME NEW m \in Nodes, NEW c \in Attempts, c = CurrentAttempt(st, m) + 1, x = "failed",
               m = n \/ NodeStateAt(st, m) \notin {"leased", "running", "verifying", "unknown", "cancelling"},
               \A q \in Nodes : CurrentAttempt(next, q) = IF q = m THEN c ELSE CurrentAttempt(st, q),
               next.nodeStates = [st.nodeStates EXCEPT ![<<n, a>>] = x, ![<<m, c>>] = "pending"]
        PROVE  ClaimsKeep(st, next)
    <3>1. ASSUME NEW e \in TasksIn(st, Unresolved(st))
          PROVE  /\ next.nodeStates[CellOf(st, e)] = st.nodeStates[CellOf(st, e)]
                 /\ CurrentAttempt(next, st.effects[e].node) = CurrentAttempt(st, st.effects[e].node)
      <4>1. PICK p \in Nodes, b \in Attempts : /\ p = st.effects[e].node /\ p # n /\ CellOf(st, e) = <<p, b>>
                                               /\ NodeStateAt(st, p) \in {"leased", "cancelling", "unknown"}
        BY <1>3, <1>5
      <4>2. p # m
        BY <2>3, <4>1
      <4>3. next.nodeStates[<<p, b>>] = st.nodeStates[<<p, b>>]
        BY <1>4, <2>3, <4>1, <4>2
      <4> QED BY <2>3, <4>1, <4>2, <4>3
    <3>2. ASSUME NEW q \in Nodes PROVE CurrentAttempt(st, q) <= CurrentAttempt(next, q)
      <4>1. PICK o \in Nat, y \in Nat : o = CurrentAttempt(st, q) /\ y = CurrentAttempt(next, q)
        BY <1>3
      <4>2. CASE q = m
        BY <2>3, <4>1, <4>2
      <4>3. CASE q # m
        BY <2>3, <4>1, <4>3
      <4> QED BY <4>2, <4>3
    <3>3. ASSUME NEW q \in Nodes, NEW b \in Attempts PROVE AttemptFits(next, q, b)
      <4>1. AttemptFits(st, q, b)
        BY DEF Sound, AttemptsFit
      <4>2. PICK o \in Nat, y \in Nat : o = CurrentAttempt(st, q) /\ y = CurrentAttempt(next, q)
        BY <1>3
      <4>3. b \in Nat
        BY <1>3
      <4>4. CASE <<q, b>> = <<m, c>>
        <5>1. y = b /\ ~(b < b)
          BY <2>3, <4>2, <4>3, <4>4
        <5> QED BY <4>2, <5>1 DEF AttemptFits
      <4>5. CASE <<q, b>> = <<n, a>> /\ <<q, b>> # <<m, c>>
        <5>1. next.nodeStates[<<q, b>>] = "failed"
          BY <1>2, <1>4, <2>3, <4>5
        <5>2. b = o /\ o <= y
          BY <1>2, <3>2, <4>2, <4>5
        <5>3. ~(b > y)
          BY <4>2, <4>3, <5>2
        <5> QED BY <4>2, <5>1, <5>3 DEF AttemptFits
      <4>6. CASE <<q, b>> # <<n, a>> /\ <<q, b>> # <<m, c>>
        <5>1. next.nodeStates[<<q, b>>] = st.nodeStates[<<q, b>>]
          BY <1>2, <1>4, <2>3, <4>6
        <5>2. CASE q # m
          BY <2>3, <4>1, <5>1, <5>2 DEF AttemptFits
        <5>3. CASE q = m
          <6>1. y = o + 1 /\ b # y
            BY <2>3, <4>2, <4>6, <5>3
          <6>2. b < o \/ b = o \/ b > y
            BY <4>2, <4>3, <6>1
          <6>3. CASE b > y
            <7>1. b > o /\ ~(b < y)
              BY <4>2, <4>3, <6>1, <6>3
            <7> QED BY <4>1, <4>2, <5>1, <7>1 DEF AttemptFits
          <6>4. CASE b < o
            <7>1. b < o /\ ~(b > y)
              BY <4>2, <4>3, <6>1, <6>4
            <7> QED BY <4>1, <4>2, <5>1, <7>1 DEF AttemptFits
          <6>5. CASE b = o
            <7>1. m # n
              BY <1>2, <4>2, <4>6, <5>3, <6>5
            <7>2. st.nodeStates[<<q, b>>] \notin {"leased", "running", "verifying", "unknown", "cancelling"}
              BY <2>3, <4>2, <5>3, <6>5, <7>1 DEF NodeStateAt
            <7>3. ~(b > y)
              BY <4>2, <4>3, <6>1, <6>5
            <7> QED BY <4>2, <5>1, <7>2, <7>3 DEF AttemptFits
          <6> QED BY <6>2, <6>3, <6>4, <6>5
        <5> QED BY <5>2, <5>3
      <4> QED BY <4>4, <4>5, <4>6
    <3> QED BY <3>1, <3>2, <3>3 DEF ClaimsKeep
  <2>4. \/ SameAttempts(st, next) /\ next.nodeStates = [st.nodeStates EXCEPT ![<<n, a>>] = x]
        \/ \E m \in Nodes \ {n} :
             /\ NodeStateAt(st, m) \in {None, "waiting"} /\ SameAttempts(st, next)
             /\ next.nodeStates = [st.nodeStates EXCEPT ![<<n, a>>] = x, ![<<m, CurrentAttempt(st, m)>>] = "pending"]
        \/ \E m \in Nodes : \E c \in Attempts :
             /\ c = CurrentAttempt(st, m) + 1 /\ x = "failed"
             /\ m = n \/ NodeStateAt(st, m) \notin {"leased", "running", "verifying", "unknown", "cancelling"}
             /\ \A q \in Nodes : CurrentAttempt(next, q) = IF q = m THEN c ELSE CurrentAttempt(st, q)
             /\ next.nodeStates = [st.nodeStates EXCEPT ![<<n, a>>] = x, ![<<m, c>>] = "pending"]
    BY <1>2 DEF DecisionDone
  <2>5. ASSUME NEW m \in Nodes \ {n}, NodeStateAt(st, m) \in {None, "waiting"}, SameAttempts(st, next),
               next.nodeStates = [st.nodeStates EXCEPT ![<<n, a>>] = x, ![<<m, CurrentAttempt(st, m)>>] = "pending"]
        PROVE  ClaimsKeep(st, next)
    <3>1. PICK c \in Attempts : c = CurrentAttempt(st, m)
      BY <1>3
    <3> QED BY <2>2, <2>5, <3>1
  <2> QED BY <2>1, <2>3, <2>4, <2>5
<1>7. next.effects = st.effects /\ next.fault = st.fault /\ next.dispatchMode = st.dispatchMode
  BY <1>1 DEF SameBut
<1>8. /\ EffectsOf(next) = EffectsOf(st) /\ Unresolved(next) = Unresolved(st) /\ \A e : CellOf(next, e) = CellOf(st, e)
      /\ \A E : TasksIn(next, E) = TasksIn(st, E)
  BY <1>7 DEF EffectsOf, Unresolved, CellOf, TasksIn
<1>9. StatusFits(next) /\ ClaimsFit(next) /\ StopsFit(next) /\ AttemptsFit(next)
  <2>1. StatusFits(next)
    BY <1>7, <1>8 DEF StatusFits, Sound
  <2>2. ClaimsFit(next)
    BY <1>7, <1>8 DEF ClaimsFit, Sound
  <2>3. StopsFit(next)
    BY <1>7, <1>8 DEF StopsFit, Sound
  <2> QED BY <1>6, <2>1, <2>2, <2>3 DEF AttemptsFit, ClaimsKeep
<1>10. EntriesFit(next)
  <2> SUFFICES ASSUME NEW e \in TasksIn(st, EffectsOf(st))
               PROVE  /\ st.effects[e].attempt <= CurrentAttempt(next, st.effects[e].node)
                      /\ st.effects[e].entry # "resolved" =>
                           /\ st.effects[e].attempt = CurrentAttempt(next, st.effects[e].node)
                           /\ next.nodeStates[CellOf(st, e)] \in ClaimStates(st.effects[e].entry)
    BY <1>7, <1>8 DEF EntriesFit
  <2>1. /\ st.effects[e].attempt <= CurrentAttempt(st, st.effects[e].node)
        /\ st.effects[e].entry # "resolved" =>
             /\ st.effects[e].attempt = CurrentAttempt(st, st.effects[e].node)
             /\ st.nodeStates[CellOf(st, e)] \in ClaimStates(st.effects[e].entry)
    BY DEF Sound, EntriesFit
  <2>2. e \in EffectsOf(st) /\ st.effects[e].node \in Nodes /\ st.effects[e].attempt \in Attempts
    BY <1>1, EffectsTyped DEF TasksIn
  <2>3. st.effects[e].attempt <= CurrentAttempt(next, st.effects[e].node)
    <3>1. PICK p \in Nodes : p = st.effects[e].node
      BY <2>2
    <3>2. PICK b \in Nat, o \in Nat, y \in Nat : b = st.effects[e].attempt /\ o = CurrentAttempt(st, p) /\ y = CurrentAttempt(next, p)
      BY <1>3, <2>2
    <3>3. b <= o /\ o <= y
      BY <1>6, <2>1, <3>1, <3>2 DEF ClaimsKeep
    <3> QED BY <3>1, <3>2, <3>3
  <2>4. st.effects[e].entry # "resolved" => e \in TasksIn(st, Unresolved(st))
    BY DEF TasksIn, Unresolved
  <2> QED BY <1>6, <2>1, <2>3, <2>4 DEF ClaimsKeep
<1> QED BY <1>1, <1>7, <1>9, <1>10 DEF Sound

\* A pause or a resumption moves the session and none of its effects.
Steers(st, next) ==
  /\ next \in State /\ SameAttempts(st, next) /\ next.fault = st.fault
  /\ next.effects = st.effects /\ next.nodeStates = st.nodeStates
  /\ next.dispatchMode \in {"active", "paused"}

\* What a pause does, and what a resumption does (pauseSession, resumeSession).
LEMMA ControlPlanned ==
  ASSUME NEW st \in State
  PROVE  /\ Steers(st, After(st, <<Mode("paused")>>))
         /\ \A epoch \in 1..MaxEpoch : Steers(st, After(st, <<EpochChanged(epoch), Mode("active")>>))
<1>1. ASSUME NEW q \in State, NEW m \in {"active", "paused"}
      PROVE  Steers(q, Reduce(q, Mode(m)))
  <2>1. Reduce(q, Mode(m)) = [q EXCEPT !.dispatchMode = m] /\ Reduce(q, Mode(m)) \in State
    BY ModeSets
  <2>2. PICK next \in State : next = Reduce(q, Mode(m)) /\ next = [q EXCEPT !.dispatchMode = m]
    BY <2>1
  <2>3. /\ next.effects = q.effects /\ next.nodeStates = q.nodeStates /\ next.attempts = q.attempts
        /\ next.fault = q.fault /\ next.dispatchMode = m
    BY <2>2 DEF State, RuntimeState
  <2> QED BY <2>2, <2>3 DEF Steers, SameAttempts, CurrentAttempt
<1>2. Steers(st, After(st, <<Mode("paused")>>))
  <2>1. After(st, <<Mode("paused")>>) = Reduce(st, Mode("paused"))
    BY AfterFew
  <2> QED BY <1>1, <2>1
<1>3. ASSUME NEW epoch \in 1..MaxEpoch
      PROVE  Steers(st, After(st, <<EpochChanged(epoch), Mode("active")>>))
  <2>1. PICK ev, m : ev = EpochChanged(epoch) /\ m = Mode("active")
    OBVIOUS
  <2>2. <<ev>> \in Seq({ev, m}) /\ <<m>> \in Seq({ev, m}) /\ <<ev, m>> = <<ev>> \o <<m>>
    <3>1. PICK S : S = {ev, m}
      OBVIOUS
    <3>2. PICK x \in S, y \in S : x = ev /\ y = m
      BY <3>1
    <3>3. <<x>> \in Seq(S)
      OBVIOUS
    <3>4. <<y>> \in Seq(S)
      OBVIOUS
    <3>5. <<x, y>> = <<x>> \o <<y>>
      <4>1. PICK a \in Seq(S), b \in Seq(S) : a = <<x>> /\ b = <<y>> /\ Len(a) = 1 /\ Len(b) = 1 /\ a[1] = x /\ b[1] = y
        BY <3>3, <3>4
      <4>2. PICK c \in Seq(S) : c = <<x, y>> /\ Len(c) = 2 /\ c[1] = x /\ c[2] = y
        <5>1. <<x, y>> \in Seq(S) /\ Len(<<x, y>>) = 2 /\ <<x, y>>[1] = x /\ <<x, y>>[2] = y
          OBVIOUS
        <5> QED BY <5>1
      <4>3. PICK d \in Seq(S) : d = a \o b /\ Len(d) = 2 /\ d[1] = x /\ d[2] = y
        <5>1. a \o b \in Seq(S) /\ Len(a \o b) = 2 /\ (a \o b)[1] = x /\ (a \o b)[2] = y
          BY <4>1, ConcatProperties
        <5> QED BY <5>1
      <4>4. \A i \in 1..Len(c) : c[i] = d[i]
        BY <4>2, <4>3
      <4>5. c = d
        BY <4>2, <4>3, <4>4, SeqEqual
      <4> QED BY <4>1, <4>2, <4>3, <4>5
    <3> QED BY <3>1, <3>2, <3>3, <3>4, <3>5
  <2>3. PICK a \in Seq({ev, m}), b \in Seq({ev, m}) : a = <<ev>> /\ b = <<m>> /\ <<ev, m>> = a \o b
    BY <2>2
  <2>4. After(st, a \o b) = After(After(st, a), b)
    BY AfterConcat
  <2>5. After(st, a) = Reduce(st, ev) /\ \A q : After(q, b) = Reduce(q, m)
    BY <2>3, AfterFew
  <2>6. PICK q : q = Reduce(st, ev)
    OBVIOUS
  <2>7. ev.type = "session.epoch-changed" /\ ev.epoch = epoch
    BY <2>1 DEF EpochChanged
  <2>8. q = [st EXCEPT !.epoch = epoch]
    BY <2>6, <2>7, ReduceField
  <2>9. /\ q \in State /\ q.effects = st.effects /\ q.nodeStates = st.nodeStates /\ q.attempts = st.attempts
        /\ q.fault = st.fault
    BY <2>8 DEF State, RuntimeState
  <2>10. Steers(q, Reduce(q, m))
    BY <1>1, <2>1, <2>9
  <2>11. SameAttempts(st, q)
    BY <2>9 DEF SameAttempts, CurrentAttempt
  <2>12. PICK next : next = Reduce(q, m) /\ Steers(q, next)
    BY <2>10
  <2>13. Steers(st, next)
    BY <2>9, <2>11, <2>12 DEF Steers, SameAttempts
  <2> QED BY <2>1, <2>3, <2>4, <2>5, <2>6, <2>12, <2>13
<1> QED BY <1>2, <1>3

\* A pause or a resumption of a session that is not cancelled keeps the journal sound.
LEMMA ControlSound ==
  ASSUME NEW st, Sound(st), st.dispatchMode \in {"active", "paused"}, NEW next, Steers(st, next)
  PROVE  Sound(next)
<1>1. st \in State /\ next \in State /\ next.effects = st.effects /\ next.nodeStates = st.nodeStates
  BY DEF Sound, Steers
<1>2. /\ EffectsOf(next) = EffectsOf(st) /\ Unresolved(next) = Unresolved(st) /\ \A e : CellOf(next, e) = CellOf(st, e)
      /\ \A E : TasksIn(next, E) = TasksIn(st, E)
  BY <1>1 DEF EffectsOf, Unresolved, CellOf, TasksIn
<1>3. EffectsOf(st) \ TasksIn(st, EffectsOf(st)) = {}
  BY DEF Sound, StopsFit
<1>4. StatusFits(next)
  BY <1>1, <1>2 DEF StatusFits, Sound
<1>5. ClaimsFit(next)
  BY <1>1, <1>2 DEF ClaimsFit, Sound
<1>6. StopsFit(next)
  BY <1>2, <1>3 DEF StopsFit, Steers
<1>7. AttemptsFit(next)
  BY <1>1 DEF AttemptsFit, AttemptFits, Sound, Steers, SameAttempts
<1>8. EntriesFit(next)
  <2> SUFFICES ASSUME NEW e \in TasksIn(st, EffectsOf(st))
               PROVE  /\ st.effects[e].attempt <= CurrentAttempt(next, st.effects[e].node)
                      /\ st.effects[e].entry # "resolved" =>
                           /\ st.effects[e].attempt = CurrentAttempt(next, st.effects[e].node)
                           /\ st.nodeStates[CellOf(st, e)] \in ClaimStates(st.effects[e].entry)
    BY <1>1, <1>2 DEF EntriesFit
  <2>1. st.effects[e].node \in Nodes
    BY <1>1, EffectsTyped DEF TasksIn
  <2>2. CurrentAttempt(next, st.effects[e].node) = CurrentAttempt(st, st.effects[e].node)
    BY <2>1 DEF Steers, SameAttempts
  <2> QED BY <2>2 DEF Sound, EntriesFit
<1> QED BY <1>1, <1>4, <1>5, <1>6, <1>7, <1>8 DEF Sound, Steers

-----------------------------------------------------------------------------
(* The invariant: the journal, the host and the operations fit together.       *)

\* An effect and what became of it on the host.
HostFits(f, h) ==
  /\ h.calls <= 1
  /\ h.calls > 0 => f.entry # "intended"
  /\ h.fate = "ran" => h.calls > 0
  /\ f.kind = "task" /\ f.entry = "resolved" /\ h.calls > 0 => h.fate # "none"
  /\ f.status = "completed" => h.fate = "ran"
  /\ f.status = "not-executed" => h.fate # "ran"

\* The host is in step with the journal, and has not heard of an effect that is not in it.
HostFit(st, h) ==
  /\ \A e \in EffectsOf(st) : HostFits(st.effects[e], h[e])
  /\ \A e \in Effects \ EffectsOf(st) : h[e].calls = 0 /\ h[e].fate = "none"

\* What operation t, in local state th, has in hand.
ThreadFits(th, t, run, st, h) ==
  LET e == Head(th.queue)
  IN /\ th \in Thread /\ th.queue \in Seq(EffectsOf(st)) /\ th.targets \subseteq EffectsOf(st)
     /\ th.pc \in {"calling", "executing"} => th.queue # <<>>
     /\ th.pc = "calling" => /\ run = t /\ st.effects[e].entry = "dispatched" /\ h[e].calls = 0
                             /\ st.effects[e].kind = "task" => st.dispatchMode = "active"
     /\ th.pc = "evaluating" /\ th.fresh =>
          \E x \in TasksIn(st, EffectsOf(st)) : th.targets = {x} /\ Evaluable(st, x)

\* What the host keeps of an effect.
HostState == [calls : Nat, fate : {"none", "ran", "refused"}]

\* The inductive invariant: a sound journal, a host in step with it, and in every operation under
\* way what it has read before its last await and still relies on.
Fits ==
  /\ Sound(s) /\ graph \in Graphs /\ running \in Threads \cup {None}
  /\ threads \in [Threads -> Thread] /\ host \in [Effects -> HostState] /\ expired \subseteq EffectsOf(s)
  /\ HostFit(s, host)
  /\ \A t \in Threads : ThreadFits(threads[t], t, running, s, host)

\* What a host says of an effect fits what it did (executeEffect, appendReceipt).
LEMMA HeardFits ==
  ASSUME NEW st, Sound(st), NEW next \in State, NEW h \in [Effects -> HostState], HostFit(st, h),
         NEW e \in EffectsOf(st), NEW status \in Statuses, Heard(st, next, e, status),
         status = "failed" => st.effects[e].kind # "task" \/ h[e].fate = "ran",
         status = "completed" => st.effects[e].kind = "task" /\ h[e].fate = "ran",
         status = "not-executed" => st.effects[e].kind = "task" /\ h[e].fate = "refused",
         status = "cancelled" =>
           \A x \in IF st.effects[e].kind = "task" THEN {e} ELSE st.effects[e].targets : h[x].fate # "none"
  PROVE  HostFit(next, h) /\ EffectsOf(next) = EffectsOf(st)
<1>1. st \in State /\ EffectsOf(next) = EffectsOf(st)
  <2>1. st \in State
    BY DEF Sound
  <2> QED BY <2>1, EffectsTyped DEF Heard
<1>2. ASSUME NEW x \in EffectsOf(st) PROVE HostFits(next.effects[x], h[x])
  <2>1. HostFits(st.effects[x], h[x]) /\ st.effects[x] \in Effect
    BY <1>1, EffectsTyped DEF HostFit
  <2>2. CASE next.effects[x] = st.effects[x]
    BY <2>1, <2>2
  <2>3. ASSUME NEW word \in Statuses, next.effects[x] = Answered(st.effects[x], word),
               word = "failed" => st.effects[x].kind # "task" \/ h[x].fate = "ran",
               word = "completed" => h[x].fate = "ran",
               word = "not-executed" => h[x].fate = "refused",
               word = "cancelled" => st.effects[x].kind # "task" \/ h[x].fate # "none"
        PROVE  HostFits(next.effects[x], h[x])
    <3>1. PICK g : g = next.effects[x] /\ g = Answered(st.effects[x], word)
      BY <2>3
    <3>2. /\ SameEffect(st.effects[x], g)
          /\ g.entry = IF word = "unknown" THEN "unknown" ELSE "resolved"
          /\ g.status = IF word = "unknown" THEN None ELSE word
      BY <2>1, <3>1, AnsweredFits
    <3>3. None \notin Statuses /\ word \in {"completed", "failed", "cancelled", "not-executed", "unknown"}
      BY SessionAssumption DEF Statuses
    <3>4. g.entry # "intended" /\ g.kind = st.effects[x].kind
      BY <3>2 DEF SameEffect
    <3>5. g.kind = "task" /\ g.entry = "resolved" => h[x].fate # "none"
      BY <2>3, <3>2, <3>3, <3>4
    <3>6. (g.status = "completed" => h[x].fate = "ran") /\ (g.status = "not-executed" => h[x].fate # "ran")
      BY <2>3, <3>2, <3>3 DEF Statuses
    <3> QED BY <2>1, <3>1, <3>4, <3>5, <3>6 DEF HostFits
  <2>4. CASE x = e /\ next.effects[x] = Answered(st.effects[x], status)
    BY <2>3, <2>4
  <2>5. CASE /\ st.effects[e].kind # "task" /\ x \in st.effects[e].targets /\ status = "cancelled"
             /\ next.effects[x] = Answered(st.effects[x], "cancelled")
    BY <2>3, <2>5
  <2> QED BY <2>2, <2>4, <2>5 DEF Heard
<1> QED BY <1>1, <1>2 DEF HostFit

\* An effect that is new has not reached the host.
LEMMA GrowsFits ==
  ASSUME NEW st \in State, NEW next \in State, NEW h \in [Effects -> HostState], HostFit(st, h),
         Len(next.effects) <= MaxEffects, EffectsOf(st) \subseteq EffectsOf(next),
         \A x \in EffectsOf(st) : HostFits(next.effects[x], h[x]),
         \A x \in EffectsOf(next) \ EffectsOf(st) : next.effects[x].entry = "intended" /\ next.effects[x].status = None
  PROVE  HostFit(next, h)
<1>1. EffectsOf(next) \subseteq Effects
  <2>1. EffectsOf(next) = 1..Len(next.effects) /\ Len(next.effects) \in Nat /\ MaxEffects \in Nat
    BY EffectsTyped, SessionAssumption
  <2> QED BY <2>1 DEF Effects
<1>2. ASSUME NEW x \in EffectsOf(next) \ EffectsOf(st) PROVE HostFits(next.effects[x], h[x])
  <2>1. h[x].calls = 0 /\ h[x].fate = "none"
    BY <1>1 DEF HostFit
  <2>2. next.effects[x].entry = "intended" /\ next.effects[x].status = None
    OBVIOUS
  <2>3. None \notin Statuses
    BY SessionAssumption
  <2> QED BY <2>1, <2>2, <2>3 DEF HostFits, Statuses
<1>3. \A x \in Effects \ EffectsOf(next) : h[x].calls = 0 /\ h[x].fate = "none"
  BY DEF HostFit
<1> QED BY <1>2, <1>3 DEF HostFit

\* The effects a dispatcher takes up are effects of the journal (nextEffects).
LEMMA NextEffectsTyped ==
  ASSUME NEW st \in State
  PROVE  NextEffects(st) \in Seq(EffectsOf(st))
<1>1. PICK E : E = EffectsOf(st)
  OBVIOUS
<1>2. PICK k \in Nat : E = 1..k
  BY <1>1, EffectsTyped
<1>3. PICK seqs : seqs = [e \in EffectsOf(st) |->
                  IF st.effects[e].entry = "intended" /\ st.effects[e].epoch = st.epoch THEN <<e>> ELSE <<>>]
  OBVIOUS
<1>4. seqs \in [1..k -> Seq(E)]
  <2>1. ASSUME NEW e \in 1..k PROVE seqs[e] \in Seq(E)
    <3>1. PICK x \in E : x = e
      BY <1>2
    <3>2. <<x>> \in Seq(E)
      OBVIOUS
    <3>3. <<>> \in Seq(E)
      OBVIOUS
    <3>4. seqs[e] = <<x>> \/ seqs[e] = <<>>
      BY <1>1, <1>2, <1>3, <3>1
    <3> QED BY <3>2, <3>3, <3>4
  <2>2. DOMAIN seqs = 1..k /\ seqs = [e \in 1..k |-> seqs[e]]
    BY <1>1, <1>2, <1>3
  <2> QED BY <2>1, <2>2
<1>5. seqs \in Seq(Seq(E))
  <2>1. PICK S : S = Seq(E)
    OBVIOUS
  <2>2. seqs \in [1..k -> S]
    BY <1>4, <2>1
  <2>3. seqs \in Seq(S)
    BY <2>2
  <2> QED BY <2>1, <2>3
<1>6. FlattenSeq(seqs) \in Seq(E)
  BY <1>5, FlattenHolds
<1>7. NextEffects(st) = FlattenSeq(seqs)
  BY <1>3 DEF NextEffects
<1> QED BY <1>1, <1>6, <1>7

\* An operation at rest has nothing in hand that an effect could spoil.
LEMMA RestFits ==
  ASSUME NEW st \in State, Len(st.effects) <= MaxEffects, NEW h, NEW t, NEW run,
         NEW pc \in {"idle", "observing", "observed", "sending", "reconciling"},
         NEW fresh \in BOOLEAN, NEW only \in BOOLEAN, NEW queue \in Seq(EffectsOf(st)), NEW targets \in SUBSET EffectsOf(st)
  PROVE  ThreadFits([pc |-> pc, fresh |-> fresh, controlOnly |-> only, queue |-> queue, targets |-> targets], t, run, st, h)
<1>1. EffectsOf(st) \subseteq Effects
  <2>1. EffectsOf(st) = 1..Len(st.effects) /\ Len(st.effects) \in Nat /\ MaxEffects \in Nat
    BY EffectsTyped, SessionAssumption
  <2> QED BY <2>1 DEF Effects
<1>2. queue \in Seq(Effects) /\ targets \in SUBSET Effects
  BY <1>1
<1>3. PICK th : th = [pc |-> pc, fresh |-> fresh, controlOnly |-> only, queue |-> queue, targets |-> targets]
  OBVIOUS
<1>4. th \in Thread
  BY <1>2, <1>3 DEF Thread
<1>5. th.queue = queue /\ th.targets = targets /\ th.pc = pc
  BY <1>3
<1> QED BY <1>3, <1>4, <1>5 DEF ThreadFits

\* While another operation moves on, one that is not calling keeps what it has in hand.
LEMMA OthersFit ==
  ASSUME NEW st, NEW next, EffectsOf(st) \subseteq EffectsOf(next), NEW h, NEW h2, NEW u, NEW run, NEW run2,
         NEW th, ThreadFits(th, u, run, st, h), th.pc # "calling"
  PROVE  /\ ThreadFits([th EXCEPT !.fresh = FALSE], u, run2, next, h2)
         /\ next = st => ThreadFits(th, u, run2, next, h2)
<1>1. th \in Thread /\ th.queue \in Seq(EffectsOf(st)) /\ th.targets \subseteq EffectsOf(st)
  BY DEF ThreadFits
<1>2. th.queue \in Seq(EffectsOf(next)) /\ th.targets \subseteq EffectsOf(next)
  BY <1>1
<1>3. PICK calm : calm = [th EXCEPT !.fresh = FALSE]
  OBVIOUS
<1>4. calm \in Thread /\ calm.fresh = FALSE /\ calm.pc = th.pc /\ calm.queue = th.queue /\ calm.targets = th.targets
  BY <1>1, <1>3 DEF Thread
<1>5. ThreadFits(calm, u, run2, next, h2)
  BY <1>2, <1>4 DEF ThreadFits
<1>6. next = st => ThreadFits(th, u, run2, next, h2)
  BY DEF ThreadFits
<1> QED BY <1>3, <1>5, <1>6

-----------------------------------------------------------------------------
(* What a step writes: every property of two states follows from it.           *)

\* What a step of the service may write into the journal.
Journals(st, next) ==
  \/ next = st
  \/ st.dispatchMode = "active" /\ \E c : ChoiceFits(st, c, Len(NodeOrder)) /\ RoundDone(st, next, c)
  \/ \E e \in EffectsOf(st) : st.effects[e].entry = "intended" /\ ClaimDone(st, next, e)
  \/ \E e \in EffectsOf(st), status \in Statuses : ReceiptDone(st, next, e, status) /\ Heard(st, next, e, status)
  \/ \E e \in TasksIn(st, EffectsOf(st)), x \in NodeStates :
       /\ Evaluable(st, e) /\ st.effects[e].attempt = CurrentAttempt(st, st.effects[e].node)
       /\ DecisionDone(st, next, st.effects[e].node, x) /\ (x = "succeeded" => st.effects[e].status = "completed")
  \/ Steers(st, next)
  \/ StopDone(st, next)

-----------------------------------------------------------------------------
(* Every step keeps the invariant.                                             *)

\* A batch that keeps the journal sound keeps the rest, if its author does (commit).
LEMMA CommitFits ==
  ASSUME Fits, NEW t \in Threads \cup {None}, running \in {None, t}, NEW events, NEW next, CommitAs(t, events, next),
         graph' = graph, host' = host, expired' = expired, running' \in Threads \cup {None},
         NEW after, after = After(s, events), Sound(after), EffectsOf(s) \subseteq EffectsOf(after), HostFit(after, host),
         t \in Threads => ThreadFits(next, t, running', after, host)
  PROVE  Fits' /\ s' = after
<1>1. s' = after
  BY DEF CommitAs
<1>2. threads' = [u \in Threads |-> IF u = t THEN next ELSE [threads[u] EXCEPT !.fresh = FALSE]]
  BY DEF CommitAs
<1>3. ASSUME NEW u \in Threads PROVE ThreadFits(threads'[u], u, running', after, host)
  <2>1. CASE u = t
    BY <1>2, <2>1
  <2>2. CASE u # t
    <3>1. ThreadFits(threads[u], u, running, s, host)
      BY DEF Fits
    <3>2. threads[u].pc # "calling"
      <4>1. threads[u].pc = "calling" => running = u
        BY <3>1 DEF ThreadFits
      <4>2. None \notin Threads
        BY SessionAssumption
      <4> QED BY <2>2, <4>1, <4>2
    <3>3. ThreadFits([threads[u] EXCEPT !.fresh = FALSE], u, running', after, host)
      BY <3>1, <3>2, OthersFit
    <3> QED BY <1>2, <2>2, <3>3
  <2> QED BY <2>1, <2>2
<1>4. threads' \in [Threads -> Thread]
  <2>1. \A u \in Threads : threads'[u] \in Thread
    BY <1>3 DEF ThreadFits
  <2> QED BY <1>2, <2>1
<1>5. Sound(s') /\ HostFit(s', host') /\ expired' \subseteq EffectsOf(s')
  BY <1>1 DEF Fits
<1> QED BY <1>1, <1>3, <1>4, <1>5 DEF Fits

\* A step that journals nothing keeps the invariant if its author does.
LEMMA GoesFits ==
  ASSUME Fits, NEW t \in Threads, running \in {None, t}, NEW next, Goes(t, next),
         s' = s, graph' = graph, expired' = expired, running' \in Threads \cup {None},
         host' \in [Effects -> HostState], HostFit(s, host'), ThreadFits(next, t, running', s, host')
  PROVE  Fits'
<1>1. threads \in [Threads -> Thread] /\ threads' = [threads EXCEPT ![t] = next]
  BY DEF Fits, Goes
<1>2. ASSUME NEW u \in Threads PROVE ThreadFits(threads'[u], u, running', s', host')
  <2>1. CASE u = t
    BY <1>1, <2>1
  <2>2. CASE u # t
    <3>1. ThreadFits(threads[u], u, running, s, host)
      BY DEF Fits
    <3>2. threads[u].pc # "calling"
      <4>1. threads[u].pc = "calling" => running = u
        BY <3>1 DEF ThreadFits
      <4>2. None \notin Threads
        BY SessionAssumption
      <4> QED BY <2>2, <4>1, <4>2
    <3>3. ThreadFits(threads[u], u, running', s', host')
      BY <3>1, <3>2, OthersFit
    <3> QED BY <1>1, <2>2, <3>3
  <2> QED BY <2>1, <2>2
<1>3. threads' \in [Threads -> Thread]
  <2>1. next \in Thread
    BY DEF ThreadFits
  <2> QED BY <1>1, <2>1
<1> QED BY <1>2, <1>3 DEF Fits

\* An operation that ends holds nothing.
LEMMA IdleFits ==
  ASSUME NEW st, Sound(st), NEW h, NEW t, NEW run
  PROVE  ThreadFits(Idle, t, run, st, h)
<1>1. st \in State /\ Len(st.effects) <= MaxEffects
  BY DEF Sound
<1>2. <<>> \in Seq(EffectsOf(st))
  OBVIOUS
<1> QED BY <1>1, <1>2, RestFits DEF Idle

\* An empty journal, an idle host and operations at rest fit each other.
LEMMA InitFits == Init => Fits
<1> SUFFICES ASSUME Init PROVE Fits
  OBVIOUS
<1>1. OpenLedger(PoolPolicy) \in Ledger /\ OpenLedger(PoolPolicy).reservePerRequest \in Micros
  BY SessionAssumption DEF OpenLedger, Ledger, Policy, CanOpen
<1>2. /\ s.epoch = 1 /\ s.dispatchMode = "active" /\ s.attempts = [n \in Nodes |-> 0]
      /\ s.nodeStates = [k \in Nodes \X Attempts |-> None] /\ s.effects = <<>>
      /\ s.budget = OpenLedger(PoolPolicy) /\ s.usage = {} /\ s.blocked = FALSE /\ s.fault = "none"
  BY DEF Init
<1>3. s \in RuntimeState
  <2>1. 1 \in 1..MaxEpoch
    BY SessionAssumption
  <2>2. <<>> \in Seq(Effect)
    OBVIOUS
  <2>3. [n \in Nodes |-> 0] \in [Nodes -> {0} \cup Attempts]
    OBVIOUS
  <2>4. [k \in Nodes \X Attempts |-> None] \in [Nodes \X Attempts -> NodeStates \cup {None}]
    OBVIOUS
  <2> QED BY <1>1, <2>1, <2>2, <2>3, <2>4 DEF Init, RuntimeState
<1>4. s \in State /\ EffectsOf(s) = {} /\ Len(s.effects) = 0
  BY <1>1, <1>2, <1>3 DEF State, EffectsOf
<1>5. AttemptsFit(s)
  <2>1. None \notin NodeStates
    BY SessionAssumption
  <2> SUFFICES ASSUME NEW n \in Nodes, NEW a \in Attempts PROVE AttemptFits(s, n, a)
    BY DEF AttemptsFit
  <2>2. PICK cell \in Nodes \X Attempts : cell = <<n, a>>
    OBVIOUS
  <2>3. s.nodeStates[cell] = None
    BY <1>2
  <2> QED BY <2>1, <2>2, <2>3 DEF AttemptFits, NodeStates
<1>6. Sound(s)
  <2>1. \A E \in SUBSET EffectsOf(s) : TasksIn(s, E) = {}
    BY <1>4 DEF TasksIn
  <2>2. Unresolved(s) \subseteq EffectsOf(s)
    BY DEF Unresolved
  <2>3. StatusFits(s) /\ EntriesFit(s) /\ ClaimsFit(s) /\ StopsFit(s)
    BY <1>2, <1>4, <2>1, <2>2 DEF StatusFits, EntriesFit, ClaimsFit, StopsFit
  <2>4. Len(s.effects) <= MaxEffects
    BY <1>4, SessionAssumption
  <2> QED BY <1>2, <1>4, <1>5, <2>3, <2>4 DEF Sound
<1>7. host = [e \in Effects |-> [calls |-> 0, fate |-> "none"]] /\ expired = {} /\ graph \in Graphs /\ running = None
  BY DEF Init
<1>8. HostFit(s, host) /\ host \in [Effects -> HostState]
  BY <1>4, <1>7 DEF HostFit, HostState
<1>9. \A t \in Threads : ThreadFits(threads[t], t, running, s, host)
  <2> TAKE t \in Threads
  <2>1. threads[t] = Idle
    BY DEF Init
  <2> QED BY <1>6, <2>1, IdleFits
<1>10. threads \in [Threads -> Thread]
  <2>1. \A t \in Threads : threads[t] \in Thread
    BY <1>9 DEF ThreadFits
  <2> QED BY <2>1 DEF Init
<1> QED BY <1>6, <1>7, <1>8, <1>9, <1>10 DEF Fits

\* A step that changes nothing but what its author has in hand.
LEMMA QuietFits ==
  ASSUME Fits, NEW t \in Threads, running \in {None, t}, NEW next, Goes(t, next),
         UNCHANGED <<s, graph, host, expired>>, running' \in {None, t}, ThreadFits(next, t, running', s, host)
  PROVE  Fits'
<1>1. host' \in [Effects -> HostState] /\ HostFit(s, host')
  BY DEF Fits
<1>2. ThreadFits(next, t, running', s, host')
  OBVIOUS
<1>3. s' = s /\ graph' = graph /\ expired' = expired /\ running' \in Threads \cup {None}
  OBVIOUS
<1> QED BY <1>1, <1>2, <1>3, GoesFits

\* An operation that has not begun.
LEMMA IdleTyped == Idle \in Thread /\ Idle.queue = <<>> /\ Idle.targets = {}
<1>1. PICK empty \in Seq(Effects) : empty = <<>>
  <2>1. <<>> \in Seq(Effects)
    OBVIOUS
  <2> QED BY <2>1
<1>2. PICK th : th = Idle
  OBVIOUS
<1>3. th = [pc |-> "idle", fresh |-> FALSE, controlOnly |-> FALSE, queue |-> empty, targets |-> {}]
  BY <1>1, <1>2 DEF Idle
<1>4. th \in Thread
  BY <1>3 DEF Thread
<1>5. th.queue = empty /\ th.targets = {}
  BY <1>3
<1> QED BY <1>1, <1>2, <1>4, <1>5

\* The local states an operation may go to without anything in hand that a later commit can spoil.
LEMMA PlainFits ==
  ASSUME Fits, NEW t \in Threads, NEW run
  PROVE  /\ \A fresh \in BOOLEAN, pc \in {"observing", "observed"} :
              ThreadFits([Idle EXCEPT !.pc = pc, !.fresh = fresh], t, run, s, host)
         /\ \A targets \in SUBSET EffectsOf(s) :
              ThreadFits([Idle EXCEPT !.pc = "reconciling", !.targets = targets], t, run, s, host)
         /\ \A st \in State, only \in BOOLEAN : Len(st.effects) <= MaxEffects =>
              ThreadFits(Sending(NextEffects(st), only), t, run, st, host)
<1>1. s \in State /\ Len(s.effects) <= MaxEffects
  BY DEF Fits, Sound
<1>2. <<>> \in Seq(EffectsOf(s)) /\ {} \in SUBSET EffectsOf(s)
  OBVIOUS
<1>3. PICK rest \in Thread : rest = Idle /\ rest.queue = <<>> /\ rest.targets = {}
  BY IdleTyped
<1>4. ASSUME NEW st \in State, Len(st.effects) <= MaxEffects, NEW th \in Thread,
             th.pc \in {"observing", "observed", "sending", "reconciling"},
             th.queue \in Seq(EffectsOf(st)), th.targets \subseteq EffectsOf(st)
      PROVE  ThreadFits(th, t, run, st, host)
  BY <1>4 DEF ThreadFits
<1>5. ASSUME NEW fresh \in BOOLEAN, NEW pc \in {"observing", "observed"}
      PROVE  ThreadFits([Idle EXCEPT !.pc = pc, !.fresh = fresh], t, run, s, host)
  <2>1. PICK th : th = [rest EXCEPT !.pc = pc, !.fresh = fresh]
    OBVIOUS
  <2>2. th \in Thread /\ th.pc = pc /\ th.queue = <<>> /\ th.targets = {}
    BY <1>3, <2>1 DEF Thread
  <2>3. ThreadFits(th, t, run, s, host)
    BY <1>1, <1>2, <1>4, <2>2
  <2> QED BY <1>3, <2>1, <2>3
<1>6. ASSUME NEW targets \in SUBSET EffectsOf(s)
      PROVE  ThreadFits([Idle EXCEPT !.pc = "reconciling", !.targets = targets], t, run, s, host)
  <2>1. PICK th : th = [rest EXCEPT !.pc = "reconciling", !.targets = targets]
    OBVIOUS
  <2>2. targets \in SUBSET Effects
    <3>1. EffectsOf(s) = 1..Len(s.effects) /\ Len(s.effects) \in Nat /\ MaxEffects \in Nat
      BY <1>1, EffectsTyped, SessionAssumption
    <3> QED BY <1>1, <3>1 DEF Effects
  <2>3. th \in Thread /\ th.pc = "reconciling" /\ th.queue = <<>> /\ th.targets = targets
    BY <1>3, <2>1, <2>2 DEF Thread
  <2>4. ThreadFits(th, t, run, s, host)
    BY <1>1, <1>2, <1>4, <2>3
  <2> QED BY <1>3, <2>1, <2>4
<1>7. ASSUME NEW st \in State, NEW only \in BOOLEAN, Len(st.effects) <= MaxEffects
      PROVE  ThreadFits(Sending(NextEffects(st), only), t, run, st, host)
  <2>1. PICK queue \in Seq(EffectsOf(st)) : queue = NextEffects(st)
    BY NextEffectsTyped
  <2>2. EffectsOf(st) \subseteq Effects
    <3>1. EffectsOf(st) = 1..Len(st.effects) /\ Len(st.effects) \in Nat /\ MaxEffects \in Nat
      BY EffectsTyped, SessionAssumption
    <3> QED BY <1>7, <3>1 DEF Effects
  <2>3. queue \in Seq(Effects)
    BY <2>2
  <2>4. PICK th : th = [rest EXCEPT !.pc = "sending", !.controlOnly = only, !.queue = queue]
    OBVIOUS
  <2>5. th \in Thread /\ th.pc = "sending" /\ th.queue = queue /\ th.targets = {}
    BY <1>3, <2>3, <2>4 DEF Thread
  <2>6. ThreadFits(th, t, run, st, host)
    BY <1>4, <1>7, <2>5
  <2> QED BY <1>3, <2>1, <2>4, <2>6 DEF Sending
<1>8. \A st \in State, only \in BOOLEAN : Len(st.effects) <= MaxEffects =>
        ThreadFits(Sending(NextEffects(st), only), t, run, st, host)
  BY <1>7
<1> QED BY <1>5, <1>6, <1>8

\* The steps that journal nothing: an operation begins, is refused, passes over an effect or ends.
LEMMA QuietSteps ==
  ASSUME Fits, NEW t \in Threads,
         StepBegin(t) \/ Denied(t) \/ Sent(t) \/ Reconciled(t) \/ ReconcileBegin(t) \/ CancelAgain(t) \/ Skip(t)
  PROVE  Fits'
<1>1. Sound(s) /\ s \in State /\ Len(s.effects) <= MaxEffects
  BY DEF Fits, Sound
<1>2. CASE StepBegin(t)
  <2>1. PICK next : next = [Idle EXCEPT !.pc = "observing", !.fresh = TRUE] /\ Goes(t, next)
    BY <1>2 DEF StepBegin
  <2>2. running = None /\ running' = running /\ UNCHANGED <<s, graph, host, expired>>
    BY <1>2 DEF StepBegin, Await
  <2>3. ThreadFits(next, t, running', s, host)
    BY <2>1, PlainFits
  <2> QED BY <2>1, <2>2, <2>3, QuietFits
<1>3. CASE Denied(t) \/ Sent(t) \/ Reconciled(t)
  <2>1. running \in {None, t} /\ Ends(t)
    BY <1>3 DEF Denied, Sent, Reconciled, Await, At
  <2>2. Goes(t, Idle) /\ running' = None /\ UNCHANGED <<s, graph, host, expired>>
    BY <2>1 DEF Ends
  <2>3. ThreadFits(Idle, t, running', s, host)
    BY <1>1, IdleFits
  <2> QED BY <2>1, <2>2, <2>3, QuietFits
<1>4. CASE ReconcileBegin(t)
  <2>1. PICK next : next = [Idle EXCEPT !.pc = "reconciling", !.targets = UnknownEffectIds(s)] /\ Goes(t, next)
    BY <1>4 DEF ReconcileBegin
  <2>2. running = None /\ running' = running /\ UNCHANGED <<s, graph, host, expired>>
    BY <1>4 DEF ReconcileBegin, Await
  <2>3. UnknownEffectIds(s) \in SUBSET EffectsOf(s)
    BY DEF UnknownEffectIds
  <2>4. ThreadFits(next, t, running', s, host)
    BY <2>1, <2>3, PlainFits
  <2> QED BY <2>1, <2>2, <2>4, QuietFits
<1>5. CASE CancelAgain(t)
  <2>1. PICK next : next = Sending(NextEffects(s), TRUE) /\ Goes(t, next)
    BY <1>5 DEF CancelAgain
  <2>2. running = None /\ running' = t /\ UNCHANGED <<s, graph, host, expired>>
    BY <1>5 DEF CancelAgain, Await
  <2>3. ThreadFits(Sending(NextEffects(s), TRUE), t, running', s, host)
    BY <1>1, PlainFits
  <2> QED BY <2>1, <2>2, <2>3, QuietFits
<1>6. CASE Skip(t)
  <2>1. PICK th : th = threads[t]
    OBVIOUS
  <2>2. ThreadFits(th, t, running, s, host)
    BY <2>1 DEF Fits
  <2>3. th.pc = "sending" /\ th.queue # <<>> /\ running \in {None, t} /\ running' = t /\ UNCHANGED <<s, graph, host, expired>>
    BY <1>6, <2>1 DEF Skip, At
  <2>4. PICK next : next = [th EXCEPT !.queue = Tail(@)] /\ Goes(t, next)
    BY <1>6, <2>1 DEF Skip
  <2>5. th \in Thread /\ th.queue \in Seq(EffectsOf(s)) /\ th.queue \in Seq(Effects) /\ th.targets \subseteq EffectsOf(s)
    BY <2>2 DEF ThreadFits, Thread
  <2>6. Tail(th.queue) \in Seq(EffectsOf(s)) /\ Tail(th.queue) \in Seq(Effects)
    BY <2>3, <2>5
  <2>7. next \in Thread /\ next.pc = "sending" /\ next.queue = Tail(th.queue) /\ next.targets = th.targets
    BY <2>3, <2>4, <2>5, <2>6 DEF Thread
  <2>8. ThreadFits(next, t, running', s, host)
    BY <2>5, <2>6, <2>7 DEF ThreadFits
  <2> QED BY <2>3, <2>4, <2>8, QuietFits
<1> QED BY <1>2, <1>3, <1>4, <1>5, <1>6

\* The observation of a step.
LEMMA ObservedFits ==
  ASSUME Fits, NEW t \in Threads, Observed(t)
  PROVE  Fits' /\ Journals(s, s')
<1>1. Sound(s) /\ s \in State /\ Len(s.effects) <= MaxEffects
  BY DEF Fits, Sound
<1>2. running = None /\ UNCHANGED <<graph, running, host, expired>>
  BY DEF Observed, Await
<1>3. CASE threads[t].fresh
  <2>1. PICK next : next = [Idle EXCEPT !.pc = "observed"] /\ CommitAs(t, <<>>, next)
    BY <1>3 DEF Observed
  <2>2. After(s, <<>>) = s
    BY AfterFew
  <2>3. next \in Thread /\ next.pc = "observed" /\ next.queue = <<>> /\ next.targets = {}
    <3>1. PICK rest \in Thread : rest = Idle /\ rest.queue = <<>> /\ rest.targets = {}
      BY IdleTyped
    <3> QED BY <2>1, <3>1 DEF Thread
  <2>4. ThreadFits(next, t, running', s, host)
    <3>1. <<>> \in Seq(EffectsOf(s))
      OBVIOUS
    <3> QED BY <2>3, <3>1 DEF ThreadFits
  <2>5. HostFit(s, host)
    BY DEF Fits
  <2>6. Fits' /\ s' = s
    BY <1>1, <1>2, <2>1, <2>2, <2>4, <2>5, CommitFits
  <2> QED BY <2>6 DEF Journals
<1>4. CASE ~threads[t].fresh
  <2>1. Goes(t, Idle) /\ UNCHANGED s
    BY <1>4 DEF Observed
  <2>2. ThreadFits(Idle, t, running', s, host)
    BY <1>1, IdleFits
  <2>3. Fits'
    BY <1>2, <2>1, <2>2, QuietFits
  <2> QED BY <2>1, <2>3 DEF Journals
<1> QED BY <1>3, <1>4

\* What an operation that has an effect in hand knows of it.
LEMMA InHand ==
  ASSUME Fits, NEW t \in Threads, NEW th, th = threads[t], th.queue # <<>>
  PROVE  /\ th \in Thread /\ th.queue \in Seq(EffectsOf(s)) /\ th.queue \in Seq(Effects)
         /\ Head(th.queue) \in EffectsOf(s) /\ Head(th.queue) \in Effects
         /\ Tail(th.queue) \in Seq(EffectsOf(s)) /\ Tail(th.queue) \in Seq(Effects) /\ th.targets \subseteq EffectsOf(s)
<1>1. ThreadFits(th, t, running, s, host)
  BY DEF Fits
<1>2. th \in Thread /\ th.queue \in Seq(EffectsOf(s)) /\ th.queue \in Seq(Effects) /\ th.targets \subseteq EffectsOf(s)
  BY <1>1 DEF ThreadFits, Thread
<1>3. Head(th.queue) \in EffectsOf(s) /\ Tail(th.queue) \in Seq(EffectsOf(s))
  BY <1>2
<1>4. Head(th.queue) \in Effects /\ Tail(th.queue) \in Seq(Effects)
  BY <1>2
<1> QED BY <1>2, <1>3, <1>4

\* The claim of an effect: it was not sent before, and it is sent only by who claimed it.
LEMMA ClaimFits ==
  ASSUME Fits, NEW t \in Threads, Claim(t)
  PROVE  Fits' /\ Journals(s, s')
<1>1. Sound(s) /\ s \in State /\ HostFit(s, host) /\ host \in [Effects -> HostState]
  BY DEF Fits, Sound
<1>2. PICK th : th = threads[t]
  OBVIOUS
<1>3. PICK e : e = Head(th.queue)
  OBVIOUS
<1>4. /\ th.pc = "sending" /\ th.queue # <<>> /\ running \in {None, t} /\ running' = t /\ UNCHANGED <<graph, host, expired>>
      /\ ~Skipped(t, s.effects[e]) /\ s.effects[e].entry = "intended"
      /\ CommitAs(t, <<Dispatched(e)>>, [th EXCEPT !.pc = "calling"])
  BY <1>2, <1>3 DEF Claim, At, Claimable
<1>5. /\ th \in Thread /\ th.queue \in Seq(EffectsOf(s)) /\ e \in EffectsOf(s) /\ e \in Effects /\ th.targets \subseteq EffectsOf(s)
  BY <1>2, <1>3, <1>4, InHand
<1>6. PICK after : after = After(s, <<Dispatched(e)>>)
  OBVIOUS
<1>7. ClaimDone(s, after, e)
  BY <1>1, <1>5, <1>6, ClaimPlanned
<1>8. Sound(after) /\ Len(after.effects) = Len(s.effects)
  BY <1>1, <1>4, <1>5, <1>7, ClaimSound
<1>9. after \in State /\ EffectsOf(after) = EffectsOf(s) /\ Len(after.effects) <= MaxEffects
  <2>1. after \in State /\ Len(after.effects) <= MaxEffects
    BY <1>8 DEF Sound
  <2> QED BY <1>1, <1>8, <2>1, EffectsTyped
<1>10. s.effects[e] \in Effect /\ host[e].calls = 0
  <2>1. s.effects[e] \in Effect
    BY <1>1, <1>5, EffectsTyped
  <2>2. host[e] \in HostState /\ HostFits(s.effects[e], host[e])
    BY <1>1, <1>5 DEF HostFit
  <2> QED BY <1>4, <2>1, <2>2 DEF HostFits, HostState
<1>11. ASSUME NEW x \in EffectsOf(s) PROVE HostFits(after.effects[x], host[x])
  <2>1. HostFits(s.effects[x], host[x])
    BY <1>1 DEF HostFit
  <2>2. CASE x # e
    <3>1. after.effects[x] = s.effects[x]
      BY <1>7, <2>2 DEF ClaimDone, EffectsOf
    <3> QED BY <2>1, <3>1
  <2>3. CASE x = e
    <3>1. PICK g : g = after.effects[e] /\ g = Claiming(s.effects[e])
      BY <1>5, <1>7 DEF ClaimDone, EffectsOf
    <3>2. g.entry = "dispatched" /\ g.status = s.effects[e].status /\ g.kind = s.effects[e].kind
      BY <1>10, <3>1 DEF Claiming, Effect
    <3> QED BY <1>10, <2>1, <2>3, <3>1, <3>2 DEF HostFits
  <2> QED BY <2>2, <2>3
<1>12. HostFit(after, host)
  BY <1>1, <1>9, <1>11, GrowsFits
<1>13. PICK next : next = [th EXCEPT !.pc = "calling"]
  OBVIOUS
<1>14. next \in Thread /\ next.pc = "calling" /\ next.queue = th.queue /\ next.targets = th.targets
  BY <1>5, <1>13 DEF Thread
<1>15. after.effects[e].entry = "dispatched" /\ after.effects[e].kind = s.effects[e].kind
  <2>1. PICK g : g = after.effects[e] /\ g = Claiming(s.effects[e])
    BY <1>5, <1>7 DEF ClaimDone, EffectsOf
  <2>2. g.entry = "dispatched" /\ g.kind = s.effects[e].kind
    BY <1>10, <2>1 DEF Claiming, Effect
  <2> QED BY <2>1, <2>2
<1>16. s.effects[e].kind = "task" => after.dispatchMode = "active"
  BY <1>4, <1>7 DEF Skipped, ClaimDone, SameControl
<1>17. ThreadFits(next, t, running', after, host)
  BY <1>3, <1>4, <1>5, <1>9, <1>10, <1>14, <1>15, <1>16 DEF ThreadFits
<1>18. EffectsOf(s) \subseteq EffectsOf(after) /\ running' \in Threads \cup {None}
  BY <1>4, <1>9
<1>19. Fits' /\ s' = after
  BY <1>4, <1>6, <1>8, <1>12, <1>13, <1>17, <1>18, CommitFits
<1> QED BY <1>4, <1>5, <1>7, <1>19 DEF Journals

\* The call of a claimed effect is its first and its last.
LEMMA CallFits ==
  ASSUME Fits, NEW t \in Threads, Call(t)
  PROVE  Fits' /\ \A e \in EffectsOf(s) : host'[e].calls > host[e].calls /\ s.effects[e].kind = "task" => s.dispatchMode = "active"
<1>1. Sound(s) /\ s \in State /\ HostFit(s, host) /\ host \in [Effects -> HostState]
  BY DEF Fits, Sound
<1>2. PICK th : th = threads[t]
  OBVIOUS
<1>3. PICK e : e = Head(th.queue)
  OBVIOUS
<1>4. /\ th.pc = "calling" /\ running \in {None, t} /\ running' = None /\ UNCHANGED <<s, graph, expired>>
      /\ host' = [host EXCEPT ![e].calls = @ + 1] /\ Goes(t, [th EXCEPT !.pc = "executing"])
  BY <1>2, <1>3 DEF Call, At
<1>5. ThreadFits(th, t, running, s, host)
  BY <1>2 DEF Fits
<1>6. /\ th.queue # <<>> /\ s.effects[e].entry = "dispatched" /\ host[e].calls = 0
      /\ s.effects[e].kind = "task" => s.dispatchMode = "active"
  BY <1>3, <1>4, <1>5 DEF ThreadFits
<1>7. /\ th \in Thread /\ th.queue \in Seq(EffectsOf(s)) /\ e \in EffectsOf(s) /\ e \in Effects /\ th.targets \subseteq EffectsOf(s)
  BY <1>2, <1>3, <1>6, InHand
<1>8. /\ host' \in [Effects -> HostState] /\ host'[e].calls = 1 /\ host'[e].fate = host[e].fate
      /\ \A x \in Effects : x # e => host'[x] = host[x]
  <2>1. PICK r \in HostState : r = host[e] /\ r.calls = 0
    BY <1>1, <1>6, <1>7
  <2>2. PICK q : q = [r EXCEPT !.calls = @ + 1]
    OBVIOUS
  <2>3. q \in HostState /\ q.calls = 1 /\ q.fate = r.fate
    BY <2>1, <2>2 DEF HostState
  <2>4. host' = [host EXCEPT ![e] = q]
    BY <1>4, <2>1, <2>2
  <2> QED BY <1>1, <1>7, <2>1, <2>3, <2>4
<1>9. HostFit(s, host')
  <2>1. ASSUME NEW x \in EffectsOf(s) PROVE HostFits(s.effects[x], host'[x])
    <3>1. HostFits(s.effects[x], host[x])
      BY <1>1 DEF HostFit
    <3>2. CASE x = e
      BY <1>6, <1>8, <3>1, <3>2 DEF HostFits
    <3>3. CASE x # e
      <4>1. x \in Effects
        <5>1. EffectsOf(s) = 1..Len(s.effects) /\ Len(s.effects) \in Nat /\ MaxEffects \in Nat /\ Len(s.effects) <= MaxEffects
          BY <1>1, EffectsTyped, SessionAssumption DEF Sound
        <5> QED BY <5>1 DEF Effects
      <4> QED BY <1>8, <3>1, <3>3, <4>1
    <3> QED BY <3>2, <3>3
  <2>2. \A x \in Effects \ EffectsOf(s) : host'[x].calls = 0 /\ host'[x].fate = "none"
    BY <1>1, <1>7, <1>8 DEF HostFit
  <2> QED BY <2>1, <2>2 DEF HostFit
<1>10. PICK next : next = [th EXCEPT !.pc = "executing"]
  OBVIOUS
<1>11. next \in Thread /\ next.pc = "executing" /\ next.queue = th.queue /\ next.targets = th.targets
  BY <1>7, <1>10 DEF Thread
<1>12. ThreadFits(next, t, running', s, host')
  BY <1>6, <1>7, <1>11 DEF ThreadFits
<1>13. Fits'
  <2>1. Goes(t, next) /\ running' \in Threads \cup {None}
    BY <1>4, <1>10
  <2> QED BY <1>4, <1>8, <1>9, <1>12, <2>1, GoesFits
<1>14. ASSUME NEW x \in EffectsOf(s), host'[x].calls > host[x].calls, s.effects[x].kind = "task" PROVE s.dispatchMode = "active"
  <2>1. x \in Effects
    <3>1. EffectsOf(s) = 1..Len(s.effects) /\ Len(s.effects) \in Nat /\ MaxEffects \in Nat /\ Len(s.effects) <= MaxEffects
      BY <1>1, EffectsTyped, SessionAssumption DEF Sound
    <3> QED BY <3>1 DEF Effects
  <2>2. CASE x = e
    BY <1>6, <1>14, <2>2
  <2>3. CASE x # e
    <3>1. PICK o \in Nat : o = host[x].calls
      BY <1>1, <2>1 DEF HostState
    <3>2. host'[x].calls = o
      BY <1>8, <2>1, <2>3, <3>1
    <3>3. ~(o > o)
      BY <3>1
    <3> QED BY <1>14, <3>1, <3>2, <3>3
  <2> QED BY <2>2, <2>3
<1> QED BY <1>13, <1>14

\* The round of a step (dispatchRound).
LEMMA PlanFits ==
  ASSUME Fits, NEW t \in Threads, Plan(t)
  PROVE  Fits' /\ Journals(s, s')
<1>1. Sound(s) /\ s \in State /\ Len(s.effects) <= MaxEffects /\ HostFit(s, host) /\ host \in [Effects -> HostState]
  BY DEF Fits, Sound
<1>2. PICK events : events = PlanRound(s)
  OBVIOUS
<1>3. PICK after : after = After(s, events)
  OBVIOUS
<1>4. PICK next : next = Sending(NextEffects(after), FALSE)
  OBVIOUS
<1>5. /\ running = None /\ running' = t /\ UNCHANGED <<graph, host, expired>>
      /\ Len(s.effects) + Len(Chosen(s)) <= MaxEffects
      /\ IF events = <<>> THEN Goes(t, next) /\ UNCHANGED s ELSE CommitAs(t, events, next)
  BY <1>2, <1>3, <1>4 DEF Plan, Await
<1>6. CASE events = <<>>
  <2>1. after = s
    BY <1>3, <1>6, AfterFew
  <2>2. ThreadFits(next, t, running', s, host)
    BY <1>1, <1>4, <2>1, PlainFits
  <2>3. Fits'
    BY <1>5, <1>6, <2>2, QuietFits
  <2> QED BY <1>5, <1>6, <2>3 DEF Journals
<1>7. CASE events # <<>>
  <2>1. s.dispatchMode = "active" /\ ChoiceFits(s, Chosen(s), Len(NodeOrder)) /\ RoundDone(s, after, Chosen(s))
    BY <1>1, <1>2, <1>3, <1>7, PlanDone
  <2>2. PICK c : c = Chosen(s) /\ c \in Seq(Nodes)
    BY <2>1 DEF ChoiceFits
  <2>3. Sound(after)
    BY <1>1, <1>5, <2>1, RoundSound
  <2>4. PICK k \in Nat, j \in Nat : k = Len(s.effects) /\ j = Len(c)
    BY <1>1, <2>2, EffectsTyped
  <2>5. after \in State /\ Len(after.effects) = k + j /\ Len(after.effects) <= MaxEffects
    BY <2>1, <2>2, <2>3, <2>4 DEF RoundDone, Sound
  <2>6. EffectsOf(s) = 1..k /\ EffectsOf(after) = 1..(k + j)
    BY <1>1, <2>4, <2>5, EffectsTyped
  <2>7. EffectsOf(s) \subseteq EffectsOf(after)
    BY <2>6
  <2>8. \A x \in EffectsOf(s) : HostFits(after.effects[x], host[x])
    BY <1>1, <2>1, <2>4, <2>6 DEF RoundDone, HostFit
  <2>9. ASSUME NEW x \in EffectsOf(after) \ EffectsOf(s) PROVE after.effects[x].entry = "intended" /\ after.effects[x].status = None
    <3>1. PICK i \in 1..j : x = k + i
      <4>1. x - k \in 1..j /\ x = k + (x - k)
        BY <2>6
      <4> QED BY <4>1
    <3>2. after.effects[x] = TaskEffect(s, c[i])
      BY <2>1, <2>2, <2>4, <3>1 DEF RoundDone
    <3>3. PICK g : g = TaskEffect(s, c[i])
      OBVIOUS
    <3>4. g.entry = "intended" /\ g.status = None
      BY <3>3 DEF TaskEffect
    <3> QED BY <3>2, <3>3, <3>4
  <2>10. HostFit(after, host)
    BY <1>1, <2>5, <2>7, <2>8, <2>9, GrowsFits
  <2>11. ThreadFits(next, t, running', after, host)
    BY <1>4, <2>5, PlainFits
  <2>12. CommitAs(t, events, next) /\ running \in {None, t} /\ running' \in Threads \cup {None}
    BY <1>5, <1>7
  <2>13. Fits' /\ s' = after
    BY <1>3, <1>5, <2>3, <2>7, <2>10, <2>11, <2>12, CommitFits
  <2> QED BY <2>1, <2>13 DEF Journals
<1> QED BY <1>6, <1>7

\* What an honest host may report.
LEMMA Honest ==
  ASSUME NEW e, NEW status \in Statuses, NEW row, Reportable(e, status, row)
  PROVE  /\ status = "failed" => s.effects[e].kind # "task" \/ host[e].fate = "ran"
         /\ status = "completed" => s.effects[e].kind = "task" /\ host[e].fate = "ran"
         /\ status = "not-executed" => s.effects[e].kind = "task" /\ host[e].fate = "refused"
         /\ status = "cancelled" =>
              \A x \in IF s.effects[e].kind = "task" THEN {e} ELSE s.effects[e].targets : host[x].fate # "none"
<1>1. status = "failed" => s.effects[e].kind # "task" \/ host[e].fate = "ran"
  BY DEF Reportable
<1>2. status = "completed" => s.effects[e].kind = "task" /\ host[e].fate = "ran"
  BY DEF Reportable
<1>3. status = "not-executed" => s.effects[e].kind = "task" /\ host[e].fate = "refused"
  BY DEF Reportable
<1>4. status = "cancelled" =>
        \A x \in IF s.effects[e].kind = "task" THEN {e} ELSE s.effects[e].targets : host[x].fate # "none"
  BY DEF Reportable
<1> QED BY <1>1, <1>2, <1>3, <1>4

\* A receipt that is accepted keeps the journal sound and in step with the host (planReceipt).
LEMMA ReceiptFits ==
  ASSUME Fits, NEW e \in EffectsOf(s), NEW r \in Receipts(e), Receivable(s, e, r[1], r[2]),
         NEW after, after = After(s, ReceiptBatch(s, e, r[1], r[2]))
  PROVE  /\ Sound(after) /\ HostFit(after, host) /\ EffectsOf(after) = EffectsOf(s)
         /\ r[1] \in Statuses /\ r[2] \in UsageRows \cup {None} /\ Reportable(e, r[1], r[2])
         /\ ReceiptDone(s, after, e, r[1]) /\ Heard(s, after, e, r[1])
<1>1. PICK status \in Statuses, row \in UsageRows \cup {None} : r = <<status, row>> /\ Reportable(e, status, row)
  <2>1. r \in Statuses \X (UsageRows \cup {None}) /\ Reportable(e, r[1], r[2])
    BY DEF Receipts
  <2>2. r[1] \in Statuses /\ r[2] \in UsageRows \cup {None} /\ r = <<r[1], r[2]>>
    BY <2>1
  <2> QED BY <2>1, <2>2
<1>2. r[1] = status /\ r[2] = row
  BY <1>1
<1>3. Sound(s) /\ HostFit(s, host) /\ host \in [Effects -> HostState]
  BY DEF Fits
<1>4. ReceiptDone(s, after, e, status)
  BY <1>2, <1>3, ReceiptPlanned
<1>5. Sound(after) /\ Heard(s, after, e, status)
  <2>1. Receivable(s, e, status, row)
    BY <1>2
  <2> QED BY <1>3, <1>4, <2>1, ReceiptSound
<1>6. after \in State
  BY <1>5 DEF Sound
<1>7. /\ status = "failed" => s.effects[e].kind # "task" \/ host[e].fate = "ran"
      /\ status = "completed" => s.effects[e].kind = "task" /\ host[e].fate = "ran"
      /\ status = "not-executed" => s.effects[e].kind = "task" /\ host[e].fate = "refused"
      /\ status = "cancelled" =>
           \A x \in IF s.effects[e].kind = "task" THEN {e} ELSE s.effects[e].targets : host[x].fate # "none"
  BY <1>1, Honest
<1>8. HostFit(after, host) /\ EffectsOf(after) = EffectsOf(s)
  BY <1>3, <1>5, <1>6, <1>7, HeardFits
<1> QED BY <1>1, <1>2, <1>4, <1>5, <1>8

\* The answer of an operation's own call or of its reconciliation (receive).
LEMMA ReceivedFits ==
  ASSUME Fits, NEW t \in Threads, running \in {None, t}, NEW e \in EffectsOf(s), NEW r \in Receipts(e),
         NEW next, ThreadFits(next, t, t, s, host), next.pc \in {"sending", "reconciling"}, Received(t, e, r, next),
         running' = IF Receivable(s, e, r[1], r[2]) THEN t ELSE None, UNCHANGED <<graph, host, expired>>
  PROVE  Fits' /\ Journals(s, s')
<1>1. CASE Receivable(s, e, r[1], r[2])
  <2>1. PICK events, after : events = ReceiptBatch(s, e, r[1], r[2]) /\ after = After(s, events)
    OBVIOUS
  <2>2. /\ Sound(after) /\ HostFit(after, host) /\ EffectsOf(after) = EffectsOf(s)
        /\ r[1] \in Statuses /\ ReceiptDone(s, after, e, r[1]) /\ Heard(s, after, e, r[1])
    BY <1>1, <2>1, ReceiptFits
  <2>3. CommitAs(t, events, next) /\ running' = t
    BY <1>1, <2>1 DEF Received
  <2>4. ThreadFits(next, t, running', after, host)
    BY <2>2, <2>3 DEF ThreadFits
  <2>5. EffectsOf(s) \subseteq EffectsOf(after) /\ running' \in Threads \cup {None}
    BY <2>2, <2>3
  <2>6. Fits' /\ s' = after
    BY <2>1, <2>2, <2>3, <2>4, <2>5, CommitFits
  <2> QED BY <2>2, <2>6 DEF Journals
<1>2. CASE ~Receivable(s, e, r[1], r[2])
  <2>1. Goes(t, Idle) /\ UNCHANGED s /\ running' = None
    BY <1>2 DEF Received
  <2>2. ThreadFits(Idle, t, running', s, host)
    BY IdleFits DEF Fits
  <2>3. Fits'
    BY <2>1, <2>2, QuietFits
  <2> QED BY <2>1, <2>3 DEF Journals
<1> QED BY <1>1, <1>2

\* The steps that take in what the host says.
LEMMA HearingSteps ==
  ASSUME Fits, NEW t \in Threads, Executed(t) \/ ReconcileNext(t)
  PROVE  Fits' /\ Journals(s, s')
<1>1. PICK th : th = threads[t]
  OBVIOUS
<1>2. ThreadFits(th, t, running, s, host) /\ th \in Thread
  BY <1>1 DEF Fits, ThreadFits
<1>3. CASE Executed(t)
  <2>1. PICK e : e = Head(th.queue)
    OBVIOUS
  <2>2. PICK next : next = [th EXCEPT !.pc = "sending", !.queue = Tail(@)]
    OBVIOUS
  <2>3. th.pc = "executing" /\ running = None /\ UNCHANGED <<graph, host, expired>>
    BY <1>1, <1>3 DEF Executed, Await
  <2>4. PICK r \in Receipts(e) : Received(t, e, r, next) /\ running' = IF Receivable(s, e, r[1], r[2]) THEN t ELSE None
    BY <1>1, <1>3, <2>1, <2>2 DEF Executed
  <2>5. th.queue # <<>>
    BY <1>2, <2>3 DEF ThreadFits
  <2>6. /\ th.queue \in Seq(EffectsOf(s)) /\ e \in EffectsOf(s) /\ th.targets \subseteq EffectsOf(s)
        /\ Tail(th.queue) \in Seq(EffectsOf(s)) /\ Tail(th.queue) \in Seq(Effects)
    BY <1>1, <2>1, <2>5, InHand
  <2>7. next \in Thread /\ next.pc = "sending" /\ next.queue = Tail(th.queue) /\ next.targets = th.targets
    BY <1>2, <2>2, <2>6 DEF Thread
  <2>8. ThreadFits(next, t, t, s, host)
    BY <2>6, <2>7 DEF ThreadFits
  <2> QED BY <2>3, <2>4, <2>6, <2>7, <2>8, ReceivedFits
<1>4. CASE ReconcileNext(t)
  <2>1. th.pc = "reconciling" /\ running \in {None, t} /\ UNCHANGED <<graph, host, expired>>
    BY <1>1, <1>4 DEF ReconcileNext, At
  <2>2. PICK e \in th.targets : \E r \in Receipts(e) :
          /\ Received(t, e, r, [th EXCEPT !.targets = @ \ {e}])
          /\ running' = IF Receivable(s, e, r[1], r[2]) THEN t ELSE None
    BY <1>1, <1>4 DEF ReconcileNext
  <2>3. PICK next : next = [th EXCEPT !.targets = @ \ {e}]
    OBVIOUS
  <2>4. PICK r \in Receipts(e) : Received(t, e, r, next) /\ running' = IF Receivable(s, e, r[1], r[2]) THEN t ELSE None
    BY <2>2, <2>3
  <2>5. th.queue \in Seq(EffectsOf(s)) /\ th.targets \subseteq EffectsOf(s)
    BY <1>2 DEF ThreadFits
  <2>6. next \in Thread /\ next.pc = "reconciling" /\ next.queue = th.queue /\ next.targets = th.targets \ {e}
    BY <1>2, <2>1, <2>3 DEF Thread
  <2>7. ThreadFits(next, t, t, s, host) /\ e \in EffectsOf(s)
    BY <2>5, <2>6 DEF ThreadFits
  <2> QED BY <2>1, <2>4, <2>6, <2>7, ReceivedFits
<1> QED BY <1>3, <1>4

\* The evaluation of a node that is verifying (evaluateSession).
LEMMA EvaluateBeginFits ==
  ASSUME Fits, NEW t \in Threads, EvaluateBegin(t)
  PROVE  Fits'
<1>1. PICK e \in TasksIn(s, EffectsOf(s)) :
        Evaluable(s, e) /\ Goes(t, [Idle EXCEPT !.pc = "evaluating", !.fresh = TRUE, !.targets = {e}])
  BY DEF EvaluateBegin
<1>2. running = None /\ UNCHANGED <<s, graph, running, host, expired>>
  BY DEF EvaluateBegin, Await
<1>3. PICK rest \in Thread : rest = Idle /\ rest.queue = <<>> /\ rest.targets = {}
  BY IdleTyped
<1>4. PICK next : next = [rest EXCEPT !.pc = "evaluating", !.fresh = TRUE, !.targets = {e}]
  OBVIOUS
<1>5. e \in EffectsOf(s) /\ e \in Effects
  <2>1. EffectsOf(s) = 1..Len(s.effects) /\ Len(s.effects) \in Nat /\ MaxEffects \in Nat /\ Len(s.effects) <= MaxEffects
    BY EffectsTyped, SessionAssumption DEF Sound, Fits
  <2> QED BY <2>1 DEF Effects, TasksIn
<1>6. next \in Thread /\ next.pc = "evaluating" /\ next.queue = <<>> /\ next.targets = {e}
  BY <1>3, <1>4, <1>5 DEF Thread
<1>7. <<>> \in Seq(EffectsOf(s))
  OBVIOUS
<1>8. ThreadFits(next, t, running', s, host)
  BY <1>1, <1>5, <1>6, <1>7 DEF ThreadFits
<1>9. Goes(t, next)
  BY <1>1, <1>3, <1>4
<1> QED BY <1>2, <1>8, <1>9, QuietFits

\* What a decision that is journalled does: it moves an attempt that is verifying, and to
\* succeeded only on a completed receipt (validateEvaluation, applyDecision).
LEMMA DecideDone ==
  ASSUME Fits, NEW t \in Threads, threads[t].pc = "evaluating", NEW outcome \in TaskOutcomes,
         NEW e, e = CHOOSE x \in threads[t].targets : TRUE,
         NEW matched \in EdgesOf(s.effects[e].node, RoutingEdges) \cup {None}, Decide(t, outcome, matched)
  PROVE  \E events, after, x :
           /\ CommitAs(t, events, Idle) /\ after = After(s, events)
           /\ e \in TasksIn(s, EffectsOf(s)) /\ Evaluable(s, e)
           /\ s.effects[e].attempt = CurrentAttempt(s, s.effects[e].node)
           /\ DecisionDone(s, after, s.effects[e].node, x) /\ (x = "succeeded" => s.effects[e].status = "completed")
           /\ x \in NodeStates /\ Sound(after) /\ after.effects = s.effects
<1>1. threads[t].fresh /\ ThreadFits(threads[t], t, running, s, host)
  BY DEF Decide, Fits
<1>2. PICK y \in TasksIn(s, EffectsOf(s)) : threads[t].targets = {y} /\ Evaluable(s, y)
  BY <1>1 DEF ThreadFits
<1>3. e = y
  BY <1>2
<1>4. e \in TasksIn(s, EffectsOf(s)) /\ e \in EffectsOf(s) /\ Evaluable(s, e)
  BY <1>2, <1>3 DEF TasksIn
<1>5. Sound(s) /\ s \in State /\ graph \in Graphs
  BY DEF Fits, Sound
<1>6. PICK n \in Nodes, a \in Attempts : n = s.effects[e].node /\ a = s.effects[e].attempt
  BY <1>4, <1>5, EffectsTyped
<1>7. PICK ok \in BOOLEAN : ok = (s.effects[e].status = "completed")
  OBVIOUS
<1>8. PICK d : d = Decided(n, ok, outcome, matched)
  OBVIOUS
<1>9. PICK x : x = d.state
  OBVIOUS
<1>10. /\ x \in {"succeeded", "failed", "waiting", "unknown"} /\ (x = "succeeded" => ok)
       /\ d.enabled \in Nodes \cup {None} /\ d.repair \in BOOLEAN /\ (d.repair => x = "failed" /\ d.enabled # None)
  BY <1>5, <1>6, <1>8, <1>9, DecidedFits
<1>11. PICK events : events = Moves(n, a, <<"verifying", x>>) \o GraphAction(s, d)
  OBVIOUS
<1>12. (d.repair => Repairable(s, n, d.enabled)) /\ CommitAs(t, events, Idle)
  BY <1>6, <1>7, <1>8, <1>9, <1>11 DEF Decide
<1>13. s.nodeStates[<<n, a>>] = "verifying"
  BY <1>4, <1>6 DEF Evaluable
<1>14. PICK after : after = After(s, events)
  OBVIOUS
<1>15. x \in NodeStates
  BY <1>10 DEF NodeStates
<1>16. a = CurrentAttempt(s, n) /\ DecisionDone(s, after, n, x)
  <2>1. d.repair => Repairable(s, n, d.enabled) /\ x = "failed" /\ d.enabled # None
    BY <1>10, <1>12
  <2>2. d.enabled \in Nodes \cup {None} /\ d.repair \in BOOLEAN /\ d.state = x
    BY <1>9, <1>10
  <2>3. a = CurrentAttempt(s, n) /\ DecisionDone(s, After(s, events), n, x)
    BY <1>5, <1>11, <1>13, <1>15, <2>1, <2>2, DecisionPlanned
  <2> QED BY <1>14, <2>3
<1>17. NodeStateAt(s, n) = "verifying"
  BY <1>13, <1>16 DEF NodeStateAt
<1>18. Sound(after) /\ after.effects = s.effects
  BY <1>5, <1>16, <1>17, DecisionSound
<1>19. x = "succeeded" => s.effects[e].status = "completed"
  BY <1>7, <1>10
<1>20. s.effects[e].attempt = CurrentAttempt(s, s.effects[e].node) /\ DecisionDone(s, after, s.effects[e].node, x)
  BY <1>6, <1>16
<1> QED BY <1>4, <1>12, <1>14, <1>15, <1>18, <1>19, <1>20

\* A batch that leaves the effects alone leaves them in step with the host.
LEMMA SameEffectsFit ==
  ASSUME NEW st, NEW next, next.effects = st.effects, NEW h, HostFit(st, h)
  PROVE  HostFit(next, h) /\ EffectsOf(next) = EffectsOf(st)
BY DEF HostFit, EffectsOf

\* The end of an evaluation.
LEMMA EvaluateEndFits ==
  ASSUME Fits, NEW t \in Threads, EvaluateEnd(t)
  PROVE  Fits' /\ Journals(s, s')
<1>1. threads[t].pc = "evaluating" /\ running = None /\ UNCHANGED <<graph, running, host, expired>>
  BY DEF EvaluateEnd, Await
<1>2. ASSUME NEW outcome \in TaskOutcomes, NEW e, e = CHOOSE x \in threads[t].targets : TRUE,
             NEW matched \in EdgesOf(s.effects[e].node, RoutingEdges) \cup {None}, Decide(t, outcome, matched)
      PROVE  Fits' /\ Journals(s, s')
  <2>1. PICK events, after, x :
          /\ CommitAs(t, events, Idle) /\ after = After(s, events)
          /\ e \in TasksIn(s, EffectsOf(s)) /\ Evaluable(s, e)
          /\ s.effects[e].attempt = CurrentAttempt(s, s.effects[e].node)
          /\ DecisionDone(s, after, s.effects[e].node, x) /\ (x = "succeeded" => s.effects[e].status = "completed")
          /\ x \in NodeStates /\ Sound(after) /\ after.effects = s.effects
    BY <1>1, <1>2, DecideDone
  <2>2. HostFit(after, host) /\ EffectsOf(after) = EffectsOf(s)
    BY <2>1, SameEffectsFit DEF Fits
  <2>3. ThreadFits(Idle, t, running', after, host)
    BY <2>1, IdleFits
  <2>4. EffectsOf(s) \subseteq EffectsOf(after) /\ running' \in Threads \cup {None} /\ running \in {None, t}
    BY <1>1, <2>2
  <2>5. Fits' /\ s' = after
    BY <1>1, <2>1, <2>2, <2>3, <2>4, CommitFits
  <2> QED BY <2>1, <2>5 DEF Journals
<1>3. CASE Goes(t, Idle) /\ UNCHANGED s
  <2>1. ThreadFits(Idle, t, running', s, host)
    BY IdleFits DEF Fits
  <2>2. running' \in {None, t} /\ running \in {None, t}
    BY <1>1
  <2>3. Fits'
    BY <1>1, <1>3, <2>1, <2>2, QuietFits
  <2> QED BY <1>3, <2>3 DEF Journals
<1>4. PICK e : e = CHOOSE x \in threads[t].targets : TRUE
  OBVIOUS
<1>5. \/ \E outcome \in TaskOutcomes : \E matched \in EdgesOf(s.effects[e].node, RoutingEdges) \cup {None} : Decide(t, outcome, matched)
      \/ Goes(t, Idle) /\ UNCHANGED s
  BY <1>4 DEF EvaluateEnd
<1> QED BY <1>2, <1>3, <1>4, <1>5

\* A batch that no operation waits for.
LEMMA CommitNowFits ==
  ASSUME Fits, NEW events, CommitNow(events), NEW after, after = After(s, events),
         Sound(after), EffectsOf(s) \subseteq EffectsOf(after), HostFit(after, host)
  PROVE  Fits' /\ s' = after
<1>1. running = None /\ CommitAs(None, events, Idle) /\ UNCHANGED <<graph, running, host, expired>>
  BY DEF CommitNow
<1>2. None \notin Threads
  BY SessionAssumption
<1>3. running \in {None, None} /\ running' \in Threads \cup {None}
  BY <1>1
<1> QED BY <1>1, <1>2, <1>3, CommitFits

\* The steps of callers and of the host that no operation takes.
LEMMA CallerSteps ==
  ASSUME Fits, Webhook \/ Pause \/ Resume
  PROVE  Fits' /\ Journals(s, s')
<1>1. Sound(s) /\ s \in State /\ HostFit(s, host)
  BY DEF Fits, Sound
<1>2. CASE Webhook
  <2>0. PICK e \in EffectsOf(s) : \E r \in Receipts(e) : Receivable(s, e, r[1], r[2]) /\ CommitNow(ReceiptBatch(s, e, r[1], r[2]))
    BY <1>2 DEF Webhook
  <2>1. PICK r \in Receipts(e) : Receivable(s, e, r[1], r[2]) /\ CommitNow(ReceiptBatch(s, e, r[1], r[2]))
    BY <2>0
  <2>2. PICK events, after : events = ReceiptBatch(s, e, r[1], r[2]) /\ after = After(s, events)
    OBVIOUS
  <2>3. /\ Sound(after) /\ HostFit(after, host) /\ EffectsOf(after) = EffectsOf(s)
        /\ r[1] \in Statuses /\ ReceiptDone(s, after, e, r[1]) /\ Heard(s, after, e, r[1])
    BY <2>1, <2>2, ReceiptFits
  <2>4. EffectsOf(s) \subseteq EffectsOf(after)
    BY <2>3
  <2>5. Fits' /\ s' = after
    BY <2>1, <2>2, <2>3, <2>4, CommitNowFits
  <2> QED BY <2>3, <2>5 DEF Journals
<1>3. ASSUME NEW events, CommitNow(events), s.dispatchMode \in {"active", "paused"}, Steers(s, After(s, events))
      PROVE  Fits' /\ Journals(s, s')
  <2>1. PICK after : after = After(s, events) /\ Steers(s, after)
    BY <1>3
  <2>2. Sound(after)
    BY <1>1, <1>3, <2>1, ControlSound
  <2>3. HostFit(after, host) /\ EffectsOf(after) = EffectsOf(s)
    BY <1>1, <2>1, SameEffectsFit DEF Steers
  <2>4. EffectsOf(s) \subseteq EffectsOf(after)
    BY <2>3
  <2>5. Fits' /\ s' = after
    BY <1>3, <2>1, <2>2, <2>3, <2>4, CommitNowFits
  <2> QED BY <2>1, <2>5 DEF Journals
<1>4. CASE Pause
  BY <1>1, <1>3, <1>4, ControlPlanned DEF Pause
<1>5. CASE Resume
  <2>1. PICK epoch \in (s.epoch + 1)..MaxEpoch : CommitNow(<<EpochChanged(epoch), Mode("active")>>)
    BY <1>5 DEF Resume
  <2>2. epoch \in 1..MaxEpoch
    <3>1. s.epoch \in 1..MaxEpoch /\ MaxEpoch \in Nat
      BY <1>1, SessionAssumption DEF State, RuntimeState
    <3> QED BY <3>1
  <2>3. s.dispatchMode = "paused"
    BY <1>5 DEF Resume
  <2> QED BY <1>1, <1>3, <2>1, <2>2, <2>3, ControlPlanned
<1> QED BY <1>2, <1>4, <1>5

\* The cancellation of the session: what it withdraws was never sent (cancelSession).
LEMMA CancelFits ==
  ASSUME Fits, NEW t \in Threads, Cancel(t)
  PROVE  Fits' /\ Journals(s, s')
<1>1. Sound(s) /\ s \in State /\ Len(s.effects) <= MaxEffects /\ HostFit(s, host) /\ host \in [Effects -> HostState]
  BY DEF Fits, Sound
<1>2. PICK events : events = CancelBatch(s)
  OBVIOUS
<1>3. PICK after : after = After(s, events)
  OBVIOUS
<1>4. PICK next : next = Sending(NextEffects(after), TRUE)
  OBVIOUS
<1>5. /\ running = None /\ running' = t /\ UNCHANGED <<graph, host, expired>>
      /\ (Active(s) # {} => Len(s.effects) < MaxEffects) /\ CommitAs(t, events, next)
  BY <1>2, <1>3, <1>4 DEF Cancel, Await
<1>6. StopDone(s, after)
  BY <1>1, <1>2, <1>3, CancelDone
<1>7. Sound(after)
  BY <1>1, <1>5, <1>6, StopSound
<1>8. after \in State /\ Len(after.effects) <= MaxEffects
  BY <1>7 DEF Sound
<1>9. PICK k \in Nat, j \in {0, 1} : k = Len(s.effects) /\ Len(after.effects) = k + j /\ (j = 1 => Active(s) # {})
  <2>1. Len(s.effects) \in Nat
    BY <1>1, EffectsTyped
  <2>2. Len(after.effects) = Len(s.effects) + IF Active(s) = {} THEN 0 ELSE 1
    BY <1>6 DEF StopDone
  <2>3. PICK j \in {0, 1} : j = (IF Active(s) = {} THEN 0 ELSE 1)
    OBVIOUS
  <2>4. Len(after.effects) = Len(s.effects) + j /\ (j = 1 => Active(s) # {})
    BY <2>2, <2>3
  <2> QED BY <2>1, <2>4
<1>10. EffectsOf(s) = 1..k /\ EffectsOf(after) = 1..(k + j)
  BY <1>1, <1>8, <1>9, EffectsTyped
<1>11. EffectsOf(s) \subseteq EffectsOf(after)
  BY <1>10
<1>12. ASSUME NEW x \in EffectsOf(s) PROVE HostFits(after.effects[x], host[x])
  <2>1. HostFits(s.effects[x], host[x]) /\ s.effects[x] \in Effect
    BY <1>1, EffectsTyped DEF HostFit
  <2>2. after.effects[x] = IF x \in Unused(s) THEN Answered(s.effects[x], "not-executed") ELSE s.effects[x]
    BY <1>6, <1>9, <1>10 DEF StopDone
  <2>3. CASE x \in Unused(s)
    <3>1. s.effects[x].entry = "intended"
      BY <2>3 DEF Unused
    <3>2. PICK g : g = after.effects[x] /\ g = Answered(s.effects[x], "not-executed")
      BY <2>2, <2>3
    <3>3. "not-executed" \in Statuses
      BY DEF Statuses
    <3>4. g.entry = "resolved" /\ g.status = "not-executed"
      BY <2>1, <3>2, <3>3, AnsweredFits
    <3> QED BY <2>1, <3>1, <3>2, <3>4 DEF HostFits
  <2>4. CASE x \notin Unused(s)
    BY <2>1, <2>2, <2>4
  <2> QED BY <2>3, <2>4
<1>13. ASSUME NEW x \in EffectsOf(after) \ EffectsOf(s) PROVE after.effects[x].entry = "intended" /\ after.effects[x].status = None
  <2>1. x = k + 1 /\ j = 1
    BY <1>10
  <2>2. after.effects[x] = CancelEffect(s)
    BY <1>6, <1>9, <2>1 DEF StopDone
  <2>3. PICK g : g = CancelEffect(s)
    OBVIOUS
  <2>4. g.entry = "intended" /\ g.status = None
    BY <2>3 DEF CancelEffect
  <2> QED BY <2>2, <2>3, <2>4
<1>14. HostFit(after, host)
  BY <1>1, <1>8, <1>11, <1>12, <1>13, GrowsFits
<1>15. ThreadFits(next, t, running', after, host)
  BY <1>4, <1>8, PlainFits
<1>16. running \in {None, t} /\ running' \in Threads \cup {None}
  BY <1>5
<1>17. Fits' /\ s' = after
  BY <1>3, <1>5, <1>7, <1>11, <1>14, <1>15, <1>16, CommitFits
<1> QED BY <1>6, <1>17 DEF Journals

\* A crash leaves the journal and the host, and no operation.
LEMMA CrashFits ==
  ASSUME Fits, Crash
  PROVE  Fits'
<1>1. threads' = [t \in Threads |-> Idle] /\ running' = None /\ UNCHANGED <<s, graph, host, expired>>
  BY DEF Crash
<1>2. Idle \in Thread
  BY IdleTyped
<1>3. ASSUME NEW t \in Threads PROVE ThreadFits(threads'[t], t, running', s', host')
  <2>1. ThreadFits(Idle, t, running', s, host)
    BY IdleFits DEF Fits
  <2> QED BY <1>1, <2>1
<1> QED BY <1>1, <1>2, <1>3 DEF Fits

\* What the host makes of a call does not change which calls it got.
LEMMA FateFits ==
  ASSUME Fits, UNCHANGED <<s, graph, threads, running, expired>>, NEW e \in EffectsOf(s),
         NEW fate \in {"ran", "refused"}, host' = [host EXCEPT ![e].fate = fate],
         HostFits(s.effects[e], [host[e] EXCEPT !.fate = fate])
  PROVE  Fits'
<1>1. HostFit(s, host) /\ host \in [Effects -> HostState] /\ EffectsOf(s) \subseteq Effects
  <2>1. EffectsOf(s) = 1..Len(s.effects) /\ Len(s.effects) \in Nat /\ MaxEffects \in Nat /\ Len(s.effects) <= MaxEffects
    BY EffectsTyped, SessionAssumption DEF Sound, Fits
  <2> QED BY <2>1 DEF Effects, Fits
<1>2. PICK q : q = [host[e] EXCEPT !.fate = fate]
  OBVIOUS
<1>3. q \in HostState /\ q.calls = host[e].calls
  <2>1. PICK r \in HostState : r = host[e]
    BY <1>1
  <2> QED BY <1>2, <2>1 DEF HostState
<1>4. host' = [host EXCEPT ![e] = q]
  BY <1>2
<1>5. host' \in [Effects -> HostState] /\ host'[e] = q /\ \A x \in Effects \ {e} : host'[x] = host[x]
  BY <1>1, <1>3, <1>4
<1>6. HostFit(s, host')
  <2>1. \A x \in EffectsOf(s) : HostFits(s.effects[x], host'[x])
    BY <1>1, <1>2, <1>5 DEF HostFit
  <2>2. \A x \in Effects \ EffectsOf(s) : host'[x].calls = 0 /\ host'[x].fate = "none"
    BY <1>1, <1>5 DEF HostFit
  <2> QED BY <2>1, <2>2 DEF HostFit
<1>7. ASSUME NEW t \in Threads PROVE ThreadFits(threads[t], t, running, s, host')
  <2>1. PICK th : th = threads[t] /\ ThreadFits(th, t, running, s, host)
    BY DEF Fits
  <2>2. th.pc = "calling" => Head(th.queue) \in Effects
    <3>1. th.pc = "calling" => th.queue # <<>> /\ th.queue \in Seq(EffectsOf(s))
      BY <2>1 DEF ThreadFits
    <3>2. th.pc = "calling" => Head(th.queue) \in EffectsOf(s)
      BY <3>1
    <3> QED BY <1>1, <3>2
  <2>3. th.pc = "calling" => host'[Head(th.queue)].calls = host[Head(th.queue)].calls
    BY <1>3, <1>5, <2>2
  <2> QED BY <2>1, <2>3 DEF ThreadFits
<1> QED BY <1>5, <1>6, <1>7 DEF Fits

\* The steps of the host, and of the clock.
LEMMA WorldSteps ==
  ASSUME Fits, NEW e \in EffectsOf(s), HostRuns(e) \/ HostRefuses(e) \/ Expire(e)
  PROVE  Fits'
<1>1. Sound(s) /\ s \in State /\ HostFit(s, host) /\ host \in [Effects -> HostState]
  BY DEF Fits, Sound
<1>2. /\ s.effects[e].entry # "resolved" => s.effects[e].status = None
      /\ HostFits(s.effects[e], host[e])
  BY <1>1 DEF Sound, StatusFits, HostFit
<1>3. e \in Effects
  <2>1. EffectsOf(s) = 1..Len(s.effects) /\ Len(s.effects) \in Nat /\ MaxEffects \in Nat /\ Len(s.effects) <= MaxEffects
    BY <1>1, EffectsTyped, SessionAssumption DEF Sound
  <2> QED BY <2>1 DEF Effects
<1>4. PICK r \in HostState : r = host[e]
  BY <1>1, <1>3
<1>5. None \notin Statuses
  BY SessionAssumption
<1>6. CASE HostRuns(e)
  <2>1. /\ r.calls > 0 /\ r.fate = "none" /\ s.effects[e].kind = "task"
        /\ host' = [host EXCEPT ![e].fate = "ran"] /\ UNCHANGED <<s, graph, threads, running, expired>>
    BY <1>4, <1>6 DEF HostRuns
  <2>2. PICK q : q = [r EXCEPT !.fate = "ran"]
    OBVIOUS
  <2>3. q.calls = r.calls /\ q.fate = "ran"
    BY <1>4, <2>2 DEF HostState
  <2>4. s.effects[e].status # "not-executed"
    <3>1. s.effects[e].status = "not-executed" => s.effects[e].entry = "resolved"
      BY <1>2, <1>5 DEF Statuses
    <3> QED BY <1>2, <1>4, <2>1, <3>1 DEF HostFits
  <2>5. HostFits(s.effects[e], q)
    BY <1>2, <1>4, <2>1, <2>3, <2>4 DEF HostFits
  <2> QED BY <1>4, <2>1, <2>2, <2>5, FateFits
<1>7. CASE HostRefuses(e)
  <2>1. /\ r.fate = "none" /\ s.effects[e].kind = "task" /\ s.effects[e].entry \in {"dispatched", "unknown"}
        /\ host' = [host EXCEPT ![e].fate = "refused"] /\ UNCHANGED <<s, graph, threads, running, expired>>
    BY <1>4, <1>7 DEF HostRefuses
  <2>2. PICK q : q = [r EXCEPT !.fate = "refused"]
    OBVIOUS
  <2>3. q.calls = r.calls /\ q.fate = "refused"
    BY <1>4, <2>2 DEF HostState
  <2>4. s.effects[e].status # "completed"
    BY <1>2, <1>5, <2>1 DEF Statuses
  <2>5. HostFits(s.effects[e], q)
    BY <1>2, <1>4, <2>1, <2>3, <2>4 DEF HostFits
  <2> QED BY <1>4, <2>1, <2>2, <2>5, FateFits
<1>8. CASE Expire(e)
  <2>1. expired' = expired \cup {e} /\ UNCHANGED <<s, graph, threads, running, host>>
    BY <1>8 DEF Expire
  <2> QED BY <2>1 DEF Fits
<1> QED BY <1>6, <1>7, <1>8

\* Every step keeps the invariant.
LEMMA NextFits == Fits /\ [Next]_vars => Fits'
<1> SUFFICES ASSUME Fits, [Next]_vars PROVE Fits'
  OBVIOUS
<1>1. CASE UNCHANGED vars
  BY <1>1 DEF vars, Fits
<1>2. ASSUME NEW t \in Threads, Operation(t) PROVE Fits'
  <2>1. \/ StepBegin(t) \/ Denied(t) \/ Sent(t) \/ Reconciled(t) \/ ReconcileBegin(t) \/ CancelAgain(t) \/ Skip(t)
        \/ Observed(t) \/ Plan(t) \/ Claim(t) \/ Call(t) \/ Executed(t) \/ ReconcileNext(t)
        \/ EvaluateBegin(t) \/ EvaluateEnd(t) \/ Cancel(t)
    BY <1>2 DEF Operation
  <2> QED BY <2>1, QuietSteps, ObservedFits, PlanFits, ClaimFits, CallFits, HearingSteps,
             EvaluateBeginFits, EvaluateEndFits, CancelFits
<1>3. ASSUME NEW e \in EffectsOf(s), HostRuns(e) \/ HostRefuses(e) \/ Expire(e) PROVE Fits'
  BY <1>3, WorldSteps
<1>4. CASE Webhook \/ Pause \/ Resume
  BY <1>4, CallerSteps
<1>5. CASE Crash
  BY <1>5, CrashFits
<1> QED BY <1>1, <1>2, <1>3, <1>4, <1>5 DEF Next

\* The invariant holds in every state of the session service.
LEMMA SpecFits == Spec => []Fits
BY InitFits, NextFits, PTL DEF Spec

\* What a step does to the journal; what it journals it does while the host and the clock rest.
Stepped == Journals(s, s') /\ expired \subseteq expired' /\ (s' # s => host' = host /\ expired' = expired)

\* Every step.
LEMMA NextMoves == Fits /\ [Next]_vars => Stepped
<1> SUFFICES ASSUME Fits, [Next]_vars PROVE Stepped
  OBVIOUS
<1>1. ASSUME s' = s, expired \subseteq expired' PROVE Stepped
  BY <1>1 DEF Stepped, Journals
<1>2. CASE UNCHANGED vars
  BY <1>1, <1>2 DEF vars
<1>3. ASSUME NEW t \in Threads, Operation(t) PROVE Stepped
  <2>1. CASE StepBegin(t) \/ Denied(t) \/ Sent(t) \/ Reconciled(t) \/ ReconcileBegin(t) \/ CancelAgain(t) \/ Skip(t)
    BY <1>1, <2>1 DEF StepBegin, Denied, Sent, Reconciled, ReconcileBegin, CancelAgain, Skip, Ends
  <2>2. CASE Call(t) \/ EvaluateBegin(t)
    BY <1>1, <2>2 DEF Call, EvaluateBegin
  <2>3. CASE Observed(t)
    BY <2>3, ObservedFits DEF Stepped, Observed
  <2>4. CASE Plan(t)
    BY <2>4, PlanFits DEF Stepped, Plan
  <2>5. CASE Claim(t)
    BY <2>5, ClaimFits DEF Stepped, Claim
  <2>6. CASE Executed(t) \/ ReconcileNext(t)
    BY <2>6, HearingSteps DEF Stepped, Executed, ReconcileNext
  <2>7. CASE EvaluateEnd(t)
    BY <2>7, EvaluateEndFits DEF Stepped, EvaluateEnd
  <2>8. CASE Cancel(t)
    BY <2>8, CancelFits DEF Stepped, Cancel
  <2> QED BY <1>3, <2>1, <2>2, <2>3, <2>4, <2>5, <2>6, <2>7, <2>8 DEF Operation
<1>4. ASSUME NEW e \in EffectsOf(s), HostRuns(e) \/ HostRefuses(e) \/ Expire(e) PROVE Stepped
  BY <1>1, <1>4 DEF HostRuns, HostRefuses, Expire
<1>5. CASE Webhook \/ Pause \/ Resume
  <2>1. Journals(s, s')
    BY <1>5, CallerSteps
  <2>2. host' = host /\ expired' = expired
    BY <1>5 DEF Webhook, Pause, Resume, CommitNow
  <2> QED BY <2>1, <2>2 DEF Stepped
<1>6. CASE Crash
  BY <1>1, <1>6 DEF Crash
<1> QED BY <1>2, <1>3, <1>4, <1>5, <1>6 DEF Next

-----------------------------------------------------------------------------
(* The theorems.                                                               *)

\* The projection, the operations and the host keep their types: no batch that the service
\* commits leaves an entry the reader could not project (reduce, commit).
THEOREM TypeCorrect == Spec => []TypeOK
<1>1. Fits => TypeOK
  BY DEF Fits, Sound, State, TypeOK, HostState
<1> QED BY <1>1, SpecFits, PTL

\* What the journal records as not executed never runs, and when the cancellation of the session
\* is confirmed nothing is in flight (notExecutedReceipt, cancelSession, planReceipt).
THEOREM StopsStay == Spec => []StopsAreFinal
<1>1. Fits => WithdrawnNeverRuns
  BY DEF Fits, WithdrawnNeverRuns, HostFit, HostFits
<1>2. Fits => CancelledIsSettled
  <2> SUFFICES ASSUME Fits, s.dispatchMode = "cancelled"
               PROVE  /\ TasksIn(s, Unresolved(s)) = {}
                      /\ \A e \in TasksIn(s, EffectsOf(s)) : host[e].calls = 1 => host[e].fate # "none"
    BY DEF CancelledIsSettled
  <2>1. TasksIn(s, Unresolved(s)) = {}
    BY DEF Fits, Sound, StopsFit
  <2>2. ASSUME NEW e \in TasksIn(s, EffectsOf(s)), host[e].calls = 1 PROVE host[e].fate # "none"
    <3>1. e \in EffectsOf(s) /\ s.effects[e].kind = "task" /\ s.effects[e].entry = "resolved"
      BY <2>1 DEF TasksIn, Unresolved
    <3>2. HostFits(s.effects[e], host[e])
      BY <3>1 DEF Fits, HostFit
    <3> QED BY <2>2, <3>1, <3>2 DEF HostFits
  <2> QED BY <2>1, <2>2
<1> QED BY <1>1, <1>2, SpecFits, PTL DEF StopsAreFinal

\* Whatever the service plans in a reachable state, the store accepts and the next reader can
\* project: a round, a cancellation and every receipt that is accepted (commit, reduce).
THEOREM PlansAreAccepted == Spec => []PlansReplay
<1>1. ASSUME Fits PROVE PlansReplay
  <2>1. Sound(s) /\ s \in State /\ s.fault = "none"
    BY <1>1 DEF Fits, Sound
  <2>2. After(s, CancelBatch(s)).fault = "none"
    BY <2>1, CancelDone DEF StopDone
  <2>3. After(s, PlanRound(s)).fault = "none"
    <3>1. CASE s.dispatchMode = "active"
      BY <2>1, <3>1, PlanDone DEF RoundDone, SameControl
    <3>2. CASE s.dispatchMode # "active"
      <4>1. PlanRound(s) = <<>>
        BY <2>1, <3>2, PlanDone
      <4> QED BY <2>1, <4>1, AfterFew
    <3> QED BY <3>1, <3>2
  <2>4. ASSUME NEW e \in EffectsOf(s), NEW r \in Receipts(e), Receivable(s, e, r[1], r[2])
        PROVE  After(s, ReceiptBatch(s, e, r[1], r[2])).fault = "none"
    BY <1>1, <2>4, ReceiptFits DEF Sound
  <2> QED BY <2>1, <2>2, <2>3, <2>4 DEF PlansReplay
<1> QED BY <1>1, SpecFits, PTL

\* Every step but a call leaves the number of calls of every effect.
LEMMA CallsStay ==
  ASSUME Fits, [Next]_vars, \A t \in Threads : ~Call(t), NEW e \in EffectsOf(s)
  PROVE  ~(host'[e].calls > host[e].calls)
<1>1. host[e] \in HostState
  <2>1. EffectsOf(s) = 1..Len(s.effects) /\ Len(s.effects) \in Nat /\ MaxEffects \in Nat /\ Len(s.effects) <= MaxEffects
    BY EffectsTyped, SessionAssumption DEF Sound, Fits
  <2> QED BY <2>1 DEF Effects, Fits
<1>2. PICK r \in HostState, c \in Nat : r = host[e] /\ c = r.calls
  BY <1>1 DEF HostState
<1>3. ASSUME host' = host PROVE ~(host'[e].calls > host[e].calls)
  BY <1>2, <1>3
<1>4. ASSUME NEW x, NEW fate, host' = [host EXCEPT ![x].fate = fate] PROVE ~(host'[e].calls > host[e].calls)
  <2>1. host'[e] = r \/ host'[e] = [r EXCEPT !.fate = fate]
    BY <1>2, <1>4 DEF Fits
  <2>2. PICK q : q = [r EXCEPT !.fate = fate]
    OBVIOUS
  <2>3. q.calls = c
    BY <1>2, <2>2 DEF HostState
  <2>4. PICK p : p = host'[e] /\ (p = r \/ p = q)
    BY <2>1, <2>2
  <2>5. p.calls = c
    BY <1>2, <2>3, <2>4
  <2>6. ~(c > c)
    BY <1>2
  <2> QED BY <1>2, <2>4, <2>5, <2>6
<1>5. \/ host' = host
      \/ \E x : host' = [host EXCEPT ![x].fate = "ran"] \/ host' = [host EXCEPT ![x].fate = "refused"]
  <2>1. CASE UNCHANGED vars
    BY <2>1 DEF vars
  <2>2. ASSUME NEW t \in Threads, Operation(t) PROVE host' = host
    BY <2>2 DEF Operation, StepBegin, Observed, Plan, Denied, Skip, Claim, Executed, Sent, ReconcileBegin,
                ReconcileNext, Reconciled, EvaluateBegin, EvaluateEnd, Cancel, CancelAgain, Ends
  <2>3. CASE Webhook \/ Pause \/ Resume \/ Crash
    BY <2>3 DEF Webhook, Pause, Resume, Crash, CommitNow
  <2>4. ASSUME NEW x \in EffectsOf(s), HostRuns(x) \/ HostRefuses(x) \/ Expire(x)
        PROVE  \/ host' = host
               \/ host' = [host EXCEPT ![x].fate = "ran"] \/ host' = [host EXCEPT ![x].fate = "refused"]
    BY <2>4 DEF HostRuns, HostRefuses, Expire
  <2> QED BY <2>1, <2>2, <2>3, <2>4 DEF Next
<1> QED BY <1>3, <1>4, <1>5

\* No execution is started in a session that was paused or cancelled, whatever a step had planned,
\* claimed or queued before (dispatchPending).
THEOREM StoppedIsQuiet == Spec => StoppedLaunchesNothing
<1>1. ASSUME Fits, [Next]_vars, NEW e \in EffectsOf(s), host'[e].calls > host[e].calls, s.effects[e].kind = "task"
      PROVE  s.dispatchMode = "active"
  <2>1. PICK t \in Threads : Call(t)
    BY <1>1, CallsStay
  <2> QED BY <1>1, <2>1, CallFits
<1>2. Fits /\ [Next]_vars =>
        [\A e \in EffectsOf(s) :
           host'[e].calls > host[e].calls /\ s.effects[e].kind = "task" => s.dispatchMode = "active"]_vars
  BY <1>1
<1> QED BY <1>2, SpecFits, PTL DEF Spec, StoppedLaunchesNothing

-----------------------------------------------------------------------------
(* One writer.                                                                 *)

\* Of the unresolved effects that hold the writer lease at most one is live.
OneWriter(st, late) ==
  \A e, f \in TasksIn(st, Unresolved(st)) :
    e # f => ~(st.effects[e].leased /\ e \notin late /\ st.effects[f].leased /\ f \notin late)

\* No execution becomes outstanding that was not.
Shrinks(st, next) ==
  \A e \in TasksIn(next, Unresolved(next)) :
    e \in TasksIn(st, Unresolved(st)) /\ next.effects[e].leased = st.effects[e].leased

\* Only a round adds to what is outstanding.
LEMMA JournalsShrink ==
  ASSUME NEW st, Sound(st), NEW next, Sound(next), Journals(st, next)
  PROVE  \/ Shrinks(st, next)
         \/ \E c : ChoiceFits(st, c, Len(NodeOrder)) /\ RoundDone(st, next, c)
<1>1. /\ st \in State /\ next \in State /\ EffectsOf(st) = 1..Len(st.effects) /\ Len(st.effects) \in Nat
      /\ EffectsOf(next) = 1..Len(next.effects) /\ Len(next.effects) \in Nat
  <2>1. st \in State /\ next \in State
    BY DEF Sound
  <2> QED BY <2>1, EffectsTyped
<1>2. ASSUME next.effects = st.effects PROVE Shrinks(st, next)
  BY <1>2 DEF Shrinks, TasksIn, Unresolved, EffectsOf
<1>3. ASSUME \A e \in EffectsOf(next) :
               next.effects[e].kind = "task" /\ next.effects[e].entry # "resolved" =>
                 /\ e \in EffectsOf(st) /\ st.effects[e].kind = "task" /\ st.effects[e].entry # "resolved"
                 /\ next.effects[e].leased = st.effects[e].leased
      PROVE  Shrinks(st, next)
  <2> SUFFICES ASSUME NEW e \in TasksIn(next, Unresolved(next))
               PROVE  e \in TasksIn(st, Unresolved(st)) /\ next.effects[e].leased = st.effects[e].leased
    BY DEF Shrinks
  <2>1. e \in EffectsOf(next) /\ next.effects[e].kind = "task" /\ next.effects[e].entry # "resolved"
    BY DEF TasksIn, Unresolved
  <2>2. /\ e \in EffectsOf(st) /\ st.effects[e].kind = "task" /\ st.effects[e].entry # "resolved"
        /\ next.effects[e].leased = st.effects[e].leased
    BY <1>3, <2>1
  <2> QED BY <2>2 DEF TasksIn, Unresolved
<1>4. ASSUME NEW e \in EffectsOf(st), st.effects[e].entry = "intended", ClaimDone(st, next, e)
      PROVE  Shrinks(st, next)
  <2>1. next.effects = [st.effects EXCEPT ![e] = Claiming(st.effects[e])]
    BY <1>4 DEF ClaimDone
  <2>2. EffectsOf(next) = EffectsOf(st)
    BY <2>1 DEF EffectsOf
  <2>3. ASSUME NEW x \in EffectsOf(next), next.effects[x].kind = "task", next.effects[x].entry # "resolved"
        PROVE  /\ x \in EffectsOf(st) /\ st.effects[x].kind = "task" /\ st.effects[x].entry # "resolved"
               /\ next.effects[x].leased = st.effects[x].leased
    <3>1. CASE x # e
      BY <2>1, <2>2, <2>3, <3>1 DEF EffectsOf
    <3>2. CASE x = e
      <4>1. PICK g : g = next.effects[e] /\ g = Claiming(st.effects[e])
        BY <1>4, <2>1 DEF EffectsOf
      <4>2. st.effects[e] \in Effect
        BY <1>1, <1>4, EffectsTyped
      <4>3. g.kind = st.effects[e].kind /\ g.leased = st.effects[e].leased
        BY <4>1, <4>2 DEF Claiming, Effect
      <4> QED BY <1>4, <2>2, <2>3, <3>2, <4>1, <4>3
    <3> QED BY <3>1, <3>2
  <2> QED BY <1>3, <2>3
<1>5. ASSUME NEW e \in EffectsOf(st), NEW status \in Statuses, Heard(st, next, e, status)
      PROVE  Shrinks(st, next)
  <2>1. EffectsOf(next) = EffectsOf(st)
    BY <1>1, <1>5 DEF Heard
  <2>2. ASSUME NEW x \in EffectsOf(next), next.effects[x].kind = "task", next.effects[x].entry # "resolved"
        PROVE  /\ x \in EffectsOf(st) /\ st.effects[x].kind = "task" /\ st.effects[x].entry # "resolved"
               /\ next.effects[x].leased = st.effects[x].leased
    <3>1. x \in EffectsOf(st) /\ st.effects[x] \in Effect
      BY <1>1, <2>1, EffectsTyped
    <3>2. CASE next.effects[x] = st.effects[x]
      BY <2>2, <3>1, <3>2
    <3>3. CASE x = e /\ st.effects[e].entry \in {"dispatched", "unknown"} /\ next.effects[x] = Answered(st.effects[e], status)
      <4>1. PICK g : g = next.effects[x] /\ g = Answered(st.effects[x], status)
        BY <3>3
      <4>2. SameEffect(st.effects[x], g)
        BY <3>1, <4>1, AnsweredFits
      <4> QED BY <2>2, <3>1, <3>3, <4>1, <4>2 DEF SameEffect
    <3>4. CASE next.effects[x] = Answered(st.effects[x], "cancelled")
      <4>1. PICK g : g = next.effects[x] /\ g = Answered(st.effects[x], "cancelled")
        BY <3>4
      <4>2. "cancelled" \in Statuses
        BY DEF Statuses
      <4>3. g.entry = IF "cancelled" = "unknown" THEN "unknown" ELSE "resolved"
        BY <3>1, <4>1, <4>2, AnsweredFits
      <4> QED BY <2>2, <4>1, <4>3
    <3> QED BY <1>5, <3>1, <3>2, <3>3, <3>4 DEF Heard
  <2> QED BY <1>3, <2>2
<1>6. ASSUME StopDone(st, next) PROVE Shrinks(st, next)
  <2>1. ASSUME NEW x \in EffectsOf(next), next.effects[x].kind = "task", next.effects[x].entry # "resolved"
        PROVE  /\ x \in EffectsOf(st) /\ st.effects[x].kind = "task" /\ st.effects[x].entry # "resolved"
               /\ next.effects[x].leased = st.effects[x].leased
    <3>1. CASE x \in EffectsOf(st) /\ x \notin Unused(st)
      <4>1. next.effects[x] = st.effects[x]
        BY <1>1, <1>6, <3>1 DEF StopDone
      <4> QED BY <2>1, <3>1, <4>1
    <3>2. CASE x \in Unused(st)
      <4>1. x \in EffectsOf(st)
        BY <3>2 DEF Unused, TasksIn, Unresolved
      <4>2. PICK g : g = next.effects[x] /\ g = Answered(st.effects[x], "not-executed")
        BY <1>1, <1>6, <3>2, <4>1 DEF StopDone
      <4>3. "not-executed" \in Statuses /\ st.effects[x] \in Effect
        BY <1>1, <4>1, EffectsTyped DEF Statuses
      <4>4. g.entry = IF "not-executed" = "unknown" THEN "unknown" ELSE "resolved"
        BY <4>2, <4>3, AnsweredFits
      <4> QED BY <2>1, <4>2, <4>4
    <3>3. CASE x \notin EffectsOf(st)
      <4>1. Active(st) # {} /\ x = Len(st.effects) + 1
        <5>1. Len(next.effects) = Len(st.effects) + IF Active(st) = {} THEN 0 ELSE 1
          BY <1>6 DEF StopDone
        <5>2. PICK k \in Nat, m \in Nat : k = Len(st.effects) /\ m = Len(next.effects) /\ x \in 1..m /\ x \notin 1..k
          BY <1>1, <3>3
        <5>3. CASE Active(st) = {}
          <6>1. m = k + 0
            BY <5>1, <5>2, <5>3
          <6> QED BY <5>2, <6>1
        <5>4. CASE Active(st) # {}
          <6>1. m = k + 1
            BY <5>1, <5>2, <5>4
          <6>2. x = k + 1
            BY <5>2, <6>1
          <6> QED BY <5>2, <5>4, <6>2
        <5> QED BY <5>3, <5>4
      <4>2. next.effects[x] = CancelEffect(st)
        BY <1>6, <4>1 DEF StopDone
      <4>3. PICK g : g = CancelEffect(st)
        OBVIOUS
      <4>4. g.kind = "host.cancel"
        BY <4>3 DEF CancelEffect
      <4> QED BY <2>1, <4>2, <4>3, <4>4
    <3> QED BY <3>1, <3>2, <3>3
  <2> QED BY <1>3, <2>1
<1>7. ASSUME NEW n, NEW x, DecisionDone(st, next, n, x) PROVE Shrinks(st, next)
  BY <1>2, <1>7 DEF DecisionDone, SameBut
<1>8. ASSUME Steers(st, next) PROVE Shrinks(st, next)
  BY <1>2, <1>8 DEF Steers
<1>9. next = st => Shrinks(st, next)
  BY <1>2
<1> QED BY <1>4, <1>5, <1>6, <1>7, <1>8, <1>9 DEF Journals

\* A round starts at most one writer, and only while no other is live (dispatchRound).
LEMMA RoundKeepsWriter ==
  ASSUME NEW st, Sound(st), expired \subseteq EffectsOf(st), OneWriter(st, expired),
         NEW c, ChoiceFits(st, c, Len(NodeOrder)), NEW next, Sound(next), RoundDone(st, next, c)
  PROVE  OneWriter(next, expired)
<1>1. st \in State /\ next \in State /\ c \in Seq(Nodes)
  BY DEF Sound, ChoiceFits
<1>2. PICK k \in Nat, j \in Nat : k = Len(st.effects) /\ j = Len(c) /\ EffectsOf(st) = 1..k /\ EffectsOf(next) = 1..(k + j)
  <2>1. EffectsOf(st) = 1..Len(st.effects) /\ EffectsOf(next) = 1..Len(next.effects) /\ Len(st.effects) \in Nat
    BY <1>1, EffectsTyped
  <2>2. Len(c) \in Nat /\ Len(next.effects) = Len(st.effects) + Len(c)
    BY <1>1 DEF RoundDone
  <2> QED BY <2>1, <2>2
<1>3. ASSUME NEW x \in TasksIn(next, Unresolved(next)), x \in 1..k
      PROVE  x \in TasksIn(st, Unresolved(st)) /\ next.effects[x].leased = st.effects[x].leased
  <2>1. next.effects[x] = st.effects[x]
    BY <1>2, <1>3 DEF RoundDone
  <2> QED BY <1>2, <1>3, <2>1 DEF TasksIn, Unresolved
<1>4. ASSUME NEW x \in TasksIn(next, Unresolved(next)), x \notin 1..k, next.effects[x].leased
      PROVE  \E i \in 1..j : x = k + i /\ c[i] \in Writers
  <2>1. x \in 1..(k + j)
    BY <1>2 DEF TasksIn, Unresolved
  <2>2. PICK i \in 1..j : x = k + i
    <3>1. x - k \in 1..j /\ x = k + (x - k)
      BY <1>4, <2>1
    <3> QED BY <3>1
  <2>3. next.effects[x] = TaskEffect(st, c[i])
    BY <1>2, <2>2 DEF RoundDone
  <2>4. PICK g : g = TaskEffect(st, c[i])
    OBVIOUS
  <2>5. g.leased = (c[i] \in Writers)
    BY <2>4 DEF TaskEffect
  <2> QED BY <1>4, <2>2, <2>3, <2>4, <2>5
<1>5. ASSUME NEW e \in TasksIn(st, Unresolved(st)), st.effects[e].leased, e \notin expired PROVE WriterHeld(st)
  BY <1>5 DEF WriterHeld, Live
<1>6. ASSUME NEW e \in TasksIn(next, Unresolved(next)), NEW f \in TasksIn(next, Unresolved(next)), e # f,
             next.effects[e].leased, e \notin expired, next.effects[f].leased, f \notin expired
      PROVE  FALSE
  <2>1. CASE e \in 1..k /\ f \in 1..k
    BY <1>3, <1>6, <2>1 DEF OneWriter
  <2>2. CASE e \in 1..k /\ f \notin 1..k
    <3>1. WriterHeld(st)
      BY <1>3, <1>5, <1>6, <2>2
    <3>2. \E i \in 1..j : c[i] \in Writers
      BY <1>4, <1>6, <2>2
    <3> QED BY <1>2, <3>1, <3>2 DEF ChoiceFits
  <2>3. CASE e \notin 1..k /\ f \in 1..k
    <3>1. WriterHeld(st)
      BY <1>3, <1>5, <1>6, <2>3
    <3>2. \E i \in 1..j : c[i] \in Writers
      BY <1>4, <1>6, <2>3
    <3> QED BY <1>2, <3>1, <3>2 DEF ChoiceFits
  <2>4. CASE e \notin 1..k /\ f \notin 1..k
    <3>1. PICK i \in 1..j : e = k + i /\ c[i] \in Writers
      BY <1>4, <1>6, <2>4
    <3>2. PICK o \in 1..j : f = k + o /\ c[o] \in Writers
      BY <1>4, <1>6, <2>4
    <3>3. i = o
      BY <1>2, <3>1, <3>2 DEF ChoiceFits
    <3> QED BY <1>6, <3>1, <3>2, <3>3
  <2> QED BY <2>1, <2>2, <2>3, <2>4
<1> QED BY <1>6 DEF OneWriter

\* Each effect reaches the host once and only after its claim is in the journal, an attempt has
\* at most one unresolved effect over all epochs, and at most one writer is live
\* (dispatchPending, dispatchRound, reduce).
THEOREM SentAndClaimedOnce == Spec => []EachSentOnce
<1>1. Fits => SentOnce
  <2> SUFFICES ASSUME Fits, NEW e \in EffectsOf(s)
               PROVE  host[e].calls <= 1 /\ (host[e].calls = 1 => s.effects[e].entry # "intended")
    BY DEF SentOnce
  <2>1. HostFits(s.effects[e], host[e])
    BY DEF Fits, HostFit
  <2> QED BY <2>1 DEF HostFits
<1>2. Fits /\ OneWriter(s, expired) => OneClaim
  BY DEF OneClaim, OneWriter, Live, Fits, Sound, ClaimsFit, CellOf
<1>3. Init => OneWriter(s, expired)
  BY DEF Init, OneWriter, TasksIn, Unresolved, EffectsOf
<1>4. Fits /\ Fits' /\ OneWriter(s, expired) /\ Stepped => OneWriter(s, expired)'
  <2> SUFFICES ASSUME Fits, Fits', OneWriter(s, expired), Stepped PROVE OneWriter(s', expired')
    OBVIOUS
  <2>1. Sound(s) /\ Sound(s') /\ expired \subseteq EffectsOf(s)
    BY DEF Fits
  <2>2. CASE s' = s
    BY <2>2 DEF Stepped, OneWriter
  <2>3. CASE s' # s
    <3>1. expired' = expired /\ Journals(s, s')
      BY <2>3 DEF Stepped
    <3>2. CASE Shrinks(s, s')
      BY <3>1, <3>2 DEF Shrinks, OneWriter
    <3>3. ASSUME NEW c, ChoiceFits(s, c, Len(NodeOrder)), RoundDone(s, s', c) PROVE OneWriter(s', expired)
      BY <2>1, <3>3, RoundKeepsWriter
    <3> QED BY <2>1, <3>1, <3>2, <3>3, JournalsShrink
  <2> QED BY <2>2, <2>3
<1>5. Spec => []OneWriter(s, expired)
  BY <1>3, <1>4, NextMoves, SpecFits, PTL DEF Spec
<1> QED BY <1>1, <1>2, <1>5, SpecFits, PTL DEF EachSentOnce

-----------------------------------------------------------------------------
(* Successes and superseded attempts.                                          *)

\* Effect x is the completed execution of the attempt at cell.
Backs(st, x, cell) == x \in EffectsOf(st) /\ CellOf(st, x) = cell /\ st.effects[x].status = "completed"

\* Every attempt that succeeded has one.
Backed(st) ==
  \A cell \in Nodes \X Attempts : st.nodeStates[cell] = "succeeded" => \E x \in EffectsOf(st) : Backs(st, x, cell)

\* The attempt at cell succeeded before, and what backed it still does.
StillBacked(st, next, cell) ==
  st.nodeStates[cell] = "succeeded" /\ \A x \in EffectsOf(st) : Backs(st, x, cell) => Backs(next, x, cell)

\* An effect that is left alone backs what it backed.
LEMMA SameBacks ==
  ASSUME NEW st, NEW next, NEW x \in EffectsOf(st), x \in EffectsOf(next), next.effects[x] = st.effects[x], NEW cell
  PROVE  Backs(st, x, cell) => Backs(next, x, cell)
BY DEF Backs, CellOf

\* A receipt makes up no success, and takes none away but with the attempt it cancels (planReceipt).
LEMMA ReceiptBacked ==
  ASSUME NEW st, Sound(st), NEW next, Sound(next), NEW e \in EffectsOf(st), NEW status \in Statuses,
         ReceiptDone(st, next, e, status), Heard(st, next, e, status),
         NEW cell \in Nodes \X Attempts, next.nodeStates[cell] = "succeeded"
  PROVE  StillBacked(st, next, cell)
<1>1. /\ st \in State /\ next \in State /\ EffectsOf(next) = EffectsOf(st) /\ EffectsOf(st) = 1..Len(st.effects)
  <2>1. st \in State /\ next \in State
    BY DEF Sound
  <2> QED BY <2>1, EffectsTyped DEF Heard
<1>2. ASSUME NEW x \in EffectsOf(st), Backs(st, x, cell) PROVE st.effects[x].entry = "resolved"
  <2>1. None \notin Statuses
    BY SessionAssumption
  <2> QED BY <1>2, <2>1 DEF Backs, Sound, StatusFits, Statuses
<1>3. CASE next = st
  BY <1>3 DEF StillBacked
<1>4. ASSUME NEW y, ~Stale(st, e), st.effects[e].kind = "task" \/ st.effects[e].entry = "resolved" \/ status # "cancelled",
             y = (IF st.effects[e].kind = "task" /\ st.effects[e].entry # "resolved"
                  THEN ReceiptEnd(st.nodeStates[CellOf(st, e)], status) ELSE st.nodeStates[CellOf(st, e)]),
             Closes(st, next, e, status, y)
      PROVE  StillBacked(st, next, cell)
  <2>1. PICK own \in Nodes \X Attempts : own = CellOf(st, e)
    BY <1>1, EffectsTyped
  <2>2. next.nodeStates = [st.nodeStates EXCEPT ![own] = y] /\ st.nodeStates \in [Nodes \X Attempts -> NodeStates \cup {None}]
    BY <1>1, <1>4, <2>1 DEF Closes, State, RuntimeState
  <2>3. st.nodeStates[cell] = "succeeded"
    <3>1. CASE cell # own
      BY <2>2, <3>1
    <3>2. CASE cell = own /\ st.effects[e].kind = "task" /\ st.effects[e].entry # "resolved"
      <4>1. st.nodeStates[own] \in ClaimStates(st.effects[e].entry)
        BY <2>1, <3>2 DEF Sound, EntriesFit, TasksIn
      <4>2. st.effects[e].entry \in {"intended", "dispatched", "unknown"}
        BY <1>1, <3>2, EffectsTyped
      <4>3. st.nodeStates[own] # "succeeded"
        BY <4>1, <4>2 DEF ClaimStates
      <4>4. y # "succeeded"
        BY <1>4, <2>1, <3>2, <4>3 DEF ReceiptEnd
      <4> QED BY <2>2, <3>2, <4>4
    <3>3. CASE cell = own /\ ~(st.effects[e].kind = "task" /\ st.effects[e].entry # "resolved")
      BY <1>4, <2>1, <2>2, <3>3
    <3> QED BY <3>1, <3>2, <3>3
  <2>4. ASSUME NEW x \in EffectsOf(st), Backs(st, x, cell) PROVE Backs(next, x, cell)
    <3>1. st.effects[x].entry = "resolved"
      BY <1>2, <2>4
    <3>2. next.effects[x] = st.effects[x]
      BY <1>4, <3>1 DEF Heard
    <3> QED BY <1>1, <2>4, <3>2, SameBacks
  <2> QED BY <2>3, <2>4 DEF StillBacked
<1>5. ASSUME st.effects[e].kind # "task", st.effects[e].entry # "resolved", Acked(st, next, e)
      PROVE  StillBacked(st, next, cell)
  <2>1. /\ next.nodeStates[cell] =
             IF \E x \in st.effects[e].targets : CellOf(st, x) = cell THEN "cancelled" ELSE st.nodeStates[cell]
        /\ \A x \in EffectsOf(st) :
             next.effects[x] = IF x = e \/ x \in st.effects[e].targets THEN Answered(st.effects[x], "cancelled") ELSE st.effects[x]
    BY <1>1, <1>5 DEF Acked
  <2>2. st.nodeStates[cell] = "succeeded" /\ ~\E x \in st.effects[e].targets : CellOf(st, x) = cell
    BY <2>1
  <2>3. ASSUME NEW x \in EffectsOf(st), Backs(st, x, cell) PROVE Backs(next, x, cell)
    <3>1. x # e
      BY <1>2, <1>5, <2>3
    <3>2. x \notin st.effects[e].targets
      BY <2>2, <2>3 DEF Backs
    <3>3. next.effects[x] = st.effects[x]
      BY <2>1, <3>1, <3>2
    <3> QED BY <1>1, <2>3, <3>3, SameBacks
  <2> QED BY <2>2, <2>3 DEF StillBacked
<1> QED BY <1>3, <1>4, <1>5 DEF ReceiptDone

\* A round makes up no success either (dispatchRound).
LEMMA RoundBacked ==
  ASSUME NEW st, Sound(st), NEW c, c \in Seq(Nodes), NEW next, Sound(next), RoundDone(st, next, c),
         NEW n \in Nodes, NEW a \in Attempts, next.nodeStates[<<n, a>>] = "succeeded"
  PROVE  StillBacked(st, next, <<n, a>>)
<1>1. /\ st \in State /\ next \in State /\ EffectsOf(st) = 1..Len(st.effects) /\ Len(st.effects) \in Nat
      /\ EffectsOf(next) = 1..Len(next.effects) /\ Len(next.effects) \in Nat
  <2>1. st \in State /\ next \in State
    BY DEF Sound
  <2> QED BY <2>1, EffectsTyped
<1>2. st.nodeStates[<<n, a>>] = "succeeded"
  <2>1. CASE a # CurrentAttempt(st, n)
    BY <2>1 DEF RoundDone
  <2>2. CASE a = CurrentAttempt(st, n)
    <3>1. PICK y : y = ReadiedTo(st)[n]
      OBVIOUS
    <3>2. y = "succeeded"
      BY <2>2, <3>1 DEF RoundDone
    <3>3. y \in {"pending", "waiting"} \/ y = NodeStateAt(st, n)
      BY <3>1 DEF ReadiedTo
    <3> QED BY <2>2, <3>2, <3>3 DEF NodeStateAt
  <2> QED BY <2>1, <2>2
<1>3. ASSUME NEW x \in EffectsOf(st) PROVE Backs(st, x, <<n, a>>) => Backs(next, x, <<n, a>>)
  <2>1. Len(next.effects) = Len(st.effects) + Len(c) /\ Len(c) \in Nat
    BY DEF RoundDone
  <2>2. x \in EffectsOf(next)
    BY <1>1, <2>1
  <2>3. next.effects[x] = st.effects[x]
    BY <1>1 DEF RoundDone
  <2> QED BY <2>2, <2>3, SameBacks
<1> QED BY <1>2, <1>3 DEF StillBacked

\* The cancellation of the session makes up no success (cancelSession).
LEMMA StopBacked ==
  ASSUME NEW st, Sound(st), NEW next, Sound(next), StopDone(st, next),
         NEW n \in Nodes, NEW a \in Attempts, next.nodeStates[<<n, a>>] = "succeeded"
  PROVE  StillBacked(st, next, <<n, a>>)
<1>1. /\ st \in State /\ next \in State /\ EffectsOf(st) = 1..Len(st.effects) /\ Len(st.effects) \in Nat
      /\ EffectsOf(next) = 1..Len(next.effects) /\ Len(next.effects) \in Nat
  <2>1. st \in State /\ next \in State
    BY DEF Sound
  <2> QED BY <2>1, EffectsTyped
<1>2. st.nodeStates[<<n, a>>] = "succeeded"
  <2>1. CASE a # CurrentAttempt(st, n)
    BY <2>1 DEF StopDone
  <2>2. CASE a = CurrentAttempt(st, n)
    <3>1. PICK y : y = StoppedTo(st)[n]
      OBVIOUS
    <3>2. y = "succeeded"
      BY <2>2, <3>1 DEF StopDone
    <3>3. y \in {"cancelled", "cancelling"} \/ y = NodeStateAt(st, n)
      BY <3>1 DEF StoppedTo
    <3> QED BY <2>2, <3>2, <3>3 DEF NodeStateAt
  <2> QED BY <2>1, <2>2
<1>3. ASSUME NEW x \in EffectsOf(st), Backs(st, x, <<n, a>>) PROVE Backs(next, x, <<n, a>>)
  <2>1. Len(next.effects) = Len(st.effects) + IF Active(st) = {} THEN 0 ELSE 1
    BY DEF StopDone
  <2>2. x \in EffectsOf(next)
    <3>1. PICK d \in {0, 1} : d = (IF Active(st) = {} THEN 0 ELSE 1)
      OBVIOUS
    <3>2. PICK k \in Nat, m \in Nat : k = Len(st.effects) /\ m = Len(next.effects)
      BY <1>1
    <3>3. m = k + d /\ x \in 1..k
      BY <1>1, <2>1, <3>1, <3>2
    <3>4. m = k \/ m = k + 1
      <4>1. CASE d = 0
        <5>1. m = k + 0
          BY <3>3, <4>1
        <5> QED BY <3>2, <5>1
      <4>2. CASE d = 1
        BY <3>3, <4>2
      <4> QED BY <3>1, <4>1, <4>2
    <3>5. x \in 1..m
      BY <3>2, <3>3, <3>4
    <3> QED BY <1>1, <3>2, <3>5
  <2>3. x \notin Unused(st)
    <3>1. None \notin Statuses
      BY SessionAssumption
    <3>2. st.effects[x].entry = "resolved"
      BY <1>3, <3>1 DEF Backs, Sound, StatusFits, Statuses
    <3> QED BY <3>2 DEF Unused
  <2>4. next.effects[x] = st.effects[x]
    BY <1>1, <2>3 DEF StopDone
  <2> QED BY <1>3, <2>2, <2>4, SameBacks
<1> QED BY <1>2, <1>3 DEF StillBacked

\* A decision succeeds only on a completed receipt of the attempt it decides (evaluateSession).
LEMMA DecisionBacked ==
  ASSUME NEW st, Sound(st), NEW next, Sound(next), NEW e \in EffectsOf(st), NEW n, n = st.effects[e].node,
         st.effects[e].attempt = CurrentAttempt(st, n), NEW y, DecisionDone(st, next, n, y),
         y = "succeeded" => st.effects[e].status = "completed",
         NEW cell \in Nodes \X Attempts, next.nodeStates[cell] = "succeeded"
  PROVE  StillBacked(st, next, cell) \/ Backs(next, e, cell)
<1>1. st \in State /\ next \in State /\ next.effects = st.effects
  BY DEF Sound, DecisionDone, SameBut
<1>2. st.nodeStates \in [Nodes \X Attempts -> NodeStates \cup {None}]
  BY <1>1 DEF State, RuntimeState
<1>3. \A x \in EffectsOf(st) : Backs(st, x, cell) => Backs(next, x, cell)
  <2>1. EffectsOf(next) = EffectsOf(st)
    BY <1>1 DEF EffectsOf
  <2> QED BY <1>1, <2>1, SameBacks
<1>4. PICK own \in Nodes \X Attempts : own = <<n, CurrentAttempt(st, n)>> /\ own = CellOf(st, e)
  <2>1. CellOf(st, e) \in Nodes \X Attempts
    BY <1>1, EffectsTyped
  <2> QED BY <2>1 DEF CellOf
<1>5. CASE cell # own
  <2>1. next.nodeStates[cell] = st.nodeStates[cell] \/ next.nodeStates[cell] = "pending"
    BY <1>2, <1>4, <1>5 DEF DecisionDone
  <2> QED BY <1>3, <2>1 DEF StillBacked
<1>6. CASE cell = own
  <2>1. next.nodeStates[cell] = y \/ next.nodeStates[cell] = "pending"
    BY <1>2, <1>4, <1>6 DEF DecisionDone
  <2>2. st.effects[e].status = "completed"
    BY <2>1
  <2> QED BY <1>1, <1>4, <1>6, <2>2 DEF Backs, EffectsOf, CellOf
<1> QED BY <1>5, <1>6

\* Every success stays backed.
LEMMA JournalsBack ==
  ASSUME NEW st, Sound(st), Backed(st), NEW next, Sound(next), Journals(st, next)
  PROVE  Backed(next)
<1> SUFFICES ASSUME NEW cell \in Nodes \X Attempts, next.nodeStates[cell] = "succeeded"
             PROVE  \E x \in EffectsOf(next) : Backs(next, x, cell)
  BY DEF Backed
<1>1. PICK n \in Nodes, a \in Attempts : cell = <<n, a>>
  OBVIOUS
<1>2. ASSUME StillBacked(st, next, cell) PROVE \E x \in EffectsOf(next) : Backs(next, x, cell)
  <2>1. PICK x \in EffectsOf(st) : Backs(st, x, cell)
    BY <1>2 DEF StillBacked, Backed
  <2>2. Backs(next, x, cell)
    BY <1>2, <2>1 DEF StillBacked
  <2> QED BY <2>2 DEF Backs
<1>3. ASSUME next.effects = st.effects, next.nodeStates = st.nodeStates PROVE StillBacked(st, next, cell)
  BY <1>3 DEF StillBacked, Backs, EffectsOf, CellOf
<1>4. ASSUME NEW c, ChoiceFits(st, c, Len(NodeOrder)), RoundDone(st, next, c) PROVE StillBacked(st, next, cell)
  BY <1>1, <1>4, RoundBacked DEF ChoiceFits
<1>5. ASSUME NEW e \in EffectsOf(st), st.effects[e].entry = "intended", ClaimDone(st, next, e) PROVE StillBacked(st, next, cell)
  <2>1. next.effects = [st.effects EXCEPT ![e] = Claiming(st.effects[e])] /\ next.nodeStates = st.nodeStates
    BY <1>5 DEF ClaimDone
  <2>2. EffectsOf(next) = EffectsOf(st)
    BY <2>1 DEF EffectsOf
  <2>3. ASSUME NEW x \in EffectsOf(st), Backs(st, x, cell) PROVE Backs(next, x, cell)
    <3>1. None \notin Statuses
      BY SessionAssumption
    <3>2. st.effects[x].entry = "resolved"
      BY <2>3, <3>1 DEF Backs, Sound, StatusFits, Statuses
    <3>3. next.effects[x] = st.effects[x]
      BY <1>5, <2>1, <3>2 DEF EffectsOf
    <3> QED BY <2>2, <2>3, <3>3, SameBacks
  <2> QED BY <2>1, <2>3 DEF StillBacked
<1>6. ASSUME NEW e \in EffectsOf(st), NEW status \in Statuses, ReceiptDone(st, next, e, status), Heard(st, next, e, status)
      PROVE  StillBacked(st, next, cell)
  BY <1>6, ReceiptBacked
<1>7. ASSUME NEW e \in TasksIn(st, EffectsOf(st)), NEW y \in NodeStates,
             st.effects[e].attempt = CurrentAttempt(st, st.effects[e].node),
             DecisionDone(st, next, st.effects[e].node, y), y = "succeeded" => st.effects[e].status = "completed"
      PROVE  \E x \in EffectsOf(next) : Backs(next, x, cell)
  <2>1. e \in EffectsOf(st)
    BY DEF TasksIn
  <2>2. StillBacked(st, next, cell) \/ Backs(next, e, cell)
    BY <1>7, <2>1, DecisionBacked
  <2> QED BY <1>2, <2>2 DEF Backs
<1>8. ASSUME StopDone(st, next) PROVE StillBacked(st, next, cell)
  BY <1>1, <1>8, StopBacked
<1>9. ASSUME Steers(st, next) PROVE StillBacked(st, next, cell)
  BY <1>3, <1>9 DEF Steers
<1>10. next = st => StillBacked(st, next, cell)
  BY <1>3
<1> QED BY <1>2, <1>4, <1>5, <1>6, <1>7, <1>8, <1>9, <1>10 DEF Journals

\* An attempt has succeeded only if an effect of this very attempt ran on the host and was reported
\* completed: no decision, reconciliation or late receipt makes up a success (receiptTransitions,
\* evaluateSession).
THEOREM SuccessesAreBacked == Spec => []SuccessIsBacked
<1>1. Fits /\ Backed(s) => SuccessIsBacked
  <2> SUFFICES ASSUME Fits, Backed(s), NEW n \in Nodes, NEW a \in Attempts, s.nodeStates[<<n, a>>] = "succeeded"
               PROVE  \E e \in EffectsOf(s) : /\ s.effects[e].node = n /\ s.effects[e].attempt = a
                                              /\ s.effects[e].status = "completed" /\ host[e].fate = "ran"
    BY DEF SuccessIsBacked
  <2>1. PICK cell \in Nodes \X Attempts : cell = <<n, a>>
    OBVIOUS
  <2>2. PICK x \in EffectsOf(s) : Backs(s, x, cell)
    BY <2>1 DEF Backed
  <2>3. s.effects[x].node = n /\ s.effects[x].attempt = a /\ s.effects[x].status = "completed"
    BY <2>1, <2>2 DEF Backs, CellOf
  <2>4. host[x].fate = "ran"
    BY <2>3 DEF Fits, HostFit, HostFits
  <2> QED BY <2>3, <2>4
<1>2. Init => Backed(s)
  <2> SUFFICES ASSUME Init, NEW cell \in Nodes \X Attempts PROVE s.nodeStates[cell] # "succeeded"
    BY DEF Backed
  <2>1. s.nodeStates[cell] = None
    BY DEF Init
  <2>2. None \notin NodeStates
    BY SessionAssumption
  <2> QED BY <2>1, <2>2 DEF NodeStates
<1>3. Fits /\ Fits' /\ Backed(s) /\ Stepped => Backed(s)'
  <2> SUFFICES ASSUME Fits, Fits', Backed(s), Stepped PROVE Backed(s')
    OBVIOUS
  <2>1. Sound(s) /\ Sound(s') /\ Journals(s, s')
    BY DEF Fits, Stepped
  <2> QED BY <2>1, JournalsBack
<1>4. Spec => []Backed(s)
  BY <1>2, <1>3, NextMoves, SpecFits, PTL DEF Spec
<1> QED BY <1>1, <1>4, SpecFits, PTL

\* Only an acknowledged cancellation writes to an attempt that another one superseded.
LEMMA JournalsSupersede ==
  ASSUME NEW st, Sound(st), NEW next, Journals(st, next), NEW n \in Nodes, NEW a \in Attempts,
         a < CurrentAttempt(st, n), next.nodeStates[<<n, a>>] # st.nodeStates[<<n, a>>]
  PROVE  \E c \in Unresolved(st) :
           /\ next.effects[c].status = "cancelled"
           /\ \E e \in st.effects[c].targets : st.effects[e].node = n /\ st.effects[e].attempt = a
<1>1. st \in State /\ st.nodeStates \in [Nodes \X Attempts -> NodeStates \cup {None}] /\ EffectsOf(st) = 1..Len(st.effects)
  BY DEF Sound, State, RuntimeState, EffectsOf
<1>2. PICK cell \in Nodes \X Attempts : cell = <<n, a>>
  OBVIOUS
<1>3. PICK o \in Nat : o = CurrentAttempt(st, n) /\ a \in Nat /\ a < o /\ a # o
  <2>1. CurrentAttempt(st, n) \in Nat /\ a \in Nat
    BY <1>1, CurrentTyped, SessionAssumption DEF Attempts
  <2> QED BY <2>1
<1>4. ASSUME NEW c, RoundDone(st, next, c) PROVE FALSE
  BY <1>3, <1>4 DEF RoundDone
<1>5. ASSUME NEW e, ClaimDone(st, next, e) PROVE FALSE
  BY <1>5 DEF ClaimDone
<1>6. ASSUME Steers(st, next) PROVE FALSE
  BY <1>6 DEF Steers
<1>7. ASSUME StopDone(st, next) PROVE FALSE
  BY <1>3, <1>7 DEF StopDone
<1>8. ASSUME NEW e \in TasksIn(st, EffectsOf(st)), NEW x, DecisionDone(st, next, st.effects[e].node, x) PROVE FALSE
  <2>1. PICK m \in Nodes, own \in Nodes \X Attempts : m = st.effects[e].node /\ own = <<m, CurrentAttempt(st, m)>>
    <3>1. st.effects[e].node \in Nodes /\ CurrentAttempt(st, st.effects[e].node) \in Attempts
      BY <1>1, EffectsTyped, CurrentTyped DEF TasksIn
    <3> QED BY <3>1
  <2>2. cell # own
    BY <1>2, <1>3, <2>1
  <2>3. CASE next.nodeStates = [st.nodeStates EXCEPT ![own] = x]
    BY <1>1, <1>2, <2>2, <2>3
  <2>4. ASSUME NEW p \in Nodes, NEW b, b = CurrentAttempt(st, p) \/ b = CurrentAttempt(st, p) + 1,
               next.nodeStates = [st.nodeStates EXCEPT ![own] = x, ![<<p, b>>] = "pending"]
        PROVE  FALSE
    <3>1. <<n, a>> # <<p, b>>
      <4>1. CASE p = n
        <5>1. b = o \/ b = o + 1
          BY <1>3, <2>4, <4>1
        <5>2. a # b
          BY <1>3, <5>1
        <5> QED BY <5>2
      <4>2. CASE p # n
        BY <4>2
      <4> QED BY <4>1, <4>2
    <3>2. cell # <<p, b>>
      BY <1>2, <3>1
    <3>3. next.nodeStates[cell] = st.nodeStates[cell]
      BY <1>1, <2>2, <2>4, <3>2
    <3> QED BY <1>2, <3>3
  <2> QED BY <1>8, <2>1, <2>3, <2>4 DEF DecisionDone
<1>9. ASSUME NEW e \in EffectsOf(st), NEW status, ~Stale(st, e), NEW y, Closes(st, next, e, status, y) PROVE FALSE
  <2>1. PICK m \in Nodes, own \in Nodes \X Attempts : m = st.effects[e].node /\ own = CellOf(st, e) /\ own = <<m, st.effects[e].attempt>>
    BY <1>1, EffectsTyped DEF CellOf
  <2>2. st.effects[e].attempt = CurrentAttempt(st, m)
    BY <1>9, <2>1 DEF Stale
  <2>3. cell # own
    BY <1>2, <1>3, <2>1, <2>2
  <2>4. next.nodeStates = [st.nodeStates EXCEPT ![own] = y]
    BY <1>9, <2>1 DEF Closes
  <2> QED BY <1>1, <1>2, <2>3, <2>4
<1>10. ASSUME NEW c \in EffectsOf(st), st.effects[c].entry # "resolved", Acked(st, next, c)
       PROVE  \E e \in Unresolved(st) :
                /\ next.effects[e].status = "cancelled"
                /\ \E x \in st.effects[e].targets : st.effects[x].node = n /\ st.effects[x].attempt = a
  <2>1. c \in Unresolved(st)
    BY <1>10 DEF Unresolved
  <2>2. PICK g : g = next.effects[c] /\ g = Answered(st.effects[c], "cancelled")
    BY <1>1, <1>10 DEF Acked
  <2>3. st.effects[c] \in Effect /\ "cancelled" \in Statuses
    BY <1>1, EffectsTyped DEF Statuses
  <2>4. g.status = IF "cancelled" = "unknown" THEN None ELSE "cancelled"
    BY <2>2, <2>3, AnsweredFits
  <2>5. \E x \in st.effects[c].targets : CellOf(st, x) = cell
    BY <1>2, <1>10 DEF Acked
  <2>6. PICK x \in st.effects[c].targets : st.effects[x].node = n /\ st.effects[x].attempt = a
    BY <1>2, <2>5 DEF CellOf
  <2> QED BY <2>1, <2>2, <2>4, <2>6
<1> QED BY <1>4, <1>5, <1>6, <1>7, <1>8, <1>9, <1>10 DEF Journals, ReceiptDone

\* A superseded attempt keeps the state it had: no receipt, decision or round moves an attempt after
\* a repair opened the next one; only the late acknowledgement of a cancellation still calls its
\* targets cancelled (evaluateSession, planReceipt).
THEOREM SupersededIsLeft == Spec => SupersededStays
<1>1. ASSUME Fits, Stepped, NEW n \in Nodes, NEW a \in Attempts, a < s.attempts[n],
             s'.nodeStates[<<n, a>>] # s.nodeStates[<<n, a>>]
      PROVE  \E c \in Unresolved(s) :
               /\ s'.effects[c].status = "cancelled"
               /\ \E e \in s.effects[c].targets : s.effects[e].node = n /\ s.effects[e].attempt = a
  <2>1. s.attempts[n] # 0
    <3>1. a \in Nat /\ ~(a < 0)
      BY SessionAssumption DEF Attempts
    <3> QED BY <1>1, <3>1
  <2>2. a < CurrentAttempt(s, n)
    BY <1>1, <2>1 DEF CurrentAttempt
  <2>3. Sound(s) /\ Journals(s, s')
    BY <1>1 DEF Fits, Stepped
  <2> QED BY <1>1, <2>2, <2>3, JournalsSupersede
<1>2. Fits /\ Stepped =>
        [\A n \in Nodes, a \in Attempts :
           a < s.attempts[n] /\ s'.nodeStates[<<n, a>>] # s.nodeStates[<<n, a>>] =>
             \E c \in Unresolved(s) :
               /\ s'.effects[c].status = "cancelled"
               /\ \E e \in s.effects[c].targets : s.effects[e].node = n /\ s.effects[e].attempt = a]_vars
  BY <1>1
<1> QED BY <1>2, NextMoves, SpecFits, PTL DEF Spec, SupersededStays
=============================================================================
