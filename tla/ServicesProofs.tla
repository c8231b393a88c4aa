---------------------------- MODULE ServicesProofs ----------------------------
(***************************************************************************)
(* The services that keep records of what was learned, for every value of      *)
(* their constants.                                                              *)
(*                                                                                *)
(* Promotions and revocations, for every number of assets, pointers, callers and    *)
(* recoveries: first what every step of the promotion service keeps, that where a     *)
(* pointer is its host is (PointersStayTrue), then the revocations that end in it:      *)
(* a cancellation is asked for once, and a complete revocation leaves nothing            *)
(* behind (RevocationsAreHonest).                                                         *)
(*                                                                                         *)
(* Generations: what the ledger keeps for every number of runs, iterations, rollbacks,      *)
(* stray writes and losses, and what a generation in it has gone through.                    *)
(***************************************************************************)
EXTENDS Revocation, Evolution, WellFoundedInduction, SequenceTheorems, TLAPS

-----------------------------------------------------------------------------
(* Types.                                                                    *)

Snapshots == Assets \cup {"base", None}

PromotionRecords ==
  [id : Ids, mode : {"promotion", "rollback"}, asset : Assets, pointer : Pointers, version : Nat,
   previous : Snapshots, target : Snapshots,
   status : {"promoted", "pending", "active", "applied-unqualified", "failed"},
   effect : BOOLEAN, snapshot : Assets \cup {None}]

PointerRecords ==
  [version : Nat, promoted : Assets \cup {None}, active : Assets \cup {None},
   snapshot : Snapshots]

InService == {"observing", "claim", "call", "executing", "asking", "settle"}

Answered == {"returned", "refused"}

InRecovery == {"recover", "cancelling", "cancelled", "querying"} \cup Answered

Calls ==
  [at : {"idle"} \cup InService \cup InRecovery, id : Ids \cup {None}, resume : BOOLEAN,
   eligible : SUBSET Assets, fresh : BOOLEAN, receipt : Outcomes \cup {"unknown", None},
   job : Requests \cup {None}, revision : Revisions \cup {None}, done : SUBSET Pointers]

\* No two records of the sequence have the same id.
Distinct(ps) == \A i, j \in DOMAIN ps : ps[i].id = ps[j].id => i = j

\* The records of the sequence by their ids.
BookOf(ps) ==
  [id \in {ps[i].id : i \in DOMAIN ps} |-> ps[CHOOSE i \in DOMAIN ps : ps[i].id = id]]

book == BookOf(promotions)

OutboxStates == {"absent", "intended", "dispatched", "unknown", "resolved"}

Fates == {"absent", "accepted", "applied", "failed", "never"}

-----------------------------------------------------------------------------
(* What is known of the promotions b and their effects: of their states o in   *)
(* the journal, the receipts v there, and the fates f on the host.               *)

Booked(b) == b \in [DOMAIN b -> PromotionRecords] /\ \A id \in DOMAIN b : b[id].id = id

Journaled(b, o, v, f) ==
  /\ o \in [DOMAIN b -> OutboxStates] /\ v \in [DOMAIN b -> Outcomes \cup {None}]
  /\ f \in [DOMAIN b -> Fates]

EffectFits(q, o, v, f) ==
  /\ q.status = "pending" => q.effect
  /\ q.status = "promoted" => ~q.effect
  /\ q.status \in {"active", "applied-unqualified"} => v = "completed"
  /\ q.effect <=> o # "absent"
  /\ q.effect /\ q.status # "pending" => o = "resolved"
  /\ o \in {"absent", "intended"} => f = "absent"
  /\ o = "resolved" <=> v # None
  /\ v = "completed" => f = "applied"
  /\ v = "failed" => f = "failed"
  /\ v = "not-executed" => f \in {"never", "absent"}

EffectsFit(b, o, v, f) == \A id \in DOMAIN b : EffectFits(b[id], o[id], v[id], f[id])

\* The asset and all it depends on have become active in this context.
Active(a, context, reg) == \A d \in WithDependencies(a) : context \in reg[d].contexts

\* What a registered revision depends on is registered.
Closed(reg) ==
  \A a \in Assets : reg[a] \in Entries => \A d \in WithDependencies(a) : reg[d] \in Entries

RecordFits(q, reg) ==
  /\ reg[q.asset] \in Entries
  /\ q.snapshot # None => q.snapshot = q.asset /\ q.status \in {"active", "applied-unqualified"}
  /\ q.status = "active" \/ q.mode = "rollback" => Active(q.asset, Session[q.pointer], reg)

RecordsFit(b, reg) == \A id \in DOMAIN b : RecordFits(b[id], reg)

\* No other promotion of the host session is open.
Alone(b, id) ==
  \A other \in DOMAIN b \ {id} :
    b[other].status = "pending" => Session[b[other].pointer] # Session[b[id].pointer]

OneOpen(b) == \A id \in DOMAIN b : b[id].status = "pending" => Alone(b, id)

\* The host is ahead of a pointer only by an activation that is still open.
Applied(b, f, id) == b[id].status = "pending" /\ f[id] = "applied"

HostFollows(b, f, pt, h) ==
  /\ \A id \in DOMAIN b : Applied(b, f, id) => h[b[id].pointer] = b[id].asset
  /\ \A p \in Pointers :
       (\A id \in DOMAIN b : b[id].pointer = p => ~Applied(b, f, id)) => h[p] = pt[p].snapshot

\* An active asset is at the snapshot some promotion of the pointer reached.
PointersFit(b, pt) ==
  \A p \in Pointers :
    /\ pt[p].active = None => pt[p].snapshot = "base"
    /\ pt[p].active # None =>
         /\ pt[p].snapshot = pt[p].active
         /\ \E id \in DOMAIN b : b[id].pointer = p /\ b[id].snapshot = pt[p].snapshot

Typed(b, o, v, f, reg, pt, h) ==
  /\ Booked(b) /\ Journaled(b, o, v, f) /\ reg \in [Assets -> Entries \cup {None}]
  /\ pt \in [Pointers -> PointerRecords] /\ h \in [Pointers -> Snapshots]

Fits(b, o, v, f, reg, pt, h) ==
  /\ Typed(b, o, v, f, reg, pt, h)
  /\ EffectsFit(b, o, v, f) /\ Closed(reg) /\ RecordsFit(b, reg) /\ OneOpen(b)
  /\ HostFollows(b, f, pt, h) /\ PointersFit(b, pt)

StateInv ==
  /\ promotions \in Seq(PromotionRecords) /\ Distinct(promotions)
  /\ opened \in BOOLEAN /\ (promotions # << >> => opened)
  /\ Fits(book, outbox, received, fate, registry, pointers, host)

-----------------------------------------------------------------------------
(* What is known of a call.                                                  *)

\* The states of a cancellation that asks for nothing more.
Over == {"not-executed", "settled"}

\* Once an effect was dispatched, it was not executed only if the host never will.
NeverRuns(id, o, v, f) ==
  o[id] \notin {"absent", "intended"} /\ (v[id] = "not-executed" => f[id] = "never")

CallFits(c, b, o, v, f) ==
  /\ c \in Calls
  /\ c.at = "idle" => c.job = None /\ c.done = {}
  /\ c.at \in InService \cup (InRecovery \ {"recover"}) => c.id \in DOMAIN b
  /\ c.at \in InRecovery => c.job # None
  /\ c.job # None => c.revision \in Revisions /\ DOMAIN c.revision.cancellations \subseteq DOMAIN b
  /\ c.at \in {"cancelling", "cancelled", "querying"} => c.id \in DOMAIN c.revision.cancellations
  /\ c.at \in {"cancelling", "cancelled"} => c.revision.cancellations[c.id] = "requested"
  /\ c.at = "querying" => c.revision.cancellations[c.id] \notin Over
  /\ c.at = "observing" /\ c.fresh => b[c.id].status = "promoted" /\ Alone(b, c.id)
  /\ c.at = "call" => NeverRuns(c.id, o, v, f)
  /\ c.at = "settle" /\ c.receipt \in {"completed", "failed"} => v[c.id] = c.receipt

CallsFit == DOMAIN call = Threads /\ \A t \in Threads : CallFits(call[t], book, outbox, received, fate)

-----------------------------------------------------------------------------
(* Sequences and the book of their records.                                  *)

\* A nonempty set of indexes has a least and a greatest member.
LEMMA Extremes ==
  ASSUME NEW n \in Nat, NEW S \in SUBSET (1..n), S # {}
  PROVE  /\ \E x \in S : \A y \in S : x <= y
         /\ \E x \in S : \A y \in S : x >= y
<1> DEFINE R == OpToRel(<, Nat)
           T == {n - x : x \in S}
<1>1. IsWellFoundedOn(R, Nat)
  BY NatLessThanWellFounded, Zenon
<1>2. \A x, y \in Nat : x < y => <<x, y>> \in R
  BY DEF OpToRel
<1> HIDE DEF R
<1>3. S \subseteq Nat /\ \A x \in S : n - x \in Nat
  OBVIOUS
<1>0. T \subseteq Nat /\ T # {}
  BY <1>3
<1>4. PICK x \in S : \A y \in S : ~(<<y, x>> \in R)
  BY <1>1, <1>3, WFMin, Zenon
<1>5. PICK z \in T : \A y \in T : ~(<<y, z>> \in R)
  BY <1>0, <1>1, WFMin, Zenon
<1>6. \A y \in S : x <= y
  <2> SUFFICES ASSUME NEW y \in S, y < x PROVE FALSE
    BY <1>3
  <2>1. <<y, x>> \in R
    BY <1>2, <1>3
  <2> QED BY <1>4, <2>1
<1>7. PICK w \in S : z = n - w
  BY <1>5
<1>8. ASSUME NEW y \in S PROVE w >= y
  <2>1. n - y \in T /\ ~(n - y < z)
    BY <1>0, <1>2, <1>3, <1>5
  <2> QED BY <1>3, <1>7, <1>8, <2>1
<1> QED BY <1>6, <1>8

\* The first and the last record that pass a test are records that pass it.
LEMMA Selected ==
  ASSUME NEW ps \in Seq(PromotionRecords), NEW S \in SUBSET (1..Len(ps)), S # {}
  PROVE  Min(S) \in S /\ Max(S) \in S /\ Min(S) # 0 /\ Max(S) # 0
<1>1. Len(ps) \in Nat
  BY LenProperties
<1>2. (\E x \in S : \A y \in S : x <= y) /\ (\E x \in S : \A y \in S : x >= y)
  BY <1>1, Extremes
<1>3. Min(S) \in S /\ Max(S) \in S
  BY <1>2 DEF Min, Max
<1> QED BY <1>1, <1>3

\* The book holds each record under its id.
LEMMA BookParts ==
  ASSUME NEW ps \in Seq(PromotionRecords), Distinct(ps)
  PROVE  /\ \A id \in DOMAIN BookOf(ps) : BookOf(ps)[id] \in PromotionRecords /\ BookOf(ps)[id].id = id
         /\ \A i \in DOMAIN ps : ps[i].id \in DOMAIN BookOf(ps) /\ BookOf(ps)[ps[i].id] = ps[i]
         /\ \A id \in DOMAIN BookOf(ps) : \E i \in DOMAIN ps : ps[i].id = id /\ BookOf(ps)[id] = ps[i]
<1>1. \A i \in DOMAIN ps : ps[i] \in PromotionRecords
  BY ElementOfSeq, LenProperties
<1>2. \A i \in DOMAIN ps : (CHOOSE j \in DOMAIN ps : ps[j].id = ps[i].id) = i
  BY DEF Distinct
<1> QED BY <1>1, <1>2 DEF BookOf

\* The book is the function of its values.
LEMMA BookIsFunction ==
  ASSUME NEW ps
  PROVE  BookOf(ps) = [id \in DOMAIN BookOf(ps) |-> BookOf(ps)[id]]
<1> DEFINE D == {ps[i].id : i \in DOMAIN ps}
           e(id) == ps[CHOOSE i \in DOMAIN ps : ps[i].id = id]
<1>1. BookOf(ps) = [id \in D |-> e(id)]
  BY Zenon DEF BookOf
<1> HIDE DEF D, e
<1>2. D = DOMAIN BookOf(ps) /\ \A id \in D : BookOf(ps)[id] = e(id)
  BY <1>1
<1> QED BY <1>1, <1>2

\* What is rewritten record by record, and keeps the ids, is rewritten in the book.
LEMMA Rewritten ==
  ASSUME NEW ps \in Seq(PromotionRecords), Distinct(ps),
         NEW g \in [DOMAIN BookOf(ps) -> PromotionRecords], \A id \in DOMAIN g : g[id].id = id,
         NEW new, new = [i \in DOMAIN ps |-> g[ps[i].id]]
  PROVE  new \in Seq(PromotionRecords) /\ Distinct(new) /\ BookOf(new) = g
<1>1. /\ Len(ps) \in Nat /\ DOMAIN ps = 1..Len(ps) /\ DOMAIN new = DOMAIN ps
      /\ \A i \in DOMAIN ps : ps[i].id \in DOMAIN g /\ new[i] = g[ps[i].id] /\ new[i].id = ps[i].id
  BY LenProperties, BookParts
<1>2. \A i \in DOMAIN ps : new[i] \in PromotionRecords
  BY <1>1
<1>3. new \in Seq(PromotionRecords)
  <2>1. new = [i \in 1..Len(ps) |-> new[i]]
    BY <1>1
  <2> QED BY <1>1, <1>2, <2>1, IsASeq
<1>4. Distinct(new)
  BY <1>1 DEF Distinct
<1>5. DOMAIN BookOf(new) = DOMAIN g
  <2>1. DOMAIN BookOf(new) = {new[i].id : i \in DOMAIN new} /\ DOMAIN g = {ps[i].id : i \in DOMAIN ps}
    BY DEF BookOf
  <2>2. \A i \in DOMAIN new : new[i].id = ps[i].id
    BY <1>1
  <2>3. {new[i].id : i \in DOMAIN new} = {ps[i].id : i \in DOMAIN new}
    BY <2>2
  <2> QED BY <1>1, <2>1, <2>3
<1>6. ASSUME NEW id \in DOMAIN g PROVE BookOf(new)[id] = g[id]
  <2>1. PICK i \in DOMAIN ps : ps[i].id = id
    BY BookParts
  <2>2. BookOf(new)[new[i].id] = new[i]
    BY <1>1, <1>3, <1>4, BookParts
  <2> QED BY <1>1, <2>1, <2>2
<1>7. BookOf(new) = [id \in DOMAIN BookOf(new) |-> BookOf(new)[id]]
  BY BookIsFunction
<1> HIDE DEF BookOf
<1> QED BY <1>3, <1>4, <1>5, <1>6, <1>7

\* A record with a new id is one more in the book.
LEMMA Added ==
  ASSUME NEW ps \in Seq(PromotionRecords), Distinct(ps),
         NEW r \in PromotionRecords, r.id \notin DOMAIN BookOf(ps),
         NEW new, new = Append(ps, r)
  PROVE  /\ new \in Seq(PromotionRecords) /\ Distinct(new)
         /\ BookOf(new) = With(BookOf(ps), r.id, r)
<1> DEFINE n == Len(ps)
<1>1. /\ n \in Nat /\ DOMAIN ps = 1..n /\ DOMAIN new = 1..(n + 1) /\ new \in Seq(PromotionRecords)
      /\ new[n + 1] = r /\ \A i \in 1..n : new[i] = ps[i]
  BY LenProperties, AppendProperties
<1>2. \A i \in 1..n : ps[i].id # r.id /\ ps[i].id \in DOMAIN BookOf(ps) /\ BookOf(ps)[ps[i].id] = ps[i]
  BY <1>1, BookParts
<1>3. \A i \in 1..(n + 1) : i \in 1..n \/ i = n + 1
  BY <1>1
<1>4. Distinct(new)
  BY <1>1, <1>2, <1>3 DEF Distinct
<1>5. DOMAIN BookOf(new) = DOMAIN BookOf(ps) \cup {r.id}
  <2>1. DOMAIN BookOf(new) = {new[i].id : i \in 1..(n + 1)} /\ DOMAIN BookOf(ps) = {ps[i].id : i \in 1..n}
    BY <1>1 DEF BookOf
  <2> QED BY <1>1, <1>3, <2>1
<1>6. \A i \in DOMAIN new : BookOf(new)[new[i].id] = new[i]
  BY <1>1, <1>4, BookParts, Zenon
<1>7. BookOf(new)[r.id] = r
  BY <1>1, <1>6
<1>8. ASSUME NEW id \in DOMAIN BookOf(ps) PROVE BookOf(new)[id] = BookOf(ps)[id]
  <2>1. PICK i \in 1..n : ps[i].id = id /\ BookOf(ps)[id] = ps[i]
    BY <1>1, BookParts
  <2> QED BY <1>1, <1>6, <2>1
<1>9. BookOf(new) = [id \in DOMAIN BookOf(new) |-> BookOf(new)[id]]
  BY BookIsFunction, Zenon
<1>10. BookOf(new) = With(BookOf(ps), r.id, r)
  BY <1>5, <1>7, <1>8, <1>9 DEF With
<1> QED BY <1>1, <1>4, <1>10

\* The promotions are the book.
LEMMA BookIsTyped ==
  ASSUME NEW ps \in Seq(PromotionRecords), Distinct(ps)
  PROVE  Booked(BookOf(ps))
BY BookParts, BookIsFunction DEF Booked

\* What an asset depends on is what its dependencies are and depend on.
LEMMA Dependencies ==
  ASSUME NEW a \in Assets
  PROVE  /\ a \in WithDependencies(a) /\ WithDependencies(a) \subseteq Assets
         /\ \A e \in WithDependencies(a) : e = a \/ \E d \in Deps[a] : e \in WithDependencies(d)
<1>1. \A d \in Assets : d \notin Deps[d] /\ Deps[d] \subseteq Assets
  BY RegistryAssumption
<1>2. \A x \in Assets : \A d \in WithDependencies(x) : d \in Assets /\ Deps[d] \subseteq WithDependencies(x)
  BY <1>1 DEF WithDependencies, DependsOn
<1> DEFINE S == UNION {WithDependencies(d) : d \in Deps[a]}
<1>3. S \in SUBSET Assets /\ Deps[a] \subseteq S /\ \A d \in S : Deps[d] \subseteq S
  <2>1. \A d \in Deps[a] : d \in WithDependencies(d) /\ WithDependencies(d) \subseteq S
    BY DEF WithDependencies
  <2> QED BY <1>1, <1>2, <2>1
<1>4. DependsOn[a] \subseteq S
  BY <1>3 DEF DependsOn
<1> QED BY <1>2, <1>4 DEF WithDependencies

-----------------------------------------------------------------------------
(* What may change about the promotions, the host and the registry.          *)

\* A registry that goes on: entries stay, and contexts are only added.
Grows(reg, new) == \A a \in Assets : reg[a] \in Entries =>
                     new[a] \in Entries /\ reg[a].contexts \subseteq new[a].contexts

\* What fits one registry fits one that has grown out of it.
LEMMA RegistryGrows ==
  ASSUME NEW b, NEW o, NEW v, NEW f, NEW reg, NEW pt, NEW h, Fits(b, o, v, f, reg, pt, h),
         NEW new \in [Assets -> Entries \cup {None}], Grows(reg, new), Closed(new)
  PROVE  Fits(b, o, v, f, new, pt, h)
<1>1. Booked(b) /\ RecordsFit(b, reg) /\ Closed(reg)
  BY DEF Fits, Typed
<1>2. RecordsFit(b, new)
  <2> SUFFICES ASSUME NEW id \in DOMAIN b PROVE RecordFits(b[id], new)
    BY DEF RecordsFit
  <2>1. RecordFits(b[id], reg) /\ b[id].asset \in Assets
    BY <1>1 DEF RecordsFit, Booked, PromotionRecords
  <2>3. \A d \in WithDependencies(b[id].asset) : d \in Assets /\ reg[d] \in Entries
    BY <1>1, <2>1, Dependencies DEF Closed, RecordFits
  <2>2. Active(b[id].asset, Session[b[id].pointer], reg) => Active(b[id].asset, Session[b[id].pointer], new)
    BY <2>3 DEF Active, Grows
  <2> QED BY <2>1, <2>2 DEF RecordFits, Grows
<1> QED BY <1>2 DEF Fits, Typed

\* When no entry goes and none comes, what is closed stays so.
LEMMA StaysClosed ==
  ASSUME NEW reg, NEW new, Closed(reg), \A a \in Assets : reg[a] \in Entries <=> new[a] \in Entries
  PROVE  Closed(new)
BY Dependencies DEF Closed

\* A pointer that is named anew, and stays where it is.
LEMMA PointersRenamed ==
  ASSUME NEW b, NEW o, NEW v, NEW f, NEW reg, NEW pt, NEW h, Fits(b, o, v, f, reg, pt, h),
         NEW new \in [Pointers -> PointerRecords],
         \A p \in Pointers : new[p].active = pt[p].active /\ new[p].snapshot = pt[p].snapshot
  PROVE  Fits(b, o, v, f, reg, new, h)
<1>1. HostFollows(b, f, pt, h) /\ PointersFit(b, pt)
  BY DEF Fits
<1>2. HostFollows(b, f, new, h) /\ PointersFit(b, new)
  BY <1>1 DEF HostFollows, PointersFit
<1> QED BY <1>2 DEF Fits, Typed

\* What becomes of an effect is not taken back.
EffectGoes(id, o, v, f, o2, v2, f2) ==
  /\ v[id] \in {"completed", "failed"} => v2[id] = v[id]
  /\ NeverRuns(id, o, v, f) => NeverRuns(id, o2, v2, f2)

Goes(b, o, v, f, b2, o2, v2, f2) ==
  DOMAIN b \subseteq DOMAIN b2 /\ \A id \in DOMAIN b : EffectGoes(id, o, v, f, o2, v2, f2)

\* The functions agree but for the promotion id.
Same(id, x, y) == DOMAIN y = DOMAIN x /\ \A other \in DOMAIN x \ {id} : y[other] = x[other]

\* One promotion goes on to the record q, and what it and the pointer say of the host is as before.
LEMMA OneChanges ==
  ASSUME NEW b, NEW o, NEW v, NEW f, NEW reg, NEW pt, NEW h, Fits(b, o, v, f, reg, pt, h),
         NEW id \in DOMAIN b, NEW b2, NEW o2, NEW v2, NEW f2,
         Booked(b2), Journaled(b2, o2, v2, f2),
         Same(id, b, b2), Same(id, o, o2), Same(id, v, v2), Same(id, f, f2),
         b2[id].pointer = b[id].pointer, b2[id].asset = b[id].asset,
         b[id].snapshot # None => b2[id].snapshot = b[id].snapshot,
         EffectFits(b2[id], o2[id], v2[id], f2[id]), RecordFits(b2[id], reg),
         b2[id].status = "pending" => Alone(b, id),
         Applied(b2, f2, id) <=> Applied(b, f, id),
         EffectGoes(id, o, v, f, o2, v2, f2)
  PROVE  Fits(b2, o2, v2, f2, reg, pt, h) /\ Goes(b, o, v, f, b2, o2, v2, f2)
<1>1. /\ Typed(b, o, v, f, reg, pt, h) /\ EffectsFit(b, o, v, f) /\ RecordsFit(b, reg) /\ OneOpen(b)
      /\ HostFollows(b, f, pt, h) /\ PointersFit(b, pt)
  BY DEF Fits
<1>2. /\ DOMAIN b2 = DOMAIN b /\ DOMAIN o = DOMAIN b /\ DOMAIN v = DOMAIN b /\ DOMAIN f = DOMAIN b
      /\ \A other \in DOMAIN b : other # id =>
           b2[other] = b[other] /\ o2[other] = o[other] /\ v2[other] = v[other] /\ f2[other] = f[other]
  BY <1>1 DEF Same, Typed, Journaled
<1>3. EffectsFit(b2, o2, v2, f2) /\ RecordsFit(b2, reg)
  BY <1>1, <1>2 DEF EffectsFit, RecordsFit
<1>4. OneOpen(b2)
  BY <1>1, <1>2 DEF OneOpen, Alone
<1>5. \A other \in DOMAIN b : b2[other].pointer = b[other].pointer /\ b2[other].asset = b[other].asset
                              /\ (Applied(b2, f2, other) <=> Applied(b, f, other))
  BY <1>2 DEF Applied
<1>6. HostFollows(b2, f2, pt, h)
  BY <1>1, <1>2, <1>5 DEF HostFollows
<1>7. PointersFit(b2, pt)
  <2> SUFFICES ASSUME NEW p \in Pointers, pt[p].active # None
               PROVE  \E i \in DOMAIN b2 : b2[i].pointer = p /\ b2[i].snapshot = pt[p].snapshot
    BY <1>1 DEF PointersFit
  <2>1. PICK i \in DOMAIN b : b[i].pointer = p /\ b[i].snapshot = pt[p].snapshot
    BY <1>1 DEF PointersFit
  <2>2. pt[p].snapshot # None
    BY <1>1, RegistryAssumption DEF PointersFit
  <2> QED BY <1>2, <2>1, <2>2
<1>8. Goes(b, o, v, f, b2, o2, v2, f2)
  BY <1>2 DEF Goes, EffectGoes, NeverRuns
<1> QED BY <1>1, <1>3, <1>4, <1>6, <1>7, <1>8 DEF Fits, Typed

\* The host applies what it accepted.
LEMMA HostApplies ==
  ASSUME NEW b, NEW o, NEW v, NEW f, NEW reg, NEW pt, NEW h, Fits(b, o, v, f, reg, pt, h),
         NEW id \in DOMAIN b, f[id] = "accepted",
         NEW f2 \in [DOMAIN b -> Fates], Same(id, f, f2), f2[id] = "applied",
         NEW h2 \in [Pointers -> Snapshots], h2[b[id].pointer] = b[id].asset,
         \A p \in Pointers \ {b[id].pointer} : h2[p] = h[p]
  PROVE  Fits(b, o, v, f2, reg, pt, h2) /\ Goes(b, o, v, f, b, o, v, f2)
<1>1. /\ Typed(b, o, v, f, reg, pt, h) /\ EffectsFit(b, o, v, f) /\ RecordsFit(b, reg) /\ OneOpen(b)
      /\ HostFollows(b, f, pt, h) /\ PointersFit(b, pt)
  BY DEF Fits
<1>2. /\ b[id].pointer \in Pointers /\ b[id].asset \in Assets
      /\ \A other \in DOMAIN b : b[other].pointer \in Pointers
  BY <1>1 DEF Typed, Booked, PromotionRecords
<1>3. EffectFits(b[id], o[id], v[id], f[id]) /\ v[id] \in Outcomes \cup {None} /\ o[id] \in OutboxStates
      /\ b[id].effect \in BOOLEAN
  BY <1>1 DEF EffectsFit, Typed, Journaled, Booked, PromotionRecords
<1>4. b[id].status = "pending" /\ v[id] = None
  BY <1>3 DEF EffectFits, Outcomes
<1>5. DOMAIN f2 = DOMAIN b /\ f2[id] = "applied" /\ \A other \in DOMAIN b \ {id} : f2[other] = f[other]
  BY <1>1 DEF Typed, Journaled, Same
<1>6. EffectsFit(b, o, v, f2)
  BY <1>1, <1>3, <1>4, <1>5 DEF EffectsFit, EffectFits
<1>7. \A other \in DOMAIN b \ {id} : b[other].status = "pending" => b[other].pointer # b[id].pointer
  BY <1>1, <1>4 DEF OneOpen, Alone
<1>8. HostFollows(b, f2, pt, h2)
  <2>1. h2[b[id].pointer] = b[id].asset /\ \A p \in Pointers \ {b[id].pointer} : h2[p] = h[p]
    OBVIOUS
  <2>2. ASSUME NEW other \in DOMAIN b, Applied(b, f2, other) PROVE h2[b[other].pointer] = b[other].asset
    BY <1>1, <1>2, <1>5, <1>7, <2>1, <2>2 DEF HostFollows, Applied
  <2>3. ASSUME NEW p \in Pointers, \A other \in DOMAIN b : b[other].pointer = p => ~Applied(b, f2, other)
        PROVE  h2[p] = pt[p].snapshot
    <3>1. p # b[id].pointer
      BY <1>4, <1>5, <2>3 DEF Applied
    <3>2. \A other \in DOMAIN b : b[other].pointer = p => ~Applied(b, f, other)
      BY <1>5, <2>3, <3>1 DEF Applied
    <3> QED BY <1>1, <2>1, <3>1, <3>2 DEF HostFollows
  <2> QED BY <2>2, <2>3 DEF HostFollows
<1>10. Goes(b, o, v, f, b, o, v, f2)
  BY <1>4, <1>5, RegistryAssumption, PromotionAssumption DEF Goes, EffectGoes, NeverRuns, Outcomes
<1> QED BY <1>1, <1>6, <1>8, <1>10 DEF Fits, Typed, Journaled

\* A promotion whose activation was applied is settled: the pointer comes to where the host is.
LEMMA Settles ==
  ASSUME NEW b, NEW o, NEW v, NEW f, NEW reg, NEW pt, NEW h, Fits(b, o, v, f, reg, pt, h),
         NEW id \in DOMAIN b, b[id].status = "pending", v[id] = "completed",
         NEW b2, Booked(b2), Same(id, b, b2),
         b2[id].pointer = b[id].pointer, b2[id].asset = b[id].asset, b2[id].effect,
         b2[id].status \in {"active", "applied-unqualified"}, b2[id].snapshot = b[id].asset,
         RecordFits(b2[id], reg),
         NEW pt2 \in [Pointers -> PointerRecords],
         \A p \in Pointers \ {b[id].pointer} : pt2[p] = pt[p],
         pt2[b[id].pointer].active = b[id].asset, pt2[b[id].pointer].snapshot = b[id].asset
  PROVE  Fits(b2, o, v, f, reg, pt2, h) /\ Goes(b, o, v, f, b2, o, v, f)
<1>1. /\ Typed(b, o, v, f, reg, pt, h) /\ EffectsFit(b, o, v, f) /\ RecordsFit(b, reg) /\ OneOpen(b)
      /\ HostFollows(b, f, pt, h) /\ PointersFit(b, pt)
  BY DEF Fits
<1>2. /\ DOMAIN b2 = DOMAIN b /\ \A other \in DOMAIN b \ {id} : b2[other] = b[other]
      /\ \A other \in DOMAIN b : b[other].pointer \in Pointers
      /\ b[id].asset \in Assets /\ None \notin Assets
  BY <1>1, RegistryAssumption DEF Same, Typed, Booked, PromotionRecords
<1>3. EffectFits(b[id], o[id], v[id], f[id])
  BY <1>1 DEF EffectsFit
<1>4. f[id] = "applied" /\ o[id] = "resolved" /\ EffectFits(b2[id], o[id], v[id], f[id])
  BY <1>3, PromotionAssumption DEF EffectFits, Outcomes
<1>5. EffectsFit(b2, o, v, f) /\ RecordsFit(b2, reg)
  BY <1>1, <1>2, <1>4 DEF EffectsFit, RecordsFit
<1>6. OneOpen(b2)
  BY <1>1, <1>2 DEF OneOpen, Alone
<1>7. \A other \in DOMAIN b \ {id} : b[other].status = "pending" => b[other].pointer # b[id].pointer
  BY <1>1 DEF OneOpen, Alone
<1>8. HostFollows(b2, f, pt2, h)
  <2>1. h[b[id].pointer] = b[id].asset
    BY <1>1, <1>4 DEF HostFollows, Applied
  <2>2. ASSUME NEW other \in DOMAIN b2, Applied(b2, f, other) PROVE h[b2[other].pointer] = b2[other].asset
    BY <1>1, <1>2, <2>2 DEF HostFollows, Applied
  <2>3. ASSUME NEW p \in Pointers, \A other \in DOMAIN b2 : b2[other].pointer = p => ~Applied(b2, f, other)
        PROVE  h[p] = pt2[p].snapshot
    <3>1. CASE p = b[id].pointer
      BY <2>1, <3>1
    <3>2. CASE p # b[id].pointer
      <4>1. \A other \in DOMAIN b : b[other].pointer = p => ~Applied(b, f, other)
        BY <1>2, <2>3, <3>2 DEF Applied
      <4> QED BY <1>1, <3>2, <4>1 DEF HostFollows
    <3> QED BY <3>1, <3>2
  <2> QED BY <2>2, <2>3 DEF HostFollows
<1>9. PointersFit(b2, pt2)
  <2> SUFFICES ASSUME NEW p \in Pointers
               PROVE  /\ pt2[p].active = None => pt2[p].snapshot = "base"
                      /\ pt2[p].active # None =>
                           /\ pt2[p].snapshot = pt2[p].active
                           /\ \E i \in DOMAIN b2 : b2[i].pointer = p /\ b2[i].snapshot = pt2[p].snapshot
    BY DEF PointersFit
  <2>1. CASE p = b[id].pointer
    BY <1>2, <2>1
  <2>2. CASE p # b[id].pointer
    <3>1. pt2[p] = pt[p]
      BY <2>2
    <3>2. ASSUME pt[p].active # None
          PROVE  \E i \in DOMAIN b2 : b2[i].pointer = p /\ b2[i].snapshot = pt[p].snapshot
      <4>1. PICK i \in DOMAIN b : b[i].pointer = p /\ b[i].snapshot = pt[p].snapshot
        BY <1>1, <3>2 DEF PointersFit
      <4> QED BY <1>2, <2>2, <4>1
    <3> QED BY <1>1, <3>1, <3>2 DEF PointersFit
  <2> QED BY <2>1, <2>2
<1>10. Goes(b, o, v, f, b2, o, v, f)
  BY <1>2 DEF Goes, EffectGoes
<1> QED BY <1>1, <1>2, <1>5, <1>6, <1>8, <1>9, <1>10 DEF Fits, Typed, Journaled

\* A promotion or a rollback is added; nothing of it has been intended.
LEMMA Adds ==
  ASSUME NEW b, NEW o, NEW v, NEW f, NEW reg, NEW pt, NEW h, Fits(b, o, v, f, reg, pt, h),
         NEW r \in PromotionRecords, r.id \notin DOMAIN b,
         r.status = "promoted", r.effect = FALSE, r.snapshot = None, RecordFits(r, reg)
  PROVE  /\ Fits(With(b, r.id, r), With(o, r.id, "absent"), With(v, r.id, None), With(f, r.id, "absent"),
                 reg, pt, h)
         /\ Goes(b, o, v, f, With(b, r.id, r), With(o, r.id, "absent"), With(v, r.id, None),
                 With(f, r.id, "absent"))
<1>0. PICK b2, o2, v2, f2 :
        /\ b2 = With(b, r.id, r) /\ o2 = With(o, r.id, "absent") /\ v2 = With(v, r.id, None)
        /\ f2 = With(f, r.id, "absent")
  OBVIOUS
<1> DEFINE D == DOMAIN b \cup {r.id}
<1>1. /\ Typed(b, o, v, f, reg, pt, h) /\ EffectsFit(b, o, v, f) /\ RecordsFit(b, reg) /\ OneOpen(b)
      /\ HostFollows(b, f, pt, h) /\ PointersFit(b, pt)
  BY DEF Fits
<1>2. o \in [DOMAIN b -> OutboxStates] /\ v \in [DOMAIN b -> Outcomes \cup {None}] /\ f \in [DOMAIN b -> Fates]
  BY <1>1 DEF Typed, Journaled
<1>3. /\ b2 = [id \in D |-> IF id = r.id THEN r ELSE b[id]]
      /\ o2 = [id \in D |-> IF id = r.id THEN "absent" ELSE o[id]]
      /\ v2 = [id \in D |-> IF id = r.id THEN None ELSE v[id]]
      /\ f2 = [id \in D |-> IF id = r.id THEN "absent" ELSE f[id]]
  BY <1>0, <1>2 DEF With
<1>4. Booked(b2) /\ Journaled(b2, o2, v2, f2)
  BY <1>1, <1>2, <1>3 DEF Typed, Booked, Journaled, OutboxStates, Fates
<1>5. /\ DOMAIN b2 = D /\ b2[r.id] = r /\ o2[r.id] = "absent" /\ v2[r.id] = None /\ f2[r.id] = "absent"
      /\ \A id \in DOMAIN b : id # r.id /\ b2[id] = b[id] /\ o2[id] = o[id] /\ v2[id] = v[id] /\ f2[id] = f[id]
  BY <1>2, <1>3
<1>6. EffectsFit(b2, o2, v2, f2) /\ RecordsFit(b2, reg)
  <2>1. EffectFits(r, "absent", None, "absent")
    BY PromotionAssumption DEF EffectFits, Outcomes
  <2> QED BY <1>1, <1>5, <2>1 DEF EffectsFit, RecordsFit
<1>7. OneOpen(b2)
  BY <1>1, <1>5 DEF OneOpen, Alone
<1>8. HostFollows(b2, f2, pt, h)
  <2>1. \A id \in DOMAIN b : Applied(b2, f2, id) <=> Applied(b, f, id)
    BY <1>5 DEF Applied
  <2>2. ~Applied(b2, f2, r.id)
    BY <1>5 DEF Applied
  <2> QED BY <1>1, <1>5, <2>1, <2>2 DEF HostFollows
<1>9. PointersFit(b2, pt)
  BY <1>1, <1>5 DEF PointersFit
<1>10. Goes(b, o, v, f, b2, o2, v2, f2)
  BY <1>5 DEF Goes, EffectGoes, NeverRuns
<1> QED BY <1>0, <1>1, <1>4, <1>6, <1>7, <1>8, <1>9, <1>10 DEF Fits, Typed

\* The promotions over fail, none of which the host was asked to activate.
EndedBy(b, o, v, over, b2, o2, v2) ==
  /\ over \in SUBSET DOMAIN b
  /\ \A id \in over : b[id].status \in {"promoted", "pending"} /\ (~b[id].effect \/ o[id] = "intended")
  /\ b2 \in [DOMAIN b -> PromotionRecords]
  /\ o2 \in [DOMAIN b -> OutboxStates] /\ v2 \in [DOMAIN b -> Outcomes \cup {None}]
  /\ \A id \in DOMAIN b :
       /\ b2[id] = IF id \in over THEN [b[id] EXCEPT !.status = "failed"] ELSE b[id]
       /\ o2[id] = IF id \in over /\ b[id].effect THEN "resolved" ELSE o[id]
       /\ v2[id] = IF id \in over /\ b[id].effect THEN "not-executed" ELSE v[id]

\* The state still fits when promotions the host never heard of have failed.
LEMMA Ended ==
  ASSUME NEW b, NEW o, NEW v, NEW f, NEW reg, NEW pt, NEW h, Fits(b, o, v, f, reg, pt, h),
         NEW over, NEW b2, NEW o2, NEW v2, EndedBy(b, o, v, over, b2, o2, v2)
  PROVE  Fits(b2, o2, v2, f, reg, pt, h) /\ Goes(b, o, v, f, b2, o2, v2, f)
<1> USE DEF EndedBy
<1>1. /\ Typed(b, o, v, f, reg, pt, h) /\ EffectsFit(b, o, v, f) /\ RecordsFit(b, reg) /\ OneOpen(b)
      /\ HostFollows(b, f, pt, h) /\ PointersFit(b, pt)
  BY DEF Fits
<1>2. o \in [DOMAIN b -> OutboxStates] /\ v \in [DOMAIN b -> Outcomes \cup {None}] /\ f \in [DOMAIN b -> Fates]
      /\ \A id \in DOMAIN b : b[id] \in PromotionRecords /\ b[id].id = id
  BY <1>1 DEF Typed, Journaled, Booked
<1>3. ASSUME NEW id \in DOMAIN b
      PROVE  /\ b2[id] \in PromotionRecords /\ b2[id].id = b[id].id /\ b2[id].pointer = b[id].pointer
             /\ b2[id].asset = b[id].asset /\ b2[id].effect = b[id].effect /\ b2[id].mode = b[id].mode
             /\ b2[id].snapshot = b[id].snapshot
             /\ b2[id].status = IF id \in over THEN "failed" ELSE b[id].status
  <2>1. CASE id \notin over
    BY <1>2, <2>1
  <2>2. CASE id \in over
    <3>1. PICK q : q = [b[id] EXCEPT !.status = "failed"]
      OBVIOUS
    <3>0. b[id] \in PromotionRecords
      BY <1>2
    <3>1a. q \in PromotionRecords
      BY <3>0, <3>1 DEF PromotionRecords
    <3>2. q.id = b[id].id /\ q.pointer = b[id].pointer /\ q.asset = b[id].asset
      BY <3>0, <3>1 DEF PromotionRecords
    <3>3. q.effect = b[id].effect /\ q.mode = b[id].mode /\ q.snapshot = b[id].snapshot /\ q.status = "failed"
      BY <1>2, <3>1 DEF PromotionRecords
    <3>4. b2[id] = q
      BY <2>2, <3>1
    <3> QED BY <2>2, <3>1a, <3>2, <3>3, <3>4
  <2> QED BY <2>1, <2>2
<1>4. /\ DOMAIN b2 = DOMAIN b /\ DOMAIN o2 = DOMAIN b /\ DOMAIN v2 = DOMAIN b
      /\ b2 \in [DOMAIN b -> PromotionRecords]
      /\ o2 \in [DOMAIN b -> OutboxStates] /\ v2 \in [DOMAIN b -> Outcomes \cup {None}]
  BY <1>2, <1>3 DEF OutboxStates, Outcomes
<1>5. Booked(b2) /\ Journaled(b2, o2, v2, f)
  BY <1>2, <1>3, <1>4 DEF Booked, Journaled
<1>6. ASSUME NEW id \in over
      PROVE  /\ ~Applied(b, f, id) /\ b[id].snapshot = None
             /\ EffectFits(b2[id], o2[id], v2[id], f[id]) /\ EffectGoes(id, o, v, f, o2, v2, f)
             /\ f[id] = "absent" /\ o[id] \in {"absent", "intended"}
  <2>1. EffectFits(b[id], o[id], v[id], f[id]) /\ RecordFits(b[id], reg)
    BY <1>1 DEF EffectsFit, RecordsFit
  <2>2. f[id] = "absent" /\ v[id] = None /\ (b[id].effect => o[id] = "intended") /\ (~b[id].effect => o[id] = "absent")
    BY <1>2, <2>1 DEF EffectFits
  <2>3. o2[id] = (IF b[id].effect THEN "resolved" ELSE o[id]) /\ v2[id] = (IF b[id].effect THEN "not-executed" ELSE v[id])
    BY <1>2
  <2>4. b[id].snapshot = None /\ ~Applied(b, f, id)
    BY <2>1, <2>2 DEF RecordFits, Applied
  <2>5. b2[id].status = "failed" /\ b2[id].effect = b[id].effect /\ b[id].effect \in BOOLEAN
    BY <1>2, <1>3 DEF PromotionRecords
  <2>6. EffectFits(b2[id], o2[id], v2[id], f[id])
    BY <2>2, <2>3, <2>5, PromotionAssumption DEF EffectFits, Outcomes
  <2>7. EffectGoes(id, o, v, f, o2, v2, f)
    BY <2>2, PromotionAssumption DEF EffectGoes, NeverRuns, Outcomes
  <2> QED BY <2>2, <2>4, <2>6, <2>7
<1>7. \A id \in DOMAIN b \ over : b2[id] = b[id] /\ o2[id] = o[id] /\ v2[id] = v[id]
  BY <1>2
<1>8. EffectsFit(b2, o2, v2, f)
  BY <1>1, <1>4, <1>6, <1>7 DEF EffectsFit
<1>9. RecordsFit(b2, reg)
  <2> SUFFICES ASSUME NEW id \in over PROVE RecordFits(b2[id], reg)
    BY <1>1, <1>4, <1>7 DEF RecordsFit
  <2>1. RecordFits(b[id], reg)
    BY <1>1 DEF RecordsFit
  <2> QED BY <1>3, <1>6, <2>1 DEF RecordFits
<1>10. OneOpen(b2)
  BY <1>1, <1>3, <1>4 DEF OneOpen, Alone
<1>11. \A id \in DOMAIN b : Applied(b2, f, id) <=> Applied(b, f, id)
  BY <1>3, <1>6 DEF Applied
<1>12. HostFollows(b2, f, pt, h)
  BY <1>1, <1>3, <1>4, <1>11 DEF HostFollows
<1>13. PointersFit(b2, pt)
  BY <1>1, <1>3, <1>4 DEF PointersFit
<1>14. Goes(b, o, v, f, b2, o2, v2, f)
  BY <1>4, <1>6, <1>7 DEF Goes, EffectGoes, NeverRuns
<1> QED BY <1>1, <1>5, <1>8, <1>9, <1>10, <1>12, <1>13, <1>14 DEF Fits, Typed

-----------------------------------------------------------------------------
(* Calls.                                                                    *)

Places == {"idle"} \cup InService \cup InRecovery

\* A call that was outdated is the same otherwise.
LEMMA StaleParts ==
  ASSUME NEW c \in Calls, NEW d, d = [c EXCEPT !.fresh = FALSE]
  PROVE  /\ d \in Calls /\ d.fresh = FALSE /\ d.at = c.at /\ d.id = c.id /\ d.receipt = c.receipt
         /\ d.job = c.job /\ d.revision = c.revision /\ d.done = c.done /\ d.eligible = c.eligible
         /\ d.resume = c.resume
<1>1. d \in Calls
  BY DEF Calls
<1>2. d.fresh = FALSE /\ d.at = c.at /\ d.id = c.id /\ d.receipt = c.receipt /\ d.job = c.job
  BY DEF Calls
<1>3. d.revision = c.revision /\ d.done = c.done /\ d.eligible = c.eligible /\ d.resume = c.resume
  BY DEF Calls
<1> QED BY <1>1, <1>2, <1>3

\* A call at another place is the same otherwise.
LEMMA PlaceParts ==
  ASSUME NEW c \in Calls, NEW p \in Places, NEW d, d = [c EXCEPT !.at = p]
  PROVE  /\ d \in Calls /\ d.at = p /\ d.fresh = c.fresh /\ d.id = c.id /\ d.receipt = c.receipt
         /\ d.job = c.job /\ d.revision = c.revision /\ d.done = c.done /\ d.eligible = c.eligible
         /\ d.resume = c.resume
<1>1. d \in Calls
  BY DEF Calls, Places
<1>2. d.fresh = c.fresh /\ d.at = p /\ d.id = c.id /\ d.receipt = c.receipt /\ d.job = c.job
  BY DEF Calls
<1>3. d.revision = c.revision /\ d.done = c.done /\ d.eligible = c.eligible /\ d.resume = c.resume
  BY DEF Calls
<1> QED BY <1>1, <1>2, <1>3

\* A call with another receipt is the same otherwise.
LEMMA ReceiptParts ==
  ASSUME NEW c \in Calls, NEW x \in Outcomes \cup {"unknown", None}, NEW d, d = [c EXCEPT !.receipt = x]
  PROVE  /\ d \in Calls /\ d.receipt = x /\ d.at = c.at /\ d.fresh = c.fresh /\ d.id = c.id
         /\ d.job = c.job /\ d.revision = c.revision /\ d.done = c.done
<1>1. d \in Calls
  BY DEF Calls
<1>2. d.fresh = c.fresh /\ d.at = c.at /\ d.id = c.id /\ d.receipt = x /\ d.job = c.job
  BY DEF Calls
<1>3. d.revision = c.revision /\ d.done = c.done
  BY DEF Calls
<1> QED BY <1>1, <1>2, <1>3

\* A call about another promotion is the same otherwise.
LEMMA IdParts ==
  ASSUME NEW c \in Calls, NEW x \in Ids, NEW d, d = [c EXCEPT !.id = x]
  PROVE  /\ d \in Calls /\ d.id = x /\ d.at = c.at /\ d.fresh = c.fresh /\ d.receipt = c.receipt
         /\ d.job = c.job /\ d.revision = c.revision /\ d.done = c.done
<1>1. d \in Calls
  BY DEF Calls
<1>2. d.fresh = c.fresh /\ d.at = c.at /\ d.id = x /\ d.receipt = c.receipt /\ d.job = c.job
  BY DEF Calls
<1>3. d.revision = c.revision /\ d.done = c.done
  BY DEF Calls
<1> QED BY <1>1, <1>2, <1>3

\* A call that is part of a recovery, and one that is not.
LEMMA RecoveryParts ==
  ASSUME NEW p \in Places, NEW x \in Ids \cup {None}, NEW j \in Requests \cup {None},
         NEW w \in Revisions \cup {None}, NEW e \in SUBSET Pointers,
         NEW d, d = [Idle EXCEPT !.at = p, !.id = x, !.job = j, !.revision = w, !.done = e]
  PROVE  /\ d \in Calls /\ d.at = p /\ d.id = x /\ d.fresh = FALSE /\ d.receipt = None
         /\ d.job = j /\ d.revision = w /\ d.done = e
BY DEF Idle, Calls, Places

\* The idle call is a call.
LEMMA IdleParts ==
  Idle \in Calls /\ Idle.at = "idle" /\ Idle.id = None /\ Idle.job = None /\ Idle.done = {}
BY DEF Idle, Calls

\* What is known of a call stays known while promotions and effects go on.
LEMMA CallKept ==
  ASSUME NEW c, NEW b, NEW o, NEW v, NEW f, CallFits(c, b, o, v, f),
         NEW b2, NEW o2, NEW v2, NEW f2, Goes(b, o, v, f, b2, o2, v2, f2),
         c.fresh = FALSE \/ b2 = b
  PROVE  CallFits(c, b2, o2, v2, f2)
<1>1. DOMAIN b \subseteq DOMAIN b2
  BY DEF Goes
<1>2. c.at \in InService \cup (InRecovery \ {"recover"}) =>
        c.id \in DOMAIN b /\ EffectGoes(c.id, o, v, f, o2, v2, f2)
  BY DEF CallFits, Goes
<1>3. c.at = "call" => NeverRuns(c.id, o2, v2, f2)
  BY <1>2 DEF CallFits, EffectGoes, InService
<1>4. c.at = "settle" /\ c.receipt \in {"completed", "failed"} => v2[c.id] = c.receipt
  BY <1>2 DEF CallFits, EffectGoes, InService
<1> QED BY <1>1, <1>3, <1>4 DEF CallFits

\* A call that was outdated fits as it did.
LEMMA StaleFits ==
  ASSUME NEW c, NEW b, NEW o, NEW v, NEW f, CallFits(c, b, o, v, f),
         NEW d, d = [c EXCEPT !.fresh = FALSE]
  PROVE  CallFits(d, b, o, v, f)
<1>1. c \in Calls
  BY DEF CallFits
<1> QED BY <1>1, StaleParts DEF CallFits

\* An idle call fits whatever the state.
LEMMA IdleFits ==
  ASSUME NEW b, NEW o, NEW v, NEW f, NEW c \in Calls, c.at = "idle", c.job = None, c.done = {}
  PROVE  CallFits(c, b, o, v, f)
BY RevocationAssumption DEF CallFits, InService, InRecovery, Answered

-----------------------------------------------------------------------------
(* Steps on the state.                                                       *)

Statuses == {"promoted", "pending", "active", "applied-unqualified", "failed"}

\* A record of another status is the same otherwise.
LEMMA StatusParts ==
  ASSUME NEW q \in PromotionRecords, NEW x \in Statuses, NEW n, n = [q EXCEPT !.status = x]
  PROVE  /\ n \in PromotionRecords /\ n.status = x /\ n.id = q.id /\ n.pointer = q.pointer
         /\ n.asset = q.asset /\ n.mode = q.mode /\ n.effect = q.effect /\ n.snapshot = q.snapshot
<1>1. n \in PromotionRecords
  BY DEF PromotionRecords, Statuses
<1>2. n.status = x /\ n.id = q.id /\ n.pointer = q.pointer /\ n.asset = q.asset
  BY DEF PromotionRecords
<1>3. n.mode = q.mode /\ n.effect = q.effect /\ n.snapshot = q.snapshot
  BY DEF PromotionRecords
<1> QED BY <1>1, <1>2, <1>3

\* A record whose activation was intended is the same otherwise.
LEMMA IntendedParts ==
  ASSUME NEW q \in PromotionRecords, NEW n, n = [q EXCEPT !.status = "pending", !.effect = TRUE]
  PROVE  /\ n \in PromotionRecords /\ n.status = "pending" /\ n.id = q.id /\ n.pointer = q.pointer
         /\ n.asset = q.asset /\ n.mode = q.mode /\ n.effect = TRUE /\ n.snapshot = q.snapshot
<1>1. PICK m : m = [q EXCEPT !.status = "pending"]
  OBVIOUS
<1>2. /\ m \in PromotionRecords /\ m.status = "pending" /\ m.id = q.id /\ m.pointer = q.pointer
      /\ m.asset = q.asset /\ m.mode = q.mode /\ m.snapshot = q.snapshot
  BY <1>1, StatusParts DEF Statuses
<1>3. n = [m EXCEPT !.effect = TRUE]
  BY <1>1
<1>4. n \in PromotionRecords
  BY <1>2, <1>3 DEF PromotionRecords
<1>5. n.status = "pending" /\ n.id = q.id /\ n.pointer = q.pointer /\ n.asset = q.asset
  BY <1>2, <1>3 DEF PromotionRecords
<1>6. n.mode = q.mode /\ n.effect = TRUE /\ n.snapshot = q.snapshot
  BY <1>2, <1>3 DEF PromotionRecords
<1> QED BY <1>4, <1>5, <1>6

\* A record with another snapshot is the same otherwise.
LEMMA SnapshotParts ==
  ASSUME NEW q \in PromotionRecords, NEW a \in Assets, NEW n, n = [q EXCEPT !.snapshot = a]
  PROVE  /\ n \in PromotionRecords /\ n.snapshot = a /\ n.id = q.id /\ n.pointer = q.pointer
         /\ n.asset = q.asset /\ n.mode = q.mode /\ n.effect = q.effect /\ n.status = q.status
<1>1. n \in PromotionRecords
  BY DEF PromotionRecords
<1>2. n.snapshot = a /\ n.id = q.id /\ n.pointer = q.pointer /\ n.asset = q.asset
  BY DEF PromotionRecords
<1>3. n.mode = q.mode /\ n.effect = q.effect /\ n.status = q.status
  BY DEF PromotionRecords
<1> QED BY <1>1, <1>2, <1>3

\* Record and PromotionIds read the book.
LEMMA Records ==
  /\ DOMAIN book = PromotionIds
  /\ \A id \in PromotionIds : Record(id) = book[id]
BY DEF book, BookOf, Record, PromotionIds

\* How promotions, pointers and registry go on, as a revocation sees it: what has ended does
\* not begin again, nothing begins with a revoked asset, and a pointer comes to be on an asset
\* by a promotion that was open.
Moves(b, pt, reg, b2, pt2, reg2) ==
  /\ \A id \in DOMAIN b :
       /\ id \in DOMAIN b2 /\ b2[id].asset = b[id].asset /\ b2[id].pointer = b[id].pointer
       /\ b[id].effect => b2[id].effect
       /\ b2[id].status \in {"promoted", "pending"} => b[id].status \in {"promoted", "pending"}
       /\ b2[id].status = "active" /\ b[id].status # "active" => pt2[b[id].pointer].active = b[id].asset
  /\ \A id \in DOMAIN b2 \ DOMAIN b : reg[b2[id].asset].state # "revoked"
  /\ \A a \in Assets : reg[a] # None /\ reg[a].state = "revoked" => reg2[a] # None /\ reg2[a].state = "revoked"
  /\ \A p \in Pointers :
       \/ pt2[p].active = pt[p].active
       \/ \E id \in DOMAIN b : b[id].pointer = p /\ b[id].status = "pending" /\ pt2[p].active = b[id].asset

StateStep ==
  /\ StateInv'
  /\ Goes(book, outbox, received, fate, book', outbox', received', fate')
  /\ Moves(book, pointers, registry, book', pointers', registry')

\* Effects that stay as they are go on.
LEMMA GoesNowhere ==
  ASSUME NEW b, NEW o, NEW v, NEW f
  PROVE  Goes(b, o, v, f, b, o, v, f)
BY DEF Goes, EffectGoes

\* Promotions that stay as they are go on.
LEMMA MovesNowhere ==
  ASSUME NEW b, NEW pt, NEW reg
  PROVE  Moves(b, pt, reg, b, pt, reg)
BY DEF Moves

\* A step that leaves the service and the host alone.
LEMMA QuietStep ==
  ASSUME StateInv, UNCHANGED <<projection, journal, fate, host>>
  PROVE  StateStep /\ book' = book
<1>1. /\ promotions' = promotions /\ opened' = opened /\ registry' = registry /\ pointers' = pointers
      /\ outbox' = outbox /\ received' = received /\ fate' = fate /\ host' = host
  BY DEF projection, journal
<1>2. book' = book
  BY <1>1 DEF book
<1>3. StateInv'
  BY <1>1, <1>2 DEF StateInv
<1> QED BY <1>1, <1>2, <1>3, GoesNowhere, MovesNowhere DEF StateStep

\* Only the registry goes on.
LEMMA RegistryStep ==
  ASSUME StateInv, UNCHANGED <<pointers, promotions, journal, fate, host>>, opened' \in BOOLEAN,
         opened => opened', registry' \in [Assets -> Entries \cup {None}],
         Grows(registry, registry'), Closed(registry'),
         \A a \in Assets : registry[a] # None /\ registry[a].state = "revoked" =>
                             registry'[a] # None /\ registry'[a].state = "revoked"
  PROVE  StateStep /\ book' = book
<1>1. /\ promotions' = promotions /\ pointers' = pointers
      /\ outbox' = outbox /\ received' = received /\ fate' = fate /\ host' = host
  BY DEF journal
<1>2. book' = book
  BY <1>1 DEF book
<1>3. Fits(book, outbox, received, fate, registry', pointers, host)
  BY RegistryGrows DEF StateInv
<1>4. StateInv'
  BY <1>1, <1>2, <1>3 DEF StateInv
<1>5. Moves(book, pointers, registry, book', pointers', registry')
  BY <1>1, <1>2 DEF Moves
<1> QED BY <1>1, <1>2, <1>4, <1>5, GoesNowhere DEF StateStep

\* One record of the book is replaced.
LEMMA Replaced ==
  ASSUME StateInv, NEW id \in DOMAIN book, NEW q \in PromotionRecords, q.id = id,
         promotions' = WithRecord(id, q)
  PROVE  /\ promotions' \in Seq(PromotionRecords) /\ Distinct(promotions')
         /\ promotions # << >> /\ Booked(book') /\ Same(id, book, book') /\ book'[id] = q
<1> DEFINE g == [book EXCEPT ![id] = q]
<1>1. promotions \in Seq(PromotionRecords) /\ Distinct(promotions) /\ Booked(book)
  BY DEF StateInv, Fits, Typed
<1>2. g \in [DOMAIN book -> PromotionRecords] /\ \A i \in DOMAIN g : g[i].id = i
  BY <1>1 DEF Booked
<1>3. \A i \in DOMAIN promotions : promotions[i].id \in DOMAIN book /\ book[promotions[i].id] = promotions[i]
  BY <1>1, BookParts DEF book
<1>4. promotions' = [i \in DOMAIN promotions |-> g[promotions[i].id]]
  BY <1>1, <1>3 DEF WithRecord, Booked
<1> HIDE DEF g
<1>5. promotions' \in Seq(PromotionRecords) /\ Distinct(promotions') /\ book' = g
  BY <1>1, <1>2, <1>4, Rewritten DEF book
<1>6. promotions # << >>
  <2>1. \E i \in DOMAIN promotions : TRUE
    BY <1>1, BookParts DEF book
  <2> QED BY <2>1
<1>7. Booked(book')
  BY <1>2, <1>5 DEF Booked
<1>8. Same(id, book, book') /\ book'[id] = q
  BY <1>1, <1>5 DEF g, Same, Booked
<1> QED BY <1>5, <1>6, <1>7, <1>8

\* One promotion and its effect go on; the pointer and the host stay.
LEMMA OneStep ==
  ASSUME StateInv, NEW id \in DOMAIN book, UNCHANGED <<registry, opened, pointers, host>>,
         promotions' \in Seq(PromotionRecords), Distinct(promotions'), promotions # << >>,
         Booked(book'), Same(id, book, book'), Journaled(book', outbox', received', fate'),
         Same(id, outbox, outbox'), Same(id, received, received'), Same(id, fate, fate'),
         book'[id].pointer = book[id].pointer, book'[id].asset = book[id].asset,
         book'[id].mode = book[id].mode, book'[id].snapshot = book[id].snapshot,
         book[id].effect => book'[id].effect,
         book'[id].status \in {"promoted", "pending", "failed"}, book[id].status = book'[id].status \/ book[id].snapshot = None,
         book'[id].status \in {"promoted", "pending"} => book[id].status \in {"promoted", "pending"},
         book'[id].status = "pending" => book[id].status = "pending" \/ Alone(book, id),
         EffectFits(book'[id], outbox'[id], received'[id], fate'[id]),
         Applied(book', fate', id) <=> Applied(book, fate, id),
         EffectGoes(id, outbox, received, fate, outbox', received', fate')
  PROVE  StateStep
<1>1. Fits(book, outbox, received, fate, registry, pointers, host) /\ opened
  BY DEF StateInv
<1>2. RecordFits(book[id], registry) /\ OneOpen(book)
  BY <1>1 DEF Fits, RecordsFit
<1>3. RecordFits(book'[id], registry)
  BY <1>2 DEF RecordFits
<1>4. book'[id].status = "pending" => Alone(book, id)
  BY <1>2 DEF OneOpen
<1>5. /\ Fits(book', outbox', received', fate', registry, pointers, host)
      /\ Goes(book, outbox, received, fate, book', outbox', received', fate')
  BY <1>1, <1>3, <1>4, OneChanges
<1>6. StateInv'
  BY <1>1, <1>5 DEF StateInv
<1>7. Moves(book, pointers, registry, book', pointers', registry')
  BY DEF Moves, Same
<1> QED BY <1>5, <1>6, <1>7 DEF StateStep

\* Only the effect of one promotion goes on.
LEMMA EffectStep ==
  ASSUME StateInv, NEW id \in DOMAIN book, UNCHANGED <<projection, host>>,
         book[id].status \in {"promoted", "pending", "failed"},
         Journaled(book, outbox', received', fate'),
         Same(id, outbox, outbox'), Same(id, received, received'), Same(id, fate, fate'),
         EffectFits(book[id], outbox'[id], received'[id], fate'[id]),
         book[id].status = "pending" => (fate'[id] = "applied" <=> fate[id] = "applied"),
         EffectGoes(id, outbox, received, fate, outbox', received', fate')
  PROVE  StateStep /\ book' = book
<1>1. promotions' = promotions /\ opened' = opened /\ registry' = registry /\ pointers' = pointers /\ host' = host
  BY DEF projection
<1>2. book' = book
  BY <1>1 DEF book
<1>3. Booked(book) /\ Journaled(book', outbox', received', fate') /\ Same(id, book, book')
  BY <1>2 DEF StateInv, Fits, Typed, Same
<1>4. Applied(book', fate', id) <=> Applied(book, fate, id)
  BY <1>2 DEF Applied
<1>5. promotions \in Seq(PromotionRecords) /\ Distinct(promotions)
  BY DEF StateInv
<1>6. promotions # << >>
  <2>1. \E i \in DOMAIN promotions : TRUE
    BY <1>5, BookParts DEF book
  <2> QED BY <2>1
<1>7. StateStep
  BY <1>1, <1>2, <1>3, <1>4, <1>5, <1>6, OneStep
<1> QED BY <1>2, <1>7

\* What is known of the effect of a promotion.
LEMMA EffectIs ==
  ASSUME StateInv, NEW id \in DOMAIN book
  PROVE  /\ EffectFits(book[id], outbox[id], received[id], fate[id])
         /\ book[id] \in PromotionRecords /\ book[id].id = id /\ RecordFits(book[id], registry)
         /\ book[id].effect \in BOOLEAN /\ book[id].status \in Statuses
         /\ book[id].pointer \in Pointers /\ book[id].asset \in Assets
         /\ outbox[id] \in OutboxStates /\ received[id] \in Outcomes \cup {None} /\ fate[id] \in Fates
<1>1. Booked(book) /\ Journaled(book, outbox, received, fate) /\ EffectsFit(book, outbox, received, fate)
      /\ RecordsFit(book, registry)
  BY DEF StateInv, Fits, Typed
<1>2. book[id] \in PromotionRecords /\ book[id].id = id
  BY <1>1 DEF Booked
<1>3. book[id].effect \in BOOLEAN /\ book[id].status \in Statuses
      /\ book[id].pointer \in Pointers /\ book[id].asset \in Assets
  BY <1>2 DEF PromotionRecords, Statuses
<1>4. outbox[id] \in OutboxStates /\ received[id] \in Outcomes \cup {None} /\ fate[id] \in Fates
  BY <1>1 DEF Journaled
<1>5. EffectFits(book[id], outbox[id], received[id], fate[id]) /\ RecordFits(book[id], registry)
  BY <1>1 DEF EffectsFit, RecordsFit
<1> QED BY <1>2, <1>3, <1>4, <1>5

\* The intention to activate is recorded, with its effect in the journal.
LEMMA IntendStep ==
  ASSUME StateInv, NEW id \in DOMAIN book, book[id].status = "promoted", Alone(book, id),
         UNCHANGED <<registry, opened, pointers, received, fate, host>>,
         promotions' = WithRecord(id, [book[id] EXCEPT !.status = "pending", !.effect = TRUE]),
         outbox' = [outbox EXCEPT ![id] = "intended"]
  PROVE  StateStep
<1>1. PICK q : q = [book[id] EXCEPT !.status = "pending", !.effect = TRUE]
  OBVIOUS
<1>2. /\ EffectFits(book[id], outbox[id], received[id], fate[id])
      /\ book[id] \in PromotionRecords /\ book[id].id = id /\ RecordFits(book[id], registry)
      /\ Journaled(book, outbox, received, fate)
      /\ outbox[id] \in OutboxStates
  BY EffectIs DEF StateInv, Fits, Typed
<1>3. /\ q \in PromotionRecords /\ q.status = "pending" /\ q.id = id /\ q.pointer = book[id].pointer
      /\ q.asset = book[id].asset /\ q.mode = book[id].mode /\ q.effect = TRUE
      /\ q.snapshot = book[id].snapshot
  <2>1. PICK k \in PromotionRecords : k = book[id]
    BY <1>2
  <2>2. q = [k EXCEPT !.status = "pending", !.effect = TRUE]
    BY <1>1, <2>1
  <2>3. /\ q \in PromotionRecords /\ q.status = "pending" /\ q.id = k.id /\ q.pointer = k.pointer
        /\ q.asset = k.asset /\ q.mode = k.mode /\ q.effect = TRUE /\ q.snapshot = k.snapshot
    BY <2>2, IntendedParts, Zenon
  <2> QED BY <1>2, <2>1, <2>3
<1>4. /\ promotions' \in Seq(PromotionRecords) /\ Distinct(promotions')
      /\ promotions # << >> /\ Booked(book') /\ Same(id, book, book') /\ book'[id] = q
  BY <1>1, <1>3, Replaced
<1>5. outbox[id] = "absent" /\ fate[id] = "absent" /\ received[id] = None /\ book[id].snapshot = None
  BY <1>2 DEF EffectFits, RecordFits
<1>6. outbox'[id] = "intended" /\ received'[id] = None /\ fate'[id] = "absent"
  BY <1>2, <1>5 DEF Journaled
<1>7. EffectFits(q, "intended", None, "absent")
  BY <1>3, PromotionAssumption DEF EffectFits, Outcomes
<1>8. Journaled(book', outbox', received', fate') /\ Same(id, outbox, outbox')
      /\ Same(id, received, received') /\ Same(id, fate, fate')
  BY <1>2, <1>4 DEF Journaled, Same, OutboxStates
<1>9. (Applied(book', fate', id) <=> Applied(book, fate, id))
      /\ EffectGoes(id, outbox, received, fate, outbox', received', fate')
  BY <1>5, <1>6 DEF Applied, EffectGoes, NeverRuns
<1> QED BY <1>3, <1>4, <1>5, <1>6, <1>7, <1>8, <1>9, OneStep

\* The effect is claimed.
LEMMA ClaimStep ==
  ASSUME StateInv, NEW id \in DOMAIN book, UNCHANGED <<projection, received, fate, host>>,
         outbox[id] = "intended", outbox' = [outbox EXCEPT ![id] = "dispatched"]
  PROVE  StateStep /\ book' = book /\ NeverRuns(id, outbox', received', fate')
<1>1. EffectFits(book[id], outbox[id], received[id], fate[id]) /\ book[id].effect \in BOOLEAN
      /\ book[id].status \in Statuses /\ received[id] \in Outcomes \cup {None}
      /\ Journaled(book, outbox, received, fate)
  BY EffectIs DEF StateInv, Fits, Typed
<1>2. book[id].status = "pending" /\ received[id] = None /\ fate[id] = "absent"
  BY <1>1 DEF EffectFits
<1>3. outbox'[id] = "dispatched" /\ Journaled(book, outbox', received', fate') /\ Same(id, outbox, outbox')
  BY <1>1 DEF Journaled, OutboxStates, Same
<1>4. EffectFits(book[id], outbox'[id], received'[id], fate'[id])
  BY <1>1, <1>2, <1>3, PromotionAssumption DEF EffectFits, Outcomes
<1>5. NeverRuns(id, outbox', received', fate') /\ EffectGoes(id, outbox, received, fate, outbox', received', fate')
  BY <1>2, <1>3, PromotionAssumption DEF NeverRuns, EffectGoes, Outcomes
<1> QED BY <1>2, <1>3, <1>4, <1>5, EffectStep DEF Same

\* The host is called with a claimed effect.
LEMMA CallStep ==
  ASSUME StateInv, NEW id \in DOMAIN book, UNCHANGED <<projection, journal, host>>,
         NeverRuns(id, outbox, received, fate),
         fate' = [fate EXCEPT ![id] = IF @ = "absent" THEN "accepted" ELSE @]
  PROVE  StateStep /\ book' = book
<1>1. EffectFits(book[id], outbox[id], received[id], fate[id]) /\ book[id].effect \in BOOLEAN
      /\ book[id].status \in Statuses /\ received[id] \in Outcomes \cup {None}
      /\ Journaled(book, outbox, received, fate)
  BY EffectIs DEF StateInv, Fits, Typed
<1>2. outbox' = outbox /\ received' = received /\ UNCHANGED <<projection, host>>
  BY DEF journal
<1>3. CASE fate[id] # "absent"
  <2>1. fate' = fate
    BY <1>1, <1>3 DEF Journaled
  <2> QED BY <2>1, QuietStep
<1>4. CASE fate[id] = "absent"
  <2>1. received[id] = None /\ book[id].status = "pending"
    BY <1>1, <1>4, PromotionAssumption DEF EffectFits, NeverRuns, Outcomes
  <2>2. fate'[id] = "accepted" /\ Journaled(book, outbox', received', fate') /\ Same(id, fate, fate')
    BY <1>1, <1>2, <1>4 DEF Journaled, Fates, Same
  <2>3. EffectFits(book[id], outbox'[id], received'[id], fate'[id])
    BY <1>1, <1>2, <2>1, <2>2, PromotionAssumption DEF EffectFits, NeverRuns, Outcomes
  <2>4. EffectGoes(id, outbox, received, fate, outbox', received', fate')
    BY <1>2, <2>1, PromotionAssumption DEF EffectGoes, NeverRuns, Outcomes
  <2> QED BY <1>2, <1>4, <2>1, <2>2, <2>3, <2>4, EffectStep DEF Same
<1> QED BY <1>3, <1>4

\* What the host answers is what became of the effect.
LEMMA VerdictIs ==
  ASSUME NEW id, NEW status \in Verdicts(id)
  PROVE  /\ status \in {"unknown", "completed", "failed", "not-executed"}
         /\ status = "completed" => fate[id] = "applied"
         /\ status = "failed" => fate[id] = "failed"
         /\ status = "not-executed" => fate[id] = "never"
<1>1. CASE fate[id] = "applied"
  BY <1>1 DEF Verdicts
<1>2. CASE fate[id] = "failed"
  BY <1>2 DEF Verdicts
<1>3. CASE fate[id] = "never"
  BY <1>3 DEF Verdicts
<1>4. CASE fate[id] \notin {"applied", "failed", "never"}
  BY <1>4 DEF Verdicts
<1> QED BY <1>1, <1>2, <1>3, <1>4

\* What the host answers is retained in the journal.
LEMMA RetainStep ==
  ASSUME StateInv, NEW id \in DOMAIN book, UNCHANGED <<projection, fate, host>>,
         NEW status \in Verdicts(id) \ {"not-executed"}, Retainable(id, status),
         outbox' = [outbox EXCEPT ![id] = IF status = "unknown" THEN "unknown" ELSE "resolved"],
         received' = [received EXCEPT ![id] = IF status = "unknown" THEN @ ELSE status]
  PROVE  /\ StateStep /\ book' = book
         /\ status \in {"completed", "failed"} => received'[id] = status
<1>1. EffectFits(book[id], outbox[id], received[id], fate[id]) /\ book[id].effect \in BOOLEAN
      /\ book[id].status \in Statuses /\ received[id] \in Outcomes \cup {None}
      /\ Journaled(book, outbox, received, fate)
  BY EffectIs DEF StateInv, Fits, Typed
<1>2. /\ status \in {"unknown", "completed", "failed"}
      /\ status = "completed" => fate[id] = "applied"
      /\ status = "failed" => fate[id] = "failed"
  BY VerdictIs
<1>3. Journaled(book, outbox', received', fate') /\ Same(id, outbox, outbox') /\ Same(id, received, received')
  <2>1. \A x \in {"unknown", "resolved"} : x \in OutboxStates
    BY DEF OutboxStates
  <2>2. status # "unknown" => status \in Outcomes \cup {None}
    BY <1>2 DEF Outcomes
  <2> QED BY <1>1, <2>1, <2>2 DEF Journaled, Same
<1>4. /\ outbox'[id] = (IF status = "unknown" THEN "unknown" ELSE "resolved")
      /\ received'[id] = (IF status = "unknown" THEN received[id] ELSE status)
  BY <1>1 DEF Journaled
<1>5. received[id] \in {"completed", "failed", "not-executed"} => received[id] = status
  BY <1>1, <1>2, PromotionAssumption DEF EffectFits, Retainable, Outcomes
<1>6. outbox[id] \in {"dispatched", "unknown", "resolved"} /\ (status = "unknown" => received[id] = None)
  BY <1>1, <1>2, PromotionAssumption DEF EffectFits, Retainable, Outcomes
<1>7. EffectFits(book[id], outbox'[id], received'[id], fate'[id])
  BY <1>1, <1>2, <1>4, <1>5, <1>6, PromotionAssumption DEF EffectFits, Outcomes
<1>8. EffectGoes(id, outbox, received, fate, outbox', received', fate')
  BY <1>2, <1>4, <1>5, <1>6, PromotionAssumption DEF EffectGoes, NeverRuns, Outcomes
<1>9. UNCHANGED <<projection, host>> /\ fate' = fate
  OBVIOUS
<1>10. CASE book[id].status \in {"promoted", "pending", "failed"}
  BY <1>3, <1>4, <1>7, <1>8, <1>9, <1>10, EffectStep DEF Same
<1>11. CASE book[id].status \in {"active", "applied-unqualified"}
  <2>1. received[id] = "completed" /\ outbox[id] = "resolved" /\ status = "completed"
    BY <1>1, <1>5, <1>11, PromotionAssumption DEF EffectFits, Outcomes
  <2>2. outbox' = outbox /\ received' = received
    BY <1>1, <2>1 DEF Journaled
  <2> QED BY <1>9, <2>1, <2>2, QuietStep DEF journal
<1> QED BY <1>1, <1>10, <1>11 DEF Statuses

\* The host failed to activate, and the promotion is settled as failed.
LEMMA FailStep ==
  ASSUME StateInv, NEW id \in DOMAIN book, UNCHANGED <<registry, opened, pointers, journal, fate, host>>,
         book[id].status = "pending", received[id] = "failed",
         promotions' = WithRecord(id, [book[id] EXCEPT !.status = "failed"])
  PROVE  StateStep
<1>1. PICK q : q = [book[id] EXCEPT !.status = "failed"]
  OBVIOUS
<1>2. /\ EffectFits(book[id], outbox[id], received[id], fate[id])
      /\ book[id] \in PromotionRecords /\ book[id].id = id /\ RecordFits(book[id], registry)
      /\ Journaled(book, outbox, received, fate)
  BY EffectIs DEF StateInv, Fits, Typed
<1>3. /\ q \in PromotionRecords /\ q.status = "failed" /\ q.id = id /\ q.pointer = book[id].pointer
      /\ q.asset = book[id].asset /\ q.mode = book[id].mode /\ q.effect = book[id].effect
      /\ q.snapshot = book[id].snapshot
  <2>1. PICK k \in PromotionRecords : k = book[id]
    BY <1>2
  <2>2. q = [k EXCEPT !.status = "failed"] /\ "failed" \in Statuses
    BY <1>1, <2>1 DEF Statuses
  <2> QED BY <1>2, <2>1, <2>2, StatusParts
<1>4. /\ promotions' \in Seq(PromotionRecords) /\ Distinct(promotions')
      /\ promotions # << >> /\ Booked(book') /\ Same(id, book, book') /\ book'[id] = q
  BY <1>1, <1>3, Replaced
<1>5. fate[id] = "failed" /\ outbox[id] = "resolved" /\ book[id].snapshot = None
  BY <1>2, PromotionAssumption DEF EffectFits, RecordFits, Outcomes
<1>6. outbox' = outbox /\ received' = received /\ fate' = fate
  BY DEF journal
<1>7. EffectFits(q, outbox'[id], received'[id], fate'[id])
  BY <1>2, <1>3, <1>5, <1>6, PromotionAssumption DEF EffectFits, Outcomes
<1>8. Journaled(book', outbox', received', fate') /\ Same(id, outbox, outbox')
      /\ Same(id, received, received') /\ Same(id, fate, fate')
  BY <1>2, <1>4, <1>6 DEF Journaled, Same
<1>9. (Applied(book', fate', id) <=> Applied(book, fate, id))
      /\ EffectGoes(id, outbox, received, fate, outbox', received', fate')
  BY <1>5, <1>6 DEF Applied, EffectGoes, NeverRuns
<1> QED BY <1>3, <1>4, <1>5, <1>7, <1>8, <1>9, OneStep

\* The host will never activate, and the promotion ends with that receipt.
LEMMA NeverStep ==
  ASSUME StateInv, NEW id \in DOMAIN book, UNCHANGED <<registry, opened, pointers, fate, host>>,
         fate[id] = "never",
         promotions' = WithRecord(id, [book[id] EXCEPT !.status = "failed"]),
         outbox' = [outbox EXCEPT ![id] = "resolved"],
         received' = [received EXCEPT ![id] = "not-executed"]
  PROVE  StateStep
<1>1. PICK q : q = [book[id] EXCEPT !.status = "failed"]
  OBVIOUS
<1>2. /\ EffectFits(book[id], outbox[id], received[id], fate[id])
      /\ book[id] \in PromotionRecords /\ book[id].id = id /\ RecordFits(book[id], registry)
      /\ Journaled(book, outbox, received, fate) /\ book[id].effect \in BOOLEAN
      /\ received[id] \in Outcomes \cup {None}
  BY EffectIs DEF StateInv, Fits, Typed
<1>3. /\ q \in PromotionRecords /\ q.status = "failed" /\ q.id = id /\ q.pointer = book[id].pointer
      /\ q.asset = book[id].asset /\ q.mode = book[id].mode /\ q.effect = book[id].effect
      /\ q.snapshot = book[id].snapshot
  <2>1. PICK k \in PromotionRecords : k = book[id]
    BY <1>2
  <2>2. q = [k EXCEPT !.status = "failed"] /\ "failed" \in Statuses
    BY <1>1, <2>1 DEF Statuses
  <2> QED BY <1>2, <2>1, <2>2, StatusParts
<1>4. /\ promotions' \in Seq(PromotionRecords) /\ Distinct(promotions')
      /\ promotions # << >> /\ Booked(book') /\ Same(id, book, book') /\ book'[id] = q
  BY <1>1, <1>3, Replaced
<1>5. received[id] \in {"not-executed", None} /\ book[id].effect
      /\ outbox[id] \notin {"absent", "intended"}
  BY <1>2, PromotionAssumption DEF EffectFits, Outcomes
<1>6. book[id].snapshot = None
  BY <1>2, <1>5, PromotionAssumption DEF EffectFits, RecordFits, Outcomes
<1>7. outbox'[id] = "resolved" /\ received'[id] = "not-executed" /\ fate' = fate
  BY <1>2 DEF Journaled
<1>8. EffectFits(q, outbox'[id], received'[id], fate'[id])
  BY <1>3, <1>5, <1>7, PromotionAssumption DEF EffectFits, Outcomes
<1>9. Journaled(book', outbox', received', fate') /\ Same(id, outbox, outbox')
      /\ Same(id, received, received') /\ Same(id, fate, fate')
  BY <1>2, <1>4, <1>7 DEF Journaled, Same, OutboxStates, Outcomes
<1>10. (Applied(book', fate', id) <=> Applied(book, fate, id))
      /\ EffectGoes(id, outbox, received, fate, outbox', received', fate')
  BY <1>5, <1>7, PromotionAssumption DEF Applied, EffectGoes, NeverRuns, Outcomes
<1> QED BY <1>3, <1>4, <1>5, <1>6, <1>8, <1>9, <1>10, OneStep

\* The host goes on by itself: it decides what it accepted, or never runs what it did not get.
LEMMA HostStep ==
  ASSUME StateInv, NEW id \in DOMAIN book, UNCHANGED <<projection, journal>>,
         NEW z \in {"applied", "failed", "never"}, fate' = [fate EXCEPT ![id] = z],
         \/ fate[id] = "accepted"
         \/ fate[id] = "absent" /\ outbox[id] \in {"dispatched", "unknown"} /\ z = "never",
         host' = IF z = "applied" THEN [host EXCEPT ![book[id].pointer] = book[id].asset] ELSE host
  PROVE  StateStep /\ book' = book
<1>1. EffectFits(book[id], outbox[id], received[id], fate[id]) /\ book[id].effect \in BOOLEAN
      /\ book[id].status \in Statuses /\ received[id] \in Outcomes \cup {None}
      /\ Journaled(book, outbox, received, fate)
  BY EffectIs DEF StateInv, Fits, Typed
<1>2. outbox' = outbox /\ received' = received /\ promotions' = promotions /\ opened' = opened
      /\ registry' = registry /\ pointers' = pointers
  BY DEF journal, projection
<1>3. book' = book
  BY <1>2 DEF book
<1>4. received[id] = None /\ book[id].status = "pending" /\ outbox[id] \notin {"absent", "intended"}
  BY <1>1, PromotionAssumption DEF EffectFits, Outcomes
<1>5. CASE z = "applied"
  <2>1. Fits(book, outbox, received, fate, registry, pointers, host)
    BY DEF StateInv
  <2>2. fate[id] = "accepted" /\ fate' = [fate EXCEPT ![id] = "applied"]
        /\ host' = [host EXCEPT ![book[id].pointer] = book[id].asset]
    BY <1>5
  <2>5. fate' \in [DOMAIN book -> Fates] /\ Same(id, fate, fate') /\ fate'[id] = "applied"
    BY <1>1, <2>2 DEF Journaled, Fates, Same
  <2>6. book[id].pointer \in Pointers /\ book[id].asset \in Snapshots
    BY EffectIs DEF Snapshots
  <2>7. /\ host' \in [Pointers -> Snapshots] /\ host'[book[id].pointer] = book[id].asset
        /\ \A p \in Pointers \ {book[id].pointer} : host'[p] = host[p]
    BY <2>1, <2>2, <2>6 DEF Fits, Typed
  <2>8. fate[id] = "accepted"
    BY <2>2
  <2>9. PICK f2 \in [DOMAIN book -> Fates], h2 \in [Pointers -> Snapshots] : f2 = fate' /\ h2 = host'
    BY <2>5, <2>7
  <2>10. Same(id, fate, f2) /\ f2[id] = "applied" /\ h2[book[id].pointer] = book[id].asset
         /\ \A p \in Pointers \ {book[id].pointer} : h2[p] = host[p]
    BY <2>5, <2>7, <2>9
  <2>11. Fits(book, outbox, received, f2, registry, pointers, h2)
        /\ Goes(book, outbox, received, fate, book, outbox, received, f2)
    BY <2>1, <2>8, <2>10, HostApplies
  <2>3. Fits(book, outbox, received, fate', registry, pointers, host')
        /\ Goes(book, outbox, received, fate, book, outbox, received, fate')
    BY <2>9, <2>11
  <2>4. StateInv'
    BY <1>2, <1>3, <2>3 DEF StateInv
  <2> QED BY <1>2, <1>3, <2>3, <2>4, MovesNowhere DEF StateStep
<1>6. CASE z # "applied"
  <2>1. fate'[id] = z /\ Journaled(book, outbox', received', fate') /\ Same(id, fate, fate')
    BY <1>1, <1>2 DEF Journaled, Fates, Same
  <2>2. EffectFits(book[id], outbox'[id], received'[id], fate'[id])
    BY <1>1, <1>2, <1>4, <2>1, PromotionAssumption DEF EffectFits, Outcomes
  <2>3. EffectGoes(id, outbox, received, fate, outbox', received', fate')
    BY <1>2, <1>4, PromotionAssumption DEF EffectGoes, NeverRuns, Outcomes
  <2>4. UNCHANGED <<projection, host>>
    BY <1>6
  <2>5. ~(fate[id] = "applied")
    OBVIOUS
  <2> QED BY <1>2, <1>4, <1>6, <2>1, <2>2, <2>3, <2>4, <2>5, EffectStep DEF Same
<1> QED BY <1>5, <1>6

\* A registry entry in which only what may change has changed.
LEMMA EntryParts ==
  ASSUME NEW e \in Entries
  PROVE  /\ \A s \in States : [e EXCEPT !.state = s] \in Entries /\ [e EXCEPT !.state = s].state = s
                              /\ [e EXCEPT !.state = s].contexts = e.contexts
         /\ \A x \in {Session[p] : p \in Pointers} :
                                [e EXCEPT !.contexts = @ \cup {x}] \in Entries
                                /\ [e EXCEPT !.contexts = @ \cup {x}].state = e.state
                                /\ [e EXCEPT !.contexts = @ \cup {x}].contexts = e.contexts \cup {x}
BY DEF Entries

\* The activation of a promotion is settled: the pointer comes to the asset.
LEMMA SettleStep ==
  ASSUME StateInv, NEW id \in DOMAIN book, UNCHANGED <<opened, journal, fate, host>>,
         book[id].status = "pending", received[id] = "completed",
         NEW s, s = IF Qualifies(book[id]) THEN "active" ELSE "applied-unqualified",
         promotions' = WithRecord(id, [book[id] EXCEPT !.status = s, !.snapshot = book[id].asset]),
         pointers' = [pointers EXCEPT ![book[id].pointer].active = book[id].asset,
                                      ![book[id].pointer].snapshot = book[id].asset],
         registry' = IF book[id].mode = "promotion" /\ Qualifies(book[id])
                     THEN RecordActive(book[id].asset, Session[book[id].pointer]) ELSE registry
  PROVE  StateStep
<1> DEFINE a == book[id].asset
           p == book[id].pointer
<1>1. /\ EffectFits(book[id], outbox[id], received[id], fate[id])
      /\ book[id] \in PromotionRecords /\ book[id].id = id /\ RecordFits(book[id], registry)
      /\ a \in Assets /\ p \in Pointers /\ book[id].effect
  BY EffectIs DEF EffectFits
<1>2. /\ Fits(book, outbox, received, fate, registry, pointers, host)
      /\ registry \in [Assets -> Entries \cup {None}] /\ pointers \in [Pointers -> PointerRecords]
      /\ Closed(registry) /\ registry[a] \in Entries
  BY <1>1 DEF StateInv, Fits, Typed, RecordFits
<1>3. PICK q : q = [book[id] EXCEPT !.status = s, !.snapshot = a]
  OBVIOUS
<1>4. s \in {"active", "applied-unqualified"} /\ s \in Statuses
  BY DEF Statuses
<1>5. /\ q \in PromotionRecords /\ q.status = s /\ q.id = id /\ q.pointer = p
      /\ q.asset = a /\ q.mode = book[id].mode /\ q.effect = book[id].effect /\ q.snapshot = a
  <2>1. PICK k \in PromotionRecords : k = book[id]
    BY <1>1
  <2>2. q = [k EXCEPT !.status = s, !.snapshot = a]
    BY <1>3, <2>1
  <2>3. /\ q \in PromotionRecords /\ q.status = s /\ q.id = k.id /\ q.pointer = k.pointer
        /\ q.asset = k.asset /\ q.mode = k.mode /\ q.effect = k.effect /\ q.snapshot = a
    <3>1. PICK c \in Assets : c = a
      BY <1>1
    <3>4. PICK m : m = [k EXCEPT !.status = s]
      OBVIOUS
    <3>2. q = [m EXCEPT !.snapshot = c]
      BY <2>2, <3>1, <3>4
    <3>5. /\ m \in PromotionRecords /\ m.status = s /\ m.id = k.id /\ m.pointer = k.pointer
          /\ m.asset = k.asset /\ m.mode = k.mode /\ m.effect = k.effect
      BY <1>4, <3>4, StatusParts
    <3>3. /\ q \in PromotionRecords /\ q.status = s /\ q.id = k.id /\ q.pointer = k.pointer
          /\ q.asset = k.asset /\ q.mode = k.mode /\ q.effect = k.effect /\ q.snapshot = c
      BY <3>2, <3>5, SnapshotParts
    <3> QED BY <3>1, <3>3
  <2> QED BY <1>1, <2>1, <2>3
<1>6. /\ promotions' \in Seq(PromotionRecords) /\ Distinct(promotions')
      /\ promotions # << >> /\ Booked(book') /\ Same(id, book, book') /\ book'[id] = q
  BY <1>3, <1>5, Replaced
<1>7. /\ registry' \in [Assets -> Entries \cup {None}]
      /\ \A d \in Assets : registry[d] \in Entries =>
           /\ registry'[d] \in Entries /\ registry'[d].state = registry[d].state
           /\ registry[d].contexts \subseteq registry'[d].contexts
      /\ \A d \in Assets : registry[d] \notin Entries => registry'[d] = registry[d]
      /\ book[id].mode = "promotion" /\ Qualifies(book[id]) => Session[p] \in registry'[a].contexts
  <2>1. CASE ~(book[id].mode = "promotion" /\ Qualifies(book[id]))
    BY <1>2, <2>1
  <2>2. CASE book[id].mode = "promotion" /\ Qualifies(book[id])
    <3>1. Session[p] \in {Session[x] : x \in Pointers}
      BY <1>1
    <3>2. PICK e : e = [registry[a] EXCEPT !.contexts = @ \cup {Session[p]}]
      OBVIOUS
    <3>3. e \in Entries /\ e.state = registry[a].state /\ e.contexts = registry[a].contexts \cup {Session[p]}
      BY <1>2, <3>1, <3>2, EntryParts
    <3>4. registry' = [registry EXCEPT ![a] = e]
      BY <2>2, <3>2 DEF RecordActive
    <3> QED BY <1>1, <1>2, <3>3, <3>4
  <2> QED BY <2>1, <2>2
<1>8. Grows(registry, registry') /\ Closed(registry')
  BY <1>2, <1>7, StaysClosed DEF Grows
<1>9. Fits(book, outbox, received, fate, registry', pointers, host)
  BY <1>2, <1>7, <1>8, RegistryGrows
<1>10. RecordFits(q, registry')
  <2>1. RecordFits(book[id], registry')
    BY <1>9 DEF Fits, RecordsFit
  <2>2. ASSUME s = "active" PROVE Active(a, Session[p], registry')
    <3>1. Qualifies(book[id])
      BY <2>2
    <3>2. CASE book[id].mode = "promotion"
      <4>1. \A d \in Deps[a] : Usable(d, Session[p])
        BY <3>1, <3>2 DEF Qualifies, Activates
      <4>2. Deps[a] \subseteq Assets
        BY <1>1, RegistryAssumption
      <4>3. \A e \in WithDependencies(a) : e \in Assets /\ registry[e] \in Entries
        BY <1>1, <1>2, Dependencies DEF Closed
      <4>4. \A e \in WithDependencies(a) : e = a \/ Session[p] \in registry[e].contexts
        BY <1>1, <4>1, Dependencies DEF Usable
      <4> QED BY <1>7, <3>1, <3>2, <4>3, <4>4 DEF Active
    <3>3. CASE book[id].mode # "promotion"
      BY <1>1, <2>1, <3>3 DEF RecordFits, PromotionRecords
    <3> QED BY <3>2, <3>3
  <2> QED BY <1>4, <1>5, <2>1, <2>2 DEF RecordFits
<1>11. /\ pointers' \in [Pointers -> PointerRecords]
       /\ \A x \in Pointers \ {p} : pointers'[x] = pointers[x]
       /\ pointers'[p].active = a /\ pointers'[p].snapshot = a
  <2>1. PICK w : w = [pointers[p] EXCEPT !.active = a]
    OBVIOUS
  <2>2. w \in PointerRecords /\ w.active = a
    BY <1>1, <1>2, <2>1 DEF PointerRecords
  <2>3. PICK y : y = [w EXCEPT !.snapshot = a]
    OBVIOUS
  <2>4. y \in PointerRecords /\ y.active = a /\ y.snapshot = a
    BY <1>1, <2>2, <2>3 DEF PointerRecords, Snapshots
  <2>5. pointers' = [pointers EXCEPT ![p] = y]
    BY <1>1, <1>2, <2>1, <2>3
  <2> QED BY <1>1, <1>2, <2>4, <2>5
<1> HIDE DEF a, p
<1>12. /\ Fits(book', outbox, received, fate, registry', pointers', host)
       /\ Goes(book, outbox, received, fate, book', outbox, received, fate)
  <2>0. PICK b2, reg : b2 = book' /\ reg = registry'
    OBVIOUS
  <2>1. PICK pt \in [Pointers -> PointerRecords] : pt = pointers'
    BY <1>11
  <2>2. /\ Fits(book, outbox, received, fate, reg, pointers, host) /\ RecordFits(b2[id], reg)
        /\ Booked(b2) /\ Same(id, book, b2) /\ b2[id].pointer = book[id].pointer
        /\ b2[id].asset = book[id].asset /\ b2[id].effect
        /\ b2[id].status \in {"active", "applied-unqualified"} /\ b2[id].snapshot = book[id].asset
    BY <1>1, <1>4, <1>5, <1>6, <1>9, <1>10, <2>0 DEF a, p
  <2>3. /\ \A x \in Pointers \ {book[id].pointer} : pt[x] = pointers[x]
        /\ pt[book[id].pointer].active = book[id].asset /\ pt[book[id].pointer].snapshot = book[id].asset
    BY <1>11, <2>1 DEF a, p
  <2>4. /\ Fits(b2, outbox, received, fate, reg, pt, host)
        /\ Goes(book, outbox, received, fate, b2, outbox, received, fate)
    BY <2>2, <2>3, Settles
  <2> QED BY <2>0, <2>1, <2>4
<1>13. outbox' = outbox /\ received' = received /\ fate' = fate /\ host' = host /\ opened' = opened
  BY DEF journal
<1>14. StateInv'
  BY <1>6, <1>12, <1>13 DEF StateInv
<1>15. Moves(book, pointers, registry, book', pointers', registry')
  <2>1. /\ DOMAIN book' = DOMAIN book
        /\ \A i \in DOMAIN book : i # id => book'[i] = book[i]
    BY <1>6 DEF Same
  <2>2. \A d \in Assets : registry[d] # None /\ registry[d].state = "revoked" =>
          registry'[d] # None /\ registry'[d].state = "revoked"
    <3>1. ASSUME NEW d \in Assets, registry[d] # None, registry[d].state = "revoked"
          PROVE  registry'[d] # None /\ registry'[d].state = "revoked"
      <4>1. registry[d] \in Entries
        BY <1>2, <3>1
      <4>2. registry'[d].state = "revoked" /\ registry'[d] # None
        BY <1>7, <3>1, <4>1, PromotionAssumption
      <4> QED BY <3>1, <4>2
    <3> QED BY <3>1
  <2>3. \A x \in Pointers : \/ pointers'[x].active = pointers[x].active
                            \/ x = p /\ pointers'[x].active = a
    BY <1>11
  <2>4. \A i \in DOMAIN book :
          /\ i \in DOMAIN book' /\ book'[i].asset = book[i].asset /\ book'[i].pointer = book[i].pointer
          /\ book[i].effect => book'[i].effect
          /\ book'[i].status \in {"promoted", "pending"} => book[i].status \in {"promoted", "pending"}
          /\ book'[i].status = "active" /\ book[i].status # "active" => pointers'[book[i].pointer].active = book[i].asset
    BY <1>5, <1>6, <1>11, <2>1 DEF a, p
  <2> QED BY <2>1, <2>2, <2>3, <2>4 DEF Moves, a, p
<1> QED BY <1>12, <1>13, <1>14, <1>15 DEF StateStep

\* A record is added that was not there, of an asset that is not revoked.
LEMMA AddStep ==
  ASSUME StateInv, NEW r \in PromotionRecords, r.id \notin DOMAIN book, AddRecord(r),
         r.status = "promoted", r.effect = FALSE, r.snapshot = None,
         opened, UNCHANGED <<opened, host>>, registry' \in [Assets -> Entries \cup {None}],
         Grows(registry, registry'), Closed(registry'), RecordFits(r, registry'),
         registry[r.asset].state # "revoked",
         \A a \in Assets : registry[a] # None /\ registry[a].state = "revoked" =>
                             registry'[a] # None /\ registry'[a].state = "revoked"
  PROVE  /\ StateStep /\ DOMAIN book' = DOMAIN book \cup {r.id} /\ book'[r.id] = r
         /\ \A p \in Pointers : pointers'[p].active = pointers[p].active
<1>1. promotions \in Seq(PromotionRecords) /\ Distinct(promotions)
      /\ Fits(book, outbox, received, fate, registry, pointers, host)
  BY DEF StateInv
<1>2. /\ promotions' \in Seq(PromotionRecords) /\ Distinct(promotions')
      /\ book' = With(book, r.id, r)
  BY <1>1, Added DEF AddRecord, book
<1>3. /\ pointers' \in [Pointers -> PointerRecords]
      /\ \A p \in Pointers : pointers'[p].active = pointers[p].active /\ pointers'[p].snapshot = pointers[p].snapshot
  <2>1. r.pointer \in Pointers /\ r.asset \in Assets /\ pointers \in [Pointers -> PointerRecords]
    BY <1>1 DEF Fits, Typed, PromotionRecords
  <2>2. PICK w : w = [pointers[r.pointer] EXCEPT !.version = @ + 1]
    OBVIOUS
  <2>3. /\ w \in PointerRecords /\ w.active = pointers[r.pointer].active
        /\ w.snapshot = pointers[r.pointer].snapshot
    BY <2>1, <2>2 DEF PointerRecords
  <2>4. PICK y : y = [w EXCEPT !.promoted = r.asset]
    OBVIOUS
  <2>5. /\ y \in PointerRecords /\ y.active = pointers[r.pointer].active
        /\ y.snapshot = pointers[r.pointer].snapshot
    BY <2>1, <2>3, <2>4 DEF PointerRecords
  <2>6. pointers' = [pointers EXCEPT ![r.pointer] = y]
    BY <2>1, <2>2, <2>4 DEF AddRecord
  <2> QED BY <2>1, <2>5, <2>6
<1>4. PICK reg \in [Assets -> Entries \cup {None}], pt \in [Pointers -> PointerRecords] :
        reg = registry' /\ pt = pointers'
  BY <1>3
<1>5. Grows(registry, reg) /\ Closed(reg) /\ RecordFits(r, reg)
      /\ \A p \in Pointers : pt[p].active = pointers[p].active /\ pt[p].snapshot = pointers[p].snapshot
  BY <1>3, <1>4
<1>6. Fits(book, outbox, received, fate, reg, pointers, host)
  BY <1>1, <1>5, RegistryGrows
<1>7. Fits(book, outbox, received, fate, reg, pt, host)
  BY <1>5, <1>6, PointersRenamed
<1>8. PICK b2, o2, v2, f2 :
        /\ b2 = With(book, r.id, r) /\ o2 = With(outbox, r.id, "absent")
        /\ v2 = With(received, r.id, None) /\ f2 = With(fate, r.id, "absent")
  OBVIOUS
<1>9. b2 = book' /\ o2 = outbox' /\ v2 = received' /\ f2 = fate'
  BY <1>2, <1>8 DEF AddRecord
<1>10. Fits(b2, o2, v2, f2, reg, pt, host) /\ Goes(book, outbox, received, fate, b2, o2, v2, f2)
  BY <1>5, <1>7, <1>8, Adds
<1>11. StateInv'
  BY <1>2, <1>4, <1>9, <1>10 DEF StateInv
<1>12. DOMAIN book' = DOMAIN book \cup {r.id} /\ book'[r.id] = r /\ \A id \in DOMAIN book : book'[id] = book[id]
  BY <1>2 DEF With
<1>13. Moves(book, pointers, registry, book', pointers', registry')
  BY <1>3, <1>12 DEF Moves
<1> QED BY <1>3, <1>9, <1>10, <1>11, <1>12, <1>13 DEF StateStep

\* What is valid is not revoked, nor is what it depends on.
LEMMA ValidParts ==
  ASSUME NEW a \in Assets, ~Invalid(a)
  PROVE  \A d \in WithDependencies(a) : registry[d].state # "revoked"
BY DEF Invalid, State

\* An asset that advances is registered still, and has become active where it had.
LEMMA Advanced ==
  ASSUME StateInv, NEW a \in Assets, registry[a] \in Entries, NEW s \in States,
         registry[a].state # "revoked" \/ s = "revoked", registry' = Advance(a, s)
  PROVE  /\ registry' \in [Assets -> Entries \cup {None}] /\ Grows(registry, registry') /\ Closed(registry')
         /\ \A d \in Assets : registry[d] # None /\ registry[d].state = "revoked" =>
                                registry'[d] # None /\ registry'[d].state = "revoked"
<1>1. registry \in [Assets -> Entries \cup {None}] /\ Closed(registry)
  BY DEF StateInv, Fits, Typed
<1>2. PICK e : e = [registry[a] EXCEPT !.state = s]
  OBVIOUS
<1>3. e \in Entries /\ e.state = s /\ e.contexts = registry[a].contexts
  BY <1>2, EntryParts
<1>4. registry' = [registry EXCEPT ![a] = e]
  BY <1>2 DEF Advance
<1>5. /\ registry' \in [Assets -> Entries \cup {None}] /\ registry'[a] = e
      /\ \A d \in Assets \ {a} : registry'[d] = registry[d]
  BY <1>1, <1>3, <1>4
<1>6. Grows(registry, registry')
  BY <1>3, <1>5 DEF Grows
<1>7. Closed(registry')
  BY <1>1, <1>3, <1>5, StaysClosed
<1> QED BY <1>3, <1>5, <1>6, <1>7, PromotionAssumption

\* A promotion is added.
LEMMA PromoteStep ==
  ASSUME StateInv, NEW a \in Assets, NEW p \in Pointers, Promote(a, p)
  PROVE  StateStep /\ DOMAIN book' = DOMAIN book \cup {a}
<1>1. /\ opened /\ a \notin PromotionIds /\ Promotable(a) /\ registry' = Advance(a, "promoted")
      /\ AddRecord(NewRecord(a, "promotion", a, p, None)) /\ UNCHANGED <<opened, host>>
  BY DEF Promote
<1>2. registry[a] \in Entries /\ registry[a].state # "revoked"
  <2>1. registry \in [Assets -> Entries \cup {None}]
    BY DEF StateInv, Fits, Typed
  <2> QED BY <1>1, <2>1, Dependencies, ValidParts DEF Promotable, Registered
<1>3. /\ registry' \in [Assets -> Entries \cup {None}] /\ Grows(registry, registry') /\ Closed(registry')
      /\ \A d \in Assets : registry[d] # None /\ registry[d].state = "revoked" =>
                             registry'[d] # None /\ registry'[d].state = "revoked"
  <2>1. "promoted" \in States
    BY DEF States
  <2> QED BY <1>1, <1>2, <2>1, Advanced
<1>4. PICK r : r = NewRecord(a, "promotion", a, p, None)
  OBVIOUS
<1>5. /\ r \in PromotionRecords /\ r.id = a /\ r.mode = "promotion" /\ r.asset = a /\ r.pointer = p
      /\ r.status = "promoted" /\ r.effect = FALSE /\ r.snapshot = None
  <2>1. a \in Ids /\ None \in Snapshots
    BY DEF Ids, Snapshots
  <2>2. pointers[p] \in PointerRecords
    BY DEF StateInv, Fits, Typed
  <2>3. PICK n \in Nat, previous \in Snapshots, target \in Snapshots :
          n = pointers[p].version /\ previous = pointers[p].snapshot /\ target = None
    BY <2>1, <2>2 DEF PointerRecords
  <2>4. r = [id |-> a, mode |-> "promotion", asset |-> a, pointer |-> p, version |-> n,
             previous |-> previous, target |-> target, status |-> "promoted", effect |-> FALSE, snapshot |-> None]
    BY <1>4, <2>3 DEF NewRecord
  <2> QED BY <2>1, <2>4 DEF PromotionRecords
<1>6. RecordFits(r, registry')
  BY <1>2, <1>3, <1>5 DEF RecordFits, Grows
<1>7. r.id \notin DOMAIN book /\ AddRecord(r)
  BY <1>1, <1>4, <1>5, Records
<1>8. StateStep /\ DOMAIN book' = DOMAIN book \cup {r.id}
  BY <1>1, <1>2, <1>3, <1>5, <1>6, <1>7, AddStep
<1> QED BY <1>5, <1>8

\* A rollback is of an asset that qualifies and is not revoked.
LEMMA RollbackStep ==
  ASSUME StateInv, NEW id \in Ids \ PromotionIds, NEW target, NEW p \in Pointers, opened,
         Restorable(target, p), AddRollback(id, target, p), UNCHANGED <<registry, opened, host>>
  PROVE  /\ StateStep /\ DOMAIN book' = DOMAIN book \cup {id}
         /\ book'[id].pointer = p /\ book'[id].status = "promoted"
         /\ book'[id].asset \in Assets /\ registry[book'[id].asset].state # "revoked"
         /\ \A q \in Pointers : pointers'[q].active = pointers[q].active
<1> DEFINE a == book[target].asset
<1>1. /\ target \in DOMAIN book /\ Record(target) = book[target]
      /\ book[target].status = "active" /\ book[target].pointer = p /\ Eligible(a)
  BY Records DEF Restorable
<1>2. /\ a \in Assets /\ book[target].snapshot \in Snapshots
      /\ RecordFits(book[target], registry)
  <2>1. book[target] \in PromotionRecords /\ RecordFits(book[target], registry)
    BY <1>1, EffectIs
  <2> QED BY <2>1 DEF PromotionRecords, Snapshots
<1>3. registry[a].state # "revoked"
  BY <1>1, <1>2, Dependencies, ValidParts DEF Eligible
<1>4. PICK r : r = NewRecord(id, "rollback", a, p, book[target].snapshot)
  OBVIOUS
<1>5. /\ r \in PromotionRecords /\ r.id = id /\ r.mode = "rollback" /\ r.asset = a /\ r.pointer = p
      /\ r.status = "promoted" /\ r.effect = FALSE /\ r.snapshot = None
  <2>2. pointers[p] \in PointerRecords
    BY DEF StateInv, Fits, Typed
  <2>3. PICK n \in Nat, previous \in Snapshots, snapshot \in Snapshots, asset \in Assets :
          /\ n = pointers[p].version /\ previous = pointers[p].snapshot
          /\ snapshot = book[target].snapshot /\ asset = a
    BY <1>2, <2>2 DEF PointerRecords
  <2>4. r = [id |-> id, mode |-> "rollback", asset |-> asset, pointer |-> p, version |-> n, previous |-> previous,
             target |-> snapshot, status |-> "promoted", effect |-> FALSE, snapshot |-> None]
    BY <1>4, <2>3 DEF NewRecord
  <2> QED BY <2>3, <2>4 DEF PromotionRecords
<1>6. AddRecord(r) /\ r.id \notin DOMAIN book
  BY <1>1, <1>4, <1>5, Records DEF AddRollback
<1>7. RecordFits(r, registry)
  BY <1>1, <1>2, <1>5 DEF RecordFits
<1>8. registry' = registry /\ opened' = opened /\ host' = host
      /\ registry \in [Assets -> Entries \cup {None}] /\ Closed(registry)
  BY DEF StateInv, Fits, Typed
<1>9. Grows(registry, registry)
  BY DEF Grows
<1>10. /\ StateStep /\ DOMAIN book' = DOMAIN book \cup {r.id} /\ book'[r.id] = r
       /\ \A q \in Pointers : pointers'[q].active = pointers[q].active
  BY <1>3, <1>5, <1>6, <1>7, <1>8, <1>9, AddStep
<1> QED BY <1>2, <1>3, <1>5, <1>10

-----------------------------------------------------------------------------
(* Steps of the registry and of the monitor.                                 *)

\* What is revoked together stays registered.
LEMMA RevokedTogether ==
  ASSUME StateInv, NEW S \in SUBSET Assets, \A a \in S : registry[a] \in Entries, registry' = RevokeAll(S)
  PROVE  /\ registry' \in [Assets -> Entries \cup {None}] /\ Grows(registry, registry') /\ Closed(registry')
         /\ \A a \in S : registry'[a] # None /\ registry'[a].state = "revoked"
         /\ \A a \in Assets : registry[a] # None /\ registry[a].state = "revoked" =>
                                registry'[a] # None /\ registry'[a].state = "revoked"
<1>1. registry \in [Assets -> Entries \cup {None}] /\ Closed(registry) /\ "revoked" \in States
  BY DEF StateInv, Fits, Typed, States
<1>2. DOMAIN registry' = Assets /\ \A a \in Assets \ S : registry'[a] = registry[a]
  BY DEF RevokeAll
<1>3. ASSUME NEW a \in S
      PROVE  registry'[a] \in Entries /\ registry'[a].state = "revoked" /\ registry'[a].contexts = registry[a].contexts
  <2>1. PICK e \in Entries : e = registry[a]
    OBVIOUS
  <2>2. registry'[a] = [e EXCEPT !.state = "revoked"]
    BY <2>1 DEF RevokeAll
  <2> QED BY <1>1, <2>1, <2>2, EntryParts
<1>4. registry' \in [Assets -> Entries \cup {None}]
  <2>1. \A a \in Assets : registry'[a] \in Entries \cup {None}
    BY <1>1, <1>2, <1>3
  <2>2. registry' = [a \in Assets |-> registry'[a]]
    BY <1>2 DEF RevokeAll
  <2> QED BY <2>1, <2>2
<1>5. Grows(registry, registry')
  BY <1>2, <1>3 DEF Grows
<1>6. Closed(registry')
  BY <1>1, <1>2, <1>3, StaysClosed
<1> QED BY <1>2, <1>3, <1>4, <1>5, <1>6, PromotionAssumption

\* A pointer that no longer names an affected asset stays where it is.
LEMMA UnpromoteParts ==
  ASSUME StateInv, NEW S \in SUBSET Assets, pointers' = Unpromote(S)
  PROVE  /\ pointers' \in [Pointers -> PointerRecords]
         /\ \A p \in Pointers : pointers'[p].active = pointers[p].active /\ pointers'[p].snapshot = pointers[p].snapshot
<1>1. pointers \in [Pointers -> PointerRecords] /\ DOMAIN pointers' = Pointers
  BY DEF StateInv, Fits, Typed, Unpromote
<1>2. ASSUME NEW p \in Pointers
      PROVE  /\ pointers'[p] \in PointerRecords
             /\ pointers'[p].active = pointers[p].active /\ pointers'[p].snapshot = pointers[p].snapshot
  <2>1. PICK x \in PointerRecords : x = pointers[p]
    BY <1>1
  <2>2. PICK w, z : w = [x EXCEPT !.version = @ + 1] /\ z = (IF x.active \in S THEN None ELSE x.active)
    OBVIOUS
  <2>3. w \in PointerRecords /\ w.active = x.active /\ w.snapshot = x.snapshot /\ z \in Assets \cup {None}
    BY <2>2 DEF PointerRecords
  <2>4. PICK y : y = [w EXCEPT !.promoted = z]
    OBVIOUS
  <2>5. y \in PointerRecords /\ y.active = x.active /\ y.snapshot = x.snapshot
    BY <2>3, <2>4 DEF PointerRecords
  <2>6. pointers'[p] = x \/ pointers'[p] = y
    BY <2>1, <2>2, <2>4 DEF Unpromote
  <2> QED BY <2>1, <2>5, <2>6
<1>3. pointers' = [p \in Pointers |-> pointers'[p]]
  BY DEF Unpromote
<1> QED BY <1>1, <1>2, <1>3

\* The promotions that end in the commit of a monitor.
Ending(affected) == {id \in DOMAIN CancellationPlan(affected) : CancellationPlan(affected)[id] = "not-executed"}

\* The plan of a revocation is committed: assets are revoked, unclaimed promotions end.
LEMMA MonitorStep ==
  ASSUME StateInv, NEW r \in Requests, NEW root \in Assets, Monitor(r, root)
  PROVE  /\ StateStep
         /\ DependentClosure(root) \in SUBSET Assets
         /\ \A a \in DependentClosure(root) : registry'[a] # None /\ registry'[a].state = "revoked"
         /\ \A p \in Pointers : pointers'[p].active = pointers[p].active
         /\ book' = [id \in DOMAIN book |->
              IF id \in Ending(DependentClosure(root)) THEN [book[id] EXCEPT !.status = "failed"] ELSE book[id]]
<1>1. PICK affected, over : affected = DependentClosure(root) /\ over = Ending(affected)
  OBVIOUS
<1>2. /\ registry' = RevokeAll(affected) /\ pointers' = Unpromote(affected) /\ UNCHANGED <<opened, fate, host>>
      /\ promotions' = [i \in DOMAIN promotions |->
           IF promotions[i].id \in over THEN [promotions[i] EXCEPT !.status = "failed"] ELSE promotions[i]]
      /\ outbox' = [id \in DOMAIN outbox |-> IF id \in over /\ Record(id).effect THEN "resolved" ELSE outbox[id]]
      /\ received' = [id \in DOMAIN received |-> IF id \in over /\ Record(id).effect THEN "not-executed" ELSE received[id]]
      /\ opened
  BY <1>1, Zenon DEF Monitor, Ending
<1>3. /\ promotions \in Seq(PromotionRecords) /\ Distinct(promotions)
      /\ Fits(book, outbox, received, fate, registry, pointers, host)
      /\ registry \in [Assets -> Entries \cup {None}]
      /\ Journaled(book, outbox, received, fate) /\ Booked(book)
  BY DEF StateInv, Fits, Typed
<1>4. affected \in SUBSET Assets /\ \A a \in affected : registry[a] \in Entries
  BY <1>1, <1>3 DEF DependentClosure, Registered
<1>5. /\ registry' \in [Assets -> Entries \cup {None}] /\ Grows(registry, registry') /\ Closed(registry')
      /\ \A a \in affected : registry'[a] # None /\ registry'[a].state = "revoked"
      /\ \A a \in Assets : registry[a] # None /\ registry[a].state = "revoked" =>
                             registry'[a] # None /\ registry'[a].state = "revoked"
  BY <1>2, <1>4, RevokedTogether
<1>6. /\ pointers' \in [Pointers -> PointerRecords]
      /\ \A p \in Pointers : pointers'[p].active = pointers[p].active /\ pointers'[p].snapshot = pointers[p].snapshot
  BY <1>2, <1>4, UnpromoteParts
<1>7. /\ over \in SUBSET DOMAIN book
      /\ \A id \in over : book[id].status \in {"promoted", "pending"} /\ (~book[id].effect \/ outbox[id] = "intended")
  BY <1>1, Records DEF Ending, CancellationPlan, Unfinished, NeverClaimed
<1> DEFINE g == [id \in DOMAIN book |-> IF id \in over THEN [book[id] EXCEPT !.status = "failed"] ELSE book[id]]
<1>8. g \in [DOMAIN book -> PromotionRecords] /\ \A id \in DOMAIN g : g[id].id = id
  <2>1. ASSUME NEW id \in DOMAIN book PROVE g[id] \in PromotionRecords /\ g[id].id = id
    <3>1. PICK k \in PromotionRecords : k = book[id] /\ k.id = id
      BY <1>3 DEF Booked
    <3>2. PICK n : n = [k EXCEPT !.status = "failed"]
      OBVIOUS
    <3>3. n \in PromotionRecords /\ n.id = k.id
      BY <3>2 DEF PromotionRecords
    <3>4. g[id] = k \/ g[id] = n
      BY <3>1, <3>2
    <3> QED BY <3>1, <3>3, <3>4
  <2> QED BY <2>1
<1>9. promotions' = [i \in DOMAIN promotions |-> g[promotions[i].id]]
  <2>1. \A i \in DOMAIN promotions : promotions[i].id \in DOMAIN book /\ book[promotions[i].id] = promotions[i]
    BY <1>3, BookParts DEF book
  <2> QED BY <1>2, <2>1
<1> HIDE DEF g
<1>10. promotions' \in Seq(PromotionRecords) /\ Distinct(promotions') /\ book' = g
  BY <1>3, <1>8, <1>9, Rewritten DEF book
<1>11. PICK b2, o2, v2 : b2 = book' /\ o2 = outbox' /\ v2 = received'
  OBVIOUS
<1>12. /\ b2 = [id \in DOMAIN book |-> IF id \in over THEN [book[id] EXCEPT !.status = "failed"] ELSE book[id]]
       /\ o2 = [id \in DOMAIN outbox |-> IF id \in over /\ book[id].effect THEN "resolved" ELSE outbox[id]]
       /\ v2 = [id \in DOMAIN received |-> IF id \in over /\ book[id].effect THEN "not-executed" ELSE received[id]]
  <2>1. b2 = g
    BY <1>10, <1>11
  <2>2. \A id \in over : Record(id) = book[id]
    BY <1>7, Records
  <2> QED BY <1>2, <1>11, <2>1, <2>2 DEF g
<1>13. Fits(b2, o2, v2, fate, registry, pointers, host) /\ Goes(book, outbox, received, fate, b2, o2, v2, fate)
  <2>1. b2 \in [DOMAIN book -> PromotionRecords]
    BY <1>8, <1>10, <1>11 DEF g
  <2>2. /\ o2 \in [DOMAIN book -> OutboxStates] /\ v2 \in [DOMAIN book -> Outcomes \cup {None}]
        /\ DOMAIN outbox = DOMAIN book /\ DOMAIN received = DOMAIN book
    BY <1>3, <1>12 DEF Journaled, OutboxStates, Outcomes
  <2>3. \A id \in DOMAIN book :
          /\ b2[id] = IF id \in over THEN [book[id] EXCEPT !.status = "failed"] ELSE book[id]
          /\ o2[id] = IF id \in over /\ book[id].effect THEN "resolved" ELSE outbox[id]
          /\ v2[id] = IF id \in over /\ book[id].effect THEN "not-executed" ELSE received[id]
    BY <1>12, <2>2
  <2>4. EndedBy(book, outbox, received, over, b2, o2, v2)
    BY <1>7, <2>1, <2>2, <2>3 DEF EndedBy
  <2> QED BY <1>3, <2>4, Ended
<1>14. PICK reg \in [Assets -> Entries \cup {None}], pt \in [Pointers -> PointerRecords] :
         reg = registry' /\ pt = pointers'
  BY <1>5, <1>6
<1>15. Fits(b2, o2, v2, fate, reg, pointers, host)
  BY <1>5, <1>13, <1>14, RegistryGrows
<1>16. Fits(b2, o2, v2, fate, reg, pt, host)
  BY <1>6, <1>14, <1>15, PointersRenamed
<1>17. StateInv'
  BY <1>2, <1>10, <1>11, <1>14, <1>16 DEF StateInv
<1>18. Moves(book, pointers, registry, book', pointers', registry')
  <2>1. DOMAIN b2 = DOMAIN book
    BY <1>12
  <2>2. ASSUME NEW id \in DOMAIN book
        PROVE  /\ b2[id].asset = book[id].asset /\ b2[id].pointer = book[id].pointer
               /\ b2[id].effect = book[id].effect /\ b2[id].status \in {"failed", book[id].status}
    <3>1. PICK k \in PromotionRecords : k = book[id]
      BY <1>3 DEF Booked
    <3>2. PICK n : n = [k EXCEPT !.status = "failed"]
      OBVIOUS
    <3>3. n.asset = k.asset /\ n.pointer = k.pointer /\ n.effect = k.effect /\ n.status = "failed"
      BY <3>2 DEF PromotionRecords
    <3>4. b2[id] = k \/ b2[id] = n
      BY <1>12, <3>1, <3>2
    <3> QED BY <3>1, <3>3, <3>4
  <2> QED BY <1>5, <1>6, <1>11, <2>1, <2>2 DEF Moves
<1>19. StateStep
  BY <1>2, <1>11, <1>13, <1>17, <1>18 DEF StateStep
<1>20. book' = [id \in DOMAIN book |->
         IF id \in Ending(DependentClosure(root)) THEN [book[id] EXCEPT !.status = "failed"] ELSE book[id]]
  BY <1>1, <1>11, <1>12
<1> QED BY <1>1, <1>4, <1>5, <1>6, <1>19, <1>20

\* One asset is revoked.
LEMMA RevokeStep ==
  ASSUME StateInv, NEW a \in Assets, Revoke(a)
  PROVE  StateStep /\ book' = book
<1>1. registry[a] \in Entries /\ "revoked" \in States
  BY DEF StateInv, Fits, Typed, Revoke, Registered, States
<1>2. UNCHANGED <<pointers, promotions, journal, fate, host>> /\ opened' = opened /\ opened \in BOOLEAN
      /\ registry' = Advance(a, "revoked")
  BY DEF Revoke, StateInv
<1> QED BY <1>1, <1>2, Advanced, RegistryStep

\* A revision is staged on what is registered.
LEMMA StageStep ==
  ASSUME StateInv, NEW a \in Assets, Stageable(a), StageRevision(a),
         UNCHANGED <<opened, pointers, promotions, journal, fate, host>>
  PROVE  StateStep /\ book' = book
<1>1. registry \in [Assets -> Entries \cup {None}] /\ Closed(registry) /\ opened \in BOOLEAN
  BY DEF StateInv, Fits, Typed
<1>2. registry[a] = None /\ \A d \in Deps[a] : registry[d] \in Entries
  <2>1. \A d \in Deps[a] : d \in Assets
    BY RegistryAssumption
  <2> QED BY <1>1, <2>1 DEF Stageable, Registered
<1>3. PICK e \in Entries : e = [state |-> "staged", contexts |-> {}]
  BY DEF Entries, States
<1>4. registry' \in [Assets -> Entries \cup {None}] /\ registry'[a] \in Entries
      /\ \A d \in Assets \ {a} : registry'[d] = registry[d]
  BY <1>1, <1>3 DEF StageRevision
<1>5. Grows(registry, registry')
  BY <1>2, <1>4, PromotionAssumption DEF Grows
<1>6. Closed(registry')
  <2> SUFFICES ASSUME NEW x \in Assets, registry'[x] \in Entries, NEW d \in WithDependencies(x)
               PROVE  registry'[d] \in Entries
    BY DEF Closed
  <2>1. d \in Assets
    BY Dependencies
  <2>2. CASE x = a
    <3>1. d = a \/ \E y \in Deps[a] : d \in WithDependencies(y)
      BY <2>2, Dependencies
    <3>2. \A y \in Deps[a] : y \in Assets
      BY RegistryAssumption
    <3>3. d = a \/ registry[d] \in Entries
      BY <1>1, <1>2, <3>1, <3>2 DEF Closed
    <3> QED BY <1>4, <2>1, <3>3
  <2>3. CASE x # a
    <3>1. registry[d] \in Entries
      BY <1>1, <1>4, <2>3 DEF Closed
    <3> QED BY <1>4, <2>1, <3>1
  <2> QED BY <2>2, <2>3
<1>7. \A d \in Assets : registry[d] # None /\ registry[d].state = "revoked" =>
                          registry'[d] # None /\ registry'[d].state = "revoked"
  BY <1>2, <1>4
<1> QED BY <1>1, <1>4, <1>5, <1>6, <1>7, RegistryStep

\* An asset is staged or validated before the service opens.
LEMMA PrepareStep ==
  ASSUME StateInv, NEW a \in Assets, Prepare(a)
  PROVE  StateStep /\ book' = book
<1>1. UNCHANGED <<opened, pointers, promotions, journal, fate, host>>
  BY DEF Prepare
<1>2. CASE Stageable(a) /\ StageRevision(a)
  BY <1>1, <1>2, StageStep
<1>3. CASE Validatable(a) /\ registry' = Advance(a, "validated")
  <2>1. registry[a] \in Entries /\ "validated" \in States /\ registry[a].state # "revoked"
    BY <1>3 DEF StateInv, Fits, Typed, Validatable, Registered, State, Precedes, States
  <2>2. opened \in BOOLEAN
    BY DEF StateInv
  <2> QED BY <1>1, <1>3, <2>1, <2>2, Advanced, RegistryStep
<1> QED BY <1>2, <1>3 DEF Prepare

\* The service opens.
LEMMA InitializeStep ==
  ASSUME StateInv, Initialize
  PROVE  StateStep /\ book' = book
<1>1. opened' \in BOOLEAN /\ (opened => opened') /\ registry' = registry
      /\ UNCHANGED <<pointers, promotions, journal, fate, host>>
  BY DEF Initialize
<1>2. registry \in [Assets -> Entries \cup {None}] /\ Closed(registry) /\ Grows(registry, registry)
  BY DEF StateInv, Fits, Typed, Grows
<1> QED BY <1>1, <1>2, RegistryStep

-----------------------------------------------------------------------------
(* Steps of a call.                                                          *)

\* How a call goes on when no recovery is at work: it ends, begins outside a recovery, or
\* serves the recovery it is a part of.
Follows(c, d) ==
  \/ d = c
  \/ d = [c EXCEPT !.fresh = FALSE]
  \/ d.job = None /\ d.at # "cancelling"
  \/ /\ d.job = c.job /\ d.revision = c.revision /\ d.done = c.done /\ d.id = c.id
     /\ c.at \in InService \cup {"querying"} /\ d.at \in InService \cup Answered

\* The other calls are as they were, but that what they read may be outdated.
Others(t) ==
  /\ DOMAIN call' = Threads
  /\ \A u \in Threads \ {t} :
       (call'[u] = call[u] /\ book' = book) \/ call'[u] = [call[u] EXCEPT !.fresh = FALSE]

\* A step of a call on the state.
ServiceStep(t) ==
  /\ StateStep /\ Others(t) /\ opened' = opened /\ DOMAIN book' = DOMAIN book
  /\ CallFits(call'[t], book', outbox', received', fate') /\ Follows(call[t], call'[t])

\* What is known of the other calls stays known.
LEMMA OthersFit ==
  ASSUME CallsFit, StateStep, NEW t \in Threads, Others(t),
         CallFits(call'[t], book', outbox', received', fate')
  PROVE  CallsFit' /\ \A u \in Threads \ {t} : Follows(call[u], call'[u])
<1>1. ASSUME NEW u \in Threads \ {t}
      PROVE  CallFits(call'[u], book', outbox', received', fate') /\ Follows(call[u], call'[u])
  <2>1. CallFits(call[u], book, outbox, received, fate)
        /\ Goes(book, outbox, received, fate, book', outbox', received', fate')
    BY DEF CallsFit, StateStep
  <2>2. CASE call'[u] = call[u] /\ book' = book
    BY <2>1, <2>2, CallKept DEF Follows
  <2>3. CASE call'[u] = [call[u] EXCEPT !.fresh = FALSE]
    <3>1. PICK c, d : c = call[u] /\ d = call'[u]
      OBVIOUS
    <3>2. d = [c EXCEPT !.fresh = FALSE] /\ CallFits(c, book, outbox, received, fate)
      BY <2>1, <2>3, <3>1
    <3>5. c \in Calls
      BY <3>2 DEF CallFits
    <3>6. d.fresh = FALSE
      BY <3>2, <3>5, StaleParts
    <3>3. CallFits(d, book, outbox, received, fate) /\ d.fresh = FALSE
      BY <3>2, <3>6, StaleFits
    <3>4. CallFits(d, book', outbox', received', fate')
      BY <2>1, <3>3, CallKept
    <3> QED BY <3>1, <3>2, <3>4 DEF Follows
  <2> QED BY <2>2, <2>3 DEF Others
<1>2. \A u \in Threads : CallFits(call'[u], book', outbox', received', fate')
  BY <1>1
<1> QED BY <1>1, <1>2 DEF CallsFit, Others

\* A call that ends.
LEMMA ReturnFits ==
  ASSUME NEW c, NEW b, NEW o, NEW v, NEW f, CallFits(c, b, o, v, f), c.at \in InService \cup {"querying"},
         NEW ok \in BOOLEAN,
         NEW d, d = IF c.job = None THEN Idle
                    ELSE [Idle EXCEPT !.at = IF ok THEN "returned" ELSE "refused", !.id = c.id,
                                      !.job = c.job, !.revision = c.revision, !.done = c.done]
  PROVE  CallFits(d, b, o, v, f) /\ Follows(c, d) /\ d.fresh = FALSE
<1>1. CASE c.job = None
  <2>1. d = Idle
    BY <1>1
  <2>2. d.at = "idle" /\ d.job = None /\ d.done = {} /\ d \in Calls /\ d.fresh = FALSE
    <3>1. Idle.fresh = FALSE
      BY DEF Idle
    <3> QED BY <2>1, <3>1, IdleParts
  <2> QED BY <2>2, IdleFits DEF Follows
<1>2. CASE c.job # None
  <2>1. PICK p \in Places : p = IF ok THEN "returned" ELSE "refused"
    BY DEF Places, InRecovery, Answered
  <2>2. PICK x \in Ids \cup {None}, j \in Requests \cup {None}, w \in Revisions \cup {None},
             e \in SUBSET Pointers : x = c.id /\ j = c.job /\ w = c.revision /\ e = c.done
    BY DEF CallFits, Calls
  <2>3. d = [Idle EXCEPT !.at = p, !.id = x, !.job = j, !.revision = w, !.done = e]
    BY <1>2, <2>1, <2>2
  <2>4. /\ d \in Calls /\ d.at = p /\ d.id = x /\ d.fresh = FALSE /\ d.job = j /\ d.revision = w /\ d.done = e
    BY <2>3 DEF Idle, Calls, Places
  <2>5. d.at \in Answered
    BY <2>1, <2>4 DEF Answered
  <2>6. CallFits(d, b, o, v, f)
    BY <1>2, <2>2, <2>4, <2>5 DEF CallFits, Answered, InService, InRecovery
  <2> QED BY <2>2, <2>4, <2>5, <2>6 DEF Follows
<1> QED BY <1>1, <1>2

\* A step in which the call t ends, and the state stays or goes on.
LEMMA EndsStep ==
  ASSUME CallsFit, StateStep, opened' = opened, DOMAIN book' = DOMAIN book, NEW t \in Threads,
         call[t].at \in InService \cup {"querying"}, NEW ok \in BOOLEAN,
         \/ Ends(t, ok) /\ book' = book
         \/ call' = Return(Outdated(call), t, ok)
  PROVE  ServiceStep(t)
<1>1. CallFits(call[t], book, outbox, received, fate)
      /\ Goes(book, outbox, received, fate, book', outbox', received', fate')
  BY DEF CallsFit, StateStep
<1>2. CASE Ends(t, ok) /\ book' = book
  <2>1. PICK c, d : c = call[t] /\ d = call'[t]
    OBVIOUS
  <2>2. d = IF c.job = None THEN Idle
            ELSE [Idle EXCEPT !.at = IF ok THEN "returned" ELSE "refused", !.id = c.id,
                              !.job = c.job, !.revision = c.revision, !.done = c.done]
    BY <1>2, <2>1 DEF Ends, Return, CallsFit
  <2>3. CallFits(d, book, outbox, received, fate) /\ Follows(c, d) /\ d.fresh = FALSE
    BY <1>1, <2>1, <2>2, ReturnFits
  <2>4. CallFits(d, book', outbox', received', fate')
    BY <1>1, <2>3, CallKept
  <2>5. Others(t)
    BY <1>2 DEF Ends, Return, CallsFit, Others
  <2> QED BY <2>1, <2>3, <2>4, <2>5 DEF ServiceStep
<1>3. CASE call' = Return(Outdated(call), t, ok)
  <2>1. PICK c, e, d : c = call[t] /\ e = [c EXCEPT !.fresh = FALSE] /\ d = call'[t]
    OBVIOUS
  <2>2. c \in Calls
    BY <1>1, <2>1 DEF CallFits
  <2>3. e.job = c.job /\ e.id = c.id /\ e.revision = c.revision /\ e.done = c.done
    BY <2>1, <2>2, StaleParts
  <2>4. Outdated(call)[t] = e /\ DOMAIN Outdated(call) = Threads
        /\ \A u \in Threads : Outdated(call)[u] = [call[u] EXCEPT !.fresh = FALSE]
    BY <2>1 DEF Outdated
  <2>5. PICK g : g = Outdated(call)
    OBVIOUS
  <2>6. d = IF c.job = None THEN Idle
            ELSE [Idle EXCEPT !.at = IF ok THEN "returned" ELSE "refused", !.id = c.id,
                              !.job = c.job, !.revision = c.revision, !.done = c.done]
    BY <1>3, <2>1, <2>3, <2>4, <2>5 DEF Return
  <2>7. CallFits(d, book, outbox, received, fate) /\ Follows(c, d) /\ d.fresh = FALSE
    BY <1>1, <2>1, <2>6, ReturnFits
  <2>8. CallFits(d, book', outbox', received', fate')
    BY <1>1, <2>7, CallKept
  <2>9. Others(t)
    BY <1>3, <2>4, <2>5 DEF Return, Others
  <2> QED BY <2>1, <2>7, <2>8, <2>9 DEF ServiceStep
<1> QED BY <1>2, <1>3

\* A step in which the call t goes on to d, and the state stays or goes on.
LEMMA GoesOn ==
  ASSUME CallsFit, StateStep, opened' = opened, DOMAIN book' = DOMAIN book, NEW t \in Threads, NEW d,
         \/ call' = [call EXCEPT ![t] = d] /\ book' = book
         \/ call' = [Outdated(call) EXCEPT ![t] = d],
         CallFits(d, book', outbox', received', fate'), Follows(call[t], d)
  PROVE  ServiceStep(t)
<1>1. DOMAIN call = Threads
  BY DEF CallsFit
<1>2. CASE call' = [call EXCEPT ![t] = d] /\ book' = book
  BY <1>1, <1>2 DEF ServiceStep, Others
<1>3. CASE call' = [Outdated(call) EXCEPT ![t] = d]
  <2>1. PICK g : g = Outdated(call)
    OBVIOUS
  <2>2. DOMAIN g = Threads /\ \A u \in Threads : g[u] = [call[u] EXCEPT !.fresh = FALSE]
    BY <2>1 DEF Outdated
  <2>3. call'[t] = d /\ Others(t)
    BY <1>3, <2>1, <2>2 DEF Others
  <2> QED BY <2>3 DEF ServiceStep
<1> QED BY <1>2, <1>3

\* The observation of the host is called for.
LEMMA ObservingFits ==
  ASSUME StateInv, NEW id \in DOMAIN book, Activatable(id),
         NEW c, CallFits(c, book, outbox, received, fate), c.at \in {"idle", "recover"},
         NEW d, d = Observing(c, id)
  PROVE  /\ CallFits(d, book, outbox, received, fate)
         /\ d.at = "observing" /\ d.id = id /\ d.job = c.job /\ d.revision = c.revision /\ d.done = c.done
<1>1. book[id] \in PromotionRecords /\ book[id].effect \in BOOLEAN /\ Record(id) = book[id] /\ id \in Ids
  BY EffectIs, Records DEF PromotionRecords
<1>2. c \in Calls
  BY DEF CallFits
<1>3. PICK x \in BOOLEAN, y \in SUBSET Assets, e \in BOOLEAN : x = ~book[id].effect /\ e = book[id].effect /\ y = EligibleNow
  BY <1>1 DEF EligibleNow
<1>4. PICK c1 : c1 = [c EXCEPT !.at = "observing"]
  OBVIOUS
<1>5. PICK c2 : c2 = [c1 EXCEPT !.id = id]
  OBVIOUS
<1>6. PICK c3, c4 : c3 = [c2 EXCEPT !.fresh = x] /\ c4 = [c3 EXCEPT !.resume = e]
  OBVIOUS
<1>0. d = [c4 EXCEPT !.eligible = y]
  BY <1>1, <1>3, <1>4, <1>5, <1>6 DEF Observing
<1>7. c1 \in Calls /\ c1.at = "observing" /\ c1.job = c.job /\ c1.revision = c.revision /\ c1.done = c.done
  BY <1>2, <1>4, PlaceParts DEF Places, InService
<1>8. c2 \in Calls /\ c2.at = "observing" /\ c2.id = id /\ c2.job = c.job /\ c2.revision = c.revision /\ c2.done = c.done
  BY <1>1, <1>5, <1>7, IdParts
<1>9. /\ d \in Calls /\ d.at = "observing" /\ d.id = id /\ d.fresh = x
      /\ d.job = c.job /\ d.revision = c.revision /\ d.done = c.done
  <2>1. c3 \in Calls /\ c4 \in Calls /\ d \in Calls
    BY <1>0, <1>6, <1>8 DEF Calls
  <2>2. c4.fresh = x /\ c4.at = c2.at /\ c4.id = c2.id /\ c4.job = c2.job
        /\ c4.revision = c2.revision /\ c4.done = c2.done
    BY <1>6, <1>8, <2>1 DEF Calls
  <2>3. d.fresh = c4.fresh /\ d.at = c4.at /\ d.id = c4.id /\ d.job = c4.job
        /\ d.revision = c4.revision /\ d.done = c4.done
    BY <1>0, <2>1 DEF Calls
  <2> QED BY <1>8, <2>1, <2>2, <2>3
<1>10. x => book[id].status = "promoted" /\ Alone(book, id)
  <2>1. SessionReady(Session[book[id].pointer], {id}) /\ (~book[id].effect => book[id].status = "promoted")
    BY <1>1 DEF Activatable
  <2>2. Alone(book, id)
    BY <2>1, Records DEF SessionReady, Alone
  <2> QED BY <1>3, <2>1, <2>2
<1> QED BY <1>9, <1>10 DEF CallFits, InService, InRecovery, Answered

\* Reconciliation asks the host, or settles what was answered.
LEMMA ReconcilingFits ==
  ASSUME StateInv, NEW id \in DOMAIN book, Reconcilable(id),
         NEW c, CallFits(c, book, outbox, received, fate), c.at \in {"idle", "recover"},
         NEW d, d = Reconciling(c, id)
  PROVE  /\ CallFits(d, book, outbox, received, fate)
         /\ d.at \in InService /\ d.id = id /\ d.job = c.job /\ d.revision = c.revision /\ d.done = c.done
<1>1. CASE outbox[id] = "intended"
  <2>1. Activatable(id) /\ d = Observing(c, id)
    BY <1>1 DEF Reconcilable, Reconciling
  <2> QED BY <2>1, ObservingFits DEF InService
<1>2. CASE outbox[id] # "intended"
  <2>1. PICK x \in Outcomes \cup {"unknown", None}, p \in {"asking", "settle"} :
          x = received[id] /\ p = IF received[id] = None THEN "asking" ELSE "settle"
    BY EffectIs
  <2>2. PICK c1 : c1 = [c EXCEPT !.id = id]
    OBVIOUS
  <2>3. PICK c2 : c2 = [c1 EXCEPT !.receipt = x]
    OBVIOUS
  <2>4. d = [c2 EXCEPT !.at = p]
    BY <1>2, <2>1, <2>2, <2>3 DEF Reconciling
  <2>5. c \in Calls /\ id \in Ids
    BY EffectIs DEF CallFits, PromotionRecords
  <2>6. c1 \in Calls /\ c1.id = id /\ c1.job = c.job /\ c1.revision = c.revision /\ c1.done = c.done
    BY <2>2, <2>5, IdParts
  <2>7. /\ c2 \in Calls /\ c2.id = id /\ c2.receipt = x /\ c2.job = c.job /\ c2.revision = c.revision
        /\ c2.done = c.done
    BY <2>3, <2>6, ReceiptParts
  <2>8. p \in Places
    BY DEF Places, InService
  <2>9. /\ d \in Calls /\ d.at = p /\ d.id = id /\ d.receipt = x /\ d.job = c.job
        /\ d.revision = c.revision /\ d.done = c.done
    BY <2>4, <2>7, <2>8, PlaceParts
  <2> QED BY <2>1, <2>9 DEF CallFits, InService, InRecovery, Answered
<1> QED BY <1>1, <1>2

\* activate and reconcile begin.
LEMMA BeginStep ==
  ASSUME StateInv, CallsFit, NEW t \in Threads, NEW id \in PromotionIds, Activate(t, id) \/ Reconcile(t, id)
  PROVE  ServiceStep(t)
<1>1. PICK c, d : c = call[t] /\ d = call'[t]
  OBVIOUS
<1>2. c.at = "idle" /\ c.job = None /\ CallFits(c, book, outbox, received, fate)
  BY <1>1 DEF Activate, Reconcile, At, CallsFit, CallFits
<1>3. UNCHANGED <<projection, journal, fate, host>> /\ DOMAIN call = Threads /\ id \in DOMAIN book
  BY Records DEF Activate, Reconcile, CallsFit
<1>4. StateStep /\ book' = book
  BY <1>3, QuietStep
<1>5. call' = [call EXCEPT ![t] = d] /\ CallFits(d, book, outbox, received, fate)
      /\ d.at \in InService /\ d.job = c.job
  <2>1. CASE Activate(t, id)
    <3>1. Activatable(id) /\ d = Observing(c, id) /\ call' = [call EXCEPT ![t] = d]
      BY <1>1, <1>3, <2>1 DEF Activate
    <3> QED BY <1>2, <1>3, <3>1, ObservingFits DEF InService
  <2>2. CASE Reconcile(t, id)
    <3>1. Reconcilable(id) /\ d = Reconciling(c, id) /\ call' = [call EXCEPT ![t] = d]
      BY <1>1, <1>3, <2>2 DEF Reconcile
    <3> QED BY <1>2, <1>3, <3>1, ReconcilingFits
  <2> QED BY <2>1, <2>2
<1>6. Follows(c, d)
  BY <1>2, <1>5 DEF Follows, InService
<1>7. CallFits(d, book', outbox', received', fate')
  BY <1>3, <1>4, <1>5 DEF journal
<1>8. opened' = opened
  BY <1>3 DEF projection
<1> QED BY <1>1, <1>4, <1>5, <1>6, <1>7, <1>8, GoesOn

\* What was read is left behind.
LEMMA ClaimFits ==
  ASSUME NEW c, NEW b, NEW o, NEW v, NEW f, CallFits(c, b, o, v, f), c.at = "observing",
         NEW d, d = [c EXCEPT !.at = "claim", !.resume = FALSE, !.eligible = {}]
  PROVE  /\ CallFits(d, b, o, v, f) /\ d.at = "claim" /\ d.id = c.id
         /\ d.job = c.job /\ d.revision = c.revision /\ d.done = c.done
<1>1. PICK c1, c2 : c1 = [c EXCEPT !.at = "claim"] /\ c2 = [c1 EXCEPT !.resume = FALSE]
  OBVIOUS
<1>2. d = [c2 EXCEPT !.eligible = {}]
  BY <1>1
<1>3. c \in Calls
  BY DEF CallFits
<1>4. c1 \in Calls /\ c1.at = "claim" /\ c1.id = c.id /\ c1.job = c.job /\ c1.revision = c.revision /\ c1.done = c.done
  BY <1>1, <1>3, PlaceParts DEF Places, InService
<1>5. c2 \in Calls
  BY <1>1, <1>4 DEF Calls
<1>6. c2.at = "claim" /\ c2.id = c.id /\ c2.job = c.job /\ c2.revision = c.revision /\ c2.done = c.done
  BY <1>1, <1>4 DEF Calls
<1>7. d \in Calls
  BY <1>2, <1>5 DEF Calls
<1>8. d.at = "claim" /\ d.id = c.id /\ d.job = c.job /\ d.revision = c.revision /\ d.done = c.done
  BY <1>2, <1>5, <1>6 DEF Calls
<1> QED BY <1>7, <1>8 DEF CallFits, InService, InRecovery, Answered

\* activate goes on after the observation of the host.
LEMMA ObservedStep ==
  ASSUME StateInv, CallsFit, NEW t \in Threads, Observed(t) \/ Unready(t)
  PROVE  ServiceStep(t)
<1>1. PICK c, id : c = call[t] /\ id = c.id
  OBVIOUS
<1>2. c.at = "observing" /\ CallFits(c, book, outbox, received, fate) /\ id \in DOMAIN book /\ DOMAIN call = Threads
      /\ c.at \in InService
  BY <1>1 DEF Observed, Unready, At, CallsFit, CallFits, InService
<1>3. UNCHANGED <<registry, opened, pointers, received, fate, host>>
  BY DEF Observed, Unready, projection, journal
<1>4. PICK e : e = [c EXCEPT !.at = "claim", !.resume = FALSE, !.eligible = {}]
  OBVIOUS
<1>5. /\ CallFits(e, book, outbox, received, fate) /\ e.at = "claim" /\ e.id = c.id
      /\ e.job = c.job /\ e.revision = c.revision /\ e.done = c.done
  BY <1>2, <1>4, ClaimFits
<1>6. CASE Ends(t, FALSE) /\ UNCHANGED <<promotions, outbox>>
  <2>1. StateStep /\ book' = book
    BY <1>3, <1>6, QuietStep DEF projection, journal
  <2> QED BY <1>1, <1>2, <1>3, <1>6, <2>1, EndsStep
<1>7. CASE call' = ToClaim(t) /\ UNCHANGED <<promotions, outbox>>
  <2>1. StateStep /\ book' = book
    BY <1>3, <1>7, QuietStep DEF projection, journal
  <2>2. call' = [call EXCEPT ![t] = e]
    BY <1>1, <1>2, <1>4, <1>7 DEF ToClaim
  <2>3. CallFits(e, book', outbox', received', fate')
    BY <1>3, <1>5, <1>7, <2>1
  <2>4. Follows(c, e)
    BY <1>2, <1>5 DEF Follows, InService
  <2> QED BY <1>1, <1>3, <2>1, <2>2, <2>3, <2>4, GoesOn
<1>8. CASE c.fresh /\ IntendsOver(t, id)
  <2>1. book[id].status = "promoted" /\ Alone(book, id) /\ Record(id) = book[id]
    BY <1>1, <1>2, <1>8, Records DEF CallFits
  <2>2. /\ promotions' = WithRecord(id, [book[id] EXCEPT !.status = "pending", !.effect = TRUE])
        /\ outbox' = [outbox EXCEPT ![id] = "intended"] /\ call' = Outdated(ToClaim(t))
    BY <1>8, <2>1 DEF IntendsOver
  <2>3. StateStep
    BY <1>2, <1>3, <2>1, <2>2, IntendStep
  <2>4. PICK d : d = [e EXCEPT !.fresh = FALSE]
    OBVIOUS
  <2>5. e \in Calls
    BY <1>5 DEF CallFits
  <2>6. d.fresh = FALSE /\ d.at = "claim" /\ d.id = c.id /\ d.job = c.job /\ d.revision = c.revision /\ d.done = c.done
    BY <1>5, <2>4, <2>5, StaleParts
  <2>7. CallFits(d, book, outbox, received, fate)
    BY <1>5, <2>4, StaleFits
  <2>8. CallFits(d, book', outbox', received', fate')
    BY <2>3, <2>6, <2>7, CallKept DEF StateStep
  <2>9. call' = [Outdated(call) EXCEPT ![t] = d]
    <3>1. ToClaim(t) = [call EXCEPT ![t] = e]
      BY <1>1, <1>2, <1>4 DEF ToClaim
    <3>2. PICK g : g = ToClaim(t)
      OBVIOUS
    <3>3. g[t] = e /\ \A u \in Threads \ {t} : g[u] = call[u]
      BY <1>2, <3>1, <3>2
    <3>4. call' = [u \in Threads |-> [g[u] EXCEPT !.fresh = FALSE]]
      BY <2>2, <3>2 DEF Outdated
    <3> QED BY <2>4, <3>3, <3>4 DEF Outdated
  <2>10. Follows(c, d)
    BY <1>2, <2>6 DEF Follows, InService
  <2>11. DOMAIN book' = DOMAIN book
    <3>1. book[id].id = id /\ book[id] \in PromotionRecords
      BY <1>2, EffectIs
    <3>2. PICK q : q = [book[id] EXCEPT !.status = "pending", !.effect = TRUE]
      OBVIOUS
    <3>3. q \in PromotionRecords /\ q.id = id
      <4>1. PICK k \in PromotionRecords : k = book[id]
        BY <3>1
      <4>2. q = [k EXCEPT !.status = "pending", !.effect = TRUE]
        BY <3>2, <4>1
      <4>3. q \in PromotionRecords /\ q.id = k.id
        BY <4>2, IntendedParts, Zenon
      <4> QED BY <3>1, <4>1, <4>3
    <3>4. Same(id, book, book')
      BY <1>2, <2>2, <3>2, <3>3, Replaced
    <3> QED BY <3>4 DEF Same
  <2> QED BY <1>1, <1>3, <2>3, <2>8, <2>9, <2>10, <2>11, GoesOn
<1> QED BY <1>1, <1>6, <1>7, <1>8 DEF Observed, Unready, Intends, projection, journal

\* activate claims its effect, or ends.
LEMMA ClaimingStep ==
  ASSUME StateInv, CallsFit, NEW t \in Threads, ClaimActivation(t)
  PROVE  ServiceStep(t)
<1>1. PICK c, id : c = call[t] /\ id = c.id
  OBVIOUS
<1>2. c.at = "claim" /\ CallFits(c, book, outbox, received, fate) /\ id \in DOMAIN book /\ DOMAIN call = Threads
      /\ c.at \in InService
  BY <1>1 DEF ClaimActivation, At, CallsFit, CallFits, InService
<1>3. UNCHANGED <<projection, received, fate, host>> /\ opened' = opened
  BY DEF ClaimActivation, projection
<1>4. CASE Ends(t, FALSE) /\ outbox' = outbox
  <2>1. StateStep /\ book' = book
    BY <1>3, <1>4, QuietStep DEF journal
  <2> QED BY <1>1, <1>2, <1>3, <1>4, <2>1, EndsStep
<1>5. CASE /\ outbox[id] = "intended" /\ outbox' = [outbox EXCEPT ![id] = "dispatched"]
           /\ call' = [Outdated(call) EXCEPT ![t].at = "call"]
  <2>1. StateStep /\ book' = book /\ NeverRuns(id, outbox', received', fate')
    BY <1>2, <1>3, <1>5, ClaimStep
  <2>2. PICK e, d : e = [c EXCEPT !.fresh = FALSE] /\ d = [e EXCEPT !.at = "call"]
    OBVIOUS
  <2>3. c \in Calls
    BY <1>2 DEF CallFits
  <2>4. e \in Calls /\ e.id = c.id /\ e.job = c.job /\ e.revision = c.revision /\ e.done = c.done
    BY <2>2, <2>3, StaleParts
  <2>5. d \in Calls /\ d.at = "call" /\ d.id = c.id /\ d.job = c.job /\ d.revision = c.revision /\ d.done = c.done
    <3>1. "call" \in Places
      BY DEF Places, InService
    <3>2. /\ d \in Calls /\ d.at = "call" /\ d.id = e.id /\ d.job = e.job /\ d.revision = e.revision
          /\ d.done = e.done
      BY <2>2, <2>4, <3>1 DEF Calls, Places
    <3> QED BY <2>4, <3>2
  <2>6. CallFits(d, book', outbox', received', fate')
    BY <1>1, <1>2, <2>1, <2>5 DEF CallFits, InService, InRecovery, Answered
  <2>7. call' = [Outdated(call) EXCEPT ![t] = d]
    <3>1. PICK g : g = Outdated(call)
      OBVIOUS
    <3>2. g[t] = e /\ call' = [g EXCEPT ![t].at = "call"]
      BY <1>1, <1>5, <2>2, <3>1 DEF Outdated
    <3> QED BY <2>2, <3>1, <3>2
  <2>8. Follows(c, d)
    BY <1>2, <2>5 DEF Follows, InService
  <2> QED BY <1>1, <1>3, <2>1, <2>6, <2>7, <2>8, GoesOn
<1> QED BY <1>1, <1>4, <1>5 DEF ClaimActivation

\* activate calls the host.
LEMMA CallingStep ==
  ASSUME StateInv, CallsFit, NEW t \in Threads, CallHost(t)
  PROVE  ServiceStep(t)
<1>1. PICK c, id, d : c = call[t] /\ id = c.id /\ d = [c EXCEPT !.at = "executing"]
  OBVIOUS
<1>2. /\ c.at = "call" /\ CallFits(c, book, outbox, received, fate) /\ id \in DOMAIN book
      /\ NeverRuns(id, outbox, received, fate) /\ DOMAIN call = Threads /\ c \in Calls
  BY <1>1 DEF CallHost, At, CallsFit, CallFits, InService
<1>3. /\ UNCHANGED <<projection, journal, host>> /\ opened' = opened
      /\ fate' = [fate EXCEPT ![id] = IF @ = "absent" THEN "accepted" ELSE @]
      /\ call' = [call EXCEPT ![t] = d]
  BY <1>1, <1>2 DEF CallHost, Goto, projection
<1>4. StateStep /\ book' = book
  BY <1>2, <1>3, CallStep
<1>5. d \in Calls /\ d.at = "executing" /\ d.id = c.id /\ d.job = c.job /\ d.revision = c.revision /\ d.done = c.done
  BY <1>1, <1>2, PlaceParts DEF Places, InService
<1>6. CallFits(d, book', outbox', received', fate')
  BY <1>2, <1>4, <1>5 DEF CallFits, InService, InRecovery, Answered
<1>7. Follows(c, d)
  BY <1>2, <1>5 DEF Follows, InService
<1> QED BY <1>1, <1>3, <1>4, <1>6, <1>7, GoesOn

\* The evidence of the host is retained, or there is none to retain.
LEMMA RetainingStep ==
  ASSUME StateInv, CallsFit, NEW t \in Threads, call[t].at \in InService \cup {"querying"},
         UNCHANGED <<projection, fate, host>>,
         \/ \E status \in Verdicts(call[t].id) \ {"not-executed"} : Retain(t, call[t].id, status)
         \/ Ends(t, FALSE) /\ UNCHANGED journal
  PROVE  ServiceStep(t)
<1>1. PICK c, id : c = call[t] /\ id = c.id
  OBVIOUS
<1>2. c.at \in InService \cup {"querying"} /\ CallFits(c, book, outbox, received, fate) /\ id \in DOMAIN book
      /\ DOMAIN call = Threads /\ opened' = opened
  BY <1>1 DEF CallsFit, CallFits, InRecovery, projection
<1>3. CASE Ends(t, FALSE) /\ UNCHANGED journal
  <2>1. StateStep /\ book' = book
    BY <1>3, QuietStep
  <2> QED BY <1>1, <1>2, <1>3, <2>1, EndsStep
<1>4. ASSUME NEW status \in Verdicts(id) \ {"not-executed"}, Retainable(id, status), Retain(t, id, status)
      PROVE  ServiceStep(t)
  <2>1. /\ outbox' = [outbox EXCEPT ![id] = IF status = "unknown" THEN "unknown" ELSE "resolved"]
        /\ received' = [received EXCEPT ![id] = IF status = "unknown" THEN @ ELSE status]
        /\ call' = [Outdated(call) EXCEPT ![t].at = "settle", ![t].receipt = status]
    BY <1>4 DEF Retain
  <2>2. StateStep /\ book' = book /\ (status \in {"completed", "failed"} => received'[id] = status)
    BY <1>2, <1>4, <2>1, RetainStep
  <2>3. PICK e, e2, d : e = [c EXCEPT !.fresh = FALSE] /\ e2 = [e EXCEPT !.at = "settle"] /\ d = [e2 EXCEPT !.receipt = status]
    OBVIOUS
  <2>4. c \in Calls /\ "settle" \in Places /\ status \in Outcomes \cup {"unknown", None}
    BY <1>2, <1>4, VerdictIs DEF CallFits, Places, InService, Outcomes
  <2>5. e \in Calls /\ e.id = c.id /\ e.job = c.job /\ e.revision = c.revision /\ e.done = c.done
    BY <2>3, <2>4, StaleParts
  <2>6. e2 \in Calls /\ e2.at = "settle" /\ e2.id = c.id /\ e2.job = c.job /\ e2.revision = c.revision /\ e2.done = c.done
    <3>1. /\ e2 \in Calls /\ e2.at = "settle" /\ e2.id = e.id /\ e2.job = e.job /\ e2.revision = e.revision
          /\ e2.done = e.done
      BY <2>3, <2>4, <2>5 DEF Calls, Places
    <3> QED BY <2>5, <3>1
  <2>7. /\ d \in Calls /\ d.at = "settle" /\ d.receipt = status /\ d.id = c.id /\ d.job = c.job
        /\ d.revision = c.revision /\ d.done = c.done
    <3>1. /\ d \in Calls /\ d.receipt = status /\ d.at = e2.at /\ d.id = e2.id /\ d.job = e2.job
          /\ d.revision = e2.revision /\ d.done = e2.done
      <4>1. d \in Calls
        <5>1. PICK x \in Outcomes \cup {"unknown", None}, y \in Calls : x = status /\ y = e2
          BY <2>4, <2>6
        <5>2. d = [y EXCEPT !.receipt = x]
          BY <2>3, <5>1
        <5> QED BY <5>2, ReceiptParts
      <4>2. d.receipt = status /\ d.at = e2.at /\ d.id = e2.id
        BY <2>3, <2>6 DEF Calls
      <4>3. d.job = e2.job /\ d.revision = e2.revision /\ d.done = e2.done
        BY <2>3, <2>6 DEF Calls
      <4> QED BY <4>1, <4>2, <4>3
    <3> QED BY <2>6, <3>1
  <2>8. CallFits(d, book', outbox', received', fate')
    BY <1>1, <1>2, <2>2, <2>7 DEF CallFits, InService, InRecovery, Answered
  <2>9. call' = [Outdated(call) EXCEPT ![t] = d]
    <3>1. PICK g : g = Outdated(call)
      OBVIOUS
    <3>2. g[t] = e /\ call' = [g EXCEPT ![t].at = "settle", ![t].receipt = status] /\ DOMAIN g = Threads
      BY <1>1, <2>1, <2>3, <3>1 DEF Outdated
    <3> QED BY <2>3, <3>1, <3>2
  <2>10. Follows(c, d)
    BY <1>2, <2>7 DEF Follows, InService
  <2> QED BY <1>1, <1>2, <2>2, <2>8, <2>9, <2>10, GoesOn
<1>5. ASSUME NEW status \in Verdicts(id) \ {"not-executed"}, Retain(t, id, status) PROVE ServiceStep(t)
  <2>1. CASE Retainable(id, status)
    BY <1>4, <1>5, <2>1
  <2>2. CASE ~Retainable(id, status)
    BY <1>3, <1>5, <2>2 DEF Retain
  <2> QED BY <2>1, <2>2
<1> QED BY <1>1, <1>3, <1>5

\* The host answers, or fails to.
LEMMA AnsweredStep ==
  ASSUME StateInv, CallsFit, NEW t \in Threads, Executed(t) \/ Asked(t)
  PROVE  ServiceStep(t)
<1>1. call[t].at \in InService \cup {"querying"} /\ UNCHANGED <<projection, fate, host>>
  BY DEF Executed, Asked, At, InService
<1>2. \/ \E status \in Verdicts(call[t].id) \ {"not-executed"} : Retain(t, call[t].id, status)
      \/ Ends(t, FALSE) /\ UNCHANGED journal
  BY DEF Executed, Asked
<1> QED BY <1>1, <1>2, RetainingStep

\* The pointer follows what the host is known to have done.
LEMMA SettlingStep ==
  ASSUME StateInv, CallsFit, NEW t \in Threads, Settle(t)
  PROVE  ServiceStep(t)
<1>1. PICK c, id : c = call[t] /\ id = c.id
  OBVIOUS
<1>2. /\ c.at = "settle" /\ c.at \in InService /\ CallFits(c, book, outbox, received, fate)
      /\ id \in DOMAIN book /\ DOMAIN call = Threads /\ Record(id) = book[id]
  BY <1>1, Records DEF Settle, At, CallsFit, CallFits, InService
<1>3. UNCHANGED <<opened, journal, fate, host>> /\ opened' = opened
  BY DEF Settle
<1>4. CASE ~(book[id].status = "pending" /\ c.receipt \in {"completed", "failed"})
  <2>1. Ends(t, book[id].status \in {"active", "failed"}) /\ UNCHANGED <<promotions, pointers, registry>>
    BY <1>1, <1>2, <1>4 DEF Settle
  <2>2. StateStep /\ book' = book
    BY <1>3, <2>1, QuietStep DEF projection
  <2>3. Ends(t, TRUE) \/ Ends(t, FALSE)
    BY <2>1 DEF Ends, Return
  <2> QED BY <1>1, <1>2, <1>3, <2>2, <2>3, EndsStep
<1>5. CASE book[id].status = "pending" /\ c.receipt \in {"completed", "failed"}
  <2>1. /\ SettleState(book[id], c.receipt)
        /\ call' = Return(Outdated(call), t, Settled(book[id], c.receipt).status # "applied-unqualified")
    BY <1>1, <1>2, <1>5 DEF Settle
  <2>2. received[id] = c.receipt /\ book[id].id = id /\ book[id] \in PromotionRecords
    BY <1>1, <1>2, <1>5, EffectIs DEF CallFits
  <2>3. CASE c.receipt = "failed"
    <3>1. /\ promotions' = WithRecord(id, [book[id] EXCEPT !.status = "failed"])
          /\ UNCHANGED <<registry, pointers>>
      BY <2>1, <2>2, <2>3 DEF SettleState, Settled
    <3>2. StateStep
      BY <1>2, <1>3, <1>5, <2>2, <2>3, <3>1, FailStep
    <3>3. DOMAIN book' = DOMAIN book
      <4>1. PICK q : q = [book[id] EXCEPT !.status = "failed"]
        OBVIOUS
      <4>2. q \in PromotionRecords /\ q.id = id
        BY <2>2, <4>1 DEF PromotionRecords
      <4>3. Same(id, book, book')
        BY <1>2, <3>1, <4>1, <4>2, Replaced
      <4> QED BY <4>3 DEF Same
    <3> QED BY <1>1, <1>2, <1>3, <2>1, <3>2, <3>3, EndsStep
  <2>4. CASE c.receipt = "completed"
    <3>1. PICK s : s = IF Qualifies(book[id]) THEN "active" ELSE "applied-unqualified"
      OBVIOUS
    <3>2. /\ promotions' = WithRecord(id, [book[id] EXCEPT !.status = s, !.snapshot = book[id].asset])
          /\ pointers' = [pointers EXCEPT ![book[id].pointer].active = book[id].asset,
                                          ![book[id].pointer].snapshot = book[id].asset]
          /\ registry' = IF book[id].mode = "promotion" /\ Qualifies(book[id])
                         THEN RecordActive(book[id].asset, Session[book[id].pointer]) ELSE registry
      BY <2>1, <2>2, <2>4, <3>1 DEF SettleState, Settled
    <3>3. StateStep
      BY <1>2, <1>3, <1>5, <2>2, <2>4, <3>1, <3>2, SettleStep
    <3>4. DOMAIN book' = DOMAIN book
      <4>1. PICK q : q = [book[id] EXCEPT !.status = s, !.snapshot = book[id].asset]
        OBVIOUS
      <4>2. q \in PromotionRecords /\ q.id = id
        BY <2>2, <3>1, <4>1 DEF PromotionRecords
      <4>3. Same(id, book, book')
        BY <1>2, <3>2, <4>1, <4>2, Replaced
      <4> QED BY <4>3 DEF Same
    <3> QED BY <1>1, <1>2, <1>3, <2>1, <3>3, <3>4, EndsStep
  <2> QED BY <1>5, <2>3, <2>4
<1> QED BY <1>4, <1>5

\* A process is lost.
LEMMA CrashStep ==
  ASSUME StateInv, CallsFit, NEW t \in Threads, Crash(t)
  PROVE  ServiceStep(t)
<1>1. UNCHANGED <<projection, journal, fate, host>> /\ call' = [call EXCEPT ![t] = Idle] /\ opened' = opened
  BY DEF Crash, projection
<1>2. StateStep /\ book' = book
  BY <1>1, QuietStep
<1>3. Idle \in Calls /\ Idle.at = "idle" /\ Idle.job = None /\ Idle.done = {}
  BY IdleParts
<1>4. CallFits(Idle, book', outbox', received', fate') /\ Follows(call[t], Idle)
  <2>1. PICK d \in Calls : d = Idle
    BY <1>3
  <2> QED BY <1>3, <2>1, IdleFits DEF Follows
<1> QED BY <1>1, <1>2, <1>4, GoesOn

-----------------------------------------------------------------------------
(* Steps of the promotion service.                                           *)

\* A step that no recovery takes: the calls follow, and the only promotions that come are
\* promotions and rollbacks that callers ask for.
PromotionStep ==
  /\ StateStep /\ CallsFit' /\ (opened => opened')
  /\ \A u \in Threads : Follows(call[u], call'[u])
  /\ DOMAIN book' \subseteq DOMAIN book \cup Assets \cup RollbackIds

\* Calls that only learn that what they read is outdated.
LEMMA CallsFollow ==
  ASSUME CallsFit, StateStep, (call' = call /\ book' = book) \/ call' = Outdated(call)
  PROVE  CallsFit' /\ \A u \in Threads : Follows(call[u], call'[u])
<1>1. DOMAIN call = Threads
  BY DEF CallsFit
<1>2. DOMAIN call' = Threads /\ \A u \in Threads :
        (call'[u] = call[u] /\ book' = book) \/ call'[u] = [call[u] EXCEPT !.fresh = FALSE]
  BY <1>1 DEF Outdated
<1>3. ASSUME NEW u \in Threads
      PROVE  CallFits(call'[u], book', outbox', received', fate') /\ Follows(call[u], call'[u])
  <2>1. CallFits(call[u], book, outbox, received, fate)
        /\ Goes(book, outbox, received, fate, book', outbox', received', fate')
    BY DEF CallsFit, StateStep
  <2>2. CASE call'[u] = call[u] /\ book' = book
    BY <2>1, <2>2, CallKept DEF Follows
  <2>3. CASE call'[u] = [call[u] EXCEPT !.fresh = FALSE]
    <3>1. PICK c, d : c = call[u] /\ d = call'[u]
      OBVIOUS
    <3>2. d = [c EXCEPT !.fresh = FALSE] /\ CallFits(c, book, outbox, received, fate)
      BY <2>1, <2>3, <3>1
    <3>3. c \in Calls
      BY <3>2 DEF CallFits
    <3>4. CallFits(d, book, outbox, received, fate) /\ d.fresh = FALSE
      BY <3>2, <3>3, StaleParts, StaleFits
    <3>5. CallFits(d, book', outbox', received', fate')
      BY <2>1, <3>4, CallKept
    <3> QED BY <3>1, <3>2, <3>5 DEF Follows
  <2> QED BY <1>2, <2>2, <2>3
<1> QED BY <1>2, <1>3 DEF CallsFit

\* A step on the state by a caller that keeps no call.
LEMMA NoCallSteps ==
  ASSUME StateInv, CallsFit, StateStep, opened => opened',
         DOMAIN book' \subseteq DOMAIN book \cup Assets \cup RollbackIds,
         (call' = call /\ book' = book) \/ call' = Outdated(call)
  PROVE  PromotionStep
BY CallsFollow DEF PromotionStep

\* A step of a call is a step of the service.
LEMMA ServiceSteps ==
  ASSUME StateInv, CallsFit, NEW t \in Threads, ServiceStep(t)
  PROVE  PromotionStep
<1>1. CallsFit' /\ \A u \in Threads \ {t} : Follows(call[u], call'[u])
  BY OthersFit DEF ServiceStep
<1> QED BY <1>1 DEF PromotionStep, ServiceStep

\* Every action of activate and reconcile is a step of the service.
LEMMA ActivationStep ==
  ASSUME StateInv, CallsFit, NEW t \in Threads, Activation(t)
  PROVE  PromotionStep
<1>1. ServiceStep(t)
  BY BeginStep, ObservedStep, ClaimingStep, CallingStep, AnsweredStep, SettlingStep DEF Activation
<1> QED BY <1>1, ServiceSteps

\* Every action of the administration is a step of the service.
LEMMA AdministrationStep ==
  ASSUME StateInv, CallsFit, Administration
  PROVE  PromotionStep
<1>1. CASE Initialize
  <2>1. StateStep /\ book' = book
    BY <1>1, InitializeStep
  <2> QED BY <1>1, <2>1, NoCallSteps DEF Initialize
<1>2. ASSUME NEW a \in Assets, Prepare(a) PROVE PromotionStep
  <2>1. StateStep /\ book' = book
    BY <1>2, PrepareStep
  <2> QED BY <1>2, <2>1, NoCallSteps DEF Prepare
<1>3. ASSUME NEW a \in Assets, Revoke(a) PROVE PromotionStep
  <2>1. StateStep /\ book' = book
    BY <1>3, RevokeStep
  <2> QED BY <1>3, <2>1, NoCallSteps DEF Revoke
<1>4. ASSUME NEW a \in Assets, NEW p \in Pointers, Promote(a, p) PROVE PromotionStep
  <2>1. StateStep /\ DOMAIN book' = DOMAIN book \cup {a}
    BY <1>4, PromoteStep
  <2> QED BY <1>4, <2>1, NoCallSteps DEF Promote
<1>5. ASSUME NEW id \in RollbackIds, NEW target \in PromotionIds, NEW p \in Pointers, Rollback(id, target, p)
      PROVE  PromotionStep
  <2>1. id \in Ids \ PromotionIds /\ opened /\ Restorable(target, p) /\ AddRollback(id, target, p)
        /\ UNCHANGED <<registry, opened, host>> /\ call' = Outdated(call)
    BY <1>5 DEF Rollback, Ids
  <2>2. StateStep /\ DOMAIN book' = DOMAIN book \cup {id}
    BY <2>1, RollbackStep
  <2> QED BY <2>1, <2>2, NoCallSteps
<1> QED BY <1>1, <1>2, <1>3, <1>4, <1>5 DEF Administration

\* The host decides, or stops what it was asked to cancel.
LEMMA DecidingStep ==
  ASSUME StateInv, NEW id \in PromotionIds, HostDecides(id) \/ HostCancels(id)
  PROVE  StateStep /\ book' = book
<1>1. id \in DOMAIN book /\ Record(id) = book[id] /\ UNCHANGED <<projection, journal>>
  BY Records DEF HostDecides, HostCancels
<1>2. DOMAIN fate = DOMAIN book
  BY DEF StateInv, Fits, Typed, Journaled
<1>3. CASE HostDecides(id)
  <2>1. ASSUME NEW z \in {"applied", "failed"}, fate[id] = "accepted", fate' = [fate EXCEPT ![id] = z]
        PROVE  StateStep /\ book' = book
    <3>1. host' = IF z = "applied" THEN [host EXCEPT ![book[id].pointer] = book[id].asset] ELSE host
      BY <1>1, <1>2, <1>3, <2>1 DEF HostDecides
    <3> QED BY <1>1, <2>1, <3>1, HostStep
  <2>2. CASE fate[id] = "absent" /\ outbox[id] \in {"dispatched", "unknown"} /\ fate' = [fate EXCEPT ![id] = "never"]
    <3>1. host' = host
      BY <1>1, <1>2, <1>3, <2>2 DEF HostDecides
    <3>2. PICK z \in {"applied", "failed", "never"} : z = "never"
      OBVIOUS
    <3> QED BY <1>1, <2>2, <3>1, <3>2, HostStep
  <2> QED BY <1>3, <2>1, <2>2 DEF HostDecides
<1>4. CASE HostCancels(id)
  <2>1. fate[id] = "accepted" /\ fate' = [fate EXCEPT ![id] = "never"] /\ host' = host
    BY <1>4 DEF HostCancels
  <2>2. PICK z \in {"applied", "failed", "never"} : z = "never"
    OBVIOUS
  <2> QED BY <1>1, <2>1, <2>2, HostStep
<1> QED BY <1>3, <1>4

\* What the world and the host do is a step of the service.
LEMMA EnvironmentStep ==
  ASSUME StateInv, CallsFit, Environment
  PROVE  PromotionStep
<1>1. CASE WorldChanges
  <2>1. UNCHANGED <<projection, journal, fate, host>> /\ call' = call /\ opened' = opened
    BY <1>1 DEF WorldChanges, projection
  <2>2. StateStep /\ book' = book
    BY <2>1, QuietStep
  <2> QED BY <2>1, <2>2, NoCallSteps
<1>2. ASSUME NEW id \in PromotionIds, HostDecides(id) PROVE PromotionStep
  <2>1. StateStep /\ book' = book
    BY <1>2, DecidingStep
  <2>2. call' = call /\ opened' = opened
    BY <1>2 DEF HostDecides, projection
  <2> QED BY <2>1, <2>2, NoCallSteps
<1>3. ASSUME NEW t \in Threads, Crash(t) PROVE PromotionStep
  BY <1>3, CrashStep, ServiceSteps
<1> QED BY <1>1, <1>2, <1>3 DEF Environment

-----------------------------------------------------------------------------
(* The records of the revocations.                                            *)

RevocationsFit ==
  /\ revocations \in [Requests -> Revisions \cup {None}]
  /\ \A r \in Requests : revocations[r] # None =>
       opened /\ DOMAIN revocations[r].cancellations \subseteq DOMAIN book

CallInv == CallsFit /\ RevocationsFit

-----------------------------------------------------------------------------
(* What is known of a cancellation.                                          *)

\* How often the host was asked to cancel the promotion for the request.
AskedFor(r, id) == IF id \in DOMAIN cancels[r] THEN cancels[r][id] ELSE 0

Sending(t, r, id) == At(t, "cancelling") /\ call[t].job = r /\ call[t].id = id

\* The request was recorded, and is not made again.
IsRecorded(r, id) ==
  /\ revocations[r] # None
  /\ id \in DOMAIN revocations[r].cancellations
  /\ revocations[r].cancellations[id] # "needed"

CancelInv ==
  /\ DOMAIN cancels = Requests
  /\ \A r \in Requests : DOMAIN cancels[r] \subseteq Ids /\ cancels[r] \in [DOMAIN cancels[r] -> Nat]
  /\ \A r \in Requests, id \in Ids :
       /\ AskedFor(r, id) <= 1
       /\ AskedFor(r, id) = 1 => IsRecorded(r, id)
       /\ \A t \in Threads : Sending(t, r, id) =>
            /\ AskedFor(r, id) = 0 /\ IsRecorded(r, id)
            /\ \A u \in Threads : Sending(u, r, id) => u = t

-----------------------------------------------------------------------------
(* What is known of a revocation.                                            *)

\* Nothing affected is left to become active.
NoneOpen(b, affected) ==
  \A id \in DOMAIN b : b[id].asset \in affected => b[id].status \notin {"promoted", "pending"}

\* The record w of a revocation fits: what is affected is revoked, what is unfinished is
\* still to be cancelled, and a pointer that is or may come to be on it is to be restored.
RevisionFits(w, b, pt, reg) ==
  /\ \A a \in w.affected : reg[a] # None /\ reg[a].state = "revoked"
  /\ \A id \in DOMAIN b :
       b[id].asset \in w.affected /\ b[id].status \in {"promoted", "pending"} =>
         id \in DOMAIN w.cancellations /\ w.cancellations[id] \notin Over
  /\ \A id \in DOMAIN w.cancellations : w.cancellations[id] # "not-executed" =>
       b[id].effect /\ b[id].pointer \in DOMAIN w.restores
  /\ \A p \in Pointers : pt[p].active \in w.affected => p \in DOMAIN w.restores
  /\ w.status = "complete" => NoneOpen(b, w.affected) /\ \A p \in Pointers : pt[p].active \notin w.affected

\* A restore begins when nothing affected is open, and is to an asset that is not affected.
RestoreFits(w, id, p, b, pt) ==
  id \in DOMAIN b =>
    /\ w # None /\ NoneOpen(b, w.affected) /\ b[id].pointer = p /\ b[id].asset \notin w.affected
    /\ b[id].status = "active" => pt[p].active \notin w.affected

\* The plan x of a recovery is an earlier form of the record w.
Continues(x, w) ==
  /\ x.affected = w.affected /\ DOMAIN x.restores = DOMAIN w.restores
  /\ DOMAIN x.cancellations = DOMAIN w.cancellations
  /\ \A id \in DOMAIN x.cancellations : x.cancellations[id] \in Over => w.cancellations[id] \in Over

\* A recovery of w has restored what it has done, and activates nothing but a restore.
RecoveryFits(c, w, b, pt) ==
  c.job # None =>
    /\ w # None /\ Continues(c.revision, w)
    /\ \A p \in c.done : NoneOpen(b, w.affected) /\ pt[p].active \notin w.affected
    /\ c.at \in InService \cup Answered /\ c.id \notin DOMAIN c.revision.cancellations =>
         \E p \in Pointers : c.id = RestoreId[c.job][p]

CleanInv ==
  /\ \A r \in Requests : revocations[r] # None => RevisionFits(revocations[r], book, pointers, registry)
  /\ \A r \in Requests, p \in Pointers :
       RestoreFits(revocations[r], RestoreId[r][p], p, book, pointers)
  /\ \A t \in Threads, r \in Requests :
       call[t].job = r => RecoveryFits(call[t], revocations[r], book, pointers)

Inv == StateInv /\ CallInv /\ CancelInv /\ CleanInv

-----------------------------------------------------------------------------
(* What a revocation knows is kept as promotions go on.                      *)

\* When nothing affected is open, nothing affected becomes active.
LEMMA NoneOpenKept ==
  ASSUME NEW b, NEW pt, NEW reg, NEW b2, NEW pt2, NEW reg2, Moves(b, pt, reg, b2, pt2, reg2),
         NEW affected, \A a \in affected : reg[a].state = "revoked", NoneOpen(b, affected)
  PROVE  /\ NoneOpen(b2, affected)
         /\ \A p \in Pointers : pt[p].active \notin affected => pt2[p].active \notin affected
<1>1. NoneOpen(b2, affected)
  BY DEF Moves, NoneOpen
<1>2. ASSUME NEW p \in Pointers, pt[p].active \notin affected PROVE pt2[p].active \notin affected
  BY <1>2 DEF Moves, NoneOpen
<1> QED BY <1>1, <1>2

\* The record of a revocation fits as promotions go on.
LEMMA RevisionKept ==
  ASSUME NEW b, NEW pt, NEW reg, NEW b2, NEW pt2, NEW reg2, Moves(b, pt, reg, b2, pt2, reg2),
         NEW w \in Revisions, DOMAIN w.cancellations \subseteq DOMAIN b, RevisionFits(w, b, pt, reg)
  PROVE  RevisionFits(w, b2, pt2, reg2)
<1>1. w.affected \subseteq Assets
  BY DEF Revisions
<1>2. \A a \in w.affected : reg[a] # None /\ reg[a].state = "revoked"
  BY DEF RevisionFits
<1>3. \A a \in w.affected : reg2[a] # None /\ reg2[a].state = "revoked"
  BY <1>1, <1>2 DEF Moves
<1>4. ASSUME NEW id \in DOMAIN b2, b2[id].asset \in w.affected, b2[id].status \in {"promoted", "pending"}
      PROVE  id \in DOMAIN w.cancellations /\ w.cancellations[id] \notin Over
  <2>1. id \in DOMAIN b
    BY <1>2, <1>4 DEF Moves
  <2>2. b[id].asset \in w.affected /\ b[id].status \in {"promoted", "pending"}
    BY <1>4, <2>1 DEF Moves
  <2> QED BY <2>1, <2>2 DEF RevisionFits
<1>5. ASSUME NEW id \in DOMAIN w.cancellations, w.cancellations[id] # "not-executed"
      PROVE  b2[id].effect /\ b2[id].pointer \in DOMAIN w.restores
  BY <1>5 DEF RevisionFits, Moves
<1>6. ASSUME NEW p \in Pointers, pt2[p].active \in w.affected PROVE p \in DOMAIN w.restores
  <2>1. CASE pt2[p].active = pt[p].active
    BY <1>6, <2>1 DEF RevisionFits
  <2>2. CASE pt2[p].active # pt[p].active
    <3>1. PICK id \in DOMAIN b : b[id].pointer = p /\ b[id].status = "pending" /\ pt2[p].active = b[id].asset
      BY <2>2 DEF Moves
    <3>2. id \in DOMAIN w.cancellations /\ w.cancellations[id] \notin Over
      BY <1>6, <3>1 DEF RevisionFits
    <3> QED BY <3>1, <3>2 DEF RevisionFits, Over
  <2> QED BY <2>1, <2>2
<1>7. w.status = "complete" => NoneOpen(b2, w.affected) /\ \A p \in Pointers : pt2[p].active \notin w.affected
  BY <1>2, NoneOpenKept DEF RevisionFits
<1> QED BY <1>3, <1>4, <1>5, <1>6, <1>7 DEF RevisionFits

\* A restore fits as promotions go on and its record with them.
LEMMA RestoreKept ==
  ASSUME NEW b, NEW pt, NEW reg, NEW b2, NEW pt2, NEW reg2, Moves(b, pt, reg, b2, pt2, reg2),
         NEW w, NEW x, x # None, x.affected = w.affected, \A a \in w.affected : reg[a].state = "revoked",
         NEW id \in DOMAIN b, NEW p \in Pointers, RestoreFits(w, id, p, b, pt)
  PROVE  RestoreFits(x, id, p, b2, pt2)
<1>1. /\ w # None /\ NoneOpen(b, w.affected) /\ b[id].pointer = p /\ b[id].asset \notin w.affected
      /\ b[id].status = "active" => pt[p].active \notin w.affected
  BY DEF RestoreFits
<1>2. NoneOpen(b2, w.affected) /\ (pt[p].active \notin w.affected => pt2[p].active \notin w.affected)
  BY <1>1, NoneOpenKept
<1>3. b2[id].pointer = p /\ b2[id].asset \notin w.affected
  BY <1>1 DEF Moves
<1>4. b2[id].status = "active" => pt2[p].active \notin w.affected
  BY <1>1, <1>2 DEF Moves
<1> QED BY <1>2, <1>3, <1>4 DEF RestoreFits

\* The record goes on to x: what it affects is the same, and what is over stays so.
Advances(w, x) ==
  /\ x # None /\ Continues(w, x)
  /\ \A id \in DOMAIN w.cancellations : w.cancellations[id] # "needed" => x.cancellations[id] # "needed"

\* A recovery fits as promotions go on and its record with them.
LEMMA RecoveryKept ==
  ASSUME NEW b, NEW pt, NEW reg, NEW b2, NEW pt2, NEW reg2, Moves(b, pt, reg, b2, pt2, reg2),
         NEW w, NEW x, Advances(w, x), \A a \in w.affected : reg[a].state = "revoked",
         NEW c, RecoveryFits(c, w, b, pt), c.job # None,
         c.at \in {"cancelling", "cancelled", "querying"} => c.id \in DOMAIN c.revision.cancellations,
         NEW d, Follows(c, d), d.job # None, c \in Calls
  PROVE  RecoveryFits(d, x, b2, pt2)
<1>1. d.job = c.job /\ d.revision = c.revision /\ d.done = c.done /\ d.id = c.id
      /\ (d.at = c.at \/ c.at \in InService \cup {"querying"})
  <2>1. CASE d = [c EXCEPT !.fresh = FALSE]
    BY <2>1, StaleParts
  <2> QED BY <2>1 DEF Follows
<1>2. w # None /\ Continues(c.revision, w)
  BY DEF RecoveryFits
<1>3. Continues(d.revision, x) /\ x.affected = w.affected /\ x # None
  BY <1>1, <1>2 DEF Continues, Advances
<1>4. ASSUME NEW p \in d.done PROVE NoneOpen(b2, x.affected) /\ pt2[p].active \notin x.affected
  <2>1. NoneOpen(b, w.affected) /\ pt[p].active \notin w.affected /\ p \in Pointers
    BY <1>1, <1>4 DEF RecoveryFits, Calls
  <2> QED BY <1>3, <2>1, NoneOpenKept
<1>5. ASSUME d.at \in InService \cup Answered, d.id \notin DOMAIN d.revision.cancellations
      PROVE  \E p \in Pointers : d.id = RestoreId[d.job][p]
  <2>1. c.at \in InService \cup Answered
    BY <1>1, <1>5
  <2> QED BY <1>1, <1>5, <2>1 DEF RecoveryFits
<1> QED BY <1>3, <1>4, <1>5 DEF RecoveryFits

RecordsGo == \A r \in Requests : revocations[r] # None => Advances(revocations[r], revocations'[r])

\* Records that stay as they are go on.
LEMMA RecordsStay ==
  ASSUME revocations' = revocations
  PROVE  RecordsGo
BY DEF RecordsGo, Advances, Continues

\* A step in which the host is not asked to cancel, and no call comes to ask it.
LEMMA CancelKept ==
  ASSUME CancelInv, RecordsGo, cancels' = cancels,
         \A u \in Threads : call'[u].at = "cancelling" =>
           call[u].at = "cancelling" /\ call'[u].job = call[u].job /\ call'[u].id = call[u].id
  PROVE  CancelInv'
<1>1. DOMAIN cancels' = Requests /\ \A r \in Requests :
        DOMAIN cancels'[r] \subseteq Ids /\ cancels'[r] \in [DOMAIN cancels'[r] -> Nat]
  BY DEF CancelInv
<1>2. \A r \in Requests, id \in Ids : IsRecorded(r, id) => IsRecorded(r, id)'
  BY DEF IsRecorded, RecordsGo, Advances, Continues
<1>3. \A r \in Requests, id \in Ids : AskedFor(r, id)' = AskedFor(r, id)
  BY DEF AskedFor
<1>4. \A u \in Threads, r \in Requests, id \in Ids : Sending(u, r, id)' => Sending(u, r, id)
  BY DEF Sending, At
<1>5. ASSUME NEW r \in Requests, NEW id \in Ids
      PROVE  /\ AskedFor(r, id)' <= 1 /\ (AskedFor(r, id)' = 1 => IsRecorded(r, id)')
             /\ \A t \in Threads : Sending(t, r, id)' =>
                  /\ AskedFor(r, id)' = 0 /\ IsRecorded(r, id)'
                  /\ \A u \in Threads : Sending(u, r, id)' => u = t
  BY <1>2, <1>3, <1>4 DEF CancelInv
<1> QED BY <1>1, <1>5 DEF CancelInv

\* What is known of all revocations is kept by a step that keeps it of what it touched.
LEMMA CleanKept ==
  ASSUME CallInv, CleanInv, StateStep, RecordsGo,
         \A r \in Requests : revocations'[r] # None =>
           revocations'[r] = revocations[r] \/ RevisionFits(revocations'[r], book', pointers', registry'),
         \A r \in Requests, p \in Pointers : RestoreId[r][p] \in DOMAIN book' =>
           \/ RestoreId[r][p] \in DOMAIN book
           \/ RestoreFits(revocations'[r], RestoreId[r][p], p, book', pointers'),
         \A u \in Threads : \/ Follows(call[u], call'[u])
                            \/ RecoveryFits(call'[u], revocations'[call'[u].job], book', pointers')
  PROVE  CleanInv'
<1>1. Moves(book, pointers, registry, book', pointers', registry')
  BY DEF StateStep
<1>2. \A r \in Requests : revocations[r] # None =>
        revocations[r] \in Revisions /\ DOMAIN revocations[r].cancellations \subseteq DOMAIN book
        /\ RevisionFits(revocations[r], book, pointers, registry)
        /\ \A a \in revocations[r].affected : registry[a].state = "revoked"
  BY DEF CallInv, RevocationsFit, CleanInv, RevisionFits
<1>3. ASSUME NEW r \in Requests, revocations'[r] # None
      PROVE  RevisionFits(revocations'[r], book', pointers', registry')
  BY <1>1, <1>2, <1>3, RevisionKept
<1>4. ASSUME NEW r \in Requests, NEW p \in Pointers
      PROVE  RestoreFits(revocations'[r], RestoreId[r][p], p, book', pointers')
  <2>1. PICK id : id = RestoreId[r][p]
    OBVIOUS
  <2>2. CASE id \notin DOMAIN book'
    BY <2>1, <2>2 DEF RestoreFits
  <2>3. CASE id \in DOMAIN book
    <3>1. RestoreFits(revocations[r], id, p, book, pointers)
      BY <2>1 DEF CleanInv
    <3>2. revocations[r] # None
      BY <2>3, <3>1 DEF RestoreFits
    <3>3. revocations'[r] # None /\ revocations'[r].affected = revocations[r].affected
      BY <3>2 DEF RecordsGo, Advances, Continues
    <3>4. PICK w, x : w = revocations[r] /\ x = revocations'[r]
      OBVIOUS
    <3>5. RestoreFits(x, id, p, book', pointers')
      BY <1>1, <1>2, <2>3, <3>1, <3>2, <3>3, <3>4, RestoreKept
    <3> QED BY <2>1, <3>4, <3>5
  <2> QED BY <2>1, <2>2, <2>3
<1>5. ASSUME NEW u \in Threads, NEW r \in Requests, call'[u].job = r
      PROVE  RecoveryFits(call'[u], revocations'[r], book', pointers')
  <2>1. CASE Follows(call[u], call'[u])
    <3>1. PICK c, d : c = call[u] /\ d = call'[u]
      OBVIOUS
    <3>2. CallFits(c, book, outbox, received, fate) /\ c \in Calls
          /\ (c.at \in {"cancelling", "cancelled", "querying"} => c.id \in DOMAIN c.revision.cancellations)
      BY <3>1 DEF CallInv, CallsFit, CallFits
    <3>3. r # None /\ d.job # None
      BY <1>5, <3>1, RevocationAssumption
    <3>4. c.job = d.job
      <4>1. CASE d = [c EXCEPT !.fresh = FALSE]
        BY <3>2, <4>1, StaleParts
      <4> QED BY <2>1, <3>1, <3>3, <4>1 DEF Follows
    <3>5. RecoveryFits(c, revocations[r], book, pointers)
      BY <1>5, <3>1, <3>4 DEF CleanInv
    <3>6. revocations[r] # None
      BY <3>3, <3>4, <3>5 DEF RecoveryFits
    <3>7. PICK w, x : w = revocations[r] /\ x = revocations'[r]
      OBVIOUS
    <3>8. Advances(w, x) /\ \A a \in w.affected : registry[a].state = "revoked"
      BY <1>2, <3>6, <3>7 DEF RecordsGo
    <3>9. RecoveryFits(d, x, book', pointers')
      BY <1>1, <2>1, <3>1, <3>2, <3>3, <3>4, <3>5, <3>7, <3>8, RecoveryKept
    <3> QED BY <3>1, <3>7, <3>9
  <2> QED BY <1>5, <2>1
<1> QED BY <1>3, <1>4, <1>5 DEF CleanInv

\* What no recovery does keeps what is known of revocations.
LEMMA PromotionsKeep ==
  ASSUME Inv, PromotionStep, UNCHANGED <<revocations, cancels>>
  PROVE  Inv'
<1>1. StateStep /\ StateInv' /\ CallsFit'
  BY DEF PromotionStep, StateStep
<1>2. RecordsGo
  BY RecordsStay
<1>3. RevocationsFit'
  BY <1>1 DEF Inv, CallInv, RevocationsFit, PromotionStep, StateStep, Goes
<1>4. ASSUME NEW u \in Threads
      PROVE  call'[u].at = "cancelling" =>
               call[u].at = "cancelling" /\ call'[u].job = call[u].job /\ call'[u].id = call[u].id
  <2>1. Follows(call[u], call'[u]) /\ call[u] \in Calls
    BY DEF PromotionStep, Inv, CallInv, CallsFit, CallFits
  <2>2. PICK c, d : c \in Calls /\ c = call[u] /\ d = call'[u]
    BY <2>1
  <2>3. CASE d = [c EXCEPT !.fresh = FALSE]
    BY <2>2, <2>3, StaleParts
  <2> QED BY <2>1, <2>2, <2>3 DEF Follows, InService, Answered
<1>5. CancelInv'
  BY <1>2, <1>4, CancelKept DEF Inv
<1>6. \A r \in Requests, p \in Pointers : RestoreId[r][p] \in DOMAIN book' => RestoreId[r][p] \in DOMAIN book
  BY RevocationAssumption DEF PromotionStep
<1>7. CleanInv'
  BY <1>1, <1>2, <1>6, CleanKept DEF Inv, PromotionStep
<1> QED BY <1>1, <1>3, <1>5, <1>7 DEF Inv, CallInv

-----------------------------------------------------------------------------
(* The monitor, and the host that cancels.                                   *)

\* The host stops what it was asked to cancel.
LEMMA HostCancelsKeeps ==
  ASSUME Inv, NEW id \in PromotionIds, HostCancels(id)
  PROVE  Inv'
<1>1. StateStep /\ book' = book
  BY DecidingStep DEF Inv
<1>2. call' = call /\ opened' = opened /\ UNCHANGED <<revocations, cancels>>
  BY DEF HostCancels, projection
<1>3. PromotionStep
  BY <1>1, <1>2, NoCallSteps DEF Inv, CallInv
<1> QED BY <1>2, <1>3, PromotionsKeep

\* The record of a revocation has its type, and is about promotions there are.
LEMMA TargetIsKnown ==
  ASSUME StateInv, NEW p, NEW affected
  PROVE  VerifiedTarget(p, affected) \in Ids \cup {None}
<1>1. promotions \in Seq(PromotionRecords) /\ \A i \in 1..Len(promotions) : promotions[i] \in PromotionRecords
  BY ElementOfSeq DEF StateInv
<1> DEFINE S == {i \in 1..Len(promotions) :
                   /\ promotions[i].pointer = p /\ promotions[i].status = "active"
                   /\ promotions[i].asset \notin affected /\ Eligible(promotions[i].asset)}
           last == IF S # {} THEN Max(S) ELSE 0
<1>2. VerifiedTarget(p, affected) = IF last = 0 THEN None ELSE promotions[last].id
  BY DEF VerifiedTarget, SelectLastInSeq
<1>3. S # {} => Max(S) \in S
  BY <1>1, Selected
<1> HIDE DEF S
<1>4. CASE last = 0
  BY <1>2, <1>4
<1>5. CASE last # 0
  <2>1. last \in 1..Len(promotions)
    BY <1>3, <1>5 DEF S
  <2>2. promotions[last].id \in Ids
    BY <1>1, <2>1 DEF PromotionRecords
  <2> QED BY <1>2, <1>5, <2>2
<1> QED BY <1>4, <1>5

\* The cancellations of a plan are the unfinished promotions of what is affected.
LEMMA CancellationPlanParts ==
  ASSUME StateInv, NEW affected
  PROVE  /\ DOMAIN CancellationPlan(affected) =
              {id \in DOMAIN book : book[id].asset \in affected /\ book[id].status \in {"promoted", "pending"}}
         /\ CancellationPlan(affected) \in [DOMAIN CancellationPlan(affected) -> {"not-executed", "needed"}]
         /\ DOMAIN CancellationPlan(affected) \subseteq Ids
         /\ \A id \in DOMAIN CancellationPlan(affected) :
              CancellationPlan(affected)[id] = "needed" => book[id].effect
<1>1. Unfinished(affected) = {id \in DOMAIN book : book[id].asset \in affected /\ book[id].status \in {"promoted", "pending"}}
  BY Records DEF Unfinished
<1>2. \A id \in DOMAIN book : id \in Ids /\ Record(id) = book[id]
  BY EffectIs, Records DEF PromotionRecords
<1>3. \A id \in Unfinished(affected) : ~NeverClaimed(id) => book[id].effect
  BY <1>1, <1>2 DEF NeverClaimed
<1> QED BY <1>1, <1>2, <1>3 DEF CancellationPlan

\* The restores of a plan are the pointers that are, or may come to be, on what is affected.
LEMMA RestorePlanParts ==
  ASSUME StateInv, NEW affected, NEW cancellations, DOMAIN cancellations \subseteq DOMAIN book
  PROVE  /\ DOMAIN RestorePlan(affected, cancellations) \subseteq Pointers
         /\ RestorePlan(affected, cancellations) \in [DOMAIN RestorePlan(affected, cancellations) -> Ids \cup {None}]
         /\ \A p \in Pointers : pointers[p].active \in affected => p \in DOMAIN RestorePlan(affected, cancellations)
         /\ \A id \in DOMAIN cancellations : cancellations[id] = "needed" =>
              book[id].pointer \in DOMAIN RestorePlan(affected, cancellations)
<1> DEFINE inFlight == {Record(id).pointer : id \in {i \in DOMAIN cancellations : cancellations[i] = "needed"}}
           shaken == {p \in Pointers : pointers[p].active \in affected} \cup inFlight
<1>1. RestorePlan(affected, cancellations) = [p \in shaken |-> VerifiedTarget(p, affected)]
  BY Zenon DEF RestorePlan
<1>2. inFlight \subseteq Pointers /\ \A id \in DOMAIN cancellations : cancellations[id] = "needed" => book[id].pointer \in inFlight
  <2>1. \A id \in DOMAIN book : Record(id) = book[id] /\ book[id].pointer \in Pointers
    BY EffectIs, Records
  <2> QED BY <2>1
<1> HIDE DEF inFlight
<1>3. \A p \in shaken : VerifiedTarget(p, affected) \in Ids \cup {None}
  BY TargetIsKnown
<1>4. shaken \subseteq Pointers
  BY <1>2
<1>5. DOMAIN RestorePlan(affected, cancellations) = shaken
  BY <1>1
<1>6. RestorePlan(affected, cancellations) \in [shaken -> Ids \cup {None}]
  BY <1>1, <1>3
<1> QED BY <1>2, <1>4, <1>5, <1>6

\* The commit of a plan begins a revocation that fits.
LEMMA MonitorKeeps ==
  ASSUME Inv, NEW r \in Requests, NEW root \in Assets, Monitor(r, root)
  PROVE  Inv'
<1> DEFINE affected == DependentClosure(root)
           canc == CancellationPlan(affected)
           rest == RestorePlan(affected, canc)
<1>1. StateInv /\ CallsFit /\ RevocationsFit /\ CancelInv /\ CleanInv
  BY DEF Inv, CallInv
<1>2. /\ StateStep /\ affected \in SUBSET Assets
      /\ \A a \in affected : registry'[a] # None /\ registry'[a].state = "revoked"
      /\ \A p \in Pointers : pointers'[p].active = pointers[p].active
      /\ book' = [id \in DOMAIN book |-> IF id \in Ending(affected) THEN [book[id] EXCEPT !.status = "failed"] ELSE book[id]]
  BY <1>1, MonitorStep
<1>3. /\ DOMAIN canc = {id \in DOMAIN book : book[id].asset \in affected /\ book[id].status \in {"promoted", "pending"}}
      /\ canc \in [DOMAIN canc -> {"not-executed", "needed"}] /\ DOMAIN canc \subseteq Ids
      /\ \A id \in DOMAIN canc : canc[id] = "needed" => book[id].effect
  BY <1>1, CancellationPlanParts
<1>4. /\ DOMAIN rest \subseteq Pointers /\ rest \in [DOMAIN rest -> Ids \cup {None}]
      /\ \A p \in Pointers : pointers[p].active \in affected => p \in DOMAIN rest
      /\ \A id \in DOMAIN canc : canc[id] = "needed" => book[id].pointer \in DOMAIN rest
  <2>1. PICK x : x = canc
    OBVIOUS
  <2>2. DOMAIN x \subseteq DOMAIN book
    BY <1>3, <2>1
  <2>3. /\ DOMAIN RestorePlan(affected, x) \subseteq Pointers
        /\ RestorePlan(affected, x) \in [DOMAIN RestorePlan(affected, x) -> Ids \cup {None}]
        /\ \A p \in Pointers : pointers[p].active \in affected => p \in DOMAIN RestorePlan(affected, x)
        /\ \A id \in DOMAIN x : x[id] = "needed" => book[id].pointer \in DOMAIN RestorePlan(affected, x)
    BY <1>1, <2>2, RestorePlanParts
  <2> QED BY <2>1, <2>3
<1>5. PICK status : status = IF Ending(affected) = DOMAIN canc /\ rest = << >> THEN "complete" ELSE "pending"
  OBVIOUS
<1>6. PICK w : w = [affected |-> affected, cancellations |-> canc, restores |-> rest, error |-> None, status |-> status]
  OBVIOUS
<1>7. /\ revocations' = [revocations EXCEPT ![r] = w] /\ call' = Outdated(call) /\ cancels' = cancels
      /\ revocations[r] = None /\ opened /\ opened' = opened
  BY <1>5, <1>6, Zenon DEF Monitor, Ending
<1>8. Ending(affected) = {id \in DOMAIN canc : canc[id] = "not-executed"}
  BY DEF Ending
<1> HIDE DEF affected, canc, rest
<1>9. w \in Revisions /\ w # None
  <2>1. canc \in [DOMAIN canc -> CancelStates] /\ DOMAIN canc \in SUBSET Ids
    BY <1>3 DEF CancelStates
  <2>2. canc \in UNION {[D -> CancelStates] : D \in SUBSET Ids}
    BY <2>1
  <2>3. rest \in UNION {[D -> Ids \cup {None}] : D \in SUBSET Pointers}
    BY <1>4
  <2>4. status \in {"pending", "complete"}
    BY <1>5
  <2> QED BY <1>2, <1>6, <2>2, <2>3, <2>4, RevocationAssumption DEF Revisions
<1>10. w.affected = affected /\ w.cancellations = canc /\ w.restores = rest /\ w.status = status
  BY <1>6
<1>11. PromotionStep
  <2>1. DOMAIN book' = DOMAIN book
    BY <1>2
  <2> QED BY <1>1, <1>2, <1>7, <2>1, NoCallSteps
<1>12. /\ revocations'[r] = w /\ \A s \in Requests \ {r} : revocations'[s] = revocations[s]
       /\ revocations' \in [Requests -> Revisions \cup {None}]
  BY <1>1, <1>7, <1>9 DEF RevocationsFit
<1>13. RecordsGo
  BY <1>7, <1>12 DEF RecordsGo, Advances, Continues
<1>14. RevocationsFit'
  BY <1>1, <1>2, <1>3, <1>7, <1>10, <1>12 DEF RevocationsFit
<1>15. CancelInv'
  <2>1. ASSUME NEW u \in Threads
        PROVE  call'[u].at = "cancelling" =>
                 call[u].at = "cancelling" /\ call'[u].job = call[u].job /\ call'[u].id = call[u].id
    <3>1. PICK c, d : c \in Calls /\ c = call[u] /\ d = [c EXCEPT !.fresh = FALSE] /\ d = call'[u]
      BY <1>1, <1>7 DEF Outdated, CallsFit, CallFits
    <3>2. d.at = c.at /\ d.job = c.job /\ d.id = c.id
      BY <3>1 DEF Calls
    <3> QED BY <3>1, <3>2
  <2> QED BY <1>1, <1>7, <1>13, <2>1, CancelKept
<1>16. RevisionFits(w, book', pointers', registry')
  <2>1. ASSUME NEW id \in DOMAIN book
        PROVE  IF id \in Ending(affected) THEN book'[id].status = "failed" ELSE book'[id] = book[id]
    <3>1. PICK q \in PromotionRecords : q = book[id]
      BY <1>1, EffectIs
    <3>2. [q EXCEPT !.status = "failed"].status = "failed"
      BY DEF PromotionRecords
    <3> QED BY <1>2, <3>1, <3>2
  <2>2. ASSUME NEW id \in DOMAIN book', book'[id].asset \in affected, book'[id].status \in {"promoted", "pending"}
        PROVE  id \in DOMAIN canc /\ canc[id] = "needed"
    <3>1. id \in DOMAIN book /\ id \notin Ending(affected) /\ book'[id] = book[id]
      BY <1>2, <2>1, <2>2
    <3> QED BY <1>3, <1>8, <2>2, <3>1
  <2>3. ASSUME NEW id \in DOMAIN canc, canc[id] # "not-executed"
        PROVE  book'[id].effect /\ book'[id].pointer \in DOMAIN rest
    <3>1. canc[id] = "needed" /\ id \in DOMAIN book /\ id \notin Ending(affected)
      BY <1>3, <1>8, <2>3
    <3>2. book'[id] = book[id]
      BY <2>1, <3>1
    <3> QED BY <1>3, <1>4, <3>1, <3>2
  <2>4. ASSUME status = "complete"
        PROVE  NoneOpen(book', affected) /\ \A p \in Pointers : pointers'[p].active \notin affected
    <3>1. Ending(affected) = DOMAIN canc /\ DOMAIN rest = {}
      BY <1>5, <2>4
    <3>2. \A p \in Pointers : pointers'[p].active \notin affected
      BY <1>2, <1>4, <3>1
    <3>3. \A id \in DOMAIN book' : ~(book'[id].asset \in affected /\ book'[id].status \in {"promoted", "pending"})
      BY <1>8, <2>2, <3>1
    <3> QED BY <3>2, <3>3 DEF NoneOpen
  <2> QED BY <1>2, <1>4, <1>10, <2>2, <2>3, <2>4 DEF RevisionFits, Over
<1>17. CleanInv'
  <2>1. \A s \in Requests, p \in Pointers : RestoreId[s][p] \in DOMAIN book' => RestoreId[s][p] \in DOMAIN book
    BY <1>2
  <2> QED BY <1>1, <1>2, <1>11, <1>12, <1>13, <1>16, <2>1, CleanKept DEF PromotionStep, Inv
<1>18. StateInv' /\ CallsFit'
  BY <1>11 DEF PromotionStep, StateStep
<1> QED BY <1>14, <1>15, <1>17, <1>18 DEF Inv, CallInv

-----------------------------------------------------------------------------
(* The records of a recovery.                                                *)

Errors == {None, "denied", "cancel", "unconfirmed", "restore"}

\* A record with another error is the same otherwise.
LEMMA ErrorParts ==
  ASSUME NEW w \in Revisions, NEW e \in Errors, NEW x, x = [w EXCEPT !.error = e]
  PROVE  /\ x \in Revisions /\ x.affected = w.affected /\ x.cancellations = w.cancellations
         /\ x.restores = w.restores /\ x.status = w.status
<1>1. x \in Revisions
  BY DEF Revisions, Errors
<1>2. x.affected = w.affected /\ x.cancellations = w.cancellations
  BY DEF Revisions
<1>3. x.restores = w.restores /\ x.status = w.status
  BY DEF Revisions
<1> QED BY <1>1, <1>2, <1>3

\* One cancellation of the record is in another state.
Stands(w, x, id, s) ==
  /\ x \in Revisions /\ x.affected = w.affected /\ x.restores = w.restores /\ x.status = w.status
  /\ DOMAIN x.cancellations = DOMAIN w.cancellations /\ x.cancellations[id] = s
  /\ \A other \in DOMAIN w.cancellations : other # id => x.cancellations[other] = w.cancellations[other]

\* A record in which one cancellation was given another state.
LEMMA StandsParts ==
  ASSUME NEW w \in Revisions, NEW id \in DOMAIN w.cancellations, NEW s \in CancelStates
  PROVE  /\ Stands(w, [w EXCEPT !.cancellations[id] = s], id, s)
         /\ Stands(w, [[w EXCEPT !.cancellations[id] = s] EXCEPT !.error = None], id, s)
<1>1. PICK D \in SUBSET Ids : w.cancellations \in [D -> CancelStates]
  BY DEF Revisions
<1>2. PICK g : g = [w.cancellations EXCEPT ![id] = s]
  OBVIOUS
<1>3. g \in [D -> CancelStates] /\ DOMAIN g = DOMAIN w.cancellations /\ g[id] = s
      /\ \A other \in DOMAIN w.cancellations : other # id => g[other] = w.cancellations[other]
  BY <1>1, <1>2
<1>4. PICK x : x = [w EXCEPT !.cancellations = g]
  OBVIOUS
<1>5. g \in UNION {[E -> CancelStates] : E \in SUBSET Ids}
  BY <1>1, <1>3
<1>6. x \in Revisions
  BY <1>4, <1>5 DEF Revisions
<1>7. x.affected = w.affected /\ x.restores = w.restores /\ x.status = w.status /\ x.cancellations = g
  BY <1>4 DEF Revisions
<1>8. Stands(w, x, id, s)
  BY <1>3, <1>6, <1>7 DEF Stands
<1>9. x = [w EXCEPT !.cancellations[id] = s]
  BY <1>2, <1>4 DEF Revisions
<1>10. PICK e, y : e \in Errors /\ e = None /\ y = [x EXCEPT !.error = e]
  BY DEF Errors
<1>11. /\ y \in Revisions /\ y.affected = x.affected /\ y.cancellations = x.cancellations
       /\ y.restores = x.restores /\ y.status = x.status
  BY <1>6, <1>10, ErrorParts
<1>12. Stands(w, y, id, s)
  BY <1>8, <1>11 DEF Stands
<1> QED BY <1>8, <1>9, <1>10, <1>12

\* Such a record continues the one it was made from.
LEMMA StandsAdvances ==
  ASSUME NEW w, NEW x, NEW id \in DOMAIN w.cancellations, NEW s, Stands(w, x, id, s),
         s # "needed", w.cancellations[id] \in Over => s \in Over
  PROVE  Advances(w, x)
BY RevocationAssumption DEF Stands, Advances, Continues

\* It fits when what it calls over has ended.
LEMMA StandsFits ==
  ASSUME NEW w, NEW x, NEW id \in DOMAIN w.cancellations, NEW s, Stands(w, x, id, s),
         NEW b, NEW pt, NEW reg, RevisionFits(w, b, pt, reg), w.cancellations[id] # "not-executed",
         id \in DOMAIN b /\ b[id].asset \in w.affected /\ b[id].status \in {"promoted", "pending"} => s \notin Over
  PROVE  RevisionFits(x, b, pt, reg)
<1>1. \A other \in DOMAIN b :
        b[other].asset \in x.affected /\ b[other].status \in {"promoted", "pending"} =>
          other \in DOMAIN x.cancellations /\ x.cancellations[other] \notin Over
  BY DEF Stands, RevisionFits
<1>2. \A other \in DOMAIN x.cancellations : x.cancellations[other] # "not-executed" =>
        b[other].effect /\ b[other].pointer \in DOMAIN x.restores
  BY DEF Stands, RevisionFits
<1> QED BY <1>1, <1>2 DEF Stands, RevisionFits

\* A record with another error fits as it did.
LEMMA ErrorFits ==
  ASSUME NEW w, NEW x, NEW b, NEW pt, NEW reg, RevisionFits(w, b, pt, reg), x # None,
         x.affected = w.affected, x.cancellations = w.cancellations, x.restores = w.restores, x.status = w.status
  PROVE  RevisionFits(x, b, pt, reg) /\ Advances(w, x)
BY DEF RevisionFits, Advances, Continues

-----------------------------------------------------------------------------
(* Steps of a recovery.                                                      *)

\* A step of the recovery t that keeps what is known of promotions, calls and revocations.
LEMMA ResumesKeep ==
  ASSUME Inv, NEW t \in Threads, StateStep, opened' = opened, Others(t),
         CallFits(call'[t], book', outbox', received', fate'),
         revocations' \in [Requests -> Revisions \cup {None}], RecordsGo,
         \A r \in Requests : revocations[r] = None => revocations'[r] = None,
         \A r \in Requests : revocations'[r] # None =>
           revocations'[r] = revocations[r] \/ RevisionFits(revocations'[r], book', pointers', registry'),
         \A r \in Requests, p \in Pointers : RestoreId[r][p] \in DOMAIN book' =>
           \/ RestoreId[r][p] \in DOMAIN book
           \/ RestoreFits(revocations'[r], RestoreId[r][p], p, book', pointers'),
         \/ Follows(call[t], call'[t])
         \/ RecoveryFits(call'[t], revocations'[call'[t].job], book', pointers')
  PROVE  /\ StateInv' /\ CallInv' /\ CleanInv'
         /\ cancels' = cancels /\ (call'[t].at = "cancelling" => call'[t] = call[t]) => Inv'
<1>1. CallsFit' /\ \A u \in Threads \ {t} : Follows(call[u], call'[u])
  BY OthersFit DEF Inv, CallInv
<1>2. RevocationsFit'
  <2>1. DOMAIN book \subseteq DOMAIN book'
    BY DEF StateStep, Goes
  <2>2. ASSUME NEW r \in Requests, revocations'[r] # None
        PROVE  opened' /\ DOMAIN revocations'[r].cancellations \subseteq DOMAIN book'
    <3>1. revocations[r] # None /\ opened /\ DOMAIN revocations[r].cancellations \subseteq DOMAIN book
      BY <2>2 DEF Inv, CallInv, RevocationsFit
    <3>2. DOMAIN revocations'[r].cancellations = DOMAIN revocations[r].cancellations
      BY <3>1 DEF RecordsGo, Advances, Continues
    <3> QED BY <2>1, <3>1, <3>2
  <2> QED BY <2>2 DEF RevocationsFit
<1>3. CleanInv'
  BY <1>1, CleanKept DEF Inv
<1>4. ASSUME cancels' = cancels, call'[t].at = "cancelling" => call'[t] = call[t] PROVE CancelInv'
  <2>1. ASSUME NEW u \in Threads
        PROVE  call'[u].at = "cancelling" =>
                 call[u].at = "cancelling" /\ call'[u].job = call[u].job /\ call'[u].id = call[u].id
    <3>1. CASE u = t
      BY <1>4, <3>1
    <3>2. CASE u # t
      <4>1. PICK c, d : c \in Calls /\ c = call[u] /\ d = call'[u]
        BY DEF Inv, CallInv, CallsFit, CallFits
      <4>2. d = c \/ d = [c EXCEPT !.fresh = FALSE]
        BY <3>2, <4>1 DEF Others
      <4>3. d.at = c.at /\ d.job = c.job /\ d.id = c.id
        BY <4>1, <4>2 DEF Calls
      <4> QED BY <4>1, <4>3
    <3> QED BY <3>1, <3>2
  <2> QED BY <1>4, <2>1, CancelKept DEF Inv
<1>5. StateInv' /\ CallInv'
  BY <1>1, <1>2 DEF StateStep, CallInv
<1> QED BY <1>3, <1>4, <1>5 DEF Inv

\* A recovery between two of its calls.
LEMMA RestingParts ==
  ASSUME NEW t \in Threads, call[t] \in Calls
  PROVE  /\ Resting(t) \in Calls /\ Resting(t).at = "recover" /\ Resting(t).job = call[t].job
         /\ Resting(t).done = call[t].done /\ Resting(t).revision = None /\ Resting(t).id = None
<1>1. PICK j \in Requests \cup {None}, e \in SUBSET Pointers : j = call[t].job /\ e = call[t].done
  BY DEF Calls
<1>2. Resting(t) = [Idle EXCEPT !.at = "recover", !.job = j, !.done = e]
  BY <1>1 DEF Resting
<1>3. PICK x : x = Resting(t)
  OBVIOUS
<1>4. /\ x \in Calls /\ x.at = "recover" /\ x.job = j /\ x.done = e /\ x.revision = None /\ x.id = None
  BY <1>2, <1>3 DEF Idle, Calls, InRecovery
<1> QED BY <1>1, <1>3, <1>4

\* The record of the recovery goes on, and the recovery with it.
LEMMA UpdateKeeps ==
  ASSUME Inv, NEW t \in Threads, call[t].at \in InRecovery, StateStep, opened' = opened,
         NEW record, NEW x \in Calls, Update(t, record, x), ~Current(t) => book' = book,
         Current(t) => /\ record \in Revisions /\ Advances(Plan(t), record)
                       /\ RevisionFits(record, book', pointers', registry'),
         DOMAIN book' = DOMAIN book,
         \/ x.at = "idle" /\ x.job = None /\ x.done = {}
         \/ /\ x.at \in {"recover", "cancelling"} /\ x.job = call[t].job /\ x.done = call[t].done
            /\ x.at = "cancelling" => /\ x.id \in DOMAIN record.cancellations
                                      /\ record.cancellations[x.id] = "requested"
  PROVE  /\ StateInv' /\ CallInv' /\ CleanInv'
         /\ cancels' = cancels /\ x.at # "cancelling" => Inv'
<1>1. PICK c, r : c = call[t] /\ r = c.job
  OBVIOUS
<1>2. /\ CallFits(c, book, outbox, received, fate) /\ c \in Calls /\ r \in Requests /\ c.revision \in Revisions
      /\ DOMAIN c.revision.cancellations \subseteq DOMAIN book /\ DOMAIN call = Threads
  BY <1>1 DEF Inv, CallInv, CallsFit, CallFits, Calls
<1>3. RecoveryFits(c, revocations[r], book, pointers) /\ revocations \in [Requests -> Revisions \cup {None}]
  BY <1>1, <1>2 DEF Inv, CleanInv, CallInv, RevocationsFit
<1>4. Moves(book, pointers, registry, book', pointers', registry')
      /\ Goes(book, outbox, received, fate, book', outbox', received', fate')
  BY DEF StateStep
<1>5. CASE ~Current(t)
  <2>1. revocations' = revocations /\ call' = [call EXCEPT ![t] = Idle] /\ book' = book
    BY <1>5 DEF Update
  <2>2. Idle \in Calls /\ Idle.at = "idle" /\ Idle.job = None /\ Idle.done = {}
    BY IdleParts
  <2>3. CallFits(Idle, book', outbox', received', fate') /\ Follows(call[t], Idle)
    <3>1. PICK d \in Calls : d = Idle
      BY <2>2
    <3> QED BY <2>2, <3>1, IdleFits DEF Follows
  <2>4. Others(t) /\ call'[t] = Idle
    BY <1>2, <2>1 DEF Others
  <2>5. \A s \in Requests, p \in Pointers : RestoreId[s][p] \in DOMAIN book' => RestoreId[s][p] \in DOMAIN book
    BY <2>1
  <2> QED BY <1>3, <2>1, <2>2, <2>3, <2>4, <2>5, RecordsStay, ResumesKeep
<1>6. CASE Current(t)
  <2>1. PICK w : w = record
    OBVIOUS
  <2>2. /\ w \in Revisions /\ Advances(c.revision, w) /\ RevisionFits(w, book', pointers', registry')
        /\ revocations[r] = c.revision
    BY <1>1, <1>6, <2>1 DEF Plan, Current
  <2>3. PICK d : d = [x EXCEPT !.revision = w, !.fresh = FALSE]
    OBVIOUS
  <2>4. /\ d \in Calls /\ d.revision = w /\ d.fresh = FALSE /\ d.at = x.at /\ d.id = x.id
        /\ d.job = x.job /\ d.done = x.done
    <3>1. PICK y : y = [x EXCEPT !.revision = w]
      OBVIOUS
    <3>2. y \in Calls /\ y.revision = w /\ y.at = x.at /\ y.id = x.id
      BY <2>2, <3>1 DEF Calls
    <3>3. y.job = x.job /\ y.done = x.done
      BY <3>1 DEF Calls
    <3>4. d = [y EXCEPT !.fresh = FALSE]
      BY <2>3, <3>1
    <3>5. /\ d \in Calls /\ d.fresh = FALSE /\ d.at = y.at /\ d.id = y.id
          /\ d.job = y.job /\ d.revision = y.revision /\ d.done = y.done
      BY <3>2, <3>4, StaleParts
    <3> QED BY <3>2, <3>3, <3>5
  <2>5. revocations' = [revocations EXCEPT ![r] = w] /\ call' = [Outdated(call) EXCEPT ![t] = d]
    BY <1>1, <1>6, <2>1, <2>3 DEF Update
  <2>6. call'[t] = d /\ Others(t)
    <3>1. PICK g : g = Outdated(call)
      OBVIOUS
    <3>2. DOMAIN g = Threads /\ \A u \in Threads : g[u] = [call[u] EXCEPT !.fresh = FALSE]
      BY <3>1 DEF Outdated
    <3> QED BY <2>5, <3>1, <3>2 DEF Others
  <2>7. /\ revocations' \in [Requests -> Revisions \cup {None}] /\ revocations'[r] = w
        /\ \A s \in Requests \ {r} : revocations'[s] = revocations[s]
    BY <1>2, <1>3, <2>2, <2>5
  <2>8. RecordsGo /\ \A s \in Requests : revocations[s] = None => revocations'[s] = None
    <3>1. \A s \in Requests \ {r} : revocations[s] # None => Advances(revocations[s], revocations'[s])
      BY <2>7 DEF Advances, Continues
    <3>2. c.revision # None
      BY <1>2, RevocationAssumption
    <3> QED BY <2>2, <2>7, <3>1, <3>2 DEF RecordsGo
  <2>9. DOMAIN w.cancellations \subseteq DOMAIN book'
    <3>1. DOMAIN w.cancellations = DOMAIN c.revision.cancellations
      BY <2>2 DEF Advances, Continues
    <3> QED BY <1>2, <3>1
  <2>10. CASE x.at = "idle" /\ x.job = None /\ x.done = {}
    <3>1. CallFits(d, book', outbox', received', fate') /\ Follows(c, d)
      BY <2>4, <2>10, IdleFits DEF Follows
    <3> QED BY <1>1, <2>2, <2>4, <2>6, <2>7, <2>8, <2>10, <3>1, ResumesKeep
  <2>11. CASE /\ x.at \in {"recover", "cancelling"} /\ x.job = call[t].job /\ x.done = call[t].done
              /\ x.at = "cancelling" => /\ x.id \in DOMAIN record.cancellations
                                        /\ record.cancellations[x.id] = "requested"
    <3>1. d.job = r /\ r # None /\ d.done = c.done
      BY <1>1, <1>2, <2>4, <2>11, RevocationAssumption
    <3>2. CallFits(d, book', outbox', received', fate')
      BY <1>1, <1>2, <2>1, <2>2, <2>4, <2>9, <2>11, <3>1 DEF CallFits, InService, InRecovery, Answered
    <3>3. w # None /\ w.affected = c.revision.affected /\ Continues(w, w)
      BY <2>2 DEF Advances, Continues
    <3>4. \A p \in c.done : p \in Pointers /\ NoneOpen(book, w.affected) /\ pointers[p].active \notin w.affected
      <4>1. c.done \subseteq Pointers
        BY <1>2 DEF Calls
      <4>2. c.job # None
        BY <1>1, <1>2, RevocationAssumption
      <4>3. \A p \in c.done : NoneOpen(book, revocations[r].affected) /\ pointers[p].active \notin revocations[r].affected
        BY <1>3, <4>2 DEF RecoveryFits
      <4>4. revocations[r].affected = w.affected
        BY <2>2, <3>3
      <4> QED BY <4>1, <4>3, <4>4
    <3>5. \A a \in w.affected : registry[a].state = "revoked"
      BY <1>2, <2>2, <3>3, RevocationAssumption DEF Inv, CleanInv, RevisionFits
    <3>6. \A p \in d.done : NoneOpen(book', w.affected) /\ pointers'[p].active \notin w.affected
      BY <1>4, <3>1, <3>4, <3>5, NoneOpenKept
    <3>7. RecoveryFits(d, w, book', pointers')
      BY <2>4, <2>11, <3>3, <3>6 DEF RecoveryFits, InService, Answered
    <3>8. RecoveryFits(call'[t], revocations'[call'[t].job], book', pointers')
      BY <2>6, <2>7, <3>1, <3>7
    <3> QED BY <2>2, <2>4, <2>6, <2>7, <2>8, <3>2, <3>8, ResumesKeep
  <2> QED BY <2>10, <2>11
<1> QED BY <1>5, <1>6

\* What is known of the plan of a recovery.
LEMMA PlanParts ==
  ASSUME Inv, NEW t \in Threads, call[t].job # None
  PROVE  /\ CallFits(call[t], book, outbox, received, fate) /\ call[t] \in Calls /\ call[t].job \in Requests
         /\ Plan(t) \in Revisions /\ DOMAIN Plan(t).cancellations \subseteq DOMAIN book
         /\ revocations[call[t].job] \in Revisions /\ RecoveryFits(call[t], revocations[call[t].job], book, pointers)
         /\ RevisionFits(revocations[call[t].job], book, pointers, registry)
         /\ Continues(Plan(t), revocations[call[t].job])
         /\ Current(t) => RevisionFits(Plan(t), book, pointers, registry)
<1>1. CallFits(call[t], book, outbox, received, fate) /\ call[t] \in Calls
  BY DEF Inv, CallInv, CallsFit, CallFits
<1>2. call[t].job \in Requests /\ Plan(t) \in Revisions /\ DOMAIN Plan(t).cancellations \subseteq DOMAIN book
  BY <1>1 DEF CallFits, Calls, Plan
<1>3. RecoveryFits(call[t], revocations[call[t].job], book, pointers)
  BY <1>2 DEF Inv, CleanInv
<1>4. revocations[call[t].job] # None /\ Continues(Plan(t), revocations[call[t].job])
  BY <1>3 DEF RecoveryFits, Plan
<1>5. revocations[call[t].job] \in Revisions /\ RevisionFits(revocations[call[t].job], book, pointers, registry)
  BY <1>2, <1>4 DEF Inv, CallInv, RevocationsFit, CleanInv
<1> QED BY <1>1, <1>2, <1>3, <1>4, <1>5 DEF Current

\* A step of a recovery that leaves the promotions alone.
LEMMA QuietRecovery ==
  ASSUME Inv, NoPromotionStep
  PROVE  StateStep /\ book' = book /\ opened' = opened /\ pointers' = pointers /\ registry' = registry
         /\ outbox' = outbox /\ received' = received /\ fate' = fate
<1>1. UNCHANGED <<projection, journal, fate, host>>
  BY DEF NoPromotionStep
<1>2. opened' = opened /\ pointers' = pointers /\ registry' = registry /\ outbox' = outbox
      /\ received' = received /\ fate' = fate
  BY <1>1 DEF projection, journal
<1> QED BY <1>1, <1>2, QuietStep DEF Inv

\* A recovery that gives up, with the reason in its record.
LEMMA FailKeeps ==
  ASSUME Inv, NEW t \in Threads, call[t].at \in InRecovery, NEW e \in Errors, Fail(t, e),
         NoPromotionStep, cancels' = cancels
  PROVE  Inv'
<1>1. call[t].job # None
  BY DEF Inv, CallInv, CallsFit, CallFits
<1>2. Plan(t) \in Revisions /\ (Current(t) => RevisionFits(Plan(t), book, pointers, registry))
  BY <1>1, PlanParts
<1>3. StateStep /\ book' = book /\ opened' = opened /\ pointers' = pointers /\ registry' = registry
  BY QuietRecovery
<1>4. PICK w, record : w = Plan(t) /\ record = [w EXCEPT !.error = e]
  OBVIOUS
<1>5. /\ record \in Revisions /\ record.affected = w.affected /\ record.cancellations = w.cancellations
      /\ record.restores = w.restores /\ record.status = w.status
  BY <1>2, <1>4, ErrorParts
<1>6. Current(t) => Advances(Plan(t), record) /\ RevisionFits(record, book', pointers', registry')
  BY <1>2, <1>3, <1>4, <1>5, ErrorFits, RevocationAssumption
<1>7. PICK x \in Calls : x = Idle
  BY IdleParts
<1>8. Update(t, record, x) /\ x.at = "idle" /\ x.job = None /\ x.done = {}
  BY <1>4, <1>7, IdleParts DEF Fail
<1> QED BY <1>3, <1>5, <1>6, <1>8, UpdateKeeps

\* A recovery takes up the record as it is.
LEMMA StartKeeps ==
  ASSUME Inv, NEW t \in Threads, NEW r \in Requests, StartRecovery(t, r)
  PROVE  Inv'
<1>1. PICK c, w, d : c = call[t] /\ w = revocations[r] /\ d = call'[t]
  OBVIOUS
<1>2. /\ c.at = "idle" /\ c.done = {} /\ c \in Calls /\ DOMAIN call = Threads /\ w # None
      /\ w \in Revisions /\ DOMAIN w.cancellations \subseteq DOMAIN book
      /\ revocations \in [Requests -> Revisions \cup {None}]
  BY <1>1 DEF StartRecovery, At, Inv, CallInv, CallsFit, CallFits, RevocationsFit
<1>3. NoPromotionStep /\ cancels' = cancels /\ revocations' = revocations
      /\ call' = [call EXCEPT ![t].at = "recover", ![t].job = r, ![t].revision = w]
  BY <1>1 DEF StartRecovery
<1>4. StateStep /\ book' = book /\ opened' = opened /\ pointers' = pointers
  BY <1>3, QuietRecovery
<1>5. PICK c1, c2 : c1 = [c EXCEPT !.at = "recover"] /\ c2 = [c1 EXCEPT !.job = r]
  OBVIOUS
<1>6. d = [c2 EXCEPT !.revision = w] /\ call' = [call EXCEPT ![t] = d]
  BY <1>1, <1>2, <1>3, <1>5
<1>7. c1 \in Calls /\ c1.at = "recover" /\ c1.done = {}
  BY <1>2, <1>5 DEF Calls, InRecovery
<1>8. c2 \in Calls /\ c2.at = "recover" /\ c2.done = {} /\ c2.job = r
  BY <1>5, <1>7 DEF Calls
<1>9. d \in Calls /\ d.at = "recover" /\ d.done = {} /\ d.job = r /\ d.revision = w
  BY <1>2, <1>6, <1>8 DEF Calls
<1>10. r # None
  BY RevocationAssumption
<1>11. CallFits(d, book', outbox', received', fate')
  BY <1>2, <1>4, <1>9, <1>10 DEF CallFits, InService, InRecovery, Answered
<1>12. RecoveryFits(d, w, book', pointers')
  BY <1>2, <1>9 DEF RecoveryFits, Continues, InService, Answered
<1>13. Others(t) /\ RecordsGo
  BY <1>2, <1>3, <1>4, <1>6, RecordsStay DEF Others
<1>14. \A s \in Requests, p \in Pointers : RestoreId[s][p] \in DOMAIN book' => RestoreId[s][p] \in DOMAIN book
  BY <1>4
<1>15. CallFits(call'[t], book', outbox', received', fate')
       /\ RecoveryFits(call'[t], revocations'[call'[t].job], book', pointers')
  BY <1>1, <1>3, <1>9, <1>11, <1>12
<1> QED BY <1>1, <1>2, <1>3, <1>4, <1>9, <1>13, <1>14, <1>15, ResumesKeep

\* The cancellation in hand is one that is open.
LEMMA InHandParts ==
  ASSUME Inv, NEW t \in Threads, call[t].job # None, Open(t) # {}
  PROVE  /\ InHand(t) \in DOMAIN Plan(t).cancellations /\ Plan(t).cancellations[InHand(t)] \notin Over
         /\ InHand(t) \in DOMAIN book /\ InHand(t) \in Ids
<1>1. promotions \in Seq(PromotionRecords) /\ Distinct(promotions)
      /\ Open(t) \subseteq DOMAIN book
  BY PlanParts DEF Inv, StateInv, Open
<1> DEFINE S == {i \in 1..Len(promotions) : promotions[i].id \in Open(t)}
           first == IF S # {} THEN Min(S) ELSE 0
<1>2. InHand(t) = promotions[first].id
  BY DEF InHand, SelectInSeq
<1>3. S # {}
  <2>1. PICK id \in Open(t) : id \in DOMAIN book
    BY <1>1
  <2>2. PICK i \in DOMAIN promotions : promotions[i].id = id
    BY <1>1, <2>1, BookParts DEF book
  <2>3. i \in 1..Len(promotions)
    BY <1>1, <2>2, LenProperties
  <2> QED BY <2>1, <2>2, <2>3
<1>4. Min(S) \in S
  BY <1>1, <1>3, Selected
<1>5. InHand(t) \in Open(t)
  BY <1>2, <1>3, <1>4
<1>6. InHand(t) \in Ids
  BY <1>1, <1>5, EffectIs DEF PromotionRecords, Inv
<1> QED BY <1>1, <1>5, <1>6 DEF Open, Over

\* The plan says what has become of one cancellation.
LEMMA StatusKeeps ==
  ASSUME Inv, NEW t \in Threads, call[t].at \in InRecovery, NEW id \in DOMAIN Plan(t).cancellations,
         NEW s \in {"requested", "observed", "settled"}, NEW record,
         Stands(Plan(t), record, id, s),
         Plan(t).cancellations[id] \notin Over, StateStep, opened' = opened, DOMAIN book' = DOMAIN book,
         ~Current(t) => book' = book,
         Current(t) /\ s = "settled" => book'[id].status \notin {"promoted", "pending"},
         NEW x \in Calls, Update(t, record, x),
         \/ x.at = "idle" /\ x.job = None /\ x.done = {}
         \/ /\ x.at \in {"recover", "cancelling"} /\ x.job = call[t].job /\ x.done = call[t].done
            /\ x.at = "cancelling" => s = "requested" /\ x.id = id
  PROVE  /\ StateInv' /\ CallInv' /\ CleanInv'
         /\ cancels' = cancels /\ x.at # "cancelling" => Inv'
<1>1. call[t].job # None
  BY DEF Inv, CallInv, CallsFit, CallFits
<1>2. /\ Plan(t) \in Revisions /\ DOMAIN Plan(t).cancellations \subseteq DOMAIN book
      /\ (Current(t) => RevisionFits(Plan(t), book, pointers, registry))
  BY <1>1, PlanParts
<1>3. PICK w : w = Plan(t)
  OBVIOUS
<1>4. record \in Revisions /\ Advances(w, record)
  BY <1>3, StandsAdvances DEF Stands, Over
<1>5. Moves(book, pointers, registry, book', pointers', registry')
  BY DEF StateStep
<1>6. ASSUME Current(t) PROVE RevisionFits(record, book', pointers', registry')
  <2>1. RevisionFits(w, book', pointers', registry')
    BY <1>2, <1>3, <1>5, <1>6, RevisionKept
  <2>2. w.cancellations[id] # "not-executed"
    BY <1>3 DEF Over
  <2>3. id \in DOMAIN book' /\ book'[id].asset \in w.affected /\ book'[id].status \in {"promoted", "pending"} => s \notin Over
    BY <1>6 DEF Over
  <2>4. Stands(w, record, id, s) /\ id \in DOMAIN w.cancellations
    BY <1>3
  <2> QED BY <2>1, <2>2, <2>3, <2>4, StandsFits
<1>7. id \in DOMAIN record.cancellations /\ record.cancellations[id] = s
  BY DEF Stands
<1> QED BY <1>3, <1>4, <1>6, <1>7, UpdateKeeps

\* What is asked of the host is recorded first.
LEMMA RequestKeeps ==
  ASSUME Inv, NEW t \in Threads, RequestCancel(t)
  PROVE  Inv'
<1>1. call[t].at = "recover" /\ call[t].at \in InRecovery /\ Open(t) # {} /\ call[t].job # None
      /\ Plan(t).cancellations[InHand(t)] = "needed" /\ NoPromotionStep /\ cancels' = cancels
  BY DEF RequestCancel, At, InRecovery, Inv, CallInv, CallsFit, CallFits
<1>2. StateStep /\ book' = book /\ opened' = opened
  BY <1>1, QuietRecovery
<1>3. CASE Fail(t, "denied")
  BY <1>1, <1>3, FailKeeps DEF Errors
<1>4. CASE Update(t, CancelStatus(t, InHand(t), "requested"),
                  [Resting(t) EXCEPT !.at = "cancelling", !.id = InHand(t)])
  <2>1. PICK id, r : id = InHand(t) /\ r = call[t].job
    OBVIOUS
  <2>2. /\ id \in DOMAIN Plan(t).cancellations /\ Plan(t).cancellations[id] = "needed" /\ id \in Ids
        /\ Plan(t) \in Revisions /\ r \in Requests /\ call[t] \in Calls
    BY <1>1, <2>1, InHandParts, PlanParts
  <2>3. PICK record : record = CancelStatus(t, id, "requested")
    OBVIOUS
  <2>4. Stands(Plan(t), record, id, "requested")
    <3>1. PICK w \in Revisions : w = Plan(t)
      BY <2>2
    <3>2. PICK s \in CancelStates : s = "requested"
      BY DEF CancelStates
    <3> QED BY <2>2, <2>3, <3>1, <3>2, StandsParts DEF CancelStatus
  <2>5. PICK y, x : y = [Resting(t) EXCEPT !.at = "cancelling"] /\ x = [y EXCEPT !.id = id]
    OBVIOUS
  <2>6. /\ Resting(t) \in Calls /\ Resting(t).at = "recover" /\ Resting(t).job = r /\ Resting(t).done = call[t].done
    BY <2>1, <2>2, RestingParts
  <2>7. y \in Calls /\ y.at = "cancelling" /\ y.job = r /\ y.done = call[t].done
    <3>1. PICK z \in Calls : z = Resting(t)
      BY <2>6
    <3>2. y = [z EXCEPT !.at = "cancelling"]
      BY <2>5, <3>1
    <3>3. y \in Calls /\ y.at = "cancelling" /\ y.job = z.job /\ y.done = z.done
      BY <3>2 DEF Calls, InRecovery
    <3> QED BY <2>6, <3>1, <3>3
  <2>8. x \in Calls /\ x.at = "cancelling" /\ x.job = r /\ x.done = call[t].done /\ x.id = id
    BY <2>2, <2>5, <2>7 DEF Calls
  <2>9. Update(t, record, x)
    BY <1>4, <2>1, <2>3, <2>5
  <2>10. StateInv' /\ CallInv' /\ CleanInv'
    <3>1. PICK s \in {"requested", "observed", "settled"} : s = "requested"
      OBVIOUS
    <3>2. Plan(t).cancellations[id] \notin Over
      BY <2>2 DEF Over
    <3> QED BY <1>1, <1>2, <2>1, <2>2, <2>4, <2>8, <2>9, <3>1, <3>2, StatusKeeps
  <2>11. CancelInv'
    <3>1. CancelInv /\ DOMAIN call = Threads /\ revocations \in [Requests -> Revisions \cup {None}]
      BY DEF Inv, CallInv, CallsFit, RevocationsFit
    <3>2. CASE ~Current(t)
      <4>1. revocations' = revocations /\ call' = [call EXCEPT ![t] = Idle]
        BY <2>9, <3>2 DEF Update
      <4>2. \A u \in Threads : call'[u].at = "cancelling" =>
              call[u].at = "cancelling" /\ call'[u].job = call[u].job /\ call'[u].id = call[u].id
        BY <3>1, <4>1, IdleParts
      <4> QED BY <1>1, <3>1, <4>1, <4>2, RecordsStay, CancelKept
    <3>3. CASE Current(t)
      <4>1. revocations[r] = Plan(t)
        BY <2>1, <3>3 DEF Current
      <4>2. PICK d, g : d = [x EXCEPT !.revision = record, !.fresh = FALSE] /\ g = Outdated(call)
        OBVIOUS
      <4>3. revocations' = [revocations EXCEPT ![r] = record] /\ call' = [g EXCEPT ![t] = d]
        BY <2>1, <2>9, <3>3, <4>2 DEF Update
      <4>4. d.at = "cancelling" /\ d.job = r /\ d.id = id
        <5>1. PICK e : e = [x EXCEPT !.revision = record]
          OBVIOUS
        <5>2. e \in Calls /\ e.at = x.at /\ e.job = x.job /\ e.id = x.id
          BY <2>4, <2>8, <5>1 DEF Calls, Stands
        <5>3. d = [e EXCEPT !.fresh = FALSE]
          BY <4>2, <5>1
        <5>4. d.at = e.at /\ d.job = e.job /\ d.id = e.id
          BY <5>2, <5>3 DEF Calls
        <5> QED BY <2>8, <5>2, <5>4
      <4>5. call'[t] = d /\ \A u \in Threads \ {t} :
              call'[u].at = call[u].at /\ call'[u].job = call[u].job /\ call'[u].id = call[u].id
        <5>1. DOMAIN g = Threads /\ \A u \in Threads : g[u] = [call[u] EXCEPT !.fresh = FALSE]
          BY <4>2 DEF Outdated
        <5>2. ASSUME NEW u \in Threads \ {t}
              PROVE  call'[u].at = call[u].at /\ call'[u].job = call[u].job /\ call'[u].id = call[u].id
          <6>1. PICK c \in Calls : c = call[u]
            BY DEF Inv, CallInv, CallsFit, CallFits
          <6>2. call'[u] = [c EXCEPT !.fresh = FALSE]
            BY <4>3, <5>1, <6>1
          <6>3. call'[u].at = c.at /\ call'[u].job = c.job /\ call'[u].id = c.id
            BY <6>2 DEF Calls
          <6> QED BY <6>1, <6>3
        <5> QED BY <4>3, <5>1, <5>2
      <4>6. /\ ~IsRecorded(r, id) /\ AskedFor(r, id) = 0
            /\ \A u \in Threads : ~Sending(u, r, id)
        <5>1. ~IsRecorded(r, id)
          BY <2>2, <4>1 DEF IsRecorded
        <5>2. AskedFor(r, id) \in Nat
          BY <2>2, <3>1 DEF CancelInv, AskedFor
        <5> QED BY <2>2, <3>1, <5>1, <5>2 DEF CancelInv
      <4>7. revocations'[r] = record /\ \A s \in Requests \ {r} : revocations'[s] = revocations[s]
        BY <2>2, <3>1, <4>3
      <4>8. IsRecorded(r, id)'
        BY <2>2, <2>4, <4>7, RevocationAssumption DEF IsRecorded, Stands
      <4>9. \A s \in Requests, i \in Ids : IsRecorded(s, i) => IsRecorded(s, i)'
        BY <2>2, <2>4, <4>1, <4>7, RevocationAssumption DEF IsRecorded, Stands
      <4>10. \A s \in Requests, i \in Ids : AskedFor(s, i)' = AskedFor(s, i)
        BY <1>1 DEF AskedFor
      <4>11. \A u \in Threads, s \in Requests, i \in Ids :
               Sending(u, s, i)' => Sending(u, s, i) \/ (u = t /\ s = r /\ i = id)
        BY <4>4, <4>5 DEF Sending, At
      <4>12. ASSUME NEW s \in Requests, NEW i \in Ids
             PROVE  /\ AskedFor(s, i)' <= 1 /\ (AskedFor(s, i)' = 1 => IsRecorded(s, i)')
                    /\ \A u \in Threads : Sending(u, s, i)' =>
                         /\ AskedFor(s, i)' = 0 /\ IsRecorded(s, i)'
                         /\ \A v \in Threads : Sending(v, s, i)' => v = u
        <5>1. CASE s = r /\ i = id
          BY <4>6, <4>8, <4>10, <4>11, <5>1
        <5>2. CASE ~(s = r /\ i = id)
          <6>1. \A u \in Threads : Sending(u, s, i)' => Sending(u, s, i)
            BY <4>11, <5>2
          <6> QED BY <3>1, <4>9, <4>10, <6>1 DEF CancelInv
        <5> QED BY <5>1, <5>2
      <4>13. DOMAIN cancels' = Requests /\ \A s \in Requests :
               DOMAIN cancels'[s] \subseteq Ids /\ cancels'[s] \in [DOMAIN cancels'[s] -> Nat]
        BY <1>1, <3>1 DEF CancelInv
      <4> QED BY <4>12, <4>13 DEF CancelInv
    <3> QED BY <3>2, <3>3
  <2> QED BY <2>10, <2>11 DEF Inv
<1> QED BY <1>3, <1>4 DEF RequestCancel

\* A step of a recovery that only goes on to another place.
LEMMA QuietKeeps ==
  ASSUME Inv, NEW t \in Threads, NoPromotionStep, revocations' = revocations,
         NEW d, call' = [call EXCEPT ![t] = d], CallFits(d, book, outbox, received, fate),
         RecoveryFits(d, revocations[d.job], book, pointers)
  PROVE  /\ StateInv' /\ CallInv' /\ CleanInv' /\ call'[t] = d
         /\ \A u \in Threads \ {t} : call'[u] = call[u]
         /\ cancels' = cancels /\ d.at # "cancelling" => Inv'
<1>1. /\ StateStep /\ book' = book /\ opened' = opened /\ pointers' = pointers /\ registry' = registry
      /\ outbox' = outbox /\ received' = received /\ fate' = fate
  BY QuietRecovery
<1>2. DOMAIN call = Threads /\ revocations \in [Requests -> Revisions \cup {None}]
  BY DEF Inv, CallInv, CallsFit, RevocationsFit
<1>3. call'[t] = d /\ \A u \in Threads \ {t} : call'[u] = call[u]
  BY <1>2
<1>4. Others(t) /\ RecordsGo
  BY <1>1, <1>2, <1>3, RecordsStay DEF Others
<1>5. CallFits(call'[t], book', outbox', received', fate')
      /\ RecoveryFits(call'[t], revocations'[call'[t].job], book', pointers')
  BY <1>1, <1>3
<1>6. \A r \in Requests, p \in Pointers : RestoreId[r][p] \in DOMAIN book' => RestoreId[r][p] \in DOMAIN book
  BY <1>1
<1>7. /\ StateInv' /\ CallInv' /\ CleanInv'
      /\ cancels' = cancels /\ (call'[t].at = "cancelling" => call'[t] = call[t]) => Inv'
  BY <1>1, <1>2, <1>4, <1>5, <1>6, ResumesKeep
<1> QED BY <1>3, <1>7

\* The host is asked, once: what was recorded is not recorded by another recovery.
LEMMA AskKeeps ==
  ASSUME Inv, NEW t \in Threads, CancelOnHost(t)
  PROVE  Inv'
<1>1. PICK c, r, id : c = call[t] /\ r = c.job /\ id = c.id
  OBVIOUS
<1>2. c.at = "cancelling" /\ NoPromotionStep /\ revocations' = revocations /\ DOMAIN call = Threads
      /\ call' = [call EXCEPT ![t].at = "cancelled"]
  BY <1>1 DEF CancelOnHost, At, Goto, Inv, CallInv, CallsFit
<1>3. c.job # None
  BY <1>1, <1>2 DEF Inv, CallInv, CallsFit, CallFits, InRecovery
<1>4. /\ CallFits(c, book, outbox, received, fate) /\ c \in Calls /\ r \in Requests
      /\ RecoveryFits(c, revocations[r], book, pointers)
  BY <1>1, <1>3, PlanParts
<1>5. id \in DOMAIN book /\ id \in Ids
  <2>1. id \in DOMAIN book
    BY <1>1, <1>2, <1>4 DEF CallFits, InRecovery
  <2> QED BY <2>1, EffectIs DEF Inv, PromotionRecords
<1>6. PICK d : d = [c EXCEPT !.at = "cancelled"]
  OBVIOUS
<1>7. call' = [call EXCEPT ![t] = d]
  BY <1>1, <1>2, <1>6
<1>8. /\ d \in Calls /\ d.at = "cancelled" /\ d.id = id /\ d.job = r /\ d.revision = c.revision /\ d.done = c.done
  <2>1. PICK p \in Places : p = "cancelled"
    BY DEF Places, InRecovery
  <2> QED BY <1>1, <1>4, <1>6, <2>1, PlaceParts
<1>9. CallFits(d, book, outbox, received, fate)
  BY <1>1, <1>2, <1>3, <1>4, <1>5, <1>8 DEF CallFits, InService, InRecovery, Answered
<1>10. RecoveryFits(d, revocations[d.job], book, pointers)
  BY <1>1, <1>4, <1>8 DEF RecoveryFits, InService, Answered
<1>11. /\ StateInv' /\ CallInv' /\ CleanInv' /\ call'[t] = d
       /\ \A u \in Threads \ {t} : call'[u] = call[u]
  BY <1>2, <1>7, <1>9, <1>10, QuietKeeps
<1>12. CancelInv'
  <2>1. CancelInv
    BY DEF Inv
  <2>2. PICK g : g = cancels[r]
    OBVIOUS
  <2>3. DOMAIN g \subseteq Ids /\ g \in [DOMAIN g -> Nat] /\ r \in DOMAIN cancels
    BY <1>4, <2>1, <2>2 DEF CancelInv
  <2>4. PICK h : h = [i \in DOMAIN g \cup {id} |->
                       (IF i \in DOMAIN g THEN g[i] ELSE 0) + (IF i = id THEN 1 ELSE 0)]
    OBVIOUS
  <2>5. cancels' = [cancels EXCEPT ![r] = h]
    BY <1>1, <2>2, <2>4 DEF CancelOnHost
  <2>6. cancels'[r] = h /\ \A s \in Requests \ {r} : cancels'[s] = cancels[s]
    BY <1>4, <2>1, <2>5 DEF CancelInv
  <2>7. /\ DOMAIN h = DOMAIN g \cup {id}
        /\ \A i \in DOMAIN h : h[i] = (IF i \in DOMAIN g THEN g[i] ELSE 0) + (IF i = id THEN 1 ELSE 0)
    BY <2>4
  <2>8. DOMAIN h \subseteq Ids /\ h \in [DOMAIN h -> Nat]
    <3>1. \A i \in DOMAIN h : h[i] \in Nat
      BY <2>3, <2>7
    <3> QED BY <1>5, <2>3, <2>4, <2>7, <3>1
  <2>9. Sending(t, r, id)
    BY <1>1, <1>2 DEF Sending, At
  <2>10. /\ AskedFor(r, id) = 0 /\ IsRecorded(r, id)
         /\ \A u \in Threads : Sending(u, r, id) => u = t
    BY <1>4, <1>5, <2>1, <2>9 DEF CancelInv
  <2>11. \A s \in Requests, i \in Ids : IsRecorded(s, i)' <=> IsRecorded(s, i)
    BY <1>2 DEF IsRecorded
  <2>12. \A u \in Threads, s \in Requests, i \in Ids :
           Sending(u, s, i)' => u # t /\ Sending(u, s, i)
    BY <1>8, <1>11 DEF Sending, At
  <2>13. ASSUME NEW s \in Requests, NEW i \in Ids
         PROVE  /\ AskedFor(s, i)' <= 1 /\ (AskedFor(s, i)' = 1 => IsRecorded(s, i)')
                /\ \A u \in Threads : Sending(u, s, i)' =>
                     /\ AskedFor(s, i)' = 0 /\ IsRecorded(s, i)'
                     /\ \A v \in Threads : Sending(v, s, i)' => v = u
    <3>1. CASE s = r /\ i = id
      <4>1. AskedFor(s, i)' = 1
        BY <2>2, <2>6, <2>7, <2>10, <3>1 DEF AskedFor
      <4>2. \A u \in Threads : ~Sending(u, s, i)'
        BY <2>10, <2>12, <3>1
      <4> QED BY <2>10, <2>11, <3>1, <4>1, <4>2
    <3>2. CASE ~(s = r /\ i = id)
      <4>1. AskedFor(s, i)' = AskedFor(s, i)
        <5>1. CASE s = r
          <6>1. i # id
            BY <3>2, <5>1
          <6>2. i \in DOMAIN h => h[i] = g[i]
            BY <2>3, <2>7, <6>1
          <6> QED BY <2>2, <2>6, <2>7, <5>1, <6>1, <6>2 DEF AskedFor
        <5>2. CASE s # r
          BY <2>6, <5>2 DEF AskedFor
        <5> QED BY <5>1, <5>2
      <4> QED BY <2>1, <2>11, <2>12, <4>1 DEF CancelInv
    <3> QED BY <3>1, <3>2
  <2>14. DOMAIN cancels' = Requests /\ \A s \in Requests :
           DOMAIN cancels'[s] \subseteq Ids /\ cancels'[s] \in [DOMAIN cancels'[s] -> Nat]
    BY <2>1, <2>5, <2>6, <2>8 DEF CancelInv
  <2> QED BY <2>13, <2>14 DEF CancelInv
<1> QED BY <1>11, <1>12 DEF Inv

\* An acknowledgement is recorded as such.
LEMMA AnswerKeeps ==
  ASSUME Inv, NEW t \in Threads, CancelAnswered(t)
  PROVE  Inv'
<1>1. call[t].at = "cancelled" /\ call[t].at \in InRecovery /\ NoPromotionStep /\ cancels' = cancels
  BY DEF CancelAnswered, At, InRecovery
<1>2. call[t].job # None
  BY <1>1 DEF Inv, CallInv, CallsFit, CallFits
<1>3. StateStep /\ book' = book /\ opened' = opened
  BY <1>1, QuietRecovery
<1>4. CASE Fail(t, "cancel")
  BY <1>1, <1>4, FailKeeps DEF Errors
<1>5. CASE Update(t, CancelStatus(t, call[t].id, "observed"), Resting(t))
  <2>1. PICK id : id = call[t].id
    OBVIOUS
  <2>2. /\ id \in DOMAIN Plan(t).cancellations /\ Plan(t).cancellations[id] \notin Over
        /\ Plan(t) \in Revisions /\ call[t] \in Calls
    <3>1. CallFits(call[t], book, outbox, received, fate) /\ Plan(t) \in Revisions /\ call[t] \in Calls
      BY <1>2, PlanParts
    <3> QED BY <1>1, <2>1, <3>1 DEF CallFits, Plan, Over
  <2>3. PICK record : record = CancelStatus(t, id, "observed")
    OBVIOUS
  <2>4. Stands(Plan(t), record, id, "observed")
    <3>1. PICK w \in Revisions : w = Plan(t)
      BY <2>2
    <3>2. PICK s \in CancelStates : s = "observed"
      BY DEF CancelStates
    <3> QED BY <2>2, <2>3, <3>1, <3>2, StandsParts DEF CancelStatus
  <2>5. PICK x : x = Resting(t)
    OBVIOUS
  <2>6. x \in Calls /\ x.at = "recover" /\ x.job = call[t].job /\ x.done = call[t].done
    BY <2>2, <2>5, RestingParts
  <2>7. Update(t, record, x)
    BY <1>5, <2>1, <2>3, <2>5
  <2>8. PICK s \in {"requested", "observed", "settled"} : s = "observed"
    OBVIOUS
  <2> QED BY <1>1, <1>3, <2>2, <2>4, <2>6, <2>7, <2>8, StatusKeeps
<1> QED BY <1>4, <1>5 DEF CancelAnswered

\* A recovery that goes on with its plan, and with what it has done.
LEMMA RestingFits ==
  ASSUME Inv, NEW t \in Threads, call[t].job # None, NEW e \in SUBSET Pointers,
         NEW d, d = [Resting(t) EXCEPT !.revision = Plan(t), !.done = e],
         \A p \in e \ call[t].done :
           /\ NoneOpen(book, revocations[call[t].job].affected)
           /\ pointers[p].active \notin revocations[call[t].job].affected
  PROVE  /\ d \in Calls /\ d.at = "recover" /\ CallFits(d, book, outbox, received, fate)
         /\ RecoveryFits(d, revocations[d.job], book, pointers)
<1>1. PICK c, j, w : c = call[t] /\ j = c.job /\ w = Plan(t)
  OBVIOUS
<1>2. /\ c \in Calls /\ j \in Requests /\ w \in Revisions /\ DOMAIN w.cancellations \subseteq DOMAIN book
      /\ RecoveryFits(c, revocations[j], book, pointers) /\ c.revision = w
  BY <1>1, PlanParts DEF Plan
<1>3. Resting(t) \in Calls /\ Resting(t).at = "recover" /\ Resting(t).job = j
  BY <1>1, <1>2, RestingParts
<1>4. PICK x \in Calls : x = Resting(t)
  BY <1>3
<1>5. PICK y : y = [x EXCEPT !.revision = w]
  OBVIOUS
<1>6. y \in Calls /\ y.at = "recover" /\ y.job = j /\ y.revision = w
  BY <1>2, <1>3, <1>4, <1>5 DEF Calls
<1>7. d = [y EXCEPT !.done = e]
  BY <1>1, <1>4, <1>5
<1>8. d \in Calls /\ d.at = "recover" /\ d.job = j /\ d.revision = w /\ d.done = e
  BY <1>6, <1>7 DEF Calls
<1>9. CallFits(d, book, outbox, received, fate)
  BY <1>1, <1>2, <1>8 DEF CallFits, InService, InRecovery, Answered
<1>10. RecoveryFits(d, revocations[d.job], book, pointers)
  BY <1>1, <1>2, <1>8 DEF RecoveryFits, InService, Answered
<1> QED BY <1>8, <1>9, <1>10

\* What is settled already is recorded; for the rest the host is asked, or its receipt settled.
LEMMA SettleKeeps ==
  ASSUME Inv, NEW t \in Threads, SettleCancellation(t)
  PROVE  Inv'
<1>1. /\ call[t].at = "recover" /\ call[t].at \in InRecovery /\ NoPromotionStep /\ cancels' = cancels
      /\ Open(t) # {} /\ Plan(t).cancellations[InHand(t)] # "needed"
  BY DEF SettleCancellation, At, InRecovery
<1>2. call[t].job # None
  BY <1>1 DEF Inv, CallInv, CallsFit, CallFits
<1>3. StateStep /\ book' = book /\ opened' = opened
  BY <1>1, QuietRecovery
<1>4. PICK id, c : id = InHand(t) /\ c = call[t]
  OBVIOUS
<1>5. /\ id \in DOMAIN Plan(t).cancellations /\ Plan(t).cancellations[id] \notin Over
      /\ id \in DOMAIN book /\ id \in Ids
  BY <1>1, <1>2, <1>4, InHandParts
<1>6. /\ Plan(t) \in Revisions /\ c \in Calls /\ c.job \in Requests
      /\ CallFits(c, book, outbox, received, fate) /\ RecoveryFits(c, revocations[c.job], book, pointers)
      /\ (Current(t) => RevisionFits(Plan(t), book, pointers, registry))
  BY <1>2, <1>4, PlanParts
<1>7. Record(id) = book[id] /\ EffectFits(book[id], outbox[id], received[id], fate[id])
      /\ received[id] \in Outcomes \cup {None}
  BY <1>5, Records, EffectIs DEF Inv
<1>8. CASE /\ Record(id).status # "pending"
           /\ Update(t, [CancelStatus(t, id, "settled") EXCEPT !.error = None], Resting(t))
  <2>1. PICK record : record = [CancelStatus(t, id, "settled") EXCEPT !.error = None]
    OBVIOUS
  <2>2. Stands(Plan(t), record, id, "settled")
    <3>1. PICK w \in Revisions : w = Plan(t)
      BY <1>6
    <3>2. PICK s \in CancelStates : s = "settled"
      BY DEF CancelStates
    <3> QED BY <1>5, <2>1, <3>1, <3>2, StandsParts DEF CancelStatus
  <2>3. Current(t) => book'[id].status \notin {"promoted", "pending"}
    <3>1. Current(t) => book[id].effect
      BY <1>5, <1>6 DEF RevisionFits, Over
    <3> QED BY <1>3, <1>7, <1>8, <3>1 DEF EffectFits
  <2>4. PICK x : x = Resting(t)
    OBVIOUS
  <2>5. x \in Calls /\ x.at = "recover" /\ x.job = call[t].job /\ x.done = call[t].done
    BY <1>4, <1>6, <2>4, RestingParts
  <2>6. Update(t, record, x)
    BY <1>8, <2>1, <2>4
  <2>7. PICK s \in {"requested", "observed", "settled"} : s = "settled"
    OBVIOUS
  <2> QED BY <1>1, <1>3, <1>5, <2>2, <2>3, <2>5, <2>6, <2>7, StatusKeeps
<1>9. CASE /\ call' = [call EXCEPT ![t].id = id, ![t].receipt = received[id],
                         ![t].at = IF received[id] = None THEN "querying" ELSE "settle"]
           /\ revocations' = revocations
  <2>1. PICK v \in Outcomes \cup {"unknown", None} : v = received[id]
    BY <1>7
  <2>2. PICK p \in Places : p = IF received[id] = None THEN "querying" ELSE "settle"
    BY DEF Places, InService, InRecovery
  <2>3. PICK c1 : c1 = [c EXCEPT !.id = id]
    OBVIOUS
  <2>4. PICK c2 : c2 = [c1 EXCEPT !.receipt = v]
    OBVIOUS
  <2>5. PICK d : d = [c2 EXCEPT !.at = p]
    OBVIOUS
  <2>6. c1 \in Calls /\ c1.id = id /\ c1.job = c.job /\ c1.revision = c.revision /\ c1.done = c.done
    BY <1>5, <1>6, <2>3, IdParts
  <2>7. /\ c2 \in Calls /\ c2.id = id /\ c2.receipt = v /\ c2.job = c.job /\ c2.revision = c.revision
        /\ c2.done = c.done
    BY <2>4, <2>6, ReceiptParts
  <2>8. /\ d \in Calls /\ d.at = p /\ d.id = id /\ d.receipt = v /\ d.job = c.job
        /\ d.revision = c.revision /\ d.done = c.done
    BY <2>5, <2>7, PlaceParts
  <2>9. call' = [call EXCEPT ![t] = d]
    <3>1. DOMAIN call = Threads
      BY DEF Inv, CallInv, CallsFit
    <3> QED BY <1>4, <1>9, <2>1, <2>2, <2>3, <2>4, <2>5, <3>1
  <2>10. d.at \in {"querying", "settle"}
    BY <2>2, <2>8
  <2>11. c.revision = Plan(t)
    BY <1>4 DEF Plan
  <2>12. CallFits(d, book, outbox, received, fate)
    BY <1>2, <1>4, <1>5, <1>6, <2>1, <2>8, <2>10, <2>11 DEF CallFits, InService, InRecovery, Answered
  <2>13. RecoveryFits(d, revocations[d.job], book, pointers)
    BY <1>5, <1>6, <2>8, <2>11 DEF RecoveryFits
  <2>14. d.at # "cancelling"
    BY <2>10
  <2> QED BY <1>1, <1>9, <2>9, <2>12, <2>13, <2>14, QuietKeeps
<1> QED BY <1>4, <1>8, <1>9 DEF SettleCancellation

\* What the host says of a cancellation ends the promotion, goes to its settlement, or is unknown.
LEMMA QueriedKeeps ==
  ASSUME Inv, NEW t \in Threads, CancellationQueried(t)
  PROVE  Inv'
<1>1. /\ call[t].at = "querying" /\ call[t].at \in InRecovery /\ cancels' = cancels
      /\ UNCHANGED <<registry, opened, pointers, fate, host, world>>
  BY DEF CancellationQueried, At, InRecovery
<1>2. call[t].job # None
  BY <1>1 DEF Inv, CallInv, CallsFit, CallFits
<1>3. PICK id : id = call[t].id
  OBVIOUS
<1>4. /\ CallFits(call[t], book, outbox, received, fate) /\ Plan(t) \in Revisions /\ call[t] \in Calls
      /\ (Current(t) => RevisionFits(Plan(t), book, pointers, registry))
  BY <1>2, PlanParts
<1>5. /\ id \in DOMAIN book /\ id \in DOMAIN Plan(t).cancellations /\ Plan(t).cancellations[id] \notin Over
  BY <1>1, <1>3, <1>4 DEF CallFits, Plan, InRecovery
<1>6. Record(id) = book[id]
  BY <1>5, Records
<1>7. PICK verdict \in Verdicts(id) :
        CASE verdict = "unknown" ->
               Fail(t, "unconfirmed") /\ UNCHANGED <<promotions, journal>>
          [] verdict = "not-executed" ->
               /\ Update(t, [CancelStatus(t, id, "settled") EXCEPT !.error = None], Resting(t))
               /\ IF Current(t)
                  THEN /\ promotions' = WithRecord(id, [Record(id) EXCEPT !.status = "failed"])
                       /\ outbox' = [outbox EXCEPT ![id] = "resolved"]
                       /\ received' = [received EXCEPT ![id] = "not-executed"]
                  ELSE UNCHANGED <<promotions, journal>>
          [] OTHER -> Retain(t, id, verdict) /\ UNCHANGED <<promotions, revocations>>
  BY <1>3 DEF CancellationQueried
<1>8. CASE verdict = "unknown"
  <2>1. Fail(t, "unconfirmed") /\ UNCHANGED <<promotions, journal>>
    BY <1>7, <1>8
  <2>2. NoPromotionStep
    BY <1>1, <2>1 DEF NoPromotionStep, projection
  <2>3. PICK e \in Errors : e = "unconfirmed"
    BY DEF Errors
  <2> QED BY <1>1, <2>1, <2>2, <2>3, FailKeeps
<1>9. CASE verdict = "not-executed"
  <2>1. /\ Update(t, [CancelStatus(t, id, "settled") EXCEPT !.error = None], Resting(t))
        /\ Current(t) => /\ promotions' = WithRecord(id, [Record(id) EXCEPT !.status = "failed"])
                         /\ outbox' = [outbox EXCEPT ![id] = "resolved"]
                         /\ received' = [received EXCEPT ![id] = "not-executed"]
        /\ ~Current(t) => UNCHANGED <<promotions, journal>>
    BY <1>7, <1>9
  <2>2. fate[id] = "never"
    BY <1>9, VerdictIs
  <2>3. StateStep /\ opened' = opened /\ DOMAIN book' = DOMAIN book /\ (~Current(t) => book' = book)
        /\ (Current(t) => book'[id].status = "failed")
    <3>1. CASE Current(t)
      <4>1. promotions' = WithRecord(id, [book[id] EXCEPT !.status = "failed"])
            /\ outbox' = [outbox EXCEPT ![id] = "resolved"]
            /\ received' = [received EXCEPT ![id] = "not-executed"]
        BY <1>6, <2>1, <3>1
      <4>2. UNCHANGED <<registry, opened, pointers, fate, host>>
        BY <1>1
      <4>3. StateStep
        BY <1>5, <2>2, <4>1, <4>2, NeverStep DEF Inv
      <4>4. PICK k \in PromotionRecords : k = book[id]
        BY <1>5, EffectIs DEF Inv
      <4>5. PICK q : q = [k EXCEPT !.status = "failed"]
        OBVIOUS
      <4>6. q \in PromotionRecords /\ q.status = "failed" /\ q.id = id
        <5>1. PICK s \in Statuses : s = "failed"
          BY DEF Statuses
        <5>2. k.id = id
          BY <1>5, <4>4, EffectIs DEF Inv
        <5> QED BY <4>5, <5>1, <5>2, StatusParts
      <4>7. Same(id, book, book') /\ book'[id] = q
        <5>1. promotions' = WithRecord(id, q)
          BY <4>1, <4>4, <4>5
        <5>2. StateInv
          BY DEF Inv
        <5> QED BY <1>5, <4>6, <5>1, <5>2, Replaced
      <4> QED BY <1>1, <3>1, <4>3, <4>6, <4>7 DEF Same
    <3>2. CASE ~Current(t)
      <4>1. UNCHANGED <<promotions, journal>>
        BY <2>1, <3>2
      <4>2. NoPromotionStep
        BY <1>1, <4>1 DEF NoPromotionStep, projection
      <4> QED BY <3>2, <4>2, QuietRecovery
    <3> QED BY <3>1, <3>2
  <2>4. PICK record : record = [CancelStatus(t, id, "settled") EXCEPT !.error = None]
    OBVIOUS
  <2>5. Stands(Plan(t), record, id, "settled")
    <3>1. PICK w \in Revisions : w = Plan(t)
      BY <1>4
    <3>2. PICK s \in CancelStates : s = "settled"
      BY DEF CancelStates
    <3> QED BY <1>5, <2>4, <3>1, <3>2, StandsParts DEF CancelStatus
  <2>6. PICK x : x = Resting(t)
    OBVIOUS
  <2>7. x \in Calls /\ x.at = "recover" /\ x.job = call[t].job /\ x.done = call[t].done
    BY <1>4, <2>6, RestingParts
  <2>8. Update(t, record, x)
    BY <2>1, <2>4, <2>6
  <2>9. PICK s \in {"requested", "observed", "settled"} : s = "settled"
    OBVIOUS
  <2> QED BY <1>1, <1>5, <2>3, <2>5, <2>7, <2>8, <2>9, StatusKeeps
<1>10. CASE verdict \notin {"unknown", "not-executed"}
  <2>1. Retain(t, id, verdict) /\ UNCHANGED <<promotions, revocations>>
    BY <1>7, <1>10
  <2>2. UNCHANGED <<projection, fate, host>>
    BY <1>1, <2>1 DEF projection
  <2>3. verdict \in Verdicts(call[t].id) \ {"not-executed"} /\ Retain(t, call[t].id, verdict)
    BY <1>3, <1>10, <2>1
  <2>4. ServiceStep(t)
    BY <1>1, <2>2, <2>3, RetainingStep DEF Inv, CallInv
  <2>5. PromotionStep
    BY <2>4, ServiceSteps DEF Inv, CallInv
  <2> QED BY <1>1, <2>1, <2>5, PromotionsKeep
<1> QED BY <1>8, <1>9, <1>10

\* The recovery goes on when the promotion to cancel has ended, and gives up when it has not.
LEMMA SettledKeeps ==
  ASSUME Inv, NEW t \in Threads, CancellationSettled(t)
  PROVE  Inv'
<1>1. call[t].at \in InRecovery /\ NoPromotionStep /\ cancels' = cancels
  BY DEF CancellationSettled, InRecovery, Answered
<1>2. call[t].job # None
  BY <1>1 DEF Inv, CallInv, CallsFit, CallFits
<1>3. CASE Fail(t, "unconfirmed")
  BY <1>1, <1>3, FailKeeps DEF Errors
<1>4. CASE call' = [call EXCEPT ![t] = [Resting(t) EXCEPT !.revision = Plan(t)]] /\ revocations' = revocations
  <2>1. PICK e, x : e = call[t].done /\ x = Resting(t)
    OBVIOUS
  <2>2. call[t] \in Calls
    BY <1>2, PlanParts
  <2>3. e \in SUBSET Pointers /\ x \in Calls /\ x.done = e
    <3>1. x.done = e
      BY <2>1, <2>2, RestingParts
    <3> QED BY <2>1, <2>2, <3>1, RestingParts DEF Calls
  <2>4. PICK d : d = [x EXCEPT !.revision = Plan(t), !.done = e]
    OBVIOUS
  <2>5. d = [x EXCEPT !.revision = Plan(t)]
    BY <2>3, <2>4 DEF Calls
  <2>6. /\ d.at = "recover" /\ CallFits(d, book, outbox, received, fate)
        /\ RecoveryFits(d, revocations[d.job], book, pointers)
    BY <1>2, <2>1, <2>3, <2>4, RestingFits
  <2> QED BY <1>1, <1>4, <2>1, <2>5, <2>6, QuietKeeps
<1> QED BY <1>3, <1>4 DEF CancellationSettled

-----------------------------------------------------------------------------
(* Restores.                                                                 *)

\* A recovery restores when nothing that is affected is left open.
LEMMA NothingOpen ==
  ASSUME Inv, NEW t \in Threads, call[t].job # None, Open(t) = {}
  PROVE  /\ NoneOpen(book, revocations[call[t].job].affected)
         /\ \A a \in revocations[call[t].job].affected : registry[a].state = "revoked"
<1>1. PICK w, x : w = revocations[call[t].job] /\ x = Plan(t)
  OBVIOUS
<1>2. Continues(x, w) /\ RevisionFits(w, book, pointers, registry)
  BY <1>1, PlanParts
<1>3. \A id \in DOMAIN x.cancellations : x.cancellations[id] \in Over
  BY <1>1 DEF Open, Over
<1>4. \A id \in DOMAIN w.cancellations : w.cancellations[id] \in Over
  BY <1>2, <1>3 DEF Continues
<1> QED BY <1>1, <1>2, <1>4 DEF NoneOpen, RevisionFits

\* A pointer is restored.
LEMMA RestoredKeeps ==
  ASSUME Inv, NEW t \in Threads, call[t].job # None, NEW p \in Pointers, Restored(t, p),
         NoPromotionStep, UNCHANGED <<revocations, cancels>>,
         NoneOpen(book, revocations[call[t].job].affected),
         pointers[p].active \notin revocations[call[t].job].affected
  PROVE  Inv'
<1>1. PICK e, x : e = call[t].done /\ x = Resting(t)
  OBVIOUS
<1>2. call[t] \in Calls
  BY PlanParts
<1>3. e \in SUBSET Pointers /\ x \in Calls /\ x.done = e
  <2>1. x.done = e /\ x \in Calls
    BY <1>1, <1>2, RestingParts
  <2> QED BY <1>1, <1>2, <2>1 DEF Calls
<1>4. PICK f \in SUBSET Pointers : f = e \cup {p}
  BY <1>3
<1>5. PICK d : d = [x EXCEPT !.revision = Plan(t), !.done = f]
  OBVIOUS
<1>6. call' = [call EXCEPT ![t] = d]
  <2>1. PICK y : y = [x EXCEPT !.revision = Plan(t)]
    OBVIOUS
  <2>2. y.done = e
    BY <1>3, <2>1 DEF Calls
  <2>3. d = [y EXCEPT !.done = f] /\ call' = [call EXCEPT ![t] = [y EXCEPT !.done = @ \cup {p}]]
    BY <1>1, <1>5, <2>1 DEF Restored
  <2> QED BY <1>4, <2>2, <2>3
<1>7. \A q \in f \ call[t].done :
        /\ NoneOpen(book, revocations[call[t].job].affected)
        /\ pointers[q].active \notin revocations[call[t].job].affected
  BY <1>1, <1>4
<1>8. /\ d.at = "recover" /\ CallFits(d, book, outbox, received, fate)
      /\ RecoveryFits(d, revocations[d.job], book, pointers)
  <2>1. d = [Resting(t) EXCEPT !.revision = Plan(t), !.done = f]
    BY <1>1, <1>5
  <2> QED BY <1>7, <2>1, RestingFits
<1> QED BY <1>6, <1>8, QuietKeeps

\* A rollback that a recovery asks for is to an asset that is not affected.
LEMMA RollbackKeeps ==
  ASSUME Inv, NEW t \in Threads, call[t].job # None, Open(t) = {}, NEW p \in Pointers, NEW target,
         RestoreId[call[t].job][p] \notin PromotionIds, Restorable(target, p),
         AddRollback(RestoreId[call[t].job][p], target, p), call' = Outdated(call),
         UNCHANGED <<registry, opened, revocations, host, cancels>>
  PROVE  Inv'
<1>1. PICK r, id, w : r = call[t].job /\ id = RestoreId[r][p] /\ w = revocations[r]
  OBVIOUS
<1>2. r \in Requests /\ id \in Ids \ PromotionIds /\ w \in Revisions
      /\ revocations \in [Requests -> Revisions \cup {None}] /\ w # None /\ opened
  <2>1. r \in Requests /\ w \in Revisions
    BY <1>1, PlanParts
  <2> QED BY <1>1, <2>1, RevocationAssumption DEF Ids, Inv, CallInv, RevocationsFit
<1>3. /\ StateStep /\ DOMAIN book' = DOMAIN book \cup {id}
      /\ book'[id].pointer = p /\ book'[id].status = "promoted"
      /\ book'[id].asset \in Assets /\ registry[book'[id].asset].state # "revoked"
  <2>1. StateInv /\ AddRollback(id, target, p) /\ UNCHANGED <<registry, opened, host>>
    BY <1>1 DEF Inv
  <2> QED BY <1>2, <2>1, RollbackStep
<1>4. NoneOpen(book, w.affected) /\ \A a \in w.affected : registry[a].state = "revoked"
  BY <1>1, NothingOpen
<1>5. NoneOpen(book', w.affected)
  BY <1>3, <1>4, NoneOpenKept DEF StateStep
<1>6. RestoreFits(w, id, p, book', pointers')
  BY <1>2, <1>3, <1>4, <1>5 DEF RestoreFits
<1>7. ASSUME NEW s \in Requests, NEW q \in Pointers, RestoreId[s][q] \in DOMAIN book'
      PROVE  \/ RestoreId[s][q] \in DOMAIN book
             \/ RestoreFits(revocations'[s], RestoreId[s][q], q, book', pointers')
  <2>1. CASE RestoreId[s][q] = id
    <3>1. s = r /\ q = p
      BY <1>1, <1>2, <2>1, RevocationAssumption
    <3> QED BY <1>1, <1>6, <3>1
  <2>2. CASE RestoreId[s][q] # id
    BY <1>3, <1>7, <2>2
  <2> QED BY <2>1, <2>2
<1>8. CallsFit' /\ \A u \in Threads : Follows(call[u], call'[u])
  BY <1>3, CallsFollow DEF Inv, CallInv
<1>9. RecordsGo
  BY RecordsStay
<1>10. CleanInv'
  BY <1>3, <1>7, <1>8, <1>9, CleanKept DEF Inv
<1>11. RevocationsFit'
  BY <1>3 DEF Inv, CallInv, RevocationsFit
<1>12. CancelInv'
  <2>1. ASSUME NEW u \in Threads
        PROVE  call'[u].at = call[u].at /\ call'[u].job = call[u].job /\ call'[u].id = call[u].id
    <3>1. PICK c \in Calls : c = call[u]
      BY DEF Inv, CallInv, CallsFit, CallFits
    <3>2. call'[u] = [c EXCEPT !.fresh = FALSE]
      BY <3>1 DEF Outdated
    <3>3. call'[u].at = c.at /\ call'[u].job = c.job /\ call'[u].id = c.id
      BY <3>2 DEF Calls
    <3> QED BY <3>1, <3>3
  <2> QED BY <1>9, <2>1, CancelKept DEF Inv
<1> QED BY <1>3, <1>8, <1>10, <1>11, <1>12 DEF Inv, CallInv, StateStep

\* A pointer is restored, its rollback asked for or taken up again, or the recovery gives up.
LEMMA RestoreKeeps ==
  ASSUME Inv, NEW t \in Threads, NEW p \in Pointers, Restore(t, p)
  PROVE  Inv'
<1>1. /\ call[t].at = "recover" /\ call[t].at \in InRecovery /\ Open(t) = {}
      /\ UNCHANGED <<host, world, cancels>>
  BY DEF Restore, Restoring, At, InRecovery
<1>2. call[t].job # None
  BY <1>1 DEF Inv, CallInv, CallsFit, CallFits
<1>3. PICK id, target, w : id = RestoreId[call[t].job][p] /\ target = Plan(t).restores[p]
                           /\ w = revocations[call[t].job]
  OBVIOUS
<1>4. NoneOpen(book, w.affected) /\ \A a \in w.affected : registry[a].state = "revoked"
  BY <1>1, <1>2, <1>3, NothingOpen
<1>5. /\ CallFits(call[t], book, outbox, received, fate) /\ call[t].job \in Requests
      /\ RecoveryFits(call[t], w, book, pointers)
  BY <1>2, <1>3, PlanParts
<1>6. CASE ServedAlready(t, p) /\ Restored(t, p) /\ UNCHANGED <<projection, journal, fate, revocations>>
  <2>1. pointers[p].active \notin w.affected
    <3>1. p \in Served(Session[p])
      BY <1>6 DEF ServedAlready
    <3>2. Eligible(pointers[p].active)
      BY <3>1 DEF Served
    <3>3. registry[pointers[p].active].state = "promoted"
      BY <3>2 DEF Eligible, WithDependencies, State
    <3> QED BY <1>4, <3>3
  <2>2. NoPromotionStep
    BY <1>1, <1>6 DEF NoPromotionStep
  <2> QED BY <1>1, <1>2, <1>3, <1>4, <1>6, <2>1, <2>2, RestoredKeeps
<1>7. CASE /\ id \notin PromotionIds /\ Restorable(target, p) /\ AddRollback(id, target, p)
           /\ call' = Outdated(call) /\ UNCHANGED <<registry, opened, revocations>>
  BY <1>1, <1>2, <1>3, <1>7, RollbackKeeps
<1>8. CASE UNCHANGED <<projection, journal, fate>>
           /\ \/ id \in PromotionIds /\ Confirmed(t, id) /\ Restored(t, p) /\ UNCHANGED revocations
              \/ /\ id \in PromotionIds
                 /\ \/ Record(id).status = "promoted" /\ Activatable(id)
                    \/ Record(id).status = "pending" /\ Reconcilable(id)
                 /\ call' = [call EXCEPT ![t] = IF Record(id).status = "promoted"
                               THEN Observing(@, id) ELSE Reconciling(@, id)]
                 /\ UNCHANGED revocations
              \/ Fail(t, "restore")
  <2>1. NoPromotionStep
    BY <1>1, <1>8 DEF NoPromotionStep
  <2>2. ASSUME id \in PromotionIds, Confirmed(t, id), Restored(t, p), UNCHANGED revocations
        PROVE  Inv'
    <3>1. id \in DOMAIN book /\ book[id].status = "active"
      BY <2>2, Records DEF Confirmed
    <3>2. RestoreFits(w, id, p, book, pointers)
      BY <1>3, <1>5 DEF Inv, CleanInv
    <3>3. pointers[p].active \notin w.affected
      BY <3>1, <3>2 DEF RestoreFits
    <3> QED BY <1>1, <1>2, <1>3, <1>4, <2>1, <2>2, <3>3, RestoredKeeps
  <2>3. ASSUME id \in PromotionIds,
               \/ Record(id).status = "promoted" /\ Activatable(id)
               \/ Record(id).status = "pending" /\ Reconcilable(id),
               call' = [call EXCEPT ![t] = IF Record(id).status = "promoted"
                          THEN Observing(@, id) ELSE Reconciling(@, id)],
               UNCHANGED revocations
        PROVE  Inv'
    <3>1. PICK c, d : c = call[t] /\ d = IF Record(id).status = "promoted" THEN Observing(c, id) ELSE Reconciling(c, id)
      OBVIOUS
    <3>2. id \in DOMAIN book /\ StateInv /\ call' = [call EXCEPT ![t] = d]
      <4>1. DOMAIN call = Threads
        BY DEF Inv, CallInv, CallsFit
      <4> QED BY <2>3, <3>1, <4>1, Records DEF Inv
    <3>3. /\ CallFits(d, book, outbox, received, fate) /\ d.at \in InService
          /\ d.id = id /\ d.job = c.job /\ d.revision = c.revision /\ d.done = c.done
      <4>1. CASE Record(id).status = "promoted"
        <5>1. d = Observing(c, id) /\ Activatable(id)
          BY <2>3, <3>1, <4>1
        <5>2. CallFits(c, book, outbox, received, fate) /\ c.at \in {"idle", "recover"}
          BY <1>1, <1>5, <3>1
        <5> QED BY <3>2, <5>1, <5>2, ObservingFits DEF InService
      <4>2. CASE Record(id).status # "promoted"
        <5>1. d = Reconciling(c, id) /\ Reconcilable(id)
          BY <2>3, <3>1, <4>2
        <5>2. CallFits(c, book, outbox, received, fate) /\ c.at \in {"idle", "recover"}
          BY <1>1, <1>5, <3>1
        <5> QED BY <3>2, <5>1, <5>2, ReconcilingFits
      <4> QED BY <4>1, <4>2
    <3>4. RecoveryFits(d, revocations[d.job], book, pointers)
      BY <1>3, <1>5, <3>1, <3>3 DEF RecoveryFits
    <3>5. d.at # "cancelling"
      BY <3>3 DEF InService
    <3> QED BY <1>1, <2>1, <2>3, <3>2, <3>3, <3>4, <3>5, QuietKeeps
  <2>4. ASSUME Fail(t, "restore") PROVE Inv'
    <3>1. PICK e \in Errors : e = "restore"
      BY DEF Errors
    <3> QED BY <1>1, <2>1, <2>4, <3>1, FailKeeps
  <2> QED BY <1>8, <2>2, <2>3, <2>4
<1>9. LET known == id \in PromotionIds
      IN IF target # None /\ ServedAlready(t, p)
         THEN Restored(t, p) /\ UNCHANGED <<projection, journal, fate, revocations>>
         ELSE IF target # None /\ ~known /\ Restorable(target, p)
         THEN /\ AddRollback(id, target, p)
              /\ call' = Outdated(call) /\ UNCHANGED <<registry, opened, revocations>>
         ELSE /\ IF target # None /\ known /\ Confirmed(t, id)
                 THEN Restored(t, p) /\ UNCHANGED revocations
                 ELSE IF target # None /\ known
                         /\ IF Record(id).status = "promoted" THEN Activatable(id)
                            ELSE Record(id).status = "pending" /\ Reconcilable(id)
                 THEN /\ call' = [call EXCEPT ![t] = IF Record(id).status = "promoted"
                                    THEN Observing(@, id) ELSE Reconciling(@, id)]
                      /\ UNCHANGED revocations
                 ELSE Fail(t, "restore")
              /\ UNCHANGED <<projection, journal, fate>>
  BY <1>3 DEF Restore
<1> QED BY <1>6, <1>7, <1>8, <1>9

\* The rollback of a restore is confirmed, or the recovery gives up.
LEMMA RestoreAnsweredKeeps ==
  ASSUME Inv, NEW t \in Threads, RestoreAnswered(t)
  PROVE  Inv'
<1>1. /\ call[t].at \in Answered /\ call[t].at \in InRecovery /\ ~Cancelling(t)
      /\ NoPromotionStep /\ cancels' = cancels
  BY DEF RestoreAnswered, InRecovery, Answered
<1>2. call[t].job # None
  BY <1>1 DEF Inv, CallInv, CallsFit, CallFits
<1>3. CASE Fail(t, "restore")
  <2>1. PICK e \in Errors : e = "restore"
    BY DEF Errors
  <2> QED BY <1>1, <1>3, <2>1, FailKeeps
<1>4. CASE /\ Confirmed(t, call[t].id) /\ Restored(t, Record(call[t].id).pointer)
           /\ revocations' = revocations
  <2>1. PICK id, w : id = call[t].id /\ w = revocations[call[t].job]
    OBVIOUS
  <2>2. /\ CallFits(call[t], book, outbox, received, fate) /\ call[t].job \in Requests
        /\ RecoveryFits(call[t], w, book, pointers)
    BY <1>2, <2>1, PlanParts
  <2>3. id \in DOMAIN book /\ Record(id) = book[id]
    <3>1. id \in DOMAIN book
      BY <1>1, <2>1, <2>2 DEF CallFits, Answered, InRecovery
    <3> QED BY <3>1, Records
  <2>4. PICK p \in Pointers : id = RestoreId[call[t].job][p]
    BY <1>1, <1>2, <2>1, <2>2 DEF RecoveryFits, Cancelling, Plan
  <2>5. RestoreFits(w, id, p, book, pointers)
    BY <2>1, <2>2, <2>4 DEF Inv, CleanInv
  <2>6. NoneOpen(book, w.affected) /\ book[id].pointer = p /\ pointers[p].active \notin w.affected
    BY <1>4, <2>1, <2>3, <2>5 DEF RestoreFits, Confirmed
  <2>7. Restored(t, p)
    BY <1>4, <2>1, <2>3, <2>6
  <2> QED BY <1>1, <1>2, <1>4, <2>1, <2>6, <2>7, RestoredKeeps
<1> QED BY <1>3, <1>4 DEF RestoreAnswered

\* A revocation is complete when nothing is open and all that was shaken is restored.
LEMMA CompleteKeeps ==
  ASSUME Inv, NEW t \in Threads, Complete(t)
  PROVE  Inv'
<1>1. /\ call[t].at = "recover" /\ call[t].at \in InRecovery /\ Open(t) = {} /\ ToRestore(t) = {}
      /\ NoPromotionStep /\ cancels' = cancels
      /\ Update(t, [Plan(t) EXCEPT !.status = "complete", !.error = None], Idle)
  BY DEF Complete, At, InRecovery
<1>2. call[t].job # None
  BY <1>1 DEF Inv, CallInv, CallsFit, CallFits
<1>3. PICK w : w = Plan(t)
  OBVIOUS
<1>4. /\ w \in Revisions /\ RecoveryFits(call[t], revocations[call[t].job], book, pointers)
      /\ (Current(t) => RevisionFits(w, book, pointers, registry))
  BY <1>2, <1>3, PlanParts
<1>5. StateStep /\ book' = book /\ opened' = opened /\ pointers' = pointers /\ registry' = registry
  BY <1>1, QuietRecovery
<1>6. PICK y, e : y = [w EXCEPT !.status = "complete"] /\ e \in Errors /\ e = None
  BY DEF Errors
<1>7. PICK record : record = [y EXCEPT !.error = e]
  OBVIOUS
<1>8. y \in Revisions /\ y.affected = w.affected /\ y.cancellations = w.cancellations /\ y.restores = w.restores
      /\ y.status = "complete"
  BY <1>4, <1>6 DEF Revisions
<1>9. /\ record \in Revisions /\ record.affected = w.affected /\ record.cancellations = w.cancellations
      /\ record.restores = w.restores /\ record.status = "complete"
  <2>1. /\ record \in Revisions /\ record.affected = y.affected /\ record.cancellations = y.cancellations
        /\ record.restores = y.restores /\ record.status = y.status
    <3>1. PICK z \in Revisions : z = y
      BY <1>8
    <3>2. PICK g \in Errors : g = e
      BY <1>6
    <3>3. record = [z EXCEPT !.error = g]
      BY <1>7, <3>1, <3>2
    <3>4. /\ record \in Revisions /\ record.affected = z.affected /\ record.cancellations = z.cancellations
          /\ record.restores = z.restores /\ record.status = z.status
      BY <3>3, ErrorParts
    <3> QED BY <3>1, <3>4
  <2> QED BY <1>8, <2>1
<1>10. Advances(w, record)
  BY <1>9, RevocationAssumption DEF Advances, Continues
<1>11. ASSUME Current(t) PROVE RevisionFits(record, book', pointers', registry')
  <2>1. revocations[call[t].job] = w
    BY <1>3, <1>11 DEF Current
  <2>2. NoneOpen(book, w.affected)
    BY <1>1, <1>2, <2>1, NothingOpen
  <2>3. ASSUME NEW p \in Pointers PROVE pointers[p].active \notin w.affected
    <3>1. CASE p \in call[t].done
      BY <1>2, <1>4, <2>1, <3>1 DEF RecoveryFits
    <3>2. CASE p \notin call[t].done
      BY <1>1, <1>3, <1>4, <1>11, <3>2 DEF RevisionFits, ToRestore
    <3> QED BY <3>1, <3>2
  <2> QED BY <1>4, <1>5, <1>9, <1>11, <2>2, <2>3 DEF RevisionFits
<1>12. PICK x \in Calls : x = Idle
  BY IdleParts
<1>13. x.at = "idle" /\ x.job = None /\ x.done = {} /\ Update(t, record, x)
  BY <1>1, <1>3, <1>6, <1>7, <1>12, IdleParts
<1>14. Current(t) => record \in Revisions /\ Advances(Plan(t), record)
                     /\ RevisionFits(record, book', pointers', registry')
  BY <1>3, <1>9, <1>10, <1>11
<1> QED BY <1>1, <1>5, <1>13, <1>14, UpdateKeeps

-----------------------------------------------------------------------------
(* The invariant.                                                            *)

\* Every step keeps the invariant.
LEMMA StepsKeep ==
  ASSUME Inv, [Next]_vars
  PROVE  Inv'
<1>1. CASE Promoting
  <2>1. (Administration \/ Environment \/ \E t \in Threads : Activation(t)) /\ UNCHANGED <<revocations, cancels>>
    BY <1>1 DEF Promoting
  <2>2. PromotionStep
    BY <2>1, AdministrationStep, EnvironmentStep, ActivationStep DEF Inv, CallInv
  <2> QED BY <2>1, <2>2, PromotionsKeep
<1>2. ASSUME NEW r \in Requests, NEW a \in Assets, Monitor(r, a) PROVE Inv'
  BY <1>2, MonitorKeeps
<1>3. ASSUME NEW t \in Threads, Recovery(t) PROVE Inv'
  <2>1. ASSUME NEW r \in Requests, StartRecovery(t, r) PROVE Inv'
    BY <2>1, StartKeeps
  <2>2. ASSUME NEW p \in Pointers, Restore(t, p) PROVE Inv'
    BY <2>2, RestoreKeeps
  <2>3. CASE RequestCancel(t)
    BY <2>3, RequestKeeps
  <2>4. CASE CancelOnHost(t)
    BY <2>4, AskKeeps
  <2>5. CASE CancelAnswered(t)
    BY <2>5, AnswerKeeps
  <2>6. CASE SettleCancellation(t)
    BY <2>6, SettleKeeps
  <2>7. CASE CancellationQueried(t)
    BY <2>7, QueriedKeeps
  <2>8. CASE CancellationSettled(t)
    BY <2>8, SettledKeeps
  <2>9. CASE RestoreAnswered(t)
    BY <2>9, RestoreAnsweredKeeps
  <2>10. CASE Complete(t)
    BY <2>10, CompleteKeeps
  <2> QED BY <1>3, <2>1, <2>2, <2>3, <2>4, <2>5, <2>6, <2>7, <2>8, <2>9, <2>10 DEF Recovery
<1>4. ASSUME NEW id \in PromotionIds, HostCancels(id) PROVE Inv'
  BY <1>4, HostCancelsKeeps
<1>5. CASE UNCHANGED vars
  <2>1. /\ UNCHANGED <<projection, journal, fate, host>> /\ call' = call
        /\ UNCHANGED <<revocations, cancels>> /\ opened' = opened
    BY <1>5 DEF vars, projection
  <2>2. StateStep /\ book' = book
    BY <2>1, QuietStep DEF Inv
  <2>3. PromotionStep
    BY <2>1, <2>2, NoCallSteps DEF Inv, CallInv
  <2> QED BY <2>1, <2>3, PromotionsKeep
<1> QED BY <1>1, <1>2, <1>3, <1>4, <1>5 DEF Next

\* The invariant holds at first.
LEMMA Initially ==
  ASSUME Init
  PROVE  Inv
<1>1. /\ registry = [a \in Assets |-> None] /\ opened = FALSE /\ promotions = << >>
      /\ pointers = [p \in Pointers |-> [version |-> 0, promoted |-> None, active |-> None, snapshot |-> "base"]]
      /\ outbox = << >> /\ received = << >> /\ fate = << >>
      /\ host = [p \in Pointers |-> "base"] /\ call = [t \in Threads |-> Idle]
      /\ revocations = [r \in Requests |-> None] /\ cancels = [r \in Requests |-> << >>]
  BY DEF Init, PromotionInit
<1>2. promotions \in Seq(PromotionRecords) /\ Distinct(promotions) /\ DOMAIN book = {}
  BY <1>1 DEF Distinct, book, BookOf
<1>3. Booked(book)
  BY <1>2, BookIsTyped DEF book
<1>4. Journaled(book, outbox, received, fate)
  BY <1>1, <1>2 DEF Journaled
<1>5. registry \in [Assets -> Entries \cup {None}]
  BY <1>1
<1>6. pointers \in [Pointers -> PointerRecords] /\ host \in [Pointers -> Snapshots]
  BY <1>1 DEF PointerRecords, Snapshots
<1>7. EffectsFit(book, outbox, received, fate) /\ RecordsFit(book, registry) /\ OneOpen(book)
  BY <1>2 DEF EffectsFit, RecordsFit, OneOpen
<1>8. Closed(registry)
  BY <1>1, PromotionAssumption DEF Closed
<1>9. HostFollows(book, fate, pointers, host) /\ PointersFit(book, pointers)
  BY <1>1, <1>2 DEF HostFollows, PointersFit
<1>10. StateInv
  BY <1>1, <1>2, <1>3, <1>4, <1>5, <1>6, <1>7, <1>8, <1>9 DEF StateInv, Fits, Typed
<1>11. Idle \in Calls /\ Idle.at = "idle" /\ Idle.job = None /\ Idle.done = {}
  BY IdleParts
<1>12. CallsFit
  <2>1. CallFits(Idle, book, outbox, received, fate)
    <3>1. PICK d \in Calls : d = Idle
      BY <1>11
    <3> QED BY <1>11, <3>1, IdleFits
  <2> QED BY <1>1, <2>1 DEF CallsFit
<1>13. RevocationsFit
  BY <1>1 DEF RevocationsFit
<1>14. CancelInv
  <2>1. DOMAIN cancels = Requests /\ \A r \in Requests : DOMAIN cancels[r] = {} /\ cancels[r] \in [DOMAIN cancels[r] -> Nat]
    BY <1>1
  <2>2. \A t \in Threads, r \in Requests, id \in Ids : ~Sending(t, r, id)
    BY <1>1, <1>11 DEF Sending, At
  <2>3. \A r \in Requests, id \in Ids : AskedFor(r, id) = 0
    BY <2>1 DEF AskedFor
  <2> QED BY <2>1, <2>2, <2>3 DEF CancelInv
<1>15. CleanInv
  <2>1. \A t \in Threads, r \in Requests : call[t].job # r
    BY <1>1, <1>11, RevocationAssumption
  <2> QED BY <1>1, <1>2, <2>1 DEF CleanInv, RestoreFits
<1> QED BY <1>10, <1>12, <1>13, <1>14, <1>15 DEF Inv, CallInv

\* Every reachable state satisfies the invariant.
LEMMA InvHolds == Spec => []Inv
<1>1. Init => Inv
  BY Initially
<1>2. Inv /\ [Next]_vars => Inv'
  BY StepsKeep
<1> QED BY <1>1, <1>2, PTL DEF Spec

\* What is served became active at the last promotion that brought the pointer where it is.
LEMMA ServedActive ==
  ASSUME StateInv, NEW p \in Pointers, p \in Served(Session[p])
  PROVE  host[p] = pointers[p].active /\ Usable(pointers[p].active, Session[p])
<1>1. /\ pointers[p].active # None /\ SessionReady(Session[p], {})
      /\ LastApplied(p) # "applied-unqualified" /\ Eligible(pointers[p].active)
  BY DEF Served
<1>2. /\ HostFollows(book, fate, pointers, host) /\ PointersFit(book, pointers)
      /\ promotions \in Seq(PromotionRecords) /\ Distinct(promotions)
  BY DEF StateInv, Fits
<1>3. pointers[p].snapshot = pointers[p].active
      /\ \E id \in DOMAIN book : book[id].pointer = p /\ book[id].snapshot = pointers[p].snapshot
  BY <1>1, <1>2 DEF PointersFit
<1>4. host[p] = pointers[p].snapshot
  <2>1. \A id \in DOMAIN book : book[id].pointer = p => book[id].status # "pending"
    BY <1>1, Records DEF SessionReady
  <2> QED BY <1>2, <2>1 DEF HostFollows, Applied
<1> DEFINE S == {i \in 1..Len(promotions) : promotions[i].pointer = p /\ promotions[i].snapshot = pointers[p].snapshot}
           last == IF S # {} THEN Max(S) ELSE 0
<1>5. LastApplied(p) = IF last = 0 THEN None ELSE promotions[last].status
  BY DEF LastApplied, SelectLastInSeq
<1>6. S # {}
  <2>1. PICK id \in DOMAIN book : book[id].pointer = p /\ book[id].snapshot = pointers[p].snapshot
    BY <1>3
  <2>2. PICK i \in DOMAIN promotions : book[id] = promotions[i]
    BY <1>2, BookParts DEF book
  <2>3. i \in 1..Len(promotions)
    BY <1>2, <2>2, LenProperties
  <2> QED BY <2>1, <2>2, <2>3
<1>7. Max(S) \in S /\ Max(S) # 0
  BY <1>2, <1>6, Selected
<1>8. PICK i \in 1..Len(promotions) : /\ promotions[i].pointer = p /\ promotions[i].snapshot = pointers[p].snapshot
                                      /\ LastApplied(p) = promotions[i].status
  BY <1>5, <1>6, <1>7
<1>9. PICK q : q = promotions[i]
  OBVIOUS
<1>10. RecordFits(q, registry)
  <2>1. i \in DOMAIN promotions
    BY <1>2, LenProperties
  <2>2. q.id \in DOMAIN book /\ book[q.id] = q
    BY <1>2, <1>9, <2>1, BookParts DEF book
  <2> QED BY <2>2, EffectIs
<1>11. q.snapshot = q.asset /\ q.status = "active" /\ q.asset = pointers[p].active
  BY <1>1, <1>3, <1>8, <1>9, <1>10 DEF RecordFits
<1>12. Active(pointers[p].active, Session[p], registry)
  BY <1>8, <1>9, <1>10, <1>11 DEF RecordFits
<1> QED BY <1>1, <1>3, <1>4, <1>12 DEF Usable, Active

\* For every set of assets, pointers, callers and recoveries, a pointer with no open activation
\* is at what its host runs, and what tasks are given qualified in their context.
THEOREM PointersStayTrue == Spec => []PointersAreTrue
<1>1. ASSUME StateInv PROVE PointersMatchHost
  <2>1. HostFollows(book, fate, pointers, host)
    BY <1>1 DEF StateInv, Fits
  <2> QED BY <2>1, Records DEF PointersMatchHost, HostFollows, Applied
<1>2. ASSUME StateInv PROVE ServedIsActive
  BY <1>2, ServedActive DEF ServedIsActive
<1>3. Inv => PointersAreTrue
  BY <1>1, <1>2 DEF Inv, PointersAreTrue
<1> QED BY <1>3, InvHolds, PTL

\* For every number of recoveries, lost or racing, the host is asked to cancel an activation at
\* most once for a request, and a complete revocation has left nothing affected behind.
THEOREM RevocationsAreHonest == Spec => []RevocationIsHonest
<1>1. ASSUME Inv PROVE CancelSentOnce
  <2>1. \A r \in Requests : \A id \in DOMAIN cancels[r] : id \in Ids /\ AskedFor(r, id) = cancels[r][id]
    BY <1>1 DEF Inv, CancelInv, AskedFor
  <2> QED BY <1>1, <2>1 DEF CancelSentOnce, Inv, CancelInv
<1>2. ASSUME Inv, NEW r \in Requests, revocations[r] # None, revocations[r].status = "complete"
      PROVE  /\ \A p \in Pointers : pointers[p].active \notin revocations[r].affected
                                    /\ host[p] \notin revocations[r].affected
             /\ Unfinished(revocations[r].affected) = {}
  <2>1. PICK A : A = revocations[r].affected
    OBVIOUS
  <2>2. NoneOpen(book, A) /\ \A p \in Pointers : pointers[p].active \notin A
    BY <1>2, <2>1 DEF Inv, CleanInv, RevisionFits
  <2>3. A \subseteq Assets
    BY <1>2, <2>1 DEF Inv, CallInv, RevocationsFit, Revisions
  <2>4. HostFollows(book, fate, pointers, host) /\ PointersFit(book, pointers)
    BY <1>2 DEF Inv, StateInv, Fits
  <2>5. ASSUME NEW p \in Pointers PROVE host[p] \notin A
    <3>1. CASE \E id \in DOMAIN book : book[id].pointer = p /\ Applied(book, fate, id)
      BY <2>2, <2>4, <3>1 DEF HostFollows, NoneOpen, Applied
    <3>2. CASE \A id \in DOMAIN book : book[id].pointer = p => ~Applied(book, fate, id)
      <4>1. host[p] = pointers[p].snapshot
        BY <2>4, <3>2 DEF HostFollows
      <4>2. pointers[p].snapshot = "base" \/ pointers[p].snapshot = pointers[p].active
        BY <2>4 DEF PointersFit
      <4> QED BY <2>2, <2>3, <4>1, <4>2, PromotionAssumption
    <3> QED BY <3>1, <3>2
  <2>6. Unfinished(A) = {}
    BY <2>2, Records DEF Unfinished, NoneOpen
  <2> QED BY <2>1, <2>2, <2>5, <2>6
<1>3. Inv => RevocationIsHonest
  BY <1>1, <1>2 DEF RevocationIsHonest, CompleteMeansClean
<1> QED BY <1>3, InvHolds, PTL

-----------------------------------------------------------------------------
(* Generations.                                                              *)

-----------------------------------------------------------------------------
(* The inductive invariants.                                                 *)

Commits == [run : Runs \cup {Nil}, iteration : Nat]

Kinds == {"generation.accepted", "generation.rollback", "run.ended"}

Hashes == [seq : Nat, kind : Kinds, by : Runs \cup {Nil}, about : Commits \cup {Nil}]

Rows == [seq : Nat, kind : Kinds, by : Runs \cup {Nil}, about : Commits \cup {Nil},
         previous : Hashes \cup {Nil}]

LedgerTyped == events \in Seq(Rows) /\ active \in Commits \cup {Nil}

LedgerInv == LedgerTyped /\ LedgerIsExplained

RunPlaces ==
  {"idle", "pin", "setref", "move", "record", "baseline", "next", "proposal", "implementation",
   "diff", "evidence", "gate", "precommit", "commit", "ending", "ended", "lost"}

\* A run has the contents it compares while the step that needs them is ahead of it.
RunRecord ==
  [at : RunPlaces, iteration : Nat, base : Commits \cup {Nil}, policy : Nat,
   failures : Nat, idle : Nat, spent : [Meters -> Nat],
   content : Contents \cup {Nil}, before : Contents \cup {Nil}, after : Contents \cup {Nil},
   pre : Contents \cup {Nil}, measured : Contents \cup {Nil}]

\* A run in progress has not used up a limit.
Affordable(q) == \A m \in Meters : Limits[m] = Nil \/ q.spent[m] < Limits[m]

Accepting == {"pin", "move", "record"}

\* The places that only a candidate comes to.
OfCandidate ==
  {"proposal", "implementation", "diff", "evidence", "gate", "precommit", "commit"}

\* The commit a run pins is HEAD for a baseline and its own for a candidate.
TargetOf(r, q) == IF q.iteration = 0 THEN q.base ELSE Commit(r, q.iteration)

Pinned(r, q, pins) ==
  /\ q.at \in Accepting /\ q.iteration = 0 => q.base = HEAD
  /\ q.at \in {"move", "record"} => TargetOf(r, q) \in pins

\* What is compared in an iteration: from the first diff on it is "before" that is compared,
\* and what is measured is told from it unless the worktree was replaced and put back.
Measured(q) == NothingPutBack => q.measured = "change"

Compared(q) ==
  /\ q.at \notin {"evidence", "gate", "precommit", "commit"} \cup Accepting => q.before = Nil
  /\ q.iteration = 0 => q.before = Nil /\ q.at \notin OfCandidate
  /\ q.at = "idle" => q.iteration = 0
  /\ q.at = "diff" => q.content \in Contents \ {"other"}
  /\ q.at \in {"evidence", "gate"} => q.before = "change"
  /\ q.at = "gate" /\ q.content = "change" => Measured(q)
  /\ q.at = "precommit" => q.after = "change" /\ Measured(q)
  /\ q.at = "commit" => q.pre = "change" /\ Measured(q)
  /\ q.at \in Accepting /\ q.iteration # 0 => q.pre = "change" /\ Measured(q)

\* The record q may be that of run r while these commits are pinned.
RunFits(r, q, pins) == q \in RunRecord /\ Affordable(q) /\ Pinned(r, q, pins) /\ Compared(q)

RunInv ==
  /\ run \in [Runs -> RunRecord] /\ policy \in Nat
  /\ \A r \in Runs : RunFits(r, run[r], pinned)

RunnerInv ==
  /\ LedgerInv /\ RunInv
  /\ GenerationsArePinned /\ (NothingPutBack => AcceptedIsEvaluated)

-----------------------------------------------------------------------------
(* The ledger.                                                               *)

LEMMA HeadIsCommit == HEAD \in Commits /\ \A r \in Runs, i \in Nat : Commit(r, i) \in Commits
BY DEF HEAD, Commit, Commits

\* An event that is appended links to the last one, and is the only one that is new.
LEMMA Inserted ==
  ASSUME LedgerTyped, Intact, NEW kind \in Kinds, NEW by \in Runs \cup {Nil},
         NEW about \in Commits \cup {Nil}, InsertEvent(kind, by, about)
  PROVE  /\ events' \in Seq(Rows) /\ Intact'
         /\ Len(events) \in Nat /\ DOMAIN events = 1..Len(events)
         /\ DOMAIN events' = 1..(Len(events) + 1)
         /\ \A i \in DOMAIN events : events'[i] = events[i]
         /\ events'[Len(events) + 1].kind = kind /\ events'[Len(events) + 1].about = about
<1> DEFINE n == Len(events)
           link == IF events = << >> THEN Nil ELSE Hash(Latest)
           row == Row(kind, by, about, link)
<1>1. events \in Seq(Rows)
  BY DEF LedgerTyped
<1>2. /\ n \in Nat /\ DOMAIN events = 1..n
      /\ \A i \in 1..n : events[i] \in Rows
      /\ events = << >> <=> n = 0
  BY <1>1, LenProperties, ElementOfSeq, EmptySeq
<1>3. n # 0 => Latest \in Rows /\ Latest = events[n] /\ Latest.seq = n
  BY <1>2 DEF Latest, Intact
<1>4. link \in Hashes \cup {Nil}
  BY <1>2, <1>3 DEF Hash, Hashes, Rows
<1> HIDE DEF link
<1>5. row \in Rows /\ row.kind = kind /\ row.about = about /\ row.seq = n + 1
      /\ row.previous = link
  BY <1>2, <1>3, <1>4 DEF Row, Rows
<1>6. events' = Append(events, row)
  BY DEF InsertEvent, link
<1> HIDE DEF row
<1>7. /\ events' \in Seq(Rows) /\ DOMAIN events' = 1..(n + 1)
      /\ events'[n + 1] = row /\ \A i \in 1..n : events'[i] = events[i]
  BY <1>1, <1>2, <1>5, <1>6, AppendProperties
<1>8. Intact'
  <2> SUFFICES ASSUME NEW i \in 1..(n + 1)
               PROVE  /\ events'[i].seq = i
                      /\ events'[i].previous = IF i = 1 THEN Nil ELSE Hash(events'[i - 1])
    BY <1>7 DEF Intact, Hash
  <2>1. CASE i \in 1..n
    <3>1. events'[i] = events[i] /\ (i # 1 => events'[i - 1] = events[i - 1])
      BY <1>2, <1>7, <2>1
    <3> QED BY <1>2, <2>1, <3>1 DEF Intact
  <2>2. CASE i = n + 1
    <3>1. i = 1 => events = << >>
      BY <1>2, <2>2
    <3>2. i # 1 => events # << >> /\ events'[i - 1] = Latest
      BY <1>2, <1>3, <1>7, <2>2
    <3> QED BY <1>5, <1>7, <2>2, <3>1, <3>2 DEF link
  <2> QED BY <1>2, <2>1, <2>2
<1> QED BY <1>2, <1>5, <1>7, <1>8

\* An event about no generation leaves the tables what the others say.
LEMMA OtherEventKeeps ==
  ASSUME LedgerInv, NEW by \in Runs, AppendEvent("run.ended", by, Nil)
  PROVE  LedgerInv'
<1> DEFINE n == Len(events)
<1>1. /\ events' \in Seq(Rows) /\ Intact' /\ n \in Nat /\ DOMAIN events = 1..n
      /\ DOMAIN events' = 1..(n + 1) /\ \A i \in 1..n : events'[i] = events[i]
      /\ events'[n + 1].kind = "run.ended"
  <2>1. "run.ended" \in Kinds /\ by \in Runs \cup {Nil} /\ Nil \in Commits \cup {Nil}
    BY DEF Kinds
  <2>2. LedgerTyped /\ Intact /\ InsertEvent("run.ended", by, Nil)
    BY DEF LedgerInv, LedgerIsExplained, AppendEvent
  <2> QED BY <2>1, <2>2, Inserted
<1>2. GenerationEvents' = GenerationEvents
  BY <1>1 DEF GenerationEvents, AboutGeneration
<1>3. \A i \in GenerationEvents : events'[i] = events[i]
  BY <1>1 DEF GenerationEvents
<1>4. active' = active /\ generations' = generations
  BY DEF AppendEvent
<1>5. {events'[i].about : i \in GenerationEvents'} = {events[i].about : i \in GenerationEvents}
  BY <1>2, <1>3
<1> QED BY <1>1, <1>2, <1>3, <1>4, <1>5 DEF LedgerInv, LedgerTyped, LedgerIsExplained

\* An event about a generation names the one that becomes active.
LEMMA GenerationEventKeeps ==
  ASSUME LedgerInv, NEW kind \in {"generation.accepted", "generation.rollback"},
         NEW by \in Runs \cup {Nil}, NEW sha \in Commits \cup {Nil},
         InsertEvent(kind, by, sha),
         active' = sha,
         {g.sha : g \in generations'} = {g.sha : g \in generations} \cup {sha}
  PROVE  LedgerInv'
<1> DEFINE n == Len(events)
<1>1. /\ events' \in Seq(Rows) /\ Intact' /\ n \in Nat /\ DOMAIN events = 1..n
      /\ DOMAIN events' = 1..(n + 1) /\ \A i \in 1..n : events'[i] = events[i]
      /\ events'[n + 1].kind = kind /\ events'[n + 1].about = sha
  <2>1. kind \in Kinds /\ sha \in Commits \cup {Nil}
    BY DEF Kinds
  <2>2. LedgerTyped /\ Intact
    BY DEF LedgerInv, LedgerIsExplained
  <2> QED BY <2>1, <2>2, Inserted
<1>2. GenerationEvents' = GenerationEvents \cup {n + 1} /\ GenerationEvents \subseteq 1..n
  BY <1>1 DEF GenerationEvents, AboutGeneration
<1>3. \A i \in GenerationEvents' : (\A j \in GenerationEvents' : j <= i) => i = n + 1
  <2> SUFFICES ASSUME NEW i \in GenerationEvents', \A j \in GenerationEvents' : j <= i
               PROVE  i = n + 1
    OBVIOUS
  <2>1. n + 1 <= i
    BY <1>2
  <2>2. i = n + 1 \/ i \in 1..n
    BY <1>2
  <2> QED BY <1>1, <2>1, <2>2
<1>4. {events'[i].about : i \in GenerationEvents'}
        = {events[i].about : i \in GenerationEvents} \cup {sha}
  <2>1. \A i \in GenerationEvents : events'[i] = events[i]
    BY <1>1, <1>2
  <2>2. \A i \in GenerationEvents' : i = n + 1 \/ i \in GenerationEvents
    BY <1>2
  <2>3. n + 1 \in GenerationEvents' /\ GenerationEvents \subseteq GenerationEvents'
    BY <1>2
  <2> QED BY <1>1, <2>1, <2>2, <2>3
<1> QED BY <1>1, <1>2, <1>3, <1>4 DEF LedgerInv, LedgerTyped, LedgerIsExplained

-----------------------------------------------------------------------------
(* The record of a run.                                                      *)

\* A record that is at another place is the same otherwise.
LEMMA RunPlaceParts ==
  ASSUME NEW q \in RunRecord, NEW p \in RunPlaces, NEW c, c = [q EXCEPT !.at = p]
  PROVE  /\ c \in RunRecord /\ c.at = p
         /\ c.iteration = q.iteration /\ c.base = q.base /\ c.spent = q.spent
         /\ c.content = q.content /\ c.before = q.before /\ c.after = q.after
         /\ c.pre = q.pre /\ c.measured = q.measured
<1>1. c \in RunRecord
  BY DEF RunRecord
<1>2. c.at = p /\ c.iteration = q.iteration /\ c.base = q.base /\ c.spent = q.spent
  BY DEF RunRecord
<1>3. c.content = q.content /\ c.before = q.before /\ c.after = q.after
  BY DEF RunRecord
<1>4. c.pre = q.pre /\ c.measured = q.measured
  BY DEF RunRecord
<1> QED BY <1>1, <1>2, <1>3, <1>4

\* A record with another content of the worktree is the same otherwise.
LEMMA ContentParts ==
  ASSUME NEW q \in RunRecord, NEW x \in Contents \cup {Nil}, NEW c, c = [q EXCEPT !.content = x]
  PROVE  /\ c \in RunRecord /\ c.content = x
         /\ c.at = q.at /\ c.iteration = q.iteration /\ c.base = q.base /\ c.spent = q.spent
         /\ c.before = q.before /\ c.after = q.after
         /\ c.pre = q.pre /\ c.measured = q.measured
<1>1. c \in RunRecord
  BY DEF RunRecord
<1>2. c.at = q.at /\ c.iteration = q.iteration /\ c.base = q.base /\ c.spent = q.spent
  BY DEF RunRecord
<1>3. c.content = x /\ c.before = q.before /\ c.after = q.after
  BY DEF RunRecord
<1>4. c.pre = q.pre /\ c.measured = q.measured
  BY DEF RunRecord
<1> QED BY <1>1, <1>2, <1>3, <1>4

\* A record that was cleaned has forgotten what was compared and remembers what was spent.
LEMMA CleanedParts ==
  ASSUME NEW q \in RunRecord
  PROVE  Cleaned(q) \in RunRecord /\ Cleaned(q).before = Nil /\ Cleaned(q).spent = q.spent
BY DEF Cleaned, RunRecord

\* A record that is not in an iteration, or has not looked at a worktree yet, fits.
LEMMA RestingRunFits ==
  ASSUME ValidConstants, NEW r, NEW pins, NEW p \in {"ending", "lost", "ended"}
  PROVE  /\ RunFits(r, [Unstarted EXCEPT !.at = p], pins) /\ RunFits(r, Unstarted, pins)
         /\ RunFits(r, Stopped, pins)
<1>1. \A m \in Meters : Limits[m] = Nil \/ (Limits[m] \in Nat /\ 0 < Limits[m])
  BY DEF ValidConstants, Meters
<1>2. /\ \A q \in {Unstarted, [Unstarted EXCEPT !.at = p], Stopped} :
           /\ q \in RunRecord /\ q.before = Nil /\ q.iteration = 0
           /\ q.at \in {"idle", "ending", "lost", "ended"} /\ q.spent = [m \in Meters |-> 0]
  BY DEF Unstarted, Stopped, RunRecord, RunPlaces
<1>3. \A q \in {Unstarted, [Unstarted EXCEPT !.at = p], Stopped} : Affordable(q)
  BY <1>1, <1>2 DEF Affordable
<1> QED BY <1>2, <1>3 DEF RunFits, Pinned, Compared, Accepting, OfCandidate

\* What a run that was rejected remembers fits: it has forgotten all that is compared.
LEMMA RejectFits ==
  ASSUME ValidConstants, NEW r, NEW pins, NEW q \in RunRecord, Affordable(q)
  PROVE  RunFits(r, Reject(q), pins)
<1> DEFINE c == [Cleaned(q) EXCEPT !.failures = @ + 1, !.idle = @ + 1]
           d == [c EXCEPT !.at = "next"]
<1>1. Cleaned(q) \in RunRecord /\ Cleaned(q).before = Nil /\ Cleaned(q).spent = q.spent
  BY CleanedParts
<1>2. c \in RunRecord /\ c.before = Nil /\ c.spent = q.spent
  <2>1. PICK k \in RunRecord : k = Cleaned(q) /\ k.before = Nil /\ k.spent = q.spent
    BY <1>1
  <2>2. PICK f \in Nat, i \in Nat : f = k.failures + 1 /\ i = k.idle + 1
    BY DEF RunRecord
  <2>3. PICK e : e = [k EXCEPT !.failures = f]
    OBVIOUS
  <2>4. e \in RunRecord /\ e.before = Nil /\ e.spent = q.spent
    BY <2>1, <2>2, <2>3 DEF RunRecord
  <2>5. PICK g : g = [e EXCEPT !.idle = i]
    OBVIOUS
  <2>6. g \in RunRecord /\ g.before = Nil /\ g.spent = q.spent
    BY <2>2, <2>4, <2>5 DEF RunRecord
  <2>7. c = g
    BY <2>1, <2>2, <2>3, <2>5 DEF RunRecord
  <2> QED BY <2>6, <2>7
<1> HIDE DEF c
<1>3. d \in RunRecord /\ d.before = Nil /\ d.spent = q.spent /\ d.at = "next"
  BY <1>2 DEF RunRecord, RunPlaces
<1> HIDE DEF d
<1>4. RunFits(r, d, pins)
  BY <1>3 DEF RunFits, Affordable, Pinned, Compared, Accepting, OfCandidate
<1> QED BY <1>4, RestingRunFits DEF Reject, c, d

LEMMA DecidedFits ==
  ASSUME ValidConstants, NEW r, NEW pins, NEW q \in RunRecord, Affordable(q), NEW decision
  PROVE  RunFits(r, Decided(q, decision), pins)
BY RejectFits, RestingRunFits DEF Decided

\* One meter counts what was used, unless it has no limit.
LEMMA CountedParts ==
  ASSUME NEW q \in RunRecord, NEW m \in Meters, NEW use, use[m] \in Nat \cup {Nil}
  PROVE  \E c \in RunRecord :
           /\ Counted(q, m, use) = c
           /\ c.at = q.at /\ c.before = q.before /\ c.content = q.content
           /\ c.iteration = q.iteration
           /\ c.spent[m] = IF Limits[m] = Nil \/ use[m] = Nil THEN q.spent[m]
                           ELSE q.spent[m] + use[m]
           /\ \A k \in Meters : k # m => c.spent[k] = q.spent[k]
<1>1. CASE Limits[m] = Nil \/ use[m] = Nil
  BY <1>1 DEF Counted
<1>2. CASE ~(Limits[m] = Nil \/ use[m] = Nil)
  <2> DEFINE spent == [q.spent EXCEPT ![m] = q.spent[m] + use[m]]
             c == [q EXCEPT !.spent = spent]
  <2>1. q.spent \in [Meters -> Nat]
    BY DEF RunRecord
  <2>2. /\ spent \in [Meters -> Nat] /\ spent[m] = q.spent[m] + use[m]
        /\ \A k \in Meters : k # m => spent[k] = q.spent[k]
    BY <1>2, <2>1
  <2>3. Counted(q, m, use) = c
    BY <1>2 DEF Counted
  <2> HIDE DEF spent
  <2>4. /\ c \in RunRecord /\ c.at = q.at /\ c.before = q.before /\ c.content = q.content
        /\ c.iteration = q.iteration /\ c.spent = spent
    BY <2>2 DEF RunRecord
  <2> HIDE DEF c
  <2> QED BY <1>2, <2>2, <2>3, <2>4
<1> QED BY <1>1, <1>2

\* A run that goes on after it was charged has a total below each of its limits.
LEMMA ChargedParts ==
  ASSUME ValidConstants, NEW q \in RunRecord, Affordable(q), NEW use \in Uses,
         Charged(q, use) # Stopped
  PROVE  \E c \in RunRecord :
           /\ Charged(q, use) = c /\ Affordable(c)
           /\ c.at = q.at /\ c.before = q.before /\ c.content = q.content
           /\ c.iteration = q.iteration
<1>1. \A m \in Meters : q.spent[m] \in Nat /\ use[m] \in Nat \cup {Nil}
  BY DEF RunRecord, ValidConstants
<1>2. Charged(q, use) = Counted(Counted(q, "cost", use), "tokens", use)
      /\ \A m \in Meters : ~Exhausts(q, m, use)
  BY DEF Charged
<1>3. "cost" \in Meters /\ "tokens" \in Meters /\ \A m \in Meters : m = "cost" \/ m = "tokens"
  BY DEF Meters
<1>4. PICK a \in RunRecord :
        /\ Counted(q, "cost", use) = a
        /\ a.at = q.at /\ a.before = q.before /\ a.content = q.content
        /\ a.iteration = q.iteration
        /\ a.spent["cost"] = IF Limits["cost"] = Nil \/ use["cost"] = Nil THEN q.spent["cost"]
                             ELSE q.spent["cost"] + use["cost"]
        /\ \A k \in Meters : k # "cost" => a.spent[k] = q.spent[k]
  BY <1>1, <1>3, CountedParts
<1>5. PICK c \in RunRecord :
        /\ Counted(a, "tokens", use) = c
        /\ c.at = a.at /\ c.before = a.before /\ c.content = a.content
        /\ c.iteration = a.iteration
        /\ c.spent["tokens"] = IF Limits["tokens"] = Nil \/ use["tokens"] = Nil
                               THEN a.spent["tokens"] ELSE a.spent["tokens"] + use["tokens"]
        /\ \A k \in Meters : k # "tokens" => c.spent[k] = a.spent[k]
  BY <1>1, <1>3, CountedParts
<1>6. \A m \in Meters : Limits[m] = Nil \/ q.spent[m] + use[m] < Limits[m]
  <2> SUFFICES ASSUME NEW m \in Meters, Limits[m] # Nil
               PROVE  q.spent[m] + use[m] < Limits[m]
    OBVIOUS
  <2>1. use[m] \in Nat /\ ~(q.spent[m] + use[m] >= Limits[m])
    BY <1>1, <1>2 DEF Exhausts
  <2> QED BY <1>1, <2>1 DEF ValidConstants
<1>7. \A m \in Meters : Limits[m] # Nil => use[m] # Nil
  BY <1>2 DEF Exhausts
<1>8. Affordable(c)
  BY <1>3, <1>4, <1>5, <1>6, <1>7 DEF Affordable
<1> QED BY <1>2, <1>4, <1>5, <1>8

-----------------------------------------------------------------------------
(* The steps of a run.                                                       *)

\* The run goes on with a record that fits.
RunGoes(r) == \E q : Sets(r, q) /\ RunFits(r, q, pinned')

LEMMA RunSetsKeeps ==
  ASSUME RunInv, NEW r \in Runs, RunGoes(r), pinned \subseteq pinned', policy' = policy
  PROVE  RunInv'
<1>1. PICK q : Sets(r, q) /\ RunFits(r, q, pinned')
  BY DEF RunGoes
<1>2. q \in RunRecord /\ run \in [Runs -> RunRecord] /\ run' = [run EXCEPT ![r] = q]
  BY <1>1 DEF RunInv, RunFits, Sets
<1>3. run' \in [Runs -> RunRecord] /\ run'[r] = q /\ \A s \in Runs : s # r => run'[s] = run[s]
  BY <1>2
<1>4. \A s \in Runs : RunFits(s, run'[s], pinned')
  <2> SUFFICES ASSUME NEW s \in Runs, s # r
               PROVE  RunFits(s, run'[s], pinned')
    BY <1>1, <1>3
  <2>1. RunFits(s, run[s], pinned)
    BY DEF RunInv
  <2> QED BY <1>3, <2>1 DEF RunFits, Pinned
<1> QED BY <1>3, <1>4 DEF RunInv

LEMMA FitsNow ==
  ASSUME RunInv, NEW r \in Runs
  PROVE  run[r] \in RunRecord /\ Affordable(run[r]) /\ Compared(run[r]) /\ Pinned(r, run[r], pinned)
BY DEF RunInv, RunFits

LEMMA PrepareGoes ==
  ASSUME RunnerInv, ValidConstants, NEW r \in Runs, PrepareRun(r)
  PROVE  RunGoes(r)
<1>1. PICK b \in Commits \cup {Nil}, p \in {"pin", "setref"} :
        /\ Sets(r, [run[r] EXCEPT !.base = b, !.policy = policy, !.at = p])
        /\ p = "pin" => b = HEAD
  BY HeadIsCommit DEF PrepareRun, RunnerInv, LedgerInv, LedgerTyped
<1>2. PICK d : d = [run[r] EXCEPT !.base = b, !.policy = policy]
  OBVIOUS
<1>3. PICK c : c = [d EXCEPT !.at = p]
  OBVIOUS
<1>4. run[r] \in RunRecord /\ policy \in Nat
  BY FitsNow DEF RunnerInv, RunInv
<1>5. d \in RunRecord
  BY <1>2, <1>4 DEF RunRecord
<1>6. d.base = b /\ d.iteration = run[r].iteration /\ d.before = run[r].before
      /\ d.spent = run[r].spent
  BY <1>2, <1>4 DEF RunRecord
<1>7. p \in RunPlaces
  BY DEF RunPlaces
<1>8. /\ c \in RunRecord /\ c.at = p /\ c.base = b /\ c.iteration = run[r].iteration
      /\ c.before = run[r].before /\ c.spent = run[r].spent
  BY <1>3, <1>5, <1>6, <1>7, RunPlaceParts
<1>9. run[r].iteration = 0 /\ run[r].before = Nil /\ Affordable(run[r])
  BY FitsNow DEF RunnerInv, PrepareRun, RunAt, Compared, Accepting, OfCandidate
<1>10. RunFits(r, c, pinned')
  BY <1>1, <1>8, <1>9 DEF RunFits, Affordable, Pinned, Compared, Accepting, OfCandidate
<1>11. c = [run[r] EXCEPT !.base = b, !.policy = policy, !.at = p]
  BY <1>2, <1>3, <1>4 DEF RunRecord
<1> QED BY <1>1, <1>10, <1>11 DEF RunGoes

LEMMA PinGoes ==
  ASSUME RunnerInv, ValidConstants, NEW r \in Runs, Pin(r)
  PROVE  RunGoes(r)
<1>1. PICK q : q = run[r] /\ q \in RunRecord /\ Affordable(q) /\ Compared(q)
               /\ Pinned(r, q, pinned) /\ q.at = "pin"
  BY FitsNow DEF RunnerInv, Pin, RunAt
<1>2. PICK c : c = [q EXCEPT !.at = "move"]
  OBVIOUS
<1>3. "move" \in RunPlaces
  BY DEF RunPlaces
<1>4. /\ c \in RunRecord /\ c.at = "move" /\ c.iteration = q.iteration /\ c.base = q.base
      /\ c.spent = q.spent /\ c.before = q.before /\ c.pre = q.pre /\ c.measured = q.measured
  BY <1>1, <1>2, <1>3, RunPlaceParts
<1>5. TargetOf(r, c) \in pinned'
  BY <1>1, <1>4 DEF Pin, TargetCommit, TargetOf
<1>6. RunFits(r, c, pinned')
  BY <1>1, <1>4, <1>5 DEF RunFits, Affordable, Pinned, Compared, Accepting, OfCandidate, Measured
<1> QED BY <1>1, <1>2, <1>6 DEF RunGoes, Pin

LEMMA MoveActiveRefGoes ==
  ASSUME RunnerInv, ValidConstants, NEW r \in Runs, MoveActiveRef(r)
  PROVE  RunGoes(r)
<1>1. PICK p \in {"record", "baseline"} :
        /\ Sets(r, [run[r] EXCEPT !.at = p])
        /\ p = "record" => run[r].at = "move"
        /\ p = "baseline" => run[r].at = "setref"
  BY DEF MoveActiveRef, RunAt
<1>2. PICK q : q = run[r] /\ q \in RunRecord /\ Affordable(q) /\ Compared(q)
               /\ Pinned(r, q, pinned)
  BY FitsNow DEF RunnerInv
<1>3. PICK c : c = [q EXCEPT !.at = p]
  OBVIOUS
<1>4. p \in RunPlaces
  BY DEF RunPlaces
<1>5. /\ c \in RunRecord /\ c.at = p /\ c.iteration = q.iteration /\ c.base = q.base
      /\ c.spent = q.spent /\ c.before = q.before /\ c.pre = q.pre /\ c.measured = q.measured
  BY <1>2, <1>3, <1>4, RunPlaceParts
<1>6. pinned' = pinned
  BY DEF MoveActiveRef
<1>7. RunFits(r, c, pinned')
  BY <1>1, <1>2, <1>5, <1>6
     DEF RunFits, Affordable, Pinned, TargetOf, Compared, Accepting, OfCandidate, Measured
<1> QED BY <1>1, <1>2, <1>3, <1>7 DEF RunGoes

\* A run that recorded its generation goes on from it; one that could not has stopped.
LEMMA RecordGoes ==
  ASSUME RunnerInv, ValidConstants, NEW r \in Runs, AcceptGeneration(r)
  PROVE  RunGoes(r)
<1>1. PICK q : q = run[r] /\ q \in RunRecord /\ Affordable(q) /\ Compared(q)
               /\ q.at = "record"
  BY FitsNow DEF RunnerInv, AcceptGeneration, RunAt
<1>2. CASE Sets(r, Stopped)
  BY <1>2, RestingRunFits DEF RunGoes
<1>3. CASE Sets(r, [q EXCEPT !.at = "baseline"]) /\ q.iteration = 0
  <2>1. PICK c : c = [q EXCEPT !.at = "baseline"]
    OBVIOUS
  <2>2. "baseline" \in RunPlaces
    BY DEF RunPlaces
  <2>3. c \in RunRecord /\ c.at = "baseline" /\ c.spent = q.spent /\ c.before = q.before
        /\ c.iteration = q.iteration
    BY <1>1, <2>1, <2>2, RunPlaceParts
  <2>4. RunFits(r, c, pinned')
    BY <1>1, <1>3, <2>3 DEF RunFits, Affordable, Pinned, Compared, Accepting, OfCandidate
  <2> QED BY <1>3, <2>1, <2>4 DEF RunGoes
<1>4. CASE /\ Sets(r, [Cleaned(q) EXCEPT !.base = TargetCommit(r), !.idle = 0, !.at = "next"])
           /\ q.iteration # 0
  <2>1. PICK k \in RunRecord : k = Cleaned(q) /\ k.before = Nil /\ k.spent = q.spent
    BY <1>1, CleanedParts
  <2>2. PICK t \in Commits : t = TargetCommit(r)
    <3>1. q.iteration \in Nat
      BY <1>1 DEF RunRecord
    <3> QED BY <1>1, <1>4, <3>1, HeadIsCommit DEF TargetCommit
  <2>3. PICK e : e = [k EXCEPT !.base = t]
    OBVIOUS
  <2>4. e \in RunRecord /\ e.before = Nil /\ e.spent = q.spent
    BY <2>1, <2>2, <2>3 DEF RunRecord
  <2>5. PICK d : d = [e EXCEPT !.idle = 0]
    OBVIOUS
  <2>6. d \in RunRecord /\ d.before = Nil /\ d.spent = q.spent
    BY <2>4, <2>5 DEF RunRecord
  <2>7. PICK c : c = [d EXCEPT !.at = "next"]
    OBVIOUS
  <2>8. "next" \in RunPlaces
    BY DEF RunPlaces
  <2>9. c \in RunRecord /\ c.at = "next" /\ c.before = Nil /\ c.spent = q.spent
    BY <2>6, <2>7, <2>8, RunPlaceParts
  <2>10. RunFits(r, c, pinned')
    BY <1>1, <2>9 DEF RunFits, Affordable, Pinned, Compared, Accepting, OfCandidate
  <2>11. c = [k EXCEPT !.base = t, !.idle = 0, !.at = "next"]
    BY <2>1, <2>3, <2>5, <2>7 DEF RunRecord
  <2> QED BY <1>4, <2>1, <2>2, <2>10, <2>11 DEF RunGoes
<1> QED BY <1>1, <1>2, <1>3, <1>4 DEF AcceptGeneration

LEMMA BaselineGoes ==
  ASSUME RunnerInv, ValidConstants, NEW r \in Runs, Baseline(r)
  PROVE  RunGoes(r)
<1>1. CASE Sets(r, Stopped)
  BY <1>1, RestingRunFits DEF RunGoes
<1>2. CASE Sets(r, [run[r] EXCEPT !.at = "next"])
  <2>1. PICK q : q = run[r] /\ q \in RunRecord /\ Affordable(q) /\ Compared(q)
                 /\ q.at = "baseline"
    BY FitsNow DEF RunnerInv, Baseline, RunAt
  <2>2. PICK c : c = [q EXCEPT !.at = "next"]
    OBVIOUS
  <2>3. "next" \in RunPlaces
    BY DEF RunPlaces
  <2>4. c \in RunRecord /\ c.at = "next" /\ c.spent = q.spent /\ c.before = q.before
    BY <2>1, <2>2, <2>3, RunPlaceParts
  <2>5. RunFits(r, c, pinned')
    BY <2>1, <2>4 DEF RunFits, Affordable, Pinned, Compared, Accepting, OfCandidate
  <2> QED BY <1>2, <2>1, <2>2, <2>5 DEF RunGoes
<1> QED BY <1>1, <1>2 DEF Baseline

LEMMA NextIterationGoes ==
  ASSUME RunnerInv, ValidConstants, NEW r \in Runs, NextIteration(r)
  PROVE  RunGoes(r)
<1>1. CASE Sets(r, Stopped)
  BY <1>1, RestingRunFits DEF RunGoes
<1>2. CASE Sets(r, [run[r] EXCEPT !.iteration = @ + 1, !.content = "same", !.at = "proposal"])
  <2>1. PICK q : q = run[r] /\ q \in RunRecord /\ Affordable(q) /\ q.before = Nil
    BY FitsNow DEF RunnerInv, NextIteration, RunAt, Compared, Accepting, OfCandidate
  <2>2. PICK i \in Nat : i = q.iteration + 1
    BY <2>1 DEF RunRecord
  <2>3. PICK a : a = [q EXCEPT !.iteration = i]
    OBVIOUS
  <2>4. a \in RunRecord /\ a.iteration # 0 /\ a.before = Nil /\ a.spent = q.spent
    BY <2>1, <2>2, <2>3 DEF RunRecord
  <2>5. PICK d : d = [a EXCEPT !.content = "same"]
    OBVIOUS
  <2>6. "same" \in Contents \cup {Nil} /\ "proposal" \in RunPlaces
    BY DEF Contents, RunPlaces
  <2>7. d \in RunRecord /\ d.iteration # 0 /\ d.before = Nil /\ d.spent = q.spent
    BY <2>4, <2>5, <2>6, ContentParts
  <2>8. PICK c : c = [d EXCEPT !.at = "proposal"]
    OBVIOUS
  <2>9. /\ c \in RunRecord /\ c.at = "proposal" /\ c.iteration # 0 /\ c.before = Nil
        /\ c.spent = q.spent
    BY <2>6, <2>7, <2>8, RunPlaceParts
  <2>10. RunFits(r, c, pinned')
    BY <2>1, <2>9 DEF RunFits, Affordable, Pinned, Compared, Accepting, OfCandidate
  <2>11. c = [q EXCEPT !.iteration = i, !.content = "same", !.at = "proposal"]
    BY <2>1, <2>3, <2>5, <2>8 DEF RunRecord
  <2>12. Sets(r, c)
    BY <1>2, <2>1, <2>2, <2>11 DEF Sets
  <2> QED BY <2>10, <2>12 DEF RunGoes
<1> QED BY <1>1, <1>2 DEF NextIteration

LEMMA ProposeGoes ==
  ASSUME RunnerInv, ValidConstants, NEW r \in Runs, Propose(r)
  PROVE  RunGoes(r)
<1>1. PICK use \in Uses, result \in {"good", "metadata", "crash", "unusable", "capability"} :
        Sets(r, Proposed(Charged(run[r], use), use, result))
  BY DEF Propose
<1>2. run[r] \in RunRecord /\ Affordable(run[r]) /\ run[r].before = Nil
      /\ run[r].iteration # 0
  BY FitsNow DEF RunnerInv, Propose, RunAt, Compared, Accepting, OfCandidate
<1>3. CASE Proposed(Charged(run[r], use), use, result) = Stopped
  BY <1>1, <1>3, RestingRunFits DEF RunGoes
<1>4. CASE Proposed(Charged(run[r], use), use, result) # Stopped
  <2>1. Charged(run[r], use) # Stopped
    BY <1>4 DEF Proposed
  <2>2. PICK q \in RunRecord :
          Charged(run[r], use) = q /\ Affordable(q) /\ q.before = Nil
          /\ q.iteration # 0
    BY <1>2, <2>1, ChargedParts
  <2>3. CASE Proposed(q, use, result) = Reject(q)
    BY <1>1, <2>2, <2>3, RejectFits DEF RunGoes
  <2>4. CASE Proposed(q, use, result) = [q EXCEPT !.at = "implementation"]
    <3>1. PICK c : c = [q EXCEPT !.at = "implementation"]
      OBVIOUS
    <3>2. "implementation" \in RunPlaces
      BY DEF RunPlaces
    <3>3. c \in RunRecord /\ c.at = "implementation" /\ c.spent = q.spent
          /\ c.before = q.before /\ c.iteration # 0
      BY <2>2, <3>1, <3>2, RunPlaceParts
    <3>4. RunFits(r, c, pinned')
      BY <2>2, <3>3 DEF RunFits, Affordable, Pinned, Compared, Accepting, OfCandidate
    <3> QED BY <1>1, <2>2, <2>4, <3>1, <3>4 DEF RunGoes
  <2> QED BY <1>4, <2>2, <2>3, <2>4 DEF Proposed
<1> QED BY <1>3, <1>4

LEMMA ImplementGoes ==
  ASSUME RunnerInv, ValidConstants, NEW r \in Runs, Implement(r)
  PROVE  RunGoes(r)
<1>1. PICK use \in Uses,
           result \in (Contents \ {"other"})
                        \cup {"metadata", "tampered", "crash", "unchanged", "blocked"} :
        Sets(r, Implemented(Charged(run[r], use), use, result))
  BY DEF Implement
<1>2. run[r] \in RunRecord /\ Affordable(run[r]) /\ run[r].before = Nil
      /\ run[r].iteration # 0
  BY FitsNow DEF RunnerInv, Implement, RunAt, Compared, Accepting, OfCandidate
<1>3. CASE Implemented(Charged(run[r], use), use, result) = Stopped
  BY <1>1, <1>3, RestingRunFits DEF RunGoes
<1>4. CASE Implemented(Charged(run[r], use), use, result) # Stopped
  <2>1. Charged(run[r], use) # Stopped
    BY <1>4 DEF Implemented
  <2>2. PICK q \in RunRecord :
          Charged(run[r], use) = q /\ Affordable(q) /\ q.before = Nil
          /\ q.iteration # 0
    BY <1>2, <2>1, ChargedParts
  <2>3. CASE Implemented(q, use, result) = Reject(q)
    BY <1>1, <2>2, <2>3, RejectFits DEF RunGoes
  <2>4. CASE /\ Implemented(q, use, result) = [q EXCEPT !.content = result, !.at = "diff"]
             /\ result \in Contents \ {"other"}
    <3>1. PICK d : d = [q EXCEPT !.content = result]
      OBVIOUS
    <3>2. d \in RunRecord /\ d.content = result /\ d.before = Nil /\ d.spent = q.spent
          /\ d.iteration # 0
      BY <2>2, <2>4, <3>1, ContentParts
    <3>3. PICK c : c = [d EXCEPT !.at = "diff"]
      OBVIOUS
    <3>4. "diff" \in RunPlaces
      BY DEF RunPlaces
    <3>5. /\ c \in RunRecord /\ c.at = "diff" /\ c.content = result /\ c.before = Nil
          /\ c.spent = q.spent /\ c.iteration # 0
      BY <3>2, <3>3, <3>4, RunPlaceParts
    <3>6. RunFits(r, c, pinned')
      BY <2>2, <2>4, <3>5 DEF RunFits, Affordable, Pinned, Compared, Accepting, OfCandidate
    <3>7. c = [q EXCEPT !.content = result, !.at = "diff"]
      BY <2>2, <3>1, <3>3 DEF RunRecord
    <3> QED BY <1>1, <2>2, <2>4, <3>6, <3>7 DEF RunGoes
  <2> QED BY <1>4, <2>2, <2>3, <2>4 DEF Implemented
<1> QED BY <1>3, <1>4

LEMMA CheckDiffGoes ==
  ASSUME RunnerInv, ValidConstants, NEW r \in Runs, CheckDiff(r)
  PROVE  RunGoes(r)
<1>1. PICK q : q = run[r] /\ q \in RunRecord /\ Affordable(q) /\ q.at = "diff"
               /\ q.iteration # 0 /\ q.content \in Contents \ {"other"}
  BY FitsNow DEF RunnerInv, CheckDiff, RunAt, Compared, Accepting, OfCandidate
<1>2. CASE Sets(r, Decided(q, DecisionForCandidateCheck(Problem(q.content))))
  BY <1>1, <1>2, DecidedFits DEF RunGoes
<1>3. CASE /\ Sets(r, [q EXCEPT !.before = q.content, !.at = "evidence"])
           /\ Problem(q.content) = Nil
  <2>1. PICK x : x = q.content
    OBVIOUS
  <2>2. x = "change"
    BY <1>1, <1>3, <2>1 DEF Problem, Contents, ValidConstants, Problems
  <2>3. PICK d : d = [q EXCEPT !.before = x]
    OBVIOUS
  <2>4. d \in RunRecord
    BY <1>1, <2>1, <2>3 DEF RunRecord
  <2>5. d.before = x /\ d.spent = q.spent /\ d.iteration # 0
    BY <1>1, <2>3 DEF RunRecord
  <2>6. PICK c : c = [d EXCEPT !.at = "evidence"]
    OBVIOUS
  <2>7. "evidence" \in RunPlaces
    BY DEF RunPlaces
  <2>8. /\ c \in RunRecord /\ c.at = "evidence" /\ c.before = "change" /\ c.iteration # 0
        /\ c.spent = q.spent
    BY <2>2, <2>4, <2>5, <2>6, <2>7, RunPlaceParts
  <2>9. RunFits(r, c, pinned')
    BY <1>1, <2>8 DEF RunFits, Affordable, Pinned, Compared, Accepting, OfCandidate
  <2>10. c = [q EXCEPT !.before = q.content, !.at = "evidence"]
    BY <1>1, <2>1, <2>3, <2>6 DEF RunRecord
  <2> QED BY <1>3, <2>9, <2>10 DEF RunGoes
<1> QED BY <1>1, <1>2, <1>3 DEF CheckDiff

\* What is measured is what is there then; what it becomes is compared afterwards.
LEMMA MeasureGoes ==
  ASSUME RunnerInv, ValidConstants, NEW r \in Runs, Measure(r)
  PROVE  RunGoes(r)
<1>1. PICK q : q = run[r] /\ q \in RunRecord /\ Affordable(q) /\ q.at = "evidence"
               /\ q.iteration # 0 /\ q.before = "change"
  BY FitsNow DEF RunnerInv, Measure, RunAt, Compared, Accepting, OfCandidate
<1>2. CASE Sets(r, Stopped)
  BY <1>2, RestingRunFits DEF RunGoes
<1>3. CASE Sets(r, [q EXCEPT !.measured = q.content, !.at = "gate"])
  <2>1. PICK x \in Contents \cup {Nil} : x = q.content
    BY <1>1 DEF RunRecord
  <2>2. PICK d : d = [q EXCEPT !.measured = x]
    OBVIOUS
  <2>3. d \in RunRecord
    BY <1>1, <2>1, <2>2 DEF RunRecord
  <2>4. d.measured = x /\ d.content = x
    BY <1>1, <2>1, <2>2 DEF RunRecord
  <2>5. d.before = "change" /\ d.spent = q.spent /\ d.iteration # 0
    BY <1>1, <2>2 DEF RunRecord
  <2>6. PICK c : c = [d EXCEPT !.at = "gate"]
    OBVIOUS
  <2>7. "gate" \in RunPlaces
    BY DEF RunPlaces
  <2>8. /\ c \in RunRecord /\ c.at = "gate" /\ c.before = "change" /\ c.iteration # 0
        /\ c.spent = q.spent /\ c.measured = c.content
    BY <2>3, <2>4, <2>5, <2>6, <2>7, RunPlaceParts
  <2>9. RunFits(r, c, pinned')
    BY <1>1, <2>8 DEF RunFits, Affordable, Pinned, Compared, Accepting, OfCandidate, Measured
  <2>10. c = [q EXCEPT !.measured = q.content, !.at = "gate"]
    BY <1>1, <2>1, <2>2, <2>6 DEF RunRecord
  <2> QED BY <1>3, <2>9, <2>10 DEF RunGoes
<1> QED BY <1>1, <1>2, <1>3 DEF Measure

\* What has no problem and is what was there earlier is a change the contract permits.
LEMMA NoProblem ==
  ASSUME ValidConstants, NEW x, FinalProblem(x, "change") = Nil
  PROVE  x = "change"
BY DEF FinalProblem, ValidConstants, Problems

LEMMA JudgeGoes ==
  ASSUME RunnerInv, ValidConstants, NEW r \in Runs, Judge(r)
  PROVE  RunGoes(r)
<1>1. PICK q : q = run[r] /\ q \in RunRecord /\ Affordable(q) /\ q.at = "gate"
               /\ q.iteration # 0 /\ q.before = "change"
               /\ (q.content = "change" => Measured(q))
  BY FitsNow DEF RunnerInv, Judge, RunAt, Compared, Accepting, OfCandidate
<1>2. CASE \E decision : Sets(r, Decided(q, decision))
  BY <1>1, <1>2, DecidedFits DEF RunGoes
<1>3. CASE Sets(r, Stopped)
  BY <1>3, RestingRunFits DEF RunGoes
<1>4. CASE /\ Sets(r, [q EXCEPT !.after = q.content, !.at = "precommit"])
           /\ FinalProblem(q.content, q.before) = Nil
  <2>1. PICK x : x = q.content
    OBVIOUS
  <2>2. x = "change" /\ Measured(q) /\ x \in Contents
    BY <1>1, <1>4, <2>1, NoProblem DEF Contents
  <2>3. PICK d : d = [q EXCEPT !.after = x]
    OBVIOUS
  <2>4. d \in RunRecord
    BY <1>1, <2>2, <2>3 DEF RunRecord
  <2>5. d.after = x /\ d.measured = q.measured /\ d.spent = q.spent /\ d.iteration # 0
    BY <1>1, <2>3 DEF RunRecord
  <2>6. PICK c : c = [d EXCEPT !.at = "precommit"]
    OBVIOUS
  <2>7. "precommit" \in RunPlaces
    BY DEF RunPlaces
  <2>8. /\ c \in RunRecord /\ c.at = "precommit" /\ c.after = "change" /\ c.iteration # 0
        /\ c.spent = q.spent /\ c.measured = q.measured
    BY <2>2, <2>4, <2>5, <2>6, <2>7, RunPlaceParts
  <2>9. RunFits(r, c, pinned')
    BY <1>1, <2>2, <2>8 DEF RunFits, Affordable, Pinned, Compared, Accepting, OfCandidate, Measured
  <2>10. c = [q EXCEPT !.after = q.content, !.at = "precommit"]
    BY <1>1, <2>1, <2>3, <2>6 DEF RunRecord
  <2> QED BY <1>4, <2>9, <2>10 DEF RunGoes
<1> QED BY <1>1, <1>2, <1>3, <1>4 DEF Judge

LEMMA PreCommitGoes ==
  ASSUME RunnerInv, ValidConstants, NEW r \in Runs, PreCommit(r)
  PROVE  RunGoes(r)
<1>1. PICK q : q = run[r] /\ q \in RunRecord /\ Affordable(q) /\ q.at = "precommit"
               /\ q.iteration # 0 /\ q.after = "change" /\ Measured(q)
  BY FitsNow DEF RunnerInv, PreCommit, RunAt, Compared, Accepting, OfCandidate
<1>2. CASE Sets(r, Stopped)
  BY <1>2, RestingRunFits DEF RunGoes
<1>3. CASE /\ Sets(r, [q EXCEPT !.pre = q.content, !.at = "commit"])
           /\ FinalProblem(q.content, q.after) = Nil
  <2>1. PICK x : x = q.content
    OBVIOUS
  <2>2. x = "change" /\ x \in Contents
    BY <1>1, <1>3, <2>1, NoProblem DEF Contents
  <2>3. PICK d : d = [q EXCEPT !.pre = x]
    OBVIOUS
  <2>4. d \in RunRecord
    BY <1>1, <2>2, <2>3 DEF RunRecord
  <2>5. d.pre = x /\ d.measured = q.measured /\ d.spent = q.spent /\ d.iteration # 0
    BY <1>1, <2>3 DEF RunRecord
  <2>6. PICK c : c = [d EXCEPT !.at = "commit"]
    OBVIOUS
  <2>7. "commit" \in RunPlaces
    BY DEF RunPlaces
  <2>8. /\ c \in RunRecord /\ c.at = "commit" /\ c.pre = "change" /\ c.iteration # 0
        /\ c.spent = q.spent /\ c.measured = q.measured
    BY <2>2, <2>4, <2>5, <2>6, <2>7, RunPlaceParts
  <2>9. RunFits(r, c, pinned')
    BY <1>1, <2>8 DEF RunFits, Affordable, Pinned, Compared, Accepting, OfCandidate, Measured
  <2>10. c = [q EXCEPT !.pre = q.content, !.at = "commit"]
    BY <1>1, <2>1, <2>3, <2>6 DEF RunRecord
  <2> QED BY <1>3, <2>9, <2>10 DEF RunGoes
<1> QED BY <1>1, <1>2, <1>3 DEF PreCommit

LEMMA CommitCandidateGoes ==
  ASSUME RunnerInv, ValidConstants, NEW r \in Runs, CommitCandidate(r)
  PROVE  RunGoes(r)
<1>1. PICK q : q = run[r] /\ q \in RunRecord /\ Affordable(q) /\ q.at = "commit"
               /\ q.iteration # 0 /\ q.pre = "change" /\ Measured(q)
  BY FitsNow DEF RunnerInv, CommitCandidate, RunAt, Compared, Accepting, OfCandidate
<1>2. CASE Sets(r, Stopped)
  BY <1>2, RestingRunFits DEF RunGoes
<1>3. CASE /\ Sets(r, [q EXCEPT !.pre = q.content, !.at = "pin"])
           /\ FinalProblem(q.content, q.pre) = Nil
  <2>1. PICK x : x = q.content
    OBVIOUS
  <2>2. x = "change" /\ x \in Contents
    BY <1>1, <1>3, <2>1, NoProblem DEF Contents
  <2>3. PICK d : d = [q EXCEPT !.pre = x]
    OBVIOUS
  <2>4. d \in RunRecord
    BY <1>1, <2>2, <2>3 DEF RunRecord
  <2>5. d.pre = x /\ d.measured = q.measured /\ d.spent = q.spent /\ d.iteration # 0
    BY <1>1, <2>3 DEF RunRecord
  <2>6. PICK c : c = [d EXCEPT !.at = "pin"]
    OBVIOUS
  <2>7. "pin" \in RunPlaces
    BY DEF RunPlaces
  <2>8. /\ c \in RunRecord /\ c.at = "pin" /\ c.pre = "change" /\ c.iteration # 0
        /\ c.spent = q.spent /\ c.measured = q.measured
    BY <2>2, <2>4, <2>5, <2>6, <2>7, RunPlaceParts
  <2>9. RunFits(r, c, pinned')
    BY <1>1, <2>8 DEF RunFits, Affordable, Pinned, Compared, Accepting, OfCandidate, Measured
  <2>10. c = [q EXCEPT !.pre = q.content, !.at = "pin"]
    BY <1>1, <2>1, <2>3, <2>6 DEF RunRecord
  <2> QED BY <1>3, <2>9, <2>10 DEF RunGoes
<1> QED BY <1>1, <1>2, <1>3 DEF CommitCandidate

LEMMA FinishGoes ==
  ASSUME ValidConstants, NEW r \in Runs, Finish(r)
  PROVE  RunGoes(r)
BY RestingRunFits DEF Finish, RunGoes

\* A stray write changes what the worktree holds, and nothing that was told of it.
LEMMA DisturbGoes ==
  ASSUME RunnerInv, ValidConstants, NEW r \in Runs, Disturb(r)
  PROVE  RunGoes(r)
<1>1. CASE Sets(r, [Unstarted EXCEPT !.at = "lost"]) \/ Sets(r, Stopped)
  BY <1>1, RestingRunFits DEF RunGoes
<1>2. CASE /\ run[r].before # Nil
           /\ \E c \in Strays \ {run[r].content} : Sets(r, [run[r] EXCEPT !.content = c])
  <2>1. PICK q : q = run[r] /\ q \in RunRecord /\ Affordable(q) /\ Compared(q)
                 /\ Pinned(r, q, pinned) /\ q.before # Nil
    BY <1>2, FitsNow DEF RunnerInv
  <2>2. PICK x \in Strays : Sets(r, [q EXCEPT !.content = x])
    BY <1>2, <2>1
  <2>3. x \in Contents
    BY DEF ValidConstants
  <2>4. PICK c : c = [q EXCEPT !.content = x]
    OBVIOUS
  <2>5. /\ c \in RunRecord /\ c.content = x
        /\ c.at = q.at /\ c.iteration = q.iteration /\ c.base = q.base /\ c.spent = q.spent
        /\ c.before = q.before /\ c.after = q.after
        /\ c.pre = q.pre /\ c.measured = q.measured
    BY <2>1, <2>3, <2>4, ContentParts
  <2>6. q.at # "diff" /\ (NothingPutBack => x # "change")
    BY <2>1 DEF NothingPutBack, Compared, Accepting
  <2>7. pinned' = pinned
    BY DEF Disturb
  <2>8. Compared(c)
    BY <2>1, <2>5, <2>6 DEF Compared, Measured
  <2>9. Affordable(c) /\ Pinned(r, c, pinned')
    BY <2>1, <2>5, <2>7 DEF Affordable, Pinned, TargetOf
  <2> QED BY <2>2, <2>4, <2>5, <2>8, <2>9 DEF RunGoes, RunFits
<1> QED BY <1>1, <1>2 DEF Disturb

-----------------------------------------------------------------------------
(* Every step.                                                               *)

LEMMA StepGoes ==
  ASSUME RunnerInv, ValidConstants, NEW r \in Runs, Step(r)
  PROVE  RunGoes(r)
BY PrepareGoes, PinGoes, MoveActiveRefGoes, RecordGoes, BaselineGoes, NextIterationGoes,
   ProposeGoes, ImplementGoes, CheckDiffGoes, MeasureGoes, JudgeGoes, PreCommitGoes,
   CommitCandidateGoes, FinishGoes, DisturbGoes
   DEF Step

\* Only a recording adds a generation, and what it adds is pinned, was measured and is of a
\* run that can still afford it.
LEMMA Accepts ==
  ASSUME RunnerInv, NEW r \in Runs, RecordGeneration(Generation(r)), RunAt(r, "record")
  PROVE  /\ TargetCommit(r) \in Commits /\ TargetCommit(r) \in pinned
         /\ Generation(r).sha = TargetCommit(r) /\ Generation(r).by = r
         /\ NothingPutBack /\ TargetCommit(r) # HEAD =>
              Generation(r).content = Generation(r).measured
                /\ Problem(Generation(r).content) = Nil
<1>1. PICK q : q = run[r] /\ q \in RunRecord /\ Compared(q) /\ Pinned(r, q, pinned)
               /\ q.at = "record"
  BY FitsNow DEF RunnerInv, RunAt
<1>2. q.iteration \in Nat /\ (q.iteration = 0 => q.base = HEAD)
  BY <1>1 DEF RunRecord, Pinned, Accepting
<1>3. TargetCommit(r) \in Commits /\ (TargetCommit(r) # HEAD => q.iteration # 0)
  BY <1>1, <1>2, HeadIsCommit DEF TargetCommit
<1>4. TargetCommit(r) \in pinned
  BY <1>1 DEF TargetCommit, TargetOf, Pinned
<1>5. /\ Generation(r).sha = TargetCommit(r) /\ Generation(r).by = r
      /\ Generation(r).content = q.pre /\ Generation(r).measured = q.measured
  BY <1>1 DEF Generation
<1>6. q.iteration # 0 => q.pre = "change" /\ Measured(q)
  BY <1>1 DEF Compared, Accepting
<1>7. Problem("change") = Nil
  BY DEF Problem
<1> QED BY <1>3, <1>4, <1>5, <1>6, <1>7 DEF Measured

\* A run leaves the ledger as it was, or ends, or records.
LEMMA StepOnLedger ==
  ASSUME NEW r \in Runs, Step(r)
  PROVE  /\ pinned \subseteq pinned' /\ policy' = policy
         /\ \/ UNCHANGED ledger
            \/ AppendEvent("run.ended", r, Nil)
            \/ RunAt(r, "record") /\ RecordGeneration(Generation(r))
BY DEF Step, PrepareRun, Pin, MoveActiveRef, AcceptGeneration, Baseline, NextIteration, Propose, Implement,
       CheckDiff, Measure, Judge, PreCommit, CommitCandidate, Finish, Disturb, NothingShared

\* What the ledger promises is of its three tables and of what is pinned.
LEMMA LedgerStays ==
  ASSUME RunnerInv, UNCHANGED ledger, pinned \subseteq pinned'
  PROVE  LedgerInv' /\ GenerationsArePinned' /\ (NothingPutBack => AcceptedIsEvaluated')
<1>1. events' = events /\ generations' = generations /\ active' = active
  BY DEF ledger
<1>2. LedgerInv'
  <2>1. GenerationEvents' = GenerationEvents /\ (Intact => Intact')
    BY <1>1 DEF GenerationEvents, Intact
  <2> QED BY <1>1, <2>1 DEF RunnerInv, LedgerInv, LedgerTyped, LedgerIsExplained
<1>3. GenerationsArePinned'
  BY <1>1 DEF RunnerInv, GenerationsArePinned
<1>4. NothingPutBack => AcceptedIsEvaluated'
  BY <1>1 DEF RunnerInv, AcceptedIsEvaluated
<1> QED BY <1>2, <1>3, <1>4

LEMMA StepKeeps ==
  ASSUME RunnerInv, ValidConstants, NEW r \in Runs, Step(r)
  PROVE  RunnerInv'
<1>1. RunInv'
  BY StepGoes, StepOnLedger, RunSetsKeeps DEF RunnerInv
<1>2. pinned \subseteq pinned'
  BY StepOnLedger
<1>3. CASE UNCHANGED ledger
  BY <1>1, <1>2, <1>3, LedgerStays DEF RunnerInv
<1>4. CASE AppendEvent("run.ended", r, Nil)
  <2>1. LedgerInv'
    BY <1>4, OtherEventKeeps DEF RunnerInv
  <2>2. generations' = generations
    BY <1>4 DEF AppendEvent
  <2>3. GenerationsArePinned' /\ (NothingPutBack => AcceptedIsEvaluated')
    BY <1>2, <2>2 DEF RunnerInv, GenerationsArePinned, AcceptedIsEvaluated
  <2> QED BY <1>1, <2>1, <2>3 DEF RunnerInv
<1>5. CASE RunAt(r, "record") /\ RecordGeneration(Generation(r))
  <2>1. PICK g, sha :
          /\ g = Generation(r) /\ sha = TargetCommit(r) /\ sha \in Commits /\ sha \in pinned
          /\ g.sha = sha /\ g.by = r
          /\ NothingPutBack /\ sha # HEAD => g.content = g.measured /\ Problem(g.content) = Nil
    BY <1>5, Accepts
  <2>2. /\ generations' = generations \cup {g} /\ active' = sha
        /\ InsertEvent("generation.accepted", r, sha)
    BY <1>5, <2>1 DEF RecordGeneration
  <2>3. LedgerInv'
    <3>1. {h.sha : h \in generations'} = {h.sha : h \in generations} \cup {sha}
      BY <2>1, <2>2
    <3> QED BY <2>1, <2>2, <3>1, GenerationEventKeeps DEF RunnerInv
  <2>4. GenerationsArePinned'
    BY <1>2, <2>1, <2>2 DEF RunnerInv, GenerationsArePinned
  <2>5. NothingPutBack => AcceptedIsEvaluated'
    BY <2>1, <2>2 DEF RunnerInv, AcceptedIsEvaluated
  <2> QED BY <1>1, <2>3, <2>4, <2>5 DEF RunnerInv
<1> QED BY <1>3, <1>4, <1>5, StepOnLedger

LEMMA RollbackKeepsRun ==
  ASSUME RunnerInv, RollbackCommand
  PROVE  RunnerInv'
<1>1. run' = run /\ pinned' = pinned /\ policy' = policy
  BY DEF RollbackCommand
<1>2. RunInv'
  BY <1>1 DEF RunnerInv, RunInv
<1>3. CASE UNCHANGED ledger
  BY <1>1, <1>2, <1>3, LedgerStays DEF RunnerInv
<1>4. CASE \E g \in generations : RollbackTo(g.sha, Nil)
  <2>1. PICK g \in generations : RollbackTo(g.sha, Nil)
    BY <1>4
  <2>2. PICK sha : sha = g.sha
    OBVIOUS
  <2>3. sha \in Commits \cup {Nil}
    <3>1. \A i \in DOMAIN events : events[i] \in Rows
      BY ElementOfSeq, LenProperties DEF RunnerInv, LedgerInv, LedgerTyped
    <3>2. sha \in {events[i].about : i \in GenerationEvents}
      BY <2>2 DEF RunnerInv, LedgerInv, LedgerIsExplained
    <3> QED BY <3>1, <3>2 DEF GenerationEvents, Rows
  <2>4. /\ generations' = generations /\ active' = sha
        /\ InsertEvent("generation.rollback", Nil, sha)
        /\ {h.sha : h \in generations'} = {h.sha : h \in generations} \cup {sha}
    BY <2>1, <2>2 DEF RollbackTo
  <2>5. LedgerInv'
    BY <2>3, <2>4, GenerationEventKeeps DEF RunnerInv
  <2>6. GenerationsArePinned' /\ (NothingPutBack => AcceptedIsEvaluated')
    BY <1>1, <2>4 DEF RunnerInv, GenerationsArePinned, AcceptedIsEvaluated
  <2> QED BY <1>2, <2>5, <2>6 DEF RunnerInv
<1> QED BY <1>3, <1>4 DEF RollbackCommand

LEMMA ChangePolicyKeeps ==
  ASSUME RunnerInv, ChangePolicy
  PROVE  RunnerInv'
<1>1. run' = run /\ pinned' = pinned /\ policy' \in Nat /\ UNCHANGED ledger
  BY DEF ChangePolicy, RunnerInv, RunInv
<1>2. RunInv'
  BY <1>1 DEF RunnerInv, RunInv
<1> QED BY <1>1, <1>2, LedgerStays DEF RunnerInv

LEMMA InitInv ==
  ASSUME ValidConstants, RunnerInit
  PROVE  RunnerInv
<1>1. LedgerInv
  <2>1. events = << >> /\ DOMAIN events = {} /\ events \in Seq(Rows)
    BY EmptySeq DEF RunnerInit, LedgerInit
  <2> QED BY <2>1 DEF RunnerInit, LedgerInit, LedgerInv, LedgerTyped, LedgerIsExplained, Intact,
                      GenerationEvents
<1>2. RunInv
  <2>1. \A r \in Runs : RunFits(r, Unstarted, pinned)
    BY RestingRunFits
  <2> QED BY <2>1 DEF RunnerInit, RunInv, RunFits
<1>3. GenerationsArePinned /\ AcceptedIsEvaluated
  BY DEF RunnerInit, LedgerInit, GenerationsArePinned, AcceptedIsEvaluated
<1> QED BY <1>1, <1>2, <1>3 DEF RunnerInv

LEMMA NextInv ==
  ASSUME RunnerInv, ValidConstants, [RunnerNext]_runnerVars
  PROVE  RunnerInv'
<1>1. CASE UNCHANGED runnerVars
  <2>1. run' = run /\ pinned' = pinned /\ policy' = policy /\ UNCHANGED ledger
    BY <1>1 DEF runnerVars
  <2>2. RunInv'
    BY <2>1 DEF RunnerInv, RunInv
  <2> QED BY <2>1, <2>2, LedgerStays DEF RunnerInv
<1> QED BY <1>1, StepKeeps, RollbackKeepsRun, ChangePolicyKeeps DEF RunnerNext

LEMMA Invariant == ValidConstants /\ RunnerSpec => []RunnerInv
<1> SUFFICES ASSUME ValidConstants
             PROVE  RunnerSpec => []RunnerInv
  OBVIOUS
<1>1. RunnerInit => RunnerInv
  BY InitInv
<1>2. RunnerInv /\ [RunnerNext]_runnerVars => RunnerInv'
  BY NextInv
<1> QED BY <1>1, <1>2, PTL DEF RunnerSpec

-----------------------------------------------------------------------------
(* The theorems.                                                             *)

\* Whatever runs and rollbacks interleave, the chain of the ledger verifies and its tables are
\* what its events say: insertEvent reads the tail in the transaction that appends, and the
\* row, the event and the active generation are one transaction.
THEOREM LedgerHolds == ValidConstants /\ RunnerSpec => []LedgerIsExplained
<1>1. RunnerInv => LedgerIsExplained
  BY DEF RunnerInv, LedgerInv
<1> QED BY <1>1, Invariant, PTL

\* Every generation is pinned before it is recorded, and what it commits was measured and is
\* permitted, if no stray write puts back what another replaced while it is measured.
THEOREM GenerationsHold == ValidConstants /\ NothingPutBack /\ RunnerSpec => []GenerationsAreGenuine
<1> SUFFICES ASSUME ValidConstants, NothingPutBack
             PROVE  RunnerSpec => []GenerationsAreGenuine
  OBVIOUS
<1>1. RunnerInv => GenerationsAreGenuine
  BY DEF RunnerInv, GenerationsAreGenuine
<1> QED BY <1>1, Invariant, PTL

\* Every generation is pinned, whatever is written to the worktrees.
THEOREM PinnedFirst == ValidConstants /\ RunnerSpec => []GenerationsArePinned
<1>1. RunnerInv => GenerationsArePinned
  BY DEF RunnerInv
<1> QED BY <1>1, Invariant, PTL

\* A run whose adapters used up a limit records no generation: it is stopped by the charge
\* that reaches the limit, before anything it made is looked at.
THEOREM LimitsStopRuns == ValidConstants /\ RunnerSpec => ExhaustedAcceptsNothing
<1> DEFINE Kept == \A g \in generations' \ generations :
                     \A m \in Meters : Limits[m] = Nil \/ run[g.by].spent[m] < Limits[m]
<1> SUFFICES ASSUME ValidConstants
             PROVE  RunnerSpec => ExhaustedAcceptsNothing
  OBVIOUS
<1>1. RunnerInv /\ [RunnerNext]_runnerVars => [Kept]_runnerVars
  <2> SUFFICES ASSUME RunnerInv, RunnerNext
               PROVE  Kept
    OBVIOUS
  <2>1. ASSUME NEW r \in Runs, Step(r)
        PROVE  Kept
    <3>1. CASE generations' = generations
      BY <3>1
    <3>2. CASE RunAt(r, "record") /\ RecordGeneration(Generation(r))
      <4>1. generations' = generations \cup {Generation(r)} /\ Generation(r).by = r
        BY <3>2, Accepts DEF RecordGeneration
      <4>2. Affordable(run[r])
        BY FitsNow DEF RunnerInv
      <4> QED BY <4>1, <4>2 DEF Affordable
    <3> QED BY <2>1, <3>1, <3>2, StepOnLedger DEF ledger, AppendEvent
  <2>2. CASE RollbackCommand \/ ChangePolicy
    BY <2>2 DEF RollbackCommand, ChangePolicy, RollbackTo, ledger
  <2> QED BY <2>1, <2>2 DEF RunnerNext
<1> QED BY <1>1, Invariant, PTL DEF RunnerSpec, ExhaustedAcceptsNothing
=============================================================================
