---------------------------- MODULE AdmissionProofs ----------------------------
(***************************************************************************)
(* What an effect has shown before its host is called, for every task, root,  *)
(* policy, host and number of changes meanwhile: authority only shrinks, what  *)
(* is sent has its evidence at that moment, and the host runs it once.          *)
(***************************************************************************)
EXTENDS Admission, SequenceTheorems, TLAPS

-----------------------------------------------------------------------------
(* Grants.                                                                   *)

IsGrant(g) ==
  /\ IsScope(g.scope) /\ g.depth \in Int /\ g.expires \in Nat \cup {None}
  /\ g.epoch \in Int /\ g.epoch <= Root.epoch

ChainInv ==
  /\ chain # <<>> /\ \E S : chain \in Seq(S)
  /\ \A i \in DOMAIN chain : IsGrant(chain[i])
  /\ revoked \in Nat /\ AuthorityShrinks



\* The maximum and the minimum of two integers (Math.max, Math.min).
LEMMA MaxOfTwo ==
  ASSUME NEW a \in Int, NEW b \in Int
  PROVE  Rules!Max({a, b}) \in {a, b} /\ a <= Rules!Max({a, b}) /\ b <= Rules!Max({a, b})
<1>1. \E x \in {a, b} : \A y \in {a, b} : x >= y
  <2>1. CASE a >= b
    BY <2>1
  <2>2. CASE b >= a
    BY <2>2
  <2> QED BY <2>1, <2>2
<1> QED BY <1>1 DEF Rules!Max

\* What Math.min returns.
LEMMA MinOfTwo ==
  ASSUME NEW a \in Int, NEW b \in Int
  PROVE  Rules!Min({a, b}) \in {a, b} /\ Rules!Min({a, b}) <= a /\ Rules!Min({a, b}) <= b
<1>1. \E x \in {a, b} : \A y \in {a, b} : x <= y
  <2>1. CASE a <= b
    BY <2>1
  <2>2. CASE b <= a
    BY <2>2
  <2> QED BY <2>1, <2>2
<1> QED BY <1>1 DEF Rules!Min

\* The earliest of two expiries is the expiry of one and past neither (earliestInstant).
LEMMA EarliestOfTwo ==
  ASSUME ValidConstants, NEW a \in Nat \cup {None}, NEW b \in Nat \cup {None}
  PROVE  LET e == Rules!EarliestInstant(a, b)
         IN /\ e \in Nat \cup {None}
            /\ a # None => e # None /\ e <= a
            /\ b # None => e # None /\ e <= b
<1>1. CASE a = None \/ b = None
  BY <1>1 DEF Rules!EarliestInstant, ValidConstants
<1>2. CASE a # None /\ b # None
  <2>1. Rules!EarliestInstant(a, b) = Rules!Min({a, b})
    BY <1>2 DEF Rules!EarliestInstant
  <2>2. Rules!Min({a, b}) \in {a, b} /\ Rules!Min({a, b}) <= a /\ Rules!Min({a, b}) <= b
    BY <1>2, MinOfTwo
  <2> QED BY <1>2, <2>1, <2>2 DEF ValidConstants
<1> QED BY <1>1, <1>2

\* A ceiling is within each of the scopes it is the intersection of.
LEMMA CeilingWithin ==
  ASSUME NEW root, NEW parent, NEW task
  PROVE  LET c == Rules!Ceiling(root, parent, task)
         IN /\ \A f \in {"reads", "writes", "artifacts"} : c[f] \subseteq parent.scope[f]
            /\ c.domain \in {"os-sandbox", "same-user"}
            /\ c.domain = "os-sandbox" => parent.scope.domain = "os-sandbox"
<1> DEFINE all == ToSet(<<root.scope, parent.scope, task>>)
<1>1. parent.scope \in all
  BY DEF ToSet
<1> QED BY <1>1 DEF Rules!Ceiling, Rules!IntersectScopes, Rules!ToSet, ToSet

\* A grant that deriveAuthority gives is a grant of its own, within its parent.
LEMMA DerivedNarrows ==
  ASSUME ValidConstants, NEW parent, IsGrant(parent), NEW q \in Requests, revoked \in Nat,
         Rules!AuthorityError(Root, parent, Task.scope, q, now, revoked) = None
  PROVE  LET given == Rules!DeriveAuthority(Root, parent, Task.scope, q)
             child == [scope |-> given.scope, caps |-> given.caps, nodes |-> given.nodes,
                       depth |-> given.depth, expires |-> given.expires, epoch |-> revoked]
         IN IsGrant(child) /\ Narrows(child, parent)
<1> DEFINE ceiling == Rules!Ceiling(Root, parent, Task.scope)
           expires == Rules!EarliestInstant(Root.expires, parent.expires)
           depth == Rules!Min({Root.depth, parent.depth})
           given == Rules!DeriveAuthority(Root, parent, Task.scope, q)
           child == [scope |-> given.scope, caps |-> given.caps, nodes |-> given.nodes,
                     depth |-> given.depth, expires |-> given.expires, epoch |-> revoked]
<1>1. /\ \A f \in {"reads", "writes", "artifacts"} : ceiling[f] \subseteq parent.scope[f]
      /\ ceiling.domain = "os-sandbox" => parent.scope.domain = "os-sandbox"
  BY CeilingWithin
<1>2. /\ revoked <= Rules!Max({Root.epoch, parent.epoch})
      /\ Rules!ScopeViolations(q.scope, ceiling) = {}
      /\ q.caps \subseteq Root.caps \cap parent.caps
      /\ q.node \in Root.nodes \cap parent.nodes
  <2>1. Rules!Max({Root.epoch, parent.epoch}) \in Int
    <3>1. PICK a \in Int, b \in Int : a = Root.epoch /\ b = parent.epoch
      BY DEF ValidConstants, IsGrant
    <3> QED BY <3>1, MaxOfTwo
  <2>2. "GRANT_EXPIRED" # None /\ "GRANT_REVOKED" # None /\ "AUTHORITY_DENIED" # None
    BY DEF ValidConstants, Reasons
  <2> QED BY <2>1, <2>2 DEF Rules!AuthorityError
<1>3. revoked <= Root.epoch
  <2>1. PICK a \in Int, b \in Int : a = Root.epoch /\ b = parent.epoch /\ b <= a
    BY DEF ValidConstants, IsGrant
  <2>2. Rules!Max({a, b}) \in {a, b}
    BY <2>1, MaxOfTwo
  <2> QED BY <1>2, <2>1, <2>2
<1>4. q.scope.reads \subseteq ceiling.reads /\ q.scope.writes \subseteq ceiling.writes
      /\ q.scope.artifacts \subseteq ceiling.artifacts
  BY <1>2 DEF Rules!ScopeViolations
<1>5. /\ expires \in Nat \cup {None}
      /\ parent.expires # None => expires # None /\ expires <= parent.expires
  BY EarliestOfTwo DEF ValidConstants, IsGrant
<1>6. depth \in Int /\ depth <= parent.depth
  <2>1. Root.depth \in Int /\ parent.depth \in Int
    BY DEF ValidConstants, IsGrant
  <2>2. depth \in {Root.depth, parent.depth} /\ depth <= parent.depth
    BY <2>1, MinOfTwo
  <2> QED BY <2>1, <2>2
<1>7. given = [scope |-> [q.scope EXCEPT !.workspace = IF @ = None THEN ceiling.workspace ELSE @,
                                         !.domain = Rules!WeakerTrustDomain(@, ceiling.domain)],
               caps |-> q.caps, nodes |-> {q.node}, depth |-> depth - 1, expires |-> expires]
  BY DEF Rules!DeriveAuthority
<1>8. IsScope(q.scope)
  BY DEF ValidConstants
<1>9. /\ given.scope.reads = q.scope.reads /\ given.scope.writes = q.scope.writes
      /\ given.scope.artifacts = q.scope.artifacts
      /\ given.scope.domain = Rules!WeakerTrustDomain(q.scope.domain, ceiling.domain)
      /\ given.scope = [workspace |-> given.scope.workspace, reads |-> given.scope.reads,
                        writes |-> given.scope.writes, artifacts |-> given.scope.artifacts,
                        domain |-> given.scope.domain]
  <2> DEFINE asked == q.scope
  <2>1. asked = [workspace |-> asked.workspace, reads |-> asked.reads, writes |-> asked.writes,
                 artifacts |-> asked.artifacts, domain |-> asked.domain]
    BY <1>8 DEF IsScope
  <2>2. given.scope = [asked EXCEPT !.workspace = IF @ = None THEN ceiling.workspace ELSE @,
                                    !.domain = Rules!WeakerTrustDomain(@, ceiling.domain)]
    BY <1>7
  <2> HIDE DEF asked, given, ceiling
  <2>3. given.scope = [workspace |-> IF asked.workspace = None THEN ceiling.workspace ELSE asked.workspace,
                       reads |-> asked.reads, writes |-> asked.writes, artifacts |-> asked.artifacts,
                       domain |-> Rules!WeakerTrustDomain(asked.domain, ceiling.domain)]
    BY <2>1, <2>2
  <2> QED BY <2>3 DEF asked
<1>10. /\ given.scope.domain \in {"os-sandbox", "same-user"}
       /\ given.scope.domain = "os-sandbox" => ceiling.domain = "os-sandbox"
  BY <1>9 DEF Rules!WeakerTrustDomain
<1>11. IsGrant(child)
  BY <1>3, <1>5, <1>6, <1>7, <1>9, <1>10 DEF IsGrant, IsScope
<1>12. Narrows(child, parent)
  BY <1>1, <1>2, <1>4, <1>5, <1>6, <1>7, <1>9, <1>10 DEF Narrows, IsGrant
<1> QED BY <1>11, <1>12

\* What narrows a grant that narrows another narrows that one.
LEMMA NarrowsOn ==
  ASSUME ValidConstants, NEW a, NEW b, NEW c, IsGrant(a), IsGrant(b), IsGrant(c),
         Narrows(a, b), Narrows(b, c)
  PROVE  Narrows(a, c)
BY DEF Narrows, IsGrant, ValidConstants

\* At first the chain is the root alone, of an epoch nobody revoked.
LEMMA InitChain == ValidConstants /\ Init => ChainInv
<1> SUFFICES ASSUME ValidConstants, Init
             PROVE  ChainInv
  OBVIOUS
<1>1. chain \in Seq({Root}) /\ DOMAIN chain = {1} /\ chain[1] = Root
  BY DEF Init
<1>2. IsGrant(Root)
  BY DEF IsGrant, ValidConstants
<1>3. chain # <<>> /\ revoked = 0
  BY DEF Init
<1> QED BY <1>1, <1>2, <1>3 DEF ChainInv, AuthorityShrinks

\* The step of a derivation, of a revocation and every other one.
LEMMA ChainStep ==
  ASSUME ValidConstants, ChainInv, [Next]_vars
  PROVE  ChainInv'
<1>1. ASSUME NEW q \in Requests, Derive(q) PROVE ChainInv'
  <2> DEFINE parent == chain[Len(chain)]
             given == Rules!DeriveAuthority(Root, parent, Task.scope, q)
             child == [scope |-> given.scope, caps |-> given.caps, nodes |-> given.nodes,
                       depth |-> given.depth, expires |-> given.expires, epoch |-> revoked]

  <2>1. chain' = Append(chain, child) /\ revoked' = revoked
        /\ Rules!AuthorityError(Root, parent, Task.scope, q, now, revoked) = None
    BY <1>1 DEF Derive
  <2>2. PICK S : chain \in Seq(S)
    BY DEF ChainInv
  <2>3. PICK n \in Nat : n = Len(chain) /\ DOMAIN chain = 1 .. n
    BY <2>2, LenProperties
  <2>4. n \in DOMAIN chain
    <3>1. chain # <<>>
      BY DEF ChainInv
    <3>2. n # 0
      BY <2>2, <2>3, <3>1, EmptySeq
    <3> QED BY <2>3, <3>2
  <2>5. IsGrant(parent)
    BY <2>4 DEF ChainInv
  <2>6. IsGrant(child) /\ Narrows(child, parent)
    BY <2>1, <2>5, DerivedNarrows DEF ChainInv
  <2> HIDE DEF child, parent, given
  <2>7. chain \in Seq(S \cup {child})
    BY <2>2
  <2>8. /\ chain' \in Seq(S \cup {child}) /\ DOMAIN chain' = 1 .. (n + 1)
        /\ \A i \in 1 .. n : chain'[i] = chain[i]
        /\ chain'[n + 1] = child
    BY <2>1, <2>3, <2>7, AppendProperties
  <2>9. \A i \in DOMAIN chain' : IsGrant(chain'[i])
    BY <2>3, <2>6, <2>8 DEF ChainInv
  <2>10. \A i \in 1 .. n : Narrows(child, chain[i])
    <3> TAKE i \in 1 .. n
    <3>1. CASE i = n
      BY <2>3, <2>6, <3>1 DEF parent
    <3>2. CASE i < n
      <4>1. Narrows(parent, chain[i])
        BY <2>3, <2>4, <3>2 DEF ChainInv, AuthorityShrinks, parent
      <4> QED BY <2>3, <2>5, <2>6, <4>1, NarrowsOn DEF ChainInv
    <3>3. i = n \/ i < n
      BY <2>3
    <3> QED BY <3>1, <3>2, <3>3
  <2>11. AuthorityShrinks'
    <3> SUFFICES ASSUME NEW i \in DOMAIN chain', NEW j \in DOMAIN chain', i < j
                 PROVE  Narrows(chain'[j], chain'[i])
      BY DEF AuthorityShrinks, Narrows
    <3>1. CASE j = n + 1
      BY <2>3, <2>8, <2>10, <3>1
    <3>2. CASE j # n + 1
      BY <2>3, <2>8, <3>2 DEF ChainInv, AuthorityShrinks
    <3> QED BY <3>1, <3>2
  <2> QED BY <2>1, <2>8, <2>9, <2>11 DEF ChainInv
<1>2. ASSUME chain' = chain, revoked' \in Nat PROVE ChainInv'
  BY <1>2 DEF ChainInv, AuthorityShrinks
<1>3. ASSUME Meanwhile PROVE ChainInv'
  BY <1>2, <1>3 DEF Meanwhile, Around, ChainInv
<1>4. ASSUME UNCHANGED <<chain, revoked>> PROVE ChainInv'
  BY <1>2, <1>4 DEF ChainInv
<1>5. ASSUME NEW o \in DOMAIN Operations, Plan(o) \/ Dispatch(o) \/ Deliver(o) PROVE ChainInv'
  BY <1>4, <1>5 DEF Plan, Dispatch, Deliver
<1>6. ASSUME Reconcile PROVE ChainInv'
  BY <1>4, <1>6 DEF Reconcile
<1>7. ASSUME NEW r \in DOMAIN Inputs, NEW c, PutArtifact(r, c) PROVE ChainInv'
  BY <1>4, <1>7 DEF PutArtifact
<1>8. ASSUME UNCHANGED vars PROVE ChainInv'
  BY <1>4, <1>8 DEF vars
<1> QED BY <1>1, <1>3, <1>5, <1>6, <1>7, <1>8 DEF Next

\* For every root, task and number of derivations, revocations and expiries, a grant is no more
\* than any grant it comes from (deriveAuthority): children cannot widen what they were given.
THEOREM DelegationShrinks == ValidConstants /\ Spec => []AuthorityShrinks
<1> SUFFICES ASSUME ValidConstants
             PROVE  Spec => []AuthorityShrinks
  OBVIOUS
<1>1. ChainInv => AuthorityShrinks
  BY DEF ChainInv
<1> QED BY InitChain, ChainStep, <1>1, PTL DEF Spec

-----------------------------------------------------------------------------
(* Effects and claims.                                                       *)

\* The effect that was planned for an operation.
IsEffect(e, o) ==
  /\ e = [id |-> o, key |-> <<"send", o>>, kind |-> Operations[o].kind, durable |-> Operations[o].durable,
          targets |-> Operations[o].targets, inputs |-> Operations[o].inputs, epoch |-> e.epoch,
          grant |-> e.grant, reservation |-> e.reservation, leases |-> e.leases, deadline |-> e.deadline]
  /\ e.kind # "host.cancel" => \E l \in e.leases : l.epoch = e.epoch

EffectsInv ==
  /\ DOMAIN effects = DOMAIN Operations
  /\ effects = [o \in DOMAIN effects |-> effects[o]]
  /\ \A o \in DOMAIN Operations : effects[o] # None => IsEffect(effects[o], o)
  /\ claimed \subseteq {o \in DOMAIN Operations : effects[o] # None}

\* What is planned is an effect, stays the same and is claimed afterwards.
LEMMA EffectsStep ==
  ASSUME EffectsInv, [Next]_vars
  PROVE  /\ EffectsInv' /\ claimed \subseteq claimed'
         /\ \A o \in DOMAIN Operations : effects[o] # None => effects'[o] = effects[o]
<1> DEFINE Goal == /\ EffectsInv' /\ claimed \subseteq claimed'
                   /\ \A o \in DOMAIN Operations : effects[o] # None => effects'[o] = effects[o]
<1>1. ASSUME NEW o \in DOMAIN Operations, Plan(o) PROVE Goal
  <2>1. effects[o] = None /\ effects' = [effects EXCEPT ![o] = NewEffect(o)] /\ claimed' = claimed
    BY <1>1 DEF Plan
  <2>2. IsEffect(NewEffect(o), o)
    <3>1. ASSUME NewEffect(o).kind # "host.cancel"
          PROVE  \E l \in NewEffect(o).leases : l.epoch = NewEffect(o).epoch
      BY <3>1 DEF NewEffect
    <3> QED BY <3>1 DEF NewEffect, IsEffect
  <2> QED BY <2>1, <2>2 DEF EffectsInv
<1>2. ASSUME NEW o \in DOMAIN Operations, Dispatch(o) PROVE Goal
  BY <1>2 DEF Dispatch, EffectsInv
<1>3. ASSUME UNCHANGED <<effects, claimed>> PROVE Goal
  BY <1>3 DEF EffectsInv
<1>4. ASSUME NEW o \in DOMAIN Operations, Deliver(o) PROVE Goal
  BY <1>3, <1>4 DEF Deliver
<1>5. ASSUME Reconcile PROVE Goal
  BY <1>3, <1>5 DEF Reconcile
<1>6. ASSUME NEW q, Derive(q) PROVE Goal
  BY <1>3, <1>6 DEF Derive
<1>7. ASSUME NEW r, NEW c, PutArtifact(r, c) PROVE Goal
  BY <1>3, <1>7 DEF PutArtifact
<1>8. ASSUME Meanwhile PROVE Goal
  BY <1>3, <1>8 DEF Meanwhile
<1>9. ASSUME UNCHANGED vars PROVE Goal
  BY <1>3, <1>9 DEF vars
<1> QED BY <1>1, <1>2, <1>4, <1>5, <1>6, <1>7, <1>8, <1>9 DEF Next

-----------------------------------------------------------------------------
(* The host.                                                                 *)

KeysFit == \A k \in DOMAIN byKey : byKey[k].effect.key = k

RunsFit ==
  /\ DOMAIN runs = DOMAIN ran /\ DOMAIN ran \subseteq claimed
  /\ \A o \in DOMAIN ran :
       /\ runs[o] = 1 /\ Guaranteed(ran[o])
       /\ ran[o].id = o /\ <<"send", o>> \in DOMAIN byKey

\* What the host says of an effect that costs something, it says of one it ran.
ReceiptsFit ==
  /\ DOMAIN last \subseteq claimed
  /\ \A o \in DOMAIN last :
       last[o] # "not-executed" /\ effects[o].kind \in Billable => o \in DOMAIN ran

HostInv == KeysFit /\ RunsFit /\ ReceiptsFit

\* What is recorded of receipts.
LEMMA RecordLeaves ==
  ASSUME NEW receipts, Record(receipts), KeysFit
  PROVE  /\ KeysFit'
         /\ DOMAIN byKey' = DOMAIN byKey \cup {r.effect.key : r \in receipts}
         /\ DOMAIN last' = DOMAIN last \cup {r.effect.id : r \in receipts}
         /\ \A i \in DOMAIN last' :
              \/ \E r \in receipts : r.effect.id = i /\ last'[i] = r.status
              \/ i \in DOMAIN last /\ last'[i] = last[i]
<1> DEFINE of(key) == CHOOSE r \in receipts : r.effect.key = key
           for(id) == CHOOSE r \in receipts : r.effect.id = id
           ids == {r.effect.id : r \in receipts}
           keys == {r.effect.key : r \in receipts}
<1>1. /\ byKey' = [k \in DOMAIN byKey \cup keys |-> IF k \in keys THEN of(k) ELSE byKey[k]]
      /\ last' = [i \in DOMAIN last \cup ids |-> IF i \in ids THEN for(i).status ELSE last[i]]
  BY DEF Record
<1>2. \A k \in keys : of(k) \in receipts /\ of(k).effect.key = k
  OBVIOUS
<1>3. \A i \in ids : for(i) \in receipts /\ for(i).effect.id = i
  OBVIOUS
<1> HIDE DEF of, for
<1>4. KeysFit'
  BY <1>1, <1>2 DEF KeysFit
<1>5. ASSUME NEW i \in DOMAIN last'
      PROVE  \/ \E r \in receipts : r.effect.id = i /\ last'[i] = r.status
             \/ i \in DOMAIN last /\ last'[i] = last[i]
  <2>1. CASE i \in ids
    BY <1>1, <1>3, <2>1
  <2>2. CASE i \notin ids
    BY <1>1, <2>2
  <2> QED BY <2>1, <2>2
<1> QED BY <1>1, <1>4, <1>5

\* Only what was run is read back.
LEMMA ReadBackOfRuns ==
  ASSUME RunsFit, NEW targets
  PROVE  \A r \in Reconciled(targets) : r.effect.id \in DOMAIN ran
<1> SUFFICES ASSUME NEW t \in targets, Verdict(t) = "resolved"
             PROVE  ran[t].id \in DOMAIN ran
  BY DEF Reconciled
<1>1. t \in DOMAIN ran
  BY DEF Verdict
<1> QED BY <1>1 DEF RunsFit

\* At first nothing is planned, kept or run.
LEMMA InitHost == Init => EffectsInv /\ HostInv
BY DEF Init, FakeInit, Empty, EffectsInv, HostInv, KeysFit, RunsFit, ReceiptsFit

\* An effect that is delivered is run at most once: its first key is kept, and another one is
\* minted only for what is unknown, which is no blind retry (host-fake.ts execute).
LEMMA DeliveredOnce ==
  ASSUME EffectsInv, HostInv, NEW o \in DOMAIN Operations, Deliver(o)
  PROVE  HostInv'
<1>1. /\ o \in claimed /\ IsEffect(effects[o], o)
      /\ UNCHANGED <<claimed, effects>>
  BY DEF Deliver, EffectsInv
<1>2. PICK key \in {effects[o].key, <<"again", o>>} :
        /\ key # effects[o].key => effects[o].kind \in Billable /\ o \in DOMAIN last /\ last[o] = "unknown"
        /\ Execute([effects[o] EXCEPT !.key = key], now)
  BY DEF Deliver
<1> DEFINE e == [effects[o] EXCEPT !.key = key]
<1>3. e.id = o /\ e.key = key /\ e.kind = effects[o].kind /\ effects[o].key = <<"send", o>>
  BY <1>1 DEF IsEffect
<1> HIDE DEF e
<1>4. e.key \notin DOMAIN byKey /\ Supported(e) /\ Execute(e, now)
  BY <1>2 DEF Execute, e
<1>5. matrix' = matrix /\ \A t : CapabilityStatus(matrix', t) = CapabilityStatus(matrix, t)
  BY <1>4 DEF Execute
<1>6. KeysFit /\ RunsFit /\ ReceiptsFit
  BY DEF HostInv
\* What is not run leaves a receipt that claims no run.
<1>7. ASSUME NEW receipts, Record(receipts), UNCHANGED <<ran, runs>>,
             \A r \in receipts : \/ r.effect.id \in DOMAIN ran
                                 \/ r.effect.id = o /\ (r.status = "not-executed" \/ e.kind \notin Billable)
      PROVE  HostInv'
  <2>1. /\ KeysFit' /\ DOMAIN byKey \subseteq DOMAIN byKey'
        /\ DOMAIN last' = DOMAIN last \cup {r.effect.id : r \in receipts}
        /\ \A i \in DOMAIN last' :
             \/ \E r \in receipts : r.effect.id = i /\ last'[i] = r.status
             \/ i \in DOMAIN last /\ last'[i] = last[i]
    BY <1>6, <1>7, RecordLeaves
  <2>2. RunsFit'
    BY <1>1, <1>5, <1>6, <1>7, <2>1 DEF RunsFit, Guaranteed
  <2>3. ReceiptsFit'
    BY <1>1, <1>3, <1>6, <1>7, <2>1 DEF RunsFit, ReceiptsFit
  <2> QED BY <2>1, <2>2, <2>3 DEF HostInv
<1>8. CASE e.kind = "host.cancel" /\ Record({[effect |-> e, status |-> CancelOutcome(e.targets)]})
           /\ UNCHANGED <<ran, runs>>
  BY <1>3, <1>7, <1>8 DEF Billable
<1>9. ASSUME e.kind = "host.reconcile", NEW status,
             Record(Reconciled(e.targets) \cup {[effect |-> e, status |-> status]}), UNCHANGED <<ran, runs>>
      PROVE  HostInv'
  <2>1. \A r \in Reconciled(e.targets) : r.effect.id \in DOMAIN ran
    BY <1>6, ReadBackOfRuns
  <2> QED BY <1>3, <1>7, <1>9, <2>1 DEF Billable
<1>10. CASE Record({[effect |-> e, status |-> "not-executed"]}) /\ UNCHANGED <<ran, runs>>
  BY <1>3, <1>7, <1>10
<1>11. CASE /\ ~BlindRetry(e) /\ e.kind \notin {"host.cancel", "host.reconcile"}
            /\ Record({[effect |-> e, status |-> script.outcome]})
            /\ ran' = Put(ran, e.id, e) /\ runs' = Put(runs, e.id, Count(runs, e.id) + 1)
  <2>1. o \notin DOMAIN ran /\ key = <<"send", o>>
    <3>1. CASE key = <<"send", o>>
      BY <1>3, <1>4, <1>6, <3>1 DEF RunsFit
    <3>2. CASE key # <<"send", o>>
      <4>1. e.kind \in Billable /\ o \in DOMAIN last /\ last[o] = "unknown"
        BY <1>2, <1>3, <3>2
      <4>2. e.kind \notin IdempotentKinds
        BY <4>1 DEF Billable, IdempotentKinds
      <4> QED BY <1>3, <1>11, <4>1, <4>2 DEF BlindRetry, Dispatched
    <3> QED BY <3>1, <3>2
  <2>2. /\ KeysFit' /\ DOMAIN byKey' = DOMAIN byKey \cup {key}
        /\ DOMAIN last' = DOMAIN last \cup {o}
        /\ \A i \in DOMAIN last' : i = o \/ (i \in DOMAIN last /\ last'[i] = last[i])
    <3>0. PICK receipts : receipts = {[effect |-> e, status |-> script.outcome]}
      OBVIOUS
    <3>1. /\ KeysFit' /\ DOMAIN byKey' = DOMAIN byKey \cup {r.effect.key : r \in receipts}
          /\ DOMAIN last' = DOMAIN last \cup {r.effect.id : r \in receipts}
          /\ \A i \in DOMAIN last' :
               \/ \E r \in receipts : r.effect.id = i /\ last'[i] = r.status
               \/ i \in DOMAIN last /\ last'[i] = last[i]
      BY <1>6, <1>11, <3>0, RecordLeaves
    <3> QED BY <1>3, <3>0, <3>1
  <2>3. /\ DOMAIN ran' = DOMAIN ran \cup {o} /\ DOMAIN runs' = DOMAIN runs \cup {o}
        /\ ran'[o] = e /\ \A i \in DOMAIN ran : ran'[i] = ran[i]
        /\ runs'[o] = 1 /\ \A i \in DOMAIN ran : runs'[i] = runs[i]
    BY <1>3, <1>6, <1>11, <2>1 DEF RunsFit, Put, Count
  <2>4. Guaranteed(e)
    <3>1. ASSUME e.durable PROVE CapabilityStatus(matrix, "teamMessageDelivery") = "verified"
      <4>1. Demand("teamMessageDelivery", Verified) \in RequiredCapabilities(e, {})
        BY <3>1 DEF RequiredCapabilities, PayloadRequirements
      <4> QED BY <1>4, <4>1 DEF Supported, CapabilityGate, JudgeRequirements, Demand, Verified
    <3> QED BY <3>1 DEF Guaranteed
  <2>5. RunsFit'
    <3>1. \A i \in DOMAIN ran' :
            ran'[i].durable => CapabilityStatus(matrix', "teamMessageDelivery") = "verified"
      BY <1>5, <1>6, <2>3, <2>4 DEF RunsFit, Guaranteed
    <3>2. \A i \in DOMAIN ran' : /\ runs'[i] = 1 /\ ran'[i].id = i /\ <<"send", i>> \in DOMAIN byKey'
      BY <1>3, <1>6, <2>1, <2>2, <2>3 DEF RunsFit
    <3>3. DOMAIN runs' = DOMAIN ran' /\ DOMAIN ran' \subseteq claimed'
      BY <1>1, <1>6, <2>3 DEF RunsFit
    <3> QED BY <3>1, <3>2, <3>3 DEF RunsFit, Guaranteed
  <2>6. ReceiptsFit'
    BY <1>1, <1>6, <2>2, <2>3 DEF ReceiptsFit
  <2> QED BY <2>2, <2>5, <2>6 DEF HostInv
<1> QED BY <1>4, <1>8, <1>9, <1>10, <1>11 DEF Execute

\* Every step of the host or of the gates keeps what is kept, run and reported in step.
LEMMA HostStep ==
  ASSUME EffectsInv, HostInv, [Next]_vars
  PROVE  HostInv'
<1>1. /\ EffectsInv' /\ claimed \subseteq claimed'
      /\ \A o \in DOMAIN Operations : effects[o] # None => effects'[o] = effects[o]
  BY EffectsStep
<1>2. ASSUME UNCHANGED fakeVars PROVE HostInv'
  <2>1. DOMAIN last \subseteq claimed /\ \A o \in DOMAIN last : effects'[o] = effects[o]
    BY <1>1 DEF HostInv, ReceiptsFit, EffectsInv
  <2>2. KeysFit' /\ RunsFit'
    BY <1>1, <1>2 DEF HostInv, KeysFit, RunsFit, fakeVars, Guaranteed
  <2>3. ReceiptsFit'
    BY <1>1, <1>2, <2>1 DEF HostInv, ReceiptsFit, fakeVars
  <2> QED BY <2>2, <2>3 DEF HostInv
<1>3. ASSUME Reconcile PROVE HostInv'
  <2>1. /\ Record(Reconciled(claimed)) /\ UNCHANGED <<matrix, ran, runs, claimed, effects>>
        /\ KeysFit /\ RunsFit /\ ReceiptsFit
    BY <1>3 DEF Reconcile, ReadBack, HostInv
  <2>2. /\ KeysFit' /\ DOMAIN byKey \subseteq DOMAIN byKey'
        /\ DOMAIN last' = DOMAIN last \cup {r.effect.id : r \in Reconciled(claimed)}
        /\ \A i \in DOMAIN last' :
             \/ \E r \in Reconciled(claimed) : r.effect.id = i /\ last'[i] = r.status
             \/ i \in DOMAIN last /\ last'[i] = last[i]
    BY <2>1, RecordLeaves
  <2>3. \A r \in Reconciled(claimed) : r.effect.id \in DOMAIN ran
    BY <2>1, ReadBackOfRuns
  <2>4. RunsFit'
    BY <2>1, <2>2 DEF RunsFit, Guaranteed
  <2>5. ReceiptsFit'
    BY <2>1, <2>2, <2>3 DEF RunsFit, ReceiptsFit
  <2> QED BY <2>2, <2>4, <2>5 DEF HostInv
<1>4. ASSUME NEW o \in DOMAIN Operations, Plan(o) \/ Dispatch(o) PROVE HostInv'
  BY <1>2, <1>4 DEF Plan, Dispatch
<1>5. ASSUME NEW o \in DOMAIN Operations, Deliver(o) PROVE HostInv'
  BY <1>5, DeliveredOnce
<1>6. ASSUME NEW q, Derive(q) PROVE HostInv'
  BY <1>2, <1>6 DEF Derive
<1>7. ASSUME NEW r, NEW c, PutArtifact(r, c) PROVE HostInv'
  BY <1>2, <1>7 DEF PutArtifact
<1>8. ASSUME Meanwhile PROVE HostInv'
  BY <1>2, <1>8 DEF Meanwhile
<1>9. ASSUME UNCHANGED vars PROVE HostInv'
  BY <1>2, <1>9 DEF vars
<1> QED BY <1>3, <1>4, <1>5, <1>6, <1>7, <1>8, <1>9 DEF Next

\* For every host, script and number of deliveries, retries, expiries and read-backs, the host
\* runs what was claimed and no effect twice, keeps a key for one effect, and says of nothing
\* that costs something that it ran but of what it ran.
THEOREM HostNeverRunsTwice == Spec => []HostRunsOnce
<1>1. HostInv => HostRunsOnce
  BY DEF HostInv, KeysFit, RunsFit, ReceiptsFit, HostRunsOnce
<1> QED BY InitHost, EffectsStep, HostStep, <1>1, PTL DEF Spec

-----------------------------------------------------------------------------
(* Evidence.                                                                 *)

AroundInv == now \in Nat /\ manifest \in Manifests

\* Time, manifest and revocations stay what the gates read.
LEMMA AroundStep ==
  ASSUME AroundInv, [Next]_vars
  PROVE  AroundInv'
<1>1. ASSUME UNCHANGED <<now, manifest>> PROVE AroundInv'
  BY <1>1 DEF AroundInv
<1>2. ASSUME Meanwhile PROVE AroundInv'
  BY <1>2 DEF Meanwhile, Around, AroundInv
<1>3. ASSUME NEW o \in DOMAIN Operations, Plan(o) \/ Dispatch(o) \/ Deliver(o) PROVE AroundInv'
  BY <1>1, <1>3 DEF Plan, Dispatch, Deliver
<1>4. ASSUME Reconcile PROVE AroundInv'
  BY <1>1, <1>4 DEF Reconcile
<1>5. ASSUME NEW q, Derive(q) PROVE AroundInv'
  BY <1>1, <1>5 DEF Derive
<1>6. ASSUME NEW r, NEW c, PutArtifact(r, c) PROVE AroundInv'
  BY <1>1, <1>6 DEF PutArtifact
<1>7. ASSUME UNCHANGED vars PROVE AroundInv'
  BY <1>1, <1>7 DEF vars
<1> QED BY <1>2, <1>3, <1>4, <1>5, <1>6, <1>7 DEF Next

\* Who has an authority has it under a root that is neither expired nor revoked.
LEMMA AuthorityIsCurrent ==
  ASSUME ValidConstants, ChainInv, AroundInv, NEW o, Authority(o) # None
  PROVE  (Root.expires # None => now < Root.expires) /\ revoked <= Root.epoch
<1> DEFINE parent == chain[Operations[o].level]
           expires == Rules!EarliestInstant(Root.expires, parent.expires)
<1>1. "GRANT_EXPIRED" # None /\ "GRANT_REVOKED" # None /\ "AUTHORITY_DENIED" # None
  BY DEF ValidConstants, Reasons
<1>2. /\ Operations[o].level \in DOMAIN chain
      /\ Rules!AuthorityError(Root, parent, Task.scope, Operations[o].request, now, revoked) = None
  BY <1>1 DEF Authority, AuthorityRefusal, Parent
<1>3. IsGrant(parent)
  BY <1>2 DEF ChainInv
<1>4. expires \in Nat \cup {None} /\ (Root.expires # None => expires # None /\ expires <= Root.expires)
  BY <1>3, EarliestOfTwo DEF IsGrant, ValidConstants
<1>5. PICK a \in Int : \E b \in Int : a = Root.epoch /\ b = parent.epoch /\ b <= a
  BY <1>3 DEF IsGrant, ValidConstants
<1>6. Rules!Max({Root.epoch, parent.epoch}) \in Int /\ Rules!Max({Root.epoch, parent.epoch}) <= Root.epoch
  BY <1>5, MaxOfTwo
<1>7. ~(expires # None /\ now >= expires) /\ ~(revoked > Rules!Max({Root.epoch, parent.epoch}))
  BY <1>1, <1>2 DEF Rules!AuthorityError
<1> HIDE DEF expires
<1>8. Root.expires # None => now < Root.expires
  BY <1>4, <1>7 DEF AroundInv, ValidConstants
<1>9. revoked \in Nat /\ Root.epoch \in Nat
  BY DEF ChainInv, ValidConstants
<1> QED BY <1>6, <1>7, <1>8, <1>9

\* What satisfies a requirement is evidence for it.
LEMMA SatisfiedIsProvided ==
  ASSUME ValidConstants, AroundInv, NEW g, Rules!Satisfied(g, manifest)
  PROVE  Provided(g)
<1>1. g.cap \in DOMAIN manifest.caps
  BY DEF Rules!Satisfied, Rules!Gap, ValidConstants, Reasons
<1>2. manifest.caps[g.cap].status # None
  BY <1>1 DEF ValidConstants, AroundInv
<1>3. "version" # None /\ "coverage" # None /\ "evidence-kind" # None
  BY DEF ValidConstants, Reasons
<1> QED BY <1>1, <1>2, <1>3 DEF Rules!Satisfied, Rules!Gap, Provided

\* A guarantee that fails in an executable negotiation has an approved alternative that holds.
LEMMA ExecutableIsSubstituted ==
  ASSUME ValidConstants, AroundInv, NEW g \in ToSet(Task.guarantees), ~Rules!Satisfied(g, manifest),
         Rules!Negotiate(Task, manifest, approvals).status \notin {"unsupported", "needs-degradation"}
  PROVE  Substituted(g)
<1> DEFINE failing == {r \in ToSet(Task.guarantees) : ~Rules!Satisfied(r, manifest)}
           viable(r) == IF r.mode = "hard" THEN {} ELSE Rules!Viable(r, Task, manifest)
           approved(r) == {o.id : o \in {p \in viable(r) : p.approvable /\ p.id \in approvals}}
<1>1. g \in failing
  OBVIOUS
<1>2. ~\E r \in failing : viable(r) = {}
  BY DEF Rules!Negotiate, Rules!ToSet, ToSet
<1>3. ~\E r \in failing : approved(r) = {}
  BY <1>2 DEF Rules!Negotiate, Rules!ToSet, ToSet
<1>4. PICK d \in viable(g) : d.id \in approvals
  BY <1>1, <1>3
<1>5. g.mode = "degradable" /\ d \in Rules!Viable(g, Task, manifest)
  BY <1>4 DEF ValidConstants
<1>6. /\ d \in Task.degradations /\ d.replaces = g.cap
      /\ \A q \in d.requirements : Rules!Satisfied(q, manifest)
  BY <1>5 DEF Rules!Viable, Rules!AlternativeMeets
<1>7. \A q \in d.requirements : Provided(q)
  BY <1>6, SatisfiedIsProvided
<1> QED BY <1>4, <1>5, <1>6, <1>7 DEF Substituted

\* What is admitted has an authority, and evidence or a policy that does without it.
LEMMA AdmittedOnEvidence ==
  ASSUME ValidConstants, AroundInv, NEW o, Admits(DispatchAdmission(o, TRUE))
  PROVE  /\ Authority(o) # None
         /\ LET missing == {g \in ToSet(Task.guarantees) : ~Provided(g)}
            IN \/ (policy.metered => metered) /\ \A g \in missing : Substituted(g)
               \/ policy.mode = "optional" /\ \A g \in missing : g.cap \in policy.caps
<1> DEFINE result == Rules!Negotiate(Task, manifest, approvals)
           decision == DispatchAdmission(o, TRUE)
           missing == {g \in ToSet(Task.guarantees) : ~Provided(g)}
<1>1. decision = Rules!Decide(policy, Authority(o), Rules!NegotiationError(Task, manifest), result, None, FALSE, metered)
  BY DEF DispatchAdmission
<1>2. decision.disposition \in {"allow", "degrade"}
  BY DEF Admits
<1> HIDE DEF decision, result
<1>3. Authority(o) # None
  BY <1>1, <1>2 DEF Rules!Decide, Rules!Decided
<1>4. \/ result.status \notin {"unsupported", "needs-degradation"} /\ (policy.metered => metered)
      \/ policy.mode = "optional" /\ \A g \in result.gaps : g.cap \in policy.caps
  <2>1. CASE result.status = "unsupported"
    BY <1>1, <1>2, <2>1 DEF Rules!Decide, Rules!Decided
  <2>2. result.status # "needs-degradation"
    BY <1>1, <1>2 DEF Rules!Decide, Rules!Decided
  <2>3. ASSUME result.status # "unsupported", policy.metered, ~metered PROVE FALSE
    BY <1>1, <1>2, <2>2, <2>3 DEF Rules!Decide, Rules!Decided
  <2> QED BY <2>1, <2>2, <2>3
<1>5. \A g \in missing : ~Rules!Satisfied(g, manifest)
  BY SatisfiedIsProvided
<1>6. ASSUME result.status \notin {"unsupported", "needs-degradation"}
      PROVE  \A g \in missing : Substituted(g)
  BY <1>5, <1>6, ExecutableIsSubstituted DEF result
<1>7. ASSUME \A g \in result.gaps : g.cap \in policy.caps
      PROVE  \A g \in missing : g.cap \in policy.caps
  <2> SUFFICES ASSUME NEW g \in missing PROVE g.cap \in policy.caps
    OBVIOUS
  <2>1. result.gaps = {[cap |-> r.cap, reason |-> Rules!Gap(r, manifest)] :
                       r \in {x \in Rules!ToSet(Task.guarantees) : ~Rules!Satisfied(x, manifest)}}
    BY DEF result, Rules!Negotiate
  <2>2. [cap |-> g.cap, reason |-> Rules!Gap(g, manifest)] \in result.gaps
    BY <1>5, <2>1 DEF ToSet, Rules!ToSet
  <2> QED BY <1>7, <2>2
<1> QED BY <1>3, <1>4, <1>6, <1>7

\* An input that can be read is there, and available.
LEMMA ReadIsThere ==
  ASSUME ValidConstants, NEW r \in DOMAIN Inputs, Store!ReadError(blobs, Inputs[r], "author", now, None) = None
  PROVE  blobs[r] = Inputs[r].digest /\ Store!Available(Inputs[r], now)
<1>1. "PRIVACY_VIOLATION" # None /\ "ARTIFACT_UNAVAILABLE" # None /\ "ARTIFACT_BINDING_MISMATCH" # None
      /\ Inputs[r].id = r
  BY DEF ValidConstants, Reasons
<1>2. Store!Available(Inputs[r], now) /\ Store!GetError(blobs, Inputs[r]) = None
  BY <1>1 DEF Store!ReadError
<1> QED BY <1>1, <1>2 DEF Store!GetError

\* Whatever changed since an effect was planned - probes, approvals, revocations, expiries,
\* epochs, usage, artifacts - it is claimed only on what holds at that moment (dispatchPending).
THEOREM ClaimsHaveEvidence == ValidConstants /\ Spec => SentOnEvidence
<1> SUFFICES ASSUME ValidConstants
             PROVE  Spec => SentOnEvidence
  OBVIOUS
<1> DEFINE Evident(o) ==
             effects[o].kind # "host.cancel" =>
               /\ LET missing == {g \in ToSet(Task.guarantees) : ~Provided(g)}
                  IN \/ (policy.metered => metered) /\ \A g \in missing : Substituted(g)
                     \/ policy.mode = "optional" /\ \A g \in missing : g.cap \in policy.caps
               /\ (Root.expires # None => now < Root.expires) /\ revoked <= Root.epoch /\ GrantIsLive(grant, now)
               /\ effects[o].epoch = epoch
               /\ \A r \in effects[o].inputs : blobs[r] = Inputs[r].digest /\ Store!Available(Inputs[r], now)
<1>1. Init => ChainInv /\ EffectsInv /\ AroundInv
  BY InitChain, InitHost DEF Init, AroundInv
<1>2. ChainInv /\ EffectsInv /\ AroundInv /\ [Next]_vars => ChainInv' /\ EffectsInv' /\ AroundInv'
  BY ChainStep, EffectsStep, AroundStep
<1>3. ASSUME ChainInv, EffectsInv, AroundInv, NEW o \in DOMAIN Operations, Dispatch(o) PROVE Evident(o)
  <2> SUFFICES ASSUME effects[o].kind # "host.cancel" PROVE Evident(o)
    OBVIOUS
  <2>1. /\ LeasesHold(effects[o]) /\ Admits(DispatchAdmission(o, TRUE))
        /\ VerifyEffect(effects[o], {grant}, now) = None
        /\ \A r \in effects[o].inputs : Store!ReadError(blobs, Inputs[r], "author", now, None) = None
    BY <1>3 DEF Dispatch, Gated
  <2>2. IsEffect(effects[o], o)
    BY <1>3 DEF Dispatch, EffectsInv
  <2>3. effects[o].epoch = epoch
    BY <2>1, <2>2 DEF IsEffect, LeasesHold
  <2>4. GrantIsLive(grant, now)
    <3>1. "AUTHORITY_DENIED" # None /\ "GRANT_REVOKED" # None /\ "GRANT_EXPIRED" # None
      BY DEF ValidConstants, Reasons
    <3> DEFINE known == {g \in {grant} : g.id = effects[o].grant}
    <3>2. CASE known = {}
      BY <2>1, <3>1, <3>2 DEF VerifyEffect
    <3>3. CASE known # {}
      <4>1. known = {grant} /\ (CHOOSE g \in known : TRUE) = grant
        BY <3>3
      <4>2. VerifyEffect(effects[o], {grant}, now) # None \/ GrantIsLive(CHOOSE g \in known : TRUE, now)
        BY <3>1, <3>3 DEF VerifyEffect
      <4> QED BY <2>1, <4>1, <4>2
    <3> QED BY <3>2, <3>3
  <2>5. \A r \in effects[o].inputs : r \in DOMAIN Inputs
    BY <2>2 DEF IsEffect, ValidConstants
  <2>6. \A r \in effects[o].inputs : blobs[r] = Inputs[r].digest /\ Store!Available(Inputs[r], now)
    BY <2>1, <2>5, ReadIsThere
  <2>7. (Root.expires # None => now < Root.expires) /\ revoked <= Root.epoch
    BY <1>3, <2>1, AdmittedOnEvidence, AuthorityIsCurrent
  <2> QED BY <1>3, <2>1, <2>3, <2>4, <2>6, <2>7, AdmittedOnEvidence
<1>4. ASSUME ChainInv, EffectsInv, AroundInv, [Next]_vars PROVE \A o \in claimed' \ claimed : Evident(o)
  <2>1. ASSUME NEW o \in DOMAIN Operations, Dispatch(o) PROVE \A p \in claimed' \ claimed : Evident(p)
    <3>1. claimed' = claimed \cup {o}
      BY <2>1 DEF Dispatch
    <3>2. Evident(o)
      BY <1>3, <1>4, <2>1
    <3> HIDE DEF Evident
    <3> QED BY <3>1, <3>2
  <2>2. CASE claimed' = claimed
    BY <2>2
  <2>3. ASSUME NEW o \in DOMAIN Operations, Plan(o) \/ Deliver(o) PROVE claimed' = claimed
    BY <2>3 DEF Plan, Deliver
  <2>4. ASSUME Reconcile \/ (\E q \in Requests : Derive(q)) \/ Meanwhile \/ UNCHANGED vars PROVE claimed' = claimed
    BY <2>4 DEF Reconcile, Derive, Meanwhile, vars
  <2>5. ASSUME NEW r, NEW c, PutArtifact(r, c) PROVE claimed' = claimed
    BY <2>5 DEF PutArtifact
  <2> HIDE DEF Evident
  <2> QED BY <1>4, <2>1, <2>2, <2>3, <2>4, <2>5 DEF Next
<1>5. ChainInv /\ EffectsInv /\ AroundInv /\ [Next]_vars => \A o \in claimed' \ claimed : Evident(o)
  BY <1>4
<1> QED BY <1>1, <1>2, <1>5, PTL DEF Spec, SentOnEvidence
================================================================================
