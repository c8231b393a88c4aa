---------------------------- MODULE KernelProofs ----------------------------
(***************************************************************************)
(* The two machines of the kernel that share out what is scarce, for every      *)
(* value of their constants.                                                      *)
(*                                                                                 *)
(* The scheduler, for every graph, sequence of patches, set of refused nodes and    *)
(* bound: leases exclude, what counts is current, nobody is passed over twice. A     *)
(* round is a fold over the frontier; what each turn keeps the round keeps            *)
(* (Induction).                                                                        *)
(*                                                                                      *)
(* The pool, for every policy and whatever the telemetry: each request is charged         *)
(* once and settled only on evidence. ChargedOnce is made inductive by two facts the       *)
(* code relies on without stating them: the two sets stay finite, and every reservation    *)
(* is for the pool's reservePerRequest. SpendIsExplained is about sums over rows: SpendInv  *)
(* bounds the overrun at every moment, and RowsSettled says that what a complete row         *)
(* measured has been settled.                                                                 *)
(***************************************************************************)
EXTENDS BudgetPool, Scheduler, FiniteSetTheorems, SequenceTheorems, WellFoundedInduction, TLAPS

-----------------------------------------------------------------------------
(* Folds and orders.                                                           *)

\* What holds of 0 and is passed on holds up to n.
LEMMA Induction ==
  ASSUME NEW n \in Nat, NEW P, 0 \in P, \A i \in 0..(n - 1) : i \in P => i + 1 \in P
  PROVE  \A i \in 0..n : i \in P
<1> DEFINE T == {i \in 0..n : i \notin P}
<1> SUFFICES ASSUME T # {} PROVE FALSE
  OBVIOUS
<1> DEFINE upTo(k) == 0..k
           U == {upTo(k) : k \in T}
           finite == FiniteSubsetsOf(0..n)
<1>a. U \subseteq finite /\ U # {}
  <2>1. \A k \in T : IsFiniteSet(upTo(k)) /\ upTo(k) \subseteq 0..n
    BY FS_Interval
  <2> QED BY <2>1 DEF FiniteSubsetsOf
<1>b. \E x \in U : \A y \in U : <<y, x>> \notin StrictSubsetOrdering(0..n)
  <2>1. IsWellFoundedOn(StrictSubsetOrdering(0..n), finite)
    BY FS_StrictSubsetOrderingWellFounded
  <2> HIDE DEF U, finite
  <2> QED BY <1>a, <2>1, WFMin
<1>1. PICK m \in T : \A k \in T : <<upTo(k), upTo(m)>> \notin StrictSubsetOrdering(0..n)
  BY <1>b
<1>2. ASSUME NEW k \in T, k < m PROVE FALSE
  <2>1. upTo(k) \subseteq upTo(m) /\ upTo(k) # upTo(m) /\ upTo(m) \subseteq 0..n
    BY <1>2
  <2> HIDE DEF upTo
  <2>2. <<upTo(k), upTo(m)>> \in StrictSubsetOrdering(0..n)
    BY <2>1 DEF StrictSubsetOrdering
  <2> QED BY <1>1, <2>2
<1>3. m # 0 /\ m - 1 \in 0..(n - 1)
  OBVIOUS
<1>4. m - 1 \in P
  BY <1>2, <1>3
<1> QED BY <1>3, <1>4

\* A set of natural numbers has a least one.
LEMMA Least ==
  ASSUME NEW S \in SUBSET Nat, S # {}
  PROVE  \E x \in S : \A y \in S : x <= y
<1>1. PICK k \in S : TRUE
  OBVIOUS
<1> DEFINE P == {i \in 0..k : \A y \in S : i <= y}
<1>2. CASE k \in P
  BY <1>2
<1>3. CASE k \notin P
  <2>1. PICK j \in 0..(k - 1) : j \in P /\ j + 1 \notin P
    <3>1. k \in Nat /\ 0 \in P
      BY <1>1
    <3> HIDE DEF P
    <3>2. ~\A i \in 0..(k - 1) : i \in P => i + 1 \in P
      <4>1. k \in 0..k
        BY <3>1
      <4> QED BY <1>3, <3>1, <4>1, Induction
    <3> QED BY <3>2
  <2>2. \A y \in S : j <= y /\ y \in Nat
    BY <2>1
  <2>3. j + 1 \in 0..k
    BY <1>1
  <2>4. PICK x \in S : ~(j + 1 <= x)
    BY <2>1, <2>3
  <2>5. x = j
    BY <2>2, <2>4
  <2> QED BY <2>2, <2>5
<1> QED BY <1>2, <1>3

\* What FlattenSeq joins it joins from the left.
LEMMA FlattenUnfolds ==
  ASSUME NEW S, NEW seqs \in Seq(S), Len(seqs) # 0
  PROVE  \E f : /\ f[1] = seqs[1] /\ \A i \in 2..Len(seqs) : f[i] = f[i - 1] \o seqs[i]
                /\ FlattenSeq(seqs) = f[Len(seqs)]
<1> DEFINE n == Len(seqs)
           Rec(f, k) == f = [i \in 1..k |-> IF i = 1 THEN seqs[i] ELSE f[i - 1] \o seqs[i]]
           Exists(k) == \E f : Rec(f, k)
           P == {k \in 0..n : Exists(k)}
<1>1. n \in Nat \ {0}
  OBVIOUS
<1>2. 0 \in P
  <2>1. Rec([i \in 1..0 |-> seqs[i]], 0)
    OBVIOUS
  <2>2. Exists(0)
    <3> HIDE DEF Rec
    <3> QED BY <2>1
  <2> HIDE DEF Exists
  <2> QED BY <1>1, <2>2
<1>3. ASSUME NEW k \in 0..(n - 1), k \in P PROVE k + 1 \in P
  <2>1. PICK f : Rec(f, k)
    <3> HIDE DEF Rec
    <3> QED BY <1>3
  <2> DEFINE g == [i \in 1..(k + 1) |-> IF i = k + 1 THEN (IF i = 1 THEN seqs[i] ELSE f[k] \o seqs[k + 1]) ELSE f[i]]
  <2>2. \A i \in 1..(k + 1) : g[i] = IF i = 1 THEN seqs[i] ELSE g[i - 1] \o seqs[i]
    <3> SUFFICES ASSUME NEW i \in 1..(k + 1) PROVE g[i] = IF i = 1 THEN seqs[i] ELSE g[i - 1] \o seqs[i]
      OBVIOUS
    <3>1. CASE i = k + 1
      <4>1. i # 1 => k \in 1..(k + 1) /\ g[k] = f[k]
        BY <1>1, <3>1
      <4> QED BY <1>1, <3>1, <4>1
    <3>2. CASE i # k + 1
      <4>1. i \in 1..k /\ g[i] = f[i] /\ (i # 1 => g[i - 1] = f[i - 1])
        BY <1>1, <3>2
      <4>2. f[i] = IF i = 1 THEN seqs[i] ELSE f[i - 1] \o seqs[i]
        BY <2>1, <4>1
      <4> QED BY <4>1, <4>2
    <3> QED BY <3>1, <3>2
  <2>3. Rec(g, k + 1)
    BY <2>2
  <2>4. Exists(k + 1)
    <3> HIDE DEF Rec, g
    <3> QED BY <2>3
  <2> HIDE DEF Exists
  <2> QED BY <1>1, <2>4
<1>4. n \in P
  <2> HIDE DEF P, n
  <2>1. \A i \in 0..(n - 1) : i \in P => i + 1 \in P
    BY <1>3
  <2>2. \A i \in 0..n : i \in P
    BY <1>1, <1>2, <2>1, Induction
  <2> QED BY <1>1, <2>2
<1>5. \E f : Rec(f, n)
  <2> HIDE DEF Rec, n
  <2> QED BY <1>4
<1> DEFINE f == CHOOSE f : Rec(f, n)
<1>6. Rec(f, n)
  BY <1>5
<1>7. FlattenSeq(seqs) = f[n]
  BY DEF FlattenSeq
<1> HIDE DEF f
<1>8. f[1] = seqs[1] /\ \A i \in 2..n : f[i] = f[i - 1] \o seqs[i]
  <2> HIDE DEF n
  <2>1. \A i \in 1..n : f[i] = IF i = 1 THEN seqs[i] ELSE f[i - 1] \o seqs[i]
    BY <1>6
  <2>2. 1 \in 1..n /\ \A i \in 2..n : i \in 1..n /\ i # 1
    BY <1>1
  <2> QED BY <2>1, <2>2
<1> QED BY <1>7, <1>8

\* A joined batch holds what its parts hold, and nothing else.
LEMMA FlattenHolds ==
  ASSUME NEW S, NEW seqs \in Seq(Seq(S))
  PROVE  /\ FlattenSeq(seqs) \in Seq(S)
         /\ \A j \in 1..Len(FlattenSeq(seqs)) :
              \E i \in 1..Len(seqs) : \E k \in 1..Len(seqs[i]) : FlattenSeq(seqs)[j] = seqs[i][k]
         /\ \A i \in 1..Len(seqs) : \A k \in 1..Len(seqs[i]) :
              \E j \in 1..Len(FlattenSeq(seqs)) : FlattenSeq(seqs)[j] = seqs[i][k]
<1> DEFINE n == Len(seqs)
           Holds(q, m) ==
             /\ q \in Seq(S)
             /\ \A j \in 1..Len(q) : \E i \in 1..m : \E k \in 1..Len(seqs[i]) : q[j] = seqs[i][k]
             /\ \A i \in 1..m : \A k \in 1..Len(seqs[i]) : \E j \in 1..Len(q) : q[j] = seqs[i][k]
<1> SUFFICES Holds(FlattenSeq(seqs), n)
  OBVIOUS
<1>1. n \in Nat /\ \A i \in 1..n : seqs[i] \in Seq(S)
  OBVIOUS
<1>2. CASE n = 0
  <2>1. FlattenSeq(seqs) = <<>>
    BY <1>2 DEF FlattenSeq
  <2> QED BY <1>2, <2>1
<1>3. CASE n # 0
  <2>1. PICK f : /\ f[1] = seqs[1] /\ \A i \in 2..n : f[i] = f[i - 1] \o seqs[i]
                 /\ FlattenSeq(seqs) = f[n]
    BY <1>3, FlattenUnfolds
  <2> DEFINE P == {m \in 0..n : m # 0 => Holds(f[m], m)}
  <2>2. 0 \in P
    BY <1>1
  <2>3. ASSUME NEW m \in 0..(n - 1), m \in P PROVE Holds(f[m + 1], m + 1)
    <3>1. CASE m = 0
      <4>1. m + 1 = 1 /\ f[m + 1] = seqs[1] /\ seqs[1] \in Seq(S)
        BY <1>1, <1>3, <2>1, <3>1
      <4> DEFINE q == seqs[1]
      <4>2. q \in Seq(S) /\ 1 \in 1..1 /\ \A i \in 1..1 : seqs[i] = q
        BY <4>1
      <4>3. Holds(q, 1)
        <5> HIDE DEF q
        <5> QED BY <4>2
      <4>4. f[m + 1] = q /\ m + 1 = 1
        BY <4>1
      <4> HIDE DEF Holds, q
      <4> QED BY <4>3, <4>4
    <3>2. CASE m # 0
      <4> DEFINE q == f[m]  r == seqs[m + 1]
      <4>1. Holds(q, m) /\ r \in Seq(S) /\ f[m + 1] = q \o r
        <5>1. m \in Nat /\ m + 1 \in 2..n
          BY <1>1, <3>2
        <5>2. Holds(q, m)
          BY <2>3, <3>2
        <5> HIDE DEF Holds, P
        <5>3. f[m + 1] = f[(m + 1) - 1] \o seqs[m + 1] /\ (m + 1) - 1 = m
          <6>1. (m + 1) - 1 = m
            BY <5>1
          <6> QED BY <2>1, <5>1, <6>1
        <5>4. seqs[m + 1] \in Seq(S)
          BY <1>1, <5>1
        <5> QED BY <5>2, <5>3, <5>4
      <4> HIDE DEF q, r
      <4>2. /\ q \o r \in Seq(S) /\ Len(q \o r) = Len(q) + Len(r)
            /\ \A j \in 1..Len(q) : (q \o r)[j] = q[j]
            /\ \A j \in 1..Len(r) : (q \o r)[Len(q) + j] = r[j]
        BY <4>1
      <4>3. ASSUME NEW j \in 1..Len(q \o r)
            PROVE  \E i \in 1..(m + 1) : \E k \in 1..Len(seqs[i]) : (q \o r)[j] = seqs[i][k]
        <5>1. CASE j \in 1..Len(q)
          <6>1. PICK i \in 1..m : \E k \in 1..Len(seqs[i]) : q[j] = seqs[i][k]
            BY <4>1, <5>1
          <6>2. i \in 1..(m + 1) /\ (q \o r)[j] = q[j]
            BY <4>2, <5>1, <6>1
          <6> QED BY <6>1, <6>2
        <5>2. CASE j \notin 1..Len(q)
          <6>1. j - Len(q) \in 1..Len(r) /\ (q \o r)[j] = r[j - Len(q)]
            BY <4>1, <4>2, <5>2
          <6>2. m + 1 \in 1..(m + 1)
            OBVIOUS
          <6>3. PICK k \in 1..Len(r) : (q \o r)[j] = r[k]
            BY <6>1
          <6>4. seqs[m + 1] = r
            BY DEF r
          <6>5. k \in 1..Len(seqs[m + 1]) /\ (q \o r)[j] = seqs[m + 1][k]
            BY <6>3, <6>4
          <6> QED BY <6>2, <6>5
        <5> QED BY <5>1, <5>2
      <4>4. ASSUME NEW i \in 1..(m + 1), NEW k \in 1..Len(seqs[i])
            PROVE  \E j \in 1..Len(q \o r) : (q \o r)[j] = seqs[i][k]
        <5>1. CASE i \in 1..m
          <6>1. PICK j \in 1..Len(q) : q[j] = seqs[i][k]
            BY <4>1, <5>1
          <6>2. j \in 1..Len(q \o r) /\ (q \o r)[j] = q[j]
            BY <4>1, <4>2, <6>1
          <6> QED BY <6>1, <6>2
        <5>2. CASE i = m + 1
          <6>1. k \in 1..Len(r) /\ r[k] = seqs[i][k]
            BY <5>2 DEF r
          <6>2. Len(q) + k \in 1..Len(q \o r) /\ (q \o r)[Len(q) + k] = r[k]
            BY <4>1, <4>2, <6>1
          <6> QED BY <6>1, <6>2
        <5>3. i \in 1..m \/ i = m + 1
          OBVIOUS
        <5> QED BY <5>1, <5>2, <5>3
      <4>5. Holds(q \o r, m + 1)
        BY <4>2, <4>3, <4>4
      <4> HIDE DEF Holds
      <4> QED BY <4>1, <4>5
    <3> QED BY <3>1, <3>2
  <2>4. \A m \in 0..(n - 1) : m \in P => m + 1 \in P
    <3> HIDE DEF Holds
    <3> QED BY <1>1, <2>3
  <2> HIDE DEF P, n
  <2>5. n \in P
    <3>1. \A m \in 0..n : m \in P
      BY <1>1, <2>2, <2>4, Induction
    <3> QED BY <1>1, <3>1
  <2> HIDE DEF Holds
  <2> QED BY <1>3, <2>1, <2>5 DEF P
<1> QED BY <1>2, <1>3

-----------------------------------------------------------------------------
(* Types.                                                                      *)

Table == [grants : SUBSET Grant, nextToken : Nat]
Work  == [binding : Claim, spec : NodeSpecs, inputs : SUBSET EdgeSpecs, leases : SUBSET Grant]
Honoured == [lease : Grant, newest : BOOLEAN]

TypeInv ==
  /\ ValidConstants
  /\ graph \in Graph /\ ResourcesAgree(graph)
  /\ facts \in [states : [NodeIds -> States \cup {Nil}],
                artifacts : [NodeIds -> [node : NodeIds, schema : Schemas, digest : Digests] \cup {Nil}]]
  /\ attempts \in [NodeIds -> Nat]
  /\ sched \in [claims : SUBSET Claim, grants : SUBSET Grant, nextToken : Nat]
  /\ IsFiniteSet(sched.claims)
  /\ fairness \in [streak : [NodeIds -> Nat], dispatches : [NodeIds -> Nat]]
  /\ now \in Nat
  /\ work \subseteq Work
  /\ accepted \in Seq(Honoured)
  /\ passed \in [NodeIds -> [NodeIds -> Nat]]

\* ToSet of a sequence.
LEMMA Members ==
  ASSUME NEW S, NEW x \in Seq(S)
  PROVE  /\ ToSet(x) \subseteq S
         /\ \A e : e \in ToSet(x) <=> \E i \in 1..Len(x) : x[i] = e
BY DEF ToSet

\* The policies of a revision are those of the first.
LEMMA PolicyStays ==
  ASSUME TypeInv
  PROVE  /\ graph.policy = FirstGraph.policy /\ DOMAIN graph.policy = Resources
         /\ graph.policy \in [Resources -> [mode : Modes, maxHolders : Nat]]
         /\ \A r \in Resources : graph.policy[r].mode = "exclusive" => graph.policy[r].maxHolders = 1
<1>1. graph.policy = FirstGraph.policy
  BY DEF TypeInv, Graph
<1> QED BY <1>1 DEF TypeInv, ValidConstants, Resources

\* A node of the graph has its specification there.
LEMMA NodeIs ==
  ASSUME TypeInv, NEW n \in NodesOf(graph)
  PROVE  /\ n \in NodeIds /\ Node(graph, n) \in ToSet(graph.nodes) /\ Node(graph, n) \in NodeSpecs
         /\ Node(graph, n).id = n
<1>1. graph.nodes \in Seq(NodeSpecs)
  BY DEF TypeInv, Graph
<1>2. PICK i \in DOMAIN graph.nodes : graph.nodes[i].id = n
  BY DEF NodesOf
<1>3. graph.nodes[i] \in ToSet(graph.nodes)
  BY <1>2 DEF ToSet
<1>4. Node(graph, n) \in ToSet(graph.nodes) /\ Node(graph, n).id = n
  BY <1>2, <1>3 DEF Node
<1>5. Node(graph, n) \in NodeSpecs
  BY <1>1, <1>4, Members
<1> QED BY <1>4, <1>5 DEF TypeInv, ValidConstants

\* What it declares has a policy (ResourcesAgree).
LEMMA DeclaredTyped ==
  ASSUME TypeInv, NEW n \in NodesOf(graph)
  PROVE  Declared(Node(graph, n)) \in Seq(Resources)
<1>1. PICK node \in ToSet(graph.nodes) : node = Node(graph, n) /\ node \in NodeSpecs
  BY NodeIs
<1>2. PICK S : node.exclusive \in Seq(S) /\ node.shared \in Seq(S)
  BY <1>1 DEF TypeInv, ValidConstants
<1>3. /\ \A r \in ToSet(node.exclusive) : r \in Resources
      /\ \A r \in ToSet(node.shared) : r \in Resources
  BY PolicyStays DEF TypeInv, ResourcesAgree
<1>4. node.exclusive \in Seq(Resources) /\ node.shared \in Seq(Resources)
  BY <1>2, <1>3, Members
<1> QED BY <1>1, <1>4, ConcatProperties DEF Declared

-----------------------------------------------------------------------------
(* Leases.                                                                     *)

\* A table in which every token is of one lease and no resource is over its limit.
TableFits(t) ==
  /\ t \in Table /\ IsFiniteSet(t.grants)
  /\ \A g \in t.grants : g.token < t.nextToken /\ g.mode = graph.policy[g.resource].mode
  /\ \A g, h \in t.grants : g.token = h.token => g = h
  /\ \A r \in Resources : Cardinality(HoldersOf(t.grants, r)) <= graph.policy[r].maxHolders

\* Everybody who held the resource before g is out.
Fenced(g, grants) ==
  \A l \in grants :
    l.resource = g.resource /\ l.mode = "exclusive" /\ l.token < g.token => l.expiresAt <= now

\* u is the table t with more leases of one owner.
Grew(t, u, owner) ==
  /\ TableFits(u) /\ t.grants \subseteq u.grants /\ t.nextToken <= u.nextToken
  /\ \A g \in u.grants \ t.grants :
       /\ g.owner = owner /\ g.token >= t.nextToken
       /\ Fenced(g, u.grants)

Full(t, r) == Cardinality(HoldersOf(t.grants, r)) >= graph.policy[r].maxHolders

\* One lease (grantLease).
LEMMA GrantLeaseFits ==
  ASSUME TypeInv, NEW t, TableFits(t), NEW r \in Resources, NEW owner \in Claim
  PROVE  IF Full(t, r) THEN GrantLease(t, r, owner) = Nil
         ELSE GrantLease(t, r, owner) # Nil /\ Grew(t, GrantLease(t, r, owner), owner)
<1> DEFINE new == [resource |-> r, owner |-> owner, token |-> t.nextToken,
                   mode |-> graph.policy[r].mode, expiresAt |-> now + LeaseTtl]
<1>1. t # Nil /\ t \in Table /\ now \in Nat /\ LeaseTtl \in Nat
  BY DEF TypeInv, ValidConstants, TableFits, Table
<1>2. CASE Full(t, r)
  BY <1>2 DEF GrantLease, Full
<1>3. CASE ~Full(t, r)
  <2>1. GrantLease(t, r, owner) = [t EXCEPT !.grants = @ \cup {new}, !.nextToken = @ + 1]
    BY <1>1, <1>3 DEF GrantLease, Full
  <2>2. new \in Grant
    BY <1>1, PolicyStays DEF Grant, Table
  <2>3. new.resource = r /\ new.owner = owner /\ new.token = t.nextToken /\ new.mode = graph.policy[r].mode
    OBVIOUS
  <2> HIDE DEF new
  <2>4. PICK u : u = GrantLease(t, r, owner)
    OBVIOUS
  <2>5. u \in Table /\ u.grants = t.grants \cup {new} /\ u.nextToken = t.nextToken + 1
    <3> DEFINE G == t.grants \cup {new}  k == t.nextToken + 1
    <3>1. G \subseteq Grant /\ k \in Nat
      BY <1>1, <2>2 DEF Table
    <3>2. u = [t EXCEPT !.grants = G, !.nextToken = k]
      BY <2>1, <2>4
    <3> HIDE DEF G, k
    <3>3. u \in Table /\ u.grants = G /\ u.nextToken = k
      BY <1>1, <3>1, <3>2 DEF Table
    <3> QED BY <3>3 DEF G, k
  <2>6. IsFiniteSet(u.grants)
    BY <2>5, FS_AddElement DEF TableFits
  <2>7. \A g \in t.grants : g.token < t.nextToken /\ g.token \in Nat /\ g.resource \in Resources
    BY <1>1 DEF TableFits, Table, Grant
  <2>8. \A g \in u.grants : g.token < u.nextToken /\ g.mode = graph.policy[g.resource].mode
    BY <1>1, <2>3, <2>5, <2>7 DEF TableFits, Table
  <2>9. \A g, h \in u.grants : g.token = h.token => g = h
    BY <1>1, <2>3, <2>5, <2>7 DEF TableFits, Table
  <2>10. ASSUME NEW q \in Resources PROVE Cardinality(HoldersOf(u.grants, q)) <= graph.policy[q].maxHolders
    <3>1. PICK H : H = HoldersOf(t.grants, q) /\ IsFiniteSet(H)
      <4>1. HoldersOf(t.grants, q) \subseteq t.grants
        BY DEF HoldersOf, LiveGrants
      <4> QED BY <4>1, FS_Subset DEF TableFits
    <3>2. Cardinality(H) \in Nat /\ Cardinality(H) <= graph.policy[q].maxHolders /\ graph.policy[q].maxHolders \in Nat
      BY <3>1, FS_CardinalityType, PolicyStays DEF TableFits
    <3>3. CASE HoldersOf(u.grants, q) = H
      BY <3>2, <3>3
    <3>4. CASE HoldersOf(u.grants, q) # H
      <4>1. q = r /\ HoldersOf(u.grants, q) = H \cup {new}
        BY <2>3, <2>5, <3>1, <3>4 DEF HoldersOf, LiveGrants
      <4>2. Cardinality(HoldersOf(u.grants, q)) <= Cardinality(H) + 1 /\ Cardinality(HoldersOf(u.grants, q)) \in Nat
        <5>1. Cardinality(H \cup {new}) = IF new \in H THEN Cardinality(H) ELSE Cardinality(H) + 1
          BY <3>1, FS_AddElement
        <5> QED BY <3>2, <4>1, <5>1
      <4>3. Cardinality(H) < graph.policy[q].maxHolders
        BY <1>3, <3>1, <3>2, <4>1 DEF Full
      <4> QED BY <3>2, <4>2, <4>3
    <3> QED BY <3>3, <3>4
  <2>11. TableFits(u)
    BY <2>5, <2>6, <2>8, <2>9, <2>10 DEF TableFits
  <2>12. Fenced(new, u.grants)
    <3> SUFFICES ASSUME NEW l \in u.grants, l.resource = r, l.mode = "exclusive", l.token < new.token, ~(l.expiresAt <= now)
                 PROVE  FALSE
      BY <2>3 DEF Fenced
    <3>1. l \in t.grants /\ l \in Grant
      BY <1>1, <2>3, <2>5 DEF Table
    <3>2. l \in HoldersOf(t.grants, r)
      BY <1>1, <3>1 DEF HoldersOf, LiveGrants, Grant
    <3>3. graph.policy[r].maxHolders = 1
      BY <3>1, PolicyStays DEF TableFits
    <3>4. IsFiniteSet(HoldersOf(t.grants, r))
      <4>1. HoldersOf(t.grants, r) \subseteq t.grants
        BY DEF HoldersOf, LiveGrants
      <4> QED BY <4>1, FS_Subset DEF TableFits
    <3>5. Cardinality(HoldersOf(t.grants, r)) \in Nat /\ Cardinality(HoldersOf(t.grants, r)) # 0
      BY <3>2, <3>4, FS_CardinalityType, FS_EmptySet
    <3> QED BY <1>3, <3>3, <3>5 DEF Full
  <2>13. Grew(t, u, owner)
    BY <1>1, <2>3, <2>5, <2>11, <2>12 DEF Grew, Table
  <2>14. u # Nil
    BY <2>5 DEF TypeInv, ValidConstants, Table
  <2> QED BY <1>3, <2>4, <2>13, <2>14
<1> QED BY <1>2, <1>3

\* One lease after another.
LEMMA GrewOn ==
  ASSUME TypeInv, NEW t, TableFits(t), NEW u, NEW v, NEW owner, Grew(t, u, owner), Grew(u, v, owner)
  PROVE  Grew(t, v, owner)
<1>1. /\ t \in Table /\ u \in Table /\ v \in Table /\ TableFits(u) /\ TableFits(v)
      /\ t.nextToken \in Nat /\ u.nextToken \in Nat /\ v.nextToken \in Nat
  BY DEF Grew, TableFits, Table
<1>2. ASSUME NEW g \in v.grants \ t.grants PROVE g.owner = owner /\ g.token >= t.nextToken /\ Fenced(g, v.grants)
  <2>1. \A l \in v.grants : l.token \in Nat
    BY <1>1 DEF Table, Grant
  <2>2. CASE g \in u.grants
    <3>1. g.owner = owner /\ g.token >= t.nextToken /\ Fenced(g, u.grants) /\ g.token < u.nextToken
      BY <1>1, <1>2, <2>2 DEF Grew, TableFits
    <3>2. \A l \in v.grants \ u.grants : l.token >= u.nextToken
      BY DEF Grew
    <3> QED BY <1>1, <1>2, <2>1, <3>1, <3>2 DEF Fenced
  <2>3. CASE g \notin u.grants
    BY <1>1, <1>2, <2>1, <2>3 DEF Grew
  <2> QED BY <2>2, <2>3
<1> QED BY <1>1, <1>2 DEF Grew

\* What is full stays full.
LEMMA FullStays ==
  ASSUME TypeInv, NEW t, NEW u, TableFits(u), t.grants \subseteq u.grants, NEW r \in Resources, Full(t, r)
  PROVE  Full(u, r)
<1>1. HoldersOf(t.grants, r) \subseteq HoldersOf(u.grants, r) /\ HoldersOf(u.grants, r) \subseteq u.grants
  BY DEF HoldersOf, LiveGrants
<1>2. IsFiniteSet(HoldersOf(u.grants, r))
  BY <1>1, FS_Subset DEF TableFits
<1>3. IsFiniteSet(HoldersOf(t.grants, r))
  BY <1>1, <1>2, FS_Subset
<1>4. /\ Cardinality(HoldersOf(t.grants, r)) \in Nat /\ Cardinality(HoldersOf(u.grants, r)) \in Nat
      /\ Cardinality(HoldersOf(t.grants, r)) <= Cardinality(HoldersOf(u.grants, r))
      /\ graph.policy[r].maxHolders \in Nat
  BY <1>1, <1>2, <1>3, FS_Subset, FS_CardinalityType, PolicyStays
<1> QED BY <1>4 DEF Full

\* The table after each resource of a node (grantAll).
LEMMA GrantingUnfolds ==
  ASSUME NEW t, NEW declared, Len(declared) \in Nat, NEW owner
  PROVE  /\ Granting(t, declared, owner)[0] = t
         /\ \A i \in 1..Len(declared) :
              Granting(t, declared, owner)[i] = GrantLease(Granting(t, declared, owner)[i - 1], declared[i], owner)
<1> DEFINE n == Len(declared)
           Rec(f, k) == f = [i \in 0..k |-> IF i = 0 THEN t ELSE GrantLease(f[i - 1], declared[i], owner)]
           Exists(k) == \E f : Rec(f, k)
           P == {k \in 0..n : Exists(k)}
<1>1. n \in Nat
  OBVIOUS
<1>2. 0 \in P
  <2>1. Rec([i \in 0..0 |-> t], 0)
    OBVIOUS
  <2>2. Exists(0)
    <3> HIDE DEF Rec
    <3> QED BY <2>1
  <2> HIDE DEF Exists
  <2> QED BY <1>1, <2>2
<1>3. ASSUME NEW k \in 0..(n - 1), k \in P PROVE k + 1 \in P
  <2>1. PICK f : Rec(f, k)
    <3> HIDE DEF Rec
    <3> QED BY <1>3
  <2> DEFINE g == [i \in 0..(k + 1) |-> IF i = k + 1 THEN GrantLease(f[k], declared[k + 1], owner) ELSE f[i]]
  <2>2. \A i \in 0..(k + 1) : g[i] = IF i = 0 THEN t ELSE GrantLease(g[i - 1], declared[i], owner)
    <3> SUFFICES ASSUME NEW i \in 0..(k + 1) PROVE g[i] = IF i = 0 THEN t ELSE GrantLease(g[i - 1], declared[i], owner)
      OBVIOUS
    <3>1. CASE i = k + 1
      BY <1>1, <3>1
    <3>2. CASE i # k + 1
      <4>1. i \in 0..k /\ g[i] = f[i] /\ (i # 0 => g[i - 1] = f[i - 1])
        BY <1>1, <3>2
      <4>2. f[i] = IF i = 0 THEN t ELSE GrantLease(f[i - 1], declared[i], owner)
        BY <2>1, <4>1
      <4> QED BY <4>1, <4>2
    <3> QED BY <3>1, <3>2
  <2>3. Rec(g, k + 1)
    BY <2>2
  <2>4. Exists(k + 1)
    <3> HIDE DEF Rec, g
    <3> QED BY <2>3
  <2> HIDE DEF Exists
  <2> QED BY <1>1, <2>4
<1>4. n \in P
  <2> HIDE DEF P, n
  <2>1. \A i \in 0..(n - 1) : i \in P => i + 1 \in P
    BY <1>3
  <2>2. \A i \in 0..n : i \in P
    BY <1>1, <1>2, <2>1, Induction
  <2> QED BY <1>1, <2>2
<1>5. PICK f : Rec(f, n)
  <2> HIDE DEF Rec, n
  <2> QED BY <1>4
<1>6. Rec(Granting(t, declared, owner), n)
  BY <1>5 DEF Granting
<1> QED BY <1>1, <1>6

\* All of them or none, and none when one of them is full (grantAll).
LEMMA GrantAllFits ==
  ASSUME TypeInv, NEW t, TableFits(t), NEW declared \in Seq(Resources), NEW owner \in Claim,
         GrantAll(t, declared, owner) # Nil
  PROVE  /\ Grew(t, GrantAll(t, declared, owner), owner)
         /\ \A r \in ToSet(declared) : ~Full(t, r)
<1> DEFINE n == Len(declared)  held == Granting(t, declared, owner)
           Fits(i) == held[i] # Nil => Grew(t, held[i], owner) /\ \A j \in 1..i : ~Full(t, declared[j])
           P == {i \in 0..n : Fits(i)}
<1>1. n \in Nat /\ held[0] = t /\ \A i \in 1..n : held[i] = GrantLease(held[i - 1], declared[i], owner)
  BY GrantingUnfolds
<1> HIDE DEF held
<1>2. Fits(0)
  <2>1. t.nextToken \in Nat
    BY DEF TableFits, Table
  <2>2. Grew(t, t, owner)
    BY <2>1 DEF Grew
  <2> QED BY <1>1, <2>2
<1>3. ASSUME NEW i \in 0..(n - 1), i \in P PROVE Fits(i + 1)
  <2> SUFFICES ASSUME held[i + 1] # Nil PROVE Grew(t, held[i + 1], owner) /\ \A j \in 1..(i + 1) : ~Full(t, declared[j])
    OBVIOUS
  <2>1. i + 1 \in 1..n /\ (i + 1) - 1 = i /\ i \in Nat
    BY <1>1
  <2>a. PICK u : u = held[i]
    OBVIOUS
  <2>b. PICK r \in Resources : r = declared[i + 1]
    BY <2>1
  <2>c. PICK v : v = held[i + 1]
    OBVIOUS
  <2>2. v = GrantLease(u, r, owner)
    BY <1>1, <2>1, <2>a, <2>b, <2>c
  <2>3. u # Nil
    BY <2>2, <2>c DEF GrantLease
  <2>4. Grew(t, u, owner) /\ \A j \in 1..i : ~Full(t, declared[j])
    BY <1>3, <2>a, <2>3
  <2>5. TableFits(u) /\ t.grants \subseteq u.grants
    BY <2>4 DEF Grew
  <2>6. ~Full(u, r) /\ Grew(u, v, owner)
    BY <2>2, <2>c, <2>5, GrantLeaseFits
  <2>7. Grew(t, v, owner)
    BY <2>4, <2>6, GrewOn
  <2>8. ~Full(t, r)
    BY <2>5, <2>6, FullStays
  <2>9. ASSUME NEW j \in 1..(i + 1) PROVE ~Full(t, declared[j])
    <3>1. j \in 1..i \/ j = i + 1
      BY <2>1
    <3> QED BY <2>b, <2>4, <2>8, <3>1
  <2> QED BY <2>c, <2>7, <2>9
<1> HIDE DEF Fits
<1>4. \A i \in 0..n : i \in P
  <2>1. 0 \in P /\ \A i \in 0..(n - 1) : i \in P => i + 1 \in P
    BY <1>1, <1>2, <1>3
  <2> HIDE DEF P, n
  <2> QED BY <1>1, <2>1, Induction
<1>5. Fits(n)
  BY <1>1, <1>4
<1>6. GrantAll(t, declared, owner) = held[n]
  BY DEF GrantAll, held
<1> HIDE DEF n
<1>7. Grew(t, held[n], owner) /\ \A j \in 1..n : ~Full(t, declared[j])
  BY <1>5, <1>6 DEF Fits
<1> QED BY <1>6, <1>7, Members DEF n

\* Who needs one resource and does not get it finds it full.
LEMMA OneIsFull ==
  ASSUME TypeInv, NEW t, TableFits(t), NEW declared \in Seq(Resources), NEW owner \in Claim
  PROVE  Len(declared) = 1 /\ GrantAll(t, declared, owner) = Nil => Full(t, Head(declared))
<1> DEFINE held == Granting(t, declared, owner)
<1>2. held[0] = t /\ \A i \in 1..Len(declared) : held[i] = GrantLease(held[i - 1], declared[i], owner)
  BY GrantingUnfolds
<1> SUFFICES ASSUME Len(declared) = 1, GrantAll(t, declared, owner) = Nil PROVE Full(t, Head(declared))
  OBVIOUS
<1>1. declared[1] \in Resources /\ Head(declared) = declared[1] /\ 1 \in 1..Len(declared) /\ 1 - 1 = 0
  OBVIOUS
<1>3. held[1] = Nil
  BY DEF GrantAll
<1> HIDE DEF held
<1>4. GrantLease(t, declared[1], owner) = Nil
  BY <1>1, <1>2, <1>3
<1> QED BY <1>1, <1>4, GrantLeaseFits

-----------------------------------------------------------------------------
(* The order of a round.                                                       *)

\* Ranks tell nodes apart.
LEMMA RankTells ==
  ASSUME TypeInv, NEW n \in NodesOf(graph), NEW m \in NodesOf(graph)
  PROVE  Rank(n) \in Nat /\ (Rank(n) = Rank(m) => n = m)
<1>1. ASSUME NEW k \in NodesOf(graph) PROVE Rank(k) \in DOMAIN graph.nodes /\ graph.nodes[Rank(k)].id = k
  <2>1. \E i \in DOMAIN graph.nodes : graph.nodes[i].id = k
    BY DEF NodesOf
  <2> QED BY <2>1 DEF Rank
<1>2. DOMAIN graph.nodes \subseteq Nat
  BY DEF TypeInv, Graph
<1> QED BY <1>1, <1>2

\* The nodes whose turn may come are nodes of the graph nobody has claimed.
LEMMA DispatchableIs ==
  ASSUME TypeInv
  PROVE  /\ IsFiniteSet(Dispatchable) /\ Dispatchable \subseteq NodeIds
         /\ \A n \in Dispatchable :
              n \in Frontier /\ n \in NodesOf(graph) /\ ~HasClaim(n) /\ Unstarted(n) /\ DispositionOf(n) = "dispatchable"
<1>1. ASSUME NEW n \in Dispatchable
      PROVE  /\ n \in Frontier /\ n \in NodesOf(graph) /\ n \in NodeIds /\ DispositionOf(n) = "dispatchable"
             /\ ~HasClaim(n) /\ Unstarted(n)
  <2>1. n \in Frontier /\ DispositionOf(n) = "dispatchable" /\ n \in NodesOf(graph)
    BY DEF Dispatchable, Frontier
  <2>2. n \in NodeIds
    BY <2>1, NodeIs
  <2>3. facts.states[n] \in (States \cup {Nil}) \ {"succeeded", "cancelled"}
    BY <2>1, <2>2 DEF TypeInv, Frontier
  <2>4. CASE Unstarted(n) /\ HasClaim(n)
    BY <2>1, <2>4 DEF DispositionOf
  <2>5. CASE ~Unstarted(n)
    <3>1. PICK s \in States \ {"succeeded", "cancelled", "pending", "ready"} : s = facts.states[n]
      BY <2>3, <2>5 DEF Unstarted
    <3>2. \/ DispositionOf(n) = "active" \/ DispositionOf(n) = "halted"
          \/ DispositionOf(n) \in {"unknown", "cancelling", "waiting"}
      BY <2>5, <3>1 DEF DispositionOf, States
    <3> QED BY <2>1, <3>2
  <2> QED BY <2>1, <2>2, <2>4, <2>5
<1>2. Dispatchable \subseteq NodeIds /\ IsFiniteSet(NodeIds)
  BY <1>1 DEF TypeInv, ValidConstants
<1> QED BY <1>1, <1>2, FS_Subset

\* Somebody goes before all others, and has been passed over as often at least (orderFrontier).
LEMMA FirstOfIs ==
  ASSUME TypeInv, NEW S \in SUBSET Dispatchable, S # {}
  PROVE  /\ FirstOf(S) \in S
         /\ \A m \in S : fairness.streak[m] <= fairness.streak[FirstOf(S)]
<1> DEFINE before(n) == {m \in S : GoesBefore(m, n)}
           U == {before(n) : n \in S}
<1>1. IsFiniteSet(S) /\ \A n \in S : n \in NodeIds /\ n \in NodesOf(graph)
  BY DispatchableIs, FS_Subset
<1>2. \A n \in S : fairness.streak[n] \in Nat /\ fairness.dispatches[n] \in Nat /\ Rank(n) \in Nat
  BY <1>1, RankTells DEF TypeInv
<1>3. \A n, m \in S : n # m => GoesBefore(n, m) \/ GoesBefore(m, n)
  <2> SUFFICES ASSUME NEW n \in S, NEW m \in S, n # m PROVE GoesBefore(n, m) \/ GoesBefore(m, n)
    OBVIOUS
  <2>1. Rank(n) # Rank(m)
    BY <1>1, RankTells
  <2> QED BY <1>2, <2>1 DEF GoesBefore
<1>4. \A n \in S : ~GoesBefore(n, n)
  BY <1>2 DEF GoesBefore
<1>5. \A n, m, k \in S : GoesBefore(n, m) /\ GoesBefore(m, k) => GoesBefore(n, k)
  BY <1>2 DEF GoesBefore
<1>6. \E x \in U : \A y \in U : <<y, x>> \notin StrictSubsetOrdering(S)
  <2>1. U \subseteq FiniteSubsetsOf(S) /\ U # {}
    <3>1. \A n \in S : before(n) \subseteq S
      OBVIOUS
    <3>2. \A n \in S : IsFiniteSet(before(n))
      BY <1>1, <3>1, FS_Subset
    <3> HIDE DEF before
    <3> QED BY <3>1, <3>2 DEF FiniteSubsetsOf
  <2>2. IsWellFoundedOn(StrictSubsetOrdering(S), FiniteSubsetsOf(S))
    BY FS_StrictSubsetOrderingWellFounded
  <2> HIDE DEF U
  <2> QED BY <2>1, <2>2, WFMin
<1>7. PICK n \in S : \A k \in S : <<before(k), before(n)>> \notin StrictSubsetOrdering(S)
  BY <1>6
<1>8. ASSUME NEW m \in S, GoesBefore(m, n) PROVE FALSE
  <2>1. before(m) \subseteq before(n) /\ before(n) \subseteq S /\ m \in before(n) /\ m \notin before(m)
    BY <1>4, <1>5, <1>8
  <2> HIDE DEF before
  <2>2. <<before(m), before(n)>> \in StrictSubsetOrdering(S)
    BY <2>1 DEF StrictSubsetOrdering
  <2> QED BY <1>7, <2>2
<1>9. \A m \in S \ {n} : GoesBefore(n, m)
  BY <1>3, <1>8
<1>10. PICK f : f = FirstOf(S)
  OBVIOUS
<1>11. f \in S /\ \A m \in S \ {f} : GoesBefore(f, m)
  BY <1>9, <1>10 DEF FirstOf
<1>12. \A m \in S \ {f} : fairness.streak[m] <= fairness.streak[f]
  BY <1>2, <1>11 DEF GoesBefore
<1> QED BY <1>2, <1>10, <1>11, <1>12

-----------------------------------------------------------------------------
(* The inductive invariant.                                                    *)

Live(claim, grants) == \E g \in LiveGrants(grants) : g.owner = claim

\* The attempts that count against the number of concurrent agents.
Engaged(claims, grants) == {c \in claims : Live(c, grants) /\ c[1] \notin AbandonedIn(graph)}

LeaseInv == TableFits([grants |-> sched.grants, nextToken |-> sched.nextToken])

\* A live lease is one of a claim, a claim with a live lease that of a leased node.
OwnersClaim == \A g \in LiveGrants(sched.grants) : g.owner \in sched.claims

ClaimsLeased ==
  \A c \in sched.claims : Live(c, sched.grants) =>
    c = BindingFor(c[1]) /\ facts.states[c[1]] = "leased" /\ c[1] \in NodesOf(graph)

AttemptsBegin == \A n \in NodeIds : facts.states[n] # Nil => attempts[n] # 0

EngagedFit == Cardinality(Engaged(sched.claims, sched.grants)) <= MaxConcurrentAgents

ClaimInv == OwnersClaim /\ ClaimsLeased /\ AttemptsBegin /\ EngagedFit

\* Work knows its leases, and whoever held a resource before them is out.
WorkLeases ==
  \A w \in work :
    /\ w.spec.id = w.binding[1]
    /\ \A g \in w.leases : g.token < sched.nextToken /\ Fenced(g, sched.grants)
    /\ \A g \in LiveGrants(sched.grants) : g.owner = w.binding => g \in w.leases

WorkInv == WorkLeases /\ WorkMatchesGraph

AcceptedInv ==
  /\ \A i \in DOMAIN accepted :
       accepted[i].lease \notin sched.grants /\ accepted[i].lease.token < sched.nextToken
  /\ AcceptedFromNewest

\* Who was passed over stands before the one who passed.
FairnessInv ==
  CarriesFairness =>
    \A n, m \in NodeIds :
      passed[n][m] \in {0, 1} /\ (passed[n][m] = 1 => fairness.streak[m] < fairness.streak[n])

SafetyInv == LeaseInv /\ ClaimInv /\ WorkInv /\ AcceptedInv /\ FairnessInv

-----------------------------------------------------------------------------
(* One round.                                                                  *)

\* The round after each turn (dispatchRound).
LEMMA TurnsUnfold ==
  ASSUME TypeInv, NEW refused
  PROVE  /\ Cardinality(Dispatchable) \in Nat
         /\ Turns(refused)[0] = RoundBegins
         /\ \A i \in 1..Cardinality(Dispatchable) :
              Turns(refused)[i] = Turn(Turns(refused)[i - 1], FirstOf(Left(Turns(refused)[i - 1])), refused)
<1> DEFINE n == Cardinality(Dispatchable)
           step(acc) == Turn(acc, FirstOf(Left(acc)), refused)
           Rec(f, k) == f = [i \in 0..k |-> IF i = 0 THEN RoundBegins ELSE step(f[i - 1])]
           Exists(k) == \E f : Rec(f, k)
           P == {k \in 0..n : Exists(k)}
<1>1. n \in Nat
  BY DispatchableIs, FS_CardinalityType
<1> HIDE DEF step
<1>2. 0 \in P
  <2>1. Rec([i \in 0..0 |-> RoundBegins], 0)
    OBVIOUS
  <2>2. Exists(0)
    <3> HIDE DEF Rec
    <3> QED BY <2>1
  <2> HIDE DEF Exists, n
  <2> QED BY <1>1, <2>2
<1>3. ASSUME NEW k \in 0..(n - 1), k \in P PROVE k + 1 \in P
  <2> HIDE DEF n
  <2>1. PICK f : Rec(f, k)
    <3> HIDE DEF Rec
    <3> QED BY <1>3
  <2> DEFINE g == [i \in 0..(k + 1) |-> IF i = k + 1 THEN step(f[k]) ELSE f[i]]
  <2>2. \A i \in 0..(k + 1) : g[i] = IF i = 0 THEN RoundBegins ELSE step(g[i - 1])
    <3> SUFFICES ASSUME NEW i \in 0..(k + 1) PROVE g[i] = IF i = 0 THEN RoundBegins ELSE step(g[i - 1])
      OBVIOUS
    <3>1. CASE i = k + 1
      BY <1>1, <3>1
    <3>2. CASE i # k + 1
      <4>1. i \in 0..k /\ g[i] = f[i] /\ (i # 0 => g[i - 1] = f[i - 1])
        BY <1>1, <3>2
      <4>2. f[i] = IF i = 0 THEN RoundBegins ELSE step(f[i - 1])
        BY <2>1, <4>1
      <4> QED BY <4>1, <4>2
    <3> QED BY <3>1, <3>2
  <2>3. Rec(g, k + 1)
    BY <2>2
  <2>4. Exists(k + 1)
    <3> HIDE DEF Rec, g
    <3> QED BY <2>3
  <2> HIDE DEF Exists
  <2> QED BY <1>1, <2>4
<1>4. n \in P
  <2> HIDE DEF P, n
  <2>1. \A i \in 0..(n - 1) : i \in P => i + 1 \in P
    BY <1>3
  <2>2. \A i \in 0..n : i \in P
    BY <1>1, <1>2, <2>1, Induction
  <2> QED BY <1>1, <2>2
<1>5. PICK f : Rec(f, n)
  <2> HIDE DEF Rec, n
  <2> QED BY <1>4
<1>6. Rec(Turns(refused), n)
  BY <1>5 DEF Turns, step
<1> HIDE DEF n
<1>7. Turns(refused)[0] = RoundBegins /\ \A i \in 1..n : Turns(refused)[i] = step(Turns(refused)[i - 1])
  BY <1>1, <1>6
<1> QED BY <1>1, <1>7 DEF n, step

\* A round under way: how many agents it has, and whom it passes over for good.
Count(acc) == Cardinality(LiveAttempts(acc.claims, acc.table.grants)) + acc.unleased

Stuck(acc, n) ==
  Count(acc) >= MaxConcurrentAgents \/ Full(acc.table, Head(Declared(Node(graph, n))))

Contends(m, n) == Head(Declared(Node(graph, n))) \in ToSet(Declared(Node(graph, m)))

RoundType ==
  [table : Table, claims : SUBSET Claim, unleased : Nat,
   dispatched : SUBSET Dispatchable, deferred : SUBSET Dispatchable]

\* The table only grows, by fenced leases of those dispatched.
LeasesFit(acc) ==
  /\ TableFits(acc.table) /\ sched.grants \subseteq acc.table.grants
  /\ sched.nextToken <= acc.table.nextToken
  /\ \A g \in acc.table.grants \ sched.grants :
       /\ g.token >= sched.nextToken /\ Fenced(g, acc.table.grants)
       /\ \E n \in acc.dispatched : g.owner = BindingFor(n)

ClaimsFit(acc) ==
  /\ acc.claims = sched.claims \cup {BindingFor(n) : n \in acc.dispatched}
  /\ IsFiniteSet(acc.claims)
  /\ acc.dispatched \cap acc.deferred = {}
  /\ Cardinality(Engaged(acc.claims, acc.table.grants)) <= MaxConcurrentAgents

\* Who has been passed over longest comes first, and whom a full resource held back it holds back.
OrderFits(acc, refused) ==
  /\ \A m \in acc.dispatched, n \in Left(acc) : fairness.streak[n] <= fairness.streak[m]
  /\ \A n \in acc.deferred \ refused : Len(Declared(Node(graph, n))) = 1 =>
       /\ Stuck(acc, n)
       /\ \A m \in acc.dispatched : Contends(m, n) => fairness.streak[n] <= fairness.streak[m]

RoundFits(acc, refused) == acc \in RoundType /\ LeasesFit(acc) /\ ClaimsFit(acc) /\ OrderFits(acc, refused)

\* A claim is live when one of its leases is (classifyClaim).
LEMMA LiveIs ==
  ASSUME NEW claim, NEW grants
  PROVE  Activity(claim, grants) = "live" <=> Live(claim, grants)
BY DEF Activity, Owned, Live, LiveGrants

\* Both counts of the agents are one, in the round as before it.
LEMMA CountedIs ==
  ASSUME TypeInv, ClaimInv, NEW acc \in RoundType, LeasesFit(acc), ClaimsFit(acc)
  PROVE  /\ LiveAttempts(acc.claims, acc.table.grants) = Engaged(acc.claims, acc.table.grants)
         /\ IsFiniteSet(Engaged(acc.claims, acc.table.grants))
<1>1. LiveAttempts(acc.claims, acc.table.grants) \subseteq Engaged(acc.claims, acc.table.grants)
  BY LiveIs DEF LiveAttempts, Engaged, Frontier
<1>2. ASSUME NEW c \in Engaged(acc.claims, acc.table.grants)
      PROVE  c[1] \in Frontier /\ DispositionOf(c[1]) \in {"dispatchable", "claimed", "active"}
  <2>1. c \in acc.claims /\ Live(c, acc.table.grants) /\ c[1] \notin AbandonedIn(graph)
    BY DEF Engaged
  <2>2. CASE \E n \in acc.dispatched : c = BindingFor(n)
    <3>1. PICK n \in Dispatchable : c = BindingFor(n)
      BY <2>2 DEF RoundType
    <3>2. c[1] = n
      BY <3>1 DEF BindingFor
    <3> QED BY <3>2, DispatchableIs
  <2>3. CASE ~\E n \in acc.dispatched : c = BindingFor(n)
    <3>1. c \in sched.claims
      BY <2>1, <2>3 DEF ClaimsFit
    <3>2. PICK g \in acc.table.grants : g.owner = c /\ g.expiresAt > now
      BY <2>1 DEF Live, LiveGrants
    <3>3. g \in sched.grants
      BY <2>3, <3>2 DEF LeasesFit
    <3>4. c = BindingFor(c[1]) /\ facts.states[c[1]] = "leased" /\ c[1] \in NodesOf(graph)
      BY <3>1, <3>2, <3>3 DEF ClaimInv, ClaimsLeased, Live, LiveGrants
    <3>5. PICK n \in NodesOf(graph) : n = c[1] /\ n \in NodeIds
      BY <3>4, NodeIs
    <3>6. Nil # "leased"
      BY DEF TypeInv, ValidConstants, States
    <3>7. attempts[n] # 0
      BY <3>4, <3>5, <3>6 DEF ClaimInv, AttemptsBegin
    <3>8. n \in Frontier
      BY <2>1, <3>4, <3>5, <3>7 DEF Frontier, Schedulable
    <3>9. ~Unstarted(n)
      BY <3>4, <3>5, <3>6 DEF Unstarted
    <3>10. DispositionOf(n) = "active"
      BY <3>4, <3>5, <3>9 DEF DispositionOf
    <3> QED BY <3>5, <3>8, <3>10
  <2> QED BY <2>2, <2>3
<1>3. Engaged(acc.claims, acc.table.grants) \subseteq LiveAttempts(acc.claims, acc.table.grants)
  BY <1>2, LiveIs DEF LiveAttempts, Engaged
<1>4. Engaged(acc.claims, acc.table.grants) \subseteq acc.claims
  BY DEF Engaged
<1> QED BY <1>1, <1>3, <1>4, FS_Subset DEF ClaimsFit

\* An attempt has an ordinal and belongs to its node.
LEMMA BindingIs ==
  ASSUME TypeInv, NEW n \in NodeIds
  PROVE  AttemptOf(n) \in Nat \ {0} /\ BindingFor(n) \in Claim /\ BindingFor(n)[1] = n
<1>1. AttemptOf(n) \in Nat \ {0}
  BY DEF AttemptOf, TypeInv
<1> QED BY <1>1 DEF BindingFor, Claim

\* A round begins with the leases and claims of the state, and everybody still to come.
LEMMA RoundBeginsFits ==
  ASSUME TypeInv, LeaseInv, ClaimInv, NEW refused
  PROVE  RoundFits(RoundBegins, refused) /\ Left(RoundBegins) = Dispatchable
<1> DEFINE table == [grants |-> sched.grants, nextToken |-> sched.nextToken]
<1>1. PICK acc : acc = RoundBegins
  OBVIOUS
<1>2. table \in Table /\ table.grants = sched.grants /\ table.nextToken = sched.nextToken /\ TableFits(table)
  BY DEF TypeInv, Table, LeaseInv
<1> HIDE DEF table
<1>3. /\ acc \in RoundType /\ acc.table = table /\ acc.claims = sched.claims
      /\ acc.dispatched = {} /\ acc.deferred = {}
  BY <1>1, <1>2 DEF RoundBegins, RoundType, TypeInv, table
<1>4. sched.nextToken \in Nat
  BY DEF TypeInv
<1>5. LeasesFit(acc)
  BY <1>2, <1>3, <1>4 DEF LeasesFit
<1>6. ClaimsFit(acc)
  BY <1>2, <1>3 DEF ClaimsFit, ClaimInv, EngagedFit, TypeInv
<1>7. OrderFits(acc, refused)
  BY <1>3 DEF OrderFits
<1> QED BY <1>1, <1>3, <1>5, <1>6, <1>7 DEF RoundFits, Left

\* A turn that passes a node over (preGates, grantAll): the node is refused, or stuck.
LEMMA DefersFits ==
  ASSUME TypeInv, ClaimInv, NEW refused, NEW acc, RoundFits(acc, refused),
         NEW n \in Left(acc), \A m \in Left(acc) : fairness.streak[m] <= fairness.streak[n],
         \/ Gated(acc, Declared(Node(graph, n))) \/ n \in refused
         \/ GrantAll(acc.table, Declared(Node(graph, n)), BindingFor(n)) = Nil
  PROVE  /\ RoundFits([acc EXCEPT !.deferred = @ \cup {n}], refused)
         /\ Left([acc EXCEPT !.deferred = @ \cup {n}]) = Left(acc) \ {n}
<1> DEFINE D == acc.deferred \cup {n}
<1>0. n \in Dispatchable /\ n \notin acc.dispatched /\ n \notin acc.deferred /\ n \in NodesOf(graph) /\ n \in NodeIds
  BY DispatchableIs DEF Left
<1>1. PICK next : next = [acc EXCEPT !.deferred = D]
  OBVIOUS
<1>2. D \in SUBSET Dispatchable
  BY <1>0 DEF RoundFits, RoundType
<1>3. /\ next \in RoundType /\ next.table = acc.table /\ next.claims = acc.claims /\ next.unleased = acc.unleased
      /\ next.dispatched = acc.dispatched /\ next.deferred = D
  <2> HIDE DEF D
  <2> QED BY <1>1, <1>2 DEF RoundFits, RoundType
<1>4. LeasesFit(next)
  BY <1>3 DEF RoundFits, LeasesFit
<1>5. ClaimsFit(next)
  BY <1>0, <1>3 DEF RoundFits, ClaimsFit
<1>6. Left(next) = Left(acc) \ {n}
  BY <1>3 DEF Left
<1>7. \A m \in next.dispatched, k \in Left(next) : fairness.streak[k] <= fairness.streak[m]
  BY <1>3, <1>6 DEF RoundFits, OrderFits
<1>8. ASSUME NEW k \in next.deferred \ refused, Len(Declared(Node(graph, k))) = 1
      PROVE  /\ Stuck(next, k)
             /\ \A m \in next.dispatched : Contends(m, k) => fairness.streak[k] <= fairness.streak[m]
  <2>1. CASE k \in acc.deferred
    BY <1>3, <1>8, <2>1 DEF RoundFits, OrderFits, Stuck, Count
  <2>2. CASE k = n
    <3>1. \A m \in next.dispatched : fairness.streak[k] <= fairness.streak[m]
      BY <1>3, <2>2 DEF RoundFits, OrderFits
    <3>2. PICK declared \in Seq(Resources) : declared = Declared(Node(graph, n))
      BY <1>0, DeclaredTyped
    <3>4. CASE Gated(acc, declared)
      <4>1. ~ModeConflict(declared, acc.table.grants)
        BY DEF ModeConflict, RoundFits, LeasesFit, TableFits, HoldersOf, LiveGrants
      <4>2. Count(acc) >= MaxConcurrentAgents
        BY <3>4, <4>1 DEF Gated, Count
      <4> QED BY <1>3, <3>1, <4>2 DEF Stuck, Count
    <3>5. CASE GrantAll(acc.table, declared, BindingFor(n)) = Nil
      <4>1. PICK t : t = acc.table /\ TableFits(t)
        BY DEF RoundFits, LeasesFit
      <4>2. PICK owner \in Claim : owner = BindingFor(n)
        BY <1>0, BindingIs
      <4>3. Len(declared) = 1 /\ GrantAll(t, declared, owner) = Nil
        BY <1>8, <2>2, <3>2, <3>5, <4>1, <4>2
      <4>4. Full(t, Head(declared))
        BY <3>2, <4>1, <4>2, <4>3, OneIsFull
      <4> QED BY <1>3, <2>2, <3>1, <3>2, <4>1, <4>4 DEF Stuck
    <3> QED BY <1>8, <2>2, <3>2, <3>4, <3>5
  <2> QED BY <1>3, <1>8, <2>1, <2>2
<1>9. OrderFits(next, refused)
  BY <1>7, <1>8 DEF OrderFits
<1> QED BY <1>1, <1>3, <1>4, <1>5, <1>6, <1>9 DEF RoundFits

\* A turn that sends a node out: its leases are fenced, one agent more is engaged, and none of its
\* resources is full.
LEMMA DispatchesFits ==
  ASSUME TypeInv, ClaimInv, NEW refused, NEW acc, RoundFits(acc, refused),
         NEW n \in Left(acc), \A m \in Left(acc) : fairness.streak[m] <= fairness.streak[n],
         ~Gated(acc, Declared(Node(graph, n))),
         NEW table, table = GrantAll(acc.table, Declared(Node(graph, n)), BindingFor(n)), table # Nil,
         NEW unleased \in Nat, NEW next,
         next = [table |-> table, claims |-> acc.claims \cup {BindingFor(n)}, unleased |-> unleased,
                 dispatched |-> acc.dispatched \cup {n}, deferred |-> acc.deferred]
  PROVE  RoundFits(next, refused) /\ Left(next) = Left(acc) \ {n}
<1>0. n \in Dispatchable /\ n \notin acc.dispatched /\ n \notin acc.deferred /\ n \in NodesOf(graph) /\ n \in NodeIds
  BY DispatchableIs DEF Left
<1>1. PICK b \in Claim : b = BindingFor(n) /\ b[1] = n
  BY <1>0, BindingIs
<1>2. PICK declared \in Seq(Resources) : declared = Declared(Node(graph, n))
  BY <1>0, DeclaredTyped
<1>3. PICK t : t = acc.table /\ TableFits(t) /\ t \in Table
  BY DEF RoundFits, LeasesFit, TableFits
<1>4. Grew(t, table, b) /\ \A r \in ToSet(declared) : ~Full(t, r)
  <2>1. table = GrantAll(t, declared, b)
    BY <1>1, <1>2, <1>3
  <2>2. GrantAll(t, declared, b) # Nil
    BY <2>1
  <2> QED BY <1>3, <2>1, <2>2, GrantAllFits
<1>5. TableFits(table) /\ table \in Table
  BY <1>4 DEF Grew, TableFits
<1> DEFINE C == acc.claims \cup {b}  D == acc.dispatched \cup {n}
<1>6. /\ acc \in RoundType /\ C \in SUBSET Claim /\ D \in SUBSET Dispatchable
      /\ next = [table |-> table, claims |-> C, unleased |-> unleased, dispatched |-> D,
                 deferred |-> acc.deferred]
  BY <1>0, <1>1 DEF RoundFits, RoundType
<1>7. /\ next \in RoundType /\ next.table = table /\ next.claims = C /\ next.unleased = unleased
      /\ next.dispatched = D /\ next.deferred = acc.deferred
  <2> HIDE DEF C, D
  <2> QED BY <1>5, <1>6 DEF RoundType
<1>8. LeasesFit(next)
  <2>1. /\ t.nextToken \in Nat /\ sched.nextToken \in Nat /\ table.nextToken \in Nat
        /\ sched.nextToken <= t.nextToken /\ t.nextToken <= table.nextToken
    BY <1>3, <1>4, <1>5 DEF TypeInv, Table, Grew, RoundFits, LeasesFit
  <2>2. sched.grants \subseteq t.grants /\ t.grants \subseteq table.grants
    BY <1>3, <1>4 DEF Grew, RoundFits, LeasesFit
  <2>3. ASSUME NEW g \in table.grants \ sched.grants
        PROVE  /\ g.token >= sched.nextToken /\ Fenced(g, table.grants)
               /\ \E k \in D : g.owner = BindingFor(k)
    <3>1. g.token \in Nat /\ \A l \in table.grants : l.token \in Nat
      BY <1>5 DEF Table, Grant
    <3>2. CASE g \in t.grants
      <4>1. /\ g.token >= sched.nextToken /\ Fenced(g, t.grants) /\ g.token < t.nextToken
            /\ \E k \in acc.dispatched : g.owner = BindingFor(k)
        BY <1>3, <2>3, <3>2 DEF RoundFits, LeasesFit, TableFits
      <4>2. \A l \in table.grants \ t.grants : l.token >= t.nextToken
        BY <1>4 DEF Grew
      <4>3. Fenced(g, table.grants)
        BY <2>1, <3>1, <4>1, <4>2 DEF Fenced
      <4> QED BY <4>1, <4>3
    <3>3. CASE g \notin t.grants
      <4>1. g.owner = b /\ g.token >= t.nextToken /\ Fenced(g, table.grants)
        BY <1>4, <2>3, <3>3 DEF Grew
      <4> QED BY <1>1, <2>1, <3>1, <4>1
    <3> QED BY <3>2, <3>3
  <2> QED BY <1>5, <1>7, <2>1, <2>2, <2>3 DEF LeasesFit
<1>9. ClaimsFit(next)
  <2>1. C = sched.claims \cup {BindingFor(k) : k \in D}
    BY <1>1 DEF RoundFits, ClaimsFit
  <2>2. IsFiniteSet(C)
    BY FS_AddElement DEF RoundFits, ClaimsFit
  <2>3. D \cap acc.deferred = {}
    BY <1>0 DEF RoundFits, ClaimsFit
  <2>4. PICK E : E = Engaged(acc.claims, t.grants) /\ IsFiniteSet(E) /\ Cardinality(E) \in Nat
                 /\ Cardinality(E) < MaxConcurrentAgents
    <3>1. /\ LiveAttempts(acc.claims, t.grants) = Engaged(acc.claims, t.grants)
          /\ IsFiniteSet(Engaged(acc.claims, t.grants))
      BY <1>3, CountedIs DEF RoundFits
    <3>2. Cardinality(Engaged(acc.claims, t.grants)) \in Nat
      BY <3>1, FS_CardinalityType
    <3>3. ~(Cardinality(Engaged(acc.claims, t.grants)) + acc.unleased >= MaxConcurrentAgents)
      BY <1>3, <3>1 DEF Gated
    <3>4. acc.unleased \in Nat /\ MaxConcurrentAgents \in Nat
      BY DEF RoundFits, RoundType, TypeInv, ValidConstants
    <3> QED BY <3>1, <3>2, <3>3, <3>4
  <2>5. Engaged(C, table.grants) \subseteq E \cup {b}
    BY <1>4, <2>4 DEF Engaged, Live, LiveGrants, Grew
  <2>6. /\ IsFiniteSet(E \cup {b})
        /\ Cardinality(E \cup {b}) = IF b \in E THEN Cardinality(E) ELSE Cardinality(E) + 1
    BY <2>4, FS_AddElement
  <2>7. Cardinality(Engaged(C, table.grants)) \in Nat /\ Cardinality(Engaged(C, table.grants)) <= Cardinality(E \cup {b})
    <3>1. IsFiniteSet(Engaged(C, table.grants))
      BY <2>5, <2>6, FS_Subset
    <3> QED BY <2>5, <2>6, <3>1, FS_Subset, FS_CardinalityType
  <2>8. Cardinality(Engaged(C, table.grants)) <= MaxConcurrentAgents
    <3>1. MaxConcurrentAgents \in Nat
      BY DEF TypeInv, ValidConstants
    <3> HIDE DEF C
    <3>2. Cardinality(E \cup {b}) <= Cardinality(E) + 1 /\ Cardinality(E \cup {b}) \in Nat
      BY <2>4, <2>6
    <3> QED BY <2>4, <2>7, <3>1, <3>2
  <2> QED BY <1>7, <2>1, <2>2, <2>3, <2>8 DEF ClaimsFit
<1>10. Left(next) = Left(acc) \ {n}
  BY <1>7 DEF Left
<1>11. \A m \in next.dispatched, k \in Left(next) : fairness.streak[k] <= fairness.streak[m]
  BY <1>7, <1>10 DEF RoundFits, OrderFits
<1>12. ASSUME NEW k \in next.deferred \ refused, Len(Declared(Node(graph, k))) = 1
       PROVE  /\ Stuck(next, k)
              /\ \A m \in next.dispatched : Contends(m, k) => fairness.streak[k] <= fairness.streak[m]
  <2>1. PICK r \in Resources : r = Head(Declared(Node(graph, k)))
    <3>1. k \in NodesOf(graph)
      BY <1>7, DispatchableIs DEF RoundType
    <3>2. PICK d \in Seq(Resources) : d = Declared(Node(graph, k))
      BY <3>1, DeclaredTyped
    <3>3. Len(d) = 1
      BY <1>12, <3>2
    <3>4. Head(d) \in Resources
      BY <3>3
    <3> QED BY <3>2, <3>4
  <2>2. /\ Stuck(acc, k)
        /\ \A m \in acc.dispatched : Contends(m, k) => fairness.streak[k] <= fairness.streak[m]
    BY <1>7, <1>12 DEF RoundFits, OrderFits
  <2>3. Full(t, r)
    BY <1>3, <2>1, <2>2 DEF Stuck, Count, Gated
  <2>4. Full(table, r)
    BY <1>4, <1>5, <2>3, FullStays DEF Grew
  <2>5. ~Contends(n, k)
    BY <1>2, <1>4, <2>1, <2>3 DEF Contends
  <2> QED BY <1>7, <2>1, <2>2, <2>4, <2>5 DEF Stuck
<1>13. OrderFits(next, refused)
  BY <1>11, <1>12 DEF OrderFits
<1> QED BY <1>7, <1>8, <1>9, <1>10, <1>13 DEF RoundFits

\* One turn.
LEMMA TurnFits ==
  ASSUME TypeInv, ClaimInv, NEW refused, NEW acc, RoundFits(acc, refused), Left(acc) # {}
  PROVE  /\ RoundFits(Turn(acc, FirstOf(Left(acc)), refused), refused)
         /\ \E n \in Left(acc) : Left(Turn(acc, FirstOf(Left(acc)), refused)) = Left(acc) \ {n}
<1>1. Left(acc) \in SUBSET Dispatchable
  BY DEF Left
<1>2. PICK n \in Left(acc) : n = FirstOf(Left(acc)) /\ \A m \in Left(acc) : fairness.streak[m] <= fairness.streak[n]
  BY <1>1, FirstOfIs
<1>3. PICK next : next = Turn(acc, n, refused)
  OBVIOUS
<1> DEFINE declared == Declared(Node(graph, n))
           table == GrantAll(acc.table, declared, BindingFor(n))
           defers == Gated(acc, declared) \/ table = Nil \/ n \in refused
           unleased == IF declared = <<>> THEN acc.unleased + 1 ELSE acc.unleased
<1>4. CASE defers
  <2>1. next = [acc EXCEPT !.deferred = @ \cup {n}]
    BY <1>3, <1>4 DEF Turn
  <2>2. RoundFits(next, refused) /\ Left(next) = Left(acc) \ {n}
    BY <1>2, <1>4, <2>1, DefersFits
  <2> QED BY <1>2, <1>3, <2>2
<1>5. CASE ~defers
  <2>1. PICK t : t = table
    OBVIOUS
  <2>2. PICK u \in Nat : u = unleased
    BY DEF RoundFits, RoundType
  <2>3. ~Gated(acc, Declared(Node(graph, n))) /\ t # Nil
        /\ t = GrantAll(acc.table, Declared(Node(graph, n)), BindingFor(n))
    BY <1>5, <2>1
  <2>4. next = [table |-> t, claims |-> acc.claims \cup {BindingFor(n)}, unleased |-> u,
                dispatched |-> acc.dispatched \cup {n}, deferred |-> acc.deferred]
    BY <1>3, <1>5, <2>1, <2>2 DEF Turn, RoundFits, RoundType
  <2> HIDE DEF table, unleased, declared
  <2>5. RoundFits(next, refused) /\ Left(next) = Left(acc) \ {n}
    BY <1>2, <2>2, <2>3, <2>4, DispatchesFits
  <2> QED BY <1>2, <1>3, <2>5
<1> QED BY <1>4, <1>5

\* The round (dispatchRound).
LEMMA DispatchRoundFits ==
  ASSUME TypeInv, LeaseInv, ClaimInv, NEW refused
  PROVE  RoundFits(DispatchRound(refused), refused)
<1> DEFINE n == Cardinality(Dispatchable)  after == Turns(refused)
           Fits(i) == /\ RoundFits(after[i], refused)
                      /\ IsFiniteSet(Left(after[i])) /\ Cardinality(Left(after[i])) = n - i
           P == {i \in 0..n : Fits(i)}
<1>1. n \in Nat /\ after[0] = RoundBegins
      /\ \A i \in 1..n : after[i] = Turn(after[i - 1], FirstOf(Left(after[i - 1])), refused)
  BY TurnsUnfold
<1>2. Fits(0)
  BY <1>1, RoundBeginsFits, DispatchableIs
<1> HIDE DEF after, n
<1>3. ASSUME NEW i \in 0..(n - 1), i \in P PROVE Fits(i + 1)
  <2>1. i + 1 \in 1..n /\ (i + 1) - 1 = i /\ i \in Nat /\ i < n
    BY <1>1
  <2>a. PICK acc : acc = after[i]
    OBVIOUS
  <2>b. PICK next : next = after[i + 1]
    OBVIOUS
  <2>2. next = Turn(acc, FirstOf(Left(acc)), refused)
    BY <1>1, <2>1, <2>a, <2>b
  <2>3. RoundFits(acc, refused) /\ IsFiniteSet(Left(acc)) /\ Cardinality(Left(acc)) = n - i
    BY <1>3, <2>a
  <2>4. Left(acc) # {}
    <3>1. n - i # 0
      BY <1>1, <2>1
    <3> QED BY <2>3, <3>1, FS_EmptySet
  <2>5. RoundFits(next, refused)
    BY <2>2, <2>3, <2>4, TurnFits
  <2>6. PICK m \in Left(acc) : Left(next) = Left(acc) \ {m}
    BY <2>2, <2>3, <2>4, TurnFits
  <2>7. IsFiniteSet(Left(next)) /\ Cardinality(Left(next)) = Cardinality(Left(acc)) - 1
    BY <2>3, <2>6, FS_RemoveElement
  <2>8. Cardinality(Left(next)) = n - (i + 1)
    BY <1>1, <2>1, <2>3, <2>7
  <2> QED BY <2>b, <2>5, <2>7, <2>8
<1> HIDE DEF Fits
<1>4. \A i \in 0..n : i \in P
  <2>1. 0 \in P /\ \A i \in 0..(n - 1) : i \in P => i + 1 \in P
    BY <1>1, <1>2, <1>3
  <2> HIDE DEF P
  <2> QED BY <1>1, <2>1, Induction
<1>5. Fits(n)
  BY <1>1, <1>4
<1> QED BY <1>5 DEF Fits, DispatchRound, after, n

-----------------------------------------------------------------------------
(* States.                                                                     *)

\* Readiness answers one of three states.
LEMMA ReadinessIs ==
  ASSUME NEW g, NEW n, NEW f
  PROVE  Readiness(g, n, f).state \in {"ready", "waiting", "failed"}
<1>1. JoinStatus(g, n, f.states) \in {"failed", "waiting", "verifying"}
  BY DEF JoinStatus
<1>2. Ready.state = "ready" /\ (\A x : Failed(x).state = "failed") /\ \A x, y : Waiting(x, y).state = "waiting"
  BY DEF Ready, Failed, Waiting
<1>3. CASE Node(g, n).kind = "join"
  <2>1. Readiness(g, n, f) \in {Ready, Failed("upstream-abandoned"), Waiting("join-incomplete", n)}
    BY <1>1, <1>3 DEF Readiness
  <2> QED BY <1>2, <2>1
<1>4. CASE Node(g, n).kind # "join"
  <2>1. \/ Readiness(g, n, f) = Ready \/ (\E x : Readiness(g, n, f) = Failed(x))
        \/ \E x, y : Readiness(g, n, f) = Waiting(x, y)
    BY <1>4 DEF Readiness
  <2> QED BY <1>2, <2>1
<1> QED BY <1>3, <1>4

\* What the journal notes never puts a node in flight, nor takes it out.
LEMMA NotedIs ==
  ASSUME TypeInv, NEW n \in NodeIds
  PROVE  /\ Noted(n) \in States \cup {Nil}
         /\ Noted(n) \in MutationLockedStates <=> facts.states[n] \in MutationLockedStates
         /\ facts.states[n] = "leased" => Noted(n) = "leased"
<1>1. facts.states[n] \in States \cup {Nil} /\ Nil \notin States
  BY DEF TypeInv, ValidConstants
<1>2. PICK r \in {"ready", "waiting", "failed"} : r = Readiness(graph, n, facts).state
  BY ReadinessIs
<1>3. \/ Noted(n) = facts.states[n]
      \/ /\ facts.states[n] \in {"waiting", Nil, "pending", "ready"}
         /\ Noted(n) \in {"pending", "waiting", "failed"}
  BY <1>2 DEF Noted, Unstarted
<1> QED BY <1>1, <1>3 DEF States, MutationLockedStates

\* A decision moves its node to one of four states.
LEMMA JudgementIs ==
  ASSUME TypeInv, NEW n, NEW outcome \in Outcomes
  PROVE  DecideOutcome(graph, n, outcome).state \in {"succeeded", "failed", "waiting", "unknown"}
<1>1. outcome.ok => outcome.decision \in {"completed", "repair", "failed", "needs-human", "unknown"}
  BY DEF TypeInv, ValidConstants
<1>2. Resolved(outcome) \in {"succeeded", "failed", "waiting", "unknown"}
  BY <1>1 DEF Resolved, StateFromDecision
<1>3. \E rule, x, y : \/ DecideOutcome(graph, n, outcome) = Judged(rule, "failed", x, y)
                      \/ DecideOutcome(graph, n, outcome) = Judged(rule, Resolved(outcome), x, y)
  BY DEF DecideOutcome
<1> QED BY <1>2, <1>3 DEF Judged

-----------------------------------------------------------------------------
(* The step of a round.                                                        *)

\* What a round leaves behind.
RoundLeaves(round) ==
  /\ sched' = [claims |-> round.claims, grants |-> round.table.grants, nextToken |-> round.table.nextToken]
  /\ facts' \in [states : [NodeIds -> States \cup {Nil}],
                 artifacts : [NodeIds -> [node : NodeIds, schema : Schemas, digest : Digests] \cup {Nil}]]
  /\ \A n \in NodeIds :
       /\ facts'.states[n] = IF n \in round.dispatched THEN "leased"
                             ELSE IF n \in Frontier THEN Noted(n) ELSE facts.states[n]
       /\ facts'.states[n] # Nil => attempts'[n] # 0
       /\ BindingFor(n)' = BindingFor(n)
  /\ attempts' \in [NodeIds -> Nat]
  /\ work' = {w \in work : w.binding[1] \notin round.dispatched \/ w.binding # BindingFor(w.binding[1])}
               \cup {Sent(n, round.table) : n \in round.dispatched}

\* The state a round leaves, in terms of its last turn.
LEMMA RoundIs ==
  ASSUME TypeInv, LeaseInv, ClaimInv, NEW refused, Round(refused)
  PROVE  RoundFits(DispatchRound(refused), refused) /\ RoundLeaves(DispatchRound(refused))
<1>1. PICK round : round = DispatchRound(refused) /\ RoundFits(round, refused)
  BY DispatchRoundFits
<1> DEFINE states == [n \in NodeIds |-> IF n \in round.dispatched THEN "leased"
                                       ELSE IF n \in Frontier THEN Noted(n) ELSE facts.states[n]]
<1>2. facts' = [facts EXCEPT !.states = states]
  BY <1>1 DEF Round
<1>3. states \in [NodeIds -> States \cup {Nil}]
  <2>1. \A n \in NodeIds : states[n] \in States \cup {Nil}
    BY NotedIs DEF TypeInv, States
  <2> QED BY <2>1
<1>4. \A n \in NodeIds : states[n] = IF n \in round.dispatched THEN "leased"
                                    ELSE IF n \in Frontier THEN Noted(n) ELSE facts.states[n]
  OBVIOUS
<1> HIDE DEF states
<1>5. /\ facts' \in [states : [NodeIds -> States \cup {Nil}],
                     artifacts : [NodeIds -> [node : NodeIds, schema : Schemas, digest : Digests] \cup {Nil}]]
      /\ facts'.states = states
  BY <1>2, <1>3 DEF TypeInv
<1>6. attempts' = [n \in NodeIds |-> IF facts'.states[n] # Nil THEN AttemptOf(n) ELSE attempts[n]]
  BY DEF Round
<1>7. \A n \in NodeIds : attempts[n] \in Nat /\ AttemptOf(n) \in Nat \ {0}
  BY BindingIs DEF TypeInv
<1>8. /\ attempts' \in [NodeIds -> Nat]
      /\ \A n \in NodeIds : facts'.states[n] # Nil => attempts'[n] # 0
  BY <1>6, <1>7
<1>9. \A n \in NodeIds : BindingFor(n)' = BindingFor(n)
  BY <1>6 DEF BindingFor, AttemptOf
<1>10. /\ sched' = [claims |-> round.claims, grants |-> round.table.grants, nextToken |-> round.table.nextToken]
       /\ work' = {w \in work : w.binding[1] \notin round.dispatched \/ w.binding # BindingFor(w.binding[1])}
                    \cup {Sent(n, round.table) : n \in round.dispatched}
  BY <1>1 DEF Round
<1> QED BY <1>1, <1>4, <1>5, <1>8, <1>9, <1>10 DEF RoundLeaves

\* What is sent out is the node as the graph has it, under the leases this round granted.
LEMMA SentIs ==
  ASSUME TypeInv, NEW n \in NodesOf(graph), NEW table \in Table
  PROVE  /\ Sent(n, table) \in Work
         /\ Sent(n, table).binding = BindingFor(n) /\ Sent(n, table).spec = Node(graph, n)
         /\ Sent(n, table).inputs = DataInputs(n)
         /\ Sent(n, table).leases = {g \in table.grants : g.owner = BindingFor(n) /\ g.token >= sched.nextToken}
<1>1. BindingFor(n) \in Claim /\ Node(graph, n) \in NodeSpecs
  BY NodeIs, BindingIs
<1>2. DataInputs(n) \subseteq EdgeSpecs
  <2>1. graph.edges \in Seq(EdgeSpecs)
    BY DEF TypeInv, Graph
  <2> QED BY <2>1, Members DEF DataInputs, OfTypes
<1>3. {g \in table.grants : g.owner = BindingFor(n) /\ g.token >= sched.nextToken} \subseteq Grant
  BY DEF Table
<1> QED BY <1>1, <1>2, <1>3 DEF Sent, Work

\* A round keeps the types.
LEMMA RoundTypes ==
  ASSUME TypeInv, LeaseInv, ClaimInv, NEW refused, Round(refused)
  PROVE  TypeInv'
<1>1. PICK round : RoundFits(round, refused) /\ RoundLeaves(round) /\ round = DispatchRound(refused)
  BY RoundIs
<1>2. round \in RoundType /\ round.table \in Table /\ IsFiniteSet(round.claims)
  BY <1>1 DEF RoundFits, RoundType, ClaimsFit
<1>3. sched' \in [claims : SUBSET Claim, grants : SUBSET Grant, nextToken : Nat] /\ IsFiniteSet(sched'.claims)
  BY <1>1, <1>2 DEF RoundLeaves, RoundType, Table
<1>4. work' \subseteq Work
  <2>1. \A n \in round.dispatched : n \in NodesOf(graph)
    BY <1>2, DispatchableIs DEF RoundType
  <2>2. \A n \in round.dispatched : Sent(n, round.table) \in Work
    BY <1>2, <2>1, SentIs
  <2> QED BY <1>1, <2>2 DEF RoundLeaves, TypeInv
<1>5. fairness' \in [streak : [NodeIds -> Nat], dispatches : [NodeIds -> Nat]]
  <2>1. AdvanceFairness(round.dispatched, round.deferred) \in [streak : [NodeIds -> Nat], dispatches : [NodeIds -> Nat]]
    BY DEF AdvanceFairness, TypeInv
  <2> QED BY <1>1, <2>1 DEF Round, TypeInv
<1>6. passed' \in [NodeIds -> [NodeIds -> Nat]]
  <2> DEFINE p == [n \in NodeIds |-> [m \in NodeIds |->
                    IF n \notin round.deferred THEN 0
                    ELSE IF Overtakes(m, n, round, refused) THEN passed[n][m] + 1 ELSE passed[n][m]]]
  <2>1. passed' = p
    BY <1>1 DEF Round
  <2>2. \A n, m \in NodeIds : passed[n][m] \in Nat
    BY DEF TypeInv
  <2> QED BY <2>1, <2>2
<1>7. graph' = graph /\ now' = now /\ accepted' = accepted
  BY DEF Round
<1> QED BY <1>1, <1>3, <1>4, <1>5, <1>6, <1>7 DEF TypeInv, RoundLeaves, ResourcesAgree

\* Leases and claims after a round.
LEMMA RoundClaims ==
  ASSUME TypeInv, LeaseInv, ClaimInv, NEW refused, Round(refused)
  PROVE  LeaseInv' /\ ClaimInv'
<1>1. PICK round : RoundFits(round, refused) /\ RoundLeaves(round)
  BY RoundIs
<1>2. /\ round \in RoundType /\ LeasesFit(round) /\ ClaimsFit(round) /\ graph' = graph /\ now' = now
      /\ round.table \in Table
  BY <1>1 DEF RoundFits, RoundType, Round
<1>3. /\ sched'.grants = round.table.grants /\ sched'.nextToken = round.table.nextToken
      /\ sched'.claims = round.claims
  BY <1>1 DEF RoundLeaves
<1>4. LeaseInv'
  <2>1. TableFits(round.table)'
    <3>1. TableFits(round.table)
      BY <1>2 DEF LeasesFit
    <3> QED BY <1>2, <3>1 DEF TableFits, HoldersOf, LiveGrants
  <2>2. round.table = [grants |-> sched.grants, nextToken |-> sched.nextToken]'
    BY <1>2, <1>3 DEF Table
  <2> QED BY <2>1, <2>2 DEF LeaseInv
<1>5. \A grants : LiveGrants(grants)' = LiveGrants(grants)
  BY <1>2 DEF LiveGrants
<1>6. \A c, grants : Live(c, grants)' <=> Live(c, grants)
  BY <1>2 DEF Live, LiveGrants
<1>7. \A g \in LiveGrants(round.table.grants) :
        g \in sched.grants => g \in LiveGrants(sched.grants) /\ g.owner \in sched.claims
  BY DEF LiveGrants, ClaimInv, OwnersClaim
<1>8. \A g \in round.table.grants \ sched.grants : \E n \in round.dispatched : g.owner = BindingFor(n)
  BY <1>2 DEF LeasesFit
<1>9. OwnersClaim'
  <2> SUFFICES ASSUME NEW g \in LiveGrants(round.table.grants) PROVE g.owner \in round.claims
    BY <1>2, <1>3 DEF OwnersClaim, LiveGrants
  <2>1. g \in round.table.grants
    BY DEF LiveGrants
  <2> QED BY <1>2, <1>7, <1>8, <2>1 DEF ClaimsFit
<1>10. ASSUME NEW c \in round.claims, Live(c, round.table.grants)
       PROVE  c = BindingFor(c[1])' /\ facts'.states[c[1]] = "leased" /\ c[1] \in NodesOf(graph)
  <2>1. CASE \E n \in round.dispatched : c = BindingFor(n)
    <3>1. PICK n \in round.dispatched : c = BindingFor(n)
      BY <2>1
    <3>2. n \in NodesOf(graph) /\ n \in NodeIds
      BY <1>2, DispatchableIs DEF RoundType
    <3>3. c[1] = n
      BY <3>1, <3>2, BindingIs
    <3>4. facts'.states[n] = "leased" /\ BindingFor(n)' = BindingFor(n)
      BY <1>1, <3>2 DEF RoundLeaves
    <3> QED BY <3>1, <3>2, <3>3, <3>4
  <2>2. CASE ~\E n \in round.dispatched : c = BindingFor(n)
    <3>1. c \in sched.claims
      BY <1>2, <2>2 DEF ClaimsFit
    <3>2. Live(c, sched.grants)
      <4>1. PICK g \in LiveGrants(round.table.grants) : g.owner = c
        BY <1>10 DEF Live
      <4>2. g \in sched.grants
        BY <1>8, <2>2, <4>1 DEF LiveGrants
      <4> QED BY <1>7, <4>1, <4>2 DEF Live
    <3>3. c = BindingFor(c[1]) /\ facts.states[c[1]] = "leased" /\ c[1] \in NodesOf(graph)
      BY <3>1, <3>2 DEF ClaimInv, ClaimsLeased
    <3>4. PICK n \in NodeIds : n = c[1]
      BY <3>3, NodeIs
    <3>5. facts'.states[n] = "leased" /\ BindingFor(n)' = BindingFor(n)
      BY <1>1, <3>3, <3>4, NotedIs DEF RoundLeaves
    <3> QED BY <3>3, <3>4, <3>5
  <2> QED BY <2>1, <2>2
<1>11. ClaimsLeased'
  <2> SUFFICES ASSUME NEW c \in round.claims, Live(c, round.table.grants)
               PROVE  c = BindingFor(c[1])' /\ facts'.states[c[1]] = "leased" /\ c[1] \in NodesOf(graph)'
    BY <1>3, <1>6 DEF ClaimsLeased
  <2>1. NodesOf(graph)' = NodesOf(graph)
    BY <1>2 DEF NodesOf
  <2> QED BY <1>10, <2>1
<1>12. AttemptsBegin'
  BY <1>1 DEF RoundLeaves, AttemptsBegin
<1>13. EngagedFit'
  <2>1. Engaged(sched.claims, sched.grants)' = Engaged(round.claims, round.table.grants)
    BY <1>2, <1>3 DEF Engaged, Live, LiveGrants, AbandonedIn
  <2> QED BY <1>2, <2>1 DEF EngagedFit, ClaimsFit
<1> QED BY <1>4, <1>9, <1>11, <1>12, <1>13 DEF ClaimInv

\* Work after a round: what was sent out before stands, and what is sent out now stands on this graph.
LEMMA RoundWork ==
  ASSUME TypeInv, LeaseInv, ClaimInv, WorkInv, NEW refused, Round(refused)
  PROVE  WorkInv'
<1>1. PICK round : RoundFits(round, refused) /\ RoundLeaves(round)
  BY RoundIs
<1>2. /\ round \in RoundType /\ LeasesFit(round) /\ graph' = graph /\ now' = now /\ round.table \in Table
      /\ TableFits(round.table)
  BY <1>1 DEF RoundFits, RoundType, Round, LeasesFit
<1>3. sched'.grants = round.table.grants /\ sched'.nextToken = round.table.nextToken
  BY <1>1 DEF RoundLeaves
<1>4. /\ sched.nextToken \in Nat /\ round.table.nextToken \in Nat /\ sched.nextToken <= round.table.nextToken
      /\ \A g \in round.table.grants : g.token \in Nat
  BY <1>2 DEF TypeInv, Table, LeasesFit, Grant
<1>5. \A g, grants : Fenced(g, grants)' <=> Fenced(g, grants)
  BY <1>2 DEF Fenced
<1>6. \A grants : LiveGrants(grants)' = LiveGrants(grants)
  BY <1>2 DEF LiveGrants
<1>7. \A w \in work' :
        \/ w \in work /\ \A n \in round.dispatched : w.binding # BindingFor(n)
        \/ \E n \in round.dispatched : w = Sent(n, round.table)
  <2>1. \A n \in round.dispatched : BindingFor(n)[1] = n
    BY <1>2, DispatchableIs, BindingIs DEF RoundType
  <2> QED BY <1>1, <2>1 DEF RoundLeaves
<1>8. \A n \in round.dispatched : n \in Dispatchable /\ n \in NodesOf(graph) /\ n \in NodeIds /\ ~HasClaim(n)
  BY <1>2, DispatchableIs DEF RoundType
<1>9. ASSUME NEW w \in work'
      PROVE  /\ w.spec.id = w.binding[1]
             /\ \A g \in w.leases : g.token < round.table.nextToken /\ Fenced(g, round.table.grants)
             /\ \A g \in LiveGrants(round.table.grants) : g.owner = w.binding => g \in w.leases
  <2>1. CASE w \in work /\ \A n \in round.dispatched : w.binding # BindingFor(n)
    <3>1. /\ w.spec.id = w.binding[1]
          /\ \A g \in w.leases : g.token < sched.nextToken /\ Fenced(g, sched.grants) /\ g.token \in Nat
          /\ \A g \in LiveGrants(sched.grants) : g.owner = w.binding => g \in w.leases
      BY <2>1 DEF WorkInv, WorkLeases, TypeInv, Work, Grant
    <3>2. ASSUME NEW g \in w.leases PROVE g.token < round.table.nextToken /\ Fenced(g, round.table.grants)
      <4>1. \A l \in round.table.grants \ sched.grants : l.token >= sched.nextToken
        BY <1>2 DEF LeasesFit
      <4> QED BY <1>4, <3>1, <4>1 DEF Fenced
    <3>3. ASSUME NEW g \in LiveGrants(round.table.grants), g.owner = w.binding PROVE g \in w.leases
      <4>1. g \in sched.grants
        BY <1>2, <2>1, <3>3 DEF LeasesFit, LiveGrants
      <4> QED BY <3>1, <3>3, <4>1 DEF LiveGrants
    <3> QED BY <3>1, <3>2, <3>3
  <2>2. CASE \E n \in round.dispatched : w = Sent(n, round.table)
    <3>1. PICK n \in round.dispatched : w = Sent(n, round.table)
      BY <2>2
    <3>2. /\ w.binding = BindingFor(n) /\ w.spec = Node(graph, n)
          /\ w.leases = {g \in round.table.grants : g.owner = BindingFor(n) /\ g.token >= sched.nextToken}
      BY <1>2, <1>8, <3>1, SentIs
    <3>3. w.spec.id = n /\ w.binding[1] = n
      BY <1>8, <3>2, NodeIs, BindingIs
    <3>4. ASSUME NEW g \in w.leases PROVE g.token < round.table.nextToken /\ Fenced(g, round.table.grants)
      <4>1. g \in round.table.grants /\ g.token >= sched.nextToken
        BY <3>2
      <4>2. g \notin sched.grants
        <5>1. \A l \in sched.grants : l.token < sched.nextToken /\ l.token \in Nat
          BY DEF LeaseInv, TableFits, TypeInv, Grant
        <5> QED BY <1>4, <4>1, <5>1
      <4> QED BY <1>2, <4>1, <4>2 DEF LeasesFit, TableFits
    <3>5. ASSUME NEW g \in LiveGrants(round.table.grants), g.owner = w.binding PROVE g \in w.leases
      <4>1. g \notin sched.grants
        <5>1. g \in sched.grants => BindingFor(n) \in sched.claims
          BY <3>2, <3>5 DEF ClaimInv, OwnersClaim, LiveGrants
        <5>2. BindingFor(n) \notin sched.claims
          BY <1>8, BindingIs DEF HasClaim
        <5> QED BY <5>1, <5>2
      <4>2. g \in round.table.grants
        BY DEF LiveGrants
      <4>3. g.token >= sched.nextToken
        BY <1>2, <4>1, <4>2 DEF LeasesFit
      <4> QED BY <3>2, <3>5, <4>2, <4>3
    <3> QED BY <3>3, <3>4, <3>5
  <2> QED BY <1>7, <2>1, <2>2
<1>10. WorkLeases'
  BY <1>3, <1>5, <1>6, <1>9 DEF WorkLeases
<1>11. WorkMatchesGraph'
  <2> SUFFICES ASSUME NEW w \in work', InFlight(w)'
               PROVE  /\ w.spec \in ToSet(graph.nodes)
                      /\ \A e \in w.inputs : \E f \in DataInputs(w.binding[1]) :
                           f.id = e.id /\ f.expect = e.expect /\ Bound(f) = Bound(e)
    BY <1>2 DEF WorkMatchesGraph, DataInputs, Bound
  <2>1. CASE \E n \in round.dispatched : w = Sent(n, round.table)
    <3>1. PICK n \in round.dispatched : w = Sent(n, round.table)
      BY <2>1
    <3>2. w.binding = BindingFor(n) /\ w.spec = Node(graph, n) /\ w.inputs = DataInputs(n)
      BY <1>2, <1>8, <3>1, SentIs
    <3>3. w.binding[1] = n /\ w.spec \in ToSet(graph.nodes)
      BY <1>8, <3>2, NodeIs, BindingIs
    <3> QED BY <3>2, <3>3
  <2>2. CASE w \in work /\ \A n \in round.dispatched : w.binding # BindingFor(n)
    <3>1. PICK n \in NodeIds : n = w.binding[1]
      BY <2>2 DEF TypeInv, Work, Claim
    <3>2. w.binding = BindingFor(n) /\ facts'.states[n] \in MutationLockedStates
      BY <1>1, <3>1 DEF InFlight, RoundLeaves
    <3>3. n \notin round.dispatched
      BY <2>2, <3>2
    <3>4. facts.states[n] \in MutationLockedStates
      BY <1>1, <3>2, <3>3, NotedIs DEF RoundLeaves
    <3>5. InFlight(w)
      BY <3>1, <3>2, <3>4 DEF InFlight
    <3> QED BY <2>2, <3>5 DEF WorkInv, WorkMatchesGraph
  <2> QED BY <1>7, <2>1, <2>2
<1> QED BY <1>10, <1>11 DEF WorkInv

\* No lease of a round is one that was honoured before.
LEMMA RoundAccepted ==
  ASSUME TypeInv, LeaseInv, ClaimInv, AcceptedInv, NEW refused, Round(refused)
  PROVE  AcceptedInv'
<1>1. PICK round : RoundFits(round, refused) /\ RoundLeaves(round)
  BY RoundIs
<1>2. /\ LeasesFit(round) /\ accepted' = accepted
      /\ sched'.grants = round.table.grants /\ sched'.nextToken = round.table.nextToken
      /\ sched.nextToken \in Nat /\ round.table.nextToken \in Nat
  BY <1>1 DEF RoundFits, RoundType, Table, Round, RoundLeaves, TypeInv
<1>3. ASSUME NEW i \in DOMAIN accepted
      PROVE  accepted[i].lease \notin round.table.grants /\ accepted[i].lease.token < round.table.nextToken
  <2>1. /\ accepted[i].lease \notin sched.grants /\ accepted[i].lease.token < sched.nextToken
        /\ accepted[i].lease.token \in Nat
    <3>1. accepted \in Seq(Honoured)
      BY DEF TypeInv
    <3>2. accepted[i] \in Honoured
      BY <3>1
    <3> QED BY <3>2 DEF AcceptedInv, Honoured, Grant
  <2>2. \A l \in round.table.grants \ sched.grants : l.token >= sched.nextToken
    BY <1>2 DEF LeasesFit
  <2> QED BY <1>2, <2>1, <2>2 DEF LeasesFit
<1> QED BY <1>2, <1>3 DEF AcceptedInv, AcceptedFromNewest

\* A node that is passed over twice would have stood before the one that passes it.
LEMMA RoundFairness ==
  ASSUME TypeInv, LeaseInv, ClaimInv, FairnessInv, NEW refused, Round(refused)
  PROVE  FairnessInv'
<1>1. PICK round : RoundFits(round, refused) /\ round = DispatchRound(refused)
  BY RoundIs
<1> SUFFICES ASSUME CarriesFairness, NEW n \in NodeIds, NEW m \in NodeIds
             PROVE  /\ passed'[n][m] \in {0, 1}
                    /\ passed'[n][m] = 1 => fairness'.streak[m] < fairness'.streak[n]
  BY DEF FairnessInv
<1>2. passed[n][m] \in {0, 1} /\ (passed[n][m] = 1 => fairness.streak[m] < fairness.streak[n])
  BY DEF FairnessInv
<1>3. fairness.streak[n] \in Nat /\ fairness.streak[m] \in Nat
  BY DEF TypeInv
<1>4. passed'[n][m] = IF n \notin round.deferred THEN 0
                      ELSE IF Overtakes(m, n, round, refused) THEN passed[n][m] + 1 ELSE passed[n][m]
  BY <1>1 DEF Round
<1>5. fairness' = AdvanceFairness(round.dispatched, round.deferred)
  BY <1>1 DEF Round
<1>6. /\ fairness'.streak[n] = IF n \notin Frontier \/ n \in round.dispatched THEN 0
                               ELSE IF n \in round.deferred THEN fairness.streak[n] + 1 ELSE fairness.streak[n]
      /\ fairness'.streak[m] = IF m \notin Frontier \/ m \in round.dispatched THEN 0
                               ELSE IF m \in round.deferred THEN fairness.streak[m] + 1 ELSE fairness.streak[m]
  BY <1>5 DEF AdvanceFairness
<1>7. CASE n \notin round.deferred
  BY <1>4, <1>7
<1>8. CASE n \in round.deferred
  <2>1. n \in Frontier /\ n \notin round.dispatched
    BY <1>1, <1>8, DispatchableIs DEF RoundFits, RoundType, ClaimsFit
  <2>2. fairness'.streak[n] = fairness.streak[n] + 1
    BY <1>6, <1>8, <2>1
  <2>3. CASE Overtakes(m, n, round, refused)
    <3>1. /\ m \in round.dispatched /\ n \in round.deferred \ refused
          /\ Len(Declared(Node(graph, n))) = 1 /\ Contends(m, n)
      BY <2>3 DEF Overtakes, Contends
    <3>2. fairness.streak[n] <= fairness.streak[m]
      BY <1>1, <3>1 DEF RoundFits, OrderFits
    <3>3. passed[n][m] = 0
      BY <1>2, <1>3, <3>2
    <3>4. fairness'.streak[m] = 0
      BY <1>6, <3>1
    <3>5. passed'[n][m] = 1
      BY <1>4, <1>8, <2>3, <3>3
    <3> QED BY <1>3, <2>2, <3>4, <3>5
  <2>4. CASE ~Overtakes(m, n, round, refused)
    <3>1. passed'[n][m] = passed[n][m]
      BY <1>4, <1>8, <2>4
    <3>2. fairness'.streak[m] \in Nat /\ fairness'.streak[m] <= fairness.streak[m] + 1
      BY <1>3, <1>6
    <3> QED BY <1>2, <1>3, <2>2, <3>1, <3>2
  <2> QED BY <2>3, <2>4
<1> QED BY <1>7, <1>8

-----------------------------------------------------------------------------
(* The other steps: leases are only given back, claims only dropped.           *)

Quiet ==
  /\ sched'.grants \subseteq sched.grants /\ sched'.claims \subseteq sched.claims
  /\ sched'.nextToken = sched.nextToken
  /\ now <= now' /\ now' \in Nat
  /\ graph'.policy = graph.policy /\ AbandonedIn(graph) \subseteq AbandonedIn(graph')
  /\ UNCHANGED <<fairness, work, passed>>

\* A step that grants nothing and adds no claim keeps the leases and the agents in bounds.
LEMMA QuietKeeps ==
  ASSUME TypeInv, SafetyInv, Quiet
  PROVE  /\ LeaseInv' /\ EngagedFit' /\ WorkLeases' /\ FairnessInv'
         /\ LiveGrants(sched.grants)' \subseteq LiveGrants(sched.grants)
         /\ \A c : Live(c, sched.grants)' => Live(c, sched.grants)
<1>1. /\ now \in Nat /\ now' \in Nat /\ now <= now' /\ \A g \in sched.grants : g.expiresAt \in Nat
      /\ sched'.grants \subseteq sched.grants
  BY DEF TypeInv, Quiet, Grant
<1>2. LiveGrants(sched.grants)' \subseteq LiveGrants(sched.grants)
  BY <1>1 DEF LiveGrants, Quiet
<1>3. \A c : Live(c, sched.grants)' => Live(c, sched.grants)
  BY <1>2 DEF Live
<1>4. LeaseInv'
  <2> DEFINE t == [grants |-> sched.grants, nextToken |-> sched.nextToken]
  <2>a. PICK u : u = [grants |-> sched'.grants, nextToken |-> sched'.nextToken]
    OBVIOUS
  <2>1. /\ t.grants = sched.grants /\ t.nextToken = sched.nextToken
        /\ u.grants = sched'.grants /\ u.nextToken = sched.nextToken
    BY <2>a DEF Quiet
  <2>2. TableFits(t)
    BY DEF SafetyInv, LeaseInv
  <2> HIDE DEF t
  <2>3. u \in Table
    BY <1>1, <2>1, <2>a DEF Quiet, TypeInv, Table
  <2>4. u = [grants |-> sched.grants, nextToken |-> sched.nextToken]'
    BY <2>a
  <2>5. IsFiniteSet(u.grants)
    BY <1>1, <2>1, <2>2, FS_Subset DEF TableFits
  <2>6. ASSUME NEW r \in Resources
        PROVE  Cardinality(HoldersOf(u.grants, r)') <= graph.policy[r].maxHolders
    <3>1. HoldersOf(u.grants, r)' \subseteq HoldersOf(t.grants, r) /\ HoldersOf(t.grants, r) \subseteq t.grants
      BY <1>1, <2>1 DEF HoldersOf, LiveGrants
    <3>2. IsFiniteSet(HoldersOf(t.grants, r))
      BY <2>2, <3>1, FS_Subset DEF TableFits
    <3>3. IsFiniteSet(HoldersOf(u.grants, r)')
      BY <3>1, <3>2, FS_Subset
    <3>4. /\ Cardinality(HoldersOf(t.grants, r)) \in Nat /\ Cardinality(HoldersOf(u.grants, r)') \in Nat
          /\ Cardinality(HoldersOf(u.grants, r)') <= Cardinality(HoldersOf(t.grants, r))
      BY <3>1, <3>2, <3>3, FS_Subset, FS_CardinalityType
    <3>5. Cardinality(HoldersOf(t.grants, r)) <= graph.policy[r].maxHolders /\ graph.policy[r].maxHolders \in Nat
      BY <2>2, PolicyStays DEF TableFits
    <3> QED BY <3>4, <3>5
  <2>7. TableFits(u)'
    BY <1>1, <2>1, <2>2, <2>3, <2>5, <2>6 DEF TableFits, Quiet
  <2> QED BY <2>4, <2>7 DEF LeaseInv
<1>5. EngagedFit'
  <2>1. Engaged(sched.claims, sched.grants)' \subseteq Engaged(sched.claims, sched.grants)
    BY <1>3 DEF Engaged, Quiet
  <2>2. IsFiniteSet(Engaged(sched.claims, sched.grants))
    <3>1. Engaged(sched.claims, sched.grants) \subseteq sched.claims
      BY DEF Engaged
    <3> QED BY <3>1, FS_Subset DEF TypeInv
  <2>3. IsFiniteSet(Engaged(sched.claims, sched.grants)')
    BY <2>1, <2>2, FS_Subset
  <2>4. /\ Cardinality(Engaged(sched.claims, sched.grants)) \in Nat
        /\ Cardinality(Engaged(sched.claims, sched.grants)') \in Nat
        /\ Cardinality(Engaged(sched.claims, sched.grants)') <= Cardinality(Engaged(sched.claims, sched.grants))
    BY <2>1, <2>2, <2>3, FS_Subset, FS_CardinalityType
  <2>5. MaxConcurrentAgents \in Nat
    BY DEF TypeInv, ValidConstants
  <2> QED BY <2>4, <2>5 DEF SafetyInv, ClaimInv, EngagedFit
<1>6. WorkLeases'
  <2>1. \A g, grants : Fenced(g, sched.grants) => Fenced(g, sched.grants)'
    BY <1>1 DEF Fenced
  <2> QED BY <1>2, <2>1 DEF SafetyInv, WorkInv, WorkLeases, Quiet
<1>7. FairnessInv'
  BY DEF SafetyInv, FairnessInv, Quiet
<1> QED BY <1>2, <1>3, <1>4, <1>5, <1>6, <1>7

\* A step that moves no node with a live claim keeps the claims.
LEMMA ClaimsKept ==
  ASSUME TypeInv, SafetyInv, Quiet, graph' = graph,
         \A c \in sched'.claims : Live(c, sched.grants)' /\ Live(c, sched.grants) /\ c = BindingFor(c[1]) =>
           facts'.states[c[1]] = facts.states[c[1]] /\ BindingFor(c[1])' = BindingFor(c[1])
  PROVE  ClaimsLeased'
<1> SUFFICES ASSUME NEW c \in sched'.claims, Live(c, sched.grants)'
             PROVE  c = BindingFor(c[1])' /\ facts'.states[c[1]] = "leased" /\ c[1] \in NodesOf(graph')
  BY DEF ClaimsLeased, NodesOf
<1>1. c \in sched.claims /\ Live(c, sched.grants)
  BY QuietKeeps DEF Quiet
<1>2. c = BindingFor(c[1]) /\ facts.states[c[1]] = "leased" /\ c[1] \in NodesOf(graph)
  BY <1>1 DEF SafetyInv, ClaimInv, ClaimsLeased
<1> QED BY <1>1, <1>2

\* A step that takes no node in flight keeps the work in flight on its graph.
LEMMA FlightKept ==
  ASSUME TypeInv, SafetyInv, graph' = graph, work' = work,
         \A n \in NodeIds : facts'.states[n] \in MutationLockedStates =>
           facts.states[n] \in MutationLockedStates /\ BindingFor(n)' = BindingFor(n)
  PROVE  WorkMatchesGraph'
<1> SUFFICES ASSUME NEW w \in work, InFlight(w)'
             PROVE  /\ w.spec \in ToSet(graph.nodes)
                    /\ \A e \in w.inputs : \E f \in DataInputs(w.binding[1]) :
                         f.id = e.id /\ f.expect = e.expect /\ Bound(f) = Bound(e)
  BY DEF WorkMatchesGraph, DataInputs, Bound
<1>1. PICK n \in NodeIds : n = w.binding[1]
  BY DEF TypeInv, Work, Claim
<1>2. w.binding = BindingFor(n)' /\ facts'.states[n] \in MutationLockedStates
  BY <1>1 DEF InFlight
<1>3. InFlight(w)
  BY <1>1, <1>2 DEF InFlight
<1> QED BY <1>3 DEF SafetyInv, WorkInv, WorkMatchesGraph

\* As long as no receipt is applied, what was accepted stands.
LEMMA AcceptedKept ==
  ASSUME TypeInv, SafetyInv, Quiet, accepted' = accepted
  PROVE  AcceptedInv'
BY DEF SafetyInv, AcceptedInv, AcceptedFromNewest, Quiet

\* The claims, grants and tokens stay.
LEMMA OwnersKept ==
  ASSUME TypeInv, SafetyInv, Quiet, sched' = sched
  PROVE  OwnersClaim'
BY QuietKeeps DEF SafetyInv, ClaimInv, OwnersClaim

\* A claim with a live lease is the one of the current attempt.
LEMMA LiveClaimIs ==
  ASSUME TypeInv, SafetyInv, NEW c \in sched.claims, Live(c, sched.grants)
  PROVE  /\ c = BindingFor(c[1]) /\ facts.states[c[1]] = "leased" /\ c[1] \in NodesOf(graph) /\ c[1] \in NodeIds
BY NodeIs DEF SafetyInv, ClaimInv, ClaimsLeased

Facts == [states : [NodeIds -> States \cup {Nil}],
          artifacts : [NodeIds -> [node : NodeIds, schema : Schemas, digest : Digests] \cup {Nil}]]

\* Time passes.
LEMMA TickKeeps ==
  ASSUME TypeInv, SafetyInv, Tick
  PROVE  TypeInv' /\ SafetyInv'
<1>1. now' = now + 1 /\ now' \in Nat /\ UNCHANGED <<graph, facts, attempts, sched, fairness, work, accepted, passed>>
  BY DEF Tick, TypeInv
<1>2. Quiet
  BY <1>1 DEF Quiet, TypeInv
<1>3. TypeInv'
  BY <1>1 DEF TypeInv, ResourcesAgree
<1>4. \A n : BindingFor(n)' = BindingFor(n)
  BY <1>1 DEF BindingFor, AttemptOf
<1>5. ClaimsLeased' /\ WorkMatchesGraph' /\ AcceptedInv' /\ OwnersClaim'
  BY <1>1, <1>2, <1>4, ClaimsKept, FlightKept, AcceptedKept, OwnersKept
<1>6. AttemptsBegin'
  BY <1>1 DEF SafetyInv, ClaimInv, AttemptsBegin
<1> QED BY <1>2, <1>3, <1>5, <1>6, QuietKeeps DEF SafetyInv, ClaimInv, WorkInv

\* Claims are retired.
LEMMA ReclaimKeeps ==
  ASSUME TypeInv, SafetyInv, Reclaim
  PROVE  TypeInv' /\ SafetyInv'
<1> DEFINE kept == {c \in sched.claims : Activity(c, sched.grants) = "live"}
<1>1. /\ sched' = [sched EXCEPT !.claims = kept] /\ kept \subseteq sched.claims
      /\ UNCHANGED <<graph, facts, attempts, fairness, now, work, accepted, passed>>
  BY DEF Reclaim
<1>2. /\ sched'.claims = kept /\ sched'.grants = sched.grants /\ sched'.nextToken = sched.nextToken
      /\ sched' \in [claims : SUBSET Claim, grants : SUBSET Grant, nextToken : Nat]
  <2> HIDE DEF kept
  <2> QED BY <1>1 DEF TypeInv
<1>3. Quiet
  BY <1>1, <1>2 DEF Quiet, TypeInv
<1>4. TypeInv'
  <2>1. IsFiniteSet(kept)
    BY <1>1, FS_Subset DEF TypeInv
  <2> HIDE DEF kept
  <2> QED BY <1>1, <1>2, <2>1 DEF TypeInv, ResourcesAgree
<1>5. \A n : BindingFor(n)' = BindingFor(n)
  BY <1>1 DEF BindingFor, AttemptOf
<1>6. ClaimsLeased' /\ WorkMatchesGraph' /\ AcceptedInv'
  BY <1>1, <1>3, <1>5, ClaimsKept, FlightKept, AcceptedKept
<1>7. OwnersClaim'
  <2> SUFFICES ASSUME NEW g \in LiveGrants(sched.grants) PROVE g.owner \in kept
    BY <1>1, <1>2 DEF OwnersClaim, LiveGrants
  <2>1. g.owner \in sched.claims /\ Live(g.owner, sched.grants)
    BY DEF SafetyInv, ClaimInv, OwnersClaim, Live
  <2> QED BY <2>1, LiveIs
<1>8. AttemptsBegin'
  BY <1>1 DEF SafetyInv, ClaimInv, AttemptsBegin
<1> QED BY <1>3, <1>4, <1>6, <1>7, <1>8, QuietKeeps DEF SafetyInv, ClaimInv, WorkInv

\* A new attempt is approved.
LEMMA NewAttemptKeeps ==
  ASSUME TypeInv, SafetyInv, NEW n \in NodeIds, NewAttempt(n)
  PROVE  TypeInv' /\ SafetyInv'
<1> DEFINE states == [facts.states EXCEPT ![n] = "pending"]  artifacts == [facts.artifacts EXCEPT ![n] = Nil]
<1>1. /\ UNCHANGED <<graph, sched, fairness, now, work, accepted, passed>>
      /\ attempts' = [attempts EXCEPT ![n] = AttemptOf(n) + 1]
      /\ facts' = [facts EXCEPT !.states[n] = "pending", !.artifacts[n] = Nil]
  BY DEF NewAttempt
<1>2. /\ facts' \in Facts /\ \A m \in NodeIds : facts'.states[m] = IF m = n THEN "pending" ELSE facts.states[m]
  <2>1. states \in [NodeIds -> States \cup {Nil}]
    BY DEF TypeInv, States
  <2>2. artifacts \in [NodeIds -> [node : NodeIds, schema : Schemas, digest : Digests] \cup {Nil}]
    BY DEF TypeInv
  <2>3. \A m \in NodeIds : states[m] = IF m = n THEN "pending" ELSE facts.states[m]
    BY DEF TypeInv
  <2>4. facts' = [states |-> states, artifacts |-> artifacts]
    BY <1>1 DEF TypeInv
  <2> HIDE DEF states, artifacts
  <2> QED BY <2>1, <2>2, <2>3, <2>4 DEF Facts
<1>3. /\ attempts' \in [NodeIds -> Nat] /\ attempts'[n] # 0
      /\ \A m \in NodeIds \ {n} : attempts'[m] = attempts[m] /\ BindingFor(m)' = BindingFor(m)
  <2>1. PICK a \in Nat : a = AttemptOf(n)
    BY BindingIs
  <2>2. attempts' = [attempts EXCEPT ![n] = a + 1] /\ attempts \in [NodeIds -> Nat]
    BY <1>1, <2>1 DEF TypeInv
  <2>3. attempts' \in [NodeIds -> Nat] /\ attempts'[n] # 0 /\ \A m \in NodeIds \ {n} : attempts'[m] = attempts[m]
    BY <2>1, <2>2
  <2> QED BY <2>3 DEF BindingFor, AttemptOf
<1>4. Quiet
  BY <1>1 DEF Quiet, TypeInv
<1>5. TypeInv'
  BY <1>1, <1>2, <1>3 DEF TypeInv, ResourcesAgree, Facts
<1>6. ASSUME NEW c \in sched.claims, Live(c, sched.grants)
      PROVE  facts'.states[c[1]] = facts.states[c[1]] /\ BindingFor(c[1])' = BindingFor(c[1])
  <2>1. facts.states[c[1]] = "leased" /\ c[1] \in NodeIds
    BY <1>6, LiveClaimIs
  <2>2. c[1] # n
    BY <1>6, <2>1, LiveIs DEF NewAttempt
  <2> QED BY <1>2, <1>3, <2>1, <2>2
<1>7. ClaimsLeased'
  BY <1>1, <1>4, <1>6, ClaimsKept
<1>8. WorkMatchesGraph'
  BY <1>1, <1>2, <1>3, FlightKept DEF MutationLockedStates
<1>9. AcceptedInv' /\ OwnersClaim'
  BY <1>1, <1>4, AcceptedKept, OwnersKept
<1>10. AttemptsBegin'
  BY <1>2, <1>3 DEF SafetyInv, ClaimInv, AttemptsBegin
<1> QED BY <1>4, <1>5, <1>7, <1>8, <1>9, <1>10, QuietKeeps DEF SafetyInv, ClaimInv, WorkInv

\* An outcome is judged.
LEMMA EvaluateKeeps ==
  ASSUME TypeInv, SafetyInv, NEW n \in NodeIds, NEW outcome \in Outcomes, Evaluate(n, outcome)
  PROVE  TypeInv' /\ SafetyInv'
<1>1. PICK judged : judged = DecideOutcome(graph, n, outcome)
  OBVIOUS
<1>2. PICK woken : woken = {m \in {judged.enable} \ {Nil, judged.retry} : facts.states[m] \in {Nil, "waiting"}}
  OBVIOUS
<1> DEFINE states == [m \in NodeIds |-> IF m \in woken \cup ({judged.retry} \ {Nil}) THEN "pending"
                                       ELSE IF m = n THEN judged.state ELSE facts.states[m]]
           artifacts == [m \in NodeIds |-> IF m = judged.retry THEN Nil ELSE facts.artifacts[m]]
<1>3. /\ facts' = [states |-> states, artifacts |-> artifacts]
      /\ attempts' = [m \in NodeIds |-> IF m = judged.retry THEN AttemptOf(m) + 1
                                       ELSE IF m \in woken THEN AttemptOf(m) ELSE attempts[m]]
      /\ UNCHANGED <<graph, sched, fairness, now, work, accepted, passed>>
      /\ facts.states[n] = "verifying"
      /\ judged.retry # Nil => MayRetry(n, judged.retry)
  BY <1>1, <1>2 DEF Evaluate
<1>4. judged.state \in {"succeeded", "failed", "waiting", "unknown"}
  BY <1>1, JudgementIs
<1>5. Nil \notin NodeIds /\ Nil \notin States /\ \A m \in NodeIds : facts.states[m] \in States \cup {Nil}
  BY DEF TypeInv, ValidConstants
<1>6. /\ facts' \in Facts
      /\ \A m \in NodeIds : facts'.states[m] = IF m \in woken \cup ({judged.retry} \ {Nil}) THEN "pending"
                                              ELSE IF m = n THEN judged.state ELSE facts.states[m]
  <2>1. states \in [NodeIds -> States \cup {Nil}]
    BY <1>4, <1>5 DEF States
  <2>2. artifacts \in [NodeIds -> [node : NodeIds, schema : Schemas, digest : Digests] \cup {Nil}]
    BY DEF TypeInv
  <2>3. \A m \in NodeIds : states[m] = IF m \in woken \cup ({judged.retry} \ {Nil}) THEN "pending"
                                      ELSE IF m = n THEN judged.state ELSE facts.states[m]
    OBVIOUS
  <2> HIDE DEF states, artifacts
  <2> QED BY <1>3, <2>1, <2>2, <2>3 DEF Facts
<1>7. /\ attempts' \in [NodeIds -> Nat]
      /\ \A m \in NodeIds : attempts'[m] = IF m = judged.retry THEN AttemptOf(m) + 1
                                          ELSE IF m \in woken THEN AttemptOf(m) ELSE attempts[m]
  <2>1. \A m \in NodeIds : AttemptOf(m) \in Nat \ {0} /\ attempts[m] \in Nat
    BY BindingIs DEF TypeInv
  <2> QED BY <1>3, <2>1
<1>8. \A m \in NodeIds \ {judged.retry} : BindingFor(m)' = BindingFor(m)
  <2> SUFFICES ASSUME NEW m \in NodeIds \ {judged.retry} PROVE AttemptOf(m)' = AttemptOf(m)
    BY DEF BindingFor
  <2>1. attempts'[m] = AttemptOf(m) \/ attempts'[m] = attempts[m]
    BY <1>7
  <2> QED BY <2>1, BindingIs DEF AttemptOf
<1>9. Quiet
  BY <1>3 DEF Quiet, TypeInv
<1>10. TypeInv'
  BY <1>3, <1>6, <1>7 DEF TypeInv, ResourcesAgree, Facts
<1>11. ASSUME NEW m \in NodeIds, facts.states[m] = "leased"
       PROVE  m # judged.retry /\ m \notin woken /\ m # n
  <2>1. m # n /\ m \notin woken
    BY <1>2, <1>3, <1>5, <1>11 DEF States
  <2>2. m # judged.retry
    BY <1>3, <1>5, <1>11, <2>1 DEF MayRetry, MutationLockedStates
  <2> QED BY <2>1, <2>2
<1>12. ClaimsLeased'
  <2>1. \A c \in sched.claims : Live(c, sched.grants) =>
          facts'.states[c[1]] = facts.states[c[1]] /\ BindingFor(c[1])' = BindingFor(c[1])
    BY <1>6, <1>8, <1>11, LiveClaimIs
  <2> QED BY <1>3, <1>9, <2>1, ClaimsKept
<1>13. WorkMatchesGraph'
  <2>1. ASSUME NEW m \in NodeIds, facts'.states[m] \in MutationLockedStates
        PROVE  facts.states[m] \in MutationLockedStates /\ BindingFor(m)' = BindingFor(m)
    <3>1. m \notin woken \cup ({judged.retry} \ {Nil})
      BY <1>6, <2>1 DEF MutationLockedStates
    <3>2. m # judged.retry
      BY <1>5, <3>1
    <3>3. facts.states[m] \in MutationLockedStates
      BY <1>3, <1>6, <2>1, <3>1 DEF MutationLockedStates
    <3> QED BY <1>8, <3>2, <3>3
  <2> QED BY <1>3, <2>1, FlightKept
<1>14. AcceptedInv' /\ OwnersClaim'
  BY <1>3, <1>9, AcceptedKept, OwnersKept
<1>15. AttemptsBegin'
  <2> SUFFICES ASSUME NEW m \in NodeIds, facts'.states[m] # Nil PROVE attempts'[m] # 0
    BY DEF AttemptsBegin
  <2>1. AttemptOf(m) \in Nat \ {0}
    BY BindingIs
  <2>2. CASE m = judged.retry \/ m \in woken
    BY <1>7, <2>1, <2>2
  <2>3. CASE ~(m = judged.retry \/ m \in woken)
    <3>1. facts.states[m] # Nil
      BY <1>3, <1>5, <1>6, <2>3 DEF States
    <3> QED BY <1>7, <2>3, <3>1 DEF SafetyInv, ClaimInv, AttemptsBegin
  <2> QED BY <2>2, <2>3
<1> QED BY <1>9, <1>10, <1>12, <1>13, <1>14, <1>15, QuietKeeps DEF SafetyInv, ClaimInv, WorkInv

\* A cancellation is confirmed.
LEMMA ConfirmCancelKeeps ==
  ASSUME TypeInv, SafetyInv, NEW w \in work, ConfirmCancel(w)
  PROVE  TypeInv' /\ SafetyInv'
<1>1. PICK n \in NodeIds : n = w.binding[1]
  BY DEF TypeInv, Work, Claim
<1>2. PICK b \in Claim : b = w.binding /\ b = BindingFor(n)
  BY <1>1 DEF ConfirmCancel, TypeInv, Work
<1> DEFINE states == [facts.states EXCEPT ![n] = "cancelled"]
           grants == Released(sched.grants, b)
<1>3. /\ facts' = [facts EXCEPT !.states = states] /\ facts.states[n] = "leased"
      /\ sched' = [sched EXCEPT !.grants = grants]
      /\ UNCHANGED <<graph, attempts, fairness, now, work, accepted, passed>>
  BY <1>1, <1>2 DEF ConfirmCancel, TypeInv
<1>4. grants \subseteq sched.grants /\ \A g \in grants : g.owner # b
  BY DEF Released
<1>5. states \in [NodeIds -> States \cup {Nil}]
      /\ \A m \in NodeIds : states[m] = IF m = n THEN "cancelled" ELSE facts.states[m]
  BY DEF TypeInv, States
<1> HIDE DEF states, grants
<1>6. facts' \in Facts /\ facts'.states = states
  BY <1>3, <1>5 DEF TypeInv, Facts
<1>7. /\ sched' \in [claims : SUBSET Claim, grants : SUBSET Grant, nextToken : Nat]
      /\ sched'.claims = sched.claims /\ sched'.grants = grants /\ sched'.nextToken = sched.nextToken
  BY <1>3, <1>4 DEF TypeInv
<1>8. Quiet
  BY <1>3, <1>4, <1>7 DEF Quiet, TypeInv
<1>9. TypeInv'
  BY <1>3, <1>6, <1>7 DEF TypeInv, ResourcesAgree, Facts
<1>10. \A m : BindingFor(m)' = BindingFor(m)
  BY <1>3 DEF BindingFor, AttemptOf
<1>11. ClaimsLeased'
  <2>1. ASSUME NEW c \in sched.claims, Live(c, sched.grants)', Live(c, sched.grants)
        PROVE  facts'.states[c[1]] = facts.states[c[1]]
    <3>1. c = BindingFor(c[1]) /\ c[1] \in NodeIds
      BY <2>1, LiveClaimIs
    <3>2. c # b
      BY <1>4, <1>7, <2>1 DEF Live, LiveGrants
    <3>3. c[1] # n
      BY <1>2, <3>1, <3>2
    <3> QED BY <1>5, <1>6, <3>1, <3>3
  <2> QED BY <1>3, <1>7, <1>8, <1>10, <2>1, ClaimsKept
<1>12. WorkMatchesGraph' /\ AcceptedInv'
  BY <1>3, <1>5, <1>6, <1>8, <1>10, FlightKept, AcceptedKept DEF MutationLockedStates
<1>13. OwnersClaim'
  BY <1>7, <1>8, QuietKeeps DEF SafetyInv, ClaimInv, OwnersClaim
<1>14. AttemptsBegin'
  <2>1. Nil # "leased"
    BY DEF TypeInv, ValidConstants, States
  <2> QED BY <1>3, <1>5, <1>6, <2>1 DEF SafetyInv, ClaimInv, AttemptsBegin
<1> QED BY <1>8, <1>9, <1>11, <1>12, <1>13, <1>14, QuietKeeps DEF SafetyInv, ClaimInv, WorkInv

\* What a receipt finds: the attempt is the current one and leased, and once it is applied no
\* live claim of it is left (applyLeaseReceipt).
LEMMA ReceiptIs ==
  ASSUME TypeInv, SafetyInv, NEW w \in work, NEW digest \in Digests, Receive(w, digest)
  PROVE  /\ w.binding = BindingFor(w.binding[1]) /\ facts.states[w.binding[1]] = "leased"
         /\ sched' \in [claims : SUBSET Claim, grants : SUBSET Grant, nextToken : Nat]
         /\ sched'.claims \subseteq sched.claims /\ sched'.nextToken = sched.nextToken
         /\ sched'.grants \subseteq sched.grants
         /\ ~(w.binding \in sched'.claims /\ Live(w.binding, sched.grants)')
         /\ OwnersClaim'
         /\ \/ accepted' = accepted
            \/ \E lease \in LiveGrants(sched.grants) :
                 /\ lease \notin sched'.grants
                 /\ accepted' = Append(accepted, [lease |-> lease, newest |-> Newest(lease)])
<1>1. now' = now
  BY DEF Receive
<1>2. CASE w.leases = {}
  <2>1. /\ w.binding = BindingFor(w.binding[1]) /\ facts.states[w.binding[1]] = "leased" /\ sched' = sched
        /\ accepted' = accepted
    BY <1>2 DEF Receive
  <2>2. ~Live(w.binding, sched.grants)
    BY <1>2 DEF SafetyInv, WorkInv, WorkLeases, Live
  <2>3. OwnersClaim' /\ ~Live(w.binding, sched.grants)'
    BY <1>1, <2>1, <2>2 DEF SafetyInv, ClaimInv, OwnersClaim, LiveGrants, Live
  <2> QED BY <2>1, <2>3 DEF TypeInv
<1>3. CASE w.leases # {}
  <2>1. PICK lease \in w.leases : /\ ReceiptApplies(lease, w.binding)
                                  /\ sched' = [sched EXCEPT !.claims = @ \ {w.binding},
                                                            !.grants = Released(@, w.binding)]
                                  /\ accepted' = Append(accepted, [lease |-> lease, newest |-> Newest(lease)])
    BY <1>3 DEF Receive
  <2> DEFINE claims == sched.claims \ {w.binding}  grants == Released(sched.grants, w.binding)
  <2>2. claims \subseteq sched.claims /\ grants \subseteq sched.grants /\ \A g \in grants : g.owner # w.binding
    BY DEF Released
  <2>3. sched' = [sched EXCEPT !.claims = claims, !.grants = grants] /\ w.binding \notin claims
    BY <2>1
  <2>4. \A g \in sched.grants \ grants : g.owner = w.binding
    BY DEF Released
  <2>a. \A c \in sched.claims \ claims : c = w.binding
    OBVIOUS
  <2> HIDE DEF claims, grants
  <2>5. /\ sched' \in [claims : SUBSET Claim, grants : SUBSET Grant, nextToken : Nat]
        /\ sched'.claims = claims /\ sched'.grants = grants /\ sched'.nextToken = sched.nextToken
    BY <2>2, <2>3 DEF TypeInv
  <2>6. w.binding \in sched.claims /\ Live(w.binding, sched.grants)
    BY <2>1 DEF ReceiptApplies, Live
  <2>7. w.binding = BindingFor(w.binding[1]) /\ facts.states[w.binding[1]] = "leased"
    BY <2>6, LiveClaimIs
  <2>8. OwnersClaim'
    <3> SUFFICES ASSUME NEW g \in grants, g.expiresAt > now PROVE g.owner \in claims
      BY <1>1, <2>5 DEF OwnersClaim, LiveGrants
    <3>1. g.owner \in sched.claims
      BY <2>2 DEF SafetyInv, ClaimInv, OwnersClaim, LiveGrants
    <3> QED BY <2>2, <2>a, <3>1
  <2>9. lease \in LiveGrants(sched.grants) /\ lease \notin sched'.grants
    BY <2>1, <2>2, <2>5 DEF ReceiptApplies
  <2> QED BY <2>1, <2>2, <2>3, <2>5, <2>7, <2>8, <2>9
<1> QED BY <1>2, <1>3

\* The work a receipt brings is that of the newest writer (Newest).
LEMMA HonouredKeeps ==
  ASSUME TypeInv, SafetyInv, NEW lease \in LiveGrants(sched.grants), lease \notin sched'.grants,
         accepted' = Append(accepted, [lease |-> lease, newest |-> Newest(lease)]),
         sched'.grants \subseteq sched.grants, sched'.nextToken = sched.nextToken
  PROVE  AcceptedInv' /\ accepted' \in Seq(Honoured)
<1>1. lease \in sched.grants /\ lease \in Grant /\ lease.expiresAt > now /\ now \in Nat
  BY DEF TypeInv, LiveGrants
<1>2. Newest(lease)
  <2> SUFFICES ASSUME lease.mode = "exclusive",
                      NEW w \in work, NEW g \in w.leases, g.resource = lease.resource, g.token > lease.token
               PROVE  FALSE
    BY DEF Newest
  <2>1. Fenced(g, sched.grants) /\ g \in Grant
    BY DEF SafetyInv, WorkInv, WorkLeases, TypeInv, Work
  <2>2. lease.expiresAt <= now
    BY <1>1, <2>1 DEF Fenced, Grant
  <2> QED BY <1>1, <2>2 DEF Grant
<1>3. PICK h : h = [lease |-> lease, newest |-> Newest(lease)]
  OBVIOUS
<1>4. h.lease = lease /\ h.newest
  BY <1>2, <1>3
<1>5. h \in Honoured
  <2>1. Newest(lease) \in BOOLEAN
    BY DEF Newest
  <2> QED BY <1>1, <1>3, <2>1 DEF Honoured
<1>6. accepted \in Seq(Honoured)
  BY DEF TypeInv
<1>7. /\ accepted' \in Seq(Honoured) /\ Len(accepted') = Len(accepted) + 1
      /\ accepted'[Len(accepted) + 1] = h /\ \A i \in 1..Len(accepted) : accepted'[i] = accepted[i]
  BY <1>3, <1>5, <1>6
<1>8. \A i \in DOMAIN accepted : /\ accepted[i].lease \notin sched.grants
                                 /\ accepted[i].lease.token < sched.nextToken /\ accepted[i].newest
  BY DEF SafetyInv, AcceptedInv, AcceptedFromNewest
<1>9. \A i \in DOMAIN accepted' : i \in 1..Len(accepted) \/ i = Len(accepted) + 1
  BY <1>6, <1>7
<1>10. lease.token < sched.nextToken
  BY <1>1 DEF SafetyInv, LeaseInv, TableFits
<1>11. DOMAIN accepted = 1..Len(accepted)
  BY <1>6
<1>12. \A i \in DOMAIN accepted' : /\ accepted'[i].lease \notin sched'.grants
                                   /\ accepted'[i].lease.token < sched'.nextToken /\ accepted'[i].newest
  BY <1>4, <1>7, <1>8, <1>9, <1>10, <1>11
<1>13. \A i, j \in DOMAIN accepted' : accepted'[i].lease = accepted'[j].lease => i = j
  <2> SUFFICES ASSUME NEW i \in DOMAIN accepted', NEW j \in DOMAIN accepted', accepted'[i].lease = accepted'[j].lease
               PROVE  i = j
    OBVIOUS
  <2>1. CASE i \in 1..Len(accepted) /\ j \in 1..Len(accepted)
    BY <1>7, <1>11, <2>1 DEF SafetyInv, AcceptedInv, AcceptedFromNewest
  <2>2. CASE i \in 1..Len(accepted) /\ j = Len(accepted) + 1
    BY <1>1, <1>4, <1>7, <1>8, <1>11, <2>2
  <2>3. CASE i = Len(accepted) + 1 /\ j \in 1..Len(accepted)
    BY <1>1, <1>4, <1>7, <1>8, <1>11, <2>3
  <2> QED BY <1>9, <2>1, <2>2, <2>3
<1> QED BY <1>7, <1>12, <1>13 DEF AcceptedInv, AcceptedFromNewest

\* What a node produced is of a schema it declares.
LEMMA ProducedIs ==
  ASSUME TypeInv, NEW n \in NodesOf(graph), NEW digest \in Digests
  PROVE  Produced(n, digest) \in [node : NodeIds, schema : Schemas, digest : Digests] \cup {Nil}
<1>1. PICK node \in NodeSpecs : node = Node(graph, n) /\ n \in NodeIds
  BY NodeIs
<1>2. PICK outputs \in Seq(Schemas) : outputs = node.outputs
  BY DEF TypeInv, ValidConstants
<1>3. Len(outputs) = 1 => Head(outputs) \in Schemas
  OBVIOUS
<1> QED BY <1>1, <1>2, <1>3 DEF Produced

\* A receipt arrives.
LEMMA ReceiveKeeps ==
  ASSUME TypeInv, SafetyInv, NEW w \in work, NEW digest \in Digests, Receive(w, digest)
  PROVE  TypeInv' /\ SafetyInv'
<1>1. PICK n \in NodeIds : n = w.binding[1] /\ n \in NodesOf(graph)
  BY NodeIs DEF Receive
<1>2. PICK product : product = Produced(n, digest)
  OBVIOUS
<1> DEFINE states == [facts.states EXCEPT ![n] = "verifying"]
           artifacts == [facts.artifacts EXCEPT ![n] = product]
<1>3. /\ facts' = [facts EXCEPT !.states[n] = "verifying", !.artifacts[n] = product]
      /\ UNCHANGED <<graph, attempts, fairness, now, work, passed>>
  BY <1>1, <1>2 DEF Receive
<1>4. facts' \in Facts /\ \A m \in NodeIds : facts'.states[m] = IF m = n THEN "verifying" ELSE facts.states[m]
  <2>1. states \in [NodeIds -> States \cup {Nil}]
    BY DEF TypeInv, States
  <2>2. artifacts \in [NodeIds -> [node : NodeIds, schema : Schemas, digest : Digests] \cup {Nil}]
    BY <1>1, <1>2, ProducedIs DEF TypeInv
  <2>3. \A m \in NodeIds : states[m] = IF m = n THEN "verifying" ELSE facts.states[m]
    BY DEF TypeInv
  <2>4. facts' = [states |-> states, artifacts |-> artifacts]
    BY <1>3 DEF TypeInv
  <2> HIDE DEF states, artifacts
  <2> QED BY <2>1, <2>2, <2>3, <2>4 DEF Facts
<1>5. /\ w.binding = BindingFor(n) /\ facts.states[n] = "leased"
      /\ sched' \in [claims : SUBSET Claim, grants : SUBSET Grant, nextToken : Nat]
      /\ sched'.claims \subseteq sched.claims /\ sched'.nextToken = sched.nextToken
      /\ sched'.grants \subseteq sched.grants
      /\ ~(w.binding \in sched'.claims /\ Live(w.binding, sched.grants)')
      /\ OwnersClaim'
  BY <1>1, ReceiptIs
<1>6. AcceptedInv' /\ accepted' \in Seq(Honoured)
  <2>1. CASE accepted' = accepted
    BY <1>5, <2>1 DEF TypeInv, SafetyInv, AcceptedInv, AcceptedFromNewest
  <2>2. CASE accepted' # accepted
    <3>1. PICK lease \in LiveGrants(sched.grants) :
            /\ lease \notin sched'.grants
            /\ accepted' = Append(accepted, [lease |-> lease, newest |-> Newest(lease)])
      BY <2>2, ReceiptIs
    <3> QED BY <1>5, <3>1, HonouredKeeps
  <2> QED BY <2>1, <2>2
<1>7. Quiet
  BY <1>3, <1>5 DEF Quiet, TypeInv
<1>8. TypeInv'
  <2>1. IsFiniteSet(sched'.claims)
    BY <1>5, FS_Subset DEF TypeInv
  <2> QED BY <1>3, <1>4, <1>5, <1>6, <2>1 DEF TypeInv, ResourcesAgree, Facts
<1>9. \A m : BindingFor(m)' = BindingFor(m)
  BY <1>3 DEF BindingFor, AttemptOf
<1>10. ClaimsLeased'
  <2>1. ASSUME NEW c \in sched'.claims, Live(c, sched.grants)', Live(c, sched.grants)
        PROVE  facts'.states[c[1]] = facts.states[c[1]]
    <3>1. c = BindingFor(c[1]) /\ c[1] \in NodeIds
      BY <1>5, <2>1, LiveClaimIs
    <3>2. c # w.binding
      BY <1>5, <2>1
    <3>3. c[1] # n
      BY <1>5, <3>1, <3>2
    <3> QED BY <1>4, <3>1, <3>3
  <2> QED BY <1>3, <1>7, <1>9, <2>1, ClaimsKept
<1>11. WorkMatchesGraph'
  <2>1. \A m \in NodeIds : facts'.states[m] \in MutationLockedStates => facts.states[m] \in MutationLockedStates
    BY <1>4, <1>5 DEF MutationLockedStates
  <2> QED BY <1>3, <1>9, <2>1, FlightKept
<1>12. AttemptsBegin'
  <2>1. Nil # "leased"
    BY DEF TypeInv, ValidConstants, States
  <2> QED BY <1>3, <1>4, <1>5, <2>1 DEF SafetyInv, ClaimInv, AttemptsBegin
<1> QED BY <1>5, <1>6, <1>7, <1>8, <1>10, <1>11, <1>12, QuietKeeps DEF SafetyInv, ClaimInv, WorkInv

-----------------------------------------------------------------------------
(* The step of a patch.                                                        *)

\* A change of a node is one of those named for it.
LEMMA ChangedIs ==
  ASSUME NEW S, NEW node \in S, NEW changes \in Seq(S)
  PROVE  /\ Changed(node, changes) \in S /\ Changed(node, changes).id = node.id
         /\ (\A i \in DOMAIN changes : changes[i].id # node.id) => Changed(node, changes) = node
<1> DEFINE by == {i \in DOMAIN changes : changes[i].id = node.id}  n == Len(changes)
<1>1. n \in Nat /\ DOMAIN changes = 1..n /\ by \subseteq 1..n
  OBVIOUS
<1>2. CASE by = {}
  BY <1>2 DEF Changed
<1>3. CASE by # {}
  <2>1. PICK m \in by : \A i \in by : i <= m
    <3> DEFINE left == {n - i : i \in by}
    <3>1. left \in SUBSET Nat /\ left # {}
      BY <1>1, <1>3
    <3>2. PICK k \in left : \A l \in left : k <= l
      <4> HIDE DEF left
      <4> QED BY <3>1, Least
    <3>3. PICK m \in by : k = n - m
      BY <3>2
    <3>4. \A i \in by : n - m <= n - i
      BY <3>2, <3>3
    <3> QED BY <1>1, <3>3, <3>4
  <2>2. PICK top : top = Max(by)
    OBVIOUS
  <2>3. top \in by
    <3>1. \A i \in by : m >= i
      BY <1>1, <2>1
    <3> HIDE DEF by
    <3> QED BY <2>1, <2>2, <3>1 DEF Max
  <2>4. Changed(node, changes) = changes[top]
    BY <1>3, <2>2 DEF Changed
  <2> QED BY <1>1, <1>3, <2>3, <2>4
<1> QED BY <1>2, <1>3

\* The nodes of the next revision: those kept, changed or not, and those added (buildCandidate).
LEMMA CandidateNodes ==
  ASSUME TypeInv, NEW p \in Patches
  PROVE  /\ KeptNodes(graph, p) \o p.adds \in Seq(NodeSpecs)
         /\ \A i \in DOMAIN graph.nodes : graph.nodes[i].id \notin p.removals =>
              Changed(graph.nodes[i], p.changes) \in ToSet(KeptNodes(graph, p) \o p.adds)
<1> DEFINE each == [i \in DOMAIN graph.nodes |->
                     IF graph.nodes[i].id \in p.removals THEN <<>> ELSE <<Changed(graph.nodes[i], p.changes)>>]
<1>1. graph.nodes \in Seq(NodeSpecs) /\ p.changes \in Seq(NodeSpecs) /\ p.adds \in Seq(NodeSpecs)
  BY DEF TypeInv, Graph, ValidConstants
<1>2. \A i \in DOMAIN graph.nodes : graph.nodes[i] \in NodeSpecs
  BY <1>1
<1>3. \A i \in DOMAIN graph.nodes : Changed(graph.nodes[i], p.changes) \in NodeSpecs
  BY <1>1, <1>2, ChangedIs
<1>4. \A i \in DOMAIN graph.nodes : each[i] \in Seq(NodeSpecs)
  BY <1>3
<1>5. each \in Seq(Seq(NodeSpecs)) /\ Len(each) = Len(graph.nodes) /\ DOMAIN graph.nodes = 1..Len(each)
  <2>1. DOMAIN graph.nodes = 1..Len(graph.nodes) /\ Len(graph.nodes) \in Nat
    BY <1>1
  <2>2. each \in [1..Len(graph.nodes) -> Seq(NodeSpecs)]
    BY <1>4, <2>1
  <2> HIDE DEF each
  <2> QED BY <2>1, <2>2
<1>6. \A i \in DOMAIN graph.nodes : graph.nodes[i].id \notin p.removals =>
        Len(each[i]) = 1 /\ each[i][1] = Changed(graph.nodes[i], p.changes)
  OBVIOUS
<1>7. KeptNodes(graph, p) = FlattenSeq(each)
  BY DEF KeptNodes
<1> HIDE DEF each
<1>8. PICK kept \in Seq(NodeSpecs) :
        /\ kept = KeptNodes(graph, p)
        /\ \A i \in 1..Len(each) : \A k \in 1..Len(each[i]) : \E j \in 1..Len(kept) : kept[j] = each[i][k]
  BY <1>5, <1>7, FlattenHolds
<1>9. kept \o p.adds \in Seq(NodeSpecs) /\ ToSet(kept) \subseteq ToSet(kept \o p.adds)
  <2>1. PICK adds \in Seq(NodeSpecs) : adds = p.adds
    BY <1>1
  <2>2. /\ kept \o adds \in Seq(NodeSpecs) /\ Len(kept \o adds) = Len(kept) + Len(adds)
        /\ \A i \in 1..Len(kept) : (kept \o adds)[i] = kept[i]
    BY <1>8
  <2>3. ASSUME NEW e \in ToSet(kept) PROVE e \in ToSet(kept \o adds)
    <3>1. PICK i \in 1..Len(kept) : kept[i] = e
      BY <1>8, Members
    <3>2. Len(kept) \in Nat /\ Len(adds) \in Nat
      BY <1>8, <2>1
    <3>3. i \in 1..Len(kept \o adds) /\ (kept \o adds)[i] = e
      BY <2>2, <3>1, <3>2
    <3> QED BY <2>2, <3>3, Members
  <2> QED BY <2>1, <2>2, <2>3
<1>10. ASSUME NEW i \in DOMAIN graph.nodes, graph.nodes[i].id \notin p.removals
       PROVE  Changed(graph.nodes[i], p.changes) \in ToSet(kept)
  <2>1. i \in 1..Len(each) /\ 1 \in 1..Len(each[i]) /\ each[i][1] = Changed(graph.nodes[i], p.changes)
    BY <1>5, <1>6, <1>10
  <2>2. PICK j \in 1..Len(kept) : kept[j] = Changed(graph.nodes[i], p.changes)
    BY <1>8, <2>1
  <2> QED BY <1>8, <2>2, Members
<1> QED BY <1>8, <1>9, <1>10

\* The graph a patch proposes: the nodes it keeps, its additions and its edges.
LEMMA CandidateIs ==
  ASSUME TypeInv, NEW p \in Patches
  PROVE  /\ Candidate(graph, p) \in Graph
         /\ Candidate(graph, p).nodes = KeptNodes(graph, p) \o p.adds
         /\ Candidate(graph, p).edges = p.edges /\ Candidate(graph, p).policy = graph.policy
<1>1. PICK nodes \in Seq(NodeSpecs) : nodes = KeptNodes(graph, p) \o p.adds
  BY CandidateNodes
<1>2. PICK revision \in Nat : revision = p.expectedRevision + 1
  <2>1. p.expectedRevision \in Nat
    BY DEF TypeInv, ValidConstants
  <2>2. p.expectedRevision + 1 \in Nat
    BY <2>1
  <2> QED BY <2>2
<1>3. p.edges \in Seq(EdgeSpecs) /\ p.abandoned \in Seq(BranchSpecs) /\ graph \in Graph
  BY DEF TypeInv, ValidConstants
<1>4. PICK c : c = Candidate(graph, p)
  OBVIOUS
<1>5. c = [graph EXCEPT !.revision = revision, !.nodes = nodes, !.edges = p.edges, !.abandoned = p.abandoned]
  BY <1>1, <1>2, <1>4 DEF Candidate
<1>6. c \in Graph /\ c.nodes = nodes /\ c.edges = p.edges /\ c.policy = graph.policy
  BY <1>3, <1>5 DEF Graph
<1> QED BY <1>1, <1>4, <1>6

\* A node in flight is not touched, and what it was given stands (checkLockedRunningNodes).
LEMMA FlightStands ==
  ASSUME TypeInv, NEW p \in Patches, KeepsWorkInFlight(graph, p, Locked(facts.states)),
         NEW n \in NodeIds, facts.states[n] \in MutationLockedStates
  PROVE  /\ n \notin p.removals
         /\ \A node \in ToSet(graph.nodes) : node.id = n => node \in ToSet(KeptNodes(graph, p) \o p.adds)
         /\ \A old \in DataInputs(n) : \E e \in ToSet(p.edges) :
              /\ e.type = "data" /\ e.to = n /\ e.id = old.id
              /\ e.expect = old.expect /\ Bound(e) = Bound(old)
<1>1. n \in Locked(facts.states)
  BY DEF Locked, TypeInv
<1>2. n \notin p.removals /\ n \notin {p.changes[i].id : i \in DOMAIN p.changes}
  BY <1>1 DEF KeepsWorkInFlight
<1>3. ASSUME NEW node \in ToSet(graph.nodes), node.id = n
      PROVE  node \in ToSet(KeptNodes(graph, p) \o p.adds)
  <2>1. graph.nodes \in Seq(NodeSpecs) /\ p.changes \in Seq(NodeSpecs)
    BY DEF TypeInv, Graph, ValidConstants
  <2>2. PICK i \in DOMAIN graph.nodes : graph.nodes[i] = node
    BY <1>3 DEF ToSet
  <2>3. node \in NodeSpecs
    BY <2>1, <2>2
  <2>4. Changed(node, p.changes) = node
    BY <1>2, <1>3, <2>1, <2>3, ChangedIs
  <2> QED BY <1>2, <1>3, <2>2, <2>4, CandidateNodes
<1>4. ASSUME NEW old \in DataInputs(n)
      PROVE  \E e \in ToSet(p.edges) :
               /\ e.type = "data" /\ e.to = n /\ e.id = old.id
               /\ e.expect = old.expect /\ Bound(e) = Bound(old)
  <2>1. old \in OfTypes(graph.edges, {"data"}) /\ old.to = n
    BY DEF DataInputs
  <2>2. PICK e \in SameId(p.edges, old) : e.type = "data" /\ e.to = old.to /\ ~BindingChanged(e, {old})
    BY <1>1, <2>1 DEF KeepsWorkInFlight
  <2>3. e.expect = old.expect /\ Bound(e) = Bound(old)
    BY <2>2 DEF BindingChanged
  <2> QED BY <2>1, <2>2, <2>3 DEF SameId
<1> QED BY <1>2, <1>3, <1>4

\* The next revision is installed (applyGraphPatch).
LEMMA PatchKeeps ==
  ASSUME TypeInv, SafetyInv, NEW p \in Patches, ApplyGraphPatch(p)
  PROVE  TypeInv' /\ SafetyInv'
<1>1. /\ graph' = Candidate(graph, p)
      /\ UNCHANGED <<facts, attempts, sched, fairness, now, work, accepted, passed>>
      /\ KeepsWorkInFlight(graph, p, Locked(facts.states))
      /\ ResourcesAgree(graph')
      /\ AbandonedIn(graph) \subseteq AbandonedIn(graph')
  BY DEF ApplyGraphPatch, PatchApplies, Valid, AbandonmentKept
<1>2. /\ graph' \in Graph /\ graph'.nodes = KeptNodes(graph, p) \o p.adds
      /\ graph'.edges = p.edges /\ graph'.policy = graph.policy
  BY <1>1, CandidateIs
<1>3. Quiet
  BY <1>1, <1>2 DEF Quiet, TypeInv
<1>4. TypeInv'
  BY <1>1, <1>2 DEF TypeInv
<1>5. \A n : BindingFor(n)' = BindingFor(n)
  BY <1>1 DEF BindingFor, AttemptOf
<1>6. ASSUME NEW n \in NodesOf(graph), n \in NodeIds, facts.states[n] \in MutationLockedStates
      PROVE  n \in NodesOf(graph')
  <2>1. PICK node : node = Node(graph, n) /\ node \in ToSet(graph.nodes) /\ node.id = n
    BY NodeIs
  <2>2. node \in ToSet(graph'.nodes)
    BY <1>1, <1>2, <1>6, <2>1, FlightStands
  <2> QED BY <2>1, <2>2 DEF ToSet, NodesOf
<1>7. ClaimsLeased'
  <2> SUFFICES ASSUME NEW c \in sched.claims, Live(c, sched.grants)'
               PROVE  c = BindingFor(c[1])' /\ facts.states[c[1]] = "leased" /\ c[1] \in NodesOf(graph')
    BY <1>1 DEF ClaimsLeased
  <2>1. Live(c, sched.grants)
    BY <1>3, QuietKeeps
  <2>2. c = BindingFor(c[1]) /\ facts.states[c[1]] = "leased" /\ c[1] \in NodesOf(graph) /\ c[1] \in NodeIds
    BY <2>1, LiveClaimIs
  <2> QED BY <1>5, <1>6, <2>2 DEF MutationLockedStates
<1>8. WorkMatchesGraph'
  <2> SUFFICES ASSUME NEW w \in work, InFlight(w)
               PROVE  /\ w.spec \in ToSet(graph'.nodes)
                      /\ \A e \in w.inputs : \E f \in DataInputs(w.binding[1])' :
                           f.id = e.id /\ f.expect = e.expect /\ Bound(f) = Bound(e)
    BY <1>1 DEF WorkMatchesGraph, InFlight, BindingFor, AttemptOf, Bound
  <2>1. PICK n \in NodeIds : n = w.binding[1] /\ facts.states[n] \in MutationLockedStates
    BY DEF TypeInv, Work, Claim, InFlight
  <2>2. /\ w.spec.id = n /\ w.spec \in ToSet(graph.nodes)
        /\ \A e \in w.inputs : \E f \in DataInputs(n) : f.id = e.id /\ f.expect = e.expect /\ Bound(f) = Bound(e)
    BY <2>1 DEF SafetyInv, WorkInv, WorkLeases, WorkMatchesGraph
  <2>3. w.spec \in ToSet(graph'.nodes)
    BY <1>1, <1>2, <2>1, <2>2, FlightStands
  <2>4. ASSUME NEW e \in w.inputs
        PROVE  \E f \in DataInputs(n)' : f.id = e.id /\ f.expect = e.expect /\ Bound(f) = Bound(e)
    <3>1. PICK old \in DataInputs(n) : old.id = e.id /\ old.expect = e.expect /\ Bound(old) = Bound(e)
      BY <2>2
    <3>2. PICK f \in ToSet(p.edges) : /\ f.type = "data" /\ f.to = n /\ f.id = old.id
                                      /\ f.expect = old.expect /\ Bound(f) = Bound(old)
      BY <1>1, <2>1, <3>1, FlightStands
    <3>3. f \in DataInputs(n)'
      BY <1>2, <3>2 DEF DataInputs, OfTypes
    <3> QED BY <3>1, <3>2, <3>3
  <2> QED BY <2>1, <2>3, <2>4
<1>9. AcceptedInv' /\ OwnersClaim'
  BY <1>1, <1>3, AcceptedKept, OwnersKept
<1>10. AttemptsBegin'
  BY <1>1 DEF SafetyInv, ClaimInv, AttemptsBegin
<1> QED BY <1>3, <1>4, <1>7, <1>8, <1>9, <1>10, QuietKeeps DEF SafetyInv, ClaimInv, WorkInv

-----------------------------------------------------------------------------
(* Theorems.                                                                   *)

\* The first state has the inductive invariant.
LEMMA InitSafe ==
  ASSUME ValidConstants, Init
  PROVE  TypeInv /\ SafetyInv
<1>1. TypeInv
  <2>1. graph \in Graph /\ ResourcesAgree(graph)
    BY DEF Init, ValidConstants, Compiles, Valid
  <2>2. /\ facts \in Facts /\ attempts \in [NodeIds -> Nat]
        /\ sched \in [claims : SUBSET Claim, grants : SUBSET Grant, nextToken : Nat]
        /\ fairness \in [streak : [NodeIds -> Nat], dispatches : [NodeIds -> Nat]]
    BY DEF Init, Facts
  <2>3. IsFiniteSet(sched.claims)
    BY FS_EmptySet DEF Init
  <2>4. accepted \in Seq(Honoured) /\ now \in Nat /\ work \subseteq Work /\ passed \in [NodeIds -> [NodeIds -> Nat]]
    BY DEF Init
  <2> QED BY <2>1, <2>2, <2>3, <2>4 DEF TypeInv, Facts
<1>2. sched = [claims |-> {}, grants |-> {}, nextToken |-> 1] /\ work = {} /\ accepted = <<>>
  BY DEF Init
<1>3. LeaseInv
  <2>a. PICK t : t = [grants |-> {}, nextToken |-> 1]
    OBVIOUS
  <2>1. t = [grants |-> sched.grants, nextToken |-> sched.nextToken] /\ t.grants = {} /\ t \in Table
    <3>1. t.grants = {} /\ t.nextToken = 1
      BY <2>a
    <3>2. {} \subseteq Grant /\ 1 \in Nat
      OBVIOUS
    <3> QED BY <1>2, <2>a, <3>1, <3>2 DEF Table
  <2>2. \A r \in Resources : HoldersOf(t.grants, r) = {} /\ graph.policy[r].maxHolders \in Nat
    BY <1>1, <2>1, PolicyStays DEF HoldersOf, LiveGrants
  <2>3. TableFits(t)
    <3>1. IsFiniteSet(t.grants) /\ \A g \in t.grants : FALSE
      BY <2>1, FS_EmptySet
    <3>2. \A r \in Resources : Cardinality(HoldersOf(t.grants, r)) <= graph.policy[r].maxHolders
      BY <2>2, FS_EmptySet
    <3> QED BY <2>1, <3>1, <3>2 DEF TableFits
  <2> QED BY <2>1, <2>3 DEF LeaseInv
<1>4. ClaimInv
  <2>1. Engaged(sched.claims, sched.grants) = {} /\ MaxConcurrentAgents \in Nat
    BY <1>2 DEF Engaged, ValidConstants
  <2>2. EngagedFit
    BY <2>1, FS_EmptySet DEF EngagedFit
  <2>3. AttemptsBegin
    BY DEF Init, AttemptsBegin
  <2> QED BY <1>2, <2>2, <2>3 DEF ClaimInv, OwnersClaim, ClaimsLeased, LiveGrants
<1>5. WorkInv /\ AcceptedInv
  BY <1>2 DEF WorkInv, WorkLeases, WorkMatchesGraph, AcceptedInv, AcceptedFromNewest
<1>6. FairnessInv
  BY DEF Init, FairnessInv
<1> QED BY <1>1, <1>3, <1>4, <1>5, <1>6 DEF SafetyInv

\* Every step keeps the inductive invariant.
LEMMA StepSafe ==
  ASSUME TypeInv, SafetyInv, [Next]_vars
  PROVE  TypeInv' /\ SafetyInv'
<1>1. ASSUME NEW refused \in Refusals, Round(refused) PROVE TypeInv' /\ SafetyInv'
  BY <1>1, RoundTypes, RoundClaims, RoundWork, RoundAccepted, RoundFairness DEF SafetyInv
<1>2. ASSUME NEW w \in work, NEW digest \in Digests, Receive(w, digest) PROVE TypeInv' /\ SafetyInv'
  BY <1>2, ReceiveKeeps
<1>3. ASSUME NEW n \in NodeIds, NEW outcome \in Outcomes, Evaluate(n, outcome) PROVE TypeInv' /\ SafetyInv'
  BY <1>3, EvaluateKeeps
<1>4. CASE Reclaim
  BY <1>4, ReclaimKeeps
<1>5. ASSUME NEW n \in NodeIds, NewAttempt(n) PROVE TypeInv' /\ SafetyInv'
  BY <1>5, NewAttemptKeeps
<1>6. ASSUME NEW w \in work, ConfirmCancel(w) PROVE TypeInv' /\ SafetyInv'
  BY <1>6, ConfirmCancelKeeps
<1>7. ASSUME NEW p \in Patches, ApplyGraphPatch(p) PROVE TypeInv' /\ SafetyInv'
  BY <1>7, PatchKeeps
<1>8. CASE Tick
  BY <1>8, TickKeeps
<1>9. CASE UNCHANGED vars
  <2>1. UNCHANGED <<graph, facts, attempts, sched, fairness, now, work, accepted, passed>>
    BY <1>9 DEF vars
  <2>2. Quiet
    BY <2>1 DEF Quiet, TypeInv
  <2>3. TypeInv'
    BY <2>1 DEF TypeInv, ResourcesAgree
  <2>4. \A n : BindingFor(n)' = BindingFor(n)
    BY <2>1 DEF BindingFor, AttemptOf
  <2>5. ClaimsLeased' /\ WorkMatchesGraph' /\ AcceptedInv' /\ OwnersClaim'
    BY <2>1, <2>2, <2>4, ClaimsKept, FlightKept, AcceptedKept, OwnersKept
  <2>6. AttemptsBegin'
    BY <2>1 DEF SafetyInv, ClaimInv, AttemptsBegin
  <2> QED BY <2>2, <2>3, <2>5, <2>6, QuietKeeps DEF SafetyInv, ClaimInv, WorkInv
<1> QED BY <1>1, <1>2, <1>3, <1>4, <1>5, <1>6, <1>7, <1>8, <1>9 DEF Next

\* The safety of the scheduler, all of it.
LEMMA Safe ==
  ASSUME ValidConstants
  PROVE  Spec => [](TypeInv /\ SafetyInv)
<1>1. Init => TypeInv /\ SafetyInv
  BY InitSafe
<1>2. (TypeInv /\ SafetyInv) /\ [Next]_vars => (TypeInv /\ SafetyInv)'
  BY StepSafe
<1> QED BY <1>1, <1>2, PTL DEF Spec

\* The graph installed at any time is well formed, and so is what is kept of claims, leases,
\* attempts and work (compileGraph, applyGraphPatch, SchedulerState).
THEOREM TypeCorrect ==
  ASSUME ValidConstants
  PROVE  Spec => []TypeInv
BY Safe, PTL

\* The live leases of a resource are within its holders and of its mode, and the attempts that
\* hold one are within the number of concurrent agents (grantLease, preGates).
THEOREM LeasesExclude ==
  ASSUME ValidConstants
  PROVE  Spec => []HoldersExclude
<1>1. TypeInv /\ SafetyInv => HoldersExclude
  <2> SUFFICES ASSUME TypeInv, SafetyInv PROVE HoldersExclude
    OBVIOUS
  <2>1. PICK t : t = [grants |-> sched.grants, nextToken |-> sched.nextToken] /\ TableFits(t) /\ t.grants = sched.grants
    BY DEF SafetyInv, LeaseInv
  <2>2. ASSUME NEW r \in DOMAIN graph.policy
        PROVE  /\ Cardinality(HoldersOf(sched.grants, r)) <= graph.policy[r].maxHolders
               /\ \A g \in HoldersOf(sched.grants, r) : g.mode = graph.policy[r].mode
    BY <2>1, PolicyStays DEF TableFits, HoldersOf, LiveGrants
  <2>3. Cardinality(LiveAttempts(sched.claims, sched.grants)) <= MaxConcurrentAgents
    <3>1. LiveAttempts(sched.claims, sched.grants) \subseteq Engaged(sched.claims, sched.grants)
      BY LiveIs DEF LiveAttempts, Engaged, Frontier
    <3>2. IsFiniteSet(Engaged(sched.claims, sched.grants))
      <4>1. Engaged(sched.claims, sched.grants) \subseteq sched.claims
        BY DEF Engaged
      <4> QED BY <4>1, FS_Subset DEF TypeInv
    <3>3. IsFiniteSet(LiveAttempts(sched.claims, sched.grants))
      BY <3>1, <3>2, FS_Subset
    <3>4. /\ Cardinality(LiveAttempts(sched.claims, sched.grants)) \in Nat
          /\ Cardinality(Engaged(sched.claims, sched.grants)) \in Nat
          /\ Cardinality(LiveAttempts(sched.claims, sched.grants)) <= Cardinality(Engaged(sched.claims, sched.grants))
      BY <3>1, <3>2, <3>3, FS_Subset, FS_CardinalityType
    <3>5. MaxConcurrentAgents \in Nat
      BY DEF TypeInv, ValidConstants
    <3> QED BY <3>4, <3>5 DEF SafetyInv, ClaimInv, EngagedFit
  <2> QED BY <2>2, <2>3 DEF HoldersExclude
<1> QED BY <1>1, Safe, PTL

\* A lease is honoured once and only for its newest writer, and work in flight is that of a
\* node of the graph whose inputs stand, whatever is patched (applyLeaseReceipt, applyGraphPatch).
THEOREM WorkStaysCurrent ==
  ASSUME ValidConstants
  PROVE  Spec => []WorkIsCurrent
<1>1. TypeInv /\ SafetyInv => WorkIsCurrent
  BY DEF SafetyInv, WorkInv, AcceptedInv, WorkIsCurrent
<1> QED BY <1>1, Safe, PTL

\* With the counters carried over, a node that waits for one resource is passed over at most
\* once by each other node (orderFrontier, advanceFairness).
THEOREM PassedOverAtMostOnce ==
  ASSUME ValidConstants, CarriesFairness
  PROVE  Spec => []PassedOverOnce
<1>1. TypeInv /\ SafetyInv => PassedOverOnce
  BY DEF SafetyInv, FairnessInv, PassedOverOnce
<1> QED BY <1>1, Safe, PTL

-----------------------------------------------------------------------------
(* The pool.                                                                   *)

Uniform == \A r \in ledger.reservations : r.micros = ledger.reservePerRequest

FiniteLedger == IsFiniteSet(ledger.reservations) /\ IsFiniteSet(ledger.settlements)

IInv == TypeOK /\ FiniteLedger /\ Uniform /\ ChargedOnce

USE PoolAssumption

-----------------------------------------------------------------------------
(* What the transitions do to a ledger.                                      *)

\* Moving a reservation of request id into a settlement keeps the count of charged
\* requests: exactly one reservation leaves and exactly one new settlement joins.
LEMMA MovedCounts ==
  ASSUME NEW R, NEW S, NEW r \in R, NEW s, s \notin S, IsFiniteSet(R), IsFiniteSet(S)
  PROVE  /\ IsFiniteSet(R \ {r}) /\ IsFiniteSet(S \cup {s})
         /\ Cardinality(R \ {r}) + Cardinality(S \cup {s}) = Cardinality(R) + Cardinality(S)
         /\ Cardinality(R \ {r}) <= Cardinality(R)
<1>1. Cardinality(R) \in Nat /\ Cardinality(S) \in Nat
  BY FS_CardinalityType
<1>2. IsFiniteSet(R \ {r}) /\ Cardinality(R \ {r}) = Cardinality(R) - 1
  BY FS_RemoveElement
<1>3. IsFiniteSet(S \cup {s}) /\ Cardinality(S \cup {s}) = Cardinality(S) + 1
  BY FS_AddElement
<1> QED BY <1>1, <1>2, <1>3

\* The ledger a settlement or a release leaves behind.
LEMMA MovedKeepsLedger ==
  ASSUME IInv, NEW id \in ReservedIds(ledger), NEW m \in Nat, NEW d \in Digest,
         ledger' = Moved(ledger, id, m, d)
  PROVE  ledger' \in Ledger /\ FiniteLedger' /\ Uniform' /\ ChargedOnce'
<1> DEFINE s == [requestId |-> id, micros |-> m, digest |-> d]
<1>1. PICK r \in ledger.reservations : r.requestId = id
  BY DEF ReservedIds
<1>2. ledger \in Ledger /\ id \in RequestIds
  BY <1>1 DEF IInv, TypeOK, Ledger, Reservation
<1>3. {x \in ledger.reservations : x.requestId # id} = ledger.reservations \ {r}
  BY <1>1 DEF IInv, ChargedOnce
<1>4. /\ ledger'.reservations = ledger.reservations \ {r}
      /\ ledger'.settlements = ledger.settlements \cup {s}
      /\ ledger'.requestCount = ledger.requestCount
      /\ ledger'.maxRequests = ledger.maxRequests
      /\ ledger'.maxConcurrent = ledger.maxConcurrent
      /\ ledger'.reservePerRequest = ledger.reservePerRequest
  BY <1>2, <1>3 DEF Moved, Ledger
<1>5. id \notin SettledIds(ledger)
  BY DEF IInv, ChargedOnce
<1>6. s \notin ledger.settlements
  BY <1>5 DEF SettledIds
<1>7. s \in Settlement
  BY <1>2 DEF Settlement
<1>8. ledger' \in Ledger
  BY <1>2, <1>3, <1>7 DEF Moved, Ledger
<1>c. s.requestId = id
  OBVIOUS
<1> HIDE DEF s
<1> DEFINE left == ledger.reservations \ {r}
           joined == ledger.settlements \cup {s}
<1>a. IsFiniteSet(ledger.reservations) /\ IsFiniteSet(ledger.settlements)
  BY DEF IInv, FiniteLedger
<1>b. /\ IsFiniteSet(left) /\ IsFiniteSet(joined)
      /\ Cardinality(left) + Cardinality(joined)
           = Cardinality(ledger.reservations) + Cardinality(ledger.settlements)
      /\ Cardinality(left) <= Cardinality(ledger.reservations)
  BY <1>a, <1>1, <1>6, MovedCounts
<1>9. FiniteLedger'
  BY <1>b, <1>4 DEF FiniteLedger
<1>10. Uniform'
  BY <1>4 DEF IInv, Uniform
<1>11. ChargedOnce'
  <2>1. \A q, t \in ledger'.reservations : q.requestId = t.requestId => q = t
    BY <1>4 DEF IInv, ChargedOnce
  <2>2. \A q, t \in ledger'.settlements : q.requestId = t.requestId => q = t
    BY <1>4, <1>5, <1>c DEF IInv, ChargedOnce, SettledIds
  <2>3. ReservedIds(ledger') \cap SettledIds(ledger') = {}
    <3>1. ReservedIds(ledger') = ReservedIds(ledger) \ {id}
      BY <1>1, <1>4 DEF IInv, ChargedOnce, ReservedIds
    <3>2. SettledIds(ledger') = SettledIds(ledger) \cup {id}
      BY <1>4, <1>c DEF SettledIds
    <3> QED BY <3>1, <3>2 DEF IInv, ChargedOnce
  <2>4. /\ Cardinality(ledger'.reservations) + Cardinality(ledger'.settlements)
             = Cardinality(ledger.reservations) + Cardinality(ledger.settlements)
        /\ Cardinality(ledger'.reservations) <= Cardinality(ledger.reservations)
    BY <1>b, <1>4
  <2>5. ledger'.requestCount = Cardinality(ledger'.reservations)
                                 + Cardinality(ledger'.settlements)
    BY <1>4, <2>4 DEF IInv, ChargedOnce
  <2>6. ledger'.requestCount <= ledger'.maxRequests
    BY <1>4 DEF IInv, ChargedOnce
  <2>7. Cardinality(ledger'.reservations) <= ledger'.maxConcurrent
    <3>1. /\ Cardinality(ledger.reservations) \in Nat
          /\ Cardinality(ledger'.reservations) \in Nat
      BY <1>9, FS_CardinalityType DEF IInv, FiniteLedger
    <3>2. ledger.maxConcurrent \in Nat
      BY <1>2 DEF Ledger
    <3>3. Cardinality(ledger.reservations) <= ledger.maxConcurrent
      BY DEF IInv, ChargedOnce
    <3> QED BY <1>4, <2>4, <3>1, <3>2, <3>3
  <2> QED BY <2>1, <2>2, <2>3, <2>5, <2>6, <2>7 DEF ChargedOnce
<1> QED BY <1>8, <1>9, <1>10, <1>11

\* A reservation adds exactly one charged request.
LEMMA ReserveKeepsLedger ==
  ASSUME IInv, NEW id \in RequestIds, Reserve(id)
  PROVE  ledger' \in Ledger /\ FiniteLedger' /\ Uniform' /\ ChargedOnce'
<1> DEFINE r == [requestId |-> id, micros |-> ledger.reservePerRequest]
<1>1. ledger \in Ledger
  BY DEF IInv, TypeOK
<1>2. ~Charged(ledger, id) /\ HasRoom(ledger) /\ ledger' = AfterReserve(ledger, id)
  BY DEF Reserve
<1>3. ledger' = [ledger EXCEPT !.reservations = @ \cup {r}, !.requestCount = @ + 1]
  BY <1>2 DEF AfterReserve
<1>4. /\ ledger'.reservations = ledger.reservations \cup {r}
      /\ ledger'.settlements = ledger.settlements
      /\ ledger'.requestCount = ledger.requestCount + 1
      /\ ledger'.maxRequests = ledger.maxRequests
      /\ ledger'.maxConcurrent = ledger.maxConcurrent
      /\ ledger'.reservePerRequest = ledger.reservePerRequest
  BY <1>1, <1>3 DEF Ledger
<1>5. id \notin ReservedIds(ledger) /\ id \notin SettledIds(ledger)
  BY <1>2 DEF Charged
<1>6. r \notin ledger.reservations
  BY <1>5 DEF ReservedIds
<1>7. ledger' \in Ledger
  <2>1. r \in Reservation
    BY <1>1 DEF Ledger, Reservation
  <2>2. ledger.reservations \cup {r} \in SUBSET Reservation
    BY <1>1, <2>1 DEF Ledger
  <2>3. ledger.requestCount + 1 \in Nat
    BY <1>1 DEF Ledger
  <2> HIDE DEF r
  <2> QED BY <1>1, <1>3, <2>2, <2>3 DEF Ledger
<1>c. r.requestId = id /\ r.micros = ledger.reservePerRequest
  OBVIOUS
<1> HIDE DEF r
<1>d. IsFiniteSet(ledger.reservations)
  BY DEF IInv, FiniteLedger
<1>8. /\ IsFiniteSet(ledger'.reservations)
      /\ Cardinality(ledger'.reservations) = Cardinality(ledger.reservations) + 1
  <2>1. /\ IsFiniteSet(ledger.reservations \cup {r})
        /\ Cardinality(ledger.reservations \cup {r}) = Cardinality(ledger.reservations) + 1
    BY <1>d, <1>6, FS_AddElement
  <2> QED BY <1>4, <2>1
<1>9. FiniteLedger'
  BY <1>4, <1>8 DEF IInv, FiniteLedger
<1>10. Uniform'
  BY <1>4, <1>c DEF IInv, Uniform
<1>11. ChargedOnce'
  <2>1. \A q, t \in ledger'.reservations : q.requestId = t.requestId => q = t
    BY <1>4, <1>5, <1>c DEF IInv, ChargedOnce, ReservedIds
  <2>2. \A q, t \in ledger'.settlements : q.requestId = t.requestId => q = t
    BY <1>4 DEF IInv, ChargedOnce
  <2>3. ReservedIds(ledger') \cap SettledIds(ledger') = {}
    BY <1>4, <1>5, <1>c DEF IInv, ChargedOnce, ReservedIds, SettledIds
  <2>4. Cardinality(ledger.reservations) \in Nat /\ Cardinality(ledger.settlements) \in Nat
    BY FS_CardinalityType DEF IInv, FiniteLedger
  <2>5. ledger'.requestCount = Cardinality(ledger'.reservations)
                                 + Cardinality(ledger'.settlements)
    BY <1>4, <1>8, <2>4 DEF IInv, ChargedOnce
  <2>6. /\ ledger'.requestCount <= ledger'.maxRequests
        /\ Cardinality(ledger'.reservations) <= ledger'.maxConcurrent
    BY <1>2, <1>4, <1>8 DEF HasRoom
  <2> QED BY <2>1, <2>2, <2>3, <2>5, <2>6 DEF ChargedOnce
<1> QED BY <1>7, <1>9, <1>10, <1>11

-----------------------------------------------------------------------------

LEMMA InitInductive == PoolInit => IInv
<1> SUFFICES ASSUME PoolInit PROVE IInv
  OBVIOUS
<1>1. PICK p \in Policies : ledger = OpenLedger(p)
  BY DEF PoolInit
<1>2. p \in Policy
  BY <1>1
<1>3. /\ ledger \in Ledger
      /\ ledger.reservations = {} /\ ledger.settlements = {} /\ ledger.requestCount = 0
      /\ ledger.maxRequests \in Nat /\ ledger.maxConcurrent \in Nat
  BY <1>1, <1>2 DEF OpenLedger, Policy, Ledger
<1>4. TypeOK
  BY <1>3 DEF PoolInit, TypeOK
<1>5. FiniteLedger /\ Uniform
  BY <1>3, FS_EmptySet DEF FiniteLedger, Uniform
<1>6. ChargedOnce
  BY <1>3, FS_EmptySet DEF ChargedOnce, ReservedIds, SettledIds
<1> QED BY <1>4, <1>5, <1>6 DEF IInv

LEMMA NextInductive == IInv /\ [PoolNext]_poolVars => IInv'
<1> SUFFICES ASSUME IInv, [PoolNext]_poolVars PROVE IInv'
  OBVIOUS
<1>1. CASE UNCHANGED poolVars
  BY <1>1 DEF poolVars, IInv, TypeOK, FiniteLedger, Uniform, ChargedOnce, ReservedIds, SettledIds
<1>2. ASSUME NEW id \in RequestIds, Reserve(id) PROVE IInv'
  <2>1. ledger' \in Ledger /\ FiniteLedger' /\ Uniform' /\ ChargedOnce'
    BY <1>2, ReserveKeepsLedger
  <2>2. TypeOK'
    BY <1>2, <2>1 DEF IInv, TypeOK, Reserve
  <2> QED BY <2>1, <2>2 DEF IInv
<1>3. ASSUME NEW row \in Rows, Settle(row) PROVE IInv'
  <2>1. ledger' \in Ledger /\ FiniteLedger' /\ Uniform' /\ ChargedOnce'
    <3>1. CASE ledger' = ledger
      BY <3>1 DEF IInv, TypeOK, FiniteLedger, Uniform, ChargedOnce, ReservedIds, SettledIds
    <3>2. CASE ledger' # ledger
      <4>1. /\ row.requestId \in ReservedIds(ledger)
            /\ ChargeOf(row) # None
            /\ ledger' = Moved(ledger, row.requestId, ChargeOf(row), <<"usage", row>>)
        BY <1>3, <3>2 DEF Settle, AfterSettle
      <4>2. row \in Usage
        OBVIOUS
      <4>3. ChargeOf(row) \in Nat
        BY <4>1, <4>2 DEF ChargeOf, Usage
      <4>4. <<"usage", row>> \in Digest
        BY <4>2 DEF Digest
      <4> QED BY <4>1, <4>3, <4>4, MovedKeepsLedger
    <3> QED BY <3>1, <3>2
  <2>2. rows' \subseteq Rows /\ proofs' = proofs
    BY <1>3 DEF IInv, TypeOK, Settle
  <2> QED BY <2>1, <2>2 DEF IInv, TypeOK
<1>4. ASSUME NEW id \in RequestIds, NEW unspent \in Micros \cup {None}, Release(id, unspent)
      PROVE IInv'
  <2>1. ledger' \in Ledger /\ FiniteLedger' /\ Uniform' /\ ChargedOnce'
    <3>1. CASE ledger' = ledger
      BY <3>1 DEF IInv, TypeOK, FiniteLedger, Uniform, ChargedOnce, ReservedIds, SettledIds
    <3>2. CASE ledger' # ledger
      <4> DEFINE r == CHOOSE x \in ledger.reservations : x.requestId = id
      <4>1. /\ id \in ReservedIds(ledger) /\ unspent \in Micros
            /\ ledger' = Moved(ledger, id, Spent(r.micros, unspent), <<"release", unspent>>)
        BY <1>4, <3>2 DEF Release, AfterRelease
      <4>2. r \in ledger.reservations
        BY <4>1 DEF ReservedIds
      <4>3. r.micros \in Nat
        BY <4>2 DEF IInv, TypeOK, Ledger, Reservation
      <4> HIDE DEF r
      <4>4. Spent(r.micros, unspent) \in Nat
        <5>1. unspent \in Nat
          BY <4>1 DEF PoolAssumption
        <5> QED BY <4>3, <5>1 DEF Spent
      <4>5. <<"release", unspent>> \in Digest
        BY <4>1 DEF Digest
      <4> QED BY <4>1, <4>4, <4>5, MovedKeepsLedger
    <3> QED BY <3>1, <3>2
  <2>2. /\ rows' = rows
        /\ proofs' \subseteq [requestId : RequestIds, unspent : Micros \cup {None}]
    BY <1>4 DEF IInv, TypeOK, Release
  <2> QED BY <2>1, <2>2 DEF IInv, TypeOK
<1> QED BY <1>1, <1>2, <1>3, <1>4 DEF PoolNext

\* The pool's state always has the shape its policy gave it.
THEOREM PoolTypeCorrect == PoolSpec => []TypeOK
<1>1. IInv => TypeOK
  BY DEF IInv
<1> QED BY InitInductive, NextInductive, <1>1, PTL DEF PoolSpec

\* However callers repeat, race or contradict themselves, a request is charged to the pool
\* once, and the caps on requests and on requests in flight are kept.
THEOREM RequestsAreChargedOnce == PoolSpec => []ChargedOnce
<1>1. IInv => ChargedOnce
  BY DEF IInv
<1> QED BY InitInductive, NextInductive, <1>1, PTL DEF PoolSpec
-----------------------------------------------------------------------------
(* Settled on evidence.                                                      *)

Evidenced(l, rs, ps, s) ==
  \/ \E row \in rs : /\ row.requestId = s.requestId /\ row.complete
                     /\ row.micros = s.micros
  \/ \E p \in ps : /\ p.requestId = s.requestId /\ p.unspent # None
                   /\ s.micros = IF p.unspent >= l.reservePerRequest THEN 0
                                 ELSE l.reservePerRequest - p.unspent

LEMMA EvidenceOf == SettledOnEvidence <=> \A s \in ledger.settlements :
                                            Evidenced(ledger, rows, proofs, s)
  BY DEF SettledOnEvidence, Evidenced

\* Evidence is kept: the rows and proofs a settlement rests on are never forgotten.
LEMMA EvidenceKept ==
  ASSUME NEW s, Evidenced(ledger, rows, proofs, s), rows \subseteq rows',
         proofs \subseteq proofs', ledger'.reservePerRequest = ledger.reservePerRequest
  PROVE  Evidenced(ledger', rows', proofs', s)
  BY DEF Evidenced

LEMMA NextEvidence == IInv /\ SettledOnEvidence /\ [PoolNext]_poolVars => SettledOnEvidence'
<1> SUFFICES ASSUME IInv, SettledOnEvidence, [PoolNext]_poolVars PROVE SettledOnEvidence'
  OBVIOUS
<1>0. ledger \in Ledger
  BY DEF IInv, TypeOK
<1>1. \A s \in ledger.settlements : Evidenced(ledger, rows, proofs, s)
  BY EvidenceOf
<1>2. ASSUME NEW s \in ledger'.settlements PROVE Evidenced(ledger', rows', proofs', s)
  <2>1. CASE UNCHANGED poolVars
    BY <1>1, <2>1 DEF poolVars
  <2>2. ASSUME NEW id \in RequestIds, Reserve(id)
        PROVE Evidenced(ledger', rows', proofs', s)
    <3>1. /\ ledger'.settlements = ledger.settlements /\ rows' = rows /\ proofs' = proofs
          /\ ledger'.reservePerRequest = ledger.reservePerRequest
      BY <1>0, <2>2 DEF Reserve, AfterReserve, Ledger
    <3> QED BY <1>1, <1>2, <3>1, EvidenceKept
  <2>3. ASSUME NEW row \in Rows, Settle(row)
        PROVE Evidenced(ledger', rows', proofs', s)
    <3>1. rows \subseteq rows' /\ proofs' = proofs
      BY <2>3 DEF Settle
    <3>2. CASE ledger' = ledger
      BY <1>1, <1>2, <3>1, <3>2, EvidenceKept
    <3>3. CASE ledger' # ledger
      <4>1. /\ row.requestId \in ReservedIds(ledger) \ SettledIds(ledger)
            /\ ChargeOf(row) # None
            /\ ledger' = Moved(ledger, row.requestId, ChargeOf(row), <<"usage", row>>)
        BY <2>3, <3>3 DEF Settle, AfterSettle
      <4>2. SettleError(ledger, row) # "INVARIANT_VIOLATION"
        BY <4>1 DEF SettleError
      <4>3. row \in rows'
        BY <2>3, <4>2 DEF Settle
      <4>4. row.complete /\ ChargeOf(row) = row.micros
        BY <4>1 DEF ChargeOf
      <4>5. /\ ledger'.reservePerRequest = ledger.reservePerRequest
            /\ s \in ledger.settlements \/ (s.requestId = row.requestId /\ s.micros = row.micros)
        BY <1>0, <1>2, <4>1, <4>4 DEF Moved, Ledger
      <4>6. CASE s \in ledger.settlements
        BY <1>1, <3>1, <4>5, <4>6, EvidenceKept
      <4>7. CASE s.requestId = row.requestId /\ s.micros = row.micros
        BY <4>3, <4>4, <4>7 DEF Evidenced
      <4> QED BY <4>5, <4>6, <4>7
    <3> QED BY <3>2, <3>3
  <2>4. ASSUME NEW id \in RequestIds, NEW unspent \in Micros \cup {None},
               Release(id, unspent)
        PROVE Evidenced(ledger', rows', proofs', s)
    <3>1. rows' = rows /\ proofs \subseteq proofs'
      BY <2>4 DEF Release
    <3>2. CASE ledger' = ledger
      BY <1>1, <1>2, <3>1, <3>2, EvidenceKept
    <3>3. CASE ledger' # ledger
      <4> DEFINE r == CHOOSE x \in ledger.reservations : x.requestId = id
                 p == [requestId |-> id, unspent |-> unspent]
      <4>1. /\ id \in ReservedIds(ledger) \ SettledIds(ledger) /\ unspent # None
            /\ ledger' = Moved(ledger, id, Spent(r.micros, unspent), <<"release", unspent>>)
        BY <2>4, <3>3 DEF Release, AfterRelease
      <4>2. r \in ledger.reservations
        BY <4>1 DEF ReservedIds
      <4>3. r.micros = ledger.reservePerRequest
        BY <4>2 DEF IInv, Uniform
      <4> HIDE DEF r
      <4>4. ReleaseError(ledger, id, unspent) = None
        BY <4>1 DEF ReleaseError
      <4>5. p \in proofs'
        BY <2>4, <4>4 DEF Release
      <4>6. /\ ledger'.reservePerRequest = ledger.reservePerRequest
            /\ \/ s \in ledger.settlements
               \/ s.requestId = id /\ s.micros = Spent(r.micros, unspent)
        BY <1>0, <1>2, <4>1 DEF Moved, Ledger
      <4>7. CASE s \in ledger.settlements
        BY <1>1, <3>1, <4>6, <4>7, EvidenceKept
      <4>8. CASE s.requestId = id /\ s.micros = Spent(r.micros, unspent)
        BY <4>1, <4>3, <4>5, <4>6, <4>8 DEF Evidenced, Spent
      <4> QED BY <4>6, <4>7, <4>8
    <3> QED BY <3>2, <3>3
  <2> QED BY <2>1, <2>2, <2>3, <2>4 DEF PoolNext
<1> QED BY <1>2 DEF SettledOnEvidence, Evidenced

\* No pool settles a request but for a cost somebody reported in full or for the rest of
\* a proven release: spend cannot disappear through missing telemetry or a cancellation.
THEOREM SpendIsEvidenced == PoolSpec => []SettledOnEvidence
<1>1. PoolInit => SettledOnEvidence
  BY DEF PoolInit, OpenLedger, SettledOnEvidence
<1> QED BY InitInductive, NextInductive, NextEvidence, <1>1, PTL DEF PoolSpec

-----------------------------------------------------------------------------
(* Sums over finite sets.                                                    *)

\* What the strict subsets of a finite set pass on to the set holds of all its subsets.
LEMMA SubsetInduction ==
  ASSUME NEW S, IsFiniteSet(S), NEW P,
         \A T \in SUBSET S : (\A U \in SUBSET T : U # T => U \in P) => T \in P
  PROVE  \A T \in SUBSET S : T \in P
<1> DEFINE bad == {T \in SUBSET S : T \notin P}
<1> SUFFICES ASSUME bad # {} PROVE FALSE
  OBVIOUS
<1>1. bad \subseteq FiniteSubsetsOf(S)
  BY FS_Subset DEF FiniteSubsetsOf
<1>2. PICK T \in bad : \A U \in bad : <<U, T>> \notin StrictSubsetOrdering(S)
  <2>1. IsWellFoundedOn(StrictSubsetOrdering(S), FiniteSubsetsOf(S))
    BY FS_StrictSubsetOrderingWellFounded
  <2>2. bad # {}
    OBVIOUS
  <2> HIDE DEF bad
  <2> QED BY <1>1, <2>1, <2>2, WFMin
<1>3. \A U \in SUBSET T : U # T => U \in P
  BY <1>2 DEF StrictSubsetOrdering
<1> QED BY <1>2, <1>3

\* The money of a set of reservations, settlements or rows.
Total(S) == MapThenSumSet(LAMBDA x : x.micros, S)

Some(S) == CHOOSE x \in S : TRUE

\* f sums up every subset of T.
SumsUp(f, T) ==
  f = [s \in SUBSET T |-> IF s = {} THEN 0 ELSE Some(s).micros + f[s \ {Some(s)}]]

Summed(T) == CHOOSE f : SumsUp(f, T)

\* The library's sum is the one recursive function Summed.
LEMMA TotalIs == \A T : Total(T) = Summed(T)[T]
BY DEF Total, Summed, SumsUp, Some, MapThenSumSet, MapThenFoldSet

\* What sums up two sets sums up what is in both alike.
LEMMA SumsAgree ==
  ASSUME NEW T, NEW U \in SUBSET T, IsFiniteSet(U), NEW f, NEW g, SumsUp(f, T), SumsUp(g, U)
  PROVE  \A s \in SUBSET U : f[s] = g[s]
<1> DEFINE P == {s \in SUBSET U : f[s] = g[s]}
<1>1. ASSUME NEW s \in SUBSET U, \A r \in SUBSET s : r # s => r \in P PROVE s \in P
  <2>1. /\ f[s] = IF s = {} THEN 0 ELSE Some(s).micros + f[s \ {Some(s)}]
        /\ g[s] = IF s = {} THEN 0 ELSE Some(s).micros + g[s \ {Some(s)}]
    BY DEF SumsUp
  <2>2. CASE s = {}
    BY <2>1, <2>2
  <2>3. CASE s # {}
    <3>1. Some(s) \in s
      BY <2>3 DEF Some
    <3>2. s \ {Some(s)} \in SUBSET s /\ s \ {Some(s)} # s
      BY <3>1
    <3>3. f[s \ {Some(s)}] = g[s \ {Some(s)}]
      BY <1>1, <3>2
    <3> QED BY <2>1, <2>3, <3>3
  <2> QED BY <2>2, <2>3
<1> HIDE DEF P
<1>2. \A s \in SUBSET U : s \in P
  BY <1>1, SubsetInduction
<1> QED BY <1>2 DEF P

\* Every finite set is summed up.
LEMMA SumsExist ==
  ASSUME NEW S, IsFiniteSet(S)
  PROVE  \A T \in SUBSET S : SumsUp(Summed(T), T)
<1> DEFINE P == {T \in SUBSET S : SumsUp(Summed(T), T)}
<1>1. ASSUME NEW T \in SUBSET S, \A U \in SUBSET T : U # T => U \in P PROVE T \in P
  <2> DEFINE f == [s \in SUBSET T |-> IF s = {} THEN 0
                                      ELSE Some(s).micros + Summed(s \ {Some(s)})[s \ {Some(s)}]]
  <2>1. ASSUME NEW s \in SUBSET T, s # T PROVE f[s] = Summed(s)[s]
    <3>1. SumsUp(Summed(s), s) /\ IsFiniteSet(s)
      BY <1>1, <2>1, FS_Subset
    <3>2. Summed(s)[s] = IF s = {} THEN 0 ELSE Some(s).micros + Summed(s)[s \ {Some(s)}]
      BY <3>1 DEF SumsUp
    <3>3. CASE s = {}
      BY <3>2, <3>3
    <3>4. CASE s # {}
      <4>1. Some(s) \in s
        BY <3>4 DEF Some
      <4>2. PICK r : r = s \ {Some(s)}
        OBVIOUS
      <4>3. r \in SUBSET s /\ r \in SUBSET T /\ r # T /\ r \in SUBSET r
        BY <4>1, <4>2
      <4>4. SumsUp(Summed(r), r) /\ IsFiniteSet(r)
        BY <1>1, <4>3, <3>1, FS_Subset
      <4>5. Summed(s)[r] = Summed(r)[r]
        BY <3>1, <4>3, <4>4, SumsAgree
      <4> QED BY <3>2, <3>4, <4>2, <4>5
    <3> QED BY <3>3, <3>4
  <2>2. ASSUME NEW s \in SUBSET T PROVE f[s] = IF s = {} THEN 0 ELSE Some(s).micros + f[s \ {Some(s)}]
    <3>1. CASE s = {}
      BY <3>1
    <3>2. CASE s # {}
      <4>1. Some(s) \in s
        BY <3>2 DEF Some
      <4>2. s \ {Some(s)} \in SUBSET T /\ s \ {Some(s)} # T
        BY <4>1
      <4>3. f[s \ {Some(s)}] = Summed(s \ {Some(s)})[s \ {Some(s)}]
        BY <2>1, <4>2
      <4>4. f[s] = Some(s).micros + Summed(s \ {Some(s)})[s \ {Some(s)}]
        BY <3>2
      <4> QED BY <3>2, <4>3, <4>4
    <3> QED BY <3>1, <3>2
  <2>3. f = [s \in SUBSET T |-> f[s]]
    OBVIOUS
  <2> HIDE DEF f
  <2>4. SumsUp(f, T)
    BY <2>2, <2>3 DEF SumsUp
  <2> QED BY <2>4 DEF Summed
<1> HIDE DEF P
<1>2. \A T \in SUBSET S : T \in P
  BY <1>1, SubsetInduction
<1> QED BY <1>2 DEF P

\* A sum takes off some element first.
LEMMA TotalUnfolds ==
  ASSUME NEW S, IsFiniteSet(S)
  PROVE  Total(S) = IF S = {} THEN 0 ELSE Some(S).micros + Total(S \ {Some(S)})
<1>1. SumsUp(Summed(S), S)
  BY SumsExist
<1>2. Total(S) = IF S = {} THEN 0 ELSE Some(S).micros + Summed(S)[S \ {Some(S)}]
  BY <1>1, TotalIs DEF SumsUp
<1>3. CASE S # {}
  <2>1. PICK r : r = S \ {Some(S)}
    OBVIOUS
  <2>2. r \in SUBSET S /\ IsFiniteSet(r) /\ SumsUp(Summed(r), r)
    BY <2>1, FS_Subset, SumsExist
  <2>3. Summed(S)[r] = Summed(r)[r]
    BY <1>1, <2>2, SumsAgree
  <2> QED BY <1>2, <1>3, <2>1, <2>3, TotalIs
<1> QED BY <1>2, <1>3

\* Nothing adds up to zero.
LEMMA TotalEmpty == Total({}) = 0
BY TotalUnfolds, FS_EmptySet

\* It does not matter which element.
LEMMA TotalRemoves ==
  ASSUME NEW S, IsFiniteSet(S), \A x \in S : x.micros \in Nat
  PROVE  Total(S) \in Nat /\ \A x \in S : Total(S) = x.micros + Total(S \ {x})
<1> DEFINE P == {T \in SUBSET S : Total(T) \in Nat /\ \A x \in T : Total(T) = x.micros + Total(T \ {x})}
<1>1. ASSUME NEW T \in SUBSET S, \A U \in SUBSET T : U # T => U \in P PROVE T \in P
  <2>1. Total(T) = IF T = {} THEN 0 ELSE Some(T).micros + Total(T \ {Some(T)})
    BY FS_Subset, TotalUnfolds
  <2>2. CASE T = {}
    BY <2>1, <2>2
  <2>3. CASE T # {}
    <3>1. PICK c \in T : c = Some(T)
      BY <2>3 DEF Some
    <3>2. c.micros \in Nat /\ T \ {c} \in P
      BY <1>1
    <3>3. Total(T) = c.micros + Total(T \ {c}) /\ Total(T \ {c}) \in Nat
      BY <2>1, <2>3, <3>1, <3>2
    <3>4. ASSUME NEW x \in T, x # c PROVE Total(T) = x.micros + Total(T \ {x})
      <4>1. x \in T \ {c} /\ c \in T \ {x} /\ T \ {x} \in SUBSET T /\ T \ {x} # T /\ x.micros \in Nat
        BY <3>4
      <4>2. PICK r : r = (T \ {c}) \ {x}
        OBVIOUS
      <4>3. r = (T \ {x}) \ {c} /\ r \in SUBSET T /\ r # T
        BY <4>1, <4>2
      <4>4. T \ {x} \in P /\ r \in P
        BY <1>1, <4>1, <4>3
      <4>5. Total(T \ {c}) = x.micros + Total(r)
        BY <3>2, <4>1, <4>2
      <4>6. Total(T \ {x}) = c.micros + Total(r) /\ Total(r) \in Nat
        BY <4>1, <4>3, <4>4
      <4> HIDE DEF P
      <4> QED BY <3>2, <3>3, <4>1, <4>5, <4>6
    <3>5. Total(T) \in Nat
      <4> HIDE DEF P
      <4> QED BY <3>2, <3>3
    <3>6. \A x \in T : Total(T) = x.micros + Total(T \ {x})
      BY <3>3, <3>4
    <3> QED BY <3>5, <3>6
  <2> QED BY <2>2, <2>3
<1> HIDE DEF P
<1>2. S \in P
  BY <1>1, SubsetInduction
<1> QED BY <1>2 DEF P

\* One element more.
LEMMA TotalAdds ==
  ASSUME NEW S, IsFiniteSet(S), NEW x, x \notin S, x.micros \in Nat, \A y \in S : y.micros \in Nat
  PROVE  Total(S \cup {x}) = Total(S) + x.micros
<1>1. IsFiniteSet(S \cup {x}) /\ x \in S \cup {x} /\ (S \cup {x}) \ {x} = S
  BY FS_AddElement
<1>2. PICK U : U = S \cup {x}
  OBVIOUS
<1>3. IsFiniteSet(U) /\ (\A y \in U : y.micros \in Nat) /\ x \in U /\ U \ {x} = S
  BY <1>1, <1>2
<1>4. Total(U) = x.micros + Total(S)
  BY <1>3, TotalRemoves
<1>5. Total(S) \in Nat
  BY TotalRemoves
<1> QED BY <1>2, <1>4, <1>5

\* Sets whose elements match by request and amount add up to the same.
LEMMA TotalsAgree ==
  ASSUME NEW A, NEW B, IsFiniteSet(A), IsFiniteSet(B),
         \A a \in A : a.micros \in Nat, \A b \in B : b.micros \in Nat,
         \A a \in A : \E b \in B : b.requestId = a.requestId /\ b.micros = a.micros,
         \A b \in B : \E a \in A : b.requestId = a.requestId,
         \A a, c \in A : a.requestId = c.requestId => a = c,
         \A b, c \in B : b.requestId = c.requestId => b = c
  PROVE  Total(A) = Total(B)
<1> DEFINE partners(T) == {b \in B : \E a \in T : a.requestId = b.requestId}
           P == {T \in SUBSET A : Total(T) = Total(partners(T))}
<1>1. ASSUME NEW T \in SUBSET A, \A U \in SUBSET T : U # T => U \in P PROVE T \in P
  <2>1. CASE T = {}
    <3>1. partners(T) = {}
      BY <2>1
    <3> QED BY <2>1, <3>1
  <2>2. CASE T # {}
    <3>1. PICK x \in T : TRUE
      BY <2>2
    <3>2. PICK y \in B : y.requestId = x.requestId /\ y.micros = x.micros
      BY <3>1
    <3>3. PICK U : U = T \ {x}
      OBVIOUS
    <3>4. U \in P /\ U \in SUBSET A /\ U # T
      BY <1>1, <3>1, <3>3
    <3>5. PICK V : V = partners(U)
      OBVIOUS
    <3>6. Total(U) = Total(V)
      BY <3>4, <3>5
    <3>7. y \notin V /\ V \in SUBSET B
      BY <3>1, <3>2, <3>3, <3>5
    <3>8. partners(T) = V \cup {y}
      BY <3>1, <3>2, <3>3, <3>5
    <3> HIDE DEF partners, P
    <3>9. Total(V \cup {y}) = Total(V) + y.micros
      BY <3>2, <3>7, FS_Subset, TotalAdds
    <3>10. IsFiniteSet(T) /\ \A a \in T : a.micros \in Nat
      BY FS_Subset
    <3>11. Total(T) = x.micros + Total(U)
      BY <3>1, <3>3, <3>10, TotalRemoves
    <3>12. IsFiniteSet(V) /\ \A b \in V : b.micros \in Nat
      BY <3>7, FS_Subset
    <3>13. Total(V) \in Nat
      BY <3>12, TotalRemoves
    <3>14. Total(T) = Total(partners(T))
      BY <3>2, <3>6, <3>8, <3>9, <3>11, <3>13
    <3> QED BY <3>14 DEF P
  <2> QED BY <2>1, <2>2
<1>2. partners(A) = B
  OBVIOUS
<1> HIDE DEF partners, P
<1>3. A \in P
  BY <1>1, SubsetInduction
<1> QED BY <1>2, <1>3 DEF P

\* A finite set of integers has a greatest one.
LEMMA Greatest ==
  ASSUME NEW E \in SUBSET Int, IsFiniteSet(E), E # {}
  PROVE  \E m \in E : \A n \in E : n <= m
<1> DEFINE P == {T \in SUBSET E : T # {} => \E m \in T : \A n \in T : n <= m}
<1>1. ASSUME NEW T \in SUBSET E, \A U \in SUBSET T : U # T => U \in P PROVE T \in P
  <2>1. CASE T = {}
    BY <2>1
  <2>2. CASE T # {}
    <3>1. PICK x \in T : TRUE
      BY <2>2
    <3>2. T \ {x} \in P
      BY <1>1, <3>1
    <3>3. CASE T \ {x} = {}
      BY <3>1, <3>3
    <3>4. CASE T \ {x} # {}
      <4>1. PICK m \in T \ {x} : \A n \in T \ {x} : n <= m
        BY <3>2, <3>4
      <4>2. CASE m <= x
        BY <3>1, <4>1, <4>2
      <4>3. CASE x <= m
        BY <3>1, <4>1, <4>3
      <4> QED BY <4>2, <4>3
    <3> QED BY <3>3, <3>4
  <2> QED BY <2>1, <2>2
<1> HIDE DEF P
<1>2. E \in P
  BY <1>1, SubsetInduction
<1> QED BY <1>2 DEF P

-----------------------------------------------------------------------------
(* The overrun.                                                              *)

\* By how much rows exceed what was reserved for them.
Overruns(rs, reserve) ==
  {row.micros - reserve : row \in {r \in rs : r.complete /\ r.micros # None}} \cup {0}

Worst(rs, reserve) ==
  CHOOSE m \in Overruns(rs, reserve) : \A n \in Overruns(rs, reserve) : n <= m

CapKept(l, rs) ==
  l.cap # None =>
    Committed(l) <= l.cap + (l.maxConcurrent - Cardinality(l.reservations)) * Worst(rs, l.reservePerRequest)

\* The worst overrun exists, and no row exceeds it.
LEMMA WorstIs ==
  ASSUME NEW rs \in SUBSET Usage, IsFiniteSet(rs), NEW reserve \in Nat
  PROVE  /\ Worst(rs, reserve) \in Nat
         /\ \A row \in rs : row.complete /\ row.micros # None => row.micros - reserve <= Worst(rs, reserve)
         /\ Worst(rs, reserve) \in Overruns(rs, reserve)
<1> DEFINE measured == {r \in rs : r.complete /\ r.micros # None}
           f == [row \in measured |-> row.micros - reserve]
           T == {row.micros - reserve : row \in measured}
<1>1. \A row \in measured : row.micros \in Nat
  BY DEF Usage
<1>2. IsFiniteSet(measured)
  BY FS_Subset
<1>3. f \in Surjection(measured, T)
  BY DEF Surjection
<1>4. IsFiniteSet(T)
  <2> HIDE DEF measured, f, T
  <2> QED BY <1>2, <1>3, FS_Surjection
<1>5. IsFiniteSet(T \cup {0})
  <2> HIDE DEF T
  <2> QED BY <1>4, FS_AddElement
<1>6. PICK E : E = Overruns(rs, reserve)
  OBVIOUS
<1>7. E = T \cup {0}
  BY <1>6 DEF Overruns
<1>8. E \in SUBSET Int /\ 0 \in E /\ \A row \in measured : row.micros - reserve \in E
  BY <1>1, <1>7
<1>9. IsFiniteSet(E)
  BY <1>5, <1>7
<1> HIDE DEF T, f
<1>10. \E m \in E : \A n \in E : n <= m
  BY <1>8, <1>9, Greatest
<1>11. Worst(rs, reserve) \in E /\ \A n \in E : n <= Worst(rs, reserve)
  BY <1>6, <1>10 DEF Worst
<1> QED BY <1>6, <1>8, <1>11

\* More rows, no smaller an overrun.
LEMMA WorstGrows ==
  ASSUME NEW rs \in SUBSET Usage, NEW qs \in SUBSET Usage, rs \subseteq qs, IsFiniteSet(qs), NEW reserve \in Nat
  PROVE  Worst(rs, reserve) <= Worst(qs, reserve)
<1>1. IsFiniteSet(rs)
  BY FS_Subset
<1>2. PICK w : w = Worst(rs, reserve)
  OBVIOUS
<1>3. w \in Overruns(rs, reserve) /\ w \in Nat
  BY <1>1, <1>2, WorstIs
<1>4. Worst(qs, reserve) \in Nat
      /\ \A row \in qs : row.complete /\ row.micros # None => row.micros - reserve <= Worst(qs, reserve)
  BY WorstIs
<1>5. w = 0 \/ \E row \in rs : row.complete /\ row.micros # None /\ w = row.micros - reserve
  BY <1>3 DEF Overruns
<1> QED BY <1>2, <1>3, <1>4, <1>5

\* The committed amount in terms of the two sums.
LEMMA CommittedIs == \A l : Committed(l) = Total(l.settlements) + Total(l.reservations)
BY DEF Committed, SettledMicros, OutstandingMicros, Total

\* The arithmetic of one request more at the same overrun.
LEMMA Products ==
  ASSUME NEW a \in Nat, NEW b \in Nat, NEW c \in Nat, b <= c
  PROVE  a * b <= a * c /\ a * b \in Nat /\ (a + 1) * c = a * c + c
OBVIOUS

-----------------------------------------------------------------------------
(* Spend is explained.                                                       *)

\* Whatever is measured is settled.
RowsSettled ==
  \A row \in rows : row.complete /\ row.micros # None => row.requestId \in SettledIds(ledger)

SpendInv == IsFiniteSet(rows) /\ RowsSettled /\ CapKept(ledger, rows)

\* What the types say of the amounts.
LEMMA Amounts ==
  ASSUME IInv
  PROVE  /\ IsFiniteSet(ledger.reservations) /\ IsFiniteSet(ledger.settlements)
         /\ \A r \in ledger.reservations : r.micros \in Nat /\ r.micros = ledger.reservePerRequest
         /\ \A s \in ledger.settlements : s.micros \in Nat
         /\ ledger.reservePerRequest \in Nat /\ ledger.maxConcurrent \in Nat
         /\ ledger.cap \in Nat \cup {None}
         /\ Cardinality(ledger.reservations) \in Nat
         /\ Cardinality(ledger.reservations) <= ledger.maxConcurrent
         /\ rows \in SUBSET Usage
<1>1. ledger \in Ledger /\ rows \in SUBSET Usage
  BY DEF IInv, TypeOK
<1>2. Cardinality(ledger.reservations) \in Nat
  BY FS_CardinalityType DEF IInv, FiniteLedger
<1> QED BY <1>1, <1>2 DEF IInv, FiniteLedger, Uniform, ChargedOnce, Ledger, Reservation, Settlement

\* One reservation leaves, what it is settled for joins.
LEMMA MovedTotals ==
  ASSUME IInv, NEW id \in ReservedIds(ledger), NEW m \in Nat, NEW d, ledger' = Moved(ledger, id, m, d)
  PROVE  /\ Committed(ledger') = Committed(ledger) - ledger.reservePerRequest + m
         /\ ledger.reservePerRequest \in Nat /\ Committed(ledger) \in Nat
         /\ Cardinality(ledger'.reservations) = Cardinality(ledger.reservations) - 1
         /\ SettledIds(ledger') = SettledIds(ledger) \cup {id}
         /\ ledger'.cap = ledger.cap /\ ledger'.maxConcurrent = ledger.maxConcurrent
         /\ ledger'.reservePerRequest = ledger.reservePerRequest
<1>1. PICK s : s = [requestId |-> id, micros |-> m, digest |-> d]
  OBVIOUS
<1>2. s.requestId = id /\ s.micros = m
  BY <1>1
<1>3. PICK r \in ledger.reservations : r.requestId = id
  BY DEF ReservedIds
<1>4. ledger \in Ledger
  BY DEF IInv, TypeOK
<1>5. {x \in ledger.reservations : x.requestId # id} = ledger.reservations \ {r}
  BY <1>3 DEF IInv, ChargedOnce
<1>6. PICK R, S : R = ledger.reservations \ {r} /\ S = ledger.settlements \cup {s}
  OBVIOUS
<1>7. /\ ledger'.reservations = R /\ ledger'.settlements = S
      /\ ledger'.cap = ledger.cap /\ ledger'.maxConcurrent = ledger.maxConcurrent
      /\ ledger'.reservePerRequest = ledger.reservePerRequest
  BY <1>1, <1>4, <1>5, <1>6 DEF Moved, Ledger
<1>8. id \notin SettledIds(ledger)
  BY DEF IInv, ChargedOnce
<1>9. s \notin ledger.settlements
  BY <1>2, <1>8 DEF SettledIds
<1>10. Total(S) = Total(ledger.settlements) + m
  BY <1>2, <1>6, <1>9, Amounts, TotalAdds
<1>11. Total(ledger.reservations) = r.micros + Total(R) /\ Total(ledger.reservations) \in Nat
  BY <1>6, Amounts, TotalRemoves
<1>12. IsFiniteSet(R) /\ Cardinality(R) = Cardinality(ledger.reservations) - 1
  BY <1>6, Amounts, FS_RemoveElement
<1>13. Total(R) \in Nat
  BY <1>6, <1>12, Amounts, TotalRemoves
<1>14. Total(ledger.settlements) \in Nat
  BY Amounts, TotalRemoves
<1>15. SettledIds(ledger') = SettledIds(ledger) \cup {id}
  BY <1>2, <1>6, <1>7 DEF SettledIds
<1>16. /\ Committed(ledger') = Total(S) + Total(R)
       /\ Committed(ledger) = Total(ledger.settlements) + Total(ledger.reservations)
  BY <1>7, CommittedIs
<1>17. r.micros = ledger.reservePerRequest /\ ledger.reservePerRequest \in Nat
  BY Amounts
<1> QED BY <1>7, <1>10, <1>11, <1>12, <1>13, <1>14, <1>15, <1>16, <1>17

\* Rows that come without a charge raise the bound at most.
LEMMA BoundedGrows ==
  ASSUME IInv, SpendInv, NEW qs \in SUBSET Usage, rows \subseteq qs, IsFiniteSet(qs)
  PROVE  CapKept(ledger, qs)
<1> SUFFICES ASSUME ledger.cap # None
             PROVE  Committed(ledger) <= ledger.cap + (ledger.maxConcurrent - Cardinality(ledger.reservations))
                                                        * Worst(qs, ledger.reservePerRequest)
  BY DEF CapKept
<1>1. PICK free \in Nat : free = ledger.maxConcurrent - Cardinality(ledger.reservations)
  BY Amounts
<1>2. PICK w \in Nat : w = Worst(rows, ledger.reservePerRequest)
  BY Amounts, WorstIs DEF SpendInv
<1>3. PICK v \in Nat : v = Worst(qs, ledger.reservePerRequest)
  BY Amounts, WorstIs
<1>4. w <= v
  BY <1>2, <1>3, Amounts, WorstGrows
<1>5. free * w <= free * v /\ free * w \in Nat /\ free * v \in Nat
  BY <1>4, Products
<1>6. Committed(ledger) <= ledger.cap + free * w
  BY <1>1, <1>2 DEF SpendInv, CapKept
<1>7. Committed(ledger) \in Nat /\ ledger.cap \in Nat
  <2>1. Total(ledger.settlements) \in Nat /\ Total(ledger.reservations) \in Nat
    BY Amounts, TotalRemoves
  <2> QED BY <2>1, Amounts, CommittedIs
<1>8. Committed(ledger) <= ledger.cap + free * v
  BY <1>5, <1>6, <1>7
<1> QED BY <1>1, <1>3, <1>8

\* A settlement frees a place, and the bound grows by the worst overrun.
LEMMA BoundedMoves ==
  ASSUME IInv, SpendInv, NEW id \in ReservedIds(ledger), NEW m \in Nat, NEW d,
         ledger' = Moved(ledger, id, m, d), rows' \in SUBSET Usage, rows \subseteq rows', IsFiniteSet(rows'),
         m - ledger.reservePerRequest <= Worst(rows', ledger.reservePerRequest)
  PROVE  CapKept(ledger', rows')
<1> SUFFICES ASSUME ledger.cap # None
             PROVE  Committed(ledger') <= ledger.cap + (ledger.maxConcurrent - Cardinality(ledger'.reservations))
                                                         * Worst(rows', ledger.reservePerRequest)
  BY MovedTotals DEF CapKept
<1>1. PICK free \in Nat : free = ledger.maxConcurrent - Cardinality(ledger.reservations)
  BY Amounts
<1>2. PICK v \in Nat : v = Worst(rows', ledger.reservePerRequest)
  BY Amounts, WorstIs
<1>3. Committed(ledger) <= ledger.cap + free * v
  BY <1>1, <1>2, BoundedGrows DEF CapKept
<1>4. (free + 1) * v = free * v + v /\ free * v \in Nat
  BY Products
<1>5. Committed(ledger') <= ledger.cap + (free + 1) * v
  <2>1. ledger.cap \in Nat
    BY Amounts
  <2>2. /\ Committed(ledger') = Committed(ledger) - ledger.reservePerRequest + m
        /\ ledger.reservePerRequest \in Nat /\ Committed(ledger) \in Nat
    BY MovedTotals
  <2>3. m - ledger.reservePerRequest <= v
    BY <1>2
  <2> QED BY <1>3, <1>4, <2>1, <2>2, <2>3
<1>6. ledger.maxConcurrent - Cardinality(ledger'.reservations) = free + 1
  BY <1>1, Amounts, MovedTotals
<1> QED BY <1>2, <1>5, <1>6

\* A reservation is within the cap by itself.
LEMMA ReserveSpends ==
  ASSUME IInv, SpendInv, NEW id \in RequestIds, Reserve(id)
  PROVE  SpendInv'
<1>1. PICK r : r = [requestId |-> id, micros |-> ledger.reservePerRequest]
  OBVIOUS
<1>2. ledger \in Ledger /\ rows' = rows
  BY DEF IInv, TypeOK, Reserve
<1>3. PICK R : R = ledger.reservations \cup {r}
  OBVIOUS
<1>4. /\ ledger'.reservations = R /\ ledger'.settlements = ledger.settlements
      /\ ledger'.cap = ledger.cap /\ ledger'.maxConcurrent = ledger.maxConcurrent
      /\ ledger'.reservePerRequest = ledger.reservePerRequest
  BY <1>1, <1>2, <1>3 DEF Reserve, AfterReserve, Ledger
<1>5. RowsSettled'
  BY <1>2, <1>4 DEF SpendInv, RowsSettled, SettledIds
<1>6. CapKept(ledger', rows')
  <2> SUFFICES ASSUME ledger.cap # None
               PROVE  Committed(ledger') <= ledger.cap + (ledger.maxConcurrent - Cardinality(R))
                                                           * Worst(rows, ledger.reservePerRequest)
    BY <1>2, <1>4 DEF CapKept
  <2>1. r \notin ledger.reservations /\ r.micros = ledger.reservePerRequest
    BY <1>1 DEF Reserve, Charged, ReservedIds
  <2>2. Total(R) = Total(ledger.reservations) + ledger.reservePerRequest
    BY <1>3, <2>1, Amounts, TotalAdds
  <2>3. Committed(ledger) + ledger.reservePerRequest <= ledger.cap
    BY DEF Reserve, HasRoom
  <2>4. Total(ledger.settlements) \in Nat /\ Total(ledger.reservations) \in Nat
    BY Amounts, TotalRemoves
  <2>5. /\ Committed(ledger') = Total(ledger.settlements) + Total(R)
        /\ Committed(ledger) = Total(ledger.settlements) + Total(ledger.reservations)
    BY <1>4, CommittedIs
  <2>6. Committed(ledger') <= ledger.cap /\ Committed(ledger') \in Nat /\ ledger.cap \in Nat
    BY <2>2, <2>3, <2>4, <2>5, Amounts
  <2>7. PICK w \in Nat : w = Worst(rows, ledger.reservePerRequest)
    BY Amounts, WorstIs DEF SpendInv
  <2>8. PICK free \in Nat : free = ledger.maxConcurrent - Cardinality(R)
    <3>1. IsFiniteSet(R) /\ Cardinality(R) = Cardinality(ledger.reservations) + 1
      BY <1>3, <2>1, Amounts, FS_AddElement
    <3>2. Cardinality(ledger.reservations) + 1 <= ledger.maxConcurrent
      BY DEF Reserve, HasRoom
    <3> QED BY <3>1, <3>2, Amounts
  <2>9. free * w \in Nat
    BY <2>7, <2>8, Products
  <2>10. Committed(ledger') <= ledger.cap + free * w
    BY <2>6, <2>9
  <2> QED BY <2>7, <2>8, <2>10
<1> QED BY <1>2, <1>5, <1>6 DEF SpendInv

\* A row is kept before it is judged, and settles its request when it is measured.
LEMMA SettleSpends ==
  ASSUME IInv, SpendInv, NEW row \in Rows, Settle(row)
  PROVE  SpendInv'
<1>1. /\ rows \subseteq rows' /\ rows' \subseteq rows \cup {row} /\ rows' \in SUBSET Usage
      /\ ledger' = AfterSettle(ledger, row) /\ row \in Usage
  BY Amounts DEF Settle
<1>2. IsFiniteSet(rows')
  <2>1. IsFiniteSet(rows \cup {row})
    BY FS_AddElement DEF SpendInv
  <2> QED BY <1>1, <2>1, FS_Subset
<1>3. CASE row.requestId \in ReservedIds(ledger) \ SettledIds(ledger) /\ ChargeOf(row) # None
  <2>1. ledger' = Moved(ledger, row.requestId, ChargeOf(row), <<"usage", row>>)
    BY <1>1, <1>3 DEF AfterSettle
  <2>2. ChargeOf(row) = row.micros /\ row.complete /\ row.micros \in Nat /\ row.micros # None
    BY <1>1, <1>3 DEF ChargeOf, Usage
  <2>3. row \in rows'
    BY <1>3 DEF Settle, SettleError
  <2>4. row.micros - ledger.reservePerRequest <= Worst(rows', ledger.reservePerRequest)
    BY <1>1, <1>2, <2>2, <2>3, Amounts, WorstIs
  <2>5. CapKept(ledger', rows')
    BY <1>1, <1>2, <1>3, <2>1, <2>2, <2>4, BoundedMoves
  <2>6. SettledIds(ledger') = SettledIds(ledger) \cup {row.requestId}
    BY <1>3, <2>1, <2>2, MovedTotals
  <2>7. RowsSettled'
    BY <1>1, <2>6 DEF SpendInv, RowsSettled
  <2> QED BY <1>2, <2>5, <2>7 DEF SpendInv
<1>4. CASE ~(row.requestId \in ReservedIds(ledger) \ SettledIds(ledger) /\ ChargeOf(row) # None)
  <2>1. ledger' = ledger
    BY <1>1, <1>4 DEF AfterSettle
  <2>2. CapKept(ledger', rows')
    BY <1>1, <1>2, <2>1, BoundedGrows
  <2>3. RowsSettled'
    <3>1. CASE row.requestId \in SettledIds(ledger)
      BY <1>1, <2>1, <3>1 DEF SpendInv, RowsSettled
    <3>2. CASE row.requestId \notin SettledIds(ledger) \cup ReservedIds(ledger)
      <4>1. SettleError(ledger, row) = "INVARIANT_VIOLATION"
        BY <3>2 DEF SettleError
      <4>2. rows' = rows
        BY <4>1 DEF Settle
      <4> QED BY <2>1, <4>2 DEF SpendInv, RowsSettled
    <3>3. CASE ChargeOf(row) = None
      BY <1>1, <2>1, <3>3 DEF ChargeOf, SpendInv, RowsSettled
    <3> QED BY <1>4, <3>1, <3>2, <3>3
  <2> QED BY <1>2, <2>2, <2>3 DEF SpendInv
<1> QED BY <1>3, <1>4

\* A release gives back at most what was reserved.
LEMMA ReleaseSpends ==
  ASSUME IInv, SpendInv, NEW id \in RequestIds, NEW unspent \in Micros \cup {None}, Release(id, unspent)
  PROVE  SpendInv'
<1>1. rows' = rows /\ ledger' = AfterRelease(ledger, id, unspent)
  BY DEF Release
<1>2. CASE id \in ReservedIds(ledger) \ SettledIds(ledger) /\ unspent # None
  <2>1. PICK r : r = CHOOSE x \in ledger.reservations : x.requestId = id
    OBVIOUS
  <2>2. r \in ledger.reservations
    BY <1>2, <2>1 DEF ReservedIds
  <2>3. PICK m \in Nat : m = Spent(r.micros, unspent) /\ m <= ledger.reservePerRequest
    <3>1. r.micros = ledger.reservePerRequest /\ r.micros \in Nat /\ unspent \in Nat
      BY <1>2, <2>2, Amounts
    <3> QED BY <3>1 DEF Spent
  <2>4. ledger' = Moved(ledger, id, m, <<"release", unspent>>)
    BY <1>1, <1>2, <2>1, <2>3 DEF AfterRelease
  <2>5. m - ledger.reservePerRequest <= Worst(rows, ledger.reservePerRequest)
    <3>1. Worst(rows, ledger.reservePerRequest) \in Nat /\ ledger.reservePerRequest \in Nat
      BY Amounts, WorstIs DEF SpendInv
    <3> QED BY <2>3, <3>1
  <2>6. CapKept(ledger', rows')
    BY <1>1, <1>2, <2>4, <2>5, Amounts, BoundedMoves DEF SpendInv
  <2>7. SettledIds(ledger') = SettledIds(ledger) \cup {id}
    BY <1>2, <2>4, MovedTotals
  <2>8. RowsSettled'
    BY <1>1, <2>7 DEF SpendInv, RowsSettled
  <2> QED BY <1>1, <2>6, <2>8 DEF SpendInv
<1>3. CASE ~(id \in ReservedIds(ledger) \ SettledIds(ledger) /\ unspent # None)
  <2>1. ledger' = ledger
    BY <1>1, <1>3 DEF AfterRelease
  <2> QED BY <1>1, <2>1 DEF SpendInv, RowsSettled
<1> QED BY <1>2, <1>3

\* Every call keeps the spend bounded and the rows settled.
LEMMA NextSpends == IInv /\ SpendInv /\ [PoolNext]_poolVars => SpendInv'
<1> SUFFICES ASSUME IInv, SpendInv, [PoolNext]_poolVars PROVE SpendInv'
  OBVIOUS
<1>1. CASE UNCHANGED poolVars
  BY <1>1 DEF poolVars, SpendInv, RowsSettled
<1> QED BY <1>1, ReserveSpends, SettleSpends, ReleaseSpends DEF PoolNext

\* Rows complete for everything charged match the settlements one to one.
LEMMA UsageExplains ==
  ASSUME IInv, SettledOnEvidence, SpendInv
  PROVE  CompleteUsageExplainsSpend
<1> DEFINE charged == ReservedIds(ledger) \cup SettledIds(ledger)
<1> SUFFICES ASSUME UsageComplete(rows, charged), proofs = {}
             PROVE  ledger.reservations = {} /\ KnownMicros(rows) = SettledMicros(ledger)
  BY DEF CompleteUsageExplainsSpend
<1>1. \A id \in charged : \E row \in rows : RowsOf(rows, id) = {row} /\ row.complete /\ row.micros # None
  BY DEF UsageComplete
<1>2. \A row \in rows : row.requestId \in charged
  BY DEF UsageComplete
<1>3. \A row, q \in rows : row.requestId = q.requestId => row = q
  <2> SUFFICES ASSUME NEW row \in rows, NEW q \in rows, row.requestId = q.requestId PROVE row = q
    OBVIOUS
  <2>1. row \in RowsOf(rows, row.requestId) /\ q \in RowsOf(rows, row.requestId)
    BY DEF RowsOf
  <2> HIDE DEF charged
  <2> QED BY <1>1, <1>2, <2>1
<1>4. \A row \in rows : row.complete /\ row.micros # None /\ row.micros \in Nat
  <2> SUFFICES ASSUME NEW row \in rows PROVE row.complete /\ row.micros # None /\ row.micros \in Nat
    OBVIOUS
  <2>1. row \in RowsOf(rows, row.requestId)
    BY DEF RowsOf
  <2>2. row.micros \in Micros \cup {None}
    BY Amounts DEF Usage
  <2> HIDE DEF charged
  <2> QED BY <1>1, <1>2, <2>1, <2>2
<1>5. \A row \in rows : \E s \in ledger.settlements : s.requestId = row.requestId
  BY <1>4 DEF SpendInv, RowsSettled, SettledIds
<1>6. \A s \in ledger.settlements : \E row \in rows : row.requestId = s.requestId /\ row.micros = s.micros
  BY DEF SettledOnEvidence
<1>7. ledger.reservations = {}
  <2>1. charged \subseteq SettledIds(ledger)
    <3> SUFFICES ASSUME NEW id \in charged PROVE id \in SettledIds(ledger)
      OBVIOUS
    <3>1. PICK row \in rows : row \in RowsOf(rows, id)
      BY <1>1
    <3> QED BY <1>5, <3>1 DEF RowsOf, SettledIds
  <2>2. ReservedIds(ledger) = {}
    BY <2>1 DEF IInv, ChargedOnce
  <2> QED BY <2>2 DEF ReservedIds
<1>8. Total(ledger.settlements) = Total(rows)
  <2>1. IsFiniteSet(rows) /\ IsFiniteSet(ledger.settlements)
    BY Amounts DEF SpendInv
  <2>2. \A s, t \in ledger.settlements : s.requestId = t.requestId => s = t
    BY DEF IInv, ChargedOnce
  <2>3. \A s \in ledger.settlements : s.micros \in Nat
    BY Amounts
  <2>4. \A row \in rows : \E s \in ledger.settlements : row.requestId = s.requestId
    BY <1>5
  <2>5. \A row \in rows : row.micros \in Nat
    BY <1>4
  <2> HIDE DEF charged
  <2> QED BY <1>3, <1>6, <2>1, <2>2, <2>3, <2>4, <2>5, TotalsAgree
<1>9. {row \in rows : row.micros # None} = rows
  BY <1>4
<1>10. KnownMicros(rows) = Total({row \in rows : row.micros # None}) /\ SettledMicros(ledger) = Total(ledger.settlements)
  BY DEF KnownMicros, SettledMicros, Total
<1> QED BY <1>7, <1>8, <1>9, <1>10

\* The pool overruns its cap by what was in flight at most, each at the worst overrun a row
\* ever reported; and usage that is complete for everything charged adds up to what is settled.
THEOREM SpendStaysExplained == PoolSpec => []SpendIsExplained
<1>1. PoolInit => SettledOnEvidence
  BY DEF PoolInit, OpenLedger, SettledOnEvidence
<1>2. PoolInit => SpendInv
  <2> SUFFICES ASSUME PoolInit PROVE SpendInv
    OBVIOUS
  <2>1. IInv
    BY InitInductive
  <2>2. PICK p \in Policies : ledger = OpenLedger(p)
    BY DEF PoolInit
  <2>3. ledger.reservations = {} /\ ledger.settlements = {} /\ rows = {}
    BY <2>2 DEF OpenLedger, PoolInit
  <2>4. Committed(ledger) = 0 /\ Cardinality(ledger.reservations) = 0
    <3>1. Committed(ledger) = Total(ledger.settlements) + Total(ledger.reservations)
      BY CommittedIs
    <3>2. Total(ledger.settlements) = 0 /\ Total(ledger.reservations) = 0
      BY <2>3, TotalEmpty
    <3> QED BY <2>3, <3>1, <3>2, FS_EmptySet
  <2>5. IsFiniteSet(rows) /\ RowsSettled
    BY <2>3, FS_EmptySet DEF RowsSettled
  <2>6. PICK w \in Nat : w = Worst(rows, ledger.reservePerRequest)
    BY <2>1, <2>5, Amounts, WorstIs
  <2>7. PICK free \in Nat : free = ledger.maxConcurrent
    BY <2>1, Amounts
  <2>8. free * w \in Nat
    BY <2>6, <2>7, Products
  <2>9. CapKept(ledger, rows)
    <3> SUFFICES ASSUME ledger.cap # None
                 PROVE  Committed(ledger) <= ledger.cap + (ledger.maxConcurrent - Cardinality(ledger.reservations))
                                                            * Worst(rows, ledger.reservePerRequest)
      BY DEF CapKept
    <3>1. ledger.cap \in Nat
      BY <2>1, Amounts
    <3>2. ledger.maxConcurrent - Cardinality(ledger.reservations) = free
      BY <2>4, <2>7
    <3>3. 0 <= ledger.cap + free * w
      BY <2>8, <3>1
    <3> QED BY <2>4, <2>6, <3>2, <3>3
  <2> QED BY <2>5, <2>9 DEF SpendInv
<1>3. SpendInv => OverrunBounded
  BY DEF SpendInv, CapKept, Worst, Overruns, OverrunBounded
<1>4. IInv /\ SettledOnEvidence /\ SpendInv => SpendIsExplained
  BY <1>3, UsageExplains DEF SpendIsExplained
<1> QED BY InitInductive, NextInductive, NextEvidence, NextSpends, <1>1, <1>2, <1>4, PTL DEF PoolSpec
=============================================================================
