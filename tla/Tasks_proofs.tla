---------------------------- MODULE Tasks_proofs ----------------------------
(***************************************************************************)
(* Proofs about tasks and leases, for every set of tasks, sessions, leases *)
(* and keys, every plan and every duration.                                *)
(***************************************************************************)
EXTENDS Tasks, FiniteSetTheorems, WellFoundedInduction, TLAPS

-----------------------------------------------------------------------------
(* Of a set of natural numbers that is not empty one is the least: the form *)
(* in which the proofs below use induction.                                *)
LEMMA LeastNumber ==
    ASSUME NEW S \in SUBSET Nat, S # {}
    PROVE  \E m \in S : \A n \in S : m <= n
<1> DEFINE R == {p \in Nat \X Nat : p[1] < p[2]}
<1>1. IsWellFoundedOn(R, Nat)
    BY NatLessThanWellFounded DEF OpToRel
<1>2. PICK m \in S : \A n \in S : ~ (<<n, m>> \in R)
    <2> HIDE DEF R
    <2> QED BY <1>1, WFMin
<1>3. \A n \in S : ~ (n < m)
    BY <1>2
<1> QED BY <1>3

LEMMA Induction ==
    ASSUME NEW S \in SUBSET Nat, 0 \in S, \A n \in S : n + 1 \in S
    PROVE  S = Nat
<1> SUFFICES ASSUME Nat \ S # {} PROVE FALSE
    OBVIOUS
<1>1. PICK m \in Nat \ S : \A n \in Nat \ S : m <= n
    BY LeastNumber
<1>2. m - 1 \in S
    BY <1>1
<1> QED BY <1>1, <1>2

-----------------------------------------------------------------------------
(* The search of DependsOn: its function is what its recursion says.       *)
LEMMA VisitedUnfolds ==
    ASSUME NEW p, NEW t, Cardinality(Ids(p)) \in Nat
    PROVE  Visited(p, t) =
             [n \in 0..Cardinality(Ids(p)) |->
                IF n = 0 THEN Dependencies(p, t)
                ELSE Visited(p, t)[n - 1]
                     \union UNION {Dependencies(p, u) : u \in Visited(p, t)[n - 1]}]
<1> DEFINE D == Dependencies(p, t)
           More(V) == V \union UNION {Dependencies(p, u) : u \in V}
           Solves(f, m) == f = [n \in 0..m |-> IF n = 0 THEN D ELSE More(f[n - 1])]
           S == {m \in Nat : \E f : Solves(f, m)}
<1> HIDE DEF D, More
<1>1. 0 \in S
    <2>1. Solves([n \in 0..0 |-> D], 0)
        OBVIOUS
    <2> QED BY <2>1
<1>2. ASSUME NEW m \in S PROVE m + 1 \in S
    <2>1. PICK f : Solves(f, m)
        OBVIOUS
    <2> DEFINE g == [n \in 0..(m + 1) |-> IF n <= m THEN f[n] ELSE More(f[m])]
    <2>2. \A n \in 0..(m + 1) : g[n] = IF n = 0 THEN D ELSE More(g[n - 1])
        BY <2>1
    <2>3. Solves(g, m + 1)
        BY <2>2
    <2>4. \E h : Solves(h, m + 1)
        <3> HIDE DEF g
        <3> QED BY <2>3
    <2> QED BY <2>4
<1>3. Cardinality(Ids(p)) \in S
    BY <1>1, <1>2, Induction
<1>4. \E f : Solves(f, Cardinality(Ids(p)))
    BY <1>3
<1> QED BY <1>4 DEF Visited, D, More

LEMMA VisitedStep ==
    ASSUME NEW p, NEW t, Cardinality(Ids(p)) \in Nat
    PROVE  /\ Visited(p, t)[0] = Dependencies(p, t)
           /\ \A n \in Nat : n + 1 <= Cardinality(Ids(p)) =>
                Visited(p, t)[n + 1] =
                  Visited(p, t)[n] \union UNION {Dependencies(p, u) : u \in Visited(p, t)[n]}
<1> DEFINE k == Cardinality(Ids(p))
           V == Visited(p, t)
           More(W) == W \union UNION {Dependencies(p, u) : u \in W}
<1>1. V = [n \in 0..k |-> IF n = 0 THEN Dependencies(p, t) ELSE More(V[n - 1])]
    BY VisitedUnfolds
<1> HIDE DEF V, k, More
<1>2. /\ V[0] = Dependencies(p, t)
      /\ \A n \in Nat : n + 1 <= k => V[n + 1] = More(V[n])
    BY <1>1 DEF k
<1> QED BY <1>2 DEF V, k, More

LEMMA VisitedGrows ==
    ASSUME NEW p, NEW t, Cardinality(Ids(p)) \in Nat,
           NEW n \in 0..Cardinality(Ids(p))
    PROVE  Visited(p, t)[n] \subseteq Visited(p, t)[Cardinality(Ids(p))]
<1> DEFINE k == Cardinality(Ids(p))
           V == Visited(p, t)
           S == {d \in Nat : n + d <= k => V[n] \subseteq V[n + d]}
<1>1. \A m \in Nat : m + 1 <= k => V[m] \subseteq V[m + 1]
    BY VisitedStep
<1> HIDE DEF V, k
<1>2. k \in Nat /\ n \in 0..k
    BY DEF k
<1>3. 0 \in S
    BY <1>2
<1>4. ASSUME NEW d \in S PROVE d + 1 \in S
    <2>1. n + d + 1 <= k => V[n + d] \subseteq V[n + d + 1]
        BY <1>1, <1>2
    <2> QED BY <1>2, <2>1
<1>5. k - n \in S
    <2>1. S = Nat
        <3> HIDE DEF S
        <3>1. S \subseteq Nat
            BY DEF S
        <3> QED BY <1>3, <1>4, <3>1, Induction
    <2> QED BY <1>2, <2>1
<1>6. V[n] \subseteq V[k]
    BY <1>2, <1>5
<1> QED BY <1>6 DEF V, k

-----------------------------------------------------------------------------
(* Plans: what is required of a plan apart from its graph makes its tasks  *)
(* a finite graph, and its identifiers name one task each.                 *)
Proper(p) == WellFormed(p) /\ Ids(p) \subseteq TaskId /\ DOMAIN p.tasks = 1..Len(p.tasks)

LEMMA ProperIds ==
    ASSUME NEW p, Proper(p)
    PROVE  /\ Ids(p) \subseteq Nat /\ IsFiniteSet(Ids(p)) /\ Cardinality(Ids(p)) \in Nat
           /\ \A i, j \in DOMAIN p.tasks : p.tasks[i].id = p.tasks[j].id => i = j
<1>1. Ids(p) \subseteq Nat /\ IsFiniteSet(Ids(p)) /\ Cardinality(Ids(p)) \in Nat
    <2>1. IsFiniteSet(TaskId) /\ TaskId \subseteq Nat /\ Ids(p) \in SUBSET TaskId
        BY GraphAssumption DEF Proper
    <2>2. IsFiniteSet(Ids(p))
        BY ONLY <2>1, FS_Subset
    <2> QED BY <2>1, <2>2, FS_CardinalityType
<1> DEFINE ids == Ids(p)
           S == DOMAIN p.tasks
           id == [i \in S |-> p.tasks[i].id]
<1>2. id \in Surjection(S, ids)
    BY DEF Surjection, Ids
<1>3. IsFiniteSet(S) /\ Cardinality(S) = Cardinality(ids)
    <2>1. S = 1..Len(p.tasks) /\ Cardinality(ids) = Len(p.tasks) /\ Len(p.tasks) \in Nat
        BY <1>1 DEF Proper, WellFormed
    <2>2. IsFiniteSet(1..Len(p.tasks)) /\ Cardinality(1..Len(p.tasks)) = Len(p.tasks)
        BY <2>1, FS_Interval
    <2> QED BY <2>1, <2>2
<1>4. id \in Injection(S, ids)
    <2> HIDE DEF id, S, ids
    <2> QED BY ONLY <1>2, <1>3, FS_SurjSameCardinalityImpliesInj
<1>5. \A i, j \in S : id[i] = id[j] => i = j
    <2>1. IsInjective(id) /\ DOMAIN id = S
        BY <1>4 DEF Injection
    <2> HIDE DEF id
    <2> QED BY <2>1 DEF IsInjective
<1> QED BY <1>1, <1>5

LEMMA ProperNode ==
    ASSUME NEW p, Proper(p), NEW t \in Ids(p)
    PROVE  /\ \E i \in DOMAIN p.tasks : p.tasks[i].id = t /\ Node(p, t) = p.tasks[i]
           /\ Dependencies(p, t) \subseteq Ids(p)
<1>1. PICK i \in DOMAIN p.tasks : p.tasks[i].id = t /\ Node(p, t) = p.tasks[i]
    BY DEF Ids, Node
<1>2. ToSet(p.tasks[i].dependencies) \subseteq Ids(p)
    BY DEF Proper, WellFormed
<1> QED BY <1>1, <1>2 DEF Dependencies

LEMMA NodeOf ==
    ASSUME NEW p, Proper(p), NEW i \in DOMAIN p.tasks
    PROVE  p.tasks[i].id \in Ids(p) /\ Node(p, p.tasks[i].id) = p.tasks[i]
<1>1. p.tasks[i].id \in Ids(p)
    BY DEF Ids
<1>2. PICK j \in DOMAIN p.tasks :
        p.tasks[j].id = p.tasks[i].id /\ Node(p, p.tasks[i].id) = p.tasks[j]
    BY <1>1, ProperNode
<1> QED BY <1>1, <1>2, ProperIds

-----------------------------------------------------------------------------
(* All that a task depends on is the least set that holds what it depends  *)
(* on itself and what those do: as many steps as there are tasks suffice,  *)
(* since each one before the last finds another task.                      *)
All(p, t) == Visited(p, t)[Cardinality(Ids(p))]
Closed(p, S) == \A u \in S : Dependencies(p, u) \subseteq S

LEMMA AllIsClosed ==
    ASSUME NEW p, Proper(p), NEW t \in Ids(p)
    PROVE  /\ All(p, t) \subseteq Ids(p)
           /\ Dependencies(p, t) \subseteq All(p, t)
           /\ Closed(p, All(p, t))
<1> DEFINE k == Cardinality(Ids(p))
           V == Visited(p, t)
           Found(n) == V[n] \in SUBSET Ids(p) /\ (Closed(p, V[n]) \/ Cardinality(V[n]) > n)
           S == {n \in Nat : n <= k => Found(n)}
<1>1. k \in Nat /\ IsFiniteSet(Ids(p)) /\ \A u \in Ids(p) : Dependencies(p, u) \subseteq Ids(p)
    BY ProperIds, ProperNode
<1>2. /\ V[0] = Dependencies(p, t)
      /\ \A n \in Nat : n + 1 <= k =>
           V[n + 1] = V[n] \union UNION {Dependencies(p, u) : u \in V[n]}
    BY <1>1, VisitedStep
<1>3. V[0] \subseteq V[k]
    <2>1. 0 \in 0..k
        BY <1>1
    <2> QED BY <1>1, <2>1, VisitedGrows
<1> HIDE DEF V, k
<1>4. \A T \in SUBSET Ids(p) : IsFiniteSet(T) /\ Cardinality(T) \in Nat /\ Cardinality(T) <= k
    BY <1>1, FS_Subset, FS_CardinalityType DEF k
<1>5. Found(0)
    <2>1. V[0] \in SUBSET Ids(p)
        BY <1>1, <1>2
    <2>2. CASE V[0] = {}
        BY <2>1, <2>2 DEF Closed
    <2>3. CASE V[0] # {}
        <3>1. Cardinality(V[0]) # 0 /\ Cardinality(V[0]) \in Nat
            BY <2>1, <2>3, <1>4, FS_EmptySet
        <3> QED BY <2>1, <3>1
    <2> QED BY <2>2, <2>3
<1>6. ASSUME NEW n \in Nat, Found(n), n + 1 <= k PROVE Found(n + 1)
    <2>1. V[n + 1] = V[n] \union UNION {Dependencies(p, u) : u \in V[n]}
        BY <1>2, <1>6
    <2>2. V[n + 1] \in SUBSET Ids(p)
        BY <1>1, <1>6, <2>1
    <2>3. CASE Closed(p, V[n])
        <3>1. V[n + 1] = V[n]
            BY <2>1, <2>3 DEF Closed
        <3> QED BY <2>2, <2>3, <3>1
    <2>4. CASE ~ Closed(p, V[n])
        <3>1. Cardinality(V[n]) > n
            BY <1>6, <2>4
        <3>2. V[n] \subseteq V[n + 1] /\ V[n] # V[n + 1]
            BY <2>1, <2>4 DEF Closed
        <3>3. IsFiniteSet(V[n + 1]) /\ V[n] \in SUBSET V[n + 1]
            BY <1>4, <2>2, <3>2
        <3>4. Cardinality(V[n]) <= Cardinality(V[n + 1]) /\ Cardinality(V[n]) # Cardinality(V[n + 1])
            BY ONLY <3>2, <3>3, FS_Subset
        <3>5. Cardinality(V[n]) \in Nat /\ Cardinality(V[n + 1]) \in Nat
            BY <1>4, <1>6, <2>2
        <3>6. Cardinality(V[n + 1]) > n + 1
            BY <3>1, <3>4, <3>5
        <3> QED BY <2>2, <3>6
    <2> QED BY <2>3, <2>4
<1>7. k \in S
    <2>1. \A n \in S : n + 1 \in S
        <3> HIDE DEF Found
        <3> QED BY <1>1, <1>6
    <2>2. 0 \in S
        BY <1>5
    <2> HIDE DEF S
    <2>3. S \subseteq Nat
        BY DEF S
    <2> QED BY <1>1, <2>1, <2>2, <2>3, Induction
<1>8. Found(k)
    BY <1>1, <1>7
<1>9. V[k] \subseteq Ids(p) /\ Closed(p, V[k])
    <2>1. V[k] \in SUBSET Ids(p)
        BY <1>8
    <2>2. Cardinality(V[k]) \in Nat /\ Cardinality(V[k]) <= k
        BY <1>4, <2>1
    <2> QED BY <1>1, <1>8, <2>1, <2>2
<1> QED BY <1>2, <1>3, <1>9 DEF All, V, k

LEMMA AllIsLeast ==
    ASSUME NEW p, Proper(p), NEW t \in Ids(p),
           NEW T, Dependencies(p, t) \subseteq T, Closed(p, T)
    PROVE  All(p, t) \subseteq T
<1> DEFINE k == Cardinality(Ids(p))
           V == Visited(p, t)
           S == {n \in Nat : n <= k => V[n] \subseteq T}
<1>1. k \in Nat
    BY ProperIds
<1>2. /\ V[0] = Dependencies(p, t)
      /\ \A n \in Nat : n + 1 <= k =>
           V[n + 1] = V[n] \union UNION {Dependencies(p, u) : u \in V[n]}
    BY <1>1, VisitedStep
<1> HIDE DEF V, k
<1>3. 0 \in S
    BY <1>2
<1>4. ASSUME NEW n \in S PROVE n + 1 \in S
    BY <1>1, <1>2 DEF Closed
<1>5. k \in S
    <2>1. S \subseteq Nat
        OBVIOUS
    <2> HIDE DEF S
    <2> QED BY <1>1, <1>3, <1>4, <2>1, Induction
<1> QED BY <1>1, <1>5 DEF All, V, k

LEMMA AllOfAll ==
    ASSUME NEW p, Proper(p), NEW t \in Ids(p), NEW u \in All(p, t)
    PROVE  u \in Ids(p) /\ All(p, u) \subseteq All(p, t)
<1>1. u \in Ids(p) /\ Dependencies(p, u) \subseteq All(p, t) /\ Closed(p, All(p, t))
    BY AllIsClosed DEF Closed
<1> QED BY <1>1, AllIsLeast

LEMMA BeforeIsAll ==
    ASSUME NEW p, Proper(p), NEW t \in Ids(p), NEW u \in Ids(p)
    PROVE  Before(p, t, u) <=> t \in All(p, u)
<1>1. ASSUME Before(p, t, u) PROVE t \in All(p, u)
    <2>1. /\ All(p, u) \in SUBSET Ids(p)
          /\ Dependencies(p, u) \subseteq All(p, u)
          /\ \A v \in All(p, u) : Dependencies(p, v) \subseteq All(p, u)
        BY AllIsClosed DEF Closed
    <2> QED BY <1>1, <2>1 DEF Before
<1>2. ASSUME t \in All(p, u) PROVE Before(p, t, u)
    <2> SUFFICES ASSUME NEW S \in SUBSET Ids(p), Dependencies(p, u) \subseteq S,
                        \A v \in S : Dependencies(p, v) \subseteq S
                 PROVE  t \in S
        BY DEF Before
    <2>1. Closed(p, S)
        BY DEF Closed
    <2> QED BY <1>2, <2>1, AllIsLeast
<1> QED BY <1>1, <1>2

-----------------------------------------------------------------------------
(* The sort: what it has put in order comes after all it depends on, and   *)
(* what is ready next is counted right.                                    *)
LEMMA SortingUnfolds ==
    ASSUME NEW p, Cardinality(Ids(p)) \in Nat
    PROVE  /\ Sorting(p)[0] = [order |-> <<>>,
                               indegrees |-> [t \in Ids(p) |-> Cardinality(Dependencies(p, t))],
                               ready |-> {t \in Ids(p) : Dependencies(p, t) = {}}]
           /\ \A n \in Nat : n + 1 <= Cardinality(Ids(p)) =>
                Sorting(p)[n + 1] = IF Sorting(p)[n].ready = {} THEN Sorting(p)[n]
                                    ELSE Placed(p, Sorting(p)[n])
<1> DEFINE k == Cardinality(Ids(p))
           First == [order |-> <<>>,
                     indegrees |-> [t \in Ids(p) |-> Cardinality(Dependencies(p, t))],
                     ready |-> {t \in Ids(p) : Dependencies(p, t) = {}}]
           More(s) == IF s.ready = {} THEN s ELSE Placed(p, s)
           Solves(f, m) == f = [n \in 0..m |-> IF n = 0 THEN First ELSE More(f[n - 1])]
           S == {m \in Nat : \E f : Solves(f, m)}
           step == Sorting(p)
<1>1. Sorting(p) = CHOOSE f : Solves(f, k)
    BY DEF Sorting
<1> HIDE DEF First, More
<1>2. 0 \in S
    <2>1. Solves([n \in 0..0 |-> First], 0)
        OBVIOUS
    <2> QED BY <2>1
<1>3. ASSUME NEW m \in S PROVE m + 1 \in S
    <2>1. PICK f : Solves(f, m)
        OBVIOUS
    <2> DEFINE g == [n \in 0..(m + 1) |-> IF n <= m THEN f[n] ELSE More(f[m])]
    <2>2. \A n \in 0..(m + 1) : g[n] = IF n = 0 THEN First ELSE More(g[n - 1])
        BY <2>1
    <2>3. Solves(g, m + 1)
        BY <2>2
    <2>4. \E h : Solves(h, m + 1)
        <3> HIDE DEF g
        <3> QED BY <2>3
    <2> QED BY <2>4
<1>4. k \in S
    <2>1. S \subseteq Nat
        OBVIOUS
    <2> HIDE DEF S, k
    <2>2. k \in Nat
        BY DEF k
    <2> QED BY <1>2, <1>3, <2>1, <2>2, Induction
<1>5. Solves(step, k)
    <2>1. \E f : Solves(f, k)
        BY <1>4
    <2> HIDE DEF Solves
    <2> QED BY <1>1, <2>1
<1> HIDE DEF step, k
<1>6. k \in Nat
    BY DEF k
<1>7. step[0] = First
    BY <1>5, <1>6
<1>8. ASSUME NEW n \in Nat, n + 1 <= k PROVE step[n + 1] = More(step[n])
    <2>1. n + 1 \in 0..k /\ n + 1 # 0 /\ (n + 1) - 1 = n
        BY <1>6, <1>8
    <2> QED BY <1>5, <2>1
<1> QED BY <1>7, <1>8 DEF First, More, step, k

\* Every task of the order is one of the plan, has one place, and comes after
\* all it depends on.
Ordered(p, o) ==
    /\ o \in Seq(Ids(p))
    /\ \A i, j \in 1..Len(o) : o[i] = o[j] => i = j
    /\ \A i \in 1..Len(o) : \A d \in Dependencies(p, o[i]) :
         \E j \in 1..Len(o) : j < i /\ o[j] = d

Sorted(p, s) ==
    /\ Ordered(p, s.order)
    /\ s.indegrees = [u \in Ids(p) |-> Cardinality(Dependencies(p, u) \ ToSet(s.order))]
    /\ s.ready = {t \in Ids(p) \ ToSet(s.order) : Dependencies(p, t) \subseteq ToSet(s.order)}

LEMMA OrderGrows ==
    ASSUME NEW p, NEW o, Ordered(p, o), NEW t \in Ids(p),
           t \notin ToSet(o), Dependencies(p, t) \subseteq ToSet(o)
    PROVE  /\ Ordered(p, Append(o, t))
           /\ ToSet(Append(o, t)) = ToSet(o) \union {t}
           /\ Len(Append(o, t)) = Len(o) + 1
<1> DEFINE a == Append(o, t)
           n == Len(o)
<1>1. /\ a \in Seq(Ids(p)) /\ n \in Nat /\ Len(a) = n + 1
      /\ \A i \in 1..n : a[i] = o[i]
      /\ a[n + 1] = t
    BY DEF Ordered
<1>2. /\ \A i, j \in 1..n : o[i] = o[j] => i = j
      /\ \A i \in 1..n : \A d \in Dependencies(p, o[i]) : \E j \in 1..n : j < i /\ o[j] = d
    BY DEF Ordered
<1>3. ToSet(o) = {o[i] : i \in 1..n} /\ ToSet(a) = {a[i] : i \in 1..(n + 1)}
    <2>1. DOMAIN o = 1..n /\ DOMAIN a = 1..(n + 1)
        BY DEF Ordered
    <2> HIDE DEF a, n
    <2> QED BY <2>1 DEF ToSet
<1> HIDE DEF a, n
<1>4. \A i \in 1..(n + 1) : i \in 1..n \/ i = n + 1
    BY <1>1
<1>5. ToSet(a) = ToSet(o) \union {t}
    <2>1. 1..n \subseteq 1..(n + 1) /\ n + 1 \in 1..(n + 1)
        BY <1>1
    <2> QED BY <1>1, <1>3, <1>4, <2>1
<1>6. ASSUME NEW i \in 1..(n + 1), NEW j \in 1..(n + 1), a[i] = a[j] PROVE i = j
    <2>1. \A l \in 1..n : o[l] # t
        BY <1>3
    <2> QED BY <1>1, <1>2, <1>4, <1>6, <2>1
<1>7. ASSUME NEW i \in 1..(n + 1), NEW d \in Dependencies(p, a[i])
      PROVE  \E j \in 1..(n + 1) : j < i /\ a[j] = d
    <2>1. \E j \in 1..n : j < i /\ o[j] = d
        <3>1. CASE i \in 1..n
            BY <1>1, <1>2, <1>7, <3>1
        <3>2. CASE i = n + 1
            <4>1. d \in ToSet(o)
                BY <1>1, <1>7, <3>2
            <4>2. PICK j \in 1..n : o[j] = d
                BY <1>3, <4>1
            <4> QED BY <1>1, <3>2, <4>2
        <3> QED BY <1>4, <3>1, <3>2
    <2>2. PICK j \in 1..n : j < i /\ o[j] = d
        BY <2>1
    <2>3. j \in 1..(n + 1) /\ a[j] = d
        BY <1>1, <2>2
    <2> QED BY <2>2, <2>3
<1>8. Ordered(p, a)
    BY <1>1, <1>6, <1>7 DEF Ordered
<1> QED BY <1>1, <1>5, <1>8 DEF a, n

LEMMA OneLess ==
    ASSUME NEW T, IsFiniteSet(T), NEW done, NEW t, t \notin done
    PROVE  /\ Cardinality(T \ (done \union {t})) =
                IF t \in T THEN Cardinality(T \ done) - 1 ELSE Cardinality(T \ done)
           /\ t \in T => (Cardinality(T \ done) = 1 <=> T \subseteq done \union {t})
<1> DEFINE R == T \ done
<1>1. IsFiniteSet(R) /\ (t \in R <=> t \in T) /\ T \ (done \union {t}) = R \ {t}
    <2>1. R \in SUBSET T
        OBVIOUS
    <2>2. IsFiniteSet(R)
        <3> HIDE DEF R
        <3> QED BY <2>1, FS_Subset
    <2> QED BY <2>2
<1>2. T \subseteq done \union {t} <=> R \ {t} = {}
    OBVIOUS
<1> HIDE DEF R
<1>3. /\ Cardinality(R \ {t}) = IF t \in R THEN Cardinality(R) - 1 ELSE Cardinality(R)
      /\ IsFiniteSet(R \ {t})
    BY <1>1, FS_RemoveElement
<1>4. Cardinality(R) \in Nat /\ (Cardinality(R \ {t}) = 0 <=> R \ {t} = {})
    <2>1. Cardinality(R) \in Nat
        BY <1>1, FS_CardinalityType
    <2>2. Cardinality(R \ {t}) = 0 <=> R \ {t} = {}
        BY <1>3, FS_EmptySet
    <2> QED BY <2>1, <2>2
<1>5. Cardinality(R \ {t}) = IF t \in T THEN Cardinality(R) - 1 ELSE Cardinality(R)
    BY <1>1, <1>3
<1>6. t \in T => (Cardinality(R) = 1 <=> R \ {t} = {})
    BY <1>4, <1>5
<1>7. Cardinality(T \ (done \union {t})) = Cardinality(R \ {t})
    BY <1>1
<1> QED BY <1>2, <1>5, <1>6, <1>7 DEF R

LEMMA PlacedSorted ==
    ASSUME NEW p, Proper(p), NEW s, Sorted(p, s), s.ready # {}
    PROVE  /\ Sorted(p, Placed(p, s))
           /\ Len(Placed(p, s).order) = Len(s.order) + 1
<1> DEFINE ids == Ids(p)
           D(u) == Dependencies(p, u)
           done == ToSet(s.order)
           next == CHOOSE t \in s.ready : \A u \in s.ready : t <= u
           dependents == {u \in ids : next \in D(u)}
           after == done \union {next}
<1>1. s.ready = {t \in ids \ done : D(t) \subseteq done}
    BY DEF Sorted
<1>2. ids \subseteq Nat /\ \A u \in ids : D(u) \subseteq ids /\ IsFiniteSet(D(u))
    <2>1. ids \subseteq Nat /\ IsFiniteSet(ids) /\ \A u \in ids : D(u) \in SUBSET ids
        BY ProperIds, ProperNode
    <2> HIDE DEF ids, D
    <2> QED BY <2>1, FS_Subset
<1>3. next \in s.ready
    <2>1. s.ready \in SUBSET Nat
        BY <1>1, <1>2
    <2>2. \E t \in s.ready : \A u \in s.ready : t <= u
        BY <2>1, LeastNumber
    <2> QED BY <2>2
<1>4. Placed(p, s) =
        [order |-> Append(s.order, next),
         indegrees |-> [u \in ids |-> IF u \in dependents THEN s.indegrees[u] - 1
                                      ELSE s.indegrees[u]],
         ready |-> (s.ready \ {next}) \union {u \in dependents : s.indegrees[u] = 1}]
    BY DEF Placed
<1>5. Ordered(p, s.order) /\ s.indegrees = [u \in ids |-> Cardinality(D(u) \ done)]
    BY DEF Sorted
<1> HIDE DEF next
<1>6. next \in ids /\ next \notin done /\ D(next) \subseteq done
    BY <1>1, <1>3
<1>7. /\ Ordered(p, Append(s.order, next))
      /\ ToSet(Append(s.order, next)) = after
      /\ Len(Append(s.order, next)) = Len(s.order) + 1
    BY <1>5, <1>6, OrderGrows
<1>8. \A u \in done : D(u) \subseteq done
    <2> SUFFICES ASSUME NEW u \in done, NEW d \in D(u) PROVE d \in done
        OBVIOUS
    <2>1. /\ DOMAIN s.order = 1..Len(s.order)
          /\ \A i \in 1..Len(s.order) : \A e \in D(s.order[i]) :
               \E j \in 1..Len(s.order) : j < i /\ s.order[j] = e
        <3>1. /\ s.order \in Seq(ids)
              /\ \A i \in 1..Len(s.order) : \A e \in Dependencies(p, s.order[i]) :
                   \E j \in 1..Len(s.order) : j < i /\ s.order[j] = e
            BY <1>5 DEF Ordered
        <3>2. DOMAIN s.order = 1..Len(s.order)
            BY <3>1
        <3> QED BY <3>1, <3>2
    <2>2. PICK i \in 1..Len(s.order) : s.order[i] = u
        BY <2>1 DEF ToSet
    <2>3. PICK j \in 1..Len(s.order) : s.order[j] = d
        BY <2>1, <2>2
    <2> QED BY <2>1, <2>3 DEF ToSet
<1> HIDE DEF ids, D, done
<1>9. ASSUME NEW u \in ids
      PROVE  /\ Cardinality(D(u) \ after) = IF next \in D(u) THEN Cardinality(D(u) \ done) - 1
                                            ELSE Cardinality(D(u) \ done)
             /\ next \in D(u) => (Cardinality(D(u) \ done) = 1 <=> D(u) \subseteq after)
    <2>1. IsFiniteSet(D(u)) /\ next \notin done
        BY <1>2, <1>6
    <2> QED BY ONLY <2>1, OneLess
<1>10. [u \in ids |-> IF u \in dependents THEN s.indegrees[u] - 1 ELSE s.indegrees[u]]
         = [u \in ids |-> Cardinality(D(u) \ after)]
    <2> HIDE DEF after
    <2>1. \A u \in ids : (IF u \in dependents THEN s.indegrees[u] - 1 ELSE s.indegrees[u])
                           = Cardinality(D(u) \ after)
        BY <1>5, <1>9
    <2> QED BY <2>1
<1>11. (s.ready \ {next}) \union {u \in dependents : s.indegrees[u] = 1}
         = {t \in ids \ after : D(t) \subseteq after}
    <2>1. \A u \in dependents : s.indegrees[u] = 1 <=> D(u) \subseteq after
        <3> HIDE DEF after
        <3> QED BY <1>5, <1>9
    <2>2. \A u \in dependents : u \notin after
        BY <1>6, <1>8
    <2>3. \A u \in ids \ dependents : D(u) \subseteq after <=> D(u) \subseteq done
        OBVIOUS
    <2>4. next \notin dependents
        BY <1>6
    <2>5. dependents \subseteq ids
        OBVIOUS
    <2> HIDE DEF dependents
    <2> QED BY <1>1, <2>1, <2>2, <2>3, <2>4, <2>5
<1> DEFINE q == Placed(p, s)
<1>12. /\ q.order = Append(s.order, next)
       /\ q.indegrees = [u \in ids |-> Cardinality(D(u) \ after)]
       /\ q.ready = {t \in ids \ after : D(t) \subseteq after}
    BY <1>4, <1>10, <1>11
<1> HIDE DEF q
<1>13. ToSet(q.order) = after
    BY <1>7, <1>12
<1>14. /\ q.indegrees = [u \in ids |-> Cardinality(D(u) \ ToSet(q.order))]
       /\ q.ready = {t \in ids \ ToSet(q.order) : D(t) \subseteq ToSet(q.order)}
    <2> HIDE DEF after
    <2> QED BY <1>12, <1>13
<1>15. Ordered(p, q.order) /\ Len(q.order) = Len(s.order) + 1
    BY <1>7, <1>12
<1>16. Sorted(p, q)
    BY <1>14, <1>15 DEF Sorted, ids, D
<1> QED BY <1>15, <1>16 DEF q

LEMMA SortSorted ==
    ASSUME NEW p, Proper(p)
    PROVE  /\ Ordered(p, Sort(p))
           /\ \/ Len(Sort(p)) = Cardinality(Ids(p))
              \/ \A t \in Ids(p) \ ToSet(Sort(p)) : ~ (Dependencies(p, t) \subseteq ToSet(Sort(p)))
<1> DEFINE k == Cardinality(Ids(p))
           step == Sorting(p)
           Right(n) == /\ Sorted(p, step[n])
                       /\ Len(step[n].order) = n \/ step[n].ready = {}
           S == {n \in Nat : n <= k => Right(n)}
<1>1. /\ step[0] = [order |-> <<>>,
                    indegrees |-> [t \in Ids(p) |-> Cardinality(Dependencies(p, t))],
                    ready |-> {t \in Ids(p) : Dependencies(p, t) = {}}]
      /\ \A n \in Nat : n + 1 <= k =>
           step[n + 1] = IF step[n].ready = {} THEN step[n] ELSE Placed(p, step[n])
      /\ k \in Nat
    BY ProperIds, SortingUnfolds
<1> HIDE DEF step, k
<1>2. Right(0)
    <2>1. ToSet(<<>>) = {}
        BY DEF ToSet
    <2>2. Ordered(p, <<>>)
        BY DEF Ordered
    <2>3. \A u \in Ids(p) : Cardinality(Dependencies(p, u))
                               = Cardinality(Dependencies(p, u) \ ToSet(<<>>))
        <3>1. \A u : Dependencies(p, u) \ ToSet(<<>>) = Dependencies(p, u)
            BY <2>1
        <3> QED BY <3>1
    <2>4. step[0].indegrees = [u \in Ids(p) |-> Cardinality(Dependencies(p, u) \ ToSet(<<>>))]
        BY <1>1, <2>3
    <2>5. step[0].ready = {t \in Ids(p) \ ToSet(<<>>) : Dependencies(p, t) \subseteq ToSet(<<>>)}
        BY <1>1, <2>1
    <2> QED BY <1>1, <2>2, <2>4, <2>5 DEF Sorted
<1>3. ASSUME NEW n \in Nat, Right(n), n + 1 <= k PROVE Right(n + 1)
    <2>1. CASE step[n].ready = {}
        BY <1>1, <1>3, <2>1
    <2>2. CASE step[n].ready # {}
        <3>1. step[n + 1] = Placed(p, step[n])
            BY <1>1, <1>3, <2>2
        <3>2. /\ Sorted(p, step[n + 1])
              /\ Len(step[n + 1].order) = Len(step[n].order) + 1
            BY <1>3, <2>2, <3>1, PlacedSorted
        <3> QED BY <1>3, <2>2, <3>2
    <2> QED BY <2>1, <2>2
<1>4. k \in S
    <2>1. 0 \in S /\ \A n \in S : n + 1 \in S
        <3> HIDE DEF Right
        <3> QED BY <1>1, <1>2, <1>3
    <2> HIDE DEF S
    <2>2. S \subseteq Nat
        BY DEF S
    <2> QED BY <1>1, <2>1, <2>2, Induction
<1>5. Right(k) /\ Sort(p) = step[k].order
    BY <1>1, <1>4 DEF Sort, step, k
<1> QED BY <1>5 DEF Sorted, k

\* An order of all tasks has no place for a cycle: what a task depends on is
\* among those before it.
LEMMA OrderHasNoCycle ==
    ASSUME NEW p, Proper(p), NEW o, Ordered(p, o), ToSet(o) = Ids(p), NEW t \in Ids(p)
    PROVE  t \notin All(p, t)
<1>1. /\ DOMAIN o = 1..Len(o) /\ Len(o) \in Nat
      /\ \A i, j \in 1..Len(o) : o[i] = o[j] => i = j
      /\ \A i \in 1..Len(o) : \A d \in Dependencies(p, o[i]) :
           \E j \in 1..Len(o) : j < i /\ o[j] = d
    <2>1. o \in Seq(Ids(p))
        BY DEF Ordered
    <2>2. DOMAIN o = 1..Len(o) /\ Len(o) \in Nat
        BY <2>1
    <2> QED BY <2>2 DEF Ordered
<1>2. PICK i \in 1..Len(o) : o[i] = t
    BY <1>1 DEF ToSet
<1> DEFINE T == {o[j] : j \in 1..(i - 1)}
<1>3. 1..(i - 1) \subseteq 1..Len(o) /\ \A j \in 1..Len(o) : j < i <=> j \in 1..(i - 1)
    BY <1>1
<1>4. Dependencies(p, t) \subseteq T
    BY <1>1, <1>2, <1>3
<1>5. Closed(p, T)
    <2> SUFFICES ASSUME NEW j \in 1..(i - 1), NEW d \in Dependencies(p, o[j])
                 PROVE  d \in T
        BY DEF Closed
    <2>1. PICK l \in 1..Len(o) : l < j /\ o[l] = d
        BY <1>1, <1>3
    <2>2. l \in 1..(i - 1)
        BY <1>1, <2>1
    <2> QED BY <2>1, <2>2
<1>6. t \notin T
    <2>1. \A j \in 1..(i - 1) : j # i
        BY <1>1
    <2> QED BY <1>1, <1>2, <1>3, <2>1
<1> QED BY <1>4, <1>5, <1>6, AllIsLeast

\* Where no task can be next, the one that depends on the fewest others is
\* among those: what it waits for depends on no fewer.
LEMMA StuckHasCycle ==
    ASSUME NEW p, Proper(p), NEW done, Ids(p) \ done # {},
           \A t \in Ids(p) \ done : ~ (Dependencies(p, t) \subseteq done)
    PROVE  \E t \in Ids(p) : t \in All(p, t)
<1> DEFINE Left == Ids(p) \ done
           Size(t) == Cardinality(All(p, t))
           Sizes == {Size(t) : t \in Left}
<1>1. \A t \in Ids(p) : IsFiniteSet(All(p, t)) /\ Size(t) \in Nat
    <2> TAKE t \in Ids(p)
    <2>1. IsFiniteSet(Ids(p)) /\ All(p, t) \in SUBSET Ids(p)
        BY ProperIds, AllIsClosed
    <2>2. IsFiniteSet(All(p, t))
        BY ONLY <2>1, FS_Subset
    <2> QED BY <2>2, FS_CardinalityType
<1>2. PICK t \in Left : \A u \in Left : Size(t) <= Size(u)
    <2>1. Sizes \in SUBSET Nat /\ Sizes # {}
        BY <1>1
    <2>2. \E m \in Sizes : \A n \in Sizes : m <= n
        <3> HIDE DEF Sizes
        <3> QED BY <2>1, LeastNumber
    <2> HIDE DEF Size
    <2> QED BY <2>2
<1>3. Dependencies(p, t) \subseteq Ids(p) /\ Dependencies(p, t) \subseteq All(p, t)
    BY ProperNode, AllIsClosed
<1>4. PICK u \in Dependencies(p, t) : u \notin done
    OBVIOUS
<1>5. u \in Left /\ u \in All(p, t) /\ All(p, u) \subseteq All(p, t)
    BY <1>3, <1>4, AllOfAll
<1>6. All(p, u) = All(p, t)
    <2>1. Size(t) <= Size(u) /\ Size(t) \in Nat /\ Size(u) \in Nat
        BY <1>1, <1>2, <1>5
    <2>2. IsFiniteSet(All(p, t)) /\ All(p, u) \in SUBSET All(p, t)
        BY <1>1, <1>5
    <2>3. /\ Cardinality(All(p, u)) <= Cardinality(All(p, t))
          /\ Cardinality(All(p, t)) = Cardinality(All(p, u)) => All(p, t) = All(p, u)
        BY ONLY <2>2, FS_Subset
    <2> QED BY <2>1, <2>3
<1> QED BY <1>5, <1>6

LEMMA AcyclicMeansNoCycle ==
    ASSUME NEW p, Proper(p)
    PROVE  /\ Acyclic(p) <=> \A t \in Ids(p) : t \notin All(p, t)
           /\ Acyclic(p) => Ordered(p, Sort(p)) /\ ToSet(Sort(p)) = Ids(p)
<1> DEFINE o == Sort(p)
           ids == Ids(p)
           k == Cardinality(ids)
<1>1. /\ Ordered(p, o)
      /\ Len(o) = k \/ \A t \in ids \ ToSet(o) : ~ (Dependencies(p, t) \subseteq ToSet(o))
    BY SortSorted
<1>2. IsFiniteSet(ids) /\ k \in Nat
    BY ProperIds
<1> HIDE DEF o
<1>3. /\ o \in [1..Len(o) -> ids] /\ Len(o) \in Nat
      /\ \A i, j \in 1..Len(o) : o[i] = o[j] => i = j
      /\ ToSet(o) = {o[i] : i \in 1..Len(o)}
    <2>1. o \in Seq(ids) /\ \A i, j \in 1..Len(o) : o[i] = o[j] => i = j
        BY <1>1 DEF Ordered
    <2>2. o \in [1..Len(o) -> ids] /\ Len(o) \in Nat /\ DOMAIN o = 1..Len(o)
        BY <2>1
    <2> QED BY <2>1, <2>2 DEF ToSet
<1>4. Len(o) = k <=> ToSet(o) = ids
    <2> DEFINE S == 1..Len(o)
    <2>1. o \in Injection(S, ids)
        BY <1>3 DEF Injection, IsInjective
    <2>2. Cardinality(S) = Len(o)
        <3>1. Len(o) \in Int /\ 1 \in Int
            BY <1>3
        <3>2. Cardinality(1..Len(o)) = IF 1 > Len(o) THEN 0 ELSE Len(o) - 1 + 1
            BY ONLY <3>1, FS_Interval
        <3> QED BY <1>3, <3>2
    <2>3. o \in Surjection(S, ids) <=> ToSet(o) = ids
        BY <1>3 DEF Surjection
    <2> HIDE DEF S, ids, k
    <2>4. Cardinality(S) = Cardinality(ids) <=> o \in Surjection(S, ids)
        BY ONLY <1>2, <2>1, FS_Injection
    <2> QED BY <2>2, <2>3, <2>4 DEF k
<1>5. Acyclic(p) <=> Len(o) = k
    BY DEF Acyclic, o
<1>6. ASSUME Acyclic(p) PROVE \A t \in ids : t \notin All(p, t)
    BY <1>1, <1>4, <1>5, <1>6, OrderHasNoCycle
<1>7. ASSUME ~ Acyclic(p) PROVE \E t \in ids : t \in All(p, t)
    <2>1. ids \ ToSet(o) # {}
        BY <1>3, <1>4, <1>5, <1>7
    <2>2. \A t \in ids \ ToSet(o) : ~ (Dependencies(p, t) \subseteq ToSet(o))
        BY <1>1, <1>5, <1>7
    <2> QED BY <2>1, <2>2, StuckHasCycle
<1> QED BY <1>1, <1>4, <1>5, <1>6, <1>7 DEF o

-----------------------------------------------------------------------------
(* The scopes: where no task follows from itself, the rule about the       *)
(* scopes of the code is the one about tasks.                              *)
Meet(p, t, u) == \E a \in Scopes(p, t), b \in Scopes(p, u) : Overlaps(a, b)
MeetWithin(p, t) ==
    \E a, b \in DOMAIN Node(p, t).write_scopes :
      a # b /\ Overlaps(Node(p, t).write_scopes[a], Node(p, t).write_scopes[b])

LEMMA ScopesOfTasks ==
    ASSUME NEW p, Proper(p), \A t \in Ids(p) : t \notin All(p, t)
    PROVE  ScopesOrdered(p) <=>
             /\ \A t \in Ids(p) : ~ MeetWithin(p, t)
             /\ \A t, u \in Ids(p) : t # u /\ Meet(p, t, u) => u \in All(p, t) \/ t \in All(p, u)
<1> DEFINE Ordering(t, u) == u \in All(p, t) \/ t \in All(p, u)
<1>1. \A t, u : DependencyOrdered(p, t, u) <=> Ordering(t, u)
    BY DEF DependencyOrdered, DependsOn, All
<1>2. ScopesOrdered(p) <=>
        \A i, j \in DOMAIN p.tasks :
          \A a \in DOMAIN p.tasks[i].write_scopes, b \in DOMAIN p.tasks[j].write_scopes :
            <<i, a>> # <<j, b>> /\ Overlaps(p.tasks[i].write_scopes[a], p.tasks[j].write_scopes[b])
              => Ordering(p.tasks[i].id, p.tasks[j].id)
    BY <1>1 DEF ScopesOrdered
<1> HIDE DEF Ordering
<1>3. ASSUME ScopesOrdered(p), NEW t \in Ids(p) PROVE ~ MeetWithin(p, t)
    <2> SUFFICES ASSUME NEW a \in DOMAIN Node(p, t).write_scopes,
                        NEW b \in DOMAIN Node(p, t).write_scopes, a # b,
                        Overlaps(Node(p, t).write_scopes[a], Node(p, t).write_scopes[b])
                 PROVE  FALSE
        BY DEF MeetWithin
    <2>1. PICK i \in DOMAIN p.tasks : p.tasks[i].id = t /\ Node(p, t) = p.tasks[i]
        BY ProperNode
    <2>2. Ordering(t, t)
        BY <1>2, <1>3, <2>1
    <2> QED BY <2>2 DEF Ordering
<1>4. ASSUME ScopesOrdered(p), NEW t \in Ids(p), NEW u \in Ids(p), t # u, Meet(p, t, u)
      PROVE  Ordering(t, u)
    <2>1. PICK i \in DOMAIN p.tasks : p.tasks[i].id = t /\ Node(p, t) = p.tasks[i]
        BY ProperNode
    <2>2. PICK j \in DOMAIN p.tasks : p.tasks[j].id = u /\ Node(p, u) = p.tasks[j]
        BY ProperNode
    <2>3. PICK a \in DOMAIN p.tasks[i].write_scopes, b \in DOMAIN p.tasks[j].write_scopes :
            Overlaps(p.tasks[i].write_scopes[a], p.tasks[j].write_scopes[b])
        BY <1>4, <2>1, <2>2 DEF Meet, Scopes, ToSet
    <2>4. <<i, a>> # <<j, b>>
        BY <1>4, <2>1, <2>2
    <2> QED BY <1>2, <1>4, <2>1, <2>2, <2>3, <2>4
<1>5. ASSUME \A t \in Ids(p) : ~ MeetWithin(p, t),
             \A t, u \in Ids(p) : t # u /\ Meet(p, t, u) => Ordering(t, u)
      PROVE  ScopesOrdered(p)
    <2> SUFFICES ASSUME NEW i \in DOMAIN p.tasks, NEW j \in DOMAIN p.tasks,
                        NEW a \in DOMAIN p.tasks[i].write_scopes,
                        NEW b \in DOMAIN p.tasks[j].write_scopes,
                        <<i, a>> # <<j, b>>,
                        Overlaps(p.tasks[i].write_scopes[a], p.tasks[j].write_scopes[b])
                 PROVE  Ordering(p.tasks[i].id, p.tasks[j].id)
        BY <1>2
    <2> DEFINE t == p.tasks[i].id
               u == p.tasks[j].id
    <2>1. /\ t \in Ids(p) /\ Node(p, t) = p.tasks[i]
          /\ u \in Ids(p) /\ Node(p, u) = p.tasks[j]
        BY NodeOf
    <2>2. CASE i = j
        <3>1. MeetWithin(p, t)
            BY <2>1, <2>2 DEF MeetWithin
        <3> QED BY <1>5, <2>1, <3>1
    <2>3. CASE i # j
        <3>1. t # u
            BY <2>3, ProperIds
        <3>2. Meet(p, t, u)
            BY <2>1 DEF Meet, Scopes, ToSet
        <3> QED BY <1>5, <2>1, <3>1, <3>2
    <2> QED BY <2>2, <2>3
<1> QED BY <1>3, <1>4, <1>5 DEF Ordering

LEMMA PlanIsSound ==
    ASSUME plan \in Plans
    PROVE  PlansAreSound
<1> DEFINE ids == Ids(plan)
           order == Sort(plan)
<1> SUFFICES ASSUME WellFormed(plan), Covered(plan)
             PROVE  /\ Accepted(plan) <=>
                         /\ \A t \in ids : ~ Before(plan, t, t) /\ ~ MeetWithin(plan, t)
                         /\ \A t, u \in ids : t # u /\ Meet(plan, t, u) =>
                              Before(plan, t, u) \/ Before(plan, u, t)
                    /\ Accepted(plan) =>
                         /\ ToSet(order) = ids /\ IsInjective(order)
                         /\ \A i \in DOMAIN order : \A t \in Dependencies(plan, order[i]) :
                              t \in ToSet(SubSeq(order, 1, i - 1))
    BY DEF PlansAreSound, MeetWithin, Meet
<1>1. Proper(plan)
    BY TasksAssumption DEF Proper
<1>2. \A t, u \in ids : Before(plan, t, u) <=> t \in All(plan, u)
    BY <1>1, BeforeIsAll
<1>3. Acyclic(plan) <=> \A t \in ids : ~ Before(plan, t, t)
    BY <1>1, <1>2, AcyclicMeansNoCycle
<1>4. Accepted(plan) <=> ScopesOrdered(plan) /\ Acyclic(plan)
    BY DEF Accepted
<1>5. Acyclic(plan) =>
        (ScopesOrdered(plan) <=>
           /\ \A t \in ids : ~ MeetWithin(plan, t)
           /\ \A t, u \in ids : t # u /\ Meet(plan, t, u) =>
                Before(plan, t, u) \/ Before(plan, u, t))
    <2>1. ASSUME Acyclic(plan) PROVE \A t \in ids : t \notin All(plan, t)
        BY <1>1, <2>1, AcyclicMeansNoCycle
    <2> QED BY <1>1, <1>2, <2>1, ScopesOfTasks
<1>6. ASSUME Acyclic(plan)
      PROVE  /\ ToSet(order) = ids /\ IsInjective(order)
             /\ \A i \in DOMAIN order : \A t \in Dependencies(plan, order[i]) :
                  t \in ToSet(SubSeq(order, 1, i - 1))
    <2>1. Ordered(plan, order) /\ ToSet(order) = ids
        BY <1>1, <1>6, AcyclicMeansNoCycle
    <2> HIDE DEF order
    <2>2. /\ order \in Seq(ids) /\ DOMAIN order = 1..Len(order) /\ Len(order) \in Nat
          /\ \A i, j \in 1..Len(order) : order[i] = order[j] => i = j
          /\ \A i \in 1..Len(order) : \A d \in Dependencies(plan, order[i]) :
               \E j \in 1..Len(order) : j < i /\ order[j] = d
        <3>1. order \in Seq(ids)
            BY <2>1 DEF Ordered
        <3>2. DOMAIN order = 1..Len(order) /\ Len(order) \in Nat
            BY <3>1
        <3> QED BY <2>1, <3>1, <3>2 DEF Ordered
    <2>3. IsInjective(order)
        BY <2>2 DEF IsInjective
    <2>4. ASSUME NEW i \in DOMAIN order, NEW t \in Dependencies(plan, order[i])
          PROVE  t \in ToSet(SubSeq(order, 1, i - 1))
        <3>1. PICK j \in 1..Len(order) : j < i /\ order[j] = t
            BY <2>2
        <3> DEFINE sub == SubSeq(order, 1, i - 1)
        <3>2. DOMAIN sub = 1..(i - 1) /\ \A l \in 1..(i - 1) : sub[l] = order[l]
            BY <2>2
        <3>3. j \in 1..(i - 1)
            BY <2>2, <3>1
        <3> HIDE DEF sub
        <3>4. j \in DOMAIN sub /\ sub[j] = t
            BY <3>1, <3>2, <3>3
        <3>5. t \in ToSet(sub)
            BY <3>4 DEF ToSet
        <3> QED BY <3>5 DEF sub
    <2> QED BY <2>1, <2>3, <2>4
<1> HIDE DEF ids, order
<1> QED BY <1>3, <1>4, <1>5, <1>6

-----------------------------------------------------------------------------
(* The order of the tasks.  A task that went its way, without a block and   *)
(* an unblock in place of its readiness, had all it depends on completed;  *)
(* completed tasks stay completed, so the same is true of those.           *)
Begun(t) == task[t].state \notin {"Pending", "Cancelled"}

DependenciesDone ==
    /\ (\E t \in TaskId : Begun(t)) => Accepted(plan)
    /\ \A t \in Ids(plan) \ hurried : Begun(t) => Dependencies(plan, t) \subseteq Completed

LEMMA AcceptedCount ==
    ASSUME NEW p, Accepted(p)
    PROVE  Cardinality(Ids(p)) \in Nat
BY GraphAssumption DEF Accepted, WellFormed

(* All that a task depends on, directly or not, is completed before it     *)
(* begins.                                                                 *)
LEMMA DependsOnDone ==
    ASSUME DependenciesDone, Ids(plan) \subseteq TaskId,
           NEW t \in Ids(plan), Begun(t), InOrder(t),
           NEW u, DependsOn(plan, t, u)
    PROVE  u \in Completed
<1> DEFINE k == Cardinality(Ids(plan))
           V == Visited(plan, t)
           S == {n \in Nat : n <= k => V[n] \subseteq Completed}
<1>1. k \in Nat
    BY AcceptedCount DEF DependenciesDone
<1>2. /\ V[0] = Dependencies(plan, t)
      /\ \A n \in Nat : n + 1 <= k =>
           V[n + 1] = V[n] \union UNION {Dependencies(plan, v) : v \in V[n]}
    BY <1>1, VisitedStep
<1>3. \A n \in 0..k : V[n] \cap hurried = {}
    BY <1>1, VisitedGrows DEF InOrder, DependsOn
<1>4. \A v \in Completed \ hurried : Dependencies(plan, v) \subseteq Completed
    BY DEF DependenciesDone, Completed, Begun
<1> HIDE DEF V, k
<1>5. 0 \in S
    <2>1. Dependencies(plan, t) \subseteq Completed
        BY DEF DependenciesDone, InOrder
    <2> QED BY <1>1, <1>2, <2>1
<1>6. ASSUME NEW n \in S PROVE n + 1 \in S
    <2> SUFFICES ASSUME n + 1 <= k PROVE V[n + 1] \subseteq Completed
        OBVIOUS
    <2>1. V[n] \subseteq Completed \ hurried
        BY <1>1, <1>3
    <2>2. V[n + 1] = V[n] \union UNION {Dependencies(plan, v) : v \in V[n]}
        BY <1>1, <1>2
    <2> QED BY <2>1, <2>2, <1>4
<1>7. k \in S
    <2>1. S \subseteq Nat
        OBVIOUS
    <2> HIDE DEF S
    <2> QED BY <1>1, <1>5, <1>6, <2>1, Induction
<1> QED BY <1>1, <1>7 DEF DependsOn, V, k

LEMMA DisjointFromOrder ==
    ASSUME DependenciesDone, Ids(plan) \subseteq TaskId
    PROVE  WorkIsDisjoint
<1> SUFFICES ASSUME NEW t \in Ids(plan), NEW u \in Ids(plan), t # u,
                    UnderWay(t), UnderWay(u), InOrder(t), InOrder(u),
                    NEW a \in Scopes(plan, t), NEW b \in Scopes(plan, u), Overlaps(a, b)
             PROVE  FALSE
    BY DEF WorkIsDisjoint
<1>1. Begun(t) /\ Begun(u) /\ t \notin Completed /\ u \notin Completed
    BY DEF UnderWay, Begun, Completed
<1>2. ScopesOrdered(plan)
    BY <1>1 DEF DependenciesDone, Accepted
<1>3. PICK i \in DOMAIN plan.tasks : plan.tasks[i].id = t /\ Node(plan, t) = plan.tasks[i]
    BY DEF Ids, Node
<1>4. PICK j \in DOMAIN plan.tasks : plan.tasks[j].id = u /\ Node(plan, u) = plan.tasks[j]
    BY DEF Ids, Node
<1>5. PICK x \in DOMAIN plan.tasks[i].write_scopes : a = plan.tasks[i].write_scopes[x]
    BY <1>3 DEF Scopes, ToSet
<1>6. PICK y \in DOMAIN plan.tasks[j].write_scopes : b = plan.tasks[j].write_scopes[y]
    BY <1>4 DEF Scopes, ToSet
<1>7. DependencyOrdered(plan, t, u)
    BY <1>2, <1>3, <1>4, <1>5, <1>6 DEF ScopesOrdered
<1> QED BY <1>1, <1>7, DependsOnDone DEF DependencyOrdered

-----------------------------------------------------------------------------
(* The inductive invariant.  Of leases: a session that believes to hold one *)
(* has the identifier in the table and no more time than the row; no two   *)
(* sessions were given the same identifier; work reported uncertain is     *)
(* past its time.                                                          *)
LeaseInv ==
    /\ \A s \in Session, t \in TaskId : Believes(s, t) =>
         /\ lease[t] # None /\ lease[t].id = believed[s][t].id
         /\ believed[s][t].left <= lease[t].left
    /\ \A r, s \in Session, t \in TaskId :
         believed[r][t] # None /\ believed[s][t] # None /\ believed[r][t].id = believed[s][t].id
           => r = s
    /\ \A t \in TaskId : lease[t] # None /\ lease[t].status = "uncertain" => lease[t].left < 0

IInv == TypeOK /\ AttemptsCountStarts /\ DependenciesDone /\ LeaseInv

LEMMA InitIInv == Init => IInv
<1> SUFFICES ASSUME Init PROVE IInv
    OBVIOUS
<1>1. Cardinality(Key) \in Nat
    BY TasksAssumption, FS_CardinalityType
<1>2. TypeOK
    BY <1>1, TasksAssumption DEF Init, TypeOK, Task, TaskState
<1>3. AttemptsCountStarts
    <2>1. \A t \in TaskId : {k \in Key : recorded[k] = t} = {}
        BY NoneAssumption DEF Init
    <2> QED BY <2>1, FS_EmptySet DEF Init, AttemptsCountStarts
<1>4. DependenciesDone
    BY TasksAssumption DEF Init, DependenciesDone, Begun
<1>5. LeaseInv
    BY DEF Init, LeaseInv, Believes
<1> QED BY <1>2, <1>3, <1>4, <1>5 DEF IInv

-----------------------------------------------------------------------------
(* A command changes the state of one task, and what was completed stays.  *)
LEMMA ApplyStep ==
    ASSUME TypeOK, NEW t \in TaskId, NEW command \in DOMAIN Transition, Apply(t, command)
    PROVE  /\ task[t].state \in Transition[command].from \ {"Completed"}
           /\ task'[t].state = Transition[command].to /\ task'[t].state \in TaskState
           /\ task'[t].attempts = IF command = "start" THEN task[t].attempts + 1
                                  ELSE task[t].attempts
           /\ task' = [task EXCEPT ![t] = task'[t]]
           /\ task'[t] = [state |-> task'[t].state, attempts |-> task'[t].attempts]
<1>1. task[t] \in Task
    BY DEF TypeOK
<1>2. /\ Transition[command].to \in TaskState
      /\ "Completed" \notin Transition[command].from
    BY DEF Transition, TaskState, Terminal
<1> QED BY <1>1, <1>2 DEF Apply, Task, TypeOK

(* The order is kept by a command on a task that begins only if all it     *)
(* depends on is completed.                                                *)
LEMMA OrderStep ==
    ASSUME TypeOK, DependenciesDone, NEW t \in Ids(plan), Ids(plan) \subseteq TaskId,
           Accepted(plan), plan' = plan,
           hurried \subseteq hurried',
           task' = [task EXCEPT ![t] = task'[t]],
           task[t].state # "Completed",
           Begun(t)' /\ t \notin hurried' =>
             Begun(t) \/ Dependencies(plan, t) \subseteq Completed
    PROVE  DependenciesDone'
<1>1. Completed \subseteq Completed'
    BY DEF Completed, TypeOK
<1>2. Accepted(plan)'
    OBVIOUS
<1>3. ASSUME NEW u \in Ids(plan) \ hurried', Begun(u)'
      PROVE  Dependencies(plan, u) \subseteq Completed
    <2>1. CASE u = t
        BY <1>3, <2>1 DEF DependenciesDone
    <2>2. CASE u # t
        BY <1>3, <2>2 DEF DependenciesDone, Begun, TypeOK
    <2> QED BY <2>1, <2>2
<1> QED BY <1>1, <1>2, <1>3 DEF DependenciesDone

(* Keys count the starts of a task.                                        *)
LEMMA AttemptsFit ==
    ASSUME TypeOK
    PROVE  \A t \in TaskId :
             /\ IsFiniteSet({k \in Key : recorded[k] = t})
             /\ Cardinality({k \in Key : recorded[k] = t}) \in 0..Cardinality(Key)
<1> TAKE t \in TaskId
<1>1. {k \in Key : recorded[k] = t} \subseteq Key
    OBVIOUS
<1> QED BY <1>1, TasksAssumption, FS_Subset, FS_CardinalityType

LEMMA SameAttempts ==
    ASSUME TypeOK, AttemptsCountStarts, NEW t \in TaskId, UNCHANGED recorded,
           task' = [task EXCEPT ![t] = task'[t]],
           task'[t].attempts = task[t].attempts
    PROVE  AttemptsCountStarts'
BY DEF AttemptsCountStarts, TypeOK

LEMMA OneMoreAttempt ==
    ASSUME TypeOK, AttemptsCountStarts, NEW t \in TaskId, NEW key \in Key,
           recorded[key] = None, recorded' = [recorded EXCEPT ![key] = t],
           task' = [task EXCEPT ![t] = task'[t]],
           task'[t].attempts = task[t].attempts + 1
    PROVE  AttemptsCountStarts' /\ task'[t].attempts \in 0..Cardinality(Key)
<1> DEFINE K(u) == {k \in Key : recorded[k] = u}
<1>1. t # None
    BY NoneAssumption
<1>2. {k \in Key : recorded'[k] = t} = K(t) \union {key} /\ key \notin K(t)
    BY <1>1 DEF TypeOK
<1>3. Cardinality({k \in Key : recorded'[k] = t}) = Cardinality(K(t)) + 1
    BY <1>2, AttemptsFit, FS_AddElement
<1>4. Cardinality({k \in Key : recorded'[k] = t}) <= Cardinality(Key)
    <2>1. {k \in Key : recorded'[k] = t} \in SUBSET Key
        OBVIOUS
    <2> QED BY <2>1, TasksAssumption, FS_Subset
<1>5. \A u \in TaskId \ {t} : {k \in Key : recorded'[k] = u} = K(u)
    BY NoneAssumption DEF TypeOK
<1>6. AttemptsCountStarts'
    BY <1>3, <1>5 DEF AttemptsCountStarts, TypeOK
<1>7. task'[t].attempts = Cardinality(K(t)) + 1
    BY DEF AttemptsCountStarts
<1>8. Cardinality(K(t)) \in Nat /\ Cardinality(Key) \in Nat
    BY AttemptsFit, TasksAssumption, FS_CardinalityType
<1> QED BY <1>3, <1>4, <1>6, <1>7, <1>8

-----------------------------------------------------------------------------
(* What every step on a task amounts to.                                   *)
LEMMA TaskStep ==
    ASSUME IInv, Accepted(plan), NEW t \in Ids(plan), Ids(plan) \subseteq TaskId,
           NEW command \in DOMAIN Transition, Apply(t, command),
           UNCHANGED <<plan, lease, believed>>,
           hurried' \in {hurried, hurried \union {t}},
           Begun(t)' /\ t \notin hurried' =>
             Begun(t) \/ Dependencies(plan, t) \subseteq Completed,
           \/ command # "start" /\ UNCHANGED recorded
           \/ \E key \in Key : /\ command = "start" /\ recorded[key] = None
                                /\ recorded' = [recorded EXCEPT ![key] = t]
    PROVE  IInv'
<1> DEFINE q == task'[t]
<1>1. /\ task[t].state # "Completed"
      /\ q.state \in TaskState
      /\ task' = [task EXCEPT ![t] = q]
      /\ q = [state |-> q.state, attempts |-> q.attempts]
      /\ q.attempts = IF command = "start" THEN task[t].attempts + 1 ELSE task[t].attempts
    BY ApplyStep DEF IInv
<1>2. DependenciesDone'
    BY <1>1, OrderStep DEF IInv
<1>3. LeaseInv'
    BY DEF IInv, LeaseInv, Believes
<1>4. AttemptsCountStarts' /\ q.attempts \in 0..Cardinality(Key)
    <2>1. CASE command # "start"
        <3>1. q.attempts \in 0..Cardinality(Key)
            BY <1>1, <2>1 DEF IInv, TypeOK, Task
        <3> QED BY <1>1, <2>1, <3>1, SameAttempts DEF IInv
    <2>2. CASE command = "start"
        BY <1>1, <2>2, OneMoreAttempt DEF IInv
    <2> QED BY <2>1, <2>2
<1>5. TypeOK'
    <2>1. q \in Task
        BY <1>1, <1>4 DEF Task
    <2>2. recorded' \in [Key -> TaskId \union {None}]
        BY DEF IInv, TypeOK
    <2> QED BY <1>1, <2>1, <2>2 DEF IInv, TypeOK
<1> QED BY <1>2, <1>3, <1>4, <1>5 DEF IInv

LEMMA ScheduleInv ==
    ASSUME IInv, Accepted(plan), NEW t \in Ids(plan), Ids(plan) \subseteq TaskId, Schedule(t)
    PROVE  IInv'
<1>1. Dependencies(plan, t) \subseteq Completed
    BY DEF Schedule, ReadyTasks
<1> QED BY <1>1, TaskStep DEF Schedule, Transition

LEMMA WorkInv ==
    ASSUME IInv, Accepted(plan), NEW t \in Ids(plan), Ids(plan) \subseteq TaskId,
           NEW command \in {"lease", "submit", "passed", "retryable", "failed"}, Work(t, command)
    PROVE  IInv'
<1>1. Begun(t)
    BY DEF Work, Apply, Transition, Begun
<1> QED BY <1>1, TaskStep DEF Work, Transition

LEMMA StartInv ==
    ASSUME IInv, Accepted(plan), NEW t \in Ids(plan), Ids(plan) \subseteq TaskId,
           NEW key \in Key, Start(t, key)
    PROVE  IInv'
<1>1. Begun(t)
    BY DEF Start, Apply, Transition, Begun
<1> QED BY <1>1, TaskStep DEF Start, Transition

LEMMA StopInv ==
    ASSUME IInv, Accepted(plan), NEW t \in Ids(plan), Ids(plan) \subseteq TaskId,
           NEW command \in {"block", "unblock", "cancel"}, Stop(t, command)
    PROVE  IInv'
<1>1. command \in DOMAIN Transition /\ Apply(t, command)
    BY DEF Stop, Transition
<1>2. /\ task[t].state \in Transition[command].from
      /\ task'[t].state = Transition[command].to
    BY <1>1, ApplyStep DEF IInv
<1>3. Begun(t)' /\ t \notin hurried' => Begun(t)
    <2>1. CASE command = "block"
        BY <1>2, <2>1 DEF Begun, Stop, Transition, Terminal
    <2>2. CASE command = "unblock"
        BY <1>2, <2>2 DEF Begun, Transition
    <2>3. CASE command = "cancel"
        BY <1>2, <2>3 DEF Begun, Transition
    <2> QED BY <2>1, <2>2, <2>3
<1> QED BY <1>1, <1>3, TaskStep DEF Stop

-----------------------------------------------------------------------------
(* Steps on leases leave the tasks alone.                                  *)
LEMMA LeaseStep ==
    ASSUME IInv, UNCHANGED <<plan, task, recorded, hurried>>,
           lease' \in [TaskId -> Lease \union {None}],
           believed' \in [Session -> [TaskId -> Held \union {None}]],
           LeaseInv'
    PROVE  IInv'
<1>1. TypeOK'
    BY DEF IInv, TypeOK
<1>2. AttemptsCountStarts'
    BY DEF IInv, AttemptsCountStarts
<1>3. DependenciesDone'
    BY DEF IInv, DependenciesDone, Begun, Completed
<1> QED BY <1>1, <1>2, <1>3 DEF IInv

LEMMA GrantInv ==
    ASSUME IInv, NEW s \in Session, NEW t \in TaskId, NEW id \in LeaseId, Fresh(id),
           NEW safety \in Safety, Grant(s, t, lease[t], id, safety),
           UNCHANGED <<plan, task, recorded, hurried>>
    PROVE  IInv'
<1> DEFINE row == [id |-> id, left |-> Duration, safety |-> safety, status |-> "active"]
           held == [id |-> id, left |-> Duration]
<1>1. row \in Lease /\ held \in Held /\ row # None /\ held # None
    BY TasksAssumption, NoneAssumption DEF Lease, Held, Safety
<1>2. lease' = [lease EXCEPT ![t] = row] /\ lease'[t] = row
    BY DEF Grant, IInv, TypeOK
<1>3. believed' = [believed EXCEPT ![s][t] = held] \/ believed' = believed
    BY <1>2 DEF Grant, Reply
<1>4. lease' \in [TaskId -> Lease \union {None}]
    BY <1>1, <1>2 DEF IInv, TypeOK
<1>5. believed' \in [Session -> [TaskId -> Held \union {None}]]
    <2>1. believed \in [Session -> [TaskId -> Held \union {None}]]
        BY DEF IInv, TypeOK
    <2>2. [believed[s] EXCEPT ![t] = held] \in [TaskId -> Held \union {None}]
        BY <1>1, <2>1
    <2> QED BY <1>3, <2>1, <2>2
<1>6. \A r \in Session : ~Believes(r, t)
    <2> SUFFICES ASSUME NEW r \in Session, Believes(r, t) PROVE FALSE
        OBVIOUS
    <2>1. lease[t] # None /\ believed[r][t].left <= lease[t].left
        BY DEF IInv, LeaseInv
    <2>2. ~ (lease[t].left >= 0)
        BY <2>1 DEF Grant, Reconcile
    <2>3. believed[r][t] \in Held /\ lease[t] \in Lease
        BY <2>1 DEF IInv, TypeOK, Believes
    <2> QED BY <2>1, <2>2, <2>3 DEF Believes, Held, Lease
<1>7. \A r \in Session, u \in TaskId :
        believed'[r][u] = IF r = s /\ u = t /\ believed' # believed THEN held ELSE believed[r][u]
    BY <1>3 DEF IInv, TypeOK
<1>8. \A u \in TaskId : lease'[u] = IF u = t THEN row ELSE lease[u]
    BY <1>2 DEF IInv, TypeOK
<1>9. LeaseInv'
    <2>1. ASSUME NEW r \in Session, NEW u \in TaskId, Believes(r, u)'
          PROVE  /\ lease'[u] # None /\ lease'[u].id = believed'[r][u].id
                 /\ believed'[r][u].left <= lease'[u].left
        <3>1. CASE r = s /\ u = t /\ believed' # believed
            BY <3>1, <1>1, <1>7, <1>8, TasksAssumption
        <3>2. CASE ~ (r = s /\ u = t /\ believed' # believed)
            <4>1. Believes(r, u)
                BY <2>1, <3>2, <1>7 DEF Believes
            <4>2. u # t
                BY <4>1, <1>6
            <4> QED BY <3>2, <4>1, <4>2, <1>7, <1>8 DEF IInv, LeaseInv
        <3> QED BY <3>1, <3>2
    <2>2. ASSUME NEW q \in Session, NEW r \in Session, NEW u \in TaskId,
                 believed'[q][u] # None, believed'[r][u] # None,
                 believed'[q][u].id = believed'[r][u].id
          PROVE  q = r
        BY <2>2, <1>7 DEF IInv, LeaseInv, Fresh
    <2>3. \A u \in TaskId : lease'[u] # None /\ lease'[u].status = "uncertain"
                              => lease'[u].left < 0
        BY <1>8 DEF IInv, LeaseInv
    <2> QED BY <2>1, <2>2, <2>3 DEF LeaseInv
<1> QED BY <1>4, <1>5, <1>9, LeaseStep

LEMMA AcquireInv ==
    ASSUME IInv, NEW s \in Session, NEW t \in TaskId, AcquireLease(s, t)
    PROVE  IInv'
<1>1. CASE \E id \in {i \in LeaseId : Fresh(i)}, safety \in Safety :
             Grant(s, t, lease[t], id, safety)
    BY <1>1, GrantInv DEF AcquireLease
<1>2. CASE /\ lease[t] # None
           /\ \/ lease[t].status = "uncertain"
              \/ Reconcile(lease[t]) = "ManualReviewRequired"
           /\ lease' = [lease EXCEPT ![t].status = "uncertain"]
           /\ UNCHANGED believed
    <2> DEFINE row == [lease[t] EXCEPT !.status = "uncertain"]
    <2>1. lease[t] \in Lease /\ lease[t].left < 0
        <3>1. lease[t] \in Lease
            BY <1>2 DEF IInv, TypeOK
        <3>2. lease[t].status # "uncertain" => ~ (lease[t].left >= 0)
            BY <1>2 DEF Reconcile
        <3>3. lease[t].left \in Int
            BY <3>1, TasksAssumption DEF Lease
        <3> QED BY <1>2, <3>1, <3>2, <3>3 DEF IInv, LeaseInv
    <2>2. /\ row \in Lease /\ row # None /\ row.id = lease[t].id /\ row.left = lease[t].left
          /\ lease' = [lease EXCEPT ![t] = row]
        BY <1>2, <2>1, NoneAssumption DEF Lease
    <2>3. \A u \in TaskId : lease'[u] = IF u = t THEN row ELSE lease[u]
        BY <2>2 DEF IInv, TypeOK
    <2>4. LeaseInv'
        BY <1>2, <2>1, <2>2, <2>3 DEF IInv, LeaseInv, Believes
    <2>5. lease' \in [TaskId -> Lease \union {None}] /\ believed' = believed
        BY <1>2, <2>2 DEF IInv, TypeOK
    <2> QED BY <2>4, <2>5, LeaseStep DEF AcquireLease, IInv, TypeOK
<1> QED BY <1>1, <1>2 DEF AcquireLease

LEMMA HeartbeatInv ==
    ASSUME IInv, NEW s \in Session, NEW t \in TaskId, HeartbeatLease(s, t)
    PROVE  IInv'
<1> DEFINE row == [lease[t] EXCEPT !.left = Duration]
           held == [id |-> row.id, left |-> Duration]
<1>1. /\ lease[t] \in Lease /\ believed[s][t] \in Held
      /\ believed[s][t].id = lease[t].id /\ lease[t].left \in -1..Duration
    BY DEF HeartbeatLease, IInv, TypeOK, Lease
<1>2. /\ row \in Lease /\ row # None /\ row.id = lease[t].id /\ row.left = Duration
      /\ row.status = "active" /\ held \in Held /\ held # None
    BY <1>1, TasksAssumption, NoneAssumption DEF HeartbeatLease, Lease, Held
<1>3. lease' = [lease EXCEPT ![t] = row]
    BY DEF HeartbeatLease
<1>4. \A u \in TaskId : lease'[u] = IF u = t THEN row ELSE lease[u]
    BY <1>3 DEF IInv, TypeOK
<1>5. believed' = [believed EXCEPT ![s][t] = held] \/ believed' = believed
    BY <1>2, <1>4 DEF HeartbeatLease, Reply
<1>6. \A r \in Session, u \in TaskId :
        believed'[r][u] = IF r = s /\ u = t /\ believed' # believed THEN held ELSE believed[r][u]
    BY <1>5 DEF IInv, TypeOK
<1>7. believed' \in [Session -> [TaskId -> Held \union {None}]]
    <2>1. believed \in [Session -> [TaskId -> Held \union {None}]]
        BY DEF IInv, TypeOK
    <2>2. [believed[s] EXCEPT ![t] = held] \in [TaskId -> Held \union {None}]
        BY <1>2, <2>1
    <2> QED BY <1>5, <2>1, <2>2
<1>8. LeaseInv'
    <2>1. ASSUME NEW r \in Session, NEW u \in TaskId, Believes(r, u)'
          PROVE  /\ lease'[u] # None /\ lease'[u].id = believed'[r][u].id
                 /\ believed'[r][u].left <= lease'[u].left
        <3> HIDE DEF row
        <3>1. CASE r = s /\ u = t /\ believed' # believed
            BY <3>1, <1>2, <1>4, <1>6, TasksAssumption
        <3>2. CASE ~ (r = s /\ u = t /\ believed' # believed)
            <4>1. Believes(r, u) /\ believed'[r][u] = believed[r][u]
                BY <2>1, <3>2, <1>6 DEF Believes
            <4>2. lease[u] # None /\ lease[u].id = believed[r][u].id
                  /\ believed[r][u].left <= lease[u].left
                BY <4>1 DEF IInv, LeaseInv
            <4>3. believed[r][u].left \in -1..Duration
                BY <4>1 DEF IInv, TypeOK, Believes, Held
            <4>4. CASE u = t
                BY <4>1, <4>2, <4>3, <4>4, <1>2, <1>4, TasksAssumption
            <4>5. CASE u # t
                BY <4>1, <4>2, <4>5, <1>4
            <4> QED BY <4>4, <4>5
        <3> QED BY <3>1, <3>2
    <2>2. ASSUME NEW q \in Session, NEW r \in Session, NEW u \in TaskId,
                 believed'[q][u] # None, believed'[r][u] # None,
                 believed'[q][u].id = believed'[r][u].id
          PROVE  q = r
        <3>1. \A p \in {q, r} : believed[p][u] # None /\ believed[p][u].id = believed'[p][u].id
            BY <2>2, <1>1, <1>2, <1>6 DEF HeartbeatLease
        <3> QED BY <2>2, <3>1 DEF IInv, LeaseInv
    <2>3. \A u \in TaskId : lease'[u] # None /\ lease'[u].status = "uncertain"
                              => lease'[u].left < 0
        BY <1>2, <1>4 DEF IInv, LeaseInv
    <2> QED BY <2>1, <2>2, <2>3 DEF LeaseInv
<1>9. lease' \in [TaskId -> Lease \union {None}]
    BY <1>2, <1>3 DEF IInv, TypeOK
<1> QED BY <1>7, <1>8, <1>9, LeaseStep DEF HeartbeatLease

(* Nobody else was given the lease that a session releases.                *)
LEMMA ReleaseInv ==
    ASSUME IInv, NEW s \in Session, NEW t \in TaskId, ReleaseLease(s, t)
    PROVE  IInv'
<1>1. /\ lease \in [TaskId -> Lease \union {None}]
      /\ believed \in [Session -> [TaskId -> Held \union {None}]]
    BY DEF IInv, TypeOK
<1>2. lease' \in [TaskId -> Lease \union {None}]
    BY <1>1 DEF ReleaseLease
<1>3. believed' \in [Session -> [TaskId -> Held \union {None}]]
    <2>1. [believed[s] EXCEPT ![t] = None] \in [TaskId -> Held \union {None}]
        BY <1>1
    <2> QED BY <1>1, <2>1 DEF ReleaseLease
<1>4. \A r \in Session, u \in TaskId :
        believed'[r][u] = IF r = s /\ u = t THEN None ELSE believed[r][u]
    BY <1>1 DEF ReleaseLease
<1>5. \A u \in TaskId :
        lease'[u] = IF u = t /\ lease[t] # None /\ lease[t].id = believed[s][t].id
                    THEN None ELSE lease[u]
    BY <1>1 DEF ReleaseLease
<1>6. LeaseInv'
    <2>1. ASSUME NEW r \in Session, NEW u \in TaskId, Believes(r, u)'
          PROVE  /\ lease'[u] # None /\ lease'[u].id = believed'[r][u].id
                 /\ believed'[r][u].left <= lease'[u].left
        <3>1. Believes(r, u) /\ believed'[r][u] = believed[r][u] /\ ~ (r = s /\ u = t)
            BY <2>1, <1>4 DEF Believes
        <3>2. /\ lease[u] # None /\ lease[u].id = believed[r][u].id
              /\ believed[r][u].left <= lease[u].left
            BY <3>1 DEF IInv, LeaseInv
        <3>3. u = t => lease[t].id # believed[s][t].id
            BY <3>1, <3>2 DEF IInv, LeaseInv, ReleaseLease, Believes
        <3> QED BY <3>1, <3>2, <3>3, <1>5
    <2>2. \A q, r \in Session, u \in TaskId :
            believed'[q][u] # None /\ believed'[r][u] # None
            /\ believed'[q][u].id = believed'[r][u].id => q = r
        BY <1>4 DEF IInv, LeaseInv
    <2>3. \A u \in TaskId : lease'[u] # None /\ lease'[u].status = "uncertain"
                              => lease'[u].left < 0
        BY <1>5 DEF IInv, LeaseInv
    <2> QED BY <2>1, <2>2, <2>3 DEF LeaseInv
<1> QED BY <1>2, <1>3, <1>6, LeaseStep DEF ReleaseLease

LEMMA ReviewInv ==
    ASSUME IInv, NEW t \in TaskId, Review(t)
    PROVE  IInv'
<1>1. \A u \in TaskId : lease'[u] = IF u = t THEN None ELSE lease[u]
    BY DEF Review, IInv, TypeOK
<1>2. \A r \in Session : ~Believes(r, t)
    <2> SUFFICES ASSUME NEW r \in Session, Believes(r, t) PROVE FALSE
        OBVIOUS
    <2>1. believed[r][t].left >= 0 /\ believed[r][t].left <= lease[t].left /\ lease[t].left < 0
        BY DEF IInv, LeaseInv, Review, Believes
    <2>2. believed[r][t] \in Held /\ lease[t] \in Lease
        BY DEF IInv, TypeOK, Believes, Review
    <2> QED BY <2>1, <2>2 DEF Held, Lease
<1>3. LeaseInv'
    BY <1>1, <1>2 DEF Review, IInv, LeaseInv, Believes
<1> QED BY <1>3, LeaseStep DEF Review, IInv, TypeOK

LEMMA CrashInv ==
    ASSUME IInv, NEW s \in Session, Crash(s)
    PROVE  IInv'
<1>1. \A r \in Session, u \in TaskId :
        believed'[r][u] = IF r = s THEN None ELSE believed[r][u]
    BY DEF Crash, IInv, TypeOK
<1>2. LeaseInv'
    BY <1>1 DEF Crash, IInv, LeaseInv, Believes
<1> QED BY <1>2, LeaseStep DEF Crash, IInv, TypeOK

(* Time takes the same from a row and from what a session heard of it.     *)
LEMMA TickInv ==
    ASSUME IInv, Tick
    PROVE  IInv'
<1>1. \A h \in Held \union {None} :
        /\ Elapsed(h) \in Held \union {None}
        /\ Elapsed(h) = None <=> h = None
        /\ h # None => /\ Elapsed(h).id = h.id
                       /\ Elapsed(h).left = IF h.left = -1 THEN -1 ELSE h.left - 1
    BY TasksAssumption, NoneAssumption DEF Elapsed, Held
<1>2. \A h \in Lease \union {None} :
        /\ Elapsed(h) \in Lease \union {None}
        /\ Elapsed(h) = None <=> h = None
        /\ h # None => /\ Elapsed(h).id = h.id /\ Elapsed(h).status = h.status
                       /\ Elapsed(h).left = IF h.left = -1 THEN -1 ELSE h.left - 1
    BY TasksAssumption, NoneAssumption DEF Elapsed, Lease
<1>3. /\ lease \in [TaskId -> Lease \union {None}]
      /\ believed \in [Session -> [TaskId -> Held \union {None}]]
    BY DEF IInv, TypeOK
<1>4. \A s \in Session, t \in TaskId : believed'[s][t] = Elapsed(believed[s][t])
    BY DEF Tick
<1>5. \A t \in TaskId : lease'[t] = Elapsed(lease[t])
    BY DEF Tick
<1>6. LeaseInv'
    <2>1. ASSUME NEW r \in Session, NEW u \in TaskId, Believes(r, u)'
          PROVE  /\ lease'[u] # None /\ lease'[u].id = believed'[r][u].id
                 /\ believed'[r][u].left <= lease'[u].left
        <3>1. /\ believed[r][u] \in Held
              /\ believed[r][u].left \in -1..Duration
              /\ believed'[r][u].left = IF believed[r][u].left = -1 THEN -1
                                        ELSE believed[r][u].left - 1
              /\ believed'[r][u].id = believed[r][u].id
            BY <2>1, <1>1, <1>3, <1>4 DEF Believes, Held
        <3>2. Believes(r, u)
            BY <2>1, <3>1, <1>1, <1>3, <1>4, TasksAssumption DEF Believes
        <3>3. /\ lease[u] # None /\ lease[u].id = believed[r][u].id
              /\ believed[r][u].left <= lease[u].left
            BY <3>2 DEF IInv, LeaseInv
        <3>4. /\ lease[u].left \in -1..Duration
              /\ lease'[u] # None /\ lease'[u].id = lease[u].id
              /\ lease'[u].left = IF lease[u].left = -1 THEN -1 ELSE lease[u].left - 1
            BY <3>3, <1>2, <1>3, <1>5 DEF Lease
        <3> QED BY <3>1, <3>2, <3>3, <3>4, TasksAssumption DEF Believes
    <2>2. \A q, r \in Session, u \in TaskId :
            believed'[q][u] # None /\ believed'[r][u] # None
            /\ believed'[q][u].id = believed'[r][u].id => q = r
        BY <1>1, <1>3, <1>4 DEF IInv, LeaseInv
    <2>3. ASSUME NEW u \in TaskId, lease'[u] # None, lease'[u].status = "uncertain"
          PROVE  lease'[u].left < 0
        <3>1. /\ lease[u] \in Lease /\ lease[u].left < 0
              /\ lease'[u].left = IF lease[u].left = -1 THEN -1 ELSE lease[u].left - 1
            BY <2>3, <1>2, <1>3, <1>5 DEF IInv, LeaseInv
        <3> QED BY <3>1, TasksAssumption DEF Lease
    <2> QED BY <2>1, <2>2, <2>3 DEF LeaseInv
<1>7. /\ lease' \in [TaskId -> Lease \union {None}]
      /\ believed' \in [Session -> [TaskId -> Held \union {None}]]
    BY <1>1, <1>2, <1>3 DEF Tick
<1> QED BY <1>6, <1>7, LeaseStep DEF Tick

-----------------------------------------------------------------------------
LEMMA NextInv ==
    ASSUME IInv, [Next]_vars
    PROVE  IInv'
<1>1. CASE UNCHANGED vars
    BY <1>1 DEF vars, IInv, TypeOK, AttemptsCountStarts, DependenciesDone, Begun, Completed,
                LeaseInv, Believes
<1>2. CASE Next
    <2>1. Accepted(plan) /\ Ids(plan) \subseteq TaskId /\ Leased \subseteq TaskId
        BY <1>2, TasksAssumption DEF Next, IInv, TypeOK
    <2>2. CASE \E t \in Ids(plan) : Schedule(t)
        BY <2>1, <2>2, ScheduleInv
    <2>3. CASE \E t \in Ids(plan), command \in {"lease", "submit", "passed", "retryable", "failed"} :
                 Work(t, command)
        BY <2>1, <2>3, WorkInv
    <2>4. CASE \E t \in Ids(plan), key \in Key : Start(t, key)
        BY <2>1, <2>4, StartInv
    <2>5. CASE \E t \in Ids(plan) \cap Stopped, command \in {"block", "unblock", "cancel"} :
                 Stop(t, command)
        BY <2>1, <2>5, StopInv
    <2>6. CASE \E s \in Session, t \in Leased :
                 AcquireLease(s, t) \/ HeartbeatLease(s, t) \/ ReleaseLease(s, t)
        BY <2>1, <2>6, AcquireInv, HeartbeatInv, ReleaseInv
    <2>7. CASE \E t \in Leased : Review(t)
        BY <2>1, <2>7, ReviewInv
    <2>8. CASE \E s \in Session : Crash(s)
        BY <2>8, CrashInv
    <2>9. CASE Tick
        BY <2>9, TickInv
    <2> QED BY <1>2, <2>2, <2>3, <2>4, <2>5, <2>6, <2>7, <2>8, <2>9 DEF Next
<1> QED BY <1>1, <1>2

(* What the invariant says of the two properties of the states.            *)
LEMMA InvFromIInv ==
    ASSUME IInv
    PROVE  Inv /\ OneBelievedHolder
<1>1. WorkIsDisjoint
    BY DisjointFromOrder, TasksAssumption DEF IInv, TypeOK
<1>2. OneBelievedHolder
    <2> SUFFICES ASSUME NEW t \in TaskId, NEW r \in Session, NEW s \in Session,
                        Believes(r, t), Believes(s, t)
                 PROVE  r = s
        BY DEF OneBelievedHolder
    <2>1. believed[r][t].id = lease[t].id /\ believed[s][t].id = lease[t].id
        BY DEF IInv, LeaseInv
    <2> QED BY <2>1 DEF IInv, LeaseInv, Believes
<1> QED BY <1>1, <1>2 DEF IInv, Inv

(* Every state the tasks can reach satisfies the inductive invariant.      *)
LEMMA Inductive == Spec => []IInv
<1>1. Init => IInv
    BY InitIInv
<1>2. IInv /\ [Next]_vars => IInv'
    BY NextInv
<1> QED BY <1>1, <1>2, PTL DEF Spec

(* Tasks are well typed, a task counts one attempt for each start that was  *)
(* recorded, and tasks under way in their order never write the same files: *)
(* the transitions of task.rs and tasks.rs, with TaskDag's order.          *)
THEOREM InvCorrect == Spec => []Inv
BY Inductive, InvFromIInv, PTL

(* Two sessions never both believe to hold the lease of a task             *)
(* (leases.rs), whatever replies were lost and whoever crashed.            *)
THEOREM HolderCorrect == Spec => []OneBelievedHolder
BY Inductive, InvFromIInv, PTL

(* A well-formed plan is accepted exactly if its dependencies have no      *)
(* cycle and order every two tasks whose scopes overlap, and the order of  *)
(* an accepted one has every task once, after all it depends on            *)
(* (ArchitecturePlan::validate and TaskDag): for plans of any size.        *)
THEOREM PlansCorrect == Spec => []PlansAreSound
<1>1. IInv => PlansAreSound
    BY PlanIsSound DEF IInv, TypeOK
<1> QED BY <1>1, Inductive, PTL

-----------------------------------------------------------------------------
(* A step that takes the lease of one task from one row to the next.       *)
Final(t) ==
    lease[t] # None /\ lease'[t] # None =>
      IF lease[t].id = lease'[t].id
      THEN lease[t].left < 0 => lease'[t].left < 0
      ELSE lease[t].safety = "Idempotent" /\ lease[t].status = "active"

LEMMA AcquireIsFinal ==
    ASSUME IInv, NEW s \in Session, NEW t \in TaskId, AcquireLease(s, t), NEW u \in TaskId
    PROVE  Final(u)
<1>1. lease \in [TaskId -> Lease \union {None}]
    BY DEF IInv, TypeOK
<1>2. ASSUME NEW id \in LeaseId, Fresh(id), NEW safety \in Safety,
             Grant(s, t, lease[t], id, safety)
      PROVE  Final(u)
    <2>1. lease'[u] = IF u = t THEN [id |-> id, left |-> Duration, safety |-> safety,
                                     status |-> "active"] ELSE lease[u]
        BY <1>1, <1>2 DEF Grant
    <2>2. lease[u] # None => lease[u].id # id
        BY <1>2 DEF Fresh
    <2>3. u = t /\ lease[u] # None => lease[u].safety = "Idempotent" /\ lease[u].status = "active"
        BY <1>2 DEF Grant, Reconcile
    <2> QED BY <2>1, <2>2, <2>3 DEF Final
<1>3. CASE lease[t] # None /\ lease' = [lease EXCEPT ![t].status = "uncertain"]
    <2>1. lease[t] \in Lease
        BY <1>1, <1>3
    <2>2. /\ u # t => lease'[u] = lease[u]
          /\ u = t => lease'[u].id = lease[u].id /\ lease'[u].left = lease[u].left
        BY <1>1, <1>3, <2>1 DEF Lease
    <2> QED BY <2>2 DEF Final
<1> QED BY <1>2, <1>3 DEF AcquireLease

LEMMA NextIsFinal ==
    ASSUME IInv, [Next]_vars, NEW u \in TaskId
    PROVE  Final(u)
<1>1. lease \in [TaskId -> Lease \union {None}] /\ Leased \subseteq TaskId
    BY TasksAssumption DEF IInv, TypeOK
<1>2. CASE lease' = lease
    BY <1>2 DEF Final
<1>3. ASSUME NEW s \in Session, NEW t \in TaskId, HeartbeatLease(s, t) PROVE Final(u)
    <2>1. u # t => lease'[u] = lease[u]
        BY <1>1, <1>3 DEF HeartbeatLease
    <2> QED BY <1>1, <1>3, <2>1 DEF HeartbeatLease, Final, Lease
<1>4. ASSUME NEW s \in Session, NEW t \in TaskId, ReleaseLease(s, t) PROVE Final(u)
    BY <1>1, <1>4 DEF ReleaseLease, Final
<1>5. ASSUME NEW t \in TaskId, Review(t) PROVE Final(u)
    BY <1>1, <1>5 DEF Review, Final
<1>6. CASE Tick
    <2>1. lease'[u] = Elapsed(lease[u])
        BY <1>6 DEF Tick
    <2>2. CASE lease[u] = None
        BY <2>2 DEF Final
    <2>3. CASE lease[u] # None
        <3>1. lease[u] \in Lease
            BY <1>1, <2>3
        <3> QED BY <2>1, <2>3, <3>1, TasksAssumption DEF Elapsed, Lease, Final
    <2> QED BY <2>2, <2>3
<1>7. CASE \E s \in Session : Crash(s)
    BY <1>2, <1>7 DEF Crash
<1>8. CASE \E t \in Ids(plan) :
             \/ Schedule(t)
             \/ \E command \in {"lease", "submit", "passed", "retryable", "failed"} :
                  Work(t, command)
             \/ \E key \in Key : Start(t, key)
    BY <1>2, <1>8 DEF Schedule, Work, Start
<1>9. CASE \E t \in Ids(plan) \cap Stopped, command \in {"block", "unblock", "cancel"} :
             Stop(t, command)
    BY <1>2, <1>9 DEF Stop
<1>10. CASE UNCHANGED vars
    BY <1>2, <1>10 DEF vars
<1>11. CASE \E s \in Session, t \in Leased :
              AcquireLease(s, t) \/ HeartbeatLease(s, t) \/ ReleaseLease(s, t)
    BY <1>1, <1>3, <1>4, <1>11, AcquireIsFinal
<1>12. CASE \E t \in Leased : Review(t)
    BY <1>1, <1>5, <1>12
<1> QED BY <1>6, <1>7, <1>8, <1>9, <1>10, <1>11, <1>12 DEF Next

(* A lease that expired is never valid again, and work that may not be     *)
(* repeated goes to another session only after its lease was released:     *)
(* acquire_lease, heartbeat_lease and release_lease of leases.rs.          *)
THEOREM ExpiryCorrect == Spec => ExpiryIsFinal
<1>1. IInv /\ [Next]_vars =>
        [\A t \in TaskId : lease[t] # None /\ lease'[t] # None =>
           IF lease[t].id = lease'[t].id
           THEN lease[t].left < 0 => lease'[t].left < 0
           ELSE lease[t].safety = "Idempotent" /\ lease[t].status = "active"]_vars
    BY NextIsFinal DEF Final
<1> QED BY <1>1, Inductive, PTL DEF Spec, ExpiryIsFinal
=============================================================================
