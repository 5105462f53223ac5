------------------------- MODULE Verification_proofs -------------------------
(***************************************************************************)
(* Proofs about freezing and verifying a candidate, for every project, any *)
(* number of requests that overlap, of revisions, commands and receipts.   *)
(* The plan has the gate of integrity behind every command, so what a      *)
(* command did to the worktree is seen there; a head that only moves on    *)
(* then makes what was read twice one revision.                            *)
(***************************************************************************)
EXTENDS Verification, FiniteSetTheorems, SequenceTheorems, WellFoundedInduction, TLAPS

-----------------------------------------------------------------------------
(* Induction: of a set of natural numbers that is not empty one is the     *)
(* least, so a set of sequences that holds the empty one and is closed      *)
(* under Append holds them all.                                            *)
LEMMA LeastNumber ==
    ASSUME NEW S \in SUBSET Nat, S # {}
    PROVE  \E m \in S : \A n \in S : m <= n
<1> DEFINE R == {p \in Nat \X Nat : p[1] < p[2]}
<1>1. IsWellFoundedOn(R, Nat)
    BY NatLessThanWellFounded DEF OpToRel
<1>2. PICK m \in S : \A n \in S : ~ (<<n, m>> \in R)
    <2> HIDE DEF R
    <2> QED BY <1>1, WFMin
<1>3. \A n \in S : ~ (n < m)
    BY <1>2
<1> QED BY <1>3

LEMMA Induction ==
    ASSUME NEW S \in SUBSET Nat, 0 \in S, \A n \in S : n + 1 \in S
    PROVE  S = Nat
<1> SUFFICES ASSUME Nat \ S # {} PROVE FALSE
    OBVIOUS
<1>1. PICK m \in Nat \ S : \A n \in Nat \ S : m <= n
    BY LeastNumber
<1>2. m - 1 \in S
    BY <1>1
<1> QED BY <1>1, <1>2

LEMMA SequenceInduction ==
    ASSUME NEW T, NEW P \in SUBSET Seq(T), <<>> \in P,
           \A s \in P : \A x \in T : Append(s, x) \in P
    PROVE  P = Seq(T)
<1> DEFINE N == {n \in Nat : \A s \in Seq(T) : Len(s) = n => s \in P}
<1>1. 0 \in N
    BY EmptySeq
<1>2. ASSUME NEW n \in N PROVE n + 1 \in N
    <2> SUFFICES ASSUME NEW s \in Seq(T), Len(s) = n + 1 PROVE s \in P
        OBVIOUS
    <2>1. s # <<>>
        BY EmptySeq
    <2>2. PICK r \in Seq(T), x \in T : s = Append(r, x)
        BY <2>1, SequenceEmptyOrAppend
    <2>3. Len(r) = n
        BY <2>2, AppendProperties, LenProperties
    <2> QED BY <2>2, <2>3
<1>3. N = Nat
    <2> HIDE DEF N
    <2>1. N \subseteq Nat
        BY DEF N
    <2> QED BY <1>1, <1>2, <2>1, Induction
<1> QED BY <1>3, LenProperties

-----------------------------------------------------------------------------
(* The elements of a sequence.                                             *)
LEMMA ElementsOfAppend ==
    ASSUME NEW T, NEW s \in Seq(T), NEW x \in T
    PROVE  ToSet(Append(s, x)) = ToSet(s) \union {x}
<1> DEFINE t == Append(s, x)
<1>1. /\ DOMAIN s = 1..Len(s) /\ Len(s) \in Nat
      /\ DOMAIN t = 1..(Len(s) + 1)
      /\ \A i \in 1..Len(s) : t[i] = s[i]
      /\ t[Len(s) + 1] = x
    BY AppendProperties, LenProperties
<1> HIDE DEF t
<1>2. \A i \in 1..(Len(s) + 1) : i \in 1..Len(s) \/ i = Len(s) + 1
    BY <1>1
<1>3. ToSet(t) = ToSet(s) \union {x}
    BY <1>1, <1>2 DEF ToSet
<1> QED BY <1>3 DEF t

LEMMA ElementsOfSequence ==
    ASSUME NEW T, NEW s \in Seq(T)
    PROVE  ToSet(s) \subseteq T /\ (ToSet(s) = {} <=> s = <<>>)
<1>1. DOMAIN s = 1..Len(s) /\ Len(s) \in Nat
    BY LenProperties
<1>2. ToSet(s) \subseteq T
    BY <1>1, ElementOfSeq DEF ToSet
<1>3. s # <<>> => 1 \in DOMAIN s
    BY <1>1, EmptySeq
<1>4. s = <<>> => ToSet(s) = {}
    BY DEF ToSet
<1> QED BY <1>2, <1>3, <1>4 DEF ToSet

LEMMA InjectiveAppend ==
    ASSUME NEW T, NEW s \in Seq(T), NEW x \in T
    PROVE  IsInjective(Append(s, x)) <=> IsInjective(s) /\ x \notin ToSet(s)
<1> DEFINE t == Append(s, x)
<1>1. /\ DOMAIN s = 1..Len(s) /\ Len(s) \in Nat
      /\ DOMAIN t = 1..(Len(s) + 1)
      /\ \A i \in 1..Len(s) : t[i] = s[i]
      /\ t[Len(s) + 1] = x
    BY AppendProperties, LenProperties
<1> HIDE DEF t
<1>2. \A i \in 1..(Len(s) + 1) : i \in 1..Len(s) \/ i = Len(s) + 1
    BY <1>1
<1>3. IsInjective(t) => IsInjective(s) /\ x \notin ToSet(s)
    BY <1>1 DEF ToSet, IsInjective
<1>4. IsInjective(s) /\ x \notin ToSet(s) => IsInjective(t)
    <2> SUFFICES ASSUME IsInjective(s), x \notin ToSet(s),
                        NEW i \in DOMAIN t, NEW j \in DOMAIN t, t[i] = t[j]
                 PROVE  i = j
        BY DEF IsInjective
    <2>1. \A k \in 1..Len(s) : s[k] # x
        BY <1>1 DEF ToSet
    <2>2. CASE i \in 1..Len(s) /\ j \in 1..Len(s)
        BY <1>1, <2>2 DEF IsInjective
    <2> QED BY <1>1, <1>2, <2>1, <2>2
<1> QED BY <1>3, <1>4 DEF t

-----------------------------------------------------------------------------
(* What is retained of a sequence.                                         *)
LEMMA RetainingUnfolds ==
    ASSUME NEW q, NEW S, Len(q) \in Nat
    PROVE  Retaining(q, S) =
             [n \in 0..Len(q) |->
                IF n = 0 THEN <<>>
                ELSE IF q[n] \in S THEN Append(Retaining(q, S)[n - 1], q[n])
                ELSE Retaining(q, S)[n - 1]]
<1> DEFINE More(r, n) == IF q[n] \in S THEN Append(r, q[n]) ELSE r
           Solves(f, m) == f = [n \in 0..m |-> IF n = 0 THEN <<>> ELSE More(f[n - 1], n)]
           N == {m \in Nat : \E f : Solves(f, m)}
<1> HIDE DEF More
<1>1. 0 \in N
    <2>1. Solves([n \in 0..0 |-> <<>>], 0)
        OBVIOUS
    <2> QED BY <2>1
<1>2. ASSUME NEW m \in N PROVE m + 1 \in N
    <2>1. PICK f : Solves(f, m)
        OBVIOUS
    <2> DEFINE g == [n \in 0..(m + 1) |-> IF n <= m THEN f[n] ELSE More(f[m], n)]
    <2>2. \A n \in 0..(m + 1) : g[n] = IF n = 0 THEN <<>> ELSE More(g[n - 1], n)
        BY <2>1
    <2>3. Solves(g, m + 1)
        BY <2>2
    <2>4. \E h : Solves(h, m + 1)
        <3> HIDE DEF g
        <3> QED BY <2>3
    <2> QED BY <2>4
<1>3. Len(q) \in N
    BY <1>1, <1>2, Induction
<1>4. \E f : Solves(f, Len(q))
    BY <1>3
<1> QED BY <1>4 DEF Retaining, More

LEMMA RetainingStep ==
    ASSUME NEW q, NEW S, Len(q) \in Nat
    PROVE  /\ Retaining(q, S)[0] = <<>>
           /\ \A n \in 1..Len(q) :
                Retaining(q, S)[n] = IF q[n] \in S THEN Append(Retaining(q, S)[n - 1], q[n])
                                     ELSE Retaining(q, S)[n - 1]
<1> DEFINE R == Retaining(q, S)
           More(r, n) == IF q[n] \in S THEN Append(r, q[n]) ELSE r
<1>1. R = [n \in 0..Len(q) |-> IF n = 0 THEN <<>> ELSE More(R[n - 1], n)]
    BY RetainingUnfolds
<1> HIDE DEF R, More
<1>2. R[0] = <<>> /\ \A n \in 1..Len(q) : R[n] = More(R[n - 1], n)
    BY <1>1
<1> QED BY <1>2 DEF R, More

LEMMA RetainedEmpty ==
    ASSUME NEW S
    PROVE  Retained(<<>>, S) = <<>>
BY RetainingStep, EmptySeq DEF Retained

LEMMA RetainedAppend ==
    ASSUME NEW T, NEW s \in Seq(T), NEW x \in T, NEW S
    PROVE  Retained(Append(s, x), S) =
             IF x \in S THEN Append(Retained(s, S), x) ELSE Retained(s, S)
<1> DEFINE t == Append(s, x)
           N == {n \in Nat : n <= Len(s) => Retaining(t, S)[n] = Retaining(s, S)[n]}
<1>1. /\ Len(s) \in Nat
      /\ Len(t) = Len(s) + 1
      /\ \A i \in 1..Len(s) : t[i] = s[i]
      /\ t[Len(s) + 1] = x
    BY AppendProperties, LenProperties
<1> HIDE DEF t
<1>2. /\ Retaining(t, S)[0] = <<>>
      /\ \A n \in 1..Len(t) :
           Retaining(t, S)[n] = IF t[n] \in S THEN Append(Retaining(t, S)[n - 1], t[n])
                                ELSE Retaining(t, S)[n - 1]
    BY <1>1, RetainingStep
<1>3. /\ Retaining(s, S)[0] = <<>>
      /\ \A n \in 1..Len(s) :
           Retaining(s, S)[n] = IF s[n] \in S THEN Append(Retaining(s, S)[n - 1], s[n])
                                ELSE Retaining(s, S)[n - 1]
    BY <1>1, RetainingStep
<1>4. 0 \in N
    BY <1>2, <1>3
<1>5. ASSUME NEW n \in N PROVE n + 1 \in N
    <2> SUFFICES ASSUME n + 1 <= Len(s)
                 PROVE  Retaining(t, S)[n + 1] = Retaining(s, S)[n + 1]
        OBVIOUS
    <2>1. n + 1 \in 1..Len(s) /\ n + 1 \in 1..Len(t) /\ (n + 1) - 1 = n
        BY <1>1
    <2>2. Retaining(t, S)[n] = Retaining(s, S)[n] /\ t[n + 1] = s[n + 1]
        BY <1>1, <2>1
    <2> QED BY <1>2, <1>3, <2>1, <2>2
<1>6. Retaining(t, S)[Len(s)] = Retaining(s, S)[Len(s)]
    <2>1. N = Nat
        <3> HIDE DEF N
        <3>1. N \subseteq Nat
            BY DEF N
        <3> QED BY <1>4, <1>5, <3>1, Induction
    <2> QED BY <1>1, <2>1
<1>7. Len(s) + 1 \in 1..Len(t) /\ (Len(s) + 1) - 1 = Len(s)
    BY <1>1
<1>8. Retaining(t, S)[Len(t)] =
        IF x \in S THEN Append(Retaining(s, S)[Len(s)], x) ELSE Retaining(s, S)[Len(s)]
    BY <1>1, <1>2, <1>6, <1>7
<1> QED BY <1>8 DEF Retained, t

\* Its elements are those of both.
LEMMA RetainedElements ==
    ASSUME NEW T, NEW s \in Seq(T), NEW S
    PROVE  /\ Retained(s, S) \in Seq(T)
           /\ ToSet(Retained(s, S)) = ToSet(s) \intersect S
<1> DEFINE P == {q \in Seq(T) : /\ Retained(q, S) \in Seq(T)
                                /\ ToSet(Retained(q, S)) = ToSet(q) \intersect S}
<1>1. <<>> \in P
    BY RetainedEmpty, ElementsOfSequence, EmptySeq
<1>2. ASSUME NEW q \in P, NEW x \in T PROVE Append(q, x) \in P
    <2>1. /\ Append(q, x) \in Seq(T)
          /\ Append(Retained(q, S), x) \in Seq(T)
          /\ ToSet(Append(q, x)) = ToSet(q) \union {x}
          /\ ToSet(Append(Retained(q, S), x)) = ToSet(Retained(q, S)) \union {x}
        BY ElementsOfAppend, AppendProperties
    <2>2. Retained(Append(q, x), S) =
            IF x \in S THEN Append(Retained(q, S), x) ELSE Retained(q, S)
        BY RetainedAppend
    <2>3. CASE x \in S
        BY <2>1, <2>2, <2>3
    <2>4. CASE x \notin S
        BY <2>1, <2>2, <2>4
    <2> QED BY <2>3, <2>4
<1>3. P = Seq(T)
    <2> HIDE DEF P
    <2>1. P \subseteq Seq(T)
        BY DEF P
    <2> QED BY <1>1, <1>2, <2>1, SequenceInduction
<1> QED BY <1>3

LEMMA RetainedInjective ==
    ASSUME NEW T, NEW s \in Seq(T), NEW S, IsInjective(s)
    PROVE  IsInjective(Retained(s, S))
<1> DEFINE P == {q \in Seq(T) : IsInjective(q) => IsInjective(Retained(q, S))}
<1>1. <<>> \in P
    BY RetainedEmpty, EmptySeq
<1>2. ASSUME NEW q \in P, NEW x \in T PROVE Append(q, x) \in P
    <2>1. Append(q, x) \in Seq(T)
        BY AppendProperties
    <2>2. ASSUME IsInjective(Append(q, x)) PROVE IsInjective(Retained(Append(q, x), S))
        <3>1. IsInjective(q) /\ x \notin ToSet(q)
            BY <2>2, InjectiveAppend
        <3>2. /\ Retained(q, S) \in Seq(T)
              /\ IsInjective(Retained(q, S))
              /\ x \notin ToSet(Retained(q, S))
            BY <3>1, RetainedElements
        <3>3. IsInjective(Append(Retained(q, S), x))
            BY <3>2, InjectiveAppend
        <3> QED BY <3>2, <3>3, RetainedAppend
    <2> QED BY <2>1, <2>2
<1>3. P = Seq(T)
    <2> HIDE DEF P
    <2>1. P \subseteq Seq(T)
        BY DEF P
    <2> QED BY <1>1, <1>2, <2>1, SequenceInduction
<1> QED BY <1>3

-----------------------------------------------------------------------------
(* The plan.                                                               *)
\* The gates a plan may have.
SecretScan == Gate("secret_scan", "security", "security", "changed-content-secret-scan")
ImmutableBytes == Gate("integrity", "candidate", "inspection", "immutable-bytes")
Unavailable ==
    {Gate("unavailable", "database", "database", "real-integration"),
     Gate("unavailable", "browser", "browser", "affected-user-flow"),
     Gate("unavailable", "accessibility", "browser", "affected-user-flow"),
     Gate("unavailable", "security", "security", "dependency-vulnerability"),
     Gate("unavailable", "security", "security", "dependency-license"),
     Gate("unavailable", "package", "package", "production-artifact")}
PlanGate == {CommandGate(c) : c \in Command} \union {SecretScan, ImmutableBytes} \union Unavailable

LEMMA CommandsType ==
    ASSUME NEW p \in Projects
    PROVE  Commands(p) \in Seq(Command)
<1>1. p \in Project /\ ScriptCommands \in Seq(Command) /\ CargoCommands \in Seq(Command)
    BY ConstantsAssumption
<1>2. p.commands \in Seq(Command)
    BY <1>1 DEF Project
<1>3. Retained(ScriptCommands, {c \in ToSet(ScriptCommands) : c.text \in p.scripts}) \in Seq(Command)
    BY <1>1, RetainedElements
<1>4. (IF p.cargo THEN CargoCommands ELSE <<>>) \in Seq(Command)
    BY <1>1, EmptySeq
<1> QED BY <1>2, <1>3, <1>4, ConcatProperties DEF Commands

\* Of the commands with one invocation the first is kept, and only it.
LEMMA DistinctFacts ==
    ASSUME NEW cs \in Seq(Command)
    PROVE  LET ds == Distinct(cs) IN
           /\ ds \in Seq(Command) /\ Len(ds) <= Len(cs)
           /\ \A i \in 1..Len(ds) : ds[i] \in ToSet(cs)
           /\ \A i, j \in 1..Len(ds) : ds[i].words = ds[j].words => i = j
           /\ \A c \in ToSet(cs) : \E i \in 1..Len(ds) : ds[i].words = c.words
<1> DEFINE first == {i \in DOMAIN cs : \A j \in 1..(i - 1) : cs[j].words # cs[i].words}
           places == [i \in DOMAIN cs |-> i]
           order == Retained(places, first)
           ds == [i \in DOMAIN order |-> cs[order[i]]]
<1>1. DOMAIN cs = 1..Len(cs) /\ Len(cs) \in Nat /\ \A i \in DOMAIN cs : cs[i] \in Command
    BY LenProperties, ElementOfSeq
<1>2. /\ places \in Seq(1..Len(cs)) /\ Len(places) = Len(cs)
      /\ IsInjective(places) /\ ToSet(places) = 1..Len(cs)
    <2>1. places \in Seq(1..Len(cs)) /\ Len(places) = Len(cs)
        BY <1>1, IsASeq
    <2> QED BY <1>1, <2>1 DEF IsInjective, ToSet
<1> HIDE DEF places, first
<1>3. order \in Seq(1..Len(cs)) /\ ToSet(order) = first /\ IsInjective(order)
    <2>1. first \subseteq 1..Len(cs)
        BY <1>1 DEF first
    <2>2. /\ Retained(places, first) \in Seq(1..Len(cs))
          /\ ToSet(Retained(places, first)) = ToSet(places) \cap first
          /\ IsInjective(Retained(places, first))
        BY <1>2, RetainedElements, RetainedInjective
    <2> QED BY <1>2, <2>1, <2>2
<1> HIDE DEF order
<1>4. /\ DOMAIN order = 1..Len(order) /\ Len(order) \in Nat
      /\ \A i \in 1..Len(order) : order[i] \in 1..Len(cs) /\ order[i] \in first
    <2>1. DOMAIN order = 1..Len(order) /\ Len(order) \in Nat
        BY <1>3, LenProperties
    <2>2. \A i \in 1..Len(order) : order[i] \in ToSet(order)
        BY <2>1 DEF ToSet
    <2>3. first \subseteq 1..Len(cs)
        BY <1>1 DEF first
    <2> QED BY <1>3, <2>1, <2>2, <2>3
<1>5. ds \in Seq(Command) /\ Len(ds) = Len(order)
    BY <1>1, <1>4, IsASeq
<1>6. \A i \in 1..Len(ds) : ds[i] = cs[order[i]] /\ ds[i] \in ToSet(cs)
    BY <1>1, <1>4, <1>5 DEF ToSet
<1>7. Len(order) <= Len(cs)
    <2>1. order \in [1..Len(order) -> 1..Len(cs)]
        BY <1>3, <1>4
    <2>2. order \in Injection(1..Len(order), 1..Len(cs))
        BY <1>3, <2>1 DEF Injection
    <2>3. ASSUME NEW n \in Nat PROVE IsFiniteSet(1..n) /\ Cardinality(1..n) = n
        <3>1. /\ IsFiniteSet(1..n)
              /\ Cardinality(1..n) = IF 1 > n THEN 0 ELSE n - 1 + 1
            BY FS_Interval
        <3> QED BY <3>1
    <2>4. /\ IsFiniteSet(1..Len(cs)) /\ Cardinality(1..Len(cs)) = Len(cs)
          /\ Cardinality(1..Len(order)) = Len(order)
        BY <1>1, <1>4, <2>3
    <2> QED BY <2>2, <2>4, FS_Injection
<1>8. ASSUME NEW i \in 1..Len(ds), NEW j \in 1..Len(ds), ds[i].words = ds[j].words
      PROVE  i = j
    <2>1. order[i] \in first /\ order[j] \in first
        BY <1>4, <1>5
    <2>2. cs[order[i]].words = cs[order[j]].words
        BY <1>5, <1>6, <1>8
    <2>3. ~ (order[i] < order[j]) /\ ~ (order[j] < order[i])
        BY <1>1, <2>1, <2>2 DEF first
    <2>4. order[i] = order[j]
        BY <1>4, <1>5, <2>3
    <2> QED BY <1>3, <1>4, <1>5, <2>4 DEF IsInjective
<1>9. ASSUME NEW c \in ToSet(cs)
      PROVE  \E i \in 1..Len(ds) : ds[i].words = c.words
    <2> DEFINE S == {k \in 1..Len(cs) : cs[k].words = c.words}
    <2>1. S # {} /\ S \in SUBSET Nat
        BY <1>1 DEF ToSet
    <2>2. PICK k \in S : \A n \in S : k <= n
        BY <2>1, LeastNumber
    <2>3. k \in first
        BY <1>1, <2>2 DEF first
    <2>4. PICK i \in 1..Len(order) : order[i] = k
        BY <1>3, <1>4, <2>3 DEF ToSet
    <2> QED BY <1>5, <1>6, <2>2, <2>4
<1> HIDE DEF ds
<1>10. Distinct(cs) = ds
    BY DEF Distinct, ds, order, places, first
<1> QED BY <1>5, <1>6, <1>7, <1>8, <1>9, <1>10

\* The gates of the commands, in their order.
LEMMA CommandGatesFacts ==
    ASSUME NEW p \in Projects
    PROVE  LET ds == Distinct(Commands(p))
               gs == CommandGates(p)
           IN /\ Len(gs) = Len(ds) /\ gs \in Seq(PlanGate)
              /\ \A i \in 1..Len(gs) : gs[i] = CommandGate(ds[i])
<1> DEFINE ds == Distinct(Commands(p))
<1>1. ds \in Seq(Command)
    BY CommandsType, DistinctFacts
<1> HIDE DEF ds
<1>2. DOMAIN ds = 1..Len(ds) /\ Len(ds) \in Nat /\ \A i \in 1..Len(ds) : ds[i] \in Command
    BY <1>1, LenProperties, ElementOfSeq
<1>3. \A c \in Command : CommandGate(c) \in PlanGate
    BY DEF PlanGate
<1>4. CommandGates(p) = [i \in 1..Len(ds) |-> CommandGate(ds[i])]
    BY <1>2 DEF CommandGates, ds
<1>5. /\ CommandGates(p) \in Seq(PlanGate) /\ Len(CommandGates(p)) = Len(ds)
      /\ \A i \in 1..Len(ds) : CommandGates(p)[i] = CommandGate(ds[i])
    BY <1>2, <1>3, <1>4, IsASeq
<1> QED BY <1>5 DEF ds

\* A check that is called for is one gate more, at most.
LEMMA Joined ==
    ASSUME NEW T, NEW a \in Seq(T), NEW b \in Seq(T)
    PROVE  /\ a \o b \in Seq(T) /\ Len(a \o b) = Len(a) + Len(b)
           /\ ToSet(a \o b) = ToSet(a) \union ToSet(b)
<1>1. /\ Len(a) \in Nat /\ Len(b) \in Nat
      /\ DOMAIN a = 1..Len(a) /\ DOMAIN b = 1..Len(b)
    BY LenProperties
<1>2. /\ a \o b \in Seq(T) /\ Len(a \o b) = Len(a) + Len(b)
      /\ \A i \in 1..Len(a) : (a \o b)[i] = a[i]
      /\ \A i \in (Len(a) + 1)..(Len(a) + Len(b)) : (a \o b)[i] = b[i - Len(a)]
    BY <1>1, ConcatProperties
<1> DEFINE c == a \o b
<1>3. DOMAIN c = 1..(Len(a) + Len(b))
    BY <1>2, LenProperties
<1> HIDE DEF c
<1>4. \A i \in 1..Len(b) : c[i + Len(a)] = b[i] /\ i + Len(a) \in DOMAIN c
    BY <1>1, <1>2, <1>3 DEF c
<1>5. \A i \in 1..Len(a) : c[i] = a[i] /\ i \in DOMAIN c
    BY <1>1, <1>2, <1>3 DEF c
<1>6. \A i \in DOMAIN c : i \in 1..Len(a) \/ i - Len(a) \in 1..Len(b)
    BY <1>1, <1>3
<1>7. ASSUME NEW i \in DOMAIN c PROVE c[i] \in ToSet(a) \union ToSet(b)
    <2>1. CASE i \in 1..Len(a)
        BY <1>1, <1>5, <2>1 DEF ToSet
    <2>2. CASE i - Len(a) \in 1..Len(b)
        <3>1. c[i] = b[i - Len(a)]
            BY <1>1, <1>3, <1>4, <2>2
        <3> QED BY <1>1, <2>2, <3>1 DEF ToSet
    <2> QED BY <1>6, <2>1, <2>2
<1>8. ToSet(c) = ToSet(a) \union ToSet(b)
    BY <1>1, <1>4, <1>5, <1>7 DEF ToSet
<1> QED BY <1>2, <1>8 DEF c

LEMMA JoinedInjective ==
    ASSUME NEW T, NEW a \in Seq(T), NEW b \in Seq(T),
           IsInjective(a), IsInjective(b), ToSet(a) \intersect ToSet(b) = {}
    PROVE  IsInjective(a \o b)
<1>1. /\ Len(a) \in Nat /\ Len(b) \in Nat
      /\ DOMAIN a = 1..Len(a) /\ DOMAIN b = 1..Len(b)
    BY LenProperties
<1>2. /\ a \o b \in Seq(T) /\ Len(a \o b) = Len(a) + Len(b)
      /\ \A i \in 1..Len(a) : (a \o b)[i] = a[i]
      /\ \A i \in (Len(a) + 1)..(Len(a) + Len(b)) : (a \o b)[i] = b[i - Len(a)]
    BY <1>1, ConcatProperties
<1> DEFINE c == a \o b
<1>3. DOMAIN c = 1..(Len(a) + Len(b))
    BY <1>2, LenProperties
<1> HIDE DEF c
<1>4. \A i \in 1..Len(a) : c[i] = a[i] /\ c[i] \in ToSet(a)
    BY <1>1, <1>2 DEF c, ToSet
<1>5. ASSUME NEW i \in DOMAIN c, i \notin 1..Len(a)
      PROVE  i - Len(a) \in 1..Len(b) /\ c[i] = b[i - Len(a)] /\ c[i] \in ToSet(b)
    <2>1. i - Len(a) \in 1..Len(b) /\ c[i] = b[i - Len(a)]
        BY <1>1, <1>2, <1>3, <1>5 DEF c
    <2> QED BY <1>1, <2>1 DEF ToSet
<1>6. ASSUME NEW i \in DOMAIN c, NEW j \in DOMAIN c, c[i] = c[j]
      PROVE  i = j
    <2>1. CASE i \in 1..Len(a) /\ j \in 1..Len(a)
        BY <1>1, <1>4, <1>6, <2>1 DEF IsInjective
    <2>2. CASE i \notin 1..Len(a) /\ j \notin 1..Len(a)
        <3>1. i - Len(a) = j - Len(a)
            BY <1>1, <1>5, <1>6, <2>2 DEF IsInjective
        <3> QED BY <1>1, <1>3, <3>1
    <2> QED BY <1>4, <1>5, <1>6, <2>1, <2>2
<1>7. IsInjective(c)
    BY <1>6 DEF IsInjective
<1> QED BY <1>7 DEF c

\* A check that is called for is one gate more.
Gates(s, G, n) ==
    s \in Seq(Unavailable) /\ Len(s) <= n /\ ToSet(s) = G /\ IsInjective(s)
Called(needed, gate) == IF needed THEN <<gate>> ELSE <<>>

LEMMA CalledGates ==
    ASSUME NEW needed, NEW gate \in Unavailable
    PROVE  Gates(Called(needed, gate), IF needed THEN {gate} ELSE {}, 1)
<1>1. CASE needed
    <2>1. Gates(<<gate>>, {gate}, 1)
        BY DEF Gates, ToSet, IsInjective
    <2> QED BY <1>1, <2>1 DEF Called
<1>2. CASE ~needed
    <2>1. Gates(<<>>, {}, 1)
        BY DEF Gates, ToSet, IsInjective
    <2> QED BY <1>2, <2>1 DEF Called
<1> QED BY <1>1, <1>2

LEMMA OneMoreGate ==
    ASSUME NEW s, NEW G, NEW n \in Nat, Gates(s, G, n),
           NEW needed, NEW gate \in Unavailable, gate \notin G
    PROVE  Gates(s \o Called(needed, gate), G \union IF needed THEN {gate} ELSE {}, n + 1)
<1> DEFINE t == Called(needed, gate)
           H == IF needed THEN {gate} ELSE {}
<1>1. Gates(t, H, 1)
    BY CalledGates
<1>2. G \intersect H = {}
    OBVIOUS
<1> HIDE DEF t, H
<1>3. /\ s \in Seq(Unavailable) /\ t \in Seq(Unavailable)
      /\ Len(s) <= n /\ Len(t) <= 1 /\ Len(s) \in Nat /\ Len(t) \in Nat
      /\ ToSet(s) = G /\ ToSet(t) = H
      /\ IsInjective(s) /\ IsInjective(t)
    BY <1>1, LenProperties DEF Gates
<1>4. s \o t \in Seq(Unavailable) /\ Len(s \o t) = Len(s) + Len(t) /\ ToSet(s \o t) = G \union H
    BY <1>3, Joined
<1>5. IsInjective(s \o t)
    BY <1>2, <1>3, JoinedInjective
<1>6. Gates(s \o t, G \union H, n + 1)
    BY <1>3, <1>4, <1>5 DEF Gates
<1> QED BY <1>6 DEF t, H

\* The checks called for, each at most once.
MissingGates(p, gates) ==
    LET classes == {gates[i].class : i \in DOMAIN gates}
        kinds == {gates[i].kind : i \in DOMAIN gates}
        secured == {i \in DOMAIN gates :
                      gates[i].kind = "security" /\ gates[i].executor # "secret_scan"}
        one(needed, gate) == IF needed THEN {gate} ELSE {}
    IN one("database" \in p.scopes /\ "database" \notin kinds,
           Gate("unavailable", "database", "database", "real-integration"))
       \union one("ui" \in p.scopes /\ "browser" \notin kinds,
                  Gate("unavailable", "browser", "browser", "affected-user-flow"))
       \union one("ui" \in p.scopes /\ "accessibility" \notin classes,
                  Gate("unavailable", "accessibility", "browser", "affected-user-flow"))
       \union one("dependency" \in p.scopes /\ secured = {},
                  Gate("unavailable", "security", "security", "dependency-vulnerability"))
       \union one("dependency" \in p.scopes /\ \A i \in secured : "license" \notin gates[i].has,
                  Gate("unavailable", "security", "security", "dependency-license"))
       \union one(p.scopes \cap {"dependency", "packaging"} # {} /\ "package" \notin kinds,
                  Gate("unavailable", "package", "package", "production-artifact"))

LEMMA MissingFacts ==
    ASSUME NEW p, NEW gates
    PROVE  Gates(Missing(p, gates), MissingGates(p, gates), 6)
<1> DEFINE classes == {gates[i].class : i \in DOMAIN gates}
           kinds == {gates[i].kind : i \in DOMAIN gates}
           secured == {i \in DOMAIN gates :
                         gates[i].kind = "security" /\ gates[i].executor # "secret_scan"}
           n1 == "database" \in p.scopes /\ "database" \notin kinds
           n2 == "ui" \in p.scopes /\ "browser" \notin kinds
           n3 == "ui" \in p.scopes /\ "accessibility" \notin classes
           n4 == "dependency" \in p.scopes /\ secured = {}
           n5 == "dependency" \in p.scopes /\ \A i \in secured : "license" \notin gates[i].has
           n6 == p.scopes \cap {"dependency", "packaging"} # {} /\ "package" \notin kinds
           u1 == Gate("unavailable", "database", "database", "real-integration")
           u2 == Gate("unavailable", "browser", "browser", "affected-user-flow")
           u3 == Gate("unavailable", "accessibility", "browser", "affected-user-flow")
           u4 == Gate("unavailable", "security", "security", "dependency-vulnerability")
           u5 == Gate("unavailable", "security", "security", "dependency-license")
           u6 == Gate("unavailable", "package", "package", "production-artifact")
           Set(n, u) == IF n THEN {u} ELSE {}
           s1 == Called(n1, u1)
           G1 == Set(n1, u1)
           s2 == s1 \o Called(n2, u2)
           G2 == G1 \union Set(n2, u2)
           s3 == s2 \o Called(n3, u3)
           G3 == G2 \union Set(n3, u3)
           s4 == s3 \o Called(n4, u4)
           G4 == G3 \union Set(n4, u4)
           s5 == s4 \o Called(n5, u5)
           G5 == G4 \union Set(n5, u5)
           s6 == s5 \o Called(n6, u6)
           G6 == G5 \union Set(n6, u6)
<1>1. Missing(p, gates) = Called(n1, u1) \o Called(n2, u2) \o Called(n3, u3) \o Called(n4, u4)
                          \o Called(n5, u5) \o Called(n6, u6)
    BY DEF Missing, Called
<1>2. Unavailable = {u1, u2, u3, u4, u5, u6}
    BY DEF Unavailable
<1>3. /\ u1.class = "database" /\ u1.name = "real-integration"
      /\ u2.class = "browser" /\ u2.name = "affected-user-flow"
      /\ u3.class = "accessibility" /\ u3.name = "affected-user-flow"
      /\ u4.class = "security" /\ u4.name = "dependency-vulnerability"
      /\ u5.class = "security" /\ u5.name = "dependency-license"
      /\ u6.class = "package" /\ u6.name = "production-artifact"
    BY DEF Gate
<1>4. MissingGates(p, gates) = Set(n1, u1) \union Set(n2, u2) \union Set(n3, u3)
                               \union Set(n4, u4) \union Set(n5, u5) \union Set(n6, u6)
    BY DEF MissingGates
<1> HIDE DEF classes, kinds, secured, n1, n2, n3, n4, n5, n6, u1, u2, u3, u4, u5, u6
<1>6. Gates(s1, G1, 1)
    BY <1>2, CalledGates
<1>7. Gates(s2, G2, 2)
    <2>1. u2 \in Unavailable /\ u2 \notin G1
        BY <1>2, <1>3
    <2> HIDE DEF Set, s1, G1
    <2>2. Gates(s1 \o Called(n2, u2), G1 \union (IF n2 THEN {u2} ELSE {}), 1 + 1)
        BY <1>6, <2>1, OneMoreGate
    <2> QED BY <2>2 DEF Set
<1>8. Gates(s3, G3, 3)
    <2>1. u3 \in Unavailable /\ u3 \notin G2
        BY <1>2, <1>3
    <2> HIDE DEF Set, s2, G2
    <2>2. Gates(s2 \o Called(n3, u3), G2 \union (IF n3 THEN {u3} ELSE {}), 2 + 1)
        BY <1>7, <2>1, OneMoreGate
    <2> QED BY <2>2 DEF Set
<1>9. Gates(s4, G4, 4)
    <2>1. u4 \in Unavailable /\ u4 \notin G3
        BY <1>2, <1>3
    <2> HIDE DEF Set, s3, G3
    <2>2. Gates(s3 \o Called(n4, u4), G3 \union (IF n4 THEN {u4} ELSE {}), 3 + 1)
        BY <1>8, <2>1, OneMoreGate
    <2> QED BY <2>2 DEF Set
<1>10. Gates(s5, G5, 5)
    <2>1. u5 \in Unavailable /\ u5 \notin G4
        BY <1>2, <1>3
    <2> HIDE DEF Set, s4, G4
    <2>2. Gates(s4 \o Called(n5, u5), G4 \union (IF n5 THEN {u5} ELSE {}), 4 + 1)
        BY <1>9, <2>1, OneMoreGate
    <2> QED BY <2>2 DEF Set
<1>11. Gates(s6, G6, 6)
    <2>1. u6 \in Unavailable /\ u6 \notin G5
        BY <1>2, <1>3
    <2> HIDE DEF Set, s5, G5
    <2>2. Gates(s5 \o Called(n6, u6), G5 \union (IF n6 THEN {u6} ELSE {}), 5 + 1)
        BY <1>10, <2>1, OneMoreGate
    <2> QED BY <2>2 DEF Set
<1> QED BY <1>1, <1>4, <1>11

\* The commands, the scan, the check of integrity, and what is missing.
LEMMA PlanFacts ==
    ASSUME NEW p \in Projects
    PROVE  LET gates == Discover(p)
               k == Len(CommandGates(p))
               missing == Missing(p, FixedFirst(p))
           IN /\ k \in Nat /\ gates \in Seq(PlanGate)
              /\ k + 2 <= Len(gates) /\ Len(gates) <= k + 8 /\ Len(gates) \in Nat
              /\ DOMAIN gates = 1..Len(gates)
              /\ \A i \in 1..k : gates[i] = CommandGates(p)[i] /\ gates[i].executor = "command"
              /\ gates[k + 1] = SecretScan
              /\ gates[k + 2] = ImmutableBytes
              /\ DOMAIN FixedFirst(p) = 1..(k + 2)
              /\ \A i \in 1..(k + 2) : FixedFirst(p)[i] = gates[i]
              /\ Len(gates) = k + 2 + Len(missing) /\ Len(missing) \in Nat
              /\ \A i \in DOMAIN gates : i > k + 2 =>
                   /\ i - (k + 2) \in 1..Len(missing) /\ gates[i] = missing[i - (k + 2)]
                   /\ gates[i] \in Unavailable
<1> DEFINE commands == CommandGates(p)
           k == Len(commands)
           tail == <<SecretScan, ImmutableBytes>>
           first == commands \o tail
           missing == Missing(p, FixedFirst(p))
<1>1. /\ commands \in Seq(PlanGate) /\ k \in Nat
      /\ \A i \in 1..k : commands[i].executor = "command"
    <2>1. /\ commands \in Seq(PlanGate) /\ Len(commands) = Len(Distinct(Commands(p)))
          /\ \A i \in 1..Len(commands) : commands[i] = CommandGate(Distinct(Commands(p))[i])
        BY CommandGatesFacts
    <2>2. \A c : CommandGate(c).executor = "command"
        BY DEF CommandGate
    <2> HIDE DEF commands
    <2>3. k \in Nat
        BY <2>1, LenProperties
    <2>4. \A i \in 1..k : commands[i].executor = "command"
        BY <2>1, <2>2
    <2> QED BY <2>1, <2>3, <2>4
<1>2. FixedFirst(p) = first
    BY DEF FixedFirst, SecretScan, ImmutableBytes
<1>3. /\ missing \in Seq(Unavailable) /\ missing \in Seq(PlanGate)
      /\ Len(missing) \in Nat /\ Len(missing) <= 6
      /\ \A i \in 1..Len(missing) : missing[i] \in Unavailable
    <2>1. Gates(missing, MissingGates(p, FixedFirst(p)), 6)
        BY MissingFacts
    <2> HIDE DEF missing
    <2>2. missing \in Seq(Unavailable) /\ Len(missing) <= 6
        BY <2>1 DEF Gates
    <2>3. /\ Len(missing) \in Nat /\ missing \in [1..Len(missing) -> Unavailable]
        BY <2>2, LenProperties
    <2>4. missing \in Seq(PlanGate)
        <3>1. Unavailable \subseteq PlanGate
            BY DEF PlanGate
        <3> QED BY <2>2, <2>3, <3>1
    <2> QED BY <2>2, <2>3, <2>4
<1>4. tail \in Seq(PlanGate) /\ Len(tail) = 2 /\ tail[1] = SecretScan /\ tail[2] = ImmutableBytes
    BY DEF PlanGate
<1> HIDE DEF commands, tail, missing
<1>5. /\ first \in Seq(PlanGate) /\ Len(first) = k + 2
      /\ \A i \in 1..k : first[i] = commands[i]
      /\ first[k + 1] = SecretScan /\ first[k + 2] = ImmutableBytes
    <2>1. /\ first \in Seq(PlanGate) /\ Len(first) = k + 2
          /\ \A i \in 1..k : first[i] = commands[i]
          /\ \A i \in (k + 1)..(k + 2) : first[i] = tail[i - k]
        <3>1. /\ commands \o tail \in Seq(PlanGate)
              /\ Len(commands \o tail) = Len(commands) + Len(tail)
              /\ \A i \in 1..Len(commands) : (commands \o tail)[i] = commands[i]
              /\ \A i \in (Len(commands) + 1)..(Len(commands) + Len(tail)) :
                   (commands \o tail)[i] = tail[i - Len(commands)]
            <4>1. commands \in Seq(PlanGate) /\ tail \in Seq(PlanGate)
                BY <1>1, <1>4
            <4> HIDE DEF k
            <4> QED BY ONLY <4>1, ConcatProperties
        <3>2. Len(tail) = 2
            BY <1>4
        <3> QED BY <3>1, <3>2 DEF first
    <2>2. /\ k + 1 \in (k + 1)..(k + 2) /\ k + 2 \in (k + 1)..(k + 2)
          /\ (k + 1) - k = 1 /\ (k + 2) - k = 2
        BY <1>1
    <2> QED BY <1>4, <2>1, <2>2
<1> DEFINE gates == first \o missing
<1> HIDE DEF first
<1>6. /\ gates \in Seq(PlanGate) /\ Len(gates) = k + 2 + Len(missing)
      /\ \A i \in 1..(k + 2) : gates[i] = first[i]
      /\ \A i \in (k + 3)..(k + 2 + Len(missing)) : gates[i] = missing[i - (k + 2)]
    <2>1. /\ gates \in Seq(PlanGate) /\ Len(gates) = Len(first) + Len(missing)
          /\ \A i \in 1..Len(first) : gates[i] = first[i]
          /\ \A i \in (Len(first) + 1)..(Len(first) + Len(missing)) :
               gates[i] = missing[i - Len(first)]
        BY <1>3, <1>5, ConcatProperties
    <2> HIDE DEF gates
    <2>2. \A i \in (k + 3)..(k + 2 + Len(missing)) :
            i \in (Len(first) + 1)..(Len(first) + Len(missing)) /\ i - Len(first) = i - (k + 2)
        BY <1>1, <1>3, <1>5
    <2> QED BY <1>1, <1>5, <2>1, <2>2
<1> HIDE DEF gates
<1>7. DOMAIN gates = 1..Len(gates)
    BY <1>6, LenProperties
<1>8. /\ \A i \in 1..k : gates[i] = commands[i] /\ gates[i].executor = "command"
      /\ gates[k + 1] = SecretScan /\ gates[k + 2] = ImmutableBytes
    <2>1. \A i \in 1..k : i \in 1..(k + 2)
        BY <1>1
    <2>2. k + 1 \in 1..(k + 2) /\ k + 2 \in 1..(k + 2)
        BY <1>1
    <2> QED BY <1>1, <1>5, <1>6, <2>1, <2>2
<1>9. ASSUME NEW i \in DOMAIN gates, i > k + 2
      PROVE  /\ i - (k + 2) \in 1..Len(missing) /\ gates[i] = missing[i - (k + 2)]
             /\ gates[i] \in Unavailable
    <2>1. i - (k + 2) \in 1..Len(missing) /\ i \in (k + 3)..(k + 2 + Len(missing))
        BY <1>1, <1>3, <1>6, <1>7, <1>9
    <2>2. gates[i] = missing[i - (k + 2)]
        BY <1>6, <2>1
    <2> QED BY <1>3, <2>1, <2>2
<1>10. Discover(p) = gates /\ FixedFirst(p) = first
    BY <1>2 DEF Discover, gates, missing
<1>11. k + 2 <= Len(gates) /\ Len(gates) <= k + 8 /\ Len(gates) \in Nat
    BY <1>1, <1>3, <1>6
<1>12. /\ gates \in Seq(PlanGate) /\ Len(gates) = k + 2 + Len(missing)
    BY <1>6
<1>13. DOMAIN first = 1..(k + 2)
    BY <1>5, LenProperties
<1> QED BY <1>1, <1>3, <1>6, <1>7, <1>8, <1>9, <1>10, <1>11, <1>12, <1>13 DEF commands, missing

LEMMA ExecutorOfPlan ==
    ASSUME NEW p \in Projects, NEW i \in DOMAIN Discover(p)
    PROVE  /\ Discover(p)[i].executor = "command" <=> i <= Len(CommandGates(p))
           /\ Discover(p)[i].executor = "integrity" <=> i = Len(CommandGates(p)) + 2
           /\ Discover(p)[i].executor = "unavailable" <=> i > Len(CommandGates(p)) + 2
<1> DEFINE k == Len(CommandGates(p))
           g == Discover(p)
<1>1. /\ k \in Nat /\ Len(g) \in Nat /\ DOMAIN g = 1..Len(g)
      /\ \A j \in 1..k : g[j].executor = "command"
      /\ g[k + 1] = SecretScan /\ g[k + 2] = ImmutableBytes
      /\ \A j \in DOMAIN g : j > k + 2 => g[j] \in Unavailable
    BY PlanFacts
<1> HIDE DEF k, g
<1>2. SecretScan.executor = "secret_scan" /\ ImmutableBytes.executor = "integrity"
    BY DEF SecretScan, ImmutableBytes, Gate
<1>3. \A u \in Unavailable : u.executor = "unavailable"
    BY DEF Unavailable, Gate
<1>4. i \in DOMAIN g
    BY DEF g
<1>5. i \in 1..k \/ i = k + 1 \/ i = k + 2 \/ i > k + 2
    BY <1>1, <1>4
<1>6. CASE i \in 1..k
    BY <1>1, <1>6 DEF g, k
<1>7. CASE i = k + 1
    BY <1>1, <1>2, <1>7 DEF g, k
<1>8. CASE i = k + 2
    BY <1>1, <1>2, <1>8 DEF g, k
<1>9. CASE i > k + 2
    BY <1>1, <1>3, <1>4, <1>9 DEF g, k
<1> QED BY <1>5, <1>6, <1>7, <1>8, <1>9

\* What is missing is in the plan, and nothing else is behind the fixed gates.
LEMMA MissingInPlan ==
    ASSUME NEW p \in Projects
    PROVE  /\ \A u \in MissingGates(p, FixedFirst(p)) :
                \E i \in DOMAIN Discover(p) : Discover(p)[i] = u
           /\ \A i \in DOMAIN Discover(p) :
                i > Len(CommandGates(p)) + 2 => Discover(p)[i] \in MissingGates(p, FixedFirst(p))
           /\ \A i, j \in DOMAIN Discover(p) :
                /\ i > Len(CommandGates(p)) + 2 /\ j > Len(CommandGates(p)) + 2
                /\ Discover(p)[i] = Discover(p)[j]
                => i = j
<1> DEFINE g == Discover(p)
           k == Len(CommandGates(p))
           missing == Missing(p, FixedFirst(p))
           M == MissingGates(p, FixedFirst(p))
<1>1. Gates(missing, M, 6)
    BY MissingFacts
<1>2. /\ k \in Nat /\ DOMAIN g = 1..Len(g)
      /\ Len(g) = k + 2 + Len(missing) /\ Len(missing) \in Nat
      /\ \A i \in DOMAIN g : i > k + 2 =>
           i - (k + 2) \in 1..Len(missing) /\ g[i] = missing[i - (k + 2)]
    BY PlanFacts
<1> HIDE DEF g, k, missing, M
<1>3. DOMAIN missing = 1..Len(missing) /\ ToSet(missing) = M /\ IsInjective(missing)
    BY <1>1, LenProperties DEF Gates
<1>4. \A j \in 1..Len(missing) :
        j + (k + 2) \in DOMAIN g /\ j + (k + 2) > k + 2 /\ (j + (k + 2)) - (k + 2) = j
    BY <1>2
<1>5. \A u \in M : \E i \in DOMAIN g : g[i] = u
    BY <1>2, <1>3, <1>4 DEF ToSet
<1>6. \A i \in DOMAIN g : i > k + 2 => g[i] \in M
    BY <1>2, <1>3 DEF ToSet
<1>7. ASSUME NEW i \in DOMAIN g, NEW j \in DOMAIN g, i > k + 2, j > k + 2, g[i] = g[j]
      PROVE  i = j
    <2>1. /\ i - (k + 2) \in DOMAIN missing /\ j - (k + 2) \in DOMAIN missing
          /\ missing[i - (k + 2)] = missing[j - (k + 2)]
        BY <1>2, <1>3, <1>7
    <2>2. i - (k + 2) = j - (k + 2)
        BY <1>3, <2>1 DEF IsInjective
    <2> QED BY <1>2, <2>2
<1> QED BY <1>5, <1>6, <1>7 DEF g, k, M

\* A kind that the scopes call for has a gate.
LEMMA ScopesProvided ==
    ASSUME NEW p \in Projects
    PROVE  LET gates == Discover(p)
               provided(kind) == \E i \in DOMAIN gates :
                                   gates[i].kind = kind /\ gates[i].executor # "secret_scan"
           IN /\ "database" \in p.scopes => provided("database")
              /\ "ui" \in p.scopes =>
                   provided("browser") /\ \E i \in DOMAIN gates : gates[i].class = "accessibility"
              /\ "dependency" \in p.scopes => provided("security") /\ provided("package")
              /\ "packaging" \in p.scopes => provided("package")
<1> DEFINE g == Discover(p)
           f == FixedFirst(p)
           k == Len(CommandGates(p))
           provided(kind) == \E i \in DOMAIN g : g[i].kind = kind /\ g[i].executor # "secret_scan"
           M == MissingGates(p, f)
<1>1. /\ k \in Nat /\ Len(g) \in Nat /\ DOMAIN g = 1..Len(g) /\ k + 2 <= Len(g)
      /\ DOMAIN f = 1..(k + 2) /\ \A i \in 1..(k + 2) : f[i] = g[i]
      /\ g[k + 1] = SecretScan /\ g[k + 2] = ImmutableBytes
    BY PlanFacts
<1>2. \A u \in M : \E i \in DOMAIN g : g[i] = u
    BY MissingInPlan
<1>3. \A i \in DOMAIN g : g[i].executor = "command" <=> i <= k
    BY ExecutorOfPlan
<1> HIDE DEF g, f, k
<1>4. \A i \in DOMAIN f : i \in DOMAIN g /\ f[i] = g[i]
    BY <1>1
<1>5. \A i \in DOMAIN f : f[i].kind # "security" => f[i].executor # "secret_scan"
    <2>1. \A i \in DOMAIN f : i <= k \/ i = k + 1 \/ i = k + 2
        BY <1>1
    <2>2. /\ SecretScan.kind = "security" /\ ImmutableBytes.executor = "integrity"
        BY DEF SecretScan, ImmutableBytes, Gate
    <2>3. \A i \in DOMAIN f : i <= k => f[i].executor = "command"
        BY <1>3, <1>4
    <2>4. \A i \in DOMAIN f : i = k + 1 => f[i] = SecretScan
        BY <1>1
    <2>5. \A i \in DOMAIN f : i = k + 2 => f[i] = ImmutableBytes
        BY <1>1
    <2> QED BY <2>1, <2>2, <2>3, <2>4, <2>5
<1> DEFINE classes == {f[i].class : i \in DOMAIN f}
           kinds == {f[i].kind : i \in DOMAIN f}
           secured == {i \in DOMAIN f : f[i].kind = "security" /\ f[i].executor # "secret_scan"}
           u1 == Gate("unavailable", "database", "database", "real-integration")
           u2 == Gate("unavailable", "browser", "browser", "affected-user-flow")
           u3 == Gate("unavailable", "accessibility", "browser", "affected-user-flow")
           u4 == Gate("unavailable", "security", "security", "dependency-vulnerability")
           u6 == Gate("unavailable", "package", "package", "production-artifact")
<1>6. /\ "database" \in p.scopes /\ "database" \notin kinds => u1 \in M
      /\ "ui" \in p.scopes /\ "browser" \notin kinds => u2 \in M
      /\ "ui" \in p.scopes /\ "accessibility" \notin classes => u3 \in M
      /\ "dependency" \in p.scopes /\ secured = {} => u4 \in M
      /\ p.scopes \cap {"dependency", "packaging"} # {} /\ "package" \notin kinds => u6 \in M
    BY DEF MissingGates
<1>7. /\ u1.kind = "database" /\ u1.executor = "unavailable"
      /\ u2.kind = "browser" /\ u2.executor = "unavailable"
      /\ u3.class = "accessibility"
      /\ u4.kind = "security" /\ u4.executor = "unavailable"
      /\ u6.kind = "package" /\ u6.executor = "unavailable"
    BY DEF Gate
<1> HIDE DEF M, u1, u2, u3, u4, u6
<1>8. ASSUME NEW kind, kind # "security", kind \in kinds PROVE provided(kind)
    BY <1>4, <1>5, <1>8
<1>9. ASSUME NEW u \in M, u.executor = "unavailable" PROVE provided(u.kind)
    BY <1>2, <1>9
<1>10. "database" \in p.scopes => provided("database")
    BY <1>6, <1>7, <1>8, <1>9
<1>11. "ui" \in p.scopes => provided("browser")
    BY <1>6, <1>7, <1>8, <1>9
<1>12. "ui" \in p.scopes => \E i \in DOMAIN g : g[i].class = "accessibility"
    BY <1>2, <1>4, <1>6, <1>7
<1>13. "dependency" \in p.scopes => provided("security")
    <2>1. secured # {} => provided("security")
        BY <1>4
    <2> HIDE DEF secured
    <2> QED BY <1>6, <1>7, <1>9, <2>1
<1>14. p.scopes \cap {"dependency", "packaging"} # {} => provided("package")
    BY <1>6, <1>7, <1>8, <1>9
<1>15. /\ "dependency" \in p.scopes => p.scopes \cap {"dependency", "packaging"} # {}
       /\ "packaging" \in p.scopes => p.scopes \cap {"dependency", "packaging"} # {}
    OBVIOUS
<1> HIDE DEF provided
<1>16. /\ "database" \in p.scopes => provided("database")
       /\ "ui" \in p.scopes =>
            provided("browser") /\ \E i \in DOMAIN g : g[i].class = "accessibility"
       /\ "dependency" \in p.scopes => provided("security") /\ provided("package")
       /\ "packaging" \in p.scopes => provided("package")
    BY <1>10, <1>11, <1>12, <1>13, <1>14, <1>15
<1> QED BY <1>16 DEF g, provided

\* Every command is run once, whatever its text.
LEMMA CommandsRunOnce ==
    ASSUME NEW p \in Projects
    PROVE  LET gates == Discover(p)
               ran == {i \in DOMAIN gates : gates[i].executor = "command"}
               commands == ToSet(Commands(p))
           IN /\ {gates[i].name : i \in ran} \subseteq {command.text : command \in commands}
              /\ Cardinality(ran) = Cardinality({command.words : command \in commands})
<1> DEFINE g == Discover(p)
           k == Len(CommandGates(p))
           ds == Distinct(Commands(p))
           ran == {i \in DOMAIN g : g[i].executor = "command"}
           commands == ToSet(Commands(p))
           W == {command.words : command \in commands}
           words == [i \in 1..k |-> ds[i].words]
<1>1. /\ k \in Nat /\ Len(g) \in Nat /\ DOMAIN g = 1..Len(g) /\ k + 2 <= Len(g)
      /\ \A i \in 1..k : g[i] = CommandGates(p)[i]
    BY PlanFacts
<1>2. \A i \in DOMAIN g : g[i].executor = "command" <=> i <= k
    BY ExecutorOfPlan
<1>3. k = Len(ds) /\ \A i \in 1..k : CommandGates(p)[i] = CommandGate(ds[i])
    BY CommandGatesFacts
<1>4. /\ \A i \in 1..k : ds[i] \in commands
      /\ \A i, j \in 1..k : ds[i].words = ds[j].words => i = j
      /\ \A c \in commands : \E i \in 1..k : ds[i].words = c.words
    BY <1>3, CommandsType, DistinctFacts
<1> HIDE DEF g, k, ds, commands
<1>5. ran = 1..k
    BY <1>1, <1>2
<1>6. \A i \in 1..k : g[i].name = ds[i].text
    <2>1. \A i \in 1..k : g[i] = CommandGate(ds[i])
        BY <1>1, <1>3
    <2>2. \A c : CommandGate(c).name = c.text
        BY DEF CommandGate
    <2> QED BY <2>1, <2>2
<1>7. words \in Bijection(1..k, W)
    <2>1. words \in [1..k -> W]
        BY <1>4
    <2>2. words \in Injection(1..k, W)
        BY <1>4, <2>1 DEF Injection, IsInjective
    <2>3. words \in Surjection(1..k, W)
        BY <1>4, <2>1 DEF Surjection
    <2> QED BY <2>2, <2>3 DEF Bijection
<1>8. IsFiniteSet(1..k)
    BY <1>1, FS_Interval
<1>9. Cardinality(1..k) = Cardinality(W)
    <2>1. ExistsBijection(1..k, W)
        BY <1>7 DEF ExistsBijection
    <2> HIDE DEF W
    <2> QED BY <1>8, <2>1, FS_Bijection
<1>10. {g[i].name : i \in ran} \subseteq {command.text : command \in commands}
    BY <1>4, <1>5, <1>6
<1> QED BY <1>5, <1>9, <1>10 DEF g, commands

-----------------------------------------------------------------------------
(* A plan is refused for nothing but its commands: of a project whose       *)
(* commands leave room for the other gates, whose words follow from their  *)
(* texts, and of which none has the name of a gate that is no command.     *)
Orderly(p) ==
    /\ Len(Commands(p)) <= 248
    /\ \A c, d \in ToSet(Commands(p)) : c.text = d.text => c.words = d.words
    /\ \A c \in ToSet(Commands(p)) :
         c.text \notin {"changed-content-secret-scan", "dependency-license"}

LEMMA ClassOfCommand ==
    ASSUME NEW c
    PROVE  Classify(c) # "candidate"
<1> DEFINE found == {i \in DOMAIN Classes : Classes[i] \in c.has}
<1>1. CASE found = {}
    BY <1>1 DEF Classify
<1>2. CASE found # {}
    <2>1. found \subseteq 1..8 /\ found \in SUBSET Nat
        BY DEF Classes
    <2>2. PICK m \in found : \A n \in found : m <= n
        BY <1>2, <2>1, LeastNumber
    <2>3. Min(found) \in 1..8
        BY <2>1, <2>2 DEF Min
    <2>4. Classify(c) = Classes[Min(found)]
        BY <1>2 DEF Classify
    <2> HIDE DEF found
    <2>5. \A i \in 1..8 : Classes[i] # "candidate"
        BY DEF Classes
    <2> QED BY <2>3, <2>4, <2>5
<1> QED BY <1>1, <1>2

\* A command does not have class and name of a check that is missing.
LEMMA MissingIsNoCommand ==
    ASSUME NEW p \in Projects, Orderly(p),
           NEW i \in 1..Len(CommandGates(p)),
           NEW u \in MissingGates(p, FixedFirst(p))
    PROVE  ~ (Discover(p)[i].class = u.class /\ Discover(p)[i].name = u.name)
<1> DEFINE g == Discover(p)
           f == FixedFirst(p)
           k == Len(CommandGates(p))
           ds == Distinct(Commands(p))
           classes == {f[j].class : j \in DOMAIN f}
           kinds == {f[j].kind : j \in DOMAIN f}
           secured == {j \in DOMAIN f : f[j].kind = "security" /\ f[j].executor # "secret_scan"}
           u1 == Gate("unavailable", "database", "database", "real-integration")
           u2 == Gate("unavailable", "browser", "browser", "affected-user-flow")
           u3 == Gate("unavailable", "accessibility", "browser", "affected-user-flow")
           u4 == Gate("unavailable", "security", "security", "dependency-vulnerability")
           u5 == Gate("unavailable", "security", "security", "dependency-license")
           u6 == Gate("unavailable", "package", "package", "production-artifact")
<1> SUFFICES ASSUME g[i].class = u.class, g[i].name = u.name PROVE FALSE
    OBVIOUS
<1>1. /\ k \in Nat /\ DOMAIN f = 1..(k + 2) /\ f[i] = g[i] /\ i \in DOMAIN f
      /\ g[i] = CommandGate(ds[i])
    <2>1. /\ k \in Nat /\ DOMAIN f = 1..(k + 2) /\ \A j \in 1..(k + 2) : f[j] = g[j]
          /\ \A j \in 1..k : g[j] = CommandGates(p)[j]
        BY PlanFacts
    <2>2. CommandGates(p)[i] = CommandGate(ds[i])
        BY CommandGatesFacts
    <2> HIDE DEF g, f, k, ds
    <2>3. i \in 1..k /\ i \in 1..(k + 2)
        BY <2>1 DEF k
    <2> QED BY <2>1, <2>2, <2>3
<1>2. ds[i].text \notin {"changed-content-secret-scan", "dependency-license"}
    <2>1. Len(CommandGates(p)) = Len(ds)
        BY CommandGatesFacts
    <2>2. ds[i] \in ToSet(Commands(p))
        BY <2>1, CommandsType, DistinctFacts
    <2> QED BY <2>2 DEF Orderly
<1>3. /\ g[i].name = ds[i].text /\ g[i].executor = "command"
      /\ g[i].kind = Kind(g[i].class)
    <2>1. \A c : /\ CommandGate(c).name = c.text /\ CommandGate(c).executor = "command"
                 /\ CommandGate(c).kind = Kind(CommandGate(c).class)
        BY DEF CommandGate
    <2> HIDE DEF g, ds
    <2> QED BY <1>1, <2>1
<1>4. /\ u = u1 => "database" \notin kinds
      /\ u = u2 => "browser" \notin kinds
      /\ u = u3 => "accessibility" \notin classes
      /\ u = u4 => secured = {}
      /\ u = u6 => "package" \notin kinds
      /\ u \in {u1, u2, u3, u4, u5, u6}
    <2> DEFINE n1 == "database" \in p.scopes /\ "database" \notin kinds
               n2 == "ui" \in p.scopes /\ "browser" \notin kinds
               n3 == "ui" \in p.scopes /\ "accessibility" \notin classes
               n4 == "dependency" \in p.scopes /\ secured = {}
               n5 == "dependency" \in p.scopes /\ \A j \in secured : "license" \notin f[j].has
               n6 == p.scopes \cap {"dependency", "packaging"} # {} /\ "package" \notin kinds
               Set(n, v) == IF n THEN {v} ELSE {}
    <2>1. MissingGates(p, f) = Set(n1, u1) \union Set(n2, u2) \union Set(n3, u3)
                               \union Set(n4, u4) \union Set(n5, u5) \union Set(n6, u6)
        BY DEF MissingGates
    <2>2. /\ u1.class = "database" /\ u2.class = "browser" /\ u3.class = "accessibility"
          /\ u4.name = "dependency-vulnerability" /\ u5.name = "dependency-license"
          /\ u6.class = "package" /\ u5.class = "security" /\ u4.class = "security"
        BY DEF Gate
    <2>3. /\ n1 => "database" \notin kinds
          /\ n2 => "browser" \notin kinds
          /\ n3 => "accessibility" \notin classes
          /\ n4 => secured = {}
          /\ n6 => "package" \notin kinds
        OBVIOUS
    <2>4. u \in MissingGates(p, f)
        OBVIOUS
    <2> HIDE DEF n1, n2, n3, n4, n5, n6, u1, u2, u3, u4, u5, u6, f, kinds, classes, secured
    <2> QED BY <2>1, <2>2, <2>3, <2>4
<1>5. /\ u1.class = "database" /\ u2.class = "browser" /\ u3.class = "accessibility"
      /\ u4.class = "security" /\ u5.name = "dependency-license" /\ u6.class = "package"
    BY DEF Gate
<1>6. f[i].class \in classes /\ f[i].kind \in kinds
    BY <1>1
<1>7. f[i].kind = "security" => i \in secured
    <2>1. f[i].executor # "secret_scan"
        BY <1>1, <1>3
    <2> QED BY <1>1, <2>1
<1>8. /\ f[i].class = g[i].class /\ f[i].kind = g[i].kind
    BY <1>1
<1> HIDE DEF g, f, classes, kinds, secured, u1, u2, u3, u4, u5, u6
<1>9. CASE u = u3
    BY <1>4, <1>5, <1>6, <1>8, <1>9 DEF g
<1>10. CASE u = u5
    BY <1>2, <1>3, <1>5, <1>10 DEF g
<1>11. CASE u = u1
    <2>1. g[i].kind = "database"
        BY <1>3, <1>5, <1>11 DEF g, Kind
    <2> QED BY <1>4, <1>6, <1>8, <1>11, <2>1
<1>12. CASE u = u2
    <2>1. g[i].kind = "browser"
        BY <1>3, <1>5, <1>12 DEF g, Kind
    <2> QED BY <1>4, <1>6, <1>8, <1>12, <2>1
<1>13. CASE u = u4
    <2>1. g[i].kind = "security"
        BY <1>3, <1>5, <1>13 DEF g, Kind
    <2> QED BY <1>4, <1>7, <1>8, <1>13, <2>1
<1>14. CASE u = u6
    <2>1. g[i].kind = "package"
        BY <1>3, <1>5, <1>14 DEF g, Kind
    <2> QED BY <1>4, <1>6, <1>8, <1>14, <2>1
<1> QED BY <1>4, <1>9, <1>10, <1>11, <1>12, <1>13, <1>14

LEMMA PlanIsValid ==
    ASSUME NEW p \in Projects, Orderly(p),
           \A command \in ToSet(Commands(p)) : command.safe
    PROVE  Valid(p, Discover(p))
<1> DEFINE g == Discover(p)
           k == Len(CommandGates(p))
           ds == Distinct(Commands(p))
           M == MissingGates(p, FixedFirst(p))
           Same(i, j) == g[i].class = g[j].class /\ g[i].name = g[j].name
<1>1. /\ k \in Nat /\ Len(g) \in Nat /\ DOMAIN g = 1..Len(g)
      /\ k + 2 <= Len(g) /\ Len(g) <= k + 8
      /\ \A i \in 1..k : g[i] = CommandGates(p)[i]
      /\ g[k + 1] = SecretScan /\ g[k + 2] = ImmutableBytes
      /\ \A i \in DOMAIN g : i > k + 2 => g[i] \in Unavailable
    BY PlanFacts
<1>2. /\ k = Len(ds) /\ \A i \in 1..k : CommandGates(p)[i] = CommandGate(ds[i])
    BY CommandGatesFacts
<1>3. /\ Len(ds) <= Len(Commands(p))
      /\ \A i \in 1..k : ds[i] \in ToSet(Commands(p))
      /\ \A i, j \in 1..k : ds[i].words = ds[j].words => i = j
    BY <1>2, CommandsType, DistinctFacts
<1>4. Len(g) <= 256
    <2>1. Len(Commands(p)) \in Nat /\ Len(Commands(p)) <= 248
        BY CommandsType, LenProperties DEF Orderly
    <2> HIDE DEF g, k, ds
    <2> QED BY <1>1, <1>2, <1>3, <2>1
<1>5. \A i \in 1..k : /\ g[i].name = ds[i].text
                      /\ g[i].name \notin {"changed-content-secret-scan", "dependency-license"}
                      /\ g[i].class # "candidate"
    <2>1. \A c : CommandGate(c).name = c.text /\ CommandGate(c).class = Classify(c)
        BY DEF CommandGate
    <2>2. \A c : Classify(c) # "candidate"
        BY ClassOfCommand
    <2> HIDE DEF g, k, ds
    <2> QED BY <1>1, <1>2, <1>3, <2>1, <2>2 DEF Orderly
<1>6. \A i \in 1..k, u \in M : ~ (g[i].class = u.class /\ g[i].name = u.name)
    BY MissingIsNoCommand
<1>7. /\ \A i \in DOMAIN g : i > k + 2 => g[i] \in M
      /\ \A i, j \in DOMAIN g : i > k + 2 /\ j > k + 2 /\ g[i] = g[j] => i = j
    BY MissingInPlan
<1>8. /\ SecretScan.class = "security" /\ SecretScan.name = "changed-content-secret-scan"
      /\ ImmutableBytes.class = "candidate"
    BY DEF SecretScan, ImmutableBytes, Gate
<1>9. /\ \A u \in Unavailable : u.name # "changed-content-secret-scan" /\ u.class # "candidate"
      /\ \A u, v \in Unavailable : u.class = v.class /\ u.name = v.name => u = v
    BY DEF Unavailable, Gate
<1> HIDE DEF g, k, M
<1>10. ASSUME NEW i \in 1..k, NEW j \in 1..k, Same(i, j) PROVE i = j
    BY <1>3, <1>5, <1>10 DEF Orderly
<1>11. ASSUME NEW i \in 1..k, NEW j \in DOMAIN g, j > k PROVE ~Same(i, j)
    <2>1. j = k + 1 \/ j = k + 2 \/ j > k + 2
        BY <1>1, <1>11
    <2> QED BY <1>1, <1>5, <1>6, <1>7, <1>8, <2>1
<1>12. ASSUME NEW i \in DOMAIN g, NEW j \in DOMAIN g, i > k, j > k, Same(i, j) PROVE i = j
    <2>1. (i = k + 1 \/ i = k + 2 \/ i > k + 2) /\ (j = k + 1 \/ j = k + 2 \/ j > k + 2)
        BY <1>1, <1>12
    <2>2. CASE i > k + 2 /\ j > k + 2
        <3>1. g[i] = g[j]
            BY <1>1, <1>9, <1>12, <2>2
        <3> QED BY <1>7, <2>2, <3>1
    <2> QED BY <1>1, <1>8, <1>9, <1>12, <2>1, <2>2
<1>13. ASSUME NEW i \in DOMAIN g, NEW j \in DOMAIN g, Same(i, j) PROVE i = j
    <2>1. (i \in 1..k \/ i > k) /\ (j \in 1..k \/ j > k)
        BY <1>1
    <2>2. Same(j, i)
        BY <1>13
    <2> HIDE DEF Same
    <2> QED BY <1>10, <1>11, <1>12, <1>13, <2>1, <2>2
<1>14. IsInjective([i \in DOMAIN g |-> <<g[i].class, g[i].name>>])
    BY <1>13 DEF IsInjective
<1> QED BY <1>4, <1>14 DEF Valid, g

-----------------------------------------------------------------------------
(* What a receipt attests.                                                 *)
LEMMA PositionsUnfold ==
    ASSUME NEW q, NEW ops, Len(ops) \in Nat
    PROVE  Positions(q, ops) =
             [n \in 0..Len(ops) |->
                IF n = 0 THEN 0
                ELSE IF Positions(q, ops)[n - 1] < Len(q)
                        /\ ops[n] = q[Positions(q, ops)[n - 1] + 1]
                THEN Positions(q, ops)[n - 1] + 1 ELSE Positions(q, ops)[n - 1]]
<1> DEFINE More(r, n) == IF r < Len(q) /\ ops[n] = q[r + 1] THEN r + 1 ELSE r
           Solves(f, m) == f = [n \in 0..m |-> IF n = 0 THEN 0 ELSE More(f[n - 1], n)]
           N == {m \in Nat : \E f : Solves(f, m)}
<1> HIDE DEF More
<1>1. 0 \in N
    <2>1. Solves([n \in 0..0 |-> 0], 0)
        OBVIOUS
    <2> QED BY <2>1
<1>2. ASSUME NEW m \in N PROVE m + 1 \in N
    <2>1. PICK f : Solves(f, m)
        OBVIOUS
    <2> DEFINE g == [n \in 0..(m + 1) |-> IF n <= m THEN f[n] ELSE More(f[m], n)]
    <2>2. \A n \in 0..(m + 1) : g[n] = IF n = 0 THEN 0 ELSE More(g[n - 1], n)
        BY <2>1
    <2>3. Solves(g, m + 1)
        BY <2>2
    <2>4. \E h : Solves(h, m + 1)
        <3> HIDE DEF g
        <3> QED BY <2>3
    <2> HIDE DEF Solves
    <2> QED BY <2>4
<1>3. Len(ops) \in N
    BY <1>1, <1>2, Induction
<1>4. \E f : Solves(f, Len(ops))
    BY <1>3
<1> QED BY <1>4 DEF Positions, More

\* As many of the required operations as were met have places in order.
LEMMA PositionsPlace ==
    ASSUME NEW q, NEW ops, Len(ops) \in Nat, Len(q) \in Nat
    PROVE  \E place \in [1..Position(q, ops) -> 1..Len(ops)] :
             \A k \in 1..Position(q, ops) :
               ops[place[k]] = q[k] /\ (k > 1 => place[k - 1] < place[k])
<1> DEFINE met == Positions(q, ops)
           Placed(place, r, n) ==
             /\ place \in [1..r -> 1..n]
             /\ \A k \in 1..r : ops[place[k]] = q[k] /\ (k > 1 => place[k - 1] < place[k])
           N == {n \in Nat : n <= Len(ops) =>
                               /\ met[n] \in Nat
                               /\ \E place : Placed(place, met[n], n)}
<1>1. /\ met[0] = 0
      /\ \A n \in 1..Len(ops) :
           met[n] = IF met[n - 1] < Len(q) /\ ops[n] = q[met[n - 1] + 1]
                    THEN met[n - 1] + 1 ELSE met[n - 1]
    <2> DEFINE More(r, n) == IF r < Len(q) /\ ops[n] = q[r + 1] THEN r + 1 ELSE r
    <2>1. met = [n \in 0..Len(ops) |-> IF n = 0 THEN 0 ELSE More(met[n - 1], n)]
        BY PositionsUnfold
    <2> HIDE DEF met, More
    <2>2. met[0] = 0 /\ \A n \in 1..Len(ops) : met[n] = More(met[n - 1], n)
        BY <2>1
    <2> QED BY <2>2 DEF More
<1> HIDE DEF met
<1>2. 0 \in N
    <2>1. Placed([k \in 1..0 |-> 1], 0, 0)
        OBVIOUS
    <2>2. \E place : Placed(place, met[0], 0)
        BY <1>1, <2>1
    <2> HIDE DEF Placed
    <2> QED BY <1>1, <2>2
<1>3. ASSUME NEW n \in N PROVE n + 1 \in N
    <2> HIDE DEF Placed
    <2> SUFFICES ASSUME n + 1 <= Len(ops)
                 PROVE  /\ met[n + 1] \in Nat
                        /\ \E place : Placed(place, met[n + 1], n + 1)
        OBVIOUS
    <2>1. n + 1 \in 1..Len(ops) /\ (n + 1) - 1 = n /\ n \in Nat
        BY DEF N
    <2>2. met[n] \in Nat /\ \E place : Placed(place, met[n], n)
        BY <2>1
    <2>3. PICK place : Placed(place, met[n], n)
        BY <2>2
    <2>4. met[n + 1] = IF met[n] < Len(q) /\ ops[n + 1] = q[met[n] + 1]
                       THEN met[n] + 1 ELSE met[n]
        BY <1>1, <2>1
    <2>5. CASE met[n] < Len(q) /\ ops[n + 1] = q[met[n] + 1]
        <3> DEFINE r == met[n]
                   more == [k \in 1..(r + 1) |-> IF k = r + 1 THEN n + 1 ELSE place[k]]
        <3>1. r \in Nat /\ ops[n + 1] = q[r + 1] /\ met[n + 1] = r + 1
            BY <2>2, <2>4, <2>5
        <3>2. /\ place \in [1..r -> 1..n]
              /\ \A k \in 1..r : ops[place[k]] = q[k] /\ (k > 1 => place[k - 1] < place[k])
            BY <2>3 DEF Placed
        <3> HIDE DEF r
        <3>3. more \in [1..(r + 1) -> 1..(n + 1)]
            BY <2>1, <3>1, <3>2
        <3>4. ASSUME NEW k \in 1..(r + 1)
              PROVE  ops[more[k]] = q[k] /\ (k > 1 => more[k - 1] < more[k])
            <4>1. CASE k = r + 1
                <5>1. more[k] = n + 1 /\ ops[more[k]] = q[k]
                    BY <3>1, <4>1
                <5>2. k > 1 => k - 1 \in 1..r /\ more[k - 1] = place[k - 1]
                    BY <3>1, <4>1
                <5> QED BY <2>1, <3>2, <5>1, <5>2
            <4>2. CASE k \in 1..r
                <5>1. more[k] = place[k] /\ (k > 1 => more[k - 1] = place[k - 1])
                    BY <3>1, <4>2
                <5> QED BY <3>2, <4>2, <5>1
            <4> QED BY <3>1, <4>1, <4>2
        <3>5. Placed(more, r + 1, n + 1)
            BY <3>3, <3>4 DEF Placed
        <3> HIDE DEF more
        <3>6. \E h : Placed(h, r + 1, n + 1)
            BY <3>5
        <3> QED BY <3>1, <3>6
    <2>6. CASE ~(met[n] < Len(q) /\ ops[n + 1] = q[met[n] + 1])
        <3>1. met[n + 1] = met[n]
            BY <2>4, <2>6
        <3>2. Placed(place, met[n], n + 1)
            <4>1. 1..n \subseteq 1..(n + 1)
                BY <2>1
            <4>2. place \in [1..met[n] -> 1..(n + 1)]
                BY <2>3, <4>1 DEF Placed
            <4> QED BY <2>3, <4>2 DEF Placed
        <3> QED BY <2>2, <3>1, <3>2
    <2> QED BY <2>5, <2>6
<1>4. N = Nat
    <2> HIDE DEF N
    <2>1. N \subseteq Nat
        BY DEF N
    <2> QED BY <1>2, <1>3, <2>1, Induction
<1>5. \E place : Placed(place, met[Len(ops)], Len(ops))
    BY <1>4
<1> QED BY <1>5 DEF Position, met

LEMMA AttestsInOrder ==
    ASSUME NEW a, a \in Receipt \/ a = None, NEW gate, Attests(a, gate)
    PROVE  /\ a.matches
           /\ \E place \in [DOMAIN Required(gate) -> DOMAIN a.operations] :
                \A k \in DOMAIN Required(gate) :
                  /\ a.operations[place[k]] = Required(gate)[k]
                  /\ k > 1 => place[k - 1] < place[k]
<1> DEFINE q == Required(gate)
           ops == a.operations
<1>1. a.matches /\ a \in Receipt /\ Position(q, ops) = Len(q) /\ q # None
    BY DEF Attests
<1>2. ops \in Seq(STRING)
    BY <1>1 DEF Receipt
<1>3. Len(ops) \in Nat /\ DOMAIN ops = 1..Len(ops)
    BY <1>2, LenProperties
<1>4. \/ q = <<"open", "check", "screenshot", "logs", "close">>
      \/ q = <<"open", "snapshot", "close">>
    BY <1>1 DEF Required
<1> HIDE DEF q, ops
<1>5. Len(q) \in Nat /\ DOMAIN q = 1..Len(q)
    BY <1>4
<1>6. \E place \in [1..Position(q, ops) -> 1..Len(ops)] :
        \A k \in 1..Position(q, ops) :
          ops[place[k]] = q[k] /\ (k > 1 => place[k - 1] < place[k])
    BY <1>3, <1>5, PositionsPlace
<1>7. \E place \in [DOMAIN q -> DOMAIN ops] :
        \A k \in DOMAIN q : ops[place[k]] = q[k] /\ (k > 1 => place[k - 1] < place[k])
    BY <1>1, <1>3, <1>5, <1>6
<1> QED BY <1>1, <1>7 DEF q, ops

-----------------------------------------------------------------------------
(* The inductive invariant.                                                *)

\* The gate of integrity is behind the commands and the scan.
Inspection == Len(CommandGates(project)) + 2

Planned == project \in Projects /\ plan = Discover(project)

\* Only a workflow that is past its execution has a candidate, which was read
\* in order from a worktree whose head only moves on.
CandidateFrozen ==
    IF workflow.at = "Execution"
    THEN candidate = None /\ \A s \in Slot : request[s].step \in {"idle", "freeze"}
    ELSE /\ candidate \in [1..2 -> 1..Revisions]
         /\ candidate[1] <= candidate[2] /\ candidate[2] <= head

\* What a request has read it read in order, and a verification after the
\* candidate was.
ReadInOrder(s) ==
    LET read == request[s].read IN
    /\ Len(read) <= 2
    /\ \A i \in DOMAIN read : read[i] <= head
    /\ Len(read) = 2 => read[1] <= read[2]
    /\ request[s].step \notin Reading => read = <<>>
    /\ request[s].step \in {"check", "integrity"} =>
         \A i \in DOMAIN read : candidate[2] <= read[i]

\* The results are those of the first gates, one of which is at work.
ResultsInOrder(s) ==
    LET done == Len(request[s].results) IN
    /\ request[s].step \in {"idle", "freeze", "check"} => request[s].results = <<>>
    /\ done <= Len(plan)
    /\ request[s].step = "running" => done < Len(plan) /\ plan[done + 1].executor = "command"
    /\ request[s].step = "integrity" => done < Len(plan) /\ plan[done + 1].executor = "integrity"

Attested(s) ==
    \A i \in DOMAIN request[s].results :
      plan[i].executor = "unavailable" /\ request[s].results[i] = "Passed" =>
        Attests(request[s].attestation, plan[i])

\* What a command did is there until the gate of integrity, which fails on it.
SpoiledIsSeen(s) ==
    /\ request[s].step # "check"
    /\ request[s].step \in {"gates", "running", "integrity"} =>
         IF Len(request[s].results) < Inspection
         THEN /\ dirty \/ candidate[2] < head
              /\ request[s].read # <<>> => candidate[2] < request[s].read[1]
         ELSE request[s].results[Inspection] = "Failed"

\* The gates run only for a candidate that the check read again, so of one revision.
SlotInv(s) ==
    /\ ReadInOrder(s)
    /\ ResultsInOrder(s)
    /\ Attested(s)
    /\ request[s].step \in {"gates", "running", "integrity"} => candidate[1] = candidate[2]
    /\ s \in spoiled => SpoiledIsSeen(s)

IInv ==
    /\ TypeOK
    /\ Planned
    /\ CandidateFrozen
    /\ workflow.at = "Review" => candidate[1] = candidate[2]
    /\ \A s \in Slot : SlotInv(s)

-----------------------------------------------------------------------------
(* The steps of a request.                                                 *)
Request == [step : Reading \union {"idle", "gates", "running"},
            read : Seq(1..Revisions),
            attestation : Attestations \union {None},
            results : Seq(Status)]

Fields(step, read, attestation, results) ==
    [step |-> step, read |-> read, attestation |-> attestation, results |-> results]

\* Slot s becomes r.
Becomes(s, r) ==
    /\ request' = [request EXCEPT ![s] = r]
    /\ request'[s] = r
    /\ \A t \in Slot \ {s} : request'[t] = request[t]
    /\ r \in Request => request' \in [Slot -> Request]

LEMMA Becoming ==
    ASSUME TypeOK, NEW s \in Slot, NEW r, request' = [request EXCEPT ![s] = r]
    PROVE  Becomes(s, r)
BY DEF Becomes, TypeOK, Request

LEMMA RequestOfSlot ==
    ASSUME TypeOK, NEW s \in Slot
    PROVE  /\ request[s] \in Request
           /\ request[s] = Fields(request[s].step, request[s].read, request[s].attestation,
                                  request[s].results)
           /\ request[s].step \in Reading \union {"idle", "gates", "running"}
           /\ request[s].read \in Seq(1..Revisions)
           /\ request[s].attestation \in Attestations \union {None}
           /\ request[s].results \in Seq(Status)
           /\ Len(request[s].read) \in Nat /\ Len(request[s].results) \in Nat
           /\ DOMAIN request[s].read = 1..Len(request[s].read)
           /\ DOMAIN request[s].results = 1..Len(request[s].results)
<1>1. request[s] \in Request
    BY DEF TypeOK, Request
<1>2. request[s].read \in Seq(1..Revisions) /\ request[s].results \in Seq(Status)
    BY <1>1 DEF Request
<1>3. /\ request[s].step \in Reading \union {"idle", "gates", "running"}
      /\ request[s].attestation \in Attestations \union {None}
      /\ request[s] = Fields(request[s].step, request[s].read, request[s].attestation,
                             request[s].results)
    BY <1>1 DEF Request, Fields
<1> QED BY <1>1, <1>2, <1>3, LenProperties

LEMMA WithStep ==
    ASSUME NEW a, NEW b, NEW c, NEW d, NEW x
    PROVE  [Fields(a, b, c, d) EXCEPT !.step = x] = Fields(x, b, c, d)
<1> DEFINE r == Fields(a, b, c, d)
           q == Fields(x, b, c, d)
<1>1. [r EXCEPT !.step = x] = [f \in DOMAIN r |-> IF f = "step" THEN x ELSE r[f]]
    BY DEF Fields
<1>2. q = [f \in DOMAIN q |-> q[f]]
    BY DEF Fields
<1>3. \A f \in DOMAIN r : q[f] = IF f = "step" THEN x ELSE r[f]
    BY DEF Fields
<1>4. DOMAIN q = DOMAIN r
    BY DEF Fields
<1> HIDE DEF r, q
<1>5. [r EXCEPT !.step = x] = q
    BY <1>1, <1>2, <1>3, <1>4
<1> QED BY <1>5 DEF r, q

LEMMA WithoutRead ==
    ASSUME NEW a, NEW b, NEW c, NEW d
    PROVE  [Fields(a, b, c, d) EXCEPT !.read = <<>>] = Fields(a, <<>>, c, d)
BY DEF Fields

LEMMA WithRead ==
    ASSUME NEW a, NEW b, NEW c, NEW d, NEW x
    PROVE  [Fields(a, b, c, d) EXCEPT !.read = Append(@, x)] = Fields(a, Append(b, x), c, d)
BY DEF Fields

LEMMA WithAttestation ==
    ASSUME NEW a, NEW b, NEW c, NEW d, NEW x
    PROVE  [Fields(a, b, c, d) EXCEPT !.attestation = x] = Fields(a, b, x, d)
BY DEF Fields

LEMMA WithResult ==
    ASSUME NEW a, NEW b, NEW c, NEW d, NEW x
    PROVE  [Fields(a, b, c, d) EXCEPT !.results = Append(@, x)] = Fields(a, b, c, Append(d, x))
BY DEF Fields

LEMMA Stepping ==
    ASSUME TypeOK, NEW s \in Slot, NEW x \in Reading \union {"idle", "gates", "running"}, Step(s, x)
    PROVE  /\ Becomes(s, Fields(x, <<>>, request[s].attestation, request[s].results))
           /\ request' \in [Slot -> Request]
<1> DEFINE old == request[s]
           r == Fields(x, <<>>, old.attestation, old.results)
           m1 == [old EXCEPT !.step = x]
           m2 == [m1 EXCEPT !.read = <<>>]
<1>1. old = Fields(old.step, old.read, old.attestation, old.results)
    BY RequestOfSlot
<1>2. request' = [request EXCEPT ![s] = m2]
    <2>1. request \in [Slot -> Request]
        BY DEF TypeOK, Request
    <2> QED BY <2>1 DEF Step
<1>3. r \in Request
    BY RequestOfSlot, EmptySeq DEF Request, Fields
<1> HIDE DEF old
<1>4. m1 = Fields(x, old.read, old.attestation, old.results)
    BY <1>1, WithStep
<1> HIDE DEF m1
<1>5. m2 = r
    BY <1>4, WithoutRead
<1> HIDE DEF m2, r
<1>6. Becomes(s, r)
    BY <1>2, <1>5, Becoming
<1> QED BY <1>3, <1>6 DEF Becomes, old, r

LEMMA Recording ==
    ASSUME TypeOK, NEW s \in Slot, NEW x \in Status, Record(s, x)
    PROVE  /\ Becomes(s, Fields("gates", <<>>, request[s].attestation, Append(request[s].results, x)))
           /\ request' \in [Slot -> Request]
<1> DEFINE old == request[s]
           r == Fields("gates", <<>>, old.attestation, Append(old.results, x))
           m1 == [old EXCEPT !.step = "gates"]
           m2 == [m1 EXCEPT !.read = <<>>]
           m3 == [m2 EXCEPT !.results = Append(@, x)]
<1>1. old = Fields(old.step, old.read, old.attestation, old.results)
    BY RequestOfSlot
<1>2. request' = [request EXCEPT ![s] = m3]
    <2>1. request \in [Slot -> Request]
        BY DEF TypeOK, Request
    <2> QED BY <2>1 DEF Record
<1>3. r \in Request
    <2>1. Append(old.results, x) \in Seq(Status)
        BY RequestOfSlot, AppendProperties
    <2> QED BY <2>1, RequestOfSlot, EmptySeq DEF Request, Fields
<1> HIDE DEF old
<1>4. m1 = Fields("gates", old.read, old.attestation, old.results)
    BY <1>1, WithStep
<1> HIDE DEF m1
<1>5. m2 = Fields("gates", <<>>, old.attestation, old.results)
    BY <1>4, WithoutRead
<1> HIDE DEF m2
<1>6. m3 = r
    BY <1>5, WithResult
<1> HIDE DEF m3, r
<1>7. Becomes(s, r)
    BY <1>2, <1>6, Becoming
<1> QED BY <1>3, <1>7 DEF Becomes, old, r

LEMMA Answering ==
    ASSUME TypeOK, NEW s \in Slot, Answer(s)
    PROVE  Becomes(s, Idle) /\ request' \in [Slot -> Request]
<1>1. Becomes(s, Idle)
    BY Becoming DEF Answer
<1>2. Idle \in Request
    BY EmptySeq DEF Idle, Request
<1> QED BY <1>1, <1>2 DEF Becomes

\* What does not change for a slot whose request stays.
Moved ==
    /\ project' = project /\ plan' = plan /\ candidate' = candidate
    /\ head' \in 1..Revisions /\ head <= head'
    /\ dirty => dirty' \/ head < head'

LEMMA OtherSlots ==
    ASSUME IInv, Moved, NEW t \in Slot, request'[t] = request[t],
           t \in spoiled' => t \in spoiled
    PROVE  SlotInv(t)'
<1> DEFINE r == request[t]
<1>1. /\ r.read \in Seq(1..Revisions) /\ DOMAIN r.read = 1..Len(r.read) /\ Len(r.read) \in Nat
      /\ head \in 1..Revisions /\ head' \in 1..Revisions /\ Revisions \in Nat /\ head <= head'
    BY RequestOfSlot, ConstantsAssumption DEF IInv, TypeOK, Moved
<1>2. SlotInv(t)
    BY DEF IInv
<1>3. ReadInOrder(t)'
    <2>1. \A i \in DOMAIN r.read : r.read[i] \in 1..Revisions
        BY <1>1, ElementOfSeq
    <2>2. \A i \in DOMAIN r.read : r.read[i] <= head'
        BY <1>1, <1>2, <2>1 DEF SlotInv, ReadInOrder
    <2> QED BY <1>2, <2>2 DEF SlotInv, ReadInOrder, Moved
<1>4. ResultsInOrder(t)'
    BY <1>2 DEF SlotInv, ResultsInOrder, Moved
<1>5. Attested(t)'
    BY <1>2 DEF SlotInv, Attested, Moved
<1>6. Inspection' = Inspection
    BY DEF Inspection, Moved
<1>7. t \in spoiled' => SpoiledIsSeen(t)'
    <2> SUFFICES ASSUME t \in spoiled' PROVE SpoiledIsSeen(t)'
        OBVIOUS
    <2>1. SpoiledIsSeen(t)
        BY <1>2 DEF SlotInv
    <2>2. CASE r.step \in {"gates", "running", "integrity"}
        <3>1. candidate[2] \in 1..Revisions
            <4>1. workflow.at # "Execution"
                BY <2>2 DEF IInv, CandidateFrozen
            <4> QED BY <4>1 DEF IInv, CandidateFrozen
        <3>2. dirty \/ candidate[2] < head => dirty' \/ candidate'[2] < head'
            <4>1. candidate[2] <= head
                BY <2>2 DEF IInv, CandidateFrozen
            <4>2. CASE candidate[2] < head
                BY <1>1, <3>1, <4>2 DEF Moved
            <4>3. CASE dirty /\ head < head'
                BY <1>1, <3>1, <4>1, <4>3 DEF Moved
            <4>4. CASE dirty /\ dirty'
                BY <4>4
            <4>5. dirty => dirty' \/ head < head'
                BY DEF Moved
            <4> QED BY <4>2, <4>3, <4>4, <4>5
        <3> QED BY <1>6, <2>1, <3>2 DEF SpoiledIsSeen, Moved
    <2>3. CASE r.step \notin {"gates", "running", "integrity"}
        BY <2>1, <2>3 DEF SpoiledIsSeen
    <2> QED BY <2>2, <2>3
<1>8. r.step \in {"gates", "running", "integrity"} => candidate'[1] = candidate'[2]
    BY <1>2 DEF SlotInv, Moved
<1> QED BY <1>3, <1>4, <1>5, <1>7, <1>8 DEF SlotInv

\* A slot that is idle, or about to freeze.
LEMMA QuietSlot ==
    ASSUME NEW t, request'[t].step \in {"idle", "freeze"},
           request'[t].read = <<>>, request'[t].results = <<>>, Len(plan') \in Nat
    PROVE  SlotInv(t)'
BY DEF SlotInv, ReadInOrder, ResultsInOrder, Attested, SpoiledIsSeen

\* What the steps have in common that do not store a candidate.
WorkflowType == [at : {"Execution", "Verification", "Review", "Repair"}, blocked : BOOLEAN]
Followed ==
    /\ Moved
    /\ dirty' \in BOOLEAN /\ spoiled' \subseteq Slot
    /\ workflow' \in WorkflowType /\ keys' \subseteq {"passed", "blocked", "rejected"}
    /\ workflow'.at = "Execution" <=> workflow.at = "Execution"
    /\ workflow'.at = "Review" => candidate[1] = candidate[2]
    /\ evidence' \in [DOMAIN plan -> Status \union {None}]

LEMMA Following ==
    ASSUME IInv, Followed, request' \in [Slot -> Request],
           \A t \in Slot : SlotInv(t)',
           \A t \in Slot : request'[t].step \in {"idle", "freeze"} \/ workflow.at # "Execution"
    PROVE  IInv'
<1>1. TypeOK'
    BY DEF TypeOK, IInv, Followed, Moved, WorkflowType, Request
<1>2. Planned'
    BY DEF IInv, Planned, Followed, Moved
<1>3. CandidateFrozen'
    <2>1. head \in 1..Revisions /\ head' \in 1..Revisions /\ Revisions \in Nat /\ head <= head'
        BY ConstantsAssumption DEF IInv, TypeOK, Followed, Moved
    <2>2. CASE workflow.at = "Execution"
        BY <2>2 DEF IInv, CandidateFrozen, Followed, Moved
    <2>3. CASE workflow.at # "Execution"
        BY <2>1, <2>3 DEF IInv, CandidateFrozen, Followed, Moved
    <2> QED BY <2>2, <2>3
<1>4. workflow'.at = "Review" => candidate'[1] = candidate'[2]
    BY DEF Followed, Moved
<1> QED BY <1>1, <1>2, <1>3, <1>4 DEF IInv

\* One slot becomes r.
LEMMA SlotFollowing ==
    ASSUME IInv, Followed, NEW s \in Slot, NEW r, Becomes(s, r),
           request' \in [Slot -> Request], spoiled' \subseteq spoiled \union {s},
           r.step \in {"idle", "freeze"} \/ workflow.at # "Execution",
           SlotInv(s)'
    PROVE  IInv'
<1>1. ASSUME NEW t \in Slot, t # s PROVE SlotInv(t)'
    BY <1>1, OtherSlots DEF Becomes, Followed
<1>2. \A t \in Slot : SlotInv(t)'
    BY <1>1
<1>3. \A t \in Slot : request'[t].step \in {"idle", "freeze"} \/ workflow.at # "Execution"
    BY DEF IInv, CandidateFrozen, Becomes
<1> QED BY <1>2, <1>3, Following

LEMMA PlanLength ==
    ASSUME IInv
    PROVE  /\ Len(plan) \in Nat /\ DOMAIN plan = 1..Len(plan)
           /\ Inspection \in 1..Len(plan) /\ Inspection \in Nat
           /\ \A i \in DOMAIN plan :
                /\ plan[i].executor = "command" => i < Inspection
                /\ plan[i].executor = "integrity" <=> i = Inspection
                /\ plan[i].executor = "unavailable" <=> i > Inspection
<1>1. project \in Projects /\ plan = Discover(project)
    BY DEF IInv, Planned
<1> DEFINE k == Len(CommandGates(project))
<1>2. /\ k \in Nat /\ Len(Discover(project)) \in Nat
      /\ DOMAIN Discover(project) = 1..Len(Discover(project))
      /\ k + 2 <= Len(Discover(project))
    BY <1>1, PlanFacts
<1>3. /\ Len(plan) \in Nat /\ DOMAIN plan = 1..Len(plan) /\ k + 2 <= Len(plan)
    BY <1>1, <1>2
<1>4. ASSUME NEW i \in DOMAIN plan
      PROVE  /\ plan[i].executor = "command" <=> i <= k
             /\ plan[i].executor = "integrity" <=> i = k + 2
             /\ plan[i].executor = "unavailable" <=> i > k + 2
    BY <1>1, ExecutorOfPlan
<1> HIDE DEF k
<1>5. Inspection = k + 2
    BY DEF Inspection, k
<1>6. \A i \in DOMAIN plan : plan[i].executor = "command" => i < Inspection
    BY <1>2, <1>3, <1>4, <1>5
<1> QED BY <1>2, <1>3, <1>4, <1>5, <1>6

LEMMA AnswerFollowed ==
    ASSUME IInv, Followed, NEW s \in Slot, Answer(s), spoiled' = spoiled
    PROVE  IInv'
<1>1. TypeOK
    BY DEF IInv
<1>2. Becomes(s, Idle) /\ request' \in [Slot -> Request]
    BY <1>1, Answering
<1>3. request'[s] = Idle /\ Idle.step = "idle" /\ Idle.read = <<>> /\ Idle.results = <<>>
    BY <1>2 DEF Becomes, Idle
<1>4. Len(plan') \in Nat
    BY PlanLength DEF Followed, Moved
<1>5. SlotInv(s)'
    BY <1>3, <1>4, QuietSlot
<1> QED BY <1>2, <1>3, <1>5, SlotFollowing

\* Nothing changes but requests.
LEMMA StoredFollowed ==
    ASSUME IInv, UNCHANGED <<Stored, head, dirty>>, spoiled' \subseteq Slot
    PROVE  Followed
<1>1. /\ project' = project /\ plan' = plan /\ candidate' = candidate /\ workflow' = workflow
      /\ keys' = keys /\ evidence' = evidence /\ head' = head /\ dirty' = dirty
    BY DEF Stored
<1>2. /\ head \in 1..Revisions /\ dirty \in BOOLEAN /\ workflow \in WorkflowType
      /\ keys \subseteq {"passed", "blocked", "rejected"}
      /\ evidence \in [DOMAIN plan -> Status \union {None}]
    BY DEF IInv, TypeOK, WorkflowType
<1>3. head <= head'
    BY <1>1, <1>2, ConstantsAssumption
<1>4. dirty => dirty'
    BY <1>1
<1>5. workflow'.at = "Review" => candidate[1] = candidate[2]
    BY <1>1 DEF IInv
<1>6. Moved
    BY <1>1, <1>2, <1>3, <1>4 DEF Moved
<1> QED BY <1>1, <1>2, <1>5, <1>6 DEF Followed

\* A result of the gate at work.
LEMMA RecordFollowed ==
    ASSUME IInv, UNCHANGED <<Stored, Worktree>>, NEW s \in Slot, NEW x \in Status, Record(s, x),
           request[s].step \in {"gates", "running", "integrity"},
           Len(request[s].results) < Len(plan),
           plan[Len(request[s].results) + 1].executor = "unavailable" /\ x = "Passed" =>
             Attests(request[s].attestation, plan[Len(request[s].results) + 1]),
           s \in spoiled /\ Len(request[s].results) + 1 = Inspection => x = "Failed"
    PROVE  IInv'
<1> DEFINE old == request[s]
           n == Len(old.results)
           r == Fields("gates", <<>>, old.attestation, Append(old.results, x))
<1>1. TypeOK
    BY DEF IInv
<1>2. Becomes(s, r) /\ request' \in [Slot -> Request]
    BY <1>1, Recording
<1>3. Followed
    <2>1. spoiled' \subseteq Slot
        BY DEF IInv, TypeOK, Worktree
    <2> QED BY <2>1, StoredFollowed DEF Worktree
<1>4. /\ plan' = plan /\ project' = project /\ candidate' = candidate
      /\ spoiled' = spoiled /\ head' = head /\ dirty' = dirty
    BY DEF Stored, Worktree
<1>5. /\ request'[s].step = "gates" /\ request'[s].read = <<>>
      /\ request'[s].attestation = old.attestation
      /\ request'[s].results = Append(old.results, x)
    <2>1. r.step = "gates" /\ r.read = <<>> /\ r.attestation = old.attestation
          /\ r.results = Append(old.results, x)
        BY DEF Fields
    <2> HIDE DEF r
    <2> QED BY <1>2, <2>1 DEF Becomes
<1>6. /\ n \in Nat /\ Len(Append(old.results, x)) = n + 1
      /\ DOMAIN old.results = 1..n
      /\ DOMAIN Append(old.results, x) = 1..(n + 1)
      /\ \A i \in 1..n : Append(old.results, x)[i] = old.results[i]
      /\ Append(old.results, x)[n + 1] = x
    <2>1. old.results \in Seq(Status)
        BY <1>1, RequestOfSlot
    <2> HIDE DEF old
    <2> QED BY <2>1, AppendProperties, LenProperties
<1>7. workflow.at # "Execution"
    BY DEF IInv, CandidateFrozen
<1>8. SlotInv(s)
    BY DEF IInv
<1> HIDE DEF r
<1>9. ReadInOrder(s)'
    BY <1>5, EmptySeq DEF ReadInOrder
<1>10. ResultsInOrder(s)'
    <2>1. Len(plan) \in Nat /\ n + 1 <= Len(plan)
        BY <1>6, PlanLength
    <2> HIDE DEF n
    <2> QED BY <1>4, <1>5, <1>6, <2>1 DEF ResultsInOrder
<1>11. Attested(s)'
    <2> SUFFICES ASSUME NEW i \in 1..(n + 1), plan[i].executor = "unavailable",
                        Append(old.results, x)[i] = "Passed"
                 PROVE  Attests(old.attestation, plan[i])
        BY <1>4, <1>5, <1>6 DEF Attested
    <2>1. CASE i = n + 1
        BY <1>6, <2>1
    <2>2. CASE i \in 1..n
        BY <1>6, <1>8, <2>2 DEF SlotInv, Attested
    <2> QED BY <1>6, <2>1, <2>2
<1>12. s \in spoiled => SpoiledIsSeen(s)'
    <2> SUFFICES ASSUME s \in spoiled PROVE SpoiledIsSeen(s)'
        OBVIOUS
    <2>1. SpoiledIsSeen(s)
        BY <1>8 DEF SlotInv
    <2>2. Inspection' = Inspection /\ Inspection \in Nat /\ Inspection > 0
        BY <1>4, PlanLength DEF Inspection
    <2>3. CASE n + 1 < Inspection
        <3>1. dirty \/ candidate[2] < head
            BY <1>6, <2>1, <2>2, <2>3 DEF SpoiledIsSeen
        <3> QED BY <1>4, <1>5, <1>6, <2>2, <2>3, <3>1 DEF SpoiledIsSeen
    <2>4. CASE n + 1 = Inspection
        BY <1>5, <1>6, <2>2, <2>4 DEF SpoiledIsSeen
    <2>5. CASE n + 1 > Inspection
        <3>1. old.results[Inspection] = "Failed"
            BY <1>6, <2>1, <2>2, <2>5 DEF SpoiledIsSeen
        <3>2. Append(old.results, x)[Inspection] = "Failed"
            BY <1>6, <2>2, <2>5, <3>1
        <3> QED BY <1>5, <1>6, <2>2, <2>5, <3>2 DEF SpoiledIsSeen
    <2> QED BY <1>6, <2>2, <2>3, <2>4, <2>5
<1>13. candidate'[1] = candidate'[2]
    BY <1>4, <1>8 DEF SlotInv
<1>14. SlotInv(s)'
    BY <1>4, <1>9, <1>10, <1>11, <1>12, <1>13 DEF SlotInv
<1> QED BY <1>2, <1>3, <1>4, <1>7, <1>14, SlotFollowing

\* The next gate is begun.
LEMMA GateBegun ==
    ASSUME IInv, UNCHANGED <<Stored, Worktree>>, NEW s \in Slot,
           request[s].step = "gates", Len(request[s].results) < Len(plan),
           NEW x \in {"integrity", "running"}, Step(s, x),
           plan[Len(request[s].results) + 1].executor =
             IF x = "integrity" THEN "integrity" ELSE "command"
    PROVE  IInv'
<1> DEFINE old == request[s]
           r == Fields(x, <<>>, old.attestation, old.results)
<1>1. TypeOK
    BY DEF IInv
<1>2. Becomes(s, r) /\ request' \in [Slot -> Request]
    BY <1>1, Stepping DEF Reading
<1>3. Followed
    <2>1. spoiled' \subseteq Slot
        BY DEF IInv, TypeOK, Worktree
    <2> QED BY <2>1, StoredFollowed DEF Worktree
<1>4. /\ plan' = plan /\ project' = project /\ candidate' = candidate
      /\ spoiled' = spoiled /\ head' = head /\ dirty' = dirty
    BY DEF Stored, Worktree
<1>5. /\ request'[s].step = x /\ request'[s].read = <<>>
      /\ request'[s].attestation = old.attestation /\ request'[s].results = old.results
    <2>1. r.step = x /\ r.read = <<>> /\ r.attestation = old.attestation /\ r.results = old.results
        BY DEF Fields
    <2> HIDE DEF r
    <2> QED BY <1>2, <2>1 DEF Becomes
<1>6. workflow.at # "Execution" /\ SlotInv(s)
    BY DEF IInv, CandidateFrozen
<1> HIDE DEF r
<1>7. ReadInOrder(s)'
    BY <1>5, EmptySeq DEF ReadInOrder
<1>8. ResultsInOrder(s)'
    BY <1>4, <1>5, <1>6 DEF ResultsInOrder, SlotInv
<1>9. Attested(s)'
    BY <1>4, <1>5, <1>6 DEF Attested, SlotInv
<1>10. s \in spoiled => SpoiledIsSeen(s)'
    <2>1. Inspection' = Inspection
        BY <1>4 DEF Inspection
    <2> QED BY <1>4, <1>5, <1>6, <2>1 DEF SpoiledIsSeen, SlotInv
<1>11. candidate'[1] = candidate'[2]
    BY <1>4, <1>6 DEF SlotInv
<1>12. SlotInv(s)'
    BY <1>4, <1>7, <1>8, <1>9, <1>10, <1>11 DEF SlotInv
<1> QED BY <1>2, <1>3, <1>4, <1>6, <1>12, SlotFollowing

-----------------------------------------------------------------------------
(* Each action preserves the invariant.                                    *)
LEMMA Initially ==
    ASSUME Init
    PROVE  IInv
<1>1. Revisions \in Nat /\ 1 \in 1..Revisions
    BY ConstantsAssumption
<1>2. \A s \in Slot : request[s] = Idle
    BY DEF Init
<1>3. Idle \in Request /\ Idle.step = "idle" /\ Idle.read = <<>> /\ Idle.results = <<>>
    BY EmptySeq DEF Idle, Request
<1>4. TypeOK
    <2>1. request \in [Slot -> Request]
        BY <1>3 DEF Init
    <2> QED BY <1>1, <2>1 DEF Init, TypeOK, Request
<1>5. Planned /\ CandidateFrozen
    BY <1>2, <1>3 DEF Init, Planned, CandidateFrozen
<1>6. Len(plan) \in Nat
    BY <1>5, PlanFacts DEF Planned
<1>7. ASSUME NEW s \in Slot PROVE SlotInv(s)
    BY <1>2, <1>3, <1>6
       DEF Init, SlotInv, ReadInOrder, ResultsInOrder, Attested, SpoiledIsSeen
<1>8. workflow.at # "Review"
    BY DEF Init
<1> QED BY <1>4, <1>5, <1>7, <1>8 DEF IInv

LEMMA StuttersKeep ==
    ASSUME IInv, UNCHANGED vars
    PROVE  IInv'
BY DEF IInv, TypeOK, Planned, CandidateFrozen, SlotInv, ReadInOrder, ResultsInOrder, Attested,
       SpoiledIsSeen, Inspection, vars

LEMMA FreezeBeginKeeps ==
    ASSUME IInv, NEW s \in Slot, FreezeBegin(s)
    PROVE  IInv'
<1> DEFINE r == Fields("freeze", <<>>, request[s].attestation, request[s].results)
<1>1. TypeOK /\ spoiled' \subseteq Slot /\ spoiled' = spoiled
    BY DEF IInv, TypeOK, FreezeBegin, Worktree
<1>2. Becomes(s, r) /\ request' \in [Slot -> Request]
    BY <1>1, Stepping DEF Reading, FreezeBegin
<1>3. Followed
    BY <1>1, StoredFollowed DEF FreezeBegin, Worktree
<1>4. r.step = "freeze" /\ r.read = <<>> /\ r.results = <<>>
    BY DEF Fields, FreezeBegin, Idle
<1> HIDE DEF r
<1>5. request'[s].step = "freeze" /\ request'[s].read = <<>> /\ request'[s].results = <<>>
    BY <1>2, <1>4 DEF Becomes
<1>6. Len(plan') \in Nat
    BY <1>3, PlanLength DEF Followed, Moved
<1>7. SlotInv(s)'
    BY <1>5, <1>6, QuietSlot
<1> QED BY <1>1, <1>2, <1>3, <1>4, <1>7, SlotFollowing

LEMMA ReadNextKeeps ==
    ASSUME IInv, NEW s \in Slot, ReadNext(s)
    PROVE  IInv'
<1> DEFINE old == request[s]
           r == Fields(old.step, Append(old.read, head), old.attestation, old.results)
<1>1. TypeOK /\ spoiled' \subseteq Slot /\ spoiled' = spoiled
    BY DEF IInv, TypeOK, ReadNext, Worktree
<1>2. Followed
    BY <1>1, StoredFollowed DEF ReadNext, Worktree
<1>3. CASE old.read = <<>> /\ dirty
    <2>1. Answer(s)
        BY <1>3 DEF ReadNext
    <2> QED BY <1>1, <1>2, <2>1, AnswerFollowed
<1>4. CASE ~(old.read = <<>> /\ dirty)
    <2>1. /\ old \in Request /\ old = Fields(old.step, old.read, old.attestation, old.results)
          /\ old.read \in Seq(1..Revisions) /\ Len(old.read) \in Nat
          /\ DOMAIN old.read = 1..Len(old.read)
        BY <1>1, RequestOfSlot
    <2>2. /\ old.step \in Reading /\ Len(old.read) < 2
          /\ request' = [request EXCEPT ![s].read = Append(@, head)]
        BY <1>4 DEF ReadNext
    <2> DEFINE m == [old EXCEPT !.read = Append(@, head)]
    <2>3. request' = [request EXCEPT ![s] = m]
        <3>1. request \in [Slot -> Request]
            BY <1>1 DEF TypeOK, Request
        <3> QED BY <2>2, <3>1
    <2>4. head \in 1..Revisions /\ Revisions \in Nat
        BY <1>1, ConstantsAssumption DEF TypeOK
    <2>5. r \in Request
        <3>1. Append(old.read, head) \in Seq(1..Revisions)
            BY <2>1, <2>4, AppendProperties
        <3> QED BY <2>1, <3>1 DEF Request, Fields
    <2>6. /\ r.step = old.step /\ r.read = Append(old.read, head)
          /\ r.attestation = old.attestation /\ r.results = old.results
        BY DEF Fields
    <2> HIDE DEF old
    <2>7. m = r
        BY <2>1, WithRead
    <2> HIDE DEF m, r
    <2>8. Becomes(s, r)
        BY <1>1, <2>3, <2>7, Becoming
    <2>9. request' \in [Slot -> Request] /\ request'[s] = r
        BY <2>5, <2>8 DEF Becomes
    <2>10. /\ Append(old.read, head) \in Seq(1..Revisions)
           /\ Len(Append(old.read, head)) = Len(old.read) + 1
           /\ DOMAIN Append(old.read, head) = 1..(Len(old.read) + 1)
           /\ \A i \in 1..Len(old.read) : Append(old.read, head)[i] = old.read[i]
           /\ Append(old.read, head)[Len(old.read) + 1] = head
           /\ \A i \in 1..Len(old.read) : old.read[i] \in 1..Revisions
        BY <2>1, <2>4, AppendProperties, LenProperties, ElementOfSeq
    <2>11. /\ plan' = plan /\ project' = project /\ candidate' = candidate
           /\ head' = head /\ dirty' = dirty /\ workflow' = workflow
        BY DEF ReadNext, Stored, Worktree
    <2>12. SlotInv(s)
        BY DEF IInv
    <2>13. workflow.at = "Execution" => old.step \in {"idle", "freeze"}
        BY DEF IInv, CandidateFrozen, old
    <2>14. old.step \in {"check", "integrity"} => candidate[2] \in 1..Revisions /\ candidate[2] <= head
        BY <2>13 DEF IInv, CandidateFrozen
    <2> DEFINE n == Len(old.read)
               more == Append(old.read, head)
    <2>15. ReadInOrder(s)
        BY <2>12 DEF SlotInv
    <2>16. ReadInOrder(s)'
        <3>1. \A i \in 1..(n + 1) : i \in 1..n \/ i = n + 1
            BY <2>1
        <3>2. Len(more) <= 2
            BY <2>1, <2>2, <2>10
        <3>3. \A i \in DOMAIN more : more[i] <= head
            BY <2>1, <2>4, <2>10, <2>15, <3>1 DEF ReadInOrder, old
        <3>4. Len(more) = 2 => more[1] <= more[2]
            <4> SUFFICES ASSUME Len(more) = 2 PROVE more[1] <= more[2]
                OBVIOUS
            <4>1. n = 1
                <5>1. Len(more) = n + 1 /\ n \in Nat
                    BY <2>1, <2>10
                <5> HIDE DEF more, n
                <5> QED BY <5>1
            <4>2. more[2] = head /\ 1 \in DOMAIN more
                BY <2>10, <4>1
            <4> QED BY <3>3, <4>2
        <3>5. old.step \in {"check", "integrity"} => \A i \in DOMAIN more : candidate[2] <= more[i]
            BY <2>1, <2>10, <2>14, <2>15, <3>1 DEF ReadInOrder, old
        <3> HIDE DEF more
        <3> QED BY <2>2, <2>6, <2>9, <2>11, <3>2, <3>3, <3>4, <3>5 DEF ReadInOrder, more
    <2>17. ResultsInOrder(s)'
        BY <2>6, <2>9, <2>11, <2>12 DEF SlotInv, ResultsInOrder, old
    <2>18. Attested(s)'
        BY <2>6, <2>9, <2>11, <2>12 DEF SlotInv, Attested, old
    <2>19. s \in spoiled' => SpoiledIsSeen(s)'
        <3> SUFFICES ASSUME s \in spoiled PROVE SpoiledIsSeen(s)'
            BY <1>1
        <3>1. SpoiledIsSeen(s)
            BY <2>12 DEF SlotInv
        <3>2. Inspection' = Inspection
            BY <2>11 DEF Inspection
        <3>3. CASE old.step = "integrity" /\ Len(old.results) < Inspection
            <4>1. dirty \/ candidate[2] < head
                BY <3>1, <3>3 DEF SpoiledIsSeen, old
            <4>2. candidate[2] < more[1]
                <5>1. CASE old.read = <<>>
                    <6>1. ~dirty
                        BY <1>4, <5>1
                    <6>2. n = 0
                        BY <5>1, EmptySeq
                    <6> QED BY <2>10, <4>1, <6>1, <6>2
                <5>2. CASE old.read # <<>>
                    <6>1. candidate[2] < old.read[1]
                        BY <3>1, <3>3, <5>2 DEF SpoiledIsSeen, old
                    <6>2. 1 \in 1..n
                        BY <2>1, <5>2, EmptySeq
                    <6> QED BY <2>10, <6>1, <6>2
                <5> QED BY <5>1, <5>2
            <4> HIDE DEF more
            <4> QED BY <2>6, <2>9, <2>11, <3>1, <3>2, <3>3, <4>1, <4>2 DEF SpoiledIsSeen, old, more
        <3>4. CASE old.step = "integrity" /\ ~(Len(old.results) < Inspection)
            BY <2>6, <2>9, <2>11, <3>1, <3>2, <3>4 DEF SpoiledIsSeen, old
        <3>5. CASE old.step \in {"freeze", "check"}
            BY <2>6, <2>9, <3>1, <3>5 DEF SpoiledIsSeen, old
        <3> QED BY <2>2, <3>3, <3>4, <3>5 DEF Reading
    <2>20. request'[s].step \in {"gates", "running", "integrity"} => candidate'[1] = candidate'[2]
        BY <2>6, <2>9, <2>11, <2>12 DEF SlotInv, old
    <2>21. SlotInv(s)'
        BY <2>16, <2>17, <2>18, <2>19, <2>20 DEF SlotInv
    <2> QED BY <1>1, <1>2, <2>6, <2>8, <2>9, <2>13, <2>21, SlotFollowing
<1> QED BY <1>3, <1>4

LEMMA ReadDoneKeeps ==
    ASSUME IInv, NEW s \in Slot, ReadDone(s)
    PROVE  IInv'
<1> DEFINE old == request[s]
<1>1. TypeOK /\ spoiled' \subseteq Slot /\ spoiled' = spoiled
    BY DEF IInv, TypeOK, ReadDone, Worktree
<1>2. Followed
    BY <1>1, StoredFollowed DEF ReadDone, Worktree
<1>3. /\ old.read \in Seq(1..Revisions) /\ Len(old.read) = 2 /\ DOMAIN old.read = 1..Len(old.read)
      /\ old.step \in {"check", "integrity"}
    BY <1>1, RequestOfSlot DEF ReadDone
<1>4. SlotInv(s) /\ workflow.at # "Execution"
    BY <1>3 DEF IInv, CandidateFrozen
<1>5. /\ candidate \in [1..2 -> 1..Revisions] /\ Revisions \in Nat
      /\ candidate[1] \in 1..Revisions /\ candidate[2] \in 1..Revisions
      /\ candidate[1] <= candidate[2]
    BY <1>4, ConstantsAssumption DEF IInv, CandidateFrozen
<1>6. /\ old.read[1] \in 1..Revisions /\ old.read[2] \in 1..Revisions
      /\ candidate[2] <= old.read[1]
    <2>1. 1 \in DOMAIN old.read /\ 2 \in DOMAIN old.read
        BY <1>3
    <2>2. \A i \in DOMAIN old.read : candidate[2] <= old.read[i]
        BY <1>3, <1>4 DEF SlotInv, ReadInOrder
    <2> QED BY <1>3, <2>1, <2>2, ElementOfSeq
<1>7. UNCHANGED <<Stored, Worktree>>
    BY DEF ReadDone
<1>8. CASE Answer(s)
    BY <1>1, <1>2, <1>8, AnswerFollowed
<1>9. CASE old.step = "check" /\ old.read = candidate /\ Step(s, "gates")
    <2> DEFINE r == Fields("gates", <<>>, old.attestation, old.results)
    <2>1. Becomes(s, r) /\ request' \in [Slot -> Request]
        BY <1>1, <1>9, Stepping
    <2>2. r.step = "gates" /\ r.read = <<>> /\ r.results = old.results
        BY DEF Fields
    <2> HIDE DEF r
    <2>3. request'[s].step = "gates" /\ request'[s].read = <<>> /\ request'[s].results = <<>>
        BY <1>4, <1>9, <2>1, <2>2 DEF Becomes, SlotInv, ResultsInOrder
    <2>4. candidate' = candidate /\ plan' = plan
        BY <1>7 DEF Stored
    <2>5. candidate[1] = candidate[2]
        BY <1>5, <1>6, <1>9
    <2>6. s \notin spoiled
        BY <1>4, <1>9 DEF SlotInv, SpoiledIsSeen
    <2>7. Len(plan') \in Nat
        BY <2>4, PlanLength
    <2>8. SlotInv(s)'
        BY <1>1, <2>3, <2>4, <2>5, <2>6, <2>7, EmptySeq
           DEF SlotInv, ReadInOrder, ResultsInOrder, Attested, Reading
    <2> QED BY <1>1, <1>2, <1>4, <2>1, <2>8, SlotFollowing
<1>10. CASE old.step = "integrity"
            /\ Record(s, IF old.read = candidate THEN "Passed" ELSE "Failed")
    <2> DEFINE x == IF old.read = candidate THEN "Passed" ELSE "Failed"
    <2>1. x \in Status
        BY DEF Status
    <2>2. /\ Len(old.results) < Len(plan)
          /\ plan[Len(old.results) + 1].executor = "integrity"
        BY <1>4, <1>10 DEF SlotInv, ResultsInOrder
    <2>3. Len(old.results) + 1 = Inspection
        <3>1. Len(old.results) + 1 \in DOMAIN plan
            BY <1>1, <2>2, PlanLength, RequestOfSlot
        <3> QED BY <2>2, <3>1, PlanLength
    <2>4. s \in spoiled => x = "Failed"
        <3> SUFFICES ASSUME s \in spoiled PROVE old.read # candidate
            OBVIOUS
        <3>1. Len(old.results) < Inspection
            BY <1>1, <2>3, RequestOfSlot
        <3>2. old.read # <<>>
            BY <1>3, EmptySeq
        <3>3. candidate[2] < old.read[1]
            BY <1>4, <1>10, <3>1, <3>2 DEF SlotInv, SpoiledIsSeen
        <3> QED BY <1>5, <1>6, <3>3
    <2> HIDE DEF x
    <2>5. Record(s, x)
        BY <1>10 DEF x
    <2>6. old.step = "integrity"
        BY <1>10
    <2>7. plan[Len(old.results) + 1].executor # "unavailable"
        BY <2>2
    <2> QED BY <1>7, <2>1, <2>2, <2>4, <2>5, <2>6, <2>7, RecordFollowed
<1> QED BY <1>3, <1>8, <1>9, <1>10 DEF ReadDone

LEMMA SaveCandidateKeeps ==
    ASSUME IInv, NEW s \in Slot, SaveCandidate(s)
    PROVE  IInv'
<1>1. TypeOK /\ spoiled' = spoiled
    BY DEF IInv, SaveCandidate, Worktree
<1>2. Becomes(s, Idle) /\ request' \in [Slot -> Request]
    BY <1>1, Answering DEF SaveCandidate
<1>3. Idle.step = "idle" /\ Idle.read = <<>> /\ Idle.results = <<>>
    BY DEF Idle
<1>4. CASE ~dirty /\ workflow = [at |-> "Execution", blocked |-> FALSE]
    <2> DEFINE read == request[s].read
    <2>1. /\ candidate' = read
          /\ workflow' = [workflow EXCEPT !.at = "Verification"]
          /\ Len(read) = 2 /\ request[s].step = "freeze"
          /\ plan' = plan /\ project' = project /\ keys' = keys /\ evidence' = evidence
          /\ head' = head /\ dirty' = dirty
        BY <1>4 DEF SaveCandidate, Worktree
    <2>2. workflow' = [at |-> "Verification", blocked |-> FALSE]
        BY <1>4, <2>1
    <2>3. /\ read \in Seq(1..Revisions) /\ DOMAIN read = 1..2 /\ ReadInOrder(s)
          /\ \A i \in DOMAIN read : read[i] \in 1..Revisions
        BY <1>1, <2>1, RequestOfSlot, ElementOfSeq DEF IInv, SlotInv
    <2>4. read \in [1..2 -> 1..Revisions]
        <3>1. read \in [1..Len(read) -> 1..Revisions]
            BY <2>3, LenProperties
        <3> QED BY <2>1, <3>1
    <2>5. read[1] <= read[2] /\ read[2] <= head
        BY <2>1, <2>3 DEF ReadInOrder
    <2>6. TypeOK'
        BY <1>1, <1>2, <2>1, <2>2, <2>4 DEF TypeOK, Request
    <2>7. Planned'
        BY <2>1 DEF IInv, Planned
    <2>8. CandidateFrozen'
        BY <2>1, <2>2, <2>4, <2>5 DEF CandidateFrozen
    <2>9. \A t \in Slot : request[t].step \in {"idle", "freeze"}
        BY <1>4 DEF IInv, CandidateFrozen
    <2>10. ASSUME NEW t \in Slot PROVE SlotInv(t)'
        <3>1. CASE t = s
            <4>1. Len(plan') \in Nat
                BY <2>1, PlanLength
            <4> QED BY <1>2, <1>3, <3>1, <4>1, QuietSlot DEF Becomes
        <3>2. CASE t # s
            <4>1. request'[t] = request[t]
                BY <1>2, <3>2 DEF Becomes
            <4>2. SlotInv(t) /\ request[t].step \in {"idle", "freeze"}
                BY <2>9 DEF IInv
            <4>3. ReadInOrder(t)'
                BY <2>1, <4>1, <4>2 DEF SlotInv, ReadInOrder
            <4>4. ResultsInOrder(t)' /\ Attested(t)'
                BY <2>1, <4>1, <4>2 DEF SlotInv, ResultsInOrder, Attested
            <4>5. SpoiledIsSeen(t)'
                BY <4>1, <4>2 DEF SpoiledIsSeen
            <4> QED BY <4>1, <4>2, <4>3, <4>4, <4>5 DEF SlotInv
        <3> QED BY <3>1, <3>2
    <2>11. workflow'.at # "Review"
        BY <2>2
    <2> QED BY <2>6, <2>7, <2>8, <2>10, <2>11 DEF IInv
<1>5. CASE ~(~dirty /\ workflow = [at |-> "Execution", blocked |-> FALSE])
    <2>1. UNCHANGED <<Stored, head, dirty>>
        BY <1>5 DEF SaveCandidate, Stored, Worktree
    <2>2. spoiled' \subseteq Slot
        BY <1>1 DEF TypeOK
    <2>3. Followed
        BY <2>1, <2>2, StoredFollowed
    <2> QED BY <1>1, <2>3, AnswerFollowed DEF SaveCandidate
<1> QED BY <1>4, <1>5

LEMMA VerifyBeginKeeps ==
    ASSUME IInv, NEW s \in Slot, VerifyBegin(s)
    PROVE  IInv'
<1>1. TypeOK /\ spoiled' = spoiled \ {s} /\ spoiled' \subseteq Slot
    BY DEF IInv, TypeOK, VerifyBegin
<1>2. Followed
    BY <1>1, StoredFollowed DEF VerifyBegin
<1>3. PICK a \in Attestations :
        request' = [request EXCEPT ![s].step = "check", ![s].attestation = a]
    BY DEF VerifyBegin
<1> DEFINE old == request[s]
           r == Fields("check", <<>>, a, <<>>)
           m1 == [old EXCEPT !.step = "check"]
           m2 == [m1 EXCEPT !.attestation = a]
<1>4. request' = [request EXCEPT ![s] = m2]
    <2>1. request \in [Slot -> Request]
        BY <1>1 DEF TypeOK, Request
    <2> QED BY <1>3, <2>1
<1>5. old = Fields("idle", <<>>, None, <<>>)
    BY DEF VerifyBegin, Idle, Fields
<1> HIDE DEF old
<1>6. m1 = Fields("check", <<>>, None, <<>>)
    BY <1>5, WithStep
<1> HIDE DEF m1
<1>7. m2 = r
    BY <1>6, WithAttestation
<1>8. r \in Request
    BY EmptySeq DEF Request, Fields, Reading
<1>9. r.step = "check" /\ r.read = <<>> /\ r.results = <<>>
    BY DEF Fields
<1> HIDE DEF m2, r
<1>10. Becomes(s, r)
    BY <1>1, <1>4, <1>7, Becoming
<1>11. request' \in [Slot -> Request] /\ request'[s] = r
    BY <1>8, <1>10 DEF Becomes
<1>12. Len(plan') \in Nat
    BY <1>2, PlanLength DEF Followed, Moved
<1>13. SlotInv(s)'
    BY <1>1, <1>9, <1>11, <1>12, EmptySeq
       DEF SlotInv, ReadInOrder, ResultsInOrder, Attested, Reading
<1>14. workflow.at # "Execution"
    BY DEF VerifyBegin
<1> QED BY <1>1, <1>2, <1>10, <1>11, <1>13, <1>14, SlotFollowing

LEMMA RunGateKeeps ==
    ASSUME IInv, NEW s \in Slot, RunGate(s)
    PROVE  IInv'
<1> DEFINE n == Len(request[s].results)
           gate == plan[n + 1]
<1>1. TypeOK /\ request[s].step = "gates" /\ n < Len(plan) /\ UNCHANGED <<Stored, Worktree>>
    BY DEF IInv, RunGate
<1>2. n + 1 \in DOMAIN plan /\ n \in Nat
    BY <1>1, PlanLength, RequestOfSlot
<1>3. CASE gate.executor = "integrity" /\ Step(s, "integrity")
    BY <1>1, <1>3, GateBegun
<1>4. CASE gate.executor = "command" /\ Step(s, "running")
    BY <1>1, <1>4, GateBegun
<1>5. ASSUME NEW x \in Status, Record(s, x), gate.executor \in {"secret_scan", "unavailable"},
             gate.executor = "unavailable" /\ x = "Passed" => Attests(request[s].attestation, gate)
      PROVE  IInv'
    <2>1. n + 1 # Inspection
        BY <1>2, <1>5, PlanLength
    <2> QED BY <1>1, <1>5, <2>1, RecordFollowed
<1>6. ASSUME gate.executor = "secret_scan", NEW x \in Scans, Record(s, x) PROVE IInv'
    <2>1. x \in Status
        BY <1>6 DEF Scans, Status
    <2> QED BY <1>5, <1>6, <2>1
<1>7. CASE /\ gate.executor = "unavailable"
           /\ Record(s, IF Attests(request[s].attestation, gate) THEN "Passed" ELSE "Skipped")
    <2> DEFINE x == IF Attests(request[s].attestation, gate) THEN "Passed" ELSE "Skipped"
    <2>1. x \in Status /\ (x = "Passed" => Attests(request[s].attestation, gate))
        BY DEF Status
    <2>2. Record(s, x)
        BY <1>7
    <2> HIDE DEF x
    <2> QED BY <1>5, <1>7, <2>1, <2>2
<1> QED BY <1>3, <1>4, <1>6, <1>7 DEF RunGate

LEMMA SpawnErrorKeeps ==
    ASSUME IInv, NEW s \in Slot, SpawnError(s)
    PROVE  IInv'
<1>1. spoiled' = spoiled /\ spoiled' \subseteq Slot
    BY DEF IInv, TypeOK, SpawnError, Worktree
<1>2. Followed
    BY <1>1, StoredFollowed DEF SpawnError, Worktree
<1> QED BY <1>1, <1>2, AnswerFollowed DEF SpawnError

LEMMA SpoilKeeps ==
    ASSUME IInv, NEW s \in Slot, Spoil(s)
    PROVE  IInv'
<1>1. /\ TypeOK /\ request[s].step = "running" /\ request' = request
      /\ project' = project /\ plan' = plan /\ candidate' = candidate /\ workflow' = workflow
      /\ keys' = keys /\ evidence' = evidence
      /\ spoiled' = spoiled \union {s}
    BY DEF IInv, Spoil, Stored
<1>2. head \in 1..Revisions /\ Revisions \in Nat /\ dirty \in BOOLEAN /\ spoiled \subseteq Slot
    BY <1>1, ConstantsAssumption DEF TypeOK
<1>3. \/ dirty' = TRUE /\ head' = head
      \/ head < Revisions /\ head' = head + 1 /\ dirty' = dirty
    BY DEF Spoil
<1>4. head' \in 1..Revisions /\ head <= head' /\ dirty' \in BOOLEAN
    <2>1. head' \in 1..Revisions /\ head <= head'
        <3>1. head' = head \/ (head < Revisions /\ head' = head + 1)
            BY <1>3
        <3> QED BY <1>2, <3>1
    <2>2. dirty' \in BOOLEAN
        BY <1>2, <1>3
    <2> QED BY <2>1, <2>2
<1>5. dirty' \/ head < head'
    <2>1. head' = head + 1 => head < head'
        BY <1>2
    <2> QED BY <1>3, <2>1
<1>6. Moved
    BY <1>1, <1>4, <1>5 DEF Moved
<1>7. Followed
    <2>1. /\ workflow \in WorkflowType /\ keys \subseteq {"passed", "blocked", "rejected"}
          /\ evidence \in [DOMAIN plan -> Status \union {None}]
        BY <1>1 DEF TypeOK, WorkflowType
    <2>2. workflow'.at = "Review" => candidate[1] = candidate[2]
        BY <1>1 DEF IInv
    <2>3. spoiled' \subseteq Slot
        BY <1>1, <1>2
    <2> QED BY <1>1, <1>4, <1>6, <2>1, <2>2, <2>3 DEF Followed
<1>8. workflow.at # "Execution"
    BY <1>1 DEF IInv, CandidateFrozen
<1>9. candidate[2] \in 1..Revisions /\ candidate[2] <= head
    BY <1>8 DEF IInv, CandidateFrozen
<1>10. ASSUME NEW t \in Slot PROVE SlotInv(t)'
    <2>1. CASE t # s
        BY <1>1, <1>6, <2>1, OtherSlots
    <2>2. CASE t = s
        <3>1. SlotInv(s)
            BY DEF IInv
        <3>2. ReadInOrder(s)' /\ request[s].read = <<>>
            <4>1. request[s].read = <<>>
                BY <1>1, <3>1 DEF SlotInv, ReadInOrder, Reading
            <4> QED BY <1>1, <4>1, EmptySeq DEF ReadInOrder
        <3>3. ResultsInOrder(s)' /\ Attested(s)'
            BY <1>1, <3>1 DEF SlotInv, ResultsInOrder, Attested
        <3>4. Len(request[s].results) < Inspection
            <4>1. Len(request[s].results) + 1 \in DOMAIN plan /\ Len(request[s].results) \in Nat
                BY <1>1, <3>1, PlanLength, RequestOfSlot DEF SlotInv, ResultsInOrder
            <4>2. Len(request[s].results) + 1 < Inspection
                BY <1>1, <3>1, <4>1, PlanLength DEF SlotInv, ResultsInOrder
            <4> QED BY <4>1, <4>2, PlanLength
        <3>5. dirty' \/ candidate'[2] < head'
            <4>1. head < head' => candidate'[2] < head'
                BY <1>1, <1>2, <1>4, <1>9
            <4> QED BY <1>5, <4>1
        <3>6. SpoiledIsSeen(s)'
            <4>1. Inspection' = Inspection
                BY <1>1 DEF Inspection
            <4> QED BY <1>1, <3>2, <3>4, <3>5, <4>1 DEF SpoiledIsSeen
        <3>7. candidate'[1] = candidate'[2]
            BY <1>1, <3>1 DEF SlotInv
        <3> QED BY <2>2, <3>2, <3>3, <3>6, <3>7 DEF SlotInv
    <2> QED BY <2>1, <2>2
<1>11. request' \in [Slot -> Request]
    BY <1>1 DEF TypeOK, Request
<1> QED BY <1>7, <1>8, <1>10, <1>11, Following

LEMMA ExitKeeps ==
    ASSUME IInv, NEW s \in Slot, Exit(s) \/ Timeout(s)
    PROVE  IInv'
<1>1. /\ request[s].step = "running" /\ UNCHANGED <<Stored, Worktree>>
      /\ \E x \in {"Passed", "Failed"} : Record(s, x)
    BY DEF Exit, Timeout
<1>2. PICK x \in {"Passed", "Failed"} : Record(s, x)
    BY <1>1
<1>3. TypeOK /\ SlotInv(s) /\ x \in Status
    BY DEF IInv, Status
<1>4. /\ Len(request[s].results) < Len(plan)
      /\ plan[Len(request[s].results) + 1].executor = "command"
    BY <1>1, <1>3 DEF SlotInv, ResultsInOrder
<1>5. Len(request[s].results) + 1 # Inspection
    <2>1. Len(request[s].results) + 1 \in DOMAIN plan
        BY <1>3, <1>4, PlanLength, RequestOfSlot
    <2> QED BY <1>4, <2>1, PlanLength
<1> QED BY <1>1, <1>2, <1>3, <1>4, <1>5, RecordFollowed

\* The results that a run saves are one for each gate.
LEMMA SavedEvidence ==
    ASSUME IInv, NEW s \in Slot, Ran(s), NEW n
    PROVE  Saved(s, n) \in [DOMAIN plan -> Status \union {None}]
<1>1. /\ request[s].results \in Seq(Status) /\ Len(request[s].results) = Len(plan)
      /\ DOMAIN plan = 1..Len(plan) /\ evidence \in [DOMAIN plan -> Status \union {None}]
    BY PlanLength, RequestOfSlot DEF IInv, TypeOK, Ran
<1>2. \A i \in DOMAIN plan : request[s].results[i] \in Status
    BY <1>1, ElementOfSeq
<1> QED BY <1>1, <1>2 DEF Saved

LEMMA SaveErrorKeeps ==
    ASSUME IInv, NEW s \in Slot, SaveError(s)
    PROVE  IInv'
<1>1. PICK n \in 0..Len(plan) : evidence' = Saved(s, n)
    BY DEF SaveError
<1>2. /\ project' = project /\ plan' = plan /\ candidate' = candidate /\ workflow' = workflow
      /\ keys' = keys /\ head' = head /\ dirty' = dirty /\ spoiled' = spoiled
    BY DEF SaveError, Worktree
<1>3. evidence' \in [DOMAIN plan -> Status \union {None}]
    BY <1>1, SavedEvidence DEF SaveError
<1>4. /\ head \in 1..Revisions /\ dirty \in BOOLEAN /\ workflow \in WorkflowType
      /\ keys \subseteq {"passed", "blocked", "rejected"} /\ spoiled \subseteq Slot
    BY DEF IInv, TypeOK, WorkflowType
<1>5. Moved
    BY <1>2, <1>4, ConstantsAssumption DEF Moved
<1>6. workflow'.at = "Review" => candidate[1] = candidate[2]
    BY <1>2 DEF IInv
<1>7. Followed
    BY <1>2, <1>3, <1>4, <1>5, <1>6 DEF Followed
<1> QED BY <1>2, <1>7, AnswerFollowed DEF SaveError

\* What becomes of the workflow.
LEMMA Outcome ==
    ASSUME IInv, NEW s \in Slot, ApplyResults(s)
    PROVE  /\ workflow' \in WorkflowType /\ keys' \subseteq {"passed", "blocked", "rejected"}
           /\ \/ workflow'.at = workflow.at
              \/ workflow.at = "Verification" /\ workflow'.at # "Execution"
           /\ workflow.at # "Review" /\ workflow'.at = "Review" =>
                ToSet(request[s].results) = {"Passed"}
<1> DEFINE results == ToSet(request[s].results)
           unblocked == ~workflow.blocked
           verifying == unblocked /\ workflow.at = "Verification"
<1>1. workflow \in WorkflowType /\ keys \subseteq {"passed", "blocked", "rejected"}
    BY DEF IInv, TypeOK, WorkflowType
<1>2. \/ /\ results = {"Passed"}
         /\ Once("passed", verifying, [workflow EXCEPT !.at = "Review"])
      \/ Once("blocked", unblocked, [workflow EXCEPT !.blocked = TRUE])
      \/ Once("rejected", verifying, [workflow EXCEPT !.at = "Repair"])
    BY DEF ApplyResults
<1>3. ASSUME NEW x \in {"Review", "Repair"}
      PROVE  /\ [workflow EXCEPT !.at = x] \in WorkflowType
             /\ [workflow EXCEPT !.at = x].at = x
    BY <1>1 DEF WorkflowType
<1>4. /\ [workflow EXCEPT !.blocked = TRUE] \in WorkflowType
      /\ [workflow EXCEPT !.blocked = TRUE].at = workflow.at
    BY <1>1 DEF WorkflowType
<1>5. CASE results = {"Passed"} /\ Once("passed", verifying, [workflow EXCEPT !.at = "Review"])
    <2>1. \/ keys' = keys /\ workflow' = workflow
          \/ /\ keys' = keys \union {"passed"} /\ workflow.at = "Verification"
             /\ workflow' = [workflow EXCEPT !.at = "Review"]
        BY <1>5 DEF Once
    <2> QED BY <1>1, <1>3, <1>5, <2>1
<1>6. CASE Once("blocked", unblocked, [workflow EXCEPT !.blocked = TRUE])
    <2>1. \/ keys' = keys /\ workflow' = workflow
          \/ /\ keys' = keys \union {"blocked"}
             /\ workflow' = [workflow EXCEPT !.blocked = TRUE]
        BY <1>6 DEF Once
    <2> QED BY <1>1, <1>4, <2>1
<1>7. CASE Once("rejected", verifying, [workflow EXCEPT !.at = "Repair"])
    <2>1. \/ keys' = keys /\ workflow' = workflow
          \/ /\ keys' = keys \union {"rejected"} /\ workflow.at = "Verification"
             /\ workflow' = [workflow EXCEPT !.at = "Repair"]
        BY <1>7 DEF Once
    <2> QED BY <1>1, <1>3, <2>1
<1> QED BY <1>2, <1>5, <1>6, <1>7

\* Who ran all gates has a candidate of one revision.
LEMMA ApplyResultsKeeps ==
    ASSUME IInv, NEW s \in Slot, ApplyResults(s)
    PROVE  IInv'
<1>1. /\ project' = project /\ plan' = plan /\ candidate' = candidate
      /\ head' = head /\ dirty' = dirty /\ spoiled' = spoiled
      /\ evidence' = Saved(s, Len(plan)) /\ Ran(s) /\ Answer(s)
    BY DEF ApplyResults, Worktree
<1>2. evidence' \in [DOMAIN plan -> Status \union {None}]
    BY <1>1, SavedEvidence
<1>3. /\ workflow' \in WorkflowType /\ keys' \subseteq {"passed", "blocked", "rejected"}
      /\ \/ workflow'.at = workflow.at
         \/ workflow.at = "Verification" /\ workflow'.at # "Execution"
    BY Outcome
<1>4. candidate[1] = candidate[2]
    BY <1>1 DEF IInv, SlotInv, Ran
<1>5. head \in 1..Revisions /\ dirty \in BOOLEAN /\ spoiled \subseteq Slot
    BY DEF IInv, TypeOK
<1>6. Moved
    BY <1>1, <1>5, ConstantsAssumption DEF Moved
<1>7. Followed
    BY <1>1, <1>2, <1>3, <1>4, <1>5, <1>6 DEF Followed
<1> QED BY <1>1, <1>7, AnswerFollowed

LEMMA WorldKeeps ==
    ASSUME IInv, Retry \/ Edit \/ Commit
    PROVE  IInv'
<1>1. /\ project' = project /\ plan' = plan /\ candidate' = candidate /\ keys' = keys
      /\ evidence' = evidence /\ spoiled' = spoiled /\ request' = request
    BY DEF Retry, Edit, Commit, Stored, Worktree
<1>2. /\ head \in 1..Revisions /\ Revisions \in Nat /\ dirty \in BOOLEAN /\ workflow \in WorkflowType
      /\ keys \subseteq {"passed", "blocked", "rejected"} /\ spoiled \subseteq Slot
      /\ evidence \in [DOMAIN plan -> Status \union {None}]
    BY ConstantsAssumption DEF IInv, TypeOK, WorkflowType
<1>3. Retry => workflow' = [workflow EXCEPT !.blocked = FALSE] /\ head' = head /\ dirty' = dirty
    BY DEF Retry, Worktree
<1>4. Edit => workflow' = workflow /\ head' = head /\ dirty' = TRUE
    BY DEF Edit, Stored
<1>5. Commit => workflow' = workflow /\ head < Revisions /\ head' = head + 1 /\ dirty' = FALSE
    BY DEF Commit, Stored
<1>6. head' \in 1..Revisions /\ head <= head'
    BY <1>2, <1>3, <1>4, <1>5
<1>7. dirty => dirty' \/ head < head'
    <2>1. head' = head + 1 => head < head'
        BY <1>2
    <2> QED BY <1>3, <1>4, <1>5, <2>1
<1>8. dirty' \in BOOLEAN
    BY <1>2, <1>3, <1>4, <1>5
<1>9. workflow' \in WorkflowType /\ workflow'.at = workflow.at
    <2>1. [workflow EXCEPT !.blocked = FALSE] \in WorkflowType
          /\ [workflow EXCEPT !.blocked = FALSE].at = workflow.at
        BY <1>2 DEF WorkflowType
    <2> QED BY <1>2, <1>3, <1>4, <1>5, <2>1
<1>10. workflow'.at = "Review" => candidate[1] = candidate[2]
    BY <1>9 DEF IInv
<1>11. Moved
    BY <1>1, <1>6, <1>7 DEF Moved
<1>12. Followed
    BY <1>1, <1>2, <1>8, <1>9, <1>10, <1>11 DEF Followed
<1>13. \A t \in Slot : SlotInv(t)'
    BY <1>1, <1>11, OtherSlots
<1>14. request' \in [Slot -> Request]
    BY <1>1 DEF IInv, TypeOK, Request
<1>15. \A t \in Slot : request'[t].step \in {"idle", "freeze"} \/ workflow.at # "Execution"
    BY <1>1 DEF IInv, CandidateFrozen
<1> QED BY <1>12, <1>13, <1>14, <1>15, Following

LEMMA CrashKeeps ==
    ASSUME IInv, Crash
    PROVE  IInv'
<1>1. spoiled' = spoiled /\ spoiled' \subseteq Slot
    BY DEF IInv, TypeOK, Crash, Worktree
<1>2. Followed
    BY <1>1, StoredFollowed DEF Crash, Worktree
<1>3. Idle \in Request /\ Idle.step = "idle" /\ Idle.read = <<>> /\ Idle.results = <<>>
    BY EmptySeq DEF Idle, Request
<1>4. request' \in [Slot -> Request] /\ \A t \in Slot : request'[t] = Idle
    BY <1>3 DEF Crash
<1>5. Len(plan') \in Nat
    BY <1>2, PlanLength DEF Followed, Moved
<1>6. \A t \in Slot : SlotInv(t)'
    BY <1>3, <1>4, <1>5, QuietSlot
<1> QED BY <1>2, <1>3, <1>4, <1>6, Following

LEMMA Inductive ==
    ASSUME IInv, [Next]_vars
    PROVE  IInv'
<1>1. CASE UNCHANGED vars
    BY <1>1, StuttersKeep
<1>2. ASSUME NEW s \in Slot,
             \/ FreezeBegin(s) \/ VerifyBegin(s) \/ Serve(s)
             \/ SpawnError(s) \/ Spoil(s) \/ Exit(s) \/ SaveError(s)
      PROVE  IInv'
    BY <1>2, FreezeBeginKeeps, VerifyBeginKeeps, ReadNextKeeps, ReadDoneKeeps, SaveCandidateKeeps,
       RunGateKeeps, ExitKeeps, ApplyResultsKeeps, SpawnErrorKeeps, SpoilKeeps, SaveErrorKeeps
       DEF Serve
<1> QED BY <1>1, <1>2, WorldKeeps, CrashKeeps DEF Next

LEMMA Invariance == Spec => []IInv
BY Initially, Inductive, PTL DEF Spec

-----------------------------------------------------------------------------
(* What follows.                                                           *)

\* verify_candidate and managed_browser_gate: of overlapping requests, a head
\* that moves on and failures, nothing but a candidate of one revision comes to
\* its review, and no gate that is not available passed without its receipt.
THEOREM InvCorrect == Spec => []Inv
<1>1. IInv => Inv
    <2> SUFFICES ASSUME IInv PROVE Inv
        OBVIOUS
    <2>1. VerifiedIsOneRevision
        <3> SUFFICES ASSUME workflow.at = "Review" PROVE \E r \in 1..Revisions : candidate = <<r, r>>
            BY DEF VerifiedIsOneRevision
        <3>1. candidate \in [1..2 -> 1..Revisions] /\ candidate[1] = candidate[2]
            BY DEF IInv, CandidateFrozen
        <3>2. candidate[1] \in 1..Revisions /\ candidate = <<candidate[1], candidate[2]>>
            BY <3>1
        <3> QED BY <3>1, <3>2
    <2>2. UnavailableNeedsReceipt
        <3> SUFFICES ASSUME NEW s \in Slot, NEW i \in DOMAIN request[s].results,
                            plan[i].executor = "unavailable", request[s].results[i] = "Passed"
                     PROVE  LET needed == Required(plan[i])
                                given == request[s].attestation.operations
                            IN /\ request[s].attestation.matches
                               /\ \E place \in [DOMAIN needed -> DOMAIN given] :
                                    \A k \in DOMAIN needed :
                                      /\ given[place[k]] = needed[k]
                                      /\ k > 1 => place[k - 1] < place[k]
            BY DEF UnavailableNeedsReceipt
        <3>1. Attests(request[s].attestation, plan[i])
            BY DEF IInv, SlotInv, Attested
        <3>2. request[s].attestation \in Receipt \/ request[s].attestation = None
            BY ConstantsAssumption, RequestOfSlot DEF IInv
        <3> HIDE DEF Required
        <3> QED BY <3>1, <3>2, AttestsInOrder
    <2> QED BY <2>1, <2>2 DEF Inv, IInv
<1> QED BY <1>1, Invariance, PTL

\* verify_candidate: a workflow leaves verification on the evidence that every
\* gate passed, and not by a run whose own commands changed the worktree.
THEOREM EvidenceCorrect == Spec => PassedOnEvidence
<1> DEFINE Passing == Verified => /\ \A i \in DOMAIN evidence : evidence'[i] = "Passed"
                                  /\ \A s \in spoiled : request'[s] = request[s]
<1>1. ASSUME IInv, Next PROVE Passing
    <2> SUFFICES ASSUME Verified PROVE /\ \A i \in DOMAIN evidence : evidence'[i] = "Passed"
                                       /\ \A s \in spoiled : request'[s] = request[s]
        OBVIOUS
    <2>1. workflow.at # "Review" /\ workflow'.at = "Review"
        BY DEF Verified
    <2>2. workflow \in WorkflowType
        BY <1>1 DEF IInv, TypeOK, WorkflowType
    <2>3. workflow' # workflow
        BY <2>1
    <2>4. ~ (Retry \/ Edit \/ Commit \/ Crash)
        <3>1. [workflow EXCEPT !.blocked = FALSE].at = workflow.at
            BY <2>2 DEF WorkflowType
        <3> QED BY <2>1, <2>3, <3>1 DEF Retry, Edit, Commit, Crash, Stored
    <2>5. PICK s \in Slot : \/ FreezeBegin(s) \/ VerifyBegin(s) \/ Serve(s)
                            \/ SpawnError(s) \/ Spoil(s) \/ Exit(s) \/ SaveError(s)
        BY <1>1, <2>4 DEF Next
    <2>6. ~SaveCandidate(s)
        <3>1. [workflow EXCEPT !.at = "Verification"].at = "Verification"
            BY <2>2 DEF WorkflowType
        <3> QED BY <2>1, <2>3, <3>1 DEF SaveCandidate
    <2>7. ApplyResults(s)
        BY <2>3, <2>5, <2>6 DEF FreezeBegin, VerifyBegin, Serve, SpawnError, Spoil, Exit, SaveError,
           ReadNext, ReadDone, RunGate, Timeout, Stored
    <2>8. ToSet(request[s].results) = {"Passed"}
        BY <1>1, <2>1, <2>7, Outcome
    <2>9. /\ evidence' = Saved(s, Len(plan)) /\ Ran(s) /\ Answer(s)
        BY <2>7 DEF ApplyResults
    <2>10. /\ DOMAIN request[s].results = DOMAIN plan /\ DOMAIN plan = 1..Len(plan)
           /\ DOMAIN evidence = DOMAIN plan /\ TypeOK
           /\ Len(request[s].results) = Len(plan) /\ Inspection \in 1..Len(plan)
           /\ Len(plan) \in Nat
        BY <1>1, <2>9, PlanLength, RequestOfSlot DEF IInv, TypeOK, Ran
    <2>11. \A i \in DOMAIN plan : request[s].results[i] = "Passed"
        BY <2>8, <2>10 DEF ToSet
    <2>12. \A i \in DOMAIN evidence : evidence'[i] = "Passed"
        BY <2>9, <2>10, <2>11 DEF Saved
    <2>13. s \notin spoiled
        <3> SUFFICES ASSUME s \in spoiled PROVE FALSE
            OBVIOUS
        <3>1. SpoiledIsSeen(s)
            BY <1>1 DEF IInv, SlotInv
        <3>2. ~ (Len(request[s].results) < Inspection)
            BY <2>10
        <3>3. request[s].results[Inspection] = "Failed"
            BY <2>9, <3>1, <3>2 DEF SpoiledIsSeen, Ran
        <3> QED BY <2>10, <2>11, <3>3
    <2>14. \A t \in Slot \ {s} : request'[t] = request[t]
        BY <2>9, <2>10, Answering DEF Becomes
    <2>15. spoiled \subseteq Slot
        BY <2>10 DEF TypeOK
    <2> QED BY <2>12, <2>13, <2>14, <2>15
<1>2. IInv /\ [Next]_vars => [Passing]_vars
    BY <1>1
<1> HIDE DEF Passing
<1>3. Spec => [][Passing]_vars
    BY <1>2, Invariance, PTL DEF Spec
<1> QED BY <1>3 DEF PassedOnEvidence, Passing

\* discover_for: of projects whose commands do not stand in the way of the
\* other gates, every command is run once, every kind of file in the scopes
\* has its gate, and a plan of safe commands is not refused.
THEOREM DiscoveryCorrect ==
    ASSUME \A p \in Projects : Orderly(p)
    PROVE  Spec => []DiscoveryCovers
<1>1. IInv => DiscoveryCovers
    <2> SUFFICES ASSUME IInv PROVE DiscoveryCovers
        OBVIOUS
    <2>1. project \in Projects /\ plan = Discover(project) /\ Orderly(project)
        BY DEF IInv, Planned
    <2>2. (\A command \in ToSet(Commands(project)) : command.safe) => Valid(project, plan)
        BY <2>1, PlanIsValid
    <2> QED BY <2>1, <2>2, ScopesProvided, CommandsRunOnce DEF DiscoveryCovers
<1> QED BY <1>1, Invariance, PTL
=============================================================================
