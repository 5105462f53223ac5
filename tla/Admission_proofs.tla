-------------------------- MODULE Admission_proofs --------------------------
(***************************************************************************)
(* Proofs about admission, for every set of workflows and projects, every   *)
(* limit, lease and tick, and both builds.                                 *)
(***************************************************************************)
EXTENDS Admission, FiniteSetTheorems, SequenceTheorems, WellFoundedInduction, TLAPS

-----------------------------------------------------------------------------
(* Induction: of a set of natural numbers that is not empty one is the     *)
(* least, so a set of sequences that holds the empty one and is closed      *)
(* under Append holds them all.                                            *)
LEMMA LeastNumber ==
    ASSUME NEW S \in SUBSET Nat, S # {}
    PROVE  \E m \in S : \A n \in S : m <= n
<1> DEFINE R == {p \in Nat \X Nat : p[1] < p[2]}
<1>1. IsWellFoundedOn(R, Nat)
    BY NatLessThanWellFounded DEF OpToRel
<1>2. PICK m \in S : \A n \in S : ~ (<<n, m>> \in R)
    <2> HIDE DEF R
    <2> QED BY <1>1, WFMin
<1>3. \A n \in S : ~ (n < m)
    BY <1>2
<1> QED BY <1>3

LEMMA Induction ==
    ASSUME NEW S \in SUBSET Nat, 0 \in S, \A n \in S : n + 1 \in S
    PROVE  S = Nat
<1> SUFFICES ASSUME Nat \ S # {} PROVE FALSE
    OBVIOUS
<1>1. PICK m \in Nat \ S : \A n \in Nat \ S : m <= n
    BY LeastNumber
<1>2. m - 1 \in S
    BY <1>1
<1> QED BY <1>1, <1>2

LEMMA SequenceInduction ==
    ASSUME NEW T, NEW P \in SUBSET Seq(T), <<>> \in P,
           \A s \in P : \A x \in T : Append(s, x) \in P
    PROVE  P = Seq(T)
<1> DEFINE N == {n \in Nat : \A s \in Seq(T) : Len(s) = n => s \in P}
<1>1. 0 \in N
    BY EmptySeq
<1>2. ASSUME NEW n \in N PROVE n + 1 \in N
    <2> SUFFICES ASSUME NEW s \in Seq(T), Len(s) = n + 1 PROVE s \in P
        OBVIOUS
    <2>1. s # <<>>
        BY EmptySeq
    <2>2. PICK r \in Seq(T), x \in T : s = Append(r, x)
        BY <2>1, SequenceEmptyOrAppend
    <2>3. Len(r) = n
        BY <2>2, AppendProperties, LenProperties
    <2> QED BY <2>2, <2>3
<1>3. N = Nat
    <2> HIDE DEF N
    <2>1. N \subseteq Nat
        BY DEF N
    <2> QED BY <1>1, <1>2, <2>1, Induction
<1> QED BY <1>3, LenProperties

-----------------------------------------------------------------------------
(* The elements of a sequence.                                             *)
LEMMA ElementsOfAppend ==
    ASSUME NEW T, NEW s \in Seq(T), NEW x \in T
    PROVE  ToSet(Append(s, x)) = ToSet(s) \union {x}
<1> DEFINE t == Append(s, x)
<1>1. /\ DOMAIN s = 1..Len(s) /\ Len(s) \in Nat
      /\ DOMAIN t = 1..(Len(s) + 1)
      /\ \A i \in 1..Len(s) : t[i] = s[i]
      /\ t[Len(s) + 1] = x
    BY AppendProperties, LenProperties
<1> HIDE DEF t
<1>2. \A i \in 1..(Len(s) + 1) : i \in 1..Len(s) \/ i = Len(s) + 1
    BY <1>1
<1>3. ToSet(t) = ToSet(s) \union {x}
    BY <1>1, <1>2 DEF ToSet
<1> QED BY <1>3 DEF t

LEMMA ElementsOfSequence ==
    ASSUME NEW T, NEW s \in Seq(T)
    PROVE  /\ ToSet(s) \subseteq T
           /\ ToSet(s) = {} <=> s = <<>>
           /\ \A x : Contains(s, x) <=> x \in ToSet(s)
           /\ s # <<>> => Head(s) \in ToSet(s)
<1>1. DOMAIN s = 1..Len(s) /\ Len(s) \in Nat
    BY LenProperties
<1>2. ToSet(s) \subseteq T
    BY <1>1, ElementOfSeq DEF ToSet
<1>3. s # <<>> => Head(s) \in ToSet(s)
    <2>1. s # <<>> => 1 \in DOMAIN s /\ Head(s) = s[1]
        BY <1>1, EmptySeq
    <2> QED BY <2>1 DEF ToSet
<1>4. s = <<>> => ToSet(s) = {}
    BY DEF ToSet
<1>5. \A x : Contains(s, x) <=> x \in ToSet(s)
    BY <1>1 DEF Contains, ToSet
<1> QED BY <1>2, <1>3, <1>4, <1>5

LEMMA InjectiveAppend ==
    ASSUME NEW T, NEW s \in Seq(T), NEW x \in T
    PROVE  IsInjective(Append(s, x)) <=> IsInjective(s) /\ x \notin ToSet(s)
<1> DEFINE t == Append(s, x)
<1>1. /\ DOMAIN s = 1..Len(s) /\ Len(s) \in Nat
      /\ DOMAIN t = 1..(Len(s) + 1)
      /\ \A i \in 1..Len(s) : t[i] = s[i]
      /\ t[Len(s) + 1] = x
    BY AppendProperties, LenProperties
<1> HIDE DEF t
<1>2. \A i \in 1..(Len(s) + 1) : i \in 1..Len(s) \/ i = Len(s) + 1
    BY <1>1
<1>3. IsInjective(t) => IsInjective(s) /\ x \notin ToSet(s)
    BY <1>1 DEF ToSet, IsInjective
<1>4. IsInjective(s) /\ x \notin ToSet(s) => IsInjective(t)
    <2> SUFFICES ASSUME IsInjective(s), x \notin ToSet(s),
                        NEW i \in DOMAIN t, NEW j \in DOMAIN t, t[i] = t[j]
                 PROVE  i = j
        BY DEF IsInjective
    <2>1. \A k \in 1..Len(s) : s[k] # x
        BY <1>1 DEF ToSet
    <2>2. CASE i \in 1..Len(s) /\ j \in 1..Len(s)
        BY <1>1, <2>2 DEF IsInjective
    <2> QED BY <1>1, <1>2, <2>1, <2>2
<1> QED BY <1>3, <1>4 DEF t

-----------------------------------------------------------------------------
(* What is retained of a sequence.                                         *)
LEMMA RetainingUnfolds ==
    ASSUME NEW q, NEW S, Len(q) \in Nat
    PROVE  Retaining(q, S) =
             [n \in 0..Len(q) |->
                IF n = 0 THEN <<>>
                ELSE IF q[n] \in S THEN Append(Retaining(q, S)[n - 1], q[n])
                ELSE Retaining(q, S)[n - 1]]
<1> DEFINE More(r, n) == IF q[n] \in S THEN Append(r, q[n]) ELSE r
           Solves(f, m) == f = [n \in 0..m |-> IF n = 0 THEN <<>> ELSE More(f[n - 1], n)]
           N == {m \in Nat : \E f : Solves(f, m)}
<1> HIDE DEF More
<1>1. 0 \in N
    <2>1. Solves([n \in 0..0 |-> <<>>], 0)
        OBVIOUS
    <2> QED BY <2>1
<1>2. ASSUME NEW m \in N PROVE m + 1 \in N
    <2>1. PICK f : Solves(f, m)
        OBVIOUS
    <2> DEFINE g == [n \in 0..(m + 1) |-> IF n <= m THEN f[n] ELSE More(f[m], n)]
    <2>2. \A n \in 0..(m + 1) : g[n] = IF n = 0 THEN <<>> ELSE More(g[n - 1], n)
        BY <2>1
    <2>3. Solves(g, m + 1)
        BY <2>2
    <2>4. \E h : Solves(h, m + 1)
        <3> HIDE DEF g
        <3> QED BY <2>3
    <2> QED BY <2>4
<1>3. Len(q) \in N
    BY <1>1, <1>2, Induction
<1>4. \E f : Solves(f, Len(q))
    BY <1>3
<1> QED BY <1>4 DEF Retaining, More

LEMMA RetainingStep ==
    ASSUME NEW q, NEW S, Len(q) \in Nat
    PROVE  /\ Retaining(q, S)[0] = <<>>
           /\ \A n \in 1..Len(q) :
                Retaining(q, S)[n] = IF q[n] \in S THEN Append(Retaining(q, S)[n - 1], q[n])
                                     ELSE Retaining(q, S)[n - 1]
<1> DEFINE R == Retaining(q, S)
           More(r, n) == IF q[n] \in S THEN Append(r, q[n]) ELSE r
<1>1. R = [n \in 0..Len(q) |-> IF n = 0 THEN <<>> ELSE More(R[n - 1], n)]
    BY RetainingUnfolds
<1> HIDE DEF R, More
<1>2. R[0] = <<>> /\ \A n \in 1..Len(q) : R[n] = More(R[n - 1], n)
    BY <1>1
<1> QED BY <1>2 DEF R, More

LEMMA RetainedEmpty ==
    ASSUME NEW S
    PROVE  Retained(<<>>, S) = <<>>
BY RetainingStep, EmptySeq DEF Retained

LEMMA RetainedAppend ==
    ASSUME NEW T, NEW s \in Seq(T), NEW x \in T, NEW S
    PROVE  Retained(Append(s, x), S) =
             IF x \in S THEN Append(Retained(s, S), x) ELSE Retained(s, S)
<1> DEFINE t == Append(s, x)
           N == {n \in Nat : n <= Len(s) => Retaining(t, S)[n] = Retaining(s, S)[n]}
<1>1. /\ Len(s) \in Nat
      /\ Len(t) = Len(s) + 1
      /\ \A i \in 1..Len(s) : t[i] = s[i]
      /\ t[Len(s) + 1] = x
    BY AppendProperties, LenProperties
<1> HIDE DEF t
<1>2. /\ Retaining(t, S)[0] = <<>>
      /\ \A n \in 1..Len(t) :
           Retaining(t, S)[n] = IF t[n] \in S THEN Append(Retaining(t, S)[n - 1], t[n])
                                ELSE Retaining(t, S)[n - 1]
    BY <1>1, RetainingStep
<1>3. /\ Retaining(s, S)[0] = <<>>
      /\ \A n \in 1..Len(s) :
           Retaining(s, S)[n] = IF s[n] \in S THEN Append(Retaining(s, S)[n - 1], s[n])
                                ELSE Retaining(s, S)[n - 1]
    BY <1>1, RetainingStep
<1>4. 0 \in N
    BY <1>2, <1>3
<1>5. ASSUME NEW n \in N PROVE n + 1 \in N
    <2> SUFFICES ASSUME n + 1 <= Len(s)
                 PROVE  Retaining(t, S)[n + 1] = Retaining(s, S)[n + 1]
        OBVIOUS
    <2>1. n + 1 \in 1..Len(s) /\ n + 1 \in 1..Len(t) /\ (n + 1) - 1 = n
        BY <1>1
    <2>2. Retaining(t, S)[n] = Retaining(s, S)[n] /\ t[n + 1] = s[n + 1]
        BY <1>1, <2>1
    <2> QED BY <1>2, <1>3, <2>1, <2>2
<1>6. Retaining(t, S)[Len(s)] = Retaining(s, S)[Len(s)]
    <2>1. N = Nat
        <3> HIDE DEF N
        <3>1. N \subseteq Nat
            BY DEF N
        <3> QED BY <1>4, <1>5, <3>1, Induction
    <2> QED BY <1>1, <2>1
<1>7. Len(s) + 1 \in 1..Len(t) /\ (Len(s) + 1) - 1 = Len(s)
    BY <1>1
<1>8. Retaining(t, S)[Len(t)] =
        IF x \in S THEN Append(Retaining(s, S)[Len(s)], x) ELSE Retaining(s, S)[Len(s)]
    BY <1>1, <1>2, <1>6, <1>7
<1> QED BY <1>8 DEF Retained, t

\* Its elements are those of both.
LEMMA RetainedElements ==
    ASSUME NEW T, NEW s \in Seq(T), NEW S
    PROVE  /\ Retained(s, S) \in Seq(T)
           /\ ToSet(Retained(s, S)) = ToSet(s) \intersect S
<1> DEFINE P == {q \in Seq(T) : /\ Retained(q, S) \in Seq(T)
                                /\ ToSet(Retained(q, S)) = ToSet(q) \intersect S}
<1>1. <<>> \in P
    BY RetainedEmpty, ElementsOfSequence, EmptySeq
<1>2. ASSUME NEW q \in P, NEW x \in T PROVE Append(q, x) \in P
    <2>1. /\ Append(q, x) \in Seq(T)
          /\ Append(Retained(q, S), x) \in Seq(T)
          /\ ToSet(Append(q, x)) = ToSet(q) \union {x}
          /\ ToSet(Append(Retained(q, S), x)) = ToSet(Retained(q, S)) \union {x}
        BY ElementsOfAppend, AppendProperties
    <2>2. Retained(Append(q, x), S) =
            IF x \in S THEN Append(Retained(q, S), x) ELSE Retained(q, S)
        BY RetainedAppend
    <2>3. CASE x \in S
        BY <2>1, <2>2, <2>3
    <2>4. CASE x \notin S
        BY <2>1, <2>2, <2>4
    <2> QED BY <2>3, <2>4
<1>3. P = Seq(T)
    <2> HIDE DEF P
    <2>1. P \subseteq Seq(T)
        BY DEF P
    <2> QED BY <1>1, <1>2, <2>1, SequenceInduction
<1> QED BY <1>3

LEMMA RetainedInjective ==
    ASSUME NEW T, NEW s \in Seq(T), NEW S, IsInjective(s)
    PROVE  IsInjective(Retained(s, S))
<1> DEFINE P == {q \in Seq(T) : IsInjective(q) => IsInjective(Retained(q, S))}
<1>1. <<>> \in P
    BY RetainedEmpty, EmptySeq
<1>2. ASSUME NEW q \in P, NEW x \in T PROVE Append(q, x) \in P
    <2>1. Append(q, x) \in Seq(T)
        BY AppendProperties
    <2>2. ASSUME IsInjective(Append(q, x)) PROVE IsInjective(Retained(Append(q, x), S))
        <3>1. IsInjective(q) /\ x \notin ToSet(q)
            BY <2>2, InjectiveAppend
        <3>2. /\ Retained(q, S) \in Seq(T)
              /\ IsInjective(Retained(q, S))
              /\ x \notin ToSet(Retained(q, S))
            BY <3>1, RetainedElements
        <3>3. IsInjective(Append(Retained(q, S), x))
            BY <3>2, InjectiveAppend
        <3> QED BY <3>2, <3>3, RetainedAppend
    <2> QED BY <2>1, <2>2
<1>3. P = Seq(T)
    <2> HIDE DEF P
    <2>1. P \subseteq Seq(T)
        BY DEF P
    <2> QED BY <1>1, <1>2, <2>1, SequenceInduction
<1> QED BY <1>3

\* Only the elements in the sequence count.
LEMMA RetainedSame ==
    ASSUME NEW T, NEW s \in Seq(T), NEW S, NEW U, ToSet(s) \intersect S = ToSet(s) \intersect U
    PROVE  Retained(s, S) = Retained(s, U)
<1> DEFINE P == {q \in Seq(T) : ToSet(q) \intersect S = ToSet(q) \intersect U
                                  => Retained(q, S) = Retained(q, U)}
<1>1. <<>> \in P
    BY RetainedEmpty, EmptySeq
<1>2. ASSUME NEW q \in P, NEW x \in T PROVE Append(q, x) \in P
    <2>1. Append(q, x) \in Seq(T) /\ ToSet(Append(q, x)) = ToSet(q) \union {x}
        BY AppendProperties, ElementsOfAppend
    <2>2. ASSUME ToSet(Append(q, x)) \intersect S = ToSet(Append(q, x)) \intersect U
          PROVE  Retained(Append(q, x), S) = Retained(Append(q, x), U)
        <3>1. (x \in S <=> x \in U) /\ ToSet(q) \intersect S = ToSet(q) \intersect U
            BY <2>1, <2>2
        <3>2. Retained(Append(q, x), S) =
                IF x \in S THEN Append(Retained(q, S), x) ELSE Retained(q, S)
            BY RetainedAppend
        <3>3. Retained(Append(q, x), U) =
                IF x \in U THEN Append(Retained(q, U), x) ELSE Retained(q, U)
            BY RetainedAppend
        <3> QED BY <3>1, <3>2, <3>3
    <2> QED BY <2>1, <2>2
<1>3. P = Seq(T)
    <2> HIDE DEF P
    <2>1. P \subseteq Seq(T)
        BY DEF P
    <2> QED BY <1>1, <1>2, <2>1, SequenceInduction
<1> QED BY <1>3

LEMMA RetainedAll ==
    ASSUME NEW T, NEW s \in Seq(T), NEW S, ToSet(s) \subseteq S
    PROVE  Retained(s, S) = s
<1> DEFINE P == {q \in Seq(T) : ToSet(q) \subseteq S => Retained(q, S) = q}
<1>1. <<>> \in P
    BY RetainedEmpty, EmptySeq
<1>2. ASSUME NEW q \in P, NEW x \in T PROVE Append(q, x) \in P
    <2>1. Append(q, x) \in Seq(T) /\ ToSet(Append(q, x)) = ToSet(q) \union {x}
        BY AppendProperties, ElementsOfAppend
    <2>2. Retained(Append(q, x), S) =
            IF x \in S THEN Append(Retained(q, S), x) ELSE Retained(q, S)
        BY RetainedAppend
    <2>3. ASSUME ToSet(Append(q, x)) \subseteq S PROVE Retained(Append(q, x), S) = Append(q, x)
        <3>1. x \in S /\ ToSet(q) \subseteq S
            BY <2>1, <2>3
        <3> QED BY <2>2, <3>1
    <2> QED BY <2>1, <2>3, Zenon
<1>3. P = Seq(T)
    <2> HIDE DEF P
    <2>1. P \subseteq Seq(T)
        BY DEF P
    <2> QED BY <1>1, <1>2, <2>1, SequenceInduction
<1> QED BY <1>3

LEMMA RetainedTwice ==
    ASSUME NEW T, NEW s \in Seq(T), NEW S, NEW U
    PROVE  Retained(Retained(s, S), U) = Retained(s, S \intersect U)
<1> DEFINE P == {q \in Seq(T) : Retained(Retained(q, S), U) = Retained(q, S \intersect U)}
<1>1. <<>> \in P
    BY RetainedEmpty, EmptySeq
<1>2. ASSUME NEW q \in P, NEW x \in T PROVE Append(q, x) \in P
    <2>1. Append(q, x) \in Seq(T) /\ Retained(q, S) \in Seq(T)
        BY AppendProperties, RetainedElements
    <2>2. Retained(Append(q, x), S) =
            IF x \in S THEN Append(Retained(q, S), x) ELSE Retained(q, S)
        BY RetainedAppend
    <2>3. Retained(Append(q, x), S \intersect U) =
            IF x \in S \intersect U THEN Append(Retained(q, S \intersect U), x)
            ELSE Retained(q, S \intersect U)
        BY RetainedAppend
    <2>4. Retained(Append(Retained(q, S), x), U) =
            IF x \in U THEN Append(Retained(Retained(q, S), U), x)
            ELSE Retained(Retained(q, S), U)
        BY <2>1, RetainedAppend
    <2>5. Retained(Retained(q, S), U) = Retained(q, S \intersect U)
        OBVIOUS
    <2>6. Retained(Retained(Append(q, x), S), U) = Retained(Append(q, x), S \intersect U)
        <3> HIDE DEF P
        <3>1. CASE x \in S \intersect U
            <4>1. Retained(Append(q, x), S) = Append(Retained(q, S), x)
                BY <2>2, <3>1
            <4>2. Retained(Append(Retained(q, S), x), U) = Append(Retained(Retained(q, S), U), x)
                BY <2>4, <3>1
            <4> QED BY <2>3, <2>5, <3>1, <4>1, <4>2
        <3>2. CASE x \in S /\ x \notin U
            <4>1. Retained(Append(q, x), S) = Append(Retained(q, S), x)
                BY <2>2, <3>2
            <4>2. Retained(Append(Retained(q, S), x), U) = Retained(Retained(q, S), U)
                BY <2>4, <3>2
            <4>3. x \notin S \intersect U
                BY <3>2
            <4> QED BY <2>3, <2>5, <4>1, <4>2, <4>3
        <3>3. CASE x \notin S
            <4>1. x \notin S \intersect U
                BY <3>3
            <4>2. Retained(Append(q, x), S) = Retained(q, S)
                BY <2>2, <3>3
            <4> QED BY <2>3, <2>5, <4>1, <4>2
        <3> QED BY <3>1, <3>2, <3>3
    <2> QED BY <2>1, <2>6
<1>3. P = Seq(T)
    <2> HIDE DEF P
    <2>1. P \subseteq Seq(T)
        BY DEF P
    <2> QED BY <1>1, <1>2, <2>1, SequenceInduction
<1> QED BY <1>3

LEMMA RetainedTail ==
    ASSUME NEW T, NEW s \in Seq(T), s # <<>>, IsInjective(s)
    PROVE  Retained(s, T \ {Head(s)}) = Tail(s)
<1> DEFINE P == {q \in Seq(T) : q # <<>> /\ IsInjective(q)
                                  => Retained(q, T \ {Head(q)}) = Tail(q)}
<1>1. <<>> \in P
    BY EmptySeq
<1>2. ASSUME NEW q \in P, NEW x \in T PROVE Append(q, x) \in P
    <2>1. Append(q, x) \in Seq(T)
        BY AppendProperties
    <2>2. /\ Head(Append(q, x)) = IF q = <<>> THEN x ELSE Head(q)
          /\ Tail(Append(q, x)) = IF q = <<>> THEN <<>> ELSE Append(Tail(q), x)
        BY HeadTailAppend
    <2>3. \A U : Retained(Append(q, x), U) =
                  IF x \in U THEN Append(Retained(q, U), x) ELSE Retained(q, U)
        BY RetainedAppend
    <2>4. ASSUME IsInjective(Append(q, x))
          PROVE  Retained(Append(q, x), T \ {Head(Append(q, x))}) = Tail(Append(q, x))
        <3>1. CASE q = <<>>
            BY <2>2, <2>3, <3>1, RetainedEmpty
        <3>2. CASE q # <<>>
            <4>1. IsInjective(q) /\ x \notin ToSet(q)
                BY <2>4, InjectiveAppend
            <4>2. x # Head(q)
                BY <3>2, <4>1, ElementsOfSequence
            <4>3. Retained(q, T \ {Head(q)}) = Tail(q)
                BY <3>2, <4>1
            <4> QED BY <2>2, <2>3, <3>2, <4>2, <4>3
        <3> QED BY <3>1, <3>2
    <2> QED BY <2>1, <2>4
<1>3. P = Seq(T)
    <2> HIDE DEF P
    <2>1. P \subseteq Seq(T)
        BY DEF P
    <2> QED BY <1>1, <1>2, <2>1, SequenceInduction
<1> QED BY <1>3

LEMMA TailOfInjective ==
    ASSUME NEW T, NEW s \in Seq(T), s # <<>>, IsInjective(s)
    PROVE  /\ Tail(s) \in Seq(T)
           /\ IsInjective(Tail(s))
           /\ ToSet(Tail(s)) = ToSet(s) \ {Head(s)}
<1>1. Retained(s, T \ {Head(s)}) = Tail(s)
    BY RetainedTail
<1>2. /\ Retained(s, T \ {Head(s)}) \in Seq(T)
      /\ IsInjective(Retained(s, T \ {Head(s)}))
      /\ ToSet(Retained(s, T \ {Head(s)})) = ToSet(s) \intersect (T \ {Head(s)})
    BY RetainedElements, RetainedInjective
<1>3. ToSet(s) \subseteq T
    BY ElementsOfSequence
<1> QED BY <1>1, <1>2, <1>3

LEMMA RetainedHead ==
    ASSUME NEW T, NEW s \in Seq(T), NEW S, s # <<>>, Head(s) \in S
    PROVE  Retained(s, S) # <<>> /\ Head(Retained(s, S)) = Head(s)
<1> DEFINE P == {q \in Seq(T) : q # <<>> /\ Head(q) \in S
                                  => Retained(q, S) # <<>> /\ Head(Retained(q, S)) = Head(q)}
<1>1. <<>> \in P
    BY EmptySeq
<1>2. ASSUME NEW q \in P, NEW x \in T PROVE Append(q, x) \in P
    <2>1. Append(q, x) \in Seq(T) /\ Retained(q, S) \in Seq(T)
        BY AppendProperties, RetainedElements
    <2>2. Retained(Append(q, x), S) =
            IF x \in S THEN Append(Retained(q, S), x) ELSE Retained(q, S)
        BY RetainedAppend
    <2>3. /\ Head(Append(q, x)) = IF q = <<>> THEN x ELSE Head(q)
          /\ Head(Append(Retained(q, S), x)) =
               IF Retained(q, S) = <<>> THEN x ELSE Head(Retained(q, S))
          /\ Append(Retained(q, S), x) # <<>>
        BY <2>1, HeadTailAppend, AppendProperties
    <2>4. ASSUME Head(Append(q, x)) \in S
          PROVE  /\ Retained(Append(q, x), S) # <<>>
                 /\ Head(Retained(Append(q, x), S)) = Head(Append(q, x))
        <3>1. CASE q = <<>>
            BY <2>2, <2>3, <2>4, <3>1, RetainedEmpty
        <3>2. CASE q # <<>>
            BY <2>2, <2>3, <2>4, <3>2
        <3> QED BY <3>1, <3>2
    <2> QED BY <2>1, <2>4
<1>3. P = Seq(T)
    <2> HIDE DEF P
    <2>1. P \subseteq Seq(T)
        BY DEF P
    <2> QED BY <1>1, <1>2, <2>1, SequenceInduction
<1> QED BY <1>3

\* Retaining the positions of what is retained.
LEMMA RetainedPositions ==
    ASSUME NEW T, NEW s \in Seq(T), NEW L, IsInjective(s)
    PROVE  LET turns == Retained([i \in DOMAIN s |-> i],
                                 {i \in DOMAIN s : /\ s[i] \in L
                                                   /\ \A j \in 1..(i - 1) : s[j] # s[i]})
           IN  [i \in DOMAIN turns |-> s[turns[i]]] = Retained(s, L)
<1> DEFINE I == [i \in DOMAIN s |-> i]
           K == {i \in DOMAIN s : s[i] \in L /\ \A j \in 1..(i - 1) : s[j] # s[i]}
           Of(r) == [i \in DOMAIN r |-> s[r[i]]]
           A == Retaining(I, K)
           B == Retaining(s, L)
           N == {n \in Nat : n <= Len(s) => A[n] \in Seq(1..Len(s)) /\ Of(A[n]) = B[n]}
<1>1. /\ Len(s) \in Nat
      /\ DOMAIN s = 1..Len(s)
      /\ s \in [1..Len(s) -> T]
    BY LenProperties
<1>2. I \in Seq(1..Len(s)) /\ Len(I) = Len(s) /\ \A i \in 1..Len(s) : I[i] = i
    BY <1>1
<1>3. \A i \in 1..Len(s) : i \in K <=> s[i] \in L
    BY <1>1 DEF IsInjective
<1>4. /\ A[0] = <<>>
      /\ \A n \in 1..Len(s) : A[n] = IF I[n] \in K THEN Append(A[n - 1], I[n]) ELSE A[n - 1]
    <2> HIDE DEF I, K
    <2> QED BY <1>1, <1>2, RetainingStep
<1>5. /\ B[0] = <<>>
      /\ \A n \in 1..Len(s) : B[n] = IF s[n] \in L THEN Append(B[n - 1], s[n]) ELSE B[n - 1]
    BY <1>1, RetainingStep
<1> HIDE DEF I, K, A, B
<1>6. 0 \in N
    BY <1>4, <1>5, EmptySeq
<1>7. ASSUME NEW n \in N PROVE n + 1 \in N
    <2> SUFFICES ASSUME n + 1 <= Len(s)
                 PROVE  A[n + 1] \in Seq(1..Len(s)) /\ Of(A[n + 1]) = B[n + 1]
        OBVIOUS
    <2>1. n + 1 \in 1..Len(s) /\ (n + 1) - 1 = n
        BY <1>1
    <2>2. A[n] \in Seq(1..Len(s)) /\ Of(A[n]) = B[n]
        BY <1>1, <2>1
    <2>3. CASE s[n + 1] \in L
        <3>1. A[n + 1] = Append(A[n], n + 1) /\ B[n + 1] = Append(B[n], s[n + 1])
            BY <1>2, <1>3, <1>4, <1>5, <2>1, <2>3
        <3>2. \A r \in Seq(1..Len(s)) : Of(Append(r, n + 1)) = Append(Of(r), s[n + 1])
            BY <1>1, <2>1
        <3>3. Append(A[n], n + 1) \in Seq(1..Len(s))
            BY <2>1, <2>2, AppendProperties
        <3>4. Of(Append(A[n], n + 1)) = Append(Of(A[n]), s[n + 1])
            BY <2>2, <3>2
        <3>5. Append(A[n], n + 1) = A[n + 1] /\ Append(Of(A[n]), s[n + 1]) = B[n + 1]
            BY <2>2, <3>1
        <3> HIDE DEF Of
        <3> QED BY <3>3, <3>4, <3>5, Zenon
    <2>4. CASE s[n + 1] \notin L
        <3>1. A[n + 1] = A[n] /\ B[n + 1] = B[n]
            <4>1. I[n + 1] \notin K
                BY <1>2, <1>3, <2>1, <2>4
            <4>2. A[n + 1] = A[(n + 1) - 1] /\ B[n + 1] = B[(n + 1) - 1]
                BY <1>4, <1>5, <2>1, <2>4, <4>1
            <4> QED BY <2>1, <4>2
        <3> HIDE DEF Of
        <3> QED BY <2>2, <3>1
    <2> QED BY <2>3, <2>4
<1>8. Of(A[Len(s)]) = B[Len(s)]
    <2>1. N = Nat
        <3> HIDE DEF N
        <3>1. N \subseteq Nat
            BY DEF N
        <3> QED BY <1>6, <1>7, <3>1, Induction
    <2> QED BY <1>1, <2>1
<1>9. Len(I) = Len(s)
    BY <1>2
<1> QED BY <1>8, <1>9 DEF Retained, I, K, A, B

LEMMA NoSequence ==
    SetToSeq({}) = <<>>
<1> DEFINE Ordering(f) == f \in [1..Cardinality({}) -> {}] /\ IsInjective(f)
<1>1. Cardinality({}) = 0
    BY FS_EmptySet
<1>2. Ordering(<<>>)
    BY <1>1 DEF IsInjective
<1>3. \A f : Ordering(f) => f = <<>>
    BY <1>1
<1> QED BY <1>2, <1>3 DEF SetToSeq

-----------------------------------------------------------------------------
(* The maps and the queues.  QueuesAgree is Agrees and HeadGhost.          *)
Waiting(a) == {w \in WorkflowId : a.waiting[w] # None}
Ghosts(a) == {w \in WorkflowId : a.waiting[w] = None /\ w \in ToSet(a.projects[ProjectOf[w]])}

Agrees(a) ==
    /\ \A w \in WorkflowId :
         /\ a.workflow_projects[w] = IF a.waiting[w] = None THEN None ELSE ProjectOf[w]
         /\ a.waiting[w] # None => a.active[w] = None /\ w \in ToSet(a.projects[ProjectOf[w]])
    /\ \A p \in ProjectId :
         /\ IsInjective(a.projects[p])
         /\ \A w \in ToSet(a.projects[p]) : ProjectOf[w] = p
         /\ a.projects[p] # <<>> <=> p \in ToSet(a.rotation)
    /\ IsInjective(a.rotation)

HeadGhost(a) ==
    \A w \in Ghosts(a) : ~debug /\ Ghosts(a) = {w} /\ Head(a.projects[ProjectOf[w]]) = w

LEMMA AgreesIsQueuesAgree ==
    ASSUME admission \in AdmissionRecord
    PROVE  QueuesAgree <=> Agrees(admission) /\ HeadGhost(admission)
<1> DEFINE a == admission
           G == {w \in WorkflowId : a.waiting[w] = None
                                    /\ \E p \in ProjectId : Contains(a.projects[p], w)}
<1>1. a.projects \in [ProjectId -> Seq(WorkflowId)] /\ a.rotation \in Seq(ProjectId)
    BY DEF AdmissionRecord
<1>2. /\ \A p \in ProjectId, w \in WorkflowId :
           Contains(a.projects[p], w) <=> w \in ToSet(a.projects[p])
      /\ \A p \in ProjectId : Contains(a.rotation, p) <=> p \in ToSet(a.rotation)
      /\ \A p \in ProjectId : ToSet(a.projects[p]) \subseteq WorkflowId
    BY <1>1, ElementsOfSequence
<1>3. ProjectOf \in [WorkflowId -> ProjectId]
    BY ConstantsAssumption
<1>4. ASSUME \A p \in ProjectId : \A w \in ToSet(a.projects[p]) : ProjectOf[w] = p
      PROVE  G = Ghosts(a)
    BY <1>2, <1>3, <1>4 DEF Ghosts
<1> DEFINE Part ==
        /\ \A w \in WorkflowId :
             /\ a.workflow_projects[w] = IF a.waiting[w] = None THEN None ELSE ProjectOf[w]
             /\ a.waiting[w] # None => a.active[w] = None /\ Contains(a.projects[ProjectOf[w]], w)
        /\ \A p \in ProjectId :
             /\ IsInjective(a.projects[p])
             /\ \A w \in ToSet(a.projects[p]) : ProjectOf[w] = p
             /\ a.projects[p] # <<>> <=> Contains(a.rotation, p)
        /\ IsInjective(a.rotation)
<1>5. Part <=> Agrees(a)
    BY <1>2, <1>3 DEF Agrees
<1>6. QueuesAgree <=>
        Part /\ \A w \in G : ~debug /\ G = {w} /\ Head(a.projects[ProjectOf[w]]) = w
    BY DEF QueuesAgree
<1>7. Part => \A p \in ProjectId : \A w \in ToSet(a.projects[p]) : ProjectOf[w] = p
    OBVIOUS
<1>8. Part => G = Ghosts(a)
    BY <1>4, <1>7
<1> HIDE DEF Part, G
<1> QED BY <1>5, <1>6, <1>8 DEF HeadGhost, a

-----------------------------------------------------------------------------
(* What the operations make of the maps and the queues.                    *)
LEMMA AdmissionFields ==
    ASSUME NEW a \in AdmissionRecord
    PROVE  /\ a.active \in [WorkflowId -> 0..Lease \union {None}]
           /\ a.waiting \in [WorkflowId -> 0..Lease \union {None}]
           /\ a.workflow_projects \in [WorkflowId -> ProjectId \union {None}]
           /\ a.projects \in [ProjectId -> Seq(WorkflowId)]
           /\ a.rotation \in Seq(ProjectId)
           /\ a.controller \in ControllerRecord
           /\ a.since_tick \in 0..TickTime
           /\ \A w \in WorkflowId : a.projects[ProjectOf[w]] \in Seq(WorkflowId)
BY ConstantsAssumption DEF AdmissionRecord

\* A request first drops what ran out: a queue keeps who waits on.
LEMMA ReapFields ==
    ASSUME NEW a \in AdmissionRecord, Agrees(a)
    PROVE  LET r == Reap(a)
               stay == {w \in WorkflowId : a.waiting[w] \notin {None, 0}}
           IN  /\ r \in AdmissionRecord
               /\ \A w \in WorkflowId :
                    /\ r.active[w] = IF a.active[w] = 0 \/ a.waiting[w] = 0 THEN None
                                     ELSE a.active[w]
                    /\ r.waiting[w] = IF w \in stay THEN a.waiting[w] ELSE None
                    /\ r.workflow_projects[w] = IF w \in stay THEN ProjectOf[w] ELSE None
               /\ \A p \in ProjectId : r.projects[p] = Retained(a.projects[p], stay)
               /\ r.rotation = Retained(a.rotation, {p \in ProjectId : r.projects[p] # <<>>})
<1> DEFINE r == Reap(a)
           all == {w \in WorkflowId : a.waiting[w] \notin {None, 0}}
           stay(p) == {w \in WorkflowId :
                         a.waiting[w] \notin {None, 0} /\ a.workflow_projects[w] = p}
           queued == {w \in WorkflowId :
                        \E p \in ProjectId : w \in stay(p) /\ Contains(a.projects[p], w)}
           living == {p \in ProjectId : \E w \in stay(p) : Contains(a.projects[p], w)}
           turns == Retained([i \in DOMAIN a.rotation |-> i],
                             {i \in DOMAIN a.rotation :
                                /\ a.rotation[i] \in living
                                /\ \A j \in 1..(i - 1) : a.rotation[j] # a.rotation[i]})
           missing == living \ ToSet(a.rotation)
           turned == [i \in DOMAIN turns |-> a.rotation[turns[i]]]
<1>1. /\ a.active \in [WorkflowId -> 0..Lease \union {None}]
      /\ a.waiting \in [WorkflowId -> 0..Lease \union {None}]
      /\ a.workflow_projects \in [WorkflowId -> ProjectId \union {None}]
      /\ a.projects \in [ProjectId -> Seq(WorkflowId)]
      /\ a.rotation \in Seq(ProjectId)
    BY AdmissionFields
<1>2. /\ \A p \in ProjectId, w \in WorkflowId :
           Contains(a.projects[p], w) <=> w \in ToSet(a.projects[p])
      /\ \A p \in ProjectId : ToSet(a.projects[p]) \subseteq WorkflowId
    BY <1>1, ElementsOfSequence
<1>3. ProjectOf \in [WorkflowId -> ProjectId] /\ None \notin ProjectId
    BY ConstantsAssumption, NoneAssumption
<1>4. \A p \in ProjectId : stay(p) = {w \in all : ProjectOf[w] = p}
    BY <1>3 DEF Agrees
<1>5. queued = all
    BY <1>2, <1>3, <1>4 DEF Agrees
<1>6. /\ \A p \in ProjectId : Retained(a.projects[p], stay(p)) = Retained(a.projects[p], all)
      /\ \A p \in ProjectId : Retained(a.projects[p], all) \in Seq(WorkflowId)
      /\ \A p \in ProjectId : ToSet(Retained(a.projects[p], all)) = ToSet(a.projects[p]) \intersect all
    <2> SUFFICES ASSUME NEW p \in ProjectId
                 PROVE  /\ Retained(a.projects[p], stay(p)) = Retained(a.projects[p], all)
                        /\ Retained(a.projects[p], all) \in Seq(WorkflowId)
                        /\ ToSet(Retained(a.projects[p], all)) = ToSet(a.projects[p]) \intersect all
        OBVIOUS
    <2>1. a.projects[p] \in Seq(WorkflowId)
        BY <1>1
    <2>2. ToSet(a.projects[p]) \intersect stay(p) = ToSet(a.projects[p]) \intersect all
        BY <1>2, <1>4 DEF Agrees
    <2> HIDE DEF stay, all
    <2> QED BY <2>1, <2>2, RetainedSame, RetainedElements
<1>7. living = {p \in ProjectId : Retained(a.projects[p], all) # <<>>}
    <2>1. \A p \in ProjectId : p \in living <=> ToSet(a.projects[p]) \intersect all # {}
        BY <1>2, <1>4 DEF Agrees
    <2>2. \A p \in ProjectId : Retained(a.projects[p], all) # <<>>
                                 <=> ToSet(Retained(a.projects[p], all)) # {}
        <3> HIDE DEF all
        <3> QED BY <1>6, ElementsOfSequence
    <2>3. \A p \in ProjectId : p \in living <=> Retained(a.projects[p], all) # <<>>
        <3> HIDE DEF all, living
        <3> QED BY <1>6, <2>1, <2>2
    <2> QED BY <2>3
<1>8. living \subseteq ToSet(a.rotation)
    BY <1>2, ElementsOfSequence, <1>1 DEF Agrees
<1>9. turned = Retained(a.rotation, living)
    <2> HIDE DEF living
    <2> QED BY <1>1, RetainedPositions DEF Agrees
<1>10. Retained(a.rotation, living) \in Seq(ProjectId)
    BY <1>1, RetainedElements
<1>11. missing = {}
    BY <1>8
<1>12. r = [a EXCEPT
              !.active = [w \in WorkflowId |->
                            IF a.active[w] = 0 \/ a.waiting[w] = 0 THEN None ELSE a.active[w]],
              !.projects = [p \in ProjectId |-> Retained(a.projects[p], stay(p))],
              !.waiting = [w \in WorkflowId |-> IF w \in queued THEN a.waiting[w] ELSE None],
              !.workflow_projects =
                  [w \in WorkflowId |-> IF w \in queued THEN a.workflow_projects[w] ELSE None],
              !.rotation = turned \o SetToSeq(missing)]
    BY DEF Reap
<1>13. turned \o SetToSeq(missing) = Retained(a.rotation, living)
    <2> HIDE DEF turned, missing, living
    <2> QED BY <1>9, <1>10, <1>11, NoSequence, ConcatEmptySeq
<1> HIDE DEF r, all, stay, queued, living, turns, missing, turned
<1>14. r = [a EXCEPT
              !.active = [w \in WorkflowId |->
                            IF a.active[w] = 0 \/ a.waiting[w] = 0 THEN None ELSE a.active[w]],
              !.projects = [p \in ProjectId |-> Retained(a.projects[p], stay(p))],
              !.waiting = [w \in WorkflowId |-> IF w \in queued THEN a.waiting[w] ELSE None],
              !.workflow_projects =
                  [w \in WorkflowId |-> IF w \in queued THEN a.workflow_projects[w] ELSE None],
              !.rotation = Retained(a.rotation, living)]
    BY <1>12, <1>13
<1>15. /\ r.active = [w \in WorkflowId |->
                        IF a.active[w] = 0 \/ a.waiting[w] = 0 THEN None ELSE a.active[w]]
       /\ r.projects = [p \in ProjectId |-> Retained(a.projects[p], stay(p))]
       /\ r.waiting = [w \in WorkflowId |-> IF w \in queued THEN a.waiting[w] ELSE None]
       /\ r.workflow_projects =
             [w \in WorkflowId |-> IF w \in queued THEN a.workflow_projects[w] ELSE None]
       /\ r.rotation = Retained(a.rotation, living)
       /\ r.controller = a.controller
       /\ r.since_tick = a.since_tick
       /\ r = [active |-> r.active, waiting |-> r.waiting,
               workflow_projects |-> r.workflow_projects, projects |-> r.projects,
               rotation |-> r.rotation, controller |-> r.controller, since_tick |-> r.since_tick]
    BY <1>14 DEF AdmissionRecord
<1>16. \A p \in ProjectId : r.projects[p] = Retained(a.projects[p], all)
    BY <1>6, <1>15
<1>17. r.rotation = Retained(a.rotation, {p \in ProjectId : r.projects[p] # <<>>})
    BY <1>7, <1>15, <1>16
<1>18. \A w \in WorkflowId :
         /\ r.active[w] = IF a.active[w] = 0 \/ a.waiting[w] = 0 THEN None ELSE a.active[w]
         /\ r.waiting[w] = IF w \in all THEN a.waiting[w] ELSE None
         /\ r.workflow_projects[w] = IF w \in all THEN ProjectOf[w] ELSE None
    BY <1>5, <1>15 DEF Agrees, all
<1>19. r \in AdmissionRecord
    <2>1. /\ r.active \in [WorkflowId -> 0..Lease \union {None}]
          /\ r.waiting \in [WorkflowId -> 0..Lease \union {None}]
          /\ r.workflow_projects \in [WorkflowId -> ProjectId \union {None}]
        BY <1>1, <1>15
    <2>2. r.projects \in [ProjectId -> Seq(WorkflowId)] /\ r.rotation \in Seq(ProjectId)
        BY <1>6, <1>10, <1>15
    <2>3. r.controller \in ControllerRecord /\ r.since_tick \in 0..TickTime
        BY <1>15, AdmissionFields
    <2> QED BY <1>15, <2>1, <2>2, <2>3 DEF AdmissionRecord
<1> QED BY <1>16, <1>17, <1>18, <1>19 DEF r, all

LEMMA ReapAgrees ==
    ASSUME NEW a \in AdmissionRecord, Agrees(a)
    PROVE  Agrees(Reap(a)) /\ Ghosts(Reap(a)) = {}
<1> DEFINE r == Reap(a)
           stay == {w \in WorkflowId : a.waiting[w] \notin {None, 0}}
           living == {p \in ProjectId : r.projects[p] # <<>>}
<1> HIDE DEF r
<1>1. /\ r \in AdmissionRecord
      /\ \A w \in WorkflowId :
           /\ r.active[w] = IF a.active[w] = 0 \/ a.waiting[w] = 0 THEN None ELSE a.active[w]
           /\ r.waiting[w] = IF w \in stay THEN a.waiting[w] ELSE None
           /\ r.workflow_projects[w] = IF w \in stay THEN ProjectOf[w] ELSE None
      /\ \A p \in ProjectId : r.projects[p] = Retained(a.projects[p], stay)
      /\ r.rotation = Retained(a.rotation, living)
    BY ReapFields DEF r
<1>2. /\ ProjectOf \in [WorkflowId -> ProjectId]
      /\ a.projects \in [ProjectId -> Seq(WorkflowId)]
      /\ a.rotation \in Seq(ProjectId)
      /\ r.projects \in [ProjectId -> Seq(WorkflowId)]
      /\ r.rotation \in Seq(ProjectId)
    BY <1>1, ConstantsAssumption, AdmissionFields
<1>3. /\ \A w \in stay : w \in WorkflowId /\ a.waiting[w] \notin {None, 0}
      /\ \A w \in WorkflowId \ stay : a.waiting[w] \in {None, 0}
    OBVIOUS
<1>4. \A p \in ProjectId : p \in living <=> r.projects[p] # <<>>
    OBVIOUS
<1> HIDE DEF stay, living
<1>5. \A p \in ProjectId :
         /\ IsInjective(r.projects[p])
         /\ ToSet(r.projects[p]) = ToSet(a.projects[p]) \intersect stay
         /\ r.projects[p] # <<>> <=> ToSet(r.projects[p]) # {}
         /\ a.projects[p] # <<>> <=> ToSet(a.projects[p]) # {}
    <2> SUFFICES ASSUME NEW p \in ProjectId
                 PROVE  /\ IsInjective(r.projects[p])
                        /\ ToSet(r.projects[p]) = ToSet(a.projects[p]) \intersect stay
                        /\ r.projects[p] # <<>> <=> ToSet(r.projects[p]) # {}
                        /\ a.projects[p] # <<>> <=> ToSet(a.projects[p]) # {}
        OBVIOUS
    <2>1. /\ a.projects[p] \in Seq(WorkflowId) /\ r.projects[p] \in Seq(WorkflowId)
          /\ IsInjective(a.projects[p])
          /\ r.projects[p] = Retained(a.projects[p], stay)
        BY <1>1, <1>2 DEF Agrees
    <2> QED BY <2>1, RetainedInjective, RetainedElements, ElementsOfSequence
<1>6. /\ IsInjective(r.rotation)
      /\ ToSet(r.rotation) = ToSet(a.rotation) \intersect living
    BY <1>1, <1>2, RetainedInjective, RetainedElements DEF Agrees
<1>7. ASSUME NEW w \in WorkflowId
      PROVE  /\ r.workflow_projects[w] = IF r.waiting[w] = None THEN None ELSE ProjectOf[w]
             /\ r.waiting[w] # None => /\ r.active[w] = None
                                       /\ w \in ToSet(r.projects[ProjectOf[w]])
    <2>1. CASE w \in stay
        <3>1. a.waiting[w] # None /\ a.waiting[w] # 0
            BY <1>3, <2>1
        <3>2. a.active[w] = None /\ w \in ToSet(a.projects[ProjectOf[w]])
            BY <3>1 DEF Agrees
        <3>3. r.active[w] = None /\ r.waiting[w] # None /\ r.workflow_projects[w] = ProjectOf[w]
            BY <1>1, <2>1, <3>1, <3>2
        <3>4. w \in ToSet(r.projects[ProjectOf[w]])
            BY <1>2, <1>5, <2>1, <3>2
        <3> QED BY <3>3, <3>4
    <2>2. CASE w \notin stay
        BY <1>1, <2>2
    <2> QED BY <2>1, <2>2
<1>8. ASSUME NEW p \in ProjectId
      PROVE  /\ \A w \in ToSet(r.projects[p]) : ProjectOf[w] = p
             /\ r.projects[p] # <<>> <=> p \in ToSet(r.rotation)
    BY <1>4, <1>5, <1>6 DEF Agrees
<1>9. Ghosts(r) = {}
    <2> SUFFICES ASSUME NEW w \in Ghosts(r) PROVE FALSE
        OBVIOUS
    <2>1. w \in WorkflowId /\ r.waiting[w] = None /\ w \in ToSet(r.projects[ProjectOf[w]])
        BY DEF Ghosts
    <2>2. w \in stay
        BY <1>2, <1>5, <2>1
    <2> QED BY <1>1, <1>3, <2>1, <2>2
<1> QED BY <1>5, <1>6, <1>7, <1>8, <1>9 DEF Agrees, r

\* A request that waits has a place in its queue.
LEMMA EnqueueAgrees ==
    ASSUME NEW a \in AdmissionRecord, Agrees(a), Ghosts(a) = {},
           NEW w \in WorkflowId, a.active[w] = None
    PROVE  LET e == Enqueue(a, w)
           IN  /\ e \in AdmissionRecord
               /\ Agrees(e)
               /\ Ghosts(e) = {}
               /\ e.active = a.active
               /\ e.waiting[w] = Lease
<1> DEFINE e == Enqueue(a, w)
           q == ProjectOf[w]
<1>1. /\ ProjectOf \in [WorkflowId -> ProjectId] /\ q \in ProjectId
      /\ Lease \in Nat /\ Lease # 0 /\ None \notin 0..Lease /\ Lease \in 0..Lease
      /\ a.active \in [WorkflowId -> 0..Lease \union {None}]
      /\ a.waiting \in [WorkflowId -> 0..Lease \union {None}]
      /\ a.workflow_projects \in [WorkflowId -> ProjectId \union {None}]
      /\ a.projects \in [ProjectId -> Seq(WorkflowId)]
      /\ a.rotation \in Seq(ProjectId)
    BY ConstantsAssumption, NoneAssumption, AdmissionFields
<1>2. CASE a.waiting[w] # None
    <2>1. e = [a EXCEPT !.waiting[w] = Lease]
        BY <1>2 DEF Enqueue
    <2>2. /\ e.active = a.active /\ e.workflow_projects = a.workflow_projects
          /\ e.projects = a.projects /\ e.rotation = a.rotation
          /\ e.waiting = [a.waiting EXCEPT ![w] = Lease]
          /\ e \in AdmissionRecord
        <3>1. [a.waiting EXCEPT ![w] = Lease] \in [WorkflowId -> 0..Lease \union {None}]
            BY <1>1
        <3> QED BY <2>1, <3>1 DEF AdmissionRecord
    <2> HIDE DEF e
    <2>3. \A u \in WorkflowId : e.waiting[u] = None <=> a.waiting[u] = None
        BY <1>1, <1>2, <2>2
    <2>4. Agrees(e)
        BY <2>2, <2>3 DEF Agrees
    <2>5. Ghosts(e) = {}
        BY <2>2, <2>3 DEF Ghosts
    <2> QED BY <1>1, <2>2, <2>4, <2>5 DEF e
<1>3. CASE a.waiting[w] = None
    <2>1. e = [a EXCEPT !.waiting[w] = Lease,
                        !.projects[q] = Append(@, w),
                        !.workflow_projects[w] = q,
                        !.rotation = IF a.projects[q] = <<>> THEN Append(@, q) ELSE @]
        BY <1>3 DEF Enqueue
    <2>2. /\ e.active = a.active
          /\ e.waiting = [a.waiting EXCEPT ![w] = Lease]
          /\ e.workflow_projects = [a.workflow_projects EXCEPT ![w] = q]
          /\ e.projects = [a.projects EXCEPT ![q] = Append(a.projects[q], w)]
          /\ e.rotation = IF a.projects[q] = <<>> THEN Append(a.rotation, q) ELSE a.rotation
          /\ e.controller = a.controller /\ e.since_tick = a.since_tick
          /\ e = [active |-> e.active, waiting |-> e.waiting,
                  workflow_projects |-> e.workflow_projects, projects |-> e.projects,
                  rotation |-> e.rotation, controller |-> e.controller,
                  since_tick |-> e.since_tick]
        BY <1>1, <2>1 DEF AdmissionRecord
    <2> HIDE DEF e
    <2>3. a.projects[q] \in Seq(WorkflowId) /\ IsInjective(a.projects[q])
        BY <1>1 DEF Agrees
    <2>4. w \notin ToSet(a.projects[q])
        BY <1>3 DEF Ghosts
    <2>5. /\ Append(a.projects[q], w) \in Seq(WorkflowId)
          /\ ToSet(Append(a.projects[q], w)) = ToSet(a.projects[q]) \union {w}
          /\ IsInjective(Append(a.projects[q], w))
          /\ Append(a.projects[q], w) # <<>>
        BY <2>3, <2>4, ElementsOfAppend, InjectiveAppend, AppendProperties
    <2>6. /\ e.rotation \in Seq(ProjectId)
          /\ IsInjective(e.rotation)
          /\ ToSet(e.rotation) = ToSet(a.rotation) \union {q}
        <3>1. /\ Append(a.rotation, q) \in Seq(ProjectId)
              /\ ToSet(Append(a.rotation, q)) = ToSet(a.rotation) \union {q}
              /\ IsInjective(Append(a.rotation, q)) <=> q \notin ToSet(a.rotation)
            BY <1>1, ElementsOfAppend, InjectiveAppend, AppendProperties DEF Agrees
        <3>2. a.projects[q] # <<>> <=> q \in ToSet(a.rotation)
            BY <1>1 DEF Agrees
        <3>3. IsInjective(a.rotation)
            BY DEF Agrees
        <3>4. CASE a.projects[q] = <<>>
            BY <2>2, <3>1, <3>2, <3>4
        <3>5. CASE a.projects[q] # <<>>
            BY <1>1, <2>2, <3>2, <3>3, <3>5
        <3> QED BY <3>4, <3>5
    <2>7. \A p \in ProjectId : p # q => e.projects[p] = a.projects[p]
        BY <1>1, <2>2
    <2>8. e.projects[q] = Append(a.projects[q], w)
        BY <1>1, <2>2
    <2>9. e \in AdmissionRecord
        <3>1. e.projects \in [ProjectId -> Seq(WorkflowId)]
            BY <1>1, <2>2, <2>5
        <3>2. e.waiting \in [WorkflowId -> 0..Lease \union {None}]
            BY <1>1, <2>2
        <3>3. e.workflow_projects \in [WorkflowId -> ProjectId \union {None}]
            BY <1>1, <2>2
        <3>4. e.controller \in ControllerRecord /\ e.since_tick \in 0..TickTime
            BY <2>2, AdmissionFields
        <3> QED BY <1>1, <2>2, <2>6, <3>1, <3>2, <3>3, <3>4 DEF AdmissionRecord
    <2>10. ASSUME NEW u \in WorkflowId
           PROVE  /\ e.workflow_projects[u] = IF e.waiting[u] = None THEN None ELSE ProjectOf[u]
                  /\ e.waiting[u] # None => e.active[u] = None
                                            /\ u \in ToSet(e.projects[ProjectOf[u]])
                  /\ u \notin Ghosts(e)
        <3>1. CASE u = w
            BY <1>1, <2>2, <2>5, <2>8, <3>1 DEF Ghosts
        <3>2. CASE u # w
            <4>1. e.waiting[u] = a.waiting[u] /\ e.workflow_projects[u] = a.workflow_projects[u]
                BY <2>2, <3>2
            <4>2. u \in ToSet(e.projects[ProjectOf[u]]) <=> u \in ToSet(a.projects[ProjectOf[u]])
                BY <1>1, <2>5, <2>7, <2>8, <3>2
            <4> QED BY <2>2, <4>1, <4>2 DEF Agrees, Ghosts
        <3> QED BY <3>1, <3>2
    <2>11. ASSUME NEW p \in ProjectId
           PROVE  /\ IsInjective(e.projects[p])
                  /\ \A u \in ToSet(e.projects[p]) : ProjectOf[u] = p
                  /\ e.projects[p] # <<>> <=> p \in ToSet(e.rotation)
        <3>1. CASE p = q
            <4>1. \A u \in ToSet(a.projects[q]) : ProjectOf[u] = q
                BY <1>1 DEF Agrees
            <4> QED BY <1>1, <2>5, <2>6, <2>8, <3>1, <4>1
        <3>2. CASE p # q
            <4>1. e.projects[p] = a.projects[p]
                BY <2>7, <3>2
            <4>2. p \in ToSet(e.rotation) <=> p \in ToSet(a.rotation)
                BY <2>6, <3>2
            <4> QED BY <4>1, <4>2 DEF Agrees
        <3> QED BY <3>1, <3>2
    <2>12. Agrees(e)
        BY <2>6, <2>10, <2>11 DEF Agrees
    <2>13. Ghosts(e) = {}
        BY <2>10 DEF Ghosts
    <2>14. e.waiting[w] = Lease
        BY <1>1, <2>2
    <2> QED BY <2>2, <2>9, <2>12, <2>13, <2>14 DEF e
<1> QED BY <1>2, <1>3

\* Only who is in a map counts, not until when, nor ticks and resources.
LEMMA SameQueues ==
    ASSUME NEW a, NEW b,
           \A w \in WorkflowId : /\ b.waiting[w] = None <=> a.waiting[w] = None
                                 /\ b.active[w] = None <=> a.active[w] = None,
           b.workflow_projects = a.workflow_projects,
           b.projects = a.projects,
           b.rotation = a.rotation
    PROVE  /\ Agrees(a) => Agrees(b)
           /\ Ghosts(b) = Ghosts(a)
           /\ HeadGhost(a) => HeadGhost(b)
           /\ Active(b) = Active(a)
           /\ Queue(b) = Queue(a)
<1>1. Ghosts(b) = Ghosts(a)
    BY DEF Ghosts
<1>2. Agrees(a) => Agrees(b)
    BY DEF Agrees
<1>3. HeadGhost(a) => HeadGhost(b)
    BY <1>1 DEF HeadGhost
<1>4. Active(b) = Active(a)
    BY DEF Active
<1>5. {w \in WorkflowId : b.waiting[w] # None} = {w \in WorkflowId : a.waiting[w] # None}
    OBVIOUS
<1>6. Queue(b) = Queue(a)
    BY <1>4, <1>5 DEF Queue
<1> QED BY <1>1, <1>2, <1>3, <1>4, <1>6

\* Whoever is first gets a slot.  A release build leaves it at the head.
LEMMA DequeueFields ==
    ASSUME NEW a \in AdmissionRecord, NEW w \in WorkflowId
    PROVE  LET d == [DequeueFront(a, w) EXCEPT !.active[w] = Lease]
               q == ProjectOf[w]
               queue == IF debug THEN Tail(a.projects[q]) ELSE a.projects[q]
           IN  /\ d.active = [a.active EXCEPT ![w] = Lease]
               /\ d.waiting = [a.waiting EXCEPT ![w] = None]
               /\ d.workflow_projects = [a.workflow_projects EXCEPT ![w] = None]
               /\ d.projects = [a.projects EXCEPT ![q] = queue]
               /\ d.rotation = IF queue = <<>> THEN Tail(a.rotation)
                               ELSE Append(Tail(a.rotation), q)
               /\ d.controller = a.controller /\ d.since_tick = a.since_tick
               /\ d = [active |-> d.active, waiting |-> d.waiting,
                       workflow_projects |-> d.workflow_projects, projects |-> d.projects,
                       rotation |-> d.rotation, controller |-> d.controller,
                       since_tick |-> d.since_tick]
<1> DEFINE q == ProjectOf[w]
           queue == IF debug THEN Tail(a.projects[q]) ELSE a.projects[q]
           rotation == IF queue = <<>> THEN Tail(a.rotation) ELSE Append(Tail(a.rotation), q)
<1>1. DequeueFront(a, w) = [a EXCEPT !.projects[q] = queue,
                                     !.waiting[w] = None,
                                     !.workflow_projects[w] = None,
                                     !.rotation = rotation]
    BY DEF DequeueFront
<1>2. a = [active |-> a.active, waiting |-> a.waiting,
           workflow_projects |-> a.workflow_projects, projects |-> a.projects,
           rotation |-> a.rotation, controller |-> a.controller,
           since_tick |-> a.since_tick]
    BY DEF AdmissionRecord
<1> HIDE DEF queue, rotation, q
<1>3. DequeueFront(a, w) =
        [active |-> a.active, waiting |-> [a.waiting EXCEPT ![w] = None],
         workflow_projects |-> [a.workflow_projects EXCEPT ![w] = None],
         projects |-> [a.projects EXCEPT ![q] = queue],
         rotation |-> rotation, controller |-> a.controller,
         since_tick |-> a.since_tick]
    BY <1>1, <1>2
<1> DEFINE d == [DequeueFront(a, w) EXCEPT !.active[w] = Lease]
<1>4. d = [active |-> [a.active EXCEPT ![w] = Lease],
           waiting |-> [a.waiting EXCEPT ![w] = None],
           workflow_projects |-> [a.workflow_projects EXCEPT ![w] = None],
           projects |-> [a.projects EXCEPT ![q] = queue],
           rotation |-> rotation, controller |-> a.controller,
           since_tick |-> a.since_tick]
    BY <1>3
<1> HIDE DEF d
<1>5. /\ d.active = [a.active EXCEPT ![w] = Lease]
      /\ d.waiting = [a.waiting EXCEPT ![w] = None]
      /\ d.workflow_projects = [a.workflow_projects EXCEPT ![w] = None]
      /\ d.projects = [a.projects EXCEPT ![q] = queue]
      /\ d.rotation = rotation
      /\ d.controller = a.controller /\ d.since_tick = a.since_tick
      /\ d = [active |-> d.active, waiting |-> d.waiting,
              workflow_projects |-> d.workflow_projects, projects |-> d.projects,
              rotation |-> d.rotation, controller |-> d.controller,
              since_tick |-> d.since_tick]
    BY <1>4
<1> QED BY <1>5, Zenon DEF d, queue, rotation, q

LEMMA DequeueAgrees ==
    ASSUME NEW a \in AdmissionRecord, Agrees(a), Ghosts(a) = {}, debug \in BOOLEAN,
           NEW w \in WorkflowId, a.waiting[w] # None, First(a, w)
    PROVE  LET d == [DequeueFront(a, w) EXCEPT !.active[w] = Lease]
           IN  /\ d \in AdmissionRecord
               /\ Agrees(d)
               /\ HeadGhost(d)
               /\ Active(d) = Active(a) \union {w}
<1> DEFINE d == [DequeueFront(a, w) EXCEPT !.active[w] = Lease]
           q == ProjectOf[w]
           line == a.projects[q]
           queue == IF debug THEN Tail(line) ELSE line
           rotation == IF queue = <<>> THEN Tail(a.rotation) ELSE Append(Tail(a.rotation), q)
<1>1. /\ ProjectOf \in [WorkflowId -> ProjectId] /\ q \in ProjectId
      /\ Lease \in 0..Lease /\ None \notin 0..Lease
      /\ a.active \in [WorkflowId -> 0..Lease \union {None}]
      /\ a.waiting \in [WorkflowId -> 0..Lease \union {None}]
      /\ a.workflow_projects \in [WorkflowId -> ProjectId \union {None}]
      /\ a.projects \in [ProjectId -> Seq(WorkflowId)]
      /\ a.rotation \in Seq(ProjectId)
      /\ line \in Seq(WorkflowId)
    BY ConstantsAssumption, NoneAssumption, AdmissionFields
<1>2. /\ d.active = [a.active EXCEPT ![w] = Lease]
      /\ d.waiting = [a.waiting EXCEPT ![w] = None]
      /\ d.workflow_projects = [a.workflow_projects EXCEPT ![w] = None]
      /\ d.projects = [a.projects EXCEPT ![q] = queue]
      /\ d.rotation = rotation
      /\ d.controller = a.controller /\ d.since_tick = a.since_tick
      /\ d = [active |-> d.active, waiting |-> d.waiting,
              workflow_projects |-> d.workflow_projects, projects |-> d.projects,
              rotation |-> d.rotation, controller |-> d.controller,
              since_tick |-> d.since_tick]
    BY DequeueFields
<1> HIDE DEF d
<1>3. w \in ToSet(line) /\ a.workflow_projects[w] = q /\ a.active[w] = None
    BY DEF Agrees
<1>4. line # <<>> /\ q \in ToSet(a.rotation) /\ IsInjective(line) /\ IsInjective(a.rotation)
    BY <1>1, <1>3, ElementsOfSequence DEF Agrees
<1>5. a.rotation # <<>>
    BY <1>1, <1>4, ElementsOfSequence
<1>6. Head(a.rotation) = q /\ Head(line) = w
    BY DEF First
<1>7. /\ Tail(line) \in Seq(WorkflowId)
      /\ IsInjective(Tail(line))
      /\ ToSet(Tail(line)) = ToSet(line) \ {w}
    BY <1>1, <1>4, <1>6, TailOfInjective
<1>8. /\ Tail(a.rotation) \in Seq(ProjectId)
      /\ IsInjective(Tail(a.rotation))
      /\ ToSet(Tail(a.rotation)) = ToSet(a.rotation) \ {q}
    BY <1>1, <1>4, <1>5, <1>6, TailOfInjective
<1>9. /\ queue \in Seq(WorkflowId)
      /\ IsInjective(queue)
      /\ \A u : u # w => (u \in ToSet(queue) <=> u \in ToSet(line))
      /\ w \in ToSet(queue) <=> ~debug
      /\ ~debug => queue = line
    BY <1>1, <1>3, <1>4, <1>7
<1>10. /\ Append(Tail(a.rotation), q) \in Seq(ProjectId)
       /\ IsInjective(Append(Tail(a.rotation), q))
       /\ ToSet(Append(Tail(a.rotation), q)) = ToSet(a.rotation)
    <2>1. q \notin ToSet(Tail(a.rotation)) /\ ToSet(a.rotation) = (ToSet(a.rotation) \ {q}) \union {q}
        BY <1>4, <1>8
    <2> HIDE DEF q
    <2>2. /\ Append(Tail(a.rotation), q) \in Seq(ProjectId)
          /\ ToSet(Append(Tail(a.rotation), q)) = ToSet(Tail(a.rotation)) \union {q}
          /\ IsInjective(Append(Tail(a.rotation), q))
        <3>1. Tail(a.rotation) \in Seq(ProjectId) /\ IsInjective(Tail(a.rotation)) /\ q \in ProjectId
            BY <1>1, <1>8
        <3>2. Append(Tail(a.rotation), q) \in Seq(ProjectId)
            BY <3>1, AppendProperties
        <3>3. ToSet(Append(Tail(a.rotation), q)) = ToSet(Tail(a.rotation)) \union {q}
            BY <3>1, ElementsOfAppend
        <3>4. IsInjective(Append(Tail(a.rotation), q))
            BY <2>1, <3>1, InjectiveAppend
        <3> QED BY <3>2, <3>3, <3>4
    <2> QED BY <1>8, <2>1, <2>2
<1>11. /\ rotation \in Seq(ProjectId)
       /\ IsInjective(rotation)
       /\ \A p \in ProjectId : p # q => (p \in ToSet(rotation) <=> p \in ToSet(a.rotation))
       /\ q \in ToSet(rotation) <=> queue # <<>>
    <2> HIDE DEF queue, line
    <2>1. CASE queue = <<>>
        BY <1>8, <2>1
    <2>2. CASE queue # <<>>
        BY <1>4, <1>10, <2>2
    <2> QED BY <2>1, <2>2
<1> HIDE DEF queue, rotation
<1>12. /\ d.projects[q] = queue
       /\ \A p \in ProjectId : p # q => d.projects[p] = a.projects[p]
    BY <1>1, <1>2
<1>13. d \in AdmissionRecord
    <2>1. /\ d.active \in [WorkflowId -> 0..Lease \union {None}]
          /\ d.waiting \in [WorkflowId -> 0..Lease \union {None}]
          /\ d.workflow_projects \in [WorkflowId -> ProjectId \union {None}]
        BY <1>1, <1>2
    <2>2. d.projects \in [ProjectId -> Seq(WorkflowId)] /\ d.rotation \in Seq(ProjectId)
        BY <1>1, <1>2, <1>9, <1>11
    <2>3. d.controller \in ControllerRecord /\ d.since_tick \in 0..TickTime
        BY <1>2, AdmissionFields
    <2> QED BY <1>2, <2>1, <2>2, <2>3 DEF AdmissionRecord
<1>14. ASSUME NEW u \in WorkflowId
       PROVE  /\ d.workflow_projects[u] = IF d.waiting[u] = None THEN None ELSE ProjectOf[u]
              /\ d.waiting[u] # None => d.active[u] = None
                                        /\ u \in ToSet(d.projects[ProjectOf[u]])
              /\ u \in Ghosts(d) => u = w /\ ~debug
    <2>1. CASE u = w
        BY <1>1, <1>2, <1>9, <1>12, <2>1 DEF Ghosts
    <2>2. CASE u # w
        <3>1. /\ d.waiting[u] = a.waiting[u] /\ d.active[u] = a.active[u]
              /\ d.workflow_projects[u] = a.workflow_projects[u]
            BY <1>2, <2>2
        <3>2. u \in ToSet(d.projects[ProjectOf[u]]) <=> u \in ToSet(a.projects[ProjectOf[u]])
            BY <1>1, <1>9, <1>12, <2>2
        <3> QED BY <3>1, <3>2 DEF Agrees, Ghosts
    <2> QED BY <2>1, <2>2
<1>15. ASSUME NEW p \in ProjectId
       PROVE  /\ IsInjective(d.projects[p])
              /\ \A u \in ToSet(d.projects[p]) : ProjectOf[u] = p
              /\ d.projects[p] # <<>> <=> p \in ToSet(d.rotation)
    <2>1. CASE p = q
        <3>1. \A u \in ToSet(line) : ProjectOf[u] = q
            BY <1>1 DEF Agrees
        <3> QED BY <1>2, <1>9, <1>11, <1>12, <2>1, <3>1
    <2>2. CASE p # q
        <3>1. d.projects[p] = a.projects[p]
            BY <1>12, <2>2
        <3>2. p \in ToSet(d.rotation) <=> p \in ToSet(a.rotation)
            BY <1>2, <1>11, <2>2
        <3> QED BY <3>1, <3>2 DEF Agrees
    <2> QED BY <2>1, <2>2
<1>16. Agrees(d)
    BY <1>2, <1>11, <1>14, <1>15 DEF Agrees
<1>17. HeadGhost(d)
    <2> SUFFICES ASSUME NEW u \in Ghosts(d)
                 PROVE  ~debug /\ Ghosts(d) = {u} /\ Head(d.projects[ProjectOf[u]]) = u
        BY DEF HeadGhost
    <2>1. u = w /\ ~debug
        BY <1>14 DEF Ghosts
    <2>2. Ghosts(d) = {u}
        BY <1>14, <2>1 DEF Ghosts
    <2> QED BY <1>6, <1>9, <1>12, <2>1, <2>2
<1>18. Active(d) = Active(a) \union {w}
    BY <1>1, <1>2 DEF Active
<1> QED BY <1>13, <1>16, <1>17, <1>18 DEF d

\* A workflow that lets go leaves its slot and its queue.
LEMMA RemovedFields ==
    ASSUME NEW a \in AdmissionRecord, Agrees(a), NEW w \in WorkflowId
    PROVE  LET r == Removed(a, {w})
               keep == IF a.waiting[w] # None THEN WorkflowId \ {w} ELSE WorkflowId
           IN  /\ r \in AdmissionRecord
               /\ \A u \in WorkflowId :
                    /\ r.active[u] = IF u = w THEN None ELSE a.active[u]
                    /\ r.waiting[u] = IF u = w THEN None ELSE a.waiting[u]
                    /\ r.workflow_projects[u] = IF u = w THEN None ELSE a.workflow_projects[u]
               /\ \A p \in ProjectId : r.projects[p] = Retained(a.projects[p], keep)
               /\ r.rotation = Retained(a.rotation, {p \in ProjectId : r.projects[p] # <<>>})
<1> DEFINE r == Removed(a, {w})
           keep == IF a.waiting[w] # None THEN WorkflowId \ {w} ELSE WorkflowId
           known == {u \in {w} : a.workflow_projects[u] # None}
           stay(p) == {u \in WorkflowId : u \notin known \/ a.workflow_projects[u] # p}
           queues == [p \in ProjectId |-> Retained(a.projects[p], stay(p))]
           emptied == {p \in ProjectId : a.projects[p] # <<>> /\ queues[p] = <<>>}
           living == {p \in ProjectId : queues[p] # <<>>}
           active == [u \in WorkflowId |-> IF u \in {w} THEN None ELSE a.active[u]]
           waiting == [u \in WorkflowId |-> IF u \in known THEN None ELSE a.waiting[u]]
           where == [u \in WorkflowId |-> IF u \in {w} THEN None ELSE a.workflow_projects[u]]
<1>1. /\ ProjectOf \in [WorkflowId -> ProjectId] /\ None \notin ProjectId
      /\ a.active \in [WorkflowId -> 0..Lease \union {None}]
      /\ a.waiting \in [WorkflowId -> 0..Lease \union {None}]
      /\ a.workflow_projects \in [WorkflowId -> ProjectId \union {None}]
      /\ a.projects \in [ProjectId -> Seq(WorkflowId)]
      /\ a.rotation \in Seq(ProjectId)
    BY ConstantsAssumption, NoneAssumption, AdmissionFields
<1>2. \A p \in ProjectId : ToSet(a.projects[p]) \subseteq WorkflowId
    BY <1>1, ElementsOfSequence
<1>3. a.waiting[w] # None <=> w \in known
    BY <1>1 DEF Agrees
<1>4. \A p \in ProjectId :
         ToSet(a.projects[p]) \intersect stay(p) = ToSet(a.projects[p]) \intersect keep
    BY <1>1, <1>2, <1>3 DEF Agrees
<1>5. r = [a EXCEPT !.active = active, !.workflow_projects = where, !.waiting = waiting,
                    !.projects = queues,
                    !.rotation = Retained(a.rotation, ProjectId \ emptied)]
    BY DEF Removed
<1> HIDE DEF stay, keep
<1>6. \A p \in ProjectId : queues[p] = Retained(a.projects[p], keep) /\ queues[p] \in Seq(WorkflowId)
    BY <1>1, <1>4, RetainedSame, RetainedElements
<1>7. queues \in [ProjectId -> Seq(WorkflowId)]
    BY <1>6
<1> HIDE DEF queues
<1>8. /\ Retained(a.rotation, ProjectId \ emptied) = Retained(a.rotation, living)
      /\ Retained(a.rotation, living) \in Seq(ProjectId)
    <2>1. ToSet(a.rotation) \subseteq ProjectId
        BY <1>1, ElementsOfSequence
    <2>2. ToSet(a.rotation) \intersect (ProjectId \ emptied) = ToSet(a.rotation) \intersect living
        BY <2>1 DEF Agrees
    <2> HIDE DEF emptied, living
    <2> QED BY <1>1, <2>2, RetainedSame, RetainedElements
<1> HIDE DEF r, known, emptied, living, active, waiting, where
<1>9. /\ r.active = active /\ r.waiting = waiting /\ r.workflow_projects = where
      /\ r.projects = queues /\ r.rotation = Retained(a.rotation, living)
      /\ r.controller = a.controller /\ r.since_tick = a.since_tick
      /\ r = [active |-> r.active, waiting |-> r.waiting,
              workflow_projects |-> r.workflow_projects, projects |-> r.projects,
              rotation |-> r.rotation, controller |-> r.controller,
              since_tick |-> r.since_tick]
    BY <1>5, <1>8 DEF AdmissionRecord
<1>10. r \in AdmissionRecord
    <2>1. /\ active \in [WorkflowId -> 0..Lease \union {None}]
          /\ waiting \in [WorkflowId -> 0..Lease \union {None}]
          /\ where \in [WorkflowId -> ProjectId \union {None}]
        BY <1>1 DEF active, waiting, where
    <2>2. r.controller \in ControllerRecord /\ r.since_tick \in 0..TickTime
        BY <1>9, AdmissionFields
    <2> QED BY <1>7, <1>8, <1>9, <2>1, <2>2 DEF AdmissionRecord
<1>11. \A u \in WorkflowId :
         /\ r.active[u] = IF u = w THEN None ELSE a.active[u]
         /\ r.waiting[u] = IF u = w THEN None ELSE a.waiting[u]
         /\ r.workflow_projects[u] = IF u = w THEN None ELSE a.workflow_projects[u]
    BY <1>3, <1>9 DEF active, waiting, where, known
<1>12. \A p \in ProjectId : r.projects[p] = Retained(a.projects[p], keep)
    BY <1>6, <1>9
<1>13. r.rotation = Retained(a.rotation, {p \in ProjectId : r.projects[p] # <<>>})
    BY <1>9 DEF living
<1> QED BY <1>10, <1>11, <1>12, <1>13 DEF r, keep

LEMMA RemovedAgrees ==
    ASSUME NEW a \in AdmissionRecord, Agrees(a), HeadGhost(a), NEW w \in WorkflowId
    PROVE  /\ Agrees(Removed(a, {w}))
           /\ HeadGhost(Removed(a, {w}))
           /\ Active(Removed(a, {w})) = Active(a) \ {w}
<1> DEFINE r == Removed(a, {w})
           keep == IF a.waiting[w] # None THEN WorkflowId \ {w} ELSE WorkflowId
           living == {p \in ProjectId : r.projects[p] # <<>>}
<1> HIDE DEF r
<1>1. /\ r \in AdmissionRecord
      /\ \A u \in WorkflowId :
           /\ r.active[u] = IF u = w THEN None ELSE a.active[u]
           /\ r.waiting[u] = IF u = w THEN None ELSE a.waiting[u]
           /\ r.workflow_projects[u] = IF u = w THEN None ELSE a.workflow_projects[u]
      /\ \A p \in ProjectId : r.projects[p] = Retained(a.projects[p], keep)
      /\ r.rotation = Retained(a.rotation, living)
    BY RemovedFields DEF r
<1>2. /\ ProjectOf \in [WorkflowId -> ProjectId]
      /\ a.projects \in [ProjectId -> Seq(WorkflowId)]
      /\ a.rotation \in Seq(ProjectId)
      /\ r.projects \in [ProjectId -> Seq(WorkflowId)]
      /\ r.rotation \in Seq(ProjectId)
    BY <1>1, ConstantsAssumption, AdmissionFields
<1>3. /\ \A u \in WorkflowId : u # w => u \in keep
      /\ w \in keep <=> a.waiting[w] = None
    OBVIOUS
<1>4. \A p \in ProjectId : p \in living <=> r.projects[p] # <<>>
    OBVIOUS
<1> HIDE DEF keep, living
<1>5. \A p \in ProjectId :
         /\ IsInjective(r.projects[p])
         /\ ToSet(a.projects[p]) \subseteq WorkflowId
         /\ ToSet(r.projects[p]) = ToSet(a.projects[p]) \intersect keep
         /\ r.projects[p] # <<>> <=> ToSet(r.projects[p]) # {}
         /\ a.projects[p] # <<>> <=> ToSet(a.projects[p]) # {}
    <2> SUFFICES ASSUME NEW p \in ProjectId
                 PROVE  /\ IsInjective(r.projects[p])
                        /\ ToSet(a.projects[p]) \subseteq WorkflowId
                        /\ ToSet(r.projects[p]) = ToSet(a.projects[p]) \intersect keep
                        /\ r.projects[p] # <<>> <=> ToSet(r.projects[p]) # {}
                        /\ a.projects[p] # <<>> <=> ToSet(a.projects[p]) # {}
        OBVIOUS
    <2>1. /\ a.projects[p] \in Seq(WorkflowId) /\ r.projects[p] \in Seq(WorkflowId)
          /\ IsInjective(a.projects[p])
          /\ r.projects[p] = Retained(a.projects[p], keep)
        BY <1>1, <1>2 DEF Agrees
    <2> QED BY <2>1, RetainedInjective, RetainedElements, ElementsOfSequence
<1>6. /\ IsInjective(r.rotation)
      /\ ToSet(r.rotation) = ToSet(a.rotation) \intersect living
    BY <1>1, <1>2, RetainedInjective, RetainedElements DEF Agrees
<1>7. ASSUME NEW u \in WorkflowId
      PROVE  /\ r.workflow_projects[u] = IF r.waiting[u] = None THEN None ELSE ProjectOf[u]
             /\ r.waiting[u] # None => /\ r.active[u] = None
                                       /\ u \in ToSet(r.projects[ProjectOf[u]])
    <2>1. CASE u = w
        BY <1>1, <2>1
    <2>2. CASE u # w
        <3>1. /\ r.waiting[u] = a.waiting[u] /\ r.active[u] = a.active[u]
              /\ r.workflow_projects[u] = a.workflow_projects[u]
            BY <1>1, <2>2
        <3>2. u \in ToSet(r.projects[ProjectOf[u]]) <=> u \in ToSet(a.projects[ProjectOf[u]])
            BY <1>2, <1>3, <1>5, <2>2
        <3> QED BY <3>1, <3>2 DEF Agrees
    <2> QED BY <2>1, <2>2
<1>8. ASSUME NEW p \in ProjectId
      PROVE  /\ \A u \in ToSet(r.projects[p]) : ProjectOf[u] = p
             /\ r.projects[p] # <<>> <=> p \in ToSet(r.rotation)
    <2>1. \A u \in ToSet(a.projects[p]) : ProjectOf[u] = p
        BY DEF Agrees
    <2>2. r.projects[p] # <<>> => p \in ToSet(a.rotation)
        BY <1>5 DEF Agrees
    <2> QED BY <1>4, <1>5, <1>6, <2>1, <2>2
<1>9. Agrees(r)
    BY <1>5, <1>6, <1>7, <1>8 DEF Agrees
<1>10. Ghosts(r) = Ghosts(a)
    <2> SUFFICES ASSUME NEW u \in WorkflowId PROVE u \in Ghosts(r) <=> u \in Ghosts(a)
        BY DEF Ghosts
    <2>1. u \in ToSet(r.projects[ProjectOf[u]])
            <=> u \in ToSet(a.projects[ProjectOf[u]]) /\ u \in keep
        BY <1>2, <1>5
    <2> QED BY <1>1, <1>3, <2>1 DEF Ghosts
<1>11. HeadGhost(r)
    <2> SUFFICES ASSUME NEW u \in Ghosts(r)
                 PROVE  ~debug /\ Ghosts(r) = {u} /\ Head(r.projects[ProjectOf[u]]) = u
        BY DEF HeadGhost
    <2>1. u \in Ghosts(a) /\ u \in WorkflowId /\ a.waiting[u] = None
        BY <1>10 DEF Ghosts
    <2>2. ~debug /\ Ghosts(a) = {u} /\ Head(a.projects[ProjectOf[u]]) = u
        BY <2>1 DEF HeadGhost
    <2>3. u \in keep /\ a.projects[ProjectOf[u]] # <<>>
        BY <1>2, <1>3, <1>5, <2>1 DEF Ghosts
    <2>4. /\ a.projects[ProjectOf[u]] \in Seq(WorkflowId)
          /\ r.projects[ProjectOf[u]] = Retained(a.projects[ProjectOf[u]], keep)
        BY <1>1, <1>2, <2>1
    <2>5. Head(r.projects[ProjectOf[u]]) = u
        BY <2>2, <2>3, <2>4, RetainedHead
    <2> QED BY <1>10, <2>2, <2>5
<1>12. Active(r) = Active(a) \ {w}
    BY <1>1 DEF Active
<1> QED BY <1>9, <1>11, <1>12 DEF r

-----------------------------------------------------------------------------
(* The queue that FairTurns sees: whom the ghosts of a release build leave. *)

\* Without a ghost it is the structure itself.
LEMMA QueueWithoutGhosts ==
    ASSUME NEW a \in AdmissionRecord, Agrees(a), Ghosts(a) = {}
    PROVE  Queue(a) = [line |-> a.projects, turn |-> a.rotation, running |-> Active(a)]
<1> DEFINE W == {w \in WorkflowId : a.waiting[w] # None}
           lines == [p \in ProjectId |-> Retained(a.projects[p], W)]
           L == {p \in ProjectId : lines[p] # <<>>}
<1>1. /\ a.projects \in [ProjectId -> Seq(WorkflowId)]
      /\ a.rotation \in Seq(ProjectId)
    BY AdmissionFields
<1>2. ASSUME NEW p \in ProjectId PROVE Retained(a.projects[p], W) = a.projects[p]
    <2>1. a.projects[p] \in Seq(WorkflowId) /\ ToSet(a.projects[p]) \subseteq WorkflowId
        BY <1>1, ElementsOfSequence
    <2>2. ToSet(a.projects[p]) \subseteq W
        BY <2>1 DEF Agrees, Ghosts
    <2> HIDE DEF W
    <2> QED BY <2>1, <2>2, RetainedAll
<1> HIDE DEF W
<1>3. lines = a.projects
    BY <1>1, <1>2
<1>4. Queue(a) = [line |-> lines, turn |-> Retained(a.rotation, L), running |-> Active(a)]
    BY DEF Queue, W
<1> HIDE DEF lines
<1>5. ToSet(a.rotation) \subseteq L
    <2>1. ToSet(a.rotation) \subseteq ProjectId
        BY <1>1, ElementsOfSequence
    <2> QED BY <1>3, <2>1 DEF Agrees
<1> HIDE DEF L
<1>6. Retained(a.rotation, L) = a.rotation
    BY <1>1, <1>5, RetainedAll
<1> QED BY <1>3, <1>4, <1>6

LEMMA RetainedOfTurns ==
    ASSUME NEW q, NEW S
    PROVE  Turns!Retained(q, S) = Retained(q, S)
BY DEF Turns!Retained, Turns!Retaining, Retained, Retaining

\* Whoever is dropped or lets go leaves it.
Leaves(a, b, keep, gone) ==
    /\ \A p \in ProjectId : b.projects[p] = Retained(a.projects[p], keep)
    /\ b.rotation = Retained(a.rotation, {p \in ProjectId : b.projects[p] # <<>>})
    /\ \A w \in WorkflowId : w \in keep /\ b.waiting[w] # None
                                <=> a.waiting[w] # None /\ w \notin gone
    /\ Active(b) = Active(a) \ gone

LEMMA QueueLeft ==
    ASSUME NEW a \in AdmissionRecord, Agrees(a), NEW b \in AdmissionRecord,
           NEW keep, NEW gone, Leaves(a, b, keep, gone)
    PROVE  Queue(b) = Turns!Left(Queue(a), gone)
<1> DEFINE Wa == {w \in WorkflowId : a.waiting[w] # None}
           Wb == {w \in WorkflowId : b.waiting[w] # None}
           La == [p \in ProjectId |-> Retained(a.projects[p], Wa)]
           Lb == [p \in ProjectId |-> Retained(b.projects[p], Wb)]
           Ta == {p \in ProjectId : La[p] # <<>>}
           Tb == {p \in ProjectId : Lb[p] # <<>>}
           living == {p \in ProjectId : b.projects[p] # <<>>}
           rest == [p \in ProjectId |-> Retained(La[p], WorkflowId \ gone)]
           Tr == {p \in ProjectId : rest[p] # <<>>}
<1>0. /\ \A p \in ProjectId : b.projects[p] = Retained(a.projects[p], keep)
      /\ b.rotation = Retained(a.rotation, living)
      /\ \A w \in WorkflowId : w \in keep /\ b.waiting[w] # None
                                  <=> a.waiting[w] # None /\ w \notin gone
      /\ Active(b) = Active(a) \ gone
    BY DEF Leaves
<1>1. /\ a.projects \in [ProjectId -> Seq(WorkflowId)] /\ a.rotation \in Seq(ProjectId)
      /\ b.projects \in [ProjectId -> Seq(WorkflowId)]
    BY AdmissionFields
<1>2. Queue(a) = [line |-> La, turn |-> Retained(a.rotation, Ta), running |-> Active(a)]
    BY DEF Queue
<1>3. Queue(b) = [line |-> Lb, turn |-> Retained(b.rotation, Tb), running |-> Active(b)]
    BY DEF Queue
<1>4. keep \intersect Wb \intersect WorkflowId = Wa \intersect (WorkflowId \ gone)
    BY <1>0
<1> HIDE DEF Wa, Wb
<1>5. ASSUME NEW p \in ProjectId
      PROVE  /\ Lb[p] = rest[p]
             /\ rest[p] # <<>> => La[p] # <<>>
             /\ Lb[p] # <<>> => b.projects[p] # <<>>
    <2> DEFINE P == a.projects[p]
    <2>1. P \in Seq(WorkflowId) /\ ToSet(P) \subseteq WorkflowId
        BY <1>1, ElementsOfSequence
    <2> HIDE DEF P
    <2>2. Retained(Retained(P, keep), Wb) = Retained(P, keep \intersect Wb)
        BY <2>1, RetainedTwice
    <2>3. Retained(Retained(P, Wa), WorkflowId \ gone) = Retained(P, Wa \intersect (WorkflowId \ gone))
        BY <2>1, RetainedTwice
    <2>4. ToSet(P) \intersect (keep \intersect Wb) = ToSet(P) \intersect (Wa \intersect (WorkflowId \ gone))
        BY <1>4, <2>1
    <2>5. Retained(P, keep \intersect Wb) = Retained(P, Wa \intersect (WorkflowId \ gone))
        BY <2>1, <2>4, RetainedSame
    <2>6. Lb[p] = Retained(Retained(P, keep), Wb)
        BY <1>0 DEF P
    <2>7. rest[p] = Retained(Retained(P, Wa), WorkflowId \ gone) /\ La[p] = Retained(P, Wa)
        BY DEF P
    <2> QED BY <2>2, <2>3, <2>5, <2>6, <2>7, RetainedEmpty
<1>6. Lb = rest
    BY <1>5
<1>7. Tb = Tr
    BY <1>5
<1>8. living \intersect Tb = Ta \intersect Tr
    BY <1>5
<1> HIDE DEF La, Lb, rest, living, Ta, Tb, Tr
<1>9. Retained(Retained(a.rotation, living), Tb) = Retained(Retained(a.rotation, Ta), Tr)
    <2>1. /\ Retained(Retained(a.rotation, living), Tb) = Retained(a.rotation, living \intersect Tb)
          /\ Retained(Retained(a.rotation, Ta), Tr) = Retained(a.rotation, Ta \intersect Tr)
        BY <1>1, RetainedTwice
    <2> QED BY <1>8, <2>1
<1>10. b.rotation = Retained(a.rotation, living)
    BY <1>0
<1>11. Turns!Left(Queue(a), gone) =
         [line |-> rest, turn |-> Retained(Retained(a.rotation, Ta), Tr),
          running |-> Active(a) \ gone]
    <2> DEFINE q == Queue(a)
               left == [p \in ProjectId |-> Retained(q.line[p], WorkflowId \ gone)]
    <2>1. Turns!Left(q, gone) =
            [line |-> left, turn |-> Retained(q.turn, {p \in ProjectId : left[p] # <<>>}),
             running |-> q.running \ gone]
        BY RetainedOfTurns DEF Turns!Left
    <2>2. q.line = La /\ q.turn = Retained(a.rotation, Ta) /\ q.running = Active(a)
        BY <1>2
    <2>3. left = rest
        BY <2>2 DEF rest
    <2>4. {p \in ProjectId : left[p] # <<>>} = Tr
        BY <2>3 DEF Tr
    <2> HIDE DEF q, left
    <2> QED BY <2>1, <2>2, <2>3, <2>4 DEF q
<1> QED BY <1>0, <1>3, <1>6, <1>9, <1>10, <1>11

LEMMA QueueReaped ==
    ASSUME NEW a \in AdmissionRecord, Agrees(a)
    PROVE  Queue(Reap(a)) =
             Turns!Left(Queue(a), {w \in WorkflowId : a.waiting[w] = 0 \/ a.active[w] = 0})
<1>1. PICK keep : keep = {w \in WorkflowId : a.waiting[w] \notin {None, 0}}
    OBVIOUS
<1>2. PICK gone : gone = {w \in WorkflowId : a.waiting[w] = 0 \/ a.active[w] = 0}
    OBVIOUS
<1>3. PICK r \in AdmissionRecord :
         /\ r = Reap(a)
         /\ \A w \in WorkflowId :
              /\ r.active[w] = IF a.active[w] = 0 \/ a.waiting[w] = 0 THEN None ELSE a.active[w]
              /\ r.waiting[w] = IF w \in keep THEN a.waiting[w] ELSE None
         /\ \A p \in ProjectId : r.projects[p] = Retained(a.projects[p], keep)
         /\ r.rotation = Retained(a.rotation, {p \in ProjectId : r.projects[p] # <<>>})
    BY <1>1, ReapFields
<1>4. None # 0
    BY NoneAssumption, ConstantsAssumption
<1>5. \A w \in WorkflowId : w \in keep /\ r.waiting[w] # None
                              <=> a.waiting[w] # None /\ w \notin gone
    BY <1>1, <1>2, <1>3, <1>4 DEF Agrees
<1>6. Active(r) = Active(a) \ gone
    BY <1>2, <1>3 DEF Active
<1>7. Leaves(a, r, keep, gone)
    BY <1>3, <1>5, <1>6 DEF Leaves
<1>8. Queue(r) = Turns!Left(Queue(a), gone)
    BY <1>7, QueueLeft
<1> QED BY <1>2, <1>3, <1>8

LEMMA QueueRemoved ==
    ASSUME NEW a \in AdmissionRecord, Agrees(a), HeadGhost(a), NEW w \in WorkflowId
    PROVE  Queue(Removed(a, {w})) = Turns!Left(Queue(a), {w})
<1> DEFINE r == Removed(a, {w})
           keep == IF a.waiting[w] # None THEN WorkflowId \ {w} ELSE WorkflowId
<1> HIDE DEF r
<1>1. /\ r \in AdmissionRecord
      /\ \A u \in WorkflowId : r.waiting[u] = IF u = w THEN None ELSE a.waiting[u]
      /\ \A p \in ProjectId : r.projects[p] = Retained(a.projects[p], keep)
      /\ r.rotation = Retained(a.rotation, {p \in ProjectId : r.projects[p] # <<>>})
    BY RemovedFields DEF r
<1>2. \A u \in WorkflowId : u \in keep /\ r.waiting[u] # None
                              <=> a.waiting[u] # None /\ u \notin {w}
    BY <1>1
<1>3. Active(r) = Active(a) \ {w}
    BY RemovedAgrees DEF r
<1> HIDE DEF keep
<1>4. Leaves(a, r, keep, {w})
    BY <1>1, <1>2, <1>3 DEF Leaves
<1>5. Queue(r) = Turns!Left(Queue(a), {w})
    BY <1>1, <1>4, QueueLeft
<1> QED BY <1>5 DEF r

LEMMA ElementsOfTurns ==
    ASSUME NEW s
    PROVE  Turns!ToSet(s) = ToSet(s)
BY DEF Turns!ToSet, ToSet

LEMMA QueueJoined ==
    ASSUME NEW a \in AdmissionRecord, Agrees(a), Ghosts(a) = {},
           NEW w \in WorkflowId, a.active[w] = None
    PROVE  Queue(Enqueue(a, w)) = Turns!Joined(Queue(a), w)
<1> DEFINE e == Enqueue(a, w)
           p == ProjectOf[w]
<1>1. /\ ProjectOf \in [WorkflowId -> ProjectId] /\ p \in ProjectId
      /\ a.projects \in [ProjectId -> Seq(WorkflowId)]
    BY ConstantsAssumption, AdmissionFields
<1>2. Queue(a) = [line |-> a.projects, turn |-> a.rotation, running |-> Active(a)]
    BY QueueWithoutGhosts
<1>3. Queue(e) = [line |-> e.projects, turn |-> e.rotation, running |-> Active(a)]
    <2> HIDE DEF e
    <2>1. e \in AdmissionRecord /\ Agrees(e) /\ Ghosts(e) = {} /\ e.active = a.active
        BY EnqueueAgrees DEF e
    <2>2. Active(e) = Active(a)
        BY <2>1 DEF Active
    <2> QED BY <2>1, <2>2, QueueWithoutGhosts
<1>4. w \in Turns!InLine(Queue(a)) <=> a.waiting[w] # None
    <2>1. Turns!InLine(Queue(a)) = UNION {ToSet(a.projects[r]) : r \in ProjectId}
        BY <1>2, ElementsOfTurns DEF Turns!InLine
    <2>2. ASSUME NEW r \in ProjectId, w \in ToSet(a.projects[r]) PROVE a.waiting[w] # None
        BY <2>2 DEF Agrees, Ghosts
    <2>3. a.waiting[w] # None => w \in ToSet(a.projects[p])
        BY DEF Agrees
    <2> QED BY <1>1, <2>1, <2>2, <2>3
<1>5. CASE a.waiting[w] # None
    <2>1. e.projects = a.projects /\ e.rotation = a.rotation
        BY <1>5 DEF Enqueue, AdmissionRecord
    <2>2. Turns!Joined(Queue(a), w) = Queue(a)
        BY <1>4, <1>5 DEF Turns!Joined
    <2> HIDE DEF e
    <2> QED BY <1>2, <1>3, <2>1, <2>2 DEF e
<1>6. CASE a.waiting[w] = None
    <2>1. /\ e.projects = [a.projects EXCEPT ![p] = Append(a.projects[p], w)]
          /\ e.rotation = IF a.projects[p] = <<>> THEN Append(a.rotation, p) ELSE a.rotation
        BY <1>1, <1>6 DEF Enqueue, AdmissionRecord
    <2>2. Turns!Joined(Queue(a), w) =
            [line |-> [a.projects EXCEPT ![p] = Append(a.projects[p], w)],
             turn |-> IF a.projects[p] = <<>> THEN Append(a.rotation, p) ELSE a.rotation,
             running |-> Active(a)]
        BY <1>2, <1>4, <1>6 DEF Turns!Joined
    <2> HIDE DEF e
    <2> QED BY <1>3, <2>1, <2>2 DEF e
<1> QED BY <1>5, <1>6

LEMMA QueueServed ==
    ASSUME NEW a \in AdmissionRecord, Agrees(a), Ghosts(a) = {}, debug \in BOOLEAN,
           NEW w \in WorkflowId, a.waiting[w] # None, First(a, w)
    PROVE  Queue([DequeueFront(a, w) EXCEPT !.active[w] = Lease]) = Turns!Served(Queue(a), w)
<1> DEFINE d == [DequeueFront(a, w) EXCEPT !.active[w] = Lease]
           q == ProjectOf[w]
           line == a.projects[q]
           queue == IF debug THEN Tail(line) ELSE line
           lines == [a.projects EXCEPT ![q] = Tail(line)]
           turn == IF Tail(line) = <<>> THEN Tail(a.rotation) ELSE Append(Tail(a.rotation), q)
<1>1. /\ ProjectOf \in [WorkflowId -> ProjectId] /\ q \in ProjectId
      /\ a.projects \in [ProjectId -> Seq(WorkflowId)]
      /\ a.rotation \in Seq(ProjectId)
      /\ line \in Seq(WorkflowId)
      /\ a.waiting \in [WorkflowId -> 0..Lease \union {None}]
    BY ConstantsAssumption, AdmissionFields
<1>2. /\ d.waiting = [a.waiting EXCEPT ![w] = None]
      /\ d.projects = [a.projects EXCEPT ![q] = queue]
      /\ d.rotation = IF queue = <<>> THEN Tail(a.rotation) ELSE Append(Tail(a.rotation), q)
    BY DequeueFields
<1>3. /\ d \in AdmissionRecord
      /\ Agrees(d)
      /\ HeadGhost(d)
      /\ Active(d) = Active(a) \union {w}
    BY DequeueAgrees
<1> HIDE DEF d
<1>4. Turns!Served(Queue(a), w) =
        [line |-> lines, turn |-> turn, running |-> Active(a) \union {w}]
    <2>1. Queue(a) = [line |-> a.projects, turn |-> a.rotation, running |-> Active(a)]
        BY QueueWithoutGhosts
    <2> QED BY <2>1 DEF Turns!Served
<1>5. CASE debug
    <2>1. Ghosts(d) = {}
        BY <1>3, <1>5 DEF HeadGhost
    <2>2. Queue(d) = [line |-> d.projects, turn |-> d.rotation, running |-> Active(d)]
        BY <1>3, <2>1, QueueWithoutGhosts
    <2>3. d.projects = lines /\ d.rotation = turn
        BY <1>2, <1>5
    <2> HIDE DEF lines, turn
    <2> QED BY <1>3, <1>4, <2>2, <2>3 DEF d
<1>6. CASE ~debug
    <2> DEFINE W == {u \in WorkflowId : d.waiting[u] # None}
               Ld == [p \in ProjectId |-> Retained(d.projects[p], W)]
               L == {p \in ProjectId : Ld[p] # <<>>}
    <2>1. Queue(d) = [line |-> Ld, turn |-> Retained(d.rotation, L), running |-> Active(d)]
        BY DEF Queue
    <2>2. w \in ToSet(line) /\ line # <<>> /\ IsInjective(line) /\ Head(line) = w
        <3>1. w \in ToSet(line) /\ IsInjective(line)
            BY <1>1 DEF Agrees
        <3> QED BY <1>1, <3>1, ElementsOfSequence DEF First
    <2>3. d.projects = a.projects /\ d.rotation = Append(Tail(a.rotation), q)
        BY <1>1, <1>2, <1>6, <2>2
    <2>4. \A u \in WorkflowId : u \in W <=> u # w /\ a.waiting[u] # None
        BY <1>1, <1>2
    <2>5. \A p \in ProjectId : \A u \in ToSet(a.projects[p]) :
             u \in WorkflowId /\ ProjectOf[u] = p /\ a.waiting[u] # None
        <3> SUFFICES ASSUME NEW p \in ProjectId, NEW u \in ToSet(a.projects[p])
                     PROVE  u \in WorkflowId /\ ProjectOf[u] = p /\ a.waiting[u] # None
            OBVIOUS
        <3>1. u \in WorkflowId /\ ProjectOf[u] = p
            BY <1>1, ElementsOfSequence DEF Agrees
        <3> QED BY <3>1 DEF Ghosts
    <2> HIDE DEF W
    <2>6. Ld[q] = Tail(line)
        <3>1. ToSet(line) \intersect W = ToSet(line) \intersect (WorkflowId \ {Head(line)})
            BY <1>1, <2>2, <2>4, <2>5
        <3>2. Retained(line, W) = Retained(line, WorkflowId \ {Head(line)})
            BY <1>1, <3>1, RetainedSame
        <3>3. Retained(line, WorkflowId \ {Head(line)}) = Tail(line)
            BY <1>1, <2>2, RetainedTail
        <3> QED BY <1>1, <2>3, <3>2, <3>3
    <2>7. ASSUME NEW p \in ProjectId, p # q PROVE Ld[p] = a.projects[p]
        <3>1. a.projects[p] \in Seq(WorkflowId) /\ ToSet(a.projects[p]) \subseteq W
            BY <1>1, <2>4, <2>5, <2>7
        <3>2. Retained(a.projects[p], W) = a.projects[p]
            BY <3>1, RetainedAll
        <3> QED BY <2>3, <3>2
    <2>8. Ld = lines
        <3> HIDE DEF line
        <3>1. \A p \in ProjectId : Ld[p] = lines[p]
            BY <1>1, <2>6, <2>7
        <3>2. DOMAIN lines = ProjectId
            BY <1>1
        <3> HIDE DEF lines
        <3>3. lines = [p \in ProjectId |-> lines[p]]
            BY <1>1, <3>2 DEF lines
        <3> QED BY <3>1, <3>3
    <2>9. /\ IsInjective(a.rotation) /\ a.rotation # <<>> /\ Head(a.rotation) = q
          /\ Tail(a.rotation) \in Seq(ProjectId)
          /\ ToSet(Tail(a.rotation)) = ToSet(a.rotation) \ {q}
          /\ ToSet(a.rotation) \subseteq ProjectId
        <3>1. IsInjective(a.rotation) /\ q \in ToSet(a.rotation) /\ Head(a.rotation) = q
            BY <1>1, <2>2 DEF Agrees, First
        <3>2. a.rotation # <<>> /\ ToSet(a.rotation) \subseteq ProjectId
            BY <1>1, <3>1, ElementsOfSequence
        <3> QED BY <1>1, <3>1, <3>2, TailOfInjective
    <2>10. Retained(Tail(a.rotation), L) = Tail(a.rotation)
        <3>1. ASSUME NEW p \in ToSet(Tail(a.rotation)) PROVE p \in L
            <4>1. p \in ProjectId /\ p # q /\ p \in ToSet(a.rotation)
                BY <2>9
            <4>2. Ld[p] = a.projects[p] /\ a.projects[p] # <<>>
                BY <2>7, <4>1 DEF Agrees
            <4> QED BY <4>1, <4>2
        <3> HIDE DEF L
        <3> QED BY <2>9, <3>1, RetainedAll
    <2>11. q \in L <=> Tail(line) # <<>>
        BY <1>1, <2>6
    <2> HIDE DEF L, Ld, lines
    <2>12. Retained(d.rotation, L) = turn
        <3> HIDE DEF line, q
        <3>1. Retained(Append(Tail(a.rotation), q), L) =
                IF q \in L THEN Append(Retained(Tail(a.rotation), L), q)
                ELSE Retained(Tail(a.rotation), L)
            <4>1. Tail(a.rotation) \in Seq(ProjectId) /\ q \in ProjectId
                BY <1>1, <2>9
            <4> QED BY <4>1, RetainedAppend
        <3> QED BY <2>3, <2>10, <2>11, <3>1
    <2> HIDE DEF turn
    <2> QED BY <1>3, <1>4, <2>1, <2>8, <2>12 DEF d
<1> QED BY <1>5, <1>6

\* Leaving one after the other, and all.
LEMMA QueueLeftTwice ==
    ASSUME NEW a \in AdmissionRecord, NEW G \in SUBSET WorkflowId, NEW H \in SUBSET WorkflowId
    PROVE  Turns!Left(Turns!Left(Queue(a), G), H) = Turns!Left(Queue(a), G \union H)
<1> DEFINE q == Queue(a)
           A == [p \in ProjectId |-> Retained(q.line[p], WorkflowId \ G)]
           TA == {p \in ProjectId : A[p] # <<>>}
           B == [p \in ProjectId |-> Retained(A[p], WorkflowId \ H)]
           TB == {p \in ProjectId : B[p] # <<>>}
           C == [p \in ProjectId |-> Retained(q.line[p], WorkflowId \ (G \union H))]
           TC == {p \in ProjectId : C[p] # <<>>}
<1>1. /\ q.line \in [ProjectId -> Seq(WorkflowId)]
      /\ q.turn \in Seq(ProjectId)
    <2>1. /\ a.projects \in [ProjectId -> Seq(WorkflowId)]
          /\ a.rotation \in Seq(ProjectId)
        BY AdmissionFields
    <2>2. \A S : \A p \in ProjectId : Retained(a.projects[p], S) \in Seq(WorkflowId)
        BY <2>1, RetainedElements
    <2>3. \A S : Retained(a.rotation, S) \in Seq(ProjectId)
        BY <2>1, RetainedElements
    <2> QED BY <2>2, <2>3 DEF Queue
<1>2. Turns!Left(q, G) = [line |-> A, turn |-> Retained(q.turn, TA), running |-> q.running \ G]
    BY RetainedOfTurns DEF Turns!Left
<1>3. Turns!Left(q, G \union H) =
        [line |-> C, turn |-> Retained(q.turn, TC), running |-> q.running \ (G \union H)]
    BY RetainedOfTurns DEF Turns!Left
<1>4. Turns!Left([line |-> A, turn |-> Retained(q.turn, TA), running |-> q.running \ G], H) =
        [line |-> B, turn |-> Retained(Retained(q.turn, TA), TB),
         running |-> (q.running \ G) \ H]
    BY RetainedOfTurns DEF Turns!Left
<1> HIDE DEF q
<1>5. ASSUME NEW p \in ProjectId PROVE B[p] = C[p] /\ (B[p] # <<>> => A[p] # <<>>)
    <2>1. q.line[p] \in Seq(WorkflowId)
        BY <1>1
    <2>2. (WorkflowId \ G) \intersect (WorkflowId \ H) = WorkflowId \ (G \union H)
        OBVIOUS
    <2>3. Retained(Retained(q.line[p], WorkflowId \ G), WorkflowId \ H) =
            Retained(q.line[p], (WorkflowId \ G) \intersect (WorkflowId \ H))
        BY <2>1, RetainedTwice
    <2> QED BY <2>2, <2>3, RetainedEmpty
<1>6. B = C
    BY <1>5
<1>7. TB = TC /\ TA \intersect TB = TC
    BY <1>5
<1> HIDE DEF A, B, C, TA, TB, TC
<1>8. Retained(Retained(q.turn, TA), TB) = Retained(q.turn, TC)
    <2>1. Retained(Retained(q.turn, TA), TB) = Retained(q.turn, TA \intersect TB)
        BY <1>1, RetainedTwice
    <2> QED BY <1>7, <2>1
<1>9. (q.running \ G) \ H = q.running \ (G \union H)
    OBVIOUS
<1> QED BY <1>2, <1>3, <1>4, <1>6, <1>8, <1>9 DEF q

LEMMA QueueAllLeft ==
    ASSUME NEW a \in AdmissionRecord
    PROVE  Queue(NewAdmission) = Turns!Left(Queue(a), WorkflowId)
<1> DEFINE q == Queue(a)
           empty == [p \in ProjectId |-> <<>>]
           rest == [p \in ProjectId |-> Retained(q.line[p], WorkflowId \ WorkflowId)]
           T == {p \in ProjectId : rest[p] # <<>>}
<1>1. \A U : \A s \in Seq(U) : Retained(s, {}) = <<>>
    <2> SUFFICES ASSUME NEW U, NEW s \in Seq(U) PROVE Retained(s, {}) = <<>>
        OBVIOUS
    <2>1. Retained(s, {}) \in Seq(U) /\ ToSet(Retained(s, {})) = {}
        BY RetainedElements
    <2> QED BY <2>1, ElementsOfSequence
<1>2. /\ a.projects \in [ProjectId -> Seq(WorkflowId)]
      /\ a.rotation \in Seq(ProjectId)
    BY AdmissionFields
<1>3. \A S : \A p \in ProjectId : Retained(a.projects[p], S) \in Seq(WorkflowId)
    BY <1>2, RetainedElements
<1>4. \A S : Retained(a.rotation, S) \in Seq(ProjectId)
    BY <1>2, RetainedElements
<1>5. /\ \A p \in ProjectId : q.line[p] \in Seq(WorkflowId)
      /\ q.turn \in Seq(ProjectId)
      /\ q.running \subseteq WorkflowId
    BY <1>3, <1>4 DEF Queue, Active
<1> HIDE DEF q
<1>6. WorkflowId \ WorkflowId = {}
    OBVIOUS
<1>7. rest = empty
    BY <1>1, <1>5, <1>6
<1>8. T = {}
    BY <1>7
<1>9. q.running \ WorkflowId = {}
    BY <1>5
<1>10. Turns!Left(q, WorkflowId) =
         [line |-> rest, turn |-> Retained(q.turn, T), running |-> q.running \ WorkflowId]
    BY RetainedOfTurns DEF Turns!Left
<1> HIDE DEF rest, T, empty
<1>11. Turns!Left(q, WorkflowId) = [line |-> empty, turn |-> <<>>, running |-> {}]
    BY <1>1, <1>5, <1>7, <1>8, <1>9, <1>10
<1>12. Queue(NewAdmission) = [line |-> empty, turn |-> <<>>, running |-> {}]
    <2> DEFINE n == NewAdmission
               lines == [p \in ProjectId |->
                           Retained(n.projects[p], {w \in WorkflowId : n.waiting[w] # None})]
    <2>1. /\ n.projects = empty /\ n.rotation = <<>>
          /\ \A w \in WorkflowId : n.active[w] = None
        BY DEF NewAdmission, empty
    <2>2. Active(n) = {}
        BY <2>1 DEF Active
    <2>3. Queue(n) = [line |-> lines,
                      turn |-> Retained(n.rotation, {p \in ProjectId : lines[p] # <<>>}),
                      running |-> Active(n)]
        BY DEF Queue
    <2> HIDE DEF n
    <2>4. lines = empty
        BY <2>1, RetainedEmpty DEF empty
    <2>5. Retained(n.rotation, {p \in ProjectId : lines[p] # <<>>}) = <<>>
        BY <2>1, RetainedEmpty
    <2> HIDE DEF lines
    <2> QED BY <2>2, <2>3, <2>4, <2>5 DEF n
<1> QED BY <1>11, <1>12 DEF q

-----------------------------------------------------------------------------
(* The inductive invariant: the maps and queues agree, up to the head that  *)
(* a release build leaves, and the slots are counted.                      *)
Good(a) ==
    /\ a \in AdmissionRecord
    /\ Agrees(a)
    /\ HeadGhost(a)
    /\ IsFiniteSet(Active(a))
    /\ Cardinality(Active(a)) <= maximum_active

IInv ==
    /\ Good(admission)
    /\ maximum_active \in 1..MaximumActive
    /\ debug \in BOOLEAN
    /\ state \in [WorkflowId -> RunState]
    /\ asking \subseteq WorkflowId

\* A turn of FairTurns, or none.
Turned(b) ==
    \/ Queue(b) = Queue(admission)
    \/ \E gone \in SUBSET WorkflowId :
         LET rest == Turns!Left(Queue(admission), gone) IN
         \/ Queue(b) = rest
         \/ \E w \in WorkflowId \ rest.running :
              LET asked == Turns!Joined(rest, w) IN
              \/ Queue(b) = asked
              \/ /\ Turns!First(asked, w)
                 /\ Cardinality(asked.running) < maximum_active
                 /\ Queue(b) = Turns!Served(asked, w)

\* Fewer slots in use.
LEMMA FewerActive ==
    ASSUME maximum_active \in Nat, NEW A, NEW B, B \subseteq A, IsFiniteSet(A),
           Cardinality(A) <= maximum_active
    PROVE  IsFiniteSet(B) /\ Cardinality(B) <= maximum_active
<1>1. IsFiniteSet(B) /\ Cardinality(B) <= Cardinality(A)
    BY FS_Subset
<1>2. Cardinality(A) \in Nat /\ Cardinality(B) \in Nat
    BY <1>1, FS_CardinalityType
<1> QED BY <1>1, <1>2

LEMMA ReapGood ==
    ASSUME IInv
    PROVE  Good(Reap(admission)) /\ Ghosts(Reap(admission)) = {}
<1> DEFINE r == Reap(admission)
<1>1. /\ admission \in AdmissionRecord /\ Agrees(admission)
      /\ IsFiniteSet(Active(admission)) /\ Cardinality(Active(admission)) <= maximum_active
      /\ maximum_active \in Nat
    BY ConstantsAssumption DEF IInv, Good
<1>2. /\ r \in AdmissionRecord /\ Agrees(r) /\ Ghosts(r) = {}
      /\ Active(r) \subseteq Active(admission)
    <2>1. r \in AdmissionRecord /\ \A w \in WorkflowId : r.active[w] \in {None, admission.active[w]}
        BY <1>1, ReapFields
    <2>2. Agrees(r) /\ Ghosts(r) = {}
        BY <1>1, ReapAgrees
    <2> HIDE DEF r
    <2> QED BY <2>1, <2>2 DEF Active
<1> HIDE DEF r
<1>3. IsFiniteSet(Active(r)) /\ Cardinality(Active(r)) <= maximum_active
    BY <1>1, <1>2, FewerActive
<1> QED BY <1>2, <1>3 DEF Good, HeadGhost, r

LEMMA RemovedGood ==
    ASSUME maximum_active \in Nat, NEW a, Good(a), NEW w \in WorkflowId
    PROVE  Good(Removed(a, {w})) /\ Queue(Removed(a, {w})) = Turns!Left(Queue(a), {w})
<1> DEFINE r == Removed(a, {w})
<1>1. /\ a \in AdmissionRecord /\ Agrees(a) /\ HeadGhost(a)
      /\ IsFiniteSet(Active(a)) /\ Cardinality(Active(a)) <= maximum_active
    BY DEF Good
<1>2. /\ r \in AdmissionRecord /\ Agrees(r) /\ HeadGhost(r)
      /\ Active(r) \subseteq Active(a)
    <2>1. r \in AdmissionRecord
        BY <1>1, RemovedFields
    <2>2. Agrees(r) /\ HeadGhost(r) /\ Active(r) = Active(a) \ {w}
        BY <1>1, RemovedAgrees
    <2> QED BY <2>1, <2>2
<1>3. Queue(r) = Turns!Left(Queue(a), {w})
    BY <1>1, QueueRemoved
<1> HIDE DEF r
<1>4. IsFiniteSet(Active(r)) /\ Cardinality(Active(r)) <= maximum_active
    BY <1>1, <1>2, FewerActive
<1> QED BY <1>2, <1>3, <1>4 DEF Good, r

\* The resource controller leaves the maps alone.
LEMMA JudgedFields ==
    ASSUME NEW a \in AdmissionRecord, NEW sample
    PROVE  LET ticked == BeginTick(a)
               judged == [ticked EXCEPT !.controller = Evaluate(@, sample)]
           IN  /\ judged \in AdmissionRecord
               /\ judged.active = a.active /\ judged.waiting = a.waiting
               /\ judged.workflow_projects = a.workflow_projects
               /\ judged.projects = a.projects /\ judged.rotation = a.rotation
<1> DEFINE ticked == BeginTick(a)
           judged == [ticked EXCEPT !.controller = Evaluate(@, sample)]
<1>1. {U16Max, TickTime} \subseteq Nat \ {0}
    BY ConstantsAssumption
<1>2. \A c \in ControllerRecord : Evaluate(c, sample) \in ControllerRecord
    <2> SUFFICES ASSUME NEW c \in ControllerRecord
                 PROVE  Evaluate(c, sample) \in ControllerRecord
        OBVIOUS
    <2>1. CASE Decision(c, sample) = "DeferPressure"
        BY <2>1 DEF Evaluate, ControllerRecord
    <2>2. CASE Decision(c, sample) = "Admit"
        <3>1. Evaluate(c, sample) =
                [c EXCEPT !.admitted_this_tick = IF @ = U16Max THEN @ ELSE @ + 1]
            BY <2>2 DEF Evaluate
        <3>2. c.admitted_this_tick \in 0..U16Max /\ U16Max \in Nat
            BY <1>1 DEF ControllerRecord
        <3>3. (IF c.admitted_this_tick = U16Max THEN c.admitted_this_tick
               ELSE c.admitted_this_tick + 1) \in 0..U16Max
            BY <3>2
        <3> QED BY <3>1, <3>3 DEF ControllerRecord
    <2>3. CASE Decision(c, sample) \notin {"DeferPressure", "Admit"}
        BY <2>3 DEF Evaluate
    <2> QED BY <2>1, <2>2, <2>3
<1>3. /\ ticked \in AdmissionRecord
      /\ ticked.active = a.active /\ ticked.waiting = a.waiting
      /\ ticked.workflow_projects = a.workflow_projects
      /\ ticked.projects = a.projects /\ ticked.rotation = a.rotation
    <2>1. a.controller \in ControllerRecord
        BY DEF AdmissionRecord
    <2>2. [admitted_this_tick |-> 0, pressured_last_tick |-> FALSE,
           recovery_tick |-> a.controller.pressured_last_tick] \in ControllerRecord
        BY <1>1, <2>1 DEF ControllerRecord
    <2>3. CASE a.since_tick < TickTime
        BY <2>3 DEF BeginTick
    <2>4. CASE ~(a.since_tick < TickTime)
        <3>1. ticked = [a EXCEPT !.since_tick = 0,
                                 !.controller = [admitted_this_tick |-> 0,
                                                 pressured_last_tick |-> FALSE,
                                                 recovery_tick |-> a.controller.pressured_last_tick]]
            BY <2>4 DEF BeginTick
        <3>2. 0 \in 0..TickTime
            BY <1>1
        <3> HIDE DEF ticked
        <3> QED BY <2>2, <3>1, <3>2 DEF AdmissionRecord
    <2> QED BY <2>3, <2>4
<1> HIDE DEF ticked
<1>4. Evaluate(ticked.controller, sample) \in ControllerRecord
    BY <1>2, <1>3 DEF AdmissionRecord
<1> QED BY <1>3, <1>4 DEF AdmissionRecord, ticked

\* A request for a slot keeps the maps and queues in agreement, and is a turn.
LEMMA ExecuteGood ==
    ASSUME IInv, NEW w \in WorkflowId, NEW sample, ExecuteWith(w, sample)
    PROVE  Good(admission') /\ Turned(admission')
<1> DEFINE reaped == Reap(admission)
           queued == Enqueue(reaped, w)
           gone == {u \in WorkflowId : admission.waiting[u] = 0 \/ admission.active[u] = 0}
           rest == Turns!Left(Queue(admission), gone)
<1>1. /\ maximum_active \in Nat /\ debug \in BOOLEAN
      /\ Lease \in 0..Lease /\ None \notin 0..Lease
    BY ConstantsAssumption, NoneAssumption DEF IInv
<1>2. /\ Good(reaped) /\ Ghosts(reaped) = {}
      /\ reaped \in AdmissionRecord /\ Agrees(reaped) /\ HeadGhost(reaped)
    BY ReapGood DEF Good
<1>3. Queue(reaped) = rest
    BY QueueReaped DEF IInv, Good
<1>4. gone \in SUBSET WorkflowId
    OBVIOUS
<1>5. Executed(w, sample, reaped, queued, BeginTick(queued))
    BY DEF ExecuteWith
<1> HIDE DEF reaped, queued, gone, rest
<1>6. rest = Turns!Left(Queue(admission), gone)
    BY DEF rest
<1>7. rest.running = Active(reaped)
    BY <1>3 DEF Queue
<1>8. CASE reaped.active[w] # None /\ admission' = [reaped EXCEPT !.active[w] = Lease]
    <2>1. /\ admission' \in AdmissionRecord
          /\ admission'.active = [reaped.active EXCEPT ![w] = Lease]
          /\ admission'.waiting = reaped.waiting
          /\ admission'.workflow_projects = reaped.workflow_projects
          /\ admission'.projects = reaped.projects
          /\ admission'.rotation = reaped.rotation
        <3>1. reaped.active \in [WorkflowId -> 0..Lease \union {None}]
            BY <1>2 DEF AdmissionRecord
        <3>2. [reaped.active EXCEPT ![w] = Lease] \in [WorkflowId -> 0..Lease \union {None}]
            BY <1>1, <3>1
        <3> QED BY <1>2, <1>8, <3>2 DEF AdmissionRecord
    <2>2. \A u \in WorkflowId : /\ admission'.waiting[u] = None <=> reaped.waiting[u] = None
                                /\ admission'.active[u] = None <=> reaped.active[u] = None
        <3>1. reaped.active \in [WorkflowId -> 0..Lease \union {None}]
            BY <1>2 DEF AdmissionRecord
        <3> QED BY <1>1, <1>8, <2>1, <3>1
    <2>3. /\ Agrees(admission') /\ HeadGhost(admission')
          /\ Active(admission') = Active(reaped)
          /\ Queue(admission') = Queue(reaped)
        BY <1>2, <2>1, <2>2, SameQueues
    <2>4. Good(admission')
        BY <1>2, <2>1, <2>3 DEF Good
    <2> QED BY <1>3, <1>4, <1>6, <2>3, <2>4 DEF Turned
<1>9. CASE reaped.active[w] = None
    <2>1. /\ queued \in AdmissionRecord /\ Agrees(queued) /\ Ghosts(queued) = {}
          /\ queued.active = reaped.active /\ queued.waiting[w] = Lease
        BY <1>2, <1>9, EnqueueAgrees DEF queued
    <2>2. Active(queued) = Active(reaped) /\ w \notin Active(reaped)
        BY <1>9, <2>1 DEF Active
    <2>3. Queue(queued) = Turns!Joined(rest, w)
        BY <1>2, <1>3, <1>9, QueueJoined DEF queued
    <2>4. w \in WorkflowId \ rest.running
        BY <1>7, <2>2
    <2>5. Good(queued)
        BY <1>2, <2>1, <2>2 DEF Good, HeadGhost
    <2>6. CASE admission' = queued
        BY <1>4, <1>6, <2>3, <2>4, <2>5, <2>6 DEF Turned
    <2> DEFINE judged == [BeginTick(queued) EXCEPT !.controller = Evaluate(@, sample)]
    <2>7. /\ judged \in AdmissionRecord
          /\ judged.active = queued.active /\ judged.waiting = queued.waiting
          /\ judged.workflow_projects = queued.workflow_projects
          /\ judged.projects = queued.projects /\ judged.rotation = queued.rotation
        BY <2>1, JudgedFields
    <2> HIDE DEF judged
    <2>8. /\ Agrees(judged) /\ Ghosts(judged) = {}
          /\ Active(judged) = Active(queued)
          /\ Queue(judged) = Queue(queued)
        BY <2>1, <2>7, SameQueues
    <2>9. CASE admission' = judged
        <3>1. Good(judged)
            BY <2>5, <2>7, <2>8 DEF Good, HeadGhost
        <3> QED BY <1>4, <1>6, <2>3, <2>4, <2>8, <2>9, <3>1 DEF Turned
    <2>10. CASE /\ ~Full(queued) /\ First(queued, w)
                /\ admission' = [DequeueFront(judged, w) EXCEPT !.active[w] = Lease]
        <3>1. First(judged, w) /\ judged.waiting[w] # None
            BY <1>1, <2>1, <2>7, <2>10 DEF First
        <3>2. /\ admission' \in AdmissionRecord /\ Agrees(admission') /\ HeadGhost(admission')
              /\ Active(admission') = Active(judged) \union {w}
            BY <1>1, <2>7, <2>8, <2>10, <3>1, DequeueAgrees
        <3>3. Queue(admission') = Turns!Served(Queue(judged), w)
            BY <1>1, <2>7, <2>8, <2>10, <3>1, QueueServed
        <3>4. /\ IsFiniteSet(Active(reaped)) /\ Cardinality(Active(reaped)) \in Nat
              /\ Cardinality(Active(reaped)) < maximum_active
            <4>1. IsFiniteSet(Active(reaped)) /\ Cardinality(Active(reaped)) \in Nat
                BY <1>2, FS_CardinalityType DEF Good
            <4> QED BY <1>1, <2>2, <2>10, <4>1 DEF Full
        <3>5. /\ IsFiniteSet(Active(admission'))
              /\ Cardinality(Active(admission')) <= maximum_active
            <4>1. Active(admission') = Active(reaped) \union {w}
                BY <2>2, <2>8, <3>2
            <4>2. /\ IsFiniteSet(Active(reaped) \union {w})
                  /\ Cardinality(Active(reaped) \union {w}) = Cardinality(Active(reaped)) + 1
                BY <2>2, <3>4, FS_AddElement
            <4> QED BY <1>1, <3>4, <4>1, <4>2
        <3>6. Good(admission')
            BY <3>2, <3>5 DEF Good
        <3>7. Queue(judged) = Turns!Joined(rest, w) /\ Queue(judged).running = Active(reaped)
            BY <2>2, <2>3, <2>8 DEF Queue
        <3>8. Turns!First(Queue(judged), w)
            <4>1. Queue(judged).line = judged.projects /\ Queue(judged).turn = judged.rotation
                BY <2>7, <2>8, QueueWithoutGhosts
            <4> QED BY <3>1, <4>1 DEF First, Turns!First
        <3>9. \E u \in WorkflowId \ rest.running :
                /\ Turns!First(Turns!Joined(rest, u), u)
                /\ Cardinality(Turns!Joined(rest, u).running) < maximum_active
                /\ Queue(admission') = Turns!Served(Turns!Joined(rest, u), u)
            BY <2>4, <3>3, <3>4, <3>7, <3>8
        <3> QED BY <1>4, <1>6, <3>6, <3>9 DEF Turned
    <2> QED BY <1>5, <1>9, <2>6, <2>9, <2>10 DEF Executed, judged
<1> QED BY <1>5, <1>8, <1>9 DEF Executed

\* Letting go of what ran out and of one workflow more is a turn.
LEMMA ReleaseGood ==
    ASSUME IInv, NEW w \in WorkflowId,
           \E reaped \in {Reap(admission)} : admission' = Removed(reaped, {w})
    PROVE  Good(admission') /\ Turned(admission')
<1> DEFINE reaped == Reap(admission)
           gone == {u \in WorkflowId : admission.waiting[u] = 0 \/ admission.active[u] = 0}
<1>1. maximum_active \in Nat
    BY ConstantsAssumption DEF IInv
<1>2. Good(reaped)
    BY ReapGood
<1>3. Queue(reaped) = Turns!Left(Queue(admission), gone)
    BY QueueReaped DEF IInv, Good
<1>4. gone \in SUBSET WorkflowId /\ {w} \in SUBSET WorkflowId
    OBVIOUS
<1>5. admission' = Removed(reaped, {w})
    OBVIOUS
<1> HIDE DEF reaped, gone
<1>6. Good(admission') /\ Queue(admission') = Turns!Left(Queue(reaped), {w})
    BY <1>1, <1>2, <1>5, RemovedGood
<1>7. Queue(admission') = Turns!Left(Queue(admission), gone \union {w})
    <2>1. admission \in AdmissionRecord
        BY DEF IInv, Good
    <2> QED BY <1>3, <1>4, <1>6, <2>1, QueueLeftTwice
<1>8. gone \union {w} \in SUBSET WorkflowId
    BY <1>4
<1> QED BY <1>6, <1>7, <1>8 DEF Turned

LEMMA RemoveGood ==
    ASSUME IInv, NEW w \in WorkflowId, admission' = Removed(admission, {w})
    PROVE  Good(admission') /\ Turned(admission')
<1>1. maximum_active \in Nat /\ Good(admission)
    BY ConstantsAssumption DEF IInv
<1>2. Good(admission') /\ Queue(admission') = Turns!Left(Queue(admission), {w})
    BY <1>1, RemovedGood
<1> QED BY <1>2 DEF Turned

LEMMA TickGood ==
    ASSUME IInv, Tick
    PROVE  Good(admission') /\ Turned(admission')
<1> DEFINE active == [w \in WorkflowId |-> Elapsed(admission.active[w])]
           waiting == [w \in WorkflowId |-> Elapsed(admission.waiting[w])]
           since == IF admission.since_tick < TickTime THEN admission.since_tick + 1
                    ELSE admission.since_tick
<1>1. Good(admission) /\ admission \in AdmissionRecord
    BY DEF IInv, Good
<1>2. /\ Lease \in Nat /\ TickTime \in Nat /\ None \notin 0..Lease
    BY ConstantsAssumption, NoneAssumption
<1>3. \A lease \in 0..Lease \union {None} :
         Elapsed(lease) \in 0..Lease \union {None} /\ (Elapsed(lease) = None <=> lease = None)
    BY <1>2 DEF Elapsed
<1>4. admission' = [admission EXCEPT !.active = active, !.waiting = waiting, !.since_tick = since]
    BY DEF Tick
<1>5. /\ admission.active \in [WorkflowId -> 0..Lease \union {None}]
      /\ admission.waiting \in [WorkflowId -> 0..Lease \union {None}]
      /\ admission.since_tick \in 0..TickTime
    BY <1>1, AdmissionFields
<1>6. /\ active \in [WorkflowId -> 0..Lease \union {None}]
      /\ waiting \in [WorkflowId -> 0..Lease \union {None}]
      /\ since \in 0..TickTime
      /\ \A w \in WorkflowId : /\ active[w] = None <=> admission.active[w] = None
                               /\ waiting[w] = None <=> admission.waiting[w] = None
    <2>1. since \in 0..TickTime
        BY <1>2, <1>5
    <2>2. ASSUME NEW w \in WorkflowId
          PROVE  /\ active[w] \in 0..Lease \union {None} /\ waiting[w] \in 0..Lease \union {None}
                 /\ active[w] = None <=> admission.active[w] = None
                 /\ waiting[w] = None <=> admission.waiting[w] = None
        <3>1. /\ admission.active[w] \in 0..Lease \union {None}
              /\ admission.waiting[w] \in 0..Lease \union {None}
            BY <1>5
        <3>2. active[w] = Elapsed(admission.active[w]) /\ waiting[w] = Elapsed(admission.waiting[w])
            OBVIOUS
        <3> QED BY <1>3, <3>1, <3>2
    <2> QED BY <2>1, <2>2
<1> HIDE DEF active, waiting, since
<1>7. /\ admission' \in AdmissionRecord
      /\ admission'.active = active /\ admission'.waiting = waiting
      /\ admission'.workflow_projects = admission.workflow_projects
      /\ admission'.projects = admission.projects
      /\ admission'.rotation = admission.rotation
    BY <1>1, <1>4, <1>6 DEF AdmissionRecord
<1>8. /\ Agrees(admission) => Agrees(admission')
      /\ HeadGhost(admission) => HeadGhost(admission')
      /\ Active(admission') = Active(admission)
      /\ Queue(admission') = Queue(admission)
    BY <1>6, <1>7, SameQueues
<1> QED BY <1>1, <1>7, <1>8 DEF Good, Turned

LEMMA NewIsGood ==
    ASSUME maximum_active \in 1..MaximumActive
    PROVE  Good(NewAdmission) /\ Ghosts(NewAdmission) = {}
<1> DEFINE n == NewAdmission
<1>1. {MaximumActive, TickTime} \subseteq Nat /\ ProjectOf \in [WorkflowId -> ProjectId]
    BY ConstantsAssumption
<1>2. /\ n.projects = [p \in ProjectId |-> <<>>]
      /\ n.rotation = <<>>
      /\ \A w \in WorkflowId : /\ n.active[w] = None /\ n.waiting[w] = None
                               /\ n.workflow_projects[w] = None
    BY DEF NewAdmission
<1>3. n \in AdmissionRecord
    <2>1. [admitted_this_tick |-> 0, pressured_last_tick |-> FALSE, recovery_tick |-> FALSE]
            \in ControllerRecord
        BY ConstantsAssumption DEF ControllerRecord
    <2> QED BY <1>1, <2>1 DEF NewAdmission, AdmissionRecord
<1> HIDE DEF n
<1>4. ToSet(<<>>) = {} /\ IsInjective(<<>>)
    BY DEF ToSet, IsInjective
<1>5. Agrees(n)
    BY <1>2, <1>4 DEF Agrees
<1>6. Ghosts(n) = {}
    BY <1>1, <1>2, <1>4 DEF Ghosts
<1>7. Active(n) = {}
    BY <1>2 DEF Active
<1>8. IsFiniteSet(Active(n)) /\ Cardinality(Active(n)) <= maximum_active
    BY <1>1, <1>7, FS_EmptySet
<1> QED BY <1>3, <1>5, <1>6, <1>8 DEF Good, HeadGhost, n

LEMMA InitIInv ==
    ASSUME Init
    PROVE  IInv
<1>1. maximum_active \in 1..MaximumActive /\ admission = NewAdmission
    BY DEF Init
<1>2. Good(NewAdmission)
    BY <1>1, NewIsGood
<1> QED BY <1>1, <1>2 DEF Init, IInv, RunState

\* Whatever is done, the maps and queues agree and FairTurns takes a turn or none.
LEMMA StepGood ==
    ASSUME IInv, [Next]_vars
    PROVE  /\ Good(admission') /\ Turned(admission')
           /\ UNCHANGED <<maximum_active, debug>>
           /\ state' \in [WorkflowId -> RunState]
           /\ asking' \subseteq WorkflowId
<1> USE DEF IInv
<1>1. admission' = admission => Good(admission') /\ Turned(admission')
    BY DEF Turned
<1>2. ASSUME NEW w \in WorkflowId, Ask(w)
      PROVE  Good(admission') /\ Turned(admission')
    <2>1. CASE admission' = Removed(admission, {w})
        BY <2>1, RemoveGood
    <2> QED BY <1>1, <1>2, <2>1 DEF Ask
<1>3. ASSUME NEW w \in WorkflowId, Execute(w)
      PROVE  Good(admission') /\ Turned(admission')
    BY <1>3, ExecuteGood DEF Execute
<1>4. ASSUME NEW w \in WorkflowId, Release(w)
      PROVE  Good(admission') /\ Turned(admission')
    BY <1>4, ReleaseGood DEF Release
<1>5. ASSUME NEW w \in WorkflowId, ReleaseCancelled(w)
      PROVE  Good(admission') /\ Turned(admission')
    BY <1>5, RemoveGood DEF ReleaseCancelled
<1>6. ASSUME Restart
      PROVE  Good(admission') /\ Turned(admission')
    <2>1. admission' = NewAdmission /\ admission \in AdmissionRecord
        BY <1>6 DEF Restart, Good
    <2>2. Good(NewAdmission)
        BY NewIsGood
    <2>3. Queue(NewAdmission) = Turns!Left(Queue(admission), WorkflowId)
        BY <2>1, QueueAllLeft
    <2>4. WorkflowId \in SUBSET WorkflowId
        OBVIOUS
    <2> QED BY <2>1, <2>2, <2>3, <2>4 DEF Turned
<1>7. ASSUME NEW w \in WorkflowId,
             Cancel(w) \/ ReleaseCancelled(w) \/ Suspend(w) \/ Resume(w) \/ Complete(w)
      PROVE  /\ ReleaseCancelled(w) \/ admission' = admission
             /\ UNCHANGED <<maximum_active, debug, asking>> \/ Restart
             /\ state' \in [WorkflowId -> RunState]
    BY <1>7 DEF Cancel, ReleaseCancelled, Suspend, Resume, Complete, RunState
<1>8. Controlled \subseteq WorkflowId
    BY ConstantsAssumption
<1>9. Good(admission') /\ Turned(admission')
    BY <1>1, <1>2, <1>3, <1>4, <1>5, <1>6, <1>7, <1>8, TickGood DEF Next, vars
<1>10. UNCHANGED <<maximum_active, debug>>
    BY DEF Next, vars, Ask, Execute, ExecuteWith, Release, Cancel, ReleaseCancelled, Suspend,
           Resume, Complete, Tick, Restart
<1>11. asking' \subseteq WorkflowId
    BY <1>8 DEF Next, vars, Ask, Execute, ExecuteWith, Release, Cancel, ReleaseCancelled,
                Suspend, Resume, Complete, Tick, Restart
<1>12. state' \in [WorkflowId -> RunState]
    <2>1. ASSUME NEW w \in WorkflowId, Ask(w) \/ Execute(w) \/ Release(w)
          PROVE  state' = state
        BY <2>1 DEF Ask, Execute, ExecuteWith, Release
    <2>2. Tick => state' = state
        BY DEF Tick
    <2>3. Restart => state' \in [WorkflowId -> RunState]
        BY DEF Restart, RunState
    <2> QED BY <1>7, <1>8, <2>1, <2>2, <2>3 DEF Next, vars
<1> QED BY <1>9, <1>10, <1>11, <1>12

LEMMA NextIInv ==
    ASSUME IInv, [Next]_vars
    PROVE  IInv'
<1>1. /\ Good(admission') /\ UNCHANGED <<maximum_active, debug>>
      /\ state' \in [WorkflowId -> RunState]
      /\ asking' \subseteq WorkflowId
    BY StepGood
<1>2. Good(admission)'
    BY <1>1 DEF Good, HeadGhost
<1> QED BY <1>1, <1>2 DEF IInv

LEMMA InvariantHolds ==
    Spec => []IInv
<1>1. Init => IInv
    BY InitIInv
<1>2. IInv /\ [Next]_vars => IInv'
    BY NextIInv
<1> QED BY <1>1, <1>2, PTL DEF Spec

-----------------------------------------------------------------------------
(* The theorems.                                                           *)

\* In every state no more workflows than the limit hold a slot, and the maps,
\* the queues and the rotation of admission.rs agree, in debug and release
\* builds, whatever leases run out or are released twice.
THEOREM InvCorrect == Spec => []Inv
<1>1. IInv => Inv
    BY AgreesIsQueuesAgree DEF IInv, Good, Inv, TypeOK, WithinLimit
<1> QED BY <1>1, InvariantHolds, PTL

\* A workflow that ended and has no request under way gets no slot again
\* (lifecycle.rs: the check before execute).
THEOREM EndedCorrect == Spec => EndedLetsGo
<1>1. ASSUME IInv, [Next]_vars, NEW w \in Controlled,
             state[w] = "ended", w \notin asking, ~Holds(w)
      PROVE  w \notin asking' /\ ~Holds(w)'
    <2>1. /\ w \in WorkflowId /\ Lease \in Nat /\ None \notin 0..Lease
          /\ admission \in AdmissionRecord /\ Agrees(admission)
          /\ admission.active \in [WorkflowId -> 0..Lease \union {None}]
        BY <1>1, ConstantsAssumption, NoneAssumption, AdmissionFields DEF IInv, Good
    <2>2. admission.active[w] \in {0, None}
        BY <1>1, <2>1 DEF Holds
    <2>3. w \notin asking'
        BY <1>1 DEF Next, vars, Ask, Allowed, Execute, ExecuteWith, Release, Cancel,
                    ReleaseCancelled, Suspend, Resume, Complete, Tick, Restart
    <2>4. \A a, u : Removed(a, {u}).active[w] \in {a.active[w], None}
        BY <2>1 DEF Removed
    <2>5. Reap(admission).active[w] \in {0, None}
        BY <2>1, <2>2, ReapFields
    <2>6. ASSUME NEW u \in WorkflowId, Execute(u)
          PROVE  admission'.active[w] \in {0, None}
        <3>1. PICK sample \in Samples : ExecuteWith(u, sample)
            BY <2>6 DEF Execute
        <3> DEFINE reaped == Reap(admission)
                   queued == Enqueue(reaped, u)
                   judged == [BeginTick(queued) EXCEPT !.controller = Evaluate(@, sample)]
        <3>2. u # w /\ Executed(u, sample, reaped, queued, BeginTick(queued))
            BY <1>1, <3>1 DEF ExecuteWith
        <3>3. /\ reaped \in AdmissionRecord /\ Agrees(reaped) /\ Ghosts(reaped) = {}
              /\ reaped.active[w] \in {0, None}
            BY <1>1, <2>5, ReapGood DEF Good
        <3> HIDE DEF reaped, queued, judged
        <3>4. CASE reaped.active[u] # None /\ admission' = [reaped EXCEPT !.active[u] = Lease]
            <4>1. admission'.active = [reaped.active EXCEPT ![u] = Lease]
                BY <3>3, <3>4 DEF AdmissionRecord
            <4> QED BY <3>2, <3>3, <4>1
        <3>5. CASE reaped.active[u] = None
            <4>1. queued \in AdmissionRecord /\ queued.active = reaped.active
                BY <3>3, <3>5, EnqueueAgrees DEF queued
            <4>2. judged \in AdmissionRecord /\ judged.active = reaped.active
                BY <4>1, JudgedFields DEF judged
            <4>3. [DequeueFront(judged, u) EXCEPT !.active[u] = Lease].active
                    = [judged.active EXCEPT ![u] = Lease]
                BY <4>2, DequeueFields
            <4>4. \/ admission' \in {queued, judged}
                  \/ admission' = [DequeueFront(judged, u) EXCEPT !.active[u] = Lease]
                BY <3>2, <3>5 DEF Executed, judged
            <4>5. CASE admission' \in {queued, judged}
                BY <3>3, <4>1, <4>2, <4>5
            <4>6. CASE admission' = [DequeueFront(judged, u) EXCEPT !.active[u] = Lease]
                <5>1. admission'.active = [reaped.active EXCEPT ![u] = Lease]
                    BY <4>2, <4>3, <4>6
                <5> QED BY <3>2, <3>3, <5>1
            <4> QED BY <4>4, <4>5, <4>6
        <3> QED BY <3>2, <3>4, <3>5 DEF Executed
    <2>7. Tick => admission'.active[w] \in {0, None}
        <3> SUFFICES ASSUME Tick PROVE admission'.active[w] \in {0, None}
            OBVIOUS
        <3>1. admission'.active = [u \in WorkflowId |-> Elapsed(admission.active[u])]
            BY <2>1 DEF Tick, AdmissionRecord
        <3> QED BY <2>1, <2>2, <3>1 DEF Elapsed
    <2>8. admission'.active[w] \in {0, None}
        <3>1. ASSUME NEW u \in WorkflowId, Ask(u) \/ Release(u) \/ ReleaseCancelled(u)
              PROVE  admission'.active[w] \in {0, None}
            <4>1. CASE admission' = Removed(admission, {u})
                BY <2>2, <2>4, <4>1
            <4>2. CASE admission' = Removed(Reap(admission), {u})
                BY <2>4, <2>5, <4>2
            <4> QED BY <2>2, <3>1, <4>1, <4>2 DEF Ask, Release, ReleaseCancelled
        <3>2. ASSUME NEW u \in WorkflowId, Cancel(u) \/ Suspend(u) \/ Resume(u) \/ Complete(u)
              PROVE  admission'.active[w] \in {0, None}
            BY <2>2, <3>2 DEF Cancel, Suspend, Resume, Complete
        <3>3. Restart => admission'.active[w] \in {0, None}
            BY <2>1 DEF Restart, NewAdmission
        <3>4. Controlled \subseteq WorkflowId
            BY ConstantsAssumption
        <3>5. UNCHANGED vars => admission'.active[w] \in {0, None}
            BY <2>2 DEF vars
        <3> QED BY <1>1, <2>6, <2>7, <3>1, <3>2, <3>3, <3>4, <3>5 DEF Next
    <2> QED BY <2>1, <2>3, <2>8 DEF Holds
<1>2. IInv /\ [Next]_vars =>
        [\A w \in Controlled : state[w] = "ended" /\ w \notin asking /\ ~Holds(w)
           => w \notin asking' /\ ~Holds(w)']_vars
    BY <1>1
<1> QED BY <1>2, InvariantHolds, PTL DEF Spec, EndedLetsGo

\* The structure of admission.rs takes the turns of FairTurns: the ghosts of a
\* release build, leases, ticks and resources change neither the order in which
\* the workflows of a project start nor that in which the projects do.
THEOREM TurnsRefinement == Spec => ImplementsTurns
<1>1. Init => Turns!Init
    <2> SUFFICES ASSUME Init PROVE Turns!Init
        OBVIOUS
    <2>1. Queue(admission) = [line |-> [p \in ProjectId |-> <<>>], turn |-> <<>>, running |-> {}]
        <3>1. NewAdmission \in AdmissionRecord /\ Agrees(NewAdmission) /\ Ghosts(NewAdmission) = {}
            BY NewIsGood DEF Init, Good
        <3>2. Active(NewAdmission) = {}
            BY DEF Active, NewAdmission
        <3> QED BY <3>1, <3>2, QueueWithoutGhosts DEF Init, NewAdmission
    <2> QED BY <2>1, ConstantsAssumption DEF Init, Turns!Init
<1>2. IInv /\ [Next]_vars => [Turns!Next]_(Turns!vars)
    <2> SUFFICES ASSUME IInv, [Next]_vars PROVE [Turns!Next]_(Turns!vars)
        OBVIOUS
    <2>1. Turned(admission') /\ UNCHANGED maximum_active
        BY StepGood
    <2>2. Queue(admission)' = Queue(admission')
        BY DEF Queue, Active
    <2>3. \A S : Turns!Cardinality(S) = Cardinality(S)
        BY DEF Turns!Cardinality, Cardinality
    <2>4. Queue(admission') = Queue(admission) => UNCHANGED Turns!vars
        BY <2>1, <2>2 DEF Turns!vars
    <2>5. ASSUME NEW gone \in SUBSET WorkflowId,
                 LET rest == Turns!Left(Queue(admission), gone) IN
                 \/ Queue(admission') = rest
                 \/ \E w \in WorkflowId \ rest.running :
                      LET asked == Turns!Joined(rest, w) IN
                      \/ Queue(admission') = asked
                      \/ /\ Turns!First(asked, w)
                         /\ Cardinality(asked.running) < maximum_active
                         /\ Queue(admission') = Turns!Served(asked, w)
          PROVE  Turns!Next
        BY <2>1, <2>2, <2>3, <2>5 DEF Turns!Next
    <2> QED BY <2>1, <2>4, <2>5 DEF Turned
<1> QED BY <1>1, <1>2, InvariantHolds, PTL DEF Spec, ImplementsTurns, Turns!Spec
=============================================================================
