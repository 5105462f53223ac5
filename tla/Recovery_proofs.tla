--------------------------- MODULE Recovery_proofs ---------------------------
(***************************************************************************)
(* Proofs about the audit ledger and about taking a workflow up again, for *)
(* every set of projects, checkpoint interval and page size, and any number *)
(* of entries, commits, repairs, stops and damaged rows.                   *)
(***************************************************************************)
EXTENDS Recovery, SequenceTheorems, WellFoundedInduction, TLAPS

-----------------------------------------------------------------------------
(* Induction, and the function that retains elements of a sequence.        *)
LEMMA LeastNumber ==
    ASSUME NEW S \in SUBSET Nat, S # {}
    PROVE  \E m \in S : \A n \in S : m <= n
<1> DEFINE R == {p \in Nat \X Nat : p[1] < p[2]}
<1>1. IsWellFoundedOn(R, Nat)
    BY NatLessThanWellFounded DEF OpToRel
<1>2. PICK m \in S : \A n \in S : ~ (<<n, m>> \in R)
    <2> HIDE DEF R
    <2> QED BY <1>1, WFMin
<1>3. \A n \in S : ~ (n < m)
    BY <1>2
<1> QED BY <1>3

LEMMA Induction ==
    ASSUME NEW S \in SUBSET Nat, 0 \in S, \A n \in S : n + 1 \in S
    PROVE  S = Nat
<1> SUFFICES ASSUME Nat \ S # {} PROVE FALSE
    OBVIOUS
<1>1. PICK m \in Nat \ S : \A n \in Nat \ S : m <= n
    BY LeastNumber
<1>2. m - 1 \in S
    BY <1>1
<1> QED BY <1>1, <1>2

LEMMA RetainingUnfolds ==
    ASSUME NEW q, NEW S, Len(q) \in Nat
    PROVE  Retaining(q, S) =
             [n \in 0..Len(q) |->
                IF n = 0 THEN <<>>
                ELSE IF q[n] \in S THEN Append(Retaining(q, S)[n - 1], q[n])
                ELSE Retaining(q, S)[n - 1]]
<1> DEFINE More(r, n) == IF q[n] \in S THEN Append(r, q[n]) ELSE r
           Solves(f, m) == f = [n \in 0..m |-> IF n = 0 THEN <<>> ELSE More(f[n - 1], n)]
           N == {m \in Nat : \E f : Solves(f, m)}
<1> HIDE DEF More
<1>1. 0 \in N
    <2>1. Solves([n \in 0..0 |-> <<>>], 0)
        OBVIOUS
    <2> QED BY <2>1
<1>2. ASSUME NEW m \in N PROVE m + 1 \in N
    <2>1. PICK f : Solves(f, m)
        OBVIOUS
    <2> DEFINE g == [n \in 0..(m + 1) |-> IF n <= m THEN f[n] ELSE More(f[m], n)]
    <2>2. \A n \in 0..(m + 1) : g[n] = IF n = 0 THEN <<>> ELSE More(g[n - 1], n)
        BY <2>1
    <2>3. Solves(g, m + 1)
        BY <2>2
    <2>4. \E h : Solves(h, m + 1)
        <3> HIDE DEF g
        <3> QED BY <2>3
    <2> QED BY <2>4
<1>3. Len(q) \in N
    BY <1>1, <1>2, Induction
<1>4. \E f : Solves(f, Len(q))
    BY <1>3
<1> QED BY <1>4 DEF Retaining, More

LEMMA RetainingStep ==
    ASSUME NEW q, NEW S, Len(q) \in Nat
    PROVE  /\ Retaining(q, S)[0] = <<>>
           /\ \A n \in 1..Len(q) :
                Retaining(q, S)[n] = IF q[n] \in S THEN Append(Retaining(q, S)[n - 1], q[n])
                                     ELSE Retaining(q, S)[n - 1]
<1> DEFINE R == Retaining(q, S)
           More(r, n) == IF q[n] \in S THEN Append(r, q[n]) ELSE r
<1>1. R = [n \in 0..Len(q) |-> IF n = 0 THEN <<>> ELSE More(R[n - 1], n)]
    BY RetainingUnfolds
<1> HIDE DEF R, More
<1>2. R[0] = <<>> /\ \A n \in 1..Len(q) : R[n] = More(R[n - 1], n)
    BY <1>1
<1> QED BY <1>2 DEF R, More

LEMMA RetainingAgrees ==
    ASSUME NEW s, NEW t, NEW S, NEW U, NEW m \in Nat, Len(s) \in Nat, Len(t) \in Nat,
           m <= Len(s), m <= Len(t),
           \A i \in 1..m : s[i] = t[i] /\ (s[i] \in S <=> t[i] \in U)
    PROVE  Retaining(s, S)[m] = Retaining(t, U)[m]
<1> DEFINE N == {n \in Nat : n <= m => Retaining(s, S)[n] = Retaining(t, U)[n]}
<1>1. /\ Retaining(s, S)[0] = <<>>
      /\ \A n \in 1..Len(s) :
           Retaining(s, S)[n] = IF s[n] \in S THEN Append(Retaining(s, S)[n - 1], s[n])
                                ELSE Retaining(s, S)[n - 1]
    BY RetainingStep
<1>2. /\ Retaining(t, U)[0] = <<>>
      /\ \A n \in 1..Len(t) :
           Retaining(t, U)[n] = IF t[n] \in U THEN Append(Retaining(t, U)[n - 1], t[n])
                                ELSE Retaining(t, U)[n - 1]
    BY RetainingStep
<1>3. 0 \in N
    BY <1>1, <1>2
<1>4. ASSUME NEW n \in N PROVE n + 1 \in N
    <2> SUFFICES ASSUME n + 1 <= m
                 PROVE  Retaining(s, S)[n + 1] = Retaining(t, U)[n + 1]
        OBVIOUS
    <2>1. /\ n + 1 \in 1..Len(s) /\ n + 1 \in 1..Len(t) /\ n + 1 \in 1..m
          /\ (n + 1) - 1 = n
        OBVIOUS
    <2>2. Retaining(s, S)[n] = Retaining(t, U)[n]
        BY <2>1
    <2> QED BY <1>1, <1>2, <2>1, <2>2
<1>5. N = Nat
    <2> HIDE DEF N
    <2>1. N \subseteq Nat
        BY DEF N
    <2> QED BY <1>3, <1>4, <2>1, Induction
<1> QED BY <1>5

-----------------------------------------------------------------------------
(* The rows a query selects, when each row carries its place.              *)
Numbered(s) == \A i \in DOMAIN s : s[i].sequence = i - 1

\* What is retained of the first n rows is the beginning of what is retained,
\* and its sequences grow.
Ordered(s, S, n) ==
    LET R == Retaining(s, S) IN
    /\ R[n] \in Seq(ToSet(s))
    /\ \A k \in 1..Len(R[n]) : R[n][k] \in S /\ R[n][k].sequence \in 0..(n - 1)
    /\ \A k, l \in 1..Len(R[n]) : k < l => R[n][k].sequence < R[n][l].sequence
    /\ \A j \in 0..n : /\ Len(R[j]) <= Len(R[n])
                       /\ \A k \in 1..Len(R[j]) : R[j][k] = R[n][k]

LEMMA RetainingOrdered ==
    ASSUME NEW T, NEW s \in Seq(T), NEW S, Numbered(s), NEW m \in 0..Len(s)
    PROVE  Ordered(s, S, m)
<1> DEFINE R == Retaining(s, S)
           N == {n \in Nat : n <= Len(s) => Ordered(s, S, n)}
<1>1. /\ Len(s) \in Nat /\ DOMAIN s = 1..Len(s)
      /\ \A i \in 1..Len(s) : s[i] \in ToSet(s) /\ s[i].sequence = i - 1
    BY LenProperties DEF ToSet, Numbered
<1>2. /\ R[0] = <<>>
      /\ \A n \in 1..Len(s) : R[n] = IF s[n] \in S THEN Append(R[n - 1], s[n]) ELSE R[n - 1]
    BY <1>1, RetainingStep
<1> HIDE DEF R
<1>3. 0 \in N
    <2>1. R[0] \in Seq(ToSet(s)) /\ Len(R[0]) = 0
        BY <1>2, EmptySeq
    <2>2. \A j \in 0..0 : j = 0
        OBVIOUS
    <2>3. Ordered(s, S, 0)
        BY <2>1, <2>2 DEF Ordered, R
    <2> QED BY <2>3
<1>4. ASSUME NEW n \in N PROVE n + 1 \in N
    <2> SUFFICES ASSUME n + 1 <= Len(s) PROVE Ordered(s, S, n + 1)
        OBVIOUS
    <2>1. n + 1 \in 1..Len(s) /\ (n + 1) - 1 = n /\ n <= Len(s) /\ n \in Nat
        BY <1>1
    <2>2. Ordered(s, S, n)
        BY <2>1
    <2>3. /\ R[n] \in Seq(ToSet(s)) /\ Len(R[n]) \in Nat
          /\ \A k \in 1..Len(R[n]) : R[n][k] \in S /\ R[n][k].sequence \in 0..(n - 1)
          /\ \A k, l \in 1..Len(R[n]) : k < l => R[n][k].sequence < R[n][l].sequence
          /\ \A j \in 0..n : /\ Len(R[j]) <= Len(R[n])
                             /\ \A k \in 1..Len(R[j]) : R[j][k] = R[n][k]
        BY <2>2, LenProperties DEF Ordered, R
    <2>4. \A j \in 0..(n + 1) : j \in 0..n \/ j = n + 1
        OBVIOUS
    <2>5. CASE s[n + 1] \notin S
        <3>1. R[n + 1] = R[n]
            BY <1>2, <2>1, <2>5
        <3>2. \A k \in 1..Len(R[n + 1]) :
                R[n + 1][k] \in S /\ R[n + 1][k].sequence \in 0..((n + 1) - 1)
            BY <2>1, <2>3, <3>1
        <3> QED BY <2>3, <2>4, <3>1, <3>2 DEF Ordered, R
    <2>6. CASE s[n + 1] \in S
        <3>1. R[n + 1] = Append(R[n], s[n + 1])
            BY <1>2, <2>1, <2>6
        <3>2. /\ R[n + 1] \in Seq(ToSet(s)) /\ Len(R[n + 1]) = Len(R[n]) + 1
              /\ \A k \in 1..Len(R[n]) : R[n + 1][k] = R[n][k]
              /\ R[n + 1][Len(R[n]) + 1] = s[n + 1]
            BY <1>1, <2>1, <2>3, <3>1, AppendProperties
        <3>3. \A k \in 1..Len(R[n + 1]) : k \in 1..Len(R[n]) \/ k = Len(R[n]) + 1
            BY <2>3, <3>2
        <3>4. s[n + 1].sequence = n
            BY <1>1, <2>1
        <3>5. \A k \in 1..Len(R[n + 1]) :
                R[n + 1][k] \in S /\ R[n + 1][k].sequence \in 0..((n + 1) - 1)
            <4> TAKE k \in 1..Len(R[n + 1])
            <4>1. CASE k \in 1..Len(R[n])
                <5>1. R[n + 1][k] = R[n][k]
                    BY <3>2, <4>1
                <5>2. R[n][k] \in S /\ R[n][k].sequence \in 0..(n - 1)
                    BY <2>3, <4>1
                <5> QED BY <2>1, <5>1, <5>2
            <4>2. CASE k = Len(R[n]) + 1
                <5>1. R[n + 1][k] = s[n + 1]
                    BY <3>2, <4>2
                <5> QED BY <2>1, <2>6, <3>4, <5>1
            <4> QED BY <3>3, <4>1, <4>2
        <3>6. \A k, l \in 1..Len(R[n + 1]) : k < l => R[n + 1][k].sequence < R[n + 1][l].sequence
            <4> SUFFICES ASSUME NEW k \in 1..Len(R[n + 1]), NEW l \in 1..Len(R[n + 1]), k < l
                         PROVE  R[n + 1][k].sequence < R[n + 1][l].sequence
                OBVIOUS
            <4>1. k \in 1..Len(R[n]) /\ R[n + 1][k] = R[n][k]
                BY <2>3, <3>2
            <4>2. CASE l \in 1..Len(R[n])
                <5>1. R[n + 1][l] = R[n][l]
                    BY <3>2, <4>2
                <5>2. R[n][k].sequence < R[n][l].sequence
                    BY <2>3, <4>1, <4>2
                <5> QED BY <4>1, <5>1, <5>2
            <4>3. CASE l = Len(R[n]) + 1
                <5>1. R[n + 1][l] = s[n + 1]
                    BY <3>2, <4>3
                <5>2. R[n][k].sequence \in 0..(n - 1)
                    BY <2>3, <4>1
                <5> QED BY <2>1, <3>4, <4>1, <5>1, <5>2
            <4> QED BY <3>3, <4>2, <4>3
        <3>7. ASSUME NEW j \in 0..(n + 1)
              PROVE  /\ Len(R[j]) <= Len(R[n + 1])
                     /\ \A k \in 1..Len(R[j]) : R[j][k] = R[n + 1][k]
            <4>1. CASE j = n + 1
                BY <2>3, <3>2, <4>1
            <4>2. CASE j \in 0..n
                <5>1. Len(R[j]) <= Len(R[n]) /\ \A k \in 1..Len(R[j]) : R[j][k] = R[n][k]
                    BY <2>3, <4>2
                <5> QED BY <2>3, <3>2, <5>1
            <4> QED BY <2>4, <4>1, <4>2
        <3> QED BY <3>2, <3>5, <3>6, <3>7 DEF Ordered, R
    <2> QED BY <2>5, <2>6
<1>5. N = Nat
    <2> HIDE DEF N
    <2>1. N \subseteq Nat
        BY DEF N
    <2> QED BY <1>3, <1>4, <2>1, Induction
<1> QED BY <1>1, <1>5

\* What is selected after the k-th row that is selected is the rest.
LEMMA RetainedAfter ==
    ASSUME NEW T, NEW s \in Seq(T), NEW S, NEW U, Numbered(s),
           NEW k \in 1..Len(Retained(s, S)),
           \A i \in 1..Len(s) :
             s[i] \in U <=> s[i] \in S /\ s[i].sequence > Retained(s, S)[k].sequence
    PROVE  Retained(s, U) = SubSeq(Retained(s, S), k + 1, Len(Retained(s, S)))
<1> DEFINE R == Retaining(s, S)
           Q == Retaining(s, U)
           last == R[Len(s)][k].sequence
           N == {n \in Nat : n <= Len(s) => Q[n] = SubSeq(R[n], k + 1, Len(R[n]))}
<1>1. /\ Len(s) \in Nat /\ DOMAIN s = 1..Len(s)
      /\ \A i \in 1..Len(s) : s[i] \in ToSet(s) /\ s[i].sequence = i - 1
    BY LenProperties DEF ToSet, Numbered
<1>2. /\ R[0] = <<>>
      /\ \A n \in 1..Len(s) : R[n] = IF s[n] \in S THEN Append(R[n - 1], s[n]) ELSE R[n - 1]
    BY <1>1, RetainingStep
<1>3. /\ Q[0] = <<>>
      /\ \A n \in 1..Len(s) : Q[n] = IF s[n] \in U THEN Append(Q[n - 1], s[n]) ELSE Q[n - 1]
    BY <1>1, RetainingStep
<1>4. \A n \in 0..Len(s) :
        /\ R[n] \in Seq(ToSet(s))
        /\ \A j \in 1..Len(R[n]) : R[n][j].sequence \in 0..(n - 1)
        /\ Len(R[n]) <= Len(R[Len(s)])
        /\ \A j \in 1..Len(R[n]) : R[n][j] = R[Len(s)][j]
    <2> TAKE n \in 0..Len(s)
    <2>1. Ordered(s, S, n)
        BY RetainingOrdered
    <2>2. Len(s) \in 0..Len(s)
        BY <1>1
    <2>3. Ordered(s, S, Len(s))
        BY <2>2, RetainingOrdered
    <2>4. /\ R[n] \in Seq(ToSet(s))
          /\ \A j \in 1..Len(R[n]) : R[n][j].sequence \in 0..(n - 1)
        BY <2>1 DEF Ordered
    <2>5. /\ Len(R[n]) <= Len(R[Len(s)])
          /\ \A j \in 1..Len(R[n]) : R[n][j] = R[Len(s)][j]
        BY <2>3 DEF Ordered
    <2> QED BY <2>4, <2>5
<1>5. \A j, l \in 1..Len(R[Len(s)]) : j < l => R[Len(s)][j].sequence < R[Len(s)][l].sequence
    <2>1. Len(s) \in 0..Len(s)
        BY <1>1
    <2>2. Ordered(s, S, Len(s))
        BY <2>1, RetainingOrdered
    <2> QED BY <2>2 DEF Ordered
<1>6. /\ k \in 1..Len(R[Len(s)])
      /\ \A i \in 1..Len(s) : s[i] \in U <=> s[i] \in S /\ s[i].sequence > last
    BY DEF Retained
<1>7. k \in Nat \ {0} /\ last \in 0..(Len(s) - 1)
    BY <1>1, <1>4, <1>6, LenProperties
<1> HIDE DEF R, Q, last
<1>8. 0 \in N
    <2>1. SubSeq(<<>>, k + 1, 0) = <<>>
        BY <1>7, SubSeqEmpty
    <2> QED BY <1>2, <1>3, <2>1, EmptySeq
<1>9. ASSUME NEW n \in N PROVE n + 1 \in N
    <2> SUFFICES ASSUME n + 1 <= Len(s)
                 PROVE  Q[n + 1] = SubSeq(R[n + 1], k + 1, Len(R[n + 1]))
        OBVIOUS
    <2>1. n + 1 \in 1..Len(s) /\ (n + 1) - 1 = n /\ n \in 0..Len(s) /\ n + 1 \in 0..Len(s)
        BY <1>1
    <2>2. Q[n] = SubSeq(R[n], k + 1, Len(R[n]))
        BY <2>1
    <2>3. s[n + 1] \in U <=> s[n + 1] \in S /\ n > last
        BY <1>1, <1>6, <2>1
    <2>4. CASE s[n + 1] \notin S
        BY <1>2, <1>3, <2>1, <2>2, <2>3, <2>4
    <2>5. CASE s[n + 1] \in S
        <3>1. R[n + 1] = Append(R[n], s[n + 1]) /\ R[n] \in Seq(ToSet(s)) /\ s[n + 1] \in ToSet(s)
            BY <1>1, <1>2, <1>4, <2>1, <2>5
        <3>2. /\ R[n + 1] \in Seq(ToSet(s)) /\ Len(R[n]) \in Nat
              /\ Len(R[n + 1]) = Len(R[n]) + 1
              /\ \A j \in 1..Len(R[n]) : R[n + 1][j] = R[n][j]
              /\ R[n + 1][Len(R[n]) + 1] = s[n + 1]
            BY <3>1, AppendProperties, LenProperties
        <3>3. CASE k <= Len(R[n])
            <4>1. R[n][k] = R[Len(s)][k] /\ R[n][k].sequence \in 0..(n - 1)
                <5>1. k \in 1..Len(R[n])
                    BY <1>7, <3>2, <3>3
                <5> QED BY <1>4, <2>1, <5>1
            <4>2. s[n + 1] \in U
                BY <2>1, <2>3, <2>5, <4>1 DEF last
            <4>3. Q[n + 1] = Append(SubSeq(R[n], k + 1, Len(R[n])), s[n + 1])
                BY <1>3, <2>1, <2>2, <4>2
            <4>4. SubSeq(R[n + 1], k + 1, Len(R[n + 1])) =
                    SubSeq(R[n + 1], k + 1, Len(R[n])) \o <<s[n + 1]>>
                <5>1. k + 1 \in 1..Len(R[n + 1]) /\ Len(R[n + 1]) \in (k + 1)..Len(R[n + 1])
                    BY <1>7, <3>2, <3>3
                <5>2. SubSeq(R[n + 1], k + 1, Len(R[n + 1])) =
                        SubSeq(R[n + 1], k + 1, Len(R[n + 1]) - 1) \o <<R[n + 1][Len(R[n + 1])]>>
                    BY <3>2, <5>1, SubSeqRecursiveSecond
                <5>3. Len(R[n + 1]) - 1 = Len(R[n]) /\ R[n + 1][Len(R[n + 1])] = s[n + 1]
                    BY <3>2
                <5> QED BY <5>2, <5>3
            <4>5. /\ SubSeq(R[n], k + 1, Len(R[n])) \in Seq(ToSet(s))
                  /\ SubSeq(R[n + 1], k + 1, Len(R[n])) = SubSeq(R[n], k + 1, Len(R[n]))
                <5>1. \A i \in (k + 1)..Len(R[n]) : R[n][i] \in ToSet(s) /\ R[n + 1][i] = R[n][i]
                    BY <1>7, <3>1, <3>2, ElementOfSeq
                <5>2. k + 1 \in Int /\ Len(R[n]) \in Int
                    BY <1>7, <3>2
                <5> DEFINE a == SubSeq(R[n], k + 1, Len(R[n]))
                           b == SubSeq(R[n + 1], k + 1, Len(R[n]))
                <5>3. /\ a \in Seq(ToSet(s))
                      /\ Len(a) = IF k + 1 <= Len(R[n]) THEN Len(R[n]) - (k + 1) + 1 ELSE 0
                      /\ \A i \in 1..(Len(R[n]) - (k + 1) + 1) : a[i] = R[n][(k + 1) + i - 1]
                    BY <5>1, <5>2, SubSeqProperties
                <5>4. /\ b \in Seq(ToSet(s))
                      /\ Len(b) = IF k + 1 <= Len(R[n]) THEN Len(R[n]) - (k + 1) + 1 ELSE 0
                      /\ \A i \in 1..(Len(R[n]) - (k + 1) + 1) : b[i] = R[n + 1][(k + 1) + i - 1]
                    BY <5>1, <5>2, SubSeqProperties
                <5> HIDE DEF a, b
                <5>5. \A i \in 1..Len(b) : b[i] = a[i]
                    <6> TAKE i \in 1..Len(b)
                    <6>1. i \in 1..(Len(R[n]) - (k + 1) + 1) /\ (k + 1) + i - 1 \in (k + 1)..Len(R[n])
                        BY <5>2, <5>4
                    <6> QED BY <5>1, <5>3, <5>4, <6>1
                <5>6. b = a
                    BY <5>3, <5>4, <5>5, SeqEqual
                <5> QED BY <5>3, <5>6 DEF a, b
            <4> QED BY <3>1, <4>3, <4>4, <4>5, AppendIsConcat
        <3>4. CASE Len(R[n]) < k
            <4> DEFINE l == Len(R[n]) + 1
            <4>1. /\ l \in 1..Len(R[n + 1]) /\ l <= k /\ l \in 1..Len(R[Len(s)])
                  /\ R[Len(s)][l] = s[n + 1]
                <5>1. l \in 1..Len(R[n + 1]) /\ l <= k /\ R[n + 1][l] = s[n + 1]
                    BY <1>7, <3>2, <3>4
                <5>2. Len(R[n + 1]) <= Len(R[Len(s)]) /\ R[n + 1][l] = R[Len(s)][l]
                    BY <1>4, <2>1, <5>1
                <5>3. l \in 1..Len(R[Len(s)])
                    BY <1>6, <1>7, <3>2, <5>1
                <5> QED BY <5>1, <5>2, <5>3
            <4>2. s[n + 1].sequence = n
                BY <1>1, <2>1
            <4>3. l = k \/ R[Len(s)][l].sequence < R[Len(s)][k].sequence
                <5>1. l = k \/ l < k
                    BY <1>7, <3>2, <4>1
                <5> HIDE DEF l
                <5> QED BY <1>5, <1>6, <4>1, <5>1
            <4>4. n <= last
                BY <1>7, <2>1, <4>1, <4>2, <4>3 DEF last
            <4>5. s[n + 1] \notin U
                BY <1>7, <2>1, <2>3, <4>4
            <4>6. SubSeq(R[n], k + 1, Len(R[n])) = <<>>
                BY <1>7, <3>2, <3>4, SubSeqEmpty
            <4>7. SubSeq(R[n + 1], k + 1, Len(R[n + 1])) = <<>>
                BY <1>7, <3>2, <3>4, SubSeqEmpty
            <4> QED BY <1>3, <2>1, <2>2, <4>5, <4>6, <4>7
        <3> QED BY <1>7, <3>2, <3>3, <3>4
    <2> QED BY <2>4, <2>5
<1>10. N = Nat
    <2> HIDE DEF N
    <2>1. N \subseteq Nat
        BY DEF N
    <2> QED BY <1>8, <1>9, <2>1, Induction
<1> QED BY <1>1, <1>10 DEF Retained, R, Q

\* A row appended is selected after the others.
LEMMA RetainedGrows ==
    ASSUME NEW T, NEW s \in Seq(T), NEW x \in T, NEW S, NEW U,
           \A i \in 1..Len(s) : s[i] \in S <=> s[i] \in U
    PROVE  Retained(Append(s, x), U) =
             IF x \in U THEN Append(Retained(s, S), x) ELSE Retained(s, S)
<1> DEFINE t == Append(s, x)
<1>1. /\ Len(s) \in Nat /\ Len(t) = Len(s) + 1
      /\ \A i \in 1..Len(s) : t[i] = s[i]
      /\ t[Len(s) + 1] = x
    BY AppendProperties, LenProperties
<1> HIDE DEF t
<1>2. Retaining(t, U)[Len(s)] = Retaining(s, S)[Len(s)]
    BY <1>1, RetainingAgrees
<1>3. Len(t) \in 1..Len(t) /\ Len(t) - 1 = Len(s)
    BY <1>1
<1>4. Retaining(t, U)[Len(t)] =
        IF t[Len(t)] \in U THEN Append(Retaining(t, U)[Len(t) - 1], t[Len(t)])
        ELSE Retaining(t, U)[Len(t) - 1]
    BY <1>1, <1>3, RetainingStep
<1> QED BY <1>1, <1>2, <1>3, <1>4 DEF Retained, t

-----------------------------------------------------------------------------
(* Lists of entries.                                                       *)
IsList(s) == s \in Seq(ToSet(s))

LEMMA ListFacts ==
    ASSUME NEW s, IsList(s)
    PROVE  /\ Len(s) \in Nat /\ DOMAIN s = 1..Len(s)
           /\ s = <<>> <=> Len(s) = 0
BY LenProperties, EmptySeq DEF IsList

LEMMA ListOfElements ==
    ASSUME NEW T, NEW s \in Seq(T)
    PROVE  IsList(s)
<1>1. Len(s) \in Nat /\ DOMAIN s = 1..Len(s) /\ s \in [1..Len(s) -> T]
    BY LenProperties
<1>2. s \in [1..Len(s) -> ToSet(s)]
    BY <1>1 DEF ToSet
<1> QED BY <1>1, <1>2, SeqDef DEF IsList

LEMMA ListOfValues ==
    ASSUME NEW f, NEW n \in Nat, NEW T, f \in [1..n -> T]
    PROVE  f \in Seq(T) /\ IsList(f) /\ Len(f) = n
<1>1. f \in Seq(T)
    BY SeqDef
<1>2. Len(f) \in Nat /\ 1..Len(f) = 1..n
    BY <1>1, LenProperties
<1>3. Len(f) = n
    BY <1>2
<1> QED BY <1>1, <1>3, ListOfElements

LEMMA ListAppend ==
    ASSUME NEW s, IsList(s), NEW x
    PROVE  /\ IsList(Append(s, x))
           /\ Len(Append(s, x)) = Len(s) + 1
           /\ \A i \in 1..Len(s) : Append(s, x)[i] = s[i]
           /\ Append(s, x)[Len(s) + 1] = x
<1> DEFINE T == ToSet(s) \union {x}
<1>1. s \in Seq(T) /\ x \in T
    BY SeqMonotonic DEF IsList
<1> HIDE DEF T
<1>2. /\ Append(s, x) \in Seq(T)
      /\ Len(Append(s, x)) = Len(s) + 1
      /\ \A i \in 1..Len(s) : Append(s, x)[i] = s[i]
      /\ Append(s, x)[Len(s) + 1] = x
    BY <1>1, AppendProperties
<1>3. IsList(Append(s, x))
    BY <1>2, ListOfElements
<1> QED BY <1>2, <1>3

\* A row is lost.
LEMMA ListRemove ==
    ASSUME NEW s, IsList(s), NEW k \in 1..Len(s)
    PROVE  /\ IsList(RemoveAt(s, k))
           /\ \A i \in 1..Len(RemoveAt(s, k)) : \E j \in 1..Len(s) : RemoveAt(s, k)[i] = s[j]
<1> DEFINE T == ToSet(s)
           a == SubSeq(s, 1, k - 1)
           b == SubSeq(s, k + 1, Len(s))
<1>1. /\ Len(s) \in Nat /\ DOMAIN s = 1..Len(s) /\ s \in Seq(T)
      /\ \A i \in 1..Len(s) : s[i] \in T
    BY ListFacts DEF ToSet, IsList
<1>2. a \in Seq(T)
    BY <1>1, SubSeqProperties
<1>3. b \in Seq(T)
    BY <1>1, SubSeqProperties
<1> HIDE DEF a, b
<1>4. a \o b \in Seq(T)
    BY <1>2, <1>3, ConcatProperties
<1>5. RemoveAt(s, k) = a \o b
    BY DEF RemoveAt, a, b
<1>6. \A i \in 1..Len(a \o b) : (a \o b)[i] \in T
    BY <1>4, ElementOfSeq
<1>7. \A i \in 1..Len(a \o b) : \E j \in 1..Len(s) : (a \o b)[i] = s[j]
    BY <1>1, <1>6 DEF ToSet
<1> QED BY <1>4, <1>5, <1>7, ListOfElements

-----------------------------------------------------------------------------
(* The chain.                                                              *)
Shaped(e) ==
    /\ e = [sequence |-> e.sequence, previous |-> e.previous, event |-> e.event,
            hash |-> e.hash]
    /\ e.event = Event(e.event.project, e.event.revision, e.event.id)

\* Whatever was lost or changed, every row has the sequence and the hash of an
\* entry of a chain that was written with the events.
LeftOf(entries, chain) ==
    \A i \in DOMAIN entries : \E j \in DOMAIN chain :
      entries[i].sequence = chain[j].sequence /\ entries[i].hash = chain[j].hash

Remains(entries, events) ==
    \E chain : /\ IsList(chain) /\ Intact(chain)
               /\ EventsOf(chain) = events
               /\ LeftOf(entries, chain)

LEMMA EventsList ==
    ASSUME NEW s, IsList(s)
    PROVE  /\ IsList(EventsOf(s)) /\ Len(EventsOf(s)) = Len(s)
           /\ \A i \in 1..Len(s) : EventsOf(s)[i] = s[i].event
<1>1. Len(s) \in Nat /\ DOMAIN s = 1..Len(s)
    BY ListFacts
<1>2. EventsOf(s) \in [1..Len(s) -> {s[i].event : i \in 1..Len(s)}]
    BY <1>1 DEF EventsOf
<1>3. IsList(EventsOf(s)) /\ Len(EventsOf(s)) = Len(s)
    BY <1>1, <1>2, ListOfValues
<1> QED BY <1>1, <1>3 DEF EventsOf

LEMMA ListEqual ==
    ASSUME NEW s, NEW t, IsList(s), IsList(t), Len(s) = Len(t),
           \A i \in 1..Len(s) : s[i] = t[i]
    PROVE  s = t
<1> DEFINE T == ToSet(s) \union ToSet(t)
<1>1. s \in Seq(T) /\ t \in Seq(T)
    BY SeqMonotonic DEF IsList
<1> HIDE DEF T
<1> QED BY <1>1, SeqEqual

LEMMA ChainNumbered ==
    ASSUME NEW s, Intact(s), NEW i \in DOMAIN s
    PROVE  /\ s[i].sequence = i - 1
           /\ s[i].hash = <<i - 1, IF i = 1 THEN None ELSE s[i - 1].hash, s[i].event>>
BY DEF Intact, Entry

Following(s, event) == Entry(Len(s), IF s = <<>> THEN None ELSE s[Len(s)].hash, event)

LEMMA ChainAppend ==
    ASSUME NEW s, IsList(s), Intact(s), NEW event
    PROVE  /\ Intact(Append(s, Following(s, event)))
           /\ EventsOf(Append(s, Following(s, event))) = Append(EventsOf(s), event)
<1> DEFINE e == Following(s, event)
           t == Append(s, e)
<1>1. /\ Len(s) \in Nat /\ DOMAIN s = 1..Len(s)
      /\ s = <<>> <=> Len(s) = 0
    BY ListFacts
<1>2. /\ IsList(t) /\ Len(t) = Len(s) + 1 /\ DOMAIN t = 1..Len(t)
      /\ \A i \in 1..Len(s) : t[i] = s[i]
      /\ t[Len(s) + 1] = e
    BY ListAppend, ListFacts
<1>3. e.event = event
    BY DEF Following, Entry
<1> HIDE DEF t, e
<1>4. \A i \in 1..Len(t) : i \in 1..Len(s) \/ i = Len(s) + 1
    BY <1>1, <1>2
<1>5. Intact(t)
    <2> SUFFICES ASSUME NEW i \in DOMAIN t
                 PROVE  t[i] = Entry(i - 1, IF i = 1 THEN None ELSE t[i - 1].hash, t[i].event)
        BY DEF Intact
    <2>1. CASE i \in 1..Len(s)
        <3>1. i = 1 \/ i - 1 \in 1..Len(s)
            BY <1>1, <2>1
        <3>2. s[i] = Entry(i - 1, IF i = 1 THEN None ELSE s[i - 1].hash, s[i].event)
            BY <1>1, <2>1 DEF Intact
        <3> QED BY <1>2, <2>1, <3>1, <3>2
    <2>2. CASE i = Len(s) + 1
        <3>1. CASE Len(s) = 0
            BY <1>1, <1>2, <1>3, <2>2, <3>1 DEF e, Following
        <3>2. CASE Len(s) # 0
            <4>1. i # 1 /\ i - 1 = Len(s) /\ t[i - 1] = s[Len(s)] /\ s # <<>>
                BY <1>1, <1>2, <2>2, <3>2
            <4> QED BY <1>2, <1>3, <2>2, <4>1 DEF e, Following
        <3> QED BY <3>1, <3>2
    <2> QED BY <1>2, <1>4, <2>1, <2>2
<1>6. EventsOf(t) = Append(EventsOf(s), event)
    <2>1. /\ IsList(EventsOf(s)) /\ Len(EventsOf(s)) = Len(s)
          /\ \A i \in 1..Len(s) : EventsOf(s)[i] = s[i].event
        BY EventsList
    <2>2. /\ IsList(EventsOf(t)) /\ Len(EventsOf(t)) = Len(t)
          /\ \A i \in 1..Len(t) : EventsOf(t)[i] = t[i].event
        BY <1>2, EventsList
    <2>3. /\ IsList(Append(EventsOf(s), event))
          /\ Len(Append(EventsOf(s), event)) = Len(s) + 1
          /\ \A i \in 1..Len(s) : Append(EventsOf(s), event)[i] = EventsOf(s)[i]
          /\ Append(EventsOf(s), event)[Len(s) + 1] = event
        BY <2>1, ListAppend
    <2>4. \A i \in 1..Len(t) : EventsOf(t)[i] = Append(EventsOf(s), event)[i]
        BY <1>2, <1>3, <1>4, <2>1, <2>2, <2>3
    <2> QED BY <1>2, <2>2, <2>3, <2>4, ListEqual
<1> QED BY <1>5, <1>6 DEF t, e

\* An intact chain that is left of another is the beginning of it.
LEMMA IntactIsPrefix ==
    ASSUME NEW s, NEW events, IsList(s), Intact(s), Remains(s, events)
    PROVE  /\ Len(s) <= Len(events) /\ Len(events) \in Nat
           /\ IsPrefix(EventsOf(s), events)
<1>1. PICK chain : /\ IsList(chain) /\ Intact(chain)
                   /\ EventsOf(chain) = events
                   /\ LeftOf(s, chain)
    BY DEF Remains
<1>2. /\ Len(s) \in Nat /\ DOMAIN s = 1..Len(s)
      /\ Len(chain) \in Nat /\ DOMAIN chain = 1..Len(chain)
    BY <1>1, ListFacts
<1>3. /\ Len(events) = Len(chain)
      /\ \A i \in 1..Len(chain) : events[i] = chain[i].event
      /\ Len(EventsOf(s)) = Len(s)
      /\ \A i \in 1..Len(s) : EventsOf(s)[i] = s[i].event
    BY <1>1, EventsList
<1>4. ASSUME NEW i \in 1..Len(s)
      PROVE  i \in 1..Len(chain) /\ EventsOf(s)[i] = events[i]
    <2>1. PICK j \in DOMAIN chain : s[i].hash = chain[j].hash
        BY <1>1, <1>2 DEF LeftOf
    <2>2. s[i].hash = <<i - 1, IF i = 1 THEN None ELSE s[i - 1].hash, s[i].event>>
        BY <1>2, ChainNumbered
    <2>3. chain[j].hash =
            <<j - 1, IF j = 1 THEN None ELSE chain[j - 1].hash, chain[j].event>>
        BY <1>1, ChainNumbered
    <2>4. i - 1 = j - 1 /\ s[i].event = chain[j].event
        <3>1. PICK b : s[i].hash = <<i - 1, b, s[i].event>>
            BY <2>2
        <3>2. PICK c : chain[j].hash = <<j - 1, c, chain[j].event>>
            BY <2>3
        <3>3. <<i - 1, b, s[i].event>> = <<j - 1, c, chain[j].event>>
            BY <2>1, <3>1, <3>2
        <3> QED BY ONLY <3>3
    <2>5. i = j
        BY <1>2, <2>4
    <2> QED BY <1>2, <1>3, <2>4, <2>5
<1>5. Len(s) <= Len(chain)
    <2>1. CASE Len(s) = 0
        BY <1>2, <2>1
    <2>2. CASE Len(s) # 0
        BY <1>2, <1>4, <2>2
    <2> QED BY <2>1, <2>2
<1>6. SubSeq(EventsOf(s), 1, Len(s)) = SubSeq(events, 1, Len(s))
    <2> DEFINE T == {events[i] : i \in 1..Len(s)}
    <2>1. \A i \in 1..Len(s) : EventsOf(s)[i] \in T /\ events[i] \in T
        BY <1>4
    <2>2. 1 \in Int /\ Len(s) \in Int /\ Len(s) - 1 + 1 = Len(s)
        BY <1>2
    <2> HIDE DEF T
    <2>3. /\ SubSeq(EventsOf(s), 1, Len(s)) \in Seq(T)
          /\ Len(SubSeq(EventsOf(s), 1, Len(s))) = IF 1 <= Len(s) THEN Len(s) - 1 + 1 ELSE 0
          /\ \A i \in 1..(Len(s) - 1 + 1) :
               SubSeq(EventsOf(s), 1, Len(s))[i] = EventsOf(s)[1 + i - 1]
        BY <2>1, <2>2, SubSeqProperties
    <2>4. /\ SubSeq(events, 1, Len(s)) \in Seq(T)
          /\ Len(SubSeq(events, 1, Len(s))) = IF 1 <= Len(s) THEN Len(s) - 1 + 1 ELSE 0
          /\ \A i \in 1..(Len(s) - 1 + 1) : SubSeq(events, 1, Len(s))[i] = events[1 + i - 1]
        BY <2>1, <2>2, SubSeqProperties
    <2>5. Len(SubSeq(EventsOf(s), 1, Len(s))) = Len(s)
        BY <1>2, <2>3
    <2>6. ASSUME NEW i \in 1..Len(s)
          PROVE  SubSeq(EventsOf(s), 1, Len(s))[i] = SubSeq(events, 1, Len(s))[i]
        <3>1. 1 + i - 1 = i /\ i \in 1..(Len(s) - 1 + 1)
            BY <1>2
        <3> QED BY <1>4, <2>3, <2>4, <3>1
    <2> QED BY <2>3, <2>4, <2>5, <2>6, SeqEqual
<1> QED BY <1>2, <1>3, <1>5, <1>6 DEF IsPrefix

-----------------------------------------------------------------------------
(* The invariant of the ledger: what is left of the rows is left of a chain *)
(* of what was written, and while the daemon is up, or nothing was damaged, *)
(* they are that chain and the checkpoints sign it.                        *)
LedgerInv ==
    /\ IsList(rows) /\ \A i \in DOMAIN rows : Shaped(rows[i])
    /\ Remains(rows, written)
    /\ IsList(written) /\ Len(written) <= MaxEntries
    /\ daemon = "up" \/ damage = 0 => Verified /\ EventsOf(rows) = written
    /\ unsigned # None => /\ daemon = "up" /\ rows # <<>>
                          /\ unsigned = Last(rows) /\ unsigned.sequence % Interval = 0
    /\ \A c \in checkpoints :
         c.sequence \in Nat /\ c.sequence % Interval = 0 /\ c.sequence < MaxEntries
    /\ daemon \in {"down", "up", "refused"}
    /\ damage \in 0..MaxDamage /\ stops \in 0..MaxStops

LEMMA WholeRemains ==
    ASSUME NEW s, IsList(s), Intact(s)
    PROVE  Remains(s, EventsOf(s))
BY DEF Remains, LeftOf

LEMMA UpFacts ==
    ASSUME LedgerInv, daemon = "up" \/ damage = 0
    PROVE  /\ IsList(rows) /\ Intact(rows) /\ Signed(rows) /\ EventsOf(rows) = written
           /\ Len(rows) \in Nat /\ DOMAIN rows = 1..Len(rows) /\ Len(written) = Len(rows)
           /\ rows = <<>> <=> Len(rows) = 0
           /\ Numbered(rows)
           /\ \A event : NextEntry(event) = Following(rows, event)
<1>1. IsList(rows) /\ Intact(rows) /\ Signed(rows) /\ EventsOf(rows) = written
    BY DEF LedgerInv, Verified
<1>2. /\ Len(rows) \in Nat /\ DOMAIN rows = 1..Len(rows) /\ Len(written) = Len(rows)
      /\ rows = <<>> <=> Len(rows) = 0
    BY <1>1, ListFacts, EventsList
<1>3. Numbered(rows)
    BY <1>1, ChainNumbered DEF Numbered
<1>4. ASSUME NEW event PROVE NextEntry(event) = Following(rows, event)
    <2>1. CASE rows = <<>>
        BY <1>2, <2>1 DEF NextEntry, Following
    <2>2. CASE rows # <<>>
        <3>1. Len(rows) \in DOMAIN rows
            BY <1>2, <2>2
        <3>2. Last(rows).sequence + 1 = Len(rows) /\ Last(rows).hash = rows[Len(rows)].hash
            BY <1>2, <1>3, <3>1 DEF Last, Numbered
        <3> QED BY <2>2, <3>2 DEF NextEntry, Following
    <2> QED BY <2>1, <2>2
<1> QED BY <1>1, <1>2, <1>3, <1>4

LEMMA LedgerStarts ==
    ASSUME LedgerInit
    PROVE  LedgerInv
<1> USE DEF LedgerInit
<1>1. /\ rows = <<>> /\ written = <<>> /\ checkpoints = {} /\ daemon = "down"
      /\ unsigned = None /\ damage = 0 /\ stops = 0
    OBVIOUS
<1>2. IsList(rows) /\ Len(rows) = 0 /\ DOMAIN rows = {} /\ IsList(written)
    <2>1. <<>> \in Seq({})
        BY EmptySeq
    <2>2. IsList(<<>>)
        BY <2>1, ListOfElements
    <2>3. Len(<<>>) = 0 /\ DOMAIN <<>> = 1..Len(<<>>)
        BY <2>2, ListFacts
    <2>4. DOMAIN <<>> = {}
        BY <2>3
    <2> QED BY <1>1, <2>2, <2>3, <2>4
<1>3. Intact(rows) /\ Signed(rows)
    BY <1>1, <1>2 DEF Intact, Signed
<1>4. EventsOf(rows) = written
    <2>1. IsList(EventsOf(rows)) /\ Len(EventsOf(rows)) = 0
        BY <1>2, EventsList
    <2> QED BY <1>1, <2>1, ListFacts
<1>5. Remains(rows, written)
    BY <1>2, <1>3, <1>4, WholeRemains
<1>6. MaxEntries \in Nat /\ MaxDamage \in Nat /\ MaxStops \in Nat
    BY LedgerAssumption
<1> QED BY <1>1, <1>2, <1>3, <1>4, <1>5, <1>6 DEF LedgerInv, Verified

\* What an audited request appends.
LEMMA RecordAppends ==
    ASSUME LedgerInv, NEW p, NEW r, Record(p, r)
    PROVE  \E e : /\ e = Following(rows, Event(p, r, Len(written)))
                  /\ rows' = Append(rows, e) /\ e.sequence = Len(rows)
                  /\ e.event = Event(p, r, Len(written)) /\ Shaped(e)
                  /\ written' = Append(written, e.event)
                  /\ unsigned' = IF e.sequence % Interval = 0 THEN e ELSE None
                  /\ daemon = "up" /\ unsigned = None /\ Len(written) < MaxEntries
                  /\ UNCHANGED <<checkpoints, daemon, reader, damage, stops>>
<1> DEFINE e == Following(rows, Event(p, r, Len(written)))
<1>1. daemon = "up"
    BY DEF Record
<1>2. NextEntry(Event(p, r, Len(written))) = e
    BY <1>1, UpFacts
<1>3. /\ e.sequence = Len(rows) /\ e.event = Event(p, r, Len(written))
      /\ e = [sequence |-> e.sequence, previous |-> e.previous, event |-> e.event,
              hash |-> e.hash]
    BY DEF Following, Entry
<1>4. Shaped(e)
    BY <1>3 DEF Shaped, Event
<1> HIDE DEF e
<1>5. /\ rows' = Append(rows, e)
      /\ written' = Append(written, e.event)
      /\ unsigned' = IF e.sequence % Interval = 0 THEN e ELSE None
      /\ daemon = "up" /\ unsigned = None /\ Len(written) < MaxEntries
      /\ UNCHANGED <<checkpoints, daemon, reader, damage, stops>>
    BY <1>2 DEF Record
<1> QED BY <1>3, <1>4, <1>5 DEF e

LEMMA RecordLedger ==
    ASSUME LedgerInv, NEW p, NEW r, Record(p, r)
    PROVE  LedgerInv'
<1>1. PICK e : /\ e = Following(rows, Event(p, r, Len(written)))
               /\ rows' = Append(rows, e) /\ e.sequence = Len(rows)
               /\ e.event = Event(p, r, Len(written)) /\ Shaped(e)
               /\ written' = Append(written, e.event)
               /\ unsigned' = IF e.sequence % Interval = 0 THEN e ELSE None
               /\ daemon = "up" /\ unsigned = None /\ Len(written) < MaxEntries
               /\ UNCHANGED <<checkpoints, daemon, reader, damage, stops>>
    BY RecordAppends
<1>2. /\ IsList(rows) /\ Intact(rows) /\ Signed(rows) /\ EventsOf(rows) = written
      /\ Len(rows) \in Nat /\ DOMAIN rows = 1..Len(rows) /\ Len(written) = Len(rows)
    BY <1>1, UpFacts
<1>3. /\ IsList(rows') /\ Len(rows') = Len(rows) + 1 /\ DOMAIN rows' = 1..Len(rows')
      /\ \A i \in 1..Len(rows) : rows'[i] = rows[i]
      /\ rows'[Len(rows) + 1] = e
      /\ rows' # <<>>
    <2>1. /\ IsList(rows') /\ Len(rows') = Len(rows) + 1
          /\ \A i \in 1..Len(rows) : rows'[i] = rows[i]
          /\ rows'[Len(rows) + 1] = e
        BY <1>1, <1>2, ListAppend
    <2>2. DOMAIN rows' = 1..Len(rows') /\ (rows' = <<>> <=> Len(rows') = 0)
        BY <2>1, ListFacts
    <2> QED BY <1>2, <2>1, <2>2
<1>4. Intact(rows') /\ EventsOf(rows') = written'
    BY <1>1, <1>2, ChainAppend
<1>5. \A i \in DOMAIN rows' : Shaped(rows'[i])
    <2>1. \A i \in 1..Len(rows') : i \in 1..Len(rows) \/ i = Len(rows) + 1
        BY <1>2, <1>3
    <2>2. \A i \in 1..Len(rows) : Shaped(rows[i])
        BY <1>2 DEF LedgerInv
    <2> QED BY <1>1, <1>3, <2>1, <2>2
<1>6. Remains(rows', written')
    BY <1>3, <1>4, WholeRemains
<1>7. IsList(written') /\ Len(written') <= MaxEntries
    <2>1. IsList(written') /\ Len(written') = Len(rows')
        BY <1>3, <1>4, EventsList
    <2> QED BY <1>1, <1>2, <1>3, <2>1, LedgerAssumption
<1>8. Signed(rows)'
    <2> SUFFICES ASSUME NEW c \in checkpoints
                 PROVE  /\ c.sequence < Len(rows')
                        /\ rows'[c.sequence + 1].sequence = c.sequence
                        /\ rows'[c.sequence + 1].hash = c.head
        BY <1>1 DEF Signed
    <2>1. c.sequence \in Nat
        BY DEF LedgerInv
    <2>2. /\ c.sequence < Len(rows)
          /\ rows[c.sequence + 1].sequence = c.sequence
          /\ rows[c.sequence + 1].hash = c.head
        BY <1>2 DEF Signed
    <2>3. c.sequence + 1 \in 1..Len(rows)
        BY <1>2, <2>1, <2>2
    <2> QED BY <1>2, <1>3, <2>1, <2>2, <2>3
<1>9. unsigned' # None => /\ rows' # <<>>
                          /\ unsigned' = Last(rows') /\ unsigned'.sequence % Interval = 0
    BY <1>1, <1>2, <1>3 DEF Last
<1>10. Verified' /\ (EventsOf(rows) = written)'
    BY <1>4, <1>8 DEF Verified
<1> QED BY <1>1, <1>3, <1>5, <1>6, <1>7, <1>9, <1>10 DEF LedgerInv

LEMMA SignLedger ==
    ASSUME LedgerInv, Sign
    PROVE  LedgerInv'
<1>1. /\ daemon = "up" /\ unsigned # None /\ unsigned' = None
      /\ checkpoints' = {c \in checkpoints : c.sequence # unsigned.sequence}
                        \union {Checkpoint(unsigned)}
      /\ UNCHANGED <<rows, daemon, reader, written, damage, stops>>
    BY DEF Sign
<1>2. /\ Signed(rows) /\ EventsOf(rows) = written /\ Numbered(rows)
      /\ Len(rows) \in Nat /\ DOMAIN rows = 1..Len(rows) /\ Len(written) = Len(rows)
      /\ rows = <<>> <=> Len(rows) = 0
    BY <1>1, UpFacts
<1>3. /\ rows # <<>> /\ unsigned = rows[Len(rows)] /\ unsigned.sequence % Interval = 0
      /\ Len(written) <= MaxEntries
    BY <1>1 DEF LedgerInv, Last
<1>4. Len(rows) \in DOMAIN rows /\ unsigned.sequence = Len(rows) - 1
    BY <1>2, <1>3 DEF Numbered
<1>5. /\ Checkpoint(unsigned).sequence = unsigned.sequence
      /\ Checkpoint(unsigned).head = unsigned.hash
    BY DEF Checkpoint
<1>6. \A c \in checkpoints' : c \in checkpoints \/ c = Checkpoint(unsigned)
    BY <1>1
<1>7. Signed(rows)'
    <2> SUFFICES ASSUME NEW c \in checkpoints'
                 PROVE  /\ c.sequence < Len(rows)
                        /\ rows[c.sequence + 1].sequence = c.sequence
                        /\ rows[c.sequence + 1].hash = c.head
        BY <1>1 DEF Signed
    <2>1. CASE c \in checkpoints
        BY <1>2, <2>1 DEF Signed
    <2>2. CASE c = Checkpoint(unsigned)
        <3>1. c.sequence = Len(rows) - 1 /\ c.sequence + 1 = Len(rows) /\ c.head = unsigned.hash
            BY <1>2, <1>4, <1>5, <2>2
        <3> QED BY <1>2, <1>3, <1>4, <3>1
    <2> QED BY <1>6, <2>1, <2>2
<1>8. \A c \in checkpoints' :
        c.sequence \in Nat /\ c.sequence % Interval = 0 /\ c.sequence < MaxEntries
    <2>1. \A c \in checkpoints :
            c.sequence \in Nat /\ c.sequence % Interval = 0 /\ c.sequence < MaxEntries
        BY DEF LedgerInv
    <2>2. /\ unsigned.sequence \in Nat /\ unsigned.sequence % Interval = 0
          /\ unsigned.sequence < MaxEntries
        BY <1>2, <1>3, <1>4, LedgerAssumption
    <2> QED BY <1>5, <1>6, <2>1, <2>2
<1>9. Verified'
    BY <1>1, <1>7 DEF LedgerInv, Verified
<1> QED BY <1>1, <1>2, <1>8, <1>9 DEF LedgerInv

\* A verification that passes leaves the rows as they were written, except for
\* entries at the end.
LEMMA StartLedger ==
    ASSUME LedgerInv, Start
    PROVE  /\ LedgerInv'
           /\ daemon' = "up" => /\ IsPrefix(EventsOf(rows), written)
                               /\ \A c \in checkpoints : c.sequence < Len(rows)
           /\ daemon' = "refused" => damage > 0
<1>1. /\ daemon = "down"
      /\ daemon' = IF Verified THEN "up" ELSE "refused"
      /\ written' = IF Verified THEN EventsOf(rows) ELSE written
      /\ UNCHANGED <<rows, checkpoints, unsigned, reader, damage, stops>>
    BY DEF Start
<1>2. unsigned = None /\ damage \in Nat
    BY <1>1, LedgerAssumption DEF LedgerInv
<1>3. CASE Verified
    <2>1. IsList(rows) /\ Intact(rows) /\ Remains(rows, written) /\ Len(written) <= MaxEntries
        BY <1>3 DEF LedgerInv, Verified
    <2>2. /\ Len(rows) <= Len(written) /\ Len(written) \in Nat
          /\ IsPrefix(EventsOf(rows), written)
        BY <2>1, IntactIsPrefix
    <2>3. IsList(EventsOf(rows)) /\ Len(EventsOf(rows)) = Len(rows) /\ Len(rows) \in Nat
        BY <2>1, EventsList, ListFacts
    <2>4. Remains(rows', written') /\ IsList(written') /\ Len(written') <= MaxEntries
        BY <1>1, <1>3, <2>1, <2>2, <2>3, WholeRemains, LedgerAssumption
    <2>5. Verified' /\ (EventsOf(rows) = written)'
        BY <1>1, <1>3 DEF Verified, Signed
    <2>6. \A c \in checkpoints : c.sequence < Len(rows)
        BY <1>3 DEF Verified, Signed
    <2>7. LedgerInv'
        BY <1>1, <1>2, <1>3, <2>4, <2>5 DEF LedgerInv
    <2> QED BY <1>1, <1>3, <2>2, <2>6, <2>7
<1>4. CASE ~Verified
    <2>1. damage # 0
        BY <1>4 DEF LedgerInv
    <2>2. daemon' = "refused" /\ written' = written /\ damage' # 0
        BY <1>1, <1>4, <2>1
    <2>3. LedgerInv'
        BY <1>1, <1>2, <2>2 DEF LedgerInv
    <2> QED BY <1>2, <2>1, <2>2, <2>3
<1> QED BY <1>3, <1>4

\* Damage takes no hash, sequence or revision that was not there.
LEMMA DamageLedger ==
    ASSUME LedgerInv, Damage
    PROVE  /\ LedgerInv'
           /\ \A i \in DOMAIN rows' : \E j \in DOMAIN rows :
                rows'[i].event.revision = rows[j].event.revision
<1> DEFINE From(e) == \E j \in DOMAIN rows :
              /\ e.sequence = rows[j].sequence /\ e.hash = rows[j].hash
              /\ e.event.revision = rows[j].event.revision
<1>1. /\ daemon = "down" /\ damage < MaxDamage /\ damage' = damage + 1
      /\ UNCHANGED <<daemon, unsigned, reader, written, stops>>
    BY DEF Damage
<1>2. /\ unsigned = None /\ damage \in 0..MaxDamage /\ damage' \in 0..MaxDamage /\ damage' # 0
    BY <1>1, LedgerAssumption DEF LedgerInv
<1>3. /\ IsList(rows) /\ Len(rows) \in Nat /\ DOMAIN rows = 1..Len(rows)
      /\ \A i \in DOMAIN rows : Shaped(rows[i])
    BY ListFacts DEF LedgerInv
<1>4. /\ IsList(rows') /\ checkpoints' \subseteq checkpoints
      /\ \A i \in DOMAIN rows' : Shaped(rows'[i]) /\ From(rows'[i])
    <2>1. ASSUME NEW k \in DOMAIN rows, rows' = RemoveAt(rows, k), UNCHANGED checkpoints
          PROVE  <1>4!:
        <3>1. /\ IsList(rows')
              /\ \A i \in 1..Len(rows') : \E j \in 1..Len(rows) : rows'[i] = rows[j]
            BY <1>3, <2>1, ListRemove
        <3>2. DOMAIN rows' = 1..Len(rows')
            BY <3>1, ListFacts
        <3>3. \A i \in DOMAIN rows : Shaped(rows[i]) /\ From(rows[i])
            BY <1>3
        <3> HIDE DEF From
        <3>4. \A i \in DOMAIN rows' : Shaped(rows'[i]) /\ From(rows'[i])
            <4> TAKE i \in DOMAIN rows'
            <4>1. PICK j \in DOMAIN rows : rows'[i] = rows[j]
                BY <1>3, <3>1, <3>2
            <4> QED BY <3>3, <4>1
        <3> QED BY <2>1, <3>1, <3>4
    <2>2. ASSUME NEW k \in DOMAIN rows, NEW p \in Project,
                 rows' = [rows EXCEPT ![k].event.project = p], UNCHANGED checkpoints
          PROVE  <1>4!:
        <3> DEFINE e == [rows[k] EXCEPT !.event.project = p]
        <3>1. Shaped(rows[k])
            BY <1>3
        <3>2. /\ e.sequence = rows[k].sequence /\ e.hash = rows[k].hash
              /\ e.event.revision = rows[k].event.revision /\ Shaped(e)
            <4>1. e = [sequence |-> rows[k].sequence, previous |-> rows[k].previous,
                       event |-> [rows[k].event EXCEPT !.project = p], hash |-> rows[k].hash]
                BY <3>1 DEF Shaped
            <4>2. [rows[k].event EXCEPT !.project = p] =
                    Event(p, rows[k].event.revision, rows[k].event.id)
                BY <3>1 DEF Shaped, Event
            <4> HIDE DEF e
            <4>3. /\ e.sequence = rows[k].sequence /\ e.previous = rows[k].previous
                  /\ e.hash = rows[k].hash
                  /\ e.event = Event(p, rows[k].event.revision, rows[k].event.id)
                BY <4>1, <4>2
            <4>4. /\ e.event.project = p /\ e.event.revision = rows[k].event.revision
                  /\ e.event.id = rows[k].event.id
                BY <4>3 DEF Event
            <4> QED BY <4>1, <4>2, <4>3, <4>4 DEF Shaped
        <3>3. rows' = [rows EXCEPT ![k] = e]
            BY <2>2
        <3> HIDE DEF e
        <3>4. DOMAIN rows' = DOMAIN rows /\ \A i \in DOMAIN rows : i # k => rows'[i] = rows[i]
            BY <3>3
        <3>5. rows'[k] = e
            BY <3>3
        <3>6. IsList(rows')
            <4>1. rows' \in [1..Len(rows) -> {rows'[i] : i \in 1..Len(rows)}]
                BY <1>3, <3>3, <3>4
            <4> QED BY <1>3, <4>1, ListOfValues
        <3>7. From(e)
            BY <3>2
        <3>8. \A i \in DOMAIN rows : From(rows[i])
            OBVIOUS
        <3> HIDE DEF From
        <3>9. \A i \in DOMAIN rows' : Shaped(rows'[i]) /\ From(rows'[i])
            BY <1>3, <3>2, <3>4, <3>5, <3>7, <3>8
        <3> QED BY <2>2, <3>6, <3>9
    <2>3. ASSUME NEW c \in checkpoints, checkpoints' = checkpoints \ {c}, UNCHANGED rows
          PROVE  <1>4!:
        BY <1>3, <2>3
    <2>4. \/ \E i \in DOMAIN rows : rows' = RemoveAt(rows, i) /\ UNCHANGED checkpoints
          \/ \E i \in DOMAIN rows, p \in Project :
               rows' = [rows EXCEPT ![i].event.project = p] /\ UNCHANGED checkpoints
          \/ \E c \in checkpoints : checkpoints' = checkpoints \ {c} /\ UNCHANGED rows
        BY DEF Damage
    <2> HIDE DEF From
    <2> QED BY ONLY <2>1, <2>2, <2>3, <2>4
<1>5. Remains(rows', written')
    <2>1. PICK chain : /\ IsList(chain) /\ Intact(chain)
                       /\ EventsOf(chain) = written
                       /\ LeftOf(rows, chain)
        BY DEF LedgerInv, Remains
    <2>2. LeftOf(rows', chain)
        <3> SUFFICES ASSUME NEW i \in DOMAIN rows'
                     PROVE  \E j \in DOMAIN chain : /\ rows'[i].sequence = chain[j].sequence
                                                    /\ rows'[i].hash = chain[j].hash
            BY DEF LeftOf
        <3>1. PICK j \in DOMAIN rows : /\ rows'[i].sequence = rows[j].sequence
                                       /\ rows'[i].hash = rows[j].hash
            BY <1>4
        <3> QED BY <2>1, <3>1 DEF LeftOf
    <2> QED BY <1>1, <2>1, <2>2 DEF Remains
<1>6. LedgerInv'
    BY <1>1, <1>2, <1>4, <1>5 DEF LedgerInv
<1> QED BY <1>4, <1>6

LEMMA StopLedger ==
    ASSUME LedgerInv, Stop
    PROVE  LedgerInv'
<1>1. /\ daemon = "up" /\ stops < MaxStops /\ daemon' = "down" /\ unsigned' = None
      /\ stops' = stops + 1
      /\ UNCHANGED <<rows, checkpoints, reader, written, damage>>
    BY DEF Stop
<1>2. stops' \in 0..MaxStops
    BY <1>1, LedgerAssumption DEF LedgerInv
<1>3. Verified'
    BY <1>1 DEF LedgerInv, Verified, Signed
<1> QED BY <1>1, <1>2, <1>3 DEF LedgerInv

\* A client that is lost, a request that reads the history, and whatever else
\* does not write to the ledger.
LEMMA ReadLedger ==
    ASSUME LedgerInv, UNCHANGED <<rows, checkpoints, daemon, unsigned, written, damage>>,
           stops' \in 0..MaxStops
    PROVE  LedgerInv'
<1>1. Verified' <=> Verified
    BY DEF Verified, Signed
<1> QED BY <1>1 DEF LedgerInv

-----------------------------------------------------------------------------
(* The invariant of a workflow: whatever revision its client, its candidate *)
(* or the ledger holds is where its worktree started.                      *)
Started == <<worktree[1], 0>>
Steps == {"gone", "architect", "prepare", "audit", "execute", "freeze", "verify"}

RowsStart ==
    \A i \in DOMAIN rows :
      rows[i].event.revision # None => worktree # None /\ rows[i].event.revision = Started

WorkInv ==
    /\ worktree \in Revision \union {None}
    /\ client \in [step : Steps, base : Revision \union {None}]
    /\ stage \in {"architecture", "execution", "verification", "repair", "delivery"}
    /\ plan \in {"none", "saved", "accepted"}
    /\ dirty \in BOOLEAN /\ rejected \in BOOLEAN /\ oversized \in BOOLEAN
    /\ repairs \in 0..MaxRepairs /\ losses \in 0..MaxLosses
    /\ candidate # None => worktree # None /\ candidate = Started
    /\ client.base # None => worktree # None /\ client.base = Started
    /\ client.step \in {"audit", "execute", "freeze"} => client.base # None
    /\ client.step = "architect" /\ client.base = None => worktree = None
    /\ client.step = "prepare" => worktree = None
    /\ client.step = "audit" => worktree = client.base

LEMMA GreatestNumber ==
    ASSUME NEW n \in Nat, NEW S \in SUBSET (1..n), S # {}
    PROVE  Max(S) \in S
<1> DEFINE D == {m \in Nat : n - m \in S}
<1>1. PICK i \in S : TRUE
    OBVIOUS
<1>2. n - i \in D
    BY <1>1
<1>3. PICK m \in D : \A k \in D : m <= k
    <2>1. D \in SUBSET Nat /\ D # {}
        BY <1>2
    <2> HIDE DEF D
    <2> QED BY <2>1, LeastNumber
<1>4. n - m \in S /\ \A j \in S : n - m >= j
    <2> SUFFICES ASSUME NEW j \in S PROVE n - m >= j
        BY <1>3
    <2>1. n - j \in D
        OBVIOUS
    <2>2. m <= n - j
        BY <1>3, <2>1
    <2> QED BY <2>2
<1>5. \E x \in S : \A y \in S : x >= y
    BY <1>4
<1> QED BY <1>5 DEF Max

LEMMA StartedFacts ==
    ASSUME WorkInv, worktree # None
    PROVE  /\ worktree[1] \in 0..MaxHead /\ worktree[2] \in 0..MaxCommits
           /\ worktree = <<worktree[1], worktree[2]>>
           /\ Started \in Revision /\ Started # None
<1>1. worktree \in (0..MaxHead) \X (0..MaxCommits)
    BY DEF WorkInv, Revision
<1>2. MaxHead \in Nat /\ MaxCommits \in Nat /\ None \notin Nat \X Nat
    BY RecoveryAssumption
<1>3. Started \in Nat \X Nat /\ Started \in Revision
    BY <1>1, <1>2 DEF Started, Revision
<1> QED BY <1>1, <1>2, <1>3

\* The base revision a workflow is taken up with is where its worktree started.
LEMMA BaseStarted ==
    ASSUME LedgerInv, WorkInv, RowsStart
    PROVE  Base # None => worktree # None /\ Base = Started
<1>1. LedgerBase # None => worktree # None /\ LedgerBase = Started
    <2> SUFFICES ASSUME LedgerBase # None PROVE worktree # None /\ LedgerBase = Started
        OBVIOUS
    <2>1. Recorded # {} /\ LedgerBase = rows[Max(Recorded)].event.revision
        BY DEF LedgerBase
    <2>2. Len(rows) \in Nat /\ DOMAIN rows = 1..Len(rows)
        BY ListFacts DEF LedgerInv
    <2>3. Recorded \in SUBSET (1..Len(rows))
        BY <2>2 DEF Recorded
    <2>4. Max(Recorded) \in Recorded
        BY <2>1, <2>2, <2>3, GreatestNumber
    <2>5. Max(Recorded) \in DOMAIN rows
        BY <2>2, <2>3, <2>4
    <2> QED BY <2>1, <2>5 DEF RowsStart
<1>2. candidate # None => worktree # None /\ candidate = Started
    BY DEF WorkInv
<1> QED BY <1>1, <1>2 DEF Base

WorkStep == WorkInv' /\ RowsStart'

LEMMA ClientOf ==
    ASSUME NEW step \in Steps, NEW base \in Revision \union {None}
    PROVE  /\ Doing(step, base) \in [step : Steps, base : Revision \union {None}]
           /\ Doing(step, base).step = step /\ Doing(step, base).base = base
BY DEF Doing

LEMMA GoneClient ==
    /\ Gone \in [step : Steps, base : Revision \union {None}]
    /\ Gone.step = "gone" /\ Gone.base = None
BY DEF Gone, Steps

\* The fields a step writes that no revision depends on.
Judged ==
    /\ stage' \in {"architecture", "execution", "verification", "repair", "delivery"}
    /\ plan' \in {"none", "saved", "accepted"}
    /\ dirty' \in BOOLEAN /\ rejected' \in BOOLEAN /\ oversized' \in BOOLEAN
    /\ repairs' \in 0..MaxRepairs /\ losses' \in 0..MaxLosses

\* Wherever a client goes that changes neither the worktree nor the ledger.
LEMMA ClientWork ==
    ASSUME WorkInv, RowsStart, UNCHANGED <<rows, worktree>>, Judged,
           candidate' = candidate \/ candidate' = client.base,
           client' \in [step : Steps, base : Revision \union {None}],
           client'.base # None => worktree # None /\ client'.base = Started,
           client'.step # "audit",
           client'.step \in {"execute", "freeze"} => client'.base # None,
           client'.step = "architect" /\ client'.base = None => worktree = None,
           client'.step = "prepare" => worktree = None
    PROVE  WorkStep
<1>1. RowsStart'
    BY DEF RowsStart, Started
<1>2. candidate' # None => worktree # None /\ candidate' = Started
    BY DEF WorkInv
<1> QED BY <1>1, <1>2 DEF WorkStep, WorkInv, Started, Judged

\* A client that is gone, or goes on with the base revision it has.
LEMMA GoneWork ==
    ASSUME WorkInv, RowsStart, UNCHANGED <<rows, worktree>>, Judged,
           candidate' = candidate \/ candidate' = client.base,
           client' = Gone
    PROVE  WorkStep
BY GoneClient, ClientWork

LEMMA OnwardWork ==
    ASSUME WorkInv, RowsStart, UNCHANGED <<rows, worktree>>, Judged,
           candidate' = candidate \/ candidate' = client.base,
           NEW step \in {"architect", "execute", "freeze", "verify"},
           client.base # None,
           client' = Doing(step, client.base) \/ client' = [client EXCEPT !.step = step]
    PROVE  WorkStep
<1>1. /\ client \in [step : Steps, base : Revision \union {None}]
      /\ worktree # None /\ client.base = Started
    BY DEF WorkInv
<1>2. /\ client' \in [step : Steps, base : Revision \union {None}]
      /\ client'.step = step /\ client'.base = client.base
    BY <1>1, ClientOf DEF Steps
<1> QED BY <1>1, <1>2, ClientWork

\* What a lost client or a failed request counts.
LEMMA LostFacts ==
    ASSUME WorkInv, Lost
    PROVE  losses' \in 0..MaxLosses /\ client' = Gone
BY RecoveryAssumption DEF WorkInv, Lost

LEMMA RetryWork ==
    ASSUME LedgerInv, WorkInv, RowsStart, Retry
    PROVE  WorkStep
<1>1. /\ UNCHANGED <<ledger, worktree, dirty, stage, plan, judged, losses>>
      /\ \/ /\ stage \in {"architecture", "execution"} /\ Consistent /\ client' = TakeUp(Base)
         \/ stage = "verification" /\ client' = Doing("verify", None)
    BY DEF Retry
<1>2. UNCHANGED <<rows, worktree>> /\ candidate' = candidate /\ Judged
    BY <1>1 DEF ledger, judged, Judged, WorkInv
<1>3. Base # None => worktree # None /\ Base = Started
    BY BaseStarted
<1>4. Base \in Revision \union {None}
    BY <1>3, StartedFacts
<1>5. CASE stage = "verification" /\ client' = Doing("verify", None)
    <2>1. /\ client' \in [step : Steps, base : Revision \union {None}]
          /\ client'.step = "verify" /\ client'.base = None
        BY <1>5, ClientOf DEF Steps
    <2> QED BY <1>2, <2>1, ClientWork
<1>6. CASE stage = "architecture" /\ Consistent /\ client' = TakeUp(Base)
    <2>1. client' = Doing("architect", Base)
        BY <1>6 DEF TakeUp
    <2>2. /\ client' \in [step : Steps, base : Revision \union {None}]
          /\ client'.step = "architect" /\ client'.base = Base
        BY <1>4, <2>1, ClientOf DEF Steps
    <2>3. Base = None => worktree = None
        BY <1>6 DEF Consistent
    <2> QED BY <1>2, <1>3, <2>2, <2>3, ClientWork
<1>7. CASE stage = "execution" /\ Consistent /\ client' = TakeUp(Base)
    <2>1. CASE Base = None
        <3>1. client' = Doing("prepare", None)
            BY <1>7, <2>1 DEF TakeUp
        <3>2. /\ client' \in [step : Steps, base : Revision \union {None}]
              /\ client'.step = "prepare" /\ client'.base = None
            BY <3>1, ClientOf DEF Steps
        <3>3. worktree = None
            BY <1>7, <2>1 DEF Consistent
        <3> QED BY <1>2, <3>2, <3>3, ClientWork
    <2>2. CASE Base # None
        <3>1. client' = Doing("execute", Base)
            BY <1>7, <2>2 DEF TakeUp
        <3>2. /\ client' \in [step : Steps, base : Revision \union {None}]
              /\ client'.step = "execute" /\ client'.base = Base
            BY <1>4, <3>1, ClientOf DEF Steps
        <3> QED BY <1>2, <1>3, <2>2, <3>2, ClientWork
    <2> QED BY <2>1, <2>2
<1> QED BY <1>1, <1>5, <1>6, <1>7

LEMMA ArchitectWork ==
    ASSUME WorkInv, RowsStart, Architect
    PROVE  WorkStep
<1>1. /\ client.step = "architect" /\ UNCHANGED <<ledger, worktree, dirty, judged>>
      /\ plan' \in {"none", "saved", "accepted"} /\ stage' \in {stage, "execution"}
      /\ \/ client' = Onward /\ UNCHANGED losses
         \/ Lost
         \/ client' = Gone /\ UNCHANGED losses
    BY DEF Architect, WorkInv
<1>2. losses' \in 0..MaxLosses /\ (client' = Gone \/ client' = Onward)
    BY <1>1, LostFacts DEF WorkInv
<1>3. UNCHANGED <<rows, worktree>> /\ candidate' = candidate
    BY <1>1 DEF ledger, judged
<1>4. Judged
    BY <1>1, <1>2 DEF judged, Judged, WorkInv
<1>5. CASE client' = Gone
    BY <1>3, <1>4, <1>5, GoneWork
<1>6. CASE client' = Onward /\ client.base = None
    <2>1. worktree = None
        BY <1>1, <1>6 DEF WorkInv
    <2>2. /\ client' \in [step : Steps, base : Revision \union {None}]
          /\ client'.step = "prepare" /\ client'.base = None
        BY <1>6, ClientOf DEF Onward, Steps
    <2> QED BY <1>3, <1>4, <2>1, <2>2, ClientWork
<1>7. CASE client' = Onward /\ client.base # None
    <2>1. client' = Doing("execute", client.base)
        BY <1>7 DEF Onward
    <2> QED BY <1>3, <1>4, <1>7, <2>1, OnwardWork
<1> QED BY <1>2, <1>5, <1>6, <1>7

LEMMA PrepareWork ==
    ASSUME WorkInv, RowsStart, Prepare
    PROVE  WorkStep
<1>1. PICK head \in 0..MaxHead : worktree' = IF worktree = None THEN <<head, 0>> ELSE worktree
    BY DEF Prepare
<1>2. /\ client.step = "prepare" /\ client' = Doing("audit", worktree')
      /\ UNCHANGED <<ledger, dirty, stage, plan, judged, losses>>
    BY DEF Prepare
<1>3. worktree = None /\ worktree' = <<head, 0>>
    BY <1>1, <1>2 DEF WorkInv
<1>4. MaxHead \in Nat /\ MaxCommits \in Nat /\ None \notin Nat \X Nat
    BY RecoveryAssumption
<1>5. worktree' \in Revision /\ worktree' # None /\ Started' = worktree'
    BY <1>3, <1>4 DEF Revision, Started
<1>6. /\ client' \in [step : Steps, base : Revision \union {None}]
      /\ client'.step = "audit" /\ client'.base = worktree'
    BY <1>2, <1>5, ClientOf DEF Steps
<1>7. RowsStart'
    BY <1>2, <1>3 DEF RowsStart, ledger
<1> QED BY <1>2, <1>3, <1>5, <1>6, <1>7 DEF WorkStep, WorkInv, judged

\* An audited request adds no revision but where the worktree started.
LEMMA RecordWork ==
    ASSUME LedgerInv, RowsStart, NEW p, NEW r, Record(p, r), UNCHANGED worktree,
           r # None => worktree # None /\ r = Started
    PROVE  RowsStart'
<1>1. PICK e : rows' = Append(rows, e) /\ e.event = Event(p, r, Len(written))
    BY RecordAppends
<1>2. /\ DOMAIN rows = 1..Len(rows) /\ Len(rows) \in Nat
      /\ DOMAIN rows' = 1..Len(rows') /\ Len(rows') = Len(rows) + 1
      /\ \A i \in 1..Len(rows) : rows'[i] = rows[i]
      /\ rows'[Len(rows) + 1] = e
    <2>1. IsList(rows)
        BY DEF LedgerInv
    <2>2. /\ IsList(rows') /\ Len(rows') = Len(rows) + 1
          /\ \A i \in 1..Len(rows) : rows'[i] = rows[i]
          /\ rows'[Len(rows) + 1] = e
        BY <1>1, <2>1, ListAppend
    <2> QED BY <2>1, <2>2, ListFacts
<1>3. e.event.revision = r
    BY <1>1 DEF Event
<1>4. Started' = Started
    BY DEF Started
<1> SUFFICES ASSUME NEW i \in DOMAIN rows', rows'[i].event.revision # None
             PROVE  worktree # None /\ rows'[i].event.revision = Started
    BY <1>4 DEF RowsStart
<1>5. CASE i \in 1..Len(rows)
    BY <1>2, <1>5 DEF RowsStart
<1>6. CASE i = Len(rows) + 1
    BY <1>2, <1>3, <1>6
<1> QED BY <1>2, <1>5, <1>6

LEMMA RecordBaseWork ==
    ASSUME LedgerInv, WorkInv, RowsStart, RecordBase
    PROVE  WorkStep
<1>1. /\ client.step = "audit" /\ Record(Ours, client.base)
      /\ client' = Doing("execute", client.base)
      /\ UNCHANGED <<worktree, dirty, stage, plan, judged, losses>>
    BY DEF RecordBase
<1>2. RowsStart'
    BY <1>1, RecordWork DEF WorkInv
<1>3. /\ client' \in [step : Steps, base : Revision \union {None}]
      /\ client'.step = "execute" /\ client'.base = client.base
    BY <1>1, ClientOf DEF Steps, WorkInv
<1> QED BY <1>1, <1>2, <1>3 DEF WorkStep, WorkInv, Started, judged

LEMMA ExecuteWork ==
    ASSUME WorkInv, RowsStart, Execute
    PROVE  WorkStep
<1>1. /\ client.step = "execute" /\ UNCHANGED <<ledger, stage, plan, judged, losses>>
      /\ CompleteTask \/ RefuseTask \/ AllTasksDone
    BY DEF Execute
<1>2. /\ client.base # None /\ worktree # None /\ client.base = Started
      /\ client \in [step : Steps, base : Revision \union {None}]
    BY <1>1 DEF WorkInv
<1>3. UNCHANGED rows /\ candidate' = candidate
    BY <1>1 DEF ledger, judged
<1>4. CASE CompleteTask
    <2>1. worktree[1] \in 0..MaxHead /\ worktree[2] \in 0..MaxCommits
        BY <1>2, StartedFacts
    <2>2. MaxHead \in Nat /\ MaxCommits \in Nat /\ None \notin Nat \X Nat
        BY RecoveryAssumption
    <2>3. worktree' = <<worktree[1], worktree[2] + 1>> /\ dirty' = FALSE /\ UNCHANGED client
        BY <1>4 DEF CompleteTask
    <2>4. worktree' \in (0..MaxHead) \X (0..MaxCommits) /\ worktree' \in Nat \X Nat
        BY <1>4, <2>1, <2>2, <2>3 DEF CompleteTask
    <2>5. worktree' \in Revision /\ worktree' # None /\ Started' = Started
        BY <2>2, <2>3, <2>4 DEF Revision, Started
    <2>6. RowsStart'
        BY <1>2, <1>3, <2>5 DEF RowsStart
    <2> QED BY <1>1, <1>2, <2>3, <2>5, <2>6 DEF WorkStep, WorkInv, judged
<1>5. CASE RefuseTask
    <2>1. client' = Gone /\ UNCHANGED <<worktree, dirty>>
        BY <1>5 DEF RefuseTask
    <2>2. Judged
        BY <1>1, <2>1 DEF judged, Judged, WorkInv
    <2> QED BY <1>3, <2>1, <2>2, GoneWork
<1>6. CASE AllTasksDone
    <2>1. client' = [client EXCEPT !.step = "freeze"] /\ UNCHANGED <<worktree, dirty>>
        BY <1>6 DEF AllTasksDone
    <2>2. Judged
        BY <1>1, <2>1 DEF judged, Judged, WorkInv
    <2> QED BY <1>2, <1>3, <2>1, <2>2, OnwardWork
<1> QED BY <1>1, <1>4, <1>5, <1>6

LEMMA GiveBackWork ==
    ASSUME WorkInv, RowsStart, GiveBack
    PROVE  WorkStep
<1>1. /\ client.step = "execute" /\ LeavesFiles
      /\ repairs < MaxRepairs /\ repairs' = repairs + 1
      /\ UNCHANGED <<ledger, worktree, plan, candidate, rejected, oversized, losses>>
      /\ \/ stage' = "architecture" /\ client' = [client EXCEPT !.step = "architect"]
         \/ client' = Gone /\ UNCHANGED stage
    BY DEF GiveBack
<1>2. client.base # None
    BY <1>1 DEF WorkInv
<1>3. Judged
    <2>1. repairs' \in 0..MaxRepairs
        BY <1>1, RecoveryAssumption DEF WorkInv
    <2>2. dirty' \in BOOLEAN
        BY <1>1 DEF WorkInv, LeavesFiles
    <2> QED BY <1>1, <2>1, <2>2 DEF Judged, WorkInv
<1>4. UNCHANGED <<rows, worktree>>
    BY <1>1 DEF ledger
<1>5. CASE client' = [client EXCEPT !.step = "architect"]
    BY <1>1, <1>2, <1>3, <1>4, <1>5, OnwardWork
<1>6. CASE client' = Gone
    BY <1>1, <1>3, <1>4, <1>6, GoneWork
<1> QED BY <1>1, <1>5, <1>6

LEMMA FreezeWork ==
    ASSUME WorkInv, RowsStart, Freeze
    PROVE  WorkStep
<1>1. /\ client.step = "freeze"
      /\ UNCHANGED <<ledger, worktree, dirty, plan, rejected, repairs>>
      /\ candidate' = candidate \/ candidate' = client.base
      /\ oversized' \in BOOLEAN /\ stage' \in {stage, "verification"}
      /\ \/ client' = [client EXCEPT !.step = "verify"] /\ UNCHANGED losses
         \/ Lost
         \/ client' = Gone /\ UNCHANGED losses
    BY DEF Freeze, WorkInv
<1>2. /\ losses' \in 0..MaxLosses
      /\ client' = Gone \/ client' = [client EXCEPT !.step = "verify"]
    BY <1>1, LostFacts DEF WorkInv
<1>3. client.base # None
    BY <1>1 DEF WorkInv
<1>4. Judged
    BY <1>1, <1>2 DEF Judged, WorkInv
<1>5. UNCHANGED <<rows, worktree>>
    BY <1>1 DEF ledger
<1>6. CASE client' = Gone
    BY <1>1, <1>4, <1>5, <1>6, GoneWork
<1>7. CASE client' = [client EXCEPT !.step = "verify"]
    BY <1>1, <1>3, <1>4, <1>5, <1>7, OnwardWork
<1> QED BY <1>2, <1>6, <1>7

LEMMA VerifyWork ==
    ASSUME WorkInv, RowsStart, Verify
    PROVE  WorkStep
<1>1. UNCHANGED <<ledger, worktree, plan, candidate>>
    BY DEF Verify
<1>2. UNCHANGED <<rows, worktree>> /\ candidate' = candidate
    BY <1>1 DEF ledger
<1>3. /\ stage' \in {stage, "delivery", "execution", "architecture", "repair"}
      /\ losses' = losses \/ Lost
      /\ repairs' = repairs \/ (repairs < MaxRepairs /\ repairs' = repairs + 1)
      /\ rejected' \in {rejected, TRUE} /\ oversized' \in {oversized} \union BOOLEAN
      /\ dirty' = dirty \/ LeavesFiles
      /\ \/ client' = Gone
         \/ Lost
         \/ /\ client.base # None
            /\ \E step \in {"execute", "architect"} : client' = Doing(step, client.base)
    BY DEF Verify
<1>4. losses' \in 0..MaxLosses
    BY <1>3, LostFacts DEF WorkInv
<1>5. repairs' \in 0..MaxRepairs
    BY <1>3, RecoveryAssumption DEF WorkInv
<1>6. Judged
    BY <1>1, <1>3, <1>4, <1>5 DEF Judged, WorkInv, LeavesFiles
<1>7. CASE client' = Gone \/ Lost
    BY <1>2, <1>6, <1>7, LostFacts, GoneWork
<1>8. ASSUME client.base # None,
             NEW step \in {"execute", "architect"}, client' = Doing(step, client.base)
      PROVE  WorkStep
    <2>1. step \in {"architect", "execute", "freeze", "verify"}
        OBVIOUS
    <2> QED BY <1>2, <1>6, <1>8, <2>1, OnwardWork
<1> QED BY <1>3, <1>7, <1>8

LEMMA LoseClientWork ==
    ASSUME WorkInv, RowsStart, LoseClient
    PROVE  WorkStep
<1>1. /\ Lost /\ (LeavesFiles \/ UNCHANGED dirty)
      /\ UNCHANGED <<ledger, worktree, stage, plan, judged>>
    BY DEF LoseClient
<1>2. losses' \in 0..MaxLosses /\ client' = Gone
    BY <1>1, LostFacts
<1>3. UNCHANGED <<rows, worktree>> /\ candidate' = candidate
    BY <1>1 DEF ledger, judged
<1>4. Judged
    BY <1>1, <1>2 DEF judged, Judged, WorkInv, LeavesFiles
<1> QED BY <1>2, <1>3, <1>4, GoneWork

\* What another request or the daemon does leaves the workflow as it is.
LEMMA OtherWork ==
    ASSUME WorkInv, RowsStart', UNCHANGED workflow
    PROVE  WorkStep
BY DEF WorkStep, WorkInv, workflow, judged, Started

-----------------------------------------------------------------------------
(* The pages a reader gets.  What it has and what is left for it, together, *)
(* are all entries of its project.                                         *)
MatchingIn(entries, after) ==
    Retained(entries, {e \in ToSet(entries) :
                         e.event.project = Reading /\ (after = None \/ e.sequence > after)})

PagesInv ==
    damage = 0 /\ ~reader.done =>
      /\ reader.after = None \/ reader.after \in 0..(Len(rows) - 1)
      /\ IsList(reader.got)
      /\ reader.got \o Matching(reader.after) = Matching(None)

LEMMA MinOfTwo ==
    ASSUME NEW m \in Nat, NEW n \in Nat
    PROVE  Min({m, n}) = IF m <= n THEN m ELSE n
<1>1. \A x \in {m, n} : (\A y \in {m, n} : x <= y) <=> x = IF m <= n THEN m ELSE n
    OBVIOUS
<1>2. \E x \in {m, n} : \A y \in {m, n} : x <= y
    BY <1>1
<1> QED BY <1>1, <1>2 DEF Min

LEMMA MatchingFacts ==
    ASSUME NEW s, IsList(s), Numbered(s), NEW after
    PROVE  /\ MatchingIn(s, after) \in Seq(ToSet(s))
           /\ \A k \in 1..Len(MatchingIn(s, after)) :
                /\ MatchingIn(s, after)[k].sequence \in 0..(Len(s) - 1)
                /\ after = None \/ MatchingIn(s, after)[k].sequence > after
<1> DEFINE S == {e \in ToSet(s) :
                   e.event.project = Reading /\ (after = None \/ e.sequence > after)}
<1>1. s \in Seq(ToSet(s)) /\ Len(s) \in 0..Len(s)
    BY ListFacts DEF IsList
<1>2. \A e \in S : after = None \/ e.sequence > after
    OBVIOUS
<1>3. MatchingIn(s, after) = Retaining(s, S)[Len(s)]
    BY DEF MatchingIn, Retained
<1> HIDE DEF S
<1>4. Ordered(s, S, Len(s))
    BY <1>1, RetainingOrdered
<1> QED BY <1>2, <1>3, <1>4 DEF Ordered

LEMMA MatchingGrows ==
    ASSUME NEW s, IsList(s), NEW e, e.sequence = Len(s), NEW after,
           after = None \/ after \in 0..(Len(s) - 1)
    PROVE  MatchingIn(Append(s, e), after) =
             IF e.event.project = Reading THEN Append(MatchingIn(s, after), e)
             ELSE MatchingIn(s, after)
<1> DEFINE t == Append(s, e)
           T == ToSet(s) \union {e}
           S == {x \in ToSet(s) :
                   x.event.project = Reading /\ (after = None \/ x.sequence > after)}
           U == {x \in ToSet(t) :
                   x.event.project = Reading /\ (after = None \/ x.sequence > after)}
<1>1. s \in Seq(T) /\ e \in T /\ Len(s) \in Nat /\ DOMAIN s = 1..Len(s)
    BY SeqMonotonic, ListFacts DEF IsList
<1>2. /\ DOMAIN t = 1..Len(t) /\ Len(t) = Len(s) + 1
      /\ \A i \in 1..Len(s) : t[i] = s[i]
      /\ t[Len(s) + 1] = e
    BY ListAppend, ListFacts
<1> HIDE DEF t, T
<1>3. \A i \in 1..Len(s) : s[i] \in ToSet(s) /\ s[i] \in ToSet(t)
    BY <1>1, <1>2 DEF ToSet
<1>4. \A i \in 1..Len(s) : s[i] \in S <=> s[i] \in U
    BY <1>3
<1>5. e \in ToSet(t)
    BY <1>1, <1>2 DEF ToSet
<1>6. e \in U <=> e.event.project = Reading
    BY <1>1, <1>5
<1> HIDE DEF S, U
<1>7. Retained(t, U) = IF e \in U THEN Append(Retained(s, S), e) ELSE Retained(s, S)
    BY <1>1, <1>4, RetainedGrows DEF t
<1> QED BY <1>6, <1>7 DEF MatchingIn, S, U, t

LEMMA MatchingAfterPage ==
    ASSUME NEW s, IsList(s), Numbered(s), NEW after, after = None \/ after \in Nat,
           NEW k \in 1..Len(MatchingIn(s, after))
    PROVE  MatchingIn(s, MatchingIn(s, after)[k].sequence) =
             SubSeq(MatchingIn(s, after), k + 1, Len(MatchingIn(s, after)))
<1> DEFINE m == MatchingIn(s, after)
           last == m[k].sequence
           S == {x \in ToSet(s) :
                   x.event.project = Reading /\ (after = None \/ x.sequence > after)}
           U == {x \in ToSet(s) :
                   x.event.project = Reading /\ (last = None \/ x.sequence > last)}
<1>1. /\ s \in Seq(ToSet(s)) /\ Len(s) \in Nat /\ DOMAIN s = 1..Len(s)
      /\ \A i \in 1..Len(s) : s[i] \in ToSet(s) /\ s[i].sequence \in Nat
    BY ListFacts DEF IsList, ToSet, Numbered
<1>2. last \in 0..(Len(s) - 1) /\ (after = None \/ last > after)
    BY MatchingFacts
<1>3. last # None /\ last \in Nat
    BY <1>1, <1>2, LedgerAssumption
<1>4. m = Retained(s, S)
    BY DEF MatchingIn
<1>5. MatchingIn(s, last) = Retained(s, U)
    BY DEF MatchingIn
<1> HIDE DEF m, last
<1>6. \A i \in 1..Len(s) : s[i] \in U <=> s[i] \in S /\ s[i].sequence > last
    BY <1>1, <1>2, <1>3
<1> HIDE DEF S, U
<1>7. k \in 1..Len(Retained(s, S)) /\ last = Retained(s, S)[k].sequence
    BY <1>4 DEF m, last
<1>8. Retained(s, U) = SubSeq(Retained(s, S), k + 1, Len(Retained(s, S)))
    BY <1>1, <1>6, <1>7, RetainedAfter
<1> QED BY <1>4, <1>5, <1>8 DEF m, last

LEMMA ConcatOfLists ==
    ASSUME NEW a, NEW b, NEW c, IsList(a), IsList(b), IsList(c)
    PROVE  /\ (a \o b) \o c = a \o (b \o c)
           /\ IsList(a \o b)
<1> DEFINE T == ToSet(a) \union ToSet(b) \union ToSet(c)
<1>1. a \in Seq(T) /\ b \in Seq(T) /\ c \in Seq(T)
    BY SeqMonotonic DEF IsList
<1> HIDE DEF T
<1>2. a \o b \in Seq(T)
    BY <1>1, ConcatProperties
<1>3. IsList(a \o b)
    BY <1>2, ListOfElements
<1>4. (a \o b) \o c = a \o (b \o c)
    BY <1>1, ConcatAssociative
<1> QED BY <1>3, <1>4

\* A page takes the first of what is left; the last one takes it all.
LEMMA QueryPages ==
    ASSUME LedgerInv, PagesInv, Query
    PROVE  /\ PagesInv'
           /\ reader'.done /\ damage = 0 => reader'.got = Matching(None)
<1> DEFINE after == reader.after
           m == Matching(after)
           page == Page(after)
<1>1. /\ daemon = "up" /\ ~reader.done
      /\ reader' = [after |-> page.next, got |-> reader.got \o page.entries,
                    done |-> page.next = None]
      /\ UNCHANGED <<rows, checkpoints, daemon, unsigned, written, damage, stops>>
    BY DEF Query
<1>2. /\ reader'.after = page.next /\ reader'.got = reader.got \o page.entries
      /\ reader'.done = (page.next = None)
    BY <1>1
<1> SUFFICES ASSUME damage = 0
             PROVE  /\ PagesInv'
                    /\ reader'.done => reader'.got = Matching(None)
    BY <1>1 DEF PagesInv
<1>3. /\ after = None \/ after \in 0..(Len(rows) - 1)
      /\ IsList(reader.got)
      /\ reader.got \o m = Matching(None)
    BY <1>1 DEF PagesInv
<1>4. IsList(rows) /\ Numbered(rows) /\ Len(rows) \in Nat
    BY <1>1, UpFacts
<1>5. \A a : Matching(a) = MatchingIn(rows, a)
    BY DEF Matching, MatchingIn
<1>6. m \in Seq(ToSet(rows)) /\ Len(m) \in Nat /\ IsList(m)
    BY <1>4, <1>5, MatchingFacts, LenProperties, ListOfElements
<1>7. PageSize \in Nat \ {0}
    BY LedgerAssumption
<1>8. /\ page.entries = SubSeq(m, 1, Min({PageSize, Len(m)}))
      /\ page.next = IF Len(m) > PageSize THEN Last(page.entries).sequence ELSE None
    BY DEF Page
<1> HIDE DEF after, m, page
<1>9. CASE Len(m) <= PageSize
    <2>1. Min({PageSize, Len(m)}) = Len(m)
        BY <1>6, <1>7, <1>9, MinOfTwo
    <2>2. page.entries = m /\ page.next = None
        BY <1>6, <1>7, <1>8, <1>9, <2>1, SubSeqFull
    <2> QED BY <1>2, <1>3, <2>2 DEF PagesInv
<1>10. CASE Len(m) > PageSize
    <2> DEFINE first == SubSeq(m, 1, PageSize)
               rest == SubSeq(m, PageSize + 1, Len(m))
    <2>1. Min({PageSize, Len(m)}) = PageSize
        BY <1>6, <1>7, <1>10, MinOfTwo
    <2>2. page.entries = first
        BY <1>8, <2>1
    <2>3. \A i \in 1..Len(m) : m[i] \in ToSet(rows)
        BY <1>6, ElementOfSeq
    <2>4. first \in Seq(ToSet(rows)) /\ Len(first) = PageSize /\ first[PageSize] = m[PageSize]
        <3>1. 1 \in Int /\ PageSize \in Int /\ \A i \in 1..PageSize : m[i] \in ToSet(rows)
            BY <1>6, <1>7, <1>10, <2>3
        <3>2. /\ first \in Seq(ToSet(rows))
              /\ Len(first) = IF 1 <= PageSize THEN PageSize - 1 + 1 ELSE 0
              /\ \A i \in 1..(PageSize - 1 + 1) : first[i] = m[1 + i - 1]
            BY <3>1, SubSeqProperties
        <3>3. PageSize \in 1..(PageSize - 1 + 1) /\ 1 + PageSize - 1 = PageSize
            BY <1>7
        <3> QED BY <1>7, <3>2, <3>3
    <2>5. rest \in Seq(ToSet(rows))
        <3>1. PageSize + 1 \in Int /\ Len(m) \in Int
              /\ \A i \in (PageSize + 1)..Len(m) : m[i] \in ToSet(rows)
            BY <1>6, <1>7, <2>3
        <3> QED BY <3>1, SubSeqProperties
    <2>6. page.next = m[PageSize].sequence
        BY <1>8, <1>10, <2>2, <2>4 DEF Last
    <2>7. PageSize \in 1..Len(m)
        BY <1>6, <1>7, <1>10
    <2>8. page.next \in 0..(Len(rows) - 1)
        BY <1>4, <1>5, <2>6, <2>7, MatchingFacts DEF m
    <2>9. Matching(page.next) = rest
        <3>1. after = None \/ after \in Nat
            BY <1>3, <1>4
        <3> QED BY <1>4, <1>5, <2>6, <2>7, <3>1, MatchingAfterPage DEF m
    <2>10. first \o rest = m
        <3>1. /\ 1 \in 1..(Len(m) + 1) /\ PageSize \in (1 - 1)..Len(m)
              /\ Len(m) \in PageSize..Len(m)
            BY <1>6, <1>7, <1>10
        <3>2. first \o rest = SubSeq(m, 1, Len(m))
            BY <1>6, <3>1, ConcatAdjacentSubSeq
        <3> QED BY <1>6, <3>2, SubSeqFull
    <2> HIDE DEF first, rest
    <2>11. /\ (reader.got \o first) \o rest = reader.got \o (first \o rest)
           /\ IsList(reader.got \o first)
        <3>1. IsList(first) /\ IsList(rest)
            BY <2>4, <2>5, ListOfElements
        <3> QED BY <1>3, <3>1, ConcatOfLists
    <2>12. page.next # None
        BY <1>4, <2>8, LedgerAssumption
    <2>13. Matching(reader.after)' = rest /\ Matching(None)' = Matching(None)
        <3>1. \A a : MatchingIn(rows', a) = MatchingIn(rows, a)
            BY <1>1
        <3>2. Matching(reader.after)' = MatchingIn(rows', reader'.after)
            BY DEF Matching, MatchingIn
        <3>3. Matching(None)' = MatchingIn(rows', None)
            BY DEF Matching, MatchingIn
        <3> QED BY <1>2, <1>5, <2>9, <3>1, <3>2, <3>3
    <2>14. reader'.got \o rest = Matching(None)
        BY <1>2, <1>3, <2>2, <2>10, <2>11
    <2> QED BY <1>1, <1>2, <2>2, <2>8, <2>11, <2>12, <2>13, <2>14 DEF PagesInv
<1> QED BY <1>6, <1>7, <1>9, <1>10

LEMMA RecordPages ==
    ASSUME LedgerInv, PagesInv, NEW p, NEW r, Record(p, r)
    PROVE  PagesInv'
<1>1. PICK e : /\ rows' = Append(rows, e) /\ e.sequence = Len(rows)
               /\ daemon = "up"
               /\ UNCHANGED <<checkpoints, daemon, reader, damage, stops>>
    BY RecordAppends
<1> SUFFICES ASSUME damage = 0, ~reader.done
             PROVE  /\ reader.after = None \/ reader.after \in 0..(Len(rows') - 1)
                    /\ IsList(reader.got)
                    /\ reader.got \o MatchingIn(rows', reader.after) = MatchingIn(rows', None)
    BY <1>1 DEF PagesInv, Matching, MatchingIn
<1>2. /\ reader.after = None \/ reader.after \in 0..(Len(rows) - 1)
      /\ IsList(reader.got)
      /\ reader.got \o MatchingIn(rows, reader.after) = MatchingIn(rows, None)
    BY DEF PagesInv, Matching, MatchingIn
<1>3. IsList(rows) /\ Numbered(rows) /\ Len(rows) \in Nat
    BY <1>1, UpFacts
<1>4. Len(rows') = Len(rows) + 1
    BY <1>1, <1>3, ListAppend
<1>5. MatchingIn(rows', reader.after) =
        IF e.event.project = Reading THEN Append(MatchingIn(rows, reader.after), e)
        ELSE MatchingIn(rows, reader.after)
    BY <1>1, <1>2, <1>3, MatchingGrows
<1>6. MatchingIn(rows', None) =
        IF e.event.project = Reading THEN Append(MatchingIn(rows, None), e)
        ELSE MatchingIn(rows, None)
    BY <1>1, <1>3, MatchingGrows
<1>7. reader.got \o Append(MatchingIn(rows, reader.after), e) =
        Append(reader.got \o MatchingIn(rows, reader.after), e)
    <2> DEFINE a == reader.got
               b == MatchingIn(rows, reader.after)
    <2>1. IsList(a) /\ IsList(b)
        BY <1>2, <1>3, MatchingFacts, ListOfElements
    <2> HIDE DEF a, b
    <2> DEFINE T == ToSet(a) \union ToSet(b) \union {e}
    <2>2. a \in Seq(T) /\ b \in Seq(T) /\ e \in T
        BY <2>1, SeqMonotonic DEF IsList
    <2> HIDE DEF T
    <2>3. <<e>> \in Seq(T) /\ a \o b \in Seq(T)
        BY <2>2, ConcatProperties
    <2>4. a \o Append(b, e) = Append(a \o b, e)
        BY <2>2, <2>3, AppendIsConcat, ConcatAssociative
    <2> QED BY <2>4 DEF a, b
<1>8. reader.after = None \/ reader.after \in 0..(Len(rows') - 1)
    BY <1>2, <1>3, <1>4
<1> QED BY <1>2, <1>5, <1>6, <1>7, <1>8

LEMMA OtherPages ==
    ASSUME PagesInv, UNCHANGED <<rows, reader>>, UNCHANGED damage \/ damage' # 0
    PROVE  PagesInv'
BY DEF PagesInv, Matching

-----------------------------------------------------------------------------
(* The inductive invariant and every step.                                 *)
IInv == LedgerInv /\ WorkInv /\ RowsStart /\ PagesInv

LEMMA IInvInit ==
    ASSUME Init
    PROVE  IInv
<1>1. LedgerInv
    BY LedgerStarts DEF Init
<1>2. /\ rows = <<>> /\ damage = 0
      /\ reader = [after |-> None, got |-> <<>>, done |-> FALSE]
    BY DEF Init, LedgerInit
<1>3. MaxLosses \in Nat /\ MaxRepairs \in Nat
    BY RecoveryAssumption
<1>4. /\ client \in [step : Steps, base : Revision \union {None}]
      /\ client.step = "architect" /\ client.base = None
    BY ClientOf DEF Init, Steps
<1>5. WorkInv
    <2>1. 0 \in 0..MaxRepairs /\ 0 \in 0..MaxLosses
        BY <1>3
    <2>2. /\ dirty \in BOOLEAN /\ rejected \in BOOLEAN /\ oversized \in BOOLEAN
          /\ repairs \in 0..MaxRepairs /\ losses \in 0..MaxLosses
        BY <2>1 DEF Init
    <2> QED BY <1>4, <2>2 DEF Init, WorkInv
<1>6. DOMAIN rows = 1..Len(rows) /\ Len(rows) = 0 /\ Numbered(rows) /\ IsList(rows)
    BY <1>1, <1>2, UpFacts
<1>7. RowsStart
    BY <1>6 DEF RowsStart
<1>8. PagesInv
    <2>1. Matching(None) \in Seq(ToSet(rows))
        BY <1>6, MatchingFacts DEF Matching, MatchingIn
    <2>2. <<>> \o Matching(None) = Matching(None)
        BY <2>1, ConcatEmptySeq
    <2>3. IsList(<<>>)
        BY <1>2, <1>6
    <2> QED BY <1>2, <2>2, <2>3 DEF PagesInv
<1> QED BY <1>1, <1>5, <1>7, <1>8 DEF IInv

\* The requests of the client leave the ledger alone, or write one entry.
LEMMA RequestStep ==
    ASSUME IInv, UNCHANGED ledger, WorkStep
    PROVE  IInv'
<1>1. LedgerInv'
    BY ReadLedger DEF IInv, ledger, LedgerInv
<1>2. PagesInv'
    BY OtherPages DEF IInv, ledger
<1> QED BY <1>1, <1>2 DEF IInv, WorkStep

LEMMA RecordStep ==
    ASSUME IInv, NEW p, NEW r, Record(p, r), WorkStep
    PROVE  IInv'
BY RecordLedger, RecordPages DEF IInv, WorkStep

LEMMA DaemonStep ==
    ASSUME IInv, Sign \/ Start \/ Stop \/ Damage \/ Query, UNCHANGED workflow
    PROVE  IInv'
<1>1. LedgerInv /\ WorkInv /\ RowsStart /\ PagesInv
    BY DEF IInv
<1>2. UNCHANGED worktree
    BY DEF workflow
<1>3. CASE Sign
    <2>1. UNCHANGED <<rows, reader, damage>>
        BY <1>3 DEF Sign
    <2>2. LedgerInv' /\ PagesInv' /\ RowsStart'
        BY <1>1, <1>2, <1>3, <2>1, SignLedger, OtherPages DEF RowsStart, Started
    <2> QED BY <1>1, <2>2, OtherWork DEF IInv, WorkStep
<1>4. CASE Start
    <2>1. UNCHANGED <<rows, reader, damage>>
        BY <1>4 DEF Start
    <2>2. LedgerInv' /\ PagesInv' /\ RowsStart'
        BY <1>1, <1>2, <1>4, <2>1, StartLedger, OtherPages DEF RowsStart, Started
    <2> QED BY <1>1, <2>2, OtherWork DEF IInv, WorkStep
<1>5. CASE Stop
    <2>1. UNCHANGED <<rows, reader, damage>>
        BY <1>5 DEF Stop
    <2>2. LedgerInv' /\ PagesInv' /\ RowsStart'
        BY <1>1, <1>2, <1>5, <2>1, StopLedger, OtherPages DEF RowsStart, Started
    <2> QED BY <1>1, <2>2, OtherWork DEF IInv, WorkStep
<1>6. CASE Damage
    <2>1. /\ LedgerInv'
          /\ \A i \in DOMAIN rows' : \E j \in DOMAIN rows :
               rows'[i].event.revision = rows[j].event.revision
        BY <1>1, <1>6, DamageLedger
    <2>2. RowsStart'
        BY <1>1, <1>2, <2>1 DEF RowsStart, Started
    <2>3. damage' # 0
        BY <1>1, <1>6, LedgerAssumption DEF Damage, LedgerInv
    <2>4. PagesInv'
        BY <2>3 DEF PagesInv
    <2> QED BY <1>1, <2>1, <2>2, <2>4, OtherWork DEF IInv, WorkStep
<1>7. CASE Query
    <2>1. UNCHANGED <<rows, checkpoints, daemon, unsigned, written, damage, stops>>
        BY <1>7 DEF Query
    <2>2. LedgerInv'
        BY <1>1, <2>1, ReadLedger DEF LedgerInv
    <2>3. PagesInv' /\ RowsStart'
        BY <1>1, <1>2, <1>7, <2>1, QueryPages DEF RowsStart, Started
    <2> QED BY <1>1, <2>2, <2>3, OtherWork DEF IInv, WorkStep
<1> QED BY <1>3, <1>4, <1>5, <1>6, <1>7

LEMMA IInvNext ==
    ASSUME IInv, [Next]_vars
    PROVE  IInv'
<1>1. LedgerInv /\ WorkInv /\ RowsStart /\ PagesInv
    BY DEF IInv
<1>2. CASE Retry
    BY <1>1, <1>2, RetryWork, RequestStep DEF Retry
<1>3. CASE Architect
    BY <1>1, <1>3, ArchitectWork, RequestStep DEF Architect
<1>4. CASE Prepare
    BY <1>1, <1>4, PrepareWork, RequestStep DEF Prepare
<1>5. CASE RecordBase
    BY <1>1, <1>5, RecordBaseWork, RecordStep DEF RecordBase
<1>6. CASE Execute
    BY <1>1, <1>6, ExecuteWork, RequestStep DEF Execute
<1>7. CASE Freeze
    BY <1>1, <1>7, FreezeWork, RequestStep DEF Freeze
<1>8. CASE Verify
    BY <1>1, <1>8, VerifyWork, RequestStep DEF Verify
<1>9. CASE GiveBack
    BY <1>1, <1>9, GiveBackWork, RequestStep DEF GiveBack
<1>10. CASE LoseClient
    BY <1>1, <1>10, LoseClientWork, RequestStep DEF LoseClient
<1>11. CASE Audit
    <2>1. PICK p \in Project : Record(p, None) /\ UNCHANGED workflow
        BY <1>11 DEF Audit
    <2>2. RowsStart'
        BY <1>1, <2>1, RecordWork DEF workflow
    <2> QED BY <1>1, <2>1, <2>2, OtherWork, RecordStep
<1>12. CASE (Daemon \/ Stop \/ Damage \/ Query) /\ UNCHANGED workflow
    BY <1>12, DaemonStep DEF Daemon
<1>13. CASE UNCHANGED vars
    <2>1. UNCHANGED ledger /\ UNCHANGED workflow
        BY <1>13 DEF vars
    <2>2. RowsStart'
        BY <1>1, <2>1 DEF RowsStart, Started, ledger, workflow
    <2> QED BY <1>1, <2>1, <2>2, OtherWork, RequestStep
<1> QED
    BY <1>2, <1>3, <1>4, <1>5, <1>6, <1>7, <1>8, <1>9, <1>10, <1>11, <1>12, <1>13
    DEF Next, Client

LEMMA IInvAlways == Spec => []IInv
<1>1. Init => IInv
    BY IInvInit
<1>2. IInv /\ [Next]_vars => IInv'
    BY IInvNext
<1> QED BY <1>1, <1>2, PTL DEF Spec

-----------------------------------------------------------------------------
LEMMA IInvImpliesInv ==
    ASSUME IInv
    PROVE  Inv
<1>1. LedgerInv /\ WorkInv
    BY DEF IInv
<1>2. LedgerTypeOK
    <2>1. ASSUME NEW i \in DOMAIN rows PROVE rows[i].sequence \in 0..(MaxEntries - 1)
        <3>1. PICK chain : /\ IsList(chain) /\ Intact(chain)
                           /\ EventsOf(chain) = written
                           /\ LeftOf(rows, chain)
            BY <1>1 DEF LedgerInv, Remains
        <3>2. PICK j \in DOMAIN chain : rows[i].sequence = chain[j].sequence
            BY <3>1 DEF LeftOf
        <3>3. /\ Len(chain) \in Nat /\ DOMAIN chain = 1..Len(chain)
              /\ chain[j].sequence = j - 1 /\ Len(written) = Len(chain)
            BY <3>1, ListFacts, ChainNumbered, EventsList
        <3>4. Len(chain) <= MaxEntries /\ MaxEntries \in Nat
            BY <1>1, <3>3, LedgerAssumption DEF LedgerInv
        <3> QED BY <3>2, <3>3, <3>4
    <2> QED BY <1>1, <2>1 DEF LedgerInv, LedgerTypeOK
<1>3. {worktree, candidate, client.base} \subseteq Revision \union {None}
    BY <1>1, StartedFacts DEF WorkInv
<1>4. client.step = "execute" => worktree # None
    BY <1>1 DEF WorkInv
<1>5. TypeOK
    BY <1>1, <1>2, <1>3, <1>4 DEF WorkInv, TypeOK
<1>6. CandidateIsAllTheWork
    BY <1>1 DEF WorkInv, CandidateIsAllTheWork, Started
<1> QED BY <1>5, <1>6 DEF Inv

\* worktree.rs, the audit of it, early_recovery and freeze: for any number of
\* commits, repairs, stops and damaged rows, and whichever client takes the
\* workflow up, its candidate is all that was committed in the worktree; and
\* the ledger and the workflow are well typed.
THEOREM InvCorrect == Spec => []Inv
BY IInvAlways, IInvImpliesInv, PTL

\* record and verify_store: for every checkpoint interval the daemon starts with
\* what was recorded, except for entries at the end that no checkpoint left
\* covers, and refuses only a ledger that was damaged.
THEOREM StartCorrect == Spec => StartsWithWhatWasWritten
<1>1. ASSUME IInv, [Next]_vars
      PROVE  [ daemon = "down" =>
                 /\ daemon' = "up" => /\ IsPrefix(EventsOf(rows), written)
                                     /\ \A c \in checkpoints : c.sequence < Len(rows)
                 /\ daemon' = "refused" => damage > 0 ]_ledger
    <2> SUFFICES ASSUME daemon = "down"
                 PROVE  /\ daemon' = "up" => /\ IsPrefix(EventsOf(rows), written)
                                            /\ \A c \in checkpoints : c.sequence < Len(rows)
                        /\ daemon' = "refused" => damage > 0
        OBVIOUS
    <2>1. CASE Start
        BY <1>1, <2>1, StartLedger DEF IInv
    <2>2. CASE ~Start
        <3>1. UNCHANGED daemon
            BY <1>1, <2>2 DEF Next, Client, Daemon, Retry, Architect, Prepare, RecordBase, Record,
                   Execute, Freeze, Verify, GiveBack, LoseClient, Audit, Sign, Stop,
                   Damage, Query, vars, ledger
        <3> QED BY <3>1
    <2> QED BY <2>1, <2>2
<1> QED BY <1>1, IInvAlways, PTL DEF Spec, StartsWithWhatWasWritten

\* query: for every size of a page, and whatever is appended meanwhile, a reader
\* of an undamaged ledger gets all entries of its project, each once, in order.
THEOREM PagesCorrect == Spec => PagesAreComplete
<1>1. ASSUME IInv, [Next]_vars
      PROVE  [ ~reader.done /\ reader'.done /\ damage = 0 =>
                 reader'.got = Matching(None) ]_ledger
    <2>1. CASE Query
        BY <1>1, <2>1, QueryPages DEF IInv
    <2>2. CASE ~Query
        <3>1. UNCHANGED reader
            BY <1>1, <2>2 DEF Next, Client, Daemon, Retry, Architect, Prepare, RecordBase, Record,
                   Execute, Freeze, Verify, GiveBack, LoseClient, Audit, Sign, Start,
                   Stop, Damage, vars, ledger
        <3> QED BY <3>1
    <2> QED BY <2>1, <2>2
<1> QED BY <1>1, IInvAlways, PTL DEF Spec, PagesAreComplete
=============================================================================
