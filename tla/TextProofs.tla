----------------------------- MODULE TextProofs -----------------------------
(***************************************************************************)
(* What Texts, ChileanRut and Slugs compute, for texts of every length.    *)
(*                                                                         *)
(* Induction is over sets of natural numbers: a set that holds 0 and the   *)
(* successor of each of its elements is Nat.                               *)
(***************************************************************************)
EXTENDS ChileanRut, Slugs, FiniteSetTheorems, SequenceTheorems, TLAPS

\* A set of natural numbers has a least one.
LEMMA Least ==
  ASSUME NEW T \in SUBSET Nat, T # {}
  PROVE  \E n \in T : \A m \in T : n <= m
<1> DEFINE Before(n) == 1 .. n
           B == {Before(n) : n \in T}
<1>1. IsWellFoundedOn(StrictSubsetOrdering(Nat), FiniteSubsetsOf(Nat))
  BY FS_StrictSubsetOrderingWellFounded
<1>2. \A n \in T : Before(n) \in FiniteSubsetsOf(Nat)
  BY FS_Interval DEF FiniteSubsetsOf
<1>3. B \subseteq FiniteSubsetsOf(Nat) /\ B # {}
  BY <1>2
<1>4. PICK b \in B : \A c \in B : ~(<< c, b >> \in StrictSubsetOrdering(Nat))
  <2> HIDE DEF B
  <2> QED
    BY <1>1, <1>3, WFMin
<1>5. PICK n \in T : b = Before(n)
  OBVIOUS
<1>6. ASSUME NEW m \in T PROVE n <= m
  <2>1. ~(<< Before(m), Before(n) >> \in StrictSubsetOrdering(Nat))
    BY <1>4, <1>5
  <2>2. ~(Before(m) \subseteq Before(n) /\ Before(m) # Before(n))
    BY <2>1 DEF StrictSubsetOrdering
  <2>3. m \in Nat /\ n \in Nat
    OBVIOUS
  <2>4. ASSUME m < n PROVE FALSE
    <3>1. Before(m) \subseteq Before(n)
      BY <2>3, <2>4
    <3>2. n \in Before(n) /\ n \notin Before(m)
      BY <2>3, <2>4
    <3> QED
      BY <2>2, <3>1, <3>2
  <2> QED
    BY <2>3, <2>4
<1> QED
  BY <1>6

LEMMA Induction ==
  ASSUME NEW A \in SUBSET Nat, 0 \in A, \A n \in A : n + 1 \in A
  PROVE  A = Nat
<1> SUFFICES ASSUME Nat \ A # {} PROVE FALSE
  OBVIOUS
<1>1. PICK n \in Nat \ A : \A m \in Nat \ A : n <= m
  BY Least
<1>2. n # 0 /\ n - 1 \in Nat
  OBVIOUS
<1>3. n - 1 \in A
  BY <1>1, <1>2
<1> QED
  BY <1>2, <1>3

\* A bounded set of natural numbers has a greatest one.
LEMMA Greatest ==
  ASSUME NEW T \in SUBSET Nat, T # {}, NEW b \in Nat, \A n \in T : n <= b
  PROVE  \E n \in T : \A m \in T : m <= n
<1> DEFINE A == {b - n : n \in T}
<1>0. \A n \in T : b - n \in Nat
  OBVIOUS
<1>1. A \in SUBSET Nat /\ A # {}
  BY <1>0
<1>2. PICK a \in A : \A c \in A : a <= c
  <2> HIDE DEF A
  <2> QED
    BY <1>1, Least
<1>3. PICK n \in T : a = b - n
  OBVIOUS
<1>4. \A m \in T : b - n <= b - m
  BY <1>2, <1>3
<1> QED
  BY <1>4

\* A function defined by recursion from one number to the next exists.
LEMMA Recursion ==
  ASSUME NEW S, NEW c \in S, NEW n \in Nat, NEW D \in [1 .. n -> [S -> S]]
  PROVE  \E g \in [0 .. n -> S] : g[0] = c /\ \A i \in 1 .. n : g[i] = D[i][g[i - 1]]
<1> DEFINE Good(g, k) == g[0] = c /\ \A i \in 1 .. k : g[i] = D[i][g[i - 1]]
           A == {k \in Nat : k <= n => \E g \in [0 .. k -> S] : Good(g, k)}
<1>1. 0 \in A
  <2>1. [i \in 0 .. 0 |-> c] \in [0 .. 0 -> S] /\ Good([i \in 0 .. 0 |-> c], 0)
    OBVIOUS
  <2> QED
    BY <2>1
<1>2. ASSUME NEW k \in A PROVE k + 1 \in A
  <2> SUFFICES ASSUME k + 1 <= n PROVE \E g \in [0 .. k + 1 -> S] : Good(g, k + 1)
    OBVIOUS
  <2>1. PICK g \in [0 .. k -> S] : Good(g, k)
    OBVIOUS
  <2> DEFINE h == [i \in 0 .. k + 1 |-> IF i = k + 1 THEN D[k + 1][g[k]] ELSE g[i]]
  <2>2. k \in Nat /\ k + 1 \in 1 .. n /\ g[k] \in S
    BY <2>1
  <2>3. D[k + 1][g[k]] \in S
    BY <2>2
  <2>4. h \in [0 .. k + 1 -> S]
    BY <2>1, <2>2, <2>3
  <2>5. h[0] = c /\ h[k + 1] = D[k + 1][g[k]] /\ \A i \in 0 .. k : h[i] = g[i]
    BY <2>1, <2>2
  <2>6. ASSUME NEW i \in 1 .. k + 1 PROVE h[i] = D[i][h[i - 1]]
    <3> HIDE DEF h
    <3>1. CASE i = k + 1
      <4>1. i - 1 = k /\ k \in 0 .. k
        BY <3>1, <2>2
      <4> QED
        BY <2>5, <3>1, <4>1
    <3>2. CASE i # k + 1
      BY <2>1, <2>2, <2>5, <3>2
    <3> QED
      BY <3>1, <3>2
  <2> QED
    BY <2>4, <2>5, <2>6
<1>3. A = Nat
  <2>1. A \in SUBSET Nat
    OBVIOUS
  <2> HIDE DEF A
  <2> QED
    BY <1>1, <1>2, <2>1, Induction
<1>4. n \in A
  <2> HIDE DEF A
  <2> QED
    BY <1>3
<1> QED
  BY <1>4
-----------------------------------------------------------------------------
(* Texts.                                                                  *)

LEMMA TextIs ==
  ASSUME NEW C, NEW n \in Nat, NEW s, s = [i \in 1 .. n |-> s[i]], \A i \in 1 .. n : s[i] \in C
  PROVE  s \in Seq(C) /\ Len(s) = n
OBVIOUS

\* The text as it is read: after i characters.
Reads(read, s, I) ==
  /\ read[0] = << >>
  /\ \A i \in 1 .. Len(s) : read[i] = IF i \in I THEN Append(read[i - 1], s[i]) ELSE read[i - 1]

LEMMA PickedRead ==
  ASSUME NEW C, NEW s \in Seq(C), NEW I
  PROVE  \E read \in [0 .. Len(s) -> Seq(C)] : Reads(read, s, I) /\ Picked(s, I) = read[Len(s)]
<1> DEFINE n == Len(s)
           Grown(t, i) == IF i \in I THEN Append(t, s[i]) ELSE t
           Body(f) == [i \in 0 .. n |-> IF i = 0 THEN << >>
                                        ELSE IF i \in I THEN Append(f[i - 1], s[i]) ELSE f[i - 1]]
           D == [i \in 1 .. n |-> [t \in Seq(C) |-> Grown(t, i)]]
           read == CHOOSE f : f = Body(f)
<1>1. n \in Nat /\ \A i \in 1 .. n : s[i] \in C
  BY LenProperties, ElementOfSeq
<1>2. \A t \in Seq(C), i \in 1 .. n : Grown(t, i) \in Seq(C)
  BY <1>1, AppendProperties
<1>3. \E g \in [0 .. n -> Seq(C)] : g[0] = << >> /\ \A i \in 1 .. n : g[i] = D[i][g[i - 1]]
  <2> HIDE DEF Grown, n
  <2> DEFINE S == Seq(C)
             empty == << >>
  <2>1. D \in [1 .. n -> [S -> S]]
    BY <1>2
  <2>2. empty \in S /\ n \in Nat
    BY <1>1
  <2>3. \E g \in [0 .. n -> S] : g[0] = empty /\ \A i \in 1 .. n : g[i] = D[i][g[i - 1]]
    <3> HIDE DEF D, S, empty
    <3> QED
      BY <2>1, <2>2, Recursion
  <2> QED
    BY <2>3
<1>4. PICK g \in [0 .. n -> Seq(C)] : g[0] = << >> /\ \A i \in 1 .. n : g[i] = Grown(g[i - 1], i)
  <2>1. PICK g \in [0 .. n -> Seq(C)] : g[0] = << >> /\ \A i \in 1 .. n : g[i] = D[i][g[i - 1]]
    BY <1>3
  <2>2. ASSUME NEW i \in 1 .. n PROVE g[i] = Grown(g[i - 1], i)
    <3>1. i - 1 \in 0 .. n
      BY <1>1
    <3>2. g[i - 1] \in Seq(C)
      BY <2>1, <3>1
    <3> HIDE DEF Grown, n
    <3> QED
      BY <2>1, <3>2
  <2> QED
    BY <2>1, <2>2
<1>5. read = Body(read)
  <2>1. ASSUME NEW i \in 0 .. n PROVE g[i] = Body(g)[i]
    <3>1. CASE i = 0
      BY <1>1, <1>4, <3>1
    <3>2. CASE i # 0
      <4>1. i \in 1 .. n
        BY <1>1, <3>2
      <4> QED
        BY <1>4, <3>2, <4>1
    <3> QED
      BY <3>1, <3>2
  <2>2. g = Body(g)
    BY <1>4, <2>1
  <2> HIDE DEF Body
  <2> QED
    BY <2>2
<1>6. read = [i \in 0 .. n |-> read[i]]
  <2> HIDE DEF read
  <2> QED
    BY <1>5
<1>7. read[0] = << >> /\ \A i \in 1 .. n : read[i] = Grown(read[i - 1], i)
  <2> HIDE DEF read
  <2>1. \A i \in 0 .. n : read[i] = Body(read)[i]
    BY <1>5
  <2>2. 0 \in 0 .. n /\ \A i \in 1 .. n : i \in 0 .. n /\ i # 0
    BY <1>1
  <2> QED
    BY <2>1, <2>2
<1> HIDE DEF read
<1> DEFINE A == {k \in Nat : k <= n => read[k] \in Seq(C)}
<1>8. A = Nat
  <2>1. 0 \in A
    <3>1. << >> \in Seq(C)
      OBVIOUS
    <3> QED
      BY <1>7, <3>1
  <2>2. ASSUME NEW k \in A PROVE k + 1 \in A
    <3>1. CASE k + 1 <= n
      <4>1. k + 1 \in 1 .. n /\ (k + 1) - 1 = k /\ read[k] \in Seq(C)
        BY <1>1, <3>1
      <4>2. read[k + 1] = Grown(read[k], k + 1)
        BY <1>7, <4>1
      <4>3. read[k + 1] \in Seq(C)
        BY <1>2, <4>1, <4>2
      <4> QED
        BY <4>3
    <3> QED
      BY <3>1
  <2>3. A \in SUBSET Nat
    OBVIOUS
  <2> HIDE DEF A
  <2> QED
    BY <2>1, <2>2, <2>3, Induction
<1>9. \A k \in 0 .. n : read[k] \in Seq(C)
  <2>1. \A k \in 0 .. n : k \in A
    <3> HIDE DEF A
    <3> QED
      BY <1>1, <1>8
  <2> QED
    BY <2>1
<1>10. read \in [0 .. n -> Seq(C)]
  BY <1>6, <1>9
<1>11. Picked(s, I) = read[Len(s)]
  BY DEF Picked, read
<1> QED
  BY <1>7, <1>10, <1>11 DEF Reads

\* p are the positions in I, up to k, that the characters of t were read from.
ReadFrom(p, t, s, I, k) ==
  /\ p \in [1 .. Len(t) -> 1 .. k]
  /\ \A j \in 1 .. Len(t) : p[j] \in I /\ t[j] = s[p[j]]
  /\ \A j \in 1 .. Len(t) - 1 : p[j] < p[j + 1] /\ \A m \in p[j] + 1 .. p[j + 1] - 1 : m \notin I
  /\ \A m \in 1 .. k : (\A j \in 1 .. Len(t) : p[j] < m) => m \notin I

LEMMA ReadFromGrows ==
  ASSUME NEW C, NEW s \in Seq(C), NEW I, NEW k \in Nat, k + 1 \in 1 .. Len(s),
         NEW t \in Seq(C), NEW p, ReadFrom(p, t, s, I, k)
  PROVE  \E q : ReadFrom(q, IF k + 1 \in I THEN Append(t, s[k + 1]) ELSE t, s, I, k + 1)
<1> DEFINE n == Len(t)
<1>1. n \in Nat
  OBVIOUS
<1>2. CASE k + 1 \in I
  <2> DEFINE u == Append(t, s[k + 1])
             q == [j \in 1 .. n + 1 |-> IF j = n + 1 THEN k + 1 ELSE p[j]]
  <2>1. Len(u) = n + 1 /\ u[n + 1] = s[k + 1] /\ \A j \in 1 .. n : u[j] = t[j]
    OBVIOUS
  <2>2. p \in [1 .. n -> 1 .. k]
    BY DEF ReadFrom
  <2>3. q[n + 1] = k + 1 /\ \A j \in 1 .. n : q[j] = p[j]
    BY <1>1
  <2>4. q \in [1 .. n + 1 -> 1 .. k + 1]
    BY <1>1, <2>2
  <2> HIDE DEF u, q
  <2>5. ASSUME NEW j \in 1 .. n + 1 PROVE q[j] \in I /\ u[j] = s[q[j]]
    <3>1. CASE j = n + 1
      BY <1>2, <2>1, <2>3, <3>1
    <3>2. CASE j # n + 1
      <4>1. j \in 1 .. n
        BY <1>1, <3>2
      <4> QED
        BY <2>1, <2>3, <4>1 DEF ReadFrom
    <3> QED
      BY <3>1, <3>2
  <2>6. ASSUME NEW j \in 1 .. n
        PROVE  q[j] < q[j + 1] /\ \A m \in q[j] + 1 .. q[j + 1] - 1 : m \notin I
    <3>1. q[j] = p[j] /\ p[j] \in 1 .. k
      BY <2>2, <2>3
    <3>2. CASE j = n
      <4>1. q[j + 1] = k + 1
        BY <2>3, <3>2
      <4>2. ASSUME NEW m \in p[n] + 1 .. k PROVE m \notin I
        <5>1. m \in 1 .. k /\ p[n] < m
          BY <3>1, <3>2
        <5>2. ASSUME NEW i \in 1 .. n PROVE p[i] <= p[n]
          <6> DEFINE A == {d \in Nat : d < n => p[n - d] <= p[n]}
          <6>1. 0 \in A
            BY <1>1, <2>2, <3>2
          <6>2. ASSUME NEW d \in A PROVE d + 1 \in A
            <7>1. CASE d + 1 < n
              <8>1. n - (d + 1) \in 1 .. n - 1 /\ (n - (d + 1)) + 1 = n - d /\ n - d \in 1 .. n
                BY <1>1, <7>1
              <8>2. p[n - (d + 1)] < p[n - d]
                BY <8>1 DEF ReadFrom
              <8>3. p[n - d] <= p[n]
                BY <1>1, <7>1
              <8>4. p[n - (d + 1)] \in Nat /\ p[n - d] \in Nat /\ p[n] \in Nat
                <9>1. n - (d + 1) \in 1 .. n /\ n - d \in 1 .. n /\ n \in 1 .. n
                  BY <1>1, <3>2, <8>1
                <9>2. \A x \in 1 .. n : p[x] \in Nat
                  BY <2>2
                <9> QED
                  BY <9>1, <9>2
              <8> QED
                BY <8>2, <8>3, <8>4
            <7> QED
              BY <7>1
          <6>3. A = Nat
            <7>1. A \in SUBSET Nat
              OBVIOUS
            <7> HIDE DEF A
            <7> QED
              BY <6>1, <6>2, <7>1, Induction
          <6>4. n - i \in A
            <7> HIDE DEF A
            <7> QED
              BY <1>1, <6>3
          <6> QED
            BY <1>1, <6>4
        <5>3. \A i \in 1 .. n : p[i] < m
          BY <2>2, <3>2, <5>1, <5>2
        <5> QED
          BY <5>1, <5>3 DEF ReadFrom
      <4> QED
        BY <3>1, <3>2, <4>1, <4>2
    <3>3. CASE j # n
      <4>1. j \in 1 .. n - 1 /\ j + 1 \in 1 .. n
        BY <1>1, <3>3
      <4> QED
        BY <2>3, <3>1, <4>1 DEF ReadFrom
    <3> QED
      BY <3>2, <3>3
  <2>7. ASSUME NEW m \in 1 .. k + 1, \A j \in 1 .. n + 1 : q[j] < m PROVE m \notin I
    BY <1>1, <2>3, <2>7
  <2>8. ReadFrom(q, u, s, I, k + 1)
    BY <1>1, <2>1, <2>4, <2>5, <2>6, <2>7 DEF ReadFrom
  <2> QED
    BY <1>2, <2>8 DEF u
<1>3. CASE k + 1 \notin I
  <2>1. p \in [1 .. n -> 1 .. k + 1]
    BY <1>1 DEF ReadFrom
  <2>2. ASSUME NEW m \in 1 .. k + 1, \A j \in 1 .. n : p[j] < m PROVE m \notin I
    BY <1>3, <2>2 DEF ReadFrom
  <2>3. ReadFrom(p, t, s, I, k + 1)
    BY <2>1, <2>2 DEF ReadFrom
  <2> QED
    BY <1>3, <2>3
<1> QED
  BY <1>2, <1>3

\* What is picked comes from positions in I, in order, and misses none between
\* two neighbours.
LEMMA PickedPositions ==
  ASSUME NEW C, NEW s \in Seq(C), NEW I
  PROVE  Picked(s, I) \in Seq(C) /\ \E p : ReadFrom(p, Picked(s, I), s, I, Len(s))
<1> DEFINE n == Len(s)
<1>1. PICK read \in [0 .. n -> Seq(C)] : Reads(read, s, I) /\ Picked(s, I) = read[n]
  BY PickedRead
<1>2. n \in Nat
  OBVIOUS
<1> DEFINE A == {k \in Nat : k <= n => \E p : ReadFrom(p, read[k], s, I, k)}
<1>3. 0 \in A
  <2>1. read[0] = << >>
    BY <1>1 DEF Reads
  <2>2. ReadFrom(<< >>, << >>, s, I, 0)
    BY DEF ReadFrom
  <2> QED
    BY <2>1, <2>2
<1>4. ASSUME NEW k \in A PROVE k + 1 \in A
  <2>1. CASE k + 1 <= n
    <3>1. k \in Nat /\ k + 1 \in 1 .. n /\ (k + 1) - 1 = k /\ k \in 0 .. n
      BY <1>2, <2>1
    <3>2. PICK p : ReadFrom(p, read[k], s, I, k)
      BY <3>1
    <3>3. read[k + 1] = IF k + 1 \in I THEN Append(read[k], s[k + 1]) ELSE read[k]
      BY <1>1, <3>1 DEF Reads
    <3>4. read[k] \in Seq(C)
      BY <1>1, <3>1
    <3>5. \E q : ReadFrom(q, read[k + 1], s, I, k + 1)
      BY <3>1, <3>2, <3>3, <3>4, ReadFromGrows
    <3> QED
      BY <3>5
  <2> QED
    BY <2>1
<1>5. A = Nat
  <2>1. A \in SUBSET Nat
    OBVIOUS
  <2> HIDE DEF A
  <2> QED
    BY <1>3, <1>4, <2>1, Induction
<1>6. n \in A
  <2> HIDE DEF A
  <2> QED
    BY <1>2, <1>5
<1> QED
  BY <1>1, <1>2, <1>6

\* A text is picked whole as far as its positions are in I.
LEMMA PickedStart ==
  ASSUME NEW C, NEW s \in Seq(C), NEW I, NEW read \in [0 .. Len(s) -> Seq(C)], Reads(read, s, I),
         NEW n \in 0 .. Len(s), 1 .. n \subseteq I
  PROVE  Len(read[n]) = n /\ \A j \in 1 .. n : read[n][j] = s[j]
<1>1. n \in Nat /\ Len(s) \in Nat /\ n <= Len(s)
  OBVIOUS
<1> DEFINE A == {k \in Nat : k <= n => Len(read[k]) = k /\ \A j \in 1 .. k : read[k][j] = s[j]}
<1>2. 0 \in A
  BY DEF Reads
<1>3. ASSUME NEW k \in A PROVE k + 1 \in A
  <2>1. CASE k + 1 <= n
    <3>1. k \in Nat /\ k + 1 \in 1 .. n /\ k + 1 \in 1 .. Len(s) /\ (k + 1) - 1 = k /\ k \in 0 .. Len(s)
      BY <1>1, <2>1
    <3>2. read[k + 1] = Append(read[k], s[k + 1])
      BY <3>1 DEF Reads
    <3>3. read[k] \in Seq(C) /\ Len(read[k]) = k /\ \A j \in 1 .. k : read[k][j] = s[j]
      BY <1>1, <3>1
    <3>4. Len(read[k + 1]) = k + 1 /\ \A j \in 1 .. k + 1 : read[k + 1][j] = s[j]
      BY <3>1, <3>2, <3>3
    <3> QED
      BY <3>1, <3>4
  <2> QED
    BY <2>1
<1>4. A = Nat
  <2>1. A \in SUBSET Nat
    OBVIOUS
  <2> HIDE DEF A
  <2> QED
    BY <1>2, <1>3, <2>1, Induction
<1>5. n \in A
  <2> HIDE DEF A
  <2> QED
    BY <1>1, <1>4
<1> QED
  BY <1>1, <1>5

LEMMA PickedAll ==
  ASSUME NEW C, NEW s \in Seq(C), NEW I, 1 .. Len(s) \subseteq I
  PROVE  Picked(s, I) = s
<1>1. PICK read \in [0 .. Len(s) -> Seq(C)] : Reads(read, s, I) /\ Picked(s, I) = read[Len(s)]
  BY PickedRead
<1>2. PICK n \in 0 .. Len(s) : n = Len(s)
  OBVIOUS
<1>3. Len(read[n]) = n /\ \A j \in 1 .. n : read[n][j] = s[j]
  <2>1. 1 .. n \subseteq I
    BY <1>2
  <2> QED
    BY <1>1, <2>1, PickedStart
<1> QED
  BY <1>1, <1>2, <1>3

LEMMA MinIs ==
  ASSUME NEW T \in SUBSET Nat, T # {}
  PROVE  Min(T) \in T /\ \A m \in T : Min(T) <= m
BY Least DEF Min

LEMMA MaxIs ==
  ASSUME NEW T \in SUBSET Nat, T # {}, NEW b \in Nat, \A n \in T : n <= b
  PROVE  Max(T) \in T /\ \A m \in T : m <= Max(T)
<1>1. \E n \in T : \A m \in T : m <= n
  BY Greatest
<1>2. \E n \in T : \A m \in T : n >= m
  BY <1>1
<1> QED
  BY <1>2 DEF Max

\* A part of a text.
LEMMA SubSeqIs ==
  ASSUME NEW C, NEW s \in Seq(C), NEW a \in 1 .. Len(s), NEW b \in a .. Len(s)
  PROVE  /\ SubSeq(s, a, b) \in Seq(C) /\ Len(SubSeq(s, a, b)) = b - a + 1
         /\ \A i \in 1 .. b - a + 1 : i + (a - 1) \in 1 .. Len(s) /\ SubSeq(s, a, b)[i] = s[i + (a - 1)]
<1>1. Len(s) \in Nat /\ a \in Nat /\ b \in Nat
  OBVIOUS
<1>2. \A i \in 1 .. b - a + 1 : i + (a - 1) \in 1 .. Len(s) /\ i + (a - 1) = a + i - 1
  BY <1>1
<1>3. /\ SubSeq(s, a, b) \in Seq(C) /\ Len(SubSeq(s, a, b)) = b - a + 1
      /\ \A i \in 1 .. b - a + 1 : SubSeq(s, a, b)[i] = s[a + i - 1]
  BY <1>1
<1> QED
  BY <1>2, <1>3

\* t stands in s, d characters from its start.
PartOf(t, s) == \E d \in Nat : \A i \in 1 .. Len(t) : i + d \in 1 .. Len(s) /\ t[i] = s[i + d]

LEMMA StrippedIs ==
  ASSUME NEW C, NEW s \in Seq(C), NEW c
  PROVE  /\ Stripped(s, c) \in Seq(C)
         /\ Stripped(s, c) # << >> => Stripped(s, c)[1] # c /\ Stripped(s, c)[Len(Stripped(s, c))] # c
         /\ PartOf(Stripped(s, c), s)
<1> DEFINE ink == {i \in 1 .. Len(s) : s[i] # c}
<1>1. Len(s) \in Nat /\ DOMAIN s = 1 .. Len(s)
  OBVIOUS
<1>2. CASE ink = {}
  <2>1. Stripped(s, c) = << >>
    BY <1>1, <1>2 DEF Stripped
  <2>2. PartOf(<< >>, s)
    BY DEF PartOf
  <2> QED
    BY <2>1, <2>2
<1>3. CASE ink # {}
  <2> DEFINE a == Min(ink)
             b == Max(ink)
  <2>1. ink \in SUBSET Nat /\ \A i \in ink : i <= Len(s)
    OBVIOUS
  <2>2. a \in ink /\ b \in ink /\ a <= b
    <3> HIDE DEF ink
    <3>1. a \in ink /\ \A m \in ink : a <= m
      BY <1>3, <2>1, MinIs
    <3>2. b \in ink
      BY <1>1, <1>3, <2>1, MaxIs
    <3> QED
      BY <3>1, <3>2
  <2>3. Stripped(s, c) = SubSeq(s, a, b)
    BY <1>1, <1>3 DEF Stripped
  <2> HIDE DEF a, b
  <2>4. a \in 1 .. Len(s) /\ b \in a .. Len(s) /\ s[a] # c /\ s[b] # c
    BY <1>1, <2>2
  <2> HIDE DEF ink
  <2>5. /\ SubSeq(s, a, b) \in Seq(C) /\ Len(SubSeq(s, a, b)) = b - a + 1
        /\ \A i \in 1 .. b - a + 1 : i + (a - 1) \in 1 .. Len(s) /\ SubSeq(s, a, b)[i] = s[i + (a - 1)]
    BY <2>4, SubSeqIs
  <2>6. a - 1 \in Nat /\ b - a + 1 \in Nat /\ 1 \in 1 .. b - a + 1 /\ b - a + 1 \in 1 .. b - a + 1
        /\ 1 + (a - 1) = a /\ (b - a + 1) + (a - 1) = b
    BY <1>1, <2>4
  <2>7. SubSeq(s, a, b)[1] = s[a] /\ SubSeq(s, a, b)[b - a + 1] = s[b]
    BY <2>5, <2>6
  <2>8. \E d \in Nat : \A i \in 1 .. b - a + 1 : i + d \in 1 .. Len(s) /\ SubSeq(s, a, b)[i] = s[i + d]
    BY <2>5, <2>6
  <2>9. PartOf(SubSeq(s, a, b), s)
    BY <2>5, <2>8 DEF PartOf
  <2> QED
    BY <2>3, <2>4, <2>5, <2>7, <2>9
<1> QED
  BY <1>2, <1>3

LEMMA StrippedSame ==
  ASSUME NEW C, NEW s \in Seq(C), NEW c, s # << >> => s[1] # c /\ s[Len(s)] # c
  PROVE  Stripped(s, c) = s
<1> DEFINE ink == {i \in 1 .. Len(s) : s[i] # c}
<1>1. Len(s) \in Nat /\ DOMAIN s = 1 .. Len(s)
  OBVIOUS
<1>2. CASE s = << >>
  BY <1>2 DEF Stripped
<1>3. CASE s # << >>
  <2>1. Len(s) >= 1
    BY <1>1, <1>3, EmptySeq
  <2>2. 1 \in ink /\ Len(s) \in ink
    BY <1>1, <1>3, <2>1
  <2>3. ink \in SUBSET Nat /\ ink # {} /\ \A i \in ink : 1 <= i /\ i <= Len(s)
    BY <2>2
  <2>4. Min(ink) = 1 /\ Max(ink) = Len(s)
    <3>1. Min(ink) \in ink /\ \A m \in ink : Min(ink) <= m
      <4> HIDE DEF ink
      <4> QED
        BY <2>3, MinIs
    <3>2. Max(ink) \in ink /\ \A m \in ink : m <= Max(ink)
      <4> HIDE DEF ink
      <4> QED
        BY <1>1, <2>3, MaxIs
    <3> HIDE DEF ink
    <3>3. Min(ink) <= 1 /\ 1 <= Min(ink) /\ Max(ink) <= Len(s) /\ Len(s) <= Max(ink)
      BY <2>2, <2>3, <3>1, <3>2
    <3>4. Min(ink) \in Nat /\ Max(ink) \in Nat
      BY <2>3, <3>1, <3>2
    <3> QED
      BY <1>1, <3>3, <3>4
  <2>5. Stripped(s, c) = SubSeq(s, 1, Len(s))
    BY <1>1, <2>3, <2>4 DEF Stripped
  <2> QED
    BY <1>1, <2>1, <2>5
<1> QED
  BY <1>2, <1>3
-----------------------------------------------------------------------------
(* Tax numbers.                                                            *)

LEMMA CleanTyped ==
  ASSUME NEW value \in Seq(Char)
  PROVE  Clean(value) \in Seq(Char)
<1> DEFINE kept == Stripped(Without(value, {Dot, Dash}), Space)
<1>1. Without(value, {Dot, Dash}) \in Seq(Char)
  BY PickedPositions DEF Without
<1>2. kept \in Seq(Char)
  BY <1>1, StrippedIs
<1>3. Clean(value) = [i \in 1 .. Len(kept) |-> IF kept[i] = SmallK THEN K ELSE kept[i]]
  BY <1>2 DEF Clean
<1> HIDE DEF kept
<1>4. \A i \in 1 .. Len(kept) : (IF kept[i] = SmallK THEN K ELSE kept[i]) \in Char
  BY <1>2 DEF Char, K
<1>5. Len(kept) \in Nat
  BY <1>2
<1> QED
  BY <1>3, <1>4, <1>5

LEMMA WithoutLeadingZerosIs ==
  ASSUME NEW body \in Seq(Digit)
  PROVE  /\ WithoutLeadingZeros(body) \in Seq(Digit)
         /\ WithoutLeadingZeros(WithoutLeadingZeros(body)) = WithoutLeadingZeros(body)
<1> DEFINE digits(s) == {i \in DOMAIN s : s[i] # 0}
<1>1. Len(body) \in Nat /\ DOMAIN body = 1 .. Len(body)
  OBVIOUS
<1>2. CASE digits(body) = {}
  <2>1. WithoutLeadingZeros(body) = << 0 >>
    BY <1>2 DEF WithoutLeadingZeros
  <2>2. << 0 >> \in Seq(Digit)
    BY DEF Digit
  <2>3. {i \in DOMAIN << 0 >> : << 0 >>[i] # 0} = {}
    OBVIOUS
  <2>4. WithoutLeadingZeros(<< 0 >>) = << 0 >>
    BY <2>3 DEF WithoutLeadingZeros
  <2> QED
    BY <2>1, <2>2, <2>4
<1>3. CASE digits(body) # {}
  <2> DEFINE a == Min(digits(body))
             w == SubSeq(body, a, Len(body))
  <2>1. a \in 1 .. Len(body) /\ body[a] # 0
    <3>1. digits(body) \in SUBSET Nat
      BY <1>1
    <3>2. a \in digits(body)
      <4> HIDE DEF digits
      <4> QED
        BY <1>3, <3>1, MinIs
    <3> QED
      BY <1>1, <3>2
  <2>2. WithoutLeadingZeros(body) = w
    BY <1>3 DEF WithoutLeadingZeros
  <2> HIDE DEF a
  <2>3. /\ w \in Seq(Digit) /\ Len(w) = Len(body) - a + 1
        /\ \A i \in 1 .. Len(body) - a + 1 : w[i] = body[i + (a - 1)]
    BY <1>1, <2>1, SubSeqIs
  <2>4. Len(w) >= 1 /\ w[1] # 0
    <3>1. 1 \in 1 .. Len(body) - a + 1 /\ 1 + (a - 1) = a
      BY <1>1, <2>1
    <3>2. w[1] = body[a]
      BY <2>3, <3>1
    <3> HIDE DEF w
    <3> QED
      BY <1>1, <2>1, <2>3, <3>2
  <2> HIDE DEF w
  <2>5. DOMAIN w = 1 .. Len(w) /\ Len(w) \in Nat
    BY <2>3
  <2>6. digits(w) \in SUBSET Nat /\ 1 \in digits(w) /\ \A i \in digits(w) : 1 <= i
    BY <2>4, <2>5
  <2>7. Min(digits(w)) = 1
    <3> HIDE DEF digits
    <3>1. Min(digits(w)) \in digits(w) /\ \A m \in digits(w) : Min(digits(w)) <= m
      BY <2>6, MinIs
    <3> QED
      BY <2>6, <3>1
  <2>8. WithoutLeadingZeros(w) = SubSeq(w, 1, Len(w))
    BY <2>6, <2>7 DEF WithoutLeadingZeros
  <2>9. SubSeq(w, 1, Len(w)) = w
    BY <2>3, <2>5
  <2> QED
    BY <2>2, <2>3, <2>8, <2>9
<1> QED
  BY <1>2, <1>3

\* A number that is normalised is digits without leading zeros, and a verifier.
LEMMA NormalizeIs ==
  ASSUME NEW value \in Seq(Char), Normalize(value) # Invalid
  PROVE  /\ Normalize(value).body \in Seq(Digit)
         /\ WithoutLeadingZeros(Normalize(value).body) = Normalize(value).body
         /\ Normalize(value).verifier \in Digit \cup {K}
<1> DEFINE clean == Clean(value)
           body == SubSeq(clean, 1, Len(clean) - 1)
<1>1. clean \in Seq(Char)
  BY CleanTyped
<1>2. /\ Len(clean) > 1 /\ \A i \in DOMAIN body : body[i] \in Digit
      /\ Last(clean) \in Digit \cup {K}
      /\ Normalize(value) = [body |-> WithoutLeadingZeros(body), verifier |-> Last(clean)]
  BY DEF Normalize, Front
<1> HIDE DEF clean
<1>3. body \in Seq(Char) /\ Len(body) = Len(clean) - 1
  BY <1>1, <1>2
<1> HIDE DEF body
<1>4. body \in Seq(Digit)
  <2>1. DOMAIN body = 1 .. Len(body) /\ Len(body) \in Nat /\ body = [i \in 1 .. Len(body) |-> body[i]]
    BY <1>3
  <2> QED
    BY <1>2, <2>1
<1> QED
  BY <1>2, <1>4, WithoutLeadingZerosIs

\* A number without its dash.
LEMMA DashDropped ==
  ASSUME NEW body \in Seq(Char), NEW v \in Char \ {Dot, Dash},
         \A i \in 1 .. Len(body) : body[i] \notin {Dot, Dash}
  PROVE  Without(body \o << Dash, v >>, {Dot, Dash}) = Append(body, v)
<1> DEFINE n == Len(body)
           s == body \o << Dash, v >>
           I == {i \in DOMAIN s : s[i] \notin {Dot, Dash}}
<1>1. n \in Nat /\ Dash \in Char
  BY DEF Dash, Char
<1>2. /\ s \in Seq(Char) /\ Len(s) = n + 2 /\ DOMAIN s = 1 .. n + 2
      /\ \A i \in 1 .. n : s[i] = body[i]
      /\ s[n + 1] = Dash /\ s[n + 2] = v
  BY <1>1
<1> HIDE DEF s
<1>3. 1 .. n \subseteq I /\ n + 1 \notin I /\ n + 2 \in I
  BY <1>1, <1>2
<1> HIDE DEF I
<1>4. PICK read \in [0 .. Len(s) -> Seq(Char)] : Reads(read, s, I) /\ Picked(s, I) = read[Len(s)]
  <2>1. s \in Seq(Char)
    BY <1>2
  <2> HIDE DEF n
  <2> QED
    BY <2>1, PickedRead
<1>5. n \in 0 .. Len(s) /\ n + 1 \in 1 .. Len(s) /\ n + 2 \in 1 .. Len(s) /\ (n + 1) - 1 = n /\ (n + 2) - 1 = n + 1
  BY <1>1, <1>2
<1>6. Len(read[n]) = n /\ \A j \in 1 .. n : read[n][j] = s[j]
  <2>1. s \in Seq(Char) /\ Reads(read, s, I) /\ n \in 0 .. Len(s) /\ 1 .. n \subseteq I
    BY <1>2, <1>3, <1>4, <1>5
  <2> HIDE DEF n
  <2> QED
    BY <2>1, PickedStart
<1>7. read[n] = body
  <2>1. read[n] \in Seq(Char) /\ Len(read[n]) = n /\ \A j \in 1 .. n : read[n][j] = body[j]
    BY <1>2, <1>4, <1>5, <1>6
  <2> QED
    BY <2>1, SeqEqual
<1>8. read[n + 1] = body /\ read[n + 2] = Append(body, v)
  BY <1>2, <1>3, <1>4, <1>5, <1>7 DEF Reads
<1> QED
  BY <1>2, <1>4, <1>8 DEF Without, I, s

\* A number as it is stored and shown: `${Number(body)}-${verifier}`.
Shown(rut) == rut.body \o << Dash, rut.verifier >>

\* Clients that send a number back as they were shown it send the same number:
\* the normalisation of what it stores changes nothing (chilean-rut.ts:2).
THEOREM NumberOfNumber ==
  ASSUME NEW value \in Seq(Char), Normalize(value) # Invalid
  PROVE  Normalize(Shown(Normalize(value))) = Normalize(value)
<1> DEFINE rut == Normalize(value)
           body == rut.body
           v == rut.verifier
           clean == Append(body, v)
<1>1. body \in Seq(Digit) /\ WithoutLeadingZeros(body) = body /\ v \in Digit \cup {K} /\ body # << >>
  <2>1. body \in Seq(Digit) /\ WithoutLeadingZeros(body) = body /\ v \in Digit \cup {K}
    BY NormalizeIs
  <2>2. WithoutLeadingZeros(<< >>) # << >>
    BY DEF WithoutLeadingZeros
  <2> QED
    BY <2>1, <2>2
<1>2. rut = [body |-> body, verifier |-> v]
  BY DEF Normalize, Invalid
<1> HIDE DEF rut, body, v
<1>3. /\ Len(body) \in Nat /\ Len(body) > 0 /\ DOMAIN body = 1 .. Len(body)
      /\ \A i \in 1 .. Len(body) : body[i] \in 0 .. 9
      /\ body = [i \in 1 .. Len(body) |-> body[i]]
  BY <1>1, EmptySeq DEF Digit
<1>4. body \in Seq(Char) /\ v \in Char \ {Dot, Dash} /\ v \notin {Space, SmallK}
      /\ \A i \in 1 .. Len(body) : body[i] \notin {Dot, Dash, Space, SmallK}
  BY <1>1, <1>3 DEF Char, Dot, Dash, Space, SmallK, Digit, K
<1>5. Without(Shown(rut), {Dot, Dash}) = clean
  BY <1>2, <1>4, DashDropped DEF Shown
<1>6. /\ clean \in Seq(Char) /\ Len(clean) = Len(body) + 1
      /\ \A i \in 1 .. Len(body) : clean[i] = body[i]
      /\ clean[Len(body) + 1] = v
  BY <1>3, <1>4
<1> HIDE DEF clean
<1>7. \A i \in 1 .. Len(clean) : clean[i] \notin {Space, SmallK}
  <2> TAKE i \in 1 .. Len(clean)
  <2>1. i \in 1 .. Len(body) \/ i = Len(body) + 1
    BY <1>3, <1>6
  <2> QED
    BY <1>4, <1>6, <2>1
<1>8. Stripped(clean, Space) = clean
  <2>1. 1 \in 1 .. Len(clean) /\ Len(clean) \in 1 .. Len(clean)
    BY <1>3, <1>6
  <2> QED
    BY <1>6, <1>7, <2>1, StrippedSame
<1>9. Clean(Shown(rut)) = clean
  <2>1. clean = [i \in 1 .. Len(clean) |-> clean[i]] /\ DOMAIN clean = 1 .. Len(clean)
    BY <1>6
  <2> QED
    BY <1>5, <1>7, <1>8, <2>1 DEF Clean
<1>10. Front(clean) = body /\ Last(clean) = v
  <2>1. Front(clean) = SubSeq(clean, 1, Len(body)) /\ Last(clean) = v
    BY <1>3, <1>6 DEF Front, Last
  <2>2. SubSeq(clean, 1, Len(body)) = [i \in 1 .. Len(body) |-> body[i]]
    BY <1>3, <1>6
  <2> QED
    BY <1>3, <2>1, <2>2
<1>11. Len(clean) > 1 /\ \A i \in DOMAIN body : body[i] \in Digit
  BY <1>3, <1>6 DEF Digit
<1>12. Normalize(Shown(rut)) = [body |-> WithoutLeadingZeros(body), verifier |-> v]
  BY <1>1, <1>9, <1>10, <1>11 DEF Normalize
<1> QED
  BY <1>1, <1>2, <1>12 DEF rut

\* The sum as it grows, from the last digit to the first.
Sums(upTo, body) ==
  /\ upTo[0] = 0
  /\ \A i \in 1 .. Len(body) : upTo[i] = upTo[i - 1] + body[Len(body) + 1 - i] * WeightOf(i)

LEMMA WeightIs == \A i \in Nat \ {0} : WeightOf(i) \in 2 .. 7 /\ WeightOf(i + 1) = IF WeightOf(i) = 7 THEN 2 ELSE WeightOf(i) + 1
BY DEF WeightOf

LEMMA DigitAt ==
  ASSUME NEW body \in Seq(Digit), NEW i \in 1 .. Len(body)
  PROVE  Len(body) + 1 - i \in 1 .. Len(body) /\ body[Len(body) + 1 - i] \in 0 .. 9
<1>1. Len(body) \in Nat
  OBVIOUS
<1>2. Len(body) + 1 - i \in 1 .. Len(body)
  BY <1>1
<1> QED
  BY <1>2 DEF Digit

LEMMA WeightedSumIs ==
  ASSUME NEW body \in Seq(Digit)
  PROVE  \E upTo \in [0 .. Len(body) -> Nat] : Sums(upTo, body) /\ WeightedSum(body) = upTo[Len(body)]
<1> DEFINE n == Len(body)
           Grown(t, i) == t + body[n + 1 - i] * WeightOf(i)
           Body(f) == [i \in 0 .. n |-> IF i = 0 THEN 0 ELSE f[i - 1] + body[n + 1 - i] * WeightOf(i)]
           D == [i \in 1 .. n |-> [t \in Nat |-> Grown(t, i)]]
           upTo == CHOOSE f : f = Body(f)
<1>1. n \in Nat
  OBVIOUS
<1>2. ASSUME NEW t \in Nat, NEW i \in 1 .. n PROVE Grown(t, i) \in Nat
  <2>1. body[n + 1 - i] \in 0 .. 9 /\ WeightOf(i) \in 2 .. 7
    BY DigitAt, WeightIs
  <2> QED
    BY <2>1
<1>3. PICK g \in [0 .. n -> Nat] : g[0] = 0 /\ \A i \in 1 .. n : g[i] = Grown(g[i - 1], i)
  <2> HIDE DEF Grown, n
  <2> DEFINE S == Nat
             zero == 0
  <2>1. D \in [1 .. n -> [S -> S]] /\ zero \in S
    BY <1>2
  <2>2. PICK g \in [0 .. n -> S] : g[0] = zero /\ \A i \in 1 .. n : g[i] = D[i][g[i - 1]]
    <3> HIDE DEF D, S, zero
    <3> QED
      BY <1>1, <2>1, Recursion
  <2>3. ASSUME NEW i \in 1 .. n PROVE g[i] = Grown(g[i - 1], i)
    <3>1. i - 1 \in 0 .. n
      BY <1>1
    <3> QED
      BY <2>2, <3>1
  <2> QED
    BY <2>2, <2>3
<1>4. upTo = Body(upTo)
  <2>1. ASSUME NEW i \in 0 .. n PROVE g[i] = Body(g)[i]
    <3>1. i # 0 => i \in 1 .. n
      BY <1>1
    <3> QED
      BY <1>3, <3>1
  <2>2. g = Body(g)
    BY <1>3, <2>1
  <2> HIDE DEF Body
  <2> QED
    BY <2>2
<1>5. upTo = [i \in 0 .. n |-> upTo[i]]
  <2> HIDE DEF upTo
  <2> QED
    BY <1>4
<1>6. upTo[0] = 0 /\ \A i \in 1 .. n : upTo[i] = Grown(upTo[i - 1], i)
  <2> HIDE DEF upTo
  <2>1. \A i \in 0 .. n : upTo[i] = Body(upTo)[i]
    BY <1>4
  <2>2. 0 \in 0 .. n /\ \A i \in 1 .. n : i \in 0 .. n /\ i # 0
    BY <1>1
  <2> QED
    BY <2>1, <2>2
<1>7. WeightedSum(body) = upTo[n]
  BY DEF WeightedSum, upTo
<1> HIDE DEF upTo
<1> DEFINE A == {k \in Nat : k <= n => upTo[k] \in Nat}
<1>8. A = Nat
  <2>1. 0 \in A
    BY <1>6
  <2>2. ASSUME NEW k \in A PROVE k + 1 \in A
    <3>1. CASE k + 1 <= n
      <4>1. k + 1 \in 1 .. n /\ (k + 1) - 1 = k /\ upTo[k] \in Nat
        BY <1>1, <3>1
      <4>2. upTo[k + 1] = Grown(upTo[k], k + 1)
        BY <1>6, <4>1
      <4> HIDE DEF Grown
      <4> QED
        BY <1>2, <4>1, <4>2
    <3> QED
      BY <3>1
  <2>3. A \in SUBSET Nat
    OBVIOUS
  <2> HIDE DEF A
  <2> QED
    BY <2>1, <2>2, <2>3, Induction
<1>9. \A k \in 0 .. n : upTo[k] \in Nat
  <2>1. \A k \in 0 .. n : k \in A
    <3> HIDE DEF A
    <3> QED
      BY <1>1, <1>8
  <2> QED
    BY <2>1
<1>10. upTo \in [0 .. n -> Nat]
  BY <1>5, <1>9
<1> QED
  BY <1>6, <1>7, <1>10 DEF Sums

\* The sum and the multiplier of the code, as they are built up.
Accumulates(acc, body, after) ==
  /\ acc[0] = [sum |-> 0, multiplier |-> 2]
  /\ \A i \in 1 .. Len(body) :
       acc[i] = [sum |-> acc[i - 1].sum + body[Len(body) + 1 - i] * acc[i - 1].multiplier,
                 multiplier |-> after[acc[i - 1].multiplier]]

Multipliers == [m \in 2 .. 7 |-> IF m = 7 THEN 2 ELSE m + 1]

LEMMA AccumulatedIs ==
  ASSUME NEW body \in Seq(Digit)
  PROVE  \E acc : Accumulates(acc, body, Multipliers) /\ Accumulated(body, Multipliers) = acc[Len(body)]
<1> DEFINE n == Len(body)
           S == [sum : Nat, multiplier : 2 .. 7]
           Grown(t, i) == [sum |-> t.sum + body[n + 1 - i] * t.multiplier, multiplier |-> Multipliers[t.multiplier]]
           Body(f) == [i \in 0 .. n |->
             IF i = 0 THEN [sum |-> 0, multiplier |-> 2]
             ELSE LET last == f[i - 1] IN
                  [sum |-> last.sum + body[n + 1 - i] * last.multiplier, multiplier |-> Multipliers[last.multiplier]]]
           D == [i \in 1 .. n |-> [t \in S |-> Grown(t, i)]]
           first == [sum |-> 0, multiplier |-> 2]
           acc == CHOOSE f : f = Body(f)
<1>1. n \in Nat /\ first \in S
  OBVIOUS
<1>2. ASSUME NEW t \in S, NEW i \in 1 .. n PROVE Grown(t, i) \in S
  <2>1. body[n + 1 - i] \in 0 .. 9
    BY DigitAt
  <2>2. t.sum \in Nat /\ t.multiplier \in 2 .. 7
    OBVIOUS
  <2>3. body[n + 1 - i] * t.multiplier \in Nat
    BY <2>1, <2>2
  <2>4. Multipliers[t.multiplier] \in 2 .. 7
    BY <2>2 DEF Multipliers
  <2> QED
    BY <2>2, <2>3, <2>4
<1>3. PICK g \in [0 .. n -> S] : g[0] = first /\ \A i \in 1 .. n : g[i] = Grown(g[i - 1], i)
  <2> HIDE DEF Grown, n, first, S
  <2>1. D \in [1 .. n -> [S -> S]]
    BY <1>2
  <2>2. PICK g \in [0 .. n -> S] : g[0] = first /\ \A i \in 1 .. n : g[i] = D[i][g[i - 1]]
    <3> HIDE DEF D
    <3> QED
      BY <1>1, <2>1, Recursion
  <2>3. ASSUME NEW i \in 1 .. n PROVE g[i] = Grown(g[i - 1], i)
    <3>1. i - 1 \in 0 .. n
      BY <1>1
    <3> QED
      BY <2>2, <3>1
  <2> QED
    BY <2>2, <2>3
<1>4. acc = Body(acc)
  <2>1. ASSUME NEW i \in 0 .. n PROVE g[i] = Body(g)[i]
    <3>1. i # 0 => i \in 1 .. n
      BY <1>1
    <3> HIDE DEF S
    <3> QED
      BY <1>3, <3>1
  <2>2. g = Body(g)
    <3>1. g = [i \in 0 .. n |-> g[i]]
      <4> HIDE DEF S
      <4> QED
        BY <1>3
    <3> HIDE DEF S
    <3> QED
      BY <2>1, <3>1
  <2> HIDE DEF Body
  <2> QED
    BY <2>2
<1>5. acc[0] = first /\ \A i \in 1 .. n : acc[i] = Grown(acc[i - 1], i)
  <2> HIDE DEF acc
  <2>1. \A i \in 0 .. n : acc[i] = Body(acc)[i]
    BY <1>4
  <2>2. 0 \in 0 .. n /\ \A i \in 1 .. n : i \in 0 .. n /\ i # 0
    BY <1>1
  <2> QED
    BY <2>1, <2>2
<1>6. Accumulated(body, Multipliers) = acc[n]
  BY DEF Accumulated, acc
<1> HIDE DEF acc
<1> QED
  BY <1>5, <1>6 DEF Accumulates

\* The loop computes the weighted sum.
LEMMA SumsAgree ==
  ASSUME NEW body \in Seq(Digit)
  PROVE  Accumulated(body, Multipliers).sum = WeightedSum(body) /\ WeightedSum(body) \in Nat
<1> DEFINE n == Len(body)
<1>1. PICK upTo \in [0 .. n -> Nat] : Sums(upTo, body) /\ WeightedSum(body) = upTo[n]
  BY WeightedSumIs
<1>2. PICK acc : Accumulates(acc, body, Multipliers) /\ Accumulated(body, Multipliers) = acc[n]
  BY AccumulatedIs
<1>3. n \in Nat
  OBVIOUS
<1> DEFINE A == {k \in Nat : k <= n => acc[k].sum = upTo[k] /\ acc[k].multiplier = WeightOf(k + 1)}
<1>4. 0 \in A
  BY <1>1, <1>2 DEF Sums, Accumulates, WeightOf
<1>5. ASSUME NEW k \in A PROVE k + 1 \in A
  <2>1. CASE k + 1 <= n
    <3>1. k + 1 \in 1 .. n /\ (k + 1) - 1 = k /\ k \in Nat
      BY <1>3, <2>1
    <3>2. acc[k].sum = upTo[k] /\ acc[k].multiplier = WeightOf(k + 1)
      BY <1>3, <2>1
    <3>3. acc[k + 1] = [sum |-> acc[k].sum + body[n + 1 - (k + 1)] * acc[k].multiplier,
                        multiplier |-> Multipliers[acc[k].multiplier]]
      BY <1>2, <3>1 DEF Accumulates
    <3>4. upTo[k + 1] = upTo[k] + body[n + 1 - (k + 1)] * WeightOf(k + 1)
      BY <1>1, <3>1 DEF Sums
    <3>5. Multipliers[WeightOf(k + 1)] = WeightOf((k + 1) + 1)
      BY <3>1, WeightIs DEF Multipliers
    <3>6. acc[k + 1].sum = upTo[k + 1] /\ acc[k + 1].multiplier = WeightOf((k + 1) + 1)
      BY <3>2, <3>3, <3>4, <3>5
    <3> QED
      BY <3>1, <3>6
  <2> QED
    BY <2>1
<1>6. A = Nat
  <2>1. A \in SUBSET Nat
    OBVIOUS
  <2> HIDE DEF A
  <2> QED
    BY <1>4, <1>5, <2>1, Induction
<1>7. n \in A
  <2> HIDE DEF A
  <2> QED
    BY <1>3, <1>6
<1> QED
  BY <1>1, <1>2, <1>3, <1>7

LEMMA VerifierIs ==
  ASSUME NEW body \in Seq(Digit)
  PROVE  CalculateVerifier(body) = VerifierOf(WeightedSum(body)) /\ WeightedSum(body) \in Nat
BY SumsAgree DEF CalculateVerifier, Multipliers

\* What one digit changes.
LEMMA OneDigit ==
  ASSUME NEW body \in Seq(Digit), NEW i \in 1 .. Len(body), NEW d \in Digit
  PROVE  /\ [body EXCEPT ![i] = d] \in Seq(Digit) /\ Len([body EXCEPT ![i] = d]) = Len(body)
         /\ WeightedSum([body EXCEPT ![i] = d]) = WeightedSum(body) + (d - body[i]) * WeightOf(Len(body) + 1 - i)
<1> DEFINE n == Len(body)
           place == n + 1 - i
           new == [body EXCEPT ![i] = d]
           change == (d - body[i]) * WeightOf(place)
<1>1. n \in Nat /\ place \in 1 .. n /\ n + 1 - place = i
  OBVIOUS
<1>2. new \in Seq(Digit) /\ Len(new) = n /\ new[i] = d /\ \A j \in 1 .. n : j # i => new[j] = body[j]
  OBVIOUS
<1> HIDE DEF new
<1>3. PICK old \in [0 .. n -> Nat] : Sums(old, body) /\ WeightedSum(body) = old[n]
  BY WeightedSumIs
<1>4. PICK upTo \in [0 .. n -> Nat] : Sums(upTo, new) /\ WeightedSum(new) = upTo[n]
  BY <1>2, WeightedSumIs
<1>5. d \in Int /\ body[i] \in Int /\ WeightOf(place) \in Int /\ change \in Int
  <2>1. d \in Int /\ body[i] \in Int
    BY DEF Digit
  <2>2. WeightOf(place) \in Int
    BY <1>1, WeightIs
  <2> QED
    BY <2>1, <2>2
<1>6. new[n + 1 - place] * WeightOf(place) = body[n + 1 - place] * WeightOf(place) + change
  BY <1>1, <1>2, <1>5
<1> HIDE DEF change
<1> DEFINE A == {k \in Nat : k <= n => upTo[k] = old[k] + IF k < place THEN 0 ELSE change}
<1>7. 0 \in A
  BY <1>1, <1>3, <1>4 DEF Sums
<1>8. ASSUME NEW k \in A PROVE k + 1 \in A
  <2>1. CASE k + 1 <= n
    <3> DEFINE j == n + 1 - (k + 1)
    <3>1. k + 1 \in 1 .. n /\ (k + 1) - 1 = k /\ k \in Nat /\ k \in 0 .. n
      BY <1>1, <2>1
    <3>2. upTo[k] = old[k] + (IF k < place THEN 0 ELSE change)
      BY <1>1, <2>1
    <3>3. upTo[k + 1] = upTo[k] + new[j] * WeightOf(k + 1) /\ old[k + 1] = old[k] + body[j] * WeightOf(k + 1)
      BY <1>2, <1>3, <1>4, <3>1 DEF Sums
    <3>4. old[k] \in Int /\ upTo[k] \in Int /\ body[j] * WeightOf(k + 1) \in Int
      <4>1. old[k] \in Int /\ upTo[k] \in Int
        BY <3>1
      <4>2. body[j] \in 0 .. 9
        BY <3>1, DigitAt
      <4>3. WeightOf(k + 1) \in 2 .. 7
        BY <3>1, WeightIs
      <4>4. \A b \in 0 .. 9, w \in 2 .. 7 : b * w \in Int
        OBVIOUS
      <4> QED
        BY <4>1, <4>2, <4>3, <4>4
    <3>5. CASE k + 1 = place
      <4>1. new[j] * WeightOf(k + 1) = body[j] * WeightOf(k + 1) + change
        BY <1>6, <3>5
      <4> QED
        BY <1>1, <1>5, <3>1, <3>2, <3>3, <3>4, <3>5, <4>1
    <3>6. CASE k + 1 # place
      <4>1. new[j] = body[j]
        <5>1. j \in 1 .. n /\ j # i
          BY <1>1, <3>1, <3>6
        <5> QED
          BY <1>2, <5>1
      <4>2. (k < place) = (k + 1 < place)
        BY <1>1, <3>1, <3>6
      <4>3. upTo[k + 1] = old[k + 1] + (IF k + 1 < place THEN 0 ELSE change)
        BY <1>5, <3>2, <3>3, <3>4, <4>1, <4>2
      <4> QED
        BY <3>1, <4>3
    <3> QED
      BY <3>5, <3>6
  <2> QED
    BY <2>1
<1>9. A = Nat
  <2>1. A \in SUBSET Nat
    OBVIOUS
  <2> HIDE DEF A
  <2> QED
    BY <1>7, <1>8, <2>1, Induction
<1>10. n \in A
  <2> HIDE DEF A
  <2> QED
    BY <1>1, <1>9
<1>11. upTo[n] = old[n] + change
  BY <1>1, <1>10
<1> QED
  BY <1>2, <1>3, <1>4, <1>11 DEF new, change

\* Verifiers tell sums apart that are not a multiple of 11 from each other.
LEMMA VerifierOfIs ==
  ASSUME NEW sum \in Nat
  PROVE  /\ (sum + VerifierOf(sum)) % 11 = 0
         /\ \A other \in Nat : VerifierOf(other) = VerifierOf(sum) => other % 11 = sum % 11
<1>1. sum % 11 \in 0 .. 10 /\ \A other \in Nat : other % 11 \in 0 .. 10
  OBVIOUS
<1>2. (sum + VerifierOf(sum)) % 11 = 0
  BY DEF VerifierOf
<1>3. ASSUME NEW other \in Nat, VerifierOf(other) = VerifierOf(sum) PROVE other % 11 = sum % 11
  BY <1>1, <1>3 DEF VerifierOf
<1> QED
  BY <1>2, <1>3

\* No multiple of 11 comes of one wrong digit.
LEMMA NoMultiple ==
  ASSUME NEW sum \in Nat, NEW other \in Nat, NEW x \in 0 .. 9, NEW y \in 0 .. 9, x # y, NEW w \in 2 .. 7,
         other = sum + (y - x) * w
  PROVE  other % 11 # sum % 11
<1>1. CASE w = 2
  BY <1>1
<1>2. CASE w = 3
  BY <1>2
<1>3. CASE w = 4
  BY <1>3
<1>4. CASE w = 5
  BY <1>4
<1>5. CASE w = 6
  BY <1>5
<1>6. CASE w = 7
  BY <1>6
<1> QED
  BY <1>1, <1>2, <1>3, <1>4, <1>5, <1>6

\* Nor of two neighbours that are swapped.
LEMMA NoMultipleOfTwo ==
  ASSUME NEW sum \in Nat, NEW other \in Nat, NEW x \in 0 .. 9, NEW y \in 0 .. 9, x # y,
         NEW place \in Nat \ {0}, other = sum + (y - x) * WeightOf(place + 1) + (x - y) * WeightOf(place)
  PROVE  other % 11 # sum % 11
<1> DEFINE w == WeightOf(place)
<1>1. w \in 2 .. 7 /\ WeightOf(place + 1) = IF w = 7 THEN 2 ELSE w + 1
  BY WeightIs
<1> HIDE DEF w
<1>2. CASE w = 7
  <2>1. WeightOf(place + 1) = 2 /\ WeightOf(place) = 7
    BY <1>1, <1>2 DEF w
  <2>2. other = sum + (y - x) * 2 + (x - y) * 7
    BY <2>1
  <2> QED
    BY <2>2
<1>3. CASE w # 7
  <2>1. (y - x) * (w + 1) + (x - y) * w = y - x
    BY <1>1
  <2>2. other = sum + (y - x)
    BY <1>1, <1>3, <2>1 DEF w
  <2> QED
    BY <2>2
<1> QED
  BY <1>2, <1>3

\* The verifier notices a wrong digit and two that are swapped, in every number.
LEMMA VerifiersCatchSlips ==
  ASSUME NEW body \in Seq(Digit)
  PROVE  CatchesSlips(body)
<1> DEFINE n == Len(body)
           sum == WeightedSum(body)
<1>1. n \in Nat /\ DOMAIN body = 1 .. n /\ \A i \in 1 .. n : body[i] \in 0 .. 9
  BY DEF Digit
<1>2. sum \in Nat /\ CalculateVerifier(body) = VerifierOf(sum)
  BY VerifierIs
<1>3. (sum + CalculateVerifier(body)) % 11 = 0
  BY <1>2, VerifierOfIs
<1>4. ASSUME NEW i \in 1 .. n, NEW d \in Digit, d # body[i]
      PROVE  CalculateVerifier([body EXCEPT ![i] = d]) # CalculateVerifier(body)
  <2> DEFINE new == [body EXCEPT ![i] = d]
             w == WeightOf(n + 1 - i)
  <2>1. new \in Seq(Digit) /\ WeightedSum(new) = sum + (d - body[i]) * w
    BY OneDigit
  <2>2. n + 1 - i \in Nat \ {0}
    BY <1>1
  <2>3. w \in 2 .. 7
    BY <2>2, WeightIs
  <2> HIDE DEF new, sum, w
  <2>4. WeightedSum(new) \in Nat /\ CalculateVerifier(new) = VerifierOf(WeightedSum(new))
    BY <2>1, VerifierIs
  <2>5. WeightedSum(new) % 11 # sum % 11
    <3>1. d \in 0 .. 9 /\ body[i] \in 0 .. 9
      BY <1>1 DEF Digit
    <3> QED
      BY <1>2, <1>4, <2>1, <2>3, <2>4, <3>1, NoMultiple
  <2>6. CalculateVerifier(new) # CalculateVerifier(body)
    BY <1>2, <2>4, <2>5, VerifierOfIs
  <2> QED
    BY <2>6 DEF new
<1>5. ASSUME NEW i \in 1 .. n - 1, body[i] # body[i + 1]
      PROVE  CalculateVerifier([body EXCEPT ![i] = body[i + 1], ![i + 1] = body[i]]) # CalculateVerifier(body)
  <2> DEFINE x == body[i]
             y == body[i + 1]
             place == n - i
             half == [body EXCEPT ![i] = y]
             new == [half EXCEPT ![i + 1] = x]
  <2>1. /\ i \in 1 .. n /\ i + 1 \in 1 .. n /\ place \in Nat \ {0}
        /\ n + 1 - i = place + 1 /\ n + 1 - (i + 1) = place
    <3> HIDE DEF n
    <3> QED
      BY <1>1
  <2>2. x \in 0 .. 9 /\ y \in 0 .. 9 /\ x \in Digit /\ y \in Digit
    BY <1>1, <2>1 DEF Digit
  <2>3. /\ half \in Seq(Digit) /\ Len(half) = n /\ half[i + 1] = y
        /\ WeightedSum(half) = sum + (y - x) * WeightOf(place + 1)
    <3>1. half[i + 1] = y
      BY <1>1, <2>1
    <3> HIDE DEF y
    <3>2. /\ half \in Seq(Digit) /\ Len(half) = n
          /\ WeightedSum(half) = sum + (y - body[i]) * WeightOf(n + 1 - i)
      BY <2>1, <2>2, OneDigit
    <3> QED
      BY <2>1, <3>1, <3>2
  <2>4. new \in Seq(Digit) /\ WeightedSum(new) = WeightedSum(half) + (x - y) * WeightOf(place)
    <3> HIDE DEF half, x, y
    <3>1. /\ new \in Seq(Digit)
          /\ WeightedSum(new) = WeightedSum(half) + (x - half[i + 1]) * WeightOf(Len(half) + 1 - (i + 1))
      BY <2>1, <2>2, <2>3, OneDigit
    <3> QED
      BY <2>1, <2>3, <3>1
  <2> HIDE DEF sum, half, new
  <2>5. WeightedSum(new) \in Nat /\ CalculateVerifier(new) = VerifierOf(WeightedSum(new))
    BY <2>4, VerifierIs
  <2>6. WeightedSum(new) % 11 # sum % 11
    <3>1. WeightedSum(new) = sum + (y - x) * WeightOf(place + 1) + (x - y) * WeightOf(place)
      BY <2>3, <2>4
    <3> HIDE DEF place
    <3> QED
      BY <1>2, <1>5, <2>1, <2>2, <2>5, <3>1, NoMultipleOfTwo
  <2>7. CalculateVerifier(new) # CalculateVerifier(body)
    BY <1>2, <2>5, <2>6, VerifierOfIs
  <2>8. new = [body EXCEPT ![i] = body[i + 1], ![i + 1] = body[i]]
    BY DEF new, half
  <2> QED
    BY <2>7, <2>8
<1> QED
  BY <1>1, <1>3, <1>4, <1>5 DEF CatchesSlips
-----------------------------------------------------------------------------
(* Slugs.                                                                  *)

\* A text in which no two neighbours are c, whatever was dropped before.
Single(s, c) == \A i \in 1 .. Len(s) - 1 : s[i] = c => s[i + 1] # c

LEMMA CollapsedIs ==
  ASSUME NEW C, NEW s \in Seq(C), NEW c
  PROVE  Collapsed(s, c) \in Seq(C) /\ Single(Collapsed(s, c), c)
<1> DEFINE I == {i \in DOMAIN s : ~(s[i] = c /\ i > 1 /\ s[i - 1] = c)}
           t == Picked(s, I)
<1>1. Collapsed(s, c) = t
  BY DEF Collapsed
<1>2. DOMAIN s = 1 .. Len(s) /\ Len(s) \in Nat
  OBVIOUS
<1>3. t \in Seq(C)
  BY PickedPositions
<1>4. PICK p : ReadFrom(p, t, s, I, Len(s))
  BY PickedPositions
<1> HIDE DEF t
<1>5. ASSUME NEW i \in 1 .. Len(t) - 1, t[i] = c, t[i + 1] = c PROVE FALSE
  <2>1. Len(t) \in Nat /\ i \in 1 .. Len(t) /\ i + 1 \in 1 .. Len(t)
    BY <1>3
  <2>2. /\ p[i] \in 1 .. Len(s) /\ p[i + 1] \in 1 .. Len(s)
        /\ p[i + 1] \in I /\ s[p[i]] = c /\ s[p[i + 1]] = c /\ p[i] < p[i + 1]
        /\ \A m \in p[i] + 1 .. p[i + 1] - 1 : m \notin I
    <3> HIDE DEF I
    <3> QED
      BY <1>4, <1>5, <2>1 DEF ReadFrom
  <2> DEFINE before == p[i + 1] - 1
  <2>3. before \in 1 .. Len(s) /\ p[i] <= before /\ p[i + 1] > 1
    BY <1>2, <2>2
  <2>4. s[before] # c
    BY <2>2, <2>3
  <2>5. before \in I
    BY <1>2, <2>3, <2>4
  <2>6. before \in p[i] + 1 .. p[i + 1] - 1
    <3>1. before # p[i]
      BY <2>2, <2>4
    <3> QED
      BY <2>2, <2>3, <3>1
  <2> QED
    BY <2>2, <2>5, <2>6
<1> QED
  BY <1>1, <1>3, <1>5 DEF Single

LEMMA CollapsedSame ==
  ASSUME NEW C, NEW s \in Seq(C), NEW c, Single(s, c)
  PROVE  Collapsed(s, c) = s
<1> DEFINE I == {i \in DOMAIN s : ~(s[i] = c /\ i > 1 /\ s[i - 1] = c)}
<1>1. 1 .. Len(s) \subseteq I
  <2> SUFFICES ASSUME NEW i \in 1 .. Len(s), s[i] = c, i > 1, s[i - 1] = c PROVE FALSE
    OBVIOUS
  <2>1. i - 1 \in 1 .. Len(s) - 1 /\ (i - 1) + 1 = i
    OBVIOUS
  <2> QED
    BY <2>1 DEF Single
<1> HIDE DEF I
<1>2. Picked(s, I) = s
  BY <1>1, PickedAll
<1> QED
  BY <1>2 DEF Collapsed, I

LEMMA WithoutIs ==
  ASSUME NEW C, NEW s \in Seq(C), NEW S
  PROVE  Without(s, S) \in Seq(C) /\ \A i \in 1 .. Len(Without(s, S)) : Without(s, S)[i] \in Range(s) \ S
<1> DEFINE I == {i \in DOMAIN s : s[i] \notin S}
           t == Picked(s, I)
<1>1. t \in Seq(C)
  BY PickedPositions
<1>2. PICK p : ReadFrom(p, t, s, I, Len(s))
  BY PickedPositions
<1> HIDE DEF t
<1>3. ASSUME NEW i \in 1 .. Len(t) PROVE t[i] \in Range(s) \ S
  BY <1>2 DEF ReadFrom, Range
<1> QED
  BY <1>1, <1>3 DEF Without, t

LEMMA WithoutSame ==
  ASSUME NEW C, NEW s \in Seq(C), NEW S, \A i \in 1 .. Len(s) : s[i] \notin S
  PROVE  Without(s, S) = s
<1> DEFINE I == {i \in DOMAIN s : s[i] \notin S}
<1>1. 1 .. Len(s) \subseteq I
  OBVIOUS
<1> HIDE DEF I
<1>2. Picked(s, I) = s
  BY <1>1, PickedAll
<1> QED
  BY <1>2 DEF Without, I

LEMMA LettersTyped ==
  ASSUME NEW s \in Seq(TextChars)
  PROVE  ToLowerCase(s) \in Seq(TextChars) /\ Dashed(s) \in Seq(TextChars)
<1>1. Len(s) \in Nat /\ DOMAIN s = 1 .. Len(s) /\ \A i \in 1 .. Len(s) : s[i] \in TextChars
  OBVIOUS
<1>2. DOMAIN Lowered = {"A", "B"} /\ Lowered["A"] = "a" /\ Lowered["B"] = "b"
  BY DEF Lowered
<1>3. \A i \in 1 .. Len(s) :
        /\ (IF s[i] \in DOMAIN Lowered THEN Lowered[s[i]] ELSE s[i]) \in TextChars
        /\ (IF s[i] = " " THEN "-" ELSE s[i]) \in TextChars
  BY <1>1, <1>2 DEF TextChars, SlugChars
<1>4. /\ ToLowerCase(s) = [i \in 1 .. Len(s) |-> IF s[i] \in DOMAIN Lowered THEN Lowered[s[i]] ELSE s[i]]
      /\ Dashed(s) = [i \in 1 .. Len(s) |-> IF s[i] = " " THEN "-" ELSE s[i]]
  BY <1>1 DEF ToLowerCase, Dashed
<1>5. /\ ToLowerCase(s) = [i \in 1 .. Len(s) |-> ToLowerCase(s)[i]]
      /\ \A i \in 1 .. Len(s) : ToLowerCase(s)[i] \in TextChars
  BY <1>3, <1>4
<1>6. /\ Dashed(s) = [i \in 1 .. Len(s) |-> Dashed(s)[i]]
      /\ \A i \in 1 .. Len(s) : Dashed(s)[i] \in TextChars
  BY <1>3, <1>4
<1>7. Len(s) \in Nat
  OBVIOUS
<1> QED
  BY <1>5, <1>6, <1>7, TextIs

\* What slugify returns is a slug, or nothing.
LEMMA SlugifyIs ==
  ASSUME NEW text \in Seq(TextChars)
  PROVE  Slugify(text) \in Seq(TextChars) /\ (Slugify(text) # << >> => IsSlug(Slugify(text)))
<1> DEFINE dashed == Dashed(Collapsed(Stripped(ToLowerCase(Without(text, {Accent})), " "), " "))
           plain == Without(dashed, Range(dashed) \ SlugChars)
           single == Collapsed(plain, "-")
           slug == Stripped(single, "-")
<1>1. Slugify(text) = slug
  BY DEF Slugify
<1>2. dashed \in Seq(TextChars)
  <2>1. Without(text, {Accent}) \in Seq(TextChars)
    BY WithoutIs
  <2>2. ToLowerCase(Without(text, {Accent})) \in Seq(TextChars)
    BY <2>1, LettersTyped
  <2>3. Stripped(ToLowerCase(Without(text, {Accent})), " ") \in Seq(TextChars)
    BY <2>2, StrippedIs
  <2>4. Collapsed(Stripped(ToLowerCase(Without(text, {Accent})), " "), " ") \in Seq(TextChars)
    BY <2>3, CollapsedIs
  <2> QED
    BY <2>4, LettersTyped
<1> HIDE DEF dashed
<1>3. plain \in Seq(SlugChars)
  <2>1. plain \in Seq(TextChars) /\ \A i \in 1 .. Len(plain) : plain[i] \in SlugChars
    BY <1>2, WithoutIs
  <2> HIDE DEF plain
  <2>2. Len(plain) \in Nat /\ plain = [i \in 1 .. Len(plain) |-> plain[i]]
    BY <2>1
  <2> QED
    BY <2>1, <2>2
<1> HIDE DEF plain
<1>4. single \in Seq(SlugChars) /\ Single(single, "-")
  BY <1>3, CollapsedIs
<1> HIDE DEF single
<1>5. /\ slug \in Seq(SlugChars)
      /\ slug # << >> => slug[1] # "-" /\ slug[Len(slug)] # "-"
      /\ PartOf(slug, single)
  BY <1>4, StrippedIs
<1> HIDE DEF slug
<1>6. Single(slug, "-")
  <2>1. PICK d \in Nat : \A i \in 1 .. Len(slug) : i + d \in 1 .. Len(single) /\ slug[i] = single[i + d]
    BY <1>5 DEF PartOf
  <2>2. ASSUME NEW i \in 1 .. Len(slug) - 1, slug[i] = "-" PROVE slug[i + 1] # "-"
    <3>1. Len(slug) \in Nat /\ Len(single) \in Nat
      BY <1>4, <1>5
    <3>2. i \in 1 .. Len(slug) /\ i + 1 \in 1 .. Len(slug) /\ (i + 1) + d = (i + d) + 1
      BY <3>1
    <3>3. i + d \in 1 .. Len(single) - 1
      BY <2>1, <3>1, <3>2
    <3>4. slug[i] = single[i + d] /\ slug[i + 1] = single[(i + d) + 1]
      BY <2>1, <3>2
    <3> QED
      BY <1>4, <2>2, <3>3, <3>4 DEF Single
  <2> QED
    BY <2>2 DEF Single
<1>7. slug \in Seq(TextChars)
  <2>1. Len(slug) \in Nat /\ slug = [i \in 1 .. Len(slug) |-> slug[i]]
    BY <1>5
  <2>2. \A i \in 1 .. Len(slug) : slug[i] \in SlugChars
    BY <1>5
  <2>3. \A i \in 1 .. Len(slug) : slug[i] \in TextChars
    BY <2>2 DEF TextChars
  <2> QED
    BY <2>1, <2>3, TextIs
<1> QED
  BY <1>1, <1>5, <1>6, <1>7 DEF IsSlug, Single

\* A slug is its own slug.
LEMMA SlugOfSlug ==
  ASSUME NEW s \in Seq(TextChars), IsSlug(s)
  PROVE  Slugify(s) = s
<1>1. Len(s) \in Nat /\ DOMAIN s = 1 .. Len(s) /\ s = [i \in 1 .. Len(s) |-> s[i]]
  OBVIOUS
<1>2. \A i \in 1 .. Len(s) : s[i] \in SlugChars /\ s[i] \notin {Accent, " ", "A", "B"}
  BY <1>1 DEF IsSlug, SlugChars, Accent
<1>3. s # << >> /\ 1 \in 1 .. Len(s) /\ Len(s) \in 1 .. Len(s)
  BY <1>1, EmptySeq DEF IsSlug
<1>4. Without(s, {Accent}) = s
  BY <1>2, WithoutSame
<1>5. ToLowerCase(s) = s /\ Dashed(s) = s
  <2>1. DOMAIN Lowered = {"A", "B"}
    BY DEF Lowered
  <2> QED
    BY <1>1, <1>2, <2>1 DEF ToLowerCase, Dashed
<1>6. Stripped(s, " ") = s
  BY <1>2, <1>3, StrippedSame
<1>7. Collapsed(s, " ") = s
  <2>1. Len(s) \in Nat /\ \A i \in 1 .. Len(s) - 1 : i \in 1 .. Len(s)
    BY <1>1
  <2>3. \A i \in 1 .. Len(s) - 1 : s[i] # " "
    BY <1>2, <2>1
  <2>2. Single(s, " ")
    BY <2>3 DEF Single
  <2> QED
    BY <2>2, CollapsedSame
<1>8. Without(s, Range(s) \ SlugChars) = s
  <2>1. \A i \in 1 .. Len(s) : s[i] \notin Range(s) \ SlugChars
    BY <1>2
  <2> QED
    BY <2>1, WithoutSame
<1>9. Collapsed(s, "-") = s
  <2>1. Single(s, "-")
    BY DEF IsSlug, Single
  <2> QED
    BY <2>1, CollapsedSame
<1>10. Stripped(s, "-") = s
  <2>1. s[1] # "-" /\ s[Len(s)] # "-"
    BY DEF IsSlug
  <2> QED
    BY <2>1, StrippedSame
<1> QED
  BY <1>4, <1>5, <1>6, <1>7, <1>8, <1>9, <1>10 DEF Slugify
=============================================================================
