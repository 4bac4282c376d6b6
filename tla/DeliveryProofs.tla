----------------------------- MODULE DeliveryProofs -----------------------------
(***************************************************************************)
(* The programs behind the buses, proved for any messages, addresses, subscribers   *)
(* and rows, and for any number of failures: what reaches the database, the         *)
(* subscribers, the other gateways and the sheet.                               *)
(***************************************************************************)
EXTENDS Delivery, FiniteSetTheorems, SequenceTheorems, WellFoundedInduction, TLAPS

-----------------------------------------------------------------------------
(* Induction and recursion over numbers.                                    *)

\* A set of numbers has a least one: the intervals up to them are finite sets, and
\* the strict subsets of finite sets are well founded.
LEMMA Least ==
    ASSUME NEW K, K \subseteq Nat, K # {}
    PROVE  \E a \in K : \A k \in K : a <= k
  <1> DEFINE T == {1..k : k \in K}
             R == StrictSubsetOrdering(Nat)
  <1>1. T \subseteq FiniteSubsetsOf(Nat) /\ T # {}
    <2> SUFFICES ASSUME NEW k \in K PROVE 1..k \in FiniteSubsetsOf(Nat)
      OBVIOUS
    <2>1. IsFiniteSet(1..k)
      BY FS_Interval
    <2> QED BY <2>1 DEF FiniteSubsetsOf
  <1>2. IsWellFoundedOn(R, FiniteSubsetsOf(Nat))
    BY FS_StrictSubsetOrderingWellFounded
  <1>3. PICK x \in T : \A y \in T : ~(<<y, x>> \in R)
    <2> HIDE DEF T, R
    <2> QED BY <1>1, <1>2, WFMin
  <1>4. PICK a \in K : x = 1..a
    OBVIOUS
  <1>5. ASSUME NEW k \in K, k < a PROVE FALSE
    <2>1. 1..k \subseteq 1..a /\ 1..k # 1..a /\ 1..k \in SUBSET Nat /\ 1..a \in SUBSET Nat
      <3>1. a \in 1..a /\ a \notin 1..k
        BY <1>5
      <3> QED BY <1>5, <3>1
    <2>2. <<1..k, 1..a>> \in R
      BY <2>1 DEF StrictSubsetOrdering
    <2> QED BY <2>2, <1>3, <1>4
  <1> QED BY <1>5

\* Induction over numbers, for a set of them.
LEMMA Induction ==
    ASSUME NEW P, 0 \in P, \A n \in Nat : n \in P => n + 1 \in P
    PROVE  \A n \in Nat : n \in P
  <1> DEFINE K == {n \in Nat : n \notin P}
  <1>1. K = {}
    <2> SUFFICES ASSUME K # {} PROVE FALSE
      OBVIOUS
    <2>1. K \subseteq Nat
      OBVIOUS
    <2>2. PICK a \in K : \A k \in K : a <= k
      <3> HIDE DEF K
      <3> QED BY <2>1, Least
    <2>3. a # 0 /\ a - 1 \in Nat /\ a - 1 \notin K
      BY <2>2
    <2> QED BY <2>3
  <1> QED BY <1>1

\* f begins with a, and G takes each value to the next.
Steps(f, n, S, a, G) ==
    /\ f \in [0..n -> S] /\ f[0] = a
    /\ \A j \in 1..n : f[j] = G[<<j, f[j - 1]>>]

\* What a recursion over the numbers up to n defines exists.
LEMMA Recursion ==
    ASSUME NEW S, NEW a \in S, NEW n \in Nat, NEW G \in [(1..n) \X S -> S]
    PROVE  \E f : Steps(f, n, S, a, G)
  <1> DEFINE P == {h \in Nat : h <= n => \E f : Steps(f, h, S, a, G)}
  <1>1. 0 \in P
    <2>1. Steps([j \in 0..0 |-> a], 0, S, a, G)
      BY DEF Steps
    <2> QED BY <2>1
  <1>2. ASSUME NEW h \in Nat, h \in P PROVE h + 1 \in P
    <2> SUFFICES ASSUME h + 1 <= n PROVE \E f : Steps(f, h + 1, S, a, G)
      OBVIOUS
    <2>1. PICK f : Steps(f, h, S, a, G)
      BY <1>2
    <2> DEFINE g == [j \in 0..(h + 1) |-> IF j = h + 1 THEN G[<<h + 1, f[h]>>] ELSE f[j]]
    <2>2. \A j \in 0..h : f[j] \in S /\ g[j] = f[j]
      BY <2>1 DEF Steps
    <2>3. g[h + 1] = G[<<h + 1, f[h]>>] /\ g[h + 1] \in S
      <3>1. h \in 0..h /\ h + 1 \in 1..n
        OBVIOUS
      <3>2. <<h + 1, f[h]>> \in (1..n) \X S
        BY <2>2, <3>1
      <3> QED BY <3>2
    <2>4. g \in [0..(h + 1) -> S]
      <3>1. \A j \in 0..(h + 1) : g[j] \in S
        <4>1. \A j \in 0..(h + 1) : j \in 0..h \/ j = h + 1
          OBVIOUS
        <4> HIDE DEF g
        <4> QED BY <2>2, <2>3, <4>1
      <3> QED BY <3>1
    <2>5. g[0] = a
      BY <2>1, <2>2 DEF Steps
    <2>6. ASSUME NEW j \in 1..(h + 1) PROVE g[j] = G[<<j, g[j - 1]>>]
      <3> HIDE DEF g
      <3>1. CASE j = h + 1
        <4>1. j - 1 = h /\ h \in 0..h
          BY <3>1
        <4> QED BY <2>2, <2>3, <3>1, <4>1
      <3>2. CASE j # h + 1
        <4>1. j \in 1..h /\ j \in 0..h /\ j - 1 \in 0..h
          BY <3>2
        <4>2. f[j] = G[<<j, f[j - 1]>>]
          BY <2>1, <4>1 DEF Steps
        <4> QED BY <2>2, <4>1, <4>2
      <3> QED BY <3>1, <3>2
    <2>7. Steps(g, h + 1, S, a, G)
      <3> HIDE DEF g
      <3> QED BY <2>4, <2>5, <2>6 DEF Steps
    <2> HIDE DEF g
    <2> QED BY <2>7
  <1>3. n \in P
    <2> HIDE DEF P
    <2> QED BY <1>1, <1>2, Induction
  <1> QED BY <1>3

-----------------------------------------------------------------------------
(* Sequences of sequences, joined.                                          *)

\* f[u] are the first u of some sequences, joined.
Joints(f, s, S) ==
    /\ f \in [0..Len(s) -> Seq(S)] /\ f[0] = <<>>
    /\ \A u \in 1..Len(s) : f[u] = f[u - 1] \o s[u]

\* FlattenSeq() is the last of them.
LEMMA Flattened ==
    ASSUME NEW S, NEW s \in Seq(Seq(S))
    PROVE  \E f : Joints(f, s, S) /\ FlattenSeq(s) = f[Len(s)]
  <1>1. PICK n \in Nat : n = Len(s)
    OBVIOUS
  <1>0. \A u \in 1..n : s[u] \in Seq(S)
    BY <1>1
  <1>2. CASE n = 0
    <2>1. s = <<>>
      BY <1>1, <1>2, EmptySeq
    <2>2. FlattenSeq(s) = s
      BY <1>1, <1>2 DEF FlattenSeq
    <2> DEFINE f == [u \in 0..0 |-> <<>>]
    <2>3. f \in [0..0 -> Seq(S)] /\ f[0] = <<>>
      OBVIOUS
    <2>4. Joints(f, s, S)
      BY <1>1, <1>2, <2>3 DEF Joints
    <2>5. FlattenSeq(s) = f[0]
      BY <2>1, <2>2, <2>3
    <2> HIDE DEF f
    <2> QED BY <1>1, <1>2, <2>4, <2>5
  <1>3. CASE n # 0
    <2> DEFINE Turn(h, u) == IF u = 1 THEN s[u] ELSE h[u - 1] \o s[u]
               Is(h, w) == h = [u \in 1..w |-> Turn(h, u)]
               P == {w \in Nat : \E h : Is(h, w)}
    <2>1. 0 \in P
      <3>1. Is([u \in 1..0 |-> 0], 0)
        OBVIOUS
      <3> QED BY <3>1
    <2>2. ASSUME NEW w \in Nat, w \in P PROVE w + 1 \in P
      <3>1. PICK h : Is(h, w)
        BY <2>2
      <3> DEFINE g == [u \in 1..(w + 1) |-> Turn(h, u)]
      <3>2. ASSUME NEW u \in 1..(w + 1) PROVE Turn(g, u) = Turn(h, u)
        <4>1. CASE u = 1
          BY <4>1
        <4>2. CASE u # 1
          <5>1. u - 1 \in 1..w /\ u - 1 \in 1..(w + 1)
            BY <4>2
          <5>2. h[u - 1] = Turn(h, u - 1) /\ g[u - 1] = Turn(h, u - 1)
            BY <3>1, <5>1
          <5>3. g[u - 1] = h[u - 1]
            BY <5>2
          <5> HIDE DEF g
          <5> QED BY <4>2, <5>3, Zenon
        <4> QED BY <4>1, <4>2
      <3>3. Is(g, w + 1)
        BY <3>2
      <3> HIDE DEF g, Is
      <3> QED BY <3>3
    <2>3. PICK h : Is(h, n)
      <3>1. \A w \in Nat : w \in P
        <4> HIDE DEF P
        <4> QED BY <2>1, <2>2, Induction
      <3> QED BY <3>1
    <2> DEFINE g == CHOOSE h_ : h_ = [u \in 1..n |-> IF u = 1 THEN s[u] ELSE h_[u - 1] \o s[u]]
    <2>4. FlattenSeq(s) = g[n]
      BY <1>1, <1>3 DEF FlattenSeq
    <2>5. Is(g, n)
      BY <2>3
    <2> HIDE DEF g
    <2>6. g[1] = s[1] /\ \A u \in 2..n : g[u] = g[u - 1] \o s[u]
      <3>1. \A u \in 1..n : g[u] = Turn(g, u)
        BY <2>5
      <3>2. 1 \in 1..n /\ Turn(g, 1) = s[1]
        BY <1>3
      <3>3. \A u \in 2..n : u \in 1..n /\ u # 1
        OBVIOUS
      <3>4. \A u \in 2..n : Turn(g, u) = g[u - 1] \o s[u]
        BY <3>3, Zenon
      <3> HIDE DEF Turn
      <3> QED BY <3>1, <3>2, <3>3, <3>4, Zenon
    <2>7. PICK f : f = [u \in 0..n |-> IF u = 0 THEN <<>> ELSE g[u]]
      OBVIOUS
    <2>8. DOMAIN f = 0..n /\ f[0] = <<>> /\ (\A u \in 1..n : f[u] = g[u]) /\ f = [u \in 0..n |-> f[u]]
      BY <2>7
    <2>9. ASSUME NEW u \in 1..n PROVE f[u] = f[u - 1] \o s[u]
      <3>1. CASE u = 1
        <4>1. u - 1 = 0 /\ s[u] \in Seq(S)
          BY <1>0, <3>1
        <4>2. <<>> \o s[u] = s[u]
          BY <4>1, ConcatEmptySeq
        <4> QED BY <2>6, <2>8, <3>1, <4>1, <4>2, Zenon
      <3>2. CASE u # 1
        <4>1. u \in 2..n /\ u - 1 \in 1..n
          BY <3>2
        <4> QED BY <2>6, <2>8, <4>1, Zenon
      <3> QED BY <3>1, <3>2
    <2> DEFINE Q == {w \in Nat : w <= n => f[w] \in Seq(S)}
    <2>10. 0 \in Q
      BY <2>8, EmptySeq
    <2>11. ASSUME NEW w \in Nat, w \in Q PROVE w + 1 \in Q
      <3> SUFFICES ASSUME w + 1 <= n PROVE f[w + 1] \in Seq(S)
        OBVIOUS
      <3>1. w + 1 \in 1..n /\ (w + 1) - 1 = w /\ f[w] \in Seq(S)
        BY <2>11
      <3>2. s[w + 1] \in Seq(S)
        BY <1>0, <3>1
      <3>3. f[w] \o s[w + 1] \in Seq(S)
        BY <3>1, <3>2, ConcatProperties
      <3>4. f[w + 1] = f[w] \o s[w + 1]
        BY <2>9, <3>1
      <3> QED BY <3>3, <3>4
    <2>12. \A w \in Nat : w \in Q
      <3> HIDE DEF Q
      <3> QED BY <2>10, <2>11, Induction
    <2>13. f \in [0..n -> Seq(S)]
      <3>1. \A u \in 0..n : f[u] \in Seq(S)
        BY <2>12
      <3> QED BY <2>8, <3>1
    <2>14. Joints(f, s, S)
      BY <1>1, <2>8, <2>9, <2>13, Zenon DEF Joints
    <2>15. FlattenSeq(s) = f[n]
      <3>1. n \in 1..n
        BY <1>3
      <3> QED BY <2>4, <2>8, <3>1, Zenon
    <2> QED BY <1>1, <2>14, <2>15, Zenon
  <1> QED BY <1>2, <1>3

\* Each of the sequences has its place in what they are joined to.
Placed(f, s) ==
    \A u \in 0..Len(s) : \A j \in 1..u :
        /\ Len(f[j]) = Len(f[j - 1]) + Len(s[j]) /\ Len(f[j]) <= Len(f[u])
        /\ \A k \in 1..Len(s[j]) : f[u][Len(f[j - 1]) + k] = s[j][k]

LEMMA JoinsPlaced ==
    ASSUME NEW S, NEW s \in Seq(Seq(S)), NEW f, Joints(f, s, S)
    PROVE  Placed(f, s)
  <1>1. PICK n \in Nat : n = Len(s)
    OBVIOUS
  <1>2. \A u \in 0..n : f[u] \in Seq(S) /\ Len(f[u]) \in Nat
    <2>1. \A u \in 0..n : f[u] \in Seq(S)
      BY <1>1 DEF Joints
    <2> QED BY <2>1
  <1>3. \A j \in 1..n : s[j] \in Seq(S) /\ Len(s[j]) \in Nat
    BY <1>1
  <1>4. ASSUME NEW j \in 1..n
        PROVE  /\ Len(f[j]) = Len(f[j - 1]) + Len(s[j])
               /\ \A k \in 1..Len(f[j - 1]) : f[j][k] = f[j - 1][k]
               /\ \A k \in 1..Len(s[j]) : f[j][Len(f[j - 1]) + k] = s[j][k]
    <2>1. PICK a \in Seq(S) : a = f[j - 1]
      BY <1>2
    <2>2. PICK b \in Seq(S) : b = s[j]
      BY <1>3
    <2>3. f[j] = a \o b
      BY <1>1, <2>1, <2>2 DEF Joints
    <2>4. /\ Len(a \o b) = Len(a) + Len(b) /\ Len(a) \in Nat /\ Len(b) \in Nat
          /\ \A k \in 1..(Len(a) + Len(b)) : (a \o b)[k] = IF k <= Len(a) THEN a[k] ELSE b[k - Len(a)]
      BY ConcatProperties
    <2>5. PICK c : c = a \o b
      OBVIOUS
    <2>6. PICK l \in Nat : l = Len(a)
      BY <2>4
    <2>7. \A k \in 1..l : c[k] = a[k]
      BY <2>4, <2>5, <2>6
    <2>8. ASSUME NEW k \in 1..Len(b) PROVE c[l + k] = b[k]
      <3>1. l + k \in 1..(l + Len(b)) /\ ~(l + k <= l) /\ (l + k) - l = k
        BY <2>4
      <3> QED BY <2>4, <2>5, <2>6, <3>1
    <2> QED BY <2>1, <2>2, <2>3, <2>4, <2>5, <2>6, <2>7, <2>8
  <1>5. PICK L : L = [u \in 0..n |-> Len(f[u])]
    OBVIOUS
  <1>6. PICK M : M = [j \in 1..n |-> Len(s[j])]
    OBVIOUS
  <1>7. /\ \A u \in 0..n : L[u] \in Nat /\ L[u] = Len(f[u])
        /\ \A j \in 1..n : M[j] \in Nat /\ M[j] = Len(s[j])
    BY <1>2, <1>3, <1>5, <1>6
  <1>8. \A j \in 1..n : /\ L[j] = L[j - 1] + M[j]
                        /\ \A k \in 1..L[j - 1] : f[j][k] = f[j - 1][k]
                        /\ \A k \in 1..M[j] : f[j][L[j - 1] + k] = s[j][k]
    <2> SUFFICES ASSUME NEW j \in 1..n
                 PROVE  /\ L[j] = L[j - 1] + M[j]
                        /\ \A k \in 1..L[j - 1] : f[j][k] = f[j - 1][k]
                        /\ \A k \in 1..M[j] : f[j][L[j - 1] + k] = s[j][k]
      OBVIOUS
    <2>1. j \in 0..n /\ j - 1 \in 0..n
      OBVIOUS
    <2>2. L[j] = Len(f[j]) /\ L[j - 1] = Len(f[j - 1]) /\ M[j] = Len(s[j])
      BY <1>7, <2>1
    <2> QED BY <1>4, <2>2, Zenon
  <1> DEFINE Right(u, j) == L[j] <= L[u] /\ \A k \in 1..M[j] : f[u][L[j - 1] + k] = s[j][k]
             P == {u \in Nat : u <= n => \A j \in 1..u : Right(u, j)}
  <1>9. 0 \in P
    OBVIOUS
  <1>10. ASSUME NEW u \in Nat, u \in P PROVE u + 1 \in P
    <2> HIDE DEF Right
    <2> SUFFICES ASSUME u + 1 <= n, NEW j \in 1..(u + 1) PROVE Right(u + 1, j)
      OBVIOUS
    <2> USE DEF Right
    <2>1. /\ u + 1 \in 1..n /\ (u + 1) - 1 = u /\ u \in 0..n /\ u + 1 \in 0..n
          /\ j \in 0..n /\ j - 1 \in 0..n /\ j \in 1..n
      OBVIOUS
    <2>2. L[u + 1] = L[u] + M[u + 1] /\ \A k \in 1..L[u] : f[u + 1][k] = f[u][k]
      BY <1>8, <2>1
    <2>3. CASE j = u + 1
      <3>1. L[u + 1] <= L[u + 1]
        BY <1>7, <2>1
      <3> QED BY <1>8, <2>1, <2>3, <3>1
    <2>4. CASE j # u + 1
      <3>1. j \in 1..u /\ u <= n
        BY <2>4
      <3>2. Right(u, j)
        BY <1>10, <3>1
      <3>3. L[j] <= L[u + 1]
        BY <1>7, <2>1, <2>2, <3>2
      <3>4. ASSUME NEW k \in 1..M[j] PROVE f[u + 1][L[j - 1] + k] = s[j][k]
        <4>1. L[j] = L[j - 1] + M[j]
          BY <1>8, <2>1
        <4>2. L[j - 1] + k \in 1..L[u]
          BY <1>7, <2>1, <3>2, <4>1
        <4> QED BY <2>2, <3>2, <4>2
      <3> QED BY <3>3, <3>4
    <2> QED BY <2>3, <2>4
  <1>11. \A u \in Nat : u \in P
    <2> HIDE DEF P
    <2> QED BY <1>9, <1>10, Induction
  <1> SUFFICES ASSUME NEW u \in 0..n, NEW j \in 1..u
               PROVE  /\ Len(f[j]) = Len(f[j - 1]) + Len(s[j]) /\ Len(f[j]) <= Len(f[u])
                      /\ \A k \in 1..Len(s[j]) : f[u][Len(f[j - 1]) + k] = s[j][k]
    BY <1>1, Zenon DEF Placed
  <1>12. u \in Nat /\ u <= n /\ j \in 1..n /\ j \in 0..n /\ j - 1 \in 0..n
    OBVIOUS
  <1>13. Right(u, j)
    BY <1>11, <1>12
  <1>14. L[j] = L[j - 1] + M[j]
    BY <1>8, <1>12
  <1> QED BY <1>7, <1>12, <1>13, <1>14

LEMMA FunctionIsSeq ==
    ASSUME NEW n \in Nat, NEW S, NEW f \in [1..n -> S]
    PROVE  f \in Seq(S) /\ Len(f) = n
  BY SeqDef, LenProperties

-----------------------------------------------------------------------------
(* Columns                                                                   *)

\* The number that the first letters stand for, one letter after the other.
Counts(f, s) ==
    /\ f \in [0..Len(s) -> Nat] /\ f[0] = 0
    /\ \A j \in 1..Len(s) : f[j] = f[j - 1] * 26 + s[j] + 1

LEMMA Counted ==
    ASSUME NEW s \in Seq(Nat)
    PROVE  \E f : Counts(f, s) /\ ColumnNumber(s) = f[Len(s)] - 1
  <1>1. PICK n \in Nat : n = Len(s)
    OBVIOUS
  <1>2. \A j \in 1..n : s[j] \in Nat
    BY <1>1
  <1>3. PICK G : G = [x \in (1..n) \X Nat |-> x[2] * 26 + s[x[1]] + 1]
    OBVIOUS
  <1>4. G \in [(1..n) \X Nat -> Nat]
    <2>1. ASSUME NEW x \in (1..n) \X Nat PROVE x[2] * 26 + s[x[1]] + 1 \in Nat
      <3>1. x[1] \in 1..n /\ x[2] \in Nat
        OBVIOUS
      <3> QED BY <1>2, <3>1
    <2> QED BY <1>3, <2>1
  <1>5. PICK f : Steps(f, n, Nat, 0, G)
    <2>1. 0 \in Nat
      OBVIOUS
    <2> QED BY <1>4, <2>1, Recursion
  <1>6. f \in [0..n -> Nat] /\ f[0] = 0 /\ \A j \in 1..n : f[j] = f[j - 1] * 26 + s[j] + 1
    <2>1. f \in [0..n -> Nat] /\ f[0] = 0 /\ \A j \in 1..n : f[j] = G[<<j, f[j - 1]>>]
      BY <1>5 DEF Steps
    <2>2. ASSUME NEW j \in 1..n PROVE G[<<j, f[j - 1]>>] = f[j - 1] * 26 + s[j] + 1
      <3>1. f[j - 1] \in Nat
        BY <2>1
      <3> QED BY <1>3, <3>1
    <2> QED BY <2>1, <2>2
  <1> DEFINE Is(g) == g = [j \in 0..n |-> IF j = 0 THEN 0 ELSE g[j - 1] * 26 + s[j] + 1]
             g_ == CHOOSE g : Is(g)
  <1>7. Is(f)
    <2>1. \A j \in 0..n : f[j] = IF j = 0 THEN 0 ELSE f[j - 1] * 26 + s[j] + 1
      BY <1>6
    <2> QED BY <1>6, <2>1
  <1>8. Is(g_)
    BY <1>7
  <1>9. ColumnNumber(s) = g_[n] - 1
    BY <1>1 DEF ColumnNumber
  <1>10. \A j \in 0..n : g_[j] = IF j = 0 THEN 0 ELSE g_[j - 1] * 26 + s[j] + 1
    <2>1. PICK g : g = g_
      OBVIOUS
    <2>2. g = [j \in 0..n |-> IF j = 0 THEN 0 ELSE g[j - 1] * 26 + s[j] + 1]
      BY <1>8, <2>1
    <2> HIDE DEF g_
    <2>3. \A j \in 0..n : g[j] = IF j = 0 THEN 0 ELSE g[j - 1] * 26 + s[j] + 1
      BY <2>2
    <2> QED BY <2>1, <2>3
  <1> HIDE DEF g_, Is
  <1> DEFINE P == {k \in Nat : k <= n => g_[k] = f[k]}
  <1>11. 0 \in P
    BY <1>6, <1>10
  <1>12. ASSUME NEW k \in Nat, k \in P PROVE k + 1 \in P
    <2> SUFFICES ASSUME k + 1 <= n PROVE g_[k + 1] = f[k + 1]
      OBVIOUS
    <2>1. g_[k] = f[k]
      BY <1>12
    <2>2. k + 1 \in 1..n /\ k + 1 \in 0..n /\ k + 1 # 0 /\ (k + 1) - 1 = k
      OBVIOUS
    <2>3. f[k + 1] = f[k] * 26 + s[k + 1] + 1
      BY <1>6, <2>2
    <2>4. g_[k + 1] = g_[k] * 26 + s[k + 1] + 1
      BY <1>10, <2>2
    <2> QED BY <2>1, <2>3, <2>4
  <1>13. n \in P
    <2> HIDE DEF P
    <2> QED BY <1>11, <1>12, Induction
  <1>14. g_[n] = f[n]
    BY <1>13
  <1> QED BY <1>1, <1>6, <1>9, <1>14 DEF Counts

LEMMA NoLetter == ColumnNumber(<<>>) = -1
  <1>1. PICK s : s = <<>>
    OBVIOUS
  <1>2. s \in Seq(Nat) /\ Len(s) = 0
    BY <1>1
  <1>3. PICK f : Counts(f, s) /\ ColumnNumber(s) = f[Len(s)] - 1
    BY <1>2, Counted
  <1> QED BY <1>1, <1>2, <1>3 DEF Counts

LEMMA LastLetter ==
    ASSUME NEW s \in Seq(Nat), NEW c \in Nat
    PROVE  /\ ColumnNumber(s) \in Int
           /\ ColumnNumber(Append(s, c)) = (ColumnNumber(s) + 1) * 26 + c
  <1>1. PICK t : t = Append(s, c)
    OBVIOUS
  <1>2. PICK n \in Nat : n = Len(s)
    OBVIOUS
  <1>3. t \in Seq(Nat) /\ Len(t) = n + 1 /\ t[n + 1] = c /\ \A j \in 1..n : t[j] = s[j]
    BY <1>1, <1>2, AppendProperties
  <1>4. PICK f : Counts(f, s) /\ ColumnNumber(s) = f[n] - 1
    BY <1>2, Counted
  <1>5. PICK g : Counts(g, t) /\ ColumnNumber(t) = g[n + 1] - 1
    BY <1>3, Counted
  <1>6. f \in [0..n -> Nat] /\ f[0] = 0 /\ \A j \in 1..n : f[j] = f[j - 1] * 26 + s[j] + 1
    BY <1>2, <1>4 DEF Counts
  <1>7. g \in [0..(n + 1) -> Nat] /\ g[0] = 0 /\ \A j \in 1..(n + 1) : g[j] = g[j - 1] * 26 + t[j] + 1
    BY <1>3, <1>5 DEF Counts
  <1> DEFINE P == {k \in Nat : k <= n => g[k] = f[k]}
  <1>8. 0 \in P
    BY <1>6, <1>7
  <1>9. ASSUME NEW k \in Nat, k \in P PROVE k + 1 \in P
    <2> SUFFICES ASSUME k + 1 <= n PROVE g[k + 1] = f[k + 1]
      OBVIOUS
    <2>1. g[k] = f[k]
      BY <1>9
    <2>2. k + 1 \in 1..n /\ k + 1 \in 1..(n + 1) /\ (k + 1) - 1 = k
      OBVIOUS
    <2>3. f[k + 1] = f[k] * 26 + s[k + 1] + 1
      BY <1>6, <2>2
    <2>4. g[k + 1] = g[k] * 26 + t[k + 1] + 1
      BY <1>7, <2>2
    <2> QED BY <1>3, <2>1, <2>2, <2>3, <2>4
  <1>10. n \in P
    <2> HIDE DEF P
    <2> QED BY <1>8, <1>9, Induction
  <1>11. g[n] = f[n] /\ f[n] \in Nat
    BY <1>6, <1>10
  <1>12. g[n + 1] = g[n] * 26 + c + 1
    <2>1. n + 1 \in 1..(n + 1) /\ (n + 1) - 1 = n
      OBVIOUS
    <2> QED BY <1>3, <1>7, <2>1
  <1> QED BY <1>1, <1>4, <1>5, <1>11, <1>12

\* The last letter of the name of a column, and what the others stand for.
LastOf(n) == (n - 1) % 26
RestOf(n) == (n - (LastOf(n) + 1)) \div 26
Named(h, m) == h = [n \in 0..m |-> IF n = 0 THEN <<>> ELSE Append(h[RestOf(n)], LastOf(n))]

LEMMA Divided ==
    ASSUME NEW k \in Nat
    PROVE  \E q \in Nat, r \in 0..25 : k = 26 * q + r /\ k % 26 = r /\ k \div 26 = q
  OBVIOUS

LEMMA LastAndRest ==
    ASSUME NEW n \in Nat \ {0}
    PROVE  /\ LastOf(n) \in 0..25 /\ RestOf(n) \in 0..(n - 1)
           /\ RestOf(n) * 26 + LastOf(n) + 1 = n
  <1>1. PICK q \in Nat, r \in 0..25 : n - 1 = 26 * q + r /\ LastOf(n) = r
    <2>1. PICK k \in Nat : k = n - 1
      OBVIOUS
    <2>2. PICK q \in Nat, r \in 0..25 : k = 26 * q + r /\ k % 26 = r
      BY Divided
    <2> QED BY <2>1, <2>2 DEF LastOf
  <1>3. RestOf(n) = q
    <2>2. n - (r + 1) = 26 * q
      BY <1>1
    <2>3. (26 * q) \div 26 = q
      OBVIOUS
    <2> QED BY <1>1, <2>2, <2>3 DEF RestOf
  <1> QED BY <1>1, <1>3

LEMMA NamesExist ==
    ASSUME NEW m \in Nat
    PROVE  \E h : Named(h, m)
  <1> DEFINE P == {k \in Nat : \E h : Named(h, k)}
             Spell(h, n) == IF n = 0 THEN <<>> ELSE Append(h[RestOf(n)], LastOf(n))
  <1>1. 0 \in P
    <2>1. Named([n \in 0..0 |-> <<>>], 0)
      BY DEF Named
    <2> QED BY <2>1
  <1>2. ASSUME NEW k \in Nat, k \in P PROVE k + 1 \in P
    <2>1. PICK h : Named(h, k)
      BY <1>2
    <2>2. \A n \in 0..k : h[n] = Spell(h, n)
      <3>1. h = [n \in 0..k |-> Spell(h, n)]
        BY <2>1 DEF Named
      <3> HIDE DEF Spell
      <3> QED BY <3>1
    <2>3. PICK g : g = [n \in 0..(k + 1) |-> Spell(h, n)]
      OBVIOUS
    <2>4. ASSUME NEW n \in 0..(k + 1) PROVE Spell(g, n) = Spell(h, n)
      <3>1. CASE n = 0
        BY <3>1
      <3>2. CASE n # 0
        <4>1. RestOf(n) \in 0..k
          BY <3>2, LastAndRest
        <4>2. g[RestOf(n)] = h[RestOf(n)]
          <5> HIDE DEF Spell
          <5>1. PICK r \in 0..k : r = RestOf(n)
            BY <4>1
          <5>2. g[r] = Spell(h, r) /\ h[r] = Spell(h, r)
            BY <2>2, <2>3
          <5> QED BY <5>1, <5>2
        <4> QED BY <3>2, <4>2
      <3> QED BY <3>1, <3>2
    <2>5. g = [n \in 0..(k + 1) |-> Spell(g, n)]
      <3> HIDE DEF Spell
      <3> QED BY <2>3, <2>4
    <2>6. Named(g, k + 1)
      BY <2>5 DEF Named
    <2> QED BY <2>6
  <1>3. m \in P
    <2> HIDE DEF P
    <2> QED BY <1>1, <1>2, Induction
  <1> QED BY <1>3

LEMMA NamesStandFor ==
    ASSUME NEW m \in Nat, NEW h, Named(h, m), NEW n \in 0..m
    PROVE  h[n] \in Seq(Nat) /\ ColumnNumber(h[n]) = n - 1
  <1> DEFINE P == {k \in Nat : \A l \in 0..k : l <= m => h[l] \in Seq(Nat) /\ ColumnNumber(h[l]) = l - 1}
  <1>0. \A l \in 0..m : h[l] = IF l = 0 THEN <<>> ELSE Append(h[RestOf(l)], LastOf(l))
    BY DEF Named
  <1>1. 0 \in P
    <2>1. h[0] = <<>>
      BY <1>0
    <2>2. h[0] \in Seq(Nat) /\ ColumnNumber(h[0]) = -1
      BY <2>1, NoLetter
    <2> QED BY <2>2
  <1>2. ASSUME NEW k \in Nat, k \in P PROVE k + 1 \in P
    <2> SUFFICES ASSUME NEW l \in 0..(k + 1), l <= m, l # 0
                 PROVE  h[l] \in Seq(Nat) /\ ColumnNumber(h[l]) = l - 1
      BY <1>1
    <2>1. PICK r \in 0..(l - 1) : r = RestOf(l)
      BY LastAndRest
    <2>2. PICK c \in 0..25 : c = LastOf(l)
      BY LastAndRest
    <2>3. r * 26 + c + 1 = l
      BY <2>1, <2>2, LastAndRest
    <2>4. r \in 0..k /\ r <= m
      OBVIOUS
    <2>5. PICK s : s = h[r]
      OBVIOUS
    <2>6. s \in Seq(Nat) /\ ColumnNumber(s) = r - 1
      BY <1>2, <2>4, <2>5
    <2>7. h[l] = Append(s, c)
      <3>1. l \in 0..m /\ l # 0
        OBVIOUS
      <3>2. h[l] = Append(h[RestOf(l)], LastOf(l))
        BY <1>0, <3>1, Zenon
      <3> QED BY <2>1, <2>2, <2>5, <3>2, Zenon
    <2>8. c \in Nat /\ Append(s, c) \in Seq(Nat)
      BY <2>6, AppendProperties
    <2>9. ColumnNumber(Append(s, c)) = (ColumnNumber(s) + 1) * 26 + c
      BY <2>6, <2>8, LastLetter
    <2> QED BY <2>3, <2>6, <2>7, <2>8, <2>9
  <1>3. m \in P
    <2> HIDE DEF P
    <2> QED BY <1>1, <1>2, Induction
  <1> QED BY <1>3

\* The number of the name of a column is the column, from none (-1) on.
LEMMA ColumnOf ==
    ASSUME NEW column \in Nat \cup {-1}
    PROVE  ColumnNumber(columnFromNumber(column)) = column
  <1>1. PICK m \in Nat : m = column + 1
    OBVIOUS
  <1> DEFINE h == CHOOSE g : Named(g, m)
  <1>2. Named(h, m)
    BY NamesExist
  <1>3. columnFromNumber(column) = h[m]
    BY <1>1 DEF columnFromNumber, Named, RestOf, LastOf
  <1> HIDE DEF h
  <1>4. m \in 0..m
    OBVIOUS
  <1>5. ColumnNumber(h[m]) = m - 1
    BY <1>2, <1>4, NamesStandFor
  <1> QED BY <1>1, <1>3, <1>5

LEMMA ColumnsAreNamed == ColumnsNamed
  BY ColumnsAssumption, ColumnOf DEF ColumnsNamed

-----------------------------------------------------------------------------
(* base64url                                                                 *)

\* The byte at a place, and zeros after the last.
ByteAt(data, k) == IF k <= Len(data) THEN data[k] ELSE 0

\* The letters of three bytes.
FourOf(x, y, z) == <<x \div 4, (x % 4) * 16 + y \div 16, (y % 16) * 4 + z \div 64, z % 64>>

\* A bit of a number of eight bits.
Bit8(x, b) == (x \div Powers[b]) % 2

LEMMA BitIs ==
    ASSUME NEW x
    PROVE  /\ Bit8(x, 1) = (x \div 128) % 2 /\ Bit8(x, 2) = (x \div 64) % 2
           /\ Bit8(x, 3) = (x \div 32) % 2 /\ Bit8(x, 4) = (x \div 16) % 2
           /\ Bit8(x, 5) = (x \div 8) % 2 /\ Bit8(x, 6) = (x \div 4) % 2
           /\ Bit8(x, 7) = (x \div 2) % 2 /\ Bit8(x, 8) = (x \div 1) % 2
  BY DEF Powers, Bit8

LEMMA BitsOfLetter1 ==
    ASSUME NEW x \in 0..255, NEW v, v = x \div 4
    PROVE  /\ Bit8(v, 3) = Bit8(x, 1) /\ Bit8(v, 4) = Bit8(x, 2) /\ Bit8(v, 5) = Bit8(x, 3)
           /\ Bit8(v, 6) = Bit8(x, 4) /\ Bit8(v, 7) = Bit8(x, 5) /\ Bit8(v, 8) = Bit8(x, 6)
  <1>1. Bit8(v, 3) = Bit8(x, 1)
    <2>1. (v \div 32) % 2 = (x \div 128) % 2
      OBVIOUS
    <2>2. Bit8(v, 3) = (v \div 32) % 2
      BY BitIs
    <2>3. Bit8(x, 1) = (x \div 128) % 2
      BY BitIs
    <2> QED BY <2>1, <2>2, <2>3, Zenon
  <1>2. Bit8(v, 4) = Bit8(x, 2)
    <2>1. (v \div 16) % 2 = (x \div 64) % 2
      OBVIOUS
    <2>2. Bit8(v, 4) = (v \div 16) % 2
      BY BitIs
    <2>3. Bit8(x, 2) = (x \div 64) % 2
      BY BitIs
    <2> QED BY <2>1, <2>2, <2>3, Zenon
  <1>3. Bit8(v, 5) = Bit8(x, 3)
    <2>1. (v \div 8) % 2 = (x \div 32) % 2
      OBVIOUS
    <2>2. Bit8(v, 5) = (v \div 8) % 2
      BY BitIs
    <2>3. Bit8(x, 3) = (x \div 32) % 2
      BY BitIs
    <2> QED BY <2>1, <2>2, <2>3, Zenon
  <1>4. Bit8(v, 6) = Bit8(x, 4)
    <2>1. (v \div 4) % 2 = (x \div 16) % 2
      OBVIOUS
    <2>2. Bit8(v, 6) = (v \div 4) % 2
      BY BitIs
    <2>3. Bit8(x, 4) = (x \div 16) % 2
      BY BitIs
    <2> QED BY <2>1, <2>2, <2>3, Zenon
  <1>5. Bit8(v, 7) = Bit8(x, 5)
    <2>1. (v \div 2) % 2 = (x \div 8) % 2
      OBVIOUS
    <2>2. Bit8(v, 7) = (v \div 2) % 2
      BY BitIs
    <2>3. Bit8(x, 5) = (x \div 8) % 2
      BY BitIs
    <2> QED BY <2>1, <2>2, <2>3, Zenon
  <1>6. Bit8(v, 8) = Bit8(x, 6)
    <2>1. (v \div 1) % 2 = (x \div 4) % 2
      OBVIOUS
    <2>2. Bit8(v, 8) = (v \div 1) % 2
      BY BitIs
    <2>3. Bit8(x, 6) = (x \div 4) % 2
      BY BitIs
    <2> QED BY <2>1, <2>2, <2>3, Zenon
  <1> QED BY <1>1, <1>2, <1>3, <1>4, <1>5, <1>6

Bits2(v, x, y) ==
    /\ Bit8(v, 3) = Bit8(x, 7) /\ Bit8(v, 4) = Bit8(x, 8) /\ Bit8(v, 5) = Bit8(y, 1)
    /\ Bit8(v, 6) = Bit8(y, 2) /\ Bit8(v, 7) = Bit8(y, 3) /\ Bit8(v, 8) = Bit8(y, 4)

LEMMA BitsOfLetter2 ==
    ASSUME NEW x \in 0..255, NEW y \in 0..255, NEW v, v = (x % 4) * 16 + y \div 16
    PROVE  Bits2(v, x, y)
  <1>1. Bit8(v, 3) = Bit8(x, 7)
    <2>1. (v \div 32) % 2 = (x \div 2) % 2
      OBVIOUS
    <2>2. Bit8(v, 3) = (v \div 32) % 2
      BY BitIs
    <2>3. Bit8(x, 7) = (x \div 2) % 2
      BY BitIs
    <2> QED BY <2>1, <2>2, <2>3, Zenon
  <1>2. Bit8(v, 4) = Bit8(x, 8)
    <2>1. (v \div 16) % 2 = (x \div 1) % 2
      OBVIOUS
    <2>2. Bit8(v, 4) = (v \div 16) % 2
      BY BitIs
    <2>3. Bit8(x, 8) = (x \div 1) % 2
      BY BitIs
    <2> QED BY <2>1, <2>2, <2>3, Zenon
  <1>3. Bit8(v, 5) = Bit8(y, 1)
    <2>1. (v \div 8) % 2 = (y \div 128) % 2
      OBVIOUS
    <2>2. Bit8(v, 5) = (v \div 8) % 2
      BY BitIs
    <2>3. Bit8(y, 1) = (y \div 128) % 2
      BY BitIs
    <2> QED BY <2>1, <2>2, <2>3, Zenon
  <1>4. Bit8(v, 6) = Bit8(y, 2)
    <2>1. (v \div 4) % 2 = (y \div 64) % 2
      OBVIOUS
    <2>2. Bit8(v, 6) = (v \div 4) % 2
      BY BitIs
    <2>3. Bit8(y, 2) = (y \div 64) % 2
      BY BitIs
    <2> QED BY <2>1, <2>2, <2>3, Zenon
  <1>5. Bit8(v, 7) = Bit8(y, 3)
    <2>1. (v \div 2) % 2 = (y \div 32) % 2
      OBVIOUS
    <2>2. Bit8(v, 7) = (v \div 2) % 2
      BY BitIs
    <2>3. Bit8(y, 3) = (y \div 32) % 2
      BY BitIs
    <2> QED BY <2>1, <2>2, <2>3, Zenon
  <1>6. Bit8(v, 8) = Bit8(y, 4)
    <2>1. (v \div 1) % 2 = (y \div 16) % 2
      OBVIOUS
    <2>2. Bit8(v, 8) = (v \div 1) % 2
      BY BitIs
    <2>3. Bit8(y, 4) = (y \div 16) % 2
      BY BitIs
    <2> QED BY <2>1, <2>2, <2>3, Zenon
  <1> QED BY <1>1, <1>2, <1>3, <1>4, <1>5, <1>6 DEF Bits2

Bits3(v, y, z) ==
    /\ Bit8(v, 3) = Bit8(y, 5) /\ Bit8(v, 4) = Bit8(y, 6) /\ Bit8(v, 5) = Bit8(y, 7)
    /\ Bit8(v, 6) = Bit8(y, 8) /\ Bit8(v, 7) = Bit8(z, 1) /\ Bit8(v, 8) = Bit8(z, 2)

LEMMA BitsOfLetter3 ==
    ASSUME NEW y \in 0..255, NEW z \in 0..255, NEW v, v = (y % 16) * 4 + z \div 64
    PROVE  Bits3(v, y, z)
  <1>1. Bit8(v, 3) = Bit8(y, 5)
    <2>1. (v \div 32) % 2 = (y \div 8) % 2
      OBVIOUS
    <2>2. Bit8(v, 3) = (v \div 32) % 2
      BY BitIs
    <2>3. Bit8(y, 5) = (y \div 8) % 2
      BY BitIs
    <2> QED BY <2>1, <2>2, <2>3, Zenon
  <1>2. Bit8(v, 4) = Bit8(y, 6)
    <2>1. (v \div 16) % 2 = (y \div 4) % 2
      OBVIOUS
    <2>2. Bit8(v, 4) = (v \div 16) % 2
      BY BitIs
    <2>3. Bit8(y, 6) = (y \div 4) % 2
      BY BitIs
    <2> QED BY <2>1, <2>2, <2>3, Zenon
  <1>3. Bit8(v, 5) = Bit8(y, 7)
    <2>1. (v \div 8) % 2 = (y \div 2) % 2
      OBVIOUS
    <2>2. Bit8(v, 5) = (v \div 8) % 2
      BY BitIs
    <2>3. Bit8(y, 7) = (y \div 2) % 2
      BY BitIs
    <2> QED BY <2>1, <2>2, <2>3, Zenon
  <1>4. Bit8(v, 6) = Bit8(y, 8)
    <2>1. (v \div 4) % 2 = (y \div 1) % 2
      OBVIOUS
    <2>2. Bit8(v, 6) = (v \div 4) % 2
      BY BitIs
    <2>3. Bit8(y, 8) = (y \div 1) % 2
      BY BitIs
    <2> QED BY <2>1, <2>2, <2>3, Zenon
  <1>5. Bit8(v, 7) = Bit8(z, 1)
    <2>1. (v \div 2) % 2 = (z \div 128) % 2
      OBVIOUS
    <2>2. Bit8(v, 7) = (v \div 2) % 2
      BY BitIs
    <2>3. Bit8(z, 1) = (z \div 128) % 2
      BY BitIs
    <2> QED BY <2>1, <2>2, <2>3, Zenon
  <1>6. Bit8(v, 8) = Bit8(z, 2)
    <2>1. (v \div 1) % 2 = (z \div 64) % 2
      OBVIOUS
    <2>2. Bit8(v, 8) = (v \div 1) % 2
      BY BitIs
    <2>3. Bit8(z, 2) = (z \div 64) % 2
      BY BitIs
    <2> QED BY <2>1, <2>2, <2>3, Zenon
  <1> QED BY <1>1, <1>2, <1>3, <1>4, <1>5, <1>6 DEF Bits3

LEMMA BitsOfLetter4 ==
    ASSUME NEW z \in 0..255, NEW v, v = z % 64
    PROVE  /\ Bit8(v, 3) = Bit8(z, 3) /\ Bit8(v, 4) = Bit8(z, 4) /\ Bit8(v, 5) = Bit8(z, 5)
           /\ Bit8(v, 6) = Bit8(z, 6) /\ Bit8(v, 7) = Bit8(z, 7) /\ Bit8(v, 8) = Bit8(z, 8)
  <1>1. Bit8(v, 3) = Bit8(z, 3)
    <2>1. (v \div 32) % 2 = (z \div 32) % 2
      OBVIOUS
    <2>2. Bit8(v, 3) = (v \div 32) % 2
      BY BitIs
    <2>3. Bit8(z, 3) = (z \div 32) % 2
      BY BitIs
    <2> QED BY <2>1, <2>2, <2>3, Zenon
  <1>2. Bit8(v, 4) = Bit8(z, 4)
    <2>1. (v \div 16) % 2 = (z \div 16) % 2
      OBVIOUS
    <2>2. Bit8(v, 4) = (v \div 16) % 2
      BY BitIs
    <2>3. Bit8(z, 4) = (z \div 16) % 2
      BY BitIs
    <2> QED BY <2>1, <2>2, <2>3, Zenon
  <1>3. Bit8(v, 5) = Bit8(z, 5)
    <2>1. (v \div 8) % 2 = (z \div 8) % 2
      OBVIOUS
    <2>2. Bit8(v, 5) = (v \div 8) % 2
      BY BitIs
    <2>3. Bit8(z, 5) = (z \div 8) % 2
      BY BitIs
    <2> QED BY <2>1, <2>2, <2>3, Zenon
  <1>4. Bit8(v, 6) = Bit8(z, 6)
    <2>1. (v \div 4) % 2 = (z \div 4) % 2
      OBVIOUS
    <2>2. Bit8(v, 6) = (v \div 4) % 2
      BY BitIs
    <2>3. Bit8(z, 6) = (z \div 4) % 2
      BY BitIs
    <2> QED BY <2>1, <2>2, <2>3, Zenon
  <1>5. Bit8(v, 7) = Bit8(z, 7)
    <2>1. (v \div 2) % 2 = (z \div 2) % 2
      OBVIOUS
    <2>2. Bit8(v, 7) = (v \div 2) % 2
      BY BitIs
    <2>3. Bit8(z, 7) = (z \div 2) % 2
      BY BitIs
    <2> QED BY <2>1, <2>2, <2>3, Zenon
  <1>6. Bit8(v, 8) = Bit8(z, 8)
    <2>1. (v \div 1) % 2 = (z \div 1) % 2
      OBVIOUS
    <2>2. Bit8(v, 8) = (v \div 1) % 2
      BY BitIs
    <2>3. Bit8(z, 8) = (z \div 1) % 2
      BY BitIs
    <2> QED BY <2>1, <2>2, <2>3, Zenon
  <1> QED BY <1>1, <1>2, <1>3, <1>4, <1>5, <1>6

OneOfThree(v, u, p, x, y, z) ==
    /\ p < 8 => Bit8(v, u + 3) = Bit8(x, p + 1)
    /\ p >= 8 /\ p < 16 => Bit8(v, u + 3) = Bit8(y, p - 7)
    /\ p >= 16 => Bit8(v, u + 3) = Bit8(z, p - 15)

\* The bit u of the letter s is the bit 6 * (s - 1) + u of the bytes.
LEMMA BitsOfGroup ==
    ASSUME NEW x \in 0..255, NEW y \in 0..255, NEW z \in 0..255, NEW s \in 1..4, NEW u \in 0..5,
           NEW p, p = 6 * (s - 1) + u, NEW v, v = FourOf(x, y, z)[s]
    PROVE  OneOfThree(v, u, p, x, y, z)
  <1> USE DEF OneOfThree
  <1>1. CASE s = 1
    <2>1. v = x \div 4
      BY <1>1 DEF FourOf
    <2>2. /\ Bit8(v, 3) = Bit8(x, 1) /\ Bit8(v, 4) = Bit8(x, 2) /\ Bit8(v, 5) = Bit8(x, 3)
          /\ Bit8(v, 6) = Bit8(x, 4) /\ Bit8(v, 7) = Bit8(x, 5) /\ Bit8(v, 8) = Bit8(x, 6)
      BY <2>1, BitsOfLetter1
    <2> QED BY <1>1, <2>2
  <1>2. CASE s = 2
    <2>1. v = (x % 4) * 16 + y \div 16
      BY <1>2 DEF FourOf
    <2>2. Bits2(v, x, y)
      BY <2>1, BitsOfLetter2, Zenon
    <2> QED BY <1>2, <2>2 DEF Bits2
  <1>3. CASE s = 3
    <2>1. v = (y % 16) * 4 + z \div 64
      BY <1>3 DEF FourOf
    <2>2. Bits3(v, y, z)
      BY <2>1, BitsOfLetter3, Zenon
    <2> QED BY <1>3, <2>2 DEF Bits3
  <1>4. CASE s = 4
    <2>1. v = z % 64
      BY <1>4 DEF FourOf
    <2>2. /\ Bit8(v, 3) = Bit8(z, 3) /\ Bit8(v, 4) = Bit8(z, 4) /\ Bit8(v, 5) = Bit8(z, 5)
          /\ Bit8(v, 6) = Bit8(z, 6) /\ Bit8(v, 7) = Bit8(z, 7) /\ Bit8(v, 8) = Bit8(z, 8)
      BY <2>1, BitsOfLetter4
    <2> QED BY <1>4, <2>2
  <1> QED BY <1>1, <1>2, <1>3, <1>4

\* The letters of the whole groups of three bytes, and those of the rest.
Whole(data) ==
    [j \in 1..(4 * (Len(data) \div 3)) |->
        FourOf(data[3 * ((j - 1) \div 4) + 1], data[3 * ((j - 1) \div 4) + 1 + 1],
               data[3 * ((j - 1) \div 4) + 1 + 2])[((j - 1) % 4) + 1]]

Remains(data) ==
    LET n == Len(data) IN
        CASE n % 3 = 1 -> <<data[n] \div 4, (data[n] % 4) * 16>>
          [] n % 3 = 2 -> <<data[n - 1] \div 4, (data[n - 1] % 4) * 16 + data[n] \div 16, (data[n] % 16) * 4>>
          [] OTHER -> <<>>

LEMMA EncodedParts == ASSUME NEW data PROVE base64url_encode(data) = Whole(data) \o Remains(data)
  BY Zenon DEF base64url_encode, Whole, Remains, FourOf

\* The letters of the group g.
Group(data, g) == FourOf(ByteAt(data, 3 * g + 1), ByteAt(data, 3 * g + 2), ByteAt(data, 3 * g + 3))

LEMMA Quarters ==
    ASSUME NEW g \in Nat, NEW k \in 0..3
    PROVE  (4 * g + k) \div 4 = g /\ (4 * g + k) % 4 = k
  OBVIOUS

LEMMA WholeIs ==
    ASSUME NEW data \in Seq(0..255), NEW q \in Nat, NEW r \in 0..2, Len(data) = 3 * q + r
    PROVE  /\ \E S : Whole(data) \in Seq(S)
           /\ Len(Whole(data)) = 4 * q
           /\ \A g \in 0..(q - 1), s \in 1..4 : Whole(data)[4 * g + s] = Group(data, g)[s]
  <1>1. Len(data) \div 3 = q
    OBVIOUS
  <1>2. PICK w : w = Whole(data)
    OBVIOUS
  <1>3. DOMAIN w = 1..(4 * q) /\ w = [j \in 1..(4 * q) |-> w[j]]
    BY <1>1, <1>2 DEF Whole
  <1>4. w \in Seq({w[j] : j \in 1..(4 * q)}) /\ Len(w) = 4 * q
    <2>1. PICK m \in Nat : m = 4 * q
      OBVIOUS
    <2>2. w \in [1..m -> {w[j] : j \in 1..m}]
      BY <1>3, <2>1
    <2> QED BY <2>1, <2>2, FunctionIsSeq
  <1>5. ASSUME NEW g \in 0..(q - 1), NEW s \in 1..4 PROVE w[4 * g + s] = Group(data, g)[s]
    <2>1. PICK j \in 1..(4 * q) : j = 4 * g + s
      OBVIOUS
    <2>2. (j - 1) \div 4 = g /\ ((j - 1) % 4) + 1 = s
      <3>1. PICK k \in 0..3 : k = s - 1
        OBVIOUS
      <3>2. (4 * g + k) \div 4 = g /\ (4 * g + k) % 4 = k
        <4>1. g \in Nat
          OBVIOUS
        <4> QED BY <4>1, Quarters, Zenon
      <3>3. j - 1 = 4 * g + k /\ s = k + 1
        BY <2>1, <3>1
      <3> QED BY <3>2, <3>3
    <2>3. w[j] = FourOf(data[3 * ((j - 1) \div 4) + 1], data[3 * ((j - 1) \div 4) + 1 + 1],
                        data[3 * ((j - 1) \div 4) + 1 + 2])[((j - 1) % 4) + 1]
      BY <1>1, <1>2 DEF Whole
    <2>4. w[j] = FourOf(data[3 * g + 1], data[3 * g + 1 + 1], data[3 * g + 1 + 2])[s]
      BY <2>2, <2>3, Zenon
    <2>5. 3 * g + 1 <= Len(data) /\ 3 * g + 2 <= Len(data) /\ 3 * g + 3 <= Len(data)
      OBVIOUS
    <2>6. ByteAt(data, 3 * g + 1) = data[3 * g + 1] /\ ByteAt(data, 3 * g + 2) = data[3 * g + 2]
          /\ ByteAt(data, 3 * g + 3) = data[3 * g + 3]
      BY <2>5, Zenon DEF ByteAt
    <2>7. 3 * g + 1 + 1 = 3 * g + 2 /\ 3 * g + 1 + 2 = 3 * g + 3
      OBVIOUS
    <2> QED BY <2>1, <2>4, <2>6, <2>7, Zenon DEF Group
  <1> QED BY <1>2, <1>4, <1>5, Zenon

LEMMA RemainsIs ==
    ASSUME NEW data \in Seq(0..255), NEW q \in Nat, NEW r \in 0..2, Len(data) = 3 * q + r
    PROVE  /\ \E S : Remains(data) \in Seq(S)
           /\ Len(Remains(data)) = IF r = 0 THEN 0 ELSE r + 1
           /\ \A s \in 1..4 : r # 0 /\ s <= r + 1 => Remains(data)[s] = Group(data, q)[s]
  <1>1. Len(data) % 3 = r
    OBVIOUS
  <1>2. PICK n \in Nat : n = Len(data)
    OBVIOUS
  <1>3. PICK w : w = Remains(data)
    OBVIOUS
  <1>4. CASE r = 0
    <2>1. w = <<>>
      <3>1. Len(data) % 3 # 1 /\ Len(data) % 3 # 2
        BY <1>1, <1>4
      <3> QED BY <1>3, <3>1, Zenon DEF Remains
    <2>2. w \in Seq(Nat) /\ Len(w) = 0
      BY <2>1
    <2> QED BY <1>3, <1>4, <2>2
  <1>5. CASE r = 1
    <2>0. n = 3 * q + 1
      BY <1>2, <1>5
    <2>1. PICK x \in 0..255 : x = data[n]
      <3>1. n \in 1..Len(data)
        BY <1>2, <2>0
      <3>2. data[n] \in 0..255
        BY <3>1, ElementOfSeq, Zenon
      <3> QED BY <3>2, Zenon
    <2>2. w = <<x \div 4, (x % 4) * 16>>
      BY <1>1, <1>2, <1>3, <1>5, <2>1 DEF Remains
    <2>3. ByteAt(data, 3 * q + 1) = x /\ ByteAt(data, 3 * q + 2) = 0 /\ ByteAt(data, 3 * q + 3) = 0
      BY <1>2, <2>0, <2>1 DEF ByteAt
    <2>4. Group(data, q)[1] = x \div 4 /\ Group(data, q)[2] = (x % 4) * 16 + 0 \div 16
      BY <2>3 DEF Group, FourOf
    <2>5. (x % 4) * 16 + 0 \div 16 = (x % 4) * 16
      OBVIOUS
    <2>6. w \in Seq(Nat) /\ Len(w) = 2 /\ w[1] = x \div 4 /\ w[2] = (x % 4) * 16
      BY <2>2
    <2>7. ASSUME NEW s \in 1..4, s <= 2 PROVE w[s] = Group(data, q)[s]
      BY <2>4, <2>5, <2>6, <2>7
    <2> QED BY <1>3, <1>5, <2>6, <2>7
  <1>6. CASE r = 2
    <2>0. n = 3 * q + 2
      BY <1>2, <1>6
    <2>1. PICK x \in 0..255, y \in 0..255 : x = data[n - 1] /\ y = data[n]
      <3>1. n - 1 \in 1..Len(data) /\ n \in 1..Len(data)
        BY <1>2, <2>0
      <3>2. data[n - 1] \in 0..255 /\ data[n] \in 0..255
        BY <3>1, ElementOfSeq, Zenon
      <3> QED BY <3>2, Zenon
    <2>2. w = <<x \div 4, (x % 4) * 16 + y \div 16, (y % 16) * 4>>
      BY <1>1, <1>2, <1>3, <1>6, <2>1 DEF Remains
    <2>3. ByteAt(data, 3 * q + 1) = x /\ ByteAt(data, 3 * q + 2) = y /\ ByteAt(data, 3 * q + 3) = 0
      BY <1>2, <2>0, <2>1 DEF ByteAt
    <2>4. Group(data, q)[1] = x \div 4 /\ Group(data, q)[2] = (x % 4) * 16 + y \div 16
          /\ Group(data, q)[3] = (y % 16) * 4 + 0 \div 64
      BY <2>3 DEF Group, FourOf
    <2>5. (y % 16) * 4 + 0 \div 64 = (y % 16) * 4
      OBVIOUS
    <2>6. w \in Seq(Nat) /\ Len(w) = 3 /\ w[1] = x \div 4 /\ w[2] = (x % 4) * 16 + y \div 16 /\ w[3] = (y % 16) * 4
      <3>1. PICK a \in Nat, b \in Nat, c \in Nat :
                a = x \div 4 /\ b = (x % 4) * 16 + y \div 16 /\ c = (y % 16) * 4
        OBVIOUS
      <3>2. w = <<a, b, c>>
        BY <2>2, <3>1, Zenon
      <3>3. w \in Seq(Nat) /\ Len(w) = 3 /\ w[1] = a /\ w[2] = b /\ w[3] = c
        BY <3>2
      <3> QED BY <3>1, <3>3, Zenon
    <2>7. ASSUME NEW s \in 1..4, s <= 3 PROVE w[s] = Group(data, q)[s]
      BY <2>4, <2>5, <2>6, <2>7
    <2> QED BY <1>3, <1>6, <2>6, <2>7
  <1> QED BY <1>4, <1>5, <1>6

LEMMA Encoded ==
    ASSUME NEW data \in Seq(0..255), NEW q \in Nat, NEW r \in 0..2, Len(data) = 3 * q + r
    PROVE  /\ Len(base64url_encode(data)) = 4 * q + (IF r = 0 THEN 0 ELSE r + 1)
           /\ \A g \in 0..q, s \in 1..4 : 4 * g + s <= 4 * q + (IF r = 0 THEN 0 ELSE r + 1) =>
                 base64url_encode(data)[4 * g + s] = Group(data, g)[s]
  <1>1. PICK w : w = Whole(data)
    OBVIOUS
  <1>2. PICK v : v = Remains(data)
    OBVIOUS
  <1>3. PICK e : e = base64url_encode(data)
    OBVIOUS
  <1>4. PICK m \in Nat : m = IF r = 0 THEN 0 ELSE r + 1
    OBVIOUS
  <1>5. PICK S : w \in Seq(S)
    BY <1>1, WholeIs
  <1>6. PICK T : v \in Seq(T)
    BY <1>2, RemainsIs
  <1>7. PICK U : w \in Seq(U) /\ v \in Seq(U)
    <2>1. w \in Seq(S \cup T) /\ v \in Seq(S \cup T)
      BY <1>5, <1>6
    <2> QED BY <2>1, Zenon
  <1>8. Len(w) = 4 * q /\ Len(v) = m
    BY <1>1, <1>2, <1>4, WholeIs, RemainsIs
  <1>9. e = w \o v
    BY <1>1, <1>2, <1>3, EncodedParts
  <1>10. Len(e) = 4 * q + m /\ \A j \in 1..(4 * q + m) : e[j] = IF j <= 4 * q THEN w[j] ELSE v[j - 4 * q]
    <2>1. PICK a \in Nat, b \in Nat : a = Len(w) /\ b = Len(v)
      BY <1>7
    <2>2. Len(w \o v) = a + b /\ \A j \in 1..(a + b) : (w \o v)[j] = IF j <= a THEN w[j] ELSE v[j - a]
      BY <1>7, <2>1, ConcatProperties
    <2>3. a = 4 * q /\ b = m
      BY <1>8, <2>1
    <2> QED BY <1>9, <2>2, <2>3
  <1>11. ASSUME NEW g \in 0..q, NEW s \in 1..4, 4 * g + s <= 4 * q + m PROVE e[4 * g + s] = Group(data, g)[s]
    <2>1. CASE g < q
      <3>1. 4 * g + s \in 1..(4 * q + m) /\ 4 * g + s <= 4 * q /\ g \in 0..(q - 1)
        BY <2>1
      <3>2. e[4 * g + s] = w[4 * g + s]
        BY <1>10, <3>1
      <3> QED BY <1>1, <3>1, <3>2, WholeIs
    <2>2. CASE g = q
      <3>1. 4 * g + s \in 1..(4 * q + m) /\ ~(4 * g + s <= 4 * q) /\ (4 * g + s) - 4 * q = s /\ s <= m
        BY <1>11, <2>2
      <3>2. r # 0 /\ s <= r + 1
        BY <1>4, <3>1
      <3>3. e[4 * g + s] = v[s]
        BY <1>10, <3>1
      <3> QED BY <1>2, <2>2, <3>2, <3>3, RemainsIs
    <2> QED BY <2>1, <2>2
  <1> QED BY <1>3, <1>4, <1>10, <1>11

LEMMA Thirds ==
    ASSUME NEW n \in Nat
    PROVE  \E q \in Nat, r \in 0..2 : n = 3 * q + r
  <1>1. PICK q \in Nat, r \in 0..2 : q = n \div 3 /\ r = n % 3
    OBVIOUS
  <1> QED BY <1>1

LEMMA Places24 ==
    ASSUME NEW n \in Nat
    PROVE  \E h \in Nat, v \in 0..3, u \in 0..5 : n = 24 * h + 6 * v + u
  <1>1. PICK h \in Nat, p \in 0..23 : n = 24 * h + p
    <2>1. PICK h \in Nat, p \in 0..23 : h = n \div 24 /\ p = n % 24
      OBVIOUS
    <2> QED BY <2>1
  <1>2. PICK v \in 0..3, u \in 0..5 : p = 6 * v + u
    <2>1. PICK v \in 0..3, u \in 0..5 : v = p \div 6 /\ u = p % 6
      OBVIOUS
    <2> QED BY <2>1
  <1> QED BY <1>1, <1>2

LEMMA Sixths ==
    ASSUME NEW i \in Nat \ {0}, NEW g \in Nat, NEW s \in 1..4, NEW u \in 0..5, i - 1 = 24 * g + 6 * (s - 1) + u
    PROVE  (i - 1) \div 6 = 4 * g + s - 1 /\ (i - 1) % 6 = u
  OBVIOUS

LEMMA Eighths1 ==
    ASSUME NEW k \in Nat, NEW g \in Nat, NEW p \in 0..7, k = 24 * g + p
    PROVE  k \div 8 = 3 * g /\ k % 8 = p
  OBVIOUS

LEMMA Eighths2 ==
    ASSUME NEW k \in Nat, NEW g \in Nat, NEW p \in 8..15, k = 24 * g + p
    PROVE  k \div 8 = 3 * g + 1 /\ k % 8 = p - 8
  OBVIOUS

LEMMA Eighths3 ==
    ASSUME NEW k \in Nat, NEW g \in Nat, NEW p \in 16..23, k = 24 * g + p
    PROVE  k \div 8 = 3 * g + 2 /\ k % 8 = p - 16
  OBVIOUS

LEMMA ByteIs ==
    ASSUME NEW data \in Seq(0..255), NEW k \in Nat \ {0}
    PROVE  ByteAt(data, k) \in 0..255
  <1>1. CASE k <= Len(data)
    <2>1. k \in 1..Len(data)
      BY <1>1
    <2>2. data[k] \in 0..255
      BY <2>1, ElementOfSeq, Zenon
    <2> QED BY <1>1, <2>2 DEF ByteAt
  <1>2. CASE ~(k <= Len(data))
    BY <1>2 DEF ByteAt
  <1> QED BY <1>1, <1>2

LEMMA ZeroBits ==
    ASSUME NEW b \in 1..8
    PROVE  Bit8(0, b) = 0
  BY DEF Bit8, Powers

LEMMA BitsLength ==
    ASSUME NEW n \in Nat, NEW f, f = [i \in 1..n |-> f[i]]
    PROVE  Len(f) = n
  <1>1. f \in [1..n -> {f[i] : i \in 1..n}]
    OBVIOUS
  <1> QED BY <1>1, FunctionIsSeq

LEMMA SamePrefix ==
    ASSUME NEW s, NEW n \in Nat
    PROVE  SubSeq(s, 1, n) = [i \in 1..n |-> s[i]]
  OBVIOUS

\* The bit i of the letters is that of the bytes.
LEMMA BitOfLetters ==
    ASSUME NEW data \in Seq(0..255), NEW i \in Nat \ {0}, i <= 6 * Len(base64url_encode(data))
    PROVE  BitsOf(base64url_encode(data), 6)[i] = Bit8(ByteAt(data, ((i - 1) \div 8) + 1), ((i - 1) % 8) + 1)
  <1>1. PICK q \in Nat, r \in 0..2 : Len(data) = 3 * q + r
    <2>1. PICK n \in Nat : n = Len(data)
      OBVIOUS
    <2>2. \E q \in Nat, r \in 0..2 : n = 3 * q + r
      BY Thirds
    <2> QED BY <2>1, <2>2, Zenon
  <1>2. PICK e : e = base64url_encode(data)
    OBVIOUS
  <1>3. PICK L \in Nat : L = 4 * q + (IF r = 0 THEN 0 ELSE r + 1) /\ L <= 4 * q + 3
    OBVIOUS
  <1>4. /\ Len(e) = L
        /\ \A g \in 0..q, s \in 1..4 : 4 * g + s <= L => e[4 * g + s] = Group(data, g)[s]
    BY <1>1, <1>2, <1>3, Encoded, ZenonT(40)
  <1>5. i <= 6 * L
    BY <1>2, <1>4
  <1>6. PICK g \in 0..q, s \in 1..4, u \in 0..5 : i - 1 = 24 * g + 6 * (s - 1) + u /\ 4 * g + s <= L
    <2>1. PICK h \in Nat, v \in 0..3, u \in 0..5 : i - 1 = 24 * h + 6 * v + u
      <3>1. PICK k \in Nat : k = i - 1
        OBVIOUS
      <3> QED BY <3>1, Places24, Zenon
    <2>2. 4 * h + v + 1 <= L
      BY <1>5, <2>1
    <2>3. h \in 0..q
      BY <1>3, <2>2
    <2>4. v + 1 \in 1..4 /\ (v + 1) - 1 = v /\ 4 * h + (v + 1) = 4 * h + v + 1
      OBVIOUS
    <2> QED BY <2>1, <2>2, <2>3, <2>4
  <1>7. PICK p \in 0..23 : p = 6 * (s - 1) + u
    OBVIOUS
  <1>8. i - 1 = 24 * g + p /\ i - 1 \in Nat
    BY <1>6, <1>7
  <1>9. /\ (i - 1) \div 6 = 4 * g + s - 1 /\ (i - 1) % 6 = u
    <2>1. g \in Nat
      OBVIOUS
    <2> QED BY <1>6, <2>1, Sixths, Zenon
  <1>10. BitsOf(e, 6)[i] = Bit8(e[4 * g + s], u + 3)
    <2>1. i \in 1..(6 * Len(e))
      BY <1>4, <1>5
    <2>2. BitsOf(e, 6)[i] = (e[((i - 1) \div 6) + 1] \div Powers[(9 - 6) + ((i - 1) % 6)]) % 2
      BY <2>1 DEF BitsOf
    <2>3. ((i - 1) \div 6) + 1 = 4 * g + s /\ (9 - 6) + ((i - 1) % 6) = u + 3
      BY <1>9
    <2> QED BY <2>2, <2>3, Zenon DEF Bit8
  <1>11. PICK x, y, z : /\ x = ByteAt(data, 3 * g + 1) /\ y = ByteAt(data, 3 * g + 2) /\ z = ByteAt(data, 3 * g + 3)
    OBVIOUS
  <1>12. x \in 0..255 /\ y \in 0..255 /\ z \in 0..255
    <2>1. 3 * g + 1 \in Nat \ {0} /\ 3 * g + 2 \in Nat \ {0} /\ 3 * g + 3 \in Nat \ {0}
      OBVIOUS
    <2> QED BY <1>11, <2>1, ByteIs, Zenon
  <1>13. PICK v : v = FourOf(x, y, z)[s]
    OBVIOUS
  <1>14. e[4 * g + s] = v
    BY <1>4, <1>6, <1>11, <1>13, Zenon DEF Group
  <1>15. /\ p < 8 => Bit8(v, u + 3) = Bit8(x, p + 1)
         /\ p >= 8 /\ p < 16 => Bit8(v, u + 3) = Bit8(y, p - 7)
         /\ p >= 16 => Bit8(v, u + 3) = Bit8(z, p - 15)
    <2>1. OneOfThree(v, u, p, x, y, z)
      BY <1>7, <1>12, <1>13, BitsOfGroup, Zenon
    <2> QED BY <2>1, Zenon DEF OneOfThree
  <1>16. PICK k : k = i - 1
    OBVIOUS
  <1>17. CASE p < 8
    <2>1. k \div 8 = 3 * g /\ k % 8 = p
      <3>1. k = 24 * g + p /\ k \in Nat /\ g \in Nat
        BY <1>8, <1>16
      <3>2. p \in 0..7
        BY <1>17
      <3> QED BY <3>1, <3>2, Eighths1, Zenon
    <2>2. (k \div 8) + 1 = 3 * g + 1 /\ (k % 8) + 1 = p + 1
      BY <2>1
    <2> QED BY <1>2, <1>10, <1>11, <1>14, <1>15, <1>16, <1>17, <2>2, Zenon
  <1>18. CASE p >= 8 /\ p < 16
    <2>1. k \div 8 = 3 * g + 1 /\ k % 8 = p - 8
      <3>1. k = 24 * g + p /\ k \in Nat /\ g \in Nat
        BY <1>8, <1>16
      <3>2. p \in 8..15
        BY <1>18
      <3> QED BY <3>1, <3>2, Eighths2
    <2>2. (k \div 8) + 1 = 3 * g + 2 /\ (k % 8) + 1 = p - 7
      BY <2>1
    <2> QED BY <1>2, <1>10, <1>11, <1>14, <1>15, <1>16, <1>18, <2>2, Zenon
  <1>19. CASE p >= 16
    <2>1. k \div 8 = 3 * g + 2 /\ k % 8 = p - 16
      <3>1. k = 24 * g + p /\ k \in Nat /\ g \in Nat
        BY <1>8, <1>16
      <3>2. p \in 16..23
        BY <1>19
      <3> QED BY <3>1, <3>2, Eighths3
    <2>2. (k \div 8) + 1 = 3 * g + 3 /\ (k % 8) + 1 = p - 15
      BY <2>1
    <2> QED BY <1>2, <1>10, <1>11, <1>14, <1>15, <1>16, <1>19, <2>2, Zenon
  <1> QED BY <1>17, <1>18, <1>19

LEMMA BitsAreKept == BitsKept
  <1> SUFFICES ASSUME NEW data \in ByteTexts
               PROVE  LET from == BitsOf(data, 8) to == BitsOf(base64url_encode(data), 6) IN
                      /\ Len(to) - Len(from) \in 0..5
                      /\ SubSeq(to, 1, Len(from)) = from
                      /\ \A i \in (Len(from) + 1)..Len(to) : to[i] = 0
    BY Zenon DEF BitsKept
  <1>1. data \in Seq(0..255)
    BY ByteTextsAssumption
  <1>2. PICK n \in Nat : n = Len(data)
    BY <1>1
  <1>3. PICK e : e = base64url_encode(data)
    OBVIOUS
  <1>4. PICK L \in Nat : L = Len(e) /\ 6 * L - 8 * n \in 0..5
    <2>1. PICK q \in Nat, r \in 0..2 : n = 3 * q + r
      BY Thirds
    <2>2. Len(e) = 4 * q + (IF r = 0 THEN 0 ELSE r + 1)
      BY <1>1, <1>2, <1>3, <2>1, Encoded, Zenon
    <2> QED BY <2>1, <2>2
  <1>5. PICK from : from = BitsOf(data, 8)
    OBVIOUS
  <1>6. PICK to : to = BitsOf(e, 6)
    OBVIOUS
  <1>7. /\ Len(from) = 8 * n /\ from = [i \in 1..(8 * n) |-> from[i]]
        /\ \A i \in 1..(8 * n) : from[i] = Bit8(data[((i - 1) \div 8) + 1], (9 - 8) + ((i - 1) % 8))
    <2>1. from = [i \in 1..(8 * n) |-> Bit8(data[((i - 1) \div 8) + 1], (9 - 8) + ((i - 1) % 8))]
      BY <1>2, <1>5, Zenon DEF BitsOf, Bit8
    <2> QED BY <2>1, BitsLength
  <1>8. Len(to) = 6 * L
    <2>1. PICK f : f = [i \in 1..(6 * L) |-> Bit8(e[((i - 1) \div 6) + 1], (9 - 6) + ((i - 1) % 6))]
      OBVIOUS
    <2>2. to = f
      BY <1>4, <1>6, <2>1, Zenon DEF BitsOf, Bit8
    <2> QED BY <2>1, <2>2, BitsLength
  <1>9. ASSUME NEW i \in 1..(8 * n) PROVE to[i] = from[i]
    <2>1. i \in Nat \ {0} /\ i <= 6 * L
      BY <1>4
    <2>2. to[i] = Bit8(ByteAt(data, ((i - 1) \div 8) + 1), ((i - 1) % 8) + 1)
      BY <1>1, <1>3, <1>4, <1>6, <2>1, BitOfLetters, Zenon
    <2>3. PICK k \in Nat : k = i - 1
      OBVIOUS
    <2>4. (k \div 8) + 1 <= n
      BY <2>3
    <2>5. ByteAt(data, (k \div 8) + 1) = data[(k \div 8) + 1]
      BY <1>2, <2>4, Zenon DEF ByteAt
    <2>6. (9 - 8) + (k % 8) = (k % 8) + 1
      OBVIOUS
    <2> QED BY <1>7, <2>2, <2>3, <2>5, <2>6, Zenon
  <1>10. ASSUME NEW i \in (8 * n + 1)..(6 * L) PROVE to[i] = 0
    <2>1. i \in Nat \ {0} /\ i <= 6 * L
      BY <1>4
    <2>2. to[i] = Bit8(ByteAt(data, ((i - 1) \div 8) + 1), ((i - 1) % 8) + 1)
      BY <1>1, <1>3, <1>4, <1>6, <2>1, BitOfLetters, Zenon
    <2>3. PICK k \in Nat : k = i - 1 /\ k >= 8 * n
      OBVIOUS
    <2>4. ~((k \div 8) + 1 <= n)
      BY <2>3
    <2>5. ByteAt(data, (k \div 8) + 1) = 0
      BY <1>2, <2>4, Zenon DEF ByteAt
    <2>6. PICK b \in 1..8 : b = (k % 8) + 1
      BY <2>3
    <2>7. Bit8(0, b) = 0
      BY BitIs, <2>6, ZeroBits
    <2> QED BY <2>2, <2>3, <2>5, <2>6, <2>7, Zenon
  <1>11. SubSeq(to, 1, 8 * n) = from
    <2>1. SubSeq(to, 1, 8 * n) = [i \in 1..(8 * n) |-> to[i]]
      BY SamePrefix
    <2> QED BY <1>7, <1>9, <2>1
  <1> QED BY <1>3, <1>4, <1>5, <1>6, <1>7, <1>8, <1>10, <1>11

-----------------------------------------------------------------------------
(* CSV                                                                       *)

\* The machine that has read some fields and a part of the next one.
CsvAt(state, g, x) == [state |-> state, fields |-> Append(g, x)]
CsvStates == {"UnquotedField", "QuotedField", "QuotedQuote"}
CsvMachines == {CsvAt(state, g, x) : state \in CsvStates, g \in Seq(Seq(Characters)), x \in Seq(Characters)}

LEMMA CsvSigns == Comma \in Characters /\ Quote \in Characters /\ Comma # Quote
  BY CharactersAssumption DEF Comma, Quote

LEMMA CsvTurns ==
    ASSUME NEW state, NEW to, NEW f
    PROVE  [[state |-> state, fields |-> f] EXCEPT !.state = to] = [state |-> to, fields |-> f]
  OBVIOUS

LEMMA AddIs ==
    ASSUME NEW state, NEW g \in Seq(Seq(Characters)), NEW x \in Seq(Characters), NEW c \in Characters
    PROVE  Add(CsvAt(state, g, x), c) = CsvAt(state, g, Append(x, c))
  <1>1. PICK X : X = Seq(Characters)
    OBVIOUS
  <1>2. PICK y : y = Append(x, c)
    OBVIOUS
  <1>3. g \in Seq(X) /\ x \in X /\ y \in X
    BY <1>1, <1>2
  <1>4. PICK f : f = Append(g, x)
    OBVIOUS
  <1>5. PICK n \in Nat : n = Len(g)
    BY <1>3
  <1>6. f \in Seq(X) /\ Len(f) = n + 1 /\ f[n + 1] = x /\ \A j \in 1..n : f[j] = g[j]
    BY <1>3, <1>4, <1>5, AppendProperties
  <1>7. [f EXCEPT ![n + 1] = y] = Append(g, y)
    <2>1. PICK e : e = Append(g, y)
      OBVIOUS
    <2>2. e \in Seq(X) /\ Len(e) = n + 1 /\ e[n + 1] = y /\ \A j \in 1..n : e[j] = g[j]
      BY <1>3, <1>5, <2>1, AppendProperties
    <2>3. PICK d : d = [f EXCEPT ![n + 1] = y]
      OBVIOUS
    <2>4. DOMAIN f = 1..(n + 1) /\ DOMAIN e = 1..(n + 1)
      BY <1>6, <2>2
    <2>5. d \in [1..(n + 1) -> X] /\ e \in [1..(n + 1) -> X]
      BY <1>3, <1>6, <2>2, <2>3, <2>4
    <2>6. ASSUME NEW j \in 1..(n + 1) PROVE d[j] = e[j]
      <3>1. CASE j = n + 1
        BY <1>6, <2>2, <2>3, <2>4, <3>1
      <3>2. CASE j # n + 1
        <4>1. j \in 1..n
          BY <3>2
        <4> QED BY <1>6, <2>2, <2>3, <2>4, <3>2, <4>1
      <3> QED BY <3>1, <3>2
    <2>7. d = e
      BY <2>5, <2>6
    <2> QED BY <2>1, <2>3, <2>7
  <1>8. PICK m : m = CsvAt(state, g, x)
    OBVIOUS
  <1>9. m = [state |-> state, fields |-> f]
    BY <1>4, <1>8, Zenon DEF CsvAt
  <1>10. Add(m, c) = [m EXCEPT !.fields[Len(m.fields)] = Append(m.fields[Len(m.fields)], c)]
    BY Zenon DEF Add
  <1>11. m.fields = f /\ Len(m.fields) = n + 1 /\ Append(m.fields[Len(m.fields)], c) = y
    BY <1>2, <1>6, <1>9
  <1>12. Add(m, c) = [state |-> state, fields |-> [f EXCEPT ![n + 1] = y]]
    BY <1>9, <1>10, <1>11
  <1> QED BY <1>2, <1>7, <1>8, <1>12, Zenon DEF CsvAt

\* One character, whatever the machine has read.
LEMMA CsvMoves ==
    ASSUME NEW state, NEW to, NEW g, NEW x, NEW m, m = CsvAt(state, g, x)
    PROVE  [m EXCEPT !.state = to] = CsvAt(to, g, x)
  <1>1. PICK f : f = Append(g, x)
    OBVIOUS
  <1>2. CsvAt(state, g, x) = [state |-> state, fields |-> f] /\ CsvAt(to, g, x) = [state |-> to, fields |-> f]
    BY <1>1, Zenon DEF CsvAt
  <1>3. m = [state |-> state, fields |-> f]
    BY <1>2
  <1>4. [m EXCEPT !.state = to] = [state |-> to, fields |-> f]
    BY <1>3
  <1> QED BY <1>2, <1>4, Zenon

LEMMA NewFieldIs ==
    ASSUME NEW state, NEW g, NEW x
    PROVE  NewField(CsvAt(state, g, x)) = CsvAt("UnquotedField", Append(g, x), <<>>)
  <1>1. PICK f : f = Append(g, x)
    OBVIOUS
  <1>2. PICK m : m = [state |-> state, fields |-> f]
    OBVIOUS
  <1>3. m.fields = f
    BY <1>2
  <1> QED BY <1>1, <1>2, <1>3, Zenon DEF CsvAt, NewField

LEMMA Unquoted ==
    ASSUME NEW m, NEW c, m.state = "UnquotedField"
    PROVE  /\ c = Comma => CSVStep(m, c) = NewField(m)
           /\ c = Quote => CSVStep(m, c) = [m EXCEPT !.state = "QuotedField"]
           /\ c \notin {Comma, Quote} => CSVStep(m, c) = Add(m, c)
  BY CsvSigns DEF CSVStep

LEMMA Quoted ==
    ASSUME NEW m, NEW c, m.state = "QuotedField"
    PROVE  /\ c = Quote => CSVStep(m, c) = [m EXCEPT !.state = "QuotedQuote"]
           /\ c # Quote => CSVStep(m, c) = Add(m, c)
  BY CsvSigns DEF CSVStep

LEMMA AfterQuote ==
    ASSUME NEW m, NEW c, m.state = "QuotedQuote"
    PROVE  /\ c = Comma => CSVStep(m, c) = NewField(m)
           /\ c = Quote => CSVStep(m, c) = [Add(m, c) EXCEPT !.state = "QuotedField"]
           /\ c \notin {Comma, Quote} => CSVStep(m, c) = [m EXCEPT !.state = "UnquotedField"]
  BY CsvSigns DEF CSVStep

LEMMA StateOf == ASSUME NEW state, NEW g, NEW x PROVE CsvAt(state, g, x).state = state
  <1>1. PICK f : f = Append(g, x)
    OBVIOUS
  <1>2. CsvAt(state, g, x) = [state |-> state, fields |-> f]
    BY <1>1, Zenon DEF CsvAt
  <1> QED BY <1>2

LEMMA CSVStepIs ==
    ASSUME NEW g \in Seq(Seq(Characters)), NEW x \in Seq(Characters), NEW c \in Characters
    PROVE  /\ c = Comma => CSVStep(CsvAt("UnquotedField", g, x), c) = CsvAt("UnquotedField", Append(g, x), <<>>)
           /\ c = Quote => CSVStep(CsvAt("UnquotedField", g, x), c) = CsvAt("QuotedField", g, x)
           /\ c \notin {Comma, Quote} => CSVStep(CsvAt("UnquotedField", g, x), c) = CsvAt("UnquotedField", g, Append(x, c))
           /\ c = Quote => CSVStep(CsvAt("QuotedField", g, x), c) = CsvAt("QuotedQuote", g, x)
           /\ c # Quote => CSVStep(CsvAt("QuotedField", g, x), c) = CsvAt("QuotedField", g, Append(x, c))
           /\ c = Comma => CSVStep(CsvAt("QuotedQuote", g, x), c) = CsvAt("UnquotedField", Append(g, x), <<>>)
           /\ c = Quote => CSVStep(CsvAt("QuotedQuote", g, x), c) = CsvAt("QuotedField", g, Append(x, c))
           /\ c \notin {Comma, Quote} => CSVStep(CsvAt("QuotedQuote", g, x), c) = CsvAt("UnquotedField", g, x)
  <1>1. ASSUME NEW state PROVE Add(CsvAt(state, g, x), c) = CsvAt(state, g, Append(x, c))
    BY AddIs, Zenon
  <1>2. PICK u : u = CsvAt("UnquotedField", g, x)
    OBVIOUS
  <1>3. PICK q : q = CsvAt("QuotedField", g, x)
    OBVIOUS
  <1>4. PICK r : r = CsvAt("QuotedQuote", g, x)
    OBVIOUS
  <1>5. u.state = "UnquotedField" /\ q.state = "QuotedField" /\ r.state = "QuotedQuote"
    BY <1>2, <1>3, <1>4, StateOf, Zenon
  <1>6. c = Comma => CSVStep(u, c) = CsvAt("UnquotedField", Append(g, x), <<>>)
    <2>1. c = Comma => CSVStep(u, c) = NewField(u)
      BY <1>5, Unquoted
    <2>2. NewField(u) = CsvAt("UnquotedField", Append(g, x), <<>>)
      BY <1>2, NewFieldIs, Zenon
    <2> QED BY <2>1, <2>2, Zenon
  <1>7. c = Quote => CSVStep(u, c) = CsvAt("QuotedField", g, x)
    <2>1. c = Quote => CSVStep(u, c) = [u EXCEPT !.state = "QuotedField"]
      BY <1>5, Unquoted
    <2>2. [u EXCEPT !.state = "QuotedField"] = CsvAt("QuotedField", g, x)
      BY <1>2, CsvMoves
    <2> QED BY <2>1, <2>2, Zenon
  <1>8. c \notin {Comma, Quote} => CSVStep(u, c) = CsvAt("UnquotedField", g, Append(x, c))
    <2>1. c \notin {Comma, Quote} => CSVStep(u, c) = Add(u, c)
      BY <1>5, Unquoted
    <2>2. Add(u, c) = CsvAt("UnquotedField", g, Append(x, c))
      BY <1>1, <1>2, Zenon
    <2> QED BY <2>1, <2>2, Zenon
  <1>9. c = Quote => CSVStep(q, c) = CsvAt("QuotedQuote", g, x)
    <2>1. c = Quote => CSVStep(q, c) = [q EXCEPT !.state = "QuotedQuote"]
      BY <1>5, Quoted
    <2>2. [q EXCEPT !.state = "QuotedQuote"] = CsvAt("QuotedQuote", g, x)
      BY <1>3, CsvMoves
    <2> QED BY <2>1, <2>2, Zenon
  <1>10. c # Quote => CSVStep(q, c) = CsvAt("QuotedField", g, Append(x, c))
    <2>1. c # Quote => CSVStep(q, c) = Add(q, c)
      BY <1>5, Quoted
    <2>2. Add(q, c) = CsvAt("QuotedField", g, Append(x, c))
      BY <1>1, <1>3, Zenon
    <2> QED BY <2>1, <2>2, Zenon
  <1>11. c = Comma => CSVStep(r, c) = CsvAt("UnquotedField", Append(g, x), <<>>)
    <2>1. c = Comma => CSVStep(r, c) = NewField(r)
      BY <1>5, AfterQuote
    <2>2. NewField(r) = CsvAt("UnquotedField", Append(g, x), <<>>)
      BY <1>4, NewFieldIs, Zenon
    <2> QED BY <2>1, <2>2, Zenon
  <1>12. c = Quote => CSVStep(r, c) = CsvAt("QuotedField", g, Append(x, c))
    <2>1. c = Quote => CSVStep(r, c) = [Add(r, c) EXCEPT !.state = "QuotedField"]
      BY <1>5, AfterQuote
    <2>2. Add(r, c) = CsvAt("QuotedQuote", g, Append(x, c))
      BY <1>1, <1>4, Zenon
    <2>3. PICK a : a = Add(r, c)
      OBVIOUS
    <2>4. [a EXCEPT !.state = "QuotedField"] = CsvAt("QuotedField", g, Append(x, c))
      BY <2>2, <2>3, CsvMoves
    <2> QED BY <2>1, <2>3, <2>4
  <1>13. c \notin {Comma, Quote} => CSVStep(r, c) = CsvAt("UnquotedField", g, x)
    <2>1. c \notin {Comma, Quote} => CSVStep(r, c) = [r EXCEPT !.state = "UnquotedField"]
      BY <1>5, AfterQuote
    <2>2. [r EXCEPT !.state = "UnquotedField"] = CsvAt("UnquotedField", g, x)
      BY <1>4, CsvMoves
    <2> QED BY <2>1, <2>2, Zenon
  <1> QED BY <1>2, <1>3, <1>4, <1>6, <1>7, <1>8, <1>9, <1>10, <1>11, <1>12, <1>13, Zenon

LEMMA CSVStepBegins ==
    /\ CSVStart \in CsvMachines /\ CSVStart = CsvAt("UnquotedField", <<>>, <<>>)
  <1>1. CSVStart = CsvAt("UnquotedField", <<>>, <<>>)
    <2>1. Append(<<>>, <<>>) = << <<>> >>
      OBVIOUS
    <2> QED BY <2>1, Zenon DEF CSVStart, CsvAt
  <1>2. <<>> \in Seq(Seq(Characters)) /\ <<>> \in Seq(Characters) /\ "UnquotedField" \in CsvStates
    BY DEF CsvStates
  <1>3. CsvAt("UnquotedField", <<>>, <<>>) \in CsvMachines
    <2>1. PICK state : state = "UnquotedField"
      OBVIOUS
    <2>2. state \in CsvStates
      BY <1>2, <2>1
    <2>3. PICK e \in Seq(Characters), g \in Seq(Seq(Characters)) : e = <<>> /\ g = <<>>
      BY <1>2
    <2>4. CsvAt(state, g, e) \in CsvMachines
      BY <2>2 DEF CsvMachines
    <2> QED BY <2>1, <2>3, <2>4, Zenon
  <1> QED BY <1>1, <1>3, Zenon

LEMMA CSVStepType ==
    ASSUME NEW m \in CsvMachines, NEW c \in Characters
    PROVE  CSVStep(m, c) \in CsvMachines
  <1>1. PICK state \in CsvStates, g \in Seq(Seq(Characters)), x \in Seq(Characters) : m = CsvAt(state, g, x)
    BY DEF CsvMachines
  <1>2. Append(g, x) \in Seq(Seq(Characters)) /\ Append(x, c) \in Seq(Characters) /\ <<>> \in Seq(Characters)
    <2>1. PICK T : T = Seq(Characters)
      OBVIOUS
    <2>2. g \in Seq(T) /\ x \in T
      BY <2>1
    <2>3. Append(g, x) \in Seq(T)
      BY <2>2
    <2> QED BY <2>1, <2>3
  <1>3. \E state2 \in CsvStates, g2 \in {g, Append(g, x)}, x2 \in {<<>>, x, Append(x, c)} :
           CSVStep(m, c) = CsvAt(state2, g2, x2)
    <2>1. "UnquotedField" \in CsvStates /\ "QuotedField" \in CsvStates /\ "QuotedQuote" \in CsvStates
      BY DEF CsvStates
    <2>2. c = Comma \/ c = Quote \/ c \notin {Comma, Quote}
      OBVIOUS
    <2>3. CASE m = CsvAt("UnquotedField", g, x)
      BY <2>1, <2>2, <2>3, CSVStepIs
    <2>4. CASE m = CsvAt("QuotedField", g, x)
      BY <2>1, <2>2, <2>4, CSVStepIs
    <2>5. CASE m = CsvAt("QuotedQuote", g, x)
      BY <2>1, <2>2, <2>5, CSVStepIs
    <2> QED BY <1>1, <2>3, <2>4, <2>5 DEF CsvStates
  <1>4. PICK state2 \in CsvStates, g2 \in {g, Append(g, x)}, x2 \in {<<>>, x, Append(x, c)} :
           CSVStep(m, c) = CsvAt(state2, g2, x2)
    BY <1>3
  <1>5. g2 \in Seq(Seq(Characters)) /\ x2 \in Seq(Characters)
    BY <1>2
  <1> QED BY <1>4, <1>5 DEF CsvMachines

\* The machine after each of the characters.
Reads(f, s) ==
    /\ f \in [0..Len(s) -> CsvMachines] /\ f[0] = CSVStart
    /\ \A j \in 1..Len(s) : f[j] = CSVStep(f[j - 1], s[j])

LEMMA ReadIs ==
    ASSUME NEW s \in Seq(Characters)
    PROVE  \E f : Reads(f, s) /\ readCSVRow(s) = f[Len(s)].fields
  <1>1. PICK n \in Nat : n = Len(s)
    OBVIOUS
  <1>2. \A j \in 1..n : s[j] \in Characters
    BY <1>1, ElementOfSeq, Zenon
  <1>3. PICK G : G = [x \in (1..n) \X CsvMachines |-> CSVStep(x[2], s[x[1]])]
    OBVIOUS
  <1>4. G \in [(1..n) \X CsvMachines -> CsvMachines]
    <2>1. ASSUME NEW x \in (1..n) \X CsvMachines PROVE CSVStep(x[2], s[x[1]]) \in CsvMachines
      <3>1. x[1] \in 1..n /\ x[2] \in CsvMachines
        OBVIOUS
      <3> QED BY <1>2, <3>1, CSVStepType, Zenon
    <2> QED BY <1>3, <2>1
  <1>5. PICK f : Steps(f, n, CsvMachines, CSVStart, G)
    <2>1. CSVStart \in CsvMachines
      BY CSVStepBegins
    <2> QED BY <1>4, <2>1, Recursion, Zenon
  <1>6. f \in [0..n -> CsvMachines] /\ f[0] = CSVStart /\ \A j \in 1..n : f[j] = CSVStep(f[j - 1], s[j])
    <2>1. f \in [0..n -> CsvMachines] /\ f[0] = CSVStart /\ \A j \in 1..n : f[j] = G[<<j, f[j - 1]>>]
      BY <1>5, Zenon DEF Steps
    <2>2. ASSUME NEW j \in 1..n PROVE G[<<j, f[j - 1]>>] = CSVStep(f[j - 1], s[j])
      <3>1. j - 1 \in 0..n
        OBVIOUS
      <3>2. f[j - 1] \in CsvMachines
        BY <2>1, <3>1
      <3> QED BY <1>3, <3>2
    <2> QED BY <2>1, <2>2
  <1> DEFINE Is(g) == g = [j \in 0..n |-> IF j = 0 THEN CSVStart ELSE CSVStep(g[j - 1], s[j])]
             g_ == CHOOSE g : Is(g)
  <1>7. Is(f)
    <2>1. \A j \in 0..n : f[j] = IF j = 0 THEN CSVStart ELSE CSVStep(f[j - 1], s[j])
      <3>1. \A j \in 0..n : j # 0 => j \in 1..n
        OBVIOUS
      <3> QED BY <1>6, <3>1, Zenon
    <2>2. f = [j \in 0..n |-> f[j]]
      BY <1>6
    <2> QED BY <2>1, <2>2
  <1>8. Is(g_)
    BY <1>7
  <1>9. readCSVRow(s) = g_[n].fields
    BY <1>1, Zenon DEF readCSVRow
  <1>10. \A j \in 0..n : g_[j] = IF j = 0 THEN CSVStart ELSE CSVStep(g_[j - 1], s[j])
    <2>1. PICK g : g = g_
      OBVIOUS
    <2>2. g = [j \in 0..n |-> IF j = 0 THEN CSVStart ELSE CSVStep(g[j - 1], s[j])]
      BY <1>8, <2>1
    <2> HIDE DEF g_
    <2>3. \A j \in 0..n : g[j] = IF j = 0 THEN CSVStart ELSE CSVStep(g[j - 1], s[j])
      BY <2>2
    <2> QED BY <2>1, <2>3
  <1> HIDE DEF g_, Is
  <1> DEFINE P == {k \in Nat : k <= n => g_[k] = f[k]}
  <1>11. 0 \in P
    <2>1. 0 \in 0..n
      OBVIOUS
    <2>2. g_[0] = CSVStart
      BY <1>10, <2>1, Zenon
    <2> QED BY <1>6, <2>2
  <1>12. ASSUME NEW k \in Nat, k \in P PROVE k + 1 \in P
    <2> SUFFICES ASSUME k + 1 <= n PROVE g_[k + 1] = f[k + 1]
      OBVIOUS
    <2>1. g_[k] = f[k]
      BY <1>12
    <2>2. k + 1 \in 1..n /\ k + 1 \in 0..n /\ k + 1 # 0 /\ (k + 1) - 1 = k
      OBVIOUS
    <2>3. f[k + 1] = CSVStep(f[k], s[k + 1])
      BY <1>6, <2>2, Zenon
    <2>4. g_[k + 1] = CSVStep(g_[k], s[k + 1])
      BY <1>10, <2>2, Zenon
    <2> QED BY <2>1, <2>3, <2>4, Zenon
  <1>13. n \in P
    <2> HIDE DEF P
    <2> QED BY <1>11, <1>12, Induction
  <1>14. g_[n] = f[n]
    BY <1>13
  <1> QED BY <1>1, <1>6, <1>9, <1>14, Zenon DEF Reads

\* The first members of a sequence, and the next one.
LEMMA Prefix ==
    ASSUME NEW S, NEW x \in Seq(S), NEW k \in Nat, k <= Len(x)
    PROVE  SubSeq(x, 1, k) \in Seq(S)
  <1>1. \A i \in 1..k : x[i] \in S
    OBVIOUS
  <1> QED BY <1>1, SubSeqProperties

LEMMA NextPrefix ==
    ASSUME NEW S, NEW x \in Seq(S), NEW k \in Nat, k + 1 <= Len(x)
    PROVE  SubSeq(x, 1, k + 1) = Append(SubSeq(x, 1, k), x[k + 1])
  <1>1. 1 \in 1..Len(x) /\ k + 1 \in 1..Len(x) /\ (k + 1) - 1 = k /\ k <= Len(x)
    OBVIOUS
  <1>2. SubSeq(x, 1, k + 1) = SubSeq(x, 1, (k + 1) - 1) \o <<x[k + 1]>>
    BY <1>1, SubSeqRecursiveSecond
  <1>3. PICK p \in Seq(S) : p = SubSeq(x, 1, k)
    <2>1. SubSeq(x, 1, k) \in Seq(S)
      BY <1>1, Prefix
    <2> QED BY <2>1
  <1>4. p \o <<x[k + 1]>> = Append(p, x[k + 1])
    BY <1>1, AppendIsConcat
  <1> QED BY <1>1, <1>2, <1>3, <1>4

\* One sequence stands in another from a place on.
Stands(r, o, w) == o + Len(w) <= Len(r) /\ \A k \in 1..Len(w) : r[o + k] = w[k]

\* The machine at the next character.
LEMMA NextRead ==
    ASSUME NEW r \in Seq(Characters), NEW A, Reads(A, r), NEW p \in Nat, p + 1 <= Len(r)
    PROVE  A[p + 1] = CSVStep(A[p], r[p + 1]) /\ r[p + 1] \in Characters
  <1>1. p + 1 \in 1..Len(r) /\ (p + 1) - 1 = p
    OBVIOUS
  <1>2. A[p + 1] = CSVStep(A[(p + 1) - 1], r[p + 1])
    BY <1>1, Zenon DEF Reads
  <1> QED BY <1>1, <1>2, ElementOfSeq

\* A field of neither commas nor quotes.
LEMMA PlainRead ==
    ASSUME NEW r \in Seq(Characters), NEW A, Reads(A, r), NEW o \in Nat,
           NEW g \in Seq(Seq(Characters)), NEW x \in Seq(Characters),
           A[o] = CsvAt("UnquotedField", g, <<>>), Stands(r, o, x),
           \A i \in 1..Len(x) : x[i] \notin {Comma, Quote}
    PROVE  A[o + Len(x)] = CsvAt("UnquotedField", g, x)
  <1>1. PICK n \in Nat : n = Len(x)
    OBVIOUS
  <1> DEFINE P == {k \in Nat : k <= n => A[o + k] = CsvAt("UnquotedField", g, SubSeq(x, 1, k))}
  <1>2. 0 \in P
    <2>1. o + 0 = o
      OBVIOUS
    <2>2. SubSeq(x, 1, 0) = <<>>
      BY SubSeqEmpty
    <2>3. A[o + 0] = CsvAt("UnquotedField", g, SubSeq(x, 1, 0))
      BY <2>1, <2>2
    <2> QED BY <2>3
  <1>3. ASSUME NEW k \in Nat, k \in P PROVE k + 1 \in P
    <2> SUFFICES ASSUME k + 1 <= n PROVE A[o + (k + 1)] = CsvAt("UnquotedField", g, SubSeq(x, 1, k + 1))
      OBVIOUS
    <2>1. A[o + k] = CsvAt("UnquotedField", g, SubSeq(x, 1, k))
      BY <1>3
    <2>2. o + k \in Nat /\ o + (k + 1) = (o + k) + 1 /\ (o + k) + 1 <= Len(r) /\ k + 1 \in 1..Len(x) /\ k + 1 <= Len(x) /\ k <= Len(x)
      BY <1>1 DEF Stands
    <2>3. PICK c : c = x[k + 1]
      OBVIOUS
    <2>4. r[(o + k) + 1] = c /\ c \notin {Comma, Quote}
      BY <2>2, <2>3 DEF Stands
    <2>5. A[(o + k) + 1] = CSVStep(A[o + k], c) /\ c \in Characters
      BY <2>2, <2>4, NextRead
    <2>6. PICK p \in Seq(Characters) : p = SubSeq(x, 1, k)
      <3>1. SubSeq(x, 1, k) \in Seq(Characters)
        BY <2>2, Prefix
      <3> QED BY <3>1
    <2>7. SubSeq(x, 1, k + 1) = Append(p, c)
      <3>1. SubSeq(x, 1, k + 1) = Append(SubSeq(x, 1, k), x[k + 1])
        BY <2>2, NextPrefix
      <3> QED BY <2>3, <2>6, <3>1, Zenon
    <2>8. CSVStep(CsvAt("UnquotedField", g, p), c) = CsvAt("UnquotedField", g, Append(p, c))
      BY <2>4, <2>5, CSVStepIs, Zenon
    <2> QED BY <2>1, <2>2, <2>5, <2>6, <2>7, <2>8, Zenon
  <1>4. n \in P
    <2> HIDE DEF P
    <2> QED BY <1>2, <1>3, Induction
  <1>5. A[o + n] = CsvAt("UnquotedField", g, SubSeq(x, 1, n))
    BY <1>4
  <1>6. SubSeq(x, 1, n) = x
    BY <1>1, SubSeqFull
  <1> QED BY <1>1, <1>5, <1>6, Zenon

\* The characters of a field, each quote twice.
Twice(x) == [i \in 1..Len(x) |-> IF x[i] = Quote THEN <<Quote, Quote>> ELSE <<x[i]>>]

LEMMA TwiceIs ==
    ASSUME NEW x \in Seq(Characters)
    PROVE  Twice(x) \in Seq(Seq(Characters)) /\ Len(Twice(x)) = Len(x)
  <1>1. PICK n \in Nat : n = Len(x)
    OBVIOUS
  <1>2. ASSUME NEW i \in 1..n PROVE (IF x[i] = Quote THEN <<Quote, Quote>> ELSE <<x[i]>>) \in Seq(Characters)
    <2>1. x[i] \in Characters /\ Quote \in Characters
      BY <1>1, CsvSigns
    <2> QED BY <2>1
  <1>3. [i \in 1..n |-> IF x[i] = Quote THEN <<Quote, Quote>> ELSE <<x[i]>>] \in [1..n -> Seq(Characters)]
    BY <1>2
  <1> QED BY <1>1, <1>3, FunctionIsSeq DEF Twice

\* A field between quotes, each of its own quotes twice.
LEMMA QuotedRead ==
    ASSUME NEW r \in Seq(Characters), NEW A, Reads(A, r), NEW o \in Nat,
           NEW g \in Seq(Seq(Characters)), NEW x \in Seq(Characters), NEW d,
           A[o] = CsvAt("UnquotedField", g, <<>>), d = Doubled(x), d \in Seq(Characters),
           o + Len(d) + 2 <= Len(r), r[o + 1] = Quote, r[o + Len(d) + 2] = Quote,
           Stands(r, o + 1, d)
    PROVE  A[o + Len(d) + 2] = CsvAt("QuotedQuote", g, x)
  <1>1. PICK n \in Nat : n = Len(x)
    OBVIOUS
  <1>2. PICK s : s = Twice(x)
    OBVIOUS
  <1>3. s \in Seq(Seq(Characters)) /\ Len(s) = n
    BY <1>1, <1>2, TwiceIs
  <1>4. PICK F : Joints(F, s, Characters) /\ d = F[n]
    <2>1. d = FlattenSeq(s)
      BY <1>2, Zenon DEF Doubled, Twice
    <2> QED BY <1>3, <2>1, Flattened
  <1>5. Placed(F, s)
    BY <1>3, <1>4, JoinsPlaced
  <1>6. \A k \in 0..n : F[k] \in Seq(Characters) /\ Len(F[k]) \in Nat
    <2>1. \A k \in 0..n : F[k] \in Seq(Characters)
      BY <1>3, <1>4 DEF Joints
    <2> QED BY <2>1
  <1>7. PICK L : L = [k \in 0..n |-> Len(F[k])]
    OBVIOUS
  <1>8. (\A k \in 0..n : L[k] \in Nat /\ L[k] = Len(F[k])) /\ L[0] = 0 /\ L[n] = Len(d)
    <2>1. F[0] = <<>> /\ Len(<<>>) = 0
      BY <1>4 DEF Joints
    <2>2. 0 \in 0..n /\ n \in 0..n
      OBVIOUS
    <2>3. \A k \in 0..n : L[k] = Len(F[k])
      BY <1>7
    <2> QED BY <1>4, <1>6, <2>1, <2>2, <2>3
  <1>9. ASSUME NEW k \in 1..n
        PROVE  /\ L[k] = L[k - 1] + Len(s[k]) /\ L[k] <= Len(d)
               /\ \A j \in 1..Len(s[k]) : d[L[k - 1] + j] = s[k][j]
    <2>1. n \in 0..Len(s) /\ k \in 1..n /\ k \in 0..n /\ k - 1 \in 0..n
      BY <1>3
    <2>2. /\ Len(F[k]) = Len(F[k - 1]) + Len(s[k]) /\ Len(F[k]) <= Len(F[n])
          /\ \A j \in 1..Len(s[k]) : F[n][Len(F[k - 1]) + j] = s[k][j]
      BY <1>5, <2>1, Zenon DEF Placed
    <2>3. L[k] = Len(F[k]) /\ L[k - 1] = Len(F[k - 1])
      BY <1>8, <2>1, Zenon
    <2> QED BY <1>4, <2>2, <2>3, Zenon
  <1>10. ASSUME NEW k \in 1..n
         PROVE  s[k] = IF x[k] = Quote THEN <<Quote, Quote>> ELSE <<x[k]>>
    BY <1>1, <1>2 DEF Twice
  <1> DEFINE P == {k \in Nat : k <= n => A[(o + 1) + L[k]] = CsvAt("QuotedField", g, SubSeq(x, 1, k))}
  <1>11. 0 \in P
    <2>1. o + 1 <= Len(r) /\ (o + 1) + L[0] = o + 1
      BY <1>8
    <2>2. A[o + 1] = CSVStep(A[o], Quote)
      BY <2>1, NextRead
    <2>3. <<>> \in Seq(Characters)
      OBVIOUS
    <2>4. CSVStep(CsvAt("UnquotedField", g, <<>>), Quote) = CsvAt("QuotedField", g, <<>>)
      BY <2>3, CSVStepIs, CsvSigns, Zenon
    <2>5. SubSeq(x, 1, 0) = <<>>
      BY SubSeqEmpty
    <2>6. A[(o + 1) + L[0]] = CsvAt("QuotedField", g, SubSeq(x, 1, 0))
      BY <2>1, <2>2, <2>4, <2>5, Zenon
    <2> QED BY <2>6
  <1>12. ASSUME NEW k \in Nat, k \in P PROVE k + 1 \in P
    <2> SUFFICES ASSUME k + 1 <= n
                 PROVE  A[(o + 1) + L[k + 1]] = CsvAt("QuotedField", g, SubSeq(x, 1, k + 1))
      OBVIOUS
    <2>1. A[(o + 1) + L[k]] = CsvAt("QuotedField", g, SubSeq(x, 1, k))
      BY <1>12
    <2>2. k + 1 \in 1..n /\ (k + 1) - 1 = k /\ k + 1 <= Len(x) /\ k <= Len(x) /\ k \in 0..n /\ k + 1 \in 1..Len(x)
      BY <1>1
    <2>3. PICK l \in Nat : l = L[k]
      BY <1>8, <2>2
    <2>4. PICK c \in Characters : c = x[k + 1]
      BY <2>2, ElementOfSeq
    <2>5. PICK p \in Seq(Characters) : p = SubSeq(x, 1, k)
      <3>1. SubSeq(x, 1, k) \in Seq(Characters)
        BY <2>2, Prefix
      <3> QED BY <3>1
    <2>6. SubSeq(x, 1, k + 1) = Append(p, c)
      <3>1. SubSeq(x, 1, k + 1) = Append(SubSeq(x, 1, k), x[k + 1])
        BY <2>2, NextPrefix
      <3> QED BY <2>4, <2>5, <3>1, Zenon
    <2>7. PICK t : t = s[k + 1]
      OBVIOUS
    <2>8. L[k + 1] = l + Len(t) /\ L[k + 1] <= Len(d) /\ \A j \in 1..Len(t) : d[l + j] = t[j]
      BY <1>9, <2>2, <2>3, <2>7, Zenon
    <2>9. t = IF c = Quote THEN <<Quote, Quote>> ELSE <<c>>
      BY <1>10, <2>2, <2>4, <2>7, Zenon
    <2>10. PICK q \in Nat : q = (o + 1) + l
      OBVIOUS
    <2>11. ASSUME NEW j \in 1..Len(t), Len(t) \in Nat PROVE r[q + j] = t[j] /\ q + j <= Len(r)
      <3>0. PICK D \in Nat : D = Len(d)
        OBVIOUS
      <3>1. l + j \in 1..Len(d) /\ (o + 1) + (l + j) = q + j
        <4>1. l + Len(t) <= D
          BY <2>8, <3>0, Zenon
        <4>2. l + j \in 1..D /\ (o + 1) + (l + j) = q + j
          BY <2>10, <2>11, <4>1
        <4> QED BY <3>0, <4>2, Zenon
      <3>2. r[(o + 1) + (l + j)] = d[l + j] /\ (o + 1) + Len(d) <= Len(r)
        BY <3>1 DEF Stands
      <3>3. l + j <= D /\ d[l + j] = t[j]
        BY <2>8, <3>0, <3>1
      <3>4. (o + 1) + (l + j) <= Len(r)
        BY <3>0, <3>2, <3>3
      <3> QED BY <3>1, <3>2, <3>3, <3>4, Zenon
    <2>12. A[q] = CsvAt("QuotedField", g, p)
      BY <2>1, <2>3, <2>5, <2>10
    <2>13. CASE c = Quote
      <3>1. t = <<Quote, Quote>> /\ Len(t) = 2 /\ t[1] = Quote /\ t[2] = Quote
        BY <2>9, <2>13
      <3>2. r[q + 1] = Quote /\ r[q + 2] = Quote /\ q + 2 <= Len(r) /\ q + 1 <= Len(r)
        BY <2>11, <3>1
      <3>3. A[q + 1] = CSVStep(A[q], Quote)
        BY <3>2, NextRead
      <3>4. CSVStep(CsvAt("QuotedField", g, p), Quote) = CsvAt("QuotedQuote", g, p)
        BY <2>13, CSVStepIs, CsvSigns, Zenon
      <3>5. A[q + 2] = CSVStep(A[q + 1], Quote)
        <4>1. q + 1 \in Nat /\ (q + 1) + 1 = q + 2
          OBVIOUS
        <4> QED BY <3>2, <4>1, NextRead
      <3>6. CSVStep(CsvAt("QuotedQuote", g, p), Quote) = CsvAt("QuotedField", g, Append(p, Quote))
        BY <2>13, CSVStepIs, CsvSigns, Zenon
      <3>7. A[q + 2] = CsvAt("QuotedField", g, Append(p, Quote))
        BY <2>12, <3>3, <3>4, <3>5, <3>6, Zenon
      <3>8. (o + 1) + L[k + 1] = q + 2
        BY <2>8, <2>10, <3>1
      <3> QED BY <2>6, <2>13, <3>7, <3>8, Zenon
    <2>14. CASE c # Quote
      <3>1. t = <<c>> /\ Len(t) = 1 /\ t[1] = c
        BY <2>9, <2>14
      <3>2. r[q + 1] = c /\ q + 1 <= Len(r)
        BY <2>11, <3>1
      <3>3. A[q + 1] = CSVStep(A[q], c)
        BY <3>2, NextRead
      <3>4. CSVStep(CsvAt("QuotedField", g, p), c) = CsvAt("QuotedField", g, Append(p, c))
        BY <2>14, CSVStepIs, Zenon
      <3>5. (o + 1) + L[k + 1] = q + 1
        BY <2>8, <2>10, <3>1
      <3> QED BY <2>6, <2>12, <3>3, <3>4, <3>5, Zenon
    <2> QED BY <2>13, <2>14
  <1>13. n \in P
    <2> HIDE DEF P
    <2> QED BY <1>11, <1>12, Induction
  <1>14. A[(o + 1) + Len(d)] = CsvAt("QuotedField", g, x)
    <2>1. A[(o + 1) + L[n]] = CsvAt("QuotedField", g, SubSeq(x, 1, n))
      BY <1>13
    <2>2. SubSeq(x, 1, n) = x
      BY <1>1, SubSeqFull
    <2> QED BY <1>8, <2>1, <2>2, Zenon
  <1>15. PICK q \in Nat : q = (o + 1) + Len(d)
    OBVIOUS
  <1>16. q + 1 = o + Len(d) + 2
    BY <1>15
  <1>17. A[q + 1] = CSVStep(A[q], Quote)
    BY <1>16, NextRead
  <1>18. CSVStep(CsvAt("QuotedField", g, x), Quote) = CsvAt("QuotedQuote", g, x)
    BY CSVStepIs, CsvSigns, Zenon
  <1> QED BY <1>14, <1>15, <1>16, <1>17, <1>18, Zenon

\* A field as it is written is of characters.
LEMMA DoubledType ==
    ASSUME NEW x \in Seq(Characters)
    PROVE  Doubled(x) \in Seq(Characters)
  <1>1. PICK s : s = Twice(x)
    OBVIOUS
  <1>2. s \in Seq(Seq(Characters))
    BY <1>1, TwiceIs
  <1>3. PICK F : Joints(F, s, Characters) /\ FlattenSeq(s) = F[Len(s)]
    BY <1>2, Flattened
  <1>4. Doubled(x) = F[Len(s)]
    BY <1>1, <1>3, Zenon DEF Doubled, Twice
  <1>5. Len(s) \in 0..Len(s)
    BY <1>2
  <1> QED BY <1>3, <1>4, <1>5 DEF Joints

\* Characters between quotes.
Enclosed(w, d) ==
    /\ Len(w) = Len(d) + 2 /\ w[1] = Quote /\ w[Len(d) + 2] = Quote
    /\ \A k \in 1..Len(d) : w[1 + k] = d[k]

LEMMA Encloses ==
    ASSUME NEW d \in Seq(Characters)
    PROVE  <<Quote>> \o d \o <<Quote>> \in Seq(Characters) /\ Enclosed(<<Quote>> \o d \o <<Quote>>, d)
  <1>1. PICK q \in Seq(Characters) : q = <<Quote>>
    <2>1. Quote \in Characters
      BY CsvSigns
    <2>2. <<Quote>> \in Seq(Characters)
      BY <2>1
    <2> QED BY <2>2
  <1>2. Len(q) = 1 /\ q[1] = Quote
    BY <1>1
  <1>3. PICK n \in Nat : n = Len(d)
    OBVIOUS
  <1>4. PICK b \in Seq(Characters) : b = q \o d
    <2>1. q \o d \in Seq(Characters)
      BY ConcatProperties
    <2> QED BY <2>1
  <1>5. Len(b) = 1 + n /\ \A k \in 1..(1 + n) : b[k] = IF k <= 1 THEN q[k] ELSE d[k - 1]
    <2>1. /\ Len(q \o d) = Len(q) + Len(d)
          /\ \A k \in 1..(Len(q) + Len(d)) : (q \o d)[k] = IF k <= Len(q) THEN q[k] ELSE d[k - Len(q)]
      BY ConcatProperties
    <2> QED BY <1>2, <1>3, <1>4, <2>1, Zenon
  <1>6. PICK w \in Seq(Characters) : w = b \o q
    <2>1. b \o q \in Seq(Characters)
      BY ConcatProperties
    <2> QED BY <2>1
  <1>7. Len(w) = (1 + n) + 1 /\ \A k \in 1..((1 + n) + 1) : w[k] = IF k <= 1 + n THEN b[k] ELSE q[k - (1 + n)]
    <2>1. /\ Len(b \o q) = Len(b) + Len(q)
          /\ \A k \in 1..(Len(b) + Len(q)) : (b \o q)[k] = IF k <= Len(b) THEN b[k] ELSE q[k - Len(b)]
      BY ConcatProperties
    <2>2. Len(b) = 1 + n
      BY <1>5
    <2> QED BY <1>2, <1>6, <2>1, <2>2, Zenon
  <1>8. w[1] = Quote
    <2>1. 1 \in 1..(1 + n) /\ 1 \in 1..((1 + n) + 1) /\ 1 <= 1 + n
      OBVIOUS
    <2> QED BY <1>2, <1>5, <1>7, <2>1
  <1>9. w[n + 2] = Quote
    <2>1. n + 2 \in 1..((1 + n) + 1) /\ ~(n + 2 <= 1 + n) /\ n + 2 - (1 + n) = 1
      OBVIOUS
    <2> QED BY <1>2, <1>7, <2>1
  <1>10. ASSUME NEW k \in 1..n PROVE w[1 + k] = d[k]
    <2>1. 1 + k \in 1..(1 + n) /\ 1 + k \in 1..((1 + n) + 1) /\ 1 + k <= 1 + n /\ ~(1 + k <= 1) /\ (1 + k) - 1 = k
      OBVIOUS
    <2>2. w[1 + k] = b[1 + k]
      BY <1>7, <2>1
    <2>3. b[1 + k] = d[k]
      BY <1>5, <2>1
    <2> QED BY <2>2, <2>3
  <1>11. Len(w) = n + 2
    BY <1>7
  <1>12. Enclosed(w, d)
    BY <1>3, <1>8, <1>9, <1>10, <1>11, Zenon DEF Enclosed
  <1> QED BY <1>1, <1>4, <1>6, <1>12, Zenon

LEMMA WrittenType ==
    ASSUME NEW x \in Seq(Characters)
    PROVE  Written(x) \in Seq(Characters)
  <1>1. <<Quote>> \o Doubled(x) \o <<Quote>> \in Seq(Characters)
    BY DoubledType, Encloses
  <1> QED BY <1>1, Zenon DEF Written

\* A field is read as it was before it was written.
LEMMA FieldRead ==
    ASSUME NEW r \in Seq(Characters), NEW A, Reads(A, r), NEW o \in Nat,
           NEW g \in Seq(Seq(Characters)), NEW x \in Seq(Characters),
           A[o] = CsvAt("UnquotedField", g, <<>>), Stands(r, o, Written(x))
    PROVE  \/ A[o + Len(Written(x))] = CsvAt("UnquotedField", g, x)
           \/ A[o + Len(Written(x))] = CsvAt("QuotedQuote", g, x)
  <1>1. CASE \E i \in 1..Len(x) : x[i] \in {Comma, Quote}
    <2>1. PICK d \in Seq(Characters) : d = Doubled(x)
      BY DoubledType
    <2>2. PICK w : w = Written(x)
      OBVIOUS
    <2>3. Enclosed(w, d)
      <3>1. w = <<Quote>> \o d \o <<Quote>>
        BY <1>1, <2>1, <2>2, Zenon DEF Written
      <3> QED BY <3>1, Encloses, Zenon
    <2>4. PICK n \in Nat : n = Len(d)
      OBVIOUS
    <2>5. Len(w) = n + 2 /\ w[1] = Quote /\ w[n + 2] = Quote /\ \A k \in 1..n : w[1 + k] = d[k]
      BY <2>3, <2>4, Zenon DEF Enclosed
    <2>6. o + (n + 2) <= Len(r) /\ \A k \in 1..(n + 2) : r[o + k] = w[k]
      BY <2>2, <2>5, Zenon DEF Stands
    <2>7. o + n + 2 <= Len(r) /\ o + (n + 2) = o + n + 2
      BY <2>6
    <2>8. r[o + 1] = Quote
      <3>1. 1 \in 1..(n + 2)
        OBVIOUS
      <3> QED BY <2>5, <2>6, <3>1
    <2>9. r[o + n + 2] = Quote
      <3>1. n + 2 \in 1..(n + 2)
        OBVIOUS
      <3>2. r[o + (n + 2)] = w[n + 2]
        BY <2>6, <3>1, Zenon
      <3> QED BY <2>5, <2>7, <3>2, Zenon
    <2>10. Stands(r, o + 1, d)
      <3>1. (o + 1) + n <= Len(r)
        BY <2>6
      <3>2. ASSUME NEW k \in 1..n PROVE r[(o + 1) + k] = d[k]
        <4>1. 1 + k \in 1..(n + 2) /\ o + (1 + k) = (o + 1) + k
          OBVIOUS
        <4>2. r[o + (1 + k)] = w[1 + k]
          BY <2>6, <4>1, Zenon
        <4> QED BY <2>5, <4>1, <4>2
      <3> QED BY <2>4, <3>1, <3>2, Zenon DEF Stands
    <2>11. A[o + Len(d) + 2] = CsvAt("QuotedQuote", g, x)
      BY <2>1, <2>4, <2>7, <2>8, <2>9, <2>10, QuotedRead
    <2> QED BY <2>2, <2>4, <2>5, <2>7, <2>11, Zenon
  <1>2. CASE ~\E i \in 1..Len(x) : x[i] \in {Comma, Quote}
    <2>1. Written(x) = x
      BY <1>2, Zenon DEF Written
    <2>2. Stands(r, o, x)
      BY <2>1, Zenon
    <2>3. \A i \in 1..Len(x) : x[i] \notin {Comma, Quote}
      BY <1>2, Zenon
    <2>4. A[o + Len(x)] = CsvAt("UnquotedField", g, x)
      BY <2>2, <2>3, PlainRead
    <2> QED BY <2>1, <2>4, Zenon
  <1> QED BY <1>1, <1>2

\* A field after a comma.
Follows(s, w) == Len(s) = 1 + Len(w) /\ s[1] = Comma /\ \A k \in 1..Len(w) : s[1 + k] = w[k]

\* The fields, each after a comma.
AfterComma(fields) == [i \in 1..Len(fields) |-> <<Comma>> \o Written(fields[i])]

LEMMA AfterCommaIs ==
    ASSUME NEW fields \in Seq(Seq(Characters))
    PROVE  /\ AfterComma(fields) \in Seq(Seq(Characters)) /\ Len(AfterComma(fields)) = Len(fields)
           /\ \A i \in 1..Len(fields) : Follows(AfterComma(fields)[i], Written(fields[i]))
  <1>1. PICK n \in Nat : n = Len(fields)
    OBVIOUS
  <1>2. PICK q \in Seq(Characters) : q = <<Comma>>
    <2>1. Comma \in Characters
      BY CsvSigns
    <2>2. <<Comma>> \in Seq(Characters)
      BY <2>1
    <2> QED BY <2>2
  <1>3. Len(q) = 1 /\ q[1] = Comma
    BY <1>2
  <1>4. \A i \in 1..n : Written(fields[i]) \in Seq(Characters)
    <2>1. \A i \in 1..n : fields[i] \in Seq(Characters)
      BY <1>1
    <2> QED BY <2>1, WrittenType
  <1>5. PICK s : s = [i \in 1..n |-> q \o Written(fields[i])]
    OBVIOUS
  <1>6. s = AfterComma(fields)
    BY <1>1, <1>2, <1>5, Zenon DEF AfterComma
  <1>7. s \in Seq(Seq(Characters)) /\ Len(s) = n
    <2>1. \A i \in 1..n : q \o Written(fields[i]) \in Seq(Characters)
      BY <1>4, ConcatProperties
    <2>2. s \in [1..n -> Seq(Characters)]
      BY <1>5, <2>1
    <2> QED BY <2>2, FunctionIsSeq
  <1>8. ASSUME NEW i \in 1..n, NEW w, w = Written(fields[i])
        PROVE  Follows(s[i], w)
    <2>1. w \in Seq(Characters)
      BY <1>4, <1>8, Zenon
    <2>2. PICK m \in Nat : m = Len(w)
      BY <2>1
    <2>3. PICK t : t = q \o w
      OBVIOUS
    <2>4. s[i] = t
      BY <1>5, <1>8, <2>3
    <2>5. Len(t) = 1 + m /\ \A k \in 1..(1 + m) : t[k] = IF k <= 1 THEN q[k] ELSE w[k - 1]
      <3>1. /\ Len(q \o w) = Len(q) + Len(w)
            /\ \A k \in 1..(Len(q) + Len(w)) : (q \o w)[k] = IF k <= Len(q) THEN q[k] ELSE w[k - Len(q)]
        BY <2>1, ConcatProperties
      <3> QED BY <1>3, <2>2, <2>3, <3>1, Zenon
    <2>6. t[1] = Comma
      <3>1. 1 \in 1..(1 + m) /\ 1 <= 1
        OBVIOUS
      <3> QED BY <1>3, <2>5, <3>1
    <2>7. ASSUME NEW k \in 1..m PROVE t[1 + k] = w[k]
      <3>1. 1 + k \in 1..(1 + m) /\ ~(1 + k <= 1) /\ (1 + k) - 1 = k
        OBVIOUS
      <3> QED BY <2>5, <3>1
    <2> QED BY <2>2, <2>4, <2>5, <2>6, <2>7, Zenon DEF Follows
  <1> QED BY <1>1, <1>6, <1>7, <1>8, Zenon

\* The rest of a sequence after its first member.
LEMMA TailIs ==
    ASSUME NEW S, NEW T \in Seq(S), 1 <= Len(T)
    PROVE  Tail(T) \in Seq(S) /\ Len(Tail(T)) = Len(T) - 1 /\ \A j \in 1..(Len(T) - 1) : Tail(T)[j] = T[j + 1]
  <1>1. T # <<>>
    <2>1. Len(<<>>) = 0
      OBVIOUS
    <2> QED BY <2>1
  <1>2. Tail(T) \in Seq(S) /\ Len(Tail(T)) = Len(T) - 1 /\ \A j \in 1..Len(Tail(T)) : Tail(T)[j] = T[j + 1]
    BY <1>1, HeadTailProperties
  <1> QED BY <1>2, Zenon

\* A row is read as the fields it was written from.
LEMMA RowRead ==
    ASSUME NEW fields \in Seq(Seq(Characters)), fields # <<>>
    PROVE  readCSVRow(CSVRow(fields)) = fields
  <1>1. PICK n \in Nat : n = Len(fields)
    OBVIOUS
  <1>2. n # 0
    BY <1>1, EmptySeq
  <1>3. PICK s : s = AfterComma(fields)
    OBVIOUS
  <1>4. s \in Seq(Seq(Characters)) /\ Len(s) = n
    BY <1>1, <1>3, AfterCommaIs
  <1>5. PICK W : W = [i \in 1..n |-> Written(fields[i])]
    OBVIOUS
  <1>6. \A i \in 1..n : W[i] = Written(fields[i]) /\ fields[i] \in Seq(Characters) /\ W[i] \in Seq(Characters) /\ Len(W[i]) \in Nat
    <2>1. \A i \in 1..n : fields[i] \in Seq(Characters)
      BY <1>1
    <2>2. \A i \in 1..n : W[i] = Written(fields[i])
      BY <1>5
    <2>3. \A i \in 1..n : W[i] \in Seq(Characters)
      BY <2>1, <2>2, WrittenType
    <2> QED BY <2>1, <2>2, <2>3
  <1>7. \A i \in 1..n : Len(s[i]) = 1 + Len(W[i]) /\ s[i][1] = Comma /\ \A k \in 1..Len(W[i]) : s[i][1 + k] = W[i][k]
    <2>1. \A i \in 1..n : Follows(s[i], Written(fields[i]))
      BY <1>1, <1>3, AfterCommaIs, Zenon
    <2> QED BY <1>6, <2>1, Zenon DEF Follows
  <1>8. PICK F : Joints(F, s, Characters) /\ FlattenSeq(s) = F[n]
    BY <1>4, Flattened
  <1>9. Placed(F, s)
    BY <1>4, <1>8, JoinsPlaced
  <1>10. PICK L : L = [k \in 0..n |-> Len(F[k])]
    OBVIOUS
  <1>11. (\A k \in 0..n : F[k] \in Seq(Characters) /\ L[k] \in Nat /\ L[k] = Len(F[k])) /\ L[0] = 0
    <2>1. F[0] = <<>> /\ Len(<<>>) = 0 /\ 0 \in 0..n
      BY <1>8 DEF Joints
    <2>2. \A k \in 0..n : F[k] \in Seq(Characters)
      BY <1>4, <1>8 DEF Joints
    <2>3. \A k \in 0..n : Len(F[k]) \in Nat
      BY <2>2
    <2>4. \A k \in 0..n : L[k] = Len(F[k])
      BY <1>10
    <2> QED BY <2>1, <2>2, <2>3, <2>4, Zenon
  <1>12. PICK T \in Seq(Characters) : T = F[n]
    <2>1. n \in 0..n
      OBVIOUS
    <2> QED BY <1>11, <2>1
  <1>13. L[n] = Len(T)
    <2>1. n \in 0..n
      OBVIOUS
    <2> QED BY <1>11, <1>12, <2>1, Zenon
  <1>14. ASSUME NEW k \in 1..n
         PROVE  /\ L[k] = L[k - 1] + Len(s[k]) /\ L[k] <= L[n]
                /\ \A j \in 1..Len(s[k]) : T[L[k - 1] + j] = s[k][j]
    <2>1. n \in 0..Len(s) /\ k \in 1..n /\ k \in 0..n /\ k - 1 \in 0..n
      BY <1>4
    <2>2. /\ Len(F[k]) = Len(F[k - 1]) + Len(s[k]) /\ Len(F[k]) <= Len(F[n])
          /\ \A j \in 1..Len(s[k]) : F[n][Len(F[k - 1]) + j] = s[k][j]
      BY <1>9, <2>1, Zenon DEF Placed
    <2>3. L[k] = Len(F[k]) /\ L[k - 1] = Len(F[k - 1])
      BY <1>11, <2>1, Zenon
    <2> QED BY <1>12, <1>13, <2>2, <2>3, Zenon
  <1>15. PICK N \in Nat : N = L[n]
    BY <1>12, <1>13
  <1>16. ASSUME NEW k \in 1..n
         PROVE  /\ L[k - 1] \in Nat /\ L[k] = L[k - 1] + (1 + Len(W[k])) /\ L[k] <= N /\ L[k] \in Nat
                /\ T[L[k - 1] + 1] = Comma
                /\ \A j \in 1..Len(W[k]) : T[L[k - 1] + (1 + j)] = W[k][j]
    <2>1. PICK l \in Nat : l = L[k - 1]
      <3>1. k - 1 \in 0..n
        OBVIOUS
      <3> QED BY <1>11, <3>1
    <2>2. PICK m \in Nat : m = Len(W[k])
      BY <1>6
    <2>3. Len(s[k]) = 1 + m /\ s[k][1] = Comma /\ \A j \in 1..m : s[k][1 + j] = W[k][j]
      BY <1>7, <2>2, Zenon
    <2>4. L[k] = l + (1 + m) /\ L[k] <= N /\ \A j \in 1..(1 + m) : T[l + j] = s[k][j]
      BY <1>14, <1>15, <2>1, <2>3, Zenon
    <2>5. T[l + 1] = Comma
      <3>1. 1 \in 1..(1 + m)
        OBVIOUS
      <3> QED BY <2>3, <2>4, <3>1, Zenon
    <2>6. ASSUME NEW j \in 1..m PROVE T[l + (1 + j)] = W[k][j]
      <3>1. 1 + j \in 1..(1 + m)
        OBVIOUS
      <3> QED BY <2>3, <2>4, <3>1, Zenon
    <2>7. l + (1 + m) \in Nat
      OBVIOUS
    <2> QED BY <2>1, <2>2, <2>4, <2>5, <2>6, <2>7, Zenon
  <1>17. 1 <= N
    <2>1. n \in 1..n
      BY <1>2
    <2>2. PICK l \in Nat : l = L[n - 1]
      BY <1>16, <2>1
    <2>3. PICK m \in Nat : m = Len(W[n])
      BY <1>6, <2>1
    <2>4. N = l + (1 + m)
      BY <1>15, <1>16, <2>1, <2>2, <2>3, Zenon
    <2> QED BY <2>4
  <1>18. PICK r : r = CSVRow(fields)
    OBVIOUS
  <1>19. r \in Seq(Characters) /\ Len(r) = N - 1 /\ \A j \in 1..(N - 1) : r[j] = T[j + 1]
    <2>1. r = Tail(T)
      BY <1>3, <1>8, <1>12, <1>18, Zenon DEF CSVRow, AfterComma
    <2>2. 1 <= Len(T) /\ Len(T) = N
      BY <1>13, <1>15, <1>17
    <2>3. Tail(T) \in Seq(Characters) /\ Len(Tail(T)) = Len(T) - 1 /\ \A j \in 1..(Len(T) - 1) : Tail(T)[j] = T[j + 1]
      BY <2>2, TailIs
    <2> QED BY <2>1, <2>2, <2>3, Zenon
  <1>20. PICK A : Reads(A, r) /\ readCSVRow(r) = A[Len(r)].fields
    BY <1>19, ReadIs
  <1>21. ASSUME NEW k \in 1..n
         PROVE  L[k - 1] \in Nat /\ L[k] = L[k - 1] + (1 + Len(W[k])) /\ Stands(r, L[k - 1], W[k])
    <2>1. PICK l \in Nat : l = L[k - 1]
      BY <1>16
    <2>2. PICK m \in Nat : m = Len(W[k])
      BY <1>6
    <2>3. L[k] = l + (1 + m) /\ L[k] <= N /\ \A j \in 1..m : T[l + (1 + j)] = W[k][j]
      BY <1>16, <2>1, <2>2, Zenon
    <2>4. l + m <= N - 1
      BY <2>3
    <2>5. ASSUME NEW j \in 1..m PROVE r[l + j] = W[k][j]
      <3>1. l + j \in 1..(N - 1) /\ (l + j) + 1 = l + (1 + j)
        BY <2>4
      <3> QED BY <1>19, <2>3, <3>1, Zenon
    <2>6. Stands(r, l, W[k])
      BY <1>19, <2>2, <2>4, <2>5, Zenon DEF Stands
    <2> QED BY <2>1, <2>2, <2>3, <2>6, Zenon
  <1> DEFINE Read(i, p) == \/ A[L[i] - 1] = CsvAt("UnquotedField", p, fields[i])
                           \/ A[L[i] - 1] = CsvAt("QuotedQuote", p, fields[i])
             P == {i \in Nat : i + 1 <= n => Read(i + 1, SubSeq(fields, 1, i))}
  <1>22. ASSUME NEW k \in 1..n, NEW g \in Seq(Seq(Characters)), A[L[k - 1]] = CsvAt("UnquotedField", g, <<>>)
         PROVE  Read(k, g)
    <2>1. PICK l \in Nat : l = L[k - 1]
      BY <1>21
    <2>2. PICK x \in Seq(Characters) : x = fields[k]
      BY <1>6
    <2>3. PICK m \in Nat : m = Len(W[k]) /\ W[k] = Written(x)
      BY <1>6, <2>2
    <2>4. A[l] = CsvAt("UnquotedField", g, <<>>) /\ Stands(r, l, Written(x))
      BY <1>21, <1>22, <2>1, <2>3, Zenon
    <2>5. \/ A[l + Len(Written(x))] = CsvAt("UnquotedField", g, x)
          \/ A[l + Len(Written(x))] = CsvAt("QuotedQuote", g, x)
      BY <1>19, <1>20, <2>4, FieldRead
    <2>6. L[k] = l + (1 + m)
      BY <1>21, <2>1, <2>3, Zenon
    <2>7. L[k] - 1 = l + m
      BY <2>6
    <2> QED BY <2>2, <2>3, <2>5, <2>7, Zenon
  <1>23. 0 \in P
    <2>1. 1 \in 1..n /\ 1 - 1 = 0 /\ 0 + 1 = 1
      BY <1>2
    <2>2. PICK e \in Seq(Seq(Characters)) : e = <<>>
      BY EmptySeq
    <2>3. A[0] = CsvAt("UnquotedField", e, <<>>)
      BY <1>20, <2>2, CSVStepBegins, Zenon DEF Reads
    <2>4. A[L[1 - 1]] = CsvAt("UnquotedField", e, <<>>)
      BY <1>11, <2>1, <2>3, Zenon
    <2>5. Read(1, e)
      BY <1>22, <2>1, <2>4
    <2>6. SubSeq(fields, 1, 0) = e
      BY <2>2, SubSeqEmpty
    <2> HIDE DEF Read
    <2>7. Read(0 + 1, SubSeq(fields, 1, 0))
      BY <2>1, <2>5, <2>6, Zenon
    <2> QED BY <2>7
  <1>24. ASSUME NEW i \in Nat, i \in P PROVE i + 1 \in P
    <2> HIDE DEF Read
    <2> SUFFICES ASSUME (i + 1) + 1 <= n PROVE Read((i + 1) + 1, SubSeq(fields, 1, i + 1))
      OBVIOUS
    <2>1. PICK k : k = i + 1
      OBVIOUS
    <2>2. k \in 1..n /\ k + 1 \in 1..n /\ (k + 1) - 1 = k /\ i <= Len(fields) /\ i + 1 <= Len(fields) /\ i + 1 <= n
      BY <1>1, <2>1
    <2>3. PICK p \in Seq(Seq(Characters)) : p = SubSeq(fields, 1, i)
      <3>1. SubSeq(fields, 1, i) \in Seq(Seq(Characters))
        BY <2>2, Prefix
      <3> QED BY <3>1
    <2>4. Read(i + 1, SubSeq(fields, 1, i))
      BY <1>24, <2>2
    <2>5. PICK x \in Seq(Characters) : x = fields[k]
      BY <1>6, <2>2
    <2>6. PICK q : q = L[k] - 1
      OBVIOUS
    <2>7. A[q] = CsvAt("UnquotedField", p, x) \/ A[q] = CsvAt("QuotedQuote", p, x)
      BY <2>1, <2>3, <2>4, <2>5, <2>6, Zenon DEF Read
    <2>8. q \in Nat /\ q + 1 = L[k] /\ L[k] + 1 <= N /\ T[L[k] + 1] = Comma
      <3>1. PICK l \in Nat : l = L[k - 1]
        BY <1>16, <2>2
      <3>2. PICK m \in Nat : m = Len(W[k])
        BY <1>6, <2>2
      <3>3. PICK m2 \in Nat : m2 = Len(W[k + 1])
        BY <1>6, <2>2
      <3>4. L[k] = l + (1 + m)
        BY <1>16, <2>2, <3>1, <3>2, Zenon
      <3>5. L[k + 1] = L[k] + (1 + m2) /\ L[k + 1] <= N /\ T[L[k] + 1] = Comma
        BY <1>16, <2>2, <3>3, Zenon
      <3>6. q \in Nat /\ q + 1 = L[k] /\ L[k] + 1 <= N
        BY <2>6, <3>4, <3>5
      <3> QED BY <3>5, <3>6
    <2>9. r[q + 1] = Comma /\ q + 1 <= Len(r)
      <3>1. q + 1 \in 1..(N - 1) /\ (q + 1) + 1 = L[k] + 1
        BY <2>8
      <3>2. r[q + 1] = T[(q + 1) + 1]
        BY <1>19, <3>1, Zenon
      <3> QED BY <1>19, <2>8, <3>1, <3>2
    <2>10. A[q + 1] = CSVStep(A[q], Comma)
      BY <1>19, <1>20, <2>8, <2>9, NextRead
    <2>11. /\ CSVStep(CsvAt("UnquotedField", p, x), Comma) = CsvAt("UnquotedField", Append(p, x), <<>>)
           /\ CSVStep(CsvAt("QuotedQuote", p, x), Comma) = CsvAt("UnquotedField", Append(p, x), <<>>)
      BY CSVStepIs, CsvSigns, Zenon
    <2>12. A[L[k]] = CsvAt("UnquotedField", Append(p, x), <<>>)
      BY <2>7, <2>8, <2>10, <2>11, Zenon
    <2>13. PICK g \in Seq(Seq(Characters)) : g = Append(p, x)
      <3>1. Append(p, x) \in Seq(Seq(Characters))
        BY AppendProperties
      <3> QED BY <3>1
    <2>14. A[L[(k + 1) - 1]] = CsvAt("UnquotedField", g, <<>>)
      BY <2>2, <2>12, <2>13, Zenon
    <2>15. Read(k + 1, g)
      BY <1>22, <2>2, <2>14
    <2>16. SubSeq(fields, 1, i + 1) = Append(SubSeq(fields, 1, i), fields[i + 1])
      BY <2>2, NextPrefix
    <2>17. SubSeq(fields, 1, i + 1) = g
      BY <2>1, <2>3, <2>5, <2>13, <2>16, Zenon
    <2> QED BY <2>1, <2>15, <2>17, Zenon
  <1>25. n - 1 \in P
    <2>1. n - 1 \in Nat
      BY <1>2
    <2> HIDE DEF P
    <2> QED BY <1>23, <1>24, <2>1, Induction
  <1>26. PICK p \in Seq(Seq(Characters)) : p = SubSeq(fields, 1, n - 1)
    <2>1. n - 1 \in Nat /\ n - 1 <= Len(fields)
      BY <1>1, <1>2
    <2>2. SubSeq(fields, 1, n - 1) \in Seq(Seq(Characters))
      BY <2>1, Prefix
    <2> QED BY <2>2
  <1>27. Read(n, p)
    <2>1. (n - 1) + 1 = n /\ n <= n
      BY <1>2
    <2> HIDE DEF Read
    <2>2. (n - 1) + 1 <= n => Read((n - 1) + 1, SubSeq(fields, 1, n - 1))
      BY <1>25
    <2> QED BY <1>26, <2>1, <2>2, Zenon
  <1>28. Append(p, fields[n]) = fields
    <2>1. n - 1 \in Nat /\ (n - 1) + 1 = n /\ (n - 1) + 1 <= Len(fields)
      BY <1>1, <1>2
    <2>2. SubSeq(fields, 1, (n - 1) + 1) = Append(SubSeq(fields, 1, n - 1), fields[(n - 1) + 1])
      BY <2>1, NextPrefix
    <2>3. SubSeq(fields, 1, n) = fields
      BY <1>1, SubSeqFull
    <2> QED BY <1>26, <2>1, <2>2, <2>3, Zenon
  <1>29. A[N - 1].fields = fields
    <2>1. PICK h : h = Append(p, fields[n])
      OBVIOUS
    <2>2. \A state : CsvAt(state, p, fields[n]) = [state |-> state, fields |-> h]
      BY <2>1, Zenon DEF CsvAt
    <2>3. PICK a : a = A[N - 1]
      OBVIOUS
    <2>4. a = CsvAt("UnquotedField", p, fields[n]) \/ a = CsvAt("QuotedQuote", p, fields[n])
      BY <1>15, <1>27, <2>3, Zenon
    <2>5. a = [state |-> "UnquotedField", fields |-> h] \/ a = [state |-> "QuotedQuote", fields |-> h]
      BY <2>2, <2>4, Zenon
    <2>6. a.fields = h
      BY <2>5
    <2> QED BY <1>28, <2>1, <2>3, <2>6, Zenon
  <1> QED BY <1>18, <1>19, <1>20, <1>29, Zenon

LEMMA FieldsAreReadBack == FieldsReadBack
  <1> SUFFICES ASSUME NEW fields \in CSVFields PROVE readCSVRow(CSVRow(fields)) = fields
    BY DEF FieldsReadBack
  <1>1. fields \in Seq(Seq(Characters)) /\ fields # <<>>
    BY CSVFieldsAssumption
  <1> QED BY <1>1, RowRead

-----------------------------------------------------------------------------
(* Rows of JSON                                                              *)

Event == [is : {"null", "value", "start", "end", "key"}, text : Seq(Characters)]
Row == Seq(Seq(Characters))

LEMMA JsonHandlerBegins == <<>> \in Row
  BY DEF Row

LEMMA JsonHandlerType ==
    ASSUME NEW row \in Row, NEW e \in Event
    PROVE  JsonHandler(row, e) \in Row
  <1>1. <<>> \in Seq(Characters) /\ e.text \in Seq(Characters)
    BY DEF Event
  <1>2. Append(row, <<>>) \in Row /\ Append(row, e.text) \in Row
    <2>1. PICK T : T = Seq(Characters)
      OBVIOUS
    <2>2. row \in Seq(T) /\ <<>> \in T /\ e.text \in T
      BY <1>1, <2>1 DEF Row
    <2>3. Append(row, <<>>) \in Seq(T) /\ Append(row, e.text) \in Seq(T)
      BY <2>2
    <2> QED BY <2>1, <2>3 DEF Row
  <1> QED BY <1>2, Zenon DEF JsonHandler

\* The cells after each of the events.
Cells(f, s) ==
    /\ f \in [0..Len(s) -> Row] /\ f[0] = <<>>
    /\ \A j \in 1..Len(s) : f[j] = JsonHandler(f[j - 1], s[j])

LEMMA JsonRowIs ==
    ASSUME NEW s \in Seq(Event)
    PROVE  \E f : Cells(f, s) /\ JsonRow(s) = f[Len(s)]
  <1>1. PICK n \in Nat : n = Len(s)
    OBVIOUS
  <1>2. \A j \in 1..n : s[j] \in Event
    BY <1>1, ElementOfSeq, Zenon
  <1>3. PICK G : G = [x \in (1..n) \X Row |-> JsonHandler(x[2], s[x[1]])]
    OBVIOUS
  <1>4. G \in [(1..n) \X Row -> Row]
    <2>1. ASSUME NEW x \in (1..n) \X Row PROVE JsonHandler(x[2], s[x[1]]) \in Row
      <3>1. x[1] \in 1..n /\ x[2] \in Row
        OBVIOUS
      <3> QED BY <1>2, <3>1, JsonHandlerType, Zenon
    <2> QED BY <1>3, <2>1
  <1>5. PICK f : Steps(f, n, Row, <<>>, G)
    <2>1. <<>> \in Row
      BY JsonHandlerBegins
    <2> QED BY <1>4, <2>1, Recursion, Zenon
  <1>6. f \in [0..n -> Row] /\ f[0] = <<>> /\ \A j \in 1..n : f[j] = JsonHandler(f[j - 1], s[j])
    <2>1. f \in [0..n -> Row] /\ f[0] = <<>> /\ \A j \in 1..n : f[j] = G[<<j, f[j - 1]>>]
      BY <1>5, Zenon DEF Steps
    <2>2. ASSUME NEW j \in 1..n PROVE G[<<j, f[j - 1]>>] = JsonHandler(f[j - 1], s[j])
      <3>1. j - 1 \in 0..n
        OBVIOUS
      <3>2. f[j - 1] \in Row
        BY <2>1, <3>1
      <3> QED BY <1>3, <3>2
    <2> QED BY <2>1, <2>2
  <1> DEFINE Is(g) == g = [j \in 0..n |-> IF j = 0 THEN <<>> ELSE JsonHandler(g[j - 1], s[j])]
             g_ == CHOOSE g : Is(g)
  <1>7. Is(f)
    <2>1. \A j \in 0..n : f[j] = IF j = 0 THEN <<>> ELSE JsonHandler(f[j - 1], s[j])
      <3>1. \A j \in 0..n : j # 0 => j \in 1..n
        OBVIOUS
      <3> QED BY <1>6, <3>1, Zenon
    <2>2. f = [j \in 0..n |-> f[j]]
      BY <1>6
    <2> QED BY <2>1, <2>2
  <1>8. Is(g_)
    BY <1>7
  <1>9. JsonRow(s) = g_[n]
    BY <1>1, Zenon DEF JsonRow
  <1>10. \A j \in 0..n : g_[j] = IF j = 0 THEN <<>> ELSE JsonHandler(g_[j - 1], s[j])
    <2>1. PICK g : g = g_
      OBVIOUS
    <2>2. g = [j \in 0..n |-> IF j = 0 THEN <<>> ELSE JsonHandler(g[j - 1], s[j])]
      BY <1>8, <2>1
    <2> HIDE DEF g_
    <2>3. \A j \in 0..n : g[j] = IF j = 0 THEN <<>> ELSE JsonHandler(g[j - 1], s[j])
      BY <2>2
    <2> QED BY <2>1, <2>3
  <1> HIDE DEF g_, Is
  <1> DEFINE P == {k \in Nat : k <= n => g_[k] = f[k]}
  <1>11. 0 \in P
    <2>1. 0 \in 0..n
      OBVIOUS
    <2>2. g_[0] = <<>>
      BY <1>10, <2>1, Zenon
    <2> QED BY <1>6, <2>2
  <1>12. ASSUME NEW k \in Nat, k \in P PROVE k + 1 \in P
    <2> SUFFICES ASSUME k + 1 <= n PROVE g_[k + 1] = f[k + 1]
      OBVIOUS
    <2>1. g_[k] = f[k]
      BY <1>12
    <2>2. k + 1 \in 1..n /\ k + 1 \in 0..n /\ k + 1 # 0 /\ (k + 1) - 1 = k
      OBVIOUS
    <2>3. f[k + 1] = JsonHandler(f[k], s[k + 1])
      BY <1>6, <2>2, Zenon
    <2>4. g_[k + 1] = JsonHandler(g_[k], s[k + 1])
      BY <1>10, <2>2, Zenon
    <2> QED BY <2>1, <2>3, <2>4, Zenon
  <1>13. n \in P
    <2> HIDE DEF P
    <2> QED BY <1>11, <1>12, Induction
  <1>14. g_[n] = f[n]
    BY <1>13
  <1> QED BY <1>1, <1>6, <1>9, <1>14, Zenon DEF Cells

\* A cell for each scalar.
LEMMA JsonRowLength ==
    ASSUME NEW s \in Seq(Event)
    PROVE  /\ IsFiniteSet({i \in 1..Len(s) : s[i].is \in {"null", "value"}})
           /\ Len(JsonRow(s)) = Cardinality({i \in 1..Len(s) : s[i].is \in {"null", "value"}})
  <1>1. PICK f : Cells(f, s) /\ JsonRow(s) = f[Len(s)]
    BY JsonRowIs
  <1>2. PICK n \in Nat : n = Len(s)
    OBVIOUS
  <1>3. f \in [0..n -> Row] /\ f[0] = <<>> /\ \A j \in 1..n : f[j] = JsonHandler(f[j - 1], s[j])
    BY <1>1, <1>2, Zenon DEF Cells
  <1> DEFINE Scalars_(k) == {i \in 1..k : s[i].is \in {"null", "value"}}
             P == {k \in Nat : k <= n => IsFiniteSet(Scalars_(k)) /\ Len(f[k]) = Cardinality(Scalars_(k))}
  <1>4. 0 \in P
    <2>1. Scalars_(0) = {}
      OBVIOUS
    <2>2. IsFiniteSet({}) /\ Cardinality({}) = 0
      BY FS_EmptySet
    <2>3. Len(f[0]) = 0
      BY <1>3
    <2> HIDE DEF Scalars_
    <2> QED BY <2>1, <2>2, <2>3
  <1>5. ASSUME NEW k \in Nat, k \in P PROVE k + 1 \in P
    <2> SUFFICES ASSUME k + 1 <= n
                 PROVE  IsFiniteSet(Scalars_(k + 1)) /\ Len(f[k + 1]) = Cardinality(Scalars_(k + 1))
      OBVIOUS
    <2>1. IsFiniteSet(Scalars_(k)) /\ Len(f[k]) = Cardinality(Scalars_(k))
      BY <1>5
    <2>2. k + 1 \in 1..n /\ (k + 1) - 1 = k /\ k \in 0..n
      OBVIOUS
    <2>3. f[k + 1] = JsonHandler(f[k], s[k + 1]) /\ f[k] \in Row
      BY <1>3, <2>2
    <2>4. PICK r \in Row : r = f[k]
      BY <2>3
    <2>5. CASE s[k + 1].is \in {"null", "value"}
      <3>1. Scalars_(k + 1) = Scalars_(k) \cup {k + 1} /\ k + 1 \notin Scalars_(k)
        <4>1. \A i \in 1..(k + 1) : i \in 1..k \/ i = k + 1
          OBVIOUS
        <4>2. 1..k \subseteq 1..(k + 1) /\ k + 1 \in 1..(k + 1) /\ k + 1 \notin 1..k
          OBVIOUS
        <4> QED BY <2>5, <4>1, <4>2
      <3>2. Len(f[k + 1]) = Len(r) + 1 /\ Len(r) \in Nat
        <4>1. f[k + 1] = Append(r, <<>>) \/ f[k + 1] = Append(r, s[k + 1].text)
          BY <2>3, <2>4, <2>5 DEF JsonHandler
        <4>2. s[k + 1] \in Event
          BY <1>2, <2>2, ElementOfSeq, Zenon
        <4>3. PICK T : T = Seq(Characters)
          OBVIOUS
        <4>4. r \in Seq(T) /\ <<>> \in T /\ s[k + 1].text \in T
          BY <2>4, <4>2, <4>3 DEF Row, Event
        <4>5. \A x \in T : Len(Append(r, x)) = Len(r) + 1
          BY <4>4, AppendProperties
        <4> QED BY <4>1, <4>4, <4>5
      <3> HIDE DEF Scalars_
      <3>3. IsFiniteSet(Scalars_(k) \cup {k + 1}) /\ Cardinality(Scalars_(k) \cup {k + 1}) = Cardinality(Scalars_(k)) + 1
        BY <2>1, <3>1, FS_AddElement
      <3> QED BY <2>1, <2>4, <3>1, <3>2, <3>3
    <2>6. CASE ~(s[k + 1].is \in {"null", "value"})
      <3>1. Scalars_(k + 1) = Scalars_(k)
        <4>1. \A i \in 1..(k + 1) : i \in 1..k \/ i = k + 1
          OBVIOUS
        <4>2. 1..k \subseteq 1..(k + 1)
          OBVIOUS
        <4> QED BY <2>6, <4>1, <4>2
      <3>2. f[k + 1] = f[k]
        BY <2>3, <2>6 DEF JsonHandler
      <3> HIDE DEF Scalars_
      <3> QED BY <2>1, <3>1, <3>2
    <2> QED BY <2>5, <2>6
  <1>6. n \in P
    <2> HIDE DEF P
    <2> QED BY <1>4, <1>5, Induction
  <1>7. IsFiniteSet(Scalars_(n)) /\ Len(f[n]) = Cardinality(Scalars_(n))
    BY <1>6
  <1> HIDE DEF Scalars_
  <1>8. Scalars_(n) = {i \in 1..Len(s) : s[i].is \in {"null", "value"}}
    BY <1>2 DEF Scalars_
  <1> QED BY <1>1, <1>2, <1>7, <1>8

LEMMA RangesFitRows == RangeFitsRow
  <1> SUFFICES ASSUME NEW events \in JsonTexts, {i \in 1..Len(events) : events[i].is \in {"null", "value"}} # {}
               PROVE  ColumnNumber(A1(Len(JsonRow(events))).to[1]) - ColumnNumber(A1(Len(JsonRow(events))).from[1]) + 1
                         = Cardinality({i \in 1..Len(events) : events[i].is \in {"null", "value"}})
    BY Zenon DEF RangeFitsRow
  <1>1. events \in Seq(Event)
    BY JsonTextsAssumption DEF Event
  <1>2. PICK K : K = {i \in 1..Len(events) : events[i].is \in {"null", "value"}}
    OBVIOUS
  <1>3. K # {} /\ IsFiniteSet(K) /\ Len(JsonRow(events)) = Cardinality(K)
    BY <1>1, <1>2, JsonRowLength, Zenon
  <1>4. PICK c \in Nat \ {0} : c = Cardinality(K)
    BY <1>3, FS_CardinalityType, FS_EmptySet
  <1>5. A1(c).from[1] = columnFromNumber(0) /\ A1(c).to[1] = columnFromNumber(c - 1)
    BY DEF A1
  <1>6. ColumnNumber(columnFromNumber(0)) = 0 /\ ColumnNumber(columnFromNumber(c - 1)) = c - 1
    BY ColumnOf
  <1>7. ColumnNumber(A1(c).to[1]) - ColumnNumber(A1(c).from[1]) + 1 = c
    BY <1>5, <1>6
  <1> QED BY <1>2, <1>3, <1>4, <1>7, Zenon

-----------------------------------------------------------------------------
(* The four together.                                                        *)

\* Columns have names of their own, base64url keeps every bit, a row of CSV is read as
\* it was written, and the range of js2sheet is as wide as its row: for columns, bytes,
\* fields and JSON texts of any length, whatever the programs have done.
THEOREM ConversionsAreRight == DeliverySpec => []ConversionsRight
  <1>1. CodecRight
    BY ColumnsAreNamed, BitsAreKept, FieldsAreReadBack, RangesFitRows DEF CodecRight
  <1>2. ConversionsRight
    BY <1>1 DEF ConversionsRight
  <1> QED BY <1>2, PTL

-----------------------------------------------------------------------------

USE IdsAssumption, InboxesAssumption

-----------------------------------------------------------------------------
(* What all programs have in common.                                         *)

\* Nothing is in hand.
Idle == pc \in {"loop", "ended", "crashed"}

\* A program takes the next message, or lets go of it at once.
Takes ==
    /\ pc = "loop" /\ inbox # <<>> /\ inbox' = Tail(inbox)
    /\ msg' = Head(inbox) \/ (msg' = msg /\ pc' = "loop")

Stays == UNCHANGED <<inbox, msg>> /\ (Idle => Idle')

LEMMA Shape == [Next]_deliveryVars => sink' = sink /\ (Takes \/ Stays)
  <1> SUFFICES ASSUME [Next]_deliveryVars PROVE sink' = sink /\ (Takes \/ Stays)
    OBVIOUS
  <1> USE DEF At, Goes, Receive, ReceiveFails, Leave, Idle, Takes, Stays
  <1>1. CASE PqStep
    BY <1>1 DEF PqStep, pqwriter_run, dbconnect, Begin, Exec, End, GivesUp
  <1>2. CASE FcmStep \/ FcmDumpStep
    BY <1>2 DEF FcmStep, FcmDumpStep, fcm_writer_run, Lookup, getDeviceTimeZone, push2instance, AllPushed,
       fcmdumper_imei, Query, Back
  <1>3. CASE DumpStep
    BY <1>2, <1>3 DEF DumpStep, pqdumper_run, fcmdumper_run, dumper_run, dumper_fails, Insert, nn_freemsg, FreeBuffer
  <1>4. CASE run_stream \/ run_stream_copy \/ run_socket \/ run_socket_send \/ pkt2gateway_main \/ pkt2gateway_send
    BY <1>4 DEF run_stream, run_stream_copy, run_socket, run_socket_send, pkt2gateway_main, pkt2gateway_send
  <1>5. CASE repeator_run \/ repeator_send
    BY <1>5 DEF repeator_run, repeator_send
  <1>6. CASE tcp_emitter_line \/ messageemitter_line \/ pkt2js_run
    BY <1>6 DEF tcp_emitter_line, messageemitter_line, pkt2js_run, ReadsLine
  <1>7. CASE Outside
    BY <1>7 DEF Outside, Signal, pkt2gateway_signal, sinkVars
  <1>8. ASSUME NEW w \in Writers, Writer(w) PROVE sink' = sink /\ (Takes \/ Stays)
    BY <1>8 DEF Writer, sinkVars
  <1>9. CASE UNCHANGED deliveryVars
    BY <1>9 DEF deliveryVars, sinkVars
  <1> QED
    BY <1>1, <1>2, <1>3, <1>4, <1>5, <1>6, <1>7, <1>8, <1>9
       DEF Next, Step, PqWriters, Notifiers, DumperStep, Passing, GateStep

\* What is to arrive comes in the order of its ids, and after what is in hand.
Ordered ==
    /\ inbox \in Seq(Messages)
    /\ \A i, j \in 1..Len(inbox) : i < j => inbox[i].id < inbox[j].id

InHand == ~Idle => msg \in Messages /\ \A i \in 1..Len(inbox) : msg.id < inbox[i].id

Arrives == Ordered /\ InHand

\* Head and Tail of what is to arrive.
LEMMA InboxParts ==
    ASSUME Ordered, inbox # <<>>, inbox' = Tail(inbox)
    PROVE  /\ Head(inbox) = inbox[1] /\ inbox[1] \in Messages /\ 1 \in 1..Len(inbox)
           /\ Len(inbox') \in Nat /\ Len(inbox) = Len(inbox') + 1 /\ inbox' \in Seq(Messages)
           /\ \A i \in 1..Len(inbox') : i + 1 \in 1..Len(inbox) /\ inbox'[i] = inbox[i + 1]
           /\ \A i \in 1..Len(inbox') : inbox[1].id < inbox'[i].id
  <1>1. inbox \in Seq(Messages) /\ Len(inbox) \in Nat /\ Len(inbox) >= 1
    BY DEF Ordered
  <1>2. /\ Head(inbox) = inbox[1] /\ inbox[1] \in Messages /\ 1 \in 1..Len(inbox)
        /\ Len(inbox') \in Nat /\ Len(inbox) = Len(inbox') + 1 /\ inbox' \in Seq(Messages)
        /\ \A i \in 1..Len(inbox') : i + 1 \in 1..Len(inbox) /\ inbox'[i] = inbox[i + 1]
    BY <1>1
  <1>3. \A i \in 1..Len(inbox') : inbox[1].id < inbox'[i].id
    BY <1>2 DEF Ordered
  <1> QED BY <1>2, <1>3

LEMMA InitArrives == Init => Arrives
  BY SinksAssumption DEF Init, SinkInit, Arrives, Ordered, InHand, Idle

LEMMA StepArrives == Arrives /\ [Next]_deliveryVars => Arrives'
  <1> SUFFICES ASSUME Arrives, [Next]_deliveryVars PROVE Arrives'
    OBVIOUS
  <1>1. CASE Takes
    <2>1. /\ Head(inbox) = inbox[1] /\ inbox[1] \in Messages
          /\ Len(inbox') \in Nat /\ Len(inbox) = Len(inbox') + 1 /\ inbox' \in Seq(Messages)
          /\ \A i \in 1..Len(inbox') : i + 1 \in 1..Len(inbox) /\ inbox'[i] = inbox[i + 1]
          /\ \A i \in 1..Len(inbox') : inbox[1].id < inbox'[i].id
      BY <1>1, InboxParts DEF Takes, Arrives
    <2>2. Ordered'
      <3> SUFFICES ASSUME NEW i \in 1..Len(inbox'), NEW j \in 1..Len(inbox'), i < j
                   PROVE  inbox'[i].id < inbox'[j].id
        BY <2>1 DEF Ordered
      <3>1. i + 1 \in 1..Len(inbox) /\ j + 1 \in 1..Len(inbox) /\ i + 1 < j + 1
        BY <2>1
      <3>2. inbox[i + 1].id < inbox[j + 1].id
        BY <3>1 DEF Arrives, Ordered
      <3> QED BY <2>1, <3>2
    <2>3. InHand'
      BY <1>1, <2>1 DEF Takes, InHand, Idle
    <2> QED BY <2>2, <2>3 DEF Arrives
  <1>2. CASE Stays
    BY <1>2 DEF Stays, Arrives, Ordered, InHand
  <1> QED BY <1>1, <1>2, Shape

-----------------------------------------------------------------------------
(* handlerpq                                                                *)

\* The messages that are still to be stored: what is to arrive, and what is handled.
Waiting(m) == (\E i \in 1..Len(inbox) : inbox[i] = m) \/ (~Idle /\ m = msg)

PqTypes == mode \in {"sql", "sql2", "none"} /\ txn \in Nat /\ table \in [Messages -> Nat]

\* Nothing of a message is in the table before its END.
NothingEarly == \A m \in Messages : Waiting(m) => table[m] = 0

PqInv == sink = "pqwriter" => PqTypes /\ NothingEarly /\ WholeMessages

LEMMA StatementsNat ==
    ASSUME NEW m \in Messages
    PROVE  Statements(m) \in Nat
  BY FieldsAssumption DEF Statements

LEMMA InitPq == Init => PqInv
  <1> SUFFICES ASSUME Init, sink = "pqwriter" PROVE PqTypes /\ NothingEarly /\ WholeMessages
    BY DEF PqInv
  <1>1. PICK m \in {"sql", "sql2", "none"} : PqInit(m)
    BY DEF Init
  <1> QED BY <1>1 DEF PqInit, PqTypes, NothingEarly, WholeMessages

\* A message that waits after a step has waited before it.
LEMMA WaitingShrinks ==
    ASSUME Arrives, Takes \/ Stays, NEW m \in Messages, Waiting(m)'
    PROVE  Waiting(m)
  <1>1. CASE Stays
    BY <1>1 DEF Stays, Waiting
  <1>2. CASE Takes
    <2>1. /\ Head(inbox) = inbox[1] /\ 1 \in 1..Len(inbox)
          /\ \A i \in 1..Len(inbox') : i + 1 \in 1..Len(inbox) /\ inbox'[i] = inbox[i + 1]
      BY <1>2, InboxParts DEF Takes, Arrives
    <2>2. CASE \E i \in 1..Len(inbox') : inbox'[i] = m
      BY <2>1, <2>2 DEF Waiting
    <2>3. CASE ~Idle' /\ m = msg'
      BY <1>2, <2>1, <2>3 DEF Takes, Idle, Waiting
    <2> QED BY <2>2, <2>3 DEF Waiting
  <1> QED BY <1>1, <1>2

\* A step that stores nothing.
LEMMA PqMoves ==
    ASSUME Arrives, PqTypes, NothingEarly, WholeMessages, sink = "pqwriter", Takes \/ Stays, sink' = sink,
           UNCHANGED <<mode, table>>, txn' \in Nat
    PROVE  PqTypes' /\ NothingEarly' /\ WholeMessages'
  <1>1. NothingEarly'
    BY WaitingShrinks DEF NothingEarly
  <1> QED BY <1>1 DEF PqTypes, WholeMessages, Statements

\* END: all rows of the message, or none, whether or not the answer comes.
LEMMA Commits ==
    ASSUME Arrives, PqTypes, NothingEarly, WholeMessages, sink = "pqwriter", sink' = sink,
           pc = "exec", txn = Statements(msg), Committed, UNCHANGED <<inbox, msg>>, pc' = "loop"
    PROVE  PqTypes' /\ NothingEarly' /\ WholeMessages'
  <1>1. msg \in Messages /\ \A i \in 1..Len(inbox) : inbox[i] # msg
    <2>1. msg \in Messages /\ \A i \in 1..Len(inbox) : msg.id < inbox[i].id
      BY DEF Arrives, InHand, Idle
    <2>2. \A i \in 1..Len(inbox) : inbox[i] = msg => msg.id < msg.id
      BY <2>1
    <2> QED BY <2>1, <2>2
  <1>2. /\ table \in [Messages -> Nat] /\ table[msg] = 0 /\ Statements(msg) \in Nat
        /\ table' = [table EXCEPT ![msg] = table[msg] + txn] /\ mode' = mode /\ txn' = 0
    BY <1>1, StatementsNat DEF PqTypes, NothingEarly, Waiting, Committed, Idle
  <1>3. table'[msg] = Statements(msg) /\ \A m \in Messages : m # msg => table'[m] = table[m]
    BY <1>1, <1>2
  <1>4. PqTypes'
    BY <1>1, <1>2 DEF PqTypes
  <1>5. NothingEarly'
    BY <1>1, <1>3 DEF NothingEarly, Waiting, Idle
  <1>6. WholeMessages'
    BY <1>2, <1>3 DEF WholeMessages, Statements
  <1> QED BY <1>4, <1>5, <1>6

LEMMA StepPq == Arrives /\ PqInv /\ [Next]_deliveryVars => PqInv'
  <1> SUFFICES ASSUME Arrives, PqInv, [Next]_deliveryVars, sink' = "pqwriter"
               PROVE  PqTypes' /\ NothingEarly' /\ WholeMessages'
    BY DEF PqInv
  <1>0. sink = "pqwriter" /\ sink' = sink /\ (Takes \/ Stays)
    BY Shape
  <1>1. PqTypes /\ NothingEarly /\ WholeMessages /\ txn \in Nat /\ txn + 1 \in Nat
    BY <1>0 DEF PqInv, PqTypes
  <1>2. CASE PqStep
    <2>1. CASE UNCHANGED <<mode, table>> /\ txn' \in {0, txn, txn + 1}
      BY <1>0, <1>1, <2>1, PqMoves
    <2>2. CASE pqwriter_run \/ dbconnect \/ Begin \/ Exec
      BY <2>1, <2>2 DEF pqwriter_run, dbconnect, Begin, Exec, GivesUp, pqVars
    <2>3. CASE End
      <3>1. CASE GivesUp
        BY <2>1, <3>1 DEF GivesUp
      <3> QED BY <1>0, <1>1, <2>3, <3>1, Commits DEF End, At, Goes
    <2> QED BY <1>2, <2>2, <2>3 DEF PqStep
  <1>3. CASE UNCHANGED pqVars
    BY <1>0, <1>1, <1>3, PqMoves DEF pqVars
  <1>4. PqStep \/ UNCHANGED pqVars
    BY <1>0 DEF Next, Step, PqWriters, Notifiers, DumperStep, Passing, DumpStep, pqdumper_run, fcmdumper_run,
       Insert, nn_freemsg, FreeBuffer, At, Writer, Outside, pkt2gateway_signal, deliveryVars, pqVars, Dumpers
  <1> QED BY <1>2, <1>3, <1>4

(***************************************************************************)
(* handlerpq: the rows of a message are in the table all or not at all,            *)
(* whatever fails in execSQL() and although the answer to END may be lost.          *)
(***************************************************************************)
THEOREM StoredWhole == DeliverySpec => []WholeMessages
  <1>1. Init => Arrives /\ PqInv
    BY InitArrives, InitPq
  <1>2. Arrives /\ PqInv /\ [Next]_deliveryVars => Arrives' /\ PqInv'
    BY StepArrives, StepPq
  <1>3. PqInv => WholeMessages
    BY DEF PqInv, WholeMessages
  <1> QED BY <1>1, <1>2, <1>3, PTL DEF DeliverySpec

-----------------------------------------------------------------------------
(* pkt2dumppq and pkt2dumpfcm: the buffer                                      *)

\* Between two packets a buffer of nanomsg that is still held is that of a short packet.
HoldsShort == pc = "loop" /\ buffer = "message" => getPayloadSize(holds.size) < 0

BufferInv == sink \in Dumpers => HoldsShort /\ BuffersAccounted

LEMMA InitBuffer == Init => BufferInv
  <1> SUFFICES ASSUME Init, sink \in Dumpers PROVE HoldsShort /\ BuffersAccounted
    BY DEF BufferInv
  <1>1. PICK o \in BOOLEAN : DumpInit(o)
    BY DEF Init
  <1> QED BY <1>1 DEF Init, SinkInit, DumpInit, HoldsShort, BuffersAccounted

\* A step that does not touch the buffer and does not come back to the loop.
LEMMA BufferStays ==
    ASSUME HoldsShort, BuffersAccounted, sink \in Dumpers, UNCHANGED dumpVars,
           pc' = "loop" => pc = "loop", pc' = "crashed" => pc = "crashed"
    PROVE  HoldsShort' /\ BuffersAccounted'
  BY DEF HoldsShort, BuffersAccounted, dumpVars

LEMMA TakesPacket ==
    ASSUME HoldsShort, BuffersAccounted, sink \in Dumpers, NEW s, NEW there,
           dumper_run(s, there), there \notin {"loop", "crashed"}
    PROVE  HoldsShort' /\ BuffersAccounted'
  <1>1. pc = "loop" /\ own' = own /\ pc' # "crashed"
    BY DEF dumper_run, At
  <1>2. CASE own
    <2>1. UNCHANGED <<buffer, holds, leaked>> /\ buffer = "own"
      BY <1>2 DEF dumper_run, InBuffer, BuffersAccounted
    <2> QED BY <1>1, <2>1 DEF HoldsShort, BuffersAccounted
  <1>3. CASE ~own
    <2>1. buffer' = "message" /\ holds' = Head(inbox) /\ leaked' \subseteq leaked \cup {holds}
          /\ (buffer # "message" => leaked' = leaked)
      BY <1>3 DEF dumper_run, InBuffer
    <2>2. HoldsShort'
      BY <2>1 DEF dumper_run, HoldsShort
    <2>3. \A m \in leaked' : getPayloadSize(m.size) < 0
      BY <1>1, <2>1 DEF HoldsShort, BuffersAccounted
    <2> QED BY <1>1, <1>3, <2>2, <2>3 DEF BuffersAccounted
  <1> QED BY <1>2, <1>3

LEMMA StepBuffer == BufferInv /\ [Next]_deliveryVars => BufferInv'
  <1> SUFFICES ASSUME BufferInv, [Next]_deliveryVars, sink' \in Dumpers
               PROVE  HoldsShort' /\ BuffersAccounted'
    BY DEF BufferInv
  <1>0. sink \in Dumpers /\ sink' = sink
    BY Shape
  <1>1. HoldsShort /\ BuffersAccounted
    BY <1>0 DEF BufferInv
  <1>2. CASE pqdumper_run \/ fcmdumper_run
    <2>1. CASE dumper_run("pqdumper", "insert") \/ dumper_run("fcmdumper", "lookup")
      BY <1>0, <1>1, <2>1, TakesPacket
    <2>2. CASE dumper_fails("pqdumper") \/ dumper_fails("fcmdumper")
      BY <1>0, <1>1, <2>2, BufferStays DEF dumper_fails, ReceiveFails, At, Goes
    <2> QED BY <1>2, <2>1, <2>2 DEF pqdumper_run, fcmdumper_run
  <1>3. CASE Insert
    BY <1>0, <1>1, <1>3, BufferStays DEF Insert, Goes
  <1>4. CASE nn_freemsg
    BY <1>0, <1>1, <1>4 DEF nn_freemsg, Goes, HoldsShort, BuffersAccounted
  <1>5. CASE FreeBuffer
    BY <1>0, <1>1, <1>5 DEF FreeBuffer, Goes, HoldsShort, BuffersAccounted, dumpVars
  <1>6. CASE sink = "fcmdumper" /\ FcmDumpStep /\ UNCHANGED dumpVars
    <2>1. pc' \notin {"loop", "crashed"}
      BY <1>6 DEF FcmDumpStep, fcmdumper_imei, Query, push2instance, AllPushed, At, Goes, Back
    <2> QED BY <1>0, <1>1, <1>6, <2>1, BufferStays
  <1>7. CASE UNCHANGED <<dumpVars, pc>>
    BY <1>0, <1>1, <1>7, BufferStays
  <1>8. \/ DumpStep \/ UNCHANGED <<dumpVars, pc>>
    BY <1>0 DEF Next, Step, PqWriters, PqStep, pqwriter_run, dbconnect, Begin, Exec, End, Receive, ReceiveFails,
       Leave, At, Notifiers, DumperStep, Passing, GateStep, run_stream, run_stream_copy, run_socket,
       run_socket_send, pkt2gateway_main, pkt2gateway_send, repeator_run, repeator_send, tcp_emitter_line,
       messageemitter_line, pkt2js_run, ReadsLine, Writer, Outside, Signal, pkt2gateway_signal, sinkVars,
       deliveryVars, Dumpers
  <1> QED BY <1>2, <1>3, <1>4, <1>5, <1>6, <1>7, <1>8 DEF DumpStep

(***************************************************************************)
(* A dumper with a buffer of its own frees nothing twice and loses nothing; one     *)
(* with -b 0 loses the buffers of packets that are too short, and no others,        *)
(* however many packets, signals and failures there are.                        *)
(***************************************************************************)
THEOREM NothingFreedTwice == DeliverySpec => []BuffersAccounted
  <1>1. BufferInv => BuffersAccounted
    BY DEF BufferInv, BuffersAccounted
  <1> QED BY InitBuffer, StepBuffer, <1>1, PTL DEF DeliverySpec

-----------------------------------------------------------------------------
(* handler-fcm and pkt2dumpfcm: whom they push to                               *)

Pushers == {"fcm-writer", "fcmdumper"}
MessageIds == {m.id : m \in Messages}

\* Those notified and those in the list that is left are a first part of list.
Continues(done, rest, list) ==
    /\ Len(done) + Len(rest) <= Len(list)
    /\ \A i \in 1..Len(done) : done[i] = list[i]
    /\ \A i \in 1..Len(rest) : rest[i] = list[Len(done) + i]

PushTypes == pushed \in [MessageIds -> Seq(STRING)] /\ tokens \in Seq(STRING)

NobodyYet ==
    /\ \A i \in 1..Len(inbox) : pushed[inbox[i].id] = <<>>
    /\ pc \in {"lookup", "query"} => pushed[msg.id] = <<>>

ListInHand == pc \in {"zone", "push"} => \E list \in Recipients(msg) : Continues(pushed[msg.id], tokens, list)

Notifies == PushTypes /\ NobodyYet /\ ListInHand /\ NotifiedInTurn

PushInv == sink \in Pushers => Notifies

LEMMA FirstPart ==
    ASSUME NEW s \in Seq(STRING), NEW t \in Seq(STRING), Len(s) <= Len(t), \A i \in 1..Len(s) : s[i] = t[i]
    PROVE  IsPrefix(s, t)
  <1>1. Len(s) \in Nat /\ Len(t) \in Nat
    OBVIOUS
  <1>2. \A i \in 1..Len(s) : i \in 1..Len(t)
    BY <1>1
  <1>3. SubSeq(t, 1, Len(s)) \in Seq(STRING) /\ Len(SubSeq(t, 1, Len(s))) = Len(s)
        /\ \A i \in 1..Len(s) : SubSeq(t, 1, Len(s))[i] = t[i]
    BY <1>1
  <1>4. s = SubSeq(t, 1, Len(s))
    BY <1>1, <1>3
  <1>5. SubSeq(s, 1, Len(s)) = s
    BY <1>1
  <1> QED BY <1>1, <1>4, <1>5 DEF IsPrefix

LEMMA RecipientLists ==
    ASSUME NEW m \in Messages
    PROVE  Recipients(m) # {} /\ Recipients(m) \subseteq Seq(STRING)
  <1>1. CASE m.imei = NoImei
    BY <1>1 DEF Recipients
  <1>2. CASE m.imei # NoImei
    <2>1. Root \in Seq(STRING) /\ Owners[m.imei] \in Seq(STRING)
      BY <1>2, OwnersAssumption
    <2>2. Root \o Owners[m.imei] \in Seq(STRING)
      BY <2>1
    <2> QED BY <1>2, <2>1, <2>2 DEF Recipients
  <1> QED BY <1>1, <1>2

LEMMA NobodyIsFirst ==
    ASSUME NEW list \in Seq(STRING)
    PROVE  IsPrefix(<<>>, list)
  <1>1. <<>> \in Seq(STRING) /\ Len(<<>>) = 0 /\ Len(list) \in Nat
    OBVIOUS
  <1>2. Len(<<>>) <= Len(list) /\ \A i \in 1..Len(<<>>) : <<>>[i] = list[i]
    BY <1>1
  <1> QED BY <1>1, <1>2, FirstPart

\* A list that has just been asked for.
LEMMA NewList ==
    ASSUME NEW list \in Seq(STRING)
    PROVE  Continues(<<>>, list, list) /\ Continues(<<>>, <<>>, list)
  BY DEF Continues

\* The first of the list is notified.
LEMMA OneMore ==
    ASSUME NEW done \in Seq(STRING), NEW rest \in Seq(STRING), NEW list \in Seq(STRING),
           rest # <<>>, Continues(done, rest, list)
    PROVE  /\ Append(done, Head(rest)) \in Seq(STRING) /\ Tail(rest) \in Seq(STRING)
           /\ Continues(Append(done, Head(rest)), Tail(rest), list)
           /\ IsPrefix(Append(done, Head(rest)), list)
  <1> DEFINE d == Append(done, Head(rest))
             t == Tail(rest)
  <1>1. /\ Len(done) \in Nat /\ Len(rest) \in Nat /\ Len(rest) >= 1 /\ Head(rest) = rest[1] /\ rest[1] \in STRING
        /\ d \in Seq(STRING) /\ Len(d) = Len(done) + 1 /\ t \in Seq(STRING) /\ Len(t) = Len(rest) - 1
        /\ Len(list) \in Nat /\ Len(t) \in Nat
    OBVIOUS
  <1>2. \A i \in 1..Len(done) : d[i] = done[i]
    OBVIOUS
  <1>3. d[Len(done) + 1] = rest[1] /\ \A i \in 1..Len(t) : t[i] = rest[i + 1] /\ i + 1 \in 1..Len(rest)
    BY <1>1
  <1>4. /\ Len(done) + Len(rest) <= Len(list)
        /\ \A i \in 1..Len(done) : done[i] = list[i]
        /\ \A i \in 1..Len(rest) : rest[i] = list[Len(done) + i]
    BY DEF Continues
  <1>5. rest[1] = list[Len(done) + 1]
    BY <1>1, <1>4
  <1>6. \A i \in 1..Len(d) : d[i] = list[i]
    <2> SUFFICES ASSUME NEW i \in 1..Len(d) PROVE d[i] = list[i]
      OBVIOUS
    <2>1. CASE i = Len(done) + 1
      BY <1>3, <1>5, <2>1
    <2>2. CASE i # Len(done) + 1
      <3>1. i \in 1..Len(done)
        BY <1>1, <2>2
      <3> QED BY <1>2, <1>4, <3>1
    <2> QED BY <2>1, <2>2
  <1>7. \A i \in 1..Len(t) : t[i] = list[Len(d) + i]
    <2> SUFFICES ASSUME NEW i \in 1..Len(t) PROVE t[i] = list[Len(d) + i]
      OBVIOUS
    <2>1. i \in Nat /\ i + 1 \in 1..Len(rest) /\ t[i] = rest[i + 1]
      BY <1>1, <1>3
    <2>2. rest[i + 1] = list[Len(done) + (i + 1)]
      BY <1>4, <2>1
    <2>3. Len(done) + (i + 1) = Len(d) + i
      BY <1>1, <2>1
    <2> QED BY <2>1, <2>2, <2>3
  <1>8. Len(d) + Len(t) <= Len(list) /\ Len(d) <= Len(list)
    BY <1>1, <1>4
  <1>9. IsPrefix(d, list)
    BY <1>1, <1>6, <1>8, FirstPart
  <1>10. Continues(d, t, list)
    BY <1>6, <1>7, <1>8 DEF Continues
  <1> QED BY <1>1, <1>9, <1>10

LEMMA InitPush == Init => PushInv
  <1> SUFFICES ASSUME Init PROVE Notifies
    BY DEF PushInv
  <1>1. pc = "loop" /\ tokens = <<>> /\ pushed = [n \in MessageIds |-> <<>>]
    BY DEF Init, SinkInit, FcmInit, MessageIds
  <1>2. PushTypes
    BY <1>1 DEF PushTypes
  <1>3. \A m \in Messages : pushed[m.id] = <<>>
    BY <1>1 DEF MessageIds
  <1>4. inbox \in Seq(Messages)
    BY InitArrives DEF Arrives, Ordered
  <1>5. NobodyYet
    BY <1>1, <1>3, <1>4 DEF NobodyYet
  <1>6. NotifiedInTurn
    BY <1>3, RecipientLists, NobodyIsFirst DEF NotifiedInTurn
  <1> QED BY <1>1, <1>2, <1>5, <1>6 DEF Notifies, ListInHand

\* A step that notifies nobody: it takes the next message, or goes on to a place where it
\* has the same list or none.
LEMMA PushStays ==
    ASSUME Arrives, Notifies, sink' = sink, UNCHANGED <<pushed, tokens>>, Takes \/ UNCHANGED <<inbox, msg>>,
           Takes => pc' \in {"loop", "lookup"},
           ~Takes => pc' \notin {"lookup", "query", "zone", "push"} \/ pc' = pc
                     \/ (pc = "lookup" /\ pc' = "query") \/ (pc = "zone" /\ pc' = "push")
    PROVE  Notifies'
  <1>1. PushTypes' /\ NotifiedInTurn'
    BY DEF Notifies, PushTypes, NotifiedInTurn, Recipients
  <1>2. NobodyYet'
    <2>1. CASE Takes
      <3>1. /\ Head(inbox) = inbox[1] /\ 1 \in 1..Len(inbox)
            /\ \A i \in 1..Len(inbox') : i + 1 \in 1..Len(inbox) /\ inbox'[i] = inbox[i + 1]
        BY <2>1, InboxParts DEF Takes, Arrives
      <3>2. \A i \in 1..Len(inbox') : pushed[inbox'[i].id] = <<>>
        BY <3>1 DEF Notifies, NobodyYet
      <3>3. pc' = "lookup" => pushed[msg'.id] = <<>>
        BY <2>1, <3>1 DEF Takes, Notifies, NobodyYet
      <3> QED BY <2>1, <3>2, <3>3 DEF NobodyYet
    <2>2. CASE ~Takes
      BY <2>2 DEF Notifies, NobodyYet
    <2> QED BY <2>1, <2>2
  <1>3. ListInHand'
    <2>1. CASE Takes
      BY <2>1 DEF ListInHand
    <2>2. CASE ~Takes
      <3>1. pc' \in {"zone", "push"} => pc \in {"zone", "push"}
        BY <2>2
      <3>2. ListInHand
        BY DEF Notifies
      <3>3. Recipients(msg)' = Recipients(msg) /\ UNCHANGED <<pushed, tokens, msg>>
        BY <2>2 DEF Recipients
      <3> QED BY <3>1, <3>2, <3>3 DEF ListInHand
    <2> QED BY <2>1, <2>2
  <1> QED BY <1>1, <1>2, <1>3 DEF Notifies

\* A step that asks for the list.
LEMMA PushAsks ==
    ASSUME Notifies, pc \in {"lookup", "query"}, pc' \in {"zone", "push"}, UNCHANGED <<sink, inbox, msg, pushed>>,
           msg \in Messages, sink \in Pushers,
           tokens' = <<>> \/ tokens' \in Recipients(msg)
    PROVE  Notifies'
  <1>1. Recipients(msg) # {} /\ Recipients(msg) \subseteq Seq(STRING)
    BY RecipientLists
  <1>2. PushTypes' /\ NobodyYet'
    <2>1. tokens' \in Seq(STRING)
      <3>1. CASE tokens' = <<>>
        BY <3>1
      <3>2. CASE tokens' \in Recipients(msg)
        BY <1>1, <3>2
      <3> QED BY <3>1, <3>2
    <2> QED BY <2>1 DEF Notifies, PushTypes, NobodyYet
  <1>6. NotifiedInTurn'
    BY DEF Notifies, NotifiedInTurn, Recipients
  <1>3. pushed'[msg'.id] = <<>>
    BY DEF Notifies, NobodyYet
  <1>4. \E list \in Recipients(msg) : Continues(<<>>, tokens', list)
    BY <1>1, NewList
  <1>5. ListInHand'
    BY <1>3, <1>4 DEF ListInHand, Recipients
  <1> QED BY <1>2, <1>5, <1>6 DEF Notifies

\* A push that arrives, and what comes after it.
LEMMA PushArrives ==
    ASSUME Arrives, Notifies, pc = "push", tokens # <<>>, UNCHANGED <<sink, inbox, msg>>, sink \in Pushers,
           tokens' = Tail(tokens), Pushed, pc' \notin {"lookup", "query"}
    PROVE  Notifies'
  <1>1. msg \in Messages /\ \A i \in 1..Len(inbox) : inbox[i] \in Messages /\ inbox[i].id # msg.id
    BY DEF Arrives, Ordered, InHand, Idle
  <1>2. pushed \in [MessageIds -> Seq(STRING)] /\ tokens \in Seq(STRING)
    BY DEF Notifies, PushTypes
  <1>3. msg.id \in MessageIds /\ \A m \in Messages : m.id \in MessageIds
    BY <1>1 DEF MessageIds
  <1>4. PICK list \in Recipients(msg) : Continues(pushed[msg.id], tokens, list)
    BY DEF Notifies, ListInHand
  <1>5. list \in Seq(STRING)
    BY <1>1, RecipientLists
  <1> DEFINE more == Append(pushed[msg.id], Head(tokens))
  <1>6. /\ more \in Seq(STRING) /\ Tail(tokens) \in Seq(STRING)
        /\ Continues(more, Tail(tokens), list) /\ IsPrefix(more, list)
    BY <1>2, <1>3, <1>4, <1>5, OneMore
  <1>7. pushed' = [pushed EXCEPT ![msg.id] = more]
    BY <1>2, <1>3 DEF Pushed
  <1> HIDE DEF more
  <1>8. /\ pushed'[msg.id] = more
        /\ \A n \in MessageIds : n # msg.id => pushed'[n] = pushed[n]
        /\ pushed' \in [MessageIds -> Seq(STRING)]
    BY <1>2, <1>3, <1>6, <1>7
  <1>9. PushTypes'
    BY <1>6, <1>8 DEF PushTypes
  <1>10. NobodyYet'
    <2>1. \A i \in 1..Len(inbox) : pushed'[inbox[i].id] = <<>>
      BY <1>1, <1>3, <1>8 DEF Notifies, NobodyYet
    <2> QED BY <2>1 DEF NobodyYet
  <1>11. ListInHand'
    BY <1>4, <1>6, <1>8 DEF ListInHand, Recipients
  <1>12. NotifiedInTurn'
    <2> SUFFICES ASSUME NEW m \in Messages PROVE \E l \in Recipients(m) : IsPrefix(pushed'[m.id], l)
      BY DEF NotifiedInTurn, Recipients
    <2>1. CASE m = msg
      BY <1>4, <1>6, <1>8, <2>1
    <2>2. CASE m # msg
      <3>1. pushed'[m.id] = pushed[m.id]
        BY <1>1, <1>3, <1>8, <2>2
      <3>2. \E l \in Recipients(m) : IsPrefix(pushed[m.id], l)
        BY DEF Notifies, NotifiedInTurn, Pushers
      <3> QED BY <3>1, <3>2
    <2> QED BY <2>1, <2>2
  <1> QED BY <1>9, <1>10, <1>11, <1>12 DEF Notifies

LEMMA StepPush == Arrives /\ PushInv /\ [Next]_deliveryVars => PushInv'
  <1> SUFFICES ASSUME Arrives, PushInv, [Next]_deliveryVars, sink' \in Pushers PROVE Notifies'
    BY DEF PushInv
  <1>1. sink' = sink /\ sink \in Pushers /\ Notifies
    BY Shape DEF PushInv
  <1>2. CASE fcm_writer_run
    BY <1>1, <1>2, PushStays DEF fcm_writer_run, Receive, ReceiveFails, Leave, At, Goes, Takes, fcmVars
  <1>3. CASE fcmdumper_run
    BY <1>1, <1>3, PushStays
       DEF fcmdumper_run, dumper_run, dumper_fails, ReceiveFails, At, Goes, Takes, fcmVars
  <1>4. CASE Lookup
    <2>1. msg \in Messages /\ UNCHANGED <<sink, inbox, msg, pushed>> /\ pc = "lookup" /\ sink = "fcm-writer"
      BY <1>4 DEF Lookup, At, Goes, Arrives, InHand, Idle
    <2>2. CASE pc' = "zone"
      <3>1. tokens' = IF msg.imei = NoImei THEN <<>> ELSE Owners[msg.imei]
        BY <1>4, <2>2 DEF Lookup, Goes
      <3>2. tokens' = <<>> \/ tokens' \in Recipients(msg)
        BY <2>1, <3>1 DEF Recipients
      <3> QED BY <1>1, <2>1, <2>2, <3>2, PushAsks
    <2>3. CASE pc' # "zone"
      <3>1. pc' = "loop" /\ UNCHANGED tokens
        BY <1>4, <2>3 DEF Lookup, Goes
      <3> QED BY <1>1, <2>1, <3>1, PushStays DEF Takes
    <2> QED BY <2>2, <2>3
  <1>5. CASE getDeviceTimeZone
    BY <1>1, <1>5, PushStays DEF getDeviceTimeZone, At, Goes, Takes
  <1>6. CASE fcmdumper_imei
    BY <1>1, <1>6, PushStays DEF fcmdumper_imei, At, Goes, Takes, fcmVars
  <1>7. CASE Query
    <2>1. /\ msg \in Messages /\ UNCHANGED <<sink, inbox, msg, pushed>> /\ pc = "query" /\ pc' = "push"
          /\ sink = "fcmdumper"
      BY <1>7 DEF Query, At, Goes, Arrives, InHand, Idle
    <2>2. tokens' = <<>> \/ (msg.imei # NoImei /\ tokens' \in {Root, Owners[msg.imei], Root \o Owners[msg.imei]})
      BY <1>7 DEF Query
    <2>3. tokens' = <<>> \/ tokens' \in Recipients(msg)
      BY <2>1, <2>2 DEF Recipients
    <2> QED BY <1>1, <2>1, <2>3, PushAsks
  <1>8. CASE push2instance
    <2>1. /\ UNCHANGED <<sink, inbox, msg>> /\ pc = "push" /\ pc' \notin {"lookup", "query"} /\ tokens # <<>>
          /\ tokens' = Tail(tokens)
      BY <1>8 DEF push2instance, Goes, Back
    <2>2. CASE Pushed
      BY <1>1, <2>1, <2>2, PushArrives
    <2>3. CASE ~Pushed
      <3>1. UNCHANGED pushed /\ pc' \in {"free", "loop"}
        BY <1>8, <2>3 DEF push2instance, Goes, Back
      <3>2. tokens' \in Seq(STRING)
        BY <1>1, <2>1 DEF Notifies, PushTypes
      <3> QED BY <1>1, <2>1, <3>1, <3>2
              DEF Notifies, PushTypes, NobodyYet, ListInHand, NotifiedInTurn, Recipients
    <2> QED BY <2>2, <2>3
  <1>9. CASE AllPushed
    BY <1>1, <1>9, PushStays DEF AllPushed, At, Goes, Back, Takes, fcmVars
  <1>10. CASE nn_freemsg \/ FreeBuffer
    BY <1>1, <1>10, PushStays DEF nn_freemsg, FreeBuffer, At, Goes, Takes, fcmVars
  <1>11. CASE Outside \/ UNCHANGED deliveryVars
    BY <1>1, <1>11, PushStays
       DEF Outside, Signal, pkt2gateway_signal, deliveryVars, sinkVars, fcmVars, Takes, Pushers
  <1>12. ~(PqStep \/ pqdumper_run \/ Insert \/ GateStep \/ \E w \in Writers : Writer(w))
    BY <1>1 DEF PqStep, pqwriter_run, dbconnect, Begin, Exec, End, pqdumper_run, dumper_run, dumper_fails, Insert,
       Receive, ReceiveFails, Leave, At, GateStep, run_stream, run_stream_copy, run_socket,
       run_socket_send, pkt2gateway_main, pkt2gateway_send, repeator_run, repeator_send, tcp_emitter_line,
       messageemitter_line, pkt2js_run, ReadsLine, Writer, Pushers
  <1> QED
    BY <1>2, <1>3, <1>4, <1>5, <1>6, <1>7, <1>8, <1>9, <1>10, <1>11, <1>12
       DEF Next, Step, PqWriters, Notifiers, FcmStep, FcmDumpStep, DumperStep, DumpStep, Passing

(***************************************************************************)
(* For any subscribers, messages and failures: those notified of a message are a     *)
(* first part of a list the database has for its device, and nobody is notified     *)
(* of a message of somebody else's device.                                      *)
(***************************************************************************)
THEOREM NotifiesInTurn == DeliverySpec => []NotifiedInTurn
  <1>1. PushInv => NotifiedInTurn
    BY DEF PushInv, Notifies, NotifiedInTurn, Pushers
  <1> QED BY InitArrives, StepArrives, InitPush, StepPush, <1>1, PTL DEF DeliverySpec

-----------------------------------------------------------------------------
(* How often an id is in a sequence.                                         *)

Places(s, id) == {i \in 1..Len(s) : s[i] = id}
Occurs(s, id) == Cardinality(Places(s, id))

LEMMA OccursNat ==
    ASSUME NEW s \in Seq(Nat), NEW id
    PROVE  IsFiniteSet(Places(s, id)) /\ Occurs(s, id) \in Nat
  <1>1. 1 \in Int /\ Len(s) \in Int
    OBVIOUS
  <1>2. IsFiniteSet(1..Len(s))
    BY <1>1, FS_Interval
  <1>3. IsFiniteSet(Places(s, id))
    BY <1>2, FS_Subset DEF Places
  <1> QED BY <1>3, FS_CardinalityType DEF Occurs

LEMMA OccursNot ==
    ASSUME NEW s \in Seq(Nat), NEW id, \A i \in 1..Len(s) : s[i] # id
    PROVE  Occurs(s, id) = 0
  <1>1. Places(s, id) = {}
    BY DEF Places
  <1> QED BY <1>1, FS_EmptySet DEF Occurs

LEMMA OccursAppend ==
    ASSUME NEW s \in Seq(Nat), NEW x \in Nat, NEW id
    PROVE  Occurs(Append(s, x), id) = (IF x = id THEN Occurs(s, id) + 1 ELSE Occurs(s, id))
  <1> DEFINE t == Append(s, x)
  <1>1. Len(s) \in Nat /\ Len(t) = Len(s) + 1 /\ t[Len(s) + 1] = x /\ \A i \in 1..Len(s) : t[i] = s[i]
    OBVIOUS
  <1> HIDE DEF t
  <1>2. \A i : i \in 1..Len(t) <=> i \in 1..Len(s) \/ i = Len(s) + 1
    BY <1>1
  <1>3. Len(s) + 1 \notin Places(s, id)
    BY <1>1 DEF Places
  <1>4. CASE x = id
    <2>1. Places(t, id) = Places(s, id) \cup {Len(s) + 1}
      BY <1>1, <1>2, <1>4 DEF Places
    <2> QED BY <1>3, <1>4, <2>1, OccursNat, FS_AddElement DEF Occurs, t
  <1>5. CASE x # id
    <2>1. Places(t, id) = Places(s, id)
      BY <1>1, <1>2, <1>5 DEF Places
    <2> QED BY <1>5, <2>1 DEF Occurs, t
  <1> QED BY <1>4, <1>5

-----------------------------------------------------------------------------
(* The gateways, the repeator and the emitters                                 *)

Careful == {"message2gateway-stream", "message2gateway-socket", "repeator"}

\* How often the message in hand has been tried for address a.
Tried(a) ==
    IF sink \in Repeats THEN (IF a = Out1 THEN copies ELSE 0)
    ELSE IF sink = "repeator" /\ \E k \in 1..copies : Outs[k] = a THEN 1 ELSE 0

GateTypes ==
    /\ retries \in Nat /\ copies \in Nat /\ sent \in [ToSet(Outs) -> Seq(Nat)]
    /\ pc \in {"loop", "copy", "ended", "crashed"}

\* What was sent is in order, and nothing of it comes after what is in hand or to arrive.
InTurn ==
    \A a \in ToSet(Outs) :
        /\ \A i, j \in 1..Len(sent[a]) : i < j => sent[a][i] <= sent[a][j]
        /\ \A i \in 1..Len(sent[a]), j \in 1..Len(inbox) : sent[a][i] < inbox[j].id
        /\ pc = "copy" => \A i \in 1..Len(sent[a]) : sent[a][i] <= msg.id

\* The copies of the message in hand: as many as were tried, or fewer and one is lost.
CopyInHand ==
    pc = "copy" =>
        /\ sink \in Repeats => copies <= retries
        /\ sink = "repeator" => copies <= Len(Outs)
        /\ \A a \in ToSet(Outs) :
              /\ Occurs(sent[a], msg.id) <= Tried(a)
              /\ Occurs(sent[a], msg.id) = Tried(a) \/ <<a, msg.id>> \in lost

NotTooOften == \A a \in ToSet(Outs) : \A m \in Messages : Occurs(sent[a], m.id) <= Times

\* The addresses that are to get every message.
Served == IF sink = "repeator" THEN ToSet(Outs) ELSE {Out1}

OftenEnough ==
    sink \in Careful =>
        \A a \in Served : \A m \in Settled : Occurs(sent[a], m.id) = Times \/ <<a, m.id>> \in lost

GateInv == sink \in Gates => GateTypes /\ InTurn /\ CopyInHand /\ NotTooOften /\ OftenEnough

LEMMA OutsFacts ==
    /\ Len(Outs) \in Nat /\ 1 \in 1..Len(Outs) /\ Out1 \in ToSet(Outs)
    /\ \A k \in 1..Len(Outs) : Outs[k] \in ToSet(Outs)
    /\ \A a \in ToSet(Outs) : \E k \in 1..Len(Outs) : Outs[k] = a
  <1>1. Outs \in Seq(ToSet(Outs)) /\ Outs # <<>>
    BY OutsAssumption
  <1>2. Len(Outs) \in Nat /\ 1 \in 1..Len(Outs) /\ DOMAIN Outs = 1..Len(Outs)
    BY <1>1
  <1> QED BY <1>2 DEF ToSet, Out1

LEMMA GateSays == GateInv => PassedOnInOrder
  <1>1. \A a, id : CountOf(a, id) = Occurs(sent[a], id)
    BY DEF CountOf, Occurs, Places
  <1> QED BY <1>1, OutsFacts DEF GateInv, PassedOnInOrder, InTurn, NotTooOften, OftenEnough, Careful, Served

LEMMA InitGate == Init => GateInv
  <1> SUFFICES ASSUME Init, sink \in Gates
               PROVE  GateTypes /\ InTurn /\ CopyInHand /\ NotTooOften /\ OftenEnough
    BY DEF GateInv
  <1>1. pc = "loop" /\ copies = 0 /\ sent = [a \in ToSet(Outs) |-> <<>>] /\ inbox = Inboxes[sink]
    BY DEF Init, SinkInit, GateInit
  <1>2. retries \in Nat
    BY RetriesAssumption DEF Init, GateInit
  <1>3. \A a \in ToSet(Outs) : sent[a] = <<>>
    BY <1>1
  <1>4. GateTypes
    BY <1>1, <1>2 DEF GateTypes
  <1>5. InTurn /\ CopyInHand
    BY <1>1, <1>3 DEF InTurn, CopyInHand
  <1>6. \A a \in ToSet(Outs) : \A id : Occurs(sent[a], id) = 0
    <2>1. <<>> \in Seq(Nat) /\ \A id : \A i \in 1..Len(<<>>) : <<>>[i] # id
      OBVIOUS
    <2>2. \A id : Occurs(<<>>, id) = 0
      BY <2>1, OccursNot
    <2> QED BY <1>3, <2>2
  <1>7. NotTooOften
    BY <1>2, <1>6 DEF NotTooOften, Times
  <1>8. Settled = {}
    BY <1>1 DEF Settled
  <1> QED BY <1>4, <1>5, <1>7, <1>8 DEF OftenEnough

\* The next message is taken, or dropped at once.
LEMMA GateTakes ==
    ASSUME Arrives, GateInv, sink \in Gates, sink' = sink, Takes, pc' \in {"loop", "copy"},
           pc' = "copy" => msg' = Head(inbox) /\ (copies' = 0 \/ sink \notin Repeats \cup {"repeator"}),
           pc' = "loop" => msg' = msg /\ (sink \in Careful => Head(inbox).class # "good"),
           copies' \in Nat, UNCHANGED <<retries, sent, lost>>
    PROVE  GateInv'
  <1>1. GateTypes /\ InTurn /\ NotTooOften /\ OftenEnough
    BY DEF GateInv
  <1>2. /\ Head(inbox) = inbox[1] /\ inbox[1] \in Messages /\ 1 \in 1..Len(inbox)
        /\ \A i \in 1..Len(inbox') : i + 1 \in 1..Len(inbox) /\ inbox'[i] = inbox[i + 1]
    BY InboxParts DEF Arrives, Takes
  <1>3. GateTypes' /\ NotTooOften'
    BY <1>1 DEF GateTypes, NotTooOften, Times
  <1>4. \A a \in ToSet(Outs) : \A i \in 1..Len(sent[a]) : sent[a][i] \in Nat /\ sent[a][i] < inbox[1].id
    BY <1>1, <1>2 DEF InTurn, GateTypes
  <1>5. InTurn'
    <2> SUFFICES ASSUME NEW a \in ToSet(Outs)
                 PROVE  /\ \A i, j \in 1..Len(sent[a]) : i < j => sent[a][i] <= sent[a][j]
                        /\ \A i \in 1..Len(sent[a]), j \in 1..Len(inbox') : sent[a][i] < inbox'[j].id
                        /\ pc' = "copy" => \A i \in 1..Len(sent[a]) : sent[a][i] <= msg'.id
      BY DEF InTurn
    <2>1. \A i, j \in 1..Len(sent[a]) : i < j => sent[a][i] <= sent[a][j]
      BY <1>1 DEF InTurn
    <2>2. \A i \in 1..Len(sent[a]), j \in 1..Len(inbox') : sent[a][i] < inbox'[j].id
      BY <1>1, <1>2 DEF InTurn
    <2>3. pc' = "copy" => \A i \in 1..Len(sent[a]) : sent[a][i] <= msg'.id
      BY <1>2, <1>4
    <2> QED BY <2>1, <2>2, <2>3
  <1>6. CopyInHand'
    <2> SUFFICES ASSUME pc' = "copy" PROVE CopyInHand'
      BY DEF CopyInHand
    <2>1. \A a \in ToSet(Outs) : Occurs(sent[a], msg'.id) = 0
      <3> SUFFICES ASSUME NEW a \in ToSet(Outs) PROVE Occurs(sent[a], msg'.id) = 0
        OBVIOUS
      <3>1. \A i \in 1..Len(sent[a]) : sent[a][i] # msg'.id
        BY <1>2, <1>4
      <3>2. sent[a] \in Seq(Nat)
        BY <1>1 DEF GateTypes
      <3> QED BY <3>1, <3>2, OccursNot
    <2>2. \A a : Tried(a)' = 0
      BY DEF Tried, Repeats
    <2>3. (sink \in Repeats => copies' <= retries') /\ (sink = "repeator" => copies' <= Len(Outs))
      BY <1>1, OutsFacts DEF GateTypes
    <2> QED BY <2>1, <2>2, <2>3 DEF CopyInHand
  <1>7. OftenEnough'
    <2> SUFFICES ASSUME sink \in Careful PROVE \A m \in Settled' : m \in Settled
      BY <1>1 DEF OftenEnough, Served, Times
    <2> SUFFICES ASSUME NEW m \in Settled' PROVE m \in Settled
      OBVIOUS
    <2>1. m \in ToSet(Inboxes[sink]) /\ m.class = "good" /\ m \notin ToSet(inbox') /\ (pc' # "copy" \/ m # msg')
      BY DEF Settled
    <2>2. m # inbox[1]
      BY <1>2, <2>1
    <2>3. m \notin ToSet(inbox)
      <3>1. inbox \in Seq(Messages) /\ inbox' = Tail(inbox)
        BY DEF Arrives, Ordered, Takes
      <3>2. \A i \in 1..Len(inbox) : i # 1 => i - 1 \in 1..Len(inbox') /\ inbox'[i - 1] = inbox[i]
        BY <3>1
      <3>3. DOMAIN inbox = 1..Len(inbox) /\ DOMAIN inbox' = 1..Len(inbox')
        BY <3>1
      <3>4. ASSUME NEW i \in 1..Len(inbox), inbox[i] = m PROVE FALSE
        BY <2>1, <2>2, <3>2, <3>3, <3>4 DEF ToSet
      <3> QED BY <3>3, <3>4 DEF ToSet
    <2>4. pc # "copy"
      BY DEF Takes
    <2> QED BY <2>1, <2>3, <2>4 DEF Settled
  <1> QED BY <1>3, <1>5, <1>6, <1>7 DEF GateInv

\* What a send to address a does to the counts of the message in hand, and to no others.
LEMMA SendCounts ==
    ASSUME GateTypes, NEW a \in ToSet(Outs), SendTo(a), msg \in Messages
    PROVE  /\ sent' \in [ToSet(Outs) -> Seq(Nat)] /\ lost \subseteq lost'
           /\ \A b \in ToSet(Outs) : b # a => sent'[b] = sent[b]
           /\ sent'[a] = sent[a] \/ sent'[a] = Append(sent[a], msg.id)
           /\ \A id : id # msg.id => Occurs(sent'[a], id) = Occurs(sent[a], id)
           /\ \/ Occurs(sent'[a], msg.id) = Occurs(sent[a], msg.id) + 1
              \/ Occurs(sent'[a], msg.id) = Occurs(sent[a], msg.id) /\ <<a, msg.id>> \in lost'
  <1>1. sent \in [ToSet(Outs) -> Seq(Nat)] /\ sent[a] \in Seq(Nat) /\ msg.id \in Nat
    BY DEF GateTypes
  <1>2. CASE sent' = [sent EXCEPT ![a] = Append(@, msg.id)] /\ UNCHANGED lost
    <2>1. sent'[a] = Append(sent[a], msg.id)
      BY <1>1, <1>2
    <2>2. \A id : Occurs(sent'[a], id) = (IF msg.id = id THEN Occurs(sent[a], id) + 1 ELSE Occurs(sent[a], id))
      BY <1>1, <2>1, OccursAppend
    <2>3. sent' \in [ToSet(Outs) -> Seq(Nat)] /\ \A b \in ToSet(Outs) : b # a => sent'[b] = sent[b]
      BY <1>1, <1>2
    <2> QED BY <1>2, <2>1, <2>2, <2>3
  <1>3. CASE lost' = lost \cup {<<a, msg.id>>} /\ UNCHANGED sent
    BY <1>1, <1>3
  <1> QED BY <1>2, <1>3 DEF SendTo

\* What a send does to the order.
LEMMA SendOrder ==
    ASSUME Arrives, GateTypes, InTurn, pc = "copy", NEW a \in ToSet(Outs), SendTo(a), UNCHANGED <<inbox, msg>>
    PROVE  InTurn'
  <1>1. msg \in Messages /\ msg.id \in Nat /\ \A j \in 1..Len(inbox) : msg.id < inbox[j].id /\ inbox[j].id \in Nat
    BY DEF Arrives, Ordered, InHand, Idle
  <1>2. /\ sent' \in [ToSet(Outs) -> Seq(Nat)] /\ \A b \in ToSet(Outs) : b # a => sent'[b] = sent[b]
        /\ sent'[a] = sent[a] \/ sent'[a] = Append(sent[a], msg.id)
    BY <1>1, SendCounts
  <1>3. /\ \A i, j \in 1..Len(sent'[a]) : i < j => sent'[a][i] <= sent'[a][j]
        /\ \A i \in 1..Len(sent'[a]) : sent'[a][i] <= msg.id
    <2>1. sent[a] \in Seq(Nat)
      BY DEF GateTypes
    <2>2. /\ \A i, j \in 1..Len(sent[a]) : i < j => sent[a][i] <= sent[a][j]
          /\ \A i \in 1..Len(sent[a]) : sent[a][i] <= msg.id
      BY DEF InTurn
    <2>3. CASE sent'[a] = sent[a]
      BY <2>2, <2>3
    <2>4. CASE sent'[a] = Append(sent[a], msg.id)
      <3>1. /\ Len(sent[a]) \in Nat /\ Len(sent'[a]) = Len(sent[a]) + 1 /\ sent'[a][Len(sent[a]) + 1] = msg.id
            /\ \A i \in 1..Len(sent[a]) : sent'[a][i] = sent[a][i]
        BY <1>1, <2>1, <2>4
      <3>2. \A i \in 1..Len(sent'[a]) : i \in 1..Len(sent[a]) \/ i = Len(sent[a]) + 1
        BY <3>1
      <3>3. \A i \in 1..Len(sent'[a]) : sent'[a][i] <= msg.id
        BY <1>1, <2>2, <3>1, <3>2
      <3>4. ASSUME NEW i \in 1..Len(sent'[a]), NEW j \in 1..Len(sent'[a]), i < j PROVE sent'[a][i] <= sent'[a][j]
        <4>1. i \in 1..Len(sent[a])
          BY <3>1, <3>4
        <4>2. CASE j \in 1..Len(sent[a])
          BY <2>2, <3>1, <3>4, <4>1, <4>2
        <4>3. CASE j = Len(sent[a]) + 1
          BY <3>1, <3>3, <4>3
        <4> QED BY <3>2, <4>2, <4>3
      <3> QED BY <3>3, <3>4
    <2> QED BY <1>2, <2>3, <2>4
  <1>4. \A i \in 1..Len(sent'[a]), j \in 1..Len(inbox) : sent'[a][i] < inbox[j].id
    <2>1. \A i \in 1..Len(sent'[a]) : sent'[a][i] \in Nat
      BY <1>2
    <2> QED BY <1>1, <1>3, <2>1
  <1> QED BY <1>2, <1>3, <1>4 DEF InTurn

\* A send of the message in hand, after which there are more to come or none.
LEMMA GateSends ==
    ASSUME Arrives, GateInv, sink \in Gates, pc = "copy", NEW a \in ToSet(Outs), SendTo(a),
           UNCHANGED <<sink, inbox, msg, retries>>, copies' \in Nat, pc' \in {"loop", "copy"},
           Tried(a) + 1 <= Times,
           pc' = "copy" => /\ \A b \in ToSet(Outs) : Tried(b)' = (IF b = a THEN Tried(b) + 1 ELSE Tried(b))
                           /\ sink \in Repeats => copies' <= retries
                           /\ sink = "repeator" => copies' <= Len(Outs),
           pc' = "loop" /\ sink \in Careful => Served = {a} /\ Tried(a) + 1 = Times
    PROVE  GateInv'
  <1>1. GateTypes /\ InTurn /\ CopyInHand /\ NotTooOften /\ OftenEnough
    BY DEF GateInv
  <1>2. msg \in Messages
    BY DEF Arrives, InHand, Idle
  <1>3. /\ sent' \in [ToSet(Outs) -> Seq(Nat)] /\ lost \subseteq lost'
        /\ \A b \in ToSet(Outs) : b # a => sent'[b] = sent[b]
        /\ \A id : id # msg.id => Occurs(sent'[a], id) = Occurs(sent[a], id)
        /\ \/ Occurs(sent'[a], msg.id) = Occurs(sent[a], msg.id) + 1
           \/ Occurs(sent'[a], msg.id) = Occurs(sent[a], msg.id) /\ <<a, msg.id>> \in lost'
    BY <1>1, <1>2, SendCounts
  <1>4. /\ \A b \in ToSet(Outs) : \A id : Occurs(sent[b], id) \in Nat
        /\ \A b : Tried(b) \in Nat
        /\ Times \in Nat
    <2>1. \A b \in ToSet(Outs) : sent[b] \in Seq(Nat)
      BY <1>1 DEF GateTypes
    <2>2. \A b \in ToSet(Outs) : \A id : Occurs(sent[b], id) \in Nat
      BY <2>1, OccursNat
    <2>3. \A b : Tried(b) \in Nat
      BY <1>1 DEF GateTypes, Tried
    <2>4. Times \in Nat
      BY <1>1 DEF GateTypes, Times
    <2> QED BY <2>2, <2>3, <2>4
  <1>5. \A b \in ToSet(Outs) : /\ Occurs(sent[b], msg.id) <= Tried(b)
                               /\ Occurs(sent[b], msg.id) = Tried(b) \/ <<b, msg.id>> \in lost
    BY <1>1 DEF CopyInHand
  <1>6. /\ Occurs(sent'[a], msg.id) <= Tried(a) + 1
        /\ Occurs(sent'[a], msg.id) = Tried(a) + 1 \/ <<a, msg.id>> \in lost'
        /\ Occurs(sent'[a], msg.id) \in Nat
    <2> DEFINE before == Occurs(sent[a], msg.id)
               after == Occurs(sent'[a], msg.id)
               tried == Tried(a)
    <2>1. before \in Nat /\ tried \in Nat
      BY <1>4
    <2>2. before <= tried /\ (before = tried \/ <<a, msg.id>> \in lost)
      BY <1>5
    <2>3. /\ after = before + 1 \/ (after = before /\ <<a, msg.id>> \in lost')
          /\ lost \subseteq lost'
      BY <1>3
    <2> HIDE DEF before, after, tried
    <2>4. /\ after <= tried + 1 /\ after \in Nat
          /\ after = tried + 1 \/ <<a, msg.id>> \in lost'
      BY <2>1, <2>2, <2>3
    <2> QED BY <2>4 DEF after, tried
  <1>7. GateTypes' /\ InTurn'
    BY <1>1, <1>3, SendOrder DEF GateTypes
  <1>8. CopyInHand'
    <2> SUFFICES ASSUME pc' = "copy" PROVE CopyInHand'
      BY DEF CopyInHand
    <2>1. \A b \in ToSet(Outs) : /\ Occurs(sent'[b], msg.id) <= Tried(b)'
                                 /\ Occurs(sent'[b], msg.id) = Tried(b)' \/ <<b, msg.id>> \in lost'
      <3> SUFFICES ASSUME NEW b \in ToSet(Outs)
                   PROVE  /\ Occurs(sent'[b], msg.id) <= Tried(b)'
                          /\ Occurs(sent'[b], msg.id) = Tried(b)' \/ <<b, msg.id>> \in lost'
        OBVIOUS
      <3>1. CASE b = a
        BY <1>6, <3>1
      <3>2. CASE b # a
        <4>1. Tried(b)' = Tried(b) /\ sent'[b] = sent[b]
          BY <1>3, <3>2
        <4> QED BY <1>3, <1>5, <4>1
      <3> QED BY <3>1, <3>2
    <2> QED BY <2>1 DEF CopyInHand
  <1>9. NotTooOften'
    <2>1. Times' = Times
      BY DEF Times
    <2> SUFFICES ASSUME NEW b \in ToSet(Outs), NEW m \in Messages PROVE Occurs(sent'[b], m.id) <= Times
      BY <2>1 DEF NotTooOften
    <2>2. Occurs(sent[b], m.id) <= Times
      BY <1>1 DEF NotTooOften
    <2>3. CASE b = a /\ m.id = msg.id
      <3>1. Tried(a) \in Nat
        BY <1>4
      <3> QED BY <1>4, <1>6, <2>3, <3>1
    <2>4. CASE ~(b = a /\ m.id = msg.id)
      BY <1>3, <2>2, <2>4
    <2> QED BY <2>3, <2>4
  <1>10. OftenEnough'
    <2> SUFFICES ASSUME sink \in Careful, NEW b \in Served, NEW m \in Settled'
                 PROVE  Occurs(sent'[b], m.id) = Times \/ <<b, m.id>> \in lost'
      BY DEF OftenEnough, Served, Times
    <2>1. b \in ToSet(Outs)
      BY OutsFacts DEF Served
    <2>2. m.class = "good" /\ m \in Messages
      <3>1. sink \in DOMAIN Inboxes
        BY SinksAssumption DEF Sinks
      <3>2. Inboxes[sink] \in Seq(Messages) /\ m \in ToSet(Inboxes[sink])
        BY <3>1 DEF Settled
      <3> QED BY <3>2 DEF Settled, ToSet
    <2>3. CASE m = msg
      <3>1. pc' = "loop"
        BY <2>3 DEF Settled
      <3>2. b = a /\ Tried(a) + 1 = Times
        BY <3>1
      <3> QED BY <1>6, <2>3, <3>2
    <2>4. CASE m # msg
      <3>1. m \in Settled
        BY <2>4 DEF Settled
      <3>2. Occurs(sent[b], m.id) = Times \/ <<b, m.id>> \in lost
        BY <1>1, <3>1 DEF OftenEnough
      <3>3. m.id # msg.id
        BY <1>2, <2>2, <2>4
      <3>4. Occurs(sent'[b], m.id) = Occurs(sent[b], m.id)
        BY <1>3, <2>1, <3>3
      <3> QED BY <1>3, <3>2, <3>4
    <2> QED BY <2>3, <2>4
  <1> QED BY <1>7, <1>8, <1>9, <1>10 DEF GateInv

\* Nothing is sent: the message in hand stays so, or is done with.
LEMMA GateRests ==
    ASSUME GateInv, sink \in Gates, UNCHANGED <<sink, inbox, msg, retries, copies, sent>>, lost \subseteq lost',
           pc' = pc \/ pc' \in {"loop", "ended", "crashed"},
           pc = "copy" /\ pc' # "copy" /\ sink \in Careful => \A b \in Served : Tried(b) = Times
    PROVE  GateInv'
  <1>1. GateTypes /\ InTurn /\ CopyInHand /\ NotTooOften /\ OftenEnough
    BY DEF GateInv
  <1>2. GateTypes' /\ InTurn' /\ NotTooOften'
    BY <1>1 DEF GateTypes, InTurn, NotTooOften, Times
  <1>3. CopyInHand'
    <2>1. \A b : Tried(b)' = Tried(b)
      BY DEF Tried
    <2> QED BY <1>1, <2>1 DEF CopyInHand
  <1>4. OftenEnough'
    <2> SUFFICES ASSUME sink \in Careful, NEW b \in Served, NEW m \in Settled'
                 PROVE  Occurs(sent[b], m.id) = Times \/ <<b, m.id>> \in lost
      BY DEF OftenEnough, Served, Times
    <2>1. CASE m \in Settled
      BY <1>1, <2>1 DEF OftenEnough
    <2>2. CASE m \notin Settled
      <3>1. pc = "copy" /\ pc' # "copy" /\ m = msg
        BY <2>2 DEF Settled
      <3>2. b \in ToSet(Outs) /\ Tried(b) = Times
        BY <3>1, OutsFacts DEF Served
      <3> QED BY <1>1, <3>1, <3>2 DEF CopyInHand
    <2> QED BY <2>1, <2>2
  <1> QED BY <1>2, <1>3, <1>4 DEF GateInv

LEMMA StepGate == Arrives /\ GateInv /\ [Next]_deliveryVars => GateInv'
  <1> SUFFICES ASSUME Arrives, GateInv, [Next]_deliveryVars, sink' \in Gates PROVE GateInv'
    BY DEF GateInv
  <1>1. sink' = sink /\ sink \in Gates
    BY Shape
  <1>2. GateTypes /\ CopyInHand
    BY <1>1 DEF GateInv
  <1>3. retries \in Nat /\ copies \in Nat /\ Len(Outs) \in Nat /\ Out1 \in ToSet(Outs)
    BY <1>2, OutsFacts DEF GateTypes
  <1>4. sink \in Repeats /\ pc = "copy" => copies <= retries
    BY <1>2 DEF CopyInHand
  <1>5. CASE run_stream
    BY <1>1, <1>3, <1>5, GateTakes, GateRests
       DEF run_stream, Goes, Same, NotSent, gateVars, Takes, Careful
  <1>6. ASSUME sink \in Repeats, pc = "copy", copies < retries, SendTo(Out1), copies' = copies + 1,
               pc' \in {"loop", "copy"}, pc' = "loop" => sink = "tcpemitter",
               UNCHANGED <<inbox, msg, retries>>
        PROVE  GateInv'
    <2>1. Tried(Out1) = copies /\ Times = retries
      BY <1>6 DEF Tried, Times, Repeats
    <2>2. \A b \in ToSet(Outs) : Tried(b)' = (IF b = Out1 THEN Tried(b) + 1 ELSE Tried(b))
      BY <1>1, <1>6 DEF Tried
    <2>3. copies' \in Nat /\ copies' <= retries /\ copies + 1 <= retries
      BY <1>3, <1>6
    <2>4. sink # "repeator" /\ (pc' = "loop" => sink \notin Careful)
      BY <1>6 DEF Repeats, Careful
    <2> QED BY <1>1, <1>3, <1>6, <2>1, <2>2, <2>3, <2>4, GateSends
  <1>7. CASE run_stream_copy
    <2>1. CASE copies < retries
      BY <1>1, <1>3, <1>6, <1>7, <2>1 DEF run_stream_copy, Goes, Repeats
    <2>2. CASE ~(copies < retries)
      <3>1. copies = retries /\ Goes("loop") /\ UNCHANGED <<retries, copies, sent, lost>> /\ pc = "copy"
            /\ sink = "message2gateway-stream"
        BY <1>7, <2>2 DEF run_stream_copy
      <3>2. \A b \in Served : Tried(b) = Times
        BY <3>1 DEF Served, Tried, Times, Repeats
      <3> QED BY <1>1, <3>1, <3>2, GateRests DEF Goes
    <2> QED BY <2>1, <2>2
  <1>8. CASE run_socket
    BY <1>1, <1>3, <1>8, GateTakes, GateRests
       DEF run_socket, Receive, ReceiveFails, Leave, At, Goes, Same, gateVars, Takes, Repeats, Careful
  <1>9. CASE run_socket_send
    <2>1. /\ sink = "message2gateway-socket" /\ pc = "copy" /\ SendTo(Out1) /\ pc' = "loop"
          /\ UNCHANGED <<inbox, msg, retries, copies>>
      BY <1>9 DEF run_socket_send, At, Goes
    <2>2. Tried(Out1) = 0 /\ Times = 1 /\ Served = {Out1}
      BY <2>1 DEF Tried, Times, Served, Repeats
    <2> QED BY <1>1, <1>3, <2>1, <2>2, GateSends
  <1>10. CASE pkt2gateway_main
    BY <1>1, <1>3, <1>10, GateTakes, GateRests
       DEF pkt2gateway_main, At, Goes, Same, gateVars, Takes, Careful
  <1>11. CASE pkt2gateway_send
    <2>1. CASE cont /\ copies < retries
      BY <1>1, <1>3, <1>6, <1>11, <2>1 DEF pkt2gateway_send, At, Goes, Repeats
    <2>2. CASE ~(cont /\ copies < retries)
      BY <1>1, <1>11, <2>2, GateRests DEF pkt2gateway_send, At, Goes, Careful
    <2> QED BY <2>1, <2>2
  <1>12. CASE repeator_run
    <2>1. CASE Receive("repeator", "copy", {"good", "other", "noise", "short"}) /\ copies' = 0 /\ NotSent
      BY <1>1, <1>3, <2>1, GateTakes DEF Receive, At, NotSent, Takes
    <2>2. CASE (ReceiveFails("repeator") \/ Leave("repeator")) /\ Same
      BY <1>1, <2>2, GateRests DEF ReceiveFails, Leave, At, Goes, Same, gateVars
    <2> QED BY <1>12, <2>1, <2>2 DEF repeator_run
  <1>13. CASE repeator_send
    <2>1. sink = "repeator" /\ pc = "copy" /\ UNCHANGED retries /\ Times = 1 /\ sink \notin Repeats
      BY <1>13 DEF repeator_send, At, Times, Repeats
    <2>2. CASE copies < Len(Outs)
      <3>1. SendTo(Outs[copies + 1]) /\ copies' = copies + 1 /\ Goes("copy")
        BY <1>3, <1>13, <2>2 DEF repeator_send
      <3>2. copies + 1 \in 1..Len(Outs) /\ copies' <= Len(Outs) /\ Outs[copies + 1] \in ToSet(Outs)
        BY <1>3, <2>2, <3>1, OutsFacts
      <3>3. \A k \in 1..copies : k \in 1..Len(Outs) /\ k # copies + 1
        BY <1>3, <2>2
      <3>4. \A k \in 1..copies : Outs[k] # Outs[copies + 1]
        BY <3>2, <3>3, OutsAssumption
      <3>5. Tried(Outs[copies + 1]) = 0
        BY <2>1, <3>4 DEF Tried
      <3>6. \A k : k \in 1..copies' <=> k \in 1..copies \/ k = copies + 1
        BY <1>3, <3>1
      <3>7. \A b : (\E k \in 1..copies' : Outs[k] = b) <=> (\E k \in 1..copies : Outs[k] = b) \/ b = Outs[copies + 1]
        BY <3>6
      <3>8. \A b \in ToSet(Outs) : Tried(b)' = (IF b = Outs[copies + 1] THEN Tried(b) + 1 ELSE Tried(b))
        <4> SUFFICES ASSUME NEW b \in ToSet(Outs)
                     PROVE  Tried(b)' = (IF b = Outs[copies + 1] THEN Tried(b) + 1 ELSE Tried(b))
          OBVIOUS
        <4>1. /\ Tried(b) = (IF \E k \in 1..copies : Outs[k] = b THEN 1 ELSE 0)
              /\ Tried(b)' = (IF \E k \in 1..copies' : Outs[k] = b THEN 1 ELSE 0)
          BY <1>1, <2>1 DEF Tried
        <4>2. CASE b = Outs[copies + 1]
          BY <3>5, <3>7, <4>1, <4>2
        <4>3. CASE b # Outs[copies + 1]
          BY <3>7, <4>1, <4>3
        <4> QED BY <4>2, <4>3
      <3> QED BY <1>1, <1>3, <2>1, <3>1, <3>2, <3>5, <3>8, GateSends DEF Goes
    <2>3. CASE ~(copies < Len(Outs))
      <3>1. copies = Len(Outs) /\ Goes("loop") /\ UNCHANGED <<copies, sent, lost>>
        BY <1>13, <2>3 DEF repeator_send
      <3>2. \A b \in ToSet(Outs) : Tried(b) = 1
        BY <2>1, <3>1, OutsFacts DEF Tried
      <3> QED BY <1>1, <2>1, <3>1, <3>2, GateRests DEF Goes, Served
    <2> QED BY <2>2, <2>3
  <1>14. ASSUME NEW s \in {"tcpemitter", "messageemitter"}, NEW wanted, ReadsLine(s, wanted) PROVE GateInv'
    <2>1. CASE opened /\ Receive(s, "copy", wanted) /\ copies' = 0 /\ NotSent
      BY <1>1, <1>3, <1>14, <2>1, GateTakes DEF Receive, At, NotSent, Takes, Careful
    <2>2. CASE At(s, "loop") /\ Goes("ended") /\ Same
      BY <1>1, <1>14, <2>2, GateRests DEF At, Goes, Same, gateVars
    <2> QED BY <1>14, <2>1, <2>2 DEF ReadsLine
  <1>15. CASE tcp_emitter_line
    <2>1. CASE ReadsLine("tcpemitter", {"good", "other"})
      BY <1>14, <2>1
    <2>2. CASE At("tcpemitter", "copy") /\ copies < retries /\ SendTo(Out1) /\ copies' = copies + 1
               /\ Goes(IF stop THEN "loop" ELSE "copy") /\ UNCHANGED retries
      BY <1>6, <2>2 DEF At, Goes, Repeats
    <2>3. CASE At("tcpemitter", "copy") /\ (Goes("ended") \/ Goes("loop")) /\ UNCHANGED <<retries, copies, sent, lost>>
      BY <1>1, <2>3, GateRests DEF At, Goes, Careful
    <2> QED BY <1>15, <2>1, <2>2, <2>3 DEF tcp_emitter_line
  <1>16. CASE messageemitter_line
    BY <1>14, <1>16 DEF messageemitter_line
  <1>17. CASE pkt2js_run
    <2>1. sink = "pkt2js" /\ sink \notin Repeats \cup Careful \cup {"repeator"} /\ UNCHANGED <<retries, copies>>
      BY <1>17 DEF pkt2js_run, Receive, At, Repeats, Careful, Same, gateVars
    <2>2. CASE Receive("pkt2js", "copy", {"good"}) /\ Same
      BY <1>1, <1>3, <2>1, <2>2, GateTakes DEF Receive, At, Same, gateVars, Takes
    <2>3. CASE At("pkt2js", "loop") /\ (Goes("crashed") \/ Goes("ended")) /\ Same
      BY <1>1, <2>1, <2>3, GateRests DEF At, Goes, Same, gateVars
    <2>4. CASE At("pkt2js", "copy") /\ Goes("loop") /\ SendTo(Out1)
      <3>1. Tried(Out1) = 0 /\ Times = 1
        BY <2>1 DEF Tried, Times, Repeats
      <3> QED BY <1>1, <1>3, <2>1, <2>4, <3>1, GateSends DEF At, Goes
    <2>5. CASE At("pkt2js", "copy") /\ Goes("loop") /\ lost \subseteq lost' /\ UNCHANGED sent
      BY <1>1, <2>1, <2>5, GateRests DEF At, Goes
    <2> QED BY <1>17, <2>2, <2>3, <2>4, <2>5 DEF pkt2js_run
  <1>18. CASE Outside \/ UNCHANGED deliveryVars
    BY <1>1, <1>18, GateRests DEF Outside, Signal, pkt2gateway_signal, deliveryVars, sinkVars, gateVars, Gates, Streams
  <1>19. ~(PqStep \/ DumpStep \/ sink = "fcm-writer" \/ \E w \in Writers : Writer(w))
    BY <1>1 DEF PqStep, pqwriter_run, dbconnect, Begin, Exec, End, DumpStep, pqdumper_run, fcmdumper_run, dumper_run,
       dumper_fails, Insert, nn_freemsg, FreeBuffer, Receive, ReceiveFails, Leave, At, Writer, Gates, Streams, Dumpers
  <1> QED
    BY <1>5, <1>7, <1>8, <1>9, <1>10, <1>11, <1>12, <1>13, <1>15, <1>16, <1>17, <1>18, <1>19
       DEF Next, Step, PqWriters, Notifiers, DumperStep, Passing, GateStep

(***************************************************************************)
(* For any addresses, retries and failures: an address gets the messages in the      *)
(* order they came in, never more often than they are to be sent, and misses one     *)
(* only if a send of that message to that address failed.                        *)
(***************************************************************************)
THEOREM PassesOnInOrder == DeliverySpec => []PassedOnInOrder
  BY InitArrives, StepArrives, InitGate, StepGate, GateSays, PTL DEF DeliverySpec

-----------------------------------------------------------------------------
(* The writers of Google Sheets                                               *)

\* Writer w appends a row.
Held(w) == gpc[w] \in {"post", "gen", "again"}

SheetTypes ==
    /\ gpc \in [Writers -> {"new", "gen0", "take", "post", "gen", "again", "aborted"}] /\ grows \in [Writers -> Seq(RowType)]
    /\ grow \in [Writers -> RowType \cup {NoRow}] /\ cells \in Seq(Nat)

\* No two writers have the same row, to take or in hand.
RowsApart ==
    /\ \A v, w \in Writers : \A i \in 1..Len(grows[v]), j \in 1..Len(grows[w]) :
          grows[v][i].id = grows[w][j].id => v = w /\ i = j
    /\ \A v, w \in Writers : Held(w) => \A j \in 1..Len(grows[v]) : grow[w].id # grows[v][j].id
    /\ \A v, w \in Writers : Held(v) /\ Held(w) /\ grow[v].id = grow[w].id => v = w

Untouched(row) == Occurs(cells, row) = 0 /\ row \notin told /\ row \notin unanswered

Fresh ==
    \A w \in Writers :
        /\ \A i \in 1..Len(grows[w]) : Untouched(grows[w][i].id)
        /\ gpc[w] = "post" => Untouched(grow[w].id)

\* After the first attempt a row is in the sheet exactly if its answer was lost.
HalfDone(row) == row \notin told /\ Occurs(cells, row) = (IF row \in unanswered THEN 1 ELSE 0)

SecondAttempt == \A w \in Writers : gpc[w] \in {"gen", "again"} => HalfDone(grow[w].id)

RowAsTold(row) ==
    /\ row \in told => Occurs(cells, row) >= 1
    /\ Occurs(cells, row) >= 1 => row \in told \/ row \in unanswered
    /\ Occurs(cells, row) <= (IF row \in unanswered THEN 2 ELSE 1)

SheetInv == SheetTypes /\ RowsApart /\ Fresh /\ SecondAttempt /\ \A row \in Nat : RowAsTold(row)

LEMMA SheetSays == SheetInv => AppendedAsTold
  <1> SUFFICES ASSUME SheetInv, NEW row \in AllRows
               PROVE  /\ row \in told => Copies(row) >= 1
                      /\ Copies(row) >= 1 => row \in told \cup unanswered
                      /\ Copies(row) <= (IF row \in unanswered THEN 2 ELSE 1)
    BY DEF AppendedAsTold
  <1>1. PICK w \in Writers : \E i \in 1..Len(Rows[w]) : row = Rows[w][i].id
    BY DEF AllRows
  <1>2. row \in Nat
    <2>1. Rows[w] \in Seq(RowType)
      BY RowsAssumption DEF RowType
    <2>2. PICK i \in 1..Len(Rows[w]) : row = Rows[w][i].id
      BY <1>1
    <2>3. Rows[w][i] \in RowType
      BY <2>1
    <2> QED BY <2>2, <2>3 DEF RowType
  <1>3. Copies(row) = Occurs(cells, row)
    BY DEF Copies, Occurs, Places
  <1> QED BY <1>2, <1>3 DEF SheetInv, RowAsTold

LEMMA InitSheet == Init => SheetInv
  <1> SUFFICES ASSUME GsInit, Rows = grows PROVE SheetInv
    BY DEF Init, GsInit
  <1>1. /\ \A w \in Writers : gpc[w] = "new" /\ grow[w] = NoRow /\ grows[w] = Rows[w]
        /\ cells = <<>> /\ told = {} /\ unanswered = {}
    BY DEF GsInit
  <1>2. \A row : Occurs(cells, row) = 0
    <2>1. cells \in Seq(Nat) /\ \A row : \A i \in 1..Len(cells) : cells[i] # row
      BY <1>1
    <2> QED BY <2>1, OccursNot
  <1>3. grows \in [Writers -> Seq(RowType)]
    BY RowsAssumption DEF RowType
  <1>4. SheetTypes
    <2>1. gpc = [w \in Writers |-> "new"] /\ grow = [w \in Writers |-> NoRow]
      BY DEF GsInit
    <2>4. cells \in Seq(Nat)
      BY <1>1
    <2> QED BY <1>3, <2>1, <2>4 DEF SheetTypes
  <1>5. RowsApart
    BY <1>1, RowsAssumption DEF RowsApart, Held
  <1>6. Fresh /\ SecondAttempt
    BY <1>1, <1>2 DEF Fresh, SecondAttempt, Untouched
  <1>7. \A row \in Nat : RowAsTold(row)
    BY <1>1, <1>2 DEF RowAsTold
  <1> QED BY <1>4, <1>5, <1>6, <1>7 DEF SheetInv

\* A step of writer w that neither takes nor appends a row.
LEMMA SheetRests ==
    ASSUME SheetInv, NEW w \in Writers, NEW there, GsGoes(w, there),
           there \in {"take", "gen0", "again", "aborted"}, there = "again" => gpc[w] \in {"gen", "again"},
           UNCHANGED <<grows, grow, cells, unanswered, told>>
    PROVE  SheetInv'
  <1>1. SheetTypes'
    BY DEF SheetInv, SheetTypes, GsGoes
  <1>2. gpc'[w] = there /\ \A v \in Writers : v # w => gpc'[v] = gpc[v]
    BY DEF SheetInv, SheetTypes, GsGoes
  <1>3. \A v \in Writers : Held(v)' => Held(v)
    BY <1>2 DEF Held
  <1>4. RowsApart'
    BY <1>3 DEF SheetInv, RowsApart
  <1>5. Fresh' /\ SecondAttempt'
    BY <1>2 DEF SheetInv, Fresh, SecondAttempt, Untouched, HalfDone
  <1>6. \A row \in Nat : RowAsTold(row)'
    BY DEF SheetInv, RowAsTold
  <1> QED BY <1>1, <1>4, <1>5, <1>6 DEF SheetInv

LEMMA SheetTakes ==
    ASSUME SheetInv, NEW w \in Writers, NEW refused, Taken(w, refused)
    PROVE  SheetInv'
  <1>1. /\ gpc \in [Writers -> {"new", "gen0", "take", "post", "gen", "again", "aborted"}]
        /\ grows \in [Writers -> Seq(RowType)] /\ grow \in [Writers -> RowType \cup {NoRow}]
    BY DEF SheetInv, SheetTypes
  <1>2. /\ gpc[w] = "take" /\ grows[w] # <<>> /\ grows' = [grows EXCEPT ![w] = Tail(@)]
        /\ UNCHANGED <<cells, unanswered, told>>
        /\ \/ UNCHANGED <<gpc, grow>>
           \/ gpc' = [gpc EXCEPT ![w] = "post"] /\ grow' = [grow EXCEPT ![w] = Head(grows[w])]
    BY DEF Taken, GsAt, GsGoes, TheSheet
  <1>3. /\ grows[w] \in Seq(RowType) /\ 1 \in 1..Len(grows[w]) /\ Head(grows[w]) = grows[w][1] /\ grows[w][1] \in RowType
        /\ Tail(grows[w]) \in Seq(RowType)
        /\ \A i \in 1..Len(Tail(grows[w])) : i + 1 \in 1..Len(grows[w]) /\ Tail(grows[w])[i] = grows[w][i + 1] /\ i + 1 # 1
    BY <1>1, <1>2
  <1>4. grows'[w] = Tail(grows[w]) /\ \A v \in Writers : v # w => grows'[v] = grows[v]
    BY <1>1, <1>2
  <1>5. /\ \A v \in Writers : v # w => gpc'[v] = gpc[v] /\ grow'[v] = grow[v]
        /\ gpc'[w] \in {"take", "post"} /\ (gpc'[w] = "post" => grow'[w] = grows[w][1])
    BY <1>1, <1>2, <1>3
  <1>6. SheetTypes'
    BY <1>1, <1>2, <1>3 DEF SheetInv, SheetTypes
  \* Every row still to be taken was so before, in another place of its own and after the first.
  <1>7. ASSUME NEW v \in Writers, NEW j \in 1..Len(grows'[v])
        PROVE  \E k \in 1..Len(grows[v]) : /\ grows'[v][j] = grows[v][k]
                                           /\ k = (IF v = w THEN j + 1 ELSE j)
                                           /\ v = w => k # 1
    <2>1. CASE v = w
      <3>1. j + 1 \in 1..Len(grows[v]) /\ grows'[v][j] = grows[v][j + 1] /\ j + 1 # 1
        BY <1>3, <1>4, <1>7, <2>1
      <3> QED BY <2>1, <3>1
    <2>2. CASE v # w
      BY <1>4, <1>7, <2>2
    <2> QED BY <2>1, <2>2
  <1>8. RowsApart'
    <2>1. ASSUME NEW u \in Writers, NEW v \in Writers, NEW i \in 1..Len(grows'[u]), NEW j \in 1..Len(grows'[v]),
                 grows'[u][i].id = grows'[v][j].id
          PROVE  u = v /\ i = j
      <3>1. PICK k \in 1..Len(grows[u]) : grows'[u][i] = grows[u][k] /\ k = (IF u = w THEN i + 1 ELSE i)
        BY <1>7
      <3>2. PICK l \in 1..Len(grows[v]) : grows'[v][j] = grows[v][l] /\ l = (IF v = w THEN j + 1 ELSE j)
        BY <1>7
      <3>3. u = v /\ k = l
        BY <2>1, <3>1, <3>2 DEF SheetInv, RowsApart
      <3>4. i \in Int /\ j \in Int
        OBVIOUS
      <3> QED BY <3>1, <3>2, <3>3, <3>4
    <2>2. ASSUME NEW u \in Writers, NEW v \in Writers, Held(v)', NEW j \in 1..Len(grows'[u])
          PROVE  grow'[v].id # grows'[u][j].id
      <3>1. PICK k \in 1..Len(grows[u]) : grows'[u][j] = grows[u][k] /\ (u = w => k # 1)
        BY <1>7
      <3>2. CASE v = w
        <4>1. grow'[v] = grows[w][1]
          BY <1>5, <2>2, <3>2 DEF Held
        <4> QED BY <1>3, <3>1, <4>1 DEF SheetInv, RowsApart
      <3>3. CASE v # w
        <4>1. Held(v) /\ grow'[v] = grow[v]
          BY <1>5, <2>2, <3>3 DEF Held
        <4> QED BY <3>1, <4>1 DEF SheetInv, RowsApart
      <3> QED BY <3>2, <3>3
    <2>3. ASSUME NEW u \in Writers, Held(u)', Held(w)', u # w PROVE grow'[u].id # grow'[w].id
      <3>1. Held(u) /\ grow'[u] = grow[u] /\ grow'[w] = grows[w][1]
        BY <1>5, <2>3 DEF Held
      <3> QED BY <1>3, <3>1 DEF SheetInv, RowsApart
    <2>4. ASSUME NEW u \in Writers, NEW v \in Writers, Held(u)', Held(v)', grow'[u].id = grow'[v].id PROVE u = v
      <3>1. CASE u = w \/ v = w
        BY <2>3, <2>4, <3>1
      <3>2. CASE u # w /\ v # w
        BY <1>5, <2>4, <3>2 DEF Held, SheetInv, RowsApart
      <3> QED BY <3>1, <3>2
    <2> QED BY <2>1, <2>2, <2>4 DEF RowsApart
  <1>9. Fresh'
    <2>1. \A v \in Writers : \A i \in 1..Len(grows[v]) : Untouched(grows[v][i].id)
      BY DEF SheetInv, Fresh
    <2>2. ASSUME NEW v \in Writers, NEW j \in 1..Len(grows'[v]) PROVE Untouched(grows'[v][j].id)
      <3>1. PICK k \in 1..Len(grows[v]) : grows'[v][j] = grows[v][k]
        BY <1>7
      <3> QED BY <2>1, <3>1
    <2>3. ASSUME NEW v \in Writers, gpc'[v] = "post" PROVE Untouched(grow'[v].id)
      <3>1. CASE v = w
        BY <1>3, <1>5, <2>1, <2>3, <3>1
      <3>2. CASE v # w
        BY <1>5, <2>3, <3>2 DEF SheetInv, Fresh
      <3> QED BY <3>1, <3>2
    <2> QED BY <1>2, <2>2, <2>3 DEF Fresh, Untouched
  <1>10. SecondAttempt'
    BY <1>2, <1>5 DEF SheetInv, SecondAttempt, HalfDone
  <1>11. \A row \in Nat : RowAsTold(row)'
    BY <1>2 DEF SheetInv, RowAsTold
  <1> QED BY <1>6, <1>8, <1>9, <1>10, <1>11 DEF SheetInv

\* An attempt of writer w: it says nothing about any row but the one in hand.
LEMMA SheetPosts ==
    ASSUME SheetInv, NEW w \in Writers, Held(w), NEW there \in {"take", "gen"}, GsGoes(w, there),
           UNCHANGED <<grows, grow>>, NEW row, row = grow[w].id,
           cells' = cells \/ cells' = Append(cells, row),
           told' = told \/ told' = told \cup {row},
           unanswered' = unanswered \/ unanswered' = unanswered \cup {row},
           there = "gen" => HalfDone(row)',
           RowAsTold(row)'
    PROVE  SheetInv'
  <1>1. row \in Nat
    <2>1. grow[w] \in RowType \cup {NoRow}
      BY DEF SheetInv, SheetTypes
    <2> QED BY <2>1 DEF RowType, NoRow
  <1>2. SheetTypes'
    <2>1. cells \in Seq(Nat)
      BY DEF SheetInv, SheetTypes
    <2>2. cells' \in Seq(Nat)
      BY <1>1, <2>1
    <2> QED BY <2>2 DEF SheetInv, SheetTypes, GsGoes
  <1>3. gpc'[w] = there /\ \A v \in Writers : v # w => gpc'[v] = gpc[v]
    BY DEF SheetInv, SheetTypes, GsGoes
  <1>4. \A v \in Writers : Held(v)' => Held(v)
    BY <1>3 DEF Held
  <1>5. RowsApart'
    BY <1>4 DEF SheetInv, RowsApart
  <1>6. \A r : r # row => /\ Occurs(cells', r) = Occurs(cells, r)
                          /\ r \in told' <=> r \in told
                          /\ r \in unanswered' <=> r \in unanswered
    <2>1. cells \in Seq(Nat)
      BY DEF SheetInv, SheetTypes
    <2>2. \A r : r # row => Occurs(Append(cells, row), r) = Occurs(cells, r)
      BY <1>1, <2>1, OccursAppend
    <2> QED BY <2>2
  <1>7. /\ \A v \in Writers : \A j \in 1..Len(grows[v]) : grows[v][j].id # row
        /\ \A v \in Writers : v # w /\ Held(v) => grow[v].id # row
    BY DEF SheetInv, RowsApart
  <1>8. Fresh'
    <2>1. \A v \in Writers : \A j \in 1..Len(grows[v]) : Untouched(grows[v][j].id)
      BY DEF SheetInv, Fresh
    <2>2. \A r : r # row /\ Untouched(r) => Untouched(r)'
      BY <1>6 DEF Untouched
    <2>3. \A v \in Writers : \A j \in 1..Len(grows[v]) : Untouched(grows[v][j].id)'
      BY <1>7, <2>1, <2>2
    <2>4. ASSUME NEW v \in Writers, gpc'[v] = "post" PROVE Untouched(grow[v].id)'
      <3>1. v # w /\ gpc[v] = "post" /\ Held(v)
        BY <1>3, <2>4 DEF Held
      <3> QED BY <1>7, <2>2, <3>1 DEF SheetInv, Fresh
    <2> QED BY <2>3, <2>4 DEF Fresh
  <1>9. SecondAttempt'
    <2> SUFFICES ASSUME NEW v \in Writers, gpc'[v] \in {"gen", "again"} PROVE HalfDone(grow[v].id)'
      BY DEF SecondAttempt
    <2>1. CASE v = w
      BY <1>3, <2>1
    <2>2. CASE v # w
      <3>1. HalfDone(grow[v].id) /\ grow[v].id # row
        BY <1>3, <1>7, <2>2 DEF SheetInv, SecondAttempt, Held
      <3> QED BY <1>6, <3>1 DEF HalfDone
    <2> QED BY <2>1, <2>2
  <1>10. \A r \in Nat : RowAsTold(r)'
    <2>1. \A r \in Nat : r # row => RowAsTold(r)'
      BY <1>6 DEF SheetInv, RowAsTold
    <2> QED BY <2>1
  <1> QED BY <1>2, <1>5, <1>8, <1>9, <1>10 DEF SheetInv

LEMMA StepSheet == SheetInv /\ [Next]_deliveryVars => SheetInv'
  <1> SUFFICES ASSUME SheetInv, [Next]_deliveryVars PROVE SheetInv'
    OBVIOUS
  <1>1. ASSUME NEW w \in Writers, GsWriter(w) PROVE SheetInv'
    <2>1. CASE GoogleSheets(w)
      <3>1. PICK there \in {"gen0", "take"} : GsGoes(w, there)
        BY <2>1 DEF GoogleSheets
      <3> QED BY <1>1, <2>1, <3>1, SheetRests DEF GoogleSheets, TheSheet
    <2>2. CASE genToken(w)
      <3>1. PICK there : GsGoes(w, there) /\ there = (IF gpc[w] = "gen0" THEN "take" ELSE "again")
        BY <2>2 DEF genToken
      <3>2. UNCHANGED <<grows, grow, cells, unanswered, told>> /\ gpc[w] \in {"gen0", "gen"}
        BY <2>2 DEF genToken
      <3>3. there \in {"take", "again"} /\ (there = "again" => gpc[w] = "gen")
        BY <3>1, <3>2
      <3> QED BY <1>1, <3>1, <3>2, <3>3, SheetRests
    <2>3. CASE TakeMessage(w) \/ TakePacket(w) \/ TakeJson(w)
      BY <1>1, <2>3, SheetTakes DEF TakeMessage, TakePacket, TakeJson
    <2>0. PICK row : row = grow[w].id
      OBVIOUS
    <2>4. ASSUME NEW code, curl_post(w, code)
          PROVE  \/ cells' = Append(cells, row) /\ code = 200 /\ UNCHANGED unanswered
                 \/ cells' = Append(cells, row) /\ code # 200 /\ unanswered' = unanswered \cup {row}
                 \/ UNCHANGED <<cells, unanswered>> /\ code # 200
      BY <2>0, <2>4 DEF curl_post
    <2>5. /\ cells \in Seq(Nat) /\ row \in Nat
          /\ Occurs(cells, row) \in Nat
          /\ Occurs(Append(cells, row), row) = Occurs(cells, row) + 1
      <3>1. cells \in Seq(Nat) /\ grow[w] \in RowType \cup {NoRow}
        BY <1>1 DEF SheetInv, SheetTypes
      <3>2. row \in Nat
        BY <2>0, <3>1 DEF RowType, NoRow
      <3> QED BY <3>1, <3>2, OccursNat, OccursAppend
    <2>6. CASE token_post(w)
      <3>1. gpc[w] = "post" /\ Untouched(row) /\ UNCHANGED <<grows, grow>>
        BY <1>1, <2>0, <2>6 DEF token_post, GsAt, SheetInv, Fresh
      <3>2. PICK code : /\ curl_post(w, code)
                        /\ \/ code = 200 /\ GsGoes(w, "take") /\ told' = told \cup {row}
                           \/ code # 200 /\ GsGoes(w, "gen") /\ UNCHANGED told
        BY <2>0, <2>6 DEF token_post
      <3>3. CASE code = 200
        <4>1. cells' = Append(cells, row) /\ UNCHANGED unanswered /\ GsGoes(w, "take") /\ told' = told \cup {row}
          BY <2>4, <3>2, <3>3
        <4>2. RowAsTold(row)'
          BY <2>5, <3>1, <4>1 DEF RowAsTold, Untouched
        <4> QED BY <1>1, <2>0, <3>1, <4>1, <4>2, SheetPosts DEF Held
      <3>4. CASE code # 200
        <4>1. /\ GsGoes(w, "gen") /\ UNCHANGED told
              /\ \/ cells' = Append(cells, row) /\ unanswered' = unanswered \cup {row}
                 \/ UNCHANGED <<cells, unanswered>>
          BY <2>4, <3>2, <3>4
        <4>2. HalfDone(row)' /\ RowAsTold(row)'
          <5>1. /\ Occurs(cells', row) = (IF row \in unanswered' THEN 1 ELSE 0)
                /\ row \notin told'
            <6>1. Occurs(cells, row) = 0 /\ row \notin told /\ row \notin unanswered
              BY <3>1 DEF Untouched
            <6>2. CASE cells' = Append(cells, row) /\ unanswered' = unanswered \cup {row}
              BY <2>5, <4>1, <6>1, <6>2
            <6>3. CASE UNCHANGED <<cells, unanswered>>
              BY <4>1, <6>1, <6>3
            <6> QED BY <4>1, <6>2, <6>3
          <5> QED BY <5>1 DEF HalfDone, RowAsTold
        <4> QED BY <1>1, <2>0, <3>1, <4>1, <4>2, SheetPosts DEF Held
      <3> QED BY <3>3, <3>4
    <2>7. CASE token_post_again(w)
      <3>1. gpc[w] = "again" /\ HalfDone(row) /\ UNCHANGED <<grows, grow>> /\ GsGoes(w, "take")
        BY <1>1, <2>0, <2>7 DEF token_post_again, GsAt, SheetInv, SecondAttempt
      <3>2. PICK code : curl_post(w, code) /\ told' = IF code = 200 THEN told \cup {row} ELSE told
        BY <2>0, <2>7 DEF token_post_again
      <3>3. \/ cells' = Append(cells, row) /\ UNCHANGED unanswered /\ told' = told \cup {row}
            \/ cells' = Append(cells, row) /\ unanswered' = unanswered \cup {row} /\ told' = told
            \/ UNCHANGED <<cells, unanswered, told>>
        BY <2>4, <3>2
      <3>4. RowAsTold(row)'
        <4>1. Occurs(cells, row) = (IF row \in unanswered THEN 1 ELSE 0) /\ row \notin told
          BY <3>1 DEF HalfDone
        <4>2. CASE cells' = Append(cells, row) /\ UNCHANGED unanswered /\ told' = told \cup {row}
          BY <2>5, <4>1, <4>2 DEF RowAsTold
        <4>3. CASE cells' = Append(cells, row) /\ unanswered' = unanswered \cup {row} /\ told' = told
          BY <2>5, <4>1, <4>3 DEF RowAsTold
        <4>4. CASE UNCHANGED <<cells, unanswered, told>>
          BY <4>1, <4>4 DEF RowAsTold
        <4> QED BY <3>3, <4>2, <4>3, <4>4
      <3> QED BY <1>1, <2>0, <3>1, <3>3, <3>4, SheetPosts DEF Held
    <2> QED BY <1>1, <2>1, <2>2, <2>3, <2>6, <2>7 DEF GsWriter
  <1>2. ASSUME NEW w \in Writers, ReadFails(w) PROVE SheetInv'
    BY <1>2, SheetRests DEF ReadFails, TheSheet
  <1>3. CASE UNCHANGED <<gpc, grows, grow, cells, unanswered, told>>
    BY <1>3 DEF SheetInv, SheetTypes, RowsApart, Held, Fresh, Untouched, SecondAttempt, HalfDone, RowAsTold
  <1>4. CASE Expire
    BY <1>3, <1>4 DEF Expire
  <1>5. CASE UNCHANGED gsVars
    BY <1>3, <1>5 DEF gsVars
  <1> QED
    BY <1>1, <1>2, <1>4, <1>5
       DEF Next, Step, PqWriters, Notifiers, DumperStep, Passing, Writer, Outside, deliveryVars

(***************************************************************************)
(* For any writers, rows, tokens and failures: what append() reports is in the sheet,  *)
(* what is there was reported or its answer was lost, and a row is there twice only     *)
(* in that last case.                                                          *)
(***************************************************************************)
THEOREM AppendsAsTold == DeliverySpec => []AppendedAsTold
  BY InitSheet, StepSheet, SheetSays, PTL DEF DeliverySpec

=============================================================================
