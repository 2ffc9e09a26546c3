------------------------- MODULE RequestInputProofs -------------------------
(***************************************************************************)
(* Proofs about RequestInput and the modules it is made of, for every      *)
(* request, boundary, size of the buffers and way the body arrives.        *)
(*                                                                         *)
(* The loops of the C code come first: While and the folds of the library  *)
(* choose a function by its recursive equation, so each loop has the same  *)
(* three steps: such a function exists, hence the chosen one is one, hence *)
(* what every pass keeps holds of its last value.  Then the table, the     *)
(* connection, the buffer and the texts, each as a lemma on what one       *)
(* operation makes of it; then IInv, and a lemma for every action.  Last,  *)
(* that cookies and forms are decoded to what was encoded.                 *)
(***************************************************************************)
EXTENDS RequestInput, SequenceTheorems, WellFoundedInduction, TLAPS

-----------------------------------------------------------------------------
(* Numbers and loops.                                                      *)

LEMMA LeastNumber ==
  ASSUME NEW T \in SUBSET Nat, T # {}
  PROVE  \E m \in T : \A k \in T : m <= k
<1> DEFINE Below == {ss \in Nat \X Nat : ss[1] < ss[2]}
<1>1. IsWellFoundedOn(Below, Nat)
  BY NatLessThanWellFounded DEF OpToRel
<1>2. \E x \in T : \A y \in T : ~ (<<y, x>> \in Below)
  BY <1>1, WFMin
<1>3. \A x, y \in T : ~ (<<y, x>> \in Below) => x <= y
  OBVIOUS
<1> HIDE DEF Below
<1>4. QED
  BY <1>2, <1>3

\* Induction over the numbers up to N: G is the set of those of which it holds.
LEMMA Upward ==
  ASSUME NEW N \in Nat, NEW G, 0 \in G, \A n \in 0..N - 1 : n \in G => n + 1 \in G
  PROVE  \A n \in 0..N : n \in G
<1> DEFINE Bad == {n \in 0..N : n \notin G}
<1>1. SUFFICES ASSUME Bad # {} PROVE FALSE
  OBVIOUS
<1>2. PICK m \in Bad : \A k \in Bad : m <= k
  <2>1. Bad \in SUBSET Nat
    OBVIOUS
  <2> HIDE DEF Bad
  <2>2. QED
    BY <1>1, <2>1, LeastNumber
<1>3. m # 0 /\ m \in 0..N /\ m \notin G
  OBVIOUS
<1>4. m - 1 \in 0..N - 1 /\ m - 1 \notin Bad /\ (m - 1) + 1 = m
  BY <1>2, <1>3
<1>5. m - 1 \in G
  BY <1>4
<1>6. QED
  BY <1>3, <1>4, <1>5

\* The least number of a set, and the greatest of one that has a bound.
LEMMA MinNumber ==
  ASSUME NEW T \in SUBSET Nat, T # {}
  PROVE  Min(T) \in T /\ \A k \in T : Min(T) <= k
<1>1. \E m \in T : \A k \in T : m <= k
  BY LeastNumber
<1>2. QED
  BY <1>1, Zenon DEF Min

LEMMA MaxNumber ==
  ASSUME NEW N \in Nat, NEW T \in SUBSET (0..N), T # {}
  PROVE  Max(T) \in T /\ \A k \in T : k <= Max(T)
<1> DEFINE Down == {k \in 0..N : N - k \in T}
<1>1. Down \in SUBSET Nat /\ Down # {}
  <2>1. PICK k \in T : TRUE
    OBVIOUS
  <2>2. k \in 0..N /\ N - k \in 0..N /\ N - (N - k) = k
    OBVIOUS
  <2>3. N - k \in Down
    BY <2>1, <2>2
  <2>4. Down \in SUBSET Nat
    OBVIOUS
  <2> HIDE DEF Down
  <2>5. QED
    BY <2>3, <2>4
<1>2. PICK m \in Down : \A k \in Down : m <= k
  <2> HIDE DEF Down
  <2>1. QED
    BY <1>1, LeastNumber
<1>3. N - m \in T
  OBVIOUS
<1>4. ASSUME NEW k \in T PROVE k <= N - m
  <2>1. k \in 0..N /\ N - k \in 0..N /\ N - (N - k) = k
    OBVIOUS
  <2>2. N - k \in Down
    BY <2>1
  <2>3. m <= N - k /\ m \in Nat
    BY <1>1, <1>2, <2>2
  <2>4. QED
    BY <2>1, <2>3
<1>5. \E x \in T : \A y \in T : x >= y
  <2>1. \A y \in T : N - m >= y
    <3>1. N - m \in 0..N
      BY <1>3
    <3>2. QED
      BY <1>4, <3>1
  <2>2. QED
    BY <1>3, <2>1
<1>6. Max(T) \in T /\ \A y \in T : Max(T) >= y
  BY <1>5, Zenon DEF Max
<1>7. QED
  BY <1>6

\* There is a function that a loop with the step step defines.
LoopOf(step, start, N, t) ==
  t = [n \in 0..N |-> IF n = 0 THEN start ELSE step[t[n - 1]]]
LEMMA LoopExists ==
  ASSUME NEW S, NEW start \in S, NEW step \in [S -> S], NEW N \in Nat
  PROVE  \E t \in [0..N -> S] : LoopOf(step, start, N, t)
<1> DEFINE Good == {n \in 0..N : \E t \in [0..n -> S] : LoopOf(step, start, n, t)}
<1>1. 0 \in Good
  <2> DEFINE t == [n \in 0..0 |-> start]
  <2>1. t \in [0..0 -> S]
    OBVIOUS
  <2>2. t = [n \in 0..0 |-> IF n = 0 THEN start ELSE step[t[n - 1]]]
    OBVIOUS
  <2> HIDE DEF t
  <2>3. QED
    BY <2>1, <2>2 DEF LoopOf
<1>2. ASSUME NEW n \in 0..N - 1, n \in Good
      PROVE  n + 1 \in Good
  <2>1. PICK t \in [0..n -> S] : LoopOf(step, start, n, t)
    BY <1>2
  <2> DEFINE u == [k \in 0..n + 1 |-> IF k = n + 1 THEN step[t[n]] ELSE t[k]]
  <2>2. u \in [0..n + 1 -> S]
    OBVIOUS
  <2>3. \A k \in 0..n : u[k] = t[k]
    OBVIOUS
  <2>4. u[n + 1] = step[t[n]]
    OBVIOUS
  <2>5. ASSUME NEW k \in 0..n + 1
        PROVE  u[k] = IF k = 0 THEN start ELSE step[u[k - 1]]
    <3>1. CASE k = n + 1
      BY <2>3, <2>4, <3>1
    <3>2. CASE k # n + 1
      <4>1. k \in 0..n /\ (k # 0 => k - 1 \in 0..n)
        BY <3>2
      <4>2. t[k] = IF k = 0 THEN start ELSE step[t[k - 1]]
        BY <2>1, <4>1 DEF LoopOf
      <4> HIDE DEF u
      <4>3. QED
        BY <2>3, <4>1, <4>2
    <3>3. QED
      BY <3>1, <3>2
  <2>6. u = [k \in 0..n + 1 |-> u[k]]
    OBVIOUS
  <2> HIDE DEF u
  <2>7. u = [k \in 0..n + 1 |-> IF k = 0 THEN start ELSE step[u[k - 1]]]
    BY <2>5, <2>6
  <2>8. n + 1 \in 0..N
    OBVIOUS
  <2>9. QED
    BY <2>2, <2>7, <2>8 DEF LoopOf
<1>3. N \in Good
  <2> HIDE DEF Good
  <2>1. \A n \in 0..N : n \in Good
    BY <1>1, <1>2, Upward
  <2>2. QED
    BY <2>1
<1>4. QED
  BY <1>3

-----------------------------------------------------------------------------
(* Sequences.                                                              *)

LEMMA SubSeqFacts ==
  ASSUME NEW S, NEW s \in Seq(S), NEW m \in Nat \ {0}, NEW n \in 0..Len(s)
  PROVE  /\ SubSeq(s, m, n) \in Seq(S)
         /\ Len(SubSeq(s, m, n)) = IF m <= n THEN n - m + 1 ELSE 0
         /\ \A i \in 1..Len(SubSeq(s, m, n)) : SubSeq(s, m, n)[i] = s[m + i - 1]
OBVIOUS

LEMMA ConcatFacts ==
  ASSUME NEW S, NEW s \in Seq(S), NEW t \in Seq(S)
  PROVE  /\ s \o t \in Seq(S)
         /\ Len(s \o t) = Len(s) + Len(t)
         /\ \A i \in 1..Len(s) : (s \o t)[i] = s[i]
         /\ \A i \in 1..Len(t) : (s \o t)[Len(s) + i] = t[i]
OBVIOUS

LEMMA SameSeq ==
  ASSUME NEW S, NEW s \in Seq(S), NEW t \in Seq(S), Len(s) = Len(t),
         \A i \in 1..Len(s) : s[i] = t[i]
  PROVE  s = t
OBVIOUS

\* a is what s has from k, which counts from 0, to m.
IsPiece(s, k, m, a) ==
  /\ Len(a) = m - k
  /\ \A i \in 1..m - k : a[i] = s[k + i]
LEMMA PieceOf ==
  ASSUME NEW S, NEW s \in Seq(S), NEW k \in Nat, NEW m \in k..Len(s)
  PROVE  SubSeq(s, k + 1, m) \in Seq(S) /\ IsPiece(s, k, m, SubSeq(s, k + 1, m))
BY DEF IsPiece

LEMMA SamePiece ==
  ASSUME NEW S, NEW s, NEW k \in Nat, NEW m \in Nat, k <= m,
         NEW a \in Seq(S), NEW b \in Seq(S), IsPiece(s, k, m, a), IsPiece(s, k, m, b)
  PROVE  a = b
BY DEF IsPiece

LEMMA JoinFacts ==
  ASSUME NEW S, NEW s, NEW k \in Nat, NEW m \in Nat, NEW n \in Nat,
         k <= m, m <= n,
         NEW a \in Seq(S), NEW b \in Seq(S),
         IsPiece(s, k, m, a), IsPiece(s, m, n, b)
  PROVE  IsPiece(s, k, n, a \o b)
<1> DEFINE d == a \o b
<1>1. /\ d \in Seq(S) /\ Len(d) = Len(a) + Len(b)
      /\ \A i \in 1..Len(a) : d[i] = a[i]
      /\ \A i \in 1..Len(b) : d[Len(a) + i] = b[i]
  BY ConcatFacts
<1>2. Len(a) = m - k /\ Len(b) = n - m
  BY DEF IsPiece
<1> HIDE DEF d
<1>3. ASSUME NEW i \in 1..n - k
      PROVE  d[i] = s[k + i]
  <2>1. CASE i <= m - k
    <3>1. d[i] = a[i]
      BY <1>1, <1>2, <2>1
    <3>2. QED
      BY <2>1, <3>1 DEF IsPiece
  <2>2. CASE i > m - k
    <3> DEFINE j == i - (m - k)
    <3>1. j \in 1..n - m /\ (m - k) + j = i /\ m + j = k + i
      BY <2>2
    <3> HIDE DEF j
    <3>2. d[i] = b[j]
      BY <1>1, <1>2, <3>1
    <3>3. b[j] = s[m + j]
      BY <3>1 DEF IsPiece
    <3>4. QED
      BY <3>1, <3>2, <3>3
  <2>3. QED
    BY <2>1, <2>2
<1>4. Len(d) = n - k
  BY <1>1, <1>2
<1>5. IsPiece(s, k, n, d)
  BY <1>3, <1>4 DEF IsPiece
<1>6. QED
  BY <1>5 DEF d

\* A piece and the one that follows it are one piece.
LEMMA PiecesJoin ==
  ASSUME NEW S, NEW s \in Seq(S), NEW k \in Nat, NEW m \in k..Len(s), NEW n \in m..Len(s)
  PROVE  SubSeq(s, k + 1, m) \o SubSeq(s, m + 1, n) = SubSeq(s, k + 1, n)
<1> DEFINE a == SubSeq(s, k + 1, m)
           b == SubSeq(s, m + 1, n)
           c == SubSeq(s, k + 1, n)
<1>1. a \in Seq(S) /\ IsPiece(s, k, m, a)
  BY PieceOf
<1>2. b \in Seq(S) /\ IsPiece(s, m, n, b)
  BY PieceOf
<1>3. c \in Seq(S) /\ IsPiece(s, k, n, c)
  BY PieceOf
<1>4. k <= m /\ m <= n /\ m \in Nat /\ n \in Nat /\ k <= n
  OBVIOUS
<1> HIDE DEF a, b, c
<1>5. IsPiece(s, k, n, a \o b)
  BY <1>1, <1>2, <1>4, JoinFacts
<1>6. a \o b \in Seq(S)
  BY <1>1, <1>2, ConcatFacts
<1>7. a \o b = c
  BY <1>3, <1>4, <1>5, <1>6, SamePiece
<1>8. QED
  BY <1>7 DEF a, b, c

\* A sequence is its first q elements and the others.
LEMMA TwoPieces ==
  ASSUME NEW S, NEW s \in Seq(S), NEW q \in Nat, q <= Len(s)
  PROVE  SubSeq(s, 1, q) \o SubSeq(s, q + 1, Len(s)) = s
<1> DEFINE n == Len(s)
<1>1. q \in 0..n /\ n \in q..n
  OBVIOUS
<1>2. SubSeq(s, 0 + 1, q) \o SubSeq(s, q + 1, n) = SubSeq(s, 0 + 1, n)
  BY <1>1, PiecesJoin
<1>3. 0 + 1 = 1 /\ SubSeq(s, 1, n) = s
  OBVIOUS
<1> HIDE DEF n
<1>4. SubSeq(s, 1, q) \o SubSeq(s, q + 1, n) = s
  BY <1>2, <1>3
<1>5. QED
  BY <1>4 DEF n

LEMMA Second ==
  ASSUME NEW p, NEW x, NEW y, p = <<x, y>>
  PROVE  p[1] = x /\ p[2] = y
OBVIOUS

\* FlattenSeq, sequence by sequence.
Flattens(ss, g) ==
  /\ g[1] = ss[1]
  /\ \A i \in 1..Len(ss) - 1 : g[i + 1] = g[i] \o ss[i + 1]
LEMMA FlattenSteps ==
  ASSUME NEW S, NEW ss \in Seq(Seq(S)), ss # <<>>
  PROVE  \E g : Flattens(ss, g) /\ FlattenSeq(ss) = g[Len(ss)]
<1> DEFINE N == Len(ss)
           States == (1..N) \X Seq(S)
           Pass(p) == IF p[1] < N THEN <<p[1] + 1, p[2] \o ss[p[1] + 1]>> ELSE p
           pass == [p \in States |-> Pass(p)]
           Def(f) == f = [i \in 1..N |-> IF i = 1 THEN ss[i] ELSE f[i - 1] \o ss[i]]
           it == CHOOSE f : Def(f)
<1>1. N \in Nat \ {0} /\ \A i \in 1..N : ss[i] \in Seq(S)
  OBVIOUS
<1>2. pass \in [States -> States]
  <2>1. ASSUME NEW p \in States PROVE Pass(p) \in States
    <3>1. p[1] \in 1..N /\ p[2] \in Seq(S)
      OBVIOUS
    <3>2. CASE p[1] < N
      <4>1. p[1] + 1 \in 1..N
        BY <1>1, <3>1, <3>2
      <4>2. p[2] \o ss[p[1] + 1] \in Seq(S)
        BY <1>1, <3>1, <4>1, ConcatFacts
      <4>3. QED
        BY <3>2, <4>1, <4>2
    <3>3. CASE ~ (p[1] < N)
      BY <3>3
    <3>4. QED
      BY <3>2, <3>3
  <2> HIDE DEF Pass, States
  <2>2. QED
    BY <2>1
<1>3. <<1, ss[1]>> \in States
  BY <1>1
<1>4. PICK t \in [0..N - 1 -> States] : LoopOf(pass, <<1, ss[1]>>, N - 1, t)
  <2> HIDE DEF pass, States
  <2>1. N - 1 \in Nat
    BY <1>1
  <2>2. QED
    BY <1>2, <1>3, <2>1, LoopExists
<1> HIDE DEF N
<1>5. t[0] = <<1, ss[1]>>
  <2> HIDE DEF pass
  <2>1. 0 \in 0..N - 1
    BY <1>1
  <2>2. QED
    BY <1>4, <2>1 DEF LoopOf
<1>6. \A n \in 0..N - 2 : t[n + 1] = Pass(t[n])
  <2>1. ASSUME NEW n \in 0..N - 2
        PROVE  t[n + 1] = Pass(t[n])
    <3>1. n + 1 \in 0..N - 1 /\ n \in 0..N - 1 /\ n + 1 # 0 /\ (n + 1) - 1 = n
      BY <1>1
    <3>2. t[n + 1] = pass[t[n]]
      BY <1>4, <3>1 DEF LoopOf
    <3>3. t[n] \in States
      BY <1>4, <3>1
    <3>4. QED
      BY <3>2, <3>3
  <2>2. QED
    BY <2>1
<1>7. \A n \in 0..N - 1 : t[n][1] = n + 1
  <2> DEFINE G == {n \in 0..N - 1 : t[n][1] = n + 1}
  <2>1. 0 \in G
    BY <1>1, <1>5
  <2>2. \A n \in 0..(N - 1) - 1 : n \in G => n + 1 \in G
    <3>1. ASSUME NEW n \in 0..(N - 1) - 1, n \in G PROVE n + 1 \in G
      <4>1. n \in 0..N - 2 /\ n + 1 \in 0..N - 1 /\ t[n][1] = n + 1 /\ n + 1 < N
        BY <1>1, <3>1
      <4>2. t[n + 1] = Pass(t[n])
        BY <1>6, <4>1
      <4>3. t[n + 1][1] = n + 2
        BY <4>1, <4>2
      <4>4. QED
        BY <4>1, <4>3
    <3>2. QED
      BY <3>1
  <2>3. N - 1 \in Nat
    BY <1>1
  <2> HIDE DEF G
  <2>4. \A n \in 0..N - 1 : n \in G
    BY <2>1, <2>2, <2>3, Upward
  <2>5. QED
    BY <2>4 DEF G
<1> DEFINE f == [i \in 1..N |-> t[i - 1][2]]
<1>8. Def(f)
  <2>1. ASSUME NEW i \in 1..N
        PROVE  f[i] = IF i = 1 THEN ss[i] ELSE f[i - 1] \o ss[i]
    <3>1. CASE i = 1
      BY <1>5, <3>1
    <3>2. CASE i # 1
      <4> DEFINE n == i - 2
      <4>1. n \in 0..N - 2 /\ n \in 0..N - 1 /\ n + 1 = i - 1 /\ i - 1 \in 1..N /\ n + 1 < N /\ (n + 1) + 1 = i
        BY <1>1, <3>2
      <4> HIDE DEF n
      <4>2. t[n + 1] = Pass(t[n]) /\ t[n][1] = n + 1
        BY <1>6, <1>7, <4>1
      <4>3. t[n + 1][2] = t[n][2] \o ss[i]
        <5> DEFINE p == t[n]
        <5>1. p[1] < N /\ p[1] + 1 = i /\ t[n + 1] = Pass(p)
          BY <4>1, <4>2
        <5> HIDE DEF p
        <5>2. t[n + 1] = <<p[1] + 1, p[2] \o ss[p[1] + 1]>>
          BY <5>1
        <5>3. t[n + 1] = <<i, p[2] \o ss[i]>>
          BY <5>1, <5>2
        <5>4. t[n + 1][2] = p[2] \o ss[i]
          BY <5>3, Second
        <5>5. QED
          BY <5>4 DEF p
      <4>4. f[i] = t[n + 1][2] /\ f[i - 1] = t[n][2]
        <5>1. (i - 1) - 1 = n
          BY <4>1
        <5>2. QED
          BY <4>1, <5>1
      <4> HIDE DEF f
      <4>5. QED
        BY <3>2, <4>3, <4>4
    <3>3. QED
      BY <3>1, <3>2
  <2>2. f = [i \in 1..N |-> f[i]]
    OBVIOUS
  <2> HIDE DEF f
  <2>3. QED
    BY <2>1, <2>2
<1> HIDE DEF f
<1>9. Def(it)
  <2> HIDE DEF Def
  <2>1. QED
    BY <1>8, Zenon
<1>10. FlattenSeq(ss) = it[N]
  BY <1>1, Zenon DEF FlattenSeq, N
<1> HIDE DEF it
<1>11. Flattens(ss, it)
  <2>1. it[1] = ss[1]
    BY <1>1, <1>9
  <2>2. ASSUME NEW i \in 1..N - 1
        PROVE  it[i + 1] = it[i] \o ss[i + 1]
    <3>1. i + 1 \in 1..N /\ i + 1 # 1 /\ (i + 1) - 1 = i
      BY <1>1
    <3>2. QED
      BY <1>9, <3>1
  <2>3. QED
    BY <2>1, <2>2 DEF Flattens, N
<1>12. QED
  BY <1>10, <1>11 DEF N

LEMMA FlattenType ==
  ASSUME NEW S, NEW ss \in Seq(Seq(S))
  PROVE  FlattenSeq(ss) \in Seq(S)
<1>1. CASE ss = <<>>
  <2>1. Len(ss) = 0
    BY <1>1
  <2>2. FlattenSeq(ss) = ss
    BY <2>1, Zenon DEF FlattenSeq
  <2>3. <<>> \in Seq(S)
    OBVIOUS
  <2>4. QED
    BY <1>1, <2>2, <2>3, Zenon
<1>2. CASE ss # <<>>
  <2>1. PICK g : Flattens(ss, g) /\ FlattenSeq(ss) = g[Len(ss)]
    BY <1>2, FlattenSteps
  <2> DEFINE N == Len(ss)
             G == {n \in 0..N - 1 : g[n + 1] \in Seq(S)}
  <2>2. N \in Nat \ {0} /\ \A i \in 1..N : ss[i] \in Seq(S)
    BY <1>2
  <2> HIDE DEF N
  <2>3. 0 \in G
    BY <2>1, <2>2 DEF Flattens
  <2>4. \A n \in 0..(N - 1) - 1 : n \in G => n + 1 \in G
    <3>1. ASSUME NEW n \in 0..(N - 1) - 1, n \in G PROVE n + 1 \in G
      <4>1. n + 1 \in 1..N - 1 /\ n + 1 \in 0..N - 1 /\ (n + 1) + 1 \in 1..N
        BY <2>2
      <4>2. g[(n + 1) + 1] = g[n + 1] \o ss[(n + 1) + 1]
        BY <2>1, <4>1 DEF Flattens, N
      <4>3. g[n + 1] \in Seq(S)
        BY <3>1
      <4>4. g[(n + 1) + 1] \in Seq(S)
        BY <2>2, <4>1, <4>2, <4>3, ConcatFacts
      <4>5. QED
        BY <4>1, <4>4
    <3>2. QED
      BY <3>1
  <2>5. \A n \in 0..N - 1 : n \in G
    <3>1. N - 1 \in Nat
      BY <2>2
    <3> HIDE DEF G
    <3>2. QED
      BY <2>3, <2>4, <3>1, Upward
  <2>6. N - 1 \in 0..N - 1 /\ (N - 1) + 1 = N
    BY <2>2
  <2>7. g[N] \in Seq(S)
    BY <2>5, <2>6
  <2>8. QED
    BY <2>1, <2>7 DEF N
<1>3. QED
  BY <1>1, <1>2

\* What FlattenSeq makes of sequences ss of no or one element, those of s.
Has(t, x) == \E j \in 1..Len(t) : t[j] = x
LEMMA FlattenShort ==
  ASSUME NEW S, NEW s \in Seq(S), NEW ss \in Seq(Seq(S)), Len(ss) = Len(s),
         \A i \in 1..Len(s) : ss[i] = <<>> \/ ss[i] = <<s[i]>>
  PROVE  /\ Len(FlattenSeq(ss)) <= Len(s)
         /\ \A i \in 1..Len(s) : ss[i] = <<s[i]>> => Has(FlattenSeq(ss), s[i])
<1>1. CASE ss = <<>>
  <2>1. Len(ss) = 0 /\ Len(s) = 0
    BY <1>1
  <2>2. FlattenSeq(ss) = ss
    BY <2>1, Zenon DEF FlattenSeq
  <2>3. QED
    BY <2>1, <2>2
<1>2. CASE ss # <<>>
  <2>1. PICK g : Flattens(ss, g) /\ FlattenSeq(ss) = g[Len(ss)]
    BY <1>2, FlattenSteps
  <2> DEFINE N == Len(ss)
             Fine(n) == /\ g[n] \in Seq(S) /\ Len(g[n]) <= n
                        /\ \A i \in 1..n : ss[i] = <<s[i]>> => Has(g[n], s[i])
             G == {n \in 0..N - 1 : Fine(n + 1)}
  <2>2. N \in Nat \ {0} /\ \A i \in 1..N : ss[i] \in Seq(S) /\ s[i] \in S /\ Len(ss[i]) <= 1
    <3>1. N \in Nat \ {0}
      BY <1>2
    <3>2. ASSUME NEW i \in 1..N PROVE ss[i] \in Seq(S) /\ s[i] \in S /\ Len(ss[i]) <= 1
      <4>1. ss[i] \in Seq(S) /\ s[i] \in S
        OBVIOUS
      <4>2. CASE ss[i] = <<>>
        BY <4>1, <4>2
      <4>3. CASE ss[i] = <<s[i]>>
        BY <4>1, <4>3
      <4>4. QED
        BY <4>1, <4>2, <4>3
    <3>3. QED
      BY <3>1, <3>2
  <2> HIDE DEF N
  <2>3. Fine(1)
    <3>1. g[1] = ss[1]
      BY <2>1 DEF Flattens
    <3>2. ASSUME ss[1] = <<s[1]>> PROVE Has(g[1], s[1])
      BY <3>1, <3>2 DEF Has
    <3>3. \A i \in 1..1 : i = 1
      OBVIOUS
    <3>4. QED
      BY <2>2, <3>1, <3>2, <3>3
  <2>4. ASSUME NEW n \in 1..N - 1, Fine(n)
        PROVE  Fine(n + 1)
    <3>1. n \in Nat /\ n + 1 \in 1..N
      BY <2>2
    <3>2. g[n + 1] = g[n] \o ss[n + 1]
      BY <2>1, <3>1 DEF Flattens, N
    <3> DEFINE a == g[n]
               b == ss[n + 1]
    <3>3. a \in Seq(S) /\ b \in Seq(S) /\ Len(a) <= n /\ Len(b) <= 1
      BY <2>2, <2>4, <3>1
    <3>4. \A i \in 1..n : ss[i] = <<s[i]>> => Has(a, s[i])
      BY <2>4
    <3>5. b = <<s[n + 1]>> => Len(b) = 1 /\ b[1] = s[n + 1]
      OBVIOUS
    <3> HIDE DEF a, b
    <3>6. /\ a \o b \in Seq(S) /\ Len(a \o b) = Len(a) + Len(b)
          /\ \A i \in 1..Len(a) : (a \o b)[i] = a[i]
          /\ \A i \in 1..Len(b) : (a \o b)[Len(a) + i] = b[i]
      BY <3>3, ConcatFacts
    <3>7. ASSUME NEW x, Has(a, x) PROVE Has(a \o b, x)
      <4>1. PICK j \in 1..Len(a) : a[j] = x
        BY <3>7 DEF Has
      <4>2. j \in 1..Len(a \o b) /\ (a \o b)[j] = x
        BY <3>3, <3>6, <4>1
      <4>3. QED
        BY <4>2 DEF Has
    <3>8. ASSUME b = <<s[n + 1]>> PROVE Has(a \o b, s[n + 1])
      <4>1. Len(b) = 1 /\ b[1] = s[n + 1]
        BY <3>5, <3>8
      <4>2. Len(a) + 1 \in 1..Len(a \o b) /\ (a \o b)[Len(a) + 1] = s[n + 1]
        BY <3>3, <3>6, <4>1
      <4>3. QED
        BY <4>2 DEF Has
    <3>9. ASSUME NEW i \in 1..n + 1, ss[i] = <<s[i]>>
          PROVE  Has(a \o b, s[i])
      <4>1. CASE i = n + 1
        BY <3>8, <3>9, <4>1 DEF b
      <4>2. CASE i # n + 1
        <5>1. i \in 1..n
          BY <3>1, <4>2
        <5>2. QED
          BY <3>4, <3>7, <3>9, <5>1
      <4>3. QED
        BY <4>1, <4>2
    <3>10. Len(a \o b) <= n + 1
      BY <3>1, <3>3, <3>6
    <3>11. g[n + 1] = a \o b
      BY <3>2 DEF a, b
    <3>12. QED
      BY <3>6, <3>9, <3>10, <3>11
  <2> HIDE DEF Fine
  <2>5. 0 \in G
    BY <2>2, <2>3
  <2>6. \A n \in 0..(N - 1) - 1 : n \in G => n + 1 \in G
    <3>1. ASSUME NEW n \in 0..(N - 1) - 1, n \in G PROVE n + 1 \in G
      <4>1. n + 1 \in 1..N - 1 /\ n + 1 \in 0..N - 1
        BY <2>2
      <4>2. Fine(n + 1)
        BY <3>1
      <4>3. Fine((n + 1) + 1)
        BY <2>4, <4>1, <4>2
      <4>4. QED
        BY <4>1, <4>3
    <3>2. QED
      BY <3>1
  <2>7. \A n \in 0..N - 1 : n \in G
    <3>1. N - 1 \in Nat
      BY <2>2
    <3> HIDE DEF G
    <3>2. QED
      BY <2>5, <2>6, <3>1, Upward
  <2>8. N - 1 \in 0..N - 1 /\ (N - 1) + 1 = N
    BY <2>2
  <2>9. Fine(N)
    BY <2>7, <2>8
  <2>10. QED
    BY <2>1, <2>9 DEF Fine, N
<1>3. QED
  BY <1>1, <1>2

-----------------------------------------------------------------------------
(* Loops that make tables.                                                 *)

\* There is room for the entries, and no less than there was.
Doubled(n, a) == IF a < n THEN 2 * a ELSE a
LEMMA RoomEnough ==
  ASSUME NEW alloc \in Nat \ {0}, NEW n \in Nat
  PROVE  Room(alloc, n) \in Nat \ {0} /\ Room(alloc, n) >= n
<1> DEFINE S == Nat \ {0}
           step == [a \in S |-> Doubled(n, a)]
           Def(f) == f = [k \in 0..n |-> IF k = 0 THEN alloc ELSE Doubled(n, f[k - 1])]
           it == CHOOSE f : Def(f)
<1>1. step \in [S -> S]
  BY DEF Doubled
<1>2. \E f : Def(f)
  <2>1. PICK t \in [0..n -> S] : LoopOf(step, alloc, n, t)
    <3> HIDE DEF step, S
    <3>1. alloc \in S
      BY DEF S
    <3>2. QED
      BY <1>1, <3>1, LoopExists
  <2>2. \A k \in 0..n : k # 0 => step[t[k - 1]] = Doubled(n, t[k - 1])
    <3>1. ASSUME NEW k \in 0..n, k # 0
          PROVE  step[t[k - 1]] = Doubled(n, t[k - 1])
      <4>1. k - 1 \in 0..n
        BY <3>1
      <4>2. t[k - 1] \in S
        BY <4>1
      <4>3. QED
        BY <4>2
    <3>2. QED
      BY <3>1
  <2> HIDE DEF step
  <2>3. Def(t)
    BY <2>1, <2>2 DEF LoopOf
  <2> HIDE DEF Def
  <2>4. QED
    BY <2>3
<1>3. Def(it)
  <2> HIDE DEF Def
  <2>1. QED
    BY <1>2, Zenon
<1>4. Room(alloc, n) = it[n]
  BY Zenon DEF Room, While, Doubled
<1> HIDE DEF it
<1> DEFINE G == {k \in 0..n : it[k] \in Nat \ {0} /\ (it[k] >= n \/ it[k] >= k + 1)}
<1>5. 0 \in G
  BY <1>3
<1>6. ASSUME NEW k \in 0..n - 1, k \in G
      PROVE  k + 1 \in G
  <2>1. k + 1 \in 0..n /\ k + 1 # 0 /\ (k + 1) - 1 = k
    OBVIOUS
  <2>2. it[k + 1] = Doubled(n, it[k])
    BY <1>3, <2>1
  <2> HIDE DEF Def
  <2>3. QED
    BY <1>6, <2>1, <2>2 DEF Doubled
<1>7. \A k \in 0..n : k \in G
  <2> HIDE DEF G
  <2>1. QED
    BY <1>5, <1>6, Upward
<1>8. n \in G
  BY <1>7
<1>9. QED
  BY <1>4, <1>8

\* Where the first of the stops is.
LEMMA BeforeType ==
  ASSUME NEW text \in Text, NEW stops
  PROVE  Before(text, stops) \in Text /\ Len(Before(text, stops)) <= Len(text)
<1> DEFINE I == {i \in 1..Len(text) : text[i] \in stops}
           i == SelectInSeq(text, LAMBDA c : c \in stops)
<1>1. i = IF I # {} THEN Min(I) ELSE 0
  BY Zenon DEF SelectInSeq
<1>2. I \in SUBSET Nat /\ I \in SUBSET (1..Len(text))
  OBVIOUS
<1>3. i \in 0..Len(text)
  <2> HIDE DEF I
  <2>1. CASE I # {}
    <3>1. Min(I) \in I
      BY <1>2, <2>1, MinNumber
    <3>2. QED
      BY <1>1, <1>2, <2>1, <3>1 DEF Text
  <2>2. CASE I = {}
    BY <1>1, <2>2 DEF Text
  <2>3. QED
    BY <2>1, <2>2
<1>4. Before(text, stops) = IF i = 0 THEN text ELSE SubSeq(text, 1, i - 1)
  BY Zenon DEF Before
<1> HIDE DEF i
<1>5. QED
  <2>1. CASE i = 0
    BY <1>4, <2>1 DEF Text
  <2>2. CASE i # 0
    <3>1. i - 1 \in 0..Len(text)
      BY <1>3, <2>2 DEF Text
    <3>2. SubSeq(text, 1, i - 1) \in Seq(Bytes) /\ Len(SubSeq(text, 1, i - 1)) = i - 1
      BY <1>3, <2>2 DEF Text
    <3>3. QED
      BY <1>4, <2>2, <3>1, <3>2 DEF Text
  <2>3. QED
    BY <2>1, <2>2

LEMMA CStringType ==
  ASSUME NEW text \in Text
  PROVE  CString(text) \in Text /\ (text = <<>> => CString(text) = <<>>)
<1>1. CString(text) = Before(text, {NUL})
  BY DEF CString
<1>2. CString(text) \in Text /\ Len(CString(text)) <= Len(text)
  BY <1>1, BeforeType
<1>3. ASSUME text = <<>> PROVE CString(text) = <<>>
  <2> DEFINE s == CString(text)
  <2>1. s \in Seq(Bytes) /\ Len(s) <= 0
    BY <1>2, <1>3 DEF Text
  <2> HIDE DEF s
  <2>2. s = <<>>
    BY <2>1
  <2>3. QED
    BY <2>2 DEF s
<1>4. QED
  BY <1>2, <1>3

LEMMA SkipAllType ==
  ASSUME NEW text \in Text, NEW stops
  PROVE  SkipAll(text, stops) \in Text
<1> DEFINE I == {i \in 1..Len(text) : text[i] \notin stops}
           i == SelectInSeq(text, LAMBDA c : c \notin stops)
<1>1. i = IF I # {} THEN Min(I) ELSE 0
  BY Zenon DEF SelectInSeq
<1>2. I \in SUBSET Nat /\ I \in SUBSET (1..Len(text))
  OBVIOUS
<1>3. i \in 0..Len(text)
  <2> HIDE DEF I
  <2>1. CASE I # {}
    <3>1. Min(I) \in I
      BY <1>2, <2>1, MinNumber
    <3>2. QED
      BY <1>1, <1>2, <2>1, <3>1 DEF Text
  <2>2. CASE I = {}
    BY <1>1, <2>2 DEF Text
  <2>3. QED
    BY <2>1, <2>2
<1>4. SkipAll(text, stops) = IF i = 0 THEN <<>> ELSE SubSeq(text, i, Len(text))
  BY Zenon DEF SkipAll
<1> HIDE DEF i
<1>5. QED
  BY <1>3, <1>4 DEF Text

LEMMA AfterType ==
  ASSUME NEW text \in Text, NEW stops
  PROVE  After(text, stops) \in Text
<1> DEFINE rest == SubSeq(text, Len(Before(text, stops)) + 1, Len(text))
<1>1. rest \in Text
  <2>1. Before(text, stops) \in Text
    BY BeforeType
  <2> DEFINE b == Before(text, stops)
  <2> HIDE DEF b
  <2>2. Len(b) + 1 \in Nat \ {0}
    BY <2>1 DEF Text, b
  <2>3. QED
    BY <2>2 DEF Text, b
<1> HIDE DEF rest
<1>2. SkipAll(rest, stops) \in Text
  BY <1>1, SkipAllType
<1>3. QED
  BY <1>2 DEF After, rest

LEMMA UnescapeType ==
  ASSUME NEW text \in Text
  PROVE  Unescape(text) \in Text
<1> DEFINE ss == [i \in 1..Len(text) |->
                    IF text[i] \in DOMAIN Unescaped THEN Unescaped[text[i]] ELSE <<text[i]>>]
<1>1. ss \in Seq(Seq(Bytes))
  <2>1. ASSUME NEW i \in 1..Len(text) PROVE ss[i] \in Seq(Bytes)
    <3>1. text[i] \in Bytes
      BY DEF Text
    <3>2. CASE text[i] \in DOMAIN Unescaped
      BY <3>2, FormAssumption DEF Text
    <3>3. CASE text[i] \notin DOMAIN Unescaped
      BY <3>1, <3>3
    <3>4. QED
      BY <3>2, <3>3
  <2>2. ss = [i \in 1..Len(text) |-> ss[i]] /\ Len(text) \in Nat
    BY DEF Text
  <2> HIDE DEF ss
  <2>3. QED
    BY <2>1, <2>2
<1>2. FlattenSeq(ss) \in Text
  <2> HIDE DEF ss
  <2>1. QED
    BY <1>1, FlattenType DEF Text
<1>3. Unescape(text) = CString(FlattenSeq(ss))
  BY Zenon DEF Unescape
<1>4. QED
  BY <1>2, <1>3, CStringType

LEMMA AppendType ==
  ASSUME NEW S, NEW s \in Seq(S), NEW x \in S
  PROVE  Append(s, x) \in Seq(S)
OBVIOUS

LEMMA PairType ==
  ASSUME NEW text \in Text
  PROVE  Pair(text) \in Entries
<1>1. ASSUME NEW t \in Text PROVE Decode(t) \in Text
  <2>1. PlusToSpace(t) \in Text
    <3> DEFINE u == [i \in 1..Len(t) |-> IF t[i] = "+" THEN " " ELSE t[i]]
    <3>1. ASSUME NEW i \in 1..Len(t) PROVE u[i] \in Bytes
      <4>1. t[i] \in Bytes
        BY DEF Text
      <4>2. " " \in Bytes
        BY FormAssumption
      <4>3. u[i] = " " \/ u[i] = t[i]
        OBVIOUS
      <4>4. QED
        BY <4>1, <4>2, <4>3, Zenon
    <3>2. Len(t) \in Nat
      BY DEF Text
    <3>3. u = [i \in 1..Len(t) |-> u[i]]
      OBVIOUS
    <3> HIDE DEF u
    <3>4. u \in Seq(Bytes)
      BY <3>1, <3>2, <3>3
    <3>5. QED
      BY <3>4, Zenon DEF PlusToSpace, Text, u
  <2>2. QED
    BY <2>1, UnescapeType DEF Decode
<1>2. Before(text, {"="}) \in Text /\ After(text, {"="}) \in Text
  BY BeforeType, AfterType
<1>3. QED
  BY <1>1, <1>2 DEF Pair, Entries

\* The pairs of a query string or a form make a table.
SplitStep(s) ==
  IF s.data # <<>>
    THEN [data |-> After(s.data, {"&", ";"}),
          parms |-> Append(s.parms, Pair(Before(s.data, {"&", ";"})))]
    ELSE s
SplitStates == [data : Text, parms : Seq(Entries)]
SplitLoop(data, it) ==
  /\ it[0] = [data |-> data, parms |-> <<>>]
  /\ \A n \in 0..Len(data) - 1 : it[n + 1] = SplitStep(it[n])
  /\ \A n \in 0..Len(data) : it[n] \in SplitStates
LEMMA SplitToParmsLoop ==
  ASSUME NEW data \in Text
  PROVE  \E it : SplitLoop(data, it) /\ SplitToParms(data) = it[Len(data)].parms
<1> DEFINE S == SplitStates
           N == Len(data)
           start == [data |-> data, parms |-> <<>>]
           step == [s \in S |-> SplitStep(s)]
           Def(f) == f = [k \in 0..N |-> IF k = 0 THEN start ELSE SplitStep(f[k - 1])]
           it == CHOOSE f : Def(f)
<1>1. step \in [S -> S]
  <2>1. ASSUME NEW s \in S PROVE SplitStep(s) \in S
    <3>1. s.data \in Text /\ s.parms \in Seq(Entries)
      BY DEF SplitStates
    <3>2. After(s.data, {"&", ";"}) \in Text /\ Before(s.data, {"&", ";"}) \in Text
      BY <3>1, AfterType, BeforeType
    <3>3. Pair(Before(s.data, {"&", ";"})) \in Entries
      BY <3>2, PairType
    <3>4. Append(s.parms, Pair(Before(s.data, {"&", ";"}))) \in Seq(Entries)
      BY <3>1, <3>3, AppendType
    <3>5. QED
      BY <3>2, <3>4 DEF SplitStep, SplitStates
  <2> HIDE DEF S
  <2>2. QED
    BY <2>1
<1>2. start \in S /\ N \in Nat
  BY DEF Text, SplitStates
<1>3. PICK t \in [0..N -> S] : LoopOf(step, start, N, t)
  <2> HIDE DEF step, S, start, N
  <2>1. QED
    BY <1>1, <1>2, LoopExists
<1> HIDE DEF start, N, S
<1>4. Def(t)
  <2>1. ASSUME NEW k \in 0..N, k # 0
        PROVE  step[t[k - 1]] = SplitStep(t[k - 1])
    <3>1. k - 1 \in 0..N
      BY <1>2, <2>1
    <3>2. t[k - 1] \in S
      BY <3>1
    <3>3. QED
      BY <3>2
  <2> HIDE DEF step
  <2>2. QED
    BY <1>3, <2>1 DEF LoopOf
<1>5. Def(it)
  <2> HIDE DEF Def
  <2>1. QED
    BY <1>4, Zenon
<1>6. SplitToParms(data) = it[N].parms
  BY Zenon DEF SplitToParms, While, SplitStep, N, start
<1> HIDE DEF it
<1>7. it[0] = start
  BY <1>2, <1>5
<1>8. ASSUME NEW n \in 0..N - 1 PROVE it[n + 1] = SplitStep(it[n])
  <2>1. n + 1 \in 0..N /\ n + 1 # 0 /\ (n + 1) - 1 = n
    BY <1>2
  <2>2. QED
    BY <1>5, <2>1
<1> HIDE DEF Def
<1>9. \A n \in 0..N : it[n] \in S
  <2> DEFINE G == {n \in 0..N : it[n] \in S}
  <2>1. 0 \in G
    BY <1>2, <1>7
  <2>2. ASSUME NEW n \in 0..N - 1, n \in G PROVE n + 1 \in G
    <3>1. n + 1 \in 0..N /\ it[n] \in S
      BY <1>2, <2>2
    <3>2. step[it[n]] = SplitStep(it[n])
      BY <3>1
    <3> HIDE DEF step
    <3>3. it[n + 1] \in S
      BY <1>1, <1>8, <3>1, <3>2
    <3>4. QED
      BY <3>1, <3>3
  <2> HIDE DEF G
  <2>3. \A n \in 0..N : n \in G
    BY <1>2, <2>1, <2>2, Upward
  <2>4. QED
    BY <2>3 DEF G
<1>10. SplitLoop(data, it)
  BY <1>7, <1>8, <1>9 DEF SplitLoop, S, N, start
<1>11. QED
  BY <1>6, <1>10 DEF N

LEMMA SplitToParmsType ==
  ASSUME NEW data \in Text
  PROVE  /\ SplitToParms(data) \in Seq(Entries)
         /\ data = <<>> => SplitToParms(data) = <<>>
<1>1. PICK it : SplitLoop(data, it) /\ SplitToParms(data) = it[Len(data)].parms
  BY SplitToParmsLoop
<1>2. Len(data) \in 0..Len(data) /\ (data = <<>> => Len(data) = 0)
  BY DEF Text
<1>3. it[Len(data)] \in SplitStates
  BY <1>1, <1>2 DEF SplitLoop
<1>4. it[0].parms = <<>>
  BY <1>1 DEF SplitLoop
<1>5. QED
  BY <1>1, <1>2, <1>3, <1>4 DEF SplitStates

-----------------------------------------------------------------------------
(* The parameter table.                                                    *)

LEMMA UnsetFacts ==
  ASSUME NEW t \in Seq(Entries), NEW key
  PROVE  /\ TableUnset(t, key) \in Seq(Entries)
         /\ Len(TableUnset(t, key)) <= Len(t)
         /\ \A i \in 1..Len(t) : HasKey(t[i], key) \/ Has(TableUnset(t, key), t[i])
<1> DEFINE ss == [i \in 1..Len(t) |-> IF HasKey(t[i], key) THEN <<>> ELSE <<t[i]>>]
<1>1. ss \in Seq(Seq(Entries))
  <2>1. ASSUME NEW i \in 1..Len(t) PROVE ss[i] \in Seq(Entries)
    <3>1. t[i] \in Entries
      OBVIOUS
    <3>2. <<t[i]>> \in Seq(Entries) /\ <<>> \in Seq(Entries)
      BY <3>1
    <3>3. ss[i] = <<>> \/ ss[i] = <<t[i]>>
      OBVIOUS
    <3>4. QED
      BY <3>2, <3>3, Zenon
  <2>2. ss = [i \in 1..Len(t) |-> ss[i]] /\ Len(t) \in Nat
    OBVIOUS
  <2> HIDE DEF ss
  <2>3. QED
    BY <2>1, <2>2
<1>2. Len(ss) = Len(t)
  OBVIOUS
<1>3. \A i \in 1..Len(t) : ss[i] = <<>> \/ ss[i] = <<t[i]>>
  OBVIOUS
<1>4. \A i \in 1..Len(t) : HasKey(t[i], key) \/ ss[i] = <<t[i]>>
  OBVIOUS
<1>5. TableUnset(t, key) = FlattenSeq(ss)
  BY Zenon DEF TableUnset
<1> HIDE DEF ss
<1>6. FlattenSeq(ss) \in Seq(Entries)
  BY <1>1, FlattenType
<1>7. /\ Len(FlattenSeq(ss)) <= Len(t)
      /\ \A i \in 1..Len(t) : ss[i] = <<t[i]>> => Has(FlattenSeq(ss), t[i])
  BY <1>1, <1>2, <1>3, FlattenShort
<1>8. QED
  BY <1>4, <1>5, <1>6, <1>7

FirstOf(t, key) == SelectInSeq(t, LAMBDA e : HasKey(e, key))
LEMMA FirstOfFacts ==
  ASSUME NEW t \in Seq(Entries), NEW key
  PROVE  /\ FirstOf(t, key) \in 0..Len(t)
         /\ FirstOf(t, key) # 0 => HasKey(t[FirstOf(t, key)], key)
<1> DEFINE I == {i \in 1..Len(t) : HasKey(t[i], key)}
<1>1. FirstOf(t, key) = IF I # {} THEN Min(I) ELSE 0
  BY Zenon DEF SelectInSeq, FirstOf
<1>2. I \in SUBSET Nat /\ I \in SUBSET (1..Len(t))
  OBVIOUS
<1>3. \A i \in I : HasKey(t[i], key)
  OBVIOUS
<1> HIDE DEF I
<1>4. CASE I # {}
  <2>1. Min(I) \in I
    BY <1>2, <1>4, MinNumber
  <2>2. FirstOf(t, key) = Min(I)
    BY <1>1, <1>4
  <2> DEFINE m == FirstOf(t, key)
  <2>3. m \in I
    BY <2>1, <2>2
  <2> HIDE DEF m
  <2>4. m \in 1..Len(t) /\ HasKey(t[m], key)
    BY <1>2, <1>3, <2>3
  <2>5. m \in 0..Len(t)
    BY <2>4
  <2>6. QED
    BY <2>4, <2>5 DEF m
<1>5. CASE I = {}
  BY <1>1, <1>5
<1>6. QED
  BY <1>4, <1>5

\* What TableSet keeps: the entries up to the first with the key, their keys,
\* and after it those with other keys.
LEMMA SetFacts ==
  ASSUME NEW t \in Seq(Entries), NEW key \in Text, NEW val \in Text
  PROVE  /\ TableSet(t, key, val) \in Seq(Entries)
         /\ FirstOf(t, key) # 0 =>
              /\ Len(TableSet(t, key, val)) \in FirstOf(t, key)..Len(t)
              /\ \A i \in 1..FirstOf(t, key) : TableSet(t, key, val)[i].key = t[i].key
              /\ \A i \in FirstOf(t, key) + 1..Len(t) :
                   HasKey(t[i], key) \/
                   \E j \in FirstOf(t, key) + 1..Len(TableSet(t, key, val)) :
                     TableSet(t, key, val)[j] = t[i]
<1> DEFINE first == FirstOf(t, key)
           head == Append(SubSeq(t, 1, first - 1), [t[first] EXCEPT !.val = val])
           rest == SubSeq(t, first + 1, Len(t))
           tail == TableUnset(rest, key)
<1>1. first \in 0..Len(t) /\ Len(t) \in Nat
  BY FirstOfFacts
<1>2. TableSet(t, key, val) = IF first = 0 THEN TableAdd(t, key, val) ELSE head \o tail
  BY Zenon DEF TableSet, FirstOf
<1>3. CASE first = 0
  <2>1. [key |-> key, val |-> val] \in Entries
    BY DEF Entries
  <2>2. TableAdd(t, key, val) \in Seq(Entries)
    BY <2>1, AppendType DEF TableAdd
  <2> HIDE DEF first, head, tail
  <2>3. QED
    BY <1>2, <1>3, <2>2 DEF first
<1>4. CASE first # 0
  <2> HIDE DEF first
  <2>1. /\ rest \in Seq(Entries) /\ Len(rest) = Len(t) - first
        /\ \A i \in 1..Len(rest) : rest[i] = t[first + i]
    BY <1>1
  <2>2. /\ head \in Seq(Entries) /\ Len(head) = first
        /\ \A i \in 1..first : head[i].key = t[i].key
    <3> DEFINE a == SubSeq(t, 1, first - 1)
               e == [t[first] EXCEPT !.val = val]
    <3>1. /\ a \in Seq(Entries) /\ Len(a) = first - 1
          /\ \A i \in 1..first - 1 : a[i] = t[i]
      BY <1>1, <1>4
    <3>2. t[first] \in Entries
      BY <1>1, <1>4
    <3>3. e \in Entries /\ e.key = t[first].key
      BY <3>2 DEF Entries
    <3> HIDE DEF a, e
    <3>4. /\ Append(a, e) \in Seq(Entries) /\ Len(Append(a, e)) = first
          /\ Append(a, e)[first] = e
          /\ \A i \in 1..first - 1 : Append(a, e)[i] = a[i]
      BY <1>1, <1>4, <3>1, <3>3
    <3>5. head = Append(a, e)
      BY DEF a, e
    <3> HIDE DEF head
    <3>6. ASSUME NEW i \in 1..first
          PROVE  head[i].key = t[i].key
      <4>1. CASE i = first
        BY <3>3, <3>4, <3>5, <4>1
      <4>2. CASE i # first
        <5>1. i \in 1..first - 1
          BY <1>1, <4>2
        <5>2. QED
          BY <3>1, <3>4, <3>5, <5>1
      <4>3. QED
        BY <4>1, <4>2
    <3>7. QED
      BY <3>4, <3>5, <3>6
  <2> HIDE DEF head, rest
  <2>3. /\ tail \in Seq(Entries) /\ Len(tail) <= Len(rest)
        /\ \A i \in 1..Len(rest) : HasKey(rest[i], key) \/ Has(tail, rest[i])
    BY <2>1, UnsetFacts
  <2> HIDE DEF tail
  <2> DEFINE u == head \o tail
  <2>4. /\ u \in Seq(Entries) /\ Len(u) = first + Len(tail)
        /\ \A i \in 1..first : u[i] = head[i]
        /\ \A i \in 1..Len(tail) : u[first + i] = tail[i]
    <3>1. /\ u \in Seq(Entries) /\ Len(u) = Len(head) + Len(tail)
          /\ \A i \in 1..Len(head) : u[i] = head[i]
          /\ \A i \in 1..Len(tail) : u[Len(head) + i] = tail[i]
      <4>1. head \in Seq(Entries) /\ tail \in Seq(Entries)
        BY <2>2, <2>3
      <4>2. QED
        BY <4>1, ConcatFacts
    <3>2. Len(head) = first
      BY <2>2
    <3> HIDE DEF u
    <3>3. QED
      BY <3>1, <3>2
  <2> HIDE DEF u
  <2>5. Len(u) \in first..Len(t)
    BY <1>1, <2>1, <2>3, <2>4
  <2>6. \A i \in 1..first : u[i].key = t[i].key
    BY <2>2, <2>4
  <2>7. ASSUME NEW i \in first + 1..Len(t)
        PROVE  HasKey(t[i], key) \/ \E j \in first + 1..Len(u) : u[j] = t[i]
    <3>1. i - first \in 1..Len(rest) /\ first + (i - first) = i
      BY <1>1, <2>1
    <3>2. rest[i - first] = t[i]
      BY <2>1, <3>1
    <3>3. CASE Has(tail, t[i])
      <4>1. PICK j \in 1..Len(tail) : tail[j] = t[i]
        BY <3>3 DEF Has
      <4> DEFINE p == first + j
      <4>2. Len(tail) \in Nat /\ j \in Nat
        BY <2>3, <4>1
      <4>3. p \in first + 1..Len(u)
        BY <1>1, <2>4, <4>1, <4>2
      <4>4. u[p] = t[i]
        BY <2>4, <4>1
      <4> HIDE DEF p
      <4>5. QED
        BY <4>3, <4>4
    <3>4. QED
      BY <2>3, <3>1, <3>2, <3>3
  <2>8. TableSet(t, key, val) = u
    BY <1>2, <1>4 DEF u
  <2> DEFINE r == TableSet(t, key, val)
  <2>9. r = u
    BY <2>8
  <2> HIDE DEF r
  <2>10. /\ r \in Seq(Entries)
         /\ Len(r) \in first..Len(t)
         /\ \A i \in 1..first : r[i].key = t[i].key
         /\ \A i \in first + 1..Len(t) : HasKey(t[i], key) \/ \E j \in first + 1..Len(r) : r[j] = t[i]
    BY <2>4, <2>5, <2>6, <2>7, <2>9
  <2>11. QED
    BY <2>10 DEF r, first
<1>5. QED
  BY <1>3, <1>4

LEMMA AddAllType ==
  ASSUME NEW t \in Seq(Entries), NEW key \in Text, NEW vals \in Seq(Text)
  PROVE  AddAll(t, key, vals) \in Seq(Entries)
<1> DEFINE u == [i \in 1..Len(vals) |-> [key |-> key, val |-> vals[i]]]
<1>1. ASSUME NEW i \in 1..Len(vals) PROVE u[i] \in Entries
  <2>1. vals[i] \in Text
    OBVIOUS
  <2>2. QED
    BY <2>1 DEF Entries
<1>2. u = [i \in 1..Len(vals) |-> u[i]] /\ Len(vals) \in Nat
  OBVIOUS
<1> HIDE DEF u
<1>3. u \in Seq(Entries)
  BY <1>1, <1>2
<1>4. t \o u \in Seq(Entries)
  BY <1>3, ConcatFacts
<1>5. QED
  BY <1>4 DEF AddAll, u

\* What is true of a loop e over the table t whose block sets values only: the
\* name it came to last was seen, and those it has not seen are still to come.
ToCome(e, t, k) == \E i \in e.next..Len(t) : Fold(t[i].key) = k
LoopGood(e, t) ==
  /\ ~ e.moved /\ ~ e.garbage
  /\ ~ e.on => e.keys \subseteq e.seen
  /\ e.on =>
       /\ e.next <= Len(t) + 1
       /\ e.next > 1 => Fold(t[e.next - 1].key) \in e.seen
       /\ \A k \in e.keys : k \in e.seen \/ ToCome(e, t, k)
TableInv ==
  /\ Len(parms) <= nalloc /\ nalloc > 0
  /\ each.edits \subseteq {"set"} => LoopGood(each, parms)

LoopType ==
  [on : BOOLEAN, next : Nat \ {0}, moved : BOOLEAN, hdrs : Seq(Entries),
   garbage : BOOLEAN, keys : SUBSET Text, seen : SUBSET Text, edits : SUBSET Kinds]

\* A table is made in the room there is for it.
LEMMA BecomeRoom ==
  ASSUME NEW t \in Seq(Entries), nalloc \in Nat, nalloc > 0, Become(t)
  PROVE  /\ parms' = t /\ nalloc' \in Nat
         /\ Len(parms') <= nalloc' /\ nalloc' > 0
<1>1. Len(t) \in Nat /\ nalloc \in Nat \ {0}
  OBVIOUS
<1>2. parms' = t /\ nalloc' = Room(nalloc, Len(t))
  BY DEF Become
<1>3. Room(nalloc, Len(t)) \in Nat \ {0} /\ Room(nalloc, Len(t)) >= Len(t)
  BY <1>1, RoomEnough
<1>4. QED
  BY <1>1, <1>2, <1>3

\* Setting the value of a name the loop has come to last, or not yet, leaves
\* what is to come in place, or what it came to.
LEMMA SetKeepsLoop ==
  ASSUME NEW e \in LoopType, NEW t \in Seq(Entries), NEW key \in Text, NEW val \in Text,
         LoopGood(e, t), e.on, FirstOf(t, key) # 0, FirstOf(t, key) >= e.next - 1
  PROVE  LoopGood(e, TableSet(t, key, val))
<1> DEFINE r == TableSet(t, key, val)
           first == FirstOf(t, key)
<1>1. /\ r \in Seq(Entries)
      /\ Len(r) \in first..Len(t)
      /\ \A i \in 1..first : r[i].key = t[i].key
      /\ \A i \in first + 1..Len(t) : HasKey(t[i], key) \/ \E j \in first + 1..Len(r) : r[j] = t[i]
  BY SetFacts
<1>2. /\ first \in 1..Len(t) /\ HasKey(t[first], key) /\ first >= e.next - 1
  BY FirstOfFacts
<1>3. e.next \in Nat \ {0} /\ e.next <= Len(t) + 1
  BY DEF LoopGood, LoopType
<1> HIDE DEF r, first
<1>4. e.next <= Len(r) + 1
  BY <1>1, <1>2, <1>3
<1>5. e.next > 1 => Fold(r[e.next - 1].key) \in e.seen
  <2>1. e.next > 1 => e.next - 1 \in 1..first
    BY <1>2, <1>3
  <2>2. e.next > 1 => Fold(t[e.next - 1].key) \in e.seen
    BY DEF LoopGood
  <2>3. e.next > 1 => r[e.next - 1].key = t[e.next - 1].key
    BY <1>1, <2>1
  <2>4. QED
    BY <2>2, <2>3
\* The key that is set was seen, or is to come where it was first.
<1>6. Fold(t[first].key) \in e.seen \/ ToCome(e, r, Fold(t[first].key))
  <2>1. r[first].key = t[first].key /\ first \in 1..Len(r)
    BY <1>1, <1>2
  <2>2. CASE first = e.next - 1
    <3>1. e.next > 1
      BY <1>2, <1>3, <2>2
    <3>2. Fold(t[e.next - 1].key) \in e.seen
      BY <3>1 DEF LoopGood
    <3>3. QED
      BY <2>2, <3>2
  <2>3. CASE first # e.next - 1
    <3>1. first \in e.next..Len(r)
      BY <1>2, <1>3, <2>1, <2>3
    <3>2. QED
      BY <2>1, <3>1 DEF ToCome
  <2>4. QED
    BY <2>2, <2>3
<1>7. ASSUME NEW k \in e.keys, k \notin e.seen
      PROVE  ToCome(e, r, k)
  <2>1. ToCome(e, t, k)
    BY <1>7 DEF LoopGood
  <2>2. PICK i \in e.next..Len(t) : Fold(t[i].key) = k
    BY <2>1 DEF ToCome
  <2>3. CASE i <= first
    <3>1. i \in 1..first /\ i \in e.next..Len(r)
      BY <1>1, <1>2, <1>3, <2>3
    <3>2. r[i].key = t[i].key
      BY <1>1, <3>1
    <3>3. QED
      BY <2>2, <3>1, <3>2 DEF ToCome
  <2>4. CASE i > first /\ HasKey(t[i], key)
    <3>1. Fold(t[i].key) = Fold(t[first].key)
      BY <1>2, <2>4 DEF HasKey
    <3>2. QED
      BY <1>6, <1>7, <2>2, <3>1
  <2>5. CASE i > first /\ ~ HasKey(t[i], key)
    <3>1. i \in first + 1..Len(t)
      BY <1>2, <1>3, <2>2, <2>5
    <3>2. PICK j \in first + 1..Len(r) : r[j] = t[i]
      BY <1>1, <2>5, <3>1
    <3>3. j \in e.next..Len(r)
      BY <1>2, <1>3, <3>2
    <3>4. QED
      BY <2>2, <3>2, <3>3 DEF ToCome
  <2>6. i \in Int /\ first \in Int
    BY <1>2, <1>3, <2>2
  <2>7. QED
    BY <2>3, <2>4, <2>5, <2>6
<1>8. ~ e.moved /\ ~ e.garbage
  BY DEF LoopGood
<1>9. LoopGood(e, r)
  BY <1>4, <1>5, <1>7, <1>8 DEF LoopGood
<1>10. QED
  BY <1>9 DEF r

\* The loop is as good after an edit that leaves t.
Edited(kind, t) ==
  IF each.on
    THEN [each EXCEPT !.edits = @ \cup {kind},
                      !.moved = @ \/ Len(t) > nalloc,
                      !.hdrs = IF ~ each.moved /\ Len(t) > nalloc
                                 THEN SubSeq(t, 1, nalloc) ELSE @]
    ELSE each
EditedLoop(e, ks, m, h) == [e EXCEPT !.edits = ks, !.moved = m, !.hdrs = h]
LEMMA EditedFields ==
  ASSUME NEW e \in LoopType, NEW ks \in SUBSET Kinds, NEW m \in BOOLEAN,
         NEW h \in Seq(Entries), NEW f, f = EditedLoop(e, ks, m, h)
  PROVE  /\ f \in LoopType /\ f.edits = ks /\ f.moved = m
         /\ f.on = e.on /\ f.garbage = e.garbage /\ f.next = e.next
         /\ f.keys = e.keys /\ f.seen = e.seen
BY DEF LoopType, EditedLoop

LEMMA EditKeeps ==
  ASSUME TableTypeOK, TableInv, NEW kind \in Kinds, NEW t \in Seq(Entries), Edit(kind, t),
         kind = "set" /\ each.on /\ LoopGood(each, parms) =>
           LoopGood(each, t) /\ Len(t) <= Len(parms)
  PROVE  TableTypeOK' /\ TableInv'
<1>1. /\ parms' = t /\ nalloc' \in Nat
      /\ Len(parms') <= nalloc' /\ nalloc' > 0
  <2>1. nalloc \in Nat /\ nalloc > 0 /\ Become(t)
    BY DEF TableTypeOK, TableInv, Edit
  <2>2. QED
    BY <2>1, BecomeRoom
<1>2. edits' \in 0..MaxEdits
  BY TableAssumption DEF TableTypeOK, Edit
<1>3. each \in LoopType /\ each' = Edited(kind, t)
  BY DEF TableTypeOK, LoopType, Edit, Edited
<1>4. CASE ~ each.on
  <2>1. each' = each
    BY <1>3, <1>4 DEF Edited
  <2>2. LoopGood(each, parms) => LoopGood(each, t)
    BY <1>4 DEF LoopGood
  <2>3. TableTypeOK'
    BY <1>1, <1>2, <1>3, <2>1 DEF TableTypeOK, LoopType
  <2>4. TableInv'
    BY <1>1, <2>1, <2>2 DEF TableInv
  <2>5. QED
    BY <2>3, <2>4
<1>5. CASE each.on
  <2> DEFINE moved == each.moved \/ Len(t) > nalloc
             hdrs == IF ~ each.moved /\ Len(t) > nalloc
                       THEN SubSeq(t, 1, nalloc) ELSE each.hdrs
  <2>1. each' = EditedLoop(each, each.edits \cup {kind}, moved, hdrs)
    BY <1>3, <1>5 DEF Edited, EditedLoop
  <2>2. moved \in BOOLEAN
    BY <1>3 DEF LoopType
  <2>3. hdrs \in Seq(Entries)
    <3>1. each.hdrs \in Seq(Entries)
      BY <1>3 DEF LoopType
    <3>2. nalloc \in Nat
      BY DEF TableTypeOK
    <3>3. CASE ~ each.moved /\ Len(t) > nalloc
      <4>1. nalloc \in 0..Len(t)
        BY <3>2, <3>3
      <4>2. SubSeq(t, 1, nalloc) \in Seq(Entries)
        BY <4>1
      <4>3. QED
        BY <3>3, <4>2
    <3>4. QED
      BY <3>1, <3>3
  <2>4. Len(t) <= Len(parms) => (moved <=> each.moved)
    BY DEF TableInv, TableTypeOK
  <2> HIDE DEF moved, hdrs
  <2>5. /\ each' \in LoopType /\ each'.edits = each.edits \cup {kind} /\ each'.moved = moved
        /\ each'.on = each.on /\ each'.garbage = each.garbage /\ each'.next = each.next
        /\ each'.keys = each.keys /\ each'.seen = each.seen
    <3>1. each.edits \cup {kind} \in SUBSET Kinds
      BY <1>3 DEF LoopType
    <3>2. QED
      BY <1>3, <2>1, <2>2, <2>3, <3>1, EditedFields
  <2>6. TableTypeOK'
    BY <1>1, <1>2, <2>5 DEF TableTypeOK, LoopType
  <2>7. ASSUME each'.edits \subseteq {"set"}
        PROVE  LoopGood(each', t)
    <3>1. kind = "set" /\ each.edits \subseteq {"set"}
      BY <2>5, <2>7
    <3>2. LoopGood(each, parms)
      BY <3>1 DEF TableInv
    <3>3. LoopGood(each, t) /\ Len(t) <= Len(parms)
      BY <1>5, <3>1, <3>2
    <3>4. each'.moved <=> each.moved
      BY <2>4, <2>5, <3>3
    <3>5. QED
      BY <1>5, <2>5, <3>3, <3>4 DEF LoopGood, ToCome
  <2>8. TableInv'
    BY <1>1, <2>7 DEF TableInv
  <2>9. QED
    BY <2>6, <2>8
<1>6. QED
  BY <1>4, <1>5

LEMMA NotLoopingGood ==
  ASSUME NEW t
  PROVE  LoopGood(NotLooping, t) /\ NotLooping \in LoopType
BY DEF LoopGood, NotLooping, LoopType

LEMMA FoldType ==
  ASSUME NEW key \in Text
  PROVE  Fold(key) \in Text
<1> DEFINE u == [j \in 1..Len(key) |-> IF key[j] \in DOMAIN Lower THEN Lower[key[j]] ELSE key[j]]
<1>1. ASSUME NEW j \in 1..Len(key) PROVE u[j] \in Bytes
  <2>1. key[j] \in Bytes
    BY DEF Text
  <2>2. CASE key[j] \in DOMAIN Lower
    BY <2>2, TableAssumption
  <2>3. CASE key[j] \notin DOMAIN Lower
    BY <2>1, <2>3
  <2>4. QED
    BY <2>2, <2>3
<1>2. u = [j \in 1..Len(key) |-> u[j]] /\ Len(key) \in Nat
  BY DEF Text
<1>3. Fold(key) = u
  BY DEF Fold
<1> HIDE DEF u
<1>4. u \in Seq(Bytes)
  BY <1>1, <1>2
<1>5. QED
  BY <1>3, <1>4 DEF Text

NextLoop(e, next, seen) == [e EXCEPT !.next = next, !.seen = seen]
LEMMA NextLoopFields ==
  ASSUME NEW e \in LoopType, NEW next \in Nat \ {0}, NEW seen \in SUBSET Text,
         NEW f, f = NextLoop(e, next, seen)
  PROVE  /\ f \in LoopType /\ f.next = next /\ f.seen = seen
         /\ f.on = e.on /\ f.moved = e.moved /\ f.garbage = e.garbage
         /\ f.keys = e.keys /\ f.edits = e.edits
BY DEF LoopType, NextLoop

LostLoop(e, next) == [e EXCEPT !.next = next, !.garbage = TRUE]
LEMMA LostLoopFields ==
  ASSUME NEW e \in LoopType, NEW next \in Nat \ {0}
  PROVE  LostLoop(e, next) \in LoopType /\ LostLoop(e, next).edits = e.edits
BY DEF LoopType, LostLoop

BeginLoop(names) == [NotLooping EXCEPT !.on = TRUE, !.keys = names]
LEMMA BeginLoopFields ==
  ASSUME NEW names \in SUBSET Text, NEW e, e = BeginLoop(names)
  PROVE  /\ e \in LoopType /\ e.on /\ e.next = 1 /\ ~ e.moved /\ ~ e.garbage /\ e.keys = names
<1>1. e = [on |-> TRUE, next |-> 1, moved |-> FALSE, hdrs |-> <<>>, garbage |-> FALSE,
           keys |-> names, seen |-> {}, edits |-> {}]
  BY DEF BeginLoop, NotLooping
<1>2. <<>> \in Seq(Entries)
  OBVIOUS
<1>3. QED
  BY <1>1, <1>2 DEF LoopType

\* Handlers edit the table in any way, and loop over it.
LEMMA TableNextKeeps ==
  ASSUME TableTypeOK, TableInv, TableNext
  PROVE  TableTypeOK' /\ TableInv'
<1>0. parms \in Seq(Entries) /\ each \in LoopType /\ nalloc \in Nat
  BY DEF TableTypeOK, LoopType
<1>1. ASSUME NEW key \in EditKeys, NEW vals \in EditValues, Len(vals) = 1,
             ParamSet(key, vals[1])
      PROVE  TableTypeOK' /\ TableInv'
  <2> DEFINE val == vals[1]
             first == FirstOf(parms, key)
  <2>1. key \in Text /\ val \in Text
    <3>1. vals \in Seq(Text) /\ key \in Text
      BY TableAssumption
    <3>2. QED
      BY <1>1, <3>1
  <2>2. Edit(Kind(key), SetFirst(key, val))
    BY <1>1 DEF ParamSet
  <2> HIDE DEF val
  <2>3. SetFirst(key, val) \in Seq(Entries)
    BY <1>0, <2>1, SetFacts DEF SetFirst
  <2>4. Kind(key) = IF first = 0 THEN "add" ELSE IF first >= each.next - 1 THEN "set" ELSE "late"
    BY Zenon DEF Kind, FirstOf
  <2>5. Kind(key) \in Kinds
    BY <2>4 DEF Kinds
  <2>6. ASSUME Kind(key) = "set", each.on, LoopGood(each, parms)
        PROVE  LoopGood(each, SetFirst(key, val)) /\ Len(SetFirst(key, val)) <= Len(parms)
    <3>1. first # 0 /\ first >= each.next - 1
      BY <2>4, <2>6
    <3>2. LoopGood(each, TableSet(parms, key, val))
      BY <1>0, <2>1, <2>6, <3>1, SetKeepsLoop
    <3>3. Len(TableSet(parms, key, val)) \in first..Len(parms)
      BY <1>0, <2>1, <3>1, SetFacts
    <3>4. Len(TableSet(parms, key, val)) <= Len(parms)
      BY <3>3
    <3>5. QED
      BY <3>2, <3>4 DEF SetFirst
  <2> DEFINE kind == Kind(key)
             t == SetFirst(key, val)
  <2>7. kind \in Kinds /\ t \in Seq(Entries) /\ Edit(kind, t)
    BY <2>2, <2>3, <2>5
  <2>8. kind = "set" /\ each.on /\ LoopGood(each, parms) => LoopGood(each, t) /\ Len(t) <= Len(parms)
    BY <2>6
  <2> HIDE DEF kind, t
  <2>9. QED
    BY <2>7, <2>8, EditKeeps
<1>2. ASSUME NEW kind \in {"multi", "unset", "clear"}, NEW t \in Seq(Entries), Edit(kind, t)
      PROVE  TableTypeOK' /\ TableInv'
  <2>1. kind \in Kinds /\ kind # "set"
    BY DEF Kinds
  <2>2. QED
    BY <1>2, <2>1, EditKeeps
<1>3. ASSUME NEW key \in EditKeys, NEW vals \in EditValues, NEW strings \in 0..Len(vals),
             ParamSetMulti(key, vals, strings)
      PROVE  TableTypeOK' /\ TableInv'
  <2> DEFINE t == AddAll(OldValuesGone(key), key, SubSeq(vals, 1, strings))
  <2>1. vals \in Seq(Text) /\ key \in Text
    BY TableAssumption
  <2>2. SubSeq(vals, 1, strings) \in Seq(Text)
    BY <2>1
  <2>3. OldValuesGone(key) \in Seq(Entries)
    BY <1>0, UnsetFacts DEF OldValuesGone
  <2>4. t \in Seq(Entries)
    BY <2>1, <2>2, <2>3, AddAllType
  <2>5. Edit("multi", t)
    BY <1>3 DEF ParamSetMulti
  <2> HIDE DEF t
  <2>6. QED
    BY <1>2, <2>4, <2>5
<1>4. ASSUME NEW key \in EditKeys, ParamUnset(key)
      PROVE  TableTypeOK' /\ TableInv'
  <2>1. TableUnset(parms, key) \in Seq(Entries)
    BY <1>0, UnsetFacts
  <2>2. Edit("unset", TableUnset(parms, key))
    BY <1>4 DEF ParamUnset
  <2> DEFINE t == TableUnset(parms, key)
  <2>3. t \in Seq(Entries) /\ Edit("unset", t)
    BY <2>1, <2>2
  <2> HIDE DEF t
  <2>4. QED
    BY <1>2, <2>3
<1>5. CASE ParamClear
  <2>1. <<>> \in Seq(Entries)
    OBVIOUS
  <2>2. QED
    BY <1>2, <1>5, <2>1 DEF ParamClear
<1>6. ASSUME NEW e, e = each', e \in LoopType, UNCHANGED <<parms, nalloc, edits>>,
             e.edits \subseteq {"set"} => LoopGood(e, parms)
      PROVE  TableTypeOK' /\ TableInv'
  <2>1. TableTypeOK'
    BY <1>6 DEF TableTypeOK, LoopType
  <2>2. TableInv'
    BY <1>6 DEF TableInv
  <2>3. QED
    BY <2>1, <2>2
<1>7. CASE EachBegin
  <2> DEFINE names == {Fold(entry.key) : entry \in ToSet(parms)}
             e == BeginLoop(names)
  <2>1. ASSUME NEW k \in names
        PROVE  k \in Text /\ \E i \in 1..Len(parms) : Fold(parms[i].key) = k
    <3>1. PICK entry \in ToSet(parms) : Fold(entry.key) = k
      OBVIOUS
    <3>2. PICK i \in 1..Len(parms) : parms[i] = entry
      BY <1>0, <3>1, Zenon, LenProperties DEF ToSet
    <3>3. entry.key \in Text
      <4>1. entry \in Entries
        BY <1>0, <3>2
      <4>2. QED
        BY <4>1 DEF Entries
    <3>4. Fold(entry.key) \in Text
      BY <3>3, FoldType
    <3>5. QED
      BY <3>1, <3>2, <3>4
  <2> HIDE DEF names
  <2>2. names \in SUBSET Text
    BY <2>1
  <2>3. each' = e /\ UNCHANGED <<parms, nalloc, edits>>
    BY <1>7, Zenon DEF EachBegin, names, BeginLoop
  <2> HIDE DEF e
  <2>4. e \in LoopType /\ e.on /\ e.next = 1 /\ ~ e.moved /\ ~ e.garbage /\ e.keys = names
    BY <2>2, BeginLoopFields DEF e
  <2>5. LoopGood(e, parms)
    <3>1. Len(parms) \in Nat
      BY <1>0
    <3>2. \A k \in names : ToCome(e, parms, k)
      BY <2>1, <2>4 DEF ToCome
    <3>3. QED
      BY <2>4, <3>1, <3>2 DEF LoopGood
  <2>6. QED
    BY <1>6, <2>3, <2>4, <2>5
<1>8. CASE EachNext
  <2> DEFINE k == Fold(Hdrs[each.next].key)
             f == [each EXCEPT !.next = each.next + 1, !.seen = each.seen \cup {k}]
             g == [each EXCEPT !.next = each.next + 1, !.garbage = TRUE]
  <2>1. each.on /\ each.next <= Len(parms)
    BY <1>8 DEF EachNext
  <2>2. each' = IF each.next <= Len(Hdrs) THEN f ELSE g
    BY <1>8 DEF EachNext
  <2>3. UNCHANGED <<parms, nalloc, edits>>
    BY <1>8 DEF EachNext
  <2>4. each.next \in 1..Len(parms) /\ each.next \in Nat \ {0}
    BY <1>0, <2>1 DEF LoopType
  <2>5. CASE each.next <= Len(Hdrs)
    <3>1. Hdrs \in Seq(Entries)
      BY <1>0 DEF Hdrs, LoopType
    <3>2. k \in Text
      <4> DEFINE entry == Hdrs[each.next]
      <4>0. entry \in Entries
        BY <2>4, <2>5, <3>1
      <4> HIDE DEF entry
      <4>1. entry.key \in Text
        BY <4>0 DEF Entries
      <4>2. QED
        BY <4>1, FoldType DEF entry
    <3> HIDE DEF k
    <3> DEFINE seen == each.seen \cup {k}
               next == each.next + 1
    <3>3. f = NextLoop(each, next, seen)
      BY DEF NextLoop
    <3>4. /\ f \in LoopType /\ f.next = each.next + 1 /\ f.seen = each.seen \cup {k}
          /\ f.on = each.on /\ f.moved = each.moved /\ f.garbage = each.garbage
          /\ f.keys = each.keys /\ f.edits = each.edits
      <4>1. seen \in SUBSET Text /\ next \in Nat \ {0}
        BY <1>0, <2>4, <3>2 DEF LoopType
      <4> HIDE DEF f, seen, next
      <4>2. /\ f \in LoopType /\ f.next = next /\ f.seen = seen
            /\ f.on = each.on /\ f.moved = each.moved /\ f.garbage = each.garbage
            /\ f.keys = each.keys /\ f.edits = each.edits
        BY <1>0, <3>3, <4>1, NextLoopFields
      <4>3. QED
        BY <4>2 DEF seen, next
    <3> HIDE DEF f
    <3>5. ASSUME f.edits \subseteq {"set"}
          PROVE  LoopGood(f, parms)
      <4>1. LoopGood(each, parms)
        BY <3>4, <3>5 DEF TableInv
      <4>2. k = Fold(parms[each.next].key)
        BY <4>1 DEF LoopGood, Hdrs, k
      <4>3. f.next <= Len(parms) + 1 /\ f.next - 1 = each.next
        BY <1>0, <2>4, <3>4
      <4>4. Fold(parms[f.next - 1].key) \in f.seen
        BY <3>4, <4>2, <4>3
      <4>5. ASSUME NEW x \in f.keys, x \notin f.seen
            PROVE  ToCome(f, parms, x)
        <5>1. x \in each.keys /\ x \notin each.seen /\ x # k
          BY <3>4, <4>5
        <5>2. ToCome(each, parms, x)
          BY <2>1, <4>1, <5>1 DEF LoopGood
        <5>3. PICK i \in each.next..Len(parms) : Fold(parms[i].key) = x
          BY <5>2 DEF ToCome
        <5>4. i # each.next
          BY <4>2, <5>1, <5>3
        <5>5. i \in f.next..Len(parms)
          BY <1>0, <2>4, <3>4, <5>3, <5>4
        <5>6. QED
          BY <5>3, <5>5 DEF ToCome
      <4>6. ~ f.moved /\ ~ f.garbage /\ f.on
        BY <2>1, <3>4, <4>1 DEF LoopGood
      <4>7. QED
        BY <4>3, <4>4, <4>5, <4>6 DEF LoopGood
    <3>6. each' = f
      BY <2>2, <2>5
    <3>7. QED
      BY <1>6, <2>3, <3>4, <3>5, <3>6
  <2>6. CASE ~ (each.next <= Len(Hdrs))
    <3>1. each' = g
      BY <2>2, <2>6
    <3>2. g \in LoopType /\ g.edits = each.edits
      <4> DEFINE next == each.next + 1
      <4>1. g = LostLoop(each, next)
        BY DEF LostLoop
      <4>2. next \in Nat \ {0}
        BY <2>4
      <4> HIDE DEF g, next
      <4>3. QED
        BY <1>0, <4>1, <4>2, LostLoopFields
    <3> HIDE DEF g
    <3>3. ~ (g.edits \subseteq {"set"})
      <4>1. SUFFICES ASSUME each.edits \subseteq {"set"} PROVE FALSE
        BY <3>2
      <4>2. ~ each.moved
        BY <4>1 DEF TableInv, LoopGood
      <4>3. Hdrs = parms
        BY <4>2 DEF Hdrs
      <4>4. QED
        BY <2>1, <2>6, <4>3
    <3>4. QED
      BY <1>6, <2>3, <3>1, <3>2, <3>3
  <2>7. QED
    BY <2>5, <2>6
<1>9. CASE EachEnd
  <2> DEFINE e == [each EXCEPT !.on = FALSE]
  <2>1. each' = e /\ UNCHANGED <<parms, nalloc, edits>> /\ each.next > Len(parms) /\ each.on
    BY <1>9 DEF EachEnd
  <2>2. /\ e \in LoopType /\ ~ e.on /\ e.edits = each.edits /\ e.keys = each.keys
        /\ e.seen = each.seen /\ e.moved = each.moved /\ e.garbage = each.garbage
    BY <1>0 DEF LoopType
  <2> HIDE DEF e
  <2>3. ASSUME e.edits \subseteq {"set"}
        PROVE  LoopGood(e, parms)
    <3>1. LoopGood(each, parms)
      BY <2>2, <2>3 DEF TableInv
    <3>2. each.next..Len(parms) = {}
      BY <1>0, <2>1 DEF LoopType
    <3>3. \A k \in each.keys : ~ ToCome(each, parms, k)
      BY <3>2 DEF ToCome
    <3>4. each.keys \subseteq each.seen
      BY <2>1, <3>1, <3>3 DEF LoopGood
    <3>5. QED
      BY <2>2, <3>1, <3>4 DEF LoopGood
  <2>4. QED
    BY <1>6, <2>1, <2>2, <2>3
<1>10. QED
  BY <1>1, <1>3, <1>4, <1>5, <1>7, <1>8, <1>9 DEF TableNext

-----------------------------------------------------------------------------
(* The connection.                                                         *)

\* What ap_get_client_block has yet to give is what the request announced, or
\* more: the connection was set up, maybe again.
SetUp(c) == c.remaining >= Announced - c.at
\* No more comes, though Apache expects it.
Ended1(c) == c.at = request.fails
             \/ (c.at = Len(request.body) /\ (request.counts \/ request.missing # 0))
Stuck(c) == c.remaining > 0 /\ Ended1(c)
\* No more is asked for than there is.
Modest(c) == request.counts => c.remaining <= Len(request.body) - c.at

LEMMA BodyType ==
  ASSUME RequestTypeOK
  PROVE  /\ request.body \in Seq(Bytes) /\ Len(request.body) \in Nat
         /\ request.missing \in Nat /\ Announced \in Nat
         /\ Announced = Len(request.body) + request.missing
BY DEF RequestTypeOK, Text, Announced

LEMMA BlockEndFacts ==
  ASSUME RequestTypeOK, NEW at \in Nat, at < Len(request.body), NEW k \in Nat \ {0}
  PROVE  BlockEnd(at, k) \in at + 1..Len(request.body) /\ BlockEnd(at, k) <= at + k
<1> DEFINE T == {at + k} \cup {e \in request.ends \cup {request.fails, Len(request.body)} : e > at}
<1>1. Len(request.body) \in Nat /\ at + k \in Nat
  BY BodyType
<1>2. Len(request.body) \in T /\ at + k \in T
  OBVIOUS
<1>3. ASSUME NEW e \in T PROVE e \in Nat /\ e > at
  BY <1>1 DEF RequestTypeOK, NoFailure
<1>4. BlockEnd(at, k) = Min(T)
  BY Zenon DEF BlockEnd
<1> HIDE DEF T
<1>5. T \in SUBSET Nat /\ T # {}
  BY <1>2, <1>3
<1>6. Min(T) \in T /\ \A e \in T : Min(T) <= e
  BY <1>5, MinNumber
<1> DEFINE m == Min(T)
<1>7. m \in Nat /\ m > at /\ m <= Len(request.body) /\ m <= at + k
  BY <1>2, <1>3, <1>6
<1> HIDE DEF m
<1>8. m \in at + 1..Len(request.body) /\ m <= at + k
  BY <1>1, <1>7
<1>9. QED
  BY <1>4, <1>8 DEF m

\* What is true of every block: b is what GetBlock gives c.
BlockOf(c, size, b) ==
  /\ b.client \in Clients /\ b.failed \in BOOLEAN /\ b.bytes \in Text
  /\ b.client.at >= c.at /\ b.client.at <= c.at + size
  /\ b.bytes = SubSeq(request.body, c.at + 1, b.client.at)
  /\ Len(b.bytes) = b.client.at - c.at
  /\ c.remaining <= 0 => b.client.remaining <= 0
  /\ b.failed => b.client.at = c.at /\ Stuck(b.client)
  /\ b.bytes = <<>> /\ ~ b.failed => b.client.remaining <= 0
  /\ SetUp(c) => SetUp(b.client)
  /\ Stuck(c) => Stuck(b.client) /\ b.client.at = c.at
  /\ c.at \in {request.fails, Len(request.body)} => b.client.at = c.at
  /\ request.missing = 0 /\ Modest(c) => b.client.waits = c.waits /\ Modest(b.client)

\* The connection after a block, and where the parser's reading is undone.
Moved(c, at, remaining, long) ==
  [c EXCEPT !.at = at, !.remaining = remaining, !.read_length = long]
LEMMA MovedFields ==
  ASSUME NEW c \in Clients, NEW at \in 0..Len(request.body), NEW remaining \in Int,
         NEW long \in Nat
  PROVE  /\ Moved(c, at, remaining, long) \in Clients
         /\ Moved(c, at, remaining, long).at = at
         /\ Moved(c, at, remaining, long).remaining = remaining
         /\ Moved(c, at, remaining, long).read_length = long
         /\ Moved(c, at, remaining, long).waits = c.waits
BY DEF Moved, Clients

LEMMA RemainingFields ==
  ASSUME NEW c \in Clients, NEW remaining \in Int
  PROVE  /\ [c EXCEPT !.remaining = remaining] \in Clients
         /\ [c EXCEPT !.remaining = remaining].at = c.at
         /\ [c EXCEPT !.remaining = remaining].remaining = remaining
         /\ [c EXCEPT !.remaining = remaining].read_length = c.read_length
         /\ [c EXCEPT !.remaining = remaining].waits = c.waits
BY DEF Clients

LEMMA WaitsFields ==
  ASSUME NEW c \in Clients
  PROVE  /\ [c EXCEPT !.waits = TRUE] \in Clients
         /\ [c EXCEPT !.waits = TRUE].at = c.at
         /\ [c EXCEPT !.waits = TRUE].remaining = c.remaining
         /\ [c EXCEPT !.waits = TRUE].waits = TRUE
BY DEF Clients

LEMMA LessOf ==
  ASSUME NEW m \in Nat, NEW n \in Nat
  PROVE  Min({m, n}) \in {m, n} /\ Min({m, n}) <= m /\ Min({m, n}) <= n
<1>1. {m, n} \in SUBSET Nat /\ {m, n} # {}
  OBVIOUS
<1>2. Min({m, n}) \in {m, n} /\ \A k \in {m, n} : Min({m, n}) <= k
  BY <1>1, MinNumber
<1>3. QED
  BY <1>2

LEMMA GetBlockFacts ==
  ASSUME RequestTypeOK, NEW c \in Clients, NEW size \in Nat \ {0}
  PROVE  BlockOf(c, size, GetBlock(c, size))
<1> DEFINE b == GetBlock(c, size)
           asked == IF request.counts THEN Min({size, c.remaining}) ELSE size
           end == BlockEnd(c.at, asked)
           left == IF request.counts THEN c.remaining - (end - c.at)
                   ELSE IF end = Announced THEN 0 ELSE c.remaining
           None == [bytes |-> <<>>, failed |-> FALSE, client |-> c]
           Failed == [None EXCEPT !.failed = TRUE]
<1>1. /\ c.at \in 0..Len(request.body) /\ c.remaining \in Int /\ c.read_length \in Nat
      /\ c.waits \in BOOLEAN
  BY DEF Clients
<1>2. Len(request.body) \in Nat /\ Announced = Len(request.body) + request.missing
      /\ request.missing \in Nat /\ request.body \in Seq(Bytes)
  BY BodyType
<1>3. SubSeq(request.body, c.at + 1, c.at) = <<>>
  BY <1>1, <1>2
<1>4. CASE c.remaining <= 0
  <2>1. b = None
    BY <1>4, Zenon DEF GetBlock
  <2>2. b.bytes = <<>> /\ b.failed = FALSE /\ b.client = c
    BY <2>1
  <2> HIDE DEF b
  <2>3. b.client = c /\ b.client \in Clients /\ b.client.at >= c.at /\ b.client.at <= c.at + size
    BY <1>1, <2>2
  <2>4. b.bytes \in Text /\ Len(b.bytes) = b.client.at - c.at
    BY <1>1, <2>2, <2>3 DEF Text
  <2>5. b.bytes = SubSeq(request.body, c.at + 1, b.client.at)
    BY <1>3, <2>2, <2>3
  <2>6. BlockOf(c, size, b)
    BY <1>4, <2>2, <2>3, <2>4, <2>5 DEF BlockOf
  <2>7. QED
    BY <2>6 DEF b
<1>5. CASE c.remaining > 0 /\ c.at = request.fails
  <2>1. b = Failed
    BY <1>1, <1>5 DEF GetBlock
  <2>2. b.bytes = <<>> /\ b.failed = TRUE /\ b.client = c
    BY <2>1
  <2> HIDE DEF b
  <2>3. b.client = c /\ b.client \in Clients /\ b.client.at >= c.at /\ b.client.at <= c.at + size
    BY <1>1, <2>2
  <2>4. b.bytes \in Text /\ Len(b.bytes) = b.client.at - c.at
    BY <1>1, <2>2, <2>3 DEF Text
  <2>5. b.bytes = SubSeq(request.body, c.at + 1, b.client.at)
    BY <1>3, <2>2, <2>3
  <2>6. Stuck(c)
    BY <1>5 DEF Stuck, Ended1
  <2>7. BlockOf(c, size, b)
    BY <2>2, <2>3, <2>4, <2>5, <2>6 DEF BlockOf
  <2>8. QED
    BY <2>7 DEF b
<1>6. CASE c.remaining > 0 /\ c.at # request.fails /\ c.at < Len(request.body)
  <2>1. asked \in Nat \ {0} /\ asked <= size /\ (request.counts => asked <= c.remaining)
    <3>1. c.remaining \in Nat \ {0}
      BY <1>1, <1>6
    <3> DEFINE less == Min({size, c.remaining})
    <3>2. less \in {size, c.remaining} /\ less <= size /\ less <= c.remaining
      BY <3>1, LessOf
    <3>3. asked = IF request.counts THEN less ELSE size
      OBVIOUS
    <3> HIDE DEF less, asked
    <3>4. QED
      BY <3>1, <3>2, <3>3
  <2>2. b = [bytes |-> SubSeq(request.body, c.at + 1, end), failed |-> FALSE,
             client |-> [c EXCEPT !.at = end, !.remaining = left,
                                  !.read_length = @ + (end - c.at)]]
    <3>1. ~ (c.remaining <= 0) /\ c.at # request.fails /\ c.at < Len(request.body)
      BY <1>1, <1>6
    <3>2. QED
      BY <3>1, Zenon DEF GetBlock
  <2> HIDE DEF asked
  <2>3. end \in c.at + 1..Len(request.body) /\ end <= c.at + asked
    <3>1. c.at \in Nat
      BY <1>1
    <3>2. QED
      BY <1>6, <2>1, <3>1, BlockEndFacts
  <2> HIDE DEF b, end
  <2> DEFINE long == c.read_length + (end - c.at)
  <2>4. left \in Int /\ long \in Nat /\ end \in 0..Len(request.body)
    BY <1>1, <1>2, <2>3, SMTT(30)
  <2>5. left = IF request.counts THEN c.remaining - (end - c.at)
               ELSE IF end = Announced THEN 0 ELSE c.remaining
    OBVIOUS
  <2> HIDE DEF left
  <2>6. b.client = Moved(c, end, left, long)
    <3>1. b.client = [c EXCEPT !.at = end, !.remaining = left,
                               !.read_length = @ + (end - c.at)]
      BY <2>2
    <3>2. QED
      BY <3>1, Zenon DEF Moved
  <2> HIDE DEF long
  <2>7. /\ b.client \in Clients /\ b.client.at = end /\ b.client.remaining = left
        /\ b.client.waits = c.waits
    BY <2>4, <2>6, MovedFields
  <2>8. b.bytes = SubSeq(request.body, c.at + 1, end) /\ b.failed = FALSE
    BY <2>2
  <2>9. b.bytes \in Text /\ Len(b.bytes) = end - c.at
    BY <1>1, <1>2, <2>3, <2>8, SMTT(30) DEF Text
  <2>10. c.remaining <= 0 => b.client.remaining <= 0
    BY <1>1, <1>6
  <2>11. ~ (b.bytes = <<>>)
    BY <1>1, <2>3, <2>9
  <2>12. SetUp(c) => SetUp(b.client)
    <3>1. SetUp(c) => left >= Announced - end
      BY <1>1, <1>2, <2>3, <2>5, SMTT(30) DEF SetUp
    <3>2. QED
      BY <2>7, <3>1 DEF SetUp
  <2>13. ~ Stuck(c) /\ c.at \notin {request.fails, Len(request.body)}
    BY <1>1, <1>6 DEF Stuck, Ended1
  <2>14. request.missing = 0 /\ Modest(c) => Modest(b.client)
    <3>1. Modest(c) /\ request.counts => left <= Len(request.body) - end
      BY <1>1, <1>2, <2>3, <2>5 DEF Modest
    <3>2. QED
      BY <2>7, <3>1 DEF Modest
  <2>15. end <= c.at + size /\ end >= c.at
    BY <1>1, <2>1, <2>3
  <2>16. BlockOf(c, size, b)
    BY <2>7, <2>8, <2>9, <2>10, <2>11, <2>12, <2>13, <2>14, <2>15 DEF BlockOf
  <2>17. QED
    BY <2>16 DEF b
<1>7. CASE c.remaining > 0 /\ c.at # request.fails /\ c.at = Len(request.body)
           /\ ~ request.counts /\ c.at = Announced
  <2>1. b = [None EXCEPT !.client.remaining = 0]
    BY <1>1, <1>2, <1>7 DEF GetBlock
  <2>2. b.bytes = <<>> /\ b.failed = FALSE /\ b.client = [c EXCEPT !.remaining = 0]
    BY <2>1
  <2>3. /\ b.client \in Clients /\ b.client.at = c.at /\ b.client.remaining = 0
        /\ b.client.waits = c.waits
    BY <2>2, RemainingFields
  <2> HIDE DEF b
  <2>4. request.missing = 0
    BY <1>2, <1>7
  <2>5. ~ Stuck(c)
    BY <1>1, <1>7, <2>4 DEF Stuck, Ended1
  <2>6. SetUp(b.client) /\ Modest(b.client)
    BY <1>1, <1>2, <1>7, <2>3 DEF SetUp, Modest
  <2>7. b.client.at >= c.at /\ b.client.at <= c.at + size
    BY <1>1, <2>3
  <2>8. b.bytes \in Text /\ Len(b.bytes) = b.client.at - c.at
    BY <1>1, <2>2, <2>3 DEF Text
  <2>9. b.bytes = SubSeq(request.body, c.at + 1, b.client.at)
    BY <1>3, <2>2, <2>3
  <2>10. b.client.remaining <= 0 /\ ~ b.failed
    BY <2>2, <2>3
  <2>11. BlockOf(c, size, b)
    BY <2>2, <2>3, <2>5, <2>6, <2>7, <2>8, <2>9, <2>10 DEF BlockOf
  <2>12. QED
    BY <2>11 DEF b
<1>8. CASE c.remaining > 0 /\ c.at # request.fails /\ c.at = Len(request.body)
           /\ ~ (~ request.counts /\ c.at = Announced)
  <2>1. b = [Failed EXCEPT !.client.waits = TRUE]
    BY <1>1, <1>2, <1>8 DEF GetBlock
  <2>2. b.bytes = <<>> /\ b.failed = TRUE /\ b.client = [c EXCEPT !.waits = TRUE]
    BY <2>1
  <2>3. /\ b.client \in Clients /\ b.client.at = c.at /\ b.client.remaining = c.remaining
        /\ b.client.waits = TRUE
    BY <2>2, WaitsFields
  <2> HIDE DEF b
  <2>4. request.counts \/ request.missing # 0
    BY <1>2, <1>8
  <2>5. Stuck(c) /\ Stuck(b.client)
    BY <1>8, <2>3, <2>4 DEF Stuck, Ended1
  <2>6. request.missing = 0 => ~ Modest(c)
    BY <1>1, <1>2, <1>8, <2>4 DEF Modest
  <2>7. b.client.at >= c.at /\ b.client.at <= c.at + size
    BY <1>1, <2>3
  <2>8. b.bytes \in Text /\ Len(b.bytes) = b.client.at - c.at
    BY <1>1, <2>2, <2>3 DEF Text
  <2>9. b.bytes = SubSeq(request.body, c.at + 1, b.client.at)
    BY <1>3, <2>2, <2>3
  <2>10. SetUp(c) => SetUp(b.client)
    BY <2>3 DEF SetUp
  <2>11. c.remaining <= 0 => b.client.remaining <= 0
    BY <2>3
  <2>12. BlockOf(c, size, b)
    BY <2>2, <2>3, <2>5, <2>6, <2>7, <2>8, <2>9, <2>10, <2>11 DEF BlockOf
  <2>13. QED
    BY <2>12 DEF b
<1>9. c.at = Len(request.body) \/ c.at < Len(request.body)
  BY <1>1, <1>2
<1>10. c.remaining <= 0 \/ c.remaining > 0
  BY <1>1
<1>11. QED
  BY <1>4, <1>5, <1>6, <1>7, <1>8, <1>9, <1>10

\* d is the connection c, or what reads have made of it.
Onward(c, d) ==
  /\ d \in Clients /\ d.at >= c.at
  /\ SetUp(c) => SetUp(d)
  /\ Stuck(c) => Stuck(d) /\ d.at = c.at
  /\ c.at \in {request.fails, Len(request.body)} => d.at = c.at
  /\ request.missing = 0 /\ Modest(c) => d.waits = c.waits /\ Modest(d)

LEMMA OnwardStays ==
  ASSUME NEW c \in Clients
  PROVE  Onward(c, c)
<1>1. c.at \in Int
  BY DEF Clients
<1>2. QED
  BY <1>1 DEF Onward

LEMMA OnwardOn ==
  ASSUME NEW c \in Clients, NEW d, NEW e, Onward(c, d), Onward(d, e)
  PROVE  Onward(c, e)
<1>1. c.at \in Int /\ d.at \in Int /\ e.at \in Int
  BY DEF Clients, Onward
<1>2. QED
  BY <1>1 DEF Onward

LEMMA BlockOnward ==
  ASSUME RequestTypeOK, NEW c \in Clients, NEW size \in Nat \ {0}
  PROVE  Onward(c, GetBlock(c, size).client)
<1>1. BlockOf(c, size, GetBlock(c, size))
  BY GetBlockFacts
<1>2. QED
  BY <1>1 DEF BlockOf, Onward

\* A loop that reads from c has read the body from where c was.
ReadFrom(c, r) ==
  /\ Onward(c, r.client) /\ r.bytes \in Text
  /\ r.bytes = SubSeq(request.body, c.at + 1, r.client.at)
  /\ Len(r.bytes) = r.client.at - c.at

LEMMA ReadMore ==
  ASSUME RequestTypeOK, NEW c \in Clients, NEW r, ReadFrom(c, r), NEW size \in Nat \ {0},
         NEW q, q.bytes = r.bytes \o GetBlock(r.client, size).bytes,
         q.client = GetBlock(r.client, size).client
  PROVE  ReadFrom(c, q)
<1> DEFINE b == GetBlock(r.client, size)
<1>1. r.client \in Clients /\ Onward(c, r.client)
  BY DEF ReadFrom, Onward
<1>2. BlockOf(r.client, size, b) /\ Onward(r.client, b.client)
  BY <1>1, GetBlockFacts, BlockOnward
<1> HIDE DEF b
<1>3. Onward(c, q.client)
  <2>1. Onward(c, b.client)
    BY <1>1, <1>2, OnwardOn
  <2>2. q.client = b.client
    BY DEF b
  <2>3. QED
    BY <2>1, <2>2
<1>4. /\ b.bytes = SubSeq(request.body, r.client.at + 1, b.client.at)
      /\ Len(b.bytes) = b.client.at - r.client.at /\ b.bytes \in Text
      /\ b.client.at >= r.client.at
      /\ b.client.at \in 0..Len(request.body)
  BY <1>2 DEF BlockOf, Clients
<1>5. /\ r.bytes = SubSeq(request.body, c.at + 1, r.client.at) /\ r.bytes \in Text
      /\ Len(r.bytes) = r.client.at - c.at
      /\ r.client.at >= c.at
  BY DEF ReadFrom, Onward
<1>6. c.at \in Nat /\ r.client.at \in c.at..Len(request.body)
      /\ b.client.at \in r.client.at..Len(request.body)
  BY <1>1, <1>4, <1>5, SMTT(30) DEF Clients
<1>7. request.body \in Seq(Bytes)
  BY BodyType
<1>8. SubSeq(request.body, c.at + 1, r.client.at)
        \o SubSeq(request.body, r.client.at + 1, b.client.at)
      = SubSeq(request.body, c.at + 1, b.client.at)
  BY <1>6, <1>7, PiecesJoin
<1>9. q.bytes = r.bytes \o b.bytes /\ q.client = b.client
  BY DEF b
<1>10. q.bytes = SubSeq(request.body, c.at + 1, q.client.at)
  BY <1>4, <1>5, <1>8, <1>9
<1> DEFINE x == r.bytes
           y == b.bytes
<1>11. q.bytes \in Text /\ Len(q.bytes) = Len(x) + Len(y)
  <2>1. x \in Seq(Bytes) /\ y \in Seq(Bytes) /\ q.bytes = x \o y
    BY <1>4, <1>5, <1>9 DEF Text
  <2> HIDE DEF x, y
  <2>2. QED
    BY <2>1, ConcatFacts DEF Text
<1>12. Len(q.bytes) = q.client.at - c.at
  <2>1. Len(x) = r.client.at - c.at /\ Len(y) = b.client.at - r.client.at
    BY <1>4, <1>5
  <2> HIDE DEF x, y
  <2>2. QED
    BY <1>6, <1>9, <1>11, <2>1
<1>13. QED
  BY <1>3, <1>10, <1>11, <1>12 DEF ReadFrom

LEMMA ReadNothing ==
  ASSUME RequestTypeOK, NEW c \in Clients, NEW r, r.bytes = <<>>, r.client = c
  PROVE  ReadFrom(c, r)
<1>1. c.at \in Nat /\ c.at \in 0..Len(request.body) /\ request.body \in Seq(Bytes)
  BY BodyType DEF Clients
<1>2. SubSeq(request.body, c.at + 1, c.at) = <<>>
  BY <1>1
<1>3. <<>> \in Text /\ Len(<<>>) = 0
  BY DEF Text
<1>4. QED
  BY <1>1, <1>2, <1>3, OnwardStays DEF ReadFrom

\* The loop of read_client_block.
ReadStep(len, r) ==
  IF Len(r.bytes) < len /\ r.more
    THEN [bytes |-> r.bytes \o GetBlock(r.client, len - Len(r.bytes)).bytes,
          more |-> GetBlock(r.client, len - Len(r.bytes)).bytes # <<>>,
          raised |-> GetBlock(r.client, len - Len(r.bytes)).failed,
          client |-> GetBlock(r.client, len - Len(r.bytes)).client]
    ELSE r
LEMMA ReadLoopFacts ==
  ASSUME RequestTypeOK, NEW c \in Clients, NEW len \in Int
  PROVE  /\ ReadFrom(c, ReadLoop(c, len))
         /\ ReadLoop(c, len).raised \in BOOLEAN
         /\ ReadLoop(c, len).raised => Stuck(ReadLoop(c, len).client)
<1> DEFINE S == {r \in [bytes : Text, more : BOOLEAN, raised : BOOLEAN, client : Clients] :
                    ReadFrom(c, r) /\ (r.raised => Stuck(r.client))}
           N == Blocks
           start == [bytes |-> <<>>, more |-> TRUE, raised |-> FALSE, client |-> c]
           step == [s \in S |-> ReadStep(len, s)]
           Def(f) == f = [k \in 0..N |-> IF k = 0 THEN start ELSE ReadStep(len, f[k - 1])]
           it == CHOOSE f : Def(f)
<1>1. ASSUME NEW s \in S PROVE ReadStep(len, s) \in S
  <2>1. /\ s.bytes \in Text /\ s.client \in Clients /\ ReadFrom(c, s)
        /\ s \in [bytes : Text, more : BOOLEAN, raised : BOOLEAN, client : Clients]
    OBVIOUS
  <2>2. CASE Len(s.bytes) < len /\ s.more
    <3> DEFINE size == len - Len(s.bytes)
               b == GetBlock(s.client, size)
               q == [bytes |-> s.bytes \o b.bytes, more |-> b.bytes # <<>>,
                     raised |-> b.failed, client |-> b.client]
    <3>1. size \in Nat \ {0}
      <4>1. Len(s.bytes) \in Nat
        BY <2>1 DEF Text
      <4>2. QED
        BY <2>2, <4>1
    <3>2. ReadStep(len, s) = q
      BY <2>2, Zenon DEF ReadStep
    <3> HIDE DEF size
    <3>3. BlockOf(s.client, size, b)
      BY <2>1, <3>1, GetBlockFacts
    <3>4. q.bytes = s.bytes \o b.bytes /\ q.client = b.client /\ q.raised = b.failed
      OBVIOUS
    <3>5. ReadFrom(c, q)
      <4> HIDE DEF q
      <4>1. QED
        BY <2>1, <3>1, <3>4, ReadMore
    <3>6. q.raised => Stuck(q.client)
      BY <3>3, <3>4 DEF BlockOf
    <3>7. q \in [bytes : Text, more : BOOLEAN, raised : BOOLEAN, client : Clients]
      <4>1. q.bytes \in Text
        BY <3>5 DEF ReadFrom
      <4>2. b.failed \in BOOLEAN /\ b.client \in Clients
        BY <3>3 DEF BlockOf
      <4>3. s.bytes \o b.bytes \in Text
        BY <3>4, <4>1
      <4> HIDE DEF b
      <4>4. QED
        BY <4>2, <4>3
    <3> HIDE DEF q
    <3>8. QED
      BY <3>2, <3>5, <3>6, <3>7
  <2>3. CASE ~ (Len(s.bytes) < len /\ s.more)
    <3>1. ReadStep(len, s) = s
      BY <2>3, Zenon DEF ReadStep
    <3>2. QED
      BY <3>1
  <2>4. QED
    BY <2>2, <2>3
<1>2. start \in S /\ N \in Nat
  <2>1. start.bytes = <<>> /\ start.client = c /\ start.raised = FALSE
    OBVIOUS
  <2>2. start \in [bytes : Text, more : BOOLEAN, raised : BOOLEAN, client : Clients]
    BY DEF Text
  <2>3. Blocks \in Nat
    BY BodyType DEF Blocks
  <2> HIDE DEF start
  <2>4. ReadFrom(c, start)
    BY <2>1, ReadNothing
  <2>5. QED
    BY <2>1, <2>2, <2>3, <2>4
<1>3. ReadLoop(c, len) = it[N]
  BY Zenon DEF ReadLoop, While, ReadStep
<1>4. step \in [S -> S]
  <2> HIDE DEF S, start, N
  <2>1. QED
    BY <1>1
<1>5. PICK t \in [0..N -> S] : LoopOf(step, start, N, t)
  <2> HIDE DEF step, S, start, N
  <2>1. QED
    BY <1>2, <1>4, LoopExists
<1> HIDE DEF S, start, N
<1>6. Def(t)
  <2>1. ASSUME NEW k \in 0..N, k # 0
        PROVE  step[t[k - 1]] = ReadStep(len, t[k - 1])
    <3>1. k - 1 \in 0..N
      BY <1>2, <2>1
    <3>2. t[k - 1] \in S
      BY <3>1
    <3>3. QED
      BY <3>2
  <2> HIDE DEF step
  <2>2. QED
    BY <1>5, <2>1 DEF LoopOf
<1> HIDE DEF step
<1>7. Def(it)
  <2> HIDE DEF Def
  <2>1. QED
    BY <1>6, Zenon
<1> HIDE DEF it
<1>8. it[0] = start
  BY <1>2, <1>7
<1>9. ASSUME NEW n \in 0..N - 1 PROVE it[n + 1] = ReadStep(len, it[n])
  <2>1. n + 1 \in 0..N /\ n + 1 # 0 /\ (n + 1) - 1 = n
    BY <1>2
  <2>2. QED
    BY <1>7, <2>1
<1> HIDE DEF Def
<1>10. \A n \in 0..N : it[n] \in S
  <2> DEFINE G == {n \in 0..N : it[n] \in S}
  <2>1. 0 \in G
    BY <1>2, <1>8
  <2>2. ASSUME NEW n \in 0..N - 1, n \in G PROVE n + 1 \in G
    <3>1. n + 1 \in 0..N /\ it[n] \in S
      BY <1>2, <2>2
    <3>2. it[n + 1] \in S
      BY <1>1, <1>9, <3>1
    <3>3. QED
      BY <3>1, <3>2
  <2> HIDE DEF G
  <2>3. \A n \in 0..N : n \in G
    BY <1>2, <2>1, <2>2, Upward
  <2>4. QED
    BY <2>3 DEF G
<1>11. it[N] \in S
  BY <1>2, <1>10
<1>12. QED
  BY <1>3, <1>11 DEF S

\* util_read: at its end no more comes.
UtilStep(r) ==
  IF r.last.bytes # <<>>
    THEN [bytes |-> r.bytes \o r.last.bytes, last |-> GetBlock(r.last.client, HUGE_STRING_LEN)]
    ELSE r
\* The block last read is what c has next, and stands after c.
Block(c) == GetBlock(c, HUGE_STRING_LEN)
Spent(c) == c.at \in {request.fails, Len(request.body)}
UtilGood(c, r) ==
  /\ r.bytes \in Text /\ Onward(c, r.last.client) /\ r.last.bytes \in Text
  /\ r.last.bytes = <<>> => Spent(r.last.client)
  /\ r.bytes \o r.last.bytes = SubSeq(request.body, c.at + 1, r.last.client.at)
LEMMA UtilBlock ==
  ASSUME RequestTypeOK, NEW c \in Clients, SetUp(c)
  PROVE  LET b == GetBlock(c, HUGE_STRING_LEN)
         IN  /\ Onward(c, b.client) /\ b.bytes \in Text
             /\ b.bytes = <<>> => Spent(b.client)
             /\ b.bytes # <<>> => b.client.at > c.at
             /\ b.bytes = SubSeq(request.body, c.at + 1, b.client.at)
<1> DEFINE b == GetBlock(c, HUGE_STRING_LEN)
<1>1. HUGE_STRING_LEN \in Nat \ {0}
  BY InputAssumption
<1>2. BlockOf(c, HUGE_STRING_LEN, b) /\ Onward(c, b.client)
  BY <1>1, GetBlockFacts, BlockOnward
<1> HIDE DEF b
<1>3. /\ b.client.at \in 0..Len(request.body) /\ b.client.remaining \in Int
      /\ c.at \in 0..Len(request.body) /\ b.failed \in BOOLEAN
  BY <1>2 DEF BlockOf, Clients
<1>4. ASSUME b.bytes = <<>> PROVE Spent(b.client)
  <2>1. CASE b.failed
    BY <1>2, <2>1 DEF BlockOf, Stuck, Ended1, Spent
  <2>2. CASE ~ b.failed
    <3>1. b.client.remaining <= 0 /\ SetUp(b.client)
      BY <1>2, <1>4, <2>2 DEF BlockOf
    <3>2. b.client.at = Len(request.body)
      BY <1>3, <3>1, BodyType DEF SetUp
    <3>3. QED
      BY <3>2 DEF Spent
  <2>3. QED
    BY <2>1, <2>2
<1>5. ASSUME b.bytes # <<>> PROVE b.client.at > c.at
  <2>1. Len(b.bytes) = b.client.at - c.at /\ b.bytes \in Seq(Bytes)
    BY <1>2 DEF BlockOf, Text
  <2>2. Len(b.bytes) # 0
    BY <1>5, <2>1
  <2>3. QED
    BY <1>3, <2>1, <2>2
<1>6. b.bytes \in Text /\ b.bytes = SubSeq(request.body, c.at + 1, b.client.at)
  BY <1>2 DEF BlockOf
<1>7. QED
  BY <1>2, <1>4, <1>5, <1>6, Zenon DEF b

LEMMA GetBlockRecord ==
  ASSUME NEW c, NEW size, NEW b, b = GetBlock(c, size), b.bytes \in Text,
         b.failed \in BOOLEAN, b.client \in Clients
  PROVE  b \in [bytes : Text, failed : BOOLEAN, client : Clients]
<1> DEFINE None == [bytes |-> <<>>, failed |-> FALSE, client |-> c]
<1>1. b = [bytes |-> b.bytes, failed |-> b.failed, client |-> b.client]
  BY DEF GetBlock
<1>2. QED
  BY <1>1

UtilStates == [bytes : Text, last : [bytes : Text, failed : BOOLEAN, client : Clients]]
LEMMA UtilStays ==
  ASSUME RequestTypeOK, NEW c \in Clients, SetUp(c), NEW s, UtilGood(c, s)
  PROVE  /\ UtilGood(c, UtilStep(s))
         /\ s.last.bytes = <<>> => UtilStep(s) = s
         /\ s.last.bytes # <<>> => \/ UtilStep(s).last.bytes = <<>>
                                   \/ UtilStep(s).last.client.at > s.last.client.at
<1> DEFINE d == s.last.client
           b == GetBlock(d, HUGE_STRING_LEN)
           q == [bytes |-> s.bytes \o s.last.bytes, last |-> b]
<1>1. d \in Clients /\ SetUp(d) /\ Onward(c, d)
  BY DEF UtilGood, Onward
<1>2. /\ s.bytes \in Text /\ s.last.bytes \in Text
      /\ s.bytes \o s.last.bytes = SubSeq(request.body, c.at + 1, d.at)
  BY DEF UtilGood
<1> HIDE DEF d
<1>3. /\ Onward(d, b.client) /\ b.bytes \in Text
      /\ b.bytes = <<>> => Spent(b.client)
      /\ b.bytes # <<>> => b.client.at > d.at
      /\ b.bytes = SubSeq(request.body, d.at + 1, b.client.at)
  BY <1>1, UtilBlock
<1>4. CASE s.last.bytes # <<>>
  <2>1. UtilStep(s) = q
    BY <1>4, Zenon DEF UtilStep, d
  <2>2. q.bytes = s.bytes \o s.last.bytes /\ q.last = b
    OBVIOUS
  <2> HIDE DEF b, q
  <2>3. q.bytes \in Text
    BY <1>2, <2>2, ConcatFacts DEF Text
  <2>4. Onward(c, b.client)
    BY <1>1, <1>3, OnwardOn
  <2>8. q.bytes \o q.last.bytes = SubSeq(request.body, c.at + 1, q.last.client.at)
    <3> DEFINE body == request.body
               k == c.at
               m == d.at
               e == b.client.at
    <3>1. body \in Seq(Bytes) /\ Len(body) \in Nat
      BY BodyType
    <3>2. k \in 0..Len(body) /\ m \in 0..Len(body) /\ e \in 0..Len(body) /\ k <= m /\ m <= e
      BY <1>1, <1>3 DEF Onward, Clients
    <3>3. q.bytes = SubSeq(body, k + 1, m) /\ q.last.bytes = SubSeq(body, m + 1, e)
      BY <1>2, <1>3, <2>2
    <3>4. q.last.client.at = e
      BY <2>2
    <3> HIDE DEF body, k, m, e
    <3>5. k \in Nat /\ m \in k..Len(body) /\ e \in m..Len(body)
      BY <3>1, <3>2
    <3>6. SubSeq(body, k + 1, m) \o SubSeq(body, m + 1, e) = SubSeq(body, k + 1, e)
      BY <3>1, <3>5, PiecesJoin
    <3>7. QED
      BY <3>3, <3>4, <3>6 DEF body, k
  <2>5. UtilGood(c, q)
    BY <1>3, <2>2, <2>3, <2>4, <2>8 DEF UtilGood
  <2>6. q.last.bytes = <<>> \/ q.last.client.at > d.at
    BY <1>3, <2>2
  <2>7. QED
    BY <1>4, <2>1, <2>5, <2>6 DEF d
<1>5. CASE s.last.bytes = <<>>
  <2>1. UtilStep(s) = s
    BY <1>5, Zenon DEF UtilStep
  <2>2. QED
    BY <1>5, <2>1
<1>6. QED
  BY <1>4, <1>5

LEMMA UtilReadFacts ==
  ASSUME RequestTypeOK, NEW c \in Clients, SetUp(c)
  PROVE  /\ Onward(c, UtilRead(c).client) /\ UtilRead(c).bytes \in Text
         /\ Spent(UtilRead(c).client)
         /\ UtilRead(c).bytes = SubSeq(request.body, c.at + 1, UtilRead(c).client.at)
<1> DEFINE S == {r \in UtilStates : UtilGood(c, r)}
           N == Blocks
           start == [bytes |-> <<>>, last |-> GetBlock(c, HUGE_STRING_LEN)]
           step == [s \in S |-> UtilStep(s)]
           Def(f) == f = [k \in 0..N |-> IF k = 0 THEN start ELSE UtilStep(f[k - 1])]
           it == CHOOSE f : Def(f)
<1>1. ASSUME NEW s \in S PROVE UtilStep(s) \in S
  <2>1. UtilGood(c, s) /\ s \in UtilStates
    OBVIOUS
  <2>2. UtilGood(c, UtilStep(s))
    BY <2>1, UtilStays
  <2>3. UtilStep(s) \in UtilStates
    <3> DEFINE b == GetBlock(s.last.client, HUGE_STRING_LEN)
               d == s.last.client
    <3>1. d \in Clients
      BY <2>1 DEF UtilStates
    <3>2. BlockOf(d, HUGE_STRING_LEN, b)
      <4> HIDE DEF d
      <4>1. BlockOf(d, HUGE_STRING_LEN, GetBlock(d, HUGE_STRING_LEN))
        BY <3>1, InputAssumption, GetBlockFacts
      <4>2. QED
        BY <4>1 DEF d
    <3>3. b \in [bytes : Text, failed : BOOLEAN, client : Clients]
      BY <3>2, GetBlockRecord DEF BlockOf
    <3>4. UtilStep(s) = IF s.last.bytes # <<>> THEN [bytes |-> s.bytes \o s.last.bytes, last |-> b] ELSE s
      BY Zenon DEF UtilStep
    <3>5. s.bytes \o s.last.bytes \in Text
      BY <2>1, ConcatFacts DEF UtilStates, Text
    <3> HIDE DEF b
    <3>6. [bytes |-> s.bytes \o s.last.bytes, last |-> b] \in UtilStates
      BY <3>3, <3>5 DEF UtilStates
    <3>7. QED
      BY <2>1, <3>4, <3>6
  <2> HIDE DEF S
  <2>4. QED
    BY <2>2, <2>3 DEF S
<1>2. start \in S /\ N \in Nat
  <2> DEFINE b == GetBlock(c, HUGE_STRING_LEN)
  <2>1. BlockOf(c, HUGE_STRING_LEN, b)
    BY InputAssumption, GetBlockFacts
  <2>2. b \in [bytes : Text, failed : BOOLEAN, client : Clients]
    BY <2>1, GetBlockRecord DEF BlockOf
  <2>3. /\ Onward(c, b.client) /\ b.bytes \in Text /\ (b.bytes = <<>> => Spent(b.client))
        /\ b.bytes = SubSeq(request.body, c.at + 1, b.client.at)
    BY UtilBlock
  <2>4. start = [bytes |-> <<>>, last |-> b]
    OBVIOUS
  <2> HIDE DEF b, start
  <2>5. start.bytes = <<>> /\ start.last = b /\ start \in UtilStates
    BY <2>2, <2>4 DEF UtilStates, Text
  <2>9. start.bytes \o start.last.bytes = SubSeq(request.body, c.at + 1, start.last.client.at)
    <3> DEFINE bytes == b.bytes
    <3>1. <<>> \o bytes = bytes
      <4>1. bytes \in Seq(Bytes)
        BY <2>3 DEF Text
      <4> HIDE DEF bytes
      <4>2. QED
        BY <4>1
    <3>2. start.bytes \o start.last.bytes = <<>> \o bytes
      BY <2>5, Zenon
    <3>3. start.last.client = b.client /\ bytes = SubSeq(request.body, c.at + 1, b.client.at)
      BY <2>3, <2>5, Zenon
    <3> HIDE DEF bytes
    <3>4. QED
      BY <3>1, <3>2, <3>3, Zenon
  <2>6. UtilGood(c, start)
    <3>1. <<>> \in Text
      BY DEF Text
    <3>2. QED
      BY <2>3, <2>5, <2>9, <3>1, Zenon DEF UtilGood
  <2>7. N \in Nat
    BY BodyType DEF Blocks
  <2>8. QED
    BY <2>5, <2>6, <2>7
<1>3. UtilRead(c) = [bytes |-> it[N].bytes, client |-> it[N].last.client]
  BY Zenon DEF UtilRead, While, UtilStep
<1>4. step \in [S -> S]
  <2> HIDE DEF S, start, N
  <2>1. QED
    BY <1>1
<1>5. PICK t \in [0..N -> S] : LoopOf(step, start, N, t)
  <2> HIDE DEF step, S, start, N
  <2>1. QED
    BY <1>2, <1>4, LoopExists
<1> HIDE DEF S, start, N
<1>6. Def(t)
  <2>1. ASSUME NEW k \in 0..N, k # 0
        PROVE  step[t[k - 1]] = UtilStep(t[k - 1])
    <3>1. k - 1 \in 0..N
      BY <1>2, <2>1
    <3>2. t[k - 1] \in S
      BY <3>1
    <3>3. QED
      BY <3>2
  <2> HIDE DEF step
  <2>2. QED
    BY <1>5, <2>1 DEF LoopOf
<1> HIDE DEF step
<1>7. Def(it)
  <2> HIDE DEF Def
  <2>1. QED
    BY <1>6, Zenon
<1> HIDE DEF it
<1>8. it[0] = start
  BY <1>2, <1>7
<1>9. ASSUME NEW n \in 0..N - 1 PROVE it[n + 1] = UtilStep(it[n])
  <2>1. n + 1 \in 0..N /\ n + 1 # 0 /\ (n + 1) - 1 = n
    BY <1>2
  <2>2. QED
    BY <1>7, <2>1
<1> HIDE DEF Def
<1>10. \A n \in 0..N : it[n] \in S
  <2> DEFINE G == {n \in 0..N : it[n] \in S}
  <2>1. 0 \in G
    BY <1>2, <1>8
  <2>2. ASSUME NEW n \in 0..N - 1, n \in G PROVE n + 1 \in G
    <3>1. n + 1 \in 0..N /\ it[n] \in S
      BY <1>2, <2>2
    <3>2. it[n + 1] \in S
      BY <1>1, <1>9, <3>1
    <3>3. QED
      BY <3>1, <3>2
  <2> HIDE DEF G
  <2>3. \A n \in 0..N : n \in G
    BY <1>2, <2>1, <2>2, Upward
  <2>4. QED
    BY <2>3 DEF G
<1>11. it[N] \in S
  BY <1>2, <1>10
\* Every block but the last takes the connection on.
<1> DEFINE G == {n \in 0..N : it[n].last.bytes = <<>> \/ it[n].last.client.at >= n}
<1>12. 0 \in G
  <2>1. it[0] \in S /\ 0 \in 0..N
    BY <1>2, <1>10
  <2>2. it[0].last.client.at >= 0
    BY <2>1 DEF S, UtilStates, Clients
  <2>3. QED
    BY <2>1, <2>2
<1>13. ASSUME NEW n \in 0..N - 1, n \in G
       PROVE  n + 1 \in G
  <2> DEFINE a == it[n]
             z == it[n + 1]
  <2>1. n \in 0..N /\ n + 1 \in 0..N
    BY <1>2
  <2>2. a \in S /\ z \in S /\ z = UtilStep(a)
    BY <1>9, <1>10, <2>1
  <2>3. a.last.bytes = <<>> \/ a.last.client.at >= n
    BY <1>13
  <2> HIDE DEF a, z
  <2>4. UtilGood(c, a) /\ a.last.client.at \in Int /\ z.last.client.at \in Int
    BY <2>2 DEF S, UtilStates, Clients
  <2>5. /\ a.last.bytes = <<>> => z = a
        /\ a.last.bytes # <<>> => \/ z.last.bytes = <<>>
                                  \/ z.last.client.at > a.last.client.at
    BY <2>2, <2>4, UtilStays
  <2>6. z.last.bytes = <<>> \/ z.last.client.at >= n + 1
    BY <2>3, <2>4, <2>5
  <2>7. QED
    BY <2>1, <2>6 DEF z
<1>14. N \in G
  <2> HIDE DEF G
  <2>1. \A n \in 0..N : n \in G
    BY <1>2, <1>12, <1>13, Upward
  <2>2. QED
    BY <1>2, <2>1
<1> DEFINE z == it[N]
<1>15. UtilGood(c, z) /\ z \in UtilStates
  BY <1>11 DEF S
<1>16. z.last.bytes = <<>> \/ z.last.client.at >= N
  BY <1>14
<1>17. UtilRead(c).bytes = z.bytes /\ UtilRead(c).client = z.last.client
  BY <1>3
<1> HIDE DEF z
<1>18. z.last.bytes = <<>>
  <2>1. z.last.client.at \in 0..Len(request.body)
    BY <1>15 DEF UtilStates, Clients
  <2>2. N = Len(request.body) + 1 /\ Len(request.body) \in Nat
    BY BodyType DEF N, Blocks
  <2>3. QED
    BY <1>16, <2>1, <2>2
<1>19. z.bytes = SubSeq(request.body, c.at + 1, z.last.client.at)
  <2>1. z.bytes \o <<>> = z.bytes
    BY <1>15 DEF UtilGood, Text
  <2>2. QED
    BY <1>15, <1>18, <2>1 DEF UtilGood
<1>20. QED
  BY <1>15, <1>17, <1>18, <1>19 DEF UtilGood

\* What is left is dropped.
DropStep(b) == IF b.bytes # <<>> THEN GetBlock(b.client, FILLUNIT) ELSE b
LEMMA DropFacts ==
  ASSUME RequestTypeOK, NEW c \in Clients
  PROVE  Onward(c, Drop(c))
<1> DEFINE S == {r \in [bytes : Text, failed : BOOLEAN, client : Clients] : Onward(c, r.client)}
           N == Blocks
           start == GetBlock(c, FILLUNIT)
           step == [s \in S |-> DropStep(s)]
           Def(f) == f = [k \in 0..N |-> IF k = 0 THEN start ELSE DropStep(f[k - 1])]
           it == CHOOSE f : Def(f)
<1>1. ASSUME NEW s \in S PROVE DropStep(s) \in S
  <2> DEFINE d == s.client
             b == GetBlock(d, FILLUNIT)
  <2>1. d \in Clients /\ Onward(c, d) /\ FILLUNIT \in Nat \ {0}
    BY BufferAssumption
  <2> HIDE DEF d
  <2>2. BlockOf(d, FILLUNIT, b) /\ Onward(d, b.client)
    BY <2>1, GetBlockFacts, BlockOnward
  <2>3. b \in [bytes : Text, failed : BOOLEAN, client : Clients]
    BY <2>2, GetBlockRecord DEF BlockOf
  <2>4. DropStep(s) = IF s.bytes # <<>> THEN b ELSE s
    BY Zenon DEF DropStep, d
  <2> HIDE DEF b
  <2>5. Onward(c, b.client)
    BY <2>1, <2>2, OnwardOn
  <2>6. QED
    BY <2>3, <2>4, <2>5
<1>2. start \in S /\ N \in Nat
  <2> DEFINE b == GetBlock(c, FILLUNIT)
  <2>1. FILLUNIT \in Nat \ {0}
    BY BufferAssumption
  <2>2. BlockOf(c, FILLUNIT, b) /\ Onward(c, b.client)
    BY <2>1, GetBlockFacts, BlockOnward
  <2>3. b \in [bytes : Text, failed : BOOLEAN, client : Clients]
    BY <2>2, GetBlockRecord DEF BlockOf
  <2>4. N \in Nat /\ start = b
    BY BodyType DEF Blocks
  <2> HIDE DEF b, start, N
  <2>5. QED
    BY <2>2, <2>3, <2>4
<1>3. Drop(c) = it[N].client
  BY Zenon DEF Drop, While, DropStep
<1>4. step \in [S -> S]
  <2> HIDE DEF S, start, N
  <2>1. QED
    BY <1>1
<1>5. PICK t \in [0..N -> S] : LoopOf(step, start, N, t)
  <2> HIDE DEF step, S, start, N
  <2>1. QED
    BY <1>2, <1>4, LoopExists
<1> HIDE DEF S, start, N
<1>6. Def(t)
  <2>1. ASSUME NEW k \in 0..N, k # 0
        PROVE  step[t[k - 1]] = DropStep(t[k - 1])
    <3>1. k - 1 \in 0..N
      BY <1>2, <2>1
    <3>2. t[k - 1] \in S
      BY <3>1
    <3>3. QED
      BY <3>2
  <2> HIDE DEF step
  <2>2. QED
    BY <1>5, <2>1 DEF LoopOf
<1> HIDE DEF step
<1>7. Def(it)
  <2> HIDE DEF Def
  <2>1. QED
    BY <1>6, Zenon
<1> HIDE DEF it
<1>8. it[0] = start
  BY <1>2, <1>7
<1>9. ASSUME NEW n \in 0..N - 1 PROVE it[n + 1] = DropStep(it[n])
  <2>1. n + 1 \in 0..N /\ n + 1 # 0 /\ (n + 1) - 1 = n
    BY <1>2
  <2>2. QED
    BY <1>7, <2>1
<1> HIDE DEF Def
<1>10. \A n \in 0..N : it[n] \in S
  <2> DEFINE G == {n \in 0..N : it[n] \in S}
  <2>1. 0 \in G
    BY <1>2, <1>8
  <2>2. ASSUME NEW n \in 0..N - 1, n \in G PROVE n + 1 \in G
    <3>1. n + 1 \in 0..N /\ it[n] \in S
      BY <1>2, <2>2
    <3>2. it[n + 1] \in S
      BY <1>1, <1>9, <3>1
    <3>3. QED
      BY <3>1, <3>2
  <2> HIDE DEF G
  <2>3. \A n \in 0..N : n \in G
    BY <1>2, <2>1, <2>2, Upward
  <2>4. QED
    BY <2>3 DEF G
<1>11. it[N] \in S
  BY <1>2, <1>10
<1>12. QED
  BY <1>3, <1>11 DEF S

-----------------------------------------------------------------------------
(* The multipart buffer.                                                   *)

LEMMA BufSizeType == BufSize \in Nat \ {0}
<1> DEFINE m == Len(Boundary) + 6
           T == {m, FILLUNIT}
           N == m + FILLUNIT
<1>1. m \in Nat \ {0} /\ FILLUNIT \in Nat \ {0}
  BY BufferAssumption DEF Text
<1> HIDE DEF m
<1>2. T \in SUBSET (0..N) /\ T # {} /\ N \in Nat
  BY <1>1
<1>3. Max(T) \in T
  <2> HIDE DEF T, N
  <2>1. QED
    BY <1>2, MaxNumber
<1>4. BufSize = Max(T)
  BY Zenon DEF BufSize, m
<1>5. QED
  BY <1>1, <1>3, <1>4

\* Where the data of a buffer may be.
InBounds(begin, n) == n = 0 \/ (n > 0 /\ begin >= 1 /\ begin + n - 1 <= BufSize)
\* f is the buffer b, or what its operations have made of it.
GoodBuffer(f) == f \in Buffers /\ InBounds(f.begin, f.n)
BufferOn(b, f) == GoodBuffer(f) /\ Onward(b.client, f.client)

LEMMA BufferFields ==
  ASSUME NEW b \in Buffers
  PROVE  /\ b.mem \in [1..BufSize + 1 -> Bytes] /\ b.begin \in Nat /\ b.n \in Nat
         /\ b.client \in Clients
BY DEF Buffers

LEMMA BufferOnStays ==
  ASSUME NEW b, GoodBuffer(b)
  PROVE  BufferOn(b, b)
BY OnwardStays, BufferFields DEF BufferOn, GoodBuffer

LEMMA BufferOnOn ==
  ASSUME NEW b \in Buffers, NEW f, NEW g, BufferOn(b, f), BufferOn(f, g)
  PROVE  BufferOn(b, g)
<1>1. b.client \in Clients
  BY BufferFields
<1>2. Onward(b.client, g.client)
  BY <1>1, OnwardOn DEF BufferOn
<1>3. QED
  BY <1>2 DEF BufferOn

LEMMA NewBufferGood ==
  ASSUME NEW c \in Clients
  PROVE  /\ GoodBuffer(NewBuffer(c)) /\ NewBuffer(c).client = c
<1> DEFINE mem == [i \in 1..BufSize + 1 |-> NUL]
<1>1. mem \in [1..BufSize + 1 -> Bytes]
  BY TextAssumption
<1> HIDE DEF mem
<1>2. NewBuffer(c) = [mem |-> mem, begin |-> 1, n |-> 0, client |-> c]
  BY Zenon DEF NewBuffer, mem
<1>3. NewBuffer(c) \in Buffers /\ NewBuffer(c).n = 0 /\ NewBuffer(c).client = c
  BY <1>1, <1>2 DEF Buffers
<1>4. QED
  BY <1>3 DEF GoodBuffer, InBounds

\* Operations change a buffer to this.
Changed(b, mem, begin, n, client) ==
  [b EXCEPT !.mem = mem, !.begin = begin, !.n = n, !.client = client]
LEMMA ChangedFields ==
  ASSUME NEW b \in Buffers, NEW mem \in [1..BufSize + 1 -> Bytes], NEW begin \in Nat,
         NEW n \in Nat, NEW client \in Clients, NEW f, f = Changed(b, mem, begin, n, client)
  PROVE  /\ f \in Buffers /\ f.mem = mem /\ f.begin = begin /\ f.n = n
         /\ f.client = client
BY DEF Changed, Buffers

LEMMA BufferedType ==
  ASSUME NEW b \in Buffers
  PROVE  Buffered(b) \in Text /\ Len(Buffered(b)) = b.n
<1>1. ASSUME NEW i PROVE ByteAt(b, i) \in Bytes
  <2>1. b.mem \in [1..BufSize + 1 -> Bytes] /\ NUL \in Bytes
    BY TextAssumption, BufferFields
  <2>2. QED
    BY <2>1 DEF ByteAt
<1>2. b.n \in Nat
  BY BufferFields
<1> DEFINE u == [i \in 1..b.n |-> ByteAt(b, b.begin + i - 1)]
<1>3. \A i \in 1..b.n : u[i] \in Bytes
  BY <1>1
<1>4. u = [i \in 1..b.n |-> u[i]]
  OBVIOUS
<1>5. Buffered(b) = u
  BY Zenon DEF Buffered
<1> HIDE DEF u
<1>6. u \in Seq(Bytes) /\ Len(u) = b.n
  BY <1>2, <1>3, <1>4
<1>7. QED
  BY <1>5, <1>6 DEF Text

LEMMA PutAtType ==
  ASSUME NEW mem \in [1..BufSize + 1 -> Bytes], NEW i \in Nat, NEW bytes \in Text
  PROVE  PutAt(mem, i, bytes) \in [1..BufSize + 1 -> Bytes]
<1> DEFINE u == [k \in DOMAIN mem |-> IF k \in i..i + Len(bytes) - 1 THEN bytes[k - i + 1] ELSE mem[k]]
<1>1. ASSUME NEW k \in 1..BufSize + 1 PROVE u[k] \in Bytes
  <2>1. k \in DOMAIN mem /\ k \in Int /\ mem[k] \in Bytes
    BY BufSizeType
  <2>2. CASE k \in i..i + Len(bytes) - 1
    <3>1. bytes \in Seq(Bytes)
      BY DEF Text
    <3>2. k - i + 1 \in 1..Len(bytes)
      BY <2>1, <2>2, <3>1
    <3>3. bytes[k - i + 1] \in Bytes
      BY <3>1, <3>2
    <3>4. QED
      BY <2>1, <2>2, <3>3
  <2>3. CASE k \notin i..i + Len(bytes) - 1
    BY <2>1, <2>3
  <2>4. QED
    BY <2>2, <2>3
<1>2. DOMAIN u = 1..BufSize + 1 /\ u = [k \in 1..BufSize + 1 |-> u[k]]
  OBVIOUS
<1>3. PutAt(mem, i, bytes) = u
  BY Zenon DEF PutAt
<1> HIDE DEF u
<1>4. QED
  BY <1>1, <1>2, <1>3

\* fill_buffer asks for no more than there is room for.
LEMMA AskForFacts ==
  ASSUME NEW b, GoodBuffer(b)
  PROVE  AskFor(b) \in Int /\ (AskFor(b) > 0 => AskFor(b) <= BufSize - b.n)
<1>1. b.n \in Nat /\ b.begin \in Nat /\ b.client.remaining \in Int
  BY BufferFields DEF GoodBuffer, Clients
<1>2. BufSize \in Nat
  BY BufSizeType
<1>3. Len(Delimiter) \in Nat
  BY BufferAssumption DEF Delimiter, Text
<1>4. QED
  BY <1>1, <1>2, <1>3 DEF AskFor

LEMMA FillBufferOn ==
  ASSUME RequestTypeOK, NEW b, GoodBuffer(b)
  PROVE  BufferOn(b, FillBuffer(b))
<1> DEFINE mem == IF b.n > 0 THEN PutAt(b.mem, 1, Buffered(b)) ELSE b.mem
           asked == AskFor(b)
           block == GetBlock(b.client, asked)
           f == FillBuffer(b)
           put == PutAt(mem, b.n + 1, block.bytes)
<1>1. /\ b \in Buffers /\ b.mem \in [1..BufSize + 1 -> Bytes] /\ b.begin \in Nat
      /\ b.n \in Nat /\ b.client \in Clients /\ InBounds(b.begin, b.n)
  BY BufferFields DEF GoodBuffer
<1>2. mem \in [1..BufSize + 1 -> Bytes]
  <2>1. PutAt(b.mem, 1, Buffered(b)) \in [1..BufSize + 1 -> Bytes]
    BY <1>1, BufferedType, PutAtType
  <2>2. QED
    BY <1>1, <2>1
<1>3. asked \in Int /\ (asked > 0 => asked <= BufSize - b.n) /\ BufSize \in Nat
  BY AskForFacts, BufSizeType
<1>4. b.n <= BufSize
  BY <1>1, <1>3 DEF InBounds
<1>5. CASE asked <= 0
  <2>1. f = [b EXCEPT !.begin = 1, !.mem = IF b.n > 0 THEN PutAt(b.mem, 1, Buffered(b)) ELSE @]
    BY <1>5, Zenon DEF FillBuffer
  <2> HIDE DEF f
  <2>2. f = Changed(b, mem, 1, b.n, b.client)
    <3> HIDE DEF mem
    <3>1. f = [b EXCEPT !.begin = 1, !.mem = mem]
      BY <2>1 DEF mem
    <3>2. QED
      BY <1>1, <3>1 DEF Changed, Buffers
  <2> HIDE DEF mem
  <2>3. f \in Buffers /\ f.begin = 1 /\ f.n = b.n /\ f.client = b.client
    BY <1>1, <1>2, <2>2, ChangedFields
  <2>4. InBounds(f.begin, f.n)
    BY <1>1, <1>3, <1>4, <2>3 DEF InBounds
  <2>5. BufferOn(b, f)
    BY <1>1, <2>3, <2>4, OnwardStays DEF BufferOn, GoodBuffer
  <2>6. QED
    BY <2>5 DEF f
<1>6. CASE asked > 0
  <2>1. BlockOf(b.client, asked, block) /\ Onward(b.client, block.client)
    <3> DEFINE c == b.client
    <3>1. asked \in Nat \ {0} /\ c \in Clients
      BY <1>1, <1>3, <1>6
    <3> HIDE DEF asked, c
    <3>2. BlockOf(c, asked, GetBlock(c, asked)) /\ Onward(c, GetBlock(c, asked).client)
      BY <3>1, GetBlockFacts, BlockOnward
    <3>3. QED
      BY <3>2 DEF c
  <2> DEFINE more == b.n + Len(block.bytes)
             moved == [b EXCEPT !.begin = 1,
                                !.mem = IF b.n > 0 THEN PutAt(b.mem, 1, Buffered(b)) ELSE @]
  <2>2. f = [moved EXCEPT !.mem = PutAt(@, b.n + 1, block.bytes),
                          !.n = @ + Len(block.bytes),
                          !.client = block.client]
    <3>1. ~ (asked <= 0)
      BY <1>3, <1>6
    <3>2. QED
      BY <3>1, Zenon DEF FillBuffer
  <2> HIDE DEF asked, f
  <2>3. block.bytes \in Text /\ block.client \in Clients /\ Len(block.bytes) \in Nat
        /\ Len(block.bytes) <= asked
    <3>1. block.bytes \in Text /\ block.client \in Clients
          /\ Len(block.bytes) = block.client.at - b.client.at
          /\ block.client.at <= b.client.at + asked
      BY <2>1 DEF BlockOf
    <3>2. block.client.at \in Int /\ b.client.at \in Int
      BY <1>1, <3>1 DEF Clients
    <3>3. Len(block.bytes) \in Nat
      BY <3>1 DEF Text
    <3>4. QED
      BY <1>3, <3>1, <3>2, <3>3
  <2> HIDE DEF block
  <2>4. more \in Nat /\ more <= BufSize
    BY <1>1, <1>3, <1>6, <2>3
  <2>5. f = Changed(b, put, 1, more, block.client)
    <3>1. moved = [b EXCEPT !.begin = 1, !.mem = mem]
      OBVIOUS
    <3> HIDE DEF mem, moved
    <3>2. moved.mem = mem /\ moved.n = b.n
      BY <1>1, <3>1 DEF Buffers
    <3>3. f = [moved EXCEPT !.mem = put, !.n = more, !.client = block.client]
      BY <2>2, <3>2
    <3> HIDE DEF put, more
    <3>4. QED
      BY <1>1, <3>1, <3>3 DEF Changed, Buffers
  <2> HIDE DEF mem
  <2>6. put \in [1..BufSize + 1 -> Bytes]
    BY <1>1, <1>2, <2>3, PutAtType
  <2> HIDE DEF put, more
  <2>7. f \in Buffers /\ f.begin = 1 /\ f.n = more /\ f.client = block.client
    <3> DEFINE c == block.client
    <3>1. f = Changed(b, put, 1, more, c) /\ c \in Clients
      BY <2>3, <2>5
    <3> HIDE DEF c
    <3>2. f \in Buffers /\ f.begin = 1 /\ f.n = more /\ f.client = c
      <4>1. 1 \in Nat
        OBVIOUS
      <4>2. QED
        <5>1. b \in Buffers /\ c \in Clients /\ more \in Nat
          BY <1>1, <2>4, <3>1
        <5>2. f = Changed(b, put, 1, more, c)
          BY <3>1
        <5>3. QED
          BY <5>1, <5>2, <2>6, ChangedFields
    <3>3. QED
      BY <3>2 DEF c
  <2>8. InBounds(f.begin, f.n)
    BY <1>3, <2>4, <2>7 DEF InBounds
  <2>9. BufferOn(b, f)
    BY <2>1, <2>7, <2>8 DEF BufferOn, GoodBuffer
  <2>10. QED
    BY <2>9 DEF f
<1>7. QED
  BY <1>3, <1>5, <1>6

LEMMA AtLeastOneOn ==
  ASSUME RequestTypeOK, NEW b, GoodBuffer(b)
  PROVE  BufferOn(b, AtLeastOne(b))
BY FillBufferOn, BufferOnStays DEF AtLeastOne

\* A line and what it leaves in the buffer.
LineOf(b, l) == l.found \in BOOLEAN /\ l.line \in Text /\ BufferOn(b, l.buf)

LEMMA InRange ==
  ASSUME NEW n \in Nat, NEW I \in SUBSET (1..n), NEW i, i = 0 \/ i \in I
  PROVE  i \in 0..n
<1>1. CASE i = 0
  BY <1>1
<1>2. CASE i \in I
  <2>1. i \in 1..n
    BY <1>2
  <2>2. QED
    BY <2>1
<1>3. QED
  BY <1>1, <1>2

LEMMA NextLineOn ==
  ASSUME NEW b, GoodBuffer(b)
  PROVE  LineOf(b, NextLine(b))
<1> DEFINE data == Buffered(b)
           I == {i \in 1..Len(data) : data[i] = LF}
           lf == SelectInSeq(data, LAMBDA c : c = LF)
           last == IF lf > 1 /\ data[lf - 1] = CR THEN lf - 1 ELSE lf
<1>1. /\ b \in Buffers /\ b.mem \in [1..BufSize + 1 -> Bytes] /\ b.begin \in Nat
      /\ b.n \in Nat /\ b.client \in Clients /\ InBounds(b.begin, b.n)
  BY BufferFields DEF GoodBuffer
<1>2. data \in Text /\ Len(data) = b.n /\ data \in Seq(Bytes)
  BY <1>1, BufferedType DEF Text
<1> HIDE DEF data
<1>3. lf \in 0..b.n
  <2>1. lf = IF I # {} THEN Min(I) ELSE 0
    BY Zenon DEF SelectInSeq
  <2>2. I \in SUBSET Nat /\ I \in SUBSET (1..b.n)
    BY <1>1, <1>2
  <2> HIDE DEF I, lf
  <2>3. I # {} => Min(I) \in I
    BY <2>2, MinNumber
  <2>4. lf = 0 \/ lf \in I
    BY <2>1, <2>3
  <2>5. b.n \in Nat
    BY <1>1
  <2>6. QED
    BY <2>2, <2>4, <2>5, InRange, Zenon
<1>4. BufSize \in Nat
  BY BufSizeType
<1>5. CASE lf # 0
  <2> DEFINE mem == [b.mem EXCEPT ![b.begin + last - 1] = NUL]
             begin == b.begin + lf
             n == b.n - lf
             line == SubSeq(data, 1, last - 1)
             l == NextLine(b)
             string == CString(line)
  <2>1. last \in 1..b.n
    BY <1>1, <1>3, <1>5
  <2>2. l = [found |-> TRUE, line |-> string,
             buf |-> [b EXCEPT !.mem[b.begin + last - 1] = NUL, !.begin = @ + lf, !.n = @ - lf]]
    BY <1>5, Zenon DEF NextLine, BytesOfLine, data
  <2> HIDE DEF l, lf, last
  <2>3. mem \in [1..BufSize + 1 -> Bytes]
    BY <1>1, TextAssumption
  <2>4. begin \in Nat /\ n \in Nat
    BY <1>1, <1>3
  <2>5. l.buf = Changed(b, mem, begin, n, b.client)
    <3>1. l.buf = [b EXCEPT !.mem = mem, !.begin = begin, !.n = n]
      BY <2>2
    <3> HIDE DEF mem, begin, n
    <3>2. QED
      BY <1>1, <3>1 DEF Changed, Buffers
  <2>6. InBounds(begin, n)
    BY <1>1, <1>3, <1>4, <1>5 DEF InBounds
  <2> HIDE DEF mem, begin, n
  <2> DEFINE f == l.buf
             c == b.client
  <2> HIDE DEF f, c
  <2>7. f \in Buffers /\ f.begin = begin /\ f.n = n /\ f.client = b.client
    <3>1. f = Changed(b, mem, begin, n, c) /\ c \in Clients
      BY <1>1, <2>5 DEF f, c
    <3>2. f \in Buffers /\ f.begin = begin /\ f.n = n /\ f.client = c
      <4>1. b \in Buffers /\ c \in Clients
        BY <1>1, <3>1
      <4>2. f = Changed(b, mem, begin, n, c)
        BY <3>1
      <4>3. QED
        BY <4>1, <4>2, <2>3, <2>4, ChangedFields
    <3>3. QED
      BY <3>2 DEF c
  <2>8. BufferOn(b, l.buf)
    BY <1>1, <2>6, <2>7, OnwardStays DEF BufferOn, GoodBuffer, f
  <2>9. line \in Text
    <3>1. last - 1 \in 0..Len(data) /\ 1 \in Nat \ {0}
      BY <1>1, <1>2, <2>1
    <3> DEFINE m == last - 1
    <3> HIDE DEF m
    <3>2. SubSeq(data, 1, m) \in Seq(Bytes)
      BY <1>2, <3>1, SubSeqFacts DEF m
    <3>3. QED
      BY <3>2 DEF m, Text
  <2>10. l.found = TRUE /\ l.line = string
    BY <2>2
  <2> HIDE DEF line
  <2>11. LineOf(b, l)
    BY <2>8, <2>9, <2>10, CStringType DEF LineOf
  <2>12. QED
    BY <2>11 DEF l
<1>6. CASE lf = 0 /\ b.n < BufSize
  <2>1. NextLine(b) = NoLine(b)
    BY <1>6, Zenon DEF NextLine, data
  <2>2. NextLine(b).found = FALSE /\ NextLine(b).line = <<>> /\ NextLine(b).buf = b
    BY <2>1 DEF NoLine
  <2>3. BufferOn(b, b) /\ <<>> \in Text
    BY BufferOnStays DEF Text
  <2> DEFINE l == NextLine(b)
  <2>4. l.found = FALSE /\ l.line = <<>> /\ l.buf = b
    BY <2>2
  <2> HIDE DEF l
  <2>5. LineOf(b, l)
    BY <2>3, <2>4 DEF LineOf
  <2>6. QED
    BY <2>5 DEF l
<1>7. CASE lf = 0 /\ ~ (b.n < BufSize)
  <2> DEFINE mem == [b.mem EXCEPT ![BufSize + 1] = NUL]
             l == NextLine(b)
  <2>1. l = [found |-> TRUE, line |-> CString(data),
             buf |-> [b EXCEPT !.mem[BufSize + 1] = NUL, !.begin = NULL, !.n = 0]]
    BY <1>7, Zenon DEF NextLine, data
  <2> HIDE DEF l, lf
  <2>2. mem \in [1..BufSize + 1 -> Bytes]
    BY <1>1, TextAssumption
  <2>3. l.buf = Changed(b, mem, NULL, 0, b.client)
    <3>1. l.buf = [b EXCEPT !.mem = mem, !.begin = NULL, !.n = 0]
      BY <2>1
    <3> HIDE DEF mem
    <3>2. QED
      BY <1>1, <3>1 DEF Changed, Buffers
  <2> HIDE DEF mem
  <2>4. NULL \in Nat
    BY DEF NULL
  <2>5. l.buf \in Buffers /\ l.buf.n = 0 /\ l.buf.client = b.client
    BY <1>1, <2>2, <2>3, <2>4, ChangedFields
  <2>6. BufferOn(b, l.buf)
    BY <1>1, <2>5, OnwardStays DEF BufferOn, GoodBuffer, InBounds
  <2>7. l.found = TRUE /\ l.line = CString(data)
    BY <2>1
  <2>8. LineOf(b, l)
    BY <1>2, <2>6, <2>7, CStringType DEF LineOf
  <2>9. QED
    BY <2>8 DEF l
<1>8. QED
  BY <1>5, <1>6, <1>7

LEMMA GetLineOn ==
  ASSUME RequestTypeOK, NEW b, GoodBuffer(b)
  PROVE  LineOf(b, GetLine(b))
<1>1. LineOf(b, NextLine(b))
  BY NextLineOn
<1> DEFINE f == FillBuffer(b)
<1>2. BufferOn(b, f) /\ GoodBuffer(f)
  BY FillBufferOn DEF BufferOn
<1> HIDE DEF f
<1>3. LineOf(f, NextLine(f))
  BY <1>2, NextLineOn
<1>4. b \in Buffers
  BY DEF GoodBuffer
<1>5. LineOf(b, NextLine(f))
  BY <1>2, <1>3, <1>4, BufferOnOn DEF LineOf
<1>6. GetLine(b) = IF NextLine(b).found THEN NextLine(b) ELSE NextLine(f)
  BY Zenon DEF GetLine, f
<1>7. QED
  BY <1>1, <1>5, <1>6

\* A line after others.
LEMMA LineAfter ==
  ASSUME RequestTypeOK, NEW b, GoodBuffer(b), NEW l, LineOf(b, l)
  PROVE  LineOf(b, GetLine(l.buf))
<1>1. BufferOn(b, l.buf) /\ GoodBuffer(l.buf) /\ b \in Buffers
  BY DEF LineOf, BufferOn, GoodBuffer
<1> DEFINE f == l.buf
           m == GetLine(f)
<1> HIDE DEF f
<1>2. LineOf(f, m)
  BY <1>1, GetLineOn DEF f
<1> HIDE DEF m
<1>3. LineOf(b, m)
  BY <1>1, <1>2, BufferOnOn DEF LineOf, f
<1>4. QED
  BY <1>3 DEF m, f

Line == [found : BOOLEAN, line : Text, buf : Buffers]
LEMMA GetLineRecord ==
  ASSUME NEW b, NEW l, l = GetLine(b), l.found \in BOOLEAN, l.line \in Text,
         l.buf \in Buffers
  PROVE  l \in Line
<1>1. l = [found |-> l.found, line |-> l.line, buf |-> l.buf]
  <2>1. \A f : NextLine(f) = [found |-> NextLine(f).found, line |-> NextLine(f).line,
                              buf |-> NextLine(f).buf]
    BY DEF NextLine, NoLine
  <2>2. l = NextLine(b) \/ l = NextLine(FillBuffer(b))
    BY DEF GetLine
  <2>3. QED
    BY <2>1, <2>2
<1>2. QED
  BY <1>1 DEF Line

LEMMA LineIn ==
  ASSUME NEW b, NEW l, LineOf(b, l)
  PROVE  l.found \in BOOLEAN /\ l.line \in Text /\ l.buf \in Buffers
BY DEF LineOf, BufferOn, GoodBuffer

\* The lines up to a delimiter.
LineStep(l) == IF l.found /\ l.line # Delimiter THEN GetLine(l.buf) ELSE l
\* The lines the loop of find_boundary comes to.
FindsBoundary(b, it) ==
  /\ it[0] = GetLine(b)
  /\ \A n \in 0..Lines - 1 : it[n + 1] = LineStep(it[n])
  /\ \A n \in 0..Lines : LineOf(b, it[n])
  /\ FindBoundary(b) = it[Lines]
LEMMA FindBoundaryLoop ==
  ASSUME RequestTypeOK, NEW b, GoodBuffer(b)
  PROVE  \E it : FindsBoundary(b, it)
<1> DEFINE S == {l \in Line : LineOf(b, l)}
           N == Lines
           start == GetLine(b)
           step == [s \in S |-> LineStep(s)]
           Def(f) == f = [k \in 0..N |-> IF k = 0 THEN start ELSE LineStep(f[k - 1])]
           it == CHOOSE f : Def(f)
<1>1. ASSUME NEW s \in S PROVE LineStep(s) \in S
  <2>1. s \in Line /\ LineOf(b, s)
    OBVIOUS
  <2> DEFINE l == GetLine(s.buf)
  <2>2. LineOf(b, l)
    BY <2>1, LineAfter
  <2>3. l \in Line
    BY <2>2, LineIn, GetLineRecord
  <2>4. LineStep(s) = IF s.found /\ s.line # Delimiter THEN l ELSE s
    BY Zenon DEF LineStep
  <2> HIDE DEF l
  <2>5. QED
    BY <2>1, <2>2, <2>3, <2>4
<1>2. start \in S /\ N \in Nat
  <2> DEFINE l == GetLine(b)
  <2>1. LineOf(b, l)
    BY GetLineOn
  <2>2. l \in Line
    BY <2>1, LineIn, GetLineRecord
  <2>3. N \in Nat /\ start = l
    BY BodyType DEF Lines
  <2> HIDE DEF l, N, start
  <2>4. QED
    BY <2>1, <2>2, <2>3
<1>3. FindBoundary(b) = it[N]
  BY Zenon DEF FindBoundary, While, LineStep
<1>4. step \in [S -> S]
  <2> HIDE DEF S, start, N
  <2>1. QED
    BY <1>1
<1>5. PICK t \in [0..N -> S] : LoopOf(step, start, N, t)
  <2> HIDE DEF step, S, start, N
  <2>1. QED
    BY <1>2, <1>4, LoopExists
<1> HIDE DEF S, start, N
<1>6. Def(t)
  <2>1. ASSUME NEW k \in 0..N, k # 0
        PROVE  step[t[k - 1]] = LineStep(t[k - 1])
    <3>1. k - 1 \in 0..N
      BY <1>2, <2>1
    <3>2. t[k - 1] \in S
      BY <3>1
    <3>3. QED
      BY <3>2
  <2> HIDE DEF step
  <2>2. QED
    BY <1>5, <2>1 DEF LoopOf
<1> HIDE DEF step
<1>7. Def(it)
  <2> HIDE DEF Def
  <2>1. QED
    BY <1>6, Zenon
<1> HIDE DEF it
<1>8. it[0] = start
  BY <1>2, <1>7
<1>9. ASSUME NEW n \in 0..N - 1 PROVE it[n + 1] = LineStep(it[n])
  <2>1. n + 1 \in 0..N /\ n + 1 # 0 /\ (n + 1) - 1 = n
    BY <1>2
  <2>2. QED
    BY <1>7, <2>1
<1> HIDE DEF Def
<1>10. \A n \in 0..N : it[n] \in S
  <2> DEFINE G == {n \in 0..N : it[n] \in S}
  <2>1. 0 \in G
    BY <1>2, <1>8
  <2>2. ASSUME NEW n \in 0..N - 1, n \in G PROVE n + 1 \in G
    <3>1. n + 1 \in 0..N /\ it[n] \in S
      BY <1>2, <2>2
    <3>2. it[n + 1] \in S
      BY <1>1, <1>9, <3>1
    <3>3. QED
      BY <3>1, <3>2
  <2> HIDE DEF G
  <2>3. \A n \in 0..N : n \in G
    BY <1>2, <2>1, <2>2, Upward
  <2>4. QED
    BY <2>3 DEF G
<1>11. \A n \in 0..N : LineOf(b, it[n])
  BY <1>10 DEF S
<1>12. FindBoundary(b) = it[N]
  BY <1>3
<1>13. QED
  BY <1>8, <1>9, <1>11, <1>12 DEF FindsBoundary, start, N

LEMMA FindBoundaryOn ==
  ASSUME RequestTypeOK, NEW b, GoodBuffer(b)
  PROVE  LineOf(b, FindBoundary(b))
<1>1. PICK it : FindsBoundary(b, it)
  BY FindBoundaryLoop
<1>2. Lines \in 0..Lines
  BY BodyType DEF Lines
<1>3. QED
  BY <1>1, <1>2 DEF FindsBoundary

\* The lines up to an empty one.
HeaderStep(h) ==
  IF h.last.found /\ h.last.line # <<>>
    THEN [lines |-> Append(h.lines, h.last.line), last |-> GetLine(h.last.buf)]
    ELSE h
\* The lines the loop of multipart_buffer_headers collects.
FindsHeaders(b, it) ==
  /\ it[0] = [lines |-> <<>>, last |-> GetLine(b)]
  /\ \A n \in 0..Lines - 1 : it[n + 1] = HeaderStep(it[n])
  /\ \A n \in 0..Lines : it[n].lines \in Seq(Text) /\ LineOf(b, it[n].last)
  /\ HeaderLines(b) = [found |-> TRUE, lines |-> it[Lines].lines, buf |-> it[Lines].last.buf]
LEMMA HeaderLinesLoop ==
  ASSUME RequestTypeOK, NEW b, GoodBuffer(b)
  PROVE  \E it : FindsHeaders(b, it)
<1> DEFINE S == {h \in [lines : Seq(Text), last : Line] : LineOf(b, h.last)}
           N == Lines
           start == [lines |-> <<>>, last |-> GetLine(b)]
           step == [s \in S |-> HeaderStep(s)]
           Def(f) == f = [k \in 0..N |-> IF k = 0 THEN start ELSE HeaderStep(f[k - 1])]
           it == CHOOSE f : Def(f)
<1>1. ASSUME NEW s \in S PROVE HeaderStep(s) \in S
  <2> DEFINE d == s.last
             l == GetLine(d.buf)
             more == Append(s.lines, d.line)
  <2>1. d \in Line /\ LineOf(b, d) /\ s.lines \in Seq(Text)
    OBVIOUS
  <2>2. HeaderStep(s) = IF d.found /\ d.line # <<>> THEN [lines |-> more, last |-> l] ELSE s
    BY Zenon DEF HeaderStep
  <2>3. more \in Seq(Text)
    <3>1. d.line \in Text
      BY <2>1 DEF Line
    <3> HIDE DEF d
    <3>2. QED
      BY <2>1, <3>1, AppendType
  <2> HIDE DEF d, more
  <2>4. LineOf(b, l)
    BY <2>1, LineAfter
  <2>5. l \in Line
    BY <2>4, LineIn, GetLineRecord
  <2> HIDE DEF l
  <2>6. QED
    BY <2>2, <2>3, <2>4, <2>5
<1>2. start \in S /\ N \in Nat
  <2> DEFINE l == GetLine(b)
  <2>1. LineOf(b, l)
    BY GetLineOn
  <2>2. l \in Line
    BY <2>1, LineIn, GetLineRecord
  <2>3. N \in Nat
    BY BodyType DEF Lines
  <2>4. start = [lines |-> <<>>, last |-> l] /\ <<>> \in Seq(Text)
    OBVIOUS
  <2> HIDE DEF l, N, start
  <2>5. QED
    BY <2>1, <2>2, <2>3, <2>4
<1>3. HeaderLines(b) = [found |-> TRUE, lines |-> it[N].lines, buf |-> it[N].last.buf]
  BY Zenon DEF HeaderLines, While, HeaderStep
<1>4. step \in [S -> S]
  <2> HIDE DEF S, start, N
  <2>1. QED
    BY <1>1
<1>5. PICK t \in [0..N -> S] : LoopOf(step, start, N, t)
  <2> HIDE DEF step, S, start, N
  <2>1. QED
    BY <1>2, <1>4, LoopExists
<1> HIDE DEF S, start, N
<1>6. Def(t)
  <2>1. ASSUME NEW k \in 0..N, k # 0
        PROVE  step[t[k - 1]] = HeaderStep(t[k - 1])
    <3>1. k - 1 \in 0..N
      BY <1>2, <2>1
    <3>2. t[k - 1] \in S
      BY <3>1
    <3>3. QED
      BY <3>2
  <2> HIDE DEF step
  <2>2. QED
    BY <1>5, <2>1 DEF LoopOf
<1> HIDE DEF step
<1>7. Def(it)
  <2> HIDE DEF Def
  <2>1. QED
    BY <1>6, Zenon
<1> HIDE DEF it
<1>8. it[0] = start
  BY <1>2, <1>7
<1>9. ASSUME NEW n \in 0..N - 1 PROVE it[n + 1] = HeaderStep(it[n])
  <2>1. n + 1 \in 0..N /\ n + 1 # 0 /\ (n + 1) - 1 = n
    BY <1>2
  <2>2. QED
    BY <1>7, <2>1
<1> HIDE DEF Def
<1>10. \A n \in 0..N : it[n] \in S
  <2> DEFINE G == {n \in 0..N : it[n] \in S}
  <2>1. 0 \in G
    BY <1>2, <1>8
  <2>2. ASSUME NEW n \in 0..N - 1, n \in G PROVE n + 1 \in G
    <3>1. n + 1 \in 0..N /\ it[n] \in S
      BY <1>2, <2>2
    <3>2. it[n + 1] \in S
      BY <1>1, <1>9, <3>1
    <3>3. QED
      BY <3>1, <3>2
  <2> HIDE DEF G
  <2>3. \A n \in 0..N : n \in G
    BY <1>2, <2>1, <2>2, Upward
  <2>4. QED
    BY <2>3 DEF G
<1>11. \A n \in 0..N : it[n].lines \in Seq(Text) /\ LineOf(b, it[n].last)
  BY <1>10 DEF S
<1>12. HeaderLines(b) = [found |-> TRUE, lines |-> it[N].lines, buf |-> it[N].last.buf]
  BY <1>3
<1>13. QED
  BY <1>8, <1>9, <1>11, <1>12 DEF FindsHeaders, start, N

LEMMA HeaderLinesOn ==
  ASSUME RequestTypeOK, NEW b, GoodBuffer(b)
  PROVE  /\ BufferOn(b, HeaderLines(b).buf) /\ HeaderLines(b).lines \in Seq(Text)
         /\ HeaderLines(b).found = TRUE
<1>1. PICK it : FindsHeaders(b, it)
  BY HeaderLinesLoop
<1>2. Lines \in 0..Lines
  BY BodyType DEF Lines
<1> DEFINE h == it[Lines]
<1>3. h.lines \in Seq(Text) /\ LineOf(b, h.last)
  BY <1>1, <1>2 DEF FindsHeaders
<1>4. HeaderLines(b) = [found |-> TRUE, lines |-> h.lines, buf |-> h.last.buf]
  BY <1>1 DEF FindsHeaders
<1> HIDE DEF h
<1>5. /\ HeaderLines(b).found = TRUE /\ HeaderLines(b).lines = h.lines
      /\ HeaderLines(b).buf = h.last.buf
  BY <1>4
<1>6. QED
  BY <1>3, <1>5 DEF LineOf

\* The headers of a part and what they leave in the buffer.
HeadersOf(b, h) ==
  h.found \in BOOLEAN /\ h.lines \in Seq(Text) /\ BufferOn(b, h.buf)
LEMMA HeadersOn ==
  ASSUME RequestTypeOK, NEW b, GoodBuffer(b)
  PROVE  HeadersOf(b, MultipartBufferHeaders(b))
<1> DEFINE l == FindBoundary(b)
           h == MultipartBufferHeaders(b)
           f == l.buf
<1>1. LineOf(b, l) /\ b \in Buffers
  BY FindBoundaryOn DEF GoodBuffer
<1>2. h = IF l.found THEN HeaderLines(f) ELSE [found |-> FALSE, lines |-> <<>>, buf |-> f]
  BY Zenon DEF MultipartBufferHeaders
<1> HIDE DEF l, h
<1>3. BufferOn(b, f) /\ GoodBuffer(f)
  BY <1>1 DEF LineOf, BufferOn
<1> HIDE DEF f
<1>4. HeadersOf(b, HeaderLines(f))
  <2>1. /\ BufferOn(f, HeaderLines(f).buf) /\ HeaderLines(f).lines \in Seq(Text)
        /\ HeaderLines(f).found = TRUE
    BY <1>3, HeaderLinesOn
  <2>2. BufferOn(b, HeaderLines(f).buf)
    BY <1>1, <1>3, <2>1, BufferOnOn
  <2>3. QED
    BY <2>1, <2>2 DEF HeadersOf
<1>5. HeadersOf(b, [found |-> FALSE, lines |-> <<>>, buf |-> f])
  BY <1>3 DEF HeadersOf
<1>6. HeadersOf(b, h)
  BY <1>2, <1>4, <1>5
<1>7. QED
  BY <1>6 DEF h

LEMMA NextHeadersOn ==
  ASSUME RequestTypeOK, GoodBuffer(buf)
  PROVE  HeadersOf(buf, NextHeaders)
<1> DEFINE b == AtLeastOne(buf)
           h == MultipartBufferHeaders(b)
           none == [found |-> FALSE, lines |-> <<>>, buf |-> b]
<1>1. BufferOn(buf, b) /\ GoodBuffer(b) /\ buf \in Buffers
  BY AtLeastOneOn DEF BufferOn, GoodBuffer
<1>2. NextHeaders = IF b.n > 0 THEN h ELSE none
  BY Zenon DEF NextHeaders
<1> HIDE DEF b
<1>3. HeadersOf(b, h)
  BY <1>1, HeadersOn
<1> HIDE DEF h
<1>4. HeadersOf(buf, h)
  BY <1>1, <1>3, BufferOnOn DEF HeadersOf
<1>5. none.found = FALSE /\ none.lines = <<>> /\ none.buf = b
  OBVIOUS
<1> HIDE DEF none, h
<1>6. HeadersOf(buf, none)
  <2>1. FALSE \in BOOLEAN /\ <<>> \in Seq(Text)
    OBVIOUS
  <2>2. QED
    BY <1>1, <1>5, <2>1 DEF HeadersOf
<1>7. QED
  BY <1>2, <1>4, <1>6

\* What a part is, as its header says.
LEMMA DispositionType ==
  ASSUME NEW lines \in Seq(Text)
  PROVE  DispositionOf(lines) = Unknown
         \/ (DispositionOf(lines).param \in Text /\ DispositionOf(lines).filename \in Text \cup {NoText})
<1> DEFINE I == {i \in 1..Len(lines) : lines[i][1] \in DOMAIN Disposition}
           i == SelectInSeq(lines, LAMBDA l : l[1] \in DOMAIN Disposition)
<1>1. i = IF I # {} THEN Min(I) ELSE 0
  BY Zenon DEF SelectInSeq
<1>2. I \in SUBSET Nat
  OBVIOUS
<1>3. \A j \in I : lines[j][1] \in DOMAIN Disposition
  OBVIOUS
<1>4. DispositionOf(lines) = IF i = 0 THEN Unknown ELSE Disposition[lines[i][1]]
  BY Zenon DEF DispositionOf
<1> HIDE DEF I, i
<1>5. i = 0 \/ lines[i][1] \in DOMAIN Disposition
  <2>1. CASE I # {}
    BY <1>1, <1>2, <1>3, <2>1, MinNumber
  <2>2. CASE I = {}
    BY <1>1, <2>2
  <2>3. QED
    BY <2>1, <2>2
<1>6. CASE i = 0
  BY <1>4, <1>6
<1>7. CASE i # 0
  <2> DEFINE d == Disposition[lines[i][1]]
  <2>1. d \in [param : Text, filename : Text \cup {NoText}]
    BY <1>5, <1>7, BufferAssumption
  <2>2. DispositionOf(lines) = d
    BY <1>4, <1>7
  <2> HIDE DEF d
  <2>3. QED
    BY <2>1, <2>2
<1>8. QED
  BY <1>6, <1>7

\* Where data may end a part.
LEMMA MatchType ==
  ASSUME NEW s \in Text, NEW needle \in Text
  PROVE  Match(s, needle) \in 0..Len(s)
<1> DEFINE Fits(i) == LET rest == SubSeq(s, i + 1, Len(s))
                      IN  IsPrefix(needle, rest) \/ IsPrefix(rest, needle)
           T == {i \in 0..Len(s) : Fits(i)}
<1>1. s \in Seq(Bytes) /\ Len(s) \in Nat
  BY DEF Text
<1>2. Fits(Len(s))
  <2> DEFINE rest == SubSeq(s, Len(s) + 1, Len(s))
  <2>1. rest = <<>>
    BY <1>1
  <2>2. IsPrefix(rest, needle)
    <3>1. Len(rest) = 0 /\ SubSeq(rest, 1, 0) = <<>> /\ SubSeq(needle, 1, 0) = <<>>
      BY <2>1
    <3>2. 0 <= Len(needle)
      BY DEF Text
    <3>3. Len(rest) <= Len(needle)
      BY <3>1, <3>2
    <3> HIDE DEF rest
    <3>4. QED
      BY <3>1, <3>3, Zenon DEF IsPrefix
  <2>3. QED
    BY <2>2
<1> HIDE DEF Fits
<1>3. T \in SUBSET Nat /\ T # {} /\ T \in SUBSET (0..Len(s))
  BY <1>1, <1>2
<1>4. Match(s, needle) = Min(T)
  BY Zenon DEF Match, Fits
<1> HIDE DEF T
<1>5. Min(T) \in T
  BY <1>3, MinNumber
<1>6. QED
  BY <1>3, <1>4, <1>5

\* What is read of a part, and what it leaves in the buffer.
PieceRead(b, r) == r.bytes \in Text /\ BufferOn(b, r.buf)

LEMMA NextDelimiterType == NextDelimiter \in Text
<1>1. Boundary \in Seq(Bytes) /\ LF \in Bytes
  BY BufferAssumption DEF Text
<1>2. <<"-", "-">> \in Seq(Bytes) /\ <<LF>> \in Seq(Bytes)
  BY <1>1, BufferAssumption
<1>3. Delimiter \in Seq(Bytes)
  BY <1>1, <1>2, ConcatFacts, Zenon DEF Delimiter
<1>4. NextDelimiter \in Seq(Bytes)
  BY <1>2, <1>3, ConcatFacts, Zenon DEF NextDelimiter
<1>5. QED
  BY <1>4 DEF Text

LEMMA MultipartBufferReadOn ==
  ASSUME RequestTypeOK, NEW b, GoodBuffer(b)
  PROVE  PieceRead(b, MultipartBufferRead(b, FILLUNIT))
<1> DEFINE f == IF FILLUNIT > b.n THEN FillBuffer(b) ELSE b
           data == Buffered(f)
           max == Match(data, NextDelimiter)
           len == Min({max, FILLUNIT - 1})
           kept == max < f.n /\ len > 0 /\ data[len] = CR
           long == IF kept THEN len - 1 ELSE len
           out == SubSeq(data, 1, long)
           r == MultipartBufferRead(b, FILLUNIT)
           g == r.buf
<1>1. BufferOn(b, f) /\ b \in Buffers
  BY FillBufferOn, BufferOnStays DEF GoodBuffer
<1>2. r = [bytes |-> out, buf |-> [f EXCEPT !.begin = @ + Len(out), !.n = @ - Len(out)]]
  BY Zenon DEF MultipartBufferRead
<1> HIDE DEF f, r
<1>3. /\ f \in Buffers /\ f.mem \in [1..BufSize + 1 -> Bytes] /\ f.begin \in Nat
      /\ f.n \in Nat /\ f.client \in Clients /\ InBounds(f.begin, f.n)
      /\ Onward(b.client, f.client)
  BY <1>1, BufferFields DEF BufferOn, GoodBuffer
<1>4. data \in Text /\ Len(data) = f.n /\ data \in Seq(Bytes)
  BY <1>3, BufferedType DEF Text
<1> HIDE DEF data
<1>5. max \in 0..f.n
  <2>1. Match(data, NextDelimiter) \in 0..Len(data)
    BY <1>4, NextDelimiterType, MatchType
  <2>2. QED
    BY <1>4, <2>1
<1> HIDE DEF max
<1>6. len \in Nat /\ len <= max
  <2>1. max \in Nat /\ FILLUNIT - 1 \in Nat
    BY <1>3, <1>5, BufferAssumption
  <2> DEFINE m == FILLUNIT - 1
  <2> HIDE DEF m
  <2>2. Min({max, m}) \in {max, m} /\ Min({max, m}) <= max
    BY <2>1, LessOf DEF m
  <2>3. len \in {max, m} /\ len <= max
    BY <2>2 DEF m
  <2> HIDE DEF len
  <2>4. QED
    BY <2>1, <2>3 DEF m
<1> HIDE DEF len, kept
<1>7. long \in 0..f.n
  <2>1. len \in 0..f.n /\ (kept => len > 0)
    BY <1>3, <1>5, <1>6 DEF kept
  <2>2. QED
    BY <1>3, <2>1
<1> HIDE DEF long
<1>8. out \in Text /\ Len(out) = long
  <2>1. 1 \in Nat \ {0} /\ long \in 0..Len(data)
    BY <1>4, <1>7
  <2>2. /\ SubSeq(data, 1, long) \in Seq(Bytes)
        /\ Len(SubSeq(data, 1, long)) = IF 1 <= long THEN long - 1 + 1 ELSE 0
    BY <1>4, <2>1, SubSeqFacts
  <2>3. QED
    BY <1>3, <1>7, <2>2 DEF Text
<1> DEFINE begin == f.begin + long
           n == f.n - long
<1>9. begin \in Nat /\ n \in Nat /\ InBounds(begin, n)
  <2>1. BufSize \in Nat
    BY BufSizeType
  <2>2. QED
    BY <1>3, <1>7, <2>1 DEF InBounds
<1> DEFINE c == f.client
<1>10. g = [f EXCEPT !.begin = begin, !.n = n]
  <2>1. r = [bytes |-> out, buf |-> [f EXCEPT !.begin = f.begin + Len(out), !.n = f.n - Len(out)]]
    BY <1>2
  <2> HIDE DEF out
  <2>2. QED
    BY <1>8, <2>1
<1>11. f \in Buffers
  BY <1>3
<1>12. r.bytes = out
  BY <1>2
<1> HIDE DEF g, begin, n, out, long, f
<1>13. g \in Buffers /\ g.begin = begin /\ g.n = n /\ g.client = c
  <2>1. begin \in Nat
    BY <1>9
  <2>2. n \in Nat
    BY <1>9
  <2>3. QED
    BY <1>10, <1>11, <2>1, <2>2 DEF Buffers, c
<1> HIDE DEF c
<1>14. BufferOn(b, g)
  BY <1>3, <1>9, <1>13 DEF BufferOn, GoodBuffer, c
<1>15. PieceRead(b, r)
  BY <1>8, <1>12, <1>14 DEF PieceRead, g
<1>16. QED
  BY <1>15 DEF r

LEMMA PieceAfter ==
  ASSUME RequestTypeOK, NEW b, GoodBuffer(b), NEW r, PieceRead(b, r)
  PROVE  PieceRead(b, MultipartBufferRead(r.buf, FILLUNIT))
<1> DEFINE f == r.buf
           q == MultipartBufferRead(f, FILLUNIT)
<1>1. BufferOn(b, f) /\ GoodBuffer(f) /\ b \in Buffers
  BY DEF PieceRead, BufferOn, GoodBuffer
<1> HIDE DEF f
<1>2. PieceRead(f, q)
  BY <1>1, MultipartBufferReadOn
<1> HIDE DEF q
<1>3. PieceRead(b, q)
  BY <1>1, <1>2, BufferOnOn DEF PieceRead
<1>4. QED
  BY <1>3 DEF q, f

Piece == [bytes : Text, buf : Buffers]
LEMMA PieceRecord ==
  ASSUME NEW b, NEW c, NEW r, r = MultipartBufferRead(c, FILLUNIT), PieceRead(b, r)
  PROVE  r \in Piece
<1>1. r.bytes \in Text /\ r.buf \in Buffers
  BY DEF PieceRead, BufferOn, GoodBuffer
<1>2. r = [bytes |-> r.bytes, buf |-> r.buf]
  BY DEF MultipartBufferRead
<1> HIDE DEF MultipartBufferRead
<1>3. QED
  BY <1>1, <1>2 DEF Piece

BodyStep(p) ==
  IF p.last.bytes # <<>>
    THEN [bytes |-> p.bytes \o CString(p.last.bytes),
          last |-> MultipartBufferRead(p.last.buf, FILLUNIT)]
    ELSE p
\* The pieces the loop of multipart_buffer_read_body puts together.
ReadsBody(b, it) ==
  /\ it[0] = [bytes |-> <<>>, last |-> MultipartBufferRead(b, FILLUNIT)]
  /\ \A n \in 0..Lines - 1 : it[n + 1] = BodyStep(it[n])
  /\ \A n \in 0..Lines : it[n].bytes \in Text /\ PieceRead(b, it[n].last)
  /\ MultipartBufferReadBody(b) = [bytes |-> it[Lines].bytes, buf |-> it[Lines].last.buf]
LEMMA ReadBodyLoop ==
  ASSUME RequestTypeOK, NEW b, GoodBuffer(b)
  PROVE  \E it : ReadsBody(b, it)
<1> DEFINE S == {p \in [bytes : Text, last : Piece] : PieceRead(b, p.last)}
           N == Lines
           start == [bytes |-> <<>>, last |-> MultipartBufferRead(b, FILLUNIT)]
           step == [s \in S |-> BodyStep(s)]
           Def(f) == f = [k \in 0..N |-> IF k = 0 THEN start ELSE BodyStep(f[k - 1])]
           it == CHOOSE f : Def(f)
<1>1. ASSUME NEW s \in S PROVE BodyStep(s) \in S
  <2> DEFINE d == s.last
             r == MultipartBufferRead(d.buf, FILLUNIT)
             more == s.bytes \o CString(d.bytes)
  <2>1. d \in Piece /\ PieceRead(b, d) /\ s.bytes \in Text
    OBVIOUS
  <2>2. BodyStep(s) = IF d.bytes # <<>> THEN [bytes |-> more, last |-> r] ELSE s
    BY Zenon DEF BodyStep
  <2>3. more \in Text
    <3>1. d.bytes \in Text
      BY <2>1 DEF Piece
    <3> HIDE DEF d
    <3>2. CString(d.bytes) \in Text
      BY <3>1, CStringType
    <3>3. QED
      BY <2>1, <3>2, ConcatFacts DEF Text
  <2> HIDE DEF d, more
  <2>4. PieceRead(b, r)
    BY <2>1, PieceAfter
  <2>5. r \in Piece
    BY <2>4, PieceRecord
  <2> HIDE DEF r
  <2>6. QED
    BY <2>2, <2>3, <2>4, <2>5
<1>2. start \in S /\ N \in Nat
  <2> DEFINE r == MultipartBufferRead(b, FILLUNIT)
  <2>1. PieceRead(b, r)
    BY MultipartBufferReadOn
  <2>2. r \in Piece
    BY <2>1, PieceRecord
  <2>3. N \in Nat
    BY BodyType DEF Lines
  <2>4. start = [bytes |-> <<>>, last |-> r] /\ <<>> \in Text
    BY DEF Text
  <2> HIDE DEF r, N, start
  <2>5. QED
    BY <2>1, <2>2, <2>3, <2>4
<1>3. MultipartBufferReadBody(b) = [bytes |-> it[N].bytes, buf |-> it[N].last.buf]
  BY Zenon DEF MultipartBufferReadBody, While, BodyStep
<1>4. step \in [S -> S]
  <2> HIDE DEF S, start, N
  <2>1. QED
    BY <1>1
<1>5. PICK t \in [0..N -> S] : LoopOf(step, start, N, t)
  <2> HIDE DEF step, S, start, N
  <2>1. QED
    BY <1>2, <1>4, LoopExists
<1> HIDE DEF S, start, N
<1>6. Def(t)
  <2>1. ASSUME NEW k \in 0..N, k # 0
        PROVE  step[t[k - 1]] = BodyStep(t[k - 1])
    <3>1. k - 1 \in 0..N
      BY <1>2, <2>1
    <3>2. t[k - 1] \in S
      BY <3>1
    <3>3. QED
      BY <3>2
  <2> HIDE DEF step
  <2>2. QED
    BY <1>5, <2>1 DEF LoopOf
<1> HIDE DEF step
<1>7. Def(it)
  <2> HIDE DEF Def
  <2>1. QED
    BY <1>6, Zenon
<1> HIDE DEF it
<1>8. it[0] = start
  BY <1>2, <1>7
<1>9. ASSUME NEW n \in 0..N - 1 PROVE it[n + 1] = BodyStep(it[n])
  <2>1. n + 1 \in 0..N /\ n + 1 # 0 /\ (n + 1) - 1 = n
    BY <1>2
  <2>2. QED
    BY <1>7, <2>1
<1> HIDE DEF Def
<1>10. \A n \in 0..N : it[n] \in S
  <2> DEFINE G == {n \in 0..N : it[n] \in S}
  <2>1. 0 \in G
    BY <1>2, <1>8
  <2>2. ASSUME NEW n \in 0..N - 1, n \in G PROVE n + 1 \in G
    <3>1. n + 1 \in 0..N /\ it[n] \in S
      BY <1>2, <2>2
    <3>2. it[n + 1] \in S
      BY <1>1, <1>9, <3>1
    <3>3. QED
      BY <3>1, <3>2
  <2> HIDE DEF G
  <2>3. \A n \in 0..N : n \in G
    BY <1>2, <2>1, <2>2, Upward
  <2>4. QED
    BY <2>3 DEF G
<1>11. \A n \in 0..N : it[n].bytes \in Text /\ PieceRead(b, it[n].last)
  BY <1>10 DEF S
<1>12. MultipartBufferReadBody(b) = [bytes |-> it[N].bytes, buf |-> it[N].last.buf]
  BY <1>3
<1>13. QED
  BY <1>8, <1>9, <1>11, <1>12 DEF ReadsBody, start, N

LEMMA MultipartBufferReadBodyOn ==
  ASSUME RequestTypeOK, NEW b, GoodBuffer(b)
  PROVE  PieceRead(b, MultipartBufferReadBody(b))
<1>1. PICK it : ReadsBody(b, it)
  BY ReadBodyLoop
<1>2. Lines \in 0..Lines
  BY BodyType DEF Lines
<1> DEFINE p == it[Lines]
<1>3. p.bytes \in Text /\ PieceRead(b, p.last)
  BY <1>1, <1>2 DEF ReadsBody
<1>4. MultipartBufferReadBody(b) = [bytes |-> p.bytes, buf |-> p.last.buf]
  BY <1>1 DEF ReadsBody
<1> HIDE DEF p
<1>5. /\ MultipartBufferReadBody(b).bytes = p.bytes
      /\ MultipartBufferReadBody(b).buf = p.last.buf
  BY <1>4
<1>6. QED
  BY <1>3, <1>5 DEF PieceRead

-----------------------------------------------------------------------------
(* Cookies, and the last of a name.                                        *)

\* The values of a cookie.
RestOf(data) == SubSeq(data, Len(Before(data, {"&"})) + 2, Len(data))
ValueStep(s) ==
  IF s.data # <<>>
    THEN [data |-> RestOf(s.data),
          values |-> Append(s.values, Unescape(Before(s.data, {"&"})))]
    ELSE s
LEMMA RestOfType ==
  ASSUME NEW data \in Text
  PROVE  RestOf(data) \in Text
<1> DEFINE w == Before(data, {"&"})
           m == Len(w) + 2
           n == Len(data)
<1>1. w \in Seq(Bytes) /\ data \in Seq(Bytes)
  BY BeforeType DEF Text
<1> HIDE DEF w
<1>2. m \in Nat \ {0} /\ n \in 0..Len(data)
  BY <1>1
<1> HIDE DEF m, n
<1>3. SubSeq(data, m, n) \in Seq(Bytes)
  BY <1>1, <1>2, SubSeqFacts
<1>4. QED
  BY <1>3 DEF RestOf, Text, m, n, w

ValueStates == [data : Text, values : Seq(Text)]
ValueLoop(text, it) ==
  /\ it[0] = [data |-> text, values |-> <<>>]
  /\ \A n \in 0..Len(text) - 1 : it[n + 1] = ValueStep(it[n])
  /\ \A n \in 0..Len(text) : it[n] \in ValueStates
LEMMA CookieValuesLoop ==
  ASSUME NEW text \in Text
  PROVE  \E it : ValueLoop(text, it) /\ CookieValues(text) = it[Len(text)].values
<1> DEFINE S == ValueStates
           N == Len(text)
           start == [data |-> text, values |-> <<>>]
           step == [s \in S |-> ValueStep(s)]
           Def(f) == f = [k \in 0..N |-> IF k = 0 THEN start ELSE ValueStep(f[k - 1])]
           it == CHOOSE f : Def(f)
<1>1. ASSUME NEW s \in S PROVE ValueStep(s) \in S
  <2> DEFINE d == s.data
             more == Append(s.values, Unescape(Before(d, {"&"})))
             rest == RestOf(d)
  <2>1. d \in Text /\ s.values \in Seq(Text)
    BY DEF ValueStates
  <2>2. ValueStep(s) = IF d # <<>> THEN [data |-> rest, values |-> more] ELSE s
    BY Zenon DEF ValueStep
  <2> HIDE DEF d
  <2>3. Unescape(Before(d, {"&"})) \in Text /\ rest \in Text
    BY <2>1, BeforeType, UnescapeType, RestOfType
  <2>4. more \in Seq(Text)
    BY <2>1, <2>3, AppendType
  <2> HIDE DEF rest, more
  <2>5. QED
    BY <2>2, <2>3, <2>4 DEF ValueStates
<1>2. start \in S /\ N \in Nat
  <2>1. <<>> \in Seq(Text) /\ N \in Nat
    BY DEF Text
  <2>2. QED
    BY <2>1 DEF ValueStates
<1>3. CookieValues(text) = it[N].values
  BY Zenon DEF CookieValues, While, ValueStep, RestOf
<1>4. step \in [S -> S]
  <2> HIDE DEF S, start, N
  <2>1. QED
    BY <1>1
<1>5. PICK t \in [0..N -> S] : LoopOf(step, start, N, t)
  <2> HIDE DEF step, S, start, N
  <2>1. QED
    BY <1>2, <1>4, LoopExists
<1> HIDE DEF S, start, N
<1>6. Def(t)
  <2>1. ASSUME NEW k \in 0..N, k # 0
        PROVE  step[t[k - 1]] = ValueStep(t[k - 1])
    <3>1. k - 1 \in 0..N
      BY <1>2, <2>1
    <3>2. t[k - 1] \in S
      BY <3>1
    <3>3. QED
      BY <3>2
  <2> HIDE DEF step
  <2>2. QED
    BY <1>5, <2>1 DEF LoopOf
<1> HIDE DEF step
<1>7. Def(it)
  <2> HIDE DEF Def
  <2>1. QED
    BY <1>6, Zenon
<1> HIDE DEF it
<1>8. it[0] = start
  BY <1>2, <1>7
<1>9. ASSUME NEW n \in 0..N - 1 PROVE it[n + 1] = ValueStep(it[n])
  <2>1. n + 1 \in 0..N /\ n + 1 # 0 /\ (n + 1) - 1 = n
    BY <1>2
  <2>2. QED
    BY <1>7, <2>1
<1> HIDE DEF Def
<1>10. \A n \in 0..N : it[n] \in S
  <2> DEFINE G == {n \in 0..N : it[n] \in S}
  <2>1. 0 \in G
    BY <1>2, <1>8
  <2>2. ASSUME NEW n \in 0..N - 1, n \in G PROVE n + 1 \in G
    <3>1. n + 1 \in 0..N /\ it[n] \in S
      BY <1>2, <2>2
    <3>2. it[n + 1] \in S
      BY <1>1, <1>9, <3>1
    <3>3. QED
      BY <3>1, <3>2
  <2> HIDE DEF G
  <2>3. \A n \in 0..N : n \in G
    BY <1>2, <2>1, <2>2, Upward
  <2>4. QED
    BY <2>3 DEF G
<1>11. ValueLoop(text, it)
  BY <1>8, <1>9, <1>10 DEF ValueLoop, S, N, start
<1>12. QED
  BY <1>3, <1>11 DEF N

LEMMA CookieValuesType ==
  ASSUME NEW text \in Text
  PROVE  CookieValues(text) \in Seq(Text)
<1>1. PICK it : ValueLoop(text, it) /\ CookieValues(text) = it[Len(text)].values
  BY CookieValuesLoop
<1>2. Len(text) \in 0..Len(text)
  BY DEF Text
<1>3. it[Len(text)] \in ValueStates
  BY <1>1, <1>2 DEF ValueLoop
<1>4. QED
  BY <1>1, <1>3 DEF ValueStates

CookieRecord == [name : Text, values : Seq(Text)]
LEMMA CookieOfType ==
  ASSUME NEW pair \in Text
  PROVE  CookieOf(pair) \in CookieRecord
<1> DEFINE text == After(pair, {"="})
           values == IF text = <<>> THEN <<<<>>>> ELSE CookieValues(text)
           name == Unescape(Before(pair, {"="}))
<1>1. text \in Text /\ name \in Text
  BY AfterType, BeforeType, UnescapeType
<1> HIDE DEF text
<1>2. CookieValues(text) \in Seq(Text)
  BY <1>1, CookieValuesType
<1>3. <<<<>>>> \in Seq(Text)
  <2>1. <<>> \in Text
    BY DEF Text
  <2>2. QED
    BY <2>1
<1>4. values \in Seq(Text)
  BY <1>2, <1>3
<1>5. CookieOf(pair) = [name |-> name, values |-> values]
  BY Zenon DEF CookieOf, text
<1> HIDE DEF values, name
<1>6. QED
  BY <1>1, <1>4, <1>5 DEF CookieRecord

CookieStep(s) ==
  IF s.data # <<>>
    THEN [data |-> SkipAll(After(s.data, {";"}), {" "}),
          cookies |-> Append(s.cookies, CookieOf(Before(s.data, {";"})))]
    ELSE s
CookieStates == [data : Text, cookies : Seq(CookieRecord)]
CookieLoop(data, it) ==
  /\ it[0] = [data |-> data, cookies |-> <<>>]
  /\ \A n \in 0..Len(data) - 1 : it[n + 1] = CookieStep(it[n])
  /\ \A n \in 0..Len(data) : it[n] \in CookieStates
LEMMA CookieParseLoop ==
  ASSUME NEW data \in Text
  PROVE  \E it : CookieLoop(data, it) /\ CookieParse(data) = it[Len(data)].cookies
<1> DEFINE S == CookieStates
           N == Len(data)
           start == [data |-> data, cookies |-> <<>>]
           step == [s \in S |-> CookieStep(s)]
           Def(f) == f = [k \in 0..N |-> IF k = 0 THEN start ELSE CookieStep(f[k - 1])]
           it == CHOOSE f : Def(f)
<1>1. ASSUME NEW s \in S PROVE CookieStep(s) \in S
  <2> DEFINE d == s.data
             more == Append(s.cookies, CookieOf(Before(d, {";"})))
             rest == SkipAll(After(d, {";"}), {" "})
  <2>1. d \in Text /\ s.cookies \in Seq(CookieRecord)
    BY DEF CookieStates
  <2>2. CookieStep(s) = IF d # <<>> THEN [data |-> rest, cookies |-> more] ELSE s
    BY Zenon DEF CookieStep
  <2> HIDE DEF d
  <2>3. CookieOf(Before(d, {";"})) \in CookieRecord
    BY <2>1, BeforeType, CookieOfType
  <2>4. rest \in Text
    BY <2>1, AfterType, SkipAllType
  <2>5. more \in Seq(CookieRecord)
    BY <2>1, <2>3, AppendType
  <2> HIDE DEF rest, more
  <2>6. QED
    BY <2>2, <2>4, <2>5 DEF CookieStates
<1>2. start \in S /\ N \in Nat
  <2>1. <<>> \in Seq(CookieRecord) /\ N \in Nat
    BY DEF Text
  <2>2. QED
    BY <2>1 DEF CookieStates
<1>3. CookieParse(data) = it[N].cookies
  BY Zenon DEF CookieParse, While, CookieStep
<1>4. step \in [S -> S]
  <2> HIDE DEF S, start, N
  <2>1. QED
    BY <1>1
<1>5. PICK t \in [0..N -> S] : LoopOf(step, start, N, t)
  <2> HIDE DEF step, S, start, N
  <2>1. QED
    BY <1>2, <1>4, LoopExists
<1> HIDE DEF S, start, N
<1>6. Def(t)
  <2>1. ASSUME NEW k \in 0..N, k # 0
        PROVE  step[t[k - 1]] = CookieStep(t[k - 1])
    <3>1. k - 1 \in 0..N
      BY <1>2, <2>1
    <3>2. t[k - 1] \in S
      BY <3>1
    <3>3. QED
      BY <3>2
  <2> HIDE DEF step
  <2>2. QED
    BY <1>5, <2>1 DEF LoopOf
<1> HIDE DEF step
<1>7. Def(it)
  <2> HIDE DEF Def
  <2>1. QED
    BY <1>6, Zenon
<1> HIDE DEF it
<1>8. it[0] = start
  BY <1>2, <1>7
<1>9. ASSUME NEW n \in 0..N - 1 PROVE it[n + 1] = CookieStep(it[n])
  <2>1. n + 1 \in 0..N /\ n + 1 # 0 /\ (n + 1) - 1 = n
    BY <1>2
  <2>2. QED
    BY <1>7, <2>1
<1> HIDE DEF Def
<1>10. \A n \in 0..N : it[n] \in S
  <2> DEFINE G == {n \in 0..N : it[n] \in S}
  <2>1. 0 \in G
    BY <1>2, <1>8
  <2>2. ASSUME NEW n \in 0..N - 1, n \in G PROVE n + 1 \in G
    <3>1. n + 1 \in 0..N /\ it[n] \in S
      BY <1>2, <2>2
    <3>2. it[n + 1] \in S
      BY <1>1, <1>9, <3>1
    <3>3. QED
      BY <3>1, <3>2
  <2> HIDE DEF G
  <2>3. \A n \in 0..N : n \in G
    BY <1>2, <2>1, <2>2, Upward
  <2>4. QED
    BY <2>3 DEF G
<1>11. CookieLoop(data, it)
  BY <1>8, <1>9, <1>10 DEF CookieLoop, S, N, start
<1>12. QED
  BY <1>3, <1>11 DEF N

LEMMA CookieParseType ==
  ASSUME NEW data \in Text
  PROVE  CookieParse(data) \in Seq(CookieRecord)
<1>1. PICK it : CookieLoop(data, it) /\ CookieParse(data) = it[Len(data)].cookies
  BY CookieParseLoop
<1>2. Len(data) \in 0..Len(data)
  BY DEF Text
<1>3. it[Len(data)] \in CookieStates
  BY <1>1, <1>2 DEF CookieLoop
<1>4. QED
  BY <1>1, <1>3 DEF CookieStates

LastNamed(s, name) == SelectLastInSeq(s, LAMBDA u : u.name = name)
LEMMA LastNamedType ==
  ASSUME NEW S, NEW s \in Seq(S), NEW name \in {u.name : u \in ToSet(s)}
  PROVE  LastNamed(s, name) \in 1..Len(s)
<1> DEFINE I == {i \in 1..Len(s) : s[i].name = name}
<1>1. LastNamed(s, name) = IF I # {} THEN Max(I) ELSE 0
  BY Zenon DEF SelectLastInSeq, LastNamed
<1>2. PICK i \in 1..Len(s) : s[i].name = name
  <2>1. PICK u \in ToSet(s) : u.name = name
    OBVIOUS
  <2>2. PICK i \in DOMAIN s : u = s[i]
    BY <2>1 DEF ToSet
  <2>3. i \in 1..Len(s) /\ s[i].name = name
    BY <2>1, <2>2
  <2>4. QED
    BY <2>3
<1>3. I # {} /\ I \in SUBSET (0..Len(s)) /\ Len(s) \in Nat
  BY <1>2
<1>4. \A j \in I : j \in 1..Len(s)
  OBVIOUS
<1> HIDE DEF I
<1>5. Max(I) \in I
  BY <1>3, MaxNumber
<1>6. QED
  BY <1>1, <1>3, <1>4, <1>5

-----------------------------------------------------------------------------
(* The invariant.                                                          *)

\* Where the parser may be, and what it has done by then.
Structure ==
  /\ entered = 0 =>
       /\ pc = "handler" /\ ~ apreq.parsed /\ apreq.nargs = 0
       /\ parms = <<>> /\ uploads = <<>>
  /\ pc \in {"chunk", "hook"} => uploads # <<>>
  /\ pc = "hook" => Last(uploads).name \in DOMAIN upload_table
  /\ ~ apreq.parsed \/ pc # "handler" => each = NotLooping /\ edits = 0
  /\ pc # "handler" => request.type = "multipart"

\* The parameters begin with those of the query string.
SplitOK(n, e, q, t) ==
  n = 1 /\ e = 0 =>
    /\ q = Len(SplitToParms(request.args)) /\ q <= Len(t)
    /\ SubSeq(t, 1, q) = SplitToParms(request.args)
QuerySplit == SplitOK(entered, edits, apreq.nargs, parms)

\* What was read is the body up to where the connection is, or there is no
\* more to read; all of it, when the handler was told so.
Untouched(c) == c.at = 0 /\ c.remaining = 0 /\ c.read_length = 0
ReadOK(g, c, e, n) ==
  /\ n = 0 \/ request.type # "multipart" => IsPrefix(g, request.body)
  /\ n = 0 => /\ Untouched(c) \/ SetUp(c)
              /\ g = SubSeq(request.body, 1, c.at) \/ Stuck(c)
              /\ e => g = request.body /\ c.at = Len(request.body)
  /\ request.type # "multipart" => g = SubSeq(request.body, 1, c.at) \/ Spent(c)
ReadInv == ReadOK(got, buf.client, atEnd, entered)

\* Until a handler reads itself or parses again, no more is asked for than the
\* client sends.
WaitOK(c, n, r) ==
  request.missing = 0 /\ n <= 1 /\ r = 0 =>
    ~ c.waits /\ Modest(c) /\ (n = 0 => c = NewClient)
WaitInv == WaitOK(buf.client, entered, reads)

\* The types of what is neither the buffer nor the table.
Upload == [name : Text \cup {NoText}, filename : Text \cup {NoText}, data : Text, size : Nat]
Apreq == [parsed : BOOLEAN, status : Statuses, nargs : Nat]
RestType ==
  /\ pc \in {"handler", "part", "chunk", "hook"}
  /\ apreq \in Apreq
  /\ uploads \in Seq(Upload)
  /\ upload_table \in [DOMAIN upload_table -> 1..Len(uploads)]
  /\ jar \in [DOMAIN jar -> Seq(Text)]
  /\ chunk \in Text /\ got \in Text
  /\ reads \in 0..MaxReads
  /\ atEnd \in BOOLEAN /\ told \in BOOLEAN
  /\ entered \in Nat

IInv ==
  /\ RequestTypeOK /\ GoodBuffer(buf) /\ RestType /\ TableTypeOK /\ TableInv
  /\ Structure /\ QuerySplit /\ ReadInv /\ WaitInv

\* What holds of the same request holds after a step.
LEMMA Conclude ==
  ASSUME request' = request, RequestTypeOK,
         GoodBuffer(buf'), RestType', TableTypeOK', TableInv', Structure',
         SplitOK(entered', edits', apreq'.nargs, parms'),
         ReadOK(got', buf'.client, atEnd', entered'),
         WaitOK(buf'.client, entered', reads')
  PROVE  IInv'
<1>1. RequestTypeOK'
  BY DEF RequestTypeOK
<1>2. GoodBuffer(buf)'
  BY DEF GoodBuffer, Buffers, Clients, InBounds
<1>3. QuerySplit'
  BY DEF QuerySplit, SplitOK
<1>4. ReadInv'
  BY DEF ReadInv, ReadOK, Untouched, SetUp, Stuck, Ended1, Spent, Announced
<1>5. WaitInv'
  BY DEF WaitInv, WaitOK, Modest
<1>6. QED
  BY <1>1, <1>2, <1>3, <1>4, <1>5 DEF IInv

\* A table is made anew while no handler loops over it.
LEMMA TableAfter ==
  ASSUME TableTypeOK, TableInv, each = NotLooping, edits = 0, NEW t \in Seq(Entries),
         Become(t), UNCHANGED <<each, edits>>
  PROVE  TableTypeOK' /\ TableInv' /\ parms' = t
<1>1. nalloc \in Nat /\ nalloc > 0
  BY DEF TableTypeOK, TableInv
<1>2. /\ parms' = t /\ nalloc' \in Nat
      /\ Len(parms') <= nalloc' /\ nalloc' > 0
  BY <1>1, BecomeRoom
<1>3. LoopGood(each', parms') /\ each' \in LoopType /\ edits' \in 0..MaxEdits
  <2>1. LoopGood(NotLooping, t) /\ NotLooping \in LoopType
    BY NotLoopingGood
  <2>2. each' = NotLooping /\ edits' = 0
    OBVIOUS
  <2>3. QED
    BY <1>2, <2>1, <2>2, TableAssumption
<1>4. TableTypeOK'
  BY <1>2, <1>3 DEF TableTypeOK, LoopType
<1>5. TableInv'
  BY <1>2, <1>3 DEF TableInv
<1>6. QED
  BY <1>2, <1>4, <1>5

LEMMA TableSame ==
  ASSUME TableTypeOK, TableInv, UNCHANGED tableVars
  PROVE  TableTypeOK' /\ TableInv'
BY DEF TableTypeOK, TableInv, tableVars, LoopGood, ToCome

\* The body up to some byte.
LEMMA BodyPrefix ==
  ASSUME RequestTypeOK, NEW n \in 0..Len(request.body)
  PROVE  /\ SubSeq(request.body, 1, n) \in Seq(Bytes)
         /\ Len(SubSeq(request.body, 1, n)) = n
         /\ IsPrefix(SubSeq(request.body, 1, n), request.body)
<1> DEFINE b == request.body
           p == SubSeq(b, 1, n)
<1>1. b \in Seq(Bytes) /\ Len(b) \in Nat
  BY BodyType
<1> HIDE DEF b
<1>2. p \in Seq(Bytes) /\ Len(p) = n /\ \A i \in 1..Len(p) : p[i] = b[i]
  BY <1>1 DEF b
<1>3. SubSeq(p, 1, n) = SubSeq(b, 1, n)
  BY <1>1 DEF b
<1>4. Len(p) <= Len(b)
  BY <1>1, <1>2 DEF b
<1>5. IsPrefix(p, b)
  <2> HIDE DEF p
  <2>1. SubSeq(p, 1, Len(p)) = SubSeq(b, 1, Len(p))
    BY <1>2, <1>3
  <2>2. QED
    BY <1>4, <2>1, Zenon DEF IsPrefix
<1>6. QED
  BY <1>2, <1>5 DEF b

\* Where a connection is.
LEMMA ClientAt ==
  ASSUME NEW c \in Clients
  PROVE  /\ c.at \in 0..Len(request.body) /\ c.remaining \in Int
         /\ c.read_length \in Nat /\ c.waits \in BOOLEAN
BY DEF Clients

\* Initial states.
LEMMA InitIInv == InputInit => IInv
<1> SUFFICES ASSUME InputInit PROVE IInv
  OBVIOUS
<1>1. RequestTypeOK
  BY DEF InputInit
<1>2. NewClient \in Clients
  <2>1. 0 \in 0..Len(request.body)
    BY <1>1, BodyType
  <2>2. QED
    BY <2>1 DEF NewClient, Clients
<1>3. GoodBuffer(buf) /\ buf.client = NewClient
  BY <1>2, NewBufferGood DEF InputInit
<1>4. RestType
  <2>1. reads \in 0..MaxReads
    BY InputAssumption DEF InputInit
  <2>2. apreq \in Apreq
    BY DEF InputInit, Statuses, Apreq
  <2>3. upload_table \in [DOMAIN upload_table -> 1..Len(uploads)]
        /\ jar \in [DOMAIN jar -> Seq(Text)]
    BY DEF InputInit
  <2>4. uploads \in Seq(Upload) /\ chunk \in Text /\ got \in Text
    BY DEF InputInit, Text
  <2>5. QED
    BY <2>1, <2>2, <2>3, <2>4 DEF InputInit, RestType
<1>5. TableTypeOK /\ TableInv
  <2>1. parms = <<>> /\ nalloc = TableNelts /\ each = NotLooping /\ edits = 0
    BY DEF InputInit, TableInit
  <2>2. LoopGood(each, parms) /\ each \in LoopType
    BY <2>1, NotLoopingGood
  <2>3. nalloc \in Nat /\ nalloc > 0 /\ edits \in 0..MaxEdits /\ parms \in Seq(Entries)
        /\ Len(parms) <= nalloc
    BY <2>1, TableAssumption
  <2>4. QED
    BY <2>2, <2>3 DEF TableTypeOK, TableInv, LoopType
<1>6. Structure
  BY DEF InputInit, TableInit, Structure
<1>7. QuerySplit
  BY DEF InputInit, QuerySplit, SplitOK
<1>8. ReadInv
  <2>1. got = <<>> /\ entered = 0 /\ atEnd = FALSE
    BY DEF InputInit
  <2>2. SubSeq(request.body, 1, 0) = <<>>
    BY <1>1, BodyType
  <2>3. IsPrefix(<<>>, request.body)
    <3>1. 0 \in 0..Len(request.body)
      BY <1>1, BodyType
    <3>2. IsPrefix(SubSeq(request.body, 1, 0), request.body)
      BY <1>1, <3>1, BodyPrefix
    <3>3. QED
      BY <2>2, <3>2
  <2>4. Untouched(NewClient) /\ NewClient.at = 0
    BY DEF Untouched, NewClient
  <2>5. QED
    BY <1>3, <2>1, <2>2, <2>3, <2>4 DEF ReadInv, ReadOK
<1>9. WaitInv
  <2>1. ~ NewClient.waits /\ Modest(NewClient)
    BY <1>1, BodyType DEF NewClient, Modest
  <2>2. QED
    BY <1>3, <2>1 DEF WaitInv, WaitOK
<1>10. QED
  BY <1>1, <1>3, <1>4, <1>5, <1>6, <1>7, <1>8, <1>9 DEF IInv

-----------------------------------------------------------------------------
(* Handlers read.                                                          *)

\* The connection is set up, or was and has been read from.
LEMMA SetUpAgain ==
  ASSUME RequestTypeOK, NEW c \in Clients, NEW d \in Clients, NEW g \in Text, NEW e, NEW n,
         ReadOK(g, c, e, n), d.at = c.at,
         d.remaining = Announced \/ (d.remaining = c.remaining /\ c.read_length # 0)
  PROVE  ReadOK(g, d, e, n) /\ (n = 0 => SetUp(d))
<1>1. /\ c.at \in 0..Len(request.body) /\ c.remaining \in Int /\ d.remaining \in Int
      /\ request.body \in Seq(Bytes) /\ Len(request.body) \in Nat /\ Announced \in Nat
      /\ Announced = Len(request.body) + request.missing /\ request.missing \in Nat
  BY ClientAt, BodyType
<1>2. n = 0 => SetUp(d)
  BY <1>1 DEF ReadOK, Untouched, SetUp
<1>3. n = 0 => g = SubSeq(request.body, 1, d.at) \/ Stuck(d)
  <2> SUFFICES ASSUME n = 0, g # SubSeq(request.body, 1, c.at) PROVE Stuck(d)
    OBVIOUS
  <2>1. Stuck(c) /\ IsPrefix(g, request.body)
    BY DEF ReadOK
  <2>2. CASE d.remaining > 0
    BY <2>1, <2>2 DEF Stuck, Ended1
  <2>3. CASE ~ (d.remaining > 0)
    <3>1. Announced = 0
      BY <1>1, <2>1, <2>3 DEF Stuck
    <3>2. Len(request.body) = 0 /\ c.at = 0
      BY <1>1, <3>1
    <3>3. Len(g) <= Len(request.body)
      BY <2>1, Zenon DEF IsPrefix
    <3>4. g = <<>>
      BY <3>2, <3>3 DEF Text
    <3>5. SubSeq(request.body, 1, c.at) = <<>>
      BY <1>1, <3>2
    <3>6. QED
      BY <3>4, <3>5
  <2>4. QED
    BY <2>2, <2>3
<1>4. QED
  BY <1>2, <1>3 DEF ReadOK, Spent

\* What was read before and what is read now is the body up to where the
\* connection is.
LEMMA ReadThrough ==
  ASSUME RequestTypeOK, NEW d \in Clients, NEW g \in Text, NEW e, NEW n,
         ReadOK(g, d, e, n), n = 0 => SetUp(d),
         NEW r, ReadFrom(d, r), NEW raised \in BOOLEAN, raised => Stuck(r.client),
         NEW c, c.at = r.client.at, c.remaining = r.client.remaining,
         NEW h, h = IF raised THEN g ELSE g \o r.bytes
  PROVE  ReadOK(h, c, e, n) /\ h \in Text
<1> DEFINE at == r.client.at
           first == SubSeq(request.body, 1, d.at)
           all == SubSeq(request.body, 1, at)
           more == r.bytes
<1>1. /\ Onward(d, r.client) /\ more \in Text /\ r.client \in Clients
      /\ more = SubSeq(request.body, d.at + 1, at)
      /\ Len(more) = at - d.at
  BY DEF ReadFrom, Onward
<1>2. /\ d.at \in 0..Len(request.body) /\ at \in d.at..Len(request.body)
      /\ request.body \in Seq(Bytes) /\ Len(request.body) \in Nat
      /\ at \in 0..Len(request.body)
  <2>1. r.client.at \in 0..Len(request.body) /\ d.at \in 0..Len(request.body)
    BY <1>1, ClientAt
  <2>2. r.client.at >= d.at
    BY <1>1 DEF Onward
  <2>3. QED
    BY <2>1, <2>2, BodyType
<1>3. g = first => g \o more = all
  <2>1. SubSeq(request.body, 0 + 1, d.at) \o SubSeq(request.body, d.at + 1, at)
        = SubSeq(request.body, 0 + 1, at)
    BY <1>2, PiecesJoin
  <2>2. 0 + 1 = 1
    OBVIOUS
  <2>3. first \o SubSeq(request.body, d.at + 1, at) = all
    BY <2>1, <2>2
  <2> HIDE DEF first, all, more
  <2>4. first \o more = all
    BY <1>1, <2>3
  <2>5. QED
    BY <2>4
<1>4. Stuck(d) \/ Spent(d) => at = d.at /\ g \o more = g
  <2>1. Stuck(d) \/ Spent(d) => at = d.at
    BY <1>1 DEF Onward, Spent
  <2>2. at = d.at => more = <<>>
    BY <1>1, <1>2 DEF Text
  <2> HIDE DEF more
  <2>3. g \o <<>> = g
    BY DEF Text
  <2>4. QED
    BY <2>1, <2>2, <2>3
<1>5. h \in Text
  <2>1. g \o more \in Text
    <3> HIDE DEF more
    <3>1. QED
      BY <1>1, ConcatFacts DEF Text
  <2>2. QED
    BY <2>1
<1>6. IsPrefix(all, request.body) /\ IsPrefix(first, request.body)
  BY <1>2, BodyPrefix
<1>7. c.at = at /\ (Stuck(r.client) => Stuck(c)) /\ (SetUp(r.client) => SetUp(c))
      /\ (Stuck(r.client) => Spent(c)) /\ (Spent(d) => Spent(r.client))
      /\ (Spent(r.client) => Spent(c))
  <2>1. Spent(d) => Spent(r.client)
    BY <1>1 DEF Onward, Spent
  <2>2. QED
    BY <2>1 DEF Stuck, Ended1, SetUp, Spent
<1>8. (SetUp(d) => SetUp(r.client)) /\ (Stuck(d) => Stuck(r.client))
  BY <1>1 DEF Onward
<1>9. h = g \/ h = g \o more
  OBVIOUS
<1>10. ~ raised => h = g \o more
  OBVIOUS
<1>11. c.at = Len(request.body) => Spent(c)
  BY DEF Spent
<1>12. d.at = Len(request.body) => Spent(d)
  BY DEF Spent
<1> HIDE DEF all, first, more, at
<1>13. ASSUME n = 0 \/ request.type # "multipart" PROVE IsPrefix(h, request.body)
  <2>1. IsPrefix(g, request.body)
    BY <1>13 DEF ReadOK
  <2>2. g = first \/ Stuck(d) \/ Spent(d)
    BY <1>13 DEF ReadOK, first
  <2>3. QED
    BY <1>3, <1>4, <1>6, <1>9, <2>1, <2>2
<1>14. ASSUME n = 0
       PROVE  /\ Untouched(c) \/ SetUp(c)
              /\ h = SubSeq(request.body, 1, c.at) \/ Stuck(c)
              /\ e => h = request.body /\ c.at = Len(request.body)
  <2>1. SetUp(c)
    BY <1>7, <1>8, <1>14
  <2>2. g = first \/ Stuck(d)
    BY <1>14 DEF ReadOK, first
  <2>3. h = all \/ Stuck(c)
    BY <1>3, <1>7, <1>8, <1>10, <2>2
  <2>4. e => h = request.body /\ c.at = Len(request.body)
    <3>1. e => g = request.body /\ d.at = Len(request.body)
      BY <1>14 DEF ReadOK
    <3>2. QED
      BY <1>4, <1>7, <1>9, <1>12, <3>1
  <2>5. h = SubSeq(request.body, 1, c.at) \/ Stuck(c)
    BY <1>7, <2>3 DEF all
  <2>6. QED
    BY <2>1, <2>4, <2>5
<1>15. ASSUME request.type # "multipart"
       PROVE  h = SubSeq(request.body, 1, c.at) \/ Spent(c)
  <2>1. g = first \/ Spent(d)
    BY <1>15 DEF ReadOK, first
  <2>2. h = all \/ Spent(c)
    BY <1>3, <1>7, <1>10, <2>1
  <2>3. QED
    BY <1>7, <2>2 DEF all
<1>16. QED
  BY <1>5, <1>13, <1>14, <1>15 DEF ReadOK

LEMMA WithClientFields ==
  ASSUME GoodBuffer(buf), NEW c \in Clients, NEW f, f = WithClient(c)
  PROVE  GoodBuffer(f) /\ f.client = c
<1>1. f \in Buffers /\ f.begin = buf.begin /\ f.n = buf.n /\ f.client = c
  BY DEF WithClient, GoodBuffer, Buffers
<1>2. QED
  BY <1>1 DEF GoodBuffer

\* What is left to show of a handler's read: what it does to the connection.
LEMMA ReaderKeeps ==
  ASSUME IInv, NEW how, MayRead(how), NEW c \in Clients, buf' = WithClient(c),
         ReadOK(got', c, atEnd', entered), got' \in Text,
         atEnd' \in BOOLEAN, told' \in BOOLEAN
  PROVE  IInv'
<1>1. request' = request /\ UNCHANGED tableVars /\ pc' = pc /\ entered' = entered
      /\ apreq' = apreq /\ uploads' = uploads /\ upload_table' = upload_table
      /\ reads' = reads + 1 /\ reads < MaxReads
      /\ chunk' = chunk /\ jar' = jar
  BY DEF MayRead
<1>2. /\ RequestTypeOK /\ GoodBuffer(buf) /\ RestType /\ TableTypeOK /\ TableInv
      /\ Structure /\ QuerySplit /\ ReadInv /\ WaitInv
  BY DEF IInv
<1>3. GoodBuffer(buf') /\ buf'.client = c
  BY <1>2, WithClientFields
<1>4. RestType'
  <2>1. reads' \in 0..MaxReads
    BY <1>1, <1>2, InputAssumption DEF RestType
  <2>2. QED
    BY <1>1, <1>2, <2>1 DEF RestType
<1>5. TableTypeOK' /\ TableInv' /\ parms' = parms /\ edits' = edits /\ each' = each
  <2>1. TableTypeOK' /\ TableInv'
    BY <1>1, <1>2, TableSame
  <2>2. QED
    BY <1>1, <2>1 DEF tableVars
<1>6. Structure'
  BY <1>1, <1>2, <1>5 DEF Structure
<1>7. SplitOK(entered', edits', apreq'.nargs, parms')
  BY <1>1, <1>2, <1>5 DEF QuerySplit
<1>8. ReadOK(got', buf'.client, atEnd', entered')
  BY <1>1, <1>3
<1>9. WaitOK(buf'.client, entered', reads')
  <2>1. reads' # 0
    BY <1>1, <1>2 DEF RestType
  <2>2. QED
    BY <2>1 DEF WaitOK
<1>10. QED
  BY <1>1, <1>2, <1>3, <1>4, <1>5, <1>6, <1>7, <1>8, <1>9, Conclude

\* The same for a read that raises nothing.
LEMMA BytesThrough ==
  ASSUME RequestTypeOK, NEW d \in Clients, NEW g \in Text, NEW e, NEW n,
         ReadOK(g, d, e, n), n = 0 => SetUp(d), NEW r, ReadFrom(d, r)
  PROVE  ReadOK(g \o r.bytes, r.client, e, n) /\ g \o r.bytes \in Text
<1> DEFINE no == FALSE
           h == g \o r.bytes
           c == r.client
<1>1. no \in BOOLEAN /\ (no => Stuck(r.client))
  OBVIOUS
<1>2. h = IF no THEN g ELSE g \o r.bytes
  OBVIOUS
<1>3. c.at = r.client.at /\ c.remaining = r.client.remaining
  OBVIOUS
<1>4. QED
  <2> HIDE DEF no, h, c
  <2>1. ReadOK(h, c, e, n) /\ h \in Text
    BY <1>1, <1>2, <1>3, ReadThrough
  <2>2. QED
    BY <2>1 DEF h, c

\* The connection after ap_setup_client_block, and with another read_length.
LEMMA SetupFields ==
  ASSUME RequestTypeOK, NEW c \in Clients, NEW d, d = SetupClient(c)
  PROVE  /\ d \in Clients /\ d.at = c.at /\ d.remaining = Announced
         /\ d.read_length = c.read_length /\ d.waits = c.waits
<1>1. Announced \in Int
  BY BodyType
<1>2. d = [c EXCEPT !.remaining = Announced]
  BY DEF SetupClient
<1> DEFINE m == Announced
<1> HIDE DEF m
<1>3. m \in Int /\ d = [c EXCEPT !.remaining = m]
  BY <1>1, <1>2 DEF m
<1>4. /\ d \in Clients /\ d.at = c.at /\ d.remaining = m
      /\ d.read_length = c.read_length /\ d.waits = c.waits
  BY <1>3, RemainingFields
<1>5. QED
  BY <1>4 DEF m

LEMMA LengthFields ==
  ASSUME NEW c \in Clients, NEW long \in Nat, NEW d, d = [c EXCEPT !.read_length = long]
  PROVE  /\ d \in Clients /\ d.at = c.at /\ d.remaining = c.remaining
         /\ d.read_length = long /\ d.waits = c.waits
BY DEF Clients

LEMMA SetupKeeps ==
  ASSUME IInv, SetupClientBlock
  PROVE  IInv'
<1> DEFINE c == buf.client
           d == SetupClient(c)
<1>1. /\ RequestTypeOK /\ GoodBuffer(buf) /\ RestType /\ ReadInv
  BY DEF IInv
<1>2. c \in Clients
  BY <1>1, BufferFields DEF GoodBuffer
<1>3. d \in Clients /\ d.at = c.at /\ d.remaining = Announced
  BY <1>1, <1>2, SetupFields
<1>4. /\ MayRead("block") /\ buf' = WithClient(d)
      /\ got' = got /\ told' = told /\ atEnd' = atEnd
  BY DEF SetupClientBlock
<1>5. ReadOK(got, c, atEnd, entered)
  BY <1>1 DEF ReadInv
<1> HIDE DEF c, d
<1>6. got \in Text /\ told \in BOOLEAN /\ atEnd \in BOOLEAN
  BY <1>1 DEF RestType
<1>7. ReadOK(got, d, atEnd, entered)
  BY <1>1, <1>2, <1>3, <1>5, <1>6, SetUpAgain
<1>8. ReadOK(got', d, atEnd', entered)
  BY <1>4, <1>7
<1>9. QED
  BY <1>3, <1>4, <1>6, <1>8, ReaderKeeps

LEMMA BlockKeeps ==
  ASSUME IInv, NEW size \in Sizes, GetClientBlock(size)
  PROVE  IInv'
<1> DEFINE c == buf.client
           b == GetBlock(c, size)
<1>1. /\ RequestTypeOK /\ GoodBuffer(buf) /\ RestType /\ ReadInv
  BY DEF IInv
<1>2. c \in Clients /\ size \in Nat \ {0}
  BY <1>1, BufferFields, InputAssumption DEF GoodBuffer, GetClientBlock
<1>3. BlockOf(c, size, b) /\ Onward(c, b.client)
  <2> HIDE DEF c
  <2>1. QED
    BY <1>1, <1>2, GetBlockFacts, BlockOnward
<1>4. /\ MayRead("block") /\ buf' = WithClient(b.client)
      /\ got' = got \o b.bytes /\ told' = (told \/ b.failed) /\ atEnd' = atEnd
  BY DEF GetClientBlock
<1>5. ReadOK(got, c, atEnd, entered)
  BY <1>1 DEF ReadInv
<1>6. c.remaining <= 0 => b.bytes = <<>> /\ b.client = c
  BY DEF GetBlock
<1> HIDE DEF c, b
<1>7. /\ got \in Text /\ told \in BOOLEAN /\ atEnd \in BOOLEAN /\ b.failed \in BOOLEAN
      /\ b.client \in Clients
  BY <1>1, <1>3 DEF RestType, BlockOf
<1>8. ReadOK(got', b.client, atEnd, entered) /\ got' \in Text
  <2>1. CASE entered = 0 /\ ~ SetUp(c)
    <3>1. c.remaining <= 0
      BY <1>5, <2>1 DEF ReadOK, Untouched
    <3>2. b.bytes = <<>> /\ b.client = c
      BY <1>6, <3>1
    <3>3. got \o <<>> = got
      BY <1>7 DEF Text
    <3>4. got' = got
      BY <1>4, <3>2, <3>3
    <3>5. QED
      BY <1>5, <1>7, <3>2, <3>4
  <2>2. CASE entered = 0 => SetUp(c)
    <3>1. ReadFrom(c, b)
      BY <1>3 DEF ReadFrom, BlockOf
    <3>2. RequestTypeOK /\ c \in Clients /\ got \in Text
      BY <1>1, <1>2, <1>7
    <3>3. ReadOK(got \o b.bytes, b.client, atEnd, entered) /\ got \o b.bytes \in Text
      BY <1>5, <2>2, <3>1, <3>2, BytesThrough
    <3>4. QED
      BY <1>4, <3>3
  <2>3. QED
    BY <2>1, <2>2
<1> DEFINE d == b.client
<1>9. d \in Clients /\ buf' = WithClient(d)
  BY <1>4, <1>7
<1>10. ReadOK(got', d, atEnd', entered)
  BY <1>4, <1>8
<1> HIDE DEF d
<1>11. told' \in BOOLEAN /\ atEnd' \in BOOLEAN
  BY <1>4, <1>7
<1>12. QED
  BY <1>4, <1>8, <1>9, <1>10, <1>11, ReaderKeeps

LEMMA ReadKeeps ==
  ASSUME IInv, NEW size \in Sizes, Read(size)
  PROVE  IInv'
<1> DEFINE c == buf.client
           set == IF c.read_length = 0 THEN SetupClient(c) ELSE c
           cleared == ClearReadLength(set)
           len == IF size < 0 THEN cleared.remaining ELSE size
           r == ReadLoop(cleared, len)
           long == r.client.read_length + set.read_length
           d == [r.client EXCEPT !.read_length = long]
<1>1. /\ RequestTypeOK /\ GoodBuffer(buf) /\ RestType /\ ReadInv
  BY DEF IInv
<1>2. c \in Clients /\ size \in Int
  BY <1>1, BufferFields, InputAssumption DEF GoodBuffer
<1>3. MayRead("read") /\ ReadClientBlock(size)
  BY DEF Read
<1>4. \/ /\ ShouldRead(cleared)
         /\ buf' = WithClient(d)
         /\ got' = IF r.raised THEN got ELSE got \o r.bytes
         /\ told' = (told \/ r.raised)
         /\ atEnd' = atEnd
      \/ /\ ~ ShouldRead(cleared)
         /\ buf' = WithClient(set)
         /\ atEnd' = TRUE
         /\ got' = got /\ told' = told
  <2>1. \/ /\ ShouldRead(cleared)
           /\ buf' = WithClient([r.client EXCEPT !.read_length = @ + set.read_length])
           /\ got' = IF r.raised THEN got ELSE got \o r.bytes
           /\ told' = (told \/ r.raised)
           /\ UNCHANGED atEnd
        \/ /\ ~ ShouldRead(cleared)
           /\ buf' = WithClient(set)
           /\ atEnd' = TRUE
           /\ UNCHANGED <<got, told>>
    BY <1>3, Zenon DEF ReadClientBlock
  <2> HIDE DEF set, cleared, r, c
  <2>2. d = [r.client EXCEPT !.read_length = @ + set.read_length]
    OBVIOUS
  <2> HIDE DEF d
  <2>3. QED
    BY <2>1, <2>2
<1>5. ReadOK(got, c, atEnd, entered)
  BY <1>1 DEF ReadInv
<1>6. got \in Text /\ told \in BOOLEAN /\ atEnd \in BOOLEAN /\ entered \in Nat
  BY <1>1 DEF RestType
<1> HIDE DEF c
<1>7. /\ set \in Clients /\ set.at = c.at
      /\ set.remaining = Announced \/ (set.remaining = c.remaining /\ c.read_length # 0)
  <2>1. CASE c.read_length = 0
    BY <1>1, <1>2, <2>1, SetupFields
  <2>2. CASE c.read_length # 0
    BY <1>2, <2>2
  <2>3. QED
    BY <2>1, <2>2
<1> HIDE DEF set
<1>8. ReadOK(got, set, atEnd, entered) /\ (entered = 0 => SetUp(set))
  BY <1>1, <1>2, <1>5, <1>6, <1>7, SetUpAgain
<1>9. /\ cleared \in Clients /\ cleared.at = set.at /\ cleared.remaining = set.remaining
      /\ cleared.read_length = 0
  BY <1>7, LengthFields DEF ClearReadLength
<1>10. set.at \in Int /\ set.remaining \in Int /\ set.read_length \in Nat
       /\ set.at \in 0..Len(request.body)
  BY <1>7, ClientAt
<1> HIDE DEF cleared
<1>11. ReadOK(got, cleared, atEnd, entered) /\ (entered = 0 => SetUp(cleared))
  BY <1>8, <1>9 DEF ReadOK, SetUp, Untouched, Stuck, Ended1, Spent
<1>12. CASE /\ ShouldRead(cleared)
            /\ buf' = WithClient(d)
            /\ got' = IF r.raised THEN got ELSE got \o r.bytes
            /\ told' = (told \/ r.raised)
            /\ atEnd' = atEnd
  <2>1. len \in Int
    BY <1>2, <1>9, <1>10
  <2> HIDE DEF len
  <2>2. ReadFrom(cleared, r) /\ r.raised \in BOOLEAN /\ (r.raised => Stuck(r.client))
    BY <1>1, <1>9, <2>1, ReadLoopFacts
  <2> HIDE DEF r
  <2>3. r.client \in Clients
    BY <2>2 DEF ReadFrom, Onward
  <2>4. long \in Nat
    BY <1>10, <2>3, ClientAt
  <2> HIDE DEF long
  <2>5. d \in Clients /\ d.at = r.client.at /\ d.remaining = r.client.remaining
    BY <2>3, <2>4, LengthFields
  <2> HIDE DEF d
  <2> DEFINE h == IF r.raised THEN got ELSE got \o r.bytes
  <2>6. h = IF r.raised THEN got ELSE got \o r.bytes
    OBVIOUS
  <2> HIDE DEF h
  <2>7. ReadOK(h, d, atEnd, entered) /\ h \in Text
    BY <1>1, <1>6, <1>9, <1>11, <2>2, <2>5, <2>6, ReadThrough
  <2>8. ReadOK(got', d, atEnd', entered) /\ got' \in Text
    BY <1>12, <2>6, <2>7
  <2>9. told' \in BOOLEAN /\ atEnd' \in BOOLEAN
    BY <1>6, <1>12, <2>2
  <2>10. QED
    BY <1>3, <1>12, <2>5, <2>8, <2>9, ReaderKeeps
<1>13. CASE /\ ~ ShouldRead(cleared)
            /\ buf' = WithClient(set)
            /\ atEnd' = TRUE
            /\ got' = got /\ told' = told
  <2>1. set.remaining <= 0
    BY <1>9, <1>10, <1>13 DEF ShouldRead
  <2>2. entered = 0 => set.at = Len(request.body) /\ got = request.body
    <3>1. SUFFICES ASSUME entered = 0
                   PROVE  set.at = Len(request.body) /\ got = request.body
      OBVIOUS
    <3>2. set.at = Len(request.body)
      BY <1>8, <1>10, <2>1, <3>1, BodyType, <1>1 DEF SetUp
    <3>3. ~ Stuck(set)
      BY <1>10, <2>1 DEF Stuck
    <3>4. got = SubSeq(request.body, 1, Len(request.body))
      BY <1>8, <3>1, <3>2, <3>3 DEF ReadOK
    <3>5. SubSeq(request.body, 1, Len(request.body)) = request.body
      BY <1>1, BodyType
    <3>6. QED
      BY <3>2, <3>4, <3>5
  <2>3. ReadOK(got, set, TRUE, entered)
    BY <1>8, <2>2 DEF ReadOK
  <2>4. ReadOK(got', set, atEnd', entered)
    BY <1>13, <2>3
  <2>5. got' \in Text /\ told' \in BOOLEAN /\ atEnd' \in BOOLEAN
    BY <1>6, <1>13
  <2>6. QED
    BY <1>3, <1>7, <1>13, <2>4, <2>5, ReaderKeeps
<1>14. QED
  BY <1>4, <1>12, <1>13

-----------------------------------------------------------------------------
(* Handlers use what was parsed.                                           *)

\* A step that leaves the connection and the table alone.
LEMMA OthersKeep ==
  ASSUME IInv, UNCHANGED <<request, buf, tableVars, apreq, got, reads, atEnd, entered>>,
         RestType', Structure'
  PROVE  IInv'
<1>1. /\ request' = request /\ buf' = buf /\ apreq' = apreq /\ got' = got
      /\ reads' = reads /\ atEnd' = atEnd /\ entered' = entered /\ UNCHANGED tableVars
  OBVIOUS
<1>2. /\ RequestTypeOK /\ GoodBuffer(buf) /\ TableTypeOK /\ TableInv
      /\ QuerySplit /\ ReadInv /\ WaitInv
  BY DEF IInv
<1>3. TableTypeOK' /\ TableInv' /\ parms' = parms /\ edits' = edits
  <2>1. TableTypeOK' /\ TableInv'
    BY <1>1, <1>2, TableSame
  <2>2. QED
    BY <1>1, <2>1 DEF tableVars
<1>4. GoodBuffer(buf')
  BY <1>1, <1>2
<1>5. SplitOK(entered', edits', apreq'.nargs, parms')
  BY <1>1, <1>2, <1>3 DEF QuerySplit
<1>6. ReadOK(got', buf'.client, atEnd', entered')
  BY <1>1, <1>2 DEF ReadInv
<1>7. WaitOK(buf'.client, entered', reads')
  BY <1>1, <1>2 DEF WaitInv
<1>8. QED
  BY <1>1, <1>2, <1>3, <1>4, <1>5, <1>6, <1>7, Conclude

LEMMA UploadsKeep ==
  ASSUME IInv, Uploads
  PROVE  IInv'
<1> DEFINE names == {u.name : u \in ToSet(uploads)} \ {NoText}
           table == [name \in names |-> LastNamed(uploads, name)]
<1>1. RestType /\ Structure
  BY DEF IInv
<1>2. /\ UNCHANGED <<request, tableVars, pc, buf, apreq, uploads, chunk, jar, got, reads, atEnd,
                     entered, told>>
      /\ upload_table' = table /\ pc = "handler"
  BY Zenon DEF Uploads, LastNamed
<1>3. table \in [DOMAIN table -> 1..Len(uploads)]
  <2>1. ASSUME NEW name \in names PROVE LastNamed(uploads, name) \in 1..Len(uploads)
    <3>1. uploads \in Seq(Upload) /\ name \in {u.name : u \in ToSet(uploads)}
      BY <1>1 DEF RestType
    <3>2. QED
      BY <3>1, LastNamedType
  <2> HIDE DEF names
  <2>2. QED
    BY <2>1
<1> HIDE DEF table
<1>4. RestType'
  BY <1>1, <1>2, <1>3 DEF RestType
<1>5. Structure'
  BY <1>1, <1>2 DEF Structure, tableVars
<1>6. QED
  BY <1>2, <1>4, <1>5, OthersKeep

LEMMA CookiesKeep ==
  ASSUME IInv, Cookies
  PROVE  IInv'
<1> DEFINE cookies == CookieParse(request.cookie)
           names == {c.name : c \in ToSet(cookies)}
           table == [name \in names |-> cookies[LastNamed(cookies, name)].values]
<1>1. RestType /\ Structure /\ RequestTypeOK
  BY DEF IInv
<1>2. /\ UNCHANGED <<request, tableVars, pc, buf, apreq, uploads, upload_table, chunk, got,
                     reads, atEnd, entered, told>>
      /\ jar' = table
  BY Zenon DEF Cookies, LastNamed
<1>3. cookies \in Seq(CookieRecord)
  BY <1>1, CookieParseType DEF RequestTypeOK
<1> HIDE DEF cookies
<1>4. table \in [DOMAIN table -> Seq(Text)]
  <2>1. ASSUME NEW name \in names PROVE cookies[LastNamed(cookies, name)].values \in Seq(Text)
    <3>1. LastNamed(cookies, name) \in 1..Len(cookies)
      BY <1>3, LastNamedType
    <3>2. cookies[LastNamed(cookies, name)] \in CookieRecord
      BY <1>3, <3>1
    <3>3. QED
      BY <3>2 DEF CookieRecord
  <2> HIDE DEF names
  <2>2. QED
    BY <2>1
<1> HIDE DEF table
<1>5. RestType'
  BY <1>1, <1>2, <1>4 DEF RestType
<1>6. Structure'
  BY <1>1, <1>2 DEF Structure, tableVars
<1>7. QED
  BY <1>2, <1>5, <1>6, OthersKeep

LEMMA EditTableKeeps ==
  ASSUME IInv, EditTable
  PROVE  IInv'
<1>1. /\ RequestTypeOK /\ GoodBuffer(buf) /\ RestType /\ TableTypeOK /\ TableInv
      /\ Structure /\ QuerySplit /\ ReadInv /\ WaitInv
  BY DEF IInv
<1>2. /\ request' = request /\ pc' = pc /\ buf' = buf /\ apreq' = apreq
      /\ uploads' = uploads /\ upload_table' = upload_table /\ chunk' = chunk
      /\ jar' = jar /\ got' = got /\ reads' = reads /\ atEnd' = atEnd
      /\ entered' = entered /\ told' = told
      /\ pc = "handler" /\ apreq.parsed /\ TableNext
  BY DEF EditTable, inputVars
<1>3. TableTypeOK' /\ TableInv'
  BY <1>1, <1>2, TableNextKeeps
<1>4. edits' = 0 => edits = 0 /\ parms' = parms
  <2>1. edits \in Nat
    BY <1>1 DEF TableTypeOK
  <2>2. edits' = edits + 1 \/ (edits' = edits /\ parms' = parms)
    BY <1>2 DEF TableNext, ParamSet, ParamSetMulti, ParamUnset, ParamClear, Edit, EachBegin,
       EachNext, EachEnd
  <2>3. QED
    BY <2>1, <2>2
<1>5. RestType'
  BY <1>1, <1>2 DEF RestType
<1>6. Structure'
  BY <1>1, <1>2 DEF Structure
<1>7. SplitOK(entered', edits', apreq'.nargs, parms')
  BY <1>1, <1>2, <1>4 DEF QuerySplit, SplitOK
<1>8. ReadOK(got', buf'.client, atEnd', entered')
  BY <1>1, <1>2 DEF ReadInv
<1>9. WaitOK(buf'.client, entered', reads')
  BY <1>1, <1>2 DEF WaitInv
<1>10. GoodBuffer(buf')
  BY <1>1, <1>2
<1>11. QED
  BY <1>1, <1>2, <1>3, <1>5, <1>6, <1>7, <1>8, <1>9, <1>10, Conclude

-----------------------------------------------------------------------------
(* The parse.                                                              *)

\* Reading on from c does not ask for more than there is.
StillModest(c, d) ==
  request.missing = 0 /\ Modest(c) => d.waits = c.waits /\ Modest(d)

\* What ParseBody returns: the connection, if it was read from, is at the end
\* of the body.
BodyGood(b) ==
  /\ b.status \in Statuses \cup {Reading} /\ b.parms \in Seq(Entries) /\ b.client \in Clients
  /\ b.status = Reading => request.type = "multipart"
  /\ b.client.at = buf.client.at \/ Spent(b.client)
  /\ request.missing = 0 /\ buf.client = NewClient => ~ b.client.waits /\ Modest(b.client)
LEMMA EndsGood ==
  ASSUME NEW b, NEW status \in Statuses \cup {Reading}, NEW c \in Clients,
         b.status = status, b.parms = <<>>, b.client = c,
         status = Reading => request.type = "multipart", c.at = buf.client.at,
         request.missing = 0 /\ buf.client = NewClient => ~ c.waits /\ Modest(c)
  PROVE  BodyGood(b)
<1>1. <<>> \in Seq(Entries)
  OBVIOUS
<1>2. QED
  BY <1>1 DEF BodyGood

LEMMA ParseBodyGood ==
  ASSUME RequestTypeOK, GoodBuffer(buf), NEW body, body = ParseBody
  PROVE  BodyGood(body)
<1> DEFINE old == buf.client
           client == SetupClient(old)
           r == UtilRead(client)
           Ends(status, c) == [status |-> status, parms |-> <<>>, client |-> c]
           form == SplitToParms(CString(r.bytes))
           done == [Ends(OK, r.client) EXCEPT !.parms = form]
<1>1. old \in Clients
  BY BufferFields DEF GoodBuffer
<1>2. /\ client \in Clients /\ client.at = old.at /\ client.remaining = Announced
      /\ client.waits = old.waits
  BY <1>1, SetupFields
<1>3. SetUp(client)
  <2>1. old.at \in Nat /\ Announced \in Int
    BY <1>1, ClientAt, BodyType
  <2>2. QED
    BY <1>2, <2>1 DEF SetUp
<1>4. \/ body \in {Ends(OK, old), Ends(HTTP_INTERNAL_SERVER_ERROR, old),
                   Ends(HTTP_LENGTH_REQUIRED, old), Ends(OK, client),
                   Ends(HTTP_REQUEST_ENTITY_TOO_LARGE, client), Ends(DECLINED, client)}
      \/ body = done
      \/ body = Ends(Reading, client) /\ request.type = "multipart"
  <2>1. request.type \in {"form", "multipart", "noboundary", "other"}
    BY DEF RequestTypeOK
  <2>2. body =
      IF request.method # "POST" THEN Ends(OK, old)
      ELSE IF request.type = "other" THEN Ends(HTTP_INTERNAL_SERVER_ERROR, old)
      ELSE IF SetupFails THEN Ends(HTTP_LENGTH_REQUIRED, old)
      ELSE IF ~ ShouldRead(client) THEN Ends(OK, client)
      ELSE IF TooLarge(client.remaining) THEN Ends(HTTP_REQUEST_ENTITY_TOO_LARGE, client)
      ELSE IF request.type = "form" THEN done
      ELSE IF request.type = "noboundary" THEN Ends(DECLINED, client)
      ELSE Ends(Reading, client)
    BY Zenon DEF ParseBody
  <2> HIDE DEF Ends, done, client, old
  <2>3. QED
    BY <2>1, <2>2
<1> HIDE DEF r
\* The connection before, and when it was set up.
<1>5. request.missing = 0 /\ old = NewClient =>
        /\ ~ old.waits /\ Modest(old) /\ ~ client.waits /\ Modest(client)
  <2>1. Announced = Len(request.body) + request.missing /\ Len(request.body) \in Nat
    BY BodyType
  <2>2. NewClient.at = 0 /\ NewClient.remaining = 0 /\ NewClient.waits = FALSE
    BY DEF NewClient
  <2> HIDE DEF client, old
  <2>3. QED
    BY <1>2, <2>1, <2>2 DEF Modest
<1>6. ASSUME NEW status \in Statuses \cup {Reading}, NEW c \in {old, client},
             status = Reading => request.type = "multipart", body = Ends(status, c)
      PROVE  BodyGood(body)
  <2>1. body.status = status /\ body.parms = <<>> /\ body.client = c
    BY <1>6
  <2> HIDE DEF client, Ends
  <2>2. c \in Clients /\ c.at = buf.client.at
    BY <1>1, <1>2
  <2>3. request.missing = 0 /\ buf.client = NewClient => ~ c.waits /\ Modest(c)
    BY <1>5
  <2>4. status = Reading => request.type = "multipart"
    BY <1>6
  <2>5. QED
    BY <2>1, <2>2, <2>3, <2>4, EndsGood
<1>7. CASE body = done
  <2> HIDE DEF client
  <2>1. Onward(client, r.client) /\ r.bytes \in Text /\ Spent(r.client)
    BY <1>2, <1>3, UtilReadFacts DEF r
  <2>2. form \in Seq(Entries)
    BY <2>1, CStringType, SplitToParmsType
  <2> HIDE DEF form
  <2>3. body.status = OK /\ body.parms = form /\ body.client = r.client
    BY <1>7
  <2>4. body.client \in Clients /\ Spent(body.client)
    BY <2>1, <2>3 DEF Onward
  <2>5. request.missing = 0 /\ old = NewClient => ~ body.client.waits /\ Modest(body.client)
    <3> HIDE DEF old
    <3>1. QED
      BY <1>5, <2>1, <2>3 DEF Onward
  <2>6. OK \in Statuses /\ OK # Reading
    BY InputAssumption DEF Statuses
  <2>7. QED
    BY <2>2, <2>3, <2>4, <2>5, <2>6 DEF BodyGood
<1>8. CASE body = Ends(Reading, client) /\ request.type = "multipart"
  <2> HIDE DEF client, old, Ends
  <2>1. Reading \in Statuses \cup {Reading} /\ client \in {old, client}
    OBVIOUS
  <2>2. QED
    BY <1>6, <1>8, <2>1
<1>9. CASE body \in {Ends(OK, old), Ends(HTTP_INTERNAL_SERVER_ERROR, old),
                     Ends(HTTP_LENGTH_REQUIRED, old), Ends(OK, client),
                     Ends(HTTP_REQUEST_ENTITY_TOO_LARGE, client), Ends(DECLINED, client)}
  <2> HIDE DEF client, old, Ends
  <2>1. PICK status \in Statuses, c \in {old, client} : body = Ends(status, c)
    BY <1>9 DEF Statuses
  <2>2. status # Reading /\ status \in Statuses \cup {Reading}
    BY InputAssumption
  <2>3. QED
    BY <1>6, <2>1, <2>2
<1>10. QED
  BY <1>4, <1>7, <1>8, <1>9

\* The query string comes first in the table that a first parse makes.
LEMMA SplitFirst ==
  ASSUME RequestTypeOK, NEW more \in Seq(Entries)
  PROVE  LET query == SplitToParms(request.args)
         IN  /\ query \in Seq(Entries)
             /\ Len(query) <= Len(query \o more)
             /\ SubSeq(query \o more, 1, Len(query)) = query
             /\ request.args = <<>> => Len(query) = 0
<1> DEFINE query == SplitToParms(request.args)
<1>1. query \in Seq(Entries) /\ (request.args = <<>> => query = <<>>)
  BY SplitToParmsType DEF RequestTypeOK
<1> HIDE DEF query
<1>2. Len(query) <= Len(query \o more) /\ SubSeq(query \o more, 1, Len(query)) = query
  BY <1>1
<1>3. QED
  BY <1>1, <1>2 DEF query

LEMMA ParseKeeps ==
  ASSUME IInv, Parse
  PROVE  IInv'
<1> DEFINE query == SplitToParms(request.args)
           body == ParseBody
           bp == body.parms
           t == parms \o query \o bp
           nargs == IF request.args = <<>> THEN apreq.nargs ELSE CountQuery(query, bp)
           counted == [apreq EXCEPT !.nargs = nargs]
<1>1. /\ RequestTypeOK /\ GoodBuffer(buf) /\ RestType /\ TableTypeOK /\ TableInv
      /\ Structure /\ QuerySplit /\ ReadInv /\ WaitInv
  BY DEF IInv
<1>2. /\ ~ apreq.parsed /\ entered' = entered + 1 /\ Become(t)
      /\ request' = request /\ each' = each /\ edits' = edits /\ uploads' = uploads
      /\ upload_table' = upload_table /\ chunk' = chunk /\ jar' = jar /\ got' = got
      /\ reads' = reads /\ atEnd' = atEnd
      /\ \/ /\ body.status = Reading /\ pc' = "part" /\ buf' = NewBuffer(body.client)
            /\ apreq' = counted /\ told' = told
         \/ /\ body.status # Reading
            /\ apreq' = [counted EXCEPT !.parsed = TRUE, !.status = body.status]
            /\ told' = (told \/ body.status # OK)
            /\ buf' = WithClient(body.client) /\ pc' = pc
  <2> HIDE DEF body
  <2>1. counted = [apreq EXCEPT !.nargs = IF request.args = <<>> THEN @
                                          ELSE CountQuery(query, bp)]
    OBVIOUS
  <2> HIDE DEF counted
  <2>2. QED
    BY <2>1, Zenon DEF Parse, body
<1>3. BodyGood(body)
  BY <1>1, ParseBodyGood
<1> HIDE DEF body
<1>4. bp \in Seq(Entries) /\ body.client \in Clients /\ body.status \in Statuses \cup {Reading}
  BY <1>3 DEF BodyGood
<1>5. query \in Seq(Entries)
  BY <1>1, <1>4, SplitFirst
<1> DEFINE with == query \o bp
<1>6. /\ Len(query) <= Len(with) /\ SubSeq(with, 1, Len(query)) = query
      /\ (request.args = <<>> => Len(query) = 0)
  BY <1>1, <1>4, SplitFirst
<1> HIDE DEF bp, query
<1>7. parms \in Seq(Entries) /\ apreq \in Apreq /\ told \in BOOLEAN /\ entered \in Nat
  BY <1>1 DEF TableTypeOK, RestType
<1>8. t \in Seq(Entries)
  BY <1>4, <1>5, <1>7, ConcatFacts
<1>9. nargs \in Nat
  <2>1. parms \o query \in Seq(Entries)
    BY <1>5, <1>7, ConcatFacts
  <2>2. apreq.nargs \in Nat
    BY <1>7 DEF Apreq
  <2>3. QED
    BY <2>1, <2>2 DEF CountQuery
<1>10. each = NotLooping /\ edits = 0
  BY <1>1, <1>2 DEF Structure
<1> HIDE DEF t
<1>11. TableTypeOK' /\ TableInv' /\ parms' = t
  BY <1>1, <1>2, <1>8, <1>10, TableAfter
<1>12. SplitOK(entered', edits', nargs, parms')
  <2>1. CASE entered = 0
    <3>1. parms = <<>> /\ apreq.nargs = 0
      BY <1>1, <2>1 DEF Structure
    <3>2. t = with
      <4>1. parms \o query = query
        BY <1>5, <3>1
      <4>2. QED
        BY <4>1 DEF t
    <3>3. nargs = Len(query)
      BY <1>5, <1>6, <3>1 DEF CountQuery
    <3> HIDE DEF nargs, with
    <3>4. QED
      BY <1>6, <1>11, <3>2, <3>3 DEF SplitOK, query
  <2>2. CASE entered # 0
    <3>1. entered' # 1
      BY <1>2, <1>7, <2>2
    <3>2. QED
      BY <3>1 DEF SplitOK
  <2>3. QED
    BY <2>1, <2>2
<1> HIDE DEF nargs
<1>13. counted \in Apreq /\ counted.nargs = nargs
  BY <1>7, <1>9 DEF Apreq
<1> HIDE DEF counted
<1>14. GoodBuffer(buf') /\ buf'.client = body.client
  BY <1>1, <1>2, <1>4, WithClientFields, NewBufferGood
<1>15. apreq' \in Apreq /\ apreq'.nargs = nargs
  <2>1. CASE body.status = Reading
    BY <1>2, <1>13, <2>1
  <2>2. CASE body.status # Reading
    <3> DEFINE status == body.status
    <3>1. apreq' = [counted EXCEPT !.parsed = TRUE, !.status = status] /\ status \in Statuses
      BY <1>2, <1>4, <2>2
    <3> HIDE DEF status
    <3>2. QED
      BY <1>13, <3>1 DEF Apreq
  <2>3. QED
    BY <2>1, <2>2
<1>16. RestType'
  <2>1. pc' \in {"handler", "part", "chunk", "hook"}
    BY <1>1, <1>2 DEF RestType
  <2>2. told' \in BOOLEAN
    <3>1. (told \/ body.status # OK) \in BOOLEAN /\ told \in BOOLEAN
      BY <1>7
    <3>2. told' = told \/ told' = (told \/ body.status # OK)
      BY <1>2
    <3>3. QED
      BY <3>1, <3>2
  <2>3. entered' \in Nat
    BY <1>2, <1>7
  <2>4. QED
    BY <1>1, <1>2, <1>15, <2>1, <2>2, <2>3 DEF RestType
<1>17. Structure'
  <2>1. entered' # 0
    BY <1>2, <1>7
  <2>2. pc' # "handler" => request.type = "multipart"
    BY <1>1, <1>2, <1>3 DEF Structure, BodyGood
  <2>3. pc' = pc \/ pc' = "part"
    BY <1>2
  <2>4. QED
    BY <1>1, <1>2, <1>10, <2>1, <2>2, <2>3 DEF Structure
<1>18. ReadOK(got', buf'.client, atEnd', entered')
  <2>1. entered' # 0
    BY <1>2, <1>7
  <2>2. ASSUME request.type # "multipart"
        PROVE  /\ IsPrefix(got, request.body)
               /\ got = SubSeq(request.body, 1, body.client.at) \/ Spent(body.client)
    <3>1. /\ IsPrefix(got, request.body)
          /\ got = SubSeq(request.body, 1, buf.client.at) \/ Spent(buf.client)
      BY <1>1, <2>2 DEF ReadInv, ReadOK
    <3>2. body.client.at = buf.client.at \/ Spent(body.client)
      BY <1>3 DEF BodyGood
    <3>3. QED
      BY <3>1, <3>2 DEF Spent
  <2>3. QED
    BY <1>2, <1>14, <2>1, <2>2 DEF ReadOK
<1>19. WaitOK(buf'.client, entered', reads')
  <2>1. SUFFICES ASSUME request.missing = 0, entered' <= 1, reads' = 0
                 PROVE  ~ body.client.waits /\ Modest(body.client) /\ entered' # 0
    BY <1>14 DEF WaitOK
  <2>2. entered = 0 /\ reads = 0 /\ entered' # 0
    BY <1>2, <1>7, <2>1
  <2>3. buf.client = NewClient
    BY <1>1, <2>1, <2>2 DEF WaitInv, WaitOK
  <2>4. QED
    BY <1>3, <2>1, <2>2, <2>3 DEF BodyGood
<1>20. SplitOK(entered', edits', apreq'.nargs, parms')
  BY <1>12, <1>15
<1>21. QED
  BY <1>1, <1>2, <1>11, <1>14, <1>16, <1>17, <1>18, <1>19, <1>20, Conclude

-----------------------------------------------------------------------------
(* The parts of a multipart body.                                          *)

LEMMA OnwardModest ==
  ASSUME NEW f, BufferOn(buf, f)
  PROVE  GoodBuffer(f) /\ f.client \in Clients /\ StillModest(buf.client, f.client)
BY DEF BufferOn, Onward, StillModest

LEMMA ParserKeeps ==
  ASSUME IInv, pc # "handler",
         UNCHANGED <<request, each, edits, jar, got, reads, atEnd, entered>>,
         GoodBuffer(buf'), StillModest(buf.client, buf'.client),
         pc' \in {"handler", "part", "chunk", "hook"}, apreq' \in Apreq,
         apreq'.nargs = apreq.nargs, uploads' \in Seq(Upload),
         upload_table' \in [DOMAIN upload_table' -> 1..Len(uploads')],
         chunk' \in Text, told' \in BOOLEAN,
         pc' \in {"chunk", "hook"} => uploads' # <<>>,
         pc' = "hook" => Last(uploads').name \in DOMAIN upload_table',
         \/ UNCHANGED <<parms, nalloc>>
         \/ \E e \in Entries : Become(Append(parms, e))
  PROVE  IInv'
<1>1. /\ RequestTypeOK /\ GoodBuffer(buf) /\ RestType /\ TableTypeOK /\ TableInv
      /\ Structure /\ QuerySplit /\ ReadInv /\ WaitInv
  BY DEF IInv
<1>2. /\ entered # 0 /\ request.type = "multipart" /\ each = NotLooping /\ edits = 0
      /\ parms \in Seq(Entries) /\ entered \in Nat
  BY <1>1 DEF Structure, TableTypeOK, RestType
<1>3. request' = request /\ each' = each /\ edits' = edits /\ jar' = jar /\ got' = got
      /\ reads' = reads /\ atEnd' = atEnd /\ entered' = entered
  OBVIOUS
<1>4. /\ TableTypeOK' /\ TableInv' /\ parms' \in Seq(Entries) /\ Len(parms) <= Len(parms')
      /\ \A n \in 0..Len(parms) : SubSeq(parms', 1, n) = SubSeq(parms, 1, n)
  <2>1. CASE UNCHANGED <<parms, nalloc>>
    <3>1. UNCHANGED tableVars
      BY <1>3, <2>1 DEF tableVars
    <3>2. TableTypeOK' /\ TableInv'
      BY <1>1, <3>1, TableSame
    <3>3. QED
      BY <1>2, <2>1, <3>2
  <2>2. ASSUME NEW e \in Entries, Become(Append(parms, e))
        PROVE  /\ TableTypeOK' /\ TableInv' /\ parms' \in Seq(Entries)
               /\ Len(parms) <= Len(parms')
               /\ \A n \in 0..Len(parms) : SubSeq(parms', 1, n) = SubSeq(parms, 1, n)
    <3> DEFINE t == Append(parms, e)
    <3>1. t \in Seq(Entries) /\ Len(parms) <= Len(t)
      BY <1>2
    <3>2. \A n \in 0..Len(parms) : SubSeq(t, 1, n) = SubSeq(parms, 1, n)
      BY <1>2
    <3>3. Become(t)
      BY <2>2
    <3> HIDE DEF t
    <3>4. TableTypeOK' /\ TableInv' /\ parms' = t
      BY <1>1, <1>2, <1>3, <3>1, <3>3, TableAfter
    <3>5. QED
      BY <3>1, <3>2, <3>4
  <2>3. QED
    BY <2>1, <2>2
<1>5. RestType'
  BY <1>1, <1>3 DEF RestType
<1>6. Structure'
  BY <1>2, <1>3 DEF Structure
<1>7. SplitOK(entered', edits', apreq'.nargs, parms')
  <2> DEFINE q == apreq.nargs
             query == SplitToParms(request.args)
  <2>1. SUFFICES ASSUME entered = 1
                 PROVE  q = Len(query) /\ q <= Len(parms') /\ SubSeq(parms', 1, q) = query
    BY <1>2, <1>3 DEF SplitOK
  <2>2. q = Len(query) /\ q <= Len(parms) /\ SubSeq(parms, 1, q) = query
    BY <1>1, <1>2, <2>1 DEF QuerySplit, SplitOK
  <2>3. q \in Nat /\ Len(parms) \in Nat /\ Len(parms') \in Nat
    BY <1>1, <1>2, <1>4 DEF RestType, Apreq
  <2> HIDE DEF q, query
  <2>4. q \in 0..Len(parms)
    BY <2>2, <2>3
  <2>5. SubSeq(parms', 1, q) = SubSeq(parms, 1, q)
    BY <1>4, <2>4
  <2>6. q <= Len(parms')
    BY <1>4, <2>2, <2>3
  <2>7. QED
    BY <2>2, <2>5, <2>6
<1>8. ReadOK(got', buf'.client, atEnd', entered')
  BY <1>2, <1>3 DEF ReadOK
<1>9. WaitOK(buf'.client, entered', reads')
  BY <1>1, <1>2, <1>3 DEF WaitInv, WaitOK, StillModest
<1>10. QED
  BY <1>1, <1>3, <1>4, <1>5, <1>6, <1>7, <1>8, <1>9, Conclude

\* What the parser knows when it goes on.
LEMMA InParser ==
  ASSUME IInv, pc # "handler"
  PROVE  /\ RequestTypeOK /\ GoodBuffer(buf) /\ buf \in Buffers /\ buf.client \in Clients
         /\ apreq \in Apreq /\ apreq.nargs \in Nat
         /\ uploads \in Seq(Upload) /\ upload_table \in [DOMAIN upload_table -> 1..Len(uploads)]
         /\ chunk \in Text /\ told \in BOOLEAN
         /\ pc \in {"part", "chunk", "hook"}
         /\ pc \in {"chunk", "hook"} => uploads # <<>>
         /\ pc = "hook" => Last(uploads).name \in DOMAIN upload_table
<1>1. GoodBuffer(buf) /\ RestType /\ Structure /\ RequestTypeOK
  BY DEF IInv
<1>2. buf \in Buffers /\ buf.client \in Clients
  BY <1>1, BufferFields DEF GoodBuffer
<1>3. QED
  BY <1>1, <1>2 DEF RestType, Structure, Apreq

LEMMA EndedFields ==
  ASSUME apreq \in Apreq, told \in BOOLEAN, NEW status \in Statuses, Ended(status)
  PROVE  /\ apreq' \in Apreq /\ apreq'.nargs = apreq.nargs /\ told' \in BOOLEAN
         /\ pc' = "handler"
<1>1. apreq' \in Apreq /\ apreq'.nargs = apreq.nargs
  BY DEF Ended, Parsed, Apreq
<1>2. told' = (told \/ status # OK) /\ pc' = "handler"
  BY DEF Ended, Parsed
<1>3. QED
  BY <1>1, <1>2

\* The parse ends where the buffer is f, and nothing else is done.
LEMMA EndKeeps ==
  ASSUME IInv, pc # "handler", NEW status \in Statuses, Ended(status),
         NEW f, buf' = f, GoodBuffer(f), StillModest(buf.client, f.client),
         UNCHANGED <<request, tableVars, uploads, upload_table, chunk, jar, got, reads, atEnd,
                     entered>>
  PROVE  IInv'
<1>1. /\ apreq \in Apreq /\ uploads \in Seq(Upload) /\ chunk \in Text /\ told \in BOOLEAN
      /\ upload_table \in [DOMAIN upload_table -> 1..Len(uploads)]
  BY InParser
<1>2. apreq' \in Apreq /\ apreq'.nargs = apreq.nargs /\ told' \in BOOLEAN /\ pc' = "handler"
  BY <1>1, EndedFields
<1>3. UNCHANGED <<request, each, edits, jar, got, reads, atEnd, entered>>
      /\ UNCHANGED <<parms, nalloc>>
      /\ uploads' = uploads /\ upload_table' = upload_table /\ chunk' = chunk
  BY DEF tableVars
<1>4. QED
  BY <1>1, <1>2, <1>3, ParserKeeps

LEMMA NoMorePartsKeeps ==
  ASSUME IInv, pc = "part", NEW h, HeadersOf(buf, h), NoMoreParts(h)
  PROVE  IInv'
<1> DEFINE dropped == Drop(h.buf.client)
           left == [h.buf EXCEPT !.client = dropped]
<1>1. RequestTypeOK /\ GoodBuffer(buf) /\ buf \in Buffers /\ buf.client \in Clients
  BY InParser
<1>2. BufferOn(buf, h.buf) /\ h.buf \in Buffers /\ h.buf.client \in Clients
  BY BufferFields DEF HeadersOf, BufferOn, GoodBuffer
<1>3. buf' = h.buf \/ buf' = left
  BY Zenon DEF NoMoreParts
<1>4. Onward(h.buf.client, dropped)
  BY <1>1, <1>2, DropFacts
<1> HIDE DEF dropped
<1>5. GoodBuffer(left) /\ left.client = dropped
  <2>1. dropped \in Clients
    BY <1>4 DEF Onward
  <2>2. left \in Buffers /\ left.begin = h.buf.begin /\ left.n = h.buf.n /\ left.client = dropped
    BY <1>2, <2>1 DEF Buffers
  <2>3. QED
    BY <1>2, <2>2 DEF GoodBuffer, BufferOn
<1> HIDE DEF left
<1>6. BufferOn(buf, left)
  <2>1. Onward(buf.client, dropped)
    BY <1>1, <1>2, <1>4, OnwardOn DEF BufferOn
  <2>2. QED
    BY <1>5, <2>1 DEF BufferOn
<1>7. GoodBuffer(buf') /\ StillModest(buf.client, buf'.client)
  BY <1>2, <1>3, <1>6, OnwardModest
<1>8. OK \in Statuses /\ Ended(OK)
  BY DEF NoMoreParts, Statuses
<1>9. UNCHANGED <<request, tableVars, uploads, upload_table, chunk, jar, got, reads, atEnd,
                  entered>>
  BY DEF NoMoreParts
<1>10. QED
  BY <1>7, <1>8, <1>9, EndKeeps

LEMMA FieldPartKeeps ==
  ASSUME IInv, pc = "part", NEW h, HeadersOf(buf, h), NEW d,
         d = Unknown \/ d.param \in Text, FieldPart(h, d)
  PROVE  IInv'
<1> DEFINE value == MultipartBufferReadBody(h.buf)
<1>1. RequestTypeOK /\ GoodBuffer(buf) /\ buf \in Buffers
  BY InParser
<1>2. BufferOn(buf, h.buf) /\ GoodBuffer(h.buf)
  BY DEF HeadersOf, BufferOn
<1>3. /\ UNCHANGED <<request, each, edits, jar, got, reads, atEnd, entered>>
      /\ told' = told /\ pc' = pc /\ apreq' = apreq /\ uploads' = uploads
      /\ upload_table' = upload_table /\ chunk' = chunk
  BY DEF FieldPart, ParserStays
<1>4. \/ buf' = h.buf /\ UNCHANGED <<parms, nalloc>>
      \/ d # Unknown /\ buf' = value.buf /\ AddParm(d.param, value.bytes)
  BY Zenon DEF FieldPart
<1>5. PieceRead(h.buf, value)
  BY <1>1, <1>2, MultipartBufferReadBodyOn
<1> HIDE DEF value
<1>6. BufferOn(buf, value.buf) /\ value.bytes \in Text
  BY <1>1, <1>2, <1>5, BufferOnOn DEF PieceRead
<1>7. GoodBuffer(buf') /\ StillModest(buf.client, buf'.client)
  BY <1>2, <1>4, <1>6, OnwardModest
<1>8. \/ UNCHANGED <<parms, nalloc>>
      \/ \E e \in Entries : Become(Append(parms, e))
  <2>1. CASE d # Unknown /\ AddParm(d.param, value.bytes)
    <3> DEFINE e == [key |-> d.param, val |-> value.bytes]
    <3>1. e \in Entries /\ Become(Append(parms, e))
      BY <1>6, <2>1 DEF Entries, AddParm
    <3>2. QED
      BY <3>1
  <2>2. QED
    BY <1>4, <2>1
<1>9. /\ apreq \in Apreq /\ uploads \in Seq(Upload) /\ chunk \in Text /\ told \in BOOLEAN
      /\ upload_table \in [DOMAIN upload_table -> 1..Len(uploads)]
  BY InParser
<1>10. QED
  BY <1>3, <1>7, <1>8, <1>9, ParserKeeps

\* The list of uploads, with one more.
LEMMA OneMore ==
  ASSUME uploads \in Seq(Upload), upload_table \in [DOMAIN upload_table -> 1..Len(uploads)],
         NEW u \in Upload, NEW list, list = Append(uploads, u)
  PROVE  /\ list \in Seq(Upload) /\ list # <<>>
         /\ upload_table \in [DOMAIN upload_table -> 1..Len(list)]
<1>1. list \in Seq(Upload) /\ Len(list) = Len(uploads) + 1 /\ Len(uploads) \in Nat
  OBVIOUS
<1>2. 1..Len(uploads) \subseteq 1..Len(list)
  BY <1>1
<1>3. QED
  BY <1>1, <1>2

LEMMA AddUploadFacts ==
  ASSUME uploads \in Seq(Upload), upload_table \in [DOMAIN upload_table -> 1..Len(uploads)],
         NEW d, d.param \in Text, d.filename \in Text,
         NEW name \in Text \cup {NoText}, NEW filename \in Text \cup {NoText},
         AddUpload(d, [name |-> name, filename |-> filename, data |-> <<>>, size |-> 0])
  PROVE  /\ uploads' \in Seq(Upload) /\ uploads' # <<>>
         /\ upload_table \in [DOMAIN upload_table -> 1..Len(uploads')]
         /\ \E e \in Entries : Become(Append(parms, e))
<1> DEFINE u == [name |-> name, filename |-> filename, data |-> <<>>, size |-> 0]
           e == [key |-> d.param, val |-> d.filename]
<1>1. uploads' = Append(uploads, u)
  BY DEF AddUpload
<1>2. u \in Upload
  <2>1. <<>> \in Text
    BY DEF Text
  <2>2. QED
    BY <2>1 DEF Upload
<1>3. e \in Entries /\ Become(Append(parms, e))
  BY DEF AddUpload, AddParm, Entries
<1> HIDE DEF u, e
<1>4. QED
  BY <1>1, <1>2, <1>3, OneMore

\* Two bytes less to come.
LEMMA TwoLess ==
  ASSUME NEW b, GoodBuffer(b), NEW f, f = [b EXCEPT !.client.remaining = @ - 2]
  PROVE  GoodBuffer(f) /\ StillModest(b.client, f.client)
<1> DEFINE c == b.client
           rest == c.remaining - 2
           d == [c EXCEPT !.remaining = rest]
<1>1. b \in Buffers /\ c \in Clients
  BY BufferFields DEF GoodBuffer
<1>2. c.remaining \in Int /\ c.at \in 0..Len(request.body)
  BY <1>1, ClientAt
<1>3. f = [b EXCEPT !.client = d]
  BY <1>1 DEF Buffers, Clients
<1> HIDE DEF c
<1>4. d \in Clients /\ d.at = c.at /\ d.remaining = c.remaining - 2 /\ d.waits = c.waits
  BY <1>1, <1>2, RemainingFields
<1> HIDE DEF d
<1>5. f \in Buffers /\ f.begin = b.begin /\ f.n = b.n /\ f.client = d
  BY <1>1, <1>3, <1>4 DEF Buffers
<1>6. GoodBuffer(f)
  BY <1>5 DEF GoodBuffer
<1>7. StillModest(c, d)
  <2>1. Len(request.body) \in Int
    OBVIOUS
  <2>2. QED
    BY <1>2, <1>4, <2>1 DEF StillModest, Modest
<1>8. QED
  BY <1>5, <1>6, <1>7 DEF c

LEMMA StartFileFacts ==
  ASSUME buf \in Buffers, NEW b, BufferOn(buf, b), StartFile(b)
  PROVE  /\ GoodBuffer(buf') /\ StillModest(buf.client, buf'.client)
         /\ pc' \in {"part", "chunk"}
<1> DEFINE f == [b EXCEPT !.client.remaining = @ - 2]
<1>1. buf' = b \/ buf' = f
  BY DEF StartFile
<1>2. GoodBuffer(b) /\ StillModest(buf.client, b.client)
  BY OnwardModest
<1>3. GoodBuffer(f) /\ StillModest(b.client, f.client)
  BY <1>2, TwoLess
<1> HIDE DEF f
<1>4. StillModest(buf.client, f.client)
  BY <1>2, <1>3 DEF StillModest
<1>5. pc' \in {"part", "chunk"}
  BY DEF StartFile
<1>6. QED
  BY <1>1, <1>2, <1>3, <1>4, <1>5

LEMMA FilePartKeeps ==
  ASSUME IInv, pc = "part", NEW h, HeadersOf(buf, h), NEW d, d.param \in Text,
         d.filename \in Text, FilePart(h, d)
  PROVE  IInv'
<1> DEFINE b == FillBuffer(h.buf)
<1>1. RequestTypeOK /\ GoodBuffer(buf) /\ buf \in Buffers
  BY InParser
<1>2. /\ apreq \in Apreq /\ uploads \in Seq(Upload) /\ chunk \in Text /\ told \in BOOLEAN
      /\ upload_table \in [DOMAIN upload_table -> 1..Len(uploads)]
  BY InParser
<1>3. BufferOn(buf, h.buf) /\ GoodBuffer(h.buf)
  BY DEF HeadersOf, BufferOn
<1>4. BufferOn(h.buf, b)
  BY <1>1, <1>3, FillBufferOn
<1>5. StartFile(b)
  BY Zenon DEF FilePart
<1> HIDE DEF b
<1>6. BufferOn(buf, b)
  BY <1>1, <1>3, <1>4, BufferOnOn
<1>7. GoodBuffer(buf') /\ StillModest(buf.client, buf'.client) /\ pc' \in {"part", "chunk"}
  BY <1>1, <1>5, <1>6, StartFileFacts
<1>8. AddUpload(d, [name |-> d.param, filename |-> d.filename, data |-> <<>>, size |-> 0])
  BY DEF FilePart, NewUpload
<1>9. /\ uploads' \in Seq(Upload) /\ uploads' # <<>>
      /\ upload_table \in [DOMAIN upload_table -> 1..Len(uploads')]
      /\ \E e \in Entries : Become(Append(parms, e))
  <2>1. d.param \in Text /\ d.filename \in Text
    OBVIOUS
  <2>2. QED
    BY <1>2, <1>8, <2>1, AddUploadFacts
<1>10. /\ UNCHANGED <<request, each, edits, jar, got, reads, atEnd, entered>>
       /\ told' = told /\ apreq' = apreq /\ upload_table' = upload_table /\ chunk' = chunk
  BY DEF FilePart, ParserStays
<1>11. QED
  BY <1>2, <1>7, <1>9, <1>10, ParserKeeps

LEMMA ForbiddenFileKeeps ==
  ASSUME IInv, pc = "part", NEW h, HeadersOf(buf, h), NEW d, ForbiddenFile(h, d)
  PROVE  IInv'
<1>1. BufferOn(buf, h.buf)
  BY DEF HeadersOf
<1>2. GoodBuffer(h.buf) /\ StillModest(buf.client, h.buf.client)
  BY <1>1, OnwardModest
<1>3. HTTP_FORBIDDEN \in Statuses /\ Ended(HTTP_FORBIDDEN) /\ buf' = h.buf
  BY DEF ForbiddenFile, Statuses
<1>4. UNCHANGED <<request, tableVars, uploads, upload_table, chunk, jar, got, reads, atEnd,
                  entered>>
  BY DEF ForbiddenFile
<1>5. QED
  BY <1>2, <1>3, <1>4, EndKeeps

LEMMA NoTmpfileKeeps ==
  ASSUME IInv, pc = "part", NEW h, HeadersOf(buf, h), NEW d, d.param \in Text,
         d.filename \in Text, NoTmpfile(h, d)
  PROVE  IInv'
<1>1. /\ apreq \in Apreq /\ uploads \in Seq(Upload) /\ chunk \in Text /\ told \in BOOLEAN
      /\ upload_table \in [DOMAIN upload_table -> 1..Len(uploads)]
  BY InParser
<1>2. BufferOn(buf, h.buf)
  BY DEF HeadersOf
<1>3. GoodBuffer(h.buf) /\ StillModest(buf.client, h.buf.client)
  BY <1>2, OnwardModest
<1>4. HTTP_INTERNAL_SERVER_ERROR \in Statuses /\ Ended(HTTP_INTERNAL_SERVER_ERROR)
      /\ buf' = h.buf
  BY DEF NoTmpfile, Statuses
<1>5. apreq' \in Apreq /\ apreq'.nargs = apreq.nargs /\ told' \in BOOLEAN /\ pc' = "handler"
  BY <1>1, <1>4, EndedFields
<1>6. AddUpload(d, [name |-> NoText, filename |-> NoText, data |-> <<>>, size |-> 0])
  BY DEF NoTmpfile, NewUpload, Unknown
<1>7. /\ uploads' \in Seq(Upload) /\ uploads' # <<>>
      /\ upload_table \in [DOMAIN upload_table -> 1..Len(uploads')]
      /\ \E e \in Entries : Become(Append(parms, e))
  BY <1>1, <1>6, AddUploadFacts
<1>8. /\ UNCHANGED <<request, each, edits, jar, got, reads, atEnd, entered>>
      /\ upload_table' = upload_table /\ chunk' = chunk
  BY DEF NoTmpfile
<1>9. QED
  BY <1>1, <1>3, <1>4, <1>5, <1>7, <1>8, ParserKeeps

LEMMA NextPartKeeps ==
  ASSUME IInv, NextPart
  PROVE  IInv'
<1> DEFINE h == NextHeaders
           d == DispositionOf(h.lines)
<1>1. pc = "part" /\ (\/ NoMoreParts(h) \/ FieldPart(h, d) \/ ForbiddenFile(h, d)
                      \/ FilePart(h, d) \/ NoTmpfile(h, d))
  BY Zenon DEF NextPart
<1>2. RequestTypeOK /\ GoodBuffer(buf)
  BY DEF IInv
<1>3. HeadersOf(buf, h)
  BY <1>2, NextHeadersOn
<1> HIDE DEF h
<1>4. d = Unknown \/ (d.param \in Text /\ d.filename \in Text \cup {NoText})
  BY <1>3, DispositionType DEF HeadersOf
<1> HIDE DEF d
<1>5. FilePart(h, d) \/ NoTmpfile(h, d) => d.param \in Text /\ d.filename \in Text
  <2>1. FilePart(h, d) \/ NoTmpfile(h, d) => d.filename # NoText
    BY DEF FilePart, NoTmpfile, AddUpload
  <2>2. Unknown.filename = NoText
    BY DEF Unknown
  <2>3. QED
    BY <1>4, <2>1, <2>2
<1>6. QED
  BY <1>1, <1>3, <1>4, <1>5, NoMorePartsKeeps, FieldPartKeeps, ForbiddenFileKeeps, FilePartKeeps,
     NoTmpfileKeeps

-----------------------------------------------------------------------------
(* The bytes of a file.                                                    *)

LEMMA SeqPut ==
  ASSUME NEW S, NEW s \in Seq(S), NEW i \in 1..Len(s), NEW x \in S, NEW t,
         t = [s EXCEPT ![i] = x]
  PROVE  t \in Seq(S) /\ Len(t) = Len(s)
OBVIOUS

LEMMA WrittenType ==
  ASSUME uploads \in Seq(Upload), uploads # <<>>, NEW i \in 1..Len(uploads), NEW bytes \in Text,
         NEW w, w = Written(i, bytes)
  PROVE  w \in Seq(Upload) /\ Len(w) = Len(uploads) /\ w # <<>>
<1> DEFINE n == Len(uploads)
           data == uploads[i].data \o bytes
           u == [uploads[i] EXCEPT !.data = data]
           v == [uploads EXCEPT ![i] = u]
           size == v[n].size + Len(bytes)
           z == [v[n] EXCEPT !.size = size]
<1>1. n \in 1..n /\ n \in Nat
  OBVIOUS
<1>2. uploads[i] \in Upload
  OBVIOUS
<1>3. data \in Text
  <2>1. uploads[i].data \in Text
    BY <1>2 DEF Upload
  <2>2. QED
    BY <2>1 DEF Text
<1>4. w = [v EXCEPT ![n] = z]
  BY DEF Written
<1> HIDE DEF data
<1>5. u \in Upload
  BY <1>2, <1>3 DEF Upload
<1> HIDE DEF u
<1>6. v \in Seq(Upload) /\ Len(v) = n
  BY <1>5, SeqPut
<1> HIDE DEF v
<1>7. v[n] \in Upload
  <2>1. Len(uploads) \in 1..Len(v)
    BY <1>1, <1>6
  <2> HIDE DEF n
  <2>2. v \in Seq(Upload) /\ n \in 1..Len(v)
    BY <1>6, <2>1 DEF n
  <2>3. QED
    BY <2>2
<1>8. size \in Nat
  <2>1. v[n].size \in Nat /\ Len(bytes) \in Nat
    BY <1>7, SMTT(30) DEF Upload, Text
  <2>2. QED
    BY <2>1
<1> HIDE DEF size
<1>9. z \in Upload
  BY <1>7, <1>8 DEF Upload
<1> HIDE DEF z
<1>10. w \in Seq(Upload) /\ Len(w) = n
  BY <1>1, <1>4, <1>6, <1>9, SeqPut
<1>11. QED
  BY <1>1, <1>10

LEMMA WithObjectType ==
  ASSUME uploads \in Seq(Upload), uploads # <<>>,
         upload_table \in [DOMAIN upload_table -> 1..Len(uploads)],
         NEW name, NEW table, table = WithObject(name)
  PROVE  /\ table \in [DOMAIN table -> 1..Len(uploads)] /\ name \in DOMAIN table
<1>1. Len(uploads) \in 1..Len(uploads)
  OBVIOUS
<1> DEFINE u == [m \in DOMAIN upload_table \cup {name} |->
                   IF m = name THEN Len(uploads) ELSE upload_table[m]]
<1>2. ASSUME NEW m \in DOMAIN upload_table \cup {name} PROVE u[m] \in 1..Len(uploads)
  BY <1>1
<1>3. DOMAIN u = DOMAIN upload_table \cup {name} /\ u = [m \in DOMAIN u |-> u[m]]
  OBVIOUS
<1>4. table = u
  BY DEF WithObject
<1> HIDE DEF u
<1>5. QED
  BY <1>2, <1>3, <1>4

LEMMA FileChunkKeeps ==
  ASSUME IInv, FileChunk
  PROVE  IInv'
<1> DEFINE r == MultipartBufferRead(buf, FILLUNIT)
           name == Last(uploads).name
           table == IF name \in DOMAIN upload_table THEN upload_table ELSE WithObject(name)
<1>1. /\ pc = "chunk" /\ buf' = r.buf
      /\ \/ /\ pc' = "part"
            /\ UNCHANGED <<uploads, upload_table, chunk>>
         \/ /\ pc' = "hook" /\ chunk' = r.bytes
            /\ upload_table' = table
            /\ uploads' = uploads
         \/ /\ uploads' = Written(Len(uploads), r.bytes)
            /\ UNCHANGED <<pc, upload_table, chunk>>
  BY Zenon DEF FileChunk
<1>2. /\ UNCHANGED <<request, each, edits, jar, got, reads, atEnd, entered>>
      /\ told' = told /\ apreq' = apreq /\ UNCHANGED <<parms, nalloc>>
  BY DEF FileChunk, ParserStays
<1>3. RequestTypeOK /\ GoodBuffer(buf) /\ buf \in Buffers
  BY <1>1, InParser
<1>4. /\ apreq \in Apreq /\ uploads \in Seq(Upload) /\ chunk \in Text /\ told \in BOOLEAN
      /\ upload_table \in [DOMAIN upload_table -> 1..Len(uploads)] /\ uploads # <<>>
  BY <1>1, InParser
<1>5. PieceRead(buf, r)
  BY <1>3, MultipartBufferReadOn
<1> HIDE DEF r
<1>6. GoodBuffer(buf') /\ StillModest(buf.client, buf'.client) /\ r.bytes \in Text
  BY <1>1, <1>5, OnwardModest DEF PieceRead
<1>7. table \in [DOMAIN table -> 1..Len(uploads)] /\ name \in DOMAIN table
  <2> HIDE DEF name
  <2>1. CASE name \in DOMAIN upload_table
    BY <1>4, <2>1
  <2>2. CASE name \notin DOMAIN upload_table
    <3>1. table = WithObject(name)
      BY <2>2
    <3> HIDE DEF table
    <3>2. QED
      BY <1>4, <3>1, WithObjectType
  <2>3. QED
    BY <2>1, <2>2
<1> HIDE DEF table
<1>8. CASE pc' = "part" /\ UNCHANGED <<uploads, upload_table, chunk>>
  BY <1>1, <1>2, <1>4, <1>6, <1>8, ParserKeeps
<1>9. CASE pc' = "hook" /\ chunk' = r.bytes /\ upload_table' = table /\ uploads' = uploads
  <2>1. Last(uploads').name \in DOMAIN upload_table'
    BY <1>7, <1>9
  <2> HIDE DEF name
  <2>2. /\ upload_table' \in [DOMAIN upload_table' -> 1..Len(uploads')] /\ chunk' \in Text
        /\ uploads' \in Seq(Upload) /\ uploads' # <<>> /\ pc' = "hook"
    BY <1>4, <1>6, <1>7, <1>9
  <2>3. QED
    BY <1>1, <1>2, <1>4, <1>6, <2>1, <2>2, ParserKeeps
<1>10. CASE uploads' = Written(Len(uploads), r.bytes) /\ UNCHANGED <<pc, upload_table, chunk>>
  <2>1. Len(uploads) \in 1..Len(uploads)
    BY <1>4
  <2>2. uploads' \in Seq(Upload) /\ Len(uploads') = Len(uploads) /\ uploads' # <<>>
    BY <1>4, <1>6, <1>10, <2>1, WrittenType
  <2>3. /\ upload_table' \in [DOMAIN upload_table' -> 1..Len(uploads')] /\ chunk' \in Text
        /\ pc' = "chunk"
    BY <1>1, <1>4, <1>10, <2>2
  <2>4. QED
    BY <1>1, <1>2, <1>4, <1>6, <2>2, <2>3, ParserKeeps
<1>11. QED
  BY <1>1, <1>8, <1>9, <1>10

LEMMA ShortWriteKeeps ==
  ASSUME IInv, ShortWrite
  PROVE  IInv'
<1> DEFINE r == MultipartBufferRead(buf, FILLUNIT)
<1>1. pc = "chunk" /\ buf' = r.buf
  BY Zenon DEF ShortWrite
<1>2. RequestTypeOK /\ GoodBuffer(buf)
  BY DEF IInv
<1>3. PieceRead(buf, r)
  BY <1>2, MultipartBufferReadOn
<1> HIDE DEF r
<1>4. GoodBuffer(r.buf) /\ StillModest(buf.client, r.buf.client)
  BY <1>3, OnwardModest DEF PieceRead
<1>5. HTTP_INTERNAL_SERVER_ERROR \in Statuses /\ Ended(HTTP_INTERNAL_SERVER_ERROR)
  BY DEF ShortWrite, Statuses
<1>6. UNCHANGED <<request, tableVars, uploads, upload_table, chunk, jar, got, reads, atEnd,
                  entered>>
  BY DEF ShortWrite
<1>7. QED
  BY <1>1, <1>4, <1>5, <1>6, EndKeeps

LEMMA StillModestStays == StillModest(buf.client, buf.client)
BY DEF StillModest

LEMMA HookReturnsKeeps ==
  ASSUME IInv, HookReturns
  PROVE  IInv'
<1> DEFINE name == Last(uploads).name
           i == upload_table[name]
<1>1. pc = "hook" /\ uploads' = Written(i, chunk) /\ chunk' = <<>> /\ pc' = "chunk"
      /\ buf' = buf /\ apreq' = apreq /\ upload_table' = upload_table
      /\ UNCHANGED <<parms, nalloc>>
  BY DEF HookReturns
<1>2. UNCHANGED <<request, each, edits, jar, got, reads, atEnd, entered>> /\ told' = told
  BY DEF HookReturns, ParserStays
<1>3. /\ GoodBuffer(buf) /\ apreq \in Apreq /\ uploads \in Seq(Upload) /\ chunk \in Text
      /\ told \in BOOLEAN /\ uploads # <<>> /\ name \in DOMAIN upload_table
      /\ upload_table \in [DOMAIN upload_table -> 1..Len(uploads)]
  BY <1>1, InParser
<1>4. i \in 1..Len(uploads)
  BY <1>3
<1> HIDE DEF i
<1>5. uploads' \in Seq(Upload) /\ Len(uploads') = Len(uploads) /\ uploads' # <<>>
  BY <1>1, <1>3, <1>4, WrittenType
<1>6. upload_table' \in [DOMAIN upload_table' -> 1..Len(uploads')] /\ chunk' \in Text
  BY <1>1, <1>3, <1>5 DEF Text
<1>7. QED
  BY <1>1, <1>2, <1>3, <1>5, <1>6, StillModestStays, ParserKeeps

LEMMA HookRaisesKeeps ==
  ASSUME IInv, HookRaises
  PROVE  IInv'
<1>1. pc = "hook" /\ pc' = "handler" /\ told' = TRUE
      /\ buf' = buf /\ apreq' = apreq /\ uploads' = uploads /\ upload_table' = upload_table
      /\ chunk' = chunk
      /\ UNCHANGED <<request, tableVars, jar, got, reads, atEnd, entered>>
  BY DEF HookRaises
<1>2. UNCHANGED <<request, each, edits, jar, got, reads, atEnd, entered>>
      /\ UNCHANGED <<parms, nalloc>>
  BY <1>1 DEF tableVars
<1>3. /\ GoodBuffer(buf) /\ apreq \in Apreq /\ uploads \in Seq(Upload) /\ chunk \in Text
      /\ upload_table \in [DOMAIN upload_table -> 1..Len(uploads)]
  BY <1>1, InParser
<1>4. QED
  BY <1>1, <1>2, <1>3, StillModestStays, ParserKeeps

-----------------------------------------------------------------------------
(* All steps together.                                                     *)

LEMMA StayKeeps ==
  ASSUME IInv, UNCHANGED vars
  PROVE  IInv'
<1>1. RestType /\ Structure
  BY DEF IInv
<1>2. /\ UNCHANGED <<request, buf, tableVars, apreq, got, reads, atEnd, entered>>
      /\ UNCHANGED <<pc, uploads, upload_table, chunk, jar, told, each, edits, parms>>
  BY DEF vars, inputVars, tableVars
<1>3. RestType'
  BY <1>1, <1>2 DEF RestType
<1>4. Structure'
  BY <1>1, <1>2 DEF Structure
<1>5. QED
  BY <1>2, <1>3, <1>4, OthersKeep

LEMMA StepKeeps == IInv /\ [Next]_vars => IInv'
<1> SUFFICES ASSUME IInv, [Next]_vars PROVE IInv'
  OBVIOUS
<1>1. CASE Parse
  BY <1>1, ParseKeeps
<1>2. CASE NextPart
  BY <1>2, NextPartKeeps
<1>3. CASE FileChunk
  BY <1>3, FileChunkKeeps
<1>4. CASE ShortWrite
  BY <1>4, ShortWriteKeeps
<1>5. CASE HookReturns
  BY <1>5, HookReturnsKeeps
<1>6. CASE HookRaises
  BY <1>6, HookRaisesKeeps
<1>7. ASSUME NEW size \in Sizes, Read(size) PROVE IInv'
  BY <1>7, ReadKeeps
<1>8. ASSUME NEW size \in Sizes, GetClientBlock(size) PROVE IInv'
  BY <1>8, BlockKeeps
<1>9. CASE SetupClientBlock
  BY <1>9, SetupKeeps
<1>10. CASE Uploads
  BY <1>10, UploadsKeep
<1>11. CASE Cookies
  BY <1>11, CookiesKeep
<1>12. CASE EditTable
  BY <1>12, EditTableKeeps
<1>13. CASE Idle \/ UNCHANGED vars
  BY <1>13, StayKeeps DEF Idle
<1>14. QED
  BY <1>1, <1>2, <1>3, <1>4, <1>5, <1>6, <1>7, <1>8, <1>9, <1>10, <1>11, <1>12, <1>13, Zenon
     DEF Next

LEMMA InputAlways == Spec => []IInv
BY InitIInv, StepKeeps, PTL DEF Spec

\* What a client sends stays what it is.
LEMMA RequestStays == [Next]_vars => UNCHANGED request
<1> SUFFICES ASSUME [Next]_vars PROVE request' = request
  OBVIOUS
<1>1. CASE Parse
  BY <1>1, Zenon DEF Parse
<1>2. CASE NextPart
  <2>1. PICK h, d : \/ NoMoreParts(h) \/ FieldPart(h, d) \/ ForbiddenFile(h, d)
                    \/ FilePart(h, d) \/ NoTmpfile(h, d)
    BY <1>2, Zenon DEF NextPart
  <2>2. QED
    BY <2>1 DEF NoMoreParts, FieldPart, ForbiddenFile, FilePart, NoTmpfile, ParserStays
<1>3. CASE FileChunk
  BY <1>3, Zenon DEF FileChunk, ParserStays
<1>4. CASE ShortWrite
  BY <1>4, Zenon DEF ShortWrite
<1>5. CASE HookReturns \/ HookRaises \/ Uploads \/ EditTable
  BY <1>5 DEF HookReturns, HookRaises, ParserStays, Uploads, EditTable
<1>6. CASE Cookies
  BY <1>6, Zenon DEF Cookies
<1>7. ASSUME NEW size \in Sizes, Read(size) \/ GetClientBlock(size) PROVE request' = request
  BY <1>7, Zenon DEF Read, GetClientBlock, MayRead
<1>8. CASE SetupClientBlock \/ Idle \/ UNCHANGED vars
  BY <1>8 DEF SetupClientBlock, MayRead, Idle, vars
<1>9. QED
  BY <1>1, <1>2, <1>3, <1>4, <1>5, <1>6, <1>7, <1>8, Zenon DEF Next

-----------------------------------------------------------------------------
(* Texts that are put together and taken apart again.                      *)

\* No byte of t is one of the stops.
Free(t, stops) == \A i \in 1..Len(t) : t[i] \notin stops

\* The first of the stops in t \o u is where u begins.
FirstStop(t, stops) == SelectInSeq(t, LAMBDA c : c \in stops)
FirstOther(t, stops) == SelectInSeq(t, LAMBDA c : c \notin stops)

\* Nothing is parted off a text without a stop.
LEMMA BeforeFree ==
  ASSUME NEW S, NEW t \in Seq(S), NEW stops, Free(t, stops)
  PROVE  Before(t, stops) = t
<1> DEFINE I == {i \in 1..Len(t) : t[i] \in stops}
           f == FirstStop(t, stops)
<1>1. f = IF I # {} THEN Min(I) ELSE 0
  BY Zenon DEF SelectInSeq, FirstStop
<1>2. I = {}
  BY DEF Free
<1>3. f = 0
  BY <1>1, <1>2
<1>4. Before(t, stops) = IF f = 0 THEN t ELSE SubSeq(t, 1, f - 1)
  BY Zenon DEF Before, FirstStop
<1> HIDE DEF f
<1>5. QED
  BY <1>3, <1>4

\* What Min finds, when it is known.
LEMMA MinIs ==
  ASSUME NEW T \in SUBSET Nat, NEW m \in T, \A k \in T : m <= k
  PROVE  Min(T) = m
<1>1. Min(T) \in T /\ \A k \in T : Min(T) <= k
  BY MinNumber
<1>2. Min(T) <= m /\ m <= Min(T)
  BY <1>1
<1>3. Min(T) \in Nat /\ m \in Nat
  BY <1>1
<1>4. QED
  BY <1>2, <1>3

\* What is before the first stop.
LEMMA CStringFree ==
  ASSUME NEW t \in Text, Free(t, {NUL})
  PROVE  CString(t) = t
BY BeforeFree DEF CString, Text

LEMMA BeforeStop ==
  ASSUME NEW S, NEW t \in Seq(S), NEW stops, Free(t, stops), NEW u \in Seq(S),
         u # <<>>, u[1] \in stops
  PROVE  Before(t \o u, stops) = t
<1> DEFINE w == t \o u
           I == {i \in 1..Len(w) : w[i] \in stops}
           f == FirstStop(w, stops)
           n == Len(t)
<1>1. /\ w \in Seq(S) /\ Len(w) = n + Len(u)
      /\ \A i \in 1..n : w[i] = t[i]
      /\ \A i \in 1..Len(u) : w[n + i] = u[i]
  BY ConcatFacts
<1>2. n \in Nat /\ Len(u) \in Nat \ {0}
  OBVIOUS
<1>3. SubSeq(w, 1, n) = t
  <2> HIDE DEF w
  <2>1. QED
    BY <1>1, <1>2
<1>4. f = IF I # {} THEN Min(I) ELSE 0
  BY Zenon DEF SelectInSeq, FirstStop
<1>5. Before(w, stops) = IF f = 0 THEN w ELSE SubSeq(w, 1, f - 1)
  BY Zenon DEF Before, FirstStop
<1> HIDE DEF w
<1>6. n + 1 \in I
  BY <1>1, <1>2
<1>7. ASSUME NEW k \in I PROVE n + 1 <= k
  <2>1. k \in 1..Len(w) /\ w[k] \in stops
    OBVIOUS
  <2>2. CASE k \in 1..n
    <3>1. t[k] \in stops
      BY <1>1, <2>1, <2>2
    <3>2. QED
      BY <2>2, <3>1 DEF Free
  <2>3. CASE k \notin 1..n
    BY <1>1, <1>2, <2>1, <2>3
  <2>4. QED
    BY <2>2, <2>3
<1>8. I \in SUBSET Nat
  OBVIOUS
<1> HIDE DEF I
<1>9. Min(I) = n + 1
  BY <1>6, <1>7, <1>8, MinIs
<1> HIDE DEF f
<1>10. f = n + 1 /\ f # 0 /\ f - 1 = n
  BY <1>2, <1>4, <1>6, <1>9
<1>11. Before(w, stops) = t
  BY <1>3, <1>5, <1>10
<1>12. QED
  BY <1>11 DEF w

\* Skipping stops that are not there.
LEMMA SkipNone ==
  ASSUME NEW S, NEW u \in Seq(S), NEW stops, u # <<>> => u[1] \notin stops
  PROVE  SkipAll(u, stops) = u
<1> DEFINE I == {i \in 1..Len(u) : u[i] \notin stops}
           f == FirstOther(u, stops)
<1>1. f = IF I # {} THEN Min(I) ELSE 0
  BY Zenon DEF SelectInSeq, FirstOther
<1>2. SkipAll(u, stops) = IF f = 0 THEN <<>> ELSE SubSeq(u, f, Len(u))
  BY Zenon DEF SkipAll, FirstOther
<1>3. I \in SUBSET Nat /\ \A k \in I : 1 <= k
  OBVIOUS
<1>4. CASE u = <<>>
  <2>1. I = {}
    BY <1>4
  <2>2. QED
    BY <1>1, <1>2, <1>4, <2>1
<1>5. CASE u # <<>>
  <2>1. 1 \in I
    BY <1>5
  <2>2. SubSeq(u, 1, Len(u)) = u
    OBVIOUS
  <2> HIDE DEF I
  <2>3. Min(I) = 1
    BY <1>3, <2>1, MinIs
  <2> HIDE DEF f
  <2>4. f = 1
    BY <1>1, <2>1, <2>3
  <2>5. QED
    BY <1>2, <2>2, <2>4
<1>6. QED
  BY <1>4, <1>5

\* One byte and then u.
LEMMA OneFirst ==
  ASSUME NEW S, NEW c \in S, NEW u \in Seq(S)
  PROVE  /\ <<c>> \o u \in Seq(S) /\ Len(<<c>> \o u) = 1 + Len(u) /\ (<<c>> \o u)[1] = c
         /\ \A i \in 1..Len(u) : (<<c>> \o u)[1 + i] = u[i]
         /\ Len(u) \in Nat
<1> DEFINE w == <<c>> \o u
<1> DEFINE one == <<c>>
<1>1. one \in Seq(S) /\ Len(one) = 1 /\ one[1] = c
  OBVIOUS
<1>2. w = one \o u
  OBVIOUS
<1> HIDE DEF one
<1>3. /\ w \in Seq(S) /\ Len(w) = Len(one) + Len(u)
      /\ \A i \in 1..Len(one) : w[i] = one[i]
      /\ \A i \in 1..Len(u) : w[Len(one) + i] = u[i]
  BY <1>1, ConcatFacts
<1> HIDE DEF w
<1>0. Len(u) \in Nat
  OBVIOUS
<1>4. QED
  BY <1>0, <1>1, <1>3 DEF w

\* Skipping a single one.
LEMMA SkipOne ==
  ASSUME NEW S, NEW c \in S, NEW u \in Seq(S), NEW stops, c \in stops,
         u # <<>> => u[1] \notin stops
  PROVE  SkipAll(<<c>> \o u, stops) = u
<1> DEFINE w == <<c>> \o u
           I == {i \in 1..Len(w) : w[i] \notin stops}
           f == FirstOther(w, stops)
<1>1. f = IF I # {} THEN Min(I) ELSE 0
  BY Zenon DEF SelectInSeq, FirstOther
<1>2. SkipAll(w, stops) = IF f = 0 THEN <<>> ELSE SubSeq(w, f, Len(w))
  BY Zenon DEF SkipAll, FirstOther
<1>3. /\ w \in Seq(S) /\ Len(w) = 1 + Len(u) /\ w[1] = c
      /\ \A i \in 1..Len(u) : w[1 + i] = u[i]
      /\ Len(u) \in Nat
  BY OneFirst
<1> HIDE DEF w
<1>4. I \in SUBSET Nat /\ \A k \in I : 2 <= k
  BY <1>3
<1>5. CASE u = <<>>
  <2>1. I = {}
    BY <1>3, <1>5
  <2>2. QED
    BY <1>1, <1>2, <1>5, <2>1 DEF w
<1>6. CASE u # <<>>
  <2>1. 2 \in I
    BY <1>3, <1>6
  <2>2. SubSeq(w, 2, Len(w)) = u
    <3> DEFINE v == SubSeq(w, 2, Len(w))
    <3>1. 2 \in Nat \ {0} /\ Len(w) \in 0..Len(w) /\ 2 <= Len(w)
      BY <1>3, <1>6
    <3>2. /\ v \in Seq(S) /\ Len(v) = Len(u)
          /\ \A i \in 1..Len(v) : v[i] = w[2 + i - 1]
      BY <1>3, <3>1, SubSeqFacts
    <3> HIDE DEF v
    <3>3. ASSUME NEW i \in 1..Len(v) PROVE v[i] = u[i]
      <4>1. i \in 1..Len(u) /\ 2 + i - 1 = 1 + i
        BY <3>2
      <4>2. QED
        BY <1>3, <3>2, <4>1
    <3>4. v = u
      BY <3>2, <3>3, SameSeq
    <3>5. QED
      BY <3>4 DEF v
  <2> HIDE DEF I
  <2>3. Min(I) = 2
    BY <1>4, <2>1, MinIs
  <2> HIDE DEF f
  <2>4. f = 2
    BY <1>1, <2>1, <2>3
  <2>5. SkipAll(w, stops) = SubSeq(w, 2, Len(w))
    BY <1>2, <2>4
  <2>6. SkipAll(w, stops) = u
    BY <2>2, <2>5
  <2>7. QED
    BY <2>6 DEF w
<1>7. QED
  BY <1>5, <1>6

\* ap_getword: of a text that begins with one without stops.
LEMMA AfterFree ==
  ASSUME NEW S, NEW t \in Seq(S), NEW stops, Free(t, stops)
  PROVE  After(t, stops) = <<>>
<1>1. Before(t, stops) = t
  BY BeforeFree
<1> DEFINE e == SubSeq(t, Len(t) + 1, Len(t))
<1>2. e \in Seq(S) /\ e = <<>>
  OBVIOUS
<1>3. After(t, stops) = SkipAll(e, stops)
  BY <1>1 DEF After
<1> HIDE DEF e
<1>4. SkipAll(e, stops) = e
  BY <1>2, SkipNone
<1>5. QED
  BY <1>2, <1>3, <1>4

\* What follows t in t \o u.
LEMMA DropFirst ==
  ASSUME NEW S, NEW t \in Seq(S), NEW u \in Seq(S)
  PROVE  SubSeq(t \o u, Len(t) + 1, Len(t \o u)) = u
<1> DEFINE w == t \o u
           n == Len(t)
           N == Len(w)
           v == SubSeq(w, n + 1, N)
<1>1. /\ w \in Seq(S) /\ N = n + Len(u)
      /\ \A i \in 1..Len(u) : w[n + i] = u[i]
      /\ n \in Nat /\ Len(u) \in Nat
  BY ConcatFacts
<1>2. n + 1 \in Nat \ {0} /\ N \in 0..Len(w)
  BY <1>1
<1>3. /\ v \in Seq(S) /\ Len(v) = IF n + 1 <= N THEN N - (n + 1) + 1 ELSE 0
      /\ \A i \in 1..Len(v) : v[i] = w[n + 1 + i - 1]
  BY <1>1, <1>2, SubSeqFacts
<1> HIDE DEF w, n, N, v
<1>4. Len(v) = Len(u)
  BY <1>1, <1>3
<1>5. ASSUME NEW i \in 1..Len(v) PROVE v[i] = u[i]
  <2>1. i \in 1..Len(u) /\ n + 1 + i - 1 = n + i
    BY <1>1, <1>4
  <2>2. QED
    BY <1>1, <1>3, <2>1
<1>6. v = u
  BY <1>3, <1>4, <1>5, SameSeq
<1>7. QED
  BY <1>6 DEF v, w, n, N

\* A text is parted at its only stop, or the first of its stops.
LEMMA AfterStop ==
  ASSUME NEW S, NEW t \in Seq(S), NEW stops, Free(t, stops), NEW c \in S, c \in stops,
         NEW u \in Seq(S), u # <<>> => u[1] \notin stops
  PROVE  /\ Before(t \o (<<c>> \o u), stops) = t
         /\ After(t \o (<<c>> \o u), stops) = u
<1> DEFINE x == <<c>> \o u
           w == t \o x
<1>1. x \in Seq(S) /\ x[1] = c /\ Len(x) = 1 + Len(u) /\ Len(u) \in Nat
  BY OneFirst
<1>2. SkipAll(x, stops) = u
  BY SkipOne
<1> HIDE DEF x
<1>3. x \in Seq(S)
  BY <1>1
<1>4. x # <<>> /\ x[1] \in stops
  BY <1>1
<1>5. Before(w, stops) = t
  BY <1>3, <1>4, BeforeStop
<1>6. SubSeq(w, Len(t) + 1, Len(w)) = x
  BY <1>3, DropFirst
<1> HIDE DEF w
<1>7. After(w, stops) = u
  BY <1>2, <1>5, <1>6 DEF After
<1>8. QED
  BY <1>5, <1>7 DEF w, x

-----------------------------------------------------------------------------
(* What FlattenSeq puts together, from its end.                            *)

Tails(ss, d) ==
  /\ d[Len(ss)] = <<>>
  /\ \A k \in 0..Len(ss) - 1 : d[k] = ss[k + 1] \o d[k + 1]

\* The rests of what is put together.
LEMMA TailsExist ==
  ASSUME NEW S, NEW ss \in Seq(Seq(S))
  PROVE  \E d \in [0..Len(ss) -> Seq(S)] : Tails(ss, d)
<1> DEFINE N == Len(ss)
           States == (0..N) \X Seq(S)
           Pass(p) == IF p[1] > 0 THEN <<p[1] - 1, ss[p[1]] \o p[2]>> ELSE p
           pass == [p \in States |-> Pass(p)]
<1>1. N \in Nat /\ \A i \in 1..N : ss[i] \in Seq(S)
  OBVIOUS
<1>2. pass \in [States -> States]
  <2>1. ASSUME NEW p \in States PROVE Pass(p) \in States
    <3>1. p[1] \in 0..N /\ p[2] \in Seq(S)
      OBVIOUS
    <3>2. CASE p[1] > 0
      <4>1. p[1] - 1 \in 0..N /\ p[1] \in 1..N
        BY <1>1, <3>1, <3>2
      <4>2. ss[p[1]] \o p[2] \in Seq(S)
        BY <1>1, <3>1, <4>1, ConcatFacts
      <4>3. QED
        BY <3>2, <4>1, <4>2
    <3>3. CASE ~ (p[1] > 0)
      BY <3>3
    <3>4. QED
      BY <3>2, <3>3
  <2> HIDE DEF Pass, States
  <2>2. QED
    BY <2>1
<1>3. <<N, <<>>>> \in States
  <2>1. N \in 0..N /\ <<>> \in Seq(S)
    BY <1>1
  <2> HIDE DEF N
  <2>2. QED
    BY <2>1
<1>4. PICK t \in [0..N -> States] : LoopOf(pass, <<N, <<>>>>, N, t)
  <2> HIDE DEF pass, States
  <2>1. QED
    BY <1>1, <1>2, <1>3, LoopExists
<1> HIDE DEF N
<1>5. t[0] = <<N, <<>>>>
  <2> HIDE DEF pass
  <2>1. 0 \in 0..N
    BY <1>1
  <2>2. QED
    BY <1>4, <2>1 DEF LoopOf
<1>6. ASSUME NEW n \in 0..N - 1 PROVE t[n + 1] = Pass(t[n])
  <2>1. n + 1 \in 0..N /\ n \in 0..N /\ n + 1 # 0 /\ (n + 1) - 1 = n
    BY <1>1
  <2>2. t[n + 1] = pass[t[n]]
    BY <1>4, <2>1 DEF LoopOf
  <2>3. t[n] \in States
    BY <1>4, <2>1
  <2>4. QED
    BY <2>2, <2>3
<1>7. \A n \in 0..N : t[n][1] = N - n
  <2> DEFINE G == {n \in 0..N : t[n][1] = N - n}
  <2>1. 0 \in G
    BY <1>1, <1>5
  <2>2. ASSUME NEW n \in 0..N - 1, n \in G PROVE n + 1 \in G
    <3> DEFINE p == t[n]
    <3>1. n + 1 \in 0..N /\ p[1] = N - n /\ p[1] > 0
      BY <1>1, <2>2
    <3>2. t[n + 1] = Pass(p)
      BY <1>6
    <3> HIDE DEF p
    <3>3. t[n + 1] = <<p[1] - 1, ss[p[1]] \o p[2]>>
      BY <3>1, <3>2
    <3>4. t[n + 1][1] = p[1] - 1
      BY <3>3, Second
    <3>5. QED
      BY <1>1, <3>1, <3>4
  <2> HIDE DEF G
  <2>3. \A n \in 0..N : n \in G
    BY <1>1, <2>1, <2>2, Upward
  <2>4. QED
    BY <2>3 DEF G
<1> DEFINE d == [k \in 0..N |-> t[N - k][2]]
<1>8. d \in [0..N -> Seq(S)]
  <2>1. ASSUME NEW k \in 0..N PROVE t[N - k][2] \in Seq(S)
    <3>1. N - k \in 0..N
      BY <1>1
    <3>2. t[N - k] \in States
      BY <1>4, <3>1
    <3>3. QED
      BY <3>2
  <2>2. QED
    BY <2>1
<1>9. d[N] = <<>>
  <2>1. N \in 0..N /\ N - N = 0
    BY <1>1
  <2>2. t[0][2] = <<>>
    BY <1>5, Second
  <2>3. QED
    BY <2>1, <2>2
<1>10. ASSUME NEW k \in 0..N - 1 PROVE d[k] = ss[k + 1] \o d[k + 1]
  <2> DEFINE n == N - (k + 1)
             p == t[n]
  <2>1. n \in 0..N - 1 /\ n \in 0..N /\ n + 1 = N - k /\ k \in 0..N /\ k + 1 \in 0..N
    BY <1>1
  <2>2. p[1] = N - n /\ N - n = k + 1 /\ k + 1 > 0
    BY <1>1, <1>7, <2>1
  <2>3. t[n + 1] = Pass(p)
    BY <1>6, <2>1
  <2>4. d[k + 1] = p[2] /\ d[k] = t[n + 1][2]
    BY <2>1
  <2> HIDE DEF n, p, d
  <2>5. t[n + 1] = <<p[1] - 1, ss[p[1]] \o p[2]>>
    BY <2>2, <2>3
  <2> DEFINE less == p[1] - 1
             more == ss[p[1]] \o p[2]
             q == t[n + 1]
  <2>6. q = <<less, more>>
    BY <2>5
  <2>7. more = ss[k + 1] \o d[k + 1]
    BY <2>2, <2>4
  <2> HIDE DEF less, more
  <2>8. q[2] = more
    BY <2>6, Second
  <2>9. QED
    BY <2>4, <2>7, <2>8
<1>11. QED
  <2> HIDE DEF d
  <2>1. QED
    BY <1>8, <1>9, <1>10 DEF Tails, N

\* A function on 1..n is a sequence.
LEMMA FunctionIsSeq ==
  ASSUME NEW T, NEW n \in Nat, NEW f \in [1..n -> T]
  PROVE  f \in Seq(T) /\ Len(f) = n
OBVIOUS

\* It does not matter how three texts are grouped.
LEMMA Associative ==
  ASSUME NEW S, NEW a \in Seq(S), NEW b \in Seq(S), NEW c \in Seq(S)
  PROVE  (a \o b) \o c = a \o (b \o c)
OBVIOUS

\* FlattenSeq is the rest before the first text.
LEMMA FlattenTails ==
  ASSUME NEW S, NEW ss \in Seq(Seq(S)), NEW d \in [0..Len(ss) -> Seq(S)], Tails(ss, d)
  PROVE  d[0] = FlattenSeq(ss)
<1> DEFINE N == Len(ss)
<1>1. N \in Nat /\ \A i \in 1..N : ss[i] \in Seq(S)
  OBVIOUS
<1>2. /\ d[N] = <<>> /\ \A k \in 0..N - 1 : d[k] = ss[k + 1] \o d[k + 1]
      /\ \A k \in 0..N : d[k] \in Seq(S)
  BY DEF Tails
<1>3. CASE ss = <<>>
  <2>1. N = 0
    BY <1>3
  <2>2. FlattenSeq(ss) = <<>>
    BY <1>3, <2>1, Zenon DEF FlattenSeq, N
  <2>3. QED
    BY <1>2, <2>1, <2>2
<1>4. CASE ss # <<>>
  <2>1. PICK g : Flattens(ss, g) /\ FlattenSeq(ss) = g[N]
    BY <1>4, FlattenSteps
  <2>2. N >= 1
    BY <1>1, <1>4
  <2>3. g[1] = ss[1] /\ \A i \in 1..N - 1 : g[i + 1] = g[i] \o ss[i + 1]
    BY <2>1 DEF Flattens
  <2> HIDE DEF N
  <2> DEFINE G == {j \in 0..N - 1 : g[j + 1] \in Seq(S) /\ g[j + 1] \o d[j + 1] = d[0]}
  <2>4. 0 \in G
    <3>1. 0 \in 0..N - 1 /\ 1 \in 1..N /\ 0 + 1 = 1
      BY <1>1, <2>2
    <3>2. d[0] = ss[1] \o d[1] /\ ss[1] \in Seq(S)
      BY <1>1, <1>2, <3>1
    <3>3. QED
      BY <2>3, <3>1, <3>2
  <2>5. ASSUME NEW j \in 0..(N - 1) - 1, j \in G PROVE j + 1 \in G
    <3> DEFINE i == j + 1
               a == g[i]
               b == ss[i + 1]
               c == d[i + 1]
    <3>1. i \in 1..N - 1 /\ i \in 0..N - 1 /\ i + 1 \in 1..N /\ i + 1 \in 0..N
      BY <1>1, <2>2
    <3>2. a \in Seq(S) /\ a \o d[i] = d[0]
      BY <2>5
    <3> HIDE DEF i
    <3>3. b \in Seq(S) /\ c \in Seq(S) /\ d[i] = b \o c /\ g[i + 1] = a \o b
      BY <1>1, <1>2, <2>3, <3>1
    <3> HIDE DEF a, b, c
    <3> HIDE DEF G
    <3>9. a \in Seq(S) /\ b \in Seq(S) /\ c \in Seq(S)
      BY <3>2, <3>3
    <3>4. (a \o b) \o c = a \o (b \o c)
      BY <3>9, Associative
    <3>5. a \o b \in Seq(S)
      BY <3>2, <3>3, ConcatFacts
    <3>6. g[i + 1] \in Seq(S) /\ g[i + 1] \o c = d[0]
      BY <3>2, <3>3, <3>4, <3>5
    <3>7. i \in G
      BY <3>1, <3>6 DEF c, G
    <3>8. QED
      BY <3>7 DEF i
  <2> HIDE DEF G
  <2>6. \A j \in 0..N - 1 : j \in G
    <3>1. N - 1 \in Nat
      BY <1>1, <2>2
    <3>2. QED
      BY <2>4, <2>5, <3>1, Upward
  <2>7. g[N] \in Seq(S) /\ g[N] \o d[N] = d[0]
    <3>1. N - 1 \in 0..N - 1 /\ (N - 1) + 1 = N
      BY <1>1, <2>2
    <3>2. QED
      BY <2>6, <3>1 DEF G
  <2>8. g[N] \o <<>> = g[N]
    BY <2>7
  <2>9. QED
    BY <1>2, <2>1, <2>7, <2>8 DEF N
<1>5. QED
  BY <1>3, <1>4

\* What Join puts together: the rests d after each of the texts.
Joined(texts, sep, d) ==
  /\ d[Len(texts)] = <<>>
  /\ d[Len(texts) - 1] = texts[Len(texts)]
  /\ \A k \in 0..Len(texts) - 2 : d[k] = texts[k + 1] \o (sep \o d[k + 1])

\* Texts with a separator behind all but the last.
LEMMA SeparatedTexts ==
  ASSUME NEW S, NEW n \in Nat, NEW texts, \A i \in 1..n : texts[i] \in Seq(S), NEW sep \in Seq(S)
  PROVE  LET ss == [i \in 1..n |-> IF i < n THEN texts[i] \o sep ELSE texts[i]]
         IN  ss \in Seq(Seq(S)) /\ Len(ss) = n
<1> DEFINE ss == [i \in 1..n |-> IF i < n THEN texts[i] \o sep ELSE texts[i]]
           Texts == Seq(S)
<1>1. ASSUME NEW i \in 1..n PROVE ss[i] \in Texts
  <2>1. texts[i] \in Seq(S) /\ texts[i] \o sep \in Seq(S)
    BY ConcatFacts
  <2>2. QED
    BY <2>1
<1>2. ss \in [1..n -> Texts]
  BY <1>1
<1> HIDE DEF ss, Texts
<1>3. n \in Nat
  OBVIOUS
<1>4. ss \in Seq(Texts)
  BY <1>2, <1>3, FunctionIsSeq
<1>5. Len(ss) = n
  BY <1>2, <1>3
<1>6. QED
  BY <1>4, <1>5 DEF ss, Texts

\* The same, for what is grouped to the left.
LEMMA Regroup ==
  ASSUME NEW S, NEW a \in Seq(S), NEW b \in Seq(S), NEW c \in Seq(S), NEW x, x = (a \o b) \o c
  PROVE  x = a \o (b \o c)
OBVIOUS

\* Join is the rest before the first text.
LEMMA JoinTails ==
  ASSUME NEW S, NEW texts \in Seq(Seq(S)), NEW sep \in Seq(S), texts # <<>>
  PROVE  \E d \in [0..Len(texts) -> Seq(S)] :
            Joined(texts, sep, d) /\ d[0] = Join(texts, sep)
<1> DEFINE N == Len(texts)
           ss == [i \in 1..N |-> IF i < N THEN texts[i] \o sep ELSE texts[i]]
<1>1. N \in Nat \ {0} /\ \A i \in 1..N : texts[i] \in Seq(S)
  OBVIOUS
<1>2. Join(texts, sep) = FlattenSeq(ss)
  BY Zenon DEF Join
<1> HIDE DEF N
<1>3. ss \in Seq(Seq(S)) /\ Len(ss) = N
  BY <1>1, SeparatedTexts
<1>4. ss[N] = texts[N] /\ \A i \in 1..N - 1 : ss[i] = texts[i] \o sep
  BY <1>1
<1> HIDE DEF ss
<1>5. PICK d \in [0..N -> Seq(S)] : Tails(ss, d)
  BY <1>3, TailsExist
<1>6. d[0] = Join(texts, sep)
  BY <1>2, <1>3, <1>5, FlattenTails
<1>7. d[N] = <<>> /\ \A k \in 0..N - 1 : d[k] = ss[k + 1] \o d[k + 1]
  BY <1>3, <1>5 DEF Tails
<1>8. d[N - 1] = texts[N]
  <2>1. N - 1 \in 0..N - 1 /\ (N - 1) + 1 = N /\ N \in 1..N
    BY <1>1
  <2>2. d[N - 1] = texts[N] \o <<>>
    BY <1>4, <1>7, <2>1
  <2>3. texts[N] \o <<>> = texts[N]
    BY <1>1, <2>1
  <2>4. QED
    BY <2>2, <2>3
<1>9. ASSUME NEW k \in 0..N - 2 PROVE d[k] = texts[k + 1] \o (sep \o d[k + 1])
  <2> DEFINE a == texts[k + 1]
             c == d[k + 1]
  <2>1. k \in 0..N - 1 /\ k + 1 \in 1..N - 1 /\ k + 1 \in 1..N /\ k + 1 \in 0..N
    BY <1>1
  <2>2. a \in Seq(S) /\ c \in Seq(S) /\ d[k] = (a \o sep) \o c
    BY <1>1, <1>4, <1>5, <1>7, <2>1
  <2> HIDE DEF a, c
  <2>3. a \in Seq(S) /\ sep \in Seq(S) /\ c \in Seq(S)
    BY <2>2
  <2>5. d[k] = a \o (sep \o c)
    BY <2>2, <2>3, Regroup
  <2>6. QED
    BY <2>5 DEF a, c
<1>10. QED
  BY <1>5, <1>6, <1>7, <1>8, <1>9 DEF Joined, N

\* No rest but the last is empty.
LEMMA JoinLength ==
  ASSUME NEW S, NEW texts \in Seq(Seq(S)), NEW sep \in Seq(S), texts # <<>>,
         NEW d \in [0..Len(texts) -> Seq(S)], Joined(texts, sep, d),
         sep # <<>>, texts[Len(texts)] # <<>>
  PROVE  \A k \in 0..Len(texts) : Len(d[k]) >= Len(texts) - k
<1> DEFINE N == Len(texts)
           G == {j \in 0..N : Len(d[N - j]) >= j}
<1>1. N \in Nat \ {0} /\ \A i \in 1..N : texts[i] \in Seq(S)
  OBVIOUS
<1>2. /\ d[N] = <<>> /\ d[N - 1] = texts[N] /\ texts[N] # <<>>
      /\ \A k \in 0..N - 2 : d[k] = texts[k + 1] \o (sep \o d[k + 1])
      /\ \A k \in 0..N : d[k] \in Seq(S)
  BY DEF Joined
<1> HIDE DEF N
<1>3. 0 \in G
  <2>1. 0 \in 0..N /\ N - 0 = N
    BY <1>1
  <2>2. Len(d[N]) >= 0
    BY <1>2
  <2>3. QED
    BY <2>1, <2>2
<1>4. ASSUME NEW j \in 0..N - 1, j \in G PROVE j + 1 \in G
  <2> DEFINE k == N - (j + 1)
  <2>1. k \in 0..N - 1 /\ N - j = k + 1 /\ j + 1 \in 0..N /\ k \in 0..N /\ k + 1 \in 0..N
    BY <1>1
  <2>2. Len(d[k + 1]) >= j
    BY <1>4, <2>1
  <2>3. CASE k = N - 1
    <3>1. N \in 1..N /\ j = 0
      BY <1>1, <2>3
    <3>2. Len(texts[N]) >= 1
      BY <1>1, <1>2, <3>1
    <3> HIDE DEF k
    <3>3. Len(d[k]) >= j + 1
      BY <1>2, <2>3, <3>1, <3>2
    <3>4. QED
      BY <2>1, <3>3 DEF k
  <2>4. CASE k # N - 1
    <3> DEFINE a == texts[k + 1]
               c == d[k + 1]
    <3>1. k \in 0..N - 2 /\ k + 1 \in 1..N
      BY <1>1, <2>1, <2>4
    <3> HIDE DEF k
    <3>2. a \in Seq(S) /\ c \in Seq(S) /\ d[k] = a \o (sep \o c) /\ Len(c) >= j
      BY <1>1, <1>2, <2>1, <2>2, <3>1
    <3> HIDE DEF a, c
    <3>3. sep \o c \in Seq(S) /\ Len(sep \o c) = Len(sep) + Len(c)
      BY <3>2, ConcatFacts
    <3> DEFINE e == sep \o c
    <3> HIDE DEF e
    <3>4. e \in Seq(S) /\ Len(e) = Len(sep) + Len(c) /\ d[k] = a \o e
      BY <3>2, <3>3 DEF e
    <3>5. Len(a \o e) = Len(a) + Len(e)
      BY <3>2, <3>4, ConcatFacts
    <3>6. Len(a) \in Nat /\ Len(sep) \in Nat \ {0} /\ Len(c) \in Nat
      BY <3>2
    <3>7. Len(d[k]) >= j + 1
      BY <3>2, <3>4, <3>5, <3>6
    <3>8. QED
      BY <2>1, <3>7 DEF k
  <2>5. QED
    BY <2>3, <2>4
<1> HIDE DEF G
<1>5. \A j \in 0..N : j \in G
  BY <1>1, <1>3, <1>4, Upward
<1>6. ASSUME NEW k \in 0..N PROVE Len(d[k]) >= N - k
  <2>1. N - k \in 0..N /\ N - (N - k) = k
    BY <1>1
  <2>2. N - k \in G
    BY <1>5, <2>1
  <2>3. QED
    BY <2>1, <2>2 DEF G
<1>7. QED
  BY <1>6 DEF N

\* A loop that takes off a rest at a time and adds what it makes of it.
ChopsOff(n, N, out, d, data, res) ==
  /\ data[0] = d[0] /\ res[0] = <<>> /\ d[n] = <<>>
  /\ \A k \in 0..N - 1 : \A j \in 0..n - 1 :
       data[k] = d[j] => data[k + 1] = d[j + 1] /\ res[k + 1] = Append(res[k], out[j + 1])
  /\ \A k \in 0..N - 1 : data[k] = <<>> => data[k + 1] = <<>> /\ res[k + 1] = res[k]

\* After as many passes as there are texts it is done.
LEMMA Chops ==
  ASSUME NEW n \in Nat, NEW N \in Nat, n <= N, NEW T, NEW out \in Seq(T), Len(out) = n,
         NEW d, NEW data, NEW res, ChopsOff(n, N, out, d, data, res)
  PROVE  res[N] = out
<1>0. /\ data[0] = d[0] /\ res[0] = <<>> /\ d[n] = <<>>
      /\ \A k \in 0..N - 1 : \A j \in 0..n - 1 :
           data[k] = d[j] => data[k + 1] = d[j + 1] /\ res[k + 1] = Append(res[k], out[j + 1])
      /\ \A k \in 0..N - 1 : data[k] = <<>> => data[k + 1] = <<>> /\ res[k + 1] = res[k]
  BY DEF ChopsOff
<1> DEFINE G == {k \in 0..n : data[k] = d[k] /\ res[k] = SubSeq(out, 1, k)}
           H == {k \in 0..N - n : data[n + k] = <<>> /\ res[n + k] = out}
<1>1. 0 \in G
  <2>1. SubSeq(out, 1, 0) = <<>> /\ 0 \in 0..n
    OBVIOUS
  <2>2. QED
    BY <1>0, <2>1
<1>2. ASSUME NEW k \in 0..n - 1, k \in G PROVE k + 1 \in G
  <2> DEFINE a == SubSeq(out, 1, k)
  <2>1. k \in 0..N - 1 /\ k + 1 \in 0..n
    OBVIOUS
  <2>2. data[k + 1] = d[k + 1] /\ res[k + 1] = Append(a, out[k + 1])
    BY <1>0, <1>2, <2>1
  <2>3. Append(a, out[k + 1]) = SubSeq(out, 1, k + 1)
    BY <2>1
  <2>4. QED
    BY <2>1, <2>2, <2>3
<1> HIDE DEF G
<1>3. \A k \in 0..n : k \in G
  BY <1>1, <1>2, Upward
<1>4. data[n] = <<>> /\ res[n] = out
  <2>1. n \in G
    BY <1>3
  <2>2. SubSeq(out, 1, n) = out
    OBVIOUS
  <2>3. QED
    BY <1>0, <2>1, <2>2 DEF G
<1>5. 0 \in H
  BY <1>4
<1>6. ASSUME NEW k \in 0..(N - n) - 1, k \in H PROVE k + 1 \in H
  <2>1. n + k \in 0..N - 1 /\ (n + k) + 1 = n + (k + 1) /\ k + 1 \in 0..N - n
    OBVIOUS
  <2>2. data[n + k] = <<>> /\ res[n + k] = out
    BY <1>6
  <2>3. QED
    BY <1>0, <2>1, <2>2
<1>7. N - n \in Nat
  OBVIOUS
<1> HIDE DEF H
<1>8. \A k \in 0..N - n : k \in H
  BY <1>5, <1>6, <1>7, Upward
<1>9. N - n \in H /\ n + (N - n) = N
  BY <1>7, <1>8
<1>10. QED
  BY <1>9 DEF H

-----------------------------------------------------------------------------
(* Escapes.                                                                *)

\* A prefix grows by the next element.
LEMMA OneMoreElement ==
  ASSUME NEW S, NEW t \in Seq(S), NEW i \in 1..Len(t) - 1
  PROVE  SubSeq(t, 1, i) \o <<t[i + 1]>> = SubSeq(t, 1, i + 1)
<1> DEFINE a == SubSeq(t, 1, i)
           c == t[i + 1]
           b == SubSeq(t, 1, i + 1)
<1>1. a \in Seq(S) /\ Len(a) = i /\ \A k \in 1..i : a[k] = t[k]
  OBVIOUS
<1>2. b \in Seq(S) /\ Len(b) = i + 1 /\ \A k \in 1..i + 1 : b[k] = t[k]
  OBVIOUS
<1>3. c \in S /\ c = t[i + 1] /\ i \in Nat
  OBVIOUS
<1> HIDE DEF a, b, c
<1>4. a \o <<c>> = Append(a, c)
  BY <1>1, <1>3
<1>5. /\ Append(a, c) \in Seq(S) /\ Len(Append(a, c)) = i + 1
      /\ \A k \in 1..i + 1 : Append(a, c)[k] = b[k]
  BY <1>1, <1>2, <1>3
<1>6. Append(a, c) = b
  BY <1>2, <1>5, SameSeq
<1>7. QED
  BY <1>4, <1>6 DEF a, b, c

\* The first prefix that is not empty.
LEMMA FirstElement ==
  ASSUME NEW S, NEW t \in Seq(S), Len(t) # 0
  PROVE  SubSeq(t, 1, 1) = <<t[1]>>
<1> DEFINE a == SubSeq(t, 1, 1)
           b == <<t[1]>>
<1>1. a \in Seq(S) /\ Len(a) = 1 /\ a[1] = t[1]
  OBVIOUS
<1>2. b \in Seq(S) /\ Len(b) = 1 /\ b[1] = t[1]
  OBVIOUS
<1> HIDE DEF a, b
<1>3. a = b
  BY <1>1, <1>2, SameSeq
<1>4. QED
  BY <1>3 DEF a, b

\* A text cut up into its bytes.
LEMMA FlattenOnes ==
  ASSUME NEW S, NEW t \in Seq(S)
  PROVE  FlattenSeq([i \in 1..Len(t) |-> <<t[i]>>]) = t
<1> DEFINE N == Len(t)
           ss == [i \in 1..N |-> <<t[i]>>]
<1>1. N \in Nat /\ \A i \in 1..N : t[i] \in S
  OBVIOUS
<1>2. ss \in Seq(Seq(S)) /\ Len(ss) = N
  <2> DEFINE T == Seq(S)
  <2>1. ASSUME NEW i \in 1..N PROVE <<t[i]>> \in T
    BY <1>1
  <2> HIDE DEF T, N
  <2>2. ss \in [1..N -> T]
    BY <2>1
  <2> HIDE DEF ss
  <2>3. ss \in Seq(T) /\ Len(ss) = N
    BY <1>1, <2>2, FunctionIsSeq
  <2>4. QED
    BY <2>3 DEF T
<1>3. CASE N = 0
  <2>1. ss = <<>> /\ t = <<>>
    BY <1>3
  <2>2. FlattenSeq(ss) = <<>>
    <3> HIDE DEF N, ss
    <3>1. Len(ss) = 0
      BY <1>2, <1>3
    <3>2. QED
      BY <2>1, <3>1, Zenon DEF FlattenSeq
  <2>3. QED
    BY <2>1, <2>2
<1>4. CASE N # 0
  <2>1. ss # <<>>
    BY <1>4
  <2>2. PICK g : Flattens(ss, g) /\ FlattenSeq(ss) = g[Len(ss)]
    <3> HIDE DEF ss
    <3>1. QED
      BY <1>2, <2>1, FlattenSteps
  <2>3. g[1] = ss[1] /\ \A i \in 1..N - 1 : g[i + 1] = g[i] \o ss[i + 1]
    BY <1>2, <2>2 DEF Flattens
  <2>4. \A i \in 1..N : ss[i] = <<t[i]>>
    OBVIOUS
  <2> HIDE DEF ss
  <2> DEFINE G == {j \in 0..N - 1 : g[j + 1] = SubSeq(t, 1, j + 1)}
  <2>5. 0 \in G
    <3>1. 0 \in 0..N - 1 /\ 1 \in 1..N
      BY <1>1, <1>4
    <3>2. SubSeq(t, 1, 1) = <<t[1]>>
      BY <1>4, FirstElement
    <3>3. QED
      BY <2>3, <2>4, <3>1, <3>2
  <2>6. ASSUME NEW j \in 0..(N - 1) - 1, j \in G PROVE j + 1 \in G
    <3> DEFINE i == j + 1
    <3>1. i \in 1..N - 1 /\ i + 1 \in 1..N /\ i \in 0..N - 1
      OBVIOUS
    <3>2. g[i] = SubSeq(t, 1, i)
      BY <2>6
    <3> HIDE DEF i
    <3>3. g[i + 1] = SubSeq(t, 1, i) \o <<t[i + 1]>>
      BY <2>3, <2>4, <3>1, <3>2
    <3>4. g[i + 1] = SubSeq(t, 1, i + 1)
      BY <3>1, <3>3, OneMoreElement
    <3>5. i \in G
      BY <3>1, <3>4
    <3>6. QED
      BY <3>5 DEF i
  <2> HIDE DEF G
  <2>7. \A j \in 0..N - 1 : j \in G
    <3>1. N - 1 \in Nat
      BY <1>1, <1>4
    <3>2. QED
      BY <2>5, <2>6, <3>1, Upward
  <2>8. g[N] = SubSeq(t, 1, N)
    <3>1. N - 1 \in 0..N - 1 /\ (N - 1) + 1 = N
      BY <1>1, <1>4
    <3>2. QED
      BY <2>7, <3>1 DEF G
  <2>9. SubSeq(t, 1, N) = t
    OBVIOUS
  <2>10. QED
    BY <1>2, <2>2, <2>8, <2>9 DEF ss
<1>5. QED
  BY <1>3, <1>4

\* Text with no escape in it and no NUL, which handlers bake into cookies.
PlainBytes == Bytes \ (DOMAIN Unescaped \cup {NUL})
Plain == Seq(PlainBytes)

EscapeOne(c) ==
  IF c \in {"+"} \/ Escapes(c) = {} THEN c ELSE CHOOSE e \in Escapes(c) : TRUE
UnescapeOne(c) == IF c \in DOMAIN Unescaped THEN Unescaped[c] ELSE <<c>>

\* An escape is undone, and is nothing that parts.
LEMMA EscapeOneFacts ==
  ASSUME NEW c \in Bytes \ DOMAIN Unescaped
  PROVE  EscapeOne(c) \in Bytes \ Parting /\ UnescapeOne(EscapeOne(c)) = <<c>>
<1> DEFINE e == EscapeOne(c)
<1>1. CASE c \in {"+"} \/ Escapes(c) = {}
  <2>1. e = c
    BY <1>1, Zenon DEF EscapeOne
  <2>2. c \notin Parting
    <3>1. "+" \notin Parting
      BY Zenon DEF Parting
    <3>2. QED
      BY <1>1, <3>1, EscapeAssumption, Zenon
  <2>3. c \notin DOMAIN Unescaped
    OBVIOUS
  <2>4. QED
    BY <2>1, <2>2, <2>3, Zenon DEF UnescapeOne
<1>2. CASE ~ (c \in {"+"} \/ Escapes(c) = {})
  <2>1. e \in Escapes(c)
    BY <1>2, Zenon DEF EscapeOne
  <2> HIDE DEF e
  <2>2. e \in DOMAIN Unescaped /\ Unescaped[e] = <<c>>
    BY <2>1, Zenon DEF Escapes
  <2>3. e \in Bytes /\ e \notin Parting
    BY <2>2, EscapeAssumption, Zenon
  <2>4. e \in Bytes \ Parting /\ UnescapeOne(e) = <<c>>
    BY <2>2, <2>3, Zenon DEF UnescapeOne
  <2>5. QED
    BY <2>4 DEF e
<1>3. QED
  BY <1>1, <1>2

\* So is that of a text, byte for byte.
LEMMA EscapeUrlFacts ==
  ASSUME NEW t \in Plain
  PROVE  /\ EscapeUrl(t) \in Text
         /\ Len(EscapeUrl(t)) = Len(t)
         /\ Free(EscapeUrl(t), Parting)
         /\ Unescape(EscapeUrl(t)) = t
<1> DEFINE N == Len(t)
           u == [i \in 1..N |-> EscapeOne(t[i])]
<1>1. /\ t \in Seq(PlainBytes) /\ N \in Nat
      /\ \A i \in 1..N : t[i] \in Bytes \ DOMAIN Unescaped /\ t[i] # NUL
  <2>1. t \in Seq(PlainBytes)
    BY DEF Plain
  <2>2. N \in Nat /\ \A i \in 1..N : t[i] \in PlainBytes
    BY <2>1
  <2>3. QED
    BY <2>1, <2>2 DEF PlainBytes
<1>2. EscapeUrl(t) = u
  BY Zenon DEF EscapeUrl, EscapeAll, EscapeOne
<1>3. \A i \in 1..N : EscapeOne(t[i]) \in Bytes \ Parting /\ UnescapeOne(EscapeOne(t[i])) = <<t[i]>>
  BY <1>1, EscapeOneFacts
<1>4. \A i \in 1..N : u[i] \in Bytes /\ u[i] \notin Parting /\ UnescapeOne(u[i]) = <<t[i]>>
  <2>1. \A i \in 1..N : u[i] = EscapeOne(t[i])
    OBVIOUS
  <2> HIDE DEF u, N
  <2>2. QED
    BY <1>3, <2>1
<1>5. u \in Text /\ Len(u) = N
  <2> HIDE DEF N
  <2>1. u \in [1..N -> Bytes]
    BY <1>4
  <2> HIDE DEF u
  <2>2. QED
    BY <1>1, <2>1, FunctionIsSeq DEF Text
<1> HIDE DEF u
<1>6. Unescape(u) = CString(FlattenSeq([i \in 1..N |-> <<t[i]>>]))
  <2> DEFINE ss == [i \in 1..Len(u) |-> IF u[i] \in DOMAIN Unescaped THEN Unescaped[u[i]] ELSE <<u[i]>>]
             ones == [i \in 1..N |-> <<t[i]>>]
  <2>1. Unescape(u) = CString(FlattenSeq(ss))
    BY Zenon DEF Unescape
  <2>2. \A i \in 1..N : (IF u[i] \in DOMAIN Unescaped THEN Unescaped[u[i]] ELSE <<u[i]>>) = <<t[i]>>
    BY <1>4, Zenon DEF UnescapeOne
  <2>3. ss = ones
    <3> HIDE DEF N
    <3>1. QED
      BY <1>5, <2>2
  <2>4. QED
    BY <2>1, <2>3
<1>7. FlattenSeq([i \in 1..N |-> <<t[i]>>]) = t
  BY <1>1, FlattenOnes
<1>8. Free(u, Parting)
  BY <1>4, <1>5 DEF Free
<1>9. CString(t) = t
  <2>1. t \in Text /\ Free(t, {NUL})
    <3>1. PlainBytes \subseteq Bytes
      BY DEF PlainBytes
    <3>2. QED
      BY <1>1, <3>1 DEF Text, Free
  <2>2. QED
    BY <2>1, CStringFree
<1>10. QED
  BY <1>2, <1>5, <1>6, <1>7, <1>8, <1>9

-----------------------------------------------------------------------------
(* Cookies that come back.                                                 *)

\* Texts without a stop make one without a stop.
LEMMA FreeBoth ==
  ASSUME NEW S, NEW a \in Seq(S), NEW b \in Seq(S), NEW stops, Free(a, stops), Free(b, stops)
  PROVE  Free(a \o b, stops)
<1> DEFINE w == a \o b
<1>1. /\ Len(w) = Len(a) + Len(b) /\ \A i \in 1..Len(a) : w[i] = a[i]
      /\ \A i \in 1..Len(b) : w[Len(a) + i] = b[i]
      /\ Len(a) \in Nat /\ Len(b) \in Nat
  BY ConcatFacts
<1> HIDE DEF w
<1>2. ASSUME NEW i \in 1..Len(w) PROVE w[i] \notin stops
  <2>1. CASE i \in 1..Len(a)
    BY <1>1, <2>1 DEF Free
  <2>2. CASE i \notin 1..Len(a)
    <3>1. i - Len(a) \in 1..Len(b) /\ Len(a) + (i - Len(a)) = i
      BY <1>1, <2>2
    <3>2. QED
      BY <1>1, <3>1 DEF Free
  <2>3. QED
    BY <2>1, <2>2
<1>3. QED
  BY <1>2 DEF Free, w

\* A text without any stop is without some of them.
LEMMA FreeOfFewer ==
  ASSUME NEW t, NEW stops, NEW more, stops \subseteq more, Free(t, more)
  PROVE  Free(t, stops)
BY DEF Free

\* Nor has what they are joined to, unless the separator is one.
LEMMA JoinFree ==
  ASSUME NEW S, NEW texts \in Seq(Seq(S)), NEW sep \in Seq(S), texts # <<>>,
         NEW d \in [0..Len(texts) -> Seq(S)], Joined(texts, sep, d),
         NEW stops, Free(sep, stops), \A i \in 1..Len(texts) : Free(texts[i], stops)
  PROVE  \A k \in 0..Len(texts) : Free(d[k], stops)
<1> DEFINE N == Len(texts)
           G == {j \in 0..N : Free(d[N - j], stops)}
<1>1. N \in Nat \ {0} /\ \A i \in 1..N : texts[i] \in Seq(S) /\ Free(texts[i], stops)
  OBVIOUS
<1>2. /\ d[N] = <<>> /\ d[N - 1] = texts[N]
      /\ \A k \in 0..N - 2 : d[k] = texts[k + 1] \o (sep \o d[k + 1])
      /\ \A k \in 0..N : d[k] \in Seq(S)
  BY DEF Joined
<1> HIDE DEF N
<1>3. 0 \in G
  <2>1. 0 \in 0..N /\ N - 0 = N
    BY <1>1
  <2>2. Free(<<>>, stops)
    BY DEF Free
  <2>3. QED
    BY <1>2, <2>1, <2>2
<1>4. ASSUME NEW j \in 0..N - 1, j \in G PROVE j + 1 \in G
  <2> DEFINE k == N - (j + 1)
  <2>1. k \in 0..N - 1 /\ N - j = k + 1 /\ j + 1 \in 0..N /\ k \in 0..N /\ k + 1 \in 0..N
    BY <1>1
  <2>2. Free(d[k + 1], stops)
    BY <1>4, <2>1
  <2>3. CASE k = N - 1
    <3>1. Free(texts[N], stops)
      BY <1>1
    <3> HIDE DEF k
    <3>2. Free(d[k], stops)
      BY <1>2, <2>3, <3>1
    <3>3. QED
      BY <2>1, <3>2 DEF k
  <2>4. CASE k # N - 1
    <3> DEFINE a == texts[k + 1]
               c == d[k + 1]
               e == sep \o c
    <3>1. k \in 0..N - 2 /\ k + 1 \in 1..N
      BY <1>1, <2>1, <2>4
    <3> HIDE DEF k
    <3>2. a \in Seq(S) /\ c \in Seq(S) /\ d[k] = a \o e /\ Free(a, stops) /\ Free(c, stops)
      BY <1>1, <1>2, <2>1, <2>2, <3>1
    <3> HIDE DEF a, c
    <3>3. e \in Seq(S) /\ Free(e, stops)
      BY <3>2, ConcatFacts, FreeBoth
    <3> HIDE DEF e
    <3>4. Free(d[k], stops)
      BY <3>2, <3>3, FreeBoth
    <3>5. QED
      BY <2>1, <3>4 DEF k
  <2>5. QED
    BY <2>3, <2>4
<1> HIDE DEF G
<1>5. \A j \in 0..N : j \in G
  BY <1>1, <1>3, <1>4, Upward
<1>6. ASSUME NEW k \in 0..N PROVE Free(d[k], stops)
  <2>1. N - k \in 0..N /\ N - (N - k) = k
    BY <1>1
  <2>2. N - k \in G
    BY <1>5, <2>1
  <2>3. QED
    BY <2>1, <2>2 DEF G
<1>7. QED
  BY <1>6 DEF N

\* The texts of the values, and what CookieValues makes of each rest of them.
LEMMA RestAfter ==
  ASSUME NEW t \in Text, NEW u \in Text, NEW amp \in Bytes, amp = "&", Free(t, {amp})
  PROVE  /\ Before(t \o (<<amp>> \o u), {"&"}) = t
         /\ RestOf(t \o (<<amp>> \o u)) = u
<1> DEFINE x == <<amp>> \o u
           w == t \o x
           b == t \o <<amp>>
<1>1. t \in Seq(Bytes) /\ u \in Seq(Bytes) /\ <<amp>> \in Seq(Bytes)
  BY DEF Text
<1>2. x \in Seq(Bytes) /\ x # <<>> /\ x[1] \in {amp}
  <2>1. x \in Seq(Bytes) /\ Len(x) = 1 + Len(u) /\ x[1] = amp /\ Len(u) \in Nat
    BY <1>1, OneFirst
  <2> HIDE DEF x
  <2>2. QED
    BY <2>1
<1>3. Before(w, {amp}) = t
  <2> HIDE DEF x
  <2>1. QED
    BY <1>1, <1>2, BeforeStop
<1>4. b \in Seq(Bytes) /\ Len(b) = Len(t) + 1
  BY <1>1
<1>5. w = b \o u
  <2>1. b \o u = (t \o <<amp>>) \o u
    OBVIOUS
  <2> DEFINE y == b \o u
             one == <<amp>>
  <2>2. y = (t \o one) \o u /\ one \in Seq(Bytes) /\ w = t \o (one \o u)
    BY <1>1
  <2> HIDE DEF y, one, w
  <2>3. y = t \o (one \o u)
    BY <1>1, <2>2, Regroup
  <2>4. QED
    BY <2>2, <2>3 DEF y
<1> HIDE DEF b
<1>6. SubSeq(b \o u, Len(b) + 1, Len(b \o u)) = u
  BY <1>1, <1>4, DropFirst
<1> HIDE DEF w
<1>7. SubSeq(w, Len(b) + 1, Len(w)) = u
  BY <1>5, <1>6
<1>8. Len(b) + 1 = Len(t) + 2
  BY <1>1, <1>4
<1>9. Before(w, {"&"}) = t
  BY <1>3
<1>10. RestOf(w) = SubSeq(w, Len(t) + 2, Len(w))
  BY <1>9, Zenon DEF RestOf
<1>11. RestOf(w) = u
  BY <1>7, <1>8, <1>10
<1>12. QED
  BY <1>9, <1>11 DEF w, x

\* The last value ends with the text.
LEMMA RestAtEnd ==
  ASSUME NEW t \in Text, Free(t, {"&"})
  PROVE  Before(t, {"&"}) = t /\ RestOf(t) = <<>>
<1>1. t \in Seq(Bytes)
  BY DEF Text
<1>2. Before(t, {"&"}) = t
  BY <1>1, BeforeFree
<1>3. RestOf(t) = SubSeq(t, Len(t) + 2, Len(t))
  BY <1>2, Zenon DEF RestOf
<1>4. SubSeq(t, Len(t) + 2, Len(t)) = <<>>
  BY <1>1
<1>5. QED
  BY <1>2, <1>3, <1>4

\* What CookieValues makes of values that are escaped and joined.
LEMMA ValuesBack ==
  ASSUME NEW n \in Nat \ {0}, NEW values \in Seq(Plain), Len(values) = n,
         NEW texts \in Seq(Text), Len(texts) = n,
         \A i \in 1..n : texts[i] = EscapeUrl(values[i]),
         values[n] # <<>>
  PROVE  CookieValues(Join(texts, <<"&">>)) = values
<1> DEFINE amp == "&"
           sep == <<amp>>
           line == Join(texts, sep)
<1>1. amp \in Parting /\ amp \in Bytes /\ amp = "&"
  BY EscapeAssumption, Zenon DEF Parting
<1> HIDE DEF amp
<1>2. sep \in Seq(Bytes) /\ sep # <<>>
  BY <1>1
<1>3. texts \in Seq(Seq(Bytes)) /\ texts # <<>>
  BY DEF Text
<1>4. ASSUME NEW i \in 1..n
      PROVE  /\ texts[i] \in Text /\ Free(texts[i], {amp}) /\ Unescape(texts[i]) = values[i]
             /\ Len(texts[i]) = Len(values[i])
  <2>1. values[i] \in Plain /\ texts[i] = EscapeUrl(values[i])
    OBVIOUS
  <2>2. Free(texts[i], Parting) /\ texts[i] \in Text /\ Unescape(texts[i]) = values[i]
        /\ Len(texts[i]) = Len(values[i])
    BY <2>1, EscapeUrlFacts
  <2>3. {amp} \subseteq Parting
    BY <1>1
  <2>4. QED
    BY <2>2, <2>3, FreeOfFewer
<1>5. texts[n] # <<>>
  <2>1. n \in 1..n /\ values[n] \in Plain
    OBVIOUS
  <2>2. Len(values[n]) # 0
    <3> DEFINE P == PlainBytes
               v == values[n]
    <3>1. v \in Seq(P) /\ v # <<>>
      BY <2>1 DEF Plain
    <3> HIDE DEF P, v
    <3>2. Len(v) # 0
      BY <3>1
    <3>3. QED
      BY <3>2 DEF v
  <2>3. Len(texts[n]) # 0
    BY <1>4, <2>1, <2>2
  <2>4. QED
    BY <2>3
<1> HIDE DEF sep
<1>6. PICK d \in [0..n -> Seq(Bytes)] : Joined(texts, sep, d) /\ d[0] = Join(texts, sep)
  BY <1>2, <1>3, JoinTails
<1>7. /\ d[n] = <<>> /\ d[n - 1] = texts[n]
      /\ \A k \in 0..n - 2 : d[k] = texts[k + 1] \o (sep \o d[k + 1])
      /\ \A k \in 0..n : d[k] \in Text
  BY <1>6 DEF Joined, Text
<1>8. \A k \in 0..n : Len(d[k]) >= n - k
  BY <1>2, <1>3, <1>5, <1>6, JoinLength
<1>9. line = d[0] /\ line \in Text
  BY <1>6, <1>7
<1> HIDE DEF line
<1> DEFINE N == Len(line)
<1>10. N \in Nat /\ n <= N
  <2>1. Len(d[0]) >= n - 0
    BY <1>8
  <2>2. N \in Nat
    BY <1>9 DEF Text
  <2>3. QED
    BY <1>9, <2>1, <2>2
<1>11. PICK it : ValueLoop(line, it) /\ CookieValues(line) = it[N].values
  BY <1>9, CookieValuesLoop
<1> HIDE DEF N
<1>12. /\ it[0].data = line /\ it[0].values = <<>>
       /\ \A k \in 0..N - 1 : it[k + 1] = ValueStep(it[k])
  <2>1. it[0] = [data |-> line, values |-> <<>>]
    BY <1>11 DEF ValueLoop
  <2>2. \A k \in 0..N - 1 : it[k + 1] = ValueStep(it[k])
    BY <1>11 DEF ValueLoop, N
  <2>3. QED
    BY <2>1, <2>2
<1>13. ASSUME NEW j \in 0..n - 1
       PROVE  /\ d[j] # <<>>
              /\ Unescape(Before(d[j], {"&"})) = values[j + 1] /\ RestOf(d[j]) = d[j + 1]
  <2>1. j + 1 \in 1..n /\ j \in 0..n /\ j + 1 \in 0..n
    OBVIOUS
  <2>2. d[j] # <<>>
    <3>1. Len(d[j]) >= n - j /\ n - j > 0
      BY <1>8, <2>1
    <3>2. QED
      BY <3>1
  <2> DEFINE t == texts[j + 1]
             u == d[j + 1]
  <2>3. t \in Text /\ Free(t, {amp}) /\ Unescape(t) = values[j + 1] /\ u \in Text
    BY <1>4, <1>7, <2>1
  <2> HIDE DEF t
  <2>4. CASE j = n - 1
    <3>1. d[j] = t /\ u = <<>>
      BY <1>7, <2>4 DEF t
    <3> HIDE DEF u
    <3>2. Before(t, {"&"}) = t /\ RestOf(t) = <<>>
      BY <1>1, <2>3, RestAtEnd
    <3>3. QED
      BY <2>2, <2>3, <3>1, <3>2 DEF u
  <2>5. CASE j # n - 1
    <3>1. j \in 0..n - 2
      BY <2>5
    <3>2. d[j] = t \o (<<amp>> \o u)
      BY <1>7, <3>1 DEF t, sep
    <3> HIDE DEF u
    <3>3. Before(t \o (<<amp>> \o u), {"&"}) = t /\ RestOf(t \o (<<amp>> \o u)) = u
      BY <1>1, <2>3, RestAfter
    <3>4. QED
      BY <2>2, <2>3, <3>2, <3>3 DEF u
  <2>6. QED
    BY <2>4, <2>5
<1> DEFINE data == [k \in 0..N |-> it[k].data]
           res == [k \in 0..N |-> it[k].values]
<1>14. \A k \in 0..N : data[k] = it[k].data /\ res[k] = it[k].values
  OBVIOUS
<1>15. data[0] = d[0] /\ res[0] = <<>> /\ res[N] = it[N].values
  BY <1>9, <1>10, <1>12, <1>14
<1> HIDE DEF data, res
<1>16. ASSUME NEW k \in 0..N - 1, NEW j \in 0..n - 1, data[k] = d[j]
       PROVE  data[k + 1] = d[j + 1] /\ res[k + 1] = Append(res[k], values[j + 1])
  <2> DEFINE s == it[k]
             rest == RestOf(s.data)
             more == Append(s.values, Unescape(Before(s.data, {"&"})))
  <2>1. k \in 0..N /\ k + 1 \in 0..N
    BY <1>10
  <2>2. s.data = d[j] /\ s.data # <<>> /\ res[k] = s.values
    BY <1>13, <1>14, <1>16, <2>1
  <2>3. it[k + 1] = [data |-> rest, values |-> more]
    BY <1>12, <2>2, Zenon DEF ValueStep
  <2>4. rest = d[j + 1] /\ more = Append(res[k], values[j + 1])
    BY <1>13, <2>2
  <2> HIDE DEF rest, more
  <2>5. it[k + 1].data = rest /\ it[k + 1].values = more
    BY <2>3
  <2>6. QED
    BY <1>14, <2>1, <2>4, <2>5
<1>17. ASSUME NEW k \in 0..N - 1, data[k] = <<>>
       PROVE  data[k + 1] = <<>> /\ res[k + 1] = res[k]
  <2>1. k \in 0..N /\ k + 1 \in 0..N
    BY <1>10
  <2>2. it[k].data = <<>>
    BY <1>14, <1>17, <2>1
  <2>3. it[k + 1] = it[k]
    BY <1>12, <2>2, Zenon DEF ValueStep
  <2>4. QED
    BY <1>14, <1>17, <2>1, <2>3
<1>18. res[N] = values
  <2>1. ChopsOff(n, N, values, d, data, res)
    BY <1>7, <1>15, <1>16, <1>17 DEF ChopsOff
  <2>2. QED
    BY <1>10, <2>1, Chops
<1>19. CookieValues(line) = values
  BY <1>11, <1>15, <1>18
<1>20. QED
  BY <1>1, <1>19 DEF line, sep

\* The characters that part cookies, under names: the SMT solver takes few
\* characters in strings.
Amp == "&"
Semi == ";"
Blank == " "
Equals == "="

\* The bytes that part are different ones.
LEMMA Partings ==
  /\ Parting = {Semi, Blank, Equals, Amp}
  /\ Amp \in Bytes /\ Semi \in Bytes /\ Blank \in Bytes /\ Equals \in Bytes
  /\ Amp \notin {Semi, Blank, Equals} /\ Equals \notin {Semi, Blank} /\ Blank # Semi
<1>1. Parting = {Semi, Blank, Equals, Amp}
  BY Zenon DEF Parting, Semi, Blank, Equals, Amp
<1>2. Amp \notin {Semi, Blank, Equals}
  BY Zenon DEF Semi, Blank, Equals, Amp
<1>3. Equals \notin {Semi, Blank} /\ Blank # Semi
  BY Zenon DEF Semi, Blank, Equals
<1>4. QED
  BY <1>1, <1>2, <1>3, EscapeAssumption

\* What cookies are baked with: values with no escape in them, the last not
\* empty unless it is the only one.
Baked ==
  {c \in [name : Plain, values : Seq(Plain)] :
     /\ c.values # <<>>
     /\ Len(c.values) = 1 \/ c.values[Len(c.values)] # <<>>}

\* The values of a cookie, escaped and joined.
LEMMA LineFacts ==
  ASSUME NEW n \in Nat \ {0}, NEW values \in Seq(Plain), Len(values) = n,
         NEW texts \in Seq(Text), Len(texts) = n,
         \A i \in 1..n : texts[i] = EscapeUrl(values[i])
  PROVE  /\ Join(texts, <<Amp>>) \in Text
         /\ Free(Join(texts, <<Amp>>), {Semi, Blank, Equals})
         /\ values[n] # <<>> => Join(texts, <<Amp>>) # <<>>
         /\ n = 1 => Len(Join(texts, <<Amp>>)) = Len(values[1])
<1> DEFINE sep == <<Amp>>
           line == Join(texts, sep)
           stops == {Semi, Blank, Equals}
<1>1. Amp \in Bytes /\ Amp \notin stops /\ stops \subseteq Parting
  BY Partings
<1>2. sep \in Seq(Bytes) /\ sep # <<>> /\ Free(sep, stops)
  BY <1>1 DEF Free
<1>3. texts \in Seq(Seq(Bytes)) /\ texts # <<>>
  BY DEF Text
<1> HIDE DEF stops
<1>4. ASSUME NEW i \in 1..n
      PROVE  texts[i] \in Text /\ Free(texts[i], stops) /\ Len(texts[i]) = Len(values[i])
  <2>1. values[i] \in Plain /\ texts[i] = EscapeUrl(values[i])
    OBVIOUS
  <2>2. texts[i] \in Text /\ Free(texts[i], Parting) /\ Len(texts[i]) = Len(values[i])
    BY <2>1, EscapeUrlFacts
  <2>3. QED
    BY <1>1, <2>2, FreeOfFewer
<1> HIDE DEF sep
<1>5. PICK d \in [0..n -> Seq(Bytes)] : Joined(texts, sep, d) /\ d[0] = Join(texts, sep)
  BY <1>2, <1>3, JoinTails
<1>6. \A i \in 1..Len(texts) : Free(texts[i], stops)
  BY <1>4
<1>7. \A k \in 0..n : Free(d[k], stops)
  BY <1>2, <1>3, <1>5, <1>6, JoinFree
<1>8. line = d[0] /\ 0 \in 0..n
  BY <1>5
<1>9. line \in Text /\ Free(line, stops)
  BY <1>5, <1>7, <1>8 DEF Text
<1>10. ASSUME values[n] # <<>> PROVE line # <<>>
  <2>1. texts[n] # <<>>
    <3> DEFINE v == values[n]
               P == PlainBytes
    <3>1. v \in Seq(P) /\ v # <<>> /\ n \in 1..n
      BY <1>10 DEF Plain
    <3>2. Len(texts[n]) = Len(v)
      BY <1>4, <3>1
    <3> HIDE DEF P, v
    <3>3. Len(v) # 0
      BY <3>1
    <3>4. QED
      BY <3>2, <3>3
  <2>2. \A k \in 0..n : Len(d[k]) >= n - k
    BY <1>2, <1>3, <1>5, <2>1, JoinLength
  <2>3. Len(d[0]) >= n - 0
    BY <1>8, <2>2
  <2> HIDE DEF line
  <2>4. QED
    BY <1>8, <2>3
<1>11. ASSUME n = 1 PROVE Len(line) = Len(values[1])
  <2>1. d[0] = texts[1]
    BY <1>5, <1>11 DEF Joined
  <2>2. Len(texts[1]) = Len(values[1])
    BY <1>4
  <2> HIDE DEF line
  <2>3. QED
    BY <1>8, <2>1, <2>2
<1>12. QED
  BY <1>9, <1>10, <1>11 DEF line, sep, stops

\* A cookie comes back from its line.
LEMMA CookieBack ==
  ASSUME NEW c \in Baked
  PROVE  /\ CookieAsString(c) \in Text /\ CookieAsString(c) # <<>>
         /\ Free(CookieAsString(c), {Semi, Blank})
         /\ CookieOf(CookieAsString(c)) = c
<1> DEFINE values == c.values
           n == Len(values)
           texts == [i \in 1..n |-> EscapeUrl(values[i])]
           line == Join(texts, <<Amp>>)
           name == EscapeUrl(c.name)
           whole == CookieAsString(c)
<1>1. /\ c.name \in Plain /\ values \in Seq(Plain) /\ n \in Nat \ {0}
      /\ n = 1 \/ values[n] # <<>>
      /\ c = [name |-> c.name, values |-> values]
  <2>1. c \in [name : Plain, values : Seq(Plain)] /\ values # <<>>
        /\ (n = 1 \/ values[n] # <<>>)
    BY DEF Baked
  <2>2. QED
    BY <2>1
<1>2. whole = (name \o <<Equals>>) \o line
  BY Zenon DEF CookieAsString, Equals, Amp
<1> HIDE DEF values, n
<1>3. texts \in Seq(Text) /\ Len(texts) = n /\ \A i \in 1..n : texts[i] = EscapeUrl(values[i])
  <2>1. ASSUME NEW i \in 1..n PROVE EscapeUrl(values[i]) \in Text
    <3>1. values[i] \in Plain
      BY <1>1 DEF n
    <3>2. QED
      BY <3>1, EscapeUrlFacts
  <2>2. texts \in [1..n -> Text]
    BY <2>1
  <2>3. \A i \in 1..n : texts[i] = EscapeUrl(values[i])
    OBVIOUS
  <2> HIDE DEF texts
  <2>4. QED
    BY <1>1, <2>2, <2>3, FunctionIsSeq
<1> HIDE DEF texts
<1>4. Len(values) = n
  BY DEF n
<1>5. /\ line \in Text /\ Free(line, {Semi, Blank, Equals})
      /\ values[n] # <<>> => line # <<>>
      /\ n = 1 => Len(line) = Len(values[1])
  BY <1>1, <1>3, <1>4, LineFacts
<1>6. name \in Text /\ Free(name, Parting) /\ Unescape(name) = c.name
  BY <1>1, EscapeUrlFacts
<1>7. ASSUME values[n] # <<>> PROVE CookieValues(line) = values
  <2>1. CookieValues(Join(texts, <<"&">>)) = values
    BY <1>1, <1>3, <1>4, <1>7, ValuesBack
  <2>2. QED
    BY <2>1, Zenon DEF Amp
<1> HIDE DEF line, name, whole
<1> DEFINE rest == <<Equals>> \o line
           eq == {Equals}
<1>8. Equals \in Bytes /\ {Equals} \subseteq Parting /\ {Semi, Blank} \subseteq Parting
      /\ Equals \notin {Semi, Blank} /\ {Equals} \subseteq {Semi, Blank, Equals}
      /\ {Semi, Blank} \subseteq {Semi, Blank, Equals}
  BY Partings
<1>9. name \in Seq(Bytes) /\ line \in Seq(Bytes) /\ <<Equals>> \in Seq(Bytes)
  BY <1>5, <1>6, <1>8 DEF Text
<1>10. whole = name \o rest
  <2> DEFINE one == <<Equals>>
  <2>1. one \in Seq(Bytes) /\ whole = (name \o one) \o line
    BY <1>2, <1>9
  <2> HIDE DEF one
  <2>2. whole = name \o (one \o line)
    BY <1>9, <2>1, Regroup
  <2>3. QED
    BY <2>2 DEF one
<1>11. rest \in Seq(Bytes) /\ Len(rest) = 1 + Len(line) /\ rest[1] = Equals
  BY <1>8, <1>9, OneFirst
<1>12. Free(name, eq) /\ Free(line, eq)
  BY <1>5, <1>6, <1>8, FreeOfFewer
<1>13. Before(whole, eq) = name /\ After(whole, eq) = line
  <2>1. line # <<>> => line[1] \notin eq
    <3> HIDE DEF eq
    <3>1. line # <<>> => 1 \in 1..Len(line)
      BY <1>9
    <3>2. QED
      BY <1>12, <3>1 DEF Free
  <2>2. Equals \in eq
    OBVIOUS
  <2> HIDE DEF eq
  <2>3. Before(name \o (<<Equals>> \o line), eq) = name /\ After(name \o (<<Equals>> \o line), eq) = line
    BY <1>8, <1>9, <1>12, <2>1, <2>2, AfterStop
  <2>4. QED
    BY <1>10, <2>3
<1> DEFINE vs == IF line = <<>> THEN <<<<>>>> ELSE CookieValues(line)
<1>14. CookieOf(whole) = [name |-> Unescape(name), values |-> vs]
  <2> DEFINE text == After(whole, {"="})
  <2>1. CookieOf(whole) = [name |-> Unescape(Before(whole, {"="})),
                           values |-> IF text = <<>> THEN <<<<>>>> ELSE CookieValues(text)]
    BY Zenon DEF CookieOf
  <2>2. text = line /\ Before(whole, {"="}) = name
    BY <1>13, Zenon DEF Equals
  <2> HIDE DEF text
  <2>3. QED
    BY <2>1, <2>2
<1>15. vs = values
  <2>1. CASE values[n] # <<>>
    BY <1>5, <1>7, <2>1
  <2>2. CASE values[n] = <<>>
    <3>1. n = 1 /\ Len(line) = 0
      BY <1>1, <1>5, <2>2
    <3>2. line = <<>>
      BY <1>9, <3>1
    <3>3. values = <<<<>>>>
      BY <1>1, <1>4, <2>2, <3>1
    <3>4. QED
      BY <3>2, <3>3
  <2>3. QED
    BY <2>1, <2>2
<1>16. CookieOf(whole) = c
  BY <1>1, <1>6, <1>14, <1>15
<1>17. Free(whole, {Semi, Blank})
  <2> DEFINE two == {Semi, Blank}
  <2>1. Free(name, two) /\ Free(line, two)
    BY <1>5, <1>6, <1>8, FreeOfFewer
  <2>2. Free(<<Equals>>, two)
    BY <1>8 DEF Free
  <2> HIDE DEF two
  <2>3. Free(<<Equals>> \o line, two)
    BY <1>9, <2>1, <2>2, FreeBoth
  <2>4. Free(name \o rest, two)
    BY <1>9, <1>11, <2>1, <2>3, FreeBoth
  <2>5. QED
    BY <1>10, <2>4 DEF two
<1> HIDE DEF rest
<1>18. whole \in Text /\ whole # <<>>
  <2>1. name \o rest \in Seq(Bytes) /\ Len(name \o rest) = Len(name) + Len(rest)
    BY <1>9, <1>11, ConcatFacts
  <2>2. Len(name) \in Nat /\ Len(line) \in Nat
    BY <1>9
  <2>3. Len(whole) # 0 /\ whole \in Text
    BY <1>10, <1>11, <2>1, <2>2 DEF Text
  <2>4. QED
    BY <2>3
<1>19. QED
  BY <1>16, <1>17, <1>18 DEF whole

NoneEmpty(texts) == \A i \in 1..Len(texts) : texts[i] # <<>>

\* Each rest begins with the next text.
LEMMA JoinFirst ==
  ASSUME NEW S, NEW texts \in Seq(Seq(S)), NEW sep \in Seq(S), texts # <<>>,
         NEW d \in [0..Len(texts) -> Seq(S)], Joined(texts, sep, d), NoneEmpty(texts)
  PROVE  \A k \in 0..Len(texts) - 1 : d[k] # <<>> /\ d[k][1] = texts[k + 1][1]
<1> DEFINE N == Len(texts)
<1>1. N \in Nat \ {0} /\ \A i \in 1..N : texts[i] \in Seq(S) /\ texts[i] # <<>>
  BY DEF NoneEmpty
<1>2. /\ d[N - 1] = texts[N]
      /\ \A k \in 0..N - 2 : d[k] = texts[k + 1] \o (sep \o d[k + 1])
      /\ \A k \in 0..N : d[k] \in Seq(S)
  BY DEF Joined
<1> HIDE DEF N
<1>3. ASSUME NEW k \in 0..N - 1 PROVE d[k] # <<>> /\ d[k][1] = texts[k + 1][1]
  <2>1. CASE k = N - 1
    <3>1. k + 1 = N /\ N \in 1..N
      BY <1>1, <2>1
    <3>2. QED
      BY <1>1, <1>2, <2>1, <3>1
  <2>2. CASE k # N - 1
    <3> DEFINE a == texts[k + 1]
               c == d[k + 1]
               e == sep \o c
    <3>1. k \in 0..N - 2 /\ k + 1 \in 1..N /\ k + 1 \in 0..N
      BY <1>1, <2>2
    <3>2. a \in Seq(S) /\ a # <<>> /\ c \in Seq(S) /\ d[k] = a \o e
      BY <1>1, <1>2, <3>1
    <3> HIDE DEF a, c
    <3>3. e \in Seq(S)
      BY <3>2, ConcatFacts
    <3> HIDE DEF e
    <3>4. Len(a) \in Nat \ {0} /\ Len(e) \in Nat
      BY <3>2, <3>3
    <3>5. Len(a \o e) = Len(a) + Len(e) /\ \A i \in 1..Len(a) : (a \o e)[i] = a[i]
      BY <3>2, <3>3, ConcatFacts
    <3>6. d[k][1] = a[1] /\ Len(d[k]) # 0
      BY <3>2, <3>4, <3>5
    <3>7. QED
      BY <3>6 DEF a
  <2>3. QED
    BY <2>1, <2>2
<1>4. QED
  BY <1>3 DEF N

\* The two bytes between cookies.
LEMMA TwoOnes ==
  ASSUME NEW S, NEW a \in S, NEW b \in S
  PROVE  <<a>> \o <<b>> = <<a, b>> /\ <<a, b>> \in Seq(S) /\ <<a, b>> # <<>>
<1> DEFINE y == <<b>>
           z == <<a>> \o y
           w == <<a, b>>
<1>1. y \in Seq(S) /\ Len(y) = 1 /\ y[1] = b
  OBVIOUS
<1>2. w \in Seq(S) /\ Len(w) = 2 /\ w[1] = a /\ w[2] = b /\ w # <<>>
  OBVIOUS
<1> HIDE DEF y, w
<1>3. /\ z \in Seq(S) /\ Len(z) = 1 + Len(y) /\ z[1] = a
      /\ \A i \in 1..Len(y) : z[1 + i] = y[i]
  <2>1. y \in Seq(S)
    BY <1>1
  <2>2. QED
    BY <2>1, OneFirst
<1> HIDE DEF z
<1>4. Len(z) = 2 /\ z[2] = b
  BY <1>1, <1>3
<1>5. z = w
  BY <1>2, <1>3, <1>4, SameSeq
<1>6. QED
  BY <1>2, <1>5 DEF y, z, w

\* ApacheCookie_parse of the field a browser sends finds what was baked.
LEMMA CookiesBack ==
  ASSUME NEW cookies \in Seq(Baked), cookies # <<>>
  PROVE  CookieParse(CookieField(cookies)) = cookies
<1> DEFINE n == Len(cookies)
           texts == [i \in 1..n |-> CookieAsString(cookies[i])]
           sep == <<Semi, Blank>>
           field == CookieField(cookies)
<1>1. n \in Nat \ {0} /\ \A i \in 1..n : cookies[i] \in Baked
  OBVIOUS
<1>2. field = Join(texts, sep)
  BY Zenon DEF CookieField, Semi, Blank
<1> HIDE DEF n, field
<1>3. \A i \in 1..n : texts[i] = CookieAsString(cookies[i])
  OBVIOUS
<1>4. ASSUME NEW i \in 1..n
      PROVE  /\ texts[i] \in Text /\ texts[i] # <<>> /\ Free(texts[i], {Semi, Blank})
             /\ CookieOf(texts[i]) = cookies[i]
  <2> DEFINE c == cookies[i]
  <2>1. c \in Baked /\ texts[i] = CookieAsString(c)
    BY <1>1
  <2> HIDE DEF c, texts
  <2>2. CookieAsString(c) \in Text /\ CookieAsString(c) # <<>>
        /\ Free(CookieAsString(c), {Semi, Blank}) /\ CookieOf(CookieAsString(c)) = c
    BY <2>1, CookieBack
  <2>3. QED
    BY <2>1, <2>2 DEF c
<1>5. texts \in Seq(Text) /\ Len(texts) = n
  <2>1. \A i \in 1..n : CookieAsString(cookies[i]) \in Text
    BY <1>3, <1>4
  <2>2. texts \in [1..n -> Text]
    BY <2>1
  <2> HIDE DEF texts
  <2>3. QED
    BY <1>1, <2>2, FunctionIsSeq
<1> HIDE DEF texts
<1>6. texts \in Seq(Seq(Bytes)) /\ texts # <<>>
  BY <1>1, <1>5 DEF Text
<1>7. Semi \in Bytes /\ Blank \in Bytes /\ Blank # Semi
  BY Partings
<1>8. sep \in Seq(Bytes) /\ sep # <<>> /\ sep = <<Semi>> \o <<Blank>>
  <2>1. <<Semi>> \o <<Blank>> = sep /\ sep \in Seq(Bytes) /\ sep # <<>>
    BY <1>7, TwoOnes
  <2>2. QED
    BY <2>1
<1> HIDE DEF sep
<1>9. PICK d \in [0..n -> Seq(Bytes)] : Joined(texts, sep, d) /\ d[0] = Join(texts, sep)
  BY <1>5, <1>6, <1>8, JoinTails
<1>10. /\ d[n] = <<>> /\ d[n - 1] = texts[n]
       /\ \A k \in 0..n - 2 : d[k] = texts[k + 1] \o (sep \o d[k + 1])
       /\ \A k \in 0..n : d[k] \in Seq(Bytes)
  BY <1>5, <1>9 DEF Joined
<1>11. texts[n] # <<>>
  BY <1>1, <1>4
<1>12. \A k \in 0..n : Len(d[k]) >= n - k
  BY <1>5, <1>6, <1>8, <1>9, <1>11, JoinLength
<1>13. \A k \in 0..n - 1 : d[k] # <<>> /\ d[k][1] = texts[k + 1][1]
  <2>1. NoneEmpty(texts)
    BY <1>4, <1>5 DEF NoneEmpty
  <2>2. QED
    BY <1>5, <1>6, <1>8, <1>9, <2>1, JoinFirst
<1>14. field = d[0] /\ 0 \in 0..n /\ field \in Text
  BY <1>1, <1>2, <1>9, <1>10 DEF Text
<1> DEFINE N == Len(field)
<1>15. N \in Nat /\ n <= N
  <2>1. Len(d[0]) >= n - 0
    BY <1>12, <1>14
  <2>2. N \in Nat
    BY <1>14 DEF Text
  <2>3. QED
    BY <1>1, <1>14, <2>1, <2>2
<1>16. PICK it : CookieLoop(field, it) /\ CookieParse(field) = it[N].cookies
  BY <1>14, CookieParseLoop
<1> HIDE DEF N
<1>17. /\ it[0].data = field /\ it[0].cookies = <<>>
       /\ \A k \in 0..N - 1 : it[k + 1] = CookieStep(it[k])
  <2>1. it[0] = [data |-> field, cookies |-> <<>>]
    BY <1>16 DEF CookieLoop
  <2>2. \A k \in 0..N - 1 : it[k + 1] = CookieStep(it[k])
    BY <1>16 DEF CookieLoop, N
  <2>3. QED
    BY <2>1, <2>2
<1> DEFINE After1(x) == SkipAll(After(x, {";"}), {" "})
<1>18. ASSUME NEW j \in 0..n - 1
       PROVE  /\ d[j] # <<>>
              /\ CookieOf(Before(d[j], {";"})) = cookies[j + 1] /\ After1(d[j]) = d[j + 1]
  <2>1. j + 1 \in 1..n /\ j \in 0..n /\ j + 1 \in 0..n
    BY <1>1
  <2> DEFINE t == texts[j + 1]
             u == d[j + 1]
  <2>2. t \in Seq(Bytes) /\ Free(t, {Semi, Blank}) /\ CookieOf(t) = cookies[j + 1] /\ u \in Seq(Bytes)
    BY <1>4, <1>10, <2>1 DEF Text
  <2>3. Free(t, {Semi})
    <3>1. {Semi} \subseteq {Semi, Blank}
      OBVIOUS
    <3> HIDE DEF t
    <3>2. QED
      BY <2>2, <3>1, FreeOfFewer
  <2>4. CASE j = n - 1
    <3>1. d[j] = t /\ u = <<>>
      BY <1>1, <1>10, <2>4
    <3> HIDE DEF t, u
    <3>2. Before(t, {Semi}) = t /\ After(t, {Semi}) = <<>>
      BY <2>2, <2>3, BeforeFree, AfterFree
    <3> DEFINE none == <<>>
    <3>3. none \in Seq(Bytes) /\ none = <<>>
      OBVIOUS
    <3> HIDE DEF none
    <3>4. SkipAll(none, {Blank}) = none
      BY <3>3, SkipNone
    <3>5. SkipAll(After(t, {Semi}), {Blank}) = u
      BY <3>1, <3>2, <3>3, <3>4
    <3>6. After1(d[j]) = u /\ Before(d[j], {";"}) = t
      BY <3>1, <3>2, <3>5, Zenon DEF Semi, Blank
    <3>7. QED
      BY <1>13, <2>2, <3>6 DEF u
  <2>5. CASE j # n - 1
    <3>1. j \in 0..n - 2 /\ j + 1 \in 0..n - 1 /\ j + 2 \in 1..n /\ (j + 1) + 1 = j + 2
      BY <1>1, <2>5
    <3> DEFINE x == <<Blank>> \o u
    <3>2. d[j] = t \o (sep \o u)
      BY <1>10, <3>1
    <3>3. u # <<>> /\ u[1] = texts[j + 2][1]
      BY <1>13, <3>1
    <3>4. u[1] \notin {Blank}
      <4> DEFINE v == texts[j + 2]
      <4>1. v \in Seq(Bytes) /\ v # <<>> /\ Free(v, {Semi, Blank})
        BY <1>4, <3>1 DEF Text
      <4> HIDE DEF v
      <4>2. 1 \in 1..Len(v)
        BY <4>1
      <4>3. v[1] \notin {Semi, Blank}
        BY <4>1, <4>2 DEF Free
      <4>4. QED
        BY <3>3, <4>3 DEF v
    <3> HIDE DEF t, u
    <3>5. sep \o u = <<Semi>> \o x
      <4> DEFINE a == <<Semi>>
                 b == <<Blank>>
                 y == sep \o u
      <4>1. a \in Seq(Bytes) /\ b \in Seq(Bytes) /\ y = (a \o b) \o u
        BY <1>7, <1>8
      <4> HIDE DEF a, b, y
      <4>2. y = a \o (b \o u)
        BY <2>2, <4>1, Regroup
      <4>3. QED
        BY <4>2 DEF a, b, y
    <3>6. SkipAll(x, {Blank}) = u
      <4>1. Blank \in {Blank}
        OBVIOUS
      <4> DEFINE bs == {Blank}
      <4> HIDE DEF bs
      <4>2. Blank \in bs /\ (u # <<>> => u[1] \notin bs)
        BY <3>4, <4>1 DEF bs
      <4>3. SkipAll(<<Blank>> \o u, bs) = u
        BY <1>7, <2>2, <4>2, SkipOne
      <4>4. QED
        BY <4>3 DEF bs
    <3>7. x \in Seq(Bytes) /\ x[1] = Blank
      BY <1>7, <2>2, OneFirst
    <3> HIDE DEF x
    <3>8. Before(t \o (<<Semi>> \o x), {Semi}) = t /\ After(t \o (<<Semi>> \o x), {Semi}) = x
      <4> DEFINE ss == {Semi}
      <4>1. Semi \in ss /\ Blank \notin ss /\ Free(t, ss)
        BY <1>7, <2>3
      <4> HIDE DEF ss
      <4>2. x # <<>> => x[1] \notin ss
        BY <3>7, <4>1
      <4>3. Before(t \o (<<Semi>> \o x), ss) = t /\ After(t \o (<<Semi>> \o x), ss) = x
        BY <1>7, <2>2, <3>7, <4>1, <4>2, AfterStop
      <4>4. QED
        BY <4>3 DEF ss
    <3>9. Before(d[j], {Semi}) = t /\ SkipAll(After(d[j], {Semi}), {Blank}) = u
      BY <3>2, <3>5, <3>6, <3>8
    <3>10. After1(d[j]) = u /\ Before(d[j], {";"}) = t
      BY <3>9, Zenon DEF Semi, Blank
    <3>11. QED
      BY <1>13, <2>2, <3>10 DEF u
  <2>6. QED
    BY <2>4, <2>5
<1> HIDE DEF After1
<1> DEFINE data == [k \in 0..N |-> it[k].data]
           res == [k \in 0..N |-> it[k].cookies]
<1>19. \A k \in 0..N : data[k] = it[k].data /\ res[k] = it[k].cookies
  OBVIOUS
<1>20. data[0] = d[0] /\ res[0] = <<>> /\ res[N] = it[N].cookies
  BY <1>14, <1>15, <1>17, <1>19
<1> HIDE DEF data, res
<1>21. ASSUME NEW k \in 0..N - 1, NEW j \in 0..n - 1, data[k] = d[j]
       PROVE  data[k + 1] = d[j + 1] /\ res[k + 1] = Append(res[k], cookies[j + 1])
  <2> DEFINE s == it[k]
             rest == After1(s.data)
             more == Append(s.cookies, CookieOf(Before(s.data, {";"})))
  <2>1. k \in 0..N /\ k + 1 \in 0..N
    BY <1>15
  <2>2. s.data = d[j] /\ s.data # <<>> /\ res[k] = s.cookies
    BY <1>18, <1>19, <1>21, <2>1
  <2>3. it[k + 1] = [data |-> rest, cookies |-> more]
    BY <1>17, <2>2, Zenon DEF CookieStep, After1
  <2>4. rest = d[j + 1] /\ more = Append(res[k], cookies[j + 1])
    BY <1>18, <2>2
  <2> HIDE DEF rest, more
  <2>5. it[k + 1].data = rest /\ it[k + 1].cookies = more
    BY <2>3
  <2>6. QED
    BY <1>19, <2>1, <2>4, <2>5
<1>22. ASSUME NEW k \in 0..N - 1, data[k] = <<>>
       PROVE  data[k + 1] = <<>> /\ res[k + 1] = res[k]
  <2>1. k \in 0..N /\ k + 1 \in 0..N
    BY <1>15
  <2>2. it[k].data = <<>>
    BY <1>19, <1>22, <2>1
  <2>3. it[k + 1] = it[k]
    BY <1>17, <2>2, Zenon DEF CookieStep
  <2>4. QED
    BY <1>19, <1>22, <2>1, <2>3
<1>23. res[N] = cookies
  <2>1. ChopsOff(n, N, cookies, d, data, res)
    BY <1>10, <1>20, <1>21, <1>22 DEF ChopsOff
  <2>2. n \in Nat /\ Len(cookies) = n
    BY <1>1 DEF n
  <2>3. QED
    BY <1>15, <2>1, <2>2, Chops
<1>24. QED
  BY <1>16, <1>20, <1>23 DEF field

\* No texts are joined to an empty one.
LEMMA NothingJoined ==
  ASSUME NEW texts, texts = <<>>, NEW sep
  PROVE  Join(texts, sep) = <<>>
<1> DEFINE ss == [i \in 1..Len(texts) |-> IF i < Len(texts) THEN texts[i] \o sep ELSE texts[i]]
<1>1. Join(texts, sep) = FlattenSeq(ss)
  BY Zenon DEF Join
<1>2. ss = <<>> /\ Len(ss) = 0
  OBVIOUS
<1> HIDE DEF ss
<1>3. FlattenSeq(ss) = <<>>
  BY <1>2, Zenon DEF FlattenSeq
<1>4. QED
  BY <1>1, <1>3

\* Nor does a request without cookies have any.
LEMMA NoCookiesBack ==
  ASSUME NEW cookies, cookies = <<>>
  PROVE  CookieParse(CookieField(cookies)) = <<>>
<1> DEFINE texts == [i \in 1..Len(cookies) |-> CookieAsString(cookies[i])]
           field == CookieField(cookies)
           sep == <<";", " ">>
<1>1. field = Join(texts, sep)
  BY Zenon DEF CookieField
<1>2. texts = <<>>
  OBVIOUS
<1> HIDE DEF texts, sep, field
<1>3. field = <<>> /\ field \in Text /\ Len(field) = 0
  <2>1. field = <<>>
    BY <1>1, <1>2, NothingJoined
  <2>2. QED
    BY <2>1 DEF Text
<1>4. PICK it : CookieLoop(field, it) /\ CookieParse(field) = it[Len(field)].cookies
  BY <1>3, CookieParseLoop
<1>5. it[0] = [data |-> field, cookies |-> <<>>]
  BY <1>4 DEF CookieLoop
<1>6. CookieParse(field) = <<>>
  BY <1>3, <1>4, <1>5
<1>7. QED
  BY <1>6 DEF field

-----------------------------------------------------------------------------
(* Forms that come back.                                                   *)

\* text is what a browser makes of pairs: each name and value in some encoding
\* that leaves no "&", ";" or "=" in it, and "&" or ";" between the pairs.
EncodedAs(text, pairs, keys, vals, sep) ==
  /\ \A i \in 1..Len(pairs) :
       /\ keys[i] \in Text /\ Free(keys[i], {"&", ";", "="}) /\ Decode(keys[i]) = pairs[i].key
       /\ vals[i] \in Text /\ Free(vals[i], {"&", ";", "="}) /\ Decode(vals[i]) = pairs[i].val
  /\ text = Join([i \in 1..Len(pairs) |-> keys[i] \o <<"=">> \o vals[i]], <<sep>>)
Encodes(text, pairs) ==
  \E keys, vals : \E sep \in {"&", ";"} : EncodedAs(text, pairs, keys, vals, sep)

\* A name and a value come back from a pair.
LEMMA PairBack ==
  ASSUME NEW key \in Text, NEW val \in Text, NEW stops, stops = {Amp, Semi, Equals},
         Free(key, stops), Free(val, stops)
  PROVE  LET pair == (key \o <<Equals>>) \o val
         IN  /\ pair \in Text /\ pair # <<>> /\ Free(pair, {Amp, Semi})
             /\ Pair(pair) = [key |-> Decode(key), val |-> Decode(val)]
<1> DEFINE one == <<Equals>>
           pair == (key \o one) \o val
           rest == one \o val
           eq == {Equals}
           two == {Amp, Semi}
<1>1. /\ Equals \in Bytes /\ Equals \in eq /\ Equals \notin two
      /\ eq \subseteq stops /\ two \subseteq stops
  BY Partings
<1>2. key \in Seq(Bytes) /\ val \in Seq(Bytes) /\ one \in Seq(Bytes)
  BY <1>1 DEF Text
<1>3. pair = (key \o one) \o val
  OBVIOUS
<1>4. Free(one, two)
  BY <1>1 DEF Free
<1>5. rest \in Seq(Bytes) /\ Len(rest) = 1 + Len(val)
  BY <1>1, <1>2, OneFirst
<1> HIDE DEF one, eq, two, pair
<1>6. pair = key \o (one \o val)
  BY <1>2, <1>3, Regroup
<1>7. Free(key, eq) /\ Free(val, eq) /\ Free(key, two) /\ Free(val, two)
  BY <1>1, FreeOfFewer
<1>8. val # <<>> => val[1] \notin eq
  <2>1. val # <<>> => 1 \in 1..Len(val)
    BY <1>2
  <2>2. QED
    BY <1>7, <2>1 DEF Free
<1>9. Before(key \o (one \o val), eq) = key /\ After(key \o (one \o val), eq) = val
  BY <1>1, <1>2, <1>7, <1>8, AfterStop DEF one
<1>10. Before(pair, {"="}) = key /\ After(pair, {"="}) = val
  BY <1>6, <1>9, Zenon DEF eq, Equals
<1>11. Pair(pair) = [key |-> Decode(key), val |-> Decode(val)]
  BY <1>10, Zenon DEF Pair
<1>12. Free(rest, two)
  BY <1>2, <1>4, <1>7, FreeBoth
<1>13. rest \in Seq(Bytes) /\ pair = key \o rest
  BY <1>5, <1>6
<1>14. Len(val) \in Nat /\ Len(key) \in Nat /\ Len(rest) = 1 + Len(val)
  BY <1>2, <1>5
<1> HIDE DEF rest
<1>15. Free(pair, two) /\ pair \in Seq(Bytes) /\ Len(pair) = Len(key) + Len(rest)
  BY <1>2, <1>7, <1>12, <1>13, FreeBoth, ConcatFacts
<1>16. Len(pair) # 0
  BY <1>14, <1>15
<1>17. pair # <<>>
  BY <1>16
<1>18. QED
  BY <1>11, <1>15, <1>17 DEF two, Text, pair, one

PairTexts(texts, pairs) ==
  \A i \in 1..Len(texts) :
    texts[i] # <<>> /\ Free(texts[i], {Amp, Semi}) /\ Pair(texts[i]) = pairs[i]

\* The pairs come back from what they are joined to.
LEMMA PairsBack ==
  ASSUME NEW pairs \in Seq(Entries), NEW texts \in Seq(Text), Len(texts) = Len(pairs),
         texts # <<>>, NEW sep \in {Amp, Semi}, PairTexts(texts, pairs)
  PROVE  Join(texts, <<sep>>) \in Text /\ SplitToParms(Join(texts, <<sep>>)) = pairs
<1> DEFINE n == Len(texts)
           stops == {Amp, Semi}
           one == <<sep>>
           field == Join(texts, one)
<1>0. n \in Nat \ {0} /\ Len(pairs) = n /\ Len(texts) = n
  OBVIOUS
<1>1. sep \in Bytes /\ sep \in stops
  BY Partings
<1>2. one \in Seq(Bytes) /\ one # <<>>
  BY <1>1
<1>3. texts \in Seq(Seq(Bytes)) /\ texts # <<>>
  BY DEF Text
<1>4. ASSUME NEW i \in 1..n
      PROVE  /\ texts[i] \in Seq(Bytes) /\ texts[i] # <<>> /\ Free(texts[i], stops)
             /\ Pair(texts[i]) = pairs[i]
  <2>1. texts[i] \in Text /\ i \in 1..Len(texts)
    OBVIOUS
  <2>2. QED
    BY <2>1 DEF Text, PairTexts
<1> HIDE DEF stops, one, n
<1>5. PICK d \in [0..n -> Seq(Bytes)] : Joined(texts, one, d) /\ d[0] = Join(texts, one)
  BY <1>0, <1>2, <1>3, JoinTails
<1>6. /\ d[n] = <<>> /\ d[n - 1] = texts[n]
      /\ \A k \in 0..n - 2 : d[k] = texts[k + 1] \o (one \o d[k + 1])
      /\ \A k \in 0..n : d[k] \in Seq(Bytes)
  BY <1>0, <1>5 DEF Joined
<1>7. texts[n] # <<>>
  BY <1>0, <1>4
<1>8. \A k \in 0..n : Len(d[k]) >= n - k
  BY <1>0, <1>2, <1>3, <1>5, <1>7, JoinLength
<1>9. \A k \in 0..n - 1 : d[k] # <<>> /\ d[k][1] = texts[k + 1][1]
  <2>1. NoneEmpty(texts)
    BY <1>0, <1>4 DEF NoneEmpty
  <2>2. Len(texts) = n /\ one \in Seq(Bytes)
    BY <1>0, <1>2
  <2>3. d \in [0..Len(texts) -> Seq(Bytes)] /\ Joined(texts, one, d)
    BY <1>5, <2>2
  <2>4. texts \in Seq(Seq(Bytes)) /\ texts # <<>> /\ one \in Seq(Bytes)
    BY <1>2, <1>3
  <2>5. \A k \in 0..Len(texts) - 1 : d[k] # <<>> /\ d[k][1] = texts[k + 1][1]
    BY <2>1, <2>3, <2>4, JoinFirst
  <2>6. QED
    BY <2>2, <2>5
<1>10. field = d[0] /\ 0 \in 0..n /\ field \in Text
  BY <1>0, <1>5, <1>6 DEF Text
<1> HIDE DEF field
<1> DEFINE N == Len(field)
<1>11. N \in Nat /\ n <= N
  <2>1. Len(d[0]) >= n - 0
    BY <1>8, <1>10
  <2>2. N \in Nat
    BY <1>10 DEF Text
  <2>3. QED
    BY <1>0, <1>10, <2>1, <2>2
<1>12. PICK it : SplitLoop(field, it) /\ SplitToParms(field) = it[N].parms
  BY <1>10, SplitToParmsLoop
<1> HIDE DEF N
<1>13. /\ it[0].data = field /\ it[0].parms = <<>>
       /\ \A k \in 0..N - 1 : it[k + 1] = SplitStep(it[k])
  <2>1. it[0] = [data |-> field, parms |-> <<>>]
    BY <1>12 DEF SplitLoop
  <2>2. \A k \in 0..N - 1 : it[k + 1] = SplitStep(it[k])
    BY <1>12 DEF SplitLoop, N
  <2>3. QED
    BY <2>1, <2>2
<1> DEFINE Rest(x) == After(x, {"&", ";"})
           First(x) == Pair(Before(x, {"&", ";"}))
<1>14. ASSUME NEW x PROVE Rest(x) = After(x, stops) /\ First(x) = Pair(Before(x, stops))
  BY Zenon DEF stops, Amp, Semi
<1> HIDE DEF Rest, First
<1>15. ASSUME NEW j \in 0..n - 1
       PROVE  d[j] # <<>> /\ First(d[j]) = pairs[j + 1] /\ Rest(d[j]) = d[j + 1]
  <2>1. j + 1 \in 1..n /\ j \in 0..n /\ j + 1 \in 0..n
    BY <1>0
  <2> DEFINE t == texts[j + 1]
             u == d[j + 1]
  <2>2. t \in Seq(Bytes) /\ Free(t, stops) /\ Pair(t) = pairs[j + 1] /\ u \in Seq(Bytes)
    BY <1>4, <1>6, <2>1
  <2>3. CASE j = n - 1
    <3>1. d[j] = t /\ u = <<>>
      BY <1>0, <1>6, <2>3
    <3> HIDE DEF t, u
    <3>2. Before(t, stops) = t /\ After(t, stops) = <<>>
      BY <2>2, BeforeFree, AfterFree
    <3>3. QED
      BY <1>9, <1>14, <2>2, <3>1, <3>2 DEF u
  <2>4. CASE j # n - 1
    <3>1. j \in 0..n - 2 /\ j + 1 \in 0..n - 1 /\ j + 2 \in 1..n /\ (j + 1) + 1 = j + 2
      BY <1>0, <2>4
    <3>2. d[j] = t \o (<<sep>> \o u)
      BY <1>6, <3>1 DEF one
    <3>3. u # <<>> /\ u[1] = texts[j + 2][1]
      BY <1>9, <3>1
    <3>4. u[1] \notin stops
      <4> DEFINE v == texts[j + 2]
      <4>1. v \in Seq(Bytes) /\ v # <<>> /\ Free(v, stops)
        BY <1>4, <3>1
      <4> HIDE DEF v
      <4>2. 1 \in 1..Len(v)
        BY <4>1
      <4>3. v[1] \notin stops
        BY <4>1, <4>2 DEF Free
      <4>4. QED
        BY <3>3, <4>3 DEF v
    <3> HIDE DEF t, u
    <3>5. Before(t \o (<<sep>> \o u), stops) = t /\ After(t \o (<<sep>> \o u), stops) = u
      BY <1>1, <2>2, <3>4, AfterStop
    <3>6. QED
      BY <1>9, <1>14, <2>2, <3>2, <3>5 DEF u
  <2>5. QED
    BY <2>3, <2>4
<1> DEFINE data == [k \in 0..N |-> it[k].data]
           res == [k \in 0..N |-> it[k].parms]
<1>16. \A k \in 0..N : data[k] = it[k].data /\ res[k] = it[k].parms
  OBVIOUS
<1>17. data[0] = d[0] /\ res[0] = <<>> /\ res[N] = it[N].parms
  BY <1>10, <1>11, <1>13, <1>16
<1> HIDE DEF data, res
<1>18. ASSUME NEW k \in 0..N - 1, NEW j \in 0..n - 1, data[k] = d[j]
       PROVE  data[k + 1] = d[j + 1] /\ res[k + 1] = Append(res[k], pairs[j + 1])
  <2> DEFINE s == it[k]
             rest == Rest(s.data)
             more == Append(s.parms, First(s.data))
  <2>1. k \in 0..N /\ k + 1 \in 0..N
    BY <1>11
  <2>2. s.data = d[j] /\ s.data # <<>> /\ res[k] = s.parms
    BY <1>15, <1>16, <1>18, <2>1
  <2>3. it[k + 1] = [data |-> rest, parms |-> more]
    BY <1>13, <2>2, Zenon DEF SplitStep, Rest, First
  <2>4. rest = d[j + 1] /\ more = Append(res[k], pairs[j + 1])
    BY <1>15, <2>2
  <2> HIDE DEF rest, more
  <2>5. it[k + 1].data = rest /\ it[k + 1].parms = more
    BY <2>3
  <2>6. QED
    BY <1>16, <2>1, <2>4, <2>5
<1>19. ASSUME NEW k \in 0..N - 1, data[k] = <<>>
       PROVE  data[k + 1] = <<>> /\ res[k + 1] = res[k]
  <2>1. k \in 0..N /\ k + 1 \in 0..N
    BY <1>11
  <2>2. it[k].data = <<>>
    BY <1>16, <1>19, <2>1
  <2>3. it[k + 1] = it[k]
    BY <1>13, <2>2, Zenon DEF SplitStep
  <2>4. QED
    BY <1>16, <1>19, <2>1, <2>3
<1>20. res[N] = pairs
  <2>1. ChopsOff(n, N, pairs, d, data, res)
    BY <1>6, <1>17, <1>18, <1>19 DEF ChopsOff
  <2>2. QED
    BY <1>0, <1>11, <2>1, Chops
<1>21. QED
  BY <1>10, <1>12, <1>17, <1>20 DEF field, one

\* split_to_parms of what a browser makes of pairs finds those pairs.
LEMMA EncodesBack ==
  ASSUME NEW text \in Text, NEW pairs \in Seq(Entries), Encodes(text, pairs)
  PROVE  SplitToParms(text) = pairs
<1> DEFINE n == Len(pairs)
<1>1. PICK keys, vals, sep : sep \in {Amp, Semi} /\ EncodedAs(text, pairs, keys, vals, sep)
  BY Zenon DEF Encodes, Amp, Semi
<1> DEFINE texts == [i \in 1..n |-> (keys[i] \o <<Equals>>) \o vals[i]]
           stops == {Amp, Semi, Equals}
<1>2. /\ \A i \in 1..n : /\ keys[i] \in Text /\ Free(keys[i], stops) /\ Decode(keys[i]) = pairs[i].key
                         /\ vals[i] \in Text /\ Free(vals[i], stops) /\ Decode(vals[i]) = pairs[i].val
      /\ text = Join(texts, <<sep>>)
  BY <1>1, Zenon DEF EncodedAs, Amp, Semi, Equals
<1>3. sep \in {Amp, Semi}
  BY <1>1
<1>4. \A i \in 1..n : pairs[i] = [key |-> pairs[i].key, val |-> pairs[i].val]
  <2>1. \A i \in 1..n : pairs[i] \in Entries
    OBVIOUS
  <2>2. QED
    BY <2>1 DEF Entries
<1>5. n \in Nat
  OBVIOUS
<1> HIDE DEF stops
<1>6. CASE n = 0
  <2>1. texts = <<>> /\ pairs = <<>>
    BY <1>6
  <2> HIDE DEF texts, n
  <2>2. text = <<>>
    BY <1>2, <2>1, NothingJoined
  <2>3. QED
    BY <2>1, <2>2, SplitToParmsType
<1>7. CASE n # 0
  <2>1. ASSUME NEW i \in 1..n
        PROVE  /\ texts[i] \in Text /\ texts[i] # <<>> /\ Free(texts[i], {Amp, Semi})
               /\ Pair(texts[i]) = pairs[i]
    <3> DEFINE key == keys[i]
               val == vals[i]
               pair == texts[i]
    <3>1. pair = (key \o <<Equals>>) \o val
      OBVIOUS
    <3>2. /\ key \in Text /\ Free(key, stops) /\ Decode(key) = pairs[i].key
          /\ val \in Text /\ Free(val, stops) /\ Decode(val) = pairs[i].val
      BY <1>2
    <3>3. stops = {Amp, Semi, Equals}
      BY DEF stops
    <3> HIDE DEF key, val, texts
    <3>4. /\ pair \in Text /\ pair # <<>> /\ Free(pair, {Amp, Semi})
          /\ Pair(pair) = [key |-> Decode(key), val |-> Decode(val)]
      BY <3>1, <3>2, <3>3, PairBack
    <3>5. QED
      BY <1>4, <3>2, <3>4
  <2>2. texts \in Seq(Text) /\ Len(texts) = n
    <3>1. DOMAIN texts = 1..n /\ texts = [i \in 1..n |-> texts[i]]
      BY Zenon
    <3> HIDE DEF texts, n
    <3>2. texts \in [1..n -> Text]
      BY <2>1, <3>1
    <3>3. QED
      BY <1>5, <3>2, FunctionIsSeq
  <2> HIDE DEF texts
  <2>3. texts # <<>> /\ Len(texts) = Len(pairs)
    BY <1>7, <2>2
  <2>4. PairTexts(texts, pairs)
    BY <2>1, <2>2 DEF PairTexts
  <2> HIDE DEF n
  <2>5. SplitToParms(Join(texts, <<sep>>)) = pairs
    BY <1>3, <2>2, <2>3, <2>4, PairsBack
  <2>6. QED
    BY <1>2, <2>5
<1>8. QED
  BY <1>6, <1>7

\* What request_cookies makes of the cookies it finds.
JarOf(cookies) ==
  [name \in {c.name : c \in ToSet(cookies)} |->
     cookies[SelectLastInSeq(cookies, LAMBDA c : c.name = name)].values]

\* Only Cookies sets the jar, to what it finds in the field.
LEMMA JarStep == [Next]_vars => jar' = jar \/ jar' = JarOf(CookieParse(request.cookie))
<1> SUFFICES ASSUME [Next]_vars PROVE jar' = jar \/ jar' = JarOf(CookieParse(request.cookie))
  OBVIOUS
<1>1. CASE Parse
  BY <1>1, Zenon DEF Parse
<1>2. CASE NextPart
  <2>1. PICK h, d : \/ NoMoreParts(h) \/ FieldPart(h, d) \/ ForbiddenFile(h, d)
                    \/ FilePart(h, d) \/ NoTmpfile(h, d)
    BY <1>2, Zenon DEF NextPart
  <2>2. QED
    BY <2>1 DEF NoMoreParts, FieldPart, ForbiddenFile, FilePart, NoTmpfile, ParserStays
<1>3. CASE FileChunk
  BY <1>3, Zenon DEF FileChunk, ParserStays
<1>4. CASE ShortWrite
  BY <1>4, Zenon DEF ShortWrite
<1>5. CASE HookReturns \/ HookRaises \/ Uploads \/ EditTable
  BY <1>5 DEF HookReturns, HookRaises, ParserStays, Uploads, EditTable, inputVars
<1>6. CASE Cookies
  BY <1>6, Zenon DEF Cookies, JarOf
<1>7. ASSUME NEW size \in Sizes, Read(size) \/ GetClientBlock(size) PROVE jar' = jar
  BY <1>7, Zenon DEF Read, GetClientBlock, MayRead
<1>8. CASE SetupClientBlock \/ Idle \/ UNCHANGED vars
  BY <1>8 DEF SetupClientBlock, MayRead, Idle, vars, inputVars
<1>9. QED
  BY <1>1, <1>2, <1>3, <1>4, <1>5, <1>6, <1>7, <1>8, Zenon DEF Next

-----------------------------------------------------------------------------
(* Forms that arrive.                                                      *)

\* What a parse of a body is to find in it.
PostPairs == IF request.method = "POST" THEN SplitToParms(CString(request.body)) ELSE <<>>
FormParms == SplitToParms(request.args) \o PostPairs

\* A parse that reads the body of a form from its start and reports no error
\* has all of it.
LEMMA FormBody ==
  ASSUME RequestTypeOK, GoodBuffer(buf), request.type = "form", request.fails = NoFailure,
         buf.client = NewClient, ParseBody.status = OK
  PROVE  ParseBody.parms = PostPairs
<1> DEFINE old == buf.client
           client == SetupClient(old)
           r == UtilRead(client)
           Ends(status, c) == [status |-> status, parms |-> <<>>, client |-> c]
           form == SplitToParms(CString(r.bytes))
           done == [Ends(OK, r.client) EXCEPT !.parms = form]
           all == Len(request.body)
<1>1. old \in Clients /\ old.at = 0 /\ old.read_length = 0
  BY BufferFields DEF GoodBuffer, NewClient
<1>2. /\ client \in Clients /\ client.at = 0 /\ client.remaining = Announced
      /\ client.read_length = 0
  BY <1>1, SetupFields
<1>3. request.body \in Text /\ all \in Nat /\ Announced >= all /\ Announced \in Nat
  BY BodyType DEF Text
<1>4. SetUp(client)
  BY <1>2, <1>3 DEF SetUp
<1>5. ParseBody =
      IF request.method # "POST" THEN Ends(OK, old)
      ELSE IF request.type = "other" THEN Ends(HTTP_INTERNAL_SERVER_ERROR, old)
      ELSE IF SetupFails THEN Ends(HTTP_LENGTH_REQUIRED, old)
      ELSE IF ~ ShouldRead(client) THEN Ends(OK, client)
      ELSE IF TooLarge(client.remaining) THEN Ends(HTTP_REQUEST_ENTITY_TOO_LARGE, client)
      ELSE IF request.type = "form" THEN done
      ELSE IF request.type = "noboundary" THEN Ends(DECLINED, client)
      ELSE Ends(Reading, client)
  BY Zenon DEF ParseBody
<1>6. done.parms = form
  OBVIOUS
<1>7. OK # HTTP_LENGTH_REQUIRED /\ OK # HTTP_REQUEST_ENTITY_TOO_LARGE
  BY InputAssumption
<1> HIDE DEF old, client, r, form, done, all
<1>8. CASE request.method # "POST"
  BY <1>5, <1>8 DEF PostPairs
<1>9. CASE request.method = "POST" /\ ~ SetupFails /\ ~ ShouldRead(client)
  <2>1. all = 0
    BY <1>2, <1>3, <1>9 DEF ShouldRead
  <2>2. request.body = <<>>
    BY <1>3, <2>1 DEF all, Text
  <2>3. SplitToParms(CString(request.body)) = <<>>
    BY <1>3, <2>2, CStringType, SplitToParmsType
  <2>4. ParseBody = Ends(OK, client)
    BY <1>5, <1>9
  <2>5. ParseBody.parms = <<>>
    BY <2>4
  <2>6. QED
    BY <1>9, <2>3, <2>5 DEF PostPairs
<1>10. CASE request.method = "POST" /\ ~ SetupFails /\ ShouldRead(client)
             /\ ~ TooLarge(client.remaining)
  <2>1. /\ r.client \in Clients /\ Spent(r.client)
        /\ r.bytes = SubSeq(request.body, 1, r.client.at)
    <3>1. /\ Onward(client, r.client) /\ Spent(r.client)
          /\ r.bytes = SubSeq(request.body, client.at + 1, r.client.at)
      BY <1>2, <1>4, UtilReadFacts DEF r
    <3>2. client.at + 1 = 1
      BY <1>2
    <3>3. QED
      BY <3>1, <3>2 DEF Onward
  <2>2. r.client.at = all
    <3>1. r.client.at \in Nat
      BY <2>1, ClientAt
    <3>2. QED
      BY <2>1, <3>1 DEF Spent, NoFailure, all
  <2>3. r.bytes = request.body
    <3>1. SubSeq(request.body, 1, Len(request.body)) = request.body
      BY <1>3 DEF Text
    <3>2. QED
      BY <2>1, <2>2, <3>1 DEF all
  <2>4. ParseBody = done
    BY <1>5, <1>10
  <2>5. form = SplitToParms(CString(request.body))
    BY <2>3 DEF form
  <2>6. QED
    BY <1>6, <1>10, <2>4, <2>5 DEF PostPairs
<1>11. CASE request.method = "POST" /\ (SetupFails \/ (ShouldRead(client) /\ TooLarge(client.remaining)))
  BY <1>5, <1>7, <1>11
<1>12. QED
  BY <1>8, <1>9, <1>10, <1>11

\* Before the first parse nothing but a handler's reads moves the connection,
\* and when none has, a first parse without an error found it all.
FormInv ==
  /\ entered = 0 /\ reads = 0 => buf.client = NewClient
  /\ entered = 1 /\ edits = 0 /\ reads = 0 /\ ~ told => parms = FormParms
FormSound == request.type = "form" /\ request.fails = NoFailure

\* A first parse finds the form.
LEMMA FormParse ==
  ASSUME IInv, FormSound, FormInv, Parse
  PROVE  FormInv'
<1> DEFINE query == SplitToParms(request.args)
           body == ParseBody
           bp == body.parms
           t == parms \o query \o bp
           nargs == IF request.args = <<>> THEN apreq.nargs ELSE CountQuery(query, bp)
           counted == [apreq EXCEPT !.nargs = nargs]
<1>1. /\ RequestTypeOK /\ GoodBuffer(buf) /\ RestType /\ TableTypeOK /\ TableInv
      /\ Structure
  BY DEF IInv
<1>2. /\ ~ apreq.parsed /\ entered' = entered + 1 /\ Become(t)
      /\ request' = request /\ each' = each /\ edits' = edits /\ reads' = reads
      /\ \/ body.status = Reading
         \/ told' = (told \/ body.status # OK)
  <2> HIDE DEF body
  <2>1. counted = [apreq EXCEPT !.nargs = IF request.args = <<>> THEN @
                                          ELSE CountQuery(query, bp)]
    OBVIOUS
  <2> HIDE DEF counted
  <2>2. QED
    BY <2>1, Zenon DEF Parse, body
<1>3. BodyGood(body)
  BY <1>1, ParseBodyGood
<1> HIDE DEF body
<1>4. bp \in Seq(Entries) /\ body.status # Reading
  BY <1>3 DEF BodyGood, FormSound
<1>5. query \in Seq(Entries) /\ parms \in Seq(Entries) /\ entered \in Nat /\ told \in BOOLEAN
  BY <1>1, <1>4, SplitFirst DEF TableTypeOK, RestType
<1> HIDE DEF bp, query
<1>6. t \in Seq(Entries)
  BY <1>4, <1>5, ConcatFacts
<1>7. each = NotLooping /\ edits = 0
  BY <1>1, <1>2 DEF Structure
<1> HIDE DEF t
<1>8. parms' = t
  BY <1>1, <1>2, <1>6, <1>7, TableAfter
<1>9. entered' # 0
  BY <1>2, <1>5
<1>10. ASSUME entered' = 1, reads' = 0, ~ told' PROVE parms' = FormParms'
  <2>1. entered = 0 /\ reads = 0 /\ body.status = OK
    <3>1. entered = 0 /\ reads = 0
      BY <1>2, <1>5, <1>10
    <3>2. told' = (told \/ body.status # OK)
      BY <1>2, <1>4, Zenon
    <3>3. body.status = OK
      BY <1>10, <3>2, Zenon
    <3>4. QED
      BY <3>1, <3>3
  <2>2. parms = <<>> /\ buf.client = NewClient
    BY <1>1, <2>1 DEF Structure, FormInv
  <2>3. bp = PostPairs
    BY <1>1, <2>1, <2>2, FormBody DEF FormSound, body, bp
  <2>4. parms \o query = query
    BY <1>5, <2>2
  <2>5. t = FormParms
    BY <2>3, <2>4 DEF t, FormParms, query
  <2>6. FormParms' = FormParms
    BY <1>2, Zenon DEF FormParms, PostPairs
  <2>7. QED
    BY <1>8, <2>5, <2>6
<1>11. QED
  BY <1>9, <1>10 DEF FormInv

\* Nothing else disturbs what it found.
LEMMA FormStep ==
  ASSUME IInv, FormSound, FormInv, [Next]_vars
  PROVE  FormInv'
<1>1. CASE Parse
  BY <1>1, FormParse
<1>2. pc = "handler" /\ reads \in Nat /\ edits \in Nat /\ request' = request
  BY RequestStays DEF IInv, Structure, RestType, TableTypeOK, FormSound
<1>3. FormParms' = FormParms
  BY <1>2, Zenon DEF FormParms, PostPairs
<1>4. ASSUME reads' = reads + 1 PROVE FormInv'
  <2>1. reads' # 0
    BY <1>2, <1>4
  <2>2. QED
    BY <2>1 DEF FormInv
<1>5. ASSUME UNCHANGED <<buf, entered, reads, told>>,
             edits' = 0 => edits = 0 /\ parms' = parms
      PROVE  FormInv'
  BY <1>3, <1>5 DEF FormInv
<1>6. CASE EditTable
  <2>1. edits' = edits + 1 \/ (edits' = edits /\ parms' = parms)
    BY <1>6 DEF EditTable, TableNext, ParamSet, ParamSetMulti, ParamUnset, ParamClear, Edit,
       EachBegin, EachNext, EachEnd
  <2>2. UNCHANGED <<buf, entered, reads, told>>
    BY <1>6 DEF EditTable, inputVars
  <2>3. QED
    BY <1>2, <1>5, <2>1, <2>2
<1>7. CASE NextPart \/ FileChunk \/ ShortWrite \/ HookReturns \/ HookRaises
  BY <1>2, <1>7 DEF NextPart, FileChunk, ShortWrite, HookReturns, HookRaises
<1>8. ASSUME NEW size \in Sizes, Read(size) \/ GetClientBlock(size) PROVE FormInv'
  BY <1>4, <1>8, Zenon DEF Read, GetClientBlock, MayRead
<1>9. CASE SetupClientBlock
  BY <1>4, <1>9 DEF SetupClientBlock, MayRead
<1>10. CASE Uploads
  BY <1>5, <1>10 DEF Uploads, tableVars
<1>11. CASE Cookies
  <2>1. UNCHANGED <<buf, entered, reads, told>> /\ UNCHANGED tableVars
    BY <1>11, Zenon DEF Cookies
  <2>2. QED
    BY <1>5, <2>1 DEF tableVars
<1>12. CASE Idle \/ UNCHANGED vars
  BY <1>5, <1>12 DEF Idle, vars, inputVars, tableVars
<1>13. QED
  BY <1>1, <1>6, <1>7, <1>8, <1>9, <1>10, <1>11, <1>12, Zenon DEF Next

\* What a client sends as a form: the pairs that the fields mean, in the query
\* string and, if it is posted, in the body.
PostMeant ==
  [i \in 1..Len(request.parts) |->
     [key |-> request.parts[i].param,
      val |-> IF request.parts[i].filename = NoText THEN request.parts[i].content
              ELSE request.parts[i].filename]]
FormSent ==
  /\ request.type = "form"
  /\ Encodes(request.args, request.query)
  /\ PostMeant \in Seq(Entries)
  /\ IF request.method = "POST"
       THEN Encodes(request.body, PostMeant) /\ Free(request.body, {NUL})
     ELSE PostMeant = <<>>

\* What it found is what the client meant.
LEMMA FormMeant ==
  ASSUME RequestTypeOK, FormSent
  PROVE  FormParms = Meant
<1>1. request.args \in Text /\ request.body \in Text /\ request.query \in Seq(Entries)
  BY DEF RequestTypeOK
<1>2. SplitToParms(request.args) = request.query
  BY <1>1, EncodesBack DEF FormSent
<1>3. PostPairs = PostMeant
  <2>1. CASE request.method = "POST"
    <3>1. CString(request.body) = request.body
      BY <1>1, <2>1, CStringFree DEF FormSent
    <3>2. QED
      BY <1>1, <2>1, <3>1, EncodesBack DEF FormSent, PostPairs
  <2>2. CASE request.method # "POST"
    BY <2>2 DEF FormSent, PostPairs
  <2>3. QED
    BY <2>1, <2>2
<1>4. QED
  BY <1>2, <1>3, Zenon DEF FormParms, Meant, PostMeant

-----------------------------------------------------------------------------
(* Theorems.                                                               *)

\* The variables keep their types, whatever the request is, however it
\* arrives, and whatever goes wrong.
THEOREM TypeCorrect == Spec => []TypeOK
<1>1. IInv => TypeOK
  BY DEF IInv, TypeOK, RestType, Apreq, Upload, GoodBuffer
<1>2. QED
  BY <1>1, InputAlways, PTL

\* The multipart buffer never has data outside its memory, for every boundary,
\* body, FILLUNIT and way the body arrives.
THEOREM DataInBuffer == Spec => []BufferInBounds
<1>1. IInv => BufferInBounds
  BY DEF IInv, GoodBuffer, InBounds, BufferInBounds
<1>2. QED
  BY <1>1, InputAlways, PTL

\* A handler's loop over the parameter table comes to every name and reads
\* nothing past the table, when its block only sets values.
THEOREM LoopsSeeAll == Spec => []EachSeesEveryName
<1>1. IInv => EachSeesEveryName
  <2> SUFFICES ASSUME IInv, each.edits \subseteq {"set"}, each.keys # {}, ~ each.on
               PROVE  each.keys \subseteq each.seen /\ ~ each.garbage
    BY DEF EachSeesEveryName
  <2>1. TableTypeOK /\ LoopGood(each, parms)
    BY DEF IInv, TableInv
  <2>2. QED
    BY <2>1 DEF LoopGood, ToCome
<1>2. QED
  BY <1>1, InputAlways, PTL

\* Reads return the body, in order and once, and the end only after all of it,
\* for reads of every size in every order.
THEOREM ReadsReturnBody == Spec => []ReadsAreBody
<1>1. IInv => ReadsAreBody
  BY DEF IInv, ReadInv, ReadOK, ReadsAreBody
<1>2. QED
  BY <1>1, InputAlways, PTL

\* The parser asks for no more than the client sends, if that is what it
\* announced.
THEOREM ParserWaitsForNothing == Spec /\ request.missing = 0 => []NeverWaits
<1> DEFINE Whole == request.missing = 0
<1>1. Whole /\ [Next]_vars => Whole'
  BY RequestStays
<1>2. IInv /\ Whole => NeverWaits
  BY DEF IInv, WaitInv, WaitOK, NeverWaits
<1> HIDE DEF Whole
<1>3. Spec /\ Whole => []NeverWaits
  BY <1>1, <1>2, InputAlways, PTL DEF Spec
<1>4. QED
  BY <1>3 DEF Whole

\* After the first parse the parameters begin with the pairs that the query
\* string stands for, and nargs is where they end, however that parse ended.
THEOREM QueryComesFirst == Spec /\ Encodes(request.args, request.query) => []QueryTellsApart
<1> DEFINE Decoded == request.query = SplitToParms(request.args)
           Encoded == Encodes(request.args, request.query)
<1>0. RequestTypeOK /\ Encoded => Decoded
  <2>1. RequestTypeOK => request.args \in Text /\ request.query \in Seq(Entries)
    BY DEF RequestTypeOK
  <2>2. QED
    BY <2>1, EncodesBack
<1>1. Decoded /\ [Next]_vars => Decoded'
  BY RequestStays
<1>2. IInv /\ Decoded => QueryTellsApart
  <2> SUFFICES ASSUME IInv, Decoded, entered = 1, edits = 0
               PROVE  QueryParams = request.query /\ IsPrefix(request.query \o PostParams, parms)
    BY DEF QueryTellsApart
  <2> DEFINE q == apreq.nargs
             query == request.query
  <2>1. /\ parms \in Seq(Entries) /\ q = Len(query) /\ q <= Len(parms)
        /\ SubSeq(parms, 1, q) = query
    BY DEF IInv, QuerySplit, SplitOK, TableTypeOK
  <2>2. q \in Nat
    BY DEF IInv, RestType, Apreq
  <2> HIDE DEF q, query
  <2>3. SubSeq(parms, 1, q) \o SubSeq(parms, q + 1, Len(parms)) = parms
    BY <2>1, <2>2, TwoPieces
  <2>4. query \o PostParams = parms /\ QueryParams = query
    BY <2>1, <2>3 DEF PostParams, QueryParams, q
  <2>5. IsPrefix(parms, parms)
    <3>1. SubSeq(parms, 1, Len(parms)) = parms /\ Len(parms) <= Len(parms)
      BY <2>1
    <3>2. QED
      BY <3>1, Zenon DEF IsPrefix
  <2>6. QED
    BY <2>4, <2>5 DEF query
<1>3. InputInit => RequestTypeOK
  BY DEF InputInit
<1> HIDE DEF Decoded, Encoded
<1>4. Spec /\ Encoded => []QueryTellsApart
  BY <1>0, <1>1, <1>2, <1>3, InputAlways, PTL DEF Spec
<1>5. QED
  BY <1>4 DEF Encoded

\* A form arrives whole and is told apart right: its parameters are the pairs
\* of the query string and of the body, for every form and every encoding of it
\* without NUL.  For forms that holds wherever what arrives at once ends.
THEOREM FormsArriveWhole == Spec /\ FormSent => [](FormComplete /\ CompleteHoweverCut)
<1>1. FormSent /\ [Next]_vars => FormSent'
  <2> SUFFICES ASSUME FormSent, [Next]_vars PROVE FormSent'
    OBVIOUS
  <2>1. request' = request
    BY RequestStays
  <2>2. PostMeant' = PostMeant
    BY <2>1, Zenon DEF PostMeant
  <2>3. QED
    BY <2>1, <2>2, Zenon DEF FormSent
<1> DEFINE Kept == FormSent /\ (request.fails = NoFailure => FormInv)
<1>2. InputInit /\ FormSent => Kept
  <2>1. InputInit => entered = 0 /\ buf.client = NewClient
    BY DEF InputInit, NewBuffer
  <2>2. QED
    BY <2>1 DEF FormInv
<1>3. IInv /\ Kept /\ [Next]_vars => Kept'
  <2> SUFFICES ASSUME IInv, Kept, [Next]_vars PROVE Kept'
    OBVIOUS
  <2>1. request' = request /\ FormSent'
    BY <1>1, RequestStays
  <2>2. ASSUME request.fails = NoFailure PROVE FormInv'
    BY <2>2, FormStep DEF FormSent, FormSound
  <2>3. QED
    BY <2>1, <2>2
<1>4. IInv /\ Kept => FormComplete /\ CompleteHoweverCut
  <2> SUFFICES ASSUME IInv, Kept, ParsedOnce, request.fails = NoFailure, edits = 0
               PROVE  parms = Meant
    BY DEF FormComplete, CompleteHoweverCut, HasParameters, LinesArriveWhole
  <2>1. FormInv
    OBVIOUS
  <2>2. parms = FormParms
    BY <2>1 DEF FormInv, ParsedOnce
  <2>3. FormParms = Meant
    BY FormMeant DEF IInv
  <2>4. QED
    BY <2>2, <2>3
<1> HIDE DEF Kept
<1>5. QED
  BY <1>2, <1>3, <1>4, InputAlways, PTL DEF Spec

\* Cookies that were baked come back as they were, with all their values, from
\* what a browser sends: for every cookie of texts without escapes whose last
\* value is not empty, or whose only one is.
THEOREM CookiesSurvive ==
  Spec /\ request.cookies \in Seq(Baked) /\ request.cookie = CookieField(request.cookies)
    => []CookiesComeBack
<1> DEFINE Sent == request.cookies \in Seq(Baked) /\ request.cookie = CookieField(request.cookies)
           Jar == jar = <<>> \/ jar = JarOf(request.cookies)
<1>1. Sent /\ [Next]_vars => Sent'
  BY RequestStays
<1>2. Sent => CookieParse(request.cookie) = request.cookies
  <2> SUFFICES ASSUME Sent PROVE CookieParse(request.cookie) = request.cookies
    OBVIOUS
  <2> DEFINE cookies == request.cookies
  <2>1. cookies \in Seq(Baked) /\ request.cookie = CookieField(cookies)
    OBVIOUS
  <2> HIDE DEF cookies, Sent
  <2>2. CASE cookies = <<>>
    BY <2>1, <2>2, NoCookiesBack DEF cookies
  <2>3. CASE cookies # <<>>
    BY <2>1, <2>3, CookiesBack DEF cookies
  <2>4. QED
    BY <2>2, <2>3
<1>3. InputInit => Jar
  BY DEF InputInit
<1>4. Jar /\ Sent /\ [Next]_vars => Jar'
  <2> SUFFICES ASSUME Jar, Sent, [Next]_vars PROVE Jar'
    OBVIOUS
  <2> HIDE DEF Sent
  <2>1. request' = request
    BY RequestStays
  <2>2. jar' = jar \/ jar' = JarOf(CookieParse(request.cookie))
    BY JarStep
  <2>3. jar' = <<>> \/ jar' = JarOf(request.cookies)
    BY <1>2, <2>2
  <2>4. QED
    BY <2>1, <2>3
<1>5. Jar => CookiesComeBack
  BY Zenon DEF CookiesComeBack, JarOf
<1> HIDE DEF Sent, Jar
<1>6. Spec /\ Sent => []CookiesComeBack
  BY <1>1, <1>3, <1>4, <1>5, PTL DEF Spec
<1>7. QED
  BY <1>6 DEF Sent
=============================================================================
