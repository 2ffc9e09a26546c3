---------------------- MODULE ConfigurationHandlers -----------------------
(***************************************************************************)
(* Proofs about the handlers of requests, on the invariants of             *)
(* ConfigurationRequests: in which order they run (RanInOrder), that       *)
(* init handlers run once and cleanup handlers of sections run, what a     *)
(* .htaccess file can not do where its directives are refused (Unheard),   *)
(* and the load paths that handlers and libraries see (HandlersSee,        *)
(* LibrariesSee).                                                          *)
(***************************************************************************)
EXTENDS ConfigurationRequests

-----------------------------------------------------------------------------
(* The handlers of a request are those of its scopes, the inner ones first. *)

LEMMA ReverseFacts ==
  ASSUME NEW A, NEW t \in Seq(A)
  PROVE  /\ Reverse(t) \in Seq(A) /\ Len(Reverse(t)) = Len(t) /\ Len(t) \in Nat
         /\ DOMAIN Reverse(t) = 1..Len(t)
         /\ \A i \in 1..Len(t) : Reverse(t)[i] = t[Len(t) - i + 1] /\ Len(t) - i + 1 \in 1..Len(t)
<1> DEFINE n == Len(t)
<1>1. n \in Nat /\ \A i \in 1..n : t[i] \in A
  BY LenProperties
<1>2. Reverse(t) = [i \in 1..n |-> t[n - i + 1]]
  BY DEF Reverse
<1> HIDE DEF n
<1>3. \A i \in 1..n : n - i + 1 \in 1..n
  BY <1>1
<1>4. \A i \in 1..n : t[n - i + 1] \in A
  BY <1>1, <1>3
<1>5. Reverse(t) \in Seq(A) /\ Len(Reverse(t)) = n
  BY <1>1, <1>2, <1>4
<1>6. QED
  BY <1>1, <1>2, <1>3, <1>5 DEF n

\* What is appended comes first when the order is reversed.
LEMMA ReverseAppend ==
  ASSUME NEW A, NEW t \in Seq(A), NEW x \in A
  PROVE  Reverse(Append(t, x)) = <<x>> \o Reverse(t)
<1> DEFINE u == Append(t, x)
           n == Len(t)
           one == <<x>>
<1>1. /\ u \in Seq(A) /\ Len(u) = n + 1 /\ n \in Nat
      /\ \A i \in 1..n : u[i] = t[i]
      /\ u[n + 1] = x
  BY AppendProperties, LenProperties
<1>2. one \in Seq(A) /\ Len(one) = 1 /\ one[1] = x
  OBVIOUS
<1>3. /\ Reverse(t) \in Seq(A) /\ Len(Reverse(t)) = n
      /\ \A i \in 1..n : Reverse(t)[i] = t[n - i + 1] /\ n - i + 1 \in 1..n
  BY ReverseFacts
<1> HIDE DEF u, n, one
<1>4. /\ Reverse(u) \in Seq(A) /\ Len(Reverse(u)) = Len(u)
      /\ \A i \in 1..Len(u) : Reverse(u)[i] = u[Len(u) - i + 1]
  BY <1>1, ReverseFacts
<1> DEFINE rev == Reverse(t)
           both == one \o rev
<1>5. rev \in Seq(A) /\ Len(rev) = n
  BY <1>3
<1> HIDE DEF rev
<1>6. /\ both \in Seq(A) /\ Len(one) \in Nat /\ Len(rev) \in Nat /\ Len(both) = Len(one) + Len(rev)
      /\ DOMAIN one = 1..Len(one) /\ DOMAIN rev = 1..Len(rev) /\ DOMAIN both = 1..Len(one) + Len(rev)
      /\ \A i \in 1..Len(one) : both[i] = one[i]
      /\ \A i \in 1..Len(rev) : both[Len(one) + i] = rev[i]
  <2>1. one \in Seq(A) /\ rev \in Seq(A)
    BY <1>2, <1>5
  <2>2. QED
    BY <2>1, ConcatFacts
<1> HIDE DEF both
<1>7. ASSUME NEW i \in 1..n + 1 PROVE Reverse(u)[i] = both[i]
  <2>1. Reverse(u)[i] = u[(n + 1) - i + 1]
    BY <1>1, <1>4
  <2>2. CASE i = 1
    <3>1. (n + 1) - i + 1 = n + 1 /\ 1 \in 1..1
      BY <1>1, <2>2
    <3>2. QED
      BY <1>1, <1>2, <1>6, <2>1, <2>2, <3>1
  <2>3. CASE i # 1
    <3>1. i - 1 \in 1..n /\ 1 + (i - 1) = i /\ (n + 1) - i + 1 = n - (i - 1) + 1
      BY <1>1, <2>3
    <3>2. both[1 + (i - 1)] = rev[i - 1]
      BY <1>2, <1>5, <1>6, <3>1
    <3>3. rev[i - 1] = t[n - (i - 1) + 1] /\ n - (i - 1) + 1 \in 1..n
      BY <1>3, <3>1 DEF rev
    <3>4. QED
      BY <1>1, <2>1, <3>1, <3>2, <3>3
  <2>4. QED
    BY <2>2, <2>3
<1>8. Len(both) = n + 1
  BY <1>1, <1>2, <1>5, <1>6
<1>9. Reverse(u) = both
  BY <1>1, <1>4, <1>6, <1>7, <1>8, SeqEqual
<1>10. QED
  BY <1>9 DEF u, both, rev, one

LEMMA ReverseEmpty == Reverse(<<>>) = <<>>
BY DEF Reverse

\* The handlers of the scopes of S, the last one's first.
LEMMA HandlersOfLayers ==
  ASSUME NEW A, NULL \notin Seq(A), NEW N \in Nat, NEW s \in Seq(A), Len(s) = N + 1,
         NEW S, NEW h, Keeps(S, s, h), NEW c, NEW g, Layered(N, c, g), NEW p \in Phases,
         \A k \in 1..N + 1 : c[k].handlers[p] = IF s[k] \in S THEN <<s[k]>> ELSE NULL
  PROVE  g[N].handlers[p] = IF h[N + 1] = <<>> THEN NULL ELSE Reverse(h[N + 1])
<1> DEFINE Found(k) == IF h[k + 1] = <<>> THEN NULL ELSE Reverse(h[k + 1])
           G == {k \in 0..N : g[k].handlers[p] = Found(k)}
<1>1. \A k \in 0..N + 1 : h[k] \in Seq(A)
  BY KeepsType
<1>2. \A k \in 1..N + 1 : s[k] \in A /\ <<s[k]>> # NULL
  <2>1. \A k \in 1..N + 1 : s[k] \in A
    BY LenProperties
  <2>2. \A k \in 1..N + 1 : <<s[k]>> \in Seq(A)
    BY <2>1
  <2>3. QED
    BY <2>1, <2>2
<1>3. ASSUME NEW k \in 0..N
      PROVE  /\ Found(k) = IF s[k + 1] \in S THEN <<s[k + 1]>> \o Reverse(h[k])
                           ELSE IF h[k] = <<>> THEN NULL ELSE Reverse(h[k])
             /\ Reverse(h[k]) # NULL
  <2>1. h[k + 1] = Keep(S, h[k], s[k + 1])
    BY <1>3 DEF Keeps
  <2>2. h[k] \in Seq(A) /\ s[k + 1] \in A
    BY <1>1, <1>2
  <2>3. Reverse(h[k]) # NULL
    BY <2>2, ReverseFacts
  <2>4. CASE s[k + 1] \in S
    <3>1. h[k + 1] = Append(h[k], s[k + 1]) /\ h[k + 1] # <<>>
      BY <2>1, <2>2, <2>4, LastOfAppend DEF Keep
    <3>2. QED
      BY <2>2, <2>3, <2>4, <3>1, ReverseAppend
  <2>5. CASE s[k + 1] \notin S
    BY <2>1, <2>3, <2>5 DEF Keep
  <2>6. QED
    BY <2>4, <2>5
<1>4. 0 \in G
  <2>1. h[0] = <<>> /\ g[0] = c[1]
    BY DEF Keeps, Layered
  <2>2. 1 \in 1..N + 1 /\ 0 \in 0..N /\ 0 + 1 = 1
    OBVIOUS
  <2>3. <<s[1]>> \o Reverse(h[0]) = <<s[1]>>
    <3>1. <<s[1]>> \in Seq(A)
      BY <1>2, <2>2
    <3>2. QED
      BY <2>1, <3>1, ReverseEmpty, ConcatEmptySeq
  <2>4. Found(0) = IF s[1] \in S THEN <<s[1]>> ELSE NULL
    <3> HIDE DEF Found
    <3>1. QED
      BY <1>3, <2>1, <2>2, <2>3
  <2> HIDE DEF Found
  <2>5. g[0].handlers[p] = Found(0)
    BY <2>1, <2>2, <2>4
  <2>6. QED
    BY <2>5
<1>5. ASSUME NEW n \in 0..N - 1, n \in G
      PROVE  n + 1 \in G
  <2>1. g[n + 1] = MergeDirConfig(g[n], c[n + 2])
    <3>1. n + 1 \in 1..N /\ (n + 1) - 1 = n /\ (n + 1) + 1 = n + 2
      OBVIOUS
    <3>2. g[n + 1] = MergeDirConfig(g[(n + 1) - 1], c[(n + 1) + 1])
      BY <3>1 DEF Layered
    <3>3. QED
      BY <3>1, <3>2
  <2>2. g[n + 1].handlers[p] = MergeHandlers(g[n].handlers[p], c[n + 2].handlers[p])
    BY <2>1 DEF MergeDirConfig
  <2>3. n + 1 \in 0..N /\ (n + 1) + 1 = n + 2 /\ n + 2 \in 1..N + 1
    OBVIOUS
  <2>4. Found(n) = IF h[n + 1] = <<>> THEN NULL ELSE Reverse(h[n + 1])
    OBVIOUS
  <2>5. /\ Found(n + 1) = IF s[n + 2] \in S THEN <<s[n + 2]>> \o Reverse(h[n + 1]) ELSE Found(n)
        /\ Reverse(h[n + 1]) # NULL
    <3> DEFINE m == n + 1
    <3>1. m \in 0..N
      OBVIOUS
    <3>2. /\ Found(m) = IF s[m + 1] \in S THEN <<s[m + 1]>> \o Reverse(h[m])
                        ELSE IF h[m] = <<>> THEN NULL ELSE Reverse(h[m])
          /\ Reverse(h[m]) # NULL
      <4> HIDE DEF Found, m
      <4>1. QED
        BY <1>3, <3>1
    <3>3. QED
      BY <2>3, <2>4, <3>2
  <2>6. g[n].handlers[p] = Found(n)
    BY <1>5
  <2>7. s[n + 2] \in A /\ <<s[n + 2]>> # NULL
        /\ c[n + 2].handlers[p] = IF s[n + 2] \in S THEN <<s[n + 2]>> ELSE NULL
    BY <1>2, <2>3
  <2>8. h[n + 1] = <<>> => <<s[n + 2]>> \o Reverse(h[n + 1]) = <<s[n + 2]>>
    <3>1. <<s[n + 2]>> \in Seq(A)
      BY <2>7
    <3>2. QED
      BY <3>1, ReverseEmpty, ConcatEmptySeq
  <2> HIDE DEF Found
  <2>9. g[n + 1].handlers[p] = Found(n + 1)
    <3>1. CASE s[n + 2] \notin S
      BY <2>2, <2>5, <2>6, <2>7, <3>1 DEF MergeHandlers
    <3>2. CASE s[n + 2] \in S /\ h[n + 1] = <<>>
      BY <2>2, <2>4, <2>5, <2>6, <2>7, <2>8, <3>2 DEF MergeHandlers
    <3>3. CASE s[n + 2] \in S /\ h[n + 1] # <<>>
      BY <2>2, <2>4, <2>5, <2>6, <2>7, <3>3 DEF MergeHandlers
    <3>4. QED
      BY <3>1, <3>2, <3>3
  <2>10. QED
    BY <2>3, <2>9
<1> HIDE DEF G, Found
<1>6. N \in G
  <2>1. \A n \in 0..N : n \in G
    BY <1>4, <1>5, Upward
  <2>2. QED
    BY <2>1
<1>7. QED
  BY <1>6 DEF G, Found

LEMMA RequestHandlers ==
  ASSUME Sound, Progress, AsWritten, r.phase # "none" \/ Walked, stage = "serving", NEW phase, Fits(phase),
         NEW p \in Phases
  PROVE  r.dconf.handlers[p] = IF Saying(phase, p) = <<>> THEN NULL ELSE Reverse(Saying(phase, p))
<1> DEFINE s == Scopes(phase)
           N == Len(Within(phase))
           S == {x \in AllScopes : Says(x, p)}
           c == Confs(s)
<1>1. s \in Seq(AllScopes) /\ N \in Nat /\ Len(s) = N + 1
  BY ScopesType
<1>2. PICK g : Layers(s, g) /\ r.dconf = g[N]
  BY InForce
<1>3. Layered(N, c, g) /\ \A k \in 1..N + 1 : c[k] = dir_config[s[k]] /\ s[k] \in ToSet(s)
  BY <1>2, LayersOf
<1>4. \A k \in 1..N + 1 : c[k].handlers[p] = IF s[k] \in S THEN <<s[k]>> ELSE NULL
  <2>1. ASSUME NEW k \in 1..N + 1 PROVE c[k].handlers[p] = IF s[k] \in S THEN <<s[k]>> ELSE NULL
    <3>1. ConfigAsWritten(s[k]) /\ s[k] \in AllScopes /\ c[k] = dir_config[s[k]]
      <4>1. s[k] \in ToSet(Scopes(phase)) /\ c[k] = dir_config[s[k]]
        BY <1>3, <2>1
      <4>2. QED
        BY <4>1, ScopeSays, ScopesElements
    <3>2. QED
      BY <3>1 DEF ConfigAsWritten, Mine
  <2>2. QED
    BY <2>1
<1>5. Saying(phase, p) = Those(s, S)
  BY DEF Saying
<1>6. NULL \notin Seq(AllScopes)
  BY ConfigurationAssumption
<1> HIDE DEF s, N, S, c
<1>7. PICK h : Keeps(S, s, h) /\ Those(s, S) = h[Len(s)]
  BY <1>1, ThoseSteps, Zenon
<1>8. g[N].handlers[p] = IF h[N + 1] = <<>> THEN NULL ELSE Reverse(h[N + 1])
  BY <1>1, <1>3, <1>4, <1>6, <1>7, HandlersOfLayers
<1>9. QED
  BY <1>1, <1>2, <1>5, <1>7, <1>8

-----------------------------------------------------------------------------
(* What is kept of a sequence that is appended to, and prefixes.           *)

\* When all that follows is kept and nothing before it.
LEMMA ThoseAfter ==
  ASSUME NEW A, NEW s \in Seq(A), NEW t \in Seq(A), NEW S,
         \A i \in DOMAIN s : s[i] \notin S, \A i \in DOMAIN t : t[i] \in S
  PROVE  Those(s \o t, S) = t
<1> DEFINE u == s \o t
           M == Len(s)
           N == Len(t)
<1>1. /\ u \in Seq(A) /\ M \in Nat /\ N \in Nat /\ Len(u) = M + N
      /\ DOMAIN s = 1..M /\ DOMAIN t = 1..N
      /\ \A i \in 1..M : u[i] = s[i]
      /\ \A i \in 1..N : u[M + i] = t[i]
  BY ConcatFacts
<1> HIDE DEF u, M, N
<1>2. PICK h : Keeps(S, u, h) /\ Those(u, S) = h[Len(u)]
  BY <1>1, ThoseSteps, Zenon
<1>3. h[0] = <<>> /\ \A n \in 0..M + N - 1 : h[n + 1] = Keep(S, h[n], u[n + 1])
  BY <1>1, <1>2 DEF Keeps
<1> DEFINE F == {n \in 0..M : h[n] = <<>>}
<1>4. \A n \in 0..M : n \in F
  <2>1. 0 \in F
    BY <1>1, <1>3
  <2>2. ASSUME NEW n \in 0..M - 1, n \in F PROVE n + 1 \in F
    <3>1. n \in 0..M + N - 1 /\ n + 1 \in 0..M /\ n + 1 \in 1..M
      BY <1>1
    <3>2. u[n + 1] \notin S
      BY <1>1, <3>1
    <3>3. h[n + 1] = <<>>
      BY <1>3, <2>2, <3>1, <3>2 DEF Keep
    <3>4. QED
      BY <3>1, <3>3
  <2> HIDE DEF F
  <2>3. QED
    BY <1>1, <2>1, <2>2, Upward
<1> DEFINE Same(n) == /\ h[M + n] \in Seq(A) /\ Len(h[M + n]) = n
                      /\ \A i \in 1..n : h[M + n][i] = t[i]
           G == {n \in 0..N : Same(n)}
<1>5. \A n \in 0..N : n \in G
  <2>1. 0 \in G
    <3>1. M \in F /\ M + 0 = M
      BY <1>1, <1>4
    <3>2. h[M + 0] = <<>>
      BY <3>1
    <3>3. Same(0)
      BY <3>2, EmptySeq
    <3>4. QED
      BY <1>1, <3>3
  <2>2. ASSUME NEW n \in 0..N - 1, n \in G PROVE n + 1 \in G
    <3>1. /\ M + n \in 0..M + N - 1 /\ (M + n) + 1 = M + (n + 1) /\ n + 1 \in 0..N /\ n + 1 \in 1..N
          /\ n \in Nat
      BY <1>1
    <3>2. u[M + (n + 1)] = t[n + 1] /\ t[n + 1] \in S /\ t[n + 1] \in A
      <4>1. \A i \in 1..N : t[i] \in A
        BY <1>1, LenProperties
      <4>2. QED
        BY <1>1, <3>1, <4>1
    <3> DEFINE old == h[M + n]
    <3>3. h[M + (n + 1)] = Keep(S, old, u[(M + n) + 1])
      <4>1. h[(M + n) + 1] = Keep(S, h[M + n], u[(M + n) + 1])
        BY <1>3, <3>1
      <4>2. QED
        BY <3>1, <4>1
    <3>4. old \in Seq(A) /\ Len(old) = n /\ \A i \in 1..n : old[i] = t[i]
      BY <2>2
    <3> HIDE DEF old
    <3>5. h[M + (n + 1)] = Append(old, t[n + 1])
      BY <3>1, <3>2, <3>3 DEF Keep
    <3> DEFINE new == Append(old, t[n + 1])
    <3>6. /\ new \in Seq(A) /\ Len(new) = n + 1 /\ new[n + 1] = t[n + 1]
          /\ \A i \in 1..n : new[i] = old[i]
      BY <3>2, <3>4, AppendProperties
    <3> HIDE DEF new
    <3>7. \A i \in 1..n + 1 : new[i] = t[i]
      <4>1. \A i \in 1..n + 1 : i = n + 1 \/ i \in 1..n
        BY <3>1
      <4>2. QED
        BY <3>4, <3>6, <4>1
    <3>8. h[M + (n + 1)] = new
      BY <3>5 DEF new
    <3>9. Same(n + 1)
      BY <3>6, <3>7, <3>8
    <3> HIDE DEF Same
    <3>10. QED
      BY <3>1, <3>9
  <2> HIDE DEF G
  <2>3. QED
    BY <1>1, <2>1, <2>2, Upward
<1>6. /\ h[M + N] \in Seq(A) /\ Len(h[M + N]) = N
      /\ \A i \in 1..N : h[M + N][i] = t[i]
  <2>1. N \in 0..N
    BY <1>1
  <2>2. N \in G
    BY <1>5, <2>1
  <2>3. QED
    BY <2>2
<1> HIDE DEF G
<1>7. h[M + N] = t
  <2>1. Len(t) = N
    BY DEF N
  <2> DEFINE x == h[M + N]
  <2>2. x \in Seq(A) /\ Len(x) = Len(t) /\ \A i \in 1..Len(t) : x[i] = t[i]
    BY <1>6, <2>1
  <2> HIDE DEF x
  <2>3. x = t
    BY <2>2, SeqEqual
  <2>4. QED
    BY <2>3 DEF x
<1>8. QED
  BY <1>1, <1>2, <1>7 DEF u

LEMMA PrefixOf ==
  ASSUME NEW A, NEW s \in Seq(A), NEW t \in Seq(A), Len(s) <= Len(t),
         \A i \in 1..Len(s) : s[i] = t[i]
  PROVE  IsPrefix(s, t)
<1> DEFINE n == Len(s)
<1>1. n \in Nat /\ Len(t) \in Nat /\ \A i \in 1..n : s[i] \in A /\ t[i] \in A
  BY LenProperties
<1>2. 1 - 1 = 0 /\ n - 1 + 1 = n /\ (1 <= n => n - 1 + 1 = n) /\ (~ 1 <= n => n = 0)
  BY <1>1
<1>3. \A i \in 1..n : 1 + i - 1 = i
  BY <1>1
<1> DEFINE a == SubSeq(s, 1, n)
           b == SubSeq(t, 1, n)
<1>4. a \in Seq(A) /\ Len(a) = n /\ \A i \in 1..n : a[i] = s[i]
  <2>1. /\ a \in Seq(A) /\ Len(a) = (IF 1 <= n THEN n - 1 + 1 ELSE 0)
        /\ \A i \in 1..n - 1 + 1 : a[i] = s[1 + i - 1]
    BY <1>1, SubSeqProperties
  <2> HIDE DEF a, n
  <2>2. QED
    BY <1>2, <1>3, <2>1
<1>5. b \in Seq(A) /\ Len(b) = n /\ \A i \in 1..n : b[i] = t[i]
  <2>1. /\ b \in Seq(A) /\ Len(b) = (IF 1 <= n THEN n - 1 + 1 ELSE 0)
        /\ \A i \in 1..n - 1 + 1 : b[i] = t[1 + i - 1]
    BY <1>1, SubSeqProperties
  <2> HIDE DEF b, n
  <2>2. QED
    BY <1>2, <1>3, <2>1
<1> HIDE DEF a, b
<1>6. a = b
  BY <1>4, <1>5, SeqEqual
<1>7. QED
  BY <1>6 DEF IsPrefix, a, b

-----------------------------------------------------------------------------
(* The handlers that have run.                                             *)

\* The directive of the handlers of a phase, and those of the phase that have run.
Kind(phase) == IF phase = "late_init" THEN "init" ELSE phase
RanIn(phase) == Those(ran, {x \in ToSet(ran) : x.phase = phase})

\* The handlers of a phase are those that the scopes name, the last scope's first.
LEMMA HandlersSaid ==
  ASSUME Sound, Progress, AsWritten, NEW phase \in Phases \cup {"late_init"}, r.phase = phase, Fits(phase)
  PROVE  /\ Handlers(phase) = Reverse(Saying(phase, Kind(phase)))
         /\ Saying(phase, Kind(phase)) \in Seq(AllScopes)
<1> DEFINE p == Kind(phase)
           said == Saying(phase, p)
<1>1. p \in Phases /\ "cleanup" \in Phases
  BY DEF Kind, Phases
<1>2. r.phase # "none" /\ stage = "serving"
  BY SoundRequest DEF Phases
<1>3. HandlersOf(phase) = r.dconf.handlers[p]
  BY DEF HandlersOf, CleanupConfig, Kind
<1>4. said \in Seq(AllScopes)
  BY ScopesType, ThoseElements DEF Saying
<1> HIDE DEF p
<1>5. r.dconf.handlers[p] = IF said = <<>> THEN NULL ELSE Reverse(said)
  BY <1>1, <1>2, RequestHandlers
<1> HIDE DEF said
<1>6. Reverse(said) # NULL
  BY <1>4, ReverseFacts, Names
<1>7. Handlers(phase) = Reverse(said)
  BY <1>3, <1>5, <1>6, ReverseEmpty DEF Handlers
<1>8. QED
  BY <1>4, <1>7 DEF said, p

\* A phase runs the first of its handlers, and no others have run in it.
LEMMA PhaseRanIn ==
  ASSUME Sound, Progress, NEW phase \in Phases \cup {"late_init"}, Phase(phase)
  PROVE  \E n \in 1..Len(Handlers(phase)) :
           \A p : p = phase => RanIn(p)' = [i \in 1..n |-> [phase |-> phase, scope |-> Handlers(phase)[i]]]
<1>1. PICK n \in 1..Len(Handlers(phase)) :
        /\ r.phase = phase
        /\ ran' = ran \o [i \in 1..n |-> [phase |-> phase, scope |-> Handlers(phase)[i]]]
  BY PhaseFacts
<1> DEFINE hs == Handlers(phase)
<1>2. hs \in Seq(AllScopes) /\ n \in 1..Len(hs) /\ Len(hs) \in Nat
  BY <1>1, HandlersType, LenProperties
<1> HIDE DEF hs
<1> DEFINE new == [i \in 1..n |-> [phase |-> phase, scope |-> hs[i]]]
           S == {x \in ToSet(ran') : x.phase = phase}
<1>3. ran' = ran \o new
  BY <1>1 DEF hs
<1>4. new \in Seq(RunRecords) /\ DOMAIN new = 1..n
  <2>1. n \in Nat /\ \A i \in 1..n : hs[i] \in AllScopes
    BY <1>2, LenProperties
  <2>2. \A i \in 1..n : [phase |-> phase, scope |-> hs[i]] \in RunRecords
    BY <2>1 DEF RunRecords
  <2>3. QED
    BY <2>1, <2>2
<1>5. ran \in Seq(RunRecords)
  BY SoundRequest
<1>6. \A i \in DOMAIN new : new[i].phase = phase /\ new[i] \in ToSet(ran')
  <2>1. ToSet(ran \o new) = ToSet(ran) \cup ToSet(new)
    BY <1>4, <1>5, ConcatElements
  <2>2. \A i \in DOMAIN new : new[i].phase = phase
    BY <1>4
  <2> HIDE DEF new
  <2>3. \A i \in DOMAIN new : new[i] \in ToSet(new)
    BY <1>4, SetFacts
  <2>4. QED
    BY <1>3, <2>1, <2>2, <2>3
<1>7. \A i \in DOMAIN ran : ran[i].phase # phase
  <2>1. ASSUME NEW i \in DOMAIN ran, ran[i].phase = phase PROVE FALSE
    <3>1. At(phase) < At(phase)
      BY <1>1, <2>1 DEF Progress
    <3>2. At(phase) \in 1..16
      BY AtSet
    <3>3. QED
      BY <3>1, <3>2
  <2>2. QED
    BY <2>1
<1> HIDE DEF new
<1>8. Those(ran', S) = new
  <2>1. \A i \in DOMAIN ran : ran[i] \notin S
    BY <1>7
  <2>2. \A i \in DOMAIN new : new[i] \in S
    BY <1>6
  <2> HIDE DEF S
  <2>3. Those(ran \o new, S) = new
    BY <1>4, <1>5, <2>1, <2>2, ThoseAfter
  <2>4. QED
    BY <1>3, <2>3
<1>9. ASSUME NEW p, p = phase PROVE RanIn(p)' = new
  <2>1. RanIn(p)' = Those(ran', {x \in ToSet(ran') : x.phase = p})
    BY DEF RanIn, ToSet
  <2>2. QED
    BY <1>8, <1>9, <2>1
<1>10. QED
  BY <1>2, <1>9 DEF new, hs

RanInOrder(phase) ==
  IsPrefix([i \in DOMAIN RanIn(phase) |-> RanIn(phase)[i].scope], Reverse(Saying(phase, Kind(phase))))

LEMMA InOrder ==
  /\ InsideOut <=> (Ran => \A p : p = last.phase => RanInOrder(p))
BY DEF InsideOut, RanInOrder, RanIn, Kind

LEMMA PhaseInOrder ==
  ASSUME Sound, Progress, AsWritten, NEW phase \in Phases \cup {"late_init"}, Phase(phase),
         phase \notin {"log", "cleanup"}
  PROVE  \A p : p = phase => RanInOrder(p)'
<1>1. r.phase = phase
  BY DEF Phase
<1>2. PICK n \in 1..Len(Handlers(phase)) :
        \A p : p = phase => RanIn(p)' = [i \in 1..n |-> [phase |-> phase, scope |-> Handlers(phase)[i]]]
  BY PhaseRanIn
<1> DEFINE hs == Handlers(phase)
<1>3. hs = Reverse(Saying(phase, Kind(phase))) /\ hs \in Seq(AllScopes)
  BY <1>1, PhaseFits, HandlersSaid, HandlersType
<1>4. \A d : Saying(phase, d)' = Saying(phase, d)
  BY PhaseSameScopes, SameSays
<1>5. n \in 1..Len(hs) /\ Len(hs) \in Nat
  BY <1>2, <1>3, LenProperties
<1> HIDE DEF hs
<1> DEFINE names == [i \in 1..n |-> hs[i]]
<1>6. IsPrefix(names, hs)
  <2>1. n \in Nat /\ \A i \in 1..n : hs[i] \in AllScopes
    BY <1>3, <1>5, LenProperties
  <2>2. names \in Seq(AllScopes) /\ Len(names) = n
    BY <2>1
  <2>3. \A i \in 1..n : names[i] = hs[i]
    OBVIOUS
  <2> HIDE DEF names
  <2>4. QED
    BY <1>3, <1>5, <2>2, <2>3, PrefixOf
<1>7. ASSUME NEW p, p = phase PROVE RanInOrder(p)'
  <2> DEFINE of == [i \in 1..n |-> [phase |-> phase, scope |-> hs[i]]]
  <2>1. RanIn(p)' = of
    BY <1>2, <1>7 DEF hs
  <2>2. [i \in DOMAIN of |-> of[i].scope] = names
    OBVIOUS
  <2>3. Saying(p, Kind(p))' = Saying(phase, Kind(phase))
    BY <1>4, <1>7 DEF Kind
  <2> HIDE DEF of, names
  <2>4. RanInOrder(p)' <=> IsPrefix([i \in DOMAIN of |-> of[i].scope], hs)
    BY <1>3, <2>1, <2>3 DEF RanInOrder
  <2>5. QED
    BY <1>6, <2>2, <2>4
<1>8. QED
  BY <1>7

LEMMA InsideOutStep ==
  Sound /\ Progress /\ AsWritten /\ SettingsFound /\ InsideOut /\ [Next]_vars => InsideOut'
<1> SUFFICES ASSUME Sound, Progress, AsWritten, SettingsFound, InsideOut, [Next]_vars PROVE InsideOut'
  OBVIOUS
<1>1. CASE last' = Nothing
  BY <1>1 DEF Nothing, InsideOut, Ran
<1>2. CASE last' = last /\ ran' = ran /\ \A p : p = last.phase /\ Ran => SameScopes(p) /\ SameScopes("init")
  <2>1. Ran' <=> Ran
    BY <1>2 DEF Ran
  <2>2. ASSUME Ran, NEW p, p = last.phase PROVE RanInOrder(p)'
    <3>1. \A d : Saying(p, d)' = Saying(p, d)
      BY <1>2, <2>2, SameSays
    <3>2. RanIn(p)' = RanIn(p)
      BY <1>2 DEF RanIn, ToSet
    <3>3. RanInOrder(p)
      BY <2>2, InOrder
    <3>4. Saying(p, Kind(p))' = Saying(p, Kind(p))
      BY <3>1 DEF Kind
    <3>5. QED
      BY <3>2, <3>3, <3>4 DEF RanInOrder
  <2>3. QED
    BY <1>2, <2>1, <2>2 DEF InsideOut, RanInOrder, RanIn, Kind
<1>3. ASSUME NEW phase \in Phases \cup {"late_init"}, Phase(phase) PROVE InsideOut'
  <2>1. last'.phase = phase
    BY <1>3, PhaseFacts
  <2>2. phase \notin {"log", "cleanup"} => \A p : p = phase => RanInOrder(p)'
    BY <1>3, PhaseInOrder
  <2>3. QED
    BY <2>1, <2>2 DEF InsideOut, Ran, RanInOrder, RanIn, Kind
<1>4. QED
  BY <1>1, <1>2, <1>3, FoundSteps DEF SettingsFound

\* Handlers of a phase run from the inside out and none twice, up to the one that
\* ends the phase (merge_handlers and ruby_handler).
THEOREM HandlersInsideOut == Spec => []InsideOut
<1>1. Init => InsideOut
  BY DEF Init, Nothing, InsideOut, Ran
<1>2. QED
  BY SettingsAlways, InsideOutStep, <1>1, PTL DEF Spec

-----------------------------------------------------------------------------
(* No scope applies twice.                                                 *)

Distinct(s) == \A i, j \in DOMAIN s : s[i] = s[j] => i = j

LEMMA ConcatDistinct ==
  ASSUME NEW A, NEW s \in Seq(A), NEW t \in Seq(A), Distinct(s), Distinct(t),
         \A x \in ToSet(s) : x \notin ToSet(t)
  PROVE  Distinct(s \o t)
<1> DEFINE u == s \o t
           M == Len(s)
           N == Len(t)
<1>1. /\ M \in Nat /\ N \in Nat /\ DOMAIN u = 1..M + N
      /\ DOMAIN s = 1..M /\ DOMAIN t = 1..N
      /\ \A i \in 1..M : u[i] = s[i]
      /\ \A i \in 1..N : u[M + i] = t[i]
  BY ConcatFacts
<1>2. \A i \in 1..M : s[i] \in ToSet(s)
  BY <1>1, SetFacts
<1>3. \A i \in 1..N : t[i] \in ToSet(t)
  BY <1>1, SetFacts
<1>4. (\A i, j \in 1..M : s[i] = s[j] => i = j) /\ (\A i, j \in 1..N : t[i] = t[j] => i = j)
  BY <1>1 DEF Distinct
<1> HIDE DEF u, M, N
<1>5. \A i \in 1..M + N : i \in 1..M \/ (i - M \in 1..N /\ M + (i - M) = i)
  BY <1>1
<1>6. ASSUME NEW i \in 1..M + N, NEW j \in 1..M + N, u[i] = u[j] PROVE i = j
  <2>1. CASE i \in 1..M /\ j \in 1..M
    BY <1>1, <1>4, <1>6, <2>1
  <2>2. CASE i \in 1..M /\ j - M \in 1..N /\ M + (j - M) = j
    <3>1. u[i] = s[i] /\ u[j] = t[j - M]
      BY <1>1, <2>2
    <3>2. QED
      BY <1>2, <1>3, <1>6, <2>2, <3>1
  <2>3. CASE j \in 1..M /\ i - M \in 1..N /\ M + (i - M) = i
    <3>1. u[j] = s[j] /\ u[i] = t[i - M]
      BY <1>1, <2>3
    <3>2. QED
      BY <1>2, <1>3, <1>6, <2>3, <3>1
  <2>4. CASE i - M \in 1..N /\ M + (i - M) = i /\ j - M \in 1..N /\ M + (j - M) = j
    <3>1. u[i] = t[i - M] /\ u[j] = t[j - M]
      BY <1>1, <2>4
    <3>2. i - M = j - M
      BY <1>4, <1>6, <2>4, <3>1
    <3>3. QED
      BY <1>1, <3>2
  <2>5. QED
    BY <1>5, <2>1, <2>2, <2>3, <2>4
<1>7. QED
  BY <1>1, <1>6 DEF Distinct, u

\* What is kept of a sequence without repetition has none.
LEMMA ThoseDistinct ==
  ASSUME NEW A, NEW s \in Seq(A), NEW S, Distinct(s)
  PROVE  Distinct(Those(s, S))
<1> DEFINE N == Len(s)
<1>1. PICK h : Keeps(S, s, h) /\ Those(s, S) = h[N]
  BY ThoseSteps, Zenon
<1>2. N \in Nat /\ DOMAIN s = 1..N /\ \A i \in 1..N : s[i] \in A
  BY LenProperties
<1>3. h[0] = <<>> /\ \A n \in 0..N - 1 : h[n + 1] = Keep(S, h[n], s[n + 1])
  BY <1>1 DEF Keeps
<1>4. \A n \in 0..N : h[n] \in Seq(A)
  BY <1>1, KeepsType
<1> DEFINE From(x, n) == \E k \in 1..n : s[k] = x
           G == {n \in 0..N : Distinct(h[n]) /\ \A i \in DOMAIN h[n] : From(h[n][i], n)}
<1>5. 0 \in G
  <2>1. DOMAIN h[0] = {}
    BY <1>3
  <2>2. QED
    BY <1>2, <2>1 DEF Distinct
<1>6. ASSUME NEW n \in 0..N - 1, n \in G PROVE n + 1 \in G
  <2>1. n \in 0..N /\ n + 1 \in 0..N /\ n + 1 \in 1..N /\ n \in Nat /\ \A k \in 1..n : k \in 1..n + 1
    BY <1>2
  <2> DEFINE old == h[n]
             x == s[n + 1]
             new == h[n + 1]
  <2>2. old \in Seq(A) /\ x \in A /\ new = Keep(S, old, x)
    BY <1>2, <1>3, <1>4, <2>1
  <2>3. Distinct(old) /\ \A i \in DOMAIN old : \E k \in 1..n : s[k] = old[i]
    BY <1>6
  <2>4. \A k \in 1..n : s[k] # x
    <3>1. \A k \in 1..n : k # n + 1 /\ k \in 1..N /\ n + 1 \in 1..N
      BY <1>2, <2>1
    <3>2. QED
      BY <1>2, <3>1 DEF Distinct
  <2>5. s[n + 1] = x
    OBVIOUS
  <2> HIDE DEF old, x, new
  <2>6. Distinct(new) /\ \A i \in DOMAIN new : \E k \in 1..n + 1 : s[k] = new[i]
    <3>1. CASE new = old
      BY <2>1, <2>3, <3>1
    <3>2. CASE new = Append(old, x)
      <4>1. /\ DOMAIN new = DOMAIN old \cup {Len(old) + 1} /\ Len(old) + 1 \notin DOMAIN old
            /\ new[Len(old) + 1] = x /\ \A i \in DOMAIN old : new[i] = old[i]
        BY <2>2, <3>2, AppendElements
      <4>2. \A i \in DOMAIN old : new[i] # x
        BY <2>3, <2>4, <4>1
      <4>3. Distinct(new)
        BY <2>3, <4>1, <4>2 DEF Distinct
      <4>4. ASSUME NEW i \in DOMAIN new PROVE \E k \in 1..n + 1 : s[k] = new[i]
        <5>1. CASE i \in DOMAIN old
          BY <2>1, <2>3, <4>1, <5>1
        <5>2. CASE i = Len(old) + 1
          <6>1. n + 1 \in 1..n + 1
            BY <2>1
          <6>2. QED
            BY <2>5, <4>1, <5>2, <6>1
        <5>3. QED
          BY <4>1, <5>1, <5>2
      <4>5. QED
        BY <4>3, <4>4
    <3>3. QED
      BY <2>2, <3>1, <3>2 DEF Keep
  <2>7. QED
    BY <2>1, <2>6 DEF new
<1>7. N \in G
  <2>1. N \in 0..N
    BY <1>2
  <2> HIDE DEF G, N
  <2>2. \A n \in 0..N : n \in G
    BY <1>2, <1>5, <1>6, Upward
  <2>3. QED
    BY <2>1, <2>2
<1>8. Distinct(h[N])
  BY <1>7
<1>9. QED
  BY <1>1, <1>8

LEMMA ReverseDistinct ==
  ASSUME NEW A, NEW t \in Seq(A), Distinct(t)
  PROVE  Distinct(Reverse(t))
<1> DEFINE N == Len(t)
           u == Reverse(t)
<1>1. /\ N \in Nat /\ DOMAIN u = 1..N
      /\ \A i \in 1..N : u[i] = t[N - i + 1] /\ N - i + 1 \in 1..N
  BY ReverseFacts
<1>2. \A i, j \in 1..N : t[i] = t[j] => i = j
  <2>1. DOMAIN t = 1..N
    BY LenProperties
  <2>2. QED
    BY <2>1 DEF Distinct
<1> HIDE DEF N, u
<1>3. ASSUME NEW i \in 1..N, NEW j \in 1..N, u[i] = u[j] PROVE i = j
  <2>1. t[N - i + 1] = t[N - j + 1]
    BY <1>1, <1>3
  <2>2. N - i + 1 = N - j + 1
    BY <1>1, <1>2, <2>1
  <2>3. QED
    BY <1>1, <2>2
<1>4. QED
  BY <1>1, <1>3 DEF Distinct, u

\* A section is known by its name.
LEMMA OneOfAName ==
  ASSUME Sound, NEW s \in ToSet(sections), NEW t \in ToSet(sections), s.name = t.name
  PROVE  s = t
<1>1. sections \in Seq(SectionRecords)
  BY SectionsConfigured
<1>2. PICK i \in DOMAIN sections : sections[i] = s
  BY <1>1, SetFacts
<1>3. PICK j \in DOMAIN sections : sections[j] = t
  BY <1>1, SetFacts
<1>4. SectionNames[i] = SectionNames[j]
  BY <1>2, <1>3 DEF Sound, Structure
<1>5. i \in DOMAIN SectionNames /\ j \in DOMAIN SectionNames
  <2>1. Len(sections) <= Len(SectionNames) /\ SectionNames \in Seq(Sections)
    BY ConfigurationAssumption DEF Sound, Structure
  <2>2. DOMAIN sections = 1..Len(sections) /\ Len(sections) \in Nat
    BY <1>1, LenProperties
  <2>3. DOMAIN SectionNames = 1..Len(SectionNames) /\ Len(SectionNames) \in Nat
    BY <2>1, LenProperties
  <2>4. QED
    BY <2>1, <2>2, <2>3
<1>6. i = j
  BY <1>4, <1>5, ConfigurationAssumption
<1>7. QED
  BY <1>2, <1>3, <1>6

LEMMA SectionsDistinct == 
  ASSUME Sound
  PROVE  /\ \A kind : Distinct(SectionsOf(kind))
         /\ \A x \in ToSet(SectionsOf("Directory")) : x \notin ToSet(SectionsOf("Location"))
<1>1. sections \in Seq(SectionRecords) /\ Distinct(sections)
  <2>1. sections \in Seq(SectionRecords)
    BY SectionsConfigured
  <2>2. ASSUME NEW i \in DOMAIN sections, NEW j \in DOMAIN sections, sections[i] = sections[j] PROVE i = j
    <3>1. SectionNames[i] = SectionNames[j]
      BY <2>2 DEF Sound, Structure
    <3>2. i \in DOMAIN SectionNames /\ j \in DOMAIN SectionNames
      <4>1. Len(sections) <= Len(SectionNames) /\ SectionNames \in Seq(Sections)
        BY ConfigurationAssumption DEF Sound, Structure
      <4>2. DOMAIN sections = 1..Len(sections) /\ Len(sections) \in Nat
        BY <2>1, LenProperties
      <4>3. DOMAIN SectionNames = 1..Len(SectionNames) /\ Len(SectionNames) \in Nat
        BY <4>1, LenProperties
      <4>4. QED
        BY <4>1, <4>2, <4>3
    <3>3. QED
      BY <3>1, <3>2, ConfigurationAssumption
  <2>3. QED
    BY <2>1, <2>2 DEF Distinct
<1>2. ASSUME NEW kind
      PROVE  /\ Distinct(SectionsOf(kind))
             /\ \A x \in ToSet(SectionsOf(kind)) : \E s \in ToSet(sections) : s.name = x /\ s.kind = kind
  <2> DEFINE its == Those(sections, OfRequest(kind))
             names == SectionsOf(kind)
  <2>1. its \in Seq(SectionRecords) /\ ToSet(its) = ToSet(sections) \cap OfRequest(kind)
    BY <1>1, ThoseElements
  <2>2. Distinct(its)
    BY <1>1, ThoseDistinct
  <2>3. names = [i \in DOMAIN its |-> its[i].name]
    BY DEF SectionsOf
  <2>4. names \in Seq(Sections)
    BY SectionsOfFacts
  <2> HIDE DEF its, names
  <2>5. \A i \in DOMAIN its : its[i] \in ToSet(sections) /\ its[i].kind = kind
    <3>1. \A i \in DOMAIN its : its[i] \in ToSet(its)
      BY <2>1, SetFacts
    <3>2. QED
      BY <2>1, <3>1 DEF OfRequest
  <2>6. Distinct(names)
    <3>1. DOMAIN names = DOMAIN its /\ \A i \in DOMAIN its : names[i] = its[i].name
      BY <2>3
    <3>2. ASSUME NEW i \in DOMAIN its, NEW j \in DOMAIN its, names[i] = names[j] PROVE i = j
      <4>1. its[i] = its[j]
        BY <2>5, <3>1, <3>2, OneOfAName
      <4>2. QED
        BY <2>2, <4>1 DEF Distinct
    <3>3. QED
      BY <3>1, <3>2 DEF Distinct
  <2>7. ASSUME NEW x \in ToSet(names) PROVE \E s \in ToSet(sections) : s.name = x /\ s.kind = kind
    <3>1. PICK i \in DOMAIN names : names[i] = x
      BY <2>4, SetFacts
    <3>2. QED
      BY <2>3, <2>5, <3>1
  <2>8. QED
    BY <2>6, <2>7 DEF names
<1>3. ASSUME NEW x \in ToSet(SectionsOf("Directory")), x \in ToSet(SectionsOf("Location")) PROVE FALSE
  <2>1. PICK s \in ToSet(sections) : s.name = x /\ s.kind = "Directory"
    BY <1>2, <1>3
  <2>2. PICK t \in ToSet(sections) : t.name = x /\ t.kind = "Location"
    BY <1>2, <1>3
  <2>3. s = t
    BY <2>1, <2>2, OneOfAName
  <2>4. QED
    BY <2>1, <2>2, <2>3
<1>4. QED
  BY <1>2, <1>3

LEMMA SingleFacts ==
  ASSUME NEW A, NEW x \in A
  PROVE  <<x>> \in Seq(A) /\ Distinct(<<x>>) /\ ToSet(<<x>>) = {x}
<1>1. DOMAIN <<x>> = {1} /\ <<x>>[1] = x
  OBVIOUS
<1>2. ToSet(<<x>>) = {x}
  BY <1>1 DEF ToSet
<1>3. QED
  BY <1>1, <1>2 DEF Distinct

LEMMA NoneFacts ==
  ASSUME NEW A
  PROVE  <<>> \in Seq(A) /\ Distinct(<<>>) /\ ToSet(<<>>) = {}
BY EmptySeq DEF Distinct, ToSet

\* Every scope that applies does so once.
LEMMA ScopesDistinct ==
  ASSUME Sound, NEW phase
  PROVE  Distinct(Scopes(phase))
<1> DEFINE dirs == SectionsOf("Directory")
           locs == SectionsOf("Location")
           hta == IF "htaccess" \in DOMAIN dir_config THEN <<"htaccess">> ELSE <<>>
<1>1. /\ dirs \in Seq(AllScopes) /\ ToSet(dirs) \subseteq Sections /\ Distinct(dirs)
      /\ locs \in Seq(AllScopes) /\ ToSet(locs) \subseteq Sections /\ Distinct(locs)
      /\ \A x \in ToSet(dirs) : x \notin ToSet(locs)
  <2>1. dirs \in Seq(Sections) /\ locs \in Seq(Sections)
    BY SectionsOfFacts
  <2>2. Sections \subseteq AllScopes
    BY Names
  <2>3. dirs \in Seq(AllScopes) /\ locs \in Seq(AllScopes)
    <3>1. dirs \in Seq(Configured) /\ locs \in Seq(Configured) /\ Configured \subseteq AllScopes
      BY SectionsOfFacts DEF Configured
    <3> HIDE DEF dirs, locs
    <3>2. QED
      BY <2>1, <2>2
  <2>4. ToSet(dirs) \subseteq Sections /\ ToSet(locs) \subseteq Sections
    BY <2>1, SetFacts
  <2>5. QED
    BY <2>3, <2>4, SectionsDistinct
<1>2. hta \in Seq(AllScopes) /\ Distinct(hta) /\ ToSet(hta) \subseteq {"htaccess"}
  <2>1. "htaccess" \in AllScopes
    BY Names
  <2>2. QED
    BY <2>1, SingleFacts, NoneFacts
<1>3. "htaccess" \notin Sections /\ "vhost" \notin Sections /\ "main" \notin Sections
      /\ "main" \in AllScopes /\ "vhost" \in AllScopes
  BY Names
<1> HIDE DEF dirs, locs, hta
<1>4. Inside(phase) \in Seq(AllScopes) /\ Distinct(Inside(phase)) /\ ToSet(Inside(phase)) \subseteq ToSet(dirs) \cup {"htaccess"}
  <2>1. dirs \o hta \in Seq(AllScopes) /\ ToSet(dirs \o hta) = ToSet(dirs) \cup ToSet(hta)
    BY <1>1, <1>2, ConcatElements
  <2>2. \A x \in ToSet(dirs) : x \notin ToSet(hta)
    BY <1>1, <1>2, <1>3
  <2>3. Distinct(dirs \o hta)
    BY <1>1, <1>2, <2>2, ConcatDistinct
  <2>4. Inside(phase) = <<>> \/ Inside(phase) = dirs \o hta
    BY DEF Inside, dirs, hta
  <2>5. QED
    BY <1>2, <2>1, <2>3, <2>4, NoneFacts
<1>5. AtLocations(phase) \in Seq(AllScopes) /\ Distinct(AtLocations(phase)) /\ ToSet(AtLocations(phase)) \subseteq ToSet(locs)
  BY <1>1, NoneFacts DEF AtLocations, locs
<1>6. Outer \in Seq(AllScopes) /\ Distinct(Outer) /\ ToSet(Outer) \subseteq {"vhost"}
  BY <1>3, SingleFacts, NoneFacts DEF Outer
<1> DEFINE inner == Inside(phase) \o AtLocations(phase)
<1>7. inner \in Seq(AllScopes) /\ Distinct(inner) /\ ToSet(inner) \subseteq Sections \cup {"htaccess"}
  <2>1. inner \in Seq(AllScopes) /\ ToSet(inner) = ToSet(Inside(phase)) \cup ToSet(AtLocations(phase))
    BY <1>4, <1>5, ConcatElements
  <2>2. \A x \in ToSet(Inside(phase)) : x \notin ToSet(AtLocations(phase))
    BY <1>1, <1>3, <1>4, <1>5
  <2>3. Distinct(inner)
    BY <1>4, <1>5, <2>2, ConcatDistinct
  <2>4. QED
    BY <1>1, <1>4, <1>5, <2>1, <2>3
<1> HIDE DEF inner
<1> DEFINE all == Outer \o inner
<1>8. all \in Seq(AllScopes) /\ Distinct(all) /\ ToSet(all) \subseteq Sections \cup {"htaccess", "vhost"}
  <2>1. all \in Seq(AllScopes) /\ ToSet(all) = ToSet(Outer) \cup ToSet(inner)
    BY <1>6, <1>7, ConcatElements
  <2>2. \A x \in ToSet(Outer) : x \notin ToSet(inner)
    BY <1>3, <1>6, <1>7
  <2>3. Distinct(all)
    BY <1>6, <1>7, <2>2, ConcatDistinct
  <2>4. QED
    BY <1>6, <1>7, <2>1, <2>3
<1>9. Within(phase) = all
  BY DEF Within, all, inner
<1> HIDE DEF all
<1>10. <<"main">> \in Seq(AllScopes) /\ Distinct(<<"main">>) /\ ToSet(<<"main">>) = {"main"}
  BY <1>3, SingleFacts
<1>11. Distinct(<<"main">> \o all)
  <2>1. \A x \in ToSet(<<"main">>) : x \notin ToSet(all)
    BY <1>3, <1>8, <1>10
  <2>2. QED
    BY <1>8, <1>10, <2>1, ConcatDistinct
<1>12. QED
  BY <1>9, <1>11, ScopesAre

LEMMA HandlersDistinct ==
  ASSUME Sound, Progress, AsWritten, NEW phase \in Phases \cup {"late_init"}, r.phase = phase, Fits(phase)
  PROVE  Distinct(Handlers(phase))
<1> DEFINE said == Saying(phase, Kind(phase))
<1>1. Distinct(said)
  <2>1. Distinct(Scopes(phase)) /\ Scopes(phase) \in Seq(AllScopes)
    BY ScopesDistinct, ScopesType
  <2>2. QED
    BY <2>1, ThoseDistinct DEF Saying
<1>2. Handlers(phase) = Reverse(said) /\ said \in Seq(AllScopes)
  BY HandlersSaid
<1> HIDE DEF said
<1>3. QED
  BY <1>1, <1>2, ReverseDistinct

\* The phases in which init handlers run.
InitPhases == {"init", "late_init"}

\* When init handlers run, none have run for the request before.
LEMMA FirstInit ==
  ASSUME Sound, Progress, NEW phase \in InitPhases, r.phase = phase
  PROVE  \A i \in DOMAIN ran : ran[i].phase \notin InitPhases
<1>1. ASSUME NEW i \in DOMAIN ran, ran[i].phase = "init" PROVE FALSE
  <2>1. At("init") < At(r.phase)
    BY <1>1 DEF Progress
  <2>2. r.phase = "late_init"
    BY <2>1, AtFacts DEF InitPhases
  <2>3. QED
    BY <1>1, <2>2 DEF Progress
<1>2. ASSUME NEW i \in DOMAIN ran, ran[i].phase = "late_init" PROVE FALSE
  <2>1. At("late_init") < At(r.phase)
    BY <1>2 DEF Progress
  <2>2. QED
    BY <2>1, AtFacts DEF InitPhases
<1>3. QED
  BY <1>1, <1>2 DEF InitPhases

LEMMA PhaseInitOnce ==
  ASSUME Sound, Progress, AsWritten, InitOnce, NEW phase \in Phases \cup {"late_init"}, Phase(phase)
  PROVE  InitOnce'
<1>1. PICK n \in 1..Len(Handlers(phase)) :
        /\ r.phase = phase
        /\ ran' = ran \o [i \in 1..n |-> [phase |-> phase, scope |-> Handlers(phase)[i]]]
  BY PhaseFacts
<1> DEFINE hs == Handlers(phase)
           M == Len(ran)
<1>2. hs \in Seq(AllScopes)
  BY <1>1, HandlersType
<1>3. phase \in InitPhases => Distinct(hs)
  <2>1. phase \in InitPhases => Fits(phase)
    BY <1>1, PhaseFits DEF InitPhases
  <2>2. QED
    BY <1>1, <2>1, HandlersDistinct
<1> HIDE DEF hs
<1>4. /\ M \in Nat /\ DOMAIN ran = 1..M
      /\ \A i \in DOMAIN ran : ran'[i] = ran[i]
      /\ \A i \in DOMAIN ran' \ DOMAIN ran : i - M \in 1..n /\ ran'[i].phase = phase
                                             /\ ran'[i].scope = hs[i - M]
      /\ DOMAIN ran' = 1..M + n
  <2>1. ran' = ran \o [i \in 1..n |-> [phase |-> phase, scope |-> hs[i]]]
    BY <1>1 DEF hs
  <2>2. n \in 1..Len(hs)
    BY DEF hs
  <2>3. QED
    BY <1>2, <2>1, <2>2, RanThen
<1>5. 1..n \subseteq DOMAIN hs
  <2>1. n \in 1..Len(hs) /\ DOMAIN hs = 1..Len(hs) /\ Len(hs) \in Nat
    BY <1>2, LenProperties DEF hs
  <2>2. QED
    BY <2>1
<1>6. phase \in InitPhases => \A i \in DOMAIN ran : ran[i].phase \notin InitPhases
  BY <1>1, FirstInit
<1>7. \A i, j \in DOMAIN ran :
        ran[i].phase \in InitPhases /\ ran[j].phase \in InitPhases /\ ran[i].scope = ran[j].scope => i = j
  BY DEF InitOnce, InitPhases
<1>8. ASSUME NEW i \in DOMAIN ran', NEW j \in DOMAIN ran', ran'[i].phase \in InitPhases,
             ran'[j].phase \in InitPhases, ran'[i].scope = ran'[j].scope
      PROVE  i = j
  <2>1. CASE i \in DOMAIN ran /\ j \in DOMAIN ran
    BY <1>4, <1>7, <1>8, <2>1
  <2>2. CASE i \notin DOMAIN ran /\ j \notin DOMAIN ran
    <3>1. phase \in InitPhases
      BY <1>4, <1>8, <2>2
    <3>2. i - M \in DOMAIN hs /\ j - M \in DOMAIN hs /\ hs[i - M] = hs[j - M]
      BY <1>4, <1>5, <1>8, <2>2
    <3>3. i - M = j - M
      BY <1>3, <3>1, <3>2 DEF Distinct
    <3>4. QED
      BY <1>4, <3>3
  <2>3. CASE i \in DOMAIN ran /\ j \notin DOMAIN ran
    BY <1>4, <1>6, <1>8, <2>3
  <2>4. CASE i \notin DOMAIN ran /\ j \in DOMAIN ran
    BY <1>4, <1>6, <1>8, <2>4
  <2>5. QED
    BY <2>1, <2>2, <2>3, <2>4
<1>9. QED
  BY <1>8 DEF InitOnce, InitPhases

LEMMA RanSteps ==
  ASSUME Sound, [Next]_vars
  PROVE  \/ ran' = ran \/ ran' = <<>>
         \/ \E phase \in Phases \cup {"late_init"} : Phase(phase)
<1>1. Preparing \/ HtaccessRead => ran' = ran
  BY DEF Preparing, HtaccessRead
<1>2. GoesOn => ran' = ran
  BY GoesOnKind
<1>3. ASSUME NEW server \in {"main", "vhost"}, NEW within \in SUBSET Open, BeginRequest(server, within)
      PROVE  ran' = <<>>
  BY <1>3 DEF BeginRequest
<1>4. UNCHANGED vars => ran' = ran
  BY DEF vars
<1>5. QED
  BY StepKinds, <1>1, <1>2, <1>3, <1>4

LEMMA InitOnceStep == Sound /\ Progress /\ AsWritten /\ InitOnce /\ [Next]_vars => InitOnce'
<1> SUFFICES ASSUME Sound, Progress, AsWritten, InitOnce, [Next]_vars PROVE InitOnce'
  OBVIOUS
<1>1. CASE ran' = ran
  BY <1>1 DEF InitOnce
<1>2. CASE ran' = <<>>
  BY <1>2 DEF InitOnce
<1>3. ASSUME NEW phase \in Phases \cup {"late_init"}, Phase(phase) PROVE InitOnce'
  BY <1>3, PhaseInitOnce
<1>4. QED
  BY <1>1, <1>2, <1>3, RanSteps

\* No init handler runs twice for a request: those that run when the request was
\* read are not run again when the sections are known, and no scope's handler is
\* in the merged configuration twice (ruby_post_read_request_handler,
\* ruby_header_parser_handler and merge_handlers).
THEOREM InitHandlersOnce == Spec => []InitOnce
<1>1. Init => InitOnce
  BY DEF Init, InitOnce
<1>2. QED
  BY AsWrittenAlways, InitOnceStep, <1>1, PTL DEF Spec

-----------------------------------------------------------------------------
(* Cleanup handlers.                                                       *)

\* The cleanup handlers of a request, and those that its scopes name.
CleanupsSaid == Saying("handler", "cleanup")
Cleaned ==
  IF RanIn("cleanup") = <<>> THEN Innermost("handler", "cleanup") = NULL
  ELSE RanIn("cleanup")[1].scope = Innermost("handler", "cleanup")

LEMMA CleanedIs ==
  CleanupOfSections <=> (r.phase = "none" /\ (\E i \in DOMAIN ran : ran[i].phase \in AfterWalks) => Cleaned)
BY DEF CleanupOfSections, Cleaned, RanIn

LEMMA ThoseNone ==
  ASSUME NEW A, NEW s \in Seq(A), NEW S, \A x \in ToSet(s) : x \notin S
  PROVE  Those(s, S) = <<>>
<1> DEFINE t == Those(s, S)
<1>1. t \in Seq(A) /\ ToSet(t) = ToSet(s) \cap S
  BY ThoseElements
<1> HIDE DEF t
<1>2. DOMAIN t = {}
  <2>1. \A i \in DOMAIN t : t[i] \in ToSet(t)
    BY <1>1, SetFacts
  <2>2. QED
    BY <1>1, <2>1
<1>3. Len(t) = 0
  BY <1>1, <1>2, LenProperties
<1>4. t = <<>>
  BY <1>1, <1>3, EmptySeq
<1>5. QED
  BY <1>4 DEF t

LEMMA LastReversed ==
  ASSUME NEW A, NEW t \in Seq(A), t # <<>>
  PROVE  Reverse(t)[1] = Last(t)
<1>1. Len(t) \in Nat /\ Len(t) # 0
  BY EmptySeq, LenProperties
<1>2. 1 \in 1..Len(t) /\ Len(t) - 1 + 1 = Len(t)
  BY <1>1
<1>3. Reverse(t)[1] = t[Len(t) - 1 + 1]
  BY <1>2, ReverseFacts
<1>4. QED
  BY <1>2, <1>3 DEF Last

\* The cleanup handlers of a request in the phases after the walks.
LEMMA CleanupsConfigured ==
  ASSUME Sound, Progress, AsWritten, Walked, r.phase # "none"
  PROVE  /\ CleanupsSaid \in Seq(AllScopes)
         /\ r.dconf.handlers["cleanup"] = IF CleanupsSaid = <<>> THEN NULL ELSE Reverse(CleanupsSaid)
         /\ CleanupsSaid # <<>> => Reverse(CleanupsSaid) # NULL
         /\ Innermost("handler", "cleanup") = IF CleanupsSaid = <<>> THEN NULL ELSE Last(CleanupsSaid)
<1>1. Fits("handler") /\ stage = "serving" /\ "cleanup" \in Phases
  BY SoundRequest DEF Fits, Phases
<1>2. CleanupsSaid \in Seq(AllScopes)
  BY ScopesType, ThoseElements DEF CleanupsSaid, Saying
<1>3. r.dconf.handlers["cleanup"] = IF CleanupsSaid = <<>> THEN NULL ELSE Reverse(CleanupsSaid)
  BY <1>1, RequestHandlers DEF CleanupsSaid
<1>4. CleanupsSaid # <<>> => Reverse(CleanupsSaid) # NULL
  BY <1>2, ReverseFacts, Names
<1>5. Innermost("handler", "cleanup") = IF CleanupsSaid = <<>> THEN NULL ELSE Last(CleanupsSaid)
  BY DEF Innermost, CleanupsSaid
<1>6. QED
  BY <1>2, <1>3, <1>4, <1>5

LEMMA CleanupPhase ==
  ASSUME Sound, Progress, AsWritten, Walked, Phase("cleanup")
  PROVE  Cleaned'
<1> DEFINE phase == "cleanup"
           hs == Handlers("cleanup")
<1>1. "cleanup" \in Phases \cup {"late_init"} /\ r.phase = "cleanup"
  BY DEF Phase, Phases
<1>2. PICK n \in 1..Len(Handlers("cleanup")) :
        \A p : p = "cleanup" => RanIn(p)' = [i \in 1..n |-> [phase |-> "cleanup", scope |-> Handlers("cleanup")[i]]]
  BY <1>1, PhaseRanIn
<1>3. RanIn("cleanup")' = [i \in 1..n |-> [phase |-> "cleanup", scope |-> hs[i]]]
  BY <1>2
<1>4. hs \in Seq(AllScopes) /\ Len(hs) \in Nat /\ n \in 1..Len(hs)
  BY <1>1, <1>2, HandlersType, LenProperties
<1>5. hs = IF CleanupsSaid = <<>> THEN <<>> ELSE Reverse(CleanupsSaid)
  <2>1. HandlersOf("cleanup") = r.dconf.handlers["cleanup"]
    BY DEF HandlersOf, CleanupConfig
  <2>2. QED
    BY <1>1, <2>1, CleanupsConfigured DEF Handlers
<1> HIDE DEF hs
<1>6. CleanupsSaid # <<>>
  BY <1>4, <1>5, EmptySeq
<1>7. 1 \in 1..n
  BY <1>4
<1>8. RanIn("cleanup")' # <<>> /\ RanIn("cleanup")'[1].scope = hs[1]
  <2> DEFINE those == [i \in 1..n |-> [phase |-> "cleanup", scope |-> hs[i]]]
  <2>1. those[1].scope = hs[1] /\ 1 \in DOMAIN those
    BY <1>7
  <2> HIDE DEF those
  <2>2. those # <<>>
    BY <2>1
  <2>3. RanIn("cleanup")' = those
    BY <1>3 DEF those
  <2>4. QED
    BY <2>1, <2>2, <2>3
<1>9. hs[1] = Last(CleanupsSaid)
  BY <1>1, <1>5, <1>6, CleanupsConfigured, LastReversed
<1>10. Innermost("handler", "cleanup")' = Innermost("handler", "cleanup")
  BY <1>1, PhaseSameScopes, SameSays
<1>11. QED
  BY <1>1, <1>6, <1>8, <1>9, <1>10, CleanupsConfigured DEF Cleaned

\* A request ends without cleanup handlers when its scopes have none.
LEMMA NoCleanupPhase ==
  ASSUME Sound, Progress, AsWritten, Walked, NEW phase \in Phases \cup {"late_init"}, phase # "cleanup",
         Phase(phase), r'.phase = "none"
  PROVE  Cleaned'
<1>1. PICK error \in BOOLEAN : /\ r.phase = phase
        /\ "none" = IF error THEN Follows("handler", r.dconf) ELSE Follows(phase, r.dconf)
  BY PhaseFacts
<1>2. At(phase) < At("cleanup") /\ At("handler") < At("cleanup") /\ At("cleanup") < At("none")
      /\ phase \in ToSet(Order) /\ "handler" \in ToSet(Order) /\ "cleanup" \in ToSet(Order)
      /\ phase # "none"
  BY AtFacts, OrderSet DEF Phases
<1>3. ~ StopsAt("cleanup", r.dconf)
  <2>1. CASE error
    <3>1. Follows("handler", r.dconf) = "none"
      BY <1>1, <2>1
    <3>2. QED
      BY <1>2, <3>1, FollowsAt
  <2>2. CASE ~ error
    <3>1. Follows(phase, r.dconf) = "none"
      BY <1>1, <2>2
    <3>2. QED
      BY <1>2, <3>1, FollowsAt
  <2>3. QED
    BY <2>1, <2>2
<1>4. CleanupsSaid = <<>>
  <2>1. r.dconf.handlers["cleanup"] = NULL
    BY <1>3 DEF StopsAt, CleanupConfig
  <2>2. QED
    BY <1>1, <1>2, <2>1, CleanupsConfigured
<1>5. Innermost("handler", "cleanup")' = NULL
  <2>1. Innermost("handler", "cleanup") = NULL
    BY <1>1, <1>2, <1>4, CleanupsConfigured
  <2>2. QED
    BY <2>1, PhaseSameScopes, SameSays
<1>6. \A i \in DOMAIN ran' : ran'[i].phase # "cleanup"
  <2>1. ASSUME NEW i \in DOMAIN ran, ran[i].phase = "cleanup" PROVE FALSE
    <3>1. At("cleanup") < At(phase)
      BY <1>1, <2>1 DEF Progress
    <3>2. At(phase) \in 1..16 /\ At("cleanup") \in 1..16
      BY <1>2, AtSet
    <3>3. QED
      BY <1>2, <3>1, <3>2
  <2>2. /\ \A i \in DOMAIN ran : i \in DOMAIN ran' /\ ran'[i] = ran[i]
        /\ \A i \in DOMAIN ran' \ DOMAIN ran : ran'[i].phase = phase
    BY PhaseRan
  <2>3. QED
    BY <2>1, <2>2
<1>7. RanIn("cleanup")' = <<>>
  <2>1. ran' \in Seq(RunRecords)
    <3>1. Sound'
      BY PhaseSound
    <3>2. QED
      BY <3>1 DEF Sound, TypeOK, RunRecords
  <2>2. \A x \in ToSet(ran') : x \notin {y \in ToSet(ran') : y.phase = "cleanup"}
    BY <1>6, <2>1, SetFacts
  <2>3. Those(ran', {y \in ToSet(ran') : y.phase = "cleanup"}) = <<>>
    BY <2>1, <2>2, ThoseNone
  <2>4. QED
    BY <2>3 DEF RanIn, ToSet
<1>8. QED
  BY <1>5, <1>7 DEF Cleaned

LEMMA CleanupStep ==
  Sound /\ Progress /\ AsWritten /\ CleanupOfSections /\ [Next]_vars => CleanupOfSections'
<1> SUFFICES ASSUME Sound, Progress, AsWritten, CleanupOfSections, [Next]_vars,
                    r'.phase = "none", NEW i \in DOMAIN ran', ran'[i].phase \in AfterWalks
             PROVE  Cleaned'
  BY CleanedIs DEF CleanupOfSections, Cleaned, RanIn
<1>1. CASE Preparing
  <2>1. ran' = <<>>
    BY <1>1 DEF Preparing, Progress
  <2>2. QED
    BY <2>1
<1>2. ASSUME ran' = ran, At(r.phase) <= 5 PROVE FALSE
  BY <1>2, NotWalked
<1>3. CASE HtaccessRead
  <2>1. ran' = ran /\ r.phase = "htaccess"
    BY <1>3 DEF HtaccessRead
  <2>2. QED
    BY <1>2, <2>1, AtFacts
<1>4. ASSUME NEW server \in {"main", "vhost"}, NEW within \in SUBSET Open, BeginRequest(server, within)
      PROVE  Cleaned'
  BY <1>4 DEF BeginRequest
<1>5. CASE GoesOn
  <2>1. ran' = ran
    BY <1>5, GoesOnKind
  <2>2. r.phase \in {"read", "trans", "htaccess"}
    BY <1>5 DEF GoesOn, PostReadRequest, NoTranslation, EndOfWalks
  <2>3. QED
    BY <1>2, <2>1, <2>2, AtFacts
<1>6. ASSUME NEW phase \in Phases \cup {"late_init"}, Phase(phase) PROVE Cleaned'
  <2>1. Walked'
    BY DEF Walked
  <2>2. Walked
    BY <1>6, <2>1, PhaseWalked
  <2>3. QED
    BY <1>6, <2>2, CleanupPhase, NoCleanupPhase
<1>7. CASE UNCHANGED vars
  <2>1. Cleaned
    BY <1>7, CleanedIs DEF vars
  <2>2. RanIn("cleanup")' = RanIn("cleanup") /\ Innermost("handler", "cleanup")' = Innermost("handler", "cleanup")
    <3>1. DOMAIN dir_config' = DOMAIN dir_config /\ written' = written /\ r' = r /\ sections' = sections /\ ran' = ran
      BY <1>7 DEF vars
    <3>2. \A p : SameScopes(p)
      BY <3>1, SameLines
    <3>3. QED
      BY <3>1, <3>2, SameSays DEF RanIn, ToSet
  <2>3. QED
    BY <2>1, <2>2 DEF Cleaned
<1>8. QED
  BY StepKinds, <1>1, <1>3, <1>4, <1>5, <1>6, <1>7

\* Cleanup handlers of sections run, the innermost first: the cleanup finds the
\* configuration that the request has in the end, not the one with which it was
\* registered (ruby_post_read_request_handler, ruby_cleanup_handler).
THEOREM SectionCleanupsRun == Spec => []CleanupOfSections
<1>1. Init => CleanupOfSections
  BY DEF Init, CleanupOfSections
<1>2. QED
  BY AsWrittenAlways, CleanupStep, <1>1, PTL DEF Spec

-----------------------------------------------------------------------------
(* Configurations that say nothing of a .htaccess file.                    *)

Others == AllScopes \ {"htaccess"}

LEMMA OthersFacts ==
  /\ Others \subseteq AllScopes /\ NULL \notin Others /\ "htaccess" \notin Others
  /\ Seq(Others) \subseteq Seq(AllScopes) /\ NULL \notin Seq(Others)
  /\ "main" \in Others /\ "vhost" \in Others /\ Sections \subseteq Others
  /\ <<>> \in Seq(Others)
<1>1. Others \subseteq AllScopes
  BY DEF Others
<1>2. \A s \in Seq(Others) : s \in Seq(AllScopes)
  BY <1>1, SeqMonotonic
<1>3. QED
  BY <1>1, <1>2, Names, EmptySeq DEF Others

LEMMA OthersConfig ==
  ASSUME NEW c \in DirConfigs(AllScopes), c.kcode \in Settings(Others), c.output_mode \in Settings(Others),
         c.load_path \in Lists(Others), c.env \in Seq(Others), \A p \in Phases : c.handlers[p] \in Lists(Others)
  PROVE  c \in DirConfigs(Others)
BY DEF DirConfigs

LEMMA OthersServerConfig ==
  ASSUME NEW c \in ServerConfigs(AllScopes), c.timeout \in Settings(Others),
         c.load_path \in Lists(Others), c.env \in Seq(Others \cup {"passed"})
  PROVE  c \in ServerConfigs(Others)
BY DEF ServerConfigs

LEMMA TakenOthers ==
  ASSUME Sound, Sound', NEW d, NEW l, Taken(d, l), current # "htaccess",
         dir_config[current] \in DirConfigs(Others)
  PROVE  \A s : s = current => dir_config'[s] \in DirConfigs(Others)
<1> DEFINE old == dir_config[current]
           new == dir_config'[current]
<1>1. current \in Others /\ current \in DOMAIN dir_config'
  BY SoundFacts DEF Others, Taken
<1>2. new \in DirConfigs(AllScopes)
  <2>1. dir_config' \in [DOMAIN dir_config' -> DirConfigs(AllScopes)]
    BY DEF Sound, TypeOK
  <2>2. QED
    BY <1>1, <2>1
<1>3. /\ new.kcode = IF d = "RubyKanjiCode" THEN current ELSE old.kcode
      /\ new.load_path = IF d = "RubyAddPath" /\ ~ IsServer(current)
                           THEN Pushed(old.load_path, current) ELSE old.load_path
      /\ \A p \in Phases :
           new.handlers[p] = IF d = p THEN Pushed(old.handlers[p], current) ELSE old.handlers[p]
      /\ new.env = IF d = "RubySetEnv" THEN <<current>> ELSE old.env
      /\ new.output_mode = IF d = "RubyOutputMode" THEN current ELSE old.output_mode
  BY DEF Taken, DirTaken
<1>4. /\ old.kcode \in Settings(Others) /\ old.output_mode \in Settings(Others)
      /\ old.load_path \in Lists(Others) /\ old.env \in Seq(Others)
      /\ \A p \in Phases : old.handlers[p] \in Lists(Others)
  BY DEF DirConfigs
<1>5. \A a \in Lists(Others) : Pushed(a, current) \in Lists(Others)
  BY <1>1, PushedType
<1>6. <<current>> \in Seq(Others) /\ current \in Settings(Others)
  BY <1>1 DEF Settings
<1> HIDE DEF old, new
<1>7. new.kcode \in Settings(Others) /\ new.output_mode \in Settings(Others)
  BY <1>3, <1>4, <1>6
<1>8. new.load_path \in Lists(Others)
  BY <1>3, <1>4, <1>5
<1>9. \A p \in Phases : new.handlers[p] \in Lists(Others)
  BY <1>3, <1>4, <1>5
<1>10. new.env \in Seq(Others)
  BY <1>3, <1>4, <1>6
<1>11. new \in DirConfigs(Others)
  BY <1>2, <1>7, <1>8, <1>9, <1>10, OthersConfig
<1>12. QED
  BY <1>11 DEF new

LEMMA TakenServerOthers ==
  ASSUME Sound, Sound', NEW d, NEW l, Taken(d, l), IsServer(current), stage = "reading",
         server_config[current] \in ServerConfigs(Others)
  PROVE  \A s : s = current => server_config'[s] \in ServerConfigs(Others)
<1> DEFINE old == server_config[current]
           new == server_config'[current]
<1>1. current \in Others /\ current \in Servers /\ current \in {"main", "vhost"}
  BY OthersFacts DEF IsServer, Servers
<1>2. new \in ServerConfigs(AllScopes)
  <2>1. server_config' \in [Servers -> ServerConfigs(AllScopes)]
    BY DEF Sound, TypeOK, Servers
  <2>2. QED
    BY <1>1, <2>1
<1>3. /\ new.timeout = IF d = "RubyTimeOut" THEN current ELSE old.timeout
      /\ new.load_path = IF d = "RubyAddPath" THEN Append(old.load_path, current) ELSE old.load_path
      /\ new.env = IF d = "RubySetEnv" THEN <<current>>
                   ELSE IF d = "RubyPassEnv" THEN <<"passed">> ELSE old.env
  BY DEF Taken, ServerTaken
<1>4. /\ old.timeout \in Settings(Others) /\ old.load_path \in Lists(Others)
      /\ old.env \in Seq(Others \cup {"passed"})
  BY DEF ServerConfigs
<1>5. old.load_path \in Seq(Others)
  <2>1. old.load_path # NULL
    BY <1>1, SoundFacts, Names
  <2>2. QED
    BY <1>4, <2>1 DEF Lists
<1>6. current \in Settings(Others) /\ <<current>> \in Seq(Others \cup {"passed"})
      /\ <<"passed">> \in Seq(Others \cup {"passed"})
  BY <1>1 DEF Settings
<1> HIDE DEF old, new
<1>7. new.load_path \in Lists(Others)
  <2>1. Append(old.load_path, current) \in Seq(Others)
    BY <1>1, <1>5, AppendProperties
  <2>2. QED
    BY <1>3, <1>4, <2>1 DEF Lists
<1>8. new.timeout \in Settings(Others) /\ new.env \in Seq(Others \cup {"passed"})
  BY <1>3, <1>4, <1>6
<1>9. new \in ServerConfigs(Others)
  BY <1>2, <1>7, <1>8, OthersServerConfig
<1>10. QED
  BY <1>9 DEF new

\* Sections that a request is in, of which none is a .htaccess file.
LEMMA MatchingOthers ==
  ASSUME Sound, NEW kind, \A s \in DOMAIN dir_config \ {"htaccess"} : dir_config[s] \in DirConfigs(Others)
  PROVE  Matching(kind) \in Seq(DirConfigs(Others))
<1> DEFINE its == Those(sections, OfRequest(kind))
<1>1. its \in Seq(SectionRecords) /\ ToSet(its) \subseteq ToSet(sections)
  BY SectionsConfigured, ThoseElements
<1>2. Matching(kind) = [i \in DOMAIN its |-> dir_config[its[i].name]]
  BY DEF Matching
<1> HIDE DEF its
<1>3. Len(its) \in Nat /\ DOMAIN its = 1..Len(its)
  BY <1>1, LenProperties
<1>4. ASSUME NEW i \in DOMAIN its
      PROVE  dir_config[its[i].name] \in DirConfigs(Others)
  <2>1. its[i] \in ToSet(sections)
    BY <1>1, <1>4, SetFacts
  <2>2. its[i].name \in DOMAIN dir_config /\ its[i].name \in Sections
    BY <2>1, SectionsConfigured DEF SectionRecords
  <2>3. its[i].name # "htaccess"
    BY <2>2, Names
  <2>4. QED
    BY <2>2, <2>3
<1>5. QED
  BY <1>2, <1>3, <1>4

LEMMA WalkOthers ==
  ASSUME NEW base \in DirConfigs(Others), NEW s \in Seq(DirConfigs(Others))
  PROVE  Walk(base, s) \in DirConfigs(Others)
<1>1. Walk(base, s) = FoldLeft(MergeDirConfig, base, s)
  BY WalkIsFold, OthersFacts
<1>2. FoldLeft(MergeDirConfig, base, s) \in DirConfigs(Others)
  BY FoldType, OthersFacts
<1>3. QED
  BY <1>1, <1>2

-----------------------------------------------------------------------------
(* Where directives are restricted, no .htaccess file is heard.            *)

Restricts ==
  /\ OneAccessFileName
  /\ \/ Says("main", "RubyRestrictDirectives")
     \/ r.server = "vhost" /\ Says("vhost", "RubyRestrictDirectives")
\* What the other scopes say is their own.
OthersOwn ==
  /\ \A s \in DOMAIN dir_config \ {"htaccess"} : dir_config[s] \in DirConfigs(Others)
  /\ \A s \in Servers : server_config[s] \in ServerConfigs(Others)
  /\ stage # "serving" => \A i \in DOMAIN loaded : loaded[i].library # "htaccess"
\* A .htaccess file says nothing, and nothing of it is in the configuration of the request.
NothingOwn ==
  /\ "htaccess" \in DOMAIN dir_config => dir_config["htaccess"] \in DirConfigs(Others)
  /\ r.phase # "none" => r.dconf \in DirConfigs(Others)
NothingHeard ==
  /\ \A i \in DOMAIN ran : ran[i].scope # "htaccess"
  /\ \A i \in DOMAIN loaded : loaded[i].library # "htaccess"
  /\ "htaccess" \notin ToSet(last.load_path) \cup {last.kcode, last.env}
Unheard == OthersOwn /\ (Restricts => NothingOwn /\ NothingHeard)

LEMMA RestrictedIs == RestrictedHtaccess <=> (Restricts => NothingHeard)
BY DEF RestrictedHtaccess, Restricts, NothingHeard

\* A line of a .htaccess file is refused where the directives are restricted.
LEMMA RestrictedRefuses ==
  ASSUME Sound, AsWritten, Restricts, current = "htaccess", stage = "serving"
  PROVE  Refused
<1>0. OneAccessFileName
  BY DEF Restricts
<1>1. CmdServer = Merged(r.server) /\ r.server \in {"main", "vhost"} /\ r.server \in DOMAIN dir_config
  BY SoundRequest DEF CmdServer
<1>2. CASE r.server = "main"
  <2>1. CmdServer = "main"
    BY <1>1, <1>2 DEF Merged
  <2>2. server_config["main"].restrict_directives
    BY <1>2 DEF AsWritten, ServerAsWritten, Restricts
  <2>3. QED
    BY <1>0, <2>1, <2>2 DEF Refused
<1>3. CASE r.server = "vhost"
  <2>1. CmdServer = "merged" /\ "merged" \in DOMAIN dir_config
    BY <1>1, <1>3, SoundRequest DEF Merged
  <2>2. server_config["merged"].restrict_directives
    BY <1>3, <2>1 DEF AsWritten, MergedAsWritten, Restricts
  <2>3. QED
    BY <1>0, <2>1, <2>2 DEF Refused
<1>4. QED
  BY <1>1, <1>2, <1>3

\* What restricts the directives for a request is in the file that was read.
LEMMA RestrictsStays ==
  ASSUME r'.server = r.server, \A w : w.scope # "htaccess" => (w \in ToSet(written)' <=> w \in ToSet(written))
  PROVE  Restricts' <=> Restricts
<1>1. \A d : Says("main", d)' <=> Says("main", d)
  BY SaysStays
<1>2. \A d : Says("vhost", d)' <=> Says("vhost", d)
  BY SaysStays
<1>3. QED
  BY <1>1, <1>2 DEF Restricts

\* A step that changes nothing of what the other scopes say.
LEMMA OthersStay ==
  ASSUME OthersOwn, \A s \in DOMAIN dir_config' \ {"htaccess"} : s \in DOMAIN dir_config /\ dir_config'[s] = dir_config[s],
         server_config' = server_config, stage' = "serving" \/ (stage' = stage /\ loaded' = loaded)
  PROVE  OthersOwn'
BY DEF OthersOwn

LEMMA TakenOthersOwn ==
  ASSUME Sound, Sound', OthersOwn, NEW d \in Directives, NEW l \in Int \cup {NULL}, Taken(d, l)
  PROVE  OthersOwn'
<1>1. /\ DOMAIN dir_config' = DOMAIN dir_config /\ stage' = stage
      /\ \A s \in DOMAIN dir_config \ {current} : dir_config'[s] = dir_config[s]
      /\ \A s \in Servers \ {current} : server_config'[s] = server_config[s]
      /\ ~ IsServer(current) => server_config' = server_config
      /\ Line(d, l)
  BY DEF Taken, Allowed, Line
<1>2. current \in DOMAIN dir_config /\ "merged" # current
  BY SoundFacts, Names
<1>3. CASE stage = "serving" /\ current = "htaccess"
  BY <1>1, <1>2, <1>3, OthersStay DEF IsServer
<1>4. CASE stage = "reading" /\ current # "htaccess"
  <2>1. ASSUME NEW s \in DOMAIN dir_config' \ {"htaccess"} PROVE dir_config'[s] \in DirConfigs(Others)
    <3>1. CASE s = current
      <4>1. dir_config[current] \in DirConfigs(Others)
        BY <1>2, <1>4 DEF OthersOwn
      <4>2. QED
        BY <1>4, <3>1, <4>1, TakenOthers
    <3>2. CASE s # current
      BY <1>1, <3>2 DEF OthersOwn
    <3>3. QED
      BY <3>1, <3>2
  <2>2. ASSUME NEW s \in Servers PROVE server_config'[s] \in ServerConfigs(Others)
    <3>1. CASE s = current
      <4>1. server_config[current] \in ServerConfigs(Others)
        BY <3>1 DEF OthersOwn
      <4>2. IsServer(current)
        BY <1>2, <3>1 DEF IsServer, Servers
      <4>3. QED
        BY <1>4, <3>1, <4>1, <4>2, TakenServerOthers
    <3>2. CASE s # current
      BY <1>1, <3>2 DEF OthersOwn
    <3>3. QED
      BY <3>1, <3>2
  <2>3. loaded' = loaded
    BY <1>4 DEF Taken, LibraryTaken
  <2>4. QED
    BY <1>1, <2>1, <2>2, <2>3 DEF OthersOwn
<1>5. QED
  BY <1>1, <1>3, <1>4, WhereLines

LEMMA OpenedOthersOwn ==
  ASSUME Sound, OthersOwn, NEW scope \in AllScopes, Opened(scope), stage' = stage
  PROVE  OthersOwn'
<1>1. /\ DOMAIN dir_config' = DOMAIN dir_config \cup {scope}
      /\ \A s \in DOMAIN dir_config : s # scope => dir_config'[s] = dir_config[s]
      /\ dir_config'[scope] = CreateDirConfig(default_safe_level)
      /\ server_config' = server_config /\ loaded' = loaded
  BY OpenedTaken
<1>2. CreateDirConfig(default_safe_level) \in DirConfigs(Others)
  BY CreateTypes, SoundFacts
<1>3. ASSUME NEW s \in DOMAIN dir_config' \ {"htaccess"} PROVE dir_config'[s] \in DirConfigs(Others)
  <2>1. CASE s = scope
    BY <1>1, <1>2, <2>1
  <2>2. CASE s # scope
    BY <1>1, <2>2 DEF OthersOwn
  <2>3. QED
    BY <2>1, <2>2
<1>4. QED
  BY <1>1, <1>3 DEF OthersOwn

LEMMA EndOthersOwn ==
  ASSUME Sound, OthersOwn, EndOfFile
  PROVE  OthersOwn'
<1>1. /\ stage = "reading" /\ stage' = "starting" /\ loaded' = loaded /\ "htaccess" \notin DOMAIN dir_config
      /\ "main" \in DOMAIN dir_config
  BY SoundFacts DEF EndOfFile
<1>2. /\ \A s \in DOMAIN dir_config : dir_config[s] \in DirConfigs(Others)
      /\ \A s \in Servers : server_config[s] \in ServerConfigs(Others)
  BY <1>1 DEF OthersOwn
<1>3. CASE "vhost" \in DOMAIN dir_config
  <2> DEFINE sc == MergeServerConfig(server_config["main"], server_config["vhost"])
             dc == MergeDirConfig(dir_config["main"], dir_config["vhost"])
  <2>1. sc \in ServerConfigs(Others)
    <3>1. server_config["main"] \in ServerConfigs(Others) /\ server_config["vhost"] \in ServerConfigs(Others)
      BY <1>2 DEF Servers
    <3>2. QED
      BY <3>1, OthersFacts, MergeServerConfigType
  <2>2. dc \in DirConfigs(Others)
    <3>1. dir_config["main"] \in DirConfigs(Others) /\ dir_config["vhost"] \in DirConfigs(Others)
      BY <1>1, <1>2, <1>3
    <3>2. QED
      BY <3>1, OthersFacts, MergeDirConfigType
  <2>3. /\ server_config' = [server_config EXCEPT !["merged"] = sc]
        /\ dir_config' = [s \in DOMAIN dir_config \cup {"merged"} |->
             IF s = "merged" THEN dc ELSE dir_config[s]]
    BY <1>3 DEF EndOfFile
  <2> HIDE DEF sc, dc
  <2>4. ASSUME NEW s \in DOMAIN dir_config' PROVE dir_config'[s] \in DirConfigs(Others)
    <3>1. s = "merged" \/ s \in DOMAIN dir_config
      BY <2>3
    <3>2. dir_config'[s] = IF s = "merged" THEN dc ELSE dir_config[s]
      BY <2>3
    <3>3. QED
      BY <1>2, <2>2, <3>1, <3>2
  <2>5. ASSUME NEW s \in Servers PROVE server_config'[s] \in ServerConfigs(Others)
    <3>1. server_config'[s] = IF s = "merged" THEN sc ELSE server_config[s]
      BY <2>3, SoundFacts
    <3>2. QED
      BY <1>2, <2>1, <3>1
  <2>6. QED
    BY <1>1, <2>4, <2>5 DEF OthersOwn
<1>4. CASE "vhost" \notin DOMAIN dir_config
  <2>1. server_config' = server_config /\ dir_config' = dir_config
    BY <1>4 DEF EndOfFile
  <2>2. QED
    BY <1>1, <2>1 DEF OthersOwn
<1>5. QED
  BY <1>3, <1>4

LEMMA InitInterpreterOthers ==
  ASSUME Sound, OthersOwn, InitInterpreter
  PROVE  OthersOwn' /\ \A i \in DOMAIN loaded' : loaded'[i].library # "htaccess"
<1> DEFINE default == <<"lib">> \o server_config["main"].load_path
           sconf(scope) == IF ServerOf(scope) = "main" THEN NULL ELSE server_config["vhost"]
           path(scope) == default \o PathOf(sconf(scope)) \o PathOf(dir_config[scope])
<1>1. /\ stage = "starting" /\ stage' = "serving"
      /\ server_config' = [server_config EXCEPT !["main"].load_path = NULL]
      /\ loaded' = [i \in DOMAIN required |->
                      [library |-> required[i], path |-> path(required[i])]]
      /\ dir_config' = dir_config
  BY DEF InitInterpreter
<1> HIDE DEF path
<1>2. \A i \in DOMAIN loaded' : loaded'[i].library # "htaccess"
  <2>1. \A i \in DOMAIN required : required[i] # "htaccess"
    BY SoundFacts
  <2>2. QED
    BY <1>1, <2>1
<1>3. ASSUME NEW s \in Servers PROVE server_config'[s] \in ServerConfigs(Others)
  <2>1. server_config[s] \in ServerConfigs(Others) /\ server_config["main"] \in ServerConfigs(Others)
    BY DEF OthersOwn, Servers
  <2> DEFINE e == [server_config["main"] EXCEPT !.load_path = NULL]
  <2>2. e \in ServerConfigs(Others)
    BY <2>1 DEF ServerConfigs, Lists
  <2>3. server_config'[s] = IF s = "main" THEN e ELSE server_config[s]
    BY <1>1, SoundFacts
  <2> HIDE DEF e
  <2>4. QED
    BY <2>1, <2>2, <2>3
<1>4. QED
  BY <1>1, <1>2, <1>3 DEF OthersOwn

-----------------------------------------------------------------------------
\* Before requests are served there is nothing of a .htaccess file.
LEMMA PreparingUnheard ==
  ASSUME Sound, Progress, Preparing, OthersOwn', "htaccess" \notin DOMAIN dir_config',
         \A i \in DOMAIN loaded' : loaded'[i].library # "htaccess"
  PROVE  Unheard'
<1>1. r' = NoRequest /\ ran' = <<>> /\ last' = Nothing
  BY SoundFacts DEF Preparing, Progress
<1>2. NothingOwn'
  BY <1>1 DEF NothingOwn, NoRequest
<1>3. NothingHeard'
  <2>1. "htaccess" # NULL
    BY Names
  <2>2. ToSet(<<>>) = {}
    BY DEF ToSet
  <2>3. ToSet(last'.load_path) = {} /\ last'.kcode = NULL /\ last'.env = NULL
    BY <1>1, <2>2 DEF Nothing
  <2>4. ToSet(last.load_path)' = ToSet(last'.load_path)
    BY DEF ToSet
  <2>5. QED
    BY <1>1, <2>1, <2>3, <2>4 DEF NothingHeard
<1>4. QED
  BY <1>2, <1>3 DEF Unheard

LEMMA BeginUnheard ==
  ASSUME Sound, Unheard, NEW server \in {"main", "vhost"}, NEW within \in SUBSET Open,
         BeginRequest(server, within)
  PROVE  Unheard'
<1> DEFINE conf == dir_config[Merged(server)]
           libraries == {l \in ToSet(loaded) : l.library # "htaccess"}
<1>1. /\ stage = "serving" /\ (server = "vhost" => "vhost" \in DOMAIN dir_config)
      /\ r' = [NoRequest EXCEPT !.phase = "read", !.count = r.count + 1, !.server = server,
                                !.within = within, !.dconf = conf]
      /\ last' = Nothing /\ ran' = <<>> /\ loaded' = Those(loaded, libraries)
      /\ dir_config' = [s \in DOMAIN dir_config \ {"htaccess"} |-> dir_config[s]]
      /\ stage' = stage /\ server_config' = server_config
  BY DEF BeginRequest, RequestStays
<1>2. OthersOwn'
  BY <1>1, OthersStay DEF Unheard
<1>3. conf \in DirConfigs(Others)
  <2>1. Merged(server) \in DOMAIN dir_config /\ Merged(server) \in Servers
    BY <1>1, ServerConfigured, SoundFacts
  <2>2. Merged(server) # "htaccess"
    BY <2>1 DEF Servers
  <2>3. QED
    BY <2>1, <2>2 DEF Unheard, OthersOwn
<1> HIDE DEF conf
<1>4. NothingOwn'
  BY <1>1, <1>3 DEF NothingOwn, NoRequest
<1>5. \A i \in DOMAIN loaded' : loaded'[i].library # "htaccess"
  <2>1. loaded \in Seq(LibraryRecords)
    BY SoundFacts
  <2> HIDE DEF libraries
  <2>2. loaded' \in Seq(LibraryRecords) /\ ToSet(loaded') = ToSet(loaded) \cap libraries
    BY <1>1, <2>1, ThoseElements
  <2>3. \A i \in DOMAIN loaded' : loaded'[i] \in ToSet(loaded')
    BY <2>2, SetFacts
  <2>4. QED
    BY <2>2, <2>3 DEF libraries
<1>6. NothingHeard'
  <2>1. "htaccess" # NULL
    BY Names
  <2>2. ToSet(<<>>) = {}
    BY DEF ToSet
  <2>3. ToSet(last'.load_path) = {} /\ last'.kcode = NULL /\ last'.env = NULL
    BY <1>1, <2>2 DEF Nothing
  <2>4. ToSet(last.load_path)' = ToSet(last'.load_path)
    BY DEF ToSet
  <2>5. QED
    BY <1>1, <1>5, <2>1, <2>3, <2>4 DEF NothingHeard
<1>7. QED
  BY <1>2, <1>4, <1>6 DEF Unheard

\* A step that reads a .htaccess file.
LEMMA HtaccessUnheard ==
  ASSUME Sound, Sound', AsWritten, Unheard, HtaccessRead, OthersOwn',
         Restricts => /\ dir_config' = dir_config \/ ("htaccess" \in DOMAIN dir_config'
                                                      /\ dir_config'["htaccess"] \in DirConfigs(Others))
                      /\ loaded' = loaded
  PROVE  Unheard'
<1>1. Restricts' <=> Restricts
  <2>1. r'.server = r.server
    BY SoundRequest DEF HtaccessRead, RequestRecords
  <2>2. \A w : w.scope # "htaccess" => (w \in ToSet(written)' <=> w \in ToSet(written))
    <3>1. CASE written' = written
      BY <3>1 DEF ToSet
    <3>2. ASSUME NEW x \in LineRecords, x.scope = "htaccess", written' = Append(written, x)
          PROVE  \A w : w.scope # "htaccess" => (w \in ToSet(written)' <=> w \in ToSet(written))
      <4>1. written \in Seq(LineRecords)
        BY DEF Sound, TypeOK, LineRecords
      <4>2. /\ DOMAIN written' = DOMAIN written \cup {Len(written) + 1}
            /\ written'[Len(written) + 1] = x
            /\ \A i \in DOMAIN written : written'[i] = written[i]
        BY <3>2, <4>1, AppendElements
      <4>3. QED
        BY <3>2, <4>2 DEF ToSet
    <3>3. QED
      BY <3>1, <3>2 DEF HtaccessRead
  <2>3. QED
    BY <2>1, <2>2, RestrictsStays
<1>2. ASSUME Restricts PROVE NothingOwn' /\ NothingHeard'
  <2>1. last' = last /\ ran' = ran /\ r'.dconf = r.dconf /\ r.phase = "htaccess"
    BY SoundRequest DEF HtaccessRead, RequestRecords
  <2>2. NothingOwn /\ NothingHeard
    BY <1>2 DEF Unheard
  <2>3. NothingOwn'
    BY <1>2, <2>1, <2>2 DEF NothingOwn
  <2>4. NothingHeard'
    BY <1>2, <2>1, <2>2 DEF NothingHeard, ToSet
  <2>5. QED
    BY <2>3, <2>4
<1>3. QED
  BY <1>1, <1>2 DEF Unheard

\* What a step of a request keeps.
LEMMA ServingUnheard ==
  ASSUME Unheard, Serving, stage = "serving", r'.server = r.server,
         Restricts /\ NothingOwn /\ OthersOwn => r'.dconf \in DirConfigs(Others),
         Restricts /\ NothingOwn /\ OthersOwn /\ NothingHeard =>
           /\ \A i \in DOMAIN ran' : ran'[i].scope # "htaccess"
           /\ "htaccess" \notin ToSet(last'.load_path) \cup {last'.kcode, last'.env}
  PROVE  Unheard'
<1>1. /\ dir_config' = dir_config /\ server_config' = server_config /\ stage' = stage
      /\ loaded' = loaded /\ written' = written
  BY DEF Serving
<1>2. OthersOwn'
  BY <1>1, OthersStay DEF Unheard
<1>3. Restricts' <=> Restricts
  <2>1. ToSet(written)' = ToSet(written)
    BY <1>1 DEF ToSet
  <2>2. QED
    BY <2>1, RestrictsStays
<1>4. ASSUME Restricts PROVE NothingOwn' /\ NothingHeard'
  <2>1. NothingOwn /\ NothingHeard /\ OthersOwn
    BY <1>4 DEF Unheard
  <2>2. NothingOwn'
    BY <1>1, <1>4, <2>1 DEF NothingOwn
  <2>3. ToSet(last.load_path)' = ToSet(last'.load_path)
    BY DEF ToSet
  <2>4. NothingHeard'
    BY <1>1, <1>4, <2>1, <2>3 DEF NothingHeard
  <2>5. QED
    BY <2>2, <2>4
<1>5. QED
  BY <1>2, <1>3, <1>4 DEF Unheard

\* The configurations that walks merge say nothing of a .htaccess file.
LEMMA WalksOthers ==
  ASSUME Sound, OthersOwn, NothingOwn, r.phase # "none"
  PROVE  /\ \A p : ConfigFor(p) \in DirConfigs(Others)
         /\ Walk(Walk(dir_config[Merged(r.server)], Matching("Directory") \o Htaccess),
                 Matching("Location")) \in DirConfigs(Others)
<1> DEFINE base == dir_config[Merged(r.server)]
<1>1. base \in DirConfigs(Others)
  <2>1. Merged(r.server) \in DOMAIN dir_config /\ Merged(r.server) \in Servers
    BY SoundRequest, ServerConfigured
  <2>2. Merged(r.server) # "htaccess"
    BY <2>1 DEF Servers
  <2>3. QED
    BY <2>1, <2>2 DEF OthersOwn
<1>2. Matching("Directory") \in Seq(DirConfigs(Others)) /\ Matching("Location") \in Seq(DirConfigs(Others))
  BY MatchingOthers DEF OthersOwn
<1>3. Htaccess \in Seq(DirConfigs(Others))
  <2>1. CASE "htaccess" \in DOMAIN dir_config
    <3>1. dir_config["htaccess"] \in DirConfigs(Others)
      BY <2>1 DEF NothingOwn
    <3>2. <<dir_config["htaccess"]>> \in Seq(DirConfigs(Others))
      BY <3>1, SingleFacts
    <3>3. QED
      BY <2>1, <3>2 DEF Htaccess
  <2>2. CASE "htaccess" \notin DOMAIN dir_config
    BY <2>2, EmptySeq DEF Htaccess
  <2>3. QED
    BY <2>1, <2>2
<1> HIDE DEF base
<1> DEFINE in == Matching("Directory") \o Htaccess
<1>4. in \in Seq(DirConfigs(Others))
  BY <1>2, <1>3, ConcatProperties
<1> HIDE DEF in
<1>5. Walk(base, in) \in DirConfigs(Others)
  BY <1>1, <1>4, WalkOthers
<1>6. Walk(Walk(base, in), Matching("Location")) \in DirConfigs(Others)
  BY <1>2, <1>5, WalkOthers
<1>7. Walk(base, Matching("Location")) \in DirConfigs(Others)
  BY <1>1, <1>2, WalkOthers
<1>8. r.dconf \in DirConfigs(Others)
  BY DEF NothingOwn
<1>9. \A p : ConfigFor(p) \in DirConfigs(Others)
  BY <1>7, <1>8 DEF ConfigFor, base
<1>10. QED
  BY <1>6, <1>9 DEF base, in

LEMMA GoesOnUnheard ==
  ASSUME Sound, Progress, Unheard, GoesOn
  PROVE  Unheard'
<1>1. Serving /\ UNCHANGED <<ruby, last, ran>>
  BY GoesOnKind
<1>2. stage = "serving" /\ r'.server = r.server
  BY GoesForward
<1>3. r.phase # "none"
  BY DEF GoesOn, PostReadRequest, NoTranslation, EndOfWalks
<1>4. r \in RequestRecords
  BY SoundRequest
<1>5. ASSUME NothingOwn, OthersOwn PROVE r'.dconf \in DirConfigs(Others)
  <2>1. ASSUME NEW p, GoOn(p) PROVE r'.dconf \in DirConfigs(Others)
    <3> DEFINE c == ConfigFor(p)
    <3>1. c \in DirConfigs(Others)
      BY <1>3, <1>5, WalksOthers
    <3>2. r' = [r EXCEPT !.phase = p, !.dconf = c]
      BY <2>1 DEF GoOn
    <3> HIDE DEF c
    <3>3. QED
      BY <1>4, <3>1, <3>2 DEF RequestRecords
  <2>2. CASE PostReadRequest
    BY <2>1, <2>2 DEF PostReadRequest
  <2>3. CASE NoTranslation
    BY <2>1, <2>3 DEF NoTranslation
  <2>4. CASE EndOfWalks
    <3> DEFINE c == Walk(Walk(dir_config[Merged(r.server)], Matching("Directory") \o Htaccess),
                         Matching("Location"))
    <3>1. c \in DirConfigs(Others)
      BY <1>3, <1>5, WalksOthers
    <3>2. r' = [r EXCEPT !.phase = Follows("htaccess", c), !.dconf = c]
      BY <2>4 DEF EndOfWalks
    <3> HIDE DEF c
    <3>3. QED
      BY <1>4, <3>1, <3>2 DEF RequestRecords
  <2>5. QED
    BY <2>2, <2>3, <2>4 DEF GoesOn
<1>6. ASSUME NothingHeard
      PROVE  /\ \A i \in DOMAIN ran' : ran'[i].scope # "htaccess"
             /\ "htaccess" \notin ToSet(last'.load_path) \cup {last'.kcode, last'.env}
  BY <1>1, <1>6 DEF NothingHeard
<1>7. QED
  BY <1>1, <1>2, <1>5, <1>6, ServingUnheard

\* Handlers of other scopes find nothing of a .htaccess file.
LEMMA RunOthers ==
  ASSUME Sound, AsWritten, OthersOwn, NothingOwn, r.phase # "none"
  PROVE  /\ "htaccess" \notin ToSet(SetupLoadpath(server_config[Merged(r.server)], r.dconf))
         /\ r.dconf.kcode # "htaccess"
         /\ EnvOf(server_config[Merged(r.server)], r.dconf) # "htaccess"
         /\ \A p \in Phases : r.dconf.handlers[p] \in Lists(Others)
<1> DEFINE sc == server_config[Merged(r.server)]
           dc == r.dconf
           Values == Others \cup {"lib", "passed"}
<1>1. stage = "serving" /\ Merged(r.server) \in Servers
  BY SoundRequest, ServerConfigured
<1>2. sc \in ServerConfigs(Others) /\ dc \in DirConfigs(Others)
  BY <1>1 DEF OthersOwn, NothingOwn
<1>3. "htaccess" # NULL /\ "htaccess" \notin Others
  BY Names, OthersFacts
<1> HIDE DEF sc
<1>4. PathOf(sc) \in Seq(Others) /\ PathOf(dc) \in Seq(Others)
  <2>1. sc.load_path \in Lists(Others) /\ dc.load_path \in Lists(Others)
    BY <1>2 DEF ServerConfigs, DirConfigs
  <2>2. QED
    BY <2>1, PathTypes, OthersFacts
<1>5. ruby.default_load_path \in Seq(Values)
  <2> DEFINE main == Mine("main", "RubyAddPath", <<"main">>, <<>>)
  <2>1. main \in Seq(Values)
    <3>1. "main" \in Values
      BY OthersFacts
    <3>2. <<"main">> \in Seq(Values) /\ <<>> \in Seq(Values)
      BY <3>1, SingleFacts, EmptySeq
    <3>3. QED
      BY <3>2 DEF Mine
  <2>2. ruby.default_load_path = <<"lib">> \o main
    BY <1>1 DEF AsWritten
  <2>3. <<"lib">> \in Seq(Values)
    BY SingleFacts
  <2> HIDE DEF main
  <2>4. QED
    BY <2>1, <2>2, <2>3, ConcatProperties
<1>6. SetupLoadpath(sc, dc) \in Seq(Values)
  <2>1. PathOf(sc) \in Seq(Values) /\ PathOf(dc) \in Seq(Values)
    BY <1>4, SeqMonotonic
  <2>2. QED
    BY <1>5, <2>1, ConcatProperties DEF SetupLoadpath
<1>7. "htaccess" \notin ToSet(SetupLoadpath(sc, dc))
  <2> DEFINE path == SetupLoadpath(sc, dc)
  <2>1. \A x \in ToSet(path) : x \in Values
    BY <1>6, SetFacts
  <2>2. "htaccess" \notin Values
    BY <1>3
  <2> HIDE DEF path
  <2>3. "htaccess" \notin ToSet(path)
    BY <2>1, <2>2
  <2>4. QED
    BY <2>3 DEF path
<1>8. EnvOf(sc, dc) # "htaccess"
  <2> DEFINE all == sc.env \o dc.env
  <2>1. all \in Seq(Others \cup {"passed"})
    <3>1. dc.env \in Seq(Others)
      BY <1>2 DEF DirConfigs
    <3>2. dc.env \in Seq(Others \cup {"passed"})
      BY <3>1, SeqMonotonic
    <3>3. sc.env \in Seq(Others \cup {"passed"})
      BY <1>2 DEF ServerConfigs
    <3>4. QED
      BY <3>2, <3>3, ConcatProperties
  <2>2. EnvOf(sc, dc) = IF all = <<>> THEN NULL ELSE Last(all)
    BY DEF EnvOf
  <2> HIDE DEF all
  <2>3. all # <<>> => Last(all) \in Others \cup {"passed"}
    BY <2>1 DEF Last
  <2>4. QED
    BY <1>3, <2>2, <2>3
<1>9. dc.kcode # "htaccess"
  BY <1>2, <1>3 DEF DirConfigs, Settings
<1>10. \A p \in Phases : dc.handlers[p] \in Lists(Others)
  BY <1>2 DEF DirConfigs
<1>11. QED
  BY <1>7, <1>8, <1>9, <1>10 DEF sc

LEMMA PhaseUnheard ==
  ASSUME Sound, Progress, AsWritten, Unheard, NEW phase \in Phases \cup {"late_init"}, Phase(phase)
  PROVE  Unheard'
<1>1. Serving /\ stage = "serving" /\ r'.server = r.server
  BY PhaseKind, PhaseForward
<1>2. PICK n \in 1..Len(Handlers(phase)), q \in ToSet(Order) :
        /\ r.phase = phase /\ r'.dconf = ConfigFor(q)
        /\ ran' = ran \o [i \in 1..n |-> [phase |-> phase, scope |-> Handlers(phase)[i]]]
        /\ last'.load_path = SetupLoadpath(server_config[Merged(r.server)], r.dconf)
        /\ last'.kcode = r.dconf.kcode
        /\ last'.env = EnvOf(server_config[Merged(r.server)], r.dconf)
  BY PhaseFacts
<1>3. r.phase # "none"
  BY <1>2 DEF Phases
<1>4. NothingOwn /\ OthersOwn => r'.dconf \in DirConfigs(Others)
  BY <1>2, <1>3, WalksOthers
<1>5. ASSUME NothingOwn, OthersOwn, NothingHeard
      PROVE  /\ \A i \in DOMAIN ran' : ran'[i].scope # "htaccess"
             /\ "htaccess" \notin ToSet(last'.load_path) \cup {last'.kcode, last'.env}
  <2>1. "htaccess" \notin ToSet(last'.load_path) \cup {last'.kcode, last'.env}
    <3> DEFINE path == SetupLoadpath(server_config[Merged(r.server)], r.dconf)
    <3>1. "htaccess" \notin ToSet(path)
      BY <1>3, <1>5, RunOthers
    <3>2. last'.load_path = path
      BY <1>2
    <3> HIDE DEF path
    <3>3. "htaccess" \notin ToSet(last'.load_path)
      BY <3>1, <3>2
    <3>4. last'.kcode # "htaccess" /\ last'.env # "htaccess"
      BY <1>2, <1>3, <1>5, RunOthers
    <3>5. QED
      BY <3>3, <3>4
  <2> DEFINE hs == Handlers(phase)
  <2>2. hs \in Seq(AllScopes) /\ hs \in Seq(Others)
    <3>1. "init" \in Phases /\ "cleanup" \in Phases /\ (phase # "late_init" => phase \in Phases)
      BY DEF Phases
    <3>2. HandlersOf(phase) \in Lists(Others)
      BY <1>3, <1>5, <3>1, RunOthers DEF HandlersOf, CleanupConfig
    <3>3. QED
      BY <1>2, <3>2, HandlersType, OthersFacts DEF Handlers, Lists
  <2>3. n \in 1..Len(hs)
    OBVIOUS
  <2>4. ran' = ran \o [i \in 1..n |-> [phase |-> phase, scope |-> hs[i]]]
    BY <1>2
  <2> HIDE DEF hs
  <2>5. /\ \A i \in DOMAIN ran : ran'[i] = ran[i]
        /\ \A i \in DOMAIN ran' \ DOMAIN ran : i - Len(ran) \in 1..n /\ ran'[i].scope = hs[i - Len(ran)]
    BY <2>2, <2>3, <2>4, RanThen
  <2>6. \A i \in 1..n : hs[i] # "htaccess"
    <3>1. Len(hs) \in Nat /\ \A i \in 1..Len(hs) : hs[i] \in Others
      BY <2>2, LenProperties
    <3>2. QED
      BY <2>3, <3>1, OthersFacts
  <2>7. \A i \in DOMAIN ran' : ran'[i].scope # "htaccess"
    BY <1>5, <2>5, <2>6 DEF NothingHeard
  <2>8. QED
    BY <2>1, <2>7
<1>6. QED
  BY <1>1, <1>4, <1>5, ServingUnheard

LEMMA TakenUnheard ==
  ASSUME Sound, Sound', Progress, AsWritten, Unheard, NEW d \in Directives, NEW l \in Int \cup {NULL}, Taken(d, l)
  PROVE  Unheard'
<1>1. OthersOwn'
  BY TakenOthersOwn DEF Unheard
<1>2. CASE Preparing
  <2>1. "htaccess" \notin DOMAIN dir_config' /\ \A i \in DOMAIN loaded' : loaded'[i].library # "htaccess"
    <3>1. stage' = stage /\ DOMAIN dir_config' = DOMAIN dir_config
      BY DEF Taken, Allowed, Line
    <3>2. stage # "serving"
      BY <1>2 DEF Preparing
    <3>3. QED
      BY <1>1, <3>1, <3>2, SoundFacts DEF OthersOwn
  <2>2. QED
    BY <1>1, <1>2, <2>1, PreparingUnheard
<1>3. CASE HtaccessRead
  <2>1. ~ Restricts
    <3>1. stage = "serving" /\ ~ Refused /\ current = "htaccess"
      <4>1. Line(d, l) /\ ~ Refused
        BY DEF Taken, Allowed
      <4>2. stage = "serving"
        BY <1>3 DEF HtaccessRead
      <4>3. QED
        BY <4>1, <4>2, WhereLines
    <3>2. QED
      BY <3>1, RestrictedRefuses
  <2>2. QED
    BY <1>1, <1>3, <2>1, HtaccessUnheard
<1>4. QED
  BY <1>2, <1>3, TakenKind

LEMMA OpenUnheard ==
  ASSUME Sound, Sound', Progress, AsWritten, Unheard,
         \/ OpenVirtualHost \/ OpenHtaccess \/ \E kind \in {"Directory", "Location"} : OpenSection(kind)
  PROVE  Unheard'
<1>1. CASE OpenHtaccess
  <2>1. Opened("htaccess") /\ stage' = stage /\ "htaccess" \in AllScopes
    BY <1>1, Names DEF OpenHtaccess
  <2>2. OthersOwn'
    BY <2>1, OpenedOthersOwn DEF Unheard
  <2>3. HtaccessRead
    BY <1>1, HtaccessKind
  <2>4. "htaccess" \in DOMAIN dir_config' /\ dir_config'["htaccess"] \in DirConfigs(Others) /\ loaded' = loaded
    <3>1. /\ DOMAIN dir_config' = DOMAIN dir_config \cup {"htaccess"}
          /\ dir_config'["htaccess"] = CreateDirConfig(default_safe_level)
          /\ loaded' = loaded
      BY <2>1, OpenedTaken
    <3>2. CreateDirConfig(default_safe_level) \in DirConfigs(Others)
      BY CreateTypes, SoundFacts
    <3>3. QED
      BY <3>1, <3>2
  <2>5. QED
    BY <2>2, <2>3, <2>4, HtaccessUnheard
<1>2. ASSUME NEW scope \in AllScopes, scope # "htaccess", Opened(scope), Preparing, stage' = stage
      PROVE  Unheard'
  <2>1. OthersOwn'
    BY <1>2, OpenedOthersOwn DEF Unheard
  <2>2. DOMAIN dir_config' = DOMAIN dir_config \cup {scope} /\ stage # "serving"
    BY <1>2, OpenedTaken DEF Preparing
  <2>3. "htaccess" \notin DOMAIN dir_config'
    BY <1>2, <2>2, SoundFacts
  <2>4. \A i \in DOMAIN loaded' : loaded'[i].library # "htaccess"
    BY <1>2, <2>1, <2>2 DEF OthersOwn
  <2>5. QED
    BY <1>2, <2>1, <2>3, <2>4, PreparingUnheard
<1>3. CASE OpenVirtualHost
  <2>1. Opened("vhost") /\ stage' = stage /\ "vhost" \in AllScopes /\ Preparing
    BY <1>3, Names DEF OpenVirtualHost, Opened, Preparing
  <2>2. QED
    BY <1>2, <2>1
<1>4. CASE \E kind \in {"Directory", "Location"} : OpenSection(kind)
  <2> DEFINE name == SectionNames[Len(sections) + 1]
  <2>1. Opened(name) /\ stage' = stage /\ Preparing /\ Len(sections) < Len(SectionNames)
    BY <1>4 DEF OpenSection, Opened, Preparing
  <2>2. name \in Sections
    <3>1. SectionNames \in Seq(Sections) /\ Len(sections) \in Nat
      BY ConfigurationAssumption, SectionsConfigured, LenProperties
    <3>2. Len(sections) + 1 \in 1..Len(SectionNames)
      BY <2>1, <3>1, LenProperties
    <3>3. QED
      BY <3>1, <3>2, LenProperties
  <2> HIDE DEF name
  <2>3. name \in AllScopes /\ name # "htaccess"
    BY <2>2, Names
  <2>4. QED
    BY <1>2, <2>1, <2>3
<1>5. QED
  BY <1>1, <1>3, <1>4

LEMMA OtherUnheard ==
  ASSUME Sound, Progress, AsWritten, Unheard, CloseSection \/ EndOfFile \/ InitInterpreter
  PROVE  Unheard'
<1>1. Preparing
  BY DEF CloseSection, EndOfFile, InitInterpreter, Preparing
<1>2. stage # "serving" /\ "htaccess" \notin DOMAIN dir_config
  BY <1>1, SoundFacts DEF Preparing
<1>3. CASE CloseSection
  <2>1. stage' = stage /\ dir_config' = dir_config /\ server_config' = server_config /\ loaded' = loaded
    BY <1>3 DEF CloseSection
  <2>2. OthersOwn'
    BY <2>1, OthersStay DEF Unheard
  <2>3. \A i \in DOMAIN loaded' : loaded'[i].library # "htaccess"
    BY <1>2, <2>1 DEF Unheard, OthersOwn
  <2>4. QED
    BY <1>1, <1>2, <2>1, <2>2, <2>3, PreparingUnheard
<1>4. CASE EndOfFile
  <2>1. OthersOwn'
    BY <1>4, EndOthersOwn DEF Unheard
  <2>2. loaded' = loaded /\ "htaccess" \notin DOMAIN dir_config'
    <3>1. loaded' = loaded
      BY <1>4 DEF EndOfFile
    <3>2. DOMAIN dir_config' \subseteq DOMAIN dir_config \cup {"merged"}
      BY <1>4 DEF EndOfFile
    <3>3. QED
      BY <1>2, <3>1, <3>2
  <2>3. \A i \in DOMAIN loaded' : loaded'[i].library # "htaccess"
    BY <1>2, <2>2 DEF Unheard, OthersOwn
  <2>4. QED
    BY <1>1, <2>1, <2>2, <2>3, PreparingUnheard
<1>5. CASE InitInterpreter
  <2>1. OthersOwn' /\ \A i \in DOMAIN loaded' : loaded'[i].library # "htaccess"
    BY <1>5, InitInterpreterOthers DEF Unheard
  <2>2. dir_config' = dir_config
    BY <1>5 DEF InitInterpreter
  <2>3. QED
    BY <1>1, <1>2, <2>1, <2>2, PreparingUnheard
<1>6. QED
  BY <1>3, <1>4, <1>5

LEMMA RefusedUnheard ==
  ASSUME Sound, Sound', AsWritten, Unheard, RefusedLine
  PROVE  Unheard'
<1>1. HtaccessRead
  BY HtaccessKind
<1>2. UNCHANGED <<server_config, dir_config, loaded>>
  BY DEF RefusedLine
<1>3. stage' = stage
  BY <1>1 DEF HtaccessRead
<1>4. OthersOwn'
  BY <1>2, <1>3, OthersStay DEF Unheard
<1>5. QED
  BY <1>1, <1>2, <1>4, HtaccessUnheard

LEMMA InitUnheard == Init => Unheard
<1> SUFFICES ASSUME Init PROVE Unheard
  OBVIOUS
<1>1. Sound
  BY InitSound
<1>2. OthersOwn
  <2>1. CreateServerConfig \in ServerConfigs(Others) /\ CreateDirConfig(1) \in DirConfigs(Others)
    BY CreateTypes
  <2>2. DOMAIN dir_config = {"main"} /\ dir_config["main"] = CreateDirConfig(1)
    BY DEF Init
  <2>3. \A s \in Servers : server_config[s] = CreateServerConfig
    BY DEF Init, Servers
  <2>4. loaded = <<>>
    BY DEF Init
  <2>5. QED
    BY <2>1, <2>2, <2>3, <2>4 DEF OthersOwn
<1>3. /\ r = NoRequest /\ ran = <<>> /\ last = Nothing /\ loaded = <<>> /\ DOMAIN dir_config = {"main"}
  BY DEF Init
<1>4. NothingOwn
  BY <1>3 DEF NothingOwn, NoRequest
<1>5. NothingHeard
  <2>1. "htaccess" # NULL
    BY Names
  <2>2. ToSet(<<>>) = {}
    BY DEF ToSet
  <2>3. ToSet(last.load_path) = {} /\ last.kcode = NULL /\ last.env = NULL
    BY <1>3, <2>2 DEF Nothing
  <2>4. QED
    BY <1>3, <2>1, <2>3 DEF NothingHeard
<1>6. QED
  BY <1>2, <1>4, <1>5 DEF Unheard

LEMMA UnheardStays ==
  ASSUME Unheard, UNCHANGED vars
  PROVE  Unheard'
<1>1. UNCHANGED <<stage, server_config, dir_config, r, last, written, loaded, ran>>
  BY DEF vars
<1>2. OthersOwn' <=> OthersOwn
  BY <1>1 DEF OthersOwn
<1>3. Restricts' <=> Restricts
  BY <1>1 DEF Restricts, Says
<1>4. NothingOwn' <=> NothingOwn
  BY <1>1 DEF NothingOwn
<1>5. NothingHeard' <=> NothingHeard
  BY <1>1 DEF NothingHeard, ToSet
<1>6. QED
  BY <1>2, <1>3, <1>4, <1>5 DEF Unheard

LEMMA UnheardStep == Sound /\ Progress /\ AsWritten /\ Unheard /\ [Next]_vars => Unheard'
<1> SUFFICES ASSUME Sound, Progress, AsWritten, Unheard, [Next]_vars PROVE Unheard'
  OBVIOUS
<1>0. Sound'
  BY SoundStep
<1>1. CASE \/ RubyKanjiCode \/ RubyOutputMode \/ RubyTimeOut \/ RubyRestrictDirectives
           \/ RubyPassEnv \/ RubyAddPath \/ \E phase \in Phases : RubyHandler(phase)
  BY <1>0, <1>1, SettingsAreTaken, TakenUnheard
<1>2. CASE RubySetEnv \/ RubyRequire \/ \E level \in Levels : RubySafeLevel(level)
  BY <1>0, <1>2, OthersAreTaken, TakenUnheard
<1>3. CASE RefusedLine
  BY <1>0, <1>3, RefusedUnheard
<1>4. CASE \/ OpenVirtualHost \/ OpenHtaccess \/ \E kind \in {"Directory", "Location"} : OpenSection(kind)
  BY <1>0, <1>4, OpenUnheard
<1>5. CASE CloseSection \/ EndOfFile \/ InitInterpreter
  BY <1>5, OtherUnheard
<1>6. CASE \E server \in {"main", "vhost"}, within \in SUBSET Open : BeginRequest(server, within)
  BY <1>6, BeginUnheard
<1>7. CASE GoesOn
  BY <1>7, GoesOnUnheard
<1>8. CASE \E phase \in Phases \cup {"late_init"} : Phase(phase)
  BY <1>8, PhaseUnheard
<1>9. CASE UNCHANGED vars
  BY <1>9, UnheardStays
<1>10. CASE Idle
  BY <1>9, <1>10 DEF Idle
<1>11. QED
  BY <1>1, <1>2, <1>3, <1>4, <1>5, <1>6, <1>7, <1>8, <1>9, <1>10 DEF Next, GoesOn

\* Where a server restricts the directives, nothing that a .htaccess file of its
\* requests says comes into effect (check_restrict_directives).
THEOREM HtaccessRestricted == Spec => []RestrictedHtaccess
<1>1. Unheard => RestrictedHtaccess
  BY RestrictedIs DEF Unheard
<1>2. QED
  BY AsWrittenAlways, InitUnheard, UnheardStep, <1>1, PTL DEF Spec

-----------------------------------------------------------------------------
(* Load paths.                                                             *)

LEMMA FirstFact ==
  ASSUME NEW A, NEW path \in Seq(A), NEW k \in 1..Len(path), NEW x, path[k] = x
  PROVE  First(path, x) \in 1..Len(path) /\ First(path, x) <= k /\ path[First(path, x)] = x
<1> DEFINE I == {i \in 1..Len(path) : path[i] = x}
<1>1. First(path, x) = IF I # {} THEN Min(I) ELSE 0
  BY Zenon DEF First, SelectInSeq
<1>2. k \in I /\ I \in SUBSET Nat
  OBVIOUS
<1>3. \A i \in I : i \in 1..Len(path) /\ path[i] = x
  OBVIOUS
<1> HIDE DEF I
<1>4. Min(I) \in I /\ Min(I) <= k
  BY <1>2, MinFact
<1>5. QED
  BY <1>1, <1>2, <1>3, <1>4

\* The scopes that add to the path, of some scopes.
AddedBy(scopes) == Those(scopes, {s \in AllScopes : Says(s, "RubyAddPath")})

LEMMA SeesIs ==
  ASSUME NEW path, NEW scopes
  PROVE  Sees(path, scopes) <=>
           /\ ToSet(path) = {"lib"} \cup ToSet(AddedBy(scopes))
           /\ \A i, j \in DOMAIN AddedBy(scopes) : i < j =>
                First(path, AddedBy(scopes)[i]) < First(path, AddedBy(scopes)[j])
BY DEF Sees, AddedBy

\* A path in which other entries come before those of the scopes, in the order of the
\* scopes, without that of another than the outermost.
LEMMA PathSees ==
  ASSUME NEW scopes, NEW said \in Seq(AllScopes), said = AddedBy(scopes), Distinct(said),
         NEW a \in Seq(AllScopes \cup {"lib"}), "lib" \in ToSet(a),
         \A x \in ToSet(a) : x = "lib" \/ (said # <<>> /\ x = said[1])
  PROVE  Sees(a \o said, scopes)
<1> DEFINE Values == AllScopes \cup {"lib"}
           path == a \o said
           M == Len(a)
           N == Len(said)
<1>1. said \in Seq(Values) /\ a \in Seq(Values)
  BY SeqMonotonic
<1>2. /\ path \in Seq(Values) /\ M \in Nat /\ N \in Nat /\ Len(path) = M + N
      /\ DOMAIN a = 1..M /\ DOMAIN said = 1..N
      /\ \A i \in 1..M : path[i] = a[i]
      /\ \A i \in 1..N : path[M + i] = said[i]
  <2> HIDE DEF Values
  <2>1. QED
    BY <1>1, ConcatFacts
<1>3. ToSet(path) = ToSet(a) \cup ToSet(said)
  BY <1>1, ConcatElements
<1>4. said # <<>> => 1 \in 1..N /\ said[1] \in ToSet(said)
  <2>1. said # <<>> => N \in Nat \ {0}
    BY EmptySeq
  <2>2. said # <<>> => 1 \in 1..N
    BY <2>1
  <2>3. \A i \in 1..N : said[i] \in ToSet(said)
    BY <1>2, SetFacts
  <2>4. QED
    BY <2>2, <2>3
<1>5. ToSet(path) = {"lib"} \cup ToSet(said)
  BY <1>3, <1>4
<1>6. \A i \in 1..M : a[i] \in ToSet(a)
  BY <1>2, SetFacts
<1>7. "lib" \notin ToSet(said)
  <2>1. \A x \in ToSet(said) : x \in AllScopes
    BY SetFacts
  <2>2. QED
    BY <2>1, Names
<1>8. \A i, j \in 1..N : said[i] = said[j] => i = j
  BY <1>2 DEF Distinct
<1>9. \A i \in 1..N : said[i] \in ToSet(said)
  BY <1>2, SetFacts
<1> HIDE DEF path, M, N, Values
<1>10. ASSUME NEW i \in 1..N, NEW j \in 1..N, i < j
       PROVE  First(path, said[i]) < First(path, said[j])
  <2>1. M + i \in 1..M + N /\ M + j \in 1..M + N /\ M + i < M + j /\ 1 \in 1..N /\ j # 1
    BY <1>2, <1>10
  <2> DEFINE f == First(path, said[i])
             k == First(path, said[j])
  <2>2. f \in 1..M + N /\ f <= M + i
    <3> DEFINE n == M + i
    <3>1. path[n] = said[i] /\ n \in 1..Len(path)
      BY <1>2, <2>1
    <3> HIDE DEF n
    <3> DEFINE x == said[i]
    <3>2. path[n] = x
      BY <3>1
    <3> HIDE DEF x
    <3>3. First(path, x) \in 1..Len(path) /\ First(path, x) <= n
      BY <1>2, <3>1, <3>2, FirstFact
    <3>4. f = First(path, x)
      BY DEF x
    <3> HIDE DEF f
    <3>5. Len(path) = M + N
      BY <1>2
    <3>6. f \in 1..M + N /\ f <= n
      BY <3>3, <3>4, <3>5
    <3>7. QED
      BY <3>6 DEF n
  <2>3. k \in 1..M + N /\ path[k] = said[j]
    <3> DEFINE n == M + j
               x == said[j]
    <3>1. path[n] = x /\ n \in 1..Len(path)
      BY <1>2, <2>1
    <3> HIDE DEF n, x
    <3>2. k = First(path, x)
      BY DEF x
    <3> HIDE DEF k
    <3>3. First(path, x) \in 1..Len(path) /\ First(path, x) <= n /\ path[First(path, x)] = x
      <4>1. path \in Seq(Values) /\ path[n] = x /\ n \in 1..Len(path)
        BY <1>2, <3>1
      <4>2. QED
        BY <4>1, FirstFact
    <3>4. Len(path) = M + N
      BY <1>2
    <3>5. k \in 1..M + N /\ path[k] = x
      BY <3>2, <3>3, <3>4
    <3>6. QED
      BY <3>5 DEF x
  <2> HIDE DEF f, k
  <2>4. k \notin 1..M
    <3>1. ASSUME k \in 1..M PROVE FALSE
      <4>1. a[k] = said[j] /\ a[k] \in ToSet(a)
        BY <1>2, <1>6, <2>3, <3>1
      <4>2. said[j] = said[1]
        BY <1>7, <1>9, <4>1
      <4>3. QED
        BY <1>8, <2>1, <4>2
    <3>2. QED
      BY <3>1
  <2>5. k - M \in 1..N /\ M + (k - M) = k
    BY <1>2, <2>3, <2>4
  <2>6. path[k] = said[k - M]
    BY <1>2, <2>5
  <2>7. k - M = j
    BY <1>8, <2>3, <2>5, <2>6
  <2>8. f < k
    BY <1>2, <2>1, <2>2, <2>5, <2>7
  <2>9. QED
    BY <2>8 DEF f, k
<1>11. /\ ToSet(path) = {"lib"} \cup ToSet(AddedBy(scopes))
       /\ \A i, j \in DOMAIN AddedBy(scopes) : i < j =>
            First(path, AddedBy(scopes)[i]) < First(path, AddedBy(scopes)[j])
  BY <1>2, <1>5, <1>10
<1>12. Sees(path, scopes)
  BY <1>11, SeesIs
<1>13. QED
  BY <1>12 DEF path

-----------------------------------------------------------------------------
\* What is kept of one sequence after another.
LEMMA ThoseConcat ==
  ASSUME NEW A, NEW s \in Seq(A), NEW t \in Seq(A), NEW S
  PROVE  Those(s \o t, S) = Those(s, S) \o Those(t, S)
<1> DEFINE u == s \o t
           M == Len(s)
           N == Len(t)
<1>1. /\ u \in Seq(A) /\ M \in Nat /\ N \in Nat /\ Len(u) = M + N
      /\ \A i \in 1..M : u[i] = s[i]
      /\ \A i \in 1..N : u[M + i] = t[i]
      /\ \A i \in 1..M : s[i] \in A
      /\ \A i \in 1..N : t[i] \in A
  BY ConcatFacts, LenProperties
<1> HIDE DEF u
<1>2. PICK h : Keeps(S, u, h) /\ Those(u, S) = h[Len(u)]
  BY <1>1, ThoseSteps, Zenon
<1>3. PICK f : Keeps(S, s, f) /\ Those(s, S) = f[M]
  BY ThoseSteps, Zenon
<1>4. PICK g : Keeps(S, t, g) /\ Those(t, S) = g[N]
  BY ThoseSteps, Zenon
<1>5. /\ h[0] = <<>> /\ \A n \in 0..M + N - 1 : h[n + 1] = Keep(S, h[n], u[n + 1])
      /\ f[0] = <<>> /\ \A n \in 0..M - 1 : f[n + 1] = Keep(S, f[n], s[n + 1])
      /\ g[0] = <<>> /\ \A n \in 0..N - 1 : g[n + 1] = Keep(S, g[n], t[n + 1])
  BY <1>1, <1>2, <1>3, <1>4 DEF Keeps
<1>6. (\A n \in 0..M : f[n] \in Seq(A)) /\ (\A n \in 0..N : g[n] \in Seq(A))
  BY <1>3, <1>4, KeepsType
<1> HIDE DEF M, N
<1> DEFINE F == {n \in 0..M : h[n] = f[n]}
<1>7. M \in F
  <2>1. 0 \in F
    BY <1>1, <1>5
  <2>2. ASSUME NEW n \in 0..M - 1, n \in F PROVE n + 1 \in F
    <3>1. n \in 0..M + N - 1 /\ n + 1 \in 0..M /\ n + 1 \in 1..M
      BY <1>1
    <3>2. h[n + 1] = f[n + 1]
      BY <1>1, <1>5, <2>2, <3>1
    <3>3. QED
      BY <3>1, <3>2
  <2>3. M \in 0..M
    BY <1>1
  <2> HIDE DEF F
  <2>4. QED
    BY <1>1, <2>1, <2>2, <2>3, Upward
<1> DEFINE base == f[M]
           G == {n \in 0..N : h[M + n] = base \o g[n]}
<1>8. base \in Seq(A)
  <2>1. M \in 0..M
    BY <1>1
  <2>2. QED
    BY <1>6, <2>1
<1> HIDE DEF base
<1>9. N \in G
  <2>1. 0 \in G
    <3>1. M + 0 = M /\ 0 \in 0..N
      BY <1>1
    <3>2. base \o <<>> = base
      BY <1>8, ConcatEmptySeq
    <3>3. h[M] = base
      BY <1>7 DEF base
    <3>4. QED
      BY <1>5, <3>1, <3>2, <3>3
  <2>2. ASSUME NEW n \in 0..N - 1, n \in G PROVE n + 1 \in G
    <3>1. /\ M + n \in 0..M + N - 1 /\ (M + n) + 1 = M + (n + 1) /\ n + 1 \in 0..N /\ n + 1 \in 1..N
          /\ n \in 0..N
      BY <1>1
    <3> DEFINE old == g[n]
               x == t[n + 1]
    <3>2. h[M + (n + 1)] = Keep(S, h[M + n], x)
      <4>1. h[(M + n) + 1] = Keep(S, h[M + n], u[(M + n) + 1])
        BY <1>5, <3>1
      <4>2. u[M + (n + 1)] = x
        BY <1>1, <3>1
      <4>3. QED
        BY <3>1, <4>1, <4>2
    <3>3. h[M + n] = base \o old
      BY <2>2
    <3>4. g[n + 1] = Keep(S, old, x)
      BY <1>5
    <3>5. old \in Seq(A) /\ x \in A
      BY <1>1, <1>6, <3>1
    <3> HIDE DEF old, x
    <3>6. Append(base \o old, x) = base \o Append(old, x)
      <4>1. base \o old \in Seq(A) /\ <<x>> \in Seq(A)
        BY <1>8, <3>5, ConcatProperties
      <4>2. Append(base \o old, x) = (base \o old) \o <<x>> /\ Append(old, x) = old \o <<x>>
        BY <3>5, <4>1, AppendIsConcat
      <4>3. (base \o old) \o <<x>> = base \o (old \o <<x>>)
        BY <1>8, <3>5, <4>1, ConcatAssociative
      <4>4. QED
        BY <4>2, <4>3
    <3>7. h[M + (n + 1)] = base \o g[n + 1]
      BY <3>2, <3>3, <3>4, <3>6 DEF Keep
    <3>8. QED
      BY <3>1, <3>7
  <2>3. N \in 0..N
    BY <1>1
  <2> HIDE DEF G
  <2>4. QED
    BY <1>1, <2>1, <2>2, <2>3, Upward
<1>10. h[M + N] = f[M] \o g[N]
  BY <1>9 DEF base
<1>11. Those(u, S) = Those(s, S) \o Those(t, S)
  BY <1>1, <1>2, <1>3, <1>4, <1>10 DEF M, N
<1>12. QED
  BY <1>11 DEF u

LEMMA ThoseSingle ==
  ASSUME NEW A, NEW x \in A, NEW S
  PROVE  Those(<<x>>, S) = IF x \in S THEN <<x>> ELSE <<>>
<1>1. <<x>> \in Seq(A) /\ ToSet(<<x>>) = {x} /\ <<>> \in Seq(A)
  BY SingleFacts, EmptySeq
<1>2. CASE x \in S
  <2> DEFINE none == <<>>
             one == <<x>>
  <2>1. /\ \A i \in DOMAIN one : one[i] \in S
        /\ \A i \in DOMAIN none : none[i] \notin S
        /\ none \in Seq(A) /\ one \in Seq(A) /\ none \o one = one
    BY <1>1, <1>2, ConcatEmptySeq
  <2> HIDE DEF none, one
  <2>2. Those(none \o one, S) = one
    BY <2>1, ThoseAfter
  <2>3. Those(one, S) = one
    BY <2>1, <2>2
  <2>4. QED
    BY <1>2, <2>3 DEF one
<1>3. CASE x \notin S
  BY <1>1, <1>3, ThoseNone
<1>4. QED
  BY <1>2, <1>3

LEMMA ThoseEmpty ==
  ASSUME NEW S
  PROVE  Those(<<>>, S) = <<>>
<1>1. <<>> \in Seq({}) /\ ToSet(<<>>) = {}
  BY EmptySeq DEF ToSet
<1>2. QED
  BY <1>1, ThoseNone

-----------------------------------------------------------------------------
\* One sequence after another.
Then(s, t) == s \o t

LEMMA Regrouped ==
  ASSUME NEW V, NEW s \in Seq(V), NEW t \in Seq(V), NEW u \in Seq(V)
  PROVE  Then(s, t) \in Seq(V) /\ Then(Then(s, t), u) = Then(s, Then(t, u))
<1>1. s \o t \in Seq(V)
  BY ConcatProperties
<1>2. (s \o t) \o u = s \o (t \o u)
  BY ConcatAssociative
<1>3. QED
  BY <1>1, <1>2 DEF Then

LEMMA Joined ==
  ASSUME NEW V, NEW l \in Seq(V), NEW m \in Seq(V), NEW v \in Seq(V), NEW i \in Seq(V)
  PROVE  /\ Then(Then(Then(l, m), v), i) = Then(l, Then(m, Then(v, i)))
         /\ Then(Then(Then(l, m), Then(m, v)), i) = Then(Then(l, m), Then(m, Then(v, i)))
<1>1. Then(l, m) \in Seq(V) /\ Then(m, v) \in Seq(V) /\ Then(v, i) \in Seq(V)
  BY Regrouped
<1>2. Then(Then(Then(l, m), v), i) = Then(Then(l, m), Then(v, i))
  BY <1>1, Regrouped
<1>3. Then(Then(l, m), Then(v, i)) = Then(l, Then(m, Then(v, i)))
  BY <1>1, Regrouped
<1>4. Then(Then(Then(l, m), Then(m, v)), i) = Then(Then(l, m), Then(Then(m, v), i))
  BY <1>1, Regrouped
<1>5. Then(Then(m, v), i) = Then(m, Then(v, i))
  BY <1>1, Regrouped
<1>6. QED
  BY <1>2, <1>3, <1>4, <1>5

\* Paths, made of the interpreter's own and the main server's, which the merged
\* configuration of a virtual host has again, the virtual host's and those of the
\* sections.
LEMMA PathParts ==
  ASSUME NEW m \in Seq(AllScopes), NEW v \in Seq(AllScopes), NEW i \in Seq(AllScopes), NEW again \in Seq(AllScopes),
         m = <<>> \/ m = <<"main">>, again = <<>> \/ again = m,
         NEW scopes, AddedBy(scopes) = m \o (v \o i), Distinct(AddedBy(scopes))
  PROVE  Sees(((<<"lib">> \o m) \o (again \o v)) \o i, scopes)
<1> DEFINE Values == AllScopes \cup {"lib"}
           lib == <<"lib">>
           said == m \o (v \o i)
           base == lib \o m
<1>1. /\ m \in Seq(Values) /\ v \in Seq(Values) /\ i \in Seq(Values) /\ again \in Seq(Values)
      /\ lib \in Seq(Values) /\ Len(lib) = 1 /\ ToSet(lib) = {"lib"}
  <2>1. m \in Seq(Values) /\ v \in Seq(Values) /\ i \in Seq(Values) /\ again \in Seq(Values)
    BY SeqMonotonic
  <2>2. "lib" \in Values /\ Len(lib) = 1
    OBVIOUS
  <2>3. lib \in Seq(Values) /\ ToSet(lib) = {"lib"}
    BY <2>2, SingleFacts
  <2>4. QED
    BY <2>1, <2>2, <2>3
<1>2. said \in Seq(AllScopes) /\ v \o i \in Seq(AllScopes)
  BY ConcatProperties
<1>4. AddedBy(scopes) = said
  OBVIOUS
<1> HIDE DEF Values, lib, said
<1>3. base \in Seq(Values) /\ ToSet(base) = {"lib"} \cup ToSet(m)
  BY <1>1, ConcatElements
<1>8. /\ (base \o v) \o i = lib \o said
      /\ (base \o (m \o v)) \o i = base \o said
  <2>1. /\ Then(Then(Then(lib, m), v), i) = Then(lib, Then(m, Then(v, i)))
        /\ Then(Then(Then(lib, m), Then(m, v)), i) = Then(Then(lib, m), Then(m, Then(v, i)))
    BY <1>1, Joined
  <2>2. base = Then(lib, m) /\ said = Then(m, Then(v, i))
    BY DEF base, said, Then
  <2> HIDE DEF base
  <2>3. /\ Then(Then(base, v), i) = Then(lib, said)
        /\ Then(Then(base, Then(m, v)), i) = Then(base, said)
    BY <2>1, <2>2
  <2>4. QED
    BY <2>3, Zenon DEF Then
<1> HIDE DEF base
<1>5. CASE again = <<>>
  <2>1. (base \o (again \o v)) \o i = lib \o said
    <3>1. again \o v = v
      BY <1>5, ConcatEmptySeq
    <3>2. QED
      BY <1>8, <3>1
  <2>2. Sees(lib \o said, scopes)
    <3>1. lib \in Seq(AllScopes \cup {"lib"}) /\ "lib" \in ToSet(lib)
          /\ \A x \in ToSet(lib) : x = "lib" \/ (said # <<>> /\ x = said[1])
      BY <1>1 DEF Values
    <3>2. said = AddedBy(scopes) /\ Distinct(said)
      BY <1>4
    <3>3. QED
      BY <1>2, <3>1, <3>2, PathSees
  <2>3. QED
    BY <2>1, <2>2 DEF base, lib
<1>6. CASE again = m /\ m = <<"main">>
  <2>1. (base \o (again \o v)) \o i = base \o said
    BY <1>6, <1>8
  <2>2. said # <<>> /\ said[1] = "main"
    <3> DEFINE rest == v \o i
               one == <<"main">>
    <3>1. one \in Seq(AllScopes) /\ rest \in Seq(AllScopes) /\ Len(one) = 1 /\ one[1] = "main"
      BY <1>2, Names
    <3>2. said = one \o rest
      BY <1>6 DEF said
    <3> HIDE DEF rest, one
    <3>3. /\ Len(one \o rest) = Len(one) + Len(rest) /\ Len(rest) \in Nat
          /\ \A j \in 1..Len(one) : (one \o rest)[j] = one[j]
      BY <3>1, ConcatFacts
    <3>4. said[1] = "main" /\ Len(said) # 0
      BY <3>1, <3>2, <3>3
    <3>5. QED
      BY <1>2, <3>4, EmptySeq
  <2>3. ToSet(m) = {"main"}
    BY <1>6, SingleFacts, Names
  <2>4. Sees(base \o said, scopes)
    <3>1. base \in Seq(AllScopes \cup {"lib"}) /\ "lib" \in ToSet(base)
          /\ \A x \in ToSet(base) : x = "lib" \/ (said # <<>> /\ x = said[1])
      BY <1>3, <2>2, <2>3 DEF Values
    <3>2. said = AddedBy(scopes) /\ Distinct(said)
      BY <1>4
    <3>3. QED
      BY <1>2, <3>1, <3>2, PathSees
  <2>5. QED
    BY <2>1, <2>4 DEF base, lib
<1>7. QED
  BY <1>5, <1>6

-----------------------------------------------------------------------------
\* The paths that a scope adds.
Own(s) == Mine(s, "RubyAddPath", <<s>>, <<>>)

LEMMA AddedByOne ==
  ASSUME NEW s \in AllScopes
  PROVE  AddedBy(<<s>>) = Own(s) /\ Own(s) \in Seq(AllScopes)
<1>1. <<s>> \in Seq(AllScopes) /\ <<>> \in Seq(AllScopes)
  BY EmptySeq
<1>2. AddedBy(<<s>>) = Own(s)
  BY ThoseSingle DEF AddedBy, Own, Mine
<1>3. QED
  BY <1>1, <1>2 DEF Own, Mine

LEMMA AddedByConcat ==
  ASSUME NEW s \in Seq(AllScopes), NEW t \in Seq(AllScopes)
  PROVE  AddedBy(s \o t) = AddedBy(s) \o AddedBy(t)
BY ThoseConcat DEF AddedBy

LEMMA AddedByType ==
  ASSUME NEW s \in Seq(AllScopes)
  PROVE  AddedBy(s) \in Seq(AllScopes) /\ (Distinct(s) => Distinct(AddedBy(s)))
BY ThoseElements, ThoseDistinct DEF AddedBy

LEMMA AddedByEmpty == AddedBy(<<>>) = <<>>
BY ThoseEmpty DEF AddedBy

\* Load paths of layers: those of the scopes of S, the first one's first.
LEMMA PathOfLayers ==
  ASSUME NEW A, NULL \notin Seq(A), NEW N \in Nat, NEW s \in Seq(A), Len(s) = N + 1,
         NEW S, NEW h, Keeps(S, s, h), NEW c, NEW g, Layered(N, c, g),
         \A k \in 1..N + 1 : c[k].load_path = IF s[k] \in S THEN <<s[k]>> ELSE NULL
  PROVE  g[N].load_path = IF h[N + 1] = <<>> THEN NULL ELSE h[N + 1]
<1> DEFINE Found(k) == IF h[k + 1] = <<>> THEN NULL ELSE h[k + 1]
           G == {k \in 0..N : g[k].load_path = Found(k)}
<1>1. \A k \in 0..N + 1 : h[k] \in Seq(A) /\ h[k] # NULL
  BY KeepsType
<1>2. \A k \in 1..N + 1 : s[k] \in A /\ <<s[k]>> \in Seq(A) /\ <<s[k]>> # NULL
  <2>1. \A k \in 1..N + 1 : s[k] \in A
    BY LenProperties
  <2>2. \A k \in 1..N + 1 : <<s[k]>> \in Seq(A)
    BY <2>1
  <2>3. QED
    BY <2>1, <2>2
<1>3. ASSUME NEW k \in 0..N
      PROVE  Found(k) = IF s[k + 1] \in S THEN h[k] \o <<s[k + 1]>>
                        ELSE IF h[k] = <<>> THEN NULL ELSE h[k]
  <2>1. h[k + 1] = Keep(S, h[k], s[k + 1])
    BY <1>3 DEF Keeps
  <2>2. h[k] \in Seq(A) /\ s[k + 1] \in A
    BY <1>1, <1>2
  <2>3. CASE s[k + 1] \in S
    <3>1. h[k + 1] = Append(h[k], s[k + 1]) /\ h[k + 1] # <<>>
      BY <2>1, <2>2, <2>3, LastOfAppend DEF Keep
    <3>2. QED
      BY <2>2, <2>3, <3>1, AppendIsConcat
  <2>4. CASE s[k + 1] \notin S
    BY <2>1, <2>4 DEF Keep
  <2>5. QED
    BY <2>3, <2>4
<1>4. 0 \in G
  <2>1. h[0] = <<>> /\ g[0] = c[1]
    BY DEF Keeps, Layered
  <2>2. 1 \in 1..N + 1 /\ 0 \in 0..N /\ 0 + 1 = 1
    OBVIOUS
  <2>3. <<>> \o <<s[1]>> = <<s[1]>>
    <3>1. <<s[1]>> \in Seq(A)
      BY <1>2, <2>2
    <3>2. QED
      BY <3>1, ConcatEmptySeq
  <2>4. Found(0) = IF s[1] \in S THEN <<s[1]>> ELSE NULL
    <3> HIDE DEF Found
    <3>1. QED
      BY <1>3, <2>1, <2>2, <2>3
  <2> HIDE DEF Found
  <2>5. g[0].load_path = Found(0)
    BY <2>1, <2>2, <2>4
  <2>6. QED
    BY <2>5
<1>5. ASSUME NEW n \in 0..N - 1, n \in G
      PROVE  n + 1 \in G
  <2>1. g[n + 1] = MergeDirConfig(g[n], c[n + 2])
    <3>1. n + 1 \in 1..N /\ (n + 1) - 1 = n /\ (n + 1) + 1 = n + 2
      OBVIOUS
    <3>2. g[n + 1] = MergeDirConfig(g[(n + 1) - 1], c[(n + 1) + 1])
      BY <3>1 DEF Layered
    <3>3. QED
      BY <3>1, <3>2
  <2>2. g[n + 1].load_path = MergePath(g[n].load_path, c[n + 2].load_path)
    BY <2>1 DEF MergeDirConfig
  <2>3. n + 1 \in 0..N /\ (n + 1) + 1 = n + 2 /\ n + 2 \in 1..N + 1 /\ n + 1 \in 0..N + 1
    OBVIOUS
  <2>4. Found(n) = IF h[n + 1] = <<>> THEN NULL ELSE h[n + 1]
    OBVIOUS
  <2>5. Found(n + 1) = IF s[n + 2] \in S THEN h[n + 1] \o <<s[n + 2]>> ELSE Found(n)
    <3> DEFINE m == n + 1
    <3>1. m \in 0..N
      OBVIOUS
    <3>2. Found(m) = IF s[m + 1] \in S THEN h[m] \o <<s[m + 1]>>
                     ELSE IF h[m] = <<>> THEN NULL ELSE h[m]
      <4> HIDE DEF Found, m
      <4>1. QED
        BY <1>3, <3>1
    <3>3. QED
      BY <2>3, <2>4, <3>2
  <2>6. g[n].load_path = Found(n)
    BY <1>5
  <2>7. /\ <<s[n + 2]>> # NULL /\ <<s[n + 2]>> \in Seq(A) /\ h[n + 1] # NULL
        /\ c[n + 2].load_path = IF s[n + 2] \in S THEN <<s[n + 2]>> ELSE NULL
    BY <1>1, <1>2, <2>3
  <2>8. h[n + 1] = <<>> => h[n + 1] \o <<s[n + 2]>> = <<s[n + 2]>>
    BY <2>7, ConcatEmptySeq
  <2> HIDE DEF Found
  <2>9. g[n + 1].load_path = Found(n + 1)
    <3>1. CASE s[n + 2] \notin S
      BY <2>2, <2>5, <2>6, <2>7, <3>1 DEF MergePath
    <3>2. CASE s[n + 2] \in S /\ h[n + 1] = <<>>
      BY <2>2, <2>4, <2>5, <2>6, <2>7, <2>8, <3>2 DEF MergePath
    <3>3. CASE s[n + 2] \in S /\ h[n + 1] # <<>>
      BY <2>2, <2>4, <2>5, <2>6, <2>7, <3>3 DEF MergePath
    <3>4. QED
      BY <3>1, <3>2, <3>3
  <2>10. QED
    BY <2>3, <2>9
<1> HIDE DEF G, Found
<1>6. N \in G
  <2>1. \A n \in 0..N : n \in G
    BY <1>4, <1>5, Upward
  <2>2. QED
    BY <2>1
<1>7. QED
  BY <1>6 DEF G, Found

-----------------------------------------------------------------------------
\* The path that a configuration adds.
LEMMA PathOfIs ==
  ASSUME NEW c \in DirConfigs(AllScopes) \cup ServerConfigs(AllScopes)
  PROVE  PathOf(c) = IF c.load_path = NULL THEN <<>> ELSE c.load_path
BY MissingAssumption DEF PathOf

\* The scopes of a request within its server.
Inner(phase) == Inside(phase) \o AtLocations(phase)

LEMMA InnerFacts ==
  ASSUME Sound, NEW phase
  PROVE  /\ Inner(phase) \in Seq(AllScopes) /\ Outer \in Seq(AllScopes)
         /\ \A s \in ToSet(Inner(phase)) : ~ IsServer(s)
         /\ Scopes(phase) = <<"main">> \o (Outer \o Inner(phase))
<1>1. Scopes(phase) = <<"main">> \o (Outer \o Inner(phase))
  BY ScopesAre DEF Within, Inner
<1>2. /\ Outer \in Seq(AllScopes) /\ Inside(phase) \in Seq(AllScopes) /\ AtLocations(phase) \in Seq(AllScopes)
  <2>1. Configured \subseteq AllScopes
    BY DEF Configured
  <2>2. QED
    BY <2>1, PartsType, SeqMonotonic
<1> DEFINE NotServers == Sections \cup {"htaccess"}
<1>3. \A kind : SectionsOf(kind) \in Seq(NotServers)
  BY SectionsOfFacts, SeqMonotonic
<1>4. <<>> \in Seq(NotServers) /\ <<"htaccess">> \in Seq(NotServers)
  <2>1. "htaccess" \in NotServers
    OBVIOUS
  <2> HIDE DEF NotServers
  <2>2. QED
    BY <2>1, SingleFacts, NoneFacts
<1> HIDE DEF NotServers
<1>5. Inside(phase) \in Seq(NotServers)
  BY <1>3, <1>4, ConcatProperties DEF Inside
<1>6. AtLocations(phase) \in Seq(NotServers)
  BY <1>3, <1>4 DEF AtLocations
<1>7. Inner(phase) \in Seq(NotServers)
  BY <1>5, <1>6, ConcatProperties DEF Inner
<1>8. \A s \in NotServers : ~ IsServer(s)
  BY Names DEF NotServers, IsServer
<1>9. \A s \in ToSet(Inner(phase)) : s \in NotServers
  BY <1>7, SetFacts
<1>10. Inner(phase) \in Seq(AllScopes)
  BY <1>2, ConcatProperties DEF Inner
<1>11. QED
  BY <1>1, <1>2, <1>8, <1>9, <1>10

\* The merged configuration has the load paths of the sections.
LEMMA RequestDirPath ==
  ASSUME Sound, Progress, AsWritten, r.phase # "none", stage = "serving", NEW phase, Fits(phase)
  PROVE  PathOf(r.dconf) = AddedBy(Inner(phase))
<1> DEFINE s == Scopes(phase)
           N == Len(Within(phase))
           T == {x \in AllScopes : Says(x, "RubyAddPath")}
           S == {x \in T : ~ IsServer(x)}
           c == Confs(s)
           inner == Inner(phase)
           one == <<"main">>
<1>1. s \in Seq(AllScopes) /\ N \in Nat /\ Len(s) = N + 1
  BY ScopesType
<1>2. PICK g : Layers(s, g) /\ r.dconf = g[N]
  BY InForce
<1>3. Layered(N, c, g) /\ \A k \in 1..N + 1 : c[k] = dir_config[s[k]] /\ s[k] \in ToSet(s)
  BY <1>2, LayersOf
<1>4. \A k \in 1..N + 1 : c[k].load_path = IF s[k] \in S THEN <<s[k]>> ELSE NULL
  <2>1. ASSUME NEW k \in 1..N + 1 PROVE c[k].load_path = IF s[k] \in S THEN <<s[k]>> ELSE NULL
    <3>1. ConfigAsWritten(s[k]) /\ s[k] \in AllScopes /\ c[k] = dir_config[s[k]]
      <4>1. s[k] \in ToSet(Scopes(phase)) /\ c[k] = dir_config[s[k]]
        BY <1>3, <2>1
      <4>2. QED
        BY <4>1, ScopeSays, ScopesElements
    <3>2. QED
      BY <3>1 DEF ConfigAsWritten, Mine
  <2>2. QED
    BY <2>1
<1>5. NULL \notin Seq(AllScopes)
  BY ConfigurationAssumption
<1>6. s = one \o (Outer \o inner) /\ inner \in Seq(AllScopes) /\ Outer \in Seq(AllScopes)
      /\ \A x \in ToSet(inner) : ~ IsServer(x)
  BY InnerFacts
<1>7. AddedBy(inner) = Those(inner, T)
  BY DEF AddedBy
<1>8. \A x : x \in S <=> x \in T /\ ~ IsServer(x)
  OBVIOUS
<1> HIDE DEF s, N, S, T, c, inner, one
<1>9. PICK h : Keeps(S, s, h) /\ Those(s, S) = h[Len(s)]
  BY <1>1, ThoseSteps, Zenon
<1>10. g[N].load_path = IF h[N + 1] = <<>> THEN NULL ELSE h[N + 1]
  BY <1>1, <1>3, <1>4, <1>5, <1>9, PathOfLayers
<1>11. h[N + 1] = Those(s, S) /\ Those(s, S) \in Seq(AllScopes)
  BY <1>1, <1>9, ThoseElements
<1>12. PathOf(r.dconf) = Those(s, S)
  <2>1. r.dconf \in DirConfigs(AllScopes)
    BY SoundRequest
  <2>2. r.dconf.load_path = IF Those(s, S) = <<>> THEN NULL ELSE Those(s, S)
    BY <1>2, <1>10, <1>11
  <2>3. Those(s, S) # NULL
    BY <1>5, <1>11
  <2>4. QED
    BY <2>1, <2>2, <2>3, PathOfIs
<1>13. Those(s, S) = Those(inner, T)
  <2> DEFINE rest == Outer \o inner
  <2>1. one \in Seq(AllScopes) /\ ToSet(one) = {"main"} /\ rest \in Seq(AllScopes)
    BY <1>6, SingleFacts, Names, ConcatProperties DEF one
  <2>2. \A x \in ToSet(Outer) : x = "vhost"
    BY SingleFacts, NoneFacts, Names DEF Outer
  <2>3. Those(one, S) = <<>>
    BY <1>8, <2>1, ThoseNone DEF IsServer
  <2>4. Those(Outer, S) = <<>>
    BY <1>6, <1>8, <2>2, ThoseNone DEF IsServer
  <2>5. Those(rest, S) = Those(Outer, S) \o Those(inner, S)
    BY <1>6, ThoseConcat
  <2> HIDE DEF rest
  <2>6. Those(one \o rest, S) = Those(one, S) \o Those(rest, S)
    BY <2>1, ThoseConcat
  <2>7. Those(inner, S) = Those(inner, T) /\ Those(inner, S) \in Seq(AllScopes)
    BY <1>6, <1>8, ThoseAgree, ThoseElements
  <2>8. <<>> \o Those(inner, S) = Those(inner, S)
    BY <2>7, ConcatEmptySeq
  <2>9. Those(s, S) = Those(one, S) \o Those(rest, S)
    BY <1>6, <2>6 DEF rest
  <2>10. QED
    BY <2>3, <2>4, <2>5, <2>7, <2>8, <2>9
<1>14. QED
  BY <1>7, <1>12, <1>13 DEF inner

\* The paths of a server come twice where they are those of the main one.
Again == IF r.server = "main" THEN <<>> ELSE Own("main")

LEMMA ServerPath ==
  ASSUME Sound, AsWritten, stage = "serving"
  PROVE  /\ ruby.default_load_path = <<"lib">> \o Own("main")
         /\ PathOf(server_config[Merged(r.server)]) = Again \o AddedBy(Outer)
         /\ Again \in Seq(AllScopes) /\ (Again = <<>> \/ Again = Own("main"))
<1> DEFINE m == Own("main")
           v == AddedBy(Outer)
           again == Again
<1>1. ruby.default_load_path = <<"lib">> \o m
  BY DEF AsWritten, Own
<1>2. m \in Seq(AllScopes)
  BY AddedByOne, Names
<1>8. again \in Seq(AllScopes) /\ (again = <<>> \/ again = m)
  BY <1>2, NoneFacts DEF Again
<1>9. PathOf(server_config[Merged(r.server)]) = again \o v
  <2>1. CASE r.server = "main"
    <3>1. v = <<>> /\ again = <<>>
      BY <2>1, AddedByEmpty DEF Outer, Again
    <3>2. server_config["main"].load_path = NULL
      BY DEF AsWritten
    <3>3. PathOf(server_config[Merged(r.server)]) = <<>>
      <4>1. server_config["main"] \in ServerConfigs(AllScopes)
        BY SoundFacts DEF Servers
      <4>2. QED
        BY <2>1, <3>2, <4>1, PathOfIs DEF Merged
    <3>4. <<>> \o <<>> = <<>>
      BY NoneFacts, ConcatEmptySeq
    <3> HIDE DEF v, again
    <3>5. QED
      BY <3>1, <3>3, <3>4
  <2>2. CASE r.server # "main"
    <3>1. r.server = "vhost" /\ "merged" \in DOMAIN dir_config /\ server_config["merged"] \in ServerConfigs(AllScopes)
      BY <2>2, SoundRequest, SoundFacts DEF Servers
    <3>2. server_config["merged"].load_path = m \o Own("vhost")
      BY <3>1 DEF AsWritten, MergedAsWritten, Own
    <3>3. v = Own("vhost") /\ Own("vhost") \in Seq(AllScopes)
      BY <2>2, AddedByOne, Names DEF Outer
    <3>4. again = m
      BY <2>2 DEF Again
    <3>5. m \o Own("vhost") \in Seq(AllScopes)
      BY <1>2, <3>3, ConcatProperties
    <3> DEFINE both == m \o Own("vhost")
    <3>6. both # NULL /\ both = again \o v
      BY <3>3, <3>4, <3>5, Names
    <3>7. server_config["merged"].load_path = both
      BY <3>2
    <3> HIDE DEF v, again, m, both
    <3>8. PathOf(server_config["merged"]) = both
      BY <3>1, <3>6, <3>7, PathOfIs
    <3>9. QED
      BY <2>2, <3>6, <3>8 DEF Merged
  <2>3. QED
    BY <2>1, <2>2
<1>10. QED
  BY <1>1, <1>8, <1>9

\* Handlers of a request find the paths of its scopes.
LEMMA RequestPath ==
  ASSUME Sound, Progress, AsWritten, r.phase # "none", stage = "serving", NEW phase, Fits(phase)
  PROVE  Sees(SetupLoadpath(server_config[Merged(r.server)], r.dconf), Scopes(phase))
<1> DEFINE scopes == Scopes(phase)
           m == Own("main")
           i == AddedBy(Inner(phase))
           inner == Inner(phase)
           one == <<"main">>
<1>1. /\ inner \in Seq(AllScopes) /\ Outer \in Seq(AllScopes) /\ one \in Seq(AllScopes)
      /\ scopes = one \o (Outer \o inner)
  BY InnerFacts, SingleFacts, Names
<1>2. m \in Seq(AllScopes) /\ AddedBy(one) = m /\ (m = <<>> \/ m = <<"main">>)
  <2>1. m \in Seq(AllScopes) /\ AddedBy(one) = m
    BY AddedByOne, Names
  <2>2. m = <<>> \/ m = <<"main">>
    BY DEF Own, Mine
  <2>3. QED
    BY <2>1, <2>2
<1>3. i \in Seq(AllScopes)
  BY <1>1, AddedByType
<1>4. AddedBy(scopes) = m \o (AddedBy(Outer) \o i) /\ AddedBy(Outer) \in Seq(AllScopes)
  <2> DEFINE rest == Outer \o inner
  <2>1. rest \in Seq(AllScopes)
    BY <1>1, ConcatProperties
  <2>2. AddedBy(rest) = AddedBy(Outer) \o i
    BY <1>1, AddedByConcat
  <2>3. AddedBy(Outer) \in Seq(AllScopes)
    BY <1>1, AddedByType
  <2>4. scopes = one \o rest
    BY <1>1
  <2> HIDE DEF rest, scopes, one
  <2>5. AddedBy(scopes) = AddedBy(one) \o AddedBy(rest)
    BY <1>1, <2>1, <2>4, AddedByConcat
  <2>6. QED
    BY <1>2, <2>2, <2>3, <2>5
<1>5. Distinct(AddedBy(scopes))
  BY ScopesDistinct, ScopesType, AddedByType
<1>6. PathOf(r.dconf) = i
  BY RequestDirPath
<1> DEFINE v == AddedBy(Outer)
           again == Again
<1>7. ruby.default_load_path = <<"lib">> \o m
  BY ServerPath
<1>8. again \in Seq(AllScopes) /\ (again = <<>> \/ again = m)
  BY ServerPath
<1>9. PathOf(server_config[Merged(r.server)]) = again \o v
  BY ServerPath
<1> HIDE DEF scopes, m, i, v, again, inner, one
<1>10. Sees(((<<"lib">> \o m) \o (again \o v)) \o i, scopes)
  <2>1. AddedBy(scopes) = m \o (v \o i) /\ v \in Seq(AllScopes)
    BY <1>4 DEF v
  <2>2. QED
    BY <1>2, <1>3, <1>5, <1>8, <2>1, PathParts
<1>11. SetupLoadpath(server_config[Merged(r.server)], r.dconf) = ((<<"lib">> \o m) \o (again \o v)) \o i
  BY <1>6, <1>7, <1>9, Zenon DEF SetupLoadpath
<1>12. QED
  BY <1>10, <1>11 DEF scopes

-----------------------------------------------------------------------------
\* What a path is seen with stays, as long as the scopes add the same.
LEMMA SeesStays ==
  ASSUME NEW path, NEW scopes \in Seq(AllScopes),
         \A s \in ToSet(scopes) : Says(s, "RubyAddPath")' <=> Says(s, "RubyAddPath")
  PROVE  Sees(path, scopes)' <=> Sees(path, scopes)
<1> DEFINE T == {s \in AllScopes : Says(s, "RubyAddPath")}
           U == {s \in AllScopes : Says(s, "RubyAddPath")'}
           said == Those(scopes, T)
<1>1. \A x \in ToSet(scopes) : x \in T <=> x \in U
  OBVIOUS
<1> HIDE DEF T, U
<1>2. Those(scopes, U) = Those(scopes, T)
  BY <1>1, ThoseAgree
<1>3. AddedBy(scopes)' = Those(scopes, U)
  BY DEF AddedBy, U
<1>4. AddedBy(scopes) = Those(scopes, T)
  BY DEF AddedBy, T
<1>5. AddedBy(scopes)' = said
  BY <1>2, <1>3
<1>6. AddedBy(scopes) = said
  BY <1>4
<1> DEFINE Seen(a) == /\ ToSet(path) = {"lib"} \cup ToSet(a)
                      /\ \A i, j \in DOMAIN a : i < j => First(path, a[i]) < First(path, a[j])
<1>7. Sees(path, scopes) <=> Seen(said)
  <2>1. Sees(path, scopes) <=> Seen(AddedBy(scopes))
    BY SeesIs
  <2> HIDE DEF said, Seen
  <2>2. QED
    BY <1>6, <2>1
<1>8. Sees(path, scopes)' <=> Seen(said)
  <2>1. Sees(path, scopes)' <=>
          LET those == Those(scopes, {s \in AllScopes : Says(s, "RubyAddPath")'})
          IN  /\ ToSet(path) = {"lib"} \cup ToSet(those)
              /\ \A i, j \in DOMAIN those : i < j => First(path, those[i]) < First(path, those[j])
    BY DEF Sees
  <2>2. Sees(path, scopes)' <=> Seen(Those(scopes, U))
    BY <2>1 DEF U
  <2> HIDE DEF said, Seen
  <2>3. QED
    BY <1>2, <2>2 DEF said
<1>9. QED
  BY <1>7, <1>8

HandlersSee ==
  Ran => \A p, path, scopes :
           p = last.phase /\ path = last.load_path /\ scopes = Scopes(p) => Sees(path, scopes)

LEMMA HandlersSeeStep ==
  Sound /\ Progress /\ AsWritten /\ SettingsFound /\ HandlersSee /\ [Next]_vars => HandlersSee'
<1> SUFFICES ASSUME Sound, Progress, AsWritten, SettingsFound, HandlersSee, [Next]_vars PROVE HandlersSee'
  OBVIOUS
<1>1. CASE last' = Nothing
  BY <1>1 DEF Nothing, HandlersSee, Ran
<1>2. CASE last' = last /\ \A p : p = last.phase /\ Ran => SameScopes(p) /\ SameScopes("init")
  <2>1. Ran' <=> Ran
    BY <1>2 DEF Ran
  <2>2. ASSUME Ran, NEW p, NEW path, NEW scopes, p = last.phase, path = last.load_path, scopes = Scopes(p)'
        PROVE  Sees(path, scopes)'
    <3>1. SameScopes(p)
      BY <1>2, <2>2
    <3>2. scopes = Scopes(p)
      BY <2>2, <3>1 DEF SameScopes
    <3>3. scopes \in Seq(AllScopes) /\ Sees(path, scopes)
      BY <2>2, <3>2, ScopesType DEF HandlersSee
    <3>4. \A s \in ToSet(scopes) : Says(s, "RubyAddPath")' <=> Says(s, "RubyAddPath")
      BY <3>1, <3>2, SameSays
    <3>5. QED
      BY <3>3, <3>4, SeesStays
  <2>3. QED
    BY <1>2, <2>1, <2>2 DEF HandlersSee
<1>3. ASSUME NEW phase \in Phases \cup {"late_init"}, Phase(phase) PROVE HandlersSee'
  <2>1. last'.phase = phase /\ r.phase = phase
        /\ last'.load_path = SetupLoadpath(server_config[Merged(r.server)], r.dconf)
    BY <1>3, PhaseFacts
  <2>2. ASSUME phase \notin {"log", "cleanup"}, NEW path, NEW scopes,
               path = last'.load_path, scopes = Scopes(phase)'
        PROVE  Sees(path, scopes)'
    <3>1. SameScopes(phase)
      BY <1>3, PhaseSameScopes
    <3>2. scopes = Scopes(phase) /\ scopes \in Seq(AllScopes)
      BY <2>2, <3>1, ScopesType DEF SameScopes
    <3>3. Fits(phase) /\ r.phase # "none" /\ stage = "serving"
      BY <2>1, <2>2, PhaseFits, SoundRequest DEF Phases
    <3>4. Sees(path, scopes)
      BY <2>1, <2>2, <3>2, <3>3, RequestPath
    <3>5. \A s \in ToSet(scopes) : Says(s, "RubyAddPath")' <=> Says(s, "RubyAddPath")
      BY <3>1, <3>2, SameSays
    <3>6. QED
      BY <3>2, <3>4, <3>5, SeesStays
  <2>3. QED
    BY <2>1, <2>2 DEF HandlersSee, Ran
<1>4. QED
  BY <1>1, <1>2, <1>3, FoundSteps DEF SettingsFound

-----------------------------------------------------------------------------
(* The libraries.                                                          *)

\* The scopes of which a library sees the paths.
LibraryScopes(server, scope) ==
  (IF server = "main" THEN <<"main">> ELSE <<"main", "vhost">>)
    \o (IF IsServer(scope) THEN <<>> ELSE <<scope>>)
OwnOf(scope) == IF IsServer(scope) THEN <<>> ELSE Own(scope)

LEMMA LibraryScopesFacts ==
  ASSUME NEW server \in {"main", "vhost"}, NEW scope \in AllScopes
  PROVE  /\ LibraryScopes(server, scope) \in Seq(AllScopes) /\ Distinct(LibraryScopes(server, scope))
         /\ \A s \in ToSet(LibraryScopes(server, scope)) : s \in {"main", "vhost", scope}
         /\ AddedBy(LibraryScopes(server, scope)) =
              Own("main") \o ((IF server = "main" THEN <<>> ELSE Own("vhost")) \o OwnOf(scope))
         /\ OwnOf(scope) \in Seq(AllScopes)
<1> DEFINE m == <<"main">>
           v == IF server = "main" THEN <<>> ELSE <<"vhost">>
           i == IF IsServer(scope) THEN <<>> ELSE <<scope>>
           outer == m \o v
           inner == v \o i
           all == m \o inner
<1>1. /\ m \in Seq(AllScopes) /\ Distinct(m) /\ ToSet(m) = {"main"}
      /\ v \in Seq(AllScopes) /\ Distinct(v) /\ ToSet(v) \subseteq {"vhost"}
      /\ i \in Seq(AllScopes) /\ Distinct(i) /\ ToSet(i) \subseteq {scope} \ {"main", "vhost"}
  <2>1. m \in Seq(AllScopes) /\ Distinct(m) /\ ToSet(m) = {"main"}
    BY Names, SingleFacts
  <2>2. v \in Seq(AllScopes) /\ Distinct(v) /\ ToSet(v) \subseteq {"vhost"}
    BY Names, SingleFacts, NoneFacts
  <2>3. i \in Seq(AllScopes) /\ Distinct(i) /\ ToSet(i) \subseteq {scope} \ {"main", "vhost"}
    BY SingleFacts, NoneFacts DEF IsServer
  <2>4. QED
    BY <2>1, <2>2, <2>3
<1>2. outer = IF server = "main" THEN <<"main">> ELSE <<"main", "vhost">>
  <2>1. CASE server = "main"
    <3>1. m \o <<>> = m
      BY <1>1, ConcatEmptySeq
    <3>2. QED
      BY <2>1, <3>1
  <2>2. CASE server # "main"
    <3> DEFINE w == <<"vhost">>
               both == <<"main", "vhost">>
               cat == m \o w
    <3>1. w \in Seq(AllScopes) /\ both \in Seq(AllScopes) /\ Len(both) = 2 /\ Len(m) = 1 /\ Len(w) = 1
          /\ both[1] = "main" /\ both[2] = "vhost" /\ m[1] = "main" /\ w[1] = "vhost"
      BY Names
    <3>2. v = w
      BY <2>2
    <3> HIDE DEF m, w
    <3>3. cat \in Seq(AllScopes) /\ Len(cat) = Len(m) + Len(w)
          /\ (\A k \in 1..Len(m) : cat[k] = m[k]) /\ (\A k \in 1..Len(w) : cat[Len(m) + k] = w[k])
      BY <1>1, <3>1, ConcatFacts
    <3> HIDE DEF cat, both
    <3>4. Len(cat) = Len(both) /\ \A k \in 1..Len(both) : cat[k] = both[k]
      <4>1. 1 + 1 = 2 /\ 1 \in 1..1 /\ \A k \in 1..2 : k = 1 \/ k = 2
        OBVIOUS
      <4>2. cat[1] = "main" /\ cat[2] = "vhost" /\ Len(cat) = 2
        BY <3>1, <3>3, <4>1
      <4>3. QED
        BY <3>1, <4>1, <4>2
    <3>5. cat = both
      BY <3>1, <3>3, <3>4, SeqEqual
    <3>6. QED
      BY <2>2, <3>2, <3>5 DEF cat, both
  <2>3. QED
    BY <2>1, <2>2
<1>3. LibraryScopes(server, scope) = outer \o i
  <2> HIDE DEF outer
  <2>1. QED
    BY <1>2 DEF LibraryScopes
<1>4. outer \o i = all
  <2> HIDE DEF m, v, i
  <2>1. QED
    BY <1>1, ConcatAssociative
<1>5. OwnOf(scope) = AddedBy(i) /\ AddedBy(m) = Own("main")
      /\ AddedBy(v) = IF server = "main" THEN <<>> ELSE Own("vhost")
  BY Names, AddedByOne, AddedByEmpty DEF OwnOf
<1> HIDE DEF m, v, i
<1>6. inner \in Seq(AllScopes) /\ ToSet(inner) = ToSet(v) \cup ToSet(i) /\ Distinct(inner)
  BY <1>1, ConcatElements, ConcatDistinct
<1>7. AddedBy(inner) = AddedBy(v) \o AddedBy(i)
  BY <1>1, AddedByConcat
<1> HIDE DEF inner, outer
<1>8. all \in Seq(AllScopes) /\ ToSet(all) = ToSet(m) \cup ToSet(inner) /\ Distinct(all)
  BY <1>1, <1>6, ConcatElements, ConcatDistinct
<1>9. AddedBy(all) = AddedBy(m) \o AddedBy(inner)
  BY <1>1, <1>6, AddedByConcat
<1>10. AddedBy(i) \in Seq(AllScopes)
  BY <1>1, AddedByType
<1> HIDE DEF all
<1>11. LibraryScopes(server, scope) = all
  BY <1>3, <1>4
<1>12. AddedBy(all) = Own("main") \o ((IF server = "main" THEN <<>> ELSE Own("vhost")) \o OwnOf(scope))
  BY <1>5, <1>7, <1>9
<1>13. \A s \in ToSet(all) : s \in {"main", "vhost", scope}
  BY <1>1, <1>6, <1>8
<1>14. QED
  BY <1>5, <1>8, <1>10, <1>11, <1>12, <1>13

LibrarySees(l) == \A server : server = ServerOf(l.library) => Sees(l.path, LibraryScopes(server, l.library))
Fine(l) ==
  /\ l.library \in DOMAIN dir_config
  /\ l.library = "htaccess" => "RubyRequire" \in ToSet(topic) /\ Says("htaccess", "RubyRequire")
  /\ l.library # "htaccess" \/ PathFirst => LibrarySees(l)
LibrariesSee ==
  /\ stage # "serving" => loaded = <<>>
  /\ \A l \in ToSet(loaded) : Fine(l)

LEMMA ServerOfConfigured ==
  ASSUME Sound, NEW scope \in AllScopes, scope \in DOMAIN dir_config
  PROVE  /\ ServerOf(scope) \in {"main", "vhost"}
         /\ sections' = sections /\ (scope = "htaccess" => r'.server = r.server) => ServerOf(scope)' = ServerOf(scope)
<1>1. CASE IsServer(scope)
  BY <1>1 DEF IsServer, ServerOf
<1>2. CASE scope = "htaccess"
  BY <1>2, SoundRequest DEF IsServer, ServerOf
<1>3. CASE ~ IsServer(scope) /\ scope # "htaccess"
  <2>1. scope \in Open
    <3>1. scope \in Sections
      BY <1>3, Names DEF IsServer
    <3>2. DOMAIN dir_config \cap Sections = Open
      BY DEF Sound, Structure
    <3>3. QED
      BY <3>1, <3>2
  <2>2. ServerOf(scope) \in {"main", "vhost"}
    BY <2>1, ServerOfSection
  <2>3. sections' = sections => ServerOf(scope)' = ServerOf(scope)
    BY <1>3 DEF ServerOf, ToSet
  <2>4. QED
    BY <2>2, <2>3
<1>4. QED
  BY <1>1, <1>2, <1>3

LEMMA FineStays ==
  ASSUME Sound, NEW l \in LibraryRecords, Fine(l), topic' = topic, sections' = sections,
         l.library \in DOMAIN dir_config',
         l.library = "htaccess" => r'.server = r.server
                                   /\ (Says("htaccess", "RubyRequire") => Says("htaccess", "RubyRequire")'),
         l.library # "htaccess" \/ PathFirst =>
           \A s \in {"main", "vhost", l.library} : Says(s, "RubyAddPath")' <=> Says(s, "RubyAddPath")
  PROVE  Fine(l)'
<1>1. l.library \in AllScopes
  BY DEF LibraryRecords
<1>2. ToSet(topic)' = ToSet(topic) /\ (PathFirst' <=> PathFirst)
  BY DEF PathFirst, ToSet, Place
<1>3. ASSUME l.library # "htaccess" \/ PathFirst, NEW server, server = ServerOf(l.library)'
      PROVE  Sees(l.path, LibraryScopes(server, l.library))'
  <2>1. server = ServerOf(l.library) /\ server \in {"main", "vhost"}
    BY <1>1, <1>3, ServerOfConfigured DEF Fine
  <2> DEFINE path == l.path
             scopes == LibraryScopes(server, l.library)
  <2>2. Sees(path, scopes)
    BY <1>3, <2>1 DEF Fine, LibrarySees
  <2>3. scopes \in Seq(AllScopes) /\ \A s \in ToSet(scopes) : s \in {"main", "vhost", l.library}
    BY <1>1, <2>1, LibraryScopesFacts
  <2> HIDE DEF path, scopes
  <2>4. \A s \in ToSet(scopes) : Says(s, "RubyAddPath")' <=> Says(s, "RubyAddPath")
    BY <1>3, <2>3
  <2>5. Sees(path, scopes)'
    BY <2>2, <2>3, <2>4, SeesStays
  <2>6. QED
    BY <2>5 DEF path, scopes
<1>4. l.library # "htaccess" \/ PathFirst => LibrarySees(l)'
  BY <1>3 DEF LibrarySees
<1>5. QED
  BY <1>2, <1>4 DEF Fine

\* A line of a .htaccess file adds no path to those of libraries that are there.
LEMMA LineFine ==
  ASSUME Sound, NEW x \in LibraryRecords, Fine(x), NEW d, NEW l, Line(d, l), current = "htaccess",
         r'.server = r.server, DOMAIN dir_config' = DOMAIN dir_config
  PROVE  Fine(x)'
<1>1. topic' = topic /\ sections' = sections
      /\ \A i \in DOMAIN written :
           written[i].scope = current => Place(written[i].directive) < Place(d)
  BY DEF Line
<1>2. \A s, e : Says(s, e)' <=> Says(s, e) \/ (s = "htaccess" /\ e = d)
  BY NewLine
<1>3. ASSUME x.library # "htaccess" \/ PathFirst, NEW s \in {"main", "vhost", x.library}
      PROVE  Says(s, "RubyAddPath")' <=> Says(s, "RubyAddPath")
  <2>1. CASE s # "htaccess" \/ d # "RubyAddPath"
    BY <1>2, <2>1
  <2>2. CASE s = "htaccess" /\ d = "RubyAddPath"
    <3>1. x.library = "htaccess" /\ PathFirst
      BY <1>3, <2>2
    <3>2. "RubyRequire" \in ToSet(topic) /\ Says("htaccess", "RubyRequire")
      BY <3>1 DEF Fine
    <3>3. Place("RubyRequire") < Place("RubyAddPath")
      BY <1>1, <2>2, <3>2 DEF Says
    <3>4. QED
      BY <3>1, <3>2, <3>3 DEF PathFirst
  <2>3. QED
    BY <2>1, <2>2
<1>4. x.library \in DOMAIN dir_config'
  BY DEF Fine
<1>5. Says("htaccess", "RubyRequire") => Says("htaccess", "RubyRequire")'
  BY <1>2
<1>6. QED
  BY <1>1, <1>3, <1>4, <1>5, FineStays

LEMMA OwnMissing ==
  ASSUME NEW s \in AllScopes
  PROVE  <<s>> # NULL
<1> DEFINE one == <<s>>
<1>1. one \in Seq(AllScopes)
  OBVIOUS
<1>2. NULL \notin Seq(AllScopes)
  BY ConfigurationAssumption
<1> HIDE DEF one
<1>3. one # NULL
  BY <1>1, <1>2
<1>4. QED
  BY <1>3 DEF one

LEMMA NoneRequired ==
  ASSUME loaded' = <<>>
  PROVE  LibrariesSee'
<1>1. ToSet(loaded)' = {}
  BY DEF ToSet
<1>2. QED
  BY <1>1 DEF LibrariesSee

\* The library that a scope requires while the interpreter starts sees what that
\* scope and its servers add.
LEMMA InitInterpreterSees ==
  ASSUME Sound, AsWritten, InitInterpreter
  PROVE  LibrariesSee'
<1> DEFINE default == <<"lib">> \o server_config["main"].load_path
           sconf(scope) == IF ServerOf(scope) = "main" THEN NULL ELSE server_config["vhost"]
           path(scope) == default \o PathOf(sconf(scope)) \o PathOf(dir_config[scope])
           lib(i) == [library |-> required[i], path |-> path(required[i])]
           libs == [i \in DOMAIN required |-> lib(i)]
<1>1. /\ stage = "starting" /\ stage' = "serving"
      /\ loaded' = libs
      /\ UNCHANGED <<topic, sections, dir_config, r, written>>
  BY DEF InitInterpreter
<1>2. /\ server_config["main"].load_path = Own("main")
      /\ server_config["vhost"].load_path = Own("vhost")
      /\ server_config["vhost"] \in ServerConfigs(AllScopes)
      /\ Own("main") \in Seq(AllScopes) /\ Own("vhost") \in Seq(AllScopes)
      /\ Own("main") # NULL /\ Own("vhost") # NULL
  <2>1. Own("main") \in Seq(AllScopes) /\ Own("vhost") \in Seq(AllScopes)
    BY AddedByOne, Names
  <2>2. QED
    BY <1>1, <2>1, SoundFacts, Names DEF AsWritten, ServerAsWritten, Own, Servers
<1>3. Own("main") = <<>> \/ Own("main") = <<"main">>
  BY DEF Own, Mine
<1>4. ASSUME NEW scope \in AllScopes, scope \in DOMAIN dir_config \ {"htaccess"}
      PROVE  Sees(path(scope), LibraryScopes(ServerOf(scope), scope))
  <2> DEFINE server == ServerOf(scope)
             m == Own("main")
             v == IF server = "main" THEN <<>> ELSE Own("vhost")
             i == OwnOf(scope)
             scopes == LibraryScopes(server, scope)
  <2>1. server \in {"main", "vhost"}
    BY <1>4, ServerOfConfigured
  <2>2. scopes \in Seq(AllScopes) /\ Distinct(scopes) /\ AddedBy(scopes) = m \o (v \o i) /\ i \in Seq(AllScopes)
    <3> HIDE DEF server
    <3>1. QED
      BY <2>1, LibraryScopesFacts
  <2>3. Distinct(AddedBy(scopes))
    <3> HIDE DEF scopes
    <3>1. QED
      BY <2>2, AddedByType
  <2>4. PathOf(sconf(scope)) = v
    <3>1. CASE server = "main"
      BY <3>1 DEF PathOf
    <3>2. CASE server # "main"
      BY <1>2, <3>2, PathOfIs
    <3>3. QED
      BY <3>1, <3>2
  <2>5. PathOf(dir_config[scope]) = i
    <3>1. ConfigAsWritten(scope)
      <4>1. scope # "merged"
        BY Names
      <4>2. QED
        BY <1>4, <4>1 DEF AsWritten, InEffect
    <3>2. dir_config[scope] \in DirConfigs(AllScopes)
      BY <1>4, SoundFacts
    <3>3. <<scope>> # NULL
      BY OwnMissing
    <3>4. QED
      BY <3>1, <3>2, <3>3, PathOfIs DEF ConfigAsWritten, OwnOf, Own, Mine
  <2>6. v \in Seq(AllScopes)
    BY <1>2, NoneFacts
  <2>7. default = <<"lib">> \o m
    BY <1>2
  <2> DEFINE none == <<>>
  <2>8. none \in Seq(AllScopes) /\ none = <<>> /\ none \o v = v
    BY <2>6, NoneFacts, ConcatEmptySeq
  <2> HIDE DEF server, m, v, i, scopes, none, default
  <2>9. m \in Seq(AllScopes) /\ (m = <<>> \/ m = <<"main">>)
    BY <1>2, <1>3 DEF m
  <2>10. Sees(((<<"lib">> \o m) \o (none \o v)) \o i, scopes)
    BY <2>2, <2>3, <2>6, <2>8, <2>9, PathParts
  <2>11. path(scope) = ((<<"lib">> \o m) \o (none \o v)) \o i
    <3> HIDE DEF sconf
    <3>1. QED
      BY <2>4, <2>5, <2>7, <2>8, Zenon
  <2>12. QED
    BY <2>10, <2>11 DEF scopes, server
<1> HIDE DEF path
<1>5. ASSUME NEW l \in ToSet(libs) PROVE Fine(l)'
  <2>1. PICK i \in DOMAIN required : l = lib(i)
    BY <1>5 DEF ToSet
  <2> DEFINE scope == required[i]
  <2>2. scope \in AllScopes /\ scope \in DOMAIN dir_config \ {"htaccess"}
    BY SoundFacts, SetFacts
  <2>3. l.library = scope /\ l.path = path(scope)
    BY <2>1
  <2> HIDE DEF scope
  <2>4. ASSUME NEW server, server = ServerOf(l.library)' PROVE Sees(l.path, LibraryScopes(server, l.library))'
    <3>1. server = ServerOf(scope) /\ server \in {"main", "vhost"}
      BY <1>1, <2>2, <2>3, <2>4, ServerOfConfigured
    <3> DEFINE own == l.path
               scopes == LibraryScopes(server, l.library)
    <3>2. Sees(own, scopes)
      BY <1>4, <2>2, <2>3, <3>1
    <3>3. scopes \in Seq(AllScopes)
      BY <2>2, <2>3, <3>1, LibraryScopesFacts
    <3>4. \A s \in ToSet(scopes) : Says(s, "RubyAddPath")' <=> Says(s, "RubyAddPath")
      BY <1>1 DEF Says
    <3> HIDE DEF own, scopes
    <3>5. Sees(own, scopes)'
      BY <3>2, <3>3, <3>4, SeesStays
    <3>6. QED
      BY <3>5 DEF own, scopes
  <2>5. LibrarySees(l)'
    BY <2>4 DEF LibrarySees
  <2>6. QED
    BY <1>1, <2>2, <2>3, <2>5 DEF Fine
<1>6. ToSet(loaded)' = ToSet(libs)
  BY <1>1 DEF ToSet
<1>7. QED
  BY <1>1, <1>5, <1>6 DEF LibrariesSee

\* The library that a .htaccess file requires for a request.
LEMMA HtaccessLibrary ==
  ASSUME Sound, AsWritten, stage = "serving", r.phase = "htaccess", current = "htaccess", NEW l, Line("RubyRequire", l),
         r' = r, DOMAIN dir_config' = DOMAIN dir_config, NEW x \in LibraryRecords, x.library = "htaccess",
         x.path = SetupLoadpath(server_config[CmdServer], dir_config["htaccess"])
  PROVE  Fine(x)'
<1> DEFINE path == x.path
           m == Own("main")
           v == IF r.server = "main" THEN <<>> ELSE Own("vhost")
           i == OwnOf("htaccess")
<1>1. topic' = topic /\ sections' = sections /\ "RubyRequire" \in ToSet(topic)
  BY DEF Line
<1>2. \A s, e : Says(s, e)' <=> Says(s, e) \/ (s = "htaccess" /\ e = "RubyRequire")
  BY NewLine
<1>3. "htaccess" \in AllScopes /\ "htaccess" \in DOMAIN dir_config
  BY SoundFacts, Names
<1>4. r.server \in {"main", "vhost"}
  BY SoundRequest
<1>5. m \in Seq(AllScopes) /\ (m = <<>> \/ m = <<"main">>)
  BY AddedByOne, Names DEF Own, Mine
<1>6. ruby.default_load_path = <<"lib">> \o m
      /\ PathOf(server_config[Merged(r.server)]) = Again \o v
      /\ Again \in Seq(AllScopes) /\ (Again = <<>> \/ Again = m)
  <2>1. AddedBy(Outer) = v
    BY AddedByOne, AddedByEmpty, Names DEF Outer
  <2>2. QED
    BY <2>1, ServerPath
<1>7. PathOf(dir_config["htaccess"]) = i
  <2>1. ConfigAsWritten("htaccess")
    BY <1>3, Names DEF AsWritten, InEffect
  <2>2. dir_config["htaccess"] \in DirConfigs(AllScopes)
    BY <1>3, SoundFacts
  <2>3. <<"htaccess">> # NULL
    BY <1>3, OwnMissing
  <2>4. QED
    BY <2>1, <2>2, <2>3, PathOfIs DEF ConfigAsWritten, OwnOf, Own, Mine, IsServer
<1>8. v \in Seq(AllScopes)
  BY AddedByOne, NoneFacts, Names
<1>9. CmdServer = Merged(r.server)
  BY DEF CmdServer
<1>10. ASSUME NEW scopes, scopes = LibraryScopes(r.server, "htaccess")
       PROVE  Sees(path, scopes) /\ scopes \in Seq(AllScopes)
  <2>1. scopes \in Seq(AllScopes) /\ Distinct(scopes) /\ AddedBy(scopes) = m \o (v \o i) /\ i \in Seq(AllScopes)
    BY <1>3, <1>4, <1>10, LibraryScopesFacts
  <2>2. Distinct(AddedBy(scopes))
    BY <2>1, AddedByType
  <2> DEFINE again == Again
  <2>3. again \in Seq(AllScopes) /\ (again = <<>> \/ again = m)
    BY <1>6
  <2>4. path = ((<<"lib">> \o m) \o (again \o v)) \o i
    <3>1. path = ruby.default_load_path \o PathOf(server_config[Merged(r.server)]) \o PathOf(dir_config["htaccess"])
      BY <1>9 DEF SetupLoadpath
    <3> HIDE DEF path, m, v, i, again
    <3>2. PathOf(server_config[Merged(r.server)]) = again \o v
      BY <1>6 DEF again
    <3>3. QED
      BY <1>6, <1>7, <3>1, <3>2, Zenon
  <2> HIDE DEF path, m, v, i, again
  <2>5. Sees(((<<"lib">> \o m) \o (again \o v)) \o i, scopes)
    BY <1>5, <1>8, <2>1, <2>2, <2>3, PathParts
  <2>6. QED
    BY <2>1, <2>4, <2>5
<1> HIDE DEF path, m, v, i
<1>11. ASSUME NEW server, server = ServerOf(x.library)' PROVE Sees(x.path, LibraryScopes(server, x.library))'
  <2>1. server = r.server
    <3>1. ServerOf("htaccess")' = r'.server
      BY DEF ServerOf, IsServer
    <3>2. QED
      BY <1>11, <3>1
  <2> DEFINE scopes == LibraryScopes(server, "htaccess")
  <2>2. Sees(path, scopes) /\ scopes \in Seq(AllScopes)
    BY <1>10, <2>1
  <2>3. \A s : Says(s, "RubyAddPath")' <=> Says(s, "RubyAddPath")
    BY <1>2
  <2> HIDE DEF scopes
  <2>4. Sees(path, scopes)'
    BY <2>2, <2>3, SeesStays
  <2>5. QED
    BY <2>4 DEF path, scopes
<1>12. LibrarySees(x)'
  BY <1>11 DEF LibrarySees
<1>13. ToSet(topic)' = ToSet(topic)
  BY <1>1 DEF ToSet
<1>14. QED
  BY <1>1, <1>2, <1>3, <1>12, <1>13 DEF Fine

\* A step that requires nothing.
LEMMA NoMoreLibraries ==
  ASSUME Sound, LibrariesSee, loaded' = loaded, stage' = stage,
         \A l \in LibraryRecords : Fine(l) => Fine(l)'
  PROVE  LibrariesSee'
<1>1. loaded \in Seq(LibraryRecords)
  BY SoundFacts
<1>2. ToSet(loaded)' = ToSet(loaded)
  BY DEF ToSet
<1>3. \A l \in ToSet(loaded) : l \in LibraryRecords /\ Fine(l)
  BY <1>1, SetFacts DEF LibrariesSee
<1>4. QED
  BY <1>2, <1>3 DEF LibrariesSee

LEMMA TakenLibraries ==
  ASSUME Sound, AsWritten, LibrariesSee, NEW d \in Directives, NEW l \in Int \cup {NULL}, Taken(d, l)
  PROVE  LibrariesSee'
<1>1. /\ Line(d, l) /\ r' = r /\ DOMAIN dir_config' = DOMAIN dir_config /\ stage' = stage
      /\ LibraryTaken(d)
  BY DEF Taken, Allowed, Line
<1>2. CASE stage = "reading" /\ current # "htaccess"
  <2>1. loaded' = <<>>
    BY <1>1, <1>2 DEF LibraryTaken, LibrariesSee
  <2>2. QED
    BY <2>1, NoneRequired
<1>3. CASE stage = "serving" /\ current = "htaccess" /\ r.phase = "htaccess"
  <2>1. ASSUME NEW x \in LibraryRecords, Fine(x) PROVE Fine(x)'
    BY <1>1, <1>3, <2>1, LineFine
  <2>2. CASE d # "RubyRequire"
    <3>1. loaded' = loaded
      BY <1>1, <2>2 DEF LibraryTaken
    <3>2. QED
      BY <1>1, <2>1, <3>1, NoMoreLibraries
  <2>3. CASE d = "RubyRequire"
    <3> DEFINE path == SetupLoadpath(server_config[CmdServer], dir_config["htaccess"])
    <3>0. PICK x : x = [library |-> "htaccess", path |-> path]
      OBVIOUS
    <3>1. loaded' = Append(loaded, x)
      BY <1>1, <1>3, <2>3, <3>0 DEF LibraryTaken
    <3>2. x.library = "htaccess" /\ x.path = path
      BY <3>0
    <3>3. loaded \in Seq(LibraryRecords)
      BY SoundFacts
    <3>4. x \in LibraryRecords
      <4>1. path \in Paths
        <5>1. CmdServer \in Servers /\ "htaccess" \in DOMAIN dir_config
          BY <1>3, SoundFacts DEF CmdServer, Merged, Servers
        <5>2. /\ server_config[CmdServer].load_path \in Lists(AllScopes)
              /\ dir_config["htaccess"].load_path \in Lists(AllScopes)
          BY <5>1, SoundFacts DEF ServerConfigs, DirConfigs
        <5>3. QED
          BY <5>2, LoadpathType
      <4>2. "htaccess" \in AllScopes
        BY Names
      <4> HIDE DEF path
      <4>3. QED
        BY <3>0, <4>1, <4>2 DEF LibraryRecords
    <3>5. Fine(x)'
      BY <1>1, <1>3, <2>3, <3>2, <3>4, HtaccessLibrary
    <3>6. \A y \in ToSet(loaded') : y = x \/ y \in ToSet(loaded)
      <4>1. /\ DOMAIN loaded' = DOMAIN loaded \cup {Len(loaded) + 1} /\ loaded'[Len(loaded) + 1] = x
            /\ \A i \in DOMAIN loaded : loaded'[i] = loaded[i]
        BY <3>1, <3>3, <3>4, AppendElements
      <4>2. QED
        BY <4>1 DEF ToSet
    <3>7. \A y \in ToSet(loaded) : y \in LibraryRecords /\ Fine(y)
      BY <3>3, SetFacts DEF LibrariesSee
    <3>8. \A y \in ToSet(loaded') : Fine(y)'
      BY <2>1, <3>5, <3>6, <3>7
    <3>9. ToSet(loaded)' = ToSet(loaded')
      BY DEF ToSet
    <3>10. QED
      BY <1>1, <1>3, <3>8, <3>9 DEF LibrariesSee
  <2>4. QED
    BY <2>2, <2>3
<1>4. QED
  BY <1>1, <1>2, <1>3, WhereLines

LEMMA RefusedLibraries ==
  ASSUME Sound, LibrariesSee, RefusedLine
  PROVE  LibrariesSee'
<1>1. HtaccessRead
  BY HtaccessKind
<1>2. r'.server = r.server /\ stage' = stage
  BY <1>1, SoundRequest DEF HtaccessRead, RequestRecords
<1>3. PICK d \in ToSet(topic) \ ServerOnly : Line(d, NULL)
  BY DEF RefusedLine
<1>4. current = "htaccess" /\ dir_config' = dir_config /\ loaded' = loaded
  BY DEF RefusedLine, Refused
<1>5. ASSUME NEW x \in LibraryRecords, Fine(x) PROVE Fine(x)'
  BY <1>2, <1>3, <1>4, <1>5, LineFine
<1>6. QED
  BY <1>2, <1>4, <1>5, NoMoreLibraries

\* A step that changes nothing of what libraries see.
LEMMA LibrariesStay ==
  ASSUME Sound, LibrariesSee, UNCHANGED <<topic, stage, sections, written, loaded>>, r'.server = r.server,
         DOMAIN dir_config \subseteq DOMAIN dir_config'
  PROVE  LibrariesSee'
<1>1. \A s, e : Says(s, e)' <=> Says(s, e)
  BY DEF Says
<1>2. ASSUME NEW x \in LibraryRecords, Fine(x) PROVE Fine(x)'
  <2>1. x.library \in DOMAIN dir_config'
    BY <1>2 DEF Fine
  <2>2. QED
    BY <1>1, <1>2, <2>1, FineStays
<1>3. QED
  BY <1>2, NoMoreLibraries

LEMMA BeginLibraries ==
  ASSUME Sound, LibrariesSee, NEW server \in {"main", "vhost"}, NEW within \in SUBSET Open,
         BeginRequest(server, within)
  PROVE  LibrariesSee'
<1> DEFINE kept == {w \in ToSet(written) : w.scope # "htaccess"}
           libraries == {l \in ToSet(loaded) : l.library # "htaccess"}
<1>1. /\ stage = "serving" /\ stage' = stage /\ topic' = topic /\ sections' = sections
      /\ written' = Those(written, kept) /\ loaded' = Those(loaded, libraries)
      /\ DOMAIN dir_config' = DOMAIN dir_config \ {"htaccess"}
  BY DEF BeginRequest, RequestStays
<1>2. \A s, e : s # "htaccess" => (Says(s, e)' <=> Says(s, e))
  <2>1. written \in Seq(LineRecords)
    BY DEF Sound, TypeOK, LineRecords
  <2> HIDE DEF kept
  <2>2. ToSet(Those(written, kept)) = ToSet(written) \cap kept
    BY <2>1, ThoseElements
  <2>3. ToSet(written)' = ToSet(written')
    BY DEF ToSet
  <2>4. ToSet(written)' = kept
    BY <1>1, <2>2, <2>3 DEF kept
  <2>5. \A s, e : Says(s, e)' <=> \E w \in ToSet(written)' : w.scope = s /\ w.directive = e
    BY DEF Says, ToSet
  <2>6. QED
    BY <2>4, <2>5, SaysSet DEF kept
<1>3. ToSet(loaded)' = libraries /\ \A l \in libraries : l \in LibraryRecords
  <2>1. loaded \in Seq(LibraryRecords)
    BY SoundFacts
  <2>2. \A l \in ToSet(loaded) : l \in LibraryRecords
    BY <2>1, SetFacts
  <2> HIDE DEF libraries
  <2>3. ToSet(Those(loaded, libraries)) = ToSet(loaded) \cap libraries
    BY <2>1, ThoseElements
  <2>4. ToSet(loaded)' = ToSet(loaded')
    BY DEF ToSet
  <2>5. QED
    BY <1>1, <2>2, <2>3, <2>4 DEF libraries
<1>4. ASSUME NEW l \in libraries PROVE Fine(l)'
  <2>1. l \in LibraryRecords /\ Fine(l) /\ l.library # "htaccess"
    BY <1>3, <1>4 DEF LibrariesSee
  <2>2. l.library \in DOMAIN dir_config'
    BY <1>1, <2>1 DEF Fine
  <2>3. \A s \in {"main", "vhost", l.library} : Says(s, "RubyAddPath")' <=> Says(s, "RubyAddPath")
    BY <1>2, <2>1
  <2>4. QED
    BY <1>1, <2>1, <2>2, <2>3, FineStays
<1>5. QED
  BY <1>1, <1>3, <1>4 DEF LibrariesSee

LEMMA LibrariesSeeStep ==
  Sound /\ Progress /\ AsWritten /\ LibrariesSee /\ [Next]_vars => LibrariesSee'
<1> SUFFICES ASSUME Sound, Progress, AsWritten, LibrariesSee, [Next]_vars PROVE LibrariesSee'
  OBVIOUS
<1>1. CASE \/ RubyKanjiCode \/ RubyOutputMode \/ RubyTimeOut \/ RubyRestrictDirectives
           \/ RubyPassEnv \/ RubyAddPath \/ \E phase \in Phases : RubyHandler(phase)
  BY <1>1, SettingsAreTaken, TakenLibraries
<1>2. CASE RubySetEnv \/ RubyRequire \/ \E level \in Levels : RubySafeLevel(level)
  BY <1>2, OthersAreTaken, TakenLibraries
<1>3. CASE RefusedLine
  BY <1>3, RefusedLibraries
<1>4. CASE \/ OpenVirtualHost \/ CloseSection \/ EndOfFile
           \/ \E kind \in {"Directory", "Location"} : OpenSection(kind)
  <2>1. stage # "serving" /\ loaded' = loaded
    BY <1>4 DEF OpenVirtualHost, CloseSection, EndOfFile, OpenSection, Opened
  <2>2. loaded' = <<>>
    BY <2>1 DEF LibrariesSee
  <2>3. QED
    BY <2>2, NoneRequired
<1>5. CASE OpenHtaccess
  <2>1. UNCHANGED <<topic, stage, sections, written, loaded, r>>
    BY <1>5 DEF OpenHtaccess, Opened
  <2>2. DOMAIN dir_config \subseteq DOMAIN dir_config'
    BY <1>5 DEF OpenHtaccess, Opened
  <2>3. QED
    BY <2>1, <2>2, LibrariesStay
<1>6. CASE InitInterpreter
  BY <1>6, InitInterpreterSees
<1>7. CASE \E server \in {"main", "vhost"}, within \in SUBSET Open : BeginRequest(server, within)
  BY <1>7, BeginLibraries
<1>8. CASE GoesOn
  <2>1. Serving /\ r'.server = r.server
    BY <1>8, GoesOnKind, GoesForward
  <2>2. QED
    BY <2>1, LibrariesStay DEF Serving
<1>9. CASE \E phase \in Phases \cup {"late_init"} : Phase(phase)
  <2>1. Serving /\ r'.server = r.server
    BY <1>9, PhaseKind, PhaseForward
  <2>2. QED
    BY <2>1, LibrariesStay DEF Serving
<1>10. CASE UNCHANGED vars
  BY <1>10, LibrariesStay DEF vars
<1>11. CASE Idle
  BY <1>10, <1>11 DEF Idle
<1>12. QED
  BY <1>1, <1>2, <1>3, <1>4, <1>5, <1>6, <1>7, <1>8, <1>9, <1>10, <1>11 DEF Next, GoesOn

\* What handlers and libraries see, together.
LEMMA AllSee ==
  ASSUME Sound, HandlersSee, LibrariesSee
  PROVE  PathsInScope
<1>1. Ran => Sees(last.load_path, Scopes(last.phase))
  BY DEF HandlersSee
<1>2. ASSUME NEW i \in DOMAIN loaded,
             NEW scope, scope = loaded[i].library, scope # "htaccess" \/ PathFirst
      PROVE  Sees(loaded[i].path, ServersOf(scope) \o (IF IsServer(scope) THEN <<>> ELSE <<scope>>))
  <2>1. loaded[i] \in ToSet(loaded)
    BY SoundFacts, SetFacts
  <2>2. LibrarySees(loaded[i])
    BY <1>2, <2>1 DEF LibrariesSee, Fine
  <2>3. Sees(loaded[i].path, LibraryScopes(ServerOf(scope), scope))
    BY <1>2, <2>2 DEF LibrarySees
  <2>4. LibraryScopes(ServerOf(scope), scope)
          = ServersOf(scope) \o (IF IsServer(scope) THEN <<>> ELSE <<scope>>)
    BY Zenon DEF LibraryScopes, ServersOf
  <2>5. QED
    BY <2>3, <2>4, Zenon
<1>3. QED
  BY <1>1, <1>2 DEF PathsInScope

\* Handlers and libraries see the interpreter's own path and those of the scopes
\* around them, from the outside in, and of no other (mod_ruby_setup_loadpath);
\* a library that a .htaccess file requires is loaded at once, before what the
\* file adds after it.
THEOREM LoadPathsInScope == Spec => []PathsInScope
<1>1. Init => HandlersSee /\ LibrariesSee
  <2> SUFFICES ASSUME Init PROVE HandlersSee /\ LibrariesSee
    OBVIOUS
  <2>1. ~ Ran /\ loaded = <<>>
    BY DEF Init, Ran, Nothing
  <2>2. ToSet(loaded) = {}
    BY <2>1 DEF ToSet
  <2>3. QED
    BY <2>1, <2>2 DEF HandlersSee, LibrariesSee
<1>2. QED
  BY SettingsAlways, HandlersSeeStep, LibrariesSeeStep, AllSee, <1>1, PTL DEF Spec
===========================================================================
