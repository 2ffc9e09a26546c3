----------------------- MODULE ConfigurationProofs ------------------------
(***************************************************************************)
(* The configurations of Configuration, and proofs about what they are     *)
(* made of.  Merging configurations of sections is associative, whatever   *)
(* is in them: it makes no difference whether Apache merges the sections   *)
(* of a request one by one (1.x) or in groups (2.x).  The types of all     *)
(* variables are an invariant with Structure, which says for which scopes  *)
(* there are configurations.                                               *)
(***************************************************************************)
EXTENDS Configuration, SequenceTheorems, WellFoundedInduction, TLAPS

-----------------------------------------------------------------------------
(* Folds, by induction over numbers.                                       *)

LEMMA LeastNumber ==
  ASSUME NEW T \in SUBSET Nat, T # {}
  PROVE  \E m \in T : \A k \in T : m <= k
<1> DEFINE Below == {ss \in Nat \X Nat : ss[1] < ss[2]}
<1>1. IsWellFoundedOn(Below, Nat)
  BY NatLessThanWellFounded DEF OpToRel
<1>2. \E x \in T : \A y \in T : ~ (<<y, x>> \in Below)
  BY <1>1, WFMin
<1>3. \A x, y \in T : ~ (<<y, x>> \in Below) => x <= y
  OBVIOUS
<1> HIDE DEF Below
<1>4. QED
  BY <1>2, <1>3

\* The highest of a set of numbers.
LEMMA MaxUpTo ==
  ASSUME NEW n \in Nat, NEW T \in SUBSET (1..n + 1), n + 1 \in T
  PROVE  Max(T) = n + 1
<1>1. n + 1 \in T /\ \A y \in T : n + 1 >= y
  OBVIOUS
<1>2. \A x \in T : (\A y \in T : x >= y) => x = n + 1
  OBVIOUS
<1>3. Max(T) = CHOOSE x \in T : \A y \in T : x >= y
  BY Zenon DEF Max
<1>4. QED
  BY <1>1, <1>2, <1>3

LEMMA MaxRange ==
  ASSUME NEW n \in Nat
  PROVE  /\ Max(1..n + 1) = n + 1
         /\ 1..n + 1 # {}
         /\ (1..n + 1) \ {n + 1} = 1..n
<1>1. Max(1..n + 1) = n + 1
  BY MaxUpTo
<1>2. QED
  BY <1>1

\* Induction over the numbers up to N: G is the set of those of which it holds.
LEMMA Upward ==
  ASSUME NEW N \in Nat, NEW G, 0 \in G, \A n \in 0..N - 1 : n \in G => n + 1 \in G
  PROVE  \A n \in 0..N : n \in G
<1> DEFINE Bad == {n \in 0..N : n \notin G}
<1>1. SUFFICES ASSUME Bad # {} PROVE FALSE
  OBVIOUS
<1>2. PICK m \in Bad : \A k \in Bad : m <= k
  <2>1. Bad \in SUBSET Nat
    OBVIOUS
  <2> HIDE DEF Bad
  <2>2. QED
    BY <1>1, <2>1, LeastNumber
<1>3. m # 0 /\ m \in 0..N /\ m \notin G
  OBVIOUS
<1>4. m - 1 \in 0..N - 1 /\ m - 1 \notin Bad /\ (m - 1) + 1 = m
  BY <1>2, <1>3
<1>5. m - 1 \in G
  BY <1>4
<1>6. QED
  BY <1>3, <1>4, <1>5

MergeRec(base, s, n, g) ==
  g = [T \in SUBSET (1..n) |-> IF T = {} THEN base
                               ELSE MergeDirConfig(g[T \ {Max(T)}], s[Max(T)])]

LEMMA MergeRecursion ==
  ASSUME NEW base, NEW s, NEW n \in Nat
  PROVE  \E g : MergeRec(base, s, n, g)
<1> DEFINE Bad == {k \in Nat : ~ \E g : MergeRec(base, s, k, g)}
<1>1. SUFFICES ASSUME Bad # {} PROVE FALSE
  OBVIOUS
<1>2. PICK m \in Bad : \A k \in Bad : m <= k
  BY <1>1, LeastNumber
<1>3. m # 0
  <2>1. SUFFICES ASSUME m = 0 PROVE FALSE
    OBVIOUS
  <2>2. SUBSET (1..0) = {{}}
    OBVIOUS
  <2> DEFINE g == [T \in SUBSET (1..0) |-> base]
  <2>3. MergeRec(base, s, 0, g)
    BY <2>2 DEF MergeRec
  <2>4. QED
    BY <2>1, <2>3
<1>4. PICK k \in Nat : m = k + 1
  BY <1>3
<1>5. PICK g : MergeRec(base, s, k, g)
  BY <1>2, <1>4
<1> DEFINE Value(T) == IF k + 1 \in T THEN MergeDirConfig(g[T \ {k + 1}], s[k + 1]) ELSE g[T]
           h == [T \in SUBSET (1..k + 1) |-> Value(T)]
<1>6. ASSUME NEW T \in SUBSET (1..k + 1)
      PROVE  h[T] = IF T = {} THEN base ELSE MergeDirConfig(h[T \ {Max(T)}], s[Max(T)])
  <2>0. h[T] = Value(T)
    OBVIOUS
  <2>1. CASE k + 1 \in T
    <3>1. Max(T) = k + 1
      BY <2>1, MaxUpTo
    <3>2. T \ {k + 1} \in SUBSET (1..k + 1) /\ k + 1 \notin T \ {k + 1}
      OBVIOUS
    <3>3. h[T \ {k + 1}] = g[T \ {k + 1}]
      BY <3>2
    <3> HIDE DEF h
    <3>4. QED
      BY <2>0, <2>1, <3>1, <3>3
  <2>2. CASE k + 1 \notin T
    <3>1. T \in SUBSET (1..k)
      BY <2>2
    <3>2. g[T] = IF T = {} THEN base ELSE MergeDirConfig(g[T \ {Max(T)}], s[Max(T)])
      BY <1>5, <3>1 DEF MergeRec
    <3>3. T \ {Max(T)} \in SUBSET (1..k + 1) /\ k + 1 \notin T \ {Max(T)}
      BY <2>2
    <3>4. h[T \ {Max(T)}] = g[T \ {Max(T)}]
      BY <3>3
    <3> HIDE DEF h
    <3>5. QED
      BY <2>0, <2>2, <3>2, <3>4
  <2>3. QED
    BY <2>1, <2>2
<1>7. MergeRec(base, s, k + 1, h)
  <2>1. h = [T \in SUBSET (1..k + 1) |-> h[T]]
    OBVIOUS
  <2> HIDE DEF h
  <2>2. QED
    BY <1>6, <2>1 DEF MergeRec
<1>8. QED
  BY <1>2, <1>4, <1>7

\* The fold of MergeDirConfig over a sequence, step by step.
Merges(base, s, g) ==
  /\ g[0] = base
  /\ \A n \in 0..Len(s) - 1 : g[n + 1] = MergeDirConfig(g[n], s[n + 1])
LEMMA MergeSteps ==
  ASSUME NEW S, NEW s \in Seq(S), NEW base
  PROVE  \E g : Merges(base, s, g) /\ FoldLeft(MergeDirConfig, base, s) = g[Len(s)]
<1> DEFINE N == Len(s)
           it == CHOOSE iter : MergeRec(base, s, N, iter)
           g == [n \in 0..N |-> it[1..n]]
<1>1. N \in Nat /\ DOMAIN s = 1..N
  BY LenProperties
<1>2. FoldLeft(MergeDirConfig, base, s) = it[1..N]
  BY <1>1, Zenon DEF FoldLeft, MapThenFoldSet, MergeRec
<1>3. MergeRec(base, s, N, it)
  BY <1>1, MergeRecursion, Zenon
<1> HIDE DEF it, N
<1>4. g[0] = base
  <2>1. 1..0 = {} /\ 1..0 \in SUBSET (1..N)
    BY <1>1
  <2>2. it[1..0] = base
    BY <1>3, <2>1 DEF MergeRec
  <2>3. QED
    BY <1>1, <2>2
<1>5. ASSUME NEW n \in 0..N - 1
      PROVE  g[n + 1] = MergeDirConfig(g[n], s[n + 1])
  <2>1. n \in Nat /\ 1..n + 1 \in SUBSET (1..N) /\ n \in 0..N /\ n + 1 \in 0..N
    BY <1>1
  <2>2. it[1..n + 1] = MergeDirConfig(it[1..n], s[n + 1])
    <3>1. /\ Max(1..n + 1) = n + 1
          /\ 1..n + 1 # {}
          /\ (1..n + 1) \ {n + 1} = 1..n
      BY <2>1, MaxRange
    <3> DEFINE T == 1..n + 1
    <3>2. T \in SUBSET (1..N)
      BY <2>1
    <3>3. it[T] = IF T = {} THEN base ELSE MergeDirConfig(it[T \ {Max(T)}], s[Max(T)])
      <4> HIDE DEF T
      <4>1. QED
        BY <1>3, <3>2 DEF MergeRec
    <3>4. QED
      BY <3>1, <3>3
  <2>3. QED
    BY <2>1, <2>2
<1>6. FoldLeft(MergeDirConfig, base, s) = g[N]
  BY <1>1, <1>2
<1> HIDE DEF g
<1>7. QED
  BY <1>4, <1>5, <1>6 DEF Merges, N

Keep(S, kept, x) == IF x \in S THEN Append(kept, x) ELSE kept
KeepRec(S, s, n, g) ==
  g = [T \in SUBSET (1..n) |-> IF T = {} THEN <<>>
                               ELSE Keep(S, g[T \ {Max(T)}], s[Max(T)])]

LEMMA KeepRecursion ==
  ASSUME NEW S, NEW s, NEW n \in Nat
  PROVE  \E g : KeepRec(S, s, n, g)
<1> DEFINE Bad == {k \in Nat : ~ \E g : KeepRec(S, s, k, g)}
<1>1. SUFFICES ASSUME Bad # {} PROVE FALSE
  OBVIOUS
<1>2. PICK m \in Bad : \A k \in Bad : m <= k
  BY <1>1, LeastNumber
<1>3. m # 0
  <2>1. SUFFICES ASSUME m = 0 PROVE FALSE
    OBVIOUS
  <2>2. SUBSET (1..0) = {{}}
    OBVIOUS
  <2> DEFINE g == [T \in SUBSET (1..0) |-> <<>>]
  <2>3. KeepRec(S, s, 0, g)
    BY <2>2 DEF KeepRec
  <2>4. QED
    BY <2>1, <2>3
<1>4. PICK k \in Nat : m = k + 1
  BY <1>3
<1>5. PICK g : KeepRec(S, s, k, g)
  BY <1>2, <1>4
<1> DEFINE Value(T) == IF k + 1 \in T THEN Keep(S, g[T \ {k + 1}], s[k + 1]) ELSE g[T]
           h == [T \in SUBSET (1..k + 1) |-> Value(T)]
<1>6. ASSUME NEW T \in SUBSET (1..k + 1)
      PROVE  h[T] = IF T = {} THEN <<>> ELSE Keep(S, h[T \ {Max(T)}], s[Max(T)])
  <2>0. h[T] = Value(T)
    OBVIOUS
  <2>1. CASE k + 1 \in T
    <3>1. Max(T) = k + 1
      BY <2>1, MaxUpTo
    <3>2. T \ {k + 1} \in SUBSET (1..k + 1) /\ k + 1 \notin T \ {k + 1}
      OBVIOUS
    <3>3. h[T \ {k + 1}] = g[T \ {k + 1}]
      BY <3>2
    <3> HIDE DEF h
    <3>4. QED
      BY <2>0, <2>1, <3>1, <3>3
  <2>2. CASE k + 1 \notin T
    <3>1. T \in SUBSET (1..k)
      BY <2>2
    <3>2. g[T] = IF T = {} THEN <<>> ELSE Keep(S, g[T \ {Max(T)}], s[Max(T)])
      BY <1>5, <3>1 DEF KeepRec
    <3>3. T \ {Max(T)} \in SUBSET (1..k + 1) /\ k + 1 \notin T \ {Max(T)}
      BY <2>2
    <3>4. h[T \ {Max(T)}] = g[T \ {Max(T)}]
      BY <3>3
    <3> HIDE DEF h
    <3>5. QED
      BY <2>0, <2>2, <3>2, <3>4
  <2>3. QED
    BY <2>1, <2>2
<1>7. KeepRec(S, s, k + 1, h)
  <2>1. h = [T \in SUBSET (1..k + 1) |-> h[T]]
    OBVIOUS
  <2> HIDE DEF h
  <2>2. QED
    BY <1>6, <2>1 DEF KeepRec
<1>8. QED
  BY <1>2, <1>4, <1>7

\* What is kept of a sequence, step by step.
Keeps(S, s, g) ==
  /\ g[0] = <<>>
  /\ \A n \in 0..Len(s) - 1 : g[n + 1] = Keep(S, g[n], s[n + 1])
LEMMA ThoseSteps ==
  ASSUME NEW A, NEW s \in Seq(A), NEW S
  PROVE  \E g : Keeps(S, s, g) /\ Those(s, S) = g[Len(s)]
<1> DEFINE N == Len(s)
           it == CHOOSE iter : KeepRec(S, s, N, iter)
           g == [n \in 0..N |-> it[1..n]]
<1>1. N \in Nat /\ DOMAIN s = 1..N
  BY LenProperties
<1>2. Those(s, S) = it[1..N]
  BY <1>1, Zenon DEF Those, FoldLeft, MapThenFoldSet, KeepRec, Keep
<1>3. KeepRec(S, s, N, it)
  BY <1>1, KeepRecursion, Zenon
<1> HIDE DEF it, N
<1>4. g[0] = <<>>
  <2>1. 1..0 = {} /\ 1..0 \in SUBSET (1..N)
    BY <1>1
  <2>2. it[1..0] = <<>>
    BY <1>3, <2>1 DEF KeepRec
  <2>3. QED
    BY <1>1, <2>2
<1>5. ASSUME NEW n \in 0..N - 1
      PROVE  g[n + 1] = Keep(S, g[n], s[n + 1])
  <2>1. n \in Nat /\ 1..n + 1 \in SUBSET (1..N) /\ n \in 0..N /\ n + 1 \in 0..N
    BY <1>1
  <2>2. it[1..n + 1] = Keep(S, it[1..n], s[n + 1])
    <3>1. /\ Max(1..n + 1) = n + 1
          /\ 1..n + 1 # {}
          /\ (1..n + 1) \ {n + 1} = 1..n
      BY <2>1, MaxRange
    <3> DEFINE T == 1..n + 1
    <3>2. T \in SUBSET (1..N)
      BY <2>1
    <3>3. it[T] = IF T = {} THEN <<>> ELSE Keep(S, it[T \ {Max(T)}], s[Max(T)])
      <4> HIDE DEF T
      <4>1. QED
        BY <1>3, <3>2 DEF KeepRec
    <3>4. QED
      BY <3>1, <3>3
  <2>3. QED
    BY <2>1, <2>2
<1>6. Those(s, S) = g[N]
  BY <1>1, <1>2
<1> HIDE DEF g
<1>7. QED
  BY <1>4, <1>5, <1>6 DEF Keeps, N

-----------------------------------------------------------------------------
(* The operators that merge one field.                                     *)

\* The innermost of three settings that says anything is found either way
\* (kcode, output_mode and timeout in ruby_merge_dir_config and
\* ruby_merge_server_config).
LEMMA OverAssociative ==
  ASSUME NEW a, NEW b, NEW c
  PROVE  Over(Over(a, b), c) = Over(a, Over(b, c))
BY DEF Over

\* The highest of three safe levels is found either way.
LEMMA MergeLevelAssociative ==
  ASSUME NEW a \in Int, NEW b \in Int, NEW c \in Int
  PROVE  MergeLevel(MergeLevel(a, b), c) = MergeLevel(a, MergeLevel(b, c))
BY DEF MergeLevel

\* Of two lists, missing or not, MergePath makes one.
LEMMA MergePathType ==
  ASSUME NEW Values, NEW a \in Lists(Values), NEW b \in Lists(Values)
  PROVE  MergePath(a, b) \in Lists(Values)
<1>1. CASE a = NULL \/ b = NULL
  BY <1>1, Zenon DEF MergePath
<1>2. CASE a \in Seq(Values) /\ b \in Seq(Values)
  <2>1. a \o b \in Seq(Values)
    BY <1>2, ConcatProperties
  <2>2. QED
    BY <2>1, Zenon DEF MergePath, Lists
<1>3. QED
  BY <1>1, <1>2 DEF Lists

\* Concatenation of missing lists with others, in the order of MergePath.
LEMMA MergePathAssociative ==
  ASSUME NEW Values, NULL \notin Seq(Values),
         NEW a \in Lists(Values), NEW b \in Lists(Values), NEW c \in Lists(Values)
  PROVE  MergePath(MergePath(a, b), c) = MergePath(a, MergePath(b, c))
<1>1. CASE a = NULL
  BY <1>1, Zenon DEF MergePath
<1>2. CASE b = NULL
  BY <1>2, Zenon DEF MergePath
<1>3. CASE c = NULL
  BY <1>3, Zenon DEF MergePath
<1>4. CASE a \in Seq(Values) /\ b \in Seq(Values) /\ c \in Seq(Values)
  <2>1. a \o b \in Seq(Values) /\ b \o c \in Seq(Values)
    BY <1>4, ConcatProperties
  <2>2. (a \o b) \o c = a \o (b \o c)
    BY <1>4, ConcatAssociative
  <2>3. QED
    BY <1>4, <2>1, <2>2, Zenon DEF MergePath, Lists
<1>5. QED
  BY <1>1, <1>2, <1>3, <1>4 DEF Lists

\* merge_handlers is MergePath with the inner list first.
LEMMA MergeHandlersIsMergePath ==
  ASSUME NEW a, NEW b
  PROVE  MergeHandlers(a, b) = MergePath(b, a)
BY DEF MergeHandlers, MergePath

LEMMA MergeHandlersAssociative ==
  ASSUME NEW Values, NULL \notin Seq(Values),
         NEW a \in Lists(Values), NEW b \in Lists(Values), NEW c \in Lists(Values)
  PROVE  MergeHandlers(MergeHandlers(a, b), c) = MergeHandlers(a, MergeHandlers(b, c))
<1>1. MergePath(c, MergePath(b, a)) = MergePath(MergePath(c, b), a)
  BY MergePathAssociative
<1>2. QED
  BY <1>1, MergeHandlersIsMergePath, Zenon

LEMMA OverlayAssociative ==
  ASSUME NEW Values,
         NEW a \in Seq(Values), NEW b \in Seq(Values), NEW c \in Seq(Values)
  PROVE  /\ Overlay(a, b) \in Seq(Values)
         /\ Overlay(Overlay(a, b), c) = Overlay(a, Overlay(b, c))
BY ConcatProperties, ConcatAssociative DEF Overlay

-----------------------------------------------------------------------------
(* ruby_merge_dir_config.                                                  *)

\* The merge of two configurations is a configuration, field by field.
LEMMA MergeDirConfigType ==
  ASSUME NEW Values, NULL \notin Seq(Values),
         NEW a \in DirConfigs(Values), NEW b \in DirConfigs(Values)
  PROVE  MergeDirConfig(a, b) \in DirConfigs(Values)
<1>1. MergeLevel(a.safe_level, b.safe_level) \in Int
  BY DEF DirConfigs, MergeLevel
<1>2. Over(a.kcode, b.kcode) \in Settings(Values)
  BY DEF DirConfigs, Over, Settings
<1>3. Over(a.output_mode, b.output_mode) \in Settings(Values)
  BY DEF DirConfigs, Over, Settings
<1>4. MergePath(a.load_path, b.load_path) \in Lists(Values)
  BY MergePathType DEF DirConfigs
<1>5. Overlay(a.env, b.env) \in Seq(Values)
  BY OverlayAssociative DEF DirConfigs
<1>6. \A p \in Phases : MergeHandlers(a.handlers[p], b.handlers[p]) \in Lists(Values)
  BY MergeHandlersIsMergePath, MergePathType DEF DirConfigs
<1>7. QED
  BY <1>1, <1>2, <1>3, <1>4, <1>5, <1>6 DEF MergeDirConfig, DirConfigs

\* Sections may be merged in any grouping, as long as their order is kept:
\* what ruby_merge_dir_config makes of three configurations is the same
\* whether the first two or the last two of them are merged first.
THEOREM MergeDirConfigAssociative ==
  ASSUME NEW Values, NULL \notin Seq(Values), NEW a \in DirConfigs(Values),
         NEW b \in DirConfigs(Values), NEW c \in DirConfigs(Values)
  PROVE  MergeDirConfig(MergeDirConfig(a, b), c) = MergeDirConfig(a, MergeDirConfig(b, c))
<1> DEFINE left  == MergeDirConfig(MergeDirConfig(a, b), c)
           right == MergeDirConfig(a, MergeDirConfig(b, c))
<1>1. left.safe_level = right.safe_level
  BY MergeLevelAssociative DEF MergeDirConfig, DirConfigs
<1>2. left.kcode = right.kcode
  <2>1. /\ left.kcode = Over(Over(a.kcode, b.kcode), c.kcode)
        /\ right.kcode = Over(a.kcode, Over(b.kcode, c.kcode))
    BY DEF MergeDirConfig
  <2>2. QED
    BY <2>1, OverAssociative
<1>3. left.output_mode = right.output_mode
  <2>1. /\ left.output_mode = Over(Over(a.output_mode, b.output_mode), c.output_mode)
        /\ right.output_mode = Over(a.output_mode, Over(b.output_mode, c.output_mode))
    BY DEF MergeDirConfig
  <2>2. QED
    BY <2>1, OverAssociative
<1>4. left.load_path = right.load_path
  <2>1. /\ left.load_path = MergePath(MergePath(a.load_path, b.load_path), c.load_path)
        /\ right.load_path = MergePath(a.load_path, MergePath(b.load_path, c.load_path))
    BY DEF MergeDirConfig
  <2>2. a.load_path \in Lists(Values) /\ b.load_path \in Lists(Values) /\ c.load_path \in Lists(Values)
    BY DEF DirConfigs
  <2>3. QED
    BY <2>1, <2>2, MergePathAssociative
<1>5. left.env = right.env
  <2>1. /\ left.env = Overlay(Overlay(a.env, b.env), c.env)
        /\ right.env = Overlay(a.env, Overlay(b.env, c.env))
    BY DEF MergeDirConfig
  <2>2. a.env \in Seq(Values) /\ b.env \in Seq(Values) /\ c.env \in Seq(Values)
    BY DEF DirConfigs
  <2>3. QED
    BY <2>1, <2>2, OverlayAssociative
<1>6. left.handlers = right.handlers
  <2>1. ASSUME NEW p \in Phases
        PROVE  MergeHandlers(MergeHandlers(a.handlers[p], b.handlers[p]), c.handlers[p])
                 = MergeHandlers(a.handlers[p], MergeHandlers(b.handlers[p], c.handlers[p]))
    <3>1. /\ a.handlers[p] \in Lists(Values)
          /\ b.handlers[p] \in Lists(Values)
          /\ c.handlers[p] \in Lists(Values)
      BY DEF DirConfigs
    <3> HIDE DEF left, right
    <3>2. QED
      BY <3>1, MergeHandlersAssociative
  <2>2. QED
    BY <2>1 DEF MergeDirConfig
<1>7. QED
  BY <1>1, <1>2, <1>3, <1>4, <1>5, <1>6 DEF MergeDirConfig

\* The sections of a request in groups, as Apache 2.x merges them: a walk that
\* first merges three of them and then the result gives what merging one by one
\* gives.
COROLLARY WalksMergeAlike ==
  ASSUME NEW Values, NULL \notin Seq(Values), NEW base \in DirConfigs(Values),
         NEW a \in DirConfigs(Values), NEW b \in DirConfigs(Values), NEW c \in DirConfigs(Values)
  PROVE  MergeDirConfig(base, MergeDirConfig(MergeDirConfig(a, b), c))
           = MergeDirConfig(MergeDirConfig(MergeDirConfig(base, a), b), c)
<1>1. MergeDirConfig(a, b) \in DirConfigs(Values)
  BY MergeDirConfigType
<1>2. MergeDirConfig(MergeDirConfig(base, MergeDirConfig(a, b)), c)
        = MergeDirConfig(base, MergeDirConfig(MergeDirConfig(a, b), c))
  BY <1>1, MergeDirConfigAssociative
<1>3. MergeDirConfig(MergeDirConfig(base, a), b) = MergeDirConfig(base, MergeDirConfig(a, b))
  BY MergeDirConfigAssociative
<1>4. QED
  BY <1>2, <1>3

\* A merged safe level is one of the two and not below either: no section
\* lowers the safe level of what is around it, in whatever order and however
\* often configurations are merged.
THEOREM MergeNeverLowers ==
  ASSUME NEW a, NEW b, a.safe_level \in Int, b.safe_level \in Int
  PROVE  LET m == MergeDirConfig(a, b).safe_level
         IN  m >= a.safe_level /\ m >= b.safe_level /\ m \in {a.safe_level, b.safe_level}
BY DEF MergeDirConfig, MergeLevel

-----------------------------------------------------------------------------
(* What the folds give.                                                    *)

LEMMA MergesType ==
  ASSUME NEW Values, NULL \notin Seq(Values), NEW base \in DirConfigs(Values),
         NEW s \in Seq(DirConfigs(Values)), NEW g, Merges(base, s, g)
  PROVE  \A n \in 0..Len(s) : g[n] \in DirConfigs(Values)
<1> DEFINE N == Len(s)
           G == {n \in 0..N : g[n] \in DirConfigs(Values)}
<1>1. N \in Nat /\ \A n \in 1..N : s[n] \in DirConfigs(Values)
  BY LenProperties
<1>2. g[0] = base /\ \A n \in 0..N - 1 : g[n + 1] = MergeDirConfig(g[n], s[n + 1])
  BY DEF Merges
<1> HIDE DEF N
<1>3. 0 \in G
  BY <1>1, <1>2
<1>4. ASSUME NEW n \in 0..N - 1, n \in G
      PROVE  n + 1 \in G
  <2>1. n + 1 \in 0..N /\ s[n + 1] \in DirConfigs(Values) /\ g[n] \in DirConfigs(Values)
    BY <1>1, <1>4
  <2>2. MergeDirConfig(g[n], s[n + 1]) \in DirConfigs(Values)
    BY <2>1, MergeDirConfigType
  <2>3. QED
    BY <1>2, <2>1, <2>2
<1> HIDE DEF G
<1>5. \A n \in 0..N : n \in G
  BY <1>1, <1>3, <1>4, Upward
<1>6. QED
  BY <1>5 DEF G, N

LEMMA FoldType ==
  ASSUME NEW Values, NULL \notin Seq(Values), NEW base \in DirConfigs(Values),
         NEW s \in Seq(DirConfigs(Values))
  PROVE  FoldLeft(MergeDirConfig, base, s) \in DirConfigs(Values)
<1>1. PICK g : Merges(base, s, g) /\ FoldLeft(MergeDirConfig, base, s) = g[Len(s)]
  BY MergeSteps, Zenon
<1>2. Len(s) \in 0..Len(s)
  BY LenProperties
<1>3. QED
  BY <1>1, <1>2, MergesType, Zenon

\* Nothing merged changes nothing.
LEMMA FoldEmpty ==
  ASSUME NEW base
  PROVE  FoldLeft(MergeDirConfig, base, <<>>) = base
<1>1. <<>> \in Seq({}) /\ Len(<<>>) = 0
  OBVIOUS
<1>2. PICK g : Merges(base, <<>>, g) /\ FoldLeft(MergeDirConfig, base, <<>>) = g[Len(<<>>)]
  BY <1>1, MergeSteps, Zenon
<1>3. QED
  BY <1>1, <1>2, Zenon DEF Merges

LEMMA MergesUnique ==
  ASSUME NEW S, NEW s \in Seq(S), NEW base, NEW g, NEW h,
         Merges(base, s, g), Merges(base, s, h)
  PROVE  g[Len(s)] = h[Len(s)]
<1> DEFINE N == Len(s)
           G == {n \in 0..N : g[n] = h[n]}
<1>1. N \in Nat
  BY LenProperties
<1>2. /\ g[0] = base /\ h[0] = base
      /\ \A n \in 0..N - 1 : g[n + 1] = MergeDirConfig(g[n], s[n + 1])
      /\ \A n \in 0..N - 1 : h[n + 1] = MergeDirConfig(h[n], s[n + 1])
  BY DEF Merges
<1> HIDE DEF N
<1>3. 0 \in G
  BY <1>1, <1>2
<1>4. ASSUME NEW n \in 0..N - 1, n \in G PROVE n + 1 \in G
  <2>1. g[n] = h[n] /\ n + 1 \in 0..N
    BY <1>1, <1>4
  <2>2. g[n + 1] = h[n + 1]
    BY <1>2, <2>1
  <2>3. QED
    BY <2>1, <2>2
<1> HIDE DEF G
<1>5. \A n \in 0..N : n \in G
  BY <1>1, <1>3, <1>4, Upward
<1>6. QED
  BY <1>1, <1>5 DEF G, N

\* One sequence merged after the other.
LEMMA FoldConcat ==
  ASSUME NEW S, NEW base, NEW s \in Seq(S), NEW t \in Seq(S)
  PROVE  FoldLeft(MergeDirConfig, FoldLeft(MergeDirConfig, base, s), t)
           = FoldLeft(MergeDirConfig, base, s \o t)
<1> DEFINE u == s \o t
           M == Len(s)
           N == Len(t)
           left == FoldLeft(MergeDirConfig, base, s)
<1>1. /\ M \in Nat /\ N \in Nat /\ u \in Seq(S) /\ Len(u) = M + N
      /\ \A n \in 1..M : u[n] = s[n]
      /\ \A n \in 1..N : u[M + n] = t[n]
  BY LenProperties, ConcatProperties
<1>2. PICK g : Merges(base, s, g) /\ left = g[M]
  BY MergeSteps, Zenon
<1>3. PICK h : Merges(left, t, h) /\ FoldLeft(MergeDirConfig, left, t) = h[N]
  BY MergeSteps, Zenon
<1>4. PICK k : Merges(base, u, k) /\ FoldLeft(MergeDirConfig, base, u) = k[Len(u)]
  BY <1>1, MergeSteps, Zenon
<1>5. /\ g[0] = base /\ \A n \in 0..M - 1 : g[n + 1] = MergeDirConfig(g[n], s[n + 1])
      /\ h[0] = left /\ \A n \in 0..N - 1 : h[n + 1] = MergeDirConfig(h[n], t[n + 1])
      /\ k[0] = base /\ \A n \in 0..Len(u) - 1 : k[n + 1] = MergeDirConfig(k[n], u[n + 1])
  BY <1>2, <1>3, <1>4 DEF Merges
<1> HIDE DEF u, M, N, left
<1>6. \A n \in 0..M - 1 : k[n + 1] = MergeDirConfig(k[n], s[n + 1])
  <2>1. ASSUME NEW n \in 0..M - 1
        PROVE  k[n + 1] = MergeDirConfig(k[n], s[n + 1])
    <3>1. n \in 0..Len(u) - 1 /\ n + 1 \in 1..M
      BY <1>1
    <3>2. QED
      BY <1>1, <1>5, <3>1
  <2>2. QED
    BY <2>1
<1>7. k[M] = left
  <2>1. Merges(base, s, k)
    BY <1>5, <1>6 DEF Merges, M
  <2>2. QED
    BY <1>2, <2>1, MergesUnique DEF M
<1> DEFINE l == [n \in 0..N |-> k[M + n]]
<1>8. \A n \in 0..N - 1 : l[n + 1] = MergeDirConfig(l[n], t[n + 1])
  <2>1. ASSUME NEW n \in 0..N - 1
        PROVE  l[n + 1] = MergeDirConfig(l[n], t[n + 1])
    <3>1. M + n \in 0..Len(u) - 1 /\ n + 1 \in 1..N /\ (M + n) + 1 = M + (n + 1)
      BY <1>1
    <3>2. k[(M + n) + 1] = MergeDirConfig(k[M + n], u[(M + n) + 1])
      BY <1>5, <3>1
    <3>3. u[M + (n + 1)] = t[n + 1]
      BY <1>1, <3>1
    <3>4. l[n + 1] = k[M + (n + 1)] /\ l[n] = k[M + n]
      BY <1>1
    <3> HIDE DEF l
    <3>5. QED
      BY <3>1, <3>2, <3>3, <3>4
  <2>2. QED
    BY <2>1
<1>9. l[0] = left /\ l[N] = k[M + N]
  BY <1>1, <1>7
<1> HIDE DEF l
<1>10. l[N] = h[N]
  <2>1. Merges(left, t, l)
    BY <1>8, <1>9 DEF Merges, N
  <2>2. QED
    BY <1>3, <2>1, MergesUnique DEF N
<1>11. QED
  BY <1>1, <1>3, <1>4, <1>9, <1>10 DEF u, left

\* A group merged first.
LEMMA FoldGroup ==
  ASSUME NEW Values, NULL \notin Seq(Values), NEW base \in DirConfigs(Values),
         NEW s \in Seq(DirConfigs(Values)), s # <<>>
  PROVE  MergeDirConfig(base, FoldLeft(MergeDirConfig, Head(s), Tail(s)))
           = FoldLeft(MergeDirConfig, base, s)
<1> DEFINE t == Tail(s)
           N == Len(t)
           C == DirConfigs(Values)
<1>1. /\ Head(s) = s[1] /\ Head(s) \in C /\ t \in Seq(C) /\ N \in Nat /\ Len(s) = N + 1
      /\ \A n \in 1..N : t[n] = s[n + 1]
  BY HeadTailProperties, LenProperties, EmptySeq
<1>2. PICK g : Merges(base, s, g) /\ FoldLeft(MergeDirConfig, base, s) = g[Len(s)]
  BY MergeSteps, Zenon
<1>3. PICK h : Merges(Head(s), t, h) /\ FoldLeft(MergeDirConfig, Head(s), t) = h[N]
  BY <1>1, MergeSteps, Zenon
<1>4. /\ g[0] = base /\ \A n \in 0..Len(s) - 1 : g[n + 1] = MergeDirConfig(g[n], s[n + 1])
      /\ h[0] = Head(s) /\ \A n \in 0..N - 1 : h[n + 1] = MergeDirConfig(h[n], t[n + 1])
  BY <1>2, <1>3 DEF Merges
<1>5. \A n \in 0..N : h[n] \in C
  BY <1>1, <1>3, MergesType
<1>6. \A n \in 1..N : t[n] \in C
  BY <1>1, ElementOfSeq
<1> HIDE DEF t, N, C
<1> DEFINE G == {n \in 0..N : g[n + 1] = MergeDirConfig(base, h[n])}
<1>7. 0 \in G
  <2>1. g[0 + 1] = MergeDirConfig(g[0], s[0 + 1])
    BY <1>1, <1>4
  <2>2. QED
    BY <1>1, <1>4, <2>1
<1>8. ASSUME NEW n \in 0..N - 1, n \in G PROVE n + 1 \in G
  <2>1. /\ n + 1 \in 0..N /\ n + 1 \in 0..Len(s) - 1 /\ n + 1 \in 1..N
        /\ g[n + 1] = MergeDirConfig(base, h[n])
    BY <1>1, <1>8
  <2>2. g[(n + 1) + 1] = MergeDirConfig(g[n + 1], s[(n + 1) + 1])
    BY <1>4, <2>1
  <2>3. s[(n + 1) + 1] = t[n + 1] /\ h[n + 1] = MergeDirConfig(h[n], t[n + 1])
    BY <1>1, <1>4, <2>1
  <2>4. MergeDirConfig(MergeDirConfig(base, h[n]), t[n + 1])
          = MergeDirConfig(base, MergeDirConfig(h[n], t[n + 1]))
    <3>1. h[n] \in C /\ t[n + 1] \in C
      BY <1>1, <1>5, <1>6, <2>1
    <3>2. QED
      BY <3>1, MergeDirConfigAssociative DEF C
  <2>5. g[(n + 1) + 1] = MergeDirConfig(base, h[n + 1])
    BY <2>1, <2>2, <2>3, <2>4, Zenon
  <2>6. QED
    BY <2>1, <2>5
<1> HIDE DEF G
<1>9. N \in G
  <2>1. \A n \in 0..N : n \in G
    BY <1>1, <1>7, <1>8, Upward
  <2>2. QED
    BY <1>1, <2>1
<1>10. g[N + 1] = MergeDirConfig(base, h[N])
  BY <1>9 DEF G
<1>11. QED
  BY <1>1, <1>2, <1>3, <1>10 DEF t

\* However Apache groups the sections, a walk merges them one by one.
THEOREM WalkIsFold ==
  ASSUME NEW Values, NULL \notin Seq(Values), NEW base \in DirConfigs(Values),
         NEW s \in Seq(DirConfigs(Values))
  PROVE  Walk(base, s) = FoldLeft(MergeDirConfig, base, s)
<1>1. CASE s = <<>>
  BY <1>1, FoldEmpty, Zenon DEF Walk
<1>2. CASE s # <<>>
  BY <1>2, FoldGroup, Zenon DEF Walk
<1>3. QED
  BY <1>1, <1>2

-----------------------------------------------------------------------------
(* Names, and the values of variables.                                     *)

LEMMA Names ==
  /\ AllScopes = {"main", "vhost", "htaccess"} \cup Sections
  /\ "merged" \notin AllScopes /\ "lib" \notin AllScopes /\ "passed" \notin AllScopes
  /\ NULL \notin AllScopes /\ NULL \notin Seq(AllScopes) /\ NULL # "lib" /\ NULL # "passed"
  /\ \A s \in Sections : s \notin {"main", "vhost", "htaccess", "merged"}
BY ConfigurationAssumption DEF AllScopes

LEMMA CreateTypes ==
  ASSUME NEW Values
  PROVE  /\ CreateServerConfig \in ServerConfigs(Values)
         /\ \A level \in Int : CreateDirConfig(level) \in DirConfigs(Values)
<1>1. <<>> \in Seq(Values) /\ <<>> \in Seq(Values \cup {"passed"})
  BY EmptySeq
<1>2. CreateServerConfig \in ServerConfigs(Values)
  BY <1>1 DEF CreateServerConfig, ServerConfigs, Lists, Settings
<1>3. [p \in Phases |-> NULL] \in [Phases -> Lists(Values)]
  BY DEF Lists
<1>4. ASSUME NEW level \in Int
      PROVE  CreateDirConfig(level) \in DirConfigs(Values)
  BY <1>1, <1>3 DEF CreateDirConfig, DirConfigs, Lists, Settings
<1>5. QED
  BY <1>2, <1>4

LEMMA PushedType ==
  ASSUME NEW Values, NEW a \in Lists(Values), NEW x \in Values
  PROVE  Pushed(a, x) \in Lists(Values)
<1>1. <<x>> \in Seq(Values)
  OBVIOUS
<1>2. CASE a = NULL
  BY <1>1, <1>2 DEF Pushed, Lists
<1>3. CASE a # NULL
  <2>1. a \in Seq(Values)
    BY <1>3 DEF Lists
  <2>2. Append(a, x) \in Seq(Values)
    BY <2>1, AppendProperties
  <2>3. QED
    BY <1>3, <2>2, Zenon DEF Pushed, Lists
<1>4. QED
  BY <1>2, <1>3

LEMMA MergeServerConfigType ==
  ASSUME NEW Values, NULL \notin Seq(Values),
         NEW a \in ServerConfigs(Values), NEW b \in ServerConfigs(Values)
  PROVE  MergeServerConfig(a, b) \in ServerConfigs(Values)
<1>1. MergePath(a.load_path, b.load_path) \in Lists(Values)
  BY MergePathType DEF ServerConfigs
<1>2. Overlay(a.env, b.env) \in Seq(Values \cup {"passed"})
  BY OverlayAssociative DEF ServerConfigs
<1>3. Over(a.timeout, b.timeout) \in Settings(Values)
  BY DEF Over, ServerConfigs
<1>4. MergeFlag(a.restrict_directives, b.restrict_directives) \in BOOLEAN
  BY DEF MergeFlag, ServerConfigs
<1>5. QED
  BY <1>1, <1>2, <1>3, <1>4 DEF MergeServerConfig, ServerConfigs

LEMMA PathTypes ==
  ASSUME NEW Values, NULL \notin Seq(Values), NEW c, c.load_path \in Lists(Values)
  PROVE  PathOf(c) \in Seq(Values)
<1>1. <<>> \in Seq(Values)
  BY EmptySeq
<1>2. QED
  BY <1>1 DEF PathOf, Lists

-----------------------------------------------------------------------------
(* The order of phases.                                                    *)

LEMMA OrderFacts ==
  /\ Len(Order) = 16 /\ DOMAIN Order = 1..16
  /\ Order[1] = "read" /\ Order[2] = "init" /\ Order[3] = "post_read" /\ Order[4] = "trans"
  /\ Order[5] = "htaccess" /\ Order[6] = "late_init" /\ Order[7] = "header_parser"
  /\ Order[8] = "access" /\ Order[9] = "authen" /\ Order[10] = "authz" /\ Order[11] = "type"
  /\ Order[12] = "fixup" /\ Order[13] = "handler" /\ Order[14] = "log" /\ Order[15] = "cleanup"
  /\ Order[16] = "none"
BY DEF Order

LEMMA OrderDiffers ==
  \A i, j \in 1..16 : Order[i] = Order[j] => i = j
<1>1. ASSUME NEW i \in 1..16
      PROVE  \/ i = 1 \/ i = 2 \/ i = 3 \/ i = 4 \/ i = 5 \/ i = 6 \/ i = 7 \/ i = 8
             \/ i = 9 \/ i = 10 \/ i = 11 \/ i = 12 \/ i = 13 \/ i = 14 \/ i = 15 \/ i = 16
  OBVIOUS
<1>2. QED
  BY <1>1, OrderFacts

LEMMA OrderSet ==
  ToSet(Order) = Phases \cup {"read", "htaccess", "late_init", "none"}
<1>1. ToSet(Order) = {Order[i] : i \in 1..16}
  BY OrderFacts DEF ToSet
<1>2. \A i \in 1..16 : Order[i] \in Phases \cup {"read", "htaccess", "late_init", "none"}
  BY OrderFacts DEF Phases
<1>3. \A p \in Phases \cup {"read", "htaccess", "late_init", "none"} : \E i \in 1..16 : p = Order[i]
  BY OrderFacts DEF Phases
<1>4. QED
  BY <1>1, <1>2, <1>3

\* Whether a request stops at a phase, as Follows has it.
StopsAt(p, dconf) ==
  \/ p \in {"trans", "htaccess", "none"}
  \/ p \in Phases \ {"cleanup"} /\ dconf.handlers[p] # NULL
     /\ (p = "header_parser" => ~ apache2)
  \/ p = "cleanup" /\ CleanupConfig(dconf).handlers[p] # NULL
  \/ p = "late_init" /\ dconf.handlers["init"] # NULL /\ RunsLateInit

LEMMA MinFact ==
  ASSUME NEW T \in SUBSET Nat, T # {}
  PROVE  Min(T) \in T /\ \A k \in T : Min(T) <= k
<1>1. \E m \in T : \A k \in T : m <= k
  BY LeastNumber
<1>2. QED
  BY <1>1 DEF Min

\* The phase that follows one is the next at which the request stops.
LEMMA FollowsFact ==
  ASSUME NEW k \in 1..15, NEW dconf
  PROVE  \E j \in k + 1..16 : /\ Follows(Order[k], dconf) = Order[j]
                              /\ StopsAt(Order[j], dconf)
                              /\ \A i \in k + 1..j - 1 : ~ StopsAt(Order[i], dconf)
<1> DEFINE at == SelectInSeq(Order, LAMBDA p : p = Order[k])
           after == SubSeq(Order, k + 1, 16)
           T == {i \in 1..Len(after) : StopsAt(after[i], dconf)}
<1>1. at = k
  <2> DEFINE I == {i \in 1..Len(Order) : Order[i] = Order[k]}
  <2>1. I = {k}
    BY OrderFacts, OrderDiffers
  <2>2. at = IF I # {} THEN Min(I) ELSE 0
    BY Zenon DEF SelectInSeq
  <2>3. Min({k}) = k
    <3>1. {k} \in SUBSET Nat /\ {k} # {}
      OBVIOUS
    <3>2. QED
      BY <3>1, MinFact
  <2> HIDE DEF I, at
  <2>4. QED
    BY <2>1, <2>2, <2>3
<1>2. /\ Len(after) = 16 - k
      /\ \A i \in 1..16 - k : after[i] = Order[k + i]
  <2>1. \A i \in k + 1..16 : Order[i] \in {Order[n] : n \in 1..16}
    OBVIOUS
  <2>2. /\ Len(after) = IF k + 1 <= 16 THEN 16 - (k + 1) + 1 ELSE 0
        /\ \A i \in 1..16 - (k + 1) + 1 : after[i] = Order[(k + 1) + i - 1]
    BY <2>1, SubSeqProperties
  <2> HIDE DEF after
  <2>3. QED
    BY <2>2
<1>3. Follows(Order[k], dconf) = after[IF T # {} THEN Min(T) ELSE 0]
  <2>1. Follows(Order[k], dconf) =
          LET a == SubSeq(Order, at + 1, Len(Order))
          IN  a[IF {i \in 1..Len(a) : StopsAt(a[i], dconf)} # {}
                THEN Min({i \in 1..Len(a) : StopsAt(a[i], dconf)}) ELSE 0]
    BY Zenon DEF Follows, SelectInSeq, StopsAt
  <2> HIDE DEF at
  <2>2. QED
    BY <1>1, <2>1, OrderFacts, Zenon
<1> HIDE DEF after
<1>4. T \in SUBSET Nat /\ 16 - k \in T
  <2>1. 16 - k \in 1..Len(after) /\ after[16 - k] = Order[16]
    BY <1>2
  <2>2. StopsAt("none", dconf)
    BY DEF StopsAt
  <2>3. QED
    BY <2>1, <2>2, OrderFacts
<1>5. Min(T) \in T /\ \A i \in T : Min(T) <= i
  BY <1>4, MinFact
<1> DEFINE m == Min(T)
<1>6. /\ m \in 1..16 - k
      /\ StopsAt(after[m], dconf)
      /\ \A i \in 1..m - 1 : ~ StopsAt(after[i], dconf)
      /\ Follows(Order[k], dconf) = after[m]
  <2>1. T # {}
    BY <1>4
  <2>2. m \in 1..16 - k /\ StopsAt(after[m], dconf)
    BY <1>2, <1>5
  <2>3. Follows(Order[k], dconf) = after[m]
    <3> HIDE DEF T
    <3>1. QED
      BY <1>3, <2>1
  <2>4. ASSUME NEW i \in 1..m - 1, StopsAt(after[i], dconf) PROVE FALSE
    <3>1. i \in T
      BY <1>2, <2>2, <2>4
    <3> HIDE DEF T
    <3>2. QED
      BY <1>5, <2>2, <3>1
  <2>5. QED
    BY <2>2, <2>3, <2>4
<1> HIDE DEF m, T
<1> DEFINE j == k + m
<1>7. j \in k + 1..16 /\ after[m] = Order[j]
  BY <1>2, <1>6
<1>8. ASSUME NEW i \in k + 1..j - 1
      PROVE  ~ StopsAt(Order[i], dconf)
  <2>1. i - k \in 1..m - 1 /\ i - k \in 1..16 - k /\ k + (i - k) = i
    BY <1>6
  <2>2. QED
    BY <1>2, <1>6, <2>1
<1> HIDE DEF j
<1>9. QED
  BY <1>6, <1>7, <1>8

-----------------------------------------------------------------------------
(* What Those keeps.                                                       *)

LEMMA ThoseElements ==
  ASSUME NEW A, NEW s \in Seq(A), NEW S
  PROVE  /\ Those(s, S) \in Seq(A)
         /\ ToSet(Those(s, S)) = ToSet(s) \cap S
<1> DEFINE N == Len(s)
           Upto(n) == {s[i] : i \in 1..n}
<1>1. PICK t : Keeps(S, s, t) /\ Those(s, S) = t[Len(s)]
  BY ThoseSteps, Zenon
<1>2. /\ N \in Nat /\ DOMAIN s = 1..N /\ \A n \in 1..N : s[n] \in A
      /\ t[0] = <<>> /\ \A n \in 0..N - 1 : t[n + 1] = Keep(S, t[n], s[n + 1])
  BY <1>1, LenProperties DEF Keeps
<1> HIDE DEF N
<1> DEFINE G == {n \in 0..N : t[n] \in Seq(A) /\ ToSet(t[n]) = Upto(n) \cap S}
<1>3. 0 \in G
  <2>1. <<>> \in Seq(A) /\ ToSet(<<>>) = {}
    BY EmptySeq DEF ToSet
  <2>2. Upto(0) = {}
    OBVIOUS
  <2>3. t[0] \in Seq(A) /\ ToSet(t[0]) = Upto(0) \cap S
    <3> HIDE DEF Upto
    <3>1. QED
      BY <1>2, <2>1, <2>2
  <2>4. 0 \in 0..N
    BY <1>2
  <2> HIDE DEF Upto
  <2>5. QED
    BY <2>3, <2>4
<1>4. ASSUME NEW n \in 0..N - 1, n \in G PROVE n + 1 \in G
  <2>1. t[n] \in Seq(A) /\ ToSet(t[n]) = Upto(n) \cap S /\ n + 1 \in 1..N /\ n + 1 \in 0..N
    BY <1>2, <1>4
  <2>2. Upto(n + 1) = Upto(n) \cup {s[n + 1]}
    BY <1>2
  <2>3. t[n + 1] = Keep(S, t[n], s[n + 1]) /\ s[n + 1] \in A
    BY <1>2, <2>1
  <2>4. CASE s[n + 1] \in S
    <3> DEFINE u == Append(t[n], s[n + 1])
    <3>1. u \in Seq(A) /\ ToSet(u) = ToSet(t[n]) \cup {s[n + 1]}
      <4> DEFINE v == t[n]
                 e == s[n + 1]
      <4>1. v \in Seq(A) /\ e \in A
        BY <2>1, <2>3
      <4> HIDE DEF v, e
      <4>2. /\ Append(v, e) \in Seq(A) /\ Len(Append(v, e)) = Len(v) + 1 /\ Len(v) \in Nat
            /\ \A i \in 1..Len(v) : Append(v, e)[i] = v[i]
            /\ Append(v, e)[Len(v) + 1] = e
            /\ DOMAIN v = 1..Len(v) /\ DOMAIN Append(v, e) = 1..Len(Append(v, e))
        BY <4>1, AppendProperties, LenProperties
      <4>3. ToSet(Append(v, e)) = ToSet(v) \cup {e}
        BY <4>2 DEF ToSet
      <4>4. QED
        BY <4>2, <4>3 DEF v, e
    <3>2. t[n + 1] = u
      BY <2>3, <2>4 DEF Keep
    <3> HIDE DEF u
    <3>3. ToSet(u) = Upto(n + 1) \cap S
      <4> HIDE DEF Upto
      <4>1. QED
        BY <2>1, <2>2, <2>4, <3>1
    <3>4. QED
      BY <2>1, <3>1, <3>2, <3>3
  <2>5. CASE s[n + 1] \notin S
    <3>1. t[n + 1] = t[n]
      BY <2>3, <2>5 DEF Keep
    <3>2. Upto(n) \cap S = Upto(n + 1) \cap S
      <4> HIDE DEF Upto
      <4>1. QED
        BY <2>2, <2>5
    <3>3. QED
      BY <2>1, <3>1, <3>2
  <2>6. QED
    BY <2>4, <2>5
<1> HIDE DEF G
<1>5. \A n \in 0..N : n \in G
  BY <1>2, <1>3, <1>4, Upward
<1>6. t[N] \in Seq(A) /\ ToSet(t[N]) = Upto(N) \cap S
  <2>1. N \in G
    BY <1>2, <1>5
  <2>2. QED
    BY <2>1 DEF G
<1>7. ToSet(s) = Upto(N)
  BY <1>2 DEF ToSet
<1>8. QED
  BY <1>1, <1>6, <1>7 DEF N

\* The elements of a sequence.
LEMMA SetFacts ==
  ASSUME NEW A, NEW s \in Seq(A)
  PROVE  /\ \A i \in DOMAIN s : s[i] \in ToSet(s) /\ s[i] \in A
         /\ \A x \in ToSet(s) : x \in A /\ \E i \in DOMAIN s : s[i] = x
BY LenProperties DEF ToSet

LEMMA ConcatElements ==
  ASSUME NEW A, NEW s \in Seq(A), NEW t \in Seq(A)
  PROVE  s \o t \in Seq(A) /\ ToSet(s \o t) = ToSet(s) \cup ToSet(t)
<1> DEFINE u == s \o t
           M == Len(s)
           N == Len(t)
<1>1. /\ M \in Nat /\ N \in Nat /\ u \in Seq(A) /\ DOMAIN u = 1..M + N
      /\ DOMAIN s = 1..M /\ DOMAIN t = 1..N
      /\ \A n \in 1..M : u[n] = s[n]
      /\ \A n \in 1..N : u[M + n] = t[n]
  BY LenProperties, ConcatProperties
<1> HIDE DEF u, M, N
<1>2. ASSUME NEW x \in ToSet(u) PROVE x \in ToSet(s) \cup ToSet(t)
  <2>1. PICK i \in 1..M + N : x = u[i]
    BY <1>1 DEF ToSet
  <2>2. CASE i <= M
    BY <1>1, <2>1, <2>2 DEF ToSet
  <2>3. CASE i > M
    <3>1. i - M \in 1..N /\ M + (i - M) = i
      BY <1>1, <2>1, <2>3
    <3>2. x = t[i - M]
      BY <1>1, <2>1, <3>1
    <3>3. QED
      BY <1>1, <3>1, <3>2 DEF ToSet
  <2>4. QED
    BY <1>1, <2>2, <2>3
<1>3. ASSUME NEW x \in ToSet(s) PROVE x \in ToSet(u)
  <2>1. PICK i \in 1..M : x = s[i]
    BY <1>1 DEF ToSet
  <2>2. QED
    BY <1>1, <2>1 DEF ToSet
<1>4. ASSUME NEW x \in ToSet(t) PROVE x \in ToSet(u)
  <2>1. PICK i \in 1..N : x = t[i]
    BY <1>1 DEF ToSet
  <2>2. M + i \in DOMAIN u /\ x = u[M + i]
    BY <1>1, <2>1
  <2>3. QED
    BY <2>2 DEF ToSet
<1>5. QED
  BY <1>1, <1>2, <1>3, <1>4 DEF u

LEMMA AppendElements ==
  ASSUME NEW A, NEW s \in Seq(A), NEW e \in A
  PROVE  /\ Append(s, e) \in Seq(A)
         /\ DOMAIN Append(s, e) = DOMAIN s \cup {Len(s) + 1} /\ Len(s) + 1 \notin DOMAIN s
         /\ Append(s, e)[Len(s) + 1] = e
         /\ \A i \in DOMAIN s : Append(s, e)[i] = s[i]
<1>1. /\ Append(s, e) \in Seq(A) /\ Len(Append(s, e)) = Len(s) + 1 /\ Len(s) \in Nat
      /\ \A i \in 1..Len(s) : Append(s, e)[i] = s[i]
      /\ Append(s, e)[Len(s) + 1] = e
      /\ DOMAIN s = 1..Len(s) /\ DOMAIN Append(s, e) = 1..Len(Append(s, e))
  BY AppendProperties, LenProperties
<1>2. QED
  BY <1>1

-----------------------------------------------------------------------------
(* The types, and which scopes have configurations.                        *)

Structure ==
  /\ {"main", current} \subseteq DOMAIN dir_config
  /\ DOMAIN dir_config \cap Sections = Open
  /\ Len(sections) <= Len(SectionNames)
  /\ \A i \in DOMAIN sections : /\ sections[i].name = SectionNames[i]
                                /\ sections[i].server \in DOMAIN dir_config
  /\ "merged" \in DOMAIN dir_config <=> stage # "reading" /\ "vhost" \in DOMAIN dir_config
  /\ stage # "reading" => current \in {"main", "htaccess"}
  /\ "htaccess" \in DOMAIN dir_config => stage = "serving"
  /\ stage # "serving" =>
       /\ r = NoRequest
       /\ server_config["main"].load_path # NULL /\ server_config["vhost"].load_path # NULL
  /\ r.server \in DOMAIN dir_config /\ r.within \subseteq Open
  /\ \A i \in DOMAIN required : required[i] \in DOMAIN dir_config \ {"htaccess"}
  /\ r.phase # "none" => r.dconf \in DirConfigs(AllScopes)
  /\ ruby.kcode = NULL

Sound == TypeOK /\ Structure

SectionRecords == [name : Sections, server : {"main", "vhost"}, kind : {"Directory", "Location"}]
LineRecords ==
  [scope : AllScopes, directive : Directives, level : Int \cup {NULL}, early : BOOLEAN]
LibraryRecords == [library : AllScopes, path : Paths]
RunRecords == [phase : Phases \cup {"late_init"}, scope : AllScopes]
RubyRecords == [load_path : Paths, default_load_path : Paths, kcode : Settings(AllScopes)]

LEMMA InitSound == Init => Sound
<1> SUFFICES ASSUME Init PROVE Sound
  OBVIOUS
<1>1. \A S : <<>> \in Seq(S)
  BY EmptySeq
<1>2. /\ CreateServerConfig \in ServerConfigs(AllScopes)
      /\ CreateDirConfig(1) \in DirConfigs(AllScopes)
      /\ CreateServerConfig.load_path = <<>>
  <2>1. CreateServerConfig.load_path = <<>>
    BY DEF CreateServerConfig
  <2>2. CreateServerConfig \in ServerConfigs(AllScopes)
    BY CreateTypes
  <2>3. CreateDirConfig(1) \in DirConfigs(AllScopes)
    BY CreateTypes
  <2>4. QED
    BY <2>1, <2>2, <2>3
<1>3. dir_config = [s \in {"main"} |-> CreateDirConfig(1)] /\ sections = <<>>
  BY DEF Init
<1>4. Open = {} /\ Len(sections) = 0 /\ DOMAIN sections = {} /\ DOMAIN required = {}
  BY DEF Init, Open, ToSet
<1>5. TypeOK
  <2>1. r \in [phase : ToSet(Order), count : Nat, server : {"main", "vhost"},
               within : SUBSET Sections, dconf : DirConfigs(AllScopes) \cup {NULL},
               ruby_init_ran : BOOLEAN, object : BOOLEAN, output_mode : Settings(AllScopes)]
    BY OrderSet DEF Init, NoRequest, Settings
  <2>2. last \in [phase : ToSet(Order), load_path : Paths, kcode : Settings(AllScopes),
                  env : Settings(AllScopes) \cup {"passed"}, safe_level : Int,
                  timeout : Settings(AllScopes), output_mode : Settings(AllScopes)]
    BY <1>1, OrderSet DEF Init, Nothing, Settings, Paths
  <2>3. ruby \in RubyRecords
    BY <1>1 DEF Init, Paths, Settings, RubyRecords
  <2>4. /\ DOMAIN dir_config = {"main"}
        /\ dir_config \in [DOMAIN dir_config -> DirConfigs(AllScopes)]
    BY <1>2, <1>3
  <2>5. server_config \in [{"main", "vhost", "merged"} -> ServerConfigs(AllScopes)]
    BY <1>2 DEF Init
  <2>6. /\ apache2 \in BOOLEAN /\ topic \in Topics /\ stage = "reading" /\ current = "main"
        /\ default_safe_level \in Int
        /\ \A S : sections \in Seq(S) /\ required \in Seq(S) /\ written \in Seq(S)
                  /\ loaded \in Seq(S) /\ ran \in Seq(S)
    BY <1>1 DEF Init
  <2>7. QED
    BY <2>1, <2>2, <2>3, <2>4, <2>5, <2>6 DEF TypeOK, AllScopes, RubyRecords
<1>6. Structure
  <2>1. NULL # <<>>
    BY EmptySeq, Names
  <2>2. server_config["main"].load_path # NULL /\ server_config["vhost"].load_path # NULL
    BY <1>2, <2>1 DEF Init
  <2>3. /\ r.server = "main" /\ r.within = {} /\ r.phase = "none" /\ ruby.kcode = NULL
        /\ r = NoRequest
    BY DEF Init, NoRequest
  <2>4. DOMAIN dir_config \cap Sections = {}
    BY <1>3, Names
  <2>5. Len(SectionNames) \in Nat
    BY LenProperties, ConfigurationAssumption
  <2>6. /\ DOMAIN dir_config = {"main"} /\ stage = "reading" /\ current = "main"
    BY <1>3 DEF Init
  <2> HIDE DEF NoRequest
  <2>7. QED
    BY <1>4, <2>2, <2>3, <2>4, <2>5, <2>6 DEF Structure
<1>7. QED
  BY <1>5, <1>6 DEF Sound

-----------------------------------------------------------------------------
(* Directives.                                                             *)

Servers == {"main", "vhost", "merged"}

\* What TypeOK and Structure say, apart from requests.
LEMMA SoundFacts ==
  ASSUME Sound
  PROVE  /\ current \in DOMAIN dir_config /\ current \in AllScopes /\ "main" \in DOMAIN dir_config
         /\ dir_config \in [DOMAIN dir_config -> DirConfigs(AllScopes)]
         /\ \A s \in DOMAIN dir_config : dir_config[s] \in DirConfigs(AllScopes)
         /\ server_config \in [Servers -> ServerConfigs(AllScopes)]
         /\ \A s \in Servers : server_config[s] \in ServerConfigs(AllScopes)
         /\ DOMAIN dir_config \subseteq AllScopes \cup {"merged"}
         /\ required \in Seq(AllScopes) /\ loaded \in Seq(LibraryRecords)
         /\ \A i \in DOMAIN required : required[i] \in DOMAIN dir_config \ {"htaccess"}
         /\ ruby \in RubyRecords /\ ruby.kcode = NULL /\ default_safe_level \in Int
         /\ stage \in {"reading", "starting", "serving"}
         /\ stage # "serving" => /\ "htaccess" \notin DOMAIN dir_config /\ r = NoRequest
                                 /\ server_config["main"].load_path \in Seq(AllScopes)
                                 /\ server_config["vhost"].load_path \in Seq(AllScopes)
BY Names DEF Sound, TypeOK, Structure, Servers, ServerConfigs, Lists, LibraryRecords, RubyRecords

\* Lines are read from the file, or from a .htaccess file for a request.
LEMMA WhereLines ==
  ASSUME Sound, NEW d, NEW l, Line(d, l)
  PROVE  \/ stage = "reading" /\ current # "htaccess"
         \/ stage = "serving" /\ current = "htaccess" /\ r.phase = "htaccess"
<1>1. NoRequest.phase = "none"
  BY DEF NoRequest
<1>2. CASE stage = "reading" /\ Len(written) < MaxLines
  BY <1>2, SoundFacts
<1>3. CASE r.phase = "htaccess" /\ current = "htaccess" /\ Cardinality(InScope("htaccess")) < MaxHtaccess
  <2>1. stage = "serving"
    BY <1>1, <1>3, SoundFacts
  <2>2. QED
    BY <1>3, <2>1
<1>4. QED
  BY <1>2, <1>3 DEF Line

DirectiveTaken ==
  /\ \E d \in Directives, l \in Int \cup {NULL} : Allowed(d, l)
  /\ dir_config' \in [DOMAIN dir_config -> DirConfigs(AllScopes)]
  /\ server_config' \in [Servers -> ServerConfigs(AllScopes)]
  /\ \A s \in {"main", "vhost"} :
       server_config[s].load_path # NULL => server_config'[s].load_path # NULL
  /\ default_safe_level' \in Int
  /\ required' \in Seq(AllScopes)
  /\ \A i \in DOMAIN required' : required'[i] \in DOMAIN dir_config \ {"htaccess"}
  /\ ruby' \in RubyRecords /\ ruby'.kcode = ruby.kcode
  /\ loaded' \in Seq(LibraryRecords)

LEMMA DirSettingTaken ==
  ASSUME Sound, NEW d \in Directives, NEW conf \in DirConfigs(AllScopes), DirSetting(d, conf)
  PROVE  DirectiveTaken
<1>1. /\ Allowed(d, NULL) /\ dir_config' = [dir_config EXCEPT ![current] = conf]
      /\ UNCHANGED <<default_safe_level, server_config, required, ruby, loaded>>
  BY DEF DirSetting
<1>2. dir_config' \in [DOMAIN dir_config -> DirConfigs(AllScopes)]
  BY <1>1, SoundFacts
<1>3. QED
  BY <1>1, <1>2, SoundFacts DEF DirectiveTaken

LEMMA ServerSettingTaken ==
  ASSUME Sound, NEW d \in Directives, NEW conf \in ServerConfigs(AllScopes),
         current \in {"main", "vhost"} => conf.load_path # NULL \/ server_config[current].load_path = NULL,
         ServerSetting(d, conf)
  PROVE  DirectiveTaken
<1>1. /\ Allowed(d, NULL) /\ server_config' = [server_config EXCEPT ![current] = conf]
      /\ current \in {"main", "vhost"}
      /\ UNCHANGED <<default_safe_level, dir_config, required, ruby, loaded>>
  BY DEF ServerSetting, IsServer
<1>2. server_config' \in [Servers -> ServerConfigs(AllScopes)]
  BY <1>1, SoundFacts DEF Servers
<1>3. \A s \in {"main", "vhost"} :
        server_config'[s].load_path # NULL \/ server_config[s].load_path = NULL
  BY <1>1, SoundFacts DEF Servers
<1>4. QED
  BY <1>1, <1>2, <1>3, SoundFacts DEF DirectiveTaken

LEMMA SettingsTaken ==
  ASSUME Sound, \/ RubyKanjiCode \/ RubyOutputMode \/ RubyTimeOut \/ RubyRestrictDirectives
                \/ RubyPassEnv \/ RubyAddPath \/ \E phase \in Phases : RubyHandler(phase)
  PROVE  DirectiveTaken
<1> DEFINE c == dir_config[current]
           sc == server_config[current]
<1>1. c \in DirConfigs(AllScopes) /\ current \in AllScopes
  BY SoundFacts
<1>2. current \in {"main", "vhost"} => sc \in ServerConfigs(AllScopes)
  BY SoundFacts DEF Servers
<1>3. <<current>> \in Seq(AllScopes) /\ <<"passed">> \in Seq(AllScopes \cup {"passed"})
  BY <1>1
<1>4. Phases \subseteq Directives /\ {"RubySafeLevel", "RubyAddPath", "RubyRequire", "RubyKanjiCode",
         "RubyOutputMode", "RubyRestrictDirectives", "RubySetEnv", "RubyPassEnv", "RubyTimeOut"}
           \subseteq Directives
  BY DEF Directives
<1> HIDE DEF c, sc
<1>5. CASE RubyKanjiCode
  <2>1. [c EXCEPT !.kcode = current] \in DirConfigs(AllScopes)
    BY <1>1 DEF DirConfigs, Settings
  <2>2. QED
    BY <1>4, <1>5, <2>1, DirSettingTaken DEF RubyKanjiCode, c
<1>6. CASE RubyOutputMode
  <2>1. [c EXCEPT !.output_mode = current] \in DirConfigs(AllScopes)
    BY <1>1 DEF DirConfigs, Settings
  <2>2. QED
    BY <1>4, <1>6, <2>1, DirSettingTaken DEF RubyOutputMode, c
<1>7. CASE RubyTimeOut
  <2> DEFINE e == [sc EXCEPT !.timeout = current]
  <2>0. ServerSetting("RubyTimeOut", e)
    BY <1>7 DEF RubyTimeOut, sc
  <2>1. CASE current \in {"main", "vhost"}
    <3>1. e \in ServerConfigs(AllScopes) /\ e.load_path = sc.load_path
      BY <1>1, <1>2, <2>1 DEF ServerConfigs, Settings
    <3> HIDE DEF e
    <3>2. QED
      BY <1>4, <2>0, <3>1, ServerSettingTaken DEF sc
  <2>2. QED
    BY <2>0, <2>1 DEF ServerSetting, IsServer
<1>8. CASE RubyRestrictDirectives
  <2> DEFINE e == [sc EXCEPT !.restrict_directives = TRUE]
  <2>0. ServerSetting("RubyRestrictDirectives", e)
    BY <1>8 DEF RubyRestrictDirectives, sc
  <2>1. CASE current \in {"main", "vhost"}
    <3>1. e \in ServerConfigs(AllScopes) /\ e.load_path = sc.load_path
      BY <1>1, <1>2, <2>1 DEF ServerConfigs, Settings
    <3> HIDE DEF e
    <3>2. QED
      BY <1>4, <2>0, <3>1, ServerSettingTaken DEF sc
  <2>2. QED
    BY <2>0, <2>1 DEF ServerSetting, IsServer
<1>9. CASE RubyPassEnv
  <2> DEFINE e == [sc EXCEPT !.env = <<"passed">>]
  <2>0. ServerSetting("RubyPassEnv", e)
    BY <1>9 DEF RubyPassEnv, sc
  <2>1. CASE current \in {"main", "vhost"}
    <3>1. e \in ServerConfigs(AllScopes) /\ e.load_path = sc.load_path
      BY <1>1, <1>2, <1>3, <2>1 DEF ServerConfigs, Settings
    <3> HIDE DEF e
    <3>2. QED
      BY <1>4, <2>0, <3>1, ServerSettingTaken DEF sc
  <2>2. QED
    BY <2>0, <2>1 DEF ServerSetting, IsServer
<1>10. CASE RubyAddPath
  <2>1. CASE IsServer(current)
    <3> DEFINE e == [sc EXCEPT !.load_path = Append(@, current)]
    <3>1. ServerSetting("RubyAddPath", e) /\ current \in {"main", "vhost"}
      BY <1>10, <2>1 DEF RubyAddPath, IsServer, sc
    <3>2. stage # "serving"
      BY <3>1, WhereLines DEF ServerSetting, Allowed
    <3>3. sc.load_path \in Seq(AllScopes)
      BY <3>1, <3>2, SoundFacts DEF sc
    <3>4. Append(sc.load_path, current) \in Seq(AllScopes)
      BY <1>1, <3>3, AppendProperties
    <3>5. Append(sc.load_path, current) # NULL
      BY <3>4, Names
    <3>6. e \in ServerConfigs(AllScopes) /\ e.load_path # NULL
      BY <1>2, <3>1, <3>4, <3>5 DEF ServerConfigs, Lists
    <3> HIDE DEF e
    <3>7. QED
      BY <1>4, <3>1, <3>6, ServerSettingTaken
  <2>2. CASE ~ IsServer(current)
    <3> DEFINE e == [c EXCEPT !.load_path = Pushed(@, current)]
    <3>1. DirSetting("RubyAddPath", e)
      BY <1>10, <2>2 DEF RubyAddPath, c
    <3>2. Pushed(c.load_path, current) \in Lists(AllScopes)
      BY <1>1, PushedType DEF DirConfigs
    <3>3. e \in DirConfigs(AllScopes)
      BY <1>1, <3>2 DEF DirConfigs
    <3> HIDE DEF e
    <3>4. QED
      BY <1>4, <3>1, <3>3, DirSettingTaken
  <2>3. QED
    BY <2>1, <2>2
<1>11. ASSUME NEW phase \in Phases, RubyHandler(phase)
       PROVE  DirectiveTaken
  <2> DEFINE e == [c EXCEPT !.handlers[phase] = Pushed(@, current)]
  <2>1. DirSetting(phase, e)
    BY <1>11 DEF RubyHandler, c
  <2>2. Pushed(c.handlers[phase], current) \in Lists(AllScopes)
    BY <1>1, PushedType DEF DirConfigs
  <2>3. e \in DirConfigs(AllScopes)
    BY <1>1, <2>2 DEF DirConfigs
  <2> HIDE DEF e
  <2>4. QED
    BY <1>4, <2>1, <2>3, DirSettingTaken
<1>12. QED
  BY <1>5, <1>6, <1>7, <1>8, <1>9, <1>10, <1>11

LEMMA SetEnvTaken ==
  ASSUME Sound, RubySetEnv
  PROVE  DirectiveTaken
<1>1. /\ Allowed("RubySetEnv", NULL)
      /\ dir_config' = [dir_config EXCEPT ![current].env = <<current>>]
      /\ server_config' = IF IsServer(current)
           THEN [server_config EXCEPT ![current].env = <<current>>] ELSE server_config
      /\ UNCHANGED <<default_safe_level, required, ruby, loaded>>
  BY DEF RubySetEnv
<1>2. <<current>> \in Seq(AllScopes) /\ <<current>> \in Seq(AllScopes \cup {"passed"})
  BY SoundFacts
<1>3. dir_config' \in [DOMAIN dir_config -> DirConfigs(AllScopes)]
  <2> DEFINE e == [dir_config[current] EXCEPT !.env = <<current>>]
  <2>1. e \in DirConfigs(AllScopes)
    <3>1. dir_config[current] \in DirConfigs(AllScopes)
      BY SoundFacts
    <3>2. QED
      BY <1>2, <3>1 DEF DirConfigs
  <2>2. dir_config' = [dir_config EXCEPT ![current] = e]
    BY <1>1
  <2> HIDE DEF e
  <2>3. QED
    BY <2>1, <2>2, SoundFacts
<1>4. /\ server_config' \in [Servers -> ServerConfigs(AllScopes)]
      /\ \A s \in {"main", "vhost"} : server_config'[s].load_path = server_config[s].load_path
  <2>1. CASE IsServer(current)
    <3> DEFINE e == [server_config[current] EXCEPT !.env = <<current>>]
    <3>1. e \in ServerConfigs(AllScopes) /\ e.load_path = server_config[current].load_path
      <4>1. server_config[current] \in ServerConfigs(AllScopes)
        BY <2>1, SoundFacts DEF IsServer, Servers
      <4>2. QED
        BY <1>2, <4>1 DEF ServerConfigs
    <3>2. server_config' = [server_config EXCEPT ![current] = e]
      BY <1>1, <2>1
    <3> HIDE DEF e
    <3>3. QED
      BY <2>1, <3>1, <3>2, SoundFacts DEF IsServer, Servers
  <2>2. QED
    BY <1>1, <2>1, SoundFacts
<1>5. QED
  BY <1>1, <1>3, <1>4, SoundFacts DEF DirectiveTaken, Directives

LEMMA SafeLevelTaken ==
  ASSUME Sound, NEW level \in Levels, RubySafeLevel(level)
  PROVE  DirectiveTaken
<1>1. /\ Allowed("RubySafeLevel", level)
      /\ dir_config' = [dir_config EXCEPT ![current].safe_level = level]
      /\ default_safe_level' = DefaultLevel(level)
      /\ UNCHANGED <<server_config, required, ruby, loaded>>
  BY DEF RubySafeLevel
<1>2. level \in Int
  BY ConfigurationAssumption
<1>3. dir_config' \in [DOMAIN dir_config -> DirConfigs(AllScopes)]
  <2> DEFINE e == [dir_config[current] EXCEPT !.safe_level = level]
  <2>1. e \in DirConfigs(AllScopes)
    <3>1. dir_config[current] \in DirConfigs(AllScopes)
      BY SoundFacts
    <3>2. QED
      BY <1>2, <3>1 DEF DirConfigs
  <2>2. dir_config' = [dir_config EXCEPT ![current] = e]
    BY <1>1
  <2> HIDE DEF e
  <2>3. QED
    BY <2>1, <2>2, SoundFacts
<1>4. default_safe_level' \in Int
  BY <1>1, <1>2, SoundFacts DEF DefaultLevel
<1>5. QED
  BY <1>1, <1>2, <1>3, <1>4, SoundFacts DEF DirectiveTaken, Directives

\* The load path of handlers, and of libraries required for a request.
LEMMA LoadpathType ==
  ASSUME Sound, NEW sc, NEW dc, sc.load_path \in Lists(AllScopes), dc.load_path \in Lists(AllScopes)
  PROVE  SetupLoadpath(sc, dc) \in Paths
<1>1. PathOf(sc) \in Seq(AllScopes) /\ PathOf(dc) \in Seq(AllScopes)
  BY PathTypes, Names
<1>2. PathOf(sc) \in Paths /\ PathOf(dc) \in Paths
  BY <1>1, SeqMonotonic DEF Paths
<1>3. ruby.default_load_path \in Paths
  BY SoundFacts DEF RubyRecords
<1>4. QED
  BY <1>2, <1>3, ConcatProperties DEF SetupLoadpath, Paths

LEMMA RequireTaken ==
  ASSUME Sound, RubyRequire
  PROVE  DirectiveTaken
<1>1. /\ Allowed("RubyRequire", NULL)
      /\ UNCHANGED <<default_safe_level, server_config, dir_config>>
  BY DEF RubyRequire
<1>2. CASE stage = "serving"
  <2> DEFINE path == SetupLoadpath(server_config[CmdServer], dir_config[current])
  <2>1. /\ ruby' = [ruby EXCEPT !.load_path = path]
        /\ loaded' = Append(loaded, [library |-> current, path |-> path])
        /\ required' = required
    BY <1>2 DEF RubyRequire
  <2>2. current = "htaccess"
    BY <1>1, <1>2, WhereLines DEF Allowed
  <2>3. CmdServer \in Servers
    BY <2>2 DEF CmdServer, Merged, Servers
  <2>4. path \in Paths
    <3>1. /\ server_config[CmdServer].load_path \in Lists(AllScopes)
          /\ dir_config[current].load_path \in Lists(AllScopes)
      BY <2>3, SoundFacts DEF ServerConfigs, DirConfigs
    <3>2. QED
      BY <3>1, LoadpathType
  <2> HIDE DEF path
  <2>5. ruby' \in RubyRecords /\ ruby'.kcode = ruby.kcode
    BY <2>1, <2>4, SoundFacts DEF RubyRecords
  <2>6. loaded' \in Seq(LibraryRecords)
    <3>1. [library |-> current, path |-> path] \in LibraryRecords
      BY <2>4, SoundFacts DEF LibraryRecords
    <3>2. QED
      BY <2>1, <3>1, SoundFacts, AppendProperties
  <2>7. QED
    BY <1>1, <2>1, <2>5, <2>6, SoundFacts DEF DirectiveTaken, Directives
<1>3. CASE stage # "serving"
  <2>1. required' = Append(required, current) /\ UNCHANGED <<ruby, loaded>>
    BY <1>3 DEF RubyRequire
  <2>2. current \in DOMAIN dir_config \ {"htaccess"}
    BY <1>3, SoundFacts
  <2>3. /\ required' \in Seq(AllScopes)
        /\ \A i \in DOMAIN required' : required'[i] \in DOMAIN dir_config \ {"htaccess"}
    <3>1. required \in Seq(AllScopes) /\ current \in AllScopes
      BY SoundFacts
    <3>2. QED
      BY <2>1, <2>2, <3>1, AppendElements, SoundFacts
  <2>4. QED
    BY <1>1, <2>1, <2>3, SoundFacts DEF DirectiveTaken, Directives
<1>4. QED
  BY <1>2, <1>3

LEMMA DirectiveTakenSound ==
  ASSUME Sound, DirectiveTaken
  PROVE  Sound'
<1>1. PICK d \in Directives, l \in Int \cup {NULL} : Allowed(d, l)
  BY DEF DirectiveTaken
<1>2. /\ written' = Append(written, [scope |-> current, directive |-> d, level |-> l,
                                     early |-> DOMAIN dir_config = {"main"}])
      /\ UNCHANGED <<apache2, topic, stage, current, sections, last, ran, r>>
  BY <1>1 DEF Allowed, Line
<1>3. written' \in Seq(LineRecords)
  <2>1. [scope |-> current, directive |-> d, level |-> l,
         early |-> DOMAIN dir_config = {"main"}] \in LineRecords
    BY SoundFacts DEF LineRecords
  <2>2. written \in Seq(LineRecords)
    BY DEF Sound, TypeOK, LineRecords
  <2>3. QED
    BY <1>2, <2>1, <2>2, AppendProperties
<1>4. DOMAIN dir_config' = DOMAIN dir_config
  BY DEF DirectiveTaken
<1>5. TypeOK'
  BY <1>2, <1>3, <1>4 DEF Sound, TypeOK, DirectiveTaken, LineRecords, LibraryRecords, RubyRecords,
    Servers
<1>6. Structure'
  <2>1. Open' = Open
    BY <1>2 DEF Open
  <2>2. /\ \A s \in {"main", "vhost"} :
             server_config[s].load_path # NULL => server_config'[s].load_path # NULL
        /\ \A i \in DOMAIN required' : required'[i] \in DOMAIN dir_config \ {"htaccess"}
        /\ ruby'.kcode = ruby.kcode
    BY DEF DirectiveTaken
  <2>3. QED
    BY <1>2, <1>4, <2>1, <2>2 DEF Sound, Structure
<1>7. QED
  BY <1>5, <1>6 DEF Sound

-----------------------------------------------------------------------------
(* The other actions.                                                      *)

RequestRecords ==
  [phase : ToSet(Order), count : Nat, server : {"main", "vhost"}, within : SUBSET Sections,
   dconf : DirConfigs(AllScopes) \cup {NULL}, ruby_init_ran : BOOLEAN, object : BOOLEAN,
   output_mode : Settings(AllScopes)]
FoundRecords ==
  [phase : ToSet(Order), load_path : Paths, kcode : Settings(AllScopes),
   env : Settings(AllScopes) \cup {"passed"}, safe_level : Int, timeout : Settings(AllScopes),
   output_mode : Settings(AllScopes)]

\* What they say of requests.
LEMMA SoundRequest ==
  ASSUME Sound
  PROVE  /\ r \in RequestRecords /\ last \in FoundRecords /\ ran \in Seq(RunRecords)
         /\ r.server \in DOMAIN dir_config /\ r.server \in {"main", "vhost"}
         /\ r.phase # "none" => r.dconf \in DirConfigs(AllScopes)
         /\ stage = "serving" /\ "vhost" \in DOMAIN dir_config => "merged" \in DOMAIN dir_config
         /\ r.phase # "none" => stage = "serving"
<1>1. NoRequest.phase = "none"
  BY DEF NoRequest
<1>2. stage \in {"reading", "starting", "serving"} /\ (stage # "serving" => r = NoRequest)
  BY SoundFacts
<1>3. r.phase # "none" => stage = "serving"
  BY <1>1, <1>2
<1>4. r \in RequestRecords
  BY DEF Sound, TypeOK, RequestRecords
<1>5. r.phase # "none" => r.dconf \in DirConfigs(AllScopes)
  BY DEF Sound, Structure
<1>6. r.server \in {"main", "vhost"}
  BY <1>4 DEF RequestRecords
<1>7. QED
  BY <1>3, <1>4, <1>5, <1>6 DEF Sound, TypeOK, Structure, FoundRecords, RunRecords

\* The configuration of the server of a request.
LEMMA ServerConfigured ==
  ASSUME Sound, stage = "serving", NEW s \in {"main", "vhost"}, s \in DOMAIN dir_config
  PROVE  /\ Merged(s) \in DOMAIN dir_config /\ Merged(s) \in Servers
         /\ dir_config[Merged(s)] \in DirConfigs(AllScopes)
         /\ server_config[Merged(s)] \in ServerConfigs(AllScopes)
<1>1. Merged(s) \in DOMAIN dir_config /\ Merged(s) \in Servers
  BY SoundFacts, SoundRequest DEF Merged, Servers
<1>2. QED
  BY <1>1, SoundFacts

\* Sections have configurations.
LEMMA SectionsConfigured ==
  ASSUME Sound
  PROVE  /\ sections \in Seq(SectionRecords)
         /\ \A s \in ToSet(sections) : /\ s \in SectionRecords /\ s.name \in DOMAIN dir_config
                                       /\ s.server \in DOMAIN dir_config
         /\ Open \subseteq Sections
<1>1. sections \in Seq(SectionRecords)
  BY DEF Sound, TypeOK, SectionRecords
<1>2. Open \subseteq DOMAIN dir_config /\ \A i \in DOMAIN sections : sections[i].server \in DOMAIN dir_config
  BY DEF Sound, Structure
<1>3. ASSUME NEW s \in ToSet(sections)
      PROVE  s \in SectionRecords /\ s.name \in DOMAIN dir_config /\ s.server \in DOMAIN dir_config
  <2>1. s \in SectionRecords /\ \E i \in DOMAIN sections : sections[i] = s
    BY <1>1, SetFacts
  <2>2. s.name \in Open
    BY <1>3 DEF Open
  <2>3. QED
    BY <1>2, <2>1, <2>2
<1>4. Open \subseteq Sections
  BY <1>3 DEF Open, SectionRecords
<1>5. QED
  BY <1>1, <1>3, <1>4

LEMMA MatchingType ==
  ASSUME Sound, NEW kind
  PROVE  Matching(kind) \in Seq(DirConfigs(AllScopes))
<1> DEFINE its == Those(sections, OfRequest(kind))
<1>1. its \in Seq(SectionRecords) /\ ToSet(its) \subseteq ToSet(sections)
  BY SectionsConfigured, ThoseElements
<1>2. Matching(kind) = [i \in DOMAIN its |-> dir_config[its[i].name]]
  BY DEF Matching
<1> HIDE DEF its
<1>3. Len(its) \in Nat /\ DOMAIN its = 1..Len(its)
  BY <1>1, LenProperties
<1>4. ASSUME NEW i \in DOMAIN its
      PROVE  dir_config[its[i].name] \in DirConfigs(AllScopes)
  <2>1. its[i] \in ToSet(sections)
    BY <1>1, <1>4, SetFacts
  <2>2. QED
    BY <2>1, SectionsConfigured, SoundFacts
<1>5. QED
  BY <1>2, <1>3, <1>4

LEMMA HtaccessType ==
  ASSUME Sound
  PROVE  Htaccess \in Seq(DirConfigs(AllScopes))
<1>1. <<>> \in Seq(DirConfigs(AllScopes))
  BY EmptySeq
<1>2. CASE "htaccess" \in DOMAIN dir_config
  <2> DEFINE c == dir_config["htaccess"]
  <2>1. c \in DirConfigs(AllScopes)
    BY <1>2, SoundFacts
  <2> HIDE DEF c
  <2>2. <<c>> \in Seq(DirConfigs(AllScopes))
    BY <2>1
  <2>3. QED
    BY <1>2, <2>2 DEF Htaccess, c
<1>3. QED
  BY <1>1, <1>2 DEF Htaccess

LEMMA WalkType ==
  ASSUME NEW base \in DirConfigs(AllScopes), NEW s \in Seq(DirConfigs(AllScopes))
  PROVE  Walk(base, s) \in DirConfigs(AllScopes)
<1>1. Walk(base, s) = FoldLeft(MergeDirConfig, base, s)
  BY WalkIsFold, Names
<1>2. FoldLeft(MergeDirConfig, base, s) \in DirConfigs(AllScopes)
  BY FoldType, Names
<1>3. QED
  BY <1>1, <1>2

\* The phase that follows is one of the order.
LEMMA FollowsType ==
  ASSUME NEW p \in ToSet(Order), p # "none", NEW dconf
  PROVE  Follows(p, dconf) \in ToSet(Order)
<1>1. PICK k \in 1..16 : p = Order[k]
  BY OrderFacts DEF ToSet
<1>2. k \in 1..15
  BY <1>1, OrderFacts
<1>3. PICK j \in k + 1..16 : Follows(Order[k], dconf) = Order[j]
  BY <1>2, FollowsFact
<1>4. j \in DOMAIN Order
  BY <1>2, OrderFacts
<1>5. QED
  BY <1>1, <1>3, <1>4 DEF ToSet

LEMMA ConfigForType ==
  ASSUME Sound, r.phase # "none", NEW p
  PROVE  ConfigFor(p) \in DirConfigs(AllScopes)
<1>1. r.dconf \in DirConfigs(AllScopes)
  BY SoundRequest
<1>2. Walk(dir_config[Merged(r.server)], Matching("Location")) \in DirConfigs(AllScopes)
  <2>1. dir_config[Merged(r.server)] \in DirConfigs(AllScopes)
    BY SoundRequest, ServerConfigured
  <2>2. Matching("Location") \in Seq(DirConfigs(AllScopes))
    BY MatchingType
  <2>3. QED
    BY <2>1, <2>2, WalkType
<1>3. QED
  BY <1>1, <1>2 DEF ConfigFor

-----------------------------------------------------------------------------
(* Steps that leave the configurations alone.                              *)

ServingTaken ==
  /\ r' \in RequestRecords /\ r'.server = r.server /\ r'.within = r.within
  /\ r'.dconf \in DirConfigs(AllScopes)
  /\ r.phase # "none"
  /\ ruby' \in RubyRecords /\ ruby'.kcode = NULL
  /\ last' \in FoundRecords /\ ran' \in Seq(RunRecords)
  /\ written' \in Seq(LineRecords)
  /\ UNCHANGED <<apache2, topic, stage, sections, default_safe_level, server_config,
                 required, current, dir_config, loaded>>

LEMMA ServingTakenSound ==
  ASSUME Sound, ServingTaken
  PROVE  Sound'
<1>1. stage = "serving" /\ stage' = stage
  BY SoundRequest DEF ServingTaken
<1>2. TypeOK'
  BY DEF ServingTaken, Sound, TypeOK, RequestRecords, FoundRecords, RunRecords, RubyRecords,
    LineRecords
<1>3. Structure'
  <2>1. Open' = Open
    BY DEF ServingTaken, Open
  <2>2. QED
    BY <1>1, <2>1 DEF ServingTaken, Sound, Structure
<1>4. QED
  BY <1>2, <1>3 DEF Sound

LEMMA RefusedSound ==
  ASSUME Sound, RefusedLine
  PROVE  Sound'
<1>1. PICK d \in ToSet(topic) \ ServerOnly : Line(d, NULL)
  BY DEF RefusedLine
<1>2. /\ written' = Append(written, [scope |-> current, directive |-> d, level |-> NULL,
                                     early |-> DOMAIN dir_config = {"main"}])
      /\ UNCHANGED <<apache2, topic, stage, current, sections, last, ran, default_safe_level,
                     server_config, dir_config, required, ruby, loaded>>
      /\ r' = [r EXCEPT !.phase = Follows("handler", r.dconf)]
      /\ current = "htaccess"
  BY <1>1 DEF Line, RefusedLine, Refused
<1>3. r.phase # "none"
  <2>1. r.phase = "htaccess"
    BY <1>1, <1>2, WhereLines
  <2>2. QED
    BY <2>1
<1>4. d \in Directives
  <2>1. topic \in Seq(Directives)
    BY ConfigurationAssumption DEF Sound, TypeOK
  <2>2. QED
    BY <1>1, <2>1, SetFacts
<1>5. written' \in Seq(LineRecords)
  <2>1. [scope |-> current, directive |-> d, level |-> NULL,
         early |-> DOMAIN dir_config = {"main"}] \in LineRecords
    BY <1>4, SoundFacts DEF LineRecords
  <2>2. written \in Seq(LineRecords)
    BY DEF Sound, TypeOK, LineRecords
  <2>3. QED
    BY <1>2, <2>1, <2>2, AppendProperties
<1>6. r' \in RequestRecords /\ r'.server = r.server /\ r'.within = r.within /\ r'.dconf = r.dconf
  <2> DEFINE p == Follows("handler", r.dconf)
  <2>1. p \in ToSet(Order)
    BY FollowsType, OrderSet DEF Phases
  <2> HIDE DEF p
  <2>2. r' = [r EXCEPT !.phase = p]
    BY <1>2 DEF p
  <2>3. QED
    BY <2>1, <2>2, SoundRequest DEF RequestRecords
<1>7. r.dconf \in DirConfigs(AllScopes)
  BY <1>3, SoundRequest
<1>8. ServingTaken
  BY <1>2, <1>3, <1>5, <1>6, <1>7, SoundFacts, SoundRequest DEF ServingTaken
<1>9. QED
  BY <1>8, ServingTakenSound

\* What the handlers of a phase find.
LEMMA RunTaken ==
  ASSUME Sound, NEW phase \in Phases \cup {"late_init"}, r.phase = phase,
         NEW n \in 1..Len(Handlers(phase)), NEW status, RunHandlers(phase, n, status)
  PROVE  /\ last' \in FoundRecords /\ ran' \in Seq(RunRecords)
         /\ ruby' \in RubyRecords /\ ruby'.kcode = NULL
<1> DEFINE sconf == server_config[Merged(r.server)]
           path == SetupLoadpath(sconf, r.dconf)
           kcode == IF r.dconf.kcode = NULL THEN ruby.kcode ELSE r.dconf.kcode
           mode == IF r.object THEN r.output_mode ELSE r.dconf.output_mode
           env == EnvOf(sconf, r.dconf)
           new == [i \in 1..n |-> [phase |-> r.phase, scope |-> Handlers(phase)[i]]]
<1>1. /\ ran' = ran \o new
      /\ last' = [phase |-> r.phase, load_path |-> path, kcode |-> kcode,
                  env |-> env, safe_level |-> r.dconf.safe_level,
                  timeout |-> TimeOut(sconf.timeout), output_mode |-> mode]
      /\ ruby' = [ruby EXCEPT !.load_path = path, !.kcode = RestoreKcode(kcode)]
  BY DEF RunHandlers
<1>2. phase # "none" /\ phase \in ToSet(Order)
  BY OrderSet DEF Phases
<1>3. r.dconf \in DirConfigs(AllScopes) /\ stage = "serving" /\ r \in RequestRecords
  BY <1>2, SoundRequest
<1>4. sconf \in ServerConfigs(AllScopes)
  BY <1>3, SoundRequest, ServerConfigured
<1> HIDE DEF sconf
<1>5. path \in Paths
  <2>1. sconf.load_path \in Lists(AllScopes) /\ r.dconf.load_path \in Lists(AllScopes)
    BY <1>3, <1>4 DEF ServerConfigs, DirConfigs
  <2>2. QED
    BY <2>1, LoadpathType
<1>6. kcode \in Settings(AllScopes) /\ mode \in Settings(AllScopes)
  BY <1>3, SoundFacts DEF Settings, DirConfigs, RequestRecords
<1>7. env \in Settings(AllScopes) \cup {"passed"}
  <2> DEFINE all == sconf.env \o r.dconf.env
  <2>1. all \in Seq(AllScopes \cup {"passed"})
    <3>1. r.dconf.env \in Seq(AllScopes)
      BY <1>3 DEF DirConfigs
    <3>2. r.dconf.env \in Seq(AllScopes \cup {"passed"})
      BY <3>1, SeqMonotonic
    <3>3. sconf.env \in Seq(AllScopes \cup {"passed"})
      BY <1>4 DEF ServerConfigs
    <3>4. QED
      BY <3>2, <3>3, ConcatProperties
  <2>2. env = IF all = <<>> THEN NULL ELSE Last(all)
    BY DEF EnvOf
  <2> HIDE DEF all
  <2>3. all # <<>> => Last(all) \in AllScopes \cup {"passed"}
    BY <2>1 DEF Last
  <2>4. QED
    BY <2>2, <2>3 DEF Settings
<1>8. TimeOut(sconf.timeout) \in Settings(AllScopes) /\ r.dconf.safe_level \in Int
  <2>1. sconf.timeout \in Settings(AllScopes) /\ r.dconf.safe_level \in Int
    BY <1>3, <1>4 DEF ServerConfigs, DirConfigs
  <2>2. QED
    BY <2>1 DEF TimeOut, Settings
<1>9. new \in Seq(RunRecords)
  <2> DEFINE hs == Handlers(phase)
  <2>1. hs \in Seq(AllScopes)
    <3>1. <<>> \in Seq(AllScopes)
      BY EmptySeq
    <3>2. r.dconf.handlers \in [Phases -> Lists(AllScopes)]
      BY <1>3 DEF DirConfigs
    <3>3. phase # "late_init" => phase \in Phases
      OBVIOUS
    <3>4. "init" \in Phases /\ "cleanup" \in Phases
      BY DEF Phases
    <3>5. HandlersOf(phase) \in Lists(AllScopes)
      BY <3>2, <3>3, <3>4 DEF HandlersOf, CleanupConfig
    <3>6. QED
      BY <3>1, <3>5 DEF Handlers, Lists
  <2>2. new = [i \in 1..n |-> [phase |-> phase, scope |-> hs[i]]] /\ n \in 1..Len(hs)
    OBVIOUS
  <2> HIDE DEF hs, new
  <2>3. n \in Nat /\ \A i \in 1..n : hs[i] \in AllScopes
    BY <2>1, <2>2, LenProperties
  <2>4. \A i \in 1..n : [phase |-> phase, scope |-> hs[i]] \in RunRecords
    BY <2>3 DEF RunRecords
  <2>5. QED
    BY <2>2, <2>3, <2>4
<1> HIDE DEF path, kcode, mode, env, new
<1>10. ran' \in Seq(RunRecords)
  BY <1>1, <1>9, SoundRequest, ConcatProperties
<1>11. last' \in FoundRecords
  BY <1>1, <1>2, <1>5, <1>6, <1>7, <1>8 DEF FoundRecords
<1>12. ruby' \in RubyRecords /\ ruby'.kcode = NULL
  BY <1>1, <1>5, SoundFacts DEF RubyRecords, RestoreKcode, Settings
<1>13. QED
  BY <1>10, <1>11, <1>12

LEMMA PhaseSound ==
  ASSUME Sound, NEW phase \in Phases \cup {"late_init"}, Phase(phase)
  PROVE  Sound'
<1>1. PICK n \in 1..Len(Handlers(phase)), status \in {"OK", "error"} :
        /\ RunHandlers(phase, n, status)
        /\ LET next == IF phase \notin {"log", "cleanup"} /\ status = "error"
                         THEN Follows("handler", r.dconf)
                       ELSE Follows(phase, r.dconf)
           IN  r' = [r EXCEPT !.phase = next, !.dconf = ConfigFor(next), !.object = TRUE,
                              !.output_mode = IF r.object THEN @ ELSE r.dconf.output_mode,
                              !.ruby_init_ran = NoteInit(phase)]
  BY DEF Phase
<1>2. /\ r.phase = phase
      /\ UNCHANGED <<apache2, topic, stage, sections, default_safe_level, server_config, required,
                     current, dir_config, written, loaded>>
  BY DEF Phase, RequestStays
<1> DEFINE next == IF phase \notin {"log", "cleanup"} /\ status = "error"
                     THEN Follows("handler", r.dconf) ELSE Follows(phase, r.dconf)
           conf == ConfigFor(next)
           mode == IF r.object THEN r.output_mode ELSE r.dconf.output_mode
           noted == NoteInit(phase)
<1>3. phase # "none" /\ phase \in ToSet(Order) /\ "handler" \in ToSet(Order) /\ "handler" # "none"
  BY OrderSet DEF Phases
<1>4. next \in ToSet(Order)
  BY <1>3, FollowsType
<1> HIDE DEF next
<1>5. conf \in DirConfigs(AllScopes)
  BY <1>2, <1>3, ConfigForType
<1>6. mode \in Settings(AllScopes) /\ noted \in BOOLEAN
  <2>1. r.dconf \in DirConfigs(AllScopes) /\ r \in RequestRecords
    BY <1>2, <1>3, SoundRequest
  <2>2. QED
    BY <2>1 DEF DirConfigs, RequestRecords, NoteInit
<1>7. r' = [r EXCEPT !.phase = next, !.dconf = conf, !.object = TRUE, !.output_mode = mode,
                     !.ruby_init_ran = noted]
  BY <1>1 DEF next
<1> HIDE DEF conf, mode, noted
<1>8. /\ r' \in RequestRecords /\ r'.server = r.server /\ r'.within = r.within /\ r'.dconf = conf
  BY <1>4, <1>5, <1>6, <1>7, SoundRequest DEF RequestRecords
<1>9. ServingTaken
  <2>1. written \in Seq(LineRecords)
    BY DEF Sound, TypeOK, LineRecords
  <2>2. QED
    BY <1>1, <1>2, <1>3, <1>5, <1>8, <2>1, RunTaken DEF ServingTaken
<1>10. QED
  BY <1>9, ServingTakenSound

LEMMA PostReadSound ==
  ASSUME Sound, PostReadRequest \/ NoTranslation \/ EndOfWalks
  PROVE  Sound'
<1>1. ASSUME NEW p, p \in ToSet(Order), NEW c, c \in DirConfigs(AllScopes), r.phase # "none",
             r' = [r EXCEPT !.phase = p, !.dconf = c],
             UNCHANGED <<current, dir_config, ruby, last, written, loaded, ran>>, RequestStays
      PROVE  Sound'
  <2>1. r' \in RequestRecords /\ r'.server = r.server /\ r'.within = r.within /\ r'.dconf = c
    BY <1>1, SoundRequest DEF RequestRecords
  <2>2. ServingTaken
    <3>1. written \in Seq(LineRecords)
      BY DEF Sound, TypeOK, LineRecords
    <3>2. QED
      BY <1>1, <2>1, <3>1, SoundFacts, SoundRequest DEF ServingTaken, RequestStays
  <2>3. QED
    BY <2>2, ServingTakenSound
<1>2. CASE PostReadRequest
  <2> DEFINE p == Follows("read", r.dconf)
             c == ConfigFor(p)
  <2>1. r.phase = "read" /\ r' = [r EXCEPT !.phase = p, !.dconf = c]
    BY <1>2 DEF PostReadRequest, GoOn
  <2>2. p \in ToSet(Order)
    BY FollowsType, OrderSet
  <2>3. c \in DirConfigs(AllScopes)
    BY <2>1, ConfigForType
  <2> HIDE DEF p, c
  <2>4. QED
    BY <1>1, <1>2, <2>1, <2>2, <2>3 DEF PostReadRequest
<1>3. CASE NoTranslation
  <2> DEFINE c == ConfigFor("htaccess")
  <2>1. r.phase = "trans" /\ r' = [r EXCEPT !.phase = "htaccess", !.dconf = c]
    BY <1>3 DEF NoTranslation, GoOn
  <2>2. "htaccess" \in ToSet(Order)
    BY OrderSet
  <2>3. c \in DirConfigs(AllScopes)
    BY <2>1, ConfigForType
  <2> HIDE DEF c
  <2>4. QED
    BY <1>1, <1>3, <2>1, <2>2, <2>3 DEF NoTranslation
<1>4. CASE EndOfWalks
  <2> DEFINE server == dir_config[Merged(r.server)]
             inside == Matching("Directory") \o Htaccess
             locations == Matching("Location")
             directory == Walk(server, inside)
             c == Walk(directory, locations)
             p == Follows("htaccess", c)
  <2>1. r.phase = "htaccess" /\ r' = [r EXCEPT !.phase = p, !.dconf = c]
    BY <1>4 DEF EndOfWalks
  <2>2. c \in DirConfigs(AllScopes)
    <3>1. server \in DirConfigs(AllScopes)
      BY <2>1, SoundRequest, ServerConfigured
    <3>2. locations \in Seq(DirConfigs(AllScopes)) /\ inside \in Seq(DirConfigs(AllScopes))
      <4>1. /\ Matching("Directory") \in Seq(DirConfigs(AllScopes))
            /\ Htaccess \in Seq(DirConfigs(AllScopes))
            /\ Matching("Location") \in Seq(DirConfigs(AllScopes))
        BY MatchingType, HtaccessType
      <4>2. QED
        BY <4>1, ConcatProperties
    <3> HIDE DEF server, inside, locations
    <3>3. directory \in DirConfigs(AllScopes)
      BY <3>1, <3>2, WalkType
    <3> HIDE DEF directory
    <3>4. QED
      BY <3>2, <3>3, WalkType
  <2> HIDE DEF c
  <2>3. p \in ToSet(Order)
    BY FollowsType, OrderSet
  <2> HIDE DEF p
  <2>4. QED
    BY <1>1, <1>4, <2>1, <2>2, <2>3 DEF EndOfWalks
<1>5. QED
  BY <1>2, <1>3, <1>4

\* What is the same before and after the beginning of a scope.
LEMMA OpenedTaken ==
  ASSUME Sound, NEW scope \in AllScopes, Opened(scope)
  PROVE  /\ DOMAIN dir_config' = DOMAIN dir_config \cup {scope}
         /\ dir_config' \in [DOMAIN dir_config' -> DirConfigs(AllScopes)]
         /\ \A s \in DOMAIN dir_config : s # scope => dir_config'[s] = dir_config[s]
         /\ dir_config'[scope] = CreateDirConfig(default_safe_level)
         /\ current' = scope
         /\ UNCHANGED <<apache2, topic, default_safe_level, server_config, required, ruby, last,
                        loaded, ran>>
<1> DEFINE new == CreateDirConfig(default_safe_level)
<1>1. /\ current' = scope
      /\ dir_config' = [s \in DOMAIN dir_config \cup {scope} |->
                         IF s = scope THEN new ELSE dir_config[s]]
      /\ UNCHANGED <<apache2, topic, default_safe_level, server_config, required, ruby, last,
                     loaded, ran>>
  BY DEF Opened
<1>2. new \in DirConfigs(AllScopes)
  BY CreateTypes, SoundFacts
<1> HIDE DEF new
<1>3. QED
  BY <1>1, <1>2, SoundFacts DEF new

LEMMA OpenVirtualHostSound ==
  ASSUME Sound, OpenVirtualHost
  PROVE  Sound'
<1>1. /\ stage = "reading" /\ Opened("vhost") /\ "vhost" \in AllScopes
      /\ UNCHANGED <<stage, sections, r, written>>
  BY DEF OpenVirtualHost, AllScopes
<1>2. TypeOK'
  <2>1. /\ DOMAIN dir_config' = DOMAIN dir_config \cup {"vhost"} /\ current' = "vhost"
        /\ UNCHANGED <<apache2, topic, default_safe_level, server_config, required, ruby, last,
                       loaded, ran>>
        /\ dir_config' \in [DOMAIN dir_config' -> DirConfigs(AllScopes)]
    BY <1>1, OpenedTaken
  <2>2. QED
    BY <1>1, <2>1 DEF Sound, TypeOK
<1>3. Structure'
  <2>1. Open' = Open
    BY <1>1 DEF Open
  <2>2. "vhost" \notin Sections
    BY Names
  <2>3. /\ DOMAIN dir_config' = DOMAIN dir_config \cup {"vhost"} /\ current' = "vhost"
        /\ server_config' = server_config /\ required' = required /\ ruby' = ruby
    BY <1>1, OpenedTaken
  <2>4. QED
    BY <1>1, <2>1, <2>2, <2>3, SoundFacts DEF Sound, Structure
<1>4. QED
  BY <1>2, <1>3 DEF Sound

LEMMA OpenHtaccessSound ==
  ASSUME Sound, OpenHtaccess
  PROVE  Sound'
<1>1. /\ r.phase = "htaccess" /\ Opened("htaccess") /\ "htaccess" \in AllScopes
      /\ UNCHANGED <<stage, sections, r, written>>
  BY DEF OpenHtaccess, AllScopes
<1>2. TypeOK'
  <2>1. /\ DOMAIN dir_config' = DOMAIN dir_config \cup {"htaccess"} /\ current' = "htaccess"
        /\ UNCHANGED <<apache2, topic, default_safe_level, server_config, required, ruby, last,
                       loaded, ran>>
        /\ dir_config' \in [DOMAIN dir_config' -> DirConfigs(AllScopes)]
    BY <1>1, OpenedTaken
  <2>2. QED
    BY <1>1, <2>1 DEF Sound, TypeOK
<1>3. Structure'
  <2>1. Open' = Open
    BY <1>1 DEF Open
  <2>2. "htaccess" \notin Sections
    BY Names
  <2>3. /\ DOMAIN dir_config' = DOMAIN dir_config \cup {"htaccess"} /\ current' = "htaccess"
        /\ server_config' = server_config /\ required' = required /\ ruby' = ruby
    BY <1>1, OpenedTaken
  <2>4. stage = "serving"
    BY <1>1, SoundRequest
  <2>5. QED
    BY <1>1, <2>1, <2>2, <2>3, <2>4, SoundFacts DEF Sound, Structure
<1>4. QED
  BY <1>2, <1>3 DEF Sound

LEMMA OpenSectionSound ==
  ASSUME Sound, NEW kind \in {"Directory", "Location"}, OpenSection(kind)
  PROVE  Sound'
<1> DEFINE n == Len(sections) + 1
           name == SectionNames[n]
           new == [name |-> name, server |-> current, kind |-> kind]
<1>1. /\ stage = "reading" /\ Opened(name) /\ current \in {"main", "vhost"}
      /\ Len(sections) < Len(SectionNames) /\ sections' = Append(sections, new)
      /\ UNCHANGED <<stage, r, written>>
  BY DEF OpenSection, IsServer
<1>2. /\ sections \in Seq(SectionRecords) /\ Len(sections) \in Nat /\ DOMAIN sections = 1..Len(sections)
      /\ SectionNames \in Seq(Sections) /\ Len(SectionNames) \in Nat
      /\ DOMAIN SectionNames = 1..Len(SectionNames)
  BY SectionsConfigured, LenProperties, ConfigurationAssumption
<1>3. n \in DOMAIN SectionNames /\ name \in Sections
  BY <1>1, <1>2
<1>4. new \in SectionRecords /\ new.name = name /\ new.server = current
  BY <1>1, <1>3 DEF SectionRecords
<1>5. current \in DOMAIN dir_config
  BY SoundFacts
<1>6. name \in AllScopes /\ name # "htaccess" /\ name # "vhost" /\ name # "merged" /\ name # "main"
  BY <1>3, Names
<1> HIDE DEF new
<1>7. /\ sections' \in Seq(SectionRecords) /\ DOMAIN sections' = DOMAIN sections \cup {n}
      /\ n \notin DOMAIN sections /\ sections'[n] = new /\ Len(sections') = n
      /\ \A i \in DOMAIN sections : sections'[i] = sections[i]
  BY <1>1, <1>2, <1>4, AppendElements, AppendProperties
<1>8. Open' = Open \cup {name}
  <2>1. Open = {sections[i].name : i \in DOMAIN sections}
    BY DEF Open, ToSet
  <2>2. Open' = {sections'[i].name : i \in DOMAIN sections'}
    BY DEF Open, ToSet
  <2>3. QED
    BY <1>4, <1>7, <2>1, <2>2
<1> HIDE DEF name
<1>9. /\ DOMAIN dir_config' = DOMAIN dir_config \cup {name} /\ current' = name
      /\ UNCHANGED <<apache2, topic, default_safe_level, server_config, required, ruby, last,
                     loaded, ran>>
      /\ dir_config' \in [DOMAIN dir_config' -> DirConfigs(AllScopes)]
  BY <1>1, <1>6, OpenedTaken
<1>10. TypeOK'
  BY <1>1, <1>6, <1>7, <1>9 DEF Sound, TypeOK, SectionRecords
<1>11. Structure'
  <2>1. DOMAIN dir_config' \cap Sections = Open'
    <3>1. DOMAIN dir_config \cap Sections = Open
      BY DEF Sound, Structure
    <3>2. QED
      BY <1>3, <1>8, <1>9, <3>1
  <2>2. Len(sections') <= Len(SectionNames)
    BY <1>1, <1>2, <1>7
  <2>3. ASSUME NEW i \in DOMAIN sections'
        PROVE  sections'[i].name = SectionNames[i] /\ sections'[i].server \in DOMAIN dir_config'
    <3>1. CASE i \in DOMAIN sections
      BY <1>7, <1>9, <3>1 DEF Sound, Structure
    <3>2. CASE i = n
      BY <1>4, <1>5, <1>7, <1>9, <3>2 DEF name
    <3>3. QED
      BY <1>7, <2>3, <3>1, <3>2
  <2>4. r' = r /\ server_config' = server_config /\ required' = required /\ ruby' = ruby /\ stage' = stage
    BY <1>1, <1>9
  <2>5. r.within \subseteq Open'
    BY <1>8 DEF Sound, Structure
  <2>6. {"main", current'} \subseteq DOMAIN dir_config'
    BY <1>9, SoundFacts
  <2>7. QED
    BY <1>1, <1>6, <1>9, <2>1, <2>2, <2>3, <2>4, <2>5, <2>6, SoundFacts DEF Sound, Structure
<1>12. QED
  BY <1>10, <1>11 DEF Sound

\* The server of a section is one of which there is a configuration.
LEMMA ServerOfSection ==
  ASSUME Sound, NEW name \in Open
  PROVE  /\ \E s \in ToSet(sections) : s.name = name /\ ServerOf(name) = s.server
         /\ ServerOf(name) \in {"main", "vhost"} \cap DOMAIN dir_config
<1>1. Open \subseteq Sections /\ \E s \in ToSet(sections) : s.name = name
  BY SectionsConfigured DEF Open
<1>2. ~ IsServer(name) /\ name # "htaccess"
  BY <1>1, Names DEF IsServer
<1> DEFINE it == CHOOSE s \in ToSet(sections) : s.name = name
<1>3. it \in ToSet(sections) /\ it.name = name
  BY <1>1
<1>4. ServerOf(name) = it.server
  BY <1>2 DEF ServerOf
<1> HIDE DEF it
<1>5. it.server \in {"main", "vhost"} \cap DOMAIN dir_config
  BY <1>3, SectionsConfigured DEF SectionRecords
<1>6. QED
  BY <1>3, <1>4, <1>5

LEMMA CloseSectionSound ==
  ASSUME Sound, CloseSection
  PROVE  Sound'
<1>1. /\ stage = "reading" /\ current # "main"
      /\ current' = IF current = "vhost" THEN "main" ELSE ServerOf(current)
      /\ UNCHANGED <<apache2, topic, stage, sections, default_safe_level, server_config,
                     dir_config, required, ruby, r, last, written, loaded, ran>>
  BY DEF CloseSection
<1>2. current' \in AllScopes /\ current' \in DOMAIN dir_config
  <2>1. CASE current = "vhost"
    BY <1>1, <2>1, SoundFacts, Names
  <2>2. CASE current # "vhost"
    <3>1. current \in Sections /\ current \in DOMAIN dir_config
      BY <1>1, <2>2, SoundFacts, Names
    <3>2. current \in Open
      BY <3>1 DEF Sound, Structure
    <3>3. QED
      BY <1>1, <2>2, <3>2, ServerOfSection, Names
  <2>3. QED
    BY <2>1, <2>2
<1>3. TypeOK'
  BY <1>1, <1>2 DEF Sound, TypeOK
<1>4. Structure'
  <2>1. Open' = Open
    BY <1>1 DEF Open
  <2>2. QED
    BY <1>1, <1>2, <2>1 DEF Sound, Structure
<1>5. QED
  BY <1>3, <1>4 DEF Sound

LEMMA EndOfFileSound ==
  ASSUME Sound, EndOfFile
  PROVE  Sound'
<1>1. /\ stage = "reading" /\ current = "main" /\ stage' = "starting"
      /\ UNCHANGED <<apache2, topic, current, sections, default_safe_level, required, ruby, r,
                     last, written, loaded, ran>>
  BY DEF EndOfFile
<1>2. r = NoRequest /\ "htaccess" \notin DOMAIN dir_config /\ "merged" \notin DOMAIN dir_config
  BY <1>1, SoundFacts DEF Sound, Structure
<1>3. /\ DOMAIN dir_config' = DOMAIN dir_config \cup
           (IF "vhost" \in DOMAIN dir_config THEN {"merged"} ELSE {})
      /\ dir_config' \in [DOMAIN dir_config' -> DirConfigs(AllScopes)]
      /\ server_config' \in [Servers -> ServerConfigs(AllScopes)]
      /\ server_config'["main"] = server_config["main"]
      /\ server_config'["vhost"] = server_config["vhost"]
  <2>1. CASE "vhost" \in DOMAIN dir_config
    <3> DEFINE sc == MergeServerConfig(server_config["main"], server_config["vhost"])
               dc == MergeDirConfig(dir_config["main"], dir_config["vhost"])
    <3>1. /\ server_config' = [server_config EXCEPT !["merged"] = sc]
          /\ dir_config' = [s \in DOMAIN dir_config \cup {"merged"} |->
               IF s = "merged" THEN dc ELSE dir_config[s]]
      BY <2>1 DEF EndOfFile
    <3>2. sc \in ServerConfigs(AllScopes)
      BY MergeServerConfigType, SoundFacts, Names DEF Servers
    <3>3. dc \in DirConfigs(AllScopes)
      BY <2>1, MergeDirConfigType, SoundFacts, Names
    <3> HIDE DEF sc, dc
    <3>4. /\ DOMAIN dir_config' = DOMAIN dir_config \cup {"merged"}
          /\ dir_config' \in [DOMAIN dir_config' -> DirConfigs(AllScopes)]
      BY <3>1, <3>3, SoundFacts
    <3>5. /\ server_config' \in [Servers -> ServerConfigs(AllScopes)]
          /\ server_config'["main"] = server_config["main"]
          /\ server_config'["vhost"] = server_config["vhost"]
      BY <3>1, <3>2, SoundFacts DEF Servers
    <3>6. QED
      BY <2>1, <3>4, <3>5
  <2>2. CASE "vhost" \notin DOMAIN dir_config
    BY <2>2, SoundFacts DEF EndOfFile
  <2>3. QED
    BY <2>1, <2>2
<1>4. TypeOK'
  BY <1>1, <1>3 DEF Sound, TypeOK, Servers
<1>5. Structure'
  <2>1. Open' = Open
    BY <1>1 DEF Open
  <2>2. "merged" \notin Sections
    BY Names
  <2>3. "merged" \in DOMAIN dir_config' <=> "vhost" \in DOMAIN dir_config'
    BY <1>2, <1>3
  <2>4. QED
    BY <1>1, <1>2, <1>3, <2>1, <2>2, <2>3 DEF Sound, Structure
<1>6. QED
  BY <1>4, <1>5 DEF Sound

LEMMA InitInterpreterSound ==
  ASSUME Sound, InitInterpreter
  PROVE  Sound'
<1> DEFINE default == <<"lib">> \o server_config["main"].load_path
           sconf(scope) == IF ServerOf(scope) = "main" THEN NULL ELSE server_config["vhost"]
           path(scope) == default \o PathOf(sconf(scope)) \o PathOf(dir_config[scope])
           after == IF required = <<>> THEN default ELSE path(Last(required))
<1>1. /\ stage = "starting" /\ stage' = "serving"
      /\ server_config' = [server_config EXCEPT !["main"].load_path = NULL]
      /\ loaded' = [i \in DOMAIN required |->
                      [library |-> required[i], path |-> path(required[i])]]
      /\ ruby' = [ruby EXCEPT !.default_load_path = default, !.load_path = after]
      /\ UNCHANGED <<apache2, topic, current, sections, default_safe_level, dir_config,
                     required, r, last, written, ran>>
  BY DEF InitInterpreter
<1>2. default \in Paths
  <2>1. server_config["main"].load_path \in Seq(AllScopes)
    BY <1>1, SoundFacts
  <2>2. server_config["main"].load_path \in Paths
    BY <2>1, SeqMonotonic DEF Paths
  <2>3. <<"lib">> \in Paths
    BY DEF Paths
  <2>4. QED
    BY <2>2, <2>3, ConcatProperties DEF Paths
<1>3. ASSUME NEW scope \in DOMAIN dir_config PROVE path(scope) \in Paths
  <2> DEFINE a == PathOf(sconf(scope))
             b == PathOf(dir_config[scope])
  <2>1. b \in Seq(AllScopes)
    <3>1. dir_config[scope].load_path \in Lists(AllScopes)
      BY <1>3, SoundFacts DEF DirConfigs
    <3>2. QED
      BY <3>1, PathTypes, Names
  <2>2. a \in Seq(AllScopes)
    <3>1. server_config["vhost"].load_path \in Lists(AllScopes)
      BY SoundFacts DEF Servers, ServerConfigs
    <3>2. PathOf(server_config["vhost"]) \in Seq(AllScopes)
      BY <3>1, PathTypes, Names
    <3>3. PathOf(NULL) = <<>> /\ <<>> \in Seq(AllScopes)
      BY EmptySeq DEF PathOf
    <3>4. QED
      BY <3>2, <3>3
  <2>3. a \in Paths /\ b \in Paths
    BY <2>1, <2>2, SeqMonotonic DEF Paths
  <2>4. path(scope) = default \o a \o b
    OBVIOUS
  <2> HIDE DEF default, a, b, path
  <2>5. QED
    BY <1>2, <2>3, <2>4, ConcatProperties DEF Paths
<1>4. required \in Seq(AllScopes) /\ \A i \in DOMAIN required : required[i] \in DOMAIN dir_config
  BY SoundFacts
<1>5. after \in Paths
  <2>1. CASE required = <<>>
    BY <1>2, <2>1
  <2>2. CASE required # <<>>
    <3>1. Last(required) \in DOMAIN dir_config
      <4>1. Len(required) \in DOMAIN required
        BY <1>4, <2>2, LenProperties, EmptySeq
      <4>2. QED
        BY <1>4, <4>1 DEF Last
    <3>2. QED
      BY <1>3, <2>2, <3>1
  <2>3. QED
    BY <2>1, <2>2
<1>6. loaded' \in Seq(LibraryRecords)
  <2> HIDE DEF path
  <2>1. Len(required) \in Nat /\ DOMAIN required = 1..Len(required)
    BY <1>4, LenProperties
  <2>2. \A i \in DOMAIN required : required[i] \in AllScopes
    BY <1>4, LenProperties
  <2>3. ASSUME NEW i \in DOMAIN required
        PROVE  [library |-> required[i], path |-> path(required[i])] \in LibraryRecords
    <3>1. path(required[i]) \in Paths /\ required[i] \in AllScopes
      BY <1>3, <1>4, <2>2
    <3>2. QED
      BY <3>1 DEF LibraryRecords
  <2>4. QED
    BY <1>1, <2>1, <2>3
<1> HIDE DEF default, path, after
<1>7. ruby' \in RubyRecords /\ ruby'.kcode = NULL
  BY <1>1, <1>2, <1>5, SoundFacts DEF RubyRecords
<1>8. server_config' \in [Servers -> ServerConfigs(AllScopes)]
  <2> DEFINE e == [server_config["main"] EXCEPT !.load_path = NULL]
  <2>1. e \in ServerConfigs(AllScopes)
    <3>1. server_config["main"] \in ServerConfigs(AllScopes)
      BY SoundFacts DEF Servers
    <3>2. QED
      BY <3>1 DEF ServerConfigs, Lists
  <2>2. server_config' = [server_config EXCEPT !["main"] = e]
    BY <1>1
  <2> HIDE DEF e
  <2>3. QED
    BY <2>1, <2>2, SoundFacts DEF Servers
<1>9. TypeOK'
  BY <1>1, <1>6, <1>7, <1>8 DEF Sound, TypeOK, Servers, RubyRecords, LibraryRecords
<1>10. Structure'
  <2>1. Open' = Open
    BY <1>1 DEF Open
  <2>2. QED
    BY <1>1, <1>7, <2>1 DEF Sound, Structure
<1>11. QED
  BY <1>9, <1>10 DEF Sound

LEMMA BeginRequestSound ==
  ASSUME Sound, NEW server \in {"main", "vhost"}, NEW within \in SUBSET Open,
         BeginRequest(server, within)
  PROVE  Sound'
<1> DEFINE conf == dir_config[Merged(server)]
           kept == {w \in ToSet(written) : w.scope # "htaccess"}
           libraries == {l \in ToSet(loaded) : l.library # "htaccess"}
<1>1. /\ stage = "serving" /\ (server = "vhost" => "vhost" \in DOMAIN dir_config)
      /\ r' = [NoRequest EXCEPT !.phase = "read", !.count = r.count + 1, !.server = server,
                                !.within = within, !.dconf = conf]
      /\ current' = "main" /\ last' = Nothing /\ ran' = <<>>
      /\ written' = Those(written, kept) /\ loaded' = Those(loaded, libraries)
      /\ dir_config' = [s \in DOMAIN dir_config \ {"htaccess"} |-> dir_config[s]]
      /\ UNCHANGED <<ruby, apache2, topic, stage, sections, default_safe_level, server_config,
                     required>>
  BY DEF BeginRequest, RequestStays
<1>2. conf \in DirConfigs(AllScopes) /\ server \in DOMAIN dir_config
  BY <1>1, ServerConfigured, SoundFacts
<1> HIDE DEF conf, kept, libraries
<1>3. /\ r' \in RequestRecords /\ r'.server = server /\ r'.within = within
      /\ r'.dconf = conf
  <2>1. "read" \in ToSet(Order) /\ r.count + 1 \in Nat /\ within \in SUBSET Sections
    BY OrderSet, SoundRequest, SectionsConfigured DEF RequestRecords
  <2>2. r' = [phase |-> "read", count |-> r.count + 1, server |-> server, within |-> within,
              dconf |-> conf, ruby_init_ran |-> FALSE, object |-> FALSE, output_mode |-> NULL]
    BY <1>1 DEF NoRequest
  <2>3. QED
    BY <1>2, <2>1, <2>2 DEF RequestRecords, Settings
<1>4. last' \in FoundRecords
  <2>1. <<>> \in Paths
    BY EmptySeq DEF Paths
  <2>2. QED
    BY <1>1, <2>1, OrderSet DEF Nothing, FoundRecords, Settings
<1>5. written' \in Seq(LineRecords) /\ loaded' \in Seq(LibraryRecords) /\ ran' \in Seq(RunRecords)
  <2>1. written \in Seq(LineRecords) /\ loaded \in Seq(LibraryRecords)
    BY SoundFacts DEF Sound, TypeOK, LineRecords
  <2>2. written' \in Seq(LineRecords)
    BY <1>1, <2>1, ThoseElements
  <2>3. loaded' \in Seq(LibraryRecords)
    BY <1>1, <2>1, ThoseElements
  <2>4. QED
    BY <1>1, <2>2, <2>3, EmptySeq
<1>6. /\ DOMAIN dir_config' = DOMAIN dir_config \ {"htaccess"}
      /\ dir_config' \in [DOMAIN dir_config' -> DirConfigs(AllScopes)]
  BY <1>1, SoundFacts
<1>7. TypeOK'
  BY <1>1, <1>3, <1>4, <1>5, <1>6 DEF Sound, TypeOK, RequestRecords, FoundRecords, LineRecords,
    LibraryRecords, RunRecords, AllScopes
<1>8. Structure'
  <2>1. Open' = Open
    BY <1>1 DEF Open
  <2>2. "htaccess" \notin Sections
    BY Names
  <2>3. \A i \in DOMAIN sections : sections[i].server \in DOMAIN dir_config'
    <3>1. ASSUME NEW i \in DOMAIN sections
          PROVE  sections[i].server \in {"main", "vhost"} /\ sections[i].server \in DOMAIN dir_config
      <4>1. sections[i] \in ToSet(sections)
        BY <3>1, SectionsConfigured, SetFacts
      <4>2. QED
        BY <4>1, SectionsConfigured DEF SectionRecords
    <3>2. QED
      BY <1>6, <3>1
  <2>4. QED
    BY <1>1, <1>2, <1>3, <1>6, <2>1, <2>2, <2>3, SoundFacts DEF Sound, Structure
<1>9. QED
  BY <1>7, <1>8 DEF Sound

-----------------------------------------------------------------------------
LEMMA SoundStep == Sound /\ [Next]_vars => Sound'
<1> SUFFICES ASSUME Sound, [Next]_vars PROVE Sound'
  OBVIOUS
<1>1. CASE \/ RubyKanjiCode \/ RubyOutputMode \/ RubyTimeOut \/ RubyRestrictDirectives
           \/ RubyPassEnv \/ RubyAddPath \/ \E phase \in Phases : RubyHandler(phase)
  BY <1>1, SettingsTaken, DirectiveTakenSound
<1>2. CASE RubySetEnv \/ RubyRequire \/ \E level \in Levels : RubySafeLevel(level)
  BY <1>2, SetEnvTaken, RequireTaken, SafeLevelTaken, DirectiveTakenSound
<1>3. CASE RefusedLine
  BY <1>3, RefusedSound
<1>4. CASE OpenVirtualHost \/ OpenHtaccess \/ \E kind \in {"Directory", "Location"} : OpenSection(kind)
  BY <1>4, OpenVirtualHostSound, OpenHtaccessSound, OpenSectionSound
<1>5. CASE CloseSection \/ EndOfFile \/ InitInterpreter
  BY <1>5, CloseSectionSound, EndOfFileSound, InitInterpreterSound
<1>6. CASE \E server \in {"main", "vhost"}, within \in SUBSET Open : BeginRequest(server, within)
  BY <1>6, BeginRequestSound
<1>7. CASE PostReadRequest \/ NoTranslation \/ EndOfWalks
  BY <1>7, PostReadSound
<1>8. CASE \E phase \in Phases \cup {"late_init"} : Phase(phase)
  BY <1>8, PhaseSound
<1>9. CASE Idle \/ UNCHANGED vars
  <2>1. UNCHANGED vars
    BY <1>9 DEF Idle
  <2>2. QED
    BY <2>1 DEF Sound, TypeOK, Structure, vars, Open
<1>10. QED
  BY <1>1, <1>2, <1>3, <1>4, <1>5, <1>6, <1>7, <1>8, <1>9 DEF Next

\* Every variable has its type, while the file is read, while the interpreter
\* starts and through every request.
THEOREM TypeCorrect == Spec => []TypeOK
<1>1. Sound => TypeOK
  BY DEF Sound
<1>2. QED
  BY InitSound, SoundStep, <1>1, PTL DEF Spec
===========================================================================
