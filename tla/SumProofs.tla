------------------------------ MODULE SumProofs ------------------------------
(***************************************************************************)
(* Sums over finite sets, as the folds of the community modules form them. *)
(* Such a fold takes the members of a set in the order CHOOSE names them,  *)
(* by a recursive function on the subsets, so that even what any two sums  *)
(* have in common is a fact about this function.  A law of sums is a       *)
(* property of all subsets of a finite set, and the least subset without   *)
(* it would be a contradiction (SubsetInduction).                          *)
(*                                                                         *)
(* Folds along sequences are such folds over the set of positions, which   *)
(* takes the greatest of a set first.  They are followed here position by  *)
(* position (FoldAlong), so that a fold of s with one more member at the   *)
(* end is one more step, and a law of folds holds of every sequence when   *)
(* it holds of the empty one and is kept by one more member                *)
(* (SequenceInduction).                                                    *)
(***************************************************************************)
EXTENDS Integers, Sequences, FiniteSetsExt, Functions, FiniteSetTheorems, TLAPS

\* g is the running sum of f: it takes the elements of each subset of S in
\* the order CHOOSE names them.
Adds(g, f, S) ==
  g = [s \in SUBSET S |->
         IF s = {} THEN 0
         ELSE f[CHOOSE x \in s : TRUE] + g[s \ {CHOOSE x \in s : TRUE}]]

RunningSum(f, S) == CHOOSE g : Adds(g, f, S)

\* A sum is the running sum at the whole domain.
LEMMA SumIsRunning ==
  ASSUME NEW f
  PROVE  SumFunction(f) = RunningSum(f, DOMAIN f)[DOMAIN f]
BY DEF SumFunction, SumFunctionOnSet, FoldFunctionOnSet, MapThenFoldSet, Adds, RunningSum

\* What holds of a set when it holds of all its smaller subsets holds of every
\* subset of a finite set.
LEMMA SubsetInduction ==
  ASSUME NEW S, IsFiniteSet(S),
         NEW Good \in SUBSET SUBSET S,
         \A X \in SUBSET S : (\A Y \in SUBSET X : Y # X => Y \in Good) => X \in Good
  PROVE  Good = SUBSET S
<1> SUFFICES ASSUME Good # SUBSET S PROVE FALSE
  OBVIOUS
<1> DEFINE T == (SUBSET S) \ Good
<1>1. T \subseteq SUBSET S /\ T # {}
  OBVIOUS
<1>2. IsWellFoundedOn(StrictSubsetOrdering(S), SUBSET S)
  <2>1. FiniteSubsetsOf(S) = SUBSET S
    BY FS_FiniteSubsetsOfFinite
  <2>2. IsWellFoundedOn(StrictSubsetOrdering(S), FiniteSubsetsOf(S))
    BY FS_StrictSubsetOrderingWellFounded
  <2> QED
    BY <2>1, <2>2, Zenon
<1> HIDE DEF T
<1>3. PICK X \in T : \A Y \in T : <<Y, X>> \notin StrictSubsetOrdering(S)
  BY <1>1, <1>2, WFMin
<1>4. \A Y \in T : ~ (Y \subseteq X /\ Y # X)
  <2> TAKE Y \in T
  <2>1. <<Y, X>> \in (SUBSET S) \X (SUBSET S)
    BY <1>1
  <2> QED
    BY <2>1, <1>3 DEF StrictSubsetOrdering
<1>5. \A Y \in SUBSET X : Y # X => Y \in Good
  BY <1>4, <1>1 DEF T
<1> QED
  BY <1>5 DEF T

\* Two running sums of functions that agree agree.
LEMMA RunningUnique ==
  ASSUME NEW S, IsFiniteSet(S), NEW A, NEW B, NEW f, NEW e, NEW g, NEW h,
         S \subseteq A, S \subseteq B,
         \A x \in S : f[x] = e[x],
         Adds(g, f, A), Adds(h, e, B)
  PROVE  \A s \in SUBSET S : g[s] = h[s]
<1> DEFINE Good == {s \in SUBSET S : g[s] = h[s]}
<1>1. ASSUME NEW X \in SUBSET S, \A Y \in SUBSET X : Y # X => Y \in Good
      PROVE  X \in Good
  <2> DEFINE c == CHOOSE x \in X : TRUE
  <2>1. g[X] = IF X = {} THEN 0 ELSE f[c] + g[X \ {c}]
    BY DEF Adds
  <2>2. h[X] = IF X = {} THEN 0 ELSE e[c] + h[X \ {c}]
    BY DEF Adds
  <2>3. CASE X = {}
    BY <2>1, <2>2, <2>3
  <2>4. CASE X # {}
    <3>1. c \in X
      BY <2>4
    <3> HIDE DEF c
    <3>2. X \ {c} \in Good
      BY <3>1, <1>1
    <3> QED
      BY <2>1, <2>2, <2>4, <3>1, <3>2
  <2> QED
    BY <2>3, <2>4
<1> HIDE DEF Good
<1>2. Good \in SUBSET SUBSET S
  BY DEF Good
<1>3. Good = SUBSET S
  BY <1>1, <1>2, SubsetInduction
<1> QED
  BY <1>3 DEF Good

\* A finite set has a running sum.
LEMMA RunningExists ==
  ASSUME NEW S, IsFiniteSet(S), NEW f
  PROVE  Adds(RunningSum(f, S), f, S)
<1> DEFINE Good == {s \in SUBSET S : \E g : Adds(g, f, s)}
<1>1. ASSUME NEW X \in SUBSET S, \A Y \in SUBSET X : Y # X => Y \in Good
      PROVE  X \in Good
  <2> DEFINE c == CHOOSE x \in X : TRUE
             below == {Y \in SUBSET X : Y # X}
             part == [Y \in below |-> CHOOSE g : Adds(g, f, Y)]
             G == [s \in SUBSET X |-> IF s = X
                     THEN IF X = {} THEN 0 ELSE f[c] + part[X \ {c}][X \ {c}]
                     ELSE part[s][s]]
  <2>1. \A Y \in below : Adds(part[Y], f, Y)
    BY <1>1
  <2>2. \A Y \in below : \A Z \in SUBSET Y : part[Y][Z] = part[Z][Z]
    <3> TAKE Y \in below
    <3> TAKE Z \in SUBSET Y
    <3>1. Z \in below
      OBVIOUS
    <3>2. IsFiniteSet(Z)
      BY FS_Subset
    <3> HIDE DEF part, below
    <3>3. \A s \in SUBSET Z : part[Y][s] = part[Z][s]
      BY <2>1, <3>1, <3>2, RunningUnique
    <3> QED
      BY <3>3
  <2>3. ASSUME NEW s \in SUBSET X
        PROVE  G[s] = IF s = {} THEN 0
                      ELSE f[CHOOSE x \in s : TRUE] + G[s \ {CHOOSE x \in s : TRUE}]
    <3> DEFINE d == CHOOSE x \in s : TRUE
    <3>1. CASE s = X
      <4>1. CASE X = {}
        BY <4>1, <3>1
      <4>2. CASE X # {}
        <5>1. d = c /\ d \in X
          BY <3>1, <4>2
        <5> HIDE DEF c, d, part
        <5>2. G[s] = f[c] + part[X \ {c}][X \ {c}]
          BY <3>1, <4>2
        <5>3. G[X \ {c}] = part[X \ {c}][X \ {c}]
          BY <5>1
        <5> QED
          BY <5>1, <5>2, <5>3, <3>1, <4>2 DEF d
      <4> QED
        BY <4>1, <4>2
    <3>2. CASE s # X
      <4>1. s \in below
        BY <3>2
      <4>2. G[s] = part[s][s]
        BY <3>2
      <4>3. part[s][s] = IF s = {} THEN 0 ELSE f[d] + part[s][s \ {d}]
        <5> HIDE DEF part, below
        <5> QED BY <2>1, <4>1 DEF Adds
      <4>4. CASE s = {}
        BY <4>2, <4>3, <4>4
      <4>5. CASE s # {}
        <5>1. d \in s
          BY <4>5
        <5> HIDE DEF d
        <5>2. part[s][s \ {d}] = part[s \ {d}][s \ {d}]
          <6> HIDE DEF part, below
          <6> QED BY <4>1, <2>2
        <5>3. G[s \ {d}] = part[s \ {d}][s \ {d}]
          <6> HIDE DEF part
          <6> QED BY <5>1
        <5> HIDE DEF G, part
        <5> QED
          BY <4>2, <4>3, <4>5, <5>2, <5>3 DEF d
      <4> QED
        BY <4>4, <4>5
    <3> QED
      BY <3>1, <3>2
  <2>4. DOMAIN G = SUBSET X
    OBVIOUS
  <2>5. G = [s \in SUBSET X |-> G[s]]
    BY <2>4
  <2> HIDE DEF G
  <2>6. Adds(G, f, X)
    BY <2>3, <2>5 DEF Adds
  <2> QED
    BY <2>6
<1> HIDE DEF Good
<1>2. Good \in SUBSET SUBSET S
  BY DEF Good
<1>3. Good = SUBSET S
  BY <1>1, <1>2, SubsetInduction
<1>4. \E g : Adds(g, f, S)
  BY <1>3 DEF Good
<1> QED
  BY <1>4 DEF RunningSum

\* The running sum of a function into the integers is an integer.
LEMMA RunningType ==
  ASSUME NEW S, IsFiniteSet(S), NEW f \in [S -> Int]
  PROVE  \A s \in SUBSET S : RunningSum(f, S)[s] \in Int
<1> DEFINE g == RunningSum(f, S)
           Good == {s \in SUBSET S : g[s] \in Int}
<1> HIDE DEF g
<1>0. Adds(g, f, S)
  BY RunningExists DEF g
<1>1. ASSUME NEW X \in SUBSET S, \A Y \in SUBSET X : Y # X => Y \in Good
      PROVE  X \in Good
  <2> DEFINE c == CHOOSE x \in X : TRUE
  <2>1. g[X] = IF X = {} THEN 0 ELSE f[c] + g[X \ {c}]
    BY <1>0 DEF Adds
  <2>2. CASE X = {}
    BY <2>1, <2>2
  <2>3. CASE X # {}
    <3>1. c \in X
      BY <2>3
    <3> HIDE DEF c
    <3>2. g[X \ {c}] \in Int /\ f[c] \in Int
      BY <3>1, <1>1
    <3> QED
      BY <2>1, <2>3, <3>2
  <2> QED
    BY <2>2, <2>3
<1> HIDE DEF Good
<1>2. Good \in SUBSET SUBSET S
  BY DEF Good
<1>3. Good = SUBSET S
  BY <1>1, <1>2, SubsetInduction
<1> QED
  BY <1>3 DEF Good, g

\* The running sum of a function into the naturals is a natural.
LEMMA RunningNat ==
  ASSUME NEW S, IsFiniteSet(S), NEW f \in [S -> Nat]
  PROVE  \A s \in SUBSET S : RunningSum(f, S)[s] \in Nat
<1> DEFINE g == RunningSum(f, S)
           Good == {s \in SUBSET S : g[s] \in Nat}
<1> HIDE DEF g
<1>0. Adds(g, f, S)
  BY RunningExists DEF g
<1>1. ASSUME NEW X \in SUBSET S, \A Y \in SUBSET X : Y # X => Y \in Good
      PROVE  X \in Good
  <2> DEFINE c == CHOOSE x \in X : TRUE
  <2>1. g[X] = IF X = {} THEN 0 ELSE f[c] + g[X \ {c}]
    BY <1>0 DEF Adds
  <2>2. CASE X = {}
    BY <2>1, <2>2
  <2>3. CASE X # {}
    <3>1. c \in X
      BY <2>3
    <3> HIDE DEF c
    <3>2. g[X \ {c}] \in Nat /\ f[c] \in Nat
      BY <3>1, <1>1
    <3> QED
      BY <2>1, <2>3, <3>2
  <2> QED
    BY <2>2, <2>3
<1> HIDE DEF Good
<1>2. Good \in SUBSET SUBSET S
  BY DEF Good
<1>3. Good = SUBSET S
  BY <1>1, <1>2, SubsetInduction
<1> QED
  BY <1>3 DEF Good, g

\* Any element may be taken out first.
LEMMA RunningTakes ==
  ASSUME NEW S, IsFiniteSet(S), NEW f \in [S -> Int]
  PROVE  \A s \in SUBSET S : \A x \in s :
           RunningSum(f, S)[s] = f[x] + RunningSum(f, S)[s \ {x}]
<1> DEFINE g == RunningSum(f, S)
           Good == {s \in SUBSET S : \A x \in s : g[s] = f[x] + g[s \ {x}]}
<1> HIDE DEF g
<1>0. Adds(g, f, S) /\ \A s \in SUBSET S : g[s] \in Int
  BY RunningExists, RunningType DEF g
<1>1. ASSUME NEW X \in SUBSET S, \A Y \in SUBSET X : Y # X => Y \in Good
      PROVE  X \in Good
  <2> SUFFICES ASSUME NEW x \in X PROVE g[X] = f[x] + g[X \ {x}]
    OBVIOUS
  <2> DEFINE c == CHOOSE y \in X : TRUE
  <2>1. g[X] = f[c] + g[X \ {c}]
    BY <1>0 DEF Adds
  <2>2. c \in X
    OBVIOUS
  <2> HIDE DEF c
  <2>3. CASE x = c
    BY <2>1, <2>3
  <2>4. CASE x # c
    <3> DEFINE Y == X \ {c}  Z == X \ {x}  W == (X \ {c}) \ {x}
    <3>1. Y \in Good /\ Z \in Good
      BY <1>1, <2>2
    <3>2. g[Y] = f[x] + g[W]
      BY <3>1, <2>4
    <3>3. g[Z] = f[c] + g[W]
      <4>1. g[Z] = f[c] + g[Z \ {c}]
        BY <3>1, <2>2, <2>4
      <4>2. Z \ {c} = W
        OBVIOUS
      <4> QED
        BY <4>1, <4>2
    <3>4. g[W] \in Int /\ f[x] \in Int /\ f[c] \in Int
      BY <1>0, <2>2
    <3> HIDE DEF W
    <3> QED
      BY <2>1, <3>2, <3>3, <3>4
  <2> QED
    BY <2>3, <2>4
<1> HIDE DEF Good
<1>2. Good \in SUBSET SUBSET S
  BY DEF Good
<1>3. Good = SUBSET S
  BY <1>1, <1>2, SubsetInduction
<1> QED
  BY <1>3 DEF Good, g
-----------------------------------------------------------------------------
(* Folds along a sequence, as FoldLeft forms them: a recursive function on *)
(* the subsets of the sequence's domain that takes the greatest index out. *)

\* CountingUp up to n.
LEMMA CountingUp ==
  ASSUME NEW n \in Nat, NEW Good \in SUBSET (0 .. n), 0 \in Good,
         \A k \in 1 .. n : k - 1 \in Good => k \in Good
  PROVE  Good = 0 .. n
<1> DEFINE Fine == {X \in SUBSET (0 .. n) : \A k \in 0 .. n : X = 0 .. k => k \in Good}
<1>1. ASSUME NEW X \in SUBSET (0 .. n), \A Y \in SUBSET X : Y # X => Y \in Fine
      PROVE  X \in Fine
  <2> SUFFICES ASSUME NEW k \in 0 .. n, X = 0 .. k PROVE k \in Good
    OBVIOUS
  <2>1. CASE k = 0
    BY <2>1
  <2>2. CASE k # 0
    <3> DEFINE Y == 0 .. k - 1
    <3>1. Y \in SUBSET X /\ Y # X /\ k - 1 \in 0 .. n /\ k \in 1 .. n
      <4>1. k \in X /\ k \notin Y /\ k - 1 \in 0 .. n /\ k \in 1 .. n
        BY <2>2
      <4>2. Y \subseteq X
        OBVIOUS
      <4> QED
        BY <4>1, <4>2
    <3>2. Y \in Fine
      BY <1>1, <3>1
    <3>3. k - 1 \in Good
      BY <3>1, <3>2
    <3> QED
      BY <3>1, <3>3
  <2> QED
    BY <2>1, <2>2
<1> HIDE DEF Fine
<1>2. Fine \in SUBSET SUBSET (0 .. n) /\ IsFiniteSet(0 .. n)
  BY FS_Interval DEF Fine
<1>3. Fine = SUBSET (0 .. n)
  BY <1>1, <1>2, SubsetInduction
<1>4. ASSUME NEW k \in 0 .. n PROVE k \in Good
  <2>1. 0 .. k \in SUBSET (0 .. n)
    OBVIOUS
  <2> QED
    BY <1>3, <2>1 DEF Fine
<1> QED
  BY <1>4

\* A set of positions has a last one.
LEMMA LastOfSet ==
  ASSUME NEW n \in Nat, NEW t \in SUBSET (1 .. n), t # {}
  PROVE  /\ Max(t) \in t
         /\ \A y \in t : y <= Max(t)
<1> DEFINE Good == {k \in 0 .. n : \A u \in SUBSET (1 .. k) :
                                    u # {} => \E x \in u : \A y \in u : x >= y}
<1>1. 0 \in Good
  <2>1. \A u \in SUBSET (1 .. 0) : u = {}
    OBVIOUS
  <2>2. 0 \in 0 .. n
    OBVIOUS
  <2> QED
    BY <2>1, <2>2
<1>2. ASSUME NEW k \in 1 .. n, k - 1 \in Good PROVE k \in Good
  <2> SUFFICES ASSUME NEW u \in SUBSET (1 .. k), u # {} PROVE \E x \in u : \A y \in u : x >= y
    OBVIOUS
  <2>1. CASE k \in u
    BY <2>1
  <2>2. CASE k \notin u
    <3>1. u \in SUBSET (1 .. (k - 1))
      BY <2>2
    <3> QED
      BY <1>2, <3>1
  <2> QED
    BY <2>1, <2>2
<1>3. Good \in SUBSET (0 .. n)
  OBVIOUS
<1> HIDE DEF Good
<1>4. n \in Good
  BY <1>1, <1>2, <1>3, CountingUp
<1>5. \E x \in t : \A y \in t : x >= y
  BY <1>4 DEF Good
<1>6. t \subseteq Int
  OBVIOUS
<1> QED
  BY <1>5, <1>6 DEF Max

\* h follows the fold by F from b along the members of s at the positions in t.
FoldsAlong(h, F, b, s, t) ==
  /\ h[0] = b
  /\ \A k \in 1 .. Len(s) : h[k] = IF k \in t THEN F[<<h[k - 1], s[k]>>] ELSE h[k - 1]

FoldAlong(F, b, s, t) == CHOOSE h : FoldsAlong(h, F, b, s, t)

\* The fold by F from b along the whole of s.
Folded(F, b, s) == FoldAlong(F, b, s, 1 .. Len(s))[Len(s)]

\* A fold is there to be followed.
LEMMA FoldAlongExists ==
  ASSUME NEW F, NEW b, NEW s, Len(s) \in Nat, NEW t
  PROVE  FoldsAlong(FoldAlong(F, b, s, t), F, b, s, t)
<1> DEFINE n == Len(s)
           Up(h, k) == /\ h[0] = b
                       /\ \A j \in 1 .. k :
                            h[j] = IF j \in t THEN F[<<h[j - 1], s[j]>>] ELSE h[j - 1]
           Good == {k \in 0 .. n : \E h : Up(h, k)}
<1>1. 0 \in Good
  <2> DEFINE none == [j \in {0} |-> b]
  <2>1. none[0] = b /\ \A j \in 1 .. 0 : FALSE
    OBVIOUS
  <2> HIDE DEF none
  <2>2. Up(none, 0)
    BY <2>1
  <2> QED
    BY <2>2
<1>2. ASSUME NEW k \in 1 .. n, k - 1 \in Good PROVE k \in Good
  <2>1. PICK h : Up(h, k - 1)
    BY <1>2
  <2> DEFINE x == IF k \in t THEN F[<<h[k - 1], s[k]>>] ELSE h[k - 1]
             g == [j \in 0 .. k |-> IF j = k THEN x ELSE h[j]]
  <2>2. g[k] = x /\ \A j \in 0 .. k - 1 : g[j] = h[j]
    OBVIOUS
  <2> HIDE DEF g
  <2>3. g[0] = b
    BY <2>1, <2>2
  <2>4. ASSUME NEW j \in 1 .. k
        PROVE  g[j] = IF j \in t THEN F[<<g[j - 1], s[j]>>] ELSE g[j - 1]
    <3>1. g[j - 1] = h[j - 1]
      BY <2>2
    <3>2. CASE j = k
      BY <2>2, <3>1, <3>2
    <3>3. CASE j # k
      <4>1. j \in 1 .. k - 1 /\ j \in 0 .. k - 1
        BY <3>3
      <4>2. g[j] = h[j]
        BY <2>2, <4>1
      <4> QED
        BY <2>1, <3>1, <4>1, <4>2
    <3> QED
      BY <3>2, <3>3
  <2> QED
    BY <2>3, <2>4
<1>3. Good \in SUBSET (0 .. n)
  OBVIOUS
<1> HIDE DEF Good
<1>4. n \in Good
  BY <1>1, <1>2, <1>3, CountingUp
<1>5. \E h : FoldsAlong(h, F, b, s, t)
  BY <1>4 DEF Good, FoldsAlong
<1> QED
  BY <1>5 DEF FoldAlong

SameUpTo(s, t, r, u, m) ==
  /\ Len(s) \in Nat /\ Len(r) \in Nat /\ m \in Nat /\ m <= Len(s) /\ m <= Len(r)
  /\ \A k \in 1 .. m : s[k] = r[k] /\ (k \in t <=> k \in u)

FoldsAgree(F, b, s, t, r, u, h, g, m) ==
  SameUpTo(s, t, r, u, m) /\ FoldsAlong(h, F, b, s, t) /\ FoldsAlong(g, F, b, r, u)
    => \A k \in 0 .. m : h[k] = g[k]

\* Folds of sequences and positions that agree up to m agree up to m.
LEMMA FoldsAlongAgree ==
  \A F, b, s, t, r, u, h, g, m : FoldsAgree(F, b, s, t, r, u, h, g, m)
<1> SUFFICES ASSUME NEW F, NEW b, NEW s, NEW t, NEW r, NEW u, NEW h, NEW g, NEW m,
                    SameUpTo(s, t, r, u, m), FoldsAlong(h, F, b, s, t), FoldsAlong(g, F, b, r, u)
             PROVE  \A k \in 0 .. m : h[k] = g[k]
  BY DEF FoldsAgree
<1> USE DEF SameUpTo
<1> DEFINE Good == {k \in 0 .. m : h[k] = g[k]}
<1>1. 0 \in Good
  BY DEF FoldsAlong
<1>2. ASSUME NEW k \in 1 .. m, k - 1 \in Good PROVE k \in Good
  <2>1. k \in 1 .. Len(s) /\ k \in 1 .. Len(r)
    OBVIOUS
  <2>2. h[k] = IF k \in t THEN F[<<h[k - 1], s[k]>>] ELSE h[k - 1]
    BY <2>1 DEF FoldsAlong
  <2>3. g[k] = IF k \in u THEN F[<<g[k - 1], r[k]>>] ELSE g[k - 1]
    BY <2>1 DEF FoldsAlong
  <2> QED
    BY <1>2, <2>2, <2>3
<1>3. Good \in SUBSET (0 .. m)
  OBVIOUS
<1> HIDE DEF Good
<1>4. Good = 0 .. m
  BY <1>1, <1>2, <1>3, CountingUp
<1> QED
  BY <1>4 DEF Good

FoldStays(F, b, s, t, h, m) ==
  Len(s) \in Nat /\ FoldsAlong(h, F, b, s, t) /\ m \in Nat /\ m <= Len(s) /\ (\A k \in t : k <= m)
    => h[Len(s)] = h[m]

\* Nothing changes where nothing is taken.
LEMMA FoldAlongStays == \A F, b, s, t, h, m : FoldStays(F, b, s, t, h, m)
<1> TAKE F, b, s, t, h, m
<1> SUFFICES ASSUME Len(s) \in Nat, FoldsAlong(h, F, b, s, t), m \in Nat, m <= Len(s),
                    \A k \in t : k <= m
             PROVE  h[Len(s)] = h[m]
  BY Zenon DEF FoldStays
<1> DEFINE n == Len(s)
           Good == {k \in 0 .. n : k >= m => h[k] = h[m]}
<1>1. 0 \in Good
  OBVIOUS
<1>2. ASSUME NEW k \in 1 .. n, k - 1 \in Good PROVE k \in Good
  <2>1. CASE k <= m
    BY <2>1
  <2>2. CASE k > m
    <3>1. k \notin t
      BY <2>2
    <3>2. h[k] = h[k - 1]
      BY <3>1 DEF FoldsAlong
    <3> QED
      BY <1>2, <2>2, <3>2
  <2> QED
    BY <2>1, <2>2
<1>3. Good \in SUBSET (0 .. n)
  OBVIOUS
<1> HIDE DEF Good
<1>4. n \in Good
  BY <1>1, <1>2, <1>3, CountingUp
<1> QED
  BY <1>4 DEF Good

\* What a fold by a function on A and E may be.
LEMMA FoldAlongType ==
  ASSUME NEW A, NEW E, NEW F \in [A \X E -> A], NEW b \in A,
         NEW s, Len(s) \in Nat, \A k \in 1 .. Len(s) : s[k] \in E,
         NEW t, NEW h, FoldsAlong(h, F, b, s, t)
  PROVE  \A k \in 0 .. Len(s) : h[k] \in A
<1> DEFINE n == Len(s)
           Good == {k \in 0 .. n : h[k] \in A}
<1>1. 0 \in Good
  BY DEF FoldsAlong
<1>2. ASSUME NEW k \in 1 .. n, k - 1 \in Good PROVE k \in Good
  <2>1. h[k] = IF k \in t THEN F[<<h[k - 1], s[k]>>] ELSE h[k - 1]
    BY DEF FoldsAlong
  <2>2. <<h[k - 1], s[k]>> \in A \X E
    BY <1>2
  <2> QED
    BY <1>2, <2>1, <2>2
<1>3. Good \in SUBSET (0 .. n)
  OBVIOUS
<1> HIDE DEF Good
<1>4. Good = 0 .. n
  BY <1>1, <1>2, <1>3, CountingUp
<1> QED
  BY <1>4 DEF Good

\* What FoldLeft computes along s: it takes the last position of a set out.
PeelsLast(g, F, b, s) ==
  \A t \in SUBSET (1 .. Len(s)) :
    g[t] = IF t = {} THEN b ELSE F[<<g[t \ {Max(t)}], s[Max(t)]>>]

\* A fold is there.
LEMMA PeelingExists ==
  ASSUME NEW A, NEW E, NEW F \in [A \X E -> A], NEW b \in A, NEW s \in Seq(E)
  PROVE  \E g \in [SUBSET (1 .. Len(s)) -> A] : PeelsLast(g, F, b, s)
<1> DEFINE n == Len(s)
           g == [t \in SUBSET (1 .. n) |-> FoldAlong(F, b, s, t)[n]]
<1>1. n \in Nat /\ n \in 0 .. n /\ \A k \in 1 .. n : s[k] \in E
  OBVIOUS
<1>2. ASSUME NEW t \in SUBSET (1 .. n)
      PROVE  FoldsAlong(FoldAlong(F, b, s, t), F, b, s, t) /\ g[t] = FoldAlong(F, b, s, t)[n]
  BY <1>1, FoldAlongExists
<1>3. g \in [SUBSET (1 .. n) -> A]
  <2> SUFFICES ASSUME NEW t \in SUBSET (1 .. n) PROVE FoldAlong(F, b, s, t)[n] \in A
    OBVIOUS
  <2>1. FoldsAlong(FoldAlong(F, b, s, t), F, b, s, t)
    BY <1>2
  <2> QED
    BY <1>1, <2>1, FoldAlongType
<1> HIDE DEF g
<1>4. ASSUME NEW t \in SUBSET (1 .. n)
      PROVE  g[t] = IF t = {} THEN b ELSE F[<<g[t \ {Max(t)}], s[Max(t)]>>]
  <2> DEFINE h == FoldAlong(F, b, s, t)
  <2>1. g[t] = h[n] /\ FoldsAlong(h, F, b, s, t)
    BY <1>2
  <2> HIDE DEF h
  <2>2. CASE t = {}
    <3>1. 0 \in Nat /\ 0 <= n /\ \A k \in t : k <= 0
      BY <1>1, <2>2
    <3>2. h[n] = h[0]
      <4>1. FoldStays(F, b, s, t, h, 0)
        BY FoldAlongStays
      <4> QED
        BY <1>1, <2>1, <3>1, <4>1 DEF FoldStays
    <3>3. h[0] = b
      BY <2>1 DEF FoldsAlong
    <3> QED
      BY <2>1, <2>2, <3>2, <3>3
  <2>3. CASE t # {}
    <3> DEFINE m == Max(t)  u == t \ {m}  f == FoldAlong(F, b, s, u)
    <3>1. m \in t /\ m \in 1 .. n /\ \A k \in t : k <= m
      BY <1>1, <2>3, LastOfSet
    <3> HIDE DEF m
    <3>2. /\ m \in Nat /\ m <= n /\ m - 1 \in Nat /\ m - 1 <= n /\ m - 1 \in 0 .. m - 1
          /\ u \in SUBSET (1 .. n) /\ \A k \in u : k <= m - 1
          /\ \A k \in 1 .. m - 1 : s[k] = s[k] /\ (k \in t <=> k \in u)
      BY <1>1, <3>1
    <3>3. FoldsAlong(f, F, b, s, u) /\ g[u] = f[n]
      BY <1>2, <3>2
    <3> HIDE DEF f, u
    <3>4. h[n] = h[m]
      <4>1. FoldStays(F, b, s, t, h, m)
        BY FoldAlongStays
      <4> QED
        BY <1>1, <2>1, <3>1, <3>2, <4>1 DEF FoldStays
    <3>5. f[n] = f[m - 1]
      <4>1. FoldStays(F, b, s, u, f, m - 1)
        BY FoldAlongStays
      <4> QED
        BY <1>1, <3>2, <3>3, <4>1 DEF FoldStays
    <3>6. \A k \in 0 .. m - 1 : h[k] = f[k]
      <4>1. SameUpTo(s, t, s, u, m - 1)
        BY <1>1, <3>2 DEF SameUpTo
      <4>2. FoldsAgree(F, b, s, t, s, u, h, f, m - 1)
        BY FoldsAlongAgree
      <4> QED
        BY <2>1, <3>3, <4>1, <4>2 DEF FoldsAgree
    <3>7. h[m] = F[<<h[m - 1], s[m]>>]
      BY <2>1, <3>1 DEF FoldsAlong
    <3>8. g[t] = F[<<g[u], s[m]>>]
      BY <2>1, <3>2, <3>3, <3>4, <3>5, <3>6, <3>7
    <3> QED
      BY <2>3, <3>8 DEF u, m
  <2> QED
    BY <2>2, <2>3
<1>5. PeelsLast(g, F, b, s)
  BY <1>4 DEF PeelsLast
<1> QED
  BY <1>3, <1>5

PeelsWithin(g, F, b, s, A, E) ==
  /\ s \in Seq(E) /\ g[{}] = b
  /\ \A t \in SUBSET (1 .. Len(s)) :
       t # {} /\ g[t \ {Max(t)}] \in A => g[t] = F[<<g[t \ {Max(t)}], s[Max(t)]>>]

EndsAs(g, F, b, s) == g[1 .. Len(s)] = Folded(F, b, s)

\* Whatever does what the fold does where the fold stays in A is the fold.
LEMMA PeelingIsFold ==
  ASSUME NEW A, NEW E, NEW F \in [A \X E -> A], NEW b \in A, NEW s, NEW g,
         PeelsWithin(g, F, b, s, A, E)
  PROVE  EndsAs(g, F, b, s)
<1> DEFINE n == Len(s)
           h == FoldAlong(F, b, s, 1 .. n)
           Good == {k \in 0 .. n : g[1 .. k] = h[k]}
<1>1. n \in Nat /\ \A k \in 1 .. n : s[k] \in E
  BY DEF PeelsWithin
<1>2. FoldsAlong(h, F, b, s, 1 .. n) /\ Folded(F, b, s) = h[n]
  BY <1>1, FoldAlongExists DEF Folded
<1> HIDE DEF h
<1>3. \A k \in 0 .. n : h[k] \in A
  BY <1>1, <1>2, FoldAlongType
<1>4. 0 \in Good
  <2>1. 1 .. 0 = {}
    OBVIOUS
  <2>2. g[1 .. 0] = b
    BY <2>1 DEF PeelsWithin
  <2> QED
    BY <2>2, <1>2 DEF FoldsAlong
<1>5. ASSUME NEW k \in 1 .. n, k - 1 \in Good PROVE k \in Good
  <2> DEFINE t == 1 .. k
  <2>1. t \in SUBSET (1 .. n) /\ t # {} /\ k \in t /\ \A y \in t : y <= k
    <3>1. k \in t
      BY <1>1
    <3>2. \A y \in t : y \in 1 .. n /\ y <= k
      BY <1>1
    <3> HIDE DEF t
    <3> QED
      BY <3>1, <3>2
  <2>2. Max(t) = k
    <3>1. Max(t) \in t /\ \A y \in t : y <= Max(t)
      BY <1>1, <2>1, LastOfSet
    <3>2. Max(t) \in 1 .. n
      BY <2>1, <3>1
    <3> QED
      BY <2>1, <3>1, <3>2
  <2>3. t \ {k} = 1 .. (k - 1)
    OBVIOUS
  <2>4. g[t \ {Max(t)}] = h[k - 1] /\ h[k - 1] \in A
    BY <1>3, <1>5, <2>2, <2>3
  <2> HIDE DEF t
  <2>5. g[t] = F[<<h[k - 1], s[k]>>]
    BY <2>1, <2>2, <2>4 DEF PeelsWithin
  <2>6. h[k] = F[<<h[k - 1], s[k]>>]
    BY <1>2, <2>1 DEF FoldsAlong
  <2> QED
    BY <2>5, <2>6 DEF t
<1>6. Good \in SUBSET (0 .. n)
  OBVIOUS
<1> HIDE DEF Good
<1>7. n \in Good
  BY <1>1, <1>4, <1>5, <1>6, CountingUp
<1> QED
  BY <1>2, <1>7 DEF Good, EndsAs

FoldsStep(F, b, A, E) ==
  /\ \A s \in Seq(E) : Folded(F, b, s) \in A
  /\ Folded(F, b, <<>>) = b
  /\ \A s \in Seq(E), e \in E : Folded(F, b, Append(s, e)) = F[<<Folded(F, b, s), e>>]

\* The fold stays in A, starts with b, and takes one more member at the end.
LEMMA FoldedFacts ==
  ASSUME NEW A, NEW E, NEW F \in [A \X E -> A], NEW b \in A
  PROVE  FoldsStep(F, b, A, E)
<1>1. ASSUME NEW s \in Seq(E) PROVE Folded(F, b, s) \in A
  <2> DEFINE h == FoldAlong(F, b, s, 1 .. Len(s))
  <2>1. Len(s) \in Nat /\ \A k \in 1 .. Len(s) : s[k] \in E
    OBVIOUS
  <2>2. FoldsAlong(h, F, b, s, 1 .. Len(s))
    BY <2>1, FoldAlongExists
  <2> HIDE DEF h
  <2>3. \A k \in 0 .. Len(s) : h[k] \in A
    BY <2>1, <2>2, FoldAlongType
  <2>4. h[Len(s)] \in A
    BY <2>1, <2>3
  <2> QED
    BY <2>4 DEF h, Folded
<1>2. Folded(F, b, <<>>) = b
  <2> DEFINE h == FoldAlong(F, b, <<>>, 1 .. Len(<<>>))
  <2>1. Len(<<>>) = 0
    OBVIOUS
  <2>2. FoldsAlong(h, F, b, <<>>, 1 .. Len(<<>>))
    BY <2>1, FoldAlongExists
  <2> HIDE DEF h
  <2>3. h[Len(<<>>)] = b
    BY <2>1, <2>2 DEF FoldsAlong
  <2> QED
    BY <2>3 DEF h, Folded
<1>3. ASSUME NEW s \in Seq(E), NEW e \in E
      PROVE  Folded(F, b, Append(s, e)) = F[<<Folded(F, b, s), e>>]
  <2> DEFINE n == Len(s)
             r == Append(s, e)
             p == 1 .. Len(s)
             q == 1 .. Len(r)
             h == FoldAlong(F, b, s, p)
             g == FoldAlong(F, b, r, q)
  <2>1. /\ n \in Nat /\ Len(r) = n + 1 /\ Len(r) \in Nat /\ r[n + 1] = e
        /\ \A k \in 1 .. n : s[k] = r[k] /\ (k \in p <=> k \in q)
    OBVIOUS
  <2> HIDE DEF r
  <2>2. FoldsAlong(h, F, b, s, p) /\ FoldsAlong(g, F, b, r, q)
    BY <2>1, FoldAlongExists
  <2>3. Folded(F, b, s) = h[n] /\ Folded(F, b, r) = g[n + 1]
    BY <2>1 DEF Folded
  <2> HIDE DEF h, g
  <2>4. h[n] = g[n]
    <3>1. n \in Nat /\ n \in 0 .. n /\ n <= Len(s) /\ n <= Len(r)
      BY <2>1
    <3> HIDE DEF p, q
    <3>2. SameUpTo(s, p, r, q, n)
      BY <2>1, <3>1 DEF SameUpTo
    <3>3. FoldsAgree(F, b, s, p, r, q, h, g, n)
      BY FoldsAlongAgree
    <3> HIDE DEF n
    <3> QED
      BY <2>2, <3>1, <3>2, <3>3 DEF FoldsAgree
  <2>5. g[n + 1] = F[<<g[n], e>>]
    <3>1. n + 1 \in 1 .. Len(r) /\ n + 1 - 1 = n
      BY <2>1
    <3> QED
      BY <2>1, <2>2, <3>1 DEF FoldsAlong
  <2> QED
    BY <2>3, <2>4, <2>5 DEF r
<1> QED
  BY <1>1, <1>2, <1>3 DEF FoldsStep

GrowsByOne(Good, E) == \A s \in Good, e \in E : Append(s, e) \in Good

\* What holds of the empty sequence, and of a sequence with one more member when
\* it holds of the sequence, holds of every sequence.
LEMMA SequenceInduction ==
  ASSUME NEW E, NEW Good \in SUBSET Seq(E), <<>> \in Good, GrowsByOne(Good, E)
  PROVE  Good = Seq(E)
<1> SUFFICES ASSUME NEW s \in Seq(E) PROVE s \in Good
  OBVIOUS
<1> DEFINE n == Len(s)
           Fine == {k \in 0 .. n : [i \in 1 .. k |-> s[i]] \in Good}
<1>0. n \in Nat /\ (\A i \in 1 .. n : s[i] \in E) /\ [i \in 1 .. n |-> s[i]] = s
  OBVIOUS
<1> HIDE DEF n
<1>1. 0 \in Fine
  <2> DEFINE a == [i \in 1 .. 0 |-> s[i]]
  <2>1. a = <<>> /\ 0 \in 0 .. n
    BY <1>0
  <2> QED
    BY <2>1
<1>2. ASSUME NEW k \in 1 .. n, k - 1 \in Fine PROVE k \in Fine
  <2> DEFINE a == [i \in 1 .. k |-> s[i]]
             b == [i \in 1 .. (k - 1) |-> s[i]]
  <2>1. b \in Good /\ s[k] \in E /\ k \in 0 .. n
    BY <1>0, <1>2
  <2>0. k \in Nat /\ k - 1 \in Nat /\ \A i \in 1 .. k : s[i] \in E
    BY <1>0
  <2>2. a \in Seq(E) /\ Len(a) = k /\ \A i \in 1 .. k : a[i] = s[i]
    <3>1. a \in [1 .. k -> E]
      BY <2>0
    <3> QED
      BY <2>0, <3>1
  <2>3. b \in Seq(E) /\ Len(b) = k - 1 /\ \A i \in 1 .. (k - 1) : b[i] = s[i]
    <3>1. b \in [1 .. (k - 1) -> E]
      BY <2>0
    <3> QED
      BY <2>0, <3>1
  <2> HIDE DEF a, b
  <2>4. a = Append(b, s[k])
    <3> DEFINE x == s[k]  c == Append(b, x)
    <3>0. x \in E /\ x = a[k] /\ k = Len(b) + 1 /\ \A i \in 1 .. Len(b) : b[i] = a[i]
      BY <2>0, <2>1, <2>2, <2>3
    <3> HIDE DEF x
    <3>1. c \in Seq(E) /\ Len(c) = Len(b) + 1
      BY <2>3, <3>0
    <3>2. c[Len(b) + 1] = x /\ \A i \in 1 .. Len(b) : c[i] = b[i]
      BY <2>3, <3>0
    <3> HIDE DEF c
    <3>3. \A i \in 1 .. k : c[i] = a[i]
      <4> TAKE i \in 1 .. k
      <4>1. i = Len(b) + 1 \/ i \in 1 .. Len(b)
        BY <2>0, <2>3
      <4> QED
        BY <3>0, <3>2, <4>1
    <3>4. a = c
      BY <2>0, <2>2, <3>0, <3>1, <3>3
    <3> QED
      BY <3>4 DEF c, x
  <2>5. a \in Good
    BY <2>1, <2>4 DEF GrowsByOne
  <2> QED
    BY <2>1, <2>5 DEF a
<1>3. Fine \in SUBSET (0 .. n)
  OBVIOUS
<1> HIDE DEF Fine
<1>4. n \in Fine
  <2>1. Fine = 0 .. n
    BY <1>0, <1>1, <1>2, <1>3, CountingUp
  <2> QED
    BY <1>0, <2>1
<1> QED
  BY <1>0, <1>4 DEF Fine

FoldsJoin(F, b, s, E) == \A r \in Seq(E) : Folded(F, b, s \o r) = Folded(F, Folded(F, b, s), r)

\* A fold along two sequences is the fold along the second from what the first gave.
LEMMA FoldedConcat ==
  ASSUME NEW A, NEW E, NEW F \in [A \X E -> A], NEW b \in A, NEW s \in Seq(E)
  PROVE  FoldsJoin(F, b, s, E)
<1> DEFINE c == Folded(F, b, s)
           Good == {r \in Seq(E) : Folded(F, b, s \o r) = Folded(F, c, r)}
<1>0. FoldsStep(F, b, A, E)
  BY FoldedFacts
<1>1. c \in A
  BY <1>0 DEF FoldsStep
<1> HIDE DEF c
<1>5. FoldsStep(F, c, A, E)
  BY <1>1, FoldedFacts
<1>2. <<>> \in Good
  <2>1. s \o <<>> = s /\ <<>> \in Seq(E)
    OBVIOUS
  <2>2. Folded(F, c, <<>>) = c
    BY <1>5 DEF FoldsStep
  <2> QED
    BY <2>1, <2>2 DEF c
<1>3. ASSUME NEW r \in Good, NEW e \in E PROVE Append(r, e) \in Good
  <2>1. r \in Seq(E) /\ s \o r \in Seq(E) /\ Append(r, e) \in Seq(E)
    OBVIOUS
  <2>2. s \o Append(r, e) = Append(s \o r, e)
    <3> DEFINE x == s \o Append(r, e)  y == Append(s \o r, e)
    <3>1. x \in Seq(E) /\ Len(x) = Len(s) + Len(r) + 1
      BY <2>1
    <3>2. y \in Seq(E) /\ Len(y) = Len(s) + Len(r) + 1
      BY <2>1
    <3>3. \A i \in 1 .. Len(s) + Len(r) + 1 : x[i] = y[i]
      BY <2>1
    <3> HIDE DEF x, y
    <3>4. x = y
      BY <3>1, <3>2, <3>3
    <3> QED
      BY <3>4 DEF x, y
  <2>3. Folded(F, b, Append(s \o r, e)) = F[<<Folded(F, b, s \o r), e>>]
    BY <2>1, <1>0 DEF FoldsStep
  <2>4. Folded(F, c, Append(r, e)) = F[<<Folded(F, c, r), e>>]
    BY <2>1, <1>5 DEF FoldsStep
  <2> QED
    BY <2>1, <2>2, <2>3, <2>4
<1>4. Good \in SUBSET Seq(E)
  OBVIOUS
<1>6. Good = Seq(E)
  <2> HIDE DEF Good
  <2> QED
    BY <1>2, <1>3, <1>4, SequenceInduction DEF GrowsByOne
<1> QED
  BY <1>6 DEF FoldsJoin, c

\* The sum along s of what w gives each member.
Adding(w, E) == [p \in Int \X E |-> p[1] + w[p[2]]]

Tally(w, E, s) == Folded(Adding(w, E), 0, s)

AddsUp(w, E) ==
  /\ \A s \in Seq(E) : Tally(w, E, s) \in Int
  /\ Tally(w, E, <<>>) = 0
  /\ \A s \in Seq(E), e \in E : Tally(w, E, Append(s, e)) = Tally(w, E, s) + w[e]
  /\ \A s, r \in Seq(E) : Tally(w, E, s \o r) = Tally(w, E, s) + Tally(w, E, r)

\* Such sums are integers, start with nothing and add up.
LEMMA TallyFacts ==
  ASSUME NEW E, NEW w \in [E -> Int]
  PROVE  AddsUp(w, E)
<1> DEFINE F == Adding(w, E)
<1>1. 0 \in Int /\ F \in [Int \X E -> Int] /\ \A a \in Int, e \in E : F[<<a, e>>] = a + w[e]
  BY DEF Adding
<1> HIDE DEF F
<1>2. /\ \A s \in Seq(E) : Folded(F, 0, s) \in Int
      /\ Folded(F, 0, <<>>) = 0
      /\ \A s \in Seq(E), e \in E : Folded(F, 0, Append(s, e)) = F[<<Folded(F, 0, s), e>>]
  <2>1. FoldsStep(F, 0, Int, E)
    BY <1>1, FoldedFacts
  <2> QED
    BY <2>1 DEF FoldsStep
<1>3. \A s \in Seq(E), e \in E : Folded(F, 0, Append(s, e)) = Folded(F, 0, s) + w[e]
  BY <1>1, <1>2
<1>4. ASSUME NEW s \in Seq(E), NEW r \in Seq(E)
      PROVE  Folded(F, 0, s \o r) = Folded(F, 0, s) + Folded(F, 0, r)
  <2> DEFINE c == Folded(F, 0, s)
             Good == {q \in Seq(E) : Folded(F, c, q) = c + Folded(F, 0, q)}
  <2>1. c \in Int
    BY <1>2
  <2> HIDE DEF c
  <2>2. /\ Folded(F, c, <<>>) = c
        /\ \A q \in Seq(E), e \in E : Folded(F, c, Append(q, e)) = F[<<Folded(F, c, q), e>>]
        /\ \A q \in Seq(E) : Folded(F, c, q) \in Int
    <3>1. FoldsStep(F, c, Int, E)
      BY <1>1, <2>1, FoldedFacts
    <3> QED
      BY <3>1 DEF FoldsStep
  <2>3. <<>> \in Good
    BY <1>2, <2>1, <2>2
  <2>4. ASSUME NEW q \in Good, NEW e \in E PROVE Append(q, e) \in Good
    <3>1. q \in Seq(E) /\ Append(q, e) \in Seq(E) /\ w[e] \in Int
      OBVIOUS
    <3>2. Folded(F, c, Append(q, e)) = Folded(F, c, q) + w[e]
      BY <1>1, <2>2, <3>1
    <3>3. Folded(F, 0, Append(q, e)) = Folded(F, 0, q) + w[e]
      BY <1>3, <3>1
    <3>4. Folded(F, c, q) = c + Folded(F, 0, q) /\ Folded(F, 0, q) \in Int
      BY <1>2, <3>1
    <3>5. Folded(F, c, Append(q, e)) = c + Folded(F, 0, Append(q, e))
      BY <2>1, <3>1, <3>2, <3>3, <3>4
    <3> QED
      BY <3>1, <3>5
  <2>5. Good \in SUBSET Seq(E)
    OBVIOUS
  <2>6. Good = Seq(E)
    <3> HIDE DEF Good
    <3> QED
      BY <2>3, <2>4, <2>5, SequenceInduction DEF GrowsByOne
  <2>7. Folded(F, 0, s \o r) = Folded(F, c, r)
    <3>1. FoldsJoin(F, 0, s, E)
      BY <1>1, FoldedConcat
    <3> QED
      BY <3>1 DEF FoldsJoin, c
  <2> QED
    BY <2>6, <2>7 DEF c
<1> QED
  BY <1>2, <1>3, <1>4 DEF AddsUp, Tally, F

TallyPeels(g, w, s) ==
  g = [t \in SUBSET DOMAIN s |-> IF t = {} THEN 0 ELSE g[t \ {Max(t)}] + w[s[Max(t)]]]

\* What adds the members' weights up, last position first, is their sum.
LEMMA PeelingTallies ==
  ASSUME NEW E, NEW w \in [E -> Int], NEW s \in Seq(E)
  PROVE  /\ \E g : TallyPeels(g, w, s)
         /\ \A g : TallyPeels(g, w, s) => g[DOMAIN s] = Tally(w, E, s)
<1> DEFINE F == Adding(w, E)
<1>1. /\ 0 \in Int /\ F \in [Int \X E -> Int]
      /\ \A a \in Int, e \in E : F[<<a, e>>] = a + w[e]
  BY DEF Adding
<1>2. DOMAIN s = 1 .. Len(s) /\ Len(s) \in Nat /\ \A i \in 1 .. Len(s) : s[i] \in E
  OBVIOUS
<1> HIDE DEF F
<1>3. \E g : TallyPeels(g, w, s)
  <2>1. PICK g \in [SUBSET (1 .. Len(s)) -> Int] : PeelsLast(g, F, 0, s)
    BY <1>1, PeelingExists
  <2>2. ASSUME NEW t \in SUBSET (1 .. Len(s))
        PROVE  g[t] = IF t = {} THEN 0 ELSE g[t \ {Max(t)}] + w[s[Max(t)]]
    <3>1. CASE t = {}
      BY <2>1, <3>1 DEF PeelsLast
    <3>2. CASE t # {}
      <4>1. Max(t) \in 1 .. Len(s)
        BY <1>2, <3>2, LastOfSet
      <4>2. g[t] = F[<<g[t \ {Max(t)}], s[Max(t)]>>]
        BY <2>1, <3>2 DEF PeelsLast
      <4>3. g[t \ {Max(t)}] \in Int /\ s[Max(t)] \in E
        BY <1>2, <4>1
      <4> QED
        BY <1>1, <3>2, <4>2, <4>3
    <3> QED
      BY <3>1, <3>2
  <2> QED
    BY <1>2, <2>2 DEF TallyPeels
<1>4. ASSUME NEW h, TallyPeels(h, w, s) PROVE h[DOMAIN s] = Tally(w, E, s)
  <2>1. h[{}] = 0
    BY <1>2, <1>4 DEF TallyPeels
  <2>2. ASSUME NEW t \in SUBSET (1 .. Len(s)), t # {}, h[t \ {Max(t)}] \in Int
        PROVE  h[t] = F[<<h[t \ {Max(t)}], s[Max(t)]>>]
    <3>1. s[Max(t)] \in E
      BY <1>2, <2>2, LastOfSet
    <3>2. h[t] = h[t \ {Max(t)}] + w[s[Max(t)]]
      BY <1>2, <1>4, <2>2 DEF TallyPeels
    <3> QED
      BY <1>1, <2>2, <3>1, <3>2
  <2>3. PeelsWithin(h, F, 0, s, Int, E)
    BY <2>1, <2>2 DEF PeelsWithin
  <2>4. EndsAs(h, F, 0, s)
    BY <1>1, <2>3, PeelingIsFold
  <2> QED
    BY <1>2, <2>4 DEF Tally, F, EndsAs
<1> QED
  BY <1>3, <1>4

-----------------------------------------------------------------------------
(* Sums over a set, member by member.                                      *)

SumOver(f, S) == RunningSum(f, S)[S]

Weighted(f, S) == IsFiniteSet(S) /\ \A x \in S : f[x] \in Int

SumLaws(f, S) ==
  /\ SumOver(f, S) \in Int
  /\ \A x \in S : SumOver(f, S) = f[x] + SumOver(f, S \ {x})
  /\ \A e : (\A x \in S : e[x] = f[x]) => SumOver(e, S) = SumOver(f, S)

\* A sum is a member's weight and the others' sum, and depends on the weights only.
LEMMA SumFacts ==
  ASSUME NEW f, NEW S, Weighted(f, S)
  PROVE  SumLaws(f, S)
<1> DEFINE w == [x \in S |-> f[x]]
<1>1. IsFiniteSet(S) /\ w \in [S -> Int] /\ (\A x \in S : w[x] = f[x]) /\ S \subseteq S
  BY DEF Weighted
<1> HIDE DEF w
<1>2. \A e : (\A x \in S : e[x] = f[x]) => SumOver(e, S) = SumOver(w, S)
  <2> SUFFICES ASSUME NEW e, \A x \in S : e[x] = f[x] PROVE SumOver(e, S) = SumOver(w, S)
    OBVIOUS
  <2> DEFINE g == RunningSum(e, S)  h == RunningSum(w, S)
  <2>1. Adds(g, e, S) /\ Adds(h, w, S)
    BY <1>1, RunningExists
  <2> HIDE DEF g, h
  <2>2. \A x \in S : e[x] = w[x]
    BY <1>1
  <2>3. \A s \in SUBSET S : g[s] = h[s]
    BY <1>1, <2>1, <2>2, RunningUnique
  <2> QED
    BY <2>3 DEF g, h, SumOver
<1>3. SumOver(f, S) = SumOver(w, S)
  BY <1>2
<1>4. SumOver(w, S) \in Int
  BY <1>1, RunningType DEF SumOver
<1>5. ASSUME NEW x \in S PROVE SumOver(w, S) = f[x] + SumOver(f, S \ {x})
  <2> DEFINE R == S \ {x}  g == RunningSum(w, S)  h == RunningSum(f, R)
  <2>1. /\ IsFiniteSet(R) /\ R \subseteq S /\ R \subseteq R /\ \A y \in R : w[y] = f[y]
        /\ R \in SUBSET R
    BY <1>1, FS_Subset
  <2> HIDE DEF R
  <2>2. Adds(g, w, S) /\ Adds(h, f, R)
    BY <1>1, <2>1, RunningExists
  <2>3. g[S] = w[x] + g[S \ {x}]
    BY <1>1, RunningTakes
  <2> HIDE DEF g, h
  <2>4. \A s \in SUBSET R : g[s] = h[s]
    BY <2>1, <2>2, RunningUnique
  <2>5. g[R] = h[R]
    BY <2>1, <2>4
  <2> QED
    BY <1>1, <2>3, <2>5 DEF R, g, h, SumOver
<1> QED
  BY <1>2, <1>3, <1>4, <1>5 DEF SumLaws

\* Nothing adds up to nothing.
LEMMA SumOfNone == \A f : SumOver(f, {}) = 0
<1> SUFFICES ASSUME NEW f PROVE SumOver(f, {}) = 0
  OBVIOUS
<1>1. Adds(RunningSum(f, {}), f, {})
  BY RunningExists, FS_EmptySet
<1> QED
  BY <1>1 DEF Adds, SumOver

OneChanged(f, e, S, x) ==
  Weighted(f, S) /\ Weighted(e, S) /\ x \in S /\ (\A y \in S : y # x => e[y] = f[y])
    => SumOver(e, S) = SumOver(f, S) - f[x] + e[x]

\* One weight changes.
LEMMA SumChanges == \A f, e, S, x : OneChanged(f, e, S, x)
<1> SUFFICES ASSUME NEW f, NEW e, NEW S, NEW x, Weighted(f, S), Weighted(e, S), x \in S,
                    \A y \in S : y # x => e[y] = f[y]
             PROVE  SumOver(e, S) = SumOver(f, S) - f[x] + e[x]
  BY DEF OneChanged
<1> DEFINE R == S \ {x}
<1>1. Weighted(f, R) /\ Weighted(e, R) /\ \A y \in R : e[y] = f[y]
  BY FS_Subset DEF Weighted
<1>2. SumLaws(f, S) /\ SumLaws(e, S) /\ SumLaws(f, R)
  BY <1>1, SumFacts
<1>3. SumOver(e, R) = SumOver(f, R) /\ SumOver(f, R) \in Int
  BY <1>1, <1>2 DEF SumLaws
<1>4. SumOver(f, S) = f[x] + SumOver(f, R) /\ SumOver(e, S) = e[x] + SumOver(e, R)
  BY <1>2 DEF SumLaws
<1>5. f[x] \in Int /\ e[x] \in Int
  BY DEF Weighted
<1> HIDE DEF R
<1> QED
  BY <1>3, <1>4, <1>5

OneAdded(f, e, S, x) ==
  Weighted(f, S) /\ Weighted(e, S \cup {x}) /\ x \notin S /\ (\A y \in S : e[y] = f[y])
    => SumOver(e, S \cup {x}) = SumOver(f, S) + e[x]

\* One member comes.
LEMMA SumWithOne == \A f, e, S, x : OneAdded(f, e, S, x)
<1> SUFFICES ASSUME NEW f, NEW e, NEW S, NEW x, Weighted(f, S), Weighted(e, S \cup {x}),
                    x \notin S, \A y \in S : e[y] = f[y]
             PROVE  SumOver(e, S \cup {x}) = SumOver(f, S) + e[x]
  BY DEF OneAdded
<1> DEFINE T == S \cup {x}
<1>1. T \ {x} = S /\ x \in T /\ Weighted(e, T)
  OBVIOUS
<1>2. SumLaws(f, S) /\ SumLaws(e, T)
  BY <1>1, SumFacts
<1>3. SumOver(e, T) = e[x] + SumOver(e, S) /\ e[x] \in Int
  BY <1>1, <1>2 DEF SumLaws, Weighted
<1>4. SumOver(e, S) = SumOver(f, S) /\ SumOver(f, S) \in Int
  BY <1>2 DEF SumLaws
<1> HIDE DEF T
<1>5. SumOver(e, T) = SumOver(f, S) + e[x]
  BY <1>3, <1>4
<1> QED
  BY <1>5 DEF T

-----------------------------------------------------------------------------
\* Sequences put together.

\* Sequences with the same members are the same, however they were put together.
LEMMA SequencesEqual ==
  ASSUME NEW E, NEW s \in Seq(E), NEW r \in Seq(E), Len(s) = Len(r),
         \A i \in 1 .. Len(s) : s[i] = r[i]
  PROVE  s = r
<1>1. s = [i \in 1 .. Len(s) |-> s[i]] /\ r = [i \in 1 .. Len(r) |-> r[i]]
  OBVIOUS
<1>2. [i \in 1 .. Len(s) |-> s[i]] = [i \in 1 .. Len(r) |-> r[i]]
  OBVIOUS
<1> QED
  BY <1>1, <1>2

Joined(E, s, r) ==
  /\ s \o r \in Seq(E) /\ Len(s \o r) = Len(s) + Len(r)
  /\ \A i \in 1 .. Len(s) : (s \o r)[i] = s[i]
  /\ \A i \in 1 .. Len(r) : (s \o r)[Len(s) + i] = r[i]

\* Two parts.
LEMMA ConcatFacts ==
  ASSUME NEW E, NEW s \in Seq(E), NEW r \in Seq(E)
  PROVE  Joined(E, s, r)
<1>1. s \o r \in Seq(E) /\ Len(s \o r) = Len(s) + Len(r)
  OBVIOUS
<1>2. /\ \A i \in 1 .. Len(s) : (s \o r)[i] = s[i]
      /\ \A i \in 1 .. Len(r) : (s \o r)[Len(s) + i] = r[i]
  OBVIOUS
<1> QED
  BY <1>1, <1>2 DEF Joined

Associates(s, r, q) == (s \o r) \o q = s \o (r \o q)

\* Three parts, put together from either end.
LEMMA ConcatAssociates ==
  ASSUME NEW E, NEW s \in Seq(E), NEW r \in Seq(E), NEW q \in Seq(E)
  PROVE  Associates(s, r, q)
<1> DEFINE a == s \o r  b == r \o q  x == a \o q  y == s \o b
<1>1. Joined(E, s, r) /\ Joined(E, r, q)
  BY ConcatFacts
<1>2. /\ Len(s) \in Nat /\ Len(r) \in Nat /\ Len(q) \in Nat
      /\ a \in Seq(E) /\ Len(a) = Len(s) + Len(r)
      /\ b \in Seq(E) /\ Len(b) = Len(r) + Len(q)
      /\ \A i \in 1 .. Len(s) : a[i] = s[i]
      /\ \A i \in 1 .. Len(r) : a[Len(s) + i] = r[i]
      /\ \A i \in 1 .. Len(r) : b[i] = r[i]
      /\ \A i \in 1 .. Len(q) : b[Len(r) + i] = q[i]
  BY <1>1 DEF Joined
<1> HIDE DEF a, b
<1>3. /\ x \in Seq(E) /\ y \in Seq(E) /\ Len(x) = Len(a) + Len(q) /\ Len(y) = Len(s) + Len(b)
      /\ \A i \in 1 .. Len(a) : x[i] = a[i]
      /\ \A i \in 1 .. Len(q) : x[Len(a) + i] = q[i]
      /\ \A i \in 1 .. Len(s) : y[i] = s[i]
      /\ \A i \in 1 .. Len(b) : y[Len(s) + i] = b[i]
  <2>1. Joined(E, a, q) /\ Joined(E, s, b)
    BY <1>2, ConcatFacts
  <2> QED
    BY <2>1 DEF Joined
<1> HIDE DEF x, y
<1>4. ASSUME NEW i \in 1 .. Len(x) PROVE x[i] = y[i]
  <2>1. CASE i <= Len(s)
    BY <1>2, <1>3, <2>1
  <2>2. CASE Len(s) < i /\ i <= Len(a)
    <3>1. i - Len(s) \in 1 .. Len(r) /\ i - Len(s) \in 1 .. Len(b) /\ i \in 1 .. Len(a)
      BY <1>2, <1>3, <2>2
    <3>2. Len(s) + (i - Len(s)) = i
      BY <1>2, <1>3
    <3>3. x[i] = a[i] /\ a[i] = r[i - Len(s)]
      BY <1>2, <1>3, <3>1, <3>2
    <3>4. y[i] = b[i - Len(s)] /\ b[i - Len(s)] = r[i - Len(s)]
      BY <1>2, <1>3, <3>1, <3>2
    <3> QED
      BY <3>3, <3>4
  <2>3. CASE Len(a) < i
    <3>1. i - Len(a) \in 1 .. Len(q) /\ i - Len(s) \in 1 .. Len(b)
      BY <1>2, <1>3, <2>3
    <3>2. Len(a) + (i - Len(a)) = i /\ Len(s) + (i - Len(s)) = i
          /\ Len(r) + (i - Len(a)) = i - Len(s)
      BY <1>2, <1>3
    <3>3. x[i] = q[i - Len(a)]
      BY <1>3, <3>1, <3>2
    <3>4. y[i] = b[i - Len(s)] /\ b[i - Len(s)] = q[i - Len(a)]
      BY <1>2, <1>3, <3>1, <3>2
    <3> QED
      BY <3>3, <3>4
  <2> QED
    BY <1>2, <1>3, <2>1, <2>2, <2>3
<1>5. Len(x) = Len(y)
  BY <1>2, <1>3
<1> QED
  BY <1>3, <1>4, <1>5, SequencesEqual DEF Associates, x, y, a, b

-----------------------------------------------------------------------------
\* Tallies of what weighs more, and of what is chosen.

\* The running tally of s by w.
TalliesAlong(h, w, s) == h[0] = 0 /\ \A k \in 1 .. Len(s) : h[k] = h[k - 1] + w[s[k]]

\* A tally can be followed position by position.
LEMMA TallyAlong ==
  ASSUME NEW E, NEW w \in [E -> Int], NEW s \in Seq(E)
  PROVE  \E h \in [0 .. Len(s) -> Int] : TalliesAlong(h, w, s) /\ h[Len(s)] = Tally(w, E, s)
<1> DEFINE F == Adding(w, E)
           f == FoldAlong(F, 0, s, 1 .. Len(s))
           h == [k \in 0 .. Len(s) |-> f[k]]
<1>1. 0 \in Int /\ F \in [Int \X E -> Int] /\ \A a \in Int, e \in E : F[<<a, e>>] = a + w[e]
  BY DEF Adding
<1>2. Len(s) \in Nat /\ \A k \in 1 .. Len(s) : s[k] \in E
  OBVIOUS
<1>3. Tally(w, E, s) = f[Len(s)]
  BY DEF Tally, Folded
<1> HIDE DEF F
<1>4. FoldsAlong(f, F, 0, s, 1 .. Len(s))
  BY <1>2, FoldAlongExists
<1> HIDE DEF f
<1>5. \A k \in 0 .. Len(s) : f[k] \in Int
  BY <1>1, <1>2, <1>4, FoldAlongType
<1>6. ASSUME NEW k \in 1 .. Len(s) PROVE h[k] = h[k - 1] + w[s[k]]
  <2>1. f[k] = F[<<f[k - 1], s[k]>>] /\ k - 1 \in 0 .. Len(s) /\ k \in 0 .. Len(s)
    BY <1>2, <1>4 DEF FoldsAlong
  <2>2. f[k] = f[k - 1] + w[s[k]]
    BY <1>1, <1>2, <1>5, <2>1
  <2> QED
    BY <2>1, <2>2
<1>7. h \in [0 .. Len(s) -> Int] /\ h[0] = 0 /\ h[Len(s)] = f[Len(s)]
  BY <1>2, <1>4, <1>5 DEF FoldsAlong
<1> HIDE DEF h
<1> QED
  BY <1>3, <1>6, <1>7 DEF TalliesAlong

\* r weighs at least what s does at each position.
WeighsMore(w, s, r) == Len(r) = Len(s) /\ \A k \in 1 .. Len(s) : w[s[k]] <= w[r[k]]

\* What weighs more everywhere weighs more.
LEMMA TallyGrows ==
  ASSUME NEW E, NEW w \in [E -> Int], NEW s \in Seq(E), NEW r \in Seq(E), WeighsMore(w, s, r)
  PROVE  Tally(w, E, s) <= Tally(w, E, r)
<1>1. PICK h \in [0 .. Len(s) -> Int] : TalliesAlong(h, w, s) /\ h[Len(s)] = Tally(w, E, s)
  BY TallyAlong
<1>2. PICK g \in [0 .. Len(r) -> Int] : TalliesAlong(g, w, r) /\ g[Len(r)] = Tally(w, E, r)
  BY TallyAlong
<1>3. /\ Len(s) \in Nat /\ Len(r) = Len(s)
      /\ \A k \in 1 .. Len(s) : s[k] \in E /\ r[k] \in E /\ w[s[k]] <= w[r[k]]
  BY DEF WeighsMore
<1> DEFINE Good == {k \in 0 .. Len(s) : h[k] <= g[k]}
<1>4. 0 \in Good
  BY <1>1, <1>2, <1>3 DEF TalliesAlong
<1>5. ASSUME NEW k \in 1 .. Len(s), k - 1 \in Good PROVE k \in Good
  <2>1. h[k] = h[k - 1] + w[s[k]] /\ g[k] = g[k - 1] + w[r[k]]
    BY <1>1, <1>2, <1>3 DEF TalliesAlong
  <2>2. h[k - 1] \in Int /\ g[k - 1] \in Int /\ w[s[k]] \in Int /\ w[r[k]] \in Int
    BY <1>3
  <2> QED
    BY <1>3, <1>5, <2>1, <2>2
<1>6. Good \in SUBSET (0 .. Len(s))
  OBVIOUS
<1> HIDE DEF Good
<1>7. Good = 0 .. Len(s)
  BY <1>3, <1>4, <1>5, <1>6, CountingUp
<1> QED
  BY <1>1, <1>2, <1>3, <1>7 DEF Good

\* s and r weigh the same at each position.
WeighsSame(w, s, r) == Len(r) = Len(s) /\ \A k \in 1 .. Len(s) : w[s[k]] = w[r[k]]

\* What weighs the same everywhere weighs the same.
LEMMA TallySame ==
  ASSUME NEW E, NEW w \in [E -> Int], NEW s \in Seq(E), NEW r \in Seq(E), WeighsSame(w, s, r)
  PROVE  Tally(w, E, s) = Tally(w, E, r)
<1>1. WeighsMore(w, s, r) /\ WeighsMore(w, r, s)
  BY DEF WeighsSame, WeighsMore
<1>2. Tally(w, E, s) <= Tally(w, E, r) /\ Tally(w, E, r) <= Tally(w, E, s)
  BY <1>1, TallyGrows
<1>3. Tally(w, E, s) \in Int /\ Tally(w, E, r) \in Int
  BY TallyFacts DEF AddsUp
<1> QED
  BY <1>2, <1>3

IsCount(w, E, s) ==
  Tally(w, E, s) \in Nat /\ (Tally(w, E, s) > 0 <=> \E k \in 1 .. Len(s) : w[s[k]] > 0)

\* A tally of naturals counts something just where a member weighs something.
LEMMA TallyCounts ==
  ASSUME NEW E, NEW w \in [E -> Nat], NEW s \in Seq(E)
  PROVE  IsCount(w, E, s)
<1>1. w \in [E -> Int]
  OBVIOUS
<1>2. PICK h \in [0 .. Len(s) -> Int] : TalliesAlong(h, w, s) /\ h[Len(s)] = Tally(w, E, s)
  BY <1>1, TallyAlong
<1>3. Len(s) \in Nat /\ \A k \in 1 .. Len(s) : s[k] \in E /\ w[s[k]] \in Nat
  OBVIOUS
<1> DEFINE Good == {k \in 0 .. Len(s) : h[k] \in Nat /\ (h[k] > 0 <=> \E j \in 1 .. k : w[s[j]] > 0)}
<1>4. 0 \in Good
  BY <1>2, <1>3 DEF TalliesAlong
<1>5. ASSUME NEW k \in 1 .. Len(s), k - 1 \in Good PROVE k \in Good
  <2>1. h[k] = h[k - 1] + w[s[k]]
    BY <1>2, <1>3 DEF TalliesAlong
  <2>2. h[k] \in Nat /\ (h[k] > 0 <=> h[k - 1] > 0 \/ w[s[k]] > 0)
    BY <1>3, <1>5, <2>1
  <2>3. (\E j \in 1 .. k : w[s[j]] > 0) <=> (\E j \in 1 .. k - 1 : w[s[j]] > 0) \/ w[s[k]] > 0
    <3>1. \A j \in 1 .. k : j \in 1 .. k - 1 \/ j = k
      OBVIOUS
    <3>2. k \in 1 .. k /\ \A j \in 1 .. k - 1 : j \in 1 .. k
      OBVIOUS
    <3> QED
      BY <3>1, <3>2
  <2> QED
    BY <1>5, <2>2, <2>3
<1>6. Good \in SUBSET (0 .. Len(s))
  OBVIOUS
<1> HIDE DEF Good
<1>7. Good = 0 .. Len(s)
  BY <1>3, <1>4, <1>5, <1>6, CountingUp
<1> QED
  BY <1>2, <1>7 DEF Good, IsCount
\* What keeps the members in Q of a list: as a fold.
Choosing(Q, E) == [p \in Seq(E) \X E |-> IF p[2] \in Q THEN Append(p[1], p[2]) ELSE p[1]]

Chosen(Q, E, s) == Folded(Choosing(Q, E), <<>>, s)

\* w of the members of Q alone.
Among(w, Q, E) == [e \in E |-> IF e \in Q THEN w[e] ELSE 0]

Chooses(Q, E, s) ==
  /\ Chosen(Q, E, s) \in Seq(E)
  /\ \A w \in [E -> Int] : Tally(w, E, Chosen(Q, E, s)) = Tally(Among(w, Q, E), E, s)

\* What is chosen weighs what the members of Q do.
LEMMA ChosenFacts ==
  ASSUME NEW E, NEW Q, NEW s \in Seq(E)
  PROVE  Chooses(Q, E, s)
<1> DEFINE F == Choosing(Q, E)
           Good == {r \in Seq(E) : \A w \in [E -> Int] :
                      Tally(w, E, Folded(F, <<>>, r)) = Tally(Among(w, Q, E), E, r)}
<1>1. /\ <<>> \in Seq(E) /\ F \in [Seq(E) \X E -> Seq(E)]
      /\ \A a \in Seq(E), e \in E : F[<<a, e>>] = IF e \in Q THEN Append(a, e) ELSE a
  BY DEF Choosing
<1> HIDE DEF F
<1>2. FoldsStep(F, <<>>, Seq(E), E)
  BY <1>1, FoldedFacts
<1>3. /\ \A r \in Seq(E) : Folded(F, <<>>, r) \in Seq(E)
      /\ Folded(F, <<>>, <<>>) = <<>>
      /\ \A r \in Seq(E), e \in E : Folded(F, <<>>, Append(r, e)) = F[<<Folded(F, <<>>, r), e>>]
  BY <1>2 DEF FoldsStep
<1>4. \A w \in [E -> Int] : AddsUp(w, E) /\ Among(w, Q, E) \in [E -> Int] /\ AddsUp(Among(w, Q, E), E)
  <2> TAKE w \in [E -> Int]
  <2>1. Among(w, Q, E) \in [E -> Int]
    BY DEF Among
  <2> QED
    BY <2>1, TallyFacts
<1>5. <<>> \in Good
  BY <1>1, <1>3, <1>4 DEF AddsUp
<1>6. ASSUME NEW r \in Good, NEW e \in E PROVE Append(r, e) \in Good
  <2> DEFINE a == Folded(F, <<>>, r)
  <2>1. r \in Seq(E) /\ Append(r, e) \in Seq(E) /\ a \in Seq(E)
    BY <1>3
  <2>2. Folded(F, <<>>, Append(r, e)) = IF e \in Q THEN Append(a, e) ELSE a
    BY <1>1, <1>3, <2>1
  <2>3. \A w \in [E -> Int] : Tally(w, E, a) = Tally(Among(w, Q, E), E, r)
    BY <1>6
  <2> HIDE DEF a
  <2>4. ASSUME NEW w \in [E -> Int]
        PROVE  Tally(w, E, Folded(F, <<>>, Append(r, e))) = Tally(Among(w, Q, E), E, Append(r, e))
    <3>1. Tally(Among(w, Q, E), E, Append(r, e)) = Tally(Among(w, Q, E), E, r) + Among(w, Q, E)[e]
      BY <1>4, <2>1 DEF AddsUp
    <3>2. Tally(w, E, Append(a, e)) = Tally(w, E, a) + w[e]
      BY <1>4, <2>1 DEF AddsUp
    <3>3. Among(w, Q, E)[e] = IF e \in Q THEN w[e] ELSE 0
      BY DEF Among
    <3>4. Tally(w, E, a) \in Int
      BY <1>4, <2>1 DEF AddsUp
    <3>5. Tally(w, E, a) = Tally(Among(w, Q, E), E, r)
      BY <2>3
    <3>6. CASE e \in Q
      <4>1. Folded(F, <<>>, Append(r, e)) = Append(a, e)
        BY <2>2, <3>6
      <4> QED
        BY <3>1, <3>2, <3>3, <3>5, <3>6, <4>1
    <3>7. CASE e \notin Q
      <4>1. Folded(F, <<>>, Append(r, e)) = a
        BY <2>2, <3>7
      <4> QED
        BY <3>1, <3>3, <3>4, <3>5, <3>7, <4>1
    <3> QED
      BY <3>6, <3>7
  <2> QED
    BY <2>1, <2>4
<1>7. Good \in SUBSET Seq(E)
  OBVIOUS
<1> HIDE DEF Good
<1>8. Good = Seq(E)
  BY <1>5, <1>6, <1>7, SequenceInduction DEF GrowsByOne
<1> QED
  BY <1>3, <1>8 DEF Good, Chooses, Chosen, F

ChosenMembers(Q, E, s) ==
  \A k \in 1 .. Len(Chosen(Q, E, s)) :
    Chosen(Q, E, s)[k] \in Q /\ \E n \in 1 .. Len(s) : s[n] = Chosen(Q, E, s)[k]

\* A member of what is chosen is a member in Q.
LEMMA ChosenFrom ==
  ASSUME NEW E, NEW Q, NEW s \in Seq(E)
  PROVE  ChosenMembers(Q, E, s)
<1> SUFFICES ASSUME NEW k \in 1 .. Len(Chosen(Q, E, s))
             PROVE  Chosen(Q, E, s)[k] \in Q /\ \E n \in 1 .. Len(s) : s[n] = Chosen(Q, E, s)[k]
  BY DEF ChosenMembers
<1> DEFINE c == Chosen(Q, E, s)
           x == c[k]
           w == [e \in E |-> IF e = x THEN 1 ELSE 0]
           v == Among(w, Q, E)
<1>1. c \in Seq(E) /\ \A u \in [E -> Int] : Tally(u, E, c) = Tally(Among(u, Q, E), E, s)
  BY ChosenFacts DEF Chooses
<1> HIDE DEF c
<1>2. x \in E
  BY <1>1 DEF c
<1> HIDE DEF x
<1>3. w \in [E -> Nat] /\ w \in [E -> Int] /\ w[x] = 1
  BY <1>2
<1>4. v \in [E -> Nat] /\ \A e \in E : v[e] > 0 => e = x /\ e \in Q
  BY DEF Among
<1> HIDE DEF v, w
<1>5. IsCount(w, E, c) /\ IsCount(v, E, s)
  BY <1>1, <1>3, <1>4, TallyCounts
<1>6. Tally(w, E, c) > 0
  BY <1>1, <1>3, <1>5 DEF IsCount, x, c
<1>7. Tally(v, E, s) > 0
  BY <1>1, <1>3, <1>6 DEF v
<1>8. PICK n \in 1 .. Len(s) : v[s[n]] > 0
  BY <1>5, <1>7 DEF IsCount
<1>9. s[n] \in E
  OBVIOUS
<1> QED
  BY <1>4, <1>8, <1>9 DEF x, c

ChoosePeels(g, Q, s) ==
  g = [t \in SUBSET DOMAIN s |->
         IF t = {} THEN <<>>
         ELSE IF s[Max(t)] \in Q THEN Append(g[t \ {Max(t)}], s[Max(t)]) ELSE g[t \ {Max(t)}]]

\* What keeps the members in Q, last position first, chooses them.
LEMMA PeelingChooses ==
  ASSUME NEW E, NEW Q, NEW s \in Seq(E)
  PROVE  /\ \E g : ChoosePeels(g, Q, s)
         /\ \A g : ChoosePeels(g, Q, s) => g[DOMAIN s] = Chosen(Q, E, s)
<1> DEFINE F == Choosing(Q, E)
<1>1. /\ <<>> \in Seq(E) /\ F \in [Seq(E) \X E -> Seq(E)]
      /\ \A a \in Seq(E), e \in E : F[<<a, e>>] = IF e \in Q THEN Append(a, e) ELSE a
  BY DEF Choosing
<1>2. DOMAIN s = 1 .. Len(s) /\ Len(s) \in Nat /\ \A i \in 1 .. Len(s) : s[i] \in E
  OBVIOUS
<1> HIDE DEF F
<1>3. \E g : ChoosePeels(g, Q, s)
  <2>1. PICK g \in [SUBSET (1 .. Len(s)) -> Seq(E)] : PeelsLast(g, F, <<>>, s)
    BY <1>1, PeelingExists
  <2>2. ASSUME NEW t \in SUBSET (1 .. Len(s))
        PROVE  g[t] = IF t = {} THEN <<>>
                      ELSE IF s[Max(t)] \in Q THEN Append(g[t \ {Max(t)}], s[Max(t)]) ELSE g[t \ {Max(t)}]
    <3>1. CASE t = {}
      BY <2>1, <3>1 DEF PeelsLast
    <3>2. CASE t # {}
      <4>1. Max(t) \in 1 .. Len(s)
        BY <1>2, <3>2, LastOfSet
      <4>2. g[t] = F[<<g[t \ {Max(t)}], s[Max(t)]>>]
        BY <2>1, <3>2 DEF PeelsLast
      <4>3. g[t \ {Max(t)}] \in Seq(E) /\ s[Max(t)] \in E
        BY <1>2, <4>1
      <4> QED
        BY <1>1, <3>2, <4>2, <4>3
    <3> QED
      BY <3>1, <3>2
  <2> QED
    BY <1>2, <2>2 DEF ChoosePeels
<1>4. ASSUME NEW h, ChoosePeels(h, Q, s) PROVE h[DOMAIN s] = Chosen(Q, E, s)
  <2>1. h[{}] = <<>>
    BY <1>2, <1>4 DEF ChoosePeels
  <2>2. ASSUME NEW t \in SUBSET (1 .. Len(s)), t # {}, h[t \ {Max(t)}] \in Seq(E)
        PROVE  h[t] = F[<<h[t \ {Max(t)}], s[Max(t)]>>]
    <3>1. s[Max(t)] \in E
      BY <1>2, <2>2, LastOfSet
    <3>2. h[t] = IF s[Max(t)] \in Q THEN Append(h[t \ {Max(t)}], s[Max(t)]) ELSE h[t \ {Max(t)}]
      BY <1>2, <1>4, <2>2 DEF ChoosePeels
    <3> QED
      BY <1>1, <2>2, <3>1, <3>2
  <2>3. PeelsWithin(h, F, <<>>, s, Seq(E), E)
    BY <2>1, <2>2 DEF PeelsWithin
  <2>4. EndsAs(h, F, <<>>, s)
    BY <1>1, <2>3, PeelingIsFold
  <2> QED
    BY <1>2, <2>4 DEF Chosen, F, EndsAs
<1> QED
  BY <1>3, <1>4

Ones(E) == [e \in E |-> 1]

\* A list's length counts its members.
LEMMA LenIsTally ==
  ASSUME NEW E, NEW s \in Seq(E)
  PROVE  Len(s) = Tally(Ones(E), E, s)
<1> DEFINE w == Ones(E)
<1>1. w \in [E -> Int] /\ \A e \in E : w[e] = 1
  BY DEF Ones
<1> HIDE DEF w
<1>2. PICK h \in [0 .. Len(s) -> Int] : TalliesAlong(h, w, s) /\ h[Len(s)] = Tally(w, E, s)
  BY <1>1, TallyAlong
<1>3. Len(s) \in Nat /\ \A k \in 1 .. Len(s) : s[k] \in E
  OBVIOUS
<1> DEFINE Good == {k \in 0 .. Len(s) : h[k] = k}
<1>4. 0 \in Good
  BY <1>2, <1>3 DEF TalliesAlong
<1>5. ASSUME NEW k \in 1 .. Len(s), k - 1 \in Good PROVE k \in Good
  <2>1. h[k] = h[k - 1] + w[s[k]] /\ w[s[k]] = 1
    BY <1>1, <1>2, <1>3 DEF TalliesAlong
  <2> QED
    BY <1>3, <1>5, <2>1
<1>6. Good \in SUBSET (0 .. Len(s))
  OBVIOUS
<1> HIDE DEF Good
<1>7. Good = 0 .. Len(s)
  BY <1>3, <1>4, <1>5, <1>6, CountingUp
<1> QED
  BY <1>2, <1>3, <1>7 DEF Good, w

=============================================================================
