------------------------------- MODULE Folding -------------------------------
(***************************************************************************)
(* Facts about a fold over a sequence, FoldLeft of SequencesExt, for any   *)
(* step op(c, a, x): a is what the fold has reached, x the next element    *)
(* and c what stays the same throughout.  FoldLeft is a recursive function *)
(* on the sets of places of the sequence; here it becomes the end of a     *)
(* path, on which facts can be carried from each place to the next.        *)
(***************************************************************************)
EXTENDS Folds, Sequences, Integers, TLAPS

CONSTANT op(_, _, _)

\* FoldLeft as SequencesExt writes it, for a module that instantiates this one
\* many times and needs no more of that library with each.
Highest(S) == CHOOSE x \in S : \A y \in S : x >= y
Fold(c, base, s) == MapThenFoldSet(LAMBDA x, a : op(c, a, x), base, LAMBDA i : s[i],
                                   LAMBDA S : Highest(S), DOMAIN s)

\* What the fold has reached after each of the first N elements.
Leads(c, base, s, N, path) == /\ path[0] = base
                              /\ \A n \in 1..N : path[n] = op(c, path[n - 1], s[n])
Steps(c, base, s, path) == Leads(c, base, s, Len(s), path)
IsPath(c, base, s, path) == Steps(c, base, s, path) /\ path[Len(s)] = Fold(c, base, s)

\* The recursive function that FoldLeft chooses, on places up to k.
Partial(c, base, s, k, h) ==
    h = [t \in SUBSET (1..k) |->
            IF t = {} THEN base ELSE op(c, h[t \ {Highest(t)}], s[Highest(t)])]
Iter(c, base, s, k) == CHOOSE h : Partial(c, base, s, k, h)

\* The fold is that function at all the places.
LEMMA FoldIs ==
    ASSUME NEW c, NEW base, NEW s, NEW k, DOMAIN s = 1..k
    PROVE  Fold(c, base, s) = Iter(c, base, s, k)[1..k]
BY DEF Fold, MapThenFoldSet, Iter, Partial

-----------------------------------------------------------------------------
(* Induction on numbers *)

\* A set of numbers that is not empty has a smallest.  Every lemma below that
\* rests on it says so, and the module that instantiates this one proves it
\* once: the library it takes is not part of every instance.
WellOrdered == \A S \in SUBSET Nat : S # {} => \E m \in S : \A n \in S : m <= n

\* Induction up to a bound.
LEMMA UpTo ==
    ASSUME WellOrdered, NEW N \in Nat, NEW S, 0 \in S, \A n \in 0..(N - 1) : n \in S => n + 1 \in S
    PROVE  \A n \in 0..N : n \in S
<1> DEFINE T == {n \in 0..N : n \notin S}
<1> SUFFICES ASSUME T # {} PROVE FALSE
    OBVIOUS
<1>1. PICK m \in T : \A y \in T : m <= y
  <2>1. T \subseteq Nat
      OBVIOUS
  <2> HIDE DEF T
  <2> QED
      BY <2>1 DEF WellOrdered
<1>2. m # 0 /\ m \in 1..N /\ m \notin S
    OBVIOUS
<1>3. m - 1 \notin T
    BY <1>1, <1>2
<1> QED
    BY <1>2, <1>3

\* The highest of some places is the last of them.
LEMMA LargestOf ==
    ASSUME WellOrdered, NEW k \in Nat, NEW t \in SUBSET (1..k), t # {}
    PROVE  Highest(t) \in t /\ \A y \in t : y <= Highest(t)
<1> DEFINE S == {k - x : x \in t}
<1>1. S \in SUBSET Nat /\ S # {}
  <2>1. \A x \in t : x \in 1..k /\ k - x \in Nat
      OBVIOUS
  <2>2. PICK x \in t : TRUE
      OBVIOUS
  <2>3. k - x \in S
      BY <2>2
  <2> QED
      BY <2>1, <2>3
<1>2. PICK m \in S : \A n \in S : m <= n
  <2> HIDE DEF S
  <2> QED
      BY <1>1 DEF WellOrdered
<1>3. PICK x \in t : m = k - x
    OBVIOUS
<1>4. \A y \in t : x >= y
  <2> SUFFICES ASSUME NEW y \in t PROVE x >= y
      OBVIOUS
  <2>1. k - y \in S
      OBVIOUS
  <2>2. m <= k - y
      BY <2>1, <1>2
  <2> QED
      BY <2>2, <1>3
<1>5. Highest(t) \in t /\ \A y \in t : Highest(t) >= y
    BY <1>4 DEF Highest
<1> QED
    BY <1>5

-----------------------------------------------------------------------------
(* Paths *)

\* The recursive function exists.
LEMMA Exists ==
    ASSUME WellOrdered, NEW c, NEW base, NEW s, NEW N \in Nat
    PROVE  \A k \in 0..N : \E h : Partial(c, base, s, k, h)
<1> DEFINE S == {k \in 0..N : \E h : Partial(c, base, s, k, h)}
<1>1. 0 \in S
  <2> DEFINE h == [t \in SUBSET (1..0) |-> base]
  <2>1. \A t \in SUBSET (1..0) : t = {}
      OBVIOUS
  <2>2. Partial(c, base, s, 0, h)
      BY <2>1 DEF Partial
  <2> QED
      BY <2>2
<1>2. ASSUME NEW k \in 0..(N - 1), k \in S PROVE k + 1 \in S
  <2>1. PICK h : Partial(c, base, s, k, h)
      BY <1>2
  <2> DEFINE g == [t \in SUBSET (1..(k + 1)) |->
                     IF t = {} THEN base
                     ELSE IF k + 1 \in t THEN op(c, h[t \ {k + 1}], s[k + 1]) ELSE h[t]]
  <2>2. \A t \in SUBSET (1..k) : g[t] = h[t]
    <3> SUFFICES ASSUME NEW t \in SUBSET (1..k) PROVE g[t] = h[t]
        OBVIOUS
    <3>1. t \in SUBSET (1..(k + 1)) /\ k + 1 \notin t
        OBVIOUS
    <3>2. t = {} => h[t] = base
        BY <2>1 DEF Partial
    <3> QED
        BY <3>1, <3>2
  <2>3. \A t \in SUBSET (1..(k + 1)) :
           g[t] = IF t = {} THEN base ELSE op(c, g[t \ {Highest(t)}], s[Highest(t)])
    <3> SUFFICES ASSUME NEW t \in SUBSET (1..(k + 1)), t # {}
                 PROVE  g[t] = op(c, g[t \ {Highest(t)}], s[Highest(t)])
        OBVIOUS
    <3>1. Highest(t) \in t /\ \A y \in t : y <= Highest(t)
      <4> HIDE DEF g
      <4>1. k + 1 \in Nat
          OBVIOUS
      <4> QED
          BY <4>1, LargestOf
    <3>2. CASE k + 1 \in t
      <4>1. Highest(t) = k + 1
        <5>1. Highest(t) \in 1..(k + 1) /\ k + 1 <= Highest(t)
            BY <3>1, <3>2
        <5> QED
            BY <5>1
      <4>2. t \ {k + 1} \in SUBSET (1..k)
          OBVIOUS
      <4>3. g[t] = op(c, h[t \ {k + 1}], s[k + 1])
          BY <3>2
      <4> HIDE DEF g
      <4> QED
          BY <4>1, <4>2, <4>3, <2>2
    <3>3. CASE k + 1 \notin t
      <4>1. t \in SUBSET (1..k)
          BY <3>3
      <4>2. t \ {Highest(t)} \in SUBSET (1..k)
          BY <4>1
      <4>3. h[t] = op(c, h[t \ {Highest(t)}], s[Highest(t)])
          BY <4>1, <2>1 DEF Partial
      <4> HIDE DEF g
      <4> QED
          BY <4>1, <4>2, <4>3, <2>2
    <3> QED
        BY <3>2, <3>3
  <2>4. Partial(c, base, s, k + 1, g)
    <3>1. g = [t \in SUBSET (1..(k + 1)) |-> g[t]]
        OBVIOUS
    <3> HIDE DEF g
    <3> QED
        BY <2>3, <3>1 DEF Partial
  <2>5. k + 1 \in 0..N
      OBVIOUS
  <2> QED
      BY <2>4, <2>5
<1>3. \A k \in 0..N : k \in S
  <2> HIDE DEF S
  <2> QED
      BY <1>1, <1>2, UpTo
<1> QED
    BY <1>3

\* What the fold reaches from place to place leads to the fold.
LEMMA PathOf ==
    ASSUME WellOrdered, NEW c, NEW base, NEW s, NEW N \in Nat, DOMAIN s = 1..N
    PROVE  \E path : Leads(c, base, s, N, path) /\ path[N] = Fold(c, base, s)
<1> DEFINE h == Iter(c, base, s, N)
<1>1. Partial(c, base, s, N, h)
  <2>1. \A k \in 0..N : \E g : Partial(c, base, s, k, g)
      BY Exists
  <2>2. N \in 0..N
      OBVIOUS
  <2> QED
      BY <2>1, <2>2 DEF Iter
<1> DEFINE path == [n \in 0..N |-> h[1..n]]
<1>2. path[N] = Fold(c, base, s)
    BY FoldIs
<1> HIDE DEF h
<1>3. path[0] = base
  <2>1. h[{}] = base
      BY <1>1 DEF Partial
  <2>2. 1..0 = {}
      OBVIOUS
  <2> QED
      BY <2>1, <2>2
<1>4. ASSUME NEW n \in 1..N PROVE path[n] = op(c, path[n - 1], s[n])
  <2>1. 1..n \in SUBSET (1..N) /\ 1..n # {}
    <3>1. n \in Nat /\ n >= 1 /\ n <= N /\ n \in 1..n
        OBVIOUS
    <3>2. \A m \in 1..n : m \in 1..N
        BY <3>1
    <3> QED
        BY <3>1, <3>2
  <2>2. Highest(1..n) = n
    <3>1. Highest(1..n) \in 1..n /\ \A y \in 1..n : y <= Highest(1..n)
        BY <2>1, LargestOf
    <3> QED
        BY <3>1
  <2>3. (1..n) \ {n} = 1..(n - 1)
      OBVIOUS
  <2>4. h[1..n] = op(c, h[(1..n) \ {Highest(1..n)}], s[Highest(1..n)])
      BY <1>1, <2>1 DEF Partial
  <2>5. path[n] = h[1..n] /\ path[n - 1] = h[1..(n - 1)]
    <3>1. n \in 0..N /\ n - 1 \in 0..N
        OBVIOUS
    <3> QED
        BY <3>1
  <2> QED
      BY <2>2, <2>3, <2>4, <2>5
<1> QED
    BY <1>2, <1>3, <1>4 DEF Leads

\* Every fold over a sequence has a path.
LEMMA Path ==
    ASSUME WellOrdered, NEW c, NEW base, NEW X, NEW s \in Seq(X)
    PROVE  \E path : IsPath(c, base, s, path)
<1>1. Len(s) \in Nat /\ DOMAIN s = 1..Len(s)
    OBVIOUS
<1>2. \E path : Leads(c, base, s, Len(s), path) /\ path[Len(s)] = Fold(c, base, s)
    BY <1>1, PathOf
<1> QED
    BY <1>2 DEF IsPath, Steps

\* There is one way to go.
LEMMA PathUnique ==
    ASSUME WellOrdered, NEW c, NEW base, NEW X, NEW s \in Seq(X), NEW p, NEW q,
           Steps(c, base, s, p), Steps(c, base, s, q)
    PROVE  p[Len(s)] = q[Len(s)]
<1> DEFINE N == Len(s)
<1> DEFINE S == {n \in 0..N : p[n] = q[n]}
<1>1. N \in Nat
    OBVIOUS
<1>2. 0 \in S
    BY <1>1 DEF Steps, Leads
<1>3. ASSUME NEW n \in 0..(N - 1), n \in S PROVE n + 1 \in S
  <2>1. n + 1 \in 1..N /\ n + 1 \in 0..N /\ (n + 1) - 1 = n
      BY <1>1
  <2>2. p[n + 1] = op(c, p[n], s[n + 1]) /\ q[n + 1] = op(c, q[n], s[n + 1])
      BY <2>1 DEF Steps, Leads
  <2> QED
      BY <2>1, <2>2, <1>3
<1>4. \A n \in 0..N : n \in S
  <2> HIDE DEF S, N
  <2> QED
      BY <1>1, <1>2, <1>3, UpTo
<1> QED
    BY <1>1, <1>4

\* Whatever goes that way ends at the fold.
LEMMA PathEnds ==
    ASSUME WellOrdered, NEW c, NEW base, NEW X, NEW s \in Seq(X), NEW p, Steps(c, base, s, p)
    PROVE  p[Len(s)] = Fold(c, base, s)
<1>1. PICK q : IsPath(c, base, s, q)
    BY Path
<1> QED
    BY <1>1, PathUnique DEF IsPath

-----------------------------------------------------------------------------
(* The fold over the sequences that are built *)

\* Of no element.
LEMMA FoldEmpty ==
    ASSUME WellOrdered, NEW c, NEW base
    PROVE  Fold(c, base, <<>>) = base
<1>1. << >> \in Seq({})
    OBVIOUS
<1>2. PICK path : IsPath(c, base, << >>, path)
    BY <1>1, Path
<1> QED
    BY <1>2 DEF IsPath, Steps, Leads

\* Of one element more.
LEMMA FoldAppend ==
    ASSUME WellOrdered, NEW c, NEW base, NEW X, NEW s \in Seq(X), NEW x \in X
    PROVE  Fold(c, base, Append(s, x)) = op(c, Fold(c, base, s), x)
<1>1. PICK q : IsPath(c, base, s, q)
    BY Path
<1> DEFINE t == Append(s, x)
           N == Len(s)
           p == [n \in 0..(N + 1) |-> IF n = N + 1 THEN op(c, Fold(c, base, s), x) ELSE q[n]]
<1>2. /\ N \in Nat /\ t \in Seq(X) /\ Len(t) = N + 1 /\ t[N + 1] = x
      /\ \A n \in 1..N : t[n] = s[n]
    OBVIOUS
<1>3. p[N] = Fold(c, base, s) /\ p[0] = base
    BY <1>1, <1>2 DEF IsPath, Steps, Leads
<1>4. ASSUME NEW n \in 1..(N + 1) PROVE p[n] = op(c, p[n - 1], t[n])
  <2>1. CASE n = N + 1
    <3>1. n - 1 = N
        BY <2>1, <1>2
    <3>2. p[n] = op(c, Fold(c, base, s), x)
        BY <2>1, <1>2
    <3> HIDE DEF p
    <3> QED
        BY <2>1, <3>1, <3>2, <1>2, <1>3
  <2>2. CASE n # N + 1
    <3>1. n \in 1..N /\ n \in 0..(N + 1) /\ n - 1 \in 0..(N + 1) /\ n - 1 # N + 1
        BY <2>2, <1>2
    <3>2. p[n] = q[n] /\ p[n - 1] = q[n - 1]
        BY <3>1, <2>2
    <3>3. q[n] = op(c, q[n - 1], s[n])
        BY <3>1, <1>1 DEF IsPath, Steps, Leads
    <3> HIDE DEF p
    <3> QED
        BY <3>1, <3>2, <3>3, <1>2
  <2> QED
      BY <2>1, <2>2
<1>5. p[N + 1] = op(c, Fold(c, base, s), x)
    BY <1>2
<1> HIDE DEF p
<1>6. Steps(c, base, t, p)
    BY <1>2, <1>3, <1>4 DEF Steps, Leads
<1>7. p[Len(t)] = Fold(c, base, t)
    BY <1>2, <1>6, PathEnds
<1> QED
    BY <1>2, <1>5, <1>7

\* Of one element.
LEMMA FoldOne ==
    ASSUME WellOrdered, NEW c, NEW base, NEW x
    PROVE  Fold(c, base, <<x>>) = op(c, base, x)
<1> DEFINE s == <<x>>
<1>1. s \in Seq({x}) /\ Len(s) = 1 /\ s[1] = x
    OBVIOUS
<1> HIDE DEF s
<1>2. PICK path : IsPath(c, base, s, path)
    BY <1>1, Path
<1>3. path[0] = base /\ path[1] = Fold(c, base, s)
    BY <1>1, <1>2 DEF IsPath, Steps, Leads
<1>4. path[1] = op(c, path[1 - 1], s[1])
    BY <1>1, <1>2 DEF IsPath, Steps, Leads
<1> QED
    BY <1>1, <1>3, <1>4 DEF s
=============================================================================
