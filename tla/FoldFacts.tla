------------------------------ MODULE FoldFacts ------------------------------
(***************************************************************************)
(* Lemmas about folds, on which the theorems about money and exposure      *)
(* rest.  A fold over a finite set is a function f on its subsets that     *)
(* takes one element away at a time; op, the elements' values and the      *)
(* choice of the element are functions here, so that one proof serves      *)
(* every fold of the models.                                               *)
(***************************************************************************)
EXTENDS Integers, Sequences, SequencesExt, FiniteSetTheorems,
        NaturalsInduction, WellFoundedInduction, TLAPS

\* f[s] combines the value of the element chosen from s with the fold of the rest.
Rest(s, choose) == s \ {choose[s]}

IsFold(f, S, choose, op, base, value) ==
  f = [s \in SUBSET S |->
         IF s = {} THEN base
         ELSE op[<<value[choose[s]], f[Rest(s, choose)]>>]]

OnSubsets(f, S) == f = [s \in SUBSET S |-> f[s]]

\* f unfolds wherever what is left has a value of type A.
Unfolds(f, S, choose, op, value, A) ==
  \A s \in SUBSET S : s # {} /\ f[Rest(s, choose)] \in A
    => f[s] = op[<<value[choose[s]], f[Rest(s, choose)]>>]

Chooses(choose, S) == \A s \in SUBSET S : s # {} => choose[s] \in s

-----------------------------------------------------------------------------
(* Induction *)

\* A set of naturals with 0 and the successors of its members holds them all.
LEMMA SetInduction ==
  ASSUME NEW P, 0 \in P, \A n \in Nat : n \in P => n + 1 \in P
  PROVE  Nat \subseteq P
<1> DEFINE T == {n \in Nat : n \notin P}
<1> SUFFICES ASSUME T # {} PROVE FALSE
  OBVIOUS
<1>1. T \subseteq Nat
  OBVIOUS
<1>2. PICK x \in T : \A y \in T : ~(<<y, x>> \in OpToRel(<, Nat))
  <2> HIDE DEF T
  <2> QED
    BY <1>1, NatLessThanWellFounded, WFMin
<1>3. x \in Nat /\ x # 0 /\ x \notin P
  OBVIOUS
<1>4. x - 1 \in Nat /\ (x - 1) + 1 = x
  BY <1>3
<1>5. x - 1 \notin P
  BY <1>3, <1>4
<1>6. <<x - 1, x>> \in OpToRel(<, Nat)
  BY <1>3, <1>4 DEF OpToRel
<1> QED
  BY <1>2, <1>4, <1>5, <1>6

\* The rest has one element less.
LEMMA RestFacts ==
  ASSUME NEW S, IsFiniteSet(S), NEW choose, Chooses(choose, S),
         NEW s \in SUBSET S, s # {}
  PROVE  /\ choose[s] \in s
         /\ Rest(s, choose) \in SUBSET S
         /\ IsFiniteSet(s) /\ Cardinality(s) \in Nat \ {0}
         /\ Cardinality(Rest(s, choose)) = Cardinality(s) - 1
<1>1. choose[s] \in s
  BY DEF Chooses
<1>2. IsFiniteSet(s)
  BY FS_Subset
<1>3. Cardinality(s) \in Nat /\ Cardinality(s) # 0
  BY <1>2, FS_CardinalityType, FS_EmptySet
<1>4. Cardinality(Rest(s, choose)) = Cardinality(s) - 1
  BY <1>1, <1>2, FS_RemoveElement DEF Rest
<1> QED
  BY <1>1, <1>2, <1>3, <1>4 DEF Rest

\* What the empty set has, and a set has if its rest has it, all subsets have.
LEMMA SubsetInduction ==
  ASSUME NEW S, IsFiniteSet(S), NEW choose, Chooses(choose, S), NEW Q, {} \in Q,
         \A s \in SUBSET S : s # {} /\ Rest(s, choose) \in Q => s \in Q
  PROVE  \A s \in SUBSET S : s \in Q
<1> DEFINE P == {n \in Nat : \A s \in SUBSET S : Cardinality(s) = n => s \in Q}
<1>1. \A s \in SUBSET S : IsFiniteSet(s) /\ Cardinality(s) \in Nat
  BY FS_Subset, FS_CardinalityType
<1>2. 0 \in P
  BY <1>1, FS_EmptySet
<1>3. ASSUME NEW n \in Nat, n \in P
      PROVE  n + 1 \in P
  <2> SUFFICES ASSUME NEW s \in SUBSET S, Cardinality(s) = n + 1
               PROVE  s \in Q
    OBVIOUS
  <2>1. Cardinality(s) # 0
    OBVIOUS
  <2>2. s # {}
    BY <2>1, FS_EmptySet
  <2>3. Rest(s, choose) \in SUBSET S /\ Cardinality(Rest(s, choose)) = n
    BY <2>2, RestFacts
  <2> QED
    BY <1>3, <2>2, <2>3
<1>4. Nat \subseteq P
  <2> HIDE DEF P
  <2> QED
    BY <1>2, <1>3, SetInduction
<1> QED
  BY <1>1, <1>4

-----------------------------------------------------------------------------
(* Existence and uniqueness *)

LEMMA FoldExists ==
  ASSUME NEW S, IsFiniteSet(S), NEW choose, Chooses(choose, S),
         NEW op, NEW base, NEW value
  PROVE  \E f : IsFold(f, S, choose, op, base, value)
<1> DEFINE step(f, s) == IF s = {} THEN base
                         ELSE op[<<value[choose[s]], f[Rest(s, choose)]>>]
           upTo(f, n) == \A s \in SUBSET S : Cardinality(s) <= n => f[s] = step(f, s)
           next(f) == [s \in SUBSET S |-> step(f, s)]
           P == {n \in Nat : \E f : upTo(f, n)}
<1>1. Cardinality({}) = 0 /\ Cardinality(S) \in Nat
  BY FS_EmptySet, FS_CardinalityType
<1>a. \A s \in SUBSET S : Cardinality(s) \in Nat /\ Cardinality(s) <= Cardinality(S)
  BY FS_Subset, FS_CardinalityType
<1>2. ASSUME NEW f, NEW n \in Nat, upTo(f, n)
      PROVE  upTo(next(f), n + 1)
  <2> SUFFICES ASSUME NEW s \in SUBSET S, Cardinality(s) <= n + 1, s # {}
               PROVE  next(f)[Rest(s, choose)] = f[Rest(s, choose)]
    OBVIOUS
  <2>1. Rest(s, choose) \in SUBSET S /\ Cardinality(Rest(s, choose)) = Cardinality(s) - 1
    BY RestFacts
  <2>2. Cardinality(Rest(s, choose)) <= n
    BY <1>a, <2>1
  <2> QED
    BY <1>2, <2>1, <2>2
<1>3. 0 \in P
  <2> DEFINE f == [s \in SUBSET S |-> base]
  <2>1. \A s \in SUBSET S : Cardinality(s) <= 0 => s = {}
    <3> TAKE s \in SUBSET S
    <3>1. IsFiniteSet(s)
      BY FS_Subset
    <3> QED
      BY <1>a, <3>1, FS_EmptySet
  <2>2. upTo(f, 0)
    BY <2>1
  <2> QED
    BY <2>2
<1>4. ASSUME NEW n \in Nat, n \in P
      PROVE  n + 1 \in P
  <2>1. PICK f : upTo(f, n)
    BY <1>4
  <2>2. upTo(next(f), n + 1)
    BY <1>2, <2>1
  <2>3. \E g : upTo(g, n + 1)
    <3> HIDE DEF next, upTo
    <3> QED
      BY <2>2
  <2> HIDE DEF upTo
  <2> QED
    BY <2>3
<1>5. Nat \subseteq P
  <2> HIDE DEF P
  <2> QED
    BY <1>3, <1>4, SetInduction
<1>6. PICK f : upTo(f, Cardinality(S))
  BY <1>1, <1>5
<1>7. upTo(next(f), Cardinality(S) + 1)
  BY <1>1, <1>2, <1>6
<1>8. \A s \in SUBSET S : next(f)[s] = step(next(f), s)
  <2> TAKE s \in SUBSET S
  <2>1. Cardinality(s) <= Cardinality(S) + 1
    BY <1>1, <1>a
  <2> QED
    BY <1>7, <2>1
<1>9. next(f) = [s \in SUBSET S |-> step(next(f), s)]
  BY <1>8
<1> QED
  BY <1>9 DEF IsFold

\* Two folds agree on a set on whose subsets they choose and value alike.
LEMMA FoldAgrees ==
  ASSUME NEW S, IsFiniteSet(S), NEW U, NEW V, S \subseteq U, S \subseteq V,
         NEW c, NEW d, Chooses(c, S), \A s \in SUBSET S : s # {} => c[s] = d[s],
         NEW v, NEW w, \A x \in S : v[x] = w[x],
         NEW op, NEW base, NEW f, NEW g,
         IsFold(f, U, c, op, base, v), IsFold(g, V, d, op, base, w)
  PROVE  \A s \in SUBSET S : f[s] = g[s]
<1> DEFINE Q == {s \in SUBSET S : f[s] = g[s]}
<1>2. ASSUME NEW s \in SUBSET S, s = {}
      PROVE  f[s] = g[s]
  BY <1>2 DEF IsFold
<1>3. ASSUME NEW s \in SUBSET S, s # {}, f[Rest(s, c)] = g[Rest(s, c)]
      PROVE  f[s] = g[s]
  <2>1. c[s] = d[s] /\ c[s] \in S /\ Rest(s, c) = Rest(s, d)
    BY <1>3 DEF Chooses, Rest
  <2>2. v[c[s]] = w[d[s]]
    BY <2>1
  <2>3. s \in SUBSET U /\ s \in SUBSET V
    OBVIOUS
  <2>4. f[s] = op[<<v[c[s]], f[Rest(s, c)]>>]
    BY <1>3, <2>3 DEF IsFold
  <2>5. g[s] = op[<<w[d[s]], g[Rest(s, d)]>>]
    BY <1>3, <2>3 DEF IsFold
  <2> QED
    BY <1>3, <2>1, <2>2, <2>4, <2>5
<1>4. \A s \in SUBSET S : s \in Q
  <2>1. {} \in Q
    BY <1>2
  <2>2. \A s \in SUBSET S : s # {} /\ Rest(s, c) \in Q => s \in Q
    BY <1>3
  <2> HIDE DEF Q
  <2> QED
    BY <2>1, <2>2, SubsetInduction
<1> QED
  BY <1>4

\* A function that takes one element away wherever the rest has a value of type
\* A is a fold, and all its values are of that type, if op keeps it.
LEMMA FoldType ==
  ASSUME NEW S, IsFiniteSet(S), NEW choose, Chooses(choose, S),
         NEW E, NEW A, NEW op, \A e \in E, a \in A : op[<<e, a>>] \in A,
         NEW base \in A, NEW value, \A x \in S : value[x] \in E,
         NEW f, OnSubsets(f, S), f[{}] = base, Unfolds(f, S, choose, op, value, A)
  PROVE  /\ \A s \in SUBSET S : f[s] \in A
         /\ IsFold(f, S, choose, op, base, value)
<1> DEFINE Q == {s \in SUBSET S : f[s] \in A}
<1>1. {} \in Q
  BY Zenon
<1>2. ASSUME NEW s \in SUBSET S, s # {}, Rest(s, choose) \in Q
      PROVE  s \in Q
  <2>1. choose[s] \in S
    BY <1>2 DEF Chooses
  <2>2. f[s] = op[<<value[choose[s]], f[Rest(s, choose)]>>]
    BY <1>2 DEF Unfolds
  <2> QED
    BY <1>2, <2>1, <2>2
<1>3. \A s \in SUBSET S : s \in Q
  <2> HIDE DEF Q
  <2> QED
    BY <1>1, <1>2, SubsetInduction
<1>5. \A s \in SUBSET S : f[s] \in A
  BY <1>3
<1>6. ASSUME NEW s \in SUBSET S, s # {}
      PROVE  f[s] = op[<<value[choose[s]], f[Rest(s, choose)]>>]
  <2>1. Rest(s, choose) \in SUBSET S
    BY DEF Rest
  <2> QED
    BY <1>5, <1>6, <2>1 DEF Unfolds
<1>7. IsFold(f, S, choose, op, base, value)
  BY <1>6 DEF IsFold, OnSubsets
<1> QED
  BY <1>5, <1>7

-----------------------------------------------------------------------------
(* Folds over sequences, from the first element to the last *)

LEMMA MaxIndex ==
  ASSUME NEW n \in Nat, NEW S \in SUBSET (1..n), S # {}
  PROVE  Max(S) \in S /\ \A i \in S : Max(S) >= i
<1> DEFINE T == {n - i : i \in S}
<1>a. \A i \in S : i \in Nat /\ n - i \in Nat
  OBVIOUS
<1>b. T \subseteq Nat /\ T # {}
  BY <1>a
<1>1. PICK x \in T : \A y \in T : ~(<<y, x>> \in OpToRel(<, Nat))
  <2> HIDE DEF T
  <2> QED
    BY <1>b, NatLessThanWellFounded, WFMin
<1>2. \A y \in T : ~(y < x)
  <2>1. OpToRel(<, Nat) = {ss \in Nat \X Nat : ss[1] < ss[2]}
    BY DEF OpToRel
  <2> HIDE DEF T
  <2>2. TAKE y \in T
  <2>3. SUFFICES ASSUME y < x PROVE FALSE
    OBVIOUS
  <2>4. <<y, x>> \in Nat \X Nat
    BY <1>b
  <2> QED
    BY <1>1, <2>1, <2>3, <2>4
<1>3. PICK i \in S : x = n - i
  OBVIOUS
<1>4. \A j \in S : i >= j
  BY <1>2, <1>3
<1> QED
  BY <1>3, <1>4 DEF Max

\* The element FoldLeft takes away: the last one.
Latest(n) == [s \in SUBSET (1..n) |-> Max(s)]

LEMMA LatestChooses ==
  ASSUME NEW n \in Nat
  PROVE  IsFiniteSet(1..n) /\ Chooses(Latest(n), 1..n)
<1>1. IsFiniteSet(1..n)
  BY FS_Interval
<1> QED
  BY <1>1, MaxIndex DEF Chooses, Latest

Agree(v, w, n) == \A i \in 1..n : v[i] = w[i]

\* One element more is one step more.
LEMMA FoldAppend ==
  ASSUME NEW n \in Nat, NEW m, m = n + 1, NEW v, NEW w, Agree(v, w, n),
         NEW op, NEW base, NEW f, NEW g,
         IsFold(f, 1..n, Latest(n), op, base, v),
         IsFold(g, 1..m, Latest(m), op, base, w)
  PROVE  g[1..m] = op[<<w[m], f[1..n]>>]
<1>0. m \in Nat /\ m >= 1
  OBVIOUS
<1>1. /\ 1..m \in SUBSET (1..m) /\ 1..m # {}
      /\ m \in 1..m /\ m \in Nat
  BY <1>0
<1>2. Max(1..m) = m
  <2>1. Max(1..m) \in 1..m /\ Max(1..m) >= m
    BY <1>1, MaxIndex
  <2> QED
    BY <2>1
<1>3. Latest(m)[1..m] = m
  BY <1>1, <1>2 DEF Latest
<1>4. Rest(1..m, Latest(m)) = 1..n
  BY <1>3 DEF Rest
<1>5. g[1..m] = op[<<w[m], g[1..n]>>]
  BY <1>1, <1>3, <1>4 DEF IsFold
<1>6. \A s \in SUBSET (1..n) : Latest(n)[s] = Latest(m)[s]
  BY DEF Latest
<1>7. 1..n \subseteq 1..m /\ 1..n \subseteq 1..n
  OBVIOUS
<1>8. f[1..n] = g[1..n]
  <2>1. IsFiniteSet(1..n) /\ Chooses(Latest(n), 1..n)
    BY LatestChooses
  <2>2. \A s \in SUBSET (1..n) : f[s] = g[s]
    <3> DEFINE S == 1..n
               V == 1..m
               c == Latest(n)
               d == Latest(m)
    <3>1. /\ IsFiniteSet(S) /\ Chooses(c, S) /\ S \subseteq S /\ S \subseteq V
          /\ \A s \in SUBSET S : s # {} => c[s] = d[s]
          /\ \A i \in S : v[i] = w[i]
          /\ IsFold(f, S, c, op, base, v) /\ IsFold(g, V, d, op, base, w)
      BY <1>6, <1>7, <2>1 DEF Agree
    <3> HIDE DEF S, V, c, d
    <3>2. \A s \in SUBSET S : f[s] = g[s]
      BY <3>1, FoldAgrees
    <3> QED
      BY <3>2 DEF S
  <2> QED
    BY <2>2
<1> QED
  BY <1>5, <1>8

\* g folds v[1], ..., v[n] from the left, and all its values are of type A.
Closed(op, E, A) == \A e \in E, a \in A : op[<<e, a>>] \in A

Runs(g, n, op, base, v, A) ==
  /\ IsFold(g, 1..n, Latest(n), op, base, v)
  /\ \A s \in SUBSET (1..n) : g[s] \in A

\* FoldType for sequences.
LEMMA RunType ==
  ASSUME NEW n \in Nat, NEW E, NEW A, NEW op, Closed(op, E, A), NEW base \in A,
         NEW v, \A i \in 1..n : v[i] \in E,
         NEW g, OnSubsets(g, 1..n), g[{}] = base,
         \A s \in SUBSET (1..n) : s # {} /\ g[s \ {Max(s)}] \in A
           => g[s] = op[<<v[Max(s)], g[s \ {Max(s)}]>>]
  PROVE  Runs(g, n, op, base, v, A)
<1> DEFINE S == 1..n
           c == Latest(n)
<1>1. IsFiniteSet(S) /\ Chooses(c, S)
  BY LatestChooses
<1>2. Unfolds(g, S, c, op, v, A)
  BY DEF Unfolds, Latest, Rest
<1>3. (\A i \in S : v[i] \in E) /\ OnSubsets(g, S)
  OBVIOUS
<1> HIDE DEF S, c
<1>4. (\A s \in SUBSET S : g[s] \in A) /\ IsFold(g, S, c, op, base, v)
  BY <1>1, <1>2, <1>3, FoldType DEF Closed
<1> QED
  BY <1>4 DEF Runs, S, c

\* The step to s, whose last element comes last.
Steps(g, s, op, v) == g[s] = op[<<v[Max(s)], g[s \ {Max(s)}]>>]

LEMMA RunStep ==
  ASSUME NEW n \in Nat, NEW op, NEW base, NEW v, NEW A, NEW g,
         Runs(g, n, op, base, v, A), NEW s \in SUBSET (1..n), s # {}
  PROVE  /\ Max(s) \in s /\ Max(s) \in 1..n
         /\ s \ {Max(s)} \in SUBSET (1..n)
         /\ g[s \ {Max(s)}] \in A
         /\ Steps(g, s, op, v)
<1>1. Max(s) \in s
  BY MaxIndex
<1>2. s \ {Max(s)} \in SUBSET (1..n)
  OBVIOUS
<1>3. g[s] = op[<<v[Latest(n)[s]], g[Rest(s, Latest(n))]>>]
  BY DEF Runs, IsFold
<1> QED
  BY <1>1, <1>2, <1>3 DEF Runs, Latest, Rest, Steps

LEMMA RunExists ==
  ASSUME NEW n \in Nat, NEW E, NEW A, NEW op, Closed(op, E, A), NEW base \in A,
         NEW v, \A i \in 1..n : v[i] \in E
  PROVE  \E g : OnSubsets(g, 1..n) /\ g[{}] = base /\ Runs(g, n, op, base, v, A)
<1>1. PICK g : IsFold(g, 1..n, Latest(n), op, base, v)
  BY LatestChooses, FoldExists
<1>2. OnSubsets(g, 1..n) /\ g[{}] = base
  BY <1>1 DEF IsFold, OnSubsets
<1>3. \A s \in SUBSET (1..n) : s # {} => g[s] = op[<<v[Max(s)], g[s \ {Max(s)}]>>]
  BY <1>1 DEF IsFold, Latest, Rest
<1>4. Runs(g, n, op, base, v, A)
  <2>1. \A s \in SUBSET (1..n) : s # {} /\ g[s \ {Max(s)}] \in A
          => g[s] = op[<<v[Max(s)], g[s \ {Max(s)}]>>]
    BY <1>3
  <2> QED
    BY <1>2, <2>1, RunType
<1> QED
  BY <1>2, <1>4

LEMMA RunEmpty ==
  ASSUME NEW op, NEW base, NEW v, NEW A, NEW g, Runs(g, 0, op, base, v, A)
  PROVE  g[1..0] = base
BY DEF Runs, IsFold

\* g has taken one step more than f.
Follows(g, m, f, n, op, w) == g[1..m] = op[<<w[m], f[1..n]>>]

\* FoldAppend for runs.
LEMMA RunAppend ==
  ASSUME NEW n \in Nat, NEW m, m = n + 1, NEW v, NEW w, Agree(v, w, n),
         NEW op, NEW base, NEW A, NEW f, NEW g,
         Runs(f, n, op, base, v, A), Runs(g, m, op, base, w, A)
  PROVE  Follows(g, m, f, n, op, w) /\ f[1..n] \in A
<1>1. IsFold(f, 1..n, Latest(n), op, base, v)
  BY DEF Runs
<1>2. IsFold(g, 1..m, Latest(m), op, base, w)
  BY DEF Runs
<1>3. g[1..m] = op[<<w[m], f[1..n]>>]
  BY <1>1, <1>2, FoldAppend
<1>4. f[1..n] \in A
  BY DEF Runs
<1> QED
  BY <1>3, <1>4 DEF Follows

-----------------------------------------------------------------------------
(* Sums of integers, along a sequence *)

Plus == [p \in Int \X Int |-> p[1] + p[2]]

LEMMA PlusFacts ==
  \A e, a \in Int : Plus[<<e, a>>] = e + a /\ Plus[<<e, a>>] \in Int
BY DEF Plus

AllInt(v, n) == \A i \in 1..n : v[i] \in Int

\* base and v[1], ..., v[n] added up.
SumRuns(g, n, base, v) == Runs(g, n, Plus, base, v, Int)

Adds(g, s, v) == g[s] = g[s \ {Max(s)}] + v[Max(s)]

LEMMA SumRunType ==
  ASSUME NEW n \in Nat, NEW base \in Int, NEW v, AllInt(v, n),
         NEW g, OnSubsets(g, 1..n), g[{}] = base,
         \A s \in SUBSET (1..n) : s # {} /\ g[s \ {Max(s)}] \in Int
           => Adds(g, s, v)
  PROVE  SumRuns(g, n, base, v)
<1> DEFINE A == Int
<1>1. ASSUME NEW s \in SUBSET (1..n), s # {}, g[s \ {Max(s)}] \in A
      PROVE  g[s] = Plus[<<v[Max(s)], g[s \ {Max(s)}]>>]
  <2>1. v[Max(s)] \in Int
    BY <1>1, MaxIndex DEF AllInt
  <2>2. g[s] = g[s \ {Max(s)}] + v[Max(s)]
    BY <1>1 DEF Adds
  <2> DEFINE e == v[Max(s)]
             a == g[s \ {Max(s)}]
  <2>3. e \in Int /\ a \in Int /\ g[s] = a + e
    BY <1>1, <2>1, <2>2
  <2> HIDE DEF e, a
  <2>4. g[s] = Plus[<<e, a>>]
    BY <2>3, PlusFacts
  <2> QED
    BY <2>4 DEF e, a
<1>2. Closed(Plus, A, A) /\ base \in A /\ \A i \in 1..n : v[i] \in A
  BY PlusFacts DEF Closed, AllInt
<1> HIDE DEF A
<1>3. Runs(g, n, Plus, base, v, A)
  BY <1>1, <1>2, RunType
<1> QED
  BY <1>3 DEF SumRuns, A

LEMMA SumRunStep ==
  ASSUME NEW n \in Nat, NEW base, NEW v, AllInt(v, n),
         NEW g, SumRuns(g, n, base, v), NEW s \in SUBSET (1..n), s # {}
  PROVE  /\ Max(s) \in 1..n
         /\ g[s \ {Max(s)}] \in Int
         /\ Adds(g, s, v)
<1> DEFINE A  == Int
           op == Plus
<1>1. Runs(g, n, op, base, v, A)
  BY DEF SumRuns
<1> HIDE DEF A, op
<1>2. Max(s) \in 1..n /\ g[s \ {Max(s)}] \in A
  BY <1>1, RunStep
<1>3. Steps(g, s, op, v)
  BY <1>1, RunStep
<1>4. g[s \ {Max(s)}] \in Int /\ v[Max(s)] \in Int
  BY <1>2 DEF A, AllInt
<1> DEFINE e == v[Max(s)]
           a == g[s \ {Max(s)}]
<1>5. e \in Int /\ a \in Int /\ g[s] = Plus[<<e, a>>]
  BY <1>3, <1>4 DEF op, Steps
<1>6. g[s] = a + e
  <2> HIDE DEF e, a
  <2> QED
    BY <1>5, PlusFacts
<1> QED
  BY <1>2, <1>5, <1>6 DEF Adds

LEMMA SumRunExists ==
  ASSUME NEW n \in Nat, NEW base \in Int, NEW v, AllInt(v, n)
  PROVE  \E g : OnSubsets(g, 1..n) /\ g[{}] = base /\ SumRuns(g, n, base, v)
<1> DEFINE A == Int
<1>1. Closed(Plus, A, A) /\ base \in A /\ \A i \in 1..n : v[i] \in A
  BY PlusFacts DEF Closed, AllInt
<1> HIDE DEF A
<1>2. PICK g : OnSubsets(g, 1..n) /\ g[{}] = base /\ Runs(g, n, Plus, base, v, A)
  BY <1>1, RunExists
<1> QED
  BY <1>2 DEF SumRuns, A

LEMMA SumRunEmpty ==
  ASSUME NEW base, NEW v, NEW g, SumRuns(g, 0, base, v)
  PROVE  g[1..0] = base
BY RunEmpty DEF SumRuns

LEMMA SumRunAppend ==
  ASSUME NEW n \in Nat, NEW m, m = n + 1, NEW v, NEW w, Agree(v, w, n),
         AllInt(w, m), NEW base, NEW f, NEW g,
         SumRuns(f, n, base, v), SumRuns(g, m, base, w)
  PROVE  g[1..m] = f[1..n] + w[m]
<1> DEFINE A  == Int
           op == Plus
<1>1. Runs(f, n, op, base, v, A) /\ Runs(g, m, op, base, w, A)
  BY DEF SumRuns
<1> HIDE DEF A, op
<1>2. Follows(g, m, f, n, op, w)
  BY <1>1, RunAppend
<1>3. f[1..n] \in A
  BY <1>1 DEF Runs
<1>4. f[1..n] \in Int /\ w[m] \in Int
  BY <1>3 DEF A, AllInt
<1> QED
  BY <1>2, <1>4, PlusFacts DEF op, Follows

-----------------------------------------------------------------------------
(* Sums of integers over the domain of a function *)

Total(f) == FoldFunction(+, 0, f)

\* The element FoldFunction takes away: some element.
Some(S) == [s \in SUBSET S |-> CHOOSE x \in s : TRUE]

LEMMA SomeChooses ==
  ASSUME NEW S
  PROVE  Chooses(Some(S), S)
BY DEF Chooses, Some

\* The sums of f over the subsets of its domain.
Sums(g, S, f) ==
  /\ IsFold(g, S, Some(S), Plus, 0, f)
  /\ \A s \in SUBSET S : g[s] \in Int

\* FoldType for sums.
LEMMA SumsType ==
  ASSUME NEW S, IsFiniteSet(S), NEW f \in [S -> Int],
         NEW g, OnSubsets(g, S), g[{}] = 0, Unfolds(g, S, Some(S), Plus, f, Int)
  PROVE  Sums(g, S, f)
<1> DEFINE A == Int
           c == Some(S)
<1>1. /\ \A e \in A, a \in A : Plus[<<e, a>>] \in A
      /\ 0 \in A /\ \A x \in S : f[x] \in A
      /\ Chooses(c, S)
  BY PlusFacts, SomeChooses
<1>2. Unfolds(g, S, c, Plus, f, A)
  OBVIOUS
<1> HIDE DEF A, c
<1>3. (\A s \in SUBSET S : g[s] \in A) /\ IsFold(g, S, c, Plus, 0, f)
  BY <1>1, <1>2, FoldType
<1> QED
  BY <1>3 DEF Sums, A, c

LEMMA TotalFold ==
  ASSUME NEW S, IsFiniteSet(S), NEW f \in [S -> Int]
  PROVE  \E g : Sums(g, S, f) /\ Total(f) = g[S]
<1> DEFINE raw(g) == g = [s \in SUBSET S |->
                            IF s = {} THEN 0
                            ELSE f[CHOOSE x \in s : TRUE] + g[s \ {CHOOSE x \in s : TRUE}]]
<1>2. ASSUME NEW g, raw(g)
      PROVE  Sums(g, S, f)
  <2>1. OnSubsets(g, S) /\ g[{}] = 0
    BY <1>2 DEF OnSubsets
  <2>2. ASSUME NEW s \in SUBSET S, s # {}, g[Rest(s, Some(S))] \in Int
        PROVE  g[s] = Plus[<<f[Some(S)[s]], g[Rest(s, Some(S))]>>]
    <3>1. Some(S)[s] = (CHOOSE x \in s : TRUE) /\ f[Some(S)[s]] \in Int
      BY <2>2, SomeChooses DEF Some, Chooses
    <3>2. g[s] = f[Some(S)[s]] + g[Rest(s, Some(S))]
      BY <1>2, <2>2, <3>1 DEF Rest
    <3> QED
      BY <2>2, <3>1, <3>2, PlusFacts
  <2> HIDE DEF raw
  <2> QED
    BY <2>1, <2>2, SumsType DEF Unfolds
<1>3. \E g : raw(g)
  <2>1. PICK g : IsFold(g, S, Some(S), Plus, 0, f)
    BY SomeChooses, FoldExists
  <2>2. OnSubsets(g, S) /\ g[{}] = 0
    BY <2>1 DEF IsFold, OnSubsets
  <2>3. \A s \in SUBSET S : s # {} => g[s] = Plus[<<f[Some(S)[s]], g[Rest(s, Some(S))]>>]
    BY <2>1 DEF IsFold
  <2>4. \A s \in SUBSET S : g[s] \in Int
    BY <2>2, <2>3, SumsType DEF Sums, Unfolds
  <2>5. ASSUME NEW s \in SUBSET S, s # {}
        PROVE  g[s] = f[CHOOSE x \in s : TRUE] + g[s \ {CHOOSE x \in s : TRUE}]
    <3>1. Some(S)[s] = (CHOOSE x \in s : TRUE) /\ f[Some(S)[s]] \in Int
      BY <2>5, SomeChooses DEF Some, Chooses
    <3>2. Rest(s, Some(S)) = s \ {CHOOSE x \in s : TRUE} /\ Rest(s, Some(S)) \in SUBSET S
      BY <3>1 DEF Rest
    <3> QED
      BY <2>3, <2>4, <2>5, <3>1, <3>2, PlusFacts
  <2>6. raw(g)
    BY <2>2, <2>5 DEF OnSubsets
  <2> QED
    BY <2>6
<1>4. DOMAIN f = S
  OBVIOUS
<1> DEFINE h == CHOOSE g : raw(g)
<1>5. raw(h)
  BY <1>3, Zenon
<1>6. Total(f) = h[S]
  BY <1>4, Zenon DEF Total, FoldFunction, FoldFunctionOnSet, MapThenFoldSet
<1> HIDE DEF h, raw
<1> QED
  BY <1>2, <1>5, <1>6

LEMMA TotalType ==
  ASSUME NEW S, IsFiniteSet(S), NEW f \in [S -> Int]
  PROVE  Total(f) \in Int
BY TotalFold DEF Sums

\* One element more, in the sums over the subsets.
LEMMA SumsStep ==
  ASSUME NEW S, IsFiniteSet(S), NEW f \in [S -> Int], NEW g, Sums(g, S, f),
         NEW s \in SUBSET S, s # {}
  PROVE  /\ Some(S)[s] \in s
         /\ Rest(s, Some(S)) \in SUBSET S
         /\ g[Rest(s, Some(S))] \in Int
         /\ g[s] = f[Some(S)[s]] + g[Rest(s, Some(S))]
<1>1. Some(S)[s] \in s /\ Rest(s, Some(S)) \in SUBSET S
  BY SomeChooses DEF Chooses, Rest
<1>2. g[Rest(s, Some(S))] \in Int /\ f[Some(S)[s]] \in Int
  BY <1>1 DEF Sums
<1>3. g[s] = Plus[<<f[Some(S)[s]], g[Rest(s, Some(S))]>>]
  BY DEF Sums, IsFold
<1> QED
  BY <1>1, <1>2, <1>3, PlusFacts

LEMMA SumsEmpty ==
  ASSUME NEW S, NEW f, NEW g, Sums(g, S, f)
  PROVE  g[{}] = 0
BY DEF Sums, IsFold

\* h is f and g added, place by place.
Added(h, f, g, S) == \A x \in S : h[x] = f[x] + g[x]

LEMMA TotalPlus ==
  ASSUME NEW S, IsFiniteSet(S), NEW f \in [S -> Int], NEW g \in [S -> Int],
         NEW h \in [S -> Int], Added(h, f, g, S)
  PROVE  Total(h) = Total(f) + Total(g)
<1>1. PICK F : Sums(F, S, f) /\ Total(f) = F[S]
  BY TotalFold
<1>2. PICK G : Sums(G, S, g) /\ Total(g) = G[S]
  BY TotalFold
<1>3. PICK H : Sums(H, S, h) /\ Total(h) = H[S]
  BY TotalFold
<1> DEFINE Q == {s \in SUBSET S : H[s] = F[s] + G[s]}
<1>4. {} \in Q
  BY <1>1, <1>2, <1>3, SumsEmpty
<1>5. ASSUME NEW s \in SUBSET S, s # {}, Rest(s, Some(S)) \in Q
      PROVE  s \in Q
  <2> DEFINE x == Some(S)[s]
             r == Rest(s, Some(S))
  <2>1. F[r] \in Int /\ F[s] = f[x] + F[r]
    BY <1>1, <1>5, SumsStep
  <2>2. G[r] \in Int /\ G[s] = g[x] + G[r]
    BY <1>2, <1>5, SumsStep
  <2>3. H[r] \in Int /\ H[s] = h[x] + H[r]
    BY <1>3, <1>5, SumsStep
  <2>4. x \in S
    BY <1>1, <1>5, SumsStep
  <2>5. h[x] = f[x] + g[x] /\ f[x] \in Int /\ g[x] \in Int
    BY <2>4 DEF Added
  <2>6. H[r] = F[r] + G[r]
    BY <1>5
  <2> HIDE DEF x, r
  <2>7. H[s] = F[s] + G[s]
    BY <2>1, <2>2, <2>3, <2>5, <2>6
  <2> QED
    BY <2>7
<1>6. \A s \in SUBSET S : s \in Q
  <2> HIDE DEF Q
  <2> QED
    BY <1>4, <1>5, SomeChooses, SubsetInduction
<1> QED
  BY <1>1, <1>2, <1>3, <1>6

LEMMA TotalMono ==
  ASSUME NEW S, IsFiniteSet(S), NEW f \in [S -> Int], NEW g \in [S -> Int],
         \A x \in S : f[x] <= g[x]
  PROVE  Total(f) <= Total(g)
<1>1. PICK F : Sums(F, S, f) /\ Total(f) = F[S]
  BY TotalFold
<1>2. PICK G : Sums(G, S, g) /\ Total(g) = G[S]
  BY TotalFold
<1> DEFINE Q == {s \in SUBSET S : F[s] <= G[s]}
<1>4. {} \in Q
  BY <1>1, <1>2, SumsEmpty
<1>5. ASSUME NEW s \in SUBSET S, s # {}, Rest(s, Some(S)) \in Q
      PROVE  s \in Q
  <2> DEFINE x == Some(S)[s]
             r == Rest(s, Some(S))
  <2>1. F[r] \in Int /\ F[s] = f[x] + F[r]
    BY <1>1, <1>5, SumsStep
  <2>2. G[r] \in Int /\ G[s] = g[x] + G[r] /\ x \in S
    BY <1>2, <1>5, SumsStep
  <2>3. f[x] <= g[x] /\ f[x] \in Int /\ g[x] \in Int
    BY <2>2
  <2>4. F[r] <= G[r]
    BY <1>5
  <2> HIDE DEF x, r
  <2>5. F[s] <= G[s]
    BY <2>1, <2>2, <2>3, <2>4
  <2> QED
    BY <2>5
<1>6. \A s \in SUBSET S : s \in Q
  <2> HIDE DEF Q
  <2> QED
    BY <1>4, <1>5, SomeChooses, SubsetInduction
<1> QED
  BY <1>1, <1>2, <1>6

\* The sum of a function that is zero but at one place.
LEMMA TotalPoint ==
  ASSUME NEW S, IsFiniteSet(S), NEW x \in S, NEW k \in Int,
         NEW f \in [S -> Int], \A y \in S : f[y] = IF y = x THEN k ELSE 0
  PROVE  Total(f) = k
<1>1. PICK F : Sums(F, S, f) /\ Total(f) = F[S]
  BY TotalFold
<1> DEFINE Q == {s \in SUBSET S : F[s] = IF x \in s THEN k ELSE 0}
<1>4. {} \in Q
  BY <1>1, SumsEmpty
<1>5. ASSUME NEW s \in SUBSET S, s # {}, Rest(s, Some(S)) \in Q
      PROVE  s \in Q
  <2> DEFINE y == Some(S)[s]
             r == Rest(s, Some(S))
  <2>1. F[r] \in Int /\ F[s] = f[y] + F[r] /\ y \in s /\ y \in S
    BY <1>1, <1>5, SumsStep
  <2>2. x \in r <=> x \in s /\ x # y
    BY DEF Rest
  <2>3. F[r] = IF x \in r THEN k ELSE 0
    BY <1>5
  <2>4. f[y] = IF y = x THEN k ELSE 0
    BY <2>1
  <2> HIDE DEF y, r
  <2>5. F[s] = IF x \in s THEN k ELSE 0
    BY <2>1, <2>2, <2>3, <2>4
  <2> QED
    BY <2>5
<1>6. \A s \in SUBSET S : s \in Q
  <2> HIDE DEF Q
  <2> QED
    BY <1>4, <1>5, SomeChooses, SubsetInduction
<1> QED
  BY <1>1, <1>6

LEMMA TotalBound ==
  ASSUME NEW S, IsFiniteSet(S), NEW k \in Nat,
         NEW f \in [S -> Int], \A x \in S : f[x] <= k
  PROVE  Total(f) <= Cardinality(S) * k
<1>1. PICK F : Sums(F, S, f) /\ Total(f) = F[S]
  BY TotalFold
<1> DEFINE Q == {s \in SUBSET S : F[s] <= Cardinality(s) * k}
<1>4. {} \in Q
  BY <1>1, SumsEmpty, FS_EmptySet
<1>5. ASSUME NEW s \in SUBSET S, s # {}, Rest(s, Some(S)) \in Q
      PROVE  s \in Q
  <2> DEFINE x == Some(S)[s]
             r == Rest(s, Some(S))
             n == Cardinality(s)
             m == Cardinality(r)
  <2>1. F[r] \in Int /\ F[s] = f[x] + F[r] /\ x \in S
    BY <1>1, <1>5, SumsStep
  <2>2. n \in Nat \ {0} /\ m = n - 1
    BY <1>5, SomeChooses, RestFacts
  <2>3. f[x] <= k /\ f[x] \in Int
    BY <2>1
  <2>4. F[r] <= m * k
    BY <1>5
  <2> HIDE DEF x, r, n, m
  <2>5. m * k + k = n * k /\ m * k \in Int /\ n * k \in Int
    BY <2>2
  <2>6. F[s] <= n * k
    BY <2>1, <2>3, <2>4, <2>5
  <2> QED
    BY <2>6 DEF n
<1>6. \A s \in SUBSET S : s \in Q
  <2> HIDE DEF Q
  <2> QED
    BY <1>4, <1>5, SomeChooses, SubsetInduction
<1> QED
  BY <1>1, <1>6

\* g is f without what is at x.
Without(g, f, x, S) == g[x] = 0 /\ \A y \in S : y # x => g[y] = f[y]

LEMMA TotalDrop ==
  ASSUME NEW S, IsFiniteSet(S), NEW f \in [S -> Int], NEW g \in [S -> Int],
         NEW x \in S, Without(g, f, x, S)
  PROVE  Total(f) = Total(g) + f[x]
<1> DEFINE k == f[x]
           point == [y \in S |-> IF y = x THEN k ELSE 0]
<1>1. k \in Int /\ point \in [S -> Int]
  OBVIOUS
<1>2. Added(f, g, point, S)
  BY DEF Added, Without
<1>3. \A y \in S : point[y] = IF y = x THEN k ELSE 0
  OBVIOUS
<1>4. Total(f) = Total(g) + Total(point)
  <2> HIDE DEF point, k
  <2> QED
    BY <1>1, <1>2, TotalPlus
<1>5. Total(point) = k
  <2> HIDE DEF point, k
  <2> QED
    BY <1>1, <1>3, TotalPoint
<1> QED
  BY <1>4, <1>5
=============================================================================
