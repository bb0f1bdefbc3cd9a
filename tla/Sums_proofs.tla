---------------------------- MODULE Sums_proofs ----------------------------
(***************************************************************************)
(* Lemmas on sums over finite sets, such as the one the reconciler         *)
(* compares with the signed minimum: a sum satisfies its recursion         *)
(* equation, does not depend on the order in which the members are taken,  *)
(* and grows with the set.                                                 *)
(*                                                                         *)
(* A sum is a fold over the subsets of a finite set.  Every induction      *)
(* below is on a minimal counterexample, a set and not an operator.        *)
(***************************************************************************)
EXTENDS FiniteSetsExt, Integers, FiniteSetTheorems, WellFoundedInduction, TLAPS

\* What c gives over the members of S.
SumOf(S, c) == MapThenSumSet(LAMBDA k : c[k], S)

Pick(s) == CHOOSE x \in s : TRUE

\* g is the fold of c over the subsets of S.
IsFold(S, c, g) ==
    g = [s \in SUBSET S |->
            IF s = {} THEN 0 ELSE c[Pick(s)] + g[s \ {Pick(s)}]]

\* A set of finite subsets has a member none of its members is inside of.
LEMMA SmallestSubset ==
    ASSUME NEW S, IsFiniteSet(S), NEW Bad \in SUBSET (SUBSET S), Bad # {}
    PROVE  \E T \in Bad : \A U \in Bad : U \subseteq T => U = T
<1>1. FiniteSubsetsOf(S) = SUBSET S
  BY FS_FiniteSubsetsOfFinite
<1>2. IsWellFoundedOn(StrictSubsetOrdering(S), SUBSET S)
  BY <1>1, FS_StrictSubsetOrderingWellFounded
<1>3. PICK T \in Bad : \A U \in Bad : ~ (<<U, T>> \in StrictSubsetOrdering(S))
  BY <1>2, WFMin
<1>4. ASSUME NEW U \in Bad, U \subseteq T PROVE U = T
  BY <1>3, <1>4 DEF StrictSubsetOrdering
<1> QED  BY <1>4

LEMMA PickIsMember == \A s : s # {} => Pick(s) \in s
BY DEF Pick

LEMMA FoldAt ==
    ASSUME NEW S, NEW c, NEW g, IsFold(S, c, g)
    PROVE  \A s \in SUBSET S :
              g[s] = IF s = {} THEN 0 ELSE c[Pick(s)] + g[s \ {Pick(s)}]
<1> DEFINE h == [s \in SUBSET S |->
                    IF s = {} THEN 0 ELSE c[Pick(s)] + g[s \ {Pick(s)}]]
<1>1. g = h
  BY DEF IsFold
<1>2. \A s \in SUBSET S :
          h[s] = IF s = {} THEN 0 ELSE c[Pick(s)] + g[s \ {Pick(s)}]
  OBVIOUS
<1> HIDE DEF h
<1> QED  BY <1>1, <1>2

LEMMA OneFold ==
    ASSUME NEW S, IsFiniteSet(S), NEW c, NEW g, NEW h,
           IsFold(S, c, g), IsFold(S, c, h)
    PROVE  g = h
<1> DEFINE Bad == {s \in SUBSET S : g[s] # h[s]}
<1>1. CASE Bad = {}
  <2>1. \A s \in SUBSET S : g[s] = h[s]
    BY <1>1
  <2>2. DOMAIN g = SUBSET S /\ DOMAIN h = SUBSET S
        /\ g = [s \in SUBSET S |-> g[s]] /\ h = [s \in SUBSET S |-> h[s]]
    BY DEF IsFold
  <2> QED  BY <2>1, <2>2
<1>2. CASE Bad # {}
  <2>1. PICK T \in Bad : \A U \in Bad : U \subseteq T => U = T
    <3>1. Bad \in SUBSET (SUBSET S)
      OBVIOUS
    <3> HIDE DEF Bad
    <3> QED  BY <1>2, <3>1, SmallestSubset
  <2>2. /\ g[T] = IF T = {} THEN 0 ELSE c[Pick(T)] + g[T \ {Pick(T)}]
        /\ h[T] = IF T = {} THEN 0 ELSE c[Pick(T)] + h[T \ {Pick(T)}]
    BY FoldAt
  <2>3. T # {}
    BY <2>2
  <2>4. Pick(T) \in T
    BY <2>3, PickIsMember
  <2>5. T \ {Pick(T)} \in SUBSET S /\ T \ {Pick(T)} # T
    BY <2>4
  <2>6. g[T \ {Pick(T)}] = h[T \ {Pick(T)}]
    BY <2>1, <2>5
  <2> QED  BY <2>2, <2>3, <2>6
<1> QED  BY <1>1, <1>2

LEMMA FoldWithin ==
    ASSUME NEW S, NEW c, NEW g, IsFold(S, c, g), NEW T \in SUBSET S
    PROVE  IsFold(T, c, [s \in SUBSET T |-> g[s]])
<1> DEFINE h == [s \in SUBSET T |-> g[s]]
<1>1. \A s \in SUBSET T : s \in SUBSET S /\ s \ {Pick(s)} \in SUBSET T
  OBVIOUS
<1>2. \A s \in SUBSET T :
          h[s] = IF s = {} THEN 0 ELSE c[Pick(s)] + h[s \ {Pick(s)}]
  <2> TAKE s \in SUBSET T
  <2>1. h[s] = g[s] /\ h[s \ {Pick(s)}] = g[s \ {Pick(s)}] /\ s \in SUBSET S
    BY <1>1
  <2> HIDE DEF h
  <2> QED  BY <2>1, FoldAt
<1>3. h = [s \in SUBSET T |-> h[s]]
  OBVIOUS
<1> HIDE DEF h
<1>4. h = [s \in SUBSET T |->
              IF s = {} THEN 0 ELSE c[Pick(s)] + h[s \ {Pick(s)}]]
  BY <1>2, <1>3
<1> QED  BY <1>4 DEF IsFold, h

LEMMA SumIsFold ==
    ASSUME NEW S, NEW c
    PROVE  SumOf(S, c) = (CHOOSE g : IsFold(S, c, g))[S]
BY DEF SumOf, MapThenSumSet, MapThenFoldSet, IsFold, Pick

\* Where there is a fold, it holds the sum of every subset.
LEMMA FoldHoldsSums ==
    ASSUME NEW S, IsFiniteSet(S), NEW c, NEW g, IsFold(S, c, g),
           NEW T \in SUBSET S
    PROVE  g[T] = SumOf(T, c)
<1> DEFINE h == [s \in SUBSET T |-> g[s]]
           chosen == CHOOSE f : IsFold(T, c, f)
<1>1. IsFold(T, c, h) /\ h[T] = g[T]
  BY FoldWithin
<1>2. IsFold(T, c, chosen)
  BY <1>1
<1>3. IsFiniteSet(T)
  BY FS_Subset
<1> HIDE DEF h, chosen
<1>4. h = chosen
  BY <1>1, <1>2, <1>3, OneFold
<1> QED  BY <1>1, <1>4, SumIsFold DEF chosen

LEMMA FoldExists ==
    ASSUME NEW S, IsFiniteSet(S), NEW c
    PROVE  \E g : IsFold(S, c, g)
<1> DEFINE Bad == {T \in SUBSET S : ~ \E g : IsFold(T, c, g)}
<1>1. CASE Bad = {}
  BY <1>1
<1>2. CASE Bad # {}
  <2>1. PICK T \in Bad : \A U \in Bad : U \subseteq T => U = T
    <3>1. Bad \in SUBSET (SUBSET S)
      OBVIOUS
    <3> HIDE DEF Bad
    <3> QED  BY <1>2, <3>1, SmallestSubset
  <2>2. ASSUME NEW u \in SUBSET T, u # T, u # {}
        PROVE  SumOf(u, c) = c[Pick(u)] + SumOf(u \ {Pick(u)}, c)
    <3>1. PICK g : IsFold(u, c, g)
      BY <2>1, <2>2
    <3>2. IsFiniteSet(u) /\ u \ {Pick(u)} \in SUBSET u /\ u \in SUBSET u
      BY FS_Subset
    <3>3. g[u] = SumOf(u, c) /\ g[u \ {Pick(u)}] = SumOf(u \ {Pick(u)}, c)
      BY <3>1, <3>2, FoldHoldsSums
    <3>4. g[u] = c[Pick(u)] + g[u \ {Pick(u)}]
      BY <2>2, <3>1, <3>2, FoldAt
    <3> QED  BY <3>3, <3>4
  <2>3. SumOf({}, c) = 0
    <3> DEFINE g == [s \in SUBSET {} |-> 0]
    <3>1. g = [s \in SUBSET {} |->
                  IF s = {} THEN 0 ELSE c[Pick(s)] + g[s \ {Pick(s)}]]
      OBVIOUS
    <3>2. g[{}] = 0 /\ {} \in SUBSET {}
      OBVIOUS
    <3>3. IsFiniteSet({})
      BY FS_EmptySet
    <3> HIDE DEF g
    <3>4. IsFold({}, c, g)
      BY <3>1 DEF IsFold
    <3> QED  BY <3>2, <3>3, <3>4, FoldHoldsSums
  <2> DEFINE h == [s \in SUBSET T |->
                      IF s = {} THEN 0
                      ELSE c[Pick(s)] + SumOf(s \ {Pick(s)}, c)]
  <2>4. \A s \in SUBSET T :
            h[s] = IF s = {} THEN 0
                   ELSE c[Pick(s)] + SumOf(s \ {Pick(s)}, c)
    OBVIOUS
  <2>5. h = [s \in SUBSET T |-> h[s]]
    OBVIOUS
  <2> HIDE DEF h
  <2>6. ASSUME NEW s \in SUBSET T, s # {}
        PROVE  h[s \ {Pick(s)}] = SumOf(s \ {Pick(s)}, c)
    <3> DEFINE u == s \ {Pick(s)}
    <3>1. u \in SUBSET T /\ u # T
      BY <2>6, PickIsMember
    <3> HIDE DEF u
    <3>2. CASE u = {}
      BY <2>3, <2>4, <3>1, <3>2 DEF u
    <3>3. CASE u # {}
      BY <2>2, <2>4, <3>1, <3>3 DEF u
    <3> QED  BY <3>2, <3>3
  <2>7. \A s \in SUBSET T :
            h[s] = IF s = {} THEN 0 ELSE c[Pick(s)] + h[s \ {Pick(s)}]
    BY <2>4, <2>6
  <2>8. IsFold(T, c, h)
    BY <2>5, <2>7 DEF IsFold
  <2> QED  BY <2>1, <2>8
<1> QED  BY <1>1, <1>2

\* The recursion equation of the sum.
LEMMA SumSteps ==
    ASSUME NEW S, IsFiniteSet(S), NEW c
    PROVE  SumOf(S, c) =
              IF S = {} THEN 0
              ELSE c[Pick(S)] + SumOf(S \ {Pick(S)}, c)
<1>1. PICK g : IsFold(S, c, g)
  BY FoldExists
<1>2. S \in SUBSET S /\ S \ {Pick(S)} \in SUBSET S
  OBVIOUS
<1>3. g[S] = SumOf(S, c) /\ g[S \ {Pick(S)}] = SumOf(S \ {Pick(S)}, c)
  BY <1>1, <1>2, FoldHoldsSums
<1>4. g[S] = IF S = {} THEN 0 ELSE c[Pick(S)] + g[S \ {Pick(S)}]
  BY <1>1, <1>2, FoldAt
<1> QED  BY <1>3, <1>4

LEMMA SumType ==
    ASSUME NEW S, IsFiniteSet(S), NEW c, \A x \in S : c[x] \in Nat
    PROVE  SumOf(S, c) \in Nat
<1> DEFINE Bad == {T \in SUBSET S : SumOf(T, c) \notin Nat}
<1>1. CASE Bad = {}
  BY <1>1
<1>2. CASE Bad # {}
  <2>1. PICK T \in Bad : \A U \in Bad : U \subseteq T => U = T
    <3>1. Bad \in SUBSET (SUBSET S)
      OBVIOUS
    <3> HIDE DEF Bad
    <3> QED  BY <1>2, <3>1, SmallestSubset
  <2>2. IsFiniteSet(T)
    BY FS_Subset
  <2>3. SumOf(T, c) = IF T = {} THEN 0
                         ELSE c[Pick(T)] + SumOf(T \ {Pick(T)}, c)
    BY <2>2, SumSteps
  <2>4. T # {}
    BY <2>1, <2>3
  <2>5. Pick(T) \in T
    BY <2>4, PickIsMember
  <2>6. SumOf(T \ {Pick(T)}, c) \in Nat
    BY <2>1, <2>5
  <2>7. c[Pick(T)] \in Nat
    BY <2>5
  <2> QED  BY <2>1, <2>3, <2>4, <2>6, <2>7
<1> QED  BY <1>1, <1>2

\* Whatever element is taken last, it adds what it credits.
LEMMA SumAdds ==
    ASSUME NEW S, IsFiniteSet(S), NEW c, \A x \in S : c[x] \in Nat
    PROVE  \A T \in SUBSET S : \A x \in S \ T :
              SumOf(T \cup {x}, c) = c[x] + SumOf(T, c)
<1> DEFINE Bad == {T \in SUBSET S : \E x \in S \ T :
                      SumOf(T \cup {x}, c) # c[x] + SumOf(T, c)}
<1>1. CASE Bad = {}
  BY <1>1
<1>2. CASE Bad # {}
  <2>1. PICK T \in Bad : \A U \in Bad : U \subseteq T => U = T
    <3>1. Bad \in SUBSET (SUBSET S)
      OBVIOUS
    <3> HIDE DEF Bad
    <3> QED  BY <1>2, <3>1, SmallestSubset
  <2>2. PICK x \in S \ T : SumOf(T \cup {x}, c) # c[x] + SumOf(T, c)
    BY <2>1
  <2> DEFINE all == T \cup {x}
             y == Pick(all)
  <2>3. IsFiniteSet(all) /\ all # {} /\ all \in SUBSET S
    BY FS_Subset
  <2>4. y \in all
    BY <2>3, PickIsMember
  <2>5. SumOf(all, c) = c[y] + SumOf(all \ {y}, c)
    <3> HIDE DEF all
    <3> QED  BY <2>3, SumSteps
  <2> HIDE DEF y
  <2>6. CASE y = x
    <3>1. all \ {y} = T
      BY <2>6
    <3> QED  BY <2>2, <2>5, <2>6, <3>1
  <2>7. CASE y # x
    <3> DEFINE less == T \ {y}
    <3>1. y \in T /\ less \in SUBSET S /\ less \subseteq T /\ less # T
      BY <2>4, <2>7
    <3>2. /\ all \ {y} = less \cup {x} /\ less \cup {y} = T
          /\ x \in S \ less /\ y \in S \ less
      BY <2>7, <3>1
    <3> HIDE DEF less, all
    <3>3. less \notin Bad
      BY <2>1, <3>1
    <3>4. /\ SumOf(less \cup {x}, c) = c[x] + SumOf(less, c)
          /\ SumOf(less \cup {y}, c) = c[y] + SumOf(less, c)
      BY <3>1, <3>2, <3>3
    <3>5. c[x] \in Nat /\ c[y] \in Nat /\ SumOf(less, c) \in Nat
      <4>1. IsFiniteSet(less) /\ \A z \in less : c[z] \in Nat
        BY <3>1, FS_Subset
      <4> QED  BY <3>2, <4>1, SumType
    <3>6. SumOf(all, c) = c[y] + (c[x] + SumOf(less, c))
      BY <2>5, <3>2, <3>4
    <3>7. SumOf(T, c) = c[y] + SumOf(less, c)
      BY <3>2, <3>4
    <3> QED  BY <2>2, <3>5, <3>6, <3>7 DEF all
  <2> QED  BY <2>6, <2>7
<1> QED  BY <1>1, <1>2

\* More steps credit no less.
LEMMA SumGrows ==
    ASSUME NEW S, IsFiniteSet(S), NEW c, \A x \in S : c[x] \in Nat
    PROVE  /\ \A T \in SUBSET S : SumOf(T, c) \in Nat
           /\ \A U, T \in SUBSET S :
                 U \subseteq T => SumOf(U, c) <= SumOf(T, c)
           /\ \A T \in SUBSET S : \A x \in T : c[x] <= SumOf(T, c)
<1>1. ASSUME NEW T \in SUBSET S PROVE SumOf(T, c) \in Nat
  <2>1. IsFiniteSet(T) /\ \A z \in T : c[z] \in Nat
    BY FS_Subset
  <2> QED  BY <2>1, SumType
<1>2. ASSUME NEW T \in SUBSET S, NEW x \in T
      PROVE  SumOf(T, c) = c[x] + SumOf(T \ {x}, c)
  <2> DEFINE less == T \ {x}
  <2>1. less \in SUBSET S /\ x \in S \ less /\ less \cup {x} = T
    OBVIOUS
  <2> HIDE DEF less
  <2> QED  BY <2>1, SumAdds DEF less
<1>3. ASSUME NEW U \in SUBSET S, NEW T \in SUBSET S, U \subseteq T,
             ~ (SumOf(U, c) <= SumOf(T, c))
      PROVE  FALSE
  <2> DEFINE Bad == {V \in SUBSET S : /\ U \subseteq V
                                      /\ ~ (SumOf(U, c) <= SumOf(V, c))}
  <2>1. Bad # {} /\ Bad \in SUBSET (SUBSET S)
    BY <1>3
  <2>2. PICK V \in Bad : \A W \in Bad : W \subseteq V => W = V
    <3> HIDE DEF Bad
    <3> QED  BY <2>1, SmallestSubset
  <2>3. V # U
    BY <1>1, <2>2
  <2>4. PICK x \in V : x \notin U
    BY <2>2, <2>3
  <2>5. V \ {x} \in SUBSET S /\ V \ {x} # V /\ U \subseteq V \ {x}
    BY <2>2, <2>4
  <2>6. SumOf(U, c) <= SumOf(V \ {x}, c)
    BY <2>2, <2>5
  <2>7. SumOf(V, c) = c[x] + SumOf(V \ {x}, c)
    BY <1>2, <2>2, <2>4
  <2>8. /\ c[x] \in Nat /\ SumOf(U, c) \in Nat
        /\ SumOf(V \ {x}, c) \in Nat /\ SumOf(V, c) \in Nat
    BY <1>1, <2>2, <2>4, <2>5
  <2>9. ~ (SumOf(U, c) <= SumOf(V, c))
    BY <2>2
  <2> QED  BY <2>6, <2>7, <2>8, <2>9
<1>4. ASSUME NEW T \in SUBSET S, NEW x \in T PROVE c[x] <= SumOf(T, c)
  <2>1. /\ SumOf(T, c) = c[x] + SumOf(T \ {x}, c)
        /\ SumOf(T \ {x}, c) \in Nat /\ c[x] \in Nat
    BY <1>1, <1>2
  <2> QED  BY <2>1
<1> QED  BY <1>1, <1>3, <1>4

=============================================================================
