---------------------------- MODULE LimiterProofs ---------------------------
(***************************************************************************)
(* What the two rate limiters and the admission of requests guarantee for  *)
(* every limit, window, clock delay and number of clients.  The first part *)
(* is about sums: SumFunctionOnSet is a recursive function that takes the  *)
(* elements in an order of its own, and the facts the limiters need (the   *)
(* sum of a set is an element and the sum of the rest, sums of more are    *)
(* more) are proved by induction on the size of the set.                   *)
(***************************************************************************)
EXTENDS Admission, RedisLimiter, FiniteSetTheorems, WellFoundedInduction, TLAPS

\* Every non-empty set of naturals has a least element.
LEMMA LeastElement ==
    ASSUME NEW T, T \subseteq Nat, T # {}
    PROVE  \E m \in T : \A k \in T : m <= k
<1>1. IsWellFoundedOn(OpToRel(<, Nat), Nat)
  BY NatLessThanWellFounded
<1>2. PICK m \in T : \A k \in T : <<k, m>> \notin OpToRel(<, Nat)
  BY <1>1, WFMin
<1>3. \A k \in T : ~(k < m)
  BY <1>2 DEF OpToRel
<1>4. QED BY <1>3

-----------------------------------------------------------------------------
\* The element a sum takes first, and what it takes it from.
Pick(s) == CHOOSE x \in s : TRUE

\* g sums f over the subsets of S of at most n elements.
Small(S, n) == {s \in SUBSET S : Cardinality(s) <= n}
SumsUpTo(g, f, S, n) ==
    g = [s \in Small(S, n) |-> IF s = {} THEN 0 ELSE f[Pick(s)] + g[s \ {Pick(s)}]]
\* g sums f over the subsets of S.
Sums(g, f, S) ==
    g = [s \in SUBSET S |-> IF s = {} THEN 0 ELSE f[Pick(s)] + g[s \ {Pick(s)}]]

\* A non-empty subset loses one element when its first is taken.
LEMMA PickShrinks ==
    ASSUME NEW S, IsFiniteSet(S), NEW s \in SUBSET S, s # {}
    PROVE  /\ Pick(s) \in s /\ s \ {Pick(s)} \in SUBSET S
           /\ IsFiniteSet(s) /\ IsFiniteSet(s \ {Pick(s)})
           /\ Cardinality(s) \in Nat \ {0}
           /\ Cardinality(s \ {Pick(s)}) = Cardinality(s) - 1
<1>1. Pick(s) \in s
  BY DEF Pick
<1>2. IsFiniteSet(s)
  BY FS_Subset
<1>3. Cardinality(s) \in Nat /\ Cardinality(s) # 0
  BY <1>2, FS_CardinalityType, FS_EmptySet
<1>4. QED BY <1>1, <1>2, <1>3, FS_RemoveElement

\* The values of a function that sums.
LEMMA SumsUnfold ==
    ASSUME NEW g, NEW f, NEW S, Sums(g, f, S), NEW s \in SUBSET S
    PROVE  g[s] = IF s = {} THEN 0 ELSE f[Pick(s)] + g[s \ {Pick(s)}]
<1> DEFINE G == [r \in SUBSET S |-> IF r = {} THEN 0 ELSE f[Pick(r)] + g[r \ {Pick(r)}]]
<1>1. G[s] = IF s = {} THEN 0 ELSE f[Pick(s)] + g[s \ {Pick(s)}]
  OBVIOUS
<1>2. g = G
  BY DEF Sums
<1> HIDE DEF G
<1>3. QED BY <1>1, <1>2

\* The same for the sums of the small subsets only.
LEMMA SumsUpToUnfold ==
    ASSUME NEW g, NEW f, NEW S, NEW n, SumsUpTo(g, f, S, n), NEW s \in Small(S, n)
    PROVE  g[s] = IF s = {} THEN 0 ELSE f[Pick(s)] + g[s \ {Pick(s)}]
<1> DEFINE G == [r \in Small(S, n) |-> IF r = {} THEN 0 ELSE f[Pick(r)] + g[r \ {Pick(r)}]]
<1>1. G[s] = IF s = {} THEN 0 ELSE f[Pick(s)] + g[s \ {Pick(s)}]
  OBVIOUS
<1>2. g = G
  BY DEF SumsUpTo
<1> HIDE DEF G
<1>3. QED BY <1>1, <1>2

\* A function that sums the subsets of up to n elements can be extended to the
\* subsets of one more.
LEMMA SumsExtend ==
    ASSUME NEW f, NEW S, IsFiniteSet(S), NEW n \in Nat, NEW g, SumsUpTo(g, f, S, n)
    PROVE  \E h : SumsUpTo(h, f, S, n + 1)
<1> DEFINE rest(s) == s \ {Pick(s)}
           h == [s \in Small(S, n + 1) |->
                    IF s \in Small(S, n) THEN g[s] ELSE f[Pick(s)] + g[rest(s)]]
           H == [s \in Small(S, n + 1) |-> IF s = {} THEN 0 ELSE f[Pick(s)] + h[rest(s)]]
<1>1. ASSUME NEW s \in Small(S, n + 1) PROVE h[s] = IF s = {} THEN 0 ELSE f[Pick(s)] + h[rest(s)]
  <2>1. s \in SUBSET S /\ Cardinality(s) <= n + 1
    BY DEF Small
  <2>2. CASE s = {}
    <3>1. s \in Small(S, n)
      BY <2>1, <2>2, FS_EmptySet DEF Small
    <3>2. QED BY <2>2, <3>1, SumsUpToUnfold
  <2>3. CASE s # {}
    <3>1. /\ rest(s) \in SUBSET S /\ Cardinality(s) \in Nat \ {0}
          /\ Cardinality(rest(s)) = Cardinality(s) - 1
      BY <2>1, <2>3, PickShrinks
    <3>2. rest(s) \in Small(S, n) /\ rest(s) \in Small(S, n + 1)
      BY <2>1, <3>1 DEF Small
    <3>3. h[rest(s)] = g[rest(s)]
      BY <3>2
    <3>4. CASE s \in Small(S, n)
      <4>1. g[s] = f[Pick(s)] + g[rest(s)]
        BY <2>3, <3>4, SumsUpToUnfold
      <4>2. QED BY <2>3, <3>3, <3>4, <4>1
    <3>5. CASE s \notin Small(S, n)
      BY <2>3, <3>3, <3>5
    <3>6. QED BY <3>4, <3>5
  <2>4. QED BY <2>2, <2>3
<1>2. h = H
  <2>1. H = [s \in Small(S, n + 1) |-> h[s]]
    <3> HIDE DEF h
    <3>1. QED BY <1>1
  <2>2. h = [s \in Small(S, n + 1) |-> h[s]]
    OBVIOUS
  <2> HIDE DEF h, H
  <2>3. QED BY <2>1, <2>2
<1>3. SumsUpTo(h, f, S, n + 1)
  <2> HIDE DEF h
  <2>1. QED BY <1>2 DEF SumsUpTo
<1>4. QED BY <1>3

\* Every function can be summed over the subsets of a finite set.
LEMMA SumsExist ==
    ASSUME NEW f, NEW S, IsFiniteSet(S)
    PROVE  \E g : Sums(g, f, S)
<1> DEFINE T == {n \in Nat : ~\E g : SumsUpTo(g, f, S, n)}
<1>1. T = {}
  <2>1. SUFFICES ASSUME T # {} PROVE FALSE
    OBVIOUS
  <2>2. PICK n \in T : \A k \in T : n <= k
    BY <2>1, LeastElement
  <2>3. CASE n = 0
    <3> DEFINE g == [s \in Small(S, 0) |-> 0]
    <3>1. \A s \in Small(S, 0) : s = {}
      <4>1. ASSUME NEW s \in Small(S, 0) PROVE s = {}
        <5>1. s \in SUBSET S /\ Cardinality(s) <= 0
          BY DEF Small
        <5>2. ASSUME s # {} PROVE FALSE
          <6>1. Cardinality(s) \in Nat \ {0}
            BY <5>1, <5>2, PickShrinks
          <6>2. QED BY <5>1, <6>1
        <5>3. QED BY <5>2
      <4>2. QED BY <4>1
    <3>2. SumsUpTo(g, f, S, 0)
      BY <3>1 DEF SumsUpTo
    <3> HIDE DEF g
    <3>3. QED BY <2>2, <2>3, <3>2
  <2>4. CASE n > 0
    <3>1. n - 1 \in Nat /\ n - 1 \notin T /\ (n - 1) + 1 = n
      BY <2>2, <2>4
    <3>2. PICK g : SumsUpTo(g, f, S, n - 1)
      BY <3>1
    <3>3. \E h : SumsUpTo(h, f, S, (n - 1) + 1)
      BY <3>1, <3>2, SumsExtend
    <3>4. QED BY <2>2, <3>1, <3>3
  <2>5. QED BY <2>2, <2>3, <2>4
<1>2. Cardinality(S) \in Nat
  BY FS_CardinalityType
<1>3. PICK g : SumsUpTo(g, f, S, Cardinality(S))
  BY <1>1, <1>2
<1>4. Small(S, Cardinality(S)) = SUBSET S
  BY FS_Subset DEF Small
<1>5. Sums(g, f, S)
  BY <1>3, <1>4 DEF Sums, SumsUpTo
<1>6. QED BY <1>5

\* Two functions that sum agree where they sum the same values.
LEMMA SumsAgree ==
    ASSUME NEW f, NEW S, NEW g, NEW e, NEW U, NEW h, NEW R,
           Sums(g, f, S), Sums(h, e, U), IsFiniteSet(R), R \subseteq S, R \subseteq U, \A x \in R : f[x] = e[x]
    PROVE  g[R] = h[R]
<1> DEFINE T == {n \in Nat : \E s \in SUBSET R : Cardinality(s) = n /\ g[s] # h[s]}
<1>1. T = {}
  <2>1. SUFFICES ASSUME T # {} PROVE FALSE
    OBVIOUS
  <2>2. PICK n \in T : \A k \in T : n <= k
    BY <2>1, LeastElement
  <2>3. PICK s \in SUBSET R : Cardinality(s) = n /\ g[s] # h[s]
    BY <2>2
  <2>4. /\ g[s] = IF s = {} THEN 0 ELSE f[Pick(s)] + g[s \ {Pick(s)}]
        /\ h[s] = IF s = {} THEN 0 ELSE e[Pick(s)] + h[s \ {Pick(s)}]
    <3>1. s \in SUBSET S /\ s \in SUBSET U
      OBVIOUS
    <3>2. g[s] = IF s = {} THEN 0 ELSE f[Pick(s)] + g[s \ {Pick(s)}]
      BY <3>1, SumsUnfold
    <3>3. h[s] = IF s = {} THEN 0 ELSE e[Pick(s)] + h[s \ {Pick(s)}]
      <4>1. Sums(h, e, U) /\ s \in SUBSET U
        BY <3>1
      <4> HIDE DEF T
      <4>2. QED BY <4>1, SumsUnfold
    <3>4. QED BY <3>2, <3>3
  <2>5. s # {}
    BY <2>3, <2>4
  <2>6. /\ Pick(s) \in s /\ s \ {Pick(s)} \in SUBSET R
        /\ Cardinality(s) \in Nat \ {0} /\ Cardinality(s \ {Pick(s)}) = Cardinality(s) - 1
    BY <2>5, PickShrinks
  <2>7. g[s \ {Pick(s)}] = h[s \ {Pick(s)}]
    <3>1. n - 1 \in Nat /\ n - 1 \notin T
      BY <2>2, <2>3, <2>6
    <3>2. Cardinality(s \ {Pick(s)}) = n - 1
      BY <2>3, <2>6
    <3>3. QED BY <2>6, <3>1, <3>2
  <2>8. f[Pick(s)] = e[Pick(s)]
    BY <2>6
  <2>9. QED BY <2>3, <2>4, <2>5, <2>7, <2>8
<1>2. Cardinality(R) \in Nat
  BY FS_CardinalityType
<1>3. Cardinality(R) \notin T
  BY <1>1
<1>4. QED BY <1>2, <1>3

\* SumFunctionOnSet is the value of a function that sums.
LEMMA SumIsSums ==
    ASSUME NEW f, NEW S, IsFiniteSet(S)
    PROVE  \E g : Sums(g, f, S) /\ SumFunctionOnSet(f, S) = g[S]
<1>1. SumFunctionOnSet(f, S) = (CHOOSE g : Sums(g, f, S))[S]
  BY DEF SumFunctionOnSet, FoldFunctionOnSet, MapThenFoldSet, Sums, Pick
<1>2. \E g : Sums(g, f, S)
  BY SumsExist
<1>3. QED BY <1>1, <1>2

\* The sum over the empty set, and the step of the sum over any other.
LEMMA SumUnfolds ==
    ASSUME NEW f, NEW S, IsFiniteSet(S)
    PROVE  /\ S = {} => SumFunctionOnSet(f, S) = 0
           /\ S # {} => SumFunctionOnSet(f, S) =
                          f[Pick(S)] + SumFunctionOnSet(f, S \ {Pick(S)})
<1>1. PICK g : Sums(g, f, S) /\ SumFunctionOnSet(f, S) = g[S]
  BY SumIsSums
<1>2. g[S] = IF S = {} THEN 0 ELSE f[Pick(S)] + g[S \ {Pick(S)}]
  BY <1>1, SumsUnfold
<1>3. ASSUME S # {} PROVE g[S \ {Pick(S)}] = SumFunctionOnSet(f, S \ {Pick(S)})
  <2> DEFINE R == S \ {Pick(S)}
  <2>1. IsFiniteSet(R) /\ R \subseteq S
    BY FS_RemoveElement
  <2> HIDE DEF R
  <2>2. PICK g2 : Sums(g2, f, R) /\ SumFunctionOnSet(f, R) = g2[R]
    BY <2>1, SumIsSums
  <2>3. g[R] = g2[R]
    BY <1>1, <2>1, <2>2, SumsAgree
  <2>4. QED BY <2>2, <2>3 DEF R
<1>4. QED BY <1>1, <1>2, <1>3

\* A sum depends only on the values summed.
LEMMA SumSame ==
    ASSUME NEW f, NEW f2, NEW S, IsFiniteSet(S), \A x \in S : f[x] = f2[x]
    PROVE  SumFunctionOnSet(f, S) = SumFunctionOnSet(f2, S)
<1>1. PICK g : Sums(g, f, S) /\ SumFunctionOnSet(f, S) = g[S]
  BY SumIsSums
<1>2. PICK g2 : Sums(g2, f2, S) /\ SumFunctionOnSet(f2, S) = g2[S]
  BY SumIsSums
<1>3. QED BY <1>1, <1>2, SumsAgree

\* Sums of naturals are naturals.
LEMMA SumNat ==
    ASSUME NEW f, NEW S, IsFiniteSet(S), \A x \in S : f[x] \in Nat
    PROVE  SumFunctionOnSet(f, S) \in Nat
<1> DEFINE T == {n \in Nat : \E s \in SUBSET S : Cardinality(s) = n
                                                /\ SumFunctionOnSet(f, s) \notin Nat}
<1>1. T = {}
  <2>1. SUFFICES ASSUME T # {} PROVE FALSE
    OBVIOUS
  <2>2. PICK n \in T : \A k \in T : n <= k
    BY <2>1, LeastElement
  <2>3. PICK s \in SUBSET S : Cardinality(s) = n /\ SumFunctionOnSet(f, s) \notin Nat
    BY <2>2
  <2>4. IsFiniteSet(s)
    BY FS_Subset
  <2>5. s # {}
    <3>1. s = {} => SumFunctionOnSet(f, s) = 0
      BY <2>4, SumUnfolds
    <3>2. QED BY <2>3, <3>1
  <2>6. /\ Pick(s) \in s /\ s \ {Pick(s)} \in SUBSET S
        /\ Cardinality(s) \in Nat \ {0} /\ Cardinality(s \ {Pick(s)}) = Cardinality(s) - 1
    BY <2>5, PickShrinks
  <2>7. SumFunctionOnSet(f, s \ {Pick(s)}) \in Nat
    <3>1. n - 1 \in Nat /\ n - 1 \notin T
      BY <2>2, <2>3, <2>6
    <3>2. Cardinality(s \ {Pick(s)}) = n - 1
      BY <2>3, <2>6
    <3>3. QED BY <2>6, <3>1, <3>2
  <2>8. f[Pick(s)] \in Nat
    BY <2>6
  <2>9. SumFunctionOnSet(f, s) = f[Pick(s)] + SumFunctionOnSet(f, s \ {Pick(s)})
    BY <2>4, <2>5, SumUnfolds
  <2>10. QED BY <2>3, <2>7, <2>8, <2>9
<1>2. Cardinality(S) \in Nat
  BY FS_CardinalityType
<1>3. Cardinality(S) \notin T
  BY <1>1
<1>4. QED BY <1>2, <1>3

\* A sum is any one of its terms and the sum of the others.
LEMMA SumRemove ==
    ASSUME NEW f, NEW S, IsFiniteSet(S), \A x \in S : f[x] \in Nat, NEW y \in S
    PROVE  SumFunctionOnSet(f, S) = f[y] + SumFunctionOnSet(f, S \ {y})
<1> DEFINE Splits(s) == \A x \in s : SumFunctionOnSet(f, s) = f[x] + SumFunctionOnSet(f, s \ {x})
           T == {n \in Nat : \E s \in SUBSET S : Cardinality(s) = n /\ ~Splits(s)}
<1>1. T = {}
  <2>1. SUFFICES ASSUME T # {} PROVE FALSE
    OBVIOUS
  <2>2. PICK n \in T : \A k \in T : n <= k
    BY <2>1, LeastElement
  <2>3. PICK s \in SUBSET S : Cardinality(s) = n /\ ~Splits(s)
    BY <2>2
  <2>4. PICK x \in s : SumFunctionOnSet(f, s) # f[x] + SumFunctionOnSet(f, s \ {x})
    BY <2>3
  <2> DEFINE c == Pick(s)
             sc == s \ {c}
             sx == s \ {x}
             sxc == s \ {x, c}
  <2>5. /\ IsFiniteSet(s) /\ c \in s /\ sc \in SUBSET S
        /\ Cardinality(s) \in Nat \ {0} /\ Cardinality(sc) = Cardinality(s) - 1
    BY <2>4, PickShrinks
  <2>6. sx \in SUBSET S /\ Cardinality(sx) = Cardinality(s) - 1
    BY <2>5, FS_RemoveElement
  <2>7. SumFunctionOnSet(f, s) = f[c] + SumFunctionOnSet(f, sc)
    BY <2>5, SumUnfolds
  <2>8. x # c
    BY <2>4, <2>7
  <2>9. Splits(sc) /\ Splits(sx)
    <3>1. n - 1 \in Nat /\ n - 1 \notin T
      BY <2>2, <2>3, <2>5
    <3>2. Cardinality(sc) = n - 1 /\ Cardinality(sx) = n - 1
      BY <2>3, <2>5, <2>6
    <3> HIDE DEF sc, sx, Splits
    <3>3. QED BY <2>5, <2>6, <3>1, <3>2
  <2>10. sc \ {x} = sxc /\ sx \ {c} = sxc /\ x \in sc /\ c \in sx
    BY <2>5, <2>8
  <2>11. /\ SumFunctionOnSet(f, sc) = f[x] + SumFunctionOnSet(f, sxc)
         /\ SumFunctionOnSet(f, sx) = f[c] + SumFunctionOnSet(f, sxc)
    <3>1. /\ SumFunctionOnSet(f, sc) = f[x] + SumFunctionOnSet(f, sc \ {x})
          /\ SumFunctionOnSet(f, sx) = f[c] + SumFunctionOnSet(f, sx \ {c})
      BY <2>9, <2>10, Zenon
    <3>2. QED BY <2>10, <3>1, Zenon
  <2>12. SumFunctionOnSet(f, sxc) \in Nat /\ f[x] \in Nat /\ f[c] \in Nat
    <3>1. IsFiniteSet(sxc)
      BY <2>5, FS_Subset
    <3>2. QED BY <2>5, <3>1, SumNat
  <2> HIDE DEF c, sc, sx, sxc
  <2>13. SumFunctionOnSet(f, s) = f[x] + SumFunctionOnSet(f, sx)
    BY <2>7, <2>11, <2>12
  <2>14. QED BY <2>4, <2>13 DEF sx
<1>2. Cardinality(S) \in Nat
  BY FS_CardinalityType
<1>3. Splits(S)
  <2>1. Cardinality(S) \notin T
    BY <1>1
  <2> HIDE DEF Splits
  <2>2. QED BY <1>2, <2>1
<1>4. QED BY <1>3

\* The sum over a part is at most the sum over the whole.
LEMMA SumMonotone ==
    ASSUME NEW f, NEW S, IsFiniteSet(S), \A x \in S : f[x] \in Nat, NEW R \in SUBSET S
    PROVE  SumFunctionOnSet(f, R) <= SumFunctionOnSet(f, S)
<1> DEFINE T == {n \in Nat : \E s \in SUBSET S : /\ Cardinality(s) = n /\ R \subseteq s
                                                /\ ~(SumFunctionOnSet(f, R) <= SumFunctionOnSet(f, s))}
<1>0. ASSUME NEW s \in SUBSET S
      PROVE  /\ IsFiniteSet(s) /\ Cardinality(s) \in Nat /\ SumFunctionOnSet(f, s) \in Nat
  <2>1. IsFiniteSet(s)
    BY FS_Subset
  <2>2. QED BY <2>1, FS_CardinalityType, SumNat
<1>1. T = {}
  <2>1. SUFFICES ASSUME T # {} PROVE FALSE
    OBVIOUS
  <2>2. PICK n \in T : \A k \in T : n <= k
    BY <2>1, LeastElement
  <2>3. PICK s \in SUBSET S : /\ Cardinality(s) = n /\ R \subseteq s
                              /\ ~(SumFunctionOnSet(f, R) <= SumFunctionOnSet(f, s))
    BY <2>2
  <2>4. s # R
    BY <1>0, <2>3
  <2>5. PICK x \in s : x \notin R
    BY <2>3, <2>4
  <2> DEFINE r == s \ {x}
  <2>6. r \in SUBSET S /\ R \subseteq r /\ Cardinality(r) = n - 1
    BY <1>0, <2>3, <2>5, FS_RemoveElement
  <2>7. SumFunctionOnSet(f, s) = f[x] + SumFunctionOnSet(f, r)
    BY <1>0, <2>5, SumRemove
  <2> HIDE DEF r
  <2>8. SumFunctionOnSet(f, R) <= SumFunctionOnSet(f, r)
    <3>1. n - 1 \in Nat
      BY <1>0, <2>6
    <3>2. n - 1 \notin T
      BY <2>2, <3>1
    <3>3. QED BY <2>6, <3>1, <3>2
  <2>9. f[x] \in Nat /\ SumFunctionOnSet(f, r) \in Nat /\ SumFunctionOnSet(f, R) \in Nat
    BY <1>0, <2>3, <2>5, <2>6
  <2>10. QED BY <2>3, <2>7, <2>8, <2>9
<1>2. Cardinality(S) \in Nat /\ S \in SUBSET S /\ R \subseteq S
  BY <1>0
<1>3. Cardinality(S) \notin T
  BY <1>1
<1>4. QED BY <1>2, <1>3

-----------------------------------------------------------------------------
(***************************************************************************)
(* Counts of a limiter: f[j] requests j ticks ago, for the last n ticks.   *)
(***************************************************************************)
Upto(n, x) == {j \in 0 .. n : j <= x}
Recent(f, n, x) == SumFunctionOnSet(f, Upto(n, x))

\* A request is counted now; a tick moves every count by one place.
Bumped(f) == [f EXCEPT ![0] = @ + 1]
Aged(f, n) == [j \in 0 .. n |-> IF j = 0 THEN 0 ELSE f[j - 1]]

\* The sets of recent ticks are finite.
LEMMA UptoFinite == ASSUME NEW n \in Nat, NEW x \in Int PROVE IsFiniteSet(Upto(n, x))
<1>1. IsFiniteSet(0 .. n)
  BY FS_Interval
<1>2. Upto(n, x) \in SUBSET (0 .. n)
  BY DEF Upto
<1>3. QED BY <1>1, <1>2, FS_Subset

\* What recent counts are, and how they grow with the period.
LEMMA RecentFacts ==
    ASSUME NEW n \in Nat, NEW f \in [0 .. n -> Nat], NEW x \in Int
    PROVE  /\ Recent(f, n, x) \in Nat
           /\ x < 0 => Recent(f, n, x) = 0
           /\ x \in 0 .. n => Recent(f, n, x) = f[x] + Recent(f, n, x - 1)
           /\ \A y \in Int : x <= y => Recent(f, n, x) <= Recent(f, n, y)
           /\ x >= n => Recent(f, n, x) = Recent(f, n, n)
           /\ (\A j \in 0 .. n : j <= x => f[j] = 0) => Recent(f, n, x) = 0
<1>1. \A y \in Int : IsFiniteSet(Upto(n, y)) /\ \A j \in Upto(n, y) : f[j] \in Nat
  BY UptoFinite DEF Upto
<1>2. Recent(f, n, x) \in Nat
  BY <1>1, SumNat DEF Recent
<1>3. ASSUME x < 0 PROVE Recent(f, n, x) = 0
  <2>1. Upto(n, x) = {}
    BY <1>3 DEF Upto
  <2>2. QED BY <1>1, <2>1, SumUnfolds DEF Recent
<1>4. ASSUME x \in 0 .. n PROVE Recent(f, n, x) = f[x] + Recent(f, n, x - 1)
  <2>1. x \in Upto(n, x) /\ Upto(n, x) \ {x} = Upto(n, x - 1)
    BY <1>4 DEF Upto
  <2>2. SumFunctionOnSet(f, Upto(n, x)) = f[x] + SumFunctionOnSet(f, Upto(n, x) \ {x})
    BY <1>1, <2>1, SumRemove
  <2>3. QED BY <2>1, <2>2 DEF Recent
<1>5. ASSUME NEW y \in Int, x <= y PROVE Recent(f, n, x) <= Recent(f, n, y)
  <2>1. Upto(n, x) \in SUBSET Upto(n, y)
    BY <1>5 DEF Upto
  <2>2. QED BY <1>1, <2>1, SumMonotone DEF Recent
<1>6. ASSUME x >= n PROVE Recent(f, n, x) = Recent(f, n, n)
  <2>1. Upto(n, x) = Upto(n, n)
    BY <1>6 DEF Upto
  <2>2. QED BY <2>1 DEF Recent
<1>7. ASSUME \A j \in 0 .. n : j <= x => f[j] = 0 PROVE Recent(f, n, x) = 0
  <2> DEFINE z == [j \in 0 .. n |-> 0]
  <2>1. Recent(f, n, x) = Recent(z, n, x)
    <3>1. \A j \in Upto(n, x) : f[j] = z[j]
      BY <1>7 DEF Upto
    <3> HIDE DEF z
    <3>2. QED BY <1>1, <3>1, SumSame DEF Recent
  <2>2. Recent(z, n, x) = 0
    <3> DEFINE S == Upto(n, x)
               Z == {m \in Nat : \E s \in SUBSET S : Cardinality(s) = m /\ SumFunctionOnSet(z, s) # 0}
    <3>1. IsFiniteSet(S) /\ Cardinality(S) \in Nat /\ \A j \in S : z[j] = 0
      BY <1>1, FS_CardinalityType DEF Upto
    <3> HIDE DEF S, z
    <3>2. Z = {}
      <4>1. SUFFICES ASSUME Z # {} PROVE FALSE
        OBVIOUS
      <4>2. PICK m \in Z : \A k \in Z : m <= k
        BY <4>1, LeastElement
      <4>3. PICK s \in SUBSET S : Cardinality(s) = m /\ SumFunctionOnSet(z, s) # 0
        BY <4>2
      <4>4. IsFiniteSet(s)
        BY <3>1, FS_Subset
      <4>5. /\ s = {} => SumFunctionOnSet(z, s) = 0
            /\ s # {} => SumFunctionOnSet(z, s) = z[Pick(s)] + SumFunctionOnSet(z, s \ {Pick(s)})
        BY <4>4, SumUnfolds
      <4>6. s # {}
        BY <4>3, <4>5
      <4>7. /\ Pick(s) \in s /\ s \ {Pick(s)} \in SUBSET S
            /\ Cardinality(s) \in Nat \ {0} /\ Cardinality(s \ {Pick(s)}) = Cardinality(s) - 1
        BY <3>1, <4>6, PickShrinks
      <4>8. SumFunctionOnSet(z, s \ {Pick(s)}) = 0
        <5>1. m - 1 \in Nat /\ m - 1 \notin Z
          BY <4>2, <4>3, <4>7
        <5>2. Cardinality(s \ {Pick(s)}) = m - 1
          BY <4>3, <4>7
        <5>3. QED BY <4>7, <5>1, <5>2
      <4>9. QED BY <3>1, <4>3, <4>5, <4>6, <4>7, <4>8
    <3>3. Cardinality(S) \notin Z
      BY <3>2
    <3>4. QED BY <3>1, <3>3 DEF S, Recent
  <2>3. QED BY <2>1, <2>2
<1>8. QED BY <1>2, <1>3, <1>4, <1>5, <1>6, <1>7

\* Counting a request now raises every recent count by one.
LEMMA RecentCounts ==
    ASSUME NEW n \in Nat, NEW f \in [0 .. n -> Nat], NEW x \in Int
    PROVE  /\ Bumped(f) \in [0 .. n -> Nat]
           /\ Recent(Bumped(f), n, x) = IF x < 0 THEN 0 ELSE Recent(f, n, x) + 1
<1> DEFINE g == Bumped(f)
           R == Upto(n, x) \ {0}
<1>1. /\ g \in [0 .. n -> Nat] /\ g[0] = f[0] + 1 /\ f[0] \in Nat
      /\ \A j \in 1 .. n : g[j] = f[j]
  BY DEF Bumped
<1> HIDE DEF g
<1>2. ASSUME x < 0 PROVE Recent(g, n, x) = 0
  BY <1>1, <1>2, RecentFacts
<1>3. ASSUME x >= 0 PROVE Recent(g, n, x) = Recent(f, n, x) + 1
  <2>1. /\ 0 \in Upto(n, x) /\ IsFiniteSet(Upto(n, x)) /\ IsFiniteSet(R)
        /\ \A j \in Upto(n, x) : f[j] \in Nat /\ g[j] \in Nat
        /\ \A j \in R : f[j] = g[j]
    <3>1. IsFiniteSet(Upto(n, x))
      BY UptoFinite
    <3>2. IsFiniteSet(R)
      BY <3>1, FS_RemoveElement
    <3>3. QED BY <1>1, <1>3, <3>1, <3>2 DEF Upto
  <2>2. SumFunctionOnSet(f, Upto(n, x)) = f[0] + SumFunctionOnSet(f, R)
    BY <2>1, SumRemove
  <2>3. SumFunctionOnSet(g, Upto(n, x)) = g[0] + SumFunctionOnSet(g, R)
    BY <2>1, SumRemove
  <2> HIDE DEF R
  <2>4. SumFunctionOnSet(f, R) = SumFunctionOnSet(g, R)
    BY <2>1, SumSame
  <2>5. SumFunctionOnSet(g, R) \in Nat
    <3>1. \A j \in R : g[j] \in Nat
      BY <2>1 DEF R
    <3>2. QED BY <2>1, <3>1, SumNat
  <2>6. QED BY <1>1, <1>3, <2>2, <2>3, <2>4, <2>5 DEF Recent
<1>4. QED BY <1>1, <1>2, <1>3 DEF g

\* A tick later the same counts lie in a period longer by one tick.
LEMMA RecentAges ==
    ASSUME NEW n \in Nat, NEW f \in [0 .. n -> Nat], NEW x \in Int
    PROVE  /\ Aged(f, n) \in [0 .. n -> Nat] /\ Aged(f, n)[0] = 0
           /\ x < n => Recent(Aged(f, n), n, x + 1) = Recent(f, n, x)
           /\ Recent(Aged(f, n), n, x + 1) <= Recent(f, n, x)
           /\ Recent(Aged(f, n), n, x) <= Recent(f, n, x)
<1> DEFINE g == Aged(f, n)
           T == {m \in Nat : m <= n /\ Recent(g, n, m) # Recent(f, n, m - 1)}
<1>1. g \in [0 .. n -> Nat] /\ g[0] = 0 /\ \A j \in 1 .. n : g[j] = f[j - 1]
  BY DEF Aged
<1> HIDE DEF g
<1>2. T = {}
  <2>1. SUFFICES ASSUME T # {} PROVE FALSE
    OBVIOUS
  <2>2. PICK m \in T : \A k \in T : m <= k
    BY <2>1, LeastElement
  <2>3. m \in 0 .. n /\ m \in Int /\ m - 1 \in Int /\ Recent(g, n, m) # Recent(f, n, m - 1)
    BY <2>2
  <2>4. Recent(g, n, m) = g[m] + Recent(g, n, m - 1)
    BY <1>1, <2>3, RecentFacts
  <2>5. CASE m = 0
    <3>1. -1 \in Int /\ -1 < 0 /\ m - 1 = -1
      BY <2>5
    <3>2. Recent(g, n, -1) = 0
      BY <1>1, <3>1, RecentFacts
    <3>3. Recent(f, n, -1) = 0
      BY <3>1, RecentFacts
    <3>4. QED BY <1>1, <2>3, <2>4, <2>5, <3>1, <3>2, <3>3
  <2>6. CASE m > 0
    <3>1. m - 1 \in Nat /\ m - 1 \notin T /\ m - 1 \in 0 .. n
      BY <2>2, <2>3, <2>6
    <3>2. Recent(g, n, m - 1) = Recent(f, n, (m - 1) - 1)
      BY <2>3, <3>1
    <3>3. Recent(f, n, m - 1) = f[m - 1] + Recent(f, n, (m - 1) - 1)
      BY <2>3, <3>1, RecentFacts
    <3>4. g[m] = f[m - 1]
      BY <1>1, <2>3, <2>6
    <3>5. QED BY <2>3, <2>4, <3>2, <3>3, <3>4
  <2>7. QED BY <2>3, <2>5, <2>6
<1>3. \A m \in 0 .. n : Recent(g, n, m) = Recent(f, n, m - 1)
  BY <1>2
<1>4. ASSUME NEW y \in Int, y < n PROVE Recent(g, n, y + 1) = Recent(f, n, y)
  <2>1. CASE y + 1 >= 0
    <3>1. y + 1 \in 0 .. n /\ (y + 1) - 1 = y
      BY <1>4, <2>1
    <3>2. QED BY <1>3, <3>1
  <2>2. CASE y + 1 < 0
    <3>1. Recent(g, n, y + 1) = 0
      <4>1. y + 1 \in Int
        OBVIOUS
      <4>2. QED BY <1>1, <2>2, <4>1, RecentFacts
    <3>2. Recent(f, n, y) = 0
      BY <2>2, RecentFacts
    <3>3. QED BY <3>1, <3>2
  <2>3. QED BY <2>1, <2>2
<1>5. Recent(g, n, x + 1) <= Recent(f, n, x)
  <2>1. Recent(f, n, x) \in Nat
    BY RecentFacts
  <2>2. CASE x < n
    BY <1>4, <2>1, <2>2
  <2>3. CASE x >= n
    <3>1. Recent(g, n, x + 1) = Recent(g, n, n)
      <4>1. x + 1 \in Int /\ x + 1 >= n
        BY <2>3
      <4>2. QED BY <1>1, <4>1, RecentFacts
    <3>2. Recent(g, n, n) = Recent(f, n, n - 1)
      BY <1>3
    <3>3. Recent(f, n, n - 1) <= Recent(f, n, x)
      <4>1. n - 1 \in Int /\ n - 1 <= x
        BY <2>3
      <4>2. QED BY <4>1, RecentFacts
    <3>4. QED BY <3>1, <3>2, <3>3
  <2>4. QED BY <2>2, <2>3
<1>6. Recent(g, n, x) <= Recent(f, n, x)
  <2>0. x + 1 \in Int /\ x <= x + 1
    OBVIOUS
  <2>1. Recent(g, n, x) <= Recent(g, n, x + 1)
    BY <1>1, <2>0, RecentFacts
  <2>2. Recent(g, n, x) \in Nat /\ Recent(g, n, x + 1) \in Nat
    BY <1>1, <2>0, RecentFacts
  <2>3. Recent(f, n, x) \in Nat
    BY RecentFacts
  <2>4. QED BY <1>5, <2>1, <2>2, <2>3
<1>7. QED BY <1>1, <1>4, <1>5, <1>6 DEF g

-----------------------------------------------------------------------------
(***************************************************************************)
(* The limiter of one process.  Of the passed requests of a key whose      *)
(* window began at s and has counted u, the ones surely of this window     *)
(* (made at most -Stall - s ticks ago, when no reading could precede s)    *)
(* are at most u and at most the limit; up to a window earlier there is    *)
(* one more window at most; before that, where every reading precedes s    *)
(* by a window, nothing has passed.  And while the window can still count, *)
(* what it let through is recent enough to be seen.                        *)
(***************************************************************************)
Capped(u) == IF u <= limit THEN u ELSE limit

AtMost(s, u, p) ==
    /\ Recent(p, Span, (-Stall) - s) <= Capped(u)
    /\ Recent(p, Span, (window - Stall) - s) <= Capped(u) + limit
    /\ \A j \in 0 .. Span : j <= ((-s) - window) - Stall => p[j] = 0

AtLeast(s, u, p) == s > -Span => Recent(p, Span, -s) >= Capped(u)

KeyAtMost(w, p) ==
    /\ w = {} => \A j \in 0 .. Span : p[j] = 0
    /\ \A e \in w : AtMost(e.start, e.used, p)

KeyAtLeast(w, p) == \A e \in w : AtLeast(e.start, e.used, p)

BurstInv == \A k \in Key : KeyAtMost(windows[k], passed[k])
DenialInv == (\A k \in Key : KeyAtLeast(windows[k], passed[k])) /\ DenialJustified

\* A check that reads -age counts request number u + 1 of the window begun at s:
\* the window it found, if that is not over, or a new one.
Counted(w, p, age, s, u, w2, p2) ==
    /\ \/ u >= 1 /\ w = {[start |-> s, used |-> u]} /\ duration_since(-age, s) < window
       \/ u = 0 /\ s = -age /\ \A e \in w : ~(duration_since(-age, e.start) < window)
    /\ w2 = {[start |-> s, used |-> u + 1]}
    /\ p2 = IF u + 1 <= limit THEN Bumped(p) ELSE p

Windows == {{}} \cup {{e} : e \in [start : Offset, used : 1 .. MaxUsed]}

\* The parameters, as the provers use them.
LEMMA Params ==
    /\ limit \in Nat /\ window \in Nat /\ Stall \in Nat /\ MaxUsed \in Nat
    /\ Span \in Nat /\ Span = window + Stall /\ Slots = 0 .. Span
    /\ \A age \in Age : age \in 0 .. Stall /\ -age \in Offset
    /\ \A s \in Offset : s \in Int /\ s <= 0 /\ s >= -Span
  BY LimitAssumption, WindowAssumption, StallAssumption, MaxUsedAssumption
     DEF Span, Slots, Age, Offset

\* What a check does to its key, and that it leaves the others alone.
LEMMA CheckEffect ==
    ASSUME TypeOK, NEW k \in Key, NEW age \in Age, check(k, age)
    PROVE  \E s \in Offset, u \in Nat :
             /\ u + 1 \in 1 .. MaxUsed
             /\ entry(k, -age) = [start |-> s, used |-> u]
             /\ Counted(windows[k], passed[k], age, s, u, windows'[k], passed'[k])
             /\ k \in denied' <=> u + 1 > limit
             /\ \A j \in Key \ {k} : /\ windows'[j] = windows[j] /\ passed'[j] = passed[j]
                                     /\ j \in denied' <=> j \in denied
             /\ windows' \in [Key -> Windows] /\ passed' \in [Key -> [0 .. Span -> Nat]]
             /\ denied' \subseteq Key
<1> DEFINE en == entry(k, -age)
<1>1. windows[k] \in Windows /\ windows \in [Key -> Windows]
  BY DEF TypeOK, Windows
<1>2. passed \in [Key -> [0 .. Span -> Nat]] /\ passed[k] \in [0 .. Span -> Nat] /\ denied \subseteq Key
  BY Params DEF TypeOK
<1>3. \E s \in Offset, u \in Nat :
        /\ en = [start |-> s, used |-> u]
        /\ \/ u >= 1 /\ windows[k] = {[start |-> s, used |-> u]} /\ duration_since(-age, s) < window
           \/ u = 0 /\ s = -age /\ \A e \in windows[k] : ~(duration_since(-age, e.start) < window)
  <2>1. CASE \E e \in windows[k] : duration_since(-age, e.start) < window
    <3>1. PICK e \in [start : Offset, used : 1 .. MaxUsed] : windows[k] = {e}
      BY <1>1, <2>1 DEF Windows
    <3>2. (CHOOSE x \in windows[k] : TRUE) = e
      BY <3>1
    <3>3. en = e /\ duration_since(-age, e.start) < window
      BY <2>1, <3>1, <3>2 DEF entry
    <3>4. /\ e = [start |-> e.start, used |-> e.used] /\ e.start \in Offset
          /\ e.used \in Nat /\ e.used >= 1
      BY <3>1, Params
    <3> HIDE DEF en
    <3>5. QED BY <3>1, <3>3, <3>4
  <2>2. CASE ~\E e \in windows[k] : duration_since(-age, e.start) < window
    <3>1. en = [start |-> -age, used |-> 0]
      BY <2>2 DEF entry
    <3>2. -age \in Offset
      BY Params
    <3> HIDE DEF en
    <3>3. QED BY <2>2, <3>1, <3>2
  <2>3. QED BY <2>1, <2>2
<1>4. PICK s \in Offset, u \in Nat :
        /\ en = [start |-> s, used |-> u]
        /\ \/ u >= 1 /\ windows[k] = {[start |-> s, used |-> u]} /\ duration_since(-age, s) < window
           \/ u = 0 /\ s = -age /\ \A e \in windows[k] : ~(duration_since(-age, e.start) < window)
  BY <1>3
<1>5. en.start = s /\ en.used = u
  BY <1>4
<1>6. /\ u + 1 <= MaxUsed
      /\ windows' = [windows EXCEPT ![k] = {[start |-> s, used |-> u + 1]}]
      /\ passed' = IF u + 1 <= limit THEN [passed EXCEPT ![k][0] = @ + 1] ELSE passed
      /\ denied' = IF u + 1 <= limit THEN denied \ {k} ELSE denied \cup {k}
  BY <1>5 DEF check
<1>7. u + 1 \in 1 .. MaxUsed
  BY <1>6, Params
<1>8. /\ windows'[k] = {[start |-> s, used |-> u + 1]}
      /\ \A j \in Key \ {k} : windows'[j] = windows[j]
      /\ windows' \in [Key -> Windows]
  <2>1. {[start |-> s, used |-> u + 1]} \in Windows
    BY <1>7 DEF Windows
  <2>2. QED BY <1>1, <1>6, <2>1
<1>9. /\ passed'[k] = IF u + 1 <= limit THEN [passed[k] EXCEPT ![0] = @ + 1] ELSE passed[k]
      /\ \A j \in Key \ {k} : passed'[j] = passed[j]
      /\ passed' \in [Key -> [0 .. Span -> Nat]]
  <2>1. CASE u + 1 <= limit
    <3> DEFINE p2 == [passed[k] EXCEPT ![0] = @ + 1]
    <3>1. p2 \in [0 .. Span -> Nat]
      BY <1>2, Params
    <3>2. passed' = [passed EXCEPT ![k] = p2]
      BY <1>6, <2>1
    <3> HIDE DEF p2
    <3>3. passed'[k] = p2 /\ \A j \in Key \ {k} : passed'[j] = passed[j]
      BY <1>2, <3>2
    <3>4. passed' \in [Key -> [0 .. Span -> Nat]]
      BY <1>2, <3>1, <3>2
    <3>5. QED BY <2>1, <3>3, <3>4 DEF p2
  <2>2. CASE ~(u + 1 <= limit)
    BY <1>2, <1>6, <2>2
  <2>3. QED BY <2>1, <2>2
<1>10. /\ k \in denied' <=> u + 1 > limit
       /\ \A j \in Key \ {k} : j \in denied' <=> j \in denied
       /\ denied' \subseteq Key
  <2>1. limit \in Nat
    BY LimitAssumption
  <2>2. CASE u + 1 <= limit
    <3>1. ~(u + 1 > limit) /\ denied' = denied \ {k}
      BY <1>6, <2>1, <2>2
    <3>2. QED BY <1>2, <3>1
  <2>3. CASE ~(u + 1 <= limit)
    <3>1. u + 1 > limit /\ denied' = denied \cup {k}
      BY <1>6, <2>1, <2>3
    <3>2. QED BY <1>2, <3>1
  <2>4. QED BY <2>2, <2>3
<1>11. Counted(windows[k], passed[k], age, s, u, windows'[k], passed'[k])
  BY <1>4, <1>8, <1>9 DEF Counted, Bumped
<1> HIDE DEF en
<1>12. en = entry(k, -age)
  BY DEF en
<1>13. QED BY <1>4, <1>7, <1>8, <1>9, <1>10, <1>11, <1>12

\* The counts once request u + 1 of a window is counted: it passes within the
\* limit.
Passing(u, p) == IF u + 1 <= limit THEN Bumped(p) ELSE p

\* What counting the next request does to the recent counts.
LEMMA CountedRecent ==
    ASSUME NEW n \in Nat, NEW u \in Nat, NEW p \in [0 .. n -> Nat], NEW x \in Int
    PROVE  /\ Recent(p, n, x) \in Nat /\ Recent(Passing(u, p), n, x) \in Nat
           /\ Passing(u, p) \in [0 .. n -> Nat]
           /\ Recent(Passing(u, p), n, x) <= (Recent(p, n, x) + Capped(u + 1)) - Capped(u)
           /\ x >= 0 =>
                Recent(Passing(u, p), n, x) = (Recent(p, n, x) + Capped(u + 1)) - Capped(u)
<1> DEFINE p2 == Passing(u, p)
<1>0. p2 = IF u + 1 <= limit THEN Bumped(p) ELSE p
  BY DEF Passing
<1> HIDE DEF p2
<1>1. limit \in Nat
  BY LimitAssumption
<1>2. Recent(p, n, x) \in Nat
  BY <1>1, RecentFacts
<1>3. Bumped(p) \in [0 .. n -> Nat] /\ Recent(Bumped(p), n, x) = IF x < 0 THEN 0 ELSE Recent(p, n, x) + 1
  BY <1>1, RecentCounts
<1>4. CASE u + 1 <= limit
  <2>1. p2 = Bumped(p) /\ Capped(u + 1) = u + 1 /\ Capped(u) = u
    BY <1>0, <1>1, <1>4 DEF Capped
  <2>2. Recent(p2, n, x) = IF x < 0 THEN 0 ELSE Recent(p, n, x) + 1
    BY <1>3, <2>1
  <2>3. (Recent(p, n, x) + Capped(u + 1)) - Capped(u) = Recent(p, n, x) + 1
    BY <1>2, <2>1
  <2>4. QED BY <1>2, <1>3, <2>1, <2>2, <2>3 DEF p2
<1>5. CASE ~(u + 1 <= limit)
  <2>1. p2 = p /\ Capped(u + 1) = limit /\ Capped(u) = limit
    BY <1>0, <1>1, <1>5 DEF Capped
  <2>2. QED BY <1>1, <1>2, <2>1 DEF p2
<1>6. QED BY <1>4, <1>5

\* Capped counts are naturals up to the limit.
LEMMA CappedType ==
    ASSUME NEW u \in Nat
    PROVE  /\ Capped(u) \in Nat /\ Capped(u) <= limit /\ Capped(0) = 0
           /\ Capped(u) <= Capped(u + 1)
  BY Params DEF Capped

\* A check keeps the upper bounds of its key.
LEMMA CheckAtMost ==
    ASSUME window > 0, NEW age \in Age, NEW w \in Windows, NEW p \in [0 .. Span -> Nat],
           NEW s \in Offset, NEW u \in Nat, NEW w2, NEW p2,
           KeyAtMost(w, p), Counted(w, p, age, s, u, w2, p2)
    PROVE  KeyAtMost(w2, p2)
<1>1. /\ limit \in Nat /\ window \in Nat /\ Stall \in Nat /\ Span \in Nat
      /\ age \in 0 .. Stall /\ s \in Int /\ s <= 0
  BY Params
<1>0. /\ w2 = {[start |-> s, used |-> u + 1]}
      /\ p2 = Passing(u, p)
  BY DEF Counted, Passing
<1>2. ASSUME NEW x \in Int
      PROVE  /\ Recent(p, Span, x) \in Nat /\ Recent(p2, Span, x) \in Nat
             /\ Recent(p2, Span, x) <= (Recent(p, Span, x) + Capped(u + 1)) - Capped(u)
  BY <1>0, <1>1, CountedRecent
<1>3. Capped(u) \in Nat /\ Capped(u + 1) \in Nat /\ Capped(0) = 0
  BY CappedType
<1>4. SUFFICES AtMost(s, u + 1, p2)
  <2>1. w2 # {} /\ \A e \in w2 : e.start = s /\ e.used = u + 1
    BY <1>0
  <2>2. QED BY <1>4, <2>1 DEF KeyAtMost
<1> DEFINE x1 == (-Stall) - s
           x2 == (window - Stall) - s
           x3 == ((-s) - window) - Stall
<1>5. x1 \in Int /\ x2 \in Int /\ x3 \in Int
  BY <1>1
<1>6. SUFFICES /\ Recent(p, Span, x1) <= Capped(u)
               /\ Recent(p, Span, x2) <= Capped(u) + limit
               /\ x3 < 0
  <2>1. \A j \in 0 .. Span : j <= x3 => p2[j] = 0
    BY <1>1, <1>5, <1>6
  <2>2. Recent(p2, Span, x1) <= Capped(u + 1)
    <3>1. /\ Recent(p, Span, x1) \in Nat /\ Recent(p2, Span, x1) \in Nat
          /\ Recent(p2, Span, x1) <= (Recent(p, Span, x1) + Capped(u + 1)) - Capped(u)
      BY <1>2, <1>5
    <3>2. QED BY <1>3, <1>6, <3>1
  <2>3. Recent(p2, Span, x2) <= Capped(u + 1) + limit
    <3>1. /\ Recent(p, Span, x2) \in Nat /\ Recent(p2, Span, x2) \in Nat
          /\ Recent(p2, Span, x2) <= (Recent(p, Span, x2) + Capped(u + 1)) - Capped(u)
      BY <1>2, <1>5
    <3>2. QED BY <1>1, <1>3, <1>6, <3>1
  <2>4. QED BY <2>1, <2>2, <2>3 DEF AtMost
<1>7. CASE u >= 1 /\ w = {[start |-> s, used |-> u]} /\ duration_since(-age, s) < window
  <2>1. AtMost(s, u, p)
    BY <1>7 DEF KeyAtMost
  <2>2. x3 < 0
    BY <1>1, <1>7 DEF duration_since
  <2>3. QED BY <2>1, <2>2 DEF AtMost
<1>8. CASE u = 0 /\ s = -age /\ \A e \in w : ~(duration_since(-age, e.start) < window)
  <2>1. x3 < 0 /\ x1 = age - Stall /\ x2 = (window - Stall) + age
    BY <1>1, <1>8
  <2>2. CASE w = {}
    <3>1. \A j \in 0 .. Span : p[j] = 0
      BY <2>2 DEF KeyAtMost
    <3>2. Recent(p, Span, x1) = 0
      BY <1>1, <1>5, <3>1, RecentFacts
    <3>3. Recent(p, Span, x2) = 0
      BY <1>1, <1>5, <3>1, RecentFacts
    <3>4. QED BY <1>1, <1>3, <1>8, <2>1, <3>2, <3>3
  <2>3. CASE w # {}
    <3>1. PICK e \in [start : Offset, used : 1 .. MaxUsed] : w = {e}
      BY <2>3 DEF Windows
    <3>2. e.start \in Int /\ e.used \in Nat /\ AtMost(e.start, e.used, p)
      BY <3>1, Params DEF KeyAtMost
    <3>3. (-age) - e.start >= window
      BY <1>1, <1>8, <3>1, <3>2 DEF duration_since
    <3>4. Recent(p, Span, x1) = 0
      <4>1. x1 <= ((-e.start) - window) - Stall
        BY <1>1, <2>1, <3>2, <3>3
      <4> DEFINE y == ((-e.start) - window) - Stall
      <4>5. y \in Int /\ x1 <= y
        BY <1>1, <3>2, <4>1
      <4>6. \A j \in 0 .. Span : j <= y => p[j] = 0
        BY <3>2 DEF AtMost
      <4> HIDE DEF x1, y
      <4>2. \A j \in 0 .. Span : j <= x1 => p[j] = 0
        BY <1>1, <1>5, <4>5, <4>6
      <4>3. QED BY <1>1, <1>5, <4>2, RecentFacts
    <3>5. Recent(p, Span, x2) <= limit
      <4> DEFINE y == (-Stall) - e.start
      <4>1. x2 <= y /\ y \in Int
        BY <1>1, <2>1, <3>2, <3>3
      <4>2. Recent(p, Span, y) <= Capped(e.used)
        BY <3>2 DEF AtMost
      <4>3. Capped(e.used) \in Nat /\ Capped(e.used) <= limit
        BY <3>2, CappedType
      <4> HIDE DEF x2, y
      <4>4. Recent(p, Span, x2) <= Recent(p, Span, y)
        BY <1>1, <1>5, <4>1, RecentFacts
      <4>5. Recent(p, Span, x2) \in Nat /\ Recent(p, Span, y) \in Nat
        BY <1>2, <1>5, <4>1
      <4>6. QED BY <1>1, <4>2, <4>3, <4>4, <4>5
    <3>6. QED BY <1>1, <1>3, <1>8, <2>1, <3>4, <3>5
  <2>4. QED BY <2>2, <2>3
<1>9. QED BY <1>7, <1>8 DEF Counted

\* A check keeps the lower bound of its key.
LEMMA CheckAtLeast ==
    ASSUME NEW age \in Age, NEW w \in Windows, NEW p \in [0 .. Span -> Nat],
           NEW s \in Offset, NEW u \in Nat, NEW w2, NEW p2,
           KeyAtLeast(w, p), Counted(w, p, age, s, u, w2, p2)
    PROVE  KeyAtLeast(w2, p2)
<1>1. /\ limit \in Nat /\ Span \in Nat /\ s \in Int /\ -s \in Int /\ -s >= 0
  BY Params
<1>2. /\ Recent(p, Span, -s) \in Nat /\ Recent(p2, Span, -s) \in Nat
      /\ Recent(p2, Span, -s) = (Recent(p, Span, -s) + Capped(u + 1)) - Capped(u)
  <2>1. p2 = Passing(u, p)
    BY DEF Counted, Passing
  <2>2. ASSUME NEW x \in Int
        PROVE  /\ Recent(p, Span, x) \in Nat /\ Recent(p2, Span, x) \in Nat
               /\ x >= 0 => Recent(p2, Span, x) = (Recent(p, Span, x) + Capped(u + 1)) - Capped(u)
    BY <1>1, <2>1, CountedRecent
  <2>3. QED BY <1>1, <2>2
<1>3. Capped(u) \in Nat /\ Capped(u + 1) \in Nat /\ Capped(0) = 0
  BY CappedType
<1>4. SUFFICES ASSUME s > -Span PROVE Recent(p, Span, -s) >= Capped(u)
  BY <1>2, <1>3 DEF KeyAtLeast, AtLeast, Counted
<1>5. CASE u >= 1 /\ w = {[start |-> s, used |-> u]}
  BY <1>4, <1>5 DEF KeyAtLeast, AtLeast
<1>6. CASE u = 0
  BY <1>2, <1>3, <1>6
<1>7. QED BY <1>5, <1>6 DEF Counted

\* Where a tick moves the start of a window.
Receded(s) == IF s > -Span THEN s - 1 ELSE s

\* What a tick does to every key.
LEMMA TickEffect ==
    ASSUME TypeOK, Tick
    PROVE  /\ windows' \in [Key -> Windows] /\ passed' \in [Key -> [0 .. Span -> Nat]]
           /\ denied' = {}
           /\ \A k \in Key :
                /\ passed'[k] = Aged(passed[k], Span)
                /\ \/ windows[k] = {} /\ windows'[k] = {}
                   \/ \E s \in Offset, u \in 1 .. MaxUsed :
                        /\ windows[k] = {[start |-> s, used |-> u]}
                        /\ windows'[k] = {[start |-> Receded(s), used |-> u]}
<1>1. windows \in [Key -> Windows] /\ passed \in [Key -> [0 .. Span -> Nat]] /\ Span \in Nat
  BY Params DEF TypeOK, Windows
<1>2. ASSUME NEW k \in Key PROVE passed'[k] = Aged(passed[k], Span)
  BY Params DEF Tick, Aged
<1>3. ASSUME NEW k \in Key
      PROVE  /\ \/ windows[k] = {} /\ windows'[k] = {}
                \/ \E s \in Offset, u \in 1 .. MaxUsed :
                        /\ windows[k] = {[start |-> s, used |-> u]}
                        /\ windows'[k] = {[start |-> Receded(s), used |-> u]}
             /\ windows'[k] \in Windows
  <2>1. windows'[k] =
          {[e EXCEPT !.start = IF @ > -Span THEN @ - 1 ELSE @] : e \in windows[k]}
    BY DEF Tick
  <2>2. CASE windows[k] = {}
    BY <2>1, <2>2 DEF Windows
  <2>3. CASE windows[k] # {}
    <3>1. PICK e \in [start : Offset, used : 1 .. MaxUsed] : windows[k] = {e}
      BY <1>1, <2>3 DEF Windows
    <3> DEFINE s == e.start
               u == e.used
               e2 == [e EXCEPT !.start = IF @ > -Span THEN @ - 1 ELSE @]
    <3>2. s \in Offset /\ u \in 1 .. MaxUsed /\ e = [start |-> s, used |-> u]
      BY <3>1
    <3>3. windows'[k] = {e2}
      BY <2>1, <3>1
    <3>4. e2 = [start |-> Receded(s), used |-> u]
      BY <3>1 DEF Receded
    <3>5. Receded(s) \in Offset
      BY <3>2, Params DEF Receded, Offset
    <3>6. windows'[k] \in Windows
      BY <3>2, <3>3, <3>4, <3>5 DEF Windows
    <3> HIDE DEF s, u, e2
    <3>7. windows[k] = {[start |-> s, used |-> u]} /\ windows'[k] = {[start |-> Receded(s), used |-> u]}
      BY <3>1, <3>2, <3>3, <3>4
    <3>8. QED BY <3>2, <3>6, <3>7
  <2>4. QED BY <2>2, <2>3
<1>4. windows' \in [Key -> Windows]
  <2>1. windows' = [k \in Key |->
          {[e EXCEPT !.start = IF @ > -Span THEN @ - 1 ELSE @] : e \in windows[k]}]
    BY DEF Tick
  <2>2. windows' = [k \in Key |-> windows'[k]]
    BY <2>1
  <2>3. QED BY <1>3, <2>2
<1>5. passed' \in [Key -> [0 .. Span -> Nat]]
  <2>1. passed' = [k \in Key |-> passed'[k]]
    BY DEF Tick
  <2>2. ASSUME NEW k \in Key PROVE passed'[k] \in [0 .. Span -> Nat]
    <3>1. passed[k] \in [0 .. Span -> Nat] /\ 0 \in Int
      BY <1>1
    <3>2. Aged(passed[k], Span) \in [0 .. Span -> Nat]
      BY <1>1, <3>1, RecentAges
    <3>3. QED BY <1>2, <3>2
  <2>3. QED BY <2>1, <2>2
<1>6. denied' = {}
  BY DEF Tick
<1>7. QED BY <1>2, <1>3, <1>4, <1>5, <1>6

\* A tick keeps the upper bounds of a window.
LEMMA TickAtMost ==
    ASSUME NEW s \in Offset, NEW u \in Nat, NEW p \in [0 .. Span -> Nat], AtMost(s, u, p)
    PROVE  AtMost(Receded(s), u, Aged(p, Span))
<1> DEFINE p2 == Aged(p, Span)
           x1 == (-Stall) - s
           x2 == (window - Stall) - s
           x3 == ((-s) - window) - Stall
<1>1. /\ limit \in Nat /\ window \in Nat /\ Stall \in Nat /\ Span \in Nat /\ Span = window + Stall
      /\ s \in Int /\ s <= 0 /\ s >= -Span /\ x1 \in Int /\ x2 \in Int /\ x3 \in Int
  BY Params
<1>2. /\ Recent(p, Span, x1) <= Capped(u) /\ Recent(p, Span, x2) <= Capped(u) + limit
      /\ \A j \in 0 .. Span : j <= x3 => p[j] = 0
  BY DEF AtMost
<1>3. Capped(u) \in Nat
  BY CappedType
<1>4. p2[0] = 0 /\ \A j \in 1 .. Span : p2[j] = p[j - 1]
  BY <1>1 DEF Aged
<1>5. ASSUME NEW x \in Int
      PROVE  /\ Recent(p2, Span, x + 1) <= Recent(p, Span, x)
             /\ Recent(p2, Span, x) <= Recent(p, Span, x)
             /\ Recent(p, Span, x) \in Nat /\ Recent(p2, Span, x) \in Nat
             /\ Recent(p2, Span, x + 1) \in Nat
  <2>1. /\ Recent(p2, Span, x + 1) <= Recent(p, Span, x)
        /\ Recent(p2, Span, x) <= Recent(p, Span, x) /\ p2 \in [0 .. Span -> Nat]
    BY <1>1, RecentAges
  <2>2. Recent(p, Span, x) \in Nat
    BY <1>1, RecentFacts
  <2> HIDE DEF p2
  <2>3. Recent(p2, Span, x) \in Nat
    BY <1>1, <2>1, RecentFacts
  <2>4. x + 1 \in Int
    OBVIOUS
  <2>5. Recent(p2, Span, x + 1) \in Nat
    BY <1>1, <2>1, <2>4, RecentFacts
  <2>6. QED BY <2>1, <2>2, <2>3, <2>5
<1> HIDE DEF p2
<1>6. CASE s > -Span
  <2>1. Receded(s) = s - 1
    BY <1>6 DEF Receded
  <2>2. /\ (-Stall) - (s - 1) = x1 + 1 /\ (window - Stall) - (s - 1) = x2 + 1
        /\ ((-(s - 1)) - window) - Stall = x3 + 1
    BY <1>1
  <2> HIDE DEF x1, x2, x3
  <2>3. Recent(p2, Span, x1 + 1) <= Capped(u)
    <3>1. /\ Recent(p2, Span, x1 + 1) <= Recent(p, Span, x1)
          /\ Recent(p, Span, x1) \in Nat /\ Recent(p2, Span, x1 + 1) \in Nat
      BY <1>1, <1>5
    <3>2. QED BY <1>2, <1>3, <3>1
  <2>4. Recent(p2, Span, x2 + 1) <= Capped(u) + limit
    <3>1. /\ Recent(p2, Span, x2 + 1) <= Recent(p, Span, x2)
          /\ Recent(p, Span, x2) \in Nat /\ Recent(p2, Span, x2 + 1) \in Nat
      BY <1>1, <1>5
    <3>2. QED BY <1>1, <1>2, <1>3, <3>1
  <2>5. \A j \in 0 .. Span : j <= x3 + 1 => p2[j] = 0
    <3>1. ASSUME NEW j \in 1 .. Span, j <= x3 + 1 PROVE p2[j] = 0
      <4>1. j - 1 \in 0 .. Span /\ j - 1 <= x3
        BY <1>1, <3>1
      <4>2. QED BY <1>2, <1>4, <4>1
    <3>2. QED BY <1>1, <1>4, <3>1
  <2>6. QED BY <2>1, <2>2, <2>3, <2>4, <2>5 DEF AtMost, p2
<1>7. CASE ~(s > -Span)
  <2>1. Receded(s) = s
    BY <1>7 DEF Receded
  <2>2. x3 = 0
    BY <1>1, <1>7
  <2>3. \A j \in 0 .. Span : j <= x3 => p2[j] = 0
    BY <1>1, <1>4, <2>2
  <2>4. Recent(p2, Span, x1) <= Capped(u)
    <3>1. /\ Recent(p2, Span, x1) <= Recent(p, Span, x1)
          /\ Recent(p, Span, x1) \in Nat /\ Recent(p2, Span, x1) \in Nat
      BY <1>1, <1>5
    <3>2. QED BY <1>2, <1>3, <3>1
  <2>5. Recent(p2, Span, x2) <= Capped(u) + limit
    <3>1. /\ Recent(p2, Span, x2) <= Recent(p, Span, x2)
          /\ Recent(p, Span, x2) \in Nat /\ Recent(p2, Span, x2) \in Nat
      BY <1>1, <1>5
    <3>2. QED BY <1>1, <1>2, <1>3, <3>1
  <2>6. QED BY <2>1, <2>3, <2>4, <2>5 DEF AtMost, p2
<1>8. QED BY <1>6, <1>7

\* A tick keeps the lower bound of a window.
LEMMA TickAtLeast ==
    ASSUME NEW s \in Offset, NEW u \in Nat, NEW p \in [0 .. Span -> Nat], AtLeast(s, u, p)
    PROVE  AtLeast(Receded(s), u, Aged(p, Span))
<1>1. Span \in Nat /\ s \in Int /\ s <= 0 /\ s >= -Span /\ -s \in Int
  BY Params
<1>2. SUFFICES ASSUME Receded(s) > -Span
               PROVE  Recent(Aged(p, Span), Span, -Receded(s)) >= Capped(u)
  BY DEF AtLeast
<1>3. s > -Span /\ Receded(s) = s - 1 /\ -(s - 1) = (-s) + 1 /\ -s < Span
  BY <1>1, <1>2 DEF Receded
<1>4. Recent(Aged(p, Span), Span, (-s) + 1) = Recent(p, Span, -s)
  BY <1>1, <1>3, RecentAges
<1>5. QED BY <1>3, <1>4 DEF AtLeast

-----------------------------------------------------------------------------
\* TypeOK in the terms of the lemmas.
LEMMA LimiterTypeOK ==
    TypeOK <=> /\ windows \in [Key -> Windows]
               /\ passed \in [Key -> [0 .. Span -> Nat]]
               /\ denied \subseteq Key
  BY Params DEF TypeOK, Windows

\* Every step of the limiter keeps the types.
LEMMA LimiterTypeStep == TypeOK /\ [Next]_vars => TypeOK'
<1> SUFFICES ASSUME TypeOK, [Next]_vars PROVE TypeOK'
  OBVIOUS
<1>1. SUFFICES /\ windows' \in [Key -> Windows]
               /\ passed' \in [Key -> [0 .. Span -> Nat]]
               /\ denied' \subseteq Key
  BY <1>1, Params DEF TypeOK, Windows
<1>2. ASSUME NEW k \in Key, NEW age \in Age, check(k, age)
      PROVE  /\ windows' \in [Key -> Windows]
             /\ passed' \in [Key -> [0 .. Span -> Nat]] /\ denied' \subseteq Key
  BY <1>2, CheckEffect
<1>3. CASE Tick
  BY <1>3, TickEffect
<1>4. CASE UNCHANGED vars
  BY <1>4, LimiterTypeOK DEF vars
<1>5. QED BY <1>2, <1>3, <1>4 DEF Next

\* Every step keeps the upper bounds.
LEMMA BurstStep ==
    ASSUME window > 0, TypeOK, BurstInv, [Next]_vars
    PROVE  BurstInv'
<1>1. windows \in [Key -> Windows] /\ passed \in [Key -> [0 .. Span -> Nat]]
  BY LimiterTypeOK
<1>2. SUFFICES ASSUME NEW j \in Key PROVE KeyAtMost(windows'[j], passed'[j])
  BY <1>2 DEF BurstInv, KeyAtMost, AtMost, Recent, Upto
<1>3. KeyAtMost(windows[j], passed[j]) /\ windows[j] \in Windows /\ passed[j] \in [0 .. Span -> Nat]
  BY <1>1 DEF BurstInv
<1>4. ASSUME NEW k \in Key, NEW age \in Age, check(k, age)
      PROVE  KeyAtMost(windows'[j], passed'[j])
  <2>1. PICK s \in Offset, u \in Nat :
          /\ Counted(windows[k], passed[k], age, s, u, windows'[k], passed'[k])
          /\ \A i \in Key \ {k} : windows'[i] = windows[i] /\ passed'[i] = passed[i]
    BY <1>4, CheckEffect
  <2>2. CASE j = k
    BY <1>3, <2>1, <2>2, CheckAtMost
  <2>3. CASE j # k
    BY <1>3, <2>1, <2>3
  <2>4. QED BY <2>2, <2>3
<1>5. ASSUME Tick PROVE KeyAtMost(windows'[j], passed'[j])
  <2>1. /\ passed'[j] = Aged(passed[j], Span)
        /\ \/ windows[j] = {} /\ windows'[j] = {}
           \/ \E s \in Offset, u \in 1 .. MaxUsed :
                /\ windows[j] = {[start |-> s, used |-> u]}
                /\ windows'[j] = {[start |-> Receded(s), used |-> u]}
    BY <1>5, TickEffect
  <2>2. CASE windows[j] = {} /\ windows'[j] = {}
    <3>1. \A i \in 0 .. Span : passed[j][i] = 0
      BY <1>3, <2>2 DEF KeyAtMost
    <3>2. \A i \in 0 .. Span : Aged(passed[j], Span)[i] = 0
      BY <3>1, Params DEF Aged
    <3>3. QED BY <2>1, <2>2, <3>2 DEF KeyAtMost
  <2>3. CASE \E s \in Offset, u \in 1 .. MaxUsed :
                /\ windows[j] = {[start |-> s, used |-> u]}
                /\ windows'[j] = {[start |-> Receded(s), used |-> u]}
    <3>1. PICK s \in Offset, u \in 1 .. MaxUsed :
                /\ windows[j] = {[start |-> s, used |-> u]}
                /\ windows'[j] = {[start |-> Receded(s), used |-> u]}
      BY <2>3
    <3>2. u \in Nat /\ AtMost(s, u, passed[j])
      BY <1>3, <3>1 DEF KeyAtMost
    <3>3. AtMost(Receded(s), u, passed'[j])
      BY <1>3, <2>1, <3>2, TickAtMost
    <3>4. windows'[j] # {} /\ \A e \in windows'[j] : e.start = Receded(s) /\ e.used = u
      BY <3>1
    <3>5. QED BY <3>3, <3>4, Zenon DEF KeyAtMost
  <2>4. QED BY <2>1, <2>2, <2>3
<1>6. ASSUME UNCHANGED vars PROVE KeyAtMost(windows'[j], passed'[j])
  BY <1>3, <1>6 DEF vars
<1>7. QED BY <1>4, <1>5, <1>6 DEF Next

\* The count of a denial, in the terms of the lemmas.
Justified(p) == Recent(p, Span, (window + Stall) - 1) >= limit

\* A denied check finds the limit used up recently.
LEMMA DeniedJustified ==
    ASSUME NEW age \in Age, NEW w \in Windows, NEW p \in [0 .. Span -> Nat],
           NEW s \in Offset, NEW u \in Nat, NEW w2, NEW p2,
           KeyAtLeast(w, p), Counted(w, p, age, s, u, w2, p2), u + 1 > limit
    PROVE  Justified(p2)
<1> DEFINE x == (window + Stall) - 1
<1>1. /\ limit \in Nat /\ window \in Nat /\ Stall \in Nat /\ Span \in Nat /\ Span = window + Stall
      /\ age \in 0 .. Stall /\ s \in Int /\ s <= 0 /\ x \in Int /\ -s \in Int
  BY Params
<1>2. p2 = p
  BY <1>1 DEF Counted
<1>3. Recent(p, Span, x) \in Nat /\ Recent(p, Span, -s) \in Nat
  BY <1>1, RecentFacts
<1>4. SUFFICES Recent(p, Span, x) >= limit
  BY <1>2 DEF Justified
<1>5. CASE u = 0
  BY <1>1, <1>3, <1>5
<1>6. CASE u >= 1 /\ w = {[start |-> s, used |-> u]} /\ duration_since(-age, s) < window
  <2>1. s > -Span /\ -s <= x
    BY <1>1, <1>6 DEF duration_since
  <2>2. AtLeast(s, u, p)
    BY <1>6 DEF KeyAtLeast
  <2>3. Recent(p, Span, -s) >= limit
    BY <1>1, <1>3, <2>1, <2>2 DEF AtLeast, Capped
  <2> HIDE DEF x
  <2>4. Recent(p, Span, -s) <= Recent(p, Span, x)
    BY <1>1, <2>1, RecentFacts
  <2>5. QED BY <1>1, <1>3, <2>3, <2>4
<1>7. QED BY <1>5, <1>6 DEF Counted

\* DenialJustified in the terms of the lemmas.
LEMMA DenialTerms == DenialJustified <=> \A k \in denied : Justified(passed[k])
  BY Params DEF DenialJustified, Justified, PassedWithin, Recent, Upto

\* Every step keeps the lower bounds and the justification of denials.
LEMMA DenialStep ==
    ASSUME TypeOK, DenialInv, [Next]_vars
    PROVE  DenialInv'
<1>1. windows \in [Key -> Windows] /\ passed \in [Key -> [0 .. Span -> Nat]] /\ denied \subseteq Key
  BY LimiterTypeOK
<1>2. \A k \in denied : Justified(passed[k])
  BY DenialTerms DEF DenialInv
<1>3. SUFFICES ASSUME NEW j \in Key
               PROVE  /\ KeyAtLeast(windows'[j], passed'[j])
                      /\ j \in denied' => Justified(passed'[j])
  <2>1. \A k \in Key : KeyAtLeast(windows[k], passed[k])'
    BY <1>3 DEF KeyAtLeast, AtLeast, Recent, Upto
  <2>2. denied' \subseteq Key
    BY LimiterTypeStep DEF TypeOK
  <2>3. DenialJustified'
    <3>1. \A k \in denied' : Justified(passed'[k])
      BY <1>3, <2>2
    <3>2. ASSUME NEW k \in denied' PROVE PassedWithin(k, window + Stall - 1)' >= limit
      <4>1. Recent(passed'[k], Span, (window + Stall) - 1) >= limit
        BY <3>1 DEF Justified
      <4>2. Slots = 0 .. Span
        BY DEF Slots
      <4>3. PassedWithin(k, window + Stall - 1)' =
              SumFunctionOnSet(passed'[k], {i \in Slots : i <= window + Stall - 1})
        BY DEF PassedWithin
      <4>4. Recent(passed'[k], Span, (window + Stall) - 1) =
              SumFunctionOnSet(passed'[k], {i \in 0 .. Span : i <= window + Stall - 1})
        <5>1. (window + Stall) - 1 = window + Stall - 1
          BY WindowAssumption, StallAssumption
        <5>2. QED BY <5>1 DEF Recent, Upto
      <4>5. QED BY <4>1, <4>2, <4>3, <4>4
    <3>3. QED BY <3>2 DEF DenialJustified
  <2>4. QED BY <2>1, <2>3 DEF DenialInv
<1>4. /\ KeyAtLeast(windows[j], passed[j]) /\ windows[j] \in Windows
      /\ passed[j] \in [0 .. Span -> Nat]
  BY <1>1 DEF DenialInv
<1>5. ASSUME NEW k \in Key, NEW age \in Age, check(k, age)
      PROVE  /\ KeyAtLeast(windows'[j], passed'[j])
             /\ j \in denied' => Justified(passed'[j])
  <2>1. PICK s \in Offset, u \in Nat :
          /\ Counted(windows[k], passed[k], age, s, u, windows'[k], passed'[k])
          /\ k \in denied' <=> u + 1 > limit
          /\ \A i \in Key \ {k} : /\ windows'[i] = windows[i] /\ passed'[i] = passed[i]
                                  /\ i \in denied' <=> i \in denied
    BY <1>5, CheckEffect
  <2>2. CASE j = k
    <3>1. KeyAtLeast(windows'[k], passed'[k])
      BY <1>4, <2>1, <2>2, CheckAtLeast
    <3>2. k \in denied' => Justified(passed'[k])
      BY <1>4, <2>1, <2>2, DeniedJustified
    <3>3. QED BY <2>2, <3>1, <3>2
  <2>3. CASE j # k
    BY <1>2, <1>4, <2>1, <2>3
  <2>4. QED BY <2>2, <2>3
<1>6. ASSUME Tick PROVE KeyAtLeast(windows'[j], passed'[j]) /\ denied' = {}
  <2>1. /\ passed'[j] = Aged(passed[j], Span) /\ denied' = {}
        /\ \/ windows[j] = {} /\ windows'[j] = {}
           \/ \E s \in Offset, u \in 1 .. MaxUsed :
                /\ windows[j] = {[start |-> s, used |-> u]}
                /\ windows'[j] = {[start |-> Receded(s), used |-> u]}
    BY <1>6, TickEffect
  <2>2. CASE windows'[j] = {}
    BY <2>1, <2>2 DEF KeyAtLeast
  <2>3. CASE \E s \in Offset, u \in 1 .. MaxUsed :
                /\ windows[j] = {[start |-> s, used |-> u]}
                /\ windows'[j] = {[start |-> Receded(s), used |-> u]}
    <3>1. PICK s \in Offset, u \in 1 .. MaxUsed :
                /\ windows[j] = {[start |-> s, used |-> u]}
                /\ windows'[j] = {[start |-> Receded(s), used |-> u]}
      BY <2>3
    <3>2. u \in Nat /\ AtLeast(s, u, passed[j])
      BY <1>4, <3>1 DEF KeyAtLeast
    <3>3. AtLeast(Receded(s), u, passed'[j])
      BY <1>4, <2>1, <3>2, TickAtLeast
    <3>4. \A e \in windows'[j] : e.start = Receded(s) /\ e.used = u
      BY <3>1
    <3>5. KeyAtLeast(windows'[j], passed'[j])
      BY <3>3, <3>4, Zenon DEF KeyAtLeast
    <3>6. QED BY <2>1, <3>5
  <2>4. QED BY <2>1, <2>2, <2>3
<1>7. ASSUME UNCHANGED vars
      PROVE  /\ KeyAtLeast(windows'[j], passed'[j])
             /\ j \in denied' => Justified(passed'[j])
  BY <1>2, <1>4, <1>7 DEF vars
<1>8. QED BY <1>5, <1>6, <1>7 DEF Next

-----------------------------------------------------------------------------
\* A start without windows satisfies every invariant.
LEMMA LimiterStart ==
    ASSUME Init
    PROVE  TypeOK /\ BurstInv /\ DenialInv
<1>1. /\ windows = [k \in Key |-> {}] /\ passed = [k \in Key |-> [i \in 0 .. Span |-> 0]]
      /\ denied = {}
  BY Params DEF Init
<1>2. TypeOK
  BY <1>1, LimiterTypeOK DEF Windows
<1>3. BurstInv
  BY <1>1 DEF BurstInv, KeyAtMost
<1>4. DenialInv
  BY <1>1 DEF DenialInv, KeyAtLeast, DenialJustified
<1>5. QED BY <1>2, <1>3, <1>4

\* The upper bounds of a key bound its bursts.
LEMMA BurstFromBounds ==
    ASSUME TypeOK, BurstInv
    PROVE  BurstBounded
<1> SUFFICES ASSUME NEW k \in Key PROVE PassedWithin(k, window - Stall) <= 2 * limit
  BY DEF BurstBounded
<1> DEFINE p == passed[k]
           x == window - Stall
<1>1. /\ limit \in Nat /\ window \in Nat /\ Stall \in Nat /\ Span \in Nat /\ x \in Int
      /\ windows[k] \in Windows /\ p \in [0 .. Span -> Nat] /\ KeyAtMost(windows[k], p)
  BY Params, LimiterTypeOK DEF BurstInv
<1>2. PassedWithin(k, x) = Recent(p, Span, x)
  BY Params DEF PassedWithin, Recent, Upto
<1> HIDE DEF p, x
<1>3. Recent(p, Span, x) \in Nat
  BY <1>1, RecentFacts
<1>4. CASE windows[k] = {}
  <2>1. \A j \in 0 .. Span : p[j] = 0
    BY <1>1, <1>4 DEF KeyAtMost
  <2>2. Recent(p, Span, x) = 0
    BY <1>1, <2>1, RecentFacts
  <2>3. QED BY <1>1, <1>2, <2>2 DEF x
<1>5. CASE windows[k] # {}
  <2>1. PICK e \in [start : Offset, used : 1 .. MaxUsed] : windows[k] = {e}
    BY <1>1, <1>5 DEF Windows
  <2>2. /\ e.start \in Int /\ e.start <= 0 /\ e.used \in Nat
        /\ AtMost(e.start, e.used, p)
    BY <1>1, <2>1, Params DEF KeyAtMost
  <2> DEFINE y == (window - Stall) - e.start
  <2>3. y \in Int /\ x <= y
    BY <1>1, <2>2 DEF x
  <2>4. Recent(p, Span, y) <= Capped(e.used) + limit
    BY <2>2 DEF AtMost
  <2>5. Capped(e.used) \in Nat /\ Capped(e.used) <= limit
    BY <2>2, CappedType
  <2> HIDE DEF y
  <2>6. Recent(p, Span, x) <= Recent(p, Span, y)
    BY <1>1, <2>3, RecentFacts
  <2>7. Recent(p, Span, y) \in Nat
    BY <1>1, <2>3, RecentFacts
  <2>8. Recent(p, Span, x) <= 2 * limit
    BY <1>1, <1>3, <2>4, <2>5, <2>6, <2>7
  <2>9. QED BY <1>2, <2>8 DEF x
<1>6. QED BY <1>4, <1>5

\* The map of the limiter and the counts keep their types, for every limit,
\* window and clock delay.
THEOREM LimiterTypes == Spec => []TypeOK
<1>1. Init => TypeOK
  BY LimiterStart
<1>2. QED BY <1>1, LimiterTypeStep, PTL DEF Spec

\* A client gets at most two windows' worth of requests through in any period
\* shorter than a window by the clock delay.  A window of zero seconds, which
\* the configuration allows, limits nothing, so window > 0 is needed.
THEOREM BurstsAreBounded ==
    ASSUME window > 0
    PROVE  Spec => []BurstBounded
<1>1. Init => TypeOK /\ BurstInv
  BY LimiterStart
<1>2. TypeOK /\ BurstInv /\ [Next]_vars => TypeOK' /\ BurstInv'
  BY BurstStep, LimiterTypeStep
<1>3. TypeOK /\ BurstInv => BurstBounded
  BY BurstFromBounds
<1>4. QED BY <1>1, <1>2, <1>3, PTL DEF Spec

\* A check is denied only when the limit of its own key was used up less than
\* a window and the clock delay ago.
THEOREM DenialsAreJustified == Spec => []DenialJustified
<1>1. Init => TypeOK /\ DenialInv
  BY LimiterStart
<1>2. TypeOK /\ DenialInv /\ [Next]_vars => TypeOK' /\ DenialInv'
  BY DenialStep, LimiterTypeStep
<1>3. DenialInv => DenialJustified
  BY DEF DenialInv
<1>4. QED BY <1>1, <1>2, <1>3, PTL DEF Spec

-----------------------------------------------------------------------------
(***************************************************************************)
(* Admission: every step is one of the limiter or leaves it alone.         *)
(***************************************************************************)
\* What the latest request met: authentication, and the limiter under its key.
HandledInv ==
    /\ route \in Route
    /\ last = None \/ last.status = "401" \/
         \E r \in Request :
            /\ last.status \in {"429", "sent"}
            /\ last.request = r /\ authorize(route.auth, r.headers)
            /\ last.key = rate_key(route.scope, client_ip(r.headers, r.peer), r.headers)
            /\ last.status = "sent" => last.headers = sent_headers(r)

\* A step of admission as a step of the limiter, and what it leaves in last.
LEMMA AdmissionStep ==
    ASSUME HandledInv, [NextAdmission]_admissionVars
    PROVE  HandledInv' /\ [Next]_vars
<1>1. ASSUME NEW r \in Request, Reject(r) PROVE HandledInv' /\ [Next]_vars
  <2>1. last'.status = "401" /\ route' = route /\ UNCHANGED vars
    BY <1>1 DEF Reject
  <2>2. QED BY <2>1 DEF HandledInv
<1>2. ASSUME NEW r \in Request, NEW age \in Age, Admit(r, age) PROVE HandledInv' /\ [Next]_vars
  <2> DEFINE key == rate_key(route.scope, client_ip(r.headers, r.peer), r.headers)
  <2>1. /\ authorize(route.auth, r.headers) /\ route' = route /\ check(key, age)
        /\ last' = IF key \in denied'
                   THEN [status |-> "429", request |-> r, key |-> key,
                         retry_after |-> reset_secs(key, age)]
                   ELSE [status |-> "sent", request |-> r, key |-> key,
                         headers |-> sent_headers(r)]
    BY <1>2 DEF Admit
  <2>2. key \in Key
    BY <2>1, KeyAssumption DEF HandledInv
  <2>3. Next
    <3> HIDE DEF key
    <3>1. QED BY <2>1, <2>2 DEF Next
  <2>4. sent_headers(r)' = sent_headers(r)
    BY <2>1 DEF sent_headers
  <2>5. /\ last'.status \in {"429", "sent"} /\ last'.request = r /\ last'.key = key
        /\ last'.status = "sent" => last'.headers = sent_headers(r)
    <3> HIDE DEF key
    <3>1. CASE key \in denied'
      BY <2>1, <3>1
    <3>2. CASE key \notin denied'
      BY <2>1, <3>2
    <3>3. QED BY <3>1, <3>2
  <2>6. HandledInv'
    <3>1. key = rate_key(route'.scope, client_ip(r.headers, r.peer), r.headers)
          /\ authorize(route'.auth, r.headers) /\ route' \in Route
      BY <2>1 DEF HandledInv
    <3> HIDE DEF key
    <3>2. QED BY <2>4, <2>5, <3>1 DEF HandledInv
  <2>7. QED BY <2>3, <2>6
<1>3. ASSUME Proceed PROVE HandledInv' /\ [Next]_vars
  BY <1>3 DEF Proceed, HandledInv, None
<1>4. ASSUME Elapse PROVE HandledInv' /\ [Next]_vars
  BY <1>4 DEF Elapse, HandledInv, Next, None
<1>5. ASSUME UNCHANGED admissionVars PROVE HandledInv' /\ [Next]_vars
  <2>1. UNCHANGED vars /\ last' = last /\ route' = route
    BY <1>5 DEF admissionVars
  <2>2. \A r : sent_headers(r)' = sent_headers(r)
    BY <2>1 DEF sent_headers
  <2>3. QED BY <2>1, <2>2 DEF HandledInv
<1>6. QED BY <1>1, <1>2, <1>3, <1>4, <1>5 DEF NextAdmission

\* Whatever routes, credentials and headers requests have, admission uses the
\* limiter as the limiter is specified: every check is for one of its keys.
THEOREM AdmissionUsesLimiter == SpecAdmission => Spec /\ []HandledInv
<1>1. InitAdmission => Init /\ HandledInv
  BY DEF InitAdmission, HandledInv
<1>2. HandledInv /\ [NextAdmission]_admissionVars => HandledInv' /\ [Next]_vars
  BY AdmissionStep
<1>3. QED BY <1>1, <1>2, PTL DEF SpecAdmission, Spec

\* The limits of every key hold for the requests that come through admission.
THEOREM AdmissionKeepsLimits ==
    ASSUME window > 0
    PROVE  SpecAdmission => [](TypeOK /\ BurstBounded /\ DenialJustified)
<1>1. Spec => []BurstBounded
  BY BurstsAreBounded
<1>2. QED BY <1>1, AdmissionUsesLimiter, LimiterTypes, DenialsAreJustified, PTL

-----------------------------------------------------------------------------
\* The key an API key route counts a request under is the one that authorised
\* it, unless X-Api-Key is present and empty.
LEMMA KeyOfCredential ==
    ASSUME NEW r \in Request, NEW policy, NEW ip,
           policy.type = "api_key", authorize(policy, r.headers),
           <<"">> \notin get(r.headers, "x-api-key")
    PROVE  \E key \in policy.keys : /\ rate_key("api_key", ip, r.headers) = <<"api_key", key>>
                                    /\ extract_api_key(r.headers) = {key}
<1> DEFINE h == r.headers
           own == {v[1] : v \in get(h, "x-api-key")}
           auth == {credential(v) : v \in get(h, "authorization")}
           pick == IF own # {} THEN own ELSE IF auth # {} THEN auth ELSE {"anon"}
<1>1. extract_api_key(h) \cap policy.keys # {}
  BY DEF authorize
<1>2. extract_api_key(h) = IF own \ {""} # {} THEN own \ {""} ELSE auth \ {""}
  BY DEF extract_api_key
<1>3. rate_key("api_key", ip, h) = <<"api_key", CHOOSE key \in pick : TRUE>>
  BY DEF rate_key
<1>4. own = {} \/ \E x : own = {x} /\ x # ""
  <2>1. CASE get(h, "x-api-key") = {}
    BY <2>1
  <2>2. CASE get(h, "x-api-key") # {}
    <3>1. PICK v : get(h, "x-api-key") = {v}
      BY <2>2 DEF get
    <3>2. v = <<v[1]>> /\ v # <<"">>
      BY <3>1, RequestAssumption
    <3>3. own = {v[1]} /\ v[1] # ""
      BY <3>1, <3>2
    <3> HIDE DEF own
    <3>4. QED BY <3>3
  <2>3. QED BY <2>1, <2>2
<1>5. auth = {} \/ \E x : auth = {x}
  <2>1. CASE get(h, "authorization") = {}
    BY <2>1
  <2>2. CASE get(h, "authorization") # {}
    <3>1. PICK v : get(h, "authorization") = {v}
      BY <2>2 DEF get
    <3>2. auth = {credential(v)}
      BY <3>1
    <3> HIDE DEF auth
    <3>3. QED BY <3>2
  <2>3. QED BY <2>1, <2>2
<1> HIDE DEF own, auth
<1>6. PICK x : extract_api_key(h) = {x} /\ pick = {x}
  <2>1. CASE own = {}
    <3>1. extract_api_key(h) = auth \ {""}
      BY <1>2, <2>1
    <3>2. PICK x : auth = {x}
      BY <1>1, <1>5, <3>1
    <3>3. x # ""
      BY <1>1, <3>1, <3>2
    <3>4. QED BY <2>1, <3>1, <3>2, <3>3
  <2>2. CASE own # {}
    <3>1. PICK x : own = {x} /\ x # ""
      BY <1>4, <2>2
    <3>2. QED BY <1>2, <3>1
  <2>3. QED BY <2>1, <2>2
<1>7. x \in policy.keys
  BY <1>1, <1>6
<1>8. (CHOOSE key \in pick : TRUE) = x
  BY <1>6
<1>9. QED BY <1>3, <1>6, <1>7, <1>8

\* No key's traffic uses up the limit of another, whatever headers come with it.
THEOREM KeysAreSeparate == SpecAdmission => []CountedUnderItsKey
<1>1. HandledInv => CountedUnderItsKey
  <2> SUFFICES ASSUME HandledInv, last.status \in {"429", "sent"}, route.scope = "api_key",
                      route.auth.type = "api_key",
                      <<"">> \notin get(last.request.headers, "x-api-key")
               PROVE  \E key \in route.auth.keys :
                         /\ last.key = <<"api_key", key>>
                         /\ extract_api_key(last.request.headers) = {key}
    BY DEF CountedUnderItsKey
  <2>1. last # None /\ last.status # "401"
    <3>1. None.status = "none"
      BY DEF None
    <3>2. last.status = "429" \/ last.status = "sent"
      OBVIOUS
    <3>3. QED BY <3>1, <3>2
  <2>2. PICK r \in Request :
          /\ last.request = r /\ authorize(route.auth, r.headers)
          /\ last.key = rate_key(route.scope, client_ip(r.headers, r.peer), r.headers)
    BY <2>1 DEF HandledInv
  <2> DEFINE policy == route.auth
             ip == client_ip(r.headers, r.peer)
  <2>3. policy.type = "api_key" /\ authorize(policy, r.headers)
        /\ <<"">> \notin get(r.headers, "x-api-key")
    BY <2>2
  <2>4. last.key = rate_key("api_key", ip, r.headers)
    BY <2>2
  <2> HIDE DEF policy, ip
  <2>5. \E key \in policy.keys : /\ rate_key("api_key", ip, r.headers) = <<"api_key", key>>
                                 /\ extract_api_key(r.headers) = {key}
    BY <2>3, KeyOfCredential
  <2>6. QED BY <2>2, <2>4, <2>5 DEF policy
<1>2. QED BY <1>1, AdmissionUsesLimiter, PTL

-----------------------------------------------------------------------------
\* What is sent upstream keeps the promises of HeadersFaithful.
LEMMA SentHeaders ==
    ASSUME NEW r
    PROVE  LET h == r.headers
               t == route.request_headers
               set == {"x-request-id", "x-forwarded-for", "x-real-ip", "x-forwarded-host",
                       "x-forwarded-proto"}
               out == sent_headers(r)
           IN  /\ out["x-request-id"] = <<correlation(h)>>
               /\ \A n \in DOMAIN out : is_hop_by_hop(n) => n \in DOMAIN t.add
               /\ \A n \in DOMAIN h \ (set \cup t.remove \cup DOMAIN t.add) :
                    is_hop_by_hop(n) \/ (n \in DOMAIN out /\ out[n] = h[n])
               /\ \A n \in DOMAIN t.add \ {"x-request-id"} : out[n] = <<t.add[n]>>
<1> DEFINE h == r.headers
           t == route.request_headers
           four == {"x-forwarded-for", "x-real-ip", "x-forwarded-host", "x-forwarded-proto"}
           ip == client_ip(h, r.peer)
           host == IF get(h, "host") # {} THEN h["host"][1] ELSE <<"">>
           fwd == forwarded_request_headers(h, ip, host)
           mid == apply_transforms(fwd, t)
           out == sent_headers(r)
<1>1. out = insert(mid, "x-request-id", correlation(h))
  BY DEF sent_headers
<1>2. /\ DOMAIN fwd = {n \in DOMAIN h : ~is_hop_by_hop(n)} \cup four
      /\ \A n \in DOMAIN h : ~is_hop_by_hop(n) /\ n \notin four => fwd[n] = h[n]
  <2> DEFINE chain == IF get(h, "x-forwarded-for") = {} THEN <<ip>>
                      ELSE Append(h["x-forwarded-for"][1], ip)
             f0 == end_to_end(h)
             f1 == insert(f0, "x-forwarded-for", chain)
             f2 == insert(f1, "x-real-ip", <<ip>>)
             f3 == insert(f2, "x-forwarded-host", host)
             f4 == insert(f3, "x-forwarded-proto", <<"http">>)
  <2>1. fwd = f4
    BY DEF forwarded_request_headers
  <2>2. /\ DOMAIN f0 = {n \in DOMAIN h : ~is_hop_by_hop(n)}
        /\ \A n \in DOMAIN f0 : f0[n] = h[n]
    BY DEF end_to_end, Restrict
  <2> HIDE DEF h, f0, chain, ip, host
  <2>3. DOMAIN f1 = DOMAIN f0 \cup {"x-forwarded-for"}
        /\ \A n \in DOMAIN f0 : n # "x-forwarded-for" => f1[n] = f0[n]
    BY DEF insert
  <2> HIDE DEF f1
  <2>4. DOMAIN f2 = DOMAIN f1 \cup {"x-real-ip"}
        /\ \A n \in DOMAIN f1 : n # "x-real-ip" => f2[n] = f1[n]
    BY DEF insert
  <2> HIDE DEF f2
  <2>5. DOMAIN f3 = DOMAIN f2 \cup {"x-forwarded-host"}
        /\ \A n \in DOMAIN f2 : n # "x-forwarded-host" => f3[n] = f2[n]
    BY DEF insert
  <2> HIDE DEF f3
  <2>6. DOMAIN f4 = DOMAIN f3 \cup {"x-forwarded-proto"}
        /\ \A n \in DOMAIN f3 : n # "x-forwarded-proto" => f4[n] = f3[n]
    BY DEF insert
  <2> HIDE DEF f4, fwd
  <2>7. DOMAIN f4 = {n \in DOMAIN h : ~is_hop_by_hop(n)} \cup four
    BY <2>2, <2>3, <2>4, <2>5, <2>6
  <2>8. ASSUME NEW n \in DOMAIN h, ~is_hop_by_hop(n), n \notin four PROVE f4[n] = h[n]
    <3>1. n \in DOMAIN f0 /\ f0[n] = h[n]
      BY <2>2, <2>8
    <3>2. n \in DOMAIN f1 /\ n \in DOMAIN f2 /\ n \in DOMAIN f3
      BY <2>3, <2>4, <2>5, <3>1
    <3>3. QED BY <2>3, <2>4, <2>5, <2>6, <2>8, <3>1, <3>2
  <2>9. QED BY <2>1, <2>7, <2>8
<1>3. /\ DOMAIN mid = DOMAIN t.add \cup (DOMAIN fwd \ t.remove)
      /\ \A n \in DOMAIN mid : mid[n] = IF n \in DOMAIN t.add THEN <<t.add[n]>> ELSE fwd[n]
  <2> HIDE DEF fwd, t
  <2>1. QED BY DEF apply_transforms
<1>4. /\ DOMAIN out = DOMAIN mid \cup {"x-request-id"}
      /\ out["x-request-id"] = <<correlation(h)>>
      /\ \A n \in DOMAIN mid : n # "x-request-id" => out[n] = mid[n]
  <2> HIDE DEF mid, out, h
  <2>1. QED BY <1>1 DEF insert
<1> HIDE DEF h, t, ip, host, fwd, mid, out
<1>5. ~is_hop_by_hop("x-request-id") /\ \A n \in four : ~is_hop_by_hop(n)
  BY DEF is_hop_by_hop
<1>6. \A n \in DOMAIN out : is_hop_by_hop(n) => n \in DOMAIN t.add
  BY <1>2, <1>3, <1>4, <1>5
<1>7. ASSUME NEW n \in DOMAIN h, n \notin four, n # "x-request-id", n \notin t.remove,
             n \notin DOMAIN t.add, ~is_hop_by_hop(n)
      PROVE  n \in DOMAIN out /\ out[n] = h[n]
  BY <1>2, <1>3, <1>4, <1>7
<1>8. \A n \in DOMAIN t.add \ {"x-request-id"} : out[n] = <<t.add[n]>>
  BY <1>3, <1>4
<1>9. QED BY <1>4, <1>6, <1>7, <1>8 DEF h, t, out

\* The headers an upstream receives, for every request and every transform.
THEOREM HeadersAreKept == SpecAdmission => []HeadersFaithful
<1>1. HandledInv => HeadersFaithful
  <2> SUFFICES ASSUME HandledInv, last.status = "sent" PROVE HeadersFaithful
    BY DEF HeadersFaithful
  <2>1. last # None /\ last.status # "401"
    BY DEF None
  <2>2. PICK r \in Request : last.request = r /\ last.headers = sent_headers(r)
    BY <2>1 DEF HandledInv
  <2>3. QED BY <2>2, SentHeaders DEF HeadersFaithful
<1>2. QED BY <1>1, AdmissionUsesLimiter, PTL

-----------------------------------------------------------------------------
\* Whole seconds: the quotient times the divisor falls short by less than it.
LEMMA Quotient ==
    ASSUME NEW a \in Nat
    PROVE  /\ a \div SEC \in Nat
           /\ (a \div SEC) * SEC <= a /\ a < ((a \div SEC) + 1) * SEC
  BY SECAssumption

\* Retry-After is the time to the end of the window in whole seconds.
THEOREM RetryAfterIsTight == SpecAdmission => []RetryAfterTight
<1>1. InitAdmission => RetryAfterTight
  BY DEF InitAdmission, RetryAfterTight, None
<1>2. TypeOK /\ HandledInv /\ RetryAfterTight /\ [NextAdmission]_admissionVars => RetryAfterTight'
  <2> SUFFICES ASSUME TypeOK, HandledInv, RetryAfterTight, [NextAdmission]_admissionVars
               PROVE  RetryAfterTight'
    OBVIOUS
  <2>1. ASSUME NEW r \in Request, Reject(r) PROVE RetryAfterTight'
    BY <2>1 DEF Reject, RetryAfterTight
  <2>2. ASSUME NEW r \in Request, NEW age \in Age, Admit(r, age) PROVE RetryAfterTight'
    <3> DEFINE key == rate_key(route.scope, client_ip(r.headers, r.peer), r.headers)
    <3>1. /\ authorize(route.auth, r.headers) /\ check(key, age)
          /\ last' = IF key \in denied'
                     THEN [status |-> "429", request |-> r, key |-> key,
                           retry_after |-> reset_secs(key, age)]
                     ELSE [status |-> "sent", request |-> r, key |-> key,
                           headers |-> sent_headers(r)]
      BY <2>2 DEF Admit
    <3>2. key \in Key
      BY <3>1, KeyAssumption DEF HandledInv
    <3> HIDE DEF key
    <3>3. PICK s \in Offset, u \in Nat :
            /\ entry(key, -age) = [start |-> s, used |-> u]
            /\ Counted(windows[key], passed[key], age, s, u, windows'[key], passed'[key])
      BY <3>1, <3>2, CheckEffect
    <3> DEFINE dur == duration_since(-age, s)
               a == window - dur
               q == a \div SEC
    <3>4. /\ window \in Nat /\ Stall \in Nat /\ age \in 0 .. Stall /\ s \in Int /\ s <= 0
          /\ SEC \in Nat
      BY Params, SECAssumption
    <3>5. dur \in Nat /\ dur <= window /\ s <= -dur /\ (-dur) - Stall <= s
      BY <3>3, <3>4 DEF Counted, duration_since
    <3>6. Min({window, dur}) = dur
      <4> HIDE DEF dur
      <4>1. QED BY <3>4, <3>5 DEF Min
    <3>7. reset_secs(key, age) = q
      BY <3>3, <3>6 DEF reset_secs
    <3> HIDE DEF dur
    <3>8. a \in Nat
      BY <3>4, <3>5
    <3>9. q \in Nat /\ q * SEC <= a /\ a < (q + 1) * SEC
      <4> HIDE DEF a
      <4>1. QED BY <3>8, Quotient
    <3> HIDE DEF q
    <3>10. q * SEC - Stall <= window + s /\ window + s < (q + 1) * SEC
      <4> DEFINE m1 == q * SEC
                 m2 == (q + 1) * SEC
      <4>1. m1 \in Int /\ m2 \in Int /\ m1 <= a /\ a < m2
        BY <3>4, <3>9
      <4> HIDE DEF m1, m2
      <4>2. m1 - Stall <= window + s /\ window + s < m2
        BY <3>4, <3>5, <4>1
      <4>3. QED BY <4>2 DEF m1, m2
    <3>11. \A e \in windows'[key] : e.start = s
      BY <3>3 DEF Counted
    <3>12. CASE key \in denied'
      <4>1. last'.retry_after = q /\ last'.key = key
        BY <3>1, <3>7, <3>12
      <4>2. QED BY <3>10, <3>11, <4>1 DEF RetryAfterTight
    <3>13. CASE key \notin denied'
      BY <3>1, <3>13 DEF RetryAfterTight
    <3>14. QED BY <3>12, <3>13
  <2>3. ASSUME Proceed PROVE RetryAfterTight'
    BY <2>3 DEF Proceed, RetryAfterTight, None
  <2>4. ASSUME Elapse PROVE RetryAfterTight'
    BY <2>4 DEF Elapse, RetryAfterTight, None
  <2>5. ASSUME UNCHANGED admissionVars PROVE RetryAfterTight'
    BY <2>5 DEF admissionVars, vars, RetryAfterTight
  <2>6. QED BY <2>1, <2>2, <2>3, <2>4, <2>5 DEF NextAdmission
<1>3. QED BY <1>1, <1>2, AdmissionUsesLimiter, LimiterTypes, PTL DEF SpecAdmission

-----------------------------------------------------------------------------
(***************************************************************************)
(* The distributed limiter.  It shares the settings of the route with the  *)
(* in-memory limiter and none of its variables.                            *)
(***************************************************************************)
W == window_secs
Ttls == {{}} \cup {{t} : t \in 1 .. W}
Counters == {{}} \cup {{k} : k \in [count : 1 .. MaxCount, ttl : Ttls]}
Checks == [Handler -> [pc : {"idle", "expire", "ttl"}, count : 0 .. MaxCount]]

\* The time to live of a counter is at least one tick.
LEMMA WType == W \in Nat \ {0} /\ RedisSlots = 0 .. W
  BY WindowAssumption DEF W, window_secs, RedisSlots

\* What a counter is.
LEMMA CountersAre ==
    ASSUME NEW c
    PROVE  c \in Counters <=>
             \/ c = {}
             \/ \E n \in 1 .. MaxCount, t \in {{}} \cup {{t} : t \in 1 .. W} :
                    c = {[count |-> n, ttl |-> t]}
<1>1. ASSUME NEW k \in [count : 1 .. MaxCount, ttl : Ttls], c = {k}
      PROVE  \E n \in 1 .. MaxCount, t \in {{}} \cup {{t} : t \in 1 .. W} :
                c = {[count |-> n, ttl |-> t]}
  <2>1. k = [count |-> k.count, ttl |-> k.ttl] /\ k.count \in 1 .. MaxCount /\ k.ttl \in Ttls
    OBVIOUS
  <2>2. QED BY <1>1, <2>1 DEF Ttls
<1>2. ASSUME NEW n \in 1 .. MaxCount, NEW t \in {{}} \cup {{t} : t \in 1 .. W},
             c = {[count |-> n, ttl |-> t]}
      PROVE  c \in Counters
  <2>1. [count |-> n, ttl |-> t] \in [count : 1 .. MaxCount, ttl : Ttls]
    BY DEF Ttls
  <2>2. QED BY <1>2, <2>1 DEF Counters
<1>3. QED BY <1>1, <1>2 DEF Counters

\* The parts of RedisTypeOK in the terms of the lemmas.
LEMMA RedisTyped ==
    RedisTypeOK <=> /\ counter \in Counters /\ command \in Checks
                    /\ faults \in 0 .. MaxFaults /\ orphan \in BOOLEAN
<1>1. counter \in Counters <=>
        \/ counter = {}
        \/ \E n \in 1 .. MaxCount, t \in {{}} \cup {{t} : t \in 1 .. W} :
              counter = {[count |-> n, ttl |-> t]}
  BY CountersAre
<1>2. QED BY <1>1 DEF RedisTypeOK, W, Checks

\* The count of a counter.
LEMMA CountOf ==
    /\ Count({}) = 0
    /\ \A k : k.count \in Nat => Count({k}) = k.count
<1>1. ASSUME NEW n \in Nat PROVE Max({n} \cup {0}) = n
  <2> DEFINE S == {n} \cup {0}
  <2>1. \A x \in S : (\A y \in S : x >= y) <=> x = n
    OBVIOUS
  <2>2. n \in S
    OBVIOUS
  <2> HIDE DEF S
  <2>3. (CHOOSE x \in S : \A y \in S : x >= y) = n
    BY <2>1, <2>2
  <2>4. QED BY <2>3 DEF Max, S
<1>2. Count({}) = 0
  <2>1. {k.count : k \in {}} \cup {0} = {0} \cup {0}
    OBVIOUS
  <2>2. QED BY <1>1, <2>1 DEF Count
<1>3. ASSUME NEW k, k.count \in Nat PROVE Count({k}) = k.count
  <2>1. {x.count : x \in {k}} \cup {0} = {k.count} \cup {0}
    OBVIOUS
  <2>2. QED BY <1>1, <1>3, <2>1 DEF Count
<1>4. QED BY <1>2, <1>3

\* The commands of Redis on a counter.
LEMMA IncrOf ==
    ASSUME counter \in Counters, MaxCount \in Nat
    PROVE  \/ /\ counter = {} /\ Count(counter) = 0
              /\ INCR = {[count |-> 1, ttl |-> {}]} /\ Count(INCR) = 1
           \/ \E n \in 1 .. MaxCount, t \in Ttls :
                /\ counter = {[count |-> n, ttl |-> t]} /\ Count(counter) = n
                /\ INCR = {[count |-> n + 1, ttl |-> t]} /\ Count(INCR) = n + 1
<1>1. CASE counter = {}
  <2> DEFINE k == [count |-> 1, ttl |-> {}]
  <2>1. INCR = {k} /\ k.count = 1
    BY <1>1 DEF INCR
  <2> HIDE DEF k
  <2>2. Count({k}) = 1
    BY <2>1, CountOf
  <2>3. QED BY <1>1, <2>1, <2>2, CountOf DEF k
<1>2. CASE counter # {}
  <2>1. PICK k \in [count : 1 .. MaxCount, ttl : Ttls] : counter = {k}
    BY <1>2 DEF Counters
  <2> DEFINE n == k.count
             t == k.ttl
             k2 == [k EXCEPT !.count = @ + 1]
  <2>2. n \in 1 .. MaxCount /\ t \in Ttls /\ k = [count |-> n, ttl |-> t]
    BY <2>1
  <2>3. k2 = [count |-> n + 1, ttl |-> t] /\ k2.count = n + 1
    BY <2>1
  <2>4. INCR = {k2}
    BY <1>2, <2>1 DEF INCR
  <2> HIDE DEF n, t, k2
  <2>5. Count({k}) = n /\ Count({k2}) = n + 1
    <3>1. k.count = n /\ n \in Nat /\ n + 1 \in Nat
      BY <2>2 DEF n
    <3>2. QED BY <2>3, <3>1, CountOf
  <2>6. QED BY <2>1, <2>2, <2>3, <2>4, <2>5
<1>3. QED BY <1>1, <1>2

\* EXPIRE gives an existing counter a whole window and makes none.
LEMMA ExpireOf ==
    ASSUME counter \in Counters, MaxCount \in Nat
    PROVE  \/ counter = {} /\ EXPIRE = {}
           \/ \E n \in 1 .. MaxCount, t \in Ttls :
                /\ counter = {[count |-> n, ttl |-> t]}
                /\ EXPIRE = {[count |-> n, ttl |-> {W}]}
<1>1. CASE counter = {}
  BY <1>1 DEF EXPIRE
<1>2. CASE counter # {}
  <2>1. PICK k \in [count : 1 .. MaxCount, ttl : Ttls] : counter = {k}
    BY <1>2 DEF Counters
  <2> DEFINE n == k.count
             t == k.ttl
             k2 == [k EXCEPT !.ttl = {W}]
  <2>2. n \in 1 .. MaxCount /\ t \in Ttls /\ k = [count |-> n, ttl |-> t]
    BY <2>1
  <2>3. k2 = [count |-> n, ttl |-> {W}]
    BY <2>1
  <2>4. EXPIRE = {k2}
    BY <2>1 DEF EXPIRE, W
  <2> HIDE DEF n, t, k2
  <2>5. QED BY <2>1, <2>2, <2>3, <2>4
<1>3. QED BY <1>1, <1>2

\* A tick deletes a counter at the end of its time, and lets the time of any
\* other run down.
LEMMA TickOf ==
    ASSUME counter \in Counters, MaxCount \in Nat, RedisTick
    PROVE  \/ counter = {} /\ counter' = {}
           \/ \E n \in 1 .. MaxCount :
                \/ counter = {[count |-> n, ttl |-> {}]} /\ counter' = counter
                \/ counter = {[count |-> n, ttl |-> {1}]} /\ counter' = {}
                \/ \E t \in 2 .. W : /\ counter = {[count |-> n, ttl |-> {t}]}
                                     /\ counter' = {[count |-> n, ttl |-> {t - 1}]}
<1>1. counter' = {[k EXCEPT !.ttl = {t - 1 : t \in k.ttl}] : k \in {k \in counter : 1 \notin k.ttl}}
  BY DEF RedisTick
<1>2. CASE counter = {}
  BY <1>1, <1>2
<1>3. CASE counter # {}
  <2>1. PICK k \in [count : 1 .. MaxCount, ttl : Ttls] : counter = {k}
    BY <1>3 DEF Counters
  <2> DEFINE n == k.count
  <2>2. n \in 1 .. MaxCount /\ k.ttl \in Ttls /\ k = [count |-> n, ttl |-> k.ttl]
    BY <2>1
  <2>3. CASE k.ttl = {}
    <3>1. counter' = {[k EXCEPT !.ttl = {}]}
      BY <1>1, <2>1, <2>3
    <3>2. [k EXCEPT !.ttl = {}] = k
      BY <2>1, <2>3
    <3> HIDE DEF n
    <3>3. QED BY <2>1, <2>2, <2>3, <3>1, <3>2
  <2>4. CASE k.ttl = {1}
    <3>1. counter' = {}
      BY <1>1, <2>1, <2>4
    <3> HIDE DEF n
    <3>2. QED BY <2>1, <2>2, <2>4, <3>1
  <2>5. CASE \E t \in 2 .. W : k.ttl = {t}
    <3>1. PICK t \in 2 .. W : k.ttl = {t}
      BY <2>5
    <3>2. {x - 1 : x \in k.ttl} = {t - 1} /\ 1 \notin k.ttl
      BY <3>1
    <3>3. counter' = {[k EXCEPT !.ttl = {t - 1}]}
      BY <1>1, <2>1, <3>2
    <3>4. [k EXCEPT !.ttl = {t - 1}] = [count |-> n, ttl |-> {t - 1}]
      <4>1. ASSUME NEW x PROVE [k EXCEPT !.ttl = x] = [count |-> k.count, ttl |-> x]
        OBVIOUS
      <4>2. QED BY <4>1
    <3>5. k = [count |-> n, ttl |-> {t}]
      BY <2>2, <3>1
    <3> HIDE DEF n
    <3>6. /\ counter = {[count |-> n, ttl |-> {t}]}
          /\ counter' = {[count |-> n, ttl |-> {t - 1}]}
      BY <2>1, <3>3, <3>4, <3>5, Zenon
    <3>7. QED BY <2>2, <3>1, <3>6, Zenon
  <2>6. k.ttl = {} \/ k.ttl = {1} \/ \E t \in 2 .. W : k.ttl = {t}
    BY <2>2, WType DEF Ttls
  <2>7. QED BY <2>3, <2>4, <2>5, <2>6
<1>4. QED BY <1>2, <1>3

\* Every step of the distributed limiter keeps the types.
LEMMA RedisTypeStep ==
    ASSUME RedisTypeOK, [NextRedis]_redisVars
    PROVE  RedisTypeOK'
<1>1. /\ counter \in Counters /\ command \in Checks
      /\ faults \in 0 .. MaxFaults /\ orphan \in BOOLEAN
  BY RedisTyped
<1>2. MaxCount \in Nat /\ MaxFaults \in Nat
  BY BoundsAssumption
<1>3. Idle \in [pc : {"idle", "expire", "ttl"}, count : 0 .. MaxCount]
  BY <1>2 DEF Idle
<1> DEFINE Typed == /\ counter' \in Counters /\ command' \in Checks
                    /\ faults' \in 0 .. MaxFaults /\ orphan' \in BOOLEAN
<1>4. SUFFICES Typed
  <2>1. \/ counter' = {}
        \/ \E n \in 1 .. MaxCount, t \in {{}} \cup {{t} : t \in 1 .. W} :
              counter' = {[count |-> n, ttl |-> t]}
    BY <1>4, CountersAre
  <2>2. QED BY <1>4, <2>1 DEF RedisTypeOK, W, Checks
<1>5. ASSUME Fault PROVE faults' \in 0 .. MaxFaults
  BY <1>1, <1>2, <1>5 DEF Fault
<1>6. ASSUME Count(counter) < MaxCount
      PROVE  INCR \in Counters /\ Count(INCR) \in 1 .. MaxCount
  <2>1. CASE counter = {} /\ INCR = {[count |-> 1, ttl |-> {}]} /\ Count(INCR) = 1
    <3>1. Count(counter) = 0
      BY <2>1, CountOf
    <3>2. 1 \in 1 .. MaxCount
      BY <1>2, <1>6, <3>1
    <3>3. [count |-> 1, ttl |-> {}] \in [count : 1 .. MaxCount, ttl : Ttls]
      BY <3>2 DEF Ttls
    <3>4. QED BY <2>1, <3>2, <3>3 DEF Counters
  <2>2. ASSUME NEW n \in 1 .. MaxCount, NEW t \in Ttls, Count(counter) = n,
               INCR = {[count |-> n + 1, ttl |-> t]}, Count(INCR) = n + 1
        PROVE  INCR \in Counters /\ Count(INCR) \in 1 .. MaxCount
    <3>1. n + 1 \in 1 .. MaxCount
      BY <1>2, <1>6, <2>2
    <3>2. [count |-> n + 1, ttl |-> t] \in [count : 1 .. MaxCount, ttl : Ttls]
      BY <3>1
    <3>3. QED BY <2>2, <3>1, <3>2 DEF Counters
  <2>3. QED BY <1>1, <1>2, <2>1, <2>2, IncrOf
<1>7. ASSUME NEW h \in Handler, Incr(h) PROVE Typed
  <2> DEFINE n == Count(INCR)
             c == [pc |-> IF n = 1 THEN "expire" ELSE "ttl", count |-> n]
  <2>1. INCR \in Counters /\ n \in 1 .. MaxCount
    BY <1>6, <1>7 DEF Incr
  <2>2. counter' = INCR /\ command' = [command EXCEPT ![h] = c]
        /\ faults' = faults /\ orphan' = orphan
    BY <1>7 DEF Incr
  <2> HIDE DEF n
  <2>3. c \in [pc : {"idle", "expire", "ttl"}, count : 0 .. MaxCount]
    BY <1>2, <2>1
  <2> HIDE DEF c
  <2>4. command' \in Checks
    BY <1>1, <2>2, <2>3 DEF Checks
  <2>5. QED BY <1>1, <2>1, <2>2, <2>4
<1>8. ASSUME NEW h \in Handler, NEW done \in BOOLEAN, IncrFails(h, done) PROVE Typed
  <2>1. counter' \in Counters
    BY <1>1, <1>6, <1>8 DEF IncrFails
  <2>2. orphan' \in BOOLEAN
    BY <1>8, Zenon DEF IncrFails
  <2>3. QED BY <1>1, <1>5, <1>8, <2>1, <2>2 DEF IncrFails
<1>9. ASSUME NEW h \in Handler PROVE [command EXCEPT ![h].pc = "ttl"] \in Checks
  BY <1>1 DEF Checks
<1>10. ASSUME NEW h \in Handler PROVE [command EXCEPT ![h] = Idle] \in Checks
  BY <1>1, <1>3 DEF Checks
<1>11. ASSUME NEW h \in Handler, Expire(h) PROVE Typed
  <2>1. EXPIRE \in Counters
    <3>1. CASE EXPIRE = {}
      BY <3>1 DEF Counters
    <3>2. ASSUME NEW n \in 1 .. MaxCount, EXPIRE = {[count |-> n, ttl |-> {W}]}
          PROVE  EXPIRE \in Counters
      <4>1. {W} \in Ttls
        BY WType DEF Ttls
      <4>2. [count |-> n, ttl |-> {W}] \in [count : 1 .. MaxCount, ttl : Ttls]
        BY <4>1
      <4>3. QED BY <3>2, <4>2 DEF Counters
    <3>3. QED BY <1>1, <1>2, <3>1, <3>2, ExpireOf
  <2>2. QED BY <1>1, <1>9, <1>11, <2>1 DEF Expire
<1>12. ASSUME NEW h \in Handler, ExpireFails(h) PROVE Typed
  BY <1>1, <1>5, <1>9, <1>12 DEF ExpireFails
<1>13. ASSUME NEW h \in Handler, Ttl(h) PROVE Typed
  BY <1>1, <1>10, <1>13 DEF Ttl
<1>14. ASSUME NEW h \in Handler, Vanish(h) PROVE Typed
  <2>1. orphan' \in BOOLEAN
    BY <1>14, Zenon DEF Vanish
  <2>2. QED BY <1>1, <1>5, <1>10, <1>14, <2>1 DEF Vanish
<1>15. CASE RedisTick
  <2>1. counter' \in Counters
    <3>1. ASSUME NEW n \in 1 .. MaxCount, NEW t \in 2 .. W, counter' = {[count |-> n, ttl |-> {t - 1}]}
          PROVE  counter' \in Counters
      <4>1. {t - 1} \in Ttls
        BY WType DEF Ttls
      <4>2. [count |-> n, ttl |-> {t - 1}] \in [count : 1 .. MaxCount, ttl : Ttls]
        BY <4>1
      <4>3. QED BY <3>1, <4>2 DEF Counters
    <3>2. CASE counter' = {}
      BY <3>2 DEF Counters
    <3>3. QED BY <1>1, <1>2, <1>15, <3>1, <3>2, TickOf
  <2>2. QED BY <1>1, <1>15, <2>1 DEF RedisTick
<1>16. CASE UNCHANGED redisVars
  BY <1>1, <1>16 DEF redisVars
<1> HIDE DEF Typed
<1>17. QED BY <1>7, <1>8, <1>11, <1>12, <1>13, <1>14, <1>15, <1>16 DEF NextRedis

-----------------------------------------------------------------------------
(***************************************************************************)
(* What bounds the burst.  The counter was made at most j ticks ago: what  *)
(* passed since then is within its count, what passed before is at most    *)
(* one limit, and its time to live ends no sooner than a window after it   *)
(* was made.  With no counter, nothing has passed in this tick.            *)
(***************************************************************************)
Before(p, j) == Recent(p, W, W) <= Recent(p, W, j) + limit

Covered(n, t, p, j) ==
    /\ Recent(p, W, j) <= Capped(n)
    /\ \A x \in t : j >= W - x
    /\ Before(p, j)

RedisBurst(c, p) ==
    \/ c = {} /\ p[0] = 0 /\ Before(p, -1)
    \/ \E k \in c : c = {k} /\ \E j \in 0 .. W : Covered(k.count, k.ttl, p, j)

RedisInv ==
    /\ RedisTypeOK
    /\ counted \in [0 .. W -> Nat]
    /\ RedisBurst(counter, counted)

\* RedisBurst of a given counter.
LEMMA BurstOf ==
    ASSUME NEW n, NEW t, NEW p
    PROVE  RedisBurst({[count |-> n, ttl |-> t]}, p) <=> \E j \in 0 .. W : Covered(n, t, p, j)
<1> DEFINE k == [count |-> n, ttl |-> t]
<1>1. k.count = n /\ k.ttl = t
  OBVIOUS
<1> HIDE DEF k
<1>2. RedisBurst({k}, p) <=> \E j \in 0 .. W : Covered(k.count, k.ttl, p, j)
  BY DEF RedisBurst
<1>3. QED BY <1>1, <1>2 DEF k

\* INCR makes the counter.
LEMMA BurstMade ==
    ASSUME NEW p \in [0 .. W -> Nat], RedisBurst({}, p)
    PROVE  /\ RedisBurst({[count |-> 1, ttl |-> {}]}, Passing(0, p))
           /\ RedisBurst({[count |-> 1, ttl |-> {}]}, p)
<1>1. W \in Nat \ {0} /\ limit \in Nat /\ p[0] = 0 /\ Before(p, -1)
  BY WType, LimitAssumption DEF RedisBurst
<1>2. Capped(0) = 0 /\ Capped(1) \in Nat
  BY <1>1 DEF Capped
<1>3. Recent(p, W, -1) = 0
  BY <1>1, RecentFacts
<1>4. Recent(p, W, 0) = 0
  <2>1. \A j \in 0 .. W : j <= 0 => p[j] = 0
    BY <1>1
  <2>2. QED BY <1>1, <2>1, RecentFacts
<1>5. Recent(p, W, W) \in Nat /\ Recent(p, W, W) <= limit
  <2>1. Recent(p, W, W) \in Nat
    BY <1>1, RecentFacts
  <2>2. QED BY <1>1, <1>3, <2>1 DEF Before
<1> DEFINE q == Passing(0, p)
<1>6. ASSUME NEW x \in Int, x >= 0
      PROVE  Recent(q, W, x) = (Recent(p, W, x) + Capped(0 + 1)) - Capped(0)
  BY <1>1, <1>6, CountedRecent
<1> HIDE DEF q
<1>7. 0 + 1 = 1 /\ W \in Int /\ W >= 0
  BY <1>1
<1>8. Recent(q, W, 0) = Capped(1)
  BY <1>2, <1>4, <1>6, <1>7
<1>9. Recent(q, W, W) = Recent(p, W, W) + Capped(1)
  BY <1>2, <1>5, <1>6, <1>7
<1>10. Covered(1, {}, q, 0)
  BY <1>1, <1>2, <1>5, <1>8, <1>9 DEF Covered, Before
<1>11. Covered(1, {}, p, 0)
  BY <1>1, <1>2, <1>4, <1>5 DEF Covered, Before
<1>12. 0 \in 0 .. W
  BY <1>1
<1>13. RedisBurst({[count |-> 1, ttl |-> {}]}, q)
  BY <1>10, <1>12, BurstOf
<1>14. RedisBurst({[count |-> 1, ttl |-> {}]}, p)
  BY <1>11, <1>12, BurstOf
<1>15. QED BY <1>13, <1>14 DEF q

\* INCR and EXPIRE of a counter.
LEMMA BurstCounted ==
    ASSUME NEW p \in [0 .. W -> Nat], NEW n \in Nat, NEW t,
           RedisBurst({[count |-> n, ttl |-> t]}, p)
    PROVE  /\ RedisBurst({[count |-> n + 1, ttl |-> t]}, Passing(n, p))
           /\ RedisBurst({[count |-> n + 1, ttl |-> t]}, p)
           /\ RedisBurst({[count |-> n, ttl |-> {W}]}, p)
<1>1. W \in Nat \ {0} /\ limit \in Nat
  BY WType, LimitAssumption
<1>2. Capped(n) \in Nat /\ Capped(n + 1) \in Nat /\ Capped(n) <= Capped(n + 1)
  BY <1>1 DEF Capped
<1>4. ASSUME NEW x \in Int
      PROVE  /\ x >= 0 =>
                   Recent(Passing(n, p), W, x) = (Recent(p, W, x) + Capped(n + 1)) - Capped(n)
             /\ Recent(p, W, x) \in Nat
  BY <1>1, CountedRecent
<1>3. PICK j \in 0 .. W : Covered(n, t, p, j)
  BY BurstOf
<1> DEFINE q == Passing(n, p)
<1>0. j \in Int /\ j >= 0 /\ W \in Int /\ W >= 0
  BY <1>1
<1>5. /\ Recent(q, W, j) = (Recent(p, W, j) + Capped(n + 1)) - Capped(n)
      /\ Recent(p, W, j) \in Nat
  BY <1>0, <1>4
<1>6. /\ Recent(q, W, W) = (Recent(p, W, W) + Capped(n + 1)) - Capped(n)
      /\ Recent(p, W, W) \in Nat
  BY <1>0, <1>4
<1> HIDE DEF q
<1>7. Covered(n + 1, t, q, j)
  BY <1>1, <1>2, <1>3, <1>5, <1>6 DEF Covered, Before
<1>8. Covered(n + 1, t, p, j)
  BY <1>1, <1>2, <1>3, <1>5, <1>6 DEF Covered, Before
<1>9. Covered(n, {W}, p, j)
  BY <1>1, <1>3 DEF Covered, Before
<1>10. RedisBurst({[count |-> n + 1, ttl |-> t]}, q)
  BY <1>7, BurstOf
<1>11. RedisBurst({[count |-> n + 1, ttl |-> t]}, p)
  BY <1>8, BurstOf
<1>12. RedisBurst({[count |-> n, ttl |-> {W}]}, p)
  BY <1>9, BurstOf
<1>13. QED BY <1>10, <1>11, <1>12 DEF q

\* How the counts of a covered period age.
LEMMA BeforeAges ==
    ASSUME NEW p \in [0 .. W -> Nat], NEW j \in (-1) .. W, Before(p, j)
    PROVE  /\ j < W => /\ Recent(Aged(p, W), W, j + 1) = Recent(p, W, j)
                       /\ Before(Aged(p, W), j + 1)
           /\ j = -1 => Before(Aged(p, W), -1)
           /\ j = W => /\ Recent(Aged(p, W), W, W) <= Recent(p, W, W)
                       /\ Before(Aged(p, W), W)
           /\ j >= W - 1 => Recent(Aged(p, W), W, W) <= Recent(p, W, j)
<1> DEFINE q == Aged(p, W)
<1>1. W \in Nat \ {0} /\ limit \in Nat /\ W \in Int /\ -1 \in Int /\ j \in Int
  BY WType, LimitAssumption
<1>2. q \in [0 .. W -> Nat] /\ Recent(q, W, W) <= Recent(p, W, W)
  BY <1>1, RecentAges
<1>3. j < W => Recent(q, W, j + 1) = Recent(p, W, j)
  BY <1>1, RecentAges
<1>4. Recent(q, W, j + 1) <= Recent(p, W, j)
  BY <1>1, RecentAges
<1> HIDE DEF q
<1>5. Recent(q, W, W) \in Nat /\ Recent(p, W, W) \in Nat
  BY <1>1, <1>2, RecentFacts
<1>6. Recent(p, W, j) \in Nat
  BY <1>1, RecentFacts
<1>7. Recent(q, W, -1) = 0 /\ Recent(p, W, -1) = 0
  <2>1. -1 < 0
    OBVIOUS
  <2>2. Recent(q, W, -1) = 0
    BY <1>1, <1>2, <2>1, RecentFacts
  <2>3. Recent(p, W, -1) = 0
    BY <1>1, <2>1, RecentFacts
  <2>4. QED BY <2>2, <2>3
<1>8. j = W => Recent(q, W, j + 1) = Recent(q, W, W)
  <2> DEFINE y == j + 1
  <2>1. y \in Int /\ (j = W => y >= W)
    BY <1>1
  <2> HIDE DEF y
  <2>2. j = W => Recent(q, W, y) = Recent(q, W, W)
    BY <1>1, <1>2, <2>1, RecentFacts
  <2>3. QED BY <2>2 DEF y
<1>9. j >= W - 1 => j = W \/ j + 1 = W
  BY <1>1
<1>10. Recent(p, W, W) <= Recent(p, W, j) + limit
  BY DEF Before
<1>11. j >= W - 1 => Recent(q, W, W) <= Recent(p, W, j)
  <2>1. CASE j = W
    BY <1>4, <1>8, <2>1
  <2>2. CASE j + 1 = W
    BY <1>4, <2>2
  <2>3. QED BY <1>9, <2>1, <2>2
<1>12. j < W => Before(q, j + 1)
  <2>1. SUFFICES ASSUME j < W PROVE Recent(q, W, W) <= Recent(q, W, j + 1) + limit
    BY DEF Before
  <2>2. Recent(q, W, j + 1) = Recent(p, W, j)
    BY <1>3, <2>1
  <2>3. QED BY <1>1, <1>2, <1>5, <1>6, <1>10, <2>2
<1>13. j = -1 => Before(q, -1)
  BY <1>1, <1>2, <1>5, <1>7, <1>10 DEF Before
<1>14. Before(q, W)
  BY <1>1, <1>5 DEF Before
<1>15. QED BY <1>2, <1>3, <1>11, <1>12, <1>13, <1>14 DEF q

\* A tick, for each way the counter can go.
LEMMA BurstTicks ==
    ASSUME NEW p \in [0 .. W -> Nat], NEW n \in Nat
    PROVE  /\ RedisBurst({}, p) => RedisBurst({}, Aged(p, W))
           /\ RedisBurst({[count |-> n, ttl |-> {}]}, p)
                => RedisBurst({[count |-> n, ttl |-> {}]}, Aged(p, W))
           /\ RedisBurst({[count |-> n, ttl |-> {1}]}, p) => RedisBurst({}, Aged(p, W))
           /\ \A t \in 2 .. W : RedisBurst({[count |-> n, ttl |-> {t}]}, p)
                => RedisBurst({[count |-> n, ttl |-> {t - 1}]}, Aged(p, W))
<1> DEFINE q == Aged(p, W)
<1>1. W \in Nat \ {0} /\ limit \in Nat
  BY WType, LimitAssumption
<1>2. q \in [0 .. W -> Nat] /\ q[0] = 0
  BY <1>1 DEF Aged
<1>3. ASSUME NEW j \in (-1) .. W, Before(p, j)
      PROVE  /\ j < W => Recent(q, W, j + 1) = Recent(p, W, j) /\ Before(q, j + 1)
             /\ j = -1 => Before(q, -1)
             /\ j = W => Recent(q, W, W) <= Recent(p, W, W) /\ Before(q, W)
             /\ j >= W - 1 => Recent(q, W, W) <= Recent(p, W, j)
  BY <1>3, BeforeAges
<1>0. ASSUME NEW f \in [0 .. W -> Nat], NEW x \in Int PROVE Recent(f, W, x) \in Nat
  BY <1>1, RecentFacts
<1> HIDE DEF q
<1>11. Recent(q, W, W) \in Nat /\ Recent(p, W, W) \in Nat
  <2>1. W \in Int
    BY <1>1
  <2>2. QED BY <1>0, <1>2, <2>1
<1>4. ASSUME RedisBurst({}, p) PROVE RedisBurst({}, q)
  <2>1. -1 \in (-1) .. W /\ Before(p, -1)
    BY <1>1, <1>4 DEF RedisBurst
  <2>2. QED BY <1>2, <1>3, <2>1 DEF RedisBurst
<1>5. Capped(n) \in Nat /\ Capped(n) <= limit
  BY CappedType
\* The next j covers the count, when it covers the next times to live.
<1>6. ASSUME NEW t, NEW t2, NEW j \in 0 .. W, Covered(n, t, p, j),
             \A x \in t2 : x + 1 \in t /\ x \in 1 .. W
      PROVE  RedisBurst({[count |-> n, ttl |-> t2]}, q)
  <2>1. /\ j \in (-1) .. W /\ Before(p, j) /\ Recent(p, W, j) <= Capped(n)
        /\ \A x \in t : j >= W - x
    BY <1>1, <1>6 DEF Covered
  <2>2. CASE j < W
    <3> DEFINE i == j + 1
    <3>1. i \in 0 .. W /\ i = j + 1
      BY <1>1, <2>2
    <3>2. Recent(q, W, i) <= Capped(n) /\ Before(q, i)
      BY <1>3, <2>1, <2>2
    <3> HIDE DEF i
    <3>3. \A x \in t2 : i >= W - x
      <4>1. SUFFICES ASSUME NEW x \in t2 PROVE i >= W - x
        OBVIOUS
      <4>2. x + 1 \in t /\ x \in 1 .. W
        BY <1>6
      <4>3. j >= W - (x + 1)
        BY <2>1, <4>2
      <4>4. QED BY <1>1, <3>1, <4>2, <4>3
    <3>4. Covered(n, t2, q, i)
      BY <3>2, <3>3 DEF Covered
    <3>5. QED BY <3>1, <3>4, BurstOf
  <2>3. CASE j = W
    <3>2. Recent(q, W, W) <= Capped(n) /\ Before(q, W)
      BY <1>3, <1>5, <1>11, <2>1, <2>3
    <3>3. \A x \in t2 : W >= W - x
      BY <1>1, <1>6
    <3>4. Covered(n, t2, q, W) /\ W \in 0 .. W
      BY <1>1, <3>2, <3>3 DEF Covered
    <3>5. QED BY <3>4, BurstOf
  <2>4. QED BY <1>1, <2>2, <2>3
<1>7. ASSUME RedisBurst({[count |-> n, ttl |-> {}]}, p)
      PROVE  RedisBurst({[count |-> n, ttl |-> {}]}, q)
  <2>1. PICK j \in 0 .. W : Covered(n, {}, p, j)
    BY <1>7, BurstOf
  <2>2. QED BY <1>6, <2>1
<1>8. ASSUME NEW t \in 2 .. W, RedisBurst({[count |-> n, ttl |-> {t}]}, p)
      PROVE  RedisBurst({[count |-> n, ttl |-> {t - 1}]}, q)
  <2>1. PICK j \in 0 .. W : Covered(n, {t}, p, j)
    BY <1>8, BurstOf
  <2>2. \A x \in {t - 1} : x + 1 \in {t} /\ x \in 1 .. W
    BY <1>1
  <2>3. QED BY <1>6, <2>1, <2>2
<1>9. ASSUME RedisBurst({[count |-> n, ttl |-> {1}]}, p)
      PROVE  RedisBurst({}, q)
  <2>1. PICK j \in 0 .. W : Covered(n, {1}, p, j)
    BY <1>9, BurstOf
  <2>2. /\ j \in (-1) .. W /\ j >= W - 1 /\ Before(p, j)
        /\ Recent(p, W, j) <= Capped(n)
    BY <1>1, <2>1 DEF Covered
  <2>3. Recent(q, W, W) <= Recent(p, W, j)
    BY <1>3, <2>2
  <2>4. Recent(q, W, W) \in Nat
    BY <1>0, <1>1, <1>2
  <2>5. Recent(p, W, j) \in Nat
    BY <1>0
  <2>6. -1 \in Int /\ -1 < 0
    OBVIOUS
  <2>7. Recent(q, W, -1) = 0
    BY <1>1, <1>2, <2>6, RecentFacts
  <2>8. Before(q, -1)
    BY <1>1, <1>5, <2>2, <2>3, <2>4, <2>5, <2>7 DEF Before
  <2>9. QED BY <1>2, <2>8 DEF RedisBurst
<1>10. QED BY <1>4, <1>7, <1>8, <1>9 DEF q

\* Every step of the distributed limiter keeps the bounds of the burst.
LEMMA RedisBurstStep ==
    ASSUME RedisInv, [NextRedis]_redisVars
    PROVE  counted' \in [0 .. W -> Nat] /\ RedisBurst(counter', counted')
<1>1. /\ counter \in Counters /\ counted \in [0 .. W -> Nat]
      /\ RedisBurst(counter, counted)
  BY RedisTyped DEF RedisInv
<1>2. MaxCount \in Nat /\ W \in Nat \ {0} /\ limit \in Nat
  BY WType, LimitAssumption, BoundsAssumption
<1>3. RedisBurst(INCR, counted)
  <2>1. CASE counter = {} /\ INCR = {[count |-> 1, ttl |-> {}]}
    BY <1>1, <2>1, BurstMade
  <2>2. ASSUME NEW n \in 1 .. MaxCount, NEW t \in Ttls, counter = {[count |-> n, ttl |-> t]},
               INCR = {[count |-> n + 1, ttl |-> t]}
        PROVE  RedisBurst(INCR, counted)
    <3>1. n \in Nat /\ RedisBurst({[count |-> n, ttl |-> t]}, counted)
      BY <1>1, <2>2
    <3>2. RedisBurst({[count |-> n + 1, ttl |-> t]}, counted)
      BY <1>1, <3>1, BurstCounted
    <3>3. QED BY <2>2, <3>2
  <2>3. QED BY <1>1, <1>2, <2>1, <2>2, IncrOf
<1>4. ASSUME NEW h \in Handler, Incr(h)
      PROVE  counted' \in [0 .. W -> Nat] /\ RedisBurst(counter', counted')
  <2>1. /\ counter' = INCR
        /\ counted' = IF Count(INCR) <= limit THEN Bumped(counted)
                      ELSE counted
    BY <1>4 DEF Incr, Bumped
  <2>2. CASE counter = {} /\ INCR = {[count |-> 1, ttl |-> {}]} /\ Count(INCR) = 1
    <3>1. counted' = Passing(0, counted)
      BY <2>1, <2>2 DEF Passing
    <3>2. 0 \in Nat /\ 0 \in Int
      OBVIOUS
    <3>3. Passing(0, counted) \in [0 .. W -> Nat]
      BY <1>1, <1>2, <3>2, CountedRecent
    <3>4. QED BY <1>1, <2>1, <2>2, <3>1, <3>3, BurstMade
  <2>3. ASSUME NEW n \in 1 .. MaxCount, NEW t \in Ttls, counter = {[count |-> n, ttl |-> t]},
               INCR = {[count |-> n + 1, ttl |-> t]}, Count(INCR) = n + 1
        PROVE  counted' \in [0 .. W -> Nat] /\ RedisBurst(counter', counted')
    <3>1. counted' = Passing(n, counted)
      BY <2>1, <2>3 DEF Passing
    <3>2. n \in Nat /\ 0 \in Int
      OBVIOUS
    <3>3. Passing(n, counted) \in [0 .. W -> Nat]
      BY <1>1, <1>2, <3>2, CountedRecent
    <3>4. RedisBurst({[count |-> n, ttl |-> t]}, counted)
      BY <1>1, <2>3
    <3>5. RedisBurst({[count |-> n + 1, ttl |-> t]}, Passing(n, counted))
      BY <1>1, <3>2, <3>4, BurstCounted
    <3>6. QED BY <2>1, <2>3, <3>1, <3>3, <3>5
  <2>4. QED BY <1>1, <1>2, <2>2, <2>3, IncrOf
<1>5. ASSUME NEW h \in Handler, NEW done \in BOOLEAN, IncrFails(h, done)
      PROVE  counted' \in [0 .. W -> Nat] /\ RedisBurst(counter', counted')
  BY <1>1, <1>3, <1>5 DEF IncrFails
<1>6. ASSUME NEW h \in Handler, Expire(h)
      PROVE  counted' \in [0 .. W -> Nat] /\ RedisBurst(counter', counted')
  <2>1. counter' = EXPIRE /\ counted' = counted
    BY <1>6 DEF Expire
  <2>2. ASSUME NEW n \in 1 .. MaxCount, NEW t \in Ttls, counter = {[count |-> n, ttl |-> t]},
               EXPIRE = {[count |-> n, ttl |-> {W}]}
        PROVE  RedisBurst(EXPIRE, counted)
    <3>1. n \in Nat /\ RedisBurst({[count |-> n, ttl |-> t]}, counted)
      BY <1>1, <2>2
    <3>2. RedisBurst({[count |-> n, ttl |-> {W}]}, counted)
      BY <1>1, <3>1, BurstCounted
    <3>3. QED BY <2>2, <3>2
  <2>3. QED BY <1>1, <1>2, <2>1, <2>2, ExpireOf
<1>7. CASE RedisTick
  <2>1. counted' = Aged(counted, W)
    BY <1>7, WType DEF RedisTick, Aged
  <2>2. Aged(counted, W) \in [0 .. W -> Nat]
    BY <1>1, <1>2 DEF Aged
  <2>3. CASE counter = {} /\ counter' = {}
    <3>1. 0 \in Nat
      OBVIOUS
    <3>2. QED BY <1>1, <2>1, <2>2, <2>3, <3>1, BurstTicks
  <2>4. ASSUME NEW n \in 1 .. MaxCount,
               \/ counter = {[count |-> n, ttl |-> {}]} /\ counter' = counter
               \/ counter = {[count |-> n, ttl |-> {1}]} /\ counter' = {}
               \/ \E t \in 2 .. W : /\ counter = {[count |-> n, ttl |-> {t}]}
                                     /\ counter' = {[count |-> n, ttl |-> {t - 1}]}
        PROVE  RedisBurst(counter', counted')
    <3>1. n \in Nat
      OBVIOUS
    <3>2. QED BY <1>1, <2>1, <2>4, <3>1, BurstTicks
  <2>5. QED BY <1>1, <1>2, <1>7, <2>1, <2>2, <2>3, <2>4, TickOf
<1>8. ASSUME UNCHANGED <<counter, counted>>
      PROVE  counted' \in [0 .. W -> Nat] /\ RedisBurst(counter', counted')
  BY <1>1, <1>8
<1>9. ASSUME NEW h \in Handler, ExpireFails(h) \/ Ttl(h) \/ Vanish(h)
      PROVE  UNCHANGED <<counter, counted>>
  BY <1>9 DEF ExpireFails, Ttl, Vanish
<1>10. CASE UNCHANGED redisVars
  BY <1>8, <1>10 DEF redisVars
<1>11. QED BY <1>4, <1>5, <1>6, <1>7, <1>8, <1>9, <1>10 DEF NextRedis

\* The sum over a whole period is its recent count.
LEMMA RedisTotal ==
    ASSUME counted \in [0 .. W -> Nat]
    PROVE  SumFunction(counted) = Recent(counted, W, W)
<1>1. DOMAIN counted = 0 .. W /\ Upto(W, W) = 0 .. W
  BY WType DEF Upto
<1>2. SumFunction(counted) = SumFunctionOnSet(counted, DOMAIN counted)
  BY DEF SumFunction, SumFunctionOnSet, FoldFunction
<1>3. QED BY <1>1, <1>2 DEF Recent

\* The distributed limiter starts in RedisInv.
LEMMA RedisStart ==
    ASSUME InitRedis
    PROVE  RedisInv
<1>1. W \in Nat \ {0} /\ limit \in Nat /\ RedisSlots = 0 .. W
  BY WType, LimitAssumption
<1>2. /\ counter = {} /\ command = [h \in Handler |-> Idle] /\ faults = 0
      /\ counted = [i \in 0 .. W |-> 0] /\ orphan = FALSE
  BY <1>1 DEF InitRedis
<1>3. RedisTypeOK
  <2>1. command \in Checks
    BY <1>2, BoundsAssumption DEF Checks, Idle
  <2>2. counter \in Counters
    BY <1>2 DEF Counters
  <2>3. faults \in 0 .. MaxFaults
    BY <1>2, BoundsAssumption
  <2>4. orphan \in BOOLEAN
    BY <1>2, Zenon
  <2>5. QED BY <2>1, <2>2, <2>3, <2>4, RedisTyped, Zenon
<1>4. counted \in [0 .. W -> Nat] /\ \A j \in 0 .. W : counted[j] = 0
  BY <1>2
<1>5. W \in Int /\ 0 \in 0 .. W
  BY <1>1
<1>6. Recent(counted, W, W) = 0
  BY <1>1, <1>4, <1>5, RecentFacts
<1>7. Recent(counted, W, -1) \in Nat
  <2>1. -1 \in Int
    OBVIOUS
  <2>2. QED BY <1>1, <1>4, <2>1, RecentFacts
<1>8. Before(counted, -1)
  BY <1>1, <1>6, <1>7 DEF Before
<1>9. RedisBurst(counter, counted)
  BY <1>2, <1>4, <1>5, <1>8 DEF RedisBurst
<1>10. QED BY <1>3, <1>4, <1>9 DEF RedisInv

\* RedisInv bounds the burst.
LEMMA RedisBurstHolds == ASSUME RedisInv PROVE RedisBurstBounded
<1>1. W \in Nat \ {0} /\ limit \in Nat /\ counted \in [0 .. W -> Nat]
  BY WType, LimitAssumption DEF RedisInv
<1>0. ASSUME NEW x \in Int PROVE Recent(counted, W, x) \in Nat
  BY <1>1, RecentFacts
<1>2. SUFFICES Recent(counted, W, W) <= limit + limit
  BY <1>1, <1>2, RedisTotal DEF RedisBurstBounded
<1>3. ASSUME NEW j \in (-1) .. W, Before(counted, j), Recent(counted, W, j) <= limit
      PROVE  Recent(counted, W, W) <= limit + limit
  <2>1. W \in Int /\ j \in Int
    BY <1>1
  <2>2. Recent(counted, W, W) \in Nat /\ Recent(counted, W, j) \in Nat
    BY <1>0, <2>1
  <2>3. QED BY <1>1, <1>3, <2>2 DEF Before
<1>4. CASE counter = {}
  <2>1. Before(counted, -1)
    BY <1>4 DEF RedisInv, RedisBurst
  <2>2. Recent(counted, W, -1) = 0
    <3>1. -1 \in Int /\ -1 < 0
      OBVIOUS
    <3>2. QED BY <1>1, <3>1, RecentFacts
  <2>3. -1 \in (-1) .. W
    BY <1>1
  <2>4. QED BY <1>1, <1>3, <2>1, <2>2, <2>3
<1>5. CASE counter # {}
  <2>1. PICK k \in counter : \E j \in 0 .. W : Covered(k.count, k.ttl, counted, j)
    BY <1>5 DEF RedisInv, RedisBurst
  <2>2. PICK j \in 0 .. W : Covered(k.count, k.ttl, counted, j)
    BY <2>1
  <2>3. k.count \in Nat
    <3>1. counter \in Counters
      BY RedisTyped DEF RedisInv
    <3>2. QED BY <2>1, <3>1 DEF Counters
  <2>4. Capped(k.count) \in Nat /\ Capped(k.count) <= limit
    BY <2>3, CappedType
  <2>5. Recent(counted, W, j) \in Nat /\ j \in (-1) .. W
    BY <1>0, <1>1
  <2>6. QED BY <1>1, <1>3, <2>2, <2>4, <2>5 DEF Covered
<1>6. QED BY <1>4, <1>5

\* The distributed limiter keeps its types: one counter at most, with a positive
\* count and a time to live of at most one window.
THEOREM RedisTypes == SpecRedis => []RedisTypeOK
<1>1. InitRedis => RedisTypeOK
  BY RedisStart DEF RedisInv
<1>2. RedisTypeOK /\ [NextRedis]_redisVars => RedisTypeOK'
  BY RedisTypeStep
<1>3. QED BY <1>1, <1>2, PTL DEF SpecRedis

\* Whatever the number of gateway processes, the order of their commands and the
\* faults, the distributed limiter lets at most two windows' worth of counted
\* requests through in any period as long as a window.
THEOREM RedisBurstsAreBounded == SpecRedis => []RedisBurstBounded
<1>1. InitRedis => RedisInv
  BY RedisStart
<1>2. RedisInv /\ [NextRedis]_redisVars => RedisInv'
  <2>1. SUFFICES ASSUME RedisInv, [NextRedis]_redisVars PROVE RedisInv'
    OBVIOUS
  <2>2. RedisTypeOK'
    BY <2>1, RedisTypeStep DEF RedisInv
  <2>3. counted' \in [0 .. W -> Nat] /\ RedisBurst(counter', counted')
    BY <2>1, RedisBurstStep
  <2>4. RedisBurst(counter, counted)'
    BY <2>3 DEF RedisBurst, Covered, Before, W
  <2>5. QED BY <2>2, <2>3, <2>4 DEF RedisInv
<1>3. RedisInv => RedisBurstBounded
  BY RedisBurstHolds
<1>4. QED BY <1>1, <1>2, <1>3, PTL DEF SpecRedis

\* Every step of the distributed limiter keeps the expiry of its counter, but
\* for a fault.
LEMMA ExpiryStep ==
    ASSUME RedisTypeOK, ExpiryLostOnlyByFault, [NextRedis]_redisVars
    PROVE  ExpiryLostOnlyByFault'
<1> DEFINE Setting == \E h \in Handler : command[h].pc = "expire"
           SettingNext == \E h \in Handler : command'[h].pc = "expire"
           Bare(c) == \E k \in c : k.ttl = {}
<1>1. counter \in Counters /\ command \in Checks /\ MaxCount \in Nat
  BY RedisTyped, BoundsAssumption
<1>2. Bare(counter) => orphan \/ Setting
  BY Zenon DEF ExpiryLostOnlyByFault
<1>3. SUFFICES Bare(counter') => orphan' \/ SettingNext
  BY <1>3, Zenon DEF ExpiryLostOnlyByFault
\* A step that leaves every check about to set an expiry keeps its witness.
<1>4. ASSUME NEW h \in Handler, command[h].pc # "expire",
             \A g \in Handler \ {h} : command'[g] = command[g]
      PROVE  Setting => SettingNext
  BY <1>4
<1>5. ASSUME Bare(INCR) PROVE counter = {} \/ Bare(counter)
  BY <1>1, <1>5, IncrOf
<1>6. ASSUME NEW h \in Handler, Incr(h) PROVE Bare(counter') => orphan' \/ SettingNext
  <2> DEFINE n == Count(INCR)
             c == [pc |-> IF n = 1 THEN "expire" ELSE "ttl", count |-> n]
  <2>1. /\ command[h] = Idle /\ counter' = INCR
        /\ command' = [command EXCEPT ![h] = c] /\ orphan' = orphan
    BY <1>6 DEF Incr
  <2>2. CASE counter = {}
    <3>1. c.pc = "expire"
      BY <1>1, <2>2, IncrOf
    <3> HIDE DEF c
    <3>2. command'[h].pc = "expire"
      BY <1>1, <2>1, <3>1 DEF Checks
    <3>3. QED BY <3>2
  <2>3. CASE counter # {}
    <3> HIDE DEF c
    <3>1. command[h].pc # "expire"
      BY <2>1 DEF Idle
    <3>2. \A g \in Handler \ {h} : command'[g] = command[g]
      BY <1>1, <2>1 DEF Checks
    <3>3. Setting => SettingNext
      BY <1>4, <3>1, <3>2
    <3>4. Bare(counter') => Bare(counter)
      BY <1>5, <2>1, <2>3
    <3> HIDE DEF Setting, SettingNext, Bare
    <3>5. QED BY <1>2, <2>1, <3>3, <3>4, Zenon
  <2>4. QED BY <2>2, <2>3
<1>7. ASSUME NEW h \in Handler, NEW done \in BOOLEAN, IncrFails(h, done)
      PROVE  Bare(counter') => orphan' \/ SettingNext
  <2>1. /\ counter' = IF done THEN INCR ELSE counter
        /\ orphan' = (orphan \/ (done /\ counter = {})) /\ command' = command
    BY <1>7, Zenon DEF IncrFails
  <2>2. Setting => SettingNext
    BY <2>1
  <2> HIDE DEF Setting, SettingNext
  <2>3. CASE done
    <3>1. counter' = INCR
      BY <2>1, <2>3, Zenon
    <3>2. Bare(counter') => counter = {} \/ Bare(counter)
      BY <1>5, <3>1, Zenon
    <3> HIDE DEF Bare
    <3>3. QED BY <1>2, <2>1, <2>2, <2>3, <3>2, Zenon
  <2>4. CASE ~done
    <3>1. counter' = counter
      BY <2>1, <2>4, Zenon
    <3>2. Bare(counter') => Bare(counter)
      BY <3>1, Zenon
    <3> HIDE DEF Bare
    <3>3. QED BY <1>2, <2>1, <2>2, <3>2, Zenon
  <2>5. QED BY <2>3, <2>4, Zenon
<1>8. ASSUME NEW h \in Handler, Expire(h) PROVE ~Bare(counter')
  <2>1. counter' = EXPIRE
    BY <1>8 DEF Expire
  <2>2. QED BY <1>1, <2>1, ExpireOf
<1>9. ASSUME NEW h \in Handler, ExpireFails(h) PROVE orphan'
  BY <1>9, Zenon DEF ExpireFails
<1>10. ASSUME NEW h \in Handler, Ttl(h) \/ Vanish(h)
       PROVE  Bare(counter') => orphan' \/ SettingNext
  <2>1. counter' = counter /\ command' = [command EXCEPT ![h] = Idle]
    BY <1>10 DEF Ttl, Vanish
  <2>2. \A g \in Handler \ {h} : command'[g] = command[g]
    BY <1>1, <2>1 DEF Checks
  <2>3. command[h].pc # "expire" => (Setting => SettingNext)
    BY <1>4, <2>2
  <2>4. orphan' = orphan \/ orphan' = (orphan \/ command[h].pc = "expire")
    BY <1>10, Zenon DEF Ttl, Vanish
  <2>5. command[h].pc = "expire" => orphan'
    <3>1. CASE Ttl(h)
      BY <3>1 DEF Ttl
    <3>2. CASE Vanish(h)
      BY <3>2, Zenon DEF Vanish
    <3>3. QED BY <1>10, <3>1, <3>2
  <2>6. Bare(counter') => Bare(counter)
    BY <2>1
  <2> HIDE DEF Setting, SettingNext, Bare
  <2>7. QED BY <1>2, <2>3, <2>4, <2>5, <2>6, Zenon
<1>11. CASE RedisTick
  <2>1. Bare(counter') => Bare(counter)
    BY <1>1, <1>11, TickOf
  <2>2. command' = command /\ orphan' = orphan
    BY <1>11 DEF RedisTick
  <2>3. Setting => SettingNext
    BY <2>2
  <2> HIDE DEF Setting, SettingNext, Bare
  <2>4. QED BY <1>2, <2>1, <2>2, <2>3, Zenon
<1>12. CASE UNCHANGED redisVars
  <2>1. counter' = counter /\ command' = command /\ orphan' = orphan
    BY <1>12 DEF redisVars
  <2>2. (Setting => SettingNext) /\ (Bare(counter') => Bare(counter))
    BY <2>1
  <2> HIDE DEF Setting, SettingNext, Bare
  <2>3. QED BY <1>2, <2>1, <2>2, Zenon
<1> HIDE DEF Setting, SettingNext, Bare
<1>13. QED BY <1>6, <1>7, <1>8, <1>9, <1>10, <1>11, <1>12, Zenon DEF NextRedis

\* Whatever the order of the processes' commands, a counter without an expiry is
\* one whose first check is about to set it or met a fault.
THEOREM ExpiriesAreKept == SpecRedis => []ExpiryLostOnlyByFault
<1>1. InitRedis => ExpiryLostOnlyByFault
  BY DEF InitRedis, ExpiryLostOnlyByFault
<1>2. RedisTypeOK /\ ExpiryLostOnlyByFault /\ [NextRedis]_redisVars
        => ExpiryLostOnlyByFault'
  BY ExpiryStep
<1>3. QED BY <1>1, <1>2, RedisTypes, PTL DEF SpecRedis
=============================================================================
