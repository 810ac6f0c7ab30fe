-------------------------------- MODULE Sums --------------------------------
(***************************************************************************)
(* Sums over finite sets, SumFunctionOnSet(f, S) of module Functions: the  *)
(* recursion behind the operator is well defined, and a sum may be taken   *)
(* apart at any element, added term by term and cut down to its non-zero   *)
(* terms.  The library states such facts for an operator as a parameter,   *)
(* which the provers do not instantiate; here f is a function and every    *)
(* induction runs over a set.                                              *)
(***************************************************************************)
EXTENDS Functions, FiniteSetTheorems, TLAPS

\* CHOOSE picks a member of a set that has one.
LEMMA ChosenIsMember ==
  ASSUME NEW S, NEW x \in S
  PROVE  (CHOOSE y \in S : TRUE) \in S
BY Zenon

\* Induction over the subsets of a finite set.  Good is a set, for no installed
\* prover instantiates the predicate of FS_Induction.
LEMMA SubsetInduction ==
  ASSUME NEW S, IsFiniteSet(S), NEW Good,
         \A T \in SUBSET S : (\A U \in (SUBSET T) \ {T} : U \in Good) => T \in Good
  PROVE  \A T \in SUBSET S : T \in Good
<1> DEFINE C == (SUBSET S) \ Good
<1> SUFFICES ASSUME C # {} PROVE FALSE
  OBVIOUS
<1>1. IsWellFoundedOn(StrictSubsetOrdering(S), SUBSET S)
  <2>1. FiniteSubsetsOf(S) = SUBSET S
    BY FS_FiniteSubsetsOfFinite
  <2>2. IsWellFoundedOn(StrictSubsetOrdering(S), FiniteSubsetsOf(S))
    BY FS_StrictSubsetOrderingWellFounded
  <2> QED BY <2>1, <2>2, Zenon
<1>2. PICK T \in C : \A U \in C : ~(<<U, T>> \in StrictSubsetOrdering(S))
  <2>1. C \subseteq SUBSET S
    OBVIOUS
  <2> HIDE DEF C
  <2> QED BY <1>1, <2>1, WFMin
<1>3. \A U \in C : U \subseteq T => U = T
  BY <1>2 DEF StrictSubsetOrdering
<1> QED BY <1>3

\* The same over the numbers: a set of numbers has a least one.
LEMMA LeastNumber ==
  ASSUME NEW C \in SUBSET Nat, C # {}
  PROVE  \E n \in C : \A k \in C : n <= k
<1>1. PICK n \in C : \A k \in C : ~(<<k, n>> \in OpToRel(<, Nat))
  BY NatLessThanWellFounded, WFMin
<1>2. \A k \in C : <<k, n>> \in Nat \X Nat
  OBVIOUS
<1>3. \A k \in C : ~(k < n)
  BY <1>1, <1>2 DEF OpToRel
<1> QED BY <1>3

-----------------------------------------------------------------------------
\* The equation of the recursive function behind SumFunctionOnSet(f, S).
IsSum(g, f, D) ==
  g = [T \in D |-> IF T = {} THEN 0
                   ELSE LET x == CHOOSE y \in T : TRUE IN f[x] + g[T \ {x}]]
UpTo(n, S) == {T \in SUBSET S : Cardinality(T) <= n}

\* What the operator stands for.
LEMMA UnfoldSum ==
  ASSUME NEW f, NEW S
  PROVE  SumFunctionOnSet(f, S) = (CHOOSE g : IsSum(g, f, SUBSET S))[S]
BY Zenon DEF SumFunctionOnSet, FoldFunctionOnSet, MapThenFoldSet, IsSum

\* A function satisfies the equation on the sets of up to n elements.
LEMMA SumExistsUpTo ==
  ASSUME NEW f, NEW S, IsFiniteSet(S)
  PROVE  \A n \in Nat : \E g : IsSum(g, f, UpTo(n, S))
<1> DEFINE C == {n \in Nat : ~ \E g : IsSum(g, f, UpTo(n, S))}
<1> SUFFICES ASSUME C # {} PROVE FALSE
  OBVIOUS
<1>1. PICK n \in C : \A k \in C : n <= k
  BY LeastNumber
<1>2. \A T \in SUBSET S : IsFiniteSet(T) /\ Cardinality(T) \in Nat
  BY FS_Subset, FS_CardinalityType
<1>3. \A T \in SUBSET S : Cardinality(T) = 0 <=> T = {}
  BY <1>2, FS_EmptySet
<1>4. CASE n = 0
  <2>1. UpTo(0, S) = {{}}
    BY <1>2, <1>3 DEF UpTo
  <2>2. IsSum([T \in {{}} |-> 0], f, UpTo(0, S))
    BY <2>1 DEF IsSum
  <2> QED BY <1>1, <1>4, <2>2
<1>5. CASE n # 0
  <2>1. n - 1 \in Nat /\ n \in Nat
    BY <1>5, <1>1
  <2>2. PICK g : IsSum(g, f, UpTo(n - 1, S))
    BY <1>1, <2>1
  <2> DEFINE c(T) == CHOOSE y \in T : TRUE
             h == [T \in UpTo(n, S) |-> IF T = {} THEN 0 ELSE f[c(T)] + g[T \ {c(T)}]]
  <2>3. ASSUME NEW T \in UpTo(n, S), T # {}
        PROVE  T \ {c(T)} \in UpTo(n - 1, S)
    <3>1. c(T) \in T
      BY <2>3, ChosenIsMember
    <3> HIDE DEF c
    <3>2. Cardinality(T \ {c(T)}) = Cardinality(T) - 1
      BY <3>1, <1>2, FS_RemoveElement DEF UpTo
    <3> QED BY <3>2, <1>2, <2>1 DEF UpTo
  <2> HIDE DEF c
  <2>4. \A T \in UpTo(n - 1, S) : T \in UpTo(n, S) /\ h[T] = g[T]
    <3>1. \A T \in UpTo(n - 1, S) : T \in UpTo(n, S)
      BY <1>2, <2>1 DEF UpTo
    <3>2. g = [T \in UpTo(n - 1, S) |-> IF T = {} THEN 0 ELSE f[c(T)] + g[T \ {c(T)}]]
      BY <2>2, Zenon DEF IsSum, c
    <3> QED BY <3>1, <3>2
  <2>5. h = [T \in UpTo(n, S) |-> IF T = {} THEN 0 ELSE f[c(T)] + h[T \ {c(T)}]]
    BY <2>3, <2>4
  <2> HIDE DEF h
  <2>6. IsSum(h, f, UpTo(n, S))
    BY <2>5, Zenon DEF IsSum, c
  <2> QED BY <1>1, <2>6
<1> QED BY <1>4, <1>5

\* What CHOOSE picks for a recursive function satisfies its equation.
LEMMA SumExists ==
  ASSUME NEW f, NEW S, IsFiniteSet(S)
  PROVE  IsSum(CHOOSE g : IsSum(g, f, SUBSET S), f, SUBSET S)
<1>1. UpTo(Cardinality(S), S) = SUBSET S
  BY FS_Subset DEF UpTo
<1>2. Cardinality(S) \in Nat
  BY FS_CardinalityType
<1>3. \E g : IsSum(g, f, UpTo(Cardinality(S), S))
  BY <1>2, SumExistsUpTo
<1>4. \E g : IsSum(g, f, SUBSET S)
  BY <1>1, <1>3
<1> QED BY <1>4, Zenon

\* The value at a set does not depend on the set the recursion started from.
LEMMA SumUnique ==
  ASSUME NEW f, NEW S, IsFiniteSet(S), NEW T \in SUBSET S, NEW g, NEW h,
         IsSum(g, f, SUBSET S), IsSum(h, f, SUBSET T)
  PROVE  g[T] = h[T]
<1> DEFINE c(U) == CHOOSE y \in U : TRUE
           Good == {U \in SUBSET T : g[U] = h[U]}
<1>1. \A U \in SUBSET S : g[U] = IF U = {} THEN 0 ELSE f[c(U)] + g[U \ {c(U)}]
  BY DEF IsSum
<1>2. \A U \in SUBSET T : h[U] = IF U = {} THEN 0 ELSE f[c(U)] + h[U \ {c(U)}]
  BY DEF IsSum
<1>3. \A U \in SUBSET T : U # {} => c(U) \in U
  BY ChosenIsMember
<1> HIDE DEF c
<1>4. \A U \in SUBSET T : (\A V \in (SUBSET U) \ {U} : V \in Good) => U \in Good
  <2> SUFFICES ASSUME NEW U \in SUBSET T, \A V \in (SUBSET U) \ {U} : V \in Good
               PROVE  g[U] = h[U]
    OBVIOUS
  <2>1. CASE U = {}
    BY <2>1, <1>1, <1>2
  <2>2. CASE U # {}
    <3>1. U \ {c(U)} \in Good
      BY <1>3, <2>2
    <3> QED BY <2>2, <3>1, <1>1, <1>2
  <2> QED BY <2>1, <2>2
<1>5. IsFiniteSet(T)
  BY FS_Subset
<1> HIDE DEF Good
<1>6. T \in Good
  BY <1>4, <1>5, SubsetInduction
<1> QED BY <1>6 DEF Good

\* The recursion: the element CHOOSE picks, and the sum of the others.
LEMMA SumStep ==
  ASSUME NEW f, NEW S, IsFiniteSet(S)
  PROVE  SumFunctionOnSet(f, S) =
           IF S = {} THEN 0
           ELSE LET x == CHOOSE y \in S : TRUE IN f[x] + SumFunctionOnSet(f, S \ {x})
<1> DEFINE c == CHOOSE y \in S : TRUE
           g == CHOOSE g : IsSum(g, f, SUBSET S)
           h == CHOOSE h : IsSum(h, f, SUBSET (S \ {c}))
<1>1. IsSum(g, f, SUBSET S)
  BY SumExists
<1>2. IsFiniteSet(S \ {c})
  BY FS_RemoveElement
<1>3. IsSum(h, f, SUBSET (S \ {c}))
  BY <1>2, SumExists
<1>4. SumFunctionOnSet(f, S) = g[S] /\ SumFunctionOnSet(f, S \ {c}) = h[S \ {c}]
  BY UnfoldSum
<1> HIDE DEF g, h
<1>5. g[S \ {c}] = h[S \ {c}]
  BY <1>1, <1>2, <1>3, SumUnique
<1>6. S \in SUBSET S
  OBVIOUS
<1>7. g[S] = IF S = {} THEN 0 ELSE f[c] + g[S \ {c}]
  BY <1>1, <1>6 DEF IsSum
<1> QED BY <1>4, <1>5, <1>7

\* The sum over no element.
LEMMA SumOfNothing ==
  ASSUME NEW f
  PROVE  SumFunctionOnSet(f, {}) = 0
BY SumStep, FS_EmptySet

-----------------------------------------------------------------------------
\* Integers add up to an integer.
LEMMA SumIsInt ==
  ASSUME NEW S, IsFiniteSet(S), NEW f, \A x \in S : f[x] \in Int
  PROVE  \A T \in SUBSET S : SumFunctionOnSet(f, T) \in Int
<1> DEFINE F(T) == SumFunctionOnSet(f, T)
           Good == {T \in SUBSET S : F(T) \in Int}
<1>1. \A T : T = {} => F(T) = 0
  BY SumOfNothing, Zenon
<1>2. \A T \in SUBSET S : T # {} => \E x \in T : F(T) = f[x] + F(T \ {x})
  BY FS_Subset, SumStep, ChosenIsMember
<1> HIDE DEF F
<1>3. \A T \in SUBSET S : (\A U \in (SUBSET T) \ {T} : U \in Good) => T \in Good
  <2> SUFFICES ASSUME NEW T \in SUBSET S, \A U \in (SUBSET T) \ {T} : U \in Good
               PROVE  F(T) \in Int
    OBVIOUS
  <2>1. CASE T # {}
    <3>1. PICK x \in T : F(T) = f[x] + F(T \ {x})
      BY <1>2, <2>1
    <3>2. T \ {x} \in Good
      OBVIOUS
    <3> QED BY <3>1, <3>2
  <2> QED BY <1>1, <2>1
<1> HIDE DEF Good
<1>4. \A T \in SUBSET S : T \in Good
  BY <1>3, SubsetInduction
<1> QED BY <1>4 DEF Good, F

\* Any element will do, not only the one CHOOSE picks.
LEMMA SumWithout ==
  ASSUME NEW S, IsFiniteSet(S), NEW f, \A x \in S : f[x] \in Int,
         NEW T \in SUBSET S, NEW e \in T
  PROVE  SumFunctionOnSet(f, T) = f[e] + SumFunctionOnSet(f, T \ {e})
<1> DEFINE F(V) == SumFunctionOnSet(f, V)
           Good == {V \in SUBSET S : \A x \in V : F(V) = f[x] + F(V \ {x})}
<1>1. \A V \in SUBSET S : F(V) \in Int
  BY SumIsInt
<1>2. \A V \in SUBSET S : V # {} => \E x \in V : F(V) = f[x] + F(V \ {x})
  BY FS_Subset, SumStep, ChosenIsMember
<1> HIDE DEF F
<1>3. \A V \in SUBSET S : (\A U \in (SUBSET V) \ {V} : U \in Good) => V \in Good
  <2> SUFFICES ASSUME NEW V \in SUBSET S, \A U \in (SUBSET V) \ {V} : U \in Good,
                      NEW x \in V
               PROVE  F(V) = f[x] + F(V \ {x})
    OBVIOUS
  <2>1. PICK c \in V : F(V) = f[c] + F(V \ {c})
    BY <1>2
  <2>2. CASE c # x
    <3>1. /\ V \ {c} \in Good /\ x \in V \ {c}
          /\ V \ {x} \in Good /\ c \in V \ {x}
      BY <2>2
    <3> DEFINE R == V \ {c, x}
    <3>2. (V \ {c}) \ {x} = R /\ (V \ {x}) \ {c} = R
      OBVIOUS
    <3>3. /\ F(V \ {c}) = f[x] + F((V \ {c}) \ {x})
          /\ F(V \ {x}) = f[c] + F((V \ {x}) \ {c})
      BY <3>1
    <3>4. F(R) \in Int /\ f[x] \in Int /\ f[c] \in Int
      BY <1>1
    <3> HIDE DEF Good, R
    <3>5. F(V \ {c}) = f[x] + F(R) /\ F(V \ {x}) = f[c] + F(R)
      BY <3>2, <3>3, Zenon
    <3> QED BY <2>1, <3>4, <3>5
  <2> QED BY <2>1, <2>2
<1> HIDE DEF Good
<1>4. T \in Good
  BY <1>3, SubsetInduction
<1> QED BY <1>4 DEF Good, F

\* The same with the rest named.
LEMMA SumTakenApart ==
  ASSUME NEW S, IsFiniteSet(S), NEW f, \A x \in S : f[x] \in Int,
         NEW T \in SUBSET S, NEW U, NEW e \in T, T \ {e} = U
  PROVE  SumFunctionOnSet(f, T) = f[e] + SumFunctionOnSet(f, U)
<1>1. SumFunctionOnSet(f, T) = f[e] + SumFunctionOnSet(f, T \ {e})
  BY SumWithout
<1> QED BY <1>1, Zenon

\* A sum over the first numbers grows by the next one.
LEMMA SumOfFirst ==
  ASSUME NEW n \in Nat, NEW f, \A j \in 1..n : f[j] \in Int
  PROVE  /\ SumFunctionOnSet(f, 1..0) = 0
         /\ \A i \in 0..n : SumFunctionOnSet(f, 1..i) \in Int
         /\ \A i \in 1..n :
              SumFunctionOnSet(f, 1..i) = SumFunctionOnSet(f, 1..(i - 1)) + f[i]
<1>1. SumFunctionOnSet(f, 1..0) = 0
  <2>1. 1..0 = {}
    OBVIOUS
  <2>2. \A T : T = {} => SumFunctionOnSet(f, T) = 0
    BY SumOfNothing, Zenon
  <2> QED BY <2>1, <2>2, Zenon
<1>2. IsFiniteSet(1..n)
  BY FS_Interval
<1>3. \A T \in SUBSET (1..n) : SumFunctionOnSet(f, T) \in Int
  BY <1>2, SumIsInt
<1>4. \A i \in 0..n : 1..i \in SUBSET (1..n)
  OBVIOUS
<1>5. \A i \in 0..n : SumFunctionOnSet(f, 1..i) \in Int
  BY <1>3, <1>4, Zenon
<1>6. ASSUME NEW S, S = 1..n, NEW T \in SUBSET S, NEW e \in T, NEW U, T \ {e} = U
      PROVE  SumFunctionOnSet(f, T) = f[e] + SumFunctionOnSet(f, U)
  <2>1. IsFiniteSet(S) /\ (\A j \in S : f[j] \in Int) /\ T \ {e} = U
    BY <1>2, <1>6
  <2> QED BY <2>1, SumTakenApart
<1>7. ASSUME NEW i \in 1..n
      PROVE  SumFunctionOnSet(f, 1..i) = SumFunctionOnSet(f, 1..(i - 1)) + f[i]
  <2>1. 1..i \in SUBSET (1..n) /\ i \in 1..i /\ (1..i) \ {i} = 1..(i - 1)
    OBVIOUS
  <2>2. SumFunctionOnSet(f, 1..i) = f[i] + SumFunctionOnSet(f, 1..(i - 1))
    BY <1>6, <2>1, ZenonT(30)
  <2>3. f[i] \in Int /\ i - 1 \in 0..n
    OBVIOUS
  <2> QED BY <1>5, <2>2, <2>3
<1> QED BY <1>1, <1>5, <1>7

\* Sums are added term by term.
LEMMA SumAdds ==
  ASSUME NEW S, IsFiniteSet(S), NEW f, NEW g, NEW h,
         \A x \in S : f[x] \in Int /\ g[x] \in Int /\ h[x] = f[x] + g[x]
  PROVE  SumFunctionOnSet(h, S) = SumFunctionOnSet(f, S) + SumFunctionOnSet(g, S)
<1> DEFINE F(T) == SumFunctionOnSet(f, T)
           G(T) == SumFunctionOnSet(g, T)
           H(T) == SumFunctionOnSet(h, T)
           Good == {T \in SUBSET S : H(T) = F(T) + G(T)}
<1>1. \A T \in SUBSET S : F(T) \in Int /\ G(T) \in Int
  BY SumIsInt
<1>2. \A T \in SUBSET S : \A x \in T : /\ F(T) = f[x] + F(T \ {x})
                                        /\ G(T) = g[x] + G(T \ {x})
                                        /\ H(T) = h[x] + H(T \ {x})
  <2> SUFFICES ASSUME NEW T \in SUBSET S, NEW x \in T
               PROVE  /\ F(T) = f[x] + F(T \ {x})
                      /\ G(T) = g[x] + G(T \ {x})
                      /\ H(T) = h[x] + H(T \ {x})
    OBVIOUS
  <2>1. \A y \in S : f[y] \in Int /\ g[y] \in Int /\ h[y] \in Int
    OBVIOUS
  <2> QED BY <2>1, SumWithout
<1>3. \A T : T = {} => F(T) = 0 /\ G(T) = 0 /\ H(T) = 0
  BY SumOfNothing, Zenon
<1> HIDE DEF F, G, H
<1>4. \A T \in SUBSET S : (\A U \in (SUBSET T) \ {T} : U \in Good) => T \in Good
  <2> SUFFICES ASSUME NEW T \in SUBSET S, \A U \in (SUBSET T) \ {T} : U \in Good
               PROVE  H(T) = F(T) + G(T)
    OBVIOUS
  <2>1. CASE T # {}
    <3>1. PICK x \in T : TRUE
      BY <2>1
    <3>2. T \ {x} \in Good
      OBVIOUS
    <3>3. /\ F(T \ {x}) \in Int /\ G(T \ {x}) \in Int
          /\ f[x] \in Int /\ g[x] \in Int /\ h[x] = f[x] + g[x]
      BY <1>1
    <3> QED BY <1>2, <3>2, <3>3
  <2> QED BY <1>3, <2>1
<1> HIDE DEF Good
<1>5. S \in Good
  BY <1>4, SubsetInduction
<1> QED BY <1>5 DEF Good, F, G, H

\* Zeros add up to zero ...
LEMMA SumOfZeros ==
  ASSUME NEW S, IsFiniteSet(S), NEW f, \A x \in S : f[x] = 0
  PROVE  SumFunctionOnSet(f, S) = 0
<1>1. \A x \in S : f[x] \in Int /\ f[x] = f[x] + f[x]
  OBVIOUS
<1> DEFINE s == SumFunctionOnSet(f, S)
<1>2. s = s + s
  BY <1>1, SumAdds
<1>3. s \in Int
  BY <1>1, SumIsInt
<1> HIDE DEF s
<1>4. s = 0
  BY <1>2, <1>3
<1> QED BY <1>4 DEF s

\* ... and equal terms to equal sums.
LEMMA SumsAgree ==
  ASSUME NEW S, IsFiniteSet(S), NEW f, NEW g, \A x \in S : f[x] \in Int /\ g[x] = f[x]
  PROVE  SumFunctionOnSet(g, S) = SumFunctionOnSet(f, S)
<1> DEFINE zero == [x \in S |-> 0]
<1>1. SumFunctionOnSet(zero, S) = 0
  BY SumOfZeros
<1>2. \A x \in S : f[x] \in Int /\ zero[x] \in Int /\ g[x] = f[x] + zero[x]
  OBVIOUS
<1> HIDE DEF zero
<1>3. SumFunctionOnSet(g, S) = SumFunctionOnSet(f, S) + SumFunctionOnSet(zero, S)
  BY <1>2, SumAdds
<1>4. SumFunctionOnSet(f, S) \in Int
  BY SumIsInt
<1> QED BY <1>1, <1>3, <1>4

\* One term changes, and the sum by as much.
LEMMA SumOneChanges ==
  ASSUME NEW S, IsFiniteSet(S), NEW f, NEW g, NEW e \in S,
         \A x \in S : f[x] \in Int, g[e] \in Int,
         \A x \in S : x # e => g[x] = f[x]
  PROVE  SumFunctionOnSet(g, S) = SumFunctionOnSet(f, S) + (g[e] - f[e])
<1>1. /\ SumFunctionOnSet(f, S) = f[e] + SumFunctionOnSet(f, S \ {e})
      /\ SumFunctionOnSet(g, S) = g[e] + SumFunctionOnSet(g, S \ {e})
  <2>1. \A x \in S : g[x] \in Int
    OBVIOUS
  <2> QED BY <2>1, SumWithout
<1>2. IsFiniteSet(S \ {e})
  BY FS_RemoveElement
<1>3. SumFunctionOnSet(g, S \ {e}) = SumFunctionOnSet(f, S \ {e})
  BY <1>2, SumsAgree
<1>4. SumFunctionOnSet(f, S \ {e}) \in Int
  BY SumIsInt
<1> QED BY <1>1, <1>3, <1>4

\* When two terms change, the sum changes by what they change.
TwoChange(f, g, S, e, n) ==
  /\ e \in S /\ n \in S /\ e # n
  /\ \A x \in S : f[x] \in Int /\ g[x] \in Int
  /\ \A x \in S : x # e /\ x # n => g[x] = f[x]
\* Two terms change, one may take what the other gives.
LEMMA SumTwoChange ==
  ASSUME NEW S, IsFiniteSet(S), NEW f, NEW g, NEW e, NEW n, TwoChange(f, g, S, e, n)
  PROVE  SumFunctionOnSet(g, S) = SumFunctionOnSet(f, S) + (g[e] - f[e]) + (g[n] - f[n])
<1>1. /\ e \in S /\ n \in S /\ e # n
      /\ \A x \in S : f[x] \in Int /\ g[x] \in Int
      /\ \A x \in S : x # e /\ x # n => g[x] = f[x]
  BY DEF TwoChange
<1> DEFINE F(T) == SumFunctionOnSet(f, T)
           G(T) == SumFunctionOnSet(g, T)
           R == (S \ {e}) \ {n}
<1>2. \A T \in SUBSET S : \A x \in T : F(T) = f[x] + F(T \ {x})
  <2> SUFFICES ASSUME NEW T \in SUBSET S, NEW x \in T
               PROVE  F(T) = f[x] + F(T \ {x})
    OBVIOUS
  <2> QED BY <1>1, SumWithout
<1>3. \A T \in SUBSET S : \A x \in T : G(T) = g[x] + G(T \ {x})
  <2> SUFFICES ASSUME NEW T \in SUBSET S, NEW x \in T
               PROVE  G(T) = g[x] + G(T \ {x})
    OBVIOUS
  <2> QED BY <1>1, SumWithout
<1>4. R \in SUBSET S /\ IsFiniteSet(R) /\ \A x \in R : f[x] \in Int /\ g[x] = f[x]
  BY <1>1, FS_Subset
<1>5. F(R) \in Int /\ G(R) = F(R)
  <2> HIDE DEF R
  <2>1. F(R) \in Int
    BY <1>1, <1>4, SumIsInt
  <2>2. G(R) = F(R)
    BY <1>4, SumsAgree
  <2> QED BY <2>1, <2>2
<1> HIDE DEF F, G
<1>6. F(S) = f[e] + (f[n] + F(R)) /\ G(S) = g[e] + (g[n] + G(R))
  <2>1. S \in SUBSET S /\ e \in S /\ S \ {e} \in SUBSET S /\ n \in S \ {e}
    BY <1>1
  <2>2. F(S) = f[e] + F(S \ {e}) /\ G(S) = g[e] + G(S \ {e})
    BY <1>2, <1>3, <2>1
  <2>3. F(S \ {e}) = f[n] + F(R) /\ G(S \ {e}) = g[n] + G(R)
    BY <1>2, <1>3, <2>1
  <2> QED BY <2>2, <2>3
<1>7. f[e] \in Int /\ g[e] \in Int /\ f[n] \in Int /\ g[n] \in Int
  BY <1>1
<1>8. G(S) = F(S) + (g[e] - f[e]) + (g[n] - f[n])
  <2> HIDE DEF R
  <2> QED BY <1>5, <1>6, <1>7
<1> QED BY <1>8 DEF F, G

\* Terms that are zero may be added or left out.
LEMMA SumOfPart ==
  ASSUME NEW S, IsFiniteSet(S), NEW T \in SUBSET S, NEW f, NEW g,
         \A x \in T : f[x] \in Int /\ g[x] = f[x],
         \A x \in S \ T : g[x] = 0
  PROVE  SumFunctionOnSet(f, T) = SumFunctionOnSet(g, S)
<1> DEFINE G(U) == SumFunctionOnSet(g, U)
           D == S \ T
           Good == {U \in SUBSET D : G(T \cup U) = G(T)}
<1>1. \A x \in S : g[x] \in Int
  OBVIOUS
<1>2. \A U \in SUBSET S : \A e \in U : G(U) = g[e] + G(U \ {e})
  <2> SUFFICES ASSUME NEW U \in SUBSET S, NEW e \in U PROVE G(U) = g[e] + G(U \ {e})
    OBVIOUS
  <2> QED BY <1>1, SumWithout
<1>3. \A U \in SUBSET S : G(U) \in Int
  BY <1>1, SumIsInt
<1> HIDE DEF G
<1>4. \A U \in SUBSET D : (\A V \in (SUBSET U) \ {U} : V \in Good) => U \in Good
  <2> SUFFICES ASSUME NEW U \in SUBSET D, \A V \in (SUBSET U) \ {U} : V \in Good
               PROVE  G(T \cup U) = G(T)
    OBVIOUS
  <2>1. CASE U # {}
    <3>1. PICK e \in U : TRUE
      BY <2>1
    <3>2. U \ {e} \in Good
      OBVIOUS
    <3>3. (T \cup U) \ {e} = T \cup (U \ {e})
      OBVIOUS
    <3>4. G(T \cup U) = g[e] + G((T \cup U) \ {e})
      BY <1>2
    <3>5. G(T \cup U) = g[e] + G(T \cup (U \ {e}))
      BY <3>3, <3>4, Zenon
    <3>6. G(T \cup (U \ {e})) = G(T)
      BY <3>2
    <3>7. G(T \cup U) = g[e] + G(T)
      BY <3>5, <3>6, Zenon
    <3>8. g[e] = 0 /\ G(T) \in Int
      BY <1>3
    <3> HIDE DEF Good
    <3> QED BY <3>7, <3>8
  <2>2. CASE U = {}
    <3>1. T \cup U = T
      BY <2>2
    <3> QED BY <3>1
  <2> QED BY <2>1, <2>2
<1>5. IsFiniteSet(D) /\ IsFiniteSet(T)
  BY FS_Subset
<1>6. T \cup D = S
  OBVIOUS
<1> HIDE DEF Good, D
<1>7. D \in Good
  BY <1>4, <1>5, SubsetInduction
<1>8. G(T) = SumFunctionOnSet(f, T)
  BY <1>5, SumsAgree DEF G
<1> QED BY <1>6, <1>7, <1>8 DEF Good, G

\* A sum of terms that are not negative is at least each of them.
LEMMA SumAtLeast ==
  ASSUME NEW S, IsFiniteSet(S), NEW f, \A x \in S : f[x] \in Int /\ f[x] >= 0
  PROVE  /\ SumFunctionOnSet(f, S) >= 0
         /\ \A e \in S : SumFunctionOnSet(f, S) >= f[e]
<1> DEFINE F(T) == SumFunctionOnSet(f, T)
           Good == {T \in SUBSET S : F(T) >= 0}
<1>1. \A T \in SUBSET S : F(T) \in Int
  BY SumIsInt
<1>2. \A T \in SUBSET S : \A e \in T : F(T) = f[e] + F(T \ {e})
  <2> SUFFICES ASSUME NEW T \in SUBSET S, NEW e \in T PROVE F(T) = f[e] + F(T \ {e})
    OBVIOUS
  <2> QED BY SumWithout
<1>3. \A T : T = {} => F(T) = 0
  BY SumOfNothing, Zenon
<1> HIDE DEF F
<1>4. \A T \in SUBSET S : (\A U \in (SUBSET T) \ {T} : U \in Good) => T \in Good
  <2> SUFFICES ASSUME NEW T \in SUBSET S, \A U \in (SUBSET T) \ {T} : U \in Good
               PROVE  F(T) >= 0
    OBVIOUS
  <2>1. CASE T # {}
    <3>1. PICK e \in T : TRUE
      BY <2>1
    <3>2. T \ {e} \in Good
      OBVIOUS
    <3>3. F(T) = f[e] + F(T \ {e}) /\ f[e] \in Int /\ f[e] >= 0 /\ F(T \ {e}) \in Int
      BY <1>1, <1>2
    <3> QED BY <3>2, <3>3
  <2> QED BY <1>3, <2>1
<1> HIDE DEF Good
<1>5. \A T \in SUBSET S : F(T) >= 0
  <2>1. \A T \in SUBSET S : T \in Good
    BY <1>4, SubsetInduction
  <2> QED BY <2>1 DEF Good
<1>6. ASSUME NEW e \in S
      PROVE  F(S) >= f[e]
  <2>1. F(S) = f[e] + F(S \ {e}) /\ F(S \ {e}) >= 0 /\ F(S \ {e}) \in Int /\ f[e] \in Int
    BY <1>1, <1>2, <1>5
  <2> QED BY <2>1
<1> QED BY <1>5, <1>6 DEF F
=============================================================================
