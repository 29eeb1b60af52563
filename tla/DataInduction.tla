--------------------------- MODULE DataInduction ----------------------------
(***************************************************************************)
(* Facts about data that need induction: sums over finite sets, and what a  *)
(* recursive function computes.                                            *)
(*                                                                         *)
(* The provers take no theorem with an operator for a parameter, so that a   *)
(* property is given as the set of the things that have it.  Everything      *)
(* rests on the order of the natural numbers being well founded.            *)
(***************************************************************************)
EXTENDS Integers, Sequences, FiniteSets, Functions, FiniteSetTheorems,
        WellFoundedInduction, TLAPS

\* Every nonempty set of numbers has a least one.
LEMMA LeastNumber ==
    ASSUME NEW T \in SUBSET Nat, T # {}
    PROVE  \E x \in T : \A y \in T : x <= y
<1> DEFINE R == {ss \in Nat \X Nat : ss[1] < ss[2]}
<1>1. IsWellFoundedOn(R, Nat)
    BY NatLessThanWellFounded DEF OpToRel
<1>2. \A x \in Nat, y \in Nat: x<y => <<x,y>> \in R OBVIOUS
<1> HIDE DEF R
<1>3. PICK x \in T : \A y \in T : ~ (<<y, x>> \in R) BY <1>1, WFMin
<1>4. \A y \in T : ~ (y < x) BY <1>3, <1>2
<1>5. \A y \in T : x <= y BY <1>4
<1>6. QED BY <1>5

\* Induction over the subsets of a finite set, the property given as the set of
\* the subsets that have it.
LEMMA SubsetInduction ==
    ASSUME NEW S, IsFiniteSet(S), NEW G,
           \A T \in SUBSET S : (\A U \in SUBSET T : U # T => U \in G) => T \in G
    PROVE  SUBSET S \subseteq G
<1> DEFINE B == (SUBSET S) \ G
<1>1. SUFFICES ASSUME B # {} PROVE FALSE
    OBVIOUS
<1>2. \A T \in SUBSET S : IsFiniteSet(T) /\ Cardinality(T) \in Nat
    BY FS_Subset, FS_CardinalityType
<1> DEFINE sizes == {Cardinality(T) : T \in B}
<1>3. sizes \in SUBSET Nat /\ sizes # {}
    BY <1>1, <1>2
<1> HIDE DEF sizes
<1>4. PICK n \in sizes : \A m \in sizes : n <= m
    BY <1>3, LeastNumber
<1>5. PICK T \in B : n = Cardinality(T)
    BY <1>4 DEF sizes
<1>6. ASSUME NEW U \in SUBSET T, U # T PROVE U \in G
    <2>1. U \in SUBSET S /\ IsFiniteSet(T) BY <1>1, <1>2, <1>5
    <2>2. Cardinality(U) <= Cardinality(T) /\ Cardinality(U) # Cardinality(T)
        BY <2>1, <1>6, FS_Subset
    <2>3. Cardinality(U) \notin sizes
        BY <2>1, <2>2, <1>2, <1>4, <1>5, <1>1
    <2>4. QED BY <2>1, <2>3, <1>1 DEF sizes
<1>7. QED BY <1>1, <1>5, <1>6

\* Induction up to a number, the property given as the set of the numbers that
\* have it.
LEMMA UpTo ==
    ASSUME NEW n \in Nat, NEW G, 0 \in G, \A k \in 1..n : k - 1 \in G => k \in G
    PROVE  0..n \subseteq G
<1> SUFFICES ASSUME NEW k \in 0..n, k \notin G PROVE FALSE
    OBVIOUS
<1> DEFINE Wrong == {m \in 0..n : m \notin G}
<1>1. k \in Wrong /\ Wrong \in SUBSET Nat
    OBVIOUS
<1>2. PICK m \in Wrong : \A p \in Wrong : m <= p
    BY <1>1, LeastNumber
<1>3. m # 0 /\ m \in 1..n
    BY <1>2
<1>4. m - 1 \in 0..n /\ m - 1 \notin Wrong
    BY <1>2, <1>3
<1> QED
    BY <1>2, <1>3, <1>4

\* A value is stepped any number of times: the recursive functions over a prefix
\* of the numbers exist.
Iterates(f, n, B, b, step) ==
    /\ f \in [0..n -> B] /\ f[0] = b
    /\ \A k \in 1..n : f[k] = step[k][f[k - 1]]

LEMMA IterationExists ==
    ASSUME NEW n \in Nat, NEW B, NEW b \in B, NEW step \in [1..n -> [B -> B]]
    PROVE  \E f : Iterates(f, n, B, b, step)
<1> DEFINE Run(f, m) == f \in [0..m -> B] /\ f[0] = b /\ \A k \in 1..m : f[k] = step[k][f[k - 1]]
           G == {m \in 0..n : \E f : Run(f, m)}
<1>1. \E f : Run(f, 0)
    <2>1. Run([k \in 0..0 |-> b], 0)
        OBVIOUS
    <2> QED
        BY <2>1
<1>2. ASSUME NEW m \in 1..n, NEW f, Run(f, m - 1)
      PROVE  \E g : Run(g, m)
    <2> DEFINE g == [k \in 0..m |-> IF k = m THEN step[m][f[m - 1]] ELSE f[k]]
    <2>1. f[m - 1] \in B
        BY <1>2
    <2>2. step[m][f[m - 1]] \in B
        BY <2>1
    <2>3. g \in [0..m -> B] /\ g[0] = b
        BY <1>2, <2>2
    <2>4. ASSUME NEW k \in 1..m PROVE g[k] = step[k][g[k - 1]]
        <3>1. CASE k = m
            BY <3>1
        <3>2. CASE k # m
            <4>1. k \in 1..(m - 1) /\ k - 1 \in 0..(m - 1) /\ k - 1 # m
                BY <3>2
            <4> QED
                BY <1>2, <4>1
        <3> QED
            BY <3>1, <3>2
    <2> HIDE DEF g
    <2>5. Run(g, m)
        BY <2>3, <2>4
    <2> HIDE DEF Run
    <2> QED
        BY <2>5
<1> HIDE DEF Run
<1>3. 0 \in G
    BY <1>1
<1>4. \A m \in 1..n : m - 1 \in G => m \in G
    BY <1>2
<1> HIDE DEF G
<1>5. n \in G
    <2>1. 0..n \subseteq G
        BY <1>3, <1>4, UpTo
    <2>2. n \in 0..n
        OBVIOUS
    <2> QED
        BY <2>1, <2>2
<1> QED
    BY <1>5 DEF G, Run, Iterates

-----------------------------------------------------------------------------
(* Sums.  The units of a function into numbers are the pairs of an element   *)
(* and one of the numbers up to its value.                                  *)

UnitsOn(f, S) == {u \in S \X Nat : 1 <= u[2] /\ u[2] <= f[u[1]]}

\* The units of one element are as many as its number.
LEMMA UnitsOfOne ==
    ASSUME NEW S, NEW f \in [S -> Nat], NEW T \in SUBSET S, NEW x \in T,
           IsFiniteSet(UnitsOn(f, T \ {x}))
    PROVE  /\ IsFiniteSet(UnitsOn(f, T))
           /\ Cardinality(UnitsOn(f, T)) = f[x] + Cardinality(UnitsOn(f, T \ {x}))
<1> DEFINE column == {x} \X (1..f[x])
           rest == UnitsOn(f, T \ {x})
<1>1. UnitsOn(f, T) = column \cup rest
    BY DEF UnitsOn
<1>2. column \cap rest = {}
    BY DEF UnitsOn
<1>3. IsFiniteSet(column) /\ Cardinality(column) = f[x]
    <2>1. f[x] \in Nat OBVIOUS
    <2>2. IsFiniteSet(1..f[x]) /\ Cardinality(1..f[x]) = f[x]
        BY <2>1, FS_Interval
    <2> DEFINE pair == [n \in 1..f[x] |-> <<x, n>>]
    <2>3. pair \in [1..f[x] -> column] OBVIOUS
    <2>4. \A m, n \in 1..f[x] : pair[m] = pair[n] => m = n OBVIOUS
    <2>5. \A c \in column : \E n \in 1..f[x] : pair[n] = c OBVIOUS
    <2> HIDE DEF pair
    <2>6. pair \in Bijection(1..f[x], column)
        BY <2>3, <2>4, <2>5 DEF Bijection, Injection, Surjection, IsInjective
    <2>7. QED BY <2>2, <2>6, FS_Bijection DEF ExistsBijection
<1> HIDE DEF column, rest
<1>4. Cardinality(column \cap rest) = 0 
    BY <1>2, FS_EmptySet
<1>5. IsFiniteSet(rest) /\ Cardinality(rest) \in Nat BY FS_CardinalityType DEF rest
<1>6. IsFiniteSet(column \cup rest)
      /\ Cardinality(column \cup rest) = Cardinality(column) + Cardinality(rest) - Cardinality(column \cap rest)
    BY <1>3, <1>5, FS_Union
<1>7. Cardinality(column \cup rest) = f[x] + Cardinality(rest) BY <1>6, <1>4, <1>3, <1>5
<1>8. QED BY <1>1, <1>6, <1>7 DEF rest

\* A finite set has finitely many units.
LEMMA UnitsFinite ==
    ASSUME NEW S, IsFiniteSet(S), NEW f \in [S -> Nat]
    PROVE  \A T \in SUBSET S : IsFiniteSet(UnitsOn(f, T))
<1> DEFINE G == {T \in SUBSET S : IsFiniteSet(UnitsOn(f, T))}
<1>1. ASSUME NEW T \in SUBSET S, \A U \in SUBSET T : U # T => U \in G
      PROVE  T \in G
    <2>1. CASE T = {}
        BY <2>1, FS_EmptySet DEF UnitsOn
    <2>2. CASE T # {}
        <3>1. PICK x \in T : TRUE BY <2>2
        <3>2. IsFiniteSet(UnitsOn(f, T \ {x})) BY <1>1, <3>1
        <3>3. QED BY <3>1, <3>2, UnitsOfOne
    <2>3. QED BY <2>1, <2>2
<1> HIDE DEF G
<1>2. SUBSET S \subseteq G BY <1>1, SubsetInduction
<1>3. QED BY <1>2 DEF G

\* The sum of a function into numbers is the number of its units, in whatever
\* order the fold takes its elements.
LEMMA SumCounts ==
    ASSUME NEW S, IsFiniteSet(S), NEW f \in [S -> Nat]
    PROVE  SumFunction(f) = Cardinality(UnitsOn(f, S))
<1> DEFINE D(g) == [s \in SUBSET S |-> IF s = {} THEN 0
                      ELSE f[CHOOSE x \in s : TRUE] + g[s \ {CHOOSE x \in s : TRUE}]]
           u == [s \in SUBSET S |-> Cardinality(UnitsOn(f, s))]
           sum == CHOOSE g : g = D(g)
<1>1. SumFunction(f) = sum[S]
    BY DEF SumFunction, SumFunctionOnSet, FoldFunctionOnSet, MapThenFoldSet
<1>2. u = D(u)
    <2>1. ASSUME NEW s \in SUBSET S 
          PROVE u[s] = IF s = {} THEN 0
                      ELSE f[CHOOSE x \in s : TRUE] + u[s \ {CHOOSE x \in s : TRUE}]
        <3>1. CASE s = {}
            <4>1. UnitsOn(f, s) = {} BY <3>1 DEF UnitsOn
            <4>2. QED BY <3>1, <4>1, FS_EmptySet
        <3>2. CASE s # {}
            <4>1. PICK x \in s : x = CHOOSE y \in s : TRUE BY <3>2
            <4>2. IsFiniteSet(UnitsOn(f, s \ {x})) BY UnitsFinite
            <4>3. Cardinality(UnitsOn(f, s)) = f[x] + Cardinality(UnitsOn(f, s \ {x}))
                BY <4>2, UnitsOfOne
            <4>4. s \ {x} \in SUBSET S OBVIOUS
            <4> HIDE DEF D
            <4>5. QED BY <3>2, <4>1, <4>3, <4>4
        <3>3. QED BY <3>1, <3>2
    <2> HIDE DEF u
    <2>2. QED BY <2>1 DEF u
<1>3. sum = D(sum) 
    <2> HIDE DEF D, u
    <2> QED BY <1>2
<1> DEFINE G == {s \in SUBSET S : sum[s] = u[s]}
<1>4. ASSUME NEW T \in SUBSET S, \A U \in SUBSET T : U # T => U \in G
      PROVE  T \in G
    <2>1. CASE T = {}
        <3> HIDE DEF u, sum
        <3>1. D(sum)[T] = 0 /\ D(u)[T] = 0 BY <2>1
        <3> HIDE DEF D
        <3>2. QED BY <3>1, <1>2, <1>3
    <2>2. CASE T # {}
        <3>1. PICK x \in T : x = CHOOSE y \in T : TRUE BY <2>2
        <3>2. sum[T \ {x}] = u[T \ {x}] BY <1>4, <3>1
        <3> HIDE DEF u, sum
        <3>3. D(sum)[T] = f[x] + sum[T \ {x}] /\ D(u)[T] = f[x] + u[T \ {x}]
            BY <2>2, <3>1
        <3> HIDE DEF D
        <3>4. QED BY <3>2, <3>3, <1>2, <1>3
    <2>3. QED BY <2>1, <2>2
<1>5. SUBSET S \subseteq G
    <2> HIDE DEF G
    <2>1. QED BY <1>4, SubsetInduction
<1>6. sum[S] = u[S] BY <1>5
<1>7. QED BY <1>1, <1>6
\* One element apart, the sum is that of the others.
LEMMA SumSplit ==
    ASSUME NEW S, IsFiniteSet(S), NEW f \in [S -> Nat], NEW x \in S
    PROVE  /\ SumFunction(f) \in Nat
           /\ SumFunction([y \in S \ {x} |-> f[y]]) \in Nat
           /\ SumFunction(f) = f[x] + SumFunction([y \in S \ {x} |-> f[y]])
<1> DEFINE g == [y \in S \ {x} |-> f[y]]
<1>1. IsFiniteSet(S \ {x}) /\ g \in [S \ {x} -> Nat]
    BY FS_RemoveElement
<1>2. UnitsOn(f, S \ {x}) = UnitsOn(g, S \ {x})
    BY DEF UnitsOn
<1>3. IsFiniteSet(UnitsOn(f, S)) /\ IsFiniteSet(UnitsOn(f, S \ {x}))
    BY UnitsFinite
<1>4. Cardinality(UnitsOn(f, S)) = f[x] + Cardinality(UnitsOn(f, S \ {x}))
    BY <1>3, UnitsOfOne
<1> HIDE DEF g
<1>5. /\ SumFunction(f) = Cardinality(UnitsOn(f, S))
      /\ SumFunction(g) = Cardinality(UnitsOn(f, S \ {x}))
    BY <1>1, <1>2, SumCounts
<1>6. QED
    BY <1>3, <1>4, <1>5, FS_CardinalityType DEF g

LEMMA SumEmpty ==
    ASSUME NEW f, DOMAIN f = {}, f = [x \in {} |-> f[x]]
    PROVE  SumFunction(f) = 0
<1>1. f \in [{} -> Nat] /\ IsFiniteSet({}) /\ UnitsOn(f, {}) = {}
    BY FS_EmptySet DEF UnitsOn
<1>2. SumFunction(f) = Cardinality({})
    BY <1>1, SumCounts
<1>3. QED
    BY <1>2, FS_EmptySet

LEMMA SumIsNat ==
    ASSUME NEW S, IsFiniteSet(S), NEW f \in [S -> Nat]
    PROVE  SumFunction(f) \in Nat
    BY SumCounts, UnitsFinite, FS_CardinalityType

\* A value more in the domain is a value more in the sum.
Extends(g, f, S, x) ==
    /\ IsFiniteSet(S) /\ x \notin S
    /\ f \in [S -> Nat] /\ g \in [S \cup {x} -> Nat]
    /\ \A y \in S : g[y] = f[y]

LEMMA SumExtend ==
    ASSUME NEW S, NEW f, NEW x, NEW g, Extends(g, f, S, x)
    PROVE  SumFunction(g) = SumFunction(f) + g[x]
<1> USE DEF Extends
<1>1. IsFiniteSet(S \cup {x}) /\ (S \cup {x}) \ {x} = S
    BY FS_AddElement
<1>2. f = [y \in S |-> g[y]]
    OBVIOUS
<1>3. f = [y \in (S \cup {x}) \ {x} |-> g[y]]
    BY <1>1, <1>2
<1>4. /\ SumFunction(g) = g[x] + SumFunction([y \in (S \cup {x}) \ {x} |-> g[y]])
      /\ SumFunction([y \in (S \cup {x}) \ {x} |-> g[y]]) \in Nat
    BY <1>1, SumSplit
<1>5. g[x] \in Nat
    OBVIOUS
<1>6. QED
    BY <1>3, <1>4, <1>5

\* A value that changes changes the sum by as much.
LEMMA SumUpdate ==
    ASSUME NEW S, IsFiniteSet(S), NEW f \in [S -> Nat], NEW x \in S,
           NEW g \in [S -> Nat], \A y \in S \ {x} : g[y] = f[y]
    PROVE  SumFunction(g) = SumFunction(f) - f[x] + g[x]
<1>1. [y \in S \ {x} |-> g[y]] = [y \in S \ {x} |-> f[y]]
    OBVIOUS
<1> DEFINE rest == SumFunction([y \in S \ {x} |-> f[y]])
<1>2. SumFunction(f) = f[x] + rest /\ SumFunction(g) = g[x] + rest /\ rest \in Nat
    BY <1>1, SumSplit
<1>3. f[x] \in Nat /\ g[x] \in Nat
    OBVIOUS
<1> HIDE DEF rest
<1>4. QED
    BY <1>2, <1>3

\* A nonempty finite set of integers has a least one.
LEMMA LeastOfFinite ==
    ASSUME NEW S \in SUBSET Int, IsFiniteSet(S), S # {}
    PROVE  \E x \in S : \A y \in S : x <= y
<1> DEFINE G == {T \in SUBSET S : T # {} => \E x \in T : \A y \in T : x <= y}
<1>1. ASSUME NEW T \in SUBSET S, \A U \in SUBSET T : U # T => U \in G PROVE T \in G
    <2>1. CASE T = {}
        BY <2>1
    <2>2. CASE T # {}
        <3>1. PICK a \in T : TRUE
            BY <2>2
        <3>2. T \ {a} \in G
            BY <1>1, <3>1
        <3>3. CASE T \ {a} = {}
            <4>1. \A y \in T : y = a
                BY <3>3
            <4>2. QED BY <4>1, <3>1
        <3>4. CASE T \ {a} # {}
            <4>1. PICK x \in T \ {a} : \A y \in T \ {a} : x <= y
                BY <3>2, <3>4
            <4>2. CASE a <= x
                <5>1. \A y \in T : a <= y
                    BY <4>1, <4>2, <3>1
                <5>2. QED BY <5>1, <3>1
            <4>3. CASE ~ (a <= x)
                <5>1. \A y \in T : x <= y
                    BY <4>1, <4>3, <3>1
                <5>2. QED BY <5>1, <4>1
            <4>4. QED BY <4>2, <4>3
        <3>5. QED BY <3>3, <3>4
    <2>3. QED BY <2>1, <2>2
<1> HIDE DEF G
<1>2. SUBSET S \subseteq G
    BY <1>1, SubsetInduction
<1>3. S \in G
    BY <1>2
<1>4. QED BY <1>3 DEF G

-----------------------------------------------------------------------------
\* A finite set with parts below each element, nested: among any elements one
\* has none of them among its parts.
NestedParts(D, kids) ==
    /\ IsFiniteSet(D) /\ kids \in [D -> SUBSET D]
    /\ \A T \in SUBSET D : T # {} => \E r \in T : kids[r] \cap T = {}

\* f computes, on S, a value of every element from the values of its parts.
Computes(f, S, kids, V, step) ==
    /\ f \in [S -> V]
    /\ \A r \in S : kids[r] \subseteq S /\ f[r] = step[r][[c \in kids[r] |-> f[c]]]

\* A computation on some elements extends to one more whose parts it covers.
LEMMA ComputesOneMore ==
    ASSUME NEW D, NEW kids, NestedParts(D, kids), NEW V,
           NEW step, \A r \in D : step[r] \in [[kids[r] -> V] -> V],
           NEW S \in SUBSET D, NEW f, Computes(f, S, kids, V, step),
           NEW a \in D \ S, kids[a] \subseteq S
    PROVE  \E g : Computes(g, S \cup {a}, kids, V, step)
<1> DEFINE v == step[a][[c \in kids[a] |-> f[c]]]
           g == [r \in S \cup {a} |-> IF r = a THEN v ELSE f[r]]
<1>1. f \in [S -> V]
    BY DEF Computes
<1>2. [c \in kids[a] |-> f[c]] \in [kids[a] -> V]
    BY <1>1
<1>3. v \in V
    BY <1>2
<1>4. g \in [S \cup {a} -> V]
    BY <1>1, <1>3
<1>5. ASSUME NEW r \in S \cup {a}
      PROVE  kids[r] \subseteq S /\ g[r] = step[r][[c \in kids[r] |-> f[c]]]
    <2>1. CASE r = a
        BY <2>1
    <2>2. CASE r # a
        BY <2>2, <1>5 DEF Computes
    <2>3. QED BY <2>1, <2>2
<1>6. ASSUME NEW r \in S \cup {a}
      PROVE  [c \in kids[r] |-> g[c]] = [c \in kids[r] |-> f[c]]
    BY <1>5, <1>6
<1> HIDE DEF g, v
<1>7. Computes(g, S \cup {a}, kids, V, step)
    BY <1>4, <1>5, <1>6 DEF Computes
<1>8. QED BY <1>7

\* A recursive function over nested parts exists.
LEMMA TreeRecursion ==
    ASSUME NEW D, NEW kids, NestedParts(D, kids), NEW V,
           NEW step, \A r \in D : step[r] \in [[kids[r] -> V] -> V]
    PROVE  \E f : Computes(f, D, kids, V, step)
<1> DEFINE Done == {S \in SUBSET D : \E f : Computes(f, S, kids, V, step)}
           left == {Cardinality(D \ S) : S \in Done}
<1>1. Computes([r \in {} |-> r], {}, kids, V, step)
    BY DEF Computes
<1>2. {} \in Done
    BY <1>1
<1>3. \A S \in SUBSET D : IsFiniteSet(D \ S) /\ Cardinality(D \ S) \in Nat
    BY FS_Subset, FS_CardinalityType DEF NestedParts
<1>4. left \in SUBSET Nat /\ left # {}
    BY <1>2, <1>3
<1> HIDE DEF left
<1>5. PICK n \in left : \A m \in left : n <= m
    BY <1>4, LeastNumber
<1>6. PICK S \in Done : n = Cardinality(D \ S)
    BY <1>5 DEF left
<1>7. PICK f : Computes(f, S, kids, V, step)
    BY <1>6
<1>8. ASSUME S # D PROVE FALSE
    <2>1. PICK a \in D \ S : kids[a] \cap (D \ S) = {}
        BY <1>6, <1>8 DEF NestedParts
    <2>2. kids[a] \subseteq S
        BY <2>1 DEF NestedParts
    <2>3. \E g : Computes(g, S \cup {a}, kids, V, step)
        BY <1>6, <1>7, <2>1, <2>2, ComputesOneMore
    <2>4. S \cup {a} \in Done
        BY <2>3, <2>1, <1>6
    <2>5. Cardinality(D \ (S \cup {a})) \in left
        BY <2>4 DEF left
    <2>6. D \ (S \cup {a}) = (D \ S) \ {a}
        OBVIOUS
    <2>7. IsFiniteSet(D \ S) /\ Cardinality(D \ S) \in Nat
        BY <1>3, <1>6
    <2>8. Cardinality((D \ S) \ {a}) = Cardinality(D \ S) - 1
        BY <2>7, <2>1, FS_RemoveElement
    <2>9. Cardinality(D \ S) <= Cardinality(D \ S) - 1
        BY <2>5, <2>6, <2>8, <1>5, <1>6
    <2>10. QED BY <2>9, <2>7
<1>9. QED BY <1>7, <1>8

\* An image of a finite set is finite.
LEMMA FiniteImage ==
  ASSUME NEW S, IsFiniteSet(S), NEW f, DOMAIN f = S
  PROVE  IsFiniteSet({f[x] : x \in S})
  <1>. DEFINE T == {f[x] : x \in S}
              g == [x \in S |-> f[x]]
  <1>1. g \in Surjection(S, T)
    BY DEF Surjection
  <1>. QED BY <1>1, FS_Surjection

-----------------------------------------------------------------------------
(* A set that grows by what its elements lead to, n times over.             *)

Growth(f, n, D, S, next) ==
    /\ f \in [0..n -> SUBSET D] /\ f[0] = S
    /\ \A k \in 1..n : f[k] = f[k - 1] \cup next[f[k - 1]]

LEMMA GrowthExists ==
    ASSUME NEW D, NEW n \in Nat, NEW S \in SUBSET D, NEW next \in [SUBSET D -> SUBSET D]
    PROVE  \E f : Growth(f, n, D, S, next)
<1> DEFINE step == [k \in 1..n |-> [T \in SUBSET D |-> T \cup next[T]]]
<1>1. step \in [1..n -> [SUBSET D -> SUBSET D]]
    OBVIOUS
<1>2. \A k \in 1..n, T \in SUBSET D : step[k][T] = T \cup next[T]
    OBVIOUS
<1> HIDE DEF step
<1>3. PICK f : Iterates(f, n, SUBSET D, S, step)
    BY <1>1, IterationExists
<1>4. \A k \in 1..n : k - 1 \in 0..n
    OBVIOUS
<1>5. QED
    BY <1>2, <1>3, <1>4 DEF Iterates, Growth

\* In as many rounds as there are elements it is closed.
LEMMA GrowthCloses ==
    ASSUME NEW D, IsFiniteSet(D), NEW n \in Nat, Cardinality(D) <= n,
           NEW S \in SUBSET D, NEW next \in [SUBSET D -> SUBSET D],
           NEW f, Growth(f, n, D, S, next)
    PROVE  S \subseteq f[n] /\ f[n] \subseteq D /\ next[f[n]] \subseteq f[n]
<1> DEFINE G == {k \in 0..n : S \subseteq f[k] /\ (next[f[k]] \subseteq f[k] \/ Cardinality(f[k]) >= k)}
<1>1. \A k \in 0..n : f[k] \in SUBSET D /\ IsFiniteSet(f[k]) /\ Cardinality(f[k]) \in Nat
    BY FS_Subset, FS_CardinalityType DEF Growth
<1>2. 0 \in G
    BY <1>1 DEF Growth
<1>3. ASSUME NEW k \in 1..n, k - 1 \in G PROVE k \in G
    <2>1. f[k] = f[k - 1] \cup next[f[k - 1]] /\ k - 1 \in 0..n /\ k \in 0..n
        BY DEF Growth
    <2>2. CASE next[f[k - 1]] \subseteq f[k - 1]
        BY <2>1, <2>2, <1>3
    <2>3. CASE ~ (next[f[k - 1]] \subseteq f[k - 1])
        <3>1. f[k - 1] \in SUBSET f[k] /\ f[k - 1] # f[k]
            BY <2>1, <2>3
        <3>2. Cardinality(f[k - 1]) <= Cardinality(f[k]) /\ Cardinality(f[k - 1]) # Cardinality(f[k])
            BY <1>1, <2>1, <3>1, FS_Subset
        <3>3. Cardinality(f[k - 1]) >= k - 1
            BY <1>3, <2>3
        <3>4. Cardinality(f[k]) >= k
            <4>1. Cardinality(f[k]) \in Nat /\ Cardinality(f[k - 1]) \in Nat
                BY <1>1, <2>1
            <4>2. QED BY <3>2, <3>3, <4>1
        <3>5. QED BY <1>3, <2>1, <3>1, <3>4
    <2>4. QED BY <2>2, <2>3
<1> HIDE DEF G
<1>4. n \in G
    <2>1. 0..n \subseteq G BY <1>2, <1>3, UpTo
    <2>2. QED BY <2>1
<1>5. CASE Cardinality(f[n]) >= n
    <2>1. Cardinality(f[n]) <= Cardinality(D) /\ Cardinality(D) \in Nat
        BY <1>1, FS_Subset, FS_CardinalityType
    <2>2. Cardinality(f[n]) = Cardinality(D)
        BY <1>1, <1>5, <2>1
    <2>3. f[n] = D
        BY <1>1, <2>2, FS_Subset
    <2>4. QED BY <1>4, <2>3 DEF G
<1>6. QED BY <1>1, <1>4, <1>5 DEF G

-----------------------------------------------------------------------------
(* Sorting: a strict total order on S is given as the set of its pairs.     *)

StrictTotalOrder(R, S) ==
    /\ \A x \in S : <<x, x>> \notin R
    /\ \A x, y, z \in S : <<x, y>> \in R /\ <<y, z>> \in R => <<x, z>> \in R
    /\ \A x, y \in S : x # y => <<x, y>> \in R \/ <<y, x>> \in R

\* Every nonempty finite set has a last element.
LEMMA LastOfFinite ==
    ASSUME NEW S, IsFiniteSet(S), S # {}, NEW R, StrictTotalOrder(R, S)
    PROVE  \E x \in S : \A y \in S \ {x} : <<y, x>> \in R
<1> DEFINE G == {T \in SUBSET S : T # {} => \E x \in T : \A y \in T \ {x} : <<y, x>> \in R}
<1>1. ASSUME NEW T \in SUBSET S, \A U \in SUBSET T : U # T => U \in G PROVE T \in G
    <2>1. CASE T = {}
        BY <2>1
    <2>2. CASE T # {}
        <3>1. PICK a \in T : TRUE
            BY <2>2
        <3>2. T \ {a} \in G
            BY <1>1, <3>1
        <3>3. CASE T \ {a} = {}
            BY <3>1, <3>3
        <3>4. CASE T \ {a} # {}
            <4>1. PICK x \in T \ {a} : \A y \in (T \ {a}) \ {x} : <<y, x>> \in R
                BY <3>2, <3>4
            <4>2. CASE <<a, x>> \in R
                BY <4>1, <4>2
            <4>3. CASE <<x, a>> \in R
                <5>1. \A y \in T \ {a} : <<y, a>> \in R
                    BY <4>1, <4>3, <3>1 DEF StrictTotalOrder
                <5>2. QED BY <5>1, <3>1
            <4>4. QED BY <4>1, <4>2, <4>3, <3>1 DEF StrictTotalOrder
        <3>5. QED BY <3>3, <3>4
    <2>3. QED BY <2>1, <2>2
<1> HIDE DEF G
<1>2. SUBSET S \subseteq G
    BY <1>1, SubsetInduction
<1>3. S \in G
    BY <1>2
<1>4. QED BY <1>3 DEF G

Enumerates(p, S, R) ==
    /\ p \in [1..Cardinality(S) -> S]
    /\ \A i, j \in 1..Cardinality(S) : i < j => <<p[i], p[j]>> \in R

\* A sorted enumeration without the last element extends to one with it.
LEMMA EnumerateOneMore ==
    ASSUME NEW S, IsFiniteSet(S), NEW R, NEW a \in S, \A y \in S \ {a} : <<y, a>> \in R,
           NEW p, Enumerates(p, S \ {a}, R)
    PROVE  \E q : Enumerates(q, S, R)
<1> DEFINE n == Cardinality(S)
           q == [i \in 1..n |-> IF i = n THEN a ELSE p[i]]
<1>1. n \in Nat \ {0} /\ Cardinality(S \ {a}) = n - 1
    BY FS_CardinalityType, FS_RemoveElement, FS_EmptySet
<1>2. p \in [1..(n - 1) -> S \ {a}]
    BY <1>1 DEF Enumerates
<1>3. \A i, j \in 1..(n - 1) : i < j => <<p[i], p[j]>> \in R
    BY <1>1 DEF Enumerates
<1> HIDE DEF n
<1>4. \A i \in 1..n : i # n => i \in 1..(n - 1)
    BY <1>1
<1>5. q \in [1..n -> S]
    BY <1>2, <1>4
<1>6. ASSUME NEW i \in 1..n, NEW j \in 1..n, i < j PROVE <<q[i], q[j]>> \in R
    <2>1. i # n /\ i \in 1..(n - 1) /\ q[i] = p[i]
        BY <1>1, <1>6
    <2>2. CASE j = n
        BY <1>2, <2>1, <2>2
    <2>3. CASE j # n
        BY <1>3, <1>4, <1>6, <2>1, <2>3
    <2>4. QED BY <2>2, <2>3
<1> HIDE DEF q
<1>7. Enumerates(q, S, R)
    BY <1>5, <1>6 DEF Enumerates, n
<1>8. QED BY <1>7

LEMMA SortedEnumeration ==
    ASSUME NEW S, IsFiniteSet(S), NEW R, StrictTotalOrder(R, S)
    PROVE  \E p : Enumerates(p, S, R)
<1> DEFINE G == {T \in SUBSET S : \E p : Enumerates(p, T, R)}
<1>1. ASSUME NEW T \in SUBSET S, \A U \in SUBSET T : U # T => U \in G PROVE T \in G
    <2>1. CASE T = {}
        <3>1. Cardinality(T) = 0 /\ 1..0 = {}
            BY <2>1, FS_EmptySet
        <3>2. Enumerates([i \in {} |-> i], T, R)
            BY <3>1 DEF Enumerates
        <3>3. QED BY <3>2
    <2>2. CASE T # {}
        <3>1. IsFiniteSet(T) /\ StrictTotalOrder(R, T)
            BY FS_Subset DEF StrictTotalOrder
        <3>2. PICK a \in T : \A y \in T \ {a} : <<y, a>> \in R
            BY <2>2, <3>1, LastOfFinite
        <3>3. T \ {a} \in G
            BY <1>1, <3>2
        <3>4. PICK p : Enumerates(p, T \ {a}, R)
            BY <3>3
        <3>5. QED BY <3>1, <3>2, <3>4, EnumerateOneMore
    <2>3. QED BY <2>1, <2>2
<1> HIDE DEF G
<1>2. SUBSET S \subseteq G
    BY <1>1, SubsetInduction
<1>3. S \in G
    BY <1>2
<1>4. QED BY <1>3 DEF G
=============================================================================
