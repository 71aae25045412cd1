---------------------------- MODULE FoldTheorems ----------------------------
(***************************************************************************)
(* Induction over the numbers and over finite sets in the form the provers *)
(* take it: for the set of those that have a property. With it the folds   *)
(* of the community modules: what SumFunctionOnSet gives for every         *)
(* function of integers, and the values a fold goes through. Then what the *)
(* list of a finite set by rank is, for any strict order of its members.   *)
(***************************************************************************)
EXTENDS Integers, FiniteSets, FiniteSetsExt, Functions, FiniteSetTheorems, WellFoundedInduction, TLAPS

(* Sets of natural numbers: the smallest member, induction *)

\* A set of natural numbers has a smallest member.
LEMMA SmallestExists ==
  ASSUME NEW S \in SUBSET Nat, S # {}
  PROVE  \E i \in S : \A j \in S : i <= j
<1> DEFINE R == OpToRel(<, Nat)
<1>1. IsWellFoundedOn(R, Nat)
  BY NatLessThanWellFounded
<1>2. PICK x \in S : \A y \in S : ~ (<<y, x>> \in R)
  <2> HIDE DEF R
  <2> QED BY <1>1, WFMin
<1>3. \A y \in S : <<y, x>> \in R <=> y < x
  BY DEF OpToRel
<1> HIDE DEF R
<1>4. \A y \in S : ~ (y < x)
  BY <1>2, <1>3
<1>5. x \in Nat /\ \A y \in S : y \in Nat
  OBVIOUS
<1> QED BY <1>4, <1>5

\* Induction, for the set of numbers that have a property.
LEMMA AllNumbers ==
  ASSUME NEW S \in SUBSET Nat, 0 \in S, \A n \in S : n + 1 \in S
  PROVE  S = Nat
<1>1. SUFFICES ASSUME Nat \ S # {} PROVE FALSE
  OBVIOUS
<1>2. PICK n \in Nat \ S : \A m \in Nat \ S : n <= m
  BY <1>1, SmallestExists
<1>3. n - 1 \in Nat /\ n - 1 \notin S
  <2>1. n # 0 /\ n - 1 \in Nat
    BY <1>2
  <2>2. n - 1 + 1 = n
    BY <2>1
  <2> QED BY <1>2, <2>1, <2>2
<1>4. n - 1 \in Nat \ S /\ ~(n <= n - 1)
  BY <1>2, <1>3
<1> QED BY <1>2, <1>4

\* The numbers up to n are n numbers.
LEMMA FirstNumbers ==
  ASSUME NEW n \in Nat
  PROVE  IsFiniteSet(1..n) /\ Cardinality(1..n) = n
<1>1. IsFiniteSet(1..n) /\ Cardinality(1..n) = IF 1 > n THEN 0 ELSE n - 1 + 1
  BY FS_Interval
<1> QED BY <1>1

\* Induction over the subsets of a finite set, for the set of those that have a property.
LEMMA AllSubsets ==
  ASSUME NEW S, IsFiniteSet(S), NEW Q \in SUBSET SUBSET S, {} \in Q,
         \A T \in SUBSET S : \A x \in S \ T : T \in Q => T \cup {x} \in Q
  PROVE  Q = SUBSET S
<1> DEFINE N == {n \in Nat : \A T \in SUBSET S : Cardinality(T) = n => T \in Q}
<1>1. 0 \in N
  <2>1. \A T \in SUBSET S : Cardinality(T) = 0 => T = {}
    BY FS_Subset, FS_EmptySet
  <2> QED BY <2>1
<1>2. ASSUME NEW n \in N PROVE n + 1 \in N
  <2>1. SUFFICES ASSUME NEW T \in SUBSET S, Cardinality(T) = n + 1 PROVE T \in Q
    BY <1>2
  <2>2. IsFiniteSet(T) /\ T # {}
    BY <1>2, <2>1, FS_Subset, FS_EmptySet
  <2>3. PICK x \in T : TRUE
    BY <2>2
  <2>4. Cardinality(T \ {x}) = n
    <3>1. Cardinality(T \ {x}) = Cardinality(T) - 1
      BY <2>2, <2>3, FS_RemoveElement
    <3> QED BY <1>2, <2>1, <3>1
  <2>5. T \ {x} \in Q /\ x \in S \ (T \ {x}) /\ (T \ {x}) \cup {x} = T
    BY <1>2, <2>4
  <2> QED BY <2>5
<1>3. N = Nat
  <2> HIDE DEF N
  <2>1. N \in SUBSET Nat
    BY DEF N
  <2> QED BY <1>1, <1>2, <2>1, AllNumbers
<1>4. ASSUME NEW T \in SUBSET S PROVE T \in Q
  <2>1. Cardinality(T) \in Nat
    BY FS_Subset, FS_CardinalityType
  <2> QED BY <1>3, <2>1
<1> QED BY <1>4

(* Sums *)

\* What SumFunctionOnSet evaluates: the sum of every subset from a smaller one.
Iterates(f, S, it) ==
  it = [s \in SUBSET S |-> IF s = {} THEN 0 ELSE LET x == CHOOSE x \in s : TRUE IN f[x] + it[s \ {x}]]

LEMMA SumIsIterated ==
  ASSUME NEW f, NEW S, NEW it, Iterates(f, S, it)
  PROVE  \E jt : Iterates(f, S, jt) /\ SumFunctionOnSet(f, S) = jt[S]
BY DEF SumFunctionOnSet, FoldFunctionOnSet, MapThenFoldSet, Iterates

\* As far as the sets of n members.
LEMMA IterationExists ==
  ASSUME NEW f, NEW S, IsFiniteSet(S)
  PROVE  \E it : Iterates(f, S, it)
<1> DEFINE First(s) == CHOOSE x \in s : TRUE
           Small(n) == {s \in SUBSET S : Cardinality(s) <= n}
           UpTo(n, it) == it = [s \in Small(n) |-> IF s = {} THEN 0 ELSE f[First(s)] + it[s \ {First(s)}]]
           N == {n \in Nat : \E it : UpTo(n, it)}
<1>0. \A s \in SUBSET S : s # {} => /\ First(s) \in s
                                    /\ IsFiniteSet(s) /\ Cardinality(s) \in Nat
                                    /\ Cardinality(s \ {First(s)}) = Cardinality(s) - 1
  <2>1. ASSUME NEW s \in SUBSET S, s # {} PROVE First(s) \in s
    BY <2>1
  <2> HIDE DEF First
  <2> QED BY <2>1, FS_Subset, FS_CardinalityType, FS_RemoveElement
<1>1. 0 \in N
  <2>1. \A s \in SUBSET S : Cardinality(s) <= 0 <=> s = {}
    BY FS_Subset, FS_EmptySet, FS_CardinalityType
  <2>2. Small(0) = {{}}
    BY <2>1
  <2>3. UpTo(0, [s \in {{}} |-> 0])
    BY <2>2
  <2> QED BY <2>3
<1>2. ASSUME NEW n \in N PROVE n + 1 \in N
  <2>1. PICK it : UpTo(n, it)
    BY <1>2
  <2> DEFINE jt == [s \in Small(n + 1) |-> IF s = {} THEN 0 ELSE f[First(s)] + it[s \ {First(s)}]]
  <2>2. n \in Nat
    BY <1>2
  <2>3. ASSUME NEW s \in Small(n + 1), s # {} PROVE s \ {First(s)} \in Small(n)
    BY <1>0, <2>2, <2>3
  <2>4. \A s \in Small(n) : jt[s] = it[s]
    <3>1. Small(n) \subseteq Small(n + 1)
      BY <2>2, FS_Subset, FS_CardinalityType
    <3> HIDE DEF First, Small
    <3> QED BY <2>1, <3>1
  <2>5. UpTo(n + 1, jt)
    <3>1. ASSUME NEW s \in Small(n + 1), s # {} PROVE it[s \ {First(s)}] = jt[s \ {First(s)}]
      BY <2>3, <2>4, <3>1
    <3> HIDE DEF First, Small
    <3> QED BY <3>1
  <2> HIDE DEF jt, UpTo
  <2> QED BY <2>2, <2>5
<1>3. N = Nat
  <2> HIDE DEF N
  <2>1. N \in SUBSET Nat
    BY DEF N
  <2> QED BY <1>1, <1>2, <2>1, AllNumbers
<1>4. PICK it : UpTo(Cardinality(S), it)
  BY <1>3, FS_CardinalityType
<1>5. Small(Cardinality(S)) = SUBSET S
  BY FS_Subset
<1>6. Iterates(f, S, it)
  BY <1>4, <1>5 DEF Iterates
<1> QED BY <1>6

\* Two iterations of functions that agree on a set agree on its subsets.
LEMMA IterationsAgree ==
  ASSUME NEW f, NEW g, NEW S, IsFiniteSet(S), NEW T \in SUBSET S, \A x \in T : f[x] = g[x],
         NEW it, Iterates(f, S, it), NEW jt, Iterates(g, T, jt)
  PROVE  \A s \in SUBSET T : it[s] = jt[s]
<1> DEFINE First(s) == CHOOSE x \in s : TRUE
           N == {n \in Nat : \A s \in SUBSET T : Cardinality(s) = n => it[s] = jt[s]}
<1>1. it[{}] = 0 /\ jt[{}] = 0
  BY DEF Iterates
<1>2. ASSUME NEW s \in SUBSET T, s # {}
      PROVE  /\ First(s) \in s /\ Cardinality(s) \in Nat
             /\ s \ {First(s)} \in SUBSET T /\ Cardinality(s \ {First(s)}) = Cardinality(s) - 1
             /\ it[s] = f[First(s)] + it[s \ {First(s)}]
             /\ jt[s] = f[First(s)] + jt[s \ {First(s)}]
  <2>1. First(s) \in s
    BY <1>2
  <2>2. it[s] = f[First(s)] + it[s \ {First(s)}] /\ jt[s] = g[First(s)] + jt[s \ {First(s)}]
    BY <1>2 DEF Iterates
  <2> HIDE DEF First
  <2>3. f[First(s)] = g[First(s)]
    BY <2>1
  <2>4. Cardinality(s) \in Nat /\ Cardinality(s \ {First(s)}) = Cardinality(s) - 1
    BY <2>1, FS_Subset, FS_CardinalityType, FS_RemoveElement
  <2> QED BY <2>1, <2>2, <2>3, <2>4
<1> HIDE DEF First
<1>3. 0 \in N
  <2>1. \A s \in SUBSET T : Cardinality(s) = 0 => s = {}
    BY FS_Subset, FS_EmptySet
  <2> QED BY <1>1, <2>1
<1>4. ASSUME NEW n \in N PROVE n + 1 \in N
  <2>1. SUFFICES ASSUME NEW s \in SUBSET T, Cardinality(s) = n + 1 PROVE it[s] = jt[s]
    BY <1>4
  <2>2. s # {}
    BY <1>4, <2>1, FS_EmptySet
  <2>3. Cardinality(s \ {First(s)}) = n
    BY <1>2, <1>4, <2>1, <2>2
  <2> QED BY <1>2, <1>4, <2>2, <2>3
<1>5. N = Nat
  <2> HIDE DEF N
  <2>1. N \in SUBSET Nat
    BY DEF N
  <2> QED BY <1>3, <1>4, <2>1, AllNumbers
<1> QED BY <1>5, FS_Subset, FS_CardinalityType

\* The order of the summands is of no consequence.
LEMMA IterationSplits ==
  ASSUME NEW f, NEW S, IsFiniteSet(S), \A x \in S : f[x] \in Int, NEW it, Iterates(f, S, it)
  PROVE  \A s \in SUBSET S : it[s] \in Int /\ \A y \in s : it[s] = f[y] + it[s \ {y}]
<1> DEFINE First(s) == CHOOSE x \in s : TRUE
           Splits(s) == it[s] \in Int /\ \A y \in s : it[s] = f[y] + it[s \ {y}]
           N == {n \in Nat : \A s \in SUBSET S : Cardinality(s) <= n => Splits(s)}
<1>1. it[{}] = 0
  BY DEF Iterates
<1>2. ASSUME NEW s \in SUBSET S, s # {}
      PROVE  First(s) \in s /\ it[s] = f[First(s)] + it[s \ {First(s)}]
  BY <1>2 DEF Iterates
<1> HIDE DEF First
<1>3. ASSUME NEW s \in SUBSET S, NEW y \in s
      PROVE  /\ s \ {y} \in SUBSET S /\ Cardinality(s) \in Nat
             /\ Cardinality(s \ {y}) = Cardinality(s) - 1
  BY FS_Subset, FS_CardinalityType, FS_RemoveElement
<1>4. 0 \in N
  <2>1. \A s \in SUBSET S : Cardinality(s) <= 0 => s = {}
    BY FS_Subset, FS_EmptySet, FS_CardinalityType
  <2>2. Splits({})
    BY <1>1
  <2> HIDE DEF Splits
  <2> QED BY <2>1, <2>2
<1>5. ASSUME NEW n \in N PROVE n + 1 \in N
  <2>1. SUFFICES ASSUME NEW s \in SUBSET S, Cardinality(s) <= n + 1, s # {} PROVE Splits(s)
    <3>1. n \in Nat /\ Splits({})
      BY <1>1, <1>5
    <3> HIDE DEF Splits
    <3> QED BY <1>5, <2>1, <3>1
  <2>2. \A y \in s : Splits(s \ {y})
    <3>1. \A y \in s : s \ {y} \in SUBSET S /\ Cardinality(s \ {y}) <= n
      BY <1>3, <1>5, <2>1
    <3> HIDE DEF Splits
    <3> QED BY <1>5, <3>1
  <2> DEFINE x == First(s)
  <2>3. x \in s /\ it[s] = f[x] + it[s \ {x}]
    BY <1>2, <2>1
  <2> HIDE DEF x
  <2>4. it[s] \in Int
    <3>1. Splits(s \ {x})
      <4> HIDE DEF Splits
      <4> QED BY <2>2, <2>3
    <3>2. f[x] \in Int
      BY <2>3
    <3> QED BY <2>3, <3>1, <3>2
  <2>5. ASSUME NEW y \in s, y # x PROVE it[s] = f[y] + it[s \ {y}]
    <3>1. y \in s \ {x} /\ x \in s \ {y} /\ (s \ {x}) \ {y} = (s \ {y}) \ {x}
      BY <2>3, <2>5
    <3>2. it[s \ {x}] = f[y] + it[(s \ {x}) \ {y}] /\ it[s \ {y}] = f[x] + it[(s \ {x}) \ {y}]
      <4>1. Splits(s \ {x}) /\ Splits(s \ {y})
        <5> HIDE DEF Splits
        <5> QED BY <2>2, <2>3, <3>1
      <4> QED BY <3>1, <4>1
    <3>3. (s \ {x}) \ {y} \in SUBSET S /\ it[(s \ {x}) \ {y}] \in Int
      <4>1. Cardinality((s \ {x}) \ {y}) <= n
        <5>1. Cardinality(s \ {x}) = Cardinality(s) - 1 /\ s \ {x} \in SUBSET S /\ Cardinality(s) \in Nat
          BY <1>3, <2>3
        <5>2. Cardinality((s \ {x}) \ {y}) = Cardinality(s \ {x}) - 1
          BY <1>3, <3>1, <5>1
        <5> QED BY <1>5, <2>1, <5>1, <5>2
      <4> QED BY <1>5, <4>1
    <3>4. f[x] \in Int /\ f[y] \in Int
      BY <2>3
    <3> QED BY <2>3, <3>2, <3>3, <3>4
  <2> QED BY <2>3, <2>4, <2>5
<1>6. N = Nat
  <2> HIDE DEF N
  <2>1. N \in SUBSET Nat
    BY DEF N
  <2> QED BY <1>4, <1>5, <2>1, AllNumbers
<1>7. \A s \in SUBSET S : Splits(s)
  <2> HIDE DEF Splits
  <2> QED BY <1>6, FS_Subset, FS_CardinalityType
<1> QED BY <1>7

LEMMA SumOfNothing == ASSUME NEW f PROVE SumFunctionOnSet(f, {}) = 0
<1>1. PICK it : Iterates(f, {}, it) /\ SumFunctionOnSet(f, {}) = it[{}]
  BY IterationExists, SumIsIterated, FS_EmptySet
<1> QED BY <1>1 DEF Iterates

LEMMA SumIsInteger ==
  ASSUME NEW f, NEW S, IsFiniteSet(S), \A x \in S : f[x] \in Int
  PROVE  SumFunctionOnSet(f, S) \in Int
<1>1. PICK it : Iterates(f, S, it) /\ SumFunctionOnSet(f, S) = it[S]
  BY IterationExists, SumIsIterated
<1>2. it[S] \in Int
  BY <1>1, IterationSplits
<1> QED BY <1>1, <1>2

LEMMA SumsAgree ==
  ASSUME NEW f, NEW g, NEW S, IsFiniteSet(S), \A x \in S : f[x] = g[x]
  PROVE  SumFunctionOnSet(f, S) = SumFunctionOnSet(g, S)
<1>1. PICK it : Iterates(f, S, it) /\ SumFunctionOnSet(f, S) = it[S]
  BY IterationExists, SumIsIterated
<1>2. PICK jt : Iterates(g, S, jt) /\ SumFunctionOnSet(g, S) = jt[S]
  BY IterationExists, SumIsIterated
<1>3. it[S] = jt[S]
  <2>1. S \in SUBSET S
    OBVIOUS
  <2> QED BY <1>1, <1>2, <2>1, IterationsAgree
<1> QED BY <1>1, <1>2, <1>3

\* Any summand may be taken out first.
LEMMA SumSplits ==
  ASSUME NEW f, NEW S, IsFiniteSet(S), \A x \in S : f[x] \in Int, NEW y \in S
  PROVE  SumFunctionOnSet(f, S) = f[y] + SumFunctionOnSet(f, S \ {y})
<1>1. PICK it : Iterates(f, S, it) /\ SumFunctionOnSet(f, S) = it[S]
  BY IterationExists, SumIsIterated
<1>2. IsFiniteSet(S \ {y}) /\ S \ {y} \in SUBSET S
  BY FS_RemoveElement
<1>3. PICK jt : Iterates(f, S \ {y}, jt) /\ SumFunctionOnSet(f, S \ {y}) = jt[S \ {y}]
  BY <1>2, IterationExists, SumIsIterated
<1>4. it[S \ {y}] = jt[S \ {y}]
  <2> DEFINE T == S \ {y}
  <2>1. T \in SUBSET S /\ \A x \in T : f[x] = f[x]
    OBVIOUS
  <2>2. Iterates(f, T, jt)
    BY <1>3
  <2> HIDE DEF T
  <2>3. \A s \in SUBSET T : it[s] = jt[s]
    BY <1>1, <2>1, <2>2, IterationsAgree
  <2>4. it[T] = jt[T]
    BY <2>3
  <2> QED BY <2>4 DEF T
<1>5. it[S] = f[y] + it[S \ {y}]
  <2>1. \A s \in SUBSET S : it[s] \in Int /\ \A z \in s : it[s] = f[z] + it[s \ {z}]
    BY <1>1, IterationSplits
  <2> QED BY <2>1
<1> QED BY <1>1, <1>3, <1>4, <1>5

LEMMA SumAdds ==
  ASSUME NEW f, NEW S, IsFiniteSet(S), NEW y, y \notin S, f[y] \in Int, \A x \in S : f[x] \in Int
  PROVE  SumFunctionOnSet(f, S \cup {y}) = f[y] + SumFunctionOnSet(f, S)
<1>1. IsFiniteSet(S \cup {y}) /\ (S \cup {y}) \ {y} = S /\ y \in S \cup {y}
  BY FS_AddElement
<1>2. \A x \in S \cup {y} : f[x] \in Int
  OBVIOUS
<1>3. SumFunctionOnSet(f, S \cup {y}) = f[y] + SumFunctionOnSet(f, (S \cup {y}) \ {y})
  BY <1>1, <1>2, SumSplits
<1> QED BY <1>1, <1>3

\* One summand changes.
LEMMA SumChanges ==
  ASSUME NEW f, NEW g, NEW S, IsFiniteSet(S), \A x \in S : f[x] \in Int /\ g[x] \in Int,
         NEW y \in S, \A x \in S \ {y} : f[x] = g[x]
  PROVE  SumFunctionOnSet(g, S) = SumFunctionOnSet(f, S) + g[y] - f[y]
<1>1. IsFiniteSet(S \ {y})
  BY FS_RemoveElement
<1>2. SumFunctionOnSet(f, S \ {y}) = SumFunctionOnSet(g, S \ {y})
  BY <1>1, SumsAgree
<1>3. SumFunctionOnSet(f, S \ {y}) \in Int
  BY <1>1, SumIsInteger
<1>4. SumFunctionOnSet(f, S) = f[y] + SumFunctionOnSet(f, S \ {y})
  BY SumSplits
<1>5. SumFunctionOnSet(g, S) = g[y] + SumFunctionOnSet(g, S \ {y})
  BY SumSplits
<1>6. f[y] \in Int /\ g[y] \in Int
  OBVIOUS
<1> QED BY <1>2, <1>3, <1>4, <1>5, <1>6

\* A sum over the image of an injective function.
LEMMA SumOfImage ==
  ASSUME NEW f, NEW g, NEW h, NEW T, IsFiniteSet(T), \A a, b \in T : h[a] = h[b] => a = b,
         \A t \in T : f[h[t]] = g[t] /\ g[t] \in Int
  PROVE  SumFunctionOnSet(f, {h[t] : t \in T}) = SumFunctionOnSet(g, T)
<1> DEFINE Image(U) == {h[t] : t \in U}
           Q == {U \in SUBSET T : IsFiniteSet(Image(U)) /\ SumFunctionOnSet(f, Image(U)) = SumFunctionOnSet(g, U)}
<1>1. {} \in Q
  <2>1. Image({}) = {}
    OBVIOUS
  <2> HIDE DEF Image
  <2> QED BY <2>1, SumOfNothing, FS_EmptySet
<1>2. ASSUME NEW U \in SUBSET T, NEW x \in T \ U, U \in Q PROVE U \cup {x} \in Q
  <2>1. Image(U \cup {x}) = Image(U) \cup {h[x]} /\ h[x] \notin Image(U)
    OBVIOUS
  <2>2. \A y \in Image(U) : f[y] \in Int
    OBVIOUS
  <2>3. IsFiniteSet(U)
    BY FS_Subset
  <2> HIDE DEF Image
  <2>4. SumFunctionOnSet(f, Image(U) \cup {h[x]}) = f[h[x]] + SumFunctionOnSet(f, Image(U))
    <3>1. f[h[x]] \in Int
      OBVIOUS
    <3> QED BY <1>2, <2>1, <2>2, <3>1, SumAdds
  <2>5. SumFunctionOnSet(g, U \cup {x}) = g[x] + SumFunctionOnSet(g, U)
    <3>1. g[x] \in Int /\ \A y \in U : g[y] \in Int
      OBVIOUS
    <3> QED BY <2>3, <3>1, SumAdds
  <2>6. IsFiniteSet(Image(U) \cup {h[x]})
    BY <1>2, FS_AddElement
  <2> QED BY <1>2, <2>1, <2>4, <2>5, <2>6
<1> HIDE DEF Image
<1>3. Q = SUBSET T
  <2>1. Q \in SUBSET SUBSET T
    OBVIOUS
  <2> HIDE DEF Q
  <2> QED BY <1>1, <1>2, <2>1, AllSubsets
<1>4. T \in Q
  BY <1>3
<1> QED BY <1>4 DEF Image

\* Arguments that add nothing may be left out.
LEMMA SumOfPart ==
  ASSUME NEW f, NEW S, IsFiniteSet(S), NEW T \in SUBSET S,
         \A x \in T : f[x] \in Int, \A x \in S \ T : f[x] = 0
  PROVE  SumFunctionOnSet(f, S) = SumFunctionOnSet(f, T)
<1> DEFINE Q == {U \in SUBSET (S \ T) : SumFunctionOnSet(f, T \cup U) = SumFunctionOnSet(f, T)}
<1>1. {} \in Q
  <2>1. T \cup {} = T
    OBVIOUS
  <2> QED BY <2>1
<1>2. ASSUME NEW U \in SUBSET (S \ T), NEW x \in (S \ T) \ U, U \in Q
      PROVE  U \cup {x} \in Q
  <2>1. IsFiniteSet(T \cup U) /\ x \notin T \cup U /\ f[x] = 0 /\ f[x] \in Int
    BY FS_Subset
  <2>2. \A y \in T \cup U : f[y] \in Int
    OBVIOUS
  <2>3. SumFunctionOnSet(f, (T \cup U) \cup {x}) = f[x] + SumFunctionOnSet(f, T \cup U)
    BY <2>1, <2>2, SumAdds
  <2>4. SumFunctionOnSet(f, T \cup U) \in Int
    BY <2>1, <2>2, SumIsInteger
  <2>5. SumFunctionOnSet(f, (T \cup U) \cup {x}) = SumFunctionOnSet(f, T)
    BY <1>2, <2>1, <2>3, <2>4
  <2>6. (T \cup U) \cup {x} = T \cup (U \cup {x})
    OBVIOUS
  <2> QED BY <2>5, <2>6
<1>3. Q = SUBSET (S \ T)
  <2> HIDE DEF Q
  <2>1. IsFiniteSet(S \ T) /\ Q \in SUBSET SUBSET (S \ T)
    BY FS_Difference DEF Q
  <2> QED BY <1>1, <1>2, <2>1, AllSubsets
<1>4. S \ T \in Q /\ T \cup (S \ T) = S
  BY <1>3
<1> QED BY <1>4

\* The sum of two functions, argument by argument.
LEMMA SumOfSums ==
  ASSUME NEW f, NEW g, NEW h, NEW S, IsFiniteSet(S),
         \A x \in S : f[x] \in Int /\ g[x] \in Int /\ h[x] = f[x] + g[x]
  PROVE  SumFunctionOnSet(h, S) = SumFunctionOnSet(f, S) + SumFunctionOnSet(g, S)
<1> DEFINE Adds(U) == SumFunctionOnSet(h, U) = SumFunctionOnSet(f, U) + SumFunctionOnSet(g, U)
           Q == {U \in SUBSET S : Adds(U)}
<1>1. Adds({})
  BY SumOfNothing
<1>2. ASSUME NEW U \in SUBSET S, NEW x \in S \ U, Adds(U)
      PROVE  Adds(U \cup {x})
  <2>1. IsFiniteSet(U) /\ x \notin U
    BY FS_Subset
  <2>2. /\ \A y \in U : f[y] \in Int
        /\ \A y \in U : g[y] \in Int
        /\ \A y \in U : h[y] \in Int
        /\ f[x] \in Int /\ g[x] \in Int /\ h[x] = f[x] + g[x]
    OBVIOUS
  <2>3. SumFunctionOnSet(f, U) \in Int /\ SumFunctionOnSet(g, U) \in Int
    BY <2>1, <2>2, SumIsInteger
  <2>4. SumFunctionOnSet(f, U \cup {x}) = f[x] + SumFunctionOnSet(f, U)
    BY <2>1, <2>2, SumAdds
  <2>5. SumFunctionOnSet(g, U \cup {x}) = g[x] + SumFunctionOnSet(g, U)
    BY <2>1, <2>2, SumAdds
  <2>6. SumFunctionOnSet(h, U \cup {x}) = h[x] + SumFunctionOnSet(h, U)
    <3>1. h[x] \in Int
      BY <2>2
    <3> QED BY <2>1, <2>2, <3>1, SumAdds
  <2> QED BY <1>2, <2>2, <2>3, <2>4, <2>5, <2>6
<1>3. Q = SUBSET S
  <2> HIDE DEF Adds
  <2>1. {} \in Q /\ \A U \in SUBSET S : \A x \in S \ U : U \in Q => U \cup {x} \in Q
    BY <1>1, <1>2
  <2> HIDE DEF Q
  <2>2. Q \in SUBSET SUBSET S
    BY DEF Q
  <2> QED BY <2>1, <2>2, AllSubsets
<1> QED BY <1>3

\* Equal summands.
LEMMA SumOfEquals ==
  ASSUME NEW f, NEW S, IsFiniteSet(S), NEW n \in Int, \A x \in S : f[x] = n
  PROVE  SumFunctionOnSet(f, S) = n * Cardinality(S)
<1> DEFINE Counts(U) == SumFunctionOnSet(f, U) = n * Cardinality(U)
           Q == {U \in SUBSET S : Counts(U)}
<1>1. Counts({})
  BY SumOfNothing, FS_EmptySet
<1>2. ASSUME NEW U \in SUBSET S, NEW x \in S \ U, Counts(U)
      PROVE  Counts(U \cup {x})
  <2>1. IsFiniteSet(U) /\ x \notin U
    BY FS_Subset
  <2>2. f[x] = n /\ f[x] \in Int /\ \A y \in U : f[y] \in Int
    OBVIOUS
  <2>3. SumFunctionOnSet(f, U \cup {x}) = f[x] + SumFunctionOnSet(f, U)
    BY <2>1, <2>2, SumAdds
  <2>4. Cardinality(U \cup {x}) = Cardinality(U) + 1 /\ Cardinality(U) \in Nat
    BY <2>1, FS_AddElement, FS_CardinalityType
  <2>5. \A c \in Nat : n * (c + 1) = n + n * c
    OBVIOUS
  <2> QED BY <1>2, <2>2, <2>3, <2>4, <2>5
<1>3. Q = SUBSET S
  <2> HIDE DEF Counts
  <2>1. {} \in Q /\ \A U \in SUBSET S : \A x \in S \ U : U \in Q => U \cup {x} \in Q
    BY <1>1, <1>2
  <2> HIDE DEF Q
  <2>2. Q \in SUBSET SUBSET S
    BY DEF Q
  <2> QED BY <2>1, <2>2, AllSubsets
<1> QED BY <1>3

\* A sum of natural numbers is one, and no smaller than any of them.
LEMMA SumOfNaturals ==
  ASSUME NEW f, NEW S, IsFiniteSet(S), \A x \in S : f[x] \in Nat
  PROVE  SumFunctionOnSet(f, S) \in Nat
<1> DEFINE Q == {U \in SUBSET S : SumFunctionOnSet(f, U) \in Nat}
<1>1. {} \in Q
  BY SumOfNothing
<1>2. ASSUME NEW U \in SUBSET S, NEW x \in S \ U, U \in Q
      PROVE  U \cup {x} \in Q
  <2>1. IsFiniteSet(U) /\ x \notin U
    BY FS_Subset
  <2>2. f[x] \in Int /\ f[x] \in Nat /\ \A y \in U : f[y] \in Int
    OBVIOUS
  <2>3. SumFunctionOnSet(f, U \cup {x}) = f[x] + SumFunctionOnSet(f, U)
    BY <2>1, <2>2, SumAdds
  <2> QED BY <1>2, <2>2, <2>3
<1>3. Q = SUBSET S
  <2> HIDE DEF Q
  <2>2. Q \in SUBSET SUBSET S
    BY DEF Q
  <2> QED BY <1>1, <1>2, <2>2, AllSubsets
<1> QED BY <1>3

-----------------------------------------------------------------------------
(* Folds *)

\* The largest number of a set of the first n.
LEMMA MaxOfSome ==
  ASSUME NEW n \in Nat, NEW s \in SUBSET (1..n), s # {}
  PROVE  Max(s) \in s /\ \A i \in s : i <= Max(s)
<1> DEFINE D == {n - i : i \in s}
<1>1. D \in SUBSET Nat /\ D # {}
  <2>1. \A i \in s : n - i \in Nat
    OBVIOUS
  <2>2. PICK i \in s : TRUE
    OBVIOUS
  <2>3. n - i \in D
    OBVIOUS
  <2> QED BY <2>1, <2>3
<1>2. PICK d \in D : \A e \in D : d <= e
  BY <1>1, SmallestExists
<1>3. PICK i \in s : d = n - i
  OBVIOUS
<1>4. \A j \in s : i >= j
  <2> SUFFICES ASSUME NEW j \in s PROVE i >= j
    OBVIOUS
  <2>1. n - j \in D /\ i \in Int /\ j \in Int
    OBVIOUS
  <2>2. n - i <= n - j
    BY <1>2, <1>3, <2>1
  <2> QED BY <2>1, <2>2
<1>5. Max(s) \in s /\ \A j \in s : Max(s) >= j
  BY <1>4 DEF Max
<1> QED BY <1>5

\* What the members of S go through in a fold with H, from the largest down.
IsFold(S, base, H, it) ==
    it = [s \in SUBSET S |-> IF s = {} THEN base ELSE H[Max(s)][it[s \ {Max(s)}]]]

\* A fold of a finite set, from its largest member down, is some function on its subsets.
LEMMA FoldExists ==
  ASSUME NEW S, IsFiniteSet(S), \A s \in SUBSET S : s # {} => Max(s) \in s,
         NEW V, NEW base \in V, NEW H,
         \A i \in S, v \in V : H[i][v] \in V
  PROVE  \E it : it \in [SUBSET S -> V] /\ IsFold(S, base, H, it)
<1> DEFINE Small(n) == {s \in SUBSET S : Cardinality(s) <= n}
           UpTo(n, it) == /\ it \in [Small(n) -> V]
                          /\ \A s \in Small(n) : it[s] = IF s = {} THEN base
                                                         ELSE H[Max(s)][it[s \ {Max(s)}]]
           N == {n \in Nat : \E it : UpTo(n, it)}
<1>0. \A s \in SUBSET S : s # {} => /\ Max(s) \in s /\ Max(s) \in S
                                    /\ IsFiniteSet(s) /\ Cardinality(s) \in Nat
                                    /\ Cardinality(s \ {Max(s)}) = Cardinality(s) - 1
  BY FS_Subset, FS_CardinalityType, FS_RemoveElement
<1>1. 0 \in N
  <2>1. \A s \in SUBSET S : Cardinality(s) <= 0 <=> s = {}
    BY FS_Subset, FS_EmptySet, FS_CardinalityType
  <2>2. Small(0) = {{}}
    BY <2>1
  <2>3. UpTo(0, [s \in {{}} |-> base])
    BY <2>2
  <2> QED BY <2>3
<1>2. ASSUME NEW n \in N PROVE n + 1 \in N
  <2>1. PICK it : UpTo(n, it)
    BY <1>2
  <2> DEFINE jt == [s \in Small(n + 1) |-> IF s = {} THEN base ELSE H[Max(s)][it[s \ {Max(s)}]]]
  <2>2. n \in Nat
    BY <1>2
  <2>3. ASSUME NEW s \in Small(n + 1), s # {} PROVE s \ {Max(s)} \in Small(n)
    <3>1. s \in SUBSET S /\ Cardinality(s) <= n + 1 /\ s \ {Max(s)} \in SUBSET S
      OBVIOUS
    <3>2. Cardinality(s) \in Nat /\ Cardinality(s \ {Max(s)}) = Cardinality(s) - 1
      BY <1>0, <2>3, <3>1
    <3> QED BY <2>2, <3>1, <3>2
  <2>4. \A s \in Small(n) : jt[s] = it[s]
    <3>1. Small(n) \subseteq Small(n + 1)
      BY <2>2, FS_Subset, FS_CardinalityType
    <3> HIDE DEF Small
    <3> QED BY <2>1, <3>1
  <2>5. jt \in [Small(n + 1) -> V]
    <3>1. ASSUME NEW s \in Small(n + 1), s # {} PROVE H[Max(s)][it[s \ {Max(s)}]] \in V
      <4>1. it[s \ {Max(s)}] \in V /\ Max(s) \in S
        BY <1>0, <2>1, <2>3, <3>1
      <4> QED BY <4>1
    <3> HIDE DEF Small
    <3> QED BY <3>1
  <2>6. UpTo(n + 1, jt)
    <3>1. ASSUME NEW s \in Small(n + 1), s # {} PROVE it[s \ {Max(s)}] = jt[s \ {Max(s)}]
      BY <2>3, <2>4, <3>1
    <3>2. \A s \in Small(n + 1) : jt[s] = IF s = {} THEN base ELSE H[Max(s)][jt[s \ {Max(s)}]]
      <4> HIDE DEF Small
      <4> QED BY <3>1
    <3> HIDE DEF jt
    <3> QED BY <2>5, <3>2
  <2> HIDE DEF jt, UpTo
  <2> QED BY <2>2, <2>6
<1>3. N = Nat
  <2> HIDE DEF N
  <2>1. N \in SUBSET Nat
    BY DEF N
  <2> QED BY <1>1, <1>2, <2>1, AllNumbers
<1>4. PICK it : UpTo(Cardinality(S), it)
  BY <1>3, FS_CardinalityType
<1>5. Small(Cardinality(S)) = SUBSET S
  BY FS_Subset
<1>6. /\ it \in [SUBSET S -> V]
      /\ \A s \in SUBSET S : it[s] = IF s = {} THEN base ELSE H[Max(s)][it[s \ {Max(s)}]]
  <2> HIDE DEF Small
  <2> QED BY <1>4, <1>5
<1>7. it = [s \in SUBSET S |-> IF s = {} THEN base ELSE H[Max(s)][it[s \ {Max(s)}]]]
  BY <1>6
<1> QED BY <1>6, <1>7 DEF IsFold

\* What a fold over a sequence evaluates: the value after i members from the
\* value after one less.
LEMMA FoldSteps ==
  ASSUME NEW n \in Nat, NEW V, NEW base \in V, NEW H,
         \A i \in 1..n, v \in V : H[i][v] \in V
  PROVE  \E it : it \in [SUBSET (1..n) -> V] /\ IsFold(1..n, base, H, it)
<1>1. \A s \in SUBSET (1..n) : s # {} => Max(s) \in s
  BY MaxOfSome
<1>2. IsFiniteSet(1..n)
  BY FirstNumbers
<1> DEFINE D == 1..n
<1> HIDE DEF D
<1> QED BY <1>1, <1>2, FoldExists DEF D

\* The first i numbers, as such a fold takes them apart.
LEMMA FirstMembers ==
  ASSUME NEW n \in Nat
  PROVE  /\ \A i \in 1..n : /\ 1..i \in SUBSET (1..n) /\ 1..i # {} /\ Max(1..i) = i
                            /\ (1..i) \ {i} = 1..(i - 1)
         /\ \A s \in SUBSET (1..n) : s # {} => Max(s) \in 1..n
         /\ 1..0 = {} /\ {} \in SUBSET (1..n)
<1>1. ASSUME NEW i \in 1..n
      PROVE  /\ 1..i \in SUBSET (1..n) /\ 1..i # {} /\ Max(1..i) = i
             /\ (1..i) \ {i} = 1..(i - 1)
  <2>1. 1..i \in SUBSET (1..n) /\ i \in 1..i
    OBVIOUS
  <2>2. Max(1..i) \in 1..i /\ i <= Max(1..i)
    BY <2>1, MaxOfSome
  <2>3. Max(1..i) = i
    BY <2>2
  <2>4. (1..i) \ {i} = 1..(i - 1)
    OBVIOUS
  <2> QED BY <2>1, <2>3, <2>4
<1>2. \A s \in SUBSET (1..n) : s # {} => Max(s) \in 1..n
  BY MaxOfSome
<1>3. 1..0 = {} /\ {} \in SUBSET (1..n)
  OBVIOUS
<1> QED BY <1>1, <1>2, <1>3

\* What a recursion over the numbers up to n gives.
IsRecursion(n, base, H, g) == g[0] = base /\ \A i \in 1..n : g[i] = H[i][g[i - 1]]

\* Every such recursion has a solution.
LEMMA RecursionExists ==
  ASSUME NEW n \in Nat, NEW V, NEW base \in V, NEW H, \A i \in 1..n, v \in V : H[i][v] \in V
  PROVE  \E g : g \in [0..n -> V] /\ IsRecursion(n, base, H, g)
<1>1. PICK it : it \in [SUBSET (1..n) -> V] /\ IsFold(1..n, base, H, it)
  BY FoldSteps
<1> DEFINE g == [i \in 0..n |-> it[1..i]]
<1>2. ASSUME NEW i \in 0..n PROVE 1..i \in SUBSET (1..n)
  OBVIOUS
<1>3. g \in [0..n -> V]
  BY <1>1, <1>2
<1>4. g[0] = base
  <2>1. g[0] = it[1..0]
    OBVIOUS
  <2> HIDE DEF g
  <2> QED BY <1>1, <2>1, FirstMembers DEF IsFold
<1>5. ASSUME NEW i \in 1..n PROVE g[i] = H[i][g[i - 1]]
  <2>1. g[i] = it[1..i] /\ g[i - 1] = it[1..(i - 1)]
    OBVIOUS
  <2> HIDE DEF g
  <2>2. 1..i \in SUBSET (1..n) /\ 1..i # {} /\ Max(1..i) = i /\ (1..i) \ {i} = 1..(i - 1)
    BY FirstMembers
  <2>3. it[1..i] = H[i][it[1..(i - 1)]]
    BY <1>1, <2>2 DEF IsFold
  <2> QED BY <2>1, <2>3
<1> HIDE DEF g
<1> QED BY <1>3, <1>4, <1>5 DEF IsRecursion

(* Sums over one, two and three members *)

LEMMA SumOfOne ==
  ASSUME NEW f, NEW a, f[a] \in Int
  PROVE  SumFunctionOnSet(f, {a}) = f[a]
<1>1. SumFunctionOnSet(f, {} \cup {a}) = f[a] + SumFunctionOnSet(f, {})
  BY FS_EmptySet, SumAdds
<1>2. {} \cup {a} = {a}
  OBVIOUS
<1> QED BY <1>1, <1>2, SumOfNothing

LEMMA SumOfTwo ==
  ASSUME NEW f, NEW a, NEW b, a # b, f[a] \in Int, f[b] \in Int
  PROVE  SumFunctionOnSet(f, {a, b}) = f[b] + f[a]
<1>1. SumFunctionOnSet(f, {a}) = f[a] /\ IsFiniteSet({a}) /\ b \notin {a}
  BY SumOfOne, FS_Singleton
<1> DEFINE S == {a}
<1>2. SumFunctionOnSet(f, S \cup {b}) = f[b] + SumFunctionOnSet(f, S)
  <2>1. \A x \in S : f[x] \in Int
    OBVIOUS
  <2> HIDE DEF S
  <2> QED BY <1>1, <2>1, SumAdds DEF S
<1>3. S \cup {b} = {a, b}
  OBVIOUS
<1> QED BY <1>1, <1>2, <1>3, Zenon

LEMMA SumOfThree ==
  ASSUME NEW f, NEW a, NEW b, NEW c, a # b, a # c, b # c, f[a] \in Int, f[b] \in Int, f[c] \in Int
  PROVE  SumFunctionOnSet(f, {a, b, c}) = f[c] + (f[b] + f[a])
<1> DEFINE S == {a, b}
<1>1. SumFunctionOnSet(f, S) = f[b] + f[a]
  BY SumOfTwo
<1>2. IsFiniteSet(S) /\ c \notin S /\ \A x \in S : f[x] \in Int
  <2>1. IsFiniteSet({a} \cup {b})
    BY FS_Singleton, FS_AddElement
  <2>2. {a} \cup {b} = S
    OBVIOUS
  <2> QED BY <2>1, <2>2
<1>3. SumFunctionOnSet(f, S \cup {c}) = f[c] + SumFunctionOnSet(f, S)
  <2> HIDE DEF S
  <2> QED BY <1>2, SumAdds
<1>4. S \cup {c} = {a, b, c}
  OBVIOUS
<1> QED BY <1>1, <1>3, <1>4, Zenon

-----------------------------------------------------------------------------
(* A set in an order *)

\* The pairs B are a strict order of S, total on it.
StrictlyOrders(S, B) ==
  /\ \A a \in S : <<a, a>> \notin B
  /\ \A a, b \in S : a # b => <<a, b>> \in B \/ <<b, a>> \in B
  /\ \A a, b, c \in S : <<a, b>> \in B /\ <<b, c>> \in B => <<a, c>> \in B

\* How many members come before x.
RankIn(S, B, x) == Cardinality({y \in S : <<y, x>> \in B})

\* A rank is below the number of members, and behind every rank that is before.
LEMMA RanksOrder ==
  ASSUME NEW S, IsFiniteSet(S), NEW B, StrictlyOrders(S, B), NEW a \in S
  PROVE  /\ RankIn(S, B, a) \in 0 .. Cardinality(S) - 1
         /\ \A b \in S : <<a, b>> \in B => RankIn(S, B, a) < RankIn(S, B, b)
<1> DEFINE Under(x) == {y \in S : <<y, x>> \in B}
<1>1. ASSUME NEW x \in S PROVE IsFiniteSet(Under(x)) /\ Cardinality(Under(x)) \in Nat
  <2>1. Under(x) \in SUBSET S
    OBVIOUS
  <2> HIDE DEF Under
  <2> QED BY <2>1, FS_Subset, FS_CardinalityType
<1>2. ASSUME NEW x \in S, NEW T \in SUBSET S, Under(x) \subseteq T, x \in T
      PROVE  Cardinality(Under(x)) < Cardinality(T)
  <2>1. x \notin Under(x)
    BY DEF StrictlyOrders
  <2>2. IsFiniteSet(T) /\ Cardinality(T) \in Nat
    BY FS_Subset, FS_CardinalityType
  <2> HIDE DEF Under
  <2>3. Cardinality(Under(x)) <= Cardinality(T) /\ Cardinality(T) # Cardinality(Under(x))
    BY <1>2, <2>1, <2>2, FS_Subset
  <2> QED BY <1>1, <2>2, <2>3
<1>3. Cardinality(Under(a)) < Cardinality(S)
  <2>1. S \in SUBSET S /\ Under(a) \subseteq S
    OBVIOUS
  <2> HIDE DEF Under
  <2> QED BY <1>2, <2>1
<1>4. ASSUME NEW b \in S, <<a, b>> \in B PROVE Cardinality(Under(a)) < Cardinality(Under(b))
  <2>1. Under(b) \in SUBSET S /\ Under(a) \subseteq Under(b) /\ a \in Under(b)
    BY <1>4 DEF StrictlyOrders
  <2> HIDE DEF Under
  <2> QED BY <1>2, <2>1
<1>5. Cardinality(S) \in Nat
  BY FS_CardinalityType
<1>6. \A x \in S : RankIn(S, B, x) = Cardinality(Under(x))
  BY DEF RankIn
<1> HIDE DEF Under
<1>7. RankIn(S, B, a) \in 0 .. Cardinality(S) - 1
  BY <1>1, <1>3, <1>5, <1>6
<1>8. \A b \in S : <<a, b>> \in B => RankIn(S, B, a) < RankIn(S, B, b)
  BY <1>4, <1>6
<1> QED BY <1>7, <1>8

\* The list of the members of each rank has every member once, in the order.
LEMMA RanksList ==
  ASSUME NEW S, IsFiniteSet(S), NEW B, StrictlyOrders(S, B), NEW q,
         \A k \in 1 .. Cardinality(S) : q[k] = CHOOSE x \in S : RankIn(S, B, x) = k - 1
  PROVE  /\ \A k \in 1 .. Cardinality(S) : q[k] \in S
         /\ \A x \in S : \E k \in 1 .. Cardinality(S) : q[k] = x
         /\ \A i, j \in 1 .. Cardinality(S) : i < j => <<q[i], q[j]>> \in B
<1> DEFINE n == Cardinality(S)
           P(s) == RankIn(S, B, s)
           f == [s \in S |-> P(s)]
<1>1. n \in Nat
  BY FS_CardinalityType
<1>2. \A s \in S : P(s) \in 0 .. n - 1
  BY RanksOrder
<1>3. \A a, b \in S : a # b => P(a) # P(b)
  <2> SUFFICES ASSUME NEW a \in S, NEW b \in S, a # b PROVE P(a) # P(b)
    OBVIOUS
  <2>1. <<a, b>> \in B => P(a) < P(b)
    BY RanksOrder
  <2>2. <<b, a>> \in B => P(b) < P(a)
    BY RanksOrder
  <2>3. P(a) \in Int /\ P(b) \in Int
    BY <1>1, <1>2
  <2> HIDE DEF P
  <2> QED BY <2>1, <2>2, <2>3 DEF StrictlyOrders
<1>4. f \in Injection(S, 0 .. n - 1)
  <2> HIDE DEF P
  <2> QED BY <1>2, <1>3 DEF Injection, IsInjective
<1>5. IsFiniteSet(0 .. n - 1) /\ Cardinality(0 .. n - 1) = n
  <2>1. n - 1 \in Int /\ 0 \in Int
    BY <1>1
  <2>2. IsFiniteSet(0 .. n - 1) /\ Cardinality(0 .. n - 1) = IF 0 > n - 1 THEN 0 ELSE (n - 1) - 0 + 1
    <3> HIDE DEF n
    <3> QED BY <2>1, FS_Interval
  <2> HIDE DEF n
  <2> QED BY <1>1, <2>2
<1>6. f \in Surjection(S, 0 .. n - 1)
  <2> DEFINE T == 0 .. n - 1
  <2>1. f \in Injection(S, T) /\ IsFiniteSet(T) /\ Cardinality(S) = Cardinality(T)
    BY <1>4, <1>5
  <2> HIDE DEF f, T, n
  <2>2. f \in Surjection(S, T)
    BY <2>1, FS_Injection
  <2> QED BY <2>2 DEF T
<1>7. \A p \in 0 .. n - 1 : \E s \in S : P(s) = p
  BY <1>6 DEF Surjection
<1>8. ASSUME NEW k \in 1..n PROVE q[k] \in S /\ P(q[k]) = k - 1
  <2>1. k - 1 \in 0 .. n - 1
    BY <1>1
  <2>2. q[k] = CHOOSE s \in S : P(s) = k - 1
    OBVIOUS
  <2>3. \E s \in S : P(s) = k - 1
    BY <1>7, <2>1
  <2> HIDE DEF P
  <2> QED BY <2>2, <2>3
<1>11. ASSUME NEW s \in S PROVE \E k \in 1..n : q[k] = s
  <2>1. P(s) \in 0 .. n - 1 /\ P(s) + 1 \in 1..n
    BY <1>1, <1>2
  <2>2. q[P(s) + 1] \in S /\ P(q[P(s) + 1]) = P(s)
    <3> DEFINE k == P(s) + 1
    <3>1. k \in 1..n /\ k - 1 = P(s)
      BY <1>1, <2>1
    <3> HIDE DEF k, P, n
    <3>2. q[k] \in S /\ P(q[k]) = P(s)
      BY <1>8, <3>1
    <3> QED BY <3>2 DEF k
  <2> HIDE DEF P, n
  <2> QED BY <1>3, <2>1, <2>2
<1>12. ASSUME NEW i \in 1..n, NEW j \in 1..n, i < j PROVE <<q[i], q[j]>> \in B
  <2>1. q[i] \in S /\ q[j] \in S /\ P(q[i]) = i - 1 /\ P(q[j]) = j - 1
    BY <1>8
  <2>2. PICK a \in S, b \in S : a = q[i] /\ b = q[j]
    BY <2>1
  <2>3. P(a) < P(b) /\ P(a) \in Int /\ P(b) \in Int
    BY <1>1, <1>12, <2>1, <2>2
  <2>4. <<b, a>> \in B => P(b) < P(a)
    BY RanksOrder
  <2> HIDE DEF P
  <2>5. <<a, b>> \in B
    <3>1. a # b
      BY <2>3
    <3> QED BY <2>3, <2>4, <3>1 DEF StrictlyOrders
  <2> QED BY <2>2, <2>5
<1> QED BY <1>8, <1>11, <1>12
=============================================================================
