---------------------------- MODULE SumTheorems ----------------------------
(***************************************************************************)
(* Facts about the sum of a function over a finite set (SumFunctionOnSet   *)
(* of module Functions), for every set and every function, and about what  *)
(* is retained of a list (Retained of module Maps).                        *)
(*                                                                         *)
(* Induction is over sets of good numbers and good sets, which are first   *)
(* order: a set that has 0, or {}, and is closed under one element more    *)
(* has all of them.                                                        *)
(***************************************************************************)
EXTENDS Maps, FiniteSetsExt, Functions, FiniteSetTheorems, WellFoundedInduction, TLAPS

-----------------------------------------------------------------------------
(* Induction *)

\* Of any set of naturals that is not empty one is the least.
LEMMA LeastNat ==
  ASSUME NEW T, T \subseteq Nat, T # {}
  PROVE  \E n \in T : \A m \in T : n <= m
<1>1. PICK n \in T : \A m \in T : <<m, n>> \notin OpToRel(<, Nat)
  BY NatLessThanWellFounded, WFMin
<1>2. \A m \in T : ~(m < n)
  BY <1>1 DEF OpToRel
<1> QED BY <1>2

\* A set that has 0 and with n also n + 1 has every natural number.
LEMMA NatSetInduction ==
  ASSUME NEW G, 0 \in G, \A n \in Nat : n \in G => n + 1 \in G
  PROVE  Nat \subseteq G
<1> DEFINE T == Nat \ G
<1> SUFFICES ASSUME T # {} PROVE FALSE
  OBVIOUS
<1>1. PICK n \in T : \A m \in T : n <= m
  BY LeastNat
<1>2. n # 0 /\ n - 1 \in Nat /\ n - 1 \notin T
  BY <1>1
<1> QED BY <1>1, <1>2

\* A collection of sets that has {} and with a set also the one with an element more has every
\* subset of a finite set.
LEMMA FiniteSetInduction ==
  ASSUME NEW S, IsFiniteSet(S), NEW G, {} \in G,
         \A s \in SUBSET S : \A x \in S \ s : s \in G => s \union {x} \in G
  PROVE  SUBSET S \subseteq G
<1> DEFINE Good == {n \in Nat : \A s \in SUBSET S : Cardinality(s) = n => s \in G}
<1>1. 0 \in Good
  BY FS_Subset, FS_EmptySet
<1>2. ASSUME NEW n \in Nat, n \in Good PROVE n + 1 \in Good
  <2> SUFFICES ASSUME NEW s \in SUBSET S, Cardinality(s) = n + 1 PROVE s \in G
    OBVIOUS
  <2>1. IsFiniteSet(s) /\ s # {}
    BY FS_Subset, FS_EmptySet
  <2>2. PICK x \in s : TRUE
    BY <2>1
  <2>3. Cardinality(s \ {x}) = n
    <3>1. Cardinality(s \ {x}) = Cardinality(s) - 1
      BY <2>1, FS_RemoveElement
    <3> QED BY <3>1
  <2>4. s \ {x} \in G /\ x \in S \ (s \ {x}) /\ s \ {x} \in SUBSET S
    BY <1>2, <2>3
  <2>5. (s \ {x}) \union {x} = s
    OBVIOUS
  <2> QED BY <2>4, <2>5
<1>3. Nat \subseteq Good
  <2> HIDE DEF Good
  <2> QED BY <1>1, <1>2, NatSetInduction
<1>4. \A s \in SUBSET S : Cardinality(s) \in Nat
  BY FS_Subset, FS_CardinalityType
<1> QED BY <1>3, <1>4

-----------------------------------------------------------------------------
(* The recursion of the sum *)

First(s) == CHOOSE x \in s : TRUE

\* A function that sums f over every set of D, taking the first element each time.
Sums(g, f, D) ==
  g = [s \in D |-> IF s = {} THEN 0 ELSE f[First(s)] + g[s \ {First(s)}]]

Solution(f, S) == CHOOSE g : Sums(g, f, SUBSET S)

LEMMA SumIsSolution ==
  ASSUME NEW f, NEW S
  PROVE  SumFunctionOnSet(f, S) = Solution(f, S)[S]
  BY DEF SumFunctionOnSet, FoldFunctionOnSet, MapThenFoldSet, Solution, Sums, First

\* There is such a function on the subsets of a finite set.
LEMMA SolutionExists ==
  ASSUME NEW f, NEW S, IsFiniteSet(S)
  PROVE  Sums(Solution(f, S), f, SUBSET S)
<1> DEFINE Sized(n) == {s \in SUBSET S : Cardinality(s) <= n}
           Good == {n \in Nat : \E g : Sums(g, f, Sized(n))}
<1>0. \A s \in SUBSET S : IsFiniteSet(s) /\ Cardinality(s) \in Nat /\ Cardinality(s) <= Cardinality(S)
  BY FS_Subset, FS_CardinalityType
<1>e. \A s \in SUBSET S : s # {} => /\ First(s) \in s /\ s \ {First(s)} \in SUBSET S
                                     /\ Cardinality(s \ {First(s)}) = Cardinality(s) - 1
  <2> TAKE s \in SUBSET S
  <2> HAVE s # {}
  <2>1. First(s) \in s
    BY DEF First
  <2> QED BY <2>1, <1>0, FS_RemoveElement
<1>1. 0 \in Good
  <2> DEFINE g == [s \in Sized(0) |-> 0]
  <2>1. \A s \in Sized(0) : s = {}
    BY <1>0, FS_EmptySet
  <2>2. Sums(g, f, Sized(0))
    BY <2>1 DEF Sums
  <2> QED BY <2>2
<1>2. ASSUME NEW n \in Nat, n \in Good PROVE n + 1 \in Good
  <2>1. PICK g : Sums(g, f, Sized(n))
    BY <1>2
  <2> DEFINE h == [s \in Sized(n + 1) |-> IF s \in Sized(n) THEN g[s] ELSE f[First(s)] + g[s \ {First(s)}]]
  <2>2. \A s \in Sized(n + 1) : s # {} => s \ {First(s)} \in Sized(n)
    BY <1>0, <1>e
  <2>3. {} \in Sized(n) /\ Sized(n) \subseteq Sized(n + 1)
    BY <1>0, FS_EmptySet
  <2> HIDE DEF Sized
  <2>4. ASSUME NEW s \in Sized(n + 1)
        PROVE  h[s] = IF s = {} THEN 0 ELSE f[First(s)] + h[s \ {First(s)}]
    <3>1. CASE s = {}
      BY <3>1, <2>1, <2>3 DEF Sums
    <3>2. CASE s # {}
      <4>1. s \ {First(s)} \in Sized(n) /\ h[s \ {First(s)}] = g[s \ {First(s)}]
        BY <3>2, <2>2, <2>3
      <4>2. h[s] = f[First(s)] + g[s \ {First(s)}]
        BY <3>2, <2>1 DEF Sums
      <4> QED BY <3>2, <4>1, <4>2
    <3> QED BY <3>1, <3>2
  <2>5. Sums(h, f, Sized(n + 1))
    BY <2>4 DEF Sums
  <2> QED BY <2>5
<1>3. Nat \subseteq Good
  <2> HIDE DEF Good
  <2> QED BY <1>1, <1>2, NatSetInduction
<1>4. Cardinality(S) \in Nat /\ SUBSET S = Sized(Cardinality(S))
  BY <1>0
<1>5. \E g : Sums(g, f, SUBSET S)
  BY <1>3, <1>4
<1> QED BY <1>5 DEF Solution

\* Any two of them agree on the sets that both sum.
LEMMA SumsAgree ==
  ASSUME NEW f, NEW S, NEW T, IsFiniteSet(S), T \subseteq S, NEW g, NEW h,
         Sums(g, f, SUBSET S), Sums(h, f, SUBSET T)
  PROVE  g[T] = h[T]
<1> DEFINE Good == {n \in Nat : \A s \in SUBSET T : Cardinality(s) = n => g[s] = h[s]}
<1>0. \A s \in SUBSET T : IsFiniteSet(s) /\ Cardinality(s) \in Nat
  BY FS_Subset, FS_CardinalityType
<1>1. 0 \in Good
  <2>1. g[{}] = 0 /\ h[{}] = 0
    BY DEF Sums
  <2> QED BY <1>0, <2>1, FS_EmptySet
<1>2. ASSUME NEW n \in Nat, n \in Good PROVE n + 1 \in Good
  <2> SUFFICES ASSUME NEW s \in SUBSET T, Cardinality(s) = n + 1 PROVE g[s] = h[s]
    OBVIOUS
  <2>1. s # {} /\ IsFiniteSet(s)
    BY <1>0, FS_EmptySet
  <2>2. First(s) \in s
    BY <2>1 DEF First
  <2>3. Cardinality(s \ {First(s)}) = n
    <3>1. Cardinality(s \ {First(s)}) = Cardinality(s) - 1
      BY <2>1, <2>2, FS_RemoveElement
    <3> QED BY <3>1
  <2>4. g[s \ {First(s)}] = h[s \ {First(s)}]
    BY <1>2, <2>3
  <2> QED BY <2>1, <2>4 DEF Sums
<1>3. Nat \subseteq Good
  <2> HIDE DEF Good
  <2> QED BY <1>1, <1>2, NatSetInduction
<1> QED BY <1>0, <1>3

-----------------------------------------------------------------------------
(* Sums *)

\* The sum over nothing is 0.
THEOREM SumEmpty == ASSUME NEW f PROVE SumFunctionOnSet(f, {}) = 0
<1>1. Sums(Solution(f, {}), f, SUBSET {})
  BY SolutionExists, FS_EmptySet
<1>2. Solution(f, {})[{}] = 0
  BY <1>1 DEF Sums
<1> QED BY <1>2, SumIsSolution

\* The sum takes its elements one after the other.
LEMMA SumFirst ==
  ASSUME NEW f, NEW S, IsFiniteSet(S), S # {}
  PROVE  SumFunctionOnSet(f, S) = f[First(S)] + SumFunctionOnSet(f, S \ {First(S)})
<1> DEFINE T == S \ {First(S)}
           g == Solution(f, S)
           h == Solution(f, T)
<1>1. IsFiniteSet(T) /\ T \subseteq S
  BY FS_Subset
<1>2. Sums(g, f, SUBSET S) /\ Sums(h, f, SUBSET T)
  BY <1>1, SolutionExists
<1> HIDE DEF g, h
<1>3. g[T] = h[T]
  BY <1>1, <1>2, SumsAgree
<1>4. g[S] = f[First(S)] + g[T]
  BY <1>2 DEF Sums
<1> QED BY <1>3, <1>4, SumIsSolution DEF g, h

\* A sum of integers is an integer, of natural numbers a natural number.
THEOREM SumType ==
  ASSUME NEW S, IsFiniteSet(S), NEW f
  PROVE  /\ (\A x \in S : f[x] \in Int) => SumFunctionOnSet(f, S) \in Int
         /\ (\A x \in S : f[x] \in Nat) => SumFunctionOnSet(f, S) \in Nat
<1> DEFINE Good(D) == {n \in Nat : \A s \in SUBSET S : Cardinality(s) = n => SumFunctionOnSet(f, s) \in D}
<1> SUFFICES ASSUME NEW D \in {Int, Nat}, \A x \in S : f[x] \in D PROVE SumFunctionOnSet(f, S) \in D
  OBVIOUS
<1>0. \A s \in SUBSET S : IsFiniteSet(s) /\ Cardinality(s) \in Nat
  BY FS_Subset, FS_CardinalityType
<1>1. 0 \in Good(D)
  BY <1>0, SumEmpty, FS_EmptySet
<1>2. ASSUME NEW n \in Nat, n \in Good(D) PROVE n + 1 \in Good(D)
  <2> SUFFICES ASSUME NEW s \in SUBSET S, Cardinality(s) = n + 1 PROVE SumFunctionOnSet(f, s) \in D
    OBVIOUS
  <2>1. s # {} /\ IsFiniteSet(s)
    BY <1>0, FS_EmptySet
  <2>2. First(s) \in s
    BY <2>1 DEF First
  <2>3. Cardinality(s \ {First(s)}) = n
    <3>1. Cardinality(s \ {First(s)}) = Cardinality(s) - 1
      BY <2>1, <2>2, FS_RemoveElement
    <3> QED BY <3>1
  <2>4. SumFunctionOnSet(f, s \ {First(s)}) \in D /\ f[First(s)] \in D
    BY <1>2, <2>2, <2>3
  <2>5. \A a, b \in D : a + b \in D
    OBVIOUS
  <2> QED BY <2>1, <2>4, <2>5, SumFirst
<1>3. Nat \subseteq Good(D)
  <2> HIDE DEF Good
  <2> QED BY <1>1, <1>2, NatSetInduction
<1> QED BY <1>0, <1>3

\* The sum may begin with any of its elements.
THEOREM SumRemove ==
  ASSUME NEW S, IsFiniteSet(S), NEW f, \A y \in S : f[y] \in Int, NEW x \in S
  PROVE  SumFunctionOnSet(f, S) = f[x] + SumFunctionOnSet(f, S \ {x})
<1> DEFINE Sum(s) == SumFunctionOnSet(f, s)
           Good == {n \in Nat : \A s \in SUBSET S : Cardinality(s) = n =>
                                   \A y \in s : Sum(s) = f[y] + Sum(s \ {y})}
<1>0. \A s \in SUBSET S : IsFiniteSet(s) /\ Cardinality(s) \in Nat /\ Sum(s) \in Int
  BY FS_Subset, FS_CardinalityType, SumType
<1>1. 0 \in Good
  BY <1>0, FS_EmptySet
<1>2. ASSUME NEW n \in Nat, n \in Good PROVE n + 1 \in Good
  <2> SUFFICES ASSUME NEW s \in SUBSET S, Cardinality(s) = n + 1, NEW y \in s
               PROVE  Sum(s) = f[y] + Sum(s \ {y})
    OBVIOUS
  <2> DEFINE c == First(s)
             r == (s \ {y}) \ {c}
  <2>1. IsFiniteSet(s) /\ c \in s
    BY <1>0 DEF First
  <2>2. Sum(s) = f[c] + Sum(s \ {c})
    BY <2>1, SumFirst
  <2>3. \A z \in s : Cardinality(s \ {z}) = n
    <3> TAKE z \in s
    <3>1. Cardinality(s \ {z}) = Cardinality(s) - 1
      BY <2>1, FS_RemoveElement
    <3> QED BY <3>1
  <2>4. \A z \in s : \A u \in s \ {z} : Sum(s \ {z}) = f[u] + Sum((s \ {z}) \ {u})
    BY <1>2, <2>3
  <2> HIDE DEF c, Sum
  <2>5. CASE y = c
    BY <2>2, <2>5
  <2>6. CASE y # c
    <3>1. Sum(s \ {c}) = f[y] + Sum((s \ {c}) \ {y}) /\ (s \ {c}) \ {y} = r
      BY <2>1, <2>4, <2>6
    <3>2. Sum(s \ {y}) = f[c] + Sum(r)
      BY <2>1, <2>4, <2>6
    <3>3. f[c] \in Int /\ f[y] \in Int /\ Sum(r) \in Int
      BY <1>0, <2>1
    <3>4. Sum(s) = f[c] + (f[y] + Sum(r))
      BY <2>2, <3>1
    <3>5. f[y] + Sum(s \ {y}) = f[y] + (f[c] + Sum(r))
      BY <3>2
    <3> HIDE DEF r
    <3> QED BY ONLY <3>3, <3>4, <3>5
  <2> QED BY <2>5, <2>6
<1>3. Nat \subseteq Good
  <2> HIDE DEF Good
  <2> QED BY <1>1, <1>2, NatSetInduction
<1> QED BY <1>0, <1>3

\* Sums of functions that agree on the set are the same.
THEOREM SumSame ==
  ASSUME NEW S, IsFiniteSet(S), NEW f, NEW g, \A x \in S : f[x] = g[x]
  PROVE  SumFunctionOnSet(f, S) = SumFunctionOnSet(g, S)
<1> DEFINE G == {s \in SUBSET S : SumFunctionOnSet(f, s) = SumFunctionOnSet(g, s)}
           Good == {n \in Nat : \A s \in SUBSET S : Cardinality(s) = n => s \in G}
<1>0. \A s \in SUBSET S : IsFiniteSet(s) /\ Cardinality(s) \in Nat
  BY FS_Subset, FS_CardinalityType
<1>1. 0 \in Good
  BY <1>0, SumEmpty, FS_EmptySet
<1>2. ASSUME NEW n \in Nat, n \in Good PROVE n + 1 \in Good
  <2> SUFFICES ASSUME NEW s \in SUBSET S, Cardinality(s) = n + 1 PROVE s \in G
    OBVIOUS
  <2>1. s # {} /\ IsFiniteSet(s)
    BY <1>0, FS_EmptySet
  <2>2. First(s) \in s
    BY <2>1 DEF First
  <2>3. Cardinality(s \ {First(s)}) = n
    <3>1. Cardinality(s \ {First(s)}) = Cardinality(s) - 1
      BY <2>1, <2>2, FS_RemoveElement
    <3> QED BY <3>1
  <2>4. s \ {First(s)} \in G /\ f[First(s)] = g[First(s)]
    BY <1>2, <2>2, <2>3
  <2> QED BY <2>1, <2>4, SumFirst
<1>3. Nat \subseteq Good
  <2> HIDE DEF Good
  <2> QED BY <1>1, <1>2, NatSetInduction
<1> QED BY <1>0, <1>3

\* Changing one value changes the sum by the difference.
THEOREM SumChange ==
  ASSUME NEW S, IsFiniteSet(S), NEW f \in [S -> Int], NEW g \in [S -> Int], NEW x \in S,
         \A y \in S \ {x} : g[y] = f[y]
  PROVE  SumFunctionOnSet(g, S) = SumFunctionOnSet(f, S) - f[x] + g[x]
<1> DEFINE T == S \ {x}
<1>1. IsFiniteSet(T)
  BY FS_Subset
<1>2. SumFunctionOnSet(f, S) = f[x] + SumFunctionOnSet(f, T)
  BY SumRemove
<1>3. SumFunctionOnSet(g, S) = g[x] + SumFunctionOnSet(g, T)
  BY SumRemove
<1>4. SumFunctionOnSet(f, T) = SumFunctionOnSet(g, T) /\ SumFunctionOnSet(f, T) \in Int
  BY <1>1, SumSame, SumType
<1>5. f[x] \in Int /\ g[x] \in Int
  OBVIOUS
<1> QED BY ONLY <1>2, <1>3, <1>4, <1>5

\* Of natural numbers none is more than the sum.
THEOREM SumAtLeast ==
  ASSUME NEW S, IsFiniteSet(S), NEW f \in [S -> Nat], NEW x \in S
  PROVE  f[x] <= SumFunctionOnSet(f, S)
<1>1. SumFunctionOnSet(f, S) = f[x] + SumFunctionOnSet(f, S \ {x})
  BY SumRemove
<1>2. SumFunctionOnSet(f, S \ {x}) \in Nat
  BY FS_Subset, SumType
<1> QED BY <1>1, <1>2

\* A sum of zeros is 0.
THEOREM SumZero ==
  ASSUME NEW S, IsFiniteSet(S), NEW f, \A x \in S : f[x] = 0
  PROVE  SumFunctionOnSet(f, S) = 0
<1> DEFINE G == {s \in SUBSET S : SumFunctionOnSet(f, s) = 0}
<1>1. {} \in G
  BY SumEmpty
<1>2. ASSUME NEW s \in SUBSET S, NEW x \in S \ s, s \in G PROVE s \union {x} \in G
  <2> DEFINE t == s \union {x}
  <2>0. t \in SUBSET S
    OBVIOUS
  <2>1. x \in t /\ t \ {x} = s /\ \A y \in t : f[y] \in Int
    BY <2>0
  <2>2. SumFunctionOnSet(f, t) = f[x] + SumFunctionOnSet(f, t \ {x})
    <3> HIDE DEF t
    <3>1. IsFiniteSet(t)
      BY <2>0, FS_Subset
    <3> QED BY <2>1, <3>1, SumRemove
  <2>3. SumFunctionOnSet(f, s) = 0 /\ f[x] = 0
    BY <1>2
  <2>4. SumFunctionOnSet(f, t) = 0
    <3> HIDE DEF t
    <3>1. SumFunctionOnSet(f, t \ {x}) = SumFunctionOnSet(f, s)
      BY <2>1, Zenon
    <3> QED BY <2>2, <2>3, <3>1
  <2> QED BY <2>0, <2>4
<1>3. SUBSET S \subseteq G
  <2> HIDE DEF G
  <2> QED BY <1>1, <1>2, FiniteSetInduction
<1> QED BY <1>3

-----------------------------------------------------------------------------
(* Lists *)

\* A function that gives what is retained of every beginning of a list, up to n elements.
Retains(g, list, S, n) ==
  g = [i \in 0 .. n |->
         IF i = 0 THEN <<>>
         ELSE IF list[i] \in S THEN Append(g[i - 1], list[i]) ELSE g[i - 1]]

\* There is such a function for every n.
LEMMA RetainsExists ==
  ASSUME NEW list, NEW S, NEW n \in Nat
  PROVE  \E g : Retains(g, list, S, n)
<1> DEFINE Good == {k \in Nat : \E g : Retains(g, list, S, k)}
<1>1. 0 \in Good
  <2>1. Retains([i \in 0 .. 0 |-> <<>>], list, S, 0)
    BY DEF Retains
  <2> QED BY <2>1
<1>2. ASSUME NEW k \in Nat, k \in Good PROVE k + 1 \in Good
  <2>1. PICK g : Retains(g, list, S, k)
    BY <1>2
  <2> DEFINE last1 == IF list[k + 1] \in S THEN Append(g[k], list[k + 1]) ELSE g[k]
             h == [i \in 0 .. k + 1 |-> IF i <= k THEN g[i] ELSE last1]
  <2>2. ASSUME NEW i \in 0 .. k + 1
        PROVE  h[i] = IF i = 0 THEN <<>> ELSE IF list[i] \in S THEN Append(h[i - 1], list[i]) ELSE h[i - 1]
    <3>1. CASE i = 0
      BY <2>1, <3>1 DEF Retains
    <3>2. CASE i # 0 /\ i <= k
      <4>1. h[i] = g[i] /\ h[i - 1] = g[i - 1] /\ i \in 0 .. k
        BY <3>2
      <4> HIDE DEF h
      <4> QED BY <2>1, <3>2, <4>1 DEF Retains
    <3>3. CASE i = k + 1
      <4>1. h[i] = last1 /\ h[i - 1] = g[k] /\ i # 0
        BY <3>3
      <4> HIDE DEF h
      <4> QED BY <3>3, <4>1
    <3> QED BY <3>1, <3>2, <3>3
  <2>3. h = [i \in 0 .. k + 1 |->
               IF i = 0 THEN <<>> ELSE IF list[i] \in S THEN Append(h[i - 1], list[i]) ELSE h[i - 1]]
    BY <2>2
  <2>4. Retains(h, list, S, k + 1)
    BY <2>3, Zenon DEF Retains
  <2> HIDE DEF h
  <2> QED BY <2>4
<1>3. Nat \subseteq Good
  <2> HIDE DEF Good
  <2> QED BY <1>1, <1>2, NatSetInduction
<1> QED BY <1>3

\* Retained is what such a function gives of the whole list.
LEMMA RetainedIs ==
  ASSUME NEW list, NEW S, Len(list) \in Nat
  PROVE  \E g : Retains(g, list, S, Len(list)) /\ Retained(list, S) = g[Len(list)]
<1> DEFINE kept == CHOOSE g : Retains(g, list, S, Len(list))
<1>1. Retains(kept, list, S, Len(list))
  BY RetainsExists
<1>2. Retained(list, S) = kept[Len(list)]
  BY DEF Retained, Retains
<1> QED BY <1>1, <1>2

\* The elements of a list and one more.
LEMMA RangeAppend ==
  ASSUME NEW T, NEW q \in Seq(T), NEW e \in T
  PROVE  Append(q, e) \in Seq(T) /\ \A x : x \in Range(Append(q, e)) <=> (x \in Range(q) \/ x = e)
<1>1. /\ DOMAIN q = 1 .. Len(q) /\ DOMAIN Append(q, e) = 1 .. Len(q) + 1 /\ Append(q, e)[Len(q) + 1] = e
      /\ Len(q) \in Nat /\ \A i \in 1 .. Len(q) : Append(q, e)[i] = q[i]
  OBVIOUS
<1>2. \A i \in 1 .. Len(q) + 1 : i \in 1 .. Len(q) \/ i = Len(q) + 1
  BY <1>1
<1>3. \A i \in 1 .. Len(q) : i \in 1 .. Len(q) + 1
  BY <1>1
<1>4. Len(q) + 1 \in 1 .. Len(q) + 1
  BY <1>1
<1> QED BY <1>1, <1>2, <1>3, <1>4 DEF Range

\* What is retained of a list are its elements in the set.
LEMMA RetainedRange ==
  ASSUME NEW T, NEW list \in Seq(T), NEW S
  PROVE  /\ Retained(list, S) \in Seq(T)
         /\ \A x : x \in Range(Retained(list, S)) <=> (x \in Range(list) /\ x \in S)
<1> DEFINE n == Len(list)
<1>0. n \in Nat /\ DOMAIN list = 1 .. n /\ \A i \in 1 .. n : list[i] \in T
  OBVIOUS
<1>1. PICK g : Retains(g, list, S, n) /\ Retained(list, S) = g[n]
  BY <1>0, RetainedIs
<1> HIDE DEF n
<1> DEFINE Good == {k \in Nat : k <= n => /\ g[k] \in Seq(T)
                                         /\ \A x : x \in Range(g[k]) <=> (x \in S /\ \E j \in 1 .. k : x = list[j])}
<1>2. 0 \in Good
  <2>1. g[0] = <<>>
    BY <1>0, <1>1 DEF Retains
  <2>2. g[0] \in Seq(T) /\ \A x : x \notin Range(g[0])
    BY <2>1 DEF Range
  <2>3. \A j \in 1 .. 0 : FALSE
    OBVIOUS
  <2> HIDE DEF Range
  <2> QED BY <2>2, <2>3
<1>3. ASSUME NEW k \in Nat, k \in Good PROVE k + 1 \in Good
  <2> SUFFICES ASSUME k + 1 <= n
               PROVE  /\ g[k + 1] \in Seq(T)
                      /\ \A x : x \in Range(g[k + 1]) <=> (x \in S /\ \E j \in 1 .. k + 1 : x = list[j])
    OBVIOUS
  <2>1. k + 1 \in 0 .. n /\ k + 1 # 0 /\ (k + 1) - 1 = k /\ k <= n /\ list[k + 1] \in T
    BY <1>0
  <2>2. g[k + 1] = IF list[k + 1] \in S THEN Append(g[k], list[k + 1]) ELSE g[k]
    BY <1>1, <2>1 DEF Retains
  <2>3. g[k] \in Seq(T) /\ \A x : x \in Range(g[k]) <=> (x \in S /\ \E j \in 1 .. k : x = list[j])
    BY <1>3, <2>1
  <2>4. \A x : (\E j \in 1 .. k + 1 : x = list[j]) <=> ((\E j \in 1 .. k : x = list[j]) \/ x = list[k + 1])
    <3>1. \A j \in 1 .. k + 1 : j \in 1 .. k \/ j = k + 1
      OBVIOUS
    <3>2. k + 1 \in 1 .. k + 1 /\ \A j \in 1 .. k : j \in 1 .. k + 1
      OBVIOUS
    <3> QED BY <3>1, <3>2
  <2> HIDE DEF Good
  <2> QED BY <2>1, <2>2, <2>3, <2>4, RangeAppend
<1>4. Nat \subseteq Good
  <2> HIDE DEF Good
  <2> QED BY <1>2, <1>3, NatSetInduction
<1>5. g[n] \in Seq(T) /\ \A x : x \in Range(g[n]) <=> (x \in S /\ \E j \in 1 .. n : x = list[j])
  <2>1. n \in Good /\ n <= n
    <3> HIDE DEF Good
    <3> QED BY <1>0, <1>4
  <2> QED BY <2>1, Zenon
<1>6. \A x : x \in Range(list) <=> \E j \in 1 .. n : x = list[j]
  BY <1>0 DEF Range
<1> QED BY <1>1, <1>5, <1>6, Zenon

\* Where the first of a list is retained, it stays the first.
LEMMA RetainedHead ==
  ASSUME NEW T, NEW list \in Seq(T), NEW S, list # <<>>, list[1] \in S
  PROVE  Retained(list, S) # <<>> /\ Retained(list, S)[1] = list[1]
<1> DEFINE n == Len(list)
<1>0. n \in Nat /\ n >= 1 /\ \A i \in 1 .. n : list[i] \in T
  OBVIOUS
<1>1. PICK g : Retains(g, list, S, n) /\ Retained(list, S) = g[n]
  BY <1>0, RetainedIs
<1> HIDE DEF n
<1> DEFINE Good == {k \in Nat : k + 1 <= n => /\ g[k + 1] \in Seq(T) /\ g[k + 1] # <<>>
                                              /\ g[k + 1][1] = list[1]}
<1>2. 0 \in Good
  <2>1. g[0] = <<>> /\ g[1] = Append(g[0], list[1])
    BY <1>0, <1>1 DEF Retains
  <2>2. list[1] \in T /\ g[1] = <<list[1]>>
    BY <1>0, <2>1
  <2>3. <<list[1]>> \in Seq(T) /\ <<list[1]>> # <<>> /\ <<list[1]>>[1] = list[1] /\ 0 + 1 = 1
    BY <2>2
  <2> QED BY <2>2, <2>3
<1>3. ASSUME NEW k \in Nat, k \in Good PROVE k + 1 \in Good
  <2> SUFFICES ASSUME (k + 1) + 1 <= n
               PROVE  /\ g[(k + 1) + 1] \in Seq(T) /\ g[(k + 1) + 1] # <<>>
                      /\ g[(k + 1) + 1][1] = list[1]
    OBVIOUS
  <2>1. PICK j \in Nat : j = k + 1
    OBVIOUS
  <2>2. /\ j + 1 \in 0 .. n /\ j + 1 # 0 /\ (j + 1) - 1 = j /\ j <= n
        /\ list[j + 1] \in T
    BY <1>0, <2>1
  <2>3. g[j + 1] = IF list[j + 1] \in S THEN Append(g[j], list[j + 1]) ELSE g[j]
    BY <1>1, <2>2 DEF Retains
  <2>4. g[j] \in Seq(T) /\ g[j] # <<>> /\ g[j][1] = list[1]
    BY <1>3, <2>1, <2>2
  <2>5. PICK q \in Seq(T) : q = g[j]
    BY <2>4
  <2>6. PICK e \in T : e = list[j + 1]
    BY <2>2
  <2>7. Append(q, e) \in Seq(T) /\ Append(q, e) # <<>> /\ Append(q, e)[1] = q[1]
    <3>1. Len(q) \in Nat /\ q # <<>> /\ Len(Append(q, e)) = Len(q) + 1
          /\ \A i \in 1 .. Len(q) : Append(q, e)[i] = q[i]
      BY <2>4, <2>5
    <3>2. Len(q) >= 1
      BY <3>1
    <3> QED BY <3>1, <3>2
  <2> HIDE DEF Good
  <2>8. g[j + 1] \in Seq(T) /\ g[j + 1] # <<>> /\ g[j + 1][1] = list[1]
    BY <2>3, <2>4, <2>5, <2>6, <2>7
  <2> QED BY <2>1, <2>8
<1>4. Nat \subseteq Good
  <2> HIDE DEF Good
  <2> QED BY <1>2, <1>3, NatSetInduction
<1>5. PICK k \in Nat : k + 1 = n
  <2>1. n - 1 \in Nat /\ (n - 1) + 1 = n
    BY <1>0
  <2> QED BY <2>1
<1>6. g[n] # <<>> /\ g[n][1] = list[1]
  <2>1. k \in Good
    <3> HIDE DEF Good
    <3> QED BY <1>4
  <2>2. k + 1 <= n
    BY <1>0, <1>5
  <2>3. g[k + 1] # <<>> /\ g[k + 1][1] = list[1]
    BY <2>1, <2>2
  <2> QED BY <1>5, <2>3
<1> QED BY <1>1, <1>6

\* The greatest of a set of indices that has the last one.
LEMMA MaxOfUpTo ==
  ASSUME NEW k \in Nat, NEW s \in SUBSET (1 .. k + 1), k + 1 \in s
  PROVE  Max(s) = k + 1
<1>1. \A y \in s : k + 1 >= y /\ y \in Int
  OBVIOUS
<1>2. \A x \in s : (\A y \in s : x >= y) => x = k + 1
  BY <1>1
<1> QED BY <1>1, <1>2 DEF Max

\* The prefixes of a list's places.
LEMMA UpTo ==
  ASSUME NEW n \in Nat, NEW i \in 1 .. n
  PROVE  /\ i - 1 \in Nat /\ i \in 0 .. n /\ i - 1 \in 0 .. n
         /\ 1 .. i \in SUBSET (1 .. n) /\ 1 .. i # {}
         /\ (1 .. i) \ {i} = 1 .. i - 1 /\ Max(1 .. i) = i
<1>1. i \in Nat /\ i >= 1 /\ i <= n
  OBVIOUS
<1>2. i - 1 \in Nat /\ i \in 0 .. n /\ i - 1 \in 0 .. n /\ i \in 1 .. i
  BY <1>1
<1>3. 1 .. i \in SUBSET (1 .. n)
  BY <1>1
<1>4. (1 .. i) \ {i} = 1 .. i - 1
  BY ONLY <1>1
<1>5. 1 .. i # {}
  BY ONLY <1>2
<1>6. Max(1 .. i) = i
  <2>1. PICK k \in Nat : k = i - 1
    BY <1>2
  <2>2. k + 1 = i /\ k + 1 \in 1 .. k + 1
    BY <2>1
  <2>3. Max(1 .. k + 1) = k + 1
    BY <2>2, MaxOfUpTo
  <2> QED BY <2>2, <2>3
<1> QED BY ONLY <1>2, <1>3, <1>4, <1>5, <1>6
=============================================================================
