-------------------------- MODULE SetSumTheorems ----------------------------
(***************************************************************************)
(* What SumOf computes for every finite set: the recursion over chosen     *)
(* elements that defines it has a value, the value does not depend on the  *)
(* order of the elements, and it adds up over disjoint sets.  Induction is *)
(* on the subsets of a finite set, through a least subset in a set of      *)
(* subsets.                                                                *)
(***************************************************************************)
EXTENDS SetSums, FiniteSets, FiniteSetTheorems, TLAPS

\* A set of subsets of a finite set has a least member.
LEMMA LeastSubset ==
  ASSUME NEW S, IsFiniteSet(S), NEW T, T \subseteq SUBSET S, T # {}
  PROVE  \E A \in T : \A B \in T : ~ (B \subseteq A /\ B # A)
<1>1. IsWellFoundedOn(StrictSubsetOrdering(S), FiniteSubsetsOf(S))
  BY FS_StrictSubsetOrderingWellFounded
<1>2. FiniteSubsetsOf(S) = SUBSET S
  BY FS_FiniteSubsetsOfFinite
<1>3. \E A \in T : \A B \in T : ~ (<<B, A>> \in StrictSubsetOrdering(S))
  BY <1>1, <1>2, WFMin
<1> QED BY <1>3 DEF StrictSubsetOrdering

\* Induction over a finite set, the property given as the set of the subsets
\* that have it.
LEMMA SubsetInduction ==
  ASSUME NEW S, IsFiniteSet(S), NEW T, {} \in T,
         \A A \in SUBSET S : A # {} /\ (\A x \in A : A \ {x} \in T) => A \in T
  PROVE  S \in T
<1> DEFINE Bad == {A \in SUBSET S : A \notin T}
<1> SUFFICES ASSUME Bad # {} PROVE FALSE
  OBVIOUS
<1>0. Bad \subseteq SUBSET S
  OBVIOUS
<1> HIDE DEF Bad
<1>1. PICK A \in Bad : \A B \in Bad : ~ (B \subseteq A /\ B # A)
  BY <1>0, LeastSubset
<1> USE DEF Bad
<1>2. \A x \in A : A \ {x} \in T
  BY <1>1
<1> QED BY <1>1, <1>2

First(s) == CHOOSE x \in s : TRUE

\* The recursion of the fold on the subsets of S.
Iterates(f, g, S) ==
  g = [s \in SUBSET S |-> IF s = {} THEN 0 ELSE f[First(s)] + g[s \ {First(s)}]]

\* The two directions of that equation at one subset.
LEMMA IteratesAt ==
  ASSUME NEW f, NEW S, NEW g, Iterates(f, g, S)
  PROVE  /\ g[{}] = 0
         /\ \A s \in SUBSET S : s # {} => g[s] = f[First(s)] + g[s \ {First(s)}]
         /\ \A T \in SUBSET S : \A s \in SUBSET T : s \in SUBSET S
  BY DEF Iterates

LEMMA FirstIn ==
  ASSUME NEW s, s # {} PROVE First(s) \in s
  BY DEF First

\* Two solutions on different sets agree where both are defined.
LEMMA IteratesUnique ==
  ASSUME NEW f, NEW S, IsFiniteSet(S), NEW g, Iterates(f, g, S),
         NEW R, S \subseteq R, NEW h, Iterates(f, h, R)
  PROVE  \A s \in SUBSET S : g[s] = h[s]
<1> DEFINE Bad == {s \in SUBSET S : g[s] # h[s]}
<1> SUFFICES ASSUME Bad # {} PROVE FALSE
  OBVIOUS
<1>0. Bad \subseteq SUBSET S
  OBVIOUS
<1> HIDE DEF Bad
<1>1. PICK s \in Bad : \A B \in Bad : ~ (B \subseteq s /\ B # s)
  BY <1>0, LeastSubset
<1> USE DEF Bad
<1>2. s # {}
  BY <1>1, IteratesAt
<1>3. g[s] = f[First(s)] + g[s \ {First(s)}] /\ h[s] = f[First(s)] + h[s \ {First(s)}]
  BY SMTT(30), <1>1, <1>2, IteratesAt
<1>4. g[s \ {First(s)}] = h[s \ {First(s)}]
  BY <1>1, <1>2, FirstIn
<1> QED BY <1>1, <1>3, <1>4

\* The recursion has a solution on every finite set.
LEMMA IteratesExists ==
  ASSUME NEW f, NEW S, IsFiniteSet(S) PROVE \E g : Iterates(f, g, S)
<1> DEFINE Bad == {A \in SUBSET S : ~ \E g : Iterates(f, g, A)}
<1> SUFFICES ASSUME Bad # {} PROVE FALSE
  OBVIOUS
<1>0. Bad \subseteq SUBSET S
  OBVIOUS
<1> HIDE DEF Bad
<1>1. PICK A \in Bad : \A B \in Bad : ~ (B \subseteq A /\ B # A)
  BY <1>0, LeastSubset
<1> USE DEF Bad
<1>a. A \in SUBSET S /\ ~ \E g : Iterates(f, g, A)
  BY <1>1
<1> DEFINE G(B) == CHOOSE g : Iterates(f, g, B)
           Value(s) == IF s = {} THEN 0 ELSE f[First(s)] + G(s \ {First(s)})[s \ {First(s)}]
           g == [s \in SUBSET A |-> Value(s)]
<1>2. \A B \in SUBSET A : B # A => Iterates(f, G(B), B) /\ IsFiniteSet(B)
  <2> SUFFICES ASSUME NEW B \in SUBSET A, B # A PROVE Iterates(f, G(B), B) /\ IsFiniteSet(B)
    OBVIOUS
  <2>1. \E h : Iterates(f, h, B)
    BY <1>a, <1>1
  <2> QED BY <1>a, <2>1, FS_Subset
<1>3. \A B \in SUBSET A : B # A => g[B] = G(B)[B]
  <2> SUFFICES ASSUME NEW B \in SUBSET A, B # A PROVE Value(B) = G(B)[B]
    OBVIOUS
  <2>1. CASE B = {}
    <3>1. G(B)[B] = 0
      BY <1>2, <2>1, IteratesAt
    <3> QED BY <2>1, <3>1
  <2>2. CASE B # {}
    <3> DEFINE C == B \ {First(B)}
    <3>1. C \in SUBSET A /\ C # A /\ C \subseteq B
      BY <2>2, FirstIn
    <3>2. Iterates(f, G(B), B) /\ Iterates(f, G(C), C) /\ IsFiniteSet(C)
      BY <1>2, <3>1
    <3>3. G(B)[B] = f[First(B)] + G(B)[C]
      BY <2>2, <3>2, IteratesAt
    <3> HIDE DEF G
    <3>4. G(C)[C] = G(B)[C]
      BY <3>1, <3>2, IteratesUnique
    <3> QED BY <2>2, <3>3, <3>4
  <2> QED BY <2>1, <2>2
<1>4. \A s \in SUBSET A : Value(s) = IF s = {} THEN 0 ELSE f[First(s)] + g[s \ {First(s)}]
  <2> SUFFICES ASSUME NEW s \in SUBSET A
               PROVE  Value(s) = IF s = {} THEN 0 ELSE f[First(s)] + g[s \ {First(s)}]
    OBVIOUS
  <2>0. CASE s = {}
    BY <2>0
  <2> SUFFICES ASSUME s # {} PROVE Value(s) = f[First(s)] + g[s \ {First(s)}]
    BY <2>0
  <2>1. s \ {First(s)} \in SUBSET A /\ s \ {First(s)} # A
    BY FirstIn
  <2>2. g[s \ {First(s)}] = G(s \ {First(s)})[s \ {First(s)}]
    BY <1>3, <2>1
  <2> QED BY <2>2
<1>5. Iterates(f, g, A)
  <2> HIDE DEF Value
  <2>1. g = [s \in SUBSET A |-> IF s = {} THEN 0 ELSE f[First(s)] + g[s \ {First(s)}]]
    BY <1>4
  <2> HIDE DEF g
  <2> QED BY <2>1 DEF Iterates
<1> QED BY <1>a, <1>5

\* SumOf is that solution at the whole set.
LEMMA SumIterates ==
  ASSUME NEW f, NEW S, IsFiniteSet(S)
  PROVE  \E g : Iterates(f, g, S) /\ \A T \in SUBSET S : SumOf(f, T) = g[T]
<1> DEFINE G(B) == CHOOSE g : Iterates(f, g, B)
<1>1. \A T \in SUBSET S : Iterates(f, G(T), T) /\ IsFiniteSet(T)
  BY FS_Subset, IteratesExists
<1>2. \A T : SumOf(f, T) = G(T)[T]
  BY DEF SumOf, MapThenSumSet, MapThenFoldSet, Iterates, First
<1> HIDE DEF G
<1>3. \A T \in SUBSET S : G(T)[T] = G(S)[T]
  BY <1>1, IteratesUnique
<1> QED BY <1>1, <1>2, <1>3

LEMMA SumEmpty ==
  ASSUME NEW f PROVE SumOf(f, {}) = 0
<1>1. IsFiniteSet({})
  BY FS_EmptySet
<1>2. PICK g : Iterates(f, g, {}) /\ \A T \in SUBSET {} : SumOf(f, T) = g[T]
  BY <1>1, SumIterates
<1> QED BY <1>2, IteratesAt

LEMMA SumFirst ==
  ASSUME NEW f, NEW S, IsFiniteSet(S), S # {}
  PROVE  SumOf(f, S) = f[First(S)] + SumOf(f, S \ {First(S)})
<1>1. PICK g : Iterates(f, g, S) /\ \A T \in SUBSET S : SumOf(f, T) = g[T]
  BY SumIterates
<1> QED BY <1>1, IteratesAt

\* The sum of integers is an integer, and of naturals a natural.
LEMMA SumInt ==
  ASSUME NEW f, NEW S, IsFiniteSet(S), \A x \in S : f[x] \in Int
  PROVE  SumOf(f, S) \in Int
<1> DEFINE T == {A \in SUBSET S : SumOf(f, A) \in Int}
<1>1. {} \in T
  BY SumEmpty
<1>2. ASSUME NEW A \in SUBSET S, A # {}, \A x \in A : A \ {x} \in T PROVE A \in T
  <2>1. IsFiniteSet(A) /\ First(A) \in A
    BY <1>2, FS_Subset, FirstIn
  <2>2. f[First(A)] \in Int /\ SumOf(f, A \ {First(A)}) \in Int
    BY <1>2, <2>1
  <2> QED BY <1>2, <2>1, <2>2, SumFirst
<1> HIDE DEF T
<1>3. S \in T
  BY <1>1, <1>2, SubsetInduction
<1> QED BY <1>3 DEF T

\* Any element may be taken out first.
LEMMA SumRemove ==
  ASSUME NEW f, NEW S, IsFiniteSet(S), \A x \in S : f[x] \in Int, NEW x \in S
  PROVE  SumOf(f, S) = f[x] + SumOf(f, S \ {x})
<1> DEFINE T == {A \in SUBSET S : \A y \in A : SumOf(f, A) = f[y] + SumOf(f, A \ {y})}
<1>1. {} \in T
  OBVIOUS
<1>2. ASSUME NEW A \in SUBSET S, A # {}, \A y \in A : A \ {y} \in T PROVE A \in T
  <2> SUFFICES ASSUME NEW y \in A PROVE SumOf(f, A) = f[y] + SumOf(f, A \ {y})
    OBVIOUS
  <2> DEFINE c == First(A)
  <2>1. IsFiniteSet(A) /\ c \in A /\ c \in S /\ y \in S
    BY <1>2, FS_Subset, FirstIn
  <2>2. SumOf(f, A) = f[c] + SumOf(f, A \ {c})
    BY <1>2, <2>1, SumFirst
  <2> HIDE DEF c
  <2>3. CASE y = c
    BY <2>2, <2>3
  <2>4. CASE y # c
    <3>1. SumOf(f, A \ {c}) = f[y] + SumOf(f, (A \ {c}) \ {y})
      BY <1>2, <2>1, <2>4
    <3>2. SumOf(f, A \ {y}) = f[c] + SumOf(f, (A \ {y}) \ {c})
      BY <1>2, <2>1, <2>4
    <3>3. (A \ {y}) \ {c} = (A \ {c}) \ {y} /\ (A \ {c}) \ {y} \in SUBSET S
      OBVIOUS
    <3>4. SumOf(f, (A \ {c}) \ {y}) \in Int
      BY <3>3, FS_Subset, SumInt
    <3>5. f[c] \in Int /\ f[y] \in Int
      BY <2>1
    <3>6. ASSUME NEW v \in Int, NEW a \in Int, NEW b \in Int PROVE a + (b + v) = b + (a + v)
      OBVIOUS
    <3>7. SumOf(f, A) = f[c] + (f[y] + SumOf(f, (A \ {c}) \ {y}))
      BY <2>2, <3>1
    <3>8. SumOf(f, A \ {y}) = f[c] + SumOf(f, (A \ {c}) \ {y})
      BY <3>2, <3>3
    <3>9. f[c] + (f[y] + SumOf(f, (A \ {c}) \ {y})) = f[y] + (f[c] + SumOf(f, (A \ {c}) \ {y}))
      BY <3>4, <3>5, <3>6
    <3> QED BY <3>7, <3>8, <3>9
  <2> QED BY <2>3, <2>4
<1> HIDE DEF T
<1>3. S \in T
  BY <1>1, <1>2, SubsetInduction
<1> QED BY <1>3 DEF T

\* An element that is not in the set is added.
LEMMA SumInsert ==
  ASSUME NEW f, NEW S, IsFiniteSet(S), NEW x, x \notin S, \A y \in S \cup {x} : f[y] \in Int
  PROVE  SumOf(f, S \cup {x}) = f[x] + SumOf(f, S)
<1>1. IsFiniteSet(S \cup {x})
  BY FS_AddElement
<1>2. (S \cup {x}) \ {x} = S
  OBVIOUS
<1>3. SumOf(f, S \cup {x}) = f[x] + SumOf(f, (S \cup {x}) \ {x})
  BY <1>1, SumRemove
<1> QED BY <1>2, <1>3

\* Only the values on the set count.
LEMMA SumSame ==
  ASSUME NEW S, IsFiniteSet(S), NEW f, NEW g, \A x \in S : f[x] = g[x]
  PROVE  SumOf(f, S) = SumOf(g, S)
<1> DEFINE T == {A \in SUBSET S : SumOf(f, A) = SumOf(g, A)}
<1>1. {} \in T
  BY SumEmpty
<1>2. ASSUME NEW A \in SUBSET S, A # {}, \A x \in A : A \ {x} \in T PROVE A \in T
  <2>1. IsFiniteSet(A) /\ First(A) \in A
    BY <1>2, FS_Subset, FirstIn
  <2>2. f[First(A)] = g[First(A)] /\ SumOf(f, A \ {First(A)}) = SumOf(g, A \ {First(A)})
    BY <1>2, <2>1
  <2>3. /\ SumOf(f, A) = f[First(A)] + SumOf(f, A \ {First(A)})
        /\ SumOf(g, A) = g[First(A)] + SumOf(g, A \ {First(A)})
    BY <1>2, <2>1, SumFirst
  <2> QED BY <2>2, <2>3
<1> HIDE DEF T
<1>3. S \in T
  BY <1>1, <1>2, SubsetInduction
<1> QED BY <1>3 DEF T

\* Larger values have a larger sum.
LEMMA SumMonotonic ==
  ASSUME NEW S, IsFiniteSet(S), NEW f, NEW g,
         \A x \in S : f[x] \in Int /\ g[x] \in Int /\ f[x] <= g[x]
  PROVE  SumOf(f, S) <= SumOf(g, S)
<1> DEFINE T == {A \in SUBSET S : SumOf(f, A) <= SumOf(g, A)}
<1>1. {} \in T
  BY SumEmpty
<1>2. ASSUME NEW A \in SUBSET S, A # {}, \A x \in A : A \ {x} \in T PROVE A \in T
  <2>1. IsFiniteSet(A) /\ First(A) \in A /\ IsFiniteSet(A \ {First(A)})
    BY <1>2, FS_Subset, FirstIn
  <2>2. /\ SumOf(f, A) = f[First(A)] + SumOf(f, A \ {First(A)})
        /\ SumOf(g, A) = g[First(A)] + SumOf(g, A \ {First(A)})
    BY <1>2, <2>1, SumFirst
  <2>3. SumOf(f, A \ {First(A)}) \in Int /\ SumOf(g, A \ {First(A)}) \in Int
    BY <2>1, SumInt
  <2>4. SumOf(f, A \ {First(A)}) <= SumOf(g, A \ {First(A)})
    BY <1>2, <2>1
  <2>5. f[First(A)] \in Int /\ g[First(A)] \in Int /\ f[First(A)] <= g[First(A)]
    BY <2>1
  <2>6. SumOf(f, A) <= SumOf(g, A)
    BY <2>2, <2>3, <2>4, <2>5
  <2> QED BY <2>6
<1> HIDE DEF T
<1>3. S \in T
  BY <1>1, <1>2, SubsetInduction
<1> QED BY <1>3 DEF T

\* The sum over two disjoint sets.
LEMMA SumUnion ==
  ASSUME NEW f, NEW R, IsFiniteSet(R), NEW S, IsFiniteSet(S), R \cap S = {},
         \A x \in R \cup S : f[x] \in Int
  PROVE  SumOf(f, R \cup S) = SumOf(f, R) + SumOf(f, S)
<1> DEFINE T == {A \in SUBSET S : SumOf(f, R \cup A) = SumOf(f, R) + SumOf(f, A)}
<1>0. SumOf(f, R) \in Int
  BY SumInt
<1>1. {} \in T
  <2>1. R \cup {} = R /\ SumOf(f, {}) = 0
    BY SumEmpty
  <2> QED BY <1>0, <2>1
<1>2. ASSUME NEW A \in SUBSET S, A # {}, \A x \in A : A \ {x} \in T PROVE A \in T
  <2>1. PICK x : x \in A
    BY <1>2
  <2>2. IsFiniteSet(A) /\ IsFiniteSet(A \ {x}) /\ IsFiniteSet(R \cup A)
    BY FS_Subset, FS_Union
  <2>3. (R \cup A) \ {x} = R \cup (A \ {x})
    BY <2>1
  <2>4. SumOf(f, R \cup A) = f[x] + SumOf(f, (R \cup A) \ {x})
    BY <2>1, <2>2, SumRemove
  <2>5. SumOf(f, A) = f[x] + SumOf(f, A \ {x})
    BY <2>1, <2>2, SumRemove
  <2>6. SumOf(f, R \cup (A \ {x})) = SumOf(f, R) + SumOf(f, A \ {x})
    BY <1>2, <2>1
  <2>7. f[x] \in Int /\ SumOf(f, A \ {x}) \in Int
    BY <2>1, <2>2, SumInt
  <2>8. SumOf(f, R \cup A) = f[x] + (SumOf(f, R) + SumOf(f, A \ {x}))
    BY <2>3, <2>4, <2>6
  <2>9. SumOf(f, R \cup A) = SumOf(f, R) + SumOf(f, A)
    BY <1>0, <2>5, <2>7, <2>8
  <2> QED BY <2>9
<1> HIDE DEF T
<1>3. S \in T
  BY <1>1, <1>2, SubsetInduction
<1> QED BY <1>3 DEF T

\* A sum of zeros is zero; a sum of naturals is a natural.
LEMMA SumZero ==
  ASSUME NEW f, NEW S, IsFiniteSet(S), \A x \in S : f[x] = 0
  PROVE  SumOf(f, S) = 0
<1> DEFINE T == {A \in SUBSET S : SumOf(f, A) = 0}
<1>1. {} \in T
  BY SumEmpty
<1>2. ASSUME NEW A \in SUBSET S, A # {}, \A x \in A : A \ {x} \in T PROVE A \in T
  <2>1. IsFiniteSet(A) /\ First(A) \in A
    BY <1>2, FS_Subset, FirstIn
  <2>2. f[First(A)] = 0 /\ SumOf(f, A \ {First(A)}) = 0
    BY <1>2, <2>1
  <2>3. SumOf(f, A) = 0
    BY <1>2, <2>1, <2>2, SumFirst
  <2> QED BY <2>3
<1> HIDE DEF T
<1>3. S \in T
  BY <1>1, <1>2, SubsetInduction
<1> QED BY <1>3 DEF T

\* With no negative values, a part has no larger sum than the whole.
LEMMA SumPart ==
  ASSUME NEW f, NEW S, IsFiniteSet(S), \A x \in S : f[x] \in Nat, NEW R, R \subseteq S
  PROVE  SumOf(f, R) \in Nat /\ SumOf(f, R) <= SumOf(f, S)
<1> DEFINE zero == [x \in S |-> 0]
<1>1. IsFiniteSet(R) /\ IsFiniteSet(S \ R) /\ R \cap (S \ R) = {} /\ R \cup (S \ R) = S
  BY FS_Subset
<1>2. SumOf(zero, R) = 0 /\ SumOf(zero, S \ R) = 0
  BY <1>1, SumZero
<1>3. SumOf(zero, R) <= SumOf(f, R) /\ SumOf(zero, S \ R) <= SumOf(f, S \ R)
  BY <1>1, SumMonotonic
<1>4. SumOf(f, R) \in Int /\ SumOf(f, S \ R) \in Int
  BY <1>1, SumInt
<1>5. SumOf(f, S) = SumOf(f, R) + SumOf(f, S \ R)
  BY <1>1, SumUnion
<1> HIDE DEF zero
<1> QED BY <1>2, <1>3, <1>4, <1>5
=============================================================================
