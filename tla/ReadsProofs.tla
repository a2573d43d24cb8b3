-------------------------------- MODULE ReadsProofs --------------------------------
EXTENDS Reads, FiniteSetTheorems, WellFoundedInduction, TLAPS

----------------------------------------------------------------------------
(***************************************************************************)
(* Sums over finite sets.                                                  *)
(***************************************************************************)
(* Induction over the subsets of a finite set: a smallest set that is not  *)
(* in H would be in it.                                                    *)
LEMMA AllSubsets ==
    ASSUME NEW S, IsFiniteSet(S), NEW H,
           \A T \in SUBSET S : (\A x \in T : T \ {x} \in H) => T \in H
    PROVE  SUBSET S \subseteq H
<1> DEFINE rest == (SUBSET S) \ H
<1> SUFFICES ASSUME rest # {} PROVE FALSE
  OBVIOUS
<1>1. rest \subseteq FiniteSubsetsOf(S)
  BY FS_FiniteSubsetsOfFinite
<1>2. IsWellFoundedOn(StrictSubsetOrdering(S), FiniteSubsetsOf(S))
  BY FS_StrictSubsetOrderingWellFounded
<1> HIDE DEF rest
<1>3. PICK T \in rest : \A U \in rest : ~ (<<U, T>> \in StrictSubsetOrdering(S))
  BY <1>1, <1>2, WFMin
<1>4. T \in SUBSET S /\ T \notin H
  BY DEF rest
<1>5. \A x \in T : T \ {x} \in H
  <2> TAKE x \in T
  <2>1. <<T \ {x}, T>> \in StrictSubsetOrdering(S)
    BY <1>4 DEF StrictSubsetOrdering
  <2> QED
    BY <1>3, <1>4, <2>1 DEF rest
<1> QED
  BY <1>4, <1>5

(* The recursion of the fold: of every set, and of some function.          *)
Taken(s) == CHOOSE x \in s : TRUE
SumStep(f, g, s) == IF s = {} THEN 0 ELSE f[Taken(s)] + g[s \ {Taken(s)}]
Sums(f, S) == CHOOSE g : g = [s \in SUBSET S |-> SumStep(f, g, s)]

LEMMA SumIsFolded ==
    ASSUME NEW f, NEW S
    PROVE  SumFunctionOnSet(f, S) = Sums(f, S)[S]
BY DEF SumFunctionOnSet, FoldFunctionOnSet, MapThenFoldSet, Sums, SumStep, Taken

LEMMA TakenIsIn == ASSUME NEW s, s # {} PROVE Taken(s) \in s
BY DEF Taken

(* There is such a function: for the sets of at most n elements, for any n.*)
LEMMA SumsExist ==
    ASSUME NEW f, NEW S, IsFiniteSet(S)
    PROVE  \A s \in SUBSET S : Sums(f, S)[s] = SumStep(f, Sums(f, S), s)
<1> DEFINE Small(n) == {s \in SUBSET S : Cardinality(s) <= n}
           Has(n) == \E g : g = [s \in Small(n) |-> SumStep(f, g, s)]
           H == {n \in Nat : Has(n)}
<1>1. \A s \in SUBSET S : IsFiniteSet(s) /\ Cardinality(s) \in Nat /\ Cardinality(s) <= Cardinality(S)
  BY FS_Subset, FS_CardinalityType
<1>2. 0 \in H
  <2> DEFINE g == [s \in Small(0) |-> 0]
  <2>1. \A s \in Small(0) : s = {}
    BY <1>1, FS_EmptySet
  <2>2. g = [s \in Small(0) |-> SumStep(f, g, s)]
    BY <2>1 DEF SumStep
  <2> QED
    BY <2>2
<1>3. \A n \in Nat : n \in H => n + 1 \in H
  <2> SUFFICES ASSUME NEW n \in Nat, n \in H PROVE n + 1 \in H
    OBVIOUS
  <2>0. PICK g : g = [s \in Small(n) |-> SumStep(f, g, s)]
    OBVIOUS
  <2> DEFINE h == [s \in Small(n + 1) |-> SumStep(f, g, s)]
  <2>1. \A s \in Small(n) : s \in Small(n + 1) /\ h[s] = g[s]
    <3>1. Small(n) \subseteq Small(n + 1)
      BY <1>1
    <3> HIDE DEF Small
    <3>2. \A s \in Small(n) : g[s] = SumStep(f, g, s)
      BY <2>0
    <3>3. \A s \in Small(n + 1) : h[s] = SumStep(f, g, s)
      OBVIOUS
    <3> QED
      BY <3>1, <3>2, <3>3
  <2>2. \A s \in Small(n + 1) : s # {} => s \ {Taken(s)} \in Small(n)
    <3> SUFFICES ASSUME NEW s \in Small(n + 1), s # {} PROVE s \ {Taken(s)} \in Small(n)
      OBVIOUS
    <3>1. Taken(s) \in s
      BY TakenIsIn
    <3>2. Cardinality(s \ {Taken(s)}) = Cardinality(s) - 1
      BY <1>1, <3>1, FS_RemoveElement
    <3> QED
      BY <1>1, <3>2
  <2>3. \A s \in Small(n + 1) : SumStep(f, h, s) = SumStep(f, g, s)
    <3> HIDE DEF h, Small
    <3> QED
      BY <2>1, <2>2 DEF SumStep
  <2>4. h = [s \in Small(n + 1) |-> SumStep(f, h, s)]
    <3> HIDE DEF Small
    <3> QED
      BY <2>3
  <2>5. Has(n + 1)
    <3> HIDE DEF h, Small
    <3> QED
      BY <2>4
  <2> HIDE DEF Has
  <2> QED
    BY <2>5
<1>4. Cardinality(S) \in Nat
  BY FS_CardinalityType
<1>5. Cardinality(S) \in H
  <2> DEFINE G == {T \in SUBSET S : Cardinality(T) \in H}
  <2> HIDE DEF H
  <2>1. ASSUME NEW T \in SUBSET S, \A x \in T : T \ {x} \in G
        PROVE  T \in G
    <3>1. CASE T = {}
      BY <1>2, <3>1, FS_EmptySet
    <3>2. CASE T # {}
      <4>1. PICK x \in T : TRUE
        BY <3>2
      <4>2. Cardinality(T \ {x}) = Cardinality(T) - 1 /\ Cardinality(T \ {x}) \in H
        BY <1>1, <2>1, <4>1, FS_RemoveElement
      <4>3. Cardinality(T \ {x}) \in Nat /\ Cardinality(T) = Cardinality(T \ {x}) + 1
        BY <1>1, <4>2
      <4> QED
        BY <1>3, <4>2, <4>3
    <3> QED
      BY <3>1, <3>2
  <2>2. SUBSET S \subseteq G
    <3> HIDE DEF G
    <3> QED
      BY <2>1, AllSubsets
  <2> QED
    BY <2>2
<1>6. Small(Cardinality(S)) = SUBSET S
  BY <1>1, <1>4
<1>7. \E g : g = [s \in SUBSET S |-> SumStep(f, g, s)]
  <2> HIDE DEF Small
  <2> QED
    BY <1>5, <1>6
<1>8. Sums(f, S) = [s \in SUBSET S |-> SumStep(f, Sums(f, S), s)]
  BY <1>7 DEF Sums
<1> DEFINE g == Sums(f, S)
<1>9. g = [s \in SUBSET S |-> SumStep(f, g, s)]
  BY <1>8
<1> HIDE DEF g
<1>10. \A s \in SUBSET S : g[s] = SumStep(f, g, s)
  BY <1>9
<1> QED
  BY <1>10 DEF g

(* And only one: it does not matter of which set the sum is a part.        *)
LEMMA SumsOfPart ==
    ASSUME NEW f, NEW S, IsFiniteSet(S), NEW T \in SUBSET S
    PROVE  Sums(f, S)[T] = SumFunctionOnSet(f, T)
<1> DEFINE H == {s \in SUBSET T : Sums(f, S)[s] = Sums(f, T)[s]}
<1>1. IsFiniteSet(T)
  BY FS_Subset
<1>2. ASSUME NEW s \in SUBSET T, \A x \in s : s \ {x} \in H
      PROVE  s \in H
  <2>1. Sums(f, S)[s] = SumStep(f, Sums(f, S), s) /\ Sums(f, T)[s] = SumStep(f, Sums(f, T), s)
    <3>1. s \in SUBSET S
      OBVIOUS
    <3> QED
      BY <1>1, <3>1, SumsExist
  <2>2. CASE s = {}
    BY <2>1, <2>2 DEF SumStep
  <2>3. CASE s # {}
    <3>1. s \ {Taken(s)} \in H
      BY <1>2, <2>3, TakenIsIn
    <3> QED
      BY <2>1, <2>3, <3>1 DEF SumStep
  <2> QED
    BY <2>2, <2>3
<1>3. SUBSET T \subseteq H
  <2> HIDE DEF H
  <2> QED
    BY <1>1, <1>2, AllSubsets
<1>4. T \in H
  BY <1>3
<1> QED
  BY <1>4, SumIsFolded

LEMMA SumUnfolds ==
    ASSUME NEW f, NEW S, IsFiniteSet(S)
    PROVE  SumFunctionOnSet(f, S) =
               IF S = {} THEN 0 ELSE f[Taken(S)] + SumFunctionOnSet(f, S \ {Taken(S)})
<1>1. Sums(f, S)[S] = SumStep(f, Sums(f, S), S)
  <2>1. S \in SUBSET S
    OBVIOUS
  <2> QED
    BY <2>1, SumsExist
<1>2. S \ {Taken(S)} \in SUBSET S
  OBVIOUS
<1>3. Sums(f, S)[S \ {Taken(S)}] = SumFunctionOnSet(f, S \ {Taken(S)})
  BY <1>2, SumsOfPart
<1> QED
  BY <1>1, <1>3, SumIsFolded DEF SumStep

(* A sum of naturals is one; of which it is 0 if all of them are.          *)
LEMMA SumOfNaturals ==
    ASSUME NEW S, IsFiniteSet(S), NEW f, \A x \in S : f[x] \in Nat
    PROVE  /\ SumFunctionOnSet(f, S) \in Nat
           /\ SumFunctionOnSet(f, S) = 0 <=> \A x \in S : f[x] = 0
<1> DEFINE H == {T \in SUBSET S : /\ SumFunctionOnSet(f, T) \in Nat
                                  /\ SumFunctionOnSet(f, T) = 0 <=> \A x \in T : f[x] = 0}
<1>1. ASSUME NEW T \in SUBSET S, \A x \in T : T \ {x} \in H
      PROVE  T \in H
  <2>1. IsFiniteSet(T)
    BY FS_Subset
  <2>2. CASE T = {}
    <3>1. SumFunctionOnSet(f, T) = 0
      BY <2>1, <2>2, SumUnfolds
    <3> QED
      BY <2>2, <3>1
  <2>3. CASE T # {}
    <3> DEFINE x == Taken(T)
    <3>1. x \in T
      BY <2>3, TakenIsIn
    <3>2. SumFunctionOnSet(f, T) = f[x] + SumFunctionOnSet(f, T \ {x})
      BY <2>1, <2>3, SumUnfolds
    <3>3. /\ SumFunctionOnSet(f, T \ {x}) \in Nat
          /\ SumFunctionOnSet(f, T \ {x}) = 0 <=> \A y \in T \ {x} : f[y] = 0
      BY <1>1, <3>1
    <3>4. f[x] \in Nat
      BY <3>1
    <3> HIDE DEF x
    <3>5. SumFunctionOnSet(f, T) \in Nat
      BY <3>2, <3>3, <3>4
    <3>6. SumFunctionOnSet(f, T) = 0 <=> f[x] = 0 /\ SumFunctionOnSet(f, T \ {x}) = 0
      BY <3>2, <3>3, <3>4
    <3> QED
      BY <3>1, <3>3, <3>5, <3>6
  <2> QED
    BY <2>2, <2>3
<1>2. SUBSET S \subseteq H
  <2> HIDE DEF H
  <2> QED
    BY <1>1, AllSubsets
<1>3. S \in H
  BY <1>2
<1> QED
  BY <1>3

(* A sum does not depend on the order in which it is taken.                *)
LEMMA SumWithout ==
    ASSUME NEW S, IsFiniteSet(S), NEW f, \A x \in S : f[x] \in Nat
    PROVE  \A x \in S : SumFunctionOnSet(f, S) = f[x] + SumFunctionOnSet(f, S \ {x})
<1> DEFINE H == {T \in SUBSET S :
                     \A x \in T : SumFunctionOnSet(f, T) = f[x] + SumFunctionOnSet(f, T \ {x})}
<1>1. ASSUME NEW T \in SUBSET S, \A x \in T : T \ {x} \in H
      PROVE  T \in H
  <2>1. \A U \in SUBSET T : IsFiniteSet(U) /\ SumFunctionOnSet(f, U) \in Nat
    <3> TAKE U \in SUBSET T
    <3>1. IsFiniteSet(U)
      BY FS_Subset
    <3> QED
      BY <3>1, SumOfNaturals
  <2>2. ASSUME NEW x \in T
        PROVE  SumFunctionOnSet(f, T) = f[x] + SumFunctionOnSet(f, T \ {x})
    <3> DEFINE y == Taken(T)
    <3>1. y \in T
      BY TakenIsIn
    <3>2. SumFunctionOnSet(f, T) = f[y] + SumFunctionOnSet(f, T \ {y})
      BY <2>1, SumUnfolds
    <3> HIDE DEF y
    <3>3. CASE x = y
      BY <3>2, <3>3
    <3>4. CASE x # y
      <4>1. SumFunctionOnSet(f, T \ {y}) = f[x] + SumFunctionOnSet(f, (T \ {y}) \ {x})
        BY <1>1, <3>1, <3>4
      <4>2. SumFunctionOnSet(f, T \ {x}) = f[y] + SumFunctionOnSet(f, (T \ {x}) \ {y})
        BY <1>1, <3>1, <3>4
      <4>3. (T \ {x}) \ {y} = (T \ {y}) \ {x}
        OBVIOUS
      <4> DEFINE a == SumFunctionOnSet(f, T)
                 b == SumFunctionOnSet(f, T \ {x})
                 c == SumFunctionOnSet(f, T \ {y})
                 d == SumFunctionOnSet(f, (T \ {y}) \ {x})
      <4>4. a \in Nat /\ b \in Nat /\ c \in Nat /\ d \in Nat /\ f[x] \in Nat /\ f[y] \in Nat
        BY <2>1, <3>1
      <4>5. a = f[y] + c /\ c = f[x] + d /\ b = f[y] + d
        BY <3>2, <4>1, <4>2, <4>3
      <4> HIDE DEF a, b, c, d
      <4>6. a = f[x] + b
        BY <4>4, <4>5
      <4> QED
        BY <4>6 DEF a, b
    <3> QED
      BY <3>3, <3>4
  <2> QED
    BY <2>2
<1>2. SUBSET S \subseteq H
  <2> HIDE DEF H
  <2> QED
    BY <1>1, AllSubsets
<1>3. S \in H
  BY <1>2
<1> QED
  BY <1>3

(* A sum depends on nothing but what is summed up.                         *)
LEMMA SameSums ==
    ASSUME NEW S, IsFiniteSet(S), NEW f, NEW g, \A x \in S : f[x] = g[x]
    PROVE  SumFunctionOnSet(f, S) = SumFunctionOnSet(g, S)
<1> DEFINE H == {T \in SUBSET S : SumFunctionOnSet(f, T) = SumFunctionOnSet(g, T)}
<1>1. ASSUME NEW T \in SUBSET S, \A x \in T : T \ {x} \in H
      PROVE  T \in H
  <2>1. IsFiniteSet(T)
    BY FS_Subset
  <2>2. CASE T = {}
    BY <2>1, <2>2, SumUnfolds
  <2>3. CASE T # {}
    <3> DEFINE x == Taken(T)
    <3>1. x \in T
      BY <2>3, TakenIsIn
    <3>2. SumFunctionOnSet(f, T) = f[x] + SumFunctionOnSet(f, T \ {x})
      BY <2>1, <2>3, SumUnfolds
    <3>3. SumFunctionOnSet(g, T) = g[x] + SumFunctionOnSet(g, T \ {x})
      BY <2>1, <2>3, SumUnfolds
    <3>4. SumFunctionOnSet(f, T \ {x}) = SumFunctionOnSet(g, T \ {x}) /\ f[x] = g[x]
      BY <1>1, <3>1
    <3> QED
      BY <3>2, <3>3, <3>4
  <2> QED
    BY <2>2, <2>3
<1>2. SUBSET S \subseteq H
  <2> HIDE DEF H
  <2> QED
    BY <1>1, AllSubsets
<1>3. S \in H
  BY <1>2
<1> QED
  BY <1>3

(* What an update, and an addition, do to a sum.                           *)
LEMMA SumAfterUpdate ==
    ASSUME NEW S, IsFiniteSet(S), NEW f, NEW g, NEW a \in S,
           \A x \in S : f[x] \in Nat /\ g[x] \in Nat,
           \A x \in S \ {a} : f[x] = g[x]
    PROVE  SumFunctionOnSet(g, S) = (SumFunctionOnSet(f, S) - f[a]) + g[a]
<1>1. SumFunctionOnSet(f, S) = f[a] + SumFunctionOnSet(f, S \ {a})
  BY SumWithout
<1>2. SumFunctionOnSet(g, S) = g[a] + SumFunctionOnSet(g, S \ {a})
  BY SumWithout
<1>3. IsFiniteSet(S \ {a})
  BY FS_RemoveElement
<1>4. SumFunctionOnSet(f, S \ {a}) = SumFunctionOnSet(g, S \ {a})
  BY <1>3, SameSums
<1>5. SumFunctionOnSet(f, S \ {a}) \in Nat
  BY <1>3, SumOfNaturals
<1>6. f[a] \in Nat /\ g[a] \in Nat
  OBVIOUS
<1> QED
  BY <1>1, <1>2, <1>4, <1>5, <1>6

LEMMA SumAfterAdding ==
    ASSUME NEW S, IsFiniteSet(S), NEW a, a \notin S, NEW f,
           \A x \in S \cup {a} : f[x] \in Nat
    PROVE  SumFunctionOnSet(f, S \cup {a}) = SumFunctionOnSet(f, S) + f[a]
<1>1. IsFiniteSet(S \cup {a}) /\ (S \cup {a}) \ {a} = S
  BY FS_AddElement
<1>2. SumFunctionOnSet(f, S \cup {a}) = f[a] + SumFunctionOnSet(f, S)
  BY <1>1, SumWithout
<1>3. SumFunctionOnSet(f, S) \in Nat
  BY SumOfNaturals
<1> QED
  BY <1>2, <1>3

(* No part of a sum is more than the whole, and what is 0 can be left out. *)
LEMMA PartOfSum ==
    ASSUME NEW S, IsFiniteSet(S), NEW f, \A x \in S : f[x] \in Nat, NEW a \in S
    PROVE  f[a] <= SumFunctionOnSet(f, S)
<1>1. SumFunctionOnSet(f, S) = f[a] + SumFunctionOnSet(f, S \ {a})
  BY SumWithout
<1>2. IsFiniteSet(S \ {a})
  BY FS_RemoveElement
<1>3. SumFunctionOnSet(f, S \ {a}) \in Nat
  BY <1>2, SumOfNaturals
<1>4. f[a] \in Nat
  OBVIOUS
<1> QED
  BY <1>1, <1>3, <1>4

LEMMA SumOfTheRest ==
    ASSUME NEW S, IsFiniteSet(S), NEW f, \A x \in S : f[x] \in Nat,
           NEW T \in SUBSET S, \A x \in S \ T : f[x] = 0
    PROVE  SumFunctionOnSet(f, S) = SumFunctionOnSet(f, T)
<1> DEFINE R == S \ T
           H == {U \in SUBSET R : SumFunctionOnSet(f, T \cup U) = SumFunctionOnSet(f, T)}
<1>1. ASSUME NEW U \in SUBSET R, \A x \in U : U \ {x} \in H
      PROVE  U \in H
  <2>1. CASE U = {}
    <3>1. T \cup U = T
      BY <2>1
    <3> QED
      BY <3>1
  <2>2. CASE U # {}
    <3>1. PICK x \in U : TRUE
      BY <2>2
    <3> DEFINE V == T \cup (U \ {x})
    <3>2. V \in SUBSET S /\ x \notin V /\ T \cup U = V \cup {x} /\ f[x] = 0
      BY <3>1
    <3>3. IsFiniteSet(V)
      BY <3>2, FS_Subset
    <3>4. SumFunctionOnSet(f, V) = SumFunctionOnSet(f, T)
      BY <1>1, <3>1
    <3> HIDE DEF V
    <3>5. \A y \in V \cup {x} : f[y] \in Nat
      BY <3>1, <3>2
    <3>6. SumFunctionOnSet(f, V) \in Nat
      BY <3>3, <3>5, SumOfNaturals
    <3>7. SumFunctionOnSet(f, V \cup {x}) = SumFunctionOnSet(f, V) + f[x]
      BY <3>2, <3>3, <3>5, SumAfterAdding
    <3>8. SumFunctionOnSet(f, V) + f[x] = SumFunctionOnSet(f, V)
      BY <3>2, <3>6
    <3>9. SumFunctionOnSet(f, T \cup U) = SumFunctionOnSet(f, T)
      BY <3>2, <3>4, <3>7, <3>8
    <3> QED
      BY <3>9
  <2> QED
    BY <2>1, <2>2
<1>2. IsFiniteSet(R)
  BY FS_Subset
<1>3. SUBSET R \subseteq H
  <2> HIDE DEF H, R
  <2> QED
    BY <1>1, <1>2, AllSubsets
<1>4. R \in H
  BY <1>3
<1>5. T \cup R = S
  OBVIOUS
<1> QED
  BY <1>4, <1>5

LEMMA SumOfEquals ==
    ASSUME NEW S, IsFiniteSet(S), NEW f, NEW n \in Nat, \A x \in S : f[x] = n
    PROVE  SumFunctionOnSet(f, S) = n * Cardinality(S)
<1> DEFINE H == {T \in SUBSET S : SumFunctionOnSet(f, T) = n * Cardinality(T)}
<1>1. ASSUME NEW T \in SUBSET S, \A x \in T : T \ {x} \in H
      PROVE  T \in H
  <2>1. IsFiniteSet(T)
    BY FS_Subset
  <2>2. CASE T = {}
    <3>1. SumFunctionOnSet(f, T) = 0 /\ Cardinality(T) = 0 /\ n * 0 = 0
      BY <2>1, <2>2, SumUnfolds, FS_EmptySet
    <3> QED
      BY <3>1
  <2>3. CASE T # {}
    <3> DEFINE x == Taken(T)
               k == Cardinality(T \ {x})
    <3>1. x \in T
      BY <2>3, TakenIsIn
    <3>2. SumFunctionOnSet(f, T) = n + SumFunctionOnSet(f, T \ {x})
      BY <2>1, <2>3, <3>1, SumUnfolds
    <3>3. SumFunctionOnSet(f, T \ {x}) = n * k
      BY <1>1, <3>1
    <3>4. k \in Nat /\ Cardinality(T) = k + 1
      <4>1. IsFiniteSet(T \ {x}) /\ k = Cardinality(T) - 1
        BY <2>1, <3>1, FS_RemoveElement
      <4>2. k \in Nat /\ Cardinality(T) \in Nat
        BY <2>1, <4>1, FS_CardinalityType
      <4> QED
        BY <4>1, <4>2
    <3> HIDE DEF k, x
    <3>5. n * (k + 1) = n + n * k
      BY <3>4
    <3>6. SumFunctionOnSet(f, T) = n * Cardinality(T)
      BY <3>2, <3>3, <3>4, <3>5
    <3> QED
      BY <3>6
  <2> QED
    BY <2>2, <2>3
<1>2. SUBSET S \subseteq H
  <2> HIDE DEF H
  <2> QED
    BY <1>1, AllSubsets
<1>3. S \in H
  BY <1>2
<1> QED
  BY <1>3

----------------------------------------------------------------------------
(***************************************************************************)
(* Ranks: how many elements of a finite set are ahead of one.              *)
(***************************************************************************)
(* ahead[i] are the elements before i, in a strict order of all of S.      *)
Orders(ahead, S) ==
    /\ ahead \in [S -> SUBSET S]
    /\ \A i \in S : i \notin ahead[i]
    /\ \A i \in S : \A j \in ahead[i] : ahead[j] \subseteq ahead[i]
    /\ \A i, j \in S : i # j => i \in ahead[j] \/ j \in ahead[i]

(* No two elements have the same rank. *)
LEMMA RanksDiffer ==
    ASSUME NEW S, IsFiniteSet(S), NEW ahead, Orders(ahead, S)
    PROVE  /\ \A i \in S : IsFiniteSet(ahead[i]) /\ Cardinality(ahead[i]) \in Nat
           /\ \A i \in S : \A j \in ahead[i] : Cardinality(ahead[j]) < Cardinality(ahead[i])
           /\ \A i, j \in S : Cardinality(ahead[i]) = Cardinality(ahead[j]) => i = j
<1>1. \A i \in S : IsFiniteSet(ahead[i]) /\ Cardinality(ahead[i]) \in Nat
  <2> TAKE i \in S
  <2>1. ahead[i] \in SUBSET S
    BY DEF Orders
  <2>2. IsFiniteSet(ahead[i])
    BY <2>1, FS_Subset
  <2> QED
    BY <2>2, FS_CardinalityType
<1>2. \A i \in S : \A j \in ahead[i] : Cardinality(ahead[j]) < Cardinality(ahead[i])
  <2> TAKE i \in S
  <2> TAKE j \in ahead[i]
  <2>1. j \in S /\ ahead[j] \in SUBSET ahead[i] /\ j \notin ahead[j]
    BY DEF Orders
  <2>2. Cardinality(ahead[j]) <= Cardinality(ahead[i]) /\ Cardinality(ahead[i]) # Cardinality(ahead[j])
    BY <1>1, <2>1, FS_Subset
  <2> QED
    BY <1>1, <2>1, <2>2
<1>3. \A i, j \in S : Cardinality(ahead[i]) = Cardinality(ahead[j]) => i = j
  <2> SUFFICES ASSUME NEW i \in S, NEW j \in S, i # j
               PROVE  Cardinality(ahead[i]) # Cardinality(ahead[j])
    OBVIOUS
  <2>1. i \in ahead[j] \/ j \in ahead[i]
    BY DEF Orders
  <2> QED
    BY <1>1, <1>2, <2>1
<1> QED
  BY <1>1, <1>2, <1>3

(* A set of elements whose ranks are low is small. *)
LEMMA FewHaveLowRanks ==
    ASSUME NEW S, IsFiniteSet(S), NEW ahead, Orders(ahead, S),
           NEW low \in Nat, NEW n \in Nat,
           NEW U \in SUBSET S, \A i \in U : Cardinality(ahead[i]) \in low .. low + n - 1
    PROVE  IsFiniteSet(U) /\ Cardinality(U) \in Nat /\ Cardinality(U) <= n
<1> DEFINE rank == [i \in U |-> Cardinality(ahead[i])]
<1>1. \A i, j \in U : rank[i] = rank[j] => i = j
  BY RanksDiffer
<1>2. rank \in Injection(U, low .. low + n - 1)
  BY <1>1 DEF Injection, IsInjective
<1>3. IsFiniteSet(low .. low + n - 1) /\ Cardinality(low .. low + n - 1) = n
  <2>1. /\ IsFiniteSet(low .. low + n - 1)
        /\ Cardinality(low .. low + n - 1) =
               IF low > low + n - 1 THEN 0 ELSE (low + n - 1) - low + 1
    BY FS_Interval
  <2> QED
    BY <2>1
<1>4. IsFiniteSet(U) /\ Cardinality(U) <= Cardinality(low .. low + n - 1)
  <2> HIDE DEF rank
  <2> QED
    BY <1>2, <1>3, FS_Injection
<1> QED
  BY <1>3, <1>4, FS_CardinalityType

(* The ranks have no gaps: among the elements whose rank is at least n,    *)
(* the first one has rank n.                                               *)
LEMMA FirstOfSome ==
    ASSUME NEW S, IsFiniteSet(S), NEW ahead, Orders(ahead, S), NEW T \in SUBSET S, T # {}
    PROVE  \E k \in T : ahead[k] \cap T = {}
<1> DEFINE H == {U \in SUBSET S : U # {} => \E k \in U : ahead[k] \cap U = {}}
<1>1. ASSUME NEW U \in SUBSET S, \A x \in U : U \ {x} \in H
      PROVE  U \in H
  <2> SUFFICES ASSUME U # {} PROVE \E k \in U : ahead[k] \cap U = {}
    OBVIOUS
  <2>1. PICK x \in U : TRUE
    OBVIOUS
  <2>2. x \notin ahead[x]
    BY <2>1 DEF Orders
  <2>3. CASE U \ {x} = {}
    BY <2>1, <2>2, <2>3
  <2>4. CASE U \ {x} # {}
    <3>1. PICK k \in U \ {x} : ahead[k] \cap (U \ {x}) = {}
      BY <1>1, <2>1, <2>4
    <3>2. CASE x \notin ahead[k]
      BY <3>1, <3>2
    <3>3. CASE x \in ahead[k]
      <4>1. ahead[x] \subseteq ahead[k]
        BY <3>1, <3>3 DEF Orders
      <4> QED
        BY <2>1, <2>2, <3>1, <4>1
    <3> QED
      BY <3>2, <3>3
  <2> QED
    BY <2>3, <2>4
<1>2. SUBSET S \subseteq H
  <2> HIDE DEF H
  <2> QED
    BY <1>1, AllSubsets
<1>3. T \in H
  BY <1>2
<1> QED
  BY <1>3

LEMMA RanksHaveNoGaps ==
    ASSUME NEW S, IsFiniteSet(S), NEW ahead, Orders(ahead, S),
           NEW n \in Nat, NEW i \in S, Cardinality(ahead[i]) >= n
    PROVE  \E k \in S : Cardinality(ahead[k]) = n
<1> DEFINE T == {k \in S : Cardinality(ahead[k]) >= n}
<1>1. i \in T /\ T \in SUBSET S
  OBVIOUS
<1>2. PICK k \in T : ahead[k] \cap T = {}
  <2> HIDE DEF T
  <2>1. T # {}
    BY <1>1
  <2> QED
    BY <1>1, <2>1, FirstOfSome
<1>3. k \in S /\ Cardinality(ahead[k]) >= n /\ ahead[k] \in SUBSET S
  BY DEF Orders
<1>4. \A j \in ahead[k] : Cardinality(ahead[j]) \in 0 .. 0 + n - 1
  BY <1>2, <1>3, RanksDiffer
<1>5. Cardinality(ahead[k]) \in Nat /\ Cardinality(ahead[k]) <= n
  BY <1>3, <1>4, FewHaveLowRanks
<1> QED
  BY <1>3, <1>5

(* If fewer than n elements have a rank below n, there are no others.      *)
LEMMA ShortListsAreWhole ==
    ASSUME NEW S, IsFiniteSet(S), NEW ahead, Orders(ahead, S), NEW n \in Nat,
           Cardinality({i \in S : Cardinality(ahead[i]) < n}) < n
    PROVE  {i \in S : Cardinality(ahead[i]) < n} = S
<1> DEFINE few == {i \in S : Cardinality(ahead[i]) < n}
<1> SUFFICES ASSUME NEW i \in S, i \notin few PROVE FALSE
  OBVIOUS
<1>1. Cardinality(ahead[i]) >= n
  BY RanksDiffer
<1>2. PICK k \in S : Cardinality(ahead[k]) = n
  BY <1>1, RanksHaveNoGaps
<1>3. ahead[k] \in SUBSET few
  BY <1>2, RanksDiffer DEF Orders
<1>4. IsFiniteSet(few)
  BY FS_Subset
<1>5. Cardinality(ahead[k]) <= Cardinality(few) /\ Cardinality(few) \in Nat
  BY <1>3, <1>4, FS_Subset, FS_CardinalityType
<1>6. Cardinality(few) < n
  OBVIOUS
<1> QED
  BY <1>2, <1>5, <1>6

----------------------------------------------------------------------------
(***************************************************************************)
(* The invariant.                                                          *)
(***************************************************************************)
Overviews == [products : Nat, stock : Nat, machines : Nat, bank : Nat,
              purchases : Nat, revenue : Nat]
WalkType == [at : {"idle", "walking", "done"}, limit : Limits \cup {0}, offset : Nat,
             expected : SUBSET Ids, seen : SUBSET Ids]
SummaryType == [at : 0 .. 3, top : 0 .. MaxTopMachines, overview : Overviews,
                leaders : Nat, purchases : Nat, revenue : Nat]

Typed ==
    /\ clock \in 0 .. MaxTime
    /\ rows \in SUBSET Ids
    /\ createdAt \in [Ids -> 0 .. clock] /\ updatedAt \in [Ids -> 0 .. clock]
    /\ stock \in [Products -> Nat]
    /\ bank \in [Machines -> Nat]
    /\ sold \in [Machines -> [Products -> Nat]]
    /\ creation \in [Created -> {"idle", "inserting", "Created", "BadRequest", "Internal"}]
    /\ asks \in [Clients -> {"products", "machines", "summary"}]
    /\ walk \in [Clients -> WalkType]
    /\ summary \in [Clients -> SummaryType]

(* What is not in the tables has sold nothing, and a row is inserted once. *)
Absent ==
    /\ \A c \in Created : creation[c] \in {"idle", "inserting"} => c \notin rows
    /\ \A p \in Products \ rows : stock[p] = 0 /\ \A m \in Machines : sold[m][p] = 0
    /\ \A m \in Machines \ rows : bank[m] = 0

(* Every unit of a product is in its stock or was sold by some machine.    *)
SoldOf(p) == [m \in Machines |-> sold[m][p]]
UnitsKept ==
    \A p \in Products \cap rows : stock[p] + SumFunctionOnSet(SoldOf(p), Machines) = Stock

(* What a summary that reads now finds. *)
TotalsKept ==
    /\ SumFunctionOnSet(stock, rows \cap Products) + Purchases(Machines)
           = Stock * Cardinality(rows \cap Products)
    /\ SumFunctionOnSet(bank, rows \cap Machines)
           = Coins * Cardinality(rows \cap Machines) + Revenue(Machines)

(* What a summary has found, and that what is sold is never taken back.    *)
SummaryKept(s) ==
    LET o == summary[s].overview IN
    /\ o.stock + o.purchases = Stock * o.products
    /\ o.bank = Coins * o.machines + o.revenue
    /\ o.purchases <= Purchases(Machines) /\ o.revenue <= Revenue(Machines)
    /\ summary[s].at = 0 => summary[s].top = 0
    /\ summary[s].at = 3 /\ summary[s].leaders < summary[s].top =>
           summary[s].purchases >= o.purchases /\ summary[s].revenue >= o.revenue

SummariesKept == \A s \in Clients : SummaryKept(s)

(* A walk has not yet passed what it has not seen. *)
Listed(w) == IF asks[w] = "products" THEN rows \cap Products ELSE rows \cap Machines
Rank(i, listed) == Cardinality({j \in listed : Before(j, i)})

WalkKept(w) ==
    /\ walk[w].expected \subseteq rows /\ walk[w].seen \subseteq rows
    /\ walk[w].at = "idle" => walk[w].offset = 0
    /\ walk[w].at = "walking" =>
           /\ asks[w] # "summary" /\ walk[w].expected \subseteq Listed(w)
           /\ \A i \in walk[w].expected \ walk[w].seen : Rank(i, Listed(w)) >= walk[w].offset
    /\ walk[w].at = "done" => walk[w].expected \subseteq walk[w].seen

WalksKept == \A w \in Clients : WalkKept(w)

ReadsInv == Typed /\ Absent /\ UnitsKept /\ TotalsKept /\ SummariesKept /\ WalksKept

----------------------------------------------------------------------------
(***************************************************************************)
(* Totals, and what changes them.                                          *)
(***************************************************************************)
LEMMA FiniteTables ==
    /\ IsFiniteSet(Ids) /\ IsFiniteSet(Products) /\ IsFiniteSet(Machines)
    /\ \A M \in SUBSET Ids : IsFiniteSet(M) /\ Cardinality(M) \in Nat
    /\ \A M \in SUBSET Machines : IsFiniteSet(M)
<1>1. \A M \in SUBSET Ids : IsFiniteSet(M) /\ Cardinality(M) \in Nat
  BY IdsAssumption, FS_Subset, FS_CardinalityType
<1>2. Products \in SUBSET Ids /\ Machines \in SUBSET Ids
  BY DEF Ids
<1> QED
  BY <1>1, <1>2, IdsAssumption

Numbers ==
    /\ \A m \in Machines : PurchasesAt(m) \in Nat /\ RevenueAt(m) \in Nat
    /\ \A M \in SUBSET Machines : Purchases(M) \in Nat /\ Revenue(M) \in Nat

LEMMA TotalsAreNumbers == Typed => Numbers
<1> SUFFICES ASSUME Typed PROVE Numbers
  OBVIOUS
<1>1. \A m \in Machines : \A p \in Products : sold[m][p] \in Nat /\ sold[m][p] * Price[p] \in Nat
  BY MoneyAssumption DEF Typed
<1>2. \A m \in Machines : PurchasesAt(m) \in Nat /\ RevenueAt(m) \in Nat
  <2> TAKE m \in Machines
  <2>1. PurchasesAt(m) \in Nat
    BY <1>1, FiniteTables, SumOfNaturals DEF PurchasesAt
  <2> DEFINE f == [p \in Products |-> sold[m][p] * Price[p]]
  <2>2. \A p \in Products : f[p] \in Nat
    BY <1>1
  <2> HIDE DEF f
  <2>3. SumFunctionOnSet(f, Products) \in Nat
    BY <2>2, FiniteTables, SumOfNaturals
  <2> QED
    BY <2>1, <2>3 DEF RevenueAt, f
<1>3. \A M \in SUBSET Machines : Purchases(M) \in Nat /\ Revenue(M) \in Nat
  <2> TAKE M \in SUBSET Machines
  <2> DEFINE f == [m \in M |-> PurchasesAt(m)]
             g == [m \in M |-> RevenueAt(m)]
  <2>1. \A m \in M : f[m] \in Nat /\ g[m] \in Nat
    BY <1>2
  <2>2. IsFiniteSet(M)
    BY FiniteTables
  <2> HIDE DEF f, g
  <2>3. SumFunctionOnSet(f, M) \in Nat /\ SumFunctionOnSet(g, M) \in Nat
    BY <2>1, <2>2, SumOfNaturals
  <2> QED
    BY <2>3 DEF f, g, Purchases, Revenue
<1> QED
  BY <1>2, <1>3 DEF Numbers

LEMMA TotalsAreNumbersNext == Typed' => Numbers'
<1>1. (Typed => Numbers)'
  BY TotalsAreNumbers, PTL
<1> QED
  BY <1>1

(* A step that sells nothing. *)
LEMMA TotalsStay ==
    ASSUME UNCHANGED sold
    PROVE  /\ \A M : Purchases(M)' = Purchases(M) /\ Revenue(M)' = Revenue(M)
           /\ \A p \in Products : SoldOf(p)' = SoldOf(p)
BY DEF Purchases, Revenue, PurchasesAt, RevenueAt, SoldOf

LEMMA SummariesStay ==
    ASSUME Typed, Typed', SummariesKept, UNCHANGED summary,
           Purchases(Machines) <= Purchases(Machines)', Revenue(Machines) <= Revenue(Machines)'
    PROVE  SummariesKept'
<1> SUFFICES ASSUME NEW s \in Clients PROVE SummaryKept(s)'
  BY DEF SummariesKept
<1>1. SummaryKept(s) /\ summary[s].overview \in Overviews
  BY DEF SummariesKept, Typed, SummaryType
<1>2. /\ Purchases(Machines) \in Nat /\ Purchases(Machines)' \in Nat
      /\ Revenue(Machines) \in Nat /\ Revenue(Machines)' \in Nat
  <2>1. Purchases(Machines) \in Nat /\ Revenue(Machines) \in Nat
    BY TotalsAreNumbers DEF Numbers
  <2>2. Purchases(Machines)' \in Nat /\ Revenue(Machines)' \in Nat
    BY TotalsAreNumbersNext DEF Numbers
  <2> QED
    BY <2>1, <2>2
<1>3. /\ summary[s].overview.purchases <= Purchases(Machines)'
      /\ summary[s].overview.revenue <= Revenue(Machines)'
  BY <1>1, <1>2 DEF SummaryKept, Overviews
<1> QED
  BY <1>1, <1>3 DEF SummaryKept

(* Rows that appear can only be ahead of what a walk has yet to see.       *)
LEMMA WalksStay ==
    ASSUME Typed, WalksKept, UNCHANGED <<walk, asks>>,
           rows \subseteq rows', rows' \in SUBSET Ids,
           \A i \in rows : createdAt'[i] = createdAt[i]
    PROVE  WalksKept'
<1> SUFFICES ASSUME NEW w \in Clients PROVE WalkKept(w)'
  BY DEF WalksKept
<1>1. WalkKept(w)
  BY DEF WalksKept
<1>2. Listed(w) \subseteq Listed(w)' /\ Listed(w) \subseteq rows /\ Listed(w)' \in SUBSET Ids
  BY DEF Listed
<1>3. ASSUME NEW i \in Listed(w)
      PROVE  /\ Rank(i, Listed(w))' \in Nat /\ Rank(i, Listed(w)) \in Nat
             /\ Rank(i, Listed(w))' >= Rank(i, Listed(w))
  <2> DEFINE before == {j \in Listed(w) : Before(j, i)}
             after == {j \in Listed(w)' : Before(j, i)'}
  <2>1. before \subseteq after
    BY <1>2, <1>3 DEF Before
  <2>2. after \in SUBSET Ids /\ before \in SUBSET Ids
    BY <1>2
  <2>3. IsFiniteSet(after) /\ Cardinality(after) \in Nat /\ Cardinality(before) \in Nat
    BY <2>2, FiniteTables
  <2>4. Cardinality(before) <= Cardinality(after)
    <3> HIDE DEF before, after
    <3> QED
      BY <2>1, <2>3, FS_Subset
  <2> QED
    BY <2>3, <2>4 DEF Rank
<1>4. walk[w].offset \in Nat
  BY DEF Typed, WalkType
<1>5. CASE walk[w].at = "walking"
  <2>1. \A i \in walk[w].expected \ walk[w].seen : Rank(i, Listed(w))' >= walk[w].offset
    BY <1>1, <1>3, <1>4, <1>5 DEF WalkKept
  <2> QED
    BY <1>1, <1>2, <1>5, <2>1 DEF WalkKept
<1>6. CASE walk[w].at # "walking"
  BY <1>1, <1>6 DEF WalkKept
<1> QED
  BY <1>5, <1>6

----------------------------------------------------------------------------
(***************************************************************************)
(* The steps.                                                              *)
(***************************************************************************)
LEMMA ReadsInitially == Init => ReadsInv
<1> SUFFICES ASSUME Init PROVE ReadsInv
  OBVIOUS
<1>1. Typed
  <2>1. /\ clock \in 0 .. MaxTime /\ rows \in SUBSET Ids
        /\ createdAt \in [Ids -> 0 .. clock] /\ updatedAt \in [Ids -> 0 .. clock]
    BY BoundsAssumption DEF Init
  <2>2. /\ stock \in [Products -> Nat] /\ bank \in [Machines -> Nat]
        /\ sold \in [Machines -> [Products -> Nat]]
    BY MoneyAssumption DEF Init
  <2>3. walk \in [Clients -> WalkType]
    BY DEF Init, WalkType
  <2>4. NoOverview \in Overviews /\ 0 \in 0 .. MaxTopMachines
    BY BoundsAssumption DEF NoOverview, Overviews
  <2>5. summary \in [Clients -> SummaryType]
    BY <2>4 DEF Init, SummaryType
  <2> QED
    BY <2>1, <2>2, <2>3, <2>5 DEF Init, Typed
<1>2. Absent
  BY DEF Init, Absent, Ids
<1>3. \A p \in Products : SumFunctionOnSet(SoldOf(p), Machines) = 0
  <2> TAKE p \in Products
  <2>1. \A m \in Machines : SoldOf(p)[m] = 0
    BY DEF Init, SoldOf
  <2> QED
    BY <2>1, FiniteTables, SumOfNaturals
<1>4. UnitsKept
  BY <1>3, MoneyAssumption DEF UnitsKept, Init
<1>5. \A m \in Machines : PurchasesAt(m) = 0 /\ RevenueAt(m) = 0
  <2> TAKE m \in Machines
  <2>1. \A p \in Products : sold[m][p] = 0
    BY DEF Init
  <2>2. PurchasesAt(m) = 0
    BY <2>1, FiniteTables, SumOfNaturals DEF PurchasesAt
  <2> DEFINE f == [p \in Products |-> sold[m][p] * Price[p]]
  <2>3. \A p \in Products : f[p] = 0
    BY <2>1, MoneyAssumption
  <2> HIDE DEF f
  <2>4. SumFunctionOnSet(f, Products) = 0
    BY <2>3, FiniteTables, SumOfNaturals
  <2> QED
    BY <2>2, <2>4 DEF RevenueAt, f
<1>6. Purchases(Machines) = 0 /\ Revenue(Machines) = 0
  <2> DEFINE f == [m \in Machines |-> PurchasesAt(m)]
             g == [m \in Machines |-> RevenueAt(m)]
  <2>1. \A m \in Machines : f[m] = 0 /\ g[m] = 0
    BY <1>5
  <2> HIDE DEF f, g
  <2>2. SumFunctionOnSet(f, Machines) = 0 /\ SumFunctionOnSet(g, Machines) = 0
    BY <2>1, FiniteTables, SumOfNaturals
  <2> QED
    BY <2>2 DEF f, g, Purchases, Revenue
<1>7. TotalsKept
  <2>1. ASSUME NEW n \in Nat, NEW T \in SUBSET Ids, NEW f, \A x \in T : f[x] = n
        PROVE  SumFunctionOnSet(f, T) = n * Cardinality(T)
    BY <2>1, SumOfEquals, FiniteTables
  <2>2. SumFunctionOnSet(stock, rows \cap Products) = Stock * Cardinality(rows \cap Products)
    <3>1. rows \cap Products \in SUBSET Ids /\ \A p \in rows \cap Products : stock[p] = Stock
      BY DEF Init
    <3> QED
      BY <2>1, <3>1, MoneyAssumption
  <2>3. SumFunctionOnSet(bank, rows \cap Machines) = Coins * Cardinality(rows \cap Machines)
    <3>1. rows \cap Machines \in SUBSET Ids /\ \A m \in rows \cap Machines : bank[m] = Coins
      BY DEF Init
    <3> QED
      BY <2>1, <3>1, MoneyAssumption
  <2>4. /\ Stock * Cardinality(rows \cap Products) \in Nat
        /\ Coins * Cardinality(rows \cap Machines) \in Nat
    <3>1. rows \cap Products \in SUBSET Ids /\ rows \cap Machines \in SUBSET Ids
      BY DEF Init
    <3>2. Cardinality(rows \cap Products) \in Nat /\ Cardinality(rows \cap Machines) \in Nat
      BY <3>1, FiniteTables
    <3> QED
      BY <3>2, MoneyAssumption
  <2> QED
    BY <1>6, <2>2, <2>3, <2>4 DEF TotalsKept
<1>8. SummariesKept
  <2>1. Stock * 0 = 0 /\ Coins * 0 = 0
    BY MoneyAssumption
  <2> QED
    BY <1>6, <2>1 DEF Init, SummariesKept, SummaryKept, NoOverview
<1>9. WalksKept
  BY DEF Init, WalksKept, WalkKept
<1> QED
  BY <1>1, <1>2, <1>4, <1>7, <1>8, <1>9 DEF ReadsInv

LEMMA TickKeeps == ReadsInv /\ Tick => ReadsInv'
<1> SUFFICES ASSUME ReadsInv, Tick PROVE ReadsInv'
  OBVIOUS
<1> USE DEF ReadsInv
<1>1. UNCHANGED <<rows, createdAt, updatedAt, stock, bank, sold, creation, asks, walk, summary>>
  BY DEF Tick, table
<1>2. Typed'
  <2>1. clock' \in 0 .. MaxTime /\ 0 .. clock \subseteq 0 .. clock'
    BY BoundsAssumption DEF Tick, Typed
  <2> QED
    BY <1>1, <2>1 DEF Typed
<1>3. Absent' /\ UnitsKept' /\ TotalsKept'
  BY <1>1, TotalsStay DEF Absent, UnitsKept, TotalsKept
<1>4. Purchases(Machines)' = Purchases(Machines) /\ Revenue(Machines)' = Revenue(Machines)
  BY <1>1, TotalsStay
<1>5. SummariesKept'
  <2>1. Purchases(Machines) \in Nat /\ Revenue(Machines) \in Nat
    BY TotalsAreNumbers DEF Numbers
  <2> QED
    BY <1>1, <1>2, <1>4, <2>1, SummariesStay
<1>6. WalksKept'
  BY <1>1, <1>2, WalksStay DEF Typed
<1> QED
  BY <1>2, <1>3, <1>5, <1>6

LEMMA StampKeeps == ASSUME ReadsInv, NEW c \in Created, Stamp(c) PROVE ReadsInv'
<1> USE DEF ReadsInv
<1>1. UNCHANGED <<clock, rows, stock, bank, sold, asks, walk, summary>>
  BY DEF Stamp
<1>2. c \in Ids /\ c \notin rows
  BY IdsAssumption DEF Stamp, Absent
<1>3. /\ createdAt' \in [Ids -> 0 .. clock] /\ updatedAt' \in [Ids -> 0 .. clock]
      /\ \A i \in rows : createdAt'[i] = createdAt[i]
      /\ creation' \in [Created -> {"idle", "inserting", "Created", "BadRequest", "Internal"}]
      /\ \A d \in Created \ {c} : creation'[d] = creation[d]
  <2>1. clock \in 0 .. clock
    BY BoundsAssumption DEF Typed
  <2> QED
    BY <1>2, <2>1 DEF Stamp, CreationAt, Typed
<1>4. Typed'
  BY <1>1, <1>3 DEF Typed
<1>5. Absent' /\ UnitsKept' /\ TotalsKept'
  BY <1>1, <1>2, <1>3, TotalsStay DEF Absent, UnitsKept, TotalsKept
<1>6. SummariesKept'
  <2>1. Purchases(Machines)' = Purchases(Machines) /\ Revenue(Machines)' = Revenue(Machines)
    BY <1>1, TotalsStay
  <2>2. Purchases(Machines) \in Nat /\ Revenue(Machines) \in Nat
    BY TotalsAreNumbers DEF Numbers
  <2> QED
    BY <1>1, <1>4, <2>1, <2>2, SummariesStay
<1>7. WalksKept'
  BY <1>1, <1>3, WalksStay DEF Typed
<1> QED
  BY <1>4, <1>5, <1>6, <1>7

(* One more row adds what it was created with. *)
LEMMA TotalWithOneMore ==
    ASSUME NEW T \in SUBSET Ids, NEW c \in Ids \ T, NEW f, NEW g, NEW n \in Nat, NEW total \in Nat,
           NEW extra \in Nat,
           \A x \in T : f[x] \in Nat /\ g[x] = f[x], g[c] = n
    PROVE  SumFunctionOnSet(f, T) + total = n * Cardinality(T) + extra
               => SumFunctionOnSet(g, T \cup {c}) + total = n * Cardinality(T \cup {c}) + extra
<1>1. IsFiniteSet(T) /\ Cardinality(T) \in Nat
  BY FiniteTables
<1>2. SumFunctionOnSet(g, T) = SumFunctionOnSet(f, T)
  BY <1>1, SameSums
<1>3. SumFunctionOnSet(f, T) \in Nat
  BY <1>1, SumOfNaturals
<1>4. SumFunctionOnSet(g, T \cup {c}) = SumFunctionOnSet(g, T) + n
  <2>1. \A x \in T \cup {c} : g[x] \in Nat
    OBVIOUS
  <2> QED
    BY <1>1, <2>1, SumAfterAdding
<1>5. Cardinality(T \cup {c}) = Cardinality(T) + 1
  BY <1>1, FS_AddElement
<1> DEFINE k == Cardinality(T)
<1>6. n * (k + 1) = n * k + n /\ n * k \in Nat
  <2>1. k \in Nat
    BY <1>1
  <2> HIDE DEF k
  <2> QED
    BY <2>1
<1> DEFINE before == SumFunctionOnSet(f, T)
           after == SumFunctionOnSet(g, T \cup {c})
<1>7. before \in Nat /\ after = before + n
  BY <1>2, <1>3, <1>4
<1>8. n * Cardinality(T \cup {c}) = n * k + n
  BY <1>5, <1>6
<1> SUFFICES before + total = n * k + extra => after + total = (n * k + n) + extra
  BY <1>8
<1> DEFINE base == n * k
<1>9. base \in Nat
  BY <1>6
<1> SUFFICES before + total = base + extra => after + total = (base + n) + extra
  OBVIOUS
<1> HIDE DEF before, after, base
<1> QED
  BY <1>7, <1>9

LEMMA NotInsertedKeeps ==
    ASSUME ReadsInv, NEW c \in Created, creation[c] = "inserting", NotInserted(c),
           UNCHANGED <<clock, createdAt, updatedAt, sold, asks, walk, summary>>
    PROVE  ReadsInv'
<1> USE DEF ReadsInv
<1>1. UNCHANGED <<rows, stock, bank>>
  BY DEF NotInserted
<1>2. /\ creation' \in [Created -> {"idle", "inserting", "Created", "BadRequest", "Internal"}]
      /\ \A d \in Created \ {c} : creation'[d] = creation[d]
      /\ creation'[c] = "Internal"
  BY DEF NotInserted, CreationAt, Typed
<1>3. Typed'
  BY <1>1, <1>2 DEF Typed
<1>4. Absent' /\ UnitsKept' /\ TotalsKept'
  BY <1>1, <1>2, TotalsStay DEF Absent, UnitsKept, TotalsKept
<1>5. SummariesKept'
  <2>1. Purchases(Machines)' = Purchases(Machines) /\ Revenue(Machines)' = Revenue(Machines)
    BY TotalsStay
  <2>2. Purchases(Machines) \in Nat /\ Revenue(Machines) \in Nat
    BY TotalsAreNumbers DEF Numbers
  <2> QED
    BY <1>3, <2>1, <2>2, SummariesStay
<1>6. WalksKept'
  BY <1>1, WalksStay DEF Typed
<1> QED
  BY <1>3, <1>4, <1>5, <1>6

LEMMA InsertKeeps ==
    ASSUME ReadsInv, NEW c \in Created, InsertProduct(c) \/ InsertMachine(c) PROVE ReadsInv'
<1> USE DEF ReadsInv
<1>1. UNCHANGED <<clock, createdAt, updatedAt, sold, asks, walk, summary>> /\ creation[c] = "inserting"
  BY DEF InsertProduct, InsertMachine
<1>2. c \in Ids /\ c \notin rows /\ Products \cap Machines = {} /\ rows \in SUBSET Ids
  BY <1>1, IdsAssumption DEF Absent, Typed
<1>3. CASE NotInserted(c)
  BY <1>1, <1>3, NotInsertedKeeps
<1>4. CASE Inserted(c)
  <2>1. /\ rows' = rows \cup {c}
        /\ creation' \in [Created -> {"idle", "inserting", "Created", "BadRequest", "Internal"}]
        /\ \A d \in Created \ {c} : creation'[d] = creation[d]
        /\ creation'[c] \in {"Created", "Internal"}
    BY <1>4 DEF Inserted, CreationAt, Typed
  <2>2. /\ \A M : Purchases(M)' = Purchases(M) /\ Revenue(M)' = Revenue(M)
        /\ \A p \in Products : SoldOf(p)' = SoldOf(p)
    BY <1>1, TotalsStay
  <2>3. Purchases(Machines) \in Nat /\ Revenue(Machines) \in Nat
    BY TotalsAreNumbers DEF Numbers
  <2>4. WalksKept'
    BY <1>1, <1>2, <2>1, WalksStay
  <2>5. ASSUME Typed' PROVE SummariesKept'
    BY <1>1, <2>2, <2>3, <2>5, SummariesStay
  <2>6. CASE InsertProduct(c) /\ stock' = [stock EXCEPT ![c] = Stock] /\ UNCHANGED bank
    <3>1. c \in Products /\ c \notin Machines
      BY <1>2, <2>6 DEF InsertProduct
    <3>2. stock' \in [Products -> Nat] /\ stock'[c] = Stock
          /\ \A p \in Products \ {c} : stock'[p] = stock[p]
      BY <2>6, <3>1, MoneyAssumption DEF Typed
    <3>3. Typed'
      BY <1>1, <1>2, <2>1, <2>6, <3>2 DEF Typed
    <3>4. Absent'
      BY <1>1, <2>1, <2>6, <3>2 DEF Absent
    <3>5. UnitsKept'
      <4>1. SumFunctionOnSet(SoldOf(c), Machines) = 0
        <5>1. \A m \in Machines : SoldOf(c)[m] = 0
          BY <1>2, <3>1 DEF Absent, SoldOf
        <5> QED
          BY <5>1, FiniteTables, SumOfNaturals
      <4>2. Stock + 0 = Stock
        BY MoneyAssumption
      <4> QED
        BY <2>1, <2>2, <3>1, <3>2, <4>1, <4>2 DEF UnitsKept
    <3>6. TotalsKept'
      <4> DEFINE T == rows \cap Products
      <4>1. T \in SUBSET Ids /\ c \in Ids \ T /\ rows' \cap Products = T \cup {c}
        BY <1>2, <2>1, <3>1
      <4>2. \A x \in T : stock[x] \in Nat /\ stock'[x] = stock[x]
        BY <1>2, <3>2 DEF Typed
      <4>3. /\ SumFunctionOnSet(stock, T) + Purchases(Machines) = Stock * Cardinality(T)
            /\ SumFunctionOnSet(bank, rows \cap Machines)
                   = Coins * Cardinality(rows \cap Machines) + Revenue(Machines)
        BY DEF TotalsKept
      <4>4. rows' \cap Machines = rows \cap Machines
        BY <2>1, <3>1
      <4> HIDE DEF T
      <4>5. SumFunctionOnSet(stock', T \cup {c}) + Purchases(Machines) = Stock * Cardinality(T \cup {c})
        <5>1. Cardinality(T) \in Nat /\ Cardinality(T \cup {c}) \in Nat
          BY <4>1, FiniteTables
        <5>2. /\ Stock * Cardinality(T) + 0 = Stock * Cardinality(T)
              /\ Stock * Cardinality(T \cup {c}) + 0 = Stock * Cardinality(T \cup {c})
          BY <5>1, MoneyAssumption
        <5>3. SumFunctionOnSet(stock, T) + Purchases(Machines) = Stock * Cardinality(T) + 0
                  => SumFunctionOnSet(stock', T \cup {c}) + Purchases(Machines)
                         = Stock * Cardinality(T \cup {c}) + 0
          BY <2>3, <3>2, <4>1, <4>2, MoneyAssumption, TotalWithOneMore
        <5> QED
          BY <4>3, <5>2, <5>3
      <4> QED
        BY <2>2, <2>6, <4>1, <4>3, <4>4, <4>5 DEF TotalsKept
    <3> QED
      BY <2>4, <2>5, <3>3, <3>4, <3>5, <3>6
  <2>7. CASE InsertMachine(c) /\ bank' = [bank EXCEPT ![c] = Coins] /\ UNCHANGED stock
    <3>1. c \in Machines /\ c \notin Products
      BY <1>2, <2>7 DEF InsertMachine
    <3>2. bank' \in [Machines -> Nat] /\ bank'[c] = Coins
          /\ \A m \in Machines \ {c} : bank'[m] = bank[m]
      BY <2>7, <3>1, MoneyAssumption DEF Typed
    <3>3. Typed'
      BY <1>1, <1>2, <2>1, <2>7, <3>2 DEF Typed
    <3>4. Absent'
      BY <1>1, <2>1, <2>7, <3>1, <3>2 DEF Absent
    <3>5. UnitsKept'
      BY <2>1, <2>2, <2>7, <3>1 DEF UnitsKept
    <3>6. TotalsKept'
      <4> DEFINE T == rows \cap Machines
      <4>1. T \in SUBSET Ids /\ c \in Ids \ T /\ rows' \cap Machines = T \cup {c}
        BY <1>2, <2>1, <3>1
      <4>2. \A x \in T : bank[x] \in Nat /\ bank'[x] = bank[x]
        BY <1>2, <3>2 DEF Typed
      <4>3. /\ SumFunctionOnSet(stock, rows \cap Products) + Purchases(Machines)
                   = Stock * Cardinality(rows \cap Products)
            /\ SumFunctionOnSet(bank, T) = Coins * Cardinality(T) + Revenue(Machines)
        BY DEF TotalsKept
      <4>4. rows' \cap Products = rows \cap Products
        BY <2>1, <3>1
      <4> HIDE DEF T
      <4>5. SumFunctionOnSet(bank', T \cup {c}) = Coins * Cardinality(T \cup {c}) + Revenue(Machines)
        <5>1. SumFunctionOnSet(bank, T) \in Nat
          BY <4>1, <4>2, FiniteTables, SumOfNaturals
        <5>2. SumFunctionOnSet(bank', T \cup {c}) \in Nat
          <6>1. \A x \in T \cup {c} : bank'[x] \in Nat
            BY <3>2, <4>2, MoneyAssumption
          <6>2. IsFiniteSet(T \cup {c})
            BY <4>1, FiniteTables
          <6> QED
            BY <6>1, <6>2, SumOfNaturals
        <5>3. SumFunctionOnSet(bank, T) + 0 = Coins * Cardinality(T) + Revenue(Machines)
                  => SumFunctionOnSet(bank', T \cup {c}) + 0
                         = Coins * Cardinality(T \cup {c}) + Revenue(Machines)
          BY <2>3, <3>2, <4>1, <4>2, MoneyAssumption, TotalWithOneMore
        <5> QED
          BY <4>3, <5>1, <5>2, <5>3
      <4> QED
        BY <2>2, <2>7, <4>1, <4>3, <4>4, <4>5 DEF TotalsKept
    <3> QED
      BY <2>4, <2>5, <3>3, <3>4, <3>5, <3>6
  <2>8. CASE NotInserted(c)
    BY <1>1, <2>8, NotInsertedKeeps
  <2> QED
    BY <2>6, <2>7, <2>8 DEF InsertProduct, InsertMachine
<1> QED
  BY <1>3, <1>4 DEF InsertProduct, InsertMachine

----------------------------------------------------------------------------
(* A sale. *)
LEMMA SellKeeps ==
    ASSUME ReadsInv, NEW m \in Machines, NEW p \in Products, Sell(m, p) PROVE ReadsInv'
<1> USE DEF ReadsInv
<1>1. UNCHANGED <<clock, rows, createdAt, creation, asks, walk, summary>>
  BY DEF Sell
<1>2. m \in rows /\ p \in rows /\ stock[p] > 0 /\ m \in Ids /\ p \in Ids
  BY DEF Sell, Ids
<1>3. /\ stock' \in [Products -> Nat] /\ stock'[p] = stock[p] - 1
      /\ \A q \in Products \ {p} : stock'[q] = stock[q]
  BY <1>2 DEF Sell, Typed
<1>4. /\ bank' \in [Machines -> Nat] /\ bank'[m] = bank[m] + Price[p]
      /\ \A n \in Machines \ {m} : bank'[n] = bank[n]
  <2>1. bank[m] + Price[p] \in Nat
    BY MoneyAssumption DEF Typed
  <2> QED
    BY <2>1 DEF Sell, Typed
<1>5. /\ sold' \in [Machines -> [Products -> Nat]] /\ sold'[m][p] = sold[m][p] + 1
      /\ \A q \in Products \ {p} : sold'[m][q] = sold[m][q]
      /\ \A n \in Machines \ {m} : sold'[n] = sold[n]
  BY DEF Sell, Typed
<1>6. updatedAt' \in [Ids -> 0 .. clock]
  <2>1. clock \in 0 .. clock
    BY BoundsAssumption DEF Typed
  <2> QED
    BY <1>2, <2>1 DEF Sell, Typed
<1>7. Typed'
  BY <1>1, <1>3, <1>4, <1>5, <1>6 DEF Typed
<1>8. Price[p] \in Nat /\ stock[p] \in Nat /\ bank[m] \in Nat /\ sold[m][p] \in Nat
  BY MoneyAssumption DEF Typed
<1>9. Absent'
  <2>1. \A q \in Products \ rows : stock'[q] = 0 /\ \A n \in Machines : sold'[n][q] = 0
    <3> TAKE q \in Products \ rows
    <3>1. q # p /\ stock[q] = 0 /\ \A n \in Machines : sold[n][q] = 0
      BY <1>2 DEF Absent
    <3> QED
      BY <1>3, <1>5, <3>1
  <2> QED
    BY <1>1, <1>2, <1>4, <2>1 DEF Absent
<1>10. UnitsKept'
  <2> SUFFICES ASSUME NEW q \in Products \cap rows
               PROVE  stock'[q] + SumFunctionOnSet(SoldOf(q)', Machines) = Stock
    BY <1>1 DEF UnitsKept
  <2>1. stock[q] + SumFunctionOnSet(SoldOf(q), Machines) = Stock
    BY DEF UnitsKept
  <2>2. CASE q # p
    <3>1. SoldOf(q)' = SoldOf(q)
      BY <1>5, <2>2 DEF SoldOf
    <3> QED
      BY <1>3, <2>1, <2>2, <3>1
  <2>3. CASE q = p
    <3> DEFINE f == SoldOf(p)
               g == SoldOf(p)'
    <3>1. /\ \A n \in Machines : f[n] \in Nat /\ g[n] \in Nat
          /\ \A n \in Machines \ {m} : f[n] = g[n]
          /\ g[m] = f[m] + 1
      BY <1>5 DEF SoldOf, Typed
    <3> HIDE DEF f, g
    <3>2. SumFunctionOnSet(g, Machines) = (SumFunctionOnSet(f, Machines) - f[m]) + g[m]
      BY <3>1, FiniteTables, SumAfterUpdate
    <3>3. SumFunctionOnSet(f, Machines) \in Nat /\ f[m] \in Nat
      BY <3>1, FiniteTables, SumOfNaturals
    <3>4. SumFunctionOnSet(g, Machines) = SumFunctionOnSet(f, Machines) + 1
      BY <3>1, <3>2, <3>3
    <3> QED
      BY <1>3, <1>8, <2>1, <2>3, <3>3, <3>4 DEF f, g
  <2> QED
    BY <2>2, <2>3
<1>11. PurchasesAt(m)' = PurchasesAt(m) + 1
  <2> DEFINE f == sold[m]
             g == sold'[m]
  <2>1. /\ \A q \in Products : f[q] \in Nat /\ g[q] \in Nat
        /\ \A q \in Products \ {p} : f[q] = g[q]
        /\ g[p] = f[p] + 1
    BY <1>5 DEF Typed
  <2> HIDE DEF f, g
  <2>2. SumFunctionOnSet(g, Products) = (SumFunctionOnSet(f, Products) - f[p]) + g[p]
    BY <2>1, FiniteTables, SumAfterUpdate
  <2>3. SumFunctionOnSet(f, Products) \in Nat /\ f[p] \in Nat
    BY <2>1, FiniteTables, SumOfNaturals
  <2>4. SumFunctionOnSet(g, Products) = SumFunctionOnSet(f, Products) + 1
    BY <2>1, <2>2, <2>3
  <2> QED
    BY <2>4 DEF f, g, PurchasesAt
<1>12. RevenueAt(m)' = RevenueAt(m) + Price[p]
  <2> DEFINE f == [q \in Products |-> sold[m][q] * Price[q]]
             g == [q \in Products |-> sold'[m][q] * Price[q]]
  <2>1. \A q \in Products : f[q] \in Nat /\ g[q] \in Nat
    BY <1>5, MoneyAssumption DEF Typed
  <2>2. \A q \in Products \ {p} : f[q] = g[q]
    BY <1>5
  <2>3. g[p] = f[p] + Price[p]
    <3>1. \A a, b \in Nat : (a + 1) * b = a * b + b
      OBVIOUS
    <3> QED
      BY <1>5, <1>8, <3>1
  <2> HIDE DEF f, g
  <2>4. SumFunctionOnSet(g, Products) = (SumFunctionOnSet(f, Products) - f[p]) + g[p]
    BY <2>1, <2>2, FiniteTables, SumAfterUpdate
  <2>5. SumFunctionOnSet(f, Products) \in Nat /\ f[p] \in Nat
    BY <2>1, FiniteTables, SumOfNaturals
  <2>6. SumFunctionOnSet(g, Products) = SumFunctionOnSet(f, Products) + Price[p]
    BY <1>8, <2>3, <2>4, <2>5
  <2> QED
    BY <2>6 DEF f, g, RevenueAt
<1>13. \A n \in Machines \ {m} : PurchasesAt(n)' = PurchasesAt(n) /\ RevenueAt(n)' = RevenueAt(n)
  BY <1>5 DEF PurchasesAt, RevenueAt
<1>14. /\ \A n \in Machines : PurchasesAt(n) \in Nat /\ RevenueAt(n) \in Nat
       /\ \A n \in Machines : PurchasesAt(n)' \in Nat /\ RevenueAt(n)' \in Nat
       /\ Purchases(Machines) \in Nat /\ Revenue(Machines) \in Nat
  BY <1>7, TotalsAreNumbers, TotalsAreNumbersNext DEF Numbers
<1>15. Purchases(Machines)' = Purchases(Machines) + 1
  <2> DEFINE f == [n \in Machines |-> PurchasesAt(n)]
             g == [n \in Machines |-> PurchasesAt(n)']
  <2>1. /\ \A n \in Machines : f[n] \in Nat /\ g[n] \in Nat
        /\ \A n \in Machines \ {m} : f[n] = g[n]
        /\ g[m] = f[m] + 1
    BY <1>11, <1>13, <1>14
  <2>2. /\ Purchases(Machines) = SumFunctionOnSet(f, Machines)
        /\ Purchases(Machines)' = SumFunctionOnSet(g, Machines)
    BY DEF Purchases
  <2> HIDE DEF f, g
  <2>3. SumFunctionOnSet(g, Machines) = (SumFunctionOnSet(f, Machines) - f[m]) + g[m]
    BY <2>1, FiniteTables, SumAfterUpdate
  <2> QED
    BY <1>14, <2>1, <2>2, <2>3
<1>16. Revenue(Machines)' = Revenue(Machines) + Price[p]
  <2> DEFINE f == [n \in Machines |-> RevenueAt(n)]
             g == [n \in Machines |-> RevenueAt(n)']
  <2>1. /\ \A n \in Machines : f[n] \in Nat /\ g[n] \in Nat
        /\ \A n \in Machines \ {m} : f[n] = g[n]
        /\ g[m] = f[m] + Price[p]
    BY <1>12, <1>13, <1>14
  <2>2. /\ Revenue(Machines) = SumFunctionOnSet(f, Machines)
        /\ Revenue(Machines)' = SumFunctionOnSet(g, Machines)
    BY DEF Revenue
  <2> HIDE DEF f, g
  <2>3. SumFunctionOnSet(g, Machines) = (SumFunctionOnSet(f, Machines) - f[m]) + g[m]
    BY <2>1, FiniteTables, SumAfterUpdate
  <2> QED
    BY <1>8, <1>14, <2>1, <2>2, <2>3
<1>17. TotalsKept'
  <2> DEFINE T == rows \cap Products
             M == rows \cap Machines
  <2>1. /\ p \in T /\ m \in M /\ IsFiniteSet(T) /\ IsFiniteSet(M)
        /\ Cardinality(T) \in Nat /\ Cardinality(M) \in Nat
    <3>1. T \in SUBSET Ids /\ M \in SUBSET Ids
      BY DEF Typed
    <3> QED
      BY <1>2, <3>1, FiniteTables
  <2>2. /\ \A q \in T : stock[q] \in Nat /\ stock'[q] \in Nat
        /\ \A q \in T \ {p} : stock[q] = stock'[q]
        /\ \A n \in M : bank[n] \in Nat /\ bank'[n] \in Nat
        /\ \A n \in M \ {m} : bank[n] = bank'[n]
    BY <1>3, <1>4 DEF Typed
  <2>3. T' = T /\ M' = M
    BY <1>1
  <2>4. /\ SumFunctionOnSet(stock, T) + Purchases(Machines) = Stock * Cardinality(T)
        /\ SumFunctionOnSet(bank, M) = Coins * Cardinality(M) + Revenue(Machines)
    BY DEF TotalsKept
  <2> SUFFICES /\ SumFunctionOnSet(stock', T) + Purchases(Machines)' = Stock * Cardinality(T)
               /\ SumFunctionOnSet(bank', M) = Coins * Cardinality(M) + Revenue(Machines)'
    BY <2>3 DEF TotalsKept
  <2> HIDE DEF T, M
  <2>5. /\ SumFunctionOnSet(stock', T) = (SumFunctionOnSet(stock, T) - stock[p]) + stock'[p]
        /\ SumFunctionOnSet(bank', M) = (SumFunctionOnSet(bank, M) - bank[m]) + bank'[m]
    BY <2>1, <2>2, SumAfterUpdate
  <2>6. SumFunctionOnSet(stock, T) \in Nat /\ SumFunctionOnSet(bank, M) \in Nat
    BY <2>1, <2>2, SumOfNaturals
  <2>7. /\ SumFunctionOnSet(stock', T) = SumFunctionOnSet(stock, T) - 1
        /\ SumFunctionOnSet(bank', M) = SumFunctionOnSet(bank, M) + Price[p]
    BY <1>3, <1>4, <1>8, <2>5, <2>6
  <2>8. Stock * Cardinality(T) \in Nat /\ Coins * Cardinality(M) \in Nat
    BY <2>1, MoneyAssumption
  <2>9. SumFunctionOnSet(stock', T) + Purchases(Machines)' = Stock * Cardinality(T)
    BY <1>14, <1>15, <2>4, <2>6, <2>7
  <2>10. SumFunctionOnSet(bank', M) = Coins * Cardinality(M) + Revenue(Machines)'
    BY <1>8, <1>14, <1>16, <2>4, <2>6, <2>7, <2>8
  <2> QED
    BY <2>9, <2>10
<1>18. SummariesKept'
  <2>1. Purchases(Machines) <= Purchases(Machines)' /\ Revenue(Machines) <= Revenue(Machines)'
    BY <1>8, <1>14, <1>15, <1>16
  <2> QED
    BY <1>1, <1>7, <2>1, SummariesStay
<1>19. WalksKept'
  BY <1>1, WalksStay DEF Typed
<1> QED
  BY <1>7, <1>9, <1>10, <1>17, <1>18, <1>19

----------------------------------------------------------------------------
(* Walks. *)
Ahead(listed) == [i \in listed |-> {j \in listed : Before(j, i)}]

LEMMA RowsAreOrdered ==
    ASSUME Typed, NEW listed \in SUBSET Ids
    PROVE  /\ Orders(Ahead(listed), listed)
           /\ IsFiniteSet(listed)
           /\ \A i \in listed : Cardinality(Ahead(listed)[i]) = Rank(i, listed)
           /\ \A i \in listed : Rank(i, listed) \in Nat
<1>1. \A i \in listed : i \in Nat /\ createdAt[i] \in Int
  BY IdsAssumption, BoundsAssumption DEF Typed
<1>2. Orders(Ahead(listed), listed)
  BY <1>1 DEF Orders, Ahead, Before
<1>3. IsFiniteSet(listed)
  BY FiniteTables
<1>4. \A i \in listed : Cardinality(Ahead(listed)[i]) = Rank(i, listed)
  BY DEF Ahead, Rank
<1>5. \A i \in listed : Cardinality(Ahead(listed)[i]) \in Nat
  BY <1>2, <1>3, RanksDiffer
<1> QED
  BY <1>2, <1>3, <1>4, <1>5

(* What a page shows of the rest, and what it leaves. *)
LEMMA PagesShowTheNext ==
    ASSUME Typed, NEW listed \in SUBSET Ids, NEW limit \in Nat \ {0}, NEW offset \in Nat
    PROVE  LET page == Page(listed, limit, offset) IN
           /\ page \subseteq listed /\ Cardinality(page) \in Nat
           /\ \A i \in listed \ page :
                 Rank(i, listed) >= offset => Rank(i, listed) >= offset + Cardinality(page)
           /\ page = {} => \A i \in listed : ~(Rank(i, listed) >= offset)
<1> DEFINE page == Page(listed, limit, offset)
           ahead == Ahead(listed)
<1>1. /\ Orders(ahead, listed) /\ IsFiniteSet(listed)
      /\ \A i \in listed : Cardinality(ahead[i]) = Rank(i, listed) /\ Rank(i, listed) \in Nat
  BY RowsAreOrdered
<1>2. page = {i \in listed : Rank(i, listed) \in offset .. offset + limit - 1}
  BY DEF Page, Rank
<1> HIDE DEF page, ahead
<1>3. Cardinality(page) \in Nat /\ Cardinality(page) <= limit
  <2>1. page \in SUBSET listed /\ \A i \in page : Cardinality(ahead[i]) \in offset .. offset + limit - 1
    BY <1>1, <1>2
  <2> QED
    BY <1>1, <2>1, FewHaveLowRanks
<1>4. ASSUME NEW i \in listed \ page, Rank(i, listed) >= offset
      PROVE  Rank(i, listed) >= offset + Cardinality(page)
  BY <1>1, <1>2, <1>3, <1>4
<1>5. ASSUME page = {}, NEW i \in listed, Rank(i, listed) >= offset
      PROVE  FALSE
  <2>1. PICK k \in listed : Cardinality(ahead[k]) = offset
    BY <1>1, <1>5, RanksHaveNoGaps
  <2>2. k \in page
    BY <1>1, <1>2, <2>1
  <2> QED
    BY <1>5, <2>2
<1> QED
  BY <1>2, <1>3, <1>4, <1>5 DEF page

LEMMA WalkKeeps ==
    ASSUME ReadsInv, NEW w \in Clients, ListProducts(w) \/ ListMachines(w) PROVE ReadsInv'
<1> USE DEF ReadsInv
<1> DEFINE listed == Listed(w)
<1>1. /\ StartWalk(w, listed) \/ NextPage(w, listed)
      /\ asks[w] # "summary" /\ listed \subseteq rows /\ listed \in SUBSET Ids
  BY DEF ListProducts, ListMachines, Walks, Listed, Typed
<1>2. UNCHANGED <<clock, rows, createdAt, updatedAt, stock, bank, sold, creation, asks, summary>>
  BY <1>1 DEF StartWalk, NextPage, table
<1>3. \A v \in Clients \ {w} : walk'[v] = walk[v]
  BY <1>1 DEF StartWalk, NextPage, Typed
<1>4. WalkKept(w) /\ walk[w] \in WalkType
  BY DEF WalksKept, Typed
<1>5. Listed(w)' = listed /\ \A i : Rank(i, Listed(w))' = Rank(i, listed)
  BY <1>2 DEF Listed, Rank, Before
<1>6. walk' \in [Clients -> WalkType] /\ WalkKept(w)'
  <2>1. CASE StartWalk(w, listed)
    <3>1. PICK limit \in Limits :
             walk' = [walk EXCEPT ![w].at = "walking", ![w].limit = limit, ![w].expected = listed]
      BY <2>1 DEF StartWalk
    <3>2. /\ walk'[w] = [walk[w] EXCEPT !.at = "walking", !.limit = limit, !.expected = listed]
          /\ walk' = [walk EXCEPT ![w] = walk'[w]]
      BY <3>1 DEF Typed
    <3> HIDE DEF listed
    <3>3. walk'[w] \in WalkType
      BY <1>1, <1>4, <3>2 DEF WalkType
    <3>4. walk[w].offset = 0
      BY <1>4, <2>1 DEF StartWalk, WalkKept
    <3>5. \A i \in listed : Rank(i, listed) \in Nat
      BY <1>1, RowsAreOrdered
    <3>6. /\ walk'[w].at = "walking" /\ walk'[w].expected = listed
          /\ walk'[w].offset = 0 /\ walk'[w].seen = walk[w].seen
      BY <1>4, <3>2, <3>4 DEF WalkType
    <3>7. walk' \in [Clients -> WalkType]
      BY <3>2, <3>3 DEF Typed
    <3>8. /\ walk[w].seen \subseteq rows /\ rows' = rows /\ asks' = asks
          /\ \A i \in listed : Rank(i, Listed(w))' >= 0
      BY <1>2, <1>4, <1>5, <3>5 DEF WalkKept
    <3>9. WalkKept(w)'
      BY <1>1, <1>5, <3>6, <3>8 DEF WalkKept
    <3> QED
      BY <3>7, <3>9
  <2>2. CASE NextPage(w, listed)
    <3> DEFINE limit == Limit(walk[w].limit)
               offset == walk[w].offset
               page == Page(listed, limit, offset)
               at == IF page = {} THEN "done" ELSE "walking"
    <3>1. limit \in Nat \ {0} /\ offset \in Nat
      BY <1>4, BoundsAssumption DEF WalkType, Limit
    <3>2. /\ page \subseteq listed /\ Cardinality(page) \in Nat
          /\ \A i \in listed \ page :
                Rank(i, listed) >= offset => Rank(i, listed) >= offset + Cardinality(page)
          /\ page = {} => \A i \in listed : ~(Rank(i, listed) >= offset)
      <4> HIDE DEF limit, offset, listed
      <4> QED
        BY <1>1, <3>1, PagesShowTheNext
    <3>3. walk[w].at = "walking"
          /\ walk' = [walk EXCEPT ![w].at = at, ![w].offset = @ + Cardinality(page),
                                  ![w].seen = @ \cup page]
      BY <2>2 DEF NextPage
    <3> HIDE DEF page, listed, limit
    <3>4. /\ walk'[w] = [walk[w] EXCEPT !.at = at, !.offset = offset + Cardinality(page),
                                       !.seen = walk[w].seen \cup page]
          /\ walk' = [walk EXCEPT ![w] = walk'[w]]
      BY <3>3 DEF Typed
    <3>5. /\ walk'[w].at = at /\ walk'[w].offset = offset + Cardinality(page)
          /\ walk'[w].seen = walk[w].seen \cup page /\ walk'[w].expected = walk[w].expected
      BY <1>4, <3>4 DEF WalkType
    <3>6. walk'[w] \in WalkType
      <4>1. /\ walk[w].seen \cup page \in SUBSET Ids /\ offset + Cardinality(page) \in Nat
            /\ at \in {"idle", "walking", "done"}
        BY <1>1, <1>4, <3>1, <3>2 DEF WalkType
      <4> HIDE DEF offset, at
      <4> QED
        BY <1>4, <3>4, <4>1 DEF WalkType
    <3>7. /\ walk[w].expected \subseteq rows /\ walk[w].seen \subseteq rows
          /\ walk[w].expected \subseteq listed
          /\ \A i \in walk[w].expected \ walk[w].seen : Rank(i, listed) >= offset
      BY <1>4, <3>3 DEF WalkKept, listed
    <3>8. \A i \in walk'[w].expected \ walk'[w].seen : Rank(i, listed) >= walk'[w].offset
      BY <3>2, <3>5, <3>7
    <3>9. page = {} => walk'[w].expected \subseteq walk'[w].seen
      BY <3>2, <3>5, <3>7
    <3>10. walk' \in [Clients -> WalkType]
      BY <3>4, <3>6 DEF Typed
    <3>11. /\ rows' = rows /\ asks' = asks /\ page \subseteq rows
           /\ \A i \in walk'[w].expected \ walk'[w].seen : Rank(i, Listed(w))' >= walk'[w].offset
      BY <1>1, <1>2, <1>5, <3>2, <3>8
    <3>12. WalkKept(w)'
      BY <1>1, <1>5, <3>5, <3>7, <3>9, <3>11 DEF WalkKept
    <3> QED
      BY <3>10, <3>12
  <2> QED
    BY <1>1, <2>1, <2>2
<1>7. Typed'
  BY <1>2, <1>6 DEF Typed
<1>8. Absent' /\ UnitsKept' /\ TotalsKept'
  BY <1>2, TotalsStay DEF Absent, UnitsKept, TotalsKept
<1>9. SummariesKept'
  <2>1. Purchases(Machines)' = Purchases(Machines) /\ Revenue(Machines)' = Revenue(Machines)
    BY <1>2, TotalsStay
  <2>2. Purchases(Machines) \in Nat /\ Revenue(Machines) \in Nat
    BY TotalsAreNumbers DEF Numbers
  <2> QED
    BY <1>2, <1>7, <2>1, <2>2, SummariesStay
<1>10. WalksKept'
  <2> SUFFICES ASSUME NEW v \in Clients, v # w PROVE WalkKept(v)'
    BY <1>6 DEF WalksKept
  <2>1. WalkKept(v) /\ walk'[v] = walk[v]
    BY <1>3 DEF WalksKept
  <2>2. Listed(v)' = Listed(v) /\ \A i : Rank(i, Listed(v))' = Rank(i, Listed(v))
    BY <1>2 DEF Listed, Rank, Before
  <2> QED
    BY <1>2, <2>1, <2>2 DEF WalkKept
<1> QED
  BY <1>7, <1>8, <1>9, <1>10

----------------------------------------------------------------------------
(* Summaries. *)
LEMMA SummaryMoves ==
    ASSUME ReadsInv, NEW s \in Clients, UNCHANGED <<clock, table, creation, asks, walk>>,
           summary'[s] \in SummaryType, summary' = [summary EXCEPT ![s] = summary'[s]],
           SummaryKept(s)'
    PROVE  ReadsInv'
<1> USE DEF ReadsInv
<1>1. UNCHANGED <<rows, createdAt, updatedAt, stock, bank, sold>>
  BY DEF table
<1>2. Typed'
  BY <1>1 DEF Typed
<1>3. Absent' /\ UnitsKept' /\ TotalsKept'
  BY <1>1, TotalsStay DEF Absent, UnitsKept, TotalsKept
<1>4. SummariesKept'
  <2> SUFFICES ASSUME NEW t \in Clients, t # s PROVE SummaryKept(t)'
    BY DEF SummariesKept
  <2>1. summary'[t] = summary[t] /\ SummaryKept(t)
    BY DEF SummariesKept, Typed
  <2>2. Purchases(Machines)' = Purchases(Machines) /\ Revenue(Machines)' = Revenue(Machines)
    BY <1>1, TotalsStay
  <2> QED
    BY <2>1, <2>2 DEF SummaryKept
<1>5. WalksKept'
  BY <1>1, WalksStay DEF Typed
<1> QED
  BY <1>2, <1>3, <1>4, <1>5

LEMMA AskKeeps == ASSUME ReadsInv, NEW s \in Clients, Ask(s) PROVE ReadsInv'
<1>1. SummaryKept(s) /\ summary[s] \in SummaryType
  BY DEF ReadsInv, SummariesKept, Typed
<1>2. UNCHANGED sold /\ UNCHANGED <<clock, table, creation, asks, walk>> /\ summary[s].at = 0
  BY DEF Ask, table
<1>3. Purchases(Machines)' = Purchases(Machines) /\ Revenue(Machines)' = Revenue(Machines)
  BY <1>2, TotalsStay
<1>4. PICK asked \in Tops :
         LET top == IF asked <= 0 THEN DefaultTopMachines ELSE asked IN
         \/ top > MaxTopMachines /\ summary' = [summary EXCEPT ![s].at = 3]
         \/ top <= MaxTopMachines /\ summary' = [summary EXCEPT ![s].at = 1, ![s].top = top]
  BY DEF Ask
<1> DEFINE top == IF asked <= 0 THEN DefaultTopMachines ELSE asked
<1>5. top \in Nat /\ MaxTopMachines \in Nat
  BY BoundsAssumption
<1> HIDE DEF top
<1>6. CASE summary' = [summary EXCEPT ![s].at = 3]
  <2>1. /\ summary'[s] = [summary[s] EXCEPT !.at = 3]
        /\ summary' = [summary EXCEPT ![s] = summary'[s]]
    BY <1>6 DEF ReadsInv, Typed
  <2>2. summary'[s] \in SummaryType
    BY <1>1, <2>1 DEF SummaryType
  <2>3. /\ summary'[s].overview = summary[s].overview /\ summary'[s].top = 0
        /\ summary'[s].leaders \in Nat /\ summary'[s].at = 3
    BY <1>1, <1>2, <2>1 DEF SummaryType, SummaryKept
  <2>4. SummaryKept(s)'
    BY <1>1, <1>3, <2>3 DEF SummaryKept
  <2> QED
    BY <1>2, <2>1, <2>2, <2>4, SummaryMoves
<1>7. CASE top <= MaxTopMachines /\ summary' = [summary EXCEPT ![s].at = 1, ![s].top = top]
  <2>1. /\ summary'[s] = [summary[s] EXCEPT !.at = 1, !.top = top]
        /\ summary' = [summary EXCEPT ![s] = summary'[s]]
    BY <1>7 DEF ReadsInv, Typed
  <2>2. summary'[s] \in SummaryType
    <3>1. top \in 0 .. MaxTopMachines /\ 1 \in 0 .. 3
      BY <1>5, <1>7
    <3> QED
      BY <1>1, <2>1, <3>1 DEF SummaryType
  <2>3. summary'[s].overview = summary[s].overview /\ summary'[s].at = 1
    BY <1>1, <2>1 DEF SummaryType
  <2>4. SummaryKept(s)'
    BY <1>1, <1>3, <2>3 DEF SummaryKept
  <2> QED
    BY <1>2, <2>1, <2>2, <2>4, SummaryMoves
<1> QED
  BY <1>4, <1>6, <1>7 DEF top

LEMMA OrderOfStatements ==
    ASSUME NEW s \in Clients
    PROVE  /\ StatementIs(s, "overview") <=> summary[s].at = 1
           /\ StatementIs(s, "top") <=> summary[s].at = 2
BY DEF StatementIs, Statements

LEMMA GetOverviewKeeps == ASSUME ReadsInv, NEW s \in Clients, GetOverview(s) PROVE ReadsInv'
<1>1. SummaryKept(s) /\ summary[s] \in SummaryType /\ summary \in [Clients -> SummaryType]
  BY DEF ReadsInv, SummariesKept, Typed
<1>2. UNCHANGED sold /\ UNCHANGED <<clock, table, creation, asks, walk>> /\ summary[s].at = 1
  BY OrderOfStatements DEF GetOverview, table
<1>3. Purchases(Machines)' = Purchases(Machines) /\ Revenue(Machines)' = Revenue(Machines)
  BY <1>2, TotalsStay
<1> DEFINE T == rows \cap Products
           M == rows \cap Machines
           o == [products |-> Cardinality(T), stock |-> SumFunctionOnSet(stock, T),
                 machines |-> Cardinality(M), bank |-> SumFunctionOnSet(bank, M),
                 purchases |-> Purchases(Machines), revenue |-> Revenue(Machines)]
<1>4. Purchases(Machines) \in Nat /\ Revenue(Machines) \in Nat
  BY TotalsAreNumbers DEF Numbers, ReadsInv
<1>5. o \in Overviews
  <2>1. IsFiniteSet(T) /\ IsFiniteSet(M) /\ Cardinality(T) \in Nat /\ Cardinality(M) \in Nat
    <3>1. T \in SUBSET Ids /\ M \in SUBSET Ids
      BY DEF ReadsInv, Typed
    <3> QED
      BY <3>1, FiniteTables
  <2>2. (\A p \in T : stock[p] \in Nat) /\ (\A m \in M : bank[m] \in Nat)
    BY DEF ReadsInv, Typed
  <2> HIDE DEF T, M
  <2>3. SumFunctionOnSet(stock, T) \in Nat /\ SumFunctionOnSet(bank, M) \in Nat
    BY <2>1, <2>2, SumOfNaturals
  <2> QED
    BY <1>4, <2>1, <2>3 DEF Overviews
<1>6. /\ o.stock + o.purchases = Stock * o.products
      /\ o.bank = Coins * o.machines + o.revenue
      /\ o.purchases = Purchases(Machines) /\ o.revenue = Revenue(Machines)
  BY DEF ReadsInv, TotalsKept
<1>7. summary' = [summary EXCEPT ![s].at = @ + 1, ![s].overview = o]
  BY DEF GetOverview
<1> HIDE DEF o
<1>8. /\ summary'[s] = [summary[s] EXCEPT !.at = 2, !.overview = o]
      /\ summary' = [summary EXCEPT ![s] = summary'[s]]
  <2>1. summary' = [summary EXCEPT ![s].at = 2, ![s].overview = o]
    BY <1>2, <1>7
  <2> QED
    BY <1>1, <2>1
<1>9. summary'[s] \in SummaryType /\ summary'[s].overview = o /\ summary'[s].at = 2
  <2>1. 2 \in 0 .. 3
    OBVIOUS
  <2> QED
    BY <1>1, <1>5, <1>8, <2>1 DEF SummaryType
<1>10. SummaryKept(s)'
  BY <1>3, <1>4, <1>6, <1>9 DEF SummaryKept
<1> QED
  BY <1>2, <1>8, <1>9, <1>10, SummaryMoves

(* A leaderboard that is long enough has the sales of all machines.        *)
LEMMA WholeLeaderboard ==
    ASSUME Typed, NEW top \in Nat, Cardinality(Leaders(top)) < top
    PROVE  Purchases(Leaders(top)) = Purchases(Machines) /\ Revenue(Leaders(top)) = Revenue(Machines)
<1> DEFINE selling == {m \in Machines : PurchasesAt(m) > 0}
           ahead == [m \in selling |-> {n \in selling : Leads(n, m)}]
<1>1. \A m \in Machines : PurchasesAt(m) \in Nat /\ RevenueAt(m) \in Nat /\ m \in Nat
  BY TotalsAreNumbers, IdsAssumption DEF Numbers, Ids
<1>2. Orders(ahead, selling)
  BY <1>1 DEF Orders, Leads
<1>3. IsFiniteSet(selling)
  BY FiniteTables
<1>4. Leaders(top) = {m \in selling : Cardinality(ahead[m]) < top}
  BY DEF Leaders
<1>5. Leaders(top) = selling
  <2> HIDE DEF selling, ahead
  <2> QED
    BY <1>2, <1>3, <1>4, ShortListsAreWhole
<1>6. \A m \in Machines \ selling : PurchasesAt(m) = 0 /\ RevenueAt(m) = 0
  <2> SUFFICES ASSUME NEW m \in Machines, PurchasesAt(m) = 0 PROVE RevenueAt(m) = 0
    BY <1>1
  <2>1. \A p \in Products : sold[m][p] \in Nat
    BY DEF Typed
  <2>2. \A p \in Products : sold[m][p] = 0
    BY <2>1, FiniteTables, SumOfNaturals DEF PurchasesAt
  <2> DEFINE f == [p \in Products |-> sold[m][p] * Price[p]]
  <2>3. \A p \in Products : f[p] = 0
    BY <2>2, MoneyAssumption
  <2> HIDE DEF f
  <2>4. SumFunctionOnSet(f, Products) = 0
    BY <2>3, FiniteTables, SumOfNaturals
  <2> QED
    BY <2>4 DEF RevenueAt, f
<1>7. ASSUME NEW f, NEW g, f = [m \in Machines |-> g[m]], \A m \in Machines : g[m] \in Nat,
             \A m \in Machines \ selling : g[m] = 0
      PROVE  SumFunctionOnSet([m \in selling |-> g[m]], selling) = SumFunctionOnSet(f, Machines)
  <2> DEFINE h == [m \in selling |-> g[m]]
  <2>1. selling \in SUBSET Machines /\ \A m \in selling : h[m] = f[m]
    BY <1>7
  <2>2. /\ \A m \in Machines : f[m] \in Nat
        /\ \A m \in Machines \ selling : f[m] = 0
    BY <1>7
  <2> HIDE DEF h, selling
  <2>3. SumFunctionOnSet(f, Machines) = SumFunctionOnSet(f, selling)
    BY <2>1, <2>2, FiniteTables, SumOfTheRest
  <2>4. SumFunctionOnSet(h, selling) = SumFunctionOnSet(f, selling)
    BY <1>3, <2>1, SameSums
  <2> QED
    BY <2>3, <2>4 DEF h
<1>8. Purchases(selling) = Purchases(Machines)
  <2> DEFINE g == [m \in Machines |-> PurchasesAt(m)]
  <2>1. /\ g = [m \in Machines |-> g[m]] /\ \A m \in Machines : g[m] \in Nat
        /\ \A m \in Machines \ selling : g[m] = 0
    BY <1>1, <1>6
  <2>2. [m \in selling |-> PurchasesAt(m)] = [m \in selling |-> g[m]]
    OBVIOUS
  <2> HIDE DEF g
  <2>3. SumFunctionOnSet([m \in selling |-> g[m]], selling) = SumFunctionOnSet(g, Machines)
    BY <1>7, <2>1
  <2> QED
    BY <2>2, <2>3 DEF Purchases, g
<1>9. Revenue(selling) = Revenue(Machines)
  <2> DEFINE g == [m \in Machines |-> RevenueAt(m)]
  <2>1. /\ g = [m \in Machines |-> g[m]] /\ \A m \in Machines : g[m] \in Nat
        /\ \A m \in Machines \ selling : g[m] = 0
    BY <1>1, <1>6
  <2>2. [m \in selling |-> RevenueAt(m)] = [m \in selling |-> g[m]]
    OBVIOUS
  <2> HIDE DEF g
  <2>3. SumFunctionOnSet([m \in selling |-> g[m]], selling) = SumFunctionOnSet(g, Machines)
    BY <1>7, <2>1
  <2> QED
    BY <2>2, <2>3 DEF Revenue, g
<1> QED
  BY <1>5, <1>8, <1>9

LEMMA GetTopMachinesKeeps ==
    ASSUME ReadsInv, NEW s \in Clients, GetTopMachines(s) PROVE ReadsInv'
<1>1. SummaryKept(s) /\ summary[s] \in SummaryType /\ summary \in [Clients -> SummaryType]
  BY DEF ReadsInv, SummariesKept, Typed
<1>2. UNCHANGED sold /\ UNCHANGED <<clock, table, creation, asks, walk>> /\ summary[s].at = 2
  BY OrderOfStatements DEF GetTopMachines, table
<1>3. Purchases(Machines)' = Purchases(Machines) /\ Revenue(Machines)' = Revenue(Machines)
  BY <1>2, TotalsStay
<1> DEFINE top == summary[s].top
           leaders == Leaders(top)
<1>4. top \in Nat
  BY <1>1, BoundsAssumption DEF SummaryType
<1>5. leaders \in SUBSET Machines
  BY DEF Leaders
<1>6. /\ Cardinality(leaders) \in Nat /\ Purchases(leaders) \in Nat /\ Revenue(leaders) \in Nat
      /\ Purchases(Machines) \in Nat /\ Revenue(Machines) \in Nat
  <2>1. Cardinality(leaders) \in Nat
    BY <1>5, FiniteTables, FS_CardinalityType
  <2> QED
    BY <1>5, <2>1, TotalsAreNumbers DEF Numbers, ReadsInv
<1>7. Cardinality(leaders) < top =>
          Purchases(leaders) = Purchases(Machines) /\ Revenue(leaders) = Revenue(Machines)
  BY <1>4, WholeLeaderboard DEF ReadsInv
<1>8. summary' = [summary EXCEPT ![s].at = @ + 1, ![s].leaders = Cardinality(leaders),
                                 ![s].purchases = Purchases(leaders), ![s].revenue = Revenue(leaders)]
  BY DEF GetTopMachines
<1> HIDE DEF leaders
<1>9. /\ summary'[s] = [summary[s] EXCEPT !.at = 3, !.leaders = Cardinality(leaders),
                            !.purchases = Purchases(leaders), !.revenue = Revenue(leaders)]
      /\ summary' = [summary EXCEPT ![s] = summary'[s]]
  <2>1. summary' = [summary EXCEPT ![s].at = 3, ![s].leaders = Cardinality(leaders),
                        ![s].purchases = Purchases(leaders), ![s].revenue = Revenue(leaders)]
    BY <1>2, <1>8
  <2> QED
    BY <1>1, <2>1
<1>10. summary'[s] \in SummaryType
  <2>1. 3 \in 0 .. 3
    OBVIOUS
  <2> QED
    BY <1>1, <1>6, <1>9, <2>1 DEF SummaryType
<1>11. /\ summary'[s].overview = summary[s].overview /\ summary'[s].at = 3
       /\ summary'[s].top = top /\ summary'[s].leaders = Cardinality(leaders)
       /\ summary'[s].purchases = Purchases(leaders) /\ summary'[s].revenue = Revenue(leaders)
  BY <1>1, <1>9 DEF SummaryType
<1>12. SummaryKept(s)'
  BY <1>1, <1>3, <1>6, <1>7, <1>11 DEF SummaryKept
<1> QED
  BY <1>2, <1>9, <1>10, <1>12, SummaryMoves

----------------------------------------------------------------------------
(***************************************************************************)
(* All together.                                                           *)
(***************************************************************************)
LEMMA ReadsStep == ReadsInv /\ [Next]_vars => ReadsInv'
<1> SUFFICES ASSUME ReadsInv, [Next]_vars PROVE ReadsInv'
  OBVIOUS
<1>1. CASE Tick
  BY <1>1, TickKeeps
<1>2. ASSUME NEW c \in Created, CreateProduct(c) \/ CreateMachine(c) PROVE ReadsInv'
  BY <1>2, StampKeeps DEF CreateProduct, CreateMachine
<1>3. ASSUME NEW c \in Created, InsertProduct(c) \/ InsertMachine(c) PROVE ReadsInv'
  BY <1>3, InsertKeeps
<1>4. ASSUME NEW m \in Machines, NEW p \in Products, Sell(m, p) PROVE ReadsInv'
  BY <1>4, SellKeeps
<1>5. ASSUME NEW w \in Clients, ListProducts(w) \/ ListMachines(w) PROVE ReadsInv'
  BY <1>5, WalkKeeps
<1>6. ASSUME NEW s \in Clients, Ask(s) \/ GetOverview(s) \/ GetTopMachines(s) PROVE ReadsInv'
  BY <1>6, AskKeeps, GetOverviewKeeps, GetTopMachinesKeeps
<1>7. CASE UNCHANGED vars
  <2>1. UNCHANGED <<clock, rows, createdAt, updatedAt, stock, bank, sold, creation, asks, walk, summary>>
    BY <1>7 DEF vars, table
  <2>2. Typed' /\ Absent' /\ UnitsKept' /\ TotalsKept'
    BY <2>1, TotalsStay DEF ReadsInv, Typed, Absent, UnitsKept, TotalsKept
  <2>3. WalksKept'
    BY <2>1, WalksStay DEF ReadsInv, Typed
  <2>4. Purchases(Machines)' = Purchases(Machines) /\ Revenue(Machines)' = Revenue(Machines)
    BY <2>1, TotalsStay
  <2>5. SummariesKept'
    BY <2>1, <2>4 DEF ReadsInv, SummariesKept, SummaryKept
  <2> QED
    BY <2>2, <2>3, <2>5 DEF ReadsInv
<1> QED
  BY <1>1, <1>2, <1>3, <1>4, <1>5, <1>6, <1>7 DEF Next

LEMMA ReadsInvariant == Spec => []ReadsInv
BY ReadsInitially, ReadsStep, PTL DEF Spec

(* Every variable stays in its range: a stock never exceeds what the       *)
(* product was created with, and no machine sells more than that.          *)
THEOREM ReadsTyped == Spec => []TypeOK
<1>1. ReadsInv => TypeOK
  <2> SUFFICES ASSUME ReadsInv PROVE TypeOK
    OBVIOUS
  <2> USE DEF ReadsInv
  <2>1. \A p \in Products : stock[p] \in 0 .. Stock /\ \A m \in Machines : sold[m][p] \in 0 .. Stock
    <3> TAKE p \in Products
    <3>1. CASE p \notin rows
      BY <3>1, MoneyAssumption DEF Absent
    <3>2. CASE p \in rows
      <4>1. \A m \in Machines : SoldOf(p)[m] \in Nat /\ SoldOf(p)[m] = sold[m][p]
        BY DEF SoldOf, Typed
      <4>2. SumFunctionOnSet(SoldOf(p), Machines) \in Nat
        BY <4>1, FiniteTables, SumOfNaturals
      <4>3. stock[p] \in Nat /\ stock[p] + SumFunctionOnSet(SoldOf(p), Machines) = Stock
        BY <3>2 DEF Typed, UnitsKept
      <4>4. \A m \in Machines : SoldOf(p)[m] <= SumFunctionOnSet(SoldOf(p), Machines)
        BY <4>1, FiniteTables, PartOfSum
      <4> QED
        BY <4>1, <4>2, <4>3, <4>4, MoneyAssumption
    <3> QED
      BY <3>1, <3>2
  <2>2. stock \in [Products -> 0 .. Stock] /\ sold \in [Machines -> [Products -> 0 .. Stock]]
    BY <2>1 DEF Typed
  <2>3. ASSUME NEW w \in Clients
        PROVE  /\ walk[w].at \in {"idle", "walking", "done"} /\ walk[w].limit \in Limits \cup {0}
               /\ walk[w].offset \in Nat
               /\ walk[w].expected \subseteq rows /\ walk[w].seen \subseteq rows
    BY DEF Typed, WalkType, WalksKept, WalkKept
  <2>4. ASSUME NEW s \in Clients
        PROVE  /\ summary[s].at \in 0 .. 3 /\ summary[s].top \in 0 .. MaxTopMachines
               /\ summary[s].overview \in [DOMAIN NoOverview -> Nat]
               /\ {summary[s].leaders, summary[s].purchases, summary[s].revenue} \subseteq Nat
    <3>1. summary[s] \in SummaryType
      BY DEF Typed
    <3>2. summary[s].overview \in [DOMAIN NoOverview -> Nat]
      BY <3>1 DEF SummaryType, Overviews, NoOverview
    <3> QED
      BY <3>1, <3>2 DEF SummaryType
  <2> QED
    BY <2>2, <2>3, <2>4 DEF TypeOK, Typed
<1> QED
  BY <1>1, ReadsInvariant, PTL

(* A walk of any limit over the pages of any tables shows every row that   *)
(* was there at its beginning, whatever is created and sold meanwhile      *)
(* (list of both repositories: "to keep order stable across pages").       *)
THEOREM WalksShowEverything == Spec => []WalkMissesNothing
<1>1. ReadsInv => WalkMissesNothing
  BY DEF ReadsInv, WalksKept, WalkKept, WalkMissesNothing
<1> QED
  BY <1>1, ReadsInvariant, PTL

(* The totals of a summary are those of one state: all units are in stock  *)
(* or sold, all revenue is in the banks (getOverview).                     *)
THEOREM OverviewsBalance == Spec => []OverviewBalanced
<1>1. ReadsInv => OverviewBalanced
  BY DEF ReadsInv, SummariesKept, SummaryKept, OverviewBalanced
<1> QED
  BY <1>1, ReadsInvariant, PTL

(* A leaderboard that has all machines is not behind the totals, although  *)
(* sales go on between the two statements (ReportingUsecase.summary).      *)
THEOREM LeaderboardsKeepUp == Spec => []LeaderboardNotBehind
<1>1. ReadsInv => LeaderboardNotBehind
  <2> SUFFICES ASSUME ReadsInv, NEW s \in Clients,
                      Read(s, "top"), summary[s].leaders < summary[s].top
               PROVE  /\ summary[s].purchases >= summary[s].overview.purchases
                      /\ summary[s].revenue >= summary[s].overview.revenue
    BY DEF LeaderboardNotBehind
  <2>1. summary[s].at = 3
    <3>1. summary[s].at \in 0 .. 3
      BY DEF ReadsInv, Typed, SummaryType
    <3>2. summary[s].at > 2
      BY DEF Read, Statements
    <3> QED
      BY <3>1, <3>2
  <2> QED
    BY <2>1 DEF ReadsInv, SummariesKept, SummaryKept
<1> QED
  BY <1>1, ReadsInvariant, PTL
=============================================================================
