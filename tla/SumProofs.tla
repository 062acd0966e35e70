------------------------------ MODULE SumProofs ------------------------------
(***************************************************************************)
(* What the sums of amounts in the other modules obey, for every finite    *)
(* set: balances, exposures, asks and contact counts are all               *)
(* SumFunctionOnSet of a function on a set.                                *)
(*                                                                         *)
(* The induction theorems of the library take an operator as a parameter,  *)
(* which no backend can instantiate; the inductions here go by a set of    *)
(* numbers or of sets, one of whose complement's elements is least.        *)
(***************************************************************************)
EXTENDS Integers, FiniteSets, Functions, FiniteSetTheorems, TLAPS

NatLess == {ss \in Nat \X Nat : ss[1] < ss[2]}

LEMMA NatLessWellFounded == IsWellFoundedOn(NatLess, Nat)
  BY NatLessThanWellFounded DEF OpToRel, NatLess

(* Induction over the naturals for the elements of a set G. *)
LEMMA NaturalsIn ==
  ASSUME NEW G, 0 \in G, \A n \in Nat : n \in G => n + 1 \in G
  PROVE  Nat \subseteq G
<1> DEFINE Bad == {n \in Nat : n \notin G}
<1>1. SUFFICES ASSUME Bad # {} PROVE FALSE
  OBVIOUS
<1>2. Bad \subseteq Nat
  OBVIOUS
<1>3. \E m \in Bad : \A n \in Bad : <<n, m>> \notin NatLess
  <2> HIDE DEF Bad
  <2>1. QED
    BY <1>1, <1>2, NatLessWellFounded, WFMin
<1>4. PICK m \in Bad : \A n \in Bad : ~(n < m)
  BY <1>2, <1>3 DEF NatLess
<1>5. m \in Nat /\ m # 0 /\ m \notin G
  OBVIOUS
<1>6. m - 1 \in Nat /\ m - 1 < m
  BY <1>5
<1>7. m - 1 \in G
  BY <1>4, <1>6
<1>8. (m - 1) + 1 \in G
  BY <1>6, <1>7
<1>9. QED
  BY <1>5, <1>8

(* A set of naturals has a least element. *)
LEMMA LeastNatural ==
  ASSUME NEW S \in SUBSET Nat, S # {}
  PROVE  \E m \in S : \A n \in S : m <= n
<1>1. PICK m \in S : \A n \in S : <<n, m>> \notin NatLess
  BY NatLessWellFounded, WFMin
<1>2. ASSUME NEW n \in S PROVE m <= n
  <2>1. <<n, m>> \notin NatLess /\ n \in Nat /\ m \in Nat
    BY <1>1
  <2>2. QED
    BY <2>1 DEF NatLess
<1>3. QED
  BY <1>2

(* Iterating a function from a value on: there is such a function of the   *)
(* number of times.  Its beginnings exist by induction, and agree.         *)
LEMMA Iterates ==
  ASSUME NEW a \in Nat, NEW F \in [Nat -> Nat]
  PROVE  \E g \in [Nat -> Nat] : g[0] = a /\ \A n \in Nat : g[n + 1] = F[g[n]]
<1> DEFINE Begins(h, n) == h[0] = a /\ \A k \in Nat : k < n => h[k + 1] = F[h[k]]
           Some(n) == CHOOSE h \in [Nat -> Nat] : Begins(h, n)
           g == [n \in Nat |-> Some(n)[n]]
           Good == {n \in Nat : \E h \in [Nat -> Nat] : Begins(h, n)}
<1>1. 0 \in Good
  <2>1. [n \in Nat |-> a] \in [Nat -> Nat] /\ Begins([n \in Nat |-> a], 0)
    OBVIOUS
  <2>2. QED
    BY <2>1
<1>2. ASSUME NEW n \in Nat, n \in Good PROVE n + 1 \in Good
  <2>1. PICK h \in [Nat -> Nat] : Begins(h, n)
    BY <1>2
  <2> DEFINE longer == [h EXCEPT ![n + 1] = F[h[n]]]
  <2>2. longer \in [Nat -> Nat]
    OBVIOUS
  <2>3. \A k \in Nat : k <= n => longer[k] = h[k]
    OBVIOUS
  <2>4. longer[n + 1] = F[h[n]]
    OBVIOUS
  <2>5. Begins(longer, n + 1)
    <3> HIDE DEF longer
    <3>1. longer[0] = a
      BY <2>1, <2>3
    <3>2. ASSUME NEW k \in Nat, k < n + 1 PROVE longer[k + 1] = F[longer[k]]
      <4>1. CASE k = n
        BY <2>3, <2>4, <4>1
      <4>2. CASE k # n
        BY <2>1, <2>3, <3>2, <4>2
      <4>3. QED
        BY <4>1, <4>2
    <3>3. QED
      BY <3>1, <3>2
  <2>6. \E e \in [Nat -> Nat] : Begins(e, n + 1)
    <3> HIDE DEF longer, Begins
    <3>1. QED
      BY <2>2, <2>5
  <2>7. n + 1 \in Nat
    OBVIOUS
  <2>8. QED
    <3> HIDE DEF Begins
    <3>1. QED
      BY <2>6, <2>7
<1>3. \A n \in Nat : Some(n) \in [Nat -> Nat] /\ Begins(Some(n), n)
  <2>1. Nat \subseteq Good
    <3> HIDE DEF Good
    <3>1. QED
      BY <1>1, <1>2, NaturalsIn
  <2>2. \A n \in Nat : \E h \in [Nat -> Nat] : Begins(h, n)
    BY <2>1
  <2>3. QED
    <3> HIDE DEF Begins
    <3>1. QED
      BY <2>2
<1>4. ASSUME NEW n \in Nat PROVE Some(n + 1)[n] = Some(n)[n]
  <2> DEFINE Same == {k \in Nat : k <= n => Some(n + 1)[k] = Some(n)[k]}
  <2>1. n + 1 \in Nat
    OBVIOUS
  <2>2. Begins(Some(n), n) /\ Begins(Some(n + 1), n + 1)
    BY <1>3, <2>1
  <2> HIDE DEF Some
  <2>3. 0 \in Same
    BY <2>2
  <2>4. ASSUME NEW k \in Nat, k \in Same PROVE k + 1 \in Same
    <3>1. SUFFICES ASSUME k + 1 <= n PROVE Some(n + 1)[k + 1] = Some(n)[k + 1]
      OBVIOUS
    <3>2. k < n /\ k < n + 1 /\ k <= n
      BY <3>1
    <3>3. QED
      BY <2>2, <2>4, <3>2
  <2>5. Nat \subseteq Same
    <3> HIDE DEF Same
    <3>1. QED
      BY <2>3, <2>4, NaturalsIn
  <2>6. QED
    BY <2>5
<1>5. g \in [Nat -> Nat]
  <2> HIDE DEF Some
  <2>1. QED
    BY <1>3
<1>6. g[0] = a
  BY <1>3
<1>7. ASSUME NEW n \in Nat PROVE g[n + 1] = F[g[n]]
  <2>1. n + 1 \in Nat /\ n < n + 1
    OBVIOUS
  <2>2. Some(n + 1)[n + 1] = F[Some(n + 1)[n]]
    BY <1>3, <2>1
  <2> HIDE DEF Some
  <2>3. QED
    BY <1>4, <2>1, <2>2
<1>8. QED
  <2> HIDE DEF g
  <2>1. QED
    BY <1>5, <1>6, <1>7

(* Induction over the subsets of a finite set for the elements of G. *)
LEMMA SubsetsIn ==
  ASSUME NEW S, IsFiniteSet(S), NEW G,
         \A T \in SUBSET S : (\A U \in SUBSET T : U # T => U \in G) => T \in G
  PROVE  SUBSET S \subseteq G
<1> DEFINE Bad == {T \in SUBSET S : T \notin G}
<1>1. SUFFICES ASSUME Bad # {} PROVE FALSE
  OBVIOUS
<1>2. IsWellFoundedOn(StrictSubsetOrdering(S), SUBSET S)
  BY FS_StrictSubsetOrderingWellFounded, FS_FiniteSubsetsOfFinite
<1>3. Bad \subseteq SUBSET S
  OBVIOUS
<1>4. \E T \in Bad : \A U \in Bad : <<U, T>> \notin StrictSubsetOrdering(S)
  <2> HIDE DEF Bad
  <2>1. QED
    BY <1>1, <1>2, <1>3, WFMin
<1>5. PICK T \in Bad : \A U \in Bad : <<U, T>> \notin StrictSubsetOrdering(S)
  BY <1>4
<1>6. \A U \in SUBSET T : U # T => U \in G
  BY <1>5 DEF StrictSubsetOrdering
<1>7. QED
  BY <1>6

-----------------------------------------------------------------------------
(* The recursive function by which the library defines a sum. *)
Chosen(s) == CHOOSE x \in s : TRUE

Add(f, g, s) == IF s = {} THEN 0 ELSE f[Chosen(s)] + g[s \ {Chosen(s)}]

Partial(f, S) == CHOOSE g : g = [s \in SUBSET S |-> Add(f, g, s)]

LEMMA SumIsPartial ==
  ASSUME NEW f, NEW S
  PROVE  SumFunctionOnSet(f, S) = Partial(f, S)[S]
  BY DEF SumFunctionOnSet, FoldFunctionOnSet, MapThenFoldSet, Partial, Add, Chosen

(* The recursion is well founded: there is such a function.  It is built   *)
(* up by the size of the sets it is defined on.                            *)
LEMMA PartialDefined ==
  ASSUME NEW f, NEW S, IsFiniteSet(S)
  PROVE  \A s \in SUBSET S : Partial(f, S)[s] = Add(f, Partial(f, S), s)
<1> DEFINE Small(n) == {s \in SUBSET S : Cardinality(s) <= n}
           Solved == {n \in Nat : \E g : g = [s \in Small(n) |-> Add(f, g, s)]}
<1>1. \A s \in SUBSET S : IsFiniteSet(s) /\ Cardinality(s) \in Nat
  BY FS_Subset, FS_CardinalityType
<1>2. \A s \in SUBSET S : s # {} =>
          /\ s \ {Chosen(s)} \in SUBSET S
          /\ Cardinality(s \ {Chosen(s)}) = Cardinality(s) - 1
  BY <1>1, FS_RemoveElement DEF Chosen
<1>3. 0 \in Solved
  <2> DEFINE g == [s \in Small(0) |-> 0]
  <2>1. \A s \in Small(0) : s = {}
    BY <1>1, FS_EmptySet
  <2>2. g = [s \in Small(0) |-> Add(f, g, s)]
    BY <2>1 DEF Add
  <2>3. QED
    BY <2>2
<1>4. ASSUME NEW n \in Nat, n \in Solved PROVE n + 1 \in Solved
  <2>1. PICK h : h = [s \in Small(n) |-> Add(f, h, s)]
    BY <1>4
  <2> DEFINE g == [s \in Small(n + 1) |-> Add(f, h, s)]
  <2>2. \A s \in Small(n) : g[s] = h[s]
    <3>1. Small(n) \subseteq Small(n + 1)
      BY <1>1
    <3>2. QED
      BY <2>1, <3>1
  <2>3. \A s \in Small(n + 1) : s # {} => s \ {Chosen(s)} \in Small(n)
    BY <1>1, <1>2
  <2>4. \A s \in Small(n + 1) : Add(f, h, s) = Add(f, g, s)
    <3> HIDE DEF g, Small
    <3>1. QED
      BY <2>2, <2>3 DEF Add
  <2>5. g = [s \in Small(n + 1) |-> Add(f, g, s)]
    BY <2>4
  <2>6. \E k : k = [s \in Small(n + 1) |-> Add(f, k, s)]
    <3> HIDE DEF g, Small
    <3>1. QED
      BY <2>5
  <2>7. n + 1 \in Nat
    OBVIOUS
  <2>8. QED
    <3> HIDE DEF g, Small
    <3>1. QED
      BY <2>6, <2>7, Zenon
<1>5. Cardinality(S) \in Solved
  <2>1. Nat \subseteq Solved
    <3> HIDE DEF Solved
    <3>1. QED
      BY <1>3, <1>4, NaturalsIn
  <2>2. QED
    BY <1>1, <2>1
<1>6. Small(Cardinality(S)) = SUBSET S
  BY FS_Subset
<1>7. \E g : g = [s \in SUBSET S |-> Add(f, g, s)]
  <2> HIDE DEF Small
  <2>1. QED
    BY <1>5, <1>6
<1>8. Partial(f, S) = [s \in SUBSET S |-> Add(f, Partial(f, S), s)]
  BY <1>7 DEF Partial
<1>9. ASSUME NEW s \in SUBSET S PROVE Partial(f, S)[s] = Add(f, Partial(f, S), s)
  BY <1>8, Zenon
<1>10. QED
  BY <1>9

LEMMA PartialAt ==
  ASSUME NEW f, NEW S, IsFiniteSet(S), NEW T \in SUBSET S
  PROVE  Partial(f, S)[T] = SumFunctionOnSet(f, T)
<1> DEFINE G == {U \in SUBSET T : Partial(f, S)[U] = Partial(f, T)[U]}
<1>1. IsFiniteSet(T)
  BY FS_Subset
<1>2. ASSUME NEW U \in SUBSET T, \A V \in SUBSET U : V # U => V \in G
      PROVE  U \in G
  <2>1. U \in SUBSET S
    OBVIOUS
  <2>2. Partial(f, S)[U] = Add(f, Partial(f, S), U)
    BY <2>1, PartialDefined
  <2>3. Partial(f, T)[U] = Add(f, Partial(f, T), U)
    BY <1>1, PartialDefined
  <2>4. U # {} => U \ {Chosen(U)} \in SUBSET U /\ U \ {Chosen(U)} # U
    BY DEF Chosen
  <2>5. U # {} => Partial(f, S)[U \ {Chosen(U)}] = Partial(f, T)[U \ {Chosen(U)}]
    BY <1>2, <2>4
  <2>6. Add(f, Partial(f, S), U) = Add(f, Partial(f, T), U)
    BY <2>5 DEF Add
  <2>7. QED
    BY <2>2, <2>3, <2>6
<1>3. SUBSET T \subseteq G
  <2> HIDE DEF G
  <2>1. QED
    BY <1>1, <1>2, SubsetsIn
<1>4. T \in G
  BY <1>3
<1>5. QED
  BY <1>4, SumIsPartial

(* A sum is unfolded at the element the library chooses. *)
LEMMA SumUnfolds ==
  ASSUME NEW f, NEW S, IsFiniteSet(S)
  PROVE  SumFunctionOnSet(f, S) =
           IF S = {} THEN 0 ELSE f[Chosen(S)] + SumFunctionOnSet(f, S \ {Chosen(S)})
<1>1. Partial(f, S)[S] = Add(f, Partial(f, S), S)
  BY PartialDefined
<1>2. Partial(f, S)[S \ {Chosen(S)}] = SumFunctionOnSet(f, S \ {Chosen(S)})
  BY PartialAt
<1>3. QED
  BY <1>1, <1>2, SumIsPartial DEF Add

-----------------------------------------------------------------------------
LEMMA SumEmpty == ASSUME NEW f PROVE SumFunctionOnSet(f, {}) = 0
  BY SumUnfolds, FS_EmptySet

LEMMA SumType ==
  ASSUME NEW S, IsFiniteSet(S), NEW f, \A x \in S : f[x] \in Int
  PROVE  SumFunctionOnSet(f, S) \in Int
<1> DEFINE G == {T \in SUBSET S : SumFunctionOnSet(f, T) \in Int}
<1>1. ASSUME NEW T \in SUBSET S, \A U \in SUBSET T : U # T => U \in G
      PROVE  T \in G
  <2>1. CASE T = {}
    BY <2>1, SumEmpty
  <2>2. CASE T # {}
    <3>1. Chosen(T) \in T
      BY <2>2 DEF Chosen
    <3>2. T \ {Chosen(T)} \in G
      BY <1>1, <3>1
    <3>3. IsFiniteSet(T)
      BY FS_Subset
    <3>4. QED
      BY <2>2, <3>1, <3>2, <3>3, SumUnfolds
  <2>3. QED
    BY <2>1, <2>2
<1>2. SUBSET S \subseteq G
  <2> HIDE DEF G
  <2>1. QED
    BY <1>1, SubsetsIn
<1>3. QED
  BY <1>2

(* It can be unfolded at any element. *)
LEMMA SumRemove ==
  ASSUME NEW S, IsFiniteSet(S), NEW f, \A x \in S : f[x] \in Int, NEW a \in S
  PROVE  SumFunctionOnSet(f, S) = f[a] + SumFunctionOnSet(f, S \ {a})
<1> DEFINE Sum(T) == SumFunctionOnSet(f, T)
           G == {T \in SUBSET S : \A x \in T : Sum(T) = f[x] + Sum(T \ {x})}
<1>1. ASSUME NEW T \in SUBSET S, \A U \in SUBSET T : U # T => U \in G
      PROVE  T \in G
  <2> SUFFICES ASSUME NEW x \in T PROVE Sum(T) = f[x] + Sum(T \ {x})
    OBVIOUS
  <2> DEFINE c == Chosen(T)
  <2>1. c \in T
    BY DEF Chosen
  <2>2. IsFiniteSet(T)
    BY FS_Subset
  <2>3. Sum(T) = f[c] + Sum(T \ {c})
    BY <2>2, SumUnfolds
  <2> HIDE DEF c
  <2>4. CASE x = c
    BY <2>3, <2>4
  <2>5. CASE x # c
    <3> DEFINE R == (T \ {c}) \ {x}
    <3>1. T \ {c} \in G /\ T \ {x} \in G
      BY <1>1, <2>1
    <3>2. Sum(T \ {c}) = f[x] + Sum(R)
      BY <2>5, <3>1
    <3>3. (T \ {x}) \ {c} = R
      OBVIOUS
    <3>4. Sum(T \ {x}) = f[c] + Sum(R)
      BY <2>1, <2>5, <3>1, <3>3
    <3>5. f[x] \in Int /\ f[c] \in Int /\ Sum(R) \in Int
      <4>1. R \in SUBSET S /\ IsFiniteSet(R)
        BY FS_Subset
      <4>2. \A y \in R : f[y] \in Int
        BY <4>1
      <4> HIDE DEF R
      <4>3. QED
        BY <2>1, <4>1, <4>2, SumType
    <3> HIDE DEF Sum, R
    <3>6. QED
      BY <2>3, <3>2, <3>4, <3>5
  <2>6. QED
    BY <2>4, <2>5
<1>2. SUBSET S \subseteq G
  <2> HIDE DEF G
  <2>1. QED
    BY <1>1, SubsetsIn
<1>3. S \in G
  BY <1>2
<1>4. QED
  BY <1>3

(* Summand by summand no more, so no more in total. *)
LEMMA SumMonotone ==
  ASSUME NEW S, IsFiniteSet(S), NEW f, NEW g,
         \A x \in S : f[x] \in Int /\ g[x] \in Int /\ f[x] <= g[x]
  PROVE  SumFunctionOnSet(f, S) <= SumFunctionOnSet(g, S)
<1> DEFINE G == {T \in SUBSET S : SumFunctionOnSet(f, T) <= SumFunctionOnSet(g, T)}
<1>1. ASSUME NEW T \in SUBSET S, \A U \in SUBSET T : U # T => U \in G
      PROVE  T \in G
  <2>1. CASE T = {}
    BY <2>1, SumEmpty
  <2>2. CASE T # {}
    <3>1. PICK c \in T : TRUE
      BY <2>2
    <3>2. T \ {c} \in SUBSET T /\ T \ {c} # T
      BY <3>1
    <3>3. IsFiniteSet(T) /\ IsFiniteSet(T \ {c})
      BY FS_Subset
    <3>4. /\ SumFunctionOnSet(f, T) = f[c] + SumFunctionOnSet(f, T \ {c})
          /\ SumFunctionOnSet(g, T) = g[c] + SumFunctionOnSet(g, T \ {c})
      BY <3>3, SumRemove
    <3>5. /\ SumFunctionOnSet(f, T \ {c}) \in Int
          /\ SumFunctionOnSet(g, T \ {c}) \in Int
      BY <3>3, SumType
    <3>6. SumFunctionOnSet(f, T \ {c}) <= SumFunctionOnSet(g, T \ {c})
      BY <1>1, <3>2
    <3>7. f[c] \in Int /\ g[c] \in Int /\ f[c] <= g[c]
      BY <3>1
    <3>8. QED
      BY <3>4, <3>5, <3>6, <3>7
  <2>3. QED
    BY <2>1, <2>2
<1>2. SUBSET S \subseteq G
  <2> HIDE DEF G
  <2>1. QED
    BY <1>1, SubsetsIn
<1>3. QED
  BY <1>2

LEMMA SumSame ==
  ASSUME NEW S, IsFiniteSet(S), NEW f, NEW g,
         \A x \in S : f[x] \in Int /\ f[x] = g[x]
  PROVE  SumFunctionOnSet(f, S) = SumFunctionOnSet(g, S)
<1>1. /\ SumFunctionOnSet(f, S) <= SumFunctionOnSet(g, S)
      /\ SumFunctionOnSet(g, S) <= SumFunctionOnSet(f, S)
  BY SumMonotone
<1>2. SumFunctionOnSet(f, S) \in Int /\ SumFunctionOnSet(g, S) \in Int
  BY SumType
<1>3. QED
  BY <1>1, <1>2

(* Nothing but zeros adds up to nothing ... *)
LEMMA SumOfNothing ==
  ASSUME NEW S, IsFiniteSet(S), NEW f, \A x \in S : f[x] = 0
  PROVE  SumFunctionOnSet(f, S) = 0
<1> DEFINE G == {T \in SUBSET S : SumFunctionOnSet(f, T) = 0}
<1>1. ASSUME NEW T \in SUBSET S, \A U \in SUBSET T : U # T => U \in G
      PROVE  T \in G
  <2>1. CASE T = {}
    BY <2>1, SumEmpty
  <2>2. CASE T # {}
    <3>1. PICK c \in T : TRUE
      BY <2>2
    <3>2. T \ {c} \in G
      BY <1>1, <3>1
    <3>3. SumFunctionOnSet(f, T) = f[c] + SumFunctionOnSet(f, T \ {c})
      BY FS_Subset, SumRemove
    <3>4. QED
      BY <3>2, <3>3
  <2>3. QED
    BY <2>1, <2>2
<1>2. SUBSET S \subseteq G
  <2> HIDE DEF G
  <2>1. QED
    BY <1>1, SubsetsIn
<1>3. QED
  BY <1>2

(* ... and naturals to at least each of them. *)
LEMMA SumOfNaturals ==
  ASSUME NEW S, IsFiniteSet(S), NEW f, \A x \in S : f[x] \in Nat
  PROVE  /\ SumFunctionOnSet(f, S) \in Nat
         /\ \A a \in S : f[a] <= SumFunctionOnSet(f, S)
<1>1. ASSUME NEW T \in SUBSET S PROVE SumFunctionOnSet(f, T) \in Nat
  <2> DEFINE z == [x \in T |-> 0]
  <2>1. IsFiniteSet(T)
    BY FS_Subset
  <2>2. SumFunctionOnSet(z, T) = 0
    BY <2>1, SumOfNothing
  <2>3. \A x \in T : z[x] \in Int /\ f[x] \in Int /\ z[x] <= f[x]
    OBVIOUS
  <2> HIDE DEF z
  <2>4. SumFunctionOnSet(z, T) <= SumFunctionOnSet(f, T) /\ SumFunctionOnSet(f, T) \in Int
    BY <2>1, <2>3, SumMonotone, SumType
  <2>5. QED
    BY <2>2, <2>4
<1>2. ASSUME NEW a \in S PROVE f[a] <= SumFunctionOnSet(f, S)
  <2>1. SumFunctionOnSet(f, S) = f[a] + SumFunctionOnSet(f, S \ {a})
    BY SumRemove
  <2>2. SumFunctionOnSet(f, S \ {a}) \in Nat /\ f[a] \in Nat
    BY <1>1
  <2>3. QED
    BY <2>1, <2>2
<1>3. QED
  BY <1>1, <1>2

(* Summands that are nothing may be left out. *)
LEMMA SumRestricts ==
  ASSUME NEW S, IsFiniteSet(S), NEW f, \A x \in S : f[x] \in Int,
         NEW R \in SUBSET S, \A x \in S \ R : f[x] = 0
  PROVE  SumFunctionOnSet(f, S) = SumFunctionOnSet(f, R)
<1> DEFINE G == {T \in SUBSET S : SumFunctionOnSet(f, T) = SumFunctionOnSet(f, T \cap R)}
<1>1. ASSUME NEW T \in SUBSET S, \A U \in SUBSET T : U # T => U \in G
      PROVE  T \in G
  <2>1. CASE T \subseteq R
    <3>1. T \cap R = T
      BY <2>1
    <3>2. QED
      BY <3>1
  <2>2. CASE ~(T \subseteq R)
    <3>1. PICK c \in T : c \notin R
      BY <2>2
    <3>2. T \ {c} \in G /\ (T \ {c}) \cap R = T \cap R
      BY <1>1, <3>1
    <3>3. IsFiniteSet(T) /\ IsFiniteSet(T \ {c})
      BY FS_Subset
    <3>4. SumFunctionOnSet(f, T) = f[c] + SumFunctionOnSet(f, T \ {c})
      BY <3>3, SumRemove
    <3>5. SumFunctionOnSet(f, T \ {c}) \in Int
      BY <3>3, SumType
    <3>6. f[c] = 0
      BY <3>1
    <3>7. SumFunctionOnSet(f, T) = SumFunctionOnSet(f, T \ {c})
      BY <3>4, <3>5, <3>6
    <3>8. SumFunctionOnSet(f, T \ {c}) = SumFunctionOnSet(f, T \cap R)
      BY <3>2
    <3>9. QED
      BY <3>7, <3>8
  <2>3. QED
    BY <2>1, <2>2
<1>2. SUBSET S \subseteq G
  <2> HIDE DEF G
  <2>1. QED
    BY <1>1, SubsetsIn
<1>3. S \in G /\ S \cap R = R
  BY <1>2
<1>4. QED
  BY <1>3

(* A sum moves by what its one changed summand moves by. *)
LEMMA SumChange ==
  ASSUME NEW S, IsFiniteSet(S), NEW f, NEW g, NEW a \in S,
         \A x \in S : f[x] \in Int /\ g[x] \in Int,
         \A x \in S : x # a => f[x] = g[x]
  PROVE  SumFunctionOnSet(g, S) = (SumFunctionOnSet(f, S) - f[a]) + g[a]
<1>1. IsFiniteSet(S \ {a})
  BY FS_RemoveElement
<1>2. SumFunctionOnSet(f, S \ {a}) = SumFunctionOnSet(g, S \ {a})
  BY <1>1, SumSame
<1>3. /\ SumFunctionOnSet(f, S) = f[a] + SumFunctionOnSet(f, S \ {a})
      /\ SumFunctionOnSet(g, S) = g[a] + SumFunctionOnSet(g, S \ {a})
  BY SumRemove
<1>4. SumFunctionOnSet(f, S \ {a}) \in Int
  BY <1>1, SumType
<1>5. QED
  BY <1>2, <1>3, <1>4

(* Of finitely many things measured by a natural, one measures most. *)
LEMMA GreatestOf ==
  ASSUME NEW S, IsFiniteSet(S), S # {}, NEW f, \A x \in S : f[x] \in Nat
  PROVE  \E m \in S : \A x \in S : f[x] <= f[m]
<1> DEFINE Bounds == {n \in Nat : \A x \in S : f[x] <= n}
<1>1. SumFunctionOnSet(f, S) \in Bounds
  BY SumOfNaturals
<1>2. PICK n \in Bounds : \A k \in Bounds : n <= k
  <2>1. Bounds \in SUBSET Nat
    OBVIOUS
  <2> HIDE DEF Bounds
  <2>2. QED
    BY <1>1, <2>1, LeastNatural
<1>3. SUFFICES ASSUME \A m \in S : f[m] # n PROVE FALSE
  BY <1>2
<1>4. \A x \in S : f[x] <= n - 1
  BY <1>2, <1>3
<1>5. n - 1 \in Nat
  <2>1. PICK x \in S : TRUE
    OBVIOUS
  <2>2. f[x] \in Nat /\ f[x] <= n - 1 /\ n \in Nat
    BY <1>2, <1>4
  <2>3. QED
    BY <2>2
<1>6. n - 1 \in Bounds
  BY <1>4, <1>5
<1>7. QED
  BY <1>2, <1>6

=============================================================================
