----------------------------- MODULE SumTheorems -----------------------------
(***************************************************************************)
(* Facts about the sums of the models, SumFunctionOnSet of the community   *)
(* modules over a finite set: what it is of the empty set and of one more  *)
(* element, its type, its bounds, and that it is linear.                   *)
(*                                                                         *)
(* The sum is defined by a recursive function over the subsets of the set. *)
(* Every induction here takes a smallest counterexample: a number, or a    *)
(* subset all of whose own subsets are none.                               *)
(***************************************************************************)
EXTENDS FiniteSetTheorems, TLAPS

(* A set of natural numbers has a least one.                                 *)
LEMMA LeastNatural ==
  ASSUME NEW C, C \subseteq Nat, C # {}
  PROVE  \E n \in C : \A m \in C : n <= m
<1>1. \E n \in C : \A m \in C : <<m, n>> \notin OpToRel(<, Nat)
  BY NatLessThanWellFounded, WFMin
<1>2. PICK n \in C : \A m \in C : <<m, n>> \notin OpToRel(<, Nat)
  BY <1>1
<1>3. ASSUME NEW m \in C PROVE n <= m
  <2>1. m \in Nat /\ n \in Nat
    OBVIOUS
  <2>2. ~(m < n)
    BY <1>2, <2>1 DEF OpToRel
  <2> QED BY <2>1, <2>2
<1> QED BY <1>2, <1>3

(* A set of subsets of a finite set has one that is minimal.                 *)
LEMMA MinimalSubset ==
  ASSUME NEW S, IsFiniteSet(S), NEW C, C \subseteq SUBSET S, C # {}
  PROVE  \E T \in C : \A U \in C : U \subseteq T => U = T
<1>1. IsWellFoundedOn(StrictSubsetOrdering(S), SUBSET S)
  BY FS_StrictSubsetOrderingWellFounded, FS_FiniteSubsetsOfFinite
<1>2. PICK T \in C : \A U \in C : <<U, T>> \notin StrictSubsetOrdering(S)
  BY <1>1, WFMin
<1>3. ASSUME NEW U \in C, U \subseteq T PROVE U = T
  <2>1. <<U, T>> \in (SUBSET S) \X (SUBSET S)
    OBVIOUS
  <2> QED BY <1>2, <1>3, <2>1 DEF StrictSubsetOrdering
<1> QED BY <1>2, <1>3

-----------------------------------------------------------------------------
(* The recursive function behind a sum.                                      *)

Chosen(s) == CHOOSE x \in s : TRUE

SumStep(f, g, s) == IF s = {} THEN 0 ELSE f[Chosen(s)] + g[s \ {Chosen(s)}]

SumsUp(g, f, S) == g = [s \in SUBSET S |-> SumStep(f, g, s)]

LEMMA ChosenIsElement == ASSUME NEW s, s # {} PROVE Chosen(s) \in s
  BY DEF Chosen

LEMMA SumDefinition ==
  ASSUME NEW f, NEW S
  PROVE  SumFunctionOnSet(f, S) = (CHOOSE g : SumsUp(g, f, S))[S]
  BY Zenon DEF SumFunctionOnSet, FoldFunctionOnSet, MapThenFoldSet, SumsUp, SumStep, Chosen

(* One exists: it is built from the small subsets to the large ones.         *)
LEMMA SumExists ==
  ASSUME NEW f, NEW S, IsFiniteSet(S)
  PROVE  \E g : SumsUp(g, f, S)
<1> DEFINE Upto(g, n) == \A s \in SUBSET S : Cardinality(s) <= n => g[s] = SumStep(f, g, s)
           Partial(n) == \E g : g = [s \in SUBSET S |-> g[s]] /\ Upto(g, n)
           Fail == {n \in Nat : ~Partial(n)}
<1>1. \A s \in SUBSET S : /\ IsFiniteSet(s) /\ Cardinality(s) \in Nat
                          /\ Cardinality(s) <= Cardinality(S)
                          /\ Cardinality(s) = 0 <=> s = {}
  BY FS_Subset, FS_CardinalityType, FS_EmptySet
<1>2. Partial(0)
  <2> DEFINE g == [s \in SUBSET S |-> 0]
  <2>1. ASSUME NEW s \in SUBSET S, Cardinality(s) <= 0 PROVE g[s] = SumStep(f, g, s)
    BY <1>1, <2>1 DEF SumStep
  <2> QED BY <2>1
<1>3. ASSUME NEW n \in Nat, Partial(n) PROVE Partial(n + 1)
  <2>1. PICK g : g = [s \in SUBSET S |-> g[s]] /\ Upto(g, n)
    BY <1>3
  <2> DEFINE h == [s \in SUBSET S |-> IF Cardinality(s) <= n THEN g[s] ELSE SumStep(f, g, s)]
  <2>2. ASSUME NEW s \in SUBSET S, Cardinality(s) <= n + 1, s # {}
        PROVE  h[s \ {Chosen(s)}] = g[s \ {Chosen(s)}]
    <3>1. Chosen(s) \in s /\ s \ {Chosen(s)} \in SUBSET S
      BY <2>2, ChosenIsElement
    <3>2. Cardinality(s \ {Chosen(s)}) = Cardinality(s) - 1
      BY <3>1, <1>1, FS_RemoveElement
    <3>3. Cardinality(s \ {Chosen(s)}) <= n
      BY <3>2, <2>2, <1>1
    <3> QED BY <3>1, <3>3
  <2>3. ASSUME NEW s \in SUBSET S, Cardinality(s) <= n + 1 PROVE h[s] = SumStep(f, h, s)
    <3>1. SumStep(f, h, s) = SumStep(f, g, s)
      BY <2>2, <2>3 DEF SumStep
    <3>2. h[s] = SumStep(f, g, s)
      BY <2>1
    <3> QED BY <3>1, <3>2
  <2>4. h = [s \in SUBSET S |-> h[s]] /\ Upto(h, n + 1)
    BY <2>3
  <2> HIDE DEF h
  <2> QED BY <2>4
<1> HIDE DEF Partial
<1>4. Fail = {}
  <2> SUFFICES ASSUME Fail # {} PROVE FALSE
    OBVIOUS
  <2>1. PICK n \in Fail : \A m \in Fail : n <= m
    BY LeastNatural
  <2>2. n \in Nat /\ ~Partial(n)
    OBVIOUS
  <2>3. n # 0
    BY <1>2, <2>2
  <2>4. n - 1 \in Nat /\ n - 1 \notin Fail
    BY <2>1, <2>2, <2>3
  <2>5. Partial((n - 1) + 1)
    BY <1>3, <2>4
  <2>6. (n - 1) + 1 = n
    BY <2>2
  <2> QED BY <2>2, <2>5, <2>6
<1>5. Partial(Cardinality(S))
  BY <1>1, <1>4
<1>6. PICK g : g = [s \in SUBSET S |-> g[s]] /\ Upto(g, Cardinality(S))
  BY <1>5 DEF Partial
<1>7. \A s \in SUBSET S : g[s] = SumStep(f, g, s)
  BY <1>6, <1>1
<1> QED BY <1>6, <1>7 DEF SumsUp

(* Where two of them are both defined and sum the same numbers, they agree.  *)
LEMMA SumsAgree ==
  ASSUME NEW S, IsFiniteSet(S), NEW T, S \subseteq T, NEW f, NEW h,
         \A x \in S : f[x] = h[x],
         NEW g, SumsUp(g, f, S), NEW k, SumsUp(k, h, T)
  PROVE  \A s \in SUBSET S : g[s] = k[s]
<1> DEFINE Fail == {s \in SUBSET S : g[s] # k[s]}
<1> SUFFICES ASSUME Fail # {} PROVE FALSE
  OBVIOUS
<1>1. PICK s \in Fail : \A u \in Fail : u \subseteq s => u = s
  <2>1. Fail \subseteq SUBSET S
    OBVIOUS
  <2> HIDE DEF Fail
  <2> QED BY <2>1, MinimalSubset
<1>2. s \in SUBSET S /\ s \in SUBSET T /\ g[s] # k[s]
  OBVIOUS
<1>3. g[s] = SumStep(f, g, s) /\ k[s] = SumStep(h, k, s)
  BY <1>2 DEF SumsUp
<1>4. s # {}
  BY <1>2, <1>3 DEF SumStep
<1>5. Chosen(s) \in s
  BY <1>4, ChosenIsElement
<1>6. f[Chosen(s)] = h[Chosen(s)]
  BY <1>2, <1>5
<1>7. s \ {Chosen(s)} \notin Fail
  BY <1>1, <1>5
<1>8. g[s \ {Chosen(s)}] = k[s \ {Chosen(s)}]
  BY <1>2, <1>7
<1> QED BY <1>2, <1>3, <1>6, <1>8 DEF SumStep

-----------------------------------------------------------------------------
(* The facts.                                                                *)

LEMMA SumRecursion ==
  ASSUME NEW f, NEW S, IsFiniteSet(S)
  PROVE  SumFunctionOnSet(f, S) =
           IF S = {} THEN 0
           ELSE f[Chosen(S)] + SumFunctionOnSet(f, S \ {Chosen(S)})
<1> DEFINE T == S \ {Chosen(S)}
           g == CHOOSE i : SumsUp(i, f, S)
           k == CHOOSE i : SumsUp(i, f, T)
<1>1. IsFiniteSet(T)
  BY FS_RemoveElement
<1>2. SumsUp(g, f, S) /\ SumsUp(k, f, T)
  BY <1>1, SumExists
<1>3. SumFunctionOnSet(f, S) = g[S] /\ SumFunctionOnSet(f, T) = k[T]
  BY SumDefinition
<1> HIDE DEF g, k
<1>4. k[T] = g[T]
  BY <1>1, <1>2, SumsAgree
<1>5. g[S] = SumStep(f, g, S)
  BY <1>2 DEF SumsUp
<1> QED BY <1>3, <1>4, <1>5 DEF SumStep

THEOREM SumOfNothing == ASSUME NEW f PROVE SumFunctionOnSet(f, {}) = 0
  BY SumRecursion, FS_EmptySet

THEOREM SumOfTheSame ==
  ASSUME NEW S, IsFiniteSet(S), NEW f, NEW h, \A x \in S : f[x] = h[x]
  PROVE  SumFunctionOnSet(f, S) = SumFunctionOnSet(h, S)
<1> DEFINE g == CHOOSE i : SumsUp(i, f, S)
           k == CHOOSE i : SumsUp(i, h, S)
<1>1. SumsUp(g, f, S) /\ SumsUp(k, h, S)
  BY SumExists
<1>2. SumFunctionOnSet(f, S) = g[S] /\ SumFunctionOnSet(h, S) = k[S]
  BY SumDefinition
<1> HIDE DEF g, k
<1> QED BY <1>1, <1>2, SumsAgree

(* The smallest set that is a counterexample, with the element it sums first.*)
LEMMA SmallestSum ==
  ASSUME NEW S, IsFiniteSet(S), NEW C, C \subseteq SUBSET S, C # {}
  PROVE  \E T \in C :
           /\ IsFiniteSet(T)
           /\ \A U \in C : U \subseteq T => U = T
           /\ T # {} => /\ Chosen(T) \in T
                        /\ IsFiniteSet(T \ {Chosen(T)})
                        /\ T \ {Chosen(T)} \notin C
<1>1. PICK T \in C : \A U \in C : U \subseteq T => U = T
  BY MinimalSubset
<1>2. IsFiniteSet(T) /\ IsFiniteSet(T \ {Chosen(T)})
  BY FS_Subset, FS_RemoveElement
<1>3. T # {} => Chosen(T) \in T
  BY ChosenIsElement
<1>4. T # {} => T \ {Chosen(T)} \notin C
  BY <1>1, <1>3
<1> QED BY <1>1, <1>2, <1>3, <1>4

THEOREM SumIsInteger ==
  ASSUME NEW S, IsFiniteSet(S), NEW f, \A x \in S : f[x] \in Int
  PROVE  SumFunctionOnSet(f, S) \in Int
<1> DEFINE Fail == {T \in SUBSET S : SumFunctionOnSet(f, T) \notin Int}
<1> SUFFICES ASSUME Fail # {} PROVE FALSE
  OBVIOUS
<1>1. PICK T \in Fail : /\ IsFiniteSet(T)
                        /\ T # {} => Chosen(T) \in T /\ T \ {Chosen(T)} \notin Fail
  <2>1. Fail \subseteq SUBSET S
    OBVIOUS
  <2> HIDE DEF Fail
  <2> QED BY <2>1, SmallestSum
<1>2. T \in SUBSET S /\ SumFunctionOnSet(f, T) \notin Int
  OBVIOUS
<1>3. T # {}
  BY <1>2, SumOfNothing
<1>4. SumFunctionOnSet(f, T) = f[Chosen(T)] + SumFunctionOnSet(f, T \ {Chosen(T)})
  BY <1>1, <1>3, SumRecursion
<1>5. f[Chosen(T)] \in Int /\ SumFunctionOnSet(f, T \ {Chosen(T)}) \in Int
  BY <1>1, <1>2, <1>3
<1> QED BY <1>2, <1>4, <1>5

(* Any element can be taken out of the sum, not only the one taken first.    *)
THEOREM SumWithout ==
  ASSUME NEW S, IsFiniteSet(S), NEW f, \A x \in S : f[x] \in Int, NEW e \in S
  PROVE  SumFunctionOnSet(f, S) = f[e] + SumFunctionOnSet(f, S \ {e})
<1> DEFINE Sum(T) == SumFunctionOnSet(f, T)
           Fail == {T \in SUBSET S : \E x \in T : Sum(T) # f[x] + Sum(T \ {x})}
<1> SUFFICES ASSUME Fail # {} PROVE FALSE
  OBVIOUS
<1>1. PICK T \in Fail : /\ IsFiniteSet(T)
                        /\ T # {} => Chosen(T) \in T /\ IsFiniteSet(T \ {Chosen(T)})
                        /\ \A U \in Fail : U \subseteq T => U = T
  <2>1. Fail \subseteq SUBSET S
    OBVIOUS
  <2> HIDE DEF Fail
  <2> QED BY <2>1, SmallestSum
<1>2. PICK x \in T : Sum(T) # f[x] + Sum(T \ {x})
  OBVIOUS
<1> DEFINE c == Chosen(T)
<1>3. c \in T /\ T \in SUBSET S
  BY <1>1, <1>2
<1>4. Sum(T) = f[c] + Sum(T \ {c})
  BY <1>1, <1>3, SumRecursion
<1>5. x # c
  BY <1>2, <1>4
<1>6. T \ {c} \notin Fail /\ T \ {x} \notin Fail
  BY <1>1, <1>3
<1>7. Sum(T \ {c}) = f[x] + Sum((T \ {c}) \ {x})
  BY <1>3, <1>5, <1>6
<1>8. Sum(T \ {x}) = f[c] + Sum((T \ {x}) \ {c})
  BY <1>3, <1>5, <1>6
<1>9. (T \ {c}) \ {x} = (T \ {x}) \ {c}
  OBVIOUS
<1>10. f[x] \in Int /\ f[c] \in Int /\ Sum((T \ {x}) \ {c}) \in Int
  <2>1. IsFiniteSet((T \ {x}) \ {c})
    BY <1>1, FS_RemoveElement
  <2>2. \A y \in (T \ {x}) \ {c} : f[y] \in Int
    BY <1>3
  <2> QED BY <1>3, <2>1, <2>2, SumIsInteger
<1> DEFINE rest == Sum((T \ {x}) \ {c})
<1>11. Sum(T) = f[c] + (f[x] + rest)
  BY <1>4, <1>7, <1>9
<1>12. f[x] + Sum(T \ {x}) = f[x] + (f[c] + rest)
  BY <1>8
<1>13. f[c] + (f[x] + rest) = f[x] + (f[c] + rest)
  BY <1>10
<1> QED BY <1>2, <1>11, <1>12, <1>13

THEOREM SumWith ==
  ASSUME NEW S, IsFiniteSet(S), NEW e, e \notin S,
         NEW f, \A x \in S \cup {e} : f[x] \in Int
  PROVE  SumFunctionOnSet(f, S \cup {e}) = f[e] + SumFunctionOnSet(f, S)
<1>1. IsFiniteSet(S \cup {e})
  BY FS_AddElement
<1>2. (S \cup {e}) \ {e} = S
  OBVIOUS
<1> QED BY <1>1, <1>2, SumWithout

(* A sum of natural numbers is one.                                          *)
THEOREM SumIsNatural ==
  ASSUME NEW S, IsFiniteSet(S), NEW f, \A x \in S : f[x] \in Nat
  PROVE  SumFunctionOnSet(f, S) \in Nat
<1> DEFINE Fail == {T \in SUBSET S : SumFunctionOnSet(f, T) \notin Nat}
<1> SUFFICES ASSUME Fail # {} PROVE FALSE
  OBVIOUS
<1>1. PICK T \in Fail : /\ IsFiniteSet(T)
                        /\ T # {} => Chosen(T) \in T /\ T \ {Chosen(T)} \notin Fail
  <2>1. Fail \subseteq SUBSET S
    OBVIOUS
  <2> HIDE DEF Fail
  <2> QED BY <2>1, SmallestSum
<1>2. T \in SUBSET S /\ SumFunctionOnSet(f, T) \notin Nat
  OBVIOUS
<1>3. T # {}
  BY <1>2, SumOfNothing
<1>4. SumFunctionOnSet(f, T) = f[Chosen(T)] + SumFunctionOnSet(f, T \ {Chosen(T)})
  BY <1>1, <1>3, SumRecursion
<1>5. f[Chosen(T)] \in Nat /\ SumFunctionOnSet(f, T \ {Chosen(T)}) \in Nat
  BY <1>1, <1>2, <1>3
<1> QED BY <1>2, <1>4, <1>5

(* A part of the numbers sums up to no more than all of them.                *)
THEOREM SumMonotone ==
  ASSUME NEW S, IsFiniteSet(S), NEW T, T \subseteq S, NEW f, \A x \in S : f[x] \in Nat
  PROVE  SumFunctionOnSet(f, T) <= SumFunctionOnSet(f, S)
<1> DEFINE Sum(U) == SumFunctionOnSet(f, U)
           Fail == {U \in SUBSET S : T \subseteq U /\ ~(Sum(T) <= Sum(U))}
<1> SUFFICES ASSUME Fail # {} PROVE FALSE
  OBVIOUS
<1>1. PICK U \in Fail : \A V \in Fail : V \subseteq U => V = U
  <2>1. Fail \subseteq SUBSET S
    OBVIOUS
  <2> HIDE DEF Fail
  <2> QED BY <2>1, MinimalSubset
<1>2. U \in SUBSET S /\ T \subseteq U /\ ~(Sum(T) <= Sum(U))
  OBVIOUS
<1>3. ASSUME NEW V \in SUBSET S PROVE Sum(V) \in Nat
  BY FS_Subset, SumIsNatural
<1>4. Sum(T) \in Nat /\ Sum(U) \in Nat
  BY <1>2, <1>3
<1>5. PICK e \in U : e \notin T
  BY <1>2, <1>4
<1>6. Sum(U) = f[e] + Sum(U \ {e})
  <2>1. IsFiniteSet(U) /\ \A x \in U : f[x] \in Int
    BY <1>2, FS_Subset
  <2> HIDE DEF Fail
  <2> QED BY <2>1, SumWithout
<1>7. U \ {e} \in SUBSET S /\ T \subseteq U \ {e} /\ U \ {e} \notin Fail
  BY <1>1, <1>2, <1>5
<1>8. Sum(T) <= Sum(U \ {e}) /\ Sum(U \ {e}) \in Nat /\ f[e] \in Nat
  BY <1>2, <1>3, <1>7
<1> QED BY <1>2, <1>4, <1>6, <1>8

(* Sums of two sets without a common element add up.                         *)
THEOREM SumOfUnion ==
  ASSUME NEW S, IsFiniteSet(S), NEW T, IsFiniteSet(T), S \cap T = {},
         NEW f, \A x \in S \cup T : f[x] \in Int
  PROVE  SumFunctionOnSet(f, S \cup T) = SumFunctionOnSet(f, S) + SumFunctionOnSet(f, T)
<1> DEFINE Sum(U) == SumFunctionOnSet(f, U)
           Fail == {U \in SUBSET T : Sum(S \cup U) # Sum(S) + Sum(U)}
<1> SUFFICES ASSUME Fail # {} PROVE FALSE
  OBVIOUS
<1>1. PICK U \in Fail : \A V \in Fail : V \subseteq U => V = U
  <2>1. Fail \subseteq SUBSET T
    OBVIOUS
  <2> HIDE DEF Fail
  <2> QED BY <2>1, MinimalSubset
<1>2. U \in SUBSET T /\ Sum(S \cup U) # Sum(S) + Sum(U)
  OBVIOUS
<1>3. Sum(S) \in Int
  BY SumIsInteger
<1>4. U # {}
  <2>1. S \cup {} = S
    OBVIOUS
  <2> QED BY <1>2, <1>3, <2>1, SumOfNothing
<1>5. PICK e \in U : TRUE
  BY <1>4
<1> DEFINE V == U \ {e}
<1>6. V \in SUBSET T /\ V \notin Fail /\ e \notin S \cup V /\ IsFiniteSet(V)
  BY <1>1, <1>2, <1>5, FS_Subset
<1>7. Sum(S \cup V) = Sum(S) + Sum(V)
  BY <1>6
<1>8. Sum(V \cup {e}) = f[e] + Sum(V)
  <2>1. \A x \in V \cup {e} : f[x] \in Int
    BY <1>2, <1>5
  <2> HIDE DEF V, Fail
  <2> QED BY <1>6, <2>1, SumWith
<1>9. Sum((S \cup V) \cup {e}) = f[e] + Sum(S \cup V)
  <2>1. \A x \in (S \cup V) \cup {e} : f[x] \in Int
    BY <1>2, <1>5
  <2>2. IsFiniteSet(S \cup V)
    BY <1>6, FS_Union
  <2> HIDE DEF V, Fail
  <2> QED BY <1>6, <2>1, <2>2, SumWith
<1>10. V \cup {e} = U /\ (S \cup V) \cup {e} = S \cup U
  BY <1>5
<1>11. f[e] \in Int /\ Sum(V) \in Int
  <2>1. \A x \in V : f[x] \in Int
    BY <1>6
  <2> HIDE DEF V
  <2> QED BY <1>2, <1>5, <1>6, <2>1, SumIsInteger
<1> HIDE DEF V, Fail
<1>12. Sum(U) = f[e] + Sum(V) /\ Sum(S \cup U) = f[e] + (Sum(S) + Sum(V))
  BY <1>7, <1>8, <1>9, <1>10
<1> QED BY <1>2, <1>3, <1>11, <1>12

(* The sum of differences is the difference of the sums.                     *)
THEOREM SumOfDifference ==
  ASSUME NEW S, IsFiniteSet(S), NEW f, NEW g, NEW h,
         \A x \in S : g[x] \in Int /\ h[x] \in Int /\ f[x] = g[x] - h[x]
  PROVE  SumFunctionOnSet(f, S) = SumFunctionOnSet(g, S) - SumFunctionOnSet(h, S)
<1> DEFINE F(U) == SumFunctionOnSet(f, U)
           G(U) == SumFunctionOnSet(g, U)
           H(U) == SumFunctionOnSet(h, U)
           Fail == {U \in SUBSET S : F(U) # G(U) - H(U)}
<1> SUFFICES ASSUME Fail # {} PROVE FALSE
  OBVIOUS
<1>1. PICK U \in Fail : /\ IsFiniteSet(U)
                        /\ U # {} => /\ Chosen(U) \in U
                                     /\ IsFiniteSet(U \ {Chosen(U)})
                                     /\ U \ {Chosen(U)} \notin Fail
  <2>1. Fail \subseteq SUBSET S
    OBVIOUS
  <2> HIDE DEF Fail
  <2> QED BY <2>1, SmallestSum
<1>2. U \in SUBSET S /\ F(U) # G(U) - H(U)
  OBVIOUS
<1>3. U # {}
  BY <1>2, SumOfNothing
<1> DEFINE c == Chosen(U)
           V == U \ {c}
<1>4. /\ F(U) = f[c] + F(V)
      /\ G(U) = g[c] + G(V)
      /\ H(U) = h[c] + H(V)
  BY <1>1, <1>3, SumRecursion
<1>5. c \in S /\ V \in SUBSET S /\ IsFiniteSet(V)
  BY <1>1, <1>2, <1>3
<1>6. F(V) = G(V) - H(V)
  BY <1>1, <1>3, <1>5
<1> HIDE DEF c, V, Fail
<1>7. G(V) \in Int /\ H(V) \in Int
  BY <1>5, SumIsInteger
<1>8. g[c] \in Int /\ h[c] \in Int /\ f[c] = g[c] - h[c]
  BY <1>5
<1> HIDE DEF F, G, H
<1> QED BY <1>2, <1>4, <1>6, <1>7, <1>8

(* Numbers that are all zero sum up to zero.                                 *)
THEOREM SumOfZeros ==
  ASSUME NEW S, IsFiniteSet(S), NEW f, \A x \in S : f[x] = 0
  PROVE  SumFunctionOnSet(f, S) = 0
<1>1. SumFunctionOnSet(f, S) = SumFunctionOnSet(f, S) - SumFunctionOnSet(f, S)
  BY SumOfDifference
<1>2. SumFunctionOnSet(f, S) \in Int
  BY SumIsInteger
<1> QED BY <1>1, <1>2

LEMMA ImageIsFinite ==
  ASSUME NEW S, IsFiniteSet(S), NEW h
  PROVE  IsFiniteSet({h[x] : x \in S})
<1> DEFINE k == [x \in S |-> h[x]]
           image == {h[x] : x \in S}
<1>1. k \in Surjection(S, image)
  BY DEF Surjection
<1> QED BY <1>1, FS_Surjection

(* The sum over the images of a set's elements, which are told apart.        *)
LEMMA SumOfImage ==
  ASSUME NEW S, IsFiniteSet(S), NEW h, \A x, y \in S : h[x] = h[y] => x = y,
         NEW f, NEW g, \A x \in S : g[x] \in Int /\ f[h[x]] = g[x]
  PROVE  SumFunctionOnSet(f, {h[x] : x \in S}) = SumFunctionOnSet(g, S)
<1> DEFINE F(U) == SumFunctionOnSet(f, {h[x] : x \in U})
           G(U) == SumFunctionOnSet(g, U)
           Fail == {U \in SUBSET S : F(U) # G(U)}
<1> SUFFICES ASSUME Fail # {} PROVE FALSE
  OBVIOUS
<1>1. PICK U \in Fail : /\ IsFiniteSet(U)
                        /\ U # {} => /\ Chosen(U) \in U
                                     /\ IsFiniteSet(U \ {Chosen(U)})
                                     /\ U \ {Chosen(U)} \notin Fail
  <2>1. Fail \subseteq SUBSET S
    OBVIOUS
  <2> HIDE DEF Fail
  <2> QED BY <2>1, SmallestSum
<1>2. U \in SUBSET S /\ F(U) # G(U)
  OBVIOUS
<1>3. U # {}
  <2>1. {h[x] : x \in {}} = {}
    OBVIOUS
  <2> QED BY <1>2, <2>1, SumOfNothing
<1> DEFINE c == Chosen(U)
           V == U \ {c}
<1>4. G(U) = g[c] + G(V)
  BY <1>1, <1>3, SumRecursion
<1>5. c \in S /\ V \in SUBSET S /\ IsFiniteSet(V) /\ c \notin V /\ U = V \cup {c}
  BY <1>1, <1>2, <1>3
<1>6. F(V) = G(V)
  BY <1>1, <1>3, <1>5
<1> HIDE DEF c, V, Fail
<1> DEFINE image == {h[x] : x \in V}
<1>7. IsFiniteSet(image)
  BY <1>5, ImageIsFinite
<1>8. {h[x] : x \in U} = image \cup {h[c]} /\ h[c] \notin image
  BY <1>5
<1>9. \A y \in image \cup {h[c]} : f[y] \in Int
  BY <1>5
<1> HIDE DEF image
<1>10. SumFunctionOnSet(f, image \cup {h[c]}) = f[h[c]] + SumFunctionOnSet(f, image)
  BY <1>7, <1>8, <1>9, SumWith
<1>11. F(U) = f[h[c]] + F(V)
  BY <1>8, <1>10 DEF image
<1>12. f[h[c]] = g[c]
  BY <1>5
<1> QED BY <1>2, <1>4, <1>6, <1>11, <1>12

(* The elements of a set may be renamed, one to one.                         *)
Renames(h, S, T) ==
  /\ \A x \in S : h[x] \in T
  /\ \A y \in T : \E x \in S : h[x] = y
  /\ \A x, y \in S : h[x] = h[y] => x = y

Carried(f, h, g, S) == \A x \in S : g[x] \in Int /\ f[h[x]] = g[x]

THEOREM SumRenamed ==
  ASSUME NEW S, IsFiniteSet(S), NEW T, NEW h, Renames(h, S, T),
         NEW f, NEW g, Carried(f, h, g, S)
  PROVE  IsFiniteSet(T) /\ SumFunctionOnSet(f, T) = SumFunctionOnSet(g, S)
<1> USE DEF Renames, Carried
<1>1. T = {h[x] : x \in S}
  OBVIOUS
<1>2. SumFunctionOnSet(f, {h[x] : x \in S}) = SumFunctionOnSet(g, S)
  BY SumOfImage
<1> QED BY <1>1, <1>2, ImageIsFinite

=============================================================================
