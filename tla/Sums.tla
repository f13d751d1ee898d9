-------------------------------- MODULE Sums --------------------------------
(***************************************************************************)
(* Facts about MapThenSumSet, the sum the models take over sets of splits, *)
(* rows and entries: it is an integer, it does not depend on the order in  *)
(* which the elements are chosen, and it follows the elements through a    *)
(* bijection.  And facts about functions defined level by level, f[n] from *)
(* f[n - 1], and the closure of a set that one grows to.                   *)
(*                                                                         *)
(* The provers cannot instantiate an induction theorem that has a          *)
(* predicate as a parameter.  Here the predicate is a set: what holds of a *)
(* subset whenever it holds of every smaller one holds of all subsets of a *)
(* finite set, by the least cardinality of a counterexample.               *)
(***************************************************************************)
EXTENDS FiniteSetsExt, FiniteSetTheorems, WellFoundedInduction, TLAPS

(* Naturals have a least element: WFMin for the order of Nat. *)
LEMMA LeastNatural ==
    ASSUME NEW T, T \subseteq Nat, T # {}
    PROVE  \E n \in T : \A m \in T : n <= m
<1>1. PICK n \in T : \A m \in T : ~(<<m, n>> \in OpToRel(<, Nat))
  BY NatLessThanWellFounded, WFMin
<1>2. ASSUME NEW m \in T, m < n
      PROVE  FALSE
  <2>1. m \in Nat /\ n \in Nat
    OBVIOUS
  <2>2. <<m, n>> \in OpToRel(<, Nat)
    BY <1>2, <2>1, Zenon DEF OpToRel
  <2>3. QED
    BY <1>1, <2>2
<1>3. QED
  BY <1>2

LEMMA SubsetInduction ==
    ASSUME NEW S, IsFiniteSet(S), NEW F,
           \A A \in SUBSET S : (\A B \in SUBSET A : B # A => B \in F) => A \in F
    PROVE  \A A \in SUBSET S : A \in F
<1> DEFINE Size == {Cardinality(A) : A \in (SUBSET S) \ F}
<1>1. \A A \in SUBSET S : IsFiniteSet(A) /\ Cardinality(A) \in Nat
  BY FS_Subset, FS_CardinalityType
<1>2. CASE Size = {}
  BY <1>2
<1>3. CASE Size # {}
  <2>1. Size \subseteq Nat
    BY <1>1
  <2>2. PICK n \in Size : \A m \in Size : n <= m
    BY <1>3, <2>1, LeastNatural
  <2>3. PICK A \in (SUBSET S) \ F : n = Cardinality(A)
    BY <2>2
  <2>4. PICK B \in SUBSET A : B # A /\ B \notin F
    BY <2>3
  <2>5. B \in (SUBSET S) \ F
    BY <2>3, <2>4
  <2>6. Cardinality(B) \in Size
    BY <2>5
  <2>7. Cardinality(B) <= Cardinality(A) /\ (Cardinality(A) = Cardinality(B) => A = B)
    BY <1>1, <2>3, <2>4, FS_Subset
  <2>8. Cardinality(A) \in Nat /\ Cardinality(B) \in Nat
    BY <1>1, <2>3, <2>5
  <2> HIDE DEF Size
  <2>9. QED
    BY <2>2, <2>3, <2>4, <2>6, <2>7, <2>8
<1>4. QED
  BY <1>2, <1>3
-----------------------------------------------------------------------------
(* The fold: g gives the sum of every subset of S. *)
First(A) == CHOOSE x \in A : TRUE
Rest(A) == A \ {First(A)}
Adds(f, S, g) == g = [A \in SUBSET S |-> IF A = {} THEN 0 ELSE f[First(A)] + g[Rest(A)]]
SumOver(f, S) == MapThenSumSet(LAMBDA x : f[x], S)

LEMMA FirstIn == \A A : A # {} => First(A) \in A /\ Rest(A) \subseteq A /\ Rest(A) # A
BY DEF First, Rest

LEMMA AddsTo ==
    ASSUME NEW f, NEW S, NEW g, Adds(f, S, g), NEW A \in SUBSET S
    PROVE  g[A] = IF A = {} THEN 0 ELSE f[First(A)] + g[Rest(A)]
<1> DEFINE e(B) == IF B = {} THEN 0 ELSE f[First(B)] + g[Rest(B)]
<1>1. g = [B \in SUBSET S |-> e(B)]
  BY DEF Adds
<1> HIDE DEF e
<1>2. g[A] = e(A)
  BY <1>1
<1>3. QED
  BY <1>2 DEF e

LEMMA AddsAgree ==
    ASSUME NEW f, NEW S, NEW T, NEW g, NEW h, Adds(f, S, g), Adds(f, T, h),
           NEW A \in SUBSET S, A \in SUBSET T, IsFiniteSet(A)
    PROVE  g[A] = h[A]
<1> DEFINE F == {B \in SUBSET A : g[B] = h[B]}
<1>1. ASSUME NEW B \in SUBSET A, \A C \in SUBSET B : C # B => C \in F
      PROVE  B \in F
  <2>1. g[B] = IF B = {} THEN 0 ELSE f[First(B)] + g[Rest(B)]
    BY AddsTo
  <2>2. h[B] = IF B = {} THEN 0 ELSE f[First(B)] + h[Rest(B)]
    BY AddsTo
  <2>3. B # {} => g[Rest(B)] = h[Rest(B)]
    BY <1>1, FirstIn
  <2>4. g[B] = h[B]
    BY <2>1, <2>2, <2>3
  <2>5. QED
    BY <2>4
<1> HIDE DEF F
<1>2. \A B \in SUBSET A : B \in F
  BY <1>1, SubsetInduction
<1>3. QED
  BY <1>2 DEF F

LEMMA AddsExists ==
    ASSUME NEW f, NEW S, IsFiniteSet(S)
    PROVE  \E g : Adds(f, S, g)
<1> DEFINE F == {A \in SUBSET S : \E g : Adds(f, A, g)}
<1>1. ASSUME NEW A \in SUBSET S, \A B \in SUBSET A : B # A => B \in F
      PROVE  A \in F
  <2> DEFINE G(B) == CHOOSE g : Adds(f, B, g)
             V(B) == IF B = {} THEN 0 ELSE f[First(B)] + G(Rest(B))[Rest(B)]
             h == [B \in SUBSET A |-> V(B)]
  <2>1. \A B \in SUBSET A : B # A => Adds(f, B, G(B))
    BY <1>1
  <2>2. \A B \in SUBSET A : IsFiniteSet(B)
    BY FS_Subset
  <2> HIDE DEF G
  <2>3. ASSUME NEW B \in SUBSET A, B # {}
        PROVE  h[Rest(B)] = G(Rest(B))[Rest(B)]
    <3> DEFINE C == Rest(B)
    <3>1. C \in SUBSET A /\ C # A
      BY <2>3, FirstIn
    <3>2. Adds(f, C, G(C))
      BY <2>1, <3>1
    <3>3. G(C)[C] = IF C = {} THEN 0 ELSE f[First(C)] + G(C)[Rest(C)]
      BY <3>2, AddsTo
    <3>4. CASE C = {}
      BY <3>1, <3>3, <3>4
    <3>5. CASE C # {}
      <4>1. Rest(C) \in SUBSET C /\ Rest(C) \in SUBSET A /\ Rest(C) # A
        BY <3>1, <3>5, FirstIn
      <4>2. Adds(f, Rest(C), G(Rest(C)))
        BY <2>1, <4>1
      <4>3. IsFiniteSet(Rest(C))
        BY <2>2, <4>1
      <4>4. G(C)[Rest(C)] = G(Rest(C))[Rest(C)]
        BY <3>2, <4>1, <4>2, <4>3, AddsAgree
      <4>5. h[C] = V(C)
        BY <3>1
      <4>6. QED
        BY <3>3, <3>5, <4>4, <4>5
    <3>6. QED
      BY <3>4, <3>5
  <2> DEFINE W(B) == IF B = {} THEN 0 ELSE f[First(B)] + h[Rest(B)]
  <2>4. \A B \in SUBSET A : V(B) = W(B)
    BY <2>3
  <2>5. h = [B \in SUBSET A |-> W(B)]
    <3> HIDE DEF W, V
    <3>1. QED
      BY <2>4
  <2>6. Adds(f, A, h)
    BY <2>5 DEF Adds
  <2>7. QED
    BY <2>6
<1> HIDE DEF F
<1>2. \A A \in SUBSET S : A \in F
  BY <1>1, SubsetInduction
<1>3. QED
  BY <1>2 DEF F

(* A sum under another mapping that is the same on the set. *)
LEMMA SumIs ==
    ASSUME NEW f, NEW S, IsFiniteSet(S), NEW g, Adds(f, S, g)
    PROVE  SumOver(f, S) = g[S]
<1> DEFINE h == CHOOSE h : h = [A \in SUBSET S |-> IF A = {} THEN 0
                     ELSE f[CHOOSE x \in A : TRUE] + h[A \ {CHOOSE x \in A : TRUE}]]
<1>1. SumOver(f, S) = h[S]
  BY DEF SumOver, MapThenSumSet, MapThenFoldSet
<1>2. h = CHOOSE k : Adds(f, S, k)
  BY DEF Adds, First, Rest
<1> HIDE DEF h
<1>3. Adds(f, S, h)
  BY <1>2
<1>4. QED
  BY <1>1, <1>3, AddsAgree
-----------------------------------------------------------------------------
LEMMA SumEmpty == \A f : SumOver(f, {}) = 0
<1> SUFFICES ASSUME NEW f PROVE SumOver(f, {}) = 0
  OBVIOUS
<1>1. PICK g : Adds(f, {}, g)
  BY FS_EmptySet, AddsExists
<1>2. g[{}] = 0
  BY <1>1, AddsTo
<1>3. QED
  BY <1>1, <1>2, FS_EmptySet, SumIs

LEMMA SumFirst ==
    ASSUME NEW f, NEW S, IsFiniteSet(S), S # {}
    PROVE  SumOver(f, S) = f[First(S)] + SumOver(f, Rest(S))
<1>1. PICK g : Adds(f, S, g)
  BY AddsExists
<1>2. Rest(S) \in SUBSET S /\ IsFiniteSet(Rest(S))
  BY FirstIn, FS_Subset
<1>3. PICK h : Adds(f, Rest(S), h)
  BY <1>2, AddsExists
<1>4. g[Rest(S)] = h[Rest(S)]
  BY <1>1, <1>2, <1>3, AddsAgree
<1>5. SumOver(f, S) = g[S] /\ SumOver(f, Rest(S)) = h[Rest(S)]
  BY <1>1, <1>2, <1>3, SumIs
<1>6. g[S] = f[First(S)] + g[Rest(S)]
  BY <1>1, AddsTo
<1>7. QED
  BY <1>4, <1>5, <1>6

LEMMA SumInt ==
    ASSUME NEW f, NEW S, IsFiniteSet(S), \A x \in S : f[x] \in Int
    PROVE  SumOver(f, S) \in Int
<1> DEFINE F == {A \in SUBSET S : SumOver(f, A) \in Int}
<1>1. ASSUME NEW A \in SUBSET S, \A B \in SUBSET A : B # A => B \in F
      PROVE  A \in F
  <2>1. CASE A = {}
    BY <2>1, SumEmpty
  <2>2. CASE A # {}
    <3>1. SumOver(f, A) = f[First(A)] + SumOver(f, Rest(A))
      BY <2>2, SumFirst, FS_Subset
    <3>2. SumOver(f, Rest(A)) \in Int /\ f[First(A)] \in Int
      BY <1>1, <2>2, FirstIn
    <3>3. QED
      BY <3>1, <3>2
  <2>3. QED
    BY <2>1, <2>2
<1> HIDE DEF F
<1>2. S \in F
  BY <1>1, SubsetInduction
<1>3. QED
  BY <1>2 DEF F

(* Any element may be taken out. *)
LEMMA SumTakes ==
    ASSUME NEW f, NEW S, IsFiniteSet(S), \A x \in S : f[x] \in Int, NEW x \in S
    PROVE  SumOver(f, S) = f[x] + SumOver(f, S \ {x})
<1> DEFINE F == {A \in SUBSET S : \A y \in A : SumOver(f, A) = f[y] + SumOver(f, A \ {y})}
<1>1. \A A \in SUBSET S : IsFiniteSet(A) /\ SumOver(f, A) \in Int
  BY FS_Subset, SumInt
<1>2. ASSUME NEW A \in SUBSET S, \A B \in SUBSET A : B # A => B \in F
      PROVE  A \in F
  <2> SUFFICES ASSUME NEW y \in A PROVE SumOver(f, A) = f[y] + SumOver(f, A \ {y})
    OBVIOUS
  <2> DEFINE z == First(A)
  <2>1. z \in A /\ z \in S /\ y \in S /\ Rest(A) = A \ {z} /\ Rest(A) \in SUBSET A /\ Rest(A) # A
    BY FirstIn DEF Rest
  <2>2. SumOver(f, A) = f[z] + SumOver(f, A \ {z})
    BY <1>1, <2>1, SumFirst
  <2> HIDE DEF z
  <2>3. CASE y = z
    BY <2>2, <2>3
  <2>4. CASE y # z
    <3> DEFINE B == A \ {z}
               C == A \ {y}
    <3>1. B \in F /\ y \in B
      BY <1>2, <2>1, <2>4
    <3>2. C \in F /\ z \in C
      BY <1>2, <2>1, <2>4
    <3>3. B \ {y} = C \ {z}
      OBVIOUS
    <3>4. SumOver(f, B) = f[y] + SumOver(f, B \ {y})
      BY <3>1
    <3>5. SumOver(f, C) = f[z] + SumOver(f, C \ {z})
      BY <3>2
    <3>6. SumOver(f, B \ {y}) \in Int /\ f[y] \in Int /\ f[z] \in Int
      BY <1>1, <2>1
    <3>7. SumOver(f, A) = f[z] + SumOver(f, B)
      BY <2>2
    <3>8. PICK d \in Int, u \in Int, v \in Int :
            d = SumOver(f, B \ {y}) /\ u = f[y] /\ v = f[z]
      BY <3>6
    <3>9. SumOver(f, A) = v + (u + d) /\ SumOver(f, C) = v + d
      BY <3>3, <3>4, <3>5, <3>7, <3>8
    <3>10. v + (u + d) = u + (v + d)
      BY <3>8
    <3>11. SumOver(f, A) = u + SumOver(f, C)
      BY <3>9, <3>10
    <3>12. QED
      BY <3>8, <3>11
  <2>5. QED
    BY <2>3, <2>4
<1> HIDE DEF F
<1>3. S \in F
  BY <1>2, SubsetInduction
<1>4. QED
  BY <1>3 DEF F

(* What the sum of the other elements is, once one is added. *)
LEMMA SumPuts ==
    ASSUME NEW f, NEW S, IsFiniteSet(S), NEW x, x \notin S,
           \A y \in S \cup {x} : f[y] \in Int
    PROVE  SumOver(f, S \cup {x}) = f[x] + SumOver(f, S)
<1>1. IsFiniteSet(S \cup {x}) /\ (S \cup {x}) \ {x} = S
  BY FS_AddElement
<1>2. QED
  BY <1>1, SumTakes

(* The sum follows its elements: b is injective on S and f is the g of b. *)
LEMMA SumFollows ==
    ASSUME NEW f, NEW g, NEW b, NEW S, IsFiniteSet(S), \A x \in S : f[x] \in Int,
           \A x \in S : f[x] = g[b[x]],
           \A x, y \in S : b[x] = b[y] => x = y
    PROVE  IsFiniteSet({b[x] : x \in S}) /\ SumOver(f, S) = SumOver(g, {b[x] : x \in S})
<1> DEFINE Img(A) == {b[x] : x \in A}
           F == {A \in SUBSET S : IsFiniteSet(Img(A)) /\ SumOver(f, A) = SumOver(g, Img(A))}
<1>1. ASSUME NEW A \in SUBSET S, \A B \in SUBSET A : B # A => B \in F
      PROVE  A \in F
  <2>1. CASE A = {}
    <3>1. Img(A) = {}
      BY <2>1
    <3>2. QED
      BY <2>1, <3>1, SumEmpty, FS_EmptySet
  <2>2. CASE A # {}
    <3>1. PICK x \in A : TRUE
      BY <2>2
    <3> DEFINE B == A \ {x}
    <3>2. B \in F
      BY <1>1, <3>1
    <3>3. IsFiniteSet(Img(B)) /\ SumOver(f, B) = SumOver(g, Img(B))
      BY <3>2
    <3>4. Img(A) = Img(B) \cup {b[x]} /\ b[x] \notin Img(B)
      BY <3>1
    <3>5. IsFiniteSet(A) /\ \A y \in A : f[y] \in Int
      BY FS_Subset
    <3>6. SumOver(f, A) = f[x] + SumOver(f, B)
      BY <3>1, <3>5, SumTakes
    <3>7. \A y \in Img(B) \cup {b[x]} : g[y] \in Int
      BY <3>1, <3>5
    <3> HIDE DEF Img, B
    <3>8. SumOver(g, Img(A)) = g[b[x]] + SumOver(g, Img(B))
      BY <3>3, <3>4, <3>7, SumPuts
    <3>9. IsFiniteSet(Img(A))
      BY <3>3, <3>4, FS_AddElement
    <3>10. f[x] = g[b[x]]
      BY <3>1
    <3>11. QED
      BY <3>3, <3>6, <3>8, <3>9, <3>10
  <2>3. QED
    BY <2>1, <2>2
<1> HIDE DEF F
<1>2. S \in F
  BY <1>1, SubsetInduction
<1>3. QED
  BY <1>2 DEF F

LEMMA SumSame ==
    ASSUME NEW f, NEW g, NEW S, IsFiniteSet(S), \A x \in S : f[x] = g[x]
    PROVE  SumOver(f, S) = SumOver(g, S)
<1> DEFINE F == {A \in SUBSET S : SumOver(f, A) = SumOver(g, A)}
<1>1. ASSUME NEW A \in SUBSET S, \A B \in SUBSET A : B # A => B \in F
      PROVE  A \in F
  <2>1. CASE A = {}
    BY <2>1, SumEmpty
  <2>2. CASE A # {}
    <3>1. IsFiniteSet(A)
      BY FS_Subset
    <3>2. SumOver(f, A) = f[First(A)] + SumOver(f, Rest(A))
      BY <2>2, <3>1, SumFirst
    <3>3. SumOver(g, A) = g[First(A)] + SumOver(g, Rest(A))
      BY <2>2, <3>1, SumFirst
    <3>4. SumOver(f, Rest(A)) = SumOver(g, Rest(A)) /\ f[First(A)] = g[First(A)]
      BY <1>1, <2>2, FirstIn
    <3>5. QED
      BY <3>2, <3>3, <3>4
  <2>3. QED
    BY <2>1, <2>2
<1> HIDE DEF F
<1>2. S \in F
  BY <1>1, SubsetInduction
<1>3. QED
  BY <1>2 DEF F
(* Two sets without a common member. *)
LEMMA SumUnion ==
    ASSUME NEW f, NEW S, IsFiniteSet(S), \A x \in S : f[x] \in Int,
           NEW A, NEW B, A \cup B = S, A \cap B = {}
    PROVE  SumOver(f, S) = SumOver(f, A) + SumOver(f, B)
<1> DEFINE F == {C \in SUBSET A : SumOver(f, C \cup B) = SumOver(f, C) + SumOver(f, B)}
<1>1. \A D \in SUBSET S : IsFiniteSet(D) /\ SumOver(f, D) \in Int
  BY FS_Subset, SumInt
<1>2. ASSUME NEW C \in SUBSET A, \A D \in SUBSET C : D # C => D \in F
      PROVE  C \in F
  <2>1. CASE C = {}
    <3>1. SumOver(f, C) = 0 /\ SumOver(f, B) \in Int
      BY <1>1, <2>1, SumEmpty
    <3>2. SumOver(f, C \cup B) = SumOver(f, B)
      <4>1. PICK U : U = C \cup B
        OBVIOUS
      <4>2. U = B
        BY <2>1, <4>1
      <4>3. QED
        BY <4>1, <4>2, Zenon
    <3>3. SumOver(f, C \cup B) = SumOver(f, C) + SumOver(f, B)
      BY <3>1, <3>2
    <3>4. QED
      BY <3>3
  <2>2. CASE C # {}
    <3>1. PICK x \in C : TRUE
      BY <2>2
    <3>2. C \ {x} \in F
      BY <1>2, <3>1
    <3>3. SumOver(f, (C \ {x}) \cup B) = SumOver(f, C \ {x}) + SumOver(f, B)
      BY <3>2
    <3>4. /\ IsFiniteSet(C) /\ IsFiniteSet(C \cup B) /\ C \cup B \in SUBSET S
          /\ \A y \in C : f[y] \in Int
          /\ \A y \in C \cup B : f[y] \in Int
      BY <1>1
    <3>5. SumOver(f, C) = f[x] + SumOver(f, C \ {x})
      BY <3>1, <3>4, SumTakes
    <3>6. SumOver(f, C \cup B) = f[x] + SumOver(f, (C \cup B) \ {x})
      BY <3>1, <3>4, SumTakes
    <3>7. (C \cup B) \ {x} = (C \ {x}) \cup B
      BY <3>1
    <3>8. SumOver(f, C \ {x}) \in Int /\ SumOver(f, B) \in Int /\ f[x] \in Int
      BY <1>1, <3>1
    <3>9. SumOver(f, (C \cup B) \ {x}) = SumOver(f, (C \ {x}) \cup B)
      BY <3>7, Zenon
    <3>10. SumOver(f, C \cup B) = SumOver(f, C) + SumOver(f, B)
      BY <3>3, <3>5, <3>6, <3>8, <3>9
    <3>11. QED
      BY <3>10
  <2>3. QED
    BY <2>1, <2>2
<1>3. IsFiniteSet(A)
  BY <1>1
<1> HIDE DEF F
<1>4. \A C \in SUBSET A : C \in F
  BY <1>2, <1>3, SubsetInduction
<1>5. A \in F
  BY <1>4
<1>6. QED
  BY <1>5 DEF F

(* The opposites of all summands. *)
LEMMA SumOpposite ==
    ASSUME NEW f, NEW g, NEW S, IsFiniteSet(S), \A x \in S : f[x] \in Int,
           \A x \in S : g[x] = -f[x]
    PROVE  SumOver(g, S) = -SumOver(f, S)
<1> DEFINE F == {A \in SUBSET S : SumOver(g, A) = -SumOver(f, A)}
<1>1. \A A \in SUBSET S : IsFiniteSet(A) /\ SumOver(f, A) \in Int
  BY FS_Subset, SumInt
<1>2. ASSUME NEW A \in SUBSET S, \A B \in SUBSET A : B # A => B \in F
      PROVE  A \in F
  <2>1. CASE A = {}
    BY <2>1, SumEmpty
  <2>2. CASE A # {}
    <3>1. Rest(A) \in F /\ First(A) \in S /\ Rest(A) \in SUBSET S
      BY <1>2, <2>2, FirstIn
    <3>2. /\ SumOver(f, A) = f[First(A)] + SumOver(f, Rest(A))
          /\ SumOver(g, A) = g[First(A)] + SumOver(g, Rest(A))
      BY <1>1, <2>2, SumFirst
    <3>3. /\ SumOver(g, Rest(A)) = -SumOver(f, Rest(A)) /\ g[First(A)] = -f[First(A)]
          /\ f[First(A)] \in Int /\ SumOver(f, Rest(A)) \in Int
      BY <1>1, <3>1
    <3>4. QED
      BY <3>2, <3>3
  <2>3. QED
    BY <2>1, <2>2
<1> HIDE DEF F
<1>3. \A A \in SUBSET S : A \in F
  BY <1>2, SubsetInduction
<1>4. S \in F
  BY <1>3
<1>5. QED
  BY <1>4 DEF F
(* A sum of differences. *)
LEMMA SumLess ==
    ASSUME NEW f, NEW g, NEW h, NEW S, IsFiniteSet(S), \A x \in S : f[x] \in Int /\ g[x] \in Int,
           \A x \in S : h[x] = f[x] - g[x]
    PROVE  SumOver(h, S) = SumOver(f, S) - SumOver(g, S)
<1> DEFINE F == {A \in SUBSET S : SumOver(h, A) = SumOver(f, A) - SumOver(g, A)}
<1>1. ASSUME NEW A \in SUBSET S, \A B \in SUBSET A : B # A => B \in F
      PROVE  A \in F
  <2>1. CASE A = {}
    BY <2>1, SumEmpty
  <2>2. CASE A # {}
    <3>1. PICK x, B : x = First(A) /\ B = Rest(A)
      OBVIOUS
    <3>2. x \in A /\ B \subseteq A /\ B # A /\ IsFiniteSet(A) /\ IsFiniteSet(B)
      BY <2>2, <3>1, FirstIn, FS_Subset
    <3>3. /\ SumOver(f, A) = f[x] + SumOver(f, B)
          /\ SumOver(g, A) = g[x] + SumOver(g, B)
          /\ SumOver(h, A) = h[x] + SumOver(h, B)
      BY <2>2, <3>1, <3>2, SumFirst
    <3>4. SumOver(f, B) \in Int /\ SumOver(g, B) \in Int
      BY <3>2, SumInt
    <3>5. SumOver(h, B) = SumOver(f, B) - SumOver(g, B)
      BY <1>1, <3>2
    <3>6. h[x] = f[x] - g[x] /\ f[x] \in Int /\ g[x] \in Int
      BY <3>2
    <3>7. SumOver(h, A) = SumOver(f, A) - SumOver(g, A)
      BY <3>3, <3>4, <3>5, <3>6
    <3>8. QED
      BY <3>7
  <2>3. QED
    BY <2>1, <2>2
<1> HIDE DEF F
<1>2. S \in F
  BY <1>1, SubsetInduction
<1>3. QED
  BY <1>2 DEF F

(* A sum may be taken class by class. *)
LEMMA SumClasses ==
    ASSUME NEW f, NEW S, IsFiniteSet(S), \A x \in S : f[x] \in Int,
           NEW T, IsFiniteSet(T), NEW class, \A x \in S : class[x] \in T,
           NEW part, \A t \in T : \A x : x \in part[t] <=> x \in S /\ class[x] = t,
           NEW g, \A t \in T : g[t] = SumOver(f, part[t])
    PROVE  SumOver(g, T) = SumOver(f, S)
<1> DEFINE Of(A) == {x \in S : class[x] \in A}
           F == {A \in SUBSET T : SumOver(g, A) = SumOver(f, Of(A))}
<1>1. ASSUME NEW A \in SUBSET T, \A B \in SUBSET A : B # A => B \in F
      PROVE  A \in F
  <2>1. CASE A = {}
    <3>1. Of({}) = {}
      OBVIOUS
    <3>2. QED
      BY <2>1, <3>1, SumEmpty
  <2>2. CASE A # {}
    <3>1. PICK t, B : t = First(A) /\ B = Rest(A)
      OBVIOUS
    <3>2. t \in A /\ t \in T /\ B \subseteq A /\ B # A /\ IsFiniteSet(A) /\ B = A \ {t}
      BY <2>2, <3>1, FirstIn, FS_Subset DEF Rest
    <3>3. SumOver(g, A) = g[t] + SumOver(g, B)
      <4>1. SumOver(g, A) = g[First(A)] + SumOver(g, Rest(A))
        BY <2>2, <3>2, SumFirst
      <4> HIDE DEF First, Rest
      <4>2. QED
        BY <3>1, <4>1
    <3>4. PICK X, Y, Z : X = part[t] /\ Y = Of(B) /\ Z = Of(A)
      OBVIOUS
    <3>5. X \cup Y = Z /\ X \cap Y = {} /\ Z \subseteq S
      BY <3>2, <3>4
    <3>6. IsFiniteSet(Z) /\ \A x \in Z : f[x] \in Int
      BY <3>5, FS_Subset
    <3>7. SumOver(f, Z) = SumOver(f, X) + SumOver(f, Y)
      BY <3>5, <3>6, SumUnion
    <3>8. g[t] = SumOver(f, X)
      BY <3>2, <3>4
    <3>9. SumOver(g, B) = SumOver(f, Y)
      BY <1>1, <3>2, <3>4
    <3>10. SumOver(g, A) = SumOver(f, Z)
      BY <3>3, <3>7, <3>8, <3>9
    <3>11. QED
      BY <3>4, <3>10
  <2>3. QED
    BY <2>1, <2>2
<1> HIDE DEF F
<1>2. T \in F
  BY <1>1, SubsetInduction
<1>3. Of(T) = S
  OBVIOUS
<1>4. QED
  BY <1>2, <1>3 DEF F
-----------------------------------------------------------------------------
(* Functions defined level by level, f[n] from f[n - 1], for n in 0..N:    *)
(* what holds at 0 and passes from a level to the next holds at every one. *)
LEMMA LevelInduction ==
    ASSUME NEW N \in Nat, NEW F, 0 \in F,
           \A n \in 1..N : n - 1 \in F => n \in F
    PROVE  \A n \in 0..N : n \in F
<1> DEFINE T == (0..N) \ F
<1>1. CASE T = {}
  BY <1>1
<1>2. CASE T # {}
  <2>0. T \subseteq Nat
    OBVIOUS
  <2>1. PICK n \in T : \A m \in T : n <= m
    BY <1>2, <2>0, LeastNatural
  <2>2. n \in 1..N /\ n - 1 \in 0..N /\ ~(n <= n - 1)
    BY <2>1
  <2>3. n - 1 \in F
    BY <2>1, <2>2
  <2>4. QED
    BY <2>1, <2>2, <2>3
<1>3. QED
  BY <1>1, <1>2

(* The sets reached from a along R in at most n steps. *)
Reaches(f, N, a, R) ==
    f = [n \in 0..N |-> IF n = 0 THEN {a}
                        ELSE {a} \cup {e[2] : e \in {d \in R : d[1] \in f[n - 1]}}]

LEMMA ReachesIs ==
    ASSUME NEW N \in Nat, NEW a, NEW R, NEW f, Reaches(f, N, a, R)
    PROVE  /\ f[0] = {a}
           /\ \A n \in 1..N :
                f[n] = {a} \cup {e[2] : e \in {d \in R : d[1] \in f[n - 1]}}
<1> DEFINE v(n) == IF n = 0 THEN {a}
                   ELSE {a} \cup {e[2] : e \in {d \in R : d[1] \in f[n - 1]}}
<1>1. f = [n \in 0..N |-> v(n)]
  BY DEF Reaches
<1> HIDE DEF v
<1>2. \A n \in 0..N : f[n] = v(n)
  BY <1>1
<1>3. 0 \in 0..N /\ \A n \in 1..N : n \in 0..N /\ n # 0
  OBVIOUS
<1>4. QED
  BY <1>2, <1>3 DEF v

LEMMA ReachesExists ==
    ASSUME NEW N \in Nat, NEW a, NEW R
    PROVE  \E f : Reaches(f, N, a, R)
<1> DEFINE F == {n \in 0..N : \E f : Reaches(f, n, a, R)}
           step(S) == {a} \cup {e[2] : e \in {d \in R : d[1] \in S}}
<1>1. 0 \in F
  <2> DEFINE f == [n \in 0..0 |-> {a}]
             v(n) == IF n = 0 THEN {a} ELSE step(f[n - 1])
  <2>1. \A n \in 0..0 : v(n) = {a}
    OBVIOUS
  <2> HIDE DEF v
  <2>2. f = [n \in 0..0 |-> v(n)]
    BY <2>1
  <2>3. Reaches(f, 0, a, R)
    BY <2>2 DEF Reaches, v
  <2>4. QED
    BY <2>3
<1>2. ASSUME NEW n \in 1..N, n - 1 \in F PROVE n \in F
  <2>1. PICK g : Reaches(g, n - 1, a, R)
    BY <1>2
  <2>2. g[0] = {a} /\ \A k \in 1..(n - 1) : g[k] = step(g[k - 1])
    BY <2>1, ReachesIs
  <2> DEFINE f == [k \in 0..n |-> IF k = n THEN step(g[n - 1]) ELSE g[k]]
             v(k) == IF k = 0 THEN {a} ELSE step(f[k - 1])
  <2> HIDE DEF step
  <2>3. ASSUME NEW k \in 0..n PROVE f[k] = v(k)
    <3>1. CASE k = 0
      BY <2>2, <3>1
    <3>2. CASE k # 0
      <4>1. k - 1 \in 0..n /\ k - 1 # n
        BY <3>2
      <4>2. f[k - 1] = g[k - 1]
        BY <4>1
      <4>3. f[k] = step(g[k - 1])
        BY <2>2, <3>2
      <4>4. QED
        BY <3>2, <4>2, <4>3
    <3>3. QED
      BY <3>1, <3>2
  <2>4. f = [k \in 0..n |-> v(k)]
    <3> HIDE DEF v
    <3>1. QED
      BY <2>3
  <2>5. Reaches(f, n, a, R)
    BY <2>4 DEF Reaches, step
  <2>6. QED
    BY <2>5
<1> HIDE DEF F
<1>3. N \in F
  BY <1>1, <1>2, LevelInduction
<1>4. QED
  BY <1>3 DEF F

(* With as many levels as there are elements to reach, the last level is   *)
(* the least set that holds a and is closed under R.                       *)
Along(R, S) == \A e \in R : e[1] \in S => e[2] \in S

LEMMA ReachesLeast ==
    ASSUME NEW N \in Nat, NEW a, NEW R, NEW f, Reaches(f, N, a, R),
           NEW S, a \in S, Along(R, S)
    PROVE  \A n \in 0..N : f[n] \subseteq S
<1> DEFINE F == {n \in 0..N : f[n] \subseteq S}
<1>1. f[0] = {a} /\ \A n \in 1..N :
          f[n] = {a} \cup {e[2] : e \in {d \in R : d[1] \in f[n - 1]}}
  BY ReachesIs
<1>2. 0 \in F
  BY <1>1
<1>3. \A n \in 1..N : n - 1 \in F => n \in F
  BY <1>1 DEF Along
<1> HIDE DEF F
<1>4. \A n \in 0..N : n \in F
  BY <1>2, <1>3, LevelInduction
<1>5. QED
  BY <1>4 DEF F

LEMMA ReachesClosed ==
    ASSUME NEW X, IsFiniteSet(X), NEW N \in Nat, Cardinality(X) <= N + 1, NEW a \in X,
           NEW R, \A e \in R : e[2] \in X, NEW f, Reaches(f, N, a, R)
    PROVE  /\ f[N] \subseteq X /\ a \in f[N] /\ Along(R, f[N])
           /\ \A S : a \in S /\ Along(R, S) => f[N] \subseteq S
<1> DEFINE step(S) == {a} \cup {e[2] : e \in {d \in R : d[1] \in S}}
           F == {n \in 0..N : \/ Along(R, f[n])
                              \/ Cardinality(f[n]) >= n + 1}
           G == {n \in 0..N : \A m \in 0..n : f[m] \subseteq f[n]}
<1>1. f[0] = {a} /\ \A n \in 1..N : f[n] = step(f[n - 1])
  BY ReachesIs
<1>2. \A n \in 0..N : f[n] \subseteq X
  BY ReachesLeast DEF Along
<1>3. \A n \in 0..N : a \in f[n]
  <2>1. ASSUME NEW n \in 0..N PROVE a \in f[n]
    <3>1. n = 0 \/ n \in 1..N
      OBVIOUS
    <3>2. QED
      BY <1>1, <3>1
  <2>2. QED
    BY <2>1
<1>4. \A n \in 0..N : IsFiniteSet(f[n]) /\ Cardinality(f[n]) \in Nat
  BY <1>2, FS_Subset, FS_CardinalityType
<1>5. ASSUME NEW n \in 1..N PROVE f[n - 1] \subseteq f[n]
  <2> DEFINE H == {k \in 0..N : k = 0 \/ f[k - 1] \subseteq f[k]}
  <2>1. 0 \in H
    OBVIOUS
  <2>2. ASSUME NEW k \in 1..N, k - 1 \in H PROVE k \in H
    <3>1. CASE k - 1 = 0
      BY <1>1, <3>1, <1>3
    <3>2. CASE k - 1 # 0
      <4>1. f[k] = step(f[k - 1]) /\ f[k - 1] = step(f[(k - 1) - 1])
        BY <1>1, <3>2
      <4>2. f[(k - 1) - 1] \subseteq f[k - 1]
        BY <2>2, <3>2
      <4>3. QED
        BY <4>1, <4>2
    <3>3. QED
      BY <3>1, <3>2
  <2> HIDE DEF H
  <2>3. n \in H
    BY <2>1, <2>2, LevelInduction
  <2>4. QED
    BY <2>3 DEF H
<1>6. ASSUME NEW n \in 1..N, n - 1 \in F PROVE n \in F
  <2>1. n - 1 \in 0..N /\ n \in 0..N
    OBVIOUS
  <2>2. PICK A, B : A = f[n - 1] /\ B = f[n]
    OBVIOUS
  <2>3. B = step(A) /\ a \in A /\ A \subseteq B
    BY <1>1, <1>3, <1>5, <2>1, <2>2
  <2>4. CASE A = B
    <3>1. Along(R, B)
      BY <2>3, <2>4 DEF Along
    <3>2. QED
      BY <2>1, <2>2, <3>1
  <2>5. CASE A # B
    <3>1. ~Along(R, A)
      BY <2>3, <2>5 DEF Along
    <3>2. Cardinality(A) >= (n - 1) + 1
      BY <1>6, <2>2, <3>1
    <3>3. IsFiniteSet(A) /\ IsFiniteSet(B) /\ Cardinality(A) \in Nat /\ Cardinality(B) \in Nat
      BY <1>4, <2>1, <2>2
    <3>4. Cardinality(A) < Cardinality(B)
      BY <2>3, <2>5, <3>3, FS_Subset
    <3>5. Cardinality(B) >= n + 1
      BY <3>2, <3>3, <3>4
    <3>6. QED
      BY <2>1, <2>2, <3>5
  <2>6. QED
    BY <2>4, <2>5
<1>7. 0 \in F
  <2>1. Cardinality({a}) = 1
    BY FS_Singleton
  <2>2. QED
    BY <1>1, <2>1
<1> HIDE DEF F
<1>8. N \in F
  BY <1>6, <1>7, LevelInduction
<1>9. Along(R, f[N])
  <2>1. CASE Cardinality(f[N]) >= N + 1
    <3>1. Cardinality(X) \in Nat /\ Cardinality(f[N]) \in Nat
      BY <1>4, FS_CardinalityType
    <3>2. Cardinality(f[N]) <= Cardinality(X)
      BY <1>2, FS_Subset
    <3>3. Cardinality(f[N]) = Cardinality(X)
      BY <2>1, <3>1, <3>2
    <3>4. f[N] = X
      BY <1>2, <3>3, FS_Subset
    <3>5. QED
      BY <3>4 DEF Along
  <2>2. QED
    BY <1>8, <2>1 DEF F
<1>10. QED
  BY <1>2, <1>3, <1>9, ReachesLeast
=============================================================================
