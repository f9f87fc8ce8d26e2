------------------------------ MODULE SumLaws ------------------------------
(***************************************************************************)
(* The laws of SumFunctionOnSet for natural amounts over a finite domain:  *)
(* what the proofs about holds, debits and balances need to know of how    *)
(* amounts add up.  The sum folds over the set in an order that CHOOSE     *)
(* picks; the laws show that the order does not matter.  Every induction   *)
(* over a set is by a minimal counterexample, which is first-order.        *)
(***************************************************************************)
EXTENDS Naturals, Functions, FiniteSetTheorems, WellFoundedInduction, TLAPS

\* What the fold takes out first.
First(s) == CHOOSE x \in s : TRUE

\* The subsets of D with fewer than n elements.
Small(D, n) == {s \in SUBSET D : Cardinality(s) < n}

\* g sums fun on every set of the family F, in the order of the fold.
Sums(g, fun, F) ==
  \A s \in F :
    g[s] = IF s = {} THEN 0 ELSE fun[First(s)] + g[s \ {First(s)}]

\* The fold's own table of the sums of all subsets of S.
Table(fun, S) ==
  CHOOSE g : g = [s \in SUBSET S |->
    IF s = {} THEN 0 ELSE fun[First(s)] + g[s \ {First(s)}]]

-----------------------------------------------------------------------------
(* Induction by minimal counterexamples.                                   *)

LEMMA FirstIsIn == \A s : s # {} => First(s) \in s
  BY DEF First

\* A set of naturals that is not empty has a least member.
LEMMA LeastNatural ==
  ASSUME NEW N \in SUBSET Nat, N # {}
  PROVE  \E m \in N : \A n \in N : m <= n
PROOF
<1>1. PICK m \in N : \A n \in N : <<n, m>> \notin OpToRel(<, Nat)
  BY NatLessThanWellFounded, WFMin
<1>2. \A n \in N : ~(n < m)
  BY <1>1 DEF OpToRel
<1> QED
  BY <1>2

\* A family of subsets of a finite set that is not empty has a member none of
\* whose proper subsets is a member.
LEMMA MinimalSet ==
  ASSUME NEW D, IsFiniteSet(D), NEW F \in SUBSET (SUBSET D), F # {}
  PROVE  \E s \in F : \A t \in F : t \subseteq s => t = s
PROOF
<1>1. /\ F \subseteq FiniteSubsetsOf(D)
      /\ IsWellFoundedOn(StrictSubsetOrdering(D), FiniteSubsetsOf(D))
  BY FS_FiniteSubsetsOfFinite, FS_StrictSubsetOrderingWellFounded
<1>2. PICK s \in F : \A t \in F : <<t, s>> \notin StrictSubsetOrdering(D)
  BY <1>1, WFMin
<1> QED
  BY <1>2 DEF StrictSubsetOrdering

-----------------------------------------------------------------------------
(* The fold's table exists, and all tables agree.                          *)

LEMMA FoldIsTable ==
  ASSUME NEW fun, NEW S
  PROVE  SumFunctionOnSet(fun, S) = Table(fun, S)[S]
BY DEF SumFunctionOnSet, FoldFunctionOnSet, MapThenFoldSet, Table, First

\* Sums of all subsets with fewer than n elements, for every n: built from the
\* smaller ones up.
LEMMA SumsUpTo ==
  ASSUME NEW D, IsFiniteSet(D), NEW fun \in [D -> Nat], NEW n \in Nat
  PROVE  \E g \in [SUBSET D -> Nat] : Sums(g, fun, Small(D, n))
PROOF
<1> DEFINE F(i) == Small(D, i)
           Bad == {i \in Nat : ~\E g \in [SUBSET D -> Nat] : Sums(g, fun, F(i))}
<1>1. \A s \in SUBSET D : IsFiniteSet(s) /\ Cardinality(s) \in Nat
  BY FS_Subset, FS_CardinalityType
<1>2. SUFFICES ASSUME Bad # {}
               PROVE  FALSE
  OBVIOUS
<1>3. PICK m \in Bad : \A i \in Bad : m <= i
  <2>1. Bad \in SUBSET Nat
    OBVIOUS
  <2> HIDE DEF Bad
  <2> QED
    BY <1>2, <2>1, LeastNatural
<1>4. m # 0
  <2>1. F(0) = {}
    BY <1>1 DEF Small
  <2>2. [s \in SUBSET D |-> 0] \in [SUBSET D -> Nat]
    OBVIOUS
  <2>3. 0 \notin Bad
    BY <2>1, <2>2 DEF Sums
  <2> QED
    BY <2>3
<1>5. m - 1 \in Nat /\ m - 1 \notin Bad
  <2>1. m \in Nat /\ m # 0
    BY <1>4
  <2>2. m - 1 \in Nat /\ ~(m <= m - 1)
    BY <2>1
  <2> HIDE DEF Bad
  <2> QED
    BY <1>3, <2>2
<1>6. PICK g \in [SUBSET D -> Nat] : Sums(g, fun, F(m - 1))
  BY <1>5
<1> DEFINE h == [s \in SUBSET D |->
                   IF s = {} THEN 0
                   ELSE fun[First(s)] + g[s \ {First(s)}]]
<1>7. h \in [SUBSET D -> Nat]
  <2> SUFFICES ASSUME NEW s \in SUBSET D, s # {}
               PROVE  fun[First(s)] + g[s \ {First(s)}] \in Nat
    OBVIOUS
  <2>1. First(s) \in D /\ s \ {First(s)} \in SUBSET D
    BY FirstIsIn
  <2> QED
    BY <2>1, <1>6
<1>8. \A s \in F(m - 1) : h[s] = g[s]
  BY <1>6 DEF Sums, Small
<1>9. Sums(h, fun, F(m))
  <2> SUFFICES ASSUME NEW s \in F(m), s # {}
               PROVE  h[s] = fun[First(s)] + h[s \ {First(s)}]
    BY DEF Sums, Small
  <2>1. /\ s \in SUBSET D /\ First(s) \in s
        /\ Cardinality(s) < m
    BY FirstIsIn DEF Small
  <2>2. Cardinality(s \ {First(s)}) = Cardinality(s) - 1
    BY <1>1, <2>1, FS_RemoveElement
  <2>3. s \ {First(s)} \in F(m - 1)
    BY <1>1, <1>5, <2>1, <2>2 DEF Small
  <2> QED
    BY <1>8, <2>1, <2>3
<1> QED
  BY <1>3, <1>7, <1>9

LEMMA TableSums ==
  ASSUME NEW D, IsFiniteSet(D), NEW fun \in [D -> Nat], NEW S \in SUBSET D
  PROVE  Sums(Table(fun, S), fun, SUBSET S)
PROOF
<1>1. /\ IsFiniteSet(S) /\ Cardinality(S) + 1 \in Nat
      /\ \A s \in SUBSET S : /\ Cardinality(s) \in Nat
                             /\ Cardinality(s) < Cardinality(S) + 1
  BY FS_Subset, FS_CardinalityType
<1>2. PICK n \in Nat : n = Cardinality(S) + 1
  BY <1>1
<1>3. PICK g \in [SUBSET D -> Nat] : Sums(g, fun, Small(D, n))
  BY SumsUpTo
<1>4. Sums(g, fun, SUBSET S)
  BY <1>1, <1>2, <1>3 DEF Sums, Small
<1> DEFINE h == [s \in SUBSET S |-> g[s]]
           Eq(t) == t = [s \in SUBSET S |->
             IF s = {} THEN 0 ELSE fun[First(s)] + t[s \ {First(s)}]]
<1>5. Eq(h)
  <2>1. \A s \in SUBSET S : h[s] =
          IF s = {} THEN 0 ELSE fun[First(s)] + h[s \ {First(s)}]
    BY <1>4 DEF Sums
  <2> QED
    BY <2>1
<1>6. Eq(Table(fun, S))
  <2>1. \E t : Eq(t)
    BY <1>5
  <2> HIDE DEF h
  <2> QED
    BY <2>1 DEF Table
<1> QED
  BY <1>6 DEF Sums

\* The tables of two sets give a set below both the same sum.
LEMMA TablesAgree ==
  ASSUME NEW D, IsFiniteSet(D), NEW fun \in [D -> Nat],
         NEW S \in SUBSET D, NEW T \in SUBSET S
  PROVE  Table(fun, S)[T] = Table(fun, T)[T]
PROOF
<1> DEFINE g == Table(fun, S)
           h == Table(fun, T)
           Bad == {s \in SUBSET T : g[s] # h[s]}
<1>0. Sums(g, fun, SUBSET S) /\ Sums(h, fun, SUBSET T)
  BY TableSums
<1> HIDE DEF g, h
<1>1. SUFFICES ASSUME Bad # {}
               PROVE  FALSE
  BY DEF g, h
<1>2. Bad \in SUBSET (SUBSET D)
  OBVIOUS
<1>3. PICK s \in Bad : \A t \in Bad : t \subseteq s => t = s
  <2> HIDE DEF Bad
  <2> QED
    BY <1>1, <1>2, MinimalSet
<1>4. s # {}
  BY <1>0 DEF Sums
<1>5. First(s) \in s
  BY <1>4, FirstIsIn
<1>6. g[s \ {First(s)}] = h[s \ {First(s)}]
  BY <1>3, <1>5
<1> QED
  BY <1>0, <1>4, <1>6 DEF Sums

-----------------------------------------------------------------------------
(* The laws.                                                               *)

LEMMA SumEmpty ==
  ASSUME NEW D, IsFiniteSet(D), NEW fun \in [D -> Nat]
  PROVE  SumFunctionOnSet(fun, {}) = 0
PROOF
<1>1. {} \in SUBSET D
  OBVIOUS
<1>2. Sums(Table(fun, {}), fun, SUBSET {})
  BY <1>1, TableSums
<1> QED
  BY <1>2, FoldIsTable DEF Sums

\* The sum in the order of the fold.
LEMMA SumFirst ==
  ASSUME NEW D, IsFiniteSet(D), NEW fun \in [D -> Nat],
         NEW S \in SUBSET D, S # {}
  PROVE  SumFunctionOnSet(fun, S) =
           fun[First(S)] + SumFunctionOnSet(fun, S \ {First(S)})
PROOF
<1> DEFINE R == S \ {First(S)}
<1>1. Sums(Table(fun, S), fun, SUBSET S)
  BY TableSums
<1>2. Table(fun, S)[R] = Table(fun, R)[R]
  BY TablesAgree
<1>3. Table(fun, S)[S] = fun[First(S)] + Table(fun, S)[R]
  BY <1>1 DEF Sums
<1> QED
  BY <1>2, <1>3, FoldIsTable

LEMMA SumType ==
  ASSUME NEW D, IsFiniteSet(D), NEW fun \in [D -> Nat]
  PROVE  \A S \in SUBSET D : SumFunctionOnSet(fun, S) \in Nat
PROOF
<1> DEFINE Bad == {s \in SUBSET D : SumFunctionOnSet(fun, s) \notin Nat}
<1>1. SUFFICES ASSUME Bad # {}
               PROVE  FALSE
  OBVIOUS
<1>2. PICK s \in Bad : \A t \in Bad : t \subseteq s => t = s
  <2>1. Bad \in SUBSET (SUBSET D)
    OBVIOUS
  <2> HIDE DEF Bad
  <2> QED
    BY <1>1, <2>1, MinimalSet
<1>3. s # {}
  BY SumEmpty
<1>4. First(s) \in s
  BY <1>3, FirstIsIn
<1>5. SumFunctionOnSet(fun, s \ {First(s)}) \in Nat
  BY <1>2, <1>4
<1> QED
  BY <1>3, <1>4, <1>5, SumFirst

\* Any element may be taken out first.
LEMMA SumRemove ==
  ASSUME NEW D, IsFiniteSet(D), NEW fun \in [D -> Nat]
  PROVE  \A S \in SUBSET D : \A x \in S :
           SumFunctionOnSet(fun, S) = fun[x] + SumFunctionOnSet(fun, S \ {x})
PROOF
<1> DEFINE Sum(s) == SumFunctionOnSet(fun, s)
           Law(s) == \A x \in s : Sum(s) = fun[x] + Sum(s \ {x})
           Bad == {s \in SUBSET D : ~Law(s)}
<1>1. SUFFICES ASSUME Bad # {}
               PROVE  FALSE
  OBVIOUS
<1>2. PICK s \in Bad : \A t \in Bad : t \subseteq s => t = s
  <2>1. Bad \in SUBSET (SUBSET D)
    OBVIOUS
  <2> HIDE DEF Bad
  <2> QED
    BY <1>1, <2>1, MinimalSet
<1>3. PICK x \in s : Sum(s) # fun[x] + Sum(s \ {x})
  BY <1>2
<1> DEFINE c == First(s)
<1>4. c \in s /\ s \in SUBSET D
  BY <1>2, <1>3, FirstIsIn
<1>5. Sum(s) = fun[c] + Sum(s \ {c})
  BY <1>3, <1>4, SumFirst
<1>6. c # x
  BY <1>3, <1>5
<1>7. Law(s \ {c}) /\ Law(s \ {x})
  <2>1. /\ s \ {c} \in SUBSET D /\ s \ {c} # s
        /\ s \ {x} \in SUBSET D /\ s \ {x} # s
    BY <1>3, <1>4
  <2> HIDE DEF Law, c
  <2> QED
    BY <1>2, <2>1
<1>8. PICK R \in SUBSET D : R = (s \ {c}) \ {x} /\ R = (s \ {x}) \ {c}
  BY <1>4
<1>9. Sum(s \ {c}) = fun[x] + Sum(R)
  BY <1>3, <1>6, <1>7, <1>8
<1>10. Sum(s \ {x}) = fun[c] + Sum(R)
  BY <1>4, <1>6, <1>7, <1>8
<1>11. fun[c] \in Nat /\ fun[x] \in Nat /\ Sum(R) \in Nat
  <2> HIDE DEF c
  <2> QED
    BY <1>3, <1>4, <1>8, SumType
<1>12. Sum(s) = fun[x] + Sum(s \ {x})
  <2> HIDE DEF Sum, c, Law, Bad
  <2> QED
    BY <1>5, <1>9, <1>10, <1>11
<1> QED
  BY <1>3, <1>12

\* The sum of two sets without a common element.
LEMMA SumUnion ==
  ASSUME NEW D, IsFiniteSet(D), NEW fun \in [D -> Nat],
         NEW A \in SUBSET D, NEW B \in SUBSET D, A \cap B = {}
  PROVE  SumFunctionOnSet(fun, A \cup B) =
           SumFunctionOnSet(fun, A) + SumFunctionOnSet(fun, B)
PROOF
<1> DEFINE Sum(s) == SumFunctionOnSet(fun, s)
           Law(s) == Sum(A \cup s) = Sum(A) + Sum(s)
           Bad == {s \in SUBSET B : ~Law(s)}
<1>1. SUFFICES ASSUME Bad # {}
               PROVE  FALSE
  OBVIOUS
<1>2. PICK s \in Bad : \A t \in Bad : t \subseteq s => t = s
  <2>1. Bad \in SUBSET (SUBSET D)
    OBVIOUS
  <2> HIDE DEF Bad
  <2> QED
    BY <1>1, <2>1, MinimalSet
<1>3. s \in SUBSET D /\ ~Law(s)
  OBVIOUS
<1>4. \A t \in SUBSET D : Sum(t) \in Nat
  BY SumType
<1>5. s # {}
  <2>1. Sum({}) = 0 /\ A \cup {} = A /\ Sum(A) \in Nat
    BY <1>4, SumEmpty
  <2> HIDE DEF Sum
  <2>2. Law({})
    BY <2>1
  <2> QED
    BY <1>3, <2>2
<1>6. PICK x \in s : x \in D /\ x \notin A
  BY <1>5
<1>7. s \ {x} \in SUBSET D /\ A \cup s \in SUBSET D /\ fun[x] \in Nat
  BY <1>3, <1>6
<1>8. Law(s \ {x})
  <2>1. s \ {x} \in SUBSET B /\ s \ {x} # s
    BY <1>6
  <2> HIDE DEF Law
  <2> QED
    BY <1>2, <2>1
<1>9. Sum(s) = fun[x] + Sum(s \ {x})
  BY <1>3, <1>6, SumRemove
<1>10. Sum(A \cup s) = fun[x] + Sum(A \cup (s \ {x}))
  <2>1. (A \cup s) \ {x} = A \cup (s \ {x})
    BY <1>6
  <2>2. Sum(A \cup s) = fun[x] + Sum((A \cup s) \ {x})
    BY <1>6, <1>7, SumRemove
  <2> QED
    BY <2>1, <2>2
<1> HIDE DEF Sum
<1> QED
  BY <1>3, <1>4, <1>7, <1>8, <1>9, <1>10

\* More elements never sum to less.
LEMMA SumMonotonic ==
  ASSUME NEW D, IsFiniteSet(D), NEW fun \in [D -> Nat],
         NEW B \in SUBSET D, NEW A \in SUBSET B
  PROVE  SumFunctionOnSet(fun, A) <= SumFunctionOnSet(fun, B)
PROOF
<1>1. /\ A \in SUBSET D /\ B \ A \in SUBSET D
      /\ A \cap (B \ A) = {} /\ A \cup (B \ A) = B
  OBVIOUS
<1>2. SumFunctionOnSet(fun, A \cup (B \ A)) =
        SumFunctionOnSet(fun, A) + SumFunctionOnSet(fun, B \ A)
  BY <1>1, SumUnion
<1> QED
  BY <1>1, <1>2, SumType
=============================================================================
