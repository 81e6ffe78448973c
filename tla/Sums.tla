-------------------------------- MODULE Sums --------------------------------
(***************************************************************************)
(* The sums MapThenSumSet makes of the amounts of finitely many rows: what *)
(* one more row adds, and that a sum is no less than the sum of a part.    *)
(* Each lemma holds of the smallest set it could fail for: least sizes     *)
(* stand in for induction, whose theorems take an operator as a parameter. *)
(***************************************************************************)
EXTENDS Integers, Functions, FiniteSetsExt, WellFoundedInduction, FiniteSetTheorems, TLAPS

Total(f, S) == MapThenSumSet(LAMBDA x : f[x].amount, S)

(* The function by which MapThenSumSet adds up.                            *)
First(s)      == CHOOSE x \in s : TRUE
Adds(g, f, S) == g = [s \in SUBSET S |-> IF s = {} THEN 0 ELSE f[First(s)].amount + g[s \ {First(s)}]]
Adder(f, S)   == CHOOSE g : Adds(g, f, S)

LEMMA FirstIn == ASSUME NEW s, s # {} PROVE First(s) \in s
  BY DEF First

(* Any numbers have a least one.                                           *)
LEMMA LeastNumber ==
  ASSUME NEW T, T \subseteq Nat, T # {}
  PROVE  \E n \in T : \A m \in T : n <= m
  <1>1. \E n \in T : \A m \in T : ~(<<m, n>> \in OpToRel(<, Nat))
    BY NatLessThanWellFounded, WFMin
  <1>2. PICK n \in T : \A m \in T : ~(<<m, n>> \in OpToRel(<, Nat))
    BY <1>1
  <1>3. \A m \in T : <<m, n>> \in Nat \X Nat /\ <<m, n>>[1] = m /\ <<m, n>>[2] = n
    OBVIOUS
  <1>4. \A m \in T : m < n => <<m, n>> \in OpToRel(<, Nat)
    BY <1>3 DEF OpToRel
  <1>5. \A m \in T : ~(m < n)
    BY <1>2, <1>4
  <1>6. QED
    BY <1>5

(* Induction over the subsets of a finite set: among those that lack a     *)
(* property, one has no subset but itself that lacks it.                   *)
LEMMA SmallestSubset ==
  ASSUME NEW S, IsFiniteSet(S), NEW Bad, Bad \subseteq SUBSET S, Bad # {}
  PROVE  \E s \in Bad : \A t \in Bad : t \subseteq s => t = s
  <1> DEFINE Sizes == {Cardinality(s) : s \in Bad}
  <1>1. \A s \in Bad : IsFiniteSet(s) /\ Cardinality(s) \in Nat
    BY FS_Subset, FS_CardinalityType
  <1>2. Sizes \subseteq Nat /\ Sizes # {}
    BY <1>1
  <1>3. PICK n \in Sizes : \A m \in Sizes : n <= m
    BY <1>2, LeastNumber
  <1>4. PICK s \in Bad : n = Cardinality(s)
    BY <1>3
  <1>5. ASSUME NEW t \in Bad, t \subseteq s, t # s PROVE FALSE
    <2>1. Cardinality(t) < Cardinality(s)
      BY <1>1, <1>5, FS_Subset
    <2>2. Cardinality(s) <= Cardinality(t)
      BY <1>3, <1>4
    <2>3. QED
      BY <1>1, <2>1, <2>2
  <1>6. QED
    BY <1>5

(* Whatever adds up two sets of rows agrees on the parts they share.       *)
LEMMA AdderUnique ==
  ASSUME NEW S, IsFiniteSet(S), NEW f, NEW g, Adds(g, f, S),
         NEW T, NEW e, NEW h, Adds(h, e, T),
         NEW u, u \subseteq S, u \subseteq T, \A x \in u : f[x].amount = e[x].amount
  PROVE  g[u] = h[u]
  <1> DEFINE Bad == {s \in SUBSET u : g[s] # h[s]}
  <1>1. ASSUME Bad # {} PROVE FALSE
    <2>1. IsFiniteSet(u)
      BY FS_Subset
    <2>2. PICK s \in Bad : \A t \in Bad : t \subseteq s => t = s
      <3>1. Bad \subseteq SUBSET u
        OBVIOUS
      <3> HIDE DEF Bad
      <3>2. QED
        BY <1>1, <2>1, <3>1, SmallestSubset
    <2>3. s \in SUBSET S /\ s \in SUBSET T /\ g[s] # h[s]
      OBVIOUS
    <2>4. s # {}
      BY <2>3 DEF Adds
    <2>5. First(s) \in s /\ s \ {First(s)} \in SUBSET u /\ s \ {First(s)} # s
      BY <2>4, FirstIn
    <2>6. g[s \ {First(s)}] = h[s \ {First(s)}]
      BY <2>2, <2>5
    <2>7. /\ g[s] = f[First(s)].amount + g[s \ {First(s)}]
          /\ h[s] = e[First(s)].amount + h[s \ {First(s)}]
      BY <2>3, <2>4 DEF Adds
    <2>8. QED
      BY <2>3, <2>5, <2>6, <2>7
  <1>2. QED
    BY <1>1

(* A sum is what its adder makes of the whole set.                         *)
LEMMA TotalIs == ASSUME NEW f, NEW S PROVE Total(f, S) = Adder(f, S)[S]
  BY DEF Total, MapThenSumSet, MapThenFoldSet, Adder, Adds, First

(* There is an adder for every finite set: f[First(s)] and the rest,       *)
(* added.                                                                  *)
LEMMA AdderExists ==
  ASSUME NEW f, NEW S, IsFiniteSet(S)
  PROVE  \A s \in SUBSET S : Adds(Adder(f, s), f, s)
  <1> DEFINE Bad == {s \in SUBSET S : ~Adds(Adder(f, s), f, s)}
  <1>1. ASSUME Bad # {} PROVE FALSE
    <2>2. PICK s \in Bad : \A t \in Bad : t \subseteq s => t = s
      <3>1. Bad \subseteq SUBSET S
        OBVIOUS
      <3> HIDE DEF Bad
      <3>2. QED
        BY <1>1, <3>1, SmallestSubset
    <2>3. \A t \in SUBSET s : t # s => Adds(Adder(f, t), f, t)
      BY <2>2
    <2> DEFINE Value(t) == IF t = {} THEN 0 ELSE f[First(t)].amount + Total(f, t \ {First(t)})
               g        == [t \in SUBSET s |-> Value(t)]
    <2>4. ASSUME NEW t \in SUBSET s, t # s PROVE Value(t) = Total(f, t)
      <3>1. Adds(Adder(f, t), f, t) /\ Total(f, t) = Adder(f, t)[t]
        BY <2>3, <2>4, TotalIs
      <3>2. CASE t = {}
        BY <3>1, <3>2 DEF Adds
      <3>3. CASE t # {}
        <4> DEFINE r == t \ {First(t)}
        <4>1. First(t) \in t /\ r \in SUBSET s /\ r # s /\ r \subseteq t
          BY <3>3, FirstIn
        <4>2. Adds(Adder(f, r), f, r) /\ Total(f, r) = Adder(f, r)[r] /\ IsFiniteSet(t)
          BY <2>3, <4>1, TotalIs, FS_Subset
        <4>3. Adder(f, r)[r] = Adder(f, t)[r]
          BY <3>1, <4>1, <4>2, AdderUnique
        <4>4. Adder(f, t)[t] = f[First(t)].amount + Adder(f, t)[r]
          BY <3>1, <3>3 DEF Adds
        <4>5. QED
          BY <3>1, <3>3, <4>2, <4>3, <4>4
      <3>4. QED
        BY <3>2, <3>3
    <2>5. ASSUME NEW t \in SUBSET s, t # {} PROVE g[t \ {First(t)}] = Total(f, t \ {First(t)})
      <3>1. t \ {First(t)} \in SUBSET s /\ t \ {First(t)} # s
        BY <2>5, FirstIn
      <3>2. QED
        BY <2>4, <3>1
    <2>6. Adds(g, f, s)
      BY <2>5 DEF Adds
    <2>7. Adds(Adder(f, s), f, s)
      BY <2>6 DEF Adder
    <2>8. QED
      BY <2>2, <2>7
  <1>2. QED
    BY <1>1

---------------------------------------------------------------------------
(* No rows sum to nothing.                                                 *)
LEMMA TotalEmpty == ASSUME NEW f PROVE Total(f, {}) = 0
  <1>1. Adds(Adder(f, {}), f, {})
    BY AdderExists, FS_EmptySet
  <1>2. Adder(f, {})[{}] = 0
    BY <1>1 DEF Adds
  <1>3. QED
    BY <1>2, TotalIs

(* A sum is the first row and the sum of the others.                       *)
LEMMA TotalFirst ==
  ASSUME NEW f, NEW S, IsFiniteSet(S), S # {}
  PROVE  Total(f, S) = f[First(S)].amount + Total(f, S \ {First(S)})
  <1> DEFINE T == S \ {First(S)}
  <1>1. First(S) \in S /\ T \subseteq S
    BY FirstIn
  <1>2. Adds(Adder(f, S), f, S) /\ Adds(Adder(f, T), f, T)
    BY <1>1, AdderExists
  <1>3. Adder(f, S)[T] = Adder(f, T)[T]
    BY <1>1, <1>2, AdderUnique
  <1>4. Adder(f, S)[S] = f[First(S)].amount + Adder(f, S)[T]
    BY <1>2 DEF Adds
  <1>5. QED
    BY <1>3, <1>4, TotalIs

(* Rows of equal amounts have equal sums.                                  *)
LEMMA TotalAgrees ==
  ASSUME NEW f, NEW e, NEW S, IsFiniteSet(S), \A x \in S : f[x].amount = e[x].amount
  PROVE  Total(f, S) = Total(e, S)
  <1>1. Adds(Adder(f, S), f, S) /\ Adds(Adder(e, S), e, S)
    BY AdderExists
  <1>2. QED
    BY <1>1, AdderUnique, TotalIs

(* A sum of natural numbers is one.                                        *)
LEMMA TotalNat ==
  ASSUME NEW f, NEW S, IsFiniteSet(S), \A x \in S : f[x].amount \in Nat
  PROVE  Total(f, S) \in Nat
  <1> DEFINE Bad == {s \in SUBSET S : Total(f, s) \notin Nat}
  <1>1. ASSUME Bad # {} PROVE FALSE
    <2>1. PICK s \in Bad : \A t \in Bad : t \subseteq s => t = s
      <3>1. Bad \subseteq SUBSET S
        OBVIOUS
      <3> HIDE DEF Bad
      <3>2. QED
        BY <1>1, <3>1, SmallestSubset
    <2>2. s # {} /\ IsFiniteSet(s)
      <3>1. Total(f, {}) \in Nat
        BY TotalEmpty
      <3>2. s # {}
        BY <3>1
      <3>3. QED
        BY <3>2, FS_Subset
    <2>3. First(s) \in s /\ s \ {First(s)} \in SUBSET S /\ s \ {First(s)} # s
      BY <2>2, FirstIn
    <2>4. Total(f, s \ {First(s)}) \in Nat
      BY <2>1, <2>3
    <2>5. QED
      BY <2>2, <2>3, <2>4, TotalFirst
  <1>2. QED
    BY <1>1

(* The order of the summands does not matter: any of them may come first.  *)
LEMMA TotalRemove ==
  ASSUME NEW f, NEW S, IsFiniteSet(S), \A x \in S : f[x].amount \in Nat, NEW x \in S
  PROVE  Total(f, S) = f[x].amount + Total(f, S \ {x})
  <1> DEFINE Bad == {s \in SUBSET S : \E y \in s : Total(f, s) # f[y].amount + Total(f, s \ {y})}
  <1>1. ASSUME Bad # {} PROVE FALSE
    <2>1. PICK s \in Bad : \A t \in Bad : t \subseteq s => t = s
      <3>1. Bad \subseteq SUBSET S
        OBVIOUS
      <3> HIDE DEF Bad
      <3>2. QED
        BY <1>1, <3>1, SmallestSubset
    <2>2. PICK y \in s : Total(f, s) # f[y].amount + Total(f, s \ {y})
      OBVIOUS
    <2> DEFINE c == First(s)
    <2>3. IsFiniteSet(s) /\ s # {} /\ c \in s /\ s \subseteq S
      BY FS_Subset, FirstIn
    <2>4. Total(f, s) = f[c].amount + Total(f, s \ {c})
      BY <2>3, TotalFirst
    <2> HIDE DEF c
    <2>5. y # c
      BY <2>2, <2>4
    <2>6. Total(f, s \ {c}) = f[y].amount + Total(f, (s \ {c}) \ {y})
      <3>1. s \ {c} \in SUBSET S /\ s \ {c} # s /\ y \in s \ {c} /\ s \ {c} \subseteq s
        BY <2>3, <2>5
      <3>2. s \ {c} \notin Bad
        BY <2>1, <3>1
      <3>3. QED
        BY <3>1, <3>2
    <2>7. Total(f, s \ {y}) = f[c].amount + Total(f, (s \ {y}) \ {c})
      <3>1. s \ {y} \in SUBSET S /\ s \ {y} # s /\ c \in s \ {y} /\ s \ {y} \subseteq s
        BY <2>3, <2>5
      <3>2. s \ {y} \notin Bad
        BY <2>1, <3>1
      <3>3. QED
        BY <3>1, <3>2
    <2>8. (s \ {y}) \ {c} = (s \ {c}) \ {y}
      OBVIOUS
    <2>9. Total(f, (s \ {c}) \ {y}) \in Nat /\ f[y].amount \in Nat /\ f[c].amount \in Nat
      <3>1. IsFiniteSet((s \ {c}) \ {y}) /\ (s \ {c}) \ {y} \subseteq S
        BY <2>3, FS_Subset
      <3>2. QED
        BY <2>3, <3>1, TotalNat
    <2>10. Total(f, s) = f[y].amount + (f[c].amount + Total(f, (s \ {c}) \ {y}))
      BY <2>4, <2>6, <2>9
    <2>11. QED
      BY <2>2, <2>7, <2>8, <2>10
  <1>2. S \in SUBSET S /\ S \notin Bad
    BY <1>1
  <1>3. QED
    BY <1>2

(* What one more row adds.                                                 *)
LEMMA TotalAdd ==
  ASSUME NEW f, NEW S, IsFiniteSet(S), \A y \in S : f[y].amount \in Nat, NEW x, x \notin S, f[x].amount \in Nat
  PROVE  Total(f, S \cup {x}) = Total(f, S) + f[x].amount
  <1>1. IsFiniteSet(S \cup {x}) /\ (S \cup {x}) \ {x} = S
    BY FS_AddElement
  <1>2. Total(f, S) \in Nat
    BY TotalNat
  <1>3. QED
    BY <1>1, <1>2, TotalRemove

(* A sum over disjoint sets.                                               *)
LEMMA TotalUnion ==
  ASSUME NEW f, NEW S, NEW T, IsFiniteSet(S), IsFiniteSet(T), S \cap T = {},
         \A x \in S \cup T : f[x].amount \in Nat
  PROVE  Total(f, S \cup T) = Total(f, S) + Total(f, T)
  <1> DEFINE Bad == {t \in SUBSET T : Total(f, S \cup t) # Total(f, S) + Total(f, t)}
  <1>0. Total(f, S) \in Nat
    BY TotalNat
  <1>1. ASSUME Bad # {} PROVE FALSE
    <2>1. PICK t \in Bad : \A s \in Bad : s \subseteq t => s = t
      <3>1. Bad \subseteq SUBSET T
        OBVIOUS
      <3> HIDE DEF Bad
      <3>2. QED
        BY <1>1, <3>1, SmallestSubset
    <2>2. t # {}
      <3>1. Total(f, {}) = 0 /\ S \cup {} = S
        BY TotalEmpty
      <3>2. Total(f, S \cup {}) = Total(f, S) + Total(f, {})
        BY <1>0, <3>1
      <3>3. QED
        BY <3>2
    <2>3. PICK x \in t : TRUE
      BY <2>2
    <2> DEFINE r == t \ {x}
    <2>4. r \in SUBSET T /\ r # t /\ r \subseteq t /\ IsFiniteSet(r) /\ IsFiniteSet(S \cup r)
          /\ x \notin r /\ x \notin S \cup r /\ t = r \cup {x} /\ S \cup t = (S \cup r) \cup {x}
      BY FS_Subset, FS_Union
    <2>5. Total(f, S \cup r) = Total(f, S) + Total(f, r)
      BY <2>1, <2>4
    <2>6. Total(f, S \cup t) = Total(f, S \cup r) + f[x].amount
      <3>1. f[x].amount \in Nat /\ \A y \in S \cup r : f[y].amount \in Nat
        BY <2>4
      <3>2. Total(f, (S \cup r) \cup {x}) = Total(f, S \cup r) + f[x].amount
        BY <2>4, <3>1, TotalAdd
      <3>3. QED
        BY <2>4, <3>2
    <2>7. Total(f, t) = Total(f, r) + f[x].amount /\ Total(f, r) \in Nat /\ f[x].amount \in Nat
      <3>1. f[x].amount \in Nat /\ \A y \in r : f[y].amount \in Nat
        BY <2>4
      <3>2. Total(f, r \cup {x}) = Total(f, r) + f[x].amount
        BY <2>4, <3>1, TotalAdd
      <3>3. Total(f, r) \in Nat
        BY <2>4, <3>1, TotalNat
      <3>4. QED
        BY <2>4, <3>1, <3>2, <3>3
    <2>8. QED
      BY <1>0, <2>5, <2>6, <2>7
  <1>2. T \in SUBSET T /\ T \notin Bad
    BY <1>1
  <1>3. QED
    BY <1>2

(* A part sums to no more than the whole.                                  *)
LEMMA TotalSubset ==
  ASSUME NEW f, NEW S, IsFiniteSet(S), \A x \in S : f[x].amount \in Nat, NEW T, T \subseteq S
  PROVE  Total(f, T) <= Total(f, S)
  <1>1. IsFiniteSet(T) /\ IsFiniteSet(S \ T) /\ S = T \cup (S \ T) /\ T \cap (S \ T) = {}
    BY FS_Subset
  <1>2. Total(f, S) = Total(f, T) + Total(f, S \ T)
    BY <1>1, TotalUnion
  <1>3. Total(f, T) \in Nat /\ Total(f, S \ T) \in Nat
    BY <1>1, TotalNat
  <1>4. QED
    BY <1>2, <1>3
---------------------------------------------------------------------------
(* The values of a function add up like the amounts of rows that hold      *)
(* them.                                                                   *)
RowsOf(fun) == [x \in DOMAIN fun |-> [amount |-> fun[x]]]

LEMMA SumFunctionIs ==
  ASSUME NEW fun, IsFiniteSet(DOMAIN fun)
  PROVE  SumFunction(fun) = Total(RowsOf(fun), DOMAIN fun)
  <1> DEFINE D == DOMAIN fun
             Sums(g) == g = [s \in SUBSET D |-> IF s = {} THEN 0 ELSE fun[First(s)] + g[s \ {First(s)}]]
  <1>1. ASSUME NEW s \in SUBSET D, s # {} PROVE RowsOf(fun)[First(s)].amount = fun[First(s)]
    BY <1>1, FirstIn DEF RowsOf
  <1>2. ASSUME NEW g PROVE Sums(g) <=> Adds(g, RowsOf(fun), D)
    <2> DEFINE one == [s \in SUBSET D |-> IF s = {} THEN 0 ELSE fun[First(s)] + g[s \ {First(s)}]]
               two == [s \in SUBSET D |-> IF s = {} THEN 0 ELSE RowsOf(fun)[First(s)].amount + g[s \ {First(s)}]]
    <2>1. one = two
      BY <1>1
    <2>2. QED
      BY <2>1 DEF Adds
  <1>3. \E g : Sums(g)
    BY <1>2, AdderExists
  <1>4. Sums(CHOOSE g : Sums(g))
    BY <1>3
  <1>5. SumFunction(fun) = (CHOOSE g : Sums(g))[D]
    BY DEF SumFunction, SumFunctionOnSet, FoldFunctionOnSet, MapThenFoldSet, First
  <1>6. Adds(Adder(RowsOf(fun), D), RowsOf(fun), D)
    BY AdderExists
  <1>7. (CHOOSE g : Sums(g))[D] = Adder(RowsOf(fun), D)[D]
    <2>1. Adds(CHOOSE g : Sums(g), RowsOf(fun), D)
      BY <1>2, <1>4
    <2> HIDE DEF Sums
    <2>2. QED
      BY <1>6, <2>1, AdderUnique
  <1>8. QED
    BY <1>5, <1>7, TotalIs

LEMMA SumFunctionNat ==
  ASSUME NEW S, IsFiniteSet(S), NEW fun \in [S -> Nat]
  PROVE  SumFunction(fun) \in Nat
  <1>1. \A x \in DOMAIN fun : RowsOf(fun)[x].amount \in Nat
    BY DEF RowsOf
  <1>2. QED
    BY <1>1, SumFunctionIs, TotalNat
=============================================================================
