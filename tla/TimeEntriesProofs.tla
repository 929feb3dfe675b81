--------------------------- MODULE TimeEntriesProofs ---------------------------
(***************************************************************************)
(* Lemmas about intervals and tables of entries: what cutting an interval   *)
(* around others and at local midnights leaves of it, what inserting,       *)
(* attesting, moving and deleting rows makes of a table, and what a fold    *)
(* and a sum over a finite set are.                                        *)
(***************************************************************************)
EXTENDS TimeEntries, FiniteSetTheorems, WellFoundedInduction, TLAPS

-----------------------------------------------------------------------------
(* Sets of naturals. *)

(* A set of naturals has a least element. *)
LEMMA LeastOf ==
  ASSUME NEW S, S \subseteq Nat, S # {}
  PROVE  \E m \in S : \A n \in S : m <= n
<1> DEFINE R == OpToRel(<, Nat)
<1>1. IsWellFoundedOn(R, Nat)
  BY NatLessThanWellFounded
<1>2. \A x, y \in Nat : x < y => <<x, y>> \in R
  BY DEF OpToRel
<1> HIDE DEF R
<1>3. PICK m \in S : \A n \in S : ~ (<<n, m>> \in R)
  BY <1>1, WFMin, Zenon
<1>4. ASSUME NEW n \in S PROVE m <= n
  <2>1. n \in Nat /\ m \in Nat /\ ~(n < m)
    BY <1>2, <1>3
  <2> QED BY <2>1
<1> QED
  BY <1>4

(* Above a natural, a set has a next element. *)
LEMMA NextAbove ==
  ASSUME NEW S, S \subseteq Nat, NEW x \in Nat, NEW b \in S, x < b
  PROVE  \E m \in S : x < m /\ \A n \in S : x < n => m <= n
<1> DEFINE T == {n \in S : x < n}
<1>1. T \subseteq Nat /\ T # {}
  OBVIOUS
<1>2. \A n \in S : x < n => n \in T
  OBVIOUS
<1>3. \A n \in T : n \in S /\ x < n
  OBVIOUS
<1> HIDE DEF T
<1>4. PICK m \in T : \A n \in T : m <= n
  BY <1>1, LeastOf
<1> QED
  BY <1>2, <1>3, <1>4

(* Below a natural, it has a last one.                                     *)
LEMMA LastBelow ==
  ASSUME NEW S, S \subseteq Nat, NEW x \in Nat, NEW a \in S, a < x
  PROVE  \E m \in S : m < x /\ \A n \in S : n < x => n <= m
<1> DEFINE T == {k \in Nat : k <= x /\ x - k \in S /\ 0 < k}
<1>1. ASSUME NEW n \in S, n < x PROVE x - n \in T
  <2>1. n \in Nat
    OBVIOUS
  <2>2. x - n \in Nat /\ x - n <= x /\ x - (x - n) = n /\ 0 < x - n
    BY <1>1, <2>1
  <2> QED BY <2>2
<1>2. T \subseteq Nat /\ T # {}
  BY <1>1
<1>3. \A k \in T : k \in Nat /\ k <= x /\ x - k \in S /\ 0 < k
  OBVIOUS
<1> HIDE DEF T
<1>4. PICK k \in T : \A n \in T : k <= n
  BY <1>2, LeastOf
<1>5. ASSUME NEW n \in S, n < x PROVE n <= x - k
  <2>1. k <= x - n /\ n \in Nat /\ k \in Nat
    BY <1>1, <1>3, <1>4, <1>5
  <2> QED BY <2>1
<1>6. x - k < x
  BY <1>3
<1> QED
  BY <1>3, <1>5, <1>6

-----------------------------------------------------------------------------
(* Induction and folds.  A property is the set of what has it, so that the   *)
(* lemmas can be cited: one with an operator for a parameter could not.     *)

(* Induction over the naturals, the property given as the set that has it.  *)
LEMMA NatInduct ==
  ASSUME NEW P, 0 \in P, \A n \in Nat : n \in P => n + 1 \in P
  PROVE  \A n \in Nat : n \in P
<1> SUFFICES ASSUME NEW k \in Nat, k \notin P PROVE FALSE
  OBVIOUS
<1> DEFINE T == {n \in Nat : n \notin P}
<1>1. T \subseteq Nat /\ T # {}
  OBVIOUS
<1>2. PICK m \in T : \A n \in T : m <= n
  BY <1>1, LeastOf
<1>3. m \in Nat /\ m # 0 /\ m \notin P
  OBVIOUS
<1>4. m - 1 \in Nat /\ (m - 1) + 1 = m /\ ~(m <= m - 1)
  BY <1>3
<1>5. m - 1 \in P
  BY <1>2, <1>4
<1> QED BY <1>3, <1>4, <1>5

(* Induction over a finite set: a property that every subset has as soon as *)
(* it holds of it without any one of its elements.                         *)
LEMMA SetInduct ==
  ASSUME NEW S, IsFiniteSet(S), NEW P,
         {} \in P,
         \A s \in SUBSET S : s # {} /\ (\A x \in s : s \ {x} \in P) => s \in P
  PROVE  \A s \in SUBSET S : s \in P
<1> DEFINE Q == {n \in Nat : \A s \in SUBSET S : Cardinality(s) = n => s \in P}
<1>1. \A s \in SUBSET S : IsFiniteSet(s) /\ Cardinality(s) \in Nat
  BY FS_Subset, FS_CardinalityType
<1>2. 0 \in Q
  BY <1>1, FS_EmptySet
<1>3. ASSUME NEW n \in Nat, n \in Q PROVE n + 1 \in Q
  <2> SUFFICES ASSUME NEW s \in SUBSET S, Cardinality(s) = n + 1 PROVE s \in P
    OBVIOUS
  <2>1. s # {}
    BY FS_EmptySet
  <2>2. ASSUME NEW x \in s PROVE s \ {x} \in P
    <3>1. s \ {x} \in SUBSET S /\ Cardinality(s \ {x}) = n
      BY <1>1, FS_RemoveElement
    <3> QED BY <3>1, <1>3
  <2> QED BY <2>1, <2>2
<1> HIDE DEF Q
<1>4. \A n \in Nat : n \in Q
  BY <1>2, <1>3, NatInduct
<1> QED BY <1>1, <1>4 DEF Q

(* A fold over a finite set exists: the equation that defines it, over the  *)
(* subsets of S, has a solution.                                           *)
FoldOf(S, base, C, G, h) ==
  /\ h[{}] = base
  /\ \A s \in SUBSET S : s # {} => h[s] = G[<<C[s], h[s \ {C[s]}]>>]

LEMMA FoldExists ==
  ASSUME NEW S, IsFiniteSet(S), NEW T, NEW base \in T,
         NEW C, \A s \in SUBSET S : s # {} => C[s] \in s,
         NEW G \in [S \X T -> T]
  PROVE  \E h \in [SUBSET S -> T] : FoldOf(S, base, C, G, h)
<1> DEFINE Upto(h, n) ==
             /\ h[{}] = base
             /\ \A s \in SUBSET S : s # {} /\ Cardinality(s) <= n => h[s] = G[<<C[s], h[s \ {C[s]}]>>]
           Q == {n \in Nat : \E h \in [SUBSET S -> T] : Upto(h, n)}
<1>0. Cardinality({}) = 0
  BY FS_EmptySet
<1>1. \A s \in SUBSET S : IsFiniteSet(s) /\ Cardinality(s) \in Nat /\ (Cardinality(s) = 0 => s = {})
  BY FS_Subset, FS_CardinalityType, FS_EmptySet
<1>2. \A s \in SUBSET S : s # {} => s \ {C[s]} \in SUBSET S /\ Cardinality(s \ {C[s]}) = Cardinality(s) - 1
  BY <1>1, FS_RemoveElement
<1>3. 0 \in Q
  <2> DEFINE h == [s \in SUBSET S |-> base]
  <2>1. h \in [SUBSET S -> T]
    OBVIOUS
  <2>2. \A s \in SUBSET S : ~(s # {} /\ Cardinality(s) <= 0)
    BY <1>1
  <2>3. h[{}] = base
    OBVIOUS
  <2> HIDE DEF h
  <2>4. Upto(h, 0)
    BY <2>2, <2>3
  <2> QED BY <2>1, <2>4
<1>4. ASSUME NEW n \in Nat, n \in Q PROVE n + 1 \in Q
  <2>1. PICK h \in [SUBSET S -> T] : Upto(h, n)
    BY <1>4
  <2>0. ASSUME NEW s \in SUBSET S, Cardinality(s) = n + 1 PROVE s # {}
    <3>1. n + 1 # 0
      OBVIOUS
    <3>2. s = {} => Cardinality(s) = 0
      BY <1>0
    <3> QED BY <2>0, <3>1, <3>2
  <2> DEFINE g == [s \in SUBSET S |-> IF Cardinality(s) = n + 1 THEN G[<<C[s], h[s \ {C[s]}]>>] ELSE h[s]]
  <2>2. ASSUME NEW s \in SUBSET S PROVE g[s] \in T
    <3>1. CASE Cardinality(s) = n + 1
      <4>1. s # {}
        BY <3>1, <2>0
      <4>2. <<C[s], h[s \ {C[s]}]>> \in S \X T
        BY <4>1, <1>2
      <4> QED BY <3>1, <4>2
    <3> QED BY <3>1
  <2>3. ASSUME NEW s \in SUBSET S, s # {}, Cardinality(s) <= n + 1
        PROVE  g[s] = G[<<C[s], g[s \ {C[s]}]>>]
    <3>1. g[s \ {C[s]}] = h[s \ {C[s]}]
      BY <1>1, <1>2, <2>3
    <3>2. CASE Cardinality(s) = n + 1
      <4>1. g[s] = G[<<C[s], h[s \ {C[s]}]>>]
        BY <3>2
      <4> QED BY <3>1, <4>1
    <3>3. CASE Cardinality(s) # n + 1
      <4>1. Cardinality(s) <= n
        BY <1>1, <2>3, <3>3
      <4> QED BY <2>1, <2>3, <3>1, <3>3, <4>1
    <3> QED BY <3>2, <3>3
  <2>4. g[{}] = base
    BY <2>1, <1>0
  <2>5. g \in [SUBSET S -> T]
    BY <2>2
  <2> HIDE DEF g
  <2>6. Upto(g, n + 1)
    BY <2>3, <2>4
  <2>7. \E k \in [SUBSET S -> T] : Upto(k, n + 1)
    BY <2>5, <2>6
  <2> HIDE DEF Upto
  <2> QED BY <2>7
<1> HIDE DEF Q
<1>5. \A n \in Nat : n \in Q
  BY <1>3, <1>4, NatInduct
<1>6. PICK h \in [SUBSET S -> T] : Upto(h, Cardinality(S))
  BY <1>1, <1>5 DEF Q
<1>7. \A s \in SUBSET S : Cardinality(s) <= Cardinality(S)
  BY FS_Subset
<1> QED BY <1>6, <1>7 DEF FoldOf

-----------------------------------------------------------------------------
(* Sums over a finite set. *)

(* What SumFunctionOnSet computes, by the equation that defines it.         *)
Sums(f, S, it) ==
  /\ it[{}] = 0
  /\ \A s \in SUBSET S : s # {} =>
       it[s] = f[CHOOSE x \in s : TRUE] + it[s \ {CHOOSE x \in s : TRUE}]

LEMMA SumEquation ==
  ASSUME NEW S, IsFiniteSet(S), NEW f, \A x \in S : f[x] \in Int
  PROVE  \E it : Sums(f, S, it) /\ SumFunctionOnSet(f, S) = it[S]
<1> DEFINE c == [s \in SUBSET S |-> CHOOSE x \in s : TRUE]
           G == [p \in S \X Int |-> f[p[1]] + p[2]]
           iter[s \in SUBSET S] ==
             IF s = {} THEN 0
             ELSE LET x == CHOOSE x \in s : TRUE IN f[x] + iter[s \ {x}]
           body(h) == [s \in SUBSET S |->
             IF s = {} THEN 0 ELSE f[CHOOSE x \in s : TRUE] + h[s \ {CHOOSE x \in s : TRUE}]]
<1>1. \A s \in SUBSET S : s # {} => c[s] \in s
  OBVIOUS
<1>2. G \in [S \X Int -> Int]
  OBVIOUS
<1>3. PICK h \in [SUBSET S -> Int] : FoldOf(S, 0, c, G, h)
  <2> DEFINE T == Int
  <2>1. 0 \in T /\ G \in [S \X T -> T]
    BY <1>2
  <2> HIDE DEF c, G, T, iter, body
  <2>2. \E h \in [SUBSET S -> T] : FoldOf(S, 0, c, G, h)
    BY <1>1, <2>1, FoldExists
  <2> QED BY <2>2 DEF T
<1>4. ASSUME NEW s \in SUBSET S, s # {}
      PROVE  h[s] = f[CHOOSE x \in s : TRUE] + h[s \ {CHOOSE x \in s : TRUE}]
  <2>1. c[s] = (CHOOSE x \in s : TRUE) /\ c[s] \in S
    BY <1>1, <1>4
  <2> HIDE DEF c
  <2>2. h[s \ {c[s]}] \in Int
    OBVIOUS
  <2>3. G[<<c[s], h[s \ {c[s]}]>>] = f[c[s]] + h[s \ {c[s]}]
    BY <2>1, <2>2
  <2> QED BY <1>3, <1>4, <2>1, <2>3 DEF FoldOf
<1>5. h = body(h)
  BY <1>3, <1>4 DEF FoldOf
<1>6. iter = body(iter)
  <2>1. \E g : g = body(g)
    BY <1>5
  <2> QED BY <2>1
<1>7. SumFunctionOnSet(f, S) = iter[S]
  BY DEF SumFunctionOnSet, FoldFunctionOnSet, MapThenFoldSet
<1> HIDE DEF iter
<1>8. iter[{}] = 0
  BY <1>6
<1>9. ASSUME NEW s \in SUBSET S, s # {}
      PROVE  iter[s] = f[CHOOSE x \in s : TRUE] + iter[s \ {CHOOSE x \in s : TRUE}]
  BY <1>6, <1>9
<1>10. Sums(f, S, iter)
  BY <1>8, <1>9 DEF Sums
<1> QED BY <1>7, <1>10

LEMMA SumsAreInt ==
  ASSUME NEW S, IsFiniteSet(S), NEW f, \A x \in S : f[x] \in Int, NEW it, Sums(f, S, it)
  PROVE  \A s \in SUBSET S : it[s] \in Int
<1> DEFINE P == {s \in SUBSET S : it[s] \in Int}
<1>1. {} \in P
  BY DEF Sums
<1>2. ASSUME NEW s \in SUBSET S, s # {}, \A x \in s : s \ {x} \in P PROVE s \in P
  <2>1. PICK x \in s : x = CHOOSE y \in s : TRUE
    BY <1>2
  <2>2. it[s] = f[x] + it[s \ {x}] /\ f[x] \in Int /\ it[s \ {x}] \in Int
    BY <1>2, <2>1 DEF Sums
  <2> QED BY <2>2
<1> HIDE DEF P
<1>3. \A s \in SUBSET S : s \in P
  BY <1>1, <1>2, SetInduct
<1> QED BY <1>3 DEF P

LEMMA SumsAgree ==
  ASSUME NEW S, IsFiniteSet(S), NEW f, NEW it, Sums(f, S, it), NEW s \in SUBSET S, NEW jt, Sums(f, s, jt)
  PROVE  it[s] = jt[s]
<1> DEFINE P == {u \in SUBSET s : it[u] = jt[u]}
<1>1. {} \in P
  BY DEF Sums
<1>2. ASSUME NEW u \in SUBSET s, u # {}, \A x \in u : u \ {x} \in P PROVE u \in P
  <2>1. PICK x \in u : x = CHOOSE y \in u : TRUE
    BY <1>2
  <2>2. it[u] = f[x] + it[u \ {x}]
    <3>1. u \in SUBSET S
      OBVIOUS
    <3> QED BY <1>2, <2>1, <3>1 DEF Sums
  <2>3. jt[u] = f[x] + jt[u \ {x}]
    BY <1>2, <2>1 DEF Sums
  <2>4. it[u \ {x}] = jt[u \ {x}]
    BY <1>2
  <2> QED BY <2>2, <2>3, <2>4
<1>3. IsFiniteSet(s)
  BY FS_Subset
<1> HIDE DEF P
<1>4. \A u \in SUBSET s : u \in P
  BY <1>1, <1>2, <1>3, SetInduct
<1> QED BY <1>4 DEF P

(* The sum over nothing is zero; any element may be taken out of a sum.     *)
SumsUp(f, S) ==
  /\ SumFunctionOnSet(f, {}) = 0
  /\ \A s \in SUBSET S : SumFunctionOnSet(f, s) \in Int
  /\ \A s \in SUBSET S : \A x \in s :
       SumFunctionOnSet(f, s) = f[x] + SumFunctionOnSet(f, s \ {x})

LEMMA SumTake ==
  ASSUME NEW S, IsFiniteSet(S), NEW f, \A x \in S : f[x] \in Int
  PROVE  SumsUp(f, S)
<1>1. PICK it : Sums(f, S, it)
  BY SumEquation
<1>2. ASSUME NEW s \in SUBSET S PROVE SumFunctionOnSet(f, s) = it[s]
  <2>1. IsFiniteSet(s) /\ \A x \in s : f[x] \in Int
    BY FS_Subset
  <2>2. PICK jt : Sums(f, s, jt) /\ SumFunctionOnSet(f, s) = jt[s]
    BY <2>1, SumEquation
  <2> QED BY <1>1, <2>2, SumsAgree
<1>3. \A s \in SUBSET S : it[s] \in Int
  BY <1>1, SumsAreInt
<1>4. it[{}] = 0
  BY <1>1 DEF Sums
<1> DEFINE P == {s \in SUBSET S : \A x \in s : it[s] = f[x] + it[s \ {x}]}
<1>5. {} \in P
  OBVIOUS
<1>6. ASSUME NEW s \in SUBSET S, s # {}, \A x \in s : s \ {x} \in P PROVE s \in P
  <2> SUFFICES ASSUME NEW x \in s PROVE it[s] = f[x] + it[s \ {x}]
    OBVIOUS
  <2>1. PICK c \in s : c = CHOOSE y \in s : TRUE
    BY <1>6
  <2>2. it[s] = f[c] + it[s \ {c}]
    BY <1>1, <1>6, <2>1 DEF Sums
  <2>3. CASE x = c
    BY <2>2, <2>3
  <2>4. CASE x # c
    <3>1. it[s \ {c}] = f[x] + it[(s \ {c}) \ {x}]
      BY <1>6, <2>4
    <3>2. it[s \ {x}] = f[c] + it[(s \ {x}) \ {c}]
      BY <1>6, <2>4
    <3>3. it[(s \ {c}) \ {x}] = it[(s \ {x}) \ {c}]
      <4>1. (s \ {c}) \ {x} = (s \ {x}) \ {c}
        OBVIOUS
      <4> QED BY <4>1
    <3>4. f[x] \in Int /\ f[c] \in Int /\ it[(s \ {x}) \ {c}] \in Int
      BY <1>3
    <3> QED BY <2>2, <3>1, <3>2, <3>3, <3>4
  <2> QED BY <2>3, <2>4
<1> HIDE DEF P
<1>7. \A s \in SUBSET S : s \in P
  BY <1>5, <1>6, SetInduct
<1>8. ASSUME NEW s \in SUBSET S, NEW x \in s PROVE it[s] = f[x] + it[s \ {x}]
  BY <1>7 DEF P
<1>9. ASSUME NEW s \in SUBSET S PROVE SumFunctionOnSet(f, s) \in Int
  BY <1>2, <1>3
<1>10. ASSUME NEW s \in SUBSET S, NEW x \in s
       PROVE  SumFunctionOnSet(f, s) = f[x] + SumFunctionOnSet(f, s \ {x})
  <2>1. s \ {x} \in SUBSET S
    OBVIOUS
  <2> QED BY <1>2, <1>8, <2>1
<1>11. SumFunctionOnSet(f, {}) = 0
  BY <1>2, <1>4
<1> QED BY <1>9, <1>10, <1>11 DEF SumsUp

(* Functions that agree on a set have the same sum over it.                 *)
LEMMA SumSame ==
  ASSUME NEW S, IsFiniteSet(S), NEW f, NEW g, \A x \in S : f[x] \in Int /\ g[x] = f[x]
  PROVE  SumFunctionOnSet(f, S) = SumFunctionOnSet(g, S)
<1> DEFINE P == {s \in SUBSET S : SumFunctionOnSet(f, s) = SumFunctionOnSet(g, s)}
<1>1. SumsUp(f, S)
  BY SumTake
<1>2. SumsUp(g, S)
  <2>1. \A x \in S : g[x] \in Int
    OBVIOUS
  <2> QED BY <2>1, SumTake
<1>3. {} \in P
  BY <1>1, <1>2 DEF SumsUp
<1>4. ASSUME NEW s \in SUBSET S, s # {}, \A x \in s : s \ {x} \in P PROVE s \in P
  <2>1. PICK x \in s : s \ {x} \in P
    BY <1>4
  <2>2. /\ SumFunctionOnSet(f, s) = f[x] + SumFunctionOnSet(f, s \ {x})
        /\ SumFunctionOnSet(g, s) = g[x] + SumFunctionOnSet(g, s \ {x})
    BY <1>1, <1>2 DEF SumsUp
  <2>3. SumFunctionOnSet(f, s \ {x}) = SumFunctionOnSet(g, s \ {x}) /\ g[x] = f[x]
    BY <2>1
  <2> QED BY <2>2, <2>3
<1> HIDE DEF P
<1>5. \A s \in SUBSET S : s \in P
  BY <1>3, <1>4, SetInduct
<1> QED BY <1>5 DEF P

LEMMA SumZero ==
  ASSUME NEW S, IsFiniteSet(S), NEW f, \A x \in S : f[x] = 0
  PROVE  SumFunctionOnSet(f, S) = 0
<1> DEFINE P == {s \in SUBSET S : SumFunctionOnSet(f, s) = 0}
<1>1. SumsUp(f, S)
  <2>1. \A x \in S : f[x] \in Int
    OBVIOUS
  <2> QED BY <2>1, SumTake
<1>2. {} \in P
  BY <1>1 DEF SumsUp
<1>3. ASSUME NEW s \in SUBSET S, s # {}, \A x \in s : s \ {x} \in P PROVE s \in P
  <2>1. PICK x \in s : s \ {x} \in P
    BY <1>3
  <2>2. SumFunctionOnSet(f, s) = f[x] + SumFunctionOnSet(f, s \ {x}) /\ f[x] = 0
    BY <1>1 DEF SumsUp
  <2>3. SumFunctionOnSet(f, s \ {x}) = 0
    BY <2>1
  <2> QED BY <2>2, <2>3
<1> HIDE DEF P
<1>4. \A s \in SUBSET S : s \in P
  BY <1>2, <1>3, SetInduct
<1> QED BY <1>4 DEF P

(* The sum over two sets with no element in common is the sum of theirs.    *)
LEMMA SumUnion ==
  ASSUME NEW S, IsFiniteSet(S), NEW f, \A x \in S : f[x] \in Int,
         NEW A \in SUBSET S, NEW B \in SUBSET S, A \cap B = {}
  PROVE  SumFunctionOnSet(f, A \cup B) = SumFunctionOnSet(f, A) + SumFunctionOnSet(f, B)
<1> DEFINE P == {b \in SUBSET B : SumFunctionOnSet(f, A \cup b) = SumFunctionOnSet(f, A) + SumFunctionOnSet(f, b)}
<1>1. SumsUp(f, S)
  BY SumTake
<1>2. {} \in P
  <2>1. A \cup {} = A
    OBVIOUS
  <2>2. SumFunctionOnSet(f, A) \in Int /\ SumFunctionOnSet(f, {}) = 0
    BY <1>1 DEF SumsUp
  <2>3. SumFunctionOnSet(f, A \cup {}) = SumFunctionOnSet(f, A) + SumFunctionOnSet(f, {})
    BY <2>1, <2>2
  <2> QED BY <2>3
<1>3. ASSUME NEW b \in SUBSET B, b # {}, \A x \in b : b \ {x} \in P PROVE b \in P
  <2>1. PICK x \in b : b \ {x} \in P
    BY <1>3
  <2>2. (A \cup b) \ {x} = A \cup (b \ {x})
    OBVIOUS
  <2>3. SumFunctionOnSet(f, A \cup b) = f[x] + SumFunctionOnSet(f, A \cup (b \ {x}))
    <3>1. A \cup b \in SUBSET S /\ x \in A \cup b
      OBVIOUS
    <3>2. SumFunctionOnSet(f, A \cup b) = f[x] + SumFunctionOnSet(f, (A \cup b) \ {x})
      BY <1>1, <3>1 DEF SumsUp
    <3> QED BY <2>2, <3>2
  <2>4. SumFunctionOnSet(f, b) = f[x] + SumFunctionOnSet(f, b \ {x})
    BY <1>1 DEF SumsUp
  <2>5. SumFunctionOnSet(f, A \cup (b \ {x})) = SumFunctionOnSet(f, A) + SumFunctionOnSet(f, b \ {x})
    BY <2>1
  <2>6. f[x] \in Int /\ SumFunctionOnSet(f, A) \in Int /\ SumFunctionOnSet(f, b \ {x}) \in Int
    BY <1>1 DEF SumsUp
  <2>7. SumFunctionOnSet(f, A \cup b) = SumFunctionOnSet(f, A) + SumFunctionOnSet(f, b)
    BY <2>3, <2>4, <2>5, <2>6
  <2> QED BY <2>7
<1>4. IsFiniteSet(B)
  BY FS_Subset
<1> HIDE DEF P
<1>5. \A b \in SUBSET B : b \in P
  BY <1>2, <1>3, <1>4, SetInduct
<1> QED BY <1>5 DEF P

(* The part of a set that g sends to d, and the sums of the parts.          *)
PartOf(s, g, d) == {x \in s : g[x] = d}

PartSums(f, s, g, D) == [d \in D |-> SumFunctionOnSet(f, PartOf(s, g, d))]

(* The sums of the parts add up to the sum of the whole.                    *)
LEMMA SumParts ==
  ASSUME NEW S, IsFiniteSet(S), NEW f, \A x \in S : f[x] \in Int,
         NEW D, IsFiniteSet(D), NEW g, \A x \in S : g[x] \in D
  PROVE  SumFunction(PartSums(f, S, g, D)) = SumFunctionOnSet(f, S)
<1> DEFINE P == {s \in SUBSET S : SumFunctionOnSet(PartSums(f, s, g, D), D) = SumFunctionOnSet(f, s)}
<1>1. SumsUp(f, S)
  BY SumTake
<1>2. ASSUME NEW s \in SUBSET S PROVE SumsUp(PartSums(f, s, g, D), D)
  <2>1. ASSUME NEW d \in D PROVE PartSums(f, s, g, D)[d] \in Int
    <3>1. PartOf(s, g, d) \in SUBSET S
      BY DEF PartOf
    <3>2. PartSums(f, s, g, D)[d] = SumFunctionOnSet(f, PartOf(s, g, d))
      BY DEF PartSums
    <3> QED BY <1>1, <3>1, <3>2 DEF SumsUp
  <2> QED BY <2>1, SumTake
<1>3. {} \in P
  <2>1. ASSUME NEW d \in D PROVE PartSums(f, {}, g, D)[d] = 0
    <3>1. PartOf({}, g, d) = {}
      BY DEF PartOf
    <3> QED BY <1>1, <3>1 DEF SumsUp, PartSums
  <2>2. SumFunctionOnSet(PartSums(f, {}, g, D), D) = 0
    BY <2>1, SumZero
  <2>3. SumFunctionOnSet(f, {}) = 0
    BY <1>1 DEF SumsUp
  <2> QED BY <2>2, <2>3
<1>4. ASSUME NEW s \in SUBSET S, s # {}, \A x \in s : s \ {x} \in P PROVE s \in P
  <2>1. PICK x \in s : s \ {x} \in P
    BY <1>4
  <2> DEFINE r == s \ {x}
             d == g[x]
             F == PartSums(f, s, g, D)
             H == PartSums(f, r, g, D)
  <2>2. d \in D /\ r \in SUBSET S
    OBVIOUS
  <2>3. SumFunctionOnSet(H, D) = SumFunctionOnSet(f, r)
    BY <2>1
  <2>4. \A e \in D \ {d} : F[e] = H[e] /\ F[e] \in Int
    <3> SUFFICES ASSUME NEW e \in D \ {d} PROVE F[e] = H[e] /\ F[e] \in Int
      OBVIOUS
    <3>1. PartOf(s, g, e) = PartOf(r, g, e) /\ PartOf(s, g, e) \in SUBSET S
      BY DEF PartOf
    <3>2. F[e] = SumFunctionOnSet(f, PartOf(s, g, e)) /\ H[e] = SumFunctionOnSet(f, PartOf(r, g, e))
      BY DEF PartSums
    <3> QED BY <1>1, <3>1, <3>2 DEF SumsUp
  <2>5. F[d] = f[x] + H[d]
    <3>1. PartOf(r, g, d) = PartOf(s, g, d) \ {x} /\ x \in PartOf(s, g, d) /\ PartOf(s, g, d) \in SUBSET S
      BY DEF PartOf
    <3>2. F[d] = SumFunctionOnSet(f, PartOf(s, g, d)) /\ H[d] = SumFunctionOnSet(f, PartOf(r, g, d))
      BY <2>2 DEF PartSums
    <3>3. SumFunctionOnSet(f, PartOf(s, g, d)) = f[x] + SumFunctionOnSet(f, PartOf(s, g, d) \ {x})
      BY <1>1, <3>1 DEF SumsUp
    <3> QED BY <3>1, <3>2, <3>3
  <2>6. SumFunctionOnSet(f, s) = f[x] + SumFunctionOnSet(f, r)
    BY <1>1 DEF SumsUp
  <2>7. SumsUp(F, D) /\ SumsUp(H, D)
    BY <1>2, <2>2
  <2> HIDE DEF F, H, r, d
  <2>8. IsFiniteSet(D \ {d})
    BY FS_RemoveElement
  <2>9. SumFunctionOnSet(F, D \ {d}) = SumFunctionOnSet(H, D \ {d})
    <3>1. \A e \in D \ {d} : F[e] \in Int /\ H[e] = F[e]
      BY <2>4
    <3> QED BY <2>8, <3>1, SumSame
  <2>10. /\ SumFunctionOnSet(F, D) = F[d] + SumFunctionOnSet(F, D \ {d})
         /\ SumFunctionOnSet(H, D) = H[d] + SumFunctionOnSet(H, D \ {d})
    BY <2>2, <2>7 DEF SumsUp
  <2>11. /\ SumFunctionOnSet(H, D \ {d}) \in Int /\ f[x] \in Int
         /\ H[d] \in Int
    <3>1. SumFunctionOnSet(H, D \ {d}) \in Int /\ f[x] \in Int
      BY <2>2, <2>7 DEF SumsUp
    <3>2. H[d] \in Int
      <4>1. PartOf(r, g, d) \in SUBSET S
        BY <2>2 DEF PartOf
      <4>2. H[d] = SumFunctionOnSet(f, PartOf(r, g, d))
        BY <2>2 DEF PartSums, H
      <4> QED BY <1>1, <4>1, <4>2 DEF SumsUp
    <3> QED BY <3>1, <3>2
  <2>12. SumFunctionOnSet(F, D) = SumFunctionOnSet(f, s)
    BY <2>3, <2>5, <2>6, <2>9, <2>10, <2>11
  <2> QED BY <2>12 DEF F
<1> HIDE DEF P
<1>5. \A s \in SUBSET S : s \in P
  BY <1>3, <1>4, SetInduct
<1>6. DOMAIN PartSums(f, S, g, D) = D
  BY DEF PartSums
<1> QED BY <1>5, <1>6 DEF P, SumFunction

-----------------------------------------------------------------------------
(* Intervals. *)

LEMMA PointsOf ==
  ASSUME NEW iv \in Interval
  PROVE  /\ iv.start \in Nat /\ iv.end \in Nat
         /\ \A t : t \in Points(iv) <=> t \in Nat /\ iv.start <= t /\ t < iv.end
BY DEF Interval, Points

LEMMA SpanOf ==
  ASSUME NEW a \in Nat, NEW b \in Nat
  PROVE  Span(a, b) \in Interval /\ Span(a, b).start = a /\ Span(a, b).end = b
BY DEF Span, Interval

(* Intervals with the same bounds are one. *)
LEMMA SameInterval ==
  ASSUME NEW a \in Interval, NEW b \in Interval, a.start = b.start, a.end = b.end
  PROVE  a = b
BY DEF Interval

(* Intervals overlap if and only if they have an instant in common. *)
LEMMA OverlapsMeet ==
  ASSUME NEW a \in Interval, NEW b \in Interval
  PROVE  /\ \A t : t \in Points(a) /\ t \in Points(b) => Overlaps(a, b)
         /\ NonEmpty(a) /\ NonEmpty(b) /\ Overlaps(a, b) => Points(a) \cap Points(b) # {}
<1>1. \A t : t \in Points(a) /\ t \in Points(b) => Overlaps(a, b)
  BY PointsOf DEF Overlaps
<1>2. ASSUME NonEmpty(a), NonEmpty(b), Overlaps(a, b) PROVE Points(a) \cap Points(b) # {}
  <2>1. CASE a.start <= b.start
    <3>1. b.start \in Points(a) /\ b.start \in Points(b)
      BY <1>2, <2>1, PointsOf DEF Overlaps, NonEmpty
    <3> QED BY <3>1
  <2>2. CASE b.start < a.start
    <3>1. a.start \in Points(a) /\ a.start \in Points(b)
      BY <1>2, <2>2, PointsOf DEF Overlaps, NonEmpty
    <3> QED BY <3>1
  <2> QED BY <2>1, <2>2, PointsOf
<1> QED
  BY <1>1, <1>2

LEMMA InCovered ==
  ASSUME NEW ivs, NEW t
  PROVE  t \in Covered(ivs) <=> \E iv \in ivs : t \in Points(iv)
BY DEF Covered

-----------------------------------------------------------------------------
(* What is left of a span when others are cut out of it. *)

(* A remainder is a non-empty interval inside the span that no cut meets.   *)
LEMMA RemaindersType ==
  ASSUME NEW span \in Interval, NEW cuts, cuts \subseteq Interval, NEW iv \in Remainders(span, cuts)
  PROVE  /\ iv \in Interval /\ NonEmpty(iv)
         /\ span.start <= iv.start /\ iv.end <= span.end
         /\ \A c \in cuts : ~Overlaps(c, iv)
         /\ iv.start \in {span.start} \cup {c.end : c \in cuts}
         /\ iv.end \in {span.end} \cup {c.start : c \in cuts}
<1> DEFINE starts == {span.start} \cup {c.end : c \in cuts}
           ends == {span.end} \cup {c.start : c \in cuts}
<1>1. starts \subseteq Nat /\ ends \subseteq Nat
  BY DEF Interval
<1>2. PICK a \in starts, b \in ends : iv = Span(a, b)
  BY DEF Remainders
<1>3. iv \in Interval /\ iv.start = a /\ iv.end = b
  BY <1>1, <1>2, SpanOf
<1>4. /\ NonEmpty(iv) /\ span.start <= iv.start /\ iv.end <= span.end
      /\ \A c \in cuts : ~Overlaps(c, iv)
  BY DEF Remainders
<1> QED
  BY <1>2, <1>3, <1>4

(* The remainders cover what no cut does, and nothing else.                 *)
LEMMA RemaindersCover ==
  ASSUME NEW span \in Interval, NEW cuts, cuts \subseteq Interval
  PROVE  Covered(Remainders(span, cuts)) = Points(span) \ Covered(cuts)
<1>1. ASSUME NEW iv \in Remainders(span, cuts), NEW t \in Points(iv)
      PROVE  t \in Points(span) /\ t \notin Covered(cuts)
  <2>1. /\ iv \in Interval /\ span.start <= iv.start /\ iv.end <= span.end
        /\ \A c \in cuts : ~Overlaps(c, iv)
    BY RemaindersType
  <2>2. t \in Points(span)
    BY <2>1, PointsOf
  <2>3. \A c \in cuts : t \notin Points(c)
    BY <2>1, OverlapsMeet
  <2> QED BY <2>2, <2>3, InCovered
<1>2. ASSUME NEW t \in Points(span), t \notin Covered(cuts)
      PROVE  \E iv \in Remainders(span, cuts) : t \in Points(iv)
  <2> DEFINE starts == {span.start} \cup {c.end : c \in cuts}
             ends == {span.end} \cup {c.start : c \in cuts}
  <2>1. starts \subseteq Nat /\ ends \subseteq Nat
    BY DEF Interval
  <2>2. span.start \in starts /\ span.end \in ends
    OBVIOUS
  <2>3. t \in Nat /\ span.start <= t /\ t < span.end
    BY <1>2, PointsOf
  <2>4. \A c \in cuts : c.end \in starts /\ c.start \in ends
    OBVIOUS
  <2> HIDE DEF starts, ends
  <2>5. PICK a \in starts : a < t + 1 /\ \A n \in starts : n < t + 1 => n <= a
    <3>1. t + 1 \in Nat /\ span.start < t + 1
      BY <2>3, PointsOf
    <3> QED BY <2>1, <2>2, <3>1, LastBelow
  <2>5a. a <= t /\ \A n \in starts : n <= t => n <= a
    BY <2>1, <2>3, <2>5
  <2>6. PICK b \in ends : t < b /\ \A n \in ends : t < n => b <= n
    BY <2>1, <2>2, <2>3, NextAbove
  <2>7. a \in Nat /\ b \in Nat /\ Span(a, b) \in Interval /\ Span(a, b).start = a /\ Span(a, b).end = b
    BY <2>1, SpanOf
  <2>8. ASSUME NEW c \in cuts, Overlaps(c, Span(a, b)) PROVE FALSE
    <3>1. c \in Interval /\ c.start \in Nat /\ c.end \in Nat /\ c.start < b /\ a < c.end
      BY <2>7, <2>8, PointsOf DEF Overlaps
    <3>2. ~(c.start <= t /\ t < c.end)
      BY <1>2, <2>3, <3>1, InCovered, PointsOf
    <3>3. CASE c.end <= t
      BY <2>4, <2>5a, <2>7, <3>1, <3>3
    <3>4. CASE t < c.start
      BY <2>4, <2>6, <2>7, <3>1, <3>4
    <3> QED BY <2>3, <3>1, <3>2, <3>3, <3>4
  <2>9. span.start <= a /\ b <= span.end
    BY <2>2, <2>3, <2>5a, <2>6, <2>7, PointsOf
  <2>10. Span(a, b) \in Remainders(span, cuts)
    <3>1. NonEmpty(Span(a, b))
      BY <2>3, <2>5a, <2>6, <2>7 DEF NonEmpty
    <3>2. Span(a, b) \in {Span(x, y) : x \in starts, y \in ends}
      OBVIOUS
    <3> QED BY <2>7, <2>8, <2>9, <3>1, <3>2 DEF Remainders, starts, ends
  <2>11. t \in Points(Span(a, b))
    BY <2>3, <2>5a, <2>6, <2>7, PointsOf
  <2> QED BY <2>10, <2>11
<1>3. \A t : t \in Covered(Remainders(span, cuts)) <=> t \in Points(span) /\ t \notin Covered(cuts)
  <2> SUFFICES ASSUME NEW t
               PROVE  t \in Covered(Remainders(span, cuts)) <=> t \in Points(span) /\ t \notin Covered(cuts)
    OBVIOUS
  <2>1. t \in Covered(Remainders(span, cuts)) <=> \E iv \in Remainders(span, cuts) : t \in Points(iv)
    BY InCovered
  <2> QED BY <1>1, <1>2, <2>1
<1> QED
  BY <1>3

(* No instant is in two remainders.                                        *)
LEMMA RemaindersApart ==
  ASSUME NEW span \in Interval, NEW cuts, cuts \subseteq Interval, \A c \in cuts : NonEmpty(c),
         NEW a \in Remainders(span, cuts), NEW b \in Remainders(span, cuts),
         NEW t \in Points(a), t \in Points(b)
  PROVE  a = b
<1>1. ASSUME NEW p \in Remainders(span, cuts), NEW q \in Remainders(span, cuts),
             t \in Points(p), t \in Points(q)
      PROVE  ~(p.start < q.start) /\ ~(p.end < q.end)
  <2>1. /\ p \in Interval /\ span.start <= p.start /\ p.end <= span.end
        /\ p.end \in {span.end} \cup {c.start : c \in cuts} /\ \A c \in cuts : ~Overlaps(c, p)
    BY <1>1, RemaindersType
  <2>2. /\ q \in Interval /\ span.start <= q.start /\ q.end <= span.end
        /\ q.start \in {span.start} \cup {c.end : c \in cuts} /\ \A c \in cuts : ~Overlaps(c, q)
    BY <1>1, RemaindersType
  <2>3. /\ t \in Nat /\ p.start <= t /\ t < p.end /\ q.start <= t /\ t < q.end
        /\ {p.start, p.end, q.start, q.end, span.start, span.end} \subseteq Nat
    BY <1>1, <2>1, <2>2, PointsOf
  <2>4. ASSUME p.start < q.start PROVE FALSE
    <3>1. PICK c \in cuts : q.start = c.end
      BY <2>1, <2>2, <2>3, <2>4
    <3>2. c.start \in Nat /\ c.start < c.end /\ ~(c.start < p.end /\ p.start < c.end)
      BY <2>1, PointsOf DEF NonEmpty, Overlaps
    <3> QED BY <2>3, <2>4, <3>1, <3>2
  <2>5. ASSUME p.end < q.end PROVE FALSE
    <3>1. PICK c \in cuts : p.end = c.start
      BY <2>1, <2>2, <2>3, <2>5
    <3>2. c.end \in Nat /\ c.start < c.end /\ ~(c.start < q.end /\ q.start < c.end)
      BY <2>2, PointsOf DEF NonEmpty, Overlaps
    <3> QED BY <2>3, <2>5, <3>1, <3>2
  <2> QED BY <2>4, <2>5
<1>2. a \in Interval /\ b \in Interval
  BY RemaindersType
<1>3. a.start = b.start /\ a.end = b.end
  BY <1>1, <1>2, PointsOf
<1> QED
  BY <1>2, <1>3, SameInterval

-----------------------------------------------------------------------------
(* Local midnights. *)

(* A day ends where the next one begins, or before.                         *)
LEMMA DaysInOrder ==
  ASSUME NEW L \in Nat, NEW d \in Int, NEW e \in Int, d < e
  PROVE  d * L \in Int /\ e * L \in Int /\ (d + 1) * L = d * L + L /\ (d + 1) * L <= e * L
<1>1. PICK c \in Nat : e = d + 1 + c
  <2>1. e - d - 1 \in Nat /\ e = d + 1 + (e - d - 1)
    OBVIOUS
  <2> QED BY <2>1
<1>2. c * L \in Nat /\ e * L = d * L + L + c * L /\ d * L \in Int /\ (d + 1) * L = d * L + L
  BY <1>1
<1> QED
  BY <1>2

(* An instant lies within its date, and within no other.                    *)
LEMMA DateOf ==
  ASSUME NEW L \in Nat \ {0}, NEW t \in Nat
  PROVE  /\ LocalDate(t, L) \in Nat
         /\ LocalDate(t, L) * L \in Nat /\ (LocalDate(t, L) + 1) * L \in Nat
         /\ LocalDate(t, L) * L <= t /\ t < (LocalDate(t, L) + 1) * L
<1>1. t \div L \in Nat /\ t % L \in Nat
  BY SMT
<1>2. ASSUME NEW q \in Nat, NEW r \in Nat, q = t \div L, r = t % L
      PROVE  t = L * q + r /\ r < L
  BY <1>2, SMT
<1>3. ASSUME NEW q \in Nat, NEW r \in Nat, t = L * q + r, r < L
      PROVE  q * L \in Nat /\ (q + 1) * L \in Nat /\ q * L <= t /\ t < (q + 1) * L
  <2>1. L * q = q * L /\ q * L \in Nat /\ (q + 1) * L = q * L + L
    OBVIOUS
  <2> QED BY <1>3, <2>1
<1> QED
  BY <1>1, <1>2, <1>3, Zenon DEF LocalDate

LEMMA DateIs ==
  ASSUME NEW L \in Nat \ {0}, NEW t \in Nat, NEW d \in Int, d * L <= t, t < (d + 1) * L
  PROVE  LocalDate(t, L) = d
<1> DEFINE e == LocalDate(t, L)
<1>1. e \in Nat /\ e * L <= t /\ t < (e + 1) * L
  BY DateOf
<1> HIDE DEF e
<1>2. ~(d < e)
  BY <1>1, DaysInOrder
<1>3. ~(e < d)
  BY <1>1, DaysInOrder
<1>4. e = d
  BY <1>1, <1>2, <1>3
<1> QED
  BY <1>4 DEF e

(* Dates follow the instants.                                              *)
LEMMA DatesInOrder ==
  ASSUME NEW L \in Nat \ {0}, NEW s \in Nat, NEW t \in Nat, s <= t
  PROVE  LocalDate(s, L) <= LocalDate(t, L)
<1>1. /\ LocalDate(s, L) \in Nat /\ LocalDate(s, L) * L <= s
      /\ LocalDate(t, L) \in Nat /\ t < (LocalDate(t, L) + 1) * L
  BY DateOf
<1>2. ASSUME NEW d \in Nat, NEW e \in Nat, d * L <= s, t < (e + 1) * L, e < d PROVE FALSE
  BY <1>2, DaysInOrder
<1> QED
  BY <1>1, <1>2

(* The piece of a span on one date.                                         *)
DayPiece(iv, L, d) == Span(Later(iv.start, d * L), Earlier(iv.end, (d + 1) * L))

LEMMA DayPieceOf ==
  ASSUME NEW L \in Nat \ {0}, NEW iv \in Interval, NonEmpty(iv),
         NEW d \in LocalDate(iv.start, L) .. LocalDate(iv.end - 1, L)
  PROVE  LET p == DayPiece(iv, L, d) IN
         /\ p \in Interval /\ NonEmpty(p)
         /\ \A t \in Nat : t \in Points(p) <=> t \in Points(iv) /\ LocalDate(t, L) = d
<1> DEFINE p == DayPiece(iv, L, d)
<1>1. iv.start \in Nat /\ iv.end \in Nat /\ iv.start < iv.end /\ iv.end - 1 \in Nat
  BY PointsOf DEF NonEmpty
<1>2. LocalDate(iv.start, L) \in Nat /\ LocalDate(iv.end - 1, L) \in Nat
  BY <1>1, DateOf
<1>3. d \in Nat /\ LocalDate(iv.start, L) <= d /\ d <= LocalDate(iv.end - 1, L)
  BY <1>2
<1>4. d * L \in Nat /\ (d + 1) * L \in Nat /\ d * L < (d + 1) * L
  <2>1. (d + 1) * L = d * L + L /\ d * L \in Nat
    BY <1>3
  <2> QED BY <2>1
<1>5. iv.start < (d + 1) * L
  <2>1. ASSUME NEW e \in Nat, e <= d, iv.start < (e + 1) * L, (e + 1) * L \in Nat
        PROVE  iv.start < (d + 1) * L
    <3>1. CASE e = d
      BY <2>1, <3>1
    <3>2. CASE e < d
      <4>1. (e + 1) * L <= d * L
        BY <1>3, <2>1, <3>2, DaysInOrder
      <4> QED BY <1>1, <1>4, <2>1, <4>1
    <3> QED BY <1>3, <2>1, <3>1, <3>2
  <2>2. LocalDate(iv.start, L) \in Nat /\ iv.start < (LocalDate(iv.start, L) + 1) * L
        /\ (LocalDate(iv.start, L) + 1) * L \in Nat
    BY <1>1, DateOf
  <2> QED BY <1>3, <2>1, <2>2
<1>6. d * L < iv.end
  <2>1. ASSUME NEW e \in Nat, d <= e, e * L <= iv.end - 1, e * L \in Nat
        PROVE  d * L < iv.end
    <3>1. CASE e = d
      BY <1>1, <1>4, <2>1, <3>1
    <3>2. CASE d < e
      <4>1. (d + 1) * L <= e * L
        BY <1>3, <2>1, <3>2, DaysInOrder
      <4> QED BY <1>1, <1>4, <2>1, <4>1
    <3> QED BY <1>3, <2>1, <3>1, <3>2
  <2>2. LocalDate(iv.end - 1, L) \in Nat /\ LocalDate(iv.end - 1, L) * L <= iv.end - 1
        /\ LocalDate(iv.end - 1, L) * L \in Nat
    BY <1>1, DateOf
  <2> QED BY <1>3, <2>1, <2>2
<1>7. /\ p \in Interval
      /\ p.start = (IF iv.start < d * L THEN d * L ELSE iv.start)
      /\ p.end = (IF iv.end < (d + 1) * L THEN iv.end ELSE (d + 1) * L)
  <2>1. Later(iv.start, d * L) \in Nat /\ Earlier(iv.end, (d + 1) * L) \in Nat
    BY <1>1, <1>4 DEF Later, Earlier
  <2> QED BY <2>1, SpanOf DEF Later, Earlier, DayPiece
<1>8. NonEmpty(p)
  BY <1>1, <1>4, <1>5, <1>6, <1>7 DEF NonEmpty
<1>9. ASSUME NEW t \in Nat PROVE t \in Points(p) <=> t \in Points(iv) /\ LocalDate(t, L) = d
  <2>1. t \in Points(p) <=> p.start <= t /\ t < p.end
    BY <1>7, PointsOf
  <2>2. t \in Points(iv) <=> iv.start <= t /\ t < iv.end
    BY PointsOf
  <2>3. LocalDate(t, L) = d <=> d * L <= t /\ t < (d + 1) * L
    <3>1. ASSUME LocalDate(t, L) = d PROVE d * L <= t /\ t < (d + 1) * L
      BY <3>1, DateOf
    <3>2. ASSUME d * L <= t, t < (d + 1) * L PROVE LocalDate(t, L) = d
      BY <1>3, <3>2, DateIs
    <3> QED BY <3>1, <3>2
  <2> HIDE DEF p
  <2> QED BY <1>1, <1>4, <1>7, <2>1, <2>2, <2>3
<1> QED
  BY <1>7, <1>8, <1>9

(* The cut at the midnights gives, for every date of a span, the instants   *)
(* of that date.                                                           *)
LEMMA SegmentsOf ==
  ASSUME NEW L \in Nat \ {0}, NEW iv \in Interval, NonEmpty(iv)
  PROVE  /\ Covered(SplitAtLocalMidnights(iv, L)) = Points(iv)
         /\ \A p \in SplitAtLocalMidnights(iv, L) :
              p \in Interval /\ NonEmpty(p) /\ LocalDate(p.start, L) = LocalDate(p.end - 1, L)
         /\ \A p, q \in SplitAtLocalMidnights(iv, L) :
              \A t : t \in Points(p) /\ t \in Points(q) => p = q
<1> DEFINE dates == LocalDate(iv.start, L) .. LocalDate(iv.end - 1, L)
<1>1. iv.start \in Nat /\ iv.end \in Nat /\ iv.start < iv.end /\ iv.end - 1 \in Nat
  BY PointsOf DEF NonEmpty
<1>2. LocalDate(iv.start, L) \in Nat /\ LocalDate(iv.end - 1, L) \in Nat
  BY <1>1, DateOf
<1>3. SplitAtLocalMidnights(iv, L) = {DayPiece(iv, L, d) : d \in dates}
  BY DEF SplitAtLocalMidnights, DayPiece
<1>4. ASSUME NEW d \in dates
      PROVE  /\ DayPiece(iv, L, d) \in Interval /\ NonEmpty(DayPiece(iv, L, d))
             /\ \A t : t \in Points(DayPiece(iv, L, d)) <=> t \in Points(iv) /\ LocalDate(t, L) = d
  <2>1. DayPiece(iv, L, d) \in Interval /\ NonEmpty(DayPiece(iv, L, d))
    BY DayPieceOf
  <2>2. \A t \in Nat : t \in Points(DayPiece(iv, L, d)) <=> t \in Points(iv) /\ LocalDate(t, L) = d
    BY DayPieceOf
  <2>3. \A t : t \in Points(DayPiece(iv, L, d)) \/ t \in Points(iv) => t \in Nat
    BY <2>1, PointsOf
  <2> QED BY <2>1, <2>2, <2>3
<1>5. ASSUME NEW t \in Points(iv) PROVE LocalDate(t, L) \in dates
  <2>1. t \in Nat /\ iv.start <= t /\ t <= iv.end - 1
    BY <1>1, PointsOf
  <2>2. LocalDate(iv.start, L) <= LocalDate(t, L) /\ LocalDate(t, L) <= LocalDate(iv.end - 1, L)
    BY <1>1, <2>1, DatesInOrder
  <2>3. LocalDate(t, L) \in Nat
    BY <2>1, DateOf
  <2> QED BY <1>2, <2>2, <2>3
<1> HIDE DEF dates
<1>6. Covered(SplitAtLocalMidnights(iv, L)) = Points(iv)
  <2>1. \A t : t \in Covered(SplitAtLocalMidnights(iv, L)) <=>
                 \E d \in dates : t \in Points(DayPiece(iv, L, d))
    BY <1>3 DEF Covered
  <2> QED BY <1>4, <1>5, <2>1
<1>7. ASSUME NEW d \in dates
      PROVE  LET p == DayPiece(iv, L, d) IN LocalDate(p.start, L) = LocalDate(p.end - 1, L)
  <2> DEFINE p == DayPiece(iv, L, d)
  <2>1. p \in Interval /\ NonEmpty(p)
    BY <1>4
  <2>2. p.start \in Points(p) /\ p.end - 1 \in Points(p)
    BY <2>1, PointsOf DEF NonEmpty
  <2> QED BY <1>4, <2>2
<1>8. ASSUME NEW d \in dates, NEW e \in dates,
             NEW t \in Points(DayPiece(iv, L, d)), t \in Points(DayPiece(iv, L, e))
      PROVE  d = e
  BY <1>4, <1>8
<1> QED
  BY <1>3, <1>4, <1>6, <1>7, <1>8

(* A span on one date is its own only piece.                                *)
LEMMA OneSegment ==
  ASSUME NEW L \in Nat \ {0}, NEW iv \in Interval, NonEmpty(iv),
         LocalDate(iv.start, L) = LocalDate(iv.end - 1, L)
  PROVE  SplitAtLocalMidnights(iv, L) = {DayPiece(iv, L, LocalDate(iv.start, L))}
<1>1. LocalDate(iv.start, L) \in Nat
  BY PointsOf, DateOf
<1>2. LocalDate(iv.start, L) .. LocalDate(iv.end - 1, L) = {LocalDate(iv.start, L)}
  BY <1>1
<1>3. SplitAtLocalMidnights(iv, L) = {DayPiece(iv, L, d) : d \in {LocalDate(iv.start, L)}}
  BY <1>2 DEF SplitAtLocalMidnights, DayPiece
<1> QED
  BY <1>3

-----------------------------------------------------------------------------
(* Tables. *)

(* An injection into a set takes its values there. *)
LEMMA InjectionRange ==
  ASSUME NEW S, NEW T, NEW f \in Injection(S, T), NEW x \in S
  PROVE  f[x] \in T
BY DEF Injection

(* Inserting puts every row on a free id of its own and keeps the others.   *)
LEMMA AddedRows ==
  ASSUME NEW t, NEW rows, NoRow \notin rows, NEW u \in AddRows(t, rows)
  PROVE  /\ DOMAIN u = EntryIds
         /\ \A id \in EntryIds : u[id] = t[id] \/ (t[id] = NoRow /\ u[id] \in rows)
         /\ \A r \in rows : \E id \in EntryIds : t[id] = NoRow /\ u[id] = r
         /\ \A a, b \in EntryIds : t[a] = NoRow /\ t[b] = NoRow /\ u[a] \in rows /\ u[a] = u[b] => a = b
<1>1. PICK at \in Injection(rows, FreeIds(t)) :
        u = [id \in EntryIds |-> IF \E r \in rows : at[r] = id
                                THEN CHOOSE r \in rows : at[r] = id ELSE t[id]]
  BY DEF AddRows
<1>2. \A r \in rows : at[r] \in EntryIds /\ t[at[r]] = NoRow
  <2>1. \A r \in rows : at[r] \in FreeIds(t)
    BY InjectionRange
  <2> QED BY <2>1 DEF FreeIds, RowIds
<1>3. \A r, s \in rows : at[r] = at[s] => r = s
  BY DEF Injection, IsInjective
<1>4. ASSUME NEW r \in rows PROVE u[at[r]] = r
  <2>1. u[at[r]] = CHOOSE s \in rows : at[s] = at[r]
    BY <1>1, <1>2
  <2> QED BY <1>3, <2>1
<1>5. ASSUME NEW id \in EntryIds PROVE (\E r \in rows : at[r] = id /\ u[id] = r) \/ u[id] = t[id]
  <2>1. CASE \E r \in rows : at[r] = id
    BY <1>4, <2>1
  <2>2. CASE ~ \E r \in rows : at[r] = id
    BY <1>1, <2>2
  <2> QED BY <2>1, <2>2
<1>6. ASSUME NEW a \in EntryIds, NEW b \in EntryIds,
             t[a] = NoRow, t[b] = NoRow, u[a] \in rows, u[a] = u[b]
      PROVE  a = b
  <2>1. PICK r \in rows : at[r] = a /\ u[a] = r
    BY <1>5, <1>6
  <2>2. PICK s \in rows : at[s] = b /\ u[b] = s
    BY <1>5, <1>6
  <2> QED BY <1>6, <2>1, <2>2
<1>7. \A id \in EntryIds : u[id] = t[id] \/ (t[id] = NoRow /\ u[id] \in rows)
  BY <1>2, <1>5
<1>8. \A r \in rows : \E id \in EntryIds : t[id] = NoRow /\ u[id] = r
  BY <1>2, <1>4
<1> QED
  BY <1>1, <1>6, <1>7, <1>8
=============================================================================
