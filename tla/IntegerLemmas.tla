--------------------------- MODULE IntegerLemmas ---------------------------
(***************************************************************************)
(* Induction over the naturals and the extremes of a set of integers, from   *)
(* the library's theorem that a well-founded relation has minimal elements,  *)
(* and sums over finite sets, by induction over the size of the set.  The    *)
(* last lemma is about shares of a total that are taken in order.            *)
(***************************************************************************)
EXTENDS Integers, FiniteSetsExt, TLAPS, WellFoundedInduction, FiniteSetTheorems

\* Induction over the naturals: a set that has 0 and with every number its
\* successor is all of Nat.
LEMMA NatSetInduction ==
  ASSUME NEW S \in SUBSET Nat, 0 \in S, \A n \in S : n + 1 \in S
  PROVE  S = Nat
<1> DEFINE R == OpToRel(<, Nat)
           T == Nat \ S
<1>1. IsWellFoundedOn(R, Nat)
  BY NatLessThanWellFounded
<1>2. SUFFICES ASSUME T # {} PROVE FALSE
  OBVIOUS
<1>3. PICK x \in T : \A y \in T : <<y, x>> \notin R
  <2>1. T \subseteq Nat
    OBVIOUS
  <2> HIDE DEF R, T
  <2> QED BY <1>1, <1>2, <2>1, WFMin
<1>4. x \in Nat /\ x # 0 /\ x - 1 \in Nat
  OBVIOUS
<1>5. x - 1 \in T
  BY <1>4
<1>6. <<x - 1, x>> \in R
  BY <1>4 DEF OpToRel
<1> QED BY <1>3, <1>5, <1>6

\* Every non-empty set of naturals has a least element.
LEMMA NatSetHasLeast ==
  ASSUME NEW S \in SUBSET Nat, S # {}
  PROVE  \E x \in S : \A y \in S : x <= y
<1> DEFINE R == OpToRel(<, Nat)
<1>1. IsWellFoundedOn(R, Nat)
  BY NatLessThanWellFounded
<1>2. PICK x \in S : \A y \in S : <<y, x>> \notin R
  <2> HIDE DEF R
  <2> QED BY <1>1, WFMin
<1>3. \A y \in S : ~(y < x)
  BY <1>2 DEF OpToRel
<1> QED BY <1>3

\* Min picks the least element of a non-empty set bounded from below.
LEMMA MinOfBounded ==
  ASSUME NEW lo \in Int, NEW S \in SUBSET Int, S # {}, \A x \in S : lo <= x
  PROVE  Min(S) \in S /\ \A y \in S : Min(S) <= y
<1> DEFINE T == {x - lo : x \in S}
<1>1. T \in SUBSET Nat /\ T # {}
  <2>1. \A x \in S : x \in Int
    OBVIOUS
  <2>2. \A t \in T : t \in Nat
    BY <2>1
  <2>3. PICK x \in S : TRUE
    OBVIOUS
  <2>4. T # {}
    BY <2>3
  <2> QED BY <2>2, <2>4
<1>2. PICK t \in T : \A y \in T : t <= y
  <2> HIDE DEF T
  <2> QED BY <1>1, NatSetHasLeast
<1>3. PICK x \in S : t = x - lo
  OBVIOUS
<1>4. \A y \in S : x <= y
  BY <1>2, <1>3
<1> QED BY <1>4 DEF Min

\* The same from above.
LEMMA MaxOfBounded ==
  ASSUME NEW hi \in Int, NEW S \in SUBSET Int, S # {}, \A x \in S : x <= hi
  PROVE  Max(S) \in S /\ \A y \in S : y <= Max(S)
<1> DEFINE T == {hi - x : x \in S}
<1>1. T \in SUBSET Nat /\ T # {}
  <2>1. \A x \in S : x \in Int
    OBVIOUS
  <2>2. \A t \in T : t \in Nat
    BY <2>1
  <2>3. PICK x \in S : TRUE
    OBVIOUS
  <2>4. T # {}
    BY <2>3
  <2> QED BY <2>2, <2>4
<1>2. PICK t \in T : \A y \in T : t <= y
  <2> HIDE DEF T
  <2> QED BY <1>1, NatSetHasLeast
<1>3. PICK x \in S : t = hi - x
  OBVIOUS
<1>4. \A y \in S : y <= x
  BY <1>2, <1>3
<1> QED BY <1>4 DEF Max

\* The lesser of two.
LEMMA MinOfTwo ==
  ASSUME NEW m \in Int, NEW n \in Int
  PROVE  Min({m, n}) = IF m <= n THEN m ELSE n
<1>1. {m, n} \in SUBSET Int /\ {m, n} # {}
  OBVIOUS
<1>2. \E lo \in Int : \A x \in {m, n} : lo <= x
  <2>1. CASE m <= n
    BY <2>1
  <2>2. CASE n < m
    BY <2>2
  <2> QED BY <2>1, <2>2
<1>3. Min({m, n}) \in {m, n} /\ \A y \in {m, n} : Min({m, n}) <= y
  BY <1>1, <1>2, MinOfBounded
<1> QED BY <1>3

-----------------------------------------------------------------------------
(* Sums over finite sets.                                                   *)

Some(s) == CHOOSE x \in s : TRUE

\* h adds up f over each subset of S, one element after the other.
IsTally(h, f, S) ==
    h = [s \in SUBSET S |-> IF s = {} THEN 0 ELSE f[Some(s)] + h[s \ {Some(s)}]]

LEMMA SomeElement ==
  ASSUME NEW s, s # {}
  PROVE  Some(s) \in s
BY DEF Some

\* Induction over the size of the subsets of a finite set.
LEMMA SubsetInduction ==
  ASSUME NEW S, IsFiniteSet(S), NEW P \in SUBSET SUBSET S,
         {} \in P,
         \A s \in SUBSET S : s # {} /\ (\A x \in s : s \ {x} \in P) => s \in P
  PROVE  P = SUBSET S
<1> DEFINE Done == {n \in Nat : \A s \in SUBSET S : Cardinality(s) = n => s \in P}
<1>1. \A s \in SUBSET S : IsFiniteSet(s) /\ Cardinality(s) \in Nat
  BY FS_Subset, FS_CardinalityType
<1>2. 0 \in Done
  <2>1. \A s \in SUBSET S : Cardinality(s) = 0 => s = {}
    BY <1>1, FS_EmptySet
  <2> QED BY <2>1
<1>3. ASSUME NEW n \in Done PROVE n + 1 \in Done
  <2> SUFFICES ASSUME NEW s \in SUBSET S, Cardinality(s) = n + 1 PROVE s \in P
    OBVIOUS
  <2>1. s # {}
    BY FS_EmptySet
  <2>2. ASSUME NEW x \in s PROVE s \ {x} \in P
    <3>1. Cardinality(s \ {x}) = n
      BY <1>1, FS_RemoveElement
    <3> QED BY <3>1
  <2> QED BY <2>1, <2>2
<1>4. Done = Nat
  <2>1. Done \in SUBSET Nat
    OBVIOUS
  <2> HIDE DEF Done
  <2> QED BY <1>2, <1>3, <2>1, NatSetInduction
<1>5. \A s \in SUBSET S : s \in P
  BY <1>1, <1>4
<1> QED BY <1>5

\* A tally exists: the recursion is over the size of the subset.
LEMMA TallyExists ==
  ASSUME NEW S, IsFiniteSet(S), NEW f
  PROVE  \E h : IsTally(h, f, S)
<1> DEFINE Def(h, s) == IF s = {} THEN 0 ELSE f[Some(s)] + h[s \ {Some(s)}]
           Upto(n) == {s \in SUBSET S : Cardinality(s) <= n}
           IsUpto(h, n) == h = [s \in Upto(n) |-> Def(h, s)]
           Done == {n \in Nat : \E h : IsUpto(h, n)}
<1>1. \A s \in SUBSET S : IsFiniteSet(s) /\ Cardinality(s) \in Nat
  BY FS_Subset, FS_CardinalityType
<1>2. \A s \in SUBSET S : s # {} => /\ s \ {Some(s)} \in SUBSET S
                                    /\ Cardinality(s \ {Some(s)}) = Cardinality(s) - 1
  BY <1>1, SomeElement, FS_RemoveElement
<1>3. 0 \in Done
  <2> DEFINE h == [s \in Upto(0) |-> 0]
  <2>1. \A s \in Upto(0) : s = {}
    BY <1>1, FS_EmptySet
  <2>2. h = [s \in Upto(0) |-> Def(h, s)]
    BY <2>1
  <2> HIDE DEF h
  <2>3. IsUpto(h, 0)
    BY <2>2
  <2> HIDE DEF IsUpto
  <2> QED BY <2>3
<1>4. ASSUME NEW n \in Done PROVE n + 1 \in Done
  <2>1. PICK g : g = [s \in Upto(n) |-> Def(g, s)]
    OBVIOUS
  <2> DEFINE h == [s \in Upto(n + 1) |-> IF s \in Upto(n) THEN g[s] ELSE Def(g, s)]
  <2>2. ASSUME NEW s \in Upto(n + 1) PROVE h[s] = Def(h, s)
    <3>1. CASE s = {}
      <4>1. s \in Upto(n) => g[s] = 0
        BY <2>1, <3>1
      <4> QED BY <3>1, <4>1
    <3>2. CASE s # {}
      <4> DEFINE r == s \ {Some(s)}
      <4>1. r \in Upto(n) /\ r \in Upto(n + 1)
        BY <1>1, <1>2, <3>2
      <4>2. h[r] = g[r]
        BY <4>1
      <4>3. h[s] = Def(g, s)
        BY <2>1
      <4> HIDE DEF h
      <4> QED BY <3>2, <4>2, <4>3
    <3> QED BY <3>1, <3>2
  <2>3. h = [s \in Upto(n + 1) |-> Def(h, s)]
    BY <2>2
  <2> HIDE DEF h
  <2>4. IsUpto(h, n + 1)
    BY <2>3
  <2> HIDE DEF IsUpto
  <2> QED BY <2>4
<1>5. Done = Nat
  <2>1. Done \in SUBSET Nat
    OBVIOUS
  <2> HIDE DEF Done
  <2> QED BY <1>3, <1>4, <2>1, NatSetInduction
<1>6. Upto(Cardinality(S)) = SUBSET S
  BY FS_Subset, FS_CardinalityType
<1>7. Cardinality(S) \in Done
  BY <1>5, FS_CardinalityType
<1>8. \E h : h = [s \in Upto(Cardinality(S)) |-> Def(h, s)]
  BY <1>7
<1> HIDE DEF Upto
<1> QED BY <1>6, <1>8 DEF IsTally

\* Tallies of functions that agree on R agree on R.
LEMMA TalliesAgree ==
  ASSUME NEW R, IsFiniteSet(R),
         NEW S, NEW f, NEW g, IsTally(g, f, S), R \subseteq S,
         NEW T, NEW e, NEW h, IsTally(h, e, T), R \subseteq T,
         \A x \in R : f[x] = e[x]
  PROVE  g[R] = h[R]
<1> DEFINE P == {s \in SUBSET R : g[s] = h[s]}
<1>1. {} \in P
  BY DEF IsTally
<1>2. ASSUME NEW s \in SUBSET R, s # {}, \A x \in s : s \ {x} \in P
      PROVE  s \in P
  <2> DEFINE x == Some(s)
             r == s \ {x}
  <2>1. x \in s /\ x \in R /\ r \in SUBSET R
    BY <1>2, SomeElement
  <2>2. g[r] = h[r]
    BY <1>2, <2>1
  <2>3. g[s] = f[x] + g[r]
    BY <1>2 DEF IsTally
  <2>4. h[s] = e[x] + h[r]
    BY <1>2 DEF IsTally
  <2> HIDE DEF x, r
  <2>5. g[s] = h[s]
    BY <2>1, <2>2, <2>3, <2>4
  <2> QED BY <2>5
<1>3. P = SUBSET R
  <2> HIDE DEF P
  <2>1. P \in SUBSET SUBSET R
    BY DEF P
  <2> QED BY <1>1, <1>2, <2>1, SubsetInduction
<1> QED BY <1>3

\* h has the sum of f over each subset of S, added up in any order.
IsSum(h, f, S) ==
    /\ h[{}] = 0
    /\ \A s \in SUBSET S : /\ h[s] \in Int
                           /\ \A x \in s : f[x] \in Int /\ h[s] = f[x] + h[s \ {x}]

\* The order of adding up does not matter.
LEMMA TallyIsSum ==
  ASSUME NEW S, IsFiniteSet(S), NEW f, \A x \in S : f[x] \in Int,
         NEW h, IsTally(h, f, S)
  PROVE  IsSum(h, f, S)
<1>0. \A s \in SUBSET S : h[s] \in Int
  <2> DEFINE P == {s \in SUBSET S : h[s] \in Int}
  <2>1. {} \in P
    BY DEF IsTally
  <2>2. ASSUME NEW s \in SUBSET S, s # {}, \A x \in s : s \ {x} \in P
        PROVE  s \in P
    <3> DEFINE y == Some(s)
    <3>1. y \in s /\ y \in S /\ s \ {y} \in P
      BY <2>2, SomeElement
    <3>2. h[s] = f[y] + h[s \ {y}]
      BY <2>2 DEF IsTally
    <3> HIDE DEF y
    <3> QED BY <3>1, <3>2
  <2>3. P = SUBSET S
    <3> HIDE DEF P
    <3>1. P \in SUBSET SUBSET S
      BY DEF P
    <3> QED BY <2>1, <2>2, <3>1, SubsetInduction
  <2> QED BY <2>3
<1> DEFINE P == {s \in SUBSET S : /\ h[s] \in Int
                                  /\ \A x \in s : h[s] = f[x] + h[s \ {x}]}
<1>1. {} \in P
  BY DEF IsTally
<1>2. ASSUME NEW s \in SUBSET S, s # {}, \A x \in s : s \ {x} \in P
      PROVE  s \in P
  <2> DEFINE y == Some(s)
  <2>1. y \in s /\ y \in S /\ s \ {y} \in P
    BY <1>2, SomeElement
  <2>2. h[s] = f[y] + h[s \ {y}]
    BY <1>2 DEF IsTally
  <2> HIDE DEF y
  <2>3. h[s] \in Int
    BY <2>1, <2>2
  <2>4. ASSUME NEW x \in s PROVE h[s] = f[x] + h[s \ {x}]
    <3>1. CASE x = y
      BY <2>2, <3>1
    <3>2. CASE x # y
      <4>1. x \in s \ {y} /\ y \in s \ {x} /\ x \in S /\ s \ {x} \in P
        BY <1>2, <2>1, <3>2
      <4>2. h[s \ {y}] = f[x] + h[(s \ {y}) \ {x}]
        BY <2>1, <4>1
      <4>3. h[s \ {x}] = f[y] + h[(s \ {x}) \ {y}]
        BY <4>1
      <4>4. (s \ {x}) \ {y} = (s \ {y}) \ {x}
        OBVIOUS
      <4> DEFINE rest == h[(s \ {y}) \ {x}]
      <4>5. h[s \ {y}] \in Int /\ h[s \ {y}] = f[x] + rest /\ h[s \ {x}] = f[y] + rest
            /\ f[x] \in Int /\ f[y] \in Int
        BY <2>1, <4>1, <4>2, <4>3, <4>4
      <4>6. rest \in Int
        BY <1>0
      <4> HIDE DEF rest
      <4> QED BY <2>2, <4>5, <4>6
    <3> QED BY <3>1, <3>2
  <2> QED BY <2>3, <2>4
<1>3. P = SUBSET S
  <2> HIDE DEF P
  <2>1. P \in SUBSET SUBSET S
    BY DEF P
  <2> QED BY <1>1, <1>2, <2>1, SubsetInduction
<1>4. h[{}] = 0
  BY DEF IsTally
<1> QED BY <1>3, <1>4 DEF IsSum

\* A sum follows the one value in which two functions differ.
LEMMA TallyChanges ==
  ASSUME NEW S, IsFiniteSet(S), NEW i \in S,
         NEW f, NEW g, IsTally(g, f, S), \A x \in S : f[x] \in Int,
         NEW e, NEW h, IsTally(h, e, S), \A x \in S : e[x] \in Int,
         \A x \in S : x # i => e[x] = f[x]
  PROVE  g[S] \in Int /\ h[S] = g[S] + (e[i] - f[i])
<1>1. IsFiniteSet(S \ {i}) /\ S \ {i} \subseteq S
  BY FS_RemoveElement
<1>2. g[S \ {i}] = h[S \ {i}]
  BY <1>1, TalliesAgree
<1>3. /\ g[S] \in Int /\ g[S \ {i}] \in Int /\ g[S] = f[i] + g[S \ {i}]
      /\ h[S] = e[i] + h[S \ {i}]
  BY <1>1, TallyIsSum DEF IsSum
<1> QED BY <1>2, <1>3

-----------------------------------------------------------------------------
(* Comparing sums.                                                          *)

\* Larger terms make a sum no smaller.
LEMMA SumsGrow ==
  ASSUME NEW S, IsFiniteSet(S), NEW f, NEW g, IsSum(g, f, S),
         NEW e, NEW h, IsSum(h, e, S), \A x \in S : f[x] <= e[x]
  PROVE  g[S] <= h[S]
<1> DEFINE P == {s \in SUBSET S : g[s] <= h[s]}
<1>1. {} \in P
  BY DEF IsSum
<1>2. ASSUME NEW s \in SUBSET S, s # {}, \A x \in s : s \ {x} \in P
      PROVE  s \in P
  <2>1. PICK x \in s : TRUE
    BY <1>2
  <2> DEFINE r == s \ {x}
  <2>2. r \in SUBSET S /\ g[r] <= h[r] /\ f[x] <= e[x]
    BY <1>2, <2>1
  <2>3. f[x] \in Int /\ e[x] \in Int /\ g[s] = f[x] + g[r] /\ h[s] = e[x] + h[r]
    BY <2>1 DEF IsSum
  <2>4. g[r] \in Int /\ h[r] \in Int
    BY <2>2 DEF IsSum
  <2> HIDE DEF r
  <2>5. g[s] <= h[s]
    BY <2>2, <2>3, <2>4
  <2> QED BY <2>5
<1>3. P = SUBSET S
  <2> HIDE DEF P
  <2>1. P \in SUBSET SUBSET S
    BY DEF P
  <2> QED BY <1>1, <1>2, <2>1, SubsetInduction
<1> QED BY <1>3

\* The sum of two functions.
LEMMA SumsAdd ==
  ASSUME NEW S, IsFiniteSet(S), NEW f, NEW g, IsSum(g, f, S),
         NEW e, NEW h, IsSum(h, e, S),
         NEW d, NEW k, IsSum(k, d, S), \A x \in S : d[x] = f[x] + e[x]
  PROVE  k[S] = g[S] + h[S]
<1> DEFINE P == {s \in SUBSET S : k[s] = g[s] + h[s]}
<1>1. {} \in P
  BY DEF IsSum
<1>2. ASSUME NEW s \in SUBSET S, s # {}, \A x \in s : s \ {x} \in P
      PROVE  s \in P
  <2>1. PICK x \in s : TRUE
    BY <1>2
  <2> DEFINE r == s \ {x}
  <2>2. r \in SUBSET S /\ k[r] = g[r] + h[r] /\ d[x] = f[x] + e[x]
    BY <1>2, <2>1
  <2>3. /\ f[x] \in Int /\ e[x] \in Int
        /\ g[s] = f[x] + g[r] /\ h[s] = e[x] + h[r] /\ k[s] = d[x] + k[r]
    BY <2>1 DEF IsSum
  <2>4. g[r] \in Int /\ h[r] \in Int
    BY <2>2 DEF IsSum
  <2> HIDE DEF r
  <2>5. k[s] = g[s] + h[s]
    BY <2>2, <2>3, <2>4
  <2> QED BY <2>5
<1>3. P = SUBSET S
  <2> HIDE DEF P
  <2>1. P \in SUBSET SUBSET S
    BY DEF P
  <2> QED BY <1>1, <1>2, <2>1, SubsetInduction
<1> QED BY <1>3

\* Leaving out terms that are not negative makes a sum no larger.
LEMMA SumSkips ==
  ASSUME NEW S, IsFiniteSet(S), NEW f, NEW h, IsSum(h, f, S),
         NEW A \in SUBSET S, \A x \in S \ A : f[x] >= 0
  PROVE  h[A] <= h[S]
<1> DEFINE P == {s \in SUBSET S : h[s \cap A] <= h[s]}
<1>1. {} \in P
  <2>1. {} \cap A = {}
    OBVIOUS
  <2> QED BY <2>1 DEF IsSum
<1>2. ASSUME NEW s \in SUBSET S, s # {}, \A x \in s : s \ {x} \in P
      PROVE  s \in P
  <2>1. PICK x \in s : TRUE
    BY <1>2
  <2> DEFINE r == s \ {x}
             a == s \cap A
             c == r \cap A
  <2>2. /\ h[c] <= h[r]
        /\ r \in SUBSET S /\ c \in SUBSET S /\ a \in SUBSET S /\ x \in S
    BY <1>2, <2>1
  <2>3. x \in A => x \in a /\ a \ {x} = c
    BY <2>1
  <2>4. x \notin A => a = c /\ f[x] >= 0
    BY <2>2
  <2>5. f[x] \in Int /\ h[s] = f[x] + h[r] /\ h[r] \in Int /\ h[c] \in Int
    BY <2>1, <2>2 DEF IsSum
  <2>6. x \in A => h[a] = f[x] + h[c]
    BY <2>2, <2>3 DEF IsSum
  <2> HIDE DEF r, a, c
  <2>7. h[a] <= h[s]
    BY <2>2, <2>4, <2>5, <2>6
  <2> QED BY <2>7 DEF a
<1>3. P = SUBSET S
  <2> HIDE DEF P
  <2>1. P \in SUBSET SUBSET S
    BY DEF P
  <2> QED BY <1>1, <1>2, <2>1, SubsetInduction
<1>4. S \in P /\ S \cap A = A
  BY <1>3
<1> QED BY <1>4

\* Leaving out zeros changes nothing.
LEMMA SumSkipsZeros ==
  ASSUME NEW S, IsFiniteSet(S), NEW f, NEW h, IsSum(h, f, S),
         NEW A \in SUBSET S, \A x \in S : x \notin A => f[x] = 0
  PROVE  h[A] = h[S]
<1> DEFINE P == {s \in SUBSET S : h[s \cap A] = h[s]}
<1>1. {} \in P
  <2>1. {} \cap A = {}
    OBVIOUS
  <2> QED BY <2>1 DEF IsSum
<1>2. ASSUME NEW s \in SUBSET S, s # {}, \A x \in s : s \ {x} \in P
      PROVE  s \in P
  <2>1. PICK x \in s : TRUE
    BY <1>2
  <2> DEFINE r == s \ {x}
             a == s \cap A
             c == r \cap A
  <2>2. /\ h[c] = h[r]
        /\ r \in SUBSET S /\ c \in SUBSET S /\ a \in SUBSET S /\ x \in S
    BY <1>2, <2>1
  <2>3. x \in A => x \in a /\ a \ {x} = c
    BY <2>1
  <2>4. x \notin A => a = c /\ f[x] = 0
    BY <2>2
  <2>5. f[x] \in Int /\ h[s] = f[x] + h[r] /\ h[r] \in Int /\ h[c] \in Int
    BY <2>1, <2>2 DEF IsSum
  <2>6. x \in A => h[a] = f[x] + h[c]
    BY <2>2, <2>3 DEF IsSum
  <2> HIDE DEF r, a, c
  <2>7. h[a] = h[s]
    BY <2>2, <2>4, <2>5, <2>6
  <2> QED BY <2>7 DEF a
<1>3. P = SUBSET S
  <2> HIDE DEF P
  <2>1. P \in SUBSET SUBSET S
    BY DEF P
  <2> QED BY <1>1, <1>2, <2>1, SubsetInduction
<1>4. S \in P /\ S \cap A = A
  BY <1>3
<1> QED BY <1>4

\* The prices better than q.
BetterOf(up, q, S) == {p \in S : IF up THEN p < q ELSE p > q}

\* No price is taken from while a better one has more to give, and nothing
\* that could be had is missed while lots are still wanted.
TakenInOrder(taken, total, offered, lots, up, S) ==
    /\ \A q \in S : 0 <= taken[q] /\ taken[q] <= offered[q]
    /\ \A q \in S : taken[q] # 0 => \A p \in BetterOf(up, q, S) : taken[p] = offered[p]
    /\ total <= lots
    /\ total # lots => \A q \in S : taken[q] = offered[q]

GivesTheRest(taken, offered, o, lots, up, S) ==
    \A q \in S : taken[q] = Min({offered[q], Max({0, lots - o[BetterOf(up, q, S)]})})

\* Then each price gives what the better ones leave to take.
LEMMA BestFirst ==
  ASSUME NEW S, IsFiniteSet(S), \A p \in S : p \in Int, NEW up \in BOOLEAN, NEW lots \in Nat,
         NEW offered, NEW o, IsSum(o, offered, S),
         NEW taken, NEW t, IsSum(t, taken, S),
         TakenInOrder(taken, t[S], offered, lots, up, S)
  PROVE  GivesTheRest(taken, offered, o, lots, up, S)
<1>0. ASSUME NEW C \in SUBSET S, \A w \in S : w \notin C => taken[w] = 0
      PROVE  t[C] = t[S]
  BY <1>0, SumSkipsZeros
<1> USE DEF TakenInOrder
<1> SUFFICES ASSUME NEW q \in S
             PROVE  taken[q] = Min({offered[q], Max({0, lots - o[BetterOf(up, q, S)]})})
  BY DEF GivesTheRest
<1> DEFINE A == BetterOf(up, q, S)
           B == A \cup {q}
           left == Max({0, lots - o[A]})
           L(p) == IF up THEN p < q ELSE p > q
<1>1. /\ A \in SUBSET S /\ B \in SUBSET S /\ q \notin A /\ B \ {q} = A
      /\ \A x \in S : taken[x] \in Int /\ offered[x] \in Int
      /\ \A s \in SUBSET S : t[s] \in Int /\ o[s] \in Int
      /\ IsFiniteSet(A)
  <2>0. q \in Int /\ ~(q < q) /\ ~(q > q)
    OBVIOUS
  <2>1. A \in SUBSET S /\ q \notin A
    BY <2>0 DEF BetterOf
  <2>2. \A x \in S : {x} \in SUBSET S /\ x \in {x}
    OBVIOUS
  <2>3. \A x \in S : taken[x] \in Int /\ offered[x] \in Int
    <3> SUFFICES ASSUME NEW x \in S PROVE taken[x] \in Int /\ offered[x] \in Int
      OBVIOUS
    <3>1. {x} \in SUBSET S /\ x \in {x}
      BY <2>2
    <3> QED BY <3>1 DEF IsSum
  <2> HIDE DEF A
  <2>4. \A s \in SUBSET S : t[s] \in Int /\ o[s] \in Int
    BY DEF IsSum
  <2>5. IsFiniteSet(A)
    BY <2>1, FS_Subset
  <2>6. B \in SUBSET S /\ B \ {q} = A
    BY <2>1
  <2> QED BY <2>1, <2>3, <2>4, <2>5, <2>6
<1>2. t[B] = taken[q] + t[A] /\ t[A] <= t[B] /\ t[B] <= t[S]
  <2>1. t[B] = taken[q] + t[A]
    <3>1. \A s \in SUBSET S : \A x \in s : t[s] = taken[x] + t[s \ {x}]
      BY DEF IsSum
    <3>2. B \in SUBSET S /\ q \in B /\ B \ {q} = A
      BY <1>1
    <3> HIDE DEF A, B
    <3> QED BY <3>1, <3>2
  <2>2. \A x \in S \ B : taken[x] >= 0
    BY <1>1
  <2> HIDE DEF A, B
  <2>3. t[B] <= t[S]
    BY <1>1, <2>2, SumSkips
  <2> QED BY <1>1, <2>1, <2>3
<1>3. \A s \in SUBSET S : (\A p \in s : taken[p] = offered[p]) => t[s] = o[s]
  <2> SUFFICES ASSUME NEW s \in SUBSET S, \A p \in s : taken[p] = offered[p]
               PROVE  t[s] = o[s]
    OBVIOUS
  <2>1. IsSum(t, taken, s) /\ IsSum(o, offered, s) /\ IsFiniteSet(s)
    BY FS_Subset DEF IsSum
  <2>2. \A p \in s : taken[p] <= offered[p] /\ offered[p] <= taken[p]
    BY <1>1
  <2>3. t[s] <= o[s] /\ o[s] <= t[s]
    BY <2>1, <2>2, SumsGrow
  <2> QED BY <1>1, <2>3
<1>4. t[A] <= o[A]
  <2>1. IsSum(t, taken, A) /\ IsSum(o, offered, A)
    BY <1>1 DEF IsSum
  <2>2. \A p \in A : taken[p] <= offered[p]
    BY <1>1
  <2> HIDE DEF A
  <2> QED BY <1>1, <2>1, <2>2, SumsGrow
<1>5. left = IF lots - o[A] > 0 THEN lots - o[A] ELSE 0
  <2> DEFINE n == lots - o[A]
  <2>1. n \in Int
    BY <1>1
  <2> HIDE DEF n
  <2>2. Max({0, n}) \in {0, n} /\ \A y \in {0, n} : y <= Max({0, n})
    <3>1. {0, n} \in SUBSET Int /\ {0, n} # {}
      BY <2>1
    <3>2. \E hi \in Int : \A x \in {0, n} : x <= hi
      <4>1. CASE n <= 0
        BY <2>1, <4>1
      <4>2. CASE n > 0
        BY <2>1, <4>2
      <4> QED BY <2>1, <4>1, <4>2
    <3> QED BY <3>1, <3>2, MaxOfBounded
  <2>3. Max({0, n}) = IF n > 0 THEN n ELSE 0
    BY <2>1, <2>2
  <2> QED BY <2>3 DEF n
<1>6. Min({offered[q], left}) = IF offered[q] <= left THEN offered[q] ELSE left
  <2> DEFINE m == offered[q]
  <2>1. m \in Int /\ left \in Int
    BY <1>1, <1>5
  <2> HIDE DEF m, left
  <2>2. Min({m, left}) = IF m <= left THEN m ELSE left
    BY <2>1, MinOfTwo
  <2> QED BY <2>2 DEF m
<1>7. \A w \in S : w \in A <=> L(w)
  BY DEF BetterOf
<1>8. \A w \in S : \A p \in S : /\ p \in BetterOf(up, w, S) <=> (IF up THEN p < w ELSE p > w)
  BY DEF BetterOf
<1> HIDE DEF A, left
<1>9. ASSUME \A p \in A : taken[p] = offered[p]
      PROVE  taken[q] = Min({offered[q], left})
  <2>1. t[A] = o[A]
    BY <1>1, <1>3, <1>9
  <2>2. CASE taken[q] = offered[q]
    <3>1. offered[q] <= lots - o[A] /\ 0 <= offered[q]
      <4>1. t[S] \in Int
        BY <1>1
      <4> HIDE DEF B
      <4>2. t[B] \in Int
        BY <1>1
      <4> QED BY <1>1, <1>2, <2>1, <2>2, <4>1, <4>2
    <3> QED BY <1>1, <1>5, <1>6, <2>2, <3>1
  <2>3. CASE taken[q] # offered[q]
    <3>1. t[S] = lots
      BY <2>3
    <3>2. \A w \in S : w \notin B => taken[w] = 0
      <4> SUFFICES ASSUME NEW w \in S, w \notin B PROVE taken[w] = 0
        OBVIOUS
      <4>1. w \in S /\ w # q /\ ~L(w)
        BY <1>7
      <4>2. q \in BetterOf(up, w, S)
        BY <1>8, <4>1
      <4> QED BY <2>3, <4>1, <4>2
    <3>3. t[B] = t[S]
      <4> HIDE DEF B
      <4>1. B \in SUBSET S
        BY <1>1
      <4> QED BY <1>0, <3>2, <4>1
    <3>4. taken[q] = lots - o[A]
      BY <1>1, <1>2, <2>1, <3>1, <3>3
    <3>5. 0 <= taken[q] /\ taken[q] < offered[q]
      BY <1>1, <2>3
    <3> QED BY <1>1, <1>5, <1>6, <3>4, <3>5
  <2> QED BY <2>2, <2>3
<1>10. ASSUME ~ \A p \in A : taken[p] = offered[p]
       PROVE  taken[q] = Min({offered[q], left})
  <2>1. PICK p \in A : taken[p] # offered[p]
    BY <1>10
  <2>2. taken[q] = 0 /\ t[S] = lots
    <3>1. p \in S /\ p \in BetterOf(up, q, S)
      BY <1>1, <2>1 DEF A
    <3> QED BY <2>1, <3>1
  <2>3. \A w \in S : w \notin A => taken[w] = 0
    <3> SUFFICES ASSUME NEW w \in S, w \notin A PROVE taken[w] = 0
      OBVIOUS
    <3>1. p \in S /\ w \in S /\ L(p) /\ ~L(w)
      BY <1>1, <1>7, <2>1
    <3>2. p \in Int /\ w \in Int /\ q \in Int
      BY <3>1
    <3>3. IF up THEN p < w ELSE p > w
      BY <3>1, <3>2
    <3>4. p \in BetterOf(up, w, S)
      BY <1>8, <3>1, <3>3
    <3> QED BY <2>1, <3>1, <3>4
  <2>4. t[A] = lots
    <3>1. t[A] = t[S]
      BY <1>0, <1>1, <2>3
    <3> QED BY <2>2, <3>1
  <2>5. lots - o[A] <= 0 /\ 0 <= offered[q]
    BY <1>1, <1>4, <2>2, <2>4
  <2> QED BY <1>1, <1>5, <1>6, <2>2, <2>5
<1> QED BY <1>9, <1>10 DEF A, left

=============================================================================
