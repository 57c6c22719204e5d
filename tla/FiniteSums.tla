------------------------------- MODULE FiniteSums -------------------------------
(***************************************************************************)
(* What the folds over finite sets compute, without induction over an      *)
(* operator: a set of numbers or of sets takes the place of the predicate, *)
(* and the least counterexample that of the induction.                     *)
(***************************************************************************)
EXTENDS Integers, FiniteSetsExt, FiniteSetTheorems, WellFoundedInduction, TLAPS

\* The least number without a property is none, if zero has it and the next one of
\* each number that has it.
LEMMA NatInduct ==
  ASSUME NEW P, 0 \in P, \A n \in Nat : n \in P => n + 1 \in P
  PROVE  Nat \subseteq P
<1> DEFINE Less == {pair \in Nat \X Nat : pair[1] < pair[2]}
           B == Nat \ P
<1> SUFFICES ASSUME B # {} PROVE FALSE
  OBVIOUS
<1>1. IsWellFoundedOn(Less, Nat)
  BY NatLessThanWellFounded DEF OpToRel
<1>2. PICK b \in B : \A n \in B : <<n, b>> \notin Less
  <2> B \subseteq Nat
    OBVIOUS
  <2> HIDE DEF B, Less
  <2> QED
    BY <1>1, WFMin
<1>3. b - 1 \in Nat /\ (b - 1) + 1 = b
  BY <1>2
<1>4. b - 1 \notin B
  <2>1. <<b - 1, b>> \in Less
    BY <1>3
  <2> QED
    BY <1>2, <2>1
<1> QED
  BY <1>2, <1>3, <1>4

\* Some numbers have a least one.
LEMMA LeastExists ==
  ASSUME NEW S \in SUBSET Nat, S # {}
  PROVE  \E m \in S : \A x \in S : m <= x
<1> DEFINE Less == {pair \in Nat \X Nat : pair[1] < pair[2]}
<1>1. IsWellFoundedOn(Less, Nat)
  BY NatLessThanWellFounded DEF OpToRel
<1>2. PICK m \in S : \A x \in S : <<x, m>> \notin Less
  <2> HIDE DEF Less
  <2> QED
    BY <1>1, WFMin
<1>3. ASSUME NEW x \in S PROVE m <= x
  <2>1. x \in Nat /\ m \in Nat /\ <<x, m>> \notin Less
    BY <1>2
  <2>2. ~ (x < m)
    BY <2>1
  <2> QED
    BY <2>1, <2>2
<1> QED
  BY <1>2, <1>3

\* Induction on the finite sets: P holds the sets that have the property.
LEMMA SetInduct ==
  ASSUME NEW D, IsFiniteSet(D), NEW P, {} \in P,
         \A s \in SUBSET D : \A x \in D \ s : s \in P => s \cup {x} \in P
  PROVE  D \in P
<1> DEFINE N == {n \in Nat : \A s \in SUBSET D : Cardinality(s) = n => s \in P}
<1>1. \A s \in SUBSET D : IsFiniteSet(s) /\ Cardinality(s) \in Nat
  BY FS_Subset, FS_CardinalityType
<1>2. 0 \in N
  BY <1>1, FS_EmptySet
<1>3. ASSUME NEW n \in Nat, n \in N PROVE n + 1 \in N
  <2> SUFFICES ASSUME NEW s \in SUBSET D, Cardinality(s) = n + 1 PROVE s \in P
    OBVIOUS
  <2>1. PICK x \in s : TRUE
    BY <1>1, FS_EmptySet
  <2>2. Cardinality(s \ {x}) = Cardinality(s) - 1
    BY <1>1, <2>1, FS_RemoveElement
  <2>3. s \ {x} \in P /\ (s \ {x}) \cup {x} = s
    BY <1>3, <2>1, <2>2
  <2> QED
    BY <2>1, <2>3
<1>4. Nat \subseteq N
  <2> HIDE DEF N
  <2> QED
    BY <1>2, <1>3, NatInduct
<1> QED
  BY <1>1, <1>4

\* The elements of a set are taken one by one, as c says, with a step for each.
Chooses(c, D) == \A s \in SUBSET D : s # {} => c[s] \in s
Follows(g, s, base, step, c) ==
  g[s] = IF s = {} THEN base ELSE step[<<g[s \ {c[s]}], c[s]>>]
FoldTable(g, D, base, step, c) == \A s \in SUBSET D : Follows(g, s, base, step, c)

\* Such a fold is well defined.
LEMMA Recursion ==
  ASSUME NEW D, IsFiniteSet(D), NEW V, NEW base \in V,
         NEW c, Chooses(c, D), NEW step \in [V \X D -> V]
  PROVE  \E g \in [SUBSET D -> V] : FoldTable(g, D, base, step, c)
<1> DEFINE Eq(g, s) == Follows(g, s, base, step, c)
           N == {n \in Nat : \E g \in [SUBSET D -> V] : \A s \in SUBSET D :
                   Cardinality(s) <= n => Eq(g, s)}
<1>1. \A s \in SUBSET D : IsFiniteSet(s) /\ Cardinality(s) \in Nat
  BY FS_Subset, FS_CardinalityType
<1>2. 0 \in N
  <2>1. [s \in SUBSET D |-> base] \in [SUBSET D -> V]
    OBVIOUS
  <2>2. \A s \in SUBSET D : Cardinality(s) <= 0 => s = {}
    BY <1>1, FS_EmptySet
  <2> QED
    BY <2>1, <2>2 DEF Follows
<1>3. ASSUME NEW n \in Nat, n \in N PROVE n + 1 \in N
  <2>1. PICK g \in [SUBSET D -> V] : \A s \in SUBSET D : Cardinality(s) <= n => Eq(g, s)
    BY <1>3
  <2> DEFINE h == [s \in SUBSET D |->
                     IF s = {} THEN base ELSE step[<<g[s \ {c[s]}], c[s]>>]]
  <2>2. h \in [SUBSET D -> V]
    BY DEF Chooses
  <2>3. \A s \in SUBSET D : Cardinality(s) <= n => h[s] = g[s]
    BY <2>1 DEF Follows
  <2>4. ASSUME NEW s \in SUBSET D, Cardinality(s) <= n + 1 PROVE Eq(h, s)
    <3>1. CASE s = {}
      BY <3>1 DEF Follows
    <3>2. CASE s # {}
      <4>1. c[s] \in s /\ s \ {c[s]} \in SUBSET D
        BY <3>2 DEF Chooses
      <4>2. Cardinality(s \ {c[s]}) = Cardinality(s) - 1
        BY <1>1, <4>1, FS_RemoveElement
      <4>3. Cardinality(s \ {c[s]}) <= n
        BY <1>1, <2>4, <4>2
      <4>4. h[s \ {c[s]}] = g[s \ {c[s]}]
        BY <2>3, <4>1, <4>3
      <4>5. h[s] = step[<<g[s \ {c[s]}], c[s]>>]
        BY <3>2
      <4> QED
        BY <3>2, <4>4, <4>5 DEF Follows
    <3> QED
      BY <3>1, <3>2
  <2> HIDE DEF h, Eq
  <2>5. \E k \in [SUBSET D -> V] : \A s \in SUBSET D : Cardinality(s) <= n + 1 => Eq(k, s)
    BY <2>2, <2>4
  <2> QED
    BY <2>5
<1>4. Nat \subseteq N
  <2> HIDE DEF N
  <2> QED
    BY <1>2, <1>3, NatInduct
<1>5. PICK g \in [SUBSET D -> V] :
        \A s \in SUBSET D : Cardinality(s) <= Cardinality(D) => Eq(g, s)
  BY <1>1, <1>4
<1>6. \A s \in SUBSET D : Cardinality(s) <= Cardinality(D)
  BY FS_Subset
<1> QED
  BY <1>5, <1>6 DEF FoldTable

\* What each step of a fold keeps, of the part it has come to, the fold keeps.
LEMMA FoldKeeps ==
  ASSUME NEW D, IsFiniteSet(D), NEW c, Chooses(c, D), NEW g, NEW W,
         g[{}] \in W[{}],
         \A s \in SUBSET D : s # {} /\ g[s \ {c[s]}] \in W[s \ {c[s]}] => g[s] \in W[s]
  PROVE  g[D] \in W[D]
<1> DEFINE N == {n \in Nat : \A s \in SUBSET D : Cardinality(s) = n => g[s] \in W[s]}
<1>1. \A s \in SUBSET D : IsFiniteSet(s) /\ Cardinality(s) \in Nat
  BY FS_Subset, FS_CardinalityType
<1>2. 0 \in N
  BY <1>1, FS_EmptySet
<1>3. ASSUME NEW n \in Nat, n \in N PROVE n + 1 \in N
  <2> SUFFICES ASSUME NEW s \in SUBSET D, Cardinality(s) = n + 1 PROVE g[s] \in W[s]
    OBVIOUS
  <2>1. s # {} /\ c[s] \in s /\ s \ {c[s]} \in SUBSET D
    BY <1>1, FS_EmptySet DEF Chooses
  <2>2. Cardinality(s \ {c[s]}) = Cardinality(s) - 1
    BY <1>1, <2>1, FS_RemoveElement
  <2>3. g[s \ {c[s]}] \in W[s \ {c[s]}]
    BY <1>3, <2>1, <2>2
  <2> QED
    BY <2>1, <2>3
<1>4. Nat \subseteq N
  <2> HIDE DEF N
  <2> QED
    BY <1>2, <1>3, NatInduct
<1> QED
  BY <1>1, <1>4

\* The greatest of some numbers is there and not below any of them: what it leaves
\* to the bound has a least value.
LEMMA MaxIsGreatest ==
  ASSUME NEW n \in Nat, NEW S \in SUBSET (0 .. n), S # {}
  PROVE  Max(S) \in S /\ \A x \in S : x <= Max(S)
<1> DEFINE P == {m \in Nat : \A x \in S : ~ (n - x <= m)}
<1>1. ASSUME \A x \in S : \E y \in S : ~ (x >= y) PROVE FALSE
  <2>1. 0 \in P
    <3>1. SUFFICES ASSUME NEW x \in S, n - x <= 0 PROVE FALSE
      OBVIOUS
    <3>2. PICK y \in S : ~ (x >= y)
      BY <1>1
    <3> QED
      BY <3>1, <3>2
  <2>2. ASSUME NEW m \in Nat, m \in P PROVE m + 1 \in P
    <3>1. SUFFICES ASSUME NEW x \in S, n - x <= m + 1 PROVE FALSE
      OBVIOUS
    <3>2. PICK y \in S : ~ (x >= y)
      BY <1>1
    <3>3. n - y <= m
      BY <3>1, <3>2
    <3> QED
      BY <2>2, <3>3
  <2>3. Nat \subseteq P
    <3> HIDE DEF P
    <3> QED
      BY <2>1, <2>2, NatInduct
  <2>4. PICK x \in S : TRUE
    OBVIOUS
  <2>5. n \in P /\ n - x <= n
    BY <2>3
  <2> QED
    BY <2>5
<1>2. PICK x \in S : \A y \in S : x >= y
  BY <1>1
<1>3. Max(S) \in S /\ \A y \in S : Max(S) >= y
  BY <1>2 DEF Max
<1> QED
  BY <1>3

\* A fold over a sequence takes the positions from the last one on.
LastOf(D) == [s \in SUBSET D |-> Max(s)]

LEMMA LastChooses ==
  ASSUME NEW n \in Nat
  PROVE  IsFiniteSet(1 .. n) /\ Chooses(LastOf(1 .. n), 1 .. n)
<1>1. ASSUME NEW s \in SUBSET (1 .. n), s # {} PROVE Max(s) \in s
  <2>1. s \in SUBSET (0 .. n)
    OBVIOUS
  <2> QED
    BY <1>1, <2>1, MaxIsGreatest
<1> QED
  BY <1>1, FS_Interval DEF Chooses, LastOf

-----------------------------------------------------------------------------
(* Sums. *)

Choice(s) == CHOOSE x \in s : TRUE

\* A table of the sums of f over the subsets of D, as MapThenSumSet makes it.
SumTable(g, f, D) ==
  g = [s \in SUBSET D |-> IF s = {} THEN 0 ELSE f[Choice(s)] + g[s \ {Choice(s)}]]

\* The sum of f over D.
Sum(f, D) == (CHOOSE g : SumTable(g, f, D))[D]

LEMMA TableExists ==
  ASSUME NEW D, IsFiniteSet(D), NEW f, \A x \in D : f[x] \in Int
  PROVE  \E g \in [SUBSET D -> Int] : SumTable(g, f, D)
<1> DEFINE step == [pair \in Int \X D |-> f[pair[2]] + pair[1]]
           c == [s \in SUBSET D |-> Choice(s)]
<1>1. step \in [Int \X D -> Int]
  OBVIOUS
<1>2. Chooses(c, D)
  BY DEF Chooses, Choice
<1>3. \E g \in [SUBSET D -> Int] : FoldTable(g, D, 0, step, c)
  <2> DEFINE V == Int
             zero == 0
  <2>1. zero \in V /\ step \in [V \X D -> V]
    BY <1>1
  <2> HIDE DEF step, c, V, zero
  <2>2. \E g \in [SUBSET D -> V] : FoldTable(g, D, zero, step, c)
    BY <1>2, <2>1, Recursion
  <2> QED
    BY <2>2 DEF V, zero
<1>4. PICK g \in [SUBSET D -> Int] : \A s \in SUBSET D :
        g[s] = IF s = {} THEN 0 ELSE step[<<g[s \ {c[s]}], c[s]>>]
  BY <1>3 DEF FoldTable, Follows
<1>5. \A s \in SUBSET D : g[s] = IF s = {} THEN 0 ELSE f[Choice(s)] + g[s \ {Choice(s)}]
  <2> SUFFICES ASSUME NEW s \in SUBSET D, s # {}
               PROVE  g[s] = f[Choice(s)] + g[s \ {Choice(s)}]
    BY <1>4
  <2>1. c[s] = Choice(s) /\ c[s] \in D /\ g[s \ {c[s]}] \in Int
    BY <1>2 DEF Chooses
  <2>2. step[<<g[s \ {c[s]}], c[s]>>] = f[c[s]] + g[s \ {c[s]}]
    BY <2>1
  <2> QED
    BY <1>4, <2>1, <2>2
<1> QED
  BY <1>5 DEF SumTable

\* Two tables agree where their functions do.
LEMMA TablesAgree ==
  ASSUME NEW D, IsFiniteSet(D), NEW E, D \subseteq E, NEW f, NEW g, NEW h, NEW k,
         \A x \in D : f[x] = h[x],
         SumTable(g, f, D), SumTable(k, h, E)
  PROVE  g[D] = k[D]
<1> DEFINE N == {n \in Nat : \A s \in SUBSET D : Cardinality(s) = n => g[s] = k[s]}
<1>1. \A s \in SUBSET D : IsFiniteSet(s) /\ Cardinality(s) \in Nat
  BY FS_Subset, FS_CardinalityType
<1>2. \A s \in SUBSET D : g[s] = IF s = {} THEN 0 ELSE f[Choice(s)] + g[s \ {Choice(s)}]
  BY DEF SumTable
<1>3. \A s \in SUBSET D : k[s] = IF s = {} THEN 0 ELSE h[Choice(s)] + k[s \ {Choice(s)}]
  BY DEF SumTable
<1>4. 0 \in N
  BY <1>1, <1>2, <1>3, FS_EmptySet
<1>5. ASSUME NEW n \in Nat, n \in N PROVE n + 1 \in N
  <2> SUFFICES ASSUME NEW s \in SUBSET D, Cardinality(s) = n + 1 PROVE g[s] = k[s]
    OBVIOUS
  <2>1. s # {} /\ Choice(s) \in s
    BY FS_EmptySet DEF Choice
  <2>2. Cardinality(s \ {Choice(s)}) = Cardinality(s) - 1
    BY <1>1, <2>1, FS_RemoveElement
  <2>3. g[s \ {Choice(s)}] = k[s \ {Choice(s)}]
    BY <1>5, <2>2
  <2> QED
    BY <1>2, <1>3, <2>1, <2>3
<1>6. Nat \subseteq N
  <2> HIDE DEF N
  <2> QED
    BY <1>4, <1>5, NatInduct
<1> QED
  BY <1>1, <1>6

\* Any such table gives the sum.
LEMMA TableSum ==
  ASSUME NEW D, IsFiniteSet(D), NEW f, \A x \in D : f[x] \in Int, NEW g, SumTable(g, f, D)
  PROVE  g[D] = Sum(f, D)
<1>1. SumTable(CHOOSE k : SumTable(k, f, D), f, D)
  OBVIOUS
<1> QED
  BY <1>1, TablesAgree DEF Sum

LEMMA SumSame ==
  ASSUME NEW D, IsFiniteSet(D), NEW f, NEW h,
         \A x \in D : f[x] \in Int /\ f[x] = h[x]
  PROVE  Sum(f, D) = Sum(h, D)
<1>1. PICK g : SumTable(g, f, D)
  BY TableExists
<1>2. PICK k : SumTable(k, h, D)
  BY TableExists
<1>3. g[D] = k[D]
  BY <1>1, <1>2, TablesAgree
<1> QED
  BY <1>1, <1>2, <1>3, TableSum

LEMMA SumEmpty == ASSUME NEW f PROVE Sum(f, {}) = 0
<1>1. PICK g : SumTable(g, f, {})
  BY TableExists, FS_EmptySet
<1>2. g[{}] = 0
  BY <1>1 DEF SumTable
<1> QED
  BY <1>1, <1>2, TableSum, FS_EmptySet

\* The element that is taken first.
LEMMA SumFirst ==
  ASSUME NEW D, IsFiniteSet(D), D # {}, NEW f, \A x \in D : f[x] \in Int
  PROVE  /\ Sum(f, D) = f[Choice(D)] + Sum(f, D \ {Choice(D)})
         /\ Choice(D) \in D
<1>1. Choice(D) \in D
  BY DEF Choice
<1>2. PICK g \in [SUBSET D -> Int] : SumTable(g, f, D)
  BY TableExists
<1> DEFINE E == D \ {Choice(D)}
<1>3. IsFiniteSet(E) /\ E \subseteq D /\ \A x \in E : f[x] \in Int
  BY <1>1, FS_RemoveElement
<1>4. PICK k : SumTable(k, f, E)
  BY <1>3, TableExists
<1>5. k[E] = g[E]
  BY <1>2, <1>3, <1>4, TablesAgree
<1>6. g[D] = f[Choice(D)] + g[E]
  BY <1>2 DEF SumTable
<1>7. g[D] = Sum(f, D) /\ k[E] = Sum(f, E)
  BY <1>2, <1>3, <1>4, TableSum
<1> QED
  BY <1>1, <1>5, <1>6, <1>7

LEMMA SumType ==
  ASSUME NEW D, IsFiniteSet(D), NEW f, \A x \in D : f[x] \in Int
  PROVE  Sum(f, D) \in Int
<1>1. PICK g \in [SUBSET D -> Int] : SumTable(g, f, D)
  BY TableExists
<1> QED
  BY <1>1, TableSum

\* Whichever element is taken first.
LEMMA SumRemove ==
  ASSUME NEW D, IsFiniteSet(D), NEW f, \A x \in D : f[x] \in Int, NEW d \in D
  PROVE  Sum(f, D) = f[d] + Sum(f, D \ {d})
<1> DEFINE N == {n \in Nat : \A s \in SUBSET D : \A x \in s :
                  Cardinality(s) = n => Sum(f, s) = f[x] + Sum(f, s \ {x})}
<1>1. \A s \in SUBSET D : /\ IsFiniteSet(s) /\ Cardinality(s) \in Nat
                          /\ \A x \in s : f[x] \in Int
                          /\ Sum(f, s) \in Int
  BY FS_Subset, FS_CardinalityType, SumType
<1>2. 0 \in N
  BY <1>1, FS_EmptySet
<1>3. ASSUME NEW n \in Nat, n \in N PROVE n + 1 \in N
  <2> SUFFICES ASSUME NEW s \in SUBSET D, NEW x \in s, Cardinality(s) = n + 1
               PROVE  Sum(f, s) = f[x] + Sum(f, s \ {x})
    OBVIOUS
  <2> DEFINE y == Choice(s)
  <2>1. Sum(f, s) = f[y] + Sum(f, s \ {y}) /\ y \in s
    BY <1>1, SumFirst
  <2>2. CASE x = y
    BY <2>1, <2>2
  <2>3. CASE x # y
    <3>1. Cardinality(s \ {y}) = Cardinality(s) - 1 /\ Cardinality(s \ {x}) = Cardinality(s) - 1
      BY <1>1, <2>1, FS_RemoveElement
    <3>2. Cardinality(s \ {y}) = n /\ Cardinality(s \ {x}) = n
      BY <3>1
    <3>3. Sum(f, s \ {y}) = f[x] + Sum(f, (s \ {y}) \ {x})
      BY <1>3, <2>1, <2>3, <3>2
    <3>4. Sum(f, s \ {x}) = f[y] + Sum(f, (s \ {x}) \ {y})
      BY <1>3, <2>1, <2>3, <3>2
    <3>5. (s \ {y}) \ {x} = (s \ {x}) \ {y} /\ (s \ {y}) \ {x} \in SUBSET D
      OBVIOUS
    <3>6. f[x] \in Int /\ f[y] \in Int /\ Sum(f, (s \ {y}) \ {x}) \in Int
      BY <1>1, <2>1, <3>5
    <3>7. Sum(f, (s \ {x}) \ {y}) = Sum(f, (s \ {y}) \ {x})
      BY <3>5
    <3> HIDE DEF y
    <3> QED
      BY <2>1, <3>3, <3>4, <3>6, <3>7
  <2> QED
    BY <2>2, <2>3
<1>4. Nat \subseteq N
  <2> HIDE DEF N
  <2> QED
    BY <1>2, <1>3, NatInduct
<1> QED
  BY <1>1, <1>4

LEMMA SumInsert ==
  ASSUME NEW D, IsFiniteSet(D), NEW d, d \notin D, NEW f,
         \A x \in D \cup {d} : f[x] \in Int
  PROVE  Sum(f, D \cup {d}) = f[d] + Sum(f, D)
<1>1. IsFiniteSet(D \cup {d}) /\ (D \cup {d}) \ {d} = D
  BY FS_AddElement
<1> QED
  BY <1>1, SumRemove

\* A part of a sum of natural numbers is not more than the sum.
LEMMA SumMonotone ==
  ASSUME NEW D, IsFiniteSet(D), NEW E \in SUBSET D, NEW f, \A x \in D : f[x] \in Nat
  PROVE  Sum(f, E) <= Sum(f, D)
<1> DEFINE P == {s \in SUBSET D : Sum(f, E \cap s) <= Sum(f, s)}
<1>1. /\ \A x \in D : f[x] \in Int
      /\ \A s \in SUBSET D : IsFiniteSet(s) /\ Sum(f, s) \in Int
  BY FS_Subset, SumType
<1>2. {} \in P
  BY <1>1
<1>3. ASSUME NEW s \in SUBSET D, NEW x \in D \ s, s \in P PROVE s \cup {x} \in P
  <2> SUFFICES Sum(f, E \cap (s \cup {x})) <= Sum(f, s \cup {x})
    OBVIOUS
  <2>1. Sum(f, s \cup {x}) = f[x] + Sum(f, s) /\ Sum(f, s) \in Int /\ f[x] \in Nat
    BY <1>1, SumInsert
  <2>2. CASE x \in E
    <3>1. E \cap (s \cup {x}) = (E \cap s) \cup {x} /\ E \cap s \in SUBSET D
      BY <2>2
    <3>2. Sum(f, (E \cap s) \cup {x}) = f[x] + Sum(f, E \cap s)
      BY <1>1, <3>1, SumInsert
    <3>3. Sum(f, E \cap s) <= Sum(f, s) /\ Sum(f, E \cap s) \in Int
      BY <1>1, <1>3, <3>1
    <3>4. Sum(f, E \cap (s \cup {x})) = f[x] + Sum(f, E \cap s)
      BY <3>1, <3>2
    <3> QED
      BY <2>1, <3>3, <3>4
  <2>3. CASE x \notin E
    <3>1. E \cap (s \cup {x}) = E \cap s /\ E \cap s \in SUBSET D
      BY <2>3
    <3> QED
      BY <1>1, <1>3, <2>1, <3>1
  <2> QED
    BY <2>2, <2>3
<1>4. D \in P
  <2> HIDE DEF P
  <2> QED
    BY <1>2, <1>3, SetInduct
<1>5. E \cap D = E
  OBVIOUS
<1> QED
  BY <1>4, <1>5

\* The images of finitely many elements.
LEMMA ImageIsFinite ==
  ASSUME NEW D, IsFiniteSet(D), NEW b
  PROVE  IsFiniteSet({b[x] : x \in D})
<1> DEFINE I(s) == {b[x] : x \in s}
           P == {s \in SUBSET D : IsFiniteSet(I(s))}
<1>1. {} \in P
  <2>1. I({}) = {}
    OBVIOUS
  <2> QED
    BY <2>1, FS_EmptySet
<1>2. ASSUME NEW s \in SUBSET D, NEW x \in D \ s, s \in P PROVE s \cup {x} \in P
  <2>1. I(s \cup {x}) = I(s) \cup {b[x]} /\ IsFiniteSet(I(s))
    BY <1>2
  <2>2. IsFiniteSet(I(s) \cup {b[x]})
    <3> HIDE DEF I
    <3> QED
      BY <2>1, FS_AddElement
  <2> QED
    BY <2>1, <2>2
<1>3. D \in P
  <2> HIDE DEF P
  <2> QED
    BY <1>1, <1>2, SetInduct
<1> QED
  BY <1>3

\* The elements may be replaced one by one.
LEMMA SumImage ==
  ASSUME NEW D, IsFiniteSet(D), NEW b, \A x, y \in D : b[x] = b[y] => x = y,
         NEW f, NEW h, \A x \in D : f[x] \in Int /\ h[b[x]] = f[x]
  PROVE  Sum(h, {b[x] : x \in D}) = Sum(f, D)
<1> DEFINE I(s) == {b[x] : x \in s}
           P == {s \in SUBSET D : Sum(h, I(s)) = Sum(f, s)}
<1>1. \A s \in SUBSET D : IsFiniteSet(s) /\ IsFiniteSet(I(s))
  BY FS_Subset, ImageIsFinite
<1>2. {} \in P
  <2>1. I({}) = {}
    OBVIOUS
  <2> QED
    BY <2>1, SumEmpty
<1>3. ASSUME NEW s \in SUBSET D, NEW x \in D \ s, s \in P PROVE s \cup {x} \in P
  <2>1. I(s \cup {x}) = I(s) \cup {b[x]} /\ b[x] \notin I(s)
    OBVIOUS
  <2>2. \A z \in I(s) \cup {b[x]} : h[z] \in Int
    OBVIOUS
  <2>3. Sum(f, s \cup {x}) = f[x] + Sum(f, s)
    BY <1>1, SumInsert
  <2>4. IsFiniteSet(I(s)) /\ Sum(h, I(s)) = Sum(f, s)
    BY <1>1, <1>3
  <2> HIDE DEF I
  <2>5. Sum(h, I(s) \cup {b[x]}) = h[b[x]] + Sum(h, I(s))
    BY <2>1, <2>2, <2>4, SumInsert
  <2> QED
    BY <2>1, <2>3, <2>4, <2>5
<1>4. D \in P
  <2> HIDE DEF P
  <2> QED
    BY <1>2, <1>3, SetInduct
<1> QED
  BY <1>4

\* The sum over two parts.
LEMMA SumUnion ==
  ASSUME NEW A, IsFiniteSet(A), NEW B, IsFiniteSet(B), A \cap B = {},
         NEW f, \A x \in A \cup B : f[x] \in Int
  PROVE  Sum(f, A \cup B) = Sum(f, A) + Sum(f, B)
<1> DEFINE P == {s \in SUBSET B : Sum(f, A \cup s) = Sum(f, A) + Sum(f, s)}
<1>1. Sum(f, A) \in Int
  BY SumType
<1>2. {} \in P
  BY <1>1, SumEmpty
<1>3. ASSUME NEW s \in SUBSET B, NEW x \in B \ s, s \in P PROVE s \cup {x} \in P
  <2>1. IsFiniteSet(s) /\ IsFiniteSet(A \cup s)
    BY FS_Subset, FS_Union
  <2>2. Sum(f, s \cup {x}) = f[x] + Sum(f, s)
    BY <2>1, SumInsert
  <2>3. Sum(f, (A \cup s) \cup {x}) = f[x] + Sum(f, A \cup s)
    <3>1. x \notin A \cup s /\ \A z \in (A \cup s) \cup {x} : f[z] \in Int
      OBVIOUS
    <3> QED
      BY <2>1, <3>1, SumInsert
  <2>4. Sum(f, A \cup (s \cup {x})) = f[x] + Sum(f, A \cup s)
    <3>1. A \cup (s \cup {x}) = (A \cup s) \cup {x}
      OBVIOUS
    <3> QED
      BY <2>3, <3>1
  <2>5. Sum(f, s) \in Int /\ f[x] \in Int
    BY <2>1, SumType
  <2>6. Sum(f, A \cup s) = Sum(f, A) + Sum(f, s)
    BY <1>3
  <2>7. Sum(f, A \cup (s \cup {x})) = Sum(f, A) + Sum(f, s \cup {x})
    BY <1>1, <2>2, <2>4, <2>5, <2>6
  <2> QED
    BY <2>7
<1>4. B \in P
  <2> HIDE DEF P
  <2> QED
    BY <1>2, <1>3, SetInduct
<1> QED
  BY <1>4

\* The sum over the elements is the sum over their kinds of the sum over each.
LEMMA SumOfParts ==
  ASSUME NEW D, IsFiniteSet(D), NEW f, \A x \in D : f[x] \in Int,
         NEW K, IsFiniteSet(K), NEW kind, \A x \in D : kind[x] \in K,
         NEW of, \A k \in K : \A x : x \in of[k] <=> x \in D /\ kind[x] = k,
         NEW h, \A k \in K : h[k] = Sum(f, of[k])
  PROVE  Sum(h, K) = Sum(f, D)
<1> DEFINE In(s) == {x \in D : kind[x] \in s}
           P == {s \in SUBSET K : Sum(h, s) = Sum(f, In(s))}
<1>1. \A k \in K : of[k] \subseteq D
  OBVIOUS
<1>2. /\ \A s : IsFiniteSet(In(s)) /\ Sum(f, In(s)) \in Int
      /\ \A k \in K : IsFiniteSet(of[k]) /\ Sum(f, of[k]) \in Int
  <2>1. ASSUME NEW E \in SUBSET D PROVE IsFiniteSet(E) /\ Sum(f, E) \in Int
    <3>1. IsFiniteSet(E)
      BY FS_Subset
    <3> QED
      BY <3>1, SumType
  <2> QED
    BY <1>1, <2>1
<1>3. \A k \in K : h[k] \in Int
  BY <1>2
<1>4. {} \in P
  <2>1. In({}) = {}
    OBVIOUS
  <2> QED
    BY <2>1, SumEmpty
<1>5. ASSUME NEW s \in SUBSET K, NEW k \in K \ s, s \in P PROVE s \cup {k} \in P
  <2>1. /\ In(s \cup {k}) = In(s) \cup of[k] /\ In(s) \cap of[k] = {}
        /\ \A x \in In(s) \cup of[k] : f[x] \in Int
    OBVIOUS
  <2>2. IsFiniteSet(s) /\ \A j \in s \cup {k} : h[j] \in Int
    BY <1>3, FS_Subset
  <2>3. Sum(h, s \cup {k}) = h[k] + Sum(h, s)
    BY <2>2, SumInsert
  <2>4. Sum(h, s) = Sum(f, In(s))
    BY <1>5
  <2> HIDE DEF In
  <2>5. Sum(f, In(s) \cup of[k]) = Sum(f, In(s)) + Sum(f, of[k])
    BY <1>2, <2>1, SumUnion
  <2>6. /\ h[k] = Sum(f, of[k]) /\ Sum(f, of[k]) \in Int /\ Sum(f, In(s)) \in Int
        /\ In(s \cup {k}) = In(s) \cup of[k]
    BY <1>2, <2>1
  <2>7. Sum(f, In(s \cup {k})) = Sum(f, In(s)) + Sum(f, of[k])
    BY <2>5, <2>6
  <2>8. Sum(h, s \cup {k}) = Sum(f, In(s \cup {k}))
    BY <2>3, <2>4, <2>6, <2>7
  <2> QED
    BY <2>8
<1>6. K \in P
  <2> HIDE DEF P
  <2> QED
    BY <1>4, <1>5, SetInduct
<1>7. In(K) = D
  OBVIOUS
<1> QED
  BY <1>6, <1>7
=============================================================================
