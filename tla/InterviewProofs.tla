-------------------------- MODULE InterviewProofs ---------------------------
(* What is read from an interview promises: how what is said is read, the
   claims and the scores computed from them, the scorecards of the human rounds,
   the rubrics' weights and the report, for any number of sentences, claims,
   cards, months and events.  Each part below is about
   one component alone, under the name the MC modules give its instance.  A
   part declares the component's constants and variables by their own names; a
   name that an earlier part has declared stands in the later one for its own.
   A part then says what its bounds are assumed to be and the type of its
   state, goes on to what keeps its promise true from step to step, and ends
   with its theorems.                                                        *)
EXTENDS Integers, Sequences, FiniteSets, FiniteSetsExt, TLAPS, FiniteSetTheorems, SequenceTheorems, WellFoundedInduction

-----------------------------------------------------------------------------
(* Folds and sums over finite sets, and quotients of whole numbers.  The sum over a set is
   that of a table of the sums over all its subsets, each one the sum of an
   element the subset is asked for and of the rest; what holds of every sum is
   shown of a smallest set that it would fail of.                            *)

SumOver(S, F) == MapThenSumSet(LAMBDA x : F[x], S)

Pick(t) == CHOOSE x \in t : TRUE
Added(F, t, g) == IF t = {} THEN 0 ELSE F[Pick(t)] + g[t \ {Pick(t)}]
Tables(S, F, g) == \A t \in SUBSET S : g[t] = Added(F, t, g)
Whole(S, F) == \A x \in S : F[x] \in Int

LEMMA LeastOf ==
    ASSUME NEW T, T \subseteq Nat, T # {}
    PROVE  \E z \in T : \A y \in T : z <= y
<1> DEFINE R == OpToRel(<, Nat)
<1>1. PICK z \in T : \A y \in T : <<y, z>> \notin R
  <2>1. IsWellFoundedOn(R, Nat)
    BY NatLessThanWellFounded
  <2> HIDE DEF R
  <2> QED
    BY <2>1, WFMin
<1>2. ASSUME NEW y \in T PROVE z <= y
  <2>1. y \in Nat /\ z \in Nat
    OBVIOUS
  <2>2. ~(y < z)
    BY <1>1, <2>1 DEF OpToRel
  <2> QED
    BY <2>1, <2>2
<1> QED
  BY <1>2

(* Whole numbers up to a bound have a greatest.                              *)
LEMMA GreatestOf ==
    ASSUME NEW T, NEW b \in Nat, \A y \in T : y \in Nat /\ y <= b, T # {}
    PROVE  \E z \in T : \A y \in T : y <= z
<1> DEFINE M == {b - y : y \in T}
<1>1. M # {} /\ M \subseteq Nat
  <2>1. \A y \in T : b - y \in Nat
    OBVIOUS
  <2> QED
    BY <2>1
<1>2. PICK m \in M : \A y \in M : m <= y
  <2> HIDE DEF M
  <2> QED
    BY <1>1, LeastOf
<1>3. PICK z \in T : m = b - z
  OBVIOUS
<1>4. ASSUME NEW y \in T PROVE y <= z
  <2>1. b - z <= b - y
    BY <1>2, <1>3
  <2> QED
    BY <2>1
<1> QED
  BY <1>4

LEMMA PickIsIn == ASSUME NEW t, t # {} PROVE Pick(t) \in t
BY DEF Pick

LEMMA OneLess ==
    ASSUME NEW S, IsFiniteSet(S), NEW t \in SUBSET S, t # {}
    PROVE  /\ t \ {Pick(t)} \in SUBSET S /\ Pick(t) \in S
           /\ Cardinality(t) \in Nat /\ Cardinality(t \ {Pick(t)}) = Cardinality(t) - 1 /\ Cardinality(t) >= 1
<1>1. IsFiniteSet(t) /\ Pick(t) \in t
  BY PickIsIn, FS_Subset
<1>2. Cardinality(t) \in Nat /\ Cardinality(t) # 0
  BY <1>1, FS_CardinalityType, FS_EmptySet
<1>3. Cardinality(t \ {Pick(t)}) = Cardinality(t) - 1
  BY <1>1, FS_RemoveElement
<1> QED
  BY <1>1, <1>2, <1>3

(* What holds of a subset when it holds of all smaller ones holds of every one. *)
LEMMA SmallerFirst ==
    ASSUME NEW S, IsFiniteSet(S), NEW T,
           \A t \in SUBSET S : (\A u \in SUBSET S : Cardinality(u) < Cardinality(t) => u \in T) => t \in T
    PROVE  \A t \in SUBSET S : t \in T
<1> DEFINE Fails == {n \in Nat : \E t \in SUBSET S : Cardinality(t) = n /\ t \notin T}
<1>1. \A t \in SUBSET S : Cardinality(t) \in Nat
  BY FS_Subset, FS_CardinalityType
<1>2. ASSUME Fails # {} PROVE FALSE
  <2>1. PICK n \in Fails : \A m \in Fails : n <= m
    BY <1>2, LeastOf
  <2>2. PICK t \in SUBSET S : Cardinality(t) = n /\ t \notin T
    OBVIOUS
  <2>3. ASSUME NEW u \in SUBSET S, Cardinality(u) < Cardinality(t) PROVE u \in T
    <3> SUFFICES ASSUME u \notin T PROVE FALSE
      OBVIOUS
    <3>1. Cardinality(u) \in Fails
      BY <1>1
    <3>2. n <= Cardinality(u)
      <4> HIDE DEF Fails
      <4> QED
        BY <2>1, <3>1
    <3> QED
      BY <1>1, <2>2, <2>3, <3>2
  <2> QED
    BY <2>2, <2>3
<1> QED
  BY <1>1, <1>2

(* So does what holds of the empty set, and of a set when it holds without the
   element the set is asked for.                                             *)
LEMMA OneByOne ==
    ASSUME NEW S, IsFiniteSet(S), NEW T, {} \in T, \A t \in SUBSET S : t # {} /\ t \ {Pick(t)} \in T => t \in T
    PROVE  \A t \in SUBSET S : t \in T
<1>1. ASSUME NEW t \in SUBSET S, \A u \in SUBSET S : Cardinality(u) < Cardinality(t) => u \in T PROVE t \in T
  <2>1. CASE t = {}
    BY <2>1
  <2>2. CASE t # {}
    <3>1. t \ {Pick(t)} \in SUBSET S /\ Cardinality(t \ {Pick(t)}) < Cardinality(t)
      BY <2>2, OneLess
    <3> QED
      BY <1>1, <2>2, <3>1
  <2> QED
    BY <2>1, <2>2
<1> QED
  BY <1>1, SmallerFirst

(* What is folded over the subsets of S, each one what the element the subset
   is asked for makes of the rest: b is what the empty set has, c says which
   element a subset is asked for and F what it makes of the rest.            *)
Asks(S, c) == \A t \in SUBSET S : t # {} => c[t] \in t
Folded(b, c, F, t, g) == IF t = {} THEN b ELSE F[<<c[t], g[t \ {c[t]}]>>]
FoldTables(S, b, c, F, g) == \A t \in SUBSET S : g[t] = Folded(b, c, F, t, g)

LEMMA AskedLess ==
    ASSUME NEW S, IsFiniteSet(S), NEW t \in SUBSET S, NEW x \in t
    PROVE  /\ t \ {x} \in SUBSET S /\ x \in S
           /\ Cardinality(t) \in Nat /\ Cardinality(t \ {x}) = Cardinality(t) - 1 /\ Cardinality(t) >= 1
<1>1. IsFiniteSet(t)
  BY FS_Subset
<1>2. Cardinality(t) \in Nat /\ Cardinality(t) # 0
  BY <1>1, FS_CardinalityType, FS_EmptySet
<1>3. Cardinality(t \ {x}) = Cardinality(t) - 1
  BY <1>1, FS_RemoveElement
<1> QED
  BY <1>2, <1>3

LEMMA FoldsExist ==
    ASSUME NEW S, IsFiniteSet(S), NEW V, NEW b \in V, NEW c, Asks(S, c), NEW F \in [S \X V -> V]
    PROVE  \E g \in [SUBSET S -> V] : FoldTables(S, b, c, F, g)
<1> DEFINE Upto(n) == \E g \in [SUBSET S -> V] : \A t \in SUBSET S : Cardinality(t) <= n => g[t] = Folded(b, c, F, t, g)
           Fails == {n \in Nat : ~Upto(n)}
<1>1. ASSUME Fails # {} PROVE FALSE
  <2>1. PICK n \in Fails : \A m \in Fails : n <= m
    BY <1>1, LeastOf
  <2>2. n \in Nat /\ ~Upto(n)
    OBVIOUS
  <2>3. \A t \in SUBSET S : Cardinality(t) \in Nat
    BY FS_Subset, FS_CardinalityType
  <2>4. n # 0
    <3> SUFFICES ASSUME n = 0 PROVE FALSE
      OBVIOUS
    <3>1. [t \in SUBSET S |-> b] \in [SUBSET S -> V]
      OBVIOUS
    <3>2. ASSUME NEW t \in SUBSET S, Cardinality(t) <= 0 PROVE t = {}
      <4> SUFFICES ASSUME t # {} PROVE FALSE
        OBVIOUS
      <4>1. PICK x \in t : TRUE
        OBVIOUS
      <4>2. Cardinality(t) >= 1 /\ Cardinality(t) \in Nat
        BY AskedLess
      <4> QED
        BY <3>2, <4>2
    <3>3. Upto(0)
      BY <3>1, <3>2 DEF Folded
    <3> QED
      BY <2>2, <3>3
  <2>5. n - 1 \in Nat /\ n - 1 \notin Fails
    <3>1. n - 1 \in Nat /\ ~(n <= n - 1)
      BY <2>2, <2>4
    <3> HIDE DEF Fails
    <3> QED
      BY <2>1, <3>1
  <2>6. Upto(n - 1)
    BY <2>5
  <2>7. PICK g \in [SUBSET S -> V] : \A t \in SUBSET S : Cardinality(t) <= n - 1 => g[t] = Folded(b, c, F, t, g)
    BY <2>6
  <2> DEFINE h == [t \in SUBSET S |-> Folded(b, c, F, t, g)]
  <2>8. h \in [SUBSET S -> V]
    <3> SUFFICES ASSUME NEW t \in SUBSET S PROVE Folded(b, c, F, t, g) \in V
      OBVIOUS
    <3>1. CASE t = {}
      BY <3>1 DEF Folded
    <3>2. CASE t # {}
      <4>1. c[t] \in t /\ c[t] \in S /\ g[t \ {c[t]}] \in V
        BY <3>2 DEF Asks
      <4> QED
        BY <3>2, <4>1 DEF Folded
    <3> QED
      BY <3>1, <3>2
  <2>9. ASSUME NEW t \in SUBSET S, Cardinality(t) <= n PROVE h[t] = Folded(b, c, F, t, h)
    <3>1. CASE t = {}
      BY <3>1 DEF Folded
    <3>2. CASE t # {}
      <4> DEFINE u == t \ {c[t]}
      <4>1. u \in SUBSET S /\ Cardinality(u) <= n - 1
        BY <2>2, <2>9, <3>2, AskedLess DEF Asks
      <4>2. h[u] = g[u]
        BY <2>7, <4>1
      <4> QED
        BY <3>2, <4>2 DEF Folded
    <3> QED
      BY <3>1, <3>2
  <2>10. Upto(n)
    <3> HIDE DEF h
    <3> QED
      BY <2>8, <2>9
  <2> QED
    BY <2>2, <2>10
<1>2. Cardinality(S) \in Nat
  BY FS_CardinalityType
<1>3. Upto(Cardinality(S))
  BY <1>1, <1>2
<1>4. \A t \in SUBSET S : Cardinality(t) <= Cardinality(S)
  BY FS_Subset
<1> QED
  BY <1>3, <1>4 DEF FoldTables

(* The sum over every subset of S, by the order in which elements are chosen. *)
LEMMA SumsExist ==
    ASSUME NEW S, IsFiniteSet(S), NEW F, Whole(S, F)
    PROVE  \E g \in [SUBSET S -> Int] : Tables(S, F, g)
<1> DEFINE c == [t \in SUBSET S |-> Pick(t)]
           P == [p \in S \X Int |-> F[p[1]] + p[2]]
<1>1. Asks(S, c)
  BY PickIsIn DEF Asks
<1>2. P \in [S \X Int -> Int]
  BY DEF Whole
<1>3. PICK g \in [SUBSET S -> Int] : FoldTables(S, 0, c, P, g)
  <2> HIDE DEF c, P
  <2>1. 0 \in Int
    OBVIOUS
  <2> QED
    BY <1>1, <1>2, <2>1, FoldsExist
<1>4. ASSUME NEW t \in SUBSET S PROVE g[t] = Added(F, t, g)
  <2>1. CASE t = {}
    BY <1>3, <2>1 DEF FoldTables, Folded, Added
  <2>2. CASE t # {}
    <3>1. c[t] = Pick(t) /\ Pick(t) \in S /\ t \ {Pick(t)} \in SUBSET S
      BY <2>2, PickIsIn
    <3>2. P[<<Pick(t), g[t \ {Pick(t)}]>>] = F[Pick(t)] + g[t \ {Pick(t)}]
      BY <3>1
    <3> QED
      BY <1>3, <2>2, <3>1, <3>2 DEF FoldTables, Folded, Added
  <2> QED
    BY <2>1, <2>2
<1> QED
  BY <1>4 DEF Tables

(* There is only one such table.                                             *)
LEMMA SumsAgree ==
    ASSUME NEW S, IsFiniteSet(S), NEW F, NEW g, NEW h, Tables(S, F, g), Tables(S, F, h)
    PROVE  \A t \in SUBSET S : g[t] = h[t]
<1> DEFINE T == {t \in SUBSET S : g[t] = h[t]}
<1>1. {} \in T
  BY DEF Added, Tables
<1>2. ASSUME NEW t \in SUBSET S, t # {}, t \ {Pick(t)} \in T PROVE t \in T
  BY <1>2 DEF Added, Tables
<1>3. \A t \in SUBSET S : t \in T
  <2> HIDE DEF T
  <2> QED
    BY <1>1, <1>2, OneByOne
<1> QED
  BY <1>3

LEMMA SumIsTabled ==
    ASSUME NEW S, IsFiniteSet(S), NEW F, Whole(S, F)
    PROVE  \E g \in [SUBSET S -> Int] : SumOver(S, F) = g[S] /\ Tables(S, F, g)
<1> DEFINE I == CHOOSE iter : iter = [s \in SUBSET S |-> IF s = {} THEN 0 ELSE F[CHOOSE x \in s : TRUE] + iter[s \ {CHOOSE x \in s : TRUE}]]
<1>1. SumOver(S, F) = I[S]
  BY DEF SumOver, MapThenSumSet, MapThenFoldSet
<1>2. PICK g \in [SUBSET S -> Int] : Tables(S, F, g)
  BY SumsExist
<1>3. g = [s \in SUBSET S |-> IF s = {} THEN 0 ELSE F[CHOOSE x \in s : TRUE] + g[s \ {CHOOSE x \in s : TRUE}]]
  BY <1>2 DEF Added, Pick, Tables
<1>4. I = [s \in SUBSET S |-> IF s = {} THEN 0 ELSE F[CHOOSE x \in s : TRUE] + I[s \ {CHOOSE x \in s : TRUE}]]
  BY <1>3
<1>5. Tables(S, F, I)
  <2> HIDE DEF I
  <2>1. ASSUME NEW t \in SUBSET S
        PROVE  I[t] = IF t = {} THEN 0 ELSE F[CHOOSE x \in t : TRUE] + I[t \ {CHOOSE x \in t : TRUE}]
    BY <1>4
  <2> QED
    BY <2>1 DEF Added, Pick, Tables
<1> HIDE DEF I
<1>6. \A t \in SUBSET S : I[t] = g[t]
  BY <1>2, <1>5, SumsAgree
<1> QED
  BY <1>1, <1>2, <1>6

(* Of two sums over one set, the one whose every part is less is less; a
   factor common to all parts is one of the sum, and what every part is off by
   adds up to as many times the elements.                                    *)
LEMMA SumsDiffer ==
    ASSUME NEW S, IsFiniteSet(S), NEW F, NEW G, NEW k \in Int, NEW m \in Int, NEW d \in Int,
           Whole(S, F), Whole(S, G), \A x \in S : k * F[x] <= m * G[x] + d
    PROVE  /\ SumOver(S, F) \in Int /\ SumOver(S, G) \in Int /\ Cardinality(S) \in Nat
           /\ k * SumOver(S, F) <= m * SumOver(S, G) + d * Cardinality(S)
<1>1. PICK f \in [SUBSET S -> Int] : SumOver(S, F) = f[S] /\ Tables(S, F, f)
  BY SumIsTabled
<1>2. PICK g \in [SUBSET S -> Int] : SumOver(S, G) = g[S] /\ Tables(S, G, g)
  BY SumIsTabled
<1> DEFINE T == {t \in SUBSET S : k * f[t] <= m * g[t] + d * Cardinality(t)}
<1>3. {} \in T
  <2>1. f[{}] = 0 /\ g[{}] = 0 /\ Cardinality({}) = 0
    BY <1>1, <1>2, FS_EmptySet DEF Added, Tables
  <2>2. m * 0 = 0 /\ k * 0 = 0 /\ d * 0 = 0
    OBVIOUS
  <2>3. k * f[{}] <= m * g[{}] + d * Cardinality({})
    BY <2>1, <2>2
  <2> QED
    BY <2>3
<1>4. ASSUME NEW t \in SUBSET S, t # {}, t \ {Pick(t)} \in T PROVE t \in T
  <2> DEFINE u == t \ {Pick(t)}
             n == Cardinality(t)
  <2>1. u \in SUBSET S /\ Cardinality(u) = n - 1 /\ n \in Nat /\ Pick(t) \in S
    BY <1>4, OneLess
  <2>2. k * f[u] <= m * g[u] + d * (n - 1)
    BY <1>4, <2>1
  <2>3. f[t] = F[Pick(t)] + f[u] /\ g[t] = G[Pick(t)] + g[u]
    BY <1>1, <1>2, <1>4 DEF Added, Tables
  <2> HIDE DEF n
  <2>4. F[Pick(t)] \in Int /\ G[Pick(t)] \in Int /\ k * F[Pick(t)] <= m * G[Pick(t)] + d /\ f[u] \in Int /\ g[u] \in Int
    BY <2>1 DEF Whole
  <2> HIDE DEF u
  <2>5. /\ m * (G[Pick(t)] + g[u]) = m * G[Pick(t)] + m * g[u] /\ k * (F[Pick(t)] + f[u]) = k * F[Pick(t)] + k * f[u]
        /\ d * (n - 1) = d * n - d /\ d * n \in Int
    BY <2>1, <2>4
  <2>6. m * G[Pick(t)] \in Int /\ m * g[u] \in Int /\ k * F[Pick(t)] \in Int /\ k * f[u] \in Int
    BY <2>4
  <2>7. k * F[Pick(t)] + k * f[u] <= m * G[Pick(t)] + m * g[u] + d * n
    BY <2>2, <2>4, <2>5, <2>6
  <2>8. k * f[t] <= m * g[t] + d * n
    BY <2>3, <2>5, <2>7
  <2> QED
    BY <2>8 DEF n
<1>5. \A t \in SUBSET S : t \in T
  <2> HIDE DEF T
  <2> QED
    BY <1>3, <1>4, OneByOne
<1>6. k * f[S] <= m * g[S] + d * Cardinality(S)
  BY <1>5
<1> QED
  BY <1>1, <1>2, <1>6, FS_CardinalityType

LEMMA SumsCompare ==
    ASSUME NEW S, IsFiniteSet(S), NEW F, NEW G, NEW k \in Int, NEW m \in Int,
           Whole(S, F), Whole(S, G), \A x \in S : k * F[x] <= m * G[x]
    PROVE  SumOver(S, F) \in Int /\ SumOver(S, G) \in Int /\ k * SumOver(S, F) <= m * SumOver(S, G)
<1>1. \A x \in S : k * F[x] <= m * G[x] + 0
  <2> SUFFICES ASSUME NEW x \in S PROVE k * F[x] <= m * G[x] + 0
    OBVIOUS
  <2>1. F[x] \in Int /\ G[x] \in Int
    BY DEF Whole
  <2>2. m * G[x] + 0 = m * G[x]
    BY <2>1
  <2> QED
    BY <2>2
<1>2. /\ SumOver(S, F) \in Int /\ SumOver(S, G) \in Int /\ Cardinality(S) \in Nat
      /\ k * SumOver(S, F) <= m * SumOver(S, G) + 0 * Cardinality(S)
  <2>1. 0 \in Int
    OBVIOUS
  <2> QED
    BY <1>1, <2>1, SumsDiffer
<1>3. m * SumOver(S, G) + 0 * Cardinality(S) = m * SumOver(S, G)
  BY <1>2
<1> QED
  BY <1>2, <1>3

LEMMA SumIsLess ==
    ASSUME NEW S, IsFiniteSet(S), NEW F, NEW G, Whole(S, F), Whole(S, G), \A x \in S : F[x] <= G[x]
    PROVE  SumOver(S, F) \in Int /\ SumOver(S, G) \in Int /\ SumOver(S, F) <= SumOver(S, G)
<1>1. 1 \in Int
  OBVIOUS
<1>2. \A x \in S : 1 * F[x] <= 1 * G[x]
  BY DEF Whole
<1>3. SumOver(S, F) \in Int /\ SumOver(S, G) \in Int /\ 1 * SumOver(S, F) <= 1 * SumOver(S, G)
  BY <1>1, <1>2, SumsCompare
<1> QED
  BY <1>3

LEMMA SumIsNatural ==
    ASSUME NEW S, IsFiniteSet(S), NEW F, Whole(S, F), \A x \in S : F[x] >= 0
    PROVE  SumOver(S, F) \in Nat
<1>1. 0 \in Int /\ 1 \in Int
  OBVIOUS
<1>2. \A x \in S : 0 * F[x] <= 1 * F[x]
  BY DEF Whole
<1>3. SumOver(S, F) \in Int /\ 0 * SumOver(S, F) <= 1 * SumOver(S, F)
  BY <1>1, <1>2, SumsCompare
<1> QED
  BY <1>3

LEMMA SumIsPositive ==
    ASSUME NEW S, IsFiniteSet(S), S # {}, NEW F, Whole(S, F), \A x \in S : F[x] >= 1
    PROVE  SumOver(S, F) \in Int /\ SumOver(S, F) >= 1
<1>1. \A x \in S : 0 * F[x] <= 1 * F[x] + (-1)
  BY DEF Whole
<1>2. /\ SumOver(S, F) \in Int /\ Cardinality(S) \in Nat
      /\ 0 * SumOver(S, F) <= 1 * SumOver(S, F) + (-1) * Cardinality(S)
  BY <1>1, SumsDiffer
<1>3. Cardinality(S) >= 1
  BY <1>2, FS_EmptySet
<1> QED
  BY <1>2, <1>3

(* Whichever element a sum is asked for first, it comes to the same.         *)
AnyOrder(S, F, f) == \A t \in SUBSET S : \A x \in t : f[t] = F[x] + f[t \ {x}]

LEMMA AnyFirst ==
    ASSUME NEW S, IsFiniteSet(S), NEW F, Whole(S, F), NEW f \in [SUBSET S -> Int], Tables(S, F, f)
    PROVE  AnyOrder(S, F, f)
<1> DEFINE T == {t \in SUBSET S : \A x \in t : f[t] = F[x] + f[t \ {x}]}
<1>1. ASSUME NEW t \in SUBSET S, \A u \in SUBSET S : Cardinality(u) < Cardinality(t) => u \in T PROVE t \in T
  <2> SUFFICES ASSUME NEW x \in t PROVE f[t] = F[x] + f[t \ {x}]
    OBVIOUS
  <2>1. PICK p \in t : f[t] = F[p] + f[t \ {p}]
    BY PickIsIn DEF Added, Tables
  <2>2. CASE x = p
    BY <2>1, <2>2
  <2>3. CASE x # p
    <3>1. ASSUME NEW y \in t PROVE t \ {y} \in SUBSET S /\ Cardinality(t \ {y}) < Cardinality(t)
      <4>1. IsFiniteSet(t)
        BY FS_Subset
      <4>2. Cardinality(t \ {y}) = Cardinality(t) - 1 /\ Cardinality(t) \in Nat
        BY <3>1, <4>1, FS_RemoveElement, FS_CardinalityType
      <4> QED
        BY <4>2
    <3>2. t \ {x} \in T /\ t \ {p} \in T
      BY <1>1, <3>1
    <3>3. f[t \ {p}] = F[x] + f[(t \ {p}) \ {x}] /\ f[t \ {x}] = F[p] + f[(t \ {x}) \ {p}]
      BY <2>3, <3>2
    <3>4. (t \ {p}) \ {x} = (t \ {x}) \ {p}
      OBVIOUS
    <3>5. F[x] \in Int /\ F[p] \in Int /\ f[(t \ {x}) \ {p}] \in Int
      BY DEF Whole
    <3>6. F[p] + (F[x] + f[(t \ {x}) \ {p}]) = F[x] + (F[p] + f[(t \ {x}) \ {p}])
      BY <3>5
    <3> QED
      BY <2>1, <3>3, <3>4, <3>6
  <2> QED
    BY <2>2, <2>3
<1>2. \A t \in SUBSET S : t \in T
  <2> HIDE DEF T
  <2> QED
    BY <1>1, SmallerFirst
<1> QED
  BY <1>2 DEF AnyOrder

(* What changes in one element changes in the sum.                           *)
LEMMA SumChanges ==
    ASSUME NEW S, IsFiniteSet(S), NEW F, NEW G, Whole(S, F), Whole(S, G),
           NEW c \in S, \A x \in S \ {c} : F[x] = G[x]
    PROVE  SumOver(S, F) \in Int /\ SumOver(S, G) = SumOver(S, F) + G[c] - F[c]
<1>1. PICK f \in [SUBSET S -> Int] : SumOver(S, F) = f[S] /\ Tables(S, F, f)
  BY SumIsTabled
<1>2. PICK g \in [SUBSET S -> Int] : SumOver(S, G) = g[S] /\ Tables(S, G, g)
  BY SumIsTabled
<1>3. f[S] = F[c] + f[S \ {c}] /\ g[S] = G[c] + g[S \ {c}]
  <2>1. AnyOrder(S, F, f) /\ AnyOrder(S, G, g)
    BY <1>1, <1>2, AnyFirst
  <2> QED
    BY <2>1 DEF AnyOrder
<1>4. f[S \ {c}] = g[S \ {c}]
  <2>1. Tables(S \ {c}, F, f)
    BY <1>1 DEF Tables
  <2>2. Tables(S \ {c}, F, g)
    <3> SUFFICES ASSUME NEW t \in SUBSET (S \ {c}) PROVE g[t] = Added(F, t, g)
      BY DEF Tables
    <3>1. g[t] = Added(G, t, g)
      BY <1>2 DEF Tables
    <3>2. t # {} => F[Pick(t)] = G[Pick(t)]
      BY PickIsIn
    <3> QED
      BY <3>1, <3>2 DEF Added
  <2>3. IsFiniteSet(S \ {c})
    BY FS_Subset
  <2> QED
    BY <2>1, <2>2, <2>3, SumsAgree
<1>5. F[c] \in Int /\ G[c] \in Int /\ f[S \ {c}] \in Int
  BY DEF Whole
<1> QED
  BY <1>1, <1>2, <1>3, <1>4, <1>5

(* No part is more than the whole.                                           *)
LEMMA PartIsLess ==
    ASSUME NEW S, IsFiniteSet(S), NEW F, Whole(S, F), \A x \in S : F[x] >= 0
    PROVE  \A x \in S : F[x] <= SumOver(S, F)
<1> SUFFICES ASSUME NEW c \in S PROVE F[c] <= SumOver(S, F)
  OBVIOUS
<1> DEFINE G == [x \in S |-> IF x = c THEN 0 ELSE F[x]]
<1>1. /\ Whole(S, G) /\ \A x \in S \ {c} : F[x] = G[x]
      /\ \A x \in S : 0 * G[x] <= 1 * G[x]
  BY DEF Whole
<1>2. G[c] = 0
  OBVIOUS
<1> HIDE DEF G
<1>3. SumOver(S, F) \in Int /\ SumOver(S, G) = SumOver(S, F) + G[c] - F[c]
  BY <1>1, SumChanges
<1>4. SumOver(S, G) \in Int /\ 0 * SumOver(S, G) <= 1 * SumOver(S, G)
  <2>1. 0 \in Int /\ 1 \in Int
    OBVIOUS
  <2> QED
    BY <1>1, <2>1, SumsCompare
<1> QED
  BY <1>2, <1>3, <1>4 DEF Whole

(* What weighs nothing can be left out.                                      *)
LEMMA SumOfTheRest ==
    ASSUME NEW S, IsFiniteSet(S), NEW R \in SUBSET S, NEW F, Whole(S, F), \A x \in S \ R : F[x] = 0
    PROVE  SumOver(S, F) = SumOver(R, F)
<1>1. PICK f \in [SUBSET S -> Int] : SumOver(S, F) = f[S] /\ Tables(S, F, f)
  BY SumIsTabled
<1>2. IsFiniteSet(R) /\ Whole(R, F)
  BY FS_Subset DEF Whole
<1>3. PICK g \in [SUBSET R -> Int] : SumOver(R, F) = g[R] /\ Tables(R, F, g)
  BY <1>2, SumIsTabled
<1>4. AnyOrder(R, F, g)
  BY <1>2, <1>3, AnyFirst
<1> DEFINE T == {t \in SUBSET S : f[t] = g[t \cap R]}
<1>5. {} \in T
  <2>1. f[{}] = 0 /\ g[{}] = 0 /\ {} \cap R = {}
    BY <1>1, <1>3 DEF Tables, Added
  <2> QED
    BY <2>1
<1>6. ASSUME NEW t \in SUBSET S, t # {}, t \ {Pick(t)} \in T PROVE t \in T
  <2>1. PICK x \in t : f[t] = F[x] + f[t \ {x}] /\ f[t \ {x}] = g[(t \ {x}) \cap R]
    BY <1>1, <1>6, PickIsIn DEF Tables, Added
  <2>2. CASE x \in R
    <3>1. g[t \cap R] = F[x] + g[(t \cap R) \ {x}]
      <4>1. t \cap R \in SUBSET R /\ x \in t \cap R
        BY <2>2
      <4> QED
        BY <1>4, <4>1 DEF AnyOrder
    <3>2. (t \cap R) \ {x} = (t \ {x}) \cap R
      OBVIOUS
    <3> QED
      BY <2>1, <3>1, <3>2
  <2>3. CASE x \notin R
    <3>1. (t \ {x}) \cap R = t \cap R /\ F[x] = 0
      BY <2>3
    <3>2. g[t \cap R] \in Int
      <4>1. t \cap R \in SUBSET R
        OBVIOUS
      <4>2. g \in [SUBSET R -> Int]
        BY <1>3
      <4> QED
        BY <4>1, <4>2
    <3>3. f[t \ {x}] = g[t \cap R]
      BY <2>1, <3>1
    <3>4. f[t] = 0 + f[t \ {x}]
      BY <2>1, <3>1
    <3>5. f[t] = g[t \cap R]
      BY <3>2, <3>3, <3>4
    <3> QED
      BY <3>5
  <2> QED
    BY <2>2, <2>3
<1>7. S \in T
  <2> HIDE DEF T
  <2> QED
    BY <1>5, <1>6, OneByOne
<1>8. S \cap R = R
  OBVIOUS
<1> QED
  BY <1>1, <1>3, <1>7, <1>8

LEMMA SumJoins ==
    ASSUME NEW S, IsFiniteSet(S), NEW y, y \notin S, NEW F, Whole(S \cup {y}, F)
    PROVE  SumOver(S, F) \in Int /\ F[y] \in Int /\ SumOver(S \cup {y}, F) = SumOver(S, F) + F[y]
<1> DEFINE U == S \cup {y}
           G == [x \in U |-> IF x = y THEN 0 ELSE F[x]]
<1>1. IsFiniteSet(U) /\ S \in SUBSET U /\ y \in U
  BY FS_AddElement
<1>2. Whole(U, F) /\ Whole(U, G) /\ Whole(S, F) /\ Whole(S, G) /\ G[y] = 0 /\ F[y] \in Int
  BY DEF Whole
<1>3. (\A x \in U \ {y} : F[x] = G[x]) /\ (\A x \in U \ S : G[x] = 0)
  OBVIOUS
<1>4. \A x \in S : F[x] <= G[x] /\ G[x] <= F[x]
  BY <1>2 DEF Whole
<1> HIDE DEF U, G
<1>5. SumOver(U, F) \in Int /\ SumOver(U, G) = SumOver(U, F) + G[y] - F[y]
  BY <1>1, <1>2, <1>3, SumChanges
<1>6. SumOver(U, G) = SumOver(S, G)
  BY <1>1, <1>2, <1>3, SumOfTheRest
<1>7. SumOver(S, F) \in Int /\ SumOver(S, G) \in Int /\ SumOver(S, F) <= SumOver(S, G) /\ SumOver(S, G) <= SumOver(S, F)
  BY <1>2, <1>4, SumIsLess
<1> QED
  BY <1>2, <1>5, <1>6, <1>7 DEF U

(* Division of whole numbers.                                                *)
LEMMA Quotient ==
    ASSUME NEW a \in Int, NEW b \in Nat, b >= 1
    PROVE  a \div b \in Int /\ b * (a \div b) <= a /\ a < b * (a \div b) + b
OBVIOUS
LEMMA NoLess == ASSUME NEW a \in Int, NEW b \in Int, a <= b, NEW k \in Nat PROVE k * a <= k * b
<1>1. PICK d \in Nat : b = a + d
  <2>1. b - a \in Nat /\ b = a + (b - a)
    OBVIOUS
  <2> QED
    BY <2>1
<1>2. k * (a + d) = k * a + k * d /\ k * d \in Nat /\ k * a \in Int
  OBVIOUS
<1> QED
  BY <1>1, <1>2

LEMMA QuotientGrows ==
    ASSUME NEW a \in Int, NEW c \in Int, a <= c, NEW b \in Nat, b >= 1
    PROVE  a \div b <= c \div b
<1> DEFINE p == a \div b
           q == c \div b
<1>1. p \in Int /\ q \in Int /\ b * p <= a /\ c < b * q + b
  BY Quotient
<1> HIDE DEF p, q
<1>2. CASE q + 1 <= p
  <2>1. b * (q + 1) <= b * p
    BY <1>1, <1>2, NoLess
  <2>2. b * (q + 1) = b * q + b /\ b * q \in Int /\ b * p \in Int
    BY <1>1
  <2> QED
    BY <1>1, <2>1, <2>2
<1>3. CASE p <= q
  BY <1>3 DEF p, q
<1> QED
  BY <1>1, <1>2, <1>3

LEMMA MeanAtMost ==
    ASSUME NEW credit \in Int, NEW mass \in Nat, mass >= 1, NEW h \in Int, credit <= h * mass
    PROVE  (2 * 100 * credit + 4 * mass) \div (8 * mass) <= 25 * h
<1> DEFINE q == (2 * 100 * credit + 4 * mass) \div (8 * mass)
<1>1. q \in Int /\ (8 * mass) * q <= 2 * 100 * credit + 4 * mass
  <2>1. 2 * 100 * credit + 4 * mass \in Int /\ 8 * mass \in Nat /\ 8 * mass >= 1
    OBVIOUS
  <2> QED
    BY <2>1, Quotient
<1> HIDE DEF q
<1>2. CASE 25 * h + 1 <= q
  <2>1. (8 * mass) * (25 * h + 1) <= (8 * mass) * q
    <3>1. 25 * h + 1 \in Int /\ 8 * mass \in Nat
      OBVIOUS
    <3> QED
      BY <1>1, <1>2, <3>1, NoLess
  <2>2. (8 * mass) * (25 * h + 1) = 200 * (h * mass) + 8 * mass /\ h * mass \in Int
    OBVIOUS
  <2>3. (8 * mass) * q \in Int
    BY <1>1
  <2> QED
    BY <1>1, <2>1, <2>2, <2>3
<1>3. CASE q <= 25 * h
  BY <1>3 DEF q
<1> QED
  BY <1>1, <1>2, <1>3

LEMMA MeanAtLeast ==
    ASSUME NEW credit \in Int, NEW mass \in Nat, mass >= 1, NEW h \in Int, h * mass <= credit
    PROVE  25 * h <= (2 * 100 * credit + 4 * mass) \div (8 * mass)
<1> DEFINE q == (2 * 100 * credit + 4 * mass) \div (8 * mass)
<1>1. q \in Int /\ 2 * 100 * credit + 4 * mass < (8 * mass) * q + 8 * mass
  <2>1. 2 * 100 * credit + 4 * mass \in Int /\ 8 * mass \in Nat /\ 8 * mass >= 1
    OBVIOUS
  <2> QED
    BY <2>1, Quotient
<1> HIDE DEF q
<1>2. CASE q <= 25 * h - 1
  <2>1. (8 * mass) * q <= (8 * mass) * (25 * h - 1)
    <3>1. 25 * h - 1 \in Int /\ 8 * mass \in Nat
      OBVIOUS
    <3> QED
      BY <1>1, <1>2, <3>1, NoLess
  <2>2. (8 * mass) * (25 * h - 1) = 200 * (h * mass) - 8 * mass /\ h * mass \in Int
    OBVIOUS
  <2>3. (8 * mass) * q \in Int
    BY <1>1
  <2> QED
    BY <1>1, <2>1, <2>2, <2>3
<1>3. CASE 25 * h <= q
  BY <1>3 DEF q
<1> QED
  BY <1>1, <1>2, <1>3

-----------------------------------------------------------------------------
(* The claims, the probes about them and the panel's verdicts.               *)

CONSTANTS Criteria, Disqualifiers, Weight, Claim, Specificity, Statuses, Advance, Review, Mode, Runs, Interviewers,
          MaxGraphs, MaxScores, MaxCrashes
VARIABLES graphs, scores, probes, cards, work, crashes

Graph == INSTANCE Claims WITH Panel <- Interviewers

(* A scoring, an interviewer and the two machines are different workers.     *)
ClaimBounds == Interviewers \cap (Runs \cup Graph!Machines) = {} /\ Runs \cap Graph!Machines = {}

Plain == {"unverified", "contradicted_internally"}
InInterview == {"verified_in_interview", "contradicted_in_interview"}
Claimed == Plain \cup InInterview \cup
           {"verified_in_assessment", "contradicted_in_assessment", "verified_by_human", "contradicted_by_human"}
ClaimGraphs == [claims : [Claim -> Claimed], version : Nat]
Given == {"verified", "contradicted", "inconclusive"}
Heard == {<<>>} \cup UNION {[T -> Given] : T \in SUBSET Graph!Targets}
Slots == [step : {"idle", "died", "extract", "match", "verdicts", "graph", "save", "rescore", "done"},
          graph : Nat, version : Nat, verdicts : Heard]
ProbeRecords == [status : {"none", "pending", "asked", "assessed"}, verdict : Given \cup {"none"}, answer : {"none", "given", "declined"}]
PanelCards == [status : {"none", "open", "submitted", "cancelled"}, verdicts : Heard]

ClaimTypes ==
    /\ graphs \in Seq(ClaimGraphs) /\ probes \in [Graph!Targets -> ProbeRecords]
    /\ cards \in [Interviewers -> PanelCards] /\ work \in [Graph!Workers -> Slots]

(* Who holds a graph holds one that is there; an assessment's and an
   interviewer's verdicts are on every claim.                                *)
Carried ==
    /\ \A w \in Graph!Workers : work[w].step \in {"verdicts", "graph", "save"} => work[w].graph \in DOMAIN graphs
    /\ \A w \in Interviewers \cup {"assessment"} : work[w].step \in {"graph", "save"} => work[w].verdicts \in [Claim -> Given]

(* A probe has a verdict only once it is assessed, and a verdict that settles
   something only by an answer.                                              *)
ProbeEarned(t) ==
    /\ probes[t].verdict \in {"verified", "contradicted"} => probes[t].answer = "given" /\ (t \notin Claim => probes[t].verdict = "verified")
    /\ probes[t].status # "assessed" => probes[t].verdict = "none"
    /\ probes[t].status = "asked" => probes[t].answer \in {"given", "declined"}
ProbesAreEarned == \A t \in Graph!Targets : ProbeEarned(t)

(* While the model is asked no declined probe waits for a verdict, and what the
   interview is about to write on the claims stands on the probes.           *)
DeclinedAreSettled == work["interview"].step = "verdicts" => \A t \in Graph!Targets : ~Graph!Declined(t)
Backed(v) == \A t \in DOMAIN v : t \in Graph!Targets /\ probes[t].verdict = v[t] /\ v[t] \in Given
VerdictsAreSaved == work["interview"].step = "graph" => Backed(work["interview"].verdicts)

(* What the claims say of the interview the probes say.                      *)
Earned(c, k) ==
    /\ c[k] = "verified_in_interview" => probes[k].verdict = "verified"
    /\ c[k] = "contradicted_in_interview" => probes[k].verdict = "contradicted"
ClaimsAreEarned == \A n \in DOMAIN graphs, k \in Claim : Earned(graphs[n].claims, k)

(* The verdicts of an interviewer are on a graph before the card is saved.   *)
Borne(v, n) == n \in DOMAIN graphs /\ \A k \in Claim : v[k] # "inconclusive" => graphs[n].claims[k] \notin Plain
VerdictsAreBorne == \A p \in Interviewers : work[p].step = "save" => Borne(work[p].verdicts, work[p].graph)
CardsAreBorne == \A p \in Interviewers : cards[p].status = "submitted" => \E n \in DOMAIN graphs : Borne(cards[p].verdicts, n)

ClaimInv ==
    /\ ClaimTypes /\ Carried /\ ProbesAreEarned /\ DeclinedAreSettled /\ VerdictsAreSaved
    /\ ClaimsAreEarned /\ VerdictsAreBorne /\ CardsAreBorne

-----------------------------------------------------------------------------
(* Constants                                                                 *)
LEMMA ClaimConstants ==
    /\ Claim \subseteq Graph!Targets
    /\ "interview" \in Graph!Workers /\ "assessment" \in Graph!Workers /\ Interviewers \subseteq Graph!Workers
    /\ <<>> \in Heard /\ [Claim -> Given] \subseteq Heard
    /\ Graph!Idle \in Slots /\ Graph!Idle.step = "idle"
    /\ Graph!NoProbe \in ProbeRecords /\ Graph!NoProbe.status = "none" /\ Graph!NoProbe.verdict = "none"
<1>1. Claim \subseteq Graph!Targets
  BY DEF Graph!Targets
<1>2. [Claim -> Given] \in {[T -> Given] : T \in SUBSET Graph!Targets}
  BY <1>1
<1>3. [Claim -> Given] \subseteq Heard
  BY <1>2 DEF Heard
<1>4. <<>> \in Heard
  BY DEF Heard
<1>5. Graph!Idle \in Slots /\ Graph!Idle.step = "idle"
  BY <1>4 DEF Graph!Idle, Slots
<1>6. Graph!NoProbe \in ProbeRecords /\ Graph!NoProbe.status = "none" /\ Graph!NoProbe.verdict = "none"
  BY DEF Graph!NoProbe, ProbeRecords, Given
<1>7. "interview" \in Graph!Workers /\ "assessment" \in Graph!Workers /\ Interviewers \subseteq Graph!Workers
  BY DEF Graph!Workers, Graph!Machines
<1> QED
  BY <1>1, <1>3, <1>4, <1>5, <1>6, <1>7

LEMMA DifferentWorkers ==
    ASSUME ClaimBounds
    PROVE  /\ "interview" \notin Interviewers /\ "assessment" \notin Interviewers /\ "interview" # "assessment"
           /\ \A r \in Runs : r \notin Interviewers /\ r # "interview" /\ r # "assessment" /\ r \in Graph!Workers
  BY DEF ClaimBounds, Graph!Machines, Graph!Workers

LEMMA SlotFields ==
    ASSUME ClaimTypes, NEW w \in Graph!Workers
    PROVE  /\ work[w] \in Slots /\ work[w].graph \in Nat /\ work[w].version \in Nat /\ work[w].verdicts \in Heard
           /\ work[w] = [step |-> work[w].step, graph |-> work[w].graph, version |-> work[w].version, verdicts |-> work[w].verdicts]
  BY DEF ClaimTypes, Slots

LEMMA GraphFields ==
    ASSUME ClaimTypes, NEW n \in DOMAIN graphs
    PROVE  graphs[n] \in ClaimGraphs /\ graphs[n].claims \in [Claim -> Claimed] /\ graphs[n].version \in Nat
<1>1. graphs[n] \in ClaimGraphs
  BY DEF ClaimTypes
<1> QED
  BY <1>1 DEF ClaimGraphs

LEMMA LastGraph ==
    ASSUME ClaimTypes, graphs # <<>>
    PROVE  Len(graphs) \in DOMAIN graphs /\ Len(graphs) \in Nat /\ graphs[Len(graphs)].version \in Nat
<1>1. Len(graphs) \in DOMAIN graphs /\ Len(graphs) \in Nat
  BY DEF ClaimTypes
<1> QED
  BY <1>1, GraphFields

(* The ranks of the statuses.                                                *)
LEMMA RanksOfStatuses ==
    ASSUME NEW s \in Claimed
    PROVE  /\ Graph!Rank(s) \in {0, 1, 2, 3, 4} /\ (Graph!Rank(s) \in {0, 1} <=> s \in Plain)
           /\ Graph!Rank("verified_by_human") = 4 /\ Graph!Rank("contradicted_by_human") = 4
<1>1. /\ Graph!Rank("unverified") = 0 /\ Graph!Rank("contradicted_internally") = 1
      /\ Graph!Rank("verified_in_assessment") = 2 /\ Graph!Rank("contradicted_in_assessment") = 2
      /\ Graph!Rank("verified_in_interview") = 3 /\ Graph!Rank("contradicted_in_interview") = 3
      /\ Graph!Rank("verified_by_human") = 4 /\ Graph!Rank("contradicted_by_human") = 4
  BY Zenon DEF Graph!Rank
<1> QED
  BY <1>1 DEF Claimed, Plain, InInterview

LEMMA ClaimsInit == Graph!Init => ClaimInv
<1> SUFFICES ASSUME Graph!Init PROVE ClaimInv
  OBVIOUS
<1>1. graphs = <<>> /\ DOMAIN graphs = {} /\ graphs \in Seq(ClaimGraphs)
  BY DEF Graph!Init
<1>2. probes = [t \in Graph!Targets |-> Graph!NoProbe] /\ work = [w \in Graph!Workers |-> Graph!Idle]
      /\ cards = [p \in Interviewers |-> [status |-> "none", verdicts |-> <<>>]]
  BY DEF Graph!Init
<1>3. ClaimTypes
  BY <1>1, <1>2, ClaimConstants DEF ClaimTypes, PanelCards
<1>4. \A w \in Graph!Workers : work[w].step = "idle"
  BY <1>2, ClaimConstants
<1>5. Carried /\ DeclinedAreSettled /\ VerdictsAreSaved /\ VerdictsAreBorne
  BY <1>4, ClaimConstants DEF Carried, DeclinedAreSettled, VerdictsAreSaved, VerdictsAreBorne
<1>6. ProbesAreEarned
  BY <1>2, ClaimConstants DEF ProbesAreEarned, ProbeEarned
<1>7. ClaimsAreEarned /\ CardsAreBorne
  BY <1>1, <1>2 DEF ClaimsAreEarned, CardsAreBorne
<1> QED
  BY <1>3, <1>5, <1>6, <1>7 DEF ClaimInv

-----------------------------------------------------------------------------
(* Steps that leave probes and cards alone                                   *)

(* The graphs there were are there, and bear what they bore.                 *)
GraphsGrow ==
    /\ graphs' \in Seq(ClaimGraphs) /\ DOMAIN graphs \subseteq DOMAIN graphs'
    /\ \A n \in DOMAIN graphs, k \in Claim : graphs[n].claims[k] \notin Plain => graphs'[n].claims[k] \notin Plain

(* Borne by what the graphs are after the step.                              *)
BorneThen(v, n) == n \in DOMAIN graphs' /\ \A k \in Claim : v[k] # "inconclusive" => graphs'[n].claims[k] \notin Plain

LEMMA BorneStays == ASSUME GraphsGrow, NEW v, NEW n, Borne(v, n) PROVE BorneThen(v, n)
  BY DEF Borne, BorneThen, GraphsGrow

LEMMA SameGraphsGrow == ASSUME ClaimTypes, graphs' = graphs PROVE GraphsGrow
  BY DEF GraphsGrow, ClaimTypes

(* One worker goes on.                                                       *)
LEMMA WorkersStep ==
    ASSUME ClaimBounds, ClaimInv, GraphsGrow, NEW w \in Graph!Workers, NEW to \in Slots,
           work' = [work EXCEPT ![w] = to],
           to.step \in {"verdicts", "graph", "save"} => to.graph \in DOMAIN graphs,
           w \in Interviewers \cup {"assessment"} /\ to.step \in {"graph", "save"} => to.verdicts \in [Claim -> Given],
           w \in Interviewers /\ to.step = "save" => BorneThen(to.verdicts, to.graph)
    PROVE  /\ work' \in [Graph!Workers -> Slots] /\ Carried' /\ VerdictsAreBorne'
           /\ work'[w] = to /\ \A x \in Graph!Workers : x # w => work'[x] = work[x]
<1>1. work' \in [Graph!Workers -> Slots] /\ work'[w] = to /\ \A x \in Graph!Workers : x # w => work'[x] = work[x]
  BY DEF ClaimInv, ClaimTypes
<1>2. Carried'
  <2>1. ASSUME NEW x \in Graph!Workers, work'[x].step \in {"verdicts", "graph", "save"} PROVE work'[x].graph \in DOMAIN graphs'
    BY <1>1, <2>1 DEF ClaimInv, Carried, GraphsGrow
  <2>2. ASSUME NEW x \in Interviewers \cup {"assessment"}, work'[x].step \in {"graph", "save"} PROVE work'[x].verdicts \in [Claim -> Given]
    <3>1. x \in Graph!Workers
      BY ClaimConstants
    <3> QED
      BY <1>1, <2>2, <3>1 DEF ClaimInv, Carried
  <2> QED
    BY <2>1, <2>2 DEF Carried
<1>3. VerdictsAreBorne'
  <2>1. ASSUME NEW p \in Interviewers, work'[p].step = "save" PROVE BorneThen(work'[p].verdicts, work'[p].graph)
    <3>1. p \in Graph!Workers
      BY ClaimConstants
    <3>2. CASE p = w
      BY <2>1, <3>2, <1>1
    <3>3. CASE p # w
      <4>1. work'[p] = work[p]
        BY <3>1, <3>3, <1>1
      <4>2. Borne(work[p].verdicts, work[p].graph)
        BY <2>1, <4>1 DEF ClaimInv, VerdictsAreBorne
      <4> QED
        BY <4>1, <4>2, BorneStays
    <3> QED
      BY <3>2, <3>3
  <2> QED
    BY <2>1 DEF VerdictsAreBorne, Borne, BorneThen
<1> QED
  BY <1>1, <1>2, <1>3

LEMMA CardsStayBorne == ASSUME ClaimInv, GraphsGrow, cards' = cards PROVE CardsAreBorne'
<1> SUFFICES ASSUME NEW p \in Interviewers, cards[p].status = "submitted" PROVE \E n \in DOMAIN graphs' : Borne(cards[p].verdicts, n)'
  BY DEF CardsAreBorne
<1>1. PICK n \in DOMAIN graphs : Borne(cards[p].verdicts, n)
  BY DEF ClaimInv, CardsAreBorne
<1> QED
  BY <1>1 DEF GraphsGrow, Borne

(* A worker goes on, off the interview's verdicts; a graph may be appended
   that nothing of the interview is on.                                      *)
LEMMA QuietStep ==
    ASSUME ClaimBounds, ClaimInv, GraphsGrow, probes' = probes, cards' = cards,
           \A n \in DOMAIN graphs', k \in Claim :
              Earned(graphs'[n].claims, k) \/ (n \in DOMAIN graphs /\ graphs'[n].claims[k] = graphs[n].claims[k]),
           NEW w \in Graph!Workers, NEW to \in Slots, work' = [work EXCEPT ![w] = to],
           w = "interview" => to.step \notin {"verdicts", "graph"},
           to.step \in {"verdicts", "graph", "save"} => to.graph \in DOMAIN graphs,
           w \in Interviewers \cup {"assessment"} /\ to.step \in {"graph", "save"} => to.verdicts \in [Claim -> Given],
           w \in Interviewers /\ to.step = "save" => BorneThen(to.verdicts, to.graph)
    PROVE  ClaimInv'
<1>1. /\ work' \in [Graph!Workers -> Slots] /\ Carried' /\ VerdictsAreBorne'
      /\ work'[w] = to /\ \A x \in Graph!Workers : x # w => work'[x] = work[x]
  BY WorkersStep
<1>2. ClaimTypes'
  BY <1>1 DEF ClaimInv, ClaimTypes, GraphsGrow
<1>3. ProbesAreEarned'
  BY DEF ClaimInv, ProbesAreEarned, ProbeEarned
<1>4. work'["interview"].step \in {"verdicts", "graph"} => work'["interview"] = work["interview"]
  BY <1>1, ClaimConstants
<1>5. DeclinedAreSettled' /\ VerdictsAreSaved'
  BY <1>4 DEF ClaimInv, DeclinedAreSettled, Graph!Declined, VerdictsAreSaved, Backed
<1>6. ClaimsAreEarned'
  BY DEF ClaimInv, ClaimsAreEarned, Earned
<1>7. CardsAreBorne'
  BY CardsStayBorne
<1> QED
  BY <1>1, <1>2, <1>3, <1>5, <1>6, <1>7 DEF ClaimInv

(* The same with the graphs left alone.                                      *)
LEMMA IdleStep ==
    ASSUME ClaimBounds, ClaimInv, graphs' = graphs, probes' = probes, cards' = cards,
           NEW w \in Graph!Workers, NEW to \in Slots, work' = [work EXCEPT ![w] = to],
           to.step \notin {"verdicts", "graph", "save"}
    PROVE  ClaimInv'
<1>1. GraphsGrow
  BY SameGraphsGrow DEF ClaimInv
<1> QED
  BY <1>1, QuietStep

(* SaveGraph: the graph that was read, when nobody wrote to it meanwhile.    *)
LEMMA GraphSaved ==
    ASSUME ClaimTypes, NEW w \in Graph!Workers, work[w].graph \in DOMAIN graphs, NEW claims \in [Claim -> Claimed], NEW next,
           Graph!SaveGraph(w, claims, next)
    PROVE  /\ work' = [work EXCEPT ![w] = next]
           /\ graphs' \in Seq(ClaimGraphs) /\ DOMAIN graphs' = DOMAIN graphs
           /\ \A n \in DOMAIN graphs : n # work[w].graph => graphs'[n] = graphs[n]
           /\ graphs'[work[w].graph].claims \in {claims, graphs[work[w].graph].claims}
           /\ graphs[work[w].graph].version = work[w].version => graphs'[work[w].graph].claims = claims
<1> DEFINE g == work[w].graph
<1>1. /\ work' = [work EXCEPT ![w] = next]
      /\ graphs' = IF claims # graphs[g].claims /\ graphs[g].version = work[w].version
                   THEN [graphs EXCEPT ![g] = [claims |-> claims, version |-> graphs[g].version + 1]] ELSE graphs
  BY DEF Graph!SaveGraph
<1>2. graphs \in Seq(ClaimGraphs) /\ g \in DOMAIN graphs /\ graphs[g].version \in Nat
  BY GraphFields DEF ClaimTypes
<1> HIDE DEF g
<1>3. CASE claims # graphs[g].claims /\ graphs[g].version = work[w].version
  <2> DEFINE r == [claims |-> claims, version |-> graphs[g].version + 1]
  <2>1. r \in ClaimGraphs /\ r.claims = claims
    BY <1>2 DEF ClaimGraphs
  <2>2. graphs' = [graphs EXCEPT ![g] = r]
    BY <1>1, <1>3
  <2> HIDE DEF r
  <2>3. /\ graphs' \in Seq(ClaimGraphs) /\ DOMAIN graphs' = DOMAIN graphs
        /\ \A n \in DOMAIN graphs : n # g => graphs'[n] = graphs[n]
        /\ graphs'[g] = r
    BY <1>2, <2>1, <2>2
  <2> QED
    BY <1>1, <2>1, <2>3 DEF g
<1>4. CASE ~(claims # graphs[g].claims /\ graphs[g].version = work[w].version)
  <2>1. graphs' = graphs
    BY <1>1, <1>4
  <2> QED
    BY <1>1, <1>2, <1>4, <2>1 DEF g
<1> QED
  BY <1>3, <1>4

-----------------------------------------------------------------------------
(* The steps of each part                                                    *)

(* Screening.                                                                *)
LEMMA ScreeningStep ==
    ASSUME ClaimBounds, ClaimInv, NEW r \in Runs,
           Graph!Extract(r) \/ Graph!CreateGraph(r) \/ Graph!RunEvidenceAssessment(r) \/ Graph!FallBack(r)
    PROVE  ClaimInv'
<1>t. ClaimTypes
  BY DEF ClaimInv
<1>r. r \in Graph!Workers /\ r \notin Interviewers /\ r # "interview" /\ r # "assessment"
  BY DifferentWorkers
<1>1. CASE Graph!Extract(r)
  <2>1. graphs' = graphs /\ probes' = probes /\ cards' = cards
    BY <1>1 DEF Graph!Extract
  <2>2. CASE graphs # <<>> /\ Graph!Step(r, "idle", [Graph!Idle EXCEPT !.step = "match", !.graph = Len(graphs)])
    <3> DEFINE to == [Graph!Idle EXCEPT !.step = "match", !.graph = Len(graphs)]
    <3>1. Len(graphs) \in Nat
      BY <1>t DEF ClaimTypes
    <3>2. to \in Slots /\ to.step = "match"
      BY <3>1, ClaimConstants DEF Slots, Graph!Idle
    <3>3. work' = [work EXCEPT ![r] = to]
      BY <2>2 DEF Graph!Step
    <3> HIDE DEF to
    <3> QED
      BY <2>1, <3>2, <3>3, <1>r, IdleStep
  <2>3. CASE graphs = <<>> /\ Graph!Step(r, "idle", [Graph!Idle EXCEPT !.step = "extract"])
    <3> DEFINE to == [Graph!Idle EXCEPT !.step = "extract"]
    <3>1. to \in Slots /\ to.step = "extract"
      BY ClaimConstants DEF Slots, Graph!Idle
    <3>2. work' = [work EXCEPT ![r] = to]
      BY <2>3 DEF Graph!Step
    <3> HIDE DEF to
    <3> QED
      BY <2>1, <3>1, <3>2, <1>r, IdleStep
  <2> QED
    BY <1>1, <2>2, <2>3, Zenon DEF Graph!Extract
<1>2. CASE Graph!CreateGraph(r)
  <2> DEFINE to == [Graph!Idle EXCEPT !.step = "match", !.graph = Len(graphs) + 1]
  <2>1. /\ work' = [work EXCEPT ![r] = to] /\ probes' = probes /\ cards' = cards
    BY <1>2 DEF Graph!CreateGraph, Graph!Step
  <2>2. PICK claims \in [Claim -> Plain] : graphs' = Append(graphs, [claims |-> claims, version |-> 0])
    BY <1>2, Zenon DEF Graph!CreateGraph, Plain
  <2>3. graphs \in Seq(ClaimGraphs) /\ Len(graphs) \in Nat
    BY <1>t DEF ClaimTypes
  <2>4. to \in Slots /\ to.step = "match"
    <3>1. \A l \in Nat : [Graph!Idle EXCEPT !.step = "match", !.graph = l] \in Slots
      BY ClaimConstants DEF Slots, Graph!Idle
    <3>2. Len(graphs) + 1 \in Nat
      BY <2>3
    <3> QED
      BY <3>1, <3>2 DEF Graph!Idle
  <2> HIDE DEF to
  <2> DEFINE g == [claims |-> claims, version |-> 0]
  <2>5. g \in ClaimGraphs /\ g.claims = claims
    BY DEF ClaimGraphs, Claimed
  <2> HIDE DEF g
  <2>6. /\ graphs' \in Seq(ClaimGraphs) /\ DOMAIN graphs' = 1 .. Len(graphs) + 1 /\ DOMAIN graphs = 1 .. Len(graphs)
        /\ \A n \in DOMAIN graphs : graphs'[n] = graphs[n]
        /\ graphs'[Len(graphs) + 1] = g
    BY <2>2, <2>3, <2>5 DEF g
  <2>7. GraphsGrow
    BY <2>3, <2>6 DEF GraphsGrow
  <2>8. \A n \in DOMAIN graphs', k \in Claim :
           Earned(graphs'[n].claims, k) \/ (n \in DOMAIN graphs /\ graphs'[n].claims[k] = graphs[n].claims[k])
    <3>1. \A k \in Claim : Earned(claims, k)
      BY <2>2 DEF Earned, Plain
    <3> QED
      BY <2>3, <2>5, <2>6, <3>1
  <2> QED
    BY <2>1, <2>4, <2>7, <2>8, <1>r, QuietStep
<1>3. CASE Graph!RunEvidenceAssessment(r)
  <2> DEFINE to == [Graph!Idle EXCEPT !.step = "done"]
  <2>1. to \in Slots /\ to.step = "done"
    BY ClaimConstants DEF Slots, Graph!Idle
  <2>2. /\ work' = [work EXCEPT ![r] = to] /\ graphs' = graphs /\ probes' = probes /\ cards' = cards
    BY <1>3 DEF Graph!RunEvidenceAssessment, Graph!Step
  <2> HIDE DEF to
  <2> QED
    BY <2>1, <2>2, <1>r, IdleStep
<1>4. CASE Graph!FallBack(r)
  <2> DEFINE to == [Graph!Idle EXCEPT !.step = "done"]
  <2>1. to \in Slots /\ to.step = "done"
    BY ClaimConstants DEF Slots, Graph!Idle
  <2>2. /\ work' = [work EXCEPT ![r] = to] /\ graphs' = graphs /\ probes' = probes /\ cards' = cards
    BY <1>4 DEF Graph!FallBack, Graph!Step
  <2> HIDE DEF to
  <2> QED
    BY <2>1, <2>2, <1>r, IdleStep
<1> QED
  BY <1>1, <1>2, <1>3, <1>4

(* The scores computed again, and a finalization that dies.                  *)
LEMMA RescoreStep ==
    ASSUME ClaimBounds, ClaimInv,
           Graph!RescoreAfterInterview \/ Graph!RescoreAfterAssessment \/ Graph!Crash
    PROVE  ClaimInv'
<1>1. ASSUME NEW w \in Graph!Workers, NEW stage, Graph!Rescore(w, stage) PROVE ClaimInv'
  <2> DEFINE to == [Graph!Idle EXCEPT !.step = "done"]
  <2>1. to \in Slots /\ to.step = "done"
    BY ClaimConstants DEF Slots, Graph!Idle
  <2>2. work' = [work EXCEPT ![w] = to] /\ graphs' = graphs /\ probes' = probes /\ cards' = cards
    BY <1>1, Zenon DEF Graph!Rescore, Graph!Step
  <2> HIDE DEF to
  <2> QED
    BY <2>1, <2>2, IdleStep
<1>2. CASE Graph!Crash
  <2> DEFINE to == [Graph!Idle EXCEPT !.step = "died"]
  <2>1. to \in Slots /\ to.step = "died"
    BY ClaimConstants DEF Slots, Graph!Idle
  <2>2. work' = [work EXCEPT !["interview"] = to] /\ graphs' = graphs /\ probes' = probes /\ cards' = cards
    BY <1>2 DEF Graph!Crash
  <2> HIDE DEF to
  <2> QED
    BY <2>1, <2>2, ClaimConstants, IdleStep
<1> QED
  BY <1>1, <1>2, ClaimConstants DEF Graph!RescoreAfterInterview, Graph!RescoreAfterAssessment

(* The assessment writes on the claims what the interview has not settled.   *)
LEMMA AssessmentWriteStep ==
    ASSUME ClaimBounds, ClaimInv, Graph!ScoreAssessment \/ Graph!WriteAssessmentVerdicts
    PROVE  ClaimInv'
<1>t. ClaimTypes
  BY DEF ClaimInv
<1>w. "assessment" \in Graph!Workers /\ "assessment" \notin Interviewers /\ "assessment" # "interview"
  BY ClaimConstants, DifferentWorkers
<1>1. CASE Graph!ScoreAssessment
  <2>1. graphs # <<>> /\ graphs' = graphs /\ probes' = probes /\ cards' = cards
    BY <1>1 DEF Graph!ScoreAssessment
  <2>2. PICK v \in [Claim -> Given] :
           Graph!Step("assessment", "idle", [step |-> "graph", graph |-> Len(graphs), version |-> graphs[Len(graphs)].version, verdicts |-> v])
    BY <1>1, Zenon DEF Graph!ScoreAssessment, Given
  <2> DEFINE to == [step |-> "graph", graph |-> Len(graphs), version |-> graphs[Len(graphs)].version, verdicts |-> v]
  <2>3. Len(graphs) \in DOMAIN graphs /\ Len(graphs) \in Nat /\ graphs[Len(graphs)].version \in Nat
    BY <1>t, <2>1, LastGraph
  <2>4. to \in Slots /\ to.step = "graph" /\ to.graph \in DOMAIN graphs /\ to.verdicts \in [Claim -> Given]
    BY <2>3, ClaimConstants DEF Slots
  <2>5. work' = [work EXCEPT !["assessment"] = to]
    BY <2>2 DEF Graph!Step
  <2>6. GraphsGrow
    BY <1>t, <2>1, SameGraphsGrow
  <2> HIDE DEF to
  <2> QED
    BY <2>1, <2>4, <2>5, <2>6, <1>w, QuietStep
<1>2. CASE Graph!WriteAssessmentVerdicts
  <2> DEFINE g == work["assessment"].graph
  <2> DEFINE c == graphs[g].claims
  <2> DEFINE kept(k) == c[k] \in InInterview \/ Graph!Verdict("assessment", k) = "inconclusive"
  <2> DEFINE new == [k \in Claim |-> IF kept(k) THEN c[k]
                                     ELSE IF Graph!Verdict("assessment", k) = "verified" THEN "verified_in_assessment" ELSE "contradicted_in_assessment"]
  <2> DEFINE to == [Graph!Idle EXCEPT !.step = "rescore"]
  <2>1. /\ work["assessment"].step = "graph" /\ Graph!SaveGraph("assessment", new, to)
        /\ probes' = probes /\ cards' = cards
    BY <1>2, Zenon DEF Graph!WriteAssessmentVerdicts, InInterview
  <2>2. g \in DOMAIN graphs
    BY <1>w, <2>1 DEF ClaimInv, Carried
  <2>3. c \in [Claim -> Claimed]
    BY <1>t, <2>2, GraphFields
  <2>4. /\ new \in [Claim -> Claimed]
        /\ \A k \in Claim : new[k] = c[k] \/ new[k] \in {"verified_in_assessment", "contradicted_in_assessment"}
    BY <2>3 DEF Claimed
  <2>5. to \in Slots /\ to.step = "rescore"
    BY ClaimConstants DEF Slots, Graph!Idle
  <2> HIDE DEF new, to
  <2>6. /\ work' = [work EXCEPT !["assessment"] = to]
        /\ graphs' \in Seq(ClaimGraphs) /\ DOMAIN graphs' = DOMAIN graphs
        /\ \A n \in DOMAIN graphs : n # g => graphs'[n] = graphs[n]
        /\ graphs'[g].claims \in {new, c}
    BY <1>t, <1>w, <2>1, <2>2, <2>4, GraphSaved
  <2>7. \A n \in DOMAIN graphs, k \in Claim : \/ graphs'[n].claims[k] = graphs[n].claims[k]
                                              \/ graphs'[n].claims[k] \in {"verified_in_assessment", "contradicted_in_assessment"}
    BY <2>2, <2>4, <2>6
  <2> HIDE DEF g, c
  <2>8. GraphsGrow
    BY <2>6, <2>7 DEF GraphsGrow, Plain
  <2>9. \A n \in DOMAIN graphs', k \in Claim :
           Earned(graphs'[n].claims, k) \/ (n \in DOMAIN graphs /\ graphs'[n].claims[k] = graphs[n].claims[k])
    BY <2>6, <2>7 DEF Earned
  <2> QED
    BY <2>1, <2>5, <2>6, <2>8, <2>9, <1>w, QuietStep
<1> QED
  BY <1>1, <1>2

-----------------------------------------------------------------------------
(* The probes                                                                *)

LEMMA ProbeFields ==
    ASSUME ClaimTypes, NEW t \in Graph!Targets
    PROVE  /\ probes[t] \in ProbeRecords /\ probes[t].answer \in {"none", "given", "declined"}
           /\ probes[t].status \in {"none", "pending", "asked", "assessed"} /\ probes[t].verdict \in Given \cup {"none"}
           /\ probes[t] = [status |-> probes[t].status, verdict |-> probes[t].verdict, answer |-> probes[t].answer]
  BY DEF ClaimTypes, ProbeRecords

(* A step of the probes that settles none a claim already rests on.          *)
LEMMA ProbesStep ==
    ASSUME ClaimBounds, ClaimInv, graphs' = graphs, cards' = cards,
           probes' \in [Graph!Targets -> ProbeRecords], ProbesAreEarned', DeclinedAreSettled', VerdictsAreSaved',
           \A t \in Graph!Targets : probes'[t].verdict = probes[t].verdict \/ probes[t].verdict \notin {"verified", "contradicted"},
           work' \in [Graph!Workers -> Slots], Carried', VerdictsAreBorne'
    PROVE  ClaimInv'
<1>1. ClaimTypes'
  BY DEF ClaimInv, ClaimTypes
<1>2. ClaimsAreEarned'
  BY ClaimConstants DEF ClaimInv, ClaimsAreEarned, Earned
<1>3. GraphsGrow
  BY SameGraphsGrow DEF ClaimInv
<1>4. CardsAreBorne'
  BY <1>3, CardsStayBorne
<1> QED
  BY <1>1, <1>2, <1>4 DEF ClaimInv

LEMMA WorkKept ==
    ASSUME ClaimInv, graphs' = graphs, work' = work
    PROVE  work' \in [Graph!Workers -> Slots] /\ Carried' /\ VerdictsAreBorne'
  BY DEF ClaimInv, ClaimTypes, Carried, VerdictsAreBorne, Borne

LEMMA GenerateStep == ASSUME ClaimBounds, ClaimInv, Graph!GenerateProbes PROVE ClaimInv'
<1>1. /\ \A t \in Graph!Targets : probes[t] = Graph!NoProbe
      /\ graphs' = graphs /\ cards' = cards /\ work' = work
  BY DEF Graph!GenerateProbes
<1>2. PICK n \in Graph!Latest({"pre_interview"}), proposed \in Graph!Proposals :
        /\ scores[n].result.targets # {}
        /\ LET wanted == {k \in scores[n].result.targets : graphs[scores[n].graph].claims[k] # "verified_in_assessment"}
           IN  probes' = [t \in Graph!Targets |->
                 IF t \in Graph!GapsOf(scores[n]) \cup Graph!SanitiseProbes(proposed, wanted) THEN [Graph!NoProbe EXCEPT !.status = "pending"] ELSE Graph!NoProbe]
  BY Zenon DEF Graph!GenerateProbes
<1> DEFINE W == Graph!GapsOf(scores[n]) \cup
                Graph!SanitiseProbes(proposed, {k \in scores[n].result.targets : graphs[scores[n].graph].claims[k] # "verified_in_assessment"})
<1> DEFINE put == [Graph!NoProbe EXCEPT !.status = "pending"]
<1>3. probes' = [t \in Graph!Targets |-> IF t \in W THEN put ELSE Graph!NoProbe]
  BY <1>2, Zenon
<1>4. put \in ProbeRecords /\ put.status = "pending" /\ put.verdict = "none"
  BY DEF Graph!NoProbe, ProbeRecords
<1> HIDE DEF W, put
<1>5. /\ probes' \in [Graph!Targets -> ProbeRecords]
      /\ \A t \in Graph!Targets : probes'[t].status \in {"none", "pending"} /\ probes'[t].verdict = "none" /\ probes[t].verdict = "none"
  BY <1>1, <1>3, <1>4, ClaimConstants
<1>6. ProbesAreEarned' /\ DeclinedAreSettled'
  BY <1>5 DEF ProbesAreEarned, ProbeEarned, DeclinedAreSettled, Graph!Declined
<1>7. VerdictsAreSaved'
  BY <1>1, <1>5 DEF ClaimInv, VerdictsAreSaved, Backed, Given
<1> QED
  BY <1>1, <1>5, <1>6, <1>7, WorkKept, ProbesStep

LEMMA AskedProbe ==
    ASSUME NEW p \in ProbeRecords
    PROVE  [p EXCEPT !.status = "asked"] = [status |-> "asked", verdict |-> p.verdict, answer |-> p.answer]
  BY DEF ProbeRecords

LEMMA AskStep ==
    ASSUME ClaimBounds, ClaimInv, NEW t \in Graph!Targets, NEW answer \in {"given", "declined"}, Graph!Ask(t, answer)
    PROVE  ClaimInv'
<1>t. ClaimTypes
  BY DEF ClaimInv
<1>1. /\ work["interview"].step = "idle" /\ probes[t].status = "pending"
      /\ graphs' = graphs /\ cards' = cards /\ work' = work
  BY DEF Graph!Ask
<1> DEFINE new == [status |-> "asked", verdict |-> probes[t].verdict, answer |-> answer]
<1>2. probes' = [probes EXCEPT ![t] = new]
  <2>1. probes' = [probes EXCEPT ![t].status = "asked", ![t].answer = answer]
    BY DEF Graph!Ask
  <2> DEFINE p1 == [probes EXCEPT ![t].status = "asked"]
  <2>2. probes' = [p1 EXCEPT ![t].answer = answer]
    BY <2>1
  <2>3. /\ probes[t] \in ProbeRecords /\ probes \in [Graph!Targets -> ProbeRecords]
        /\ [probes[t] EXCEPT !.status = "asked"] = [status |-> "asked", verdict |-> probes[t].verdict, answer |-> probes[t].answer]
    BY <1>t, ProbeFields, AskedProbe DEF ClaimTypes
  <2>4. p1 = [probes EXCEPT ![t] = [status |-> "asked", verdict |-> probes[t].verdict, answer |-> probes[t].answer]]
    BY <2>3, Zenon
  <2> HIDE DEF p1
  <2>5. p1[t] = [status |-> "asked", verdict |-> probes[t].verdict, answer |-> probes[t].answer]
    BY <2>3, <2>4
  <2>6. [p1[t] EXCEPT !.answer = answer] = new
    BY <2>5
  <2>7. probes' = [p1 EXCEPT ![t] = new]
    BY <2>2, <2>6, Zenon
  <2> QED
    BY <2>3, <2>4, <2>7
<1>3. new \in ProbeRecords /\ new.status = "asked" /\ new.verdict = probes[t].verdict /\ new.answer = answer /\ probes[t].verdict = "none"
  BY <1>t, <1>1, ProbeFields DEF ProbeRecords, ClaimInv, ProbesAreEarned, ProbeEarned
<1> HIDE DEF new
<1>4. /\ probes' \in [Graph!Targets -> ProbeRecords] /\ probes'[t] = new
      /\ \A x \in Graph!Targets : x # t => probes'[x] = probes[x]
  BY <1>t, <1>2, <1>3 DEF ClaimTypes
<1>5. \A x \in Graph!Targets : probes'[x].verdict = probes[x].verdict
  BY <1>3, <1>4
<1>6. ProbesAreEarned'
  <2>1. ASSUME NEW x \in Graph!Targets PROVE ProbeEarned(x)'
    <3>1. CASE x = t
      BY <3>1, <1>3, <1>4 DEF ProbeEarned
    <3>2. CASE x # t
      BY <3>2, <1>4 DEF ClaimInv, ProbesAreEarned, ProbeEarned
    <3> QED
      BY <3>1, <3>2
  <2> QED
    BY <2>1 DEF ProbesAreEarned
<1>7. DeclinedAreSettled' /\ VerdictsAreSaved'
  BY <1>1 DEF DeclinedAreSettled, VerdictsAreSaved
<1> QED
  BY <1>1, <1>4, <1>5, <1>6, <1>7, WorkKept, ProbesStep

LEMMA AssessStep == ASSUME ClaimBounds, ClaimInv, Graph!AssessVerdicts PROVE ClaimInv'
<1>t. ClaimTypes
  BY DEF ClaimInv
<1>i. "interview" \in Graph!Workers /\ "interview" \notin Interviewers /\ "interview" # "assessment"
  BY ClaimConstants, DifferentWorkers
<1> DEFINE settled(t) == [probes[t] EXCEPT !.status = "assessed", !.verdict = "inconclusive"]
<1>1. /\ probes' = [t \in Graph!Targets |-> IF Graph!Declined(t) THEN settled(t) ELSE probes[t]]
      /\ graphs' = graphs /\ cards' = cards
  BY DEF Graph!AssessVerdicts
<1>2. ASSUME NEW t \in Graph!Targets
      PROVE  settled(t) \in ProbeRecords /\ settled(t).status = "assessed" /\ settled(t).verdict = "inconclusive"
  BY <1>t, ProbeFields DEF ProbeRecords, Given
<1> HIDE DEF settled
<1>3. /\ probes' \in [Graph!Targets -> ProbeRecords]
      /\ \A t \in Graph!Targets : Graph!Declined(t) => probes'[t].status = "assessed" /\ probes'[t].verdict = "inconclusive"
      /\ \A t \in Graph!Targets : ~Graph!Declined(t) => probes'[t] = probes[t]
  BY <1>t, <1>1, <1>2 DEF ClaimTypes
<1>4. \A t \in Graph!Targets : Graph!Declined(t) => probes[t].verdict = "none"
  BY DEF Graph!Declined, ClaimInv, ProbesAreEarned, ProbeEarned
<1>5. ProbesAreEarned'
  <2>1. ASSUME NEW t \in Graph!Targets PROVE ProbeEarned(t)'
    <3>1. CASE Graph!Declined(t)
      BY <3>1, <1>3 DEF ProbeEarned
    <3>2. CASE ~Graph!Declined(t)
      BY <3>2, <1>3 DEF ClaimInv, ProbesAreEarned, ProbeEarned
    <3> QED
      BY <3>1, <3>2
  <2> QED
    BY <2>1 DEF ProbesAreEarned
<1>6. DeclinedAreSettled'
  <2>1. \A t \in Graph!Targets : ~(probes'[t].status = "asked" /\ probes'[t].answer = "declined")
    BY <1>3 DEF Graph!Declined
  <2> QED
    BY <2>1 DEF DeclinedAreSettled, Graph!Declined
<1>7. GraphsGrow
  BY <1>t, <1>1, SameGraphsGrow
<1>8. PICK next \in Slots : /\ work' = [work EXCEPT !["interview"] = next] /\ next.step \in {"rescore", "verdicts"}
                            /\ next.step = "verdicts" => next.graph \in DOMAIN graphs
  <2>0. PICK from \in {"idle", "died"} :
            \/ Graph!Step("interview", from, [Graph!Idle EXCEPT !.step = "rescore"])
            \/ /\ graphs # <<>>
               /\ Graph!Step("interview", from, [Graph!Idle EXCEPT !.step = "verdicts", !.graph = Len(graphs), !.version = graphs[Len(graphs)].version])
    BY Zenon DEF Graph!AssessVerdicts
  <2>1. CASE Graph!Step("interview", from, [Graph!Idle EXCEPT !.step = "rescore"])
    <3> DEFINE to == [Graph!Idle EXCEPT !.step = "rescore"]
    <3>1. to \in Slots /\ to.step = "rescore"
      BY ClaimConstants DEF Slots, Graph!Idle
    <3>2. work' = [work EXCEPT !["interview"] = to]
      BY <2>1 DEF Graph!Step
    <3> HIDE DEF to
    <3> QED
      BY <3>1, <3>2
  <2>2. CASE /\ graphs # <<>>
             /\ Graph!Step("interview", from, [Graph!Idle EXCEPT !.step = "verdicts", !.graph = Len(graphs), !.version = graphs[Len(graphs)].version])
    <3> DEFINE to == [Graph!Idle EXCEPT !.step = "verdicts", !.graph = Len(graphs), !.version = graphs[Len(graphs)].version]
    <3>1. Len(graphs) \in DOMAIN graphs /\ Len(graphs) \in Nat /\ graphs[Len(graphs)].version \in Nat
      BY <1>t, <2>2, LastGraph
    <3>2. to \in Slots /\ to.step = "verdicts" /\ to.graph \in DOMAIN graphs
      BY <3>1, ClaimConstants DEF Slots, Graph!Idle
    <3>3. work' = [work EXCEPT !["interview"] = to]
      BY <2>2 DEF Graph!Step
    <3> HIDE DEF to
    <3> QED
      BY <3>2, <3>3
  <2> QED
    BY <2>0, <2>1, <2>2
<1>9. /\ work' \in [Graph!Workers -> Slots] /\ Carried' /\ VerdictsAreBorne' /\ work'["interview"] = next
  <2>1. "interview" \notin Interviewers \cup {"assessment"} /\ next.step \notin {"graph", "save"}
    BY <1>i, <1>8
  <2>2. next.step \in {"verdicts", "graph", "save"} => next.graph \in DOMAIN graphs
    BY <1>8
  <2>3. work' = [work EXCEPT !["interview"] = next]
    BY <1>8
  <2> QED
    BY <1>i, <1>7, <2>1, <2>2, <2>3, WorkersStep
<1>10. VerdictsAreSaved'
  BY <1>8, <1>9 DEF VerdictsAreSaved
<1>11. \A t \in Graph!Targets : probes'[t].verdict = probes[t].verdict \/ probes[t].verdict \notin {"verified", "contradicted"}
  BY <1>3, <1>4
<1> QED
  BY <1>1, <1>3, <1>5, <1>6, <1>9, <1>10, <1>11, ProbesStep

LEMMA SaveVerdictsStep == ASSUME ClaimBounds, ClaimInv, Graph!SaveVerdicts PROVE ClaimInv'
<1>t. ClaimTypes
  BY DEF ClaimInv
<1>i. "interview" \in Graph!Workers /\ "interview" \notin Interviewers /\ "interview" # "assessment"
  BY ClaimConstants, DifferentWorkers
<1> DEFINE A == Graph!Asked
<1>0. graphs' = graphs /\ cards' = cards
  BY DEF Graph!SaveVerdicts
<1>1. PICK verdicts \in [A -> Given], quoted \in BOOLEAN :
        LET final == [t \in A |-> Graph!SanitiseVerdict(t, verdicts[t], quoted)]
        IN  /\ Graph!Step("interview", "verdicts", [work["interview"] EXCEPT !.step = "graph", !.verdicts = final])
            /\ probes' = [t \in Graph!Targets |-> IF t \in A THEN [probes[t] EXCEPT !.status = "assessed", !.verdict = final[t]] ELSE probes[t]]
  BY Zenon DEF Graph!SaveVerdicts, Given
<1> DEFINE v == [t \in A |-> Graph!SanitiseVerdict(t, verdicts[t], quoted)]
<1> DEFINE to == [work["interview"] EXCEPT !.step = "graph", !.verdicts = v]
<1> DEFINE heard(t) == [probes[t] EXCEPT !.status = "assessed", !.verdict = v[t]]
<1>2. /\ work["interview"].step = "verdicts" /\ work' = [work EXCEPT !["interview"] = to]
      /\ probes' = [t \in Graph!Targets |-> IF t \in A THEN heard(t) ELSE probes[t]]
  BY <1>1, Zenon DEF Graph!Step
<1>3. A \subseteq Graph!Targets
  BY DEF Graph!Asked
<1>4. v \in [A -> Given] /\ \A t \in A : v[t] = "contradicted" => t \in Claim
  BY DEF Graph!SanitiseVerdict, Given
<1>a. \A t \in A : probes[t].status = "asked"
  BY DEF Graph!Asked
<1> HIDE DEF v, A
<1>5. \A t \in A : probes[t].verdict = "none" /\ probes[t].answer = "given"
  BY <1>2, <1>3, <1>a DEF ClaimInv, ProbesAreEarned, ProbeEarned, DeclinedAreSettled, Graph!Declined
<1>6. v \in Heard
  <2>1. [A -> Given] \in {[T -> Given] : T \in SUBSET Graph!Targets}
    BY <1>3
  <2> QED
    BY <1>4, <2>1 DEF Heard
<1>7. /\ to \in Slots /\ to.step = "graph" /\ to.graph = work["interview"].graph /\ to.verdicts = v
  <2>1. work["interview"] \in Slots
    BY <1>t, <1>i, SlotFields
  <2> QED
    BY <2>1, <1>6 DEF Slots
<1>8. to.graph \in DOMAIN graphs
  BY <1>2, <1>7, <1>i DEF ClaimInv, Carried
<1>9. ASSUME NEW t \in A
      PROVE  heard(t) \in ProbeRecords /\ heard(t).status = "assessed" /\ heard(t).verdict = v[t] /\ heard(t).answer = probes[t].answer
  <2>1. probes[t] \in ProbeRecords /\ v[t] \in Given
    BY <1>t, <1>3, <1>4, ProbeFields
  <2> QED
    BY <2>1 DEF ProbeRecords
<1> HIDE DEF to, heard
<1>10. /\ probes' \in [Graph!Targets -> ProbeRecords]
       /\ \A t \in A : probes'[t].status = "assessed" /\ probes'[t].verdict = v[t] /\ probes'[t].answer = "given"
       /\ \A t \in Graph!Targets : t \notin A => probes'[t] = probes[t]
  BY <1>t, <1>2, <1>3, <1>5, <1>9 DEF ClaimTypes
<1>11. ProbesAreEarned'
  <2>1. ASSUME NEW t \in Graph!Targets PROVE ProbeEarned(t)'
    <3>1. CASE t \in A
      BY <3>1, <1>4, <1>10 DEF ProbeEarned, Given
    <3>2. CASE t \notin A
      BY <3>2, <1>10 DEF ClaimInv, ProbesAreEarned, ProbeEarned
    <3> QED
      BY <3>1, <3>2
  <2> QED
    BY <2>1 DEF ProbesAreEarned
<1>12. GraphsGrow
  BY <1>t, <1>0, SameGraphsGrow
<1>13. /\ work' \in [Graph!Workers -> Slots] /\ Carried' /\ VerdictsAreBorne' /\ work'["interview"] = to
  BY <1>i, <1>2, <1>7, <1>8, <1>12, WorkersStep
<1>14. DeclinedAreSettled'
  BY <1>7, <1>13 DEF DeclinedAreSettled
<1>15. VerdictsAreSaved'
  <2>1. \A t \in DOMAIN v : t \in Graph!Targets /\ probes'[t].verdict = v[t] /\ v[t] \in Given
    BY <1>3, <1>4, <1>10
  <2> QED
    BY <2>1, <1>7, <1>13 DEF VerdictsAreSaved, Backed
<1>16. \A t \in Graph!Targets : probes'[t].verdict = probes[t].verdict \/ probes[t].verdict \notin {"verified", "contradicted"}
  BY <1>5, <1>10
<1> QED
  BY <1>0, <1>10, <1>11, <1>13, <1>14, <1>15, <1>16, ProbesStep

(* The interview writes on the claims what the probes have found.            *)
LEMMA ApplyStep == ASSUME ClaimBounds, ClaimInv, Graph!ApplyVerdictsToClaims PROVE ClaimInv'
<1>t. ClaimTypes
  BY DEF ClaimInv
<1>i. "interview" \in Graph!Workers /\ "interview" \notin Interviewers /\ "interview" # "assessment"
  BY ClaimConstants, DifferentWorkers
<1> DEFINE g == work["interview"].graph
<1> DEFINE c == graphs[g].claims
<1> DEFINE new == [k \in Claim |-> CASE Graph!Verdict("interview", k) = "verified" -> "verified_in_interview"
                                      [] Graph!Verdict("interview", k) = "contradicted" -> "contradicted_in_interview"
                                      [] OTHER -> graphs[work["interview"].graph].claims[k]]
<1> DEFINE to == [Graph!Idle EXCEPT !.step = "rescore"]
<1>1. /\ work["interview"].step = "graph" /\ Graph!SaveGraph("interview", new, to) /\ probes' = probes /\ cards' = cards
  BY Zenon DEF Graph!ApplyVerdictsToClaims
<1>2. g \in DOMAIN graphs
  BY <1>i, <1>1 DEF ClaimInv, Carried
<1>3. c \in [Claim -> Claimed]
  BY <1>t, <1>2, GraphFields
<1>4. ASSUME NEW k \in Claim
      PROVE  \/ Graph!Verdict("interview", k) = "verified" /\ new[k] = "verified_in_interview"
             \/ Graph!Verdict("interview", k) = "contradicted" /\ new[k] = "contradicted_in_interview"
             \/ new[k] = c[k]
  <2>1. new[k] = CASE Graph!Verdict("interview", k) = "verified" -> "verified_in_interview"
                   [] Graph!Verdict("interview", k) = "contradicted" -> "contradicted_in_interview"
                   [] OTHER -> c[k]
    BY Zenon
  <2>2. CASE Graph!Verdict("interview", k) = "verified"
    <3>1. Graph!Verdict("interview", k) # "contradicted"
      BY <2>2
    <3> HIDE DEF new
    <3> QED
      BY <2>1, <2>2, <3>1, Zenon
  <2>3. CASE Graph!Verdict("interview", k) = "contradicted"
    <3>1. Graph!Verdict("interview", k) # "verified"
      BY <2>3
    <3> HIDE DEF new
    <3> QED
      BY <2>1, <2>3, <3>1, Zenon
  <2>4. CASE Graph!Verdict("interview", k) # "verified" /\ Graph!Verdict("interview", k) # "contradicted"
    <3> HIDE DEF new
    <3> QED
      BY <2>1, <2>4, Zenon
  <2> QED
    BY <2>2, <2>3, <2>4
<1>5. \A k \in Claim : Graph!Verdict("interview", k) \in {"verified", "contradicted"} => probes[k].verdict = Graph!Verdict("interview", k)
  BY <1>1 DEF Graph!Verdict, ClaimInv, VerdictsAreSaved, Backed
<1>6. DOMAIN new = Claim
  OBVIOUS
<1>7. new = [k \in Claim |-> new[k]]
  BY Zenon
<1> HIDE DEF new
<1>8. new \in [Claim -> Claimed]
  <2>1. \A k \in Claim : new[k] \in Claimed
    BY <1>3, <1>4 DEF Claimed, InInterview
  <2> QED
    BY <1>7, <2>1
<1>9. \A k \in Claim : new[k] = c[k] \/ (new[k] \in InInterview /\ Earned(new, k))
  BY <1>4, <1>5 DEF Earned, InInterview
<1>10. to \in Slots /\ to.step = "rescore"
  BY ClaimConstants DEF Slots, Graph!Idle
<1> HIDE DEF to
<1>11. /\ work' = [work EXCEPT !["interview"] = to]
       /\ graphs' \in Seq(ClaimGraphs) /\ DOMAIN graphs' = DOMAIN graphs
       /\ \A n \in DOMAIN graphs : n # g => graphs'[n] = graphs[n]
       /\ graphs'[g].claims \in {new, c}
  BY <1>t, <1>i, <1>1, <1>2, <1>8, GraphSaved
<1>12. \A n \in DOMAIN graphs, k \in Claim : \/ graphs'[n].claims[k] = graphs[n].claims[k]
                                             \/ graphs'[n].claims[k] \in InInterview /\ Earned(graphs'[n].claims, k)
  <2> SUFFICES ASSUME NEW n \in DOMAIN graphs, NEW k \in Claim
               PROVE  \/ graphs'[n].claims[k] = graphs[n].claims[k]
                      \/ graphs'[n].claims[k] \in InInterview /\ Earned(graphs'[n].claims, k)
    OBVIOUS
  <2>1. CASE n = g /\ graphs'[g].claims = new
    BY <2>1, <1>9
  <2>2. CASE n # g \/ graphs'[g].claims = c
    BY <2>2, <1>11
  <2> QED
    BY <1>11, <2>1, <2>2
<1> HIDE DEF g, c
<1>13. GraphsGrow
  BY <1>11, <1>12 DEF GraphsGrow, Plain, InInterview
<1>14. \A n \in DOMAIN graphs', k \in Claim :
          Earned(graphs'[n].claims, k) \/ (n \in DOMAIN graphs /\ graphs'[n].claims[k] = graphs[n].claims[k])
  BY <1>11, <1>12
<1> QED
  BY <1>1, <1>10, <1>11, <1>13, <1>14, <1>i, QuietStep

-----------------------------------------------------------------------------
(* The panel                                                                 *)

LEMMA SubmitStep ==
    ASSUME ClaimBounds, ClaimInv, NEW p \in Interviewers, Graph!SubmitScorecard(p) PROVE ClaimInv'
<1>t. ClaimTypes
  BY DEF ClaimInv
<1>p. p \in Graph!Workers /\ p # "interview"
  BY ClaimConstants, DifferentWorkers
<1>1. graphs # <<>> /\ graphs' = graphs /\ probes' = probes /\ cards' = cards
  BY DEF Graph!SubmitScorecard
<1>2. PICK v \in [Claim -> Given] :
         Graph!Step(p, "idle", [step |-> "graph", graph |-> Len(graphs), version |-> graphs[Len(graphs)].version, verdicts |-> v])
  BY Zenon DEF Graph!SubmitScorecard, Given
<1> DEFINE to == [step |-> "graph", graph |-> Len(graphs), version |-> graphs[Len(graphs)].version, verdicts |-> v]
<1>3. Len(graphs) \in DOMAIN graphs /\ Len(graphs) \in Nat /\ graphs[Len(graphs)].version \in Nat
  BY <1>t, <1>1, LastGraph
<1>4. to \in Slots /\ to.step = "graph" /\ to.graph \in DOMAIN graphs /\ to.verdicts \in [Claim -> Given]
  BY <1>3, ClaimConstants DEF Slots
<1>5. work' = [work EXCEPT ![p] = to]
  BY <1>2 DEF Graph!Step
<1>6. GraphsGrow
  BY <1>t, <1>1, SameGraphsGrow
<1> HIDE DEF to
<1> QED
  BY <1>1, <1>4, <1>5, <1>6, <1>p, QuietStep

(* The verdicts are on the graph, or the card is to be submitted again.      *)
LEMMA WriteScorecardStep ==
    ASSUME ClaimBounds, ClaimInv, NEW p \in Interviewers, Graph!WriteScorecardVerdicts(p) PROVE ClaimInv'
<1>t. ClaimTypes
  BY DEF ClaimInv
<1>p. p \in Graph!Workers /\ p # "interview"
  BY ClaimConstants, DifferentWorkers
<1> DEFINE g == work[p].graph
<1> DEFINE c == graphs[g].claims
<1> DEFINE v == work[p].verdicts
<1> DEFINE incoming(k) == IF Graph!Verdict(p, k) = "verified" THEN "verified_by_human" ELSE "contradicted_by_human"
<1> DEFINE new == [k \in Claim |-> IF Graph!Verdict(p, k) # "inconclusive" /\ Graph!Outranks(c[k], incoming(k)) THEN incoming(k) ELSE c[k]]
<1> DEFINE refused == graphs[g].version # work[p].version
<1> DEFINE to == IF refused THEN Graph!Idle ELSE [work[p] EXCEPT !.step = "save"]
<1>1. /\ work[p].step = "graph" /\ Graph!SaveGraph(p, new, to) /\ probes' = probes /\ cards' = cards
  BY Zenon DEF Graph!WriteScorecardVerdicts
<1>2. g \in DOMAIN graphs /\ v \in [Claim -> Given]
  BY <1>p, <1>1 DEF ClaimInv, Carried
<1>3. c \in [Claim -> Claimed]
  BY <1>t, <1>2, GraphFields
<1>4. \A k \in Claim : Graph!Verdict(p, k) = v[k]
  BY <1>2 DEF Graph!Verdict
<1>5. ASSUME NEW k \in Claim
      PROVE  /\ new[k] \in Claimed /\ (new[k] = c[k] \/ new[k] \in {"verified_by_human", "contradicted_by_human"})
             /\ v[k] # "inconclusive" => new[k] \notin Plain
  <2>1. c[k] \in Claimed
    BY <1>3
  <2>2. incoming(k) \in {"verified_by_human", "contradicted_by_human"}
    OBVIOUS
  <2>3. /\ Graph!Rank(c[k]) \in {0, 1, 2, 3, 4} /\ (Graph!Rank(c[k]) \in {0, 1} <=> c[k] \in Plain)
        /\ Graph!Rank(incoming(k)) = 4
    BY <2>1, <2>2, RanksOfStatuses
  <2> HIDE DEF incoming
  <2>4. new[k] = IF v[k] # "inconclusive" /\ Graph!Rank(incoming(k)) > Graph!Rank(c[k]) THEN incoming(k) ELSE c[k]
    BY <1>4 DEF Graph!Outranks
  <2> HIDE DEF new
  <2>5. CASE v[k] # "inconclusive" /\ Graph!Rank(incoming(k)) > Graph!Rank(c[k])
    <3>1. new[k] = incoming(k)
      BY <2>4, <2>5
    <3> QED
      BY <3>1, <2>2 DEF Claimed, Plain
  <2>6. CASE ~(v[k] # "inconclusive" /\ Graph!Rank(incoming(k)) > Graph!Rank(c[k]))
    <3>1. new[k] = c[k]
      BY <2>4, <2>6
    <3>2. v[k] # "inconclusive" => Graph!Rank(c[k]) = 4
      BY <2>3, <2>6
    <3> QED
      BY <3>1, <3>2, <2>1, <2>3
  <2> QED
    BY <2>5, <2>6
<1>6. new = [k \in Claim |-> new[k]]
  BY Zenon
<1> HIDE DEF new
<1>7. new \in [Claim -> Claimed]
  BY <1>5, <1>6
<1>8. /\ to \in Slots /\ (refused => to.step = "idle")
      /\ ~refused => to.step = "save" /\ to.graph = g /\ to.verdicts = v
  <2>1. work[p] \in Slots
    BY <1>t, <1>p, SlotFields
  <2>2. [work[p] EXCEPT !.step = "save"] \in Slots /\ [work[p] EXCEPT !.step = "save"].step = "save"
        /\ [work[p] EXCEPT !.step = "save"].graph = g /\ [work[p] EXCEPT !.step = "save"].verdicts = v
    BY <2>1 DEF Slots
  <2> QED
    BY <2>2, ClaimConstants
<1> HIDE DEF to
<1>9. /\ work' = [work EXCEPT ![p] = to]
      /\ graphs' \in Seq(ClaimGraphs) /\ DOMAIN graphs' = DOMAIN graphs
      /\ \A n \in DOMAIN graphs : n # g => graphs'[n] = graphs[n]
      /\ graphs'[g].claims \in {new, c}
      /\ ~refused => graphs'[g].claims = new
  BY <1>t, <1>p, <1>1, <1>2, <1>7, GraphSaved
<1>10. \A n \in DOMAIN graphs, k \in Claim : \/ graphs'[n].claims[k] = graphs[n].claims[k]
                                            \/ graphs'[n].claims[k] \in {"verified_by_human", "contradicted_by_human"}
  BY <1>5, <1>9
<1>11. ~refused => BorneThen(v, g)
  BY <1>2, <1>5, <1>9 DEF BorneThen
<1>12. to.step = "save" => ~refused
  BY <1>8
<1>13. to.step \in {"idle", "save"}
  BY <1>8
<1>14. to.step = "save" => to.graph = g /\ to.verdicts = v /\ BorneThen(to.verdicts, to.graph)
  BY <1>8, <1>11, <1>12
<1> HIDE DEF refused
<1>15. GraphsGrow
  BY <1>9, <1>10 DEF GraphsGrow, Plain
<1>16. \A n \in DOMAIN graphs', k \in Claim :
          Earned(graphs'[n].claims, k) \/ (n \in DOMAIN graphs /\ graphs'[n].claims[k] = graphs[n].claims[k])
  BY <1>9, <1>10 DEF Earned
<1>17. /\ to.step \in {"verdicts", "graph", "save"} => to.graph \in DOMAIN graphs
       /\ to.step \in {"graph", "save"} => to.verdicts \in [Claim -> Given]
  BY <1>2, <1>13, <1>14
<1> HIDE DEF g, c, v
<1> QED
  BY <1>1, <1>8, <1>9, <1>14, <1>15, <1>16, <1>17, <1>p, QuietStep

(* What is left of the cards' steps: they are opened, cancelled and saved.   *)
LEMMA CardsStep ==
    ASSUME ClaimBounds, ClaimInv, NEW p \in Interviewers,
           Graph!CreateScorecard(p) \/ Graph!CancelScorecard(p) \/ Graph!SaveScorecard(p)
    PROVE  ClaimInv'
<1>t. ClaimTypes
  BY DEF ClaimInv
<1>p. p \in Graph!Workers /\ p # "interview"
  BY ClaimConstants, DifferentWorkers
<1>0. graphs' = graphs /\ probes' = probes
  BY DEF Graph!CreateScorecard, Graph!CancelScorecard, Graph!SaveScorecard
<1>c. cards \in [Interviewers -> PanelCards] /\ cards[p] \in PanelCards
  BY <1>t DEF ClaimTypes
<1>1. PICK card \in PanelCards : /\ cards' = [cards EXCEPT ![p] = card]
                                 /\ card.status = "submitted" => \E n \in DOMAIN graphs : Borne(card.verdicts, n)
  <2>1. CASE Graph!CreateScorecard(p)
    <3> DEFINE card == [cards[p] EXCEPT !.status = "open"]
    <3>1. card \in PanelCards /\ card.status = "open"
      BY <1>c DEF PanelCards
    <3>2. cards' = [cards EXCEPT ![p] = card]
      BY <2>1 DEF Graph!CreateScorecard
    <3> HIDE DEF card
    <3> QED
      BY <3>1, <3>2
  <2>2. CASE Graph!CancelScorecard(p)
    <3> DEFINE card == [cards[p] EXCEPT !.status = "cancelled"]
    <3>1. card \in PanelCards /\ card.status = "cancelled"
      BY <1>c DEF PanelCards
    <3>2. cards' = [cards EXCEPT ![p] = card]
      BY <2>2 DEF Graph!CancelScorecard
    <3> HIDE DEF card
    <3> QED
      BY <3>1, <3>2
  <2>3. CASE Graph!SaveScorecard(p)
    <3> DEFINE card == [status |-> "submitted", verdicts |-> work[p].verdicts]
    <3>1. card \in PanelCards /\ card.verdicts = work[p].verdicts
      BY <1>t, <1>p, SlotFields DEF PanelCards
    <3>2. cards' = [cards EXCEPT ![p] = card] /\ work[p].step = "save"
      BY <2>3 DEF Graph!SaveScorecard, Graph!Step
    <3> HIDE DEF card
    <3>3. Borne(work[p].verdicts, work[p].graph)
      BY <3>2 DEF ClaimInv, VerdictsAreBorne
    <3>4. work[p].graph \in DOMAIN graphs
      BY <3>3 DEF Borne
    <3> QED
      BY <3>1, <3>2, <3>3, <3>4
  <2> QED
    BY <2>1, <2>2, <2>3
<1>2. /\ cards' \in [Interviewers -> PanelCards] /\ cards'[p] = card
      /\ \A q \in Interviewers : q # p => cards'[q] = cards[q]
  BY <1>c, <1>1
<1>3. CardsAreBorne'
  <2>1. ASSUME NEW q \in Interviewers, cards'[q].status = "submitted"
        PROVE  \E n \in DOMAIN graphs : Borne(cards'[q].verdicts, n)
    <3>1. CASE q = p
      BY <2>1, <3>1, <1>1, <1>2
    <3>2. CASE q # p
      BY <2>1, <3>2, <1>2 DEF ClaimInv, CardsAreBorne
    <3> QED
      BY <3>1, <3>2
  <2> QED
    BY <2>1, <1>0 DEF CardsAreBorne, Borne
<1>4. work' \in [Graph!Workers -> Slots] /\ Carried' /\ VerdictsAreBorne' /\ work'["interview"] = work["interview"]
  <2>1. CASE work' = work
    BY <2>1, <1>0, WorkKept
  <2>2. CASE work' = [work EXCEPT ![p] = Graph!Idle]
    <3>1. GraphsGrow
      BY <1>t, <1>0, SameGraphsGrow
    <3>2. Graph!Idle \in Slots /\ Graph!Idle.step \notin {"verdicts", "graph", "save"} /\ "interview" \in Graph!Workers
      BY ClaimConstants
    <3> QED
      BY <2>2, <3>1, <3>2, <1>p, WorkersStep
  <2> QED
    BY <2>1, <2>2 DEF Graph!CreateScorecard, Graph!CancelScorecard, Graph!SaveScorecard, Graph!Step
<1>5. ClaimTypes'
  BY <1>t, <1>0, <1>2, <1>4 DEF ClaimTypes
<1>6. ProbesAreEarned' /\ ClaimsAreEarned'
  BY <1>0 DEF ClaimInv, ProbesAreEarned, ProbeEarned, ClaimsAreEarned, Earned
<1>7. DeclinedAreSettled' /\ VerdictsAreSaved'
  BY <1>0, <1>4 DEF ClaimInv, DeclinedAreSettled, Graph!Declined, VerdictsAreSaved, Backed
<1> QED
  BY <1>3, <1>4, <1>5, <1>6, <1>7 DEF ClaimInv

-----------------------------------------------------------------------------
(* The claims                                                                *)

LEMMA ClaimsStep == ASSUME ClaimBounds PROVE ClaimInv /\ [Graph!Next]_(Graph!vars) => ClaimInv'
<1> SUFFICES ASSUME ClaimInv, [Graph!Next]_(Graph!vars) PROVE ClaimInv'
  OBVIOUS
<1>1. CASE UNCHANGED Graph!vars
  <2>1. graphs' = graphs /\ probes' = probes /\ cards' = cards /\ work' = work
    BY <1>1 DEF Graph!vars
  <2> QED
    BY <2>1 DEF ClaimInv, ClaimTypes, Carried, ProbesAreEarned, ProbeEarned, DeclinedAreSettled, Graph!Declined, VerdictsAreSaved,
                Backed, ClaimsAreEarned, Earned, VerdictsAreBorne, CardsAreBorne, Borne
<1>2. CASE Graph!Next
  <2>1. ASSUME NEW r \in Runs, Graph!Extract(r) \/ Graph!CreateGraph(r) \/ Graph!RunEvidenceAssessment(r) \/ Graph!FallBack(r) PROVE ClaimInv'
    BY <2>1, ScreeningStep
  <2>2. CASE Graph!GenerateProbes
    BY <2>2, GenerateStep
  <2>3. ASSUME NEW t \in Graph!Targets, NEW answer \in {"given", "declined"}, Graph!Ask(t, answer) PROVE ClaimInv'
    BY <2>3, AskStep
  <2>4. CASE Graph!AssessVerdicts
    BY <2>4, AssessStep
  <2>5. CASE Graph!SaveVerdicts
    BY <2>5, SaveVerdictsStep
  <2>6. CASE Graph!ApplyVerdictsToClaims
    BY <2>6, ApplyStep
  <2>7. CASE Graph!RescoreAfterInterview \/ Graph!RescoreAfterAssessment \/ Graph!Crash
    BY <2>7, RescoreStep
  <2>8. CASE Graph!ScoreAssessment \/ Graph!WriteAssessmentVerdicts
    BY <2>8, AssessmentWriteStep
  <2>9. ASSUME NEW p \in Interviewers, \/ Graph!CreateScorecard(p) \/ Graph!CancelScorecard(p)
                                       \/ Graph!SubmitScorecard(p) \/ Graph!WriteScorecardVerdicts(p) \/ Graph!SaveScorecard(p)
        PROVE  ClaimInv'
    BY <2>9, SubmitStep, WriteScorecardStep, CardsStep
  <2> QED
    BY <1>2, <2>1, <2>2, <2>3, <2>4, <2>5, <2>6, <2>7, <2>8, <2>9, Zenon DEF Graph!Next
<1> QED
  BY <1>1, <1>2

(* A claim counts as settled by the interview only through an answer that its
   own probe received, whatever is declined, misquoted or graded again after a
   crash (assessVerdicts, sanitiseVerdicts and applyVerdictsToClaims of
   probeService.js).                                                         *)
THEOREM VerdictsOfTheInterviewAreEarned == ASSUME ClaimBounds PROVE Graph!Spec => []Graph!VerdictsAreEarned
<1>1. ClaimInv => Graph!VerdictsAreEarned
  BY DEF ClaimInv, ProbesAreEarned, ProbeEarned, ClaimsAreEarned, Earned, Graph!VerdictsAreEarned
<1> QED
  BY <1>1, ClaimsInit, ClaimsStep, PTL DEF Graph!Spec

(* What an interviewer submitted about a claim is on a claim graph, or what
   outranks it is, however the assessment, the interview and the other cards
   write to the same claims meanwhile (submitScorecard).                     *)
THEOREM VerdictsOfThePanelCount == ASSUME ClaimBounds PROVE Graph!Spec => []Graph!SubmittedVerdictsCount
<1>1. ClaimInv => Graph!SubmittedVerdictsCount
  <2> SUFFICES ASSUME ClaimInv, NEW p \in Interviewers, cards[p].status = "submitted"
               PROVE  \E n \in DOMAIN graphs : \A k \in Claim :
                          cards[p].verdicts[k] # "inconclusive" => Graph!Rank(graphs[n].claims[k]) >= 2
    BY DEF Graph!SubmittedVerdictsCount
  <2>1. PICK n \in DOMAIN graphs : Borne(cards[p].verdicts, n)
    BY DEF ClaimInv, CardsAreBorne
  <2>2. graphs[n].claims \in [Claim -> Claimed]
    BY GraphFields DEF ClaimInv
  <2>3. ASSUME NEW k \in Claim, cards[p].verdicts[k] # "inconclusive" PROVE Graph!Rank(graphs[n].claims[k]) >= 2
    <3>1. graphs[n].claims[k] \in Claimed /\ graphs[n].claims[k] \notin Plain
      BY <2>1, <2>2, <2>3 DEF Borne
    <3>2. Graph!Rank(graphs[n].claims[k]) \in {2, 3, 4}
      BY <3>1, RanksOfStatuses
    <3> QED
      BY <3>2
  <2> QED
    BY <2>3
<1> QED
  BY <1>1, ClaimsInit, ClaimsStep, PTL DEF Graph!Spec

-----------------------------------------------------------------------------
(* What the claims are worth.                                                *)

ScoreBounds ==
    /\ IsFiniteSet(Criteria) /\ Disqualifiers \subseteq Criteria /\ Weight \in [Criteria -> Nat]
    /\ Specificity \in [Claim -> {"quantified", "specific", "vague"}]

Statements == [Claim -> Claimed]
Judged == [Criteria -> [status : Statuses \cup {"absent"}, support : SUBSET Claim]]
Results == [score : Int, decision : {"pass", "review", "fail"}, disqualified : BOOLEAN, targets : SUBSET Claim]

LEMMA MultipliersAreBounded ==
    ASSUME ScoreBounds, NEW claims \in Statements, NEW k \in Claim
    PROVE  /\ Graph!EvidenceMultiplier(k, claims) \in Nat /\ Graph!EvidenceMultiplier(k, claims) <= 10000
           /\ Graph!SpecificityMult[Specificity[k]] \in Nat
           /\ Graph!VerificationMult[claims[k]] \in {75, 50, 95, 0, 100}
<1>1. Graph!SpecificityMult[Specificity[k]] \in {100, 85, 60}
  <2>1. Specificity[k] \in {"quantified", "specific", "vague"}
    BY DEF ScoreBounds
  <2> QED
    BY <2>1 DEF Graph!SpecificityMult
<1>2. Graph!VerificationMult[claims[k]] \in {75, 50, 95, 0, 100}
  <2>1. claims[k] \in Claimed
    BY DEF Statements
  <2> QED
    BY <2>1 DEF Graph!VerificationMult, Claimed, Plain, InInterview
<1>3. PICK a \in {100, 85, 60} : Graph!SpecificityMult[Specificity[k]] = a
  BY <1>1
<1>4. PICK b \in {75, 50, 95, 0, 100} : Graph!VerificationMult[claims[k]] = b
  BY <1>2
<1>5. Graph!EvidenceMultiplier(k, claims) = a * b
  BY <1>3, <1>4 DEF Graph!EvidenceMultiplier
<1>6. a * b \in Nat /\ a * b <= 10000 /\ a \in Nat
  OBVIOUS
<1> QED
  BY <1>2, <1>3, <1>5, <1>6

Worths(support, claims) == {Graph!EvidenceMultiplier(k, claims) : k \in support}

LEMMA BestIsBest ==
    ASSUME ScoreBounds, NEW claims \in Statements, NEW support \in SUBSET Claim, support # {}
    PROVE  /\ Graph!Best(support, claims) \in Nat
           /\ \E k \in support : Graph!Best(support, claims) = Graph!EvidenceMultiplier(k, claims)
           /\ \A k \in support : Graph!EvidenceMultiplier(k, claims) <= Graph!Best(support, claims)
<1>1. (\A v \in Worths(support, claims) : v \in Nat /\ v <= 10000) /\ Worths(support, claims) # {} /\ 10000 \in Nat
  BY MultipliersAreBounded DEF Worths
<1>2. PICK m \in Worths(support, claims) : \A v \in Worths(support, claims) : v <= m
  BY <1>1, GreatestOf
<1>3. \A k \in support : Graph!EvidenceMultiplier(k, claims) <= m
  BY <1>2 DEF Worths
<1>4. Graph!Best(support, claims) = CHOOSE i \in Worths(support, claims) : \A k \in support : Graph!EvidenceMultiplier(k, claims) <= i
  BY Zenon DEF Graph!Best, Worths
<1>5. PICK best \in Worths(support, claims) : /\ \A k \in support : Graph!EvidenceMultiplier(k, claims) <= best
                                              /\ Graph!Best(support, claims) = best
  BY <1>2, <1>3, <1>4, Zenon
<1>6. best \in Nat
  BY <1>1
<1>7. \E k \in support : best = Graph!EvidenceMultiplier(k, claims)
  BY DEF Worths
<1> QED
  BY <1>5, <1>6, <1>7

(* Nothing that is known of a claim takes from its worth.                    *)
WorthNoLess(less, more) ==
    \A k \in Claim : Graph!VerificationMult[less[k]] <= Graph!VerificationMult[more[k]]

LEMMA BestGrows ==
    ASSUME ScoreBounds, NEW less \in Statements, NEW more \in Statements, WorthNoLess(less, more),
           NEW support \in SUBSET Claim, support # {}
    PROVE  Graph!Best(support, less) <= Graph!Best(support, more)
<1>1. PICK k \in support : Graph!Best(support, less) = Graph!EvidenceMultiplier(k, less)
  BY BestIsBest
<1>2. Graph!EvidenceMultiplier(k, more) <= Graph!Best(support, more)
  BY BestIsBest
<1>3. PICK a \in Nat : Graph!SpecificityMult[Specificity[k]] = a
  BY MultipliersAreBounded
<1>4. PICK u \in Int, v \in Int : Graph!VerificationMult[less[k]] = u /\ Graph!VerificationMult[more[k]] = v
  <2>1. Graph!VerificationMult[less[k]] \in {75, 50, 95, 0, 100} /\ Graph!VerificationMult[more[k]] \in {75, 50, 95, 0, 100}
    BY MultipliersAreBounded
  <2> QED
    BY <2>1
<1>5. u <= v
  BY <1>4 DEF WorthNoLess
<1>6. a * u <= a * v /\ a * u \in Int /\ a * v \in Int
  BY <1>5, NoLess
<1>7. Graph!EvidenceMultiplier(k, less) = a * u /\ Graph!EvidenceMultiplier(k, more) = a * v
  BY <1>3, <1>4 DEF Graph!EvidenceMultiplier
<1>8. Graph!Best(support, more) \in Nat
  BY BestIsBest
<1> QED
  BY <1>1, <1>2, <1>6, <1>7, <1>8

LEMMA GraphSums == ASSUME NEW S, NEW F PROVE Graph!SumOver(S, F) = SumOver(S, F)
BY DEF Graph!SumOver, Graph!MapThenSumSet, Graph!MapThenFoldSet, SumOver, MapThenSumSet, MapThenFoldSet

LEMMA PointsAreWhole ==
    ASSUME ScoreBounds, NEW findings \in Judged, NEW claims \in Statements
    PROVE  Whole(Criteria, Graph!Points(findings, claims))
<1> SUFFICES ASSUME NEW c \in Criteria PROVE Graph!Points(findings, claims)[c] \in Int
  BY DEF Whole
<1>1. findings[c].support \in SUBSET Claim /\ Weight[c] \in Nat
  BY DEF Judged, ScoreBounds
<1>2. Graph!StatusValue(findings[c].status) \in Nat
  BY DEF Graph!StatusValue
<1>3. CASE c \in Disqualifiers \/ findings[c].support = {}
  BY <1>3 DEF Graph!Points
<1>4. CASE ~(c \in Disqualifiers \/ findings[c].support = {})
  <2>1. Graph!Best(findings[c].support, claims) \in Nat
    BY <1>1, <1>4, BestIsBest
  <2>2. Graph!Points(findings, claims)[c] = Graph!StatusValue(findings[c].status) * Graph!Best(findings[c].support, claims) * Weight[c]
    BY <1>4 DEF Graph!Points
  <2> QED
    BY <1>1, <1>2, <2>1, <2>2
<1> QED
  BY <1>3, <1>4

LEMMA PointsGrow ==
    ASSUME ScoreBounds, NEW findings \in Judged, NEW less \in Statements, NEW more \in Statements, WorthNoLess(less, more),
           NEW c \in Criteria
    PROVE  Graph!Points(findings, less)[c] <= Graph!Points(findings, more)[c]
<1>1. findings[c].support \in SUBSET Claim /\ Weight[c] \in Nat
  BY DEF Judged, ScoreBounds
<1>2. Graph!StatusValue(findings[c].status) \in Nat
  BY DEF Graph!StatusValue
<1>3. CASE c \in Disqualifiers \/ findings[c].support = {}
  BY <1>3 DEF Graph!Points
<1>4. CASE ~(c \in Disqualifiers \/ findings[c].support = {})
  <2> DEFINE v == Graph!StatusValue(findings[c].status)
             b == Graph!Best(findings[c].support, less)
             d == Graph!Best(findings[c].support, more)
  <2>1. b \in Nat /\ d \in Nat /\ b <= d
    BY <1>1, <1>4, BestIsBest, BestGrows
  <2>2. Graph!Points(findings, less)[c] = v * b * Weight[c] /\ Graph!Points(findings, more)[c] = v * d * Weight[c]
    BY <1>4 DEF Graph!Points
  <2>3. v \in Nat
    BY <1>2
  <2> HIDE DEF v, b, d
  <2>4. v * b <= v * d /\ v * b \in Int /\ v * d \in Int
    BY <2>1, <2>3, NoLess
  <2>5. Weight[c] * (v * b) <= Weight[c] * (v * d)
    BY <1>1, <2>4, NoLess
  <2>6. \A i, j \in Int : i * j = j * i
    OBVIOUS
  <2>7. Weight[c] * (v * b) = v * b * Weight[c] /\ Weight[c] * (v * d) = v * d * Weight[c]
    BY <1>1, <2>4, <2>6
  <2> QED
    BY <2>2, <2>5, <2>7
<1> QED
  BY <1>3, <1>4

LEMMA ScoreGrows ==
    ASSUME ScoreBounds, NEW findings \in Judged, NEW less \in Statements, NEW more \in Statements, WorthNoLess(less, more)
    PROVE  Graph!ScoreOf(findings, less) \in Int /\ Graph!ScoreOf(findings, more) \in Int
           /\ Graph!ScoreOf(findings, less) <= Graph!ScoreOf(findings, more)
<1> DEFINE F == Graph!Points(findings, less)
           G == Graph!Points(findings, more)
<1>1. Whole(Criteria, F) /\ Whole(Criteria, G) /\ IsFiniteSet(Criteria)
  BY PointsAreWhole DEF ScoreBounds
<1>2. \A c \in Criteria : F[c] <= G[c]
  BY PointsGrow
<1> HIDE DEF F, G
<1>3. \A c \in Criteria : 1 * F[c] <= 1 * G[c]
  BY <1>1, <1>2 DEF Whole
<1>4. SumOver(Criteria, F) \in Int /\ SumOver(Criteria, G) \in Int /\ 1 * SumOver(Criteria, F) <= 1 * SumOver(Criteria, G)
  BY <1>1, <1>3, SumsCompare
<1> DEFINE s == SumOver(Criteria, F)
           t == SumOver(Criteria, G)
<1>5. s + 10000 \in Int /\ t + 10000 \in Int /\ s + 10000 <= t + 10000
  BY <1>4
<1>6. Graph!ScoreOf(findings, less) = (s + 10000) \div 20000 /\ Graph!ScoreOf(findings, more) = (t + 10000) \div 20000
  BY GraphSums DEF Graph!ScoreOf, F, G
<1> HIDE DEF s, t
<1>7. (s + 10000) \div 20000 <= (t + 10000) \div 20000
  BY <1>5, QuotientGrows
<1>8. (s + 10000) \div 20000 \in Int /\ (t + 10000) \div 20000 \in Int
  BY <1>5
<1> QED
  BY <1>6, <1>7, <1>8

-----------------------------------------------------------------------------
(* The scores.                                                               *)

(* A result of these findings and claims: a disqualified candidate fails.    *)
ResultHolds(findings, claims, result) ==
    result \in Results /\ result.score = Graph!ScoreOf(findings, claims) /\ (result.disqualified => result.decision = "fail")

LEMMA ComputedIsFair ==
    ASSUME ScoreBounds, NEW findings \in Judged, NEW claims \in Statements
    PROVE  ResultHolds(findings, claims, Graph!ComputeAssessment(findings, claims))
<1>1. Graph!ScoreOf(findings, claims) \in Int
  <2>1. WorthNoLess(claims, claims)
    <3>1. \A k \in Claim : Graph!VerificationMult[claims[k]] \in {75, 50, 95, 0, 100}
      BY MultipliersAreBounded
    <3>2. \A v \in {75, 50, 95, 0, 100} : v <= v
      OBVIOUS
    <3> QED
      BY <3>1, <3>2, ZenonT(40) DEF WorthNoLess
  <2> QED
    BY <2>1, ScoreGrows
<1>2. Graph!WorthAsking(findings, claims) \in SUBSET Claim
  <2>1. \A c \in Criteria : findings[c].support \subseteq Claim
    BY DEF Judged
  <2> QED
    BY <2>1 DEF Graph!WorthAsking
<1>3. /\ Graph!Decided(findings, Graph!ScoreOf(findings, claims)) \in {"pass", "review", "fail"}
      /\ Graph!Disqualified(findings) => Graph!Decided(findings, Graph!ScoreOf(findings, claims)) = "fail"
  BY DEF Graph!Decided
<1>4. Graph!Disqualified(findings) \in BOOLEAN
  BY DEF Graph!Disqualified
<1> QED
  BY <1>1, <1>2, <1>3, <1>4 DEF ResultHolds, Results, Graph!ComputeAssessment

LEMMA GatedIsFair ==
    ASSUME ScoreBounds, NEW findings \in Judged, NEW claims \in Statements, NEW refuted, NEW doubtful \in BOOLEAN
    PROVE  /\ Graph!RunGate(findings, claims, refuted, doubtful).findings \in Judged
           /\ ResultHolds(Graph!RunGate(findings, claims, refuted, doubtful).findings, claims,
                   Graph!RunGate(findings, claims, refuted, doubtful).result)
<1> DEFINE before == Graph!ComputeAssessment(findings, claims)
           left == [c \in Criteria |-> Graph!Sanitised([findings[c] EXCEPT !.support = @ \ refuted])]
           after == Graph!ComputeAssessment(left, claims)
           scored == IF refuted # {} /\ after.decision = "fail" /\ before.decision # "fail" THEN [after EXCEPT !.decision = "review"] ELSE after
           routed == doubtful /\ (scored.decision = "pass" \/ (scored.decision = "fail" /\ ~scored.disqualified))
           gated == Graph!RunGate(findings, claims, refuted, doubtful)
<1>1. left \in Judged
  <2> SUFFICES ASSUME NEW c \in Criteria
               PROVE  Graph!Sanitised([findings[c] EXCEPT !.support = @ \ refuted]) \in [status : Statuses \cup {"absent"}, support : SUBSET Claim]
    BY DEF Judged
  <2>1. PICK status \in Statuses \cup {"absent"}, support \in SUBSET Claim : findings[c] = [status |-> status, support |-> support]
    <3>1. findings[c] \in [status : Statuses \cup {"absent"}, support : SUBSET Claim]
      BY DEF Judged
    <3> QED
      BY <3>1
  <2>2. [findings[c] EXCEPT !.support = @ \ refuted] = [status |-> status, support |-> support \ refuted]
    BY <2>1
  <2> QED
    BY <2>2 DEF Graph!Sanitised
<1>2. ResultHolds(findings, claims, before) /\ ResultHolds(left, claims, after)
  BY <1>1, ComputedIsFair
<1>3. after.disqualified => before.decision = "fail"
  <2> SUFFICES ASSUME after.disqualified PROVE before.decision = "fail"
    OBVIOUS
  <2>1. PICK c \in Disqualifiers : left[c].status = "satisfied"
    BY DEF Graph!ComputeAssessment, Graph!Disqualified
  <2>2. c \in Criteria
    BY DEF ScoreBounds
  <2>3. PICK status \in Statuses \cup {"absent"}, support \in SUBSET Claim : findings[c] = [status |-> status, support |-> support]
    <3>1. findings[c] \in [status : Statuses \cup {"absent"}, support : SUBSET Claim]
      BY <2>2 DEF Judged
    <3> QED
      BY <3>1
  <2>4. left[c] = Graph!Sanitised([status |-> status, support |-> support \ refuted])
    BY <2>2, <2>3
  <2>5. left[c].status \in {status, "absent"}
    <3> DEFINE f == [status |-> status, support |-> support \ refuted]
    <3>1. f.status = status /\ [f EXCEPT !.status = "absent"].status = "absent"
      OBVIOUS
    <3>2. Graph!Sanitised(f) = f \/ Graph!Sanitised(f) = [f EXCEPT !.status = "absent"]
      BY DEF Graph!Sanitised
    <3> HIDE DEF f, left
    <3> QED
      BY <2>4, <3>1, <3>2 DEF f
  <2>6. findings[c].status = "satisfied"
    <3> HIDE DEF left
    <3> QED
      BY <2>1, <2>3, <2>5
  <2> QED
    BY <2>6 DEF Graph!ComputeAssessment, Graph!Decided, Graph!Disqualified
<1>4. gated = IF Mode = "enforce"
              THEN [findings |-> left, result |-> IF routed THEN [scored EXCEPT !.decision = "review"] ELSE scored]
              ELSE [findings |-> findings, result |-> before]
  BY Zenon DEF Graph!RunGate
<1> HIDE DEF before, left, after, gated
<1>5. scored = after \/ (scored = [after EXCEPT !.decision = "review"] /\ ~after.disqualified)
  BY <1>2, <1>3 DEF ResultHolds
<1>6. ResultHolds(left, claims, scored)
  BY <1>2, <1>5 DEF ResultHolds, Results
<1> HIDE DEF scored
<1>7. routed => ~scored.disqualified
  BY <1>6 DEF ResultHolds
<1>8. ResultHolds(left, claims, IF routed THEN [scored EXCEPT !.decision = "review"] ELSE scored)
  BY <1>6, <1>7 DEF ResultHolds, Results
<1> HIDE DEF routed
<1>9. gated.findings \in Judged /\ ResultHolds(gated.findings, claims, gated.result)
  <2>1. CASE Mode = "enforce"
    BY <1>1, <1>4, <1>8, <2>1
  <2>2. CASE Mode # "enforce"
    BY <1>2, <1>4, <2>2
  <2> QED
    BY <2>1, <2>2
<1> QED
  BY <1>9 DEF gated

(* A score is of the claims it was computed on, by the rubric; one computed
   again is of a screening and of what the screening found.                  *)
Stages == {"pre_interview", "post_interview", "post_assessment"}
ScoreRecords == [stage : Stages, graph : Nat, pre : Nat, findings : Judged, claims : Statements, result : Results]
OfScreening(n) ==
    /\ scores[n].pre \in DOMAIN scores /\ scores[scores[n].pre].stage = "pre_interview"
    /\ scores[scores[n].pre].findings = scores[n].findings
ScoreHolds(n) ==
    /\ scores[n].graph \in DOMAIN graphs /\ ResultHolds(scores[n].findings, scores[n].claims, scores[n].result)
    /\ OfScreening(n)
MatchesHaveGraphs == \A r \in Runs : work[r].step = "match" => work[r].graph \in DOMAIN graphs
ScoreInv == scores \in Seq(ScoreRecords) /\ MatchesHaveGraphs /\ \A n \in DOMAIN scores : ScoreHolds(n)

LEMMA ScoresInit == Graph!Init => ScoreInv
<1> SUFFICES ASSUME Graph!Init PROVE ScoreInv
  OBVIOUS
<1>1. scores = <<>> /\ DOMAIN scores = {}
  BY DEF Graph!Init
<1>2. \A r \in Runs : work[r].step = "idle"
  BY DEF Graph!Init, Graph!Workers, Graph!Idle
<1> QED
  BY <1>1, <1>2 DEF ScoreInv, MatchesHaveGraphs

LEMMA ScoresKept ==
    ASSUME ScoreInv, scores' = scores, DOMAIN graphs \subseteq DOMAIN graphs', MatchesHaveGraphs'
    PROVE  ScoreInv'
BY DEF ScoreInv, ScoreHolds, OfScreening

LEMMA ScoreAppended ==
    ASSUME ScoreInv, NEW s \in ScoreRecords, scores' = Append(scores, s), DOMAIN graphs \subseteq DOMAIN graphs', MatchesHaveGraphs',
           s.graph \in DOMAIN graphs, ResultHolds(s.findings, s.claims, s.result),
           \/ s.pre = Len(scores) + 1 /\ s.stage = "pre_interview"
           \/ s.pre \in DOMAIN scores /\ scores[s.pre].stage = "pre_interview" /\ scores[s.pre].findings = s.findings
    PROVE  ScoreInv'
<1>1. /\ scores' \in Seq(ScoreRecords) /\ DOMAIN scores = 1 .. Len(scores) /\ DOMAIN scores' = 1 .. Len(scores) + 1
      /\ scores'[Len(scores) + 1] = s /\ \A n \in DOMAIN scores : scores'[n] = scores[n] /\ n \in DOMAIN scores'
      /\ Len(scores) \in Nat
  BY DEF ScoreInv
<1>2. ASSUME NEW n \in DOMAIN scores' PROVE ScoreHolds(n)'
  <2>1. CASE n \in DOMAIN scores
    <3>1. ScoreHolds(n)
      BY <2>1 DEF ScoreInv
    <3>2. scores'[n] = scores[n]
      BY <1>1, <2>1
    <3>3. scores[n].pre \in DOMAIN scores
      BY <3>1 DEF ScoreHolds, OfScreening
    <3>4. scores'[scores[n].pre] = scores[scores[n].pre] /\ scores[n].pre \in DOMAIN scores'
      BY <1>1, <3>3
    <3> QED
      BY <3>1, <3>2, <3>4 DEF ScoreHolds, OfScreening
  <2>2. CASE n = Len(scores) + 1
    <3>1. scores'[n] = s
      BY <1>1, <2>2
    <3>2. s.pre \in DOMAIN scores' /\ scores'[s.pre].stage = "pre_interview" /\ scores'[s.pre].findings = s.findings
      <4>1. CASE s.pre = Len(scores) + 1 /\ s.stage = "pre_interview"
        BY <1>1, <4>1
      <4>2. CASE s.pre \in DOMAIN scores /\ scores[s.pre].stage = "pre_interview" /\ scores[s.pre].findings = s.findings
        BY <1>1, <4>2
      <4> QED
        BY <4>1, <4>2
    <3> QED
      BY <3>1, <3>2 DEF ScoreHolds, OfScreening
  <2> QED
    BY <1>1, <2>1, <2>2
<1> QED
  BY <1>1, <1>2 DEF ScoreInv

(* A scoring goes on to a graph there is.                                    *)
LEMMA MatchesKept ==
    ASSUME ClaimInv, MatchesHaveGraphs, DOMAIN graphs \subseteq DOMAIN graphs', NEW w \in Graph!Workers, NEW to,
           work' = [work EXCEPT ![w] = to], w \in Runs /\ to.step = "match" => to.graph \in DOMAIN graphs'
    PROVE  MatchesHaveGraphs'
<1> SUFFICES ASSUME NEW r \in Runs, work'[r].step = "match" PROVE work'[r].graph \in DOMAIN graphs'
  BY DEF MatchesHaveGraphs
<1>1. r \in Graph!Workers /\ work \in [Graph!Workers -> Slots]
  BY DEF Graph!Workers, ClaimInv, ClaimTypes
<1>2. CASE r = w
  BY <1>1, <1>2
<1>3. CASE r # w
  BY <1>1, <1>3 DEF MatchesHaveGraphs
<1> QED
  BY <1>2, <1>3

LEMMA SavedGraphsAreThere ==
    ASSUME NEW w, NEW claims, NEW next, Graph!SaveGraph(w, claims, next)
    PROVE  DOMAIN graphs \subseteq DOMAIN graphs' /\ work' = [work EXCEPT ![w] = next]
BY Zenon DEF Graph!SaveGraph

LEMMA FindingsAreJudged == Graph!Findings \subseteq Judged
<1>1. ASSUME NEW f \in [status : Statuses, support : SUBSET Claim]
      PROVE  Graph!Sanitised(f) \in [status : Statuses \cup {"absent"}, support : SUBSET Claim]
  <2>1. Graph!Sanitised(f) = f \/ Graph!Sanitised(f) = [f EXCEPT !.status = "absent"]
    BY DEF Graph!Sanitised
  <2>2. f \in [status : Statuses \cup {"absent"}, support : SUBSET Claim]
    OBVIOUS
  <2>3. [f EXCEPT !.status = "absent"] \in [status : Statuses \cup {"absent"}, support : SUBSET Claim]
    OBVIOUS
  <2> QED
    BY <2>1, <2>2, <2>3
<1>2. {Graph!Sanitised(f) : f \in [status : Statuses, support : SUBSET Claim]} \subseteq [status : Statuses \cup {"absent"}, support : SUBSET Claim]
  BY <1>1
<1> QED
  BY <1>2 DEF Graph!Findings, Judged

LEMMA ScreeningScores ==
    ASSUME ClaimBounds, ScoreBounds, ClaimInv, ScoreInv, NEW r \in Runs,
           Graph!Extract(r) \/ Graph!CreateGraph(r) \/ Graph!RunEvidenceAssessment(r) \/ Graph!FallBack(r)
    PROVE  ScoreInv'
<1>r. r \in Graph!Workers /\ MatchesHaveGraphs
  BY DifferentWorkers DEF ScoreInv
<1>t. ClaimTypes /\ graphs \in Seq(ClaimGraphs)
  BY DEF ClaimInv, ClaimTypes
<1>1. CASE Graph!Extract(r)
  <2>1. graphs' = graphs /\ scores' = scores
    BY <1>1 DEF Graph!Extract
  <2>2. MatchesHaveGraphs'
    <3>1. CASE graphs # <<>> /\ Graph!Step(r, "idle", [Graph!Idle EXCEPT !.step = "match", !.graph = Len(graphs)])
      <4>1. [Graph!Idle EXCEPT !.step = "match", !.graph = Len(graphs)].graph = Len(graphs)
        BY DEF Graph!Idle
      <4>2. Len(graphs) \in DOMAIN graphs
        BY <1>t, <3>1, LastGraph
      <4> QED
        BY <1>r, <2>1, <3>1, <4>1, <4>2, MatchesKept DEF Graph!Step
    <3>2. CASE graphs = <<>> /\ Graph!Step(r, "idle", [Graph!Idle EXCEPT !.step = "extract"])
      <4>1. [Graph!Idle EXCEPT !.step = "extract"].step = "extract"
        BY DEF Graph!Idle
      <4> QED
        BY <1>r, <2>1, <3>2, <4>1, MatchesKept DEF Graph!Step
    <3> QED
      BY <1>1, <3>1, <3>2, Zenon DEF Graph!Extract
  <2> QED
    BY <2>1, <2>2, ScoresKept
<1>2. CASE Graph!CreateGraph(r)
  <2>1. /\ work' = [work EXCEPT ![r] = [Graph!Idle EXCEPT !.step = "match", !.graph = Len(graphs) + 1]]
        /\ scores' = scores
    BY <1>2 DEF Graph!CreateGraph, Graph!Step
  <2>2. PICK claims \in [Claim -> Plain] : graphs' = Append(graphs, [claims |-> claims, version |-> 0])
    BY <1>2, Zenon DEF Graph!CreateGraph, Plain
  <2>3. [Graph!Idle EXCEPT !.step = "match", !.graph = Len(graphs) + 1].graph = Len(graphs) + 1
    BY DEF Graph!Idle
  <2>4. DOMAIN graphs \subseteq DOMAIN graphs' /\ Len(graphs) + 1 \in DOMAIN graphs'
    BY <1>t, <2>2
  <2>5. MatchesHaveGraphs'
    BY <1>r, <2>1, <2>3, <2>4, MatchesKept
  <2> QED
    BY <2>1, <2>4, <2>5, ScoresKept
<1>3. CASE Graph!RunEvidenceAssessment(r)
  <2>1. work[r].step = "match" /\ work' = [work EXCEPT ![r] = [Graph!Idle EXCEPT !.step = "done"]] /\ graphs' = graphs
    BY <1>3 DEF Graph!RunEvidenceAssessment, Graph!Step
  <2>2. [Graph!Idle EXCEPT !.step = "done"].step = "done"
    BY DEF Graph!Idle
  <2>3. MatchesHaveGraphs'
    BY <1>r, <2>1, <2>2, MatchesKept
  <2>4. work[r].graph \in DOMAIN graphs
    BY <2>1, <1>r DEF MatchesHaveGraphs
  <2>5. graphs[work[r].graph].claims \in Statements /\ work[r].graph \in Nat
    BY <1>t, <1>r, <2>4, GraphFields, SlotFields DEF Statements
  <2>6. PICK findings \in Graph!Findings, refuted \in SUBSET Claim, doubtful \in BOOLEAN :
          scores' = Append(scores,
             [stage |-> "pre_interview", graph |-> work[r].graph, pre |-> Len(scores) + 1,
              findings |-> Graph!RunGate(findings, graphs[work[r].graph].claims, refuted, doubtful).findings,
              claims |-> graphs[work[r].graph].claims,
              result |-> Graph!RunGate(findings, graphs[work[r].graph].claims, refuted, doubtful).result])
    BY <1>3, Zenon DEF Graph!RunEvidenceAssessment
  <2> DEFINE claims == graphs[work[r].graph].claims
             kept == Graph!RunGate(findings, claims, refuted, doubtful).findings
             result == Graph!RunGate(findings, claims, refuted, doubtful).result
             s == [stage |-> "pre_interview", graph |-> work[r].graph, pre |-> Len(scores) + 1,
                   findings |-> kept, claims |-> claims, result |-> result]
  <2>7. scores' = Append(scores, s)
    BY <2>6
  <2>8. kept \in Judged /\ ResultHolds(kept, claims, result)
    BY <2>5, FindingsAreJudged, GatedIsFair
  <2>9. claims \in Statements /\ Len(scores) \in Nat
    BY <2>5 DEF ScoreInv
  <2> HIDE DEF claims, kept, result
  <2>10. s \in ScoreRecords
    BY <2>5, <2>8, <2>9 DEF ScoreRecords, Stages, ResultHolds
  <2>11. /\ s.graph = work[r].graph /\ s.findings = kept /\ s.claims = claims /\ s.result = result
         /\ s.pre = Len(scores) + 1 /\ s.stage = "pre_interview"
    OBVIOUS
  <2> HIDE DEF s
  <2> QED
    BY <2>1, <2>3, <2>4, <2>7, <2>8, <2>10, <2>11, ScoreAppended
<1>4. CASE Graph!FallBack(r)
  <2>1. work' = [work EXCEPT ![r] = [Graph!Idle EXCEPT !.step = "done"]] /\ graphs' = graphs /\ scores' = scores
    BY <1>4 DEF Graph!FallBack, Graph!Step
  <2>2. [Graph!Idle EXCEPT !.step = "done"].step = "done"
    BY DEF Graph!Idle
  <2> QED
    BY <1>r, <2>1, <2>2, MatchesKept, ScoresKept
<1> QED
  BY <1>1, <1>2, <1>3, <1>4

LEMMA LatestIsThere ==
    ASSUME NEW stages, NEW n \in Graph!Latest(stages)
    PROVE  n \in DOMAIN scores /\ scores[n].stage \in stages
BY DEF Graph!Latest

LEMMA RescoredScores ==
    ASSUME ClaimBounds, ScoreBounds, ClaimInv, ScoreInv,
           NEW w \in {"interview", "assessment"}, NEW stage \in {"post_interview", "post_assessment"}, Graph!Rescore(w, stage)
    PROVE  ScoreInv'
<1>1. work' = [work EXCEPT ![w] = [Graph!Idle EXCEPT !.step = "done"]] /\ graphs' = graphs
  BY Zenon DEF Graph!Rescore, Graph!Step
<1>2. [Graph!Idle EXCEPT !.step = "done"].step = "done"
  BY DEF Graph!Idle
<1>3. MatchesHaveGraphs'
  BY <1>1, <1>2, ClaimConstants, MatchesKept DEF ScoreInv
<1>4. CASE scores' = scores
  BY <1>1, <1>3, <1>4, ScoresKept
<1>5. ASSUME NEW n \in Graph!Latest({"pre_interview"}),
             scores' = Append(scores, [scores[n] EXCEPT !.stage = stage, !.pre = n, !.claims = graphs[scores[n].graph].claims,
                                           !.result = Graph!ComputeAssessment(scores[n].findings, graphs[scores[n].graph].claims)])
      PROVE  ScoreInv'
  <2>1. n \in DOMAIN scores /\ scores[n].stage = "pre_interview"
    BY LatestIsThere
  <2>2. ScoreHolds(n) /\ scores[n] \in ScoreRecords /\ n \in Nat
    BY <2>1 DEF ScoreInv
  <2>3. scores[n].graph \in DOMAIN graphs /\ scores[n].graph \in Nat /\ scores[n].findings \in Judged
    BY <2>2 DEF ScoreHolds, ScoreRecords
  <2> DEFINE claims == graphs[scores[n].graph].claims
             result == Graph!ComputeAssessment(scores[n].findings, claims)
             s == [scores[n] EXCEPT !.stage = stage, !.pre = n, !.claims = claims, !.result = result]
  <2>4. scores' = Append(scores, s)
    BY <1>5
  <2>5. claims \in Statements
    BY <2>3, GraphFields DEF Statements, ClaimInv
  <2>6. ResultHolds(scores[n].findings, claims, result)
    BY <2>3, <2>5, ComputedIsFair
  <2> HIDE DEF claims, result
  <2>7. s \in ScoreRecords /\ s.graph = scores[n].graph /\ s.findings = scores[n].findings /\ s.claims = claims /\ s.result = result /\ s.pre = n
    BY <2>2, <2>5, <2>6 DEF ScoreRecords, Stages, ResultHolds
  <2> HIDE DEF s
  <2> QED
    BY <1>1, <1>3, <2>1, <2>3, <2>4, <2>6, <2>7, ScoreAppended
<1> QED
  BY <1>4, <1>5, Zenon DEF Graph!Rescore

LEMMA NotRuns ==
    ASSUME ClaimBounds
    PROVE  "interview" \in Graph!Workers \ Runs /\ "assessment" \in Graph!Workers \ Runs /\ Interviewers \subseteq Graph!Workers \ Runs
BY ClaimConstants, DifferentWorkers

(* What neither screens nor scores again.                                    *)
NoScoring ==
    /\ scores' = scores /\ DOMAIN graphs \subseteq DOMAIN graphs'
    /\ work' = work \/ \E w \in Graph!Workers \ Runs : \E to : work' = [work EXCEPT ![w] = to]

LEMMA StepsOfTheClaims ==
    ASSUME ClaimBounds, [Graph!Next]_(Graph!vars)
    PROVE  \/ \E r \in Runs : Graph!Extract(r) \/ Graph!CreateGraph(r) \/ Graph!RunEvidenceAssessment(r) \/ Graph!FallBack(r)
           \/ \E w \in {"interview", "assessment"}, stage \in {"post_interview", "post_assessment"} : Graph!Rescore(w, stage)
           \/ NoScoring
<1>1. CASE UNCHANGED Graph!vars
  BY <1>1 DEF Graph!vars, NoScoring
<1>2. CASE Graph!Next
  <2>2. CASE Graph!GenerateProbes
    BY <2>2 DEF Graph!GenerateProbes, NoScoring
  <2>3. ASSUME NEW t \in Graph!Targets, NEW answer \in {"given", "declined"}, Graph!Ask(t, answer) PROVE NoScoring
    BY <2>3 DEF Graph!Ask, NoScoring
  <2>4. CASE Graph!AssessVerdicts
    <3>1. scores' = scores /\ graphs' = graphs /\ \E to : work' = [work EXCEPT !["interview"] = to]
      BY <2>4, Zenon DEF Graph!AssessVerdicts, Graph!Step
    <3> QED
      BY <3>1, NotRuns DEF NoScoring
  <2>5. CASE Graph!SaveVerdicts
    <3>1. scores' = scores /\ graphs' = graphs /\ \E to : work' = [work EXCEPT !["interview"] = to]
      BY <2>5, Zenon DEF Graph!SaveVerdicts, Graph!Step
    <3> QED
      BY <3>1, NotRuns DEF NoScoring
  <2>6. CASE Graph!ApplyVerdictsToClaims
    <3>1. scores' = scores /\ \E claims, next : Graph!SaveGraph("interview", claims, next)
      BY <2>6, Zenon DEF Graph!ApplyVerdictsToClaims
    <3> QED
      BY <3>1, NotRuns, SavedGraphsAreThere DEF NoScoring
  <2>7. CASE Graph!Crash
    BY <2>7, NotRuns DEF Graph!Crash, NoScoring
  <2>8. CASE Graph!ScoreAssessment
    <3>1. scores' = scores /\ graphs' = graphs /\ \E to : work' = [work EXCEPT !["assessment"] = to]
      BY <2>8, Zenon DEF Graph!ScoreAssessment, Graph!Step
    <3> QED
      BY <3>1, NotRuns DEF NoScoring
  <2>9. CASE Graph!WriteAssessmentVerdicts
    <3>1. scores' = scores /\ \E claims, next : Graph!SaveGraph("assessment", claims, next)
      BY <2>9, Zenon DEF Graph!WriteAssessmentVerdicts
    <3> QED
      BY <3>1, NotRuns, SavedGraphsAreThere DEF NoScoring
  <2>10. ASSUME NEW p \in Interviewers, \/ Graph!CreateScorecard(p) \/ Graph!CancelScorecard(p)
                                        \/ Graph!SubmitScorecard(p) \/ Graph!WriteScorecardVerdicts(p) \/ Graph!SaveScorecard(p)
        PROVE  NoScoring
    <3>p. p \in Graph!Workers \ Runs
      BY NotRuns
    <3>1. CASE Graph!CreateScorecard(p)
      BY <3>1 DEF Graph!CreateScorecard, NoScoring
    <3>2. CASE Graph!CancelScorecard(p)
      BY <3>2 DEF Graph!CancelScorecard, NoScoring
    <3>3. CASE Graph!SubmitScorecard(p)
      <4>1. scores' = scores /\ graphs' = graphs /\ \E to : work' = [work EXCEPT ![p] = to]
        BY <3>3, Zenon DEF Graph!SubmitScorecard, Graph!Step
      <4> QED
        BY <3>p, <4>1 DEF NoScoring
    <3>4. CASE Graph!WriteScorecardVerdicts(p)
      <4>1. scores' = scores /\ \E claims, next : Graph!SaveGraph(p, claims, next)
        BY <3>4, Zenon DEF Graph!WriteScorecardVerdicts
      <4> QED
        BY <3>p, <4>1, SavedGraphsAreThere DEF NoScoring
    <3>5. CASE Graph!SaveScorecard(p)
      <4>1. scores' = scores /\ graphs' = graphs /\ \E to : work' = [work EXCEPT ![p] = to]
        BY <3>5, Zenon DEF Graph!SaveScorecard, Graph!Step
      <4> QED
        BY <3>p, <4>1 DEF NoScoring
    <3> QED
      BY <2>10, <3>1, <3>2, <3>3, <3>4, <3>5
  <2> QED
    BY <1>2, <2>2, <2>3, <2>4, <2>5, <2>6, <2>7, <2>8, <2>9, <2>10, Zenon
       DEF Graph!Next, Graph!RescoreAfterInterview, Graph!RescoreAfterAssessment
<1> QED
  BY <1>1, <1>2

LEMMA ScoresStep == ASSUME ClaimBounds, ScoreBounds PROVE ClaimInv /\ ScoreInv /\ [Graph!Next]_(Graph!vars) => ScoreInv'
<1> SUFFICES ASSUME ClaimInv, ScoreInv, [Graph!Next]_(Graph!vars) PROVE ScoreInv'
  OBVIOUS
<1>1. CASE NoScoring
  <2>1. MatchesHaveGraphs'
    <3>1. CASE work' = work
      BY <1>1, <3>1 DEF ScoreInv, MatchesHaveGraphs, NoScoring
    <3>2. ASSUME NEW w \in Graph!Workers \ Runs, NEW to, work' = [work EXCEPT ![w] = to] PROVE MatchesHaveGraphs'
      BY <1>1, <3>2, MatchesKept DEF ScoreInv, NoScoring
    <3> QED
      BY <1>1, <3>1, <3>2 DEF NoScoring
  <2> QED
    BY <1>1, <2>1, ScoresKept DEF NoScoring
<1> QED
  BY <1>1, StepsOfTheClaims, ScreeningScores, RescoredScores

LEMMA EachFollows == ASSUME ScoreBounds, ScoreInv PROVE Graph!EachScoreFollows
<1> SUFFICES ASSUME NEW n \in DOMAIN scores
             PROVE  LET pre == scores[scores[n].pre]
                    IN  /\ (\A k \in Graph!Moved(n) : Graph!Settled(scores[n].claims[k]) /\ ~Graph!Settled(pre.claims[k]))
                              => scores[n].result.score >= pre.result.score
                        /\ (\A k \in Graph!Moved(n) : Graph!VerificationMult[scores[n].claims[k]] = 0)
                              => scores[n].result.score <= pre.result.score
                        /\ scores[n].result.disqualified => scores[n].result.decision = "fail"
  BY Zenon DEF Graph!EachScoreFollows
<1>1. PICK m \in DOMAIN scores : m = scores[n].pre /\ ScoreHolds(n) /\ ScoreHolds(m) /\ scores[m].findings = scores[n].findings
  BY DEF ScoreInv, ScoreHolds, OfScreening
<1>2. PICK findings \in Judged, was \in Statements, is \in Statements :
        /\ scores[n].findings = findings /\ scores[m].claims = was /\ scores[n].claims = is
        /\ scores[n].result.score = Graph!ScoreOf(findings, is) /\ scores[m].result.score = Graph!ScoreOf(findings, was)
        /\ scores[n].result.disqualified => scores[n].result.decision = "fail"
  <2>1. scores[n] \in ScoreRecords /\ scores[m] \in ScoreRecords
    BY DEF ScoreInv
  <2> QED
    BY <1>1, <2>1 DEF ScoreRecords, ScoreHolds, ResultHolds
<1>3. \A k \in Claim : was[k] \in Claimed /\ is[k] \in Claimed
  BY DEF Statements
<1>4. \A a, b \in Claimed :
        /\ a = b => Graph!VerificationMult[a] <= Graph!VerificationMult[b]
        /\ Graph!Settled(b) /\ ~Graph!Settled(a) => Graph!VerificationMult[a] <= Graph!VerificationMult[b]
        /\ Graph!VerificationMult[b] = 0 => Graph!VerificationMult[b] <= Graph!VerificationMult[a]
  BY DEF Claimed, Plain, InInterview, Graph!VerificationMult, Graph!Settled
<1>5. ASSUME \A k \in Graph!Moved(n) : Graph!Settled(scores[n].claims[k]) /\ ~Graph!Settled(scores[m].claims[k])
      PROVE  scores[n].result.score >= scores[m].result.score
  <2>1. \A k \in Claim : is[k] = was[k] \/ (Graph!Settled(is[k]) /\ ~Graph!Settled(was[k]))
    BY <1>1, <1>2, <1>5 DEF Graph!Moved
  <2>2. WorthNoLess(was, is)
    BY <1>3, <1>4, <2>1 DEF WorthNoLess
  <2> QED
    BY <1>2, <2>2, ScoreGrows
<1>6. ASSUME \A k \in Graph!Moved(n) : Graph!VerificationMult[scores[n].claims[k]] = 0
      PROVE  scores[n].result.score <= scores[m].result.score
  <2>1. \A k \in Claim : is[k] = was[k] \/ Graph!VerificationMult[is[k]] = 0
    BY <1>1, <1>2, <1>6 DEF Graph!Moved
  <2>2. WorthNoLess(is, was)
    BY <1>3, <1>4, <2>1 DEF WorthNoLess
  <2> QED
    BY <1>2, <2>2, ScoreGrows
<1> QED
  BY <1>1, <1>2, <1>5, <1>6

(* What is verified never costs the candidate and what is contradicted never
   pays, for any rubric and however often the score is computed again while
   the assessment, the interview and the panel write to the claims
   (rescoreAfterInterview, rescoreAfterAssessment, computeAssessment); and a
   disqualified candidate fails, whatever the gate refutes or doubts (runGate). *)
THEOREM ScoresMoveAsClaimsDo == ASSUME ClaimBounds, ScoreBounds PROVE Graph!Spec => []Graph!EachScoreFollows
<1>1. Graph!Init => ClaimInv /\ ScoreInv
  BY ClaimsInit, ScoresInit
<1>2. ClaimInv /\ ScoreInv /\ [Graph!Next]_(Graph!vars) => ClaimInv' /\ ScoreInv'
  BY ClaimsStep, ScoresStep
<1>3. ScoreInv => Graph!EachScoreFollows
  BY EachFollows
<1> QED
  BY <1>1, <1>2, <1>3, PTL DEF Graph!Spec

(* The scoring of a résumé that is screened once.                            *)
ScreenedOnce ==
    /\ \A n \in DOMAIN scores, r \in Runs : scores[n].stage = "pre_interview" => work[r].step = "done"
    /\ \A n, m \in DOMAIN scores : scores[n].stage = "pre_interview" /\ scores[m].stage = "pre_interview" => n = m

(* What takes nothing off a scoring that is done, and adds no screening.     *)
LEMMA OnceKept ==
    ASSUME ClaimInv, ScreenedOnce, DOMAIN scores \subseteq DOMAIN scores', \A n \in DOMAIN scores : scores'[n] = scores[n],
           \A n \in DOMAIN scores' : n \notin DOMAIN scores => scores'[n].stage # "pre_interview",
           NEW w \in Graph!Workers, NEW to, work' = [work EXCEPT ![w] = to], w \in Runs => work[w].step # "done"
    PROVE  ScreenedOnce'
<1>1. ASSUME NEW r \in Runs, work[r].step = "done" PROVE work'[r] = work[r]
  <2>1. r \in Graph!Workers /\ work \in [Graph!Workers -> Slots] /\ r # w
    BY <1>1 DEF Graph!Workers, ClaimInv, ClaimTypes
  <2> QED
    BY <2>1
<1>2. \A n \in DOMAIN scores' : scores'[n].stage = "pre_interview" => n \in DOMAIN scores /\ scores[n].stage = "pre_interview"
  OBVIOUS
<1> QED
  BY <1>1, <1>2 DEF ScreenedOnce

LEMMA Appended ==
    ASSUME ScoreInv, NEW s, scores' = Append(scores, s)
    PROVE  /\ DOMAIN scores \subseteq DOMAIN scores' /\ \A n \in DOMAIN scores : scores'[n] = scores[n]
           /\ \A n \in DOMAIN scores' : n \notin DOMAIN scores => scores'[n] = s
BY DEF ScoreInv

LEMMA ScreenedOnceStep ==
    ASSUME ClaimBounds, ScoreBounds, \A r, s \in Runs : r = s
    PROVE  ClaimInv /\ ScoreInv /\ ScreenedOnce /\ [Graph!Next]_(Graph!vars) => ScreenedOnce'
<1> SUFFICES ASSUME ClaimInv, ScoreInv, ScreenedOnce, [Graph!Next]_(Graph!vars) PROVE ScreenedOnce'
  OBVIOUS
<1>1. CASE NoScoring
  <2>1. CASE work' = work
    BY <1>1, <2>1 DEF NoScoring, ScreenedOnce
  <2>2. ASSUME NEW w \in Graph!Workers \ Runs, NEW to, work' = [work EXCEPT ![w] = to] PROVE ScreenedOnce'
    BY <1>1, <2>2, OnceKept DEF NoScoring
  <2> QED
    BY <1>1, <2>1, <2>2 DEF NoScoring
<1>2. ASSUME NEW w \in {"interview", "assessment"}, NEW stage \in {"post_interview", "post_assessment"}, Graph!Rescore(w, stage)
      PROVE  ScreenedOnce'
  <2>1. w \in Graph!Workers \ Runs /\ work' = [work EXCEPT ![w] = [Graph!Idle EXCEPT !.step = "done"]]
    BY <1>2, NotRuns, Zenon DEF Graph!Rescore, Graph!Step
  <2>2. CASE scores' = scores
    BY <2>1, <2>2, OnceKept
  <2>3. ASSUME NEW n \in Graph!Latest({"pre_interview"}), NEW claims, NEW result,
               scores' = Append(scores, [scores[n] EXCEPT !.stage = stage, !.pre = n, !.claims = claims, !.result = result])
        PROVE  ScreenedOnce'
    <3> DEFINE s == [scores[n] EXCEPT !.stage = stage, !.pre = n, !.claims = claims, !.result = result]
    <3>1. s.stage = stage
      <4>1. scores[n] \in ScoreRecords
        BY LatestIsThere DEF ScoreInv
      <4> QED
        BY <4>1 DEF ScoreRecords
    <3>2. scores' = Append(scores, s) /\ s.stage # "pre_interview"
      BY <2>3, <3>1
    <3> HIDE DEF s
    <3> QED
      BY <2>1, <3>2, Appended, OnceKept
  <2> QED
    BY <1>2, <2>2, <2>3, Zenon DEF Graph!Rescore
<1>3. ASSUME NEW r \in Runs, Graph!Extract(r) \/ Graph!CreateGraph(r) \/ Graph!FallBack(r)
      PROVE  ScreenedOnce'
  <2>1. r \in Graph!Workers /\ scores' = scores /\ \E to : work' = [work EXCEPT ![r] = to] /\ work[r].step # "done"
    <3>1. CASE Graph!Extract(r)
      BY <3>1, Zenon DEF Graph!Extract, Graph!Step, Graph!Workers
    <3>2. CASE Graph!CreateGraph(r)
      BY <3>2, Zenon DEF Graph!CreateGraph, Graph!Step, Graph!Workers
    <3>3. CASE Graph!FallBack(r)
      <4>1. r \in Graph!Workers /\ work[r].step \in {"extract", "match"} /\ scores' = scores /\ \E to : work' = [work EXCEPT ![r] = to]
        BY <3>3, Zenon DEF Graph!FallBack, Graph!Step, Graph!Workers
      <4> QED
        BY <4>1
    <3> QED
      BY <1>3, <3>1, <3>2, <3>3
  <2> QED
    BY <2>1, OnceKept
<1>4. ASSUME NEW r \in Runs, Graph!RunEvidenceAssessment(r) PROVE ScreenedOnce'
  <2>1. work[r].step = "match" /\ work' = [work EXCEPT ![r] = [Graph!Idle EXCEPT !.step = "done"]]
    BY <1>4 DEF Graph!RunEvidenceAssessment, Graph!Step
  <2>2. \A n \in DOMAIN scores : scores[n].stage # "pre_interview"
    BY <2>1 DEF ScreenedOnce
  <2>3. work'[r].step = "done"
    <3>1. r \in Graph!Workers /\ work \in [Graph!Workers -> Slots] /\ [Graph!Idle EXCEPT !.step = "done"].step = "done"
      BY DEF Graph!Workers, ClaimInv, ClaimTypes, Graph!Idle
    <3> QED
      BY <2>1, <3>1
  <2>4. PICK s : scores' = Append(scores, s)
    BY <1>4, Zenon DEF Graph!RunEvidenceAssessment
  <2>5. /\ DOMAIN scores = 1 .. Len(scores) /\ DOMAIN scores' = 1 .. Len(scores) + 1 /\ Len(scores) \in Nat
        /\ \A n \in DOMAIN scores : scores'[n] = scores[n]
    BY <2>4 DEF ScoreInv
  <2>6. \A n \in DOMAIN scores' : scores'[n].stage = "pre_interview" => n = Len(scores) + 1
    BY <2>2, <2>5
  <2>7. \A t \in Runs : work'[t].step = "done"
    BY <2>3
  <2> QED
    BY <2>6, <2>7 DEF ScreenedOnce
<1> QED
  BY <1>1, <1>2, <1>3, <1>4, StepsOfTheClaims

LEMMA LatestIsMax ==
    ASSUME ScoreInv, NEW stages, Graph!Latest(stages) # {}
    PROVE  Graph!Max(Graph!Latest(stages)) \in Graph!Latest(stages)
<1>1. Graph!Latest(stages) \subseteq Nat
  BY DEF Graph!Latest, ScoreInv
<1>2. PICK n \in Graph!Latest(stages) : TRUE
  OBVIOUS
<1>3. \A y \in Graph!Latest(stages) : y = n
  BY <1>1, <1>2 DEF Graph!Latest
<1>4. \A y \in Graph!Latest(stages) : n >= y
  BY <1>1, <1>3
<1> QED
  BY <1>2, <1>4 DEF Graph!Max

LEMMA DeltaFollows ==
    ASSUME ScoreBounds, ScoreInv, ScreenedOnce, Graph!Explained.delta # 0
    PROVE  Graph!Moved(Graph!Explained.post) # {}
<1> DEFINE Last(stages) == IF Graph!Latest(stages) = {} THEN 0 ELSE Graph!Max(Graph!Latest(stages))
<1>1. PICK pre, post : /\ pre = Last({"pre_interview"}) /\ post = Last({"post_interview"})
                       /\ Graph!Explained.post = post
                       /\ Graph!Explained.delta = IF pre = 0 \/ post = 0 THEN 0 ELSE scores[post].result.score - scores[pre].result.score
  BY DEF Graph!Explained
<1>2. pre # 0 /\ post # 0
  BY <1>1
<1>3. pre \in Graph!Latest({"pre_interview"}) /\ post \in Graph!Latest({"post_interview"})
  BY <1>1, <1>2, LatestIsMax
<1>4. /\ pre \in DOMAIN scores /\ scores[pre].stage = "pre_interview" /\ post \in DOMAIN scores
      /\ scores[post].pre \in DOMAIN scores /\ scores[scores[post].pre].stage = "pre_interview"
  <2>1. pre \in DOMAIN scores /\ scores[pre].stage \in {"pre_interview"} /\ post \in DOMAIN scores
    BY <1>3, LatestIsThere
  <2>2. ScoreHolds(post)
    BY <2>1 DEF ScoreInv
  <2> QED
    BY <2>1, <2>2 DEF ScoreHolds, OfScreening
<1>5. scores[post].pre = pre
  BY <1>4 DEF ScreenedOnce
<1>6. scores[post].result.score \in Int /\ scores[pre].result.score \in Int
  <2>1. scores[post] \in ScoreRecords /\ scores[pre] \in ScoreRecords
    BY <1>4 DEF ScoreInv
  <2>2. scores[post].result \in Results /\ scores[pre].result \in Results
    BY <2>1 DEF ScoreRecords
  <2> QED
    BY <2>2 DEF Results
<1>7. ASSUME Graph!Moved(post) = {} PROVE scores[post].result.score = scores[pre].result.score
  <2>1. scores[post].result.score >= scores[pre].result.score /\ scores[post].result.score <= scores[pre].result.score
    BY <1>4, <1>5, <1>7, EachFollows DEF Graph!EachScoreFollows
  <2> QED
    BY <1>6, <2>1
<1> QED
  BY <1>1, <1>2, <1>6, <1>7

(* And where the résumé was screened once, the difference a recruiter is shown
   between the score of the interview and that of the screening comes of a
   claim that changed in between (getAssessment).                            *)
THEOREM DifferencesComeOfClaims ==
    ASSUME ClaimBounds, ScoreBounds, \A r, s \in Runs : r = s
    PROVE  Graph!Spec => []Graph!ScoresFollowTheClaims
<1>1. Graph!Init => ClaimInv /\ ScoreInv /\ ScreenedOnce
  <2>1. Graph!Init => ScreenedOnce
    BY DEF Graph!Init, ScreenedOnce
  <2> QED
    BY <2>1, ClaimsInit, ScoresInit
<1>2. ClaimInv /\ ScoreInv /\ ScreenedOnce /\ [Graph!Next]_(Graph!vars) => ClaimInv' /\ ScoreInv' /\ ScreenedOnce'
  BY ClaimsStep, ScoresStep, ScreenedOnceStep
<1>3. ScoreInv /\ ScreenedOnce => Graph!ScoresFollowTheClaims
  BY EachFollows, DeltaFollows DEF Graph!ScoresFollowTheClaims
<1> QED
  BY <1>1, <1>2, <1>3, PTL DEF Graph!Spec

(* What is recorded of a claim was earned: a verdict by a probe or a card, a
   score by the verdicts it was computed on (claimService.js, probeService.js,
   assessmentService.js), where the resume was screened once.                *)
THEOREM EvidenceStaysEarned ==
    ASSUME ClaimBounds, ScoreBounds, \A r, s \in Runs : r = s
    PROVE  Graph!Spec => []Graph!EvidenceIsEarned
<1>1. Graph!VerdictsAreEarned /\ Graph!ScoresFollowTheClaims /\ Graph!SubmittedVerdictsCount => Graph!EvidenceIsEarned
  BY DEF Graph!EvidenceIsEarned
<1> QED
  BY <1>1, VerdictsOfTheInterviewAreEarned, VerdictsOfThePanelCount, DifferencesComeOfClaims, PTL

-----------------------------------------------------------------------------
(* The types of the graphs and the scores.  The rubric's weights are shares of
   one whole (rubricEngine.normalizeWeights), here a hundred hundredths.     *)
WeightsAreShares == ScoreBounds /\ SumOver(Criteria, Weight) <= 100 /\ MaxScores \in Nat

LEMMA PointsAreBounded ==
    ASSUME ScoreBounds, NEW findings \in Judged, NEW claims \in Statements, NEW c \in Criteria
    PROVE  Graph!Points(findings, claims)[c] >= 0 /\ Graph!Points(findings, claims)[c] <= 20000 * Weight[c]
<1>1. findings[c].support \in SUBSET Claim /\ Weight[c] \in Nat
  BY DEF Judged, ScoreBounds
<1>2. CASE c \in Disqualifiers \/ findings[c].support = {}
  <2>1. Graph!Points(findings, claims)[c] = 0
    BY <1>2 DEF Graph!Points
  <2> QED
    BY <1>1, <2>1
<1>3. CASE ~(c \in Disqualifiers \/ findings[c].support = {})
  <2>1. PICK v \in {0, 1, 2} : v = Graph!StatusValue(findings[c].status)
    BY DEF Graph!StatusValue
  <2>2. PICK b \in Nat : b = Graph!Best(findings[c].support, claims) /\ b <= 10000
    <3>1. PICK k \in findings[c].support : Graph!Best(findings[c].support, claims) = Graph!EvidenceMultiplier(k, claims)
      BY <1>1, <1>3, BestIsBest
    <3>2. Graph!EvidenceMultiplier(k, claims) \in Nat /\ Graph!EvidenceMultiplier(k, claims) <= 10000
      BY <1>1, MultipliersAreBounded
    <3> QED
      BY <3>1, <3>2
  <2>3. Graph!Points(findings, claims)[c] = v * b * Weight[c]
    BY <1>3, <2>1, <2>2 DEF Graph!Points
  <2>4. PICK m \in Nat : m = v * b /\ m <= 20000
    BY <2>2
  <2>5. PICK g \in Nat : g = Weight[c]
    BY <1>1
  <2>6. 0 \in Int /\ 20000 \in Int /\ m \in Int /\ 0 <= m /\ m <= 20000
    BY <2>4
  <2>7. g * 0 <= g * m /\ g * m <= g * 20000
    BY <2>6, NoLess
  <2>8. g * 0 = 0 /\ g * 20000 = 20000 * g /\ g * m = m * g
    BY <2>6
  <2> QED
    BY <2>3, <2>4, <2>5, <2>7, <2>8
<1> QED
  BY <1>2, <1>3

(* A score is of a hundred.                                                  *)
LEMMA ScoreIsOfAHundred ==
    ASSUME WeightsAreShares, NEW findings \in Judged, NEW claims \in Statements
    PROVE  Graph!ScoreOf(findings, claims) \in 0 .. 100
<1>0. ScoreBounds
  BY DEF WeightsAreShares
<1> DEFINE F == Graph!Points(findings, claims)
<1>1. Whole(Criteria, F) /\ Whole(Criteria, Weight) /\ IsFiniteSet(Criteria)
  BY <1>0, PointsAreWhole DEF ScoreBounds, Whole
<1>2. \A c \in Criteria : F[c] >= 0 /\ F[c] <= 20000 * Weight[c]
  BY <1>0, PointsAreBounded
<1>3. Graph!ScoreOf(findings, claims) = (SumOver(Criteria, F) + 10000) \div 20000
  BY GraphSums DEF Graph!ScoreOf
<1> HIDE DEF F
<1>k. PICK one \in Int, most \in Int : one = 1 /\ most = 20000
  OBVIOUS
<1>4. \A c \in Criteria : one * F[c] <= most * Weight[c]
  BY <1>1, <1>2, <1>k DEF Whole
<1>5. one * SumOver(Criteria, F) <= most * SumOver(Criteria, Weight) /\ SumOver(Criteria, Weight) \in Int
  BY <1>1, <1>4, SumsCompare
<1>6. PICK s \in Nat : s = SumOver(Criteria, F)
  BY <1>1, <1>2, SumIsNatural
<1>7. PICK w \in Int : w = SumOver(Criteria, Weight) /\ w <= 100
  BY <1>5 DEF WeightsAreShares
<1>8. s <= 2000000
  BY <1>5, <1>6, <1>7, <1>k
<1>9. (s + 10000) \div 20000 \in 0 .. 100
  <2>1. PICK q \in Int : q = (s + 10000) \div 20000
    OBVIOUS
  <2>2. 20000 * q <= s + 10000 /\ s + 10000 < (20000 * q) + 20000
    BY <2>1
  <2>3. 0 <= q /\ q <= 100
    BY <1>8, <2>2
  <2> QED
    BY <2>1, <2>3
<1> QED
  BY <1>3, <1>6, <1>9

(* The gate leaves findings that a screening can have.                       *)
LEMMA GateKeepsFindings ==
    ASSUME NEW findings \in Graph!Findings, NEW claims, NEW refuted, NEW doubtful
    PROVE  Graph!RunGate(findings, claims, refuted, doubtful).findings \in Graph!Findings
<1> DEFINE left == [c \in Criteria |-> Graph!Sanitised([findings[c] EXCEPT !.support = @ \ refuted])]
           gated == Graph!RunGate(findings, claims, refuted, doubtful)
<1>1. gated.findings = findings \/ gated.findings = left
  BY DEF Graph!RunGate
<1>2. ASSUME NEW c \in Criteria PROVE left[c] \in {Graph!Sanitised(f) : f \in [status : Statuses, support : SUBSET Claim]}
  <2>1. PICK f \in [status : Statuses, support : SUBSET Claim] : findings[c] = Graph!Sanitised(f)
    BY DEF Graph!Findings
  <2>2. PICK e : e = [findings[c] EXCEPT !.support = @ \ refuted]
    OBVIOUS
  <2>3. left[c] = Graph!Sanitised(e)
    BY <2>2
  <2>4. CASE f.support = {}
    <3>1. findings[c] = [f EXCEPT !.status = "absent"]
      BY <2>1, <2>4 DEF Graph!Sanitised
    <3>2. e = [f EXCEPT !.status = "absent"] /\ e.support = {}
      BY <2>2, <2>4, <3>1
    <3>3. Graph!Sanitised(e) = [e EXCEPT !.status = "absent"]
      BY <3>2 DEF Graph!Sanitised
    <3>4. Graph!Sanitised(e) = Graph!Sanitised(f)
      BY <2>1, <3>1, <3>2, <3>3
    <3> QED
      BY <2>3, <3>4
  <2>5. CASE f.support # {}
    <3>1. findings[c] = f
      BY <2>1, <2>5 DEF Graph!Sanitised
    <3>2. e \in [status : Statuses, support : SUBSET Claim]
      BY <2>2, <3>1
    <3> QED
      BY <2>3, <3>2
  <2> QED
    BY <2>4, <2>5
<1>3. left \in Graph!Findings
  BY <1>2 DEF Graph!Findings
<1> QED
  BY <1>1, <1>3

ScoresFit == Len(scores) <= MaxScores /\ \A n \in DOMAIN scores : scores[n].findings \in Graph!Findings

LEMMA FitsAppended ==
    ASSUME ScoreInv, ScoresFit, MaxScores \in Nat, Len(scores) < MaxScores,
           NEW s, s.findings \in Graph!Findings, scores' = Append(scores, s)
    PROVE  ScoresFit'
<1>1. scores \in Seq(ScoreRecords)
  BY DEF ScoreInv
<1>2. /\ Len(scores) \in Nat /\ DOMAIN scores = 1 .. Len(scores) /\ DOMAIN scores' = 1 .. Len(scores) + 1 /\ Len(scores') = Len(scores) + 1
      /\ scores'[Len(scores) + 1] = s /\ \A n \in DOMAIN scores : scores'[n] = scores[n]
  BY <1>1
<1>3. ASSUME NEW n \in DOMAIN scores' PROVE scores'[n].findings \in Graph!Findings
  <2>1. n \in DOMAIN scores \/ n = Len(scores) + 1
    BY <1>2
  <2> QED
    BY <1>2, <2>1 DEF ScoresFit
<1>4. Graph!Findings' = Graph!Findings
  BY DEF Graph!Findings, Graph!Sanitised
<1> QED
  BY <1>2, <1>3, <1>4 DEF ScoresFit

LEMMA FitsStep ==
    ASSUME ClaimBounds, MaxScores \in Nat, ClaimInv, ScoreInv, ScoresFit, [Graph!Next]_(Graph!vars)
    PROVE  ScoresFit'
<1>1. CASE scores' = scores
  BY <1>1 DEF ScoresFit, Graph!Findings, Graph!Sanitised
<1>2. ASSUME NEW r \in Runs, Graph!RunEvidenceAssessment(r) PROVE ScoresFit'
  <2>1. PICK findings \in Graph!Findings, refuted \in SUBSET Claim, doubtful \in BOOLEAN :
          scores' = Append(scores,
             [stage |-> "pre_interview", graph |-> work[r].graph, pre |-> Len(scores) + 1,
              findings |-> Graph!RunGate(findings, graphs[work[r].graph].claims, refuted, doubtful).findings,
              claims |-> graphs[work[r].graph].claims,
              result |-> Graph!RunGate(findings, graphs[work[r].graph].claims, refuted, doubtful).result])
    BY <1>2, Zenon DEF Graph!RunEvidenceAssessment
  <2>2. PICK kept \in Graph!Findings : kept = Graph!RunGate(findings, graphs[work[r].graph].claims, refuted, doubtful).findings
    BY GateKeepsFindings
  <2>3. PICK s : s.findings = kept /\ scores' = Append(scores, s)
    BY <2>1, <2>2
  <2>4. Len(scores) < MaxScores
    BY <1>2 DEF Graph!RunEvidenceAssessment
  <2> QED
    BY <2>2, <2>3, <2>4, FitsAppended
<1>3. ASSUME NEW r \in Runs, Graph!Extract(r) \/ Graph!CreateGraph(r) \/ Graph!FallBack(r) PROVE ScoresFit'
  <2>1. scores' = scores
    BY <1>3, Zenon DEF Graph!Extract, Graph!CreateGraph, Graph!FallBack
  <2> QED
    BY <1>1, <2>1
<1>4. ASSUME NEW w, NEW stage, Graph!Rescore(w, stage) PROVE ScoresFit'
  <2>1. ASSUME NEW n \in Graph!Latest({"pre_interview"}), Len(scores) < MaxScores,
               scores' = Append(scores, [scores[n] EXCEPT !.stage = stage, !.pre = n, !.claims = graphs[scores[n].graph].claims,
                                             !.result = Graph!ComputeAssessment(scores[n].findings, graphs[scores[n].graph].claims)])
        PROVE  ScoresFit'
    <3>1. n \in DOMAIN scores /\ scores[n] \in ScoreRecords
      BY LatestIsThere DEF ScoreInv
    <3>2. PICK c, x : /\ c = graphs[scores[n].graph].claims
                      /\ x = Graph!ComputeAssessment(scores[n].findings, graphs[scores[n].graph].claims)
      OBVIOUS
    <3>3. PICK s : s = [scores[n] EXCEPT !.stage = stage, !.pre = n, !.claims = c, !.result = x]
      OBVIOUS
    <3>4. s.findings = scores[n].findings
      BY <3>1, <3>3 DEF ScoreRecords
    <3>5. scores' = Append(scores, s)
      BY <2>1, <3>2, <3>3
    <3>6. s.findings \in Graph!Findings
      BY <3>1, <3>4 DEF ScoresFit
    <3> QED
      BY <2>1, <3>5, <3>6, FitsAppended
  <2> QED
    BY <1>1, <1>4, <2>1, Zenon DEF Graph!Rescore
<1>5. CASE NoScoring
  BY <1>1, <1>5 DEF NoScoring
<1> QED
  BY <1>2, <1>3, <1>4, <1>5, StepsOfTheClaims

LEMMA TypesFollow ==
    ASSUME WeightsAreShares, ClaimInv, ScoreInv, ScoresFit
    PROVE  Graph!TypeOK
<1>0. Graph!ClaimGraph = ClaimGraphs
  BY DEF Graph!ClaimGraph, ClaimGraphs, Graph!VerificationMult, Claimed, Plain, InInterview
<1>1. graphs \in Seq(Graph!ClaimGraph)
  BY <1>0 DEF ClaimInv, ClaimTypes
<1>2. scores \in Seq(ScoreRecords) /\ Len(scores) \in Nat /\ DOMAIN scores = 1 .. Len(scores)
  BY DEF ScoreInv
<1>3. ASSUME NEW n \in DOMAIN scores PROVE scores[n] \in Graph!AtsAssessment
  <2>1. ScoreHolds(n) /\ scores[n] \in ScoreRecords /\ scores[n].findings \in Graph!Findings
    BY <1>2 DEF ScoreInv, ScoresFit
  <2>2. scores[n].graph \in DOMAIN graphs /\ scores[n].pre \in DOMAIN scores /\ ResultHolds(scores[n].findings, scores[n].claims, scores[n].result)
    BY <2>1 DEF ScoreHolds, OfScreening
  <2>3. scores[n].pre \in 1 .. MaxScores
    BY <1>2, <2>2 DEF ScoresFit, WeightsAreShares
  <2>4. scores[n].claims \in Statements /\ scores[n].findings \in Judged /\ scores[n].stage \in Stages
    BY <2>1 DEF ScoreRecords
  <2>5. scores[n].claims \in [Claim -> DOMAIN Graph!VerificationMult]
    BY <2>4 DEF Statements, Graph!VerificationMult, Claimed, Plain, InInterview
  <2>6. PICK x : x = scores[n].result
    OBVIOUS
  <2>7. x \in Results /\ x.score \in 0 .. 100
    BY <2>2, <2>4, <2>6, ScoreIsOfAHundred DEF ResultHolds
  <2>8. x \in [score : 0 .. 100, decision : {"pass", "review", "fail"}, disqualified : BOOLEAN, targets : SUBSET Claim]
    BY <2>7 DEF Results
  <2> QED
    BY <2>1, <2>2, <2>3, <2>4, <2>5, <2>6, <2>8 DEF Graph!AtsAssessment, ScoreRecords, Stages
<1>4. scores \in Seq(Graph!AtsAssessment)
  BY <1>2, <1>3
<1>5. /\ \A t \in Graph!Targets : probes[t].status \in {"none", "pending", "asked", "assessed"}
      /\ \A p \in Interviewers : cards[p].status \in {"none", "open", "submitted", "cancelled"}
  <2>1. probes \in [Graph!Targets -> ProbeRecords] /\ cards \in [Interviewers -> PanelCards]
    BY DEF ClaimInv, ClaimTypes
  <2> QED
    BY <2>1 DEF ProbeRecords, PanelCards
<1> QED
  BY <1>1, <1>4, <1>5 DEF Graph!TypeOK

(* Graphs, scores, probes and cards keep their types, every score is of a graph
   and of a screening there are, and none leaves 0 to 100 whatever the claims
   become (evidenceScorer.js), for any rubric whose weights are shares.      *)
THEOREM ClaimsAreTyped == ASSUME ClaimBounds, WeightsAreShares PROVE Graph!Spec => []Graph!TypeOK
<1>0. ScoreBounds /\ MaxScores \in Nat
  BY DEF WeightsAreShares
<1>1. Graph!Init => ClaimInv /\ ScoreInv /\ ScoresFit
  <2>1. Graph!Init => ScoresFit
    BY <1>0 DEF Graph!Init, ScoresFit
  <2> QED
    BY <2>1, ClaimsInit, ScoresInit
<1>2. ClaimInv /\ ScoreInv /\ ScoresFit /\ [Graph!Next]_(Graph!vars) => ClaimInv' /\ ScoreInv' /\ ScoresFit'
  BY <1>0, ClaimsStep, ScoresStep, FitsStep
<1>3. ClaimInv /\ ScoreInv /\ ScoresFit => Graph!TypeOK
  BY TypesFollow
<1> QED
  BY <1>1, <1>2, <1>3, PTL DEF Graph!Spec

-----------------------------------------------------------------------------
(* The scorecards of the human rounds.                                       *)

CONSTANTS Rounds, Ratings, Recruiters, Nobody, AlertPoints, Validity, MaxCards, MaxTime, MaxLinks
VARIABLES now, engine, links, portal, invite, alerts

Panel == INSTANCE Scorecards

PanelBounds == Validity \in Nat /\ MaxTime \in Nat

Scores == {Panel!Unscored} \cup {Panel!Score(r) : r \in Panel!Rows}
RoundCards == [round : Rounds, status : {"open", "submitted", "cancelled"}, link : Nat, expires : Nat, snapshot : Int,
               rows : Panel!Rows, score : Scores, decision : {"none", "advance", "hold", "decline"}]

CardTypes ==
    /\ now \in Nat /\ engine \in Int /\ links \in Nat
    /\ cards \in Seq(RoundCards)
    /\ invite \in [Recruiters -> Rounds \cup {Nobody}]

(* A session of the portal is of a card there is; who was alerted, was of a
   card that is submitted.                                                   *)
SessionsHaveCards == \A s \in portal : s[1] \in DOMAIN cards
AlertsHaveCards == \A c \in DOMAIN cards : cards[c].status # "submitted" => <<c, "disagreement">> \notin alerts
AlertsOfMade == \A c : <<c, "disagreement">> \in alerts => c \in DOMAIN cards

(* A submitted card's score is that of the ratings it was submitted with.    *)
ScoresAreRolledUp == \A c \in DOMAIN cards : cards[c].status = "submitted" => cards[c].score = Panel!Score(cards[c].rows)

PanelInv ==
    /\ CardTypes /\ SessionsHaveCards /\ AlertsHaveCards /\ AlertsOfMade /\ ScoresAreRolledUp
    /\ Panel!OneOpenCard /\ Panel!AlertsAreDue

LEMMA PanelInit == ASSUME PanelBounds, Panel!Init PROVE PanelInv
<1>1. cards = <<>> /\ DOMAIN cards = {} /\ cards \in Seq(RoundCards)
  BY DEF Panel!Init
<1>2. CardTypes
  BY <1>1 DEF CardTypes, Panel!Init, Panel!Unscored
<1>3. SessionsHaveCards /\ AlertsHaveCards /\ AlertsOfMade /\ ScoresAreRolledUp
  BY <1>1 DEF SessionsHaveCards, AlertsHaveCards, AlertsOfMade, ScoresAreRolledUp, Panel!Init
<1>4. Panel!OneOpenCard /\ Panel!AlertsAreDue
  BY <1>1 DEF Panel!OneOpenCard, Panel!AlertsAreDue, Panel!Submitted, Panel!Made
<1> QED
  BY <1>2, <1>3, <1>4 DEF PanelInv

(* A step that leaves the cards, the sessions' cards and the alerts.         *)
LEMMA CardsUntouched ==
    ASSUME PanelInv, UNCHANGED <<cards, alerts>>, CardTypes', SessionsHaveCards'
    PROVE  PanelInv'
<1>1. AlertsHaveCards' /\ AlertsOfMade' /\ ScoresAreRolledUp'
  <2>1. AlertsHaveCards' /\ AlertsOfMade'
    BY DEF PanelInv, AlertsHaveCards, AlertsOfMade
  <2>2. \A r : Panel!Score(r)' = Panel!Score(r)
    BY DEF Panel!Score
  <2>3. ScoresAreRolledUp'
    BY <2>2 DEF PanelInv, ScoresAreRolledUp
  <2> QED
    BY <2>1, <2>3
<1>2. Panel!OneOpenCard' /\ Panel!AlertsAreDue'
  BY DEF PanelInv, Panel!OneOpenCard, Panel!AlertsAreDue, Panel!Submitted, Panel!Made, Panel!Disagrees, Panel!Delta, Panel!Unscored
<1> QED
  BY <1>1, <1>2 DEF PanelInv

(* One card changes, and is of the same round and snapshot.                  *)
LEMMA CardReplaced ==
    ASSUME PanelInv, NEW c \in DOMAIN cards, NEW d \in RoundCards, cards' = [cards EXCEPT ![c] = d],
           d.round = cards[c].round, d.status = "open" => cards[c].status = "open",
           d.status = "submitted" => d.score = Panel!Score(d.rows),
           UNCHANGED <<now, engine, portal, invite>>, links' \in Nat,
           \A x, a : x # c => (<<x, a>> \in alerts' <=> <<x, a>> \in alerts),
           d.status # "submitted" => <<c, "disagreement">> \notin alerts',
           d.status = "submitted" => (<<c, "disagreement">> \in alerts' <=> Panel!Disagrees(d.score, d.snapshot))
    PROVE  PanelInv'
<1>1. cards \in Seq(RoundCards)
  BY DEF PanelInv, CardTypes
<1>2. PICK n \in Nat : DOMAIN cards = 1 .. n
  BY <1>1
<1>3. cards' \in Seq(RoundCards) /\ DOMAIN cards' = DOMAIN cards /\ cards'[c] = d /\ \A x \in DOMAIN cards : x # c => cards'[x] = cards[x]
  BY <1>1, <1>2
<1>4. CardTypes'
  BY <1>3 DEF PanelInv, CardTypes
<1>5. SessionsHaveCards' /\ AlertsHaveCards' /\ AlertsOfMade' /\ ScoresAreRolledUp'
  <2>1. SessionsHaveCards' /\ AlertsHaveCards' /\ AlertsOfMade'
    BY <1>3 DEF PanelInv, SessionsHaveCards, AlertsHaveCards, AlertsOfMade
  <2>2. ScoresAreRolledUp'
    BY <1>3 DEF PanelInv, ScoresAreRolledUp
  <2> QED
    BY <2>1, <2>2
<1>6. Panel!OneOpenCard'
  BY <1>3 DEF PanelInv, Panel!OneOpenCard, Panel!Made
<1>7. Panel!AlertsAreDue'
  <2> SUFFICES ASSUME NEW x \in DOMAIN cards, cards'[x].status = "submitted"
               PROVE  <<x, "disagreement">> \in alerts' <=> Panel!Disagrees(cards'[x].score, cards'[x].snapshot)
    BY <1>3 DEF Panel!AlertsAreDue, Panel!Submitted, Panel!Made, Panel!Disagrees, Panel!Delta, Panel!Unscored
  <2>1. CASE x = c
    BY <2>1, <1>3
  <2>2. CASE x # c
    BY <2>2, <1>3 DEF PanelInv, Panel!AlertsAreDue, Panel!Submitted, Panel!Made
  <2> QED
    BY <2>1, <2>2
<1> QED
  BY <1>4, <1>5, <1>6, <1>7 DEF PanelInv

LEMMA CardCreated ==
    ASSUME PanelBounds, PanelInv, NEW r \in Recruiters, Panel!Create(r)
    PROVE  PanelInv'
<1>1. cards \in Seq(RoundCards) /\ now \in Nat /\ engine \in Int /\ links \in Nat /\ invite \in [Recruiters -> Rounds \cup {Nobody}]
  BY DEF PanelInv, CardTypes
<1>2. invite[r] \in Rounds /\ invite' \in [Recruiters -> Rounds \cup {Nobody}] /\ UNCHANGED <<now, engine, portal, alerts>>
  BY <1>1 DEF Panel!Create
<1>3. CASE ~Panel!Indexed(invite[r])
  <2>1. UNCHANGED <<cards, links>>
    BY <1>3 DEF Panel!Create
  <2>2. CardTypes' /\ SessionsHaveCards'
    BY <1>1, <1>2, <2>1 DEF PanelInv, CardTypes, SessionsHaveCards
  <2> QED
    BY <2>1, <2>2, <1>2, CardsUntouched
<1>4. CASE Panel!Indexed(invite[r])
  <2> DEFINE d == [round |-> invite[r], status |-> "open", link |-> links + 1,
                   expires |-> now + Validity, snapshot |-> engine,
                   rows |-> [c \in Criteria |-> Panel!NotAssessed], score |-> Panel!Unscored, decision |-> "none"]
  <2>1. cards' = Append(cards, d) /\ links' = links + 1
    BY <1>4 DEF Panel!Create
  <2>2. d \in RoundCards /\ d.round = invite[r] /\ d.status = "open"
    <3>1. d.rows \in Panel!Rows
      BY DEF Panel!Rows
    <3>2. d.expires \in Nat /\ d.link \in Nat
      BY <1>1 DEF PanelBounds
    <3> QED
      BY <1>1, <1>2, <3>1, <3>2 DEF RoundCards, Scores
  <2>3. \A x \in DOMAIN cards : cards[x].round = invite[r] => cards[x].status # "open"
    BY <1>4 DEF Panel!Indexed, Panel!IndexIsUnique, Panel!OpenFor, Panel!Made
  <2> HIDE DEF d
  <2>4. PICK n \in Nat : n = Len(cards) /\ DOMAIN cards = 1 .. n
    BY <1>1
  <2>5. /\ cards' \in Seq(RoundCards) /\ DOMAIN cards' = 1 .. (n + 1) /\ cards'[n + 1] = d
        /\ \A x \in DOMAIN cards : cards'[x] = cards[x]
    BY <1>1, <2>1, <2>2, <2>4
  <2>6. DOMAIN cards' = DOMAIN cards \cup {n + 1} /\ n + 1 \notin DOMAIN cards
    BY <2>4, <2>5
  <2>7. CardTypes'
    BY <1>1, <1>2, <2>1, <2>5 DEF CardTypes
  <2>8. SessionsHaveCards' /\ AlertsHaveCards' /\ AlertsOfMade' /\ ScoresAreRolledUp'
    <3>1. SessionsHaveCards' /\ AlertsHaveCards' /\ AlertsOfMade'
      BY <1>2, <2>2, <2>5, <2>6 DEF PanelInv, SessionsHaveCards, AlertsHaveCards, AlertsOfMade
    <3>2. ScoresAreRolledUp'
      BY <2>2, <2>5, <2>6 DEF PanelInv, ScoresAreRolledUp
    <3> QED
      BY <3>1, <3>2
  <2>9. Panel!OneOpenCard'
    BY <2>2, <2>3, <2>5, <2>6, ZenonT(40) DEF PanelInv, Panel!OneOpenCard, Panel!Made
  <2>10. Panel!AlertsAreDue'
    <3> SUFFICES ASSUME NEW x \in DOMAIN cards', cards'[x].status = "submitted"
                 PROVE  <<x, "disagreement">> \in alerts' <=> Panel!Disagrees(cards'[x].score, cards'[x].snapshot)
      BY DEF Panel!AlertsAreDue, Panel!Submitted, Panel!Made, Panel!Disagrees, Panel!Delta, Panel!Unscored
    <3>1. x \in DOMAIN cards /\ cards'[x] = cards[x]
      BY <2>2, <2>5, <2>6
    <3> QED
      BY <3>1, <1>2 DEF PanelInv, Panel!AlertsAreDue, Panel!Submitted, Panel!Made
  <2> QED
    BY <2>7, <2>8, <2>9, <2>10 DEF PanelInv
<1> QED
  BY <1>3, <1>4

LEMMA CardSubmitted ==
    ASSUME PanelInv, NEW s \in portal, Panel!Submit(s)
    PROVE  PanelInv'
<1>0. PICK rated \in Panel!Rows, sort \in Panel!RowKinds, decision \in {"advance", "decline"}, reason \in BOOLEAN :
        /\ Panel!Admitted(s) /\ Panel!Valid(sort, decision, reason)
        /\ \E c \in {s[1]}, score \in {Panel!Score(rated)} :
              /\ cards' = [cards EXCEPT ![c].rows = rated, ![c].score = score, ![c].decision = decision, ![c].status = "submitted"]
              /\ alerts' = alerts \cup Panel!AlertsOf(c, score, cards[c].snapshot)
        /\ UNCHANGED <<now, engine, links, portal, invite>>
  BY Zenon DEF Panel!Submit
<1>1. /\ cards[s[1]].status = "open"
      /\ cards' = [cards EXCEPT ![s[1]].rows = rated, ![s[1]].score = Panel!Score(rated), ![s[1]].decision = decision,
                                ![s[1]].status = "submitted"]
      /\ alerts' = alerts \cup Panel!AlertsOf(s[1], Panel!Score(rated), cards[s[1]].snapshot)
      /\ UNCHANGED <<now, engine, links, portal, invite>>
  <2>1. Panel!Admitted(s) /\ UNCHANGED <<now, engine, links, portal, invite>>
    BY <1>0
  <2>2. PICK c \in {s[1]}, score \in {Panel!Score(rated)} :
              /\ cards' = [cards EXCEPT ![c].rows = rated, ![c].score = score, ![c].decision = decision, ![c].status = "submitted"]
              /\ alerts' = alerts \cup Panel!AlertsOf(c, score, cards[c].snapshot)
    BY <1>0
  <2> QED
    BY <2>1, <2>2 DEF Panel!Admitted
<1>2. s[1] \in DOMAIN cards /\ cards \in Seq(RoundCards) /\ links \in Nat
  BY DEF PanelInv, SessionsHaveCards, CardTypes
<1>3. PICK c \in DOMAIN cards : c = s[1]
  BY <1>2
<1>4. PICK score \in Scores : score = Panel!Score(rated)
  BY DEF Scores
<1>5. cards[c] \in RoundCards
  BY <1>2
<1> DEFINE d == [cards[c] EXCEPT !.rows = rated, !.score = score, !.decision = decision, !.status = "submitted"]
<1>6. cards' = [cards EXCEPT ![c] = d]
  BY <1>1, <1>3, <1>4
<1>7. /\ d \in RoundCards /\ d.round = cards[c].round /\ d.status = "submitted"
      /\ d.score = score /\ d.rows = rated /\ d.snapshot = cards[c].snapshot
  BY <1>5 DEF RoundCards
<1> HIDE DEF d
<1>8. <<c, "disagreement">> \notin alerts
  BY <1>1, <1>3 DEF PanelInv, AlertsHaveCards
<1>9. /\ \A x, a : x # c => (<<x, a>> \in alerts' <=> <<x, a>> \in alerts)
      /\ <<c, "disagreement">> \in alerts' <=> Panel!Disagrees(d.score, d.snapshot)
  BY <1>1, <1>3, <1>4, <1>7, <1>8 DEF Panel!AlertsOf
<1>10. d.score = Panel!Score(d.rows)
  BY <1>4, <1>7
<1> QED
  BY <1>1, <1>2, <1>6, <1>7, <1>9, <1>10, CardReplaced, ZenonT(40)

LEMMA PanelNext ==
    ASSUME PanelBounds, PanelInv, [Panel!Next]_(Panel!vars)
    PROVE  PanelInv'
<1>t. CardTypes /\ SessionsHaveCards
  BY DEF PanelInv
<1>1. CASE Panel!Assess
  <2>1. CardTypes' /\ SessionsHaveCards' /\ UNCHANGED <<cards, alerts>>
    BY <1>1, <1>t DEF Panel!Assess, CardTypes, SessionsHaveCards
  <2> QED
    BY <2>1, CardsUntouched
<1>2. CASE Panel!Tick
  <2>1. CardTypes' /\ SessionsHaveCards' /\ UNCHANGED <<cards, alerts>>
    BY <1>2, <1>t DEF Panel!Tick, CardTypes, SessionsHaveCards
  <2> QED
    BY <2>1, CardsUntouched
<1>3. ASSUME NEW r \in Recruiters, Panel!Look(r) PROVE PanelInv'
  <2>1. CardTypes' /\ SessionsHaveCards' /\ UNCHANGED <<cards, alerts>>
    BY <1>3, <1>t DEF Panel!Look, CardTypes, SessionsHaveCards
  <2> QED
    BY <2>1, CardsUntouched
<1>4. ASSUME NEW r \in Recruiters, Panel!Create(r) PROVE PanelInv'
  BY <1>4, CardCreated
<1>5. ASSUME NEW c \in Panel!Made, Panel!Resend(c) PROVE PanelInv'
  <2>1. c \in DOMAIN cards /\ cards \in Seq(RoundCards) /\ links \in Nat /\ now \in Nat /\ cards[c] \in RoundCards
    BY <1>5, <1>t DEF CardTypes, Panel!Made
  <2>2. PICK l \in Nat, e \in Nat : l = links + 1 /\ e = now + Validity
    BY <2>1 DEF PanelBounds
  <2> DEFINE d == [cards[c] EXCEPT !.link = l, !.expires = e]
  <2>3. cards' = [cards EXCEPT ![c] = d] /\ cards[c].status = "open" /\ links' = l /\ UNCHANGED <<now, engine, portal, invite, alerts>>
    BY <1>5, <2>1, <2>2 DEF Panel!Resend
  <2>4. d \in RoundCards /\ d.round = cards[c].round /\ d.status = cards[c].status
    BY <2>1 DEF RoundCards
  <2> HIDE DEF d
  <2>5. d.status = "open" /\ <<c, "disagreement">> \notin alerts'
    BY <2>1, <2>3, <2>4 DEF PanelInv, AlertsHaveCards
  <2> QED
    BY <2>1, <2>3, <2>4, <2>5, CardReplaced
<1>6. ASSUME NEW c \in Panel!Made, Panel!Cancel(c) PROVE PanelInv'
  <2>1. c \in DOMAIN cards /\ cards \in Seq(RoundCards) /\ links \in Nat /\ cards[c] \in RoundCards
    BY <1>6, <1>t DEF CardTypes, Panel!Made
  <2> DEFINE d == [cards[c] EXCEPT !.status = "cancelled"]
  <2>2. cards' = [cards EXCEPT ![c] = d] /\ cards[c].status # "submitted" /\ UNCHANGED <<now, engine, links, portal, invite, alerts>>
    BY <1>6, <2>1 DEF Panel!Cancel
  <2>3. d \in RoundCards /\ d.round = cards[c].round /\ d.status = "cancelled"
    BY <2>1 DEF RoundCards
  <2> HIDE DEF d
  <2>4. <<c, "disagreement">> \notin alerts'
    BY <2>1, <2>2 DEF PanelInv, AlertsHaveCards
  <2> QED
    BY <2>1, <2>2, <2>3, <2>4, CardReplaced
<1>7. ASSUME NEW l \in 1 .. links, Panel!Login(l) PROVE PanelInv'
  <2>1. PICK c \in DOMAIN cards : portal' = portal \cup {<<c, cards[c].expires>>} /\ UNCHANGED <<now, engine, cards, links, invite, alerts>>
    BY <1>7 DEF Panel!Login, Panel!Made
  <2>2. CardTypes' /\ SessionsHaveCards'
    BY <2>1, <1>t DEF CardTypes, SessionsHaveCards
  <2> QED
    BY <2>1, <2>2, CardsUntouched
<1>8. ASSUME NEW s \in portal, Panel!Submit(s) PROVE PanelInv'
  BY <1>8, CardSubmitted
<1>9. CASE UNCHANGED Panel!vars
  <2>1. CardTypes' /\ SessionsHaveCards' /\ UNCHANGED <<cards, alerts>>
    BY <1>9, <1>t DEF Panel!vars, CardTypes, SessionsHaveCards
  <2> QED
    BY <2>1, CardsUntouched
<1> QED
  BY <1>1, <1>2, <1>3, <1>4, <1>5, <1>6, <1>7, <1>8, <1>9 DEF Panel!Next

(* However two recruiters' invitations race (createScorecard and the partial
   unique index of RoundScorecard), an interviewer has at most one open card of
   a round; and the recruiter of a submitted card was alerted of a disagreement
   exactly when both scores exist and lie SCORECARD_DISAGREEMENT_ALERT apart,
   the engine's as the card was opened, whatever it has become since
   (submitScorecard, computeDisagreement).                                   *)
THEOREM CardsAreAlerted ==
    ASSUME PanelBounds
    PROVE  Panel!Spec => [](Panel!OneOpenCard /\ Panel!AlertsAreDue)
<1>1. Panel!Init => PanelInv
  BY PanelInit
<1>2. PanelInv /\ [Panel!Next]_(Panel!vars) => PanelInv'
  BY PanelNext
<1>3. PanelInv => Panel!OneOpenCard /\ Panel!AlertsAreDue
  BY DEF PanelInv
<1> QED
  BY <1>1, <1>2, <1>3, PTL DEF Panel!Spec

-----------------------------------------------------------------------------
(* The rollup of one card.                                                   *)

RubricHolds ==
    /\ IsFiniteSet(Criteria) /\ Criteria # {} /\ Ratings \subseteq 1 .. 5
    /\ Weight \in [Criteria -> Nat] /\ \A c \in Criteria : Weight[c] >= 1

CreditOf(rated) == [c \in Criteria |-> Weight[c] * (rated[c] - 1)]

LEMMA SumsAreOne == ASSUME NEW S, NEW F PROVE Panel!SumOver(S, F) = SumOver(S, F)
BY DEF Panel!SumOver, Panel!MapThenSumSet, Panel!MapThenFoldSet, SumOver, MapThenSumSet, MapThenFoldSet

LEMMA RowsAreRated ==
    ASSUME RubricHolds, NEW rated \in Panel!Rows
    PROVE  /\ IsFiniteSet(Panel!Assessed(rated)) /\ Panel!Assessed(rated) \subseteq Criteria
           /\ \A c \in Criteria : rated[c] \in 0 .. 5
           /\ \A c \in Panel!Assessed(rated) : rated[c] \in 1 .. 5
           /\ Whole(Criteria, Weight) /\ Whole(Criteria, CreditOf(rated))
           /\ Whole(Panel!Assessed(rated), Weight) /\ Whole(Panel!Assessed(rated), CreditOf(rated))
           /\ Panel!Coverage(rated) = SumOver(Panel!Assessed(rated), Weight)
           /\ Panel!Credit(rated) = SumOver(Panel!Assessed(rated), CreditOf(rated))
           /\ Panel!Total = SumOver(Criteria, Weight)
<1>1. ASSUME NEW c \in Criteria PROVE rated[c] \in 0 .. 5 /\ Weight[c] \in Nat
  <2>1. rated[c] \in {Panel!NotAssessed} \cup Ratings /\ Panel!NotAssessed = 0
    BY DEF Panel!Rows, Panel!NotAssessed
  <2>2. Ratings \subseteq 0 .. 5
    BY DEF RubricHolds
  <2>3. rated[c] \in 0 .. 5
    <3>1. CASE rated[c] \in Ratings
      BY <2>2, <3>1
    <3>2. CASE rated[c] = 0
      BY <3>2
    <3> QED
      BY <2>1, <3>1, <3>2
  <2> QED
    BY <2>3 DEF RubricHolds
<1>2. IsFiniteSet(Panel!Assessed(rated)) /\ Panel!Assessed(rated) \subseteq Criteria
  BY FS_Subset DEF RubricHolds, Panel!Assessed
<1>3. \A c \in Panel!Assessed(rated) : rated[c] \in 1 .. 5
  BY <1>1 DEF Panel!Assessed, Panel!NotAssessed
<1>4. ASSUME NEW c \in Criteria PROVE CreditOf(rated)[c] \in Int
  <2>1. rated[c] - 1 \in Int /\ Weight[c] \in Int
    BY <1>1
  <2>2. Weight[c] * (rated[c] - 1) \in Int
    BY <2>1
  <2> QED
    BY <2>2 DEF CreditOf
<1>5. Whole(Criteria, Weight) /\ Whole(Criteria, CreditOf(rated))
  BY <1>1, <1>4 DEF Whole
<1>6. Whole(Panel!Assessed(rated), Weight) /\ Whole(Panel!Assessed(rated), CreditOf(rated))
  BY <1>2, <1>5 DEF Whole
<1>7. Panel!Coverage(rated) = SumOver(Panel!Assessed(rated), Weight) /\ Panel!Total = SumOver(Criteria, Weight)
  BY SumsAreOne DEF Panel!Coverage, Panel!Total
<1>8. Panel!Credit(rated) = SumOver(Panel!Assessed(rated), CreditOf(rated))
  BY SumsAreOne DEF Panel!Credit, CreditOf
<1> QED
  BY <1>1, <1>2, <1>3, <1>5, <1>6, <1>7, <1>8

(* The rubric weighs something, and so does what was assessed of it.         *)
LEMMA MassIsPositive ==
    ASSUME RubricHolds, NEW rated \in Panel!Rows
    PROVE  /\ Panel!Total \in Int /\ Panel!Total >= 1
           /\ Panel!Coverage(rated) \in Int /\ (Panel!Assessed(rated) # {} => Panel!Coverage(rated) >= 1)
           /\ Panel!Assessed(rated) = {} => Panel!Coverage(rated) = 0
<1>1. Panel!Total \in Int /\ Panel!Total >= 1
  BY RowsAreRated, SumIsPositive DEF RubricHolds
<1>2. ASSUME Panel!Assessed(rated) # {} PROVE Panel!Coverage(rated) \in Int /\ Panel!Coverage(rated) >= 1
  <2>1. \A c \in Panel!Assessed(rated) : Weight[c] >= 1
    BY RowsAreRated DEF RubricHolds
  <2> QED
    BY <1>2, <2>1, RowsAreRated, SumIsPositive
<1>3. ASSUME Panel!Assessed(rated) = {} PROVE Panel!Coverage(rated) = 0
  <2>1. PICK g \in [SUBSET {} -> Int] : SumOver({}, Weight) = g[{}] /\ Tables({}, Weight, g)
    <3>1. Whole({}, Weight) /\ IsFiniteSet({})
      BY FS_EmptySet DEF Whole
    <3> QED
      BY <3>1, SumIsTabled
  <2>2. g[{}] = 0
    BY <2>1 DEF Tables, Added
  <2> QED
    BY <1>3, <2>1, <2>2, RowsAreRated
<1> QED
  BY <1>1, <1>2, <1>3

(* The best and the worst of what was rated.                                 *)
LEMMA RatingsAreBounded ==
    ASSUME RubricHolds, NEW rated \in Panel!Rows, Panel!Assessed(rated) # {}
    PROVE  \E low, high \in Panel!Assessed(rated) :
               \A c \in Panel!Assessed(rated) : rated[low] <= rated[c] /\ rated[c] <= rated[high]
<1> DEFINE Rated == {rated[c] : c \in Panel!Assessed(rated)}
           Missing == {5 - rated[c] : c \in Panel!Assessed(rated)}
<1>1. Rated \subseteq Nat /\ Rated # {} /\ Missing \subseteq Nat /\ Missing # {}
  BY RowsAreRated
<1>2. PICK z \in Rated : \A y \in Rated : z <= y
  <2> HIDE DEF Rated
  <2> QED
    BY <1>1, LeastOf
<1>3. PICK w \in Missing : \A y \in Missing : w <= y
  <2> HIDE DEF Missing
  <2> QED
    BY <1>1, LeastOf
<1>4. PICK low \in Panel!Assessed(rated) : z = rated[low]
  OBVIOUS
<1>5. PICK high \in Panel!Assessed(rated) : w = 5 - rated[high]
  OBVIOUS
<1>6. ASSUME NEW c \in Panel!Assessed(rated) PROVE rated[low] <= rated[c] /\ rated[c] <= rated[high]
  <2>1. rated[c] \in Rated /\ 5 - rated[c] \in Missing
    OBVIOUS
  <2>2. z <= rated[c] /\ w <= 5 - rated[c]
    BY <1>2, <1>3, <2>1
  <2>3. rated[c] \in 1 .. 5 /\ rated[high] \in 1 .. 5
    BY RowsAreRated
  <2> QED
    BY <1>4, <1>5, <2>2, <2>3
<1> QED
  BY <1>6

(* A weighted mean lies between the best and the worst of what it is of.     *)
LEMMA MeanLiesBetween ==
    ASSUME RubricHolds, NEW rated \in Panel!Rows, Panel!Assessed(rated) # {}
    PROVE  /\ \E x \in Panel!Assessed(rated) : Panel!MeanOver(rated, Panel!Coverage(rated)) >= 25 * (rated[x] - 1)
           /\ \E x \in Panel!Assessed(rated) : Panel!MeanOver(rated, Panel!Coverage(rated)) <= 25 * (rated[x] - 1)
<1>1. PICK low, high \in Panel!Assessed(rated) :
          \A c \in Panel!Assessed(rated) : rated[low] <= rated[c] /\ rated[c] <= rated[high]
  BY RatingsAreBounded
<1> DEFINE S == Panel!Assessed(rated)
           l == rated[low] - 1
           h == rated[high] - 1
<1>2. l \in Int /\ h \in Int /\ Panel!Coverage(rated) \in Nat /\ Panel!Coverage(rated) >= 1
  <2>1. rated[low] \in 1 .. 5 /\ rated[high] \in 1 .. 5
    BY RowsAreRated
  <2>2. Panel!Coverage(rated) \in Int /\ Panel!Coverage(rated) >= 1
    BY MassIsPositive
  <2> QED
    BY <2>1, <2>2
<1>3. ASSUME NEW c \in S PROVE l * Weight[c] <= CreditOf(rated)[c] /\ CreditOf(rated)[c] <= h * Weight[c]
  <2>1. c \in Criteria /\ Weight[c] \in Nat /\ rated[c] \in 1 .. 5 /\ rated[low] \in 1 .. 5 /\ rated[high] \in 1 .. 5
    BY RowsAreRated DEF RubricHolds
  <2>2. l <= rated[c] - 1 /\ rated[c] - 1 <= h /\ rated[c] - 1 \in Int
    BY <1>1, <2>1
  <2> HIDE DEF l, h
  <2>3. Weight[c] * l <= Weight[c] * (rated[c] - 1) /\ Weight[c] * (rated[c] - 1) <= Weight[c] * h
    BY <1>2, <2>1, <2>2, NoLess
  <2>4. Weight[c] * l = l * Weight[c] /\ Weight[c] * h = h * Weight[c]
    BY <1>2, <2>1
  <2>5. CreditOf(rated)[c] = Weight[c] * (rated[c] - 1)
    BY <2>1 DEF CreditOf
  <2> QED
    BY <2>3, <2>4, <2>5
<1> HIDE DEF l, h
<1>4. \A i \in Int : 1 * i = i
  OBVIOUS
<1>5. /\ Panel!Credit(rated) \in Int /\ Panel!Credit(rated) <= h * Panel!Coverage(rated)
      /\ l * Panel!Coverage(rated) <= Panel!Credit(rated)
  <2>1. IsFiniteSet(S) /\ Whole(S, Weight) /\ Whole(S, CreditOf(rated)) /\ 1 \in Int
    BY RowsAreRated
  <2>2. \A c \in S : l * Weight[c] <= 1 * CreditOf(rated)[c] /\ 1 * CreditOf(rated)[c] <= h * Weight[c]
    BY <1>3, <1>4, <2>1 DEF Whole
  <2>3. /\ SumOver(S, CreditOf(rated)) \in Int
        /\ 1 * SumOver(S, CreditOf(rated)) <= h * SumOver(S, Weight)
    BY <1>2, <2>1, <2>2, SumsCompare
  <2>4. l * SumOver(S, Weight) <= 1 * SumOver(S, CreditOf(rated))
    BY <1>2, <2>1, <2>2, SumsCompare
  <2>5. Panel!Coverage(rated) = SumOver(S, Weight) /\ Panel!Credit(rated) = SumOver(S, CreditOf(rated))
    BY RowsAreRated
  <2> QED
    BY <1>4, <2>3, <2>4, <2>5
<1>6. Panel!MeanOver(rated, Panel!Coverage(rated)) <= 25 * h
  BY <1>2, <1>5, MeanAtMost DEF Panel!MeanOver
<1>7. 25 * l <= Panel!MeanOver(rated, Panel!Coverage(rated))
  BY <1>2, <1>5, MeanAtLeast DEF Panel!MeanOver
<1> QED
  BY <1>2, <1>6, <1>7 DEF l, h

(* Of two cards that rate the same, better ratings weigh no less.            *)
LEMMA BetterWeighsNoLess ==
    ASSUME RubricHolds, NEW rated \in Panel!Rows, NEW better \in Panel!Rows, Panel!Assessed(rated) # {},
           Panel!Assessed(rated) = Panel!Assessed(better), \A x \in Criteria : better[x] >= rated[x]
    PROVE  Panel!MeanOver(better, Panel!Coverage(better)) >= Panel!MeanOver(rated, Panel!Coverage(rated))
<1> DEFINE S == Panel!Assessed(rated)
<1>1. Panel!Coverage(better) = Panel!Coverage(rated)
  BY RowsAreRated
<1>2. \A i \in Int : 1 * i = i
  OBVIOUS
<1>3. ASSUME NEW c \in S PROVE 1 * CreditOf(rated)[c] <= 1 * CreditOf(better)[c]
  <2>1. c \in Criteria /\ Weight[c] \in Nat /\ rated[c] \in 1 .. 5 /\ better[c] \in 1 .. 5
    BY RowsAreRated DEF RubricHolds
  <2>2. rated[c] - 1 \in Int /\ better[c] - 1 \in Int /\ rated[c] - 1 <= better[c] - 1
    BY <2>1
  <2>3. Weight[c] * (rated[c] - 1) <= Weight[c] * (better[c] - 1)
    BY <2>1, <2>2, NoLess
  <2>4. Weight[c] * (rated[c] - 1) \in Int /\ Weight[c] * (better[c] - 1) \in Int
    BY <2>1, <2>2
  <2> QED
    BY <1>2, <2>1, <2>3, <2>4 DEF CreditOf
<1>4. IsFiniteSet(S) /\ Whole(S, CreditOf(rated)) /\ Whole(S, CreditOf(better)) /\ 1 \in Int
  BY RowsAreRated
<1>5. /\ SumOver(S, CreditOf(rated)) \in Int /\ SumOver(S, CreditOf(better)) \in Int
      /\ 1 * SumOver(S, CreditOf(rated)) <= 1 * SumOver(S, CreditOf(better))
  BY <1>3, <1>4, SumsCompare
<1>6. Panel!Credit(rated) \in Int /\ Panel!Credit(better) \in Int /\ Panel!Credit(rated) <= Panel!Credit(better)
  BY <1>2, <1>5, RowsAreRated
<1> DEFINE mass == Panel!Coverage(rated)
<1>7. mass \in Nat /\ mass >= 1
  BY MassIsPositive
<1> HIDE DEF mass
<1>8. /\ 2 * 100 * Panel!Credit(rated) + 4 * mass \in Int /\ 2 * 100 * Panel!Credit(better) + 4 * mass \in Int
      /\ 2 * 100 * Panel!Credit(rated) + 4 * mass <= 2 * 100 * Panel!Credit(better) + 4 * mass
      /\ 8 * mass \in Nat /\ 8 * mass >= 1
  BY <1>6, <1>7
<1>9. (2 * 100 * Panel!Credit(rated) + 4 * mass) \div (8 * mass) <= (2 * 100 * Panel!Credit(better) + 4 * mass) \div (8 * mass)
  BY <1>8, QuotientGrows
<1>10. /\ (2 * 100 * Panel!Credit(rated) + 4 * mass) \div (8 * mass) \in Int
       /\ (2 * 100 * Panel!Credit(better) + 4 * mass) \div (8 * mass) \in Int
  BY <1>8, Quotient
<1> QED
  BY <1>1, <1>9, <1>10 DEF Panel!MeanOver, mass

(* What a submitted card scores lies between the best and the worst of its
   ratings whatever was left unrated, and is withheld below half of the
   rubric's weight; of two cards that rated the same criteria the better rated
   scores no less, whatever the weights (scorecardEngine.computeRollup).     *)
THEOREM RatingsAreFair ==
    ASSUME PanelBounds, RubricHolds
    PROVE  Panel!Spec => [](Panel!SilenceIsNeutral /\ Panel!BetterIsNoWorse)
<1>1. Panel!Init => PanelInv
  BY PanelInit
<1>2. PanelInv /\ [Panel!Next]_(Panel!vars) => PanelInv'
  BY PanelNext
<1>3. ASSUME PanelInv PROVE Panel!SilenceIsNeutral /\ Panel!BetterIsNoWorse
  <2>1. ASSUME NEW c \in Panel!Submitted
        PROVE  c \in DOMAIN cards /\ cards[c].rows \in Panel!Rows /\ cards[c].score = Panel!Score(cards[c].rows)
    <3>1. c \in DOMAIN cards /\ cards[c].status = "submitted" /\ cards[c] \in RoundCards
      BY <1>3 DEF Panel!Submitted, Panel!Made, PanelInv, CardTypes
    <3> QED
      BY <1>3, <3>1 DEF PanelInv, ScoresAreRolledUp, RoundCards
  <2>2. ASSUME NEW c \in Panel!Submitted, ~(2 * Panel!Coverage(cards[c].rows) < Panel!Total)
        PROVE  Panel!Assessed(cards[c].rows) # {}
    <3> SUFFICES ASSUME Panel!Assessed(cards[c].rows) = {} PROVE FALSE
      OBVIOUS
    <3>1. Panel!Coverage(cards[c].rows) = 0 /\ Panel!Total \in Int /\ Panel!Total >= 1
      BY <2>1, MassIsPositive
    <3> QED
      BY <2>2, <3>1
  <2>3. Panel!SilenceIsNeutral
    <3> SUFFICES ASSUME NEW c \in Panel!Submitted
                 PROVE  IF 2 * Panel!Coverage(cards[c].rows) < Panel!Total THEN cards[c].score = Panel!Unscored
                        ELSE /\ \E x \in Panel!Assessed(cards[c].rows) : cards[c].score >= 25 * (cards[c].rows[x] - 1)
                             /\ \E x \in Panel!Assessed(cards[c].rows) : cards[c].score <= 25 * (cards[c].rows[x] - 1)
      BY DEF Panel!SilenceIsNeutral
    <3>1. CASE 2 * Panel!Coverage(cards[c].rows) < Panel!Total
      BY <2>1, <3>1 DEF Panel!Score
    <3>2. CASE ~(2 * Panel!Coverage(cards[c].rows) < Panel!Total)
      <4>1. Panel!Assessed(cards[c].rows) # {}
        BY <2>2, <3>2
      <4>2. cards[c].score = Panel!MeanOver(cards[c].rows, Panel!Coverage(cards[c].rows))
        BY <2>1, <3>2, <4>1 DEF Panel!Score
      <4> QED
        BY <2>1, <3>2, <4>1, <4>2, MeanLiesBetween
    <3> QED
      BY <3>1, <3>2
  <2>4. ASSUME NEW c \in Panel!Submitted, NEW d \in Panel!Submitted,
               Panel!Assessed(cards[c].rows) = Panel!Assessed(cards[d].rows),
               \A x \in Criteria : cards[c].rows[x] >= cards[d].rows[x]
        PROVE  cards[c].score >= cards[d].score
    <3>1. Panel!Coverage(cards[c].rows) = Panel!Coverage(cards[d].rows)
      BY <2>4 DEF Panel!Coverage
    <3>2. CASE 2 * Panel!Coverage(cards[d].rows) < Panel!Total
      <4>1. cards[c].score = Panel!Unscored /\ cards[d].score = Panel!Unscored
        BY <2>1, <3>1, <3>2 DEF Panel!Score
      <4> QED
        BY <4>1 DEF Panel!Unscored
    <3>3. CASE ~(2 * Panel!Coverage(cards[d].rows) < Panel!Total)
      <4>1. Panel!Assessed(cards[d].rows) # {}
        BY <2>2, <3>3
      <4>2. /\ cards[c].score = Panel!MeanOver(cards[c].rows, Panel!Coverage(cards[c].rows))
            /\ cards[d].score = Panel!MeanOver(cards[d].rows, Panel!Coverage(cards[d].rows))
        BY <2>1, <2>4, <3>1, <3>3, <4>1 DEF Panel!Score
      <4> QED
        BY <2>1, <2>4, <4>1, <4>2, BetterWeighsNoLess
    <3> QED
      BY <3>2, <3>3
  <2> QED
    BY <2>3, <2>4 DEF Panel!BetterIsNoWorse
<1> QED
  BY <1>1, <1>2, <1>3, PTL DEF Panel!Spec

(* A panel's card is one interviewer's, once, and weighed over what was rated
   (scorecardService.js, scorecardEngine.js), for any rubric and panel.      *)
THEOREM CardsStayFair == ASSUME PanelBounds, RubricHolds PROVE Panel!Spec => []Panel!CardsAreFair
<1>1. Panel!OneOpenCard /\ Panel!AlertsAreDue /\ Panel!SilenceIsNeutral /\ Panel!BetterIsNoWorse => Panel!CardsAreFair
  BY DEF Panel!CardsAreFair
<1> QED
  BY <1>1, CardsAreAlerted, RatingsAreFair, PTL

-----------------------------------------------------------------------------
(* The types of the cards, with the sizes the model gives them.              *)
PanelSizes == MaxLinks \in Nat /\ MaxCards \in Nat

LEMMA ScoresAreScores == ASSUME RubricHolds PROVE Scores \subseteq {Panel!Unscored} \cup 0 .. 100
<1> SUFFICES ASSUME NEW rated \in Panel!Rows, Panel!Score(rated) # Panel!Unscored PROVE Panel!Score(rated) \in 0 .. 100
  BY DEF Scores
<1>1. Panel!Assessed(rated) # {} /\ Panel!Score(rated) = Panel!MeanOver(rated, Panel!Coverage(rated))
  BY DEF Panel!Score
<1>2. PICK m : m = Panel!MeanOver(rated, Panel!Coverage(rated))
  OBVIOUS
<1>3. m \in Int
  <2>1. PICK k \in Int : k = Panel!Coverage(rated)
    BY MassIsPositive
  <2>2. k >= 1
    BY <1>1, <2>1, MassIsPositive
  <2>3. PICK p \in Int : p = Panel!Credit(rated)
    <3>1. IsFiniteSet(Panel!Assessed(rated)) /\ Whole(Panel!Assessed(rated), CreditOf(rated)) /\ 1 \in Int /\ 0 \in Int
      BY RowsAreRated
    <3>2. \A i \in Panel!Assessed(rated) : CreditOf(rated)[i] <= CreditOf(rated)[i]
      BY <3>1 DEF Whole
    <3>3. SumOver(Panel!Assessed(rated), CreditOf(rated)) \in Int
      BY <3>1, <3>2, SumIsLess
    <3> QED
      BY <3>3, RowsAreRated
  <2>4. (2 * 100 * p) + (4 * k) \in Int /\ 8 * k \in Nat /\ 8 * k >= 1
    BY <2>2
  <2>5. ((2 * 100 * p) + (4 * k)) \div (8 * k) \in Int
    BY <2>4, Quotient
  <2> QED
    BY <1>2, <2>1, <2>3, <2>5 DEF Panel!MeanOver
<1>4. PICK x \in Panel!Assessed(rated) : m >= 25 * (rated[x] - 1)
  BY <1>1, <1>2, MeanLiesBetween
<1>5. PICK y \in Panel!Assessed(rated) : m <= 25 * (rated[y] - 1)
  BY <1>1, <1>2, MeanLiesBetween
<1>6. rated[x] \in 1 .. 5 /\ rated[y] \in 1 .. 5
  BY RowsAreRated
<1> QED
  BY <1>1, <1>2, <1>3, <1>4, <1>5, <1>6

LEMMA CardStays ==
    ASSUME Panel!TypeOK, NEW c \in DOMAIN cards, NEW d \in Panel!Card, cards' = [cards EXCEPT ![c] = d]
    PROVE  /\ \E n \in 0 .. MaxCards : DOMAIN cards' = 1 .. n
           /\ \A x \in DOMAIN cards' : cards'[x] \in Panel!Card
<1>1. DOMAIN cards' = DOMAIN cards
  OBVIOUS
<1>2. PICK n \in 0 .. MaxCards : DOMAIN cards = 1 .. n
  BY DEF Panel!TypeOK, Panel!Made
<1>3. ASSUME NEW x \in DOMAIN cards PROVE cards'[x] \in Panel!Card
  <2>1. cards[x] \in Panel!Card
    BY DEF Panel!TypeOK, Panel!Made
  <2>2. cards'[x] = IF x = c THEN d ELSE cards[x]
    OBVIOUS
  <2> QED
    BY <2>1, <2>2
<1> QED
  BY <1>1, <1>2, <1>3

LEMMA TypedNext ==
    ASSUME PanelBounds, PanelSizes, RubricHolds, PanelInv, Panel!TypeOK, [Panel!Next]_(Panel!vars)
    PROVE  Panel!TypeOK'
<1>1. /\ now \in 0 .. MaxTime /\ engine \in {Panel!Unscored} \cup 0 .. 100 /\ links \in 0 .. MaxLinks
      /\ \A c \in DOMAIN cards : cards[c] \in Panel!Card
      /\ portal \subseteq Panel!Ids \X (0 .. MaxTime + Validity)
      /\ invite \in [Recruiters -> Rounds \cup {Nobody}]
      /\ alerts \subseteq Panel!Ids \X {"submitted", "disagreement"}
      /\ DOMAIN cards \subseteq Panel!Ids
  <2>1. PICK n \in 0 .. MaxCards : DOMAIN cards = 1 .. n
    BY DEF Panel!TypeOK, Panel!Made
  <2>2. DOMAIN cards \subseteq Panel!Ids
    BY <2>1 DEF Panel!Ids, PanelSizes
  <2> QED
    BY <2>2 DEF Panel!TypeOK, Panel!Made
<1>2. cards \in Seq(RoundCards)
  BY DEF PanelInv, CardTypes
<1>c. ASSUME UNCHANGED cards
      PROVE  (\E n \in 0 .. MaxCards : DOMAIN cards' = 1 .. n) /\ \A c \in DOMAIN cards' : cards'[c] \in Panel!Card
  BY <1>c DEF Panel!TypeOK, Panel!Made
<1>3. CASE Panel!Assess
  <2>1. UNCHANGED <<now, cards, links, portal, invite, alerts>> /\ engine' \in {10, 90}
    BY <1>3 DEF Panel!Assess
  <2>2. engine' \in {Panel!Unscored} \cup 0 .. 100
    BY <2>1
  <2> QED
    BY <1>1, <1>c, <2>1, <2>2 DEF Panel!TypeOK, Panel!Made, Panel!Card, Panel!Rows
<1>4. CASE Panel!Tick
  <2>1. UNCHANGED <<engine, cards, links, portal, invite, alerts>> /\ now' \in 0 .. MaxTime
    BY <1>1, <1>4 DEF Panel!Tick, PanelBounds
  <2> QED
    BY <1>1, <1>c, <2>1 DEF Panel!TypeOK, Panel!Made, Panel!Card, Panel!Rows
<1>5. ASSUME NEW r \in Recruiters, Panel!Look(r) PROVE Panel!TypeOK'
  <2>1. UNCHANGED <<now, engine, cards, links, portal, alerts>> /\ invite' \in [Recruiters -> Rounds \cup {Nobody}]
    BY <1>1, <1>5 DEF Panel!Look
  <2> QED
    BY <1>1, <1>c, <2>1 DEF Panel!TypeOK, Panel!Made, Panel!Card, Panel!Rows
<1>6. ASSUME NEW r \in Recruiters, Panel!Create(r) PROVE Panel!TypeOK'
  <2>1. UNCHANGED <<now, engine, portal, alerts>> /\ invite' \in [Recruiters -> Rounds \cup {Nobody}] /\ links < MaxLinks
        /\ invite[r] \in Rounds
    BY <1>1, <1>6 DEF Panel!Create
  <2>2. CASE ~Panel!Indexed(invite[r])
    <3>1. UNCHANGED <<cards, links>>
      BY <1>6, <2>2 DEF Panel!Create
    <3> QED
      BY <1>1, <1>c, <2>1, <3>1 DEF Panel!TypeOK, Panel!Made, Panel!Card, Panel!Rows
  <2>3. CASE Panel!Indexed(invite[r])
    <3>1. PICK d : d = [round |-> invite[r], status |-> "open", link |-> links + 1,
                        expires |-> now + Validity, snapshot |-> engine,
                        rows |-> [c \in Criteria |-> Panel!NotAssessed], score |-> Panel!Unscored, decision |-> "none"]
      OBVIOUS
    <3>2. cards' = Append(cards, d) /\ links' = links + 1
      BY <1>6, <2>3, <3>1 DEF Panel!Create
    <3>3. links + 1 \in 1 .. MaxLinks /\ links + 1 \in 0 .. MaxLinks /\ now + Validity \in 0 .. MaxTime + Validity
      BY <1>1, <2>1 DEF PanelBounds, PanelSizes
    <3>4. d \in Panel!Card
      <4>1. PICK blank : blank = [c \in Criteria |-> Panel!NotAssessed]
        OBVIOUS
      <4>2. blank \in Panel!Rows
        BY <4>1 DEF Panel!Rows
      <4>3. PICK l, e : l = links + 1 /\ e = now + Validity
        OBVIOUS
      <4>4. d = [round |-> invite[r], status |-> "open", link |-> l, expires |-> e, snapshot |-> engine,
                 rows |-> blank, score |-> Panel!Unscored, decision |-> "none"]
        BY <3>1, <4>1, <4>3
      <4>5. l \in 1 .. MaxLinks /\ e \in 0 .. MaxTime + Validity /\ engine \in {Panel!Unscored} \cup 0 .. 100 /\ invite[r] \in Rounds
        BY <1>1, <2>1, <3>3, <4>3
      <4> QED
        BY <4>2, <4>4, <4>5 DEF Panel!Card
    <3>5. PICK n \in 0 .. MaxCards : n = Len(cards) /\ DOMAIN cards = 1 .. n
      BY <1>2 DEF Panel!TypeOK, Panel!Made
    <3>6. n < MaxCards
      <4>1. Cardinality(1 .. n) < MaxCards
        BY <2>3, <3>5 DEF Panel!Indexed, Panel!IndexIsUnique, Panel!IndexAllows, Panel!Made, Panel!Cardinality, Cardinality
      <4>2. 1 \in Int /\ n \in Int
        BY <3>5
      <4>3. Cardinality(1 .. n) = IF 1 > n THEN 0 ELSE n - 1 + 1
        BY <4>2, FS_Interval
      <4> QED
        BY <3>5, <4>1, <4>3
    <3>7. DOMAIN cards' = 1 .. (n + 1) /\ cards'[n + 1] = d /\ \A x \in 1 .. n : cards'[x] = cards[x]
      BY <1>2, <3>2, <3>5
    <3>8. \A x \in DOMAIN cards' : cards'[x] \in Panel!Card
      <4>1. ASSUME NEW x \in 1 .. (n + 1) PROVE x \in 1 .. n \/ x = n + 1
        BY <3>5
      <4> QED
        BY <1>1, <3>4, <3>5, <3>7, <4>1
    <3>9. \E m \in 0 .. MaxCards : DOMAIN cards' = 1 .. m
      <4>1. n + 1 \in 0 .. MaxCards
        BY <3>5, <3>6 DEF PanelSizes
      <4> QED
        BY <3>7, <4>1
    <3> QED
      BY <1>1, <2>1, <3>2, <3>3, <3>8, <3>9 DEF Panel!TypeOK, Panel!Made, Panel!Card, Panel!Rows
  <2> QED
    BY <2>2, <2>3
<1>7. ASSUME NEW c \in Panel!Made, Panel!Resend(c) PROVE Panel!TypeOK'
  <2>1. /\ UNCHANGED <<now, engine, portal, invite, alerts>> /\ links < MaxLinks /\ links' = links + 1
        /\ c \in DOMAIN cards /\ cards[c] \in Panel!Card
    BY <1>1, <1>7 DEF Panel!Resend, Panel!Made
  <2>2. PICK l \in 1 .. MaxLinks, e \in 0 .. MaxTime + Validity : l = links + 1 /\ e = now + Validity
    BY <1>1, <2>1 DEF PanelBounds, PanelSizes
  <2>3. PICK d : d = [cards[c] EXCEPT !.link = l, !.expires = e]
    OBVIOUS
  <2>4. d \in Panel!Card
    BY <2>1, <2>3 DEF Panel!Card
  <2>5. cards' = [cards EXCEPT ![c] = d]
    BY <1>7, <2>2, <2>3 DEF Panel!Resend
  <2>6. links' \in 0 .. MaxLinks
    BY <1>1, <2>1 DEF PanelSizes
  <2>7. (\E n \in 0 .. MaxCards : DOMAIN cards' = 1 .. n) /\ \A x \in DOMAIN cards' : cards'[x] \in Panel!Card
    BY <2>1, <2>4, <2>5, CardStays
  <2> QED
    BY <1>1, <2>1, <2>6, <2>7 DEF Panel!TypeOK, Panel!Made, Panel!Card, Panel!Rows
<1>8. ASSUME NEW c \in Panel!Made, Panel!Cancel(c) PROVE Panel!TypeOK'
  <2>1. /\ UNCHANGED <<now, engine, links, portal, invite, alerts>>
        /\ c \in DOMAIN cards /\ cards[c] \in Panel!Card /\ cards' = [cards EXCEPT ![c].status = "cancelled"]
    BY <1>1, <1>8 DEF Panel!Cancel, Panel!Made
  <2>2. PICK d : d = [cards[c] EXCEPT !.status = "cancelled"]
    OBVIOUS
  <2>3. d \in Panel!Card /\ cards' = [cards EXCEPT ![c] = d]
    BY <2>1, <2>2 DEF Panel!Card
  <2>4. (\E n \in 0 .. MaxCards : DOMAIN cards' = 1 .. n) /\ \A x \in DOMAIN cards' : cards'[x] \in Panel!Card
    BY <2>1, <2>3, CardStays
  <2> QED
    BY <1>1, <2>1, <2>4 DEF Panel!TypeOK, Panel!Made, Panel!Card, Panel!Rows
<1>9. ASSUME NEW l \in 1 .. links, Panel!Login(l) PROVE Panel!TypeOK'
  <2>1. PICK c \in DOMAIN cards : portal' = portal \cup {<<c, cards[c].expires>>}
    BY <1>9 DEF Panel!Login, Panel!Made
  <2>2. UNCHANGED <<now, engine, cards, links, invite, alerts>>
    BY <1>9 DEF Panel!Login
  <2>3. cards[c].expires \in 0 .. MaxTime + Validity /\ c \in Panel!Ids
    BY <1>1, <2>1 DEF Panel!Card
  <2>4. portal' \subseteq Panel!Ids \X (0 .. MaxTime + Validity)
    BY <1>1, <2>1, <2>3
  <2> QED
    BY <1>1, <1>c, <2>2, <2>4 DEF Panel!TypeOK, Panel!Made, Panel!Card, Panel!Rows
<1>10. ASSUME NEW s \in portal, Panel!Submit(s) PROVE Panel!TypeOK'
  <2>0. PICK rated \in Panel!Rows, sort \in Panel!RowKinds, decision \in {"advance", "decline"}, reason \in BOOLEAN :
        /\ Panel!Admitted(s) /\ Panel!Valid(sort, decision, reason)
        /\ \E c \in {s[1]}, score \in {Panel!Score(rated)} :
              /\ cards' = [cards EXCEPT ![c].rows = rated, ![c].score = score, ![c].decision = decision, ![c].status = "submitted"]
              /\ alerts' = alerts \cup Panel!AlertsOf(c, score, cards[c].snapshot)
        /\ UNCHANGED <<now, engine, links, portal, invite>>
    BY <1>10, Zenon DEF Panel!Submit
  <2>1. PICK c \in {s[1]}, score \in {Panel!Score(rated)} :
              /\ cards' = [cards EXCEPT ![c].rows = rated, ![c].score = score, ![c].decision = decision, ![c].status = "submitted"]
              /\ alerts' = alerts \cup Panel!AlertsOf(c, score, cards[c].snapshot)
    BY <2>0
  <2>2. UNCHANGED <<now, engine, links, portal, invite>>
    BY <2>0
  <2>3. c \in DOMAIN cards /\ c \in Panel!Ids /\ cards[c] \in Panel!Card
    BY <1>1, <1>10, <2>1 DEF PanelInv, SessionsHaveCards
  <2>4. score \in {Panel!Unscored} \cup 0 .. 100
    <3>1. score \in Scores
      BY <2>1 DEF Scores
    <3> QED
      BY <3>1, ScoresAreScores
  <2>5. PICK d : d = [cards[c] EXCEPT !.rows = rated, !.score = score, !.decision = decision, !.status = "submitted"]
    OBVIOUS
  <2>6. d \in Panel!Card
    <3>1. decision \in {"none", "advance", "hold", "decline"}
      OBVIOUS
    <3> QED
      BY <2>3, <2>4, <2>5, <3>1 DEF Panel!Card
  <2>7. cards' = [cards EXCEPT ![c] = d]
    BY <2>1, <2>5
  <2>8. alerts' \subseteq Panel!Ids \X {"submitted", "disagreement"}
    BY <1>1, <2>1, <2>3 DEF Panel!AlertsOf
  <2>9. (\E n \in 0 .. MaxCards : DOMAIN cards' = 1 .. n) /\ \A x \in DOMAIN cards' : cards'[x] \in Panel!Card
    BY <2>3, <2>6, <2>7, CardStays
  <2> QED
    BY <1>1, <2>2, <2>8, <2>9 DEF Panel!TypeOK, Panel!Made, Panel!Card, Panel!Rows
<1>11. CASE UNCHANGED Panel!vars
  BY <1>1, <1>c, <1>11 DEF Panel!TypeOK, Panel!Made, Panel!Card, Panel!Rows, Panel!vars
<1> QED
  BY <1>3, <1>4, <1>5, <1>6, <1>7, <1>8, <1>9, <1>10, <1>11 DEF Panel!Next

(* Cards, sessions, looks and alerts keep their types; whatever ratings a card
   is given, its score is withheld or lies within 0 and 100
   (scorecardEngine.computeRollup), for any rubric, panel and number of cards. *)
THEOREM CardsAreTyped == ASSUME PanelBounds, PanelSizes, RubricHolds PROVE Panel!Spec => []Panel!TypeOK
<1>1. Panel!Init => PanelInv /\ Panel!TypeOK
  <2> SUFFICES ASSUME Panel!Init PROVE PanelInv /\ Panel!TypeOK
    OBVIOUS
  <2>1. PanelInv
    BY PanelInit
  <2>2. DOMAIN cards = {} /\ 0 \in 0 .. MaxCards /\ 1 .. 0 = {}
    BY DEF Panel!Init, PanelSizes
  <2>3. \E n \in 0 .. MaxCards : DOMAIN cards = 1 .. n
    BY <2>2
  <2>4. now \in 0 .. MaxTime /\ links \in 0 .. MaxLinks
    BY DEF Panel!Init, PanelBounds, PanelSizes
  <2> QED
    BY <2>1, <2>2, <2>3, <2>4 DEF Panel!Init, Panel!TypeOK, Panel!Made
<1>2. PanelInv /\ Panel!TypeOK /\ [Panel!Next]_(Panel!vars) => PanelInv' /\ Panel!TypeOK'
  BY PanelNext, TypedNext
<1> QED
  BY <1>1, <1>2, PTL DEF Panel!Spec

-----------------------------------------------------------------------------
(* What a rubric weighs.                                                     *)

CONSTANTS Labels, Skills, Unit, MaxMust, MaxEdits
VARIABLES status, importance, weight, thresholds, flags, edits

Rubric == INSTANCE Rubrics

RubricBounds ==
    /\ IsFiniteSet(Labels) /\ Skills \subseteq Labels
    /\ Unit \in Nat /\ Unit >= 8 * Cardinality(Labels) /\ MaxEdits \in Nat

Rungs == Rubric!Tiers \cup {"gate"}

LEMMA RubricSums == ASSUME NEW S, NEW F PROVE Rubric!SumOver(S, F) = SumOver(S, F)
BY DEF Rubric!SumOver, Rubric!MapThenSumSet, Rubric!MapThenFoldSet, SumOver, MapThenSumSet, MapThenFoldSet

LEMMA RubricCounts == ASSUME NEW S PROVE Rubric!Cardinality(S) = Cardinality(S)
BY DEF Rubric!Cardinality, Cardinality

LEMMA LadderOfTiers ==
    /\ \A t \in Rungs : Rubric!Multiplier(t) \in 0 .. 8
    /\ \A t \in Rubric!Tiers : Rubric!Multiplier(t) >= 1
    /\ Rubric!Multiplier("gate") = 0
BY DEF Rungs, Rubric!Tiers, Rubric!Multiplier

LEMMA LabelsAreFew ==
    ASSUME RubricBounds, NEW held \in SUBSET Labels, NEW s \in SUBSET held
    PROVE  /\ IsFiniteSet(held) /\ IsFiniteSet(s) /\ Cardinality(s) \in Nat /\ Cardinality(Labels) \in Nat
           /\ Cardinality(s) <= Cardinality(Labels) /\ Unit \in Nat /\ Unit >= 8 * Cardinality(s)
<1>1. IsFiniteSet(Labels) /\ s \subseteq Labels
  BY DEF RubricBounds
<1>2. IsFiniteSet(held) /\ IsFiniteSet(s) /\ Cardinality(s) \in Nat /\ Cardinality(Labels) \in Nat /\ Cardinality(s) <= Cardinality(Labels)
  BY <1>1, FS_Subset, FS_CardinalityType
<1>3. Unit \in Nat /\ Unit >= 8 * Cardinality(Labels)
  BY DEF RubricBounds
<1> QED
  BY <1>2, <1>3

(* A finite set of weights has a heaviest.                                   *)
LEMMA HeaviestIs ==
    ASSUME NEW s, s # {}, NEW n \in Nat, NEW w, \A c \in s : w[c] \in Nat /\ w[c] <= n
    PROVE  Rubric!Heaviest(s, w) \in s /\ \A d \in s : w[Rubric!Heaviest(s, w)] >= w[d]
<1> DEFINE T == {w[c] : c \in s}
<1>1. T # {} /\ \A y \in T : y \in Nat /\ y <= n
  OBVIOUS
<1>2. PICK z \in T : \A y \in T : y <= z
  <2> HIDE DEF T
  <2> QED
    BY <1>1, GreatestOf
<1>3. PICK c \in s : z = w[c]
  OBVIOUS
<1>4. \A d \in s : w[c] >= w[d]
  BY <1>1, <1>2, <1>3
<1> QED
  BY <1>4 DEF Rubric!Heaviest

(* Shares in proportion to w, where w of a criterion is at least one.        *)
Weighed(s, w) == \A c \in s : w[c] \in Nat /\ w[c] >= 1

LEMMA SharesAre ==
    ASSUME NEW s, IsFiniteSet(s), s # {}, NEW w, Weighed(s, w), Unit \in Nat, NEW q, NEW total, total = SumOver(s, w),
           \A c \in s : q[c] = (w[c] * Unit) \div total
    PROVE  /\ total \in Nat /\ total >= 1 /\ Whole(s, q)
           /\ \A c \in s : q[c] \in Nat /\ total * q[c] <= w[c] * Unit /\ w[c] * Unit < total * q[c] + total
           /\ SumOver(s, q) \in Int /\ SumOver(s, q) <= Unit /\ Unit <= SumOver(s, q) + Cardinality(s)
           /\ Cardinality(s) \in Nat
<1>1. Whole(s, w) /\ total \in Nat /\ total >= 1
  <2>1. Whole(s, w) /\ \A x \in s : w[x] >= 1
    BY DEF Weighed, Whole
  <2>2. total \in Int /\ total >= 1
    BY <2>1, SumIsPositive
  <2> QED
    BY <2>1, <2>2
<1>2. ASSUME NEW c \in s
      PROVE  q[c] \in Nat /\ total * q[c] <= w[c] * Unit /\ w[c] * Unit < total * q[c] + total /\ w[c] * Unit \in Nat
  <2>1. w[c] * Unit \in Nat
    BY DEF Weighed
  <2> DEFINE a == w[c] * Unit
  <2> HIDE DEF a
  <2>2. a \in Nat /\ q[c] = a \div total
    BY <2>1 DEF a
  <2>3. a \div total \in Int /\ total * (a \div total) <= a /\ a < total * (a \div total) + total
    <3>1. a \in Int /\ total \in Nat /\ total >= 1
      BY <1>1, <2>2
    <3> QED
      BY <3>1, Quotient
  <2>4. a \div total \in Nat
    BY <1>1, <2>2
  <2> QED
    BY <2>2, <2>3, <2>4 DEF a
<1>3. Whole(s, q)
  BY <1>2 DEF Whole
<1>4. total * SumOver(s, q) <= Unit * total /\ SumOver(s, q) \in Int
  <2>1. ASSUME NEW c \in s PROVE total * q[c] <= Unit * w[c]
    <3>1. w[c] * Unit = Unit * w[c]
      BY DEF Weighed
    <3> QED
      BY <1>2, <3>1
  <2>2. total \in Int /\ Unit \in Int
    BY <1>1
  <2>3. SumOver(s, q) \in Int /\ total * SumOver(s, q) <= Unit * SumOver(s, w)
    BY <1>1, <1>3, <2>1, <2>2, SumsCompare
  <2> QED
    BY <2>3
<1>5. Unit * total <= total * SumOver(s, q) + total * Cardinality(s) /\ Cardinality(s) \in Nat
  <2>1. ASSUME NEW c \in s PROVE Unit * w[c] <= total * q[c] + total
    <3>1. w[c] * Unit = Unit * w[c] /\ w[c] * Unit \in Nat /\ w[c] * Unit < total * q[c] + total /\ total * q[c] \in Int
      BY <1>1, <1>2 DEF Weighed
    <3> QED
      BY <1>1, <3>1
  <2>2. total \in Int /\ Unit \in Int
    BY <1>1
  <2>3. Cardinality(s) \in Nat /\ Unit * SumOver(s, w) <= total * SumOver(s, q) + total * Cardinality(s)
    BY <1>1, <1>3, <2>1, <2>2, SumsDiffer
  <2> QED
    BY <2>3
<1> DEFINE sum == SumOver(s, q)
           n == Cardinality(s)
<1> HIDE DEF sum, n
<1>6. sum \in Int /\ n \in Nat /\ total * sum <= Unit * total /\ Unit * total <= total * sum + total * n
  BY <1>4, <1>5 DEF sum, n
<1>7. sum <= Unit
  <2>1. CASE Unit + 1 <= sum
    <3>1. total * (Unit + 1) <= total * sum
      BY <1>1, <1>6, <2>1, NoLess
    <3>2. total * (Unit + 1) = Unit * total + total /\ Unit * total \in Int /\ total * sum \in Int
      BY <1>1, <1>6
    <3> QED
      BY <1>1, <1>6, <3>1, <3>2
  <2> QED
    BY <1>6, <2>1
<1>8. Unit <= sum + n
  <2>1. CASE sum + n + 1 <= Unit
    <3>1. total * (sum + n + 1) <= total * Unit
      BY <1>1, <1>6, <2>1, NoLess
    <3>2. total * (sum + n + 1) = total * sum + total * n + total /\ total * Unit = Unit * total
          /\ Unit * total \in Int /\ total * sum \in Int /\ total * n \in Int
      BY <1>1, <1>6
    <3> QED
      BY <1>1, <1>6, <3>1, <3>2
  <2> QED
    BY <1>6, <2>1
<1> QED
  BY <1>1, <1>2, <1>3, <1>6, <1>7, <1>8 DEF sum, n

(* A heavier criterion has more, if there is enough to share; an equal one as
   much.                                                                     *)
LEMMA HeavierHasMore ==
    ASSUME NEW total \in Nat, total >= 1, Unit \in Nat, total <= Unit,
           NEW a \in Nat, NEW b \in Nat, NEW p \in Nat, NEW q \in Nat, a > b,
           a * Unit < total * p + total, total * q <= b * Unit
    PROVE  p > q
<1>1. CASE p <= q
  <2>1. total * p <= total * q
    BY <1>1, NoLess
  <2>2. (b + 1) * Unit <= a * Unit
    <3>1. Unit * (b + 1) <= Unit * a
      BY NoLess
    <3> QED
      BY <3>1
  <2>3. (b + 1) * Unit = b * Unit + Unit /\ b * Unit \in Int /\ a * Unit \in Int /\ total * p \in Int /\ total * q \in Int
    OBVIOUS
  <2> QED
    BY <2>1, <2>2, <2>3
<1> QED
  BY <1>1

(* normaliseWeights of what the tiers weigh.                                 *)
Fits(imp, w) ==
    /\ Rubric!Scoreable(imp) # {} => SumOver(DOMAIN w, w) = Unit
    /\ \A c \in DOMAIN imp : imp[c] = "gate" => w[c] = 0
    /\ \A c, d \in Rubric!Scoreable(imp) :
          /\ Rubric!Multiplier(imp[c]) > Rubric!Multiplier(imp[d]) => w[c] > w[d]
          /\ imp[c] = imp[d] => w[c] - w[d] \in -Cardinality(Labels) .. Cardinality(Labels)

LEMMA ProportionOf ==
    ASSUME NEW held, NEW imp \in [held -> Rungs], NEW w, SumOver(Rubric!Scoreable(imp), w) # 0
    PROVE  /\ DOMAIN Rubric!Proportion(imp, w) = held
           /\ \A c \in held \ Rubric!Scoreable(imp) : Rubric!Proportion(imp, w)[c] = 0
           /\ \A c \in Rubric!Scoreable(imp) : Rubric!Proportion(imp, w)[c] = (w[c] * Unit) \div SumOver(Rubric!Scoreable(imp), w)
<1> DEFINE s == Rubric!Scoreable(imp)
<1>1. DOMAIN imp = held /\ s \subseteq held
  BY DEF Rubric!Scoreable
<1>3. Rubric!SumOver(s, w) = SumOver(s, w) /\ SumOver(s, w) # 0
  BY RubricSums
<1>4. Rubric!Proportion(imp, w) = [c \in held |-> Rubric!Share(s, w, c)]
  BY <1>1 DEF Rubric!Proportion
<1>5. ASSUME NEW c \in held PROVE Rubric!Share(s, w, c) = IF c \in s THEN (w[c] * Unit) \div SumOver(s, w) ELSE 0
  BY <1>3 DEF Rubric!Share
<1> HIDE DEF s
<1>6. /\ DOMAIN Rubric!Proportion(imp, w) = held
      /\ \A c \in held \ s : Rubric!Proportion(imp, w)[c] = 0
      /\ \A c \in s : Rubric!Proportion(imp, w)[c] = (w[c] * Unit) \div SumOver(s, w)
  BY <1>1, <1>4, <1>5
<1> QED
  BY <1>6 DEF s

LEMMA TiersFit ==
    ASSUME RubricBounds, NEW held \in SUBSET Labels, NEW imp \in [held -> Rungs]
    PROVE  /\ Rubric!NormaliseWeights(imp, Rubric!ApplyImportance(imp)) \in [held -> 0 .. Unit]
           /\ Fits(imp, Rubric!NormaliseWeights(imp, Rubric!ApplyImportance(imp)))
<1> DEFINE s == Rubric!Scoreable(imp)
           w == Rubric!ApplyImportance(imp)
           q == Rubric!Proportion(imp, w)
           total == SumOver(s, w)
           h == Rubric!Heaviest(s, q)
           n == Rubric!NormaliseWeights(imp, w)
<1>1. DOMAIN imp = held /\ s = {c \in held : imp[c] # "gate"} /\ s \in SUBSET held
  BY DEF Rubric!Scoreable
<1>2. \A c \in held : w[c] = Rubric!Multiplier(imp[c]) /\ imp[c] \in Rungs
  BY <1>1 DEF Rubric!ApplyImportance
<1>3. /\ IsFiniteSet(held) /\ IsFiniteSet(s) /\ Cardinality(s) \in Nat /\ Cardinality(Labels) \in Nat
      /\ Cardinality(s) <= Cardinality(Labels) /\ Unit \in Nat /\ Unit >= 8 * Cardinality(s)
  BY <1>1, LabelsAreFew
<1>4. \A c \in s : w[c] \in Nat /\ w[c] >= 1 /\ w[c] <= 8 /\ imp[c] \in Rubric!Tiers
  BY <1>1, <1>2, LadderOfTiers DEF Rungs
<1>5. Weighed(s, w)
  BY <1>4 DEF Weighed
<1>6. CASE s = {}
  <2>1. q = [c \in held |-> 0] /\ n = q
    <3>1. \A c \in held : Rubric!Share(s, w, c) = 0
      BY <1>6 DEF Rubric!Share
    <3> QED
      BY <1>1, <1>6, <3>1 DEF Rubric!Proportion, Rubric!NormaliseWeights, Rubric!WithRemainder
  <2>2. n \in [held -> 0 .. Unit] /\ \A c \in held : n[c] = 0
    BY <1>3, <2>1
  <2> HIDE DEF n, q, w
  <2>3. Fits(imp, n)
    BY <1>1, <1>6, <2>2 DEF Fits
  <2> QED
    BY <2>2, <2>3 DEF n, w
<1>7. CASE s # {}
  <2>1. /\ DOMAIN q = held
        /\ \A c \in held \ s : q[c] = 0
        /\ \A c \in s : q[c] = (w[c] * Unit) \div total
    <3>1. Whole(s, w) /\ \A x \in s : w[x] >= 1
      BY <1>4 DEF Whole
    <3> HIDE DEF s, w
    <3>2. total \in Int /\ total >= 1
      BY <1>3, <1>7, <3>1, SumIsPositive
    <3>3. total # 0
      BY <3>2
    <3> QED
      BY <3>3, ProportionOf DEF s, w
  <2>2. n = [q EXCEPT ![h] = q[h] + Unit - SumOver(DOMAIN q, q)]
    <3>1. Rubric!Mass(q) = SumOver(DOMAIN q, q)
      BY RubricSums DEF Rubric!Mass
    <3>2. n = [q EXCEPT ![h] = q[h] + Unit - Rubric!Mass(q)]
      BY <1>7 DEF Rubric!NormaliseWeights, Rubric!WithRemainder
    <3> QED
      BY <3>1, <3>2
  <2> HIDE DEF q, w, n
  <2>3. /\ total \in Nat /\ total >= 1 /\ Whole(s, q)
        /\ \A c \in s : q[c] \in Nat /\ total * q[c] <= w[c] * Unit /\ w[c] * Unit < total * q[c] + total
        /\ SumOver(s, q) \in Int /\ SumOver(s, q) <= Unit /\ Unit <= SumOver(s, q) + Cardinality(s)
    <3>1. total = SumOver(s, w)
      OBVIOUS
    <3> HIDE DEF total, s
    <3> QED
      BY <1>3, <1>5, <1>7, <2>1, <3>1, SharesAre
  <2>4. total <= 8 * Cardinality(s)
    <3>1. Whole(s, w)
      BY <1>4 DEF Whole
    <3>2. ASSUME NEW x \in s PROVE 1 * w[x] <= 0 * w[x] + 8
      BY <1>4, <3>2
    <3>3. 1 \in Int /\ 0 \in Int /\ 8 \in Int
      OBVIOUS
    <3> HIDE DEF s
    <3>4. SumOver(s, w) \in Int /\ 1 * SumOver(s, w) <= 0 * SumOver(s, w) + 8 * Cardinality(s)
      BY <1>3, <3>1, <3>2, <3>3, SumsDiffer
    <3>5. 1 * SumOver(s, w) = SumOver(s, w) /\ 0 * SumOver(s, w) = 0
      BY <3>4
    <3> QED
      BY <1>3, <3>4, <3>5
  <2> DEFINE sum == SumOver(held, q)
  <2>5. Whole(held, q) /\ sum = SumOver(s, q)
    <3>1. Whole(held, q)
      <4> SUFFICES ASSUME NEW c \in held PROVE q[c] \in Int
        BY DEF Whole
      <4>1. CASE c \in s
        BY <2>3, <4>1
      <4>2. CASE c \notin s
        BY <2>1, <4>2
      <4> QED
        BY <4>1, <4>2
    <3> HIDE DEF s
    <3> QED
      BY <1>1, <1>3, <2>1, <3>1, SumOfTheRest
  <2> HIDE DEF total
  <2>6. \A c \in s : q[c] <= Unit
    <3>1. \A x \in s : q[x] <= SumOver(s, q)
      <4>1. \A x \in s : q[x] >= 0
        BY <2>3
      <4> HIDE DEF s
      <4> QED
        BY <1>3, <2>3, <4>1, PartIsLess
    <3> QED
      BY <1>3, <2>3, <3>1
  <2>7. h \in s /\ \A d \in s : q[h] >= q[d]
    <3>1. \A c \in s : q[c] \in Nat /\ q[c] <= Unit
      BY <2>3, <2>6
    <3> HIDE DEF s
    <3> QED
      BY <1>3, <1>7, <3>1, HeaviestIs
  <2> DEFINE rest == Unit - sum
  <2>8. rest \in 0 .. Cardinality(s)
    <3> DEFINE n0 == Cardinality(s)
    <3>1. sum \in Int /\ sum <= Unit /\ Unit <= sum + n0 /\ n0 \in Nat /\ Unit \in Nat
      BY <1>3, <2>3, <2>5
    <3> HIDE DEF sum, n0, s, h
    <3>2. rest \in 0 .. n0
      BY <3>1
    <3> QED
      BY <3>2 DEF n0
  <2> HIDE DEF h, rest
  <2>9. DOMAIN n = held /\ n[h] = q[h] + rest /\ \A c \in held \ {h} : n[c] = q[c]
    <3>1. n = [q EXCEPT ![h] = q[h] + Unit - sum] /\ q[h] + Unit - sum = q[h] + rest
      <4>1. q[h] \in Int /\ sum \in Int
        BY <2>3, <2>5, <2>7
      <4> QED
        BY <1>3, <2>1, <2>2, <4>1 DEF rest
    <3> QED
      BY <1>1, <2>1, <2>2, <2>7, <3>1
  <2>10. ASSUME NEW c \in held PROVE n[c] \in Nat /\ (c \notin s => n[c] = 0)
    <3>1. CASE c = h
      BY <2>3, <2>7, <2>8, <2>9, <3>1, <1>3
    <3>2. CASE c # h /\ c \in s
      BY <2>3, <2>9, <3>2
    <3>3. CASE c # h /\ c \notin s
      BY <2>1, <2>9, <3>3
    <3> QED
      BY <3>1, <3>2, <3>3
  <2>11. SumOver(held, n) = Unit
    <3>1. Whole(held, n) /\ h \in held /\ \A x \in held \ {h} : q[x] = n[x]
      BY <1>1, <2>7, <2>9, <2>10 DEF Whole
    <3>2. SumOver(held, q) \in Int /\ SumOver(held, n) = SumOver(held, q) + n[h] - q[h]
      BY <1>3, <2>5, <3>1, SumChanges
    <3>3. q[h] \in Int /\ n[h] = q[h] + rest /\ rest = Unit - SumOver(held, q) /\ Unit \in Int
      BY <1>3, <2>3, <2>7, <2>9 DEF rest
    <3> QED
      BY <3>2, <3>3
  <2>12. n \in [held -> 0 .. Unit]
    <3>1. \A x \in held : n[x] <= SumOver(held, n)
      <4>1. Whole(held, n) /\ \A x \in held : n[x] >= 0
        BY <2>10 DEF Whole
      <4> QED
        BY <1>3, <4>1, PartIsLess
    <3>2. \A x \in held : n[x] \in 0 .. Unit
      BY <1>3, <2>10, <2>11, <3>1
    <3>3. n = [x \in held |-> n[x]]
      BY <1>1, <2>1, <2>2, <2>9
    <3> QED
      BY <3>2, <3>3
  <2>13. ASSUME NEW c \in s, NEW d \in s, Rubric!Multiplier(imp[c]) > Rubric!Multiplier(imp[d]) PROVE n[c] > n[d]
    <3>1. q[c] > q[d]
      <4>1. w[c] > w[d] /\ w[c] \in Nat /\ w[d] \in Nat
        BY <1>1, <1>2, <1>4, <2>13
      <4>2. total <= Unit
        BY <1>3, <2>3, <2>4
      <4>3. q[c] \in Nat /\ q[d] \in Nat /\ w[c] * Unit < total * q[c] + total /\ total * q[d] <= w[d] * Unit
        BY <2>3
      <4> QED
        BY <1>3, <2>3, <4>1, <4>2, <4>3, HeavierHasMore
    <3>2. d # h
      BY <2>3, <2>7, <3>1
    <3>3. n[d] = q[d] /\ n[c] >= q[c]
      <4>1. c \in held /\ d \in held /\ q[c] \in Nat
        BY <1>1, <2>3
      <4>2. n[d] = q[d]
        BY <2>9, <3>2, <4>1
      <4>3. n[c] = q[c] \/ n[c] = q[c] + rest
        BY <2>9, <4>1
      <4>4. rest \in Nat
        BY <1>3, <2>8
      <4> HIDE DEF s, sum
      <4> QED
        BY <4>1, <4>2, <4>3, <4>4
    <3>4. q[c] \in Nat /\ q[d] \in Nat /\ n[c] \in Nat
      BY <1>1, <2>3, <2>10
    <3> HIDE DEF s, sum
    <3> QED
      BY <3>1, <3>3, <3>4
  <2>14. ASSUME NEW c \in s, NEW d \in s, imp[c] = imp[d] PROVE n[c] - n[d] \in -Cardinality(Labels) .. Cardinality(Labels)
    <3>1. q[c] = q[d] /\ q[c] \in Nat
      BY <1>1, <1>2, <2>1, <2>3, <2>14
    <3>2. n[c] \in {q[c], q[c] + rest} /\ n[d] \in {q[d], q[d] + rest}
      BY <1>1, <2>9
    <3>3. rest \in Nat /\ rest <= Cardinality(Labels)
      BY <1>3, <2>8
    <3> QED
      BY <1>3, <3>1, <3>2, <3>3
  <2>15. \A c \in DOMAIN imp : imp[c] = "gate" => n[c] = 0
    BY <1>1, <2>10
  <2>16. Fits(imp, n)
    <3>1. DOMAIN n = held
      BY <2>9
    <3> QED
      BY <2>11, <2>13, <2>14, <2>15, <3>1 DEF Fits
  <2> QED
    BY <2>12, <2>16 DEF n, w
<1> QED
  BY <1>6, <1>7

(* Once shared out, nothing moves when it is shared out again.               *)
LEMMA ApprovalMovesNothing ==
    ASSUME RubricBounds, NEW held \in SUBSET Labels, NEW imp \in [held -> Rungs], NEW w \in [held -> 0 .. Unit], Fits(imp, w)
    PROVE  Rubric!NormaliseWeights(imp, w) = w
<1> DEFINE s == Rubric!Scoreable(imp)
           q == Rubric!Proportion(imp, w)
           h == Rubric!Heaviest(s, w)
<1>1. DOMAIN imp = held /\ s = {c \in held : imp[c] # "gate"} /\ s \in SUBSET held
  BY DEF Rubric!Scoreable
<1>2. \A c \in held \ s : w[c] = 0
  BY <1>1 DEF Fits
<1>3. IsFiniteSet(held) /\ IsFiniteSet(s) /\ Cardinality(s) \in Nat /\ Unit \in Nat /\ Unit >= 8 * Cardinality(s)
  BY <1>1, LabelsAreFew
<1>4. CASE s = {}
  <2>1. q = [c \in held |-> 0]
    <3>1. \A c \in held : Rubric!Share(s, w, c) = 0
      BY <1>4 DEF Rubric!Share
    <3> QED
      BY <1>1, <1>4, <3>1 DEF Rubric!Proportion
  <2>2. \A c \in held : w[c] = 0
    BY <1>2, <1>4
  <2>3. w = [c \in held |-> w[c]]
    OBVIOUS
  <2>4. q = w
    BY <2>1, <2>2, <2>3
  <2> QED
    BY <1>4, <2>4 DEF Rubric!NormaliseWeights, Rubric!WithRemainder
<1>5. CASE s # {}
  <2>1. Whole(held, w) /\ SumOver(held, w) = Unit
    BY <1>1, <1>5 DEF Whole, Fits
  <2>2. SumOver(s, w) = Unit
    <3> HIDE DEF s
    <3>1. SumOver(held, w) = SumOver(s, w)
      BY <1>1, <1>2, <1>3, <2>1, SumOfTheRest
    <3> QED
      BY <2>1, <3>1
  <2>3. Unit >= 1
    <3>1. Cardinality(s) # 0
      BY <1>3, <1>5, FS_EmptySet
    <3> QED
      BY <1>3, <3>1
  <2>4. /\ DOMAIN q = held
        /\ \A c \in held \ s : q[c] = 0
        /\ \A c \in s : q[c] = (w[c] * Unit) \div Unit
    <3>1. SumOver(s, w) # 0
      BY <2>2, <2>3
    <3> QED
      BY <2>2, <3>1, ProportionOf
  <2>5. \A c \in held : q[c] = w[c]
    <3> SUFFICES ASSUME NEW c \in held PROVE q[c] = w[c]
      OBVIOUS
    <3>1. CASE c \in s
      <4> DEFINE a == w[c]
      <4>1. a \in Nat /\ Unit \in Nat /\ Unit >= 1 /\ q[c] = (a * Unit) \div Unit
        BY <1>3, <2>3, <2>4, <3>1
      <4> HIDE DEF a, q
      <4> DEFINE b == (a * Unit) \div Unit
      <4>2. b \in Int /\ Unit * b <= a * Unit /\ a * Unit < Unit * b + Unit
        <5>1. a * Unit \in Int
          BY <4>1
        <5> QED
          BY <4>1, <5>1, Quotient
      <4> HIDE DEF b
      <4>3. CASE b + 1 <= a
        <5>1. Unit * (b + 1) <= Unit * a
          BY <4>1, <4>2, <4>3, NoLess
        <5>2. Unit * (b + 1) = Unit * b + Unit /\ Unit * a = a * Unit /\ Unit * b \in Int /\ a * Unit \in Int
          BY <4>1, <4>2
        <5> QED
          BY <4>1, <4>2, <5>1, <5>2
      <4>4. CASE a + 1 <= b
        <5>1. Unit * (a + 1) <= Unit * b
          BY <4>1, <4>2, <4>4, NoLess
        <5>2. Unit * (a + 1) = Unit * a + Unit /\ Unit * a = a * Unit /\ Unit * b \in Int /\ a * Unit \in Int
          BY <4>1, <4>2
        <5> QED
          BY <4>1, <4>2, <5>1, <5>2
      <4>5. CASE a = b
        BY <4>1, <4>5 DEF a, b
      <4> QED
        BY <4>1, <4>2, <4>3, <4>4, <4>5
    <3>2. CASE c \notin s
      BY <1>2, <2>4, <3>2
    <3> QED
      BY <3>1, <3>2
  <2>6. q = w
    <3>1. q = [c \in held |-> q[c]] /\ w = [c \in held |-> w[c]]
      BY <1>1 DEF Rubric!Proportion
    <3> HIDE DEF q
    <3> QED
      BY <2>5, <3>1
  <2>7. h \in held
    <3>1. \A c \in s : w[c] \in Nat /\ w[c] <= Unit
      BY <1>1, <1>3
    <3>2. h \in s
      <4> HIDE DEF s
      <4> QED
        BY <1>3, <1>5, <3>1, HeaviestIs
    <3> QED
      BY <1>1, <3>2
  <2>8. Rubric!Mass(w) = Unit
    BY <2>1, RubricSums DEF Rubric!Mass
  <2>9. w[h] + Unit - Unit = w[h]
    BY <1>3, <2>7
  <2>10. Rubric!NormaliseWeights(imp, w) = [w EXCEPT ![h] = w[h] + Unit - Rubric!Mass(w)]
    BY <1>5, <2>6 DEF Rubric!NormaliseWeights, Rubric!WithRemainder
  <2> QED
    BY <2>8, <2>9, <2>10
<1> QED
  BY <1>4, <1>5

(* From step to step.                                                        *)
RubricInv ==
    /\ status \in {"none", "draft", "approved"} /\ edits \in 0 .. MaxEdits
    /\ \E held \in SUBSET Labels : importance \in [held -> Rungs] /\ weight \in [held -> 0 .. Unit]
    /\ Fits(importance, weight)
    /\ thresholds.advance \in 0 .. 100 /\ thresholds.review \in 0 .. 100 /\ thresholds.review <= thresholds.advance
    /\ flags \subseteq Rubric!FlagCodes
    /\ status # "none" => (Rubric!Overloaded(importance) <=> "MUST_HAVE_OVERLOAD" \in flags)

LEMMA RubricBegins == ASSUME RubricBounds, Rubric!Init PROVE RubricInv
<1> DEFINE none == [c \in {} |-> "bonus"]
           zero == [c \in {} |-> 0]
<1>1. importance = none /\ weight = zero /\ status = "none" /\ flags = {} /\ edits = 0
      /\ thresholds.advance = 0 /\ thresholds.review = 0
  BY DEF Rubric!Init
<1>2. none \in [{} -> Rungs] /\ zero \in [{} -> 0 .. Unit]
  OBVIOUS
<1>3. Fits(none, zero)
  <2>1. Rubric!Scoreable(none) = {} /\ DOMAIN none = {}
    BY DEF Rubric!Scoreable
  <2> HIDE DEF none, zero
  <2> QED
    BY <2>1 DEF Fits
<1>4. edits \in 0 .. MaxEdits
  BY <1>1 DEF RubricBounds
<1>5. \E held \in SUBSET Labels : none \in [held -> Rungs] /\ zero \in [held -> 0 .. Unit]
  BY <1>2
<1> HIDE DEF none, zero
<1>6. thresholds.advance \in 0 .. 100 /\ thresholds.review \in 0 .. 100 /\ thresholds.review <= thresholds.advance
  BY <1>1
<1>7. flags \subseteq Rubric!FlagCodes /\ status \in {"none", "draft", "approved"} /\ ~(status # "none")
  BY <1>1
<1> QED
  BY <1>1, <1>3, <1>4, <1>5, <1>6, <1>7 DEF RubricInv

\* What a compilation or an edit writes fits.
LEMMA WritesFit ==
    ASSUME RubricBounds, NEW held \in SUBSET Labels, NEW imp \in [held -> Rungs], NEW found, Rubric!Write(imp, found)
    PROVE  /\ importance' = imp /\ flags' = found
           /\ weight' \in [held -> 0 .. Unit] /\ Fits(importance', weight')
BY TiersFit DEF Rubric!Write

LEMMA CompileKeeps ==
    ASSUME RubricBounds, RubricInv, NEW held \in SUBSET Labels, NEW imp \in [held -> Rungs],
           NEW found, found \subseteq Rubric!FlagCodes \ {"MUST_HAVE_OVERLOAD"}, Rubric!CompileDraft(imp, found)
    PROVE  RubricInv'
<1>1. PICK ats \in {0, 60}, proxy \in {{}, {"PROXY"}} :
          thresholds' = Rubric!DefaultThresholds(ats) /\ Rubric!Write(imp, proxy \cup Rubric!Structural(imp) \cup found)
  BY DEF Rubric!CompileDraft
<1>2. /\ importance' = imp /\ flags' = proxy \cup Rubric!Structural(imp) \cup found
      /\ weight' \in [held -> 0 .. Unit] /\ Fits(importance', weight')
  BY <1>1, WritesFit
<1>3. flags' \subseteq Rubric!FlagCodes /\ (Rubric!Overloaded(imp) <=> "MUST_HAVE_OVERLOAD" \in flags')
  BY <1>2 DEF Rubric!Structural, Rubric!FlagCodes
<1>4. thresholds'.advance \in 0 .. 100 /\ thresholds'.review \in 0 .. 100 /\ thresholds'.review <= thresholds'.advance
  BY <1>1 DEF Rubric!DefaultThresholds
<1>5. status' = "draft" /\ edits' = edits
  BY DEF Rubric!CompileDraft
<1>6. Rubric!Overloaded(importance)' <=> "MUST_HAVE_OVERLOAD" \in flags'
  BY <1>2, <1>3 DEF Rubric!Overloaded
<1> QED
  BY <1>2, <1>3, <1>4, <1>5, <1>6 DEF RubricInv

LEMMA RubricStep == ASSUME RubricBounds, RubricInv, [Rubric!Next]_(Rubric!vars) PROVE RubricInv'
<1>1. PICK held \in SUBSET Labels : importance \in [held -> Rungs] /\ weight \in [held -> 0 .. Unit]
  BY DEF RubricInv
<1>2. CASE Rubric!CompileByModel
  <2>1. PICK imp \in Rubric!ModelDrafts, cited \in BOOLEAN : Rubric!CompileDraft(imp, Rubric!CitedFlags(cited))
    BY <1>2 DEF Rubric!CompileByModel
  <2>2. PICK named \in SUBSET Labels : \E raw \in [named -> Rubric!Proposals] : imp = Rubric!SanitiseAiCriteria(raw)
    BY DEF Rubric!ModelDrafts
  <2>3. PICK raw \in [named -> Rubric!Proposals] : imp = Rubric!SanitiseAiCriteria(raw)
    BY <2>2
  <2> DEFINE kept == {d \in DOMAIN raw : Rubric!Kept(raw[d])}
  <2>4. kept \in SUBSET Labels /\ imp = [c \in kept |-> Rubric!TierOf(raw[c])]
    BY <2>3 DEF Rubric!SanitiseAiCriteria
  <2>5. \A p : Rubric!TierOf(p) \in Rungs
    BY DEF Rubric!TierOf, Rubric!LegacyTier, Rubric!Tiers, Rungs
  <2>6. imp \in [kept -> Rungs]
    BY <2>4, <2>5
  <2>7. Rubric!CitedFlags(cited) \subseteq Rubric!FlagCodes \ {"MUST_HAVE_OVERLOAD"}
    BY DEF Rubric!CitedFlags, Rubric!FlagCodes
  <2> HIDE DEF kept
  <2> QED
    BY <2>1, <2>4, <2>6, <2>7, CompileKeeps
<1>3. CASE Rubric!CompileFallback
  <2>1. PICK years \in SUBSET (Labels \ Skills), education \in SUBSET (Labels \ Skills) :
            Rubric!CompileDraft(Rubric!DeterministicDraft(years, education), Rubric!FallbackFlags(years, education))
    BY <1>3 DEF Rubric!CompileFallback
  <2> DEFINE imp == Rubric!DeterministicDraft(years, education)
             named == Skills \cup years \cup education
  <2>2. named \in SUBSET Labels
    BY DEF RubricBounds
  <2>3. imp \in [named -> Rungs]
    BY DEF Rubric!DeterministicDraft, Rungs, Rubric!Tiers
  <2>4. Rubric!FallbackFlags(years, education) \subseteq Rubric!FlagCodes \ {"MUST_HAVE_OVERLOAD"}
    BY DEF Rubric!FallbackFlags, Rubric!FlagCodes
  <2> HIDE DEF imp, named
  <2>5. Rubric!CompileDraft(imp, Rubric!FallbackFlags(years, education))
    BY <2>1 DEF imp
  <2> QED
    BY <2>2, <2>3, <2>4, <2>5, CompileKeeps
<1>4. CASE Rubric!UpdateDraft
  <2>1. status' = status /\ status = "draft" /\ edits' \in 0 .. MaxEdits
    BY <1>4 DEF Rubric!UpdateDraft, RubricInv, RubricBounds
  <2>2. ASSUME NEW imp \in UNION {[h -> Rubric!Tiers \cup {"gate"}] : h \in SUBSET Labels},
               Rubric!Write(imp, (flags \ {"MUST_HAVE_OVERLOAD"}) \cup Rubric!Structural(imp)), UNCHANGED thresholds
        PROVE  RubricInv'
    <3>1. PICK new \in SUBSET Labels : imp \in [new -> Rungs]
      BY DEF Rungs
    <3>2. /\ importance' = imp /\ flags' = (flags \ {"MUST_HAVE_OVERLOAD"}) \cup Rubric!Structural(imp)
          /\ weight' \in [new -> 0 .. Unit] /\ Fits(importance', weight')
      BY <2>2, <3>1, WritesFit
    <3>3. flags' \subseteq Rubric!FlagCodes /\ (Rubric!Overloaded(imp) <=> "MUST_HAVE_OVERLOAD" \in flags')
      BY <3>2 DEF RubricInv, Rubric!Structural, Rubric!FlagCodes
    <3>4. Rubric!Overloaded(importance)' <=> "MUST_HAVE_OVERLOAD" \in flags'
      BY <3>2, <3>3 DEF Rubric!Overloaded
    <3> QED
      BY <2>1, <2>2, <3>1, <3>2, <3>3, <3>4 DEF RubricInv
  <2>3. ASSUME thresholds' \in Rubric!Presets \cup Rubric!Explicit, UNCHANGED <<importance, weight, flags>>
        PROVE  RubricInv'
    <3>1. CASE thresholds' \in Rubric!Presets
      <4>1. thresholds'.advance \in 0 .. 100 /\ thresholds'.review \in 0 .. 100 /\ thresholds'.review <= thresholds'.advance
        BY <3>1 DEF Rubric!Presets
      <4> QED
        BY <2>1, <2>3, <4>1 DEF RubricInv, Fits, Rubric!Overloaded, Rubric!Scoreable
    <3>2. CASE thresholds' \in Rubric!Explicit
      <4>0. \A i \in {-5, 70, 120, 0, 90} : Rubric!Clamp(i) \in 0 .. 100
        BY DEF Rubric!Clamp
      <4>1. thresholds'.advance \in 0 .. 100 /\ thresholds'.review \in 0 .. 100 /\ thresholds'.review <= thresholds'.advance
        BY <3>2, <4>0 DEF Rubric!Explicit
      <4> QED
        BY <2>1, <2>3, <4>1 DEF RubricInv, Fits, Rubric!Overloaded, Rubric!Scoreable
    <3> QED
      BY <2>3, <3>1, <3>2
  <2> QED
    BY <1>4, <2>2, <2>3 DEF Rubric!UpdateDraft
<1>5. CASE Rubric!Approve
  <2>1. weight' = weight
    <3>1. Fits(importance, weight)
      BY DEF RubricInv
    <3> QED
      BY <1>1, <1>5, <3>1, ApprovalMovesNothing DEF Rubric!Approve
  <2> QED
    BY <1>5, <2>1 DEF RubricInv, Rubric!Approve, Fits, Rubric!Overloaded, Rubric!Scoreable
<1>6. CASE UNCHANGED Rubric!vars
  BY <1>6 DEF RubricInv, Rubric!vars, Fits, Rubric!Overloaded, Rubric!Scoreable
<1> QED
  BY <1>2, <1>3, <1>4, <1>5, <1>6 DEF Rubric!Next

(* A rubric stays well-typed.                                                *)
THEOREM RubricIsTyped == ASSUME RubricBounds PROVE Rubric!Spec => []Rubric!TypeOK
<1>1. RubricInv => Rubric!TypeOK
  <2> SUFFICES ASSUME RubricInv PROVE Rubric!TypeOK
    OBVIOUS
  <2>1. PICK held \in SUBSET Labels : importance \in [held -> Rungs] /\ weight \in [held -> 0 .. Unit]
    BY DEF RubricInv
  <2>2. importance \in [held -> Rubric!Tiers \cup {"gate"}] /\ DOMAIN weight = held /\ \A c \in held : weight[c] \in 0 .. Unit
    BY <2>1 DEF Rungs
  <2> QED
    BY <2>2 DEF RubricInv, Rubric!TypeOK
<1> QED
  BY <1>1, RubricBegins, RubricStep, PTL DEF Rubric!Spec

(* What a candidate is measured by is what the recruiter said, whatever is
   proposed, edited and approved: the weights share out exactly the whole, in
   the order of the tiers, and the approval moves nothing (normaliseWeights,
   applyImportance of rubricEngine.js).                                      *)
THEOREM WeightsFollowTheLadder == ASSUME RubricBounds PROVE Rubric!Spec => []Rubric!WeightsAreTheLadder
<1>1. RubricInv => Rubric!WeightsAreTheLadder
  <2> SUFFICES ASSUME RubricInv PROVE Rubric!WeightsAreTheLadder
    OBVIOUS
  <2>1. PICK held \in SUBSET Labels : importance \in [held -> Rungs] /\ weight \in [held -> 0 .. Unit]
    BY DEF RubricInv
  <2>2. Rubric!Mass(weight) = SumOver(DOMAIN weight, weight) /\ Rubric!Cardinality(Labels) = Cardinality(Labels)
    BY RubricSums, RubricCounts DEF Rubric!Mass
  <2>3. Rubric!SharesAreExact /\ Rubric!GatesWeighNothing
    BY <2>1, <2>2 DEF RubricInv, Fits, Rubric!SharesAreExact, Rubric!GatesWeighNothing
  <2>4. Rubric!LadderIsKept
    BY <2>2 DEF RubricInv, Fits, Rubric!LadderIsKept
  <2>5. Rubric!BandsAreOrdered /\ Rubric!OverloadIsTold
    BY DEF RubricInv, Rubric!BandsAreOrdered, Rubric!OverloadIsTold
  <2> QED
    BY <2>3, <2>4, <2>5 DEF Rubric!WeightsAreTheLadder
<1> QED
  BY <1>1, RubricBegins, RubricStep, PTL DEF Rubric!Spec

-----------------------------------------------------------------------------
(* What is said in a turn.                                                   *)

CONSTANTS Sentences, MaxSentences, MaxTurns
VARIABLES path, said, fresh, asked, held, reading, turns, dropped

Acts == INSTANCE TurnActs

ActsBounds ==
    /\ \A s \in Sentences : s.trig \in Acts!Triggers \cup {"none"} /\ s.evidence \in Nat /\ s.plain \in Nat
    /\ MaxSentences \in Nat /\ MaxTurns \in Nat

RecordedTurns == [kind : {"answer", "declined", "already_answered", "no_response"}, text : Seq(Sentences)]

ActsInv == Acts!TypeOK /\ turns \in Seq(RecordedTurns) /\ Acts!AnswersAreKept /\ Acts!ReadingsAreBounded

-----------------------------------------------------------------------------
LEMMA LastSpoken ==
    ASSUME NEW n \in Nat, NEW T, T \subseteq 1 .. n, T # {}
    PROVE  /\ Acts!Max(T) \in T
           /\ \A y \in T : y <= Acts!Max(T)
<1>1. PICK z \in T : \A y \in T : y <= z
  <2>1. \A y \in T : y \in Nat /\ y <= n
    OBVIOUS
  <2> QED
    BY <2>1, GreatestOf
<1> QED
  BY <1>1 DEF Acts!Max

LEMMA FirstSpoken ==
    ASSUME NEW T, T \subseteq Nat, T # {}
    PROVE  Acts!Min(T) \in T
<1> DEFINE R == OpToRel(<, Nat)
<1>1. PICK z \in T : \A y \in T : <<y, z>> \notin R
  <2>1. IsWellFoundedOn(R, Nat)
    BY NatLessThanWellFounded
  <2> HIDE DEF R
  <2> QED
    BY <2>1, WFMin
<1>2. ASSUME NEW y \in T PROVE z <= y
  <2>1. y \in Nat /\ z \in Nat
    OBVIOUS
  <2>2. ~(y < z)
    BY <1>1, <2>1 DEF OpToRel
  <2> QED
    BY <2>1, <2>2
<1> QED
  BY <1>2 DEF Acts!Min

(* A sentence that carries an answer makes the turn an answer.               *)
LEMMA SubstanceIsContent ==
    ASSUME ActsBounds, NEW s \in Sentences, Acts!Substantial(s)
    PROVE  Acts!ClassifySentence(s) = "content"
BY DEF ActsBounds, Acts!Substantial, Acts!ClassifySentence, Acts!Has, Acts!CarriesEvidence, Acts!Residual, Acts!MaxOther

LEMMA NoAnswerNoSubstance ==
    ASSUME ActsBounds, NEW ss \in Seq(Sentences), ~Acts!Compose(ss).isAnswer
    PROVE  \A i \in DOMAIN ss : ~Acts!Substantial(ss[i])
<1>1. \A i \in DOMAIN ss : ss[i] \in Sentences
  OBVIOUS
<1>2. \A i \in DOMAIN ss : Acts!ClassifySentence(ss[i]) # "content"
  BY DEF Acts!Compose, Acts!Speaks
<1> QED
  BY <1>1, <1>2, SubstanceIsContent

LEMMA ActsAreNoAnswers ==
    ASSUME ActsBounds, NEW ss \in Seq(Sentences), Acts!Compose(ss).act # "none"
    PROVE  ~Acts!Compose(ss).isAnswer
BY DEF Acts!Compose

LEMMA DeclinesAreNoAnswers ==
    ASSUME NEW ss
    PROVE  /\ Acts!DeclineOrAnswer(ss) \in {"declined", "answer"}
           /\ Acts!DeclineOrAnswer(ss) = "declined" => ~Acts!Compose(ss).isAnswer
BY DEF Acts!DeclineOrAnswer

(* Of what stands behind the kept sentences only short words may carry one.  *)
LEMMA KeptBeforeWithdraw ==
    ASSUME ActsBounds, NEW ss \in Seq(Sentences)
    PROVE  /\ Acts!BeforeWithdraw(ss) \in 0 .. Len(ss)
           /\ \A i \in Acts!BeforeWithdraw(ss) + 1 .. Len(ss) :
                  Acts!Substantial(ss[i]) => Acts!WordsOf(ss[i]) <= Acts!FillerMaxWords
<1> DEFINE Ends == {i \in 1 .. Len(ss) : Acts!AsksToEnd(ss[i]) \/ Acts!WordsOf(ss[i]) > 3}
           last == IF Ends # {} THEN Acts!Max(Ends) ELSE 0
           head == SubSeq(ss, 1, last)
           Others == {i \in 1 .. Len(head) : ~Acts!AsksToEnd(head[i])}
           other == IF Others # {} THEN Acts!Max(Others) ELSE 0
<1>1. Len(ss) \in Nat /\ \A i \in 1 .. Len(ss) : ss[i] \in Sentences
  OBVIOUS
<1>2. last \in 0 .. Len(ss) /\ \A i \in Ends : i <= last
  <2>1. Ends \subseteq 1 .. Len(ss)
    OBVIOUS
  <2>2. Ends # {} => Acts!Max(Ends) \in Ends /\ \A i \in Ends : i <= Acts!Max(Ends)
    <3> HIDE DEF Ends
    <3> QED
      BY <1>1, <2>1, LastSpoken
  <2>3. CASE Ends # {}
    <3>1. last = Acts!Max(Ends)
      BY <2>3
    <3>2. PICK m \in Ends : m = Acts!Max(Ends) /\ \A i \in Ends : i <= m
      BY <2>2, <2>3
    <3>3. m \in 1 .. Len(ss) /\ last = m
      BY <2>1, <3>1, <3>2
    <3> HIDE DEF Ends, last
    <3> QED
      BY <1>1, <3>2, <3>3
  <2>4. CASE Ends = {}
    <3>1. last = 0
      BY <2>4
    <3> HIDE DEF Ends, last
    <3> QED
      BY <1>1, <2>4, <3>1
  <2> QED
    BY <2>3, <2>4
<1>3. Acts!BeforeWithdraw(ss) = IF last > 0 /\ Acts!AsksToEnd(ss[last]) THEN other ELSE Len(ss)
  BY DEF Acts!BeforeWithdraw, Acts!SelectLastInSeq
<1> HIDE DEF last
<1>10. last \in Nat
  BY <1>1, <1>2
<1>4. Len(head) = last /\ \A i \in 1 .. last : head[i] = ss[i]
  BY <1>1, <1>2
<1>5. other \in 0 .. last /\ \A i \in Others : i <= other
  <2>1. Others \subseteq 1 .. last
    BY <1>4
  <2>2. last \in Nat
    BY <1>1, <1>2
  <2>3. Others # {} => Acts!Max(Others) \in Others /\ \A i \in Others : i <= Acts!Max(Others)
    <3> HIDE DEF Others
    <3> QED
      BY <2>1, <2>2, LastSpoken
  <2>4. CASE Others # {}
    <3>1. other = Acts!Max(Others)
      BY <2>4
    <3>2. PICK m \in Others : m = Acts!Max(Others) /\ \A i \in Others : i <= m
      BY <2>3, <2>4
    <3>3. m \in 1 .. last /\ other = m
      BY <2>1, <3>1, <3>2
    <3> HIDE DEF Others, other
    <3> QED
      BY <2>2, <3>2, <3>3
  <2>5. CASE Others = {}
    <3>1. other = 0
      BY <2>5
    <3> HIDE DEF Others, other
    <3> QED
      BY <2>2, <2>5, <3>1
  <2> QED
    BY <2>4, <2>5
<1>6. ASSUME NEW i \in other + 1 .. Len(ss), Acts!Substantial(ss[i]) PROVE Acts!WordsOf(ss[i]) <= Acts!FillerMaxWords
  <2>1. i \in 1 .. Len(ss) /\ ss[i] \in Sentences
    <3> HIDE DEF other
    <3>1. i \in 1 .. Len(ss)
      BY <1>1, <1>2, <1>5, <1>6
    <3> QED
      BY <1>1, <3>1
  <2>2. ~Acts!AsksToEnd(ss[i])
    BY <1>6, <2>1 DEF ActsBounds, Acts!Substantial, Acts!AsksToEnd, Acts!Has, Acts!Residual, Acts!MaxOther
  <2>3. i > last
    <3>1. CASE i \in 1 .. last
      <4>1. i \in Others
        BY <1>4, <2>2, <3>1
      <4> HIDE DEF Others, other
      <4> QED
        BY <1>2, <1>5, <1>6, <4>1
    <3> QED
      BY <1>2, <2>1, <3>1
  <2>4. i \notin Ends
    BY <1>2, <2>1, <2>3
  <2>5. Acts!WordsOf(ss[i]) \in Nat
    BY <2>1 DEF ActsBounds, Acts!WordsOf, Acts!Residual, Acts!TrigWords
  <2> QED
    BY <2>1, <2>4, <2>5 DEF Acts!FillerMaxWords
<1> HIDE DEF other
<1> QED
  BY <1>1, <1>2, <1>3, <1>5, <1>6

\* The text of a turn is a beginning of what was said.
LEMMA TextIsSaid ==
    ASSUME NEW ss \in Seq(Sentences)
    PROVE  /\ Acts!Text(ss) \in Seq(Sentences) /\ Len(Acts!Text(ss)) \in 0 .. Len(ss)
           /\ \A i \in 1 .. Len(Acts!Text(ss)) : Acts!Text(ss)[i] = ss[i]
           /\ path = "browser" => Acts!Text(ss) = ss
<1> DEFINE Dones == {i \in 1 .. Len(ss) : Acts!Has(ss[i], "done")}
<1>1. Len(ss) \in Nat /\ Dones \subseteq 1 .. Len(ss) /\ Dones \subseteq Nat
  OBVIOUS
<1>2. Acts!Done(ss) = IF Dones # {} THEN Acts!Min(Dones) ELSE 0
  BY DEF Acts!Done, Acts!SelectInSeq
<1>3. Acts!Done(ss) \in 0 .. Len(ss)
  <2>1. Dones # {} => Acts!Min(Dones) \in Dones
    <3> HIDE DEF Dones
    <3> QED
      BY <1>1, FirstSpoken
  <2>2. CASE Dones # {}
    <3>1. Acts!Done(ss) = Acts!Min(Dones)
      BY <1>2, <2>2
    <3>2. PICK m \in Dones : m = Acts!Min(Dones)
      BY <2>1, <2>2
    <3>3. m \in 1 .. Len(ss)
      BY <1>1
    <3> QED
      BY <1>1, <3>1, <3>2, <3>3
  <2>3. CASE Dones = {}
    BY <1>1, <1>2, <2>3
  <2> QED
    BY <2>2, <2>3
<1>4. CASE path = "realtime" /\ Acts!Done(ss) > 0
  <2>1. PICK k \in 0 .. Len(ss) : k = Acts!Done(ss) - 1
    BY <1>1, <1>3, <1>4
  <2>2. Acts!Text(ss) = SubSeq(ss, 1, k)
    BY <1>4, <2>1 DEF Acts!Text
  <2>3. SubSeq(ss, 1, k) \in Seq(Sentences) /\ Len(SubSeq(ss, 1, k)) = k /\ \A i \in 1 .. k : SubSeq(ss, 1, k)[i] = ss[i]
    BY <1>1
  <2> QED
    BY <1>1, <1>4, <2>2, <2>3
<1>5. CASE ~(path = "realtime" /\ Acts!Done(ss) > 0)
  BY <1>1, <1>5 DEF Acts!Text
<1> QED
  BY <1>4, <1>5

(* A turn that is recorded.                                                  *)
LEMMA TurnCloses ==
    ASSUME ActsBounds, ActsInv, NEW kind \in {"answer", "declined", "already_answered", "no_response"},
           NEW n \in 0 .. Len(said), Acts!Close(kind, n),
           kind # "answer" => \A i \in 1 .. n : ~Acts!Substantial(said[i]),
           \A i \in n + 1 .. Len(Acts!Text(said)) : Acts!Substantial(said[i]) => Acts!WordsOf(said[i]) <= Acts!FillerMaxWords
    PROVE  ActsInv'
<1> DEFINE text == SubSeq(said, 1, n)
           turn == [kind |-> kind, text |-> text]
<1>1. said \in Seq(Sentences) /\ Len(said) \in Nat /\ turns \in Seq(RecordedTurns) /\ dropped \subseteq Sentences
  BY DEF ActsInv, Acts!TypeOK
<1>2. text \in Seq(Sentences) /\ Len(text) = n /\ \A i \in 1 .. n : text[i] = said[i]
  BY <1>1
<1>3. turns' = Append(turns, turn) /\ dropped' = dropped \cup {said[i] : i \in n + 1 .. Len(Acts!Text(said))}
  BY DEF Acts!Close
<1> HIDE DEF text
<1>4. turn \in RecordedTurns /\ turn.kind = kind /\ turn.text = text
  BY <1>2 DEF RecordedTurns
<1> HIDE DEF turn
<1>5. /\ turns' \in Seq(RecordedTurns) /\ Len(turns') = Len(turns) + 1 /\ Len(turns) \in Nat
      /\ \A i \in 1 .. Len(turns) : turns'[i] = turns[i]
      /\ turns'[Len(turns) + 1] = turn
  BY <1>1, <1>3, <1>4
<1>6. ASSUME NEW s \in dropped' PROVE s \in Sentences /\ (Acts!Substantial(s) => Acts!WordsOf(s) <= Acts!FillerMaxWords)
  <2>1. CASE s \in dropped
    BY <1>1, <2>1 DEF ActsInv, Acts!AnswersAreKept
  <2>2. ASSUME NEW i \in n + 1 .. Len(Acts!Text(said)), s = said[i]
        PROVE  s \in Sentences /\ (Acts!Substantial(s) => Acts!WordsOf(s) <= Acts!FillerMaxWords)
    <3>1. Len(Acts!Text(said)) \in 0 .. Len(said)
      BY <1>1, TextIsSaid
    <3>2. i \in 1 .. Len(said)
      BY <1>1, <2>2, <3>1
    <3> QED
      BY <1>1, <2>2, <3>2
  <2> QED
    BY <1>3, <1>6, <2>1, <2>2
<1>7. ASSUME NEW i \in DOMAIN turns', turns'[i].kind # "answer", NEW j \in DOMAIN turns'[i].text
      PROVE  ~Acts!Substantial(turns'[i].text[j])
  <2>1. i \in 1 .. Len(turns) \/ i = Len(turns) + 1
    BY <1>5
  <2>2. CASE i \in 1 .. Len(turns)
    <3>1. i \in DOMAIN turns /\ turns'[i] = turns[i]
      BY <1>1, <1>5, <2>2
    <3> QED
      BY <1>7, <3>1 DEF ActsInv, Acts!AnswersAreKept
  <2>3. CASE i = Len(turns) + 1
    <3>1. turns'[i] = turn
      BY <1>5, <2>3
    <3>2. kind # "answer" /\ j \in DOMAIN text
      BY <1>4, <1>7, <3>1
    <3>3. j \in 1 .. n
      BY <1>2, <3>2
    <3> QED
      BY <1>2, <1>4, <3>1, <3>2, <3>3
  <2> QED
    BY <2>1, <2>2, <2>3
<1>8. Acts!AnswersAreKept'
  BY <1>6, <1>7 DEF Acts!AnswersAreKept, Acts!Substantial, Acts!CarriesEvidence, Acts!Residual, Acts!MaxOther, Acts!WordsOf,
                    Acts!FillerMaxWords, Acts!Triggers, Acts!TrigWords
<1>9. Acts!TypeOK'
  <2>1. /\ path' \in {"browser", "realtime"} /\ asked' \in Acts!Open /\ held' \in Nat
        /\ said' = <<>> /\ fresh' = 0 /\ reading' = Acts!Answering
    BY DEF Acts!Close, ActsInv, Acts!TypeOK
  <2>2. said' \in Seq(Sentences) /\ fresh' \in 0 .. Len(said')
    BY <2>1
  <2>3. reading'.action \in Acts!Actions /\ reading'.tier \in {0, 1}
    BY <2>1 DEF Acts!Answering, Acts!Reading, Acts!Actions
  <2>4. \A i \in DOMAIN turns' : turns'[i].kind \in {"answer", "declined", "already_answered", "no_response"}
    <3>1. \A i \in DOMAIN turns' : turns'[i] \in RecordedTurns
      BY <1>5
    <3> QED
      BY <3>1 DEF RecordedTurns
  <2> QED
    BY <1>6, <2>1, <2>2, <2>3, <2>4 DEF Acts!TypeOK
<1>10. Acts!ReadingsAreBounded'
  <2>1. reading'.words = 0
    BY DEF Acts!Close, Acts!Answering, Acts!Reading
  <2> QED
    BY <2>1 DEF Acts!ReadingsAreBounded
<1> QED
  BY <1>5, <1>8, <1>9, <1>10 DEF ActsInv

(* Words are counted sentence by sentence; every phrase has its own.         *)
Lengths(ss) == [i \in DOMAIN ss |-> Acts!WordsOf(ss[i])]
Leavings(ss) == [i \in DOMAIN ss |-> Acts!Residual(ss[i])]

LEMMA WordsAreSums ==
    ASSUME NEW ss
    PROVE  Acts!Total(ss) = SumOver(DOMAIN ss, Lengths(ss)) /\ Acts!Beside(ss) = SumOver(DOMAIN ss, Leavings(ss))
BY DEF Acts!Total, Acts!Beside, Lengths, Leavings, Acts!SumOver, Acts!MapThenSumSet, Acts!MapThenFoldSet, SumOver, MapThenSumSet, MapThenFoldSet

LEMMA WordsAreWhole ==
    ASSUME ActsBounds, NEW ss \in Seq(Sentences)
    PROVE  /\ DOMAIN ss = 1 .. Len(ss) /\ Len(ss) \in Nat /\ IsFiniteSet(DOMAIN ss)
           /\ Whole(DOMAIN ss, Lengths(ss)) /\ Whole(DOMAIN ss, Leavings(ss))
           /\ \A i \in DOMAIN ss : /\ Lengths(ss)[i] >= 0 /\ Leavings(ss)[i] >= 0
                                   /\ Lengths(ss)[i] >= Leavings(ss)[i]
                                   /\ ss[i].trig \in Acts!Triggers => Lengths(ss)[i] = Leavings(ss)[i] + 4
<1>1. DOMAIN ss = 1 .. Len(ss) /\ Len(ss) \in Nat
  OBVIOUS
<1>2. IsFiniteSet(DOMAIN ss)
  <2>1. 1 \in Int /\ Len(ss) \in Int
    BY <1>1
  <2> QED
    BY <1>1, <2>1, FS_Interval
<1>3. ASSUME NEW i \in DOMAIN ss
      PROVE  /\ Lengths(ss)[i] \in Nat /\ Leavings(ss)[i] \in Nat /\ Lengths(ss)[i] >= Leavings(ss)[i]
             /\ ss[i].trig \in Acts!Triggers => Lengths(ss)[i] = Leavings(ss)[i] + 4
  <2>1. ss[i] \in Sentences
    BY <1>1
  <2> QED
    BY <2>1 DEF ActsBounds, Lengths, Leavings, Acts!WordsOf, Acts!Residual, Acts!TrigWords
<1> QED
  BY <1>1, <1>2, <1>3 DEF Whole

\* The sum over phrases and what stands beside them.
LEMMA SumsApart ==
    ASSUME NEW D, IsFiniteSet(D), NEW P \in SUBSET D, NEW F, NEW G, Whole(D, F), Whole(D, G),
           \A i \in D : F[i] >= G[i] /\ G[i] >= 0, \A i \in P : F[i] = G[i] + 4
    PROVE  /\ SumOver(D, F) \in Int /\ SumOver(D, G) \in Int /\ 0 <= SumOver(D, G) /\ Cardinality(P) \in Nat
           /\ SumOver(D, G) + 4 * Cardinality(P) <= SumOver(D, F)
<1>1. PICK f \in [SUBSET D -> Int] : SumOver(D, F) = f[D] /\ Tables(D, F, f)
  BY SumIsTabled
<1>2. PICK g \in [SUBSET D -> Int] : SumOver(D, G) = g[D] /\ Tables(D, G, g)
  BY SumIsTabled
<1> DEFINE T == {t \in SUBSET D : 0 <= g[t] /\ g[t] + 4 * Cardinality(t \cap P) <= f[t]}
<1>3. {} \in T
  <2>1. f[{}] = 0 /\ g[{}] = 0
    BY <1>1, <1>2 DEF Tables, Added
  <2>2. {} \cap P = {} /\ Cardinality({}) = 0
    BY FS_EmptySet
  <2> QED
    BY <2>1, <2>2
<1>4. ASSUME NEW t \in SUBSET D, t # {}, t \ {Pick(t)} \in T PROVE t \in T
  <2>1. PICK p \in t : p = Pick(t)
    BY <1>4, PickIsIn
  <2>2. PICK u \in SUBSET D : u = t \ {p}
    OBVIOUS
  <2>3. 0 <= g[u] /\ g[u] + 4 * Cardinality(u \cap P) <= f[u] /\ g[u] \in Int /\ f[u] \in Int
    BY <1>4, <2>1, <2>2
  <2>4. f[t] = F[p] + f[u] /\ g[t] = G[p] + g[u]
    BY <1>1, <1>2, <1>4, <2>1, <2>2 DEF Tables, Added
  <2>5. F[p] \in Int /\ G[p] \in Int /\ F[p] >= G[p] /\ G[p] >= 0
    BY DEF Whole
  <2>6. IsFiniteSet(u \cap P) /\ Cardinality(u \cap P) \in Nat
    <3>1. u \cap P \subseteq D
      OBVIOUS
    <3> QED
      BY <3>1, FS_Subset, FS_CardinalityType
  <2> HIDE DEF T
  <2>7. 0 <= g[t] /\ g[t] + 4 * Cardinality(t \cap P) <= f[t]
    <3>1. PICK n \in Nat : n = Cardinality(u \cap P)
      BY <2>6
    <3>2. CASE p \in P
      <4>1. t \cap P = (u \cap P) \cup {p} /\ p \notin u \cap P
        BY <2>2, <3>2
      <4>2. Cardinality(t \cap P) = n + 1
        BY <2>6, <3>1, <4>1, FS_AddElement
      <4>3. F[p] = G[p] + 4
        BY <3>2
      <4>4. 0 <= g[t] /\ g[t] + 4 * (n + 1) <= f[t]
        BY <2>3, <2>4, <2>5, <3>1, <4>3
      <4> QED
        BY <4>2, <4>4
    <3>3. CASE p \notin P
      <4>1. t \cap P = u \cap P
        BY <2>2, <3>3
      <4>2. 0 <= g[t] /\ g[t] + 4 * n <= f[t]
        BY <2>3, <2>4, <2>5, <3>1
      <4> QED
        BY <3>1, <4>1, <4>2
    <3> QED
      BY <3>2, <3>3
  <2> QED
    BY <2>7 DEF T
<1>5. D \in T
  <2>1. \A t \in SUBSET D : t # {} /\ t \ {Pick(t)} \in T => t \in T
    BY <1>4
  <2> HIDE DEF T
  <2>2. \A t \in SUBSET D : t \in T
    BY <1>3, <2>1, OneByOne
  <2> QED
    BY <2>2
<1>6. D \cap P = P /\ Cardinality(P) \in Nat
  BY FS_Subset, FS_CardinalityType
<1>7. 0 <= g[D] /\ g[D] + 4 * Cardinality(P) <= f[D] /\ f[D] \in Int /\ g[D] \in Int
  BY <1>5, <1>6
<1> QED
  BY <1>1, <1>2, <1>6, <1>7

LEMMA PhrasesHaveWords ==
    ASSUME ActsBounds, NEW ss \in Seq(Sentences), NEW act \in Acts!Triggers
    PROVE  /\ Acts!Total(ss) \in Nat /\ Acts!Beside(ss) \in Nat /\ Cardinality(Acts!Saying(ss, act)) \in Nat
           /\ Acts!Beside(ss) + 4 * Cardinality(Acts!Saying(ss, act)) <= Acts!Total(ss)
<1>1. PICK F, G : F = Lengths(ss) /\ G = Leavings(ss)
  OBVIOUS
<1>2. PICK P : P = Acts!Saying(ss, act) /\ P \in SUBSET DOMAIN ss /\ \A i \in P : ss[i].trig \in Acts!Triggers
  <2>1. Acts!Saying(ss, act) \in SUBSET DOMAIN ss /\ \A i \in Acts!Saying(ss, act) : ss[i].trig \in Acts!Triggers
    BY DEF Acts!Saying, Acts!Has
  <2> QED
    BY <2>1
<1>3. /\ IsFiniteSet(DOMAIN ss) /\ Whole(DOMAIN ss, F) /\ Whole(DOMAIN ss, G)
      /\ \A i \in DOMAIN ss : F[i] >= G[i] /\ G[i] >= 0
      /\ \A i \in P : F[i] = G[i] + 4
  BY <1>1, <1>2, WordsAreWhole
<1>4. /\ SumOver(DOMAIN ss, F) \in Int /\ SumOver(DOMAIN ss, G) \in Int /\ 0 <= SumOver(DOMAIN ss, G) /\ Cardinality(P) \in Nat
      /\ SumOver(DOMAIN ss, G) + 4 * Cardinality(P) <= SumOver(DOMAIN ss, F)
  BY <1>2, <1>3, SumsApart
<1>5. PICK f \in Int, g \in Int, n \in Nat : f = Acts!Total(ss) /\ g = Acts!Beside(ss) /\ n = Cardinality(P) /\ 0 <= g /\ g + 4 * n <= f
  BY <1>1, <1>4, WordsAreSums
<1> QED
  BY <1>2, <1>5

(* What is said in the beginning is no more than what is said.               *)
LEMMA BeginningIsLess ==
    ASSUME ActsBounds, NEW ss \in Seq(Sentences), NEW i \in 1 .. Len(ss)
    PROVE  /\ SubSeq(ss, 1, i) \in Seq(Sentences)
           /\ Acts!Total(SubSeq(ss, 1, i)) <= Acts!Total(ss)
<1> DEFINE head == SubSeq(ss, 1, i)
           D == 1 .. Len(ss)
           H == 1 .. i
           F == Lengths(ss)
           G == [j \in D |-> IF j \in H THEN F[j] ELSE 0]
<1>1. head \in Seq(Sentences) /\ DOMAIN head = H /\ H \subseteq D /\ DOMAIN ss = D /\ \A j \in H : head[j] = ss[j]
  OBVIOUS
<1>2. /\ IsFiniteSet(D) /\ Whole(D, F) /\ \A j \in D : F[j] >= 0
      /\ IsFiniteSet(H) /\ Whole(H, Lengths(head))
  BY <1>1, WordsAreWhole
<1>3. \A j \in H : Lengths(head)[j] = F[j]
  BY <1>1 DEF Lengths
<1>4. Whole(D, G) /\ Whole(H, G) /\ \A j \in D : F[j] \in Int
  BY <1>1, <1>2 DEF Whole
<1>5. SumOver(D, G) = SumOver(H, G)
  <2>1. \A j \in D \ H : G[j] = 0
    OBVIOUS
  <2> HIDE DEF D, H, G
  <2> QED
    BY <1>1, <1>2, <1>4, <2>1, SumOfTheRest
<1>6. /\ SumOver(H, Lengths(head)) \in Int /\ SumOver(H, G) \in Int
      /\ 1 * SumOver(H, Lengths(head)) <= 1 * SumOver(H, G)
  <2>1. \A j \in H : 1 * Lengths(head)[j] <= 1 * G[j]
    BY <1>1, <1>3, <1>4
  <2>2. 1 \in Int
    OBVIOUS
  <2> HIDE DEF H, G, head
  <2> QED
    BY <1>2, <1>4, <2>1, <2>2, SumsCompare
<1>7. /\ SumOver(D, G) \in Int /\ SumOver(D, F) \in Int
      /\ 1 * SumOver(D, G) <= 1 * SumOver(D, F)
  <2>1. \A j \in D : 1 * G[j] <= 1 * F[j]
    BY <1>2, <1>4
  <2>2. 1 \in Int
    OBVIOUS
  <2> HIDE DEF D, F, G
  <2> QED
    BY <1>2, <1>4, <2>1, <2>2, SumsCompare
<1>8. Acts!Total(head) = SumOver(H, Lengths(head)) /\ Acts!Total(ss) = SumOver(D, F)
  BY <1>1, WordsAreSums
<1> HIDE DEF D, H, F, G
<1> QED
  BY <1>1, <1>5, <1>6, <1>7, <1>8

(* A fixed phrase is honoured beside a few words only.                       *)
LEMMA DetectedIsShort ==
    ASSUME ActsBounds, NEW ss \in Seq(Sentences)
    PROVE  \/ Acts!Detect(ss) = "none"
           \/ Acts!Detect(ss) \in {"withdraw", "decline", "pause"} /\ Acts!Beside(ss) <= 8
<1> DEFINE order == <<"withdraw", "decline", "pause">>
           I == {i \in 1 .. Len(order) : Acts!Saying(ss, order[i]) # {}}
<1>1. Acts!Detect(ss) = IF (IF I # {} THEN Acts!Min(I) ELSE 0) > 0
                            /\ Acts!Total(ss) - 4 <= Acts!MaxOther[order[IF I # {} THEN Acts!Min(I) ELSE 0]]
                         THEN order[IF I # {} THEN Acts!Min(I) ELSE 0] ELSE "none"
  BY DEF Acts!Detect, Acts!SelectInSeq, Acts!TrigWords
<1>2. I \subseteq 1 .. 3 /\ I \subseteq Nat /\ \A k \in I : Acts!Saying(ss, order[k]) # {}
  OBVIOUS
<1>3. CASE I = {}
  <2> HIDE DEF I
  <2> QED
    BY <1>1, <1>3
<1>4. CASE I # {}
  <2>1. PICK k \in I : k = Acts!Min(I)
    <3> HIDE DEF I
    <3> QED
      BY <1>2, <1>4, FirstSpoken
  <2>2. PICK act : act = order[k] /\ act \in {"withdraw", "decline", "pause"} /\ Acts!Saying(ss, act) # {}
    <3>1. k \in 1 .. 3 /\ Acts!Saying(ss, order[k]) # {}
      <4> HIDE DEF I
      <4> QED
        BY <1>2, <2>1
    <3>2. order[k] \in {"withdraw", "decline", "pause"}
      BY <3>1
    <3> HIDE DEF order, I
    <3> QED
      BY <3>1, <3>2
  <2>3. k \in 1 .. 3
    BY <1>2, <2>1
  <2>4. Acts!Detect(ss) = IF Acts!Total(ss) - 4 <= Acts!MaxOther[act] THEN act ELSE "none"
    <3> HIDE DEF I, order
    <3> QED
      BY <1>1, <1>4, <2>1, <2>2, <2>3
  <2> HIDE DEF order, I
  <2>5. PICK m \in 0 .. 6 : m = Acts!MaxOther[act]
    BY <2>2 DEF Acts!MaxOther
  <2>6. PICK P : P = Acts!Saying(ss, act)
    OBVIOUS
  <2>7. PICK t \in Nat, b \in Nat, n \in Nat : t = Acts!Total(ss) /\ b = Acts!Beside(ss) /\ n = Cardinality(P) /\ b + 4 * n <= t
    BY <2>2, <2>6, PhrasesHaveWords DEF Acts!Triggers
  <2>8. n # 0
    <3>1. IsFiniteSet(P)
      <4>1. IsFiniteSet(DOMAIN ss) /\ P \subseteq DOMAIN ss
        BY <2>6, WordsAreWhole DEF Acts!Saying
      <4> QED
        BY <4>1, FS_Subset
    <3> QED
      BY <2>2, <2>6, <2>7, <3>1, FS_EmptySet
  <2>9. CASE t - 4 <= m
    <3>1. b <= 8
      BY <2>7, <2>8, <2>9
    <3> QED
      BY <2>2, <2>4, <2>5, <2>7, <2>9, <3>1
  <2>10. CASE ~(t - 4 <= m)
    BY <2>4, <2>5, <2>7, <2>10
  <2> QED
    BY <2>9, <2>10
<1> QED
  BY <1>3, <1>4

Bounded(ss, before, action, tier) ==
    /\ Acts!ConsumesTurn(action) => IF tier = 0 THEN Acts!Beside(ss) <= 8 ELSE Acts!Total(ss) <= 25
    /\ action = "finished" => Acts!Total(ss) + before >= 12

LEMMA CarriedIsShort ==
    ASSUME ActsBounds, NEW ss \in Seq(Sentences), NEW act \in Acts!Triggers, NEW max \in 0 .. 8, Acts!Carries(ss, act, max)
    PROVE  Acts!Beside(ss) <= 8
<1>1. Acts!Total(ss) - 4 * Cardinality(Acts!Saying(ss, act)) <= max
  <2>1. Acts!Cardinality(Acts!Saying(ss, act)) = Cardinality(Acts!Saying(ss, act))
    BY DEF Acts!Cardinality, Cardinality
  <2> QED
    BY <2>1 DEF Acts!Carries, Acts!TrigWords
<1>2. PICK k \in Nat : k = Cardinality(Acts!Saying(ss, act))
  BY PhrasesHaveWords
<1>3. PICK t \in Nat, b \in Nat : t = Acts!Total(ss) /\ b = Acts!Beside(ss)
  BY PhrasesHaveWords
<1>4. b + 4 * k <= t
  BY <1>2, <1>3, PhrasesHaveWords
<1>5. t - 4 * k <= max
  BY <1>1, <1>2, <1>3
<1> QED
  BY <1>3, <1>4, <1>5

LEMMA FinishedIsLong ==
    ASSUME ActsBounds, NEW ss \in Seq(Sentences), Acts!Finishes(ss)
    PROVE  Acts!Total(ss) >= 12
<1>1. PICK i \in Acts!Saying(ss, "finished") : Acts!Total(SubSeq(ss, 1, i)) - 4 >= 12
  BY DEF Acts!Finishes, Acts!TrigWords
<1>2. i \in 1 .. Len(ss)
  BY DEF Acts!Saying
<1>3. SubSeq(ss, 1, i) \in Seq(Sentences) /\ Acts!Total(SubSeq(ss, 1, i)) <= Acts!Total(ss)
  BY <1>2, BeginningIsLess
<1>4. Acts!Total(SubSeq(ss, 1, i)) \in Nat /\ Acts!Total(ss) \in Nat
  BY <1>3, PhrasesHaveWords DEF Acts!Triggers
<1> QED
  BY <1>1, <1>3, <1>4

(* What the browser is told about an utterance.                              *)
LEMMA ReadingIsOne ==
    ASSUME ActsBounds, NEW ss \in Seq(Sentences), NEW before \in Nat, NEW raw \in Acts!Raws
    PROVE  \E action \in Acts!Actions, tier \in {0, 1} :
               Acts!ResolveIntent(ss, before, raw) = Acts!Reading(action, tier) /\ Bounded(ss, before, action, tier)
<1>0. Acts!Total(ss) \in Nat /\ Acts!Beside(ss) \in Nat
  BY PhrasesHaveWords DEF Acts!Triggers
<1>1. Acts!DetectDeterministic(ss) = {} \/
      \E action \in Acts!Actions : Acts!DetectDeterministic(ss) = {Acts!Reading(action, 0)} /\ Bounded(ss, before, action, 0)
  <2> DEFINE Says(a) == \/ a = "repeat" /\ Acts!Carries(ss, "repeat", 6)
                        \/ a = "already_answered" /\ Acts!Carries(ss, "already_answered", 8)
                        \/ a = "finished" /\ Acts!Finishes(ss)
                        \/ a = Acts!Detect(ss)
  <2>1. PICK I \in SUBSET (1 .. Len(Acts!Precedence)) :
            /\ \A i \in I : Says(Acts!Precedence[i])
            /\ Acts!DetectDeterministic(ss)
                = IF (IF I # {} THEN Acts!Min(I) ELSE 0) > 0
                  THEN {Acts!Reading(Acts!Precedence[IF I # {} THEN Acts!Min(I) ELSE 0], 0)} ELSE {}
    <3> DEFINE I == {i \in 1 .. Len(Acts!Precedence) :
                        \/ Acts!Precedence[i] = "repeat" /\ Acts!Carries(ss, "repeat", 6)
                        \/ Acts!Precedence[i] = "already_answered" /\ Acts!Carries(ss, "already_answered", 8)
                        \/ Acts!Precedence[i] = "finished" /\ Acts!Finishes(ss)
                        \/ Acts!Precedence[i] = Acts!Detect(ss)}
    <3>1. I \in SUBSET (1 .. Len(Acts!Precedence)) /\ \A i \in I : Says(Acts!Precedence[i])
      OBVIOUS
    <3>2. Acts!DetectDeterministic(ss)
                = IF (IF I # {} THEN Acts!Min(I) ELSE 0) > 0
                  THEN {Acts!Reading(Acts!Precedence[IF I # {} THEN Acts!Min(I) ELSE 0], 0)} ELSE {}
      BY DEF Acts!DetectDeterministic, Acts!SelectInSeq
    <3> HIDE DEF I, Says
    <3> QED
      BY <3>1, <3>2
  <2>2. CASE I = {}
    BY <2>1, <2>2
  <2>3. CASE I # {}
    <3>1. Acts!Min(I) \in I /\ Acts!Min(I) \in 1 .. Len(Acts!Precedence)
      <4>1. I \subseteq Nat
        OBVIOUS
      <4> QED
        BY <2>3, <4>1, FirstSpoken
    <3>2. \A i \in 1 .. Len(Acts!Precedence) : Acts!Precedence[i] \in Acts!Actions /\ Acts!Precedence[i] # "none"
      BY DEF Acts!Precedence, Acts!Actions, Acts!ToSet
    <3>3. PICK a \in Acts!Actions : a = Acts!Precedence[Acts!Min(I)] /\ a # "none" /\ Says(a)
      BY <2>1, <3>1, <3>2
    <3>4. CASE a = "repeat" /\ Acts!Carries(ss, "repeat", 6)
      <4>1. Acts!Beside(ss) <= 8
        BY <3>4, CarriedIsShort DEF Acts!Triggers
      <4> QED
        BY <2>1, <2>3, <3>1, <3>3, <3>4, <4>1 DEF Bounded
    <3>5. CASE a = "already_answered" /\ Acts!Carries(ss, "already_answered", 8)
      <4>1. Acts!Beside(ss) <= 8
        BY <3>5, CarriedIsShort DEF Acts!Triggers
      <4> QED
        BY <2>1, <2>3, <3>1, <3>3, <3>5, <4>1 DEF Bounded
    <3>6. CASE a = "finished" /\ Acts!Finishes(ss)
      <4>1. Acts!Total(ss) + before >= 12
        BY <1>0, <3>6, FinishedIsLong
      <4>2. Bounded(ss, before, a, 0)
        BY <3>6, <4>1 DEF Bounded, Acts!ConsumesTurn
      <4> QED
        BY <2>1, <2>3, <3>1, <3>3, <4>2
    <3>7. CASE a = Acts!Detect(ss)
      <4>1. a \in {"withdraw", "decline", "pause"} /\ Acts!Beside(ss) <= 8
        BY <3>3, <3>7, DetectedIsShort
      <4> QED
        BY <2>1, <2>3, <3>1, <3>3, <4>1 DEF Bounded
    <3> QED
      BY <3>3, <3>4, <3>5, <3>6, <3>7
  <2> QED
    BY <2>2, <2>3
<1>2. \E action \in Acts!Actions : Acts!Classify(ss, before, raw) = Acts!Reading(action, 1) /\ Bounded(ss, before, action, 1)
  <2>1. Acts!Answering = Acts!Reading("answer_continues", 1) /\ "answer_continues" \in Acts!Actions
        /\ Bounded(ss, before, "answer_continues", 1)
    BY DEF Acts!Answering, Acts!Actions, Bounded, Acts!ConsumesTurn
  <2>2. CASE /\ raw.action \in Acts!Actions
             /\ raw.action # "finished" => Acts!Total(ss) <= 25
             /\ raw.action = "finished" => before >= 12
    <3>1. Bounded(ss, before, raw.action, 1)
      BY <1>0, <2>2 DEF Bounded, Acts!ConsumesTurn
    <3>2. Acts!GateSemantic(raw, Acts!Total(ss), before) \in {Acts!Answering, Acts!Reading(raw.action, 1)}
      BY DEF Acts!GateSemantic
    <3> QED
      BY <2>1, <2>2, <3>1, <3>2 DEF Acts!Classify
  <2>3. CASE ~(/\ raw.action \in Acts!Actions
               /\ raw.action # "finished" => Acts!Total(ss) <= 25
               /\ raw.action = "finished" => before >= 12)
    <3>1. Acts!GateSemantic(raw, Acts!Total(ss), before) = Acts!Answering
      BY <2>3 DEF Acts!GateSemantic
    <3> QED
      BY <2>1, <3>1 DEF Acts!Classify
  <2> QED
    BY <2>2, <2>3
<1>3. CASE Acts!DetectDeterministic(ss) = {}
  BY <1>2, <1>3 DEF Acts!ResolveIntent
<1>4. ASSUME NEW action \in Acts!Actions, Acts!DetectDeterministic(ss) = {Acts!Reading(action, 0)}
      PROVE  Acts!ResolveIntent(ss, before, raw) = Acts!Reading(action, 0)
  BY <1>4 DEF Acts!ResolveIntent
<1> QED
  BY <1>1, <1>3, <1>4

LEMMA SameTurns ==
    ASSUME ActsInv, Acts!TypeOK', turns' = turns, dropped' = dropped, Acts!ReadingsAreBounded'
    PROVE  ActsInv'
BY DEF ActsInv, Acts!AnswersAreKept, Acts!Substantial, Acts!CarriesEvidence, Acts!Residual, Acts!MaxOther, Acts!WordsOf,
       Acts!FillerMaxWords, Acts!Triggers, Acts!TrigWords

LEMMA SameReading ==
    ASSUME ActsInv, said' = said, fresh' = fresh, reading' = reading
    PROVE  Acts!ReadingsAreBounded'
<1>1. Acts!Utterance' = Acts!Utterance
  BY DEF Acts!Utterance
<1>2. Acts!Beside(Acts!Utterance)' = Acts!Beside(Acts!Utterance')
  BY DEF Acts!Beside, Acts!SumOver, Acts!MapThenSumSet, Acts!MapThenFoldSet, Acts!Residual
<1>3. Acts!ConsumesTurn(reading.action)' <=> Acts!ConsumesTurn(reading'.action)
  BY DEF Acts!ConsumesTurn
<1> QED
  BY <1>1, <1>2, <1>3 DEF ActsInv, Acts!ReadingsAreBounded

LEMMA ActsStep == ASSUME ActsBounds, ActsInv, [Acts!Next]_(Acts!vars) PROVE ActsInv'
<1>1. said \in Seq(Sentences) /\ Len(said) \in Nat /\ fresh \in 0 .. Len(said) /\ Acts!TypeOK
  BY DEF ActsInv, Acts!TypeOK
<1>2. ASSUME NEW s \in Sentences, Acts!Utter(s) PROVE ActsInv'
  <2>1. said' \in Seq(Sentences) /\ Len(said') = Len(said) + 1
    BY <1>1, <1>2 DEF Acts!Utter
  <2>2. fresh' \in 0 .. Len(said')
    BY <1>1, <1>2, <2>1 DEF Acts!Utter
  <2>3. reading'.action \in Acts!Actions /\ reading'.tier \in {0, 1}
    BY <1>2 DEF Acts!Utter, Acts!Answering, Acts!Reading, Acts!Actions
  <2>4. UNCHANGED <<path, asked, held, turns, dropped>>
    BY <1>2 DEF Acts!Utter
  <2>5. Acts!TypeOK'
    BY <1>1, <2>1, <2>2, <2>3, <2>4 DEF Acts!TypeOK
  <2>6. Acts!ReadingsAreBounded'
    BY <1>2 DEF Acts!Utter, Acts!Answering, Acts!Reading, Acts!ReadingsAreBounded
  <2> QED
    BY <2>4, <2>5, <2>6, SameTurns
<1>3. ASSUME NEW raw \in Acts!Raws, Acts!VoiceIntent(raw) PROVE ActsInv'
  <2>1. PICK ss, before : /\ ss = Acts!Utterance /\ before = Acts!Total(SubSeq(said, 1, Len(said) - fresh))
                          /\ reading' = [Acts!ResolveIntent(ss, before, raw) EXCEPT !.words = Acts!Total(ss), !.before = before]
                          /\ UNCHANGED <<path, said, fresh, asked, held, turns, dropped>>
    BY <1>3 DEF Acts!VoiceIntent
  <2>2. ss \in Seq(Sentences) /\ before \in Nat
    <3>1. ss \in Seq(Sentences) /\ SubSeq(said, 1, Len(said) - fresh) \in Seq(Sentences)
      BY <1>1, <2>1 DEF Acts!Utterance
    <3> QED
      BY <2>1, <3>1, PhrasesHaveWords DEF Acts!Triggers
  <2>3. PICK action \in Acts!Actions, tier \in {0, 1} :
            Acts!ResolveIntent(ss, before, raw) = Acts!Reading(action, tier) /\ Bounded(ss, before, action, tier)
    BY <2>2, ReadingIsOne
  <2>4. reading'.action = action /\ reading'.tier = tier /\ reading'.words = Acts!Total(ss) /\ reading'.before = before
    BY <2>1, <2>3 DEF Acts!Reading
  <2>5. Acts!TypeOK'
    BY <1>1, <2>1, <2>4 DEF Acts!TypeOK
  <2>6. Acts!ReadingsAreBounded'
    <3>1. Acts!Beside(Acts!Utterance') = Acts!Beside(ss)
      BY <2>1 DEF Acts!Utterance
    <3>2. Acts!Beside(Acts!Utterance)' = Acts!Beside(Acts!Utterance')
      BY DEF Acts!Beside, Acts!SumOver, Acts!MapThenSumSet, Acts!MapThenFoldSet, Acts!Residual
    <3>3. Acts!ConsumesTurn(reading.action)' <=> Acts!ConsumesTurn(reading'.action)
      BY DEF Acts!ConsumesTurn
    <3> QED
      BY <2>3, <2>4, <3>1, <3>2, <3>3 DEF Bounded, Acts!ReadingsAreBounded
  <2> QED
    BY <2>1, <2>5, <2>6, SameTurns
<1>4. ASSUME Acts!HandleDecline PROVE ActsInv'
  <2>1. path = "browser" /\ Acts!Close(Acts!DeclineOrAnswer(said), Len(said))
    BY <1>4 DEF Acts!HandleDecline
  <2>2. Acts!Text(said) = said
    BY <1>1, <2>1, TextIsSaid
  <2>3. Acts!DeclineOrAnswer(said) # "answer" => \A i \in 1 .. Len(said) : ~Acts!Substantial(said[i])
    BY <1>1, DeclinesAreNoAnswers, NoAnswerNoSubstance
  <2> QED
    BY <1>1, <2>1, <2>2, <2>3, DeclinesAreNoAnswers, TurnCloses
<1>5. ASSUME NEW declined \in BOOLEAN, Acts!SubmitAnswer(declined) PROVE ActsInv'
  <2> DEFINE t == Acts!Text(said)
             n == Acts!BeforeWithdraw(t)
             text == SubSeq(said, 1, n)
  <2>1. /\ t \in Seq(Sentences) /\ Len(t) \in 0 .. Len(said)
        /\ \A i \in 1 .. Len(t) : t[i] = said[i]
    BY <1>1, TextIsSaid
  <2> HIDE DEF t
  <2>2. n \in 0 .. Len(t) /\ \A i \in n + 1 .. Len(t) : Acts!Substantial(t[i]) => Acts!WordsOf(t[i]) <= Acts!FillerMaxWords
    BY <2>1, KeptBeforeWithdraw
  <2>3. /\ n = 0 /\ t # <<>> => UNCHANGED Acts!vars
        /\ n = 0 /\ t = <<>> => Acts!Close("no_response", 0)
        /\ n # 0 => \/ held' = 1 /\ UNCHANGED <<path, said, fresh, asked, reading, turns, dropped>>
                    \/ Acts!Kept(n, declined)
    BY <1>5 DEF Acts!SubmitAnswer, t
  <2> HIDE DEF n
  <2>4. /\ n \in 0 .. Len(said)
        /\ \A i \in n + 1 .. Len(t) : Acts!Substantial(said[i]) => Acts!WordsOf(said[i]) <= Acts!FillerMaxWords
    <3>1. \A i \in n + 1 .. Len(t) : i \in 1 .. Len(t)
      BY <1>1, <2>1, <2>2
    <3> QED
      BY <1>1, <2>1, <2>2, <3>1
  <2>5. text \in Seq(Sentences) /\ Len(text) = n /\ \A i \in 1 .. n : text[i] = said[i]
    BY <1>1, <2>4
  <2> HIDE DEF text
  <2>6. ASSUME NEW kind \in {"answer", "declined", "already_answered", "no_response"}, Acts!Close(kind, n),
               kind # "answer" => ~Acts!Compose(text).isAnswer
        PROVE  ActsInv'
    <3>1. kind # "answer" => \A i \in 1 .. n : ~Acts!Substantial(said[i])
      BY <2>5, <2>6, NoAnswerNoSubstance
    <3> QED
      BY <2>4, <2>6, <3>1, TurnCloses DEF t
  <2>7. CASE n = 0 /\ t = <<>>
    <3>1. Acts!Close("no_response", n)
      BY <2>3, <2>7
    <3>2. \A i \in 1 .. n : ~Acts!Substantial(said[i])
      BY <2>7
    <3> QED
      BY <2>4, <3>1, <3>2, TurnCloses DEF t
  <2>8. ASSUME held' \in Nat, UNCHANGED <<path, said, fresh, asked, reading, turns, dropped>> PROVE ActsInv'
    <3>1. Acts!TypeOK'
      BY <1>1, <2>8 DEF Acts!TypeOK
    <3> QED
      BY <2>8, <3>1, SameReading, SameTurns
  <2>9. CASE UNCHANGED Acts!vars
    BY <1>1, <2>8, <2>9 DEF Acts!vars, Acts!TypeOK
  <2>10. CASE Acts!Kept(n, declined)
    <3>1. \/ held' = 0 /\ UNCHANGED <<path, said, fresh, asked, reading, turns, dropped>>
          \/ Acts!Compose(text).act = "already_answered" /\ Acts!Close("already_answered", n)
          \/ Acts!Close(Acts!DeclineOrAnswer(text), n)
          \/ Acts!Close("answer", n)
      BY <2>10 DEF Acts!Kept, text
    <3>2. CASE Acts!Compose(text).act = "already_answered" /\ Acts!Close("already_answered", n)
      BY <2>5, <2>6, <3>2, ActsAreNoAnswers
    <3>3. CASE Acts!Close(Acts!DeclineOrAnswer(text), n)
      BY <2>6, <3>3, DeclinesAreNoAnswers
    <3> QED
      BY <2>6, <2>8, <3>1, <3>2, <3>3
  <2> QED
    BY <2>3, <2>7, <2>8, <2>9, <2>10
<1>6. CASE UNCHANGED Acts!vars
  <2>1. Acts!TypeOK'
    BY <1>1, <1>6 DEF Acts!TypeOK, Acts!vars
  <2> QED
    BY <1>6, <2>1, SameReading, SameTurns DEF Acts!vars
<1> QED
  BY <1>2, <1>3, <1>4, <1>5, <1>6 DEF Acts!Next

LEMMA ActsKept == ASSUME ActsBounds PROVE Acts!Spec => []ActsInv
<1>1. Acts!Init => ActsInv
  <2> SUFFICES ASSUME Acts!Init PROVE ActsInv
    OBVIOUS
  <2>1. reading.action \in Acts!Actions /\ reading.tier \in {0, 1}
    BY DEF Acts!Init, Acts!Answering, Acts!Reading, Acts!Actions
  <2>2. Acts!ReadingsAreBounded
    BY DEF Acts!Init, Acts!Answering, Acts!Reading, Acts!ReadingsAreBounded
  <2> QED
    BY <2>1, <2>2 DEF Acts!Init, ActsInv, Acts!TypeOK, Acts!AnswersAreKept
<1>2. ActsInv /\ [Acts!Next]_(Acts!vars) => ActsInv'
  BY ActsStep
<1> QED
  BY <1>1, <1>2, PTL DEF Acts!Spec

(* The open turn and its reading are of the kinds there are (dialogueActs.js,
   conversationIntent.js).                                                   *)
THEOREM ActsAreTyped == ASSUME ActsBounds PROVE Acts!Spec => []Acts!TypeOK
<1>1. ActsInv => Acts!TypeOK
  BY DEF ActsInv
<1> QED
  BY <1>1, ActsKept, PTL

(* Nobody declines or drops an answer by how a turn is split and read, ends one
   that has hardly begun, or has a long passage taken for something said to the
   interviewer, however many sentences a turn has and whatever the model says of
   them (turnComposition.js, dialogueActs.js, repeatIntent.js, finishIntent.js,
   gateSemantic, handleDecline, submitAnswer).                               *)
THEOREM SpokenAnswersAreKept == ASSUME ActsBounds PROVE Acts!Spec => []Acts!WordsAreHeard
<1>1. ActsInv => Acts!WordsAreHeard
  BY DEF ActsInv, Acts!WordsAreHeard
<1> QED
  BY <1>1, ActsKept, PTL

-----------------------------------------------------------------------------
(* What a recruiter is told of one candidate.                                *)

CONSTANTS Requirements, Resume, Events, Indicators, Months, MaxPieces, MaxEvents, MaxPeriods
VARIABLES leg, pieces, counts, seen, periods

Report == INSTANCE Reports

ReportBounds ==
    /\ IsFiniteSet(Requirements) /\ Weight \in [Requirements -> Nat] /\ (\E c \in Requirements : Weight[c] >= 5)
    /\ Resume \in [Requirements -> DOMAIN Report!Support]
    /\ Events \subseteq DOMAIN Report!EventTypes
    /\ IsFiniteSet(DOMAIN Indicators) /\ Whole(DOMAIN Indicators, Indicators)
    /\ \E last \in Nat : Months = 0 .. last

Flags == {"asked_to_repeat", "stalled", "mostly_silence", "connection_dropped"}
ReportedTurns == [kind : {"answer", "name_answer"}, declined : BOOLEAN, responsive : BOOLEAN, score : 0 .. 100, flags : SUBSET Flags]
PieceCounts == [correct : Nat, wrong : Nat, verified : Nat, contradicted : Nat, inconclusive : Nat, asked : Nat, anchor : BOOLEAN]

ReportTypes ==
    /\ leg \in Report!Legs
    /\ turns \in Seq(ReportedTurns) /\ turns \in Seq({Report!Turns[t] : t \in DOMAIN Report!Turns})
    /\ pieces \in [Requirements -> PieceCounts]
    /\ counts \in [Events -> Nat]
    /\ seen \in [DOMAIN Indicators -> Report!Readings]
    /\ periods \in Seq(Months \X Months)

LEMMA ReportCounts == \A S : Report!Cardinality(S) = Cardinality(S)
BY DEF Report!Cardinality, Cardinality

LEMMA TurnsAreSaid == \A t \in DOMAIN Report!Turns : Report!Turns[t] \in ReportedTurns
<1> SUFFICES ASSUME NEW t \in DOMAIN Report!Turns PROVE Report!Turns[t] \in ReportedTurns
  OBVIOUS
<1>1. t \in {"strong", "fair", "weak", "brief", "asked", "stalled", "silent", "dropped", "declined", "other"}
  BY DEF Report!Turns
<1>2. \A responsive \in BOOLEAN, score \in 0 .. 100, marks \in SUBSET Flags : Report!Answer(responsive, score, marks) \in ReportedTurns
  BY DEF Report!Answer, ReportedTurns
<1>3. 80 \in 0 .. 100 /\ 60 \in 0 .. 100 /\ 30 \in 0 .. 100 /\ 0 \in 0 .. 100
  OBVIOUS
<1>4. /\ Report!Turns["strong"] = Report!Answer(TRUE, 80, {}) /\ Report!Turns["fair"] = Report!Answer(TRUE, 60, {})
      /\ Report!Turns["weak"] = Report!Answer(TRUE, 30, {}) /\ Report!Turns["brief"] = Report!Answer(FALSE, 30, {})
  BY DEF Report!Turns
<1>5. /\ Report!Turns["asked"] = Report!Answer(TRUE, 80, {"asked_to_repeat"}) /\ Report!Turns["stalled"] = Report!Answer(FALSE, 0, {"stalled"})
      /\ Report!Turns["silent"] = Report!Answer(FALSE, 0, {"mostly_silence"})
      /\ Report!Turns["dropped"] = Report!Answer(FALSE, 0, {"connection_dropped"})
  BY DEF Report!Turns
<1>6. /\ Report!Turns["declined"] = [Report!Answer(TRUE, 0, {}) EXCEPT !.declined = TRUE]
      /\ Report!Turns["other"] = [Report!Answer(FALSE, 80, {}) EXCEPT !.kind = "name_answer"]
  BY DEF Report!Turns
<1>7. /\ {} \in SUBSET Flags /\ {"asked_to_repeat"} \in SUBSET Flags /\ {"stalled"} \in SUBSET Flags
      /\ {"mostly_silence"} \in SUBSET Flags /\ {"connection_dropped"} \in SUBSET Flags
  BY DEF Flags
<1>8. [Report!Answer(TRUE, 0, {}) EXCEPT !.declined = TRUE] \in ReportedTurns /\ [Report!Answer(FALSE, 80, {}) EXCEPT !.kind = "name_answer"] \in ReportedTurns
  <2>1. Report!Answer(TRUE, 0, {}) \in ReportedTurns /\ Report!Answer(FALSE, 80, {}) \in ReportedTurns
    BY <1>2, <1>3, <1>7
  <2>2. \A r \in ReportedTurns : [r EXCEPT !.declined = TRUE] \in ReportedTurns /\ [r EXCEPT !.kind = "name_answer"] \in ReportedTurns
    BY DEF ReportedTurns
  <2> QED
    BY <2>1, <2>2
<1>9. CASE t \in {"strong", "fair", "weak", "brief"}
  <2>1. /\ Report!Answer(TRUE, 80, {}) \in ReportedTurns /\ Report!Answer(TRUE, 60, {}) \in ReportedTurns
        /\ Report!Answer(TRUE, 30, {}) \in ReportedTurns /\ Report!Answer(FALSE, 30, {}) \in ReportedTurns
    BY <1>2, <1>3, <1>7
  <2>2. CASE t = "strong" \/ t = "fair"
    BY <1>4, <2>1, <2>2, ZenonT(40)
  <2>3. CASE t = "weak" \/ t = "brief"
    BY <1>4, <2>1, <2>3
  <2> QED
    BY <1>9, <2>2, <2>3
<1>10. CASE t \in {"asked", "stalled", "silent", "dropped"}
  <2>1. /\ Report!Answer(TRUE, 80, {"asked_to_repeat"}) \in ReportedTurns /\ Report!Answer(FALSE, 0, {"stalled"}) \in ReportedTurns
        /\ Report!Answer(FALSE, 0, {"mostly_silence"}) \in ReportedTurns /\ Report!Answer(FALSE, 0, {"connection_dropped"}) \in ReportedTurns
    BY <1>2, <1>3, <1>7
  <2>2. CASE t = "asked" \/ t = "stalled"
    BY <1>5, <2>1, <2>2
  <2>3. CASE t = "silent" \/ t = "dropped"
    BY <1>5, <2>1, <2>3
  <2> QED
    BY <1>10, <2>2, <2>3
<1>11. CASE t \in {"declined", "other"}
  BY <1>6, <1>8, <1>11
<1> QED
  BY <1>1, <1>9, <1>10, <1>11

LEMMA PiecesAreCounted ==
    ASSUME NEW p \in PieceCounts, NEW what \in DOMAIN Report!NoPieces \ {"anchor"}
    PROVE  [p EXCEPT ![what] = @ + 1] \in PieceCounts /\ [p EXCEPT !.anchor = TRUE] \in PieceCounts
<1>1. what \in {"correct", "wrong", "verified", "contradicted", "inconclusive", "asked"}
  BY DEF Report!NoPieces
<1>2. [p EXCEPT !.anchor = TRUE] \in PieceCounts
  BY DEF PieceCounts
<1>3. CASE what = "correct"
  BY <1>2, <1>3 DEF PieceCounts
<1>4. CASE what = "wrong"
  BY <1>2, <1>4 DEF PieceCounts
<1>5. CASE what = "verified"
  BY <1>2, <1>5 DEF PieceCounts
<1>6. CASE what = "contradicted"
  BY <1>2, <1>6 DEF PieceCounts
<1>7. CASE what = "inconclusive"
  BY <1>2, <1>7 DEF PieceCounts
<1>8. CASE what = "asked"
  BY <1>2, <1>8 DEF PieceCounts
<1> QED
  BY <1>1, <1>3, <1>4, <1>5, <1>6, <1>7, <1>8

LEMMA ReportsKeepTypes == ASSUME ReportBounds, ReportTypes, [Report!Next]_Report!vars PROVE ReportTypes'
<1>1. CASE UNCHANGED Report!vars
  BY <1>1 DEF ReportTypes, Report!vars
<1>2. ASSUME NEW t \in DOMAIN Report!Turns, Report!Turn(t) PROVE ReportTypes'
  <2>1. Report!Turns[t] \in ReportedTurns
    BY TurnsAreSaid
  <2> QED
    BY <1>2, <2>1 DEF ReportTypes, Report!Turn
<1>3. ASSUME NEW c \in Requirements, Report!Anchor(c) PROVE ReportTypes'
  <2>1. pieces' = [pieces EXCEPT ![c] = [pieces[c] EXCEPT !.anchor = TRUE]]
    BY <1>3 DEF Report!Anchor, ReportTypes
  <2>2. [pieces[c] EXCEPT !.anchor = TRUE] \in PieceCounts
    BY DEF ReportTypes, PieceCounts
  <2>3. UNCHANGED <<leg, turns, counts, seen, periods>>
    BY <1>3 DEF Report!Anchor
  <2> QED
    BY <2>1, <2>2, <2>3 DEF ReportTypes
<1>4. ASSUME NEW c \in Requirements, NEW what \in DOMAIN Report!NoPieces \ {"anchor"}, Report!Piece(c, what) PROVE ReportTypes'
  <2>1. pieces' = [pieces EXCEPT ![c] = [pieces[c] EXCEPT ![what] = @ + 1]]
    BY <1>4 DEF Report!Piece, ReportTypes
  <2>2. [pieces[c] EXCEPT ![what] = @ + 1] \in PieceCounts
    BY PiecesAreCounted DEF ReportTypes
  <2>3. UNCHANGED <<leg, turns, counts, seen, periods>>
    BY <1>4 DEF Report!Piece
  <2> QED
    BY <2>1, <2>2, <2>3 DEF ReportTypes
<1>5. ASSUME NEW e \in Events, Report!Event(e) PROVE ReportTypes'
  BY <1>5 DEF ReportTypes, Report!Event
<1>6. ASSUME NEW n \in DOMAIN Indicators, NEW sign \in Report!Readings, Report!Observe(n, sign) PROVE ReportTypes'
  BY <1>6 DEF ReportTypes, Report!Observe
<1>7. ASSUME NEW start \in Months, NEW end \in Months, Report!Role(start, end) PROVE ReportTypes'
  BY <1>7 DEF ReportTypes, Report!Role
<1> QED
  BY <1>1, <1>2, <1>3, <1>4, <1>5, <1>6, <1>7 DEF Report!Next

-----------------------------------------------------------------------------
(* The coverage of the requirements.                                         *)

LEMMA ClassifyIsOne == \A p \in PieceCounts : Report!Classify(p) \in {"proven", "failed", "insufficient"}
BY DEF Report!Classify

LEMMA RowsHold ==
    ASSUME ReportBounds, ReportTypes, NEW c \in Requirements, NEW claimed \in BOOLEAN, NEW unheard \in BOOLEAN
    PROVE  LET row == Report!Row(c, claimed, unheard)
           IN  /\ row.untestedCause \in {"no_probe_slot", "resume_silent"} => row.movement = "undemonstrated"
               /\ row.movement = "weaker" /\ row.resume # "verified" => row.bucket = "failed"
               /\ row.underpowered => row.bucket # "failed"
               /\ row.bucket = "proven" /\ row.assessment = "contradicted" => pieces[c].verified > 0 /\ row.interview # "contradicted"
<1>1. PICK p \in PieceCounts : p = pieces[c]
  BY DEF ReportTypes
<1>2. p = [correct |-> p.correct, wrong |-> p.wrong, verified |-> p.verified, contradicted |-> p.contradicted,
           inconclusive |-> p.inconclusive, asked |-> p.asked, anchor |-> p.anchor]
  BY DEF PieceCounts
<1>3. /\ p.correct \in Nat /\ p.wrong \in Nat /\ p.verified \in Nat /\ p.contradicted \in Nat /\ p.inconclusive \in Nat
      /\ p.asked \in Nat /\ p.anchor \in BOOLEAN
  BY DEF PieceCounts
<1>4. PICK s : s = Resume[c] /\ s \in {"contradicted", "absent", "untested", "partial", "verified"}
  BY DEF ReportBounds, Report!Support
<1>5. PICK to : to = Report!InterviewCell(p)
  OBVIOUS
<1>6. to \in {"contradicted", "untested", "partial", "verified"} /\ (to = "contradicted" => p.contradicted > 0)
  BY <1>3, <1>5 DEF Report!InterviewCell
<1>9. Report!UntestedCause(p, claimed, unheard) \in {"no_probe_slot", "resume_silent"} => to = "untested"
  <2> SUFFICES ASSUME Report!UntestedCause(p, claimed, unheard) \in {"no_probe_slot", "resume_silent"} PROVE to = "untested"
    OBVIOUS
  <2>1. p.verified + p.contradicted + p.inconclusive = 0 /\ p.asked = 0 /\ ~p.anchor
    BY <1>3 DEF Report!UntestedCause
  <2>2. p.verified = 0 /\ p.contradicted = 0 /\ p.inconclusive = 0
    BY <1>3, <2>1
  <2> QED
    BY <1>5, <2>1, <2>2 DEF Report!InterviewCell
<1>10. /\ Report!Support["contradicted"] = 0 /\ Report!Support["absent"] = 1 /\ Report!Support["untested"] = 1
       /\ Report!Support["partial"] = 2 /\ Report!Support["verified"] = 3
  BY DEF Report!Support
<1>11. Report!LegMovement(c, p) = (IF to = "untested" THEN "undemonstrated" ELSE IF Report!Support[to] > Report!Support[s] THEN "stronger"
                                  ELSE IF Report!Support[to] < Report!Support[s] THEN "weaker" ELSE "held")
  BY <1>4, <1>5 DEF Report!LegMovement
<1>12. Report!LegMovement(c, p) = "weaker" /\ s # "verified" => Report!Classify(p) = "failed"
  <2> SUFFICES ASSUME Report!LegMovement(c, p) = "weaker", s # "verified" PROVE Report!Classify(p) = "failed"
    OBVIOUS
  <2>1. to # "untested" /\ Report!Support[to] < Report!Support[s]
    BY <1>11
  <2>2. Report!Support[s] \in {0, 1, 2} /\ to # "partial" /\ to # "verified"
    BY <1>4, <1>10, <2>1
  <2>3. to = "contradicted"
    BY <1>6, <2>1, <2>2
  <2> QED
    BY <1>6, <2>3 DEF Report!Classify
<1>7. p.correct + p.wrong \in 1 .. 3 /\ p.verified + p.contradicted + p.inconclusive = 0 => Report!Classify(p) # "failed"
  <2> SUFFICES ASSUME p.correct + p.wrong \in 1 .. 3, p.verified + p.contradicted + p.inconclusive = 0 PROVE Report!Classify(p) # "failed"
    OBVIOUS
  <2>0. \A x \in Nat, y \in Nat, z \in Nat : x + y + z = 0 => x = 0 /\ y = 0
    OBVIOUS
  <2>1. p.verified = 0 /\ p.contradicted = 0
    BY <1>3, <2>0
  <2>2. p.correct + p.wrong <= 3
    BY <1>3
  <2>3. ~(p.correct + p.wrong >= 4)
    BY <1>3, <2>2
  <2> QED
    BY <2>1, <2>3 DEF Report!Classify
<1>8. Report!Classify(p) = "proven" /\ Report!AssessmentCell(p) = "contradicted" => p.verified > 0 /\ Report!InterviewCell(p) # "contradicted"
  BY <1>3 DEF Report!Classify, Report!AssessmentCell, Report!InterviewCell
<1>13. PICK row : row = Report!Row(c, claimed, unheard)
  OBVIOUS
<1>14. /\ row.untestedCause = Report!UntestedCause(p, claimed, unheard) /\ row.movement = Report!LegMovement(c, p) /\ row.resume = s
       /\ row.bucket = Report!Classify(p) /\ row.assessment = Report!AssessmentCell(p) /\ row.interview = Report!InterviewCell(p)
       /\ row.underpowered <=> p.correct + p.wrong \in 1 .. 3 /\ p.verified + p.contradicted + p.inconclusive = 0
  BY <1>1, <1>4, <1>13 DEF Report!Row
<1>15. row.untestedCause \in {"no_probe_slot", "resume_silent"} => row.movement = "undemonstrated"
  BY <1>9, <1>11, <1>14
<1>16. row.movement = "weaker" /\ row.resume # "verified" => row.bucket = "failed"
  BY <1>12, <1>14
<1>17. row.underpowered => row.bucket # "failed"
  BY <1>7, <1>14
<1>18. row.bucket = "proven" /\ row.assessment = "contradicted" => pieces[c].verified > 0 /\ row.interview # "contradicted"
  BY <1>1, <1>8, <1>14
<1> QED
  BY <1>13, <1>15, <1>16, <1>17, <1>18


(* The weight of a bucket is that of its requirements, in hundredths.        *)
LEMMA BucketsAreWeighed ==
    ASSUME ReportBounds, ReportTypes, NEW bucket
    PROVE  /\ Report!WeightOf(bucket) \in Nat
           /\ \A c \in Requirements : Report!Classify(pieces[c]) = bucket /\ Weight[c] >= 5 => Report!WeightOf(bucket) >= 1
<1> DEFINE S == {c \in Requirements : Report!Classify(pieces[c]) = bucket}
<1>1. IsFiniteSet(S)
  BY FS_Subset DEF ReportBounds
<1>2. Whole(S, Weight) /\ \A c \in S : Weight[c] >= 0
  BY DEF ReportBounds, Whole
<1>3. Report!WeightOf(bucket) = (2 * SumOver(S, Weight) + 10) \div 20
  BY DEF Report!WeightOf, Report!HalfUp, Report!MapThenSumSet, Report!MapThenFoldSet, SumOver, MapThenSumSet, MapThenFoldSet
<1> HIDE DEF S
<1>4. PICK sum \in Nat : sum = SumOver(S, Weight) /\ \A c \in S : Weight[c] <= sum
  <2>1. SumOver(S, Weight) \in Nat
    BY <1>1, <1>2, SumIsNatural
  <2>2. \A c \in S : Weight[c] <= SumOver(S, Weight)
    BY <1>1, <1>2, PartIsLess
  <2> QED
    BY <2>1, <2>2
<1>5. (2 * sum + 10) \div 20 \in Nat /\ (sum >= 5 => (2 * sum + 10) \div 20 >= 1)
  OBVIOUS
<1>6. \A c \in Requirements : Report!Classify(pieces[c]) = bucket /\ Weight[c] >= 5 => sum >= 5
  BY <1>4 DEF S, ReportBounds
<1> QED
  BY <1>3, <1>4, <1>5, <1>6


-----------------------------------------------------------------------------
(* The shares of the buckets: the floors leave at most two points, which go to
   the largest fractions, and these are not nothing.                         *)

LEMMA CardinalityOfTwo ==
    ASSUME NEW a, NEW b, a # b, NEW T, T \subseteq {a, b}
    PROVE  Cardinality(T) = (IF a \in T THEN 1 ELSE 0) + (IF b \in T THEN 1 ELSE 0)
<1>1. T = {} \/ T = {a} \/ T = {b} \/ T = {a, b}
  OBVIOUS
<1>2. Cardinality({}) = 0 /\ Cardinality({a}) = 1 /\ Cardinality({b}) = 1
  BY FS_EmptySet, FS_Singleton
<1>3. Cardinality({a} \cup {b}) = 2
  <2>1. IsFiniteSet({a}) /\ b \notin {a}
    BY FS_Singleton
  <2>2. Cardinality({a} \cup {b}) = Cardinality({a}) + 1
    BY <2>1, FS_AddElement
  <2> QED
    BY <1>2, <2>2
<1>4. {a} \cup {b} = {a, b}
  OBVIOUS
<1>5. CASE T = {}
  BY <1>2, <1>5
<1>6. CASE T = {a}
  BY <1>2, <1>6
<1>7. CASE T = {b}
  BY <1>2, <1>7
<1>8. CASE T = {a, b}
  BY <1>3, <1>4, <1>8
<1> QED
  BY <1>1, <1>5, <1>6, <1>7, <1>8

(* How many of the three fractions come before one of them, and whether that
   one is given a point.                                                     *)
Above(x, y) == IF x > y THEN 1 ELSE 0
NotBelow(x, y) == IF x >= y THEN 1 ELSE 0
Point(before, left) == IF before < left THEN 1 ELSE 0
Comes(frac, i) == Cardinality({j \in 1 .. 3 : frac[j] > frac[i] \/ (frac[j] = frac[i] /\ j < i)})

LEMMA WhatComesFirst ==
    ASSUME NEW frac \in [1 .. 3 -> Nat]
    PROVE  /\ Comes(frac, 1) = Above(frac[2], frac[1]) + Above(frac[3], frac[1])
           /\ Comes(frac, 2) = NotBelow(frac[1], frac[2]) + Above(frac[3], frac[2])
           /\ Comes(frac, 3) = NotBelow(frac[1], frac[3]) + NotBelow(frac[2], frac[3])
<1> DEFINE T(i) == {j \in 1 .. 3 : frac[j] > frac[i] \/ (frac[j] = frac[i] /\ j < i)}
<1>0. 1 .. 3 = {1, 2, 3} /\ frac[1] \in Nat /\ frac[2] \in Nat /\ frac[3] \in Nat
  OBVIOUS
<1>1. T(1) \subseteq {2, 3} /\ (2 \in T(1) <=> frac[2] > frac[1]) /\ (3 \in T(1) <=> frac[3] > frac[1])
  BY <1>0
<1>2. T(2) \subseteq {1, 3} /\ (1 \in T(2) <=> frac[1] >= frac[2]) /\ (3 \in T(2) <=> frac[3] > frac[2])
  BY <1>0
<1>3. T(3) \subseteq {1, 2} /\ (1 \in T(3) <=> frac[1] >= frac[3]) /\ (2 \in T(3) <=> frac[2] >= frac[3])
  BY <1>0
<1>4. Comes(frac, 1) = Cardinality(T(1)) /\ Comes(frac, 2) = Cardinality(T(2)) /\ Comes(frac, 3) = Cardinality(T(3))
  BY DEF Comes
<1> HIDE DEF T
<1>5. Cardinality(T(1)) = (IF 2 \in T(1) THEN 1 ELSE 0) + (IF 3 \in T(1) THEN 1 ELSE 0)
  BY <1>1, CardinalityOfTwo
<1>6. Cardinality(T(2)) = (IF 1 \in T(2) THEN 1 ELSE 0) + (IF 3 \in T(2) THEN 1 ELSE 0)
  BY <1>2, CardinalityOfTwo
<1>7. Cardinality(T(3)) = (IF 1 \in T(3) THEN 1 ELSE 0) + (IF 2 \in T(3) THEN 1 ELSE 0)
  BY <1>3, CardinalityOfTwo
<1> QED
  BY <1>1, <1>2, <1>3, <1>4, <1>5, <1>6, <1>7 DEF Above, NotBelow

(* Three fractions that are left points of the sum together.                 *)
LEMMA PointsGoRound ==
    ASSUME NEW sum \in Nat, sum >= 1, NEW f1 \in Nat, NEW f2 \in Nat, NEW f3 \in Nat, f1 < sum, f2 < sum, f3 < sum,
           NEW left \in Int, sum * left = f1 + f2 + f3, NEW u1, NEW u2, NEW u3,
           u1 = Point(Above(f2, f1) + Above(f3, f1), left),
           u2 = Point(NotBelow(f1, f2) + Above(f3, f2), left),
           u3 = Point(NotBelow(f1, f3) + NotBelow(f2, f3), left)
    PROVE  /\ u1 \in {0, 1} /\ u2 \in {0, 1} /\ u3 \in {0, 1} /\ u1 + u2 + u3 = left
           /\ (u1 = 1 => f1 > 0) /\ (u2 = 1 => f2 > 0) /\ (u3 = 1 => f3 > 0)
<1>1. left >= 0
  <2> SUFFICES ASSUME left <= -1 PROVE FALSE
    OBVIOUS
  <2>1. sum * left <= sum * (-1)
    BY NoLess
  <2> QED
    BY <2>1
<1>2. left <= 2
  <2> SUFFICES ASSUME 3 <= left PROVE FALSE
    OBVIOUS
  <2>1. sum * 3 <= sum * left
    BY NoLess
  <2> QED
    BY <2>1
<1>3. CASE left = 0
  BY <1>3 DEF Above, NotBelow, Point
<1>4. CASE left = 1
  <2>1. f1 + f2 + f3 = sum
    BY <1>4
  <2> QED
    BY <1>4, <2>1 DEF Above, NotBelow, Point
<1>5. CASE left = 2
  <2>1. f1 + f2 + f3 = 2 * sum
    BY <1>5
  <2> QED
    BY <1>5, <2>1 DEF Above, NotBelow, Point
<1> QED
  BY <1>1, <1>2, <1>3, <1>4, <1>5

(* A bucket's floor and fraction make up its share.                          *)
LEMMA ShareIs ==
    ASSUME NEW w \in Nat, NEW sum \in Nat, sum >= 1
    PROVE  /\ (100 * w) \div sum \in Int /\ (100 * w) % sum \in Nat /\ (100 * w) % sum < sum
           /\ 100 * w = sum * ((100 * w) \div sum) + ((100 * w) % sum)
<1>1. \A n \in Nat : n \div sum \in Int /\ n % sum \in Nat /\ n % sum < sum /\ n = sum * (n \div sum) + (n % sum)
  <2> SUFFICES ASSUME NEW n \in Nat PROVE n \div sum \in Int /\ n % sum \in Nat /\ n % sum < sum /\ n = sum * (n \div sum) + (n % sum)
    OBVIOUS
  <2>1. n \div sum \in Int /\ n % sum \in Nat /\ n % sum < sum
    OBVIOUS
  <2>2. n = sum * (n \div sum) + (n % sum)
    OBVIOUS
  <2> QED
    BY <2>1, <2>2
<1>2. 100 * w \in Nat
  OBVIOUS
<1> QED
  BY <1>1, <1>2

LEMMA SharesAreRight ==
    ASSUME ReportBounds, ReportTypes
    PROVE  LET sum == Report!WeightOf("proven") + Report!WeightOf("failed") + Report!WeightOf("insufficient")
           IN  /\ Report!BucketPercents[1] + Report!BucketPercents[2] + Report!BucketPercents[3] = 100
               /\ \A i \in 1 .. 3 : (Report!BucketPercents[i] * sum - 100 * Report!WeightOf(Report!Buckets[i])) \in (1 - sum) .. (sum - 1)
<1>1. PICK w : w = [i \in 1 .. 3 |-> Report!WeightOf(Report!Buckets[i])]
  OBVIOUS
<1>2. /\ Report!Buckets[1] = "proven" /\ Report!Buckets[2] = "failed" /\ Report!Buckets[3] = "insufficient"
  BY DEF Report!Buckets
<1>3. /\ w \in [1 .. 3 -> Nat] /\ w[1] \in Nat /\ w[2] \in Nat /\ w[3] \in Nat
      /\ w[1] = Report!WeightOf("proven") /\ w[2] = Report!WeightOf("failed") /\ w[3] = Report!WeightOf("insufficient")
  BY <1>1, <1>2, BucketsAreWeighed
<1>4. PICK sum \in Nat : sum = w[1] + w[2] + w[3] /\ sum >= 1
  <2>1. PICK c \in Requirements : Weight[c] >= 5
    BY DEF ReportBounds
  <2>2. Report!Classify(pieces[c]) \in {"proven", "failed", "insufficient"}
    BY ClassifyIsOne DEF ReportTypes
  <2>3. Report!WeightOf(Report!Classify(pieces[c])) >= 1
    BY <2>1, BucketsAreWeighed
  <2>4. w[1] >= 1 \/ w[2] >= 1 \/ w[3] >= 1
    BY <1>3, <2>2, <2>3
  <2> QED
    BY <1>3, <2>4
<1>5. PICK floor : floor = [i \in 1 .. 3 |-> (100 * w[i]) \div sum]
  OBVIOUS
<1>6. PICK frac : frac = [i \in 1 .. 3 |-> (100 * w[i]) % sum]
  OBVIOUS
<1>7. \A i \in 1 .. 3 : floor[i] \in Int /\ frac[i] \in Nat /\ frac[i] < sum /\ 100 * w[i] = sum * floor[i] + frac[i]
  <2> SUFFICES ASSUME NEW i \in 1 .. 3
               PROVE floor[i] \in Int /\ frac[i] \in Nat /\ frac[i] < sum /\ 100 * w[i] = sum * floor[i] + frac[i]
    OBVIOUS
  <2>1. w[i] \in Nat /\ floor[i] = (100 * w[i]) \div sum /\ frac[i] = (100 * w[i]) % sum
    BY <1>3, <1>5, <1>6
  <2>2. \A v \in Nat : /\ (100 * v) \div sum \in Int /\ (100 * v) % sum \in Nat /\ (100 * v) % sum < sum
                      /\ 100 * v = sum * ((100 * v) \div sum) + ((100 * v) % sum)
    BY <1>4, ShareIs, ZenonT(40)
  <2>3. /\ (100 * w[i]) \div sum \in Int /\ (100 * w[i]) % sum \in Nat /\ (100 * w[i]) % sum < sum
        /\ 100 * w[i] = sum * ((100 * w[i]) \div sum) + ((100 * w[i]) % sum)
    BY <2>1, <2>2
  <2> QED
    BY <2>1, <2>3, Zenon
<1>8. PICK left \in Int : left = 100 - (floor[1] + floor[2] + floor[3])
  BY <1>7
<1>9. Report!BucketPercents = [i \in 1 .. 3 |-> floor[i] + Point(Comes(frac, i), left)]
  <2>1. Report!BucketPercents =
          IF w[1] + w[2] + w[3] = 0 THEN [i \in 1 .. 3 |-> 0]
          ELSE [i \in 1 .. 3 |-> floor[i] + IF Report!Cardinality({j \in 1 .. 3 : frac[j] > frac[i] \/ (frac[j] = frac[i] /\ j < i)}) < left
                                            THEN 1 ELSE 0]
    BY <1>1, <1>4, <1>5, <1>6, <1>8 DEF Report!BucketPercents
  <2>2. \A i \in 1 .. 3 : Comes(frac, i) = Report!Cardinality({j \in 1 .. 3 : frac[j] > frac[i] \/ (frac[j] = frac[i] /\ j < i)})
    BY ReportCounts DEF Comes
  <2> QED
    BY <1>4, <2>1, <2>2 DEF Point
<1>10. PICK f1 \in Nat, f2 \in Nat, f3 \in Nat : f1 = frac[1] /\ f2 = frac[2] /\ f3 = frac[3] /\ f1 < sum /\ f2 < sum /\ f3 < sum
  BY <1>7
<1>11. PICK a1 \in Int, a2 \in Int, a3 \in Int : a1 = floor[1] /\ a2 = floor[2] /\ a3 = floor[3]
  BY <1>7
<1>12. 100 * w[1] = sum * a1 + f1 /\ 100 * w[2] = sum * a2 + f2 /\ 100 * w[3] = sum * a3 + f3
  BY <1>7, <1>10, <1>11
<1>13. sum * left = f1 + f2 + f3
  <2>1. left = 100 - (a1 + a2 + a3)
    BY <1>8, <1>11
  <2>2. sum * (100 - (a1 + a2 + a3)) = sum * 100 - (sum * a1 + sum * a2 + sum * a3)
    OBVIOUS
  <2>3. sum * a1 \in Int /\ sum * a2 \in Int /\ sum * a3 \in Int
    OBVIOUS
  <2>4. sum * 100 = 100 * w[1] + 100 * w[2] + 100 * w[3]
    BY <1>3, <1>4
  <2> QED
    BY <1>3, <1>4, <1>12, <2>1, <2>2, <2>3, <2>4
<1>14. PICK u1, u2, u3 : /\ u1 = Point(Above(f2, f1) + Above(f3, f1), left) /\ u2 = Point(NotBelow(f1, f2) + Above(f3, f2), left)
                         /\ u3 = Point(NotBelow(f1, f3) + NotBelow(f2, f3), left)
  OBVIOUS
<1>15. /\ u1 \in {0, 1} /\ u2 \in {0, 1} /\ u3 \in {0, 1} /\ u1 + u2 + u3 = left
       /\ (u1 = 1 => f1 > 0) /\ (u2 = 1 => f2 > 0) /\ (u3 = 1 => f3 > 0)
  <2>1. sum >= 1 /\ f1 < sum /\ f2 < sum /\ f3 < sum
    BY <1>4, <1>10
  <2> QED
    BY <1>13, <1>14, <2>1, PointsGoRound
<1>16. frac \in [1 .. 3 -> Nat]
  BY <1>6, <1>7
<1>17. /\ Comes(frac, 1) = Above(f2, f1) + Above(f3, f1) /\ Comes(frac, 2) = NotBelow(f1, f2) + Above(f3, f2)
       /\ Comes(frac, 3) = NotBelow(f1, f3) + NotBelow(f2, f3)
  BY <1>10, <1>16, WhatComesFirst
<1>18. Report!BucketPercents[1] = a1 + u1 /\ Report!BucketPercents[2] = a2 + u2 /\ Report!BucketPercents[3] = a3 + u3
  BY <1>9, <1>11, <1>14, <1>17
<1>19. Report!BucketPercents[1] + Report!BucketPercents[2] + Report!BucketPercents[3] = 100
  BY <1>8, <1>11, <1>15, <1>18
<1>20. \A a \in Int, u \in {0, 1}, f \in Nat, v \in Nat : 100 * v = sum * a + f /\ f < sum /\ (u = 1 => f > 0)
         => (a + u) * sum - 100 * v \in (1 - sum) .. (sum - 1)
  <2> SUFFICES ASSUME NEW a \in Int, NEW u \in {0, 1}, NEW f \in Nat, NEW v \in Nat, 100 * v = sum * a + f, f < sum, u = 1 => f > 0
               PROVE (a + u) * sum - 100 * v \in (1 - sum) .. (sum - 1)
    OBVIOUS
  <2>1. sum * a \in Int /\ (a + u) * sum = sum * a + u * sum /\ (u = 0 => u * sum = 0) /\ (u = 1 => u * sum = sum)
    OBVIOUS
  <2>2. (a + u) * sum - 100 * v = u * sum - f
    BY <2>1
  <2>3. u * sum - f >= 1 - sum /\ u * sum - f <= sum - 1 /\ u * sum - f \in Int
    BY <2>1
  <2> QED
    BY <2>2, <2>3
<1>21. \A i \in 1 .. 3 : (Report!BucketPercents[i] * sum - 100 * Report!WeightOf(Report!Buckets[i])) \in (1 - sum) .. (sum - 1)
  <2>1. /\ (a1 + u1) * sum - 100 * w[1] \in (1 - sum) .. (sum - 1)
        /\ (a2 + u2) * sum - 100 * w[2] \in (1 - sum) .. (sum - 1)
        /\ (a3 + u3) * sum - 100 * w[3] \in (1 - sum) .. (sum - 1)
    BY <1>3, <1>10, <1>12, <1>15, <1>20
  <2>2. \A i \in 1 .. 3 : i = 1 \/ i = 2 \/ i = 3
    OBVIOUS
  <2> QED
    BY <1>2, <1>3, <1>18, <2>1, <2>2
<1> QED
  BY <1>3, <1>4, <1>19, <1>21

LEMMA SharesAlwaysAddUp == ASSUME ReportBounds, ReportTypes PROVE Report!SharesAddUp
BY SharesAreRight, RowsHold DEF Report!SharesAddUp


-----------------------------------------------------------------------------
(* The interview's verdict.                                                  *)

(* What the verdict is computed from: the turns by what they are.            *)
Such(ts, Good) == {i \in DOMAIN ts : ts[i] \in Good}
Attempted == {t \in ReportedTurns : ~t.declined}
Responsive == {t \in ReportedTurns : ~t.declined /\ t.responsive}

LEMMA FlaggedIsCounted ==
    ASSUME NEW ts \in Seq(ReportedTurns), NEW marks
    PROVE  /\ Report!Flagged(ts, marks) \in Nat
           /\ Report!Flagged(ts, marks) = Cardinality({i \in DOMAIN ts : ts[i].flags \cap marks # {}})
           /\ Report!Flagged(ts, marks) = 0 <=> \A i \in DOMAIN ts : ts[i].flags \cap marks = {}
           /\ Report!Flagged(ts, marks) <= Len(ts)
<1> DEFINE S == {i \in DOMAIN ts : ts[i].flags \cap marks # {}}
<1>1. Report!Flagged(ts, marks) = Cardinality(S)
  BY ReportCounts DEF Report!Flagged
<1>2. IsFiniteSet(DOMAIN ts) /\ Cardinality(DOMAIN ts) = Len(ts) /\ S \subseteq DOMAIN ts
  <2>1. DOMAIN ts = 1 .. Len(ts) /\ Len(ts) \in Nat
    OBVIOUS
  <2>2. IsFiniteSet(1 .. Len(ts)) /\ Cardinality(1 .. Len(ts)) = Len(ts)
    BY <2>1, FS_Interval
  <2> QED
    BY <2>1, <2>2
<1>3. IsFiniteSet(S) /\ Cardinality(S) <= Len(ts) /\ Cardinality(S) \in Nat
  BY <1>2, FS_Subset, FS_CardinalityType
<1>4. Cardinality(S) = 0 <=> S = {}
  BY <1>3, FS_EmptySet
<1> QED
  BY <1>1, <1>3, <1>4

LEMMA SubstanceIsCounted ==
    ASSUME NEW ts \in Seq(ReportedTurns)
    PROVE  /\ Report!ComputeAnswerSubstance(ts).responsive = Cardinality(Such(ts, Responsive))
           /\ Report!ComputeAnswerSubstance(ts).total = Cardinality(Such(ts, Attempted))
           /\ Report!ComputeAnswerSubstance(ts).declined = Len(ts) - Cardinality(Such(ts, Attempted))
           /\ Cardinality(Such(ts, Responsive)) \in Nat /\ Cardinality(Such(ts, Attempted)) \in Nat
           /\ Cardinality(Such(ts, Attempted)) = 0 <=> Such(ts, Attempted) = {}
<1>1. DOMAIN ts = 1 .. Len(ts) /\ Len(ts) \in Nat /\ IsFiniteSet(DOMAIN ts) /\ \A i \in DOMAIN ts : ts[i] \in ReportedTurns
  <2>1. DOMAIN ts = 1 .. Len(ts) /\ Len(ts) \in Nat /\ \A i \in DOMAIN ts : ts[i] \in ReportedTurns
    OBVIOUS
  <2> QED
    BY <2>1, FS_Interval
<1>2. IsFiniteSet(Such(ts, Responsive)) /\ IsFiniteSet(Such(ts, Attempted))
  BY <1>1, FS_Subset DEF Such
<1>3. {i \in DOMAIN ts : ~ts[i].declined} = Such(ts, Attempted)
  BY <1>1 DEF Such, Attempted
<1>4. {i \in Such(ts, Attempted) : ts[i].responsive} = Such(ts, Responsive)
  BY <1>1 DEF Such, Attempted, Responsive
<1>5. Report!ComputeAnswerSubstance(ts) =
        [responsive |-> Cardinality(Such(ts, Responsive)), total |-> Cardinality(Such(ts, Attempted)), declined |-> Len(ts) - Cardinality(Such(ts, Attempted))]
  BY <1>3, <1>4, ReportCounts DEF Report!ComputeAnswerSubstance
<1> QED
  BY <1>2, <1>5, FS_CardinalityType, FS_EmptySet

(* Two interviews the verdict does not tell apart.                           *)
LEMMA VerdictsAgree ==
    ASSUME NEW ts \in Seq(ReportedTurns), NEW us \in Seq(ReportedTurns), NEW ending, NEW ran, NEW overall,
           (Report!AudioUnreliable(ts) /\ Report!AudioUnreliable(us)) \/ ~(Report!AudioUnreliable(ts) \/ Report!AudioUnreliable(us)),
           Cardinality(Such(ts, Responsive)) = Cardinality(Such(us, Responsive)),
           Cardinality(Such(ts, Attempted)) = Cardinality(Such(us, Attempted)),
           Cardinality(Such(ts, Attempted)) # 0 \/ Len(ts) = Len(us)
    PROVE  Report!ComputeVerdict(ts, ending, ran, overall) = Report!ComputeVerdict(us, ending, ran, overall)
<1>1. Report!ComputeSessionQuality(ts).audioUnreliable = Report!AudioUnreliable(ts) /\ Report!ComputeSessionQuality(us).audioUnreliable = Report!AudioUnreliable(us)
  BY DEF Report!ComputeSessionQuality
<1>2. PICK a, b : a = Report!ComputeAnswerSubstance(ts) /\ b = Report!ComputeAnswerSubstance(us)
  OBVIOUS
<1>3. a.responsive = b.responsive /\ a.total = b.total /\ (a.total # 0 \/ a.declined = b.declined)
  BY <1>2, SubstanceIsCounted
<1>4. CASE ending \in Report!Endings \ {"completed"} \/ Report!AudioUnreliable(ts)
  BY <1>1, <1>4 DEF Report!ComputeVerdict
<1>5. CASE ~(ending \in Report!Endings \ {"completed"} \/ Report!AudioUnreliable(ts)) /\ a.total = 0
  BY <1>1, <1>2, <1>3, <1>5 DEF Report!ComputeVerdict
<1>6. CASE ~(ending \in Report!Endings \ {"completed"} \/ Report!AudioUnreliable(ts)) /\ a.total # 0
  BY <1>1, <1>2, <1>3, <1>6 DEF Report!ComputeVerdict
<1> QED
  BY <1>4, <1>5, <1>6

(* HeardEnough: no connection lost, and two in five answers unheard at most. *)
HeardEnough(ts) == Report!Flagged(ts, {"connection_dropped"}) = 0 /\ 5 * Report!Flagged(ts, Report!Unheard) <= 2 * Len(ts)

LEMMA ReliableIsHeard == ASSUME NEW ts \in Seq(ReportedTurns), ~Report!AudioUnreliable(ts) PROVE HeardEnough(ts)
<1>0. /\ Report!Flagged(ts, {"connection_dropped"}) \in Nat /\ Report!Flagged(ts, Report!Unheard) \in Nat /\ Len(ts) \in Nat
      /\ Report!Flagged(ts, Report!Unheard) <= Len(ts)
  <2>1. \A marks : Report!Flagged(ts, marks) \in Nat /\ Report!Flagged(ts, marks) <= Len(ts)
    BY FlaggedIsCounted
  <2>2. Len(ts) \in Nat
    OBVIOUS
  <2> QED
    BY <2>1, <2>2
<1>1. PICK a \in Nat, b \in Nat, n \in Nat : a = Report!Flagged(ts, {"connection_dropped"}) /\ b = Report!Flagged(ts, Report!Unheard) /\ n = Len(ts) /\ b <= n
  BY <1>0
<1>2. ~(a > 0) /\ (ts # <<>> => ~(10 * b >= 4 * n))
  BY <1>1 DEF Report!AudioUnreliable
<1>3. ts = <<>> => n = 0
  BY <1>1
<1>4. a = 0 /\ 5 * b <= 2 * n
  BY <1>1, <1>2, <1>3
<1> QED
  BY <1>1, <1>4 DEF HeardEnough

LEMMA RejectedWereHeard ==
    ASSUME NEW ts \in Seq(ReportedTurns), NEW ending \in Report!Endings, NEW ran, NEW overall,
           Report!ComputeVerdict(ts, ending, ran, overall) = "CLEAR_REJECT"
    PROVE  ending = "completed" /\ (ts = <<>> \/ Such(ts, Attempted) # {}) /\ HeardEnough(ts) /\ ~Report!AudioUnreliable(ts)
<1>1. Report!ComputeSessionQuality(ts).audioUnreliable = Report!AudioUnreliable(ts)
  BY DEF Report!ComputeSessionQuality
<1>2. ending = "completed" /\ ~Report!AudioUnreliable(ts)
  BY <1>1 DEF Report!ComputeVerdict
<1>3. PICK a : a = Report!ComputeAnswerSubstance(ts)
  OBVIOUS
<1>4. a.total = 0 => ~(a.declined > 0)
  BY <1>1, <1>2, <1>3 DEF Report!ComputeVerdict
<1>5. PICK n \in Nat, m \in Nat : n = Len(ts) /\ m = Cardinality(Such(ts, Attempted)) /\ a.total = m /\ a.declined = n - m /\ (m = 0 <=> Such(ts, Attempted) = {})
  BY <1>3, SubstanceIsCounted
<1>6. m = 0 => n = 0
  BY <1>4, <1>5
<1>7. n = 0 => ts = <<>>
  <2>1. Len(ts) = 0 => ts = <<>>
    OBVIOUS
  <2> QED
    BY <1>5, <2>1
<1> QED
  BY <1>2, <1>5, <1>6, <1>7, ReliableIsHeard


(* Being asked again takes nothing away.                                     *)
Calmed(ts, calm) ==
    /\ calm \in Seq(ReportedTurns) /\ Len(calm) = Len(ts)
    /\ \A i \in DOMAIN ts : /\ calm[i].declined = ts[i].declined /\ calm[i].responsive = ts[i].responsive
                            /\ calm[i].flags = ts[i].flags \ {"asked_to_repeat"}

LEMMA RepeatsAreNothing ==
    ASSUME NEW ts \in Seq(ReportedTurns), NEW calm, Calmed(ts, calm), NEW ending, NEW ran, NEW overall
    PROVE  Report!ComputeVerdict(ts, ending, ran, overall) = Report!ComputeVerdict(calm, ending, ran, overall)
<1>1. /\ DOMAIN ts = 1 .. Len(ts) /\ Len(ts) \in Nat /\ DOMAIN calm = DOMAIN ts /\ calm \in Seq(ReportedTurns) /\ Len(calm) = Len(ts)
      /\ \A i \in DOMAIN ts : /\ calm[i].declined = ts[i].declined /\ calm[i].responsive = ts[i].responsive
                              /\ calm[i].flags = ts[i].flags \ {"asked_to_repeat"}
  BY DEF Calmed
<1>2. Such(ts, Responsive) = Such(calm, Responsive) /\ Such(ts, Attempted) = Such(calm, Attempted)
  <2>1. \A i \in DOMAIN ts : ts[i] \in ReportedTurns /\ calm[i] \in ReportedTurns
    BY <1>1
  <2> QED
    BY <1>1, <2>1 DEF Such, Responsive, Attempted
<1>3. ASSUME NEW marks, "asked_to_repeat" \notin marks PROVE Report!Flagged(ts, marks) = Report!Flagged(calm, marks)
  <2>1. {i \in DOMAIN ts : ts[i].flags \cap marks # {}} = {i \in DOMAIN calm : calm[i].flags \cap marks # {}}
    BY <1>1, <1>3
  <2> QED
    BY <2>1 DEF Report!Flagged
<1>4. /\ Report!Flagged(ts, {"connection_dropped"}) = Report!Flagged(calm, {"connection_dropped"})
      /\ Report!Flagged(ts, {"stalled"}) = Report!Flagged(calm, {"stalled"})
      /\ Report!Flagged(ts, Report!Unheard) = Report!Flagged(calm, Report!Unheard)
  BY <1>3 DEF Report!Unheard
<1>5. ts = <<>> <=> calm = <<>>
  BY <1>1
<1>6. Report!AudioUnreliable(ts) <=> Report!AudioUnreliable(calm)
  BY <1>1, <1>4, <1>5 DEF Report!AudioUnreliable
<1>7. (Report!AudioUnreliable(ts) /\ Report!AudioUnreliable(calm)) \/ ~(Report!AudioUnreliable(ts) \/ Report!AudioUnreliable(calm))
  BY <1>6
<1>8. Cardinality(Such(ts, Responsive)) = Cardinality(Such(calm, Responsive)) /\ Cardinality(Such(ts, Attempted)) = Cardinality(Such(calm, Attempted))
  BY <1>2
<1> QED
  BY <1>1, <1>7, <1>8, VerdictsAgree

LEMMA CalmIsTheSame ==
    ASSUME NEW ts \in Seq(ReportedTurns), NEW calm, calm = [i \in DOMAIN ts |-> [ts[i] EXCEPT !.flags = @ \ {"asked_to_repeat"}]],
           NEW ending, NEW ran, NEW overall
    PROVE  Report!ComputeVerdict(ts, ending, ran, overall) = Report!ComputeVerdict(calm, ending, ran, overall)
<1>1. DOMAIN ts = 1 .. Len(ts) /\ Len(ts) \in Nat /\ \A i \in DOMAIN ts : ts[i] \in ReportedTurns
  OBVIOUS
<1>2. \A t \in ReportedTurns : [t EXCEPT !.flags = t.flags \ {"asked_to_repeat"}] \in ReportedTurns
  BY DEF ReportedTurns
<1>3. \A i \in DOMAIN ts : calm[i] = [ts[i] EXCEPT !.flags = ts[i].flags \ {"asked_to_repeat"}] /\ calm[i] \in ReportedTurns
  BY <1>1, <1>2
<1>4. calm \in [1 .. Len(ts) -> ReportedTurns]
  BY <1>1, <1>3
<1>5. calm \in Seq(ReportedTurns) /\ Len(calm) = Len(ts)
  BY <1>1, <1>4
<1>6. \A i \in DOMAIN ts : /\ calm[i].declined = ts[i].declined /\ calm[i].responsive = ts[i].responsive
                           /\ calm[i].flags = ts[i].flags \ {"asked_to_repeat"}
  BY <1>1, <1>3 DEF ReportedTurns
<1>7. Calmed(ts, calm)
  BY <1>5, <1>6 DEF Calmed
<1> QED
  BY <1>7, RepeatsAreNothing

(* A turn that is not of a kind is not missed among those of the kind.       *)
LEMMA OthersAreAsMany ==
    ASSUME NEW ts \in Seq(ReportedTurns), NEW i \in DOMAIN ts, NEW us \in Seq(ReportedTurns), Len(us) = Len(ts) - 1,
           \A j \in 1 .. Len(us) : us[j] = ts[IF j < i THEN j ELSE j + 1], NEW Good, ts[i] \notin Good
    PROVE  Cardinality(Such(us, Good)) = Cardinality(Such(ts, Good))
<1>1. DOMAIN ts = 1 .. Len(ts) /\ DOMAIN us = 1 .. Len(us) /\ Len(ts) \in Nat /\ Len(us) \in Nat
  OBVIOUS
<1> DEFINE A == Such(us, Good)
           B == Such(ts, Good)
           f == [j \in A |-> IF j < i THEN j ELSE j + 1]
<1>2. \A j \in A : j \in 1 .. Len(us) /\ f[j] = (IF j < i THEN j ELSE j + 1) /\ f[j] \in 1 .. Len(ts) /\ ts[f[j]] = us[j] /\ us[j] \in Good
  BY <1>1 DEF Such
<1>3. \A j \in A : f[j] \in B
  BY <1>1, <1>2 DEF Such
<1>4. f \in [A -> B]
  BY <1>3
<1>5. \A j, k \in A : f[j] = f[k] => j = k
  BY <1>1, <1>2
<1>6. ASSUME NEW k \in B PROVE \E j \in A : f[j] = k
  <2>1. k \in 1 .. Len(ts) /\ ts[k] \in Good /\ k # i
    BY <1>1 DEF Such
  <2>2. CASE k < i
    <3>1. k \in 1 .. Len(us) /\ us[k] = ts[k]
      BY <1>1, <2>1, <2>2
    <3>2. k \in A /\ f[k] = k
      BY <1>1, <2>1, <2>2, <3>1 DEF Such
    <3> QED
      BY <3>2
  <2>3. CASE k > i
    <3>1. k - 1 \in 1 .. Len(us) /\ ~(k - 1 < i) /\ (k - 1) + 1 = k
      BY <1>1, <2>1, <2>3
    <3>2. us[k - 1] = ts[k]
      BY <3>1
    <3>3. k - 1 \in A /\ f[k - 1] = k
      BY <1>1, <2>1, <3>1, <3>2 DEF Such
    <3> QED
      BY <3>3
  <2> QED
    BY <1>1, <2>1, <2>2, <2>3
<1>7. IsFiniteSet(A)
  <2>1. A \subseteq 1 .. Len(us)
    BY <1>1 DEF Such
  <2>2. IsFiniteSet(1 .. Len(us))
    BY <1>1, FS_Interval
  <2> HIDE DEF A
  <2> QED
    BY <2>1, <2>2, FS_Subset
<1> HIDE DEF A, B, f
<1>8. f \in Bijection(A, B)
  BY <1>4, <1>5, <1>6 DEF Bijection, Injection, Surjection, IsInjective
<1>9. ExistsBijection(A, B)
  BY <1>8 DEF ExistsBijection
<1>10. Cardinality(B) = Cardinality(A)
  BY <1>7, <1>9, FS_Bijection
<1> QED
  BY <1>10 DEF A, B

(* Nor does a question that was declined.                                    *)
LEMMA DeclinedIsTheSame ==
    ASSUME NEW ts \in Seq(ReportedTurns), Report!Flagged(ts, Report!Unheard) = 0, Such(ts, Attempted) # {},
           NEW i \in DOMAIN ts, ts[i].declined, NEW us, us = Report!RemoveAt(ts, i), NEW ending, NEW ran, NEW overall
    PROVE  Report!ComputeVerdict(ts, ending, ran, overall) = Report!ComputeVerdict(us, ending, ran, overall)
<1>1. DOMAIN ts = 1 .. Len(ts) /\ Len(ts) \in Nat /\ i \in 1 .. Len(ts) /\ \A j \in DOMAIN ts : ts[j] \in ReportedTurns
  OBVIOUS
<1>2. PICK p, q : p = SubSeq(ts, 1, i - 1) /\ q = SubSeq(ts, i + 1, Len(ts)) /\ us = p \o q
  BY DEF Report!RemoveAt
<1>3. p \in Seq(ReportedTurns) /\ Len(p) = i - 1 /\ \A j \in 1 .. i - 1 : p[j] = ts[j]
  BY <1>1, <1>2
<1>4. q \in Seq(ReportedTurns) /\ Len(q) = Len(ts) - i /\ \A j \in 1 .. Len(ts) - i : q[j] = ts[i + j]
  <2>1. q \in Seq(ReportedTurns) /\ Len(q) = Len(ts) - i
    BY <1>1, <1>2
  <2>2. \A j \in 1 .. Len(ts) - i : q[j] = ts[(i + 1) + j - 1] /\ (i + 1) + j - 1 = i + j
    BY <1>1, <1>2, SMTT(30)
  <2> QED
    BY <2>1, <2>2
<1>5. us \in Seq(ReportedTurns) /\ Len(us) = Len(ts) - 1 /\ \A j \in 1 .. Len(us) : us[j] = (IF j <= i - 1 THEN p[j] ELSE q[j - (i - 1)])
  <2>1. us \in Seq(ReportedTurns) /\ Len(us) = (i - 1) + (Len(ts) - i)
        /\ \A j \in 1 .. (i - 1) + (Len(ts) - i) : us[j] = (IF j <= i - 1 THEN p[j] ELSE q[j - (i - 1)])
    <3>1. /\ p \o q \in Seq(ReportedTurns) /\ Len(p \o q) = Len(p) + Len(q)
          /\ \A j \in 1 .. Len(p) + Len(q) : (p \o q)[j] = (IF j <= Len(p) THEN p[j] ELSE q[j - Len(p)])
      BY <1>3, <1>4, ConcatProperties, ZenonT(40)
    <3>2. Len(p) = i - 1 /\ Len(q) = Len(ts) - i /\ us = p \o q
      BY <1>2, <1>3, <1>4
    <3> QED
      BY <3>1, <3>2
  <2>2. (i - 1) + (Len(ts) - i) = Len(ts) - 1
    BY <1>1
  <2> QED
    BY <2>1, <2>2
<1>6. ASSUME NEW j \in 1 .. Len(us) PROVE us[j] = ts[IF j < i THEN j ELSE j + 1]
  <2>1. CASE j < i
    BY <1>1, <1>3, <1>5, <2>1
  <2>2. CASE ~(j < i)
    <3>1. j - (i - 1) \in 1 .. Len(ts) - i /\ i + (j - (i - 1)) = j + 1
      BY <1>1, <1>5, <2>2
    <3>2. us[j] = q[j - (i - 1)]
      <4>1. ~(j <= i - 1)
        BY <1>1, <1>5, <2>2
      <4> QED
        BY <1>5, <4>1
    <3> QED
      BY <1>4, <2>2, <3>1, <3>2
  <2> QED
    BY <2>1, <2>2
<1>7. ts[i] \notin Responsive /\ ts[i] \notin Attempted
  BY DEF Responsive, Attempted
<1>8. Cardinality(Such(us, Responsive)) = Cardinality(Such(ts, Responsive)) /\ Cardinality(Such(us, Attempted)) = Cardinality(Such(ts, Attempted))
  BY <1>5, <1>6, <1>7, OthersAreAsMany
<1>9. Cardinality(Such(ts, Attempted)) # 0
  BY SubstanceIsCounted
<1>10. \A j \in DOMAIN ts : ts[j].flags \cap Report!Unheard = {}
  BY FlaggedIsCounted
<1>11. \A j \in DOMAIN us : us[j].flags \cap Report!Unheard = {}
  <2> SUFFICES ASSUME NEW j \in DOMAIN us PROVE us[j].flags \cap Report!Unheard = {}
    OBVIOUS
  <2>1. j \in 1 .. Len(us) /\ (IF j < i THEN j ELSE j + 1) \in DOMAIN ts
    BY <1>1, <1>5
  <2> QED
    BY <1>6, <1>10, <2>1
<1>12. Len(us) \in Nat /\ (us # <<>> => Len(us) >= 1)
  BY <1>5
<1>13. ASSUME NEW xs \in Seq(ReportedTurns), \A j \in DOMAIN xs : xs[j].flags \cap Report!Unheard = {} PROVE ~Report!AudioUnreliable(xs)
  <2>1. Report!Flagged(xs, Report!Unheard) = 0
    BY <1>13, FlaggedIsCounted
  <2>2. \A j \in DOMAIN xs : xs[j].flags \cap {"connection_dropped"} = {} /\ xs[j].flags \cap {"stalled"} = {}
    BY <1>13 DEF Report!Unheard
  <2>3. Report!Flagged(xs, {"connection_dropped"}) = 0 /\ Report!Flagged(xs, {"stalled"}) = 0
    BY <2>2, FlaggedIsCounted
  <2>4. Len(xs) \in Nat /\ (xs # <<>> => Len(xs) >= 1)
    OBVIOUS
  <2>5. ~(0 > 0) /\ ~(0 >= 2) /\ (xs # <<>> => ~(10 * 0 >= 4 * Len(xs)))
    BY <2>4
  <2> QED
    BY <2>1, <2>3, <2>5 DEF Report!AudioUnreliable
<1>14. ~Report!AudioUnreliable(ts) /\ ~Report!AudioUnreliable(us)
  BY <1>5, <1>10, <1>11, <1>13
<1> QED
  BY <1>5, <1>8, <1>9, <1>14, VerdictsAgree


(* How a report is served: it says what its verdict says, and no more.       *)
LEMMA ServedAsRead ==
    ASSUME NEW ts \in Seq(ReportedTurns), NEW ending \in Report!Endings, NEW evaluation, evaluation \in Report!Evaluations(ts),
           NEW short \in BOOLEAN, NEW reviewReason \in BOOLEAN,
           NEW served, served = Report!ReviewReport(Report!InterviewReport(ts, ending, evaluation, short), ending, reviewReason)
    PROVE  /\ served.action = "Reject" => /\ served.verdict = "CLEAR_REJECT" /\ served.chip \in {"CLEAR_REJECT", "WITHHELD"}
                                          /\ HeardEnough(ts) /\ ending = "completed" /\ ~reviewReason
           /\ served.action = "Advance" => served.verdict = "ADVANCE" /\ served.chip = "ADVANCE" /\ evaluation.by = "ai"
           /\ ~HeardEnough(ts) \/ ending = "halted" => served.bandWithheld
<1>0. Report!ComputeSessionQuality(ts).audioUnreliable = Report!AudioUnreliable(ts)
  BY DEF Report!ComputeSessionQuality
<1>1. PICK quality : quality = Report!ComputeSessionQuality(ts) /\ quality.audioUnreliable = Report!AudioUnreliable(ts)
  BY <1>0
<1>2. PICK verdict : verdict = Report!ComputeVerdict(ts, ending, evaluation.by = "ai", evaluation.overall)
  OBVIOUS
<1>3. PICK report : report = Report!InterviewReport(ts, ending, evaluation, short)
  OBVIOUS
<1>4. /\ report.verdict = verdict /\ report.suppressed = quality.degraded
      /\ report.chip = Report!VerdictChip(verdict, evaluation.by # "fallback" /\ ~quality.degraded)
      /\ report.action = (IF quality.degraded THEN "Re-interview" ELSE Report!RecommendedAction(verdict, short))
      /\ report.bandWithheld = (quality.audioUnreliable \/ ending = "halted")
      /\ report = [verdict |-> report.verdict, suppressed |-> report.suppressed, chip |-> report.chip, action |-> report.action,
                   bandWithheld |-> report.bandWithheld]
  BY <1>1, <1>2, <1>3 DEF Report!InterviewReport
<1>5. CASE ending = "ended_early" \/ reviewReason \/ report.suppressed
  <2>1. served = [report EXCEPT !.verdict = "REVIEW", !.action = "Manual review", !.suppressed = TRUE]
    BY <1>3, <1>5 DEF Report!ReviewReport
  <2>2. served.action = "Manual review" /\ served.bandWithheld = report.bandWithheld
    BY <1>4, <2>1
  <2>3. ~HeardEnough(ts) => quality.audioUnreliable
    BY <1>1, ReliableIsHeard
  <2> QED
    BY <1>4, <2>2, <2>3
<1>6. CASE ~(ending = "ended_early" \/ reviewReason \/ report.suppressed)
  <2>1. served = report /\ ~quality.degraded /\ ~reviewReason
    BY <1>3, <1>4, <1>6 DEF Report!ReviewReport
  <2>2. served.action = Report!RecommendedAction(verdict, short) /\ served.verdict = verdict
        /\ served.chip = Report!VerdictChip(verdict, evaluation.by # "fallback")
    BY <1>4, <2>1
  <2>3. served.action = "Reject" => verdict = "CLEAR_REJECT"
    BY <2>2 DEF Report!RecommendedAction
  <2>4. served.action = "Advance" => verdict = "ADVANCE"
    BY <2>2 DEF Report!RecommendedAction
  <2>5. verdict = "ADVANCE" => evaluation.by = "ai"
    BY <1>2 DEF Report!ComputeVerdict
  <2>6. verdict = "CLEAR_REJECT" => ending = "completed" /\ HeardEnough(ts)
    BY <1>2, RejectedWereHeard
  <2>7. ~HeardEnough(ts) => quality.audioUnreliable
    BY <1>1, ReliableIsHeard
  <2>8. evaluation.by = "ai" => served.chip = verdict
    BY <2>2 DEF Report!VerdictChip
  <2>9. served.chip \in {verdict, "WITHHELD"}
    BY <2>2 DEF Report!VerdictChip
  <2> QED
    BY <1>4, <2>1, <2>2, <2>3, <2>4, <2>5, <2>6, <2>7, <2>8, <2>9
<1> QED
  BY <1>5, <1>6

LEMMA NobodyFails == ASSUME ReportTypes PROVE Report!NobodyFailsForAFault
<1> SUFFICES ASSUME NEW ending \in Report!Endings, NEW evaluation \in Report!Evaluations(turns)
             PROVE  LET verdict(ts) == Report!ComputeVerdict(ts, ending, evaluation.by = "ai", evaluation.overall)
                        calm == [i \in DOMAIN turns |-> [turns[i] EXCEPT !.flags = @ \ {"asked_to_repeat"}]]
                        taken == {i \in DOMAIN turns : ~turns[i].declined}
                        heard == Report!Flagged(turns, {"connection_dropped"}) = 0 /\ 5 * Report!Flagged(turns, Report!Unheard) <= 2 * Len(turns)
                    IN  /\ verdict(turns) = verdict(calm)
                        /\ verdict(turns) = "CLEAR_REJECT" => ending = "completed" /\ (turns = <<>> \/ taken # {}) /\ heard
                        /\ Report!Flagged(turns, Report!Unheard) = 0 /\ taken # {} => \A i \in DOMAIN turns \ taken : verdict(turns) = verdict(Report!RemoveAt(turns, i))
                        /\ \A short, reviewReason \in BOOLEAN :
                             LET served == Report!ReviewReport(Report!InterviewReport(turns, ending, evaluation, short), ending, reviewReason)
                             IN  /\ served.action = "Reject" => /\ served.verdict = "CLEAR_REJECT" /\ served.chip \in {"CLEAR_REJECT", "WITHHELD"}
                                                               /\ heard /\ ending = "completed" /\ ~reviewReason
                                 /\ served.action = "Advance" => served.verdict = "ADVANCE" /\ served.chip = "ADVANCE" /\ evaluation.by = "ai"
                                 /\ ~heard \/ ending = "halted" => served.bandWithheld
  BY DEF Report!NobodyFailsForAFault
<1>1. turns \in Seq(ReportedTurns) /\ \A i \in DOMAIN turns : turns[i] \in ReportedTurns
  BY DEF ReportTypes
<1>2. {i \in DOMAIN turns : ~turns[i].declined} = Such(turns, Attempted)
  BY <1>1 DEF Such, Attempted
<1>3. PICK ran, overall : ran = (evaluation.by = "ai") /\ overall = evaluation.overall
  OBVIOUS
<1>4. PICK calm : calm = [i \in DOMAIN turns |-> [turns[i] EXCEPT !.flags = @ \ {"asked_to_repeat"}]]
  OBVIOUS
<1>5. Report!ComputeVerdict(turns, ending, ran, overall) = Report!ComputeVerdict(calm, ending, ran, overall)
  BY <1>1, <1>4, CalmIsTheSame
<1>6. Report!ComputeVerdict(turns, ending, ran, overall) = "CLEAR_REJECT" => ending = "completed" /\ (turns = <<>> \/ Such(turns, Attempted) # {}) /\ HeardEnough(turns)
  BY <1>1, RejectedWereHeard
<1>7. ASSUME Report!Flagged(turns, Report!Unheard) = 0, Such(turns, Attempted) # {}, NEW i \in DOMAIN turns \ Such(turns, Attempted)
      PROVE  Report!ComputeVerdict(turns, ending, ran, overall) = Report!ComputeVerdict(Report!RemoveAt(turns, i), ending, ran, overall)
  <2>1. i \in DOMAIN turns /\ turns[i].declined
    BY <1>2, <1>7
  <2>2. PICK us : us = Report!RemoveAt(turns, i)
    OBVIOUS
  <2> QED
    BY <1>1, <1>7, <2>1, <2>2, DeclinedIsTheSame
<1>8. ASSUME NEW short \in BOOLEAN, NEW reviewReason \in BOOLEAN, NEW served,
             served = Report!ReviewReport(Report!InterviewReport(turns, ending, evaluation, short), ending, reviewReason)
      PROVE  /\ served.action = "Reject" => /\ served.verdict = "CLEAR_REJECT" /\ served.chip \in {"CLEAR_REJECT", "WITHHELD"}
                                            /\ HeardEnough(turns) /\ ending = "completed" /\ ~reviewReason
             /\ served.action = "Advance" => served.verdict = "ADVANCE" /\ served.chip = "ADVANCE" /\ evaluation.by = "ai"
             /\ ~HeardEnough(turns) \/ ending = "halted" => served.bandWithheld
  BY <1>1, <1>8, ServedAsRead
<1> QED
  BY <1>2, <1>3, <1>4, <1>5, <1>6, <1>7, <1>8 DEF HeardEnough


-----------------------------------------------------------------------------
(* The difficulty of the next question: each answer climbs from where the ones
   before it left, so one answer more is one climb more.                     *)

Places == [rung : 1 .. 3, direction : {-1, 0, 1}]
Start == [rung |-> 2, direction |-> 0]
StateOf(ts) == Report!FoldLeft(Report!Climb, Start, ts)
Greatest(t) == CHOOSE x \in t : \A y \in t : x >= y
Said(t) == t.score \in 0 .. 100

LEMMA ClimbsAreOne ==
    ASSUME NEW at \in Places, NEW t, Said(t)
    PROVE  /\ Report!Climb(at, t) \in Places
           /\ ~Report!CountsToRung(t) => Report!Climb(at, t) = at
           /\ Report!CountsToRung(t) => /\ Report!Climb(at, t).direction \in {0, Report!DirectionOf(t.score)}
                                        /\ Report!Climb(at, t).rung - at.rung \in {-1, 0, 1}
                                        /\ Report!Climb(at, t).rung # at.rung =>
                                             /\ Report!Climb(at, t).rung - at.rung = Report!DirectionOf(t.score)
                                             /\ at.direction = Report!DirectionOf(t.score)
<1>1. PICK step : step = Report!DirectionOf(t.score)
  OBVIOUS
<1>2. step \in {-1, 0, 1}
  BY <1>1 DEF Said, Report!DirectionOf
<1>3. /\ at.rung \in 1 .. 3 /\ at.direction \in {-1, 0, 1} /\ at = [rung |-> at.rung, direction |-> at.direction]
      /\ \A r \in 1 .. 3, d \in {-1, 0, 1} : [rung |-> r, direction |-> d] \in Places
  BY DEF Places
<1>4. CASE ~Report!CountsToRung(t)
  <2>1. Report!Climb(at, t) = at
    BY <1>1, <1>4 DEF Report!Climb
  <2> QED
    BY <1>4, <2>1
<1>5. CASE Report!CountsToRung(t) /\ (step = 0 \/ step # at.direction)
  <2>1. Report!Climb(at, t) = [rung |-> at.rung, direction |-> step]
    BY <1>1, <1>2, <1>3, <1>5 DEF Report!Climb
  <2> QED
    BY <1>1, <1>2, <1>3, <1>5, <2>1
<1>6. CASE Report!CountsToRung(t) /\ step # 0 /\ step = at.direction
  <2>1. PICK r : r = (IF at.rung + step \in 1 .. 3 THEN at.rung + step ELSE at.rung)
    OBVIOUS
  <2>2. Report!Climb(at, t) = [rung |-> r, direction |-> 0]
    BY <1>1, <1>2, <1>3, <1>6, <2>1 DEF Report!Climb
  <2>3. r \in 1 .. 3 /\ r - at.rung \in {-1, 0, 1} /\ (r # at.rung => r - at.rung = step)
    BY <1>2, <1>3, <2>1
  <2> QED
    BY <1>1, <1>2, <1>3, <1>6, <2>2, <2>3
<1> QED
  BY <1>4, <1>5, <1>6

LEMMA GreatestIsIn == ASSUME NEW n \in Nat, NEW t \in SUBSET (1 .. n), t # {} PROVE Greatest(t) \in t /\ \A y \in t : Greatest(t) >= y
<1>1. PICK z \in t : \A y \in t : y <= z
  <2>1. \A y \in t : y \in Nat /\ y <= n
    OBVIOUS
  <2> QED
    BY <2>1, GreatestOf
<1>2. \A y \in t : z >= y
  BY <1>1
<1> QED
  BY <1>2 DEF Greatest

(* The climbs over the first k answers, for every k.                         *)
LEMMA RungIsTabled ==
    ASSUME NEW ts, NEW n \in Nat, DOMAIN ts = 1 .. n, \A i \in 1 .. n : Said(ts[i])
    PROVE  \E h : /\ StateOf(ts) = h[1 .. n] /\ h[1 .. 0] = Start
                  /\ \A k \in 1 .. n : h[1 .. k] = Report!Climb(h[1 .. k - 1], ts[k])
<1> DEFINE I == CHOOSE iter : iter = [s \in SUBSET DOMAIN ts |-> IF s = {} THEN Start ELSE Report!Climb(iter[s \ {CHOOSE x \in s : \A y \in s : x >= y}], ts[CHOOSE x \in s : \A y \in s : x >= y])]
           S == 1 .. n
           c == [t \in SUBSET S |-> Greatest(t)]
           F == [p \in S \X Places |-> Report!Climb(p[2], ts[p[1]])]
<1>1. StateOf(ts) = I[DOMAIN ts]
  BY DEF StateOf, Report!FoldLeft, Report!MapThenFoldSet, Report!Max
<1>2. Start \in Places /\ IsFiniteSet(S) /\ Asks(S, c) /\ F \in [S \X Places -> Places]
  <2>1. Start \in Places
    BY DEF Start, Places
  <2>2. IsFiniteSet(S)
    BY FS_Interval
  <2>3. Asks(S, c)
    BY GreatestIsIn DEF Asks
  <2>4. F \in [S \X Places -> Places]
    BY ClimbsAreOne
  <2> QED
    BY <2>1, <2>2, <2>3, <2>4
<1>3. PICK g \in [SUBSET S -> Places] : FoldTables(S, Start, c, F, g)
  <2> HIDE DEF c, F, S
  <2> QED
    BY <1>2, FoldsExist
<1>4. ASSUME NEW t \in SUBSET S PROVE g[t] = IF t = {} THEN Start ELSE Report!Climb(g[t \ {Greatest(t)}], ts[Greatest(t)])
  <2>1. CASE t = {}
    BY <1>3, <2>1 DEF FoldTables, Folded
  <2>2. CASE t # {}
    <3>1. c[t] = Greatest(t) /\ Greatest(t) \in S /\ t \ {Greatest(t)} \in SUBSET S
      BY <2>2, GreatestIsIn
    <3>2. g[t \ {Greatest(t)}] \in Places
      BY <3>1
    <3>3. F[<<Greatest(t), g[t \ {Greatest(t)}]>>] = Report!Climb(g[t \ {Greatest(t)}], ts[Greatest(t)])
      BY <3>1, <3>2
    <3> HIDE DEF c, F
    <3> QED
      BY <1>3, <2>2, <3>1, <3>3 DEF FoldTables, Folded
  <2> QED
    BY <2>1, <2>2
<1>5. g = [s \in SUBSET DOMAIN ts |-> IF s = {} THEN Start ELSE Report!Climb(g[s \ {CHOOSE x \in s : \A y \in s : x >= y}], ts[CHOOSE x \in s : \A y \in s : x >= y])]
  BY <1>4 DEF Greatest
<1>6. I = [s \in SUBSET DOMAIN ts |-> IF s = {} THEN Start ELSE Report!Climb(I[s \ {CHOOSE x \in s : \A y \in s : x >= y}], ts[CHOOSE x \in s : \A y \in s : x >= y])]
  BY <1>5
<1>7. ASSUME NEW t \in SUBSET S PROVE I[t] = IF t = {} THEN Start ELSE Report!Climb(I[t \ {Greatest(t)}], ts[Greatest(t)])
  <2> HIDE DEF I
  <2> QED
    BY <1>6 DEF Greatest
<1> HIDE DEF I
<1>8. I[1 .. 0] = Start
  <2>1. 1 .. 0 = {} /\ 1 .. 0 \in SUBSET S
    OBVIOUS
  <2> QED
    BY <1>7, <2>1
<1>9. ASSUME NEW k \in 1 .. n PROVE I[1 .. k] = Report!Climb(I[1 .. k - 1], ts[k])
  <2>1. 1 .. k \in SUBSET S /\ k \in 1 .. k /\ 1 .. k # {}
    OBVIOUS
  <2>2. Greatest(1 .. k) = k
    <3>1. Greatest(1 .. k) \in 1 .. k /\ Greatest(1 .. k) >= k
      BY <2>1, GreatestIsIn
    <3> QED
      BY <3>1
  <2>3. (1 .. k) \ {k} = 1 .. k - 1
    OBVIOUS
  <2> QED
    BY <1>7, <2>1, <2>2, <2>3
<1> QED
  BY <1>1, <1>8, <1>9

(* Which answer the direction comes of.                                      *)
LastToPush(ts, n, d) ==
    \E i \in 1 .. n : /\ Report!CountsToRung(ts[i]) /\ Report!DirectionOf(ts[i].score) = d
                      /\ \A j \in i + 1 .. n : ~Report!CountsToRung(ts[j])
Holds(ts, n, at) == at \in Places /\ (at.direction # 0 => LastToPush(ts, n, at.direction))

LEMMA RungsHold ==
    ASSUME NEW ts, NEW n \in Nat, DOMAIN ts = 1 .. n, \A i \in 1 .. n : Said(ts[i])
    PROVE  Holds(ts, n, StateOf(ts))
<1>1. PICK h : /\ StateOf(ts) = h[1 .. n] /\ h[1 .. 0] = Start
               /\ \A k \in 1 .. n : h[1 .. k] = Report!Climb(h[1 .. k - 1], ts[k])
  BY RungIsTabled
<1> DEFINE Fails == {k \in 0 .. n : ~Holds(ts, k, h[1 .. k])}
<1>2. ASSUME Fails # {} PROVE FALSE
  <2>1. PICK k \in Fails : \A m \in Fails : k <= m
    <3>1. Fails \subseteq Nat
      OBVIOUS
    <3> HIDE DEF Fails
    <3> QED
      BY <1>2, <3>1, LeastOf
  <2>2. k \in 0 .. n /\ ~Holds(ts, k, h[1 .. k])
    OBVIOUS
  <2>3. k # 0
    <3>1. Holds(ts, 0, Start)
      BY DEF Holds, Start, Places
    <3> QED
      BY <1>1, <2>2, <3>1
  <2>4. k \in 1 .. n /\ k - 1 \in 0 .. n /\ ~(k <= k - 1)
    BY <2>2, <2>3
  <2>5. k - 1 \notin Fails
    <3> HIDE DEF Fails
    <3> QED
      BY <2>1, <2>4
  <2>6. Holds(ts, k - 1, h[1 .. k - 1])
    BY <2>4, <2>5
  <2>7. PICK at : at = h[1 .. k - 1] /\ at \in Places /\ (at.direction # 0 => LastToPush(ts, k - 1, at.direction))
    BY <2>6 DEF Holds
  <2>8. PICK to : to = h[1 .. k] /\ to = Report!Climb(at, ts[k])
    BY <1>1, <2>4, <2>7
  <2>9. Holds(ts, k, to)
    <3>1. CASE ~Report!CountsToRung(ts[k])
      <4>1. to = at
        BY <2>4, <2>7, <2>8, <3>1, ClimbsAreOne
      <4>2. ASSUME NEW d, LastToPush(ts, k - 1, d) PROVE LastToPush(ts, k, d)
        <5>1. PICK i \in 1 .. k - 1 : /\ Report!CountsToRung(ts[i]) /\ Report!DirectionOf(ts[i].score) = d
                                      /\ \A j \in i + 1 .. k - 1 : ~Report!CountsToRung(ts[j])
          BY <4>2 DEF LastToPush
        <5>2. i \in 1 .. k /\ \A j \in i + 1 .. k : j = k \/ j \in i + 1 .. k - 1
          BY <2>4
        <5>3. \A j \in i + 1 .. k : ~Report!CountsToRung(ts[j])
          BY <3>1, <5>1, <5>2
        <5> QED
          BY <5>1, <5>2, <5>3 DEF LastToPush
      <4> QED
        BY <2>7, <4>1, <4>2 DEF Holds
    <3>2. CASE Report!CountsToRung(ts[k])
      <4>1. to \in Places /\ to.direction \in {0, Report!DirectionOf(ts[k].score)}
        BY <2>4, <2>7, <2>8, <3>2, ClimbsAreOne
      <4>2. LastToPush(ts, k, Report!DirectionOf(ts[k].score))
        <5>1. k \in 1 .. k /\ \A j \in k + 1 .. k : FALSE
          BY <2>4
        <5> QED
          BY <3>2, <5>1 DEF LastToPush
      <4> QED
        BY <4>1, <4>2 DEF Holds
    <3> QED
      BY <3>1, <3>2
  <2> QED
    BY <2>2, <2>8, <2>9
<1>3. n \in 0 .. n
  OBVIOUS
<1> QED
  BY <1>1, <1>2, <1>3

LEMMA OneMoreClimb ==
    ASSUME NEW ts, NEW us, NEW n \in Nat, DOMAIN ts = 1 .. n, DOMAIN us = 1 .. n + 1, \A i \in 1 .. n + 1 : Said(us[i]),
           \A i \in 1 .. n : ts[i] = us[i]
    PROVE  StateOf(us) = Report!Climb(StateOf(ts), us[n + 1])
<1>1. PICK h : /\ StateOf(ts) = h[1 .. n] /\ h[1 .. 0] = Start
               /\ \A k \in 1 .. n : h[1 .. k] = Report!Climb(h[1 .. k - 1], ts[k])
  <2>1. \A i \in 1 .. n : Said(ts[i])
    OBVIOUS
  <2> QED
    BY <2>1, RungIsTabled
<1>2. PICK g : /\ StateOf(us) = g[1 .. n + 1] /\ g[1 .. 0] = Start
               /\ \A k \in 1 .. n + 1 : g[1 .. k] = Report!Climb(g[1 .. k - 1], us[k])
  <2>1. n + 1 \in Nat
    OBVIOUS
  <2> QED
    BY <2>1, RungIsTabled
<1> DEFINE Fails == {k \in 0 .. n : g[1 .. k] # h[1 .. k]}
<1>3. ASSUME Fails # {} PROVE FALSE
  <2>1. PICK k \in Fails : \A m \in Fails : k <= m
    <3>1. Fails \subseteq Nat
      OBVIOUS
    <3> HIDE DEF Fails
    <3> QED
      BY <1>3, <3>1, LeastOf
  <2>2. k \in 0 .. n /\ g[1 .. k] # h[1 .. k]
    OBVIOUS
  <2>3. k # 0
    BY <1>1, <1>2, <2>2
  <2>4. k \in 1 .. n /\ k - 1 \in 0 .. n /\ ~(k <= k - 1) /\ k \in 1 .. n + 1
    BY <2>2, <2>3
  <2>5. k - 1 \notin Fails
    <3> HIDE DEF Fails
    <3> QED
      BY <2>1, <2>4
  <2>6. g[1 .. k - 1] = h[1 .. k - 1]
    BY <2>4, <2>5
  <2> QED
    BY <1>1, <1>2, <2>2, <2>4, <2>6
<1>4. g[1 .. n] = h[1 .. n]
  <2>1. n \in 0 .. n
    OBVIOUS
  <2> QED
    BY <1>3, <2>1
<1>5. g[1 .. n + 1] = Report!Climb(g[1 .. n], us[n + 1])
  <2>1. n + 1 \in 1 .. n + 1 /\ (n + 1) - 1 = n
    OBVIOUS
  <2> QED
    BY <1>2, <2>1
<1> QED
  BY <1>1, <1>2, <1>4, <1>5


LEMMA RungsClimb ==
    ASSUME ReportTypes, ReportTypes', [Report!Next]_Report!vars
    PROVE  LET n == Len(turns')
               moved == Report!ComputeRung(turns') - Report!ComputeRung(turns)
               Pushed(i) == Report!CountsToRung(turns'[i]) /\ Report!DirectionOf(turns'[i].score) = moved
           IN  moved # 0 => /\ moved \in {-1, 1} /\ n > 0 /\ Pushed(n)
                            /\ \E i \in 1 .. n - 1 : Pushed(i) /\ \A j \in i + 1 .. n - 1 : ~Report!CountsToRung(turns'[j])
<1>1. PICK ts, us, m : ts = turns /\ us = turns' /\ m = Len(ts)
  OBVIOUS
<1>2. /\ m \in Nat /\ DOMAIN ts = 1 .. m /\ \A i \in 1 .. m : Said(ts[i])
  <2>1. ts \in Seq(ReportedTurns)
    BY <1>1 DEF ReportTypes
  <2>2. DOMAIN ts = 1 .. m /\ m \in Nat /\ \A i \in 1 .. m : ts[i] \in ReportedTurns
    BY <1>1, <2>1
  <2> QED
    BY <2>2 DEF Said, ReportedTurns
<1>3. us \in Seq(ReportedTurns) /\ \A i \in DOMAIN us : Said(us[i])
  <2>1. us \in Seq(ReportedTurns)
    BY <1>1 DEF ReportTypes
  <2>2. \A i \in DOMAIN us : us[i] \in ReportedTurns
    BY <2>1
  <2> QED
    BY <2>1, <2>2 DEF Said, ReportedTurns
<1>4. Holds(ts, m, StateOf(ts))
  BY <1>2, RungsHold
<1>5. PICK at : at = StateOf(ts) /\ at \in Places /\ (at.direction # 0 => LastToPush(ts, m, at.direction))
  BY <1>4 DEF Holds
<1>6. at.rung \in Int
  BY <1>5 DEF Places
<1>7. Report!ComputeRung(ts) = at.rung /\ Report!ComputeRung(us) = StateOf(us).rung
  BY <1>5 DEF Report!ComputeRung, StateOf, Start
<1>8. CASE us = ts
  <2>1. Report!ComputeRung(us) - Report!ComputeRung(ts) = 0
    BY <1>6, <1>7, <1>8
  <2> QED
    BY <1>1, <2>1
<1>9. ASSUME NEW t \in DOMAIN Report!Turns, Report!Turn(t)
      PROVE  Report!ComputeRung(us) - Report!ComputeRung(ts) # 0 =>
                 LET moved == Report!ComputeRung(us) - Report!ComputeRung(ts)
                     Pushed(i) == Report!CountsToRung(us[i]) /\ Report!DirectionOf(us[i].score) = moved
                 IN  /\ moved \in {-1, 1} /\ Len(us) > 0 /\ Pushed(Len(us))
                     /\ \E i \in 1 .. Len(us) - 1 : Pushed(i) /\ \A j \in i + 1 .. Len(us) - 1 : ~Report!CountsToRung(us[j])
  <2>1. us = Append(ts, Report!Turns[t])
    BY <1>1, <1>9 DEF Report!Turn
  <2>2. Len(us) = m + 1 /\ DOMAIN us = 1 .. m + 1 /\ \A i \in 1 .. m : ts[i] = us[i]
    <3>1. ts \in Seq(ReportedTurns) /\ Report!Turns[t] \in ReportedTurns
      BY <1>1, TurnsAreSaid DEF ReportTypes
    <3> QED
      BY <1>1, <1>2, <2>1, <3>1
  <2>3. StateOf(us) = Report!Climb(at, us[m + 1])
    <3>1. \A i \in 1 .. m + 1 : Said(us[i])
      BY <1>3, <2>2
    <3> QED
      BY <1>2, <1>5, <2>2, <3>1, OneMoreClimb
  <2>4. Said(us[m + 1])
    BY <1>2, <1>3, <2>2
  <2>5. PICK to : to = StateOf(us) /\ to = Report!Climb(at, us[m + 1])
    BY <2>3
  <2>6. /\ ~Report!CountsToRung(us[m + 1]) => to = at
        /\ Report!CountsToRung(us[m + 1]) => /\ to.rung - at.rung \in {-1, 0, 1}
                                             /\ to.rung # at.rung =>
                                                  /\ to.rung - at.rung = Report!DirectionOf(us[m + 1].score)
                                                  /\ at.direction = Report!DirectionOf(us[m + 1].score)
        /\ to \in Places
    BY <1>5, <2>4, <2>5, ClimbsAreOne
  <2>7. to.rung \in Int
    BY <2>6 DEF Places
  <2> SUFFICES ASSUME to.rung - at.rung # 0
               PROVE  /\ to.rung - at.rung \in {-1, 1} /\ Len(us) > 0
                      /\ Report!CountsToRung(us[Len(us)]) /\ Report!DirectionOf(us[Len(us)].score) = to.rung - at.rung
                      /\ \E i \in 1 .. Len(us) - 1 : /\ Report!CountsToRung(us[i]) /\ Report!DirectionOf(us[i].score) = to.rung - at.rung
                                                     /\ \A j \in i + 1 .. Len(us) - 1 : ~Report!CountsToRung(us[j])
    BY <1>7, <2>5
  <2>8. to.rung # at.rung /\ Report!CountsToRung(us[m + 1])
    BY <1>6, <2>6, <2>7
  <2>9. PICK d : d = to.rung - at.rung /\ d \in {-1, 1} /\ d = Report!DirectionOf(us[m + 1].score) /\ at.direction = d
    BY <2>6, <2>8
  <2>10. LastToPush(ts, m, d)
    BY <1>5, <2>9
  <2>11. PICK i \in 1 .. m : /\ Report!CountsToRung(ts[i]) /\ Report!DirectionOf(ts[i].score) = d
                             /\ \A j \in i + 1 .. m : ~Report!CountsToRung(ts[j])
    BY <2>10 DEF LastToPush
  <2>12. /\ i \in 1 .. Len(us) - 1 /\ Report!CountsToRung(us[i]) /\ Report!DirectionOf(us[i].score) = d
         /\ \A j \in i + 1 .. Len(us) - 1 : ~Report!CountsToRung(us[j])
    <3>1. Len(us) - 1 = m /\ \A j \in i + 1 .. m : j \in 1 .. m
      BY <1>2, <2>2
    <3> QED
      BY <2>2, <2>11, <3>1
  <2>13. Len(us) > 0 /\ Len(us) = m + 1
    BY <1>2, <2>2
  <2> QED
    BY <2>8, <2>9, <2>12, <2>13
<1>10. us = ts \/ \E t \in DOMAIN Report!Turns : Report!Turn(t)
  BY <1>1 DEF Report!Next, Report!vars, Report!Anchor, Report!Piece, Report!Event, Report!Observe, Report!Role
<1> QED
  BY <1>1, <1>8, <1>9, <1>10

(* One piece never tells against the candidate by accident.                  *)
LEMMA PiecesTell ==
    ASSUME ReportTypes, [Report!Next]_Report!vars, NEW c \in Requirements, pieces'[c] # pieces[c]
    PROVE  /\ pieces'[c].wrong = pieces[c].wrong /\ pieces'[c].contradicted = pieces[c].contradicted /\ pieces[c].correct + pieces[c].wrong # 3 =>
                (Report!Classify(pieces'[c]) = "failed" => Report!Classify(pieces[c]) = "failed")
           /\ pieces'[c].wrong > pieces[c].wrong /\ Report!Classify(pieces[c]) = "proven" => Report!Classify(pieces'[c]) # "failed"
<1>1. PICK p \in PieceCounts : p = pieces[c]
  BY DEF ReportTypes
<1>2. PICK q : q = pieces'[c]
  OBVIOUS
<1>3. q = [p EXCEPT !.anchor = TRUE] \/ \E what \in DOMAIN Report!NoPieces \ {"anchor"} : q = [p EXCEPT ![what] = @ + 1]
  <2>1. ASSUME NEW d \in Requirements, Report!Anchor(d) PROVE q = [p EXCEPT !.anchor = TRUE]
    <3>1. pieces' = [pieces EXCEPT ![d] = [pieces[d] EXCEPT !.anchor = TRUE]]
      BY <2>1 DEF Report!Anchor, ReportTypes
    <3>2. c = d
      BY <3>1 DEF ReportTypes
    <3> QED
      BY <1>1, <1>2, <3>1, <3>2 DEF ReportTypes
  <2>2. ASSUME NEW d \in Requirements, NEW what \in DOMAIN Report!NoPieces \ {"anchor"}, Report!Piece(d, what) PROVE q = [p EXCEPT ![what] = @ + 1]
    <3>1. pieces' = [pieces EXCEPT ![d] = [pieces[d] EXCEPT ![what] = @ + 1]]
      BY <2>2 DEF Report!Piece, ReportTypes
    <3>2. c = d
      BY <3>1 DEF ReportTypes
    <3> QED
      BY <1>1, <1>2, <3>1, <3>2 DEF ReportTypes
  <2>3. \/ \E d \in Requirements : Report!Anchor(d)
        \/ \E d \in Requirements : \E what \in DOMAIN Report!NoPieces \ {"anchor"} : Report!Piece(d, what)
    BY DEF Report!Next, Report!vars, Report!Turn, Report!Event, Report!Observe, Report!Role
  <2> QED
    BY <2>1, <2>2, <2>3
<1>4. /\ p.correct \in Nat /\ p.wrong \in Nat /\ p.verified \in Nat /\ p.contradicted \in Nat /\ p.inconclusive \in Nat
      /\ p.asked \in Nat /\ p.anchor \in BOOLEAN
  BY DEF PieceCounts
<1>5. \/ q.correct = p.correct /\ q.wrong = p.wrong /\ q.verified = p.verified /\ q.contradicted = p.contradicted
      \/ q.correct = p.correct + 1 /\ q.wrong = p.wrong /\ q.verified = p.verified /\ q.contradicted = p.contradicted
      \/ q.correct = p.correct /\ q.wrong = p.wrong + 1 /\ q.verified = p.verified /\ q.contradicted = p.contradicted
      \/ q.correct = p.correct /\ q.wrong = p.wrong /\ q.verified = p.verified + 1 /\ q.contradicted = p.contradicted
      \/ q.correct = p.correct /\ q.wrong = p.wrong /\ q.verified = p.verified /\ q.contradicted = p.contradicted + 1
  <2>1. CASE q = [p EXCEPT !.anchor = TRUE]
    BY <2>1 DEF PieceCounts
  <2>2. ASSUME NEW what \in DOMAIN Report!NoPieces \ {"anchor"}, q = [p EXCEPT ![what] = @ + 1]
        PROVE  <1>5!1 \/ <1>5!2 \/ <1>5!3 \/ <1>5!4 \/ <1>5!5
    <3>1. what \in {"correct", "wrong", "verified", "contradicted", "inconclusive", "asked"}
      BY DEF Report!NoPieces
    <3>2. CASE what = "correct" \/ what = "wrong"
      BY <2>2, <3>2 DEF PieceCounts
    <3>3. CASE what = "verified" \/ what = "contradicted"
      BY <2>2, <3>3 DEF PieceCounts
    <3>4. CASE what = "inconclusive" \/ what = "asked"
      BY <2>2, <3>4 DEF PieceCounts
    <3> QED
      BY <3>1, <3>2, <3>3, <3>4
  <2> QED
    BY <1>3, <2>1, <2>2
<1>6. q.wrong = p.wrong /\ q.contradicted = p.contradicted /\ p.correct + p.wrong # 3 => (Report!Classify(q) = "failed" => Report!Classify(p) = "failed")
  <2> SUFFICES ASSUME q.wrong = p.wrong, q.contradicted = p.contradicted, p.correct + p.wrong # 3, Report!Classify(q) = "failed", ~(p.contradicted > 0)
               PROVE  Report!Classify(p) = "failed"
    BY DEF Report!Classify
  <2>1. /\ ~(q.verified > 0 \/ (q.correct + q.wrong >= 3 /\ q.wrong = 0)) /\ q.correct + q.wrong >= 4 /\ 4 * q.correct <= q.correct + q.wrong
    BY DEF Report!Classify
  <2>2. p.verified = 0 /\ (q.correct = p.correct \/ q.correct = p.correct + 1)
    BY <1>4, <1>5, <2>1
  <2>3. p.wrong # 0 /\ p.correct + p.wrong >= 4 /\ 4 * p.correct <= p.correct + p.wrong
    BY <1>4, <2>1, <2>2
  <2> QED
    BY <1>4, <2>2, <2>3 DEF Report!Classify
<1>7. q.wrong > p.wrong /\ Report!Classify(p) = "proven" => Report!Classify(q) # "failed"
  <2> SUFFICES ASSUME q.wrong > p.wrong, Report!Classify(p) = "proven" PROVE Report!Classify(q) # "failed"
    OBVIOUS
  <2>1. q.correct = p.correct /\ q.wrong = p.wrong + 1 /\ q.verified = p.verified /\ q.contradicted = p.contradicted
    BY <1>4, <1>5
  <2>2. ~(p.contradicted > 0) /\ (p.verified > 0 \/ (p.correct + p.wrong >= 3 /\ p.wrong = 0))
    BY DEF Report!Classify
  <2>3. CASE p.verified > 0
    BY <2>1, <2>2, <2>3 DEF Report!Classify
  <2>4. CASE p.correct + p.wrong >= 3 /\ p.wrong = 0
    <3>1. q.correct >= 3 /\ q.wrong = 1 /\ q.correct \in Nat
      BY <1>4, <2>1, <2>4
    <3>2. ~(4 * q.correct <= q.correct + q.wrong)
      BY <3>1
    <3> QED
      BY <2>1, <2>2, <3>2 DEF Report!Classify
  <2> QED
    BY <2>2, <2>3, <2>4
<1> QED
  BY <1>1, <1>2, <1>6, <1>7


-----------------------------------------------------------------------------
(* The integrity risk, as the counts make it.                                *)

RiskPoints(k) == [e \in Events |-> LET d == Report!EventTypes[e] IN (IF k[e] * d.weight > d.cap THEN d.cap ELSE k[e] * d.weight) * d.tier]
RiskFamilies(k) == {e \in Report!Families \cap Events : k[e] > 0}
RiskBonus(k) == LET n == Cardinality(RiskFamilies(k)) IN IF n < 2 THEN 0 ELSE IF n = 2 THEN 1000 ELSE 1800
RiskRaw(k) == SumOver(Events \ Report!NonScoring, RiskPoints(k)) + RiskBonus(k)
RiskOf(raw) == IF raw > 10000 THEN 100 ELSE (2 * raw + 100) \div 200

LEMMA RiskIsRead == Report!RiskScore = RiskOf(RiskRaw(counts)) /\ Report!RiskScore' = RiskOf(RiskRaw(counts'))
<1>1. ASSUME NEW n \in Nat PROVE (CASE n < 2 -> 0 [] n = 2 -> 1000 [] OTHER -> 1800) = IF n < 2 THEN 0 ELSE IF n = 2 THEN 1000 ELSE 1800
  OBVIOUS
<1>2. ASSUME NEW k PROVE Cardinality(RiskFamilies(k)) \in Nat
  <2>1. RiskFamilies(k) \subseteq {"device_busy", "multi_display_detected", "bandwidth_anomaly", "gaze_away", "multi_face"}
    BY DEF RiskFamilies, Report!Families
  <2>2. IsFiniteSet({"device_busy", "multi_display_detected", "bandwidth_anomaly", "gaze_away", "multi_face"})
    <3>1. IsFiniteSet({})
      BY FS_EmptySet
    <3>2. IsFiniteSet({} \cup {"device_busy"})
      BY <3>1, FS_AddElement
    <3>3. IsFiniteSet(({} \cup {"device_busy"}) \cup {"multi_display_detected"})
      BY <3>2, FS_AddElement
    <3>4. IsFiniteSet((({} \cup {"device_busy"}) \cup {"multi_display_detected"}) \cup {"bandwidth_anomaly"})
      BY <3>3, FS_AddElement
    <3>5. IsFiniteSet(((({} \cup {"device_busy"}) \cup {"multi_display_detected"}) \cup {"bandwidth_anomaly"}) \cup {"gaze_away"})
      BY <3>4, FS_AddElement
    <3>6. IsFiniteSet((((({} \cup {"device_busy"}) \cup {"multi_display_detected"}) \cup {"bandwidth_anomaly"}) \cup {"gaze_away"}) \cup {"multi_face"})
      BY <3>5, FS_AddElement
    <3>7. {"device_busy", "multi_display_detected", "bandwidth_anomaly", "gaze_away", "multi_face"} =
              (((({} \cup {"device_busy"}) \cup {"multi_display_detected"}) \cup {"bandwidth_anomaly"}) \cup {"gaze_away"}) \cup {"multi_face"}
      OBVIOUS
    <3> QED
      BY <3>6, <3>7
  <2> QED
    BY <2>1, <2>2, FS_Subset, FS_CardinalityType
<1>3. Report!CorrelationBonus = RiskBonus(counts) /\ Report!CorrelationBonus' = RiskBonus(counts')
  <2>1. Report!Cardinality(RiskFamilies(counts)) = Cardinality(RiskFamilies(counts)) /\ Report!Cardinality(RiskFamilies(counts')) = Cardinality(RiskFamilies(counts'))
    BY ReportCounts
  <2>2. Report!CorrelationBonus = (LET n == Cardinality(RiskFamilies(counts)) IN CASE n < 2 -> 0 [] n = 2 -> 1000 [] OTHER -> 1800)
    BY <2>1 DEF Report!CorrelationBonus, RiskFamilies
  <2>3. Report!CorrelationBonus' = (LET n == Cardinality(RiskFamilies(counts')) IN CASE n < 2 -> 0 [] n = 2 -> 1000 [] OTHER -> 1800)
    BY <2>1 DEF Report!CorrelationBonus, RiskFamilies
  <2> QED
    BY <1>1, <1>2, <2>2, <2>3 DEF RiskBonus
<1>4. Report!RiskScore = RiskOf(RiskRaw(counts))
  <2>1. Report!RawRisk = RiskRaw(counts)
    BY <1>3 DEF Report!RawRisk, RiskRaw, Report!MapThenSumSet, Report!MapThenFoldSet, SumOver, MapThenSumSet, MapThenFoldSet, Report!Points, RiskPoints
  <2> QED
    BY <2>1 DEF Report!RiskScore, Report!HalfUp, RiskOf
<1>5. Report!RiskScore' = RiskOf(RiskRaw(counts'))
  <2>1. Report!RawRisk' = RiskRaw(counts')
    BY <1>3 DEF Report!RawRisk, RiskRaw, Report!MapThenSumSet, Report!MapThenFoldSet, SumOver, MapThenSumSet, MapThenFoldSet, Report!Points, RiskPoints
  <2> QED
    BY <2>1 DEF Report!RiskScore, Report!HalfUp, RiskOf
<1> QED
  BY <1>4, <1>5

LEMMA EventsHaveWeight ==
    \A e \in DOMAIN Report!EventTypes : /\ Report!EventTypes[e].weight \in Nat /\ Report!EventTypes[e].cap \in Nat /\ Report!EventTypes[e].tier \in Nat
<1> SUFFICES ASSUME NEW e \in DOMAIN Report!EventTypes
             PROVE  Report!EventTypes[e].weight \in Nat /\ Report!EventTypes[e].cap \in Nat /\ Report!EventTypes[e].tier \in Nat
  OBVIOUS
<1>1. e \in {"multi_face", "second_speaker", "device_busy", "face_absent", "tab_switch", "gaze_away", "bandwidth_anomaly", "detector_uncertain"}
  BY DEF Report!EventTypes
<1>2. CASE e = "multi_face" \/ e = "second_speaker"
  BY <1>2 DEF Report!EventTypes
<1>3. CASE e = "device_busy" \/ e = "face_absent"
  BY <1>3 DEF Report!EventTypes
<1>4. CASE e = "tab_switch" \/ e = "gaze_away"
  BY <1>4 DEF Report!EventTypes
<1>5. CASE e = "bandwidth_anomaly" \/ e = "detector_uncertain"
  BY <1>5 DEF Report!EventTypes
<1> QED
  BY <1>1, <1>2, <1>3, <1>4, <1>5

LEMMA EventsAreFew == ASSUME ReportBounds PROVE IsFiniteSet(Events)
<1> DEFINE A == {} \cup {"multi_face"}
           B == A \cup {"second_speaker"}
           C == B \cup {"device_busy"}
           D == C \cup {"face_absent"}
           E == D \cup {"tab_switch"}
           F == E \cup {"gaze_away"}
           G == F \cup {"bandwidth_anomaly"}
           H == G \cup {"detector_uncertain"}
<1>1. Events \subseteq H
  BY DEF ReportBounds, Report!EventTypes
<1>2. IsFiniteSet({})
  BY FS_EmptySet
<1>3. IsFiniteSet(A)
  BY <1>2, FS_AddElement
<1> HIDE DEF A
<1>4. IsFiniteSet(B)
  BY <1>3, FS_AddElement
<1> HIDE DEF B
<1>5. IsFiniteSet(C)
  BY <1>4, FS_AddElement
<1> HIDE DEF C
<1>6. IsFiniteSet(D)
  BY <1>5, FS_AddElement
<1> HIDE DEF D
<1>7. IsFiniteSet(E)
  BY <1>6, FS_AddElement
<1> HIDE DEF E
<1>8. IsFiniteSet(F)
  BY <1>7, FS_AddElement
<1> HIDE DEF F
<1>9. IsFiniteSet(G)
  BY <1>8, FS_AddElement
<1> HIDE DEF G
<1>10. IsFiniteSet(H)
  BY <1>9, FS_AddElement
<1> HIDE DEF H
<1> QED
  BY <1>1, <1>10, FS_Subset

LEMMA FamiliesAreCounted == ASSUME ReportBounds, NEW k PROVE IsFiniteSet(RiskFamilies(k)) /\ Cardinality(RiskFamilies(k)) \in Nat
<1>1. RiskFamilies(k) \subseteq Events
  BY DEF RiskFamilies
<1> QED
  BY <1>1, EventsAreFew, FS_Subset, FS_CardinalityType

LEMMA RiskPointsAreWhole ==
    ASSUME ReportBounds, NEW k \in [Events -> Nat]
    PROVE  Whole(Events \ Report!NonScoring, RiskPoints(k)) /\ \A e \in Events \ Report!NonScoring : RiskPoints(k)[e] >= 0
<1> SUFFICES ASSUME NEW e \in Events PROVE RiskPoints(k)[e] \in Nat
  BY DEF Whole
<1>1. PICK w, top, tier \in Nat : w = Report!EventTypes[e].weight /\ top = Report!EventTypes[e].cap /\ tier = Report!EventTypes[e].tier
  BY EventsHaveWeight DEF ReportBounds
<1>2. RiskPoints(k)[e] = (IF k[e] * w > top THEN top ELSE k[e] * w) * tier
  BY <1>1 DEF RiskPoints
<1>3. (IF k[e] * w > top THEN top ELSE k[e] * w) \in Nat
  <2>1. k[e] * w \in Nat
    BY <1>1
  <2> QED
    BY <1>1, <2>1
<1>4. \A x \in Nat : x * tier \in Nat
  BY <1>1
<1> QED
  BY <1>2, <1>3, <1>4

LEMMA PointsGrowWith ==
    ASSUME ReportBounds, NEW k \in [Events -> Nat], NEW q \in [Events -> Nat], NEW e \in Events, k[e] <= q[e]
    PROVE  RiskPoints(k)[e] <= RiskPoints(q)[e]
<1>1. PICK w, top, tier \in Nat : w = Report!EventTypes[e].weight /\ top = Report!EventTypes[e].cap /\ tier = Report!EventTypes[e].tier
  BY EventsHaveWeight DEF ReportBounds
<1>2. PICK x, y : x = (IF k[e] * w > top THEN top ELSE k[e] * w) /\ y = (IF q[e] * w > top THEN top ELSE q[e] * w)
  OBVIOUS
<1>3. RiskPoints(k)[e] = x * tier /\ RiskPoints(q)[e] = y * tier
  BY <1>1, <1>2 DEF RiskPoints
<1>4. w * k[e] <= w * q[e] /\ w * k[e] = k[e] * w /\ w * q[e] = q[e] * w /\ k[e] * w \in Nat /\ q[e] * w \in Nat
  <2>1. k[e] \in Int /\ q[e] \in Int /\ k[e] \in Nat /\ q[e] \in Nat
    OBVIOUS
  <2> QED
    BY <1>1, <2>1, NoLess
<1>5. x \in Int /\ y \in Int /\ x <= y
  BY <1>1, <1>2, <1>4
<1>6. tier * x <= tier * y /\ tier * x = x * tier /\ tier * y = y * tier
  BY <1>1, <1>5, NoLess
<1> QED
  BY <1>3, <1>6

LEMMA BonusesGrow ==
    ASSUME ReportBounds, NEW k \in [Events -> Nat], NEW q \in [Events -> Nat], \A e \in Events : k[e] <= q[e]
    PROVE  RiskBonus(k) <= RiskBonus(q) /\ RiskBonus(k) \in Nat /\ RiskBonus(q) \in Nat
<1>1. RiskFamilies(k) \subseteq RiskFamilies(q)
  BY DEF RiskFamilies
<1>2. PICK m, n \in Nat : m = Cardinality(RiskFamilies(k)) /\ n = Cardinality(RiskFamilies(q))
  BY FamiliesAreCounted
<1>3. m <= n
  BY <1>1, <1>2, FamiliesAreCounted, FS_Subset
<1>4. RiskBonus(k) = (IF m < 2 THEN 0 ELSE IF m = 2 THEN 1000 ELSE 1800) /\ RiskBonus(q) = (IF n < 2 THEN 0 ELSE IF n = 2 THEN 1000 ELSE 1800)
  BY <1>2 DEF RiskBonus
<1> QED
  BY <1>2, <1>3, <1>4

LEMMA RisksGrow ==
    ASSUME ReportBounds, NEW k \in [Events -> Nat], NEW q \in [Events -> Nat],
           \A e \in Events \ Report!NonScoring : k[e] <= q[e]
    PROVE  RiskOf(RiskRaw(k)) <= RiskOf(RiskRaw(q)) /\ RiskOf(RiskRaw(k)) \in 0 .. 100
<1> DEFINE S == Events \ Report!NonScoring
           r == [e \in Events |-> IF e \in Report!NonScoring THEN k[e] ELSE q[e]]
<1>1. IsFiniteSet(S)
  BY EventsAreFew, FS_Subset
<1>2. r \in [Events -> Nat] /\ \A e \in Events : k[e] <= r[e]
  OBVIOUS
<1>3. RiskBonus(r) = RiskBonus(q)
  <2>1. RiskFamilies(r) = RiskFamilies(q)
    BY DEF RiskFamilies, Report!Families, Report!NonScoring
  <2> QED
    BY <2>1 DEF RiskBonus
<1>4. RiskBonus(k) <= RiskBonus(q) /\ RiskBonus(k) \in Nat /\ RiskBonus(q) \in Nat
  <2> HIDE DEF r
  <2>1. RiskBonus(k) <= RiskBonus(r) /\ RiskBonus(k) \in Nat /\ RiskBonus(r) \in Nat
    BY <1>2, BonusesGrow
  <2> QED
    BY <1>3, <2>1
<1>5. Whole(S, RiskPoints(k)) /\ Whole(S, RiskPoints(q)) /\ (\A e \in S : RiskPoints(k)[e] >= 0) /\ \A e \in S : RiskPoints(k)[e] <= RiskPoints(q)[e]
  BY RiskPointsAreWhole, PointsGrowWith
<1> HIDE DEF S
<1>6. SumOver(S, RiskPoints(k)) \in Nat
  BY <1>1, <1>5, SumIsNatural
<1>7. SumOver(S, RiskPoints(q)) \in Int /\ SumOver(S, RiskPoints(k)) <= SumOver(S, RiskPoints(q))
  BY <1>1, <1>5, SumIsLess
<1>8. PICK x, y \in Nat : x = RiskRaw(k) /\ y = RiskRaw(q) /\ x <= y
  <2>1. RiskRaw(k) = SumOver(S, RiskPoints(k)) + RiskBonus(k) /\ RiskRaw(q) = SumOver(S, RiskPoints(q)) + RiskBonus(q)
    BY DEF RiskRaw, S
  <2>2. RiskRaw(k) \in Nat /\ RiskRaw(q) \in Nat /\ RiskRaw(k) <= RiskRaw(q)
    BY <1>4, <1>6, <1>7, <2>1
  <2> QED
    BY <2>2
<1>9. RiskOf(x) <= RiskOf(y) /\ RiskOf(x) \in 0 .. 100
  <2>1. PICK v, w : v = (2 * x + 100) \div 200 /\ w = (2 * y + 100) \div 200
    OBVIOUS
  <2>2. v \in Int /\ w \in Int /\ v <= w
    <3>1. 2 * x + 100 \in Int /\ 2 * y + 100 \in Int /\ 2 * x + 100 <= 2 * y + 100 /\ 200 \in Nat
      BY <1>8
    <3> QED
      BY <2>1, <3>1, Quotient, QuotientGrows
  <2>3. v >= 0 /\ (x <= 10000 => v <= 100) /\ (y <= 10000 => w <= 100)
    BY <2>1
  <2>4. RiskOf(x) = (IF x > 10000 THEN 100 ELSE v) /\ RiskOf(y) = (IF y > 10000 THEN 100 ELSE w)
    BY <2>1 DEF RiskOf
  <2> QED
    BY <1>8, <2>2, <2>3, <2>4
<1> QED
  BY <1>8, <1>9

LEMMA EventsTell ==
    ASSUME ReportBounds, ReportTypes, ReportTypes', [Report!Next]_Report!vars
    PROVE  /\ Report!RiskScore' >= Report!RiskScore
           /\ (\A e \in Events \ Report!NonScoring : counts'[e] = counts[e]) => Report!RiskScore' = Report!RiskScore
           /\ (\A e \in Events \ Report!BrowserTier : counts'[e] = 0) => Report!RiskBand' = "low"
<1>1. PICK k, q \in [Events -> Nat] : k = counts /\ q = counts'
  BY DEF ReportTypes
<1>2. \A e \in Events : k[e] <= q[e]
  <2>1. CASE q = k
    BY <2>1
  <2>2. ASSUME NEW f \in Events, Report!Event(f) PROVE \A e \in Events : k[e] <= q[e]
    BY <1>1, <2>2 DEF Report!Event
  <2>3. q = k \/ \E f \in Events : Report!Event(f)
    BY <1>1 DEF Report!Next, Report!vars, Report!Anchor, Report!Piece, Report!Turn, Report!Observe, Report!Role
  <2> QED
    BY <2>1, <2>2, <2>3
<1>3. PICK x, y : x = RiskOf(RiskRaw(k)) /\ y = RiskOf(RiskRaw(q))
  OBVIOUS
<1>4. x = Report!RiskScore /\ y = Report!RiskScore'
  BY <1>1, <1>3, RiskIsRead
<1>5. x <= y /\ x \in 0 .. 100
  BY <1>2, <1>3, RisksGrow
<1>6. y \in 0 .. 100 /\ ((\A e \in Events \ Report!NonScoring : q[e] = k[e]) => y <= x)
  <2>1. \A e \in Events : q[e] <= q[e]
    OBVIOUS
  <2>2. y \in 0 .. 100
    BY <1>3, <2>1, RisksGrow
  <2>3. ASSUME \A e \in Events \ Report!NonScoring : q[e] = k[e] PROVE y <= x
    <3>1. \A e \in Events \ Report!NonScoring : q[e] <= k[e]
      BY <2>3
    <3> QED
      BY <1>3, <3>1, RisksGrow
  <2> QED
    BY <2>2, <2>3
<1>7. (\A e \in Events \ Report!BrowserTier : counts'[e] = 0) => Report!RiskBand' = "low"
  <2> SUFFICES ASSUME \A e \in Events \ Report!BrowserTier : counts'[e] = 0 PROVE Report!RiskBand' = "low"
    OBVIOUS
  <2>1. ~Report!HasCorroboratingSignal'
    BY DEF Report!HasCorroboratingSignal
  <2> QED
    BY <2>1 DEF Report!RiskBand
<1> QED
  BY <1>1, <1>4, <1>5, <1>6, <1>7


-----------------------------------------------------------------------------
(* The stars of an axis.                                                     *)

AxisPresent(o) == {n \in DOMAIN Indicators : o[n] \in {"absent", "quoted"}}
AxisGood(o) == {n \in AxisPresent(o) : Indicators[n] > 0}
AxisShown(o) == {n \in AxisGood(o) : o[n] = "quoted"}
AxisBad(o) == {n \in AxisPresent(o) : Indicators[n] < 0 /\ o[n] = "quoted"}
Total(S) == SumOver(S, Indicators)
StarsEarned(o) == 100 * Total(AxisShown(o)) + Total(AxisBad(o)) * Total(AxisGood(o))
HalfStars(earned, good) == IF earned <= 0 THEN 0 ELSE (2 * earned + 10 * good) \div (20 * good)
Scored(o) == ~(2 * Cardinality(AxisPresent(o)) < Cardinality(DOMAIN Indicators) \/ AxisGood(o) = {})
Observations == [DOMAIN Indicators -> Report!Readings]

LEMMA AxisSums ==
    ASSUME ReportBounds, NEW o \in Observations
    PROVE  /\ IsFiniteSet(AxisGood(o)) /\ IsFiniteSet(AxisShown(o)) /\ IsFiniteSet(AxisBad(o)) /\ IsFiniteSet(AxisPresent(o))
           /\ Whole(DOMAIN Indicators, Indicators) /\ Whole(AxisGood(o), Indicators) /\ Whole(AxisShown(o), Indicators) /\ Whole(AxisBad(o), Indicators)
           /\ Total(AxisGood(o)) \in Nat /\ Total(AxisShown(o)) \in Nat /\ Total(AxisBad(o)) \in Int
           /\ Total(AxisShown(o)) <= Total(AxisGood(o)) /\ Total(AxisBad(o)) <= 0
           /\ AxisGood(o) # {} => Total(AxisGood(o)) >= 1
<1>1. AxisPresent(o) \subseteq DOMAIN Indicators /\ AxisGood(o) \subseteq DOMAIN Indicators /\ AxisShown(o) \subseteq AxisGood(o) /\ AxisBad(o) \subseteq DOMAIN Indicators
  BY DEF AxisPresent, AxisGood, AxisShown, AxisBad
<1>2. IsFiniteSet(AxisGood(o)) /\ IsFiniteSet(AxisShown(o)) /\ IsFiniteSet(AxisBad(o)) /\ IsFiniteSet(AxisPresent(o))
  BY <1>1, FS_Subset DEF ReportBounds
<1>3. Whole(DOMAIN Indicators, Indicators) /\ Whole(AxisGood(o), Indicators) /\ Whole(AxisShown(o), Indicators) /\ Whole(AxisBad(o), Indicators)
  BY <1>1 DEF ReportBounds, Whole
<1>4. (\A n \in AxisGood(o) : Indicators[n] >= 0 /\ Indicators[n] >= 1) /\ (\A n \in AxisShown(o) : Indicators[n] >= 0) /\ (\A n \in AxisBad(o) : Indicators[n] <= 0)
  BY <1>1, <1>3 DEF AxisGood, AxisBad, Whole
<1>5. Total(AxisGood(o)) \in Nat
  BY <1>2, <1>3, <1>4, SumIsNatural DEF Total
<1>6. Total(AxisShown(o)) \in Nat
  BY <1>2, <1>3, <1>4, SumIsNatural DEF Total
<1>7. Total(AxisBad(o)) \in Int /\ Total(AxisBad(o)) <= 0
  <2>1. 1 \in Int /\ 0 \in Int
    OBVIOUS
  <2>2. \A n \in AxisBad(o) : 1 * Indicators[n] <= 0 * Indicators[n]
    BY <1>3, <1>4 DEF Whole
  <2>3. SumOver(AxisBad(o), Indicators) \in Int /\ 1 * SumOver(AxisBad(o), Indicators) <= 0 * SumOver(AxisBad(o), Indicators)
    BY <1>2, <1>3, <2>1, <2>2, SumsCompare
  <2> QED
    BY <2>3 DEF Total
<1>8. AxisGood(o) # {} => Total(AxisGood(o)) >= 1
  BY <1>2, <1>3, <1>4, SumIsPositive DEF Total
<1>9. Total(AxisShown(o)) <= Total(AxisGood(o))
  <2> DEFINE G == [n \in AxisGood(o) |-> IF n \in AxisShown(o) THEN Indicators[n] ELSE 0]
  <2>1. Whole(AxisGood(o), G) /\ (\A n \in AxisGood(o) : G[n] <= Indicators[n]) /\ (\A n \in AxisGood(o) \ AxisShown(o) : G[n] = 0)
        /\ \A n \in AxisShown(o) : G[n] = Indicators[n]
    BY <1>1, <1>3, <1>4 DEF Whole
  <2> HIDE DEF G
  <2>2. SumOver(AxisGood(o), G) \in Int /\ SumOver(AxisGood(o), G) <= SumOver(AxisGood(o), Indicators)
    BY <1>2, <1>3, <2>1, SumIsLess
  <2>3. SumOver(AxisGood(o), G) = SumOver(AxisShown(o), G)
    <3>1. AxisShown(o) \in SUBSET AxisGood(o)
      BY <1>1
    <3> QED
      BY <1>2, <2>1, <3>1, SumOfTheRest
  <2>4. SumOver(AxisShown(o), Indicators) <= SumOver(AxisShown(o), G)
    <3>1. Whole(AxisShown(o), G) /\ \A n \in AxisShown(o) : Indicators[n] <= G[n]
      BY <1>1, <1>3, <2>1 DEF Whole
    <3> QED
      BY <1>2, <1>3, <3>1, SumIsLess
  <2>5. SumOver(AxisShown(o), Indicators) \in Int /\ SumOver(AxisGood(o), Indicators) \in Int
    BY <1>5, <1>6 DEF Total
  <2> QED
    BY <2>2, <2>3, <2>4, <2>5 DEF Total
<1> QED
  BY <1>2, <1>3, <1>5, <1>6, <1>7, <1>8, <1>9

LEMMA AxisIsRead ==
    ASSUME ReportBounds, NEW o \in Observations
    PROVE  Report!ScoreAxis(o) = IF Scored(o) THEN HalfStars(StarsEarned(o), Total(AxisGood(o))) ELSE -1
<1>1. \A S : Report!MapThenSumSet(LAMBDA n : Indicators[n], S) = Total(S)
  BY DEF Report!MapThenSumSet, Report!MapThenFoldSet, Total, SumOver, MapThenSumSet, MapThenFoldSet
<1>2. Report!Present(o) = AxisPresent(o) /\ Report!Cardinality(AxisPresent(o)) = Cardinality(AxisPresent(o)) /\ Report!Cardinality(DOMAIN Indicators) = Cardinality(DOMAIN Indicators)
  BY ReportCounts DEF Report!Present, AxisPresent
<1>3. {n \in AxisPresent(o) : Indicators[n] > 0} = AxisGood(o) /\ {n \in AxisGood(o) : o[n] = "quoted"} = AxisShown(o)
      /\ {n \in AxisPresent(o) : Indicators[n] < 0 /\ o[n] = "quoted"} = AxisBad(o)
  BY DEF AxisGood, AxisShown, AxisBad
<1>4. PICK good : good = Total(AxisGood(o)) /\ good \in Nat
  BY AxisSums
<1>5. 2 * (10 * good) = 20 * good
  BY <1>4
<1>6. Report!ScoreAxis(o) = IF 2 * Cardinality(AxisPresent(o)) < Cardinality(DOMAIN Indicators) \/ AxisGood(o) = {} THEN -1
                            ELSE IF StarsEarned(o) <= 0 THEN 0 ELSE (2 * StarsEarned(o) + 10 * good) \div (2 * (10 * good))
  BY <1>1, <1>2, <1>3, <1>4 DEF Report!ScoreAxis, Report!HalfUp, StarsEarned
<1> QED
  BY <1>4, <1>5, <1>6 DEF Scored, HalfStars

LEMMA StarsByShare ==
    ASSUME NEW e \in Nat, NEW d \in Nat, NEW p \in Nat, NEW r \in Nat, p >= 1, r >= 1, e * r <= d * p
    PROVE  (2 * e + 10 * p) \div (20 * p) <= (2 * d + 10 * r) \div (20 * r)
<1> DEFINE q == (2 * e + 10 * p) \div (20 * p)
           s == (2 * d + 10 * r) \div (20 * r)
<1>1. q \in Int /\ (20 * p) * q <= 2 * e + 10 * p
  <2>1. 2 * e + 10 * p \in Int /\ 20 * p \in Nat /\ 20 * p >= 1
    OBVIOUS
  <2> QED
    BY <2>1, Quotient
<1>2. s \in Int /\ 2 * d + 10 * r < (20 * r) * s + 20 * r
  <2>1. 2 * d + 10 * r \in Int /\ 20 * r \in Nat /\ 20 * r >= 1
    OBVIOUS
  <2> QED
    BY <2>1, Quotient
<1> HIDE DEF q, s
<1>3. ASSUME s + 1 <= q PROVE FALSE
  <2>1. PICK a \in Int : a = 20 * (s + 1)
    BY <1>2
  <2>2. (20 * p) * (s + 1) <= (20 * p) * q
    <3>1. 20 * p \in Nat /\ s + 1 \in Int
      BY <1>2
    <3> QED
      BY <1>1, <1>3, <3>1, NoLess
  <2>3. (20 * p) * (s + 1) = p * a /\ (20 * r) * s + 20 * r = r * a /\ (20 * p) * q \in Int
    BY <1>1, <1>2, <2>1
  <2>4. p * a <= 2 * e + 10 * p /\ 2 * d + 10 * r <= r * a - 1
    <3>1. p * a \in Int /\ r * a \in Int
      BY <2>1
    <3> QED
      BY <1>1, <1>2, <2>2, <2>3, <3>1
  <2>5. r * (p * a) <= r * (2 * e + 10 * p)
    <3>1. p * a \in Int /\ 2 * e + 10 * p \in Int
      BY <2>1
    <3> QED
      BY <2>4, <3>1, NoLess
  <2>6. p * (2 * d + 10 * r) <= p * (r * a - 1)
    <3>1. 2 * d + 10 * r \in Int /\ r * a - 1 \in Int
      BY <2>1
    <3> QED
      BY <2>4, <3>1, NoLess
  <2>7. r * (2 * e + 10 * p) = 2 * (e * r) + 10 * (p * r) /\ p * (2 * d + 10 * r) = 2 * (d * p) + 10 * (p * r) /\ p * (r * a - 1) = r * (p * a) - p
    BY <2>1
  <2>8. e * r \in Int /\ d * p \in Int /\ p * r \in Int /\ r * (p * a) \in Int
    BY <2>1
  <2> QED
    BY <2>5, <2>6, <2>7, <2>8
<1> QED
  BY <1>1, <1>2, <1>3 DEF q, s

LEMMA StarsRise ==
    ASSUME NEW e \in Int, NEW d \in Int, NEW p \in Nat, NEW r \in Nat, p >= 1, r >= 1, e * r <= d * p
    PROVE  HalfStars(e, p) <= HalfStars(d, r) /\ HalfStars(e, p) \in Nat
<1>1. ASSUME NEW x \in Nat, NEW y \in Nat, y >= 1 PROVE (2 * x + 10 * y) \div (20 * y) \in Nat
  <2>1. PICK z : z = (2 * x + 10 * y) \div (20 * y)
    OBVIOUS
  <2>2. z \in Int /\ 2 * x + 10 * y < (20 * y) * z + 20 * y
    <3>1. 2 * x + 10 * y \in Int /\ 20 * y \in Nat /\ 20 * y >= 1
      BY <1>1
    <3> QED
      BY <2>1, <3>1, Quotient
  <2>3. ASSUME z <= -1 PROVE FALSE
    <3>1. (20 * y) * z <= (20 * y) * (-1)
      <4>1. 20 * y \in Nat /\ -1 \in Int
        BY <1>1
      <4> QED
        BY <2>2, <2>3, <4>1, NoLess
    <3>2. (20 * y) * z \in Int /\ (20 * y) * (-1) = -(20 * y)
      BY <1>1, <2>2
    <3> QED
      BY <1>1, <2>2, <3>1, <3>2
  <2> QED
    BY <2>1, <2>2, <2>3
<1>2. CASE e <= 0
  <2>1. HalfStars(e, p) = 0
    BY <1>2 DEF HalfStars
  <2>2. HalfStars(d, r) \in Nat
    BY <1>1 DEF HalfStars
  <2> QED
    BY <2>1, <2>2
<1>3. CASE e >= 1
  <2>1. d >= 1
    <3> SUFFICES ASSUME d <= 0 PROVE FALSE
      OBVIOUS
    <3>1. p * d <= p * 0 /\ r * 1 <= r * e
      <4>1. 0 \in Int /\ 1 \in Int
        OBVIOUS
      <4> QED
        BY <1>3, <4>1, NoLess
    <3>2. p * d = d * p /\ p * 0 = 0 /\ r * 1 = r /\ r * e = e * r /\ d * p \in Int /\ e * r \in Int
      OBVIOUS
    <3> QED
      BY <3>1, <3>2
  <2>2. (2 * e + 10 * p) \div (20 * p) <= (2 * d + 10 * r) \div (20 * r)
    BY <1>3, <2>1, StarsByShare
  <2>3. (2 * e + 10 * p) \div (20 * p) \in Nat
    BY <1>1, <1>3
  <2> QED
    BY <1>3, <2>1, <2>2, <2>3 DEF HalfStars
<1> QED
  BY <1>2, <1>3

(* At most ten half stars.                                                   *)
LEMMA StarsAreTen ==
    ASSUME ReportBounds, NEW o \in Observations
    PROVE  Report!ScoreAxis(o) \in -1 .. 10
<1>1. PICK good, shown, bad : good = Total(AxisGood(o)) /\ shown = Total(AxisShown(o)) /\ bad = Total(AxisBad(o))
  OBVIOUS
<1>2. good \in Nat /\ shown \in Nat /\ bad \in Int /\ shown <= good /\ bad <= 0 /\ (AxisGood(o) # {} => good >= 1)
  BY <1>1, AxisSums
<1>3. CASE ~Scored(o)
  BY <1>3, AxisIsRead
<1>4. CASE Scored(o)
  <2>1. good >= 1
    BY <1>2, <1>4 DEF Scored
  <2>2. PICK e \in Int : e = StarsEarned(o) /\ e = 100 * shown + bad * good
    <3>1. 100 * shown + bad * good \in Int
      BY <1>2
    <3> QED
      BY <1>1, <3>1 DEF StarsEarned
  <2>3. e <= 100 * good
    <3>1. good * bad <= good * 0
      <4>1. 0 \in Int
        OBVIOUS
      <4> QED
        BY <1>2, <4>1, NoLess
    <3>2. good * bad = bad * good /\ good * 0 = 0 /\ bad * good \in Int
      BY <1>2
    <3> QED
      BY <1>2, <2>2, <3>1, <3>2
  <2>4. e * 1 <= 100 * good /\ HalfStars(e, good) \in Nat
    <3>1. e * good <= e * good
      BY <1>2, <2>2
    <3> QED
      BY <1>2, <2>1, <2>2, <2>3, <3>1, StarsRise
  <2>5. HalfStars(e, good) <= 10
    <3>1. CASE e <= 0
      BY <3>1 DEF HalfStars
    <3>2. CASE e >= 1
      <4>1. PICK z : z = (2 * e + 10 * good) \div (20 * good)
        OBVIOUS
      <4>2. z \in Int /\ (20 * good) * z <= 2 * e + 10 * good
        <5>1. 2 * e + 10 * good \in Int /\ 20 * good \in Nat /\ 20 * good >= 1
          BY <1>2, <2>1, <2>2
        <5> QED
          BY <4>1, <5>1, Quotient
      <4>3. ASSUME 11 <= z PROVE FALSE
        <5>1. (20 * good) * 11 <= (20 * good) * z
          <6>1. 20 * good \in Nat /\ 11 \in Int
            BY <1>2
          <6> QED
            BY <4>2, <4>3, <6>1, NoLess
        <5>2. (20 * good) * 11 = 220 * good /\ (20 * good) * z \in Int
          BY <1>2, <4>2
        <5> QED
          BY <1>2, <2>1, <2>2, <2>3, <4>2, <5>1, <5>2
      <4> QED
        BY <3>2, <4>1, <4>2, <4>3 DEF HalfStars
    <3> QED
      BY <2>2, <3>1, <3>2
  <2>6. Report!ScoreAxis(o) = HalfStars(e, good)
    BY <1>1, <1>4, <2>2, AxisIsRead
  <2> QED
    BY <2>4, <2>5, <2>6
<1> QED
  BY <1>3, <1>4

(* One more sign.                                                            *)
LEMMA SignsTell ==
    ASSUME ReportBounds, NEW o \in Observations, NEW n \in DOMAIN Indicators, o[n] = "unobserved",
           NEW q, q = [o EXCEPT ![n] = "quoted"], Report!ScoreAxis(o) >= 0
    PROVE  IF Indicators[n] > 0 THEN Report!ScoreAxis(q) >= Report!ScoreAxis(o) ELSE Report!ScoreAxis(q) <= Report!ScoreAxis(o)
<1>1. q \in Observations /\ q[n] = "quoted" /\ \A x \in DOMAIN Indicators \ {n} : q[x] = o[x]
  BY DEF Observations, Report!Readings
<1>2. Scored(o)
  BY AxisIsRead
<1>3. PICK good, shown, bad : /\ good = Total(AxisGood(o)) /\ shown = Total(AxisShown(o)) /\ bad = Total(AxisBad(o))
                              /\ good \in Nat /\ shown \in Nat /\ bad \in Int /\ shown <= good /\ bad <= 0 /\ good >= 1
  BY <1>2, AxisSums DEF Scored
<1>4. PICK w \in Int : w = Indicators[n]
  BY AxisSums DEF Whole
<1>5. AxisPresent(q) = AxisPresent(o) \cup {n} /\ n \notin AxisPresent(o)
  BY <1>1 DEF AxisPresent
<1>6. /\ AxisGood(q) = (IF w > 0 THEN AxisGood(o) \cup {n} ELSE AxisGood(o)) /\ n \notin AxisGood(o)
      /\ AxisShown(q) = (IF w > 0 THEN AxisShown(o) \cup {n} ELSE AxisShown(o)) /\ n \notin AxisShown(o)
      /\ AxisBad(q) = (IF w < 0 THEN AxisBad(o) \cup {n} ELSE AxisBad(o)) /\ n \notin AxisBad(o)
  BY <1>1, <1>4, <1>5 DEF AxisGood, AxisShown, AxisBad, AxisPresent
<1>7. Scored(q)
  <2>1. IsFiniteSet(AxisPresent(q)) /\ IsFiniteSet(AxisPresent(o)) /\ AxisPresent(o) \subseteq AxisPresent(q)
    BY <1>1, <1>5, AxisSums
  <2>2. PICK a, b, d : a = Cardinality(AxisPresent(o)) /\ b = Cardinality(AxisPresent(q)) /\ d = Cardinality(DOMAIN Indicators)
    OBVIOUS
  <2>3. a \in Nat /\ b \in Nat /\ d \in Nat /\ a <= b
    BY <2>1, <2>2, FS_CardinalityType, FS_Subset DEF ReportBounds
  <2>4. ~(2 * b < d)
    BY <1>2, <2>2, <2>3 DEF Scored
  <2>5. AxisGood(q) # {}
    BY <1>2, <1>6 DEF Scored
  <2> QED
    BY <2>2, <2>4, <2>5 DEF Scored
<1>8. Report!ScoreAxis(o) = HalfStars(StarsEarned(o), good) /\ StarsEarned(o) = 100 * shown + bad * good
  BY <1>2, <1>3, AxisIsRead DEF StarsEarned
<1>9. Report!ScoreAxis(q) = HalfStars(StarsEarned(q), Total(AxisGood(q))) /\ StarsEarned(q) = 100 * Total(AxisShown(q)) + Total(AxisBad(q)) * Total(AxisGood(q))
  BY <1>1, <1>7, AxisIsRead DEF StarsEarned
<1>10. ASSUME NEW S, IsFiniteSet(S), S \subseteq DOMAIN Indicators, n \notin S PROVE Total(S \cup {n}) = Total(S) + w
  <2>1. Whole(S \cup {n}, Indicators)
    BY <1>10, AxisSums DEF Whole
  <2> QED
    BY <1>4, <1>10, <2>1, SumJoins DEF Total
<1>11. /\ AxisGood(o) \subseteq DOMAIN Indicators /\ AxisShown(o) \subseteq DOMAIN Indicators /\ AxisBad(o) \subseteq DOMAIN Indicators
       /\ IsFiniteSet(AxisGood(o)) /\ IsFiniteSet(AxisShown(o)) /\ IsFiniteSet(AxisBad(o))
  BY AxisSums DEF AxisGood, AxisShown, AxisBad, AxisPresent
<1>12. CASE w > 0
  <2>1. Total(AxisGood(q)) = good + w /\ Total(AxisShown(q)) = shown + w /\ Total(AxisBad(q)) = bad
    <3>1. AxisGood(q) = AxisGood(o) \cup {n} /\ AxisShown(q) = AxisShown(o) \cup {n} /\ AxisBad(q) = AxisBad(o)
      <4>1. w > 0 /\ ~(w < 0)
        BY <1>4, <1>12
      <4> QED
        BY <1>6, <4>1, Zenon
    <3>2. Total(AxisGood(o) \cup {n}) = Total(AxisGood(o)) + w /\ Total(AxisShown(o) \cup {n}) = Total(AxisShown(o)) + w
      BY <1>6, <1>10, <1>11
    <3> QED
      BY <1>3, <3>1, <3>2
  <2>2. PICK e, d \in Int : e = 100 * shown + bad * good /\ d = 100 * (shown + w) + bad * (good + w)
    <3>1. 100 * shown + bad * good \in Int /\ 100 * (shown + w) + bad * (good + w) \in Int
      BY <1>3
    <3> QED
      BY <3>1
  <2>3. e * (good + w) <= d * good
    <3>1. PICK z \in Nat : good = shown + z
      <4>1. good - shown \in Nat /\ good = shown + (good - shown)
        BY <1>3
      <4> QED
        BY <4>1
    <3>2. (100 * w) * z \in Nat
      <4>1. 100 * w \in Nat
        BY <1>12
      <4> QED
        BY <4>1
    <3>3. e * (good + w) = 100 * (shown * good) + 100 * (shown * w) + bad * (good * (good + w))
      BY <1>3, <2>2
    <3>4. d * good = 100 * (shown * good) + 100 * (w * good) + bad * (good * (good + w))
      BY <1>3, <2>2
    <3>5. 100 * (w * good) = 100 * (shown * w) + (100 * w) * z
      <4>1. w * (shown + z) = shown * w + w * z /\ (100 * w) * z = 100 * (w * z)
        BY <1>3
      <4>2. shown * w \in Int /\ w * z \in Int
        BY <1>3
      <4> QED
        BY <3>1, <4>1, <4>2
    <3>6. 100 * (shown * good) \in Int /\ 100 * (shown * w) \in Int /\ bad * (good * (good + w)) \in Int
      BY <1>3
    <3> QED
      BY <3>2, <3>3, <3>4, <3>5, <3>6
  <2>4. good + w \in Nat /\ good + w >= 1
    BY <1>3, <1>12
  <2>5. HalfStars(e, good) <= HalfStars(d, good + w) /\ HalfStars(e, good) \in Nat
    <3>1. PICK r \in Nat : r = good + w /\ r >= 1 /\ e * r <= d * good
      BY <2>3, <2>4
    <3>2. HalfStars(e, good) <= HalfStars(d, r) /\ HalfStars(e, good) \in Nat
      <4>1. e \in Int /\ d \in Int /\ good \in Nat /\ r \in Nat /\ good >= 1 /\ r >= 1 /\ e * r <= d * good
        BY <1>3, <2>2, <3>1
      <4> QED
        BY <4>1, StarsRise, Zenon
    <3> QED
      BY <3>1, <3>2
  <2>6. Report!ScoreAxis(o) = HalfStars(e, good) /\ Report!ScoreAxis(q) = HalfStars(d, good + w)
    BY <1>8, <1>9, <2>1, <2>2
  <2>7. Report!ScoreAxis(q) \in Int /\ Report!ScoreAxis(o) \in Int
    BY <1>1, StarsAreTen
  <2> QED
    BY <1>4, <1>12, <2>5, <2>6, <2>7
<1>13. CASE w <= 0
  <2>1. Total(AxisGood(q)) = good /\ Total(AxisShown(q)) = shown
    BY <1>3, <1>6, <1>13
  <2>2. Total(AxisBad(q)) = bad \/ Total(AxisBad(q)) = bad + w
    BY <1>3, <1>4, <1>6, <1>10, <1>11
  <2>3. PICK more \in Int : more = Total(AxisBad(q)) /\ more <= bad
    BY <1>3, <1>13, <2>2
  <2>4. PICK e, d \in Int : e = 100 * shown + bad * good /\ d = 100 * shown + more * good
    <3>1. 100 * shown + bad * good \in Int /\ 100 * shown + more * good \in Int
      BY <1>3
    <3> QED
      BY <3>1
  <2>5. d <= e
    <3>1. good * more <= good * bad
      BY <1>3, <2>3, NoLess
    <3>2. good * more = more * good /\ good * bad = bad * good /\ more * good \in Int /\ bad * good \in Int
      BY <1>3
    <3> QED
      BY <1>3, <2>4, <3>1, <3>2
  <2>6. d * good <= e * good
    <3>1. good * d <= good * e /\ good * d = d * good /\ good * e = e * good
      BY <1>3, <2>5, NoLess
    <3> QED
      BY <3>1
  <2>7. HalfStars(d, good) <= HalfStars(e, good)
    BY <1>3, <2>4, <2>6, StarsRise
  <2>8. Report!ScoreAxis(o) = HalfStars(e, good) /\ Report!ScoreAxis(q) = HalfStars(d, good)
    BY <1>8, <1>9, <2>1, <2>3, <2>4
  <2> QED
    BY <1>4, <1>13, <2>7, <2>8
<1> QED
  BY <1>4, <1>12, <1>13


-----------------------------------------------------------------------------
(* The months of experience: each period, by its start, adds what no period
   before it has covered.                                                    *)

RoleDates == [months : Int, coveredTo : Int]
NoRoles == [months |-> 0, coveredTo |-> -1]
Covered(t) == {m \in Months : \E i \in t : periods[i][1] <= m /\ m < periods[i][2]}
Furthest(t, to) == IF t = {} THEN to = -1 ELSE (\E i \in t : to = periods[i][2]) /\ \A i \in t : periods[i][2] <= to

LEMMA RolesAreDated ==
    ASSUME ReportBounds, ReportTypes
    PROVE  /\ \A i \in Report!Dated : periods[i][1] \in Nat /\ periods[i][2] \in Nat /\ periods[i][1] <= periods[i][2]
                                      /\ periods[i][1] \in Months /\ periods[i][2] \in Months
           /\ IsFiniteSet(Report!Dated) /\ \E n \in Nat : Report!Dated \subseteq 1 .. n
<1>1. PICK last \in Nat : Months = 0 .. last
  BY DEF ReportBounds
<1>2. DOMAIN periods = 1 .. Len(periods) /\ Len(periods) \in Nat /\ \A i \in DOMAIN periods : periods[i] \in Months \X Months
  BY DEF ReportTypes
<1>3. Report!Dated \subseteq 1 .. Len(periods)
  BY <1>2 DEF Report!Dated
<1>4. IsFiniteSet(Report!Dated)
  <2>1. 1 \in Int /\ Len(periods) \in Int
    BY <1>2
  <2>2. IsFiniteSet(1 .. Len(periods))
    BY <2>1, FS_Interval
  <2> QED
    BY <1>3, <2>2, FS_Subset
<1>5. \A i \in Report!Dated : periods[i][1] \in Months /\ periods[i][2] \in Months /\ periods[i][2] >= periods[i][1]
  BY <1>2 DEF Report!Dated
<1>6. \E n \in Nat : Report!Dated \subseteq 1 .. n
  BY <1>2, <1>3
<1>7. \A i \in Report!Dated : periods[i][1] \in Nat /\ periods[i][2] \in Nat /\ periods[i][1] <= periods[i][2]
  BY <1>1, <1>5
<1> QED
  BY <1>4, <1>5, <1>6, <1>7

LEMMA LatestIsLast ==
    ASSUME ReportBounds, ReportTypes, NEW t \in SUBSET Report!Dated, t # {}
    PROVE  Report!Latest(t) \in t /\ \A j \in t : periods[j][1] <= periods[Report!Latest(t)][1]
<1>1. PICK last \in Nat : Months = 0 .. last
  BY DEF ReportBounds
<1>2. PICK n \in Nat : t \subseteq 1 .. n
  BY RolesAreDated
<1>3. \A j \in t : periods[j][1] \in Nat /\ periods[j][1] <= last
  BY <1>1, RolesAreDated
<1> DEFINE Starts == {periods[j][1] : j \in t}
<1>4. PICK s \in Starts : \A y \in Starts : y <= s
  <2>1. Starts # {} /\ \A y \in Starts : y \in Nat /\ y <= last
    BY <1>3
  <2> HIDE DEF Starts
  <2> QED
    BY <2>1, GreatestOf
<1>5. (\E j \in t : periods[j][1] = s) /\ \A j \in t : periods[j][1] <= s
  BY <1>4
<1> DEFINE Same == {j \in t : periods[j][1] = s}
<1>6. PICK z \in Same : \A y \in Same : y <= z
  <2>1. Same # {} /\ \A y \in Same : y \in Nat /\ y <= n
    BY <1>2, <1>5
  <2> HIDE DEF Same
  <2> QED
    BY <2>1, GreatestOf
<1>7. z \in t /\ \A j \in t : periods[j][1] < periods[z][1] \/ (periods[j][1] = periods[z][1] /\ j <= z)
  BY <1>3, <1>5, <1>6
<1>8. Report!Latest(t) \in t /\ \A j \in t : \/ periods[j][1] < periods[Report!Latest(t)][1]
                                             \/ periods[j][1] = periods[Report!Latest(t)][1] /\ j <= Report!Latest(t)
  BY <1>7 DEF Report!Latest
<1> QED
  BY <1>3, <1>8

LEMMA MergedIsOne ==
    ASSUME NEW p, p[1] \in Int, p[2] \in Int, NEW acc \in RoleDates
    PROVE  Report!MergePeriod(p, acc) \in RoleDates
<1>1. acc.months \in Int /\ acc.coveredTo \in Int
  BY DEF RoleDates
<1>2. PICK from \in Int : from = (IF p[1] > acc.coveredTo THEN p[1] ELSE acc.coveredTo)
  BY <1>1
<1>3. PICK m, to \in Int : m = (IF p[2] > from THEN acc.months + p[2] - from ELSE acc.months) /\ to = (IF p[2] > acc.coveredTo THEN p[2] ELSE acc.coveredTo)
  BY <1>1, <1>2
<1>4. Report!MergePeriod(p, acc) = [months |-> m, coveredTo |-> to]
  BY <1>2, <1>3 DEF Report!MergePeriod
<1> QED
  BY <1>4 DEF RoleDates

LEMMA MonthsAreTabled ==
    ASSUME ReportBounds, ReportTypes
    PROVE  \E g \in [SUBSET Report!Dated -> RoleDates] :
               /\ Report!TotalMonths = g[Report!Dated].months
               /\ \A t \in SUBSET Report!Dated : g[t] = IF t = {} THEN NoRoles ELSE Report!MergePeriod(periods[Report!Latest(t)], g[t \ {Report!Latest(t)}])
<1> DEFINE I == CHOOSE iter : iter = [s \in SUBSET Report!Dated |-> IF s = {} THEN [months |-> 0, coveredTo |-> -1]
                                          ELSE Report!MergePeriod(periods[Report!Latest(s)], iter[s \ {Report!Latest(s)}])]
           S == Report!Dated
           c == [t \in SUBSET S |-> Report!Latest(t)]
           F == [p \in S \X RoleDates |-> Report!MergePeriod(periods[p[1]], p[2])]
<1>1. Report!TotalMonths = I[Report!Dated].months
  BY DEF Report!TotalMonths, Report!MapThenFoldSet
<1>2. NoRoles \in RoleDates /\ IsFiniteSet(S) /\ Asks(S, c) /\ F \in [S \X RoleDates -> RoleDates]
  <2>1. NoRoles \in RoleDates
    BY DEF NoRoles, RoleDates
  <2>2. IsFiniteSet(S)
    BY RolesAreDated
  <2>3. Asks(S, c)
    BY LatestIsLast DEF Asks
  <2>4. ASSUME NEW i \in S, NEW acc \in RoleDates PROVE Report!MergePeriod(periods[i], acc) \in RoleDates
    <3>1. periods[i][1] \in Int /\ periods[i][2] \in Int
      BY RolesAreDated
    <3> QED
      BY <3>1, MergedIsOne
  <2>5. F \in [S \X RoleDates -> RoleDates]
    BY <2>4
  <2> QED
    BY <2>1, <2>2, <2>3, <2>5
<1>3. PICK g \in [SUBSET S -> RoleDates] : FoldTables(S, NoRoles, c, F, g)
  <2> HIDE DEF c, F, S
  <2> QED
    BY <1>2, FoldsExist
<1>4. ASSUME NEW t \in SUBSET S PROVE g[t] = IF t = {} THEN NoRoles ELSE Report!MergePeriod(periods[Report!Latest(t)], g[t \ {Report!Latest(t)}])
  <2>1. CASE t = {}
    BY <1>3, <2>1 DEF FoldTables, Folded
  <2>2. CASE t # {}
    <3>1. c[t] = Report!Latest(t) /\ Report!Latest(t) \in S /\ t \ {Report!Latest(t)} \in SUBSET S
      BY <2>2, LatestIsLast
    <3>2. g[t \ {Report!Latest(t)}] \in RoleDates
      BY <3>1
    <3>3. F[<<Report!Latest(t), g[t \ {Report!Latest(t)}]>>] = Report!MergePeriod(periods[Report!Latest(t)], g[t \ {Report!Latest(t)}])
      BY <3>1, <3>2
    <3> HIDE DEF c, F
    <3> QED
      BY <1>3, <2>2, <3>1, <3>3 DEF FoldTables, Folded
  <2> QED
    BY <2>1, <2>2
<1>5. g = [s \in SUBSET Report!Dated |-> IF s = {} THEN [months |-> 0, coveredTo |-> -1]
                                          ELSE Report!MergePeriod(periods[Report!Latest(s)], g[s \ {Report!Latest(s)}])]
  BY <1>4 DEF NoRoles
<1>6. I = [s \in SUBSET Report!Dated |-> IF s = {} THEN [months |-> 0, coveredTo |-> -1]
                                          ELSE Report!MergePeriod(periods[Report!Latest(s)], I[s \ {Report!Latest(s)}])]
  BY <1>5
<1>7. ASSUME NEW t \in SUBSET S PROVE I[t] = IF t = {} THEN NoRoles ELSE Report!MergePeriod(periods[Report!Latest(t)], I[t \ {Report!Latest(t)}])
  <2> HIDE DEF I
  <2> QED
    BY <1>6 DEF NoRoles
<1> HIDE DEF I
<1> DEFINE T == {t \in SUBSET S : I[t] = g[t]}
<1>8. ASSUME NEW t \in SUBSET S, \A u \in SUBSET S : Cardinality(u) < Cardinality(t) => u \in T PROVE t \in T
  <2>1. CASE t = {}
    BY <1>4, <1>7, <2>1
  <2>2. CASE t # {}
    <3>1. Report!Latest(t) \in t
      BY <2>2, LatestIsLast
    <3>2. t \ {Report!Latest(t)} \in SUBSET S /\ Cardinality(t \ {Report!Latest(t)}) < Cardinality(t)
      BY <1>2, <3>1, AskedLess
    <3>3. I[t \ {Report!Latest(t)}] = g[t \ {Report!Latest(t)}]
      BY <1>8, <3>2
    <3> QED
      BY <1>4, <1>7, <2>2, <3>3
  <2> QED
    BY <2>1, <2>2
<1>9. S \in T
  <2>1. \A t \in SUBSET S : t \in T
    <3> HIDE DEF T, S
    <3> QED
      BY <1>2, <1>8, SmallerFirst
  <2> QED
    BY <2>1
<1>10. I[S] = g[S]
  BY <1>9
<1> QED
  BY <1>1, <1>4, <1>10

(* What one more period adds.                                                *)
LEMMA OneMoreRole ==
    ASSUME ReportBounds, ReportTypes, NEW u \in SUBSET Report!Dated, NEW x \in Report!Dated, \A j \in u : periods[j][1] <= periods[x][1],
           NEW acc \in RoleDates, acc.months = Cardinality(Covered(u)), Furthest(u, acc.coveredTo)
    PROVE  /\ Report!MergePeriod(periods[x], acc).months = Cardinality(Covered(u \cup {x}))
           /\ Furthest(u \cup {x}, Report!MergePeriod(periods[x], acc).coveredTo)
<1>1. PICK last \in Nat : Months = 0 .. last
  BY DEF ReportBounds
<1>2. PICK a, b \in Nat : a = periods[x][1] /\ b = periods[x][2] /\ a <= b /\ b <= last
  BY <1>1, RolesAreDated
<1>3. PICK m, to \in Int : m = acc.months /\ to = acc.coveredTo
  BY DEF RoleDates
<1>4. PICK from \in Int : from = (IF a > to THEN a ELSE to)
  BY <1>2, <1>3
<1>5. /\ Report!MergePeriod(periods[x], acc).months = (IF b > from THEN m + b - from ELSE m)
      /\ Report!MergePeriod(periods[x], acc).coveredTo = (IF b > to THEN b ELSE to)
  BY <1>2, <1>3, <1>4 DEF Report!MergePeriod
<1>6. \A j \in u : periods[j][1] \in Nat /\ periods[j][2] \in Nat /\ periods[j][1] <= a
  BY <1>2, RolesAreDated
<1>7. ASSUME NEW k \in Nat, a <= k PROVE k < to <=> \E i \in u : periods[i][1] <= k /\ k < periods[i][2]
  <2>1. CASE u = {}
    <3>1. to = -1
      BY <1>3, <2>1 DEF Furthest
    <3> QED
      BY <2>1, <3>1
  <2>2. CASE u # {}
    <3>1. (\E i \in u : to = periods[i][2]) /\ \A i \in u : periods[i][2] <= to
      BY <1>3, <2>2 DEF Furthest
    <3>2. ASSUME k < to PROVE \E i \in u : periods[i][1] <= k /\ k < periods[i][2]
      <4>1. PICK i \in u : to = periods[i][2]
        BY <3>1
      <4>2. periods[i][1] <= k /\ k < periods[i][2]
        BY <1>2, <1>6, <1>7, <3>2, <4>1
      <4> QED
        BY <4>2
    <3>3. ASSUME NEW i \in u, k < periods[i][2] PROVE k < to
      BY <1>3, <1>6, <1>7, <3>1, <3>3
    <3> QED
      BY <3>2, <3>3
  <2> QED
    BY <2>1, <2>2
<1> DEFINE Fresh == from .. (b - 1)
<1>8. Covered(u \cup {x}) = Covered(u) \cup Fresh /\ Covered(u) \cap Fresh = {}
  <2>1. ASSUME NEW k \in Covered(u \cup {x}), k \notin Covered(u) PROVE k \in Fresh
    <3>1. k \in Months /\ k \in Nat /\ a <= k /\ k < b
      BY <1>1, <1>2, <2>1 DEF Covered
    <3>2. ~(k < to)
      BY <1>7, <2>1, <3>1 DEF Covered
    <3> QED
      BY <1>2, <1>3, <1>4, <3>1, <3>2
  <2>2. ASSUME NEW k \in Fresh PROVE k \in Covered(u \cup {x}) /\ k \notin Covered(u)
    <3>1. k \in Int /\ a <= k /\ ~(k < to) /\ k < b
      BY <1>2, <1>3, <1>4
    <3>2. k \in Months /\ k \in Nat
      BY <1>1, <1>2, <3>1
    <3>3. k \in Covered(u \cup {x})
      BY <1>2, <3>1, <3>2 DEF Covered
    <3>4. k \notin Covered(u)
      BY <1>7, <3>1, <3>2 DEF Covered
    <3> QED
      BY <3>3, <3>4
  <2>3. Covered(u) \subseteq Covered(u \cup {x})
    BY DEF Covered
  <2> HIDE DEF Fresh
  <2> QED
    BY <2>1, <2>2, <2>3
<1>9. IsFiniteSet(Covered(u)) /\ Cardinality(Covered(u)) \in Nat
  <2>1. Covered(u) \subseteq 0 .. last
    BY <1>1 DEF Covered
  <2>2. IsFiniteSet(0 .. last)
    <3>1. 0 \in Int /\ last \in Int
      OBVIOUS
    <3> QED
      BY <3>1, FS_Interval
  <2> QED
    BY <2>1, <2>2, FS_Subset, FS_CardinalityType
<1>10. IsFiniteSet(Fresh) /\ Cardinality(Fresh) = (IF from > b - 1 THEN 0 ELSE (b - 1) - from + 1)
  <2>1. from \in Int /\ b - 1 \in Int
    BY <1>2
  <2> QED
    BY <2>1, FS_Interval
<1>11. Cardinality(Covered(u) \cup Fresh) = Cardinality(Covered(u)) + Cardinality(Fresh)
  <2> HIDE DEF Fresh
  <2>1. Cardinality(Covered(u) \cup Fresh) = Cardinality(Covered(u)) + Cardinality(Fresh) - Cardinality(Covered(u) \cap Fresh)
    BY <1>9, <1>10, FS_Union
  <2>2. Cardinality(Covered(u) \cap Fresh) = 0
    BY <1>8, FS_EmptySet
  <2>3. Cardinality(Fresh) \in Nat
    BY <1>10, FS_CardinalityType
  <2> QED
    BY <1>9, <2>1, <2>2, <2>3
<1> HIDE DEF Fresh
<1>12. Report!MergePeriod(periods[x], acc).months = Cardinality(Covered(u \cup {x}))
  <2>1. PICK n, k : n = Cardinality(Covered(u \cup {x})) /\ k = Cardinality(Fresh)
    OBVIOUS
  <2>2. n = m + k
    BY <1>3, <1>8, <1>11, <2>1
  <2>3. k = (IF from > b - 1 THEN 0 ELSE (b - 1) - from + 1)
    BY <1>10, <2>1
  <2>4. n = (IF b > from THEN m + b - from ELSE m)
    BY <1>2, <1>3, <2>2, <2>3
  <2> QED
    BY <1>5, <2>1, <2>4
<1>13. Furthest(u \cup {x}, Report!MergePeriod(periods[x], acc).coveredTo)
  <2>1. PICK z : z = Report!MergePeriod(periods[x], acc).coveredTo /\ z = (IF b > to THEN b ELSE to)
    BY <1>5
  <2>2. (\E i \in u \cup {x} : z = periods[i][2]) /\ \A i \in u \cup {x} : periods[i][2] <= z
    <3>1. CASE u = {}
      <4>1. to = -1
        BY <1>3, <3>1 DEF Furthest
      <4>2. z = b
        BY <1>2, <2>1, <4>1
      <4> QED
        BY <1>2, <3>1, <4>2
    <3>2. CASE u # {}
      <4>1. (\E i \in u : to = periods[i][2]) /\ \A i \in u : periods[i][2] <= to
        BY <1>3, <3>2 DEF Furthest
      <4>2. z \in Int /\ b <= z /\ to <= z /\ (z = b \/ z = to)
        BY <1>2, <1>3, <2>1
      <4>3. \A i \in u : periods[i][2] <= z
        BY <1>3, <1>6, <4>1, <4>2
      <4> QED
        BY <1>2, <4>1, <4>2, <4>3
    <3> QED
      BY <3>1, <3>2
  <2> QED
    BY <2>1, <2>2 DEF Furthest
<1> QED
  BY <1>12, <1>13

LEMMA MonthsAddUp == ASSUME ReportBounds, ReportTypes PROVE Report!MonthsAreWorked
<1>1. PICK g \in [SUBSET Report!Dated -> RoleDates] :
          /\ Report!TotalMonths = g[Report!Dated].months
          /\ \A t \in SUBSET Report!Dated : g[t] = IF t = {} THEN NoRoles ELSE Report!MergePeriod(periods[Report!Latest(t)], g[t \ {Report!Latest(t)}])
  BY MonthsAreTabled
<1> DEFINE T == {t \in SUBSET Report!Dated : g[t].months = Cardinality(Covered(t)) /\ Furthest(t, g[t].coveredTo)}
<1>2. IsFiniteSet(Report!Dated)
  BY RolesAreDated
<1>3. ASSUME NEW t \in SUBSET Report!Dated, \A u \in SUBSET Report!Dated : Cardinality(u) < Cardinality(t) => u \in T PROVE t \in T
  <2>1. CASE t = {}
    <3>1. g[t] = NoRoles /\ Covered(t) = {}
      BY <1>1, <2>1 DEF Covered
    <3>2. g[t].months = 0 /\ g[t].coveredTo = -1
      BY <3>1 DEF NoRoles
    <3> QED
      BY <2>1, <3>1, <3>2, FS_EmptySet DEF Furthest
  <2>2. CASE t # {}
    <3>1. PICK x \in t : x = Report!Latest(t) /\ \A j \in t : periods[j][1] <= periods[x][1]
      BY <2>2, LatestIsLast
    <3>2. PICK u \in SUBSET Report!Dated : u = t \ {x} /\ Cardinality(u) < Cardinality(t)
      <4>1. t \ {x} \in SUBSET Report!Dated /\ Cardinality(t \ {x}) < Cardinality(t)
        BY <1>2, AskedLess
      <4> QED
        BY <4>1
    <3>3. u \in T
      BY <1>3, <3>2
    <3>4. PICK acc \in RoleDates : acc = g[u] /\ acc.months = Cardinality(Covered(u)) /\ Furthest(u, acc.coveredTo)
      BY <3>3
    <3>5. /\ Report!MergePeriod(periods[x], acc).months = Cardinality(Covered(u \cup {x}))
          /\ Furthest(u \cup {x}, Report!MergePeriod(periods[x], acc).coveredTo)
      BY <3>1, <3>2, <3>4, OneMoreRole
    <3>6. u \cup {x} = t /\ g[t] = Report!MergePeriod(periods[x], acc)
      BY <1>1, <2>2, <3>1, <3>2, <3>4
    <3> QED
      BY <3>5, <3>6
  <2> QED
    BY <2>1, <2>2
<1>4. Report!Dated \in T
  <2>1. \A t \in SUBSET Report!Dated : t \in T
    <3> HIDE DEF T
    <3> QED
      BY <1>2, <1>3, SmallerFirst
  <2> QED
    BY <2>1
<1>5. Report!TotalMonths = Cardinality(Covered(Report!Dated))
  BY <1>1, <1>4
<1>6. Report!Cardinality(Covered(Report!Dated)) = Cardinality(Covered(Report!Dated))
  BY ReportCounts
<1> QED
  BY <1>5, <1>6 DEF Report!MonthsAreWorked, Covered


-----------------------------------------------------------------------------
(* A report's types are kept, and each thing it says is right in them.       *)

LEMMA ReportsStartTyped == ASSUME ReportBounds, Report!Init PROVE ReportTypes
<1>1. leg \in Report!Legs /\ turns = <<>> /\ periods = <<>> /\ seen = [n \in DOMAIN Indicators |-> "unobserved"] /\ counts = [e \in Events |-> 0]
  BY DEF Report!Init
<1>2. pieces \in [Requirements -> PieceCounts]
  BY DEF Report!Init, Report!NoPieces, PieceCounts
<1>3. seen \in [DOMAIN Indicators -> Report!Readings] /\ counts \in [Events -> Nat]
  BY <1>1 DEF Report!Readings
<1> QED
  BY <1>1, <1>2, <1>3 DEF ReportTypes

LEMMA ReportsAreOfType == ASSUME ReportBounds, ReportTypes PROVE Report!TypeOK
<1>1. \A c \in Requirements : Report!Classify(pieces[c]) \in Report!ToSet(Report!Buckets)
  <2>1. Report!ToSet(Report!Buckets) = {"proven", "failed", "insufficient"}
    <3>1. DOMAIN Report!Buckets = {1, 2, 3}
      BY DEF Report!Buckets
    <3>2. Report!Buckets[1] = "proven" /\ Report!Buckets[2] = "failed" /\ Report!Buckets[3] = "insufficient"
      BY DEF Report!Buckets
    <3> QED
      BY <3>1, <3>2 DEF Report!ToSet
  <2>2. \A c \in Requirements : pieces[c] \in PieceCounts
    BY DEF ReportTypes
  <2> QED
    BY <2>1, <2>2, ClassifyIsOne
<1>2. Report!RiskScore \in 0 .. 100
  <2>1. PICK k \in [Events -> Nat] : k = counts
    BY DEF ReportTypes
  <2>2. \A e \in Events \ Report!NonScoring : k[e] <= k[e]
    OBVIOUS
  <2>3. RiskOf(RiskRaw(k)) \in 0 .. 100
    BY <2>2, RisksGrow
  <2> QED
    BY <2>1, <2>3, RiskIsRead
<1>3. Report!ScoreAxis(seen) \in -1 .. 10
  <2>1. seen \in Observations
    BY DEF ReportTypes, Observations
  <2> QED
    BY <2>1, StarsAreTen
<1> QED
  BY <1>1, <1>2, <1>3 DEF Report!TypeOK, ReportTypes

LEMMA SignsAreAdded ==
    ASSUME ReportBounds, ReportTypes, [Report!Next]_Report!vars, NEW n \in DOMAIN Indicators,
           seen[n] # seen'[n], seen'[n] = "quoted", Report!ScoreAxis(seen) >= 0
    PROVE  IF Indicators[n] > 0 THEN Report!ScoreAxis(seen') >= Report!ScoreAxis(seen) ELSE Report!ScoreAxis(seen') <= Report!ScoreAxis(seen)
<1>1. PICK x \in DOMAIN Indicators, sign \in Report!Readings : Report!Observe(x, sign)
  BY DEF Report!Next, Report!vars, Report!Anchor, Report!Piece, Report!Turn, Report!Event, Report!Role
<1>2. seen[x] = "unobserved" /\ seen' = [seen EXCEPT ![x] = sign] /\ seen \in Observations
  BY <1>1 DEF Report!Observe, ReportTypes, Observations
<1>3. x = n /\ sign = "quoted"
  BY <1>2 DEF Observations
<1>4. PICK o, q : o = seen /\ q = seen' /\ q = [o EXCEPT ![n] = "quoted"]
  BY <1>2, <1>3
<1>5. o \in Observations /\ o[n] = "unobserved" /\ Report!ScoreAxis(o) >= 0
  BY <1>2, <1>3, <1>4
<1>6. IF Indicators[n] > 0 THEN Report!ScoreAxis(q) >= Report!ScoreAxis(o) ELSE Report!ScoreAxis(q) <= Report!ScoreAxis(o)
  BY <1>4, <1>5, SignsTell
<1> QED
  BY <1>4, <1>6

LEMMA OneAtATime == ASSUME ReportBounds, ReportTypes, ReportTypes', [Report!Next]_Report!vars PROVE Report!OnePieceAtATime
<1>1. \A c \in Requirements : pieces'[c] # pieces[c] =>
         /\ pieces'[c].wrong = pieces[c].wrong /\ pieces'[c].contradicted = pieces[c].contradicted /\ pieces[c].correct + pieces[c].wrong # 3 =>
               (Report!Classify(pieces'[c]) = "failed" => Report!Classify(pieces[c]) = "failed")
         /\ pieces'[c].wrong > pieces[c].wrong /\ Report!Classify(pieces[c]) = "proven" => Report!Classify(pieces'[c]) # "failed"
  BY PiecesTell
<1>2. LET n == Len(turns')
          moved == Report!ComputeRung(turns') - Report!ComputeRung(turns)
          Pushed(i) == Report!CountsToRung(turns'[i]) /\ Report!DirectionOf(turns'[i].score) = moved
      IN  moved # 0 => /\ moved \in {-1, 1} /\ n > 0 /\ Pushed(n)
                       /\ \E i \in 1 .. n - 1 : Pushed(i) /\ \A j \in i + 1 .. n - 1 : ~Report!CountsToRung(turns'[j])
  BY RungsClimb
<1>3. /\ Report!RiskScore' >= Report!RiskScore
      /\ (\A e \in Events \ Report!NonScoring : counts'[e] = counts[e]) => Report!RiskScore' = Report!RiskScore
      /\ (\A e \in Events \ Report!BrowserTier : counts'[e] = 0) => Report!RiskBand' = "low"
  BY EventsTell
<1>4. \A n \in DOMAIN Indicators : seen[n] # seen'[n] /\ seen'[n] = "quoted" /\ Report!ScoreAxis(seen) >= 0 =>
         IF Indicators[n] > 0 THEN Report!ScoreAxis(seen') >= Report!ScoreAxis(seen) ELSE Report!ScoreAxis(seen') <= Report!ScoreAxis(seen)
  BY SignsAreAdded
<1> QED
  BY <1>1, <1>2, <1>3, <1>4 DEF Report!OnePieceAtATime

(* Reports are of their type: a risk is between 0 and 100, an axis has ten half
   stars at most and every requirement is in one bucket.                     *)
THEOREM ReportsAreTyped == ASSUME ReportBounds PROVE Report!Spec => []Report!TypeOK
<1>1. ReportBounds /\ Report!Init => ReportTypes
  BY ReportsStartTyped
<1>2. ReportBounds /\ ReportTypes /\ [Report!Next]_Report!vars => ReportTypes'
  BY ReportsKeepTypes
<1>3. ReportBounds /\ ReportTypes => Report!TypeOK
  BY ReportsAreOfType
<1> QED
  BY <1>1, <1>2, <1>3, PTL DEF Report!Spec

(* What a recruiter is told is fair, whatever was recorded: nobody is rejected
   for what the system could not hear or was asked twice, shares add up to 100,
   months are worked ones, and one more piece never tells against the candidate
   by accident.                                                              *)
THEOREM ReportsStayFair == ASSUME ReportBounds PROVE Report!Spec => Report!ReportsAreFair
<1>1. ReportBounds /\ Report!Init => ReportTypes
  BY ReportsStartTyped
<1>2. ReportBounds /\ ReportTypes /\ [Report!Next]_Report!vars => ReportTypes'
  BY ReportsKeepTypes
<1>3. ReportBounds /\ ReportTypes => Report!NobodyFailsForAFault /\ Report!SharesAddUp /\ Report!MonthsAreWorked
  BY NobodyFails, SharesAlwaysAddUp, MonthsAddUp
<1>4. ReportBounds /\ ReportTypes /\ ReportTypes' /\ [Report!Next]_Report!vars => Report!OnePieceAtATime
  BY OneAtATime
<1> QED
  BY <1>1, <1>2, <1>3, <1>4, PTL DEF Report!Spec, Report!ReportsAreFair

=============================================================================
