------------------------- MODULE StockMutationsProofs -------------------------
(* Theorems about StockMutations, for every value of its constants.         *)
EXTENDS StockMutations, FiniteSetTheorems, SequenceTheorems, TLAPS

-----------------------------------------------------------------------------
(* Sums over finite sets.  MapThenSumSet folds a function defined by        *)
(* recursion over the subsets; that it exists, and what the fold returns,   *)
(* is shown by taking a smallest subset for which it fails.                 *)

(* The sum of f over a set, and the function the fold computes it with.     *)
Total(f, S) == MapThenSumSet(LAMBDA x : f[x], S)
SumStep(f, s, g) ==
  IF s = {} THEN 0
  ELSE LET x == CHOOSE y \in s : TRUE IN f[x] + g[s \ {x}]
IsSum(f, S, g) == g = [s \in SUBSET S |-> SumStep(f, s, g)]

LEMMA TotalDef ==
  ASSUME NEW f, NEW S
  PROVE  Total(f, S) = (CHOOSE g : IsSum(f, S, g))[S]
BY DEF Total, MapThenSumSet, MapThenFoldSet, IsSum, SumStep

(* A non-empty set of finite sets has a member none other is a part of.     *)
LEMMA SmallestFinite ==
  ASSUME NEW S, IsFiniteSet(S), NEW F \in SUBSET SUBSET S, F # {}
  PROVE  \E T \in F : \A U \in F : U \subseteq T => U = T
<1>1. IsWellFoundedOn(StrictSubsetOrdering(S), SUBSET S)
  BY FS_StrictSubsetOrderingWellFounded, FS_FiniteSubsetsOfFinite
<1>2. PICK T \in F : \A U \in F : ~(<<U, T>> \in StrictSubsetOrdering(S))
  BY <1>1, WFMin
<1> QED
  BY <1>2 DEF StrictSubsetOrdering

(* Two such functions agree where both are defined.                         *)
LEMMA SumUnique ==
  ASSUME NEW f, NEW S, IsFiniteSet(S), NEW T \in SUBSET S,
         NEW g, IsSum(f, S, g), NEW h, IsSum(f, T, h)
  PROVE  \A s \in SUBSET T : g[s] = h[s]
<1> DEFINE F == {s \in SUBSET T : g[s] # h[s]}
<1> SUFFICES ASSUME F # {} PROVE FALSE
  OBVIOUS
<1>0. F \in SUBSET SUBSET S
  OBVIOUS
<1>1. PICK s \in F : \A u \in F : u \subseteq s => u = s
  <2> HIDE DEF F
  <2> QED
    BY <1>0, SmallestFinite
<1>2. s \subseteq T /\ g[s] # h[s]
  OBVIOUS
<1>3. g[s] = SumStep(f, s, g) /\ h[s] = SumStep(f, s, h)
  BY <1>2 DEF IsSum
<1>4. s # {}
  BY <1>2, <1>3 DEF SumStep
<1> DEFINE x == CHOOSE y \in s : TRUE
           u == s \ {x}
<1>5. x \in s /\ u \subseteq T /\ u \subseteq s /\ u # s
  BY <1>2, <1>4
<1>6. g[u] = h[u]
  BY <1>1, <1>5
<1> QED
  BY <1>2, <1>3, <1>4, <1>6 DEF SumStep

(* A finite set has one.                                                    *)
LEMMA SumExists ==
  ASSUME NEW f, NEW S, IsFiniteSet(S)
  PROVE  IsSum(f, S, CHOOSE g : IsSum(f, S, g))
<1> DEFINE F == {T \in SUBSET S : ~\E g : IsSum(f, T, g)}
<1> SUFFICES ASSUME F # {} PROVE FALSE
  OBVIOUS
<1>0. F \in SUBSET SUBSET S
  OBVIOUS
<1>1. PICK T \in F : \A U \in F : U \subseteq T => U = T
  <2> HIDE DEF F
  <2> QED
    BY <1>0, SmallestFinite
<1> DEFINE G(s) == CHOOSE g : IsSum(f, s, g)
           Next1(s) == s \ {CHOOSE y \in s : TRUE}
           g == [s \in SUBSET T |->
                   IF s = {} THEN 0
                   ELSE f[CHOOSE y \in s : TRUE] + G(Next1(s))[Next1(s)]]
<1>2. ASSUME NEW s \in SUBSET T, s # T
      PROVE  IsSum(f, s, G(s)) /\ G(s)[s] = SumStep(f, s, G(s)) /\ IsFiniteSet(s)
  <2>1. \E h : IsSum(f, s, h)
    BY <1>1, <1>2
  <2>2. IsSum(f, s, G(s))
    BY <2>1
  <2> HIDE DEF G
  <2> QED
    BY <2>2, FS_Subset DEF IsSum
<1> HIDE DEF G
<1>3. ASSUME NEW s \in SUBSET T, s # T PROVE G(s)[s] = g[s]
  <2>1. CASE s = {}
    BY <1>2, <1>3, <2>1 DEF SumStep
  <2>2. CASE s # {}
    <3> DEFINE u == Next1(s)
    <3>1. u \in SUBSET s /\ u \in SUBSET T /\ u # T
      BY <1>3
    <3>2. G(s)[s] = f[CHOOSE y \in s : TRUE] + G(s)[u]
      BY <1>2, <1>3, <2>2 DEF SumStep
    <3>3. G(s)[u] = G(u)[u]
      <4>1. IsSum(f, s, G(s)) /\ IsSum(f, u, G(u)) /\ IsFiniteSet(s)
        BY <1>2, <1>3, <3>1
      <4> HIDE DEF u
      <4> QED
        BY <3>1, <4>1, SumUnique
    <3> QED
      BY <2>2, <3>2, <3>3
  <2> QED
    BY <2>1, <2>2
<1>4. IsSum(f, T, g)
  <2> SUFFICES ASSUME NEW s \in SUBSET T PROVE g[s] = SumStep(f, s, g)
    BY DEF IsSum
  <2>1. CASE s = {}
    BY <2>1 DEF SumStep
  <2>2. CASE s # {}
    <3>1. Next1(s) \in SUBSET T /\ Next1(s) # T
      BY <2>2
    <3>2. g[s] = f[CHOOSE y \in s : TRUE] + G(Next1(s))[Next1(s)]
      BY <2>2
    <3>3. G(Next1(s))[Next1(s)] = g[Next1(s)]
      BY <1>3, <3>1
    <3> HIDE DEF g
    <3> QED
      BY <2>2, <3>2, <3>3 DEF SumStep
  <2> QED
    BY <2>1, <2>2
<1> HIDE DEF g
<1> QED
  BY <1>1, <1>4

LEMMA TotalStep ==
  ASSUME NEW f, NEW S, IsFiniteSet(S)
  PROVE  Total(f, S) = IF S = {} THEN 0
                       ELSE LET x == CHOOSE y \in S : TRUE
                            IN  f[x] + Total(f, S \ {x})
<1> DEFINE g(s) == CHOOSE h : IsSum(f, s, h)
           u == S \ {CHOOSE y \in S : TRUE}
<1>1. u \in SUBSET S /\ IsFiniteSet(u)
  BY FS_Subset
<1>2. IsSum(f, S, g(S)) /\ IsSum(f, u, g(u))
  BY <1>1, SumExists
<1>3. Total(f, S) = g(S)[S] /\ Total(f, u) = g(u)[u]
  BY TotalDef
<1> HIDE DEF g
<1>4. g(S)[u] = g(u)[u]
  <2> HIDE DEF u
  <2> QED
    BY <1>1, <1>2, SumUnique
<1>5. g(S)[S] = SumStep(f, S, g(S))
  BY <1>2 DEF IsSum
<1> QED
  BY <1>3, <1>4, <1>5 DEF SumStep

LEMMA TotalEmpty == \A f : Total(f, {}) = 0
BY TotalStep, FS_EmptySet

(* The sum of numbers is a number.                                          *)
LEMMA TotalType ==
  ASSUME NEW S, IsFiniteSet(S), NEW f, \A x \in S : f[x] \in Int
  PROVE  Total(f, S) \in Int
<1> DEFINE F == {T \in SUBSET S : Total(f, T) \notin Int}
<1> SUFFICES ASSUME F # {} PROVE FALSE
  OBVIOUS
<1>0. F \in SUBSET SUBSET S
  OBVIOUS
<1>1. PICK T \in F : \A U \in F : U \subseteq T => U = T
  <2> HIDE DEF F
  <2> QED
    BY <1>0, SmallestFinite
<1>2. IsFiniteSet(T)
  BY <1>1, FS_Subset
<1>3. T # {}
  <2>1. Total(f, T) \notin Int /\ 0 \in Int
    BY <1>1
  <2> QED
    BY <2>1, TotalEmpty
<1> DEFINE x == CHOOSE y \in T : TRUE
<1>4. x \in T /\ T \ {x} \subseteq T /\ T \ {x} # T
  BY <1>3
<1>5. Total(f, T) = f[x] + Total(f, T \ {x})
  BY <1>2, <1>3, TotalStep
<1>6. Total(f, T \ {x}) \in Int /\ f[x] \in Int
  BY <1>1, <1>4
<1> QED
  BY <1>1, <1>5, <1>6

(* Any element may be taken out first.                                      *)
LEMMA TotalRemove ==
  ASSUME NEW S, IsFiniteSet(S), NEW f, \A x \in S : f[x] \in Int, NEW z \in S
  PROVE  Total(f, S) = f[z] + Total(f, S \ {z})
<1> DEFINE F == {T \in SUBSET S : \E y \in T : Total(f, T) # f[y] + Total(f, T \ {y})}
<1> SUFFICES ASSUME F # {} PROVE FALSE
  OBVIOUS
<1>0. F \in SUBSET SUBSET S
  OBVIOUS
<1>1. PICK T \in F : \A U \in F : U \subseteq T => U = T
  <2> HIDE DEF F
  <2> QED
    BY <1>0, SmallestFinite
<1>2. PICK y \in T : Total(f, T) # f[y] + Total(f, T \ {y})
  BY <1>1
<1>3. IsFiniteSet(T) /\ T \subseteq S
  BY <1>1, FS_Subset
<1> DEFINE x == CHOOSE v \in T : TRUE
           U == T \ {x, y}
<1>4. x \in T /\ Total(f, T) = f[x] + Total(f, T \ {x})
  BY <1>2, <1>3, TotalStep
<1>5. x # y
  BY <1>2, <1>4
<1>6. (T \ {x}) \ {y} = U /\ (T \ {y}) \ {x} = U
  OBVIOUS
<1>7. Total(f, T \ {x}) = f[y] + Total(f, U)
  <2>1. T \ {x} \in SUBSET S /\ T \ {x} \subseteq T /\ T \ {x} # T /\ y \in T \ {x}
    BY <1>3, <1>4, <1>5
  <2>2. T \ {x} \notin F
    BY <1>1, <2>1
  <2> QED
    BY <1>6, <2>1, <2>2
<1>8. Total(f, T \ {y}) = f[x] + Total(f, U)
  <2>1. T \ {y} \in SUBSET S /\ T \ {y} \subseteq T /\ T \ {y} # T /\ x \in T \ {y}
    BY <1>3, <1>4, <1>5
  <2>2. T \ {y} \notin F
    BY <1>1, <2>1
  <2> QED
    BY <1>6, <2>1, <2>2
<1>9. f[x] \in Int /\ f[y] \in Int /\ Total(f, U) \in Int
  <2>1. U \in SUBSET S /\ IsFiniteSet(U)
    BY <1>3, FS_Subset
  <2> QED
    BY <1>3, <1>4, <2>1, TotalType
<1> HIDE DEF U, x
<1> QED
  BY <1>2, <1>4, <1>7, <1>8, <1>9

(* An element more.                                                         *)
LEMMA TotalAdd ==
  ASSUME NEW S, IsFiniteSet(S), NEW z, z \notin S,
         NEW f, \A x \in S \cup {z} : f[x] \in Int
  PROVE  Total(f, S \cup {z}) = f[z] + Total(f, S)
<1>1. IsFiniteSet(S \cup {z}) /\ z \in S \cup {z} /\ (S \cup {z}) \ {z} = S
  BY FS_AddElement
<1> QED
  BY <1>1, TotalRemove

(* The sum depends on the values over the set only.                         *)
LEMMA TotalSame ==
  ASSUME NEW S, NEW f, NEW h, \A x \in S : f[x] = h[x]
  PROVE  Total(f, S) = Total(h, S)
<1>1. ASSUME NEW g, NEW s \in SUBSET S
      PROVE  SumStep(f, s, g) = SumStep(h, s, g)
  <2>1. s # {} => (CHOOSE y \in s : TRUE) \in S
    OBVIOUS
  <2> QED
    BY <2>1 DEF SumStep
<1>2. ASSUME NEW g PROVE IsSum(f, S, g) <=> IsSum(h, S, g)
  BY <1>1 DEF IsSum
<1>3. (CHOOSE g : IsSum(f, S, g)) = (CHOOSE g : IsSum(h, S, g))
  BY <1>2
<1> QED
  BY <1>3, TotalDef

(* Larger values over a part of the set that holds all the positive ones    *)
(* make the sum no smaller.                                                 *)
LEMMA TotalBound ==
  ASSUME NEW S, IsFiniteSet(S), NEW T \in SUBSET S,
         NEW f, \A x \in S : f[x] \in Int, NEW h, \A x \in T : h[x] \in Int,
         \A x \in T : f[x] <= h[x],
         \A x \in S \ T : f[x] <= 0
  PROVE  Total(f, S) <= Total(h, T)
<1> DEFINE F == {s \in SUBSET S : ~(Total(f, s) <= Total(h, s \cap T))}
<1> SUFFICES ASSUME F # {} PROVE FALSE
  <2>1. S \notin F /\ S \cap T = T
    OBVIOUS
  <2> QED
    BY <2>1
<1>0. F \in SUBSET SUBSET S
  OBVIOUS
<1>1. PICK s \in F : \A u \in F : u \subseteq s => u = s
  <2> HIDE DEF F
  <2> QED
    BY <1>0, SmallestFinite
<1>2. s \in SUBSET S /\ IsFiniteSet(s) /\ ~(Total(f, s) <= Total(h, s \cap T))
  BY <1>1, FS_Subset
<1>3. s # {}
  <2>1. {} \cap T = {}
    OBVIOUS
  <2>2. Total(f, {}) <= Total(h, {} \cap T)
    BY <2>1, TotalEmpty
  <2> QED
    BY <1>2, <2>2
<1>4. PICK x \in s : TRUE
  BY <1>3
<1> DEFINE u == s \ {x}
<1>5. u \in SUBSET S /\ IsFiniteSet(u) /\ u \subseteq s /\ u # s
  BY <1>2, <1>4, FS_Subset
<1>6. Total(f, u) <= Total(h, u \cap T)
  BY <1>1, <1>5
<1>7. Total(f, s) = f[x] + Total(f, u)
  BY <1>2, TotalRemove
<1>8. IsFiniteSet(s \cap T) /\ IsFiniteSet(u \cap T)
  BY <1>2, <1>5, FS_Intersection
<1>9. Total(f, u) \in Int /\ Total(h, u \cap T) \in Int /\ f[x] \in Int
  <2>1. \A y \in u : f[y] \in Int
    BY <1>5
  <2>2. \A y \in u \cap T : h[y] \in Int
    OBVIOUS
  <2> QED
    BY <1>2, <1>5, <1>8, <2>1, <2>2, TotalType
<1>10. CASE x \in T
  <2>1. (s \cap T) \ {x} = u \cap T /\ x \in s \cap T
    BY <1>10
  <2>2. \A y \in s \cap T : h[y] \in Int
    OBVIOUS
  <2>3. Total(h, s \cap T) = h[x] + Total(h, u \cap T)
    BY <1>8, <2>1, <2>2, TotalRemove
  <2>4. h[x] \in Int /\ f[x] <= h[x]
    BY <1>10
  <2> HIDE DEF u
  <2> QED
    BY <1>2, <1>6, <1>7, <1>9, <2>3, <2>4
<1>11. CASE x \notin T
  <2>1. s \cap T = u \cap T
    BY <1>11
  <2>2. f[x] <= 0
    BY <1>2, <1>11
  <2> HIDE DEF u
  <2> QED
    BY <1>2, <1>6, <1>7, <1>9, <2>1, <2>2
<1> QED
  BY <1>10, <1>11

(* A sum may be taken in any order.                                         *)
LEMMA TotalReordered ==
  ASSUME NEW S, IsFiniteSet(S), NEW T, NEW b \in Bijection(S, T),
         NEW f, \A x \in T : f[x] \in Int
  PROVE  Total([x \in S |-> f[b[x]]], S) = Total(f, T)
<1> DEFINE g == [x \in S |-> f[b[x]]]
           Image(s) == {b[x] : x \in s}
           F == {s \in SUBSET S : Total(g, s) # Total(f, Image(s))}
<1>a. /\ b \in [S -> T] /\ \A x, y \in S : b[x] = b[y] => x = y
      /\ \A t \in T : \E x \in S : b[x] = t
  BY DEF Bijection, Injection, Surjection, IsInjective
<1>b. \A x \in S : g[x] = f[b[x]] /\ b[x] \in T /\ g[x] \in Int
  BY <1>a
<1> SUFFICES ASSUME F # {} PROVE FALSE
  <2>1. Image(S) = T
    BY <1>a
  <2>2. S \notin F
    OBVIOUS
  <2> QED
    BY <2>1, <2>2
<1> HIDE DEF g
<1>0. F \in SUBSET SUBSET S
  OBVIOUS
<1>1. PICK s \in F : \A u \in F : u \subseteq s => u = s
  <2> HIDE DEF F
  <2> QED
    BY <1>0, SmallestFinite
<1>2. s \in SUBSET S /\ IsFiniteSet(s) /\ Total(g, s) # Total(f, Image(s))
  BY <1>1, FS_Subset
<1>3. s # {}
  <2>1. Image({}) = {}
    OBVIOUS
  <2>2. Total(g, {}) = Total(f, Image({}))
    BY <2>1, TotalEmpty
  <2> QED
    BY <1>2, <2>2
<1>4. PICK x \in s : TRUE
  BY <1>3
<1> DEFINE u == s \ {x}
<1>5. u \in SUBSET S /\ u \subseteq s /\ u # s /\ x \in S /\ IsFiniteSet(u)
  BY <1>2, <1>4, FS_Subset
<1>6. Total(g, u) = Total(f, Image(u))
  BY <1>1, <1>5
<1>7. Total(g, s) = g[x] + Total(g, u)
  BY <1>b, <1>2, TotalRemove
<1>8. Image(s) = Image(u) \cup {b[x]} /\ b[x] \notin Image(u)
  BY <1>a, <1>2, <1>5
<1>9. IsFiniteSet(Image(u)) /\ Image(u) \subseteq T /\ b[x] \in T
  <2>1. [y \in u |-> b[y]] \in Surjection(u, Image(u))
    BY DEF Surjection
  <2>2. IsFiniteSet(Image(u))
    <3> HIDE DEF u, Image
    <3> QED
      BY <1>5, <2>1, FS_Surjection
  <2> QED
    BY <1>b, <1>5, <2>2
<1>10. Total(f, Image(s)) = f[b[x]] + Total(f, Image(u))
  <2> HIDE DEF Image, u
  <2>1. \A y \in Image(u) \cup {b[x]} : f[y] \in Int
    BY <1>9
  <2> QED
    BY <1>8, <1>9, <2>1, TotalAdd
<1> QED
  BY <1>b, <1>2, <1>5, <1>6, <1>7, <1>10

-----------------------------------------------------------------------------
(* The units of p on the first n lines.                                     *)
UnitsTo(lines, n, p) ==
  Total([i \in 1..n |-> lines[i].quantity], {i \in 1..n : lines[i].product = p})

LEMMA UnitsAreTotal ==
  ASSUME NEW lines, NEW p
  PROVE  Units(lines, p) = Total([i \in DOMAIN lines |-> lines[i].quantity],
                                 {i \in DOMAIN lines : lines[i].product = p})
<1> DEFINE S == {i \in DOMAIN lines : lines[i].product = p}
           f == [i \in DOMAIN lines |-> lines[i].quantity]
           Step(s, g) == IF s = {} THEN 0
                         ELSE LET x == CHOOSE y \in s : TRUE
                              IN  lines[x].quantity + g[s \ {x}]
<1>1. Units(lines, p) = (CHOOSE g : g = [s \in SUBSET S |-> Step(s, g)])[S]
  BY DEF Units, MapThenSumSet, MapThenFoldSet
<1>2. ASSUME NEW g, NEW s \in SUBSET S PROVE SumStep(f, s, g) = Step(s, g)
  <2>1. s # {} => (CHOOSE y \in s : TRUE) \in DOMAIN lines
    OBVIOUS
  <2> QED
    BY <2>1 DEF SumStep
<1>3. ASSUME NEW g PROVE IsSum(f, S, g) <=> g = [s \in SUBSET S |-> Step(s, g)]
  BY <1>2 DEF IsSum
<1>4. (CHOOSE g : IsSum(f, S, g)) = (CHOOSE g : g = [s \in SUBSET S |-> Step(s, g)])
  <2> HIDE DEF f, Step, S
  <2> QED
    BY <1>3
<1> QED
  BY <1>1, <1>4, TotalDef

LEMMA NoUnits == \A lines, p : UnitsTo(lines, 0, p) = 0
<1> TAKE lines, p
<1>1. {i \in 1..0 : lines[i].product = p} = {}
  OBVIOUS
<1> QED
  BY <1>1, TotalEmpty DEF UnitsTo

(* One line more.                                                           *)
LEMMA UnitsStep ==
  ASSUME NEW lines, NEW n \in Nat, \A i \in 1..(n + 1) : lines[i].quantity \in Nat, NEW p
  PROVE  /\ UnitsTo(lines, n, p) \in Int
         /\ UnitsTo(lines, n + 1, p) =
              UnitsTo(lines, n, p)
                + (IF lines[n + 1].product = p THEN lines[n + 1].quantity ELSE 0)
<1> DEFINE f == [i \in 1..n |-> lines[i].quantity]
           h == [i \in 1..(n + 1) |-> lines[i].quantity]
           S == {i \in 1..n : lines[i].product = p}
           T == {i \in 1..(n + 1) : lines[i].product = p}
<1>1. IsFiniteSet(S) /\ n + 1 \notin S
  <2>1. IsFiniteSet(1..n) /\ S \in SUBSET (1..n)
    BY FS_Interval
  <2>2. n + 1 \notin S
    OBVIOUS
  <2> HIDE DEF S
  <2> QED
    BY <2>1, <2>2, FS_Subset
<1>2. UnitsTo(lines, n, p) = Total(f, S) /\ UnitsTo(lines, n + 1, p) = Total(h, T)
  BY DEF UnitsTo
<1>3. \A i \in S : f[i] = h[i] /\ f[i] \in Int
  OBVIOUS
<1>4. Total(f, S) = Total(h, S) /\ Total(f, S) \in Int
  <2> HIDE DEF f, h, S
  <2> QED
    BY <1>1, <1>3, TotalSame, TotalType
<1>5. CASE lines[n + 1].product = p
  <2>1. T = S \cup {n + 1}
    BY <1>5
  <2>2. h[n + 1] = lines[n + 1].quantity /\ \A i \in S \cup {n + 1} : h[i] \in Int
    OBVIOUS
  <2>3. Total(h, S \cup {n + 1}) = h[n + 1] + Total(h, S)
    <3> HIDE DEF h, S
    <3> QED
      BY <1>1, <2>2, TotalAdd
  <2>4. lines[n + 1].quantity \in Nat
    OBVIOUS
  <2> HIDE DEF f, h, S, T
  <2> QED
    BY <1>2, <1>4, <1>5, <2>1, <2>2, <2>3, <2>4
<1>6. CASE lines[n + 1].product # p
  <2>1. T = S
    BY <1>6
  <2> HIDE DEF f, h, S, T
  <2> QED
    BY <1>2, <1>4, <1>6, <2>1
<1> QED
  BY <1>5, <1>6

LEMMA UnitsAll ==
  ASSUME NEW lines \in Seq(Line), NEW p
  PROVE  Units(lines, p) = UnitsTo(lines, Len(lines), p)
<1>1. DOMAIN lines = 1..Len(lines)
  OBVIOUS
<1> QED
  BY <1>1, UnitsAreTotal DEF UnitsTo

(* Reordering an item list moves no units.                                  *)
LEMMA UnitsReordered ==
  ASSUME NEW b \in Seq(Line), NEW t \in OrderedByProduct(b), NEW p
  PROVE  Units(t, p) = Units(b, p)
<1> DEFINE D == DOMAIN b
<1>1. PICK f \in [D -> D] : /\ t = [i \in D |-> b[f[i]]]
                            /\ \A i, j \in D : f[i] = f[j] => i = j
  BY DEF OrderedByProduct
<1>2. IsFiniteSet(D) /\ DOMAIN t = D /\ \A i \in D : b[i].quantity \in Int
  <2>1. D = 1..Len(b) /\ Len(b) \in Nat
    OBVIOUS
  <2>2. IsFiniteSet(1..Len(b))
    BY <2>1, FS_Interval
  <2>3. \A i \in D : b[i] \in Line
    BY <2>1, ElementOfSeq
  <2> QED
    BY <1>1, <2>1, <2>2, <2>3 DEF Line
<1>3. f \in Surjection(D, D)
  <2> HIDE DEF D
  <2>1. f \in Injection(D, D)
    BY <1>1 DEF Injection, IsInjective
  <2> QED
    BY <1>2, <2>1, FS_Injection
<1> DEFINE S == {i \in D : t[i].product = p}
           T == {i \in D : b[i].product = p}
           q == [i \in D |-> b[i].quantity]
           g == [i \in S |-> f[i]]
<1>4. g \in Bijection(S, T)
  <2>1. \A i \in D : t[i] = b[f[i]] /\ f[i] \in D
    BY <1>1
  <2>2. g \in [S -> T]
    BY <2>1
  <2>3. \A i, j \in S : g[i] = g[j] => i = j
    BY <1>1
  <2>4. \A k \in T : \E i \in S : g[i] = k
    BY <1>3, <2>1 DEF Surjection
  <2> HIDE DEF g, S, T
  <2> QED
    BY <2>2, <2>3, <2>4 DEF Bijection, Injection, Surjection, IsInjective
<1>5. IsFiniteSet(S) /\ \A i \in T : q[i] \in Int
  <2>1. S \in SUBSET D
    OBVIOUS
  <2>2. \A i \in T : q[i] \in Int
    BY <1>2
  <2> HIDE DEF S, D, q
  <2> QED
    BY <1>2, <2>1, <2>2, FS_Subset
<1>6. Total([i \in S |-> q[g[i]]], S) = Total(q, T)
  <2> HIDE DEF g, S, T, q, D
  <2> QED
    BY <1>4, <1>5, TotalReordered
<1>7. \A i \in S : [k \in S |-> q[g[k]]][i] = [k \in DOMAIN t |-> t[k].quantity][i]
  BY <1>1, <1>2
<1>8. Total([i \in S |-> q[g[i]]], S) = Total([k \in DOMAIN t |-> t[k].quantity], S)
  BY <1>7, TotalSame
<1> QED
  BY <1>2, <1>6, <1>8, UnitsAreTotal

-----------------------------------------------------------------------------
(* Types.                                                                   *)

(* The lines ORDER BY returns are lines of the order.                       *)
LEMMA OrderedLines ==
  ASSUME NEW b \in Seq(Line), NEW t \in OrderedByProduct(b)
  PROVE  t \in Seq(Line) /\ Len(t) = Len(b)
<1>1. PICK f \in [DOMAIN b -> DOMAIN b] : t = [i \in DOMAIN b |-> b[f[i]]]
  BY DEF OrderedByProduct
<1>2. DOMAIN b = 1..Len(b) /\ Len(b) \in Nat
  OBVIOUS
<1>3. ASSUME NEW i \in 1..Len(b)
      PROVE  b[f[i]] \in Line
  <2>1. f[i] \in 1..Len(b)
    BY <1>1, <1>2
  <2> QED
    BY <2>1, ElementOfSeq
<1>4. t \in [1..Len(b) -> Line]
  BY <1>1, <1>2, <1>3
<1> QED
  BY <1>2, <1>4, SeqDef, LenProperties

(* They come in ascending order.                                            *)
LEMMA SortedLines ==
  ASSUME NEW b \in Seq(Line), NEW t \in OrderedByProduct(b)
  PROVE  \A i, j \in 1..Len(t) : i < j => t[i].product <= t[j].product
<1>1. PICK f \in [DOMAIN b -> DOMAIN b] :
        /\ t = [i \in DOMAIN b |-> b[f[i]]]
        /\ \A i, j \in DOMAIN b : i < j => b[f[i]].product <= b[f[j]].product
  BY DEF OrderedByProduct
<1>2. t \in Seq(Line) /\ Len(t) = Len(b) /\ DOMAIN b = 1..Len(b)
  BY OrderedLines
<1> QED
  BY <1>1, <1>2

LEMMA EmptyTxnType == EmptyTxn \in Txn
BY DEF EmptyTxn, Txn

(* A line of a worker that still has lines is well typed.                   *)
LEMMA CurrentType ==
  ASSUME TypeOK, NEW w \in Workers, MoreLines(w)
  PROVE  Current(w) \in Line
BY DEF TypeOK, MoreLines, Current, Txn

(* Writing a line keeps a transaction a transaction.                        *)
LEMMA WrittenType ==
  ASSUME NEW t \in Txn, NEW p \in Products, NEW q \in Nat, NEW level \in Int,
         NEW new \in SUBSET ({"low_stock", "out_of_stock"} \X Products)
  PROVE  Written(t, p, q, level, new) \in Txn
<1>1. /\ t.next + 1 \in Nat \ {0}
      /\ t.written \cup {p} \in SUBSET Products
      /\ [t.stock EXCEPT ![p] = level] \in [Products -> Int]
      /\ [t.qty EXCEPT ![p] = @ + q] \in [Products -> Nat]
      /\ t.notices \cup new \in SUBSET ({"low_stock", "out_of_stock"} \X Products)
      /\ t.order \in Orders \cup {None} /\ t.lines \in Seq(Line) /\ t.seen \in Seq(Int)
  <2>1. t.next \in Nat \ {0} /\ t.written \in SUBSET Products
    BY DEF Txn
  <2>2. t.stock \in [Products -> Int] /\ t.qty \in [Products -> Nat]
    BY DEF Txn
  <2>3. /\ t.notices \in SUBSET ({"low_stock", "out_of_stock"} \X Products)
        /\ t.order \in Orders \cup {None} /\ t.lines \in Seq(Line) /\ t.seen \in Seq(Int)
    BY DEF Txn
  <2>4. [t.qty EXCEPT ![p] = @ + q] \in [Products -> Nat]
    BY <2>2
  <2> QED
    BY <2>1, <2>2, <2>3, <2>4
<1> QED
  BY <1>1 DEF Written, Txn

LEMMA WriteLineType ==
  ASSUME TypeOK, NEW w \in Workers, NEW p \in Products,
         NEW q \in Nat, NEW level \in Int,
         NEW new \in SUBSET ({"low_stock", "out_of_stock"} \X Products),
         WriteLine(w, p, q, level, new)
  PROVE  TypeOK'
<1>1. txn[w] \in Txn
  BY DEF TypeOK
<1>2. Written(txn[w], p, q, level, new) \in Txn
  BY <1>1, WrittenType
<1>3. txn' \in [Workers -> Txn]
  BY <1>2 DEF TypeOK, WriteLine
<1>4. lock' \in [Rows -> Workers \cup {None}]
  BY DEF TypeOK, WriteLine, Acquire
<1> QED
  BY <1>3, <1>4 DEF WriteLine, TypeOK, dbVars, orderVars

LEMMA NoticesType ==
  ASSUME NEW p \in Products, NEW level \in Int
  PROVE  StockNotices(p, level) \in SUBSET ({"low_stock", "out_of_stock"} \X Products)
BY DEF StockNotices

LEMMA EndUnchangedType ==
  ASSUME TypeOK, NEW w \in Workers, EndUnchanged(w)
  PROVE  TypeOK'
BY EmptyTxnType DEF TypeOK, EndUnchanged, Released, dbVars, orderVars

LEMMA VisibleType ==
  ASSUME TypeOK, NEW w \in Workers, NEW p \in Products
  PROVE  Visible(w, p) \in Int
BY DEF TypeOK, Visible, Txn

-----------------------------------------------------------------------------
(* Every step keeps TypeOK, one lemma per group of handlers.                *)

LEMMA FileType == ASSUME ConstantsAssumption, TypeOK, File PROVE TypeOK'
<1>1. ASSUME NEW o \in PurchaseOrders \cup SalesOrders, NEW b \in Baskets, CreateOrder(o, b)
      PROVE  TypeOK'
  <2>1. o \in Orders /\ b \in Seq(Line)
    BY DEF Orders, ConstantsAssumption
  <2> QED
    BY <1>1, <2>1 DEF CreateOrder, TypeOK
<1>2. ASSUME NEW r \in Returns, NEW so \in SalesOrders, NEW p \in Products,
             NEW q \in ReturnQuantities, FileReturn(r, so, p, q)
      PROVE  TypeOK'
  <2> DEFINE line == [product |-> p, quantity |-> q]
  <2>1. r \in Orders /\ line \in Line
    BY DEF Orders, ConstantsAssumption, Line
  <2>2. <<line>> \in Seq(Line)
    BY <2>1
  <2> HIDE DEF line
  <2>3. /\ status' = [status EXCEPT ![r] = "open"]
        /\ items' = [items EXCEPT ![r] = <<line>>]
        /\ against' = [against EXCEPT ![r] = so]
        /\ UNCHANGED <<stock, active, ledger, posted, notices, version, lock, pc, txn>>
    BY <1>2 DEF FileReturn, line
  <2> QED
    BY <2>1, <2>2, <2>3 DEF TypeOK
<1>3. ASSUME NEW p \in Products, DeactivateProduct(p)
      PROVE  TypeOK'
  BY <1>3 DEF DeactivateProduct, orderVars, TypeOK
<1> QED
  BY <1>1, <1>2, <1>3 DEF File

LEMMA RequestType ==
  ASSUME ConstantsAssumption, TypeOK, NEW w \in Workers, Request(w) PROVE TypeOK'
<1>0. txn[w] \in Txn
  BY DEF TypeOK
<1>1. ASSUME NEW o \in Orders, RequestOrder(w, o) PROVE TypeOK'
  <2>1. [txn[w] EXCEPT !.order = o] \in Txn
    BY <1>0 DEF Txn
  <2>2. txn' \in [Workers -> Txn]
    BY <1>1, <2>1 DEF RequestOrder, TypeOK
  <2> QED
    BY <1>1, <2>2 DEF RequestOrder, TypeOK, dbVars, orderVars
<1>2. ASSUME NEW p \in Products, NEW q \in WriteOffs, RequestWriteOff(w, p, q) PROVE TypeOK'
  <2> DEFINE line == [product |-> p, quantity |-> q]
  <2>1. <<line>> \in Seq(Line)
    BY DEF ConstantsAssumption, Line
  <2> HIDE DEF line
  <2>2. [txn[w] EXCEPT !.lines = <<line>>] \in Txn
    BY <1>0, <2>1 DEF Txn
  <2>3. txn' \in [Workers -> Txn]
    BY <1>2, <2>2 DEF RequestWriteOff, TypeOK, line
  <2> QED
    BY <1>2, <2>3 DEF RequestWriteOff, TypeOK, dbVars, orderVars
<1> QED
  BY <1>1, <1>2 DEF Request

LEMMA LockOrderType ==
  ASSUME TypeOK, NEW w \in Workers, LockOrder(w) PROVE TypeOK'
<1>1. lock' = lock \/ lock' = [lock EXCEPT ![txn[w].order] = w]
  BY DEF LockOrder, Acquire
<1>2. lock' \in [Rows -> Workers \cup {None}]
  BY <1>1 DEF TypeOK
<1>3. pc' = [pc EXCEPT ![w] = "items"] /\ UNCHANGED <<dbVars, orderVars, version, txn>>
  BY DEF LockOrder
<1> QED
  BY <1>2, <1>3 DEF TypeOK, dbVars, orderVars

LEMMA ReadItemsType ==
  ASSUME TypeOK, Addressed, NEW w \in Workers, ReadItems(w) PROVE TypeOK'
<1>1. txn[w] \in Txn /\ items[txn[w].order] \in Seq(Line)
  BY DEF TypeOK, Addressed, ReadItems
<1>2. PICK lines \in OrderedByProduct(items[txn[w].order]) :
        txn' = [txn EXCEPT ![w].lines = lines]
  BY DEF ReadItems
<1>3. lines \in Seq(Line)
  BY <1>1, OrderedLines
<1>4. [txn[w] EXCEPT !.lines = lines] \in Txn
  BY <1>1, <1>3 DEF Txn
<1>5. txn' \in [Workers -> Txn]
  BY <1>2, <1>4 DEF TypeOK
<1> QED
  BY <1>5 DEF ReadItems, TypeOK, dbVars, orderVars

LEMMA CheckLineType ==
  ASSUME TypeOK, NEW w \in Workers, CheckLine(w) PROVE TypeOK'
<1> DEFINE t == txn[w]
           line == t.lines[Len(t.seen) + 1]
           seen == Append(t.seen, stock[line.product])
<1>1. t \in Txn /\ t.seen \in Seq(Int) /\ t.lines \in Seq(Line)
  BY DEF TypeOK, Txn
<1>2. Len(t.seen) + 1 \in 1..Len(t.lines)
  BY <1>1 DEF CheckLine, Checking
<1>3. line \in Line
  BY <1>1, <1>2, ElementOfSeq
<1>4. stock[line.product] \in Int
  BY <1>3 DEF Line, TypeOK
<1>5. seen \in Seq(Int)
  BY <1>1, <1>4, AppendProperties
<1>6. txn' = [txn EXCEPT ![w] = [t EXCEPT !.seen = seen]]
  BY DEF CheckLine
<1>7. lock' = lock \/ lock' = [lock EXCEPT ![line.product] = w]
  BY DEF CheckLine, Acquire
<1> HIDE DEF line, seen
<1>8. [t EXCEPT !.seen = seen] \in Txn
  BY <1>1, <1>5 DEF Txn
<1>9. txn' \in [Workers -> Txn] /\ lock' \in [Rows -> Workers \cup {None}]
  BY <1>6, <1>7, <1>8 DEF TypeOK
<1> QED
  BY <1>9 DEF CheckLine, TypeOK, dbVars, orderVars

LEMMA WritingType ==
  ASSUME TypeOK, NEW w \in Workers,
         ReceiveLine(w) \/ ApproveLine(w) \/ SellLine(w) \/ WriteOffLine(w)
  PROVE  TypeOK'
<1> DEFINE p == Current(w).product
           q == Current(w).quantity
<1>1. MoreLines(w)
  BY DEF ReceiveLine, ApproveLine, SellLine, WriteOffLine
<1>2. Current(w) \in Line
  BY <1>1, CurrentType
<1>3. p \in Products /\ q \in Nat
  BY <1>2 DEF Line
<1>4. stock[p] \in Int /\ Visible(w, p) \in Int
  BY <1>3, VisibleType DEF TypeOK
<1> HIDE DEF p, q
<1>5. PICK level \in Int, new \in SUBSET ({"low_stock", "out_of_stock"} \X Products) :
        WriteLine(w, p, q, level, new)
  <2>1. CASE ReceiveLine(w)
    <3>1. Visible(w, p) + q \in Int
      BY <1>3, <1>4
    <3> QED
      BY <1>3, <3>1, <2>1, NoticesType DEF ReceiveLine, p, q
  <2>2. CASE ApproveLine(w)
    <3>1. Visible(w, p) + q \in Int
      BY <1>3, <1>4
    <3> QED
      BY <1>3, <3>1, <2>2 DEF ApproveLine, p, q
  <2>3. CASE SellLine(w)
    <3>1. txn[w] \in Txn /\ txn[w].seen \in Seq(Int) /\ txn[w].next \in Nat \ {0}
      BY DEF TypeOK, Txn
    <3>2. txn[w].next \in 1..Len(txn[w].seen)
      BY <3>1, <2>3 DEF SellLine, MoreLines
    <3>3. txn[w].seen[txn[w].next] - q \in Int
      BY <1>3, <3>1, <3>2, ElementOfSeq
    <3> QED
      BY <1>3, <3>3, <2>3, NoticesType DEF SellLine, p, q
  <2>4. CASE WriteOffLine(w)
    <3>1. stock[p] - q \in Int
      BY <1>3, <1>4
    <3> QED
      BY <1>3, <3>1, <2>4, NoticesType DEF WriteOffLine, p, q
  <2> QED
    BY <2>1, <2>2, <2>3, <2>4
<1> QED
  BY <1>3, <1>5, WriteLineType

LEMMA CommitType ==
  ASSUME TypeOK, NEW w \in Workers, Commit(w) PROVE TypeOK'
<1> DEFINE t == txn[w]
<1>1. t \in Txn /\ t.stock \in [Products -> Int] /\ t.qty \in [Products -> Nat]
      /\ t.order \in Orders \cup {None}
      /\ t.notices \in SUBSET ({"low_stock", "out_of_stock"} \X Products)
  BY DEF TypeOK, Txn
<1>2. stock' \in [Products -> Int]
  BY <1>1 DEF Commit, TypeOK
<1>3. ledger' \in [TransactionType -> [Products -> Nat]]
  <2>1. TypeOf(t.order) \in TransactionType
    BY DEF TypeOf, TransactionType
  <2>2. [p \in Products |-> ledger[TypeOf(t.order)][p] + t.qty[p]] \in [Products -> Nat]
    BY <1>1, <2>1 DEF TypeOK
  <2> QED
    BY <2>1, <2>2 DEF Commit, TypeOK
<1>4. status' \in [Orders -> {"absent", "open", "done"}]
  BY DEF Commit, TypeOK
<1>5. posted' \in [Orders -> [Products -> Nat]]
  BY <1>1 DEF Commit, TypeOK
<1>6. notices' \subseteq ({"low_stock", "out_of_stock"} \X Products)
                  \cup ({"purchase_completed", "sale_completed"} \X Orders)
  <2>1. CreatorNotice(t.order) \subseteq {"purchase_completed", "sale_completed"} \X Orders
    BY DEF CreatorNotice, Orders
  <2> QED
    BY <1>1, <2>1 DEF Commit, TypeOK
<1>7. lock' \in [Rows -> Workers \cup {None}]
  BY DEF Commit, Released, TypeOK
<1>8. txn' \in [Workers -> Txn] /\ pc' \in [Workers -> {"idle", "order", "items", "lines", "bump"}]
  BY EmptyTxnType DEF Commit, TypeOK
<1>9. UNCHANGED <<active, items, against, version>>
  BY DEF Commit, orderVars
<1> QED
  BY <1>2, <1>3, <1>4, <1>5, <1>6, <1>7, <1>8, <1>9 DEF TypeOK

LEMMA BumpType == ASSUME TypeOK, NEW w \in Workers, Bump(w) PROVE TypeOK'
BY DEF Bump, TypeOK, dbVars, orderVars

LEMMA RefusalType ==
  ASSUME TypeOK, NEW w \in Workers,
         \/ RefuseReplay(w) \/ RefuseSale(w) \/ RefuseInactive(w)
         \/ RefuseWriteOff(w) \/ Abort(w)
  PROVE  EndUnchanged(w) /\ TypeOK'
<1>1. EndUnchanged(w)
  BY DEF RefuseReplay, RefuseSale, RefuseInactive, RefuseWriteOff, Abort
<1> QED
  BY <1>1, EndUnchangedType

LEMMA InitType == ConstantsAssumption /\ Init => TypeOK /\ Addressed
<1> SUFFICES ASSUME ConstantsAssumption, Init PROVE TypeOK /\ Addressed
  OBVIOUS
<1>1. TypeOK
  <2>1. /\ stock \in [Products -> Int]
        /\ ledger \in [TransactionType -> [Products -> Nat]]
    <3>1. Opening \in [Products -> Nat] /\ [p \in Products |-> 0] \in [Products -> Nat]
      BY DEF ConstantsAssumption
    <3>2. stock = Opening /\ ledger = [t \in TransactionType |->
                   IF t = "purchase" THEN Opening ELSE [p \in Products |-> 0]]
      BY DEF Init
    <3> QED
      BY <3>1, <3>2
  <2>2. <<>> \in Seq(Line)
    OBVIOUS
  <2>3. items \in [Orders -> Seq(Line)]
    BY <2>2 DEF Init
  <2>4. txn \in [Workers -> Txn]
    BY EmptyTxnType DEF Init
  <2>5. posted \in [Orders -> [Products -> Nat]]
    BY DEF Init
  <2> QED
    BY <2>1, <2>3, <2>4, <2>5 DEF Init, TypeOK
<1>2. Addressed
  BY DEF Init, Addressed
<1> QED
  BY <1>1, <1>2

LEMMA ServeType ==
  ASSUME TypeOK, Addressed, NEW w \in Workers, Serve(w) \/ Abort(w)
  PROVE  TypeOK'
<1>1. CASE LockOrder(w)
  BY <1>1, LockOrderType
<1>2. CASE ReadItems(w)
  BY <1>2, ReadItemsType
<1>3. CASE CheckLine(w)
  BY <1>3, CheckLineType
<1>4. CASE ReceiveLine(w) \/ ApproveLine(w) \/ SellLine(w) \/ WriteOffLine(w)
  BY <1>4, WritingType
<1>5. CASE Commit(w)
  BY <1>5, CommitType
<1>6. CASE Bump(w)
  BY <1>6, BumpType
<1>7. CASE RefuseReplay(w) \/ RefuseSale(w) \/ RefuseInactive(w)
           \/ RefuseWriteOff(w) \/ Abort(w)
  BY <1>7, RefusalType
<1> QED
  BY <1>1, <1>2, <1>3, <1>4, <1>5, <1>6, <1>7 DEF Serve

LEMMA ServeAddressed ==
  ASSUME TypeOK, Addressed, NEW w \in Workers, Serve(w) \/ Abort(w)
  PROVE  Addressed'
<1> SUFFICES ASSUME NEW v \in Workers, pc'[v] \in {"order", "items"}
             PROVE  txn'[v].order \in Orders
  BY DEF Addressed
<1>1. CASE LockOrder(w)
  <2>1. txn' = txn /\ pc[v] \in {"order", "items"}
    BY <1>1 DEF LockOrder, TypeOK
  <2> QED
    BY <2>1 DEF Addressed
<1>2. CASE ReadItems(w)
  <2>1. v # w /\ pc' = [pc EXCEPT ![w] = "lines"]
    BY <1>2 DEF ReadItems, TypeOK
  <2>2. txn'[v] = txn[v] /\ pc'[v] = pc[v]
    BY <1>2, <2>1 DEF ReadItems, TypeOK
  <2> QED
    BY <2>2 DEF Addressed
<1>3. CASE CheckLine(w) \/ ReceiveLine(w) \/ ApproveLine(w) \/ SellLine(w) \/ WriteOffLine(w)
  <2>1. pc[w] = "lines" /\ pc' = pc
    BY <1>3 DEF CheckLine, Checking, ReceiveLine, ApproveLine, SellLine, WriteOffLine,
                MoreLines, WriteLine
  <2>2. v # w
    BY <2>1
  <2>3. txn'[v] = txn[v]
    BY <1>3, <2>2 DEF CheckLine, ReceiveLine, ApproveLine, SellLine, WriteOffLine,
                      WriteLine, TypeOK
  <2> QED
    BY <2>1, <2>3 DEF Addressed
<1>4. CASE Commit(w) \/ Bump(w) \/ EndUnchanged(w)
  <2>1. v # w /\ pc'[v] = pc[v]
    BY <1>4 DEF Commit, Bump, EndUnchanged, TypeOK
  <2>2. txn'[v] = txn[v]
    BY <1>4, <2>1 DEF Commit, Bump, EndUnchanged, TypeOK
  <2> QED
    BY <2>1, <2>2 DEF Addressed
<1>5. CASE RefuseReplay(w) \/ RefuseSale(w) \/ RefuseInactive(w)
           \/ RefuseWriteOff(w) \/ Abort(w)
  BY <1>4, <1>5, RefusalType
<1> QED
  BY <1>1, <1>2, <1>3, <1>4, <1>5 DEF Serve

LEMMA RequestAddressed ==
  ASSUME TypeOK, Addressed, NEW w \in Workers, Request(w)
  PROVE  Addressed'
<1> SUFFICES ASSUME NEW v \in Workers, pc'[v] \in {"order", "items"}
             PROVE  txn'[v].order \in Orders
  BY DEF Addressed
<1>0. txn[w] \in Txn
  BY DEF TypeOK
<1>1. ASSUME NEW o \in Orders, RequestOrder(w, o) PROVE txn'[v].order \in Orders
  <2>1. CASE v = w
    BY <1>0, <1>1, <2>1 DEF RequestOrder, TypeOK, Txn
  <2>2. CASE v # w
    BY <1>1, <2>2 DEF RequestOrder, TypeOK, Addressed
  <2> QED
    BY <2>1, <2>2
<1>2. ASSUME NEW p \in Products, NEW q \in WriteOffs, RequestWriteOff(w, p, q)
      PROVE  txn'[v].order \in Orders
  BY <1>2 DEF RequestWriteOff, TypeOK, Addressed
<1> QED
  BY <1>1, <1>2 DEF Request

LEMMA TypeStep ==
  ASSUME TypeOK, Addressed, [Next]_vars
  PROVE  TypeOK' /\ Addressed'
<1>1. CASE File
  <2>1. pc' = pc /\ txn' = txn
    BY <1>1 DEF File, CreateOrder, FileReturn, DeactivateProduct
  <2> QED
    BY <1>1, <2>1, FileType, ConstantsAssumption DEF Addressed
<1>2. ASSUME NEW w \in Workers, Request(w) PROVE TypeOK' /\ Addressed'
  BY <1>2, RequestType, RequestAddressed, ConstantsAssumption
<1>3. ASSUME NEW w \in Workers, Serve(w) \/ Abort(w) PROVE TypeOK' /\ Addressed'
  BY <1>3, ServeType, ServeAddressed
<1>4. CASE UNCHANGED vars
  BY <1>4 DEF vars, dbVars, orderVars, TypeOK, Addressed
<1> QED
  BY <1>1, <1>2, <1>3, <1>4 DEF Next

(* The variables keep their types whatever the sizes of the sets of         *)
(* workers, products and orders, locked or not.                             *)
THEOREM TypeCorrect == Spec => [](TypeOK /\ Addressed)
<1>1. Init => TypeOK /\ Addressed
  BY InitType, ConstantsAssumption
<1>2. TypeOK /\ Addressed /\ [Next]_vars => (TypeOK /\ Addressed)'
  BY TypeStep
<1> QED
  BY <1>1, <1>2, PTL DEF Spec

TypeInv == TypeOK /\ Addressed

-----------------------------------------------------------------------------
(* The discipline of the row locks, with INVENTORY_LOCKING_ENABLED on or    *)
(* off: what a worker has taken, how far it is, and the status of the order *)
(* it has locked.                                                           *)

(* The rows a worker owns: its order's from LockOrder to the end of the     *)
(* transaction, those of the lines it has written, those it has checked.    *)
Took(w, r) ==
  LET t == txn[w] IN
  \/ r = t.order /\ Locks(w) /\ pc[w] \in {"items", "lines"}
  \/ r \in t.written
  \/ LockingEnabled /\ \E i \in 1..Len(t.seen) : r = t.lines[i].product

Owns(w) == \A r \in Rows : lock[r] = w <=> Took(w, r)

Progress(w) ==
  LET t == txn[w] IN
  /\ pc[w] # "lines" => t.lines = <<>> /\ t.seen = <<>> /\ t.next = 1
  /\ pc[w] \in {"idle", "bump"} => t.order = None
  /\ t.next <= Len(t.lines) + 1
  /\ Len(t.seen) <= Len(t.lines)
  /\ t.seen # <<>> => t.order \in SalesOrders
  /\ t.order \in SalesOrders /\ t.next > 1 => Len(t.seen) = Len(t.lines)
  /\ t.written = {t.lines[i].product : i \in 1..(t.next - 1)}
  /\ \A i, j \in 1..Len(t.lines) : i < j => t.lines[i].product <= t.lines[j].product

(* The order a worker has locked is not settled yet.                        *)
Entitled(w) ==
  pc[w] \in {"items", "lines"} /\ txn[w].order # None /\ Locks(w) =>
    status[txn[w].order] = "open"

Disciplined(w) == Progress(w) /\ Owns(w) /\ Entitled(w)

LockInv == \A w \in Workers : Disciplined(w)

LEMMA NoneApart ==
  /\ None \notin Rows /\ None \notin Workers
  /\ Products \subseteq Rows /\ Orders \subseteq Rows /\ SalesOrders \subseteq Orders
  /\ Products \cap Orders = {} /\ Products \subseteq Nat
BY ConstantsAssumption DEF ConstantsAssumption, Rows, Orders

(* A worker whose transaction is left alone keeps its part.                 *)
LEMMA DisciplinedFrame ==
  ASSUME TypeInv, NEW v \in Workers, Disciplined(v),
         txn'[v] = txn[v], pc'[v] = pc[v],
         \A r \in Rows : lock'[r] = v <=> lock[r] = v,
         \A o \in Orders : lock[o] = v /\ status[o] = "open" => status'[o] = "open"
  PROVE  Disciplined(v)'
<1>1. Progress(v)'
  BY DEF Disciplined, Progress
<1>2. Owns(v)'
  BY DEF Disciplined, Owns, Took, Locks
<1>3. Entitled(v)'
  <2>1. txn[v].order \in Orders \cup {None}
    BY DEF TypeInv, TypeOK, Txn
  <2> SUFFICES ASSUME pc[v] \in {"items", "lines"}, txn[v].order \in Orders, Locks(v)
               PROVE  status'[txn[v].order] = "open"
    BY <2>1 DEF Entitled, Locks
  <2>2. lock[txn[v].order] = v /\ status[txn[v].order] = "open"
    BY NoneApart DEF Disciplined, Owns, Took, Entitled
  <2> QED
    BY <2>2
<1> QED
  BY <1>1, <1>2, <1>3 DEF Disciplined

(* A step of w takes at most a free row, or gives its own back.             *)
LEMMA DisciplinedOthers ==
  ASSUME TypeInv, NEW w \in Workers, NEW v \in Workers, v # w, Disciplined(v),
         txn'[v] = txn[v], pc'[v] = pc[v],
         \A o \in Orders : lock[o] = v /\ status[o] = "open" => status'[o] = "open",
         \/ lock' = lock \/ lock' = Released(w)
         \/ \E r \in Rows : Available(r, w) /\ lock' = [lock EXCEPT ![r] = w]
  PROVE  Disciplined(v)'
<1>1. \A r \in Rows : lock'[r] = v <=> lock[r] = v
  BY NoneApart DEF TypeInv, TypeOK, Released, Available
<1> QED
  BY <1>1, DisciplinedFrame

(* A worker that has not begun its lines owns no product.                   *)
LEMMA NothingWritten ==
  ASSUME NEW w \in Workers, Progress(w), pc[w] # "lines"
  PROVE  /\ txn[w].written = {} /\ txn[w].seen = <<>> /\ txn[w].lines = <<>>
         /\ txn[w].next = 1
BY DEF Progress

LEMMA FinishedDisciplined ==
  ASSUME NEW w \in Workers, txn'[w] = EmptyTxn, pc'[w] \in {"idle", "bump"},
         lock' = Released(w)
  PROVE  Disciplined(w)'
<1>1. /\ txn'[w].lines = <<>> /\ txn'[w].seen = <<>> /\ txn'[w].next = 1
      /\ txn'[w].written = {} /\ txn'[w].order = None
  BY DEF EmptyTxn
<1>2. Progress(w)'
  BY <1>1, NoneApart DEF Progress
<1>3. Owns(w)'
  <2>1. \A r \in Rows : lock'[r] # w
    BY NoneApart DEF Released
  <2>2. \A r \in Rows : ~Took(w, r)'
    BY <1>1, NoneApart DEF Took
  <2> QED
    BY <2>1, <2>2 DEF Owns
<1> QED
  BY <1>1, <1>2, <1>3 DEF Disciplined, Entitled

LEMMA EndDiscipline ==
  ASSUME TypeInv, LockInv, NEW w \in Workers, EndUnchanged(w)
  PROVE  LockInv'
<1>1. /\ lock' = Released(w) /\ txn'[w] = EmptyTxn /\ pc'[w] = "idle" /\ status' = status
      /\ \A v \in Workers : v # w => txn'[v] = txn[v] /\ pc'[v] = pc[v]
  BY DEF EndUnchanged, dbVars, TypeInv, TypeOK
<1>2. \A v \in Workers : Disciplined(v)'
  BY <1>1, DisciplinedOthers, FinishedDisciplined DEF LockInv
<1> QED
  BY <1>2 DEF LockInv

LEMMA FileDiscipline ==
  ASSUME TypeInv, LockInv, File
  PROVE  LockInv'
<1>1. UNCHANGED <<lock, pc, txn>>
  BY DEF File, CreateOrder, FileReturn, DeactivateProduct
<1>2. ASSUME NEW o \in Orders, status[o] = "open" PROVE status'[o] = "open"
  BY <1>2 DEF File, CreateOrder, FileReturn, DeactivateProduct, TypeInv, TypeOK
<1> QED
  BY <1>1, <1>2, DisciplinedFrame DEF LockInv

LEMMA RequestDiscipline ==
  ASSUME TypeInv, LockInv, NEW w \in Workers, Request(w)
  PROVE  LockInv'
<1>1. /\ pc[w] = "idle" /\ UNCHANGED <<lock, status>>
      /\ \A v \in Workers : v # w => txn'[v] = txn[v] /\ pc'[v] = pc[v]
  BY DEF Request, RequestOrder, RequestWriteOff, dbVars, TypeInv, TypeOK
<1>2. /\ Progress(w) /\ Owns(w) /\ txn[w] \in Txn /\ txn[w].order = None
      /\ txn[w].written = {} /\ txn[w].seen = <<>> /\ txn[w].lines = <<>>
      /\ txn[w].next = 1
  BY <1>1, NothingWritten DEF LockInv, Disciplined, Progress, TypeInv, TypeOK
<1>3. \A r \in Rows : lock[r] # w
  BY <1>1, <1>2 DEF Owns, Took
<1>4. ASSUME NEW o \in Orders, RequestOrder(w, o) PROVE Disciplined(w)'
  <2>1. txn'[w] = [txn[w] EXCEPT !.order = o] /\ pc'[w] = "order"
    BY <1>4 DEF RequestOrder, TypeInv, TypeOK
  <2>2. /\ txn'[w].lines = <<>> /\ txn'[w].seen = <<>> /\ txn'[w].next = 1
        /\ txn'[w].written = {}
    BY <1>2, <2>1 DEF Txn
  <2>3. Progress(w)' /\ Entitled(w)'
    BY <2>1, <2>2 DEF Progress, Entitled
  <2>4. Owns(w)'
    BY <1>1, <1>3, <2>1, <2>2 DEF Owns, Took
  <2> QED
    BY <2>3, <2>4 DEF Disciplined
<1>5. ASSUME NEW p \in Products, NEW q \in WriteOffs, RequestWriteOff(w, p, q)
      PROVE  Disciplined(w)'
  <2> DEFINE lines == <<[product |-> p, quantity |-> q]>>
  <2>0. Len(lines) = 1
    OBVIOUS
  <2>1. txn'[w] = [txn[w] EXCEPT !.lines = lines] /\ pc'[w] = "lines"
    BY <1>5 DEF RequestWriteOff, TypeInv, TypeOK
  <2> HIDE DEF lines
  <2>2. /\ txn'[w].lines = lines /\ txn'[w].seen = <<>> /\ txn'[w].next = 1
        /\ txn'[w].written = {} /\ txn'[w].order = None
    BY <1>2, <2>1 DEF Txn
  <2>3. Progress(w)' /\ Entitled(w)'
    <3>1. {lines[i].product : i \in 1..(1 - 1)} = {} /\ Len(<<>>) = 0
      OBVIOUS
    <3>2. \A i, j \in 1..Len(lines) : ~(i < j)
      BY <2>0
    <3>3. /\ txn'[w].next <= Len(txn'[w].lines) + 1
          /\ Len(txn'[w].seen) <= Len(txn'[w].lines)
          /\ txn'[w].written = {lines[i].product : i \in 1..(txn'[w].next - 1)}
      BY <2>0, <2>2, <3>1
    <3>4. txn'[w].order \notin SalesOrders /\ txn'[w].seen = <<>> /\ pc'[w] = "lines"
      BY <2>1, <2>2, NoneApart
    <3>5. Progress(w)'
      BY <2>2, <3>2, <3>3, <3>4 DEF Progress
    <3> QED
      BY <2>2, <3>5 DEF Entitled
  <2>4. Owns(w)'
    BY <1>1, <1>3, <2>1, <2>2, NoneApart DEF Owns, Took
  <2> QED
    BY <2>3, <2>4 DEF Disciplined
<1>6. Disciplined(w)'
  BY <1>4, <1>5 DEF Request
<1> QED
  BY <1>1, <1>6, DisciplinedOthers DEF LockInv

LEMMA LockOrderDiscipline ==
  ASSUME TypeInv, LockInv, NEW w \in Workers, LockOrder(w)
  PROVE  LockInv'
<1> DEFINE o == txn[w].order
<1>1. /\ pc[w] = "order" /\ pc'[w] = "items" /\ txn' = txn /\ UNCHANGED status
      /\ status[o] = "open" /\ o \in Orders
      /\ \A v \in Workers : v # w => pc'[v] = pc[v]
  BY DEF LockOrder, dbVars, TypeInv, TypeOK, Addressed
<1>2. IF Locks(w) THEN Available(o, w) /\ lock' = [lock EXCEPT ![o] = w] ELSE lock' = lock
  BY DEF LockOrder, Acquire
<1>3. Progress(w) /\ txn[w].written = {} /\ txn[w].seen = <<>> /\ \A r \in Rows : lock[r] # w
  BY <1>1, NothingWritten DEF LockInv, Disciplined, Owns, Took
<1>4. Progress(w)'
  BY <1>1, <1>3 DEF Progress
<1>5. Owns(w)'
  <2>1. \A r \in Rows : Took(w, r)' <=> r = o /\ Locks(w)
    BY <1>1, <1>3 DEF Took, Locks
  <2>2. \A r \in Rows : lock'[r] = w <=> r = o /\ Locks(w)
    BY <1>1, <1>2, <1>3, NoneApart DEF TypeInv, TypeOK
  <2> QED
    BY <2>1, <2>2 DEF Owns
<1>6. Disciplined(w)'
  BY <1>1, <1>4, <1>5 DEF Disciplined, Entitled
<1> QED
  BY <1>1, <1>2, <1>6, DisciplinedOthers, NoneApart DEF LockInv

LEMMA ReadItemsDiscipline ==
  ASSUME TypeInv, LockInv, NEW w \in Workers, ReadItems(w)
  PROVE  LockInv'
<1> DEFINE o == txn[w].order
<1>1. /\ pc[w] = "items" /\ pc'[w] = "lines" /\ UNCHANGED <<status, lock>>
      /\ \A v \in Workers : v # w => txn'[v] = txn[v] /\ pc'[v] = pc[v]
  BY DEF ReadItems, dbVars, TypeInv, TypeOK
<1>2. o \in Orders /\ items[o] \in Seq(Line) /\ txn[w] \in Txn
  BY <1>1 DEF TypeInv, Addressed, TypeOK
<1>3. PICK lines \in OrderedByProduct(items[o]) : txn' = [txn EXCEPT ![w].lines = lines]
  BY DEF ReadItems
<1>4. /\ lines \in Seq(Line) /\ Len(lines) \in Nat
      /\ \A i, j \in 1..Len(lines) : i < j => lines[i].product <= lines[j].product
  BY <1>2, <1>3, OrderedLines, SortedLines
<1>5. /\ Disciplined(w) /\ Progress(w) /\ txn[w].seen = <<>> /\ txn[w].next = 1
      /\ txn[w].written = {}
  BY <1>1, NothingWritten DEF LockInv, Disciplined
<1>6. /\ txn'[w].lines = lines /\ txn'[w].seen = <<>> /\ txn'[w].next = 1
      /\ txn'[w].written = {} /\ txn'[w].order = o
  BY <1>2, <1>3, <1>5 DEF Txn, TypeInv, TypeOK
<1>7. Progress(w)'
  BY <1>1, <1>4, <1>6 DEF Progress
<1>8. Owns(w)'
  BY <1>1, <1>5, <1>6 DEF Disciplined, Owns, Took, Locks
<1>9. Entitled(w)'
  BY <1>1, <1>5, <1>6 DEF Disciplined, Entitled, Locks
<1>10. Disciplined(w)'
  BY <1>7, <1>8, <1>9 DEF Disciplined
<1> QED
  BY <1>1, <1>10, DisciplinedOthers DEF LockInv

LEMMA CheckLineDiscipline ==
  ASSUME TypeInv, LockInv, NEW w \in Workers, CheckLine(w)
  PROVE  LockInv'
<1> DEFINE t == txn[w]
           n == Len(t.seen) + 1
           p == t.lines[n].product
           seen == Append(t.seen, stock[p])
<1>1. /\ t \in Txn /\ t.seen \in Seq(Int) /\ t.lines \in Seq(Line) /\ pc[w] = "lines"
      /\ t.order \in SalesOrders /\ n \in 1..Len(t.lines) /\ t.next \in Nat \ {0}
      /\ Disciplined(w)
  BY DEF TypeInv, TypeOK, Txn, CheckLine, Checking, MoreLines, LockInv
<1>2. p \in Products /\ stock[p] \in Int /\ p \in Rows
  <2>1. t.lines[n] \in Line
    BY <1>1, ElementOfSeq
  <2> QED
    BY <2>1, NoneApart DEF Line, TypeInv, TypeOK
<1>3. /\ UNCHANGED <<pc, status>>
      /\ txn' = [txn EXCEPT ![w] = [t EXCEPT !.seen = seen]]
      /\ IF LockingEnabled THEN Available(p, w) /\ lock' = [lock EXCEPT ![p] = w]
                           ELSE lock' = lock
  BY DEF CheckLine, Acquire, dbVars
<1>4. /\ Len(seen) = n /\ seen # <<>>
      /\ \A i \in 1..Len(t.seen) : seen[i] = t.seen[i]
  <2>1. ASSUME NEW z \in Seq(Int), NEW x \in Int
        PROVE  /\ Len(Append(z, x)) = Len(z) + 1 /\ Append(z, x) # <<>>
               /\ \A i \in 1..Len(z) : Append(z, x)[i] = z[i]
    BY AppendProperties
  <2> QED
    BY <1>1, <1>2, <2>1
<1> HIDE DEF seen
<1>5. /\ txn'[w].order = t.order /\ txn'[w].lines = t.lines /\ txn'[w].seen = seen
      /\ txn'[w].next = t.next /\ txn'[w].written = t.written
      /\ \A v \in Workers : v # w => txn'[v] = txn[v]
  BY <1>1, <1>3 DEF Txn, TypeInv, TypeOK
<1>6. Progress(w)'
  <2>1. Progress(w) /\ Len(t.seen) # Len(t.lines)
    BY <1>1 DEF Disciplined, CheckLine, Checking
  <2>2. t.next = 1
    BY <1>1, <2>1 DEF Progress
  <2> QED
    BY <1>1, <1>3, <1>4, <1>5, <2>1, <2>2 DEF Progress
<1>7. Owns(w)'
  <2> SUFFICES ASSUME NEW r \in Rows PROVE lock'[r] = w <=> Took(w, r)'
    BY DEF Owns
  <2>1. lock[r] = w <=> Took(w, r)
    BY <1>1 DEF Disciplined, Owns
  <2>2. Took(w, r)' <=> (Took(w, r) \/ (LockingEnabled /\ r = p))
    <3>1. 1..n = (1..Len(t.seen)) \cup {n}
      BY <1>1
    <3> HIDE DEF n
    <3>2. (\E i \in 1..n : r = t.lines[i].product)
            <=> (\E i \in 1..Len(t.seen) : r = t.lines[i].product) \/ r = p
      BY <3>1
    <3>3. Took(w, r)' <=> \/ r = t.order /\ Locks(w) /\ pc[w] \in {"items", "lines"}
                          \/ r \in t.written
                          \/ LockingEnabled /\ \E i \in 1..n : r = t.lines[i].product
      BY <1>3, <1>4, <1>5 DEF Took, Locks
    <3> DEFINE Before == \E i \in 1..Len(t.seen) : r = t.lines[i].product
               After == \E i \in 1..n : r = t.lines[i].product
    <3>4. After <=> Before \/ r = p
      BY <3>2
    <3>5. Took(w, r) <=> \/ r = t.order /\ Locks(w) /\ pc[w] \in {"items", "lines"}
                         \/ r \in t.written
                         \/ LockingEnabled /\ Before
      BY DEF Took
    <3> HIDE DEF Before, After, p
    <3> QED
      BY <3>3, <3>4, <3>5 DEF After
  <2> HIDE DEF p
  <2>3. lock'[r] = w <=> (lock[r] = w \/ (LockingEnabled /\ r = p))
    <3>0. lock \in [Rows -> Workers \cup {None}]
      BY DEF TypeInv, TypeOK
    <3>1. CASE LockingEnabled
      BY <1>2, <1>3, <3>0, <3>1
    <3>2. CASE ~LockingEnabled
      BY <1>3, <3>2
    <3> QED
      BY <3>1, <3>2
  <2> QED
    BY <2>1, <2>2, <2>3
<1>8. Entitled(w)'
  BY <1>1, <1>3, <1>5 DEF Disciplined, Entitled, Locks
<1>9. Disciplined(w)'
  BY <1>6, <1>7, <1>8 DEF Disciplined
<1>10. /\ \A v \in Workers : v # w => Disciplined(v) /\ txn'[v] = txn[v] /\ pc'[v] = pc[v]
       /\ \A o \in Orders : status[o] = "open" => status'[o] = "open"
       /\ lock' = lock \/ \E r \in Rows : Available(r, w) /\ lock' = [lock EXCEPT ![r] = w]
  BY <1>2, <1>3, <1>5 DEF LockInv
<1>11. \A v \in Workers : Disciplined(v)'
  BY <1>9, <1>10, DisciplinedOthers
<1> QED
  BY <1>11 DEF LockInv

(* A line written, by whichever handler: its product's row is taken.        *)
LEMMA WriteLineDiscipline ==
  ASSUME TypeInv, LockInv, NEW w \in Workers, MoreLines(w),
         NEW q, NEW level, NEW new,
         LET p == Current(w).product
         IN  Available(p, w) /\ WriteLine(w, p, q, level, new),
         txn[w].order \in SalesOrders => Len(txn[w].seen) = Len(txn[w].lines)
  PROVE  LockInv'
<1> DEFINE t == txn[w]
           p == Current(w).product
           u == Written(t, p, q, level, new)
<1>1. /\ t \in Txn /\ Disciplined(w) /\ Current(w) \in Line /\ pc[w] = "lines"
      /\ t.next \in Nat \ {0} /\ t.next <= Len(t.lines) /\ Len(t.lines) \in Nat
  BY CurrentType DEF TypeInv, TypeOK, LockInv, MoreLines, Txn
<1>2. p \in Products /\ p \in Rows
  BY <1>1, NoneApart DEF Line
<1>3. /\ u.order = t.order /\ u.lines = t.lines /\ u.seen = t.seen
      /\ u.next = t.next + 1 /\ u.written = t.written \cup {p}
  BY DEF Written
<1>4. /\ UNCHANGED <<pc, status>> /\ txn' = [txn EXCEPT ![w] = u]
      /\ Available(p, w) /\ lock' = [lock EXCEPT ![p] = w]
  BY DEF WriteLine, Acquire, dbVars
<1> HIDE DEF u
<1>5. txn'[w] = u /\ \A v \in Workers : v # w => txn'[v] = txn[v] /\ pc'[v] = pc[v]
  BY <1>4 DEF TypeInv, TypeOK
<1>6. Progress(w)'
  <2>1. Progress(w)
    BY <1>1 DEF Disciplined
  <2>2. u.written = {u.lines[i].product : i \in 1..(u.next - 1)}
    <3>1. u.next - 1 = t.next /\ 1..t.next = (1..(t.next - 1)) \cup {t.next}
      BY <1>1, <1>3
    <3>2. p = t.lines[t.next].product
      BY DEF Current
    <3>3. t.written = {t.lines[i].product : i \in 1..(t.next - 1)}
      BY <2>1 DEF Progress
    <3> HIDE DEF p
    <3> QED
      BY <1>3, <3>1, <3>2, <3>3
  <2>3. /\ u.next <= Len(u.lines) + 1 /\ Len(u.seen) <= Len(u.lines)
        /\ u.seen # <<>> => u.order \in SalesOrders
        /\ u.order \in SalesOrders => Len(u.seen) = Len(u.lines)
    BY <1>1, <1>3, <2>1 DEF Progress
  <2>4. \A i, j \in 1..Len(u.lines) : i < j => u.lines[i].product <= u.lines[j].product
    BY <1>3, <2>1 DEF Progress
  <2>5. txn'[w] = u /\ pc'[w] = "lines"
    BY <1>1, <1>4, <1>5
  <2> HIDE DEF p, t
  <2> QED
    BY <2>2, <2>3, <2>4, <2>5 DEF Progress
<1> HIDE DEF p
<1>7. Owns(w)'
  <2> SUFFICES ASSUME NEW r \in Rows PROVE lock'[r] = w <=> Took(w, r)'
    BY DEF Owns
  <2>1. lock[r] = w <=> Took(w, r)
    BY <1>1 DEF Disciplined, Owns
  <2>2. Took(w, r)' <=> Took(w, r) \/ r = p
    BY <1>3, <1>4, <1>5 DEF Took, Locks
  <2>3. lock'[r] = w <=> lock[r] = w \/ r = p
    BY <1>2, <1>4 DEF TypeInv, TypeOK
  <2> QED
    BY <2>1, <2>2, <2>3
<1>8. Entitled(w)'
  BY <1>1, <1>3, <1>4, <1>5 DEF Disciplined, Entitled, Locks
<1>9. Disciplined(w)'
  BY <1>6, <1>7, <1>8 DEF Disciplined
<1> QED
  BY <1>2, <1>4, <1>5, <1>9, DisciplinedOthers DEF LockInv

LEMMA WritingDiscipline ==
  ASSUME TypeInv, LockInv, NEW w \in Workers,
         ReceiveLine(w) \/ ApproveLine(w) \/ SellLine(w) \/ WriteOffLine(w)
  PROVE  LockInv'
<1> DEFINE p == Current(w).product
<1>1. MoreLines(w) /\ Available(p, w)
  BY DEF ReceiveLine, ApproveLine, SellLine, WriteOffLine
<1>2. \E q, level, new : WriteLine(w, p, q, level, new)
  <2>1. CASE ReceiveLine(w)
    BY <2>1 DEF ReceiveLine
  <2>2. CASE ApproveLine(w)
    BY <2>2 DEF ApproveLine
  <2>3. CASE SellLine(w)
    BY <2>3 DEF SellLine
  <2>4. CASE WriteOffLine(w)
    BY <2>4 DEF WriteOffLine
  <2> QED
    BY <2>1, <2>2, <2>3, <2>4
<1>3. txn[w].order \in SalesOrders => Len(txn[w].seen) = Len(txn[w].lines)
  BY ConstantsAssumption, NoneApart
     DEF ConstantsAssumption, ReceiveLine, ApproveLine, SellLine, WriteOffLine
<1> QED
  BY <1>1, <1>2, <1>3, WriteLineDiscipline

LEMMA CommitDiscipline ==
  ASSUME TypeInv, LockInv, NEW w \in Workers, Commit(w)
  PROVE  LockInv'
<1>1. /\ lock' = Released(w) /\ txn'[w] = EmptyTxn /\ pc'[w] = "bump"
      /\ \A v \in Workers : v # w => txn'[v] = txn[v] /\ pc'[v] = pc[v]
  BY DEF Commit, TypeInv, TypeOK
<1>2. ASSUME NEW v \in Workers, v # w, NEW o \in Orders, lock[o] = v, status[o] = "open"
      PROVE  status'[o] = "open"
  <2>1. o # txn[w].order
    BY <1>2, NoneApart DEF Commit, Available
  <2> QED
    BY <1>2, <2>1 DEF Commit
<1>3. \A v \in Workers : Disciplined(v)'
  BY <1>1, <1>2, DisciplinedOthers, FinishedDisciplined DEF LockInv
<1> QED
  BY <1>3 DEF LockInv

LEMMA BumpDiscipline ==
  ASSUME TypeInv, LockInv, NEW w \in Workers, Bump(w)
  PROVE  LockInv'
<1>1. /\ UNCHANGED <<status, lock, txn>> /\ pc[w] = "bump" /\ pc'[w] = "idle"
      /\ \A v \in Workers : v # w => pc'[v] = pc[v]
  BY DEF Bump, dbVars, TypeInv, TypeOK
<1>2. Disciplined(w)'
  BY <1>1 DEF LockInv, Disciplined, Progress, Owns, Took, Entitled, Locks
<1> QED
  BY <1>1, <1>2, DisciplinedOthers DEF LockInv

LEMMA InitDiscipline == Init => LockInv
<1> SUFFICES ASSUME Init, NEW w \in Workers PROVE Disciplined(w)
  BY DEF LockInv
<1>1. /\ txn[w].lines = <<>> /\ txn[w].seen = <<>> /\ txn[w].next = 1
      /\ txn[w].written = {} /\ txn[w].order = None /\ pc[w] = "idle"
      /\ \A r \in Rows : lock[r] = None
  BY DEF Init, EmptyTxn
<1>2. Progress(w) /\ Entitled(w)
  BY <1>1, NoneApart DEF Progress, Entitled
<1>3. Owns(w)
  BY <1>1, NoneApart DEF Owns, Took
<1> QED
  BY <1>2, <1>3 DEF Disciplined

LEMMA NextDiscipline ==
  ASSUME TypeInv, LockInv, [Next]_vars
  PROVE  LockInv'
<1>1. CASE File
  BY <1>1, FileDiscipline
<1>2. ASSUME NEW w \in Workers, Request(w) PROVE LockInv'
  BY <1>2, RequestDiscipline
<1>3. ASSUME NEW w \in Workers, Serve(w) \/ Abort(w) PROVE LockInv'
  <2>1. CASE LockOrder(w)
    BY <2>1, LockOrderDiscipline
  <2>2. CASE ReadItems(w)
    BY <2>2, ReadItemsDiscipline
  <2>3. CASE CheckLine(w)
    BY <2>3, CheckLineDiscipline
  <2>4. CASE ReceiveLine(w) \/ ApproveLine(w) \/ SellLine(w) \/ WriteOffLine(w)
    BY <2>4, WritingDiscipline
  <2>5. CASE Commit(w)
    BY <2>5, CommitDiscipline
  <2>6. CASE Bump(w)
    BY <2>6, BumpDiscipline
  <2>7. CASE RefuseReplay(w) \/ RefuseSale(w) \/ RefuseInactive(w)
             \/ RefuseWriteOff(w) \/ Abort(w)
    BY <2>7, RefusalType, EndDiscipline DEF TypeInv
  <2> QED
    BY <1>3, <2>1, <2>2, <2>3, <2>4, <2>5, <2>6, <2>7 DEF Serve
<1>4. CASE UNCHANGED vars
  BY <1>4, DisciplinedFrame DEF vars, dbVars, LockInv
<1> QED
  BY <1>1, <1>2, <1>3, <1>4 DEF Next

(* Whatever runs, with locking on or off: a row is locked by the worker     *)
(* whose transaction took it, a worker takes its order's row first and then *)
(* its products' rows in ascending order, and the order it has locked is    *)
(* one that is not settled.                                                 *)
THEOREM LockDiscipline == Spec => []LockInv
<1>1. Spec => []TypeInv
  BY TypeCorrect DEF TypeInv
<1>2. TypeInv /\ LockInv /\ [Next]_vars => LockInv'
  BY NextDiscipline
<1> QED
  BY <1>1, <1>2, InitDiscipline, PTL DEF Spec

-----------------------------------------------------------------------------
(* No cycle of waiting workers.  A worker that owns a row and waits, waits  *)
(* for a product beyond all it owns; only finitely many workers are busy in *)
(* any state, so one of those waited for wants the highest product.         *)

LEMMA Highest ==
  ASSUME NEW S, IsFiniteSet(S), S # {}, NEW f, \A x \in S : f[x] \in Nat
  PROVE  \E x \in S : \A y \in S : f[y] <= f[x]
<1> DEFINE F == {T \in SUBSET S : T # {} /\ ~\E x \in T : \A y \in T : f[y] <= f[x]}
<1> SUFFICES ASSUME F # {} PROVE FALSE
  OBVIOUS
<1>0. F \in SUBSET SUBSET S
  OBVIOUS
<1>1. PICK T \in F : \A U \in F : U \subseteq T => U = T
  <2> HIDE DEF F
  <2> QED
    BY <1>0, SmallestFinite
<1>2. PICK z \in T : TRUE
  BY <1>1
<1>3. T \ {z} # {}
  BY <1>1, <1>2
<1>4. PICK x \in T \ {z} : \A y \in T \ {z} : f[y] <= f[x]
  <2> DEFINE U == T \ {z}
  <2>1. U \in SUBSET S /\ U \subseteq T /\ U # T /\ U \notin F
    BY <1>1, <1>2
  <2>2. U # {} /\ \E x \in U : \A y \in U : f[y] <= f[x]
    BY <1>3, <2>1
  <2> QED
    BY <2>2
<1>5. f[x] \in Nat /\ f[z] \in Nat /\ \A y \in T : f[y] \in Nat
  BY <1>1, <1>2, <1>4
<1>6. CASE f[z] <= f[x]
  BY <1>1, <1>4, <1>6
<1>7. CASE ~(f[z] <= f[x])
  <2>1. \A y \in T : f[y] <= f[z]
    BY <1>4, <1>5, <1>7
  <2> QED
    BY <1>1, <1>2, <2>1
<1> QED
  BY <1>6, <1>7

Busy == {w \in Workers : pc[w] # "idle"}

LEMMA BusyStep ==
  ASSUME TypeOK, IsFiniteSet(Busy), [Next]_vars
  PROVE  IsFiniteSet(Busy)'
<1>1. CASE File \/ UNCHANGED vars
  BY <1>1 DEF File, CreateOrder, FileReturn, DeactivateProduct, vars, Busy
<1>2. ASSUME NEW w \in Workers, Request(w) \/ Serve(w) \/ Abort(w)
      PROVE  IsFiniteSet(Busy)'
  <2>1. \A v \in Workers : v # w => pc'[v] = pc[v]
    <3>1. CASE Request(w)
      BY <3>1 DEF Request, RequestOrder, RequestWriteOff, TypeOK
    <3>2. CASE LockOrder(w) \/ ReadItems(w) \/ CheckLine(w) \/ Commit(w) \/ Bump(w)
      BY <3>2 DEF LockOrder, ReadItems, CheckLine, Commit, Bump, TypeOK
    <3>3. CASE ReceiveLine(w) \/ ApproveLine(w) \/ SellLine(w) \/ WriteOffLine(w)
      BY <3>3 DEF ReceiveLine, ApproveLine, SellLine, WriteOffLine, WriteLine
    <3>4. CASE RefuseReplay(w) \/ RefuseSale(w) \/ RefuseInactive(w)
               \/ RefuseWriteOff(w) \/ Abort(w)
      <4>1. EndUnchanged(w)
        BY <3>4 DEF RefuseReplay, RefuseSale, RefuseInactive, RefuseWriteOff, Abort
      <4> QED
        BY <4>1 DEF EndUnchanged, TypeOK
    <3> QED
      BY <1>2, <3>1, <3>2, <3>3, <3>4 DEF Serve
  <2>2. Busy' \subseteq Busy \cup {w}
    BY <2>1 DEF Busy
  <2>3. IsFiniteSet(Busy \cup {w})
    BY FS_AddElement
  <2> QED
    BY <2>2, <2>3, FS_Subset
<1> QED
  BY <1>1, <1>2 DEF Next

(* In any state only finitely many requests are being served.               *)
LEMMA BusyFinite == Spec => []IsFiniteSet(Busy)
<1>1. Init => IsFiniteSet(Busy)
  <2>1. Init => Busy = {}
    BY DEF Init, Busy
  <2> QED
    BY <2>1, FS_EmptySet
<1>2. TypeOK /\ IsFiniteSet(Busy) /\ [Next]_vars => IsFiniteSet(Busy)'
  BY BusyStep
<1> QED
  BY <1>1, <1>2, TypeCorrect, PTL DEF Spec

(* A worker that owns a row and waits, waits for a product beyond those it  *)
(* owns.                                                                    *)
LEMMA WaitsUpwards ==
  ASSUME TypeInv, LockInv, NEW v \in Workers, NEW u \in Workers, WaitsFor(v, u),
         NEW r \in Rows, lock[r] = v
  PROVE  /\ Wanted(v) \in Products
         /\ \A p \in Products : lock[p] = v => p < Wanted(v)
<1> DEFINE t == txn[v]
<1>1. /\ t \in Txn /\ t.lines \in Seq(Line) /\ t.seen \in Seq(Int)
      /\ t.written \subseteq Products /\ t.next \in Nat \ {0}
      /\ t.order \in Orders \cup {None} /\ Progress(v) /\ Owns(v)
      /\ Len(t.lines) \in Nat /\ Len(t.seen) \in Nat
  <2>1. t \in Txn
    BY DEF TypeInv, TypeOK
  <2>2. Progress(v) /\ Owns(v)
    BY DEF LockInv, Disciplined
  <2> HIDE DEF t
  <2> QED
    BY <2>1, <2>2 DEF Txn
<1>2. pc[v] \in {"items", "lines"}
  BY <1>1, NothingWritten DEF Owns, Took
<1>3. /\ Wanted(v) \in Rows /\ lock[Wanted(v)] = u /\ u # v /\ ~Took(v, Wanted(v))
  BY <1>1 DEF WaitsFor, Owns
<1>4. ASSUME NEW i \in 1..Len(t.lines) PROVE t.lines[i].product \in Products \cap Nat
  <2>1. t.lines[i] \in Line
    BY <1>1, ElementOfSeq
  <2> QED
    BY <2>1, NoneApart DEF Line
(* What it owns of products is on the lines up to the first n.              *)
<1>5. ASSUME NEW n \in 1..Len(t.lines), Wanted(v) = t.lines[n].product,
             t.next <= n, LockingEnabled => Len(t.seen) < n
      PROVE  /\ Wanted(v) \in Products
             /\ \A p \in Products : lock[p] = v => p < Wanted(v)
  <2>1. ASSUME NEW p \in Products, lock[p] = v
        PROVE  \E i \in 1..(n - 1) : p = t.lines[i].product
    <3>1. Took(v, p) /\ p # t.order
      BY <1>1, <2>1, NoneApart DEF Owns
    <3>2. CASE p \in t.written
      BY <1>1, <1>5, <3>2 DEF Progress
    <3>3. CASE LockingEnabled /\ \E i \in 1..Len(t.seen) : p = t.lines[i].product
      BY <1>1, <1>5, <3>3
    <3> QED
      BY <3>1, <3>2, <3>3 DEF Took
  <2>2. ASSUME NEW p \in Products, lock[p] = v PROVE p < Wanted(v)
    <3>1. PICK i \in 1..(n - 1) : p = t.lines[i].product
      BY <2>1, <2>2
    <3>2. i \in 1..Len(t.lines) /\ i < n
      BY <1>1
    <3>3. p <= t.lines[n].product
      BY <1>1, <3>1, <3>2 DEF Progress
    <3>4. p # Wanted(v)
      BY <1>3, <2>2
    <3>5. p \in Nat /\ Wanted(v) \in Nat
      BY <1>4, <1>5, <3>1, <3>2
    <3> QED
      BY <1>5, <3>3, <3>4, <3>5
  <2>3. Wanted(v) \in Products
    BY <1>4, <1>5
  <2> QED
    BY <2>2, <2>3
<1>6. CASE pc[v] = "lines" /\ t.next > Len(t.lines)
  <2>1. Wanted(v) = t.order /\ t.order \in Orders
    <3>1. Wanted(v) = t.order
      BY <1>1, <1>6 DEF Wanted, Checking, MoreLines
    <3> QED
      BY <1>1, <1>3, <3>1, NoneApart
  <2>2. ~Locks(v)
    BY <1>3, <1>6, <2>1 DEF Took
  <2>3. t.order \in SalesOrders /\ ~LockingEnabled
    BY <2>2 DEF Locks
  <2>4. Took(u, t.order) /\ txn[u].written \subseteq Products
    BY <1>3, <2>1 DEF LockInv, Disciplined, Owns, TypeInv, TypeOK, Txn
  <2>5. ~Took(u, t.order)
    BY <2>1, <2>3, <2>4, NoneApart DEF Took, Locks
  <2> QED
    BY <2>4, <2>5
<1>7. CASE Checking(v) /\ LockingEnabled
  <2> DEFINE n == Len(t.seen) + 1
  <2>1. Wanted(v) = t.lines[n].product
    BY <1>1, <1>7 DEF Wanted, Checking, MoreLines
  <2>2. n \in 1..Len(t.lines) /\ t.next = 1
    BY <1>1, <1>7 DEF Checking, Progress
  <2>3. t.next <= n /\ Len(t.seen) < n
    BY <1>1, <2>2
  <2> HIDE DEF n
  <2> QED
    BY <1>5, <2>1, <2>2, <2>3
<1>8. CASE MoreLines(v) /\ ~Checking(v)
  <2>1. Wanted(v) = t.lines[t.next].product
    BY <1>1, <1>8 DEF Wanted, MoreLines, Current
  <2>2. t.next \in 1..Len(t.lines)
    BY <1>1, <1>8 DEF MoreLines
  <2>3. LockingEnabled => Len(t.seen) < t.next
    <3> SUFFICES ASSUME LockingEnabled, ~(Len(t.seen) < t.next) PROVE FALSE
      BY <1>1
    <3>1. t.seen # <<>> /\ t.next \in 1..Len(t.seen)
      BY <1>1, <2>2
    <3>2. Took(v, Wanted(v))
      BY <2>1, <3>1 DEF Took
    <3> QED
      BY <1>3, <3>2
  <2> QED
    BY <1>1, <1>5, <2>1, <2>2, <2>3
<1>9. CASE ~(\/ pc[v] = "lines" /\ t.next > Len(t.lines)
             \/ Checking(v) /\ LockingEnabled
             \/ MoreLines(v) /\ ~Checking(v))
  <2>1. Wanted(v) = None
    BY <1>2, <1>9 DEF Wanted
  <2> QED
    BY <1>3, <2>1, NoneApart
<1> QED
  BY <1>6, <1>7, <1>8, <1>9

(* No cycle of waiting workers: of those that wait for one another, the one *)
(* that wants the highest product would have to wait for a higher one.      *)
LEMMA NoCycle ==
  ASSUME TypeInv, LockInv, IsFiniteSet(Busy)
  PROVE  NoLockCycle
<1> SUFFICES ASSUME NEW S \in (SUBSET Workers) \ {{}}
             PROVE  \E w \in S : \A v \in S : ~WaitsFor(w, v)
  BY Zenon DEF NoLockCycle
<1>0. S \subseteq Workers /\ S # {}
  OBVIOUS
<1> SUFFICES ASSUME \A w \in S : \E v \in S : WaitsFor(w, v)
             PROVE  FALSE
  OBVIOUS
<1> DEFINE T == {v \in S : \E w \in S : WaitsFor(w, v)}
<1>1. ASSUME NEW v \in T
      PROVE  /\ \E r \in Rows : lock[r] = v
             /\ \E u \in T : WaitsFor(v, u)
  BY DEF WaitsFor
<1>2. ASSUME NEW v \in T, NEW u \in T, WaitsFor(v, u)
      PROVE  Wanted(v) \in Nat /\ Wanted(u) \in Nat /\ Wanted(v) < Wanted(u)
  <2>1. PICK r \in Rows, s \in Rows : lock[r] = v /\ lock[s] = u
    BY <1>1
  <2>2. PICK x \in T : WaitsFor(u, x)
    BY <1>1
  <2>3. Wanted(v) \in Products /\ Wanted(u) \in Products
        /\ \A p \in Products : lock[p] = u => p < Wanted(u)
    BY <1>2, <2>1, <2>2, WaitsUpwards
  <2> QED
    BY <1>2, <2>3, NoneApart DEF WaitsFor
<1>3. T # {}
  BY <1>0
<1>4. IsFiniteSet(T)
  <2>1. ASSUME NEW v \in T PROVE v \in Busy
    <3>1. PICK r \in Rows : lock[r] = v
      BY <1>1
    <3>2. Took(v, r) /\ Progress(v) /\ txn[v].order \in Orders \cup {None}
      BY <3>1 DEF LockInv, Disciplined, Owns, TypeInv, TypeOK, Txn
    <3> QED
      BY <3>2, NothingWritten DEF Took, Busy
  <2> HIDE DEF T
  <2>2. T \in SUBSET Busy
    BY <2>1
  <2> QED
    BY <2>2, FS_Subset
<1> DEFINE f == [v \in T |-> Wanted(v)]
<1>5. PICK x \in T : \A y \in T : f[y] <= f[x]
  <2>1. \A v \in T : f[v] \in Nat
    BY <1>1, <1>2
  <2> HIDE DEF f, T
  <2> QED
    BY <1>3, <1>4, <2>1, Highest
<1>6. PICK u \in T : WaitsFor(x, u)
  BY <1>1
<1>7. Wanted(u) <= Wanted(x)
  BY <1>5, <1>6
<1> HIDE DEF T
<1> QED
  BY <1>2, <1>6, <1>7

(* The handlers never deadlock over row locks, with locking on or off, for  *)
(* any number of workers, products and orders.                              *)
THEOREM NoLockCycleTheorem == Spec => []NoLockCycle
<1>1. Spec => []TypeInv
  BY TypeCorrect DEF TypeInv
<1> QED
  BY <1>1, NoCycle, LockDiscipline, BusyFinite, PTL

=============================================================================
