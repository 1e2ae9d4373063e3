---------------------------- MODULE SumTheorems ----------------------------
(***************************************************************************)
(* Sums over finite sets: what MapThenSumSet adds up to.  The library      *)
(* defines it by a recursive function whose order of adding is a CHOOSE;   *)
(* the theorems here are what the modules with totals need of it.          *)
(*                                                                         *)
(* Induction is by smallest counterexamples: a claim about the subsets of  *)
(* a finite set that fails of one fails of one none of whose strict        *)
(* subsets it fails of (SmallestSubset).                                   *)
(***************************************************************************)
EXTENDS Integers, FiniteSetsExt, FiniteSetTheorems, TLAPS

Pick(s) == CHOOSE x \in s : TRUE

\* g adds up f over every subset of S, one element at a time.
Adds(g, f, S) ==
    g = [s \in SUBSET S |-> IF s = {} THEN 0 ELSE f[Pick(s)] + g[s \ {Pick(s)}]]

Adding(f, S) == CHOOSE g : Adds(g, f, S)

Total(f, S) == Adding(f, S)[S]

\* The library's sum of the values of a function is Total.
LEMMA SumIsTotal ==
    ASSUME NEW f, NEW S
    PROVE  MapThenSumSet(LAMBDA x : f[x], S) = Total(f, S)
BY DEF MapThenSumSet, MapThenFoldSet, Total, Adding, Adds, Pick

LEMMA SmallestSubset ==
    ASSUME NEW S, IsFiniteSet(S), NEW T \in SUBSET (SUBSET S), T # {}
    PROVE  \E m \in T : \A t \in SUBSET m : t # m => t \notin T
<1>1. IsWellFoundedOn(StrictSubsetOrdering(S), FiniteSubsetsOf(S))
  BY FS_StrictSubsetOrderingWellFounded
<1>2. FiniteSubsetsOf(S) = SUBSET S
  BY FS_FiniteSubsetsOfFinite
<1>3. PICK m \in T : \A t \in T : ~(<<t, m>> \in StrictSubsetOrdering(S))
  BY <1>1, <1>2, WFMin
<1>4. \A t \in T : t \subseteq m /\ t # m => <<t, m>> \in StrictSubsetOrdering(S)
  BY <1>2 DEF StrictSubsetOrdering
<1> WITNESS m \in T
<1> QED
  BY <1>3, <1>4

LEMMA PickIsIn ==
    ASSUME NEW s, s # {}
    PROVE  /\ Pick(s) \in s /\ s \ {Pick(s)} \subseteq s /\ s \ {Pick(s)} # s
BY DEF Pick

LEMMA AddsStep ==
    ASSUME NEW g, NEW f, NEW S, Adds(g, f, S), NEW s \in SUBSET S
    PROVE  g[s] = IF s = {} THEN 0 ELSE f[Pick(s)] + g[s \ {Pick(s)}]
BY DEF Adds

\* Two functions that add up f agree wherever both do.
LEMMA AddsUnique ==
    ASSUME NEW f, NEW g, NEW h, NEW S, NEW U, IsFiniteSet(S), Adds(g, f, S), Adds(h, f, U),
           NEW s \in SUBSET S, s \in SUBSET U
    PROVE  g[s] = h[s]
<1> DEFINE T == {t \in SUBSET S : t \subseteq U /\ g[t] # h[t]}
<1> SUFFICES ASSUME T # {} PROVE FALSE
  OBVIOUS
<1>1. PICK m \in T : \A t \in SUBSET m : t # m => t \notin T
  BY SmallestSubset
<1>2. m \in SUBSET S /\ m \in SUBSET U /\ g[m] # h[m]
  OBVIOUS
<1>3. g[m] = IF m = {} THEN 0 ELSE f[Pick(m)] + g[m \ {Pick(m)}]
  BY <1>2, AddsStep
<1>4. h[m] = IF m = {} THEN 0 ELSE f[Pick(m)] + h[m \ {Pick(m)}]
  BY <1>2, AddsStep
<1>5. m # {} => g[m \ {Pick(m)}] = h[m \ {Pick(m)}]
  BY <1>1, <1>2, PickIsIn
<1> QED
  BY <1>2, <1>3, <1>4, <1>5

\* There is one such function on the subsets of every finite set.
LEMMA AddsExists ==
    ASSUME NEW f, NEW S, IsFiniteSet(S)
    PROVE  Adds(Adding(f, S), f, S)
<1> DEFINE T == {t \in SUBSET S : ~ \E g : Adds(g, f, t)}
<1>1. T = {}
  <2> SUFFICES ASSUME T # {} PROVE FALSE
    OBVIOUS
  <2>0. T \in SUBSET (SUBSET S)
    OBVIOUS
  <2> HIDE DEF T
  <2>1. PICK m \in T : \A t \in SUBSET m : t # m => t \notin T
    BY <2>0, SmallestSubset
  <2> USE DEF T
  <2>2. m \in SUBSET S /\ ~ \E g : Adds(g, f, m)
    OBVIOUS
  <2>3. \A t \in SUBSET m : t # m => \E g : Adds(g, f, t)
    BY <2>1, <2>2
  <2>4. \A t \in SUBSET m : t # m => Adds(Adding(f, t), f, t)
    BY <2>3 DEF Adding
  <2>5. \A t \in SUBSET S : IsFiniteSet(t)
    BY FS_Subset
  <2> DEFINE low == [t \in SUBSET m |-> Total(f, t)]
             g == [t \in SUBSET m |->
                     IF t = {} THEN 0 ELSE f[Pick(t)] + low[t \ {Pick(t)}]]
  <2>6. ASSUME NEW t \in SUBSET m, t # m
        PROVE  g[t] = low[t]
    <3>1. Adds(Adding(f, t), f, t)
      BY <2>4, <2>6
    <3>2. Adding(f, t)[t] = IF t = {} THEN 0 ELSE f[Pick(t)] + Adding(f, t)[t \ {Pick(t)}]
      BY <3>1, AddsStep
    <3>3. CASE t = {}
      BY <3>2, <3>3 DEF Total
    <3>4. CASE t # {}
      <4>1. PICK u : u = t \ {Pick(t)}
        OBVIOUS
      <4>2. u \in SUBSET m /\ u # m /\ u \in SUBSET t /\ u \in SUBSET u
        BY <2>6, <3>4, <4>1, PickIsIn
      <4>3. Adds(Adding(f, u), f, u)
        BY <2>4, <4>2
      <4>4. IsFiniteSet(t)
        BY <2>2, <2>5
      <4>5. Adding(f, t)[u] = Adding(f, u)[u]
        BY <3>1, <4>2, <4>3, <4>4, AddsUnique
      <4> QED
        BY <3>2, <3>4, <4>1, <4>2, <4>5 DEF Total
    <3> QED
      BY <3>3, <3>4
  <2>7. \A t \in SUBSET m : t # {} => g[t \ {Pick(t)}] = low[t \ {Pick(t)}]
    <3> SUFFICES ASSUME NEW t \in SUBSET m, t # {}
                 PROVE  g[t \ {Pick(t)}] = low[t \ {Pick(t)}]
      OBVIOUS
    <3>1. t \ {Pick(t)} \in SUBSET m /\ t \ {Pick(t)} # m
      BY PickIsIn
    <3> HIDE DEF g, low
    <3> QED
      BY <2>6, <3>1
  <2>8. Adds(g, f, m)
    BY <2>7 DEF Adds
  <2> HIDE DEF g
  <2> QED
    BY <2>2, <2>8
<1>2. \E g : Adds(g, f, S)
  BY <1>1
<1> QED
  BY <1>2 DEF Adding

-----------------------------------------------------------------------------
(* What the totals are. *)

LEMMA TotalStep ==
    ASSUME NEW f, NEW S, IsFiniteSet(S)
    PROVE  Total(f, S) = IF S = {} THEN 0 ELSE f[Pick(S)] + Total(f, S \ {Pick(S)})
<1>1. Adds(Adding(f, S), f, S)
  BY AddsExists
<1>2. Total(f, S) = IF S = {} THEN 0 ELSE f[Pick(S)] + Adding(f, S)[S \ {Pick(S)}]
  BY <1>1, AddsStep DEF Total
<1>3. ASSUME S # {}
      PROVE  Adding(f, S)[S \ {Pick(S)}] = Total(f, S \ {Pick(S)})
  <2>1. PICK u : u = S \ {Pick(S)}
    OBVIOUS
  <2>2. u \in SUBSET S /\ u \in SUBSET u /\ IsFiniteSet(u)
    BY <2>1, FS_Subset
  <2>3. Adds(Adding(f, u), f, u)
    BY <2>2, AddsExists
  <2> QED
    BY <1>1, <2>1, <2>2, <2>3, AddsUnique DEF Total
<1> QED
  BY <1>2, <1>3

LEMMA TotalEmpty ==
    ASSUME NEW f
    PROVE  Total(f, {}) = 0
BY TotalStep, FS_EmptySet

\* Sums of numbers are numbers, and none of numbers below zero is below zero.
LEMMA TotalType ==
    ASSUME NEW f, NEW S, IsFiniteSet(S), \A x \in S : f[x] \in Int
    PROVE  /\ Total(f, S) \in Int
           /\ (\A x \in S : f[x] >= 0) => Total(f, S) >= 0
<1> DEFINE T == {t \in SUBSET S : ~(/\ Total(f, t) \in Int
                                    /\ (\A x \in t : f[x] >= 0) => Total(f, t) >= 0)}
<1> SUFFICES ASSUME T # {} PROVE FALSE
  OBVIOUS
<1>0. T \in SUBSET (SUBSET S)
  OBVIOUS
<1> HIDE DEF T
<1>1. PICK m \in T : \A t \in SUBSET m : t # m => t \notin T
  BY <1>0, SmallestSubset
<1>2. m \in SUBSET S /\ IsFiniteSet(m)
  BY <1>0, FS_Subset
<1>3. Total(f, m) = IF m = {} THEN 0 ELSE f[Pick(m)] + Total(f, m \ {Pick(m)})
  BY <1>2, TotalStep
<1>4. CASE m = {}
  BY <1>3, <1>4 DEF T
<1>5. CASE m # {}
  <2>1. PICK u : u = m \ {Pick(m)}
    OBVIOUS
  <2>2. Pick(m) \in m /\ u \in SUBSET m /\ u # m
    BY <1>5, <2>1, PickIsIn
  <2>3. u \notin T /\ u \in SUBSET S
    BY <1>1, <1>2, <2>2
  <2>4. /\ Total(f, u) \in Int
        /\ (\A x \in u : f[x] >= 0) => Total(f, u) >= 0
    BY <2>3 DEF T
  <2>5. Total(f, m) = f[Pick(m)] + Total(f, u) /\ f[Pick(m)] \in Int
    BY <1>2, <1>3, <1>5, <2>1, <2>2
  <2>6. ~(/\ Total(f, m) \in Int
          /\ (\A x \in m : f[x] >= 0) => Total(f, m) >= 0)
    BY DEF T
  <2> QED
    BY <2>2, <2>4, <2>5, <2>6
<1> QED
  BY <1>4, <1>5

\* A sum of zeroes is zero.
LEMMA TotalZero ==
    ASSUME NEW f, NEW S, IsFiniteSet(S), \A x \in S : f[x] = 0
    PROVE  Total(f, S) = 0
<1> DEFINE T == {t \in SUBSET S : Total(f, t) # 0}
<1> SUFFICES ASSUME T # {} PROVE FALSE
  OBVIOUS
<1>0. T \in SUBSET (SUBSET S)
  OBVIOUS
<1> HIDE DEF T
<1>1. PICK m \in T : \A t \in SUBSET m : t # m => t \notin T
  BY <1>0, SmallestSubset
<1> USE DEF T
<1>2. m \in SUBSET S /\ IsFiniteSet(m) /\ Total(f, m) # 0
  BY FS_Subset
<1>3. Total(f, m) = IF m = {} THEN 0 ELSE f[Pick(m)] + Total(f, m \ {Pick(m)})
  BY <1>2, TotalStep
<1>4. m # {}
  BY <1>2, <1>3
<1>5. Total(f, m \ {Pick(m)}) = 0 /\ f[Pick(m)] = 0
  BY <1>1, <1>2, <1>4, PickIsIn
<1> QED
  BY <1>2, <1>3, <1>4, <1>5

\* Functions that agree on a set have the same total.
LEMMA TotalSame ==
    ASSUME NEW f, NEW g, NEW S, IsFiniteSet(S), \A x \in S : f[x] = g[x]
    PROVE  Total(f, S) = Total(g, S)
<1> DEFINE T == {t \in SUBSET S : Total(f, t) # Total(g, t)}
<1> SUFFICES ASSUME T # {} PROVE FALSE
  OBVIOUS
<1>0. T \in SUBSET (SUBSET S)
  OBVIOUS
<1> HIDE DEF T
<1>1. PICK m \in T : \A t \in SUBSET m : t # m => t \notin T
  BY <1>0, SmallestSubset
<1> USE DEF T
<1>2. m \in SUBSET S /\ IsFiniteSet(m) /\ Total(f, m) # Total(g, m)
  BY FS_Subset
<1>3. /\ Total(f, m) = IF m = {} THEN 0 ELSE f[Pick(m)] + Total(f, m \ {Pick(m)})
      /\ Total(g, m) = IF m = {} THEN 0 ELSE g[Pick(m)] + Total(g, m \ {Pick(m)})
  BY <1>2, TotalStep
<1>4. m # {}
  BY <1>2, <1>3
<1>5. Total(f, m \ {Pick(m)}) = Total(g, m \ {Pick(m)}) /\ f[Pick(m)] = g[Pick(m)]
  BY <1>1, <1>2, <1>4, PickIsIn
<1> QED
  BY <1>2, <1>3, <1>4, <1>5

\* The order of adding does not matter: any element can be taken out.
LEMMA TotalSplit ==
    ASSUME NEW f, NEW S, IsFiniteSet(S), \A y \in S : f[y] \in Int, NEW x \in S
    PROVE  Total(f, S) = f[x] + Total(f, S \ {x})
<1> DEFINE T == {t \in SUBSET S : \E y \in t : Total(f, t) # f[y] + Total(f, t \ {y})}
<1> SUFFICES ASSUME T # {} PROVE FALSE
  OBVIOUS
<1>0. T \in SUBSET (SUBSET S)
  OBVIOUS
<1> HIDE DEF T
<1>1. PICK m \in T : \A t \in SUBSET m : t # m => t \notin T
  BY <1>0, SmallestSubset
<1>2. m \in SUBSET S /\ \A t \in SUBSET m : IsFiniteSet(t) /\ t \in SUBSET S
  BY <1>0, FS_Subset
<1>3. PICK y \in m : Total(f, m) # f[y] + Total(f, m \ {y})
  BY DEF T
<1>4. \A t \in SUBSET m : t # m => \A z \in t : Total(f, t) = f[z] + Total(f, t \ {z})
  BY <1>1, <1>2 DEF T
<1>5. PICK p : p = Pick(m)
  OBVIOUS
<1>6. p \in m /\ p # y /\ Total(f, m) = f[p] + Total(f, m \ {p})
  BY <1>2, <1>3, <1>5, PickIsIn, TotalStep
<1>7. PICK u \in SUBSET m : u = (m \ {y}) \ {p}
  OBVIOUS
<1>8. (m \ {p}) \ {y} = u
  BY <1>7
<1>9. Total(f, m \ {p}) = f[y] + Total(f, u)
  <2>1. m \ {p} \in SUBSET m /\ m \ {p} # m /\ y \in m \ {p}
    BY <1>3, <1>6
  <2> QED
    BY <1>4, <1>8, <2>1
<1>10. Total(f, m \ {y}) = f[p] + Total(f, u)
  <2>1. m \ {y} \in SUBSET m /\ m \ {y} # m /\ p \in m \ {y}
    BY <1>3, <1>6
  <2> QED
    BY <1>4, <1>7, <2>1
<1>11. Total(f, u) \in Int /\ f[y] \in Int /\ f[p] \in Int
  BY <1>2, <1>6, TotalType
<1>12. PICK k \in Int : k = Total(f, u)
  BY <1>11
<1>13. Total(f, m) = f[p] + (f[y] + k)
  BY <1>6, <1>9, <1>12
<1>14. f[y] + Total(f, m \ {y}) = f[y] + (f[p] + k)
  BY <1>10, <1>12
<1>15. f[p] + (f[y] + k) = f[y] + (f[p] + k)
  BY <1>11
<1> QED
  BY <1>3, <1>13, <1>14, <1>15

\* What one value weighs, when it changes or joins.
LEMMA TotalChange ==
    ASSUME NEW f, NEW g, NEW S, IsFiniteSet(S), NEW x \in S,
           \A y \in S : f[y] \in Int /\ g[y] \in Int, \A y \in S \ {x} : f[y] = g[y]
    PROVE  Total(g, S) = Total(f, S) - f[x] + g[x]
<1>1. IsFiniteSet(S \ {x})
  BY FS_RemoveElement
<1>2. Total(f, S \ {x}) = Total(g, S \ {x})
  BY <1>1, TotalSame
<1>3. Total(f, S) = f[x] + Total(f, S \ {x}) /\ Total(g, S) = g[x] + Total(g, S \ {x})
  BY TotalSplit
<1>4. Total(f, S \ {x}) \in Int
  BY <1>1, TotalType
<1> QED
  BY <1>2, <1>3, <1>4

LEMMA TotalJoin ==
    ASSUME NEW f, NEW S, IsFiniteSet(S), NEW x, x \notin S,
           \A y \in S \cup {x} : f[y] \in Int
    PROVE  Total(f, S \cup {x}) = Total(f, S) + f[x]
<1>1. IsFiniteSet(S \cup {x}) /\ (S \cup {x}) \ {x} = S
  BY FS_AddElement
<1>2. Total(f, S \cup {x}) = f[x] + Total(f, S)
  BY <1>1, TotalSplit
<1>3. Total(f, S) \in Int
  BY TotalType
<1> QED
  BY <1>2, <1>3

=============================================================================
