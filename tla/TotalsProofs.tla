---------------------------- MODULE TotalsProofs ----------------------------
(***************************************************************************)
(* What the provers need to know of Total.  It is defined by a recursion     *)
(* that removes an arbitrary element at a time; the facts proved here make    *)
(* it a sum: taking any element out of a finite set takes its value out of    *)
(* the total, and a total of numbers that are not negative is at least each   *)
(* of them.                                                                   *)
(***************************************************************************)
EXTENDS Totals, FiniteSetTheorems, WellFoundedInduction, TLAPS

\* Induction over the subsets of a finite set, for a set G of them instead of a predicate.
LEMMA SubsetInduction ==
  ASSUME NEW U, IsFiniteSet(U), NEW G,
         \A T \in SUBSET U : (\A V \in SUBSET T : V # T => V \in G) => T \in G
  PROVE  \A T \in SUBSET U : T \in G
<1> DEFINE Bad == (SUBSET U) \ G
<1> SUFFICES ASSUME Bad # {} PROVE FALSE
  OBVIOUS
<1>1. IsWellFoundedOn(StrictSubsetOrdering(U), SUBSET U)
  <2>1. IsWellFoundedOn(StrictSubsetOrdering(U), FiniteSubsetsOf(U))
    BY FS_StrictSubsetOrderingWellFounded, Zenon
  <2>2. FiniteSubsetsOf(U) = SUBSET U
    BY FS_FiniteSubsetsOfFinite, Zenon
  <2> QED
    BY <2>1, <2>2, Zenon
<1>2. PICK T \in Bad : \A V \in Bad : ~ (<<V, T>> \in StrictSubsetOrdering(U))
  <2> HIDE DEF Bad
  <2>1. Bad \subseteq SUBSET U
    BY DEF Bad
  <2> QED
    BY <1>1, <2>1, WFMin
<1>3. \A V \in SUBSET T : V # T => V \in G
  <2> SUFFICES ASSUME NEW V \in SUBSET T, V # T PROVE V \in G
    OBVIOUS
  <2>1. <<V, T>> \in StrictSubsetOrdering(U)
    BY <1>2 DEF StrictSubsetOrdering
  <2> QED
    BY <1>2, <2>1
<1> QED
  BY <1>2, <1>3

-----------------------------------------------------------------------------
First(S) == CHOOSE x \in S : TRUE

\* g solves the recursion of Total on the subsets of T.
Solves(f, T, g) ==
  g = [s \in SUBSET T |-> IF s = {} THEN 0 ELSE f[First(s)] + g[s \ {First(s)}]]

\* Total, unfolded to the recursion it stands for.
LEMMA TotalUnfolded ==
  ASSUME NEW f, NEW S
  PROVE  Total(f, S) = (CHOOSE g : Solves(f, S, g))[S]
BY DEF Total, FoldFunctionOnSet, MapThenFoldSet, Solves, First

\* A set that is not empty has the element that CHOOSE picks.
LEMMA FirstIsElement ==
  ASSUME NEW S, S # {}
  PROVE  First(S) \in S
BY DEF First

\* A solution at one set.
LEMMA SolvesAt ==
  ASSUME NEW f, NEW T, NEW g, Solves(f, T, g), NEW s \in SUBSET T
  PROVE  g[s] = IF s = {} THEN 0 ELSE f[First(s)] + g[s \ {First(s)}]
<1> DEFINE Body(t) == IF t = {} THEN 0 ELSE f[First(t)] + g[t \ {First(t)}]
<1>1. g = [t \in SUBSET T |-> Body(t)]
  BY DEF Solves
<1>2. [t \in SUBSET T |-> Body(t)][s] = Body(s)
  OBVIOUS
<1> HIDE DEF Body
<1>3. g[s] = Body(s)
  BY <1>1, <1>2
<1> QED
  BY <1>3 DEF Body

\* Two solutions agree wherever both are defined.
LEMMA SolutionsAgree ==
  ASSUME NEW f, NEW U, IsFiniteSet(U),
         NEW T1 \in SUBSET U, NEW g, Solves(f, T1, g),
         NEW T2 \in SUBSET U, NEW h, Solves(f, T2, h)
  PROVE  \A t \in SUBSET U : t \subseteq T1 /\ t \subseteq T2 => g[t] = h[t]
<1> DEFINE G == {t \in SUBSET U : t \subseteq T1 /\ t \subseteq T2 => g[t] = h[t]}
<1>1. \A T \in SUBSET U : (\A V \in SUBSET T : V # T => V \in G) => T \in G
  <2> SUFFICES ASSUME NEW T \in SUBSET U, \A V \in SUBSET T : V # T => V \in G,
                      T \subseteq T1, T \subseteq T2
               PROVE  g[T] = h[T]
    OBVIOUS
  <2>1. g[T] = IF T = {} THEN 0 ELSE f[First(T)] + g[T \ {First(T)}]
    BY SolvesAt
  <2>2. h[T] = IF T = {} THEN 0 ELSE f[First(T)] + h[T \ {First(T)}]
    BY SolvesAt
  <2>3. CASE T = {}
    BY <2>1, <2>2, <2>3
  <2>4. CASE T # {}
    <3>1. T \ {First(T)} # T /\ T \ {First(T)} \in SUBSET T
      BY <2>4, FirstIsElement
    <3>2. g[T \ {First(T)}] = h[T \ {First(T)}]
      BY <3>1
    <3> QED
      BY <2>1, <2>2, <2>4, <3>2
  <2> QED
    BY <2>3, <2>4
<1> HIDE DEF G
<1>2. \A T \in SUBSET U : T \in G
  BY <1>1, SubsetInduction
<1> QED
  BY <1>2 DEF G

\* One step of the recursion with a solution of its own on the smaller set.
LEMMA SolutionStep ==
  ASSUME NEW f, NEW u, IsFiniteSet(u), NEW g, Solves(f, u, g),
         NEW h, Solves(f, u \ {First(u)}, h)
  PROVE  g[u] = IF u = {} THEN 0 ELSE f[First(u)] + h[u \ {First(u)}]
<1>1. u \in SUBSET u /\ u \ {First(u)} \in SUBSET u
  OBVIOUS
<1>2. g[u] = IF u = {} THEN 0 ELSE f[First(u)] + g[u \ {First(u)}]
  BY <1>1, SolvesAt
<1>3. g[u \ {First(u)}] = h[u \ {First(u)}]
  <2>1. PICK r \in SUBSET u : r = u \ {First(u)}
    BY <1>1
  <2>2. r \in SUBSET u /\ Solves(f, r, h)
    BY <2>1
  <2>3. \A t \in SUBSET u : t \subseteq u /\ t \subseteq r => g[t] = h[t]
    BY <1>1, <2>2, SolutionsAgree
  <2> QED
    BY <2>1, <2>3
<1> QED
  BY <1>2, <1>3

\* On a finite set the recursion has a solution.
LEMMA SolutionExists ==
  ASSUME NEW f, NEW U, IsFiniteSet(U)
  PROVE  \A T \in SUBSET U : Solves(f, T, CHOOSE g : Solves(f, T, g))
<1> DEFINE Sol(T) == CHOOSE g : Solves(f, T, g)
           G == {T \in SUBSET U : \E g : Solves(f, T, g)}
<1>1. \A T \in SUBSET U : (\A V \in SUBSET T : V # T => V \in G) => T \in G
  <2> SUFFICES ASSUME NEW T \in SUBSET U, \A V \in SUBSET T : V # T => V \in G
               PROVE  \E h : Solves(f, T, h)
    OBVIOUS
  <2> DEFINE Rest(s) == s \ {First(s)}
             Step(s, v) == IF s = {} THEN 0 ELSE f[First(s)] + v
             h == [s \in SUBSET T |-> Step(s, Sol(Rest(s))[Rest(s)])]
  <2>1. \A V \in SUBSET T : V # T => Solves(f, V, Sol(V))
    OBVIOUS
  <2>2. ASSUME NEW s \in SUBSET T, s # {}
        PROVE  h[Rest(s)] = Sol(Rest(s))[Rest(s)]
    <3>1. PICK u : u = Rest(s)
      OBVIOUS
    <3>2. u \in SUBSET T /\ u # T /\ IsFiniteSet(u)
      BY <2>2, <3>1, FirstIsElement, FS_Subset
    <3>3. Rest(u) \in SUBSET T /\ Rest(u) # T
      BY <3>2
    <3>4. Solves(f, u, Sol(u)) /\ Solves(f, Rest(u), Sol(Rest(u)))
      BY <2>1, <3>2, <3>3
    <3>5. Sol(u)[u] = Step(u, Sol(Rest(u))[Rest(u)])
      <4> HIDE DEF Sol
      <4> QED
        BY <3>2, <3>4, SolutionStep
    <3>6. h[u] = Step(u, Sol(Rest(u))[Rest(u)])
      BY <3>2
    <3> QED
      BY <3>1, <3>5, <3>6
  <2>3. \A s \in SUBSET T : Step(s, Sol(Rest(s))[Rest(s)]) = Step(s, h[Rest(s)])
    <3> HIDE DEF h, Rest, Sol
    <3> QED
      BY <2>2
  <2>4. h = [s \in SUBSET T |-> Step(s, h[Rest(s)])]
    <3> DEFINE k == [s \in SUBSET T |-> Step(s, h[Rest(s)])]
    <3>1. \A s \in SUBSET T : h[s] = k[s]
      <4> HIDE DEF Step, Rest, Sol
      <4> QED
        BY <2>3
    <3> QED
      BY <3>1, Zenon
  <2>5. Solves(f, T, h)
    BY <2>4 DEF Solves
  <2> QED
    BY <2>5
<1> HIDE DEF G
<1>2. \A T \in SUBSET U : T \in G
  BY <1>1, SubsetInduction
<1> QED
  BY <1>2 DEF G
-----------------------------------------------------------------------------
\* Total satisfies its own recursion.
LEMMA TotalRecursion ==
  ASSUME NEW f, NEW S, IsFiniteSet(S)
  PROVE  Total(f, S) = IF S = {} THEN 0 ELSE f[First(S)] + Total(f, S \ {First(S)})
<1> DEFINE Sol(T) == CHOOSE g : Solves(f, T, g)
           R == S \ {First(S)}
<1>1. \A T \in SUBSET S : Solves(f, T, Sol(T))
  BY SolutionExists, Zenon
<1>2. Total(f, S) = Sol(S)[S] /\ Total(f, R) = Sol(R)[R]
  BY TotalUnfolded, Zenon
<1>3. S \in SUBSET S /\ R \in SUBSET S
  OBVIOUS
<1>4. PICK gs : gs = Sol(S) /\ Solves(f, S, gs)
  BY <1>1, <1>3, Zenon
<1>5. PICK gr : gr = Sol(R) /\ Solves(f, R, gr)
  BY <1>1, <1>3, Zenon
<1> HIDE DEF Sol
<1>6. gs[S] = IF S = {} THEN 0 ELSE f[First(S)] + gs[R]
  BY <1>3, <1>4, SolvesAt
<1>7. gs[R] = gr[R]
  BY <1>3, <1>4, <1>5, SolutionsAgree
<1> QED
  BY <1>2, <1>4, <1>5, <1>6, <1>7

\* The total of nothing.
LEMMA TotalEmpty ==
  ASSUME NEW f
  PROVE  Total(f, {}) = 0
BY TotalRecursion, FS_EmptySet

\* A total of integers is an integer.
LEMMA TotalType ==
  ASSUME NEW f, NEW S, IsFiniteSet(S), \A x \in S : f[x] \in Int
  PROVE  \A T \in SUBSET S : Total(f, T) \in Int
<1> DEFINE G == {T \in SUBSET S : Total(f, T) \in Int}
<1>1. \A T \in SUBSET S : (\A V \in SUBSET T : V # T => V \in G) => T \in G
  <2> SUFFICES ASSUME NEW T \in SUBSET S, \A V \in SUBSET T : V # T => V \in G
               PROVE  Total(f, T) \in Int
    OBVIOUS
  <2>1. Total(f, T) = IF T = {} THEN 0 ELSE f[First(T)] + Total(f, T \ {First(T)})
    BY TotalRecursion, FS_Subset
  <2>2. CASE T = {}
    BY <2>1, <2>2
  <2>3. CASE T # {}
    <3>1. First(T) \in T
      BY <2>3, FirstIsElement
    <3>2. Total(f, T \ {First(T)}) \in Int
      BY <3>1
    <3>3. f[First(T)] \in Int
      BY <3>1
    <3> QED
      BY <2>1, <2>3, <3>2, <3>3
  <2> QED
    BY <2>2, <2>3
<1> HIDE DEF G
<1>2. \A T \in SUBSET S : T \in G
  BY <1>1, SubsetInduction
<1> QED
  BY <1>2 DEF G

\* Any element can be taken out of a total, not only the one the recursion takes.
LEMMA TotalRemove ==
  ASSUME NEW f, NEW S, IsFiniteSet(S), \A x \in S : f[x] \in Int
  PROVE  \A T \in SUBSET S : \A x \in T : Total(f, T) = f[x] + Total(f, T \ {x})
<1> DEFINE G == {T \in SUBSET S : \A x \in T : Total(f, T) = f[x] + Total(f, T \ {x})}
<1>1. \A T \in SUBSET S : (\A V \in SUBSET T : V # T => V \in G) => T \in G
  <2> SUFFICES ASSUME NEW T \in SUBSET S, \A V \in SUBSET T : V # T => V \in G,
                      NEW x \in T
               PROVE  Total(f, T) = f[x] + Total(f, T \ {x})
    OBVIOUS
  <2> DEFINE c == First(T)
             both == T \ {c, x}
  <2>1. c \in T
    BY FirstIsElement
  <2>2. Total(f, T) = f[c] + Total(f, T \ {c})
    BY TotalRecursion, FS_Subset
  <2> HIDE DEF c
  <2>3. CASE x = c
    BY <2>2, <2>3
  <2>4. CASE x # c
    <3>1. Total(f, T \ {c}) = f[x] + Total(f, both)
      <4>1. T \ {c} \in G /\ x \in T \ {c} /\ (T \ {c}) \ {x} = both
        BY <2>1, <2>4
      <4> QED
        BY <4>1
    <3>2. Total(f, T \ {x}) = f[c] + Total(f, both)
      <4>1. T \ {x} \in G /\ c \in T \ {x} /\ (T \ {x}) \ {c} = both
        BY <2>1, <2>4
      <4> QED
        BY <4>1
    <3>3. f[x] \in Int /\ f[c] \in Int /\ Total(f, both) \in Int
      BY <2>1, TotalType
    <3> QED
      BY <2>2, <3>1, <3>2, <3>3
  <2> QED
    BY <2>3, <2>4
<1> HIDE DEF G
<1>2. \A T \in SUBSET S : T \in G
  BY <1>1, SubsetInduction
<1> QED
  BY <1>2 DEF G

\* A new element adds its value.
LEMMA TotalAdd ==
  ASSUME NEW f, NEW S, IsFiniteSet(S), NEW x, x \notin S,
         \A y \in S \cup {x} : f[y] \in Int
  PROVE  Total(f, S \cup {x}) = Total(f, S) + f[x]
<1>1. IsFiniteSet(S \cup {x})
  BY FS_AddElement
<1>2. Total(f, S \cup {x}) = f[x] + Total(f, (S \cup {x}) \ {x})
  BY <1>1, TotalRemove
<1>3. (S \cup {x}) \ {x} = S
  OBVIOUS
<1>4. Total(f, S) \in Int /\ f[x] \in Int
  BY TotalType
<1>5. Total(f, S \cup {x}) = f[x] + Total(f, S)
  BY <1>2, <1>3, Zenon
<1> QED
  BY <1>4, <1>5

\* Where nothing is negative, neither is the total.
LEMMA TotalNonNegative ==
  ASSUME NEW f, NEW S, IsFiniteSet(S), \A x \in S : f[x] \in Int /\ f[x] >= 0
  PROVE  \A T \in SUBSET S : Total(f, T) >= 0
<1> DEFINE G == {T \in SUBSET S : Total(f, T) >= 0}
<1>1. \A T \in SUBSET S : (\A V \in SUBSET T : V # T => V \in G) => T \in G
  <2> SUFFICES ASSUME NEW T \in SUBSET S, \A V \in SUBSET T : V # T => V \in G
               PROVE  Total(f, T) >= 0
    OBVIOUS
  <2>1. CASE T = {}
    BY <2>1, TotalEmpty
  <2>2. CASE T # {}
    <3>1. PICK x \in T : TRUE
      BY <2>2
    <3>2. Total(f, T) = f[x] + Total(f, T \ {x})
      BY TotalRemove
    <3>3. Total(f, T \ {x}) >= 0
      BY <3>1
    <3>4. Total(f, T \ {x}) \in Int
      BY TotalType
    <3> QED
      BY <3>2, <3>3, <3>4
  <2> QED
    BY <2>1, <2>2
<1> HIDE DEF G
<1>2. \A T \in SUBSET S : T \in G
  BY <1>1, SubsetInduction
<1> QED
  BY <1>2 DEF G

\* No part is more than the total, where nothing is negative.
LEMMA TotalBoundsElement ==
  ASSUME NEW f, NEW S, IsFiniteSet(S), \A x \in S : f[x] \in Int /\ f[x] >= 0,
         NEW x \in S
  PROVE  f[x] <= Total(f, S)
<1>1. Total(f, S) = f[x] + Total(f, S \ {x})
  BY TotalRemove
<1>2. Total(f, S \ {x}) \in Int
  BY TotalType
<1>3. Total(f, S \ {x}) >= 0
  BY TotalNonNegative
<1> QED
  BY <1>1, <1>2, <1>3

\* A total depends only on the values at the elements.
LEMMA TotalSame ==
  ASSUME NEW f, NEW g, NEW S, IsFiniteSet(S), \A x \in S : f[x] \in Int /\ g[x] = f[x]
  PROVE  \A T \in SUBSET S : Total(g, T) = Total(f, T)
<1> DEFINE G == {T \in SUBSET S : Total(g, T) = Total(f, T)}
<1>1. \A T \in SUBSET S : (\A V \in SUBSET T : V # T => V \in G) => T \in G
  <2> SUFFICES ASSUME NEW T \in SUBSET S, \A V \in SUBSET T : V # T => V \in G
               PROVE  Total(g, T) = Total(f, T)
    OBVIOUS
  <2>1. CASE T = {}
    BY <2>1, TotalEmpty
  <2>2. CASE T # {}
    <3>1. PICK x \in T : TRUE
      BY <2>2
    <3>2. Total(f, T) = f[x] + Total(f, T \ {x})
      BY TotalRemove
    <3>3. Total(g, T) = g[x] + Total(g, T \ {x})
      <4>1. \A y \in S : g[y] \in Int
        OBVIOUS
      <4> QED
        BY <4>1, TotalRemove
    <3>4. Total(g, T \ {x}) = Total(f, T \ {x})
      BY <3>1
    <3> QED
      BY <3>2, <3>3, <3>4
  <2> QED
    BY <2>1, <2>2
<1> HIDE DEF G
<1>2. \A T \in SUBSET S : T \in G
  BY <1>1, SubsetInduction
<1> QED
  BY <1>2 DEF G

\* A change at one element changes the total by as much.
LEMMA TotalShift ==
  ASSUME NEW f, NEW g, NEW S, IsFiniteSet(S), \A x \in S : f[x] \in Int,
         NEW a \in S, NEW delta \in Int,
         g[a] = f[a] + delta, \A x \in S \ {a} : g[x] = f[x]
  PROVE  Total(g, S) = Total(f, S) + delta
<1>1. S \in SUBSET S /\ S \ {a} \in SUBSET (S \ {a}) /\ S \ {a} \in SUBSET S
      /\ IsFiniteSet(S \ {a})
  BY FS_Subset
<1>2. Total(f, S) = f[a] + Total(f, S \ {a})
  BY <1>1, TotalRemove
<1>3. \A x \in S : g[x] \in Int
  OBVIOUS
<1>4. Total(g, S) = g[a] + Total(g, S \ {a})
  BY <1>1, <1>3, TotalRemove
<1>5. Total(g, S \ {a}) = Total(f, S \ {a})
  <2>1. \A x \in S \ {a} : f[x] \in Int /\ g[x] = f[x]
    OBVIOUS
  <2> QED
    BY <1>1, <2>1, TotalSame
<1>6. Total(f, S \ {a}) \in Int
  BY <1>1, TotalType
<1> QED
  BY <1>2, <1>4, <1>5, <1>6
=============================================================================
