---------------------------- MODULE DataTheorems ----------------------------
(***************************************************************************)
(* Facts about data of every size that the proofs about the components     *)
(* share: a least number, a smallest set, what a loop ends with, and sums  *)
(* over finite sets.                                                       *)
(*                                                                         *)
(* The library's induction theorems take a predicate, which the provers    *)
(* can not instantiate.  Its theorem that a well-founded relation has      *)
(* minimal elements (WFMin) takes sets only: what holds for all is shown   *)
(* by looking at a minimal member of the set of counterexamples.           *)
(***************************************************************************)
EXTENDS Integers, FiniteSets, Functions, FiniteSetTheorems, WellFoundedInduction, TLAPS

(* A set of naturals that is not empty has a least member.                 *)
LEMMA LeastNatural ==
  ASSUME NEW T, T \subseteq Nat, T # {}
  PROVE  \E n \in T : \A m \in T : n <= m
  <1>1. IsWellFoundedOn(OpToRel(<, Nat), Nat)
    BY NatLessThanWellFounded
  <1>2. PICK n \in T : \A m \in T : ~(<<m, n>> \in OpToRel(<, Nat))
    BY <1>1, WFMin
  <1>3. ASSUME NEW m \in T PROVE n <= m
    <2>1. m \in Nat /\ n \in Nat
      OBVIOUS
    <2>2. ~(m < n)
      BY <1>2, <2>1 DEF OpToRel
    <2>. QED
      BY <2>1, <2>2
  <1>. QED
    BY <1>3

(* Induction over the naturals, for a set.                                 *)
LEMMA EveryNatural ==
  ASSUME NEW P, 0 \in P, \A n \in Nat : n \in P => n + 1 \in P
  PROVE  Nat \subseteq P
  <1> SUFFICES ASSUME Nat \ P # {} PROVE FALSE
    OBVIOUS
  <1>1. PICK n \in Nat \ P : \A m \in Nat \ P : n <= m
    <2> DEFINE T == Nat \ P
    <2>1. T \subseteq Nat /\ T # {}
      OBVIOUS
    <2> HIDE DEF T
    <2>2. \E n \in T : \A m \in T : n <= m
      BY <2>1, LeastNatural
    <2>. QED
      BY <2>2 DEF T
  <1>2. n - 1 \in Nat /\ n = (n - 1) + 1
    BY <1>1
  <1>3. n - 1 \in P
    BY <1>1, <1>2
  <1>. QED
    BY <1>1, <1>2, <1>3

(* A set of subsets of a finite set that is not empty has a member of      *)
(* which no other member is a part.                                        *)
LEMMA SmallestSet ==
  ASSUME NEW S, IsFiniteSet(S), NEW T, T \subseteq SUBSET S, T # {}
  PROVE  \E s \in T : \A t \in T : t \subseteq s => t = s
  <1>1. IsWellFoundedOn(StrictSubsetOrdering(S), FiniteSubsetsOf(S))
    BY FS_StrictSubsetOrderingWellFounded
  <1>2. T \subseteq FiniteSubsetsOf(S)
    BY FS_FiniteSubsetsOfFinite
  <1>3. PICK s \in T : \A t \in T : ~(<<t, s>> \in StrictSubsetOrdering(S))
    BY <1>1, <1>2, WFMin
  <1>. QED
    BY <1>3 DEF StrictSubsetOrdering

-----------------------------------------------------------------------------
(* Loops: a step s is taken from x until x is in T, and each step lessens  *)
(* a measure m.                                                            *)

Terminates(D, T, s, m) ==
  m \in [D -> Nat] /\ \A x \in D \ T : s[x] \in D /\ m[s[x]] < m[x]

Inductive(D, T, s, P) ==
  /\ \A x \in D \cap T : x \in P
  /\ \A x \in D \ T : s[x] \in P => x \in P

(* What holds at the end, and before each step if after it, holds always.  *)
LEMMA LoopInduction ==
  ASSUME NEW D, NEW T, NEW s, NEW m, Terminates(D, T, s, m),
         NEW P, Inductive(D, T, s, P)
  PROVE  D \subseteq P
  <1> USE DEF Terminates, Inductive
  <1> SUFFICES ASSUME D \ P # {} PROVE FALSE
    OBVIOUS
  <1> DEFINE M == {m[x] : x \in D \ P}
  <1>1. M \subseteq Nat /\ M # {}
    OBVIOUS
  <1>2. PICK n \in M : \A k \in M : n <= k
    <2> HIDE DEF M
    <2>. QED
      BY <1>1, LeastNatural
  <1>3. PICK x \in D \ P : m[x] = n
    BY <1>2
  <1>4. x \notin T /\ s[x] \in D \ P
    BY <1>3
  <1>5. n <= m[s[x]] /\ m[s[x]] < m[x] /\ m[s[x]] \in Nat /\ m[x] \in Nat
    BY <1>2, <1>3, <1>4
  <1>. QED
    BY <1>3, <1>5

LoopTable(f, D, T, r, s) == f = [x \in D |-> IF x \in T THEN r[x] ELSE f[s[x]]]

(* There is a function that gives what the loop ends with.                 *)
LEMMA LoopExists ==
  ASSUME NEW D, NEW T, NEW r, NEW s, NEW m,
         Terminates(D, T, s, m)
  PROVE  \E f : f = [x \in D |-> IF x \in T THEN r[x] ELSE f[s[x]]]
  <1> DEFINE Below(n) == {x \in D : m[x] < n}
             Agree == {x \in D : \A n, k \in Nat : \A f, g :
                         /\ LoopTable(f, Below(n), T, r, s) /\ x \in Below(n)
                         /\ LoopTable(g, Below(k), T, r, s) /\ x \in Below(k)
                         => f[x] = g[x]}
             Built == {n \in Nat : \E f : LoopTable(f, Below(n), T, r, s)}
  <1>0. m \in [D -> Nat] /\ \A x \in D \ T : s[x] \in D /\ m[s[x]] < m[x]
    BY DEF Terminates
  <1> USE <1>0
  <1>1. D \subseteq Agree
    <2>1. \A x \in D \cap T : x \in Agree
      BY DEF LoopTable
    <2>2. ASSUME NEW x \in D \ T, s[x] \in Agree PROVE x \in Agree
      <3> SUFFICES ASSUME NEW n \in Nat, NEW k \in Nat, NEW f, NEW g,
                          LoopTable(f, Below(n), T, r, s), x \in Below(n),
                          LoopTable(g, Below(k), T, r, s), x \in Below(k)
                   PROVE  f[x] = g[x]
        OBVIOUS
      <3>1. s[x] \in Below(n) /\ s[x] \in Below(k)
        OBVIOUS
      <3>2. f[s[x]] = g[s[x]]
        BY <2>2, <3>1
      <3>3. f[x] = f[s[x]] /\ g[x] = g[s[x]]
        BY DEF LoopTable
      <3>. QED
        BY <3>2, <3>3
    <2>3. \A x \in D \ T : s[x] \in Agree => x \in Agree
      BY <2>2
    <2> HIDE DEF Agree
    <2>4. Inductive(D, T, s, Agree)
      BY <2>1, <2>3 DEF Inductive
    <2>. QED
      BY <2>4, LoopInduction
  <1>2. Nat \subseteq Built
    <2>1. 0 \in Built
      <3>1. Below(0) = {}
        OBVIOUS
      <3>2. LoopTable([x \in {} |-> x], {}, T, r, s)
        BY DEF LoopTable
      <3>. QED
        BY <3>1, <3>2
    <2>2. ASSUME NEW n \in Nat, n \in Built PROVE n + 1 \in Built
      <3>1. PICK f : LoopTable(f, Below(n), T, r, s)
        BY <2>2
      <3> DEFINE g == [x \in Below(n + 1) |-> IF x \in T THEN r[x] ELSE f[s[x]]]
      <3>2. \A x \in Below(n) : x \in Below(n + 1) /\ g[x] = f[x]
        BY <3>1 DEF LoopTable
      <3>3. \A x \in Below(n + 1) : x \notin T => s[x] \in Below(n)
        OBVIOUS
      <3>4. \A x \in Below(n + 1) : x \notin T => g[s[x]] = f[s[x]]
        BY <3>2, <3>3
      <3>5. LoopTable(g, Below(n + 1), T, r, s)
        BY <3>4 DEF LoopTable
      <3>6. n + 1 \in Nat
        OBVIOUS
      <3> HIDE DEF g
      <3>7. \E h : LoopTable(h, Below(n + 1), T, r, s)
        BY <3>5
      <3>. QED
        BY <3>6, <3>7
    <2> HIDE DEF Built
    <2>. QED
      BY <2>1, <2>2, EveryNatural
  <1> DEFINE F == [x \in D |-> (CHOOSE f : LoopTable(f, Below(m[x] + 1), T, r, s))[x]]
  <1>3. ASSUME NEW n \in Nat, NEW f, LoopTable(f, Below(n), T, r, s), NEW x \in Below(n)
        PROVE  F[x] = f[x]
    <2> DEFINE g == CHOOSE h : LoopTable(h, Below(m[x] + 1), T, r, s)
    <2>1. m[x] + 1 \in Nat /\ x \in Below(m[x] + 1) /\ x \in D
      OBVIOUS
    <2>2. LoopTable(g, Below(m[x] + 1), T, r, s)
      BY <1>2, <2>1
    <2>3. F[x] = g[x]
      BY <2>1
    <2> HIDE DEF g, F
    <2>4. f[x] = g[x]
      BY <1>1, <1>3, <2>1, <2>2
    <2>. QED
      BY <2>3, <2>4
  <1>4. ASSUME NEW x \in D PROVE F[x] = IF x \in T THEN r[x] ELSE F[s[x]]
    <2>1. m[x] + 1 \in Nat /\ x \in Below(m[x] + 1)
      OBVIOUS
    <2>2. PICK f : LoopTable(f, Below(m[x] + 1), T, r, s)
      BY <1>2, <2>1
    <2>3. f[x] = IF x \in T THEN r[x] ELSE f[s[x]]
      BY <2>1, <2>2 DEF LoopTable
    <2>4. x \notin T => s[x] \in Below(m[x] + 1)
      OBVIOUS
    <2> HIDE DEF F
    <2>5. F[x] = f[x] /\ (x \notin T => F[s[x]] = f[s[x]])
      BY <1>3, <2>1, <2>2, <2>4
    <2>. QED
      BY <2>3, <2>5
  <1>5. F = [x \in D |-> F[x]]
    OBVIOUS
  <1> HIDE DEF F
  <1>6. F = [x \in D |-> IF x \in T THEN r[x] ELSE F[s[x]]]
    <2> DEFINE G == [x \in D |-> IF x \in T THEN r[x] ELSE F[s[x]]]
    <2>1. \A x \in D : G[x] = F[x]
      BY <1>4
    <2>2. G = [x \in D |-> G[x]]
      OBVIOUS
    <2> HIDE DEF G
    <2>3. G = F
      BY <1>5, <2>1, <2>2
    <2>. QED
      BY <2>3 DEF G
  <1>. QED
    BY <1>6

-----------------------------------------------------------------------------
(* What is computed one step after the other.                              *)

IsRun(f, V, n, a, step) ==
  /\ f \in [0..n -> V] /\ f[0] = a
  /\ \A i \in 1..n : f[i] = step[<<i, f[i - 1]>>]

LEMMA RunExists ==
  ASSUME NEW V, NEW n \in Nat, NEW a \in V, NEW step,
         \A i \in 1..n : \A v \in V : step[<<i, v>>] \in V
  PROVE  \E f : IsRun(f, V, n, a, step)
  <1> DEFINE P == {k \in Nat : k <= n => \E f : IsRun(f, V, k, a, step)}
  <1>1. 0 \in P
    <2>1. IsRun([i \in 0..0 |-> a], V, 0, a, step)
      BY DEF IsRun
    <2>. QED
      BY <2>1
  <1>2. ASSUME NEW k \in Nat, k \in P PROVE k + 1 \in P
    <2> SUFFICES ASSUME k + 1 <= n PROVE \E f : IsRun(f, V, k + 1, a, step)
      OBVIOUS
    <2>1. PICK f : IsRun(f, V, k, a, step)
      BY <1>2
    <2> DEFINE v == step[<<k + 1, f[k]>>]
               g == [i \in 0..(k + 1) |-> IF i <= k THEN f[i] ELSE v]
    <2>2. /\ f \in [0..k -> V] /\ f[0] = a
          /\ \A i \in 1..k : f[i] = step[<<i, f[i - 1]>>]
      BY <2>1 DEF IsRun
    <2>3. v \in V
      <3>1. k + 1 \in 1..n /\ f[k] \in V
        BY <2>2
      <3>. QED
        BY <3>1
    <2>4. (\A i \in 0..k : g[i] = f[i] /\ f[i] \in V) /\ g[k + 1] = v
      BY <2>2
    <2>5. g \in [0..(k + 1) -> V]
      <3>1. \A i \in 0..(k + 1) : i \in 0..k \/ i = k + 1
        OBVIOUS
      <3>2. g = [i \in 0..(k + 1) |-> g[i]]
        OBVIOUS
      <3> HIDE DEF g, v
      <3>. QED
        BY <2>3, <2>4, <3>1, <3>2
    <2> HIDE DEF g
    <2>6. g[0] = a
      BY <2>2, <2>4
    <2>7. ASSUME NEW i \in 1..(k + 1) PROVE g[i] = step[<<i, g[i - 1]>>]
      <3>1. i - 1 \in 0..k /\ (i \in 1..k \/ i = k + 1)
        OBVIOUS
      <3>2. \A j \in 1..k : j \in 0..k
        OBVIOUS
      <3>3. i = k + 1 => i - 1 = k
        OBVIOUS
      <3>. QED
        BY <2>2, <2>4, <3>1, <3>2, <3>3
    <2>8. IsRun(g, V, k + 1, a, step)
      BY <2>5, <2>6, <2>7 DEF IsRun
    <2>. QED
      BY <2>8
  <1> HIDE DEF P
  <1>3. n \in P
    BY <1>1, <1>2, EveryNatural
  <1>. QED
    BY <1>3 DEF P

-----------------------------------------------------------------------------
(* SumFunctionOnSet of module Functions.                                   *)

First(s) == CHOOSE x \in s : TRUE

(* The table of the sums of f over the subsets of S, which the library's   *)
(* fold computes.                                                          *)
IsTable(g, f, S) ==
  g = [s \in SUBSET S |-> IF s = {} THEN 0 ELSE f[First(s)] + g[s \ {First(s)}]]

LEMMA FirstIsMember == ASSUME NEW s, s # {} PROVE First(s) \in s
  BY DEF First

LEMMA SumIsChosen ==
  ASSUME NEW f, NEW S
  PROVE  SumFunctionOnSet(f, S) = (CHOOSE g : IsTable(g, f, S))[S]
  BY DEF SumFunctionOnSet, FoldFunctionOnSet, MapThenFoldSet, IsTable, First

LEMMA TableEmpty == ASSUME NEW f, NEW S, NEW g, IsTable(g, f, S) PROVE g[{}] = 0
  BY DEF IsTable

LEMMA TableStep ==
  ASSUME NEW f, NEW S, NEW g, IsTable(g, f, S), NEW s, s \subseteq S, s # {}
  PROVE  /\ First(s) \in s /\ s \ {First(s)} \subseteq S /\ s \ {First(s)} # s
         /\ g[s] = f[First(s)] + g[s \ {First(s)}]
  BY FirstIsMember DEF IsTable

(* Two tables agree where both are defined.                                *)
LEMMA TablesAgree ==
  ASSUME NEW f, NEW S, IsFiniteSet(S), NEW R, NEW g, IsTable(g, f, S), NEW h, IsTable(h, f, R),
         NEW s, s \subseteq S, s \subseteq R
  PROVE  g[s] = h[s]
  <1> DEFINE T == {t \in SUBSET S : t \subseteq R /\ g[t] # h[t]}
  <1> SUFFICES ASSUME T # {} PROVE FALSE
    OBVIOUS
  <1>1. T \subseteq SUBSET S
    OBVIOUS
  <1> HIDE DEF T
  <1>2. PICK t \in T : \A u \in T : u \subseteq t => u = t
    BY <1>1, SmallestSet
  <1>3. t \subseteq S /\ t \subseteq R /\ g[t] # h[t]
    BY DEF T
  <1>4. t # {}
    <2>1. g[{}] = 0 /\ h[{}] = 0
      BY TableEmpty
    <2>. QED
      BY <1>3, <2>1
  <1> DEFINE u == t \ {First(t)}
  <1>5. /\ First(t) \in t /\ u \subseteq S /\ u \subseteq R
        /\ g[t] = f[First(t)] + g[u] /\ h[t] = f[First(t)] + h[u]
    BY <1>3, <1>4, TableStep
  <1>6. u \notin T
    BY <1>2, <1>5
  <1>. QED
    BY <1>3, <1>5, <1>6 DEF T

(* A finite set has a table.                                               *)
LEMMA TableExists ==
  ASSUME NEW f, NEW S, IsFiniteSet(S)
  PROVE  \E g : IsTable(g, f, S)
  <1> DEFINE T == {t \in SUBSET S : ~\E g : IsTable(g, f, t)}
  <1> SUFFICES ASSUME T # {} PROVE FALSE
    OBVIOUS
  <1>1. T \subseteq SUBSET S
    OBVIOUS
  <1> HIDE DEF T
  <1>2. PICK t \in T : \A u \in T : u \subseteq t => u = t
    BY <1>1, SmallestSet
  <1>3. t \subseteq S /\ ~\E g : IsTable(g, f, t)
    BY DEF T
  <1> DEFINE tab(u) == CHOOSE g : IsTable(g, f, u)
             G == [u \in SUBSET t |-> IF u = {} THEN 0
                                      ELSE f[First(u)] + tab(u \ {First(u)})[u \ {First(u)}]]
  <1>4. \A u : u \subseteq t /\ u # t => IsTable(tab(u), f, u) /\ IsFiniteSet(u)
    <2> SUFFICES ASSUME NEW u, u \subseteq t, u # t
                 PROVE  IsTable(tab(u), f, u) /\ IsFiniteSet(u)
      OBVIOUS
    <2>1. u \in SUBSET S /\ u \notin T
      BY <1>2, <1>3
    <2>2. \E g : IsTable(g, f, u)
      BY <2>1 DEF T
    <2>. QED
      BY <2>1, <2>2, FS_Subset
  <1> HIDE DEF tab
  <1>5. ASSUME NEW u \in SUBSET t, u # t
        PROVE  G[u] = tab(u)[u]
    <2>1. IsTable(tab(u), f, u) /\ IsFiniteSet(u)
      BY <1>4, <1>5
    <2>2. CASE u = {}
      BY <2>1, <2>2, TableEmpty
    <2>3. CASE u # {}
      <3> DEFINE v == u \ {First(u)}
      <3>1. /\ First(u) \in u /\ v \subseteq u /\ v \subseteq t /\ v # t
            /\ tab(u)[u] = f[First(u)] + tab(u)[v]
        BY <1>5, <2>1, <2>3, TableStep
      <3>2. IsTable(tab(v), f, v)
        BY <1>4, <3>1
      <3>3. tab(u)[v] = tab(v)[v]
        BY <2>1, <3>1, <3>2, TablesAgree
      <3>4. G[u] = f[First(u)] + tab(v)[v]
        BY <2>3
      <3>. QED
        BY <3>1, <3>3, <3>4
    <2>. QED
      BY <2>2, <2>3
  <1>6. ASSUME NEW u \in SUBSET t, u # {}
        PROVE  G[u] = f[First(u)] + G[u \ {First(u)}]
    <2> DEFINE v == u \ {First(u)}
    <2>1. v \in SUBSET t /\ v # t
      BY <1>6, FirstIsMember
    <2>2. G[v] = tab(v)[v]
      BY <1>5, <2>1
    <2>3. G[u] = f[First(u)] + tab(v)[v]
      BY <1>6
    <2>. QED
      BY <2>2, <2>3
  <1>7. G[{}] = 0 /\ G = [u \in SUBSET t |-> G[u]]
    OBVIOUS
  <1> HIDE DEF G
  <1>8. G = [u \in SUBSET t |-> IF u = {} THEN 0 ELSE f[First(u)] + G[u \ {First(u)}]]
    BY <1>6, <1>7
  <1>. QED
    BY <1>3, <1>8 DEF IsTable

(* The sum is the value of a table.                                        *)
LEMMA SumOfTable ==
  ASSUME NEW f, NEW S, IsFiniteSet(S), NEW g, IsTable(g, f, S), NEW s, s \subseteq S
  PROVE  SumFunctionOnSet(f, s) = g[s]
  <1>1. IsFiniteSet(s)
    BY FS_Subset
  <1> DEFINE h == CHOOSE t : IsTable(t, f, s)
  <1>2. IsTable(h, f, s)
    BY <1>1, TableExists
  <1>3. SumFunctionOnSet(f, s) = h[s]
    BY SumIsChosen
  <1> HIDE DEF h
  <1>4. s \subseteq s /\ s \subseteq S
    OBVIOUS
  <1>5. h[s] = g[s]
    BY <1>1, <1>2, <1>4, TablesAgree
  <1>. QED
    BY <1>3, <1>5

LEMMA SumOfNothing == ASSUME NEW f PROVE SumFunctionOnSet(f, {}) = 0
  <1>1. IsFiniteSet({})
    BY FS_EmptySet
  <1>2. PICK g : IsTable(g, f, {})
    BY <1>1, TableExists
  <1>3. SumFunctionOnSet(f, {}) = g[{}]
    BY <1>1, <1>2, SumOfTable
  <1>. QED
    BY <1>2, <1>3, TableEmpty

LEMMA SumStep ==
  ASSUME NEW f, NEW S, IsFiniteSet(S), S # {}
  PROVE  /\ First(S) \in S
         /\ SumFunctionOnSet(f, S) = f[First(S)] + SumFunctionOnSet(f, S \ {First(S)})
  <1>1. PICK g : IsTable(g, f, S)
    BY TableExists
  <1>2. First(S) \in S /\ g[S] = f[First(S)] + g[S \ {First(S)}]
    BY <1>1, TableStep
  <1>3. SumFunctionOnSet(f, S) = g[S]
    BY <1>1, SumOfTable
  <1>4. SumFunctionOnSet(f, S \ {First(S)}) = g[S \ {First(S)}]
    BY <1>1, SumOfTable
  <1>. QED
    BY <1>2, <1>3, <1>4

(* A sum of integers is an integer.                                        *)
LEMMA SumType ==
  ASSUME NEW S, IsFiniteSet(S), NEW f, \A x \in S : f[x] \in Int
  PROVE  SumFunctionOnSet(f, S) \in Int
  <1> DEFINE T == {t \in SUBSET S : SumFunctionOnSet(f, t) \notin Int}
  <1> SUFFICES ASSUME T # {} PROVE FALSE
    OBVIOUS
  <1>1. T \subseteq SUBSET S
    OBVIOUS
  <1> HIDE DEF T
  <1>2. PICK t \in T : \A u \in T : u \subseteq t => u = t
    BY <1>1, SmallestSet
  <1>3. t \subseteq S /\ SumFunctionOnSet(f, t) \notin Int /\ IsFiniteSet(t)
    BY FS_Subset DEF T
  <1>4. t # {}
    BY <1>3, SumOfNothing
  <1>5. /\ First(t) \in t
        /\ SumFunctionOnSet(f, t) = f[First(t)] + SumFunctionOnSet(f, t \ {First(t)})
    BY <1>3, <1>4, SumStep
  <1>6. t \ {First(t)} \notin T /\ t \ {First(t)} \in SUBSET S
    BY <1>2, <1>3, <1>5
  <1>7. SumFunctionOnSet(f, t \ {First(t)}) \in Int
    BY <1>6 DEF T
  <1>. QED
    BY <1>3, <1>5, <1>7

(* A sum of naturals is a natural.                                         *)
LEMMA SumOfNaturals ==
  ASSUME NEW S, IsFiniteSet(S), NEW f, \A x \in S : f[x] \in Nat
  PROVE  SumFunctionOnSet(f, S) \in Nat
  <1> DEFINE T == {t \in SUBSET S : SumFunctionOnSet(f, t) \notin Nat}
  <1> SUFFICES ASSUME T # {} PROVE FALSE
    OBVIOUS
  <1>1. T \subseteq SUBSET S
    OBVIOUS
  <1> HIDE DEF T
  <1>2. PICK t \in T : \A u \in T : u \subseteq t => u = t
    BY <1>1, SmallestSet
  <1>3. t \subseteq S /\ SumFunctionOnSet(f, t) \notin Nat /\ IsFiniteSet(t)
    BY FS_Subset DEF T
  <1>4. t # {}
    BY <1>3, SumOfNothing
  <1>5. /\ First(t) \in t
        /\ SumFunctionOnSet(f, t) = f[First(t)] + SumFunctionOnSet(f, t \ {First(t)})
    BY <1>3, <1>4, SumStep
  <1>6. t \ {First(t)} \notin T /\ t \ {First(t)} \in SUBSET S
    BY <1>2, <1>3, <1>5
  <1>7. SumFunctionOnSet(f, t \ {First(t)}) \in Nat
    BY <1>6 DEF T
  <1>. QED
    BY <1>3, <1>5, <1>7

(* Any member may be taken out first.                                      *)
LEMMA SumOfMember ==
  ASSUME NEW S, IsFiniteSet(S), NEW f, \A x \in S : f[x] \in Int, NEW x \in S
  PROVE  SumFunctionOnSet(f, S) = f[x] + SumFunctionOnSet(f, S \ {x})
  <1> DEFINE sum(t) == SumFunctionOnSet(f, t)
             T == {t \in SUBSET S : \E y \in t : sum(t) # f[y] + sum(t \ {y})}
  <1> SUFFICES ASSUME T # {} PROVE FALSE
    OBVIOUS
  <1>1. T \subseteq SUBSET S
    OBVIOUS
  <1>0. \A t \in SUBSET S : IsFiniteSet(t) /\ sum(t) \in Int
    BY FS_Subset, SumType
  <1>9. \A t \in SUBSET S : t # {} => First(t) \in t /\ sum(t) = f[First(t)] + sum(t \ {First(t)})
    BY <1>0, SumStep
  <1> HIDE DEF T, sum
  <1>2. PICK t \in T : \A u \in T : u \subseteq t => u = t
    BY <1>1, SmallestSet
  <1>3. PICK y \in t : t \subseteq S /\ sum(t) # f[y] + sum(t \ {y})
    BY DEF T
  <1> DEFINE z == First(t)
             u == t \ {z}
             v == t \ {y}
             w == u \ {y}
  <1>4. z \in t /\ sum(t) = f[z] + sum(u)
    BY <1>3, <1>9
  <1>5. y # z
    BY <1>3, <1>4
  <1>6. u \notin T /\ v \notin T /\ u \in SUBSET S /\ v \in SUBSET S /\ w \in SUBSET S
    BY <1>2, <1>3, <1>4
  <1>7. sum(u) = f[y] + sum(w)
    BY <1>3, <1>5, <1>6 DEF T
  <1>8. sum(v) = f[z] + sum(w)
    <2>1. v \ {z} = w /\ z \in v
      BY <1>4, <1>5
    <2>. QED
      BY <1>6, <2>1 DEF T
  <1>10. f[y] \in Int /\ f[z] \in Int /\ sum(w) \in Int
    BY <1>0, <1>3, <1>4, <1>6
  <1> HIDE DEF z, u, v, w
  <1>11. sum(t) = f[y] + sum(v)
    BY <1>4, <1>7, <1>8, <1>10
  <1>. QED
    BY <1>3, <1>11 DEF v

(* Functions that agree on a set have the same sum over it.                *)
LEMMA SameSums ==
  ASSUME NEW S, IsFiniteSet(S), NEW f, NEW g, \A x \in S : f[x] = g[x]
  PROVE  SumFunctionOnSet(f, S) = SumFunctionOnSet(g, S)
  <1> DEFINE T == {t \in SUBSET S : SumFunctionOnSet(f, t) # SumFunctionOnSet(g, t)}
  <1> SUFFICES ASSUME T # {} PROVE FALSE
    OBVIOUS
  <1>1. T \subseteq SUBSET S
    OBVIOUS
  <1> HIDE DEF T
  <1>2. PICK t \in T : \A u \in T : u \subseteq t => u = t
    BY <1>1, SmallestSet
  <1>3. /\ t \subseteq S /\ IsFiniteSet(t)
        /\ SumFunctionOnSet(f, t) # SumFunctionOnSet(g, t)
    BY FS_Subset DEF T
  <1>4. t # {}
    BY <1>3, SumOfNothing
  <1> DEFINE u == t \ {First(t)}
  <1>5. First(t) \in t /\ SumFunctionOnSet(f, t) = f[First(t)] + SumFunctionOnSet(f, u)
    BY <1>3, <1>4, SumStep
  <1>6. SumFunctionOnSet(g, t) = g[First(t)] + SumFunctionOnSet(g, u)
    BY <1>3, <1>4, SumStep
  <1>7. u \notin T /\ u \in SUBSET S
    BY <1>2, <1>3, <1>5
  <1>. QED
    BY <1>3, <1>5, <1>6, <1>7 DEF T

(* The sum over a set with one more member, of a function that agrees with *)
(* f on the others.                                                        *)
LEMMA SumOfOneMore ==
  ASSUME NEW S, IsFiniteSet(S), NEW f, NEW g, \A x \in S : f[x] \in Int /\ g[x] = f[x],
         NEW y, y \notin S, g[y] \in Int
  PROVE  SumFunctionOnSet(g, S \cup {y}) = g[y] + SumFunctionOnSet(f, S)
  <1>1. IsFiniteSet(S \cup {y}) /\ \A x \in S \cup {y} : g[x] \in Int
    BY FS_AddElement
  <1>2. SumFunctionOnSet(g, S \cup {y}) = g[y] + SumFunctionOnSet(g, (S \cup {y}) \ {y})
    BY <1>1, SumOfMember
  <1>3. (S \cup {y}) \ {y} = S
    OBVIOUS
  <1>4. SumFunctionOnSet(g, S) = SumFunctionOnSet(f, S)
    BY SameSums
  <1>. QED
    BY <1>2, <1>3, <1>4

(* The sum over a set with one member less.                                *)
LEMMA SumOfOneLess ==
  ASSUME NEW S, IsFiniteSet(S), NEW f, NEW g, \A x \in S : f[x] \in Int /\ g[x] = f[x],
         NEW y \in S
  PROVE  SumFunctionOnSet(g, S \ {y}) = SumFunctionOnSet(f, S) - f[y]
  <1>1. SumFunctionOnSet(f, S) = f[y] + SumFunctionOnSet(f, S \ {y})
    BY SumOfMember
  <1>2. IsFiniteSet(S \ {y})
    BY FS_RemoveElement
  <1>3. SumFunctionOnSet(f, S \ {y}) = SumFunctionOnSet(g, S \ {y})
    BY <1>2, SameSums
  <1>4. SumFunctionOnSet(f, S \ {y}) \in Int /\ f[y] \in Int
    BY <1>2, SumType
  <1>. QED
    BY <1>1, <1>3, <1>4

-----------------------------------------------------------------------------
(* Quotients and multiples.                                                *)

LEMMA Division ==
  ASSUME NEW a \in Int, NEW s \in Nat \ {0}
  PROVE  a \div s \in Int /\ a % s \in 0..(s - 1) /\ a = s * (a \div s) + (a % s)
  OBVIOUS

LEMMA Quotient ==
  ASSUME NEW q \in Int, NEW s \in Nat \ {0}, NEW r \in 0..(s - 1)
  PROVE  (q * s + r) \div s = q /\ (q * s + r) % s = r
  OBVIOUS

LEMMA Products ==
  ASSUME NEW p \in Int, NEW q \in Int, NEW s \in Nat \ {0}
  PROVE  /\ p * s \in Int /\ (p <= q <=> p * s <= q * s)
         /\ p < q => p * s + s <= q * s
         /\ (p \in Nat => p * s \in Nat)
  <1>1. ASSUME NEW x \in Int, NEW y \in Int, x < y PROVE x * s + s <= y * s
    <2>1. y - x - 1 \in Nat /\ y = x + 1 + (y - x - 1)
      BY <1>1
    <2>2. PICK d \in Nat : y = x + 1 + d
      BY <2>1
    <2>3. y * s = x * s + s + d * s /\ d * s \in Nat
      BY <2>2
    <2> QED
      BY <2>3
  <1>2. p * s \in Int /\ q * s \in Int /\ (p \in Nat => p * s \in Nat)
    OBVIOUS
  <1>3. p < q \/ q < p \/ p = q
    OBVIOUS
  <1> QED
    BY <1>1, <1>2, <1>3

LEMMA MultipleIs ==
  ASSUME NEW a \in Int, NEW s \in Nat \ {0}
  PROVE  /\ a % s = 0 <=> \E q \in Int : a = q * s
         /\ a % s = 0 /\ a >= 0 => \E q \in Nat : a = q * s
  <1>1. ASSUME NEW q \in Int, a = q * s PROVE a % s = 0
    <2>1. 0 \in 0..(s - 1) /\ (q * s + 0) % s = 0
      BY Quotient
    <2>2. q * s \in Int
      OBVIOUS
    <2>. QED
      BY <1>1, <2>1, <2>2
  <1>2. ASSUME a % s = 0 PROVE \E q \in Int : a = q * s /\ (a >= 0 => q \in Nat)
    <2>1. PICK q \in Int : a = s * q + (a % s)
      BY Division
    <2>2. a = q * s
      BY <1>2, <2>1
    <2>3. q < 0 => q * s + s <= 0 * s
      BY Products, 0 \in Int
    <2>. QED
      BY <2>2, <2>3
  <1>. QED
    BY <1>1, <1>2

LEMMA Multiples ==
  ASSUME NEW s \in Nat \ {0}, NEW a \in Int, NEW b \in Int, a % s = 0, b % s = 0
  PROVE  /\ (a + b) % s = 0 /\ (a - b) % s = 0
         /\ a < b => a + s <= b
  <1>1. PICK p \in Int : a = p * s
    BY MultipleIs
  <1>2. PICK q \in Int : b = q * s
    BY MultipleIs
  <1>3. a + b = (p + q) * s /\ a - b = (p - q) * s
    BY <1>1, <1>2
  <1>4. (a + b) % s = 0 /\ (a - b) % s = 0
    <2>1. p + q \in Int /\ p - q \in Int /\ a + b \in Int /\ a - b \in Int
      OBVIOUS
    <2>. QED
      BY <1>3, <2>1, MultipleIs
  <1>5. ASSUME a < b PROVE a + s <= b
    <2>1. p < q
      <3>1. q <= p => q * s <= p * s
        BY Products
      <3>. QED
        BY <1>1, <1>2, <1>5, <3>1
    <2>. QED
      BY <1>1, <1>2, <2>1, Products
  <1>. QED
    BY <1>4, <1>5
=============================================================================
