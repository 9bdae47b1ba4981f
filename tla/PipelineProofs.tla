--------------------------- MODULE PipelineProofs ---------------------------
(***************************************************************************)
(* Proofs about CandlePipeline, for every market.                          *)
(*                                                                         *)
(* First the heap: what up and down end with exists (each moves a candle   *)
(* towards an end of its path), they only exchange candles, and they       *)
(* restore the order that a push or a pop disturbed in one place.  Then    *)
(* what the pipeline keeps: how far it is behind, where each candle is,    *)
(* and in which order candles are processed.  At last that the heap        *)
(* implements LeastFirst.                                                  *)
(***************************************************************************)
EXTENDS CandlePipeline, DataTheorems, SequenceTheorems

(***************************************************************************)
(* The order of candles: a strict weak order.                              *)
(***************************************************************************)

LEMMA FeedTypes ==
  /\ FeedCandles \subseteq Candle
  /\ \A c \in Candle : c.time \in Nat /\ c.updated \in Nat /\ Rank[c.pair] \in Nat
  <1>1. \A m \in Markets, p \in Pair : ToSet(m.feed[p]) \subseteq Candle
    <2> SUFFICES ASSUME NEW m \in Markets, NEW p \in Pair PROVE ToSet(m.feed[p]) \subseteq Candle
      OBVIOUS
    <2>1. m.feed[p] \in Seq(Candle)
      BY MarketAssumption
    <2>. QED
      BY <2>1 DEF ToSet
  <1>. QED
    BY <1>1, PairAssumption DEF FeedCandles, Candle

LEMMA EarlierOrder ==
  ASSUME NEW c \in Candle, NEW d \in Candle, NEW e \in Candle
  PROVE  /\ ~Earlier(c, c)
         /\ Earlier(c, d) => ~Earlier(d, c)
         /\ Earlier(c, d) /\ Earlier(d, e) => Earlier(c, e)
         /\ ~Earlier(c, d) /\ ~Earlier(d, e) => ~Earlier(c, e)
  <1>1. \A x \in {c, d, e} : x.time \in Nat /\ x.updated \in Nat /\ Rank[x.pair] \in Nat
    BY FeedTypes
  <1>. QED
    BY <1>1 DEF Earlier

-----------------------------------------------------------------------------
(***************************************************************************)
(* The order of candles in a sequence does not matter to how often each    *)
(* occurs.                                                                 *)
(***************************************************************************)

LEMMA OccurrencesType ==
  ASSUME NEW S, NEW d \in Seq(S), NEW c
  PROVE  /\ Occurrences(d, c) \in Nat
         /\ IsFiniteSet({i \in DOMAIN d : d[i] = c})
         /\ Occurrences(d, c) > 0 <=> c \in ToSet(d)
  <1>1. IsFiniteSet(DOMAIN d)
    <2>1. DOMAIN d = 1..Len(d) /\ Len(d) \in Nat
      OBVIOUS
    <2>. QED
      BY <2>1, FS_Interval
  <1> DEFINE I == {i \in DOMAIN d : d[i] = c}
  <1>2. IsFiniteSet(I) /\ I \subseteq DOMAIN d
    BY <1>1, FS_Subset
  <1>3. Cardinality(I) \in Nat /\ (Cardinality(I) = 0 <=> I = {})
    <2> HIDE DEF I
    <2>. QED
      BY <1>2, FS_CardinalityType, FS_EmptySet
  <1>. QED
    BY <1>2, <1>3 DEF Occurrences, ToSet

LEMMA SwapType ==
  ASSUME NEW S, NEW d \in Seq(S), NEW i \in 1..Len(d), NEW j \in 1..Len(d)
  PROVE  /\ Q!Swap(d, i, j) \in Seq(S) /\ Len(Q!Swap(d, i, j)) = Len(d)
         /\ \A k \in 1..Len(d) :
              Q!Swap(d, i, j)[k] = IF k = j THEN d[i] ELSE IF k = i THEN d[j] ELSE d[k]
  BY DEF Q!Swap

(* e is d with what is at i and j exchanged.                               *)
Swapped(d, i, j, e) ==
  /\ e \in Seq(FeedCandles) /\ Len(e) = Len(d)
  /\ \A k \in 1..Len(d) : e[k] = IF k = j THEN d[i] ELSE IF k = i THEN d[j] ELSE d[k]

LEMMA Swaps ==
  ASSUME NEW d \in Seq(FeedCandles), NEW i \in 1..Len(d), NEW j \in 1..Len(d)
  PROVE  Swapped(d, i, j, Q!Swap(d, i, j))
  BY DEF Swapped, Q!Swap

LEMMA SwapOccurrences ==
  ASSUME NEW S, NEW d \in Seq(S), NEW i \in 1..Len(d), NEW j \in 1..Len(d), NEW c
  PROVE  Occurrences(Q!Swap(d, i, j), c) = Occurrences(d, c)
  <1> DEFINE e == Q!Swap(d, i, j)
             I == {k \in DOMAIN d : d[k] = c}
             J == {k \in DOMAIN e : e[k] = c}
             f == [k \in I |-> IF k = i THEN j ELSE IF k = j THEN i ELSE k]
  <1>1. /\ e \in Seq(S) /\ Len(e) = Len(d) /\ DOMAIN e = DOMAIN d /\ DOMAIN d = 1..Len(d)
        /\ \A k \in 1..Len(d) : e[k] = IF k = j THEN d[i] ELSE IF k = i THEN d[j] ELSE d[k]
    BY SwapType
  <1> HIDE DEF e
  <1>2. f \in Bijection(I, J)
    <2>1. f \in [I -> J]
      BY <1>1
    <2>2. \A k, l \in I : f[k] = f[l] => k = l
      OBVIOUS
    <2>3. \A l \in J : \E k \in I : f[k] = l
      <3> SUFFICES ASSUME NEW l \in J PROVE \E k \in I : f[k] = l
        OBVIOUS
      <3>1. CASE l = i
        <4>1. j \in I /\ f[j] = l
          BY <1>1, <3>1
        <4>. QED
          BY <4>1
      <3>2. CASE l = j /\ l # i
        <4>1. i \in I /\ f[i] = l
          BY <1>1, <3>2
        <4>. QED
          BY <4>1
      <3>3. CASE l # i /\ l # j
        <4>1. l \in I /\ f[l] = l
          BY <1>1, <3>3
        <4>. QED
          BY <4>1
      <3>. QED
        BY <3>1, <3>2, <3>3
    <2> HIDE DEF f, I, J
    <2>. QED
      BY <2>1, <2>2, <2>3 DEF Bijection, Injection, Surjection, IsInjective
  <1>3. IsFiniteSet(I)
    BY OccurrencesType
  <1> HIDE DEF f, I, J
  <1>4. ExistsBijection(I, J)
    BY <1>2 DEF ExistsBijection
  <1>5. Cardinality(J) = Cardinality(I)
    BY <1>3, <1>4, FS_Bijection
  <1>. QED
    BY <1>5 DEF Occurrences, I, J, e

LEMMA AppendOccurrences ==
  ASSUME NEW S, NEW d \in Seq(S), NEW x \in S, NEW c
  PROVE  Occurrences(Append(d, x), c) = Occurrences(d, c) + (IF x = c THEN 1 ELSE 0)
  <1> DEFINE I == {k \in DOMAIN d : d[k] = c}
             J == {k \in DOMAIN Append(d, x) : Append(d, x)[k] = c}
             n == Len(d) + 1
  <1>1. J = IF x = c THEN I \cup {n} ELSE I
    OBVIOUS
  <1>2. n \notin I /\ IsFiniteSet(I)
    <2>1. IsFiniteSet(I)
      BY OccurrencesType
    <2>2. n \notin I
      OBVIOUS
    <2>. QED
      BY <2>1, <2>2
  <1>3. Cardinality(I) \in Nat /\ Cardinality(I \cup {n}) = Cardinality(I) + 1
    <2> HIDE DEF I, n
    <2>. QED
      BY <1>2, FS_CardinalityType, FS_AddElement
  <1>4. Occurrences(d, c) = Cardinality(I) /\ Occurrences(Append(d, x), c) = Cardinality(J)
    BY DEF Occurrences
  <1> HIDE DEF I, J
  <1>. QED
    BY <1>1, <1>3, <1>4

(* d holds the same candles as e.                                          *)
Rearranged(d, e) ==
  /\ d \in Seq(FeedCandles) /\ e \in Seq(FeedCandles) /\ Len(d) = Len(e)
  /\ \A c : Occurrences(d, c) = Occurrences(e, c)

LEMMA RearrangedSwap ==
  ASSUME NEW d \in Seq(FeedCandles), NEW i \in 1..Len(d), NEW j \in 1..Len(d)
  PROVE  Rearranged(Q!Swap(d, i, j), d)
  BY SwapType, SwapOccurrences DEF Rearranged

-----------------------------------------------------------------------------
(***************************************************************************)
(* up: the loop, and what it restores.                                     *)
(***************************************************************************)

(* Where up and down are: a slice, and a place in it.                      *)
Place == Seq(FeedCandles) \X Nat

RisenTo(s) == ~(s[2] \in 2..Len(s[1]) /\ Earlier(s[1][s[2]], s[1][s[2] \div 2]))

RiseEnds == {s \in Place : RisenTo(s)}

Rise == [s \in Place |-> <<Q!Swap(s[1], s[2], s[2] \div 2), s[2] \div 2>>]

RiseMeasure == [s \in Place |-> s[2]]

Slice == [s \in Place |-> s[1]]

LEMMA PlaceParts ==
  ASSUME NEW s \in Place
  PROVE  s[1] \in Seq(FeedCandles) /\ s[2] \in Nat /\ s = <<s[1], s[2]>>
  BY DEF Place

LEMMA RiseStep ==
  ASSUME NEW s \in Place \ RiseEnds
  PROVE  /\ s[2] \in 2..Len(s[1]) /\ Earlier(s[1][s[2]], s[1][s[2] \div 2])
         /\ s[2] \div 2 \in 1..Len(s[1]) /\ s[2] \div 2 < s[2]
         /\ Rise[s] \in Place
         /\ Rise[s][1] = Q!Swap(s[1], s[2], s[2] \div 2) /\ Rise[s][2] = s[2] \div 2
  <1>1. s[1] \in Seq(FeedCandles) /\ s[2] \in Nat
    BY PlaceParts
  <1>2. s[2] \in 2..Len(s[1]) /\ Earlier(s[1][s[2]], s[1][s[2] \div 2])
    BY DEF RiseEnds, RisenTo
  <1>3. s[2] \div 2 \in 1..Len(s[1]) /\ s[2] \div 2 < s[2] /\ s[2] \in 1..Len(s[1])
    BY <1>1, <1>2
  <1>4. Q!Swap(s[1], s[2], s[2] \div 2) \in Seq(FeedCandles)
    BY <1>1, <1>3, SwapType
  <1>. QED
    BY <1>2, <1>3, <1>4 DEF Rise, Place

LEMMA RiseTerminates == Terminates(Place, RiseEnds, Rise, RiseMeasure)
  <1>1. RiseMeasure \in [Place -> Nat]
    BY PlaceParts DEF RiseMeasure
  <1>2. ASSUME NEW s \in Place \ RiseEnds
        PROVE  Rise[s] \in Place /\ RiseMeasure[Rise[s]] < RiseMeasure[s]
    BY RiseStep DEF RiseMeasure
  <1>. QED
    BY <1>1, <1>2 DEF Terminates

(* A table of what up ends with.                                           *)
IsUp(up) ==
  up = [s \in Place |-> IF s \in RiseEnds THEN Slice[s] ELSE up[Rise[s]]]

LEMMA UpExists ==
  \E up : IsUp(up) /\ \A q, p : Q!Up(q, p) = up[<<q, p>>]
  <1> DEFINE Table(up) == up = [s \in Seq(FeedCandles) \X Nat |->
               LET d == s[1]
                   i == s[2]
               IN  IF i \in 2..Len(d) /\ Earlier(d[i], d[i \div 2])
                   THEN up[<<Q!Swap(d, i, i \div 2), i \div 2>>] ELSE d]
             up == CHOOSE f : Table(f)
  <1>1. ASSUME NEW f PROVE IsUp(f) <=> Table(f)
    <2> DEFINE g == [s \in Place |-> IF s \in RiseEnds THEN Slice[s] ELSE f[Rise[s]]]
               h == [s \in Seq(FeedCandles) \X Nat |->
                       LET d == s[1]
                           i == s[2]
                       IN  IF i \in 2..Len(d) /\ Earlier(d[i], d[i \div 2])
                           THEN f[<<Q!Swap(d, i, i \div 2), i \div 2>>] ELSE d]
    <2>1. \A s \in Place : g[s] = h[s]
      BY DEF RiseEnds, RisenTo, Rise, Slice, Place
    <2>2. g = [s \in Place |-> g[s]]
      OBVIOUS
    <2>3. h = [s \in Place |-> h[s]]
      BY DEF Place
    <2>4. (IsUp(f) <=> f = g) /\ (Table(f) <=> f = h)
      BY DEF IsUp
    <2> HIDE DEF g, h, Table
    <2>5. g = h
      BY <2>1, <2>2, <2>3
    <2>. QED
      BY <2>4, <2>5
  <1>2. \E f : f = [s \in Place |-> IF s \in RiseEnds THEN Slice[s] ELSE f[Rise[s]]]
    BY RiseTerminates, LoopExists
  <1>3. \A q, p : Q!Up(q, p) = up[<<q, p>>]
    BY DEF Q!Up
  <1> HIDE DEF Table
  <1>4. \E f : Table(f)
    BY <1>1, <1>2 DEF IsUp
  <1>5. IsUp(up)
    BY <1>1, <1>4
  <1> HIDE DEF up
  <1>. QED
    BY <1>3, <1>5

(* Each candle but the one at i, unless i is none, is in order with its    *)
(* parent, and those below i are in order with the parent of i.            *)
OrderedBut(d, i) ==
  \A p \in 2..Len(d) :
    /\ p # i => ~Earlier(d[p], d[p \div 2])
    /\ p \div 2 = i /\ i > 1 => ~Earlier(d[p], d[i \div 2])

Ordered(d) == \A p \in 2..Len(d) : ~Earlier(d[p], d[p \div 2])

LEMMA RiseKeepsOrder ==
  ASSUME NEW d \in Seq(FeedCandles), NEW i \in 2..Len(d),
         OrderedBut(d, i), Earlier(d[i], d[i \div 2]), NEW e, Swapped(d, i, i \div 2, e)
  PROVE  OrderedBut(e, i \div 2)
  <1> DEFINE j == i \div 2
  <1>1. j \in 1..Len(d) /\ j < i /\ i \in 1..Len(d) /\ Len(d) \in Nat
    OBVIOUS
  <1>2. /\ e \in Seq(FeedCandles) /\ Len(e) = Len(d)
        /\ \A k \in 1..Len(d) : e[k] = IF k = j THEN d[i] ELSE IF k = i THEN d[j] ELSE d[k]
    BY DEF Swapped
  <1>3. \A k \in 1..Len(d) : d[k] \in Candle
    BY FeedTypes
  <1> SUFFICES ASSUME NEW p \in 2..Len(d)
               PROVE  /\ p # j => ~Earlier(e[p], e[p \div 2])
                      /\ p \div 2 = j /\ j > 1 => ~Earlier(e[p], e[j \div 2])
    BY <1>2 DEF OrderedBut
  <1>4. p \in 1..Len(d) /\ p \div 2 \in 1..Len(d) /\ p \div 2 < p /\ j \div 2 \in Nat
    OBVIOUS
  <1>5. /\ p # i => ~Earlier(d[p], d[p \div 2])
        /\ p \div 2 = i => ~Earlier(d[p], d[j])
    BY <1>1 DEF OrderedBut
  <1>6. Earlier(d[i], d[j])
    OBVIOUS
  <1>7. ASSUME p # j PROVE ~Earlier(e[p], e[p \div 2])
    <2>1. CASE p = i
      <3>1. e[p] = d[j] /\ e[p \div 2] = d[i]
        BY <1>1, <1>2, <1>4, <2>1
      <3>. QED
        BY <1>1, <1>3, <1>6, <3>1, EarlierOrder
    <2>2. CASE p # i /\ p \div 2 = i
      <3>1. e[p] = d[p] /\ e[p \div 2] = d[j]
        BY <1>1, <1>2, <1>4, <1>7, <2>2
      <3>. QED
        BY <1>5, <2>2, <3>1
    <2>3. CASE p # i /\ p \div 2 = j
      <3>1. e[p] = d[p] /\ e[p \div 2] = d[i]
        BY <1>1, <1>2, <1>4, <1>7, <2>3
      <3>2. ~Earlier(d[p], d[j])
        BY <1>5, <2>3
      <3>3. d[p] \in Candle /\ d[i] \in Candle /\ d[j] \in Candle
        BY <1>1, <1>3, <1>4
      <3> HIDE DEF j
      <3>. QED
        BY <1>6, <3>1, <3>2, <3>3, EarlierOrder
    <2>4. CASE p # i /\ p \div 2 # i /\ p \div 2 # j
      <3>1. e[p] = d[p] /\ e[p \div 2] = d[p \div 2]
        BY <1>1, <1>2, <1>4, <1>7, <2>4
      <3>. QED
        BY <1>5, <2>4, <3>1
    <2>. QED
      BY <2>1, <2>2, <2>3, <2>4
  <1>8. ASSUME p \div 2 = j, j > 1 PROVE ~Earlier(e[p], e[j \div 2])
    <2>1. j \div 2 \in 1..Len(d) /\ j \div 2 < j /\ j \in 2..Len(d)
      BY <1>1, <1>8
    <2>2. e[j \div 2] = d[j \div 2]
      BY <1>1, <1>2, <2>1
    <2>3. ~Earlier(d[j], d[j \div 2])
      BY <1>1, <2>1 DEF OrderedBut
    <2>4. e[p] = IF p = i THEN d[j] ELSE d[p]
      BY <1>1, <1>2, <1>4, <1>8
    <2>5. p # i => ~Earlier(d[p], d[j])
      BY <1>5, <1>8
    <2>6. d[p] \in Candle /\ d[j \div 2] \in Candle /\ d[j] \in Candle
      BY <1>1, <1>3, <1>4, <2>1
    <2> HIDE DEF j
    <2>. QED
      BY <2>2, <2>3, <2>4, <2>5, <2>6, EarlierOrder
  <1>. QED
    BY <1>7, <1>8

LEMMA RearrangedTransitive ==
  ASSUME NEW c, NEW d, NEW e, Rearranged(c, d), Rearranged(d, e)
  PROVE  Rearranged(c, e)
  BY DEF Rearranged

LEMMA RearrangedSame == ASSUME NEW d \in Seq(FeedCandles) PROVE Rearranged(d, d)
  BY DEF Rearranged

LEMMA UpRestores ==
  ASSUME NEW q \in Seq(FeedCandles), NEW p \in 1..Len(q), OrderedBut(q, p)
  PROVE  Rearranged(Q!Up(q, p), q) /\ Ordered(Q!Up(q, p))
  <1>1. PICK up : IsUp(up) /\ \A d, i : Q!Up(d, i) = up[<<d, i>>]
    BY UpExists
  <1> DEFINE Good == {s \in Place : s[2] \in 1..Len(s[1]) /\ OrderedBut(s[1], s[2])
                        => Rearranged(up[s], s[1]) /\ Ordered(up[s])}
  <1>2. ASSUME NEW s \in Place \cap RiseEnds PROVE s \in Good
    <2>1. up[s] = s[1] /\ s[1] \in Seq(FeedCandles) /\ s[2] \in Nat
      BY <1>1, <1>2, PlaceParts DEF IsUp, Slice
    <2>2. ASSUME s[2] \in 1..Len(s[1]), OrderedBut(s[1], s[2]) PROVE Ordered(s[1])
      BY <1>2, <2>2 DEF OrderedBut, Ordered, RiseEnds, RisenTo
    <2>. QED
      BY <2>1, <2>2, RearrangedSame
  <1>3. ASSUME NEW s \in Place \ RiseEnds, Rise[s] \in Good PROVE s \in Good
    <2> DEFINE d == s[1]
               i == s[2]
               e == Q!Swap(d, i, i \div 2)
    <2>1. /\ d \in Seq(FeedCandles) /\ i \in 2..Len(d) /\ Earlier(d[i], d[i \div 2])
          /\ i \div 2 \in 1..Len(d) /\ Rise[s][1] = e /\ Rise[s][2] = i \div 2
      BY RiseStep, PlaceParts
    <2>2. up[s] = up[Rise[s]]
      BY <1>1 DEF IsUp
    <2>3. Len(e) = Len(d) /\ Rearranged(e, d)
      BY <2>1, SwapType, RearrangedSwap
    <2>4. ASSUME OrderedBut(d, i) PROVE OrderedBut(e, i \div 2)
      <3>1. Swapped(d, i, i \div 2, e)
        <4>1. i \in 1..Len(d)
          BY <2>1
        <4>. QED
          BY <2>1, <4>1, Swaps
      <3>. QED
        BY <2>1, <2>4, <3>1, RiseKeepsOrder
    <2> HIDE DEF d, i, e
    <2>5. OrderedBut(d, i) => Rearranged(up[s], e) /\ Ordered(up[s])
      BY <1>3, <2>1, <2>2, <2>3, <2>4
    <2>6. OrderedBut(d, i) => Rearranged(up[s], d) /\ Ordered(up[s])
      BY <2>3, <2>5, RearrangedTransitive
    <2>. QED
      BY <2>6 DEF d, i
  <1>4. <<q, p>> \in Place
    BY DEF Place
  <1> HIDE DEF Good
  <1>5. Inductive(Place, RiseEnds, Rise, Good)
    BY <1>2, <1>3 DEF Inductive
  <1>6. <<q, p>> \in Good
    BY <1>4, <1>5, RiseTerminates, LoopInduction
  <1>7. Rearranged(up[<<q, p>>], q) /\ Ordered(up[<<q, p>>])
    BY <1>6 DEF Good
  <1>. QED
    BY <1>1, <1>7

(* Push: the heap holds one candle more.                                   *)
LEMMA PushRestores ==
  ASSUME NEW q \in Seq(FeedCandles), Ordered(q), NEW x \in FeedCandles
  PROVE  /\ Q!Pushed(q, x) \in Seq(FeedCandles) /\ Ordered(Q!Pushed(q, x))
         /\ Len(Q!Pushed(q, x)) = Len(q) + 1
         /\ \A c : Occurrences(Q!Pushed(q, x), c) = Occurrences(q, c) + (IF x = c THEN 1 ELSE 0)
  <1> DEFINE d == Append(q, x)
             n == Len(q) + 1
  <1>1. d \in Seq(FeedCandles) /\ Len(d) = n /\ n \in 1..Len(d)
    OBVIOUS
  <1>2. OrderedBut(d, n)
    <2>1. \A p \in 2..n : p # n => d[p] = q[p] /\ d[p \div 2] = q[p \div 2] /\ p \in 2..Len(q)
      OBVIOUS
    <2>2. \A p \in 2..n : p \div 2 # n
      OBVIOUS
    <2> HIDE DEF d, n
    <2>. QED
      BY <1>1, <2>1, <2>2 DEF OrderedBut, Ordered
  <1>3. \A c : Occurrences(d, c) = Occurrences(q, c) + (IF x = c THEN 1 ELSE 0)
    BY AppendOccurrences
  <1> HIDE DEF d
  <1>4. Rearranged(Q!Up(d, n), d) /\ Ordered(Q!Up(d, n))
    BY <1>1, <1>2, UpRestores
  <1>. QED
    BY <1>1, <1>3, <1>4 DEF Rearranged, Q!Pushed, d

-----------------------------------------------------------------------------
(***************************************************************************)
(* down: likewise.                                                         *)
(***************************************************************************)

SunkTo(s) ==
  ~(/\ s[2] > 0 /\ 2 * s[2] <= Len(s[1])
    /\ Earlier(s[1][Q!BestChild(s[1], s[2])], s[1][s[2]]))

SinkEnds == {s \in Place : SunkTo(s)}

Sink ==
  [s \in Place |->
     <<Q!Swap(s[1], s[2], Q!BestChild(s[1], s[2])), Q!BestChild(s[1], s[2])>>]

SinkMeasure == [s \in Place |-> IF s[2] <= Len(s[1]) THEN Len(s[1]) - s[2] ELSE 0]

LEMMA SinkStep ==
  ASSUME NEW s \in Place \ SinkEnds, NEW c, c = Q!BestChild(s[1], s[2])
  PROVE  /\ s[2] \in 1..Len(s[1]) /\ 2 * s[2] <= Len(s[1])
         /\ Earlier(s[1][c], s[1][s[2]])
         /\ c \in 1..Len(s[1]) /\ c > s[2]
         /\ c = IF 2 * s[2] < Len(s[1]) /\ Earlier(s[1][2 * s[2] + 1], s[1][2 * s[2]])
                THEN 2 * s[2] + 1 ELSE 2 * s[2]
         /\ Sink[s] \in Place
         /\ Sink[s][1] = Q!Swap(s[1], s[2], c) /\ Sink[s][2] = c
  <1>1. s[1] \in Seq(FeedCandles) /\ s[2] \in Nat /\ Len(s[1]) \in Nat
    BY PlaceParts
  <1>2. s[2] > 0 /\ 2 * s[2] <= Len(s[1]) /\ Earlier(s[1][c], s[1][s[2]])
    BY DEF SinkEnds, SunkTo
  <1>3. c = IF 2 * s[2] < Len(s[1]) /\ Earlier(s[1][2 * s[2] + 1], s[1][2 * s[2]])
            THEN 2 * s[2] + 1 ELSE 2 * s[2]
    BY DEF Q!BestChild
  <1>4. c \in 1..Len(s[1]) /\ c > s[2] /\ s[2] \in 1..Len(s[1])
    <2>1. PICK i, n \in Nat : i = s[2] /\ n = Len(s[1])
      BY <1>1
    <2>2. i > 0 /\ 2 * i <= n /\ (c = 2 * i \/ (c = 2 * i + 1 /\ 2 * i < n))
      BY <1>2, <1>3, <2>1
    <2>. QED
      BY <2>1, <2>2
  <1>5. Q!Swap(s[1], s[2], c) \in Seq(FeedCandles)
    BY <1>1, <1>4, SwapType
  <1>6. Sink[s] = <<Q!Swap(s[1], s[2], c), c>>
    BY DEF Sink
  <1>. QED
    BY <1>1, <1>2, <1>3, <1>4, <1>5, <1>6 DEF Place

LEMMA SinkTerminates == Terminates(Place, SinkEnds, Sink, SinkMeasure)
  <1>1. SinkMeasure \in [Place -> Nat]
    BY PlaceParts DEF SinkMeasure
  <1>2. ASSUME NEW s \in Place \ SinkEnds
        PROVE  Sink[s] \in Place /\ SinkMeasure[Sink[s]] < SinkMeasure[s]
    <2>1. PICK c : c = Q!BestChild(s[1], s[2])
      OBVIOUS
    <2>2. /\ s[2] \in 1..Len(s[1]) /\ c \in 1..Len(s[1]) /\ c > s[2] /\ Sink[s] \in Place
          /\ Sink[s][1] = Q!Swap(s[1], s[2], c) /\ Sink[s][2] = c
      BY <2>1, SinkStep
    <2>3. s[1] \in Seq(FeedCandles)
      BY PlaceParts
    <2>4. Len(Q!Swap(s[1], s[2], c)) = Len(s[1]) /\ Len(s[1]) \in Nat
      BY <2>2, <2>3, SwapType
    <2>. QED
      BY <2>2, <2>4 DEF SinkMeasure
  <1>. QED
    BY <1>1, <1>2 DEF Terminates

(* A table of what down ends with.                                         *)
IsDown(down) ==
  down = [s \in Place |-> IF s \in SinkEnds THEN Slice[s] ELSE down[Sink[s]]]

LEMMA DownExists ==
  \E down : IsDown(down) /\ \A q, p : Q!Down(q, p) = down[<<q, p>>]
  <1> DEFINE Table(down) == down = [s \in Seq(FeedCandles) \X Nat |->
               LET d == s[1]
                   i == s[2]
                   c == Q!BestChild(d, i)
               IN  IF i > 0 /\ 2 * i <= Len(d) /\ Earlier(d[c], d[i])
                   THEN down[<<Q!Swap(d, i, c), c>>] ELSE d]
             down == CHOOSE f : Table(f)
  <1>1. ASSUME NEW f PROVE IsDown(f) <=> Table(f)
    <2> DEFINE g == [s \in Place |-> IF s \in SinkEnds THEN Slice[s] ELSE f[Sink[s]]]
               h == [s \in Seq(FeedCandles) \X Nat |->
                       LET d == s[1]
                           i == s[2]
                           c == Q!BestChild(d, i)
                       IN  IF i > 0 /\ 2 * i <= Len(d) /\ Earlier(d[c], d[i])
                           THEN f[<<Q!Swap(d, i, c), c>>] ELSE d]
    <2>1. \A s \in Place : g[s] = h[s]
      BY DEF SinkEnds, SunkTo, Sink, Slice, Place
    <2>2. g = [s \in Place |-> g[s]]
      OBVIOUS
    <2>3. h = [s \in Place |-> h[s]]
      BY DEF Place
    <2>4. (IsDown(f) <=> f = g) /\ (Table(f) <=> f = h)
      BY DEF IsDown
    <2> HIDE DEF g, h, Table
    <2>5. g = h
      BY <2>1, <2>2, <2>3
    <2>. QED
      BY <2>4, <2>5
  <1>2. \E f : f = [s \in Place |-> IF s \in SinkEnds THEN Slice[s] ELSE f[Sink[s]]]
    BY SinkTerminates, LoopExists
  <1>3. \A q, p : Q!Down(q, p) = down[<<q, p>>]
    BY DEF Q!Down
  <1> HIDE DEF Table
  <1>4. \E f : Table(f)
    BY <1>1, <1>2 DEF IsDown
  <1>5. IsDown(down)
    BY <1>1, <1>4
  <1> HIDE DEF down
  <1>. QED
    BY <1>3, <1>5

(* Each candle but those below i is in order with its parent, and these    *)
(* are in order with the parent of i, if it has one.                       *)
OrderedAbove(d, i) ==
  \A p \in 2..Len(d) :
    /\ p \div 2 # i => ~Earlier(d[p], d[p \div 2])
    /\ p \div 2 = i /\ i > 1 => ~Earlier(d[p], d[i \div 2])

LEMMA SinkKeepsOrder ==
  ASSUME NEW d \in Seq(FeedCandles), NEW i \in 1..Len(d), 2 * i <= Len(d), OrderedAbove(d, i),
         NEW c \in 1..Len(d), c = Q!BestChild(d, i), Earlier(d[c], d[i]),
         NEW e, Swapped(d, i, c, e)
  PROVE  OrderedAbove(e, c)
  <1>0. c = IF 2 * i < Len(d) /\ Earlier(d[2 * i + 1], d[2 * i]) THEN 2 * i + 1 ELSE 2 * i
    BY DEF Q!BestChild
  <1>1. c \in 1..Len(d) /\ i < c /\ c \div 2 = i /\ Len(d) \in Nat /\ c \in 2..Len(d)
    BY <1>0
  <1>2. /\ e \in Seq(FeedCandles) /\ Len(e) = Len(d)
        /\ \A k \in 1..Len(d) : e[k] = IF k = c THEN d[i] ELSE IF k = i THEN d[c] ELSE d[k]
    BY DEF Swapped
  <1>3. \A k \in 1..Len(d) : d[k] \in Candle
    BY FeedTypes
  <1> SUFFICES ASSUME NEW p \in 2..Len(d)
               PROVE  /\ p \div 2 # c => ~Earlier(e[p], e[p \div 2])
                      /\ p \div 2 = c /\ c > 1 => ~Earlier(e[p], e[c \div 2])
    BY <1>2 DEF OrderedAbove
  <1>4. p \in 1..Len(d) /\ p \div 2 \in 1..Len(d) /\ p \div 2 < p
    OBVIOUS
  <1>5. /\ p \div 2 # i => ~Earlier(d[p], d[p \div 2])
        /\ p \div 2 = i /\ i > 1 => ~Earlier(d[p], d[i \div 2])
    BY DEF OrderedAbove
  <1>6. d[p] \in Candle /\ d[i] \in Candle /\ d[c] \in Candle
    BY <1>1, <1>3, <1>4
  <1>7. p \div 2 = i /\ p # c => ~Earlier(d[p], d[c])
    <2> SUFFICES ASSUME p \div 2 = i, p # c PROVE ~Earlier(d[p], d[c])
      OBVIOUS
    <2>1. CASE c = 2 * i
      <3>1. p = 2 * i + 1 /\ 2 * i < Len(d)
        BY <2>1
      <3>. QED
        BY <1>0, <2>1, <3>1
    <2>2. CASE c = 2 * i + 1
      <3>1. p = 2 * i /\ Earlier(d[c], d[p])
        BY <1>0, <2>2
      <3>. QED
        BY <1>6, <3>1, EarlierOrder
    <2>3. c = 2 * i \/ c = 2 * i + 1
      BY <1>0
    <2>. QED
      BY <2>1, <2>2, <2>3
  <1>8. ASSUME p \div 2 # c PROVE ~Earlier(e[p], e[p \div 2])
    <2>1. CASE p = c
      <3>1. e[p] = d[i] /\ e[p \div 2] = d[c]
        BY <1>1, <1>2, <1>4, <2>1
      <3>. QED
        BY <1>6, <3>1, EarlierOrder
    <2>2. CASE p # c /\ p \div 2 = i
      <3>1. e[p] = d[p] /\ e[p \div 2] = d[c]
        BY <1>1, <1>2, <1>4, <2>2
      <3>. QED
        BY <1>7, <2>2, <3>1
    <2>3. CASE p = i
      <3>1. e[p] = d[c] /\ e[p \div 2] = d[p \div 2]
        BY <1>1, <1>2, <1>4, <1>8, <2>3
      <3>2. ~Earlier(d[c], d[i \div 2])
        BY <1>1, <1>4, <2>3 DEF OrderedAbove
      <3>. QED
        BY <2>3, <3>1, <3>2
    <2>4. CASE p # c /\ p # i /\ p \div 2 # i
      <3>1. e[p] = d[p] /\ e[p \div 2] = d[p \div 2]
        BY <1>2, <1>4, <1>8, <2>4
      <3>. QED
        BY <1>5, <2>4, <3>1
    <2>. QED
      BY <2>1, <2>2, <2>3, <2>4
  <1>9. ASSUME p \div 2 = c PROVE ~Earlier(e[p], e[c \div 2])
    <2>1. e[p] = d[p] /\ e[c \div 2] = d[c]
      BY <1>1, <1>2, <1>4, <1>9
    <2>. QED
      BY <1>1, <1>5, <1>9, <2>1
  <1>. QED
    BY <1>8, <1>9

LEMMA DownRestores ==
  ASSUME NEW q \in Seq(FeedCandles), NEW p \in 1..Len(q), OrderedAbove(q, p)
  PROVE  Rearranged(Q!Down(q, p), q) /\ Ordered(Q!Down(q, p))
  <1>1. PICK down : IsDown(down) /\ \A d, i : Q!Down(d, i) = down[<<d, i>>]
    BY DownExists
  <1> DEFINE Good == {s \in Place : s[2] \in 1..Len(s[1]) /\ OrderedAbove(s[1], s[2])
                        => Rearranged(down[s], s[1]) /\ Ordered(down[s])}
  <1>2. ASSUME NEW s \in Place \cap SinkEnds PROVE s \in Good
    <2> DEFINE d == s[1]
               i == s[2]
    <2>1. down[s] = d /\ d \in Seq(FeedCandles) /\ i \in Nat /\ Len(d) \in Nat
      BY <1>1, <1>2, PlaceParts DEF IsDown, Slice
    <2>2. ~(i > 0 /\ 2 * i <= Len(d) /\ Earlier(d[Q!BestChild(d, i)], d[i]))
      BY <1>2 DEF SinkEnds, SunkTo
    <2> HIDE DEF d, i
    <2>3. ASSUME i \in 1..Len(d), OrderedAbove(d, i) PROVE Ordered(d)
      <3> SUFFICES ASSUME NEW k \in 2..Len(d), k \div 2 = i PROVE ~Earlier(d[k], d[i])
        BY <2>3 DEF OrderedAbove, Ordered
      <3>1. 2 * i <= Len(d) /\ (k = 2 * i \/ k = 2 * i + 1)
        BY <2>1
      <3>2. d[k] \in Candle /\ d[i] \in Candle /\ d[2 * i] \in Candle
        BY <2>1, <2>3, <3>1, FeedTypes
      <3>3. CASE 2 * i < Len(d) /\ Earlier(d[2 * i + 1], d[2 * i])
        <4>1. ~Earlier(d[2 * i + 1], d[i]) /\ d[2 * i + 1] \in Candle
          BY <2>1, <2>2, <2>3, <3>1, <3>3, FeedTypes DEF Q!BestChild
        <4>. QED
          BY <3>1, <3>2, <3>3, <4>1, EarlierOrder
      <3>4. CASE ~(2 * i < Len(d) /\ Earlier(d[2 * i + 1], d[2 * i]))
        <4>1. ~Earlier(d[2 * i], d[i])
          BY <2>2, <2>3, <3>1, <3>4 DEF Q!BestChild
        <4>2. CASE k = 2 * i
          BY <4>1, <4>2
        <4>3. CASE k = 2 * i + 1
          <5>1. ~Earlier(d[k], d[2 * i])
            BY <2>1, <3>4, <4>3
          <5>. QED
            BY <3>2, <4>1, <5>1, EarlierOrder
        <4>. QED
          BY <3>1, <4>2, <4>3
      <3>. QED
        BY <3>3, <3>4
    <2>. QED
      BY <2>1, <2>3, RearrangedSame DEF d, i
  <1>3. ASSUME NEW s \in Place \ SinkEnds, Sink[s] \in Good PROVE s \in Good
    <2> DEFINE d == s[1]
               i == s[2]
    <2>0. PICK c : c = Q!BestChild(s[1], s[2])
      OBVIOUS
    <2> DEFINE e == Q!Swap(d, i, c)
    <2>1. /\ d \in Seq(FeedCandles) /\ i \in 1..Len(d) /\ 2 * i <= Len(d)
          /\ c = Q!BestChild(d, i) /\ Earlier(d[c], d[i]) /\ c \in 1..Len(d)
          /\ Sink[s][1] = e /\ Sink[s][2] = c
      BY <2>0, SinkStep, PlaceParts
    <2>2. down[s] = down[Sink[s]]
      BY <1>1 DEF IsDown
    <2>3. Len(e) = Len(d) /\ Rearranged(e, d)
      BY <2>1, SwapType, RearrangedSwap
    <2>4. ASSUME OrderedAbove(d, i) PROVE OrderedAbove(e, c)
      <3>1. Swapped(d, i, c, e)
        BY <2>1, Swaps
      <3>. QED
        BY <2>1, <2>4, <3>1, SinkKeepsOrder
    <2> HIDE DEF d, i, e
    <2>5. OrderedAbove(d, i) => Rearranged(down[s], e) /\ Ordered(down[s])
      BY <1>3, <2>1, <2>2, <2>3, <2>4
    <2>6. OrderedAbove(d, i) => Rearranged(down[s], d) /\ Ordered(down[s])
      BY <2>3, <2>5, RearrangedTransitive
    <2>. QED
      BY <2>6 DEF d, i
  <1>4. <<q, p>> \in Place
    BY DEF Place
  <1> HIDE DEF Good
  <1>5. Inductive(Place, SinkEnds, Sink, Good)
    BY <1>2, <1>3 DEF Inductive
  <1>6. <<q, p>> \in Good
    BY <1>4, <1>5, SinkTerminates, LoopInduction
  <1>7. Rearranged(down[<<q, p>>], q) /\ Ordered(down[<<q, p>>])
    BY <1>6 DEF Good
  <1>. QED
    BY <1>1, <1>7

(* Pop: the heap holds the first candle once less.                         *)
LEMMA PopRestores ==
  ASSUME NEW q \in Seq(FeedCandles), Ordered(q), q # <<>>
  PROVE  /\ Q!Popped(q) \in Seq(FeedCandles) /\ Ordered(Q!Popped(q))
         /\ Len(q) = Len(Q!Popped(q)) + 1
         /\ \A c : Occurrences(q, c) = Occurrences(Q!Popped(q), c) + (IF Head(q) = c THEN 1 ELSE 0)
  <1>0. Len(q) \in Nat /\ Len(q) >= 1 /\ Head(q) = q[1] /\ q[1] \in FeedCandles
    OBVIOUS
  <1>1. CASE Len(q) = 1
    <2>1. Q!Popped(q) = <<>>
      BY <1>1 DEF Q!Popped
    <2>2. q = Append(<<>>, Head(q)) /\ <<>> \in Seq(FeedCandles)
      BY <1>0, <1>1
    <2>3. \A c : Occurrences(Append(<<>>, Head(q)), c)
                   = Occurrences(<<>>, c) + (IF Head(q) = c THEN 1 ELSE 0)
      <3>1. PICK d \in Seq(FeedCandles) : d = <<>>
        BY EmptySeq
      <3>2. \A c : Occurrences(Append(d, Head(q)), c)
                     = Occurrences(d, c) + (IF Head(q) = c THEN 1 ELSE 0)
        BY <1>0, AppendOccurrences
      <3>. QED
        BY <3>1, <3>2
    <2>4. Ordered(<<>>) /\ Len(<<>>) = 0
      BY DEF Ordered
    <2>. QED
      BY <1>1, <2>1, <2>2, <2>3, <2>4
  <1>2. CASE Len(q) > 1
    <2> DEFINE n == Len(q)
               e == <<Last(q)>> \o Tail(Front(q))
    <2>1. /\ e \in Seq(FeedCandles) /\ Len(e) = n - 1 /\ n \in Nat
          /\ \A k \in 1..n - 1 : e[k] = IF k = 1 THEN q[n] ELSE q[k]
      <3>1. Front(q) \in Seq(FeedCandles) /\ Len(Front(q)) = n - 1
            /\ \A k \in 1..n - 1 : Front(q)[k] = q[k]
        BY <1>2 DEF Front
      <3>2. /\ Tail(Front(q)) \in Seq(FeedCandles) /\ Len(Tail(Front(q))) = n - 2
            /\ \A k \in 1..n - 2 : Tail(Front(q))[k] = q[k + 1]
        <4> DEFINE f == Front(q)
        <4>1. f \in Seq(FeedCandles) /\ Len(f) = n - 1 /\ f # <<>>
          BY <1>2, <3>1
        <4> HIDE DEF f
        <4>2. /\ Tail(f) \in Seq(FeedCandles) /\ Len(Tail(f)) = n - 2
              /\ \A k \in 1..n - 2 : Tail(f)[k] = f[k + 1]
          BY <4>1, HeadTailProperties
        <4>. QED
          BY <3>1, <4>2 DEF f
      <3>3. Last(q) = q[n] /\ q[n] \in FeedCandles
        BY <1>2 DEF Last
      <3> DEFINE t == Tail(Front(q))
      <3>5. e = <<Last(q)>> \o t
        OBVIOUS
      <3> HIDE DEF t, e
      <3>4. t \in Seq(FeedCandles) /\ Len(t) = n - 2 /\ \A k \in 1..n - 2 : t[k] = q[k + 1]
        BY <3>2 DEF t
      <3>. QED
        BY <1>2, <3>3, <3>4, <3>5
    <2> HIDE DEF e
    <2>2. Q!Swap(q, 1, n) = Append(e, Head(q))
      <3>1. Swapped(q, 1, n, Q!Swap(q, 1, n))
        BY <1>2, Swaps
      <3>2. Append(e, Head(q)) \in Seq(FeedCandles) /\ Len(Append(e, Head(q))) = n
        BY <1>0, <2>1
      <3>3. \A k \in 1..n : Q!Swap(q, 1, n)[k] = Append(e, Head(q))[k]
        BY <1>0, <1>2, <2>1, <3>1 DEF Swapped
      <3>4. Q!Swap(q, 1, n) \in Seq(FeedCandles) /\ Len(Q!Swap(q, 1, n)) = n
        BY <3>1 DEF Swapped
      <3>. QED
        BY <3>2, <3>3, <3>4, SeqEqual
    <2>3. \A c : Occurrences(q, c) = Occurrences(e, c) + (IF Head(q) = c THEN 1 ELSE 0)
      <3>1. \A c : Occurrences(Q!Swap(q, 1, n), c) = Occurrences(q, c)
        BY <1>2, SwapOccurrences
      <3>2. \A c : Occurrences(Append(e, Head(q)), c)
                     = Occurrences(e, c) + (IF Head(q) = c THEN 1 ELSE 0)
        BY <1>0, <2>1, AppendOccurrences
      <3>. QED
        BY <2>2, <3>1, <3>2
    <2>4. OrderedAbove(e, 1)
      <3> SUFFICES ASSUME NEW p \in 2..Len(e), p \div 2 # 1 PROVE ~Earlier(e[p], e[p \div 2])
        BY DEF OrderedAbove
      <3>1. p \in 2..n - 1 /\ p \div 2 \in 2..n - 1 /\ p \in 2..Len(q)
        BY <2>1
      <3>2. e[p] = q[p] /\ e[p \div 2] = q[p \div 2]
        BY <2>1, <3>1
      <3>. QED
        BY <3>1, <3>2 DEF Ordered
    <2>5. Rearranged(Q!Down(e, 1), e) /\ Ordered(Q!Down(e, 1))
      BY <1>2, <2>1, <2>4, DownRestores
    <2>6. Q!Popped(q) = Q!Down(e, 1)
      BY <1>0, <1>2 DEF Q!Popped, Q!Last, Q!Front, Last, Front, e
    <2>. QED
      BY <2>1, <2>3, <2>5, <2>6 DEF Rearranged
  <1>3. Len(q) = 1 \/ Len(q) > 1
    <2>1. PICK n \in Nat : n = Len(q) /\ n >= 1
      BY <1>0
    <2>. QED
      BY <2>1
  <1>. QED
    BY <1>1, <1>2, <1>3

(* No candle in the heap is earlier than the first.                        *)
LEMMA HeadIsLeast ==
  ASSUME NEW q \in Seq(FeedCandles), Ordered(q), NEW k \in 1..Len(q)
  PROVE  ~Earlier(q[k], q[1])
  <1> DEFINE B == {i \in 1..Len(q) : Earlier(q[i], q[1])}
  <1> SUFFICES ASSUME B # {} PROVE FALSE
    OBVIOUS
  <1>1. B \subseteq Nat
    OBVIOUS
  <1> HIDE DEF B
  <1>2. PICK i \in B : \A j \in B : i <= j
    BY <1>1, LeastNatural
  <1>3. i \in 1..Len(q) /\ Earlier(q[i], q[1])
    BY DEF B
  <1>4. \A j \in 1..Len(q) : q[j] \in Candle
    BY FeedTypes
  <1>5. i # 1
    BY <1>3, <1>4, EarlierOrder
  <1>6. i \div 2 \in 1..Len(q) /\ i \div 2 < i /\ i \in 2..Len(q) /\ 1 \in 1..Len(q)
    BY <1>3, <1>5
  <1>7. ~Earlier(q[i \div 2], q[1])
    BY <1>2, <1>3, <1>6 DEF B
  <1>8. ~Earlier(q[i], q[i \div 2])
    BY <1>6 DEF Ordered
  <1>9. q[i] \in Candle /\ q[i \div 2] \in Candle /\ q[1] \in Candle
    BY <1>3, <1>4, <1>6
  <1> HIDE DEF B
  <1>. QED
    BY <1>3, <1>7, <1>8, <1>9, EarlierOrder

LEMMA FromNothing == Q!FromSlice(<<>>) = <<>> /\ Ordered(<<>>) /\ <<>> \in Seq(FeedCandles)
  <1> DEFINE Table(h) == h = [i \in Nat |-> IF 2 * i > Len(<<>>) THEN <<>> ELSE Q!Down(h[i + 1], i)]
             h0 == [i \in Nat |-> IF 2 * i > 0 THEN <<>> ELSE Q!Down(<<>>, 0)]
             heap == CHOOSE h : Table(h)
  <1>1. Table(h0)
    OBVIOUS
  <1>2. Q!FromSlice(<<>>) = heap[1]
    BY DEF Q!FromSlice
  <1>3. \E h : Table(h)
    <2> HIDE DEF Table, h0
    <2>. QED
      BY <1>1
  <1>4. Table(heap)
    <2> HIDE DEF Table
    <2>. QED
      BY <1>3
  <1> HIDE DEF heap
  <1>5. heap[1] = <<>>
    BY <1>4
  <1>. QED
    BY <1>2, <1>5 DEF Ordered

-----------------------------------------------------------------------------
(***************************************************************************)
(* The types, the heap, and what the program has reached.                  *)
(***************************************************************************)

TypeOK ==
  /\ market \in Markets
  /\ queue \in Seq(FeedCandles)
  /\ fed \in [Pair -> Nat] /\ \A p \in Pair : fed[p] <= Len(Feed[p])
  /\ registered \in BOOLEAN /\ early \in Nat /\ notifying \in Nat
  /\ offered \subseteq FeedCandles
  /\ warm \in Seq(Candle)
  /\ rows \in [Pair -> Seq(Candle)]
  /\ ran \in [Pair -> Seq(Nat)]
  /\ done \in Seq(Candle)

(* A backtest starts no goroutine that pops, loads all candles before it   *)
(* processes one, and processes no candle before it has loaded them; only  *)
(* a backtest gets there.                                                  *)
PhaseOK ==
  /\ run \in {"preload", "load", "backtest", "returned", "pop", "receive"}
  /\ Backtest => /\ run \notin {"pop", "receive"}
                 /\ ~registered /\ notifying = 0 /\ offered = {} /\ warm = <<>>
                 /\ run \in {"preload", "load"} => done = <<>>
  /\ ~Backtest => run \in {"preload", "pop", "receive"}
  /\ run \in {"backtest", "returned"} => Loaded

Base == TypeOK /\ Ordered(queue) /\ PhaseOK /\ Backlog

LEMMA MarketTypes ==
  ASSUME market \in Markets, NEW p \in Pair
  PROVE  /\ Feed[p] \in Seq(Candle) /\ market.warm \in Seq(Candle)
         /\ \A i \in 1..Len(Feed[p]) : Feed[p][i] \in FeedCandles /\ Feed[p][i].pair = p
  <1>1. Feed[p] \in Seq(Candle) /\ market.warm \in Seq(Candle)
    BY MarketAssumption DEF Feed
  <1>2. DOMAIN Feed[p] = 1..Len(Feed[p])
    BY <1>1
  <1>3. \A i \in DOMAIN Feed[p] : Feed[p][i].pair = p
    BY MarketAssumption DEF Feed
  <1>4. \A i \in DOMAIN Feed[p] : Feed[p][i] \in ToSet(Feed[p])
    BY DEF ToSet
  <1>5. ToSet(Feed[p]) \subseteq FeedCandles
    BY DEF FeedCandles, Feed
  <1>. QED
    BY <1>1, <1>2, <1>3, <1>4, <1>5

LEMMA FeedIsTyped ==
  ASSUME market \in Markets, fed \in [Pair -> Nat], NEW p \in Pair, fed[p] < Len(Feed[p])
  PROVE  Feed[p][fed[p] + 1] \in FeedCandles /\ Feed[p][fed[p] + 1].pair = p
  <1>1. fed[p] + 1 \in 1..Len(Feed[p])
    <2>1. fed[p] \in Nat /\ Len(Feed[p]) \in Nat
      BY MarketTypes
    <2>. QED
      BY <2>1
  <1>. QED
    BY <1>1, MarketTypes

(* A candle that leaves the queue.                                         *)
LEMMA PopStep ==
  ASSUME queue \in Seq(FeedCandles), Ordered(queue), NEW c, Q!Pop(c)
  PROVE  /\ queue # <<>> /\ c = queue[1] /\ c \in FeedCandles /\ 1 \in 1..Len(queue)
         /\ queue' \in Seq(FeedCandles) /\ Ordered(queue')
         /\ Len(queue) = Len(queue') + 1
         /\ \A d : Occurrences(queue, d) = Occurrences(queue', d) + (IF c = d THEN 1 ELSE 0)
  <1>1. queue # <<>> /\ c = Head(queue) /\ queue' = Q!Popped(queue)
    BY DEF Q!Pop
  <1>2. Head(queue) = queue[1] /\ Head(queue) \in FeedCandles /\ 1 \in 1..Len(queue)
    BY <1>1
  <1>. QED
    BY <1>1, <1>2, PopRestores

(* A candle that a feed delivers.                                          *)
LEMMA FeedStep ==
  ASSUME TypeOK, Ordered(queue), NEW p \in Pair, FeedCandle(p),
         NEW x, x = Feed[p][fed[p] + 1]
  PROVE  /\ x \in FeedCandles /\ x.pair = p
         /\ queue' \in Seq(FeedCandles) /\ Ordered(queue')
         /\ Len(queue') = Len(queue) + 1
         /\ \A d : Occurrences(queue', d) = Occurrences(queue, d) + (IF x = d THEN 1 ELSE 0)
  <1>1. queue' = Q!Pushed(queue, x) /\ fed[p] < Len(Feed[p])
    BY DEF FeedCandle, Q!Push
  <1>2. x \in FeedCandles /\ x.pair = p
    BY <1>1, FeedIsTyped DEF TypeOK
  <1>3. queue \in Seq(FeedCandles)
    BY DEF TypeOK
  <1>4. /\ Q!Pushed(queue, x) \in Seq(FeedCandles) /\ Ordered(Q!Pushed(queue, x))
        /\ Len(Q!Pushed(queue, x)) = Len(queue) + 1
        /\ \A d : Occurrences(Q!Pushed(queue, x), d)
                    = Occurrences(queue, d) + (IF x = d THEN 1 ELSE 0)
    BY ONLY <1>2, <1>3, PushRestores, Ordered(queue)
  <1>. QED
    BY ONLY <1>1, <1>2, <1>4

(* What a candle does to a data frame.                                     *)
LEMMA FrameTypes ==
  ASSUME NEW frame \in Seq(Candle), NEW c \in Candle
  PROVE  /\ UpdateDataFrame(frame, c) \in Seq(Candle)
         /\ OnPartialCandle(frame, c) \in Seq(Candle)
  <1>1. frame # <<>> => Front(frame) \in Seq(Candle)
    BY DEF Front
  <1>2. UpdateDataFrame(frame, c) \in Seq(Candle)
    BY <1>1 DEF UpdateDataFrame
  <1>. QED
    BY <1>2 DEF OnPartialCandle

LEMMA StrategyTypes ==
  ASSUME rows \in [Pair -> Seq(Candle)], ran \in [Pair -> Seq(Nat)], done \in Seq(Candle),
         NEW c \in Candle, StrategyGets(c)
  PROVE  /\ rows' \in [Pair -> Seq(Candle)] /\ ran' \in [Pair -> Seq(Nat)]
         /\ done' \in Seq(Candle)
  <1>1. c.pair \in Pair /\ c.time \in Nat
    BY DEF Candle
  <1> DEFINE frame == OnPartialCandle(rows[c.pair], c)
  <1>2. frame \in Seq(Candle)
    BY <1>1, FrameTypes
  <1>3. /\ UpdateDataFrame(frame, c) \in Seq(Candle)
        /\ ran[c.pair] \in Seq(Nat)
    BY <1>1, <1>2, FrameTypes
  <1>4. /\ rows' = [rows EXCEPT ![c.pair] = IF c.complete /\ ~Late(frame, c)
                                            THEN UpdateDataFrame(frame, c) ELSE frame]
        /\ ran' = IF Runs(frame, c) THEN [ran EXCEPT ![c.pair] = Append(@, c.time)] ELSE ran
        /\ done' = Append(done, c)
    BY DEF StrategyGets
  <1> HIDE DEF frame
  <1>. QED
    BY <1>1, <1>2, <1>3, <1>4

LEMMA BaseInit == Init => Base
  <1> SUFFICES ASSUME Init PROVE Base
    OBVIOUS
  <1>1. market \in Markets /\ market.warm \in Seq(Candle)
    BY MarketAssumption DEF Init
  <1>2. queue = <<>> /\ queue \in Seq(FeedCandles) /\ Ordered(queue)
    BY FromNothing DEF Init
  <1>3. TypeOK
    <2>1. warm \in Seq(Candle) /\ done \in Seq(Candle)
      BY <1>1 DEF Init
    <2>2. rows \in [Pair -> Seq(Candle)] /\ ran \in [Pair -> Seq(Nat)] /\ fed \in [Pair -> Nat]
      BY DEF Init
    <2>3. \A p \in Pair : fed[p] = 0 /\ Len(Feed[p]) \in Nat
      BY <1>1, MarketTypes DEF Init
    <2>. QED
      <3>1. \A p \in Pair : fed[p] <= Len(Feed[p])
        BY <2>3
      <3>2. offered \subseteq FeedCandles /\ early = 0 /\ notifying = 0 /\ registered = FALSE
        BY DEF Init
      <3>. QED
        BY <1>1, <1>2, <2>1, <2>2, <3>1, <3>2 DEF TypeOK
  <1>4. PhaseOK
    BY <1>1 DEF Init, PhaseOK
  <1>5. Backlog
    <2>1. Len(queue) = 0
      BY <1>2
    <2>. QED
      BY <2>1 DEF Init, Backlog
  <1>. QED
    BY <1>2, <1>3, <1>4, <1>5 DEF Base

LEMMA BaseNext == Base /\ [Next]_vars => Base'
  <1> SUFFICES ASSUME Base, [Next]_vars PROVE Base'
    OBVIOUS
  <1> USE DEF Base
  <1>0. /\ TypeOK /\ PhaseOK /\ Backlog /\ queue \in Seq(FeedCandles) /\ Ordered(queue)
        /\ early \in Nat /\ notifying \in Nat /\ Len(queue) \in Nat /\ registered \in BOOLEAN
    BY DEF TypeOK
  <1>1. ASSUME market' = market, NEW p \in Pair, FeedCandle(p) PROVE Base'
    <2>1. PICK x : x = Feed[p][fed[p] + 1]
      OBVIOUS
    <2>2. /\ queue' \in Seq(FeedCandles) /\ Ordered(queue')
          /\ Len(queue') = Len(queue) + 1
      BY <1>0, <1>1, <2>1, FeedStep
    <2>3. TypeOK'
      <3>1. fed' \in [Pair -> Nat] /\ \A q \in Pair : fed'[q] <= Len(Feed'[q])
        <4>1. Len(Feed[p]) \in Nat /\ fed[p] \in Nat
          BY <1>0, MarketTypes DEF TypeOK
        <4>. QED
          BY <1>0, <1>1, <4>1 DEF TypeOK, FeedCandle, Feed
      <3>. QED
        BY <1>0, <1>1, <2>2, <3>1 DEF TypeOK, FeedCandle, Notifies
    <2>4. ~Loaded
      BY <1>0, <1>1 DEF TypeOK, FeedCandle, Loaded
    <2>5. PhaseOK'
      BY <1>0, <1>1, <2>4 DEF PhaseOK, FeedCandle, Loaded, Notifies, Backtest
    <2>6. Backlog'
      BY <1>0, <1>1, <2>2 DEF FeedCandle, Notifies, Backlog, Backtest
    <2>. QED
      BY <2>2, <2>3, <2>5, <2>6
  <1>2. ASSUME market' = market, NEW c, NotifyPops(c) PROVE Base'
    <2>1. /\ c \in FeedCandles
          /\ queue' \in Seq(FeedCandles) /\ Ordered(queue')
          /\ Len(queue) = Len(queue') + 1 /\ Len(queue') \in Nat
      <3>1. Q!Pop(c)
        BY <1>2 DEF NotifyPops
      <3>2. /\ c \in FeedCandles
            /\ queue' \in Seq(FeedCandles) /\ Ordered(queue')
            /\ Len(queue) = Len(queue') + 1
        BY <1>0, <3>1, PopStep
      <3>. QED
        BY <3>2
    <2>2. TypeOK'
      BY <1>0, <1>2, <2>1 DEF TypeOK, NotifyPops, Feed
    <2>3. PhaseOK'
      BY <1>0, <1>2 DEF PhaseOK, NotifyPops, Loaded, Backtest, Feed
    <2>4. Backlog'
      BY <1>0, <1>2, <2>1 DEF NotifyPops, Backlog, Backtest
    <2>. QED
      BY <2>1, <2>2, <2>3, <2>4
  <1>3. ASSUME market' = market, Preload PROVE Base'
    <2>1. Head(warm) \in Candle /\ Tail(warm) \in Seq(Candle)
      BY <1>0, <1>3 DEF TypeOK, Preload
    <2>2. /\ rows' \in [Pair -> Seq(Candle)] /\ ran' \in [Pair -> Seq(Nat)]
          /\ done' \in Seq(Candle)
      BY <1>0, <1>3, <2>1, StrategyTypes DEF TypeOK, Preload, processCandle
    <2>3. TypeOK'
      BY <1>0, <1>3, <2>1, <2>2 DEF TypeOK, Preload, Feed
    <2>4. PhaseOK' /\ Backlog' /\ Ordered(queue')
      BY <1>0, <1>3 DEF PhaseOK, Preload, Loaded, Backtest, Feed, Backlog
    <2>. QED
      BY <2>3, <2>4
  <1>4. ASSUME market' = market, StartFeeds PROVE Base'
    BY <1>0, <1>4 DEF StartFeeds, TypeOK, PhaseOK, Backlog, Backtest, Loaded, Feed
  <1>5. ASSUME market' = market, PopLock PROVE Base'
    BY <1>0, <1>5 DEF PopLock, TypeOK, PhaseOK, Backlog, Backtest, Loaded, Feed
  <1>6. ASSUME market' = market, NEW c \in offered, Receive(c) PROVE Base'
    <2>1. c \in Candle
      BY <1>0, FeedTypes DEF TypeOK
    <2>2. /\ rows' \in [Pair -> Seq(Candle)] /\ ran' \in [Pair -> Seq(Nat)]
          /\ done' \in Seq(Candle)
      BY <1>0, <1>6, <2>1, StrategyTypes DEF TypeOK, Receive, processCandle
    <2>3. TypeOK'
      BY <1>0, <1>6, <2>2 DEF TypeOK, Receive, Feed
    <2>4. PhaseOK' /\ Backlog' /\ Ordered(queue')
      BY <1>0, <1>6 DEF PhaseOK, Receive, Loaded, Backtest, Feed, Backlog
    <2>. QED
      BY <2>3, <2>4
  <1>7. ASSUME market' = market, BacktestBegins PROVE Base'
    BY <1>0, <1>7 DEF BacktestBegins, TypeOK, PhaseOK, Backlog, Backtest, Loaded, Feed
  <1>8. ASSUME market' = market, NEW c, BacktestCandle(c) PROVE Base'
    <2>1. /\ c \in FeedCandles
          /\ queue' \in Seq(FeedCandles) /\ Ordered(queue')
      <3>1. Q!Pop(c)
        BY <1>8 DEF BacktestCandle
      <3>. QED
        BY <1>0, <3>1, PopStep
    <2>2. /\ rows' \in [Pair -> Seq(Candle)] /\ ran' \in [Pair -> Seq(Nat)]
          /\ done' \in Seq(Candle)
      BY <1>0, <1>8, <2>1, StrategyTypes, FeedTypes DEF TypeOK, BacktestCandle
    <2>3. TypeOK'
      BY <1>0, <1>8, <2>1, <2>2 DEF TypeOK, BacktestCandle, Feed
    <2>4. PhaseOK' /\ Backlog'
      BY <1>0, <1>8 DEF PhaseOK, BacktestCandle, Loaded, Backtest, Feed, Backlog
    <2>. QED
      BY <2>1, <2>3, <2>4
  <1>9. ASSUME market' = market, BacktestEnds PROVE Base'
    BY <1>0, <1>9 DEF BacktestEnds, TypeOK, PhaseOK, Backlog, Backtest, Loaded, Feed
  <1>10. CASE UNCHANGED vars
    BY <1>0, <1>10 DEF vars, bot, TypeOK, PhaseOK, Backlog, Backtest, Loaded, Feed
  <1>. QED
    BY <1>1, <1>2, <1>3, <1>4, <1>5, <1>6, <1>7, <1>8, <1>9, <1>10 DEF Next, Main, Notify

(* Live, the queue holds one candle for each goroutine that has yet to     *)
(* pop, and as many more as were pushed before PopLock: no goroutine finds *)
(* the queue empty.                                                        *)
THEOREM BehindByTheEarly == Spec => []Backlog
  <1>1. Base => Backlog
    BY DEF Base
  <1>. QED
    BY BaseInit, BaseNext, <1>1, PTL DEF Spec

-----------------------------------------------------------------------------
(***************************************************************************)
(* Where each candle is.                                                   *)
(***************************************************************************)

(* What is somewhere was delivered or preloaded.                           *)
KnownOrigin ==
  /\ ToSet(warm) \subseteq ToSet(market.warm)
  /\ ToSet(queue) \subseteq Delivered
  /\ offered \subseteq Delivered
  /\ ToSet(done) \subseteq Delivered \cup ToSet(market.warm)

Located == KnownOrigin /\ NothingLostOrTwice

LEMMA MembersOf ==
  ASSUME NEW S, NEW d \in Seq(S)
  PROVE  \A c : Occurrences(d, c) \in Nat /\ (Occurrences(d, c) > 0 <=> c \in ToSet(d))
  BY OccurrencesType

LEMMA AppendSet ==
  ASSUME NEW S, NEW d \in Seq(S), NEW x \in S
  PROVE  ToSet(Append(d, x)) = ToSet(d) \cup {x}
  <1>1. /\ DOMAIN Append(d, x) = 1..Len(d) + 1 /\ DOMAIN d = 1..Len(d) /\ Len(d) \in Nat
        /\ \A i \in 1..Len(d) : Append(d, x)[i] = d[i]
        /\ Append(d, x)[Len(d) + 1] = x
    OBVIOUS
  <1>2. ToSet(Append(d, x)) \subseteq ToSet(d) \cup {x}
    BY <1>1 DEF ToSet
  <1>3. ToSet(d) \cup {x} \subseteq ToSet(Append(d, x))
    BY <1>1 DEF ToSet
  <1>. QED
    BY <1>2, <1>3

LEMMA TailSet ==
  ASSUME NEW S, NEW d \in Seq(S), d # <<>>
  PROVE  Head(d) \in ToSet(d) /\ ToSet(Tail(d)) \subseteq ToSet(d)
  BY DEF ToSet

LEMMA DeliveredMembers ==
  ASSUME TypeOK, NEW c
  PROVE  /\ c \in Delivered <=> \E p \in Pair : \E i \in 1..fed[p] : c = Feed[p][i]
         /\ \A p \in Pair : \A i \in 1..fed[p] : i \in DOMAIN Feed[p] /\ Feed[p][i].pair = p
  <1>1. \A p \in Pair : fed[p] \in Nat /\ Len(Feed[p]) \in Nat
    BY MarketTypes DEF TypeOK
  <1>2. \A p \in Pair : \A i \in 1..fed[p] : i \in 1..Len(Feed[p])
    BY <1>1 DEF TypeOK
  <1>3. \A p \in Pair : DOMAIN Feed[p] = 1..Len(Feed[p])
    BY MarketTypes DEF TypeOK
  <1>4. \A p \in Pair : \A i \in 1..Len(Feed[p]) : Feed[p][i].pair = p
    BY MarketTypes DEF TypeOK
  <1>. QED
    BY <1>2, <1>3, <1>4 DEF Delivered

(* What was delivered was not preloaded, and is not delivered again.       *)
LEMMA NotPreloaded ==
  ASSUME TypeOK, NEW c \in Delivered
  PROVE  c \notin ToSet(market.warm)
  <1>1. PICK p \in Pair : \E i \in 1..fed[p] : c = Feed[p][i] /\ i \in DOMAIN Feed[p]
    BY DeliveredMembers
  <1>. QED
    BY <1>1, OnceAssumption DEF Feed, TypeOK

LEMMA NextDelivered ==
  ASSUME TypeOK, NEW p \in Pair, fed[p] < Len(Feed[p]), market' = market,
         fed' = [fed EXCEPT ![p] = @ + 1], NEW x, x = Feed[p][fed[p] + 1]
  PROVE  /\ Delivered' = Delivered \cup {x}
         /\ x \notin Delivered /\ x \notin ToSet(market.warm)
  <1>1. fed[p] \in Nat /\ Len(Feed[p]) \in Nat /\ fed[p] + 1 \in DOMAIN Feed[p]
    BY MarketTypes DEF TypeOK
  <1>2. x.pair = p
    BY FeedIsTyped DEF TypeOK
  <1>3. x \notin Delivered
    <2> SUFFICES ASSUME x \in Delivered PROVE FALSE
      OBVIOUS
    <2>1. PICK q \in Pair : \E i \in 1..fed[q] :
                          x = Feed[q][i] /\ i \in DOMAIN Feed[q] /\ x.pair = q
      BY DeliveredMembers
    <2>2. PICK i \in 1..fed[p] : x = Feed[p][i] /\ i \in DOMAIN Feed[p]
      BY <1>2, <2>1
    <2>3. i # fed[p] + 1
      BY <1>1, <2>2
    <2>. QED
      BY <1>1, <2>2, <2>3, OnceAssumption DEF Feed, TypeOK
  <1>4. x \notin ToSet(market.warm)
    BY <1>1, OnceAssumption DEF Feed, TypeOK
  <1>5. \A q \in Pair : fed'[q] = IF q = p THEN fed[p] + 1 ELSE fed[q]
    BY DEF TypeOK
  <1>6. \A q \in Pair : {Feed[q][i] : i \in 1..fed'[q]}
                         = {Feed[q][i] : i \in 1..fed[q]} \cup (IF q = p THEN {x} ELSE {})
    <2> SUFFICES ASSUME NEW q \in Pair
                 PROVE  {Feed[q][i] : i \in 1..fed'[q]}
                         = {Feed[q][i] : i \in 1..fed[q]} \cup (IF q = p THEN {x} ELSE {})
      OBVIOUS
    <2>1. CASE q = p
      <3>1. 1..fed'[q] = 1..fed[p] \cup {fed[p] + 1}
        BY <1>1, <1>5, <2>1
      <3>. QED
        BY <2>1, <3>1
    <2>2. CASE q # p
      BY <1>5, <2>2
    <2>. QED
      BY <2>1, <2>2
  <1>7. Delivered' = UNION {{Feed[q][i] : i \in 1..fed'[q]} : q \in Pair}
    BY DEF Delivered, Feed
  <1>8. Delivered' = Delivered \cup {x}
    <2>1. \A c : c \in Delivered' <=> \E q \in Pair : c \in {Feed[q][i] : i \in 1..fed'[q]}
      BY <1>7
    <2>2. \A c : c \in Delivered <=> \E q \in Pair : c \in {Feed[q][i] : i \in 1..fed[q]}
      BY DEF Delivered
    <2> DEFINE now(q) == {Feed[q][i] : i \in 1..fed[q]}
               next(q) == {Feed[q][i] : i \in 1..fed'[q]}
    <2>4. \A q \in Pair : next(q) = now(q) \cup (IF q = p THEN {x} ELSE {})
      BY <1>6
    <2>5. /\ \A c : c \in Delivered' <=> \E q \in Pair : c \in next(q)
          /\ \A c : c \in Delivered <=> \E q \in Pair : c \in now(q)
      BY <2>1, <2>2
    <2> HIDE DEF now, next
    <2>3. \A c : c \in Delivered' <=> c \in Delivered \/ c = x
      BY <2>4, <2>5
    <2>. QED
      BY <2>3
  <1>. QED
    BY <1>3, <1>4, <1>8

(* The ways of a candle: a feed delivers it, a goroutine pops it, Run      *)
(* receives it, preload or a backtest processes it; or none moves.         *)
LEMMA NextMoves ==
  ASSUME [Next]_vars
  PROVE  /\ market' = market
         /\ \/ \E p \in Pair : FeedCandle(p)
            \/ \E c : NotifyPops(c)
            \/ Preload
            \/ \E c \in offered : Receive(c)
            \/ \E c : BacktestCandle(c)
            \/ UNCHANGED <<queue, fed, offered, warm, rows, ran, done>>
  <1>1. CASE UNCHANGED vars
    BY <1>1 DEF vars, bot
  <1>2. CASE Next
    BY <1>2 DEF Next, Main, Notify, StartFeeds, PopLock, BacktestBegins, BacktestEnds
  <1>. QED
    BY <1>1, <1>2

LEMMA LocatedInit == Init => Located
  <1> SUFFICES ASSUME Init PROVE Located
    OBVIOUS
  <1>1. queue = <<>> /\ done = <<>> /\ offered = {}
    BY FromNothing DEF Init
  <1>2. Delivered = {}
    BY DEF Init, Delivered
  <1>3. ToSet(<<>>) = {}
    BY DEF ToSet
  <1>4. ToSet(warm) \subseteq ToSet(market.warm)
    BY <1>3 DEF Init
  <1>. QED
    BY <1>1, <1>2, <1>3, <1>4 DEF Located, KnownOrigin, NothingLostOrTwice

LEMMA LocatedNext == Base /\ Base' /\ Located /\ [Next]_vars => Located'
  <1> SUFFICES ASSUME Base, Base', Located, [Next]_vars PROVE Located'
    OBVIOUS
  <1>0. /\ TypeOK /\ Ordered(queue) /\ KnownOrigin /\ market' = market
        /\ queue \in Seq(FeedCandles) /\ queue' \in Seq(FeedCandles)
        /\ done \in Seq(Candle) /\ done' \in Seq(Candle) /\ offered \subseteq FeedCandles
        /\ warm \in Seq(Candle)
    BY NextMoves DEF Base, TypeOK, Located
  <1> DEFINE onOffer(c) == IF c \in offered THEN 1 ELSE 0
  <1>1. \A c \in Delivered : Occurrences(queue, c) + Occurrences(done, c) + onOffer(c) = 1
    BY DEF Located, NothingLostOrTwice
  <1>2. /\ \A c : Occurrences(queue, c) \in Nat
                    /\ (Occurrences(queue, c) > 0 <=> c \in ToSet(queue))
        /\ \A c : Occurrences(queue', c) \in Nat
                    /\ (Occurrences(queue', c) > 0 <=> c \in ToSet(queue'))
        /\ \A c : Occurrences(done, c) \in Nat /\ (Occurrences(done, c) > 0 <=> c \in ToSet(done))
    BY <1>0, MembersOf
  <1>3. ASSUME NEW x, x \in Candle, done' = Append(done, x)
        PROVE  /\ ToSet(done') = ToSet(done) \cup {x}
               /\ \A c : Occurrences(done', c) = Occurrences(done, c) + (IF x = c THEN 1 ELSE 0)
    BY <1>0, <1>3, AppendSet, AppendOccurrences
  <1>4. ASSUME fed' = fed PROVE Delivered' = Delivered
    BY <1>0, <1>4 DEF Delivered, Feed
  <1>5. ASSUME NEW p \in Pair, FeedCandle(p) PROVE Located'
    <2>1. PICK x : x = Feed[p][fed[p] + 1]
      OBVIOUS
    <2>2. \A c : Occurrences(queue', c) = Occurrences(queue, c) + (IF x = c THEN 1 ELSE 0)
      BY <1>0, <1>5, <2>1, FeedStep
    <2>3. /\ fed[p] < Len(Feed[p]) /\ fed' = [fed EXCEPT ![p] = @ + 1]
          /\ offered' = offered /\ warm' = warm /\ done' = done
      BY <1>5 DEF FeedCandle
    <2>4. /\ Delivered' = Delivered \cup {x}
          /\ x \notin Delivered /\ x \notin ToSet(market.warm)
      BY <1>0, <2>1, <2>3, NextDelivered
    <2>5. KnownOrigin'
      <3>1. ToSet(queue') \subseteq ToSet(queue) \cup {x}
        BY <1>2, <2>2
      <3>. QED
        BY <1>0, <2>3, <2>4, <3>1 DEF KnownOrigin
    <2>6. NothingLostOrTwice'
      <3> SUFFICES ASSUME NEW c \in Delivered'
                   PROVE  Occurrences(queue', c) + Occurrences(done', c)
                            + (IF c \in offered' THEN 1 ELSE 0) = 1
        BY DEF NothingLostOrTwice
      <3>1. CASE c = x
        <4>1. x \notin ToSet(queue) /\ x \notin ToSet(done) /\ x \notin offered
          BY <1>0, <2>4 DEF KnownOrigin
        <4>2. Occurrences(queue, x) = 0 /\ Occurrences(done, x) = 0
          BY <1>2, <4>1
        <4>. QED
          BY <2>2, <2>3, <3>1, <4>1, <4>2
      <3>2. CASE c # x
        BY <1>1, <1>2, <2>2, <2>3, <2>4, <3>2
      <3>. QED
        BY <3>1, <3>2
    <2>. QED
      BY <2>5, <2>6 DEF Located
  <1>6. ASSUME NEW x, NotifyPops(x) PROVE Located'
    <2>1. /\ x \in FeedCandles
          /\ \A c : Occurrences(queue, c) = Occurrences(queue', c) + (IF x = c THEN 1 ELSE 0)
      BY <1>0, <1>6, PopStep DEF NotifyPops
    <2>2. offered' = offered \cup {x} /\ fed' = fed /\ warm' = warm /\ done' = done
      BY <1>6 DEF NotifyPops
    <2>3. x \in ToSet(queue) /\ ToSet(queue') \subseteq ToSet(queue)
      BY <1>2, <2>1
    <2>4. KnownOrigin'
      BY <1>0, <1>4, <2>2, <2>3 DEF KnownOrigin
    <2>5. x \notin offered
      BY <1>0, <1>1, <1>2, <2>3 DEF KnownOrigin
    <2>6. NothingLostOrTwice'
      <3> SUFFICES ASSUME NEW c \in Delivered
                   PROVE  Occurrences(queue', c) + Occurrences(done', c)
                            + (IF c \in offered' THEN 1 ELSE 0) = 1
        BY <1>4, <2>2 DEF NothingLostOrTwice
      <3>. QED
        BY <1>1, <1>2, <2>1, <2>2, <2>5
    <2>. QED
      BY <2>4, <2>6 DEF Located
  <1>7. CASE Preload
    <2>1. /\ warm # <<>> /\ done' = Append(done, Head(warm)) /\ warm' = Tail(warm)
          /\ UNCHANGED <<queue, fed, offered>>
      BY <1>7 DEF Preload, processCandle, StrategyGets
    <2>2. PICK x : x = Head(warm)
      OBVIOUS
    <2>3. /\ x \in Candle /\ x \in ToSet(warm) /\ ToSet(warm') \subseteq ToSet(warm)
          /\ done' = Append(done, x)
      BY <1>0, <2>1, <2>2, TailSet
    <2>4. /\ ToSet(done') = ToSet(done) \cup {x}
          /\ \A c : Occurrences(done', c) = Occurrences(done, c) + (IF x = c THEN 1 ELSE 0)
      BY <1>3, <2>3
    <2>5. KnownOrigin'
      BY <1>0, <1>4, <2>1, <2>3, <2>4 DEF KnownOrigin
    <2>6. x \notin Delivered
      BY <1>0, <2>3, NotPreloaded DEF KnownOrigin
    <2>7. NothingLostOrTwice'
      BY <1>1, <1>2, <1>4, <2>1, <2>4, <2>6 DEF NothingLostOrTwice
    <2>. QED
      BY <2>5, <2>7 DEF Located
  <1>8. ASSUME NEW x \in offered, Receive(x) PROVE Located'
    <2>1. /\ offered' = offered \ {x} /\ done' = Append(done, x)
          /\ UNCHANGED <<queue, fed, warm>>
      BY <1>8 DEF Receive, processCandle, StrategyGets
    <2>2. x \in Candle
      BY <1>0, FeedTypes
    <2>3. /\ ToSet(done') = ToSet(done) \cup {x}
          /\ \A c : Occurrences(done', c) = Occurrences(done, c) + (IF x = c THEN 1 ELSE 0)
      BY <1>3, <2>1, <2>2
    <2>4. KnownOrigin'
      BY <1>0, <1>4, <2>1, <2>3 DEF KnownOrigin
    <2>5. NothingLostOrTwice'
      <3> SUFFICES ASSUME NEW c \in Delivered
                   PROVE  Occurrences(queue', c) + Occurrences(done', c)
                            + (IF c \in offered' THEN 1 ELSE 0) = 1
        BY <1>4, <2>1 DEF NothingLostOrTwice
      <3>. QED
        BY <1>1, <1>2, <1>8, <2>1, <2>3
    <2>. QED
      BY <2>4, <2>5 DEF Located
  <1>9. ASSUME NEW x, BacktestCandle(x) PROVE Located'
    <2>1. /\ x \in FeedCandles
          /\ \A c : Occurrences(queue, c) = Occurrences(queue', c) + (IF x = c THEN 1 ELSE 0)
      BY <1>0, <1>9, PopStep DEF BacktestCandle
    <2>2. done' = Append(done, x) /\ UNCHANGED <<offered, fed, warm>>
      BY <1>9 DEF BacktestCandle, StrategyGets
    <2>3. x \in ToSet(queue) /\ ToSet(queue') \subseteq ToSet(queue) /\ x \in Candle
      BY <1>2, <2>1, FeedTypes
    <2>4. /\ ToSet(done') = ToSet(done) \cup {x}
          /\ \A c : Occurrences(done', c) = Occurrences(done, c) + (IF x = c THEN 1 ELSE 0)
      BY <1>3, <2>2, <2>3
    <2>5. KnownOrigin'
      BY <1>0, <1>4, <2>2, <2>3, <2>4 DEF KnownOrigin
    <2>6. NothingLostOrTwice'
      <3> SUFFICES ASSUME NEW c \in Delivered
                   PROVE  Occurrences(queue', c) + Occurrences(done', c)
                            + (IF c \in offered' THEN 1 ELSE 0) = 1
        BY <1>4, <2>2 DEF NothingLostOrTwice
      <3>. QED
        BY <1>1, <1>2, <2>1, <2>2, <2>4
    <2>. QED
      BY <2>5, <2>6 DEF Located
  <1>10. CASE UNCHANGED <<queue, fed, offered, warm, rows, ran, done>>
    <2>1. Delivered' = Delivered /\ UNCHANGED <<queue, offered, warm, done>>
      BY <1>4, <1>10
    <2>. QED
      BY <1>0, <2>1 DEF Located, KnownOrigin, NothingLostOrTwice
  <1>. QED
    BY <1>5, <1>6, <1>7, <1>8, <1>9, <1>10, NextMoves

(* A candle that a feed delivered is in the queue, on offer or processed,  *)
(* and in one of these places once: neither the heap nor the goroutines    *)
(* lose or duplicate one.                                                  *)
THEOREM EveryCandleIsSomewhere == Spec => []NothingLostOrTwice
  <1>1. Located => NothingLostOrTwice
    BY DEF Located
  <1>2. Init => Base /\ Located
    BY BaseInit, LocatedInit
  <1>3. (Base /\ Located) /\ [Next]_vars => (Base /\ Located)'
    BY BaseNext, LocatedNext
  <1>. QED
    BY <1>1, <1>2, <1>3, PTL DEF Spec

-----------------------------------------------------------------------------
(***************************************************************************)
(* The order in which candles are processed.                               *)
(***************************************************************************)

(* What a backtest has yet to process is not earlier than what it has.     *)
NoneBelated ==
  Backtest => \A k \in 1..Len(queue), i \in 1..Len(done) : ~Earlier(queue[k], done[i])

(* The last row is no earlier than the last candle traded on, which was    *)
(* delivered and processed.                                                *)
Traded(p) ==
  /\ ran[p] # <<>> => rows[p] # <<>> /\ Last(ran[p]) <= Last(rows[p]).time
  /\ \A i \in 1..Len(ran[p]) : \E c \in ToSet(done) \cap Delivered :
       c.complete /\ c.pair = p /\ c.time = ran[p][i]

Times(frame) == [i \in DOMAIN frame |-> frame[i].time]

FramesInOrder ==
  Backtest \/ ~HighFrequency =>
    \A p \in Pair :
      /\ StrictlyAscending(ran[p]) /\ StrictlyAscending(Times(rows[p]))
      /\ Traded(p)
      /\ Backtest => ToSet(rows[p]) \subseteq ToSet(done)

LEMMA BelatedInit == Init => Chronological /\ NoneBelated
  BY DEF Init, Chronological, NoneBelated

LEMMA BelatedNext ==
  Base /\ Base' /\ Chronological /\ NoneBelated /\ [Next]_vars => Chronological' /\ NoneBelated'
  <1> SUFFICES ASSUME Base, Base', Chronological, NoneBelated, [Next]_vars, Backtest
               PROVE  /\ \A i, j \in DOMAIN done' : i < j => ~Earlier(done'[j], done'[i])
                      /\ \A k \in 1..Len(queue'), i \in 1..Len(done') :
                           ~Earlier(queue'[k], done'[i])
    BY NextMoves DEF Chronological, NoneBelated, Backtest
  <1>0. /\ TypeOK /\ Ordered(queue)
        /\ queue \in Seq(FeedCandles) /\ queue' \in Seq(FeedCandles) /\ done \in Seq(Candle)
        /\ offered = {} /\ notifying = 0 /\ warm = <<>>
        /\ run \in {"preload", "load"} => done = <<>>
        /\ run \in {"preload", "load"} \/ Loaded
    BY DEF Base, TypeOK, PhaseOK
  <1>1. /\ \A i, j \in DOMAIN done : i < j => ~Earlier(done[j], done[i])
        /\ \A k \in 1..Len(queue), i \in 1..Len(done) : ~Earlier(queue[k], done[i])
    BY DEF Chronological, NoneBelated
  <1>2. ASSUME NEW p \in Pair, FeedCandle(p) PROVE done' = <<>>
    <2>1. ~Loaded
      BY <1>0, <1>2 DEF TypeOK, FeedCandle, Loaded
    <2>. QED
      BY <1>0, <1>2, <2>1 DEF FeedCandle
  <1>3. ~(\E c : NotifyPops(c)) /\ ~Preload /\ ~(\E c \in offered : Receive(c))
    BY <1>0 DEF NotifyPops, Preload
  <1>4. ASSUME NEW x, BacktestCandle(x)
        PROVE  /\ \A i, j \in DOMAIN done' : i < j => ~Earlier(done'[j], done'[i])
               /\ \A k \in 1..Len(queue'), i \in 1..Len(done') :
                    ~Earlier(queue'[k], done'[i])
    <2>1. /\ x = queue[1] /\ x \in FeedCandles /\ 1 \in 1..Len(queue)
          /\ \A c : Occurrences(queue, c) = Occurrences(queue', c) + (IF x = c THEN 1 ELSE 0)
      BY <1>0, <1>4, PopStep DEF BacktestCandle
    <2>2. done' = Append(done, x)
      BY <1>4 DEF BacktestCandle, StrategyGets
    <2>3. x \in Candle
      BY <2>1, FeedTypes
    <2>4. /\ DOMAIN done' = 1..Len(done') /\ Len(done') = Len(done) + 1 /\ Len(done) \in Nat
          /\ \A i \in 1..Len(done) : done'[i] = done[i]
          /\ done'[Len(done) + 1] = x /\ DOMAIN done = 1..Len(done)
      BY <1>0, <2>2, <2>3
    <2>5. \A k \in 1..Len(queue') : \E j \in 1..Len(queue) : queue'[k] = queue[j]
      <3>1. \A c : Occurrences(queue', c) \in Nat
                     /\ (Occurrences(queue', c) > 0 <=> c \in ToSet(queue'))
        BY <1>0, MembersOf
      <3>2. \A c : Occurrences(queue, c) \in Nat
                     /\ (Occurrences(queue, c) > 0 <=> c \in ToSet(queue))
        BY <1>0, MembersOf
      <3>3. ToSet(queue') \subseteq ToSet(queue)
        BY <2>1, <3>1, <3>2
      <3>4. DOMAIN queue = 1..Len(queue) /\ DOMAIN queue' = 1..Len(queue')
        BY <1>0
      <3>. QED
        BY <3>3, <3>4 DEF ToSet
    <2>6. ASSUME NEW i \in 1..Len(done'), NEW j \in 1..Len(done'), i < j
          PROVE  ~Earlier(done'[j], done'[i])
      <3>1. i \in 1..Len(done) /\ (j \in 1..Len(done) \/ j = Len(done) + 1)
        BY <2>4, <2>6
      <3>. QED
        BY <1>1, <2>1, <2>4, <2>6, <3>1
    <2>7. ASSUME NEW k \in 1..Len(queue'), NEW i \in 1..Len(done')
          PROVE  ~Earlier(queue'[k], done'[i])
      <3>1. PICK j \in 1..Len(queue) : queue'[k] = queue[j]
        BY <2>5
      <3>2. CASE i \in 1..Len(done)
        BY <1>1, <2>4, <3>1, <3>2
      <3>3. CASE i = Len(done) + 1
        <4>1. ~Earlier(queue[j], queue[1])
          BY <1>0, HeadIsLeast
        <4>. QED
          BY <2>1, <2>4, <3>1, <3>3, <4>1
      <3>4. i \in 1..Len(done) \/ i = Len(done) + 1
        BY <2>4
      <3>. QED
        BY <3>2, <3>3, <3>4
    <2>. QED
      BY <2>4, <2>6, <2>7
  <1>5. CASE UNCHANGED <<queue, fed, offered, warm, rows, ran, done>>
    BY <1>1, <1>5
  <1>6. CASE \E p \in Pair : FeedCandle(p)
    <2>1. done' = <<>>
      BY <1>2, <1>6
    <2>. QED
      BY <2>1
  <1>. QED
    BY <1>3, <1>4, <1>5, <1>6, NextMoves

LEMMA AppendAscends ==
  ASSUME NEW s \in Seq(Nat), StrictlyAscending(s), NEW t \in Nat, s # <<>> => Last(s) < t
  PROVE  StrictlyAscending(Append(s, t))
  BY DEF StrictlyAscending, Last

(* A row that is not too old.                                              *)
LEMMA RowAscends ==
  ASSUME NEW frame \in Seq(Candle), StrictlyAscending(Times(frame)), NEW c \in Candle,
         frame # <<>> => Last(frame).time <= c.time,
         NEW f, f = UpdateDataFrame(frame, c)
  PROVE  /\ f \in Seq(Candle) /\ StrictlyAscending(Times(f))
         /\ f # <<>> /\ Last(f) = c /\ ToSet(f) \subseteq ToSet(frame) \cup {c}
  <1>1. PICK n \in Nat : n = Len(frame)
    OBVIOUS
  <1>2. /\ \A i \in 1..n : frame[i] \in Candle /\ frame[i].time \in Nat
        /\ c.time \in Nat
        /\ \A i \in 2..n : frame[i - 1].time < frame[i].time
        /\ n > 0 => frame[n].time <= c.time
    <2>1. \A i \in 1..n : frame[i] \in Candle /\ frame[i].time \in Nat
      BY <1>1, FeedTypes
    <2>2. \A i \in 1..n : Times(frame)[i] = frame[i].time
      BY <1>1 DEF Times
    <2>3. Len(Times(frame)) = n
      BY <1>1 DEF Times
    <2>4. \A i \in 2..n : i - 1 \in 1..n /\ i \in 1..n
      OBVIOUS
    <2>5. \A i \in 2..n : frame[i - 1].time < frame[i].time
      BY <2>2, <2>3, <2>4 DEF StrictlyAscending
    <2>6. n > 0 => frame[n].time <= c.time
      BY <1>1 DEF Last
    <2>7. c.time \in Nat
      BY FeedTypes
    <2>. QED
      BY <2>1, <2>5, <2>6, <2>7
  <1>3. PICK m \in Nat : /\ m = n \/ m = n + 1
                         /\ m > 0 /\ (m = n => frame[n].time = c.time)
                         /\ (m = n + 1 => (n > 0 => frame[n].time # c.time))
                         /\ f \in Seq(Candle) /\ Len(f) = m
                         /\ \A i \in 1..m - 1 : f[i] = frame[i]
                         /\ f[m] = c
    <2>1. CASE frame # <<>> /\ Last(frame).time = c.time
      <3>1. f = Append(Front(frame), c)
        BY <2>1 DEF UpdateDataFrame
      <3>2. n > 0 /\ frame[n].time = c.time
        BY <1>1, <2>1 DEF Last
      <3>3. /\ Front(frame) \in Seq(Candle) /\ Len(Front(frame)) = n - 1
            /\ \A i \in 1..n - 1 : Front(frame)[i] = frame[i]
        BY <1>1, <3>2 DEF Front
      <3>4. f \in Seq(Candle) /\ Len(f) = n /\ f[n] = c /\ \A i \in 1..n - 1 : f[i] = frame[i]
        BY <3>1, <3>2, <3>3
      <3>. QED
        BY <3>2, <3>4
    <2>2. CASE ~(frame # <<>> /\ Last(frame).time = c.time)
      <3>1. f = Append(frame, c)
        BY <2>2 DEF UpdateDataFrame
      <3>2. n > 0 => frame[n].time # c.time
        BY <1>1, <2>2 DEF Last
      <3>3. /\ f \in Seq(Candle) /\ Len(f) = n + 1 /\ f[n + 1] = c
            /\ \A i \in 1..(n + 1) - 1 : f[i] = frame[i]
        BY <1>1, <3>1
      <3>. QED
        BY <3>2, <3>3
    <2>. QED
      BY <2>1, <2>2
  <1>4. DOMAIN f = 1..m /\ DOMAIN frame = 1..n
    BY <1>1, <1>3
  <1>5. StrictlyAscending(Times(f))
    <2>1. Len(Times(f)) = m /\ \A i \in 1..m : Times(f)[i] = f[i].time
      BY <1>3, <1>4 DEF Times
    <2>2. ASSUME NEW i \in 2..m PROVE f[i - 1].time < f[i].time
      <3>1. CASE i = m
        <4>1. f[i] = c /\ f[i - 1] = frame[m - 1] /\ m - 1 \in 1..n
          BY <1>3, <3>1
        <4>2. CASE m = n
          <5>1. frame[m - 1].time < frame[m].time
            BY <1>2, <3>1, <4>2
          <5>. QED
            BY <1>3, <4>1, <4>2, <5>1
        <4>3. CASE m = n + 1
          <5>1. m - 1 = n /\ n > 0
            BY <3>1, <4>3
          <5>2. frame[n].time \in Nat /\ frame[n].time <= c.time /\ frame[n].time # c.time
            BY <1>2, <1>3, <4>3, <5>1
          <5>. QED
            BY <1>2, <4>1, <5>1, <5>2
        <4>. QED
          BY <1>3, <4>2, <4>3
      <3>2. CASE i # m
        <4>1. f[i] = frame[i] /\ f[i - 1] = frame[i - 1] /\ i \in 2..n
          BY <1>3, <3>2
        <4>. QED
          BY <1>2, <4>1
      <3>. QED
        BY <3>1, <3>2
    <2>3. \A i \in 2..m : i - 1 \in 1..m /\ i \in 1..m
      OBVIOUS
    <2>. QED
      BY <2>1, <2>2, <2>3 DEF StrictlyAscending
  <1>6. f # <<>> /\ Last(f) = c
    BY <1>3 DEF Last
  <1>7. ToSet(f) \subseteq ToSet(frame) \cup {c}
    <2>1. \A i \in 1..m : f[i] = c \/ \E j \in 1..n : f[i] = frame[j]
      BY <1>3
    <2>. QED
      BY <1>4, <2>1 DEF ToSet
  <1>. QED
    BY <1>3, <1>5, <1>6, <1>7

(* A candle that was processed is not delivered, queued or on offer again. *)
LEMMA NotTradedTwice ==
  ASSUME Base, Located, NEW p \in Pair, Traded(p), ran[p] # <<>>,
         NEW x \in Delivered, x \notin ToSet(done), x.complete, x.pair = p
  PROVE  Last(ran[p]) # x.time
  <1> SUFFICES ASSUME Last(ran[p]) = x.time PROVE FALSE
    OBVIOUS
  <1>0. TypeOK
    BY DEF Base
  <1>1. Len(ran[p]) \in 1..Len(ran[p]) /\ Last(ran[p]) = ran[p][Len(ran[p])]
    <2>1. ran[p] \in Seq(Nat)
      BY <1>0 DEF TypeOK
    <2>. QED
      BY <2>1 DEF Last
  <1>2. PICK c \in ToSet(done) \cap Delivered : c.complete /\ c.pair = p /\ c.time = x.time
    BY <1>1 DEF Traded
  <1>3. \A d \in Delivered : d.pair = p => \E i \in DOMAIN Feed[p] : d = Feed[p][i]
    BY <1>0, DeliveredMembers
  <1>4. PICK i \in DOMAIN Feed[p] : c = Feed[p][i]
    BY <1>2, <1>3
  <1>5. PICK j \in DOMAIN Feed[p] : x = Feed[p][j]
    BY <1>3
  <1>6. i = j
    BY <1>0, <1>2, <1>4, <1>5, OnceAssumption DEF Feed, TypeOK
  <1>. QED
    BY <1>2, <1>4, <1>5, <1>6

(* A candle that is processed leaves the frames in order.                  *)
LEMMA FramesStep ==
  ASSUME Base, Located, FramesInOrder, Backtest \/ ~HighFrequency, market' = market,
         Delivered' = Delivered,
         NEW x \in Candle, StrategyGets(x),
         run # "preload" => x \in Delivered /\ x \notin ToSet(done),
         Backtest /\ rows[x.pair] # <<>> => Last(rows[x.pair]).time <= x.time
  PROVE  FramesInOrder'
  <1> SUFFICES ASSUME NEW q \in Pair
               PROVE  /\ StrictlyAscending(ran'[q]) /\ StrictlyAscending(Times(rows'[q]))
                      /\ Traded(q)'
                      /\ Backtest => ToSet(rows'[q]) \subseteq ToSet(done')
    BY DEF FramesInOrder, Backtest
  <1>0. /\ TypeOK /\ x.pair \in Pair /\ x.time \in Nat
        /\ rows \in [Pair -> Seq(Candle)] /\ ran \in [Pair -> Seq(Nat)] /\ done \in Seq(Candle)
        /\ rows[q] \in Seq(Candle) /\ ran[q] \in Seq(Nat)
    BY DEF Base, TypeOK, Candle
  <1>1. /\ StrictlyAscending(ran[q]) /\ StrictlyAscending(Times(rows[q]))
        /\ Traded(q)
        /\ Backtest => ToSet(rows[q]) \subseteq ToSet(done)
    BY DEF FramesInOrder
  <1>2. done' = Append(done, x) /\ ToSet(done') = ToSet(done) \cup {x}
    BY <1>0, AppendSet DEF StrategyGets
  <1>3. \A i \in 1..Len(ran[q]) : \E c \in ToSet(done') \cap Delivered' :
          c.complete /\ c.pair = q /\ c.time = ran[q][i]
    BY <1>1, <1>2 DEF Traded
  <1>4. CASE rows'[q] = rows[q] /\ ran'[q] = ran[q]
    <2>1. Traded(q)'
      BY <1>1, <1>3, <1>4 DEF Traded
    <2>. QED
      BY <1>1, <1>2, <1>4, <2>1
  <1>5. CASE q = x.pair
    <2> DEFINE row == UpdateDataFrame(rows[q], x)
    <2>1. \/ rows'[q] = rows[q] /\ ran'[q] = ran[q]
          \/ /\ rows'[q] = row /\ (rows[q] # <<>> => Last(rows[q]).time <= x.time)
             /\ \/ ran'[q] = ran[q]
                \/ ran'[q] = Append(ran[q], x.time) /\ x.complete /\ run # "preload"
      <3>1. rows[q] # <<>> => Last(rows[q]).time \in Nat
        BY <1>0, FeedTypes DEF Last
      <3>2. CASE x.complete
        <4>1. OnPartialCandle(rows[q], x) = rows[q]
          BY <3>2 DEF OnPartialCandle
        <4>2. /\ rows'[q] = IF ~Late(rows[q], x) THEN row ELSE rows[q]
              /\ ran'[q] = IF Runs(rows[q], x) THEN Append(ran[q], x.time) ELSE ran[q]
          BY <1>0, <1>5, <3>2, <4>1 DEF StrategyGets
        <4>3. Runs(rows[q], x) => ~Late(rows[q], x) /\ run # "preload"
          BY DEF Runs
        <4>4. ~Late(rows[q], x) => (rows[q] # <<>> => Last(rows[q]).time <= x.time)
          BY <1>0, <3>1 DEF Late
        <4> HIDE DEF row
        <4>. QED
          BY <3>2, <4>2, <4>3, <4>4
      <3>3. CASE ~x.complete
        <4>1. ~Runs(OnPartialCandle(rows[q], x), x)
          BY <3>3 DEF Runs
        <4>2. ran'[q] = ran[q] /\ rows'[q] = OnPartialCandle(rows[q], x)
          BY <1>0, <1>5, <3>3, <4>1 DEF StrategyGets
        <4>3. OnPartialCandle(rows[q], x) = rows[q]
                \/ (OnPartialCandle(rows[q], x) = row /\ HighFrequency)
          <5>1. CASE Len(rows[q]) >= WarmupPeriod /\ HighFrequency
            BY <3>3, <5>1 DEF OnPartialCandle
          <5>2. CASE ~(Len(rows[q]) >= WarmupPeriod /\ HighFrequency)
            BY <5>2, Zenon DEF OnPartialCandle
          <5>. QED
            BY <5>1, <5>2
        <4>4. HighFrequency => (rows[q] # <<>> => Last(rows[q]).time <= x.time)
          BY <1>5
        <4> HIDE DEF row
        <4>. QED
          BY <4>2, <4>3, <4>4
      <3>. QED
        BY <3>2, <3>3
    <2>2. CASE rows'[q] = rows[q] /\ ran'[q] = ran[q]
      BY <1>4, <2>2
    <2>3. CASE /\ rows'[q] = row /\ (rows[q] # <<>> => Last(rows[q]).time <= x.time)
               /\ \/ ran'[q] = ran[q]
                  \/ ran'[q] = Append(ran[q], x.time) /\ x.complete /\ run # "preload"
      <3>1. PICK f : f = row
        OBVIOUS
      <3>2. /\ f \in Seq(Candle) /\ StrictlyAscending(Times(f))
            /\ f # <<>> /\ Last(f) = x /\ ToSet(f) \subseteq ToSet(rows[q]) \cup {x}
        BY <1>0, <1>1, <2>3, <3>1, RowAscends
      <3>3. rows'[q] = f
        BY <2>3, <3>1
      <3> HIDE DEF row
      <3>4. StrictlyAscending(Times(rows'[q]))
        BY <3>2, <3>3
      <3>5. Backtest => ToSet(rows'[q]) \subseteq ToSet(done')
        BY <1>1, <1>2, <3>2, <3>3
      <3>6. ran[q] # <<>> => Last(ran[q]) <= x.time /\ Last(ran[q]) \in Nat
        <4> SUFFICES ASSUME ran[q] # <<>> PROVE Last(ran[q]) <= x.time /\ Last(ran[q]) \in Nat
          OBVIOUS
        <4>1. Last(ran[q]) \in Nat
          BY <1>0 DEF Last
        <4>2. rows[q] # <<>> /\ Last(ran[q]) <= Last(rows[q]).time
          BY <1>1 DEF Traded
        <4>3. Last(rows[q]).time \in Nat
          BY <1>0, <4>2, FeedTypes DEF Last
        <4>. QED
          BY <1>0, <2>3, <4>1, <4>2, <4>3
      <3>7. CASE ran'[q] = ran[q]
        <4>1. Traded(q)'
          BY <1>3, <3>2, <3>3, <3>6, <3>7 DEF Traded
        <4>. QED
          BY <1>1, <3>4, <3>5, <3>7, <4>1
      <3>8. CASE ran'[q] = Append(ran[q], x.time) /\ x.complete /\ run # "preload"
        <4>1. x \in Delivered /\ x \notin ToSet(done)
          BY <3>8
        <4>2. ran[q] # <<>> => Last(ran[q]) < x.time
          <5>1. ran[q] # <<>> => Last(ran[q]) # x.time
            BY <1>1, <1>5, <3>8, <4>1, NotTradedTwice
          <5>. QED
            BY <1>0, <3>6, <5>1
        <4>3. StrictlyAscending(ran'[q])
          BY <1>0, <1>1, <3>8, <4>2, AppendAscends
        <4>4. /\ Len(ran'[q]) = Len(ran[q]) + 1 /\ Len(ran[q]) \in Nat
              /\ ran'[q][Len(ran[q]) + 1] = x.time /\ Last(ran'[q]) = x.time
              /\ \A i \in 1..Len(ran[q]) : ran'[q][i] = ran[q][i]
          BY <1>0, <3>8 DEF Last
        <4>5. \A i \in 1..Len(ran'[q]) : \E c \in ToSet(done') \cap Delivered' :
                c.complete /\ c.pair = q /\ c.time = ran'[q][i]
          <5> SUFFICES ASSUME NEW i \in 1..Len(ran'[q])
                       PROVE  \E c \in ToSet(done') \cap Delivered' :
                                c.complete /\ c.pair = q /\ c.time = ran'[q][i]
            OBVIOUS
          <5>1. CASE i \in 1..Len(ran[q])
            BY <1>3, <4>4, <5>1
          <5>2. CASE i = Len(ran[q]) + 1
            <6>1. x \in ToSet(done') \cap Delivered'
              BY <1>2, <4>1
            <6>. QED
              BY <1>5, <3>8, <4>4, <5>2, <6>1
          <5>3. i \in 1..Len(ran[q]) \/ i = Len(ran[q]) + 1
            BY <4>4
          <5>. QED
            BY <5>1, <5>2, <5>3
        <4>6. x.time <= x.time
          BY <1>0
        <4>7. Traded(q)'
          BY <3>2, <3>3, <4>4, <4>5, <4>6 DEF Traded
        <4>. QED
          BY <3>4, <3>5, <4>3, <4>7
      <3>. QED
        BY <2>3, <3>7, <3>8
    <2>. QED
      BY <2>1, <2>2, <2>3
  <1>6. CASE q # x.pair
    <2>1. rows'[q] = rows[q] /\ ran'[q] = ran[q]
      BY <1>0, <1>6 DEF StrategyGets
    <2>. QED
      BY <1>4, <2>1
  <1>. QED
    BY <1>5, <1>6

LEMMA FramesInit == Init => FramesInOrder
  <1> SUFFICES ASSUME Init, NEW p \in Pair
               PROVE  /\ StrictlyAscending(ran[p]) /\ StrictlyAscending(Times(rows[p]))
                      /\ Traded(p)
                      /\ ToSet(rows[p]) \subseteq ToSet(done)
    BY DEF FramesInOrder
  <1>1. rows[p] = <<>> /\ ran[p] = <<>>
    BY DEF Init
  <1>2. Len(Times(<<>>)) = 0
    BY DEF Times
  <1>. QED
    BY <1>1, <1>2 DEF StrictlyAscending, Traded, ToSet

LEMMA FramesNext ==
  Base /\ Located /\ NoneBelated /\ FramesInOrder /\ [Next]_vars => FramesInOrder'
  <1> SUFFICES ASSUME Base, Located, NoneBelated, FramesInOrder, [Next]_vars,
                      Backtest \/ ~HighFrequency
               PROVE  FramesInOrder'
    BY NextMoves DEF FramesInOrder, Backtest, HighFrequency
  <1>0. /\ TypeOK /\ KnownOrigin /\ market' = market /\ Ordered(queue)
        /\ queue \in Seq(FeedCandles) /\ done \in Seq(Candle) /\ warm \in Seq(Candle)
        /\ rows \in [Pair -> Seq(Candle)] /\ offered \subseteq FeedCandles
        /\ Backtest => offered = {} /\ warm = <<>>
    BY NextMoves DEF Base, Located, TypeOK, PhaseOK
  <1>1. ASSUME fed' = fed PROVE Delivered' = Delivered
    BY <1>0, <1>1 DEF Delivered, Feed
  <1>2. /\ \A c : Occurrences(queue, c) \in Nat
                    /\ (Occurrences(queue, c) > 0 <=> c \in ToSet(queue))
        /\ \A c : Occurrences(done, c) \in Nat /\ (Occurrences(done, c) > 0 <=> c \in ToSet(done))
    BY <1>0, MembersOf
  <1>3. ASSUME UNCHANGED <<rows, ran, done>>, Delivered \subseteq Delivered' PROVE FramesInOrder'
    BY <1>0, <1>3 DEF FramesInOrder, Traded, Backtest, HighFrequency
  <1>4. ASSUME NEW p \in Pair, FeedCandle(p) PROVE FramesInOrder'
    <2>1. PICK x : x = Feed[p][fed[p] + 1]
      OBVIOUS
    <2>2. Delivered' = Delivered \cup {x}
      BY <1>0, <1>4, <2>1, NextDelivered DEF FeedCandle
    <2>. QED
      BY <1>3, <1>4, <2>2 DEF FeedCandle
  <1>5. ASSUME NEW c, NotifyPops(c) PROVE FramesInOrder'
    BY <1>1, <1>3, <1>5 DEF NotifyPops
  <1>6. CASE Preload
    <2>1. PICK x : x = Head(warm)
      OBVIOUS
    <2>2. /\ run = "preload" /\ warm # <<>> /\ StrategyGets(x) /\ fed' = fed
      BY <1>6, <2>1 DEF Preload, processCandle
    <2>3. x \in Candle
      BY <1>0, <2>1, <2>2
    <2>. QED
      BY <1>0, <1>1, <2>2, <2>3, FramesStep
  <1>7. ASSUME NEW x \in offered, Receive(x) PROVE FramesInOrder'
    <2>1. StrategyGets(x) /\ fed' = fed
      BY <1>7 DEF Receive, processCandle
    <2>2. x \in Candle /\ x \in Delivered
      BY <1>0, FeedTypes DEF KnownOrigin
    <2>3. Occurrences(queue, x) + Occurrences(done, x) + 1 = 1
      BY <1>7, <2>2 DEF Located, NothingLostOrTwice
    <2>4. x \notin ToSet(done)
      BY <1>2, <2>3
    <2>. QED
      BY <1>0, <1>1, <1>7, <2>1, <2>2, <2>4, FramesStep
  <1>8. ASSUME NEW x, BacktestCandle(x) PROVE FramesInOrder'
    <2>1. StrategyGets(x) /\ fed' = fed /\ run = "backtest"
      BY <1>8 DEF BacktestCandle
    <2>2. x = queue[1] /\ x \in FeedCandles /\ 1 \in 1..Len(queue)
      BY <1>0, <1>8, PopStep DEF BacktestCandle
    <2>3. x \in ToSet(queue) /\ x \in Candle
      BY <1>0, <2>2, FeedTypes DEF ToSet
    <2>4. x \in Delivered
      BY <1>0, <2>3 DEF KnownOrigin
    <2>5. x \notin ToSet(done)
      <3>1. Occurrences(queue, x) + Occurrences(done, x)
              + (IF x \in offered THEN 1 ELSE 0) = 1
        BY <2>4 DEF Located, NothingLostOrTwice
      <3>2. Occurrences(queue, x) > 0 /\ Occurrences(queue, x) \in Nat
        BY <1>2, <2>3
      <3>3. Occurrences(done, x) = 0
        BY <1>2, <3>1, <3>2
      <3>. QED
        BY <1>2, <3>3
    <2>6. Backtest
      BY <2>1 DEF Base, PhaseOK
    <2>7. rows[x.pair] # <<>> => Last(rows[x.pair]).time <= x.time
      <3> SUFFICES ASSUME rows[x.pair] # <<>> PROVE Last(rows[x.pair]).time <= x.time
        OBVIOUS
      <3>1. x.pair \in Pair /\ x.time \in Nat
        BY <2>3 DEF Candle
      <3>2. PICK r : r = rows[x.pair]
        OBVIOUS
      <3>3. r \in Seq(Candle) /\ r # <<>>
        BY <1>0, <3>1, <3>2
      <3>4. Last(r) \in ToSet(r) /\ Last(r) \in Candle
        BY <3>3 DEF Last, ToSet
      <3>5. Last(r) \in ToSet(done)
        BY <2>6, <3>1, <3>2, <3>4 DEF FramesInOrder
      <3>6. PICK i \in 1..Len(done) : Last(r) = done[i]
        BY <1>0, <3>5 DEF ToSet
      <3>7. ~Earlier(x, Last(r))
        BY <2>2, <2>6, <3>6 DEF NoneBelated
      <3>8. Last(r).time \in Nat
        BY <3>4, FeedTypes
      <3>9. ~(x.time < Last(r).time)
        BY <3>7 DEF Earlier
      <3>. QED
        BY <3>1, <3>2, <3>8, <3>9
    <2>. QED
      BY <1>0, <1>1, <2>1, <2>3, <2>4, <2>5, <2>7, FramesStep
  <1>9. CASE UNCHANGED <<queue, fed, offered, warm, rows, ran, done>>
    BY <1>1, <1>3, <1>9
  <1>. QED
    BY <1>4, <1>5, <1>6, <1>7, <1>8, <1>9, NextMoves

(* Strategies see time go forward: a backtest's candles of all pairs are   *)
(* processed in chronological order, and the rows of a data frame and the  *)
(* candles traded on ascend, live too if partial candles are ignored.      *)
THEOREM TimeGoesForward == Spec => []InOrder
  <1> DEFINE Inv == Base /\ Located /\ Chronological /\ NoneBelated /\ FramesInOrder
  <1>1. Init => Inv
    BY BaseInit, LocatedInit, BelatedInit, FramesInit
  <1>2. Inv /\ [Next]_vars => Inv'
    BY BaseNext, LocatedNext, BelatedNext, FramesNext
  <1>3. Inv => InOrder
    BY DEF InOrder, Ascending, FramesInOrder, Times
  <1>. QED
    BY <1>1, <1>2, <1>3, PTL DEF Spec

-----------------------------------------------------------------------------
(***************************************************************************)
(* The queue implements a bag from which a least candle is taken.          *)
(***************************************************************************)

LEMMA BagOf ==
  ASSUME NEW q \in Seq(FeedCandles)
  PROVE  /\ ToBag(q) = [x \in ToSet(q) |-> Occurrences(q, x)]
         /\ DOMAIN ToBag(q) = ToSet(q)
         /\ \A x \in ToSet(q) : ToBag(q)[x] = Occurrences(q, x) /\ Occurrences(q, x) \in Nat \ {0}
         /\ \A x : x \in ToSet(q) <=> Occurrences(q, x) # 0
  <1>1. ToBag(q) = [x \in ToSet(q) |-> Occurrences(q, x)]
    BY DEF ToBag, ToSet, Range, Occurrences
  <1>2. \A x : Occurrences(q, x) \in Nat /\ (Occurrences(q, x) > 0 <=> x \in ToSet(q))
    BY MembersOf
  <1>. QED
    BY <1>1, <1>2

LEMMA SameTable ==
  ASSUME NEW S, NEW f, NEW g, f = [x \in S |-> f[x]], g = [x \in S |-> g[x]],
         \A x \in S : f[x] = g[x]
  PROVE  f = g
  OBVIOUS

LEMMA PushIsBagAdd ==
  ASSUME NEW q \in Seq(FeedCandles), NEW r \in Seq(FeedCandles), NEW x,
         \A c : Occurrences(r, c) = Occurrences(q, c) + (IF x = c THEN 1 ELSE 0)
  PROVE  ToBag(r) = Abstract!BagAdd(ToBag(q), x)
  <1> DEFINE B == ToBag(q)
             C == Abstract!BagAdd(B, x)
  <1>1. /\ B = [y \in ToSet(q) |-> Occurrences(q, y)] /\ DOMAIN B = ToSet(q)
        /\ \A y \in ToSet(q) : B[y] = Occurrences(q, y) /\ Occurrences(q, y) \in Nat \ {0}
        /\ \A y : y \in ToSet(q) <=> Occurrences(q, y) # 0
    BY BagOf
  <1>2. /\ ToBag(r) = [y \in ToSet(r) |-> Occurrences(r, y)]
        /\ \A y : y \in ToSet(r) <=> Occurrences(r, y) # 0
    BY BagOf
  <1> HIDE DEF B
  <1>3. ToSet(r) = ToSet(q) \cup {x}
    BY <1>1, <1>2, MembersOf
  <1>4. CASE x \in ToSet(q)
    <2>1. C = [e \in ToSet(q) |-> IF e = x THEN B[e] + 1 ELSE B[e]]
      BY <1>1, <1>4 DEF Abstract!BagAdd
    <2>2. ToSet(r) = ToSet(q)
      BY <1>3, <1>4
    <2>3. \A e \in ToSet(q) : Occurrences(r, e) = IF e = x THEN B[e] + 1 ELSE B[e]
      BY <1>1
    <2>4. /\ ToBag(r) = [y \in ToSet(q) |-> ToBag(r)[y]]
          /\ \A y \in ToSet(q) : ToBag(r)[y] = Occurrences(r, y)
      BY <1>2, <2>2
    <2> HIDE DEF C
    <2>5. C = [y \in ToSet(q) |-> C[y]] /\ \A y \in ToSet(q) : ToBag(r)[y] = C[y]
      BY <2>1, <2>3, <2>4
    <2>6. ToBag(r) = C
      BY <2>4, <2>5, SameTable
    <2>. QED
      BY <2>6 DEF C, B
  <1>5. CASE x \notin ToSet(q)
    <2>1. C = [e \in ToSet(q) \cup {x} |-> IF e = x THEN 1 ELSE B[e]]
      BY <1>1, <1>5 DEF Abstract!BagAdd
    <2>2. \A e \in ToSet(q) \cup {x} : Occurrences(r, e) = IF e = x THEN 1 ELSE B[e]
      BY <1>1, <1>5
    <2> DEFINE S == ToSet(q) \cup {x}
    <2>4. /\ ToBag(r) = [y \in S |-> ToBag(r)[y]]
          /\ \A y \in S : ToBag(r)[y] = Occurrences(r, y)
      BY <1>2, <1>3
    <2> HIDE DEF C
    <2>5. C = [y \in S |-> C[y]] /\ \A y \in S : ToBag(r)[y] = C[y]
      BY <2>1, <2>2, <2>4
    <2> HIDE DEF S
    <2>6. ToBag(r) = C
      BY <2>4, <2>5, SameTable
    <2>. QED
      BY <2>6 DEF C, B
  <1>. QED
    BY <1>4, <1>5

LEMMA PopIsBagRemove ==
  ASSUME NEW q \in Seq(FeedCandles), NEW r \in Seq(FeedCandles), NEW x,
         \A c : Occurrences(q, c) = Occurrences(r, c) + (IF x = c THEN 1 ELSE 0)
  PROVE  ToBag(r) = Abstract!BagRemove(ToBag(q), x) /\ x \in DOMAIN ToBag(q)
  <1> DEFINE B == ToBag(q)
             C == Abstract!BagRemove(B, x)
  <1>1. /\ B = [y \in ToSet(q) |-> Occurrences(q, y)] /\ DOMAIN B = ToSet(q)
        /\ \A y \in ToSet(q) : B[y] = Occurrences(q, y) /\ Occurrences(q, y) \in Nat \ {0}
        /\ \A y : y \in ToSet(q) <=> Occurrences(q, y) # 0
    BY BagOf
  <1>2. /\ ToBag(r) = [y \in ToSet(r) |-> Occurrences(r, y)]
        /\ \A y : y \in ToSet(r) <=> Occurrences(r, y) # 0
        /\ \A y : Occurrences(r, y) \in Nat
    BY BagOf, MembersOf
  <1> HIDE DEF B
  <1>3. x \in ToSet(q)
    BY <1>1, <1>2
  <1>4. CASE B[x] = 1
    <2>1. C = [e \in ToSet(q) \ {x} |-> B[e]]
      BY <1>1, <1>3, <1>4 DEF Abstract!BagRemove
    <2>2. ToSet(r) = ToSet(q) \ {x}
      BY <1>1, <1>2, <1>3, <1>4
    <2>3. \A e \in ToSet(q) \ {x} : Occurrences(r, e) = B[e]
      BY <1>1, <1>2
    <2> DEFINE S == ToSet(q) \ {x}
    <2>4. /\ ToBag(r) = [y \in S |-> ToBag(r)[y]]
          /\ \A y \in S : ToBag(r)[y] = Occurrences(r, y)
      BY <1>2, <2>2
    <2> HIDE DEF C
    <2>5. C = [y \in S |-> C[y]] /\ \A y \in S : ToBag(r)[y] = C[y]
      BY <2>1, <2>3, <2>4
    <2> HIDE DEF S
    <2>6. ToBag(r) = C
      BY <2>4, <2>5, SameTable
    <2>. QED
      BY <1>1, <1>3, <2>6 DEF C, B
  <1>5. CASE B[x] # 1
    <2>1. C = [e \in ToSet(q) |-> IF e = x THEN B[e] - 1 ELSE B[e]]
      BY <1>1, <1>3, <1>5 DEF Abstract!BagRemove
    <2>2. ToSet(r) = ToSet(q)
      BY <1>1, <1>2, <1>3, <1>5
    <2>3. \A e \in ToSet(q) : Occurrences(r, e) = IF e = x THEN B[e] - 1 ELSE B[e]
      BY <1>1, <1>2
    <2> DEFINE S == ToSet(q)
    <2>4. /\ ToBag(r) = [y \in S |-> ToBag(r)[y]]
          /\ \A y \in S : ToBag(r)[y] = Occurrences(r, y)
      BY <1>2, <2>2
    <2> HIDE DEF C
    <2>5. C = [y \in S |-> C[y]] /\ \A y \in S : ToBag(r)[y] = C[y]
      BY <2>1, <2>3, <2>4
    <2> HIDE DEF S
    <2>6. ToBag(r) = C
      BY <2>4, <2>5, SameTable
    <2>. QED
      BY <1>1, <1>3, <2>6 DEF C, B
  <1>. QED
    BY <1>4, <1>5

LEMMA AbstractPop ==
  ASSUME Base, Base', NEW x, Q!Pop(x)
  PROVE  Abstract!Next
  <1>0. queue \in Seq(FeedCandles) /\ queue' \in Seq(FeedCandles) /\ Ordered(queue)
    BY DEF Base, TypeOK
  <1>1. /\ x = queue[1] /\ x \in FeedCandles
        /\ \A c : Occurrences(queue, c) = Occurrences(queue', c) + (IF x = c THEN 1 ELSE 0)
    BY <1>0, PopStep
  <1>2. /\ ToBag(queue') = Abstract!BagRemove(ToBag(queue), x) /\ x \in DOMAIN ToBag(queue)
        /\ DOMAIN ToBag(queue) = ToSet(queue)
    <2>1. ToBag(queue') = Abstract!BagRemove(ToBag(queue), x) /\ x \in DOMAIN ToBag(queue)
      BY <1>0, <1>1, PopIsBagRemove
    <2>. QED
      BY <1>0, <2>1, BagOf
  <1>3. \A y \in ToSet(queue) : ~Earlier(y, x)
    BY <1>0, <1>1, HeadIsLeast DEF ToSet
  <1>. QED
    BY <1>1, <1>2, <1>3 DEF Abstract!Next, Abstract!Pop, Abstract!Least

(* The heap implements its specification: what a loop or a goroutine pops  *)
(* is a least candle of those pushed and not yet popped.                   *)
THEOREM HeapPopsTheLeast == Spec => PopsTheLeast
  <1>1. Init => Abstract!Init
    <2> SUFFICES ASSUME Init PROVE Abstract!Init
      OBVIOUS
    <2>1. queue \in Seq(FeedCandles)
      BY FromNothing DEF Init
    <2>. QED
      BY <2>1, BagOf DEF Abstract!Init
  <1>2. Base /\ Base' /\ [Next]_vars => [Abstract!Next]_(ToBag(queue))
    <2> SUFFICES ASSUME Base, Base', [Next]_vars PROVE Abstract!Next \/ UNCHANGED ToBag(queue)
      OBVIOUS
    <2>0. /\ TypeOK /\ Ordered(queue)
          /\ queue \in Seq(FeedCandles) /\ queue' \in Seq(FeedCandles)
      BY DEF Base, TypeOK
    <2>1. ASSUME NEW p \in Pair, FeedCandle(p) PROVE Abstract!Next
      <3>1. PICK x : x = Feed[p][fed[p] + 1]
        OBVIOUS
      <3>2. /\ x \in FeedCandles
            /\ \A c : Occurrences(queue', c) = Occurrences(queue, c) + (IF x = c THEN 1 ELSE 0)
        BY <2>0, <2>1, <3>1, FeedStep
      <3>3. ToBag(queue') = Abstract!BagAdd(ToBag(queue), x)
        BY <2>0, <3>2, PushIsBagAdd
      <3>. QED
        BY <3>2, <3>3 DEF Abstract!Next, Abstract!Push
    <2>2. ASSUME NEW x, NotifyPops(x) PROVE Abstract!Next
      BY <2>2, AbstractPop DEF NotifyPops
    <2>3. ASSUME NEW x, BacktestCandle(x) PROVE Abstract!Next
      BY <2>3, AbstractPop DEF BacktestCandle
    <2>4. Preload \/ (\E c \in offered : Receive(c)) => UNCHANGED ToBag(queue)
      BY DEF Preload, Receive
    <2>5. UNCHANGED <<queue, fed, offered, warm, rows, ran, done>> => UNCHANGED ToBag(queue)
      OBVIOUS
    <2>. QED
      BY <2>1, <2>2, <2>3, <2>4, <2>5, NextMoves
  <1>. QED
    BY BaseInit, BaseNext, <1>1, <1>2, PTL DEF Spec, PopsTheLeast, Abstract!Spec
=============================================================================
