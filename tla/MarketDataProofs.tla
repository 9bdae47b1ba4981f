-------------------------- MODULE MarketDataProofs --------------------------
(***************************************************************************)
(* What holds of the candles a bot works on: those of the past, for any    *)
(* timeframes, batches, requests, prices and missing periods, and those    *)
(* from Binance, for any subscribers, periods and breaks of a connection.  *)
(*                                                                         *)
(* The download is counted batch by batch: after each, what was entered is *)
(* what was traded before it, and what is lost is the rest of the periods. *)
(* Of the file, resampling makes candles each of which is made of a run of *)
(* lines; the runs of complete ones are the lines of a period.  The feed   *)
(* shares these candles among the warmup, the subscription and what it has *)
(* yet to send.                                                            *)
(*                                                                         *)
(* The argument for the candles from Binance follows one on its way: what  *)
(* is true of the events on the connection is true of the candle the       *)
(* handler holds and of those the subscribers heard, for a period that is  *)
(* over changes no more.                                                   *)
(***************************************************************************)
EXTENDS History, Klines, DataTheorems, SequenceTheorems

-----------------------------------------------------------------------------
(* The order of times.                                                     *)

LEMMA BeforeType ==
  ASSUME NEW S, IsFiniteSet(S), NEW t
  PROVE  IsFiniteSet(Before(S, t)) /\ Cardinality(Before(S, t)) \in Nat
  BY FS_Subset, FS_CardinalityType DEF Before

(* Of two times, the later one has more before it.                         *)
LEMMA BeforeGrows ==
  ASSUME NEW S \in SUBSET Nat, IsFiniteSet(S), NEW s \in S, NEW t \in S, s < t
  PROVE  Cardinality(Before(S, s)) < Cardinality(Before(S, t))
  <1> DEFINE b == Before(S, t)
  <1>1. IsFiniteSet(b) /\ Cardinality(b) \in Nat /\ Cardinality(Before(S, s)) \in Nat
    BY BeforeType
  <1>2. s \in b
    BY DEF Before
  <1>3. Before(S, s) \in SUBSET (b \ {s})
    <2>1. S \subseteq Nat /\ s \in Nat /\ t \in Nat
      OBVIOUS
    <2>2. \A r \in Before(S, s) : r \in b \ {s}
      BY <2>1 DEF Before
    <2>. QED
      BY <2>2
  <1> HIDE DEF b
  <1>4. IsFiniteSet(b \ {s}) /\ Cardinality(b \ {s}) = Cardinality(b) - 1
    BY <1>1, <1>2, FS_RemoveElement
  <1>5. Cardinality(Before(S, s)) <= Cardinality(b \ {s})
    BY <1>3, <1>4, FS_Subset
  <1> QED
    BY <1>1, <1>4, <1>5 DEF b

LEMMA BeforeBound ==
  ASSUME NEW S \in SUBSET Nat, IsFiniteSet(S), NEW t \in S
  PROVE  Cardinality(Before(S, t)) \in 0..(Cardinality(S) - 1)
  <1>1. Before(S, t) \in SUBSET (S \ {t})
    BY DEF Before
  <1>2. IsFiniteSet(S \ {t}) /\ Cardinality(S \ {t}) = Cardinality(S) - 1
    BY FS_RemoveElement
  <1>3. Cardinality(Before(S, t)) <= Cardinality(S \ {t})
    BY <1>1, <1>2, FS_Subset
  <1>4. Cardinality(S) \in Nat /\ Cardinality(Before(S, t)) \in Nat
    BY BeforeType, FS_CardinalityType
  <1> QED
    BY <1>2, <1>3, <1>4

(* As many times are before one of them as numbers are below any that is   *)
(* less than how many they are.                                            *)
LEMMA RankExists ==
  ASSUME NEW S \in SUBSET Nat, IsFiniteSet(S), NEW k \in 0..(Cardinality(S) - 1)
  PROVE  \E t \in S : Cardinality(Before(S, t)) = k
  <1> DEFINE n == Cardinality(S)
             T == 0..(n - 1)
             f == [t \in S |-> Cardinality(Before(S, t))]
  <1>1. n \in Nat
    BY FS_CardinalityType
  <1>2. IsFiniteSet(T) /\ Cardinality(T) = n
    <2> HIDE DEF n
    <2>1. 0 \in Int /\ n - 1 \in Int
      BY <1>1
    <2>2. /\ IsFiniteSet(0..(n - 1))
          /\ Cardinality(0..(n - 1)) = IF 0 > n - 1 THEN 0 ELSE (n - 1) - 0 + 1
      BY <2>1, FS_Interval
    <2> QED
      BY <1>1, <2>2
  <1>3. f \in [S -> T]
    BY BeforeBound
  <1>4. \A s, t \in S : s # t => f[s] # f[t]
    <2> SUFFICES ASSUME NEW s \in S, NEW t \in S, s # t PROVE f[s] # f[t]
      OBVIOUS
    <2>1. s \in Nat /\ t \in Nat
      OBVIOUS
    <2>2. f[s] = Cardinality(Before(S, s)) /\ f[t] = Cardinality(Before(S, t))
      OBVIOUS
    <2>3. f[s] \in Nat /\ f[t] \in Nat
      BY <2>2, BeforeType
    <2> HIDE DEF f
    <2>4. CASE s < t
      BY <2>2, <2>3, <2>4, BeforeGrows
    <2>5. CASE t < s
      BY <2>2, <2>3, <2>5, BeforeGrows
    <2> QED
      BY <2>1, <2>4, <2>5
  <1> HIDE DEF f
  <1>5. f \in Injection(S, T)
    BY <1>3, <1>4 DEF Injection, IsInjective
  <1> HIDE DEF n, T
  <1>6. f \in Surjection(S, T)
    BY <1>2, <1>5, FS_Injection DEF n
  <1>7. k \in T
    BY DEF T, n
  <1>8. PICK t \in S : f[t] = k
    BY <1>6, <1>7 DEF Surjection
  <1> QED
    BY <1>8 DEF f

(* The times in order are all of them, each where its rank says.           *)
LEMMA TimesInOrder ==
  ASSUME NEW S \in SUBSET Nat, IsFiniteSet(S)
  PROVE  /\ Cardinality(S) \in Nat /\ ByTime(S) \in [1..Cardinality(S) -> S]
         /\ \A i \in 1..Cardinality(S) : Cardinality(Before(S, ByTime(S)[i])) = i - 1
         /\ \A i, j \in 1..Cardinality(S) : i < j => ByTime(S)[i] < ByTime(S)[j]
         /\ \A t \in S : \E i \in 1..Cardinality(S) :
              ByTime(S)[i] = t /\ i = Cardinality(Before(S, t)) + 1
  <1> DEFINE n == Cardinality(S)
             b == ByTime(S)
  <1>1. n \in Nat
    BY FS_CardinalityType
  <1>2. DOMAIN b = 1..n /\ b = [i \in 1..n |-> b[i]]
    BY DEF ByTime
  <1>3. ASSUME NEW i \in 1..n PROVE b[i] \in S /\ Cardinality(Before(S, b[i])) = i - 1
    <2>1. i - 1 \in 0..(n - 1)
      BY <1>1
    <2>2. \E t \in S : Cardinality(Before(S, t)) = i - 1
      BY <2>1, RankExists
    <2>3. b[i] = CHOOSE t \in S : Cardinality(Before(S, t)) = i - 1
      BY DEF ByTime
    <2> HIDE DEF b
    <2> QED
      BY <2>2, <2>3
  <1> HIDE DEF b
  <1>4. b \in [1..n -> S]
    BY <1>2, <1>3
  <1>5. ASSUME NEW i \in 1..n, NEW j \in 1..n, i < j PROVE b[i] < b[j]
    <2>1. b[i] \in Nat /\ b[j] \in Nat /\ b[i] \in S /\ b[j] \in S
      BY <1>3
    <2>2. CASE b[i] = b[j]
      BY <1>3, <1>5, <2>2
    <2>3. CASE b[j] < b[i]
      <3>1. Cardinality(Before(S, b[j])) < Cardinality(Before(S, b[i]))
        BY <2>1, <2>3, BeforeGrows
      <3> QED
        BY <1>3, <1>5, <3>1
    <2> QED
      BY <2>1, <2>2, <2>3
  <1>6. ASSUME NEW t \in S
        PROVE  \E i \in 1..n : b[i] = t /\ i = Cardinality(Before(S, t)) + 1
    <2>1. PICK i \in Nat : i = Cardinality(Before(S, t)) + 1
      BY BeforeType
    <2>2. i \in 1..n /\ Cardinality(Before(S, t)) = i - 1
      BY <1>1, <2>1, BeforeBound
    <2>3. b[i] \in S /\ Cardinality(Before(S, b[i])) = i - 1
      BY <1>3, <2>2
    <2>4. b[i] = t
      <3>1. b[i] < t => i - 1 < i - 1
        BY <2>2, <2>3, BeforeGrows
      <3>2. t < b[i] => i - 1 < i - 1
        BY <2>2, <2>3, BeforeGrows
      <3>3. b[i] \in Nat /\ t \in Nat
        BY <2>3
      <3> QED
        BY <2>2, <3>1, <3>2, <3>3
    <2> QED
      BY <2>1, <2>2, <2>4
  <1> QED
    BY <1>1, <1>3, <1>4, <1>5, <1>6 DEF b

(* A number of periods from the beginning of one.                          *)
Grid(b, k) == {t \in b..(b + k * Interval - 1) : t % Interval = 0}

LEMMA GridSize ==
  ASSUME NEW b \in Nat, b % Interval = 0, NEW k \in Nat
  PROVE  IsFiniteSet(Grid(b, k)) /\ Cardinality(Grid(b, k)) = k
  <1> DEFINE P == {n \in Nat : IsFiniteSet(Grid(b, n)) /\ Cardinality(Grid(b, n)) = n}
  <1>0. Interval \in Nat \ {0}
    BY TimeAssumption
  <1>1. 0 \in P
    <2>1. Grid(b, 0) = {}
      BY <1>0 DEF Grid
    <2> QED
      BY <2>1, FS_EmptySet
  <1>2. ASSUME NEW n \in Nat, n \in P PROVE n + 1 \in P
    <2>1. PICK m \in Nat : m = n * Interval
      BY <1>0, Products
    <2>2. (n + 1) * Interval = m + Interval
      BY <1>0, <2>1
    <2>3. m % Interval = 0 /\ (b + m) % Interval = 0
      <3>1. m % Interval = 0
        BY <1>0, <2>1, MultipleIs
      <3>2. m \in Int /\ b \in Int
        BY <2>1
      <3> QED
        BY <1>0, <3>1, <3>2, Multiples
    <2>4. Grid(b, n) = {t \in b..(b + m - 1) : t % Interval = 0}
      BY <2>1 DEF Grid
    <2>5. Grid(b, n + 1) = {t \in b..(b + m + Interval - 1) : t % Interval = 0}
      BY <2>2, <1>0 DEF Grid
    <2>6. ASSUME NEW t \in Nat, t % Interval = 0, b + m <= t, t <= b + m + Interval - 1
          PROVE  t = b + m
      <3>1. b + m \in Int /\ t \in Int
        BY <2>1
      <3>2. b + m < t => b + m + Interval <= t
        BY <1>0, <2>3, <2>6, <3>1, Multiples
      <3> QED
        BY <1>0, <2>1, <2>6, <3>1, <3>2
    <2>7. Grid(b, n + 1) = Grid(b, n) \cup {b + m}
      BY <1>0, <2>3, <2>4, <2>5, <2>6
    <2>8. b + m \notin Grid(b, n)
      BY <2>4
    <2>9. IsFiniteSet(Grid(b, n)) /\ Cardinality(Grid(b, n)) = n
      BY <1>2
    <2>10. IsFiniteSet(Grid(b, n + 1)) /\ Cardinality(Grid(b, n + 1)) = n + 1
      BY ONLY <2>7, <2>8, <2>9, FS_AddElement
    <2> QED
      BY <2>10
  <1> HIDE DEF P
  <1>3. k \in P
    BY <1>1, <1>2, EveryNatural
  <1> QED
    BY <1>3 DEF P

-----------------------------------------------------------------------------
(* A batch.                                                                *)

Line == [time : Nat, open : Int, close : Int, low : Int, high : Int, volume : Int]

(* The time a batch covers.                                                *)
Size == Interval * BatchSize

DownloadType ==
  /\ traded \in SUBSET Periods
  /\ request \in [start : Nat, end : Nat] /\ request.start % Interval = 0
  /\ request.end <= Now

Ascending(candles) ==
  \A i, j \in 1..Len(candles) : i < j => candles[i].time < candles[j].time

Traded(from, to) == {t \in traded : from <= t /\ t <= to}

LEMMA LeastOfTwo ==
  ASSUME NEW a \in Int, NEW b \in Int
  PROVE  Min({a, b}) = IF a <= b THEN a ELSE b
  <1>1. \E x \in {a, b} : \A y \in {a, b} : x <= y
    OBVIOUS
  <1>2. Min({a, b}) \in {a, b} /\ \A y \in {a, b} : Min({a, b}) <= y
    BY <1>1 DEF Min
  <1>. QED
    BY <1>2

LEMMA SizeIs == Size \in Nat \ {0} /\ Size = BatchSize * Interval /\ Interval \in Nat \ {0}
                /\ BatchSize \in Nat \ {0} /\ Now \in Nat
  BY TimeAssumption DEF Size

LEMMA PeriodsAre == ASSUME DownloadType, NEW S \in SUBSET Periods
                    PROVE  IsFiniteSet(S) /\ Cardinality(S) \in Nat /\ S \in SUBSET Nat
  <1>1. IsFiniteSet(0..Now)
    <2>1. 0 \in Int /\ Now \in Int
      BY TimeAssumption
    <2>. QED
      BY <2>1, FS_Interval
  <1>2. S \in SUBSET (0..Now)
    BY DEF Periods
  <1>3. IsFiniteSet(S)
    BY <1>1, <1>2, FS_Subset
  <1>4. S \in SUBSET Nat
    BY <1>2, SizeIs
  <1>. QED
    BY <1>3, <1>4, FS_CardinalityType

LEMMA LineType ==
  ASSUME NEW t \in Periods
  PROVE  /\ InMarket(t) \in Line /\ InMarket(t).time = t
         /\ Written(InMarket(t)) \in Line /\ Written(InMarket(t)).time = t
  <1>1. t \in Nat /\ Market(t) \in Prices /\ Precision \in Nat \ {0}
    BY CandleAssumption, TimeAssumption DEF Periods
  <1>2. InMarket(t) \in Line /\ InMarket(t).time = t
    BY <1>1 DEF InMarket, Line, Prices
  <1>3. \A v \in Int : Rounded(v) \in Int
    BY <1>1 DEF Rounded
  <1>. QED
    BY <1>2, <1>3 DEF Written, Line

(* The exchange answers the first of the candles in the order of time.     *)
LEMMA Answer ==
  ASSUME DownloadType, NEW from, NEW to
  PROVE  LET S == Traded(from, to)
             c == CandlesByPeriod(from, to)
             m == IF BatchSize <= Cardinality(S) THEN BatchSize ELSE Cardinality(S)
         IN  /\ Cardinality(S) \in Nat /\ c = [i \in 1..m |-> InMarket(ByTime(S)[i])]
             /\ c \in Seq(Line) /\ Len(c) = m
             /\ \A i \in 1..m : c[i].time = ByTime(S)[i] /\ c[i].time \in S
                                /\ c[i] = InMarket(c[i].time)
             /\ Ascending(c)
  <1> DEFINE S == Traded(from, to)
             c == CandlesByPeriod(from, to)
             n == Cardinality(S)
             m == IF BatchSize <= n THEN BatchSize ELSE n
             b == ByTime(S)
  <1>1. S \in SUBSET Periods
    BY DEF Traded, DownloadType
  <1>2. IsFiniteSet(S) /\ n \in Nat /\ S \in SUBSET Nat
    BY <1>1, PeriodsAre
  <1>3. b \in [1..n -> S] /\ \A i, j \in 1..n : i < j => b[i] < b[j]
    BY <1>2, TimesInOrder
  <1>4. S = {t \in traded : from <= t /\ t <= to}
    BY DEF Traded
  <1>5. c = [i \in DOMAIN FirstOf(b, BatchSize) |-> InMarket(b[i])]
    BY <1>4 DEF CandlesByPeriod
  <1> HIDE DEF S, b, c, n
  <1>6. m \in 0..n /\ BatchSize \in Int
    BY <1>2, SizeIs
  <1>7. b \in Seq(S) /\ Len(b) = n
    BY <1>2, <1>3
  <1>8. Min({BatchSize, Len(b)}) = m
    BY <1>2, <1>6, <1>7, LeastOfTwo
  <1> HIDE DEF m
  <1>9. DOMAIN FirstOf(b, BatchSize) = 1..m
    <2>1. FirstOf(b, BatchSize) = SubSeq(b, 1, m)
      BY <1>8 DEF FirstOf
    <2>2. DOMAIN SubSeq(b, 1, m) = 1..m
      BY <1>2, <1>6, <1>7
    <2>. QED
      BY <2>1, <2>2
  <1>10. c = [i \in 1..m |-> InMarket(b[i])]
    BY <1>5, <1>9
  <1>11. \A i \in 1..m : i \in 1..n /\ b[i] \in S /\ b[i] \in Periods
    <2>1. \A i \in 1..m : i \in 1..n
      BY <1>2, <1>6
    <2>. QED
      BY <1>1, <1>3, <2>1
  <1>12. \A i \in 1..m : c[i] \in Line /\ c[i].time = b[i] /\ c[i] = InMarket(b[i])
    BY <1>10, <1>11, LineType
  <1>13. c \in Seq(Line) /\ Len(c) = m
    <2>1. m \in Nat
      BY <1>2, <1>6
    <2>. QED
      BY <1>10, <1>12, <2>1
  <1>14. Ascending(c)
    BY <1>3, <1>11, <1>12, <1>13 DEF Ascending
  <1>15. \A i \in 1..m : c[i].time = b[i] /\ c[i].time \in S /\ c[i] = InMarket(c[i].time)
    BY <1>11, <1>12
  <1>. QED
    BY <1>2, <1>10, <1>13, <1>14, <1>15 DEF S, b, c, n, m

LEMMA GridIs ==
  ASSUME DownloadType, begin \in Nat, begin % Interval = 0
  PROVE  /\ IsFiniteSet(Grid(begin, BatchSize)) /\ Cardinality(Grid(begin, BatchSize)) = BatchSize
         /\ BatchEnd = begin + Size /\ BatchEnd \in Nat /\ BatchEnd % Interval = 0
         /\ \A t \in Periods : t \in Grid(begin, BatchSize) <=> begin <= t /\ t < BatchEnd
         /\ \A t \in Nat : t \in Grid(begin, BatchSize) <=>
              begin <= t /\ t < BatchEnd /\ t % Interval = 0
  <1>1. IsFiniteSet(Grid(begin, BatchSize)) /\ Cardinality(Grid(begin, BatchSize)) = BatchSize
    BY SizeIs, GridSize
  <1>2. BatchEnd = begin + Size /\ BatchEnd \in Nat
    BY SizeIs DEF BatchEnd, Size
  <1>3. BatchEnd % Interval = 0
    <2>1. Size \in Int /\ begin \in Int /\ BatchSize \in Int
      BY SizeIs
    <2>2. Size % Interval = 0
      BY <2>1, SizeIs, MultipleIs
    <2>. QED
      BY <1>2, <2>1, <2>2, SizeIs, Multiples
  <1>4. \A t \in Nat : t \in Grid(begin, BatchSize) <=>
          begin <= t /\ t < BatchEnd /\ t % Interval = 0
    <2>1. Grid(begin, BatchSize) = {t \in begin..(BatchEnd - 1) : t % Interval = 0}
      BY <1>2, SizeIs DEF Grid
    <2>. QED
      BY <1>2, <2>1
  <1>5. \A t \in Periods : t \in Nat /\ t % Interval = 0
    BY SizeIs DEF Periods
  <1>. QED
    BY <1>1, <1>2, <1>3, <1>4, <1>5

(* Every candle of a batch that begins before its end is in it, and until  *)
(* the last batch nothing else.                                            *)
LEMMA BatchIsWhole ==
  ASSUME DownloadType, begin \in Nat, begin % Interval = 0, begin < request.end
  PROVE  LET c == CandlesByPeriod(begin, Upto)
         IN  /\ \A t \in traded : begin <= t /\ t < BatchEnd /\ t < request.end =>
                  \E i \in 1..Len(c) : c[i] = InMarket(t)
             /\ ~IsLastLoop => Len(c) = Cardinality(traded \cap Grid(begin, BatchSize))
  <1> DEFINE S == Traded(begin, Upto)
             c == CandlesByPeriod(begin, Upto)
             n == Cardinality(S)
             m == IF BatchSize <= n THEN BatchSize ELSE n
             G == Grid(begin, BatchSize)
  <1>0. /\ IsFiniteSet(G) /\ Cardinality(G) = BatchSize /\ BatchEnd \in Nat
        /\ \A t \in Periods : t \in G <=> begin <= t /\ t < BatchEnd
        /\ traded \in SUBSET Periods /\ Periods \subseteq Nat /\ request.end \in Nat
    BY GridIs DEF DownloadType, Periods
  <1>1. S \in SUBSET Periods /\ IsFiniteSet(S) /\ S \in SUBSET Nat
    <2>1. S \in SUBSET Periods
      BY DEF Traded, DownloadType
    <2>. QED
      BY <2>1, PeriodsAre
  <1>2. /\ n \in Nat /\ c = [i \in 1..m |-> InMarket(ByTime(S)[i])] /\ Len(c) = m
        /\ m \in Nat
    BY Answer, SizeIs
  <1>3. \A t \in S : \E i \in 1..n : ByTime(S)[i] = t /\ i = Cardinality(Before(S, t)) + 1
    BY <1>1, TimesInOrder
  <1>4. ASSUME NEW t \in traded, begin <= t, t < BatchEnd, t < request.end
        PROVE  \E i \in 1..Len(c) : c[i] = InMarket(t)
    <2>1. t \in S
      BY <1>0, <1>4 DEF Traded, Upto
    <2>2. PICK i \in 1..n : ByTime(S)[i] = t /\ i = Cardinality(Before(S, t)) + 1
      BY <1>3, <2>1
    <2>3. Before(S, t) \in SUBSET (G \ {t})
      <3>1. \A s \in Before(S, t) : s \in Periods /\ begin <= s /\ s < t /\ s \in Nat
        BY <1>0, <1>1 DEF Before, Traded
      <3>. QED
        BY <1>0, <1>4, <3>1
    <2>4. t \in G
      BY <1>0, <1>4
    <2> HIDE DEF G
    <2>5. IsFiniteSet(G \ {t}) /\ Cardinality(G \ {t}) = BatchSize - 1
      BY <1>0, <2>4, FS_RemoveElement
    <2>6. Cardinality(Before(S, t)) <= BatchSize - 1
      BY <2>3, <2>5, FS_Subset
    <2>7. i <= m
      <3>1. i \in Nat /\ BatchSize \in Nat /\ i - 1 = Cardinality(Before(S, t))
        BY <1>1, <2>2, BeforeType, SizeIs
      <3>. QED
        BY <1>2, <2>2, <2>6, <3>1
    <2>8. i \in 1..m
      BY <1>2, <2>2, <2>7
    <2> HIDE DEF c, m, n, S
    <2>9. c[i] = InMarket(t)
      BY <1>2, <2>2, <2>8
    <2>. QED
      BY <1>2, <2>8, <2>9
  <1>5. ASSUME ~IsLastLoop PROVE Len(c) = Cardinality(traded \cap G)
    <2>1. S = traded \cap G
      <3>1. Upto = BatchEnd - 1
        BY <1>5 DEF Upto
      <3>2. \A t \in traded : begin <= t /\ t <= BatchEnd - 1 <=> t \in G
        BY <1>0
      <3>. QED
        BY <3>1, <3>2 DEF Traded
    <2>2. n <= BatchSize
      <3>1. S \in SUBSET G
        BY <2>1
      <3>. QED
        BY <1>0, <3>1, FS_Subset
    <2>3. m = n
      BY <1>2, <2>2, SizeIs
    <2>. QED
      BY <1>2, <2>1, <2>3
  <1>. QED
    BY <1>4, <1>5

-----------------------------------------------------------------------------
(* The download.                                                           *)

(* What has been entered in the CSV writer, or the file.                   *)
Entered(candles) ==
  /\ candles \in Seq(Line) /\ Ascending(candles)
  /\ \A i \in 1..Len(candles) :
       /\ candles[i].time \in traded
       /\ request.start <= candles[i].time /\ candles[i].time <= request.end
       /\ candles[i] = Written(InMarket(candles[i].time))

(* The periods without a trade from the beginning of the interval on.      *)
Missing(to) == Cardinality((Periods \ traded) \cap (request.start..(to - 1)))

(* Where a batch begins that has k before it.                              *)
BatchBegin(k) == request.start + k * Size

(* After each batch the buffer has what was traded before it, and what was *)
(* lost is what is missing, up to the beginning of the last batch.         *)
UnderWay ==
  stage = "download" =>
    \E k \in Nat :
      /\ begin = BatchBegin(k)
      /\ Entered(buffer)
      /\ \A t \in traded : request.start <= t /\ t < begin /\ t < request.end =>
           \E i \in 1..Len(buffer) : buffer[i] = Written(InMarket(t))
      /\ begin < request.end =>
           lost = Missing(begin) /\ \A i \in 1..Len(buffer) : buffer[i].time < begin
      /\ begin >= request.end =>
           IF k = 0 THEN lost = 0
           ELSE BatchBegin(k - 1) < request.end /\ lost = Missing(BatchBegin(k - 1))

(* Nothing that follows the download touches what it left.                 *)
Over == Downloaded => DownloadIsExact /\ Entered(file)

LEMMA BatchBeginIs ==
  ASSUME DownloadType, NEW k \in Nat
  PROVE  /\ BatchBegin(k) \in Nat /\ BatchBegin(k) % Interval = 0
         /\ request.start <= BatchBegin(k) /\ BatchBegin(k + 1) = BatchBegin(k) + Size
         /\ BatchBegin(0) = request.start
  <1>0. request.start \in Nat /\ request.start % Interval = 0 /\ request.start \in Int
    BY DEF DownloadType
  <1>1. PICK p \in Nat : p = k * BatchSize
    BY SizeIs, Products
  <1>2. k * Size = p * Interval /\ p * Interval \in Nat /\ p \in Int
    <2>1. k * Size = p * Interval
      BY <1>1, SizeIs
    <2>2. p * Interval \in Nat
      BY SizeIs
    <2>. QED
      BY <2>1, <2>2
  <1>3. PICK m \in Nat : m = k * Size
    BY <1>2
  <1>4. m % Interval = 0 /\ m \in Int
    BY <1>2, <1>3, SizeIs, MultipleIs
  <1>5. (request.start + m) % Interval = 0
    BY <1>0, <1>4, SizeIs, Multiples
  <1>6. BatchBegin(k) = request.start + m
    BY <1>3 DEF BatchBegin
  <1>7. (k + 1) * Size = m + Size /\ 0 * Size = 0
    BY <1>3, SizeIs
  <1>8. BatchBegin(k + 1) = request.start + (m + Size) /\ BatchBegin(0) = request.start + 0
    BY <1>7 DEF BatchBegin
  <1>9. Size \in Nat
    BY SizeIs
  <1>10. /\ request.start + m \in Nat /\ request.start <= request.start + m
         /\ request.start + (m + Size) = request.start + m + Size
         /\ request.start + 0 = request.start
    BY <1>0, <1>3, <1>9
  <1>. QED
    BY <1>5, <1>6, <1>8, <1>10

LEMMA MissingType ==
  ASSUME DownloadType, NEW to
  PROVE  IsFiniteSet((Periods \ traded) \cap (request.start..(to - 1))) /\ Missing(to) \in Nat
  <1>1. (Periods \ traded) \cap (request.start..(to - 1)) \in SUBSET Periods
    OBVIOUS
  <1>. QED
    BY <1>1, PeriodsAre DEF Missing

(* What a batch before the last one adds to the missing candles.           *)
LEMMA MissingGrows ==
  ASSUME DownloadType, begin \in Nat, begin % Interval = 0, request.start <= begin,
         begin < request.end, ~IsLastLoop
  PROVE  Missing(BatchEnd) = Missing(begin) + BatchSize
                             - Len(CandlesByPeriod(begin, Upto))
  <1> DEFINE G == Grid(begin, BatchSize)
             n == Len(CandlesByPeriod(begin, Upto))
             A == (Periods \ traded) \cap (request.start..(begin - 1))
             B == G \ traded
             C == (Periods \ traded) \cap (request.start..(BatchEnd - 1))
  <1>0. /\ IsFiniteSet(G) /\ Cardinality(G) = BatchSize /\ BatchEnd = begin + Size
        /\ BatchEnd \in Nat /\ Size \in Nat
        /\ \A t \in Nat : t \in G <=> begin <= t /\ t < BatchEnd /\ t % Interval = 0
        /\ request \in [start : Nat, end : Nat] /\ request.end <= Now /\ Now \in Nat
    BY GridIs, SizeIs DEF DownloadType
  <1>1. n = Cardinality(traded \cap G)
    BY BatchIsWhole
  <1>2. BatchEnd < request.end
    BY <1>0 DEF IsLastLoop
  <1>3. G \in SUBSET Nat
    BY SizeIs DEF Grid
  <1>4. \A t \in G : t \in Periods
    BY <1>0, <1>2, <1>3 DEF Periods
  <1>5. C = A \cup B
    <2>1. \A t \in Periods : t \in Nat /\ t % Interval = 0
      BY SizeIs DEF Periods
    <2>2. request.start \in Nat
      BY <1>0
    <2> HIDE DEF G
    <2>3. ASSUME NEW t \in Periods \ traded
          PROVE  t \in C <=> t \in A \/ t \in B
      <3>1. t \in Nat /\ t % Interval = 0
        BY <2>1
      <3>2. t \in G <=> begin <= t /\ t < BatchEnd
        BY <1>0, <3>1
      <3>. QED
        BY <1>0, <2>2, <3>1, <3>2
    <2>4. \A t \in A \cup B \cup C : t \in Periods \ traded
      BY <1>4
    <2> HIDE DEF A, B, C
    <2>. QED
      BY <2>3, <2>4
  <1>6. A \cap B = {}
    <2>1. \A t \in G : begin <= t
      BY <1>0, <1>3
    <2> HIDE DEF G
    <2>2. ASSUME NEW t \in A, t \in B PROVE FALSE
      <3>1. t \in request.start..(begin - 1) /\ begin <= t
        BY <2>1, <2>2
      <3>. QED
        BY <1>0, <3>1
    <2>. QED
      BY <2>2
  <1>7. IsFiniteSet(A) /\ Missing(begin) = Cardinality(A) /\ Missing(BatchEnd) = Cardinality(C)
        /\ Missing(begin) \in Nat
    BY MissingType DEF Missing
  <1>8. IsFiniteSet(B) /\ Cardinality(B) = BatchSize - Cardinality(G \cap traded)
    <2> HIDE DEF G
    <2>. QED
      BY <1>0, FS_Difference
  <1>9. G \cap traded = traded \cap G
    OBVIOUS
  <1> HIDE DEF A, B, C, G, n
  <1>10. Cardinality(C) = Cardinality(A) + Cardinality(B) - Cardinality({})
    BY <1>5, <1>6, <1>7, <1>8, FS_Union
  <1>11. Cardinality({}) = 0
    BY FS_EmptySet
  <1>12. n \in Nat
    <2>1. CandlesByPeriod(begin, Upto) \in Seq(Line)
      BY Answer
    <2>. QED
      BY <2>1 DEF n
  <1>13. Cardinality(B) = BatchSize - n
    BY <1>1, <1>8, <1>9
  <1>14. Cardinality(C) = Missing(begin) + (BatchSize - n)
    BY <1>7, <1>10, <1>11, <1>12, <1>13, SizeIs
  <1>. QED
    BY <1>7, <1>12, <1>14, SizeIs DEF n

LEMMA Joined ==
  ASSUME NEW S, NEW s \in Seq(S), NEW t \in Seq(S)
  PROVE  /\ s \o t \in Seq(S) /\ Len(s \o t) = Len(s) + Len(t)
         /\ Len(s) \in Nat /\ Len(t) \in Nat
         /\ \A i \in 1..Len(s) : (s \o t)[i] = s[i] /\ i \in 1..Len(s \o t)
         /\ \A i \in 1..Len(t) : (s \o t)[Len(s) + i] = t[i] /\ Len(s) + i \in 1..Len(s \o t)
         /\ \A i \in 1..Len(s \o t) :
              \/ i \in 1..Len(s)
              \/ i - Len(s) \in 1..Len(t) /\ (s \o t)[i] = t[i - Len(s)]
  OBVIOUS

(* A batch that is entered is in order after those before it.              *)
LEMMA BatchEntered ==
  ASSUME DownloadType, begin \in Nat, request.start <= begin, begin < request.end,
         Entered(buffer), \A i \in 1..Len(buffer) : buffer[i].time < begin,
         DownloadBatch
  PROVE  LET c == CandlesByPeriod(begin, Upto)
         IN  /\ buffer' \in Seq(Line) /\ Ascending(buffer')
             /\ \A i \in 1..Len(buffer') :
                  /\ buffer'[i].time \in traded
                  /\ request.start <= buffer'[i].time /\ buffer'[i].time <= request.end
                  /\ buffer'[i] = Written(InMarket(buffer'[i].time))
                  /\ i \in 1..Len(buffer) \/ buffer'[i].time <= Upto
             /\ \A i \in 1..Len(buffer) : i \in 1..Len(buffer') /\ buffer'[i] = buffer[i]
             /\ \A i \in 1..Len(c) : \E j \in 1..Len(buffer') : buffer'[j] = Written(c[i])
  <1> DEFINE c == CandlesByPeriod(begin, Upto)
             w == [i \in DOMAIN c |-> Written(c[i])]
             new == buffer'
  <1>1. new = buffer \o w
    BY DEF DownloadBatch
  <1>0. /\ request \in [start : Nat, end : Nat] /\ traded \in SUBSET Periods
        /\ Periods \subseteq Nat /\ BatchEnd \in Nat /\ Upto <= request.end /\ Upto \in Nat
    <2>1. BatchEnd \in Nat /\ BatchEnd > begin
      BY SizeIs DEF BatchEnd, Size
    <2>. QED
      BY <2>1 DEF DownloadType, Periods, Upto, IsLastLoop
  <1>2. /\ c \in Seq(Line) /\ Ascending(c)
        /\ \A i \in 1..Len(c) : /\ c[i].time \in traded /\ begin <= c[i].time
                                /\ c[i].time <= Upto /\ c[i] = InMarket(c[i].time)
    <2> DEFINE S == Traded(begin, Upto)
    <2>1. /\ c \in Seq(Line) /\ Ascending(c)
          /\ \A i \in 1..Len(c) : c[i].time \in S /\ c[i] = InMarket(c[i].time)
      BY Answer
    <2>2. \A t \in S : t \in traded /\ begin <= t /\ t <= Upto
      BY DEF Traded
    <2> HIDE DEF S, c
    <2>. QED
      BY <2>1, <2>2
  <1>3. buffer \in Seq(Line) /\ Ascending(buffer)
    BY DEF Entered
  <1> HIDE DEF c
  <1>4. /\ w \in Seq(Line) /\ Len(w) = Len(c)
        /\ \A i \in 1..Len(c) : w[i] = Written(c[i]) /\ w[i].time = c[i].time
                                /\ w[i] = Written(InMarket(w[i].time))
    <2>1. DOMAIN c = 1..Len(c) /\ Len(c) \in Nat
      BY <1>2
    <2>2. \A i \in 1..Len(c) : /\ Written(c[i]) \in Line /\ Written(c[i]).time = c[i].time
                               /\ c[i] = InMarket(c[i].time)
      BY <1>0, <1>2, LineType
    <2>3. w = [i \in 1..Len(c) |-> Written(c[i])]
      BY <2>1
    <2>4. \A i \in 1..Len(c) : w[i] = Written(c[i])
      BY <2>3
    <2>5. w \in Seq(Line) /\ Len(w) = Len(c)
      BY <2>1, <2>2, <2>3
    <2> HIDE DEF w
    <2>6. \A i \in 1..Len(c) : w[i].time = c[i].time /\ w[i] = Written(InMarket(w[i].time))
      BY <2>2, <2>4
    <2>. QED
      BY <2>4, <2>5, <2>6
  <1> HIDE DEF w, new
  <1>5. /\ new \in Seq(Line) /\ Len(new) = Len(buffer) + Len(w)
        /\ Len(buffer) \in Nat /\ Len(w) \in Nat
        /\ \A i \in 1..Len(buffer) : new[i] = buffer[i] /\ i \in 1..Len(new)
        /\ \A i \in 1..Len(w) : new[Len(buffer) + i] = w[i] /\ Len(buffer) + i \in 1..Len(new)
        /\ \A i \in 1..Len(new) : \/ i \in 1..Len(buffer)
                                  \/ i - Len(buffer) \in 1..Len(w) /\ new[i] = w[i - Len(buffer)]
    <2>1. buffer \in Seq(Line) /\ w \in Seq(Line)
      BY <1>3, <1>4
    <2>. QED
      BY ONLY <1>1, <2>1, Joined
  <1>6. ASSUME NEW i \in 1..Len(new)
        PROVE  /\ new[i].time \in traded
               /\ request.start <= new[i].time /\ new[i].time <= request.end
               /\ new[i] = Written(InMarket(new[i].time))
               /\ i \in 1..Len(buffer) \/ new[i].time <= Upto
    <2>1. CASE i \in 1..Len(buffer)
      BY <1>5, <2>1 DEF Entered
    <2>2. CASE i - Len(buffer) \in 1..Len(w) /\ new[i] = w[i - Len(buffer)]
      <3> DEFINE k == i - Len(buffer)
      <3>1. k \in 1..Len(c) /\ new[i] = w[k]
        BY <1>4, <2>2
      <3> HIDE DEF k
      <3>2. new[i].time = c[k].time /\ new[i] = Written(InMarket(new[i].time))
        BY <1>4, <3>1
      <3>3. /\ c[k].time \in traded /\ begin <= c[k].time /\ c[k].time <= Upto
            /\ c[k].time \in Nat
        BY <1>0, <1>2, <3>1
      <3>. QED
        BY <1>0, <3>2, <3>3
    <2>. QED
      BY <1>5, <2>1, <2>2
  <1>7. Ascending(new)
    <2> SUFFICES ASSUME NEW i \in 1..Len(new), NEW j \in 1..Len(new), i < j
                 PROVE  new[i].time < new[j].time
      BY DEF Ascending
    <2>1. CASE j \in 1..Len(buffer)
      <3>1. i \in 1..Len(buffer)
        BY <1>5, <2>1
      <3>. QED
        BY <1>3, <1>5, <2>1, <3>1 DEF Ascending
    <2>2. CASE i \in 1..Len(buffer) /\ j \notin 1..Len(buffer)
      <3> DEFINE k == j - Len(buffer)
      <3>1. k \in 1..Len(c) /\ new[j] = w[k] /\ new[i] = buffer[i]
        BY <1>4, <1>5, <2>2
      <3> HIDE DEF k
      <3>2. new[j].time = c[k].time /\ begin <= c[k].time /\ c[k].time \in Nat
        BY <1>0, <1>2, <1>4, <3>1
      <3>3. new[i].time < begin /\ new[i].time \in Nat
        BY <1>0, <1>6, <2>2, <3>1
      <3>. QED
        BY <3>2, <3>3
    <2>3. CASE i \notin 1..Len(buffer) /\ j \notin 1..Len(buffer)
      <3> DEFINE k == i - Len(buffer)
                 l == j - Len(buffer)
      <3>1. k \in 1..Len(c) /\ new[i] = w[k] /\ l \in 1..Len(c) /\ new[j] = w[l]
        BY <1>4, <1>5, <2>3
      <3>2. k < l
        BY <1>5
      <3> HIDE DEF k, l
      <3>3. new[i].time = c[k].time /\ new[j].time = c[l].time
        BY <1>4, <3>1
      <3>. QED
        BY <1>2, <3>1, <3>2, <3>3 DEF Ascending
    <2>. QED
      BY <1>5, <2>1, <2>2, <2>3
  <1>8. \A i \in 1..Len(c) : \E j \in 1..Len(new) : new[j] = Written(c[i])
    <2> SUFFICES ASSUME NEW i \in 1..Len(c) PROVE \E j \in 1..Len(new) : new[j] = Written(c[i])
      OBVIOUS
    <2>1. Len(buffer) + i \in 1..Len(new) /\ new[Len(buffer) + i] = w[i]
      BY <1>4, <1>5
    <2>. QED
      BY <1>4, <2>1
  <1>. QED
    BY <1>5, <1>6, <1>7, <1>8 DEF new, c

LEMMA UnderWayStep == ASSUME DownloadType, UnderWay, DownloadBatch PROVE UnderWay'
  <1>1. PICK k \in Nat :
          /\ begin = BatchBegin(k)
          /\ Entered(buffer)
          /\ \A t \in traded : request.start <= t /\ t < begin /\ t < request.end =>
               \E i \in 1..Len(buffer) : buffer[i] = Written(InMarket(t))
          /\ lost = Missing(begin)
          /\ \A i \in 1..Len(buffer) : buffer[i].time < begin
    BY DEF UnderWay, DownloadBatch
  <1>2. /\ stage = "download" /\ begin < request.end /\ begin' = BatchEnd
        /\ lost' = lost + Lost(Len(CandlesByPeriod(begin, Upto)))
        /\ UNCHANGED <<stage, traded, request>>
    BY DEF DownloadBatch
  <1>3. /\ begin \in Nat /\ begin % Interval = 0 /\ request.start <= begin
        /\ BatchBegin(k + 1) = begin + Size
    BY <1>1, BatchBeginIs
  <1>4. /\ BatchEnd = begin + Size /\ BatchEnd \in Nat /\ Size \in Nat \ {0}
        /\ request \in [start : Nat, end : Nat] /\ traded \in SUBSET Periods
        /\ Periods \subseteq Nat
    BY <1>3, GridIs, SizeIs DEF DownloadType, Periods
  <1> DEFINE c == CandlesByPeriod(begin, Upto)
  <1>5. /\ buffer' \in Seq(Line) /\ Ascending(buffer')
        /\ \A i \in 1..Len(buffer') :
             /\ buffer'[i].time \in traded
             /\ request.start <= buffer'[i].time /\ buffer'[i].time <= request.end
             /\ buffer'[i] = Written(InMarket(buffer'[i].time))
             /\ i \in 1..Len(buffer) \/ buffer'[i].time <= Upto
        /\ \A i \in 1..Len(buffer) : i \in 1..Len(buffer') /\ buffer'[i] = buffer[i]
        /\ \A i \in 1..Len(c) : \E j \in 1..Len(buffer') : buffer'[j] = Written(c[i])
    BY <1>1, <1>2, <1>3, BatchEntered
  <1>6. /\ \A t \in traded : begin <= t /\ t < BatchEnd /\ t < request.end =>
             \E i \in 1..Len(c) : c[i] = InMarket(t)
        /\ ~IsLastLoop =>
             Missing(BatchEnd) = Missing(begin) + BatchSize - Len(c)
    BY <1>2, <1>3, BatchIsWhole, MissingGrows
  <1>7. Len(c) \in Nat
    <2>1. c \in Seq(Line)
      BY Answer
    <2> HIDE DEF c
    <2>. QED
      BY <2>1
  <1> HIDE DEF c
  <1>8. Entered(buffer)'
    BY <1>2, <1>5 DEF Entered, Ascending
  <1>9. ASSUME NEW t \in traded, request.start <= t, t < BatchEnd, t < request.end
        PROVE  \E i \in 1..Len(buffer') : buffer'[i] = Written(InMarket(t))
    <2>1. CASE t < begin
      <3>1. PICK i \in 1..Len(buffer) : buffer[i] = Written(InMarket(t))
        BY <1>1, <1>9, <2>1
      <3>. QED
        BY <1>5, <3>1
    <2>2. CASE begin <= t
      <3>1. PICK i \in 1..Len(c) : c[i] = InMarket(t)
        BY <1>6, <1>9, <2>2
      <3>. QED
        BY <1>5, <3>1
    <2>3. t \in Nat
      BY <1>4
    <2>. QED
      BY <1>3, <2>1, <2>2, <2>3
  <1>10. BatchBegin(k + 1)' = BatchEnd
    <2>1. BatchBegin(k + 1)' = BatchBegin(k + 1)
      BY <1>2 DEF BatchBegin
    <2>. QED
      BY <1>3, <1>4, <2>1
  <1>11. \A to : Missing(to)' = Missing(to)
    BY <1>2 DEF Missing
  <1>12. ASSUME BatchEnd < request.end
         PROVE  lost' = Missing(BatchEnd) /\ \A i \in 1..Len(buffer') : buffer'[i].time < BatchEnd
    <2>1. ~IsLastLoop /\ Upto = BatchEnd - 1
      BY <1>4, <1>12 DEF IsLastLoop, Upto
    <2>2. lost' = lost + (BatchSize - Len(c))
      BY <1>2, <2>1 DEF Lost, c
    <2>3. lost' = Missing(BatchEnd)
      <3>1. Missing(begin) \in Nat /\ BatchSize \in Nat
        BY MissingType, SizeIs
      <3>. QED
        BY <1>1, <1>6, <1>7, <2>1, <2>2, <3>1
    <2>4. ASSUME NEW i \in 1..Len(buffer') PROVE buffer'[i].time < BatchEnd
      <3>1. buffer'[i].time \in Nat
        BY <1>4, <1>5
      <3>2. i \in 1..Len(buffer) => buffer'[i].time < begin
        BY <1>1, <1>5
      <3>3. i \in 1..Len(buffer) \/ buffer'[i].time <= BatchEnd - 1
        BY <1>5, <2>1
      <3>4. begin < BatchEnd /\ begin \in Nat /\ BatchEnd \in Nat
        BY <1>3, <1>4
      <3>. QED
        BY <3>1, <3>2, <3>3, <3>4
    <2>. QED
      BY <2>3, <2>4
  <1>13. ASSUME BatchEnd >= request.end
         PROVE  BatchBegin(k) < request.end /\ lost' = Missing(BatchBegin(k))
    <2>1. lost' = lost + 0
      BY <1>2, <1>13 DEF Lost, IsLastLoop
    <2>2. lost \in Nat
      BY <1>1, MissingType
    <2>. QED
      BY <1>1, <1>2, <2>1, <2>2
  <1>14. k + 1 \in Nat /\ k + 1 # 0 /\ (k + 1) - 1 = k
    BY <1>1
  <1>15. BatchBegin(k)' = BatchBegin(k) /\ BatchBegin(k + 1 - 1)' = BatchBegin(k)
    BY <1>2, <1>14 DEF BatchBegin
  <1>16. \A t \in traded : request.start <= t /\ t < BatchEnd /\ t < request.end =>
           \E i \in 1..Len(buffer') : buffer'[i] = Written(InMarket(t))
    BY <1>9
  <1>. QED
    <2> SUFFICES \E n \in Nat :
          /\ begin' = BatchBegin(n)'
          /\ Entered(buffer)'
          /\ \A t \in traded' : request'.start <= t /\ t < begin' /\ t < request'.end =>
               \E i \in 1..Len(buffer') : buffer'[i] = Written(InMarket(t))
          /\ begin' < request'.end =>
               lost' = Missing(begin)' /\ \A i \in 1..Len(buffer') : buffer'[i].time < begin'
          /\ begin' >= request'.end =>
               IF n = 0 THEN lost' = 0
               ELSE BatchBegin(n - 1)' < request'.end /\ lost' = Missing(BatchBegin(n - 1))'
      BY DEF UnderWay
    <2>1. Missing(begin)' = Missing(BatchEnd)
      BY <1>2 DEF Missing
    <2>2. Missing(BatchBegin(k + 1 - 1))' = Missing(BatchBegin(k))
      BY <1>2, <1>15 DEF Missing
    <2>3. WITNESS k + 1 \in Nat
    <2>. QED
      BY <1>2, <1>8, <1>10, <1>12, <1>13, <1>14, <1>15, <1>16, <2>1, <2>2

(* When the last batch is over the whole request is in the writer.         *)
LEMMA EndIsExact == ASSUME DownloadType, UnderWay, DownloadEnds PROVE Over'
  <1>1. PICK k \in Nat :
          /\ begin = BatchBegin(k)
          /\ Entered(buffer)
          /\ \A t \in traded : request.start <= t /\ t < begin /\ t < request.end =>
               \E i \in 1..Len(buffer) : buffer[i] = Written(InMarket(t))
          /\ IF k = 0 THEN lost = 0
             ELSE BatchBegin(k - 1) < request.end /\ lost = Missing(BatchBegin(k - 1))
    BY DEF UnderWay, DownloadEnds
  <1>2. begin >= request.end /\ file' = buffer /\ UNCHANGED <<traded, request, lost>>
    BY DEF DownloadEnds, download
  <1>3. /\ begin \in Nat /\ request \in [start : Nat, end : Nat]
        /\ traded \in SUBSET Periods /\ Periods \subseteq Nat
    <2>1. begin \in Nat
      BY <1>1, BatchBeginIs
    <2>2. Periods \subseteq Nat
      BY SizeIs DEF Periods
    <2>. QED
      BY <2>1, <2>2 DEF DownloadType
  <1>4. Entered(file)'
    BY <1>1, <1>2 DEF Entered, Ascending
  <1>5. DownloadedOnce'
    <2>1. buffer \in Seq(Line) /\ Ascending(buffer)
      BY <1>1 DEF Entered
    <2>2. Len(buffer) \in Nat /\ DOMAIN buffer = 1..Len(buffer)
      BY <2>1
    <2>3. \A i \in 2..Len(buffer) : buffer[i - 1].time < buffer[i].time
      <3> SUFFICES ASSUME NEW i \in 2..Len(buffer) PROVE buffer[i - 1].time < buffer[i].time
        OBVIOUS
      <3>1. i \in 1..Len(buffer) /\ i - 1 \in 1..Len(buffer) /\ i - 1 < i
        BY <2>2
      <3>. QED
        BY <2>1, <3>1 DEF Ascending
    <2>4. \A t \in traded : request.start <= t /\ t < request.end =>
            \E i \in DOMAIN buffer : buffer[i] = Written(InMarket(t))
      BY <1>1, <1>2, <1>3, <2>2
    <2>5. \A i \in DOMAIN buffer : buffer[i].time \in traded \cap (request.start..request.end)
      <3> SUFFICES ASSUME NEW i \in 1..Len(buffer)
                   PROVE  buffer[i].time \in traded \cap (request.start..request.end)
        BY <2>2
      <3>1. /\ buffer[i].time \in traded
            /\ request.start <= buffer[i].time /\ buffer[i].time <= request.end
        BY <1>1 DEF Entered
      <3>2. buffer[i].time \in Nat /\ request.start \in Nat /\ request.end \in Nat
        BY <1>3, <3>1
      <3>. QED
        BY <3>1, <3>2
    <2>. QED
      BY <1>2, <2>3, <2>4, <2>5 DEF DownloadedOnce
  <1>6. LostIsCounted'
    <2> DEFINE x == request.end - request.start - 1
               q == x \div Size
               covered == request.start..(request.start + q * Size - 1)
    <2>0. x \in Int /\ q \in Int /\ Size \in Nat \ {0} /\ x = q * Size + (x % Size)
          /\ x % Size \in 0..(Size - 1) /\ q * Size \in Int
      <3>1. x \in Int /\ Size \in Nat \ {0}
        BY <1>3, SizeIs
      <3> HIDE DEF x
      <3>2. q \in Int /\ x % Size \in 0..(Size - 1) /\ x = Size * q + (x % Size)
        BY <3>1, Division
      <3> HIDE DEF q
      <3>. QED
        BY <3>1, <3>2
    <2>1. q * Interval * BatchSize = q * Size
      BY <2>0, SizeIs
    <2> SUFFICES lost = Cardinality((Periods \ traded) \cap covered)
      BY <1>2, <2>1 DEF LostIsCounted, Size
    <2>2. CASE k = 0
      <3>1. begin = request.start
        BY <1>1, <2>2, BatchBeginIs
      <3>2. x < 0
        BY <1>2, <1>3, <3>1
      <3>3. q < 0
        <4>1. q >= 0 => q * Size >= 0
          BY <2>0
        <4>2. x % Size \in Nat
          BY <2>0
        <4> HIDE DEF x, q
        <4>. QED
          BY <2>0, <3>2, <4>1, <4>2
      <3>4. q * Size + Size <= 0
        <4>1. 0 \in Int /\ 0 * Size = 0
          BY <2>0
        <4> HIDE DEF q
        <4>. QED
          BY <2>0, <3>3, <4>1, Products
      <3>5. covered = {}
        <4> HIDE DEF q
        <4>. QED
          BY <1>3, <2>0, <3>4
      <3> HIDE DEF covered
      <3>6. (Periods \ traded) \cap covered = {} /\ lost = 0
        BY <1>1, <2>2, <3>5
      <3>. QED
        BY <3>6, FS_EmptySet
    <2>3. CASE k # 0
      <3>1. PICK j \in Nat : k = j + 1 /\ j = k - 1
        <4>1. k - 1 \in Nat /\ k = (k - 1) + 1
          BY <2>3
        <4>. QED
          BY <4>1
      <3>2. BatchBegin(k) = BatchBegin(j) + Size /\ BatchBegin(j) \in Nat
        BY <3>1, BatchBeginIs
      <3>3. PICK y \in Nat : y = j * Size
        BY <2>0, <3>1
      <3>4. BatchBegin(j) = request.start + y
        BY <3>3 DEF BatchBegin
      <3>5. BatchBegin(j) < request.end /\ lost = Missing(BatchBegin(j))
        BY <1>1, <2>3, <3>1
      <3>6. x - y \in 0..(Size - 1)
        <4>1. /\ request.start + y < request.end /\ request.start + y + Size >= request.end
              /\ request.start \in Nat /\ request.end \in Nat
          BY <1>1, <1>2, <1>3, <3>2, <3>4, <3>5
        <4> DEFINE a == request.start
                   b == request.end
        <4>2. a \in Nat /\ b \in Nat /\ a + y < b /\ a + y + Size >= b /\ Size \in Nat
          BY <2>0, <4>1
        <4>3. x = b - a - 1
          OBVIOUS
        <4> HIDE DEF a, b, x
        <4>. QED
          BY <3>3, <4>2, <4>3
      <3>7. q = j
        <4>1. (j * Size + (x - y)) \div Size = j
          <5>1. j \in Int
            BY <3>1
          <5> HIDE DEF x
          <5>. QED
            BY <2>0, <3>6, <5>1, Quotient
        <4>2. j * Size + (x - y) = x
          BY <2>0, <3>3
        <4>. QED
          BY <4>1, <4>2
      <3>8. covered = request.start..(BatchBegin(j) - 1)
        <4>1. covered = request.start..(request.start + y - 1)
          BY <3>3, <3>7
        <4> HIDE DEF covered
        <4>. QED
          BY <1>3, <3>2, <3>4, <4>1
      <3>. QED
        BY <3>5, <3>8 DEF Missing
    <2>. QED
      BY <2>2, <2>3
  <1>. QED
    BY <1>4, <1>5, <1>6 DEF Over, DownloadIsExact

LEMMA TruncatedType ==
  ASSUME NEW r \in Requests
  PROVE  /\ Truncated(r) \in [start : Nat, end : Nat]
         /\ Truncated(r).start % Interval = 0 /\ Truncated(r).end <= Now
  <1>1. /\ r \in [start : Nat, end : Nat] /\ Day \in Nat \ {0} /\ Day % Interval = 0 /\ Now \in Nat
        /\ Interval \in Nat \ {0}
    BY TimeAssumption
  <1>2. ASSUME NEW t \in Nat
        PROVE  Midnight(t) \in Nat /\ Midnight(t) <= t /\ Midnight(t) % Interval = 0
    <2>1. PICK q \in Int : t = Day * q + (t % Day) /\ t % Day \in 0..(Day - 1)
      <3>1. t \in Int
        BY <1>2
      <3>. QED
        BY <1>1, <3>1, Division
    <2>2. PICK d \in Int : Day = d * Interval
      <3>1. Day \in Int
        BY <1>1
      <3>. QED
        BY <1>1, <3>1, MultipleIs
    <2>3. Midnight(t) = Day * q /\ Day * q \in Int
      <3>1. Day * q \in Int /\ t % Day \in Int
        BY <1>1, <2>1
      <3>2. Midnight(t) = t - (t % Day)
        BY DEF Midnight
      <3>. QED
        BY <2>1, <3>1, <3>2
    <2>4. Day * q = (d * q) * Interval /\ d * q \in Int
      BY <1>1, <2>2
    <2>5. Midnight(t) % Interval = 0
      <3>1. Midnight(t) \in Int /\ \E p \in Int : Midnight(t) = p * Interval
        BY <2>3, <2>4
      <3>. QED
        BY <1>1, <3>1, MultipleIs
    <2>6. t % Day <= t
      BY <1>1, <1>2
    <2>. QED
      BY <1>1, <2>1, <2>5, <2>6 DEF Midnight
  <1>3. /\ Truncated(r) = [start |-> Midnight(r.start),
                           end |-> IF Now > r.end THEN Midnight(r.end) ELSE Now]
    BY DEF Truncated
  <1>4. /\ Midnight(r.start) \in Nat /\ Midnight(r.start) % Interval = 0
        /\ Midnight(r.end) \in Nat /\ Midnight(r.end) <= r.end /\ r.end \in Nat
    BY <1>1, <1>2
  <1>. QED
    BY <1>1, <1>3, <1>4

LEMMA DownloadInit == ASSUME Init PROVE DownloadType /\ UnderWay /\ Over
  <1>1. PICK r \in Requests : request = Truncated(r)
    BY DEF Init
  <1>2. DownloadType
    BY <1>1, TruncatedType DEF Init, DownloadType
  <1>3. UnderWay
    <2>1. BatchBegin(0) = request.start /\ request.start \in Nat
      BY <1>2, BatchBeginIs DEF DownloadType
    <2>2. Entered(<<>>)
      BY DEF Entered, Ascending
    <2>3. Missing(request.start) = 0
      <3>1. request.start..(request.start - 1) = {}
        BY <2>1
      <3>2. (Periods \ traded) \cap (request.start..(request.start - 1)) = {}
        BY <3>1
      <3>. QED
        BY <3>2, FS_EmptySet DEF Missing
    <2>4. begin = request.start /\ buffer = <<>> /\ lost = 0
      BY DEF Init
    <2>5. \A t \in traded : t \in Nat
      BY <1>2 DEF DownloadType, Periods
    <2> SUFFICES \E k \in Nat :
          /\ begin = BatchBegin(k)
          /\ Entered(buffer)
          /\ \A t \in traded : request.start <= t /\ t < begin /\ t < request.end =>
               \E i \in 1..Len(buffer) : buffer[i] = Written(InMarket(t))
          /\ begin < request.end =>
               lost = Missing(begin) /\ \A i \in 1..Len(buffer) : buffer[i].time < begin
          /\ begin >= request.end =>
               IF k = 0 THEN lost = 0
               ELSE BatchBegin(k - 1) < request.end /\ lost = Missing(BatchBegin(k - 1))
      BY DEF UnderWay
    <2>6. WITNESS 0 \in Nat
    <2>. QED
      BY <2>1, <2>2, <2>3, <2>4, <2>5
  <1>4. Over
    BY DEF Init, Over, Downloaded
  <1>. QED
    BY <1>2, <1>3, <1>4

(* What the steps after the download leave as it was.                      *)
LEMMA LaterSteps ==
  ASSUME Next \/ UNCHANGED vars, ~DownloadBatch, ~DownloadFails, ~DownloadEnds
  PROVE  /\ UNCHANGED <<traded, request, begin, buffer, lost, file>>
         /\ UNCHANGED stage \/ stage' \in {"failed", "panicked", "feed", "sending", "closed"}
         /\ stage' = stage \/ stage \in {"file", "feed", "sending"}
  <1>1. CASE NewCSVFeed
    BY <1>1 DEF NewCSVFeed, download
  <1>2. ASSUME NEW duration \in Limits, Limit(duration)
        PROVE  /\ UNCHANGED <<traded, download, file>> /\ stage = "feed"
               /\ stage' = stage \/ stage' = "panicked"
    BY <1>2 DEF Limit
  <1>3. ASSUME NEW limit \in Warmups, CandlesByLimit(limit)
        PROVE  /\ UNCHANGED <<traded, download, file>> /\ stage = "feed"
               /\ stage' = stage \/ stage' = "failed"
    BY <1>3 DEF CandlesByLimit
  <1>4. CASE CandlesSubscription
    BY <1>4 DEF CandlesSubscription, download
  <1>5. CASE SendCandle
    BY <1>5 DEF SendCandle, download
  <1>6. CASE UNCHANGED vars
    BY <1>6 DEF vars, download
  <1>. QED
    BY <1>1, <1>2, <1>3, <1>4, <1>5, <1>6 DEF Next, download

LEMMA OverStays ==
  ASSUME Over, UNCHANGED <<traded, request, lost, file>>, Downloaded' => Downloaded
  PROVE  Over'
  <1>1. Downloaded' => DownloadIsExact' /\ Downloaded
    <2> SUFFICES ASSUME Downloaded' PROVE DownloadIsExact' /\ Downloaded
      OBVIOUS
    <2>1. DownloadedOnce /\ LostIsCounted /\ Downloaded
      BY DEF Over, DownloadIsExact
    <2> USE DEF Downloaded
    <2>2. DownloadedOnce'
      BY <2>1 DEF DownloadedOnce
    <2>3. LostIsCounted'
      BY <2>1 DEF LostIsCounted
    <2>. QED
      BY <2>1, <2>2, <2>3 DEF DownloadIsExact
  <1>2. Entered(file)' = Entered(file)
    BY DEF Entered, Ascending
  <1>. QED
    BY <1>1, <1>2 DEF Over

LEMMA DownloadNext ==
  ASSUME DownloadType, UnderWay, Over, [Next]_vars
  PROVE  DownloadType' /\ UnderWay' /\ Over'
  <1>0. DownloadType'
    <2>1. UNCHANGED <<traded, request>>
      BY LaterSteps DEF DownloadBatch, DownloadFails, DownloadEnds, download
    <2>. QED
      BY <2>1 DEF DownloadType
  <1>1. CASE DownloadBatch
    BY <1>0, <1>1, UnderWayStep DEF DownloadBatch, Over, Downloaded
  <1>2. CASE DownloadFails
    BY <1>0, <1>2 DEF DownloadFails, UnderWay, Over, Downloaded
  <1>3. CASE DownloadEnds
    BY <1>0, <1>3, EndIsExact DEF DownloadEnds, UnderWay
  <1>4. CASE ~DownloadBatch /\ ~DownloadFails /\ ~DownloadEnds
    <2>1. /\ UNCHANGED <<traded, request, begin, buffer, lost, file>>
          /\ UNCHANGED stage \/ stage' \in {"failed", "panicked", "feed", "sending", "closed"}
          /\ stage' = stage \/ stage \in {"file", "feed", "sending"}
      BY <1>4, LaterSteps
    <2>2. Downloaded' => Downloaded
      BY <2>1 DEF Downloaded
    <2>3. Over'
      BY <2>1, <2>2, OverStays
    <2>4. UnderWay'
      <3>1. CASE stage' = stage
        BY <2>1, <3>1 DEF UnderWay, BatchBegin, Entered, Ascending, Missing
      <3>2. CASE stage' # stage
        BY <2>1, <3>2 DEF UnderWay
      <3>. QED
        BY <3>1, <3>2
    <2>. QED
      BY <1>0, <2>3, <2>4
  <1>. QED
    BY <1>1, <1>2, <1>3, <1>4

LEMMA OverIsExact == ASSUME Over PROVE DownloadIsExact
  BY DEF Over, DownloadIsExact, DownloadedOnce, LostIsCounted

(* The file has each candle traded in the interval once, in order, and no  *)
(* other but perhaps the one at its end, and the missing ones are counted: *)
(* the batches of Download (download/download.go) neither overlap nor      *)
(* leave a gap, whatever the sizes, the interval and the missing periods.  *)
THEOREM TheDownloadIsExact == Spec => []DownloadIsExact
  BY DownloadInit, DownloadNext, OverIsExact, PTL DEF Spec

-----------------------------------------------------------------------------
(* The lines of the file.                                                  *)

Candle == [time : Nat, updated : Nat, open : Int, close : Int, low : Int, high : Int,
           volume : Int, complete : BOOLEAN]

FeedType == target \in Targets /\ heikin \in BOOLEAN

(* A function on 1..n of which each value follows from the one before it.  *)
IsChain(f, V, n, a, step) ==
  /\ f \in [1..n -> V]
  /\ n > 0 => f[1] = a
  /\ \A i \in 2..n : f[i] = step[<<i, f[i - 1]>>]

LEMMA ChainExists ==
  ASSUME NEW V, NEW n \in Nat, NEW a \in V, NEW step,
         \A i \in 1..n : \A v \in V : step[<<i, v>>] \in V
  PROVE  \E f : IsChain(f, V, n, a, step)
  <1> DEFINE P == {k \in Nat : k <= n => \E f : IsChain(f, V, k, a, step)}
  <1>1. 0 \in P
    <2>1. IsChain([i \in 1..0 |-> a], V, 0, a, step)
      BY DEF IsChain
    <2>. QED
      BY <2>1
  <1>2. ASSUME NEW k \in Nat, k \in P PROVE k + 1 \in P
    <2> SUFFICES ASSUME k + 1 <= n PROVE \E f : IsChain(f, V, k + 1, a, step)
      OBVIOUS
    <2>1. PICK f : IsChain(f, V, k, a, step)
      BY <1>2
    <2> DEFINE v == IF k = 0 THEN a ELSE step[<<k + 1, f[k]>>]
               g == [i \in 1..(k + 1) |-> IF i <= k THEN f[i] ELSE v]
    <2>0. /\ f \in [1..k -> V] /\ (k > 0 => f[1] = a)
          /\ \A i \in 2..k : f[i] = step[<<i, f[i - 1]>>]
      BY <2>1 DEF IsChain
    <2>2. v \in V
      <3>1. k # 0 => k \in 1..k /\ k + 1 \in 1..n
        OBVIOUS
      <3>2. k # 0 => f[k] \in V
        BY <2>0, <3>1
      <3>. QED
        BY <3>1, <3>2
    <2>3. \A i \in 1..k : g[i] = f[i] /\ f[i] \in V
      BY <2>0
    <2>4. g[k + 1] = v
      OBVIOUS
    <2>5. g \in [1..(k + 1) -> V]
      <3>1. \A i \in 1..(k + 1) : i \in 1..k \/ i = k + 1
        OBVIOUS
      <3>2. \A i \in 1..(k + 1) : g[i] \in V
        <4> HIDE DEF g, v
        <4>. QED
          BY <2>2, <2>3, <2>4, <3>1
      <3>3. g = [i \in 1..(k + 1) |-> g[i]]
        OBVIOUS
      <3> HIDE DEF g
      <3>. QED
        BY <3>2, <3>3
    <2>6. g[1] = a
      BY <2>0, <2>3, <2>4
    <2>7. ASSUME NEW i \in 2..(k + 1) PROVE g[i] = step[<<i, g[i - 1]>>]
      <3>1. CASE i <= k
        <4>1. i \in 2..k /\ i \in 1..k /\ i - 1 \in 1..k
          BY <3>1
        <4> HIDE DEF g
        <4>. QED
          BY <2>0, <2>3, <4>1
      <3>2. CASE i = k + 1
        <4>1. k # 0 /\ i - 1 = k /\ k \in 1..k
          BY <3>2
        <4> HIDE DEF g
        <4>. QED
          BY <2>3, <2>4, <3>2, <4>1
      <3>. QED
        BY <3>1, <3>2
    <2> HIDE DEF g
    <2>8. IsChain(g, V, k + 1, a, step)
      BY <2>5, <2>6, <2>7 DEF IsChain
    <2>. QED
      BY <2>8
  <1> HIDE DEF P
  <1>3. n \in P
    BY <1>1, <1>2, EveryNatural
  <1>. QED
    BY <1>3 DEF P

LEMMA HeikinAshiType ==
  ASSUME NEW c \in Candle, NEW p, p = <<>> \/ \E b \in Candle : p = <<b>>
  PROVE  /\ HeikinAshi(p, c) \in Candle
         /\ HeikinAshi(p, c).time = c.time /\ HeikinAshi(p, c).updated = c.updated
         /\ HeikinAshi(p, c).complete = c.complete
  <1> DEFINE open == IF p = <<>> THEN (c.open + c.close) \div 2
                     ELSE (p[1].open + p[1].close) \div 2
             close == (c.open + c.high + c.low + c.close) \div 4
  <1>1. open \in Int
    <2>1. CASE p = <<>>
      BY <2>1 DEF Candle
    <2>2. ASSUME NEW b \in Candle, p = <<b>> PROVE open \in Int
      <3>1. p # <<>> /\ p[1] = b
        BY <2>2
      <3>2. open = (b.open + b.close) \div 2
        BY <3>1
      <3> HIDE DEF open
      <3>. QED
        BY <3>2 DEF Candle
    <2>. QED
      BY <2>1, <2>2
  <1>2. close \in Int
    BY DEF Candle
  <1>3. HeikinAshi(p, c) = [c EXCEPT !.open = open, !.close = close,
                              !.high = Highest(@, Highest(open, close)),
                              !.low = Lowest(@, Lowest(open, close))]
    BY DEF HeikinAshi
  <1> HIDE DEF open, close
  <1>. QED
    BY <1>1, <1>2, <1>3 DEF Candle, Highest, Lowest

LEMMA HeikinAshiLines ==
  ASSUME NEW candles \in Seq(Candle)
  PROVE  /\ ToHeikinAshi(candles) \in Seq(Candle) /\ Len(ToHeikinAshi(candles)) = Len(candles)
         /\ \A i \in 1..Len(candles) :
              /\ ToHeikinAshi(candles)[i].time = candles[i].time
              /\ ToHeikinAshi(candles)[i].updated = candles[i].updated
              /\ ToHeikinAshi(candles)[i].complete = candles[i].complete
  <1> DEFINE n == Len(candles)
             Done(f) == f = [i \in DOMAIN candles |->
                               HeikinAshi(IF i = 1 THEN <<>> ELSE <<f[i - 1]>>, candles[i])]
             d == ToHeikinAshi(candles)
  <1>1. n \in Nat /\ DOMAIN candles = 1..n /\ \A i \in 1..n : candles[i] \in Candle
    OBVIOUS
  <1>2. d = CHOOSE f : Done(f)
    BY DEF ToHeikinAshi
  <1>3. \E f : Done(f) /\ f \in [1..n -> Candle]
    <2>1. CASE n = 0
      <3> DEFINE f == [i \in {} |-> candles]
      <3>1. 1..n = {} /\ DOMAIN candles = {}
        BY <1>1, <2>1
      <3>2. Done(f) /\ f \in [{} -> Candle]
        BY <3>1
      <3>. QED
        BY <3>1, <3>2
    <2>2. CASE n > 0
      <3> DEFINE a == HeikinAshi(<<>>, candles[1])
                 step == [x \in (1..n) \X Candle |-> HeikinAshi(<<x[2]>>, candles[x[1]])]
      <3>1. a \in Candle
        BY <1>1, <2>2, HeikinAshiType
      <3>2. step \in [(1..n) \X Candle -> Candle]
        BY <1>1, HeikinAshiType
      <3>3. PICK f \in [1..n -> Candle] :
              f[1] = a /\ \A i \in 2..n : f[i] = step[<<i, f[i - 1]>>]
        <4>1. /\ n \in Nat /\ a \in Candle
              /\ \A i \in 1..n : \A v \in Candle : step[<<i, v>>] \in Candle
          BY <1>1, <3>1, <3>2
        <4> HIDE DEF a, step, n
        <4>2. PICK f : IsChain(f, Candle, n, a, step)
          BY ONLY <4>1, ChainExists
        <4>. QED
          BY <2>2, <4>2 DEF IsChain
      <3>4. ASSUME NEW i \in 1..n
            PROVE  f[i] = HeikinAshi(IF i = 1 THEN <<>> ELSE <<f[i - 1]>>, candles[i])
        <4>1. CASE i = 1
          BY <3>3, <4>1
        <4>2. CASE i # 1
          <5>1. i \in 2..n /\ i - 1 \in 1..n
            BY <1>1, <4>2
          <5>2. <<i, f[i - 1]>> \in (1..n) \X Candle
            BY <5>1
          <5>3. step[<<i, f[i - 1]>>] = HeikinAshi(<<f[i - 1]>>, candles[i])
            BY <5>2
          <5>. QED
            BY <3>3, <4>2, <5>1, <5>3
        <4>. QED
          BY <4>1, <4>2
      <3>5. Done(f)
        BY <1>1, <3>4
      <3>. QED
        BY <3>5
    <2>. QED
      BY <1>1, <2>1, <2>2
  <1>4. Done(d)
    BY <1>2, <1>3
  <1> HIDE DEF d
  <1>5. DOMAIN d = 1..n
    BY <1>1, <1>4
  <1>6. \A i \in 1..n : d[i] = HeikinAshi(IF i = 1 THEN <<>> ELSE <<d[i - 1]>>, candles[i])
    BY <1>1, <1>4
  <1> DEFINE P == {i \in Nat : i \in 1..n => d[i] \in Candle}
  <1>7. 0 \in P
    OBVIOUS
  <1>8. ASSUME NEW i \in Nat, i \in P PROVE i + 1 \in P
    <2> SUFFICES ASSUME i + 1 \in 1..n PROVE d[i + 1] \in Candle
      OBVIOUS
    <2> DEFINE p == IF i + 1 = 1 THEN <<>> ELSE <<d[i + 1 - 1]>>
    <2>1. p = <<>> \/ \E b \in Candle : p = <<b>>
      <3>1. i # 0 => i \in 1..n /\ i + 1 - 1 = i
        BY <1>1
      <3>2. i # 0 => d[i] \in Candle
        BY <1>8, <3>1
      <3>. QED
        BY <3>1, <3>2
    <2>2. d[i + 1] = HeikinAshi(p, candles[i + 1])
      BY <1>6
    <2> HIDE DEF p
    <2>. QED
      BY <1>1, <2>1, <2>2, HeikinAshiType
  <1> HIDE DEF P
  <1>9. \A i \in 1..n : d[i] \in Candle
    <2>1. Nat \subseteq P
      BY <1>7, <1>8, EveryNatural
    <2>. QED
      BY <2>1 DEF P
  <1>10. ASSUME NEW i \in 1..n
         PROVE  /\ d[i].time = candles[i].time /\ d[i].updated = candles[i].updated
                /\ d[i].complete = candles[i].complete
    <2> DEFINE p == IF i = 1 THEN <<>> ELSE <<d[i - 1]>>
    <2>1. p = <<>> \/ \E b \in Candle : p = <<b>>
      <3>1. i # 1 => i - 1 \in 1..n
        BY <1>1
      <3>. QED
        BY <1>9, <3>1
    <2>2. d[i] = HeikinAshi(p, candles[i])
      BY <1>6
    <2> HIDE DEF p
    <2>. QED
      BY <1>1, <2>1, <2>2, HeikinAshiType
  <1>11. d \in Seq(Candle) /\ Len(d) = n
    <2>1. d = [i \in 1..n |-> d[i]]
      BY <1>1, <1>4
    <2>. QED
      BY <1>1, <1>9, <2>1
  <1>. QED
    BY <1>10, <1>11 DEF d

-----------------------------------------------------------------------------
(* Candles made of candles.                                                *)

Volumes(lines) == [k \in DOMAIN lines |-> lines[k].volume]

(* A candle is made of the lines from one to another.                      *)
MadeFrom(u, lines, a, b) ==
  /\ u.time = lines[a].time /\ u.updated = lines[b].updated
  /\ u.open = lines[a].open /\ u.close = lines[b].close
  /\ \E k \in a..b : u.high = lines[k].high
  /\ \A k \in a..b : u.high >= lines[k].high
  /\ \E k \in a..b : u.low = lines[k].low
  /\ \A k \in a..b : u.low <= lines[k].low
  /\ u.volume = SumFunctionOnSet(Volumes(lines), a..b)

LEMMA VolumesAre ==
  ASSUME NEW lines \in Seq(Candle), NEW a \in 1..Len(lines), NEW b \in 1..Len(lines)
  PROVE  /\ IsFiniteSet(a..b) /\ \A k \in a..b : Volumes(lines)[k] \in Int
         /\ \A k \in 1..Len(lines) : Volumes(lines)[k] = lines[k].volume /\ lines[k] \in Candle
  <1>1. a \in Int /\ b \in Int /\ a..b \subseteq 1..Len(lines)
    OBVIOUS
  <1>2. IsFiniteSet(a..b)
    BY <1>1, FS_Interval
  <1>3. \A k \in 1..Len(lines) : lines[k] \in Candle /\ k \in DOMAIN lines
    OBVIOUS
  <1>4. \A k \in 1..Len(lines) : Volumes(lines)[k] = lines[k].volume
    BY <1>3 DEF Volumes
  <1>5. \A k \in 1..Len(lines) : Volumes(lines)[k] \in Int
    BY <1>3, <1>4 DEF Candle
  <1>. QED
    BY <1>1, <1>2, <1>3, <1>4, <1>5

LEMMA MadeOfOne ==
  ASSUME NEW lines \in Seq(Candle), NEW a \in 1..Len(lines), NEW x \in BOOLEAN
  PROVE  /\ MadeFrom([lines[a] EXCEPT !.complete = x], lines, a, a)
         /\ [lines[a] EXCEPT !.complete = x] \in Candle
         /\ [lines[a] EXCEPT !.complete = x].complete = x
  <1> DEFINE u == [lines[a] EXCEPT !.complete = x]
             v == Volumes(lines)
  <1>1. lines[a] \in Candle /\ a \in Int /\ a..a = {a}
    OBVIOUS
  <1>2. /\ u \in Candle /\ u.complete = x
        /\ u.time = lines[a].time /\ u.updated = lines[a].updated
        /\ u.open = lines[a].open /\ u.close = lines[a].close /\ u.high = lines[a].high
        /\ u.low = lines[a].low /\ u.volume = lines[a].volume
    BY <1>1 DEF Candle
  <1>3. lines[a].high \in Int /\ lines[a].low \in Int /\ lines[a].volume \in Int
    BY <1>1 DEF Candle
  <1>4. v[a] = lines[a].volume
    BY VolumesAre
  <1> HIDE DEF u, v
  <1>5. SumFunctionOnSet(v, {a}) = lines[a].volume
    <2>1. IsFiniteSet({}) /\ SumFunctionOnSet(v, {}) = 0
      BY FS_EmptySet, SumOfNothing
    <2>2. SumFunctionOnSet(v, {} \cup {a}) = v[a] + SumFunctionOnSet(v, {})
      BY <1>3, <1>4, <2>1, SumOfOneMore
    <2>3. {} \cup {a} = {a}
      OBVIOUS
    <2>. QED
      BY <1>3, <1>4, <2>1, <2>2, <2>3
  <1>6. MadeFrom(u, lines, a, a)
    BY <1>1, <1>2, <1>3, <1>5 DEF MadeFrom, v
  <1>. QED
    BY <1>2, <1>6 DEF u

(* A candle with one line more.                                            *)
Grown(u, lines, b, x) == Merged(u, [lines[b + 1] EXCEPT !.complete = x])

LEMMA MadeOfMore ==
  ASSUME NEW lines \in Seq(Candle), NEW a \in 1..Len(lines), NEW b \in 1..Len(lines), a <= b,
         b + 1 <= Len(lines), NEW u \in Candle, MadeFrom(u, lines, a, b), NEW x \in BOOLEAN
  PROVE  /\ Grown(u, lines, b, x) \in Candle /\ Grown(u, lines, b, x).complete = x
         /\ MadeFrom(Grown(u, lines, b, x), lines, a, b + 1)
  <1> DEFINE c == lines[b + 1]
             w == Merged(u, [c EXCEPT !.complete = x])
             v == Volumes(lines)
  <1>0. a \in Int /\ b \in Int /\ b + 1 \in 1..Len(lines)
    OBVIOUS
  <1>1. c \in Candle
    BY <1>0
  <1>2. /\ w \in Candle /\ w.complete = x
        /\ w.time = u.time /\ w.updated = c.updated /\ w.open = u.open /\ w.close = c.close
        /\ w.high = Highest(u.high, c.high) /\ w.low = Lowest(u.low, c.low)
        /\ w.volume = c.volume + u.volume
    <2> DEFINE d == [c EXCEPT !.complete = x]
    <2>1. /\ d \in Candle /\ d.complete = x /\ d.updated = c.updated /\ d.close = c.close
          /\ d.high = c.high /\ d.low = c.low /\ d.volume = c.volume
      BY <1>1 DEF Candle
    <2>2. w = [d EXCEPT !.time = u.time, !.open = u.open, !.high = Highest(u.high, @),
                        !.low = Lowest(u.low, @), !.volume = @ + u.volume]
      BY DEF Merged
    <2> HIDE DEF d, w, c
    <2>3. /\ Highest(u.high, d.high) \in Int /\ Lowest(u.low, d.low) \in Int
          /\ d.volume + u.volume \in Int /\ u.time \in Nat /\ u.open \in Int
      <3>1. /\ u.high \in Int /\ u.low \in Int /\ u.volume \in Int /\ u.time \in Nat
            /\ u.open \in Int /\ d.high \in Int /\ d.low \in Int /\ d.volume \in Int
        BY <2>1 DEF Candle
      <3>. QED
        BY <3>1 DEF Highest, Lowest
    <2>. QED
      BY <2>1, <2>2, <2>3 DEF Candle
  <1>3. a..(b + 1) = (a..b) \cup {b + 1} /\ b + 1 \notin a..b
    BY <1>0
  <1>4. /\ IsFiniteSet(a..b) /\ \A k \in a..b : v[k] \in Int
        /\ v[b + 1] = c.volume
    BY <1>0, VolumesAre
  <1>5. /\ c.high \in Int /\ c.low \in Int /\ c.volume \in Int
        /\ u.high \in Int /\ u.low \in Int /\ u.volume \in Int
    BY <1>1 DEF Candle
  <1>6. \A k \in a..b : lines[k].high \in Int /\ lines[k].low \in Int
    <2>1. \A k \in a..b : k \in 1..Len(lines)
      BY <1>0
    <2>2. \A k \in a..b : lines[k] \in Candle
      BY <2>1
    <2>. QED
      BY <2>2 DEF Candle
  <1> HIDE DEF w, c, v
  <1>7. SumFunctionOnSet(v, a..(b + 1)) = c.volume + u.volume
    <2>1. SumFunctionOnSet(v, (a..b) \cup {b + 1}) = v[b + 1] + SumFunctionOnSet(v, a..b)
      BY <1>3, <1>4, <1>5, SumOfOneMore
    <2>2. u.volume = SumFunctionOnSet(v, a..b)
      BY DEF MadeFrom, v
    <2>. QED
      BY <1>3, <1>4, <2>1, <2>2
  <1>8. w.volume = SumFunctionOnSet(v, a..(b + 1))
    BY <1>2, <1>7
  <1>9. /\ \E k \in a..(b + 1) : w.high = lines[k].high
        /\ \A k \in a..(b + 1) : w.high >= lines[k].high
    <2>1. PICK k \in a..b : u.high = lines[k].high
      BY DEF MadeFrom
    <2>2. \A j \in a..b : u.high >= lines[j].high
      BY DEF MadeFrom
    <2>3. k \in a..(b + 1) /\ b + 1 \in a..(b + 1)
      BY <1>3
    <2>4. w.high = (IF u.high > c.high THEN u.high ELSE c.high) /\ c.high = lines[b + 1].high
      BY <1>2 DEF Highest, c
    <2>5. w.high >= u.high /\ w.high >= c.high /\ w.high \in Int
          /\ (w.high = u.high \/ w.high = c.high)
      BY <1>5, <2>4
    <2>6. ASSUME NEW j \in a..(b + 1) PROVE w.high >= lines[j].high
      <3>1. CASE j \in a..b
        BY <1>5, <1>6, <2>2, <2>5, <3>1
      <3>2. CASE j = b + 1
        BY <2>4, <2>5, <3>2
      <3>. QED
        BY <1>3, <3>1, <3>2
    <2>. QED
      BY <2>1, <2>3, <2>4, <2>5, <2>6
  <1>10. /\ \E k \in a..(b + 1) : w.low = lines[k].low
         /\ \A k \in a..(b + 1) : w.low <= lines[k].low
    <2>1. PICK k \in a..b : u.low = lines[k].low
      BY DEF MadeFrom
    <2>2. \A j \in a..b : u.low <= lines[j].low
      BY DEF MadeFrom
    <2>3. k \in a..(b + 1) /\ b + 1 \in a..(b + 1)
      BY <1>3
    <2>4. w.low = (IF u.low < c.low THEN u.low ELSE c.low) /\ c.low = lines[b + 1].low
      BY <1>2 DEF Lowest, c
    <2>5. w.low <= u.low /\ w.low <= c.low /\ w.low \in Int
          /\ (w.low = u.low \/ w.low = c.low)
      BY <1>5, <2>4
    <2>6. ASSUME NEW j \in a..(b + 1) PROVE w.low <= lines[j].low
      <3>1. CASE j \in a..b
        BY <1>5, <1>6, <2>2, <2>5, <3>1
      <3>2. CASE j = b + 1
        BY <2>4, <2>5, <3>2
      <3>. QED
        BY <1>3, <3>1, <3>2
    <2>. QED
      BY <2>1, <2>3, <2>4, <2>5, <2>6
  <1>11. w.time = lines[a].time /\ w.open = lines[a].open
         /\ w.updated = lines[b + 1].updated /\ w.close = lines[b + 1].close
    BY <1>2 DEF MadeFrom, c
  <1>12. MadeFrom(w, lines, a, b + 1)
    BY <1>8, <1>9, <1>10, <1>11 DEF MadeFrom, v
  <1>. QED
    BY <1>2, <1>12 DEF w, c, Grown

-----------------------------------------------------------------------------
(* Resampling.                                                             *)

New(candles, i) == [candles[i] EXCEPT !.complete = IsLastCandlePeriod(candles[i].time)]

LEMMA NewType ==
  ASSUME NEW candles \in Seq(Candle), NEW i \in 1..Len(candles)
  PROVE  /\ IsLastCandlePeriod(candles[i].time) \in BOOLEAN
         /\ New(candles, i) \in Candle
         /\ New(candles, i).complete = IsLastCandlePeriod(candles[i].time)
  <1>1. PICK x \in BOOLEAN : x = IsLastCandlePeriod(candles[i].time)
    BY DEF IsLastCandlePeriod
  <1>2. New(candles, i) = [candles[i] EXCEPT !.complete = x]
    BY <1>1 DEF New
  <1>. QED
    BY <1>1, <1>2, MadeOfOne

LEMMA MergedType ==
  ASSUME NEW u \in Candle, NEW c \in Candle
  PROVE  Merged(u, c) \in Candle /\ Merged(u, c).complete = c.complete
  <1>1. /\ Highest(u.high, c.high) \in Int /\ Lowest(u.low, c.low) \in Int
        /\ c.volume + u.volume \in Int /\ u.time \in Nat /\ u.open \in Int
    BY DEF Candle, Highest, Lowest
  <1>2. Merged(u, c) = [c EXCEPT !.time = u.time, !.open = u.open,
                         !.high = Highest(u.high, c.high), !.low = Lowest(u.low, c.low),
                         !.volume = c.volume + u.volume]
    BY DEF Merged, Candle
  <1>. QED
    BY <1>1, <1>2 DEF Candle

LEMMA UpdatesAre ==
  ASSUME NEW candles \in Seq(Candle), candles # <<>>
  PROVE  LET u == Updates(candles)
         IN  /\ u \in Seq(Candle) /\ Len(u) = Len(candles)
             /\ u[1] = New(candles, 1)
             /\ \A i \in 2..Len(candles) :
                  u[i] = IF ~u[i - 1].complete THEN Merged(u[i - 1], New(candles, i))
                         ELSE New(candles, i)
  <1> DEFINE n == Len(candles)
             Next1(v, i) == IF ~v.complete THEN Merged(v, New(candles, i)) ELSE New(candles, i)
             Done(f) == f = [i \in DOMAIN candles |->
                               IF i > 1 /\ ~f[i - 1].complete
                               THEN Merged(f[i - 1], New(candles, i)) ELSE New(candles, i)]
             u == Updates(candles)
  <1>1. n \in Nat \ {0} /\ DOMAIN candles = 1..n
    OBVIOUS
  <1>2. u = CHOOSE f : Done(f)
    BY DEF Updates, New
  <1>3. \A i \in 1..n : New(candles, i) \in Candle
    BY NewType
  <1>4. \A i \in 1..n : \A v \in Candle : Next1(v, i) \in Candle
    BY <1>3, MergedType
  <1>5. \E f : Done(f) /\ f \in [1..n -> Candle]
    <2> DEFINE a == New(candles, 1)
               step == [x \in (1..n) \X Candle |-> Next1(x[2], x[1])]
    <2>1. \A i \in 1..n : \A v \in Candle : step[<<i, v>>] = Next1(v, i)
      <3> HIDE DEF Next1, n
      <3> QED
        OBVIOUS
    <2>2. n \in Nat /\ a \in Candle /\ \A i \in 1..n : \A v \in Candle : step[<<i, v>>] \in Candle
      <3>1. 1 \in 1..n
        BY <1>1
      <3> HIDE DEF Next1, n, step
      <3>. QED
        BY <1>1, <1>3, <1>4, <2>1, <3>1
    <2> HIDE DEF a, step, n
    <2>3. PICK f : IsChain(f, Candle, n, a, step)
      BY ONLY <2>2, ChainExists
    <2>4. /\ f \in [1..n -> Candle] /\ f[1] = a
          /\ \A i \in 2..n : f[i] = step[<<i, f[i - 1]>>]
      BY <1>1, <2>3 DEF IsChain
    <2>5. ASSUME NEW i \in 1..n
          PROVE  f[i] = IF i > 1 /\ ~f[i - 1].complete
                        THEN Merged(f[i - 1], New(candles, i)) ELSE New(candles, i)
      <3>1. CASE i = 1
        BY <2>4, <3>1 DEF a
      <3>2. CASE i # 1
        <4>1. i \in 2..n /\ i - 1 \in 1..n /\ i > 1
          BY <1>1, <3>2
        <4>2. f[i] = Next1(f[i - 1], i)
          <5> HIDE DEF Next1
          <5>. QED
            BY <2>1, <2>4, <4>1
        <4>. QED
          BY <4>1, <4>2
      <3>. QED
        BY <3>1, <3>2
    <2>6. Done(f)
      BY <1>1, <2>4, <2>5
    <2>. QED
      BY <2>4, <2>6
  <1>6. Done(u)
    BY <1>2, <1>5
  <1> HIDE DEF u
  <1>7. DOMAIN u = 1..n /\ u = [i \in 1..n |-> u[i]]
    BY <1>1, <1>6
  <1>8. \A i \in 1..n : u[i] = IF i > 1 /\ ~u[i - 1].complete
                               THEN Merged(u[i - 1], New(candles, i)) ELSE New(candles, i)
    BY <1>1, <1>6
  <1>9. u[1] = New(candles, 1)
    BY <1>1, <1>8
  <1>10. \A i \in 2..n : i \in 1..n /\ i - 1 \in 1..n /\ u[i] = Next1(u[i - 1], i)
    <2> SUFFICES ASSUME NEW i \in 2..n
                 PROVE  i \in 1..n /\ i - 1 \in 1..n /\ u[i] = Next1(u[i - 1], i)
      OBVIOUS
    <2>1. i \in 1..n /\ i - 1 \in 1..n /\ i > 1
      BY <1>1
    <2>. QED
      BY <1>8, <2>1
  <1> DEFINE P == {i \in Nat : i \in 1..n => u[i] \in Candle}
  <1>11. 0 \in P
    OBVIOUS
  <1>12. ASSUME NEW i \in Nat, i \in P PROVE i + 1 \in P
    <2> SUFFICES ASSUME i + 1 \in 1..n PROVE u[i + 1] \in Candle
      OBVIOUS
    <2>1. CASE i = 0
      BY <1>3, <1>9, <2>1
    <2>2. CASE i # 0
      <3>1. i + 1 \in 2..n /\ i + 1 - 1 = i /\ i \in 1..n
        BY <1>1, <2>2
      <3>2. u[i] \in Candle /\ u[i + 1] = Next1(u[i], i + 1)
        BY <1>10, <1>12, <3>1
      <3> HIDE DEF Next1
      <3>. QED
        BY <1>4, <3>2
    <2>. QED
      BY <2>1, <2>2
  <1> HIDE DEF P
  <1>13. \A i \in 1..n : u[i] \in Candle
    <2>1. Nat \subseteq P
      BY <1>11, <1>12, EveryNatural
    <2>. QED
      BY <2>1 DEF P
  <1>14. u \in Seq(Candle) /\ Len(u) = n
    BY <1>1, <1>7, <1>13
  <1>. QED
    BY <1>9, <1>10, <1>14 DEF u

(* An update is made of the lines since the last that ended a period.      *)
Group(u, lines, o, i, g) ==
  /\ g \in 1..i
  /\ MadeFrom(u[i], lines, o + g, o + i)
  /\ u[i].complete = IsLastCandlePeriod(lines[o + i].time)
  /\ \A j \in g..(i - 1) : ~IsLastCandlePeriod(lines[o + j].time)
  /\ g = 1 \/ IsLastCandlePeriod(lines[o + g - 1].time)

LEMMA Groups ==
  ASSUME NEW lines \in Seq(Candle), NEW o \in Nat, o < Len(lines),
         NEW candles \in Seq(Candle), Len(candles) = Len(lines) - o,
         \A i \in 1..Len(candles) : candles[i] = lines[o + i]
  PROVE  \A i \in 1..Len(candles) : \E g \in 1..i : Group(Updates(candles), lines, o, i, g)
  <1> DEFINE n == Len(candles)
             u == Updates(candles)
             last(i) == IsLastCandlePeriod(lines[o + i].time)
  <1>1. n \in Nat \ {0} /\ candles # <<>> /\ n + o = Len(lines)
    OBVIOUS
  <1>2. \A i \in 1..n : o + i \in 1..Len(lines)
    BY <1>1
  <1>3. /\ u \in Seq(Candle) /\ Len(u) = n /\ u[1] = New(candles, 1)
        /\ \A i \in 2..n : u[i] = IF ~u[i - 1].complete THEN Merged(u[i - 1], New(candles, i))
                                  ELSE New(candles, i)
    BY <1>1, UpdatesAre
  <1>4. \A i \in 1..n : /\ last(i) \in BOOLEAN
                        /\ New(candles, i) = [lines[o + i] EXCEPT !.complete = last(i)]
    <2> SUFFICES ASSUME NEW i \in 1..n
                 PROVE  /\ last(i) \in BOOLEAN
                        /\ New(candles, i) = [lines[o + i] EXCEPT !.complete = last(i)]
      OBVIOUS
    <2>1. candles[i] = lines[o + i]
      OBVIOUS
    <2>. QED
      BY <2>1, NewType DEF New
  <1> HIDE DEF n, u, last
  <1>5. ASSUME NEW i \in 1..n
        PROVE  /\ MadeFrom(New(candles, i), lines, o + i, o + i)
               /\ New(candles, i).complete = last(i)
    <2>1. PICK a \in 1..Len(lines) : a = o + i
      BY <1>2
    <2>2. PICK x \in BOOLEAN : x = last(i)
      BY <1>4
    <2>3. New(candles, i) = [lines[a] EXCEPT !.complete = x]
      BY <1>4, <2>1, <2>2
    <2>. QED
      BY <2>1, <2>2, <2>3, MadeOfOne
  <1>6. ASSUME NEW i \in 1..n, u[i] = New(candles, i),
               i = 1 \/ last(i - 1)
        PROVE  Group(u, lines, o, i, i)
    <2>1. i \in Nat /\ i \in 1..i /\ i..(i - 1) = {} /\ o + i - 1 = o + (i - 1)
      BY <1>1
    <2>. QED
      BY <1>5, <1>6, <2>1 DEF Group, last
  <1> DEFINE P == {i \in Nat : i \in 1..n => \E g \in 1..i : Group(u, lines, o, i, g)}
  <1>7. 0 \in P
    OBVIOUS
  <1>8. ASSUME NEW i \in Nat, i \in P PROVE i + 1 \in P
    <2> SUFFICES ASSUME i + 1 \in 1..n
                 PROVE  \E g \in 1..(i + 1) : Group(u, lines, o, i + 1, g)
      OBVIOUS
    <2>1. CASE i = 0
      <3>1. Group(u, lines, o, 1, 1)
        BY <1>1, <1>3, <1>6
      <3>. QED
        BY <2>1, <3>1
    <2>2. CASE i # 0
      <3>1. i \in 1..n /\ i + 1 \in 2..n /\ i + 1 - 1 = i
        BY <1>1, <2>2
      <3>2. PICK g \in 1..i : Group(u, lines, o, i, g)
        BY <1>8, <3>1
      <3>3. u[i].complete = last(i) /\ u[i] \in Candle /\ last(i) \in BOOLEAN
        BY <1>3, <1>4, <3>1, <3>2 DEF Group, last
      <3>4. CASE last(i)
        <4>1. u[i + 1] = New(candles, i + 1)
          <5>1. u[i].complete
            BY <3>3, <3>4
          <5>2. u[i + 1] = IF ~u[i + 1 - 1].complete THEN Merged(u[i + 1 - 1], New(candles, i + 1))
                           ELSE New(candles, i + 1)
            BY <1>3, <3>1
          <5>. QED
            BY <3>1, <5>1, <5>2
        <4>2. Group(u, lines, o, i + 1, i + 1)
          BY <1>6, <3>1, <3>4, <4>1
        <4>. QED
          BY <4>2
      <3>5. CASE ~last(i)
        <4>1. u[i + 1] = Merged(u[i], New(candles, i + 1))
          <5>1. ~u[i].complete
            BY <3>3, <3>5
          <5>2. u[i + 1] = IF ~u[i + 1 - 1].complete THEN Merged(u[i + 1 - 1], New(candles, i + 1))
                           ELSE New(candles, i + 1)
            BY <1>3, <3>1
          <5>. QED
            BY <3>1, <5>1, <5>2
        <4>2. /\ o + g \in 1..Len(lines) /\ o + i \in 1..Len(lines)
              /\ o + g <= o + i /\ o + i + 1 <= Len(lines) /\ o + i + 1 = o + (i + 1)
          BY <1>1, <3>1
        <4>3. /\ MadeFrom(u[i], lines, o + g, o + i)
              /\ \A j \in g..(i - 1) : ~last(j)
              /\ g = 1 \/ last(g - 1)
          <5>1. o + g - 1 = o + (g - 1)
            OBVIOUS
          <5>. QED
            BY <3>2, <5>1 DEF Group, last
        <4>4. New(candles, i + 1) = [lines[o + i + 1] EXCEPT !.complete = last(i + 1)]
              /\ last(i + 1) \in BOOLEAN
          BY <1>4, <4>2
        <4>5. u[i + 1].complete = last(i + 1) /\ MadeFrom(u[i + 1], lines, o + g, o + i + 1)
          <5>1. PICK a \in 1..Len(lines) : a = o + g
            BY <4>2
          <5>2. PICK b \in 1..Len(lines) : b = o + i
            BY <4>2
          <5>3. PICK x \in BOOLEAN : x = last(i + 1)
            BY <4>4
          <5>4. u[i + 1] = Merged(u[i], [lines[b + 1] EXCEPT !.complete = x])
            BY <4>1, <4>4, <5>2, <5>3
          <5>5. a <= b /\ b + 1 <= Len(lines) /\ MadeFrom(u[i], lines, a, b) /\ u[i] \in Candle
            BY <3>3, <4>2, <4>3, <5>1, <5>2
          <5>6. u[i + 1].complete = x /\ MadeFrom(u[i + 1], lines, a, b + 1)
            <6>1. PICK v \in Candle : v = u[i]
              BY <5>5
            <6>2. MadeFrom(v, lines, a, b)
              BY <5>5, <6>1
            <6>3. /\ Grown(v, lines, b, x).complete = x
                  /\ MadeFrom(Grown(v, lines, b, x), lines, a, b + 1)
              BY <5>5, <6>2, MadeOfMore
            <6>4. u[i + 1] = Grown(v, lines, b, x)
              BY <5>4, <6>1 DEF Grown
            <6>. QED
              BY <6>3, <6>4
          <5>. QED
            BY <5>1, <5>2, <5>3, <5>6
        <4>6. \A j \in g..(i + 1 - 1) : ~last(j)
          <5>1. \A j \in g..(i + 1 - 1) : j \in g..(i - 1) \/ j = i
            BY <3>1
          <5>. QED
            BY <3>5, <4>3, <5>1
        <4>7. g \in 1..(i + 1) /\ o + g - 1 = o + (g - 1)
          BY <3>1
        <4>8. Group(u, lines, o, i + 1, g)
          BY <4>2, <4>3, <4>5, <4>6, <4>7 DEF Group, last
        <4>. QED
          BY <4>7, <4>8
      <3>. QED
        BY <3>4, <3>5
    <2>. QED
      BY <2>1, <2>2
  <1> HIDE DEF P
  <1>9. Nat \subseteq P
    BY <1>7, <1>8, EveryNatural
  <1>. QED
    BY <1>1, <1>9 DEF P, n, u

LEMMA LinesAre ==
  ASSUME DownloadType, Entered(file), FeedType
  PROVE  /\ Lines \in Seq(Candle) /\ Len(Lines) = Len(file) /\ Len(file) \in Nat
         /\ DOMAIN file = 1..Len(file) /\ DOMAIN Lines = 1..Len(file)
         /\ \A i \in 1..Len(file) : /\ Lines[i].time = file[i].time
                                    /\ Lines[i].updated = file[i].time
                                    /\ file[i].time \in Periods /\ file[i].time \in Nat
         /\ \A i, j \in 1..Len(file) : i < j => Lines[i].time < Lines[j].time
  <1> DEFINE n == Len(file)
             c == [i \in DOMAIN file |-> Read(file[i])]
  <1>1. file \in Seq(Line) /\ n \in Nat /\ DOMAIN file = 1..n
    BY DEF Entered
  <1>2. \A i \in 1..n : file[i].time \in Periods /\ file[i].time \in Nat
    <2>1. traded \in SUBSET Periods /\ Periods \subseteq Nat
      BY SizeIs DEF DownloadType, Periods
    <2>. QED
      BY <2>1 DEF Entered
  <1>3. \A i \in 1..n : /\ Read(file[i]) \in Candle
                        /\ Read(file[i]).time = file[i].time
                        /\ Read(file[i]).updated = file[i].time
    <2> SUFFICES ASSUME NEW i \in 1..n
                 PROVE  /\ Read(file[i]) \in Candle
                        /\ Read(file[i]).time = file[i].time
                        /\ Read(file[i]).updated = file[i].time
      OBVIOUS
    <2>1. file[i] \in Line
      BY <1>1
    <2>. QED
      BY <2>1 DEF Read, Line, Candle
  <1>4. /\ c \in Seq(Candle) /\ Len(c) = n
        /\ \A i \in 1..n : c[i].time = file[i].time /\ c[i].updated = file[i].time
    <2>1. c = [i \in 1..n |-> Read(file[i])]
      BY <1>1
    <2> HIDE DEF n, c
    <2>2. c \in Seq(Candle) /\ Len(c) = n
      BY <1>1, <1>3, <2>1
    <2>3. \A i \in 1..n : c[i] = Read(file[i])
      BY <2>1
    <2>. QED
      BY <1>3, <2>2, <2>3
  <1>5. Lines = IF heikin THEN ToHeikinAshi(c) ELSE c
    BY DEF Lines
  <1> HIDE DEF c
  <1>6. /\ Lines \in Seq(Candle) /\ Len(Lines) = n
        /\ \A i \in 1..n : Lines[i].time = file[i].time /\ Lines[i].updated = file[i].time
    <2>1. CASE heikin
      BY <1>4, <1>5, <2>1, HeikinAshiLines
    <2>2. CASE ~heikin
      BY <1>4, <1>5, <2>2
    <2>. QED
      BY <2>1, <2>2
  <1>7. \A i, j \in 1..n : i < j => Lines[i].time < Lines[j].time
    BY <1>6 DEF Entered, Ascending
  <1>8. DOMAIN Lines = 1..n
    BY <1>6
  <1>. QED
    BY <1>1, <1>2, <1>6, <1>7, <1>8

LEMMA FromFirstIs ==
  ASSUME NEW lines \in Seq(Candle), FromFirst(lines) # <<>>
  PROVE  \E o \in Nat :
           /\ o < Len(lines) /\ FromFirst(lines) \in Seq(Candle)
           /\ Len(FromFirst(lines)) = Len(lines) - o
           /\ \A i \in 1..Len(FromFirst(lines)) : FromFirst(lines)[i] = lines[o + i]
           /\ IsFirstCandlePeriod(lines[o + 1].time)
  <1> DEFINE begins == {i \in DOMAIN lines : IsFirstCandlePeriod(lines[i].time)}
             m == Min(begins)
  <1>1. begins # {} /\ FromFirst(lines) = SubSeq(lines, m, Len(lines))
    BY DEF FromFirst
  <1>2. begins \subseteq Nat /\ DOMAIN lines = 1..Len(lines) /\ Len(lines) \in Nat
    OBVIOUS
  <1>3. m \in begins
    <2> HIDE DEF begins
    <2>1. \E i \in begins : \A j \in begins : i <= j
      BY <1>1, <1>2, LeastNatural
    <2>. QED
      BY <2>1 DEF Min
  <1>4. m \in 1..Len(lines) /\ IsFirstCandlePeriod(lines[m].time)
    BY <1>2, <1>3
  <1> HIDE DEF m, begins
  <1>5. PICK o \in Nat : m = o + 1 /\ o < Len(lines)
    <2>1. m - 1 \in Nat /\ m = (m - 1) + 1 /\ m - 1 < Len(lines)
      BY <1>2, <1>4
    <2>. QED
      BY <2>1
  <1> DEFINE f == SubSeq(lines, o + 1, Len(lines))
  <1>6. /\ f \in Seq(Candle) /\ Len(f) = Len(lines) - o
        /\ \A i \in 1..Len(f) : f[i] = lines[o + i]
    <2>1. \A i \in (o + 1)..Len(lines) : lines[i] \in Candle
      BY <1>2
    <2>2. /\ f \in Seq(Candle)
          /\ Len(f) = IF o + 1 <= Len(lines) THEN Len(lines) - (o + 1) + 1 ELSE 0
          /\ \A i \in 1..(Len(lines) - (o + 1) + 1) : f[i] = lines[o + 1 + i - 1]
      <3>1. o + 1 \in Int /\ Len(lines) \in Int
        BY <1>2
      <3>. QED
        BY <2>1, <3>1, SubSeqProperties
    <2>3. o + 1 <= Len(lines)
      BY <1>2, <1>5
    <2>4. Len(lines) - (o + 1) + 1 = Len(lines) - o
      BY <1>2
    <2>5. \A i \in 1..(Len(lines) - o) : o + 1 + i - 1 = o + i
      BY <1>2
    <2> HIDE DEF f
    <2>. QED
      BY <2>2, <2>3, <2>4, <2>5
  <1>7. FromFirst(lines) = f
    BY <1>1, <1>5
  <1>. QED
    BY <1>4, <1>5, <1>6, <1>7

-----------------------------------------------------------------------------
(* Whole periods.                                                          *)

LEMMA GreatestIs ==
  ASSUME NEW S \in SUBSET Int, NEW x \in S, \A y \in S : x >= y PROVE Max(S) = x
  <1>1. Max(S) \in S /\ \A y \in S : Max(S) >= y
    BY DEF Max
  <1>2. x \in Int /\ Max(S) \in Int /\ x >= Max(S) /\ Max(S) >= x
    BY <1>1
  <1>. QED
    BY <1>2

LEMMA LeastIs ==
  ASSUME NEW S \in SUBSET Int, NEW x \in S, \A y \in S : x <= y PROVE Min(S) = x
  <1>1. Min(S) \in S /\ \A y \in S : Min(S) <= y
    BY DEF Min
  <1>2. x \in Int /\ Min(S) \in Int /\ x <= Min(S) /\ Min(S) <= x
    BY <1>1
  <1>. QED
    BY <1>2

(* Where the feed's period begins that a time is in.                       *)
PeriodOf(t) == t - (t % target)

LEMMA PeriodIs ==
  ASSUME FeedType, NEW t \in Nat, t % Interval = 0
  PROVE  /\ target \in Nat \ {0} /\ Interval \in Nat \ {0}
         /\ PeriodOf(t) \in Nat /\ PeriodOf(t) % target = 0 /\ PeriodOf(t) % Interval = 0
         /\ PeriodOf(t) <= t /\ t + Interval <= PeriodOf(t) + target
         /\ PeriodOf(t) + target - Interval \in Nat
         /\ (PeriodOf(t) + target - Interval) % Interval = 0
         /\ (PeriodOf(t) + target) % target = 0
  <1>1. target \in Nat \ {0} /\ Interval \in Nat \ {0} /\ target % Interval = 0
    BY TimeAssumption DEF FeedType
  <1>2. /\ t \div target \in Int /\ t % target \in 0..(target - 1)
        /\ t = target * (t \div target) + (t % target)
    <2>1. t \in Int
      OBVIOUS
    <2>. QED
      BY <1>1, <2>1, Division
  <1>3. PICK p \in Int : p = PeriodOf(t) /\ p = (t \div target) * target
    BY <1>1, <1>2 DEF PeriodOf
  <1>4. PICK q \in Int : target = q * Interval
    <2>1. target \in Int
      BY <1>1
    <2>. QED
      BY <1>1, <2>1, MultipleIs
  <1>5. p % target = 0
    BY <1>1, <1>2, <1>3, MultipleIs
  <1>6. p = ((t \div target) * q) * Interval /\ (t \div target) * q \in Int
    <2>1. PICK d \in Int : d = t \div target
      BY <1>2
    <2>2. p = d * (q * Interval)
      BY <1>3, <1>4, <2>1
    <2>3. d * (q * Interval) = (d * q) * Interval /\ d * q \in Int
      BY <1>1
    <2>. QED
      BY <2>1, <2>2, <2>3
  <1>7. p % Interval = 0
    BY <1>1, <1>3, <1>6, MultipleIs
  <1>8. p <= t /\ t < p + target
    BY <1>1, <1>2, <1>3 DEF PeriodOf
  <1>9. p \in Nat
    <2>1. t % target <= t
      BY <1>1
    <2>. QED
      BY <1>1, <1>2, <1>3, <2>1 DEF PeriodOf
  <1>10. (p + target) % Interval = 0 /\ p + target \in Int /\ target \in Int
    <2>1. target \in Int /\ p \in Int
      BY <1>1
    <2>2. target % Interval = 0 /\ Interval \in Nat \ {0}
      BY <1>1
    <2>3. (p + target) % Interval = 0
      BY ONLY <1>7, <2>1, <2>2, Multiples
    <2>. QED
      BY <2>1, <2>3
  <1>11. t + Interval <= p + target
    <2>1. t \in Int
      OBVIOUS
    <2>. QED
      BY <1>1, <1>8, <1>10, <2>1, Multiples
  <1>12. (p + target - Interval) % Interval = 0
    <2>1. Interval % Interval = 0 /\ Interval \in Int
      BY <1>1
    <2>2. PICK a \in Int : a = p + target
      BY <1>10
    <2>3. (a - Interval) % Interval = 0
      BY <1>1, <1>10, <2>1, <2>2, Multiples
    <2>4. a - Interval = p + target - Interval
      BY <1>1, <2>2
    <2>. QED
      BY <2>3, <2>4
  <1>13. (p + target) % target = 0
    <2>1. target % target = 0 /\ target \in Int
      BY <1>1
    <2>. QED
      BY <1>1, <1>5, <2>1, Multiples
  <1>. QED
    <2>1. p + target - Interval \in Nat
      BY <1>1, <1>9, <1>11
    <2>. QED
      BY <1>1, <1>3, <1>5, <1>7, <1>8, <1>9, <1>11, <1>12, <1>13, <2>1

(* The lines of a period.                                                  *)
Parts(lines, from) ==
  {k \in DOMAIN lines : from <= lines[k].time /\ lines[k].time < from + target}

(* If no end of a period is missing, what a complete update is made of are *)
(* the lines of one period.                                                *)
LEMMA PartsOfAPeriod ==
  ASSUME DownloadType, Entered(file), FeedType, NoEndIsMissing,
         NEW o \in Nat, IsFirstCandlePeriod(Lines[o + 1].time),
         NEW u, NEW i \in Nat, NEW g \in 1..i, o + i <= Len(Lines),
         Group(u, Lines, o, i, g), IsLastCandlePeriod(Lines[o + i].time)
  PROVE  Parts(Lines, PeriodOf(Lines[o + g].time)) = (o + g)..(o + i)
  <1> DEFINE T(k) == Lines[k].time
             n == Len(Lines)
             s == T(o + g)
             e == T(o + i)
             p == PeriodOf(s)
  <1>1. /\ n \in Nat /\ DOMAIN Lines = 1..n /\ n = Len(file)
        /\ \A k \in 1..n : T(k) = file[k].time /\ T(k) \in Periods /\ T(k) \in Nat
        /\ \A k, l \in 1..n : k < l => T(k) < T(l)
    BY LinesAre
  <1>2. Interval \in Nat \ {0} /\ \A k \in 1..n : T(k) % Interval = 0 /\ T(k) \in Nat /\ T(k) <= Now
    BY <1>1, SizeIs DEF Periods
  <1>3. o + g \in 1..n /\ o + i \in 1..n
    BY <1>1
  <1> HIDE DEF T, n
  <1>4. \A k, l \in 1..n : /\ k <= l => T(k) <= T(l)
                           /\ T(k) < T(l) => k < l
                           /\ T(k) <= T(l) => k <= l
    <2> SUFFICES ASSUME NEW k \in 1..n, NEW l \in 1..n
                 PROVE  /\ k <= l => T(k) <= T(l)
                        /\ T(k) < T(l) => k < l
                        /\ T(k) <= T(l) => k <= l
      OBVIOUS
    <2>1. T(k) \in Nat /\ T(l) \in Nat /\ (k < l => T(k) < T(l)) /\ (l < k => T(l) < T(k))
      BY <1>1
    <2>2. k = l => T(k) = T(l)
      OBVIOUS
    <2>. QED
      BY <2>1, <2>2
  <1>5. /\ s \in Nat /\ s % Interval = 0 /\ e \in Nat /\ e % Interval = 0 /\ s <= e /\ e <= Now
    BY <1>2, <1>3, <1>4
  <1>6. /\ target \in Nat \ {0} /\ p \in Nat /\ p % target = 0 /\ p % Interval = 0
        /\ p <= s /\ s + Interval <= p + target
        /\ p + target - Interval \in Nat /\ (p + target - Interval) % Interval = 0
        /\ (p + target) % target = 0
    BY <1>5, PeriodIs
  <1>7. \A j \in g..(i - 1) : ~IsLastCandlePeriod(T(o + j))
    BY DEF Group, T
  <1>8. g = 1 \/ IsLastCandlePeriod(T(o + g - 1))
    BY DEF Group, T
  <1>9. IsLastCandlePeriod(e) /\ IsFirstCandlePeriod(T(o + 1))
    BY DEF T
  <1> HIDE DEF s, e, p
  <1>10. Interval = target => s = e /\ p = s /\ p + target = s + Interval
    <2> SUFFICES ASSUME Interval = target PROVE s = e /\ p = s
      BY <1>5
    <2>1. g = i
      <3>1. g <= i - 1 => g \in g..(i - 1)
        OBVIOUS
      <3>2. \A t : IsLastCandlePeriod(t)
        BY DEF IsLastCandlePeriod
      <3>. QED
        BY <1>7, <3>1, <3>2
    <2>. QED
      BY <1>5, <1>6, <2>1 DEF s, e
  <1>11. Interval # target => p + target <= e + Interval
    <2> SUFFICES ASSUME Interval # target PROVE p + target <= e + Interval
      OBVIOUS
    <2>1. (e + Interval) % target = 0
      BY <1>9 DEF IsLastCandlePeriod
    <2>2. p \in Int /\ e + Interval \in Int /\ p < e + Interval
      BY <1>2, <1>5, <1>6
    <2>. QED
      BY <1>6, <2>1, <2>2, Multiples
  <1>12. p + target = e + Interval
    <2>1. CASE Interval = target
      BY <1>10, <2>1
    <2>2. CASE Interval # target
      <3> DEFINE q == p + target - Interval
      <3>1. q \in Nat /\ q % Interval = 0 /\ s <= q /\ q <= e
        BY <1>2, <1>5, <1>6, <1>11, <2>2
      <3>2. IsLastCandlePeriod(q)
        <4>1. q + Interval = p + target
          BY <1>2, <1>6
        <4>. QED
          BY <1>6, <4>1 DEF IsLastCandlePeriod
      <3>3. q + Interval = p + target
        BY <1>2, <1>6
      <3> HIDE DEF q
      <3>4. ASSUME q < e PROVE FALSE
        <4>1. \E l \in 1..n : T(l) = q
          <5>1. CASE q = s
            BY <1>3, <5>1 DEF s
          <5>2. CASE q # s
            <6>1. s \in Times /\ e \in Times
              BY <1>1, <1>3, LinesAre DEF Times, s, e
            <6>2. q \in Periods
              <7>1. q \in 0..Now
                BY <1>5, <3>1, <3>4, SizeIs
              <7>. QED
                BY <3>1, <7>1 DEF Periods
            <6>3. q \in Times
              BY <1>5, <3>1, <3>2, <3>4, <5>2, <6>1, <6>2 DEF NoEndIsMissing
            <6>. QED
              BY <1>1, <6>3, LinesAre DEF Times
          <5>. QED
            BY <5>1, <5>2
        <4>2. PICK l \in 1..n : T(l) = q
          BY <4>1
        <4>3. o + g <= l /\ l < o + i
          BY <1>3, <1>4, <3>1, <3>4, <4>2 DEF s, e
        <4>4. PICK j \in g..(i - 1) : l = o + j
          <5>1. l - o \in g..(i - 1) /\ l = o + (l - o)
            BY <1>1, <4>3
          <5>. QED
            BY <5>1
        <4>. QED
          BY <1>7, <3>2, <4>2, <4>4
      <3>. QED
        BY <1>5, <3>1, <3>3, <3>4
    <2>. QED
      BY <2>1, <2>2
  <1>13. ASSUME NEW k \in 1..n, p <= T(k), T(k) < p + target
         PROVE  k \in (o + g)..(o + i)
    <2>1. T(k) <= e
      <3>1. T(k) \in Int /\ p + target \in Int /\ T(k) % Interval = 0
        BY <1>2, <1>6
      <3>2. (p + target) % Interval = 0
        <4>1. target % Interval = 0 /\ p \in Int /\ target \in Int
          BY <1>6, TimeAssumption DEF FeedType
        <4>. QED
          BY <1>2, <1>6, <4>1, Multiples
      <3>3. T(k) + Interval <= p + target
        BY <1>2, <1>13, <3>1, <3>2, Multiples
      <3>. QED
        BY <1>2, <1>5, <1>12, <3>1, <3>3
    <2>2. k <= o + i
      BY <1>3, <1>4, <2>1 DEF e
    <2>3. ASSUME k < o + g PROVE FALSE
      <3>1. T(k) < s /\ T(k) \in Nat
        BY <1>1, <1>3, <2>3 DEF s
      <3>2. CASE Interval = target
        BY <1>5, <1>10, <1>13, <3>1, <3>2
      <3>3. CASE Interval # target /\ g = 1
        <4>1. (s - Interval + Interval) % target = 0
          BY <1>9, <3>3 DEF IsFirstCandlePeriod, IsLastCandlePeriod, s
        <4>2. s - Interval + Interval = s
          BY <1>2, <1>5
        <4>3. p = s
          BY <1>5, <4>1, <4>2 DEF p, PeriodOf
        <4>. QED
          BY <1>5, <1>13, <3>1, <4>3
      <3>4. CASE Interval # target /\ g # 1
        <4> DEFINE r == T(o + g - 1)
        <4>1. o + g - 1 \in 1..n /\ k <= o + g - 1 /\ o + g - 1 < o + g
          BY <1>1, <1>3, <2>3, <3>4
        <4>2. T(k) <= r /\ r < s /\ r \in Nat /\ r % Interval = 0
          BY <1>1, <1>2, <1>3, <1>4, <4>1 DEF s
        <4>3. (r + Interval) % target = 0
          BY <1>8, <3>4 DEF IsLastCandlePeriod
        <4> HIDE DEF r
        <4>4. r + Interval <= s
          <5>1. r \in Int /\ s \in Int
            BY <1>5, <4>2
          <5>. QED
            BY <1>2, <1>5, <4>2, <5>1, Multiples
        <4>5. p < r + Interval => p + target <= r + Interval
          <5>1. p \in Int /\ r + Interval \in Int
            BY <1>2, <1>6, <4>2
          <5>. QED
            BY <1>6, <4>3, <5>1, Multiples
        <4>. QED
          BY <1>2, <1>5, <1>6, <1>13, <3>1, <4>2, <4>4, <4>5
      <3>. QED
        BY <3>2, <3>3, <3>4
    <2>. QED
      BY <1>3, <2>2, <2>3
  <1>14. ASSUME NEW k \in (o + g)..(o + i)
         PROVE  k \in 1..n /\ p <= T(k) /\ T(k) < p + target
    <2>1. k \in 1..n /\ o + g <= k /\ k <= o + i
      BY <1>1, <1>3
    <2>2. s <= T(k) /\ T(k) <= e /\ T(k) \in Nat
      BY <1>1, <1>3, <1>4, <2>1 DEF s, e
    <2>3. PICK t \in Nat : t = T(k)
      BY <2>2
    <2>4. p <= t /\ t < p + target
      BY <1>2, <1>5, <1>6, <1>12, <2>2, <2>3
    <2>. QED
      BY <2>1, <2>3, <2>4
  <1>15. Parts(Lines, p) = {k \in 1..n : p <= T(k) /\ T(k) < p + target}
    BY <1>1 DEF Parts, T
  <1>16. Parts(Lines, p) = (o + g)..(o + i)
    BY <1>13, <1>14, <1>15
  <1>. QED
    BY <1>16 DEF p, s, T

(* A complete update is made of the lines of its period, and of no other.  *)
LEMMA CompleteIsWhole ==
  ASSUME DownloadType, Entered(file), FeedType, NoEndIsMissing,
         NEW o \in Nat, IsFirstCandlePeriod(Lines[o + 1].time),
         NEW u, NEW i \in Nat, NEW g \in 1..i, o + i <= Len(Lines),
         Group(u, Lines, o, i, g), IsLastCandlePeriod(Lines[o + i].time)
  PROVE  MadeOf(u[i], Lines)
  <1> DEFINE c == u[i]
             a == o + g
             b == o + i
             L == Lines
             parts == a..b
  <1>1. Parts(L, PeriodOf(L[a].time)) = parts
    BY PartsOfAPeriod
  <1>2. MadeFrom(c, L, a, b)
    BY DEF Group
  <1>3. /\ L \in Seq(Candle) /\ DOMAIN L = 1..Len(L) /\ Len(L) \in Nat
    BY LinesAre
  <1>4. a \in 1..Len(L) /\ b \in 1..Len(L) /\ a <= b
    BY <1>3
  <1> HIDE DEF c, a, b, L
  <1>5. \A k \in parts : k \in 1..Len(L) /\ L[k].high \in Int /\ L[k].low \in Int
    <2> SUFFICES ASSUME NEW k \in parts
                 PROVE  k \in 1..Len(L) /\ L[k].high \in Int /\ L[k].low \in Int
      OBVIOUS
    <2>1. k \in 1..Len(L)
      BY <1>3, <1>4
    <2>2. L[k] \in Candle
      BY <1>3, <2>1
    <2>. QED
      BY <2>1, <2>2 DEF Candle
  <1>6. parts \subseteq Int /\ a \in parts /\ b \in parts
        /\ \A k \in parts : a <= k /\ b >= k
    BY <1>4
  <1>7. Min(parts) = a /\ Max(parts) = b
    <2> HIDE DEF parts
    <2>. QED
      BY <1>6, LeastIs, GreatestIs
  <1> HIDE DEF parts
  <1>8. Max({L[k].high : k \in parts}) = c.high
    <2> DEFINE S == {L[k].high : k \in parts}
    <2>1. c.high \in S /\ (\A y \in S : c.high >= y) /\ S \in SUBSET Int
      BY <1>2, <1>5 DEF MadeFrom, parts
    <2> HIDE DEF S
    <2>2. Max(S) = c.high
      BY <2>1, GreatestIs
    <2>. QED
      BY <2>2 DEF S
  <1>9. Min({L[k].low : k \in parts}) = c.low
    <2> DEFINE S == {L[k].low : k \in parts}
    <2>1. c.low \in S /\ (\A y \in S : c.low <= y) /\ S \in SUBSET Int
      BY <1>2, <1>5 DEF MadeFrom, parts
    <2> HIDE DEF S
    <2>2. Min(S) = c.low
      BY <2>1, LeastIs
    <2>. QED
      BY <2>2 DEF S
  <1>10. c.volume = SumFunctionOnSet([k \in DOMAIN L |-> L[k].volume], parts)
    BY <1>2 DEF MadeFrom, Volumes, parts
  <1>11. /\ c.time = L[a].time /\ c.updated = L[b].updated /\ L[b].updated = L[b].time
         /\ c.open = L[a].open /\ c.close = L[b].close
    <2>1. L[b].updated = L[b].time
      BY <1>3, <1>4, LinesAre DEF L
    <2>. QED
      BY <1>2, <2>1 DEF MadeFrom
  <1>12. parts = {k \in DOMAIN L : /\ c.time - (c.time % target) <= L[k].time
                                   /\ L[k].time < c.time - (c.time % target) + target}
    BY <1>1, <1>11 DEF Parts, PeriodOf
  <1>13. MadeOf(c, L)
    BY <1>7, <1>8, <1>9, <1>10, <1>11, <1>12 DEF MadeOf
  <1>. QED
    BY <1>13 DEF c, L

(* Of two updates the later one begins a later candle, or comes later.     *)
Later(c, d) ==
  \/ c.time < d.time
  \/ c.time = d.time /\ c.updated < d.updated

LEMMA UpdatesGoOn ==
  ASSUME DownloadType, Entered(file), FeedType,
         NEW o \in Nat, NEW u, NEW i \in Nat, o + i + 1 <= Len(Lines),
         NEW g \in 1..i, Group(u, Lines, o, i, g),
         NEW h \in 1..(i + 1), Group(u, Lines, o, i + 1, h)
  PROVE  Later(u[i], u[i + 1]) /\ u[i].time \in Nat /\ u[i + 1].time \in Nat
  <1> DEFINE T(k) == Lines[k].time
             n == Len(Lines)
  <1>1. /\ n \in Nat /\ n = Len(file)
        /\ \A k \in 1..n : T(k) \in Nat /\ Lines[k].updated = T(k)
        /\ \A k, l \in 1..n : k < l => T(k) < T(l)
    BY LinesAre
  <1>2. /\ o + g \in 1..n /\ o + i \in 1..n /\ o + (i + 1) \in 1..n /\ o + h \in 1..n
        /\ g <= i /\ h <= i + 1 /\ o + g <= o + i /\ o + i < o + (i + 1)
    BY <1>1
  <1>3. /\ u[i].time = T(o + g) /\ u[i].updated = T(o + i)
        /\ u[i + 1].time = T(o + h) /\ u[i + 1].updated = T(o + (i + 1))
    BY <1>1, <1>2 DEF Group, MadeFrom
  <1>4. /\ \A j \in g..(i - 1) : ~IsLastCandlePeriod(T(o + j))
        /\ \A j \in h..i : ~IsLastCandlePeriod(T(o + j))
        /\ g = 1 \/ IsLastCandlePeriod(T(o + (g - 1)))
        /\ h = 1 \/ IsLastCandlePeriod(T(o + (h - 1)))
    <2>1. o + g - 1 = o + (g - 1) /\ o + h - 1 = o + (h - 1) /\ i + 1 - 1 = i
      OBVIOUS
    <2>. QED
      BY <2>1 DEF Group
  <1> HIDE DEF T, n
  <1>5. CASE h = i + 1
    <2>1. T(o + i) < T(o + h) /\ T(o + g) <= T(o + i) /\ T(o + g) \in Nat /\ T(o + h) \in Nat
          /\ T(o + i) \in Nat
      <3>1. o + g = o + i \/ o + g < o + i
        OBVIOUS
      <3>2. T(o + g) \in Nat /\ T(o + h) \in Nat /\ T(o + i) \in Nat /\ T(o + i) < T(o + h)
        BY <1>1, <1>2, <1>5
      <3>3. o + g < o + i => T(o + g) < T(o + i)
        BY <1>1, <1>2
      <3>4. o + g = o + i => T(o + g) = T(o + i)
        OBVIOUS
      <3>. QED
        BY <3>1, <3>2, <3>3, <3>4
    <2>2. T(o + g) < T(o + h)
      BY <2>1
    <2>. QED
      BY <1>3, <2>1, <2>2 DEF Later
  <1>6. CASE h # i + 1
    <2>1. h <= i /\ h \in Nat /\ g \in Nat
      BY <1>2, <1>6
    <2>2. ~(g < h)
      <3> SUFFICES ASSUME g < h PROVE FALSE
        OBVIOUS
      <3>1. h - 1 \in g..(i - 1) /\ h # 1
        BY <2>1
      <3>. QED
        BY <1>4, <3>1
    <2>3. ~(h < g)
      <3> SUFFICES ASSUME h < g PROVE FALSE
        OBVIOUS
      <3>1. g - 1 \in h..i /\ g # 1
        BY <1>2, <2>1
      <3>. QED
        BY <1>4, <3>1
    <2>4. g = h
      BY <2>1, <2>2, <2>3
    <2>5. T(o + i) < T(o + (i + 1)) /\ T(o + g) \in Nat
      BY <1>1, <1>2
    <2>. QED
      BY <1>3, <2>4, <2>5 DEF Later
  <1>. QED
    BY <1>5, <1>6

(* What each step does not lower is lowered by no number of steps.         *)
LEMMA StepsRise ==
  ASSUME NEW n \in Nat, NEW f, \A i \in 1..n : f[i] \in Int,
         \A i \in 1..(n - 1) : f[i] <= f[i + 1]
  PROVE  \A i, j \in 1..n : i <= j => f[i] <= f[j]
  <1> DEFINE P == {k \in Nat : \A i \in 1..n : i + k \in 1..n => f[i] <= f[i + k]}
  <1>1. 0 \in P
    OBVIOUS
  <1>2. ASSUME NEW k \in Nat, k \in P PROVE k + 1 \in P
    <2> SUFFICES ASSUME NEW i \in 1..n, i + (k + 1) \in 1..n PROVE f[i] <= f[i + (k + 1)]
      OBVIOUS
    <2>1. PICK j \in 1..(n - 1) : j = i + k /\ j + 1 = i + (k + 1) /\ j \in 1..n
      <3>1. i + k \in 1..(n - 1) /\ (i + k) + 1 = i + (k + 1) /\ i + k \in 1..n
        OBVIOUS
      <3>. QED
        BY <3>1
    <2>2. f[i] <= f[j] /\ f[j] <= f[j + 1]
      BY <1>2, <2>1
    <2>3. f[i] \in Int /\ f[j] \in Int /\ f[j + 1] \in Int
      BY <2>1
    <2>. QED
      BY <2>1, <2>2, <2>3
  <1> HIDE DEF P
  <1>3. Nat \subseteq P
    BY <1>1, <1>2, EveryNatural
  <1>4. ASSUME NEW i \in 1..n, NEW j \in 1..n, i <= j PROVE f[i] <= f[j]
    <2>1. j - i \in P /\ i + (j - i) = j
      <3>1. j - i \in Nat /\ i + (j - i) = j
        BY <1>4
      <3>. QED
        BY <1>3, <3>1
    <2>. QED
      BY <2>1 DEF P
  <1>. QED
    BY <1>4

(* Limit leaves the end of a series of which the last candle is late       *)
(* enough.                                                                 *)
LEMMA AfterIsTheEnd ==
  ASSUME NEW c \in Seq(Candle), NEW start \in Int, Len(c) > 0, Last(c).time > start,
         \A i, j \in 1..Len(c) : i <= j => c[i].time <= c[j].time
  PROVE  \E d \in Nat : d < Len(c) /\ After(c, start) = Left(c, d)
  <1> DEFINE n == Len(c)
             late == {i \in 1..n : c[i].time > start}
  <1>1. n \in Nat \ {0} /\ \A i \in 1..n : c[i].time \in Nat
    <2>1. n \in Nat \ {0} /\ \A i \in 1..n : c[i] \in Candle
      OBVIOUS
    <2>. QED
      BY <2>1 DEF Candle
  <1>2. PICK m \in late : \A k \in late : m <= k
    <2>1. n \in late /\ late \subseteq Nat
      BY <1>1 DEF Last
    <2> HIDE DEF late
    <2>. QED
      BY <2>1, LeastNatural
  <1>3. PICK d \in Nat : m = d + 1 /\ d < n
    <2>1. m - 1 \in Nat /\ m = (m - 1) + 1 /\ m - 1 < n
      BY <1>1
    <2>. QED
      BY <2>1
  <1>4. \A i \in 1..n : c[i].time > start <=> i > d
    <2> SUFFICES ASSUME NEW i \in 1..n PROVE c[i].time > start <=> i > d
      OBVIOUS
    <2>1. c[i].time > start => m <= i
      BY <1>2
    <2>2. m <= i => c[m].time <= c[i].time
      OBVIOUS
    <2>3. c[m].time > start /\ c[m].time \in Nat /\ c[i].time \in Nat /\ m \in Nat /\ i \in Nat
      BY <1>1
    <2>. QED
      BY <1>3, <2>1, <2>2, <2>3
  <1> DEFINE Kept(f) == f = [i \in 0..n |->
                IF i = 0 THEN <<>>
                ELSE IF c[i].time > start THEN Append(f[i - 1], c[i]) ELSE f[i - 1]]
             h == [i \in 0..n |-> SubSeq(c, d + 1, i)]
             kept == CHOOSE f : Kept(f)
  <1> HIDE DEF late, n
  <1>5. ASSUME NEW i \in 1..n
        PROVE  SubSeq(c, d + 1, i) = IF c[i].time > start THEN Append(SubSeq(c, d + 1, i - 1), c[i])
                                     ELSE SubSeq(c, d + 1, i - 1)
    <2>0. d + 1 \in Int /\ i \in Int /\ i - 1 \in Int
      OBVIOUS
    <2>1. CASE c[i].time > start
      <3>1. i > d /\ d + 1 \in 1..Len(c) /\ i \in (d + 1)..Len(c)
        BY <1>1, <1>3, <1>4, <2>1 DEF n
      <3>2. SubSeq(c, d + 1, i) = SubSeq(c, d + 1, i - 1) \o <<c[i]>>
        BY <3>1, SubSeqRecursiveSecond
      <3>3. SubSeq(c, d + 1, i - 1) \in Seq(Candle) /\ c[i] \in Candle
        <4>1. \A k \in (d + 1)..(i - 1) : c[k] \in Candle
          BY <3>1 DEF n
        <4>2. SubSeq(c, d + 1, i - 1) \in Seq(Candle)
          BY <2>0, <4>1, SubSeqProperties
        <4>. QED
          BY <4>2 DEF n
      <3>4. SubSeq(c, d + 1, i - 1) \o <<c[i]>> = Append(SubSeq(c, d + 1, i - 1), c[i])
        <4> DEFINE s == SubSeq(c, d + 1, i - 1)
        <4> HIDE DEF s
        <4>1. \A x \in Candle : s \in Seq(Candle) => s \o <<x>> = Append(s, x)
          OBVIOUS
        <4>. QED
          BY <3>3, <4>1 DEF s
      <3>. QED
        BY <2>1, <3>2, <3>4
    <2>2. CASE ~(c[i].time > start)
      <3>1. i < d + 1 /\ i - 1 < d + 1
        BY <1>4, <2>2
      <3>2. SubSeq(c, d + 1, i) = <<>> /\ SubSeq(c, d + 1, i - 1) = <<>>
        BY <2>0, <3>1, SubSeqEmpty
      <3>. QED
        BY <2>2, <3>2
    <2>. QED
      BY <2>1, <2>2
  <1>6. SubSeq(c, d + 1, 0) = <<>>
    <2>1. d + 1 \in Int /\ 0 \in Int /\ 0 < d + 1
      OBVIOUS
    <2>. QED
      BY <2>1, SubSeqEmpty
  <1>7. Kept(h)
    <2>1. \A i \in 0..n : h[i] = SubSeq(c, d + 1, i)
      OBVIOUS
    <2>2. \A i \in 0..n : i = 0 \/ (i \in 1..n /\ i - 1 \in 0..n)
      BY <1>1
    <2> HIDE DEF h
    <2>3. \A i \in 0..n : h[i] = IF i = 0 THEN <<>>
             ELSE IF c[i].time > start THEN Append(h[i - 1], c[i]) ELSE h[i - 1]
      BY <1>5, <1>6, <2>1, <2>2
    <2>4. h = [i \in 0..n |-> h[i]]
      BY DEF h
    <2>. QED
      BY <2>3, <2>4
  <1>8. After(c, start) = kept[n]
    BY DEF After, n
  <1>9. Kept(kept)
    <2> HIDE DEF h
    <2>1. \E f : Kept(f)
      BY <1>7
    <2>. QED
      BY <2>1
  <1> HIDE DEF kept
  <1>10. kept[0] = <<>> /\ \A i \in 1..n : kept[i] = IF c[i].time > start
                                                     THEN Append(kept[i - 1], c[i])
                                                     ELSE kept[i - 1]
    <2>1. 0 \in 0..n /\ \A i \in 1..n : i \in 0..n /\ i # 0
      BY <1>1
    <2>. QED
      BY <1>9, <2>1
  <1> DEFINE P == {i \in Nat : i \in 0..n => kept[i] = SubSeq(c, d + 1, i)}
  <1>11. 0 \in P
    BY <1>6, <1>10
  <1>12. ASSUME NEW i \in Nat, i \in P PROVE i + 1 \in P
    <2> SUFFICES ASSUME i + 1 \in 0..n PROVE kept[i + 1] = SubSeq(c, d + 1, i + 1)
      OBVIOUS
    <2>1. i + 1 \in 1..n /\ i + 1 - 1 = i /\ i \in 0..n
      BY <1>1
    <2>2. kept[i] = SubSeq(c, d + 1, i)
      BY <1>12, <2>1
    <2>3. PICK j \in 1..n : j = i + 1 /\ j - 1 = i
      BY <2>1
    <2>4. /\ SubSeq(c, d + 1, j) = IF c[j].time > start
                                   THEN Append(SubSeq(c, d + 1, j - 1), c[j])
                                   ELSE SubSeq(c, d + 1, j - 1)
          /\ kept[j] = IF c[j].time > start THEN Append(kept[j - 1], c[j]) ELSE kept[j - 1]
      BY <1>5, <1>10
    <2>. QED
      BY <2>2, <2>3, <2>4
  <1> HIDE DEF P
  <1>13. kept[n] = SubSeq(c, d + 1, n)
    <2>1. n \in P /\ n \in 0..n
      BY <1>1, <1>11, <1>12, EveryNatural
    <2>. QED
      BY <2>1 DEF P
  <1>. QED
    BY <1>3, <1>8, <1>13 DEF Left, n

-----------------------------------------------------------------------------
(* The feed.                                                               *)

(* What resampling hands to the feed: whole periods, in order.             *)
LEMMA ResampledIs ==
  ASSUME DownloadType, Entered(file), FeedType, FromFirst(Lines) # <<>>
  PROVE  /\ Resampled(Lines) \in Seq(Candle)
         /\ NoEndIsMissing => \A i \in 1..Len(Resampled(Lines)) :
                Resampled(Lines)[i].complete => MadeOf(Resampled(Lines)[i], Lines)
         /\ \A i \in 1..(Len(Resampled(Lines)) - 1) :
                Later(Resampled(Lines)[i], Resampled(Lines)[i + 1])
         /\ \A i, j \in 1..Len(Resampled(Lines)) :
                i <= j => Resampled(Lines)[i].time <= Resampled(Lines)[j].time
  <1> DEFINE L == Lines
             c == FromFirst(L)
             u == Updates(c)
             R == Resampled(L)
             k == Len(c)
  <1>1. L \in Seq(Candle)
    BY LinesAre
  <1>2. c # <<>>
    OBVIOUS
  <1>3. PICK o \in Nat : /\ o < Len(L) /\ c \in Seq(Candle) /\ k = Len(L) - o
                         /\ \A i \in 1..k : c[i] = L[o + i]
                         /\ IsFirstCandlePeriod(L[o + 1].time)
    <2> HIDE DEF L
    <2>. QED
      BY <1>1, <1>2, FromFirstIs
  <1>4. Len(L) \in Nat /\ k \in Nat \ {0}
    BY <1>1, <1>3
  <1>5. R = IF Last(u).complete THEN u ELSE Front(u)
    BY DEF Resampled
  <1> HIDE DEF L, c, R
  <1>6. u \in Seq(Candle) /\ Len(u) = k
    BY <1>2, <1>3, UpdatesAre
  <1>7. \A i \in 1..k : \E g \in 1..i : Group(u, L, o, i, g)
    BY <1>1, <1>3, Groups
  <1> HIDE DEF u, k
  <1>8. PICK r \in Nat : /\ r <= k /\ R \in Seq(Candle) /\ Len(R) = r
                         /\ \A i \in 1..r : R[i] = u[i]
    <2>1. CASE Last(u).complete
      BY <1>4, <1>5, <1>6, <2>1
    <2>2. CASE ~Last(u).complete
      <3>1. k - 1 \in Nat /\ k - 1 <= k /\ k \in Int
        BY <1>4
      <3>2. R = SubSeq(u, 1, k - 1)
        BY <1>5, <1>6, <2>2 DEF Front
      <3>3. PICK m \in Nat : m = k - 1 /\ m <= k
        BY <3>1
      <3>4. \A i \in 1..m : u[i] \in Candle
        BY <1>4, <1>6, <3>3
      <3>5. /\ SubSeq(u, 1, m) \in Seq(Candle)
            /\ Len(SubSeq(u, 1, m)) = IF 1 <= m THEN m - 1 + 1 ELSE 0
            /\ \A i \in 1..(m - 1 + 1) : SubSeq(u, 1, m)[i] = u[1 + i - 1]
        BY <3>4, SubSeqProperties
      <3>6. m - 1 + 1 = m /\ \A i \in 1..m : 1 + i - 1 = i
        OBVIOUS
      <3>7. Len(SubSeq(u, 1, m)) = m /\ \A i \in 1..m : SubSeq(u, 1, m)[i] = u[i]
        BY <3>5, <3>6
      <3>. QED
        BY <3>2, <3>3, <3>5, <3>7
    <2>. QED
      BY <2>1, <2>2
  <1>9. ASSUME NoEndIsMissing, NEW i \in 1..r, R[i].complete PROVE MadeOf(R[i], L)
    <2>1. i \in 1..k /\ i \in Nat /\ o + i <= Len(L)
      BY <1>3, <1>4, <1>8 DEF k
    <2>2. PICK g \in 1..i : Group(u, L, o, i, g)
      BY <1>7, <2>1
    <2>3. IsLastCandlePeriod(L[o + i].time)
      BY <1>8, <1>9, <2>2 DEF Group
    <2>4. MadeOf(u[i], L)
      BY <1>3, <1>9, <2>1, <2>2, <2>3, CompleteIsWhole DEF L
    <2>. QED
      BY <1>8, <2>4
  <1>10. ASSUME NEW i \in 1..(r - 1)
         PROVE  Later(R[i], R[i + 1]) /\ R[i].time \in Nat /\ R[i + 1].time \in Nat
    <2>1. /\ i \in 1..k /\ i \in 1..r /\ i \in Nat /\ i + 1 \in 1..k /\ i + 1 \in 1..r
          /\ o + i + 1 <= Len(L)
      BY <1>3, <1>4, <1>8 DEF k
    <2>2. PICK g \in 1..i : Group(u, L, o, i, g)
      BY <1>7, <2>1
    <2>3. PICK h \in 1..(i + 1) : Group(u, L, o, i + 1, h)
      BY <1>7, <2>1
    <2>4. Later(u[i], u[i + 1]) /\ u[i].time \in Nat /\ u[i + 1].time \in Nat
      BY <2>1, <2>2, <2>3, UpdatesGoOn DEF L
    <2>. QED
      BY <1>8, <2>1, <2>4
  <1>11. \A i, j \in 1..r : i <= j => R[i].time <= R[j].time
    <2> DEFINE f == [i \in 1..r |-> R[i].time]
    <2>1. \A i \in 1..r : f[i] = R[i].time
      OBVIOUS
    <2>2. \A i \in 1..r : R[i].time \in Int
      <3> SUFFICES ASSUME NEW i \in 1..r PROVE R[i].time \in Int
        OBVIOUS
      <3>1. R[i] \in Candle
        BY <1>8
      <3>. QED
        BY <3>1 DEF Candle
    <2>3. \A i \in 1..(r - 1) : f[i] <= f[i + 1]
      <3> SUFFICES ASSUME NEW i \in 1..(r - 1) PROVE f[i] <= f[i + 1]
        OBVIOUS
      <3>1. i \in 1..r /\ i + 1 \in 1..r
        OBVIOUS
      <3>2. R[i].time <= R[i + 1].time
        BY <1>10 DEF Later
      <3>. QED
        BY <3>1, <3>2
    <2>4. \A i \in 1..r : f[i] \in Int
      BY <2>1, <2>2
    <2> HIDE DEF f
    <2>5. \A i, j \in 1..r : i <= j => f[i] <= f[j]
      BY <2>3, <2>4, StepsRise
    <2>. QED
      BY <2>1, <2>5
  <1>. QED
    BY <1>8, <1>9, <1>10, <1>11 DEF R, L

(* What was handed out of a sequence, and what is yet to be.               *)
Shared(r, given, pending, d, e) ==
  /\ d <= e /\ e <= Len(r) /\ (d < Len(r) \/ r = <<>>)
  /\ given \in Seq(Candle) /\ Len(given) = e - d
  /\ \A i \in 1..(e - d) : given[i] = r[d + i]
  /\ pending \in Seq(Candle) /\ Len(pending) = Len(r) - e
  /\ \A i \in 1..(Len(r) - e) : pending[i] = r[e + i]

LEMMA AllIsPending ==
  ASSUME NEW r \in Seq(Candle) PROVE Shared(r, <<>>, r, 0, 0)
  BY DEF Shared

LEMMA LeftIs ==
  ASSUME NEW p \in Seq(Candle), NEW n \in Nat, n <= Len(p)
  PROVE  /\ Left(p, n) \in Seq(Candle) /\ Len(Left(p, n)) = Len(p) - n
         /\ \A i \in 1..(Len(p) - n) : Left(p, n)[i] = p[n + i]
  <1>1. Len(p) \in Nat /\ \A i \in (n + 1)..Len(p) : p[i] \in Candle
    OBVIOUS
  <1>2. PICK a \in Int, b \in Int : a = n + 1 /\ b = Len(p)
    BY <1>1
  <1>3. /\ SubSeq(p, a, b) \in Seq(Candle)
        /\ Len(SubSeq(p, a, b)) = IF a <= b THEN b - a + 1 ELSE 0
        /\ \A i \in 1..(b - a + 1) : SubSeq(p, a, b)[i] = p[a + i - 1]
    BY <1>1, <1>2, SubSeqProperties
  <1>4. b - a + 1 = Len(p) - n /\ (IF a <= b THEN b - a + 1 ELSE 0) = Len(p) - n
        /\ \A i \in 1..(Len(p) - n) : a + i - 1 = n + i
    BY <1>1, <1>2
  <1>5. \A i \in 1..(Len(p) - n) : SubSeq(p, a, b)[i] = p[n + i]
    BY <1>3, <1>4
  <1>. QED
    BY <1>2, <1>3, <1>4, <1>5 DEF Left

LEMMA FirstIs ==
  ASSUME NEW p \in Seq(Candle), NEW n \in Nat, n <= Len(p)
  PROVE  /\ FirstOf(p, n) \in Seq(Candle) /\ Len(FirstOf(p, n)) = n
         /\ \A i \in 1..n : FirstOf(p, n)[i] = p[i]
  <1>1. Len(p) \in Nat /\ \A i \in 1..n : p[i] \in Candle
    OBVIOUS
  <1>2. Min({n, Len(p)}) = n
    <2>1. {n, Len(p)} \in SUBSET Int /\ n \in {n, Len(p)} /\ \A y \in {n, Len(p)} : n <= y
      BY <1>1
    <2>. QED
      BY <2>1, LeastIs
  <1>3. /\ SubSeq(p, 1, n) \in Seq(Candle)
        /\ Len(SubSeq(p, 1, n)) = IF 1 <= n THEN n - 1 + 1 ELSE 0
        /\ \A i \in 1..(n - 1 + 1) : SubSeq(p, 1, n)[i] = p[1 + i - 1]
    BY <1>1, SubSeqProperties
  <1>4. n - 1 + 1 = n /\ \A i \in 1..n : 1 + i - 1 = i
    OBVIOUS
  <1>5. Len(SubSeq(p, 1, n)) = n /\ \A i \in 1..n : SubSeq(p, 1, n)[i] = p[i]
    BY <1>3, <1>4
  <1>. QED
    BY <1>2, <1>3, <1>5 DEF FirstOf

LEMMA LimitedIsShared ==
  ASSUME NEW r \in Seq(Candle), NEW p, NEW d \in Nat, NEW e \in Nat, Shared(r, <<>>, p, d, e),
         NEW n \in Nat, n < Len(p)
  PROVE  Shared(r, <<>>, Left(p, n), e + n, e + n)
  <1>1. Len(r) \in Nat /\ p \in Seq(Candle) /\ Len(p) = Len(r) - e /\ e <= Len(r)
        /\ \A i \in 1..(Len(r) - e) : p[i] = r[e + i]
    BY DEF Shared
  <1>2. /\ Left(p, n) \in Seq(Candle) /\ Len(Left(p, n)) = Len(p) - n
        /\ \A i \in 1..(Len(p) - n) : Left(p, n)[i] = p[n + i]
    <2>1. p \in Seq(Candle) /\ n <= Len(p)
      BY <1>1
    <2>. QED
      BY ONLY <2>1, n \in Nat, LeftIs
  <1>3. \A i \in 1..(Len(p) - n) : Left(p, n)[i] = r[e + n + i]
    <2> SUFFICES ASSUME NEW i \in 1..(Len(p) - n) PROVE Left(p, n)[i] = r[e + n + i]
      OBVIOUS
    <2>1. PICK j \in 1..(Len(r) - e) : j = n + i /\ e + j = e + n + i
      <3>1. n + i \in 1..(Len(r) - e) /\ e + (n + i) = e + n + i
        BY <1>1
      <3>. QED
        BY <3>1
    <2>2. Left(p, n)[i] = p[j] /\ p[j] = r[e + j]
      BY <1>1, <1>2, <2>1
    <2>. QED
      BY <2>1, <2>2
  <1>4. Len(p) - n = Len(r) - (e + n) /\ e + n < Len(r) /\ (e + n) - (e + n) = 0 /\ e + n <= e + n
    BY <1>1
  <1>. QED
    BY <1>2, <1>3, <1>4 DEF Shared

LEMMA WarmIsShared ==
  ASSUME NEW r \in Seq(Candle), NEW p, NEW d \in Nat, NEW e \in Nat, Shared(r, <<>>, p, d, e),
         NEW n \in Nat, n <= Len(p)
  PROVE  Shared(r, FirstOf(p, n), Left(p, n), d, e + n)
  <1>1. Len(r) \in Nat /\ p \in Seq(Candle) /\ Len(p) = Len(r) - e /\ e <= Len(r) /\ d = e
        /\ (d < Len(r) \/ r = <<>>) /\ \A i \in 1..(Len(r) - e) : p[i] = r[e + i]
    BY DEF Shared
  <1>2. /\ Left(p, n) \in Seq(Candle) /\ Len(Left(p, n)) = Len(p) - n
        /\ \A i \in 1..(Len(p) - n) : Left(p, n)[i] = p[n + i]
    <2>1. p \in Seq(Candle)
      BY <1>1
    <2>. QED
      BY ONLY <2>1, n \in Nat, n <= Len(p), LeftIs
  <1>3. \A i \in 1..(Len(p) - n) : Left(p, n)[i] = r[e + n + i]
    <2> SUFFICES ASSUME NEW i \in 1..(Len(p) - n) PROVE Left(p, n)[i] = r[e + n + i]
      OBVIOUS
    <2>1. PICK j \in 1..(Len(r) - e) : j = n + i /\ e + j = e + n + i
      <3>1. n + i \in 1..(Len(r) - e) /\ e + (n + i) = e + n + i
        BY <1>1
      <3>. QED
        BY <3>1
    <2>2. Left(p, n)[i] = p[j] /\ p[j] = r[e + j]
      BY <1>1, <1>2, <2>1
    <2>. QED
      BY <2>1, <2>2
  <1>4. Len(p) - n = Len(r) - (e + n) /\ e + n <= Len(r) /\ (e + n) - d = n /\ d <= e + n
    BY <1>1
  <1>5. /\ FirstOf(p, n) \in Seq(Candle) /\ Len(FirstOf(p, n)) = n
        /\ \A i \in 1..n : FirstOf(p, n)[i] = p[i]
    BY <1>1, FirstIs
  <1>6. \A i \in 1..n : FirstOf(p, n)[i] = r[d + i]
    <2>1. \A i \in 1..n : i \in 1..(Len(r) - e)
      BY <1>1
    <2>. QED
      BY <1>1, <1>5, <2>1
  <1>. QED
    BY <1>1, <1>2, <1>3, <1>4, <1>5, <1>6 DEF Shared

LEMMA SentIsShared ==
  ASSUME NEW r \in Seq(Candle), NEW g, NEW p, NEW d \in Nat, NEW e \in Nat,
         Shared(r, g, p, d, e), p # <<>>
  PROVE  Shared(r, Append(g, Head(p)), Tail(p), d, e + 1) /\ Head(p) \in Candle
  <1>1. /\ Len(r) \in Nat /\ p \in Seq(Candle) /\ Len(p) = Len(r) - e /\ e <= Len(r) /\ d <= e
        /\ (d < Len(r) \/ r = <<>>) /\ \A i \in 1..(Len(r) - e) : p[i] = r[e + i]
        /\ g \in Seq(Candle) /\ Len(g) = e - d /\ \A i \in 1..(e - d) : g[i] = r[d + i]
    BY DEF Shared
  <1>2. e < Len(r) /\ Head(p) = r[e + 1] /\ Head(p) \in Candle
    BY <1>1
  <1>3. /\ Tail(p) \in Seq(Candle) /\ Len(Tail(p)) = Len(p) - 1
        /\ \A i \in 1..Len(Tail(p)) : Tail(p)[i] = p[i + 1]
    BY <1>1, HeadTailProperties
  <1>4. \A i \in 1..(Len(r) - (e + 1)) : Tail(p)[i] = r[e + 1 + i]
    <2> SUFFICES ASSUME NEW i \in 1..(Len(r) - (e + 1)) PROVE Tail(p)[i] = r[e + 1 + i]
      OBVIOUS
    <2>1. PICK j \in 1..(Len(r) - e) : j = i + 1 /\ e + j = e + 1 + i
      <3>1. i + 1 \in 1..(Len(r) - e) /\ e + (i + 1) = e + 1 + i
        BY <1>1
      <3>. QED
        BY <3>1
    <2>2. i \in 1..Len(Tail(p))
      BY <1>1, <1>3
    <2>. QED
      BY <1>1, <1>3, <2>1, <2>2
  <1>5. PICK x \in Candle : x = Head(p) /\ x = r[e + 1]
    BY <1>2
  <1>6. /\ Append(g, x) \in Seq(Candle) /\ Len(Append(g, x)) = e - d + 1
        /\ \A i \in 1..(e - d) : Append(g, x)[i] = r[d + i]
        /\ Append(g, x)[e - d + 1] = x
    <2>1. g \in Seq(Candle) /\ Len(g) = e - d
      BY <1>1
    <2>2. /\ Append(g, x) \in Seq(Candle) /\ Len(Append(g, x)) = Len(g) + 1
          /\ \A i \in 1..Len(g) : Append(g, x)[i] = g[i]
          /\ Append(g, x)[Len(g) + 1] = x
      BY ONLY <2>1, x \in Candle, AppendProperties
    <2>. QED
      BY <1>1, <2>1, <2>2
  <1>7. \A i \in 1..(e + 1 - d) : Append(g, x)[i] = r[d + i]
    <2> SUFFICES ASSUME NEW i \in 1..(e + 1 - d) PROVE Append(g, x)[i] = r[d + i]
      OBVIOUS
    <2>1. i \in 1..(e - d) \/ (i = e - d + 1 /\ d + i = e + 1)
      BY <1>1
    <2>. QED
      BY <1>5, <1>6, <2>1
  <1>8. /\ e - d + 1 = e + 1 - d /\ Len(p) - 1 = Len(r) - (e + 1) /\ e + 1 <= Len(r)
        /\ d <= e + 1
    BY <1>1, <1>2
  <1>. QED
    BY <1>1, <1>3, <1>4, <1>5, <1>6, <1>7, <1>8 DEF Shared

(* What the feed has yet to hand out.                                      *)
Pending == IF stage = "feed" THEN series[target] ELSE rest

Feeding == stage \in {"feed", "sending", "closed"}

(* What the feed has handed out and what it has yet to hand out are what   *)
(* resampling made of the file, but for what a limit took off its front.   *)
FeedShares ==
  /\ Feeding =>
       /\ FromFirst(Lines) # <<>> /\ target \in DOMAIN series
       /\ warm \in Seq(Candle) /\ sent \in Seq(Candle)
       /\ stage = "feed" => sent = <<>>
       /\ stage = "closed" => rest = <<>>
       /\ \E d, e \in Nat : Shared(Resampled(Lines), Given, Pending, d, e)
  /\ ~Feeding => warm = <<>> /\ sent = <<>>

LEMMA GivenInFeed ==
  ASSUME NEW w \in Seq(Candle) PROVE w \o <<>> = w
  OBVIOUS

LEMMA SameLines ==
  ASSUME UNCHANGED <<file, target, heikin>>
  PROVE  /\ Lines' = Lines /\ FromFirst(Lines)' = FromFirst(Lines)
         /\ Resampled(Lines)' = Resampled(Lines)
         /\ NoEndIsMissing' = NoEndIsMissing
         /\ \A c : MadeOf(c, Lines)' = MadeOf(c, Lines)
  <1>1. Lines' = Lines
    BY DEF Lines
  <1>2. \A t : IsLastCandlePeriod(t)' = IsLastCandlePeriod(t)
    BY DEF IsLastCandlePeriod
  <1>3. FromFirst(Lines)' = FromFirst(Lines)
    BY <1>1 DEF FromFirst, IsFirstCandlePeriod, IsLastCandlePeriod
  <1>4. Resampled(Lines)' = Resampled(Lines)
    BY <1>1, <1>3 DEF Resampled, Updates, IsLastCandlePeriod
  <1>5. NoEndIsMissing' = NoEndIsMissing
    BY DEF NoEndIsMissing, Times, IsLastCandlePeriod
  <1>6. \A c : MadeOf(c, Lines)' = MadeOf(c, Lines)
    BY <1>1 DEF MadeOf
  <1>. QED
    BY <1>1, <1>3, <1>4, <1>5, <1>6

LEMMA FeedStarts ==
  ASSUME FeedShares, NewCSVFeed, Resampled(Lines) \in Seq(Candle) \/ FromFirst(Lines) = <<>>
  PROVE  FeedShares'
  <1>1. UNCHANGED <<file, target, heikin, warm, rest, sent>> /\ warm = <<>> /\ sent = <<>>
    BY DEF NewCSVFeed, FeedShares, Feeding
  <1>2. CASE stage' # "feed"
    BY <1>1, <1>2 DEF FeedShares, Feeding, NewCSVFeed
  <1>3. CASE stage' = "feed"
    <2>1. /\ FromFirst(Lines) # <<>>
          /\ series' = [t \in {Interval, target} |->
                          IF t = target THEN Resampled(Lines) ELSE Lines]
      BY <1>3 DEF NewCSVFeed
    <2> DEFINE r == Resampled(Lines)
    <2>2. r \in Seq(Candle) /\ r' = r /\ FromFirst(Lines)' # <<>>
      BY <1>1, <2>1, SameLines
    <2>3. target' \in DOMAIN series' /\ Pending' = r
      <3>1. series'[target] = r
        BY <2>1
      <3>. QED
        BY <1>1, <1>3, <2>1, <3>1 DEF Pending
    <2> HIDE DEF r
    <2>4. Shared(r, <<>>, r, 0, 0)
      BY <2>2, AllIsPending
    <2>5. Given' = <<>>
      <3>1. Given' = <<>> \o <<>>
        BY <1>1 DEF Given
      <3>. QED
        BY <3>1
    <2>6. Shared(r', Given', Pending', 0, 0)
      BY <2>2, <2>3, <2>4, <2>5
    <2>7. (\E d, e \in Nat : Shared(Resampled(Lines), Given, Pending, d, e))'
      BY <2>6 DEF r
    <2>. QED
      BY <1>1, <1>3, <2>2, <2>3, <2>7 DEF FeedShares, Feeding
  <1>. QED
    BY <1>2, <1>3

LEMMA FeedLimited ==
  ASSUME FeedShares, NEW duration \in Limits, Limit(duration),
         Resampled(Lines) \in Seq(Candle),
         \A i, j \in 1..Len(Resampled(Lines)) :
            i <= j => Resampled(Lines)[i].time <= Resampled(Lines)[j].time
  PROVE  FeedShares'
  <1>1. UNCHANGED <<file, target, heikin, warm, rest, sent>> /\ stage = "feed" /\ warm = <<>>
        /\ sent = <<>> /\ FromFirst(Lines) # <<>> /\ target \in DOMAIN series
    BY DEF Limit, FeedShares, Feeding
  <1>2. CASE \E t \in DOMAIN series : series[t] = <<>>
    BY <1>1, <1>2 DEF Limit, FeedShares, Feeding
  <1>3. CASE ~ \E t \in DOMAIN series : series[t] = <<>>
    <2> DEFINE r == Resampled(Lines)
               p == series[target]
    <2>1. /\ stage' = "feed" /\ p # <<>>
          /\ series' = [t \in DOMAIN series |-> After(series[t], Last(series[t]).time - duration)]
      BY <1>1, <1>3 DEF Limit
    <2>2. Given = <<>> /\ Given' = <<>> /\ Pending = p
      <3>1. Given = <<>> \o <<>> /\ Given' = <<>> \o <<>>
        BY <1>1 DEF Given
      <3>. QED
        BY <1>1, <3>1 DEF Pending
    <2>3. PICK d \in Nat, e \in Nat : Shared(r, <<>>, p, d, e)
      BY <1>1, <2>2 DEF FeedShares, Feeding
    <2>4. target' \in DOMAIN series' /\ Pending' = After(p, Last(p).time - duration)
      <3>1. DOMAIN series' = DOMAIN series
            /\ series'[target] = After(p, Last(p).time - duration)
        BY <1>1, <2>1
      <3>. QED
        BY <1>1, <2>1, <3>1 DEF Pending
    <2>5. r' = r /\ FromFirst(Lines)' # <<>>
      BY <1>1, SameLines
    <2>6. r \in Seq(Candle) /\ \A i, j \in 1..Len(r) : i <= j => r[i].time <= r[j].time
      OBVIOUS
    <2> HIDE DEF r, p
    <2>7. /\ p \in Seq(Candle) /\ Len(p) = Len(r) - e /\ Len(r) \in Nat /\ Len(p) > 0
          /\ \A i \in 1..Len(p) : p[i] = r[e + i]
      BY <2>1, <2>3, <2>6 DEF Shared
    <2>8. \A i, j \in 1..Len(p) : i <= j => p[i].time <= p[j].time
      <3> SUFFICES ASSUME NEW i \in 1..Len(p), NEW j \in 1..Len(p), i <= j
                   PROVE  p[i].time <= p[j].time
        OBVIOUS
      <3>1. PICK k \in 1..Len(r), l \in 1..Len(r) : k = e + i /\ l = e + j /\ k <= l
        <4>1. e + i \in 1..Len(r) /\ e + j \in 1..Len(r) /\ e + i <= e + j
          BY <2>7
        <4>. QED
          BY <4>1
      <3>. QED
        BY <2>6, <2>7, <3>1
    <2>9. PICK start \in Int : start = Last(p).time - duration /\ Last(p).time > start
      <3>1. Last(p) \in Candle /\ duration \in Nat \ {0}
        BY <2>7, CandleAssumption DEF Last
      <3>2. Last(p).time \in Nat
        BY <3>1 DEF Candle
      <3>. QED
        BY <3>1, <3>2
    <2>10. PICK n \in Nat : n < Len(p) /\ After(p, start) = Left(p, n)
      BY <2>7, <2>8, <2>9, AfterIsTheEnd
    <2>11. Shared(r, <<>>, Left(p, n), e + n, e + n)
      BY <2>3, <2>6, <2>10, LimitedIsShared
    <2>12. Shared(r', Given', Pending', e + n, e + n) /\ e + n \in Nat
      BY <2>2, <2>4, <2>5, <2>9, <2>10, <2>11
    <2>13. (\E a, b \in Nat : Shared(Resampled(Lines), Given, Pending, a, b))'
      BY <2>12 DEF r
    <2>. QED
      BY <1>1, <2>1, <2>4, <2>5, <2>13 DEF FeedShares, Feeding
  <1>. QED
    BY <1>2, <1>3

LEMMA FeedWarms ==
  ASSUME FeedShares, NEW limit \in Warmups, CandlesByLimit(limit),
         Resampled(Lines) \in Seq(Candle)
  PROVE  FeedShares'
  <1>1. UNCHANGED <<file, target, heikin, rest, sent>> /\ stage = "feed" /\ warm = <<>>
        /\ sent = <<>> /\ FromFirst(Lines) # <<>> /\ target \in DOMAIN series
    BY DEF CandlesByLimit, FeedShares, Feeding
  <1> DEFINE r == Resampled(Lines)
             p == series[target]
  <1>2. CASE Len(p) < limit
    BY <1>1, <1>2 DEF CandlesByLimit, FeedShares, Feeding
  <1>3. CASE ~(Len(p) < limit)
    <2>1. /\ stage' = "feed" /\ warm' = FirstOf(p, limit)
          /\ series' = [series EXCEPT ![target] = Left(p, limit)]
      BY <1>1, <1>3 DEF CandlesByLimit
    <2>2. Given = <<>> /\ Pending = p
      <3>1. Given = <<>> \o <<>>
        BY <1>1 DEF Given
      <3>. QED
        BY <1>1, <3>1 DEF Pending
    <2>3. PICK d \in Nat, e \in Nat : Shared(r, <<>>, p, d, e)
      BY <1>1, <2>2 DEF FeedShares, Feeding
    <2>4. target' \in DOMAIN series' /\ Pending' = Left(p, limit)
      <3>1. DOMAIN series' = DOMAIN series /\ series'[target] = Left(p, limit)
        BY <1>1, <2>1
      <3>. QED
        BY <1>1, <2>1, <3>1 DEF Pending
    <2>5. r' = r /\ FromFirst(Lines)' # <<>>
      BY <1>1, SameLines
    <2>6. r \in Seq(Candle)
      OBVIOUS
    <2> HIDE DEF r, p
    <2>7. p \in Seq(Candle) /\ Len(p) \in Nat
      BY <2>3 DEF Shared
    <2>8. limit \in Nat /\ limit <= Len(p)
      BY <1>3, <2>7, CandleAssumption
    <2>9. Shared(r, FirstOf(p, limit), Left(p, limit), d, e + limit)
      BY <2>3, <2>6, <2>8, WarmIsShared
    <2>10. warm' \in Seq(Candle) /\ Given' = warm'
      <3>1. FirstOf(p, limit) \in Seq(Candle)
        BY <2>7, <2>8, FirstIs
      <3>2. Given' = warm' \o <<>>
        BY <1>1 DEF Given
      <3>. QED
        BY <2>1, <3>1, <3>2, GivenInFeed
    <2>11. Shared(r', Given', Pending', d, e + limit) /\ e + limit \in Nat
      BY <2>1, <2>4, <2>5, <2>8, <2>9, <2>10
    <2>12. (\E a, b \in Nat : Shared(Resampled(Lines), Given, Pending, a, b))'
      BY <2>11 DEF r
    <2>. QED
      BY <1>1, <2>1, <2>4, <2>5, <2>10, <2>12 DEF FeedShares, Feeding
  <1>. QED
    BY <1>2, <1>3

LEMMA FeedSends ==
  ASSUME FeedShares, CandlesSubscription \/ SendCandle, Resampled(Lines) \in Seq(Candle)
  PROVE  FeedShares'
  <1>1. UNCHANGED <<file, target, heikin, series, warm>> /\ FromFirst(Lines) # <<>>
        /\ target \in DOMAIN series /\ warm \in Seq(Candle) /\ sent \in Seq(Candle)
        /\ (stage = "feed" => sent = <<>>) /\ Feeding
    BY DEF CandlesSubscription, SendCandle, FeedShares, Feeding
  <1> DEFINE r == Resampled(Lines)
  <1>2. r' = r /\ FromFirst(Lines)' # <<>> /\ r \in Seq(Candle)
    BY <1>1, SameLines
  <1>3. PICK d \in Nat, e \in Nat : Shared(r, Given, Pending, d, e)
    BY <1>1 DEF FeedShares
  <1> HIDE DEF r
  <1>4. ASSUME Feeding', Shared(r, Given', Pending', d, e) \/ Shared(r, Given', Pending', d, e + 1),
               sent' \in Seq(Candle), stage' # "feed", stage' = "closed" => rest' = <<>>
        PROVE  FeedShares'
    <2>1. Shared(r', Given', Pending', d, e) \/ Shared(r', Given', Pending', d, e + 1)
      BY <1>2, <1>4
    <2>2. e + 1 \in Nat
      OBVIOUS
    <2>3. (\E a, b \in Nat : Shared(Resampled(Lines), Given, Pending, a, b))'
      BY <2>1, <2>2 DEF r
    <2>. QED
      BY <1>1, <1>2, <1>4, <2>3 DEF FeedShares
  <1>5. CASE CandlesSubscription
    <2>1. stage = "feed" /\ stage' = "sending" /\ rest' = series[target] /\ sent' = sent
      BY <1>5 DEF CandlesSubscription
    <2>2. Pending' = Pending /\ Given' = Given
      BY <1>1, <2>1 DEF Pending, Given
    <2>. QED
      BY <1>1, <1>3, <1>4, <2>1, <2>2 DEF Feeding
  <1>6. CASE SendCandle /\ rest = <<>>
    <2>1. stage = "sending" /\ stage' = "closed" /\ rest' = rest /\ sent' = sent
      BY <1>6 DEF SendCandle
    <2>2. Pending' = Pending /\ Given' = Given
      BY <1>1, <2>1 DEF Pending, Given
    <2>. QED
      BY <1>1, <1>3, <1>4, <1>6, <2>1, <2>2 DEF Feeding
  <1>7. CASE SendCandle /\ rest # <<>>
    <2>1. /\ stage = "sending" /\ stage' = "sending"
          /\ sent' = Append(sent, Head(rest)) /\ rest' = Tail(rest)
      BY <1>7 DEF SendCandle
    <2>2. Pending = rest /\ Pending' = Tail(rest)
      BY <2>1 DEF Pending
    <2>3. Shared(r, Append(Given, Head(rest)), Tail(rest), d, e + 1) /\ Head(rest) \in Candle
      BY <1>2, <1>3, <1>7, <2>2, SentIsShared
    <2>4. Given' = Append(Given, Head(rest)) /\ sent' \in Seq(Candle)
      <3>1. PICK x \in Candle : x = Head(rest)
        BY <2>3
      <3>2. warm \o Append(sent, x) = Append(warm \o sent, x) /\ Append(sent, x) \in Seq(Candle)
        BY <1>1
      <3>. QED
        BY <1>1, <2>1, <3>1, <3>2 DEF Given
    <2>. QED
      BY <1>4, <2>1, <2>2, <2>3, <2>4 DEF Feeding
  <1>. QED
    BY <1>5, <1>6, <1>7

LEMMA FeedInit == ASSUME Init PROVE FeedType /\ FeedShares
  BY DEF Init, FeedType, FeedShares, Feeding

LEMMA FeedNext ==
  ASSUME DownloadType, Over, FeedType, FeedShares, [Next]_vars
  PROVE  FeedType' /\ FeedShares'
  <1>1. UNCHANGED <<target, heikin>>
    BY DEF Next, vars, csvFeed, DownloadBatch, DownloadFails, DownloadEnds, NewCSVFeed, Limit,
           CandlesByLimit, CandlesSubscription, SendCandle
  <1>2. FeedType'
    BY <1>1 DEF FeedType
  <1>3. stage \in {"file", "feed", "sending", "closed"} /\ FromFirst(Lines) # <<>> =>
          /\ Resampled(Lines) \in Seq(Candle)
          /\ \A i, j \in 1..Len(Resampled(Lines)) :
               i <= j => Resampled(Lines)[i].time <= Resampled(Lines)[j].time
    BY ResampledIs DEF Over, Downloaded
  <1>4. CASE DownloadBatch \/ DownloadFails \/ DownloadEnds
    <2>1. stage = "download" /\ stage' \in {"download", "failed", "file"}
          /\ UNCHANGED <<warm, sent>>
      BY <1>4 DEF DownloadBatch, DownloadFails, DownloadEnds, csvFeed
    <2>. QED
      BY <1>2, <2>1 DEF FeedShares, Feeding
  <1>5. CASE NewCSVFeed
    BY <1>2, <1>3, <1>5, FeedStarts DEF NewCSVFeed
  <1>6. ASSUME NEW duration \in Limits, Limit(duration) PROVE FeedShares'
    <2>1. stage = "feed" /\ FromFirst(Lines) # <<>>
      BY <1>6 DEF Limit, FeedShares, Feeding
    <2>. QED
      BY <1>3, <1>6, <2>1, FeedLimited
  <1>7. ASSUME NEW limit \in Warmups, CandlesByLimit(limit) PROVE FeedShares'
    <2>1. stage = "feed" /\ FromFirst(Lines) # <<>>
      BY <1>7 DEF CandlesByLimit, FeedShares, Feeding
    <2>. QED
      BY <1>3, <1>7, <2>1, FeedWarms
  <1>8. CASE CandlesSubscription \/ SendCandle
    <2>1. stage \in {"feed", "sending"} /\ FromFirst(Lines) # <<>>
      BY <1>8 DEF CandlesSubscription, SendCandle, FeedShares, Feeding
    <2>. QED
      BY <1>2, <1>3, <1>8, <2>1, FeedSends
  <1>9. CASE UNCHANGED vars
    <2>1. UNCHANGED <<stage, file, target, heikin, series, warm, rest, sent>>
      BY <1>9 DEF vars, csvFeed
    <2>2. Given' = Given /\ Pending' = Pending /\ Feeding' = Feeding
      BY <2>1 DEF Given, Pending, Feeding
    <2>. QED
      BY <1>2, <2>1, <2>2, SameLines DEF FeedShares
  <1>. QED
    BY <1>2, <1>4, <1>5, <1>6, <1>7, <1>8, <1>9 DEF Next

-----------------------------------------------------------------------------
(* What was handed out.                                                    *)

LEMMA ReversedIs ==
  ASSUME NEW s \in Seq(Candle)
  PROVE  /\ Reverse(s) \in Seq(Candle) /\ Len(Reverse(s)) = Len(s)
         /\ \A i \in 1..Len(s) : Reverse(s)[i] = s[Len(s) - i + 1]
  <1> DEFINE n == Len(s)
             t == [i \in 1..n |-> s[n - i + 1]]
  <1>1. n \in Nat /\ Reverse(s) = t
    BY DEF Reverse
  <1>2. \A i \in 1..n : s[n - i + 1] \in Candle
    <2> SUFFICES ASSUME NEW i \in 1..n PROVE s[n - i + 1] \in Candle
      OBVIOUS
    <2>1. n - i + 1 \in 1..n
      BY <1>1
    <2>. QED
      BY <2>1
  <1>3. \A i \in 1..n : t[i] = s[n - i + 1]
    OBVIOUS
  <1>4. t \in Seq(Candle) /\ Len(t) = n
    <2>1. t \in [1..n -> Candle]
      BY <1>2
    <2> HIDE DEF t, n
    <2>. QED
      BY <1>1, <2>1, IsASeq
  <1>. QED
    BY <1>1, <1>3, <1>4

(* The end of a sequence is a suffix of it.                                *)
LEMMA EndIsSuffix ==
  ASSUME NEW r \in Seq(Candle), NEW g \in Seq(Candle), NEW d \in Nat, d <= Len(r),
         Len(g) = Len(r) - d, \A i \in 1..Len(g) : g[i] = r[d + i]
  PROVE  IsSuffix(g, r)
  <1> DEFINE rr == Reverse(r)
             gg == Reverse(g)
             n == Len(r)
             m == Len(g)
  <1>1. n \in Nat /\ m \in Nat /\ m = n - d /\ m <= n /\ n = m + d
    OBVIOUS
  <1>2. /\ rr \in Seq(Candle) /\ Len(rr) = n /\ \A i \in 1..n : rr[i] = r[n - i + 1]
        /\ gg \in Seq(Candle) /\ Len(gg) = m /\ \A i \in 1..m : gg[i] = g[m - i + 1]
    BY ReversedIs
  <1> HIDE DEF rr, gg, n, m
  <1>3. \A i \in 1..m : gg[i] = rr[i]
    <2> SUFFICES ASSUME NEW i \in 1..m PROVE gg[i] = rr[i]
      OBVIOUS
    <2>1. PICK j \in 1..m : j = m - i + 1 /\ d + j = n - i + 1
      <3>1. m - i + 1 \in 1..m /\ d + (m - i + 1) = n - i + 1
        BY <1>1
      <3>. QED
        BY <3>1
    <2>2. g[j] = r[d + j]
      BY DEF m
    <2>3. i \in 1..n
      BY <1>1
    <2>. QED
      BY <1>2, <2>1, <2>2, <2>3
  <1>4. SubSeq(gg, 1, m) = gg
    BY <1>2, SubSeqFull
  <1>5. SubSeq(rr, 1, m) = gg
    <2>1. \A i \in 1..m : rr[i] \in Candle
      <3> SUFFICES ASSUME NEW i \in 1..m PROVE rr[i] \in Candle
        OBVIOUS
      <3>1. i \in 1..n
        BY <1>1
      <3>. QED
        BY <1>2, <3>1
    <2>2. /\ SubSeq(rr, 1, m) \in Seq(Candle)
          /\ Len(SubSeq(rr, 1, m)) = IF 1 <= m THEN m - 1 + 1 ELSE 0
          /\ \A i \in 1..(m - 1 + 1) : SubSeq(rr, 1, m)[i] = rr[1 + i - 1]
      BY <1>1, <2>1, SubSeqProperties
    <2>3. m - 1 + 1 = m /\ (IF 1 <= m THEN m - 1 + 1 ELSE 0) = m
          /\ \A i \in 1..m : 1 + i - 1 = i
      BY <1>1
    <2>4. PICK t \in Seq(Candle) : t = SubSeq(rr, 1, m)
      BY <2>2
    <2>5. Len(t) = m /\ \A i \in 1..m : t[i] = rr[i]
      BY <2>2, <2>3, <2>4
    <2>6. \A i \in 1..Len(t) : t[i] = gg[i]
      BY <1>3, <2>5
    <2>7. t = gg
      BY <1>2, <2>5, <2>6, SeqEqual
    <2>. QED
      BY <2>4, <2>7
  <1>6. IsPrefix(gg, rr)
    BY <1>1, <1>2, <1>4, <1>5 DEF IsPrefix
  <1>. QED
    BY <1>6 DEF IsSuffix, gg, rr

LEMMA SharesAreWhole ==
  ASSUME DownloadType, Over, FeedType, FeedShares
  PROVE  FeedIsWhole
  <1>1. CASE ~Feeding
    <2>1. Given = <<>> \o <<>> /\ stage # "closed"
      BY <1>1 DEF Given, FeedShares, Feeding
    <2>2. Given = <<>>
      BY <2>1
    <2>. QED
      BY <2>1, <2>2 DEF FeedIsWhole, PeriodsAreWhole, UpdatesAscend, HandedOutOnce
  <1>2. CASE Feeding
    <2> DEFINE r == Resampled(Lines)
               g == Given
               L == Lines
    <2>1. /\ r \in Seq(Candle)
          /\ NoEndIsMissing => \A i \in 1..Len(r) : r[i].complete => MadeOf(r[i], L)
          /\ \A i \in 1..(Len(r) - 1) : Later(r[i], r[i + 1])
      <3>1. FromFirst(Lines) # <<>> /\ Entered(file)
        BY <1>2 DEF FeedShares, Over, Downloaded, Feeding
      <3>. QED
        BY <3>1, ResampledIs
    <2>2. PICK d \in Nat, e \in Nat : Shared(r, g, Pending, d, e)
      BY <1>2 DEF FeedShares
    <2>3. stage = "closed" => Pending = <<>>
      BY <1>2 DEF FeedShares, Pending
    <2> HIDE DEF r, g, L
    <2>4. /\ Len(r) \in Nat /\ d <= e /\ e <= Len(r) /\ (d < Len(r) \/ r = <<>>)
          /\ g \in Seq(Candle) /\ Len(g) \in Nat /\ Len(g) = e - d
          /\ \A i \in 1..Len(g) : g[i] = r[d + i]
          /\ Len(Pending) = Len(r) - e
      BY <2>1, <2>2 DEF Shared
    <2>5. PeriodsAreWhole
      <3> SUFFICES ASSUME NoEndIsMissing, NEW i \in DOMAIN g, g[i].complete PROVE MadeOf(g[i], L)
        BY DEF PeriodsAreWhole, g, L
      <3>1. i \in 1..Len(g) /\ d + i \in 1..Len(r)
        BY <2>4
      <3>. QED
        BY <2>1, <2>4, <3>1
    <2>6. UpdatesAscend
      <3> SUFFICES ASSUME NEW i \in 2..Len(g) PROVE Later(g[i - 1], g[i])
        BY DEF UpdatesAscend, g, Later
      <3>1. PICK j \in 1..Len(g), k \in 1..(Len(r) - 1) : j = i - 1 /\ k = d + j /\ k + 1 = d + i
                                                      /\ i \in 1..Len(g)
        <4>1. /\ i - 1 \in 1..Len(g) /\ d + (i - 1) \in 1..(Len(r) - 1)
              /\ d + (i - 1) + 1 = d + i /\ i \in 1..Len(g)
          BY <2>4
        <4>. QED
          BY <4>1
      <3>2. g[j] = r[k] /\ g[i] = r[k + 1]
        BY <2>4, <3>1
      <3>. QED
        BY <2>1, <3>1, <3>2
    <2>7. HandedOutOnce
      <3> SUFFICES ASSUME stage = "closed" PROVE IsSuffix(g, r) /\ (r # <<>> => g # <<>>)
        BY DEF HandedOutOnce, g, r
      <3>1. e = Len(r)
        BY <2>3, <2>4
      <3>2. IsSuffix(g, r)
        BY <2>1, <2>4, <3>1, EndIsSuffix
      <3>3. r # <<>> => Len(g) # 0
        BY <2>4, <3>1
      <3>. QED
        BY <3>2, <3>3
    <2>. QED
      BY <2>5, <2>6, <2>7 DEF FeedIsWhole
  <1>. QED
    BY <1>1, <1>2

(* Whatever the file misses, the candles that NewCSVFeed resamples from it *)
(* (exchange/csvfeed.go) are handed out in the order of the queue, once,   *)
(* by CandlesByLimit and CandlesSubscription, after a Limit or not; the    *)
(* complete ones are made of exactly the lines of their period, as long as *)
(* no candle that ends a period is missing.                                *)
THEOREM TheFeedIsWhole == Spec => []FeedIsWhole
  <1>1. Init => DownloadType /\ UnderWay /\ Over /\ FeedType /\ FeedShares
    BY DownloadInit, FeedInit
  <1>2. DownloadType /\ UnderWay /\ Over /\ FeedType /\ FeedShares /\ [Next]_vars
          => DownloadType' /\ UnderWay' /\ Over' /\ FeedType' /\ FeedShares'
    BY DownloadNext, FeedNext
  <1>3. DownloadType /\ UnderWay /\ Over /\ FeedType /\ FeedShares => FeedIsWhole
    BY SharesAreWhole
  <1>. QED
    BY <1>1, <1>2, <1>3, PTL DEF Spec

-----------------------------------------------------------------------------
(* The candles from Binance.                                               *)

LivePeriod == 1..LastPeriod
Kline == [time : Nat, changes : Nat, final : BOOLEAN]
LiveCandle == [time : Nat, changes : Nat, complete : BOOLEAN]

LiveType ==
  /\ now \in 0..LastPeriod /\ changes \in [LivePeriod -> Nat]
  /\ wire \in Seq(Kline)
  /\ preload \in Seq(LiveCandle) /\ loaded \in 0..now
  /\ sending = <<>> \/ \E candle \in LiveCandle : sending = <<candle>>
  /\ heard \in [Consumer -> Seq(LiveCandle)]
  /\ feed \in {"load", "failed", "panicked", "preload", "select", "returned"}
  /\ stream \in {"none", "dial", "serve", "backoff", "ended"}

(* The end of period p, as it was: no later trade changes it.              *)
IsEnd(p, n) == p \in 1..(now - 1) /\ n = changes[p]

(* What is called complete is final, wherever it is.                       *)
FinalInv ==
  /\ \A kline \in Range(wire) : kline.final => IsEnd(kline.time, kline.changes)
  /\ \A candle \in Range(preload) \cup Range(sending) :
       candle.complete => IsEnd(candle.time, candle.changes)
  /\ \A c \in Consumer : \A candle \in Told(c) : IsEnd(candle.time, candle.changes)

(* Where the end of a period is once the feed has loaded its candles.      *)
OnWire(p) == \E kline \in Range(wire) : kline.final /\ kline.time = p
InHand(p) == \E candle \in Range(sending) : candle.complete /\ candle.time = p
Heard(c, p) == \E candle \in Told(c) : candle.time = p

(* The end of each period since the candles were loaded is somewhere on    *)
(* its way, or everybody heard of it.                                      *)
TellInv ==
  feed \in {"preload", "select"} =>
    /\ loaded > 0
    /\ \A p \in loaded..(now - 1) :
         p \in missed \/ OnWire(p) \/ InHand(p) \/ \A c \in Consumer : Heard(c, p)

-----------------------------------------------------------------------------
(* The members of sequences.                                               *)

LEMMA RangeAppend ==
  ASSUME NEW S, NEW s \in Seq(S), NEW x \in S
  PROVE  /\ Append(s, x) \in Seq(S) /\ Range(Append(s, x)) = Range(s) \cup {x}
  <1>1. /\ Append(s, x) \in Seq(S) /\ Len(Append(s, x)) = Len(s) + 1 /\ Len(s) \in Nat
        /\ \A i \in 1..Len(s) : Append(s, x)[i] = s[i]
        /\ Append(s, x)[Len(s) + 1] = x
    OBVIOUS
  <1>2. DOMAIN s = 1..Len(s) /\ DOMAIN Append(s, x) = 1..(Len(s) + 1)
    BY <1>1
  <1> DEFINE t == Append(s, x)
  <1> HIDE DEF t
  <1>3. \A y \in Range(t) : y \in Range(s) \cup {x}
    BY <1>1, <1>2 DEF Range, t
  <1>4. \A y \in Range(s) \cup {x} : y \in Range(t)
    BY <1>1, <1>2 DEF Range, t
  <1>. QED
    BY <1>1, <1>3, <1>4 DEF t

LEMMA RangeTail ==
  ASSUME NEW S, NEW s \in Seq(S), s # <<>>
  PROVE  /\ Head(s) \in S /\ Tail(s) \in Seq(S) /\ Head(s) \in Range(s)
         /\ Range(s) = {Head(s)} \cup Range(Tail(s))
  <1>1. /\ Len(s) \in Nat \ {0} /\ Head(s) = s[1] /\ Head(s) \in S
        /\ Tail(s) \in Seq(S) /\ Len(Tail(s)) = Len(s) - 1
        /\ \A i \in 1..(Len(s) - 1) : Tail(s)[i] = s[i + 1]
    OBVIOUS
  <1>2. DOMAIN s = 1..Len(s) /\ DOMAIN Tail(s) = 1..(Len(s) - 1)
    BY <1>1
  <1> DEFINE t == Tail(s)
  <1> HIDE DEF t
  <1>3. \A y \in Range(t) : y \in Range(s)
    BY <1>1, <1>2 DEF Range, t
  <1>4. \A y \in Range(s) : y = s[1] \/ y \in Range(t)
    <2> SUFFICES ASSUME NEW i \in 1..Len(s), i # 1 PROVE s[i] \in Range(t)
      BY <1>2 DEF Range
    <2>1. i - 1 \in 1..(Len(s) - 1) /\ t[i - 1] = s[i]
      BY <1>1 DEF t
    <2>. QED
      BY <1>2, <2>1 DEF Range, t
  <1>5. s[1] \in Range(s)
    BY <1>1, <1>2 DEF Range
  <1>. QED
    BY <1>1, <1>3, <1>4, <1>5 DEF t

LEMMA RangeSmall == Range(<<>>) = {} /\ \A x : Range(<<x>>) = {x}
  BY DEF Range

-----------------------------------------------------------------------------

(* The candles that CandlesByLimit passes on are of periods that are over. *)
LEMMA PreloadedAreEnds ==
  ASSUME LiveType, now > 0
  PROVE  /\ Discarded(Answered) \in Seq(LiveCandle)
         /\ \A candle \in Range(Discarded(Answered)) : IsEnd(candle.time, candle.changes)
  <1> DEFINE first == IF now > Warmup THEN now - Warmup ELSE 1
             n == now + 1 - first
             a == [i \in 1..n |-> CandleFromKline(first + i - 1)]
             d == [i \in 1..(n - 1) |-> CandleFromKline(first + i - 1)]
  <1>1. first \in 1..now /\ now \in Nat /\ n \in Nat /\ n >= 1
    BY FeedAssumption DEF LiveType
  <1> HIDE DEF first
  <1>2. \A i \in 1..n : first + i - 1 \in LivePeriod /\ first + i - 1 \in 1..now
    BY <1>1, FeedAssumption DEF LiveType, LivePeriod
  <1>3. \A i \in 1..n : CandleFromKline(first + i - 1) \in LiveCandle
    BY <1>2 DEF CandleFromKline, LiveCandle, LiveType, LivePeriod
  <1>4. a \in Seq(LiveCandle) /\ Len(a) = n
    BY <1>1, <1>3
  <1>5. d \in Seq(LiveCandle) /\ Front(a) = d
    <2>1. Front(a) = [i \in 1..(n - 1) |-> a[i]]
      BY <1>1, <1>4 DEF Front
    <2>2. \A i \in 1..(n - 1) : a[i] = CandleFromKline(first + i - 1)
      BY <1>1
    <2>3. Front(a) = d
      BY <2>1, <2>2
    <2>4. n - 1 \in Nat /\ \A i \in 1..(n - 1) : CandleFromKline(first + i - 1) \in LiveCandle
      BY <1>1, <1>3
    <2>5. d \in Seq(LiveCandle)
      <3> DEFINE g(i) == CandleFromKline(first + i - 1)
      <3> HIDE DEF g
      <3>1. [i \in 1..(n - 1) |-> g(i)] \in Seq(LiveCandle)
        BY <2>4 DEF g
      <3>. QED
        BY <3>1 DEF g
    <2>. QED
      BY <2>3, <2>5
  <1>6. \A i \in 1..(n - 1) : IsEnd(first + i - 1, changes[first + i - 1])
    BY <1>1 DEF IsEnd
  <1>7. \A candle \in Range(d) : IsEnd(candle.time, candle.changes)
    BY <1>6 DEF Range, CandleFromKline
  <1>8. Discarded(Answered) = Front(a)
    BY DEF Discarded, Answered, first
  <1>. QED
    BY <1>5, <1>7, <1>8

LEMMA Initially == ASSUME LiveInit PROVE LiveType /\ FinalInv /\ TellInv
  <1>1. LiveType
    BY FeedAssumption DEF LiveInit, LiveType, LivePeriod
  <1>2. \A c \in Consumer : Told(c) = {}
    BY RangeSmall DEF LiveInit, Told
  <1>3. FinalInv /\ TellInv
    BY <1>2, RangeSmall DEF LiveInit, FinalInv, TellInv
  <1>. QED
    BY <1>1, <1>3

LEMMA TypeNext == ASSUME LiveType, [LiveNext]_live PROVE LiveType'
  <1>0. LastPeriod \in Nat /\ now \in Nat /\ \A p \in LivePeriod : changes[p] \in Nat
    BY FeedAssumption DEF LiveType
  <1>1. CASE Trade
    <2>1. changes[now] + 1 \in Nat
      BY <1>0, <1>1 DEF Trade, LiveType, LivePeriod
    <2>2. Event(changes[now] + 1, FALSE) \in Kline
      BY <1>0, <2>1 DEF Event, Kline
    <2>3. wire' \in Seq(Kline)
      BY <1>1, <2>2, RangeAppend DEF Trade, Send, LiveType
    <2>. QED
      BY <1>1, <2>1, <2>3 DEF Trade, LiveType
  <1>2. CASE PeriodEnds
    <2>1. wire' \in Seq(Kline)
      <3>1. CASE now = 0
        BY <1>2, <3>1 DEF PeriodEnds, LiveType
      <3>2. CASE now # 0
        <4>1. Event(changes[now], TRUE) \in Kline
          BY <1>0, <3>2 DEF Event, Kline, LiveType, LivePeriod
        <4>2. wire \in Seq(Kline) /\ Append(wire, Event(changes[now], TRUE)) \in Seq(Kline)
          BY <4>1, RangeAppend DEF LiveType
        <4>3. wire' = wire \/ wire' = Append(wire, Event(changes[now], TRUE))
          BY <1>2, <3>2 DEF PeriodEnds, Send
        <4>. QED
          BY <4>2, <4>3
      <3>. QED
        BY <3>1, <3>2
    <2>2. now' \in 0..LastPeriod /\ loaded' \in 0..now'
      BY <1>0, <1>2 DEF PeriodEnds, LiveType
    <2>. QED
      BY <1>2, <2>1, <2>2 DEF PeriodEnds, LiveType
  <1>3. CASE Break
    BY <1>3 DEF Break, LiveType
  <1>4. CASE KlinesByLimit
    BY <1>0, <1>4, PreloadedAreEnds DEF KlinesByLimit, LiveType, market
  <1>5. CASE Preload
    <2>1. Head(preload) \in LiveCandle /\ preload' \in Seq(LiveCandle)
      BY <1>5, RangeTail DEF Preload, LiveType
    <2>2. heard' \in [Consumer -> Seq(LiveCandle)]
      <3>. DEFINE some == IF Head(preload).complete THEN Consumer ELSE {}
      <3>1. heard' = [c \in Consumer |->
                        IF c \in some THEN Append(heard[c], Head(preload)) ELSE heard[c]]
        BY <1>5 DEF Preload, Call
      <3>. HIDE DEF some
      <3>. QED
        BY <2>1, <3>1 DEF LiveType
    <2>. QED
      BY <1>5, <2>1, <2>2 DEF Preload, LiveType, market
  <1>6. CASE Start
    BY <1>6 DEF Start, LiveType, market
  <1>7. CASE Dial \/ DialFails \/ Reconnect
    BY <1>7 DEF Dial, DialFails, Reconnect, AfterDone, LiveType, market
  <1>8. CASE Handle
    <2>1. Head(wire) \in Kline /\ Tail(wire) \in Seq(Kline)
      BY <1>8, RangeTail DEF Handle, LiveType
    <2>2. CandleFromWsKline(Head(wire)) \in LiveCandle
      BY <2>1 DEF CandleFromWsKline, LiveCandle, Kline
    <2>. QED
      BY <1>8, <2>1, <2>2 DEF Handle, LiveType
  <1>9. CASE ReceiveCandle
    <2>1. PICK candle \in LiveCandle : sending = <<candle>>
      BY <1>9 DEF ReceiveCandle, LiveType
    <2>2. heard' \in [Consumer -> Seq(LiveCandle)]
      <3>. DEFINE some == {c \in Consumer : Interested(c, sending[1])}
      <3>1. heard' = [c \in Consumer |->
                        IF c \in some THEN Append(heard[c], candle) ELSE heard[c]]
        BY <1>9, <2>1 DEF ReceiveCandle, Call
      <3>. HIDE DEF some
      <3>. QED
        BY <2>1, <3>1 DEF LiveType
    <2>. QED
      BY <1>9, <2>2 DEF ReceiveCandle, LiveType, market
  <1>10. CASE ReceiveError \/ FeedReturns \/ UNCHANGED live
    BY <1>10 DEF ReceiveError, FeedReturns, live, LiveType, market
  <1>. QED
    BY <1>1, <1>2, <1>3, <1>4, <1>5, <1>6, <1>7, <1>8, <1>9, <1>10
       DEF LiveNext, Bot, Subscription, FeedTurn

(* The exchange sends a change that is not final, or the end of the current *)
(* period.                                                                 *)
LEMMA Sent ==
  ASSUME LiveType, Trade \/ PeriodEnds
  PROVE  \/ wire' = wire /\ (PeriodEnds /\ now # 0 => now \in missed')
         \/ \E kline \in Kline :
              /\ Range(wire)' = Range(wire) \cup {kline}
              /\ \/ Trade /\ kline.final = FALSE
                 \/ /\ PeriodEnds /\ kline.final = TRUE
                    /\ now # 0 /\ kline.time = now /\ kline.changes = changes[now]
  <1>0. now \in Nat /\ now <= LastPeriod /\ LastPeriod \in Nat /\ changes \in [LivePeriod -> Nat]
    BY FeedAssumption DEF LiveType
  <1>1. ASSUME NEW n \in Nat, NEW final \in BOOLEAN
        PROVE  /\ Event(n, final) \in Kline /\ Event(n, final).final = final
               /\ Event(n, final).time = now /\ Event(n, final).changes = n
               /\ Range(Append(wire, Event(n, final))) = Range(wire) \cup {Event(n, final)}
    <2>1. /\ Event(n, final) \in Kline /\ Event(n, final).final = final
          /\ Event(n, final).time = now /\ Event(n, final).changes = n
      BY <1>0 DEF Event, Kline
    <2>. QED
      BY <2>1, RangeAppend DEF LiveType
  <1>2. CASE Trade
    <2>1. changes[now] + 1 \in Nat
      BY <1>0, <1>2 DEF Trade, LivePeriod
    <2>2. wire' = wire \/ wire' = Append(wire, Event(changes[now] + 1, FALSE))
      BY <1>2 DEF Trade, Send
    <2>3. CASE wire' = wire
      <3>1. now' = now
        BY <1>2 DEF Trade
      <3>2. PeriodEnds => now' = now + 1
        BY DEF PeriodEnds
      <3>3. ~PeriodEnds
        BY <1>0, <3>1, <3>2
      <3>. QED
        BY <2>3, <3>3
    <2>4. CASE wire' = Append(wire, Event(changes[now] + 1, FALSE))
      <3> DEFINE kline == Event(changes[now] + 1, FALSE)
      <3>1. kline \in Kline /\ kline.final = FALSE /\ Range(wire)' = Range(wire) \cup {kline}
        BY <1>1, <2>1, <2>4
      <3>. QED
        BY <1>2, <3>1
    <2>. QED
      BY <2>2, <2>3, <2>4
  <1>3. CASE PeriodEnds
    <2>1. CASE wire' = wire /\ (now # 0 => now \in missed')
      BY <2>1
    <2>2. CASE wire' = Append(wire, Event(changes[now], TRUE)) /\ now # 0
      <3> DEFINE kline == Event(changes[now], TRUE)
      <3>1. changes[now] \in Nat
        BY <1>0, <2>2 DEF LivePeriod
      <3>2. /\ kline \in Kline /\ kline.final = TRUE /\ Range(wire)' = Range(wire) \cup {kline}
            /\ kline.time = now /\ kline.changes = changes[now]
        BY <1>1, <2>2, <3>1
      <3>. QED
        BY <1>3, <2>2, <3>2
    <2>. QED
      BY <1>3, <2>1, <2>2 DEF PeriodEnds, Send
  <1>. QED
    BY <1>2, <1>3

(* The end of a period stays what it was.                                  *)
LEMMA EndsStay ==
  ASSUME LiveType, [LiveNext]_live
  PROVE  /\ now' \in Nat /\ now' >= now
         /\ \A p, n : IsEnd(p, n) => IsEnd(p, n)'
  <1>0. now \in Nat /\ changes \in [LivePeriod -> Nat]
    BY DEF LiveType
  <1>1. CASE Trade
    BY <1>0, <1>1 DEF Trade, IsEnd
  <1>2. CASE PeriodEnds
    BY <1>0, <1>2 DEF PeriodEnds, IsEnd
  <1>3. CASE UNCHANGED <<now, changes>>
    BY <1>0, <1>3 DEF IsEnd
  <1>4. Break \/ Bot \/ Subscription \/ FeedTurn \/ UNCHANGED live => UNCHANGED <<now, changes>>
    BY DEF Break, Bot, KlinesByLimit, Preload, Start, Subscription, Dial, DialFails, Reconnect,
           Handle, FeedTurn, ReceiveCandle, ReceiveError, FeedReturns, live, market
  <1>. QED
    BY <1>1, <1>2, <1>3, <1>4 DEF LiveNext

(* What the subscribers heard after a call.                                *)
LEMMA Called ==
  ASSUME LiveType, NEW some, NEW candle \in LiveCandle, Call(some, candle), NEW c \in Consumer
  PROVE  Told(c)' = IF c \in some /\ candle.complete THEN Told(c) \cup {candle} ELSE Told(c)
  <1>1. heard'[c] = IF c \in some THEN Append(heard[c], candle) ELSE heard[c]
    BY DEF Call
  <1>2. heard[c] \in Seq(LiveCandle)
    BY DEF LiveType
  <1>3. Range(Append(heard[c], candle)) = Range(heard[c]) \cup {candle}
    BY <1>2, RangeAppend
  <1>4. Range(heard'[c]) = IF c \in some THEN Range(heard[c]) \cup {candle} ELSE Range(heard[c])
    BY <1>1, <1>3
  <1>. QED
    BY <1>4 DEF Told

LEMMA FinalNext == ASSUME LiveType, FinalInv, [LiveNext]_live PROVE FinalInv'
  <1>0. \A p, n : IsEnd(p, n) => IsEnd(p, n)'
    BY EndsStay
  <1>1. CASE Trade \/ PeriodEnds
    <2>1. UNCHANGED <<preload, sending, heard>>
      BY <1>1 DEF Trade, PeriodEnds
    <2>2. \A kline \in Range(wire)' : kline.final => IsEnd(kline.time, kline.changes)'
      <3>1. CASE wire' = wire
        BY <1>0, <3>1 DEF FinalInv
      <3>2. ASSUME NEW kline \in Kline, Range(wire)' = Range(wire) \cup {kline},
                   kline.final = FALSE
            PROVE  \A k \in Range(wire)' : k.final => IsEnd(k.time, k.changes)'
        BY <1>0, <3>2 DEF FinalInv
      <3>3. ASSUME NEW kline \in Kline, Range(wire)' = Range(wire) \cup {kline}, PeriodEnds,
                   now # 0, kline.time = now, kline.changes = changes[now]
            PROVE  \A k \in Range(wire)' : k.final => IsEnd(k.time, k.changes)'
        <4>1. now \in 1..(now' - 1) /\ changes'[now] = changes[now]
          BY <3>3, FeedAssumption DEF PeriodEnds, LiveType, LivePeriod
        <4>. QED
          BY <1>0, <3>3, <4>1 DEF FinalInv, IsEnd
      <3>. QED
        BY <1>1, <3>1, <3>2, <3>3, Sent
    <2>. QED
      BY <1>0, <2>1, <2>2 DEF FinalInv, Told
  <1>2. CASE Break
    <2>1. Range(wire)' = {} /\ UNCHANGED <<preload, sending, heard>>
      BY <1>2, RangeSmall DEF Break
    <2>. QED
      BY <1>0, <2>1 DEF FinalInv, Told
  <1>3. CASE KlinesByLimit
    <2>1. UNCHANGED <<wire, sending, heard>>
      BY <1>3 DEF KlinesByLimit, market
    <2>2. \A candle \in Range(preload)' :
            candle.complete => IsEnd(candle.time, candle.changes)'
      <3>1. CASE preload' = preload
        BY <1>0, <3>1 DEF FinalInv
      <3>2. CASE now > 0 /\ preload' = Discarded(Answered)
        BY <1>0, <3>2, PreloadedAreEnds
      <3>. QED
        BY <1>3, <3>1, <3>2 DEF KlinesByLimit
    <2>. QED
      BY <1>0, <2>1, <2>2 DEF FinalInv, Told
  <1>4. CASE Preload
    <2>1. /\ Head(preload) \in LiveCandle /\ Head(preload) \in Range(preload)
          /\ Range(preload)' \subseteq Range(preload)
          /\ UNCHANGED <<wire, sending>>
      BY <1>4, RangeTail DEF Preload, LiveType, market
    <2>2. \A c \in Consumer : \A candle \in Told(c)' :
            candle \in Told(c) \/ (candle = Head(preload) /\ candle.complete)
      BY <1>4, <2>1, Called DEF Preload
    <2>. QED
      BY <1>0, <2>1, <2>2 DEF FinalInv
  <1>5. CASE Handle
    <2> DEFINE candle == CandleFromWsKline(Head(wire))
    <2>1. /\ Head(wire) \in Kline /\ Head(wire) \in Range(wire)
          /\ Range(Tail(wire)) \subseteq Range(wire)
          /\ UNCHANGED <<preload, heard>>
      BY <1>5, RangeTail DEF Handle, LiveType
    <2>2. \/ wire' = wire /\ sending' = sending
          \/ wire' = Tail(wire) /\ sending' = <<candle>>
      BY <1>5 DEF Handle
    <2>3. candle.complete => IsEnd(candle.time, candle.changes)
      BY <2>1 DEF FinalInv, CandleFromWsKline
    <2> HIDE DEF candle
    <2>4. /\ Range(wire)' \subseteq Range(wire)
          /\ Range(sending)' \subseteq Range(sending) \cup {candle}
      BY <2>1, <2>2, RangeSmall
    <2>. QED
      BY <1>0, <2>1, <2>3, <2>4 DEF FinalInv, Told
  <1>6. CASE ReceiveCandle
    <2>1. PICK candle \in LiveCandle : sending = <<candle>>
      BY <1>6 DEF ReceiveCandle, LiveType
    <2>2. candle \in Range(sending) /\ Range(sending)' = {} /\ UNCHANGED <<wire, preload>>
      BY <1>6, <2>1, RangeSmall DEF ReceiveCandle, market
    <2>3. \A c \in Consumer : \A x \in Told(c)' :
            x \in Told(c) \/ (x = candle /\ x.complete)
      BY <1>6, <2>1, Called DEF ReceiveCandle
    <2>. QED
      BY <1>0, <2>2, <2>3 DEF FinalInv
  <1>7. CASE UNCHANGED <<wire, preload, sending, heard>>
    BY <1>0, <1>7 DEF FinalInv, Told
  <1>8. Start \/ Dial \/ DialFails \/ Reconnect \/ ReceiveError \/ FeedReturns \/ UNCHANGED live
          => UNCHANGED <<wire, preload, sending, heard>>
    BY DEF Start, Dial, DialFails, Reconnect, ReceiveError, FeedReturns, live, market
  <1>. QED
    BY <1>1, <1>2, <1>3, <1>4, <1>5, <1>6, <1>7, <1>8 DEF LiveNext, Bot, Subscription, FeedTurn
LEMMA TellNext == ASSUME LiveType, TellInv, [LiveNext]_live PROVE TellInv'
  <1>0. now \in Nat /\ loaded \in Nat /\ changes \in [LivePeriod -> Nat] /\ now <= LastPeriod
        /\ LastPeriod \in Nat
    BY FeedAssumption DEF LiveType
  <1>1. CASE Trade
    <2>1. /\ UNCHANGED <<now, loaded, feed, missed, sending, heard>>
      BY <1>1 DEF Trade
    <2>2. Range(wire) \subseteq Range(wire)'
      BY <1>1, Sent
    <2>. QED
      BY <2>1, <2>2 DEF TellInv, OnWire, InHand, Heard, Told
  <1>2. CASE PeriodEnds
    <2>1. UNCHANGED <<loaded, feed, sending, heard>> /\ now' = now + 1 /\ missed \subseteq missed'
      BY <1>2 DEF PeriodEnds
    <2>2. PICK ended : ended = now
      OBVIOUS
    <2>3. Range(wire) \subseteq Range(wire)' /\ (now # 0 => ended \in missed' \/ OnWire(ended)')
      <3>1. CASE wire' = wire /\ (now # 0 => now \in missed')
        BY <2>2, <3>1
      <3>2. ASSUME NEW kline \in Kline, Range(wire)' = Range(wire) \cup {kline},
                   kline.final = TRUE, kline.time = now
            PROVE  Range(wire) \subseteq Range(wire)' /\ OnWire(ended)'
        BY <2>2, <3>2 DEF OnWire
      <3>3. now' # now
        BY <1>0, <2>1
      <3>4. ~Trade
        BY <3>3 DEF Trade
      <3>. QED
        BY <1>2, <3>1, <3>2, <3>4, Sent
    <2>. QED
      <3>1. \A p : OnWire(p) => OnWire(p)'
        BY <2>3 DEF OnWire
      <3>2. \A p : InHand(p)' = InHand(p) /\ \A c \in Consumer : Heard(c, p)' = Heard(c, p)
        BY <2>1 DEF InHand, Heard, Told
      <3>3. \A p \in loaded..(now' - 1) : p \in loaded..(now - 1) \/ p = ended
        BY <1>0, <2>1, <2>2
      <3>4. loaded > 0 /\ loaded <= now => now # 0
        BY <1>0
      <3>. QED
        BY <1>0, <2>1, <2>2, <2>3, <3>1, <3>2, <3>3, <3>4 DEF TellInv, LiveType
  <1>3. CASE Break
    <2>1. /\ UNCHANGED <<now, loaded, feed, sending, heard>>
          /\ missed' = missed \cup {wire[i].time : i \in {j \in DOMAIN wire : wire[j].final}}
      BY <1>3 DEF Break
    <2>2. \A p : OnWire(p) => p \in missed'
      BY <2>1 DEF OnWire, Range
    <2>. QED
      BY <2>1, <2>2 DEF TellInv, InHand, Heard, Told
  <1>4. CASE KlinesByLimit
    <2>1. feed' = "preload" => loaded' = now' /\ now' = now /\ now > 0
      BY <1>4 DEF KlinesByLimit, market
    <2>2. feed' \in {"failed", "panicked", "preload"}
      BY <1>4 DEF KlinesByLimit
    <2>3. now..(now - 1) = {}
      BY <1>0
    <2>. QED
      BY <2>1, <2>2, <2>3 DEF TellInv
  <1>5. CASE Preload
    <2>1. UNCHANGED <<now, wire, loaded, feed, missed, sending>> /\ Head(preload) \in LiveCandle
      BY <1>5, RangeTail DEF Preload, market, LiveType
    <2>2. \A c \in Consumer : Told(c) \subseteq Told(c)'
      BY <1>5, <2>1, Called DEF Preload
    <2>. QED
      BY <2>1, <2>2 DEF TellInv, OnWire, InHand, Heard
  <1>6. CASE Handle
    <2> DEFINE candle == CandleFromWsKline(Head(wire))
    <2>1. UNCHANGED <<now, loaded, missed, heard>>
      BY <1>6 DEF Handle
    <2>2. CASE feed' = "panicked"
      BY <2>2 DEF TellInv
    <2>3. CASE feed' = feed /\ sending = <<>> /\ sending' = <<candle>> /\ wire' = Tail(wire)
      <3>1. Range(wire) = {Head(wire)} \cup Range(wire)'
        BY <1>6, <2>3, RangeTail DEF Handle, LiveType
      <3>2. /\ candle.complete = Head(wire).final /\ candle.time = Head(wire).time
            /\ candle \in Range(sending)'
        BY <2>3, RangeSmall DEF CandleFromWsKline
      <3> HIDE DEF candle
      <3>3. \A p : OnWire(p) => OnWire(p)' \/ InHand(p)'
        BY <3>1, <3>2 DEF OnWire, InHand
      <3>4. \A p : ~InHand(p)
        BY <2>3, RangeSmall DEF InHand
      <3>. QED
        BY <2>1, <2>3, <3>3, <3>4 DEF TellInv, Heard, Told
    <2>. QED
      BY <1>6, <2>2, <2>3 DEF Handle
  <1>7. CASE ReceiveCandle
    <2>1. PICK candle \in LiveCandle : sending = <<candle>>
      BY <1>7 DEF ReceiveCandle, LiveType
    <2>2. UNCHANGED <<now, wire, loaded, missed, feed>>
      BY <1>7 DEF ReceiveCandle, market
    <2>3. \A c \in Consumer :
            Told(c)' = IF candle.complete THEN Told(c) \cup {candle} ELSE Told(c)
      <3> DEFINE some == {c \in Consumer : Interested(c, candle)}
      <3>1. Call(some, candle)
        BY <1>7, <2>1 DEF ReceiveCandle
      <3>2. \A c \in Consumer : candle.complete => c \in some
        BY DEF Interested
      <3> HIDE DEF some
      <3>3. \A c \in Consumer : Told(c)' = IF c \in some /\ candle.complete
                                           THEN Told(c) \cup {candle} ELSE Told(c)
        BY <3>1, Called
      <3>. QED
        BY <3>2, <3>3
    <2>4. \A p : InHand(p) => \A c \in Consumer : Heard(c, p)'
      BY <2>1, <2>3, RangeSmall DEF InHand, Heard
    <2>5. \A c \in Consumer : \A p : Heard(c, p) => Heard(c, p)'
      BY <2>3 DEF Heard
    <2>. QED
      BY <2>2, <2>4, <2>5 DEF TellInv, OnWire
  <1>8. CASE UNCHANGED <<now, wire, loaded, missed, sending, heard>>
             /\ (feed' \in {"preload", "select"} => feed \in {"preload", "select"})
    BY <1>8 DEF TellInv, OnWire, InHand, Heard, Told
  <1>9. Start \/ Dial \/ DialFails \/ Reconnect \/ ReceiveError \/ FeedReturns \/ UNCHANGED live
          => /\ UNCHANGED <<now, wire, loaded, missed, sending, heard>>
             /\ feed' \in {"preload", "select"} => feed \in {"preload", "select"}
    BY DEF Start, Dial, DialFails, Reconnect, ReceiveError, FeedReturns, live, market
  <1>. QED
    BY <1>1, <1>2, <1>3, <1>4, <1>5, <1>6, <1>7, <1>8, <1>9
       DEF LiveNext, Bot, Subscription, FeedTurn

(* EndsAreTold: whatever breaks and however often, each subscriber gets as *)
(* complete only candles of periods that are over, with all their changes, *)
(* and once it heard all there is it misses only periods that ended while  *)
(* the bot was not connected (binance.go:465-545 and 590-601,              *)
(* exchange.go:79-137).                                                    *)
THEOREM EveryEndIsTold == LiveSpec => []EndsAreTold
  <1>1. LiveType /\ FinalInv => CompleteIsFinal
    BY DEF LiveType, FinalInv, CompleteIsFinal, IsEnd
  <1>2. TellInv => MissedOnlyWhileDown
    <2> SUFFICES ASSUME TellInv, Quiet, NEW c \in Consumer,
                        NEW p \in loaded..(now - 1), p \notin missed
                 PROVE  Heard(c, p)
      BY DEF MissedOnlyWhileDown, Heard
    <2>1. ~OnWire(p) /\ ~InHand(p) /\ feed = "select"
      BY RangeSmall DEF Quiet, OnWire, InHand
    <2>. QED
      BY <2>1 DEF TellInv
  <1>. QED
    BY <1>1, <1>2, Initially, TypeNext, FinalNext, TellNext, PTL DEF LiveSpec, EndsAreTold
=============================================================================
