------------------------------ MODULE History ------------------------------
(***************************************************************************)
(* Candles of the past, from an exchange to a backtest.  The downloader    *)
(* (azbot/download/download.go) asks for them in batches and writes a CSV  *)
(* file; the CSV feed (azbot/exchange/csvfeed.go) reads the file, turns    *)
(* candles into Heikin-Ashi candles if asked to (azbot/model/model.go),    *)
(* resamples them to a longer timeframe and hands them out: a prefix for   *)
(* the warmup of the strategy, the rest through a channel.                 *)
(*                                                                         *)
(* Time counts seconds, of which a period of the file has Interval and a   *)
(* period of the feed Target.  In the code's switch every timeframe it     *)
(* knows is the test that the next candle begins at a multiple of Target,  *)
(* provided that candles are not shorter than a minute.                    *)
(***************************************************************************)
EXTENDS Integers, SequencesExt, FiniteSetsExt

CONSTANTS
  Interval,    \* the timeframe of the download and the file
  Targets,     \* the timeframes a feed may be asked for
  Known,       \* the timeframes of the switch in isLastCandlePeriod
  Day,
  BatchSize,   \* the candles of a batch, and the most an exchange answers
  Now,
  Requests,    \* intervals to download: records of start and end
  Market(_),   \* the prices and the volume of the period that begins then
  Precision,   \* the unit to which numbers are rounded in the file
  Limits,      \* durations to which a feed may be limited, and
  Warmups      \* the candles a strategy may ask for before it starts

Prices == [open : Int, close : Int, low : Int, high : Int, volume : Int]

ASSUME TimeAssumption ==
  /\ Interval \in Nat /\ Interval > 1
  /\ Day \in Nat \ {0} /\ Day % Interval = 0
  /\ BatchSize \in Nat \ {0} /\ Now \in Nat
  /\ Requests \subseteq [start : Nat, end : Nat]
  /\ \A t \in Targets : t \in Nat \ {0} /\ t % Interval = 0

ASSUME CandleAssumption ==
  /\ \A t \in 0..Now : Market(t) \in Prices
  /\ Precision \in Nat \ {0}
  /\ Limits \subseteq Nat \ {0} /\ Warmups \subseteq Nat

VARIABLES
  stage,     \* how far the candles are
  traded,    \* the beginnings of the periods in which there were trades
  request,   \* Parameters of the download
  begin,     \* the batch it is at
  buffer,    \* the candles in the CSV writer
  lost,      \* lostData
  file,      \* the candles in the file
  target,    \* targetTimeframe of the feed
  heikin,    \* PairFeed.HeikinAshi
  series,    \* CandlePairTimeFrame, by timeframe
  warm,      \* what CandlesByLimit handed out
  rest,      \* what the subscription's goroutine has yet to send
  sent       \* what it sent

download == <<request, begin, buffer, lost>>
csvFeed == <<target, heikin, series, warm, rest, sent>>
vars == <<stage, traded, download, file, csvFeed>>

Periods == {t \in 0..Now : t % Interval = 0}

-----------------------------------------------------------------------------
(* The exchange answers candles in the order of time, and only so many.    *)

InMarket(t) ==
  [time |-> t, open |-> Market(t).open, close |-> Market(t).close, low |-> Market(t).low,
   high |-> Market(t).high, volume |-> Market(t).volume]

Before(times, t) == {s \in times : s < t}

ByTime(times) ==
  [i \in 1..Cardinality(times) |-> CHOOSE t \in times : Cardinality(Before(times, t)) = i - 1]

FirstOf(s, n) == SubSeq(s, 1, Min({n, Len(s)}))

CandlesByPeriod(from, to) ==
  LET times == ByTime({t \in traded : from <= t /\ t <= to})
  IN  [i \in DOMAIN FirstOf(times, BatchSize) |-> InMarket(times[i])]

-----------------------------------------------------------------------------
(* The downloader.                                                         *)

Midnight(t) == t - (t % Day)

(* The beginning is truncated to its day; the end, too, unless it is in    *)
(* the future.                                                             *)
Truncated(r) ==
  [start |-> Midnight(r.start), end |-> IF Now > r.end THEN Midnight(r.end) ELSE Now]

Init ==
  /\ stage = "download"
  /\ traded \in SUBSET Periods
  /\ request \in {Truncated(r) : r \in Requests}
  /\ begin = request.start /\ buffer = <<>> /\ lost = 0
  /\ file = <<>>
  /\ target \in Targets /\ heikin \in BOOLEAN
  /\ series = [t \in {} |-> <<>>] /\ warm = <<>> /\ rest = <<>> /\ sent = <<>>

BatchEnd == begin + Interval * BatchSize

IsLastLoop == BatchEnd >= request.end

(* Mutant: the second is not taken off.                                    *)
UptoMutant == IF IsLastLoop THEN request.end ELSE BatchEnd

(* The batches end a second before the next begins.                        *)
Upto == IF IsLastLoop THEN request.end ELSE BatchEnd - 1

Rounded(v) == ((v + Precision \div 2) \div Precision) * Precision

(* ToSlice                                                                 *)
Written(c) ==
  [c EXCEPT !.open = Rounded(@), !.close = Rounded(@), !.low = Rounded(@),
            !.high = Rounded(@), !.volume = Rounded(@)]

Lost(count) == IF IsLastLoop THEN 0 ELSE BatchSize - count

DownloadBatch ==
  /\ stage = "download" /\ begin < request.end
  /\ LET candles == CandlesByPeriod(begin, Upto)
     IN  /\ buffer' = buffer \o [i \in DOMAIN candles |-> Written(candles[i])]
         /\ lost' = lost + Lost(Len(candles))
  /\ begin' = BatchEnd
  /\ UNCHANGED <<stage, traded, request, file, csvFeed>>

(* An error returns without a flush: of what was buffered the file has as  *)
(* much as the writer found too much to keep.                              *)
DownloadFails ==
  /\ stage = "download" /\ begin < request.end
  /\ stage' = "failed"
  /\ \E n \in 0..Len(buffer) : file' = FirstOf(buffer, n)
  /\ UNCHANGED <<traded, download, csvFeed>>

DownloadEnds ==
  /\ stage = "download" /\ begin >= request.end
  /\ stage' = "file" /\ file' = buffer
  /\ UNCHANGED <<traded, download, csvFeed>>

-----------------------------------------------------------------------------
(* The CSV feed.                                                           *)

Highest(a, b) == IF a > b THEN a ELSE b
Lowest(a, b) == IF a < b THEN a ELSE b

(* CalculateHeikinAshi, with the candle before it, if there was one.       *)
HeikinAshi(previous, c) ==
  LET open == IF previous = <<>> THEN (c.open + c.close) \div 2
              ELSE (previous[1].open + previous[1].close) \div 2
      close == (c.open + c.high + c.low + c.close) \div 4
  IN  [c EXCEPT !.open = open, !.close = close,
                !.high = Highest(@, Highest(open, close)),
                !.low = Lowest(@, Lowest(open, close))]

ToHeikinAshi(candles) ==
  LET done[i \in DOMAIN candles] ==
        HeikinAshi(IF i = 1 THEN <<>> ELSE <<done[i - 1]>>, candles[i])
  IN  done

(* A line of the file becomes a candle that counts as complete.            *)
Read(c) == [time |-> c.time, updated |-> c.time, open |-> c.open, close |-> c.close,
            low |-> c.low, high |-> c.high, volume |-> c.volume, complete |-> TRUE]

Lines ==
  LET candles == [i \in DOMAIN file |-> Read(file[i])]
  IN  IF heikin THEN ToHeikinAshi(candles) ELSE candles

IsLastCandlePeriod(t) == Interval = target \/ (t + Interval) % target = 0

IsFirstCandlePeriod(t) == IsLastCandlePeriod(t - Interval)

(* Mutant: the volume is that of the last candle.                          *)
MergedMutant(previous, c) ==
  [c EXCEPT !.time = previous.time, !.open = previous.open,
            !.high = Highest(previous.high, @), !.low = Lowest(previous.low, @)]

Merged(previous, c) ==
  [c EXCEPT !.time = previous.time, !.open = previous.open,
            !.high = Highest(previous.high, @), !.low = Lowest(previous.low, @),
            !.volume = @ + previous.volume]

(* The candles from the first that begins a period on.                     *)
FromFirst(candles) ==
  LET begins == {i \in DOMAIN candles : IsFirstCandlePeriod(candles[i].time)}
  IN  IF begins = {} THEN <<>> ELSE SubSeq(candles, Min(begins), Len(candles))

(* Each candle of the file becomes one of the feed: an update of the       *)
(* period that the one before it left incomplete.                          *)
Updates(candles) ==
  LET new(i) == [candles[i] EXCEPT !.complete = IsLastCandlePeriod(candles[i].time)]
      done[i \in DOMAIN candles] ==
        IF i > 1 /\ ~done[i - 1].complete THEN Merged(done[i - 1], new(i)) ELSE new(i)
  IN  done

Resampled(candles) ==
  LET all == Updates(FromFirst(candles))
  IN  IF Last(all).complete THEN all ELSE Front(all)

(* NewCSVFeed, on a file that has a header at least.  Without a candle     *)
(* that begins a period, resample reads the last of none.                  *)
NewCSVFeed ==
  /\ stage = "file"
  /\ \/ /\ Interval # target /\ target \notin Known /\ Lines # <<>>
        /\ stage' = "failed" /\ UNCHANGED series
     \/ /\ FromFirst(Lines) = <<>>
        /\ Lines = <<>> \/ target \in Known
        /\ stage' = "panicked" /\ UNCHANGED series
     \/ /\ FromFirst(Lines) # <<>> /\ (Interval = target \/ target \in Known)
        /\ stage' = "feed"
        /\ series' = [t \in {Interval, target} |->
                        IF t = target THEN Resampled(Lines) ELSE Lines]
  /\ UNCHANGED <<traded, download, file, target, heikin, warm, rest, sent>>

After(candles, start) ==
  LET kept[i \in 0..Len(candles)] ==
        IF i = 0 THEN <<>>
        ELSE IF candles[i].time > start THEN Append(kept[i - 1], candles[i]) ELSE kept[i - 1]
  IN  kept[Len(candles)]

(* Limit reads the last candle of each series.                             *)
Limit(duration) ==
  /\ stage = "feed" /\ warm = <<>>
  /\ IF \E t \in DOMAIN series : series[t] = <<>>
       THEN stage' = "panicked" /\ UNCHANGED series
       ELSE /\ series' = [t \in DOMAIN series |->
                            After(series[t], Last(series[t]).time - duration)]
            /\ UNCHANGED stage
  /\ UNCHANGED <<traded, download, file, target, heikin, warm, rest, sent>>

Left(candles, limit) == SubSeq(candles, limit + 1, Len(candles))

(* The prefix is handed out and taken off, or there is not enough of it.   *)
CandlesByLimit(limit) ==
  /\ stage = "feed" /\ warm = <<>>
  /\ IF Len(series[target]) < limit
       THEN stage' = "failed" /\ UNCHANGED <<series, warm>>
       ELSE /\ warm' = FirstOf(series[target], limit)
            /\ series' = [series EXCEPT ![target] = Left(@, limit)]
            /\ UNCHANGED stage
  /\ UNCHANGED <<traded, download, file, target, heikin, rest, sent>>

CandlesSubscription ==
  /\ stage = "feed"
  /\ stage' = "sending" /\ rest' = series[target]
  /\ UNCHANGED <<traded, download, file, target, heikin, series, warm, sent>>

SendCandle ==
  /\ stage = "sending"
  /\ IF rest = <<>> THEN stage' = "closed" /\ UNCHANGED <<rest, sent>>
     ELSE sent' = Append(sent, Head(rest)) /\ rest' = Tail(rest) /\ UNCHANGED stage
  /\ UNCHANGED <<traded, download, file, target, heikin, series, warm>>

Next ==
  \/ DownloadBatch \/ DownloadFails \/ DownloadEnds
  \/ NewCSVFeed
  \/ (\E duration \in Limits : Limit(duration))
  \/ (\E limit \in Warmups : CandlesByLimit(limit))
  \/ CandlesSubscription \/ SendCandle

Spec == Init /\ [][Next]_vars

-----------------------------------------------------------------------------
(* Properties.                                                             *)

Downloaded == stage \notin {"download", "failed"}

(* The batches cover the interval: each candle from its beginning until    *)
(* its end is in the file once, in the order of time, with nothing else    *)
(* but perhaps the candle that begins at its end.                          *)
DownloadedOnce ==
  Downloaded =>
    /\ \A i \in 2..Len(file) : file[i - 1].time < file[i].time
    /\ \A t \in traded : request.start <= t /\ t < request.end
                          => \E i \in DOMAIN file : file[i] = Written(InMarket(t))
    /\ \A i \in DOMAIN file : file[i].time \in traded \cap (request.start..request.end)

(* The missing candles that are reported are the periods without a trade,  *)
(* up to the beginning of the last batch.                                  *)
LostIsCounted ==
  Downloaded =>
    LET batches == (request.end - request.start - 1) \div (Interval * BatchSize)
        covered == request.start..(request.start + batches * Interval * BatchSize - 1)
    IN  lost = Cardinality((Periods \ traded) \cap covered)

(* What is downloaded is all there is, and what is missing is reported.    *)
DownloadIsExact == DownloadedOnce /\ LostIsCounted

Given == warm \o sent

Times == {file[i].time : i \in DOMAIN file}

NoEndIsMissing ==
  \A s, t \in Times : \A e \in Periods : s < e /\ e < t /\ IsLastCandlePeriod(e) => e \in Times

(* A candle of a period is made of those of the file that are in it.       *)
MadeOf(c, lines) ==
  LET from == c.time - (c.time % target)
      parts == {k \in DOMAIN lines : from <= lines[k].time /\ lines[k].time < from + target}
      first == lines[Min(parts)]
      last == lines[Max(parts)]
  IN  /\ c.time = first.time /\ c.updated = last.time
      /\ c.open = first.open /\ c.close = last.close
      /\ c.high = Max({lines[k].high : k \in parts})
      /\ c.low = Min({lines[k].low : k \in parts})
      /\ c.volume = SumFunctionOnSet([k \in DOMAIN lines |-> lines[k].volume], parts)

(* A complete candle of the feed is made of all candles of the file in one *)
(* period, and of no other: whatever candles are missing, as long as those *)
(* that end a period are there.                                            *)
PeriodsAreWhole ==
  NoEndIsMissing =>
    \A i \in DOMAIN Given : Given[i].complete => MadeOf(Given[i], Lines)

(* Candles are handed out in the order of the bot's queue, each after the  *)
(* one before it (Candle.Less), whatever candles the file misses.          *)
UpdatesAscend ==
  \A i \in 2..Len(Given) :
    \/ Given[i - 1].time < Given[i].time
    \/ Given[i - 1].time = Given[i].time /\ Given[i - 1].updated < Given[i].updated

(* What the warmup takes and what the subscription sends is together the   *)
(* feed, or its end if it was limited: no candle twice, none left out.     *)
HandedOutOnce ==
  stage = "closed" =>
    /\ IsSuffix(Given, Resampled(Lines))
    /\ Resampled(Lines) # <<>> => Given # <<>>

(* The feed hands out the candles of whole periods, in order, once.        *)
FeedIsWhole == PeriodsAreWhole /\ UpdatesAscend /\ HandedOutOnce

=============================================================================
