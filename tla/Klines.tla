------------------------------- MODULE Klines -------------------------------
(***************************************************************************)
(* The candles of one pair from Binance to the subscribers of the data     *)
(* feed: CandlesByLimit and CandlesSubscription of                         *)
(* azbot/exchange/binance.go and binance_future.go, which differ only in   *)
(* the client they call, and the goroutine of the feed in                  *)
(* azbot/exchange/exchange.go.                                             *)
(*                                                                         *)
(* The exchange keeps a kline for each period, which changes until the     *)
(* period is over, and sends every change over a websocket, in order,      *)
(* until the connection breaks.  Of a candle the period, the number of     *)
(* changes it has seen and its completeness are kept.                      *)
(*                                                                         *)
(* Connect subscribes with a context that is never cancelled, so that the  *)
(* branch for ctx.Done is left out.                                        *)
(***************************************************************************)
EXTENDS Naturals, SequencesExt, FiniteSetsExt

CONSTANTS
  Consumer,     \* the subscribers, in the order in which they are called
  CloseOnly,    \* those that subscribed with onCandleClose
  Warmup,       \* the limit of the request for candles
  FirstPeriod,  \* the periods there are at the start, the last one current
  LastPeriod,   \* bound: the last period
  MaxChanges,   \* bound: the changes of a kline
  MaxBreaks     \* bound: how often the connection breaks

ASSUME FeedAssumption ==
  /\ CloseOnly \subseteq Consumer /\ Warmup \in Nat \ {0}
  /\ LastPeriod \in Nat /\ FirstPeriod \subseteq 0..LastPeriod
  /\ MaxChanges \in Nat \ {0} /\ MaxBreaks \in Nat

VARIABLES
  now,        \* the current period; 0 if nothing was traded yet
  changes,    \* the number of changes of each period's kline
  breaks,
  wire,       \* the events on the connection
  heikinAshi, \* Binance.HeikinAshi
  fetchers,   \* whether there are MetadataFetchers
  preload,    \* the candles of CandlesByLimit that are yet to be passed on
  loaded,     \* the last period that CandlesByLimit saw
  stream,     \* where the subscription's goroutine is
  sending,    \* the candle its handler waits to send, if any
  reporting,  \* whether it waits to send an error
  feed,       \* the feed's goroutine
  heard,      \* history: the candles each consumer was called with
  missed      \* history: the periods whose end was not sent, or not received

market == <<now, changes, breaks, wire>>
options == <<heikinAshi, fetchers>>
live == <<market, options, preload, loaded, stream, sending, reporting, feed, heard, missed>>

LiveInit ==
  /\ now \in FirstPeriod /\ changes = [p \in 1..LastPeriod |-> IF p <= now THEN 1 ELSE 0]
  /\ breaks = 0 /\ wire = <<>>
  /\ heikinAshi \in BOOLEAN /\ fetchers \in BOOLEAN
  /\ preload = <<>> /\ loaded = 0
  /\ stream = "none" /\ sending = <<>> /\ reporting = FALSE
  /\ feed = "load"
  /\ heard = [c \in Consumer |-> <<>>] /\ missed = {}

-----------------------------------------------------------------------------
(* The exchange.                                                           *)

Event(n, final) == [time |-> now, changes |-> n, final |-> final]

Send(event) == wire' = IF stream = "serve" THEN Append(wire, event) ELSE wire

Trade ==
  /\ now > 0 /\ changes[now] < MaxChanges
  /\ changes' = [changes EXCEPT ![now] = @ + 1]
  /\ Send(Event(changes[now] + 1, FALSE))
  /\ UNCHANGED <<now, breaks, options, preload, loaded, stream, sending, reporting, feed, heard,
                 missed>>

PeriodEnds ==
  /\ now < LastPeriod
  /\ now' = now + 1 /\ changes' = [changes EXCEPT ![now + 1] = 1]
  /\ IF now = 0 THEN UNCHANGED <<wire, missed>>
     ELSE /\ Send(Event(changes[now], TRUE))
          /\ missed' = IF stream = "serve" THEN missed ELSE missed \cup {now}
  /\ UNCHANGED <<breaks, options, preload, loaded, stream, sending, reporting, feed, heard>>

(* The connection breaks, with what is on it.  The client may have had an  *)
(* error to report to the handler before its goroutine ends.               *)
Break ==
  /\ stream = "serve" /\ breaks < MaxBreaks /\ sending = <<>> /\ ~reporting
  /\ feed = "select"
  /\ breaks' = breaks + 1
  /\ reporting' \in BOOLEAN
  /\ stream' = "backoff"
  /\ missed' = missed \cup {wire[i].time : i \in {j \in DOMAIN wire : wire[j].final}}
  /\ wire' = <<>>
  /\ UNCHANGED <<now, changes, options, preload, loaded, sending, feed, heard>>

-----------------------------------------------------------------------------
(* Before the start.                                                       *)

(* CandleFromKline: every kline becomes a complete candle, although the    *)
(* last one is that of the current period.                                 *)
CandleFromKline(p) == [time |-> p, changes |-> changes[p], complete |-> TRUE]

(* Mutant: the last candle stays.                                          *)
DiscardedMutant(candles) == candles

(* "discard last candle, because it is incomplete"                         *)
Discarded(candles) == Front(candles)

Answered ==
  LET first == IF now > Warmup THEN now - Warmup ELSE 1
  IN  [i \in 1..(now + 1 - first) |-> CandleFromKline(first + i - 1)]

(* Without any kline the slice has a negative bound.                       *)
KlinesByLimit ==
  /\ feed = "load"
  /\ \/ feed' = "failed" /\ UNCHANGED <<preload, loaded>>
     \/ now = 0 /\ feed' = "panicked" /\ UNCHANGED <<preload, loaded>>
     \/ /\ now > 0 /\ feed' = "preload"
        /\ preload' = Discarded(Answered) /\ loaded' = now
  /\ UNCHANGED <<market, options, stream, sending, reporting, heard, missed>>

Call(consumers, candle) ==
  heard' = [c \in Consumer |-> IF c \in consumers THEN Append(heard[c], candle) ELSE heard[c]]

(* Preload calls all subscribers, with the complete candles.               *)
Preload ==
  /\ feed = "preload" /\ preload # <<>>
  /\ Call(IF Head(preload).complete THEN Consumer ELSE {}, Head(preload))
  /\ preload' = Tail(preload)
  /\ UNCHANGED <<market, options, loaded, stream, sending, reporting, feed, missed>>

(* Connect and Start                                                       *)
Start ==
  /\ feed = "preload" /\ preload = <<>>
  /\ feed' = "select" /\ stream' = "dial"
  /\ UNCHANGED <<market, options, preload, loaded, sending, reporting, heard, missed>>

-----------------------------------------------------------------------------
(* The goroutine of CandlesSubscription, and that of its websocket.        *)

Dial ==
  /\ stream = "dial" /\ ~reporting /\ feed = "select"
  /\ stream' = "serve"
  /\ UNCHANGED <<market, options, preload, loaded, sending, reporting, feed, heard, missed>>

(* WsKlineServe fails: the error is sent, both channels are closed, and    *)
(* nobody tries again.                                                     *)
DialFails ==
  /\ stream = "dial" /\ ~reporting /\ feed = "select" /\ breaks < MaxBreaks
  /\ breaks' = breaks + 1
  /\ reporting' = TRUE /\ stream' = "ended"
  /\ UNCHANGED <<now, changes, wire, options, preload, loaded, sending, feed, heard, missed>>

(* Mutant: a lost connection is not dialled again.                         *)
AfterDoneMutant == "backoff"

AfterDone == "dial"

(* done is closed; the goroutine sleeps and begins again.                  *)
Reconnect ==
  /\ stream = "backoff" /\ ~reporting
  /\ stream' = AfterDone
  /\ UNCHANGED <<market, options, preload, loaded, sending, reporting, feed, heard, missed>>

(* CandleFromWsKline: a candle is complete when its kline is final.        *)
CandleFromWsKline(kline) ==
  [time |-> kline.time, changes |-> kline.changes, complete |-> kline.final]

(* ToHeikinAshi makes a candle without a map for its metadata.             *)
WritesToNil(candle) == candle.complete /\ heikinAshi /\ fetchers

Handle ==
  /\ stream = "serve" /\ sending = <<>> /\ wire # <<>> /\ feed = "select"
  /\ LET candle == CandleFromWsKline(Head(wire))
     IN  IF WritesToNil(candle) THEN feed' = "panicked" /\ UNCHANGED <<sending, wire>>
         ELSE sending' = <<candle>> /\ wire' = Tail(wire) /\ UNCHANGED feed
  /\ UNCHANGED <<now, changes, breaks, options, preload, loaded, stream, reporting, heard, missed>>

-----------------------------------------------------------------------------
(* The goroutine of the feed.                                              *)

Interested(c, candle) == c \notin CloseOnly \/ candle.complete

ReceiveCandle ==
  /\ feed = "select" /\ sending # <<>>
  /\ Call({c \in Consumer : Interested(c, sending[1])}, sending[1])
  /\ sending' = <<>>
  /\ UNCHANGED <<market, options, preload, loaded, stream, reporting, feed, missed>>

ReceiveError ==
  /\ feed = "select" /\ reporting
  /\ reporting' = FALSE
  /\ UNCHANGED <<market, options, preload, loaded, stream, sending, feed, heard, missed>>

(* The channel of candles is closed.                                       *)
Ends == stream = "ended" /\ ~reporting

FeedReturns ==
  /\ feed = "select" /\ Ends
  /\ feed' = "returned"
  /\ UNCHANGED <<market, options, preload, loaded, stream, sending, reporting, heard, missed>>

Bot == KlinesByLimit \/ Preload \/ Start
Subscription == Dial \/ DialFails \/ Reconnect \/ Handle
FeedTurn == ReceiveCandle \/ ReceiveError \/ FeedReturns

LiveNext == Trade \/ PeriodEnds \/ Break \/ Bot \/ Subscription \/ FeedTurn

LiveSpec == LiveInit /\ [][LiveNext]_live

(* The goroutines run; the exchange and the network need not do anything.  *)
FairSpec == LiveSpec /\ WF_live(Bot) /\ WF_live(Subscription) /\ WF_live(FeedTurn)

-----------------------------------------------------------------------------
(* Properties.                                                             *)

Told(c) == {candle \in Range(heard[c]) : candle.complete}

(* A candle that a consumer is given as complete is of a period that is    *)
(* over, and has seen all its changes.                                     *)
CompleteIsFinal ==
  \A c \in Consumer : \A candle \in Told(c) :
    candle.time < now /\ candle.changes = changes[candle.time]

Quiet == stream = "serve" /\ sending = <<>> /\ wire = <<>> /\ feed = "select"

(* A consumer that has heard all there is misses only the periods that     *)
(* ended before the subscription, or while its connection was broken; who  *)
(* hears of a period's end was preloaded or connected.                     *)
MissedOnlyWhileDown ==
  Quiet => \A c \in Consumer : \A p \in loaded..(now - 1) :
             p \in missed \/ \E candle \in Told(c) : candle.time = p

(* A consumer is told of each period's end once it is over, and of every   *)
(* one for which it was connected.                                         *)
EndsAreTold == CompleteIsFinal /\ MissedOnlyWhileDown

(* A connection that breaks is replaced, or the feed's goroutine ends: it  *)
(* never waits for good on a subscription that gave up.                    *)
BrokenIsNoticed ==
  stream \in {"backoff", "dial", "ended"} ~> stream = "serve" \/ feed = "returned"

=============================================================================
