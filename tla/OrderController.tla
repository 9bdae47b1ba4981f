-------------------------- MODULE OrderController --------------------------
(***************************************************************************)
(* The order controller and the order feed: azbot/order/controller.go and  *)
(* azbot/order/feed.go.                                                    *)
(*                                                                         *)
(* Clients (strategies, commands) create and cancel orders at an exchange  *)
(* and record them in the storage; a poller, a goroutine Start launches,   *)
(* compares the recorded orders with the exchange's on each tick, books    *)
(* the trades and publishes the changes; Stop does a last poll and ends    *)
(* the poller.  One mutex covers each creation, cancellation and poll, but *)
(* the exchange moves on, goroutines publish and the process may die at    *)
(* any point of them.                                                      *)
(*                                                                         *)
(* The exchange and the storage are external: they answer, or fail as      *)
(* Failing allows.  CANCELED stands for every status an order that did not *)
(* execute ends with.  Quantities, prices and profits are left out: a      *)
(* trade is booked or it is not.  The orders are of one pair, whose feed   *)
(* has one goroutine; pairs share the mutex only.                          *)
(***************************************************************************)
EXTENDS Integers, Sequences, FiniteSets

CONSTANTS
  Client,         \* the threads that create and cancel orders
  Commander,      \* the threads that call Start and Stop
  Poller,         \* the goroutines Start may launch (bounds the starts)
  Id,             \* the orders (bounds the creations)
  Free,           \* the mutex is not held
  Nobody,         \* the feed's goroutine waits for an order
  FilledAtOnce,   \* the methods the exchange may answer with a filled order
  CancelsFilled,  \* whether the exchange accepts to cancel an executed order
  Failing,        \* the external calls that may fail
  MaxCrashes      \* bound: how often the process dies

Method == {"oco", "limit", "market"}

ASSUME ThreadAssumption ==
  /\ Client \cap Commander = {} /\ Client \cap Poller = {} /\ Commander \cap Poller = {}
  /\ Free \notin Client \cup Commander \cup Poller

ASSUME ExchangeAssumption ==
  /\ FilledAtOnce \subseteq Method
  /\ CancelsFilled \in BOOLEAN
  /\ Failing \subseteq {"orders", "query", "create", "update"}
  /\ MaxCrashes \in Nat

Thread == Client \cup Commander \cup Poller

Open == {"NEW", "PARTIALLY_FILLED"}
ExchangeStatus == Open \cup {"FILLED", "CANCELED"}
Status == ExchangeStatus \cup {"PENDING_CANCEL"}

(* An order the controller works on: what the exchange said of it, and     *)
(* whether the operation registers its trade.                              *)
Item == [id : Id, status : Status, books : BOOLEAN]

ASSUME NobodyAssumption == Nobody \notin Item

VARIABLES
  exch,      \* the exchange's status of each order
  stored,    \* the storage's
  booked,    \* how often processTrade registered the order in Results
  executed,  \* history: the orders the exchange executed
  heard,     \* the statuses the order's subscribers were told
  status,    \* Controller.status: "" (Go's zero value), "running", "stopped"
  mtx,       \* the thread that holds the mutex
  pc,        \* what each thread does next
  batch,     \* updateOrders: the recorded orders still to be compared
  work,      \* the orders the mutex's holder has yet to record or publish
  sending,   \* the goroutines that wait to publish an order
  feed,      \* the order the feed's goroutine hands to its subscribers
  crashes    \* how often the process died

outside == <<exch, stored, booked, executed, heard>>
vars == <<outside, status, mtx, pc, batch, work, sending, feed, crashes>>

Label == {"none", "idle", "select", "starting", "stopping", "lock", "compare", "book",
          "publish", "finish", "store", "announce", "cancel", "done"}

TypeOK ==
  /\ exch \in [Id -> ExchangeStatus \cup {"NONE"}]
  /\ stored \in [Id -> Status \cup {"NONE"}]
  /\ booked \in [Id -> Nat]
  /\ executed \subseteq Id
  /\ heard \in [Id -> SUBSET Status]
  /\ status \in {"", "running", "stopped"}
  /\ mtx \in Thread \cup {Free}
  /\ pc \in [Thread -> Label]
  /\ batch \subseteq Id
  /\ work \in Seq(Item)
  /\ sending \subseteq Item
  /\ feed \in Item \cup {Nobody}
  /\ crashes \in Nat

(* The state of a process that just began.                                 *)
Fresh == [t \in Thread |-> IF t \in Poller THEN "none" ELSE "idle"]

Init ==
  /\ exch = [i \in Id |-> "NONE"] /\ stored = [i \in Id |-> "NONE"]
  /\ booked = [i \in Id |-> 0] /\ executed = {} /\ heard = [i \in Id |-> {}]
  /\ status = "" /\ mtx = Free /\ pc = Fresh
  /\ batch = {} /\ work = <<>> /\ sending = {} /\ feed = Nobody
  /\ crashes = 0

Goto(t, label) == pc' = [pc EXCEPT ![t] = label]

Acquire(t) == mtx = Free /\ mtx' = t

(* The deferred Unlock.                                                    *)
Return(t, label) == mtx' = Free /\ batch' = {} /\ work' = <<>> /\ Goto(t, label)

-----------------------------------------------------------------------------
(* The exchange executes, cancels or expires an order whenever it likes.   *)

Progress(i, s) ==
  /\ exch[i] \in Open
  /\ s \in ExchangeStatus \ {"NEW", exch[i]}
  /\ exch' = [exch EXCEPT ![i] = s]
  /\ executed' = IF s = "FILLED" THEN executed \cup {i} ELSE executed
  /\ UNCHANGED <<stored, booked, heard, status, mtx, pc, batch, work, sending, feed, crashes>>

-----------------------------------------------------------------------------
(* processTrade: an executed order adds to the results.                    *)

(* Mutants: the trade is forgotten; the status is not looked at.           *)
BooksNothing(w) == FALSE
BooksPending(w) == w.books

Books(w) == w.books /\ w.status = "FILLED"

ProcessTrade(w) == booked' = IF Books(w) THEN [booked EXCEPT ![w.id] = @ + 1] ELSE booked

-----------------------------------------------------------------------------
(* CreateOrderOCO, CreateOrderLimit, CreateOrderStop (method "limit"),     *)
(* CreateOrderMarket, CreateOrderMarketQuote (method "market").            *)

Legs(method) == IF method = "oco" THEN 2 ELSE 1

(* The exchange's answer; a call it refuses changes nothing.               *)
CreateOrder(c, method, ids, s) ==
  /\ pc[c] = "idle" /\ Acquire(c)
  /\ Len(ids) = Legs(method)
  /\ \A k \in DOMAIN ids : exch[ids[k]] = "NONE"
  /\ s = "NEW" \/ (s = "FILLED" /\ method \in FilledAtOnce)
  /\ exch' = [i \in Id |-> IF \E k \in DOMAIN ids : ids[k] = i THEN s ELSE exch[i]]
  /\ executed' = IF s = "FILLED" THEN executed \cup {ids[k] : k \in DOMAIN ids} ELSE executed
  /\ work' = [k \in DOMAIN ids |->
                [id |-> ids[k], status |-> s, books |-> method = "market"]]
  /\ Goto(c, "store")
  /\ UNCHANGED <<stored, booked, heard, status, batch, sending, feed, crashes>>

StoreOrder(c) ==
  /\ pc[c] = "store"
  /\ stored' = [stored EXCEPT ![Head(work).id] = Head(work).status]
  /\ Goto(c, "announce")
  /\ UNCHANGED <<exch, booked, executed, heard, status, mtx, batch, work, sending, feed, crashes>>

(* The remaining legs of the group are not recorded either.                *)
StoreOrderFails(c) ==
  /\ pc[c] = "store" /\ "create" \in Failing
  /\ Return(c, "idle")
  /\ UNCHANGED <<outside, status, sending, feed, crashes>>

(* Mutants: the second leg of a group is forgotten; nothing is published.  *)
LastLegMutant == TRUE
PublishesNothing(w) == {}

LastLeg == Len(work) = 1

(* go orderFeed.Publish                                                    *)
Publishes(w) == {w}

(* A market order is booked, the order is published, and the next leg's    *)
(* turn comes.                                                             *)
Announce(c) ==
  /\ pc[c] = "announce"
  /\ ProcessTrade(Head(work))
  /\ sending' = sending \cup Publishes(Head(work))
  /\ IF LastLeg
       THEN Return(c, "idle")
       ELSE work' = Tail(work) /\ Goto(c, "store") /\ UNCHANGED <<mtx, batch>>
  /\ UNCHANGED <<exch, stored, executed, heard, status, feed, crashes>>

-----------------------------------------------------------------------------
(* Cancel, with a copy of the order the client got when it was recorded.   *)

(* Mutants: the exchange's refusal is ignored; an unknown status is stored. *)
CancelAcceptedMutant(i) == TRUE
CancelItemMutant(i) == [id |-> i, status |-> "CANCELING", books |-> FALSE]

(* exchange.Cancel: an order that has ended is refused, except by the      *)
(* paper wallet.                                                           *)
CancelAccepted(i) == exch[i] \in Open \/ CancelsFilled

CancelItem(i) == [id |-> i, status |-> "PENDING_CANCEL", books |-> FALSE]

Cancel(c, i) ==
  /\ pc[c] = "idle" /\ stored[i] # "NONE"
  /\ Acquire(c)
  /\ CancelAccepted(i)
  /\ exch' = [exch EXCEPT ![i] = "CANCELED"]
  /\ work' = <<CancelItem(i)>>
  /\ Goto(c, "cancel")
  /\ UNCHANGED <<stored, booked, executed, heard, status, batch, sending, feed, crashes>>

StoreCancel(c) ==
  /\ pc[c] = "cancel"
  /\ \/ stored' = [stored EXCEPT ![Head(work).id] = Head(work).status]
     \/ "update" \in Failing /\ UNCHANGED stored
  /\ Return(c, "idle")
  /\ UNCHANGED <<exch, booked, executed, heard, status, sending, feed, crashes>>

-----------------------------------------------------------------------------
(* updateOrders, by a poller or by Stop.                                   *)

(* Mutant: cancelled orders are not followed.                              *)
PollableMutant(i) == stored[i] \in Open

Pollable(i) == stored[i] \in Open \cup {"PENDING_CANCEL"}

PollBegin(t) ==
  /\ pc[t] = "lock" /\ Acquire(t)
  /\ batch' = {i \in Id : Pollable(i)}
  /\ Goto(t, "compare")
  /\ UNCHANGED <<outside, status, work, sending, feed, crashes>>

(* exchange.Order fails, nothing changed, or the storage fails: on to the  *)
(* next order.                                                             *)
PollSkips(t, i) ==
  /\ pc[t] = "compare" /\ i \in batch
  /\ exch[i] = stored[i] \/ "query" \in Failing \/ "update" \in Failing
  /\ batch' = batch \ {i}
  /\ UNCHANGED <<outside, status, mtx, pc, work, sending, feed, crashes>>

PollUpdates(t, i) ==
  /\ pc[t] = "compare" /\ i \in batch
  /\ exch[i] # stored[i]
  /\ stored' = [stored EXCEPT ![i] = exch[i]]
  /\ work' = Append(work, [id |-> i, status |-> exch[i], books |-> TRUE])
  /\ batch' = batch \ {i}
  /\ UNCHANGED <<exch, booked, executed, heard, status, mtx, pc, sending, feed, crashes>>

PollCompared(t) ==
  /\ pc[t] = "compare" /\ batch = {}
  /\ Goto(t, "book")
  /\ UNCHANGED <<outside, status, mtx, batch, work, sending, feed, crashes>>

PollBooks(t) ==
  /\ pc[t] = "book" /\ work # <<>>
  /\ ProcessTrade(Head(work))
  /\ Goto(t, "publish")
  /\ UNCHANGED <<exch, stored, executed, heard, status, mtx, batch, work, sending, feed, crashes>>

(* The feed's channel has no buffer: the poller waits, with the mutex, for *)
(* the feed's goroutine.                                                   *)
PollPublishes(t) ==
  /\ pc[t] = "publish" /\ feed = Nobody
  /\ feed' = Head(work)
  /\ work' = Tail(work)
  /\ Goto(t, "book")
  /\ UNCHANGED <<outside, status, mtx, batch, sending, crashes>>

PollEnd(t) ==
  /\ pc[t] = "book" /\ work = <<>>
  /\ Return(t, IF t \in Poller THEN "select" ELSE "finish")
  /\ UNCHANGED <<outside, status, sending, feed, crashes>>

PollStep(t) == PollBegin(t) \/ (\E i \in Id : PollSkips(t, i) \/ PollUpdates(t, i))
                 \/ PollCompared(t) \/ PollBooks(t) \/ PollPublishes(t) \/ PollEnd(t)

-----------------------------------------------------------------------------
(* Start and Stop read and write the status without the mutex.             *)

(* Mutants: the status is not looked at.                                   *)
MayStartMutant == TRUE

MayStart == status # "running"

StartBegin(k) ==
  /\ pc[k] = "idle" /\ MayStart
  /\ Cardinality({x \in Commander : pc[x] = "starting"})
       < Cardinality({p \in Poller : pc[p] = "none"})
  /\ Goto(k, "starting")
  /\ UNCHANGED <<outside, status, mtx, batch, work, sending, feed, crashes>>

StartEnd(k, p) ==
  /\ pc[k] = "starting" /\ pc[p] = "none"
  /\ status' = "running"
  /\ pc' = [pc EXCEPT ![k] = "idle", ![p] = "select"]
  /\ UNCHANGED <<outside, mtx, batch, work, sending, feed, crashes>>

MayStopMutant == TRUE

MayStop == status = "running"

StopBegin(k) ==
  /\ pc[k] = "idle" /\ MayStop
  /\ Goto(k, "stopping")
  /\ UNCHANGED <<outside, status, mtx, batch, work, sending, feed, crashes>>

StopMarks(k) ==
  /\ pc[k] = "stopping"
  /\ status' = "stopped"
  /\ Goto(k, "lock")
  /\ UNCHANGED <<outside, mtx, batch, work, sending, feed, crashes>>

(* finish <- true: a poller that waits in its select receives it and ends. *)
StopEnd(k, p) ==
  /\ pc[k] = "finish" /\ pc[p] = "select"
  /\ pc' = [pc EXCEPT ![k] = "idle", ![p] = "done"]
  /\ UNCHANGED <<outside, status, mtx, batch, work, sending, feed, crashes>>

Tick(p) ==
  /\ pc[p] = "select"
  /\ Goto(p, "lock")
  /\ UNCHANGED <<outside, status, mtx, batch, work, sending, feed, crashes>>

-----------------------------------------------------------------------------
(* The goroutines that publish new orders, and the feed's.                 *)

Publish(w) ==
  /\ w \in sending /\ feed = Nobody
  /\ feed' = w
  /\ sending' = sending \ {w}
  /\ UNCHANGED <<outside, status, mtx, pc, batch, work, crashes>>

Deliver ==
  /\ feed # Nobody
  /\ heard' = [heard EXCEPT ![feed.id] = @ \cup {feed.status}]
  /\ feed' = Nobody
  /\ UNCHANGED <<exch, stored, booked, executed, status, mtx, pc, batch, work, sending, crashes>>

(* The process dies and begins again with the same storage and exchange.   *)
Crash ==
  /\ crashes < MaxCrashes
  /\ crashes' = crashes + 1
  /\ status' = "" /\ mtx' = Free /\ pc' = Fresh
  /\ batch' = {} /\ work' = <<>> /\ sending' = {} /\ feed' = Nobody
  /\ UNCHANGED outside

(* storage.Orders fails: updateOrders unlocks the mutex, the deferred      *)
(* Unlock unlocks it again, and the runtime ends the process.              *)
PollFails(t) == pc[t] = "lock" /\ mtx = Free /\ "orders" \in Failing /\ Crash

-----------------------------------------------------------------------------

ClientRequest(c) ==
  \/ \E method \in Method, s \in {"NEW", "FILLED"} :
       \/ \E i \in Id : CreateOrder(c, method, <<i>>, s)
       \/ \E i, j \in Id : i # j /\ CreateOrder(c, method, <<i, j>>, s)
  \/ \E i \in Id : Cancel(c, i)

ClientStep(c) == StoreOrder(c) \/ StoreOrderFails(c) \/ Announce(c) \/ StoreCancel(c)

Next ==
  \/ \E i \in Id, s \in ExchangeStatus : Progress(i, s)
  \/ \E c \in Client : ClientRequest(c) \/ ClientStep(c)
  \/ \E k \in Commander : StartBegin(k) \/ StopBegin(k) \/ StopMarks(k)
  \/ \E k \in Commander, p \in Poller : StartEnd(k, p) \/ StopEnd(k, p)
  \/ \E p \in Poller : Tick(p)
  \/ \E t \in Commander \cup Poller : PollStep(t) \/ PollFails(t)
  \/ \E w \in sending : Publish(w)
  \/ Deliver
  \/ Crash

Spec == Init /\ [][Next]_vars

(* The scheduler runs every goroutine that can run, and a blocked one is   *)
(* not passed over forever (Go's mutexes and channels serve waiters in     *)
(* order; select picks among the ready cases at random).  An exchange      *)
(* asked again and again for an order answers in the end, and a storage    *)
(* records it.                                                             *)
Fairness ==
  /\ \A c \in Client : WF_vars(ClientStep(c))
  /\ \A k \in Commander :
       SF_vars(StopMarks(k) \/ PollStep(k) \/ \E p \in Poller : StopEnd(k, p))
  /\ \A p \in Poller : SF_vars(Tick(p) \/ PollStep(p))
  /\ \A p \in Poller, i \in Id : SF_vars(PollUpdates(p, i))
  /\ WF_vars(\E w \in sending : Publish(w))
  /\ WF_vars(Deliver)

FairSpec == Spec /\ Fairness

-----------------------------------------------------------------------------
(* Properties.                                                             *)

(* The results implement the trade book: an order is booked once, and only *)
(* when the exchange executed it, although it is compared again and again, *)
(* by several pollers and by Stop, before and after a crash.               *)
Book == INSTANCE TradeBook WITH
  filled <- executed,
  booked <- {i \in Id : booked[i] = 1}

BookedOnce == Book!Spec

(* Between two operations the storage and the results tell the same story: *)
(* exactly the orders recorded as executed are booked, as long as the      *)
(* process lives and only market orders are executed at once.              *)
ResultsAgree ==
  mtx = Free /\ crashes = 0 /\ FilledAtOnce \subseteq {"market"} /\ ~CancelsFilled
    => \A i \in Id : stored[i] = "FILLED" <=> booked[i] = 1

(* A subscriber that is told of an execution finds the trade in the        *)
(* results, and the execution in the storage.                              *)
HeardIsBooked ==
  FilledAtOnce \subseteq {"market"} =>
    \A i \in Id : "FILLED" \in heard[i] =>
      booked[i] = 1 /\ (~CancelsFilled => stored[i] = "FILLED")

(* The end the storage records for an order is final: no late comparison,  *)
(* stale copy or second poller overwrites it, also across crashes, if the  *)
(* exchange refuses to cancel what it executed.                            *)
EndIsFinal ==
  [][\A i \in Id :
       stored[i] \in {"FILLED", "CANCELED"} /\ ~CancelsFilled
         => stored'[i] = stored[i] /\ exch'[i] = stored[i]]_vars

(* An order the exchange knows and the storage does not, which nobody ever *)
(* compares or books, is left behind only by a crash or a failed recording *)
(* between the two calls: at most the legs of one group for each crash.    *)
Orphans == {i \in Id : exch[i] # "NONE" /\ stored[i] = "NONE"
                          /\ \A n \in DOMAIN work : work[n].id # i}

OrphansOnlyByCrash == "create" \notin Failing => Cardinality(Orphans) <= 2 * crashes

(* With one thread that gives the commands, there is one poller while the  *)
(* controller runs, and none when it stopped.                              *)
Running == {p \in Poller : pc[p] \notin {"none", "done"}}

OnePoller ==
  \A k \in Commander :
    Commander = {k} /\ pc[k] = "idle"
      => Cardinality(Running) = IF status = "running" THEN 1 ELSE 0

(* While the controller runs and does not crash, the storage learns how    *)
(* each recorded order ended, although comparisons and recordings fail.    *)
EndIsRecorded ==
  \A i \in Id :
    stored[i] # "NONE" /\ exch[i] \in {"FILLED", "CANCELED"}
      ~> stored[i] = exch[i] \/ status # "running"

(* The subscribers hear of each recorded execution, unless the process     *)
(* dies, although the poller that publishes it holds the mutex meanwhile.  *)
FillIsHeard ==
  \A i \in Id : stored[i] = "FILLED" ~> "FILLED" \in heard[i] \/ crashes > 0

(* Stop returns, whatever the pollers and the clients do meanwhile.        *)
StopReturns == \A k \in Commander : pc[k] = "stopping" ~> pc[k] = "idle"

(* Telegram describes its command /stop, which calls Stop, as "Stop buy    *)
(* and sell coins": no order is created once the controller has stopped.    *)
StoppedCreatesNothing ==
  [][status = "stopped" /\ (\A k \in Commander : pc[k] = "idle" /\ pc'[k] = "idle")
       => \A i \in Id : exch[i] = "NONE" => exch'[i] = "NONE"]_vars

=============================================================================
